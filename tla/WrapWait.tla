------------------------------ MODULE WrapWait ------------------------------
(***************************************************************************)
(* How long `actime run` waits for `actplane run` (wait_for_wrap_pid,      *)
(* terminate_child_graceful and the end of run_host_policy_wrap in         *)
(* crates/actime-cli/src/run.rs): the start grace, the idle window, the    *)
(* natural-exit window, SIGTERM, SIGKILL, and the wall-clock limit that    *)
(* may expire in any of them.                                              *)
(*                                                                         *)
(* Time is counted in polls: every turn of a waiting loop looks once at    *)
(* the child and sleeps for one unit.  The child and the agent move freely *)
(* between two looks.                                                      *)
(***************************************************************************)
EXTENDS Integers

CONSTANTS
  StartGrace, WrapIdle, Natural,  \* START_GRACE, WRAP_IDLE, NATURAL_EXIT
  TermGrace, KillGrace,           \* after SIGTERM, after SIGKILL
  Limits,                         \* wall-clock limits to start from
  Codes,                          \* statuses the engine may end with by itself
  WaitMayFail,                    \* TRUE: try_wait may fail on an exited child
  MaxTime                         \* bound: the time at which the model stops

ASSUME ConstantsAssumption ==
  /\ {StartGrace, WrapIdle, TermGrace, KillGrace, MaxTime} \subseteq Nat
  /\ Natural \in Nat \ {0}
  /\ Limits \subseteq Nat \cup {-1}
  /\ Codes \subseteq 0..255
  /\ WaitMayFail \in BOOLEAN

VARIABLES
  limit,      \* limits.wall_clock, or Never
  now,        \* time since the wrap was spawned
  pc,         \* "poll", "natural", "term", "kill", "over" or "failed"
  since,      \* when the current window opened
  idleSince,  \* idle_since, or Never
  reason,     \* why the wrap is being shut down: "none", "idle" or "limit"
  child,      \* the wrap: "running" or "exited"
  code,       \* its exit status
  agent,      \* a process that is no helper runs below the wrap
  seen,       \* history: when an agent was last seen, or Never
  answer      \* what run_host_policy_wrap returns

vars == <<limit, now, pc, since, idleSince, reason, child, code, agent, seen, answer>>
world == <<limit, child, code, agent>>

Never  == -1
SIGTERM == 143
SIGKILL == 137

----------------------------------------------------------------------------
(* The loops. *)

Sleep == now < MaxTime /\ now' = now + 1

\* A wrong form: 128 is added to a status that has it already.
Surfaced_Twice(c) == IF c >= 128 THEN 128 + c ELSE c

\* The status the caller sees: a forced death after the agent is exit code 0.
Surfaced(c) ==
  IF child = "exited" /\ c = 0
    THEN IF code >= 128 THEN 0 ELSE code
    ELSE c

Return(c) ==
  /\ pc' = "over"
  /\ answer' = c
  /\ UNCHANGED <<now, since, idleSince, reason, seen, world>>

\* The windows; the main loop has none.
Window == [poll |-> MaxTime + 1, natural |-> Natural, term |-> TermGrace, kill |-> KillGrace]

Pending == pc \in DOMAIN Window

\* A waiting loop looks at the child, until its window closes.
Looks == Pending /\ now < since + Window[pc]

\* A look that obtains the status; an idle shutdown discards it for 0.
Exited ==
  /\ Looks
  /\ child = "exited"
  /\ Return(Surfaced(IF reason = "idle" THEN 0 ELSE code))

\* A look that fails; after SIGKILL that only ends the loop.
WaitFails ==
  /\ WaitMayFail
  /\ Looks /\ pc # "kill"
  /\ child = "exited"
  /\ pc' = "failed"
  /\ UNCHANGED <<now, since, idleSince, reason, seen, answer, world>>

Expired == limit # Never /\ now >= limit

\* SIGTERM is sent and its grace begins.
Terminate(why) ==
  /\ pc' = "term"
  /\ since' = now
  /\ reason' = why

NowIdleSince_Kept ==
  IF idleSince # Never THEN idleSince
  ELSE IF agent THEN Never ELSE IF now >= StartGrace THEN now ELSE Never

\* idle_since after a look at the process tree.
NowIdleSince ==
  CASE agent -> Never
    [] ~agent /\ now < StartGrace -> idleSince
    [] OTHER -> IF idleSince = Never THEN now ELSE idleSince

Idle == NowIdleSince # Never /\ now - NowIdleSince >= WrapIdle

Look ==
  /\ idleSince' = NowIdleSince
  /\ seen' = IF agent THEN now ELSE seen

\* One turn of the main loop, while the child runs.
Poll ==
  /\ pc = "poll"
  /\ child = "running"
  /\ ~Idle /\ ~Expired
  /\ Look
  /\ Sleep
  /\ UNCHANGED <<pc, since, reason, answer, world>>

\* The agent has been gone for the idle window, which opens the natural-exit one.
SeeIdle ==
  /\ pc = "poll"
  /\ child = "running"
  /\ Idle
  /\ Look
  /\ pc' = "natural"
  /\ since' = now
  /\ UNCHANGED <<now, reason, answer, world>>

\* A turn of the natural-exit window: the deadline is looked at, the agent is not.
AwaitNaturalExit_DeadlineUnseen ==
  /\ pc = "natural" /\ Looks
  /\ child = "running"
  /\ Sleep
  /\ UNCHANGED <<pc, since, idleSince, reason, seen, answer, world>>

AwaitNaturalExit ==
  /\ pc = "natural" /\ Looks
  /\ child = "running"
  /\ Sleep
  /\ IF limit # Never /\ now' >= limit
       THEN pc' = "term" /\ since' = now' /\ reason' = "limit"
       ELSE UNCHANGED <<pc, since, reason>>
  /\ UNCHANGED <<idleSince, seen, answer, world>>

ReapIdle ==
  /\ pc = "natural" /\ ~Looks
  /\ Terminate("idle")
  /\ UNCHANGED <<now, idleSince, seen, answer, world>>

DeadlineExpires ==
  /\ pc = "poll"
  /\ child = "running"
  /\ ~Idle /\ Expired
  /\ Look
  /\ Terminate("limit")
  /\ UNCHANGED <<now, answer, world>>

\* terminate_child_graceful: SIGTERM, a grace, SIGKILL, a shorter one, give up.
AwaitTerm ==
  /\ pc = "term" /\ Looks
  /\ child = "running"
  /\ Sleep
  /\ UNCHANGED <<pc, since, idleSince, reason, seen, answer, world>>

Kill ==
  /\ pc = "term" /\ ~Looks
  /\ pc' = "kill"
  /\ since' = now
  /\ UNCHANGED <<now, idleSince, reason, seen, answer, world>>

AwaitKill ==
  /\ pc = "kill" /\ Looks
  /\ child = "running"
  /\ Sleep
  /\ UNCHANGED <<pc, since, idleSince, reason, seen, answer, world>>

GiveUp ==
  /\ pc = "kill"
  /\ Looks => WaitMayFail /\ child = "exited"
  /\ LET c == IF reason = "idle" THEN 0 ELSE SIGKILL
     IN  Return(Surfaced(c)) \/ (WaitMayFail /\ Return(c))

----------------------------------------------------------------------------
(* The processes. *)

loops == <<limit, now, pc, since, idleSince, reason, seen, answer>>

\* An agent appears below the wrap: started, or renamed from a helper's name.
AgentAppears ==
  /\ pc \notin {"over", "failed"}
  /\ child = "running" /\ ~agent
  /\ agent' = TRUE
  /\ UNCHANGED <<child, code, loops>>

\* The last of them exits, is reparented, or takes a helper's name.
AgentLeaves ==
  /\ agent
  /\ agent' = FALSE
  /\ UNCHANGED <<child, code, loops>>

\* The engine may exit at any time, and by the signal it was sent.  One in an
\* uninterruptible wait, or a sudo the user may not signal, does neither.
WrapExits ==
  /\ pc \notin {"over", "failed"}
  /\ child = "running"
  /\ child' = "exited"
  /\ code' \in Codes \cup (IF pc \in {"term", "kill"} THEN {SIGTERM} ELSE {})
                     \cup (IF pc = "kill" THEN {SIGKILL} ELSE {})
  /\ agent' = FALSE
  /\ UNCHANGED loops

----------------------------------------------------------------------------

Init ==
  /\ limit \in Limits
  /\ now = 0
  /\ pc = "poll"
  /\ since = 0
  /\ idleSince = Never
  /\ reason = "none"
  /\ child = "running"
  /\ code = Never
  /\ agent = FALSE
  /\ seen = Never
  /\ answer = Never

Wait ==
  \/ Exited \/ WaitFails \/ Poll \/ SeeIdle \/ AwaitNaturalExit \/ ReapIdle
  \/ DeadlineExpires \/ AwaitTerm \/ Kill \/ AwaitKill \/ GiveUp

Next == Wait \/ AgentAppears \/ AgentLeaves \/ WrapExits

Spec == Init /\ [][Next]_vars

----------------------------------------------------------------------------
(* Properties. *)

\* Every variable holds a value the wait can give it.
TypeOK ==
  /\ limit \in Limits
  /\ {now, since} \subseteq 0 .. MaxTime
  /\ {idleSince, seen} \subseteq {Never} \cup 0 .. MaxTime
  /\ pc \in {"poll", "natural", "term", "kill", "over", "failed"}
  /\ reason \in {"none", "idle", "limit"}
  /\ child \in {"running", "exited"}
  /\ agent \in BOOLEAN
  /\ {code, answer} \subseteq {Never, SIGTERM, SIGKILL} \cup 0..255

\* A wall-clock limit is overrun by the shutdown graces at most, whichever window
\* it expires in.
LimitIsKept == Pending /\ limit # Never => now <= limit + 1 + TermGrace + KillGrace

\* The wrap is given up for idle only after a whole idle window in which no look
\* found an agent, and never within the start grace.
IdleMeansIdle ==
  pc = "natural" =>
    /\ since >= StartGrace + WrapIdle
    /\ since - seen > WrapIdle
=============================================================================
