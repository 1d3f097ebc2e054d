------------------------------- MODULE Backup -------------------------------
(***************************************************************************)
(* The backup of a run (BackupPlane::commit in                             *)
(* crates/actime-cli/src/planes.rs): `akeep init`, then `akeep commit`,    *)
(* each called through run_with_timeout, which polls the child until it    *)
(* exits or its time is up, then signals it, and gives it up if it does    *)
(* not die.                                                                *)
(*                                                                         *)
(* Time is counted in polls.  Akeep moves freely between any two steps of  *)
(* actime, also between a look that finds it running and the sleep or the  *)
(* signal that follows: it commits, hangs in the kernel, prints, ends, or  *)
(* leaves a process of its own behind that holds its output open.          *)
(***************************************************************************)
EXTENDS Integers

CONSTANTS
  Limit,         \* AKEEP_TIMEOUT
  TermPause,     \* sleep between SIGTERM and SIGKILL
  ReapGrace,     \* how long SIGKILL may take
  WaitMayFail,   \* TRUE: try_wait may fail on an exited child
  MaxTime        \* bound: the time at which the model stops

ASSUME ConstantsAssumption ==
  /\ {Limit, TermPause, ReapGrace, MaxTime} \subseteq Nat
  /\ WaitMayFail \in BOOLEAN

VARIABLES
  enabled,    \* backup.enabled, and akeep is installed
  call,       \* the call being made: "init" or "commit"
  pc,         \* control point in run_with_timeout, or "done"
  now,        \* time since the first call
  since,      \* when the current window opened
  akeep,      \* the process of each call
  heir,       \* a process that akeep commit left holds its output open
  committed,  \* the vault has the snapshot
  late,       \* history: akeep commit succeeded after a look had found it running,
              \* and before the next
  held,       \* history: time spent reading output to its end
  outcome,    \* outcome of the plane, or "none"
  saved       \* a commit id is returned

vars == <<enabled, call, pc, now, since, akeep, heir, committed, late, held, outcome,
          saved>>
world == <<enabled, akeep, heir, committed, late>>
result == <<outcome, saved>>

Calls == {"init", "commit"}

\* A process is unborn; then running, stuck in the kernel, or blocked on a full pipe,
\* which nobody reads before it ends; then it has ended well or badly.
Alive(c) == akeep[c] \in {"running", "stuck", "blocked"}
Ended(c) == akeep[c] \in {"ok", "failed"}

----------------------------------------------------------------------------
(* Akeep. *)

\* SIGKILL has been sent: it takes effect when the kernel lets go of the process.
Killed == pc \in {"reap", "done"}

Becomes(c, from, to) == akeep[c] = from /\ akeep' = [akeep EXCEPT ![c] = to]

Moves ==
  \E c \in Calls :
    \/ Becomes(c, "running", "stuck")
    \/ Becomes(c, "stuck", IF Killed THEN "failed" ELSE "running")
    \/ Becomes(c, "running", "failed")

Hang ==
  /\ Moves
  /\ UNCHANGED <<enabled, call, pc, now, since, heir, committed, late, held, result>>

Snapshot ==
  /\ akeep["commit"] = "running"
  /\ committed' = TRUE
  /\ UNCHANGED <<enabled, call, pc, now, since, akeep, heir, late, held, result>>

\* It prints more than a pipe holds.
FillPipe ==
  /\ Becomes("commit", "running", "blocked")
  /\ UNCHANGED <<enabled, call, pc, now, since, heir, committed, late, held, result>>

Succeed ==
  /\ \/ Becomes("init", "running", "ok")
     \/ Becomes("commit", "running", "ok") /\ committed
  /\ late' = (call = "commit" /\ pc # "poll")
  /\ UNCHANGED <<enabled, call, pc, now, since, heir, committed, held, result>>

Leave ==
  /\ akeep["commit"] = "running" /\ ~heir
  /\ heir' = TRUE
  /\ UNCHANGED <<enabled, call, pc, now, since, akeep, committed, late, held, result>>

HeirEnds ==
  /\ heir
  /\ heir' = FALSE
  /\ UNCHANGED <<enabled, call, pc, now, since, akeep, committed, late, held, result>>

----------------------------------------------------------------------------
(* BackupPlane::commit. *)

Finish(o, id) ==
  /\ pc' = "done"
  /\ outcome' = o
  /\ saved' = id
  /\ UNCHANGED call

\* A call has ended in time, whatever its status: after init, commit is called.
Finished ==
  IF call = "init"
    THEN pc' = "spawn" /\ call' = "commit" /\ UNCHANGED result
    ELSE IF akeep["commit"] = "ok" THEN \E id \in BOOLEAN : Finish("Active", id)
                                   ELSE Finish("Degraded", FALSE)

\* (A wrong form: init is not needed.)
TimedOut_InitIgnored ==
  IF call = "init" THEN pc' = "spawn" /\ call' = "commit" /\ UNCHANGED result
                   ELSE Finish("Degraded", FALSE)
TimedOut == Finish("Degraded", FALSE)

Errs == Finish("Disabled", FALSE)

\* run_with_timeout.
Spawn ==
  /\ pc = "spawn" /\ enabled
  /\ akeep' = [akeep EXCEPT ![call] = "running"]
  /\ pc' = "poll"
  /\ since' = now
  /\ UNCHANGED <<enabled, call, now, heir, committed, late, held, result>>

SpawnFails ==
  /\ pc = "spawn"
  /\ Errs
  /\ UNCHANGED <<world, now, since, held>>

\* The output of init is not asked for; that of commit is read to its end, which
\* comes when nobody holds it any more.
SeeExit ==
  /\ pc = "poll"
  /\ Ended(call)
  /\ IF call = "init" THEN Finished ELSE pc' = "drain" /\ UNCHANGED <<call, result>>
  /\ UNCHANGED <<world, now, since, held>>

WaitFails ==
  /\ WaitMayFail
  /\ pc = "poll"
  /\ Ended(call)
  /\ Errs
  /\ UNCHANGED <<world, now, since, held>>

Drain ==
  /\ pc = "drain"
  /\ ~heir
  /\ Finished
  /\ UNCHANGED <<world, now, since, held>>

\* Reading goes on.
Drag ==
  /\ pc = "drain"
  /\ heir
  /\ now < MaxTime
  /\ now' = now + 1
  /\ held' = held + 1
  /\ UNCHANGED <<world, call, pc, since, result>>

\* (A wrong form of Closed: one poll too many.)
Window == [poll |-> Limit, looked |-> Limit, paused |-> TermPause, reap |-> ReapGrace]
Closed_Late == now > since + Window[pc]
Closed == now >= since + Window[pc]

\* A look finds the child running; the clock is read next.
Look ==
  /\ pc = "poll"
  /\ ~Ended(call)
  /\ pc' = "looked"
  /\ UNCHANGED <<world, call, now, since, held, result>>

\* The thread is held up between the look and the clock.
Linger ==
  /\ pc = "looked"
  /\ ~Closed
  /\ now < MaxTime
  /\ now' = now + 1
  /\ UNCHANGED <<world, call, pc, since, held, result>>

\* A turn of a waiting loop that sleeps.  (A wrong form: the deadline is set anew.)
Sleep_Restarted ==
  /\ pc \in {"looked", "paused", "reap"}
  /\ ~Closed
  /\ pc = "reap" => ~Ended(call)
  /\ now < MaxTime
  /\ now' = now + 1
  /\ since' = now'
  /\ pc' = IF pc = "looked" THEN "poll" ELSE pc
  /\ UNCHANGED <<world, call, held, result>>
Sleep ==
  /\ pc \in {"looked", "paused", "reap"}
  /\ ~Closed
  /\ pc = "reap" => ~Ended(call)
  /\ now < MaxTime
  /\ now' = now + 1
  /\ pc' = IF pc = "looked" THEN "poll" ELSE pc
  /\ UNCHANGED <<world, call, since, held, result>>

\* The time is up: SIGTERM, to a child that has perhaps ended since the look.
\* (Wrong form: the clock is read first.)
Terminate_Unseen ==
  /\ pc \in {"poll", "looked"}
  /\ Closed
  /\ pc' = "paused"
  /\ since' = now
  /\ UNCHANGED <<world, call, now, held, result>>
Terminate ==
  /\ pc = "looked"
  /\ Closed
  /\ pc' = "paused"
  /\ since' = now
  /\ UNCHANGED <<world, call, now, held, result>>

\* SIGKILL ends a process that is not in the kernel.
Kill ==
  /\ pc = "paused"
  /\ Closed
  /\ pc' = "reap"
  /\ since' = now
  /\ akeep' = [akeep EXCEPT ![call] = IF @ \in {"running", "blocked"} THEN "failed" ELSE @]
  /\ UNCHANGED <<enabled, heir, committed, late, call, now, held, result>>

\* It is reaped, or left.
Reap ==
  /\ pc = "reap"
  /\ Ended(call) \/ Closed
  /\ TimedOut
  /\ UNCHANGED <<world, now, since, held>>

----------------------------------------------------------------------------

Init ==
  /\ enabled \in BOOLEAN
  /\ call = "init"
  /\ pc = IF enabled THEN "spawn" ELSE "done"
  /\ now = 0
  /\ since = 0
  /\ akeep = [c \in Calls |-> "unborn"]
  /\ heir = FALSE
  /\ committed = FALSE
  /\ late = FALSE
  /\ held = 0
  /\ outcome = IF enabled THEN "none" ELSE "Disabled"
  /\ saved = FALSE

Akeep == Hang \/ Snapshot \/ FillPipe \/ Succeed \/ Leave \/ HeirEnds

Main ==
  \/ Spawn \/ SpawnFails \/ SeeExit \/ WaitFails \/ Drain \/ Drag \/ Look \/ Linger
  \/ Sleep \/ Terminate \/ Kill \/ Reap

Next == Akeep \/ Main

Spec == Init /\ [][Next]_vars

----------------------------------------------------------------------------
(* Properties. *)

CallLimit == Limit + TermPause + ReapGrace

\* Every variable holds a value the program can give it, and no window is overrun.
TypeOK ==
  /\ enabled \in BOOLEAN
  /\ call \in Calls
  /\ pc \in {"spawn", "poll", "looked", "paused", "reap", "drain", "done"}
  /\ now \in 0 .. MaxTime /\ since \in 0 .. now /\ held \in 0 .. now
  /\ pc \in DOMAIN Window => now <= since + Window[pc]
  /\ akeep \in [Calls -> {"unborn", "running", "stuck", "blocked", "ok", "failed"}]
  /\ {heir, committed, late, saved} \subseteq BOOLEAN
  /\ outcome \in {"none", "Active", "Degraded", "Disabled"}
  /\ saved => outcome = "Active"

\* Apart from the time spent reading what a process left behind still holds open, a
\* backup lasts no longer than two calls, whatever akeep does.
LimitIsKept == now - held <= 2 * CallLimit

\* The vault is never handed to an akeep while another is alive, stuck ones included.
OneAtATime == ~(Alive("init") /\ Alive("commit"))

\* A commit that succeeded is recorded as degraded only if the last look still found
\* it running.  So a success that came before SIGTERM is lost only between that look
\* and the signal; one that falls together with the deadline in a sleep counts.
TimelySuccessCounts == akeep["commit"] = "ok" /\ outcome = "Degraded" => late
=============================================================================
