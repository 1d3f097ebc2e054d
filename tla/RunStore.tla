------------------------------ MODULE RunStore ------------------------------
(***************************************************************************)
(* The run store $ACTIME_HOME/runs (crates/actime-core/src/run.rs), shared *)
(* without a lock by every actime process on the machine: processes that   *)
(* create a run directory, rewrite manifest.json in place and close it,    *)
(* and clients that list the directory, ask for the latest run or prune.   *)
(*                                                                         *)
(* A run id is a wall-clock second followed by a suffix of four hex        *)
(* digits.  Ids are ordered as strings, so the id of second t and suffix s *)
(* is modelled by the number t * Suffixes + s.                             *)
(***************************************************************************)
EXTENDS Integers, FiniteSets, FiniteSetsExt

CONSTANTS
  Procs,       \* shells, each making one run after another
  Clients,     \* processes that read or prune the store
  Ops,         \* what a client may do: "latest" or "prune"
  Suffixes,    \* number of suffixes (65536 in the code)
  Draws,       \* the suffixes a process may draw
  MaxRetries,  \* regenerations of an id already in use (8 in the code)
  Keep,        \* runs that prune keeps
  OldRuns,     \* runs closed before, in second 0
  MaxClock,    \* bound: seconds
  MaxActors,   \* bound: runs made and client operations begun, together
  MaxSaves     \* bound: saves between the first and the last of a run

ASSUME ConstantsAssumption ==
  /\ Suffixes \in Nat \ {0}
  /\ Ops \subseteq {"latest", "prune"}
  /\ Draws \in [Procs -> SUBSET (0 .. Suffixes - 1)]
  /\ OldRuns \subseteq 0 .. Suffixes - 1
  /\ {MaxRetries, Keep, MaxClock, MaxActors, MaxSaves} \subseteq Nat

VARIABLES
  clock,   \* the second
  slot,    \* what is in the store under each id
  writer,  \* what each process is doing
  client,  \* what each client is doing; its field closed is history: the runs that
           \* were closed when it began
  pruned,  \* history: ids removed by prune
  shared,  \* history: ids that two processes have worked under at a time
  actors   \* runs made and client operations begun, together

vars == <<clock, slot, writer, client, pruned, shared, actors>>

Ids  == 0 .. (MaxClock + 1) * Suffixes - 1
NoId == -1
Nobody == "nobody"

\* A directory without a manifest is "bare"; a truncated manifest is "torn", and one
\* in which the text of a process ends in the rest of another's "mixed".
Contents == {"absent", "bare", "torn", "mixed", "open", "final"}
Whole    == {"open", "final"}
Absent   == [state |-> "absent", by |-> Nobody]

Present == {id \in Ids : slot[id].state # "absent"}
Closed  == {id \in Ids : slot[id].state = "final"}

\* At "unlinked" the file a process is writing to has been removed.
WriterAt == {"idle", "check", "mkdir", "truncate", "write", "unlinked", "running",
             "closed", "failed", "dead"}

\* From its look at a vacant id to its last save a process works under the id.
Holding  == {"mkdir", "truncate", "write", "unlinked", "running"}
HeldByOther(p) ==
  \E q \in Procs \ {p} : writer[q].at \in Holding /\ writer[q].id = writer[p].id
ClientAt == {"idle", "scan", "load", "remove", "done"}

----------------------------------------------------------------------------
(* A process that records a run. *)

\* RunId::generate
Generate(p) == {clock * Suffixes + s : s \in Draws[p]}

Start(p) ==
  /\ writer[p].at \in {"idle", "closed"}
  /\ actors < MaxActors
  /\ actors' = actors + 1
  /\ \E id \in Generate(p) :
       writer' = [writer EXCEPT ![p] = [at |-> "check", id |-> id, tries |-> 0,
                                        saves |-> 0, closing |-> FALSE]]
  /\ UNCHANGED <<clock, slot, client, pruned, shared>>

Exists(p) == writer[p].id \in Present

\* Wrong forms: one retry too many; no check at all.
Taken_OneMore(p) ==
  /\ writer[p].at = "check"
  /\ Exists(p)
  /\ writer[p].tries <= MaxRetries
  /\ \E id \in Generate(p) :
       writer' = [writer EXCEPT ![p].id = id, ![p].tries = @ + 1]
  /\ UNCHANGED <<clock, slot, client, pruned, shared, actors>>
Vacant_Unchecked(p) ==
  /\ writer[p].at = "check"
  /\ writer' = [writer EXCEPT ![p].at = "mkdir", ![p].tries = 0]
  /\ shared' = IF HeldByOther(p) THEN shared \cup {writer[p].id} ELSE shared
  /\ UNCHANGED <<clock, slot, client, pruned, actors>>

\* The id is in use: another is generated, MaxRetries times.
Taken(p) ==
  /\ writer[p].at = "check"
  /\ Exists(p)
  /\ writer[p].tries < MaxRetries
  /\ \E id \in Generate(p) :
       writer' = [writer EXCEPT ![p].id = id, ![p].tries = @ + 1]
  /\ UNCHANGED <<clock, slot, client, pruned, shared, actors>>

GiveUp(p) ==
  /\ writer[p].at = "check"
  /\ Exists(p)
  /\ writer[p].tries = MaxRetries
  /\ writer' = [writer EXCEPT ![p].at = "failed"]
  /\ UNCHANGED <<clock, slot, client, pruned, shared, actors>>

\* The id is free, as far as a look at the directory tells: another process may have
\* found the same and make the directory next, or a run in progress may have lost its
\* directory to a prune.
Vacant(p) ==
  /\ writer[p].at = "check"
  /\ ~Exists(p)
  /\ writer' = [writer EXCEPT ![p].at = "mkdir", ![p].tries = 0]
  /\ shared' = IF HeldByOther(p) THEN shared \cup {writer[p].id} ELSE shared
  /\ UNCHANGED <<clock, slot, client, pruned, actors>>

\* create_dir_all: no error for a directory made since the check.
MakeDir(p) ==
  /\ writer[p].at = "mkdir"
  /\ slot' = IF Exists(p) THEN slot
             ELSE [slot EXCEPT ![writer[p].id] = [state |-> "bare", by |-> p]]
  /\ writer' = [writer EXCEPT ![p].at = "truncate"]
  /\ UNCHANGED <<clock, client, pruned, shared, actors>>

\* save_manifest, first half: File::create.  It fails when the directory is gone;
\* the failure is ignored, except in the first and the last save.
Truncate(p) ==
  /\ writer[p].at = "truncate"
  /\ IF Exists(p)
       THEN /\ slot' = [slot EXCEPT ![writer[p].id] = [state |-> "torn", by |-> p]]
            /\ writer' = [writer EXCEPT ![p].at = "write"]
       ELSE /\ writer' = [writer EXCEPT ![p].at =
                            IF writer[p].closing \/ writer[p].saves = 0
                              THEN "failed" ELSE "running"]
            /\ UNCHANGED slot
  /\ UNCHANGED <<clock, client, pruned, shared, actors>>

\* Second half: the text, from the start of the file that was opened, whether or not it
\* has a name any longer.  What another process has written there since may be longer.
Write(p) ==
  /\ writer[p].at \in {"write", "unlinked"}
  /\ LET id    == writer[p].id
         text  == IF writer[p].closing THEN "final" ELSE "open"
         tails == IF slot[id].state \in Whole \cup {"mixed"} THEN {"mixed"} ELSE {}
     IN  IF writer[p].at = "write"
           THEN \E state \in {text} \cup tails :
                  slot' = [slot EXCEPT ![id] = [state |-> state, by |-> p]]
           ELSE UNCHANGED slot
  /\ writer' = [writer EXCEPT ![p].at =
                   IF writer[p].closing THEN "closed" ELSE "running"]
  /\ UNCHANGED <<clock, client, pruned, shared, actors>>

\* A save between the first and the last, and the last.
Save(p) ==
  /\ writer[p].at = "running"
  /\ \E closing \in BOOLEAN :
       /\ ~closing => writer[p].saves < MaxSaves
       /\ writer' = [writer EXCEPT ![p].at = "truncate", ![p].closing = closing,
                                   ![p].saves = @ + 1]
  /\ UNCHANGED <<clock, slot, client, pruned, shared, actors>>

Crash(p) ==
  /\ writer[p].at \in Holding
  /\ writer' = [writer EXCEPT ![p].at = "dead"]
  /\ UNCHANGED <<clock, slot, client, pruned, shared, actors>>

----------------------------------------------------------------------------
(* A client. *)

\* read_dir: what is there now will be seen, unless it is removed meanwhile; what
\* appears during the scan may or may not be.
Begin(c) ==
  /\ client[c].at = "idle"
  /\ actors < MaxActors
  /\ actors' = actors + 1
  /\ \E op \in Ops :
       client' = [client EXCEPT ![c].at = "scan", ![c].op = op, ![c].entries = Present,
                                ![c].closed = Closed]
  /\ UNCHANGED <<clock, slot, writer, pruned, shared>>

Listable_OpenOnly(state) == state = "open"
Listable(state) == state \in Whole

\* One entry: a missing or corrupt manifest is skipped.
ReadEntry(c) ==
  /\ client[c].at = "scan"
  /\ \E id \in Present \ client[c].seen :
       client' = [client EXCEPT
                    ![c].seen = @ \cup {id},
                    ![c].listed = IF Listable(slot[id].state) THEN @ \cup {id} ELSE @]
  /\ UNCHANGED <<clock, slot, writer, pruned, shared, actors>>

\* list.into_iter().skip(keep), of the list sorted newest first.
Victims_Newest(listed) == {id \in listed : Cardinality({n \in listed : n < id}) >= Keep}
Victims(listed) == {id \in listed : Cardinality({n \in listed : n > id}) >= Keep}

\* list.first(), of the list sorted newest first.
First_Oldest(listed) == Min(listed)
First(listed) == Max(listed)

EndScan(c) ==
  /\ client[c].at = "scan"
  /\ client[c].entries \cap Present \subseteq client[c].seen
  /\ client' =
       CASE client[c].op = "latest" /\ client[c].listed # {} ->
              [client EXCEPT ![c].at = "load", ![c].target = First(client[c].listed)]
         [] client[c].op = "prune" ->
              [client EXCEPT ![c].at = "remove", ![c].victims = Victims(client[c].listed)]
         [] OTHER -> [client EXCEPT ![c].at = "done"]
  /\ UNCHANGED <<clock, slot, writer, pruned, shared, actors>>

\* get("latest"): the manifest is read a second time.
Load(c) ==
  /\ client[c].at = "load"
  /\ client' = [client EXCEPT ![c].at = "done",
                  ![c].target = IF slot[@].state \in Whole THEN @ ELSE NoId]
  /\ UNCHANGED <<clock, slot, writer, pruned, shared, actors>>

\* One removal; a directory already gone is passed over.  Who is writing to the manifest
\* goes on with a file that has no name.
Remove(c) ==
  /\ client[c].at = "remove"
  /\ client[c].victims # {}
  /\ LET id == Max(client[c].victims)
     IN  /\ slot' = [slot EXCEPT ![id] = Absent]
         /\ pruned' = pruned \cup ({id} \cap Present)
         /\ client' = [client EXCEPT ![c].victims = @ \ {id}]
         /\ writer' = [p \in Procs |->
                        IF writer[p].at = "write" /\ writer[p].id = id
                          THEN [writer[p] EXCEPT !.at = "unlinked"] ELSE writer[p]]
  /\ UNCHANGED <<clock, shared, actors>>

\* All removed, or remove_dir_all failed.
EndPrune(c) ==
  /\ client[c].at = "remove"
  /\ client' = [client EXCEPT ![c].at = "done"]
  /\ UNCHANGED <<clock, slot, writer, pruned, shared, actors>>

Tick ==
  /\ clock < MaxClock
  /\ clock' = clock + 1
  /\ UNCHANGED <<slot, writer, client, pruned, shared, actors>>

----------------------------------------------------------------------------

Init ==
  /\ clock = 0
  /\ slot = [id \in Ids |-> IF id \in OldRuns THEN [state |-> "final", by |-> Nobody]
                                             ELSE Absent]
  /\ writer = [p \in Procs |-> [at |-> "idle", id |-> NoId, tries |-> 0, saves |-> 0,
                                closing |-> FALSE]]
  /\ client = [c \in Clients |-> [at |-> "idle", op |-> "none", entries |-> {}, seen |-> {},
                                  listed |-> {}, victims |-> {}, target |-> NoId,
                                  closed |-> {}]]
  /\ pruned = {}
  /\ shared = {}
  /\ actors = 0

Writing(p) ==
  Taken(p) \/ GiveUp(p) \/ Vacant(p) \/ MakeDir(p) \/ Truncate(p) \/ Write(p)

Next ==
  \/ Tick
  \/ \E p \in Procs : Start(p) \/ Writing(p) \/ Save(p) \/ Crash(p)
  \/ \E c \in Clients :
       Begin(c) \/ ReadEntry(c) \/ EndScan(c) \/ Load(c) \/ Remove(c) \/ EndPrune(c)

Spec == Init /\ [][Next]_vars

----------------------------------------------------------------------------
(* Properties. *)

\* Every variable holds a value the store can give it.
TypeOK ==
  /\ clock \in 0 .. MaxClock
  /\ slot \in [Ids -> [state : Contents, by : Procs \cup {Nobody}]]
  /\ writer \in [Procs -> [at : WriterAt, id : Ids \cup {NoId}, tries : 0 .. MaxRetries,
                           saves : 0 .. MaxSaves + 1, closing : BOOLEAN]]
  /\ client \in [Clients -> [at : ClientAt, op : Ops \cup {"none"},
                             entries : SUBSET Ids, seen : SUBSET Ids,
                             listed : SUBSET Ids, victims : SUBSET Ids,
                             target : Ids \cup {NoId}, closed : SUBSET Ids]]
  /\ pruned \subseteq Ids
  /\ shared \subseteq Ids
  /\ actors \in 0 .. MaxActors

\* The record of a closed run is never rewritten, by its own process or another: it
\* stays as it is or is pruned.  Only the record under an id that two processes took at
\* a time may be: nothing in create tells them of each other.
ClosedRecordKept ==
  [][\A id \in Ids \ shared :
       slot[id].state = "final" => slot'[id] \in {slot[id], Absent}]_vars

\* Pruning spares the newest: whatever other prunes and new runs do meanwhile, a
\* removed run leaves at least Keep newer ones behind.
PruneSparesNewest ==
  [][\A id \in Present : slot'[id] = Absent =>
       Cardinality({n \in Present' : n > id}) >= Keep]_vars

\* A list misses no run that was closed when it was asked for, except a pruned one and
\* one that another process may be writing over.
ListIsComplete ==
  \A c \in Clients : client[c].at \notin {"idle", "scan"} =>
    client[c].closed \ (pruned \cup shared) \subseteq client[c].listed

\* "latest" is never older, in seconds, than a run that was closed when it was
\* asked for, with the same exceptions.
LatestIsRecent ==
  \A c \in Clients : client[c].at = "done" /\ client[c].target # NoId =>
    \A id \in client[c].closed \ (pruned \cup shared) :
      id \div Suffixes <= client[c].target \div Suffixes
=============================================================================
