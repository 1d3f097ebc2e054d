----------------------------- MODULE Preflight -----------------------------
(***************************************************************************)
(* What `actime run` does before it starts anything, and `actime policy    *)
(* check` beside it (crates/actime-cli/src/run.rs, commands.rs and         *)
(* embedded.rs): load the configuration, record it, compose the policy,    *)
(* assess its rules, refuse or go on.  `actime attach` does the same.      *)
(*                                                                         *)
(* The files on the host may be edited between any two steps.              *)
(***************************************************************************)
EXTENDS ConfigLayers, Enforceability, Sequences

CONSTANTS
  Packs,         \* the built-in policies, by name
  Clis,          \* command lines
  Hosts,         \* what the host holds to begin with
  Layers,        \* what actime.yaml or a profile file may be edited to
  Policies,      \* what the user's policy file may be edited to
  Engines,       \* actplane: [version, report]
  MaxEdits       \* bound: how often a file is edited

ASSUME ConstantsAssumption ==
  /\ Absent # NoFile /\ Absent # Bad /\ NoFile # Bad
  /\ \A mark \in {Absent, NoFile, Bad} : mark \notin LayerTypes
  /\ Absent \notin Nat /\ Absent \notin BOOLEAN
  /\ \A name \in DOMAIN Builtin : \A field \in Fields \ {"limit"} :
       Builtin[name][field] # Absent
  /\ {"observe", "balanced", "strict", "coding-agent-baseline", "no-vcs-write"}
       \subseteq Names
  /\ Clis \subseteq [config : {Absent} \cup Files, profile : {Absent} \cup Names,
                     mode : {Absent} \cup Modes, limit : {Absent} \cup Nat,
                     noObservability : BOOLEAN, noBackup : BOOLEAN]
  /\ Hosts \subseteq [dirs : Seq([yaml : Files, git : BOOLEAN]), home : Files,
                      path : Names, profileFile : Files,
                      policyFile : {NoFile} \cup Policies]
  /\ Layers \subseteq Files
  /\ \A engine \in Engines :
       /\ engine.version \in {"missing", "old", "new", "unknown"}
       /\ engine.report \in {"rules", "clauses", "bare", "rejects", "usage"}
  /\ MaxEdits \in Nat

VARIABLES
  cli,         \* the command line of the run, --config and --profile also of the check
  host,        \* the files: dirs, home, path, profileFile, policyFile
  engine,      \* which actplane is found, and what its compiler reports
  edits,       \* edits so far
  pc,          \* control point of the run
  cfg,         \* the configuration in effect; at "profile", what its file says
  recorded,    \* actime.yaml of the run directory
  dsl,         \* the composed policy
  rows,        \* the assessment of its rules
  handed,      \* history: the policy handed to the engine
  check        \* `policy check`: at, dsl, verdict

run == <<pc, cfg, recorded, dsl, rows, handed>>
vars == <<cli, host, engine, edits, run, check>>

NoConfig == Blank
NoPolicy == [clauses |-> {}, sources |-> {}]

----------------------------------------------------------------------------
(* Composing and assessing. *)

PolicyFile == "policy file"

\* embedded::compose_policy: the packs, then the files, one text.  An unknown pack
\* or a file that is not there composes nothing.
Composes(c) ==
  /\ c.packs \subseteq DOMAIN Packs
  /\ PolicyFile \in c.files => host.policyFile # NoFile

Composed(c) ==
  LET parts == {Packs[name] : name \in c.packs} \cup
               (IF PolicyFile \in c.files THEN {host.policyFile} ELSE {})
  IN  [clauses |-> UNION {p.clauses : p \in parts},
       sources |-> UNION {p.sources : p \in parts}]

\* assess_composed_policy: rows of the compiler's report if it has any, else the scan.
Assessed(policy) ==
  LET compiled == IF engine.version \in {"missing", "old"} THEN NoRows
                  ELSE CompiledRows(engine.report, policy)
  IN  IF compiled # NoRows THEN compiled ELSE ScannedRows(policy)

----------------------------------------------------------------------------
(* `actime run`. *)

\* Context::load_config, as far as the text of the first file.  An error leaves no trace.
LoadFile ==
  /\ pc = "load"
  /\ LET layer == Layer(cli, host)
     IN  IF layer = Bad
           THEN pc' = "failed" /\ UNCHANGED cfg
           ELSE pc' = "profile" /\ cfg' = layer
  /\ UNCHANGED <<cli, host, engine, edits, recorded, dsl, rows, handed, check>>

\* The profile it names, which may be in a file as well; merge_cli, --timeout.
LoadProfile ==
  /\ pc = "profile"
  /\ LET loaded == Read(cfg, host)
     IN  IF loaded = Bad
           THEN pc' = "failed" /\ UNCHANGED cfg
           ELSE pc' = "create" /\ cfg' = Override(loaded, cli)
  /\ UNCHANGED <<cli, host, engine, edits, recorded, dsl, rows, handed, check>>

\* RunStore::create writes the configuration into the run directory.  (Wrong form:
\* before the command line is applied.)
Create_FilesOnly ==
  /\ pc = "create"
  /\ recorded' = IF LoadConfig(cli, host) = Bad THEN cfg ELSE LoadConfig(cli, host)
  /\ pc' = "compose"
  /\ UNCHANGED <<cli, host, engine, edits, cfg, dsl, rows, handed, check>>
Create ==
  /\ pc = "create"
  /\ recorded' = [cfg EXCEPT !.limit = Written(cfg.limit)]
  /\ pc' = "compose"
  /\ UNCHANGED <<cli, host, engine, edits, cfg, dsl, rows, handed, check>>

Compose ==
  /\ pc = "compose"
  /\ IF Composes(cfg)
       THEN dsl' = Composed(cfg) /\ pc' = "assess"
       ELSE pc' = "aborted" /\ UNCHANGED dsl
  /\ UNCHANGED <<cli, host, engine, edits, cfg, recorded, rows, handed, check>>

Assess ==
  /\ pc = "assess"
  /\ rows' = Assessed(dsl)
  /\ pc' = "gate"
  /\ UNCHANGED <<cli, host, engine, edits, cfg, recorded, dsl, handed, check>>

\* write_policy_yaml: the engine is given this text, unless the mode is off.
Handed(policy) == IF cfg.mode = "off" THEN NoPolicy ELSE policy

Refuses == cfg.mode = "enforce" /\ Unenforceable(rows) # {}

\* The gate; past it the engine gets the policy that has been assessed.  (Wrong form:
\* the policy is composed again for the engine.)
Gate_ComposedAgain ==
  /\ pc = "gate"
  /\ pc' = IF Refuses THEN "refused" ELSE "start"
  /\ handed' = IF Refuses \/ ~Composes(cfg) THEN handed ELSE Handed(Composed(cfg))
  /\ UNCHANGED <<cli, host, engine, edits, cfg, recorded, dsl, rows, check>>
Gate ==
  /\ pc = "gate"
  /\ pc' = IF Refuses THEN "refused" ELSE "start"
  /\ handed' = IF Refuses THEN handed ELSE Handed(dsl)
  /\ UNCHANGED <<cli, host, engine, edits, cfg, recorded, dsl, rows, check>>

----------------------------------------------------------------------------
(* `actime policy check`. *)

\* What the check reads, and when, decides which policy it is about and no more: it loads
\* and composes in one step.
CheckCompose ==
  /\ check.at = "idle"
  /\ LET loaded == LoadConfig(cli, host)
     IN  check' = IF loaded = Bad \/ ~Composes(loaded)
                    THEN [check EXCEPT !.at = "error"]
                    ELSE [check EXCEPT !.at = "compile", !.dsl = Composed(loaded)]
  /\ UNCHANGED <<cli, host, engine, edits, run>>

\* No verdict without an engine whose compiler reports in JSON; an error when it
\* rejects the policy.  (Wrong form: a report without rules has no bad ones.)
Verdict_NoScan(policy) == Unenforceable(CompiledRows(engine.report, policy))
Verdict(policy) ==
  LET compiled == CompiledRows(engine.report, policy)
  IN  Unenforceable(IF compiled # NoRows THEN compiled ELSE ScannedRows(policy))

CheckCompile ==
  /\ check.at = "compile"
  /\ check' =
       CASE engine.version \in {"missing", "old"} \/ engine.report = "usage" ->
              [check EXCEPT !.at = "no verdict"]
         [] engine.version \in {"new", "unknown"} /\ engine.report = "rejects" ->
              [check EXCEPT !.at = "error"]
         [] OTHER -> [check EXCEPT !.at = "verdict", !.verdict = Verdict(check.dsl)]
  /\ UNCHANGED <<cli, host, engine, edits, run>>

----------------------------------------------------------------------------
(* The user. *)

EditNearest ==
  /\ edits < MaxEdits
  /\ \E layer \in Layers : host' = [host EXCEPT !.dirs[1].yaml = layer]
  /\ edits' = edits + 1
  /\ UNCHANGED <<cli, engine, run, check>>

EditProfileFile ==
  /\ edits < MaxEdits
  /\ \E layer \in Layers : host' = [host EXCEPT !.profileFile = layer]
  /\ edits' = edits + 1
  /\ UNCHANGED <<cli, engine, run, check>>

EditPolicy ==
  /\ edits < MaxEdits
  /\ \E policy \in Policies : host' = [host EXCEPT !.policyFile = policy]
  /\ edits' = edits + 1
  /\ UNCHANGED <<cli, engine, run, check>>

----------------------------------------------------------------------------

Init ==
  /\ cli \in Clis
  /\ host \in Hosts
  /\ engine \in Engines
  /\ edits = 0
  /\ pc = "load"
  /\ cfg = NoConfig
  /\ recorded = NoConfig
  /\ dsl = NoPolicy
  /\ rows = NoRows
  /\ handed = NoPolicy
  /\ check = [at |-> "idle", dsl |-> NoPolicy, verdict |-> {}]

Next ==
  \/ LoadFile \/ LoadProfile \/ Create \/ Compose \/ Assess \/ Gate
  \/ CheckCompose \/ CheckCompile
  \/ EditNearest \/ EditProfileFile \/ EditPolicy

Spec == Init /\ [][Next]_vars

----------------------------------------------------------------------------
(* Properties. *)

RuleNames == {c.rule : c \in UNION {Packs[name].clauses : name \in DOMAIN Packs}}
             \cup {c.rule : c \in UNION {p.clauses : p \in Policies \ {NoFile}}}

\* A configuration in effect has a value for every field but the limit.
IsConfig(c) ==
  /\ c.mode \in Modes
  /\ \A field \in Fields \ {"limit"} : c[field] # Absent
  /\ c.limit # Absent => c.limit \in Nat

\* Every variable holds a value the program can give it.
TypeOK ==
  /\ cli \in Clis /\ engine \in Engines /\ edits \in 0 .. MaxEdits
  /\ pc \in {"load", "profile", "create", "compose", "assess", "gate",
             "start", "refused", "aborted", "failed"}
  /\ pc \notin {"load", "profile", "failed"} => IsConfig(cfg)
  /\ pc \notin {"load", "profile", "create", "failed"} => IsConfig(recorded)
  /\ DOMAIN rows \subseteq RuleNames
  /\ check.at \in {"idle", "compile", "verdict", "no verdict", "error"}
  /\ check.verdict \subseteq RuleNames

\* The mode that was asked for: on the command line, else by --profile, else by the
\* configuration that the run directory records.
AskedMode ==
  IF cli.mode # Absent THEN cli.mode
  ELSE IF cli.profile # Absent THEN Builtin[cli.profile].mode
  ELSE recorded.mode

\* Who asks for enforce gets it for every rule: no file, however it is edited while
\* the run gets ready, softens --profile, and what the engine is handed is a policy
\* none of whose rules is known to exceed it.
EnforceIsForAllRules ==
  pc = "start" /\ AskedMode = "enforce" =>
    cfg.mode = "enforce" /\ Unenforceable(Assessed(handed)) = {}

\* A run is refused at the gate only for a policy that the engine would not install.
RefusalIsWarranted == pc = "refused" => ~Installable(dsl)

\* The verdict of `policy check` is the one that the gate of a run comes to for the
\* same policy, although each obtains it in its own way.
CheckPredictsGate ==
  check.at = "verdict" /\ pc \in {"start", "refused"} /\ dsl = check.dsl =>
    (pc = "refused" <=> cfg.mode = "enforce" /\ check.verdict # {})

\* The recorded configuration, given to --config, is the one that was in effect, but for
\* less than a second of the limit, and for what it still takes from a profile file:
\* it names the file, so it cannot be loaded when that no longer parses, and where it
\* says `limit: null` the limit is the one that the file has by now.
RecordReloads ==
  recorded # NoConfig =>
    LET reloaded == Load(recorded, host)
        named    == Named(recorded, host)
    IN  IF named = Bad
          THEN reloaded = Bad
          ELSE /\ [reloaded EXCEPT !.limit = Absent] = [cfg EXCEPT !.limit = Absent]
               /\ CASE cfg.limit # Absent -> cfg.limit - reloaded.limit \in {0, 1}
                    [] cfg.limit = Absent /\ named # NoFile -> reloaded.limit = named.limit
                    [] OTHER -> reloaded.limit = Absent
=============================================================================
