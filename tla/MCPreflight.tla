----------------------------- MODULE MCPreflight -----------------------------
(***************************************************************************)
(* Preflight for TLC: the two packs that matter, user policies that differ *)
(* in what the assessment can see, and hosts with files at every layer.    *)
(***************************************************************************)
EXTENDS Preflight

MCNames ==
  {"observe", "balanced", "strict", "team", "nonesuch", "coding-agent-baseline",
   "no-vcs-write", "information-flow", "no such pack", PolicyFile}

Says(field, value) == [Blank EXCEPT ![field] = value]

Floating == [lead |-> "**/", star |-> FALSE, tail |-> ""]
Anchored == [lead |-> "/", star |-> FALSE, tail |-> "/**"]

Clause(rule, op, kind, pattern, words, more) ==
  [rule |-> rule, op |-> op, kind |-> kind, pattern |-> pattern,
   words |-> words, more |-> more]
Source(label, kind, pattern) == [label |-> label, kind |-> kind, pattern |-> pattern]

Agent == Source("AGENT", "exec", Floating)
Exec(rule) == Clause(rule, "exec", "exec", Floating, {"AGENT"}, {})
Egress(words, more) == Clause("egress", "connect", "endpoint", AnyPath, words, more)

MCPacks ==
  [name \in {"coding-agent-baseline", "no-vcs-write", "information-flow"} |->
     CASE name = "coding-agent-baseline" ->
            [clauses |-> {Exec("vcs")}, sources |-> {Agent}]
       [] name = "no-vcs-write" ->
            [clauses |-> {Exec("publish")}, sources |-> {Agent}]
       [] name = "information-flow" ->
            [clauses |-> {Clause("fence", "write", "file", Anchored, {"AGENT"}, {}),
                          Egress({"AGENT", "SECRET"}, {})},
             sources |-> {Agent, Source("SECRET", "file", Floating)}]]

\* A label on a continuation line, a rule that shares a name with one of a pack, a
\* source that no rule mentions, one that costs nothing, and nothing at all.
MCPolicies ==
  {[clauses |-> {Egress({"AGENT"}, {"SECRET"})},
    sources |-> {Agent, Source("SECRET", "file", Floating)}],
   [clauses |-> {Clause("vcs", "open", "file", AnyPath, {"AGENT"}, {})}, sources |-> {Agent}],
   [clauses |-> {Egress({"AGENT"}, {})}, sources |-> {Source("SECRET", "file", Floating)}],
   [clauses |-> {Egress({"SECRET"}, {})}, sources |-> {Source("SECRET", "file", Anchored)}],
   NoPolicy, NoFile}

MCLayers ==
  {[Says("profile", "observe") EXCEPT !.files = {PolicyFile}],
   [Says("profile", "team") EXCEPT !.packs = {}, !.limit = 2 * Minute + 1],
   Says("packs", {"information-flow", "no such pack"}), Bad, NoFile}

NearestFiles ==
  {[Says("profile", "strict") EXCEPT !.files = {PolicyFile}, !.limit = Minute + 3],
   [Says("profile", "team") EXCEPT !.files = {PolicyFile}],
   Says("packs", {"information-flow"}), NoFile}

MCHosts ==
  {[dirs |-> <<[yaml |-> nearest, git |-> git],
               [yaml |-> [Says("mode", "off") EXCEPT !.packs = {}], git |-> FALSE]>>,
    home |-> home, path |-> "team", profileFile |-> file, policyFile |-> policy] :
      nearest \in NearestFiles, git \in BOOLEAN,
      home \in {NoFile, Says("profile", "observe")},
      file \in {NoFile, [Says("profile", "strict") EXCEPT !.mode = "observe"]},
      policy \in MCPolicies}

NoOptions ==
  [config |-> Absent, profile |-> Absent, mode |-> Absent, limit |-> Absent,
   noObservability |-> FALSE, noBackup |-> FALSE]

MCClis ==
  {NoOptions,
   [NoOptions EXCEPT !.profile = "strict"],
   [NoOptions EXCEPT !.config = [Says("backup", FALSE) EXCEPT !.files = {PolicyFile}],
                     !.limit = Minute + 1, !.noObservability = TRUE],
   [NoOptions EXCEPT !.config = NoFile],
   [NoOptions EXCEPT !.profile = "nonesuch"],
   [NoOptions EXCEPT !.mode = "enforce", !.noBackup = TRUE]}

MCEngines ==
  {[version |-> "missing", report |-> "usage"], [version |-> "old", report |-> "usage"],
   [version |-> "unknown", report |-> "usage"]} \cup
  {[version |-> "new", report |-> report] : report \in {"rules", "clauses", "bare", "rejects"}}
=============================================================================
