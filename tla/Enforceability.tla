--------------------------- MODULE Enforceability ---------------------------
(***************************************************************************)
(* Which rules of a composed policy the engine of this host can install    *)
(* (crates/actime-core/src/enforceability.rs): the features a rule needs,  *)
(* told from the report of `actplane compile --json` or, without one, from *)
(* a scan of the policy's lines, against the budget of ActPlane 0.1.8.     *)
(*                                                                         *)
(* A policy is a set of clauses and a set of sources.  A clause belongs to *)
(* a rule, applies an operation to a kind of object and a pattern, and     *)
(* mentions labels: `words` on the lines that the scan reads, `more` on    *)
(* the continuation lines that it skips.  A source gives a label to what   *)
(* an object of its kind and pattern touches.                              *)
(*                                                                         *)
(* A pattern is AnyPath or has a lead ("/", "", "*", two stars and "/", or *)
(* that and a third star), a tail and perhaps a star between them.         *)
(***************************************************************************)
EXTENDS FiniteSets

Leads == {"/", "", "*", "**/", "**/*"}
Tails == {"", "/*", "**", "/**"}
AnyPath == [lead |-> "any", star |-> FALSE, tail |-> ""]
Patterns == {AnyPath} \cup [lead : Leads, star : BOOLEAN, tail : Tails]

EngineSupported ==
  {"connect", "recv", "file flow", "block exec", "block file", "block connect"}

\* path_match_features: what it costs to match a pattern.  (A wrong form: one that
\* is anchored at the root costs too.)
PathFeatures_Anchored(p) == IF p.lead = "any" THEN {} ELSE {"path contains"}
PathFeatures(p) ==
  CASE p.lead \in {"any", "/"} -> {}
    [] p.lead = "**/*" -> {"path suffix"}
    [] p.lead = "**/" ->
         IF ~p.star /\ p.tail = "" THEN {"path suffix"} ELSE {"path contains"}
    [] p.lead \in {"", "*"} ->
         IF p.tail # "" /\ (p.star \/ p.lead = "*") THEN {} ELSE {"path contains"}

\* features_for_clause; the word of the operation is the same in both readings.
ClauseFeatures(c) ==
  CASE c.op = "open" /\ c.kind = "file" -> {"open rules"} \cup PathFeatures(c.pattern)
    [] c.op \in {"write", "unlink"} /\ c.kind = "file" ->
         {"write rules", "file flow"} \cup PathFeatures(c.pattern)
    [] c.op \in {"connect", "recv"} -> {c.op}
    [] c.op = "exec" -> {}
    [] OTHER -> IF c.kind = "file" THEN PathFeatures(c.pattern) ELSE {}

FileSources(policy) == {s \in policy.sources : s.kind = "file"}

\* features_for_labels: the label of a file source costs what its patterns cost.
LabelFeatures(labels, policy) ==
  UNION {{"file flow"} \cup PathFeatures(s.pattern) :
           s \in {f \in FileSources(policy) : f.label \in labels}}

----------------------------------------------------------------------------
(* Rows: what rules need, by name, from what each of their clauses needs. *)

Rows(needed) ==
  [rule \in {c.rule : c \in DOMAIN needed} |->
     UNION {needed[c] : c \in {d \in DOMAIN needed : d.rule = rule}}]

NoRows == [rule \in {} |-> {}]

\* assess_compile_json: from the rules of the report, labels included; from the
\* clauses of its backend part, where there are no rules, without labels.
CompiledRows(report, policy) ==
  CASE report = "rules" ->
         Rows([c \in policy.clauses |->
                 ClauseFeatures(c) \cup LabelFeatures(c.words \cup c.more, policy)])
    [] report = "clauses" -> Rows([c \in policy.clauses |-> ClauseFeatures(c)])
    [] OTHER -> NoRows

\* assess_dsl.
ScannedRows(policy) ==
  Rows([c \in policy.clauses |-> ClauseFeatures(c) \cup LabelFeatures(c.words, policy)])

\* finish_rows and unenforceable_only.
Unenforceable(rows) == {rule \in DOMAIN rows : ~(rows[rule] \subseteq EngineSupported)}

----------------------------------------------------------------------------
(* The engine, which is not Actime's: no rule on opening or writing files, no   *)
(* pattern that is not anchored at the root, and all of a policy or nothing.    *)

Floats(p) == p.lead \notin {"any", "/"}

Installable(policy) ==
  /\ \A c \in policy.clauses :
       c.kind = "file" => c.op \notin {"open", "write", "unlink"} /\ ~Floats(c.pattern)
  /\ \A s \in FileSources(policy) : ~Floats(s.pattern)
=============================================================================
