-------------------------- MODULE Preflight_proofs --------------------------
(***************************************************************************)
(* Theorems about Preflight, for any packs, command lines, hosts, policies *)
(* and engines, and however often the files are edited.                    *)
(*                                                                         *)
(* What was decided does not depend on the files any more (CfgFollowsCli,  *)
(* RecordedIsCfg, GateKnows), and the two readings of a policy, of `run`   *)
(* and of `policy check`, are one function of the same report (CheckKnows).*)
(***************************************************************************)
EXTENDS Preflight, NaturalsInduction, WellFoundedInduction, SequenceTheorems, TLAPS

----------------------------------------------------------------------------
(* The inductive invariant. *)

HostTypes ==
  [dirs : Seq([yaml : Files, git : BOOLEAN]), home : Files, path : Names,
   profileFile : Files, policyFile : {NoFile} \cup Policies]

\* A configuration: a layer without gaps, of which "strict" has a limit.
Complete(c) ==
  /\ c \in LayerTypes
  /\ \A field \in Fields \ {"limit"} : c[field] # Absent
  /\ c.profile = "strict" => c.limit # Absent

\* The run has a configuration; it has recorded one.
Loaded  == pc \notin {"load", "profile", "failed"}
Created == pc \notin {"load", "profile", "create", "failed"}

HostTyped == host \in HostTypes

\* Between its two reads a load has a layer, which with --profile has but the name.
LayerKnown ==
  pc = "profile" =>
    /\ cfg \in LayerTypes
    /\ cli.profile # Absent =>
         cli.profile \in DOMAIN Builtin /\ cfg = [Blank EXCEPT !.profile = cli.profile]

CfgComplete == Loaded => Complete(cfg)

\* No file has a say in the mode where the command line has one.
CfgFollowsCli ==
  Loaded =>
    /\ cli.mode # Absent => cfg.mode = cli.mode
    /\ cli.mode = Absent /\ cli.profile # Absent => cfg.mode = Builtin[cli.profile].mode

RecordedIsCfg ==
  recorded = IF Created THEN [cfg EXCEPT !.limit = Written(cfg.limit)] ELSE NoConfig

RulesOf(policy) == {c.rule : c \in policy.clauses}

\* Both policies are composed of what can be read.
RulesKnown == RulesOf(dsl) \subseteq RuleNames /\ RulesOf(check.dsl) \subseteq RuleNames

\* The gate has decided by the rows of the policy that it has handed over.
GateKnows ==
  /\ pc \in {"gate", "start", "refused"} => rows = Assessed(dsl)
  /\ pc = "start" => ~Refuses /\ handed = Handed(dsl)
  /\ pc = "refused" => Refuses

\* The check has a verdict only from an engine whose report the gate reads too.
CheckKnows ==
  /\ check \in [at : {"idle", "compile", "verdict", "no verdict", "error"},
                dsl : {check.dsl}, verdict : SUBSET RuleNames]
  /\ check.at = "verdict" =>
       /\ engine.version \notin {"missing", "old"}
       /\ check.verdict = Verdict(check.dsl)

IInv ==
  /\ TypeOK
  /\ HostTyped
  /\ LayerKnown
  /\ CfgComplete
  /\ CfgFollowsCli
  /\ RecordedIsCfg
  /\ RulesKnown
  /\ GateKnows
  /\ CheckKnows

----------------------------------------------------------------------------
(* Loading. *)

\* What the constants are.
LEMMA Marks ==
  /\ Absent # NoFile /\ Absent # Bad /\ NoFile # Bad
  /\ Absent \notin LayerTypes /\ NoFile \notin LayerTypes /\ Bad \notin LayerTypes
  /\ Absent \notin Nat /\ Absent \notin BOOLEAN
  /\ "observe" \in Names /\ "balanced" \in Names /\ "strict" \in Names
  /\ "coding-agent-baseline" \in Names /\ "no-vcs-write" \in Names
BY ConstantsAssumption

\* Sets of one or two packs.
LEMMA FewElements ==
  ASSUME NEW S, NEW x \in S, NEW y \in S
  PROVE  {} \in SUBSET S /\ {x} \in SUBSET S /\ {x, y} \in SUBSET S
OBVIOUS

\* The built-in profiles are configurations.
LEMMA ProfilesComplete ==
  /\ DOMAIN Builtin = {"observe", "balanced", "strict"}
  /\ \A name \in DOMAIN Builtin :
       /\ name # Absent
       /\ Builtin[name] \in LayerTypes
       /\ \A field \in Fields \ {"limit"} : Builtin[name][field] # Absent
       /\ Builtin[name].profile = name
       /\ Builtin[name].limit = Absent <=> name # "strict"
  /\ Builtin["balanced"] = Balanced
<1>1. DOMAIN Builtin = {"observe", "balanced", "strict"} /\ Builtin["balanced"] = Balanced
  BY DEF Builtin
<1>2. /\ Builtin["observe"] = [Balanced EXCEPT !.profile = "observe", !.mode = "observe"]
      /\ Builtin["strict"] = [Balanced EXCEPT !.profile = "strict", !.limit = 4 * Hour,
                                !.packs = {"coding-agent-baseline", "no-vcs-write"}]
  BY DEF Builtin
<1>3. \A name \in DOMAIN Builtin : \A field \in Fields \ {"limit"} :
        Builtin[name][field] # Absent
  BY ConstantsAssumption
<1>4. 4 * Hour \in Nat
  BY DEF Hour, Minute
<1>5. /\ {"coding-agent-baseline"} \in SUBSET Names /\ {} \in SUBSET Names
      /\ {"coding-agent-baseline", "no-vcs-write"} \in SUBSET Names
  <2>1. "coding-agent-baseline" \in Names /\ "no-vcs-write" \in Names
    BY Marks
  <2> QED
    BY <2>1, FewElements
<1>6. Balanced \in LayerTypes
  <2> DEFINE packs == {"coding-agent-baseline"}
             files == {}
  <2>1. packs \in SUBSET Names /\ files \in SUBSET Names
    BY <1>5
  <2>2. Balanced = [profile |-> "balanced", mode |-> "enforce", packs |-> packs,
                    files |-> files, limit |-> Absent, observability |-> TRUE,
                    backup |-> TRUE]
    BY DEF Balanced
  <2> HIDE DEF packs, files
  <2> QED
    BY <2>1, <2>2, Marks DEF LayerTypes, Modes
<1>7. Builtin["observe"] \in LayerTypes
  BY <1>2, <1>6, Marks DEF LayerTypes, Modes
<1>8. Builtin["strict"] \in LayerTypes
  <2> DEFINE packs == {"coding-agent-baseline", "no-vcs-write"}
             limit == 4 * Hour
  <2>1. packs \in SUBSET Names /\ limit \in Nat
    BY <1>4, <1>5
  <2>2. Builtin["strict"] = [Balanced EXCEPT !.profile = "strict", !.limit = limit,
                                             !.packs = packs]
    BY <1>2
  <2> HIDE DEF packs, limit
  <2> QED
    BY <1>6, <2>1, <2>2, Marks DEF LayerTypes
<1>9. /\ Builtin["balanced"].profile = "balanced" /\ Builtin["balanced"].limit = Absent
      /\ Builtin["observe"].profile = "observe" /\ Builtin["observe"].limit = Absent
  BY <1>1, <1>2 DEF Balanced
<1>10. Builtin["strict"].profile = "strict" /\ Builtin["strict"].limit # Absent
  <2>1. Builtin["strict"].profile = "strict" /\ Builtin["strict"].limit = 4 * Hour
    BY <1>2 DEF Balanced
  <2> QED
    BY <1>4, <2>1, Marks
<1>11. \A name \in DOMAIN Builtin : Builtin[name].profile = name /\ name # Absent
  <2>1. \A name \in DOMAIN Builtin : Builtin[name].profile = name
    BY <1>1, <1>9, <1>10
  <2> QED
    BY <1>3, <2>1 DEF Fields
<1> QED
  BY <1>1, <1>3, <1>6, <1>7, <1>8, <1>9, <1>10, <1>11

\* A layer over a configuration is one, of which each field is the layer's or the base's.
LEMMA MergeTyped ==
  ASSUME NEW base \in LayerTypes, NEW layer \in LayerTypes
  PROVE  /\ Merge(base, layer) \in LayerTypes
         /\ \A field \in Fields :
              Merge(base, layer)[field] = IF layer[field] = Absent THEN base[field]
                                                                   ELSE layer[field]
<1> DEFINE m == Merge(base, layer)
<1>1. \A field \in Fields :
        m[field] = IF layer[field] = Absent THEN base[field] ELSE layer[field]
  BY DEF Merge
<1>2. m = [profile |-> m.profile, mode |-> m.mode, packs |-> m.packs, files |-> m.files,
           limit |-> m.limit, observability |-> m.observability, backup |-> m.backup]
  BY DEF Merge, Fields
<1>3. /\ m.profile \in {Absent} \cup Names /\ m.mode \in {Absent} \cup Modes
      /\ m.packs \in {Absent} \cup SUBSET Names /\ m.files \in {Absent} \cup SUBSET Names
      /\ m.limit \in {Absent} \cup Nat
      /\ m.observability \in {Absent} \cup BOOLEAN /\ m.backup \in {Absent} \cup BOOLEAN
  BY <1>1 DEF LayerTypes, Fields
<1> HIDE DEF m
<1>4. m \in LayerTypes
  BY <1>2, <1>3 DEF LayerTypes
<1> QED
  BY <1>1, <1>4 DEF m

\* The base of a layer has no gaps; a profile file is asked for its limit.
LEMMA BaseComplete ==
  ASSUME NEW layer \in LayerTypes, NEW disk \in HostTypes, Named(layer, disk) # Bad
  PROVE  /\ Base(layer, disk) \in LayerTypes
         /\ \A field \in Fields \ {"limit"} : Base(layer, disk)[field] # Absent
         /\ layer.profile = "strict" => Base(layer, disk).limit # Absent
         /\ layer.profile = Absent => Base(layer, disk).profile = "balanced"
         /\ layer.profile # "strict" =>
              Base(layer, disk).limit = IF Named(layer, disk) = NoFile THEN Absent
                                        ELSE Named(layer, disk).limit
<1> DEFINE name  == layer.profile
           named == Named(layer, disk)
           base  == Base(layer, disk)
<1>0. /\ named \in Files /\ (named # NoFile => named \in LayerTypes)
      /\ name \in DOMAIN Builtin \cup {Absent} => named = NoFile
  BY DEF Named, Files, HostTypes
<1>0a. name \in {Absent} \cup Names
  BY DEF LayerTypes
<1> HIDE DEF named, name
<1>1. /\ Balanced \in LayerTypes
      /\ \A field \in Fields \ {"limit"} : Balanced[field] # Absent
      /\ Balanced.profile = "balanced" /\ Balanced.limit = Absent
  BY ProfilesComplete
<1>2. CASE name = Absent
  <2>1. base = Balanced /\ Absent # "strict"
    BY <1>2, ProfilesComplete DEF Base, name
  <2> QED
    BY <1>0, <1>1, <1>2, <2>1 DEF name, named
<1>3. CASE name # Absent /\ name \in DOMAIN Builtin
  <2>1. base = Builtin[name]
    BY <1>3 DEF Base, name
  <2> HIDE DEF base
  <2>2. named = NoFile
    BY <1>0, <1>3
  <2> QED
    BY <1>3, <2>1, <2>2, ProfilesComplete DEF base, name, named
<1>4. CASE name # Absent /\ name \notin DOMAIN Builtin /\ named # NoFile
  <2>1. base = Merge(Balanced, named) /\ named \in LayerTypes
    BY <1>0, <1>4 DEF Base, name, named
  <2>2. /\ base \in LayerTypes /\ \A field \in Fields \ {"limit"} : base[field] # Absent
        /\ base.limit = named.limit
    BY <1>1, <2>1, MergeTyped DEF Fields
  <2> HIDE DEF base
  <2>3. name # "strict"
    BY <1>4, ProfilesComplete
  <2> QED
    BY <1>4, <2>2, <2>3 DEF name, named, base
<1>5. CASE name # Absent /\ name \notin DOMAIN Builtin /\ named = NoFile
  <2>1. base = [Balanced EXCEPT !.profile = name] /\ name \in Names
    BY <1>0a, <1>5 DEF Base, name, named
  <2>2. base \in LayerTypes
    BY <1>1, <2>1 DEF LayerTypes
  <2>3. \A field \in Fields \ {"limit"} : base[field] # Absent
    BY <1>1, <1>5, <2>1 DEF LayerTypes, Fields
  <2>4. base.limit = Absent
    BY <1>1, <2>1 DEF LayerTypes
  <2> HIDE DEF base
  <2>5. name # "strict"
    BY <1>5, ProfilesComplete
  <2> QED
    BY <1>5, <2>2, <2>3, <2>4, <2>5 DEF name, named, base
<1> QED
  BY <1>2, <1>3, <1>4, <1>5

\* A layer that is read stands for a configuration.
LEMMA ReadComplete ==
  ASSUME NEW layer \in LayerTypes, NEW disk \in HostTypes, Named(layer, disk) # Bad
  PROVE  /\ Read(layer, disk) = Merge(Base(layer, disk), layer)
         /\ Complete(Read(layer, disk))
<1> DEFINE base == Base(layer, disk)
<1>1. layer # Bad
  BY Marks
<1>2. Read(layer, disk) = Merge(base, layer)
  BY <1>1 DEF Read
<1>3. /\ base \in LayerTypes
      /\ \A field \in Fields \ {"limit"} : base[field] # Absent
      /\ layer.profile = "strict" => base.limit # Absent
      /\ layer.profile = Absent => base.profile = "balanced"
  BY BaseComplete
<1> HIDE DEF base
<1>4. /\ Merge(base, layer) \in LayerTypes
      /\ \A field \in Fields :
           Merge(base, layer)[field] = IF layer[field] = Absent THEN base[field]
                                                                ELSE layer[field]
  BY <1>3, MergeTyped
<1>5. \A field \in Fields \ {"limit"} : Merge(base, layer)[field] # Absent
  BY <1>3, <1>4
<1>6. Merge(base, layer).profile = "strict" => Merge(base, layer).limit # Absent
  BY <1>3, <1>4 DEF Fields
<1> QED
  BY <1>2, <1>4, <1>5, <1>6 DEF Complete, base

Less == {pair \in Nat \X Nat : pair[1] < pair[2]}

\* A set of natural numbers that is not empty has a least element.
LEMMA LeastNumber ==
  ASSUME NEW T \in SUBSET Nat, T # {}
  PROVE  \E x \in T : \A y \in T : x <= y
<1>1. IsWellFoundedOn(Less, Nat)
  BY NatLessThanWellFounded DEF OpToRel, Less
<1>2. T \subseteq Nat
  OBVIOUS
<1>3. PICK x \in T : \A y \in T : ~(<<y, x>> \in Less)
  BY <1>1, <1>2, WFMin
<1>4. ASSUME NEW y \in T PROVE x <= y
  <2>1. x \in Nat /\ y \in Nat /\ ~(<<y, x>> \in Less)
    BY <1>2, <1>3
  <2> QED
    BY <2>1 DEF Less
<1> QED
  BY <1>4

\* The search upward finds a file, if only one that is bad, or none.
LEMMA FoundTyped ==
  ASSUME NEW dirs \in Seq([yaml : Files, git : BOOLEAN])
  PROVE  Found(dirs) \in Files
<1> DEFINE Reached == {i \in DOMAIN dirs : \A j \in 1 .. i - 1 : ~dirs[j].git}
           Having  == {i \in Reached : dirs[i].yaml # NoFile}
<1>1. Found(dirs) = IF Having = {} THEN NoFile
                    ELSE dirs[CHOOSE i \in Having : \A j \in Having : i <= j].yaml
  BY DEF Found
<1>2. \A i \in DOMAIN dirs : i \in Nat /\ dirs[i].yaml \in Files
  <2>1. DOMAIN dirs = 1 .. Len(dirs) /\ Len(dirs) \in Nat
    OBVIOUS
  <2>2. \A i \in 1 .. Len(dirs) : dirs[i] \in [yaml : Files, git : BOOLEAN]
    BY ElementOfSeq
  <2> QED
    BY <2>1, <2>2
<1>3. Having \in SUBSET Nat /\ Having \subseteq DOMAIN dirs
  BY <1>2
<1> HIDE DEF Having
<1>4. Having # {} => (CHOOSE i \in Having : \A j \in Having : i <= j) \in Having
  BY <1>3, LeastNumber
<1> QED
  BY <1>1, <1>2, <1>3, <1>4 DEF Files

\* The first file that is read is bad or a layer, the name alone where the command line
\* names a profile.
LEMMA LayerTyped ==
  ASSUME NEW options \in Clis, NEW disk \in HostTypes, Layer(options, disk) # Bad
  PROVE  /\ Layer(options, disk) \in LayerTypes
         /\ options.profile # Absent =>
              /\ options.profile \in DOMAIN Builtin
              /\ Layer(options, disk) = [Blank EXCEPT !.profile = options.profile]
<1>1. options.config \in {Absent} \cup Files /\ options.profile \in {Absent} \cup Names
  BY ConstantsAssumption
<1>2. disk.dirs \in Seq([yaml : Files, git : BOOLEAN]) /\ disk.home \in Files
  BY DEF HostTypes
<1>3. Blank \in LayerTypes
  <2>1. Blank = [profile |-> Absent, mode |-> Absent, packs |-> Absent, files |-> Absent,
                 limit |-> Absent, observability |-> Absent, backup |-> Absent]
    BY DEF Blank, Fields
  <2> QED
    BY <2>1 DEF LayerTypes
<1>4. CASE options.profile # Absent
  <2>1. /\ options.profile \in DOMAIN Builtin
        /\ Layer(options, disk) = [Blank EXCEPT !.profile = options.profile]
    BY <1>4 DEF Layer
  <2>2. [Blank EXCEPT !.profile = options.profile] \in LayerTypes
    BY <1>1, <1>3, <1>4 DEF LayerTypes
  <2> QED
    BY <2>1, <2>2
<1>5. CASE options.profile = Absent
  <2> DEFINE found == IF Found(disk.dirs) # NoFile THEN Found(disk.dirs) ELSE disk.home
             file  == IF options.config = Absent THEN found ELSE options.config
  <2>1. file \in Files
    BY <1>1, <1>2, FoundTyped
  <2>2. Layer(options, disk) = IF file = NoFile
                                 THEN IF options.config = Absent THEN Blank ELSE Bad
                                 ELSE file
    BY <1>5 DEF Layer, Chosen
  <2> HIDE DEF file
  <2> QED
    BY <1>3, <1>5, <2>1, <2>2 DEF Files
<1> QED
  BY <1>4, <1>5

\* The second completes it, with the mode of the profile if the layer has but its name.
LEMMA LoadComplete ==
  ASSUME NEW layer \in LayerTypes, NEW disk \in HostTypes, Read(layer, disk) # Bad
  PROVE  /\ Complete(Read(layer, disk))
         /\ \A name \in DOMAIN Builtin : layer = [Blank EXCEPT !.profile = name] =>
              Read(layer, disk).mode = Builtin[name].mode
<1>1. Named(layer, disk) # Bad
  BY DEF Read
<1>2. Complete(Read(layer, disk)) /\ Read(layer, disk) = Merge(Base(layer, disk), layer)
  BY <1>1, ReadComplete
<1>3. ASSUME NEW name \in DOMAIN Builtin, layer = [Blank EXCEPT !.profile = name]
      PROVE  Read(layer, disk).mode = Builtin[name].mode
  <2>1. layer.profile = name /\ layer.mode = Absent /\ name # Absent
    BY <1>3, ProfilesComplete DEF Blank, Fields
  <2>2. Base(layer, disk) = Builtin[name]
    BY <2>1 DEF Base
  <2>3. Builtin[name] \in LayerTypes
    BY ProfilesComplete
  <2> QED
    BY <1>2, <2>1, <2>2, <2>3, MergeTyped DEF Fields
<1> QED
  BY <1>2, <1>3

\* The command line changes fields and leaves no gap.
LEMMA OverrideComplete ==
  ASSUME NEW c, Complete(c), NEW options \in Clis
  PROVE  /\ Complete(Override(c, options))
         /\ Override(c, options).mode =
              IF options.mode = Absent THEN c.mode ELSE options.mode
<1> DEFINE o == Override(c, options)
<1>1. /\ options.mode \in {Absent} \cup Modes /\ options.limit \in {Absent} \cup Nat
      /\ options.noObservability \in BOOLEAN /\ options.noBackup \in BOOLEAN
  BY ConstantsAssumption
<1>2. c \in LayerTypes /\ \A field \in Fields \ {"limit"} : c[field] # Absent
  BY DEF Complete
<1>a. c.observability \in BOOLEAN /\ c.backup \in BOOLEAN
  BY <1>2 DEF LayerTypes, Fields
<1> DEFINE mode  == IF options.mode = Absent THEN c.mode ELSE options.mode
           limit == IF options.limit = Absent THEN c.limit ELSE options.limit
           observability == c.observability /\ ~options.noObservability
           backup == c.backup /\ ~options.noBackup
<1>b. o = [c EXCEPT !.mode = mode, !.limit = limit, !.observability = observability,
                    !.backup = backup]
  BY DEF Override
<1>c. observability \in BOOLEAN /\ backup \in BOOLEAN
  BY <1>a
<1> HIDE DEF o, mode, limit, observability, backup
<1>3. /\ o.mode = mode /\ o.limit = limit
      /\ o.observability = observability /\ o.backup = backup
      /\ o.profile = c.profile /\ o.packs = c.packs /\ o.files = c.files
  BY <1>2, <1>b DEF LayerTypes
<1>4. o = [profile |-> o.profile, mode |-> o.mode, packs |-> o.packs, files |-> o.files,
           limit |-> o.limit, observability |-> o.observability, backup |-> o.backup]
  BY <1>2, <1>b DEF LayerTypes
<1>5. o.mode \in {Absent} \cup Modes /\ o.limit \in {Absent} \cup Nat
  BY <1>1, <1>2, <1>3 DEF LayerTypes, mode, limit
<1>6. o \in LayerTypes
  BY <1>2, <1>3, <1>4, <1>5, <1>c DEF LayerTypes
<1>7. \A field \in Fields \ {"limit"} : o[field] # Absent
  <2>1. /\ c.mode # Absent /\ c.profile # Absent /\ c.packs # Absent /\ c.files # Absent
    BY <1>2 DEF Fields
  <2>2. o.mode # Absent /\ o.profile # Absent /\ o.packs # Absent /\ o.files # Absent
    BY <1>3, <2>1 DEF mode
  <2>3. o.observability # Absent /\ o.backup # Absent
    BY <1>3, <1>c, Marks
  <2> QED
    BY <2>2, <2>3 DEF Fields
<1>8. o.profile = "strict" => o.limit # Absent
  BY <1>3 DEF Complete, limit
<1> QED
  BY <1>3, <1>6, <1>7, <1>8 DEF Complete, o, mode

\* A limit is written as a limit, less than a second shorter.
LEMMA WrittenClose ==
  ASSUME NEW limit \in {Absent} \cup Nat
  PROVE  /\ limit = Absent => Written(limit) = Absent
         /\ limit # Absent => Written(limit) \in Nat /\ limit - Written(limit) \in {0, 1}
<1>1. CASE limit = Absent
  BY <1>1 DEF Written
<1>2. CASE limit \in Nat /\ limit # Absent
  <2>1. Written(limit) \in {limit, limit - (limit % 2)}
    BY <1>2 DEF Written
  <2>2. limit % 2 \in 0 .. 1 /\ limit - (limit % 2) \in Nat
    BY <1>2
  <2> QED
    BY <1>2, <2>1, <2>2
<1> QED
  BY <1>1, <1>2

\* So the record of a configuration is one.
LEMMA WrittenComplete ==
  ASSUME NEW c, Complete(c)
  PROVE  Complete([c EXCEPT !.limit = Written(c.limit)])
<1> DEFINE limit == Written(c.limit)
           w == [c EXCEPT !.limit = limit]
<1>1. c.limit \in {Absent} \cup Nat /\ c \in LayerTypes
  BY DEF Complete, LayerTypes
<1>2. limit \in {Absent} \cup Nat /\ (c.limit # Absent => limit # Absent)
  BY <1>1, WrittenClose, Marks
<1> HIDE DEF limit
<1>3. w \in LayerTypes /\ w.limit = limit
  BY <1>1, <1>2 DEF LayerTypes
<1>4. \A field \in Fields \ {"limit"} : w[field] = c[field]
  BY <1>1 DEF LayerTypes, Fields
<1> HIDE DEF w
<1>5. \A field \in Fields \ {"limit"} : w[field] # Absent
  BY <1>4 DEF Complete
<1>6. w.profile = "strict" => w.limit # Absent
  BY <1>2, <1>3, <1>4 DEF Complete, Fields
<1> QED
  BY <1>3, <1>5, <1>6 DEF Complete, limit, w

\* A complete layer is what TypeOK calls a configuration.
LEMMA CompleteIsConfig == ASSUME NEW c, Complete(c) PROVE IsConfig(c)
<1>1. c.mode \in {Absent} \cup Modes /\ c.limit \in {Absent} \cup Nat
  BY DEF Complete, LayerTypes
<1>2. c.mode # Absent
  BY DEF Complete, Fields
<1> QED
  BY <1>1, <1>2 DEF Complete, IsConfig

\* The record of a configuration is read back as that configuration.
LEMMA ReloadsSame ==
  ASSUME HostTyped, CfgComplete, RecordedIsCfg, recorded # NoConfig
  PROVE  LET reloaded == Load(recorded, host)
             named    == Named(recorded, host)
         IN  /\ named = Bad => reloaded = Bad
             /\ named # Bad =>
                  /\ [reloaded EXCEPT !.limit = Absent] = [cfg EXCEPT !.limit = Absent]
                  /\ cfg.limit # Absent => cfg.limit - reloaded.limit \in {0, 1}
                  /\ cfg.limit = Absent =>
                       reloaded.limit = IF named = NoFile THEN Absent ELSE named.limit
<1> DEFINE reloaded == Load(recorded, host)
           named == Named(recorded, host)
           base == Base(recorded, host)
<1>1. host \in HostTypes
  BY DEF HostTyped
<1>2. recorded = [cfg EXCEPT !.limit = Written(cfg.limit)] /\ Complete(cfg)
  BY DEF RecordedIsCfg, CfgComplete, Loaded, Created
<1>3. Complete(recorded)
  BY <1>2, WrittenComplete
<1>4. recorded \in LayerTypes /\ recorded \notin {Absent, NoFile, Bad}
  BY <1>3, Marks DEF Complete
<1>5. reloaded = Read(recorded, host)
  BY <1>4 DEF Load, Chosen
<1>5a. CASE named = Bad
  BY <1>5, <1>5a DEF Read
<1>5b. SUFFICES ASSUME named # Bad
                PROVE  /\ [reloaded EXCEPT !.limit = Absent] = [cfg EXCEPT !.limit = Absent]
                       /\ cfg.limit # Absent => cfg.limit - reloaded.limit \in {0, 1}
                       /\ cfg.limit = Absent =>
                            reloaded.limit = IF named = NoFile THEN Absent ELSE named.limit
  BY <1>5a
<1>6. reloaded = Merge(base, recorded)
  BY <1>1, <1>4, <1>5, <1>5b, ReadComplete
<1>7. /\ recorded.profile \in {Absent} \cup Names /\ recorded.profile # Absent
      /\ recorded.profile = cfg.profile
  BY <1>2, <1>3 DEF Complete, LayerTypes, Fields
<1>8. /\ base \in LayerTypes
      /\ recorded.profile # "strict" =>
           base.limit = IF named = NoFile THEN Absent ELSE named.limit
  BY <1>1, <1>4, <1>5b, BaseComplete
<1> HIDE DEF base, named
<1>9. /\ reloaded \in LayerTypes
      /\ \A field \in Fields :
           reloaded[field] =
             IF recorded[field] = Absent THEN base[field] ELSE recorded[field]
  BY <1>4, <1>6, <1>8, MergeTyped
<1> HIDE DEF reloaded
<1>10. \A field \in Fields \ {"limit"} : reloaded[field] = cfg[field]
  <2>1. \A field \in Fields \ {"limit"} : recorded[field] = cfg[field]
    BY <1>2 DEF Complete, LayerTypes, Fields
  <2>2. \A field \in Fields \ {"limit"} : recorded[field] # Absent
    BY <1>3 DEF Complete
  <2> QED
    BY <1>9, <2>1, <2>2
<1>11. [reloaded EXCEPT !.limit = Absent] = [cfg EXCEPT !.limit = Absent]
  <2>1. cfg \in LayerTypes
    BY <1>2 DEF Complete
  <2>2. /\ reloaded.profile = cfg.profile /\ reloaded.mode = cfg.mode
        /\ reloaded.packs = cfg.packs /\ reloaded.files = cfg.files
        /\ reloaded.observability = cfg.observability /\ reloaded.backup = cfg.backup
    BY <1>10 DEF Fields
  <2> QED
    BY <1>9, <2>1, <2>2 DEF LayerTypes
<1>12. cfg.limit \in {Absent} \cup Nat /\ recorded.limit = Written(cfg.limit)
  BY <1>2 DEF Complete, LayerTypes
<1>13. CASE cfg.limit # Absent
  <2>1. Written(cfg.limit) \in Nat /\ cfg.limit - Written(cfg.limit) \in {0, 1}
    BY <1>12, <1>13, WrittenClose
  <2>2. reloaded.limit = Written(cfg.limit)
    BY <1>9, <1>12, <2>1, Marks DEF Fields
  <2> QED
    BY <1>11, <1>13, <2>1, <2>2
<1>14. CASE cfg.limit = Absent
  <2>1. recorded.limit = Absent /\ recorded.profile # "strict"
    BY <1>2, <1>7, <1>12, <1>14, WrittenClose DEF Complete
  <2>2. reloaded.limit = base.limit
    BY <1>9, <2>1 DEF Fields
  <2> QED
    BY <1>8, <1>11, <1>14, <2>1, <2>2
<1> QED
  BY <1>13, <1>14

----------------------------------------------------------------------------
(* Assessing and composing. *)

\* The rows are of the policy's rules.
LEMMA RowsOfRules ==
  ASSUME NEW policy
  PROVE  /\ DOMAIN Assessed(policy) \subseteq RulesOf(policy)
         /\ Verdict(policy) \subseteq RulesOf(policy)
<1>1. \A needed : DOMAIN Rows(needed) = {c.rule : c \in DOMAIN needed}
  BY DEF Rows
<1>2. DOMAIN ScannedRows(policy) = RulesOf(policy)
  BY <1>1 DEF ScannedRows, RulesOf
<1>3. DOMAIN NoRows = {}
  BY DEF NoRows
<1>4. ASSUME NEW report PROVE DOMAIN CompiledRows(report, policy) \subseteq RulesOf(policy)
  BY <1>1, <1>3 DEF CompiledRows, RulesOf
<1>5. DOMAIN Assessed(policy) \subseteq RulesOf(policy)
  BY <1>2, <1>3, <1>4 DEF Assessed
<1>6. Verdict(policy) \subseteq RulesOf(policy)
  BY <1>2, <1>4 DEF Verdict, Unenforceable
<1> QED
  BY <1>5, <1>6

\* `policy check`, where it comes to a verdict, and the gate read one report.
LEMMA OneReading ==
  ASSUME NEW policy, engine.version \notin {"missing", "old"}
  PROVE  Verdict(policy) = Unenforceable(Assessed(policy))
BY DEF Verdict, Assessed

\* Nothing that the engine would install needs more than it supports: what costs more
\* is a pattern that is not anchored, or a rule on opening or writing files.
LEMMA InstallableFits ==
  ASSUME NEW policy, Installable(policy)
  PROVE  /\ \A c \in policy.clauses : ClauseFeatures(c) \subseteq EngineSupported
         /\ \A labels : LabelFeatures(labels, policy) \subseteq EngineSupported
<1>1. \A p : ~Floats(p) => PathFeatures(p) = {}
  BY DEF Floats, PathFeatures
<1>2. ASSUME NEW c \in policy.clauses PROVE ClauseFeatures(c) \subseteq EngineSupported
  <2>1. c.kind = "file" => /\ c.op \notin {"open", "write", "unlink"}
                           /\ PathFeatures(c.pattern) = {}
    BY <1>1 DEF Installable
  <2>2. {"connect"} \subseteq EngineSupported /\ {"recv"} \subseteq EngineSupported
    BY DEF EngineSupported
  <2>3. CASE c.op = "open" \/ c.op = "write" \/ c.op = "unlink"
    <3>1. c.kind # "file" /\ ClauseFeatures(c) = {}
      BY <2>1, <2>3 DEF ClauseFeatures
    <3> QED
      BY <3>1
  <2>4. CASE c.op \in {"connect", "recv"}
    <3>1. ClauseFeatures(c) = {c.op}
      BY <2>4 DEF ClauseFeatures
    <3> QED
      BY <2>2, <2>4, <3>1
  <2>5. CASE c.op = "exec"
    BY <2>5 DEF ClauseFeatures
  <2>6. CASE c.op \notin {"open", "write", "unlink", "connect", "recv", "exec"}
    <3>1. ClauseFeatures(c) = IF c.kind = "file" THEN PathFeatures(c.pattern) ELSE {}
      BY <2>6 DEF ClauseFeatures
    <3> QED
      BY <2>1, <3>1
  <2> QED
    BY <2>3, <2>4, <2>5, <2>6
<1>3. ASSUME NEW labels PROVE LabelFeatures(labels, policy) \subseteq EngineSupported
  <2>1. \A s \in FileSources(policy) : {"file flow"} \cup PathFeatures(s.pattern)
                                         \subseteq EngineSupported
    BY <1>1 DEF Installable, EngineSupported
  <2> QED
    BY <2>1 DEF LabelFeatures
<1> QED
  BY <1>2, <1>3

\* Rows of clauses that fit have none that is not enforceable.
LEMMA RowsFit ==
  ASSUME NEW needed, \A c \in DOMAIN needed : needed[c] \subseteq EngineSupported
  PROVE  Unenforceable(Rows(needed)) = {}
<1>1. \A rule \in DOMAIN Rows(needed) : Rows(needed)[rule] \subseteq EngineSupported
  BY DEF Rows
<1> QED
  BY <1>1 DEF Unenforceable

\* However the engine's compiler reports, and even when it does not, what it would
\* install is not said to be unenforceable.
LEMMA AssessmentWarranted ==
  ASSUME NEW policy, Installable(policy)
  PROVE  Unenforceable(Assessed(policy)) = {}
<1>1. \A c \in policy.clauses : ClauseFeatures(c) \subseteq EngineSupported
  BY InstallableFits
<1>2. \A labels : LabelFeatures(labels, policy) \subseteq EngineSupported
  BY InstallableFits
<1>3. Unenforceable(ScannedRows(policy)) = {}
  <2> DEFINE needed == [c \in policy.clauses |->
                          ClauseFeatures(c) \cup LabelFeatures(c.words, policy)]
  <2>1. \A c \in DOMAIN needed : needed[c] \subseteq EngineSupported
    BY <1>1, <1>2
  <2> HIDE DEF needed
  <2>2. Unenforceable(Rows(needed)) = {}
    BY <2>1, RowsFit
  <2> QED
    BY <2>2 DEF ScannedRows, needed
<1>4. Unenforceable(NoRows) = {}
  BY DEF Unenforceable, NoRows
<1>5. ASSUME NEW report PROVE Unenforceable(CompiledRows(report, policy)) = {}
  <2> DEFINE full == [c \in policy.clauses |->
                        ClauseFeatures(c) \cup LabelFeatures(c.words \cup c.more, policy)]
             bare == [c \in policy.clauses |-> ClauseFeatures(c)]
  <2>1. \A c \in DOMAIN full : full[c] \subseteq EngineSupported
    BY <1>1, <1>2
  <2>2. \A c \in DOMAIN bare : bare[c] \subseteq EngineSupported
    BY <1>1
  <2>3. CompiledRows(report, policy) \in {Rows(full), Rows(bare), NoRows}
    BY DEF CompiledRows
  <2> HIDE DEF full, bare
  <2>4. Unenforceable(Rows(full)) = {} /\ Unenforceable(Rows(bare)) = {}
    BY <2>1, <2>2, RowsFit
  <2> QED
    BY <1>4, <2>3, <2>4
<1> QED
  BY <1>3, <1>4, <1>5 DEF Assessed

\* A policy is composed of rules that a pack or a file of the user has.
LEMMA ComposedKnown ==
  ASSUME HostTyped, NEW c, Composes(c)
  PROVE  RulesOf(Composed(c)) \subseteq RuleNames
<1> DEFINE parts == {Packs[name] : name \in c.packs} \cup
                    (IF PolicyFile \in c.files THEN {host.policyFile} ELSE {})
<1>1. Composed(c).clauses = UNION {p.clauses : p \in parts}
  BY DEF Composed
<1>2. c.packs \subseteq DOMAIN Packs
  BY DEF Composes
<1>3. PolicyFile \in c.files => host.policyFile \in Policies \ {NoFile}
  BY DEF Composes, HostTyped, HostTypes
<1>4. \A p \in parts : RulesOf(p) \subseteq RuleNames
  <2>1. \A name \in c.packs : RulesOf(Packs[name]) \subseteq RuleNames
    BY <1>2 DEF RulesOf, RuleNames
  <2>2. PolicyFile \in c.files => RulesOf(host.policyFile) \subseteq RuleNames
    BY <1>3 DEF RulesOf, RuleNames
  <2> QED
    BY <2>1, <2>2
<1> HIDE DEF parts
<1> QED
  BY <1>1, <1>4 DEF RulesOf

----------------------------------------------------------------------------
(* The invariant is inductive. *)

\* A file is edited, and the host remains one.
LEMMA HostStep == HostTyped /\ [Next]_vars => HostTyped'
<1> SUFFICES ASSUME HostTyped, [Next]_vars PROVE HostTyped'
  OBVIOUS
<1> USE DEF HostTyped
<1>1. CASE LoadFile \/ LoadProfile
  BY <1>1 DEF LoadFile, LoadProfile, run
<1>2. CASE Create
  BY <1>2 DEF Create, run
<1>3. CASE Compose
  BY <1>3 DEF Compose, run
<1>4. CASE Assess
  BY <1>4 DEF Assess, run
<1>5. CASE Gate
  BY <1>5 DEF Gate, run
<1>6. CASE CheckCompose
  BY <1>6 DEF CheckCompose, run
<1>7. CASE CheckCompile
  BY <1>7 DEF CheckCompile, run
<1>8. CASE EditNearest
  <2>1. PICK layer \in Layers : host' = [host EXCEPT !.dirs[1].yaml = layer]
    BY <1>8 DEF EditNearest
  <2>2. layer \in Files /\ host.dirs \in Seq([yaml : Files, git : BOOLEAN])
    BY ConstantsAssumption DEF HostTypes
  <2> DEFINE dirs == [host.dirs EXCEPT ![1].yaml = layer]
  <2>3. dirs \in Seq([yaml : Files, git : BOOLEAN])
    <3>1. CASE 1 \in 1 .. Len(host.dirs)
      <4>1. host.dirs[1] \in [yaml : Files, git : BOOLEAN]
        BY <2>2, <3>1, ElementOfSeq
      <4>2. [host.dirs[1] EXCEPT !.yaml = layer] \in [yaml : Files, git : BOOLEAN]
        BY <2>2, <4>1
      <4> QED
        BY <2>2, <3>1, <4>2, ExceptSeq
    <3>2. CASE 1 \notin 1 .. Len(host.dirs)
      <4>1. dirs = host.dirs
        BY <2>2, <3>2
      <4> QED
        BY <2>2, <4>1
    <3> QED
      BY <3>1, <3>2
  <2>4. host' = [host EXCEPT !.dirs = dirs]
    BY <2>1
  <2> HIDE DEF dirs
  <2> QED
    BY <2>3, <2>4 DEF HostTypes
<1>9. CASE EditProfileFile
  <2>1. PICK layer \in Layers : host' = [host EXCEPT !.profileFile = layer]
    BY <1>9 DEF EditProfileFile
  <2>2. layer \in Files
    BY ConstantsAssumption
  <2> QED
    BY <2>1, <2>2 DEF HostTypes
<1>10. CASE EditPolicy
  <2>1. PICK policy \in Policies : host' = [host EXCEPT !.policyFile = policy]
    BY <1>10 DEF EditPolicy
  <2> QED
    BY <2>1 DEF HostTypes
<1>11. CASE UNCHANGED vars
  BY <1>11 DEF vars, run
<1> QED
  BY <1>1, <1>2, <1>3, <1>4, <1>5, <1>6, <1>7, <1>8, <1>9, <1>10, <1>11 DEF Next

\* The configuration is complete from the moment that it is loaded.
LEMMA CfgStep ==
  TypeOK /\ HostTyped /\ LayerKnown /\ CfgComplete /\ CfgFollowsCli /\ [Next]_vars
    => LayerKnown' /\ CfgComplete' /\ CfgFollowsCli'
<1> SUFFICES ASSUME TypeOK, HostTyped, LayerKnown, CfgComplete, CfgFollowsCli, [Next]_vars
             PROVE  LayerKnown' /\ CfgComplete' /\ CfgFollowsCli'
  OBVIOUS
<1> USE DEF LayerKnown, CfgComplete, CfgFollowsCli, Loaded
<1>0. CASE LoadFile
  <2> DEFINE layer == Layer(cli, host)
  <2>1. CASE layer = Bad
    BY <1>0, <2>1 DEF LoadFile
  <2>2. CASE layer # Bad
    <3>1. pc' = "profile" /\ cfg' = layer /\ cli' = cli /\ cli \in Clis
      BY <1>0, <2>2 DEF LoadFile, TypeOK
    <3>2. /\ layer \in LayerTypes
          /\ cli.profile # Absent =>
               /\ cli.profile \in DOMAIN Builtin
               /\ layer = [Blank EXCEPT !.profile = cli.profile]
      BY <2>2, <3>1, LayerTyped DEF HostTyped
    <3> HIDE DEF layer
    <3> QED
      BY <3>1, <3>2
  <2> QED
    BY <2>1, <2>2
<1>1. CASE LoadProfile
  <2> DEFINE loaded == Read(cfg, host)
  <2>1. CASE loaded = Bad
    BY <1>1, <2>1 DEF LoadProfile
  <2>2. CASE loaded # Bad
    <3>1. /\ pc = "profile" /\ pc' = "create"
          /\ cfg' = Override(loaded, cli) /\ cli' = cli /\ cli \in Clis
      BY <1>1, <2>2 DEF LoadProfile, TypeOK
    <3>2. /\ Complete(loaded)
          /\ cli.profile # Absent => loaded.mode = Builtin[cli.profile].mode
      BY <2>2, <3>1, LoadComplete DEF HostTyped
    <3> HIDE DEF loaded
    <3>3. /\ Complete(cfg')
          /\ cfg'.mode = IF cli.mode = Absent THEN loaded.mode ELSE cli.mode
      BY <3>1, <3>2, OverrideComplete
    <3> QED
      BY <3>1, <3>2, <3>3
  <2> QED
    BY <2>1, <2>2
<1>2. CASE Create
  BY <1>2 DEF Create, run
<1>3. CASE Compose
  BY <1>3 DEF Compose, run
<1>4. CASE Assess
  BY <1>4 DEF Assess, run
<1>5. CASE Gate
  BY <1>5 DEF Gate, run
<1>6. CASE CheckCompose
  BY <1>6 DEF CheckCompose, run
<1>7. CASE CheckCompile
  BY <1>7 DEF CheckCompile, run
<1>8. CASE EditNearest
  BY <1>8 DEF EditNearest, run
<1>9. CASE EditProfileFile
  BY <1>9 DEF EditProfileFile, run
<1>10. CASE EditPolicy
  BY <1>10 DEF EditPolicy, run
<1>11. CASE UNCHANGED vars
  BY <1>11 DEF vars, run
<1> QED
  BY <1>0, <1>1, <1>2, <1>3, <1>4, <1>5, <1>6, <1>7, <1>8, <1>9, <1>10, <1>11 DEF Next

\* The record is made once, of the configuration that is in effect.
LEMMA RecordStep == RecordedIsCfg /\ [Next]_vars => RecordedIsCfg'
<1> SUFFICES ASSUME RecordedIsCfg, [Next]_vars PROVE RecordedIsCfg'
  OBVIOUS
<1> USE DEF RecordedIsCfg, Created
<1>1. CASE LoadFile \/ LoadProfile
  BY <1>1 DEF LoadFile, LoadProfile, run
<1>2. CASE Create
  BY <1>2 DEF Create, run
<1>3. CASE Compose
  BY <1>3 DEF Compose, run
<1>4. CASE Assess
  BY <1>4 DEF Assess, run
<1>5. CASE Gate
  BY <1>5 DEF Gate, run
<1>6. CASE CheckCompose
  BY <1>6 DEF CheckCompose, run
<1>7. CASE CheckCompile
  BY <1>7 DEF CheckCompile, run
<1>8. CASE EditNearest
  BY <1>8 DEF EditNearest, run
<1>9. CASE EditProfileFile
  BY <1>9 DEF EditProfileFile, run
<1>10. CASE EditPolicy
  BY <1>10 DEF EditPolicy, run
<1>11. CASE UNCHANGED vars
  BY <1>11 DEF vars, run
<1> QED
  BY <1>1, <1>2, <1>3, <1>4, <1>5, <1>6, <1>7, <1>8, <1>9, <1>10, <1>11 DEF Next

\* What is composed comes from what can be read.
LEMMA RulesStep == HostTyped /\ CheckKnows /\ RulesKnown /\ [Next]_vars => RulesKnown'
<1> SUFFICES ASSUME HostTyped, CheckKnows, RulesKnown, [Next]_vars PROVE RulesKnown'
  OBVIOUS
<1> USE DEF RulesKnown
<1>1. CASE LoadFile \/ LoadProfile
  BY <1>1 DEF LoadFile, LoadProfile, run
<1>2. CASE Create
  BY <1>2 DEF Create, run
<1>3. CASE Compose
  <2>1. dsl' = dsl \/ (Composes(cfg) /\ dsl' = Composed(cfg))
    BY <1>3 DEF Compose
  <2>2. check' = check
    BY <1>3 DEF Compose
  <2> QED
    BY <2>1, <2>2, ComposedKnown
<1>4. CASE Assess
  BY <1>4 DEF Assess, run
<1>5. CASE Gate
  BY <1>5 DEF Gate, run
<1>6. CASE CheckCompose
  <2> DEFINE loaded == LoadConfig(cli, host)
  <2>1. \/ check' = [check EXCEPT !.at = "error"]
        \/ /\ Composes(loaded)
           /\ check' = [check EXCEPT !.at = "compile", !.dsl = Composed(loaded)]
    BY <1>6 DEF CheckCompose
  <2>2. check'.dsl = check.dsl \/ (Composes(loaded) /\ check'.dsl = Composed(loaded))
    BY <2>1 DEF CheckKnows
  <2>3. dsl' = dsl
    BY <1>6 DEF CheckCompose, run
  <2> QED
    BY <2>2, <2>3, ComposedKnown
<1>7. CASE CheckCompile
  <2>1. check'.dsl = check.dsl
    BY <1>7 DEF CheckCompile, CheckKnows
  <2>2. dsl' = dsl
    BY <1>7 DEF CheckCompile, run
  <2> QED
    BY <2>1, <2>2
<1>8. CASE EditNearest
  BY <1>8 DEF EditNearest, run
<1>9. CASE EditProfileFile
  BY <1>9 DEF EditProfileFile, run
<1>10. CASE EditPolicy
  BY <1>10 DEF EditPolicy, run
<1>11. CASE UNCHANGED vars
  BY <1>11 DEF vars, run
<1> QED
  BY <1>1, <1>2, <1>3, <1>4, <1>5, <1>6, <1>7, <1>8, <1>9, <1>10, <1>11 DEF Next

\* The gate decides by the rows and hands over the policy that they are of.
LEMMA GateStep == GateKnows /\ [Next]_vars => GateKnows'
<1> SUFFICES ASSUME GateKnows, [Next]_vars PROVE GateKnows'
  OBVIOUS
<1> USE DEF GateKnows, Refuses, Handed, Assessed
<1>1. CASE LoadFile \/ LoadProfile
  BY <1>1 DEF LoadFile, LoadProfile, run
<1>2. CASE Create
  BY <1>2 DEF Create, run
<1>3. CASE Compose
  BY <1>3 DEF Compose, run
<1>4. CASE Assess
  BY <1>4 DEF Assess, run
<1>5. CASE Gate
  BY <1>5 DEF Gate, run
<1>6. CASE CheckCompose
  BY <1>6 DEF CheckCompose, run
<1>7. CASE CheckCompile
  BY <1>7 DEF CheckCompile, run
<1>8. CASE EditNearest
  BY <1>8 DEF EditNearest, run
<1>9. CASE EditProfileFile
  BY <1>9 DEF EditProfileFile, run
<1>10. CASE EditPolicy
  BY <1>10 DEF EditPolicy, run
<1>11. CASE UNCHANGED vars
  BY <1>11 DEF vars, run
<1> QED
  BY <1>1, <1>2, <1>3, <1>4, <1>5, <1>6, <1>7, <1>8, <1>9, <1>10, <1>11 DEF Next

\* A verdict is of the policy that was composed for it.
LEMMA CheckStep ==
  RulesKnown /\ CheckKnows /\ [Next]_vars => CheckKnows'
<1> SUFFICES ASSUME RulesKnown, CheckKnows, [Next]_vars PROVE CheckKnows'
  OBVIOUS
<1> DEFINE Verdicts == {"idle", "compile", "verdict", "no verdict", "error"}
<1>a. /\ check \in [at : Verdicts, dsl : {check.dsl}, verdict : SUBSET RuleNames]
      /\ check.at = "verdict" =>
           /\ engine.version \notin {"missing", "old"}
           /\ check.verdict = Verdict(check.dsl)
  BY DEF CheckKnows
<1>1. CASE LoadFile \/ LoadProfile
  BY <1>1, <1>a DEF LoadFile, LoadProfile, run, CheckKnows, Verdict
<1>2. CASE Create
  BY <1>2, <1>a DEF Create, run, CheckKnows, Verdict
<1>3. CASE Compose
  BY <1>3, <1>a DEF Compose, run, CheckKnows, Verdict
<1>4. CASE Assess
  BY <1>4, <1>a DEF Assess, run, CheckKnows, Verdict
<1>5. CASE Gate
  BY <1>5, <1>a DEF Gate, run, CheckKnows, Verdict
<1>6. CASE CheckCompose
  <2> DEFINE loaded == LoadConfig(cli, host)
  <2>1. \/ check' = [check EXCEPT !.at = "error"]
        \/ check' = [check EXCEPT !.at = "compile", !.dsl = Composed(loaded)]
    BY <1>6 DEF CheckCompose
  <2> QED
    BY <2>1, <1>a DEF CheckKnows
<1>7. CASE CheckCompile
  <2>1. engine' = engine
    BY <1>7 DEF CheckCompile
  <2>2. CASE engine.version \in {"missing", "old"} \/ engine.report = "usage"
    <3>1. check' = [check EXCEPT !.at = "no verdict"]
      BY <1>7, <2>2 DEF CheckCompile
    <3> QED
      BY <1>a, <3>1 DEF CheckKnows
  <2>3. CASE ~(engine.version \in {"missing", "old"} \/ engine.report = "usage")
    <3>1. \/ check' = [check EXCEPT !.at = "error"]
          \/ check' = [check EXCEPT !.at = "verdict", !.verdict = Verdict(check.dsl)]
      BY <1>7, <2>3 DEF CheckCompile
    <3>2. Verdict(check.dsl) \subseteq RuleNames
      BY RowsOfRules DEF RulesKnown
    <3>3. Verdict(check.dsl)' = Verdict(check'.dsl)
      BY <2>1 DEF Verdict
    <3>4. Verdict(check'.dsl) = Verdict(check.dsl)
      BY <1>a, <3>1
    <3> QED
      BY <1>a, <2>1, <2>3, <3>1, <3>2, <3>3, <3>4 DEF CheckKnows
  <2> QED
    BY <2>2, <2>3
<1>8. CASE EditNearest
  BY <1>8, <1>a DEF EditNearest, run, CheckKnows, Verdict
<1>9. CASE EditProfileFile
  BY <1>9, <1>a DEF EditProfileFile, run, CheckKnows, Verdict
<1>10. CASE EditPolicy
  BY <1>10, <1>a DEF EditPolicy, run, CheckKnows, Verdict
<1>11. CASE UNCHANGED vars
  BY <1>11, <1>a DEF vars, run, CheckKnows, Verdict
<1> QED
  BY <1>1, <1>2, <1>3, <1>4, <1>5, <1>6, <1>7, <1>8, <1>9, <1>10, <1>11 DEF Next

\* Every step leaves every variable in its type.
LEMMA TypeStep == IInv /\ [Next]_vars => TypeOK'
<1> SUFFICES ASSUME IInv, [Next]_vars PROVE TypeOK'
  OBVIOUS
<1>a. /\ CfgComplete' /\ RecordedIsCfg' /\ CheckKnows' /\ HostTyped'
  BY HostStep, CfgStep, RecordStep, CheckStep DEF IInv
<1>b. Loaded' => IsConfig(cfg')
  BY <1>a, CompleteIsConfig DEF CfgComplete
<1>c. Created' => IsConfig(recorded')
  BY <1>a, <1>b, CompleteIsConfig, WrittenComplete
  DEF CfgComplete, RecordedIsCfg, Loaded, Created
<1>d. /\ check'.at \in {"idle", "compile", "verdict", "no verdict", "error"}
      /\ check'.verdict \subseteq RuleNames
  BY <1>a DEF CheckKnows
<1> SUFFICES /\ cli' \in Clis /\ engine' \in Engines /\ edits' \in 0 .. MaxEdits
             /\ pc' \in {"load", "profile", "create", "compose", "assess", "gate",
                         "start", "refused", "aborted", "failed"}
             /\ DOMAIN rows' \subseteq RuleNames
  BY <1>b, <1>c, <1>d DEF TypeOK, Loaded, Created, IsConfig
<1>e. /\ cli \in Clis /\ engine \in Engines /\ edits \in 0 .. MaxEdits
      /\ pc \in {"load", "profile", "create", "compose", "assess", "gate",
                 "start", "refused", "aborted", "failed"}
      /\ DOMAIN rows \subseteq RuleNames
  BY DEF IInv, TypeOK
<1>1. CASE LoadFile \/ LoadProfile
  BY <1>1, <1>e DEF LoadFile, LoadProfile, run
<1>2. CASE Create
  BY <1>2, <1>e DEF Create, run
<1>3. CASE Compose
  BY <1>3, <1>e DEF Compose, run
<1>4. CASE Assess
  <2>1. DOMAIN rows' \subseteq RuleNames
    BY <1>4, RowsOfRules DEF Assess, IInv, RulesKnown
  <2> QED
    BY <1>4, <1>e, <2>1 DEF Assess
<1>5. CASE Gate
  BY <1>5, <1>e DEF Gate, run
<1>6. CASE CheckCompose
  BY <1>6, <1>e DEF CheckCompose, run
<1>7. CASE CheckCompile
  BY <1>7, <1>e DEF CheckCompile, run
<1>8. CASE EditNearest
  <2>1. edits' \in 0 .. MaxEdits
    BY <1>8, <1>e, ConstantsAssumption DEF EditNearest
  <2> QED
    BY <1>8, <1>e, <2>1 DEF EditNearest, run
<1>9. CASE EditProfileFile
  <2>1. edits' \in 0 .. MaxEdits
    BY <1>9, <1>e, ConstantsAssumption DEF EditProfileFile
  <2> QED
    BY <1>9, <1>e, <2>1 DEF EditProfileFile, run
<1>10. CASE EditPolicy
  <2>1. edits' \in 0 .. MaxEdits
    BY <1>10, <1>e, ConstantsAssumption DEF EditPolicy
  <2> QED
    BY <1>10, <1>e, <2>1 DEF EditPolicy, run
<1>11. CASE UNCHANGED vars
  BY <1>11, <1>e DEF vars, run
<1> QED
  BY <1>1, <1>2, <1>3, <1>4, <1>5, <1>6, <1>7, <1>8, <1>9, <1>10, <1>11 DEF Next

\* The initial states satisfy it.
LEMMA InitInv == Init => IInv
<1> SUFFICES ASSUME Init PROVE IInv
  OBVIOUS
<1>1. TypeOK
  <2>1. 0 \in 0 .. MaxEdits /\ DOMAIN NoRows = {}
    BY ConstantsAssumption DEF NoRows
  <2> QED
    BY <2>1 DEF Init, TypeOK
<1>2. HostTyped
  BY ConstantsAssumption DEF Init, HostTyped, HostTypes
<1>3. LayerKnown /\ CfgComplete /\ CfgFollowsCli /\ RecordedIsCfg
  BY DEF Init, LayerKnown, CfgComplete, CfgFollowsCli, RecordedIsCfg, Loaded, Created
<1>4. RulesKnown /\ GateKnows
  BY DEF Init, RulesKnown, GateKnows, RulesOf, NoPolicy
<1>5. CheckKnows
  BY DEF Init, CheckKnows
<1> QED
  BY <1>1, <1>2, <1>3, <1>4, <1>5 DEF IInv

\* Every step preserves it.
LEMMA InvStep == IInv /\ [Next]_vars => IInv'
BY TypeStep, HostStep, CfgStep, RecordStep, RulesStep, GateStep, CheckStep DEF IInv

----------------------------------------------------------------------------
(* The theorems. *)

\* Every variable always holds a value of its type: a configuration in effect, or one
\* that is recorded, has no gap whatever the files leave out.
THEOREM TypeCorrect == Spec => []TypeOK
<1>1. IInv => TypeOK
  BY DEF IInv
<1> QED
  BY <1>1, InitInv, InvStep, PTL DEF Spec

\* Who asks for enforce has it for every rule of the policy that the engine is handed,
\* for any packs, files and engines, and whatever is edited meanwhile.
THEOREM EnforceForAllRules == Spec => []EnforceIsForAllRules
<1>1. IInv => EnforceIsForAllRules
  <2> SUFFICES ASSUME IInv, pc = "start", AskedMode = "enforce"
               PROVE  cfg.mode = "enforce" /\ Unenforceable(Assessed(handed)) = {}
    BY DEF EnforceIsForAllRules
  <2>1. cfg.mode = "enforce"
    <3>1. Loaded /\ Created
      BY DEF Loaded, Created
    <3>2. recorded = [cfg EXCEPT !.limit = Written(cfg.limit)] /\ cfg \in LayerTypes
      BY <3>1 DEF IInv, RecordedIsCfg, CfgComplete, Complete
    <3>3. recorded.mode = cfg.mode
      BY <3>2 DEF LayerTypes
    <3> QED
      BY <3>1, <3>3 DEF IInv, CfgFollowsCli, AskedMode
  <2>2. rows = Assessed(dsl) /\ ~Refuses /\ handed = Handed(dsl)
    BY DEF IInv, GateKnows
  <2> QED
    BY <2>1, <2>2 DEF Refuses, Handed
<1> QED
  BY <1>1, InitInv, InvStep, PTL DEF Spec

\* A run is refused only for a policy that the engine would not install, whichever way
\* its rules were assessed.
THEOREM RefusalWarranted == Spec => []RefusalIsWarranted
<1>1. IInv => RefusalIsWarranted
  BY AssessmentWarranted DEF IInv, RefusalIsWarranted, GateKnows, Refuses
<1> QED
  BY <1>1, InitInv, InvStep, PTL DEF Spec

\* The verdict of `policy check` and the decision of the gate agree on every policy that
\* both have composed.
THEOREM CheckPredicts == Spec => []CheckPredictsGate
<1>1. IInv => CheckPredictsGate
  <2> SUFFICES ASSUME IInv, check.at = "verdict", pc \in {"start", "refused"},
                      dsl = check.dsl
               PROVE  pc = "refused" <=> cfg.mode = "enforce" /\ check.verdict # {}
    BY DEF CheckPredictsGate
  <2>1. check.verdict = Unenforceable(Assessed(dsl))
    BY OneReading DEF IInv, CheckKnows
  <2>2. rows = Assessed(dsl) /\ (pc = "start" => ~Refuses) /\ (pc = "refused" => Refuses)
    BY DEF IInv, GateKnows
  <2> QED
    BY <2>1, <2>2 DEF Refuses
<1> QED
  BY <1>1, InitInv, InvStep, PTL DEF Spec

\* The record of a run, given to --config, stands for the configuration that was in
\* effect, whatever has become of actime.yaml, the user's file and the policies since.  Of
\* the profile file it names it needs no more than that it parses, and takes no more than
\* a limit where none was in effect.
THEOREM RecordCanReload == Spec => []RecordReloads
<1>1. IInv => RecordReloads
  BY ReloadsSame DEF IInv, RecordReloads
<1> QED
  BY <1>1, InitInv, InvStep, PTL DEF Spec
=============================================================================
