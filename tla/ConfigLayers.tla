---------------------------- MODULE ConfigLayers ----------------------------
(***************************************************************************)
(* Where the configuration of a run comes from                             *)
(* (crates/actime-core/src/config.rs): built-in profiles, a profile file,  *)
(* the nearest actime.yaml or the user's, and the command line.            *)
(*                                                                         *)
(* A layer is what a file says: a value or Absent for every field.  A      *)
(* configuration is a layer without gaps, but for the limit: there Absent  *)
(* is the value `null`, no limit.  A limit counts half seconds.            *)
(***************************************************************************)
EXTENDS Integers, FiniteSets

CONSTANTS
  Names,      \* strings that may name a profile, a pack or a file
  Absent,     \* a field that a layer leaves out, an option that is not given
  NoFile,     \* the content of a file that does not exist
  Bad         \* the content of one that does not parse, or cannot be read

Fields == {"profile", "mode", "packs", "files", "limit", "observability", "backup"}
IsLayer(file) == file \notin {NoFile, Bad}

\* What a file may say, and what it may be.
Modes == {"off", "observe", "enforce"}
LayerTypes ==
  [profile : {Absent} \cup Names, mode : {Absent} \cup Modes,
   packs : {Absent} \cup SUBSET Names, files : {Absent} \cup SUBSET Names,
   limit : {Absent} \cup Nat,
   observability : {Absent} \cup BOOLEAN, backup : {Absent} \cup BOOLEAN]
Files == {NoFile, Bad} \cup LayerTypes

\* Nothing said: `actime.yaml` without a line.
Blank == [field \in Fields |-> Absent]

Minute == 120
Hour   == 60 * Minute

----------------------------------------------------------------------------
(* Profiles and layers. *)

Balanced ==
  [profile |-> "balanced", mode |-> "enforce", packs |-> {"coding-agent-baseline"},
   files |-> {}, limit |-> Absent, observability |-> TRUE, backup |-> TRUE]

Builtin ==
  [observe  |-> [Balanced EXCEPT !.profile = "observe", !.mode = "observe"],
   balanced |-> Balanced,
   strict   |-> [Balanced EXCEPT !.profile = "strict", !.limit = 4 * Hour,
                   !.packs = {"coding-agent-baseline", "no-vcs-write"}]]

\* merge_partial, and serde's defaults: what a layer leaves out is the base's.
Merge(base, layer) ==
  [field \in Fields |-> IF layer[field] = Absent THEN base[field] ELSE layer[field]]

\* The content of the profile file that a layer names.  A name that is built in is not
\* looked for; of the others only one, host.path, is the name of a file.
Named(layer, host) ==
  IF layer.profile = host.path /\ layer.profile \notin DOMAIN Builtin \cup {Absent}
    THEN host.profileFile
    ELSE NoFile

\* The base of a layer: the built-in profile it names, the profile file, whose own gaps
\* have the defaults of `balanced`, or `balanced` under the unknown name.
Base(layer, host) ==
  IF layer.profile = Absent THEN Balanced
  ELSE IF layer.profile \in DOMAIN Builtin THEN Builtin[layer.profile]
  ELSE IF Named(layer, host) # NoFile THEN Merge(Balanced, Named(layer, host))
  ELSE [Balanced EXCEPT !.profile = layer.profile]

\* The configuration that a layer stands for, which has been read, and whose profile
\* file is read now; Bad when one of them does not parse.
Read(layer, host) ==
  IF layer = Bad \/ Named(layer, host) = Bad THEN Bad
  ELSE Merge(Base(layer, host), layer)

----------------------------------------------------------------------------
(* Which file. *)

\* find_actime_yaml: from the working directory, dirs[1], upward, not beyond the
\* directory that holds .git.
Found(dirs) ==
  LET Reached == {i \in DOMAIN dirs : \A j \in 1 .. i - 1 : ~dirs[j].git}
      Having  == {i \in Reached : dirs[i].yaml # NoFile}
  IN  IF Having = {} THEN NoFile
      ELSE dirs[CHOOSE i \in Having : \A j \in Having : i <= j].yaml

\* Config::load, up to the text of the file: --config, which must exist, the nearest
\* actime.yaml, the user's, or nothing said.
Chosen(explicit, host) ==
  LET discovered == IF Found(host.dirs) # NoFile THEN Found(host.dirs) ELSE host.home
      file == IF explicit = Absent THEN discovered ELSE explicit
  IN  IF file = NoFile THEN IF explicit = Absent THEN Blank ELSE Bad
                       ELSE file

\* Config::load.
Load(explicit, host) == Read(Chosen(explicit, host), host)

\* Context::load_config: with --profile no file is read, not even that of --config, and
\* nothing is said but the name.
Layer(cli, host) ==
  IF cli.profile = Absent THEN Chosen(cli.config, host)
  ELSE IF cli.profile \in DOMAIN Builtin THEN [Blank EXCEPT !.profile = cli.profile]
  ELSE Bad
LoadConfig(cli, host) == Read(Layer(cli, host), host)

\* merge_cli and --timeout.  (A wrong form: an option that is not given is a value.)
Override_Unset(cfg, cli) ==
  [cfg EXCEPT !.mode = cli.mode,
              !.limit = IF cli.limit = Absent THEN @ ELSE cli.limit,
              !.observability = @ /\ ~cli.noObservability,
              !.backup = @ /\ ~cli.noBackup]
Override(cfg, cli) ==
  [cfg EXCEPT !.mode = IF cli.mode = Absent THEN @ ELSE cli.mode,
              !.limit = IF cli.limit = Absent THEN @ ELSE cli.limit,
              !.observability = @ /\ ~cli.noObservability,
              !.backup = @ /\ ~cli.noBackup]

----------------------------------------------------------------------------
(* The record. *)

\* format_duration, as parse_duration reads it back: whole days, hours or minutes
\* are written without the fraction of a second that follows them.
Written(limit) ==
  IF limit # Absent /\ limit >= Minute /\ (limit \div 2) % 60 = 0
    THEN limit - (limit % 2)
    ELSE limit
=============================================================================
