# A TLA+ model of Actime

Actime runs a coding agent under three external engines and keeps a record of
the run:

* **ActPlane** (policy): an eBPF engine that installs a policy and is either
  wrapped around the agent (`actplane run -- <cmd>`) or attached to a process;
* **AgentSight** (observability): watches the process tree and writes a database;
* **Akeep** (backup): commits the agent's session after the run.

Everything Actime promises is about the coordination of these with the agent: what
may be launched, what is left behind, and what the record says afterwards. None
of the hard cases needs a kernel to state, and few of them are reached by a unit test.
That coordination is what this directory models. Line numbers below are lines of
`src/crates/...`; `PROJECT.json` maps every definition to the lines it stands for.

## The system

| Part | Source | State | Operations |
|---|---|---|---|
| Run orchestration | `actime-cli/src/run.rs` | control point of the main thread, planes, the three child processes | `run`, `orchestrate_run`, `finish`, `finalize_aborted` |
| Run record | `actime-core/src/run.rs` | `manifest.json`, `report.md` | created, rewritten, closed once |
| Run store | `actime-core/src/run.rs`, `actime-cli/src/commands.rs` | one directory per run, shared by all processes | `create`, `save_manifest`, `list`, `get`, `prune` |
| Waiting for the wrap | `actime-cli/src/run.rs` 648-835 | clocks, the process tree under the wrap | `wait_for_wrap_pid`, `terminate_child_graceful` |
| Policy plane | `actime-cli/src/planes.rs` | provisional outcome, child (attach only) | `start`, `confirm_install_from_log`, `stop` |
| Observability plane | `planes.rs` | outcome, child | `start`, `settle_engine`, `stop` |
| Backup plane | `planes.rs` | none: a foreground call with a time limit, which its reading of the output does not have | `commit`, `run_with_timeout` |
| Attach | `run.rs` 119-325 | as a run, without an agent of its own | `attach`, `attach_inner` |
| Harvest | `run.rs` 1184-1500 | `violations.jsonl` | events, feedback, kill banner, log and policy |
| Observations | `actime-core/src/observations.rs` | none | `collect`, `collect_from_sqlite` |
| Enforceability | `actime-core/src/enforceability.rs` | none | `assess_compile_json`, `assess_dsl`, `path_match_features` |
| Configuration | `actime-core/src/config.rs` | files at four places, `actime.yaml` of the run | `load`, `merge_partial`, `merge_cli`, `format_duration` |
| Command line and packs | `commands.rs`, `embedded.rs` | none | `load_config`, `compose_policy`, `policy_check`, `report` |
| Report, doctor, components, installer | the rest | none | rendering, probes, copying |

How they meet. `run` loads its configuration from the nearest of several files, creates a record, composes
the policy, asks ActPlane's
compiler what this host can enforce, refuses if the mode is `enforce` and something
is missing, starts the policy plane *provisionally*, launches the agent (wrapped or
plain), starts the observer, waits, reads the engine's log to learn whether the
policy had been installed at all, stops the engines, harvests violations, commits a
backup, closes the record and writes the report. An error on the way goes to
`finalize_aborted`, which closes the record as a refusal. The record's file
is read meanwhile by `status`, `runs` and `report`, and removed by `prune`, with no lock.

What is hard here, and the properties it calls for:

* *Claims made before the fact.* `Active` is written to the record before the
  engine exists. Is it withdrawn on every path? (`LoudFailureDemoted`, `ActiveMeansInstalled`)
* *Fail closed.* The gates, and the state they read, are set in different steps; errors leave
  in the middle. (`FailClosed`, `RefusalIsAudited`)
* *The last write.* Truncation in place, a closing save that fails, a kill between
  two saves. (`ExitMeansRecorded`, `RecordRefinement`, `ListIsComplete`)
* *Nested waiting loops, three clocks, processes that do not die.* (`LimitIsKept`,
  `IdleMeansIdle`, `NoEngineLeftBehind`, `OneAtATime`, and, under fairness, `AgentEndsRunEnds`,
  `LimitEndsRun`, `TargetEndsAttach`)
* *A process tree read while it changes.* (`StableAgentIsSeen`, `WalkEnds`)
* *A directory shared by everybody.* (`ClosedRecordKept`, `PruneSparesNewest`, `LatestIsRecent`)
* *Evidence written by a process that is being killed.* Lost buffers, torn lines, a survivor that goes on
  writing, traces that stand in for events, rows left in the log of a database.
  (`FlushedIsComplete`, `FeedbackStandsIn`, `CleanStopIsCounted`, `ReportKeepsRecord`)
* *Verdicts on files that change.* The mode and the policy come from files which are read at different
  steps; whether a policy can be installed is assessed in three ways that need not agree.
  (`EnforceIsForAllRules`, `CheckPredictsGate`, `RefusalIsWarranted`, `RecordReloads`)

`PROJECT.json` lists each hazard at its line with the properties that watch it.

## The modules

**`RunRecord`** is the abstract specification of one record: opened, rewritten,
closed once; the agent launched at most once, under an open record, in a way the
mode permits. A write that fails half way leaves something no reader can parse.

**`RunFile`** is the record as the process that makes it holds it: `mem` is
`run.manifest`, `file` and `disk` are what a reader of `manifest.json` gets, saving truncates and
then writes, and may be refused or stop half way. Plane states drop their texts, except that
"not started" and "not started: run refused before agent launch" stay apart, because
`finalize_aborted` tells them apart. `ActimeRun` and `AttachRun` extend it.

**`ActimeRun`** is one `actime run`. `pc` is the main thread's place in
`orchestrate_run`; each of its actions is the code from one point where another process can
be noticed to the next, the saves it makes included. Around it move the engine
(`wrap`, `install`), the agent, the thread that copies the engine's stderr into
`policy-engine.log` (`log`) and the observer. The log has three things that `engine_log_error` tells apart (`Output`): the
engine's error line, an error line of the agent's, and bytes that are no text, which only the agent has reason to print. Which of
them have been copied when the log is read (`read`) is nobody's to say: the thread may be late, or end early. The backup
is a choice of outcomes (`BackupOutcomes`), or it is held up by a process that akeep left with its output open (`heir`): then
the main thread reads (`drain`) for as long as that process lives. `Status` and the instance `Record` at the end of the
module are the refinement mapping to `RunRecord`.
Only two saves are checked by the code, the first (`create`) and the last (`finish`); the
others ignore their outcome, and so do the actions.

**`AttachRun`** is one `actime attach`. It repeats the gates of `run` in code of its own, starts its
engine before the second gate, looks at it once, when the settle window ends, and then only follows the
target. Its record is also a `RunRecord`: `joined` takes the place of `launched`, with "wrap" for a
target followed in enforce mode and "plain" for one followed in another. Unlike `run`, an error of the closing
save reaches `finalize_aborted`, whose early return (`run.rs` 1603) then leaves the file as it is.

**`WrapWait`** is the `wait` and `idle` points of `ActimeRun` seen with a clock: the main
polling loop, the natural-exit window, the SIGTERM and SIGKILL graces. A poll is one unit of
time. In `ActimeRun` the same loop is untimed and its outcomes are choices; `WrapWait`
shows what those choices are worth in time.

**`Backup`** is `BackupPlane::commit`: `akeep init` and `akeep commit`, each called by `run_with_timeout`, whose loops
it has with their clock, in polls. Akeep is the environment: it may succeed at any time, also after SIGTERM, fail,
sit in the kernel where no signal reaches it, print more than a pipe holds, or leave a process behind with its
output open. A turn of the loop is the look (`Look`), the clock (`Linger`, `Sleep` or `Terminate`) and the signal; akeep may
succeed between the look and the signal, which `late` remembers. `ActimeRun` has the same call without its clocks.

**`RunStore`** is the directory `$ACTIME_HOME/runs` with several processes recording
runs in it and several clients listing and pruning. Saving is two steps, truncate and write, because a
reader sees the state between them. Run ids keep the one thing that matters, their order as
strings: seconds first, then a random suffix. The process is the same as in
`ActimeRun` with everything but its saves left out. Two processes may draw the same id and find it vacant, or one may draw the id
of a run in progress whose directory was pruned; `shared` remembers such ids. They then write to one file ("mixed": the shorter
text followed by the rest of the longer), or, when a prune came between, to a file without a name ("unlinked").

**`Harvest`** is what happens to violations between the engine's buffer, the files, the counts of the
record and the exit status. A file is its lines and how it ends: after a line, within one, within a
character of one (then it is no text, and `read_to_string` fails on it). The engine writes to
`events.jsonl` in its own run tree (layout "scoped", what `actplane run` does) or to `violations.jsonl`, which
the policy handed to it names (`planes.rs` 405; taken to be what an attached engine does: layout "direct").
Stopping it flushes the buffer, cuts it short, or leaves it alive and writing. The harvest looks at the run tree a bounded number
of times, falls back to `feedback.txt` and then to the last kill in the engine log, reads `violations.jsonl` and writes it
back with what it has found; `collect` reads it again, and the run's own `events.jsonl`, and counts nothing if either is no
text (`eventsRead`); a block or a kill makes the exit status 3. The write of `violations.jsonl` is taken to succeed.

**`TreeScan`** is what `WrapWait` takes for granted: a look down the process tree. `/proc` is listed once for
every process visited and read one file at a time, while processes fork, rename themselves, exit, are adopted and give
their numbers to others. An agent that stays where it is, is seen; one that changes its parent, its name or its
number during the walk need not be. The listing itself is taken at one instant.

**`ConfigLayers`** has the layers of the configuration as operators: a layer is what a file says, a function with
`Absent` where it is silent; `Found`, `Chosen` and `Layer` are the search for the file, `Named` the profile file it names,
`Merge`, `Base` and `Read` are `merge_partial` and the two kinds of profile, `Load` and `LoadConfig` all of it at once, `Override` the command line, and `Written` what is left of a limit that
is written and read back. A limit counts half seconds, so that a fraction exists.

**`Enforceability`** has the assessment of a policy as operators: the features that a pattern, a clause and a
label cost, and the rows that come of them by the compiler's report (`CompiledRows`) and by the scan of the lines
(`ScannedRows`). A pattern is its lead, its tail and whether a star stands between them, which is all that
`path_match_features` looks at; a clause is a record, and the labels it mentions are told apart by whether the scan sees their line.
`Installable` is what the engine itself accepts; it is the engine's, not Actime's.

**`Preflight`** puts the two together: `actime run` from loading to the gate, and `actime policy check`, each a
sequence of steps, while a user edits `actime.yaml`, the profile file or the policy file between any two of
them. A run reads its configuration in two steps (`LoadFile`, `LoadProfile`), since the profile file is named by the first file and read
after it; the check loads and composes in one step, which no property looks into.
`handed` is the policy that the engine is given past the gate. `attach` composes, assesses and refuses alike.

**`Observing`** is the way of what agentsight sees into the counts of the record and of later reports. A row is
committed to the log of the database, and moved to its main file by a checkpoint or as the store is closed; Actime reads
the main file only. `observer` may exit, die or survive its SIGKILL; the policy engine's `violations.jsonl`, which
`Harvest` is about, is here because a collection that cannot read it counts nothing. `Finish` and `Abort` are the two
ways to close a record; `Report` collects anew. In `ActimeRun` the same collection is a choice
(`ObservabilityAfterCollect`).

`MCActimeRun`, `MCRunStore`, `MCWrapWait`, `MCPreflight` and `MCObserving` give the constants their values for TLC;
`X_proofs` holds the theorems about `X`, and `Waiting_proofs` those about `WrapWait` and `TreeScan`, which is why the names
that the two have in common begin with `Scan` in the latter. An operator with a suffix after an underscore
(`StartOutcomes_Softened`) is a wrong form of the definition that follows it, kept to show
that a property notices the mistake; no specification uses it.

## The runs

| Run | Question |
|---|---|
| `core` | One run, every mode, every engine and agent behaviour, a kill at any point, writes that succeed: what is launched, recorded and left behind, and does the run end? |
| `faults` | What survives writes that are refused or torn, and waits that fail? |
| `attach` | The same questions of an attach, with writes that fail, an engine that fails early, late or dies, a target that ends, a user who detaches. |
| `harvest` | Is a violation lost, invented or counted twice, and do the traces stand in for events that were never flushed? |
| `backup` | How long can a backup last, when is a snapshot that was made called none, and is the vault ever given to two akeeps? |
| `wrap_wait` | How long can the wait on the wrap last, and when does it give up? |
| `tree_scan` | What is a look down a changing process tree worth, and does it end? |
| `store` | Is anything closed missed, rewritten or wrongly pruned? |
| `preflight` | Is the mode the one that was asked for, is the engine handed what was assessed, do gate and check agree, can the record of the configuration be loaded again, as what was in effect? |
| `observing` | Do the record and the reports count what the observer saw, and when is the plane Active? |
| `x_...` | Two statements of the documents that the code does not keep; see below. |

**Bounds.** `ActimeRun` and `AttachRun` have no counters: their only bounds are the constants. One rule is enough (`faults` has two, interchangeable),
since all the code asks of the set of unenforceable rules is whether it is empty; two agent
codes tell a code from a default. `PollMayFail` (`try_wait` fails on a child that has exited) is FALSE in `core` and TRUE in
`faults`. Nothing is assumed of the compiler, the copying thread or akeep. `WrapWait` keeps the
order of the code's constants (start grace longest, idle window and natural exit a few
polls, SIGKILL grace shortest), lets the limit expire in every window, and stops at a `MaxTime`
beyond the longest wait any property allows. `RunStore` has two recording processes, two clients, two
suffixes, of which the processes may draw the same, and three seconds. `MaxActors` bounds how many runs and client
operations there are together, which `actors` counts: three is what it takes for two prunes to race beside a new run.
`MaxSaves` is one between the first and the last; every further one is the same step again.
`Harvest` has three violations with every assignment of effects (feedback and log keep only the last: two tell last from first, three leave one that is neither),
and two further looks for the code's twenty.
`Backup` keeps the order of its windows (limit, SIGKILL grace, SIGTERM pause), and its `MaxTime` is four polls more than two calls can last, so
that the bound is met only by a read that does not end.
`TreeScan` has a wrap and three numbers, enough for a grandchild, an orphan and a number that is reused, and `Guard` = 3 for the code's
10,000, so that the walk is cut off as well as finished. `Preflight` lets one file be edited once (`MaxEdits`): what matters is between
which two steps it happens, and a second edit of the same run only stands for another host. `MCPreflight` has for hosts every mixture of the layers that can
hide one another, and policies for every way in which the assessments can differ. `MCObserving` has a fact for each
column that is counted, and two connections to one host, which are one endpoint; the facts come in any order and number up to these.

**Fairness.** Only the main thread of Actime is scheduled: `WF_vars(Main)`. Nothing obliges the engine, the agent, the observer,
the compiler, the copying thread or what akeep left behind to make progress, because
nothing in the code does; the agent may run for ever, and then only a limit ends the run
(`LimitEndsRun`). The code waits without a limit in two places, and there the properties let it stay: `hung`, on the compiler, and
`OutputHeld`, on an open output of akeep; that output is closed or it is not, and a run that has got past it goes on to its end. In `TreeScan` it is the walk, beside processes that may come and go at any pace. The other modules state no fairness.

**`CHECK_DEADLOCK FALSE`** is set where a run of the system simply ends.

## What is proved

Every safety property that a passing run checks is a theorem for every value of the constants. The theorems rest on the assumptions that the modules name (`ConstantsAssumption`, `SaveAssumption`), which
say what the constants are, and on no others, except where one is stated below. No property but a few of the types is
inductive; each proof module opens with the invariant that is, in named parts, each with its reason, then has one lemma
for each step of the system, or for each part, and puts them together in the theorems.

**`ActimeRun_proofs`**: for every set of rules, modes, exit codes and failure modes,

* `TypeCorrect`, `FailClosedAlways`, `RefusalAudited`, `ExitRecorded`, `PlainExitKept`: the
  invariants, whatever the environment does;
* `LoudFailureRecorded`: an install failure in the log that was read, if that log is text, is in the record, whatever the agent
  adds to it and whatever fails afterwards. The property speaks of what was read because the code can do no better: it
  does not wait for the copying thread, and a log that is no text shows it nothing;
* `EnginesNotLeft`, assuming that waiting does not fail: without that it is false, and the code is what makes it so;
* `RunImplementsRecord`: `Spec => RecordRefinement`;
* `ClosedForGood`: a record that a reader finds closed is not written again, in no field, whatever fails after it, and
  nothing is launched after it;
* `LaunchRecorded`: the agent is launched once, on a record that exists and is open, and where every write succeeds that
  record already says which rules are not installed and as what the policy plane starts.

`IInv` adds what a state in the middle of a
run knows about the steps behind it: the manifest and the gate agree on the gap once
assessed (`GateHeld`), the launch is the one the mode permits (`LaunchMatchesControl`), codes are known
when their process has exited (`CodesKnown`), the record is open until it is closed (`RecordOpen`),
planes not started yet still say so (`PlanesUntouched`), a refusal is being written
(`RefusalWritten`), what has been saved is what is in memory (`Saved`), the code to be recorded is the
agent's (`PlainCode`), engines are stopped after the stop (`EnginesStopped`), and a failed install that was read of is
in memory at once and in the file once it is closed (`FailureHeld`).
The refinement then goes action by action: each action of `ActimeRun` is one of the four of
`RunRecord` or leaves the record alone; that a closed record is never written again, and that a launch
happens only as the mode permits, are taken from the invariant. `RunRecord` sees a status and an exit code only, so
`ClosedForGood` says more than the refinement; it has the same source, that every save is made where the record is
open. `LaunchRecorded` needs one part more (`AuditedFirst`): up to the launch, memory and file agree where writes succeed.
These two are stated in the proof module, as no run checks them; TLC agreed on the instances of `core` and `faults`.

**`AttachRun_proofs`**: `TypeCorrect`, `RefusalIsTrue`, `EnginesNotLeft`, `AttachImplementsRecord` and `ClosedForGood`, in the same way.
The difference is in the abort: an error of the closing save comes there with a record that is closed in memory and
open in the file, so the invariant speaks of the last manifest written (`RefusalWritten`) rather than of the
file, and of who followed the target when the abort is reached (`JoinedMatchesControl`).

**`Preflight_proofs`**: `TypeCorrect`, `EnforceForAllRules`, `RefusalWarranted`, `CheckPredicts` and
`RecordCanReload`, for any hosts, files, packs, policies, command lines, engines and number of edits. That the
configuration has no gap (`CfgComplete`), that the layer between the two reads is one a file can hold (`LayerKnown`) and that what the command line says is what is in effect (`CfgFollowsCli`) must be
known from the load on; that the rows are those of the policy that is handed over (`GateKnows`), and that the check
has a verdict only when the engine's report is one that the gate reads too (`CheckKnows`), are what makes their decisions comparable although
files are edited between them. Under these are lemmas about the operators of `ConfigLayers` and
`Enforceability`: a layer over a complete base is complete, a limit is
written less than a second shorter, a record is read back over any base as itself. `RecordCanReload` is without assumption: it
says for which hosts the record cannot be loaded (the profile file it names no longer parses), and of which limit it is not
sure (`limit: null` is no value to the code, so that file's limit comes back). The module's `Names` are the strings that may name a profile, a pack or a
file, left open; `ConstantsAssumption` says that the marks (absent, no file, bad file) are no values.

**`Waiting_proofs`**, of the wait: `TypeCorrect`, `LimitKept` and `IdleIsIdle`, for every length of every window, where TLC
has one. `WindowsDated` says how far past its limit each window can have opened, which adds up to the bound;
`IdleRemembered` that an idle time being counted began after the last look that found an agent. And `AnswerKept`, which no
run checks (TLC agreed on the instance of `wrap_wait`, with and without waits that fail): a wrap that was left alone answers
with its own status, one shut down for idle never with a death by signal, one shut down by the limit with its own status
or SIGKILL's; it rests on why the shutdown began (`Reasoned`). Of the look itself:
`ScanTypeCorrect` and `StableIsSeen`, for any numbers, any bound on the visits and any processes
that fork, rename themselves, exit and reuse numbers. `Reaches` is the point: every agent that has stayed where it was
is found already, or is below what the walk has ahead of it, which is its stack and the children not read yet of the number being
visited. "Below" is said without a chain of parents (`Below` is the least set that no child leaves), because what a
recursive definition computes is out of the prover's reach: an agent is below some numbers when it is in every set that holds
them and that no child leaves. An exit takes a whole subtree away, and with it those who no longer stay; a visit
exchanges a number for its children; at the end nothing is ahead.

**`Backup_proofs`**: `TypeCorrect`, `LimitKept`, `OneAtATimeAlways` and `TimelySuccessKept`, for every timeout, grace and
pause. The windows are dated from the beginning of their call (`WindowsDated`), and `CallsOrdered` and `SuccessDated` say
what akeep can still do once its call is given up. `TimelySuccessKept` does not say that a snapshot made before SIGTERM counts:
one made after the last look does not.

**`RunStore_proofs`**: `TypeCorrect` and `NewestSpared`, for any number of recording processes, clients, seconds and
runs to keep, also when ids collide: what a client has listed is there or was pruned with `Keep` newer ones left
(`Spared`), which takes lemmas on the cardinality of sets of ids. `ClosedKept`, `ListComplete` and `LatestRecent` hold
whatever is drawn; they except an id that two processes have worked under at a time (`shared`), because nothing in the code keeps
those apart and the record of one may be rewritten by the other: without the exception TLC finds `ClosedRecordKept` and `ListIsComplete` violated. The
invariant is that processes that meet under an id share it (`Alone`), that no process works under a closed id that is not shared
(`NothingFinalIsWritten`), and that what was closed when a client began stays
closed or is pruned (`ClosedStays`) and is in its list once it has been read (`ScanLists`).

**`Harvest_proofs`**: `TypeCorrect`, `HarvestComplete` and `FeedbackIsEnough`, for any set of violations with any
effects, any number of looks and both layouts. The invariant relates each file to what the engine has flushed (`OneEach`,
`OnePlace`, `Logged`), the traces to what happened (`TracesHappened`), and what is collected to both (`CollectsAll`,
`StandsIn`).

**`Observing_proofs`**: `TypeCorrect`, `CleanStopCounted` and `ReportKept`, for any finite set of facts of the kinds that
are counted. Under them are lemmas about the counts: a set of facts has a number, which is positive if it is not empty
(`CountOfFacts`), facts are about no more objects than there are facts (`CountOfObjects`), and so every count of the
store, by every schema, is a number which is positive if and only if the main file holds a fact of one of the kinds
behind it (`StorePositive`); what a collection adds to that and what makes it count nothing is `CollectedIs`. The
invariant is about what can still change once the record is closed. An observer that has closed its store leaves
nothing in its log (`LogMoved`) and does not come back (`StaysDown`), the main file only grows (`ClosedStep`), and
as long as no engine goes on writing, the other files are as readable as they were (`Stands`); so a later collection
finds something of every kind that the record counts, and the same numbers when nothing had been left in the log.

Only model-checked:

* the liveness properties `AgentEndsRunEnds`, `LimitEndsRun`, `TargetEndsAttach` and `WalkEnds`: fairness and
  `ENABLED` are out of the prover's reach;
* the two properties the documents state and the code does not keep, which are false.

## Where the documents and the code differ

Each of these has a run that shows it (see "findings" in `PROJECT.json`):

* `ActiveMeansInstalled`: a record can close with an Active policy plane on which nothing was installed
  (launch failed; sudo refused; the log was read before the error arrived).
* `ZeroMeansUnknownSchema`: counters can be zero although the database has rows of a known schema: they are in its
  log, which an immutable open ignores, or a line of `violations.jsonl` is no text.

Also met, and read off the models or the code rather than given a run (the first eleven are findings too):

* a wrapped run whose engine outlives the agent records 0, not the agent's code (`run.rs` 770);
* Ctrl-C ends an attach without closing its record; there is no handler (`run.rs` 314);
* when a notification was flushed before the kill of the engine, or a torn line was left by it, the file is not empty,
  `feedback.txt` is not looked at, and the exit status is the agent's although something was blocked (`run.rs` 1207);
* `run_with_timeout` reads the pipes of a child that has exited without looking at its deadline, so a
  process that holds them open makes the wait as long as it lives (`planes.rs` 664); `AgentEndsRunEnds` and `LimitEndsRun` hold
  of everything else;
* an engine log that is no text shows no error, so a byte of the agent's can hide an install failure (`planes.rs` 787);
* a commit of akeep that succeeds between the last look and SIGTERM, or after it, is "left uncommitted", and its id is not
  recorded (`planes.rs` 676);
* every rule may be called enforceable in a policy that the engine will not install: file sources that no rule mentions, labels on
  continuation lines under the scan, and reports with backend clauses only (`enforceability.rs` 111, 143, 175);
* a line of `violations.jsonl` or `events.jsonl` that is no text makes the whole collection count nothing, where a
  line that does not parse is only skipped (`observations.rs` 149, 279); with `--fail-on-violation` the exit status is then 0;
* a run aborted after its agent ran closes with the observability plane as it was started, not demoted over an empty store (`run.rs` 1632);
* `--config` is ignored with `--profile` (`commands.rs` 33);
* a limit of a whole number of minutes and a fraction is recorded without the fraction (`config.rs` 80), and a record names a
  profile file that is read again with it, if it still parses (`config.rs` 429);
* "refused before agent launch" is also on the record of a run in enforce mode whose agent ran and whose engine's log had an
  error line (`run.rs` 1621);
* `actplane compile --json` has no time limit, where "a hung engine must never hang an Actime run" (`run.rs` 1666,
  `planes.rs` 11): a run may stay there with a limit, and `LimitEndsRun` says so (`hung`). Nor have the `--version` calls of
  `Components::detect` (`components.rs` 153), which are made before the record exists and are not modelled;
* an akeep that prints more than a pipe holds is never drained, times out and is killed (`planes.rs` 661);
* `status` shows a run that was killed as in progress for ever (`commands.rs` 82, `docs/configuration.md` 213);
* a line of the agent's shell, "... Killed ...", at the end of the engine log becomes a kill of the policy in the
  record (`run.rs` 1407);
* where the engine writes to `violations.jsonl` itself, a kill it has written there is harvested again from
  the traces and counted twice;
* an attached engine that fails to install after the settle window, or dies, stays Active in the record
  (`planes.rs` 255);
* attach follows its target by number, and goes on when another process gets the number between two looks (`run.rs` 314);
* the early return of `finalize_aborted` is meant not to "clobber a complete record" (`run.rs` 1602), but the
  only error that reaches it with a closed record is the failure to save that record;
* an agent's own line that begins with `error:` demotes a policy that was installed, and in enforce mode
  aborts the run after the fact (`planes.rs` 786, against its comment at 322);
* an observe run whose sudo refuses never runs the agent at all (`docs/DESIGN.md` 412);
* harvesting may go on beside an engine that survived SIGKILL (`run.rs` 895, `docs/DESIGN.md` 244);
* two processes can draw one id and share a directory: `exists` and `create_dir_all` are two
  steps (`run.rs` of the core crate, 453 and 463). `ClosedRecordKept`, `ListIsComplete` and `LatestIsRecent` except such an id;
* "latest" is the greatest suffix among the runs of one second (`run.rs` of the core crate, 504);
* `status` misses a run in the middle of a save;
* the idle reap may hit an agent that appears in the natural-exit window, which no longer
  looks at the process tree (`run.rs` 766).

## Not modelled

* Resolving a container or pod for `attach`: calls to docker, podman, kubectl and crictl.
* The engines' insides. What they may do to Actime (install, refuse, print, exit, hang, crash) is in
  the modules as actions of the environment; `Installable` is what is known of the engine from the code and the documents.
* Rendering, terminal output, argument parsing, `init`, `keep`, `doctor`, component probes, the installer: no state and no interaction.
* Token sums, CPU seconds and resident size of `collect`, its timeline, and the fields of a configuration that nothing
  but an engine reads.

## Plan

Written, in this order: `RunRecord`, `RunFile` and `ActimeRun`, `WrapWait`, `RunStore`, the theorems of `ActimeRun`, `AttachRun`,
`Harvest`, `Backup`, `ConfigLayers`, `Enforceability` and `Preflight`, `TreeScan`, `Observing`.
Then the theorems: of `AttachRun`, `Backup`, `WrapWait`, `RunStore`, `Harvest`, `Preflight`, `TreeScan` and `Observing`, and
what follows for the record on disk and the answer of the wait (`ClosedForGood`, `LaunchRecorded`, `AnswerKept`).
Every safety property of a passing run is proved. What could come next: the collection of `Observing` as the one that
`ActimeRun` takes for a choice (`ObservabilityAfterCollect`), by a refinement, as `RunRecord` is refined; and `WrapWait` in
the same way for the untimed waiting loop.
