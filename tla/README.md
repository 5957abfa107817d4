# Verification of the repowise-bench harness

TLA+ models, TLC runs and TLAPS proofs about the benchmark harness of this
repository: the programs that spend money on agent runs, share expensive
indexes between threads and processes, resume after a crash, and decide which
rows count as measurements.

Contents: 1 the system, 2 the modules and how they correspond to the code,
3 the runs, 4 the findings, 5 the proofs, 6 what is not modelled, 7 the plan.

## 1. The system

The repository measures code-search and memory tools ("arms") by giving the
same questions to the same agent with different tools mounted.  Most of its
7000 files are recorded results and statistics over them.  The parts that have
state of their own, and can therefore go wrong in ways no example shows:

| Component | State | Operations | Interacts with | Correct when |
|---|---|---|---|---|
| Experiment runner: `harness/run_experiment.py`, `BudgetTracker` and `ResultWriter` of `harness/metrics.py` | work list, futures of a thread pool, shutdown flag, money spent, one JSONL file | resume, warm up, submit, gate, run, append, stop, drain | runs cells in pool threads; the main thread alone writes | no answer paid for is lost or paid for twice; money stays near the limit; tasks stay paired |
| Arm set-up: `prepare_arm_tree`, `ensure_arm_index`, `probe_arm_server` of `harness/swe_qa_runner.py`; `arm_tree`, `build_index`, `generate_mcp_config` of `harness/arms.py` | worktrees, indexes, prebuild stamps, the memory of built indexes, MCP config files, one lock | cut a tree, build once, probe, launch | every cell, in every thread; shares trees and stamps with prebuilds | an agent gets its own server, on a finished index nobody is rebuilding |
| Index life cycle: `scripts/prebuild_mui_indexes.py`, `scripts/reset_mui_arm_indexes.py`, `index_repo_at` of the runner | trees, index cache, stamps, a lock file | prebuild, refuse, reset, restore from cache | separate processes over one disk | a stamp stands for a finished, cold-built index; nothing wedges |
| Agent and judge: `run_claude_code`, `judge_answer`, `run_swe_qa_task`; `prepare_claude_home` of `harness/arms.py`; `harness/codex_runner.py`, `harness/opencode_runner.py` | attempts, tries, allowance, the row; the login in the shared Claude and Codex homes, `hooks.json` and the agent's config file | isolate, configure, launch, classify, back off, ask again, judge, record | one per thread; shares homes and config with all others | a row is what its agent did and cost; no row without a login; an agent runs on the bench's configuration; the cell ends |
| Session runner: `harness/session_runner.py` | rows and summaries of an out file, transcripts, the conversation's id | resume, give a task, wait, refuse, ask the oracle, append, summarise | agent, oracle; repeated runs share a directory | what a file records is one conversation, in order, with its transcripts |
| Rung 8 runner: `results/bakeoff_2026_08/rung8/rung8_runner.py`, with the build, probe and grading of `canary_allarms.py` beside it | trees with indexes and stamps, cell files, graded files; the units of its pool, the prewarm, the graders | stage, build, stamp, refuse, query, time out, reap; abort, prewarm, self-test, grade | git, indexers, the arms' servers, the grader; repeated runs of a tag share trees and cells | an answer is of a sound tree; nothing with a mock index is graded; the disk stays bounded; a run ends |
| Answer evaluation: `answer_eval/__main__.py`, `index.py`, `symbols.py`, `server_session.py` | database, vectors and build report of each index; checkouts | remove, reuse, repair, refuse, build, report, serve | repeated runs share indexes and checkouts | what a blob says of its index is what was measured |
| Artifact cache: `graph/lib/artifact_cache.py`, `build_cached` of `graph/lib/arms.py`, the sweeps over it | slots and staging directories | look up, build, store, publish | sweeps of several processes share it | a slot holds nothing or a whole artifact, and is filled in the end |

The last four are programs of their own, started by hand, usually with one
process at a time.  Elsewhere a cell (one task under one arm) passes through
the first four: the runner's thread takes it, the set-up gives it a tree, an
index and a server, the agent answers and the judge grades, and the runner
appends its row.

What is hard here: a budget that is checked at one time and charged at another;
processes interrupted or killed between two file operations, and resumed; caches
and stamps whose presence is taken for validity while the repository they
describe moves; locks kept in files; files and links several threads rewrite in
place; retries that forget what was paid; removals that stop half way and say
nothing; errors that escape from one cell into everybody's loop.  `PROJECT.json`
lists each such hazard at its line with the properties that cover it, or why
none does yet.

## 2. The modules

| Module | Models |
|---|---|
| `ResultLedger` | abstract: a ledger of answered pairs that grows but for one entry in doubt, and the pairs a process still has to deal with |
| `ExperimentRunner` | the experiment runner; implements `ResultLedger` |
| `TreeIndex` | abstract: how everything treats the index of a worktree: who builds has it alone, what is stamped or queried is usable |
| `ArmSetup` | a cell from its start to the launch of its agent, in many threads; implements `TreeIndex` |
| `IndexLifecycle` | the tools that make, use and remove indexes, as processes over one disk; implements `TreeIndex` |
| `CellRun` | a cell of any of the three agents, from its launch to its row, and the homes the cells share |
| `SessionLedger` | abstract: files of entries, each of one conversation, made in order for answered tasks, and never lost but for the one in doubt |
| `SessionRunner` | a chain of tasks in one agent conversation, with its out file and transcripts; implements `SessionLedger` |
| `RungRunner` | the units of the rung 8 runner over trees and cells, and main's way to the grades |
| `AnswerIndex` | the index an answer evaluation builds or reuses, up to its blob |
| `ArtifactSlots` | abstract: slots that hold nothing or a whole artifact |
| `ArtifactCache` | lookup, store and the sweeps over them; implements `ArtifactSlots` |
| `*Proofs` | the theorems of each, in a module that extends it |
| `MC*` | the instances TLC checks, with the `.cfg` files |

The modules are cut where the code's components hand over to each other: what
one leaves nondeterministic the other explains.  `ExperimentRunner` lets a task
end with any cost up to a maximum, with an error, early, or by an exception;
`CellRun` shows where cost, errors and exceptions come from.  `ArmSetup` lets a
build leave any result and its trees start with any leftovers;
`IndexLifecycle` shows which leftovers the tools leave.  These two speak of one
thing, the index of a worktree, once inside a process and once between
processes, and both implement `TreeIndex`: the state in which the tools leave
the trees (`Quiet`) is the one a run begins with.

An operator introduced by a comment that begins `mutant:` is a faulty variant of
the definition after it: the bug a plausible edit of the code would bring.  The
model does not use it; it is there to show which property notices that fault.

### ExperimentRunner

State: the parseable error-free rows of each pair (`okRows`) and how the file's
last line ends (`tail`), which survive; the phase of the main thread, whether
its configuration warms up, the shutdown flag, the spent total and the future of
each pair, which do not.  `ragged` remembers that the file it resumed from did
not end with a newline.  Actions: `Launch` (main up to the work list, with the
automatic resume), `CloneRepos`, `WarmCondition`, `SetupInterrupted` (the set-up
loops and their flag tests), `Take` (a free thread takes the head of the queue:
`SkipTask`, `RefuseTask` or `RunTask` after the gate), `FinishTask`,
`FailEarly`, `RaiseTask` (how `run_swe_qa_task` ends), `HangTask` and
`HangWarmUp` (or does not: the probe of a server may wait for ever),
`YieldInterrupted`, `YieldRaised`, `YieldRefusal`, `YieldRow` (what the main
loop does with a finished future), `LoopDone`, `DrainDone` (the pool's exit
waits for queue and threads), `Signal`, `Crash`, `CrashInAppend`.  The gate
tests the total; the charge comes with `FinishTask`: two critical sections, with
the whole run in between.  What the loop has had of a pair is kept (`yielded`,
or `dismissed` for a pair that no agent ran), so that a process that stops knows
which pairs were run.  Money is counted in units of what the gate assumes one
run costs.  The file is abstracted to counts because only parseability and
completeness of a row matter; a torn last line swallows the row appended after
it.  `ResultLedger` says the same without files: a death inside an append puts
one entry in `doubt` (`HalfCommit`), and whatever is recorded next takes it
along (`Lose`).

### ArmSetup

State: the plan of the run (its arms, and those it takes as indexed); per source
repository its commit; per tree its commit, its index, the names it is stamped
under and whether something of another arm's lies in it; per arm its MCP config
file; the lock; the memory of finished builds (per process); per thread the
step, the cell and the configuration its agent was launched with.  An index is
partial, of mock vectors, opaque (mock, but the embedding proof cannot open it
and accepts it: the proof fails open) or good.  Arms may share a tree, as the
arms of a served-surface comparison do; a stamp carries the name of one of them
and is looked up under that of the arm asked for and of the owner
(`StampNames`), so that a tree stamped by another sharer is built over.  Actions
follow `run_swe_qa_task`: `Begin`; `PrepareTree`, `PrepareFails`, or
`SourceUnread` and `TreeUnread` (git rev-parse fails, its exit code is not
looked at, and the tree is taken down for a commit that has not changed),
`MountStatic` for an arm with a hand-written config, `GitHangs`; `Assume` for an
arm taken as indexed, `IndexByDesign` for one without an index, otherwise
`IndexRemembered`, `IndexStamped` or `StartBuild`, `EndBuild`, `BuildRaises`;
`TruncateConfig` and `WriteConfig` (the file is written in place, without a
lock); `Probe`, `ProbeFails`, `ProbeHangs`; for the control `ScrubTree` and
`RemoveLeak` instead; `LaunchAgent`, `AgentEnds`; and `MoveHead`, `Restart` from
outside.  A tree that is cut again loses index and stamp; the memory does not
learn of it.  A call of git or of a probe that hangs takes its thread to a step
it never leaves; git hangs with the lock held.  `disturbed` is a history of the
trees git's failures took down and of those whose stamp has outlived the index
it stands for (a build over it came to nothing, `Fruitless`): most properties
are about the trees of neither kind (`Settled`).  `Init` has every tree of the
run absent, bare, or with an index of any kind, the owner's stamp on any index
no failure was seen of, and another sharer's on any index.  For `TreeIndex` an
index is usable that the run accepts (or takes as it is), a tree is stamped that
carries its owner's stamp, the builder is the thread whose build runs, the users
are the agents with a server, and the trees that are not `Settled` are lost.

### IndexLifecycle

State: per tree its commit, index, stamp and cache entry; the lock file; per
process the tool it runs, its step and the trees it still has to visit; the tree
the operator has been told to reset.  A directory is absent, hollow, partial or
complete as of a commit.  One action per file operation a kill may separate: the
lock's test, truncation and filling; each visit's decision (`SkipStamped`,
`PrebuildTree`, `RefuseTree`, `ReadTornStamp`, `BenchTree`, `ResetTree`); the
steps of `index_repo_at` (`UseCache`, `RestoreDone`, `StartInit`, `InitDone`,
`InitFails`, `MakeCache`, `StartCopy`, `CopyDone`); the stamp in two steps; the
reset in four, whose removals of the cache entry and of the index may leave
something and say nothing (`CacheRemains`, `ResetDone`); `Kill`, `MoveHead`.
`kept` remembers the trees whose cache entry outlived a reset: the next build of
such a tree takes the entry for a finished one, whatever is in it.  `StartPrebuild`,
`StartReset` (of the tree a refusal named), `StartBench` and `StartResetAll` (no
instances named: all trees, stamped or not) are the operator's.  With `Alone` the
operator starts a tool only when none runs, which is how the scripts are
meant to be used.  For `TreeIndex` an index is usable that is complete and of
its tree's commit; a tree is lost whose source has moved or whose cache entry
outlived a reset, until that entry is gone (`Regain`).  A refusal tells the
operator which tree to reset (`mustReset`); a torn stamp raises in `json.loads`
and tells nothing.  One arm uses each tree here, so names of stamps do not
matter.  The model leaves out the re-use of a process id by the operating
system.

### CellRun

State: the harness and the channel to a judge its run is configured for; the
login in each bench home (none, a link that is current or stale, or a copy);
whether a `hooks.json` lies in the Codex home and whether the agent's config
file is `cut`, emptied and not yet written; and per cell its step, the home and
the login its last process was launched with, the agent's attempts, the judge's
tries and allowance, and the row.  History variables hold what the agent
processes really spent, what the last one spent, how many were rate limited and
whether the arm's server has answered a call.  `Setups` lists what a run may be
configured for and find.

Actions: `InspectLink`, `Relink`, `Unlink`, `MakeLink`, `CopyLogin`
(`prepare_claude_home` and the login of `prepare_codex_home`, whose file
operations interleave with other cells'; a judge on the command line goes
through the Claude home again); for Codex `FindHooks` and `RemoveHooks`, and for
Codex and OpenCode `OpenConfig` and `WriteConfig`; `LaunchAgent`, then one
action per way a process may end.  Of Claude Code: `Answers`, `LooksAnonymous`,
`Limited`, `Fails`, `TimesOut`, `Breaks`, `Exhausted`.  Of Codex, which has one
attempt: `CodexAnswers`, `CodexSaysNothing`, `TimesOut`, `CannotStart`, which
nothing catches.  Of OpenCode: `LocalAnswers`, or `FallsSilent` and then
`Recovered` or `StaysSilent` (a turn that ends without an answer is followed by
a second one in its session, and the row is put together from both), and
`LocalFails`.  Then `Record`, `JudgeRefused` or `StartJudge` and the three
channels: the OpenAI loop (`EmptyVerdict` doubles the allowance,
`TemperatureRefused` drops the parameter), the Anthropic SDK (`AskSdk`,
`SdkFails`) and the command line.  `Refresh` is the operator's token being
renewed, which leaves the link naming the old file.  The config file is one
variable: every Codex cell writes the same one, and OpenCode cells of one arm
and repository share a tree.

### SessionRunner

State on disk: per out file its readable rows, whether its last line lacks its
newline (`unended`) and the row on that line if the newline is all it lacks
(`loose`); per conversation and task the launch its transcript is of (`log`).
State of the process: the step, the arguments, `session`, `done`, the place in
the loop, and what `parse_stream` makes of the output.  `given` and `answered`
are history.  For `SessionLedger` the entries of a file are its readable rows
and summaries, of which the one that lacks its newline is in doubt; a process is
open over the file from its launch to its end, with the tasks of its loop that
have no row still to do.  Actions: `Launch` (up to the loop: read the rows,
take or draw the id) and `Refuse`; `SkipRecorded`, `OpenTranscript`, `Spawn`;
the agent's `CloseOutput`, `AgentExits`, `DrainErrors` and the runner's
`TimesOut`; `RefuseRow` (no result event, or no login: the run ends) or
`AcceptResult`; `RunOracle` or `OracleTimesOut`, which is raised outside every
`try`; `AppendRow`, `Summarise`; and from outside `Kill` and `TearAppend`.  A
conversation is named by the launch that drew its id.

Assumed: one runner at a time; a killed runner's agent ends with it; an agent
echoes the id it was given (the header says it was measured; a drift is only
printed); an out file belongs to one cell, arm and condition, has its own tree
and the same `--task-ids` in each run, while `--limit-tasks` may change; the
first eight digits that name the transcript directory tell ids apart; and the
`git status` before a task, which has no timeout, returns.

### RungRunner

State on disk: each unit's tree (its checkout, its index, its stamp), the cell
record of each instance and arm, each arm's graded file.  State of the process:
its plan and flags, where main is, where each unit is, the arms it has still to
query, what its build record says; what the prewarm has made and what main
takes it for; the graders.  A unit is an instance and a build arm; arms that
ride on the same index (`SHARED_TREE`) are queried before its tree goes.
Actions follow `run_unit`: `Take`, `StageExisting` or `StageAfresh` and
`StageAdd`, `StageAdded`; `BuildSkipped`, or `BuildStart` with `BuildExits` or
`BuildFails`; `WriteStamp`; `Refuse`, `Query`, `Hang` and `CellTimeout`,
`UnitRaises`; `Keep` or `Reap`, which may leave scraps of a tree and says
nothing then.  Then main: `UnitsEnd`, `CheckMock`, `Checkout`, `PrewarmEnds`,
`Selftest`, `GradeStart`, `GradeEnd`, `Summarize`, `Return`; and `Kill`.  The
history `why` of a tree tells what befell it that neither its stamp nor its
HEAD shows (a probe of its vectors that failed or found no table among them);
`ScoredOnSound` names exactly which of these excuses which defect.
`load_cell` takes a cell it cannot read for a missing one: `Take`, `CheckMock`
and `GradeStart` may misread cells, and the histories `misread` and `lost` tell
which cells the run last misread and which answers were written over.  `mocked`
holds every cell refused for a mock index, also of the arms that ride on the
build arm's tree, whose cells do not record the build.
Left out: serena, which has no index; what an answer ranks.  Assumed: the runs
of a tag are given the same instances, arms and workers.

### AnswerIndex

State on disk, at each place an index may be: the database (its corpus, how
many full-text rows it has, the commit of its symbols), the vectors, the
report; and the commit of each checkout.  State of the process: the step, the
command line, the report it holds.  Actions: `Start`, `Remove` or `RemoveStops`
(`rmtree` raises or is killed half way), then `RefuseReport`, or `Reuse` and
`AddRow` with `RefuseRows` or `AcceptRows`, or the build: `CreateDb`,
`WritePages`, `WriteSymbols` behind `MatchingCommit`, `AddRow`, `CheckRows`,
`EmbedBatch`, `EmbedRest`, any of which may raise (`BuildRaises`).
`OpenReport` and `WriteReport` are two steps because the file is emptied first.
`Score`, `NotServed`, `End`; from outside `Kill` and `Move`, another commit
checked out.  A place may hold an index from before full-text rows were
written, which is what the repair is for.

### ArtifactCache

State: per slot its directory and the `.partial` beside it, each with its
metadata (none, torn, good) and how much of the artifact it holds; per process
the step, its slot, the slots to come, the renames it tried.  A payload is one
file, which is there or not, or a tree, which may be there in part.  A file is
stored by its name, or, `Unnamed`, as a directory with nothing else in it: then
the metadata name no file, and lookup hands out the file in place of the
directory (`Handed`).  Actions: `Begin`, `BuildCached`, `EndSweep`; `Look`,
`ReadMeta` or `ReadFails`, `List`, `ListRaises`; `Build`, `Clear`, `Stage`,
`CopySome`, `CopyRest`, `OpenMeta`, `WriteMeta`, `Drop`, `Rename`, with the ways
each may fail (`ClearFails`, `DropIgnores`, `RenameAgain`, ...); and `Kill`,
which may fall inside a removal.  A slot is in doubt, and nothing is promised of
it, once two stores of it have overlapped or metadata that could not be read
made a store remove a complete tree.  The lookup the prebuild script makes
before `build_cached` asks the same question once more and is not a step of its
own, but for one thing: it is outside the script's `try`, so that a listing that
raises there ends the whole sweep.

## 3. The runs

| Run | Instance | Checks |
|---|---|---|
| `er_runs` | 2 tasks x 2 conditions, 2 threads, a budget of 2, a run costs up to 1, with and without warm-up, 3 processes, every fault | `OneAnswerPerPair`, `OverspendBounded`, `OneSplitTask`, `FinishedKeepsAnswers`, `NoRerun`, `ImplementsLedger`, `EndsUnlessStuck` |
| `as_cells` | 2 threads, 1 repository, 3 tasks, 1 restart, 1 move, 1 call of git or of a server that fails or hangs; a pair of arms sharing a tree, the pair taken as indexed, a control with an arm without an index and one with a hand-written config | `NoForeignServer`, `NoBuildUnderAgent`, `AgentHasIndex`, `ControlClean`, `ImplementsTreeIndex`, `CellEndsUnlessHung` |
| `as_two_repos` | 2 threads, 1 arm, 2 repositories | a documented claim, refuted |
| `il_alone` | 1 process at a time, 2 trees, 2 kills, 1 build that fails or removal that leaves something, 1 benchmark or reset of all trees, 1 move | `StampMeansBuilt`, `StampsAreCold`, `AgentIndexBuilt`, `ImplementsTreeIndex`, `Prebuilt` |
| `cr_cells` | 2 cells, 2 attempts, 3 tries, 1 refresh; Claude Code with each channel and link, Codex with anything in its home, OpenCode | `HomeUndisturbed`, `OwnConfiguration`, `RowsAuthentic`, `CostHonest`, `CellEnds` |
| `cr_recovered` | 1 cell of OpenCode | a documented claim, refuted |
| `sr_session` | 2 out files in one directory, 3 tasks, 3 launches, 2 torn appends, any kill | `OneConversation`, `SummaryAnswered`, `TranscriptOfRow`, `ImplementsLedger`, `FrozenOrder`, `EndsOrReads` |
| `sr_rejoin` | 1 out file, 2 tasks, 2 launches | a documented claim, refuted |
| `rr_units` | 1 instance, 2 arms on one index, 3 runs; 2 instances, 1 arm, 2 workers, 2 runs; the same with 1 worker, 1 run; 1 fault (a kill, a removal cut short, a blind probe or a failed reading of cells); four sets of flags | `MockRunNotGraded`, `DiskBounded`, `GradedMatchesCells`, `NoCloneRace`, `ScoredOnSound`, `OkCellsKept`, `RunEnds` |
| `ai_indexes` | 2 snapshots, 2 embedders, 1 checkout at 2 commits, 5 command lines, 4 runs, 2 faults | `BlobDescribesIndex`, `RebuildRebuilds` |
| `ai_commit` | the same, 2 runs, 1 fault | a documented claim, refuted |
| `ac_slots` | 2 processes, a directory of one file and one of several, 2 renames, 3 sweeps, 2 faults | `ImplementsSlots`, `SweepFills` |

What the properties say is written above each of them in its module.  In short:

- *Runner.*  No pair ever has two readable answers, and none is given to an
  agent again once it has one, whatever is killed or torn.  A process spends at
  most its headroom plus one maximal run per thread.  However a process stops,
  of the pairs it was given at most one task (one condition under warm-up) has
  some that were run and some that were not.  A loop that ran to its end has
  every answer its agents gave in the file, but for one if the file it resumed
  from was torn; the runner implements the ledger, torn appends included; and
  every process that is not killed ends, unless a call without a timeout hangs:
  then it has done all it can without that call.
- *Set-up.*  With one repository an agent never gets another cell's server; no
  index is built beside an agent that uses it; until its tree is cut again
  (because the repository moved or git failed) or its stamp outlives its index
  an agent with a server has a finished index not known to be of mock vectors,
  or at least some index where the run takes it as it is, and the control's
  agent finds nothing of another arm's, though the control cells of a repository
  scrub one tree at once.  The threads keep to `TreeIndex`: they build only what
  is neither stamped under its owner's name nor queried, nothing takes a usable
  index from under that stamp or its agents, and no agent is let in before the
  index is usable.  Every task ends, unless git or the probe of its server
  hangs, or git in another thread while this one needs the lock.
- *Index life cycle.*  With one tool at a time, and until the repository moves
  or a reset fails to remove a cache entry, a stamp stands for a complete index
  that was built from nothing, and an agent finds a complete index, whatever was
  killed or failed before.  Refused prebuilds recover, also from an index a
  reset could not remove; only a stamp torn by a kill stops them for good.  The
  tools keep to `TreeIndex` from one process to the next: a reset takes the
  stamp before the index, a build begins on a tree without one.
- *Cell.*  Once the links to the operator's logins are current no cell cuts
  them.  No agent of Codex starts over a leftover `hooks.json`, and a config
  file is incomplete only while a cell writes it.  Nothing comes into a row from
  a process without a login, and no row claims calls its arm's server did not
  answer.  A row's cost never exceeds what was spent and is, of Claude Code, its
  last agent process's (or zero after a timeout, an answer mistaken for a
  missing login, or when all attempts were rate limited).
- *Session.*  Whatever was killed, torn or refused, the rows of an out file are
  of one conversation, its summaries report answered tasks only, and the
  transcript beside a row is its own.  The file keeps what `SessionLedger`
  promises: an entry is made for the task at hand, once it is answered, and is
  lost only if the run died writing it, or an earlier one the line before it.  Until an append is torn a conversation
  is given its tasks in order.  A run ends unless it waits for its agent's
  output or error pipe, the two waits without a timeout.
- *Rung 8.*  An answered cell is of a complete checkout with a finished index of
  real vectors, except where a removal or a kill cut the checkout short, a build
  over an older stamp was cut short, `--skip-build` was given, the probe failed,
  or a tree outlived the unit that refused its mock index.  A run that refused a
  mock index to the arm that built it does not grade, unless it cannot read that
  arm's cell.  An answer a unit can read is never replaced, graded files match
  the answers that can be read, graders run side by side only over warm
  checkouts, trees are at most as many as workers but for those kept or left
  over, and runs end.
- *Answer index.*  What a blob says of its index (embedder, pages, full-text
  rows) is what was asked; vectors too, unless a removal stopped half way
  there.  `--rebuild-index` measures what it built.
- *Artifact cache.*  A slot not in doubt offers nothing or a whole artifact (a
  directory with one file: that file), and a sweep that comes to its end and
  during which nothing failed leaves every slot filled or being filled.

**Bounds and why they are enough.**  Two threads, processes or cells are the
least that can interleave, and every race found needs two.  Two tasks by two
conditions are the least in which the task-major order can be violated; three
launches are a crash, a resume that meets what it left, and the resume after
that.  A budget of 2 with runs of up to 1 and an estimate of 1 lets two threads
pass the gate with one run's headroom left and overspend.  A pair of arms shares
a tree; the three other kinds of arms (control, without an index, hand-written)
keep to trees of their own and are checked in one plan.  Two kills are a kill
and a kill of the recovery from it.  One build or removal that fails is what its
recovery needs.  The cells of one run share a harness, so two cells of each are
all the code can bring together.  `MaxRetries` is 2 instead of the code's 6:
attempts carry nothing but their number and what was spent from one to the next,
so one retry and its exhaustion show all there is.  `JudgeTries` is the code's
3, and `MaxRoom` its 64000 in units of the first 16000.  For the session runner,
two out files are what a shared directory needs, three tasks give a resumed run
one to skip, one to lose and one to go on with, and three launches are a run,
one that resumes it, and one that resumes that or begins the repeat.  For the
rung 8 runner, three runs are one that leaves a tree, one that takes it and one
that grades what both wrote; two instances and one worker are more units than
workers, which `DiskBounded` needs, and two workers are two units at once.  For
the answer index, four runs are an older index, its repair, a rebuild and the
reuse of that; the snapshots have one and two pages so that a count tells them
apart.  For the cache, one slot of each kind shows all a slot can do (a file
stored by its name takes the same steps as one stored as a directory); three
sweeps are two at once and the one after them, and two faults a failure and a
failure of its repair.  Two renames stand for the code's six: one that is
repeated and one that is the last.  Where the proofs of section 5 apply, no
bound matters.

**Deadlock** is not checked: every system here stops when its work, kills and
launches are used up.  That it does not stop early is what
`EndsUnlessStuck`, `CellEndsUnlessHung`, `CellEnds` and `Prebuilt` say.

**Fairness.**  `ExperimentRunner`: weak fairness of the main thread's set-up and
loop, of the pool's dispatch and of the end of each run: the interpreter
schedules its threads, and a task's retries are bounded.  Its builds, agents,
judge and tool calls have timeouts; git and a probe's `initialize`, `list_tools`
and teardown have none, so a task may also hang (`HangTask`, `HangWarmUp`), and
liveness is stated with that exception.  Signals, crashes and launches are not
fair.  `ArmSetup`: weak fairness of each thread's steps, but for those into a
hang, which nothing ends; a thread waiting for the lock is served in the end
because a run has finitely many tasks, so no fairness of the lock is assumed.
`IndexLifecycle`: a started tool runs on, and the operator goes on starting
prebuilds, and the reset a refusal asks for; kills are bounded.  `CellRun`: weak
fairness of each cell; every process has a timeout, every wait an end.
`SessionRunner`: weak fairness of the runner's own steps (`Progress`), which
include both timeouts; its agent owes it nothing (`git status` is taken to
return).  `RungRunner`: weak fairness of each unit and of main: the pool's
threads and main go on, git and the removal of a tree end, builds and graders
have timeouts and a hung server has `--unit-timeout`.  `AnswerIndex` and
`ArtifactCache` have safety properties only and state no fairness.

## 4. Findings

Each is a run whose single property is a sentence of the repository, violated
by what the code does; `PROJECT.json` quotes the sentence and its line.

1. `as_two_repos`: an arm's MCP config file is named by the arm alone; two
   threads on two repositories overwrite each other's, and an agent gets the
   other repository's server.
2. `sr_rejoin`: a session's id reaches the disk with its first row, so a run
   killed before that is resumed in a second conversation, over a tree that
   holds the first one's edits.
3. `ai_commit`: `--commit` refuses a checkout at another commit when an index is
   built in it, but not when the index there is reused.
4. `cr_recovered`: when OpenCode's first turn ends without an answer and its
   second answers, the row loses what the arm's server answered in the first:
   the merge keeps the calls by name, but not the per-server outcome
   `arm_exercised` is decided from.

More weaknesses are visible as exceptions the properties make, and are listed as
hazards: an exception that escapes a task (a judge that cannot be resolved) ends
the loop, while the pool runs the rest of the queue, unrecorded and paid for;
after a death inside an append the next process's first row continues the torn
line and is lost with it; the prebuild lock's test and its write are two steps,
so two prebuilds pass together; the index cache knows no commits, so a tree cut
again after a move gets the old commit's index; a cache entry the reset could
not remove, which it does not report, is the next prebuild's finished build;
rows paid for are lost when the loop stops at the budget or at Ctrl-C, which
waits for the running tasks and then drops their answers; what a timed-out or
rate-limited agent spent is in no row; two cells that find the credentials link
stale together may send one of them to the operator's own home, where
`prepare_claude_home` counts on an isolation assertion `run_swe_qa_task` does
not make (`session_runner.py` does); in the Codex home the slower of two cells
raises where the faster one has removed `hooks.json` or made the link; a Codex
or OpenCode agent started while another cell rewrites its config file may read
an empty one; a Codex turn that breaks off after a message is an answer that
cost nothing; a session waits without limit for its agent's pipes, and an
oracle's timeout ends it without the row of the task just paid for; the rung 8
runner answers from a tree whose mock index an earlier run refused, if that tree
was kept or the run was killed before removing it; an index in a checkout is
reused for another snapshot, which the blob then names; metadata of the artifact
cache that cannot be read for a moment make the next store take a complete tree
apart, and a kill in that removal leaves half of it behind good metadata; two
sweeps that miss one slot share its staging directory; a git rev-parse that
fails has the tree taken down with its index, which the memory still calls
built; of two control cells that scrub one tree the slower one's `unlink`
raises, and its task with it; a hung server or git keeps its task, and with the
set-up lock every other one, for ever; a tree stamped under the name of one arm
that shares it is built over for another, and a build that then comes to nothing
leaves the stamp on half an index; a stamp torn by a kill stops every later
prebuild with an error that names no tree; the rung 8 runner grades a mock index
it refused to the sharing arms alone, or whose cell it could not read, and
writes over an answer it could not read for a moment; a directory with one file
comes out of the artifact cache as that file, which graphify's adapter, without
its manifest, cannot open; and a listing that raises ends a prebuild's whole
sweep.

Three more were met while reading `run_swe_qa_task`, where any cell would show
them.  An arm with a hand-written config allows `mcp__<prefix>`
(`swe_qa_runner.py:1165`), the server and not a tool; the check at line 2470 looks
for a served tool called `<prefix>` and refuses the cell unless there is one
(the model leaves open what a server serves).  `assume_indexed` means the index
of the staged checkout (line 2089), but looks for it in the arm's worktree, which
never carries it unless an earlier run built one there: `Init` has both.  And as
the harness passes `manage_c0_worktree=False` (line 2581), the `worktree_files` of
a control condition without `clean_worktree` are not copied, though its
`system_note` tells the agent that they are there.

## 5. The proofs

TLAPS proves the following for every value of the constants that satisfies the
named assumption of the module (`RunnerAssumption`, `ArmSetupAssumption`,
`LifecycleAssumption`, `CellAssumption`, `SessionAssumption`, `RungAssumption`,
`AnswerAssumption`, `CacheAssumption`; TLC evaluates each in every run). Each
invariant is proved by a strengthening that is inductive: it holds initially,
every action preserves it, and it implies the property.

**`ExperimentRunnerProofs`** - `TypeCorrect`; `OneAnswer`; `NeverRerun`;
`Overspend`; `LedgerImplemented`; `PairedWhenStopped`; `AnswersKept`;
`ProcessesAreFinite`.  `OneAnswerPerPair` alone is not inductive: a future of an
answered pair could still be appended.  `OneAnswerInv` adds that a pair whose
future is still of interest has no readable answer, and that an unterminated
whole row is counted exactly once; `NeverRerun` follows from it.  For the
budget, `InFlightInv` counts what the running tasks may still charge; the proof
needs that the running pairs are finitely many and at most as many as threads.
The refinement maps the ledger to the pairs with a readable row, the open pairs
to the futures not yet dealt with and the doubt to the row that lacks its
newline, and shows each action to be a step of `ResultLedger` or a stutter, torn
appends included.  `OrderInv` says that a pair that was run, its result taken or
not, comes before one that was not, waiting, cancelled or refused, in the order
of the work list, from which two split tasks would each have to precede the
other.  `KeepInv` accounts for every answer of the process: in its future, in
the file, or the one that was appended to a line without its end.

**`ArmSetupProofs`** - `SetupTyped`; `NoBuildBesideAgents`; `AgentsHaveIndex`
and `ControlsAreClean` (until the tree is cut again); `ServersAreOwn` (one
repository); `TasksAreFinite`.  `MemoInv` is the protocol behind the lock: a
thread past `ensure_arm_index` works on a tree that is remembered or taken as
indexed, and a tree being built is neither, so two threads never stand on the
two sides of a build.  `IndexInv` adds what a stamp and the memory mean in a
tree that has not been cut again and what the threads past `prepare_arm_tree`
keep finding in it: `RecutIndex` shows that cutting one of them again meets no
such thread.  `ConfigInv` says that a config file names its arm.
`TreeIndexImplemented` is the refinement: most steps are shown to change nothing
a tree's protocol sees (`Unseen`), or to take a builder or a user away
(`Leaving`), and a build's begin and end and an agent's launch are steps of
`TreeIndex`, for which `IndexInv` gives that the tree is unused or its index
usable.

**`IndexLifecycleProofs`** - `LifecycleTyped`; and, one tool at a time,
`StampsMeanBuilt`, `StampsRecordColdBuilds`, `AgentsFindBuiltIndex`;
`ToolsAreFinite`, however many run.  `LifeInv`
says in which order things come and go: the index is complete before its cache
entry and its stamp exist, and both are gone before the index is taken apart
(`TreeSound`); and what the working tool has established so far (`WorkSound`).
The three state what they do of trees whose repository has not moved and whose
cache entry no reset has left behind (`Trusted`).  `ToolsKeepTreeIndex` is the
refinement of `TreeIndex`, again with one tool at a time; `InTree` computes what
a step in one tree does to the protocol's state, and each step of a tool is then
one of the protocol's or invisible.  `ToolsLeaveQuiet` says that whenever no tool
runs the trees are as `TreeIndex` lets a run begin; `TreeIndexImplemented` says
that a run begun so keeps them so.

**`CellRunProofs`** - `CellTyped`, `HomeIsUndisturbed`, `ConfigurationIsOwn`,
`RowsAreAuthentic`, `CostIsHonest`, `RetriesAreExact`, `AnswersAreJudged`,
`CellsAreFinite`, for all three harnesses.  `CellInv` adds that current links
are only looked at (`HomeInv`), that while a `hooks.json` is left every Codex
cell is still on its way to it (`ConfigInv`), that attempts and rate limits are
counted together, that a cell whose agent has not returned has an empty row, and
that a judged cell has an answer.

**`SessionRunnerProofs`** - `SessionTyped`, `ConversationIsOne`,
`SummaryIsAnswered`, `TranscriptIsOfRow`, `OrderIsFrozen`.  `SessionInv` adds
that ids are drawn in the order of the launches (`Drawn`) and so belong to one
file (`Owned`), that what is recorded, skipped or passed was answered
(`Earned`), that the task at hand has no row yet (`Fresh`, which keeps its
transcript apart from every row's), and that without a torn append every task
before the last one given is recorded (`Ordered`, on which the order rests).
What an append may do to the file is stated once, for whole, torn and swallowed
rows alike, and each of the steps that write is shown to be of that form.
`SessionLedgerImplemented` maps the rows to the entries of `SessionLedger`.  It
needs that a row in doubt is on an unfinished line (`LooseLast`) and that a
conversation no launch has begun has answered nothing (`Heard`).
`RunsAreFinite`: every step of a live run, its agent's moves and a kill
included, strictly decreases a natural number (`Left`), so a run takes at most
`9 * NTasks + 8` steps.

**`RungRunnerProofs`** - `Types`, `AnswersAreOnSoundTrees`,
`RecordedMocksAreNotGraded`, `DiskIsBounded`, `GradedFilesMatch`,
`GradersDoNotRace`, `ReadCellsAreKept`, `UnitsAreFinite`.  `RungInv` says of
each unit's tree what its defects are excused by at every step (`HalfInv`,
`StampInv`, `MockInv`, `OutlivedInv`), that a unit's list holds only arms of its
own that are not answered (`UnitInv`), that a refusal stays in the build arm's
own cell until its run is over, or could not read it (`RefusalInv`), and ties
graders and prewarm together (`GraderInv`, `WarmInv`); the disk bound needs that
the running units are finitely many and at most as many as workers.

**`AnswerIndexProofs`** - `IndexTyped`, `BlobsDescribeIndexes`,
`RebuildsAreRebuilt`.  `IndexInv` says what lies at a place between runs
(`PlaceInv`: unless a removal stopped half way, a report that can be read is
true of what is beside it), how far a build has come (`BuildInv`), that a
rebuild finds nothing to reuse (`ReuseInv`), and that from the open report on
what the run holds is what is there (`BlobInv`).

**`ArtifactCacheProofs`** - `CacheTyped`, `SlotsImplemented`, `SweepsFill`.
`CacheInv` says that a tree not in doubt is whole or has no slot and that a
payload of one file is whole or absent (`SlotInv`), that whoever stores works
alone, over no complete tree, and has staged what its step says (`StoreInv`),
and that a sweep no call of which failed has filled what it has passed
(`SweepInv`).  Each action is then shown to publish, lose or doubt one slot of
`ArtifactSlots`, or to stutter.

**Work is finite.**  The prover has no fairness, so that something ends is for
TLC; but what such a claim rests on besides fairness is proved: that no step, of
one's own or of another, takes work back.  `ProcessesAreFinite` (futures,
warm-ups and the main thread's phases only advance), `TasksAreFinite`,
`ToolsAreFinite` (for finitely many trees), `CellsAreFinite`, `UnitsAreFinite`
and `RunsAreFinite` give each actor a number (`Remaining`, `Left`; a rank for
each future) that its own steps decrease and nobody else's increase, from a
bound in the constants.  So a process, a task, a tool, a cell, a unit or a
session takes boundedly many steps, whatever is retried, hangs or is killed
beside it.  The measures use what the invariants say of the control: that a cell
at its harness's files has had its first home, that a unit's list holds finitely
many arms.  `TasksAreFinite` adds that the holder of the setup lock is building,
a step that waits for nobody, or hangs, so that no circle of waiting threads
arises.  What is left to TLC is that an actor that is not done can take a step,
and, under fairness, takes it.

Only model-checked: everything about liveness (`EndsUnlessStuck`,
`CellEndsUnlessHung`, `CellEnds`, `Prebuilt`, `EndsOrReads`, `RunEnds`); and, of
course, the refuted claims.

## 6. What is not modelled

- Agents, indexers, judges, git and the operating system appear as what they
  may return to the harness, never as programs.
- Texts: prompts, answers, log lines, reports.  An answer is present or not, an
  error is its class.
- Of a cell: the private worktree of a condition with `clean_worktree`, the
  settings file copied into the Claude home (its content never varies), the
  event formats of the three agents.
- Sequential batch programs: downloads, statistics, graph and health-defect
  studies, operator scripts; and the stateless parts of `answer_eval`: its
  questions, its scores, its token meter.  Most of the repository's lines are
  of this kind: they read finished results and compute numbers from them.
- Files that a process of another program keeps open, except where the code
  means to deal with them or ignores it (`CacheRemains`, `ResetDone`, `Reap`,
  `DropIgnores`, `RenameAgain`, `RemoveStops`).

`PROJECT.json` lists every component with its status.

## 7. Plan

Done, in this order: runner with ledger, set-up, index life cycle, cell with its
three harnesses, session runner, rung 8 runner, answer index, artifact cache.
Next:

1. The private worktree of a cell (`clean_worktree`), made and removed beside
   others of the same repository.
2. The preparation of session arms (`harness/session_arms.py`): the memory that
   is carried from one task of a session to the next.
