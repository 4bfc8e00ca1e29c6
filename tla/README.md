# A TLA+ model of cicada

cicada runs container-native pipelines: it parses a KDL pipeline, expands and filters its
jobs, translates each one to a BuildKit definition (LLB) and solves the definitions on a
BuildKit engine, several at a time, in the order of their dependencies. Artifacts are then
exported to the host and images published or loaded into Docker, while a display shows the
progress.

This directory holds the model of that program in TLA+, the TLC runs that check it and the
proofs TLAPS checks. Paths below are relative to the repository's root (`internal/...`).

## Inventory

| Component | State it keeps | Operations | Hard behaviour | What makes it correct |
|---|---|---|---|---|
| Job scheduler: `runner.Run` up to `g.Wait`, `buildDAG`, `runNode` | one `dagNode` per job (`done`, `err`), a weighted semaphore, an errgroup | wait for each dependency, acquire, solve, release, close `done`, return | goroutines, a `select` with two ready cases, cancellation by the first failure, a FIFO semaphore that hands tokens to goroutines that may be cancelled | dependency order, tokens neither leaked nor duplicated, no lost wake-up, the answer names the real cause, everything stops when told |
| `Run`'s stages: exports, `runPublishes` | three errgroups, one of them with nested ones | export, group, refuse, publish, load | partial failures, contexts derived from the right parent | stages in order, a nil answer means all is delivered, no job, export or publish outlives `Run` |
| Docker load: `solveImageExportDocker` | an `io.Pipe`, a process, a nested errgroup | solve into the pipe, `docker load` from it | either end may fail first | a nil answer means the whole tarball was loaded; neither end hangs |
| Status path: `teeStatus`, `Attach`, `Seal`, `Wait` | unbuffered channels, WaitGroups, the bubbletea program | receive, observe, forward, drain, seal, wait | cancellation with a status in hand, a WaitGroup that reaches zero between two jobs, a user who quits the TUI | nothing lost before a cancellation, a complete report, no goroutine left behind |
| Vertex display: `logVertex`, `applyVertex` | the last state of each vertex | one message at a time | repeated and out-of-order vertices | a final state stays |
| Cache collector: `cache/stats.go` | statistics per job, digests seen | `Observe`, `Report` | called from several goroutines, vertices without times or digest | each vertex counted once, none that counts left out |
| Image store: `internal/imagestore` | cached flag per vertex | pull, offline check | status messages in pieces | an image is called cached only on evidence |
| Engine manager: `internal/daemon`, `internal/runtime/cli.go` | the container (outside), deadlines | start, stop, remove, status, wait until healthy | several cicada processes at once, the state read is stale when used, calls that fail after taking effect, timeouts | a nil answer was true at some moment of the command, a command fails for a reason, and ends |
| Pipeline graph: `pipeline.go`, `filter.go`, `merge.go` | none (pure) | validate, sort, filter, trim, merge, resolve aliases | cycles, aliases, dangling references | the result refers only to what it contains; the order respects every dependency |
| Matrix expansion: `expand.go` | none (pure) | expand, rewrite dependencies | products of dimensions, name collisions | each combination once; dependencies on all variants |
| Includes: `parser/include.go` | ancestor stack, fragment cache, aliases | push, pop, resolve, merge | recursion through files, cycles, depth, errors half-way | terminates; the stack is balanced; a cycle is always reported |
| LLB builder: `builder.go` | states of the jobs built | build in order, collect exports | it relies on the order and on the parser's checks | no job is built before what it uses |
| KDL syntax, cache specifications, build context, log handlers, runtime command lines, command line | none | | | not modelled, see below |

How they interact. `main` parses (includes, expansion, validation, filtering), builds the
LLB, finds or starts the engine, starts a display and calls `runner.Run`. `Run` starts a
goroutine per job; each one attaches a status channel to the display, through the tee when
cache statistics are collected, and calls `Solve`, which sends on that channel until it
closes it. Cancellation travels the other way: from the caller's context or from a failing
goroutine to every errgroup member, to `Solve`, to the tee and to the display. When `Run`
returns, `main` seals the display, waits for it and prints the cache report.

## Modules

| Module | Models |
|---|---|
| `DependencyOrder` | what the job phase promises, without goroutines |
| `JobDAG` | the job phase of `runner.Run` |
| `JobDAGProofs` | theorems about `JobDAG` and its semaphore, and that it implements `DependencyOrder` |
| `Runner`, `RunnerProofs` | all of `runner.Run`, extending `JobDAG`; theorems about it |
| `DockerExport`, `DockerExportProofs` | one docker load of `Runner`, opened up; theorems about it |
| `StatusStream`, `StatusStreamProofs` | status channels, tee, displays, seal and wait; theorems about them |
| `VertexReaders`, `VertexReadersProofs` | what the readers of the status messages make of the vertices; a theorem about it |
| `Daemon`, `DaemonProofs` | the engine manager of several processes over one container; theorems about it |
| `Includes`, `IncludesProofs` | a pipeline file and its includes: parsing, merging, aliases; theorems about the ancestry, cycles, the cache and aliases |
| `MatrixExpansion` | the two phases of expansion, as operators |
| `JobFilter` | `--start-at` and `--stop-after`, as operators; extends `MatrixExpansion` |
| `Planning` | from parsed jobs to the runner's jobs; extends `JobFilter` |
| `PlanningProofs` | theorems about `Planning`: the search, the filter, reachability and the expansion |
| `MC*` | small instances for TLC |

The chain of a `cicada run` is `Includes`, `Planning`, `Daemon`, `JobDAG`/`Runner` with
`DockerExport` inside, `StatusStream` and `VertexReaders`. Each hands the next what its
properties promise: `Includes` a list of jobs with distinct names (the inputs of `Planning`),
`Planning` an order in which every dependency is known and comes first (with which `buildDAG`
never refuses), `StatusStream` the messages `VertexReaders` reads one at a time.

### JobDAG

`pc[j]` is where job j's goroutine is:

| `pc[j]` | in the code |
|---|---|
| `wait` | the loop over `DependsOn`, at dependency number `idx[j]`, or at `sem.Acquire` after the last |
| `queued` | inside `Acquire`, in the semaphore's list |
| `granted` | inside `Acquire`, its element removed and its `ready` channel closed by a notifier |
| `slot` | `Acquire` has returned nil |
| `solving` | inside `Solve` |
| `release` | deferred `sem.Release` next |
| `close` | deferred `close(node.done)` next |
| `return`, `exited` | about to hand its error to the errgroup; gone |

`nodeErr` is `dagNode.err` and `groupErr` the error `errgroup` keeps, both reduced to the
root cause: the job that failed by itself, or the cancellation. Wrapping (`dependency %q: %w`)
keeps the cause, so nothing a property speaks of is lost. `GroupCtxDone` is `gctx.Done()`:
cancelled with the caller's context, by the first error, and by `g.Wait` itself. A `select`
with two ready cases is two actions that are both enabled (`DepDone`, `DepCanceled`).

The semaphore is `golang.org/x/sync/semaphore` v0.19.0: one that refuses an `Acquire` whose
context is already cancelled, queues in FIFO order, and on a cancellation either leaves the
queue (waking the next when it was the head and tokens are free) or, if the token had just
been granted, gives it back. Its mutex makes each of these steps atomic.

`buildDAG` is one step, since nothing runs beside it: `HasUnknownDep` and `HasCycle` state
what its loops and the depth-first search decide, the latter as "some set of jobs each of
which depends on one in the set". Job names are distinct in the model (`Jobs` is a set):
`buildDAG` refuses duplicates, and `Pipeline.Validate` does before it. `Jobs` is not empty;
`Run` returns nil at once when it is.

### Runner

`stage` is the part of `Run` that executes. Each export, each publish and each docker load
is a task (`task[t]`), and the errgroups keep `exportErr`, `imageErr[i]` (one per image: the
nested errgroup of an image that is pushed and loaded, or just the goroutine's answer) and
`publishErr`. `pubs` is `in.ImagePublishes` as `buildImagePublishes` of `main.go` makes it
from the published jobs and the values of `--with-docker-export`. `groupPublishes` is
expressed by what it decides: the variants of an image in order, a conflict with the first
one's settings, and whether there are several.

### StatusStream

A `Solve` call sends `Statuses` statuses at most; `sent[s]` counts those received from it,
`observed[s]` those the collector saw and `shown[s]` those the display rendered. `tee[s]`
and `consumer[s]` are the two goroutines: receiving, with a status in hand, draining, gone.
An unbuffered channel is a joint step of its two ends. The TUI's program is external: it
runs until the monitor's `allDoneMsg`, `ctrl+c` or the context ends it, and a message sent
after that goes nowhere. `Quiet` has the consumer of `Plain` without the rendering, so the
display `"plain"` stands for both. The solves are those of one errgroup; in the later stages
of `Run` the same protocol runs again under another context.

### DockerExport

`solver`, `copier`, `docker` and `loader` are the goroutine of `Solve`, os/exec's goroutine
that copies the pipe into the process, the process, and the goroutine of `cmd.Run`. The
tarball is `Chunks` writes. A `Write` to an `io.Pipe` waits for the reader and knows no
context, so only `pr.Close` frees a writer whose reader has gone: `LoadCloses`. Nothing is
assumed of `docker load` on a truncated stream: it may call it a success.

### VertexReaders

A status message is one vertex and which of the fields the readers look at are set in it
(`Fields`); nothing is assumed of how BuildKit combines, repeats or orders them. The readers do not
all look at the same ones: a display takes a vertex as ended with any of `Completed`, `Cached`
and `Error` (`Ends`), the collector only with `Started`, `Completed` and a digest (`Counts`).
`untimed` is history: the vertices that ended in a message the collector skips. `Report` is the
receipt by the tee, which lets the collector observe it at once, and `Show` the display's turn
with it; `Close` is the end of the solve's channel. Names and solves are apart (`name[s]`): the
TUI and the collector keep state by name, and several exports of a job share one. `flags` and
`answer` are `isImageCached`, as if each solve were its image check.

### Daemon

Each client runs `engine start`, `engine stop`, `engine status` or the start that a pipeline
run does on the default address, again and again. `pc[c]` names the call the client makes
next: `dial` (the probe of `EnsureRunning`), `inspect`, `restart`, `create` and `starting` (the
two halves of `run -d`), `check` and `sleep` (`waitHealthy`), `stopInspect`, `stopAct`,
`rmInspect`, `rmAct`, `status`. `late[c]` is the passing of the deadline, `ctxDone[c]` a
`ctrl+c`. A call of the command line may fail with or without its effect; an `Inspect` may
fail with a message that contains "no such" and be read as a missing container
(`cli.go:107`). The engine comes up, crashes or is paused by the user (`EngineChanges`).
`hist[c]` is history: it records what was true while the command ran, for the properties, and
"misread" if the inspect in `Remove` was misread.

### Includes

The recursion of the parser is `stack`, one frame per open file with the position in its
nodes and the collector's groups; `ancestors`, `cache` and `aliases` are `includeState`'s. An
error unwinds frame by frame (`Unwind`), each through the deferred pop. What a file holds is an
input. `MergeJobs`, `TerminalJobs` and `ExpandAliases` of `merge.go` are operators and steps at
the end of a file. A job has one field that a parameter may be substituted into, and a
fragment one parameter.

### MatrixExpansion, JobFilter, Planning

A job's name is what the code reads from its text: the part before the bracket, the
`key=value` items in it (sorted, in the code, so a function here), and the rest. `phase` of
`Planning` is where the command is: defaults, the two phases of expansion, `Validate` (`check`
and `sort`), then `validateAction` or `runAction` with any two targets, then `builder.Build`
and `buildRunnerJobs`. `topoSort`'s recursive function is `frames`. LLB is reduced to the
states a job is built from and to three errors of `Build`: a platform that does not parse
(`BadPlatforms`; matrix values are put into it first), an export path that is the root once
cleaned, and a state that BuildKit's library fails to marshal, which may happen to any job.

## Runs

| Run | Instance | Shows |
|---|---|---|
| `JobDAG` | 4 jobs, 2 tokens, 5 dependency tables, failures, one cancellation at any time | the safety properties of the scheduler, and that it implements `DependencyOrder` |
| `JobDAGLive` | 3 jobs, 1 token, 4 tables | it stops when cancelled and ends when builds end |
| `Runner` | 3 jobs, unlimited parallelism, 2 exports, 7 publish lists | the stages' order, what a nil answer promises, where errors come from, that `Run` ends |
| `RunnerDockerMulti` | no exports | violation: see "Where code and documents differ" |
| `StatusStream` | 2 solves of 2 statuses, both displays, with and without a collector | statuses, report, seal and wait, that all goroutines end |
| `StatusStreamTUI` | TUI only | violation: see below |
| `DockerExport` | 3 writes, cancelled before or at any time | what a nil answer means, nothing is left behind, the task ends |
| `VertexReaders` | 2 solves under one name or two, 3 vertices, one without a digest, in 9 shapes | display, report and image check give one account |
| `Daemon` | 2 processes, every command, every initial container | what answers mean under interference, why a start fails, that a stop is gentle, that commands end |
| `Includes` | a root and 4 files, about 1150 trees, depth limit 3 | the ancestry, cycles, the cache, aliases |
| `Planning` | about 500 pipelines of up to 3 jobs, 12 targets for each flag | parse against run, variants, caches, the window of a filtered run |
| `PlanningRootExport` | the same | violation: see below |

Why the bounds suffice. Two tokens and four jobs give a queue of two, so that the head leaves
while another waits, a grant races with a cancellation, and both fail; the tables include a
diamond, a dependency named twice, a cycle and an unknown name. One token with three jobs makes
every wake-up matter for liveness. In `Runner` the publish lists are the cases `runPublishes`
tells apart: none, pushed and loaded, several platforms, the same platform twice, settings in
conflict by the file or by the flag. Two statuses separate "the last one" from "one with another
to come", and two solves let the TUI's WaitGroup fall to zero in between. Three writes make a pipe
with a chunk written, one in the copier's hands and one blocked. Two processes show every race of
`Daemon`: a third is no different from the user and the engine, who already change the container
at any step. In `Includes` a file can be reached on two paths, once on a path as long as the limit
and once beyond; the lists hold diamonds, cycles that a cached file hides or not, aliases of
includes that end in includes, an optional and a required parameter with two values, and every
error. In `Planning` a matrix of two values on the pipeline, a job or both gives up to eight
variants, so that "all variants", "the first" and "those of the same replica" differ; with limit 4
a product passes it in the last factor. Two solves with a vertex in common suffice for
`VertexReaders`, whose readers keep each vertex apart; the shapes hold every way to end, with both
times and without. Nothing in the models counts without end: `idx` is bounded by the table, and
the caller cancels once.

Fairness. Goroutines are weakly fair: Go schedules what can run, and the semaphore is FIFO.
A `select` between two ready cases is not fair to either, so fairness is stated for the
goroutine as a whole. `Solve` is only assumed to return when its context is cancelled
(`CancelStops`, `CancelEndsRun`) or, where a property says so, by itself (`SolvesReturn`,
`EverySolveReturns`); it closes its status channel once everything it sent is received, which
is the contract in the comment on `Solver`. In `DockerExport`, BuildKit and docker are obliged
to end only when their context is cancelled, when docker's input has ended, or when all that
BuildKit writes is taken or its pipe closed. In `Daemon` each call ends (`execTimeout`, the
probe's own timeout) and the deadline of `waitHealthy` passes; that the engine ever comes up is
not assumed. That failure, cancellation or a user's `ctrl+c`
happen is never assumed.

## Properties

Scheduler: `DepsSolvedFirst`, `SlotsAccounted`, `NoLostWakeup`, `CauseIsReal`,
`VerdictFaithful`, `ErrFrozenOnceDone`, `CancelStops`, `Termination`, `KeepsPromise`. Stages:
`StagesInOrder`, `SuccessDelivers`, `AnswerIsReal`, `NothingLeftRunning`, `CancelEndsRun`,
`RunReturns`. Status path: `NothingDroppedBeforeCancel`, `ReportComplete`,
`PlainWaitMeansDone`, `NoEarlyQuit`, `EverythingEnds`; its contents: `OneAccount`. Docker
load: `NilMeansLoaded`, `NothingLeft`, `ExportReturns`. Engine: `AnswersHeld`,
`StartFailsForCause`, `StopsBeforeKill`, `CommandsEnd`. Includes: `AncestryTight`,
`CycleVerdict`, `CacheTransparent`, `AliasCovers`. Planning: `AcceptedMeansRunnable`,
`VariantDeps`, `CachesApart`, `WindowDelivers`, `NoOneUsesACutJob`. Each is stated in words above its
definition. Operators named `<Action>_<What>` and marked "mutation" are the action with a
plausible bug in it; they are not used by the specifications, and show that the property
would see the bug.

## Proofs

What a lemma says of a list or of a step in several parts is a predicate (`Lengthens`,
`AreRewritten`, `Observes`), so that a step that cites the lemma matches one formula. A leaf
that takes a backend more than about a second names the backend that proves it, with a time
limit well above its need (`SMTT(30)`, `ZenonT(60)`).

`JobDAGProofs` proves, for every finite set of jobs, every dependency table and every
parallelism:

- `TypeCorrect`: every reachable state is well typed (`TypeOK`).
- `DependenciesFirst` (`DepsSolvedFirst`): no job is solved before what it depends on.
- `ErrorsFrozen` (`ErrFrozenOnceDone`): what is read behind a closed `done` never changes.
- `CausesReal` (`CauseIsReal`) and `VerdictsFaithful` (`VerdictFaithful`): the causes of
  errors are real and the answer loses none.
- `TokensAccounted` (`SlotsAccounted`): the count is the number of owners, within the limit.
- `NoWakeupLost` (`NoLostWakeup`): a goroutine queues only while every token is out.
- `KeepsThePromise` (`KeepsPromise`): the job phase implements `DependencyOrder`.

`RunnerProofs` proves, for any exports and publish lists besides, `RunTypeCorrect` (`RunTypeOK`),
`ExportsAndPublishesInOrder` (`StagesInOrder`), `SuccessMeansDelivered` (`SuccessDelivers`),
`AnswersReal` (`AnswerIsReal`) and `ReturnsWhenAllHasEnded` (`NothingLeftRunning`).

`DockerExportProofs` proves, for a tarball of any length, `LoadedWhenNil` (`NilMeansLoaded`) and
`NothingStaysBehind` (`NothingLeft`).

`StatusStreamProofs` proves, for any set of solves, any number of statuses and both displays,
`StreamTypeCorrect` (`TypeOK`), `NothingDropped` (`NothingDroppedBeforeCancel`),
`ReportIsComplete` (`ReportComplete`), `PlainWaitCorrect` (`PlainWaitMeansDone`) and
`TUIQuitsLast` (`NoEarlyQuit`).

`VertexReadersProofs` proves, for any vertices in any shapes, names and solves and any wiring of
one to the other, `OneAccountAlways` (`OneAccount`).

`DaemonProofs` proves, for any set of processes and any choice of the commands, `TypeCorrect`,
`AnswersTrue` (`AnswersHeld`), `StartFailuresExcused` (`StartFailsForCause`) and `GentleStop`
(`StopsBeforeKill`).

`IncludesProofs` proves, for any files with any contents and any depth limit,
`AncestryAlwaysTight` (`AncestryTight`), `CyclesAndOnlyCycles` (`CycleVerdict`),
`CacheChangesNothing` (`CacheTransparent`) and `AliasesCoverTheirIncludes` (`AliasCovers`).

`PlanningProofs` proves, for any pipelines with any matrices and any targets,
`AcceptedIsRunnable` (`AcceptedMeansRunnable`), `CutJobsAreLast` (`NoOneUsesACutJob`),
`WindowIsDelivered` (`WindowDelivers`), `VariantsAsWritten` (`VariantDeps`) and
`VariantsShareNoCache` (`CachesApart`).

The assumptions are those of the modules about their constants; TLC evaluates each one on
every run.

| Assumption | Says |
|---|---|
| `ConstantsAssumption` (`JobDAG`) | the jobs are finite and at least one, parallelism is an integer (below 1: no limit), a dependency table gives each job a sequence of names, the marks `NoErr`, `Canceled` and `Unknown` are no job's name |
| `RunnerAssumption`, `TaskAssumption` (`Runner`) | a publish has its five fields and names a job; a task is neither a job nor one of the marks for errors, so that an error tells where it comes from |
| `ChunksAssumption` (`DockerExport`) | the writes are a natural number |
| `StreamAssumption` (`StatusStream`) | the solves are finite, the statuses a natural number, a display is plain or the TUI |
| `ReadersAssumption` (`VertexReaders`) | a scene gives each solve a name and a set of vertices; a shape is a set of the fields |
| `CommandsAssumption` (`Daemon`) | the names of the commands, and "world", the other hand in `EngineChanges`, is no process |
| `PlanningAssumption`, `InputsAssumption` (`Planning`) | a flag may be absent; a pipeline is a list of jobs with the fields of a job, and its dependencies, steps, artifacts and dimensions are lists; its jobs have names of their own, since `MergeJobs` keeps one of each; a cache id is a list, what was written and the names appended to it |
| `IncludesAssumption`, `WorldsAssumption` (`Includes`) | the files are finite with a root among them; a file holds a finite list of nodes, each a job, an include or one the parser rejects; a job has its three fields, and what is read as the root has no parameter (only fragments do) |

The argument for the scheduler. None of the invariants is inductive by itself; each has a
strengthening, and the later ones stand on the earlier ones.

1. `TypeInv` adds to the types that the queue holds exactly the goroutines at `queued`, each
   once: taking a cancelled waiter out of the queue only makes sense because it is in it.
   `WithoutJobQueues`, `AppendQueues` and `SubSeqQueues` say what the three operations on the
   queue do to that, `HandEffect` what `notifyWaiters` does to the goroutines.
2. `StepKinds` sorts every step into a few kinds: a goroutine goes on to the next dependency,
   moves on with its error as it is, sets its error (and why it may: `Justified`), closes its
   channel, returns; or no goroutine moves. The next two invariants look at steps only
   through their kind.
3. `OrderInv`: the dependencies already passed are solved and published, a goroutine leaves
   the loop without an error only after the last of them, an error is set only once, and
   `done` is closed exactly at the end. That an error behind a closed channel is frozen
   (`DoneFrozen`) is what keeps a passed dependency solved.
4. `VerdictInv`: a goroutine is cancelled only after the caller cancelled or the errgroup kept
   an error. So the first error kept is never a sibling's cancellation, which is what makes
   `CauseIsReal` inductive.
5. `SlotInv`: tokens are counted by their owners, and the queue is empty unless all of them
   are out. The second half needs the arithmetic of `notifyWaiters`: it stops either because
   the queue is empty or because no token is left (`TokenBack`). A consequence is that a
   cancelled waiter at the head of the queue never has a free token to pass on: the code's
   branch for it is dead when every waiter asks for one token.
6. The refinement maps the labels and errors of a goroutine to a status (`StatusOf`). A start
   is `AcquireNow` or `GrantTaken`, whose guard on the number of running jobs comes from
   `SlotInv` and on their dependencies from `OrderInv`; that a job is only skipped when
   another failed or the caller cancelled comes from `VerdictInv` (`Traced`).

The argument for the docker load. `NilMeansLoaded` needs that no chunk is lost on the way to a
process that succeeds (`ChunksInv`): while the copier reads, the process has all that was
written; it drops a chunk only when the process is gone; and a process content with the chunks
it had read had read the last, after which BuildKit writes no more (`SolverInv`). The rest is
that each goroutine's error is kept (`LoaderInv`).

The argument for the engine. The invariant speaks of each process by itself (`ClientInv`): it is
in the code of its command, it is excused whenever the container is not what its next call
expects (`Clash`), and its answer is backed. `Bystander` carries it over the steps of all
others, because whoever changes the container gives everybody else their excuse; `MovesOn` and
`Replies` carry it over a process's own steps, of which there is a lemma each.

The argument for `Run` as a whole (`RunInv`). The invariants of the job phase are taken along
(`JobInv`), since a step of the stage "jobs" is a step of `JobDAG` and the later stages leave its
variables alone. To them come three kinds of facts. `TaskInv` says of each task that it is
cancelled only after the context it runs under, and that its error reaches the errgroup it
belongs to. `GroupInv` says of each errgroup that the error it keeps is the failure of a task,
or a cancellation that came from outside: without the second half, a task cancelled by its
sibling's failure could be the one that is kept, and the answer would be the echo. `StageInv`
says what has been decided when a stage is reached: the publishes begin only when every export
is delivered and the list has been accepted, which is what a nil answer is made of.

The argument for the status path (`StreamInv`). Each solve's path is looked at by itself: where
its goroutines may stand (`Placed`), and that what was received is observed and shown but for
the status in the tee's hands (`Counted`), as long as the shared context lives. A report is only
complete because one of the reasons to miss a status is there to see: the caller cancelled, or a
solve failed (`Collected`; `Run`'s own cancellation at its end comes when every channel has been
drained). `Ordered` ties `executePipeline`, the monitor and the program to the paths.

The argument for the vertices (`ReadersInv`). Between the tee's two steps the collector is a
vertex ahead of the display. Wherever the two are compared, the vertex the tee still holds
(`Holds`) makes up for the difference: for a solve (`SolveInv`), for a name that several solves
share (`NameInv`), and for a solve that has its name to itself (`AloneInv`), of which more can be
said. Of the vertices shown as ended the report may lack the untimed ones, and no others
(`Accounted`). That each vertex is counted once is a fact about positions in the statistics, and the
number of entries follows from it (`FS_Surjection`).

The argument for the includes (`IncludesInv`). The open files are an include path from the root
(`OpenFiles`), so a push that meets one of them closes a cycle; the files that have been read to
their end (`Parsed`) are closed under inclusion and on no cycle (`Sound`), so what is accepted
has none, and a cached file need not be looked into again. `CycleVerdict` measures both against
a reference, the files reachable by walks of any length, which is a recursive function: its
facts (`WalkSteps`, `PathWalk`) are proved by induction. The library's induction theorems, whose
parameter is an operator, cannot be used; `Induction` has a set in place of the operator and
rests on the well-foundedness of the inclusion of finite sets.

The argument for the fragment cache (`CacheInv`). `Reference` reads every file anew for every
include, down to a depth no include path without a cycle exceeds. The invariant does not
mention it until the root is finished: what an open file has collected, in groups and flushed
jobs, is what its nodes up to its position stand for when an include stands for what the cache
holds (`Collected`), an open file was opened with the parameter its include gives (`Given`), and
what is cached for a file and a parameter follows in one reading from what is cached for its
includes (`CacheReads`). That this describes one thing only needs that the files read can be
numbered, each after its includes (`Ranked`): a file that closes gets the next number. By
induction on it, the cache is the reference (`CacheRead`, `CacheIsReference`), and so is what the
root makes of it (`RootIsReference`). The parser collects node by node and merges at the end, the
reference makes the whole list at once; that these agree are facts about joined lists
(`FlattenMore`, `GroupsMore`, `CollectedMore`).

The argument for the aliases (`AliasInv`). An alias stands for the terminal jobs of the include it
was registered for. A job of the include that cannot be reached from them is not terminal, so
another job of the include depends on it, and still does in the pipeline, where that one cannot
be reached either (`TerminalsReach`). Without cycles this ends: of the jobs with this property
take one that reaches most, and the job that depends on it reaches more (`SomethingFirst`).

The argument for the plan (`PlanInv`). During the depth-first search (`Search`) the frames are a
chain of dependencies, what a call has passed is in the order, and each job enters the order after
what it depends on; so an order of all jobs is topological. From there on the jobs are spoken of
through a ranking: every dependency is in the list and ranks lower (`Acyclic`). The search of a
ranked list only goes down (`Descent`), so the second `Validate`, which `Build` calls because the
filter has dropped the cached order, meets neither a cycle nor an unknown name (`NoCycle`). That
the filter leaves a ranked list (`PartAccepted`) needs that its full set is closed under
dependencies (`ReachableClosed`: a layer that is not adds a name to those reached, and there are
no more names than layers), that it keeps each job once (`Flattened`) and that trimming leaves a
job its first step. What a run keeps ranks no higher than the target it stops after
(`FullSetBelow`), so nothing depends on that target. Recursive functions of the model
(`Combinations`, `Reachable`) and `FlattenSeq` are a CHOOSE of a function with a given recursion;
that there is one is proved first (`UpToExists`, `LayersExist`, `JoinedExists`), by induction over
its length.

The argument for the window (`WindowInv`, on top of `PlanInv`). The code reaches forward from the
one target over dependents and backward from the other over dependencies; `WindowDelivers` speaks
of closed sets of names instead (`Needs`). The two are the same: what is reached lies in every
closed set (`BackwardLeads`), and what is not reached over dependents is itself closed under
dependencies (`ForwardLeads`). The filter's list delivers what the window's jobs do (`Left`,
`FilteredDelivers`): a job outside the window is stripped, one inside is kept, and trimming leaves
of a job that a target with a step names the steps from the one to the other (`TrimmedSteps`,
`TrimmedDelivers`). `Left` holds through the second
`Validate`, and the build collects exactly what the list holds.

The argument for the expansion (`ExpansionInv`, on top of `PlanInv`). The combinations the code
multiplies out, dimension by dimension, are the settings `VariantDeps` speaks of, the functions
from dimensions to values (`CombinationsAreSettings`). So the first phase makes one replica of each job
for each setting of the pipeline's matrix (`Replicas`, `ReplicasMade`), and the second one variant
of each replica for each setting of its own (`Expanded`, `InstancesMade`); a name with one choice
added and then another is the name with both (`ChoicesCombine`). What the second phase puts in the
place of a dependency it looks up under the name the first has left: the lookup leads back to the
job the file means, and to the same replica, because a bracket tells the choice that was added
(`ChoiceTold`) and no two names of the file become one (`ReplicasApart`, used in `Expansions` only).
That there are no more jobs than instances, and that a dependency that is no job's name is a
variant's, is known only after `Validate` has refused duplicate names and unknown dependencies; the
invariant carries both to the parsed list. Each expansion ends a cache id with the name it gives
(`Tagged`), so two variants of a job, which have different names, have no id in common.

Not proved is liveness (`CancelStops`, `Termination`, `CancelEndsRun`, `RunReturns`, `ExportReturns`,
`EverythingEnds`, `CommandsEnd`): fairness and ENABLED are out of the prover's reach, and TLC
checks these.

## Where code and documents differ

- `docs/usage.md:222` says that a multi-platform image matched by `--with-docker-export` is
  refused "before solving". `runPublishes` refuses it (`internal/runner/runner.go:368`) after
  all jobs have been solved and all exports written. When only one variant of the image is
  matched, the refusal is `ErrPublishSettingConflict` instead. Run `RunnerDockerMulti`.
- `internal/progress/display.go:26` says that `Wait` blocks until all attached jobs complete.
  The TUI's returns when its program has exited (`tui.go:121`), which `ctrl+c` or the context
  brings about earlier. Run `StatusStreamTUI`. The cache report printed next may then count
  less than was received, which is why `ReportComplete` excepts a killed program.
- `pkg/pipeline/pipeline.go:365` says that `validateExports` lets no export of the root pass.
  It trims slashes and compares (`pipeline.go:379`), so that `/.` and `/x/..` pass, and it is
  `builder.go:408`, which cleans the path, that refuses them: `cicada validate` accepts such a
  pipeline, `cicada run` does not. Run `PlanningRootExport`.

Seen on the way, and intended as far as the code tells: once the shared context is cancelled
the display may lose the last statuses of any job, the failing one and solved ones included
(`NothingDroppedBeforeCancel` stops at the cancellation); the report does not
(`ReportComplete` reaches past the cancellation that `Run`'s own end causes).

What the properties had to leave out says as much about the code. `AnswersHeld` is about a moment
of the command and not its end: another process may stop the engine before `Start` has returned;
and when the inspect in `Remove` fails with a message that has "no such" in it (`cli.go:107`),
`engine stop` answers nil whatever the container does: such an answer is excepted by name.
`AliasCovers` excepts an include of which another include's job of the same name has taken a place
(`on-conflict` skip): its alias then names that job. `WindowDelivers` excepts the steps before
that of `--start-at` and after that of `--stop-after` in the job they name, and says that nothing
of them is delivered. `AcceptedMeansRunnable` excepts the three errors that only `Build` can find
(platform, export of the root, marshaling): `cicada validate` accepts a platform `a/b/c/d`, which
nothing parses before `builder.go:208`. `OneAccount` excepts from the cache report what some
message ended without both times or a digest (`stats.go:76`). `VariantDeps` says what a job waits
for only if no two names of the file become one in the replicas (`ReplicasApart`): the second
phase looks variants up under the names the first has left (`expand.go:281`). With a pipeline
matrix `os=[linux,mac]` and the jobs `a` and, after it, `a[os=linux]`, the two have one name in
each replica, `a[os=linux]` and `a[os=mac]`. If the second has a matrix of its own, on `arch`, the
names they end up with differ again, `Validate` accepts the pipeline, and what depends on `a`
waits for the variants of the other job, not for `a`. Without the exception TLC finds this among
the inputs of `Planning`.

## Not modelled, and why

- The LLB of a step, the fields of a KDL node, cloning, cache specifications: pure and case by
  case, without interplay. So are the checks of `Validate` that look at one job alone and that
  nothing later relies on (environment variables, mounts).
- Substitution of matrix variables into fields other than the platform, and with it host paths:
  exports of variants to one local path overwrite each other, and nothing says what should happen.
- Overflow: the product of a matrix is cut at the limit inside the loop, so it never nears it;
  TLC's integers would not show it.
- `PullImages` and `CheckCached`: loops over one image after another; the solve they do is
  `VertexReaders`' and its errors stop the loop.
- An engine at an address the user gives: a single dial.
- The build context, the log handlers, detection of the container runtime and its command lines:
  I/O and formatting.
- Errors' wording, log lines, durations: no property speaks of them.
- `Attach` before `Start`, and nil arguments of `Run`: refused at once by a check.

## Plan

1. `DockerExport` implements the docker task of `Runner`.
