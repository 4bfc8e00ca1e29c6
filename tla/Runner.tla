------------------------------- MODULE Runner -------------------------------
(***************************************************************************)
(* runner.Run as a whole (internal/runner/runner.go): the job phase of     *)
(* JobDAG, then the exports in an errgroup of their own, then the image    *)
(* publishes, grouped by image and solved in a third errgroup in which an  *)
(* image that is both pushed and loaded into Docker gets a nested one.     *)
(*                                                                         *)
(* One export, publish or docker-load solve is a task here; DockerExport   *)
(* opens up the docker-load task, StatusStream the status channels.        *)
(***************************************************************************)
EXTENDS JobDAG

CONSTANTS
    Exports,        \* in.Exports
    PublishInputs,  \* the publish nodes and --with-docker-export values of a run
    AllJobs,        \* the --with-docker-export value "*"
    Refused         \* an error that refuses the input: a bad DAG, a conflict

\* A published image of a job, as the builder hands it over.
PublishFields == {"job", "image", "push", "insecure", "platform"}

ASSUME RunnerAssumption ==
    /\ Refused \notin Jobs \cup {NoErr, Canceled}
    /\ \A in \in PublishInputs : \A k \in DOMAIN in.specs :
         DOMAIN in.specs[k] = PublishFields /\ in.specs[k].job \in Jobs

VARIABLES
    stage,      \* the part of Run that is executing
    pubs,       \* in.ImagePublishes
    task,       \* task[t]: how far task t is
    taskErr,    \* task[t]'s error
    exportErr,  \* the error kept by the exports' errgroup
    imageErr,   \* imageErr[i]: the error kept by image i's nested errgroup
    publishErr, \* the error kept by the publishes' errgroup
    runErr      \* what Run returns

taskVars == <<task, taskErr, exportErr, imageErr, publishErr>>
runVars == <<jobVars, stage, pubs, taskVars, runErr>>

-----------------------------------------------------------------------------
(* buildImagePublishes of cmd/cicada/main.go: in.ImagePublishes.           *)

\* buildDockerExportFilter.
DockerExportFilter(in) ==
    IF AllJobs \in in.flags
    THEN {in.specs[k].job : k \in DOMAIN in.specs}
    ELSE in.flags

ImagePublishes(in) ==
    [k \in DOMAIN in.specs |->
        [f \in PublishFields \cup {"docker"} |->
            IF f = "docker" THEN in.specs[k].job \in DockerExportFilter(in)
            ELSE in.specs[k][f]]]

-----------------------------------------------------------------------------
(* groupPublishes and the dispatch of runPublishes.                        *)

Images == UNION {{in.specs[k].image : k \in DOMAIN in.specs} : in \in PublishInputs}

Variants(p, i) == SelectSeq(p, LAMBDA v : v.image = i)
Settings(v) == <<v.push, v.insecure, v.docker>>

\* Every later variant of an image is compared with its first one.
SettingsConflict(p) == \E k \in DOMAIN p :
    Settings(p[k]) # Settings(Head(Variants(p, p[k].image)))

Requested(p) == {p[k].image : k \in DOMAIN p}

MultiPlatform(p, i) == Len(Variants(p, i)) > 1

\* The solves an image takes.
Kinds == {"image", "docker", "multi"}
KindsOf_Switch(p, i) ==     \* mutation: the push case hides the docker case
    LET v == Head(Variants(p, i))
    IN  IF MultiPlatform(p, i) THEN {"multi"}
        ELSE IF v.push THEN {"image"}
        ELSE IF v.docker THEN {"docker"}
        ELSE {"image"}
KindsOf(p, i) ==
    LET v == Head(Variants(p, i))
    IN  IF MultiPlatform(p, i) THEN {"multi"}
        ELSE IF v.push /\ v.docker THEN {"image", "docker"}
        ELSE IF v.docker THEN {"docker"}
        ELSE {"image"}

\* ErrExportDockerMultiPlatform.
DockerMultiPlatform(p) ==
    \E i \in Requested(p) : MultiPlatform(p, i) /\ Head(Variants(p, i)).docker

\* validateVariants, run inside the gateway build.
DistinctPlatforms(p, i) ==
    LET v == Variants(p, i)
    IN  \A k, m \in DOMAIN v : v[k].platform = v[m].platform => k = m

-----------------------------------------------------------------------------
(* Tasks and the contexts they run under.                                  *)

ExportTasks == {<<"export", e>> : e \in Exports}
PublishTasks == Kinds \X Images
Tasks == ExportTasks \cup PublishTasks

\* A task stands for its own failure, which is none of the other errors.
ASSUME TaskAssumption ==
    Tasks \cap (Jobs \cup {NoErr, Canceled, Refused}) = {}

ImageTasks(i) == {<<k, i>> : k \in KindsOf(pubs, i)}
AllImageTasks == UNION {ImageTasks(i) : i \in Requested(pubs)}

\* errgroup.WithContext(ctx) for the exports: derived from Run's own context,
\* not from the job phase's, which is cancelled by then.
ExportCtxDone == ctxDone \/ exportErr # NoErr
ImageCtxDone(i) == ctxDone \/ publishErr # NoErr \/ imageErr[i] # NoErr

CtxDoneOf_JobCtx(t) ==      \* mutation: the job phase's context is reused
    IF t \in ExportTasks THEN GroupCtxDone \/ exportErr # NoErr ELSE ImageCtxDone(t[2])
CtxDoneOf_Background(t) ==  \* mutation: the errgroups start from a fresh context
    IF t \in ExportTasks THEN exportErr # NoErr
    ELSE publishErr # NoErr \/ imageErr[t[2]] # NoErr
CtxDoneOf(t) == IF t \in ExportTasks THEN ExportCtxDone ELSE ImageCtxDone(t[2])

\* An errgroup keeps its first error.
First(e, f) == IF e = NoErr THEN f ELSE e

\* The tasks whose goroutines are running or about to.
Spawned == CASE stage = "exports"   -> ExportTasks
             [] stage = "publishes" -> AllImageTasks
             [] OTHER -> {}

Ended_ErrorPath(T) ==    \* mutation: a failed goroutine is never counted as over
    \A t \in T : task[t] = "ended" /\ taskErr[t] = NoErr
Ended(T) == \A t \in T : task[t] = "ended"

-----------------------------------------------------------------------------
RunInit ==
    /\ JobInit
    /\ stage = "jobs"
    /\ \E in \in PublishInputs : pubs = ImagePublishes(in)
    /\ task = [t \in Tasks |-> "idle"]
    /\ taskErr = [t \in Tasks |-> NoErr]
    /\ exportErr = NoErr
    /\ imageErr = [i \in Images |-> NoErr]
    /\ publishErr = NoErr
    /\ runErr = NoErr

\* The job phase runs as JobDAG says.
JobStage ==
    /\ stage = "jobs"
    /\ JobNext
    /\ UNCHANGED <<stage, pubs, taskVars, runErr>>

ReturnFromRun(e) == stage' = "returned" /\ runErr' = e

\* Mutation of JobsOver: g.Wait's error is dropped.
JobsOver_IgnoresErr ==
    /\ stage = "jobs" /\ phase \in {"rejected", "waited"}
    /\ stage' = "exports"
    /\ UNCHANGED <<jobVars, pubs, taskVars, runErr>>

\* "if err := g.Wait(); err != nil": on with the exports, or out.
JobsOver ==
    /\ stage = "jobs" /\ phase \in {"rejected", "waited"}
    /\ \/ phase = "rejected" /\ ReturnFromRun(Refused)
       \/ phase = "waited" /\ groupErr # NoErr /\ ReturnFromRun(groupErr)
       \/ phase = "waited" /\ groupErr = NoErr /\ stage' = "exports" /\ UNCHANGED runErr
    /\ UNCHANGED <<jobVars, pubs, taskVars>>

\* A nil definition, an empty host path or a failed Attach: no solve is made.
TaskRejected(t) ==
    /\ t \in Spawned /\ task[t] = "idle"
    /\ task' = [task EXCEPT ![t] = "solved"]
    /\ taskErr' = [taskErr EXCEPT ![t] = t]
    /\ UNCHANGED <<jobVars, stage, pubs, exportErr, imageErr, publishErr, runErr>>

TaskCalled(t) ==
    /\ t \in Spawned /\ task[t] = "idle"
    /\ task' = [task EXCEPT ![t] = "solving"]
    /\ UNCHANGED <<jobVars, stage, pubs, taskErr, exportErr, imageErr, publishErr, runErr>>

Answer(t, e) ==
    /\ t \in Spawned /\ task[t] = "solving"
    /\ task' = [task EXCEPT ![t] = "solved"]
    /\ taskErr' = [taskErr EXCEPT ![t] = e]
    /\ UNCHANGED <<jobVars, stage, pubs, exportErr, imageErr, publishErr, runErr>>

TaskOK(t) ==
    /\ t[1] = "multi" => DistinctPlatforms(pubs, t[2])
    /\ Answer(t, NoErr)

TaskFailed(t) == Answer(t, t)

TaskCanceled(t) == CtxDoneOf(t) /\ Answer(t, Canceled)

\* Mutation of TaskReturned: the goroutines share one loop variable.
TaskReturned_Captured(t) ==
    /\ t \in Spawned /\ task[t] = "solved"
    /\ task' = [task EXCEPT ![t] = "ended"]
    /\ IF t \in ExportTasks
       THEN exportErr' = First(exportErr, taskErr[t]) /\ UNCHANGED imageErr
       ELSE LET last == pubs[Len(pubs)].image
            IN  /\ imageErr' = [imageErr EXCEPT ![last] = First(@, taskErr[t])]
                /\ UNCHANGED exportErr
    /\ UNCHANGED <<jobVars, stage, pubs, taskErr, publishErr, runErr>>

\* The task's goroutine returns to the errgroup it was started in.
TaskReturned(t) ==
    /\ t \in Spawned /\ task[t] = "solved"
    /\ task' = [task EXCEPT ![t] = "ended"]
    /\ IF t \in ExportTasks
       THEN /\ exportErr' = First(exportErr, taskErr[t])
            /\ UNCHANGED imageErr
       ELSE /\ imageErr' = [imageErr EXCEPT ![t[2]] = First(@, taskErr[t])]
            /\ UNCHANGED exportErr
    /\ UNCHANGED <<jobVars, stage, pubs, taskErr, publishErr, runErr>>

\* eg.Wait of the exports, then the checks at the head of runPublishes.
ExportsOver ==
    /\ stage = "exports" /\ Ended(ExportTasks)
    /\ \/ exportErr # NoErr /\ ReturnFromRun(exportErr)
       \/ /\ exportErr = NoErr
          /\ SettingsConflict(pubs) \/ DockerMultiPlatform(pubs)
          /\ ReturnFromRun(Refused)
       \/ /\ exportErr = NoErr
          /\ ~SettingsConflict(pubs) /\ ~DockerMultiPlatform(pubs)
          /\ stage' = "publishes" /\ UNCHANGED runErr
    /\ UNCHANGED <<jobVars, pubs, taskVars>>

\* The image's goroutine returns; a nested errgroup first waits for both tasks.
ImageReturned(i) ==
    /\ stage = "publishes" /\ i \in Requested(pubs)
    /\ Ended(ImageTasks(i))
    /\ publishErr = NoErr /\ imageErr[i] # NoErr
    /\ publishErr' = imageErr[i]
    /\ UNCHANGED <<jobVars, stage, pubs, task, taskErr, exportErr, imageErr, runErr>>

\* Mutation of PublishesOver: the first error is returned without waiting.
PublishesOver_Early ==
    /\ stage = "publishes"
    /\ \/ publishErr # NoErr
       \/ Ended(AllImageTasks) /\ \A i \in Requested(pubs) : imageErr[i] = NoErr
    /\ ReturnFromRun(publishErr)
    /\ UNCHANGED <<jobVars, pubs, taskVars>>

\* pg.Wait.
PublishesOver ==
    /\ stage = "publishes" /\ Ended(AllImageTasks)
    /\ publishErr = NoErr => \A i \in Requested(pubs) : imageErr[i] = NoErr
    /\ ReturnFromRun(publishErr)
    /\ UNCHANGED <<jobVars, pubs, taskVars>>

CancelLater ==
    /\ stage \in {"exports", "publishes"}
    /\ ~ctxDone
    /\ ctxDone' = TRUE
    /\ UNCHANGED <<phase, deps, pc, idx, nodeErr, done, cur, waiters, groupErr>>
    /\ UNCHANGED <<stage, pubs, taskVars, runErr>>

Returned == stage = "returned" /\ UNCHANGED runVars

TaskStep(t) == TaskRejected(t) \/ TaskCalled(t) \/ TaskReturned(t)
TaskAnswer(t) == TaskOK(t) \/ TaskFailed(t) \/ TaskCanceled(t)

RunNext ==
    \/ JobStage \/ JobsOver \/ ExportsOver \/ PublishesOver \/ CancelLater
    \/ \E t \in Tasks : TaskStep(t) \/ TaskAnswer(t)
    \/ \E i \in Images : ImageReturned(i)
    \/ Returned

RunSpec == RunInit /\ [][RunNext]_runVars

\* Goroutines are scheduled, and a cancelled Solve returns (see JobDAG).
RunFairness ==
    /\ SchedulerFairness
    /\ WF_runVars(JobsOver) /\ WF_runVars(ExportsOver) /\ WF_runVars(PublishesOver)
    /\ \A t \in Tasks : WF_runVars(TaskStep(t)) /\ WF_runVars(TaskCanceled(t))
    /\ \A i \in Images : WF_runVars(ImageReturned(i))

FairRunSpec == RunSpec /\ RunFairness

EverySolveReturns == SolvesReturn /\ \A t \in Tasks : WF_runVars(TaskAnswer(t))

-----------------------------------------------------------------------------
(* Safety.                                                                 *)

TaskOf(i, kinds) == {<<k, i>> : k \in kinds}
TaskErrors(T) == T \cup {Canceled, NoErr}

\* Every variable stays in its domain; an errgroup keeps errors of its own tasks.
RunTypeOK ==
    /\ TypeOK
    /\ stage \in {"jobs", "exports", "publishes", "returned"}
    /\ \E in \in PublishInputs : pubs = ImagePublishes(in)
    /\ task \in [Tasks -> {"idle", "solving", "solved", "ended"}]
    /\ \A t \in Tasks : taskErr[t] \in TaskErrors({t})
    /\ exportErr \in TaskErrors(ExportTasks)
    /\ \A i \in Images : imageErr[i] \in TaskErrors(TaskOf(i, Kinds))
    /\ publishErr \in TaskErrors(PublishTasks)
    /\ runErr \in TaskErrors(Tasks) \cup Jobs \cup {Refused}

Begun(t) == task[t] # "idle"
Delivered(t) == task[t] = "ended" /\ taskErr[t] = NoErr

\* Nothing leaves the machine before it should: files are exported only once
\* every job is solved, images only once every export is also written, under
\* every interleaving of failures and cancellations ("Exports contains
\* artifacts to export to the host after all jobs complete", RunInput).
StagesInOrder ==
    /\ \A t \in ExportTasks : Begun(t) => Succeeded = Jobs
    /\ \A t \in PublishTasks : Begun(t) =>
         /\ Succeeded = Jobs
         /\ \A x \in ExportTasks : Delivered(x)
         /\ ~SettingsConflict(pubs)

\* A run that answers nil has delivered every thing asked of it: each export,
\* and for each publish the image (or the manifest list of its platforms) and,
\* when asked for, the docker load.
SuccessDelivers ==
    stage = "returned" /\ runErr = NoErr =>
        /\ Succeeded = Jobs
        /\ \A t \in ExportTasks : Delivered(t)
        /\ \A k \in DOMAIN pubs :
             LET p == pubs[k]
                 made(kinds) == \E t \in TaskOf(p.image, kinds) : Delivered(t)
             IN  /\ p.push => made({"image", "multi"})
                 /\ p.docker => made({"docker"})
                 /\ made(Kinds)

\* What Run answers is the reason it failed.  A task named as the cause failed
\* by itself, and "canceled" is only answered to a caller that cancelled: the
\* contexts of the three errgroups and of the nested ones never leak a sibling's
\* cancellation, or the job phase's own end, into the answer.
AnswerIsReal ==
    stage = "returned" =>
        /\ runErr = Canceled => ctxDone
        /\ runErr \in Tasks => taskErr[runErr] = runErr
        /\ runErr \in Jobs => nodeErr[runErr] = runErr
        /\ runErr = NoErr => \A t \in Tasks : taskErr[t] = NoErr

\* When Run returns, the goroutines of its errgroups are over, the jobs' and the
\* exports', publishes' and loads', and with them every solve: the caller may
\* close the connection.  What Run starts outside of the errgroups may outlive
\* it, the tee of each solve and the display's consumers (StatusStream).
NothingLeftRunning ==
    stage = "returned" =>
        /\ phase = "rejected" \/ \A j \in Jobs : pc[j] = "exited"
        /\ \A t \in Tasks : task[t] \in {"idle", "ended"}

\* "Cicada will return an error before solving if a multi-platform image is
\* matched by --with-docker-export" (docs/usage.md): such a run solves nothing.
DockerMultiPlatformRefusedFirst ==
    (\E k \in DOMAIN pubs : pubs[k].docker /\ MultiPlatform(pubs, pubs[k].image))
        => \A j \in Jobs : pc[j] \notin {"solving", "release"}

-----------------------------------------------------------------------------
(* Liveness.                                                               *)

\* A cancelled run returns, in whichever stage it is caught and even when no
\* Solve call returns by itself.
CancelEndsRun == ctxDone ~> stage = "returned"

\* When Solve calls return, Run does.
RunReturns == EverySolveReturns => <>(stage = "returned")

=============================================================================
