---------------------------- MODULE RunnerProofs ----------------------------
(***************************************************************************)
(* Proofs about runner.Run as a whole, for every set of jobs, exports and   *)
(* publish lists.  The invariants of the job phase (JobDAGProofs) are taken *)
(* along: its steps are those of the stage "jobs".                          *)
(***************************************************************************)
EXTENDS Runner, JobDAGProofs

-----------------------------------------------------------------------------
(* The inductive invariant.                                                *)

JobInv == TypeInv /\ OrderInv /\ VerdictInv

\* RunTypeOK says what taskErr and imageErr hold; that they hold it for every
\* task and image is added here.
RunTypeInv ==
    /\ RunTypeOK
    /\ taskErr \in [Tasks -> TaskErrors(Tasks)]
    /\ imageErr \in [Images -> TaskErrors(PublishTasks)]

\* The error kept by the errgroup t's goroutine returns to.
GroupErrOf(t) == IF t \in ExportTasks THEN exportErr ELSE imageErr[t[2]]

\* A task that has been begun was asked for, it is cancelled only after the
\* context it runs under, and its error is not lost by its errgroup.
TaskInv(t) ==
    /\ task[t] \in {"idle", "solving"} => taskErr[t] = NoErr
    /\ Begun(t) => t \in ExportTasks \cup AllImageTasks
    /\ taskErr[t] = Canceled => CtxDoneOf(t)
    /\ task[t] = "ended" /\ taskErr[t] # NoErr => GroupErrOf(t) # NoErr

\* An error kept by an errgroup is the failure of a task, or a cancellation
\* that came from outside of that errgroup.
RealError(e) == e \in Tasks => taskErr[e] = e
GroupInv ==
    /\ RealError(exportErr) /\ (exportErr = Canceled => ctxDone)
    /\ \A i \in Images : /\ RealError(imageErr[i])
                         /\ imageErr[i] = Canceled => ctxDone \/ publishErr # NoErr
    /\ RealError(publishErr) /\ (publishErr = Canceled => ctxDone)

ExportsDelivered == \A x \in ExportTasks : Delivered(x)
PublishesAccepted == ~SettingsConflict(pubs) /\ ~DockerMultiPlatform(pubs)

\* What has been decided by the time a stage is reached.
StageInv ==
    /\ stage = "jobs" => \A t \in Tasks : ~Begun(t)
    /\ stage = "exports" => \A t \in PublishTasks : ~Begun(t)
    /\ stage # "jobs" => phase \in {"rejected", "waited"}
    /\ stage \in {"exports", "publishes"} => phase = "waited" /\ groupErr = NoErr
    /\ stage = "publishes" => ExportsDelivered /\ PublishesAccepted

ReturnInv == SuccessDelivers /\ AnswerIsReal /\ NothingLeftRunning

RunInv ==
    /\ JobInv
    /\ RunTypeInv
    /\ \A t \in Tasks : TaskInv(t)
    /\ GroupInv
    /\ StageInv
    /\ StagesInOrder
    /\ ReturnInv

-----------------------------------------------------------------------------
(* Tasks, images and the publish list.                                     *)

\* Exports and publishes are different tasks, a publish names its image, and no
\* task is one of the other errors.
LEMMA TaskFacts ==
    /\ ExportTasks \cap PublishTasks = {}
    /\ \A t \in PublishTasks : t[2] \in Images /\ t \in TaskOf(t[2], Kinds)
    /\ \A i \in Images : \A t \in TaskOf(i, Kinds) : t \in PublishTasks /\ t[2] = i
    /\ \A t \in Tasks : t \notin Jobs /\ t # NoErr /\ t # Canceled /\ t # Refused
    /\ NoErr # Canceled /\ NoErr # Refused /\ Canceled # Refused
    /\ Jobs \cap {NoErr, Canceled, Refused} = {}
<1>1. ExportTasks \cap PublishTasks = {}
  BY DEF ExportTasks, PublishTasks, Kinds
<1>2. \A t \in PublishTasks : t[2] \in Images /\ t \in TaskOf(t[2], Kinds)
  BY DEF PublishTasks, TaskOf
<1>3. \A i \in Images : \A t \in TaskOf(i, Kinds) : t \in PublishTasks /\ t[2] = i
  BY DEF PublishTasks, TaskOf
<1>4. \A t \in Tasks : t \notin Jobs /\ t # NoErr /\ t # Canceled /\ t # Refused
  BY TaskAssumption
<1>5. /\ NoErr # Canceled /\ NoErr # Refused /\ Canceled # Refused
      /\ Jobs \cap {NoErr, Canceled, Refused} = {}
  BY ConstantsAssumption, RunnerAssumption
<1> QED
  BY <1>1, <1>2, <1>3, <1>4, <1>5

\* The images asked for are images of the input, and the tasks of one image are
\* publish tasks of that image.
LEMMA PublishFacts ==
    ASSUME RunTypeInv
    PROVE  /\ Requested(pubs) \subseteq Images
           /\ AllImageTasks \subseteq PublishTasks
           /\ \A t \in AllImageTasks : t[2] \in Requested(pubs) /\ t \in ImageTasks(t[2])
           /\ \A i \in Requested(pubs) : ImageTasks(i) \subseteq AllImageTasks
<1>1. PICK in \in PublishInputs : pubs = ImagePublishes(in)
  BY DEF RunTypeInv, RunTypeOK
<1>2. \A k \in DOMAIN in.specs : "image" \in PublishFields /\ k \in DOMAIN pubs
                                /\ pubs[k].image = in.specs[k].image
  BY <1>1 DEF ImagePublishes, PublishFields
<1>3. DOMAIN pubs = DOMAIN in.specs
  BY <1>1 DEF ImagePublishes
<1>4. Requested(pubs) \subseteq Images
  BY <1>2, <1>3 DEF Requested, Images
<1>5. ASSUME NEW i \in Requested(pubs), NEW t \in ImageTasks(i)
      PROVE  t \in PublishTasks /\ t[2] = i
  BY <1>4, <1>5 DEF ImageTasks, KindsOf, Kinds, PublishTasks
<1>6. AllImageTasks = UNION {ImageTasks(i) : i \in Requested(pubs)}
  BY DEF AllImageTasks
<1> QED
  BY <1>4, <1>5, <1>6

\* Which goroutines there are in which stage.
LEMMA SpawnedFacts ==
    ASSUME RunTypeInv, NEW t \in Spawned
    PROVE  /\ t \in Tasks /\ t \in ExportTasks \cup AllImageTasks
           /\ stage \in {"exports", "publishes"}
           /\ t \in ExportTasks <=> stage = "exports"
<1>1. Spawned = IF stage = "exports" THEN ExportTasks
                ELSE IF stage = "publishes" THEN AllImageTasks ELSE {}
  BY DEF Spawned
<1> QED
  BY <1>1, TaskFacts, PublishFacts DEF Tasks

-----------------------------------------------------------------------------
(* The kinds of step of a task.                                            *)

\* t moves on to label l with error e, before it returns to its errgroup.
TaskMoves(t, l, e) ==
    /\ t \in Spawned /\ task[t] \in {"idle", "solving"} /\ l \in {"solving", "solved"}
    /\ task' = [task EXCEPT ![t] = l]
    /\ taskErr' = [taskErr EXCEPT ![t] = e]
    /\ l = "solving" => e = NoErr
    /\ e \in {NoErr, t} \/ (e = Canceled /\ CtxDoneOf(t))
    /\ UNCHANGED <<jobVars, stage, pubs, exportErr, imageErr, publishErr, runErr>>

\* What a task does before it returns is such a move.
LEMMA TaskSteps ==
    ASSUME RunTypeInv, NEW t \in Tasks, TaskInv(t),
           TaskStep(t) \/ TaskAnswer(t)
    PROVE  TaskReturned(t) \/ \E l, e : TaskMoves(t, l, e)
<1>1. CASE TaskRejected(t)
  <2>1. TaskMoves(t, "solved", t)
    BY <1>1 DEF TaskRejected, TaskMoves
  <2> QED
    BY <2>1
<1>2. CASE TaskCalled(t)
  <2>1. taskErr' = [taskErr EXCEPT ![t] = NoErr]
    BY <1>2 DEF TaskCalled, TaskInv, RunTypeInv
  <2>2. TaskMoves(t, "solving", NoErr)
    BY <1>2, <2>1 DEF TaskCalled, TaskMoves
  <2> QED
    BY <2>2
<1>3. ASSUME NEW e, Answer(t, e), e \in {NoErr, t} \/ (e = Canceled /\ CtxDoneOf(t))
      PROVE  TaskMoves(t, "solved", e)
  BY <1>3 DEF Answer, TaskMoves
<1>4. CASE TaskAnswer(t)
  BY <1>3, <1>4 DEF TaskAnswer, TaskOK, TaskFailed, TaskCanceled
<1> QED
  BY <1>1, <1>2, <1>4 DEF TaskStep

\* Every step of Run is one of these.
LEMMA RunStepKinds ==
    ASSUME RunTypeInv, \A t \in Tasks : TaskInv(t), [RunNext]_runVars
    PROVE  \/ JobStage \/ JobsOver \/ ExportsOver \/ PublishesOver \/ CancelLater
           \/ \E t \in Tasks : TaskReturned(t) \/ \E l, e : TaskMoves(t, l, e)
           \/ \E i \in Images : ImageReturned(i)
           \/ UNCHANGED runVars
BY TaskSteps DEF RunNext, Returned

-----------------------------------------------------------------------------
(* The job phase's invariants.                                             *)

\* A cancellation after the job phase leaves what that phase established.
LEMMA CancelKeepsJobInv == JobInv /\ CancelLater => JobInv'
<1> SUFFICES ASSUME JobInv, CancelLater PROVE JobInv'
  OBVIOUS
<1>1. /\ UNCHANGED <<phase, deps, pc, idx, nodeErr, done, cur, waiters, groupErr>>
      /\ ctxDone' = TRUE
  BY DEF CancelLater
<1>2. TypeInv'
  BY <1>1 DEF JobInv, TypeInv, TypeOK, Queued
<1>3. OrderInv'
  BY <1>1 DEF JobInv, OrderInv, Succeeded
<1>4. VerdictInv'
  BY <1>1 DEF JobInv, VerdictInv, CauseIsReal
<1> QED
  BY <1>2, <1>3, <1>4 DEF JobInv

\* Every step of Run is a step of the job phase, leaves it alone, or cancels it
\* when it is over.
LEMMA JobInvStep == JobInv /\ RunTypeInv /\ (\A t \in Tasks : TaskInv(t)) /\ [RunNext]_runVars => JobInv'
<1> SUFFICES ASSUME JobInv, RunTypeInv, \A t \in Tasks : TaskInv(t), [RunNext]_runVars
             PROVE  JobInv'
  OBVIOUS
<1>1. CASE [Next]_jobVars
  BY <1>1, TypeInvStep, OrderInvStep, VerdictInvStep DEF JobInv
<1>2. CASE CancelLater
  BY <1>2, CancelKeepsJobInv
<1>3. [Next]_jobVars \/ CancelLater
  BY RunStepKinds DEF JobStage, JobsOver, ExportsOver, PublishesOver, TaskReturned,
     TaskMoves, ImageReturned, runVars, Next
<1> QED
  BY <1>1, <1>2, <1>3

\* Once the job phase has ended without an error, every job is solved.
LEMMA JobsSolved == JobInv /\ phase = "waited" /\ groupErr = NoErr => Succeeded = Jobs
BY DEF JobInv, TypeInv, TypeOK, OrderInv, VerdictInv, Succeeded

-----------------------------------------------------------------------------
(* Types.                                                                  *)

\* A task that returns to its errgroup: the errgroup keeps its first error.
LEMMA ReturnedEffect ==
    ASSUME RunTypeInv, NEW t \in Tasks, TaskReturned(t)
    PROVE  /\ t \in ExportTasks =>
                exportErr' = First(exportErr, taskErr[t]) /\ imageErr' = imageErr
           /\ t \in PublishTasks =>
                /\ exportErr' = exportErr
                /\ imageErr' = [imageErr EXCEPT ![t[2]] = First(@, taskErr[t])]
                /\ imageErr'[t[2]] = First(imageErr[t[2]], taskErr[t])
                /\ \A i \in Images \ {t[2]} : imageErr'[i] = imageErr[i]
           /\ \A x \in Tasks : task'[x] = IF x = t THEN "ended" ELSE task[x]
BY TaskFacts DEF TaskReturned, RunTypeInv, RunTypeOK

\* Every step keeps the types.
LEMMA RunTypeStep ==
    JobInv /\ RunTypeInv /\ (\A t \in Tasks : TaskInv(t)) /\ [RunNext]_runVars
        => RunTypeInv'
<1> SUFFICES ASSUME JobInv, RunTypeInv, \A t \in Tasks : TaskInv(t), [RunNext]_runVars
             PROVE  RunTypeInv'
  OBVIOUS
<1>0. TypeOK'
  BY JobInvStep DEF JobInv, TypeInv
<1>r. RunTypeOK
  BY DEF RunTypeInv
<1>1. CASE JobStage \/ CancelLater \/ UNCHANGED runVars
  BY <1>0, <1>1 DEF JobStage, CancelLater, runVars, taskVars, RunTypeInv, RunTypeOK
<1>2. CASE JobsOver
  BY <1>0, <1>2 DEF JobsOver, ReturnFromRun, taskVars, RunTypeInv, RunTypeOK, TypeOK, Errors,
     TaskErrors
<1>3. CASE ExportsOver
  BY <1>0, <1>3 DEF ExportsOver, ReturnFromRun, taskVars, RunTypeInv, RunTypeOK, TaskErrors,
     Tasks
<1>4. CASE PublishesOver
  BY <1>0, <1>4 DEF PublishesOver, ReturnFromRun, taskVars, RunTypeInv, RunTypeOK, TaskErrors,
     Tasks
<1>5. ASSUME NEW i \in Images, ImageReturned(i) PROVE RunTypeInv'
  <2>1. publishErr' \in TaskErrors(PublishTasks)
    BY <1>5, TaskFacts DEF ImageReturned, RunTypeInv, RunTypeOK, TaskErrors
  <2> QED
    BY <1>0, <1>5, <2>1 DEF ImageReturned, RunTypeInv, RunTypeOK
<1>6. ASSUME NEW t \in Tasks, NEW l, NEW e, TaskMoves(t, l, e) PROVE RunTypeInv'
  <2>1. task' \in [Tasks -> {"idle", "solving", "solved", "ended"}]
    BY <1>6, <1>r DEF TaskMoves, RunTypeOK
  <2>2. e \in TaskErrors({t}) /\ e \in TaskErrors(Tasks)
    BY <1>6 DEF TaskMoves, TaskErrors
  <2>3. taskErr' \in [Tasks -> TaskErrors(Tasks)]
    BY <1>6, <2>2 DEF TaskMoves, RunTypeInv
  <2>4. \A x \in Tasks : taskErr'[x] \in TaskErrors({x})
    BY <1>6, <1>r, <2>2 DEF TaskMoves, RunTypeInv, RunTypeOK
  <2> QED
    BY <1>0, <1>6, <2>1, <2>3, <2>4 DEF TaskMoves, RunTypeInv, RunTypeOK
<1>7. ASSUME NEW t \in Tasks, TaskReturned(t) PROVE RunTypeInv'
  <2>1. task' \in [Tasks -> {"idle", "solving", "solved", "ended"}]
    BY <1>7, <1>r DEF TaskReturned, RunTypeOK
  <2>2. taskErr[t] \in TaskErrors({t})
    BY <1>r DEF RunTypeOK
  <2>3. exportErr' \in TaskErrors(ExportTasks)
    BY <1>7, <1>r, <2>2, ReturnedEffect DEF First, TaskErrors, RunTypeOK, Tasks
  <2>4. \A i \in Images : imageErr'[i] \in TaskErrors(TaskOf(i, Kinds))
    BY <1>7, <1>r, <2>2, ReturnedEffect, TaskFacts DEF First, TaskErrors, RunTypeOK, Tasks
  <2>5. imageErr' \in [Images -> TaskErrors(PublishTasks)]
    BY <1>7, <1>r, <2>2, ReturnedEffect, TaskFacts DEF First, TaskErrors, RunTypeInv, Tasks
  <2> QED
    BY <1>0, <1>7, <2>1, <2>3, <2>4, <2>5 DEF TaskReturned, RunTypeInv, RunTypeOK
<1> QED
  BY <1>1, <1>2, <1>3, <1>4, <1>5, <1>6, <1>7, RunStepKinds

-----------------------------------------------------------------------------
(* What holds of each task.                                                *)

\* No step takes a cancellation or an error kept by an errgroup back.
LEMMA ErrorsStay ==
    ASSUME JobInv, RunTypeInv, \A t \in Tasks : TaskInv(t), [RunNext]_runVars
    PROVE  /\ ctxDone => ctxDone'
           /\ exportErr # NoErr => exportErr' = exportErr
           /\ \A i \in Images : imageErr[i] # NoErr => imageErr'[i] = imageErr[i]
           /\ publishErr # NoErr => publishErr' = publishErr
           /\ pubs' = pubs
<1>1. CASE JobStage
  <2>1. ctxDone => ctxDone'
    BY <1>1, ZenonT(60) DEF JobStage, JobNext, GoroutineStep, SolveAnswer, BuildDAG,
       Wait, CancelCaller, DepDone, DepCanceled, AcquireRefused, AcquireNow,
       AcquireQueue, QueuedCanceled, GrantTaken, GrantReturned, Release,
       SolveRejected, SolveCalled, SolveOK, SolveFailed, SolveCanceled, CloseDone,
       Return
  <2> QED
    BY <1>1, <2>1 DEF JobStage, taskVars
<1>2. CASE JobsOver \/ ExportsOver \/ PublishesOver \/ CancelLater \/ UNCHANGED runVars
  BY <1>2 DEF JobsOver, ExportsOver, PublishesOver, CancelLater, runVars, jobVars, taskVars
<1>3. ASSUME NEW i \in Images, ImageReturned(i)
      PROVE  /\ UNCHANGED <<jobVars, exportErr, imageErr, pubs>>
             /\ publishErr # NoErr => publishErr' = publishErr
  BY <1>3 DEF ImageReturned
<1>4. ASSUME NEW t \in Tasks, NEW l, NEW e, TaskMoves(t, l, e)
      PROVE  UNCHANGED <<jobVars, exportErr, imageErr, publishErr, pubs>>
  BY <1>4 DEF TaskMoves
<1>5. ASSUME NEW t \in Tasks, TaskReturned(t)
      PROVE  /\ UNCHANGED <<jobVars, publishErr, pubs>>
             /\ exportErr # NoErr => exportErr' = exportErr
             /\ \A i \in Images : imageErr[i] # NoErr => imageErr'[i] = imageErr[i]
  BY <1>5, ReturnedEffect, TaskFacts, ZenonT(60) DEF TaskReturned, First, Tasks
<1> QED
  BY <1>1, <1>2, <1>3, <1>4, <1>5, RunStepKinds DEF jobVars

\* A task that a step leaves alone keeps its part of the invariant.
LEMMA BystanderTask ==
    ASSUME JobInv, RunTypeInv, \A x \in Tasks : TaskInv(x), [RunNext]_runVars,
           NEW t \in Tasks, task'[t] = task[t], taskErr'[t] = taskErr[t]
    PROVE  TaskInv(t)'
<1>1. AllImageTasks' = AllImageTasks
  BY ErrorsStay DEF AllImageTasks, ImageTasks
<1>2. /\ CtxDoneOf(t) => CtxDoneOf(t)'
      /\ GroupErrOf(t) # NoErr => GroupErrOf(t)' # NoErr
  BY ErrorsStay, TaskFacts DEF CtxDoneOf, ExportCtxDone, ImageCtxDone, GroupErrOf, Tasks
<1> QED
  BY <1>1, <1>2 DEF TaskInv, Begun

\* Every step keeps what holds of each task.
LEMMA TaskInvStep ==
    JobInv /\ RunTypeInv /\ (\A t \in Tasks : TaskInv(t)) /\ [RunNext]_runVars
        => (\A t \in Tasks : TaskInv(t))'
<1> SUFFICES ASSUME JobInv, RunTypeInv, \A x \in Tasks : TaskInv(x), [RunNext]_runVars,
                    NEW t \in Tasks
             PROVE  TaskInv(t)'
  OBVIOUS
<1>a. AllImageTasks' = AllImageTasks
  BY ErrorsStay DEF AllImageTasks, ImageTasks
<1>1. CASE task' = task /\ taskErr' = taskErr
  BY <1>1, BystanderTask
<1>2. ASSUME NEW x \in Tasks, NEW l, NEW e, TaskMoves(x, l, e) PROVE TaskInv(t)'
  <2>1. CASE x # t
    BY <1>2, <2>1, BystanderTask DEF TaskMoves
  <2>2. CASE x = t
    <3>1. task'[t] = l /\ taskErr'[t] = e /\ l \in {"solving", "solved"}
      BY <1>2, <2>2 DEF TaskMoves, RunTypeInv, RunTypeOK
    <3>2. t \in ExportTasks \cup AllImageTasks
      BY <1>2, <2>2, SpawnedFacts DEF TaskMoves
    <3>3. e = Canceled => CtxDoneOf(t)'
      <4>1. CtxDoneOf(t)' = CtxDoneOf(t)
        BY <1>2 DEF TaskMoves, CtxDoneOf, ExportCtxDone, ImageCtxDone, jobVars
      <4> QED
        BY <1>2, <2>2, <4>1, TaskFacts DEF TaskMoves
    <3>4. l = "solving" => e = NoErr
      BY <1>2 DEF TaskMoves
    <3> QED
      BY <1>a, <3>1, <3>2, <3>3, <3>4 DEF TaskInv, Begun
  <2> QED
    BY <2>1, <2>2
<1>3. ASSUME NEW x \in Tasks, TaskReturned(x) PROVE TaskInv(t)'
  <2>1. CASE x # t
    BY <1>3, <2>1, BystanderTask, ReturnedEffect DEF TaskReturned
  <2>2. CASE x = t
    <3>0. TaskReturned(t)
      BY <1>3, <2>2
    <3>1. task'[t] = "ended" /\ taskErr'[t] = taskErr[t] /\ t \in Spawned
      <4>1. task'[t] = "ended"
        BY <3>0, ReturnedEffect
      <4> QED
        BY <3>0, <4>1 DEF TaskReturned
    <3>2. t \in ExportTasks \cup AllImageTasks
      BY <3>1, SpawnedFacts
    <3>3. taskErr[t] = Canceled => CtxDoneOf(t)'
      <4>1. taskErr[t] = Canceled => CtxDoneOf(t)
        BY DEF TaskInv
      <4> QED
        BY <4>1, ErrorsStay, TaskFacts DEF CtxDoneOf, ExportCtxDone, ImageCtxDone, Tasks
    <3>4. taskErr[t] # NoErr => GroupErrOf(t)' # NoErr
      BY <1>3, <2>2, ReturnedEffect, TaskFacts DEF GroupErrOf, First, Tasks
    <3> QED
      BY <1>a, <3>1, <3>2, <3>3, <3>4 DEF TaskInv
  <2> QED
    BY <2>1, <2>2
<1> QED
  BY <1>1, <1>2, <1>3, RunStepKinds DEF JobStage, JobsOver, ExportsOver, PublishesOver,
     CancelLater, ImageReturned, runVars, taskVars

-----------------------------------------------------------------------------
(* What the errgroups keep.                                                *)

\* A failure once named stays the task's error.
LEMMA RealErrorStays ==
    ASSUME JobInv, RunTypeInv, \A t \in Tasks : TaskInv(t), [RunNext]_runVars,
           NEW e, RealError(e)
    PROVE  RealError(e)'
<1>1. CASE taskErr' = taskErr
  BY <1>1 DEF RealError
<1>2. ASSUME NEW t \in Tasks, NEW l, NEW f, TaskMoves(t, l, f) PROVE RealError(e)'
  <2>1. taskErr[t] = NoErr
    BY <1>2 DEF TaskMoves, TaskInv
  <2>2. e \in Tasks => e # t
    BY <2>1, TaskFacts DEF RealError
  <2>3. \A x \in Tasks \ {t} : taskErr'[x] = taskErr[x]
    BY <1>2 DEF TaskMoves, RunTypeInv
  <2> QED
    BY <2>2, <2>3 DEF RealError
<1> QED
  BY <1>1, <1>2, RunStepKinds DEF JobStage, JobsOver, ExportsOver, PublishesOver,
     CancelLater, ImageReturned, TaskReturned, runVars, taskVars

\* What a task hands to its errgroup is its own failure, nothing, or a
\* cancellation.
LEMMA TaskErrorReal ==
    ASSUME RunTypeInv, NEW t \in Tasks
    PROVE  RealError(taskErr[t])
<1>1. taskErr[t] \in {t, Canceled, NoErr}
  BY DEF RunTypeInv, RunTypeOK, TaskErrors
<1> QED
  BY <1>1, TaskFacts DEF RealError

\* Every step keeps the errors of the errgroups real.
LEMMA GroupInvStep ==
    JobInv /\ RunTypeInv /\ (\A t \in Tasks : TaskInv(t)) /\ GroupInv /\ [RunNext]_runVars
        => GroupInv'
<1> SUFFICES ASSUME JobInv, RunTypeInv, \A t \in Tasks : TaskInv(t), GroupInv,
                    [RunNext]_runVars
             PROVE  GroupInv'
  OBVIOUS
<1>0. \A e : RealError(e) => RealError(e)'
  BY RealErrorStays
<1>s. /\ ctxDone => ctxDone'
      /\ publishErr # NoErr => publishErr' # NoErr
  BY ErrorsStay
<1>1. CASE UNCHANGED <<exportErr, imageErr, publishErr>>
  <2>1. RealError(exportErr)' /\ RealError(publishErr)'
    BY <1>0, <1>1 DEF GroupInv
  <2>2. \A i \in Images : RealError(imageErr[i])'
    BY <1>0, <1>1 DEF GroupInv
  <2> QED
    BY <1>1, <1>s, <2>1, <2>2 DEF GroupInv
<1>2. ASSUME NEW i \in Images, ImageReturned(i) PROVE GroupInv'
  <2>1. /\ UNCHANGED <<exportErr, imageErr, taskErr, ctxDone>>
        /\ publishErr = NoErr /\ publishErr' = imageErr[i]
    BY <1>2 DEF ImageReturned, jobVars
  <2> QED
    BY <2>1, <1>s, <1>2 DEF GroupInv, RealError, ImageReturned
<1>3. ASSUME NEW t \in Tasks, TaskReturned(t) PROVE GroupInv'
  <2>1. /\ UNCHANGED <<publishErr, taskErr, ctxDone>>
        /\ RealError(taskErr[t])
        /\ taskErr[t] = Canceled => CtxDoneOf(t)
    BY <1>3, TaskErrorReal DEF TaskReturned, TaskInv, jobVars
  <2>2. CASE t \in ExportTasks
    <3>1. exportErr' = First(exportErr, taskErr[t]) /\ imageErr' = imageErr
      BY <1>3, <2>2, ReturnedEffect
    <3>2. exportErr = NoErr /\ taskErr[t] = Canceled => ctxDone
      BY <2>1, <2>2 DEF CtxDoneOf, ExportCtxDone
    <3> QED
      BY <2>1, <3>1, <3>2 DEF GroupInv, RealError, First
  <2>3. CASE t \in PublishTasks
    <3>1. /\ exportErr' = exportErr
          /\ imageErr'[t[2]] = First(imageErr[t[2]], taskErr[t])
          /\ \A i \in Images \ {t[2]} : imageErr'[i] = imageErr[i]
      BY <1>3, <2>3, ReturnedEffect
    <3>2. imageErr[t[2]] = NoErr /\ taskErr[t] = Canceled => ctxDone \/ publishErr # NoErr
      BY <2>1, <2>3, TaskFacts DEF CtxDoneOf, ImageCtxDone
    <3> QED
      BY <2>1, <3>1, <3>2 DEF GroupInv, RealError, First
  <2> QED
    BY <2>2, <2>3 DEF Tasks
<1> QED
  BY <1>1, <1>2, <1>3, RunStepKinds DEF JobStage, JobsOver, ExportsOver, PublishesOver,
     CancelLater, TaskMoves, runVars, taskVars

-----------------------------------------------------------------------------
(* The stages.                                                             *)

\* What a step in a stage may do to tasks: only those of that stage move, and
\* a delivered task stays delivered.
LEMMA TaskMovesInStage ==
    ASSUME JobInv, RunTypeInv, \A t \in Tasks : TaskInv(t), [RunNext]_runVars
    PROVE  /\ \A t \in Tasks : Delivered(t) => Delivered(t)'
           /\ \A t \in Tasks : Begun(t)' =>
                \/ Begun(t)
                \/ stage = "exports" /\ t \in ExportTasks
                \/ stage = "publishes" /\ t \in AllImageTasks
<1>1. CASE task' = task /\ taskErr' = taskErr
  BY <1>1 DEF Delivered, Begun
<1>2. ASSUME NEW x \in Tasks, NEW l, NEW e, TaskMoves(x, l, e) \/ TaskReturned(x),
             NEW t \in Tasks
      PROVE  /\ Delivered(t) => Delivered(t)'
             /\ Begun(t)' => \/ Begun(t)
                             \/ stage = "exports" /\ t \in ExportTasks
                             \/ stage = "publishes" /\ t \in AllImageTasks
  <2>1. CASE x # t
    <3>1. task'[t] = task[t] /\ taskErr'[t] = taskErr[t]
      BY <1>2, <2>1 DEF TaskMoves, TaskReturned, RunTypeInv, RunTypeOK
    <3> QED
      BY <3>1 DEF Delivered, Begun
  <2>2. CASE x = t
    <3>1. task[t] # "ended" /\ t \in Spawned
      BY <1>2, <2>2 DEF TaskMoves, TaskReturned
    <3>2. \/ stage = "exports" /\ t \in ExportTasks
          \/ stage = "publishes" /\ t \in AllImageTasks
      BY <3>1, SpawnedFacts
    <3> QED
      BY <3>1, <3>2 DEF Delivered
  <2> QED
    BY <2>1, <2>2
<1> QED
  BY <1>1, <1>2, RunStepKinds DEF JobStage, JobsOver, ExportsOver, PublishesOver,
     CancelLater, ImageReturned, runVars, taskVars

\* The tasks of a stage have all delivered when its errgroup has no error.
LEMMA EndedDelivered ==
    ASSUME RunTypeInv, NEW t \in Tasks, TaskInv(t), task[t] = "ended", GroupErrOf(t) = NoErr
    PROVE  Delivered(t)
BY DEF TaskInv, Delivered

\* Every step keeps what the stages have decided.
LEMMA StageInvStep ==
    JobInv /\ RunTypeInv /\ (\A t \in Tasks : TaskInv(t)) /\ StageInv /\ [RunNext]_runVars
        => StageInv'
<1> SUFFICES ASSUME JobInv, RunTypeInv, \A t \in Tasks : TaskInv(t), StageInv,
                    [RunNext]_runVars
             PROVE  StageInv'
  OBVIOUS
<1>0. pubs' = pubs /\ (PublishesAccepted => PublishesAccepted')
  BY ErrorsStay DEF PublishesAccepted
<1>1. ExportsDelivered => ExportsDelivered'
  BY TaskMovesInStage DEF ExportsDelivered, Tasks
<1>2. \A t \in Tasks : Begun(t)' =>
         \/ Begun(t)
         \/ stage = "exports" /\ t \in ExportTasks
         \/ stage = "publishes" /\ t \in AllImageTasks
  BY TaskMovesInStage
<1>3. CASE JobStage
  BY <1>3, <1>2, TaskFacts DEF JobStage, StageInv, Tasks
<1>4. CASE JobsOver
  BY <1>4, <1>2, TaskFacts DEF JobsOver, ReturnFromRun, StageInv, Tasks, jobVars
<1>5. CASE ExportsOver
  <2>1. /\ UNCHANGED <<phase, groupErr, task, taskErr>>
        /\ stage = "exports" /\ stage' \in {"publishes", "returned"}
        /\ stage' = "publishes" => exportErr = NoErr /\ PublishesAccepted
        /\ \A t \in ExportTasks : task[t] = "ended"
    BY <1>5 DEF ExportsOver, ReturnFromRun, jobVars, taskVars, PublishesAccepted, Ended
  <2>2. stage' = "publishes" => ExportsDelivered
    BY <2>1, EndedDelivered DEF ExportsDelivered, Tasks, GroupErrOf
  <2> QED
    BY <1>0, <1>1, <2>1, <2>2 DEF StageInv
<1>6. CASE PublishesOver
  BY <1>6 DEF PublishesOver, ReturnFromRun, StageInv, jobVars
<1>7. CASE CancelLater \/ UNCHANGED runVars
  BY <1>7, <1>0, <1>1, <1>2 DEF CancelLater, StageInv, runVars, jobVars, taskVars, Begun
<1>8. CASE stage' = stage /\ jobVars' = jobVars /\ stage \in {"exports", "publishes"}
  BY <1>8, <1>0, <1>1, <1>2, TaskFacts DEF StageInv, jobVars, Tasks
<1>9. ASSUME NEW t \in Tasks, NEW l, NEW e, TaskReturned(t) \/ TaskMoves(t, l, e)
      PROVE  StageInv'
  BY <1>8, <1>9, SpawnedFacts DEF TaskReturned, TaskMoves
<1>10. ASSUME NEW i \in Images, ImageReturned(i) PROVE StageInv'
  BY <1>8, <1>10 DEF ImageReturned
<1> QED
  BY <1>3, <1>4, <1>5, <1>6, <1>7, <1>9, <1>10, RunStepKinds

\* Solved jobs stay solved.
LEMMA SolvedStay ==
    ASSUME JobInv, RunTypeInv, \A t \in Tasks : TaskInv(t), [RunNext]_runVars,
           Succeeded = Jobs
    PROVE  Succeeded' = Jobs
<1>0. done \subseteq Jobs /\ done' \subseteq Jobs
  BY JobInvStep DEF JobInv, TypeInv, TypeOK
<1>1. CASE [Next]_jobVars
  BY <1>0, <1>1, DoneFrozen DEF JobInv, Succeeded
<1>2. CASE CancelLater
  BY <1>2 DEF CancelLater, Succeeded
<1>3. [Next]_jobVars \/ CancelLater
  BY RunStepKinds DEF JobStage, JobsOver, ExportsOver, PublishesOver, TaskReturned,
     TaskMoves, ImageReturned, runVars, Next
<1> QED
  BY <1>1, <1>2, <1>3

\* Nothing leaves the machine before the stage it belongs to.
LEMMA StagesInOrderStep ==
    /\ JobInv /\ RunTypeInv /\ (\A t \in Tasks : TaskInv(t)) /\ StageInv /\ StagesInOrder
    /\ [RunNext]_runVars
    => StagesInOrder'
<1> SUFFICES ASSUME JobInv, RunTypeInv, \A t \in Tasks : TaskInv(t), StageInv,
                    StagesInOrder, [RunNext]_runVars
             PROVE  StagesInOrder'
  OBVIOUS
<1>0. /\ \A t \in Tasks : Begun(t)' =>
            \/ Begun(t)
            \/ stage = "exports" /\ t \in ExportTasks
            \/ stage = "publishes" /\ t \in AllImageTasks
      /\ \A t \in Tasks : Delivered(t) => Delivered(t)'
  BY TaskMovesInStage
<1>1. stage \in {"exports", "publishes"} => Succeeded = Jobs
  BY JobsSolved DEF StageInv
<1>2. Succeeded = Jobs => Succeeded' = Jobs
  BY SolvedStay
<1>3. stage = "publishes" =>
        (\A x \in ExportTasks : Delivered(x)) /\ ~SettingsConflict(pubs)
  BY DEF StageInv, ExportsDelivered, PublishesAccepted
<1>4. pubs' = pubs
  BY ErrorsStay
<1>5. ASSUME NEW t \in ExportTasks, Begun(t)' PROVE Succeeded' = Jobs
  BY <1>0, <1>1, <1>2, <1>5 DEF StagesInOrder, Tasks
<1>6. ASSUME NEW t \in PublishTasks, Begun(t)'
      PROVE  /\ Succeeded' = Jobs
             /\ \A x \in ExportTasks : Delivered(x)'
             /\ ~SettingsConflict(pubs)'
  <2>1. /\ Succeeded = Jobs
        /\ \A x \in ExportTasks : Delivered(x)
        /\ ~SettingsConflict(pubs)
    BY <1>0, <1>1, <1>3, <1>6, TaskFacts DEF StagesInOrder, Tasks
  <2> QED
    BY <1>0, <1>2, <1>4, <2>1 DEF Tasks
<1> QED
  BY <1>5, <1>6 DEF StagesInOrder

-----------------------------------------------------------------------------
(* Run's answer.                                                           *)

\* What a publish stage that ended without an error has made, for each publish
\* asked for.
LEMMA PublishesMade ==
    ASSUME RunTypeInv, PublishesAccepted,
           \A t \in AllImageTasks : Delivered(t),
           NEW k \in DOMAIN pubs
    PROVE  LET p == pubs[k]
               made(kinds) == \E t \in TaskOf(p.image, kinds) : Delivered(t)
           IN  /\ p.push => made({"image", "multi"})
               /\ p.docker => made({"docker"})
               /\ made(Kinds)
<1> DEFINE p == pubs[k]
           i == p.image
           v == Head(Variants(pubs, i))
<1>1. i \in Requested(pubs)
  BY DEF Requested
<1>2. \A m \in KindsOf(pubs, i) : Delivered(<<m, i>>)
  BY <1>1 DEF AllImageTasks, ImageTasks
<1>3. p.push = v.push /\ p.docker = v.docker
  BY DEF PublishesAccepted, SettingsConflict, Settings
<1>4. MultiPlatform(pubs, i) => ~v.docker
  BY <1>1 DEF PublishesAccepted, DockerMultiPlatform
<1>5. KindsOf(pubs, i) = IF MultiPlatform(pubs, i) THEN {"multi"}
                         ELSE IF v.push /\ v.docker THEN {"image", "docker"}
                         ELSE IF v.docker THEN {"docker"}
                         ELSE {"image"}
  BY DEF KindsOf
<1>6. ASSUME NEW kinds, NEW m \in kinds, m \in KindsOf(pubs, i)
      PROVE  \E t \in TaskOf(i, kinds) : Delivered(t)
  BY <1>2, <1>6 DEF TaskOf
<1>7. p.push => \E m \in {"image", "multi"} : m \in KindsOf(pubs, i)
  BY <1>3, <1>5
<1>8. p.docker => "docker" \in KindsOf(pubs, i)
  BY <1>3, <1>4, <1>5
<1>9. \E m \in Kinds : m \in KindsOf(pubs, i)
  BY <1>5 DEF Kinds
<1> HIDE DEF i, v
<1>10. p.push => \E t \in TaskOf(i, {"image", "multi"}) : Delivered(t)
  BY <1>6, <1>7
<1>11. p.docker => \E t \in TaskOf(i, {"docker"}) : Delivered(t)
  BY <1>6, <1>8
<1>12. \E t \in TaskOf(i, Kinds) : Delivered(t)
  BY <1>6, <1>9
<1> QED
  BY <1>10, <1>11, <1>12 DEF i

\* Run returns from the job phase: nothing has been exported or published.
LEMMA JobsOverReturns ==
    ASSUME RunInv, JobsOver PROVE ReturnInv'
<1> USE DEF RunInv
<1>1. /\ UNCHANGED <<jobVars, pubs, taskVars>>
      /\ \A t \in Tasks : task[t] = "idle"
      /\ \A t \in Tasks : taskErr[t] = NoErr
      /\ phase \in {"rejected", "waited"}
      /\ stage' \in {"exports", "returned"}
  BY DEF JobsOver, ReturnFromRun, StageInv, Begun, TaskInv
<1>2. CASE stage' = "exports"
  BY <1>2 DEF ReturnInv, SuccessDelivers, AnswerIsReal, NothingLeftRunning
<1>3. CASE stage' = "returned"
  <2>1. runErr' = Refused \/ (runErr' = groupErr /\ groupErr # NoErr)
    BY <1>3 DEF JobsOver, ReturnFromRun
  <2>2. groupErr \in Jobs \cup {Canceled, NoErr}
    BY DEF JobInv, TypeInv, TypeOK, Errors
  <2>3. runErr' # NoErr /\ runErr' \notin Tasks
    BY <2>1, <2>2, TaskFacts
  <2>4. /\ runErr' = Canceled => ctxDone
        /\ runErr' \in Jobs => nodeErr[runErr'] = runErr'
    BY <2>1, <2>2, TaskFacts DEF JobInv, VerdictInv, CauseIsReal
  <2>5. phase = "rejected" \/ \A j \in Jobs : pc[j] = "exited"
    BY <1>1 DEF JobInv, VerdictInv
  <2> QED
    BY <1>1, <2>3, <2>4, <2>5
       DEF ReturnInv, SuccessDelivers, AnswerIsReal, NothingLeftRunning, jobVars, taskVars
<1> QED
  BY <1>1, <1>2, <1>3

\* Run returns from the exports: nothing has been published.
LEMMA ExportsOverReturns ==
    ASSUME RunInv, ExportsOver PROVE ReturnInv'
<1> USE DEF RunInv
<1>1. /\ UNCHANGED <<jobVars, pubs, taskVars>>
      /\ \A t \in Tasks : task[t] \in {"idle", "ended"}
      /\ phase = "waited"
      /\ stage' \in {"publishes", "returned"}
  BY DEF ExportsOver, ReturnFromRun, StageInv, Begun, Ended, Tasks
<1>2. CASE stage' = "publishes"
  BY <1>2 DEF ReturnInv, SuccessDelivers, AnswerIsReal, NothingLeftRunning
<1>3. CASE stage' = "returned"
  <2>1. runErr' = Refused \/ (runErr' = exportErr /\ exportErr # NoErr)
    BY <1>3 DEF ExportsOver, ReturnFromRun
  <2>2. exportErr \in Tasks \cup {Canceled, NoErr}
    BY DEF RunTypeInv, RunTypeOK, TaskErrors, Tasks
  <2>3. runErr' # NoErr /\ runErr' \notin Jobs
    BY <2>1, <2>2, TaskFacts
  <2>4. /\ runErr' = Canceled => ctxDone
        /\ runErr' \in Tasks => taskErr[runErr'] = runErr'
    BY <2>1, <2>2, TaskFacts DEF GroupInv, RealError
  <2>5. \A j \in Jobs : pc[j] = "exited"
    BY <1>1 DEF JobInv, VerdictInv
  <2> QED
    BY <1>1, <2>3, <2>4, <2>5
       DEF ReturnInv, SuccessDelivers, AnswerIsReal, NothingLeftRunning, jobVars, taskVars
<1> QED
  BY <1>1, <1>2, <1>3

\* Run returns from the publishes, with an error or with everything delivered.
LEMMA PublishesOverReturns ==
    ASSUME RunInv, PublishesOver PROVE ReturnInv'
<1> USE DEF RunInv
<1>1. /\ UNCHANGED <<jobVars, pubs, taskVars>>
      /\ phase = "waited" /\ groupErr = NoErr
      /\ stage' = "returned" /\ runErr' = publishErr
      /\ ExportsDelivered /\ PublishesAccepted
      /\ \A t \in AllImageTasks : task[t] = "ended"
      /\ publishErr = NoErr => \A i \in Requested(pubs) : imageErr[i] = NoErr
  BY DEF PublishesOver, ReturnFromRun, StageInv, Ended
<1>2. \A t \in Tasks : task[t] \in {"idle", "ended"}
  BY <1>1 DEF ExportsDelivered, Delivered, TaskInv, Begun
<1>3. publishErr \in Tasks \cup {Canceled, NoErr}
  BY DEF RunTypeInv, RunTypeOK, TaskErrors, Tasks
<1>4. /\ publishErr = Canceled => ctxDone
      /\ publishErr \in Tasks => taskErr[publishErr] = publishErr
      /\ publishErr \notin Jobs
  BY <1>3, TaskFacts DEF GroupInv, RealError
<1>5. \A j \in Jobs : pc[j] = "exited"
  BY <1>1 DEF JobInv, VerdictInv
<1>6. publishErr = NoErr => \A t \in AllImageTasks : Delivered(t)
  <2> SUFFICES ASSUME publishErr = NoErr, NEW t \in AllImageTasks PROVE Delivered(t)
    OBVIOUS
  <2>1. t \in PublishTasks /\ t[2] \in Requested(pubs) /\ t \in Tasks /\ t \notin ExportTasks
    BY PublishFacts, TaskFacts DEF Tasks
  <2>2. GroupErrOf(t) = NoErr
    BY <1>1, <2>1 DEF GroupErrOf
  <2> QED
    BY <1>1, <2>1, <2>2, EndedDelivered
<1>7. publishErr = NoErr => \A t \in Tasks : taskErr[t] = NoErr
  <2> SUFFICES ASSUME publishErr = NoErr, NEW t \in Tasks PROVE taskErr[t] = NoErr
    OBVIOUS
  <2>1. CASE Begun(t)
    BY <1>1, <1>6, <2>1 DEF TaskInv, ExportsDelivered, Delivered
  <2>2. CASE ~Begun(t)
    BY <2>2 DEF TaskInv, Begun
  <2> QED
    BY <2>1, <2>2
<1>8. AnswerIsReal' /\ NothingLeftRunning'
  BY <1>1, <1>2, <1>4, <1>5, <1>7 DEF AnswerIsReal, NothingLeftRunning, jobVars, taskVars
<1>9. SuccessDelivers'
  <2>1. CASE publishErr # NoErr
    BY <1>1, <2>1 DEF SuccessDelivers
  <2>2. CASE publishErr = NoErr
    <3>1. Succeeded = Jobs /\ \A t \in ExportTasks : Delivered(t)
      BY <1>1, JobsSolved DEF ExportsDelivered
    <3>2. SuccessDelivers'
            <=> (/\ Succeeded = Jobs
                 /\ \A t \in ExportTasks : Delivered(t)
                 /\ \A k \in DOMAIN pubs :
                      LET p == pubs[k]
                          made(kinds) == \E t \in TaskOf(p.image, kinds) : Delivered(t)
                      IN  /\ p.push => made({"image", "multi"})
                          /\ p.docker => made({"docker"})
                          /\ made(Kinds))
      BY <1>1, <2>2 DEF SuccessDelivers, jobVars, taskVars, Succeeded, Delivered
    <3> QED
      BY <1>1, <1>6, <2>2, <3>1, <3>2, PublishesMade
  <2> QED
    BY <2>1, <2>2
<1> QED
  BY <1>8, <1>9 DEF ReturnInv

\* Once Run has returned nothing changes, and before it has there is no answer.
LEMMA ReturnInvStep == RunInv /\ [RunNext]_runVars => ReturnInv'
<1> SUFFICES ASSUME RunInv, [RunNext]_runVars PROVE ReturnInv'
  OBVIOUS
<1>1. CASE stage' # "returned"
  BY <1>1 DEF ReturnInv, SuccessDelivers, AnswerIsReal, NothingLeftRunning
<1>2. CASE UNCHANGED runVars
  BY <1>2 DEF RunInv, ReturnInv, SuccessDelivers, AnswerIsReal, NothingLeftRunning, runVars,
     jobVars, taskVars, Succeeded, Delivered
<1>3. ASSUME \/ JobStage \/ CancelLater
             \/ \E t \in Tasks : TaskReturned(t) \/ \E l, e : TaskMoves(t, l, e)
             \/ \E i \in Images : ImageReturned(i)
      PROVE  stage' # "returned"
  BY <1>3, SpawnedFacts DEF RunInv, JobStage, CancelLater, TaskReturned, TaskMoves,
     ImageReturned
<1> QED
  BY <1>1, <1>2, <1>3, JobsOverReturns, ExportsOverReturns, PublishesOverReturns,
     RunStepKinds DEF RunInv

-----------------------------------------------------------------------------
(* The theorems.                                                           *)

\* Run starts in the job phase with nothing begun and no errors.
LEMMA RunInvInit == RunInit => RunInv
<1> SUFFICES ASSUME RunInit PROVE RunInv
  OBVIOUS
<1>1. JobInv
  BY TypeInvInit, OrderInvInit, VerdictInvInit DEF RunInit, JobInv
<1>2. /\ \A t \in Tasks : task[t] = "idle" /\ taskErr[t] = NoErr
      /\ exportErr = NoErr /\ publishErr = NoErr /\ runErr = NoErr
      /\ \A i \in Images : imageErr[i] = NoErr
      /\ stage = "jobs"
  BY DEF RunInit
<1>3. RunTypeInv
  <2>1. /\ task \in [Tasks -> {"idle", "solving", "solved", "ended"}]
        /\ taskErr \in [Tasks -> TaskErrors(Tasks)]
        /\ imageErr \in [Images -> TaskErrors(PublishTasks)]
    BY DEF RunInit, TaskErrors
  <2>2. TypeOK /\ \E in \in PublishInputs : pubs = ImagePublishes(in)
    BY <1>1 DEF RunInit, JobInv, TypeInv
  <2> QED
    BY <1>2, <2>1, <2>2 DEF RunTypeInv, RunTypeOK, TaskErrors
<1>4. \A t \in Tasks : TaskInv(t)
  BY <1>2, TaskFacts DEF TaskInv, Begun
<1>5. GroupInv
  BY <1>2, TaskFacts DEF GroupInv, RealError
<1>6. StageInv
  BY <1>2 DEF StageInv, Begun
<1>7. StagesInOrder
  BY <1>2 DEF StagesInOrder, Begun, Tasks
<1>8. ReturnInv
  BY <1>2 DEF ReturnInv, SuccessDelivers, AnswerIsReal, NothingLeftRunning
<1> QED
  BY <1>1, <1>3, <1>4, <1>5, <1>6, <1>7, <1>8 DEF RunInv

\* The invariant holds in every reachable state.
LEMMA RunCorrect == RunSpec => []RunInv
<1>1. RunInv /\ [RunNext]_runVars => RunInv'
  BY JobInvStep, RunTypeStep, TaskInvStep, GroupInvStep, StageInvStep, StagesInOrderStep,
     ReturnInvStep DEF RunInv
<1> QED
  BY <1>1, RunInvInit, PTL DEF RunSpec

\* Every reachable state is well typed, and an errgroup keeps errors of its own
\* tasks only.
THEOREM RunTypeCorrect == RunSpec => []RunTypeOK
<1>1. RunInv => RunTypeOK
  BY DEF RunInv, RunTypeInv
<1> QED
  BY <1>1, RunCorrect, PTL

\* No file is exported before every job is solved, no image is published before
\* every file is written.
THEOREM ExportsAndPublishesInOrder == RunSpec => []StagesInOrder
<1>1. RunInv => StagesInOrder
  BY DEF RunInv
<1> QED
  BY <1>1, RunCorrect, PTL

\* A run that answers nil has exported, pushed and loaded all it was asked to.
THEOREM SuccessMeansDelivered == RunSpec => []SuccessDelivers
<1>1. RunInv => SuccessDelivers
  BY DEF RunInv, ReturnInv
<1> QED
  BY <1>1, RunCorrect, PTL

\* Run's answer names a job or task that failed by itself, or a cancellation by
\* the caller.
THEOREM AnswersReal == RunSpec => []AnswerIsReal
<1>1. RunInv => AnswerIsReal
  BY DEF RunInv, ReturnInv
<1> QED
  BY <1>1, RunCorrect, PTL

\* Nothing that Run started is running when it returns.
THEOREM ReturnsWhenAllHasEnded == RunSpec => []NothingLeftRunning
<1>1. RunInv => NothingLeftRunning
  BY DEF RunInv, ReturnInv
<1> QED
  BY <1>1, RunCorrect, PTL

=============================================================================
