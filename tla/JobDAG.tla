------------------------------- MODULE JobDAG -------------------------------
(***************************************************************************)
(* The job phase of runner.Run (internal/runner/runner.go): one goroutine  *)
(* per job in an errgroup.  A goroutine waits on the done channel of each  *)
(* dependency in turn, acquires one token of a weighted semaphore, solves, *)
(* gives the token back, closes its own done channel and returns its error *)
(* to the errgroup, which keeps the first one and cancels the context that *)
(* every goroutine shares.                                                 *)
(*                                                                         *)
(* The semaphore and the errgroup are golang.org/x/sync v0.19.0; they are  *)
(* modelled here from how runner.go uses them.                             *)
(***************************************************************************)
EXTENDS Integers, Sequences, FiniteSets

CONSTANTS
    Jobs,           \* the names in in.Jobs (all distinct, see Pipeline.Validate)
    Graphs,         \* the DependsOn tables a run may be given
    Parallelism,    \* in.Parallelism: 0 (or less) is "unlimited"
    Unknown,        \* a dependency name that is no job
    NoErr,          \* the nil error
    Canceled        \* context.Canceled

ASSUME ConstantsAssumption ==
    /\ Jobs # {} /\ IsFiniteSet(Jobs)
    /\ Parallelism \in Int
    /\ Unknown \notin Jobs /\ NoErr \notin Jobs /\ Canceled \notin Jobs
    /\ NoErr # Canceled
    /\ \A g \in Graphs : g \in [Jobs -> Seq(Jobs \cup {Unknown})]

VARIABLES
    phase,      \* where Run itself is
    deps,       \* deps[j]: j's DependsOn, in order
    pc,         \* where goroutine j is
    idx,        \* the dependency goroutine j looks at
    nodeErr,    \* dagNode.err, reduced to its root cause
    done,       \* the jobs whose done channel is closed
    cur,        \* tokens the semaphore has given out
    waiters,    \* goroutines queued in Acquire, in order
    groupErr,   \* the error the errgroup keeps
    ctxDone     \* the caller's context is cancelled

jobVars == <<phase, deps, pc, idx, nodeErr, done, cur, waiters, groupErr, ctxDone>>

-----------------------------------------------------------------------------
(* Derived state.                                                          *)

\* An error is reduced to its root cause: wrapping with "dependency %q: %w"
\* and "job %q: %w" keeps the cause, which is the job that failed by itself
\* or the cancellation.
Errors == Jobs \cup {Canceled, NoErr}

Limit == IF Parallelism > 0 THEN Parallelism ELSE Cardinality(Jobs)

\* A DependsOn table as sets.
AsSets(g) == [j \in Jobs |-> {g[j][i] : i \in DOMAIN g[j]}]

DepsOf(j) == AsSets(deps)[j]

\* errgroup.WithContext(ctx): cancelled with its parent, by the first error,
\* and when g.Wait returns.
GroupCtxDone == ctxDone \/ groupErr # NoErr \/ phase = "waited"

HasUnknownDep(g) == \E j \in Jobs : \E i \in DOMAIN g[j] : g[j][i] \notin Jobs

\* Some jobs can only be started one after the other in a circle.
HasCycle(g) == \E S \in SUBSET Jobs :
    /\ S # {}
    /\ \A j \in S : \E i \in DOMAIN g[j] : g[j][i] \in S

\* Labels at which goroutine j owns a token of the semaphore.
Holding == {"granted", "slot", "solving", "release"}
Holders == {j \in Jobs : pc[j] \in Holding}

\* Labels of a goroutine that has got as far as solveJob.
Started == {j \in Jobs : pc[j] \in {"slot", "solving"}}

Succeeded == {j \in done : nodeErr[j] = NoErr}

Labels == {"wait", "queued", "close", "return", "exited"} \cup Holding

-----------------------------------------------------------------------------
(* The semaphore's notifyWaiters: it hands tokens to the head of the queue   *)
(* until the tokens or the queue run out.                                    *)

\* How many tokens it hands out with c already out and w queued.
Handed(c, w) == IF c >= Limit THEN 0
                ELSE IF c + Len(w) > Limit THEN Limit - c
                ELSE Len(w)

\* With c tokens out and w queued, goroutine j moves to label l and the first n
\* of w get a token each.
Hand(j, l, c, w, n) ==
    /\ cur' = c + n
    /\ waiters' = SubSeq(w, n + 1, Len(w))
    /\ pc' = [k \in Jobs |-> IF k = j THEN l
                             ELSE IF \E i \in 1..n : w[i] = k THEN "granted"
                             ELSE pc[k]]

NotifyWaiters(j, l, c, w) == Hand(j, l, c, w, Handed(c, w))

\* Goroutine j's element is unlinked from the queue.
WithoutJob(w, j) ==
    LET p == CHOOSE i \in DOMAIN w : w[i] = j
    IN  [i \in 1..(Len(w) - 1) |-> IF i < p THEN w[i] ELSE w[i + 1]]

\* range over node.job.DependsOn starts at the first one.
FirstDep_Zero == 0      \* mutation: starts one too early
FirstDep == 1

-----------------------------------------------------------------------------
JobInit ==
    /\ phase = "build"
    /\ deps \in Graphs
    /\ pc = [j \in Jobs |-> "wait"]
    /\ idx = [j \in Jobs |-> FirstDep]
    /\ nodeErr = [j \in Jobs |-> NoErr]
    /\ done = {}
    /\ cur = 0
    /\ waiters = <<>>
    /\ groupErr = NoErr
    /\ ctxDone = FALSE

\* Mutation of BuildDAG: no cycle detection.
BuildDAG_NoCycles ==
    /\ phase = "build"
    /\ phase' = IF HasUnknownDep(deps) THEN "rejected" ELSE "jobs"
    /\ UNCHANGED <<deps, pc, idx, nodeErr, done, cur, waiters, groupErr, ctxDone>>

\* buildDAG and detectCycles: a bad table is refused before any goroutine.
BuildDAG ==
    /\ phase = "build"
    /\ phase' = IF HasUnknownDep(deps) \/ HasCycle(deps) THEN "rejected" ELSE "jobs"
    /\ UNCHANGED <<deps, pc, idx, nodeErr, done, cur, waiters, groupErr, ctxDone>>

Goto(j, l) == pc' = [pc EXCEPT ![j] = l]

\* Goroutine j sets node.err and goes on to its deferred calls at label l.
FailAt(j, e, l) == nodeErr' = [nodeErr EXCEPT ![j] = e] /\ Goto(j, l)

At(j, l) == phase = "jobs" /\ pc[j] = l

\* Every dependency has been waited for: the goroutine is at sem.Acquire.
AtAcquire(j) == At(j, "wait") /\ idx[j] > Len(deps[j])

\* Mutation of DepDone: nodes[dep].err is not looked at.
DepDone_IgnoresErr(j) ==
    /\ At(j, "wait") /\ idx[j] <= Len(deps[j])
    /\ deps[j][idx[j]] \in done
    /\ idx' = [idx EXCEPT ![j] = @ + 1]
    /\ UNCHANGED <<phase, deps, pc, nodeErr, done, cur, waiters, groupErr, ctxDone>>

\* select, case <-nodes[dep].done.
DepDone(j) ==
    /\ At(j, "wait") /\ idx[j] <= Len(deps[j])
    /\ LET dep == deps[j][idx[j]]
       IN  /\ dep \in done
           /\ \/ /\ nodeErr[dep] = NoErr
                 /\ idx' = [idx EXCEPT ![j] = @ + 1]
                 /\ UNCHANGED <<pc, nodeErr>>
              \/ /\ nodeErr[dep] # NoErr
                 /\ FailAt(j, nodeErr[dep], "close")
                 /\ UNCHANGED idx
    /\ UNCHANGED <<phase, deps, done, cur, waiters, groupErr, ctxDone>>

\* select, case <-ctx.Done(); it may win over a closed done channel.
DepCanceled(j) ==
    /\ At(j, "wait") /\ idx[j] <= Len(deps[j])
    /\ GroupCtxDone
    /\ FailAt(j, Canceled, "close")
    /\ UNCHANGED <<phase, deps, idx, done, cur, waiters, groupErr, ctxDone>>

-----------------------------------------------------------------------------
(* sem.Acquire(ctx, 1) and sem.Release(1).                                 *)

\* Mutation of AcquireRefused: Release is deferred before Acquire's error is
\* checked.
AcquireRefused_Releases(j) ==
    /\ AtAcquire(j)
    /\ GroupCtxDone
    /\ FailAt(j, Canceled, "release")
    /\ UNCHANGED <<phase, deps, idx, done, cur, waiters, groupErr, ctxDone>>

AcquireRefused(j) ==
    /\ AtAcquire(j)
    /\ GroupCtxDone
    /\ FailAt(j, Canceled, "close")
    /\ UNCHANGED <<phase, deps, idx, done, cur, waiters, groupErr, ctxDone>>

AcquireNow(j) ==
    /\ AtAcquire(j)
    /\ ~GroupCtxDone /\ cur < Limit /\ waiters = <<>>
    /\ cur' = cur + 1
    /\ Goto(j, "slot")
    /\ UNCHANGED <<phase, deps, idx, nodeErr, done, waiters, groupErr, ctxDone>>

AcquireQueue(j) ==
    /\ AtAcquire(j)
    /\ ~GroupCtxDone /\ ~(cur < Limit /\ waiters = <<>>)
    /\ waiters' = Append(waiters, j)
    /\ Goto(j, "queued")
    /\ UNCHANGED <<phase, deps, idx, nodeErr, done, cur, groupErr, ctxDone>>

\* Cancelled while still queued: leave the queue, and pass the turn on when
\* the front has gone and tokens are free.
QueuedCanceled(j) ==
    /\ At(j, "queued")
    /\ GroupCtxDone
    /\ nodeErr' = [nodeErr EXCEPT ![j] = Canceled]
    /\ LET rest == WithoutJob(waiters, j)
           passOn == Head(waiters) = j /\ cur < Limit
       IN  Hand(j, "close", cur, rest, IF passOn THEN Handed(cur, rest) ELSE 0)
    /\ UNCHANGED <<phase, deps, idx, done, groupErr, ctxDone>>

\* Mutation of GrantTaken: the context is not looked at again.
GrantTaken_Blind(j) ==
    /\ At(j, "granted")
    /\ Goto(j, "slot")
    /\ UNCHANGED <<phase, deps, idx, nodeErr, done, cur, waiters, groupErr, ctxDone>>

\* The token arrived.
GrantTaken(j) ==
    /\ At(j, "granted")
    /\ ~GroupCtxDone
    /\ Goto(j, "slot")
    /\ UNCHANGED <<phase, deps, idx, nodeErr, done, cur, waiters, groupErr, ctxDone>>

\* The token arrived, but so did the cancellation: give it back.
GrantReturned(j) ==
    /\ At(j, "granted")
    /\ GroupCtxDone
    /\ nodeErr' = [nodeErr EXCEPT ![j] = Canceled]
    /\ NotifyWaiters(j, "close", cur - 1, waiters)
    /\ UNCHANGED <<phase, deps, idx, done, groupErr, ctxDone>>

\* Mutation of Release: the next waiter is not woken.
Release_Silent(j) ==
    /\ At(j, "release")
    /\ cur' = cur - 1
    /\ Goto(j, "close")
    /\ UNCHANGED <<phase, deps, idx, nodeErr, done, waiters, groupErr, ctxDone>>

\* defer sem.Release(1), the first of the two deferred calls to run.
Release(j) ==
    /\ At(j, "release")
    /\ NotifyWaiters(j, "close", cur - 1, waiters)
    /\ UNCHANGED <<phase, deps, idx, nodeErr, done, groupErr, ctxDone>>

-----------------------------------------------------------------------------
(* solveJob.                                                               *)

\* A nil definition, or display.Attach failed: no Solve call is made.
SolveRejected(j) ==
    /\ At(j, "slot")
    /\ FailAt(j, j, "release")
    /\ UNCHANGED <<phase, deps, idx, done, cur, waiters, groupErr, ctxDone>>

SolveCalled(j) ==
    /\ At(j, "slot")
    /\ Goto(j, "solving")
    /\ UNCHANGED <<phase, deps, idx, nodeErr, done, cur, waiters, groupErr, ctxDone>>

SolveOK(j) ==
    /\ At(j, "solving")
    /\ Goto(j, "release")
    /\ UNCHANGED <<phase, deps, idx, nodeErr, done, cur, waiters, groupErr, ctxDone>>

SolveFailed(j) ==
    /\ At(j, "solving")
    /\ FailAt(j, j, "release")
    /\ UNCHANGED <<phase, deps, idx, done, cur, waiters, groupErr, ctxDone>>

\* Mutation of SolveCanceled: Solve is given the caller's context, not gctx.
SolveCanceled_CallerCtx(j) ==
    /\ At(j, "solving")
    /\ ctxDone
    /\ FailAt(j, Canceled, "release")
    /\ UNCHANGED <<phase, deps, idx, done, cur, waiters, groupErr, ctxDone>>

\* Solve gives up because its context is cancelled.
SolveCanceled(j) ==
    /\ At(j, "solving")
    /\ GroupCtxDone
    /\ FailAt(j, Canceled, "release")
    /\ UNCHANGED <<phase, deps, idx, done, cur, waiters, groupErr, ctxDone>>

-----------------------------------------------------------------------------
\* defer close(node.done), the last of the deferred calls to run.
CloseDone(j) ==
    /\ At(j, "close")
    /\ done' = done \cup {j}
    /\ Goto(j, "return")
    /\ UNCHANGED <<phase, deps, idx, nodeErr, cur, waiters, groupErr, ctxDone>>

\* The error the errgroup has kept once goroutine j has returned: the first.
FirstError_LastWins(j) ==           \* mutation: the last error is kept
    IF nodeErr[j] # NoErr THEN nodeErr[j] ELSE groupErr
FirstError_DropsCanceled(j) ==      \* mutation: cancelled goroutines return nil
    IF groupErr = NoErr /\ nodeErr[j] # Canceled THEN nodeErr[j] ELSE groupErr
FirstError(j) == IF groupErr = NoErr THEN nodeErr[j] ELSE groupErr

\* Mutation of Return: node.err is brought up to date after done is closed.
Return_LateErr(j) ==
    /\ At(j, "return")
    /\ nodeErr' = IF GroupCtxDone /\ nodeErr[j] = NoErr
                  THEN [nodeErr EXCEPT ![j] = Canceled] ELSE nodeErr
    /\ groupErr' = FirstError(j)
    /\ Goto(j, "exited")
    /\ UNCHANGED <<phase, deps, idx, done, cur, waiters, ctxDone>>

\* The errgroup's wrapper: the first error is kept and cancels the context.
Return(j) ==
    /\ At(j, "return")
    /\ groupErr' = FirstError(j)
    /\ Goto(j, "exited")
    /\ UNCHANGED <<phase, deps, idx, nodeErr, done, cur, waiters, ctxDone>>

\* g.Wait.
Wait ==
    /\ phase = "jobs"
    /\ \A j \in Jobs : pc[j] = "exited"
    /\ phase' = "waited"
    /\ UNCHANGED <<deps, pc, idx, nodeErr, done, cur, waiters, groupErr, ctxDone>>

\* The caller of Run cancels its context.
CancelCaller ==
    /\ phase \in {"build", "jobs"}
    /\ ~ctxDone
    /\ ctxDone' = TRUE
    /\ UNCHANGED <<phase, deps, pc, idx, nodeErr, done, cur, waiters, groupErr>>

-----------------------------------------------------------------------------
\* What goroutine j does by itself.
GoroutineStep(j) ==
    \/ DepDone(j) \/ DepCanceled(j)
    \/ AcquireRefused(j) \/ AcquireNow(j) \/ AcquireQueue(j)
    \/ QueuedCanceled(j) \/ GrantTaken(j) \/ GrantReturned(j) \/ Release(j)
    \/ SolveRejected(j) \/ SolveCalled(j)
    \/ CloseDone(j) \/ Return(j)

\* What BuildKit answers to goroutine j's Solve call.
SolveAnswer(j) == SolveOK(j) \/ SolveFailed(j) \/ SolveCanceled(j)

JobNext ==
    \/ BuildDAG \/ Wait \/ CancelCaller
    \/ \E j \in Jobs : GoroutineStep(j) \/ SolveAnswer(j)

\* The phase is over: nothing is left to run.
Finished == phase \in {"rejected", "waited"} /\ UNCHANGED jobVars

Next == JobNext \/ Finished

Spec == JobInit /\ [][Next]_jobVars

\* Go schedules every runnable goroutine.  A Solve call is only relied on to
\* return once its context is cancelled: a build may run for ever.
SchedulerFairness ==
    /\ WF_jobVars(BuildDAG) /\ WF_jobVars(Wait)
    /\ \A j \in Jobs : WF_jobVars(GoroutineStep(j)) /\ WF_jobVars(SolveCanceled(j))

FairSpec == Spec /\ SchedulerFairness

\* Additionally every Solve call returns.
SolvesReturn == \A j \in Jobs : WF_jobVars(SolveAnswer(j))

-----------------------------------------------------------------------------
(* Safety.                                                                 *)

\* Every variable stays in its domain.
TypeOK ==
    /\ phase \in {"build", "rejected", "jobs", "waited"}
    /\ deps \in Graphs
    /\ pc \in [Jobs -> Labels]
    /\ idx \in [Jobs -> Nat \ {0}]
    /\ nodeErr \in [Jobs -> Errors]
    /\ done \subseteq Jobs
    /\ cur \in Int
    /\ waiters \in Seq(Jobs)
    /\ groupErr \in Errors
    /\ ctxDone \in BOOLEAN

\* A job that has reached its Solve call, or has been reported solved, has
\* every dependency solved and published as such: the set of solved jobs is
\* closed under DependsOn, so this covers the transitive dependencies too
\* ("jobs with dependencies wait for all deps to complete", Run).
DepsSolvedFirst ==
    \A j \in Started \cup Succeeded : DepsOf(j) \subseteq Succeeded

\* The token count is the number of goroutines that own one, whatever mix of
\* grants, returned grants and releases led here, and never passes the limit:
\* at most Parallelism Solve calls at once, and no token is leaked.
SlotsAccounted ==
    /\ cur = Cardinality(Holders)
    /\ cur <= Limit

\* A goroutine queues only while every token is out, so no wake-up is lost when
\* a queued or just granted goroutine is cancelled; and the queue holds each
\* queued goroutine once.
NoLostWakeup ==
    /\ waiters # <<>> => cur = Limit
    /\ \A j \in Jobs :
         pc[j] = "queued" <=> \E i \in DOMAIN waiters : waiters[i] = j
    /\ \A i, k \in DOMAIN waiters : waiters[i] = waiters[k] => i = k

\* The cause carried by an error is real.  A job blamed for a failure did fail
\* by itself, however many dependents wrapped its error; and the run as a whole
\* answers "canceled" only when the caller cancelled, never because one job's
\* failure cancelled its siblings, whichever goroutine returned first.
CauseIsReal ==
    /\ \A j \in Jobs : nodeErr[j] \in Jobs => nodeErr[nodeErr[j]] = nodeErr[j]
    /\ groupErr \in Jobs => nodeErr[groupErr] = groupErr
    /\ groupErr = Canceled => ctxDone

\* g.Wait answers nil exactly when every job was solved: no failure is lost
\* among those that race to be the first.
VerdictFaithful ==
    phase = "waited" => (groupErr = NoErr <=> Succeeded = Jobs)

\* "The err field is written before done is closed, establishing a
\* happens-before for any goroutine that reads err after <-done": once done is
\* closed, neither it nor err changes again.
ErrFrozenOnceDone ==
    [][\A j \in done : j \in done' /\ nodeErr'[j] = nodeErr[j]]_jobVars

-----------------------------------------------------------------------------
(* Liveness.                                                               *)

\* Once the shared context is cancelled - by the caller or by the first
\* failure - every goroutine winds down and g.Wait returns, even if Solve calls
\* would otherwise run for ever.
CancelStops == (phase = "jobs" /\ GroupCtxDone) ~> phase = "waited"

\* When Solve calls return, so does the job phase: the dependency waits, the
\* semaphore queue and the closing of done channels never block each other.
Termination == SolvesReturn => <>(phase \in {"rejected", "waited"})

-----------------------------------------------------------------------------
(* The promise this phase keeps towards its callers, in DependencyOrder.   *)

\* What goroutine j, at label l with error e, is to them.
StatusOf(l, e, j) ==
    CASE l \in {"slot", "solving"}           -> "running"
      [] l \in {"wait", "queued", "granted"} -> "pending"
      [] OTHER -> IF e = NoErr THEN "ok" ELSE IF e = j THEN "failed" ELSE "skipped"

JobStatus == [j \in Jobs |-> StatusOf(pc[j], nodeErr[j], j)]

Promise == INSTANCE DependencyOrder WITH
    Needs    <- {AsSets(g) : g \in Graphs},
    needs    <- AsSets(deps),
    status   <- JobStatus,
    verdict  <- groupErr,
    canceled <- ctxDone,
    over     <- phase = "waited"

\* The goroutines, the semaphore and the errgroup implement the promise.
KeepsPromise == Promise!Spec

=============================================================================
