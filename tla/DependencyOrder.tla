-------------------------- MODULE DependencyOrder --------------------------
(***************************************************************************)
(* What runner.Run promises about a set of jobs, without goroutines,       *)
(* channels or a semaphore: a job runs only after everything it needs has  *)
(* succeeded, at most Limit jobs run at a time, none is started once the   *)
(* run is known to fail, and the verdict names a job that really failed or *)
(* the caller's cancellation.                                              *)
(***************************************************************************)
EXTENDS Naturals, FiniteSets

CONSTANTS
    Jobs,       \* the jobs of one run
    Needs,      \* the dependency tables a run may be given
    Limit,      \* how many may run at once
    NoErr,      \* success
    Canceled    \* the caller's cancellation

VARIABLES
    needs,      \* needs[j]: the jobs j depends on
    status,     \* status[j]: what has become of j
    verdict,    \* the error that will be reported, or NoErr
    canceled,   \* the caller has cancelled
    over        \* the verdict has been reported

vars == <<needs, status, verdict, canceled, over>>

Failed == {j \in Jobs : status[j] = "failed"}
Succeeded == {j \in Jobs : status[j] = "ok"}
Running == {j \in Jobs : status[j] = "running"}

Init ==
    /\ needs \in Needs
    /\ status = [j \in Jobs |-> "pending"]
    /\ verdict = NoErr
    /\ canceled = FALSE
    /\ over = FALSE

Become(j, s) == status' = [status EXCEPT ![j] = s]

Start(j) ==
    /\ status[j] = "pending"
    /\ needs[j] \subseteq Succeeded
    /\ Cardinality(Running) < Limit
    /\ verdict = NoErr /\ ~canceled
    /\ Become(j, "running")
    /\ UNCHANGED <<needs, verdict, canceled, over>>

Succeed(j) ==
    /\ status[j] = "running"
    /\ Become(j, "ok")
    /\ UNCHANGED <<needs, verdict, canceled, over>>

Fail(j) ==
    /\ status[j] = "running"
    /\ Become(j, "failed")
    /\ UNCHANGED <<needs, verdict, canceled, over>>

\* Given up because another job failed or the caller cancelled.
Skip(j) ==
    /\ status[j] \in {"pending", "running"}
    /\ Failed # {} \/ canceled
    /\ Become(j, "skipped")
    /\ UNCHANGED <<needs, verdict, canceled, over>>

\* The first error to be reported is kept.
Decide(e) ==
    /\ verdict = NoErr
    /\ e \in Failed \/ (e = Canceled /\ canceled)
    /\ verdict' = e
    /\ UNCHANGED <<needs, status, canceled, over>>

Cancel ==
    /\ ~over
    /\ canceled' = TRUE
    /\ UNCHANGED <<needs, status, verdict, over>>

Report ==
    /\ ~over
    /\ \A j \in Jobs : status[j] \notin {"pending", "running"}
    /\ verdict = NoErr <=> Succeeded = Jobs
    /\ over' = TRUE
    /\ UNCHANGED <<needs, status, verdict, canceled>>

Next ==
    \/ Cancel \/ Report
    \/ \E j \in Jobs : Start(j) \/ Succeed(j) \/ Fail(j) \/ Skip(j)
    \/ \E e \in Jobs \cup {Canceled} : Decide(e)

Spec == Init /\ [][Next]_vars

=============================================================================
