----------------------------- MODULE JobFilter -----------------------------
(***************************************************************************)
(* Running a part of a pipeline: --start-at and --stop-after               *)
(* (pkg/pipeline filter.go), as operators on a list of jobs.               *)
(*                                                                         *)
(* A target is what parseFilterTarget makes of a flag: the name of a job,  *)
(* or NoName, and the name of a step, or "".  A flag that is not given is  *)
(* the target NoTarget.                                                    *)
(***************************************************************************)
EXTENDS MatrixExpansion

CONSTANT NoName     \* the empty job name

NoTarget == [job |-> NoName, step |-> ""]

NamesOf(jobs) == {jobs[k].name : k \in DOMAIN jobs}

-----------------------------------------------------------------------------
(* Adjacency, by name.                                                     *)

Dependencies(jobs) ==
    [n \in NamesOf(jobs) |-> UNION {ToSet(jobs[k].deps) : k \in {i \in DOMAIN jobs : jobs[i].name = n}}]

Dependents(jobs) ==
    [n \in NamesOf(jobs) |-> {jobs[k].name : k \in {i \in DOMAIN jobs : n \in ToSet(jobs[i].deps)}}]

Successors(adj, S) == UNION {adj[n] : n \in S \cap DOMAIN adj}

\* Everything reachable from S, S included: one more layer each turn.
Reachable(S, adj) ==
    LET turns == Cardinality(DOMAIN adj)
        within[n \in 0..turns] ==
            IF n = 0 THEN S ELSE within[n - 1] \cup Successors(adj, within[n - 1])
    IN  within[turns]

-----------------------------------------------------------------------------
(* The execution window and what it needs.                                 *)

HasStep(job, step) == \E s \in DOMAIN job.steps : job.steps[s].name = step

TargetRejected(jobs, t) ==
    IF t.job = NoName THEN t.step # ""
    ELSE ~\E k \in DOMAIN jobs :
            jobs[k].name = t.job /\ (t.step # "" => HasStep(jobs[k], t.step))

\* Only one of the two flags counts.
ExecutionWindow_StartOnly(jobs, start, stop) ==
    IF start.job # NoName THEN Reachable({start.job}, Dependents(jobs))
    ELSE Reachable({stop.job}, Dependencies(jobs))

\* A flag without a job leaves its side open; two open sides select nothing.
ExecutionWindow(jobs, start, stop) ==
    LET forward == Reachable({start.job}, Dependents(jobs))
        backward == Reachable({stop.job}, Dependencies(jobs))
    IN  IF start.job = NoName /\ stop.job = NoName THEN {}
        ELSE IF start.job = NoName THEN backward
        ELSE IF stop.job = NoName THEN forward
        ELSE forward \cap backward

\* The dependencies of dependencies are forgotten.
FullSet_Direct(jobs, window) == window \cup Successors(Dependencies(jobs), window)

FullSet(jobs, window) == Reachable(window, Dependencies(jobs))

WithoutStepExports(steps, upTo) ==
    [s \in DOMAIN steps |-> IF s <= upTo THEN [steps[s] EXCEPT !.exports = {}] ELSE steps[s]]

\* A job that is only needed by the window delivers nothing.
Stripped(job) ==
    [job EXCEPT !.exports = {}, !.publish = FALSE, !.steps = WithoutStepExports(@, Len(@))]

\* The jobs of the full set, in their order.
Selected(jobs, window) ==
    LET full == FullSet(jobs, window)
    IN  FlattenSeq(Each(jobs, LAMBDA j : IF j.name \notin full THEN <<>>
                                         ELSE IF j.name \in window THEN <<j>> ELSE <<Stripped(j)>>))

-----------------------------------------------------------------------------
(* Trimming the steps of the jobs the targets name.                        *)

\* The index of the step the target names in this job, or 0.
TrimIndex(job, t) ==
    IF t.step # "" /\ job.name = t.job /\ HasStep(job, t.step)
    THEN CHOOSE s \in DOMAIN job.steps :
            /\ job.steps[s].name = t.step
            /\ \A i \in 1..(s - 1) : job.steps[i].name # t.step
    ELSE 0

EmptyStepWindow(job, start, stop) ==
    TrimIndex(job, stop) > 0 /\ TrimIndex(job, start) > TrimIndex(job, stop)

\* The step to start at loses its exports as well.
Trimmed_StartStep(job, start, stop) ==
    LET from == TrimIndex(job, start)
        to == TrimIndex(job, stop)
        kept == IF to > 0 THEN SubSeq(job.steps, 1, to) ELSE job.steps
    IN  [job EXCEPT !.steps = IF from > 0 THEN WithoutStepExports(kept, from) ELSE kept]

\* stop cuts the later steps off; start takes the earlier steps' exports.
Trimmed(job, start, stop) ==
    LET from == TrimIndex(job, start)
        to == TrimIndex(job, stop)
        kept == IF to > 0 THEN SubSeq(job.steps, 1, to) ELSE job.steps
    IN  [job EXCEPT !.steps = IF from > 0 THEN WithoutStepExports(kept, from - 1) ELSE kept]

\* The error of FilterJobs, or "none".
FilterError(jobs, start, stop) ==
    LET window == ExecutionWindow(jobs, start, stop)
    IN  IF start = NoTarget /\ stop = NoTarget THEN "none"
        ELSE IF TargetRejected(jobs, start) \/ TargetRejected(jobs, stop) THEN "target"
        ELSE IF window = {} THEN "empty filter result"
        ELSE IF \E k \in DOMAIN Selected(jobs, window) :
                    EmptyStepWindow(Selected(jobs, window)[k], start, stop)
             THEN "empty step window"
        ELSE "none"

FilterJobs(jobs, start, stop) ==
    IF start = NoTarget /\ stop = NoTarget THEN jobs
    ELSE Each(Selected(jobs, ExecutionWindow(jobs, start, stop)),
              LAMBDA j : Trimmed(j, start, stop))

=============================================================================
