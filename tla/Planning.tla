------------------------------ MODULE Planning ------------------------------
(***************************************************************************)
(* From the jobs of a parsed file to what runner.Run is given:             *)
(* finalizePipeline (pkg/parser parser.go), Pipeline.Validate with its     *)
(* topological sort (pkg/pipeline pipeline.go), validateAction and         *)
(* runAction (cmd/cicada main.go), and builder.Build (internal/builder).   *)
(* Expansion is MatrixExpansion, the filter JobFilter.                     *)
(*                                                                         *)
(* The topological sort is a depth-first search with a recursive function; *)
(* its calls are the frames of a stack.  LLB is reduced to which states a  *)
(* job is built from.  Environment variables are left out.                 *)
(***************************************************************************)
EXTENDS JobFilter

CONSTANTS
    Inputs,     \* what finalizePipeline is given: [jobs, matrix, image]
    Targets,    \* what --start-at and --stop-after may name
    BadValues,  \* dimension values a job name may not hold
    BadPaths,   \* export paths validateExports refuses
    RootPaths,  \* export paths that path.Clean turns into the root
    BadPlatforms    \* platforms, in pieces, that platforms.Parse refuses

ASSUME PlanningAssumption == NoTarget \in Targets

\* A finite sequence, of whatever it holds.
IsList(s) == s \in Seq(ToSet(s))

IsMatrix(m) == IsList(m) /\ \A i \in DOMAIN m : IsList(m[i].values)

\* A job as MatrixExpansion describes it.
IsStep(step) == DOMAIN step = {"name", "exports", "arts", "caches"} /\ IsList(step.arts)
IsJob(job) ==
    /\ DOMAIN job = {"name", "deps", "arts", "caches", "matrix", "image", "platform",
                     "exports", "publish", "steps"}
    /\ IsList(job.deps) /\ IsList(job.arts)
    /\ job.matrix = NoMatrix \/ IsMatrix(job.matrix)
    /\ IsList(job.steps) /\ \A s \in DOMAIN job.steps : IsStep(job.steps[s])
IsJobs(js) == IsList(js) /\ \A k \in DOMAIN js : IsJob(js[k])

CacheIDs(job) == job.caches \cup UNION {job.steps[s].caches : s \in DOMAIN job.steps}

\* MergeJobs has left one job of each name.
ASSUME InputsAssumption ==
    \A in \in Inputs :
        /\ IsJobs(in.jobs) /\ (in.matrix = NoMatrix \/ IsMatrix(in.matrix))
        /\ \A k, i \in DOMAIN in.jobs : in.jobs[k].name = in.jobs[i].name => k = i
        /\ \A k \in DOMAIN in.jobs : \A id \in CacheIDs(in.jobs[k]) : IsList(id)

VARIABLES
    input,      \* the pipeline and its defaults
    jobs,       \* p.Jobs
    topo,       \* p.TopoOrder; <<>> is nil
    phase,
    caller,     \* who calls Validate: "parse", "validate" or "build"
    mark,       \* topoSort: state of each index
    frames,     \* topoSort: the calls of visit, [job, next] with next the dependency to look at
    order,      \* topoSort: the order so far
    start, stop,    \* the targets of the run
    built,      \* result.JobNames, the jobs that have a state
    exports,    \* result.Exports: [job, scope, path], scope 0 for the job or a step's index
    images,     \* result.ImageExports, by job
    plan,       \* the runner's jobs: [name, deps]
    parsed,     \* the jobs parse returned (history)
    err

sortVars == <<mark, frames, order>>
buildVars == <<built, exports, images, plan>>
vars == <<input, jobs, topo, phase, caller, sortVars, start, stop, buildVars, parsed, err>>

-----------------------------------------------------------------------------
StepNames(steps) == {steps[s].name : s \in DOMAIN steps}

ArtifactsRejected(froms, deps) == ~(ToSet(froms) \subseteq ToSet(deps))

\* validateJob, whichever of its checks it is that fails.
JobRejected(js, k) ==
    LET job == js[k] IN
    \/ \E d \in DOMAIN job.name.items : job.name.items[d] \in BadValues
    \/ \E i \in 1..(k - 1) : js[i].name = job.name
    \/ ~job.image
    \/ job.steps = <<>>
    \/ Cardinality(StepNames(job.steps)) # Len(job.steps)
    \/ (job.exports \cup UNION {job.steps[s].exports : s \in DOMAIN job.steps}) \cap BadPaths # {}
    \/ ArtifactsRejected(job.arts, job.deps)
    \/ \E s \in DOMAIN job.steps : ArtifactsRejected(job.steps[s].arts, job.deps)

SelfDependency(js) == \E k \in DOMAIN js : js[k].name \in ToSet(js[k].deps)

\* The index of the job of this name; names are distinct when it is asked for.
IndexOf(name) == CHOOSE k \in DOMAIN jobs : jobs[k].name = name

ValidOrder(ord, n) == Len(ord) = n /\ ToSet(ord) = 1..n

Init ==
    /\ input \in Inputs
    /\ jobs = input.jobs /\ topo = <<>>
    /\ phase = "defaults" /\ caller = "parse"
    /\ mark = <<>> /\ frames = <<>> /\ order = <<>>
    /\ start = NoTarget /\ stop = NoTarget
    /\ built = <<>> /\ exports = {} /\ images = {} /\ plan = <<>>
    /\ parsed = <<>> /\ err = "none"

Fail(e) ==
    /\ phase' = "failed" /\ err' = e
    /\ UNCHANGED <<input, jobs, topo, caller, sortVars, start, stop, buildVars, parsed>>

\* The next phase, with these jobs.
Proceed(js, ph) ==
    /\ jobs' = js /\ phase' = ph
    /\ UNCHANGED <<input, topo, caller, sortVars, start, stop, buildVars, parsed, err>>

-----------------------------------------------------------------------------
(* finalizePipeline.                                                       *)

ApplyDefaults ==
    /\ phase = "defaults"
    /\ Proceed(Each(jobs, LAMBDA j : [j EXCEPT !.image = @ \/ input.image]), "expandPipeline")

ExpandPipeline ==
    /\ phase = "expandPipeline"
    /\ IF input.matrix = NoMatrix THEN Proceed(jobs, "expandJobs")
       ELSE IF MatrixRejected(input.matrix) \/ DimCollision(input.matrix, jobs) THEN Fail("matrix")
       ELSE Proceed(PipelineReplicas(input.matrix, jobs), "expandJobs")

ExpandJobs ==
    /\ phase = "expandJobs"
    /\ IF \E k \in DOMAIN jobs : jobs[k].matrix # NoMatrix /\ MatrixRejected(jobs[k].matrix)
       THEN Fail("matrix")
       ELSE Proceed(JobVariants(jobs), "check")

-----------------------------------------------------------------------------
(* Pipeline.Validate.                                                      *)

Check ==
    /\ phase = "check"
    /\ IF jobs = <<>> THEN Fail("empty pipeline")
       ELSE IF \E k \in DOMAIN jobs : JobRejected(jobs, k) THEN Fail("job")
       ELSE IF SelfDependency(jobs) THEN Fail("self dependency")
       ELSE /\ phase' = "sort"
            /\ mark' = [k \in DOMAIN jobs |-> "unvisited"]
            /\ frames' = <<>> /\ order' = <<>>
            /\ UNCHANGED <<input, jobs, topo, caller, start, stop, buildVars, parsed, err>>

Sorting == phase = "sort"
Frame == Last(frames)

Sorted(m, fs, ord) ==
    /\ mark' = m /\ frames' = fs /\ order' = ord
    /\ UNCHANGED <<input, jobs, topo, phase, caller, start, stop, buildVars, parsed, err>>

Entered(m, k) == [m EXCEPT ![k] = "visiting"]
Call(k) == [job |-> k, next |-> 1]

\* The loop over the jobs: the next one that has not been visited.
VisitRoot ==
    /\ Sorting /\ frames = <<>>
    /\ \E k \in DOMAIN jobs :
          /\ mark[k] = "unvisited"
          /\ \A i \in 1..(k - 1) : mark[i] = "visited"
          /\ Sorted(Entered(mark, k), <<Call(k)>>, order)

\* The next dependency of the innermost call.
VisitDep ==
    /\ Sorting /\ frames # <<>> /\ Frame.next <= Len(jobs[Frame.job].deps)
    /\ LET dep == jobs[Frame.job].deps[Frame.next]
           k == IndexOf(dep)
           advanced == Append(Front(frames), [Frame EXCEPT !.next = @ + 1])
       IN  IF dep \notin NamesOf(jobs) THEN Fail("unknown dependency")
           ELSE IF mark[k] = "visiting" THEN Fail("cycle")
           ELSE IF mark[k] = "visited" THEN Sorted(mark, advanced, order)
           ELSE Sorted(Entered(mark, k), Append(advanced, Call(k)), order)

\* A job enters the order when its dependencies have.
Leave ==
    /\ Sorting /\ frames # <<>> /\ Frame.next > Len(jobs[Frame.job].deps)
    /\ Sorted([mark EXCEPT ![Frame.job] = "visited"], Front(frames), Append(order, Frame.job))

\* Validate returns to its caller, the order cached.
Validated ==
    /\ Sorting /\ frames = <<>> /\ \A k \in DOMAIN jobs : mark[k] = "visited"
    /\ topo' = order
    /\ phase' = CASE caller = "parse" -> "parsed" [] caller = "validate" -> "valid"
                  [] caller = "build" -> "llb"
    /\ parsed' = IF caller = "parse" THEN jobs ELSE parsed
    /\ UNCHANGED <<input, jobs, caller, sortVars, start, stop, buildVars, err>>

-----------------------------------------------------------------------------
(* The commands.                                                           *)

CallValidate(who) ==
    /\ caller' = who /\ phase' = "check"
    /\ UNCHANGED <<input, jobs, topo, sortVars, start, stop, buildVars, parsed, err>>

ValidateAction == phase = "parsed" /\ CallValidate("validate")

RunAction(from, to) ==
    /\ phase = "parsed"
    /\ IF FilterError(jobs, from, to) # "none" THEN Fail(FilterError(jobs, from, to))
       ELSE /\ start' = from /\ stop' = to
            /\ jobs' = FilterJobs(jobs, from, to)
            /\ topo' = <<>>
            /\ phase' = "build"
            /\ UNCHANGED <<input, caller, sortVars, buildVars, parsed, err>>

-----------------------------------------------------------------------------
(* builder.Build and buildRunnerJobs.                                      *)

Build ==
    /\ phase = "build"
    /\ IF ValidOrder(topo, Len(jobs)) THEN Proceed(jobs, "llb") ELSE CallValidate("build")

Scopes(job) == {[scope |-> 0, path |-> p] : p \in job.exports}
    \cup UNION {{[scope |-> s, path |-> p] : p \in job.steps[s].exports} : s \in DOMAIN job.steps}

\* The states a job is made from: its artifacts', its dependencies'.
Sources(job) ==
    ToSet(job.arts) \cup ToSet(job.deps) \cup UNION {ToSet(job.steps[s].arts) : s \in DOMAIN job.steps}

\* The next job.  Marshal and the resolver it asks for the image's
\* configuration are BuildKit's: either may fail whatever the job.
BuildJob ==
    /\ phase = "llb" /\ Len(built) < Len(topo)
    /\ LET job == jobs[topo[Len(built) + 1]] IN
       IF job.platform # <<>> /\ job.platform \in BadPlatforms THEN Fail("platform")
       ELSE IF ~(Sources(job) \subseteq ToSet(built)) THEN Fail("missing dependency state")
       ELSE \/ Fail("marshaling")
            \/ IF \E e \in Scopes(job) : e.path \in RootPaths THEN Fail("export path")
               ELSE /\ built' = Append(built, job.name)
                    /\ exports' = exports \cup
                            {[job |-> job.name, scope |-> e.scope, path |-> e.path] : e \in Scopes(job)}
                    /\ images' = images \cup (IF job.publish THEN {job.name} ELSE {})
                    /\ UNCHANGED <<input, jobs, topo, phase, caller, sortVars, start, stop,
                                   plan, parsed, err>>

BuildRunnerJobs ==
    /\ phase = "llb" /\ Len(built) = Len(topo)
    /\ IF ~(ToSet(built) \subseteq NamesOf(jobs)) THEN Fail("unknown builder job")
       ELSE /\ plan' = Each(built, LAMBDA n : [name |-> n, deps |-> jobs[IndexOf(n)].deps])
            /\ phase' = "ready"
            /\ UNCHANGED <<input, jobs, topo, caller, sortVars, start, stop,
                           built, exports, images, parsed, err>>

Next ==
    \/ ApplyDefaults \/ ExpandPipeline \/ ExpandJobs
    \/ Check \/ VisitRoot \/ VisitDep \/ Leave \/ Validated
    \/ ValidateAction \/ \E from, to \in Targets : RunAction(from, to)
    \/ Build \/ BuildJob \/ BuildRunnerJobs

Spec == Init /\ [][Next]_vars

-----------------------------------------------------------------------------
(* What the input asks for, said without the code's names and loops.       *)

\* Every way to choose a value for each dimension.
Settings(m) ==
    IF m = NoMatrix THEN {[n \in {} |-> NoMatrix]}
    ELSE {f \in [DimNames(m) -> UNION {ToSet(m[i].values) : i \in DOMAIN m}] :
            \A i \in DOMAIN m : f[m[i].name] \in ToSet(m[i].values)}

\* A job as written, with a choice for the pipeline and one for the job.
Instances ==
    UNION {{[src |-> k, all |-> p, own |-> q] :
                p \in Settings(input.matrix), q \in Settings(input.jobs[k].matrix)} :
           k \in DOMAIN input.jobs}

Bracketed(written, choice) ==
    IF DOMAIN choice = {} THEN written
    ELSE [base |-> written.base, items |-> Over(written.items, choice), rest |-> {}]

NameOf(i) == Bracketed(input.jobs[i.src].name, Over(i.all, i.own))

\* The instances i has to wait for: of a job its job depends on, all that made
\* the same choice for the pipeline; of a name that is no job's, the variant
\* spelled that way.
Needed(i) ==
    {n \in Instances : \E d \in ToSet(input.jobs[i.src].deps) :
        IF d \in NamesOf(input.jobs) THEN n.all = i.all /\ input.jobs[n.src].name = d
        ELSE NameOf(n) = Bracketed(d, i.all)}

\* No two names of the file become one in the replicas of the pipeline.
Written == NamesOf(input.jobs) \cup UNION {ToSet(input.jobs[k].deps) : k \in DOMAIN input.jobs}

ReplicasApart ==
    \A m, n \in Written : \A p, q \in Settings(input.matrix) :
        Bracketed(m, p) = Bracketed(n, q) => m = n

Parsed(name) == parsed[CHOOSE k \in DOMAIN parsed : parsed[k].name = name]

\* name leads to other over dependencies, or is it: every set of jobs that
\* holds name and is closed under dependencies holds other.
Needs(name, other) ==
    \A S \in SUBSET NamesOf(parsed) :
        (name \in S /\ \A n \in S : ToSet(Parsed(n).deps) \subseteq S) => other \in S

InWindow(name) ==
    /\ start.job # NoName => Needs(name, start.job)
    /\ stop.job # NoName => Needs(stop.job, name)

\* The step a target names in this job, if it names one.
AtStep(name, t) ==
    {s \in DOMAIN Parsed(name).steps :
        t.job = name /\ t.step # "" /\ Parsed(name).steps[s].name = t.step}

InStepWindow(name, s) ==
    (\A i \in AtStep(name, start) : i <= s) /\ (\A i \in AtStep(name, stop) : s <= i)

-----------------------------------------------------------------------------
(* Properties.                                                             *)

\* Once a file has been parsed, its pipeline can be run: whatever part of it
\* is selected, no check of Validate fails again, Build never looks for the
\* state of a job it has not built (errMissingDepState), and the runner is
\* handed every job after all it depends on.  Three errors of Build remain:
\* neither the parser nor Validate looks at a platform (builder.go:207-211) or
\* cleans an export path (builder.go:408), and BuildKit may fail to marshal a
\* job, for its image's reference or configuration.
AcceptedMeansRunnable ==
    /\ parsed # <<>> =>
        err \in {"none", "target", "empty filter result", "empty step window",
                 "platform", "marshaling", "export path"}
    /\ phase = "ready" =>
        /\ Len(plan) = Len(jobs) /\ {plan[k].name : k \in DOMAIN plan} = NamesOf(jobs)
        /\ \A k \in DOMAIN plan : \A d \in DOMAIN plan[k].deps :
                \E i \in 1..(k - 1) : plan[i].name = plan[k].deps[d]

\* After both phases of expansion there is one job for every choice of the
\* pipeline's and of its own matrix, and it waits for exactly those variants
\* of its dependencies that belong to the same replica of the pipeline.
VariantDeps ==
    parsed # <<>> =>
        /\ Len(parsed) = Cardinality(Instances)
        /\ NamesOf(parsed) = {NameOf(i) : i \in Instances}
        /\ ReplicasApart => \A i \in Instances :
                ToSet(Parsed(NameOf(i)).deps) = {NameOf(n) : n \in Needed(i)}

\* Two variants of one job share no cache volume, whichever of the two
\* matrices tells them apart (matrixCacheID).
CachesApart ==
    parsed # <<>> =>
        \A i, n \in Instances :
            i.src = n.src /\ i # n =>
                CacheIDs(Parsed(NameOf(i))) \cap CacheIDs(Parsed(NameOf(n))) = {}

\* A run limited by --start-at and --stop-after delivers what the jobs from
\* the one to the other deliver, and nothing of the jobs that are run only
\* because those need them.  In a job of which a target names a step, the steps
\* before --start-at's and after --stop-after's deliver nothing either; the
\* job's own exports and its image are delivered all the same
\* (docs/schema.md:345-356, FilterJobs and applyStepTrimming).
WindowDelivers ==
    phase = "ready" =>
        /\ exports = UNION {{[job |-> n, scope |-> e.scope, path |-> e.path] :
                                e \in {x \in Scopes(Parsed(n)) : x.scope = 0 \/ InStepWindow(n, x.scope)}} :
                            n \in {m \in NamesOf(parsed) : InWindow(m)}}
        /\ images = {n \in NamesOf(parsed) : InWindow(n) /\ Parsed(n).publish}

\* A job that --stop-after job:step cuts short is the last of its chain: no
\* job of the run is built on the half that is left of it.
NoOneUsesACutJob ==
    phase = "build" =>
        \A k, i \in DOMAIN jobs :
            Len(jobs[k].steps) < Len(Parsed(jobs[k].name).steps) => jobs[k].name \notin ToSet(jobs[i].deps)

\* validateExports: "export paths are non-empty, absolute, not root"
\* (pipeline.go): no accepted pipeline fails for an export of the root.
RootExportRefusedFirst == err # "export path"

=============================================================================
