------------------------------ MODULE Includes ------------------------------
(***************************************************************************)
(* Parsing a pipeline file and the files it includes (pkg/parser           *)
(* include.go, parser.go), merging their jobs and expanding the aliases of *)
(* the includes (pkg/pipeline merge.go).  The recursion of the parser is a *)
(* stack of frames, one for each file being read; an error unwinds it and  *)
(* every frame's deferred pop runs.                                        *)
(*                                                                         *)
(* A file is the list of its nodes, a job its name, the names it depends   *)
(* on and one field a parameter may be substituted into.  A fragment has   *)
(* at most one parameter.  Settings that do not touch the merge (matrix,   *)
(* env, defaults of the root; ignored in an included file) are left out.   *)
(***************************************************************************)
EXTENDS Naturals, FiniteSets, Sequences, SequencesExt

CONSTANTS
    Files,      \* the paths that may be included
    Root,       \* the file given to ParseFile
    Worlds,     \* what the files hold: [kind, name, param, nodes] for each
    MaxDepth,   \* _maxIncludeDepth
    NoParam     \* an include without a parameter

ASSUME IncludesAssumption ==
    /\ IsFiniteSet(Files) /\ Root \in Files /\ MaxDepth \in Nat

\* A file holds a sequence of nodes; what is read as the root is a pipeline,
\* which has no parameter.
ASSUME WorldsAssumption ==
    \A w \in Worlds :
        /\ w[Root].param = "none"
        /\ \A f \in Files :
              /\ w[f].nodes \in Seq(Range(w[f].nodes))
              /\ \A n \in Range(w[f].nodes) :
                    /\ n.kind \in {"job", "include", "bad"}
                    /\ n.kind = "job" => DOMAIN n.job = {"name", "deps", "val"}

VARIABLES
    disk,       \* the world
    stack,      \* the open files, the innermost last
    ancestors,  \* state.ancestors; ancestorSet is its range
    cache,      \* state.cache
    aliases,    \* state.aliases
    jobs,       \* the pipeline's jobs, once merged
    phase,      \* "parse", "merged", "done", or "failed" while and after unwinding
    err,
    included    \* the jobs each alias was registered for (history)

stateVars == <<ancestors, cache, aliases, included>>
vars == <<disk, stack, stateVars, jobs, phase, err>>

-----------------------------------------------------------------------------
(* MergeJobs, TerminalJobs, ExpandAliases.                                 *)

Names(js) == {js[k].name : k \in DOMAIN js}

\* The jobs of the groups in document order, each with its group's strategy.
Offered(groups) ==
    FlattenSeq([g \in DOMAIN groups |->
        [k \in DOMAIN groups[g].jobs |-> [job |-> groups[g].jobs[k], skip |-> groups[g].skip]]])

FirstOfItsName(offers, k) == \A i \in 1..(k - 1) : offers[i].job.name # offers[k].job.name

MergeConflict(offers) == \E k \in DOMAIN offers : ~FirstOfItsName(offers, k) /\ ~offers[k].skip

\* The first job of each name stays.
MergeJobs(offers) ==
    FlattenSeq([i \in DOMAIN offers |->
        IF FirstOfItsName(offers, i) THEN <<offers[i].job>> ELSE <<>>])

\* The jobs that depend on nothing, in place of those nothing depends on.
TerminalJobs_First(js) == {js[i].name : i \in {j \in DOMAIN js : js[j].deps = {}}}

TerminalJobs(js) == Names(js) \ UNION {js[k].deps : k \in DOMAIN js}

ExpandDeps(deps, as) ==
    UNION {IF d \in DOMAIN as /\ as[d] # {} THEN as[d] ELSE {d} : d \in deps}

AliasCollision(js, as) == \E a \in DOMAIN as \cap Names(js) : as[a] # {a}

-----------------------------------------------------------------------------
(* Parameters.                                                             *)

Required == "required"

ParamsRejected(param, given) ==
    \/ param = "none" /\ given # NoParam
    \/ param = Required /\ given = NoParam

\* The default of an optional parameter is the value "default".
ResolveParam(given) == IF given = NoParam THEN "default" ELSE given

SubstituteParams(js, param, given) ==
    IF param = "none" THEN js
    ELSE [k \in DOMAIN js |->
            [js[k] EXCEPT !.val = IF @ = "${param}" THEN ResolveParam(given) ELSE @]]

-----------------------------------------------------------------------------
Top == stack[Len(stack)]
File == disk[Top.file]
AtEnd == Top.pos > Len(File.nodes)
Node == File.nodes[Top.pos]

Parsing == phase = "parse"

\* What groupCollector holds, its inline jobs flushed.
Flushed(frame) ==
    IF frame.inline = <<>> THEN frame.groups
    ELSE Append(frame.groups, [jobs |-> frame.inline, skip |-> FALSE])

Frame(file, given, as) ==
    [file |-> file, given |-> given, as |-> as, pos |-> 1, groups |-> <<>>, inline |-> <<>>]

\* The frame after its node was an include of js.
WithInclude(frame, js, skip) ==
    [frame EXCEPT !.pos = @ + 1, !.inline = <<>>,
                  !.groups = Append(Flushed(frame), [jobs |-> js, skip |-> skip])]

Replaced(frames, frame) == [frames EXCEPT ![Len(frames)] = frame]

\* The parameter is not part of the key.
Key_PathOnly(file, given) == <<file, NoParam>>

Key(file, given) == <<file, given>>

Fail(e) ==
    /\ phase' = "failed" /\ err' = e
    /\ UNCHANGED <<disk, stack, stateVars, jobs>>

\* The alias of an include that resolved to f; registerAlias refuses a second.
AliasOf(as, f) == IF as = "" THEN f.name ELSE as

RegisterAlias(alias, js) ==
    /\ aliases' = [a \in DOMAIN aliases \cup {alias} |->
                      IF a = alias THEN TerminalJobs(js) ELSE aliases[a]]
    /\ included' = [a \in DOMAIN included \cup {alias} |->
                      IF a = alias THEN js ELSE included[a]]

Init ==
    /\ disk \in Worlds
    /\ stack = <<Frame(Root, NoParam, "")>>
    /\ ancestors = <<>>
    /\ cache = <<>> /\ aliases = <<>> /\ included = <<>>
    /\ jobs = <<>> /\ phase = "parse" /\ err = "none"

-----------------------------------------------------------------------------
(* One child node of the innermost file.                                   *)

ParseJob ==
    /\ Parsing /\ ~AtEnd /\ Node.kind = "job"
    /\ stack' = Replaced(stack, [Top EXCEPT !.pos = @ + 1, !.inline = Append(@, Node.job)])
    /\ UNCHANGED <<disk, stateVars, jobs, phase, err>>

\* An unknown node, or a field that is missing, repeated or of another type.
ParseRejects ==
    /\ Parsing /\ ~AtEnd /\ Node.kind = "bad"
    /\ Fail("rejected")

Including == Parsing /\ ~AtEnd /\ Node.kind = "include"

\* Every file seen so far, in place of those being read.
CycleAt_Seen(path) == 
    \/ \E i \in DOMAIN ancestors : ancestors[i] = path
    \/ \E key \in DOMAIN cache : key[1] = path

CycleAt(path) == \E k \in DOMAIN ancestors : ancestors[k] = path
TooDeep == Len(ancestors) >= MaxDepth

\* push
IncludeRefused ==
    /\ Including
    /\ \/ Node.source \notin Files /\ Fail("missing")
       \/ Node.source \in Files /\ CycleAt(Node.source) /\ Fail("circular")
       \/ Node.source \in Files /\ ~CycleAt(Node.source) /\ TooDeep /\ Fail("depth")

Pushed == Including /\ Node.source \in Files /\ ~CycleAt(Node.source) /\ ~TooDeep

\* The pop is missing on the early return.
IncludeCached_NoPop ==
    /\ Pushed /\ Key(Node.source, Node.given) \in DOMAIN cache
    /\ LET frag == cache[Key(Node.source, Node.given)]
           alias == AliasOf(Node.as, frag)
       IN  IF alias \in DOMAIN aliases THEN Fail("duplicateAlias")
           ELSE /\ RegisterAlias(alias, frag.jobs)
                /\ stack' = Replaced(stack, WithInclude(Top, frag.jobs, Node.skip))
                /\ ancestors' = Append(ancestors, Node.source)
                /\ UNCHANGED <<disk, cache, jobs, phase, err>>

\* A diamond: the file was parsed before with the same parameter.  push and
\* the deferred pop cancel out.
IncludeCached ==
    /\ Pushed /\ Key(Node.source, Node.given) \in DOMAIN cache
    /\ LET frag == cache[Key(Node.source, Node.given)]
           alias == AliasOf(Node.as, frag)
       IN  IF alias \in DOMAIN aliases THEN Fail("duplicateAlias")
           ELSE /\ RegisterAlias(alias, frag.jobs)
                /\ stack' = Replaced(stack, WithInclude(Top, frag.jobs, Node.skip))
                /\ UNCHANGED <<disk, ancestors, cache, jobs, phase, err>>

\* parseIncludedFile: no KDL, no node, fragment and pipeline nodes together, or
\* parameters for a pipeline file.
Unreadable(f, given) == f.kind = "broken" \/ (f.kind = "pipeline" /\ given # NoParam)

IncludeOpens ==
    /\ Pushed /\ Key(Node.source, Node.given) \notin DOMAIN cache
    /\ ancestors' = Append(ancestors, Node.source)
    /\ stack' = Append(stack, Frame(Node.source, Node.given, Node.as))
    /\ IF Unreadable(disk[Node.source], Node.given)
       THEN phase' = "failed" /\ err' = "rejected"
       ELSE UNCHANGED <<phase, err>>
    /\ UNCHANGED <<disk, cache, aliases, included, jobs>>

-----------------------------------------------------------------------------
(* The end of a file.                                                      *)

Closing == Parsing /\ AtEnd /\ Len(stack) > 1

CloseRejects ==
    /\ Closing
    /\ \/ MergeConflict(Offered(Flushed(Top))) /\ Fail("conflict")
       \/ ~MergeConflict(Offered(Flushed(Top)))
              /\ ParamsRejected(File.param, Top.given) /\ Fail("params")

CloseInclude ==
    /\ Closing
    /\ ~MergeConflict(Offered(Flushed(Top)))
    /\ ~ParamsRejected(File.param, Top.given)
    /\ LET js == SubstituteParams(MergeJobs(Offered(Flushed(Top))), File.param, Top.given)
           frag == [name |-> File.name, jobs |-> js]
           alias == AliasOf(Top.as, frag)
           below == Front(stack)
           parent == Last(below)
           directive == disk[parent.file].nodes[parent.pos]
       IN  /\ cache' = [k \in DOMAIN cache \cup {Key(Top.file, Top.given)} |->
                            IF k = Key(Top.file, Top.given) THEN frag ELSE cache[k]]
           /\ IF alias \in DOMAIN aliases
              THEN /\ phase' = "failed" /\ err' = "duplicateAlias"
                   /\ UNCHANGED <<stack, ancestors, aliases, included>>
              ELSE /\ RegisterAlias(alias, js)
                   /\ ancestors' = Front(ancestors)
                   /\ stack' = Replaced(below, WithInclude(parent, js, directive.skip))
                   /\ UNCHANGED <<phase, err>>
           /\ UNCHANGED <<disk, jobs>>

\* The error returns through one resolveInclude, whose deferred pop runs.
Unwind ==
    /\ phase = "failed" /\ Len(stack) > 1
    /\ stack' = Front(stack) /\ ancestors' = Front(ancestors)
    /\ UNCHANGED <<disk, cache, aliases, included, jobs, phase, err>>

FinishRoot ==
    /\ Parsing /\ AtEnd /\ Len(stack) = 1
    /\ LET offers == Offered(Flushed(Top))
       IN  IF MergeConflict(offers) THEN Fail("conflict")
           ELSE /\ jobs' = MergeJobs(offers) /\ phase' = "merged"
                /\ UNCHANGED <<disk, stack, stateVars, err>>

\* The first step of finalizePipeline.
ExpandAliases ==
    /\ phase = "merged"
    /\ IF AliasCollision(jobs, aliases) THEN Fail("aliasCollision")
       ELSE /\ jobs' = [k \in DOMAIN jobs |->
                            [jobs[k] EXCEPT !.deps = ExpandDeps(@, aliases)]]
            /\ phase' = "done"
            /\ UNCHANGED <<disk, stack, stateVars, err>>

Over == phase = "done" \/ (phase = "failed" /\ Len(stack) = 1)

Next ==
    \/ ParseJob \/ ParseRejects
    \/ IncludeRefused \/ IncludeCached \/ IncludeOpens
    \/ CloseRejects \/ CloseInclude \/ Unwind
    \/ FinishRoot \/ ExpandAliases
Spec == Init /\ [][Next]_vars

-----------------------------------------------------------------------------
(* What the files say by themselves, without a parser: the include graph,  *)
(* and the jobs a file stands for when nothing is cached.                  *)

Includes(f) == {disk[f].nodes[k].source : k \in {i \in DOMAIN disk[f].nodes :
                    disk[f].nodes[i].kind = "include"}} \cap Files

\* The files at the end of an include path of length n from f.
Walk(f, n) ==
    LET files[k \in 0..n] == IF k = 0 THEN {f} ELSE UNION {Includes(g) : g \in files[k - 1]}
    IN  files[n]

Reachable(f) == UNION {Walk(f, n) : n \in 1..Cardinality(Files)}

CyclicFrom(f) == \E g \in {f} \cup Reachable(f) : g \in Reachable(g)

\* The group of one node, when an include gives what below says.
GroupOf(n, below) ==
    IF n.kind = "job" THEN [jobs |-> <<n.job>>, skip |-> FALSE]
    ELSE [jobs |-> below[<<n.source, n.given>>], skip |-> n.skip]

ReadFrom(below, f, given) ==
    LET nodes == disk[f].nodes
    IN  SubstituteParams(MergeJobs(Offered([k \in DOMAIN nodes |-> GroupOf(nodes[k], below)])),
                         disk[f].param, given)

\* What the files give as parameters.
Givens ==
    {NoParam} \cup UNION {{n.given : n \in {m \in Range(disk[f].nodes) : m.kind = "include"}} :
                              f \in Files}

\* Every include reads its file; more than Cardinality(Files) deep there is none
\* where nothing includes itself.
Reference(path, given) ==
    LET read[depth \in 0..Cardinality(Files)] ==
            [key \in Files \X Givens |->
                IF depth = 0 THEN <<>> ELSE ReadFrom(read[depth - 1], key[1], key[2])]
    IN  read[Cardinality(Files)][<<path, given>>]

\* The jobs each name depends on.
DependsOn(js) ==
    [n \in Names(js) |->
        (UNION {js[k].deps : k \in {i \in DOMAIN js : js[i].name = n}}) \cap Names(js)]

\* The names of S and what can be reached from them: whatever is in every set
\* that holds S and is closed under deps.
Reached(deps, S) ==
    {n \in DOMAIN deps : \A L \in SUBSET DOMAIN deps :
        S \cap DOMAIN deps \subseteq L /\ (\A m \in L : deps[m] \subseteq L) => n \in L}

-----------------------------------------------------------------------------
\* The ancestry is that of the files open at this moment, each once and never
\* more than the limit: every push meets its pop, on the early returns, for a
\* cached file and while an error unwinds (include.go push, pop, resolveInclude).
AncestryTight ==
    /\ ancestors = [k \in 1..(Len(stack) - 1) |-> stack[k + 1].file]
    /\ IsInjective(ancestors)
    /\ Len(ancestors) <= MaxDepth

\* A file that includes itself by any path is refused, at any depth and beside
\* any diamonds, and nothing else is: a file met twice on two paths is no cycle,
\* and the depth limit only stops a path that is too long.
CycleVerdict ==
    /\ err = "circular" => CyclicFrom(Root)
    /\ phase \in {"merged", "done"} => ~CyclicFrom(Root)
    /\ err = "depth" => Walk(Root, MaxDepth + 1) # {}

\* The cache changes nothing: what it holds for a file and a parameter, and
\* what the root's jobs are in the end, is what reading every file anew for
\* every include gives (include.go cacheKey, resolveInclude; merge.go MergeJobs).
CacheTransparent ==
    /\ \A k \in DOMAIN cache : cache[k].jobs = Reference(k[1], k[2])
    /\ phase = "merged" => jobs = Reference(Root, NoParam)

\* A job that depends on the alias of an include waits for every job of it that
\* is in the pipeline: from the alias's targets each of them can be reached,
\* through nested includes and their aliases too (docs/schema.md: "resolves to
\* the terminal jobs of the included fragment").  It is claimed of pipelines
\* without dependency cycles, whose include had no job replaced by another.
AliasCovers ==
    phase = "done" =>
        LET deps == DependsOn(jobs)
            Kept(j) == \E k \in DOMAIN jobs :
                          jobs[k].name = j.name /\ jobs[k].deps = ExpandDeps(j.deps, aliases)
            acyclic == \A n \in Names(jobs) : n \notin Reached(deps, deps[n])
        IN  acyclic => \A a \in DOMAIN aliases :
                (\A i \in DOMAIN included[a] : Kept(included[a][i]))
                    => Names(included[a]) \subseteq Reached(deps, aliases[a])
=============================================================================
