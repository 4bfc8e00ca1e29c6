-------------------------- MODULE MatrixExpansion --------------------------
(***************************************************************************)
(* Expanding the matrices of a pipeline (pkg/pipeline expand.go and        *)
(* Matrix.Combinations), as operators on a list of jobs.                   *)
(*                                                                         *)
(* A job name is what the code reads from its text: the part before the    *)
(* bracket, the key=value items of the bracket, and whatever else the      *)
(* bracket holds.  A matrix is the list of its dimensions, each a name and *)
(* the list of its values.  A job is a record                              *)
(*    name, deps      its name and DependsOn                               *)
(*    arts            the From of its artifacts                            *)
(*    caches          the ids of its caches                                *)
(*    matrix          its matrix, or NoMatrix                              *)
(*    image           whether an image is known for it                     *)
(*    platform        its platform, in pieces; <<>> when it has none        *)
(*    exports         the paths it exports                                 *)
(*    publish         whether its image is published                       *)
(*    steps           its steps: name, exports, arts, caches               *)
(* A piece of a platform is [var, text]: text, or the variable             *)
(* ${matrix.<text>}.  Substituting matrix variables into the fields of a   *)
(* job beside its platform is left out.                                    *)
(***************************************************************************)
EXTENDS Naturals, FiniteSets, Sequences, SequencesExt

CONSTANTS
    NoMatrix,           \* a nil *Matrix
    MaxCombinations,    \* _maxMatrixCombinations
    BadDims             \* dimension names the pattern for them refuses

-----------------------------------------------------------------------------
(* Matrices.                                                               *)

\* maps.Copy(f, g): the entries of g win.
Over(f, g) == [d \in DOMAIN f \cup DOMAIN g |-> IF d \in DOMAIN g THEN g[d] ELSE f[d]]

DimNames(m) == {m[i].name : i \in DOMAIN m}

\* The number of combinations of the first k dimensions.
Combined(m, k) == FoldLeft(LAMBDA n, d : n * Len(d.values), 1, SubSeq(m, 1, k))

\* The limit is looked at inside the loop, after each dimension.
MatrixRejected(m) ==
    \/ m = <<>>
    \/ \E i \in DOMAIN m :
          \/ m[i].name \in BadDims
          \/ \E k \in 1..(i - 1) : m[k].name = m[i].name
          \/ m[i].values = <<>>
          \/ Combined(m, i) > MaxCombinations

\* One more dimension: its values vary fastest.
Multiplied(combos, dim) ==
    FlattenSeq([c \in DOMAIN combos |->
        [v \in DOMAIN dim.values |-> Over(combos[c], [n \in {dim.name} |-> dim.values[v]])]])

Combinations(m) ==
    LET upTo[i \in 0..Len(m)] ==
            IF i = 0 THEN <<[n \in {} |-> NoMatrix]>> ELSE Multiplied(upTo[i - 1], m[i])
    IN  upTo[Len(m)]

DimCollision(m, jobs) ==
    \E k \in DOMAIN jobs :
        jobs[k].matrix # NoMatrix /\ DimNames(jobs[k].matrix) \cap DimNames(m) # {}

-----------------------------------------------------------------------------
(* Names.                                                                  *)

Name(base) == [base |-> base, items |-> [n \in {} |-> NoMatrix], rest |-> {}]

\* The combination is added to a name's own items and wins over them; what is
\* not key=value does not survive.
ExpandedName(name, combo) ==
    [base |-> name.base, items |-> Over(name.items, combo), rest |-> {}]

\* Namespaced with the job it was written in.
MatrixCacheID_Base(id, name) == Append(id, Name(name.base))

MatrixCacheID(id, name) == Append(id, name)

Namespaced(ids, name) == {MatrixCacheID(id, name) : id \in ids}

NamespacedStep(step, name) == [step EXCEPT !.caches = Namespaced(@, name)]

NamespaceCaches(job, name) ==
    [job EXCEPT !.caches = Namespaced(@, name),
                !.steps = [s \in DOMAIN @ |-> NamespacedStep(@[s], name)]]

Each(names, Op(_)) == [k \in DOMAIN names |-> Op(names[k])]

\* Op on the From of every artifact, of the job and of its steps.
MapStepFroms(step, Op(_)) == [step EXCEPT !.arts = Each(@, Op)]

MapFroms(job, Op(_)) ==
    [job EXCEPT !.arts = Each(@, Op), !.steps = [s \in DOMAIN @ |-> MapStepFroms(@[s], Op)]]

\* A variable becomes the value the combination has for it, if it has one.
Substituted(pieces, combo) ==
    Each(pieces, LAMBDA p : IF p.var /\ p.text \in DOMAIN combo
                            THEN [var |-> FALSE, text |-> combo[p.text]] ELSE p)

-----------------------------------------------------------------------------
(* Phase 1: a replica of the whole pipeline for each combination.          *)

CorrelateDeps(deps, combo) == Each(deps, LAMBDA d : ExpandedName(d, combo))

Replica(job, combo) ==
    LET name == ExpandedName(job.name, combo)
        renamed == [job EXCEPT !.name = name, !.deps = CorrelateDeps(@, combo),
                               !.platform = Substituted(@, combo)]
    IN  NamespaceCaches(MapFroms(renamed, LAMBDA from : ExpandedName(from, combo)), name)

PipelineReplicas(m, jobs) ==
    FlattenSeq(Each(Combinations(m), LAMBDA combo : Each(jobs, LAMBDA job : Replica(job, combo))))

-----------------------------------------------------------------------------
(* Phase 2: each job with a matrix becomes its variants, and whoever       *)
(* depended on it depends on all of them.                                  *)

Variant(job, combo) ==
    LET name == ExpandedName(job.name, combo)
    IN  NamespaceCaches([job EXCEPT !.name = name, !.matrix = NoMatrix,
                                    !.platform = Substituted(@, combo)], name)

Variants(job) ==
    IF job.matrix = NoMatrix THEN <<job>>
    ELSE Each(Combinations(job.matrix), LAMBDA combo : Variant(job, combo))

\* expansionMap: the last of several jobs of one name is the one that counts.
ExpansionMap(jobs) ==
    [n \in {jobs[k].name : k \in DOMAIN jobs} |->
        LET last == CHOOSE k \in DOMAIN jobs :
                        /\ jobs[k].name = n
                        /\ \A i \in DOMAIN jobs : jobs[i].name = n => i <= k
        IN  Each(Variants(jobs[last]), LAMBDA v : v.name)]

\* Only the first variant is waited for.
RewriteDeps_First(deps, expansion) ==
    Each(deps, LAMBDA d : IF d \in DOMAIN expansion THEN expansion[d][1] ELSE d)

RewriteDeps(deps, expansion) ==
    FlattenSeq(Each(deps, LAMBDA d : IF d \in DOMAIN expansion THEN expansion[d] ELSE <<d>>))

\* An artifact keeps naming one job: a matrix job with several variants stays
\* as it was written.
RewriteFrom(from, expansion) ==
    IF from \in DOMAIN expansion /\ Len(expansion[from]) = 1 THEN expansion[from][1] ELSE from

JobVariants(jobs) ==
    LET expansion == ExpansionMap(jobs)
        rewritten(job) ==
            MapFroms([job EXCEPT !.deps = RewriteDeps(@, expansion)],
                     LAMBDA from : RewriteFrom(from, expansion))
    IN  Each(FlattenSeq(Each(jobs, Variants)), rewritten)

=============================================================================
