--------------------------- MODULE PlanningProofs ---------------------------
(***************************************************************************)
(* What parse accepts can be run, and a run delivers what its targets      *)
(* select, for any pipelines and any targets.                              *)
(*                                                                         *)
(* A list of jobs that has passed the depth-first search can be ranked:    *)
(* whatever a job depends on is in the list and ranks below it.  The       *)
(* ranking survives the filter, which keeps a part of the list that is     *)
(* closed under dependencies; and a list with a ranking that has passed    *)
(* the checks once passes them, the search and the build again.            *)
(*                                                                         *)
(* What the two traversals of the filter reach is what a job leads to, and *)
(* what leads to it, over dependencies; the jobs in that window keep what  *)
(* they deliver, the others lose it, and the build collects what is left.  *)
(*                                                                         *)
(* The combinations of a matrix are the settings of its dimensions, so the *)
(* first phase of the expansion makes a replica of every job for each      *)
(* setting of the pipeline's and the second a variant of every replica for *)
(* each of the job's own; what the second puts in the place of a name is   *)
(* traced back to the job the file means by it.                            *)
(***************************************************************************)
EXTENDS Planning, FiniteSetTheorems, SequenceTheorems, TLAPS

-----------------------------------------------------------------------------
(* The inductive invariant.                                                *)

\* r ranks what each job depends on below the job.
Ranks(r, js) ==
    /\ r \in [NamesOf(js) -> Nat]
    /\ \A k \in DOMAIN js : \A d \in DOMAIN js[k].deps :
          js[k].deps[d] \in NamesOf(js) /\ r[js[k].deps[d]] < r[js[k].name]

Acyclic(js) == \E r \in [NamesOf(js) -> Nat] : Ranks(r, js)

\* validateJob finds nothing wrong.
Valid(js) == \A k \in DOMAIN js : ~JobRejected(js, k)

\* A job's dependencies are among the first n of the order.
Before(js, ord, n, k) ==
    \A d \in DOMAIN js[k].deps : \E i \in 1..n : js[ord[i]].name = js[k].deps[d]

\* ord names jobs, each once and after its dependencies.
InOrder(js, ord) ==
    /\ ord \in Seq(DOMAIN js)
    /\ \A i, j \in DOMAIN ord : ord[i] = ord[j] => i = j
    /\ \A i \in DOMAIN ord : Before(js, ord, i - 1, ord[i])

\* ord is a topological order of all jobs.
Topological(js, ord) == InOrder(js, ord) /\ \A k \in DOMAIN js : \E i \in DOMAIN ord : ord[i] = k

\* The calls of the depth-first search: one for each job being visited, each
\* made for the dependency its caller has just passed.
Frames(js) == [job : DOMAIN js, next : Nat \ {0}]
Calls(js, fs) ==
    /\ fs \in Seq(Frames(js))
    /\ \A f, g \in DOMAIN fs : fs[f].job = fs[g].job => f = g
    /\ \A f \in DOMAIN fs : fs[f].next <= Len(js[fs[f].job].deps) + 1
    /\ \A f \in 1..(Len(fs) - 1) :
          /\ fs[f].next > 1
          /\ js[fs[f].job].deps[fs[f].next - 1] = js[fs[f + 1].job].name

\* The job's dependencies before number n are in the order.
PassedUpTo(js, ord, k, n) ==
    \A d \in 1..(n - 1) : \E i \in DOMAIN ord : js[ord[i]].name = js[k].deps[d]

\* What a call has passed is in the order, but for what it waits for.
Passed(js, fs, ord) ==
    \A f \in DOMAIN fs :
        PassedUpTo(js, ord, fs[f].job, IF f = Len(fs) THEN fs[f].next ELSE fs[f].next - 1)

\* Whatever the ranking, the calls go down it.
Descent(js, fs) ==
    \A r : Ranks(r, js) =>
        \A f, g \in DOMAIN fs : f < g => r[js[fs[g].job].name] < r[js[fs[f].job].name]

Marks(js, m, fs, ord) ==
    /\ m \in [DOMAIN js -> {"unvisited", "visiting", "visited"}]
    /\ \A k \in DOMAIN js : m[k] = "visiting" <=> \E f \in DOMAIN fs : fs[f].job = k
    /\ \A k \in DOMAIN js : m[k] = "visited" <=> \E i \in DOMAIN ord : ord[i] = k

Search(js, m, fs, ord) ==
    Calls(js, fs) /\ Passed(js, fs, ord) /\ Descent(js, fs) /\ Marks(js, m, fs, ord) /\ InOrder(js, ord)

\* The phases before the parse has returned.
Parsing == phase \in {"defaults", "expandPipeline", "expandJobs", "check", "sort"} /\ caller = "parse"

TypeInv ==
    /\ input \in Inputs /\ IsJobs(jobs)
    /\ phase \in {"defaults", "expandPipeline", "expandJobs", "check", "sort", "parsed",
                  "valid", "build", "llb", "ready", "failed"}
    /\ caller \in {"parse", "validate", "build"}
    /\ phase # "failed" => (err = "none" /\ (parsed = <<>> <=> Parsing))
    /\ phase \in {"defaults", "expandPipeline", "expandJobs"} => caller = "parse"

\* What each phase may rely on.
PhaseInv ==
    /\ parsed # <<>> /\ phase # "failed" => Valid(jobs) /\ Acyclic(jobs)
    /\ parsed # <<>> /\ phase = "check" => jobs # <<>>
    /\ phase = "sort" => jobs # <<>> /\ Valid(jobs) /\ Search(jobs, mark, frames, order)
    /\ phase = "parsed" => parsed = jobs
    /\ phase = "build" => topo = <<>>
    /\ phase \in {"parsed", "valid", "llb"} => Topological(jobs, topo)
    /\ phase \in {"defaults", "expandPipeline", "expandJobs", "check", "sort", "parsed", "build"} => built = <<>>
    /\ phase = "llb" =>
          Len(built) \in 0..Len(topo) /\ built = [i \in 1..Len(built) |-> jobs[topo[i]].name]

PlanInv == TypeInv /\ PhaseInv /\ AcceptedMeansRunnable /\ NoOneUsesACutJob

-----------------------------------------------------------------------------
(* Induction, with a set in place of a predicate.                          *)

\* A set of numbers that is not empty has a least: the intervals that end in its
\* members are finite sets, well-founded by inclusion.
LEMMA LeastNumber ==
    ASSUME NEW S \in SUBSET Nat, S # {}
    PROVE  \E m \in S : \A k \in S : m <= k
<1> DEFINE T == {1..m : m \in S}
<1>1. \A m \in S : 1..m \in FiniteSubsetsOf(Nat)
  <2>1. \A m \in S : IsFiniteSet(1..m) /\ 1..m \subseteq Nat
    BY FS_Interval
  <2> QED
    BY <2>1 DEF FiniteSubsetsOf
<1>2. T \subseteq FiniteSubsetsOf(Nat) /\ T # {}
  BY <1>1
<1>3. IsWellFoundedOn(StrictSubsetOrdering(Nat), FiniteSubsetsOf(Nat))
  BY FS_StrictSubsetOrderingWellFounded
<1>4. PICK x \in T : \A y \in T : ~(<<y, x>> \in StrictSubsetOrdering(Nat))
  <2> HIDE DEF T
  <2> QED
    BY <1>2, <1>3, WFMin
<1>5. PICK m \in S : x = 1..m
  OBVIOUS
<1>6. ASSUME NEW k \in S, k < m
      PROVE  FALSE
  <2>1. 1..k \subseteq 1..m /\ m \in 1..m /\ m \notin 1..k
    BY <1>6
  <2>2. 1..k # 1..m /\ 1..k \in T /\ 1..k \subseteq Nat /\ 1..m \subseteq Nat
    BY <2>1
  <2>3. <<1..k, 1..m>> \in StrictSubsetOrdering(Nat)
    BY <2>1, <2>2 DEF StrictSubsetOrdering
  <2> QED
    BY <1>4, <1>5, <2>2, <2>3
<1> QED
  BY <1>6

\* Induction on the natural numbers.
LEMMA Induction ==
    ASSUME NEW S, 0 \in S, \A n \in Nat : n \in S => n + 1 \in S
    PROVE  Nat \subseteq S
<1> SUFFICES ASSUME Nat \ S # {}
             PROVE  FALSE
  OBVIOUS
<1>1. PICK m \in Nat \ S : \A k \in Nat \ S : m <= k
  BY LeastNumber
<1>2. m - 1 \in Nat /\ m - 1 \in S
  BY <1>1
<1> QED
  BY <1>1, <1>2

-----------------------------------------------------------------------------
(* Lists.                                                                  *)

\* What a list is.
LEMMA ListFacts ==
    ASSUME NEW s, IsList(s)
    PROVE  Len(s) \in Nat /\ DOMAIN s = 1..Len(s) /\ s \in [1..Len(s) -> ToSet(s)]
BY LenProperties DEF IsList

\* How to make one.
LEMMA MakeList ==
    ASSUME NEW n \in Nat, NEW s, s = [i \in 1..n |-> s[i]]
    PROVE  IsList(s) /\ Len(s) = n
<1>1. s \in [1..n -> ToSet(s)]
  BY DEF ToSet
<1>2. s \in Seq(ToSet(s))
  BY <1>1, SeqDef
<1> QED
  BY <1>1, <1>2, LenProperties DEF IsList

\* A list without repetitions has as many members as places.
LEMMA Repetitions ==
    ASSUME NEW s, IsList(s)
    PROVE  /\ IsFiniteSet(ToSet(s))
           /\ Cardinality(ToSet(s)) = Len(s) <=> \A i, j \in DOMAIN s : s[i] = s[j] => i = j
<1>1. Len(s) \in Nat /\ DOMAIN s = 1..Len(s) /\ s \in [1..Len(s) -> ToSet(s)]
  BY ListFacts
<1>2. s \in Surjection(1..Len(s), ToSet(s))
  BY <1>1 DEF Surjection, ToSet
<1>3. IsFiniteSet(1..Len(s)) /\ Cardinality(1..Len(s)) = Len(s)
  BY <1>1, FS_Interval, SMTT(30)
<1>4. s \in Injection(1..Len(s), ToSet(s)) <=> \A i, j \in DOMAIN s : s[i] = s[j] => i = j
  BY <1>1 DEF Injection, IsInjective
<1> QED
  BY <1>2, <1>3, <1>4, FS_Surjection

\* The beginning of a list.
LEMMA Beginning ==
    ASSUME NEW T, NEW s \in Seq(T), NEW n \in 0..Len(s)
    PROVE  /\ SubSeq(s, 1, n) \in Seq(T) /\ Len(SubSeq(s, 1, n)) = n
           /\ \A k \in 1..n : SubSeq(s, 1, n)[k] = s[k]
<1>1. Len(s) \in Nat /\ \A k \in 1..Len(s) : s[k] \in T
  BY LenProperties, ElementOfSeq
<1>2. \A k \in 1..n : s[k] \in T
  BY <1>1
<1>3. /\ SubSeq(s, 1, n) \in Seq(T)
      /\ Len(SubSeq(s, 1, n)) = IF 1 <= n THEN n - 1 + 1 ELSE 0
      /\ \A k \in 1..(n - 1 + 1) : SubSeq(s, 1, n)[k] = s[1 + k - 1]
  BY <1>1, <1>2, SubSeqProperties
<1>4. n - 1 + 1 = n /\ \A k \in 1..n : 1 + k - 1 = k
  BY <1>1
<1>5. n = 0 \/ 1 <= n
  BY <1>1
<1> QED
  BY <1>3, <1>4, <1>5

\* The top of a stack taken away.
LEMMA TopGone ==
    ASSUME NEW T, NEW s \in Seq(T), s # <<>>
    PROVE  /\ Front(s) \in Seq(T) /\ Len(Front(s)) = Len(s) - 1 /\ Len(s) \in Nat \ {0}
           /\ \A k \in 1..(Len(s) - 1) : Front(s)[k] = s[k]
<1>1. Len(s) \in Nat \ {0}
  BY EmptySeq, LenProperties
<1>2. Front(s) = SubSeq(s, 1, Len(s) - 1) /\ Len(s) - 1 \in 0..Len(s)
  BY <1>1 DEF Front
<1> HIDE DEF Front
<1> DEFINE n == Len(s) - 1
<1>3. n \in 0..Len(s)
  BY <1>2
<1> HIDE DEF n
<1>4. /\ SubSeq(s, 1, n) \in Seq(T) /\ Len(SubSeq(s, 1, n)) = n
      /\ \A k \in 1..n : SubSeq(s, 1, n)[k] = s[k]
  BY <1>3, Beginning
<1> QED
  BY <1>1, <1>2, <1>4 DEF n

-----------------------------------------------------------------------------
(* Flattening a list of lists.                                             *)

\* The lists joined so far, one more at each place.
Joined(f, seqs, n) ==
    f = [i \in 1..n |-> IF i = 1 THEN seqs[i] ELSE f[i - 1] \o seqs[i]]

\* There are such.
LEMMA JoinedExists ==
    ASSUME NEW seqs, NEW n \in Nat
    PROVE  \E f : Joined(f, seqs, n)
<1> DEFINE S == {m \in Nat : \E f : Joined(f, seqs, m)}
<1>1. 0 \in S
  <2> DEFINE zero == [k \in 1..0 |-> {}]
  <2>1. Joined(zero, seqs, 0)
    BY DEF Joined
  <2> QED
    BY <2>1
<1>2. ASSUME NEW m \in Nat, m \in S
      PROVE  m + 1 \in S
  <2>1. PICK f : Joined(f, seqs, m)
    BY <1>2
  <2> DEFINE next == IF m + 1 = 1 THEN seqs[m + 1] ELSE f[m] \o seqs[m + 1]
             more == [k \in 1..(m + 1) |-> IF k = m + 1 THEN next ELSE f[k]]
  <2>2. /\ \A k \in 1..m : f[k] = IF k = 1 THEN seqs[k] ELSE f[k - 1] \o seqs[k]
        /\ \A k \in 1..m : more[k] = f[k]
        /\ more[m + 1] = next /\ more = [k \in 1..(m + 1) |-> more[k]]
    <3>1. \A k \in 1..m : f[k] = IF k = 1 THEN seqs[k] ELSE f[k - 1] \o seqs[k]
      BY <2>1 DEF Joined
    <3> HIDE DEF next
    <3> QED
      BY <3>1
  <2> HIDE DEF more
  <2>3. \A k \in 1..(m + 1) : more[k] = IF k = 1 THEN seqs[k] ELSE more[k - 1] \o seqs[k]
    <3> SUFFICES ASSUME NEW k \in 1..(m + 1)
                 PROVE  more[k] = IF k = 1 THEN seqs[k] ELSE more[k - 1] \o seqs[k]
      OBVIOUS
    <3>1. k # 1 => k - 1 \in 1..m /\ (k = m + 1 => k - 1 = m)
      OBVIOUS
    <3>2. CASE k = m + 1
      BY <2>2, <3>1, <3>2
    <3>3. CASE k # m + 1
      <4>1. k \in 1..m
        BY <3>3
      <4> QED
        BY <2>2, <3>1, <4>1
    <3> QED
      BY <3>2, <3>3
  <2>4. Joined(more, seqs, m + 1)
    BY <2>2, <2>3 DEF Joined
  <2> QED
    BY <2>4
<1> HIDE DEF S
<1>3. Nat \subseteq S
  BY <1>1, <1>2, Induction
<1> QED
  BY <1>3 DEF S

\* t holds what the first n lists hold, each of it once: its place i is for
\* place col[i] of list row[i].
Laid(t, seqs, n, row, col) ==
    /\ IsList(t)
    /\ \A i \in DOMAIN t :
          row[i] \in 1..n /\ col[i] \in DOMAIN seqs[row[i]] /\ t[i] = seqs[row[i]][col[i]]
    /\ \A i, j \in DOMAIN t : row[i] = row[j] /\ col[i] = col[j] => i = j
    /\ \A k \in 1..n : \A l \in DOMAIN seqs[k] : \E i \in DOMAIN t : row[i] = k /\ col[i] = l

\* A place in one of two joined lists.
LEMMA Places ==
    ASSUME NEW l \in Nat, NEW m \in Nat, NEW i \in 1..(l + m)
    PROVE  (i \in 1..l /\ i <= l) \/ (i - l \in 1..m /\ ~(i <= l))
OBVIOUS

\* One more list is laid behind the others.
LEMMA LaidOn ==
    ASSUME NEW seqs, NEW n \in Nat, NEW t, NEW row, NEW col, Laid(t, seqs, n, row, col),
           IsList(seqs[n + 1])
    PROVE  \E row1, col1 : Laid(t \o seqs[n + 1], seqs, n + 1, row1, col1)
<1> DEFINE l == Len(t)
           s == seqs[n + 1]
           u == t \o s
           r == [i \in 1..(l + Len(s)) |-> IF i <= l THEN row[i] ELSE n + 1]
           c == [i \in 1..(l + Len(s)) |-> IF i <= l THEN col[i] ELSE i - l]
<1>1. /\ l \in Nat /\ DOMAIN t = 1..l /\ t \in Seq(ToSet(t))
      /\ Len(s) \in Nat /\ DOMAIN s = 1..Len(s) /\ s \in Seq(ToSet(s))
  BY ListFacts DEF Laid, IsList
<1>2. /\ u \in Seq(ToSet(t) \cup ToSet(s)) /\ Len(u) = l + Len(s)
      /\ \A i \in 1..(l + Len(s)) : u[i] = IF i <= l THEN t[i] ELSE s[i - l]
  <2> DEFINE T == ToSet(t) \cup ToSet(s)
  <2>1. t \in Seq(T) /\ s \in Seq(T)
    BY <1>1
  <2> HIDE DEF T
  <2>2. u \in Seq(T) /\ Len(u) = Len(t) + Len(s)
        /\ \A i \in 1..(Len(t) + Len(s)) : u[i] = IF i <= Len(t) THEN t[i] ELSE s[i - Len(t)]
    BY <2>1, ConcatProperties
  <2> QED
    BY <2>2 DEF T
<1> HIDE DEF l, s, u
<1>3. IsList(u) /\ DOMAIN u = 1..(l + Len(s))
  <2>1. DOMAIN u = 1..(l + Len(s)) /\ u = [i \in 1..(l + Len(s)) |-> u[i]]
    BY <1>2, LenProperties
  <2>2. l + Len(s) \in Nat
    BY <1>1
  <2> QED
    BY <2>1, <2>2, MakeList
<1>4. \A i \in DOMAIN u : (i \in DOMAIN t /\ i <= l) \/ (i - l \in DOMAIN s /\ ~(i <= l))
  BY <1>1, <1>3, Places
<1>5. /\ \A i \in DOMAIN t : i \in DOMAIN u /\ i <= l /\ r[i] = row[i] /\ c[i] = col[i] /\ u[i] = t[i]
      /\ \A i \in DOMAIN u : ~(i <= l) => r[i] = n + 1 /\ c[i] = i - l /\ u[i] = s[i - l]
  BY <1>1, <1>2, <1>3, SMTT(30)
<1> HIDE DEF r, c
<1>6. \A i \in DOMAIN u :
        r[i] \in 1..(n + 1) /\ c[i] \in DOMAIN seqs[r[i]] /\ u[i] = seqs[r[i]][c[i]]
  <2> SUFFICES ASSUME NEW i \in DOMAIN u
               PROVE  r[i] \in 1..(n + 1) /\ c[i] \in DOMAIN seqs[r[i]] /\ u[i] = seqs[r[i]][c[i]]
    OBVIOUS
  <2>1. CASE i \in DOMAIN t
    BY <1>5, <2>1 DEF Laid
  <2>2. CASE i - l \in DOMAIN s /\ ~(i <= l)
    BY <1>5, <2>2 DEF s
  <2> QED
    BY <1>4, <2>1, <2>2
<1>7. \A i, j \in DOMAIN u : r[i] = r[j] /\ c[i] = c[j] => i = j
  <2> SUFFICES ASSUME NEW i \in DOMAIN u, NEW j \in DOMAIN u, r[i] = r[j], c[i] = c[j]
               PROVE  i = j
    OBVIOUS
  <2>1. \A x \in DOMAIN t : r[x] # n + 1
    BY <1>5 DEF Laid
  <2>2. CASE i \in DOMAIN t /\ j \in DOMAIN t
    BY <1>5, <2>2 DEF Laid
  <2>3. CASE ~(i <= l) /\ ~(j <= l)
    BY <1>1, <1>3, <1>5, <2>3
  <2> QED
    BY <1>4, <1>5, <2>1, <2>2, <2>3
<1>8. \A k \in 1..(n + 1) : \A x \in DOMAIN seqs[k] : \E i \in DOMAIN u : r[i] = k /\ c[i] = x
  <2> SUFFICES ASSUME NEW k \in 1..(n + 1), NEW x \in DOMAIN seqs[k]
               PROVE  \E i \in DOMAIN u : r[i] = k /\ c[i] = x
    OBVIOUS
  <2>1. CASE k \in 1..n
    <3>1. PICK i \in DOMAIN t : row[i] = k /\ col[i] = x
      BY <2>1 DEF Laid
    <3> QED
      BY <1>5, <3>1
  <2>2. CASE k = n + 1
    <3>1. x \in 1..Len(s)
      BY <1>1, <2>2 DEF s
    <3>2. x + l \in DOMAIN u /\ ~(x + l <= l) /\ (x + l) - l = x
      BY <1>1, <1>3, <3>1
    <3> QED
      BY <1>5, <2>2, <3>2
  <2> QED
    BY <2>1, <2>2
<1>9. Laid(u, seqs, n + 1, r, c)
  BY <1>3, <1>6, <1>7, <1>8 DEF Laid
<1> QED
  BY <1>9 DEF u, s

\* What FlattenSeq makes of a list of lists.
LEMMA Flattened ==
    ASSUME NEW seqs, IsList(seqs), \A k \in DOMAIN seqs : IsList(seqs[k])
    PROVE  \E row, col : Laid(FlattenSeq(seqs), seqs, Len(seqs), row, col)
<1> DEFINE n == Len(seqs)
           f == CHOOSE x : Joined(x, seqs, n)
<1>1. n \in Nat /\ DOMAIN seqs = 1..n
  BY ListFacts
<1>2. CASE n = 0
  <2>1. DOMAIN seqs = {} /\ FlattenSeq(seqs) = seqs
    BY <1>1, <1>2 DEF FlattenSeq
  <2>2. Laid(seqs, seqs, n, seqs, seqs)
    BY <1>2, <2>1 DEF Laid
  <2> QED
    BY <2>1, <2>2
<1>3. CASE n # 0
  <2>1. FlattenSeq(seqs) = f[n]
    BY <1>3 DEF FlattenSeq, Joined
  <2>2. Joined(f, seqs, n)
    BY <1>1, JoinedExists
  <2> HIDE DEF f, n
  <2>3. \A i \in 1..n : f[i] = IF i = 1 THEN seqs[i] ELSE f[i - 1] \o seqs[i]
    BY <2>2 DEF Joined
  <2> DEFINE S == {m \in Nat : m + 1 \in 1..n => \E row, col : Laid(f[m + 1], seqs, m + 1, row, col)}
  <2>4. 0 \in S
    <3>1. \E row, col : Laid(seqs[1], seqs, 1, row, col)
      <4> DEFINE d == DOMAIN seqs[1]
                 row == [i \in d |-> 1]
                 col == [i \in d |-> i]
      <4>1. IsList(seqs[1])
        BY <1>1, <1>3
      <4>2. Laid(seqs[1], seqs, 1, row, col)
        BY <4>1 DEF Laid
      <4> QED
        BY <4>2
    <3>2. 1 \in 1..n /\ f[1] = seqs[1] /\ 0 + 1 = 1
      BY <1>1, <1>3, <2>3
    <3> QED
      BY <3>1, <3>2
  <2>5. ASSUME NEW m \in Nat, m \in S
        PROVE  m + 1 \in S
    <3> SUFFICES ASSUME (m + 1) + 1 \in 1..n
                 PROVE  \E row, col : Laid(f[(m + 1) + 1], seqs, (m + 1) + 1, row, col)
      OBVIOUS
    <3>1. m + 1 \in 1..n
      BY <1>1
    <3>2. PICK row, col : Laid(f[m + 1], seqs, m + 1, row, col)
      BY <2>5, <3>1
    <3>3. f[(m + 1) + 1] = f[m + 1] \o seqs[(m + 1) + 1]
      <4> HIDE DEF S
      <4>1. (m + 1) + 1 # 1 /\ (m + 1) + 1 - 1 = m + 1 /\ (m + 1) + 1 \in 1..n
        OBVIOUS
      <4> DEFINE k == (m + 1) + 1
      <4> HIDE DEF k
      <4>2. k \in 1..n /\ k # 1 /\ k - 1 = m + 1
        BY <4>1 DEF k
      <4>3. f[k] = f[k - 1] \o seqs[k]
        BY <2>3, <4>2
      <4> QED
        BY <4>2, <4>3 DEF k
    <3>4. IsList(seqs[(m + 1) + 1])
      BY <1>1
    <3> HIDE DEF S
    <3> QED
      BY <3>2, <3>3, <3>4, LaidOn
  <2> HIDE DEF S
  <2>6. Nat \subseteq S
    BY <2>4, <2>5, Induction
  <2>7. n - 1 \in Nat /\ (n - 1) + 1 = n /\ n \in 1..n
    BY <1>1, <1>3
  <2>8. \E row, col : Laid(f[n], seqs, n, row, col)
    BY <2>6, <2>7 DEF S
  <2> QED
    BY <2>1, <2>8 DEF n
<1> QED
  BY <1>2, <1>3

-----------------------------------------------------------------------------
(* Jobs.                                                                   *)

\* The dependencies of a job are a list.
LEMMA DepsFacts ==
    ASSUME NEW js, IsJobs(js), NEW k \in DOMAIN js
    PROVE  Len(js[k].deps) \in Nat /\ DOMAIN js[k].deps = 1..Len(js[k].deps)
<1>1. IsList(js[k].deps)
  BY DEF IsJobs, IsJob
<1> QED
  BY <1>1, ListFacts

\* Jobs that pass the checks have names of their own.
LEMMA NamesDiffer ==
    ASSUME NEW js, IsJobs(js), Valid(js), NEW i \in DOMAIN js, NEW k \in DOMAIN js,
           js[i].name = js[k].name
    PROVE  i = k
<1>1. DOMAIN js = 1..Len(js) /\ Len(js) \in Nat
  BY ListFacts DEF IsJobs
<1>2. ASSUME NEW a \in DOMAIN js, NEW b \in DOMAIN js, a < b
      PROVE  js[a].name # js[b].name
  <2>1. a \in 1..(b - 1)
    BY <1>1, <1>2
  <2> QED
    BY <2>1 DEF Valid, JobRejected
<1>3. i < k \/ k < i \/ i = k
  BY <1>1
<1> QED
  BY <1>2, <1>3

-----------------------------------------------------------------------------
(* The depth-first search.                                                 *)

\* It begins with nothing visited.
LEMMA SearchBegins ==
    ASSUME NEW js, IsJobs(js)
    PROVE  Search(js, [k \in DOMAIN js |-> "unvisited"], <<>>, <<>>)
<1>1. Calls(js, <<>>) /\ Passed(js, <<>>, <<>>) /\ Descent(js, <<>>)
  BY DEF Calls, Passed, Descent
<1>2. Marks(js, [k \in DOMAIN js |-> "unvisited"], <<>>, <<>>)
  BY DEF Marks
<1>3. InOrder(js, <<>>)
  BY DEF InOrder
<1> QED
  BY <1>1, <1>2, <1>3 DEF Search

\* What is in the order stays before what follows.
LEMMA OrderGrows ==
    ASSUME NEW js, IsJobs(js), NEW ord, InOrder(js, ord), NEW k \in DOMAIN js,
           \A i \in DOMAIN ord : ord[i] # k, Before(js, ord, Len(ord), k)
    PROVE  InOrder(js, Append(ord, k))
<1> DEFINE new == Append(ord, k)
           l == Len(ord)
<1>1. l \in Nat /\ DOMAIN ord = 1..l /\ ord \in Seq(DOMAIN js)
  BY LenProperties DEF InOrder
<1>2. /\ new \in Seq(DOMAIN js) /\ DOMAIN new = 1..(l + 1) /\ new[l + 1] = k
      /\ \A i \in 1..l : new[i] = ord[i]
  BY <1>1
<1> HIDE DEF new, l
<1>3. \A i, j \in DOMAIN new : new[i] = new[j] => i = j
  <2>1. \A i, j \in 1..l : ord[i] = ord[j] => i = j
    BY <1>1 DEF InOrder
  <2>2. \A i \in 1..l : new[i] # k
    BY <1>1, <1>2
  <2>3. \A i \in DOMAIN new : i \in 1..l \/ i = l + 1
    BY <1>1, <1>2
  <2> QED
    BY <1>2, <2>1, <2>2, <2>3
<1>4. ASSUME NEW i \in DOMAIN new
      PROVE  Before(js, new, i - 1, new[i])
  <2>1. CASE i \in 1..l
    <3>1. Before(js, ord, i - 1, ord[i])
      BY <1>1, <2>1 DEF InOrder
    <3>2. \A j \in 1..(i - 1) : new[j] = ord[j]
      BY <1>1, <1>2, <2>1
    <3> QED
      BY <1>2, <2>1, <3>1, <3>2, SMTT(30) DEF Before
  <2>2. CASE i = l + 1
    <3>1. i - 1 = l
      BY <1>1, <2>2
    <3>2. Before(js, ord, l, k)
      BY DEF l
    <3> QED
      BY <1>2, <2>2, <3>1, <3>2, SMTT(30) DEF Before
  <2> QED
    BY <1>1, <1>2, <2>1, <2>2
<1>5. InOrder(js, new)
  BY <1>2, <1>3, <1>4 DEF InOrder
<1> QED
  BY <1>5 DEF new

\* What the calls have passed, the last call and the others apart.
LEMMA PassedBy ==
    ASSUME NEW js, NEW fs, NEW ord, Passed(js, fs, ord), NEW l \in Nat, l = Len(fs), DOMAIN fs = 1..l
    PROVE  /\ l # 0 => PassedUpTo(js, ord, fs[l].job, fs[l].next)
           /\ \A f \in 1..(l - 1) : PassedUpTo(js, ord, fs[f].job, fs[f].next - 1)
<1> DEFINE n(f) == IF f = l THEN fs[f].next ELSE fs[f].next - 1
<1>1. \A f \in 1..l : PassedUpTo(js, ord, fs[f].job, n(f))
  BY Zenon DEF Passed
<1>2. /\ l # 0 => l \in 1..l
      /\ \A f \in 1..(l - 1) : f \in 1..l /\ f # l
  OBVIOUS
<1>3. n(l) = fs[l].next /\ \A f \in 1..(l - 1) : n(f) = fs[f].next - 1
  BY <1>2
<1> HIDE DEF n
<1> QED
  BY <1>1, <1>2, <1>3

\* The loop over the jobs calls visit.
LEMMA SearchRoot ==
    ASSUME NEW js, IsJobs(js), NEW m, NEW ord, Search(js, m, <<>>, ord),
           NEW k \in DOMAIN js, m[k] = "unvisited"
    PROVE  Search(js, Entered(m, k), <<Call(k)>>, ord)
<1> DEFINE fs == <<Call(k)>>
<1>1. /\ fs \in Seq(Frames(js)) /\ Len(fs) = 1 /\ DOMAIN fs = {1}
      /\ fs[1].job = k /\ fs[1].next = 1
  BY DEF Frames, Call
<1>2. Len(js[k].deps) \in Nat
  BY DepsFacts
<1> HIDE DEF fs
<1>3. Calls(js, fs) /\ Passed(js, fs, ord) /\ Descent(js, fs)
  BY <1>1, <1>2 DEF Calls, Passed, PassedUpTo, Descent
<1>4. Marks(js, m, <<>>, ord)
  BY DEF Search
<1>5. Marks(js, Entered(m, k), fs, ord)
  <2>1. ASSUME NEW x \in DOMAIN js
        PROVE  m[x] # "visiting" /\ ((\E f \in DOMAIN fs : fs[f].job = x) <=> x = k)
    BY <1>1, <1>4 DEF Marks
  <2>2. /\ m \in [DOMAIN js -> {"unvisited", "visiting", "visited"}]
        /\ \A x \in DOMAIN js : m[x] = "visited" <=> \E i \in DOMAIN ord : ord[i] = x
    BY <1>4 DEF Marks
  <2> DEFINE e == Entered(m, k)
  <2>3. /\ e \in [DOMAIN js -> {"unvisited", "visiting", "visited"}]
        /\ \A x \in DOMAIN js : e[x] = IF x = k THEN "visiting" ELSE m[x]
    BY <2>2 DEF Entered
  <2> HIDE DEF e
  <2>4. Marks(js, e, fs, ord)
    BY <2>1, <2>2, <2>3 DEF Marks
  <2> QED
    BY <2>4 DEF e
<1>6. InOrder(js, ord)
  BY DEF Search
<1>7. Search(js, Entered(m, k), fs, ord)
  BY <1>3, <1>5, <1>6 DEF Search
<1> QED
  BY <1>7 DEF fs

\* The innermost call has looked at its next dependency.
Advanced(fs) == Append(Front(fs), [Last(fs) EXCEPT !.next = @ + 1])

\* The same, with the innermost call named.
LEMMA AdvancedTop ==
    ASSUME NEW fs, NEW x, Last(fs) = x
    PROVE  Advanced(fs) = Append(Front(fs), [x EXCEPT !.next = @ + 1])
BY DEF Advanced

\* The calls are what they were but for that.
LEMMA AdvancedCalls ==
    ASSUME NEW js, IsJobs(js), NEW fs, Calls(js, fs), fs # <<>>,
           Last(fs).next <= Len(js[Last(fs).job].deps)
    PROVE  LET a == Advanced(fs)
               l == Len(fs)
           IN  /\ l \in Nat \ {0} /\ DOMAIN fs = 1..l /\ DOMAIN a = 1..l
               /\ Last(fs) = fs[l]
               /\ fs[l].job \in DOMAIN js /\ fs[l].next \in 1..Len(js[fs[l].job].deps)
               /\ a \in Seq(Frames(js)) /\ Len(a) = l
               /\ \A f \in 1..(l - 1) : a[f] = fs[f]
               /\ a[l].job = fs[l].job /\ a[l].next = fs[l].next + 1
<1> DEFINE l == Len(fs)
           e == [fs[l] EXCEPT !.next = @ + 1]
<1>1. l \in Nat \ {0} /\ DOMAIN fs = 1..l /\ fs \in Seq(Frames(js))
  BY LenProperties, EmptySeq DEF Calls
<1>2. fs[l] \in Frames(js) /\ Last(fs) = fs[l]
  BY <1>1, ElementOfSeq DEF Last
<1>3. e \in Frames(js) /\ e.job = fs[l].job /\ e.next = fs[l].next + 1
  BY <1>2 DEF Frames
<1>4. fs[l].job \in DOMAIN js /\ fs[l].next \in Nat \ {0}
  BY <1>2 DEF Frames
<1>5. fs[l].next \in 1..Len(js[fs[l].job].deps)
  <2>1. Len(js[fs[l].job].deps) \in Nat
    BY <1>4, DepsFacts
  <2> QED
    BY <1>2, <1>4, <2>1
<1> HIDE DEF e
<1> DEFINE u == Front(fs)
           a == Append(u, e)
<1>6. Advanced(fs) = a
  BY <1>2, AdvancedTop, Zenon DEF e
<1>7. /\ u \in Seq(Frames(js)) /\ Len(u) = l - 1
      /\ \A f \in 1..(l - 1) : u[f] = fs[f]
  BY <1>1, TopGone
<1> HIDE DEF u, l
<1>8. /\ a \in Seq(Frames(js)) /\ Len(a) = Len(u) + 1 /\ a[Len(u) + 1] = e
      /\ \A f \in 1..Len(u) : a[f] = u[f]
  BY <1>3, <1>7
<1> HIDE DEF a
<1>9. Len(u) + 1 = l
  BY <1>1, <1>7
<1>10. /\ a \in Seq(Frames(js)) /\ Len(a) = l /\ DOMAIN a = 1..l /\ a[l] = e
       /\ \A f \in 1..(l - 1) : a[f] = fs[f]
  BY <1>1, <1>7, <1>8, <1>9, LenProperties
<1> QED
  BY <1>1, <1>2, <1>3, <1>4, <1>5, <1>6, <1>10, Zenon DEF l

\* A dependency in the order is passed by.
LEMMA SearchSkips ==
    ASSUME NEW js, IsJobs(js), NEW m, NEW fs, NEW ord, Search(js, m, fs, ord), fs # <<>>,
           Last(fs).next <= Len(js[Last(fs).job].deps),
           NEW k \in DOMAIN js, js[k].name = js[Last(fs).job].deps[Last(fs).next],
           m[k] = "visited"
    PROVE  Search(js, m, Advanced(fs), ord)
<1> DEFINE l == Len(fs)
           a == Advanced(fs)
<1>0. Calls(js, fs) /\ Passed(js, fs, ord) /\ Descent(js, fs) /\ Marks(js, m, fs, ord)
  BY DEF Search
<1>1. /\ l \in Nat \ {0} /\ DOMAIN fs = 1..l /\ DOMAIN a = 1..l
      /\ Last(fs) = fs[l]
      /\ fs[l].job \in DOMAIN js /\ fs[l].next \in 1..Len(js[fs[l].job].deps)
      /\ a \in Seq(Frames(js)) /\ Len(a) = l
      /\ \A f \in 1..(l - 1) : a[f] = fs[f]
      /\ a[l].job = fs[l].job /\ a[l].next = fs[l].next + 1
  BY <1>0, AdvancedCalls
<1> HIDE DEF a, l
<1>2. \A f \in 1..l : a[f].job = fs[f].job
  <2>1. \A f \in 1..l : f \in 1..(l - 1) \/ f = l
    BY <1>1, SMTT(30)
  <2> QED
    BY <1>1, <2>1
<1>3. Calls(js, a)
  <2>1. \A f, g \in DOMAIN a : a[f].job = a[g].job => f = g
    BY <1>0, <1>1, <1>2 DEF Calls
  <2>2. ASSUME NEW f \in DOMAIN a
        PROVE  a[f].next <= Len(js[a[f].job].deps) + 1
    <3>1. CASE f = l
      <4>1. Len(js[fs[l].job].deps) \in Nat
        BY <1>1, DepsFacts
      <4> QED
        BY <1>1, <3>1, <4>1, SMTT(30)
    <3>2. CASE f # l
      <4>1. f \in 1..(l - 1)
        BY <1>1, <3>2
      <4> QED
        BY <1>0, <1>1, <4>1 DEF Calls
    <3> QED
      BY <3>1, <3>2
  <2>3. ASSUME NEW f \in 1..(Len(a) - 1)
        PROVE  a[f].next > 1 /\ js[a[f].job].deps[a[f].next - 1] = js[a[f + 1].job].name
    <3>1. f \in 1..(l - 1) /\ f + 1 \in 1..l
      BY <1>1
    <3>2. fs[f].next > 1 /\ js[fs[f].job].deps[fs[f].next - 1] = js[fs[f + 1].job].name
      BY <1>0, <3>1 DEF Calls, l
    <3> QED
      BY <1>1, <1>2, <3>1, <3>2, SMTT(30)
  <2> QED
    BY <1>1, <2>1, <2>2, <2>3 DEF Calls
<1>4. Passed(js, a, ord)
  <2>1. PICK i \in DOMAIN ord : ord[i] = k
    BY <1>0 DEF Marks
  <2>2. PassedUpTo(js, ord, fs[l].job, fs[l].next)
    BY <1>0, <1>1 DEF Passed, l
  <2>3. PassedUpTo(js, ord, a[l].job, a[l].next)
    <3>1. \A d \in 1..(a[l].next - 1) : d \in 1..(fs[l].next - 1) \/ d = fs[l].next
      BY <1>1
    <3> QED
      BY <1>1, <2>1, <2>2, <3>1, SMTT(30) DEF PassedUpTo
  <2>4. \A f \in 1..(l - 1) : PassedUpTo(js, ord, fs[f].job, fs[f].next - 1)
    BY <1>0, <1>1, SMTT(30) DEF Passed, l
  <2>5. \A f \in 1..l : (f \in 1..(l - 1) /\ f # l) \/ f = l
    BY <1>1
  <2> QED
    BY <1>1, <2>3, <2>4, <2>5 DEF Passed
<1>5. Descent(js, a)
  BY <1>0, <1>1, <1>2 DEF Descent
<1>6. Marks(js, m, a, ord)
  BY <1>0, <1>1, <1>2 DEF Marks
<1>7. InOrder(js, ord)
  BY DEF Search
<1> QED
  BY <1>3, <1>4, <1>5, <1>6, <1>7 DEF Search, a

\* visit is called for a dependency that has not been visited.
LEMMA SearchDescends ==
    ASSUME NEW js, IsJobs(js), NEW m, NEW fs, NEW ord, Search(js, m, fs, ord), fs # <<>>,
           Last(fs).next <= Len(js[Last(fs).job].deps),
           NEW k \in DOMAIN js, js[k].name = js[Last(fs).job].deps[Last(fs).next],
           m[k] = "unvisited"
    PROVE  Search(js, Entered(m, k), Append(Advanced(fs), Call(k)), ord)
<1> DEFINE l == Len(fs)
           a == Advanced(fs)
           b == Append(a, Call(k))
<1>0. Calls(js, fs) /\ Passed(js, fs, ord) /\ Descent(js, fs) /\ Marks(js, m, fs, ord)
  BY DEF Search
<1>1. /\ l \in Nat \ {0} /\ DOMAIN fs = 1..l
      /\ Last(fs) = fs[l]
      /\ fs[l].job \in DOMAIN js /\ fs[l].next \in 1..Len(js[fs[l].job].deps)
      /\ a \in Seq(Frames(js)) /\ Len(a) = l
      /\ \A f \in 1..(l - 1) : a[f] = fs[f]
      /\ a[l].job = fs[l].job /\ a[l].next = fs[l].next + 1
  BY <1>0, AdvancedCalls
<1>2. Call(k) \in Frames(js) /\ Call(k).job = k /\ Call(k).next = 1
  BY DEF Call, Frames
<1> HIDE DEF a, l
<1>3. /\ b \in Seq(Frames(js)) /\ Len(b) = l + 1 /\ DOMAIN b = 1..(l + 1)
      /\ \A f \in 1..l : b[f] = a[f]
      /\ b[l + 1].job = k /\ b[l + 1].next = 1
  BY <1>1, <1>2
<1> HIDE DEF b
<1>4. /\ \A f \in 1..(l + 1) : f \in 1..(l - 1) \/ f = l \/ f = l + 1
      /\ \A f \in 1..l : f \in 1..(l - 1) \/ f = l
      /\ \A f \in 1..(l - 1) : f \in 1..l /\ f + 1 \in 1..l /\ f # l
      /\ l \in 1..l /\ l + 1 # l /\ l \in 1..(l + 1) /\ \A f \in 1..l : f \in 1..(l + 1) /\ f # l + 1
  BY <1>1
<1>5. /\ \A f \in 1..(l - 1) : b[f] = fs[f]
      /\ b[l].job = fs[l].job /\ b[l].next = fs[l].next + 1
      /\ \A f \in 1..l : b[f].job = fs[f].job
  BY <1>1, <1>3, <1>4
<1>6. \A f \in 1..l : fs[f].job # k
  BY <1>0, <1>1, SMTT(30) DEF Marks
<1>7. Calls(js, b)
  <2>1. \A f, g \in DOMAIN b : b[f].job = b[g].job => f = g
    <3>1. \A f, g \in 1..l : fs[f].job = fs[g].job => f = g
      BY <1>0, <1>1 DEF Calls
    <3>2. \A f \in 1..(l + 1) : f \in 1..l \/ f = l + 1
      BY <1>1
    <3> QED
      BY <1>3, <1>5, <1>6, <3>1, <3>2
  <2>2. ASSUME NEW f \in DOMAIN b
        PROVE  b[f].next <= Len(js[b[f].job].deps) + 1
    <3>1. CASE f = l
      <4>1. Len(js[fs[l].job].deps) \in Nat
        BY <1>1, DepsFacts
      <4> QED
        BY <1>1, <1>5, <3>1, <4>1
    <3>2. CASE f = l + 1
      <4>1. Len(js[k].deps) \in Nat
        BY DepsFacts
      <4> QED
        BY <1>3, <3>2, <4>1
    <3>3. CASE f \in 1..(l - 1)
      BY <1>0, <1>1, <1>4, <1>5, <3>3, ZenonT(60) DEF Calls
    <3> QED
      BY <1>3, <1>4, <3>1, <3>2, <3>3
  <2>3. ASSUME NEW f \in 1..(Len(b) - 1)
        PROVE  b[f].next > 1 /\ js[b[f].job].deps[b[f].next - 1] = js[b[f + 1].job].name
    <3>0. f \in 1..l
      BY <1>1, <1>3
    <3>1. CASE f \in 1..(l - 1)
      <4>1. fs[f].next > 1 /\ js[fs[f].job].deps[fs[f].next - 1] = js[fs[f + 1].job].name
        BY <1>0, <3>1 DEF Calls, l
      <4> QED
        BY <1>4, <1>5, <3>1, <4>1
    <3>2. CASE f = l
      <4>1. b[l].next > 1 /\ b[l].next - 1 = fs[l].next
        BY <1>1, <1>5, SMTT(30)
      <4> QED
        BY <1>1, <1>3, <1>5, <3>2, <4>1, ZenonT(60)
    <3> QED
      BY <1>4, <3>0, <3>1, <3>2
  <2> QED
    BY <1>3, <2>1, <2>2, <2>3 DEF Calls
<1>8. Passed(js, b, ord)
  <2>1. PassedUpTo(js, ord, fs[l].job, fs[l].next)
    BY <1>0, <1>1, PassedBy DEF l
  <2>2. \A f \in 1..(l - 1) : PassedUpTo(js, ord, fs[f].job, fs[f].next - 1)
    BY <1>0, <1>1, PassedBy DEF l
  <2>3. b[l].next - 1 = fs[l].next
    BY <1>1, <1>5
  <2>4. PassedUpTo(js, ord, k, 1)
    BY DEF PassedUpTo
  <2>5. ASSUME NEW f \in DOMAIN b
        PROVE  PassedUpTo(js, ord, b[f].job, IF f = Len(b) THEN b[f].next ELSE b[f].next - 1)
    <3>1. CASE f = l
      BY <1>3, <1>4, <1>5, <2>1, <2>3, <3>1
    <3>2. CASE f = l + 1
      BY <1>3, <2>4, <3>2
    <3>3. CASE f \in 1..(l - 1)
      BY <1>3, <1>4, <1>5, <2>2, <3>3
    <3> QED
      BY <1>3, <1>4, <3>1, <3>2, <3>3
  <2> QED
    BY <2>5, Zenon DEF Passed
<1>9. Descent(js, b)
  <2> SUFFICES ASSUME NEW r, Ranks(r, js), NEW f \in 1..(l + 1), NEW g \in 1..(l + 1), f < g
               PROVE  r[js[b[g].job].name] < r[js[b[f].job].name]
    BY <1>3 DEF Descent
  <2>1. \A x, y \in 1..l : x < y => r[js[fs[y].job].name] < r[js[fs[x].job].name]
    BY <1>0, <1>1 DEF Descent
  <2>2. r[js[k].name] < r[js[fs[l].job].name]
    <3>1. fs[l].next \in DOMAIN js[fs[l].job].deps
      BY <1>1, DepsFacts
    <3> QED
      BY <1>1, <3>1 DEF Ranks
  <2>3. CASE g = l + 1
    <3>1. f \in 1..l /\ (f = l \/ f < l)
      BY <1>1, <2>3
    <3>2. \A x \in 1..l : r[js[fs[x].job].name] \in Nat
      <4>1. \A x \in 1..l : js[fs[x].job].name \in NamesOf(js)
        <5>1. \A x \in 1..l : fs[x] \in Frames(js)
          BY <1>0, <1>1, ElementOfSeq DEF Calls
        <5> QED
          BY <5>1 DEF Frames, NamesOf
      <4> QED
        BY <4>1 DEF Ranks
    <3>3. r[js[k].name] \in Nat
      BY DEF Ranks, NamesOf
    <3>4. r[js[k].name] < r[js[fs[f].job].name]
      <4>1. CASE f = l
        BY <2>2, <4>1
      <4>2. CASE f < l
        <5>1. r[js[fs[l].job].name] < r[js[fs[f].job].name]
          BY <1>4, <2>1, <3>1, <4>2
        <5>2. r[js[fs[l].job].name] \in Nat /\ r[js[fs[f].job].name] \in Nat
          BY <1>4, <3>1, <3>2, Zenon
        <5>3. \A x, y, z \in Nat : x < y /\ y < z => x < z
          OBVIOUS
        <5> QED
          BY <2>2, <3>3, <5>1, <5>2, <5>3, Zenon
      <4> QED
        BY <3>1, <4>1, <4>2
    <3> QED
      BY <1>3, <1>5, <2>3, <3>1, <3>4
  <2>4. CASE g # l + 1
    <3>1. g \in 1..l /\ f \in 1..l
      BY <1>1, <2>4, SMTT(30)
    <3> QED
      BY <1>5, <2>1, <3>1
  <2> QED
    BY <2>3, <2>4
<1>10. Marks(js, Entered(m, k), b, ord)
  <2>1. ASSUME NEW x \in DOMAIN js
        PROVE  (\E f \in DOMAIN b : b[f].job = x) <=> (x = k \/ \E f \in DOMAIN fs : fs[f].job = x)
    BY <1>1, <1>3, <1>4, <1>5, SMTT(30)
  <2> QED
    BY <1>0, <2>1 DEF Marks, Entered
<1>11. InOrder(js, ord)
  BY DEF Search
<1> QED
  BY <1>7, <1>8, <1>9, <1>10, <1>11 DEF Search, a, b

\* A call that has passed all dependencies returns, its job in the order.
LEMMA SearchLeaves ==
    ASSUME NEW js, IsJobs(js), NEW m, NEW fs, NEW ord, Search(js, m, fs, ord), fs # <<>>,
           Last(fs).next > Len(js[Last(fs).job].deps)
    PROVE  Search(js, [m EXCEPT ![Last(fs).job] = "visited"], Front(fs), Append(ord, Last(fs).job))
<1> DEFINE l == Len(fs)
           a == Front(fs)
           k == fs[l].job
           o == Append(ord, k)
           n == Len(ord)
<1>0. /\ Calls(js, fs) /\ Passed(js, fs, ord) /\ Descent(js, fs) /\ Marks(js, m, fs, ord)
      /\ InOrder(js, ord)
  BY DEF Search
<1>1. /\ l \in Nat \ {0} /\ DOMAIN fs = 1..l
      /\ Last(fs) = fs[l]
      /\ a \in Seq(Frames(js)) /\ Len(a) = l - 1
      /\ \A f \in 1..(l - 1) : a[f] = fs[f]
  <2>1. fs \in Seq(Frames(js))
    BY <1>0 DEF Calls
  <2>2. /\ Front(fs) \in Seq(Frames(js)) /\ Len(Front(fs)) = Len(fs) - 1 /\ Len(fs) \in Nat \ {0}
        /\ \A f \in 1..(Len(fs) - 1) : Front(fs)[f] = fs[f]
    BY <2>1, TopGone
  <2> QED
    BY <2>1, <2>2, LenProperties DEF Last
<1>2. \A f \in 1..l : fs[f] \in Frames(js)
  BY <1>0, <1>1, ElementOfSeq DEF Calls
<1> HIDE DEF a, l
<1>3. DOMAIN a = 1..(l - 1) /\ l - 1 \in Nat
  BY <1>1, LenProperties
<1>4. /\ \A f \in 1..l : f \in 1..(l - 1) \/ f = l
      /\ \A f \in 1..(l - 1) : f \in 1..l /\ f # l /\ f + 1 \in 1..l
      /\ l \in 1..l
  BY <1>1
<1>5. k \in DOMAIN js /\ fs[l].next = Len(js[k].deps) + 1 /\ Len(js[k].deps) \in Nat
  <2>1. k \in DOMAIN js /\ fs[l].next \in Nat \ {0}
    BY <1>2, <1>4 DEF Frames
  <2>2. Len(js[k].deps) \in Nat
    BY <2>1, DepsFacts
  <2>3. fs[l].next <= Len(js[k].deps) + 1 /\ fs[l].next > Len(js[k].deps)
    BY <1>0, <1>1, <1>4 DEF Calls
  <2>4. \A x, c \in Nat : x <= c + 1 /\ x > c => x = c + 1
    OBVIOUS
  <2>5. fs[l].next = Len(js[k].deps) + 1
    BY <2>1, <2>2, <2>3, <2>4, Zenon
  <2> QED
    BY <2>1, <2>2, <2>5, Zenon
<1>6. n \in Nat /\ DOMAIN ord = 1..n /\ ord \in Seq(DOMAIN js)
  BY <1>0, LenProperties DEF InOrder
<1> HIDE DEF k, n
<1>7. /\ o \in Seq(DOMAIN js) /\ DOMAIN o = 1..(n + 1) /\ o[n + 1] = k
      /\ \A i \in 1..n : o[i] = ord[i]
  BY <1>5, <1>6 DEF n
<1>8. /\ \A i \in 1..(n + 1) : i \in 1..n \/ i = n + 1
      /\ \A i \in 1..n : i \in 1..(n + 1)
      /\ n + 1 \in 1..(n + 1)
  BY <1>6
<1>9. m[k] = "visiting" /\ \A i \in 1..n : ord[i] # k
  BY <1>0, <1>1, <1>4, <1>5, <1>6 DEF Marks, k
<1>10. InOrder(js, o)
  <2>1. PassedUpTo(js, ord, k, fs[l].next)
    BY <1>0, <1>1, PassedBy DEF k, l
  <2>2. DOMAIN js[k].deps = 1..(fs[l].next - 1)
    <3>1. DOMAIN js[k].deps = 1..Len(js[k].deps)
      BY <1>5, DepsFacts
    <3> QED
      BY <1>5, <3>1
  <2>3. Before(js, ord, n, k)
    BY <1>6, <2>1, <2>2 DEF PassedUpTo, Before
  <2> QED
    BY <1>0, <1>5, <1>6, <1>9, <2>3, OrderGrows DEF n
<1> HIDE DEF o
<1>11. Calls(js, a)
  <2>1. \A f, g \in DOMAIN a : a[f].job = a[g].job => f = g
    BY <1>0, <1>1, <1>3, <1>4 DEF Calls
  <2>2. \A f \in DOMAIN a : a[f].next <= Len(js[a[f].job].deps) + 1
    BY <1>0, <1>1, <1>3, <1>4 DEF Calls
  <2>3. ASSUME NEW f \in 1..(Len(a) - 1)
        PROVE  a[f].next > 1 /\ js[a[f].job].deps[a[f].next - 1] = js[a[f + 1].job].name
    <3>1. f \in 1..(l - 1) /\ f + 1 \in 1..(l - 1)
      BY <1>1, <1>3
    <3>2. fs[f].next > 1 /\ js[fs[f].job].deps[fs[f].next - 1] = js[fs[f + 1].job].name
      BY <1>0, <3>1 DEF Calls, l
    <3> QED
      BY <1>1, <3>1, <3>2
  <2> QED
    BY <1>1, <2>1, <2>2, <2>3 DEF Calls
<1>12. Passed(js, a, o)
  <2>1. ASSUME NEW x, NEW y, PassedUpTo(js, ord, x, y)
        PROVE  PassedUpTo(js, o, x, y)
    BY <1>6, <1>7, <1>8, <2>1 DEF PassedUpTo
  <2>2. ASSUME NEW f \in 1..(l - 1)
        PROVE  PassedUpTo(js, o, fs[f].job, fs[f].next - 1)
    <3>1. PassedUpTo(js, ord, fs[f].job, fs[f].next - 1)
      BY <1>0, <1>1, <2>2, PassedBy DEF l
    <3> QED
      BY <2>1, <3>1, Zenon
  <2>3. ASSUME NEW f \in 1..(l - 1), f = l - 1
        PROVE  PassedUpTo(js, o, fs[f].job, fs[f].next)
    <3>1. fs[f].next > 1 /\ js[fs[f].job].deps[fs[f].next - 1] = js[k].name
      <4>1. fs[f].next > 1 /\ js[fs[f].job].deps[fs[f].next - 1] = js[fs[f + 1].job].name
        BY <1>0, <2>3 DEF Calls, l
      <4>2. f + 1 = l
        BY <1>1, <2>3
      <4> QED
        BY <4>1, <4>2 DEF k
    <3>2. fs[f].next \in Nat
      BY <1>2, <1>4, <2>3 DEF Frames
    <3>3. \A d \in 1..(fs[f].next - 1) : d \in 1..(fs[f].next - 1 - 1) \/ d = fs[f].next - 1
      BY <3>1, <3>2
    <3>4. PassedUpTo(js, o, fs[f].job, fs[f].next - 1)
      BY <2>2
    <3>5. \E i \in DOMAIN o : js[o[i]].name = js[k].name
      BY <1>7, <1>8
    <3> QED
      BY <3>1, <3>3, <3>4, <3>5 DEF PassedUpTo
  <2> QED
    BY <1>1, <1>3, <1>4, <2>2, <2>3 DEF Passed
<1>13. Descent(js, a)
  BY <1>0, <1>1, <1>3, <1>4 DEF Descent
<1>14. Marks(js, [m EXCEPT ![k] = "visited"], a, o)
  <2>1. ASSUME NEW x \in DOMAIN js
        PROVE  /\ (\E f \in DOMAIN a : a[f].job = x) <=> (x # k /\ \E f \in DOMAIN fs : fs[f].job = x)
               /\ (\E i \in DOMAIN o : o[i] = x) <=> (x = k \/ \E i \in DOMAIN ord : ord[i] = x)
    <3>1. \A f \in 1..(l - 1) : fs[f].job # k
      BY <1>0, <1>1, <1>4 DEF Calls, k
    <3>2. (\E f \in DOMAIN a : a[f].job = x) <=> (x # k /\ \E f \in DOMAIN fs : fs[f].job = x)
      BY <1>1, <1>3, <1>4, <3>1 DEF k
    <3>3. (\E i \in DOMAIN o : o[i] = x) <=> (x = k \/ \E i \in DOMAIN ord : ord[i] = x)
      BY <1>6, <1>7, <1>8
    <3> QED
      BY <3>2, <3>3
  <2> QED
    BY <1>0, <1>5, <2>1 DEF Marks
<1> QED
  BY <1>1, <1>10, <1>11, <1>12, <1>13, <1>14 DEF Search, a, o, k

\* When every job has been visited, the order is a topological one.
LEMMA SearchEnds ==
    ASSUME NEW js, NEW m, NEW fs, NEW ord, Search(js, m, fs, ord),
           \A k \in DOMAIN js : m[k] = "visited"
    PROVE  Topological(js, ord)
BY DEF Search, Marks, Topological

\* A ranked list never has the search meet a job that is being visited.
LEMMA NoCycle ==
    ASSUME NEW js, IsJobs(js), Valid(js), Acyclic(js), NEW m, NEW fs, NEW ord,
           Search(js, m, fs, ord), fs # <<>>,
           Last(fs).next <= Len(js[Last(fs).job].deps),
           NEW k \in DOMAIN js, js[k].name = js[Last(fs).job].deps[Last(fs).next]
    PROVE  m[k] # "visiting"
<1> SUFFICES ASSUME m[k] = "visiting"
             PROVE  FALSE
  OBVIOUS
<1> DEFINE l == Len(fs)
<1>0. Calls(js, fs) /\ Descent(js, fs) /\ Marks(js, m, fs, ord)
  BY DEF Search
<1>1. /\ l \in Nat \ {0} /\ DOMAIN fs = 1..l
      /\ Last(fs) = fs[l]
      /\ fs[l].job \in DOMAIN js /\ fs[l].next \in 1..Len(js[fs[l].job].deps)
  BY <1>0, AdvancedCalls
<1>2. PICK r : Ranks(r, js)
  BY DEF Acyclic
<1>3. PICK f \in 1..l : fs[f].job = k
  BY <1>0, <1>1 DEF Marks
<1>4. r[js[k].name] < r[js[fs[l].job].name]
  <2>1. fs[l].next \in DOMAIN js[fs[l].job].deps
    BY <1>1, DepsFacts
  <2> QED
    BY <1>1, <1>2, <2>1 DEF Ranks
<1>5. js[k].name \in NamesOf(js) /\ js[fs[l].job].name \in NamesOf(js)
  BY <1>1 DEF NamesOf
<1>6. r[js[k].name] \in Nat /\ r[js[fs[l].job].name] \in Nat
  BY <1>2, <1>5 DEF Ranks
<1> HIDE DEF l
<1>7. CASE f = l
  BY <1>3, <1>4, <1>6, <1>7, SMTT(30)
<1>8. CASE f # l
  <2>1. f < l /\ l \in 1..l
    BY <1>1, <1>8
  <2>2. r[js[fs[l].job].name] < r[js[fs[f].job].name]
    BY <1>0, <1>1, <1>2, <2>1 DEF Descent
  <2> QED
    BY <1>3, <1>4, <1>6, <2>2
<1> QED
  BY <1>7, <1>8

\* The place in a topological order ranks the jobs.
LEMMA TopologicalRanks ==
    ASSUME NEW js, IsJobs(js), Valid(js), NEW ord, Topological(js, ord)
    PROVE  Acyclic(js)
<1> DEFINE Place(n) == CHOOSE i \in DOMAIN ord : js[ord[i]].name = n
           r == [n \in NamesOf(js) |-> Place(n)]
<1>1. ord \in Seq(DOMAIN js) /\ DOMAIN ord = 1..Len(ord) /\ Len(ord) \in Nat
  BY LenProperties DEF Topological, InOrder
<1>2. \A i \in DOMAIN ord : ord[i] \in DOMAIN js
  BY <1>1, ElementOfSeq
<1>3. ASSUME NEW n \in NamesOf(js)
      PROVE  Place(n) \in DOMAIN ord /\ js[ord[Place(n)]].name = n
  <2>1. \E i \in DOMAIN ord : js[ord[i]].name = n
    BY DEF Topological, NamesOf
  <2> QED
    BY <2>1
<1>4. ASSUME NEW n \in NamesOf(js), NEW i \in DOMAIN ord, js[ord[i]].name = n
      PROVE  Place(n) = i
  <2>1. ord[Place(n)] = ord[i]
    BY <1>2, <1>3, <1>4, NamesDiffer
  <2> QED
    BY <1>3, <2>1 DEF Topological, InOrder
<1> HIDE DEF Place
<1>5. ASSUME NEW k \in DOMAIN js, NEW d \in DOMAIN js[k].deps
      PROVE  js[k].deps[d] \in NamesOf(js) /\ r[js[k].deps[d]] < r[js[k].name]
  <2>1. PICK p \in DOMAIN ord : ord[p] = k
    BY DEF Topological
  <2>2. PICK i \in 1..(p - 1) : js[ord[i]].name = js[k].deps[d]
    BY <2>1 DEF Topological, InOrder, Before
  <2>3. i \in DOMAIN ord /\ i < p
    BY <1>1, <2>1, <2>2
  <2>4. js[k].deps[d] \in NamesOf(js) /\ js[k].name \in NamesOf(js)
    BY <1>2, <2>2, <2>3 DEF NamesOf
  <2>5. Place(js[k].deps[d]) = i /\ Place(js[k].name) = p
    BY <1>4, <2>1, <2>2, <2>3, <2>4
  <2> QED
    BY <2>3, <2>4, <2>5
<1>6. r \in [NamesOf(js) -> Nat]
  BY <1>1, <1>3
<1> HIDE DEF r
<1> QED
  BY <1>5, <1>6 DEF Acyclic, Ranks

\* A topological order is as long as the list.
LEMMA TopologicalLength ==
    ASSUME NEW js, IsJobs(js), NEW ord, Topological(js, ord)
    PROVE  Len(ord) = Len(js) /\ ToSet(ord) = DOMAIN js
<1>1. IsList(ord) /\ DOMAIN ord = 1..Len(ord) /\ \A i \in DOMAIN ord : ord[i] \in DOMAIN js
  <2>1. ord \in Seq(DOMAIN js)
    BY DEF Topological, InOrder
  <2>2. Len(ord) \in Nat /\ DOMAIN ord = 1..Len(ord) /\ ord = [i \in 1..Len(ord) |-> ord[i]]
    BY <2>1, LenProperties
  <2> QED
    BY <2>1, <2>2, MakeList, ElementOfSeq
<1>2. ToSet(ord) = DOMAIN js
  BY <1>1 DEF Topological, ToSet
<1>3. Cardinality(ToSet(ord)) = Len(ord)
  BY <1>1, Repetitions DEF Topological, InOrder
<1>4. Len(js) \in Nat /\ DOMAIN js = 1..Len(js)
  BY ListFacts DEF IsJobs
<1>5. Cardinality(1..Len(js)) = Len(js)
  <2>1. Cardinality(1..Len(js)) = IF 1 <= Len(js) THEN Len(js) - 1 + 1 ELSE 0
    BY <1>4, FS_Interval, SMTT(30)
  <2> HIDE DEF IsJobs
  <2>2. Len(js) = 0 \/ 1 <= Len(js)
    BY <1>4
  <2> QED
    BY <1>4, <2>1, <2>2
<1> QED
  BY <1>2, <1>3, <1>4, <1>5

-----------------------------------------------------------------------------
(* Expansion.                                                              *)

\* A function on the places of a list is a list.
LEMMA SamePlaces ==
    ASSUME NEW s, IsList(s), NEW t, t = [k \in DOMAIN s |-> t[k]]
    PROVE  IsList(t) /\ Len(t) = Len(s) /\ DOMAIN t = DOMAIN s
BY ListFacts, MakeList

NoCombination == <<[n \in {} |-> NoMatrix]>>

\* The combinations of the dimensions up to each.
UpTo(f, m, n) ==
    f = [i \in 0..n |-> IF i = 0 THEN NoCombination ELSE Multiplied(f[i - 1], m[i])]

\* There are such.
LEMMA UpToExists ==
    ASSUME NEW m, NEW n \in Nat
    PROVE  \E f : UpTo(f, m, n)
<1> DEFINE S == {k \in Nat : \E f : UpTo(f, m, k)}
<1>1. 0 \in S
  <2> DEFINE zero == [k \in 0..0 |-> NoCombination]
  <2>1. UpTo(zero, m, 0)
    BY DEF UpTo
  <2> QED
    BY <2>1
<1>2. ASSUME NEW k \in Nat, k \in S
      PROVE  k + 1 \in S
  <2>1. PICK f : UpTo(f, m, k)
    BY <1>2
  <2> DEFINE next == Multiplied(f[k], m[k + 1])
             more == [i \in 0..(k + 1) |-> IF i = k + 1 THEN next ELSE f[i]]
  <2>2. /\ \A i \in 0..k : f[i] = IF i = 0 THEN NoCombination ELSE Multiplied(f[i - 1], m[i])
        /\ \A i \in 0..k : more[i] = f[i]
        /\ more[k + 1] = next /\ more = [i \in 0..(k + 1) |-> more[i]]
    <3>1. \A i \in 0..k : f[i] = IF i = 0 THEN NoCombination ELSE Multiplied(f[i - 1], m[i])
      BY <2>1 DEF UpTo
    <3> HIDE DEF next
    <3> QED
      BY <3>1
  <2> HIDE DEF more
  <2>3. ASSUME NEW i \in 0..(k + 1)
        PROVE  more[i] = IF i = 0 THEN NoCombination ELSE Multiplied(more[i - 1], m[i])
    <3>1. i # 0 => i - 1 \in 0..k /\ (i = k + 1 => i - 1 = k)
      OBVIOUS
    <3>2. CASE i = k + 1
      <4>1. i # 0 /\ more[i - 1] = f[k]
        BY <2>2, <3>1, <3>2
      <4> QED
        BY <2>2, <3>2, <4>1
    <3>3. CASE i # k + 1
      <4>1. i \in 0..k
        BY <3>3
      <4> QED
        BY <2>2, <3>1, <4>1
    <3> QED
      BY <3>2, <3>3
  <2>4. UpTo(more, m, k + 1)
    BY <2>2, <2>3 DEF UpTo
  <2> QED
    BY <2>4
<1> HIDE DEF S
<1>3. Nat \subseteq S
  BY <1>1, <1>2, Induction
<1> QED
  BY <1>3 DEF S

\* A list of lists is flattened to a list of what they hold.
LEMMA FlattenedList ==
    ASSUME NEW seqs, IsList(seqs), \A k \in DOMAIN seqs : IsList(seqs[k])
    PROVE  LET t == FlattenSeq(seqs) IN
           /\ IsList(t)
           /\ \A i \in DOMAIN t : \E k \in DOMAIN seqs : \E l \in DOMAIN seqs[k] : t[i] = seqs[k][l]
<1>1. PICK row, col : Laid(FlattenSeq(seqs), seqs, Len(seqs), row, col)
  BY Flattened
<1>2. DOMAIN seqs = 1..Len(seqs)
  BY ListFacts
<1> QED
  BY <1>1, <1>2 DEF Laid

\* The combinations of a matrix are a list.
LEMMA CombinationsListed ==
    ASSUME NEW m, IsMatrix(m)
    PROVE  IsList(Combinations(m))
<1> DEFINE n == Len(m)
           f == CHOOSE x : UpTo(x, m, n)
<1>1. n \in Nat /\ DOMAIN m = 1..n
  BY ListFacts DEF IsMatrix
<1>2. UpTo(f, m, n)
  BY <1>1, UpToExists
<1>3. Combinations(m) = f[n]
  BY DEF Combinations, UpTo, NoCombination
<1> HIDE DEF f, n
<1>4. \A i \in 0..n : f[i] = IF i = 0 THEN NoCombination ELSE Multiplied(f[i - 1], m[i])
  BY <1>2 DEF UpTo
<1> DEFINE S == {i \in Nat : i <= n => IsList(f[i])}
<1>5. 0 \in S
  <2>1. NoCombination = [i \in 1..1 |-> NoCombination[i]]
    BY DEF NoCombination
  <2>2. IsList(NoCombination)
    BY <2>1, MakeList
  <2> QED
    BY <1>1, <1>4, <2>2
<1>6. ASSUME NEW i \in Nat, i \in S
      PROVE  i + 1 \in S
  <2> SUFFICES ASSUME i + 1 <= n
               PROVE  IsList(f[i + 1])
    OBVIOUS
  <2> DEFINE seqs == [c \in DOMAIN f[i] |-> [v \in DOMAIN m[i + 1].values |->
                        Over(f[i][c], [x \in {m[i + 1].name} |-> m[i + 1].values[v]])]]
  <2>1. IsList(f[i]) /\ IsList(m[i + 1].values)
    BY <1>1, <1>6 DEF IsMatrix
  <2>2. IsList(seqs) /\ DOMAIN seqs = DOMAIN f[i]
    <3>1. seqs = [c \in DOMAIN f[i] |-> seqs[c]]
      OBVIOUS
    <3> HIDE DEF seqs
    <3> QED
      BY <2>1, <3>1, SamePlaces
  <2>3. ASSUME NEW c \in DOMAIN f[i]
        PROVE  IsList(seqs[c])
    <3>1. seqs[c] = [v \in DOMAIN m[i + 1].values |-> seqs[c][v]]
      OBVIOUS
    <3> HIDE DEF seqs
    <3> QED
      BY <2>1, <3>1, SamePlaces, SMTT(30)
  <2>4. f[i + 1] = FlattenSeq(seqs)
    <3>1. i + 1 \in 0..n /\ i + 1 # 0 /\ (i + 1) - 1 = i
      BY <1>1
    <3>2. f[i + 1] = Multiplied(f[i], m[i + 1])
      BY <1>4, <3>1
    <3> QED
      BY <3>2 DEF Multiplied
  <2> HIDE DEF seqs
  <2> QED
    BY <2>2, <2>3, <2>4, FlattenedList
<1> HIDE DEF S
<1>7. Nat \subseteq S
  BY <1>5, <1>6, Induction
<1> QED
  BY <1>1, <1>3, <1>7 DEF S

\* What has the fields of a job, with lists where a job has them, is a job.
LEMMA JobAgain ==
    ASSUME NEW job, IsJob(job), NEW j, DOMAIN j = DOMAIN job, IsList(j.deps), IsList(j.arts),
           j.matrix \in {job.matrix, NoMatrix}, IsList(j.steps),
           \A s \in DOMAIN j.steps : IsStep(j.steps[s])
    PROVE  IsJob(j)
BY DEF IsJob

\* The steps of a job, each with other artifacts and caches.
LEMMA StepsAgain ==
    ASSUME NEW steps, IsList(steps), \A s \in DOMAIN steps : IsStep(steps[s]),
           NEW t, t = [s \in DOMAIN steps |-> t[s]],
           \A s \in DOMAIN steps :
              DOMAIN t[s] = DOMAIN steps[s] /\ t[s].arts = [a \in DOMAIN steps[s].arts |-> t[s].arts[a]]
    PROVE  IsList(t) /\ \A s \in DOMAIN t : IsStep(t[s])
<1>1. IsList(t) /\ DOMAIN t = DOMAIN steps
  BY SamePlaces
<1>2. ASSUME NEW s \in DOMAIN t
      PROVE  IsStep(t[s])
  <2>1. IsList(steps[s].arts)
    BY <1>1 DEF IsStep
  <2>2. IsList(t[s].arts)
    BY <1>1, <2>1, SamePlaces
  <2> QED
    BY <1>1, <2>2 DEF IsStep
<1> QED
  BY <1>1, <1>2

\* A job whose artifacts' and steps' artifacts' origins are mapped.
LEMMA MappedJob ==
    ASSUME NEW job, IsJob(job), NEW j, DOMAIN j = DOMAIN job, IsList(j.deps),
           j.matrix \in {job.matrix, NoMatrix},
           j.arts = [a \in DOMAIN job.arts |-> j.arts[a]],
           j.steps = [s \in DOMAIN job.steps |-> j.steps[s]],
           \A s \in DOMAIN job.steps :
              /\ DOMAIN j.steps[s] = DOMAIN job.steps[s]
              /\ j.steps[s].arts = [a \in DOMAIN job.steps[s].arts |-> j.steps[s].arts[a]]
    PROVE  IsJob(j)
<1>1. IsList(job.arts) /\ IsList(job.steps) /\ \A s \in DOMAIN job.steps : IsStep(job.steps[s])
  BY DEF IsJob
<1>2. IsList(j.arts)
  BY <1>1, SamePlaces
<1>3. IsList(j.steps) /\ \A s \in DOMAIN j.steps : IsStep(j.steps[s])
  BY <1>1, StepsAgain
<1> QED
  BY <1>2, <1>3, JobAgain

\* Namespacing the caches leaves a job a job.
LEMMA NamespacedJob ==
    ASSUME NEW job, IsJob(job), NEW name
    PROVE  IsJob(NamespaceCaches(job, name))
<1> DEFINE j == NamespaceCaches(job, name)
<1>0. /\ DOMAIN job = {"name", "deps", "arts", "caches", "matrix", "image", "platform", "exports", "publish", "steps"}
      /\ IsList(job.deps) /\ IsList(job.arts) /\ IsList(job.steps)
      /\ \A s \in DOMAIN job.steps : IsStep(job.steps[s])
  BY DEF IsJob
<1>1. /\ DOMAIN j = DOMAIN job /\ j.deps = job.deps /\ j.arts = job.arts /\ j.matrix = job.matrix
      /\ j.steps = [s \in DOMAIN job.steps |-> NamespacedStep(job.steps[s], name)]
  BY <1>0 DEF NamespaceCaches
<1>2. /\ j.steps = [s \in DOMAIN job.steps |-> j.steps[s]]
      /\ \A s \in DOMAIN job.steps : DOMAIN j.steps[s] = DOMAIN job.steps[s] /\ j.steps[s].arts = job.steps[s].arts
  BY <1>0, <1>1 DEF IsStep, NamespacedStep
<1> HIDE DEF j
<1>3. \A s \in DOMAIN job.steps : j.steps[s].arts = [a \in DOMAIN job.steps[s].arts |-> j.steps[s].arts[a]]
  <2>1. \A s \in DOMAIN job.steps : IsList(job.steps[s].arts)
    BY <1>0 DEF IsStep
  <2>2. \A s \in DOMAIN job.steps : job.steps[s].arts = [a \in DOMAIN job.steps[s].arts |-> job.steps[s].arts[a]]
    BY <2>1, ListFacts
  <2> QED
    BY <1>2, <2>2
<1>4. IsList(j.steps) /\ \A s \in DOMAIN j.steps : IsStep(j.steps[s])
  BY <1>0, <1>2, <1>3, StepsAgain, ZenonT(60)
<1>5. IsJob(j)
  BY <1>0, <1>1, <1>4, JobAgain
<1> QED
  BY <1>5 DEF j

\* Nor do new origins for the artifacts, in a job with a name and dependencies
\* that may be others.
LEMMA ReplicaIsJob ==
    ASSUME NEW job, IsJob(job), NEW combo
    PROVE  IsJob(Replica(job, combo))
<1> DEFINE name == ExpandedName(job.name, combo)
           j == MapFroms([job EXCEPT !.name = name, !.deps = CorrelateDeps(@, combo),
                               !.platform = Substituted(@, combo)],
                         LAMBDA from : ExpandedName(from, combo))
<1>0. /\ DOMAIN job = {"name", "deps", "arts", "caches", "matrix", "image", "platform", "exports", "publish", "steps"}
      /\ IsList(job.deps) /\ \A s \in DOMAIN job.steps : IsStep(job.steps[s])
  BY DEF IsJob
<1>1. /\ DOMAIN j = DOMAIN job /\ j.matrix = job.matrix
      /\ j.deps = [k \in DOMAIN job.deps |-> ExpandedName(job.deps[k], combo)]
      /\ j.arts = [a \in DOMAIN job.arts |-> ExpandedName(job.arts[a], combo)]
      /\ j.steps = [s \in DOMAIN job.steps |->
            [job.steps[s] EXCEPT !.arts = [a \in DOMAIN @ |-> ExpandedName(@[a], combo)]]]
  BY <1>0 DEF MapFroms, MapStepFroms, Each, CorrelateDeps
<1>2. /\ j.arts = [a \in DOMAIN job.arts |-> j.arts[a]]
      /\ j.deps = [k \in DOMAIN job.deps |-> j.deps[k]]
      /\ j.steps = [s \in DOMAIN job.steps |-> j.steps[s]]
      /\ \A s \in DOMAIN job.steps :
            /\ DOMAIN j.steps[s] = DOMAIN job.steps[s]
            /\ j.steps[s].arts = [a \in DOMAIN job.steps[s].arts |-> ExpandedName(job.steps[s].arts[a], combo)]
  <2> HIDE DEF j
  <2> QED
    BY <1>0, <1>1 DEF IsStep
<1>3. Replica(job, combo) = NamespaceCaches(j, name)
  BY DEF Replica
<1> HIDE DEF j
<1>4. \A s \in DOMAIN job.steps : j.steps[s].arts = [a \in DOMAIN job.steps[s].arts |-> j.steps[s].arts[a]]
  BY <1>2
<1>5. IsList(j.deps)
  BY <1>0, <1>2, SamePlaces
<1>6. IsJob(j)
  BY <1>1, <1>2, <1>4, <1>5, MappedJob
<1> QED
  BY <1>3, <1>6, NamespacedJob

\* A variant is a job.
LEMMA VariantIsJob ==
    ASSUME NEW job, IsJob(job), NEW combo
    PROVE  IsJob(Variant(job, combo))
<1> DEFINE name == ExpandedName(job.name, combo)
           j == [job EXCEPT !.name = name, !.matrix = NoMatrix, !.platform = Substituted(@, combo)]
<1>0. DOMAIN job = {"name", "deps", "arts", "caches", "matrix", "image", "platform", "exports", "publish", "steps"}
  BY DEF IsJob
<1>1. /\ DOMAIN j = DOMAIN job /\ j.deps = job.deps /\ j.arts = job.arts /\ j.steps = job.steps
      /\ j.matrix = NoMatrix
  BY <1>0
<1>2. Variant(job, combo) = NamespaceCaches(j, name)
  BY DEF Variant
<1> HIDE DEF j
<1>3. IsJob(j)
  BY <1>0, <1>1 DEF IsJob
<1> QED
  BY <1>2, <1>3, NamespacedJob

\* The variants of a job are a list of jobs.
LEMMA VariantsAreJobs ==
    ASSUME NEW job, IsJob(job)
    PROVE  IsJobs(Variants(job))
<1>1. CASE job.matrix = NoMatrix
  <2>1. Variants(job) = <<job>> /\ <<job>> = [i \in 1..1 |-> <<job>>[i]] /\ DOMAIN <<job>> = 1..1 /\ <<job>>[1] = job
    BY <1>1 DEF Variants
  <2>2. IsList(<<job>>)
    BY <2>1, MakeList
  <2> QED
    BY <2>1, <2>2 DEF IsJobs
<1>2. CASE job.matrix # NoMatrix
  <2> DEFINE c == Combinations(job.matrix)
             v == Variants(job)
  <2>1. IsList(c)
    BY <1>2, CombinationsListed DEF IsJob
  <2>2. v = [k \in DOMAIN c |-> Variant(job, c[k])]
    BY <1>2 DEF Variants, Each
  <2> HIDE DEF c, v
  <2>3. IsList(v) /\ DOMAIN v = DOMAIN c
    BY <2>1, <2>2, SamePlaces
  <2>4. \A k \in DOMAIN v : IsJob(v[k])
    BY <2>2, <2>3, VariantIsJob
  <2> QED
    BY <2>3, <2>4 DEF IsJobs, v
<1> QED
  BY <1>1, <1>2

\* Lists of jobs flattened are jobs.
LEMMA FlattenedJobs ==
    ASSUME NEW seqs, IsList(seqs), \A k \in DOMAIN seqs : IsJobs(seqs[k])
    PROVE  IsJobs(FlattenSeq(seqs))
<1> DEFINE t == FlattenSeq(seqs)
<1>1. \A k \in DOMAIN seqs : IsList(seqs[k])
  BY DEF IsJobs
<1>2. IsList(t) /\ \A i \in DOMAIN t : \E k \in DOMAIN seqs : \E l \in DOMAIN seqs[k] : t[i] = seqs[k][l]
  BY <1>1, FlattenedList
<1> HIDE DEF t
<1>3. \A i \in DOMAIN t : IsJob(t[i])
  BY <1>2 DEF IsJobs
<1> QED
  BY <1>2, <1>3 DEF IsJobs, t

\* The replicas of a pipeline are a list of jobs.
LEMMA ReplicasAreJobs ==
    ASSUME NEW m, IsMatrix(m), NEW js, IsJobs(js)
    PROVE  IsJobs(PipelineReplicas(m, js))
<1> DEFINE c == Combinations(m)
           seqs == [k \in DOMAIN c |-> [i \in DOMAIN js |-> Replica(js[i], c[k])]]
<1>1. IsList(c)
  BY CombinationsListed
<1>2. PipelineReplicas(m, js) = FlattenSeq(seqs)
  BY DEF PipelineReplicas, Each
<1> HIDE DEF c
<1>3. seqs = [k \in DOMAIN c |-> seqs[k]] /\ \A k \in DOMAIN c : seqs[k] = [i \in DOMAIN js |-> Replica(js[i], c[k])]
  OBVIOUS
<1> HIDE DEF seqs
<1>4. IsList(seqs) /\ DOMAIN seqs = DOMAIN c
  BY <1>1, <1>3, SamePlaces
<1>5. ASSUME NEW k \in DOMAIN c
      PROVE  IsJobs(seqs[k])
  <2>1. IsList(seqs[k]) /\ DOMAIN seqs[k] = DOMAIN js
    BY <1>3, SamePlaces DEF IsJobs
  <2>2. \A i \in DOMAIN js : IsJob(seqs[k][i])
    BY <1>3, ReplicaIsJob DEF IsJobs
  <2> QED
    BY <2>1, <2>2 DEF IsJobs
<1> QED
  BY <1>2, <1>4, <1>5, FlattenedJobs

\* Among the places of a list that are in S there is a last.
LEMMA LastPlace ==
    ASSUME NEW n \in Nat, NEW S \in SUBSET (1..n), S # {}
    PROVE  \E k \in S : \A i \in S : i <= k
<1> DEFINE T == {n - i : i \in S}
<1>1. T \in SUBSET Nat /\ T # {}
  <2>1. \A i \in S : n - i \in Nat
    OBVIOUS
  <2> QED
    BY <2>1
<1>2. PICK x \in T : \A y \in T : x <= y
  BY <1>1, LeastNumber
<1>3. PICK k \in S : x = n - k
  BY <1>2
<1>4. ASSUME NEW i \in S
      PROVE  i <= k
  <2>1. n - k <= n - i
    BY <1>2, <1>3
  <2> QED
    BY <2>1
<1> QED
  BY <1>4

\* What a name stands for after the expansion is a list of names.
LEMMA ExpansionsListed ==
    ASSUME NEW js, IsJobs(js), NEW n \in DOMAIN ExpansionMap(js)
    PROVE  IsList(ExpansionMap(js)[n])
<1> DEFINE S == {k \in DOMAIN js : js[k].name = n}
           IsLast(k) == js[k].name = n /\ \A i \in DOMAIN js : js[i].name = n => i <= k
           last == CHOOSE k \in DOMAIN js : IsLast(k)
           v == Variants(js[last])
<1>1. DOMAIN js = 1..Len(js) /\ Len(js) \in Nat
  BY ListFacts DEF IsJobs
<1>2. n \in {js[k].name : k \in DOMAIN js} /\ ExpansionMap(js)[n] = [k \in DOMAIN v |-> v[k].name]
  BY DEF ExpansionMap, Each
<1>3. \E k \in DOMAIN js : IsLast(k)
  <2>1. S \in SUBSET (1..Len(js)) /\ S # {}
    BY <1>1, <1>2
  <2> HIDE DEF S
  <2>2. \E k \in S : \A i \in S : i <= k
    BY <1>1, <2>1, LastPlace
  <2> QED
    BY <2>2 DEF S
<1>4. last \in DOMAIN js
  <2> HIDE DEF IsLast
  <2> QED
    BY <1>3
<1> HIDE DEF last
<1>5. IsList(v)
  BY <1>4, VariantsAreJobs DEF IsJobs
<1> DEFINE t == [k \in DOMAIN v |-> v[k].name]
<1>6. t = [k \in DOMAIN v |-> t[k]]
  OBVIOUS
<1> HIDE DEF v, t
<1>7. IsList(t)
  BY <1>5, <1>6, SamePlaces
<1> QED
  BY <1>2, <1>7 DEF t

\* The rewritten dependencies are a list.
LEMMA RewrittenListed ==
    ASSUME NEW js, IsJobs(js), NEW deps, IsList(deps)
    PROVE  IsList(RewriteDeps(deps, ExpansionMap(js)))
<1> DEFINE x == ExpansionMap(js)
           seqs == [k \in DOMAIN deps |-> IF deps[k] \in DOMAIN x THEN x[deps[k]] ELSE <<deps[k]>>]
<1>1. RewriteDeps(deps, x) = FlattenSeq(seqs)
  BY DEF RewriteDeps, Each
<1>2. \A n \in DOMAIN x : IsList(x[n])
  BY ExpansionsListed
<1> HIDE DEF x
<1>3. \A n : IsList(<<n>>)
  <2> SUFFICES ASSUME NEW n
               PROVE  IsList(<<n>>)
    OBVIOUS
  <2>1. <<n>> = [i \in 1..1 |-> <<n>>[i]]
    OBVIOUS
  <2> QED
    BY <2>1, MakeList
<1>4. /\ seqs = [k \in DOMAIN deps |-> seqs[k]]
      /\ \A k \in DOMAIN deps : seqs[k] = IF deps[k] \in DOMAIN x THEN x[deps[k]] ELSE <<deps[k]>>
  OBVIOUS
<1> HIDE DEF seqs
<1>5. IsList(seqs) /\ DOMAIN seqs = DOMAIN deps
  BY <1>4, SamePlaces
<1>6. \A k \in DOMAIN seqs : IsList(seqs[k])
  BY <1>2, <1>3, <1>4, <1>5
<1> QED
  BY <1>1, <1>5, <1>6, FlattenedList DEF x

\* The variants of a list of jobs are a list of jobs.
LEMMA JobVariantsAreJobs ==
    ASSUME NEW js, IsJobs(js)
    PROVE  IsJobs(JobVariants(js))
<1> DEFINE x == ExpansionMap(js)
           seqs == [k \in DOMAIN js |-> Variants(js[k])]
           flat == FlattenSeq(seqs)
           With(job) == [job EXCEPT !.deps = RewriteDeps(@, x)]
           Rewritten(job) == MapFroms(With(job), LAMBDA from : RewriteFrom(from, x))
           res == [k \in DOMAIN flat |-> Rewritten(flat[k])]
<1>1. JobVariants(js) = res
  BY DEF JobVariants, Each
<1>2. IsJobs(flat)
  <2>1. seqs = [k \in DOMAIN js |-> seqs[k]] /\ \A k \in DOMAIN js : seqs[k] = Variants(js[k])
    OBVIOUS
  <2> HIDE DEF seqs
  <2>2. IsList(seqs) /\ DOMAIN seqs = DOMAIN js
    BY <2>1, SamePlaces DEF IsJobs
  <2>3. \A k \in DOMAIN seqs : IsJobs(seqs[k])
    BY <2>1, <2>2, VariantsAreJobs DEF IsJobs
  <2> QED
    BY <2>2, <2>3, FlattenedJobs
<1> HIDE DEF flat
<1>3. ASSUME NEW job, IsJob(job)
      PROVE  IsJob(Rewritten(job))
  <2> DEFINE w == With(job)
             j == Rewritten(job)
  <2>0. /\ DOMAIN job = {"name", "deps", "arts", "caches", "matrix", "image", "platform", "exports", "publish", "steps"}
        /\ IsList(job.deps) /\ IsList(job.arts) /\ IsList(job.steps)
        /\ \A s \in DOMAIN job.steps : IsStep(job.steps[s])
    BY <1>3 DEF IsJob
  <2>1. /\ DOMAIN w = DOMAIN job /\ w.matrix = job.matrix /\ w.arts = job.arts /\ w.steps = job.steps
        /\ w.deps = RewriteDeps(job.deps, x)
    BY <2>0
  <2>2. IsList(RewriteDeps(job.deps, x))
    BY <2>0, RewrittenListed
  <2> HIDE DEF w, x
  <2>3. /\ DOMAIN j = DOMAIN job /\ j.matrix = job.matrix /\ j.deps = w.deps
        /\ j.arts = [a \in DOMAIN job.arts |-> RewriteFrom(job.arts[a], x)]
        /\ j.steps = [s \in DOMAIN job.steps |->
              [job.steps[s] EXCEPT !.arts = [a \in DOMAIN @ |-> RewriteFrom(@[a], x)]]]
    <3>1. j = MapFroms(w, LAMBDA from : RewriteFrom(from, x))
      BY DEF w
    <3> HIDE DEF j
    <3> QED
      BY <2>0, <2>1, <3>1 DEF MapFroms, MapStepFroms, Each
  <2> HIDE DEF j
  <2>4. /\ j.arts = [a \in DOMAIN job.arts |-> j.arts[a]]
        /\ j.steps = [s \in DOMAIN job.steps |-> j.steps[s]]
        /\ \A s \in DOMAIN job.steps :
              /\ DOMAIN j.steps[s] = DOMAIN job.steps[s]
              /\ j.steps[s].arts = [a \in DOMAIN job.steps[s].arts |-> RewriteFrom(job.steps[s].arts[a], x)]
    BY <2>0, <2>3 DEF IsStep
  <2>5. \A s \in DOMAIN job.steps : j.steps[s].arts = [a \in DOMAIN job.steps[s].arts |-> j.steps[s].arts[a]]
    BY <2>4
  <2>6. IsList(j.deps)
    BY <2>1, <2>2, <2>3
  <2>7. IsJob(j)
    BY <1>3, <2>3, <2>4, <2>5, <2>6, MappedJob
  <2> QED
    BY <2>7 DEF j
<1> HIDE DEF Rewritten
<1>4. res = [k \in DOMAIN flat |-> res[k]] /\ \A k \in DOMAIN flat : res[k] = Rewritten(flat[k])
  OBVIOUS
<1> HIDE DEF res
<1>5. IsList(res) /\ DOMAIN res = DOMAIN flat
  BY <1>2, <1>4, SamePlaces DEF IsJobs
<1>6. \A k \in DOMAIN res : IsJob(res[k])
  BY <1>2, <1>3, <1>4, <1>5 DEF IsJobs
<1> QED
  BY <1>1, <1>5, <1>6 DEF IsJobs

-----------------------------------------------------------------------------
(* Reachability.                                                           *)

\* The layers of Reachable.
Layers(f, S, adj, n) ==
    f = [i \in 0..n |-> IF i = 0 THEN S ELSE f[i - 1] \cup Successors(adj, f[i - 1])]

\* There are such.
LEMMA LayersExist ==
    ASSUME NEW S, NEW adj, NEW n \in Nat
    PROVE  \E f : Layers(f, S, adj, n)
<1> DEFINE N == {k \in Nat : \E f : Layers(f, S, adj, k)}
<1>1. 0 \in N
  <2> DEFINE zero == [k \in 0..0 |-> S]
  <2>1. Layers(zero, S, adj, 0)
    BY DEF Layers
  <2> QED
    BY <2>1
<1>2. ASSUME NEW k \in Nat, k \in N
      PROVE  k + 1 \in N
  <2>1. PICK f : Layers(f, S, adj, k)
    BY <1>2
  <2> DEFINE next == f[k] \cup Successors(adj, f[k])
             more == [i \in 0..(k + 1) |-> IF i = k + 1 THEN next ELSE f[i]]
  <2>2. /\ \A i \in 0..k : f[i] = IF i = 0 THEN S ELSE f[i - 1] \cup Successors(adj, f[i - 1])
        /\ \A i \in 0..k : more[i] = f[i]
        /\ more[k + 1] = next /\ more = [i \in 0..(k + 1) |-> more[i]]
    <3>1. \A i \in 0..k : f[i] = IF i = 0 THEN S ELSE f[i - 1] \cup Successors(adj, f[i - 1])
      BY <2>1 DEF Layers
    <3>2. \A i \in 0..k : i \in 0..(k + 1) /\ i # k + 1
      OBVIOUS
    <3>3. k + 1 \in 0..(k + 1)
      OBVIOUS
    <3> HIDE DEF next
    <3>4. more = [i \in 0..(k + 1) |-> more[i]] /\ more[k + 1] = next /\ \A i \in 0..k : more[i] = f[i]
      BY <3>2, <3>3
    <3> HIDE DEF more
    <3> QED
      BY <3>1, <3>4
  <2> HIDE DEF more
  <2>3. ASSUME NEW i \in 0..(k + 1)
        PROVE  more[i] = IF i = 0 THEN S ELSE more[i - 1] \cup Successors(adj, more[i - 1])
    <3>1. i # 0 => i - 1 \in 0..k /\ (i = k + 1 => i - 1 = k)
      OBVIOUS
    <3>2. CASE i = k + 1
      <4>1. i # 0 /\ more[i - 1] = f[k]
        BY <2>2, <3>1, <3>2
      <4> QED
        BY <2>2, <3>2, <4>1
    <3>3. CASE i # k + 1
      <4>1. i \in 0..k
        BY <3>3
      <4> QED
        BY <2>2, <3>1, <4>1
    <3> QED
      BY <3>2, <3>3
  <2>4. Layers(more, S, adj, k + 1)
    BY <2>2, <2>3 DEF Layers
  <2> QED
    BY <2>4
<1> HIDE DEF N
<1>3. Nat \subseteq N
  BY <1>1, <1>2, Induction
<1> QED
  BY <1>3 DEF N

\* f has n layers and Reachable is the last.
Layered(f, S, adj, n) ==
    /\ n \in Nat /\ Reachable(S, adj) = f[n] /\ f[0] = S
    /\ \A i \in 1..n : f[i] = f[i - 1] \cup Successors(adj, f[i - 1])

\* There are as many layers as there are names.
LEMMA LastLayer ==
    ASSUME NEW S, NEW adj, IsFiniteSet(DOMAIN adj)
    PROVE  \E f : Layered(f, S, adj, Cardinality(DOMAIN adj))
<1> DEFINE n == Cardinality(DOMAIN adj)
           f == CHOOSE x : Layers(x, S, adj, n)
<1>1. n \in Nat
  BY FS_CardinalityType
<1>2. Layers(f, S, adj, n)
  BY <1>1, LayersExist
<1>3. Reachable(S, adj) = f[n]
  BY DEF Reachable, Layers
<1> HIDE DEF f, n
<1>4. \A i \in 0..n : f[i] = IF i = 0 THEN S ELSE f[i - 1] \cup Successors(adj, f[i - 1])
  BY <1>2 DEF Layers
<1>5. 0 \in 0..n /\ \A i \in 1..n : i \in 0..n /\ i # 0
  BY <1>1
<1>6. f[0] = S
  BY <1>4, <1>5
<1>7. \A i \in 1..n : f[i] = f[i - 1] \cup Successors(adj, f[i - 1])
  BY <1>4, <1>5
<1>8. Layered(f, S, adj, n)
  BY <1>1, <1>3, <1>6, <1>7 DEF Layered
<1> QED
  BY <1>8 DEF n

\* What is closed under adj and holds S holds all that is reachable from S.
LEMMA ReachableWithin ==
    ASSUME NEW S, NEW adj, IsFiniteSet(DOMAIN adj), NEW L, S \subseteq L,
           \A x \in L \cap DOMAIN adj : adj[x] \subseteq L
    PROVE  Reachable(S, adj) \subseteq L
<1> DEFINE n == Cardinality(DOMAIN adj)
<1>0. PICK f : Layered(f, S, adj, n)
  BY LastLayer
<1> HIDE DEF n
<1>1. /\ n \in Nat /\ Reachable(S, adj) = f[n] /\ f[0] = S
      /\ \A i \in 1..n : f[i] = f[i - 1] \cup Successors(adj, f[i - 1])
  BY <1>0 DEF Layered
<1> DEFINE N == {i \in Nat : i <= n => f[i] \subseteq L}
<1>2. 0 \in N
  BY <1>1
<1>3. ASSUME NEW i \in Nat, i \in N
      PROVE  i + 1 \in N
  <2> SUFFICES ASSUME i + 1 <= n
               PROVE  f[i + 1] \subseteq L
    OBVIOUS
  <2>1. f[i] \subseteq L /\ i + 1 \in 1..n /\ (i + 1) - 1 = i
    BY <1>1, <1>3
  <2>2. f[i + 1] = f[i] \cup Successors(adj, f[i])
    <3> DEFINE k == i + 1
    <3>1. k \in 1..n /\ k - 1 = i
      BY <2>1
    <3> HIDE DEF k
    <3>2. f[k] = f[k - 1] \cup Successors(adj, f[k - 1])
      BY <1>1, <3>1
    <3> QED
      BY <3>1, <3>2 DEF k
  <2> QED
    BY <2>1, <2>2 DEF Successors
<1> HIDE DEF N
<1>4. Nat \subseteq N
  BY <1>2, <1>3, Induction
<1> QED
  BY <1>1, <1>4 DEF N

\* What is reachable is closed under adj: the layers grow until they are, and
\* there are no more names than layers.
LEMMA ReachableClosed ==
    ASSUME NEW S, NEW adj, IsFiniteSet(DOMAIN adj), \A x \in DOMAIN adj : adj[x] \subseteq DOMAIN adj
    PROVE  /\ S \subseteq Reachable(S, adj)
           /\ \A x \in Reachable(S, adj) \cap DOMAIN adj : adj[x] \subseteq Reachable(S, adj)
<1> DEFINE D == DOMAIN adj
           n == Cardinality(D)
           Closed(W) == Successors(adj, W) \subseteq W
<1>0. PICK f : Layered(f, S, adj, n)
  BY LastLayer
<1>1. /\ n \in Nat /\ Reachable(S, adj) = f[n] /\ f[0] = S
      /\ \A i \in 1..n : f[i] = f[i - 1] \cup Successors(adj, f[i - 1])
  BY <1>0 DEF Layered
<1>2. \A W : IsFiniteSet(W \cap D) /\ Cardinality(W \cap D) \in Nat /\ Cardinality(W \cap D) <= n
  <2> TAKE W
  <2>1. W \cap D \subseteq D
    OBVIOUS
  <2>2. IsFiniteSet(W \cap D) /\ Cardinality(W \cap D) <= n
    BY <2>1, FS_Subset
  <2> QED
    BY <2>2, FS_CardinalityType
<1> HIDE DEF n
<1> DEFINE N == {i \in Nat : i <= n =>
                    S \subseteq f[i] /\ (Closed(f[i]) \/ Cardinality(f[i] \cap D) >= i + 1)}
<1>3. 0 \in N
  <2>1. CASE S \cap D = {}
    BY <1>1, <2>1 DEF Successors
  <2>2. CASE S \cap D # {}
    <3>1. Cardinality(S \cap D) # 0
      BY <1>2, <2>2, FS_EmptySet
    <3>2. Cardinality(S \cap D) \in Nat
      BY <1>2
    <3>3. Cardinality(S \cap D) >= 0 + 1
      BY <3>1, <3>2
    <3> QED
      BY <1>1, <3>3
  <2> QED
    BY <2>1, <2>2
<1>4. ASSUME NEW i \in Nat, i \in N
      PROVE  i + 1 \in N
  <2> SUFFICES ASSUME i + 1 <= n
               PROVE  S \subseteq f[i + 1] /\ (Closed(f[i + 1]) \/ Cardinality(f[i + 1] \cap D) >= (i + 1) + 1)
    OBVIOUS
  <2>1. S \subseteq f[i] /\ (Closed(f[i]) \/ Cardinality(f[i] \cap D) >= i + 1)
    BY <1>1, <1>4
  <2>2. f[i + 1] = f[i] \cup Successors(adj, f[i])
    <3> DEFINE k == i + 1
    <3>1. k \in 1..n /\ k - 1 = i
      BY <1>1
    <3> HIDE DEF k, N
    <3>2. f[k] = f[k - 1] \cup Successors(adj, f[k - 1])
      BY <1>1, <3>1
    <3> QED
      BY <3>1, <3>2 DEF k
  <2>3. CASE Closed(f[i])
    <3>1. f[i + 1] = f[i]
      BY <2>2, <2>3
    <3> QED
      BY <2>1, <2>3, <3>1
  <2>4. CASE ~Closed(f[i])
    <3>1. PICK x \in Successors(adj, f[i]) : x \notin f[i]
      BY <2>4
    <3>2. x \in D
      BY DEF Successors
    <3>3. f[i] \cap D \subseteq f[i + 1] \cap D /\ f[i] \cap D # f[i + 1] \cap D
      BY <2>2, <3>1, <3>2
    <3>5. Cardinality(f[i] \cap D) \in Nat /\ Cardinality(f[i + 1] \cap D) \in Nat
      BY <1>2
    <3>4. Cardinality(f[i] \cap D) < Cardinality(f[i + 1] \cap D)
      <4> DEFINE X == f[i] \cap D
                 Y == f[i + 1] \cap D
      <4>1. X \in SUBSET Y /\ X # Y /\ IsFiniteSet(Y) /\ Cardinality(X) \in Nat /\ Cardinality(Y) \in Nat
        BY <1>2, <3>3, <3>5
      <4> HIDE DEF X, Y
      <4>2. Cardinality(X) <= Cardinality(Y) /\ Cardinality(X) # Cardinality(Y)
        BY <4>1, FS_Subset
      <4>3. Cardinality(X) < Cardinality(Y)
        BY <4>1, <4>2
      <4> QED
        BY <4>3 DEF X, Y
    <3> DEFINE a == Cardinality(f[i] \cap D)
               b == Cardinality(f[i + 1] \cap D)
    <3>6. a >= i + 1
      BY <2>1, <2>4
    <3> HIDE DEF a, b
    <3>7. b >= (i + 1) + 1
      BY <3>4, <3>5, <3>6 DEF a, b
    <3> QED
      BY <2>1, <2>2, <3>7 DEF b
  <2> QED
    BY <2>3, <2>4
<1> HIDE DEF N
<1>5. Nat \subseteq N
  BY <1>3, <1>4, Induction
<1>6. S \subseteq f[n] /\ (Closed(f[n]) \/ Cardinality(f[n] \cap D) >= n + 1)
  BY <1>1, <1>5, SMTT(30) DEF N
<1>7. Cardinality(f[n] \cap D) \in Nat /\ Cardinality(f[n] \cap D) <= n
  BY <1>2
<1>8. Closed(f[n])
  <2> DEFINE a == Cardinality(f[n] \cap D)
  <2>1. Closed(f[n]) \/ a >= n + 1
    BY <1>6
  <2> HIDE DEF a
  <2>2. ~(a >= n + 1)
    BY <1>1, <1>7 DEF a
  <2> QED
    BY <2>1, <2>2
<1> QED
  BY <1>1, <1>6, <1>8 DEF Successors

-----------------------------------------------------------------------------
(* A part of a pipeline.                                                   *)

\* b is a, or less of it: without some exports, and without its last steps.
Lesser(b, a) ==
    /\ IsJob(b)
    /\ b.name = a.name /\ b.deps = a.deps /\ b.arts = a.arts /\ b.image = a.image
    /\ b.exports \subseteq a.exports
    /\ Len(b.steps) <= Len(a.steps) /\ (b.steps = <<>> => a.steps = <<>>)
    /\ \A s \in DOMAIN b.steps :
          /\ b.steps[s].name = a.steps[s].name /\ b.steps[s].arts = a.steps[s].arts
          /\ b.steps[s].exports \subseteq a.steps[s].exports

\* The steps of a job.
LEMMA StepsFacts ==
    ASSUME NEW job, IsJob(job)
    PROVE  /\ Len(job.steps) \in Nat /\ DOMAIN job.steps = 1..Len(job.steps)
           /\ IsList(job.steps) /\ job.steps \in Seq(ToSet(job.steps))
           /\ \A s \in DOMAIN job.steps : IsStep(job.steps[s])
BY ListFacts DEF IsJob, IsList

\* Less of less is less.
LEMMA LesserStill ==
    ASSUME NEW a, NEW b, NEW c, IsJob(a), Lesser(b, a), Lesser(c, b)
    PROVE  Lesser(c, a)
<1>1. IsJob(b) /\ IsJob(c)
  BY DEF Lesser
<1>2. /\ Len(a.steps) \in Nat /\ Len(b.steps) \in Nat /\ Len(c.steps) \in Nat
      /\ DOMAIN b.steps = 1..Len(b.steps) /\ DOMAIN c.steps = 1..Len(c.steps)
  BY <1>1, StepsFacts
<1>3. DOMAIN c.steps \subseteq DOMAIN b.steps /\ Len(c.steps) <= Len(a.steps)
  BY <1>2 DEF Lesser
<1> QED
  BY <1>1, <1>3 DEF Lesser

\* Steps without their exports.
LEMMA WithoutExports ==
    ASSUME NEW steps, IsList(steps), \A s \in DOMAIN steps : IsStep(steps[s]), NEW n
    PROVE  LET t == WithoutStepExports(steps, n) IN
           /\ IsList(t) /\ Len(t) = Len(steps) /\ DOMAIN t = DOMAIN steps
           /\ \A s \in DOMAIN t : IsStep(t[s]) /\ t[s].name = steps[s].name
                                  /\ t[s].arts = steps[s].arts /\ t[s].exports \subseteq steps[s].exports
<1> DEFINE t == WithoutStepExports(steps, n)
<1>1. t = [s \in DOMAIN steps |-> IF s <= n THEN [steps[s] EXCEPT !.exports = {}] ELSE steps[s]]
  BY DEF WithoutStepExports
<1> HIDE DEF t
<1>2. t = [s \in DOMAIN steps |-> t[s]]
  BY <1>1
<1>3. IsList(t) /\ Len(t) = Len(steps) /\ DOMAIN t = DOMAIN steps
  BY <1>2, SamePlaces
<1>4. ASSUME NEW s \in DOMAIN t
      PROVE  IsStep(t[s]) /\ t[s].name = steps[s].name
             /\ t[s].arts = steps[s].arts /\ t[s].exports \subseteq steps[s].exports
  <2>1. IsStep(steps[s])
    BY <1>3
  <2>2. t[s] = steps[s] \/ t[s] = [steps[s] EXCEPT !.exports = {}]
    BY <1>1
  <2> QED
    BY <2>1, <2>2 DEF IsStep
<1> QED
  BY <1>3, <1>4 DEF t

\* A job with other steps, fewer or with less exports, and less exports of its own.
LEMMA LesserJob ==
    ASSUME NEW a, IsJob(a), NEW b, DOMAIN b = DOMAIN a,
           b.name = a.name, b.deps = a.deps, b.arts = a.arts, b.image = a.image, b.matrix = a.matrix,
           b.exports \subseteq a.exports,
           IsList(b.steps), Len(b.steps) <= Len(a.steps), b.steps = <<>> => a.steps = <<>>,
           \A s \in DOMAIN b.steps :
              /\ IsStep(b.steps[s]) /\ b.steps[s].name = a.steps[s].name
              /\ b.steps[s].arts = a.steps[s].arts /\ b.steps[s].exports \subseteq a.steps[s].exports
    PROVE  Lesser(b, a)
<1>1. IsJob(b)
  BY JobAgain DEF IsJob
<1> QED
  BY <1>1 DEF Lesser

\* A job is not less than itself.
LEMMA LesserSelf ==
    ASSUME NEW a, IsJob(a)
    PROVE  Lesser(a, a)
BY StepsFacts DEF Lesser

\* A list of no places.
LEMMA NoPlaces ==
    ASSUME NEW s, IsList(s)
    PROVE  s = <<>> <=> Len(s) = 0
BY ListFacts, EmptySeq DEF IsList

\* A job that is only needed.
LEMMA StrippedIsLesser ==
    ASSUME NEW a, IsJob(a)
    PROVE  Lesser(Stripped(a), a) /\ Len(Stripped(a).steps) = Len(a.steps)
<1> DEFINE b == Stripped(a)
           n == Len(a.steps)
           t == WithoutStepExports(a.steps, n)
<1>1. /\ Len(a.steps) \in Nat /\ IsList(a.steps) /\ \A s \in DOMAIN a.steps : IsStep(a.steps[s])
      /\ DOMAIN a = {"name", "deps", "arts", "caches", "matrix", "image", "platform", "exports", "publish", "steps"}
  BY StepsFacts DEF IsJob
<1>2. /\ IsList(t) /\ Len(t) = Len(a.steps) /\ DOMAIN t = DOMAIN a.steps
      /\ \A s \in DOMAIN t : IsStep(t[s]) /\ t[s].name = a.steps[s].name
                             /\ t[s].arts = a.steps[s].arts /\ t[s].exports \subseteq a.steps[s].exports
  BY <1>1, WithoutExports
<1> HIDE DEF t
<1>3. /\ DOMAIN b = DOMAIN a /\ b.name = a.name /\ b.deps = a.deps /\ b.arts = a.arts
      /\ b.image = a.image /\ b.matrix = a.matrix /\ b.exports = {} /\ b.steps = t
  BY <1>1 DEF Stripped, t
<1> HIDE DEF b
<1>4. b.steps = <<>> => a.steps = <<>>
  BY <1>1, <1>2, <1>3, NoPlaces
<1>5. Lesser(b, a)
  BY <1>1, <1>2, <1>3, <1>4, LesserJob
<1> QED
  BY <1>2, <1>3, <1>5 DEF b

\* The step a target names is one of the job's steps.
LEMMA TrimIndexFacts ==
    ASSUME NEW job, IsJob(job), NEW t
    PROVE  /\ TrimIndex(job, t) \in 0..Len(job.steps)
           /\ TrimIndex(job, t) > 0 => job.name = t.job /\ t.step # ""
           /\ TrimIndex(job, t) > 0 => job.steps[TrimIndex(job, t)].name = t.step
           /\ TrimIndex(job, t) = 0 => ~(t.step # "" /\ job.name = t.job /\ HasStep(job, t.step))
<1>1. Len(job.steps) \in Nat /\ DOMAIN job.steps = 1..Len(job.steps)
  BY StepsFacts
<1>2. CASE t.step # "" /\ job.name = t.job /\ HasStep(job, t.step)
  <2> DEFINE S == {s \in DOMAIN job.steps : job.steps[s].name = t.step}
             First(s) == job.steps[s].name = t.step /\ \A i \in 1..(s - 1) : job.steps[i].name # t.step
  <2>1. S \in SUBSET Nat /\ S # {}
    <3>1. \A s \in DOMAIN job.steps : s \in Nat
      BY <1>1
    <3>2. \E s \in DOMAIN job.steps : job.steps[s].name = t.step
      BY <1>2 DEF HasStep
    <3> QED
      BY <3>1, <3>2
  <2>2. PICK s \in S : \A i \in S : s <= i
    <3> HIDE DEF S
    <3> QED
      BY <2>1, LeastNumber
  <2>3. s \in DOMAIN job.steps /\ First(s)
    <3>1. \A i \in 1..(s - 1) : i \in DOMAIN job.steps /\ ~(s <= i)
      BY <1>1
    <3> QED
      BY <2>2, <3>1
  <2>4. TrimIndex(job, t) = CHOOSE x \in DOMAIN job.steps : First(x)
    BY <1>2 DEF TrimIndex
  <2>5. \A x : First(x) => job.steps[x].name = t.step
    OBVIOUS
  <2> HIDE DEF First
  <2>6. TrimIndex(job, t) \in DOMAIN job.steps /\ First(TrimIndex(job, t))
    BY <2>3, <2>4
  <2>7. \A x \in DOMAIN job.steps : x \in 0..Len(job.steps) /\ x # 0
    BY <1>1
  <2> QED
    BY <1>2, <2>5, <2>6, <2>7
<1>3. CASE ~(t.step # "" /\ job.name = t.job /\ HasStep(job, t.step))
  <2>1. TrimIndex(job, t) = 0
    BY <1>3 DEF TrimIndex
  <2>2. TrimIndex(job, t) \in 0..Len(job.steps) /\ ~(TrimIndex(job, t) > 0)
    BY <1>1, <2>1
  <2> QED
    BY <1>3, <2>2
<1> QED
  BY <1>2, <1>3

\* A job with the steps the targets leave; it is shorter only if one cuts it off.
LEMMA TrimmedIsLesser ==
    ASSUME NEW a, IsJob(a), NEW from, NEW to
    PROVE  LET b == Trimmed(a, from, to) IN
           /\ Lesser(b, a)
           /\ Len(b.steps) < Len(a.steps) => a.name = to.job /\ to.step # ""
<1> DEFINE b == Trimmed(a, from, to)
           f == TrimIndex(a, from)
           n == TrimIndex(a, to)
           l == Len(a.steps)
           kept == IF n > 0 THEN SubSeq(a.steps, 1, n) ELSE a.steps
           t == IF f > 0 THEN WithoutStepExports(kept, f - 1) ELSE kept
<1>1. /\ Len(a.steps) \in Nat /\ DOMAIN a.steps = 1..Len(a.steps)
      /\ IsList(a.steps) /\ a.steps \in Seq(ToSet(a.steps))
      /\ \A s \in DOMAIN a.steps : IsStep(a.steps[s])
  BY StepsFacts
<1>2. DOMAIN a = {"name", "deps", "arts", "caches", "matrix", "image", "platform", "exports", "publish", "steps"}
  BY DEF IsJob
<1>3. n \in 0..Len(a.steps) /\ (n > 0 => a.name = to.job /\ to.step # "")
  BY TrimIndexFacts
<1>4. /\ DOMAIN b = DOMAIN a /\ b.name = a.name /\ b.deps = a.deps /\ b.arts = a.arts
      /\ b.image = a.image /\ b.matrix = a.matrix /\ b.exports = a.exports /\ b.steps = t
  BY <1>2 DEF Trimmed
<1> HIDE DEF b, f, n
<1>a. l \in Nat /\ n \in 0..l /\ DOMAIN a.steps = 1..l
  BY <1>1, <1>3
<1> HIDE DEF l
<1>5. /\ IsList(kept) /\ Len(kept) = IF n > 0 THEN n ELSE l
      /\ \A s \in DOMAIN kept : s \in DOMAIN a.steps /\ kept[s] = a.steps[s]
  <2>1. CASE n > 0
    <3>1. /\ SubSeq(a.steps, 1, n) \in Seq(ToSet(a.steps)) /\ Len(SubSeq(a.steps, 1, n)) = n
          /\ \A k \in 1..n : SubSeq(a.steps, 1, n)[k] = a.steps[k]
      BY <1>1, <1>3, Beginning
    <3> DEFINE u == SubSeq(a.steps, 1, n)
    <3> HIDE DEF u
    <3>2. DOMAIN u = 1..n /\ u = [k \in 1..n |-> u[k]] /\ n \in Nat
      BY <1>1, <1>3, <3>1, LenProperties DEF u
    <3>3. IsList(u)
      BY <3>2, MakeList
    <3>4. \A s \in 1..n : s \in DOMAIN a.steps
      <4>1. \A s \in 1..n : s \in 1..l
        BY <1>a
      <4> QED
        BY <1>a, <4>1
    <3>5. kept = u
      BY <2>1 DEF u
    <3> HIDE DEF kept
    <3> QED
      BY <2>1, <3>1, <3>2, <3>3, <3>4, <3>5 DEF u
  <2>2. CASE ~(n > 0)
    <3>1. kept = a.steps
      BY <2>2
    <3> HIDE DEF kept
    <3> QED
      BY <1>1, <2>2, <3>1 DEF l
  <2> QED
    BY <2>1, <2>2
<1>6. \A s \in DOMAIN kept : IsStep(kept[s])
  <2> HIDE DEF kept
  <2> QED
    BY <1>1, <1>5
<1>7. /\ IsList(t) /\ Len(t) = Len(kept) /\ DOMAIN t = DOMAIN kept
      /\ \A s \in DOMAIN t : IsStep(t[s]) /\ t[s].name = kept[s].name
                             /\ t[s].arts = kept[s].arts /\ t[s].exports \subseteq kept[s].exports
  <2>1. CASE f > 0
    <3>1. t = WithoutStepExports(kept, f - 1)
      BY <2>1
    <3> HIDE DEF t, kept
    <3> QED
      BY <1>5, <1>6, <3>1, WithoutExports
  <2>2. CASE ~(f > 0)
    <3>1. t = kept
      BY <2>2
    <3> HIDE DEF t, kept
    <3> QED
      BY <1>5, <1>6, <3>1
  <2> QED
    BY <2>1, <2>2
<1> HIDE DEF t, kept
<1> DEFINE m == Len(b.steps)
<1>8. m = IF n > 0 THEN n ELSE l
  BY <1>4, <1>5, <1>7
<1> HIDE DEF m
<1>9. m \in Nat /\ m <= l /\ (m = 0 => l = 0) /\ (m < l => n > 0)
  BY <1>a, <1>8
<1>b. b.steps = <<>> => a.steps = <<>>
  BY <1>1, <1>4, <1>7, <1>9, NoPlaces DEF l, m
<1>10. \A s \in DOMAIN b.steps :
          /\ IsStep(b.steps[s]) /\ b.steps[s].name = a.steps[s].name
          /\ b.steps[s].arts = a.steps[s].arts /\ b.steps[s].exports \subseteq a.steps[s].exports
  BY <1>4, <1>5, <1>7
<1>11. Lesser(b, a)
  BY <1>4, <1>7, <1>9, <1>b, <1>10, LesserJob DEF l, m
<1>12. Len(b.steps) < Len(a.steps) => a.name = to.job /\ to.step # ""
  BY <1>3, <1>9 DEF l, m
<1> QED
  BY <1>11, <1>12 DEF b

\* The steps of a job have names of their own.
LEMMA StepsDiffer ==
    ASSUME NEW steps, IsList(steps)
    PROVE  Cardinality(StepNames(steps)) = Len(steps)
           <=> \A i, j \in DOMAIN steps : steps[i].name = steps[j].name => i = j
<1> DEFINE names == [s \in DOMAIN steps |-> steps[s].name]
<1>1. names = [s \in DOMAIN steps |-> names[s]] /\ \A s \in DOMAIN steps : names[s] = steps[s].name
  OBVIOUS
<1>2. ToSet(names) = StepNames(steps)
  BY DEF ToSet, StepNames
<1> HIDE DEF names
<1>3. IsList(names) /\ Len(names) = Len(steps) /\ DOMAIN names = DOMAIN steps
  BY <1>1, SamePlaces
<1>4. Cardinality(ToSet(names)) = Len(names) <=> \A i, j \in DOMAIN names : names[i] = names[j] => i = j
  BY <1>3, Repetitions
<1> QED
  BY <1>1, <1>2, <1>3, <1>4

\* A job the checks accept is accepted with less.
LEMMA LesserAccepted ==
    ASSUME NEW js, NEW k \in DOMAIN js, IsJob(js[k]), ~JobRejected(js, k),
           NEW t, NEW i \in DOMAIN t, Lesser(t[i], js[k]),
           \A x \in 1..(i - 1) : t[x].name # t[i].name
    PROVE  ~JobRejected(t, i)
<1> DEFINE a == js[k]
           b == t[i]
<1>0. IsJob(a) /\ IsJob(b) /\ Lesser(b, a)
  BY DEF Lesser
<1>1. /\ ~\E d \in DOMAIN a.name.items : a.name.items[d] \in BadValues
      /\ a.image /\ a.steps # <<>>
      /\ Cardinality(StepNames(a.steps)) = Len(a.steps)
      /\ (a.exports \cup UNION {a.steps[s].exports : s \in DOMAIN a.steps}) \cap BadPaths = {}
      /\ ~ArtifactsRejected(a.arts, a.deps)
      /\ \A s \in DOMAIN a.steps : ~ArtifactsRejected(a.steps[s].arts, a.deps)
  BY DEF JobRejected
<1>2. /\ IsList(a.steps) /\ IsList(b.steps) /\ Len(a.steps) \in Nat /\ Len(b.steps) \in Nat
      /\ DOMAIN a.steps = 1..Len(a.steps) /\ DOMAIN b.steps = 1..Len(b.steps)
  BY <1>0, StepsFacts
<1>3. \A s \in DOMAIN b.steps : s \in DOMAIN a.steps
  <2> DEFINE m == Len(a.steps)
             n == Len(b.steps)
  <2>1. m \in Nat /\ n \in Nat /\ n <= m /\ DOMAIN a.steps = 1..m /\ DOMAIN b.steps = 1..n
    BY <1>0, <1>2 DEF Lesser
  <2> HIDE DEF m, n
  <2>2. \A s \in 1..n : s \in 1..m
    BY <2>1
  <2> QED
    BY <2>1, <2>2
<1>4. \A x \in 1..(i - 1) : t[x].name # b.name
  OBVIOUS
<1> HIDE DEF a, b
<1>5. Cardinality(StepNames(b.steps)) = Len(b.steps)
  <2>1. \A x, y \in DOMAIN a.steps : a.steps[x].name = a.steps[y].name => x = y
    BY <1>1, <1>2, StepsDiffer
  <2>2. \A x, y \in DOMAIN b.steps : b.steps[x].name = b.steps[y].name => x = y
    BY <1>0, <1>3, <2>1, SMTT(30) DEF Lesser
  <2> QED
    BY <1>2, <2>2, StepsDiffer
<1>6. (b.exports \cup UNION {b.steps[s].exports : s \in DOMAIN b.steps}) \cap BadPaths = {}
  <2>1. \A p \in a.exports : p \notin BadPaths
    BY <1>1
  <2>2. \A s \in DOMAIN a.steps : \A p \in a.steps[s].exports : p \notin BadPaths
    BY <1>1
  <2>3. \A p \in b.exports : p \notin BadPaths
    BY <1>0, <2>1 DEF Lesser
  <2>4. \A s \in DOMAIN b.steps : \A p \in b.steps[s].exports : p \notin BadPaths
    BY <1>0, <1>3, <2>2 DEF Lesser
  <2> QED
    BY <2>3, <2>4
<1>7. b.name = a.name /\ b.image = a.image /\ b.arts = a.arts /\ b.deps = a.deps
  BY <1>0 DEF Lesser
<1>8. \A s \in DOMAIN b.steps : ~ArtifactsRejected(b.steps[s].arts, b.deps)
  <2>1. \A s \in DOMAIN b.steps : b.steps[s].arts = a.steps[s].arts
    BY <1>0 DEF Lesser
  <2> QED
    BY <1>1, <1>3, <1>7, <2>1
<1>9. b.steps # <<>>
  BY <1>0, <1>1 DEF Lesser
<1>10. ~\E d \in DOMAIN b.name.items : b.name.items[d] \in BadValues
  BY <1>1, <1>7
<1>11. b.image /\ ~ArtifactsRejected(b.arts, b.deps)
  BY <1>1, <1>7
<1> HIDE DEF ArtifactsRejected, StepNames
<1> QED
  BY <1>4, <1>5, <1>6, <1>8, <1>9, <1>10, <1>11 DEF JobRejected, b

\* t is a part of js, each job from a place of its own and perhaps less, and it
\* holds what its jobs depend on.
Part(t, js, src) ==
    /\ IsList(t)
    /\ \A i \in DOMAIN t : src[i] \in DOMAIN js /\ Lesser(t[i], js[src[i]])
    /\ \A i, j \in DOMAIN t : src[i] = src[j] => i = j
    /\ \A i \in DOMAIN t : ToSet(t[i].deps) \subseteq NamesOf(t)

\* A part of an accepted pipeline is accepted.
LEMMA PartAccepted ==
    ASSUME NEW js, IsJobs(js), Valid(js), Acyclic(js), NEW t, NEW src, Part(t, js, src)
    PROVE  IsJobs(t) /\ Valid(t) /\ Acyclic(t)
<1>1. IsJobs(t)
  BY DEF Part, Lesser, IsJobs
<1>2. \A i \in DOMAIN t : /\ src[i] \in DOMAIN js /\ Lesser(t[i], js[src[i]])
                          /\ t[i].name = js[src[i]].name /\ t[i].deps = js[src[i]].deps
  BY DEF Part, Lesser
<1>3. Valid(t)
  <2> SUFFICES ASSUME NEW i \in DOMAIN t
               PROVE  ~JobRejected(t, i)
    BY DEF Valid
  <2>1. ASSUME NEW x \in 1..(i - 1), t[x].name = t[i].name
        PROVE  FALSE
    <3>1. DOMAIN t = 1..Len(t) /\ Len(t) \in Nat
      BY ListFacts DEF Part
    <3>2. x \in DOMAIN t /\ x # i
      BY <3>1
    <3>3. src[x] = src[i]
      BY <1>2, <2>1, <3>2, NamesDiffer
    <3> QED
      BY <3>2, <3>3 DEF Part
  <2>2. IsJob(js[src[i]]) /\ ~JobRejected(js, src[i])
    BY <1>2 DEF IsJobs, Valid
  <2> QED
    BY <1>2, <2>1, <2>2, LesserAccepted
<1>4. Acyclic(t)
  <2>1. PICK r : Ranks(r, js)
    BY DEF Acyclic
  <2> DEFINE q == [n \in NamesOf(t) |-> r[n]]
  <2>2. NamesOf(t) \subseteq NamesOf(js)
    BY <1>2 DEF NamesOf
  <2>3. q \in [NamesOf(t) -> Nat] /\ \A n \in NamesOf(t) : q[n] = r[n]
    BY <2>1, <2>2 DEF Ranks
  <2> HIDE DEF q
  <2>4. ASSUME NEW i \in DOMAIN t, NEW d \in DOMAIN t[i].deps
        PROVE  t[i].deps[d] \in NamesOf(t) /\ q[t[i].deps[d]] < q[t[i].name]
    <3>1. t[i].deps[d] \in NamesOf(t) /\ t[i].name \in NamesOf(t)
      BY DEF Part, ToSet, NamesOf
    <3>2. r[t[i].deps[d]] < r[t[i].name]
      BY <1>2, <2>1 DEF Ranks
    <3> QED
      BY <2>3, <3>1, <3>2
  <2>5. Ranks(q, t)
    BY <2>3, <2>4 DEF Ranks
  <2> QED
    BY <2>3, <2>5 DEF Acyclic
<1> QED
  BY <1>1, <1>3, <1>4

-----------------------------------------------------------------------------
(* The filter.                                                             *)

\* What the jobs of a ranked pipeline depend on is again in it, and lower.
LEMMA DependenciesFacts ==
    ASSUME NEW js, IsJobs(js), NEW r, Ranks(r, js)
    PROVE  LET adj == Dependencies(js) IN
           /\ DOMAIN adj = NamesOf(js) /\ IsFiniteSet(DOMAIN adj)
           /\ \A n \in DOMAIN adj : \A x \in adj[n] : x \in NamesOf(js) /\ r[x] < r[n]
           /\ \A k \in DOMAIN js : ToSet(js[k].deps) \subseteq adj[js[k].name]
<1> DEFINE adj == Dependencies(js)
           names == [k \in DOMAIN js |-> js[k].name]
<1>1. IsFiniteSet(NamesOf(js))
  <2>1. names = [k \in DOMAIN js |-> names[k]] /\ ToSet(names) = NamesOf(js)
    BY DEF ToSet, NamesOf
  <2> HIDE DEF names
  <2>2. IsList(names)
    BY <2>1, SamePlaces DEF IsJobs
  <2> QED
    BY <2>1, <2>2, Repetitions
<1>2. DOMAIN adj = NamesOf(js)
  BY DEF Dependencies
<1>3. ASSUME NEW n \in NamesOf(js), NEW x \in adj[n]
      PROVE  x \in NamesOf(js) /\ r[x] < r[n]
  <2>1. PICK k \in DOMAIN js : js[k].name = n /\ x \in ToSet(js[k].deps)
    BY DEF Dependencies
  <2>2. PICK d \in DOMAIN js[k].deps : x = js[k].deps[d]
    BY <2>1 DEF ToSet
  <2> QED
    BY <2>1, <2>2 DEF Ranks
<1>4. ASSUME NEW k \in DOMAIN js
      PROVE  ToSet(js[k].deps) \subseteq adj[js[k].name]
  <2>1. js[k].name \in NamesOf(js)
    BY DEF NamesOf
  <2> QED
    BY <2>1 DEF Dependencies
<1> HIDE DEF adj
<1> QED
  BY <1>1, <1>2, <1>3, <1>4 DEF adj

\* The selection is a part of the pipeline: the jobs of the full set.
LEMMA SelectedPart ==
    ASSUME NEW js, IsJobs(js), Acyclic(js), NEW w
    PROVE  \E src : /\ Part(Selected(js, w), js, src)
                    /\ \A i \in DOMAIN Selected(js, w) :
                          /\ Len(Selected(js, w)[i].steps) = Len(js[src[i]].steps)
                          /\ Selected(js, w)[i].name \in FullSet(js, w)
                          /\ Selected(js, w)[i] = IF js[src[i]].name \in w THEN js[src[i]]
                                                 ELSE Stripped(js[src[i]])
                    /\ \A k \in DOMAIN js :
                          js[k].name \in FullSet(js, w) => \E i \in DOMAIN Selected(js, w) : src[i] = k
<1> DEFINE t == Selected(js, w)
           full == FullSet(js, w)
           adj == Dependencies(js)
           seqs == [k \in DOMAIN js |-> IF js[k].name \notin full THEN <<>>
                                        ELSE IF js[k].name \in w THEN <<js[k]>> ELSE <<Stripped(js[k])>>]
<1>1. t = FlattenSeq(seqs)
  BY DEF Selected, Each
<1>2. PICK r : Ranks(r, js)
  BY DEF Acyclic
<1>3. /\ DOMAIN adj = NamesOf(js) /\ IsFiniteSet(DOMAIN adj)
      /\ \A n \in DOMAIN adj : \A x \in adj[n] : x \in NamesOf(js) /\ r[x] < r[n]
      /\ \A k \in DOMAIN js : ToSet(js[k].deps) \subseteq adj[js[k].name]
  BY <1>2, DependenciesFacts
<1>4. \A x \in full \cap DOMAIN adj : adj[x] \subseteq full
  <2>1. \A x \in DOMAIN adj : adj[x] \subseteq DOMAIN adj
    BY <1>3
  <2> HIDE DEF adj
  <2> QED
    BY <1>3, <2>1, ReachableClosed DEF FullSet, adj
<1> HIDE DEF full, adj
<1>5. /\ seqs = [k \in DOMAIN js |-> seqs[k]]
      /\ \A k \in DOMAIN js :
            seqs[k] = IF js[k].name \notin full THEN <<>>
                      ELSE IF js[k].name \in w THEN <<js[k]>> ELSE <<Stripped(js[k])>>
  OBVIOUS
<1> HIDE DEF seqs, t
<1>6. IsList(seqs) /\ DOMAIN seqs = DOMAIN js /\ DOMAIN js = 1..Len(seqs)
  <2>1. IsList(seqs) /\ DOMAIN seqs = DOMAIN js
    BY <1>5, SamePlaces DEF IsJobs
  <2> QED
    BY <2>1, ListFacts
<1>7. \A x : IsList(<<x>>) /\ DOMAIN <<x>> = {1} /\ <<x>>[1] = x
  <2> SUFFICES ASSUME NEW x
               PROVE  IsList(<<x>>) /\ DOMAIN <<x>> = {1} /\ <<x>>[1] = x
    OBVIOUS
  <2>1. <<x>> = [i \in 1..1 |-> <<x>>[i]]
    OBVIOUS
  <2>2. IsList(<<x>>)
    BY <2>1, MakeList
  <2>3. DOMAIN <<x>> = {1} /\ <<x>>[1] = x
    OBVIOUS
  <2> QED
    BY <2>2, <2>3
<1>8. IsList(<<>>) /\ DOMAIN <<>> = {}
  <2>1. <<>> \in Seq(ToSet(<<>>))
    BY EmptySeq
  <2> QED
    BY <2>1 DEF IsList
<1>9. ASSUME NEW k \in DOMAIN js
      PROVE  /\ IsList(seqs[k])
             /\ \A x \in DOMAIN seqs[k] :
                   /\ x = 1 /\ js[k].name \in full
                   /\ seqs[k][x] = IF js[k].name \in w THEN js[k] ELSE Stripped(js[k])
             /\ js[k].name \in full => 1 \in DOMAIN seqs[k]
  <2>1. CASE js[k].name \notin full
    <3>1. seqs[k] = <<>>
      BY <1>5, <2>1
    <3> QED
      BY <1>8, <2>1, <3>1
  <2>2. CASE js[k].name \in full
    <3>1. CASE js[k].name \in w
      <4>1. seqs[k] = <<js[k]>>
        BY <1>5, <2>2, <3>1
      <4> QED
        BY <1>7, <2>2, <3>1, <4>1
    <3>2. CASE js[k].name \notin w
      <4>1. seqs[k] = <<Stripped(js[k])>>
        BY <1>5, <2>2, <3>2
      <4> QED
        BY <1>7, <2>2, <3>2, <4>1
    <3> QED
      BY <3>1, <3>2
  <2> QED
    BY <2>1, <2>2
<1>10. PICK row, col : Laid(t, seqs, Len(seqs), row, col)
  BY <1>1, <1>6, <1>9, Flattened
<1>11. ASSUME NEW i \in DOMAIN t
       PROVE  /\ row[i] \in DOMAIN js /\ col[i] = 1 /\ js[row[i]].name \in full
              /\ Lesser(t[i], js[row[i]]) /\ Len(t[i].steps) = Len(js[row[i]].steps)
              /\ t[i] = IF js[row[i]].name \in w THEN js[row[i]] ELSE Stripped(js[row[i]])
  <2>1. row[i] \in DOMAIN js /\ col[i] \in DOMAIN seqs[row[i]] /\ t[i] = seqs[row[i]][col[i]]
    BY <1>6, <1>10 DEF Laid
  <2>2. /\ col[i] = 1 /\ js[row[i]].name \in full
        /\ t[i] = IF js[row[i]].name \in w THEN js[row[i]] ELSE Stripped(js[row[i]])
    BY <1>9, <2>1
  <2>3. IsJob(js[row[i]])
    BY <2>1 DEF IsJobs
  <2>4. Lesser(t[i], js[row[i]]) /\ Len(t[i].steps) = Len(js[row[i]].steps)
    BY <2>2, <2>3, LesserSelf, StrippedIsLesser
  <2> QED
    BY <2>1, <2>2, <2>4
<1>12. \A i \in DOMAIN t : t[i].name = js[row[i]].name /\ t[i].deps = js[row[i]].deps
  BY <1>11 DEF Lesser
<1>13. \A i, j \in DOMAIN t : row[i] = row[j] => i = j
  BY <1>10, <1>11 DEF Laid
<1>14. ASSUME NEW i \in DOMAIN t, NEW d \in ToSet(t[i].deps)
       PROVE  d \in NamesOf(t)
  <2>1. row[i] \in DOMAIN js /\ js[row[i]].name \in NamesOf(js)
    BY <1>11 DEF NamesOf
  <2>2. d \in adj[js[row[i]].name]
    BY <1>3, <1>12, <2>1
  <2>3. d \in full /\ d \in NamesOf(js)
    BY <1>3, <1>4, <1>11, <2>1, <2>2
  <2>4. PICK k \in DOMAIN js : js[k].name = d
    BY <2>3 DEF NamesOf
  <2>5. 1 \in DOMAIN seqs[k] /\ k \in 1..Len(seqs)
    BY <1>6, <1>9, <2>3, <2>4
  <2>6. PICK j \in DOMAIN t : row[j] = k
    BY <1>10, <2>5 DEF Laid
  <2>7. t[j].name = d
    BY <1>12, <2>4, <2>6
  <2> QED
    BY <2>7 DEF NamesOf
<1>15. Part(t, js, row)
  BY <1>10, <1>11, <1>13, <1>14 DEF Part, Laid
<1>16. \A i \in DOMAIN t :
          /\ Len(t[i].steps) = Len(js[row[i]].steps) /\ t[i].name \in full
          /\ t[i] = IF js[row[i]].name \in w THEN js[row[i]] ELSE Stripped(js[row[i]])
  BY <1>11, <1>12
<1>17. \A k \in DOMAIN js : js[k].name \in full => \E i \in DOMAIN t : row[i] = k
  <2> SUFFICES ASSUME NEW k \in DOMAIN js, js[k].name \in full
               PROVE  \E i \in DOMAIN t : row[i] = k
    OBVIOUS
  <2>1. 1 \in DOMAIN seqs[k] /\ k \in 1..Len(seqs)
    BY <1>6, <1>9
  <2> QED
    BY <1>10, <2>1 DEF Laid
<1> QED
  BY <1>15, <1>16, <1>17 DEF t, full

\* All of the full set ranks no higher than the target the run stops after.
LEMMA FullSetBelow ==
    ASSUME NEW js, IsJobs(js), NEW r, Ranks(r, js), NEW from, NEW to,
           to.job # NoName, to.job \in NamesOf(js),
           NEW x \in FullSet(js, ExecutionWindow(js, from, to))
    PROVE  x \in NamesOf(js) /\ r[x] <= r[to.job]
<1> DEFINE adj == Dependencies(js)
           L == {n \in NamesOf(js) : r[n] <= r[to.job]}
           w == ExecutionWindow(js, from, to)
<1>1. /\ DOMAIN adj = NamesOf(js) /\ IsFiniteSet(DOMAIN adj)
      /\ \A n \in DOMAIN adj : \A y \in adj[n] : y \in NamesOf(js) /\ r[y] < r[n]
  BY DependenciesFacts
<1>2. \A n \in NamesOf(js) : r[n] \in Nat
  BY DEF Ranks
<1>3. \A n \in L \cap DOMAIN adj : adj[n] \subseteq L
  <2> SUFFICES ASSUME NEW n \in L, n \in DOMAIN adj, NEW y \in adj[n]
               PROVE  y \in L
    OBVIOUS
  <2> HIDE DEF adj
  <2>1. y \in NamesOf(js) /\ r[y] < r[n] /\ n \in NamesOf(js) /\ r[n] <= r[to.job]
    BY <1>1
  <2>2. r[y] \in Nat /\ r[n] \in Nat /\ r[to.job] \in Nat
    BY <1>2, <2>1
  <2>3. r[y] <= r[to.job]
    BY <2>1, <2>2
  <2> QED
    BY <2>1, <2>3
<1>4. {to.job} \subseteq L
  BY <1>2
<1> HIDE DEF adj, L
<1>5. Reachable({to.job}, adj) \subseteq L
  BY <1>1, <1>3, <1>4, ReachableWithin
<1>6. w \subseteq Reachable({to.job}, adj)
  BY DEF ExecutionWindow, adj
<1>7. w \subseteq L
  BY <1>5, <1>6
<1> HIDE DEF w
<1>8. Reachable(w, adj) \subseteq L
  BY <1>1, <1>3, <1>7, ReachableWithin
<1>9. x \in L
  BY <1>8 DEF FullSet, adj, w
<1> QED
  BY <1>9 DEF L

\* What the filter leaves is a part of the pipeline, and nothing in it depends
\* on a job that has been cut short.
LEMMA FilteredPart ==
    ASSUME NEW js, IsJobs(js), Acyclic(js), NEW from, NEW to, FilterError(js, from, to) = "none"
    PROVE  \E src : LET t == FilterJobs(js, from, to) IN
              /\ Part(t, js, src)
              /\ \A i, j \in DOMAIN t :
                    Len(t[i].steps) < Len(js[src[i]].steps) => t[i].name \notin ToSet(t[j].deps)
<1>1. CASE from = NoTarget /\ to = NoTarget
  <2> DEFINE src == [k \in DOMAIN js |-> k]
  <2>1. FilterJobs(js, from, to) = js
    BY <1>1 DEF FilterJobs
  <2>2. \A k \in DOMAIN js : Lesser(js[k], js[k])
    BY LesserSelf DEF IsJobs
  <2>3. \A i \in DOMAIN js : ToSet(js[i].deps) \subseteq NamesOf(js)
    BY DEF Acyclic, Ranks, ToSet
  <2>4. \A k \in DOMAIN js : src[k] = k
    OBVIOUS
  <2> HIDE DEF src
  <2>5. Part(js, js, src)
    BY <2>2, <2>3, <2>4 DEF Part, IsJobs
  <2>6. \A i \in DOMAIN js : ~(Len(js[i].steps) < Len(js[src[i]].steps))
    <3>1. \A i \in DOMAIN js : Len(js[i].steps) \in Nat
      BY StepsFacts DEF IsJobs
    <3> QED
      BY <2>4, <3>1
  <2> QED
    BY <2>1, <2>5, <2>6
<1>2. CASE ~(from = NoTarget /\ to = NoTarget)
  <2> DEFINE w == ExecutionWindow(js, from, to)
             s == Selected(js, w)
             t == FilterJobs(js, from, to)
  <2>1. t = [i \in DOMAIN s |-> Trimmed(s[i], from, to)]
    BY <1>2 DEF FilterJobs, Each
  <2>2. PICK src : Part(s, js, src)
                   /\ \A i \in DOMAIN s :
                          /\ Len(s[i].steps) = Len(js[src[i]].steps)
                          /\ s[i].name \in FullSet(js, w)
    BY SelectedPart
  <2>3. ~TargetRejected(js, to)
    BY <1>2 DEF FilterError
  <2> HIDE DEF s, t, w
  <2>4. IsList(t) /\ DOMAIN t = DOMAIN s
    <3>1. t = [i \in DOMAIN s |-> t[i]]
      BY <2>1
    <3> QED
      BY <2>2, <3>1, SamePlaces DEF Part
  <2>5. ASSUME NEW i \in DOMAIN t
        PROVE  /\ Lesser(t[i], s[i]) /\ Lesser(t[i], js[src[i]]) /\ src[i] \in DOMAIN js
               /\ t[i].name = s[i].name /\ t[i].deps = s[i].deps
               /\ Len(t[i].steps) < Len(js[src[i]].steps) => t[i].name = to.job /\ to.step # ""
    <3>1. /\ src[i] \in DOMAIN js /\ Lesser(s[i], js[src[i]]) /\ t[i] = Trimmed(s[i], from, to)
          /\ Len(s[i].steps) = Len(js[src[i]].steps)
      BY <2>1, <2>2, <2>4 DEF Part
    <3>2. IsJob(s[i]) /\ IsJob(js[src[i]])
      BY <3>1 DEF Lesser, IsJobs
    <3>3. Lesser(t[i], s[i]) /\ (Len(t[i].steps) < Len(s[i].steps) => s[i].name = to.job /\ to.step # "")
      <4> DEFINE a == s[i]
                 b == t[i]
      <4>1. IsJob(a) /\ b = Trimmed(a, from, to)
        BY <3>1, <3>2
      <4> HIDE DEF a, b
      <4>2. Lesser(b, a) /\ (Len(b.steps) < Len(a.steps) => a.name = to.job /\ to.step # "")
        BY <4>1, TrimmedIsLesser
      <4> QED
        BY <4>2 DEF a, b
    <3>4. Lesser(t[i], js[src[i]])
      BY <3>1, <3>2, <3>3, LesserStill
    <3>5. t[i].name = s[i].name /\ t[i].deps = s[i].deps
      BY <3>3 DEF Lesser
    <3> QED
      BY <3>1, <3>3, <3>4, <3>5
  <2>6. NamesOf(t) = NamesOf(s)
    BY <2>4, <2>5 DEF NamesOf
  <2>7. Part(t, js, src)
    BY <2>2, <2>4, <2>5, <2>6 DEF Part
  <2>8. ASSUME NEW i \in DOMAIN t, NEW j \in DOMAIN t, Len(t[i].steps) < Len(js[src[i]].steps),
               t[i].name \in ToSet(t[j].deps)
        PROVE  FALSE
    <3>1. t[i].name = to.job /\ to.step # ""
      BY <2>5, <2>8
    <3>2. to.job # NoName
      BY <2>3, <3>1 DEF TargetRejected
    <3>3. to.job \in NamesOf(js)
      BY <2>3, <3>2 DEF TargetRejected, NamesOf
    <3>4. PICK r : Ranks(r, js)
      BY DEF Acyclic
    <3>5. t[j].name \in FullSet(js, w)
      BY <2>2, <2>4, <2>5
    <3>6. t[j].name \in NamesOf(js) /\ r[t[j].name] <= r[to.job]
      BY <3>2, <3>3, <3>4, <3>5, FullSetBelow DEF w
    <3>7. r[to.job] < r[t[j].name]
      <4>1. t[j].name = js[src[j]].name /\ t[j].deps = js[src[j]].deps /\ src[j] \in DOMAIN js
        BY <2>5 DEF Lesser
      <4>2. PICK d \in DOMAIN js[src[j]].deps : js[src[j]].deps[d] = to.job
        BY <2>8, <3>1, <4>1 DEF ToSet
      <4> QED
        BY <3>4, <4>1, <4>2 DEF Ranks
    <3>8. r[to.job] \in Nat /\ r[t[j].name] \in Nat
      BY <3>3, <3>4, <3>6 DEF Ranks
    <3> QED
      BY <3>6, <3>7, <3>8
  <2>9. \A i, j \in DOMAIN t :
            Len(t[i].steps) < Len(js[src[i]].steps) => t[i].name \notin ToSet(t[j].deps)
    BY <2>8
  <2> QED
    BY <2>7, <2>9 DEF t
<1> QED
  BY <1>1, <1>2

-----------------------------------------------------------------------------
(* The steps.                                                              *)

\* The invariant holds initially.
LEMMA PlanStarts == Init => PlanInv
<1> SUFFICES ASSUME Init
             PROVE  PlanInv
  OBVIOUS
<1>1. input \in Inputs /\ jobs = input.jobs /\ IsJobs(jobs)
  BY InputsAssumption DEF Init
<1>2. phase = "defaults" /\ caller = "parse" /\ built = <<>> /\ parsed = <<>> /\ err = "none"
  BY DEF Init
<1>3. TypeInv
  BY <1>1, <1>2 DEF TypeInv, Parsing
<1>4. PhaseInv
  BY <1>2 DEF PhaseInv
<1>5. AcceptedMeansRunnable /\ NoOneUsesACutJob
  BY <1>2 DEF AcceptedMeansRunnable, NoOneUsesACutJob
<1> QED
  BY <1>3, <1>4, <1>5 DEF PlanInv

\* Until the parse has returned a command may fail for any reason; after it only
\* for what the targets select, or for an export of the root.
Excusable == {"none", "target", "empty filter result", "empty step window",
              "platform", "marshaling", "export path"}

LEMMA FailStep ==
    ASSUME PlanInv, NEW e, phase # "failed", parsed # <<>> => e \in Excusable, Fail(e)
    PROVE  PlanInv'
<1>1. /\ phase' = "failed" /\ err' = e /\ parsed' = parsed /\ input' = input /\ jobs' = jobs
      /\ caller' = caller
  BY DEF Fail
<1>2. TypeInv'
  BY <1>1 DEF PlanInv, TypeInv
<1>3. PhaseInv'
  BY <1>1 DEF PhaseInv
<1>4. AcceptedMeansRunnable' /\ NoOneUsesACutJob'
  BY <1>1 DEF AcceptedMeansRunnable, NoOneUsesACutJob, Excusable
<1> QED
  BY <1>2, <1>3, <1>4 DEF PlanInv

\* From one phase of the expansion to the next, with other jobs.
LEMMA ExpansionStep ==
    ASSUME PlanInv, phase \in {"defaults", "expandPipeline", "expandJobs"}, NEW js, IsJobs(js), NEW ph,
           ph \in {"expandPipeline", "expandJobs", "check"},
           Proceed(js, ph)
    PROVE  PlanInv'
<1>1. /\ phase' = ph /\ jobs' = js /\ err' = err /\ parsed' = parsed /\ input' = input
      /\ caller' = caller /\ built' = built
  BY DEF Proceed, buildVars
<1>2. parsed = <<>> /\ err = "none" /\ built = <<>> /\ caller = "parse"
  BY DEF PlanInv, TypeInv, PhaseInv, Parsing
<1>3. TypeInv'
  BY <1>1, <1>2 DEF PlanInv, TypeInv, Parsing
<1>4. PhaseInv'
  BY <1>1, <1>2 DEF PhaseInv
<1>5. AcceptedMeansRunnable' /\ NoOneUsesACutJob'
  BY <1>1, <1>2 DEF AcceptedMeansRunnable, NoOneUsesACutJob
<1> QED
  BY <1>3, <1>4, <1>5 DEF PlanInv

\* The three steps of finalizePipeline before it validates.
LEMMA Expanding ==
    ASSUME PlanInv, ApplyDefaults \/ ExpandPipeline \/ ExpandJobs
    PROVE  PlanInv'
<1>0. IsJobs(jobs) /\ input \in Inputs
  BY DEF PlanInv, TypeInv
<1>1. phase \in {"defaults", "expandPipeline", "expandJobs"}
  BY DEF ApplyDefaults, ExpandPipeline, ExpandJobs
<1>2. phase # "failed" /\ parsed = <<>>
  BY <1>1 DEF PlanInv, TypeInv, Parsing
<1>3. CASE ApplyDefaults
  <2> DEFINE With(j) == [j EXCEPT !.image = @ \/ input.image]
             js == [k \in DOMAIN jobs |-> With(jobs[k])]
  <2>1. Proceed(js, "expandPipeline")
    BY <1>3 DEF ApplyDefaults, Each
  <2>2. ASSUME NEW k \in DOMAIN jobs
        PROVE  IsJob(With(jobs[k]))
    <3>1. IsJob(jobs[k])
      BY <1>0 DEF IsJobs
    <3> DEFINE a == jobs[k]
               b == With(a)
    <3>2. /\ DOMAIN b = DOMAIN a /\ b.deps = a.deps /\ b.arts = a.arts /\ b.matrix = a.matrix
          /\ b.steps = a.steps
      BY <3>1 DEF IsJob
    <3> HIDE DEF a, b
    <3>3. IsJob(b)
      BY <3>1, <3>2 DEF IsJob, a
    <3> QED
      BY <3>3 DEF a, b
  <2> HIDE DEF With
  <2>3. js = [k \in DOMAIN jobs |-> js[k]] /\ \A k \in DOMAIN jobs : js[k] = With(jobs[k])
    OBVIOUS
  <2> HIDE DEF js
  <2>4. IsList(js) /\ DOMAIN js = DOMAIN jobs
    BY <1>0, <2>3, SamePlaces DEF IsJobs
  <2>5. IsJobs(js)
    BY <2>2, <2>3, <2>4 DEF IsJobs
  <2> QED
    BY <1>1, <2>1, <2>5, ExpansionStep
<1>4. CASE ExpandPipeline
  <2>1. CASE Proceed(jobs, "expandJobs")
    BY <1>0, <1>1, <2>1, ExpansionStep
  <2>2. CASE Fail("matrix")
    BY <1>2, <2>2, FailStep
  <2>3. CASE input.matrix # NoMatrix /\ Proceed(PipelineReplicas(input.matrix, jobs), "expandJobs")
    <3>1. IsMatrix(input.matrix)
      BY <1>0, <2>3, InputsAssumption
    <3>2. IsJobs(PipelineReplicas(input.matrix, jobs))
      BY <1>0, <3>1, ReplicasAreJobs
    <3> QED
      BY <1>1, <2>3, <3>2, ExpansionStep
  <2> QED
    BY <1>4, <2>1, <2>2, <2>3 DEF ExpandPipeline
<1>5. CASE ExpandJobs
  <2>1. CASE Fail("matrix")
    BY <1>2, <2>1, FailStep
  <2>2. CASE Proceed(JobVariants(jobs), "check")
    <3>1. IsJobs(JobVariants(jobs))
      BY <1>0, JobVariantsAreJobs
    <3> QED
      BY <1>1, <2>2, <3>1, ExpansionStep
  <2> QED
    BY <1>5, <2>1, <2>2 DEF ExpandJobs
<1> QED
  BY <1>3, <1>4, <1>5

\* A pipeline that has been parsed has no job that depends on itself.
LEMMA NoSelfDependency ==
    ASSUME NEW js, IsJobs(js), Acyclic(js)
    PROVE  ~SelfDependency(js)
<1> SUFFICES ASSUME NEW k \in DOMAIN js, js[k].name \in ToSet(js[k].deps)
             PROVE  FALSE
  BY DEF SelfDependency
<1>1. PICK r : Ranks(r, js)
  BY DEF Acyclic
<1>2. PICK d \in DOMAIN js[k].deps : js[k].deps[d] = js[k].name
  BY DEF ToSet
<1>3. r[js[k].name] < r[js[k].name]
  BY <1>1, <1>2 DEF Ranks
<1>4. r[js[k].name] \in Nat
  BY <1>1 DEF Ranks, NamesOf
<1> QED
  BY <1>3, <1>4

\* validateJob and the check for self dependencies: what has been parsed passes.
LEMMA Checking ==
    ASSUME PlanInv, Check
    PROVE  PlanInv'
<1>0. phase = "check" /\ IsJobs(jobs) /\ err = "none" /\ (parsed = <<>> <=> Parsing)
  BY DEF PlanInv, TypeInv, Check
<1>1. parsed # <<>> => jobs # <<>> /\ Valid(jobs) /\ Acyclic(jobs)
  BY <1>0 DEF PlanInv, PhaseInv
<1>2. CASE Fail("empty pipeline") /\ jobs = <<>>
  BY <1>0, <1>1, <1>2, FailStep
<1>3. CASE Fail("job") /\ \E k \in DOMAIN jobs : JobRejected(jobs, k)
  <2>1. ~Valid(jobs)
    BY <1>3 DEF Valid
  <2> QED
    BY <1>0, <1>1, <1>3, <2>1, FailStep
<1>4. CASE Fail("self dependency") /\ SelfDependency(jobs)
  <2>1. parsed = <<>>
    BY <1>0, <1>1, <1>4, NoSelfDependency
  <2> QED
    BY <1>0, <1>4, <2>1, FailStep
<1>5. CASE /\ jobs # <<>> /\ ~\E k \in DOMAIN jobs : JobRejected(jobs, k)
           /\ phase' = "sort"
           /\ mark' = [k \in DOMAIN jobs |-> "unvisited"]
           /\ frames' = <<>> /\ order' = <<>>
           /\ UNCHANGED <<input, jobs, topo, caller, start, stop, buildVars, parsed, err>>
  <2>1. /\ jobs' = jobs /\ caller' = caller /\ parsed' = parsed /\ err' = err /\ input' = input
        /\ built' = built
    BY <1>5 DEF buildVars
  <2>2. Search(jobs', mark', frames', order')
    BY <1>0, <1>5, <2>1, SearchBegins
  <2>3. Valid(jobs')
    BY <1>5, <2>1 DEF Valid
  <2>4. built = <<>>
    BY <1>0 DEF PlanInv, PhaseInv
  <2>5. TypeInv'
    BY <1>0, <1>5, <2>1 DEF PlanInv, TypeInv, Parsing
  <2>6. PhaseInv'
    BY <1>1, <1>5, <2>1, <2>2, <2>3, <2>4 DEF PhaseInv
  <2>7. AcceptedMeansRunnable' /\ NoOneUsesACutJob'
    BY <1>0, <1>5, <2>1 DEF AcceptedMeansRunnable, NoOneUsesACutJob
  <2> QED
    BY <2>5, <2>6, <2>7 DEF PlanInv
<1> QED
  BY <1>2, <1>3, <1>4, <1>5 DEF Check

\* A step of the search.
LEMMA SearchStep ==
    ASSUME PlanInv, phase = "sort", NEW m, NEW fs, NEW ord, Search(jobs, m, fs, ord), Sorted(m, fs, ord)
    PROVE  PlanInv'
<1>1. /\ phase' = phase /\ jobs' = jobs /\ caller' = caller /\ parsed' = parsed /\ err' = err
      /\ input' = input /\ built' = built /\ topo' = topo
      /\ mark' = m /\ frames' = fs /\ order' = ord
  BY DEF Sorted, buildVars
<1>2. TypeInv'
  BY <1>1 DEF PlanInv, TypeInv, Parsing
<1>3. PhaseInv'
  BY <1>1 DEF PlanInv, PhaseInv
<1>4. AcceptedMeansRunnable' /\ NoOneUsesACutJob'
  BY <1>1, SMTT(30) DEF PlanInv, TypeInv, AcceptedMeansRunnable, NoOneUsesACutJob
<1> QED
  BY <1>2, <1>3, <1>4 DEF PlanInv

\* The steps of the search: in a pipeline that has been parsed it finds every
\* dependency and no cycle.
LEMMA Searching ==
    ASSUME PlanInv, VisitRoot \/ VisitDep \/ Leave
    PROVE  PlanInv'
<1>0. phase = "sort" /\ IsJobs(jobs) /\ Valid(jobs) /\ Search(jobs, mark, frames, order)
  BY DEF PlanInv, TypeInv, PhaseInv, VisitRoot, VisitDep, Leave, Sorting
<1>1. parsed # <<>> => Acyclic(jobs)
  BY <1>0 DEF PlanInv, PhaseInv
<1>2. CASE VisitRoot
  <2>1. PICK k \in DOMAIN jobs : mark[k] = "unvisited" /\ Sorted(Entered(mark, k), <<Call(k)>>, order)
    BY <1>2 DEF VisitRoot
  <2>2. frames = <<>>
    BY <1>2 DEF VisitRoot
  <2>3. Search(jobs, Entered(mark, k), <<Call(k)>>, order)
    BY <1>0, <2>1, <2>2, SearchRoot
  <2> QED
    BY <1>0, <2>1, <2>3, SearchStep
<1>3. CASE VisitDep
  <2> DEFINE dep == jobs[Frame.job].deps[Frame.next]
             k == IndexOf(dep)
  <2>1. frames # <<>> /\ Frame.next <= Len(jobs[Frame.job].deps)
    BY <1>3, ZenonT(60) DEF VisitDep
  <2>2. \/ dep \notin NamesOf(jobs) /\ Fail("unknown dependency")
        \/ dep \in NamesOf(jobs) /\ mark[k] = "visiting" /\ Fail("cycle")
        \/ dep \in NamesOf(jobs) /\ mark[k] = "visited" /\ Sorted(mark, Advanced(frames), order)
        \/ /\ dep \in NamesOf(jobs) /\ mark[k] # "visiting" /\ mark[k] # "visited"
           /\ Sorted(Entered(mark, k), Append(Advanced(frames), Call(k)), order)
    BY <1>3 DEF VisitDep, Advanced, Frame
  <2>3. dep \in NamesOf(jobs) => k \in DOMAIN jobs /\ jobs[k].name = dep
    BY DEF IndexOf, NamesOf
  <2>4. Last(frames).job \in DOMAIN jobs /\ Last(frames).next \in DOMAIN jobs[Last(frames).job].deps
    <3>1. Calls(jobs, frames)
      BY <1>0 DEF Search
    <3>2. Last(frames).job \in DOMAIN jobs /\ Last(frames).next \in 1..Len(jobs[Last(frames).job].deps)
      BY <1>0, <2>1, <3>1, AdvancedCalls DEF Frame
    <3> QED
      BY <1>0, <3>2, DepsFacts
  <2>5. parsed # <<>> => dep \in NamesOf(jobs)
    BY <1>1, <2>4 DEF Acyclic, Ranks, Frame
  <2>6. CASE dep \notin NamesOf(jobs) /\ Fail("unknown dependency")
    BY <1>0, <2>5, <2>6, FailStep
  <2>7. CASE dep \in NamesOf(jobs) /\ mark[k] = "visiting" /\ Fail("cycle")
    <3>1. parsed = <<>>
      <4> SUFFICES ASSUME parsed # <<>>
                   PROVE  FALSE
        OBVIOUS
      <4>1. k \in DOMAIN jobs /\ jobs[k].name = jobs[Last(frames).job].deps[Last(frames).next]
        BY <2>3, <2>7 DEF Frame
      <4> HIDE DEF k, dep
      <4>2. mark[k] # "visiting"
        BY <1>0, <1>1, <2>1, <4>1, NoCycle DEF Frame
      <4> QED
        BY <2>7, <4>2
    <3> QED
      BY <1>0, <2>7, <3>1, FailStep
  <2>8. CASE dep \in NamesOf(jobs) /\ mark[k] = "visited" /\ Sorted(mark, Advanced(frames), order)
    <3>1. k \in DOMAIN jobs /\ jobs[k].name = jobs[Last(frames).job].deps[Last(frames).next]
      BY <2>3, <2>8 DEF Frame
    <3> HIDE DEF k, dep
    <3>2. Search(jobs, mark, Advanced(frames), order)
      BY <1>0, <2>1, <2>8, <3>1, SearchSkips DEF Frame
    <3> QED
      BY <1>0, <2>8, <3>2, SearchStep
  <2>9. CASE /\ dep \in NamesOf(jobs) /\ mark[k] # "visiting" /\ mark[k] # "visited"
             /\ Sorted(Entered(mark, k), Append(Advanced(frames), Call(k)), order)
    <3>1. k \in DOMAIN jobs /\ jobs[k].name = jobs[Last(frames).job].deps[Last(frames).next]
      BY <2>3, <2>9 DEF Frame
    <3> HIDE DEF k, dep
    <3>2. mark[k] = "unvisited"
      BY <1>0, <2>9, <3>1 DEF Search, Marks
    <3>3. Search(jobs, Entered(mark, k), Append(Advanced(frames), Call(k)), order)
      BY <1>0, <2>1, <3>1, <3>2, SearchDescends DEF Frame
    <3> QED
      BY <1>0, <2>9, <3>3, SearchStep, SMTT(30)
  <2> HIDE DEF dep, k
  <2> QED
    BY <2>2, <2>6, <2>7, <2>8, <2>9, ZenonT(60)
<1>4. CASE Leave
  <2> DEFINE m == [mark EXCEPT ![Last(frames).job] = "visited"]
             o == Append(order, Last(frames).job)
  <2>1. frames # <<>> /\ Last(frames).next > Len(jobs[Last(frames).job].deps)
    BY <1>4 DEF Leave, Frame
  <2>2. Sorted(m, Front(frames), o)
    BY <1>4 DEF Leave, Frame
  <2>3. Search(jobs, m, Front(frames), o)
    BY <1>0, <2>1, SearchLeaves
  <2> HIDE DEF m, o
  <2> QED
    BY <1>0, <2>2, <2>3, SearchStep
<1> QED
  BY <1>2, <1>3, <1>4

\* Validate returns: the order is a topological one.
LEMMA Returning ==
    ASSUME PlanInv, Validated
    PROVE  PlanInv'
<1>0. /\ phase = "sort" /\ IsJobs(jobs) /\ Valid(jobs) /\ jobs # <<>> /\ built = <<>> /\ err = "none"
      /\ Search(jobs, mark, frames, order) /\ caller \in {"parse", "validate", "build"}
      /\ parsed = <<>> <=> caller = "parse"
  BY DEF PlanInv, TypeInv, PhaseInv, Validated, Sorting, Parsing
<1>1. Topological(jobs, order)
  BY <1>0, SearchEnds DEF Validated
<1>2. Acyclic(jobs)
  BY <1>0, <1>1, TopologicalRanks
<1>3. /\ jobs' = jobs /\ caller' = caller /\ err' = err /\ input' = input /\ built' = built
      /\ topo' = order
      /\ parsed' = IF caller = "parse" THEN jobs ELSE parsed
  BY DEF Validated, buildVars
<1>4. \/ caller = "parse" /\ phase' = "parsed"
      \/ caller = "validate" /\ phase' = "valid"
      \/ caller = "build" /\ phase' = "llb"
  BY <1>0 DEF Validated
<1>5. parsed' # <<>>
  BY <1>0, <1>3
<1>6. TypeInv'
  BY <1>0, <1>3, <1>4, <1>5 DEF PlanInv, TypeInv, Parsing
<1>7. phase' = "llb" => Len(built') \in 0..Len(topo') /\ built' = [i \in 1..Len(built') |-> jobs'[topo'[i]].name]
  <2>1. Len(order) \in Nat
    BY <1>1, LenProperties DEF Topological, InOrder
  <2>2. Len(built) = 0 /\ 0 \in 0..Len(order) /\ built = [i \in 1..0 |-> jobs[order[i]].name]
    BY <1>0, <2>1
  <2> QED
    BY <1>3, <2>2
<1>8. phase' = "parsed" => parsed' = jobs'
  BY <1>3, <1>4
<1>9. PhaseInv'
  BY <1>0, <1>1, <1>2, <1>3, <1>4, <1>7, <1>8 DEF PhaseInv
<1>10. AcceptedMeansRunnable' /\ NoOneUsesACutJob'
  BY <1>0, <1>3, <1>4 DEF AcceptedMeansRunnable, NoOneUsesACutJob
<1> QED
  BY <1>6, <1>9, <1>10 DEF PlanInv

\* Validate is called again, for jobs that have been parsed.
LEMMA CallingAgain ==
    ASSUME PlanInv, phase \in {"parsed", "build"}, jobs # <<>>,
           CallValidate("validate") \/ CallValidate("build")
    PROVE  PlanInv'
<1>0. parsed # <<>> /\ err = "none" /\ Valid(jobs) /\ Acyclic(jobs) /\ built = <<>>
  BY DEF PlanInv, TypeInv, PhaseInv, Parsing
<1>1. /\ jobs' = jobs /\ err' = err /\ input' = input /\ built' = built /\ topo' = topo
      /\ parsed' = parsed /\ phase' = "check" /\ caller' \in {"validate", "build"}
  BY DEF CallValidate, buildVars
<1>2. TypeInv'
  BY <1>0, <1>1 DEF PlanInv, TypeInv, Parsing
<1>3. PhaseInv'
  BY <1>0, <1>1 DEF PhaseInv
<1>4. AcceptedMeansRunnable' /\ NoOneUsesACutJob'
  BY <1>0, <1>1 DEF AcceptedMeansRunnable, NoOneUsesACutJob
<1> QED
  BY <1>2, <1>3, <1>4 DEF PlanInv

\* The part that the targets select is accepted, and no job of it depends on one
\* that is cut short.
LEMMA Filtering ==
    ASSUME PlanInv, NEW from, NEW to, RunAction(from, to)
    PROVE  PlanInv'
<1>0. /\ phase = "parsed" /\ IsJobs(jobs) /\ Valid(jobs) /\ Acyclic(jobs) /\ err = "none"
      /\ parsed = jobs /\ parsed # <<>> /\ built = <<>>
  BY DEF PlanInv, TypeInv, PhaseInv, RunAction, Parsing
<1>1. CASE FilterError(jobs, from, to) # "none"
  <2>1. Fail(FilterError(jobs, from, to))
    BY <1>1 DEF RunAction
  <2>2. FilterError(jobs, from, to) \in Excusable
    BY DEF FilterError, Excusable
  <2> HIDE DEF FilterError
  <2> QED
    BY <1>0, <2>1, <2>2, FailStep
<1>2. CASE FilterError(jobs, from, to) = "none"
  <2> DEFINE t == FilterJobs(jobs, from, to)
  <2>1. /\ jobs' = t /\ topo' = <<>> /\ phase' = "build" /\ input' = input /\ caller' = caller
        /\ built' = built /\ parsed' = parsed /\ err' = err
    BY <1>2 DEF RunAction, buildVars
  <2>2. PICK src : /\ Part(t, jobs, src)
                   /\ \A i, j \in DOMAIN t :
                         Len(t[i].steps) < Len(jobs[src[i]].steps) => t[i].name \notin ToSet(t[j].deps)
    BY <1>0, <1>2, FilteredPart
  <2> HIDE DEF t
  <2>3. IsJobs(t) /\ Valid(t) /\ Acyclic(t)
    BY <1>0, <2>2, PartAccepted
  <2>4. TypeInv'
    BY <1>0, <2>1, <2>3 DEF PlanInv, TypeInv, Parsing
  <2>5. PhaseInv'
    BY <1>0, <2>1, <2>3 DEF PhaseInv
  <2>6. AcceptedMeansRunnable'
    BY <1>0, <2>1 DEF AcceptedMeansRunnable
  <2>7. NoOneUsesACutJob'
    <3> SUFFICES ASSUME NEW k \in DOMAIN t, NEW i \in DOMAIN t,
                        Len(t[k].steps) < Len(Parsed(t[k].name).steps)
                 PROVE  t[k].name \notin ToSet(t[i].deps)
      BY <2>1 DEF NoOneUsesACutJob, Parsed
    <3>1. src[k] \in DOMAIN jobs /\ t[k].name = jobs[src[k]].name
      BY <2>2 DEF Part, Lesser
    <3> DEFINE p == CHOOSE x \in DOMAIN parsed : parsed[x].name = t[k].name
    <3>2. p \in DOMAIN jobs /\ jobs[p].name = t[k].name
      BY <1>0, <3>1
    <3>3. Parsed(t[k].name) = jobs[p]
      BY <1>0 DEF Parsed
    <3> HIDE DEF p
    <3>4. p = src[k]
      BY <1>0, <3>1, <3>2, NamesDiffer
    <3> QED
      BY <2>2, <3>3, <3>4
  <2> QED
    BY <2>4, <2>5, <2>6, <2>7 DEF PlanInv
<1> QED
  BY <1>1, <1>2

\* An order of no jobs is the topological order of no jobs.
LEMMA NothingToBuild ==
    ASSUME NEW js, IsJobs(js), Len(js) = 0
    PROVE  Topological(js, <<>>)
BY ListFacts DEF Topological, InOrder, IsJobs

\* Build trusts the order it finds only if there are no jobs; else it validates.
LEMMA Building ==
    ASSUME PlanInv, Build
    PROVE  PlanInv'
<1>0. /\ phase = "build" /\ IsJobs(jobs) /\ Valid(jobs) /\ Acyclic(jobs) /\ err = "none"
      /\ topo = <<>> /\ parsed # <<>> /\ built = <<>>
  BY DEF PlanInv, TypeInv, PhaseInv, Build, Parsing
<1>1. CASE ValidOrder(topo, Len(jobs)) /\ Proceed(jobs, "llb")
  <2>1. /\ jobs' = jobs /\ err' = err /\ input' = input /\ built' = built /\ topo' = topo
        /\ parsed' = parsed /\ phase' = "llb" /\ caller' = caller
    BY <1>1 DEF Proceed, buildVars
  <2>2. Len(jobs) = 0
    BY <1>0, <1>1 DEF ValidOrder
  <2>3. Topological(jobs, topo)
    BY <1>0, <2>2, NothingToBuild
  <2>4. Len(built) \in 0..Len(topo) /\ built = [i \in 1..Len(built) |-> jobs[topo[i]].name]
    BY <1>0
  <2>5. TypeInv'
    BY <1>0, <2>1 DEF PlanInv, TypeInv, Parsing
  <2>6. PhaseInv'
    BY <1>0, <2>1, <2>3, <2>4 DEF PhaseInv
  <2>7. AcceptedMeansRunnable' /\ NoOneUsesACutJob'
    BY <1>0, <2>1 DEF AcceptedMeansRunnable, NoOneUsesACutJob
  <2> QED
    BY <2>5, <2>6, <2>7 DEF PlanInv
<1>2. CASE ~ValidOrder(topo, Len(jobs)) /\ CallValidate("build")
  <2>1. jobs # <<>>
    BY <1>0, <1>2 DEF ValidOrder, ToSet
  <2> QED
    BY <1>0, <1>2, <2>1, CallingAgain
<1> QED
  BY <1>1, <1>2 DEF Build

\* Every source of the next job has been built.
LEMMA BuildingJob ==
    ASSUME PlanInv, BuildJob
    PROVE  PlanInv'
<1> DEFINE n == Len(built)
           k == topo[n + 1]
           job == jobs[k]
<1>0. /\ phase = "llb" /\ IsJobs(jobs) /\ Valid(jobs) /\ err = "none" /\ parsed # <<>>
      /\ Topological(jobs, topo) /\ n < Len(topo)
      /\ built = [i \in 1..n |-> jobs[topo[i]].name]
  BY DEF PlanInv, TypeInv, PhaseInv, BuildJob, Parsing
<1>1. Len(topo) \in Nat /\ DOMAIN topo = 1..Len(topo) /\ topo \in Seq(DOMAIN jobs)
  BY <1>0, LenProperties DEF Topological, InOrder
<1>2. n \in Nat /\ DOMAIN built = 1..n
  <2>1. DOMAIN built = 1..n
    BY <1>0
  <2>2. n \in Nat
    BY <1>0 DEF PlanInv, PhaseInv
  <2> QED
    BY <2>1, <2>2
<1> HIDE DEF n
<1>3. n + 1 \in DOMAIN topo /\ k \in DOMAIN jobs
  BY <1>0, <1>1, <1>2, ElementOfSeq
<1>4. ToSet(job.deps) \subseteq ToSet(built)
  <2>1. Before(jobs, topo, n, k)
    <3>1. Before(jobs, topo, (n + 1) - 1, topo[n + 1])
      BY <1>0, <1>3 DEF Topological, InOrder
    <3>2. (n + 1) - 1 = n
      BY <1>2
    <3> QED
      BY <3>1, <3>2
  <2> QED
    BY <1>0, <1>2, <2>1 DEF Before, ToSet
<1>5. Sources(job) \subseteq ToSet(built)
  <2>1. ~JobRejected(jobs, k)
    BY <1>0, <1>3, SMTT(30) DEF Valid
  <2>2. /\ ToSet(job.arts) \subseteq ToSet(job.deps)
        /\ \A s \in DOMAIN job.steps : ToSet(job.steps[s].arts) \subseteq ToSet(job.deps)
    BY <2>1 DEF JobRejected, ArtifactsRejected
  <2> HIDE DEF job
  <2> QED
    BY <1>4, <2>2 DEF Sources
<1>6. CASE Fail("platform") \/ Fail("marshaling") \/ Fail("export path")
  BY <1>0, <1>6, FailStep DEF Excusable
<1>7. CASE /\ built' = Append(built, job.name)
           /\ UNCHANGED <<input, jobs, topo, phase, caller, parsed, err>>
  <2>1. built' = [i \in 1..(n + 1) |-> jobs[topo[i]].name] /\ Len(built') = n + 1
    <3> DEFINE T == ToSet(built) \cup {job.name}
               x == job.name
    <3>1. built = [i \in 1..n |-> built[i]] /\ \A i \in 1..n : built[i] = jobs[topo[i]].name
      BY <1>0
    <3>2. built \in Seq(T) /\ Len(built) = n
      <4>1. IsList(built) /\ Len(built) = n
        BY <1>2, <3>1, MakeList
      <4> QED
        BY <4>1 DEF IsList
    <3>3. x \in T /\ x = jobs[topo[n + 1]].name /\ built' = Append(built, x)
      BY <1>7
    <3> HIDE DEF x, T, k
    <3>4. Append(built, x) \in Seq(T) /\ Len(Append(built, x)) = n + 1
          /\ \A i \in 1..n : Append(built, x)[i] = built[i]
          /\ Append(built, x)[n + 1] = x
      BY <3>2, <3>3
    <3> DEFINE u == Append(built, x)
    <3>5. DOMAIN u = 1..(n + 1) /\ u = [i \in 1..(n + 1) |-> u[i]]
      BY <3>4, LenProperties
    <3>6. \A i \in 1..(n + 1) : u[i] = jobs[topo[i]].name
      <4>1. \A i \in 1..(n + 1) : i \in 1..n \/ i = n + 1
        BY <1>2
      <4>2. \A i \in 1..n : u[i] = built[i]
        BY <3>4
      <4>3. u[n + 1] = x
        BY <3>4
      <4> HIDE DEF u
      <4>4. \A i \in 1..n : u[i] = jobs[topo[i]].name
        BY <3>1, <4>2
      <4>5. u[n + 1] = jobs[topo[n + 1]].name
        BY <3>3, <4>3
      <4> QED
        BY <4>1, <4>4, <4>5
    <3> HIDE DEF u
    <3> QED
      BY <3>3, <3>4, <3>5, <3>6 DEF u
  <2>2. n + 1 \in 0..Len(topo)
    BY <1>0, <1>1, <1>2
  <2>3. TypeInv'
    BY <1>0, <1>7 DEF PlanInv, TypeInv, Parsing
  <2>4. PhaseInv'
    BY <1>0, <1>7, <2>1, <2>2 DEF PlanInv, PhaseInv
  <2>5. AcceptedMeansRunnable' /\ NoOneUsesACutJob'
    BY <1>0, <1>7 DEF AcceptedMeansRunnable, NoOneUsesACutJob
  <2> QED
    BY <2>3, <2>4, <2>5 DEF PlanInv
<1>8. \/ Fail("platform") \/ Fail("marshaling") \/ Fail("export path")
      \/ /\ built' = Append(built, job.name)
         /\ UNCHANGED <<input, jobs, topo, phase, caller, parsed, err>>
  BY <1>5 DEF BuildJob, n
<1> QED
  BY <1>6, <1>7, <1>8

\* The plan holds every job once, after what it depends on.
LEMMA Planned ==
    ASSUME PlanInv, BuildRunnerJobs
    PROVE  PlanInv'
<1> DEFINE n == Len(built)
<1>0. /\ phase = "llb" /\ IsJobs(jobs) /\ Valid(jobs) /\ Acyclic(jobs) /\ err = "none" /\ parsed # <<>>
      /\ Topological(jobs, topo) /\ n = Len(topo) /\ n \in Nat
      /\ built = [i \in 1..n |-> jobs[topo[i]].name]
  <2>1. n \in 0..Len(topo) /\ n = Len(topo) /\ Topological(jobs, topo)
    BY DEF PlanInv, PhaseInv, BuildRunnerJobs
  <2>2. n \in Nat
    BY <2>1, LenProperties DEF Topological, InOrder
  <2> QED
    BY <2>1, <2>2 DEF PlanInv, TypeInv, PhaseInv, BuildRunnerJobs, Parsing
<1>1. DOMAIN topo = 1..n /\ topo \in Seq(DOMAIN jobs) /\ \A i \in 1..n : topo[i] \in DOMAIN jobs
  <2>1. DOMAIN topo = 1..Len(topo) /\ topo \in Seq(DOMAIN jobs)
    BY <1>0, LenProperties DEF Topological, InOrder
  <2> QED
    BY <1>0, <2>1, ElementOfSeq
<1> HIDE DEF n
<1>2. DOMAIN built = 1..n /\ \A i \in 1..n : built[i] = jobs[topo[i]].name
  BY <1>0
<1>3. ToSet(built) = NamesOf(jobs)
  BY <1>0, <1>1, <1>2 DEF ToSet, NamesOf, Topological
<1>4. \A i \in 1..n : IndexOf(built[i]) = topo[i]
  <2> SUFFICES ASSUME NEW i \in 1..n
               PROVE  IndexOf(built[i]) = topo[i]
    OBVIOUS
  <2>1. topo[i] \in DOMAIN jobs /\ jobs[topo[i]].name = built[i]
    BY <1>1, <1>2
  <2>2. IndexOf(built[i]) \in DOMAIN jobs /\ jobs[IndexOf(built[i])].name = built[i]
    BY <2>1 DEF IndexOf
  <2> QED
    BY <1>0, <2>1, <2>2, NamesDiffer
<1> DEFINE p == [i \in DOMAIN built |-> [name |-> built[i], deps |-> jobs[IndexOf(built[i])].deps]]
<1>5. /\ plan' = p /\ phase' = "ready"
      /\ UNCHANGED <<input, jobs, topo, caller, parsed, err, built>>
  BY <1>3 DEF BuildRunnerJobs, Each
<1>6. p = [i \in 1..n |-> p[i]] /\ \A i \in 1..n : p[i].name = built[i] /\ p[i].deps = jobs[topo[i]].deps
  BY <1>2, <1>4
<1> HIDE DEF p
<1>7. Len(p) = n /\ DOMAIN p = 1..n
  <2>1. IsList(p) /\ Len(p) = n
    BY <1>0, <1>6, MakeList
  <2> QED
    BY <1>6, <2>1
<1>8. n = Len(jobs)
  BY <1>0, TopologicalLength
<1>9. {p[k].name : k \in DOMAIN p} = NamesOf(jobs)
  BY <1>2, <1>3, <1>6, <1>7 DEF ToSet
<1>10. ASSUME NEW k \in DOMAIN p, NEW d \in DOMAIN p[k].deps
       PROVE  \E i \in 1..(k - 1) : p[i].name = p[k].deps[d]
  <2>1. k \in 1..n /\ p[k].deps = jobs[topo[k]].deps
    BY <1>6, <1>7
  <2>2. Before(jobs, topo, k - 1, topo[k])
    BY <1>0, <1>1, <2>1 DEF Topological, InOrder
  <2>3. PICK i \in 1..(k - 1) : jobs[topo[i]].name = p[k].deps[d]
    BY <2>1, <2>2 DEF Before
  <2>4. i \in 1..n
    BY <1>0, <2>1
  <2> QED
    BY <1>2, <1>6, <2>3, <2>4
<1>11. TypeInv'
  BY <1>0, <1>5 DEF PlanInv, TypeInv, Parsing
<1>12. PhaseInv'
  BY <1>0, <1>5 DEF PhaseInv
<1>13. AcceptedMeansRunnable'
  BY <1>0, <1>5, <1>7, <1>8, <1>9, <1>10 DEF AcceptedMeansRunnable
<1>14. NoOneUsesACutJob'
  BY <1>5 DEF NoOneUsesACutJob
<1> QED
  BY <1>11, <1>12, <1>13, <1>14 DEF PlanInv

\* The invariant holds in every state: each step preserves it.
LEMMA PlanInvariant == Spec => []PlanInv
<1>1. Init => PlanInv
  BY PlanStarts
<1>2. PlanInv /\ [Next]_vars => PlanInv'
  <2> SUFFICES ASSUME PlanInv, [Next]_vars
               PROVE  PlanInv'
    OBVIOUS
  <2>1. CASE ApplyDefaults \/ ExpandPipeline \/ ExpandJobs
    BY <2>1, Expanding
  <2>2. CASE Check
    BY <2>2, Checking
  <2>3. CASE VisitRoot \/ VisitDep \/ Leave
    BY <2>3, Searching
  <2>4. CASE Validated
    BY <2>4, Returning
  <2>5. CASE ValidateAction
    <3>1. phase = "parsed" /\ jobs # <<>>
      BY <2>5 DEF ValidateAction, PlanInv, TypeInv, PhaseInv, Parsing
    <3> QED
      BY <2>5, <3>1, CallingAgain DEF ValidateAction
  <2>6. ASSUME NEW from \in Targets, NEW to \in Targets, RunAction(from, to)
        PROVE  PlanInv'
    BY <2>6, Filtering
  <2>7. CASE Build
    BY <2>7, Building
  <2>8. CASE BuildJob
    BY <2>8, BuildingJob
  <2>9. CASE BuildRunnerJobs
    BY <2>9, Planned
  <2>10. CASE UNCHANGED vars
    <3>1. /\ input' = input /\ jobs' = jobs /\ topo' = topo /\ phase' = phase /\ caller' = caller
          /\ mark' = mark /\ frames' = frames /\ order' = order /\ built' = built /\ plan' = plan
          /\ parsed' = parsed /\ err' = err
      BY <2>10 DEF vars, sortVars, buildVars
    <3>2. TypeInv'
      BY <3>1 DEF PlanInv, TypeInv, Parsing
    <3>3. PhaseInv'
      BY <3>1 DEF PlanInv, PhaseInv
    <3>4. AcceptedMeansRunnable'
      BY <3>1 DEF PlanInv, AcceptedMeansRunnable
    <3>5. NoOneUsesACutJob'
      BY <3>1, ZenonT(60) DEF PlanInv, NoOneUsesACutJob, Parsed
    <3> QED
      BY <3>2, <3>3, <3>4, <3>5 DEF PlanInv
  <2> QED
    BY <2>1, <2>2, <2>3, <2>4, <2>5, <2>6, <2>7, <2>8, <2>9, <2>10 DEF Next
<1> QED
  BY <1>1, <1>2, PTL DEF Spec

\* Whatever parse accepts can be run: no part of it that targets select is found
\* wrong afterwards, its build misses no state, and its plan is in order.
THEOREM AcceptedIsRunnable == Spec => []AcceptedMeansRunnable
<1>1. PlanInv => AcceptedMeansRunnable
  BY DEF PlanInv
<1> QED
  BY <1>1, PlanInvariant, PTL

\* No job of a run is built on one that --stop-after job:step has cut short.
THEOREM CutJobsAreLast == Spec => []NoOneUsesACutJob
<1>1. PlanInv => NoOneUsesACutJob
  BY DEF PlanInv
<1> QED
  BY <1>1, PlanInvariant, PTL

-----------------------------------------------------------------------------
(* The window of a filtered run.                                           *)

\* Needs, for a list of jobs and with the dependencies by name.
Leads(js, a, b) ==
    \A S \in SUBSET NamesOf(js) :
        (a \in S /\ \A n \in S : Dependencies(js)[n] \subseteq S) => b \in S

\* In a list of jobs with distinct names a name's dependencies are its job's.
LEMMA DependenciesOfOne ==
    ASSUME NEW js, IsJobs(js), Valid(js), NEW k \in DOMAIN js
    PROVE  Dependencies(js)[js[k].name] = ToSet(js[k].deps)
<1>1. js[k].name \in NamesOf(js)
  BY DEF NamesOf
<1>2. \A i \in DOMAIN js : js[i].name = js[k].name => i = k
  BY NamesDiffer
<1>3. {i \in DOMAIN js : js[i].name = js[k].name} = {k}
  BY <1>2
<1>4. Dependencies(js)[js[k].name] = UNION {ToSet(js[i].deps) : i \in {i \in DOMAIN js : js[i].name = js[k].name}}
  BY <1>1 DEF Dependencies
<1> QED
  BY <1>3, <1>4

\* So it says what Needs says.
LEMMA NeedsLeads ==
    ASSUME IsJobs(parsed), Valid(parsed), NEW a, NEW b
    PROVE  Needs(a, b) <=> Leads(parsed, a, b)
<1>1. ASSUME NEW n \in NamesOf(parsed)
      PROVE  ToSet(Parsed(n).deps) = Dependencies(parsed)[n]
  <2> DEFINE k == CHOOSE x \in DOMAIN parsed : parsed[x].name = n
  <2>1. k \in DOMAIN parsed /\ parsed[k].name = n
    BY DEF NamesOf
  <2>2. Parsed(n) = parsed[k]
    BY DEF Parsed
  <2> HIDE DEF k
  <2> QED
    BY <2>1, <2>2, DependenciesOfOne
<1>2. \A S \in SUBSET NamesOf(parsed) : \A n \in S : ToSet(Parsed(n).deps) = Dependencies(parsed)[n]
  BY <1>1
<1> HIDE DEF Dependencies, Parsed
<1> QED
  BY <1>2 DEF Needs, Leads

\* The names on either side of a dependency are those of jobs.
LEMMA AdjacencyFacts ==
    ASSUME NEW js, IsJobs(js), Valid(js), NEW r, Ranks(r, js)
    PROVE  LET adj == Dependencies(js)
               rev == Dependents(js)
           IN  /\ DOMAIN adj = NamesOf(js) /\ DOMAIN rev = NamesOf(js) /\ IsFiniteSet(NamesOf(js))
               /\ \A n \in NamesOf(js) : adj[n] \subseteq NamesOf(js) /\ rev[n] \subseteq NamesOf(js)
               /\ \A n, x \in NamesOf(js) : x \in adj[n] <=> n \in rev[x]
<1> DEFINE adj == Dependencies(js)
           rev == Dependents(js)
<1>1. /\ DOMAIN adj = NamesOf(js) /\ IsFiniteSet(NamesOf(js))
      /\ \A n \in NamesOf(js) : adj[n] \subseteq NamesOf(js)
  <2>1. DOMAIN adj = NamesOf(js) /\ IsFiniteSet(DOMAIN adj)
        /\ \A n \in DOMAIN adj : \A x \in adj[n] : x \in NamesOf(js) /\ r[x] < r[n]
    BY DependenciesFacts
  <2> HIDE DEF adj
  <2> QED
    BY <2>1
<1>2. /\ DOMAIN rev = NamesOf(js)
      /\ \A x \in NamesOf(js) : rev[x] = {js[k].name : k \in {i \in DOMAIN js : x \in ToSet(js[i].deps)}}
  BY DEF Dependents
<1>3. \A k \in DOMAIN js : adj[js[k].name] = ToSet(js[k].deps)
  BY DependenciesOfOne
<1> HIDE DEF adj, rev
<1>4. \A x \in NamesOf(js) : rev[x] \subseteq NamesOf(js)
  BY <1>2 DEF NamesOf
<1>5. ASSUME NEW n \in NamesOf(js), NEW x \in NamesOf(js)
      PROVE  x \in adj[n] <=> n \in rev[x]
  <2>1. PICK k \in DOMAIN js : js[k].name = n
    BY DEF NamesOf
  <2>2. x \in adj[n] => n \in rev[x]
    BY <1>2, <1>3, <2>1
  <2>3. n \in rev[x] => x \in adj[n]
    BY <1>2, <1>3
  <2> QED
    BY <2>2, <2>3
<1> QED
  BY <1>1, <1>2, <1>4, <1>5 DEF adj, rev

\* What is reachable from a job over dependencies is what it leads to.
LEMMA BackwardLeads ==
    ASSUME NEW js, IsJobs(js), Valid(js), Acyclic(js), NEW s \in NamesOf(js)
    PROVE  Reachable({s}, Dependencies(js)) = {n \in NamesOf(js) : Leads(js, s, n)}
<1> DEFINE adj == Dependencies(js)
           rev == Dependents(js)
           L == {n \in NamesOf(js) : Leads(js, s, n)}
           R == Reachable({s}, adj)
<1>1. PICK r : Ranks(r, js)
  BY DEF Acyclic
<1>2. /\ DOMAIN adj = NamesOf(js) /\ IsFiniteSet(DOMAIN adj)
      /\ \A n \in NamesOf(js) : adj[n] \subseteq NamesOf(js)
  <2>1. DOMAIN adj = NamesOf(js) /\ DOMAIN rev = NamesOf(js) /\ IsFiniteSet(NamesOf(js))
        /\ (\A n \in NamesOf(js) : adj[n] \subseteq NamesOf(js) /\ rev[n] \subseteq NamesOf(js))
        /\ (\A n, x \in NamesOf(js) : x \in adj[n] <=> n \in rev[x])
    BY <1>1, AdjacencyFacts
  <2> HIDE DEF adj, rev
  <2> QED
    BY <2>1
<1>3. \A n : Leads(js, s, n) <=> \A S \in SUBSET NamesOf(js) :
                (s \in S /\ \A x \in S : adj[x] \subseteq S) => n \in S
  BY DEF Leads
<1> HIDE DEF adj
<1>4. R \subseteq L
  <2>1. {s} \subseteq L
    BY <1>3
  <2>2. ASSUME NEW n \in L, NEW x \in adj[n]
        PROVE  x \in L
    <3>1. x \in NamesOf(js)
      BY <1>2
    <3>2. ASSUME NEW S \in SUBSET NamesOf(js), s \in S, \A y \in S : adj[y] \subseteq S
          PROVE  x \in S
      <4>1. n \in S
        BY <1>3, <3>2
      <4> QED
        BY <3>2, <4>1
    <3>3. Leads(js, s, x)
      BY <1>3, <3>2
    <3> QED
      BY <3>1, <3>3
  <2>3. \A n \in L \cap DOMAIN adj : adj[n] \subseteq L
    BY <2>2
  <2> HIDE DEF L
  <2> QED
    BY <1>2, <2>1, <2>3, ReachableWithin
<1>5. L \subseteq R
  <2>1. /\ {s} \subseteq R /\ \A x \in R \cap DOMAIN adj : adj[x] \subseteq R
    BY <1>2, ReachableClosed
  <2>2. R \subseteq NamesOf(js)
    BY <1>4
  <2> HIDE DEF R
  <2>3. s \in R /\ \A x \in R : adj[x] \subseteq R
    BY <1>2, <2>1, <2>2
  <2> QED
    BY <1>3, <2>2, <2>3
<1> QED
  BY <1>4, <1>5 DEF adj

\* What is reachable from a job over dependents is what leads to it.
LEMMA ForwardLeads ==
    ASSUME NEW js, IsJobs(js), Valid(js), Acyclic(js), NEW s \in NamesOf(js)
    PROVE  Reachable({s}, Dependents(js)) = {n \in NamesOf(js) : Leads(js, n, s)}
<1> DEFINE adj == Dependencies(js)
           rev == Dependents(js)
           L == {n \in NamesOf(js) : Leads(js, n, s)}
           R == Reachable({s}, rev)
<1>1. PICK r : Ranks(r, js)
  BY DEF Acyclic
<1>2. /\ DOMAIN adj = NamesOf(js) /\ DOMAIN rev = NamesOf(js) /\ IsFiniteSet(DOMAIN rev)
      /\ \A n \in NamesOf(js) : adj[n] \subseteq NamesOf(js) /\ rev[n] \subseteq NamesOf(js)
      /\ \A n, x \in NamesOf(js) : x \in adj[n] <=> n \in rev[x]
  <2>1. DOMAIN adj = NamesOf(js) /\ DOMAIN rev = NamesOf(js) /\ IsFiniteSet(NamesOf(js))
        /\ (\A n \in NamesOf(js) : adj[n] \subseteq NamesOf(js) /\ rev[n] \subseteq NamesOf(js))
        /\ (\A n, x \in NamesOf(js) : x \in adj[n] <=> n \in rev[x])
    BY <1>1, AdjacencyFacts
  <2> HIDE DEF adj, rev
  <2> QED
    BY <2>1
<1>3. \A n : Leads(js, n, s) <=> \A S \in SUBSET NamesOf(js) :
                (n \in S /\ \A x \in S : adj[x] \subseteq S) => s \in S
  BY DEF Leads
<1> HIDE DEF adj, rev
<1>4. R \subseteq L
  <2>1. {s} \subseteq L
    BY <1>3
  <2>2. ASSUME NEW n \in L, NEW x \in rev[n]
        PROVE  x \in L
    <3>1. x \in NamesOf(js) /\ n \in adj[x]
      BY <1>2
    <3>2. ASSUME NEW S \in SUBSET NamesOf(js), x \in S, \A y \in S : adj[y] \subseteq S
          PROVE  s \in S
      <4>1. n \in S
        BY <3>1, <3>2
      <4> QED
        BY <1>3, <3>2, <4>1
    <3>3. Leads(js, x, s)
      BY <1>3, <3>2
    <3> QED
      BY <3>1, <3>3
  <2>3. \A n \in L \cap DOMAIN rev : rev[n] \subseteq L
    BY <2>2
  <2> HIDE DEF L
  <2> QED
    BY <1>2, <2>1, <2>3, ReachableWithin
<1>5. L \subseteq R
  <2>1. {s} \subseteq R /\ \A x \in R \cap DOMAIN rev : rev[x] \subseteq R
    <3>1. \A x \in DOMAIN rev : rev[x] \subseteq DOMAIN rev
      BY <1>2
    <3> QED
      BY <1>2, <3>1, ReachableClosed
  <2> HIDE DEF R
  <2> SUFFICES ASSUME NEW n \in L, n \notin R
               PROVE  FALSE
    OBVIOUS
  <2> DEFINE S == NamesOf(js) \ R
  <2>2. n \in S /\ S \in SUBSET NamesOf(js) /\ s \notin S
    BY <2>1
  <2>3. ASSUME NEW x \in S, NEW d \in adj[x]
        PROVE  d \in S
    <3>1. d \in NamesOf(js) /\ x \in rev[d]
      BY <1>2
    <3>2. d \notin R
      BY <1>2, <2>1, <3>1
    <3> QED
      BY <3>1, <3>2
  <2> HIDE DEF S
  <2>4. ~Leads(js, n, s)
    BY <1>3, <2>2, <2>3
  <2> QED
    BY <2>4
<1> QED
  BY <1>4, <1>5 DEF rev
\* The jobs from the one target to the other, a side that is left open apart.
Within(js, from, to) ==
    {n \in NamesOf(js) : /\ from.job # NoName => Leads(js, n, from.job)
                         /\ to.job # NoName => Leads(js, to.job, n)}

\* The execution window is just these jobs.
LEMMA WindowIsWithin ==
    ASSUME NEW js, IsJobs(js), Valid(js), Acyclic(js), NEW from, NEW to,
           ~TargetRejected(js, from), ~TargetRejected(js, to), from.job # NoName \/ to.job # NoName
    PROVE  ExecutionWindow(js, from, to) = Within(js, from, to)
<1>1. ASSUME from.job # NoName
      PROVE  Reachable({from.job}, Dependents(js)) = {n \in NamesOf(js) : Leads(js, n, from.job)}
  <2>1. from.job \in NamesOf(js)
    BY <1>1 DEF TargetRejected, NamesOf
  <2> QED
    BY <2>1, ForwardLeads
<1>2. ASSUME to.job # NoName
      PROVE  Reachable({to.job}, Dependencies(js)) = {n \in NamesOf(js) : Leads(js, to.job, n)}
  <2>1. to.job \in NamesOf(js)
    BY <1>2 DEF TargetRejected, NamesOf
  <2> QED
    BY <2>1, BackwardLeads
<1>3. CASE from.job = NoName
  <2>1. ExecutionWindow(js, from, to) = Reachable({to.job}, Dependencies(js))
    BY <1>3 DEF ExecutionWindow
  <2>2. Within(js, from, to) = {n \in NamesOf(js) : Leads(js, to.job, n)}
    BY <1>3 DEF Within
  <2> QED
    BY <1>2, <1>3, <2>1, <2>2
<1>4. CASE from.job # NoName /\ to.job = NoName
  <2>1. ExecutionWindow(js, from, to) = Reachable({from.job}, Dependents(js))
    BY <1>4 DEF ExecutionWindow
  <2>2. Within(js, from, to) = {n \in NamesOf(js) : Leads(js, n, from.job)}
    BY <1>4 DEF Within
  <2> QED
    BY <1>1, <1>4, <2>1, <2>2
<1>5. CASE from.job # NoName /\ to.job # NoName
  <2>1. ExecutionWindow(js, from, to)
          = Reachable({from.job}, Dependents(js)) \cap Reachable({to.job}, Dependencies(js))
    BY <1>5 DEF ExecutionWindow
  <2>2. Within(js, from, to) = {n \in NamesOf(js) : Leads(js, n, from.job)}
                               \cap {n \in NamesOf(js) : Leads(js, to.job, n)}
    BY <1>5 DEF Within
  <2> QED
    BY <1>1, <1>2, <1>5, <2>1, <2>2
<1> QED
  BY <1>3, <1>4, <1>5

\* A job has something to deliver.
Delivers(job) == Scopes(job) # {} \/ job.publish

\* A job that is only needed delivers nothing, whatever is trimmed of it.
LEMMA StrippedDeliversNothing ==
    ASSUME NEW a, IsJob(a), NEW b, Lesser(b, Stripped(a)), b.publish = Stripped(a).publish
    PROVE  ~Delivers(b)
<1> DEFINE c == Stripped(a)
           t == WithoutStepExports(a.steps, Len(a.steps))
<1>1. /\ Len(a.steps) \in Nat /\ IsList(a.steps) /\ \A s \in DOMAIN a.steps : IsStep(a.steps[s])
      /\ DOMAIN a.steps = 1..Len(a.steps)
      /\ DOMAIN a = {"name", "deps", "arts", "caches", "matrix", "image", "platform", "exports", "publish", "steps"}
  BY StepsFacts DEF IsJob
<1>2. c.exports = {} /\ c.publish = FALSE /\ c.steps = t
  BY <1>1 DEF Stripped
<1>3. \A s \in DOMAIN t : t[s].exports = {}
  <2> SUFFICES ASSUME NEW s \in DOMAIN t
               PROVE  t[s].exports = {}
    OBVIOUS
  <2>1. s \in DOMAIN a.steps
    BY DEF WithoutStepExports
  <2>2. s <= Len(a.steps)
    <3> DEFINE l == Len(a.steps)
    <3>1. l \in Nat /\ s \in 1..l
      BY <1>1, <2>1
    <3> HIDE DEF l
    <3>2. s <= l
      BY <3>1
    <3> QED
      BY <3>2 DEF l
  <2>3. t[s] = [a.steps[s] EXCEPT !.exports = {}]
    BY <2>1, <2>2 DEF WithoutStepExports
  <2>4. IsStep(a.steps[s])
    BY <1>1, <2>1
  <2> QED
    BY <2>3, <2>4 DEF IsStep
<1>4. IsJob(b) /\ IsJob(c)
  BY StrippedIsLesser DEF Lesser
<1> HIDE DEF c, t
<1>5. DOMAIN b.steps \subseteq DOMAIN c.steps
  <2> DEFINE m == Len(c.steps)
             n == Len(b.steps)
  <2>1. m \in Nat /\ n \in Nat /\ DOMAIN b.steps = 1..n /\ DOMAIN c.steps = 1..m
    BY <1>4, StepsFacts
  <2>2. n <= m
    BY DEF Lesser, c
  <2> HIDE DEF m, n
  <2>3. 1..n \subseteq 1..m
    BY <2>1, <2>2
  <2> QED
    BY <2>1, <2>3
<1>6. b.exports = {} /\ \A s \in DOMAIN b.steps : b.steps[s].exports = {}
  BY <1>2, <1>3, <1>5 DEF Lesser, c
<1>7. Scopes(b) = {}
  BY <1>6 DEF Scopes
<1>8. ~b.publish
  BY <1>2 DEF c
<1> QED
  BY <1>7, <1>8 DEF Delivers

\* The steps of a that t names, and what of a's exports the targets leave it.
StepAt(a, t) == {s \in DOMAIN a.steps : t.job = a.name /\ t.step # "" /\ a.steps[s].name = t.step}
InSteps(a, from, to, s) == (\A i \in StepAt(a, from) : i <= s) /\ (\A i \in StepAt(a, to) : s <= i)
Kept(a, from, to) == {x \in Scopes(a) : x.scope = 0 \/ InSteps(a, from, to, x.scope)}

\* A target names one step of a job, the one it is trimmed at, or none.
LEMMA NamedStep ==
    ASSUME NEW a, IsJob(a), Cardinality(StepNames(a.steps)) = Len(a.steps), NEW t
    PROVE  /\ TrimIndex(a, t) > 0 => StepAt(a, t) = {TrimIndex(a, t)}
           /\ TrimIndex(a, t) = 0 => StepAt(a, t) = {}
<1> DEFINE x == TrimIndex(a, t)
<1>1. IsList(a.steps) /\ Len(a.steps) \in Nat /\ DOMAIN a.steps = 1..Len(a.steps)
  BY StepsFacts
<1>2. \A i, j \in DOMAIN a.steps : a.steps[i].name = a.steps[j].name => i = j
  BY <1>1, StepsDiffer
<1>3. /\ x \in 0..Len(a.steps)
      /\ x > 0 => a.name = t.job /\ t.step # "" /\ a.steps[x].name = t.step
      /\ x = 0 => ~(t.step # "" /\ a.name = t.job /\ HasStep(a, t.step))
  BY TrimIndexFacts
<1> DEFINE l == Len(a.steps)
<1>a. x \in 0..l /\ l \in Nat /\ DOMAIN a.steps = 1..l
  BY <1>1, <1>3
<1> HIDE DEF x, l
<1>4. CASE x > 0
  <2>1. x \in DOMAIN a.steps
    BY <1>a, <1>4
  <2>2. x \in StepAt(a, t)
    BY <1>3, <1>4, <2>1 DEF StepAt
  <2>3. \A s \in StepAt(a, t) : s = x
    BY <1>2, <1>3, <1>4, <2>1 DEF StepAt
  <2> QED
    BY <1>4, <2>2, <2>3 DEF x
<1>5. CASE x = 0
  <2>1. StepAt(a, t) = {}
    BY <1>3, <1>5 DEF StepAt, HasStep
  <2> QED
    BY <1>5, <2>1 DEF x
<1>6. x > 0 \/ x = 0
  BY <1>a
<1>7. ~(x > 0 /\ x = 0)
  OBVIOUS
<1> QED
  BY <1>4, <1>5, <1>6, <1>7 DEF x

\* The steps a trimmed job is left with, and what they export.
LEMMA TrimmedSteps ==
    ASSUME NEW a, IsJob(a), NEW from, NEW to
    PROVE  LET b == Trimmed(a, from, to)
               f == TrimIndex(a, from)
               n == TrimIndex(a, to)
           IN  /\ b.name = a.name /\ b.publish = a.publish /\ b.exports = a.exports
               /\ \A s : s \in DOMAIN b.steps <=> s \in DOMAIN a.steps /\ (n > 0 => s <= n)
               /\ \A s \in DOMAIN b.steps :
                    b.steps[s].exports = IF f > 0 /\ s < f THEN {} ELSE a.steps[s].exports
<1> DEFINE b == Trimmed(a, from, to)
           f == TrimIndex(a, from)
           n == TrimIndex(a, to)
           l == Len(a.steps)
           kept == IF n > 0 THEN SubSeq(a.steps, 1, n) ELSE a.steps
           t == IF f > 0 THEN WithoutStepExports(kept, f - 1) ELSE kept
<1>1. /\ l \in Nat /\ DOMAIN a.steps = 1..l /\ a.steps \in Seq(ToSet(a.steps))
      /\ \A s \in DOMAIN a.steps : IsStep(a.steps[s])
      /\ DOMAIN a = {"name", "deps", "arts", "caches", "matrix", "image", "platform", "exports", "publish", "steps"}
  BY StepsFacts DEF IsJob
<1>2. n \in 0..l /\ f \in 0..l
  BY TrimIndexFacts
<1>3. b.name = a.name /\ b.publish = a.publish /\ b.exports = a.exports /\ b.steps = t
  BY <1>1 DEF Trimmed
<1> HIDE DEF b, f, n
<1>4. /\ \A s : s \in DOMAIN kept <=> s \in DOMAIN a.steps /\ (n > 0 => s <= n)
      /\ \A s \in DOMAIN kept : kept[s] = a.steps[s]
  <2>1. CASE n > 0
    <3> DEFINE u == SubSeq(a.steps, 1, n)
    <3>1. /\ u \in Seq(ToSet(a.steps)) /\ Len(u) = n
          /\ \A k \in 1..n : u[k] = a.steps[k]
      BY <1>1, <1>2, Beginning
    <3> HIDE DEF u
    <3>2. DOMAIN u = 1..n
      BY <3>1, LenProperties
    <3>3. \A s : s \in 1..n <=> s \in 1..l /\ s <= n
      <4> HIDE DEF l
      <4> QED
        BY <1>1, <1>2
    <3>4. kept = u
      BY <2>1 DEF u
    <3> HIDE DEF kept, l
    <3> QED
      BY <1>1, <2>1, <3>1, <3>2, <3>3, <3>4
  <2>2. CASE ~(n > 0)
    <3>1. kept = a.steps
      BY <2>2
    <3> HIDE DEF kept
    <3> QED
      BY <2>2, <3>1
  <2> QED
    BY <2>1, <2>2
<1> HIDE DEF kept
<1>5. /\ DOMAIN t = DOMAIN kept
      /\ \A s \in DOMAIN t : t[s].exports = IF f > 0 /\ s < f THEN {} ELSE a.steps[s].exports
  <2>1. CASE f > 0
    <3>1. t = WithoutStepExports(kept, f - 1)
      BY <2>1
    <3> HIDE DEF t
    <3>2. DOMAIN t = DOMAIN kept
      BY <3>1 DEF WithoutStepExports
    <3>3. ASSUME NEW s \in DOMAIN t
          PROVE  t[s].exports = IF s < f THEN {} ELSE a.steps[s].exports
      <4>1. s \in DOMAIN a.steps /\ kept[s] = a.steps[s]
        BY <1>4, <3>2
      <4>2. s \in Nat /\ f \in Nat
        <5> HIDE DEF l
        <5> QED
          BY <1>1, <1>2, <4>1
      <4>3. s <= f - 1 <=> s < f
        BY <4>2
      <4>4. t[s] = IF s < f THEN [a.steps[s] EXCEPT !.exports = {}] ELSE a.steps[s]
        BY <3>1, <3>2, <4>1, <4>3 DEF WithoutStepExports
      <4>5. "exports" \in DOMAIN a.steps[s]
        BY <1>1, <4>1 DEF IsStep
      <4> QED
        BY <4>4, <4>5
    <3> QED
      BY <2>1, <3>2, <3>3
  <2>2. CASE ~(f > 0)
    <3>1. t = kept
      BY <2>2
    <3> HIDE DEF t
    <3> QED
      BY <1>4, <2>2, <3>1
  <2> QED
    BY <2>1, <2>2
<1> HIDE DEF t
<1>6. \A s : s \in DOMAIN b.steps <=> s \in DOMAIN a.steps /\ (n > 0 => s <= n)
  BY <1>3, <1>4, <1>5
<1>7. \A s \in DOMAIN b.steps : b.steps[s].exports = IF f > 0 /\ s < f THEN {} ELSE a.steps[s].exports
  BY <1>3, <1>5
<1> QED
  BY <1>3, <1>6, <1>7 DEF b, f, n

\* A trimmed job delivers what it did, but for the steps outside of the window.
LEMMA TrimmedDelivers ==
    ASSUME NEW a, IsJob(a), Cardinality(StepNames(a.steps)) = Len(a.steps), NEW from, NEW to
    PROVE  LET b == Trimmed(a, from, to) IN
           b.name = a.name /\ b.publish = a.publish /\ Scopes(b) = Kept(a, from, to)
<1> DEFINE b == Trimmed(a, from, to)
           f == TrimIndex(a, from)
           n == TrimIndex(a, to)
<1>1. /\ b.name = a.name /\ b.publish = a.publish /\ b.exports = a.exports
      /\ \A s : s \in DOMAIN b.steps <=> s \in DOMAIN a.steps /\ (n > 0 => s <= n)
      /\ \A s \in DOMAIN b.steps :
            b.steps[s].exports = IF f > 0 /\ s < f THEN {} ELSE a.steps[s].exports
  BY TrimmedSteps
<1>2. /\ Len(a.steps) \in Nat /\ DOMAIN a.steps = 1..Len(a.steps)
      /\ f \in 0..Len(a.steps) /\ n \in 0..Len(a.steps)
  BY StepsFacts, TrimIndexFacts
<1>3. /\ f > 0 => StepAt(a, from) = {f}
      /\ f = 0 => StepAt(a, from) = {}
      /\ n > 0 => StepAt(a, to) = {n}
      /\ n = 0 => StepAt(a, to) = {}
  BY NamedStep
<1> HIDE DEF b, f, n
<1>4. ASSUME NEW s \in DOMAIN a.steps
      PROVE  /\ InSteps(a, from, to, s) <=> (f > 0 => ~(s < f)) /\ (n > 0 => s <= n)
             /\ s # 0
  <2> DEFINE l == Len(a.steps)
  <2>1. s \in 1..l /\ l \in Nat /\ f \in 0..l /\ n \in 0..l
    BY <1>2
  <2> HIDE DEF l
  <2>2. s \in Nat /\ f \in Nat /\ n \in Nat /\ s # 0
    BY <2>1
  <2>3. (\A i \in StepAt(a, from) : i <= s) <=> (f > 0 => ~(s < f))
    BY <1>3, <2>2
  <2>4. (\A i \in StepAt(a, to) : s <= i) <=> (n > 0 => s <= n)
    BY <1>3, <2>2
  <2> QED
    BY <2>2, <2>3, <2>4 DEF InSteps
<1>5. ASSUME NEW x \in Scopes(b)
      PROVE  x \in Kept(a, from, to)
  <2>1. CASE \E p \in a.exports : x = [scope |-> 0, path |-> p]
    BY <2>1 DEF Kept, Scopes
  <2>2. ASSUME NEW s \in DOMAIN b.steps, NEW p \in b.steps[s].exports, x = [scope |-> s, path |-> p]
        PROVE  x \in Kept(a, from, to)
    <3>1. s \in DOMAIN a.steps /\ (n > 0 => s <= n) /\ ~(f > 0 /\ s < f) /\ p \in a.steps[s].exports
      BY <1>1, <2>2
    <3>2. InSteps(a, from, to, s) /\ x.scope = s
      BY <1>4, <2>2, <3>1
    <3>3. x \in Scopes(a)
      BY <2>2, <3>1 DEF Scopes
    <3> QED
      BY <3>2, <3>3 DEF Kept
  <2> QED
    BY <1>1, <1>5, <2>1, <2>2 DEF Scopes
<1>6. ASSUME NEW x \in Kept(a, from, to)
      PROVE  x \in Scopes(b)
  <2>1. CASE \E p \in a.exports : x = [scope |-> 0, path |-> p]
    BY <1>1, <2>1 DEF Scopes
  <2>2. ASSUME NEW s \in DOMAIN a.steps, NEW p \in a.steps[s].exports, x = [scope |-> s, path |-> p]
        PROVE  x \in Scopes(b)
    <3>1. x.scope = s
      BY <2>2
    <3>2. InSteps(a, from, to, s)
      BY <1>4, <1>6, <3>1 DEF Kept
    <3>3. s \in DOMAIN b.steps /\ p \in b.steps[s].exports
      BY <1>1, <1>4, <2>2, <3>2
    <3> QED
      BY <2>2, <3>3 DEF Scopes
  <2> QED
    BY <1>6, <2>1, <2>2 DEF Kept, Scopes
<1>7. Scopes(b) = Kept(a, from, to)
  BY <1>5, <1>6
<1> QED
  BY <1>1, <1>7 DEF b

\* b is what the targets leave of a; t delivers of js what is left of the jobs
\* within the window, and no more.
IsLeft(b, a, from, to) ==
    b.name = a.name /\ b.publish = a.publish /\ Scopes(b) = Kept(a, from, to)

Left(t, js, from, to) ==
    /\ \A i \in DOMAIN t : Delivers(t[i]) =>
          \E k \in DOMAIN js : js[k].name \in Within(js, from, to) /\ IsLeft(t[i], js[k], from, to)
    /\ \A k \in DOMAIN js : js[k].name \in Within(js, from, to) =>
          \E i \in DOMAIN t : IsLeft(t[i], js[k], from, to)

\* So does what the filter leaves.
LEMMA FilteredDelivers ==
    ASSUME NEW js, IsJobs(js), Valid(js), Acyclic(js), NEW from, NEW to,
           FilterError(js, from, to) = "none"
    PROVE  Left(FilterJobs(js, from, to), js, from, to)
<1>1. CASE from = NoTarget /\ to = NoTarget
  <2>1. FilterJobs(js, from, to) = js
    BY <1>1 DEF FilterJobs
  <2>2. from.job = NoName /\ to.job = NoName
    BY <1>1 DEF NoTarget
  <2>3. Within(js, from, to) = NamesOf(js)
    BY <2>2 DEF Within
  <2>4. \A k \in DOMAIN js : js[k].name \in NamesOf(js)
    BY DEF NamesOf
  <2>5. \A k \in DOMAIN js : IsLeft(js[k], js[k], from, to)
    <3>1. \A a : StepAt(a, from) = {} /\ StepAt(a, to) = {}
      BY <1>1 DEF StepAt, NoTarget
    <3>2. \A a : Kept(a, from, to) = Scopes(a)
      BY <3>1 DEF Kept, InSteps
    <3> QED
      BY <3>2 DEF IsLeft
  <2> QED
    BY <2>1, <2>3, <2>4, <2>5 DEF Left
<1>2. CASE ~(from = NoTarget /\ to = NoTarget)
  <2> DEFINE w == ExecutionWindow(js, from, to)
             s == Selected(js, w)
             t == FilterJobs(js, from, to)
  <2>1. t = [i \in DOMAIN s |-> Trimmed(s[i], from, to)]
    BY <1>2 DEF FilterJobs, Each
  <2>2. ~TargetRejected(js, from) /\ ~TargetRejected(js, to) /\ w # {}
    BY <1>2 DEF FilterError
  <2>3. from.job # NoName \/ to.job # NoName
    BY <2>2 DEF ExecutionWindow
  <2>4. w = Within(js, from, to)
    BY <2>2, <2>3, WindowIsWithin
  <2>5. PICK src : /\ Part(s, js, src)
                   /\ \A i \in DOMAIN s :
                         s[i] = IF js[src[i]].name \in w THEN js[src[i]] ELSE Stripped(js[src[i]])
                   /\ \A k \in DOMAIN js :
                         js[k].name \in FullSet(js, w) => \E i \in DOMAIN s : src[i] = k
    BY SelectedPart
  <2>6. w \subseteq FullSet(js, w)
    <3> DEFINE adj == Dependencies(js)
    <3>1. PICK r : Ranks(r, js)
      BY DEF Acyclic
    <3>2. /\ DOMAIN adj = NamesOf(js) /\ IsFiniteSet(DOMAIN adj)
          /\ \A n \in DOMAIN adj : \A x \in adj[n] : x \in NamesOf(js) /\ r[x] < r[n]
      BY <3>1, DependenciesFacts
    <3> HIDE DEF adj, w
    <3>3. \A x \in DOMAIN adj : adj[x] \subseteq DOMAIN adj
      BY <3>2
    <3>4. w \subseteq Reachable(w, adj)
      BY <3>2, <3>3, ReachableClosed
    <3> QED
      BY <3>4 DEF FullSet, adj
  <2> HIDE DEF s, t, w
  <2>7. \A i \in DOMAIN s : /\ src[i] \in DOMAIN js /\ IsJob(js[src[i]])
                            /\ IsJob(s[i]) /\ s[i].name = js[src[i]].name
    BY <2>5 DEF Part, Lesser, IsJobs
  <2>8. \A i \in DOMAIN t : i \in DOMAIN s /\ t[i] = Trimmed(s[i], from, to)
    BY <2>1
  <2>9. ASSUME NEW i \in DOMAIN s, js[src[i]].name \notin w
        PROVE  ~Delivers(t[i])
    <3> DEFINE a == js[src[i]]
               c == s[i]
    <3>1. c = Stripped(a) /\ IsJob(a) /\ IsJob(c) /\ t[i] = Trimmed(c, from, to)
      BY <2>1, <2>5, <2>7, <2>9
    <3> HIDE DEF a, c
    <3>2. Lesser(Trimmed(c, from, to), c)
      BY <3>1, TrimmedIsLesser
    <3>3. Trimmed(c, from, to).publish = c.publish
      BY <3>1, TrimmedSteps
    <3> QED
      BY <3>1, <3>2, <3>3, StrippedDeliversNothing
  <2>10. ASSUME NEW i \in DOMAIN s, js[src[i]].name \in w
         PROVE  IsLeft(t[i], js[src[i]], from, to)
    <3> DEFINE a == js[src[i]]
    <3>1. t[i] = Trimmed(a, from, to) /\ IsJob(a) /\ src[i] \in DOMAIN js
      BY <2>1, <2>5, <2>7, <2>10
    <3>2. Cardinality(StepNames(a.steps)) = Len(a.steps)
      BY <3>1 DEF Valid, JobRejected
    <3> HIDE DEF a
    <3>3. IsLeft(t[i], a, from, to)
      BY <3>1, <3>2, TrimmedDelivers DEF IsLeft
    <3> QED
      BY <3>3 DEF a
  <2> HIDE DEF Delivers, IsLeft
  <2>11. ASSUME NEW i \in DOMAIN t, Delivers(t[i])
         PROVE  \E k \in DOMAIN js : js[k].name \in w /\ IsLeft(t[i], js[k], from, to)
    BY <2>7, <2>8, <2>9, <2>10, <2>11
  <2>12. ASSUME NEW k \in DOMAIN js, js[k].name \in w
         PROVE  \E i \in DOMAIN t : IsLeft(t[i], js[k], from, to)
    <3>1. PICK i \in DOMAIN s : src[i] = k
      BY <2>5, <2>6, <2>12
    <3>2. i \in DOMAIN t
      BY <2>1
    <3> QED
      BY <2>10, <2>12, <3>1, <3>2
  <2>13. Left(t, js, from, to)
    BY <2>4, <2>11, <2>12 DEF Left
  <2> QED
    BY <2>13 DEF t
<1> QED
  BY <1>1, <1>2
-----------------------------------------------------------------------------
(* What a run delivers.                                                    *)

\* What the builder collects of the jobs of these indices.
ExportsOf(js, K) ==
    UNION {{[job |-> js[k].name, scope |-> e.scope, path |-> e.path] : e \in Scopes(js[k])} : k \in K}
ImagesOf(js, K) == {js[k].name : k \in {i \in K : js[i].publish}}

\* The indices of the jobs that have been built.
Done(ord, n) == {ord[i] : i \in 1..n}

\* The phases after the filter.
Filtered ==
    \/ phase \in {"build", "llb", "ready"}
    \/ phase \in {"check", "sort"} /\ caller = "build"

WindowInv ==
    /\ parsed # <<>> => IsJobs(parsed) /\ Valid(parsed)
    /\ Filtered => Left(jobs, parsed, start, stop)
    /\ phase \notin {"llb", "ready", "failed"} => exports = {} /\ images = {}
    /\ phase = "llb" => /\ exports = ExportsOf(jobs, Done(topo, Len(built)))
                        /\ images = ImagesOf(jobs, Done(topo, Len(built)))
    /\ phase = "ready" => exports = ExportsOf(jobs, DOMAIN jobs) /\ images = ImagesOf(jobs, DOMAIN jobs)

\* What is left of a job, for the job of that name.
LEMMA LeftOfParsed ==
    ASSUME NEW n, NEW k \in DOMAIN parsed, Parsed(n) = parsed[k], parsed[k].name = n
    PROVE  Kept(parsed[k], start, stop)
           = {x \in Scopes(Parsed(n)) : x.scope = 0 \/ InStepWindow(n, x.scope)}
<1>1. \A t : AtStep(n, t) = StepAt(parsed[k], t)
  BY DEF AtStep, StepAt
<1>2. \A s : InStepWindow(n, s) <=> InSteps(parsed[k], start, stop, s)
  BY <1>1 DEF InStepWindow, InSteps
<1> QED
  BY <1>2 DEF Kept

\* It says that the window is delivered.
LEMMA DeliveredWithin ==
    ASSUME PlanInv, WindowInv, parsed # <<>>
    PROVE  WindowDelivers
<1> DEFINE Rest(n) == {x \in Scopes(Parsed(n)) : x.scope = 0 \/ InStepWindow(n, x.scope)}
           w == Within(parsed, start, stop)
           W == {m \in NamesOf(parsed) : InWindow(m)}
<1> SUFFICES ASSUME phase = "ready"
             PROVE  /\ exports = UNION {{[job |-> n, scope |-> e.scope, path |-> e.path] : e \in Rest(n)} :
                                         n \in W}
                    /\ images = {n \in NamesOf(parsed) : InWindow(n) /\ Parsed(n).publish}
  BY DEF WindowDelivers
<1>1. /\ IsJobs(parsed) /\ Valid(parsed) /\ Left(jobs, parsed, start, stop)
      /\ exports = ExportsOf(jobs, DOMAIN jobs) /\ images = ImagesOf(jobs, DOMAIN jobs)
  <2>1. Filtered
    BY DEF Filtered
  <2>2. IsJobs(parsed) /\ Valid(parsed) /\ Left(jobs, parsed, start, stop)
    BY <2>1 DEF WindowInv
  <2>3. exports = ExportsOf(jobs, DOMAIN jobs) /\ images = ImagesOf(jobs, DOMAIN jobs)
    BY DEF WindowInv
  <2> QED
    BY <2>2, <2>3
<1>2. W = w
  <2>1. \A a, b : Needs(a, b) <=> Leads(parsed, a, b)
    BY <1>1, NeedsLeads
  <2> HIDE DEF Needs, Leads
  <2> QED
    BY <2>1 DEF InWindow, Within
<1>3. \A k \in DOMAIN parsed : Parsed(parsed[k].name) = parsed[k]
  <2>1. \A k, i \in DOMAIN parsed : parsed[i].name = parsed[k].name => i = k
    BY <1>1, NamesDiffer
  <2> QED
    BY <2>1 DEF Parsed
<1>4. /\ \A i \in DOMAIN jobs : Delivers(jobs[i]) =>
            \E k \in DOMAIN parsed : parsed[k].name \in w /\ IsLeft(jobs[i], parsed[k], start, stop)
      /\ \A k \in DOMAIN parsed : parsed[k].name \in w =>
            \E i \in DOMAIN jobs : IsLeft(jobs[i], parsed[k], start, stop)
  BY <1>1 DEF Left
<1>5. \A n \in W : \E k \in DOMAIN parsed : parsed[k].name = n
  BY DEF NamesOf
<1>6. W \subseteq NamesOf(parsed) /\ \A n \in NamesOf(parsed) : n \in W <=> InWindow(n)
  OBVIOUS
<1> HIDE DEF w, W
<1>7. \A k \in DOMAIN parsed : Kept(parsed[k], start, stop) = Rest(parsed[k].name)
  BY <1>3, LeftOfParsed
<1> HIDE DEF Rest
<1>8. ASSUME NEW e \in exports
      PROVE  \E n \in W : \E x \in Rest(n) : e = [job |-> n, scope |-> x.scope, path |-> x.path]
  <2>1. PICK i \in DOMAIN jobs :
           \E x \in Scopes(jobs[i]) : e = [job |-> jobs[i].name, scope |-> x.scope, path |-> x.path]
    BY <1>1, <1>8 DEF ExportsOf
  <2>2. Delivers(jobs[i])
    BY <2>1 DEF Delivers
  <2>3. PICK k \in DOMAIN parsed : parsed[k].name \in w /\ IsLeft(jobs[i], parsed[k], start, stop)
    BY <1>4, <2>2
  <2>4. jobs[i].name = parsed[k].name /\ Scopes(jobs[i]) = Rest(parsed[k].name)
    BY <1>7, <2>3 DEF IsLeft
  <2> QED
    BY <1>2, <2>1, <2>3, <2>4
<1>9. ASSUME NEW n \in W, NEW x \in Rest(n)
      PROVE  [job |-> n, scope |-> x.scope, path |-> x.path] \in exports
  <2>1. PICK k \in DOMAIN parsed : parsed[k].name = n
    BY <1>5
  <2>2. PICK i \in DOMAIN jobs : IsLeft(jobs[i], parsed[k], start, stop)
    BY <1>2, <1>4, <2>1
  <2>3. jobs[i].name = n /\ x \in Scopes(jobs[i])
    BY <1>7, <1>9, <2>1, <2>2 DEF IsLeft
  <2> QED
    BY <1>1, <2>3 DEF ExportsOf
<1>10. exports = UNION {{[job |-> n, scope |-> e.scope, path |-> e.path] : e \in Rest(n)} : n \in W}
  BY <1>8, <1>9
<1>11. ASSUME NEW n \in images
       PROVE  n \in W /\ Parsed(n).publish
  <2>1. PICK i \in DOMAIN jobs : jobs[i].publish /\ n = jobs[i].name
    BY <1>1, <1>11 DEF ImagesOf
  <2>2. Delivers(jobs[i])
    BY <2>1 DEF Delivers
  <2>3. PICK k \in DOMAIN parsed : parsed[k].name \in w /\ IsLeft(jobs[i], parsed[k], start, stop)
    BY <1>4, <2>2
  <2> QED
    BY <1>2, <1>3, <2>1, <2>3 DEF IsLeft
<1>12. ASSUME NEW n \in W, Parsed(n).publish
       PROVE  n \in images
  <2>1. PICK k \in DOMAIN parsed : parsed[k].name = n
    BY <1>5
  <2>2. PICK i \in DOMAIN jobs : IsLeft(jobs[i], parsed[k], start, stop)
    BY <1>2, <1>4, <2>1
  <2>3. jobs[i].name = n /\ jobs[i].publish
    BY <1>3, <1>12, <2>1, <2>2 DEF IsLeft
  <2> QED
    BY <1>1, <2>3 DEF ImagesOf
<1>13. images = {n \in NamesOf(parsed) : InWindow(n) /\ Parsed(n).publish}
  BY <1>6, <1>11, <1>12
<1> QED
  BY <1>10, <1>13

\* A step that neither collects nor filters.
LEMMA QuietStep ==
    ASSUME WindowInv, parsed' = parsed, exports' = exports, images' = images,
           phase \notin {"llb", "ready", "failed"}, phase' \notin {"llb", "ready"},
           Filtered' => Filtered /\ jobs' = jobs /\ start' = start /\ stop' = stop
    PROVE  WindowInv'
<1>1. parsed' # <<>> => IsJobs(parsed') /\ Valid(parsed')
  BY DEF WindowInv
<1>2. Filtered' => Left(jobs', parsed', start', stop')
  BY DEF WindowInv
<1>3. exports' = {} /\ images' = {}
  BY DEF WindowInv
<1> QED
  BY <1>1, <1>2, <1>3 DEF WindowInv

\* A command that has failed.
LEMMA WindowFail ==
    ASSUME WindowInv, NEW e, Fail(e)
    PROVE  WindowInv'
<1>1. phase' = "failed" /\ parsed' = parsed
  BY DEF Fail
<1> QED
  BY <1>1 DEF WindowInv, Filtered

\* When the last list of jobs has been accepted nothing has been collected.
LEMMA CollectingBegins ==
    ASSUME WindowInv, Filtered, phase \notin {"llb", "ready", "failed"}, built = <<>>, phase' = "llb",
           UNCHANGED <<jobs, parsed, start, stop, built, exports, images>>
    PROVE  WindowInv'
<1>1. exports = {} /\ images = {} /\ Left(jobs, parsed, start, stop)
      /\ (parsed # <<>> => IsJobs(parsed) /\ Valid(parsed))
  BY DEF WindowInv
<1>2. Len(built') = 0
  OBVIOUS
<1>3. Done(topo', Len(built')) = {}
  BY <1>2 DEF Done
<1>4. exports' = ExportsOf(jobs', Done(topo', Len(built'))) /\ images' = ImagesOf(jobs', Done(topo', Len(built')))
  BY <1>1, <1>3 DEF ExportsOf, ImagesOf
<1> QED
  BY <1>1, <1>4 DEF WindowInv

\* The names built so far, one more.
LEMMA OneMore ==
    ASSUME NEW n \in Nat, NEW s, s = [i \in 1..n |-> s[i]], NEW x
    PROVE  Len(Append(s, x)) = n + 1
<1>1. IsList(s) /\ Len(s) = n
  BY MakeList
<1> DEFINE T == ToSet(s) \cup {x}
<1>2. s \in Seq(T) /\ x \in T
  BY <1>1 DEF IsList
<1> HIDE DEF T
<1> QED
  BY <1>1, <1>2

\* The builder adds what the next job delivers.
LEMMA CollectingOn ==
    ASSUME PlanInv, WindowInv, BuildJob
    PROVE  WindowInv'
<1> DEFINE n == Len(built)
           k == topo[n + 1]
           job == jobs[k]
           D == Done(topo, n)
<1>1. CASE \E e : Fail(e)
  BY <1>1, WindowFail
<1>2. CASE /\ built' = Append(built, job.name)
           /\ exports' = exports \cup
                {[job |-> job.name, scope |-> e.scope, path |-> e.path] : e \in Scopes(job)}
           /\ images' = images \cup (IF job.publish THEN {job.name} ELSE {})
           /\ UNCHANGED <<jobs, topo, phase, start, stop, parsed>>
  <2>1. phase = "llb" /\ Filtered
    BY DEF BuildJob, Filtered
  <2>2. /\ exports = ExportsOf(jobs, D) /\ images = ImagesOf(jobs, D)
        /\ Left(jobs, parsed, start, stop)
        /\ parsed # <<>> => IsJobs(parsed) /\ Valid(parsed)
    <3>1. exports = ExportsOf(jobs, D) /\ images = ImagesOf(jobs, D)
      BY <2>1 DEF WindowInv
    <3>2. Left(jobs, parsed, start, stop) /\ (parsed # <<>> => IsJobs(parsed) /\ Valid(parsed))
      BY <2>1 DEF WindowInv
    <3> QED
      BY <3>1, <3>2
  <2>3. n \in Nat /\ built = [i \in 1..n |-> jobs[topo[i]].name]
    <3>1. n \in 0..Len(topo) /\ Topological(jobs, topo) /\ built = [i \in 1..n |-> jobs[topo[i]].name]
      BY <2>1 DEF PlanInv, PhaseInv
    <3>2. Len(topo) \in Nat
      BY <3>1, LenProperties DEF Topological, InOrder
    <3> QED
      BY <3>1, <3>2
  <2>4. Len(built') = n + 1
    <3>1. built = [i \in 1..n |-> built[i]]
      BY <2>3
    <3> HIDE DEF n, job
    <3> QED
      BY <1>2, <2>3, <3>1, OneMore
  <2>5. Done(topo, n + 1) = D \cup {k}
    <3> HIDE DEF n
    <3>1. 1..(n + 1) = 1..n \cup {n + 1}
      BY <2>3
    <3> QED
      BY <3>1 DEF Done
  <2> HIDE DEF n, k, D
  <2>6. exports' = ExportsOf(jobs, D \cup {k})
    BY <1>2, <2>2 DEF ExportsOf
  <2>7. images' = ImagesOf(jobs, D \cup {k})
    BY <1>2, <2>2 DEF ImagesOf
  <2>8. /\ exports' = ExportsOf(jobs', Done(topo', Len(built')))
        /\ images' = ImagesOf(jobs', Done(topo', Len(built')))
    BY <1>2, <2>4, <2>5, <2>6, <2>7
  <2>9. phase' = "llb" /\ Left(jobs', parsed', start', stop')
        /\ (parsed' # <<>> => IsJobs(parsed') /\ Valid(parsed'))
    BY <1>2, <2>1, <2>2
  <2> QED
    BY <2>8, <2>9 DEF WindowInv
<1> QED
  BY <1>1, <1>2 DEF BuildJob

\* When all have been built it has collected of all.
LEMMA CollectingEnds ==
    ASSUME PlanInv, WindowInv, BuildRunnerJobs
    PROVE  WindowInv'
<1>1. CASE \E e : Fail(e)
  BY <1>1, WindowFail
<1>2. CASE phase' = "ready" /\ UNCHANGED <<jobs, start, stop, exports, images, parsed>>
  <2>1. phase = "llb" /\ Filtered /\ Len(built) = Len(topo) /\ Topological(jobs, topo)
    BY DEF BuildRunnerJobs, Filtered, PlanInv, PhaseInv
  <2>2. /\ exports = ExportsOf(jobs, Done(topo, Len(built)))
        /\ images = ImagesOf(jobs, Done(topo, Len(built)))
    BY <2>1 DEF WindowInv
  <2>3. Left(jobs, parsed, start, stop) /\ (parsed # <<>> => IsJobs(parsed) /\ Valid(parsed))
    BY <2>1 DEF WindowInv
  <2>4. Done(topo, Len(built)) = DOMAIN jobs
    <3>1. DOMAIN topo = 1..Len(topo) /\ topo \in Seq(DOMAIN jobs)
      BY <2>1, LenProperties DEF Topological, InOrder
    <3>2. \A i \in DOMAIN topo : topo[i] \in DOMAIN jobs
      BY <3>1, ElementOfSeq
    <3>3. \A k \in DOMAIN jobs : \E i \in DOMAIN topo : topo[i] = k
      BY <2>1 DEF Topological
    <3> QED
      BY <2>1, <3>1, <3>2, <3>3 DEF Done
  <2>5. exports' = ExportsOf(jobs', DOMAIN jobs') /\ images' = ImagesOf(jobs', DOMAIN jobs')
    BY <1>2, <2>2, <2>4
  <2>6. phase' = "ready" /\ Left(jobs', parsed', start', stop')
        /\ (parsed' # <<>> => IsJobs(parsed') /\ Valid(parsed'))
    BY <1>2, <2>3
  <2> QED
    BY <2>5, <2>6 DEF WindowInv
<1> QED
  BY <1>1, <1>2 DEF BuildRunnerJobs, Each
\* The filter leaves what the window delivers.
LEMMA WindowFiltered ==
    ASSUME PlanInv, WindowInv, NEW from, NEW to, RunAction(from, to)
    PROVE  WindowInv'
<1>0. phase = "parsed" /\ IsJobs(jobs) /\ Valid(jobs) /\ Acyclic(jobs) /\ parsed = jobs
  <2>1. phase = "parsed" /\ IsJobs(jobs) /\ parsed # <<>>
    BY DEF RunAction, PlanInv, TypeInv, Parsing
  <2> QED
    BY <2>1 DEF PlanInv, PhaseInv
<1>1. CASE Fail(FilterError(jobs, from, to))
  BY <1>1, WindowFail
<1>2. CASE /\ FilterError(jobs, from, to) = "none"
           /\ start' = from /\ stop' = to /\ jobs' = FilterJobs(jobs, from, to) /\ phase' = "build"
           /\ UNCHANGED <<exports, images, parsed>>
  <2>1. Left(jobs', parsed', start', stop')
    BY <1>0, <1>2, FilteredDelivers
  <2>2. IsJobs(parsed') /\ Valid(parsed')
    BY <1>0, <1>2
  <2>3. exports' = {} /\ images' = {}
    BY <1>0, <1>2 DEF WindowInv
  <2>4. phase' = "build"
    BY <1>2
  <2> QED
    BY <2>1, <2>2, <2>3, <2>4 DEF WindowInv
<1> QED
  BY <1>1, <1>2 DEF RunAction, buildVars

\* Validate returns: what it has accepted is the parsed pipeline, or what the
\* filter has left of it.
LEMMA WindowReturns ==
    ASSUME PlanInv, WindowInv, Validated
    PROVE  WindowInv'
<1>0. /\ phase = "sort" /\ IsJobs(jobs) /\ Valid(jobs) /\ built = <<>>
      /\ caller \in {"parse", "validate", "build"}
  BY DEF PlanInv, TypeInv, PhaseInv, Validated, Sorting
<1>1. /\ jobs' = jobs /\ caller' = caller /\ built' = built /\ start' = start /\ stop' = stop
      /\ exports' = exports /\ images' = images
      /\ parsed' = IF caller = "parse" THEN jobs ELSE parsed
  BY DEF Validated, buildVars
<1>2. CASE caller = "parse"
  <2>1. phase' = "parsed" /\ parsed' = jobs
    BY <1>1, <1>2 DEF Validated
  <2>2. IsJobs(parsed') /\ Valid(parsed')
    BY <1>0, <2>1
  <2>3. exports' = {} /\ images' = {}
    BY <1>0, <1>1 DEF WindowInv
  <2> QED
    BY <2>1, <2>2, <2>3 DEF WindowInv, Filtered
<1>3. CASE caller = "validate"
  <2>1. phase' = "valid" /\ parsed' = parsed
    BY <1>1, <1>3 DEF Validated
  <2> QED
    BY <1>0, <1>1, <2>1, QuietStep DEF Filtered
<1>4. CASE caller = "build"
  <2>1. phase' = "llb" /\ parsed' = parsed /\ Filtered
    BY <1>0, <1>1, <1>4 DEF Validated, Filtered
  <2> QED
    BY <1>0, <1>1, <2>1, CollectingBegins
<1> QED
  BY <1>0, <1>2, <1>3, <1>4

\* Build begins to collect, or validates what the filter has left first.
LEMMA WindowBuilds ==
    ASSUME PlanInv, WindowInv, Build
    PROVE  WindowInv'
<1>0. phase = "build" /\ built = <<>> /\ Filtered
  BY DEF Build, PlanInv, PhaseInv, Filtered
<1>1. CASE Proceed(jobs, "llb")
  <2>1. phase' = "llb" /\ UNCHANGED <<jobs, parsed, start, stop, built, exports, images>>
    BY <1>1 DEF Proceed, buildVars
  <2> QED
    BY <1>0, <2>1, CollectingBegins
<1>2. CASE CallValidate("build")
  <2>1. phase' = "check" /\ UNCHANGED <<jobs, parsed, start, stop, exports, images>>
    BY <1>2 DEF CallValidate, buildVars
  <2> QED
    BY <1>0, <2>1, QuietStep
<1> QED
  BY <1>1, <1>2 DEF Build

\* The steps before the filter, and those of a validation.
LEMMA WindowWaits ==
    ASSUME PlanInv, WindowInv,
           \/ ApplyDefaults \/ ExpandPipeline \/ ExpandJobs \/ Check
           \/ VisitRoot \/ VisitDep \/ Leave \/ ValidateAction
    PROVE  WindowInv'
<1>1. CASE \E e : Fail(e)
  BY <1>1, WindowFail
<1>2. CASE /\ phase \in {"defaults", "expandPipeline", "expandJobs"}
           /\ \E js : \E ph \in {"expandPipeline", "expandJobs", "check"} : Proceed(js, ph)
  <2>1. phase' \in {"expandPipeline", "expandJobs", "check"}
        /\ UNCHANGED <<caller, parsed, start, stop, exports, images>>
    BY <1>2 DEF Proceed, buildVars
  <2>2. caller = "parse"
    BY <1>2 DEF PlanInv, TypeInv
  <2>3. ~Filtered'
    BY <2>1, <2>2 DEF Filtered
  <2> QED
    BY <1>2, <2>1, <2>3, QuietStep
<1>3. CASE phase \in {"check", "sort"} /\ phase' = "sort"
           /\ UNCHANGED <<jobs, caller, start, stop, exports, images, parsed>>
  <2>1. Filtered' => Filtered
    BY <1>3 DEF Filtered
  <2> QED
    BY <1>3, <2>1, QuietStep
<1>4. CASE phase = "parsed" /\ CallValidate("validate")
  <2>1. phase' = "check" /\ caller' = "validate" /\ UNCHANGED <<jobs, parsed, start, stop, exports, images>>
    BY <1>4 DEF CallValidate, buildVars
  <2>2. ~Filtered'
    BY <2>1 DEF Filtered
  <2> QED
    BY <1>4, <2>1, <2>2, QuietStep
<1>5. CASE ApplyDefaults
  <2>1. phase = "defaults" /\ \E js : Proceed(js, "expandPipeline")
    BY <1>5 DEF ApplyDefaults
  <2> QED
    BY <1>2, <2>1
<1>6. CASE ExpandPipeline
  <2>1. phase = "expandPipeline"
        /\ (Proceed(jobs, "expandJobs") \/ Fail("matrix")
            \/ Proceed(PipelineReplicas(input.matrix, jobs), "expandJobs"))
    BY <1>6 DEF ExpandPipeline
  <2> QED
    BY <1>1, <1>2, <2>1
<1>7. CASE ExpandJobs
  <2>1. phase = "expandJobs" /\ (Fail("matrix") \/ Proceed(JobVariants(jobs), "check"))
    BY <1>7 DEF ExpandJobs
  <2> QED
    BY <1>1, <1>2, <2>1
<1>8. CASE Check
  BY <1>1, <1>3, <1>8 DEF Check, buildVars
<1>9. ASSUME phase = "sort", NEW m, NEW fs, NEW ord, Sorted(m, fs, ord)
      PROVE  WindowInv'
  <2>1. phase' = "sort" /\ UNCHANGED <<jobs, caller, start, stop, exports, images, parsed>>
    BY <1>9 DEF Sorted, buildVars
  <2> QED
    BY <1>3, <1>9, <2>1
<1>10. CASE VisitRoot
  <2>1. phase = "sort" /\ \E m, fs, ord : Sorted(m, fs, ord)
    BY <1>10 DEF VisitRoot, Sorting
  <2> QED
    BY <1>9, <2>1
<1>11. CASE VisitDep
  <2>1. phase = "sort" /\ ((\E m, fs, ord : Sorted(m, fs, ord)) \/ \E e : Fail(e))
    BY <1>11 DEF VisitDep, Sorting
  <2> QED
    BY <1>1, <1>9, <2>1
<1>12. CASE Leave
  <2>1. phase = "sort" /\ \E m, fs, ord : Sorted(m, fs, ord)
    BY <1>12 DEF Leave, Sorting
  <2> QED
    BY <1>9, <2>1
<1>13. CASE ValidateAction
  BY <1>4, <1>13 DEF ValidateAction
<1> QED
  BY <1>5, <1>6, <1>7, <1>8, <1>10, <1>11, <1>12, <1>13

\* A run delivers what the jobs from the one target to the other deliver, and
\* nothing of those that are run only because these need them.
THEOREM WindowIsDelivered == Spec => []WindowDelivers
<1>1. Init => WindowInv
  BY DEF Init, WindowInv, Filtered
<1>2. PlanInv /\ WindowInv /\ [Next]_vars => WindowInv'
  <2> SUFFICES ASSUME PlanInv, WindowInv, [Next]_vars
               PROVE  WindowInv'
    OBVIOUS
  <2>1. CASE \/ ApplyDefaults \/ ExpandPipeline \/ ExpandJobs \/ Check
             \/ VisitRoot \/ VisitDep \/ Leave \/ ValidateAction
    BY <2>1, WindowWaits
  <2>2. CASE Validated
    BY <2>2, WindowReturns
  <2>3. ASSUME NEW from \in Targets, NEW to \in Targets, RunAction(from, to)
        PROVE  WindowInv'
    BY <2>3, WindowFiltered
  <2>4. CASE Build
    BY <2>4, WindowBuilds
  <2>5. CASE BuildJob
    BY <2>5, CollectingOn
  <2>6. CASE BuildRunnerJobs
    BY <2>6, CollectingEnds
  <2>7. CASE UNCHANGED vars
    <3>1. /\ jobs' = jobs /\ topo' = topo /\ phase' = phase /\ caller' = caller
          /\ built' = built /\ parsed' = parsed /\ start' = start /\ stop' = stop
          /\ exports' = exports /\ images' = images
      BY <2>7 DEF vars, sortVars, buildVars
    <3> QED
      BY <3>1 DEF WindowInv, Filtered
  <2> QED
    BY <2>1, <2>2, <2>3, <2>4, <2>5, <2>6, <2>7 DEF Next
<1>3. PlanInv /\ WindowInv => WindowDelivers
  <2> SUFFICES ASSUME PlanInv, WindowInv, phase = "ready"
               PROVE  WindowDelivers
    BY DEF WindowDelivers
  <2>1. parsed # <<>>
    BY DEF PlanInv, TypeInv, Parsing
  <2> QED
    BY <2>1, DeliveredWithin
<1> QED
  BY <1>1, <1>2, <1>3, PlanInvariant, PTL DEF Spec

-----------------------------------------------------------------------------
(* What expansion makes of the choices.                                    *)

\* A flattened list holds what its lists hold.
LEMMA FlattenedSet ==
    ASSUME NEW seqs, IsList(seqs), \A k \in DOMAIN seqs : IsList(seqs[k])
    PROVE  \A x : x \in ToSet(FlattenSeq(seqs)) <=> \E k \in DOMAIN seqs : x \in ToSet(seqs[k])
<1>1. PICK row, col : Laid(FlattenSeq(seqs), seqs, Len(seqs), row, col)
  BY Flattened
<1>2. DOMAIN seqs = 1..Len(seqs)
  BY ListFacts
<1> DEFINE t == FlattenSeq(seqs)
<1> HIDE DEF t
<1>3. /\ \A i \in DOMAIN t : row[i] \in DOMAIN seqs /\ col[i] \in DOMAIN seqs[row[i]]
                             /\ t[i] = seqs[row[i]][col[i]]
      /\ \A k \in DOMAIN seqs : \A l \in DOMAIN seqs[k] : \E i \in DOMAIN t : row[i] = k /\ col[i] = l
  BY <1>1, <1>2 DEF Laid, t
<1>4. ASSUME NEW x
      PROVE  x \in ToSet(t) <=> \E k \in DOMAIN seqs : x \in ToSet(seqs[k])
  <2>1. ASSUME x \in ToSet(t)
        PROVE  \E k \in DOMAIN seqs : x \in ToSet(seqs[k])
    <3>1. PICK i \in DOMAIN t : x = t[i]
      BY <2>1 DEF ToSet
    <3> QED
      BY <1>3, <3>1 DEF ToSet
  <2>2. ASSUME NEW k \in DOMAIN seqs, x \in ToSet(seqs[k])
        PROVE  x \in ToSet(t)
    <3>1. PICK l \in DOMAIN seqs[k] : x = seqs[k][l]
      BY <2>2 DEF ToSet
    <3>2. PICK i \in DOMAIN t : row[i] = k /\ col[i] = l
      BY <1>3
    <3> QED
      BY <1>3, <3>1, <3>2 DEF ToSet
  <2> QED
    BY <2>1, <2>2
<1> QED
  BY <1>4 DEF t

\* The dimensions up to number n, and the settings of those.
DimsTo(m, n) == {m[j].name : j \in 1..n}
SettingsTo(m, n) ==
    {f \in [DimsTo(m, n) -> UNION {ToSet(m[i].values) : i \in DOMAIN m}] :
        \A j \in 1..n : f[m[j].name] \in ToSet(m[j].values)}

\* A setting with a value for one dimension more.
AddDim(f, dim, v) == Over(f, [x \in {dim.name} |-> v])

\* One more dimension.
LEMMA OneDimensionMore ==
    ASSUME NEW m, NEW n \in Nat, n + 1 \in DOMAIN m, m[n + 1].name \notin DimsTo(m, n)
    PROVE  \A g : g \in SettingsTo(m, n + 1) <=>
              \E f \in SettingsTo(m, n) : \E v \in ToSet(m[n + 1].values) : g = AddDim(f, m[n + 1], v)
<1> DEFINE dim == m[n + 1]
           All == UNION {ToSet(m[i].values) : i \in DOMAIN m}
<1>1. DimsTo(m, n + 1) = DimsTo(m, n) \cup {dim.name}
  <2>1. 1..(n + 1) = (1..n) \cup {n + 1}
    OBVIOUS
  <2> QED
    BY <2>1 DEF DimsTo
<1>2. ToSet(dim.values) \subseteq All
  OBVIOUS
<1>3. ASSUME NEW f \in SettingsTo(m, n), NEW v \in ToSet(dim.values)
      PROVE  AddDim(f, dim, v) \in SettingsTo(m, n + 1)
  <2> DEFINE g == AddDim(f, dim, v)
  <2>0. /\ f \in [DimsTo(m, n) -> All] /\ \A j \in 1..n : f[m[j].name] \in ToSet(m[j].values)
    BY DEF SettingsTo
  <2>1. g = [x \in DimsTo(m, n + 1) |-> IF x = dim.name THEN v ELSE f[x]]
    BY <1>1, <2>0 DEF AddDim, Over
  <2> HIDE DEF g, dim
  <2>2. g \in [DimsTo(m, n + 1) -> All]
    <3> HIDE DEF All
    <3> QED
      BY <1>1, <1>2, <2>0, <2>1
  <2>3. ASSUME NEW j \in 1..(n + 1)
        PROVE  g[m[j].name] \in ToSet(m[j].values)
    <3>1. m[j].name \in DimsTo(m, n + 1)
      BY DEF DimsTo
    <3>2. CASE j = n + 1
      BY <2>1, <3>1, <3>2 DEF dim
    <3>3. CASE j \in 1..n
      <4>1. m[j].name \in DimsTo(m, n)
        BY <3>3 DEF DimsTo
      <4>2. m[j].name # dim.name
        BY <4>1 DEF dim
      <4> QED
        BY <2>0, <2>1, <3>1, <3>3, <4>2
    <3> QED
      BY <3>2, <3>3
  <2> QED
    BY <2>2, <2>3 DEF SettingsTo, g
<1>4. ASSUME NEW g \in SettingsTo(m, n + 1)
      PROVE  \E f \in SettingsTo(m, n) : \E v \in ToSet(dim.values) : g = AddDim(f, dim, v)
  <2>0. /\ g \in [DimsTo(m, n + 1) -> All] /\ \A j \in 1..(n + 1) : g[m[j].name] \in ToSet(m[j].values)
    BY DEF SettingsTo
  <2> DEFINE f == [x \in DimsTo(m, n) |-> g[x]]
             v == g[dim.name]
  <2>1. v \in ToSet(dim.values)
    BY <2>0
  <2>2. f \in SettingsTo(m, n)
    <3>1. f \in [DimsTo(m, n) -> All]
      <4> HIDE DEF All
      <4> QED
        BY <1>1, <2>0
    <3>2. \A j \in 1..n : f[m[j].name] = g[m[j].name]
      BY DEF DimsTo
    <3>3. \A j \in 1..n : f[m[j].name] \in ToSet(m[j].values)
      <4> HIDE DEF f
      <4> QED
        BY <2>0, <3>2
    <3> QED
      BY <3>1, <3>3 DEF SettingsTo
  <2>3. g = AddDim(f, dim, v)
    <3>1. AddDim(f, dim, v) = [x \in DimsTo(m, n) \cup {dim.name} |-> IF x \in {dim.name} THEN v ELSE f[x]]
      BY DEF AddDim, Over
    <3> HIDE DEF dim, All
    <3>2. g = [x \in DimsTo(m, n) \cup {dim.name} |-> g[x]]
      BY <1>1, <2>0
    <3> QED
      BY <3>1, <3>2
  <2> QED
    BY <2>1, <2>2, <2>3
<1> QED
  BY <1>3, <1>4

\* The combinations of a matrix are its settings.
LEMMA CombinationsAreSettings ==
    ASSUME NEW m, IsMatrix(m), m # NoMatrix, ~MatrixRejected(m)
    PROVE  ToSet(Combinations(m)) = Settings(m)
<1> DEFINE n == Len(m)
           f == CHOOSE x : UpTo(x, m, n)
<1>1. n \in Nat /\ DOMAIN m = 1..n
  BY ListFacts DEF IsMatrix
<1>2. UpTo(f, m, n)
  BY <1>1, UpToExists
<1>3. Combinations(m) = f[n]
  BY DEF Combinations, UpTo, NoCombination
<1> HIDE DEF f, n
<1>4. \A i \in 0..n : f[i] = IF i = 0 THEN NoCombination ELSE Multiplied(f[i - 1], m[i])
  BY <1>2 DEF UpTo
<1> DEFINE S == {i \in Nat : i <= n => IsList(f[i]) /\ \A g : g \in ToSet(f[i]) <=> g \in SettingsTo(m, i)}
<1>5. 0 \in S
  <2>1. NoCombination = [i \in 1..1 |-> NoCombination[i]]
    BY DEF NoCombination
  <2>2. IsList(NoCombination)
    BY <2>1, MakeList
  <2>3. f[0] = NoCombination
    BY <1>1, <1>4
  <2>4. ASSUME NEW g
        PROVE  g \in ToSet(NoCombination) <=> g \in SettingsTo(m, 0)
    <3>1. DimsTo(m, 0) = {}
      BY DEF DimsTo
    <3>2. g \in SettingsTo(m, 0) <=> g = [x \in {} |-> NoMatrix]
      <4> DEFINE All == UNION {ToSet(m[k].values) : k \in DOMAIN m}
      <4>1. g \in SettingsTo(m, 0) <=> g \in [{} -> All]
        BY <3>1 DEF SettingsTo
      <4> HIDE DEF All
      <4>2. g \in [{} -> All] <=> g = [x \in {} |-> NoMatrix]
        OBVIOUS
      <4> QED
        BY <4>1, <4>2
    <3>3. g \in ToSet(NoCombination) <=> g = [x \in {} |-> NoMatrix]
      BY DEF NoCombination, ToSet
    <3> QED
      BY <3>2, <3>3
  <2> QED
    BY <2>2, <2>3, <2>4
<1>6. ASSUME NEW i \in Nat, i \in S
      PROVE  i + 1 \in S
  <2> SUFFICES ASSUME i + 1 <= n
               PROVE  IsList(f[i + 1]) /\ \A g : g \in ToSet(f[i + 1]) <=> g \in SettingsTo(m, i + 1)
    OBVIOUS
  <2> DEFINE dim == m[i + 1]
             seqs == [c \in DOMAIN f[i] |-> [v \in DOMAIN dim.values |-> AddDim(f[i][c], dim, dim.values[v])]]
  <2>0. i + 1 \in DOMAIN m /\ i + 1 \in 0..n /\ i + 1 # 0 /\ (i + 1) - 1 = i
    BY <1>1
  <2>1. IsList(f[i]) /\ IsList(dim.values) /\ \A g : g \in ToSet(f[i]) <=> g \in SettingsTo(m, i)
    BY <1>1, <1>6, <2>0 DEF IsMatrix
  <2>2. dim.name \notin DimsTo(m, i)
    <3>1. \A k \in 1..i : m[k].name # m[i + 1].name
      BY <2>0 DEF MatrixRejected
    <3> QED
      BY <3>1 DEF DimsTo
  <2>3. f[i + 1] = FlattenSeq(seqs)
    <3>1. f[i + 1] = Multiplied(f[i], m[i + 1])
      BY <1>4, <2>0
    <3> QED
      BY <3>1 DEF Multiplied, AddDim
  <2>4. seqs = [c \in DOMAIN f[i] |-> seqs[c]]
        /\ \A c \in DOMAIN f[i] : seqs[c] = [v \in DOMAIN dim.values |-> AddDim(f[i][c], dim, dim.values[v])]
    OBVIOUS
  <2> HIDE DEF seqs, S
  <2>5. IsList(seqs) /\ DOMAIN seqs = DOMAIN f[i]
    BY <2>1, <2>4, SamePlaces
  <2>6. ASSUME NEW c \in DOMAIN seqs
        PROVE  IsList(seqs[c]) /\ \A g : g \in ToSet(seqs[c]) <=>
                                    \E v \in ToSet(dim.values) : g = AddDim(f[i][c], dim, v)
    <3>1. seqs[c] = [v \in DOMAIN dim.values |-> AddDim(f[i][c], dim, dim.values[v])]
      BY <2>4, <2>5
    <3> DEFINE e == f[i][c]
    <3>2. IsList(seqs[c])
      <4>1. seqs[c] = [v \in DOMAIN dim.values |-> seqs[c][v]]
        BY <3>1
      <4> QED
        BY <2>1, <4>1, SamePlaces
    <3> HIDE DEF e, dim
    <3>3. seqs[c] = [v \in DOMAIN dim.values |-> AddDim(e, dim, dim.values[v])]
      BY <3>1 DEF e
    <3>4. \A g : g \in ToSet(seqs[c]) <=> \E v \in ToSet(dim.values) : g = AddDim(e, dim, v)
      BY <3>3 DEF ToSet
    <3> QED
      BY <3>2, <3>4 DEF e
  <2>7. ASSUME NEW g
        PROVE  g \in ToSet(FlattenSeq(seqs)) <=> g \in SettingsTo(m, i + 1)
    <3>1. g \in ToSet(FlattenSeq(seqs)) <=> \E k \in DOMAIN seqs : g \in ToSet(seqs[k])
      BY <2>5, <2>6, FlattenedSet
    <3>2. g \in SettingsTo(m, i + 1) <=>
            \E e \in SettingsTo(m, i) : \E v \in ToSet(dim.values) : g = AddDim(e, dim, v)
      BY <2>0, <2>2, OneDimensionMore
    <3>3. \A e : e \in SettingsTo(m, i) <=> \E c \in DOMAIN seqs : e = f[i][c]
      BY <2>1, <2>5 DEF ToSet
    <3> HIDE DEF dim
    <3> QED
      BY <2>6, <3>1, <3>2, <3>3
  <2>8. IsList(FlattenSeq(seqs))
    BY <2>5, <2>6, FlattenedList
  <2> QED
    BY <2>3, <2>7, <2>8
<1> HIDE DEF S
<1>7. Nat \subseteq S
  BY <1>5, <1>6, Induction
<1>8. \A g : g \in ToSet(f[n]) <=> g \in SettingsTo(m, n)
  BY <1>1, <1>7 DEF S
<1>9. SettingsTo(m, n) = Settings(m)
  BY <1>1 DEF SettingsTo, Settings, DimsTo, DimNames
<1>10. ToSet(f[n]) = SettingsTo(m, n)
  BY <1>8
<1> QED
  BY <1>3, <1>9, <1>10

\* A setting sets each dimension, of which there is one; without a matrix there
\* is only the setting of nothing.
LEMMA SettingsSet ==
    ASSUME NEW m, m = NoMatrix \/ (IsMatrix(m) /\ ~MatrixRejected(m)), NEW p \in Settings(m)
    PROVE  /\ p = [d \in DOMAIN p |-> p[d]]
           /\ m = NoMatrix => DOMAIN p = {}
           /\ m # NoMatrix => DOMAIN p = DimNames(m) /\ DOMAIN p # {}
<1>1. CASE m = NoMatrix
  BY <1>1 DEF Settings
<1>2. CASE m # NoMatrix
  <2>1. p = [d \in DOMAIN p |-> p[d]] /\ DOMAIN p = DimNames(m)
    BY <1>2 DEF Settings
  <2>2. m # <<>> /\ IsList(m)
    BY <1>2 DEF MatrixRejected, IsMatrix
  <2>3. 1 \in DOMAIN m
    BY <2>2, ListFacts, EmptySeq DEF IsList
  <2> QED
    BY <1>2, <2>1, <2>3 DEF DimNames
<1> QED
  BY <1>1, <1>2

-----------------------------------------------------------------------------
(* The caches of expanded jobs.                                            *)

IdsListed(job) == \A id \in CacheIDs(job) : IsList(id)

\* Each cache is namespaced with the job's name.
Tagged(job) == \A id \in CacheIDs(job) : id[Len(id)] = job.name

\* An id with a name added.
LEMMA AddedName ==
    ASSUME NEW id, IsList(id), NEW name
    PROVE  LET t == MatrixCacheID(id, name) IN IsList(t) /\ t[Len(t)] = name
<1> DEFINE S == ToSet(id) \cup {name}
           t == Append(id, name)
<1>1. id \in Seq(ToSet(id))
  BY DEF IsList
<1>2. id \in Seq(S)
  <2>1. id \in [1..Len(id) -> ToSet(id)] /\ Len(id) \in Nat
    BY ListFacts
  <2>2. id \in [1..Len(id) -> S]
    BY <2>1
  <2> HIDE DEF S
  <2> QED
    BY <2>1, <2>2, SeqDef
<1>3. t \in Seq(S) /\ Len(t) = Len(id) + 1 /\ t[Len(id) + 1] = name
  BY <1>2, AppendProperties
<1>4. Len(t) \in Nat /\ t = [i \in 1..Len(t) |-> t[i]]
  BY <1>3, LenProperties
<1> HIDE DEF t
<1>5. IsList(t)
  BY <1>4, MakeList
<1> QED
  BY <1>3, <1>5 DEF t, MatrixCacheID

SameCaches(j, job) ==
    /\ j.caches = job.caches /\ DOMAIN j.steps = DOMAIN job.steps
    /\ \A s \in DOMAIN job.steps : j.steps[s].caches = job.steps[s].caches

\* Jobs with the same caches have the same ids.
LEMMA SameCacheIDs ==
    ASSUME NEW j, NEW job, SameCaches(j, job)
    PROVE  CacheIDs(j) = CacheIDs(job)
BY DEF SameCaches, CacheIDs

\* Namespacing tags a job's caches and leaves the rest of it alone.
LEMMA NamespacingTags ==
    ASSUME NEW job, IsJob(job), IdsListed(job)
    PROVE  LET j == NamespaceCaches(job, job.name) IN
           /\ j.name = job.name /\ j.deps = job.deps /\ j.matrix = job.matrix
           /\ IdsListed(j) /\ Tagged(j)
<1> DEFINE name == job.name
           j == NamespaceCaches(job, name)
<1>0. /\ DOMAIN job = {"name", "deps", "arts", "caches", "matrix", "image", "platform", "exports", "publish", "steps"}
      /\ \A s \in DOMAIN job.steps : IsStep(job.steps[s])
  BY DEF IsJob
<1>1. /\ j.name = name /\ j.deps = job.deps /\ j.matrix = job.matrix
      /\ j.caches = Namespaced(job.caches, name)
      /\ j.steps = [s \in DOMAIN job.steps |-> NamespacedStep(job.steps[s], name)]
  BY <1>0 DEF NamespaceCaches
<1> HIDE DEF j
<1>2. /\ DOMAIN j.steps = DOMAIN job.steps
      /\ \A s \in DOMAIN job.steps : j.steps[s].caches = Namespaced(job.steps[s].caches, name)
  BY <1>0, <1>1 DEF IsStep, NamespacedStep
<1>3. ASSUME NEW id \in CacheIDs(j)
      PROVE  IsList(id) /\ id[Len(id)] = name
  <2>1. \E old \in CacheIDs(job) : id = MatrixCacheID(old, name)
    <3>1. CASE id \in j.caches
      BY <1>1, <3>1 DEF Namespaced, CacheIDs
    <3>2. CASE id \notin j.caches
      <4>1. PICK s \in DOMAIN job.steps : id \in j.steps[s].caches
        BY <1>2, <3>2 DEF CacheIDs
      <4>2. id \in Namespaced(job.steps[s].caches, name)
        BY <1>2, <4>1
      <4> QED
        BY <4>2 DEF Namespaced, CacheIDs
    <3> QED
      BY <3>1, <3>2
  <2> QED
    BY <2>1, AddedName DEF IdsListed
<1> QED
  BY <1>1, <1>3 DEF IdsListed, Tagged, j

\* A replica, read field by field.
LEMMA ReplicaRead ==
    ASSUME NEW job, IsJob(job), IdsListed(job), NEW combo
    PROVE  LET r == Replica(job, combo) IN
           /\ r.name = ExpandedName(job.name, combo) /\ r.matrix = job.matrix
           /\ r.deps = [d \in DOMAIN job.deps |-> ExpandedName(job.deps[d], combo)]
           /\ IdsListed(r) /\ Tagged(r)
<1> DEFINE name == ExpandedName(job.name, combo)
           j == MapFroms([job EXCEPT !.name = name, !.deps = CorrelateDeps(@, combo),
                               !.platform = Substituted(@, combo)],
                         LAMBDA from : ExpandedName(from, combo))
<1>0. /\ DOMAIN job = {"name", "deps", "arts", "caches", "matrix", "image", "platform", "exports", "publish", "steps"}
      /\ IsList(job.deps) /\ IsList(job.arts) /\ IsList(job.steps)
      /\ \A s \in DOMAIN job.steps : IsStep(job.steps[s])
  BY DEF IsJob
<1>1. /\ DOMAIN j = DOMAIN job /\ j.name = name /\ j.matrix = job.matrix /\ j.caches = job.caches
      /\ j.deps = [k \in DOMAIN job.deps |-> ExpandedName(job.deps[k], combo)]
      /\ j.arts = [a \in DOMAIN job.arts |-> ExpandedName(job.arts[a], combo)]
      /\ j.steps = [s \in DOMAIN job.steps |->
            [job.steps[s] EXCEPT !.arts = [a \in DOMAIN @ |-> ExpandedName(@[a], combo)]]]
  BY <1>0 DEF MapFroms, MapStepFroms, Each, CorrelateDeps
<1>2. /\ j.arts = [a \in DOMAIN job.arts |-> j.arts[a]]
      /\ j.deps = [k \in DOMAIN job.deps |-> j.deps[k]]
      /\ j.steps = [s \in DOMAIN job.steps |-> j.steps[s]]
      /\ \A s \in DOMAIN job.steps :
            /\ DOMAIN j.steps[s] = DOMAIN job.steps[s] /\ j.steps[s].caches = job.steps[s].caches
            /\ j.steps[s].arts = [a \in DOMAIN job.steps[s].arts |-> ExpandedName(job.steps[s].arts[a], combo)]
  <2> HIDE DEF j
  <2> QED
    BY <1>0, <1>1 DEF IsStep
<1>3. Replica(job, combo) = NamespaceCaches(j, j.name)
  BY <1>1 DEF Replica
<1> HIDE DEF j
<1>4. \A s \in DOMAIN job.steps : j.steps[s].arts = [a \in DOMAIN job.steps[s].arts |-> j.steps[s].arts[a]]
  BY <1>2
<1>5. IsList(j.deps)
  BY <1>0, <1>2, SamePlaces
<1>6. IsJob(j)
  BY <1>1, <1>2, <1>4, <1>5, MappedJob
<1>7. IdsListed(j)
  <2>1. SameCaches(j, job)
    BY <1>1, <1>2 DEF SameCaches
  <2> QED
    BY <2>1, SameCacheIDs DEF IdsListed
<1> QED
  BY <1>1, <1>3, <1>6, <1>7, NamespacingTags

\* A variant, likewise.
LEMMA VariantRead ==
    ASSUME NEW job, IsJob(job), IdsListed(job), NEW combo
    PROVE  LET v == Variant(job, combo) IN
           v.name = ExpandedName(job.name, combo) /\ v.deps = job.deps /\ IdsListed(v) /\ Tagged(v)
<1> DEFINE name == ExpandedName(job.name, combo)
           j == [job EXCEPT !.name = name, !.matrix = NoMatrix, !.platform = Substituted(@, combo)]
<1>0. DOMAIN job = {"name", "deps", "arts", "caches", "matrix", "image", "platform", "exports", "publish", "steps"}
  BY DEF IsJob
<1>1. /\ DOMAIN j = DOMAIN job /\ j.deps = job.deps /\ j.arts = job.arts /\ j.steps = job.steps
      /\ j.matrix = NoMatrix /\ j.name = name /\ j.caches = job.caches
  BY <1>0
<1>2. Variant(job, combo) = NamespaceCaches(j, j.name)
  BY <1>1 DEF Variant
<1> HIDE DEF j
<1>3. IsJob(j)
  BY <1>0, <1>1 DEF IsJob
<1>4. IdsListed(j)
  <2>1. SameCaches(j, job)
    BY <1>1 DEF SameCaches
  <2> QED
    BY <2>1, SameCacheIDs DEF IdsListed
<1> QED
  BY <1>1, <1>2, <1>3, <1>4, NamespacingTags

-----------------------------------------------------------------------------
(* Names.                                                                  *)

IsFunction(f) == f = [x \in DOMAIN f |-> f[x]]

\* A bracket with one choice and then another is a bracket with both.
LEMMA ChoicesCombine ==
    ASSUME NEW w, NEW p, NEW q, IsFunction(p), IsFunction(q)
    PROVE  /\ DOMAIN q # {} => ExpandedName(Bracketed(w, p), q) = Bracketed(w, Over(p, q))
           /\ DOMAIN q = {} => Bracketed(w, p) = Bracketed(w, Over(p, q))
<1>1. DOMAIN Over(p, q) = DOMAIN p \cup DOMAIN q
  BY DEF Over
<1>2. CASE DOMAIN q = {}
  <2>1. Over(p, q) = [x \in DOMAIN p |-> p[x]]
    BY <1>2 DEF Over
  <2>2. Over(p, q) = p
    BY <2>1 DEF IsFunction
  <2> QED
    BY <1>2, <2>2
<1>3. CASE DOMAIN q # {} /\ DOMAIN p = {}
  <2>1. Over(p, q) = [x \in DOMAIN q |-> q[x]]
    BY <1>3 DEF Over
  <2>2. Over(p, q) = q
    BY <2>1 DEF IsFunction
  <2> QED
    BY <1>3, <2>2 DEF Bracketed, ExpandedName
<1>4. CASE DOMAIN q # {} /\ DOMAIN p # {}
  <2> DEFINE i == w.items
             a == Over(Over(i, p), q)
             b == Over(i, Over(p, q))
  <2>1. a = b
    <3>1. a = [x \in DOMAIN i \cup DOMAIN p \cup DOMAIN q |->
                  IF x \in DOMAIN q THEN q[x] ELSE IF x \in DOMAIN p THEN p[x] ELSE i[x]]
      BY DEF Over
    <3>2. b = [x \in DOMAIN i \cup DOMAIN p \cup DOMAIN q |->
                  IF x \in DOMAIN q THEN q[x] ELSE IF x \in DOMAIN p THEN p[x] ELSE i[x]]
      BY DEF Over
    <3> HIDE DEF a, b
    <3> QED
      BY <3>1, <3>2
  <2>2. DOMAIN Over(p, q) # {}
    BY <1>1, <1>4
  <2>3. ExpandedName(Bracketed(w, p), q) = [base |-> w.base, items |-> a, rest |-> {}]
    BY <1>4 DEF Bracketed, ExpandedName
  <2>4. Bracketed(w, Over(p, q)) = [base |-> w.base, items |-> b, rest |-> {}]
    BY <2>2 DEF Bracketed
  <2> HIDE DEF a, b
  <2> QED
    BY <1>4, <2>1, <2>3, <2>4
<1> QED
  BY <1>2, <1>3, <1>4

\* A bracket tells the choice.
LEMMA ChoiceTold ==
    ASSUME NEW w, NEW p, NEW q, IsFunction(p), IsFunction(q), DOMAIN p = DOMAIN q,
           Bracketed(w, p) = Bracketed(w, q)
    PROVE  p = q
<1>1. CASE DOMAIN p = {}
  BY <1>1 DEF IsFunction
<1>2. CASE DOMAIN p # {}
  <2>1. Bracketed(w, p).items = Over(w.items, p) /\ Bracketed(w, q).items = Over(w.items, q)
    BY <1>2 DEF Bracketed
  <2>2. Over(w.items, p) = Over(w.items, q)
    BY <2>1
  <2>3. ASSUME NEW x \in DOMAIN p
        PROVE  p[x] = q[x]
    <3>1. Over(w.items, p)[x] = p[x] /\ Over(w.items, q)[x] = q[x]
      BY DEF Over
    <3> QED
      BY <2>2, <3>1
  <2> QED
    BY <2>3 DEF IsFunction
<1> QED
  BY <1>1, <1>2

-----------------------------------------------------------------------------
(* The first phase.                                                        *)

\* A matrix, or none, that has passed its checks.
Checked(m) == m = NoMatrix \/ (IsMatrix(m) /\ ~MatrixRejected(m))

\* The jobs with the defaults applied.
AsWritten(js, in) ==
    /\ IsJobs(js) /\ DOMAIN js = DOMAIN in.jobs
    /\ \A k \in DOMAIN js :
          /\ js[k].name = in.jobs[k].name /\ js[k].deps = in.jobs[k].deps
          /\ js[k].matrix = in.jobs[k].matrix /\ SameCaches(js[k], in.jobs[k])

ReplicasOf(in) == [src : DOMAIN in.jobs, all : Settings(in.matrix)]

IsReplica(job, in, r) ==
    /\ job.name = Bracketed(in.jobs[r.src].name, r.all)
    /\ job.deps = [d \in DOMAIN in.jobs[r.src].deps |-> Bracketed(in.jobs[r.src].deps[d], r.all)]
    /\ job.matrix = in.jobs[r.src].matrix
    /\ IdsListed(job) /\ (in.matrix # NoMatrix => Tagged(job))

\* The jobs are the replicas, each in some place.
Replicas(js, in, of) ==
    /\ \A i \in DOMAIN js : of[i] \in ReplicasOf(in) /\ IsReplica(js[i], in, of[i])
    /\ \A r \in ReplicasOf(in) : \E i \in DOMAIN js : of[i] = r

\* Without a matrix a pipeline is its one replica.
LEMMA OneReplica ==
    ASSUME NEW in \in Inputs, NEW js, AsWritten(js, in), in.matrix = NoMatrix
    PROVE  \E of : Replicas(js, in, of)
<1> DEFINE none == [n \in {} |-> NoMatrix]
           of == [k \in DOMAIN js |-> [src |-> k, all |-> none]]
<1>1. Settings(in.matrix) = {none} /\ DOMAIN none = {}
  BY DEF Settings
<1>2. ASSUME NEW k \in DOMAIN js
      PROVE  of[k] \in ReplicasOf(in) /\ IsReplica(js[k], in, of[k])
  <2>1. k \in DOMAIN in.jobs
    BY DEF AsWritten
  <2>2. of[k].src = k /\ of[k].all = none /\ of[k] \in ReplicasOf(in)
    BY <1>1, <2>1 DEF ReplicasOf
  <2> HIDE DEF none, of
  <2>3. \A w : Bracketed(w, none) = w
    BY <1>1 DEF Bracketed
  <2>4. in.jobs[k].deps = [d \in DOMAIN in.jobs[k].deps |-> in.jobs[k].deps[d]]
    <3>1. IsList(in.jobs[k].deps)
      BY <2>1, InputsAssumption DEF IsJobs, IsJob
    <3> DEFINE ds == in.jobs[k].deps
    <3> HIDE DEF ds
    <3>2. ds = [d \in DOMAIN ds |-> ds[d]]
      BY <3>1, ListFacts DEF ds
    <3> QED
      BY <3>2 DEF ds
  <2>5. IdsListed(js[k])
    BY <2>1, SameCacheIDs, InputsAssumption DEF AsWritten, IdsListed
  <2>6. js[k].deps = [d \in DOMAIN in.jobs[k].deps |-> Bracketed(in.jobs[k].deps[d], none)]
    BY <2>3, <2>4 DEF AsWritten
  <2> QED
    BY <2>2, <2>3, <2>5, <2>6 DEF AsWritten, IsReplica
<1>3. ASSUME NEW r \in ReplicasOf(in)
      PROVE  \E k \in DOMAIN js : of[k] = r
  BY <1>1 DEF ReplicasOf, AsWritten
<1>4. Replicas(js, in, of)
  BY <1>2, <1>3 DEF Replicas
<1> QED
  BY <1>4

\* With one, the expansion makes them.
LEMMA ReplicasMade ==
    ASSUME NEW in \in Inputs, NEW js, AsWritten(js, in), in.matrix # NoMatrix, ~MatrixRejected(in.matrix)
    PROVE  \E of : Replicas(PipelineReplicas(in.matrix, js), in, of)
<1> DEFINE m == in.matrix
           c == Combinations(m)
           seqs == [k \in DOMAIN c |-> [i \in DOMAIN js |-> Replica(js[i], c[k])]]
<1>0. IsMatrix(m) /\ IsJobs(js) /\ DOMAIN js = DOMAIN in.jobs
  BY InputsAssumption DEF AsWritten
<1>1. IsList(c) /\ ToSet(c) = Settings(m)
  BY <1>0, CombinationsListed, CombinationsAreSettings
<1>2. PipelineReplicas(m, js) = FlattenSeq(seqs)
  BY DEF PipelineReplicas, Each
<1> HIDE DEF c
<1>3. seqs = [k \in DOMAIN c |-> seqs[k]] /\ \A k \in DOMAIN c : seqs[k] = [i \in DOMAIN js |-> Replica(js[i], c[k])]
  OBVIOUS
<1> HIDE DEF seqs
<1>4. IsList(seqs) /\ DOMAIN seqs = DOMAIN c
  BY <1>1, <1>3, SamePlaces
<1>5. ASSUME NEW k \in DOMAIN seqs
      PROVE  IsList(seqs[k]) /\ DOMAIN seqs[k] = DOMAIN js
  BY <1>0, <1>3, <1>4, SamePlaces DEF IsJobs
<1>6. PICK row, col : Laid(FlattenSeq(seqs), seqs, Len(seqs), row, col)
  BY <1>4, <1>5, Flattened
<1>7. DOMAIN seqs = 1..Len(seqs)
  BY <1>4, ListFacts
<1> DEFINE t == FlattenSeq(seqs)
           of == [i \in DOMAIN t |-> [src |-> col[i], all |-> c[row[i]]]]
<1>8. ASSUME NEW i \in DOMAIN t
      PROVE  of[i] \in ReplicasOf(in) /\ IsReplica(t[i], in, of[i])
  <2>1. row[i] \in DOMAIN c /\ col[i] \in DOMAIN js /\ t[i] = seqs[row[i]][col[i]]
    BY <1>4, <1>5, <1>6, <1>7 DEF Laid
  <2> DEFINE k == col[i]
             p == c[row[i]]
             job == js[k]
  <2>2. t[i] = Replica(job, p)
    BY <1>3, <2>1
  <2>3. p \in Settings(m) /\ k \in DOMAIN in.jobs
    BY <1>0, <1>1, <2>1 DEF ToSet
  <2>4. of[i].src = k /\ of[i].all = p /\ of[i] \in ReplicasOf(in)
    BY <2>3 DEF ReplicasOf
  <2>5. IsJob(job) /\ IdsListed(job) /\ job.name = in.jobs[k].name /\ job.deps = in.jobs[k].deps
        /\ job.matrix = in.jobs[k].matrix
    BY <2>1, <2>3, SameCacheIDs, InputsAssumption DEF AsWritten, IdsListed, IsJobs
  <2> HIDE DEF t, of, job, k, p
  <2>6. DOMAIN p # {}
    BY <1>0, <2>3, SettingsSet
  <2>7. \A w : ExpandedName(w, p) = Bracketed(w, p)
    BY <2>6 DEF ExpandedName, Bracketed
  <2> DEFINE r == t[i]
  <2>8. /\ r.name = ExpandedName(job.name, p) /\ r.matrix = job.matrix
        /\ r.deps = [d \in DOMAIN job.deps |-> ExpandedName(job.deps[d], p)]
        /\ IdsListed(r) /\ Tagged(r)
    BY <2>2, <2>5, ReplicaRead
  <2> HIDE DEF r
  <2>9. IsReplica(r, in, of[i])
    BY <2>4, <2>5, <2>7, <2>8 DEF IsReplica
  <2> QED
    BY <2>4, <2>9 DEF r
<1>9. ASSUME NEW r \in ReplicasOf(in)
      PROVE  \E i \in DOMAIN t : of[i] = r
  <2>1. PICK k \in DOMAIN c : c[k] = r.all
    BY <1>1 DEF ReplicasOf, ToSet
  <2>2. r.src \in DOMAIN seqs[k] /\ k \in 1..Len(seqs)
    BY <1>0, <1>4, <1>5, <1>7, <2>1 DEF ReplicasOf
  <2>3. PICK i \in DOMAIN t : row[i] = k /\ col[i] = r.src
    BY <1>6, <2>2 DEF Laid
  <2>4. of[i] = [src |-> r.src, all |-> r.all]
    BY <2>1, <2>3
  <2>5. r = [src |-> r.src, all |-> r.all]
    BY DEF ReplicasOf
  <2> QED
    BY <2>3, <2>4, <2>5
<1>10. Replicas(t, in, of)
  BY <1>8, <1>9 DEF Replicas
<1> HIDE DEF t, of
<1>11. \E x : Replicas(t, in, x)
  BY <1>10
<1> QED
  BY <1>2, <1>11 DEF t

-----------------------------------------------------------------------------
(* The second phase.                                                       *)

InstancesOf(in) ==
    UNION {{[src |-> k, all |-> p, own |-> q] :
                p \in Settings(in.matrix), q \in Settings(in.jobs[k].matrix)} :
           k \in DOMAIN in.jobs}

Title(in, i) == Bracketed(in.jobs[i.src].name, Over(i.all, i.own))

\* An instance, read field by field.
LEMMA InstanceRead ==
    ASSUME NEW in
    PROVE  /\ \A i \in InstancesOf(in) :
                /\ i = [src |-> i.src, all |-> i.all, own |-> i.own]
                /\ i.src \in DOMAIN in.jobs /\ i.all \in Settings(in.matrix)
                /\ i.own \in Settings(in.jobs[i.src].matrix)
           /\ \A k \in DOMAIN in.jobs :
                \A p \in Settings(in.matrix) : \A q \in Settings(in.jobs[k].matrix) :
                    [src |-> k, all |-> p, own |-> q] \in InstancesOf(in)
BY DEF InstancesOf

\* The choices the variants of a job stand for, in their order.
ChoicesOf(m) == IF m = NoMatrix THEN NoCombination ELSE Combinations(m)

\* They are the settings of the job's matrix.
LEMMA ChoicesAreSettings ==
    ASSUME NEW m, Checked(m)
    PROVE  IsList(ChoicesOf(m)) /\ ToSet(ChoicesOf(m)) = Settings(m)
<1>1. CASE m = NoMatrix
  <2>1. NoCombination = [i \in 1..1 |-> NoCombination[i]]
    BY DEF NoCombination
  <2>2. IsList(NoCombination)
    BY <2>1, MakeList
  <2>3. ToSet(NoCombination) = {[n \in {} |-> NoMatrix]}
    BY DEF ToSet, NoCombination
  <2> QED
    BY <1>1, <2>2, <2>3 DEF ChoicesOf, Settings
<1>2. CASE m # NoMatrix
  BY <1>2, CombinationsListed, CombinationsAreSettings DEF ChoicesOf, Checked
<1> QED
  BY <1>1, <1>2

\* What a job is that was made for a choice of its own from a replica.
IsMade(j, job, in, r, q) ==
    /\ j.name = Title(in, [src |-> r.src, all |-> r.all, own |-> q])
    /\ j.deps = job.deps /\ IdsListed(j)
    /\ in.matrix # NoMatrix \/ in.jobs[r.src].matrix # NoMatrix => Tagged(j)

\* The variants of a replica are made for its choices, one for each.
LEMMA VariantsMade ==
    ASSUME NEW in, NEW job, IsJob(job), Checked(in.matrix), Checked(job.matrix),
           NEW r \in ReplicasOf(in), IsReplica(job, in, r)
    PROVE  LET v == Variants(job)
               c == ChoicesOf(in.jobs[r.src].matrix)
           IN  DOMAIN v = DOMAIN c /\ \A l \in DOMAIN v : IsMade(v[l], job, in, r, c[l])
<1> DEFINE m == job.matrix
           p == r.all
           v == Variants(job)
           c == ChoicesOf(m)
<1>0. m = in.jobs[r.src].matrix
  BY DEF IsReplica
<1>1. p \in Settings(in.matrix) /\ IsFunction(p)
  BY SettingsSet DEF ReplicasOf, Checked, IsFunction
<1>2. IsList(c) /\ ToSet(c) = Settings(m)
  BY ChoicesAreSettings
<1>3. CASE m = NoMatrix
  <2> DEFINE none == [n \in {} |-> NoMatrix]
  <2>1. v = <<job>> /\ c = NoCombination
    BY <1>3 DEF Variants, ChoicesOf
  <2>2. DOMAIN v = {1} /\ DOMAIN c = {1} /\ v[1] = job /\ c[1] = none
    BY <2>1 DEF NoCombination
  <2>3. IsFunction(none) /\ DOMAIN none = {}
    BY DEF IsFunction
  <2> HIDE DEF none, v, c
  <2>4. Bracketed(in.jobs[r.src].name, p) = Title(in, [src |-> r.src, all |-> p, own |-> none])
    BY <1>1, <2>3, ChoicesCombine DEF Title
  <2>5. IsMade(job, job, in, r, none)
    BY <1>0, <1>3, <2>4 DEF IsMade, IsReplica
  <2> QED
    BY <1>0, <2>2, <2>5 DEF v, c
<1>4. CASE m # NoMatrix
  <2>1. v = [k \in DOMAIN c |-> Variant(job, c[k])]
    BY <1>4 DEF Variants, Each, ChoicesOf
  <2> HIDE DEF v, c
  <2>2. ASSUME NEW l \in DOMAIN v
        PROVE  IsMade(v[l], job, in, r, c[l])
    <3> DEFINE q == c[l]
               j == v[l]
    <3>1. j = Variant(job, q) /\ q \in Settings(m)
      BY <1>2, <2>1, <2>2 DEF ToSet
    <3> HIDE DEF q, j
    <3>2. IsFunction(q) /\ DOMAIN q # {}
      BY <1>4, <3>1, SettingsSet DEF Checked, IsFunction
    <3>3. j.name = ExpandedName(job.name, q) /\ j.deps = job.deps /\ IdsListed(j) /\ Tagged(j)
      BY <3>1, VariantRead DEF IsReplica
    <3>4. ExpandedName(job.name, q) = Title(in, [src |-> r.src, all |-> p, own |-> q])
      BY <1>1, <3>2, ChoicesCombine DEF Title, IsReplica
    <3> QED
      BY <3>3, <3>4 DEF IsMade, q, j
  <2>3. DOMAIN v = DOMAIN c
    BY <2>1
  <2> QED
    BY <1>0, <2>2, <2>3 DEF v, c
<1> QED
  BY <1>3, <1>4

WrittenIn(in) == NamesOf(in.jobs) \cup UNION {ToSet(in.jobs[k].deps) : k \in DOMAIN in.jobs}

ApartIn(in) ==
    \A m, n \in WrittenIn(in) : \A p, q \in Settings(in.matrix) :
        Bracketed(m, p) = Bracketed(n, q) => m = n

\* What the dependency d of instance i stands for.
Awaited(in, i, d, y) ==
    IF d \in NamesOf(in.jobs)
    THEN \E n \in InstancesOf(in) : n.all = i.all /\ in.jobs[n.src].name = d /\ y = Title(in, n)
    ELSE y = Bracketed(d, i.all)

\* The replicas with the matrices of the jobs checked.
Ready(js, in, of) ==
    /\ IsJobs(js) /\ Replicas(js, in, of)
    /\ Checked(in.matrix) /\ \A k \in DOMAIN js : Checked(js[k].matrix)

NamesOfVariants(job) == Each(Variants(job), LAMBDA v : v.name)

\* The titles of the variants of a replica.
Titled(S, in, r) ==
    \A y : y \in S <=> \E q \in Settings(in.jobs[r.src].matrix) :
                          y = Title(in, [src |-> r.src, all |-> r.all, own |-> q])

\* The names the variants of a job of the replicas have.
LEMMA VariantNames ==
    ASSUME NEW in, NEW js, NEW of, Ready(js, in, of), NEW k \in DOMAIN js
    PROVE  Titled(ToSet(NamesOfVariants(js[k])), in, of[k])
<1> DEFINE job == js[k]
           r == of[k]
           c == ChoicesOf(in.jobs[r.src].matrix)
           v == Variants(job)
           names == NamesOfVariants(job)
<1>1. /\ IsJob(job) /\ Checked(in.matrix) /\ Checked(job.matrix)
      /\ r \in ReplicasOf(in) /\ IsReplica(job, in, r)
  BY DEF Ready, Replicas, IsJobs
<1>2. DOMAIN v = DOMAIN c /\ \A l \in DOMAIN v : IsMade(v[l], job, in, r, c[l])
  BY <1>1, VariantsMade, SMTT(30)
<1>3. ToSet(c) = Settings(in.jobs[r.src].matrix)
  BY <1>1, ChoicesAreSettings DEF IsReplica
<1>4. names = [l \in DOMAIN v |-> v[l].name]
  BY DEF NamesOfVariants, Each
<1> HIDE DEF job, r, c, v, names
<1>5. \A y : y \in ToSet(names) <=> \E l \in DOMAIN v : y = v[l].name
  BY <1>4 DEF ToSet
<1>6. \A l \in DOMAIN v : v[l].name = Title(in, [src |-> r.src, all |-> r.all, own |-> c[l]])
  BY <1>2 DEF IsMade
<1>7. \A q : q \in ToSet(c) <=> \E l \in DOMAIN c : q = c[l]
  BY DEF ToSet
<1>8. \A y : y \in ToSet(names) <=>
              \E q \in Settings(in.jobs[r.src].matrix) :
                  y = Title(in, [src |-> r.src, all |-> r.all, own |-> q])
  <2> DEFINE S == Settings(in.jobs[r.src].matrix)
             T(q) == Title(in, [src |-> r.src, all |-> r.all, own |-> q])
  <2>1. \A q : q \in S <=> \E l \in DOMAIN v : q = c[l]
    BY <1>2, <1>3, <1>7
  <2>2. \A l \in DOMAIN v : v[l].name = T(c[l])
    BY <1>6
  <2> HIDE DEF S, T
  <2>3. \A y : y \in ToSet(names) <=> \E q \in S : y = T(q)
    BY <1>5, <2>1, <2>2
  <2> QED
    BY <2>3 DEF S, T
<1> QED
  BY <1>8 DEF names, v, job, r, Titled

\* What a dependency that is written as d stands for after the expansion.
LEMMA Expansions ==
    ASSUME NEW in \in Inputs, NEW js, NEW of, Ready(js, in, of), ApartIn(in),
           NEW i \in InstancesOf(in), NEW d \in ToSet(in.jobs[i.src].deps)
    PROVE  LET x == ExpansionMap(js)
               b == Bracketed(d, i.all)
           IN  \A y : Awaited(in, i, d, y) <=> IF b \in DOMAIN x THEN y \in ToSet(x[b]) ELSE y = b
<1> DEFINE x == ExpansionMap(js)
           b == Bracketed(d, i.all)
           IsLast(k) == js[k].name = b /\ \A e \in DOMAIN js : js[e].name = b => e <= k
           last == CHOOSE k \in DOMAIN js : IsLast(k)
<1>1. i.src \in DOMAIN in.jobs /\ i.all \in Settings(in.matrix)
  BY InstanceRead
<1>2. d \in WrittenIn(in)
  BY <1>1 DEF WrittenIn
<1>3. \A k \in DOMAIN js : of[k] \in ReplicasOf(in) /\ IsReplica(js[k], in, of[k])
  BY SMTT(30) DEF Ready, Replicas
<1>4. \A k \in DOMAIN js :
          /\ of[k].src \in DOMAIN in.jobs /\ of[k].all \in Settings(in.matrix)
          /\ js[k].name = Bracketed(in.jobs[of[k].src].name, of[k].all)
          /\ in.jobs[of[k].src].name \in WrittenIn(in)
  BY <1>3 DEF ReplicasOf, IsReplica, WrittenIn, NamesOf
<1>5. DOMAIN x = {js[k].name : k \in DOMAIN js}
  BY DEF ExpansionMap
<1>6. ASSUME NEW k \in DOMAIN js, js[k].name = b
      PROVE  in.jobs[of[k].src].name = d /\ of[k].all = i.all
  <2>1. in.jobs[of[k].src].name = d
    BY <1>1, <1>2, <1>4, <1>6 DEF ApartIn
  <2>2. Checked(in.matrix)
    BY DEF Ready
  <2> DEFINE p == of[k].all
             q == i.all
  <2>3. p \in Settings(in.matrix) /\ q \in Settings(in.matrix) /\ Bracketed(d, p) = Bracketed(d, q)
    BY <1>1, <1>4, <1>6, <2>1
  <2> HIDE DEF p, q
  <2>4. IsFunction(p) /\ IsFunction(q) /\ DOMAIN p = DOMAIN q
    <3>1. in.matrix = NoMatrix \/ (IsMatrix(in.matrix) /\ ~MatrixRejected(in.matrix))
      BY <2>2 DEF Checked
    <3>2. /\ p = [e \in DOMAIN p |-> p[e]]
          /\ in.matrix = NoMatrix => DOMAIN p = {}
          /\ in.matrix # NoMatrix => DOMAIN p = DimNames(in.matrix)
      BY <2>3, <3>1, SettingsSet
    <3>3. /\ q = [e \in DOMAIN q |-> q[e]]
          /\ in.matrix = NoMatrix => DOMAIN q = {}
          /\ in.matrix # NoMatrix => DOMAIN q = DimNames(in.matrix)
      BY <2>3, <3>1, SettingsSet
    <3> QED
      BY <3>2, <3>3 DEF IsFunction
  <2>5. p = q
    BY <2>3, <2>4, ChoiceTold
  <2> QED
    BY <2>1, <2>5 DEF p, q
<1>7. CASE d \notin NamesOf(in.jobs)
  <2>1. b \notin DOMAIN x
    BY <1>4, <1>5, <1>6, <1>7 DEF NamesOf
  <2> QED
    BY <1>7, <2>1 DEF Awaited
<1>8. CASE d \in NamesOf(in.jobs)
  <2>1. PICK s \in DOMAIN in.jobs : in.jobs[s].name = d
    BY <1>8 DEF NamesOf
  <2>2. PICK k \in DOMAIN js : of[k] = [src |-> s, all |-> i.all]
    <3>1. [src |-> s, all |-> i.all] \in ReplicasOf(in)
      BY <1>1 DEF ReplicasOf
    <3> QED
      BY <3>1 DEF Ready, Replicas
  <2>3. js[k].name = b
    BY <1>4, <2>1, <2>2
  <2>4. \E e \in DOMAIN js : IsLast(e)
    <3> DEFINE S == {e \in DOMAIN js : js[e].name = b}
    <3>1. DOMAIN js = 1..Len(js) /\ Len(js) \in Nat
      BY ListFacts DEF IsJobs, Ready
    <3>2. S \in SUBSET (1..Len(js)) /\ S # {}
      BY <2>3, <3>1
    <3> HIDE DEF S
    <3>3. \E e \in S : \A f \in S : f <= e
      BY <3>1, <3>2, LastPlace
    <3> QED
      BY <3>3 DEF S
  <2>5. last \in DOMAIN js /\ IsLast(last)
    <3> HIDE DEF IsLast
    <3> QED
      BY <2>4
  <2>6. b \in DOMAIN x /\ x[b] = NamesOfVariants(js[last])
    BY <1>5, <2>3 DEF ExpansionMap, NamesOfVariants
  <2> HIDE DEF last, x
  <2>7. js[last].name = b
    BY <2>5
  <2>8. of[last].src = s /\ of[last].all = i.all
    <3>1. in.jobs[of[last].src].name = d /\ of[last].all = i.all /\ of[last].src \in DOMAIN in.jobs
      BY <1>4, <1>6, <2>5, <2>7
    <3>2. of[last].src = s
      BY <2>1, <3>1, InputsAssumption
    <3> QED
      BY <3>1, <3>2
  <2>9. \A y : y \in ToSet(x[b]) <=>
              \E q \in Settings(in.jobs[s].matrix) : y = Title(in, [src |-> s, all |-> i.all, own |-> q])
    <3>1. Titled(ToSet(NamesOfVariants(js[last])), in, of[last])
      BY <2>5, VariantNames
    <3>2. Titled(ToSet(x[b]), in, of[last])
      BY <2>6, <3>1
    <3> QED
      BY <2>8, <3>2 DEF Titled
  <2>10. ASSUME NEW y
         PROVE  (\E q \in Settings(in.jobs[s].matrix) : y = Title(in, [src |-> s, all |-> i.all, own |-> q]))
                <=> \E n \in InstancesOf(in) : n.all = i.all /\ in.jobs[n.src].name = d /\ y = Title(in, n)
    <3>1. ASSUME NEW q \in Settings(in.jobs[s].matrix), y = Title(in, [src |-> s, all |-> i.all, own |-> q])
          PROVE  \E n \in InstancesOf(in) : n.all = i.all /\ in.jobs[n.src].name = d /\ y = Title(in, n)
      <4> DEFINE n == [src |-> s, all |-> i.all, own |-> q]
      <4>1. n \in InstancesOf(in)
        BY <1>1, <2>1, InstanceRead
      <4>2. n.all = i.all /\ n.src = s /\ y = Title(in, n)
        BY <3>1
      <4> QED
        BY <2>1, <4>1, <4>2
    <3>2. ASSUME NEW n \in InstancesOf(in), n.all = i.all, in.jobs[n.src].name = d, y = Title(in, n)
          PROVE  \E q \in Settings(in.jobs[s].matrix) : y = Title(in, [src |-> s, all |-> i.all, own |-> q])
      <4>1. /\ n = [src |-> n.src, all |-> n.all, own |-> n.own] /\ n.src \in DOMAIN in.jobs
            /\ n.own \in Settings(in.jobs[n.src].matrix)
        BY InstanceRead
      <4>2. n.src = s
        BY <2>1, <3>2, <4>1, InputsAssumption
      <4> QED
        BY <3>2, <4>1, <4>2
    <3> QED
      BY <3>1, <3>2
  <2> QED
    BY <1>8, <2>6, <2>9, <2>10 DEF Awaited, x
<1> QED
  BY <1>7, <1>8

\* The lists that rewriting joins, one for each name in w.
AreRewritten(seqs, w, a, x) ==
    /\ IsList(seqs) /\ DOMAIN seqs = DOMAIN w
    /\ \A e \in DOMAIN w : LET n == Bracketed(w[e], a) IN
          seqs[e] = IF n \in DOMAIN x THEN x[n] ELSE <<n>>

\* Those of RewriteDeps.
LEMMA RewrittenLists ==
    ASSUME NEW w, IsList(w), NEW a, NEW deps, deps = [e \in DOMAIN w |-> Bracketed(w[e], a)],
           NEW x, NEW seqs,
           seqs = [e \in DOMAIN deps |-> IF deps[e] \in DOMAIN x THEN x[deps[e]] ELSE <<deps[e]>>]
    PROVE  AreRewritten(seqs, w, a, x)
<1>1. /\ seqs = [e \in DOMAIN w |-> seqs[e]]
      /\ \A e \in DOMAIN w : LET n == Bracketed(w[e], a) IN
            seqs[e] = IF n \in DOMAIN x THEN x[n] ELSE <<n>>
  OBVIOUS
<1>2. IsList(seqs) /\ DOMAIN seqs = DOMAIN w
  BY <1>1, SamePlaces
<1> QED
  BY <1>1, <1>2 DEF AreRewritten

\* What is in them joined, by what each of the names stands for.
LEMMA ListsJoined ==
    ASSUME NEW w, IsList(w), NEW x, \A n \in DOMAIN x : IsList(x[n]), NEW a,
           NEW seqs, AreRewritten(seqs, w, a, x)
    PROVE  \A y : y \in ToSet(FlattenSeq(seqs)) <=>
              \E d \in ToSet(w) : IF Bracketed(d, a) \in DOMAIN x THEN y \in ToSet(x[Bracketed(d, a)])
                                  ELSE y = Bracketed(d, a)
<1>0. /\ IsList(seqs) /\ DOMAIN seqs = DOMAIN w
      /\ \A e \in DOMAIN w : LET n == Bracketed(w[e], a) IN
            seqs[e] = IF n \in DOMAIN x THEN x[n] ELSE <<n>>
  BY DEF AreRewritten
<1>1. ASSUME NEW n
      PROVE  IsList(<<n>>) /\ \A y : y \in ToSet(<<n>>) <=> y = n
  <2>1. <<n>> = [e \in 1..1 |-> <<n>>[e]]
    OBVIOUS
  <2>2. IsList(<<n>>)
    BY <2>1, MakeList
  <2> QED
    BY <2>2 DEF ToSet
<1>2. ASSUME NEW e \in DOMAIN w
      PROVE  /\ IsList(seqs[e])
             /\ \A y : y \in ToSet(seqs[e]) <=>
                   IF Bracketed(w[e], a) \in DOMAIN x THEN y \in ToSet(x[Bracketed(w[e], a)])
                   ELSE y = Bracketed(w[e], a)
  <2> DEFINE n == Bracketed(w[e], a)
  <2> HIDE DEF n
  <2>1. CASE n \in DOMAIN x
    <3>1. seqs[e] = x[n]
      BY <1>0, <2>1 DEF n
    <3> QED
      BY <2>1, <3>1 DEF n
  <2>2. CASE n \notin DOMAIN x
    <3>1. seqs[e] = <<n>>
      BY <1>0, <2>2 DEF n
    <3> QED
      BY <1>1, <2>2, <3>1 DEF n
  <2> QED
    BY <2>1, <2>2
<1>3. \A e \in DOMAIN seqs : IsList(seqs[e])
  BY <1>0, <1>2
<1>4. \A d : d \in ToSet(w) <=> \E e \in DOMAIN w : d = w[e]
  BY DEF ToSet
<1> SUFFICES ASSUME NEW y
             PROVE  y \in ToSet(FlattenSeq(seqs)) <=>
                       \E d \in ToSet(w) :
                           IF Bracketed(d, a) \in DOMAIN x THEN y \in ToSet(x[Bracketed(d, a)])
                           ELSE y = Bracketed(d, a)
  OBVIOUS
<1>5. y \in ToSet(FlattenSeq(seqs)) <=> \E e \in DOMAIN w : y \in ToSet(seqs[e])
  BY <1>0, <1>3, FlattenedSet
<1> QED
  BY <1>2, <1>4, <1>5

\* The rewritten dependencies of an instance's job are what it waits for.
LEMMA DepsAwaited ==
    ASSUME NEW in \in Inputs, NEW js, NEW of, Ready(js, in, of), ApartIn(in),
           NEW i \in InstancesOf(in), NEW deps,
           deps = [e \in DOMAIN in.jobs[i.src].deps |-> Bracketed(in.jobs[i.src].deps[e], i.all)]
    PROVE  \A y : y \in ToSet(RewriteDeps(deps, ExpansionMap(js))) <=>
              \E d \in ToSet(in.jobs[i.src].deps) : Awaited(in, i, d, y)
<1> DEFINE x == ExpansionMap(js)
           w == in.jobs[i.src].deps
           a == i.all
           seqs == [e \in DOMAIN deps |-> IF deps[e] \in DOMAIN x THEN x[deps[e]] ELSE <<deps[e]>>]
<1>1. RewriteDeps(deps, x) = FlattenSeq(seqs)
  BY DEF RewriteDeps, Each
<1>2. \A n \in DOMAIN x : IsList(x[n])
  BY ExpansionsListed DEF Ready
<1>3. IsList(w)
  BY InstanceRead, InputsAssumption DEF IsJobs, IsJob
<1>4. \A d \in ToSet(w) : \A y :
          Awaited(in, i, d, y) <=> IF Bracketed(d, a) \in DOMAIN x THEN y \in ToSet(x[Bracketed(d, a)])
                                   ELSE y = Bracketed(d, a)
  BY Expansions, SMTT(30)
<1>5. AreRewritten(seqs, w, a, x)
  <2>1. deps = [e \in DOMAIN w |-> Bracketed(w[e], a)]
    OBVIOUS
  <2> HIDE DEF x, w, a
  <2> QED
    BY <1>3, <2>1, RewrittenLists
<1> HIDE DEF x, w, a, seqs
<1>6. \A y : y \in ToSet(FlattenSeq(seqs)) <=>
          \E d \in ToSet(w) : IF Bracketed(d, a) \in DOMAIN x THEN y \in ToSet(x[Bracketed(d, a)])
                              ELSE y = Bracketed(d, a)
  BY <1>2, <1>3, <1>5, ListsJoined
<1>7. \A y : y \in ToSet(FlattenSeq(seqs)) <=> \E d \in ToSet(w) : Awaited(in, i, d, y)
  BY <1>4, <1>6, Zenon
<1> QED
  BY <1>1, <1>7 DEF x, w

\* A job with the names in it rewritten.
RewrittenJob(job, x) ==
    MapFroms([job EXCEPT !.deps = RewriteDeps(@, x)], LAMBDA from : RewriteFrom(from, x))

\* Read field by field.
LEMMA RewrittenRead ==
    ASSUME NEW job, IsJob(job), NEW x
    PROVE  LET j == RewrittenJob(job, x) IN
           j.name = job.name /\ j.deps = RewriteDeps(job.deps, x) /\ SameCaches(j, job)
<1> DEFINE w == [job EXCEPT !.deps = RewriteDeps(@, x)]
           j == RewrittenJob(job, x)
<1>0. /\ DOMAIN job = {"name", "deps", "arts", "caches", "matrix", "image", "platform", "exports", "publish", "steps"}
      /\ \A s \in DOMAIN job.steps : IsStep(job.steps[s])
  BY DEF IsJob
<1>1. /\ DOMAIN w = DOMAIN job /\ w.name = job.name /\ w.caches = job.caches /\ w.steps = job.steps
      /\ w.deps = RewriteDeps(job.deps, x)
  BY <1>0
<1>2. j = MapFroms(w, LAMBDA from : RewriteFrom(from, x))
  BY DEF RewrittenJob
<1> HIDE DEF w, j
<1>3. /\ j.name = w.name /\ j.deps = w.deps /\ j.caches = w.caches
      /\ j.steps = [s \in DOMAIN w.steps |->
            [w.steps[s] EXCEPT !.arts = [a \in DOMAIN @ |-> RewriteFrom(@[a], x)]]]
  BY <1>0, <1>1, <1>2 DEF MapFroms, MapStepFroms, Each
<1>4. /\ DOMAIN j.steps = DOMAIN job.steps
      /\ \A s \in DOMAIN job.steps : j.steps[s].caches = job.steps[s].caches
  BY <1>0, <1>1, <1>3 DEF IsStep
<1> QED
  BY <1>1, <1>3, <1>4 DEF SameCaches, j

-----------------------------------------------------------------------------
(* Both phases.                                                            *)

DepsOf(job, in, i) ==
    \A y : y \in ToSet(job.deps) <=> \E d \in ToSet(in.jobs[i.src].deps) : Awaited(in, i, d, y)

IsVariant(job, in, i) ==
    /\ job.name = Title(in, i) /\ IdsListed(job)
    /\ in.matrix # NoMatrix \/ in.jobs[i.src].matrix # NoMatrix => Tagged(job)
    /\ ApartIn(in) => DepsOf(job, in, i)

\* The jobs are the instances, each in some place.
Expanded(js, in, of) ==
    /\ \A k \in DOMAIN js : of[k] \in InstancesOf(in) /\ IsVariant(js[k], in, of[k])
    /\ \A i \in InstancesOf(in) : \E k \in DOMAIN js : of[k] = i

\* A job made from a replica and rewritten is the variant.
LEMMA RewrittenVariant ==
    ASSUME NEW in \in Inputs, NEW js, NEW of, Ready(js, in, of), NEW k \in DOMAIN js,
           NEW q \in Settings(in.jobs[of[k].src].matrix), NEW job, IsJob(job),
           IsMade(job, js[k], in, of[k], q)
    PROVE  LET i == [src |-> of[k].src, all |-> of[k].all, own |-> q] IN
           i \in InstancesOf(in) /\ IsVariant(RewrittenJob(job, ExpansionMap(js)), in, i)
<1> DEFINE r == of[k]
           i == [src |-> r.src, all |-> r.all, own |-> q]
           x == ExpansionMap(js)
           j == RewrittenJob(job, x)
<1>1. r \in ReplicasOf(in) /\ IsReplica(js[k], in, r)
  BY DEF Ready, Replicas
<1>2. r.src \in DOMAIN in.jobs /\ r.all \in Settings(in.matrix)
  BY <1>1 DEF ReplicasOf
<1>3. i \in InstancesOf(in)
  BY <1>2, InstanceRead
<1>4. i.src = r.src /\ i.all = r.all
  OBVIOUS
<1>5. j.name = job.name /\ j.deps = RewriteDeps(job.deps, x) /\ SameCaches(j, job)
  BY RewrittenRead
<1>6. job.name = Title(in, i) /\ job.deps = js[k].deps /\ IdsListed(job)
      /\ (in.matrix # NoMatrix \/ in.jobs[r.src].matrix # NoMatrix => Tagged(job))
  BY DEF IsMade
<1> HIDE DEF j, i, r
<1>7. IdsListed(j) /\ (Tagged(job) => Tagged(j))
  BY <1>5, <1>6, SameCacheIDs DEF IdsListed, Tagged
<1>8. ASSUME ApartIn(in)
      PROVE  DepsOf(j, in, i)
  <2>1. job.deps = [e \in DOMAIN in.jobs[i.src].deps |-> Bracketed(in.jobs[i.src].deps[e], i.all)]
    BY <1>1, <1>4, <1>6, SMTT(30) DEF IsReplica
  <2>2. \A y : y \in ToSet(RewriteDeps(job.deps, x)) <=>
              \E d \in ToSet(in.jobs[i.src].deps) : Awaited(in, i, d, y)
    BY <1>3, <1>8, <2>1, DepsAwaited
  <2> QED
    BY <1>5, <2>2 DEF DepsOf
<1>9. IsVariant(j, in, i)
  BY <1>4, <1>5, <1>6, <1>7, <1>8 DEF IsVariant
<1> QED
  BY <1>3, <1>9 DEF j, i, r

\* The second phase makes the instances.
LEMMA InstancesMade ==
    ASSUME NEW in \in Inputs, NEW js, NEW of, Ready(js, in, of)
    PROVE  \E f : Expanded(JobVariants(js), in, f)
<1> DEFINE x == ExpansionMap(js)
           seqs == [k \in DOMAIN js |-> Variants(js[k])]
           flat == FlattenSeq(seqs)
           res == [i \in DOMAIN flat |-> RewrittenJob(flat[i], x)]
           c(k) == ChoicesOf(in.jobs[of[k].src].matrix)
<1>1. JobVariants(js) = res
  BY DEF JobVariants, Each, RewrittenJob
<1>2. seqs = [k \in DOMAIN js |-> seqs[k]] /\ \A k \in DOMAIN js : seqs[k] = Variants(js[k])
  OBVIOUS
<1> HIDE DEF seqs, x
<1>3. IsList(seqs) /\ DOMAIN seqs = DOMAIN js
  BY <1>2, SamePlaces DEF IsJobs, Ready
<1>4. \A k \in DOMAIN seqs : IsJobs(seqs[k])
  BY <1>2, <1>3, VariantsAreJobs, SMTT(30) DEF IsJobs, Ready
<1>5. \A k \in DOMAIN js :
          /\ of[k] \in ReplicasOf(in)
          /\ IsList(c(k)) /\ ToSet(c(k)) = Settings(in.jobs[of[k].src].matrix)
          /\ DOMAIN seqs[k] = DOMAIN c(k)
          /\ \A l \in DOMAIN seqs[k] : IsMade(seqs[k][l], js[k], in, of[k], c(k)[l])
  <2> SUFFICES ASSUME NEW k \in DOMAIN js
               PROVE  /\ of[k] \in ReplicasOf(in)
                      /\ IsList(c(k)) /\ ToSet(c(k)) = Settings(in.jobs[of[k].src].matrix)
                      /\ DOMAIN seqs[k] = DOMAIN c(k)
                      /\ \A l \in DOMAIN seqs[k] : IsMade(seqs[k][l], js[k], in, of[k], c(k)[l])
    BY SMTT(30)
  <2>1. /\ IsJob(js[k]) /\ Checked(in.matrix) /\ Checked(js[k].matrix)
        /\ of[k] \in ReplicasOf(in) /\ IsReplica(js[k], in, of[k])
        /\ js[k].matrix = in.jobs[of[k].src].matrix
    BY DEF Ready, Replicas, IsJobs, IsReplica
  <2>2. IsList(c(k)) /\ ToSet(c(k)) = Settings(in.jobs[of[k].src].matrix)
    BY <2>1, ChoicesAreSettings, SMTT(30)
  <2>3. DOMAIN seqs[k] = DOMAIN c(k) /\ \A l \in DOMAIN seqs[k] : IsMade(seqs[k][l], js[k], in, of[k], c(k)[l])
    BY <1>2, <2>1, VariantsMade
  <2> QED
    BY <2>1, <2>2, <2>3
<1> HIDE DEF c
<1>6. PICK row, col : Laid(flat, seqs, Len(seqs), row, col)
  BY <1>3, <1>4, Flattened DEF IsJobs
<1>7. DOMAIN seqs = 1..Len(seqs)
  BY <1>3, ListFacts
<1> DEFINE f == [i \in DOMAIN flat |->
                    [src |-> of[row[i]].src, all |-> of[row[i]].all, own |-> c(row[i])[col[i]]]]
<1> HIDE DEF flat
<1>8. ASSUME NEW i \in DOMAIN flat
      PROVE  f[i] \in InstancesOf(in) /\ IsVariant(res[i], in, f[i])
  <2> DEFINE k == row[i]
             q == c(k)[col[i]]
             job == flat[i]
  <2>1. k \in DOMAIN js /\ col[i] \in DOMAIN seqs[k] /\ job = seqs[k][col[i]]
    BY <1>3, <1>6, <1>7 DEF Laid
  <2>2. IsJob(job)
    BY <1>3, <1>4, <2>1 DEF IsJobs
  <2>3. q \in Settings(in.jobs[of[k].src].matrix) /\ IsMade(job, js[k], in, of[k], q)
    BY <1>5, <2>1 DEF ToSet
  <2>4. res[i] = RewrittenJob(job, x) /\ f[i] = [src |-> of[k].src, all |-> of[k].all, own |-> q]
    OBVIOUS
  <2> HIDE DEF res, f, job, k, q
  <2> QED
    BY <2>1, <2>2, <2>3, <2>4, RewrittenVariant DEF x
<1>9. ASSUME NEW i \in InstancesOf(in)
      PROVE  \E e \in DOMAIN flat : f[e] = i
  <2>1. /\ i = [src |-> i.src, all |-> i.all, own |-> i.own]
        /\ i.src \in DOMAIN in.jobs /\ i.all \in Settings(in.matrix)
        /\ i.own \in Settings(in.jobs[i.src].matrix)
    BY InstanceRead
  <2>2. PICK k \in DOMAIN js : of[k] = [src |-> i.src, all |-> i.all]
    <3>1. [src |-> i.src, all |-> i.all] \in ReplicasOf(in)
      BY <2>1 DEF ReplicasOf
    <3> QED
      BY <3>1 DEF Ready, Replicas
  <2>3. of[k].src = i.src /\ of[k].all = i.all
    BY <2>2
  <2>4. i.own \in ToSet(c(k))
    BY <1>5, <2>1, <2>3
  <2>5. PICK l \in DOMAIN seqs[k] : c(k)[l] = i.own
    BY <1>5, <2>4 DEF ToSet
  <2>6. PICK e \in DOMAIN flat : row[e] = k /\ col[e] = l
    BY <1>3, <1>6, <1>7, <2>5 DEF Laid
  <2>7. f[e] = [src |-> i.src, all |-> i.all, own |-> i.own]
    BY <2>3, <2>5, <2>6
  <2> QED
    BY <2>1, <2>6, <2>7
<1>10. Expanded(res, in, f)
  <2>1. DOMAIN res = DOMAIN flat
    OBVIOUS
  <2> HIDE DEF res, f
  <2> QED
    BY <1>8, <1>9, <2>1 DEF Expanded
<1> HIDE DEF res, f
<1> QED
  BY <1>1, <1>10

-----------------------------------------------------------------------------
(* The parsed pipeline.                                                    *)

Replicated(js, in) == Checked(in.matrix) /\ \E of : Replicas(js, in, of)
Fully(js, in) == \E f : Expanded(js, in, f)

\* A dependency that is no job has been refused.
DepsKnown(js) == \A k \in DOMAIN js : ToSet(js[k].deps) \subseteq NamesOf(js)

ExpansionInv ==
    /\ phase = "defaults" => jobs = input.jobs
    /\ phase = "expandPipeline" => AsWritten(jobs, input)
    /\ phase = "expandJobs" => Replicated(jobs, input)
    /\ phase \in {"check", "sort"} /\ caller = "parse" => Fully(jobs, input)
    /\ parsed # <<>> => IsJobs(parsed) /\ Valid(parsed) /\ DepsKnown(parsed) /\ Fully(parsed, input)

\* The job of an instance.
LEMMA JobOfInstance ==
    ASSUME IsJobs(parsed), Valid(parsed), NEW f, Expanded(parsed, input, f), NEW i \in Instances
    PROVE  \E k \in DOMAIN parsed :
              /\ f[k] = i /\ IsVariant(parsed[k], input, i)
              /\ parsed[k].name = NameOf(i) /\ Parsed(NameOf(i)) = parsed[k]
<1>1. i \in InstancesOf(input) /\ NameOf(i) = Title(input, i)
  BY DEF Instances, InstancesOf, NameOf, Title
<1>2. PICK k \in DOMAIN parsed : f[k] = i
  BY <1>1 DEF Expanded
<1>3. IsVariant(parsed[k], input, i) /\ parsed[k].name = NameOf(i)
  BY <1>1, <1>2 DEF Expanded, IsVariant
<1>4. \A e \in DOMAIN parsed : parsed[e].name = NameOf(i) => e = k
  BY <1>3, NamesDiffer
<1>5. Parsed(NameOf(i)) = parsed[k]
  BY <1>3, <1>4 DEF Parsed
<1> QED
  BY <1>2, <1>3, <1>5

\* There is a job for each instance, and no other.
LEMMA InstancesCounted ==
    ASSUME IsJobs(parsed), Valid(parsed), NEW f, Expanded(parsed, input, f)
    PROVE  Len(parsed) = Cardinality(Instances) /\ NamesOf(parsed) = {NameOf(i) : i \in Instances}
<1>1. \A k \in DOMAIN parsed : f[k] \in Instances /\ parsed[k].name = NameOf(f[k])
  BY DEF Expanded, IsVariant, Instances, InstancesOf, NameOf, Title
<1>2. \A i \in Instances : \E k \in DOMAIN parsed : f[k] = i /\ parsed[k].name = NameOf(i)
  BY JobOfInstance
<1> DEFINE g == [k \in DOMAIN parsed |-> f[k]]
<1>3. g = [k \in DOMAIN parsed |-> g[k]] /\ \A k \in DOMAIN parsed : g[k] = f[k]
  OBVIOUS
<1> HIDE DEF g
<1>4. IsList(g) /\ Len(g) = Len(parsed) /\ DOMAIN g = DOMAIN parsed
  BY <1>3, SamePlaces DEF IsJobs
<1>5. \A k, e \in DOMAIN g : g[k] = g[e] => k = e
  BY <1>1, <1>3, <1>4, NamesDiffer
<1>6. ToSet(g) = Instances
  BY <1>1, <1>2, <1>3, <1>4 DEF ToSet
<1>7. Cardinality(ToSet(g)) = Len(g)
  BY <1>4, <1>5, Repetitions
<1>8. \A y : y \in NamesOf(parsed) <=> \E i \in Instances : y = NameOf(i)
  BY <1>1, <1>2 DEF NamesOf
<1>9. NamesOf(parsed) = {NameOf(i) : i \in Instances}
  BY <1>8
<1> QED
  BY <1>4, <1>6, <1>7, <1>9

\* Each waits for the instances it needs.
LEMMA NeededAwaited ==
    ASSUME IsJobs(parsed), Valid(parsed), DepsKnown(parsed), NEW f, Expanded(parsed, input, f),
           ReplicasApart, NEW i \in Instances
    PROVE  ToSet(Parsed(NameOf(i)).deps) = {NameOf(n) : n \in Needed(i)}
<1>1. PICK k \in DOMAIN parsed : IsVariant(parsed[k], input, i) /\ Parsed(NameOf(i)) = parsed[k]
  BY JobOfInstance
<1>2. ApartIn(input)
  BY DEF ReplicasApart, ApartIn, Written, WrittenIn
<1>3. \A y : y \in ToSet(parsed[k].deps) <=>
              \E d \in ToSet(input.jobs[i.src].deps) : Awaited(input, i, d, y)
  BY <1>1, <1>2 DEF IsVariant, DepsOf
<1>4. Instances = InstancesOf(input) /\ \A n \in Instances : NameOf(n) = Title(input, n)
  BY DEF Instances, InstancesOf, NameOf, Title
<1>5. ASSUME NEW y \in ToSet(parsed[k].deps)
      PROVE  \E n \in Needed(i) : y = NameOf(n)
  <2>1. PICK d \in ToSet(input.jobs[i.src].deps) : Awaited(input, i, d, y)
    BY <1>3
  <2>2. CASE d \in NamesOf(input.jobs)
    BY <1>4, <2>1, <2>2 DEF Awaited, Needed
  <2>3. CASE d \notin NamesOf(input.jobs)
    <3>1. y = Bracketed(d, i.all)
      BY <2>1, <2>3 DEF Awaited
    <3>2. y \in NamesOf(parsed)
      BY DEF DepsKnown
    <3>3. PICK n \in Instances : y = NameOf(n)
      BY <3>2, InstancesCounted
    <3> QED
      BY <2>3, <3>1, <3>3 DEF Needed
  <2> QED
    BY <2>2, <2>3
<1>6. ASSUME NEW n \in Needed(i)
      PROVE  NameOf(n) \in ToSet(parsed[k].deps)
  <2>1. PICK d \in ToSet(input.jobs[i.src].deps) :
            IF d \in NamesOf(input.jobs) THEN n.all = i.all /\ input.jobs[n.src].name = d
            ELSE NameOf(n) = Bracketed(d, i.all)
    BY DEF Needed
  <2>2. n \in Instances
    BY DEF Needed
  <2>3. Awaited(input, i, d, NameOf(n))
    BY <1>4, <2>1, <2>2 DEF Awaited
  <2> QED
    BY <1>3, <2>3
<1>7. \A y : y \in ToSet(parsed[k].deps) <=> \E n \in Needed(i) : y = NameOf(n)
  BY <1>5, <1>6
<1>8. ToSet(parsed[k].deps) = {NameOf(n) : n \in Needed(i)}
  BY <1>7
<1> QED
  BY <1>1, <1>8

\* Without a matrix there is only one choice, so two instances of one job have
\* one that tells them apart.
LEMMA MatrixBetween ==
    ASSUME NEW in, NEW i \in InstancesOf(in), NEW n \in InstancesOf(in), i.src = n.src, i # n
    PROVE  in.matrix # NoMatrix \/ in.jobs[i.src].matrix # NoMatrix
<1> SUFFICES ASSUME in.matrix = NoMatrix, in.jobs[i.src].matrix = NoMatrix
             PROVE  FALSE
  OBVIOUS
<1>1. Settings(NoMatrix) = {[d \in {} |-> NoMatrix]}
  BY DEF Settings
<1>2. i.all = n.all /\ i.own = n.own
  BY <1>1, InstanceRead
<1>3. i = [src |-> i.src, all |-> i.all, own |-> i.own] /\ n = [src |-> n.src, all |-> n.all, own |-> n.own]
  BY InstanceRead
<1> QED
  BY <1>2, <1>3

\* Two variants share no cache.
LEMMA VariantsCachesApart ==
    ASSUME IsJobs(parsed), Valid(parsed), NEW f, Expanded(parsed, input, f),
           NEW i \in Instances, NEW n \in Instances, i.src = n.src, i # n
    PROVE  CacheIDs(Parsed(NameOf(i))) \cap CacheIDs(Parsed(NameOf(n))) = {}
<1>1. PICK k \in DOMAIN parsed :
          f[k] = i /\ IsVariant(parsed[k], input, i) /\ Parsed(NameOf(i)) = parsed[k]
  BY JobOfInstance
<1>2. PICK e \in DOMAIN parsed :
          f[e] = n /\ IsVariant(parsed[e], input, n) /\ Parsed(NameOf(n)) = parsed[e]
  BY JobOfInstance
<1>3. parsed[k].name # parsed[e].name
  BY <1>1, <1>2, NamesDiffer
<1>4. input.matrix # NoMatrix \/ input.jobs[i.src].matrix # NoMatrix
  BY MatrixBetween DEF Instances, InstancesOf
<1>5. Tagged(parsed[k]) /\ Tagged(parsed[e])
  BY <1>1, <1>2, <1>4 DEF IsVariant
<1> QED
  BY <1>1, <1>2, <1>3, <1>5 DEF Tagged

\* The defaults change neither names nor dependencies, matrices or caches.
LEMMA DefaultsKept ==
    ASSUME PlanInv, PlanInv', ExpansionInv, ApplyDefaults
    PROVE  ExpansionInv'
<1> DEFINE With(j) == [j EXCEPT !.image = @ \/ input.image]
<1>0. phase = "defaults" /\ jobs = input.jobs /\ IsJobs(jobs) /\ IsJobs(jobs') /\ parsed = <<>>
  BY DEF ApplyDefaults, ExpansionInv, PlanInv, TypeInv, Parsing
<1>1. /\ phase' = "expandPipeline" /\ input' = input /\ parsed' = parsed
      /\ jobs' = [k \in DOMAIN jobs |-> With(jobs[k])]
  BY DEF ApplyDefaults, Proceed, Each
<1>2. ASSUME NEW job, IsJob(job)
      PROVE  LET j == With(job) IN
             j.name = job.name /\ j.deps = job.deps /\ j.matrix = job.matrix /\ SameCaches(j, job)
  <2> DEFINE j == With(job)
  <2>1. /\ j.name = job.name /\ j.deps = job.deps /\ j.matrix = job.matrix
        /\ j.caches = job.caches /\ j.steps = job.steps
    BY <1>2 DEF IsJob
  <2> HIDE DEF j
  <2> QED
    BY <2>1 DEF SameCaches, j
<1> HIDE DEF With
<1>3. \A k \in DOMAIN jobs : jobs'[k] = With(jobs[k]) /\ IsJob(jobs[k])
  BY <1>0, <1>1 DEF IsJobs
<1>4. DOMAIN jobs' = DOMAIN jobs
  BY <1>1
<1>5. AsWritten(jobs', input')
  BY <1>0, <1>1, <1>2, <1>3, <1>4, ZenonT(60) DEF AsWritten
<1> QED
  BY <1>0, <1>1, <1>5 DEF ExpansionInv

\* The first phase.
LEMMA PipelineExpanded ==
    ASSUME PlanInv, ExpansionInv, ExpandPipeline, phase' # "failed"
    PROVE  ExpansionInv'
<1>0. /\ phase = "expandPipeline" /\ AsWritten(jobs, input) /\ parsed = <<>>
      /\ input \in Inputs /\ (input.matrix = NoMatrix \/ IsMatrix(input.matrix))
  BY InputsAssumption DEF ExpandPipeline, ExpansionInv, PlanInv, TypeInv, Parsing
<1>1. phase' = "expandJobs" /\ input' = input /\ parsed' = parsed
  BY DEF ExpandPipeline, Proceed, Fail
<1>2. CASE input.matrix = NoMatrix
  <2>1. jobs' = jobs
    BY <1>2 DEF ExpandPipeline, Proceed
  <2>2. Replicated(jobs, input)
    BY <1>0, <1>2, OneReplica DEF Replicated, Checked
  <2>3. Replicated(jobs', input')
    BY <1>1, <2>1, <2>2
  <2> QED
    BY <1>0, <1>1, <2>3 DEF ExpansionInv
<1>3. CASE input.matrix # NoMatrix
  <2>1. ~MatrixRejected(input.matrix) /\ jobs' = PipelineReplicas(input.matrix, jobs)
    BY <1>3 DEF ExpandPipeline, Proceed, Fail
  <2>2. Replicated(PipelineReplicas(input.matrix, jobs), input)
    BY <1>0, <1>3, <2>1, ReplicasMade DEF Replicated, Checked
  <2>3. Replicated(jobs', input')
    BY <1>1, <2>1, <2>2
  <2> QED
    BY <1>0, <1>1, <2>3 DEF ExpansionInv
<1> QED
  BY <1>2, <1>3

\* The second.
LEMMA JobsExpanded ==
    ASSUME PlanInv, ExpansionInv, ExpandJobs, phase' # "failed"
    PROVE  ExpansionInv'
<1>0. /\ phase = "expandJobs" /\ Replicated(jobs, input) /\ parsed = <<>>
      /\ input \in Inputs /\ IsJobs(jobs)
  BY DEF ExpandJobs, ExpansionInv, PlanInv, TypeInv, Parsing
<1>1. /\ phase' = "check" /\ input' = input /\ parsed' = parsed /\ jobs' = JobVariants(jobs)
      /\ \A k \in DOMAIN jobs : jobs[k].matrix = NoMatrix \/ ~MatrixRejected(jobs[k].matrix)
  BY DEF ExpandJobs, Proceed, Fail
<1>2. \A k \in DOMAIN jobs : Checked(jobs[k].matrix)
  BY <1>0, <1>1 DEF IsJobs, IsJob, Checked
<1>3. PICK of : Ready(jobs, input, of)
  BY <1>0, <1>2 DEF Replicated, Ready
<1>4. Fully(JobVariants(jobs), input)
  BY <1>0, <1>3, InstancesMade DEF Fully
<1>5. Fully(jobs', input')
  BY <1>1, <1>4
<1> QED
  BY <1>0, <1>1, <1>5 DEF ExpansionInv

\* Validate accepts the expanded jobs.
LEMMA ExpandedAccepted ==
    ASSUME PlanInv, PlanInv', ExpansionInv, Validated
    PROVE  ExpansionInv'
<1>0. /\ phase = "sort" /\ caller \in {"parse", "validate", "build"}
      /\ IsJobs(jobs) /\ Valid(jobs) /\ Acyclic(jobs')
      /\ jobs' = jobs /\ input' = input /\ phase' \in {"parsed", "valid", "llb"}
  <2>1. /\ phase = "sort" /\ caller \in {"parse", "validate", "build"} /\ IsJobs(jobs) /\ Valid(jobs)
        /\ jobs' = jobs /\ input' = input
    BY DEF Validated, Sorting, PlanInv, TypeInv, PhaseInv
  <2>2. phase' \in {"parsed", "valid", "llb"}
    BY <2>1 DEF Validated
  <2>3. parsed' # <<>> /\ phase' # "failed"
    BY <2>2 DEF PlanInv, TypeInv, Parsing
  <2> QED
    BY <2>1, <2>2, <2>3 DEF PlanInv, PhaseInv
<1>1. CASE caller = "parse"
  <2>1. parsed' = jobs
    BY <1>1 DEF Validated
  <2>2. DepsKnown(jobs)
    <3>1. PICK r : Ranks(r, jobs)
      BY <1>0 DEF Acyclic
    <3> QED
      BY <3>1 DEF Ranks, DepsKnown, ToSet
  <2>3. Fully(jobs, input)
    BY <1>0, <1>1 DEF ExpansionInv
  <2>4. IsJobs(parsed') /\ Valid(parsed') /\ DepsKnown(parsed') /\ Fully(parsed', input')
    BY <1>0, <2>1, <2>2, <2>3
  <2> QED
    BY <1>0, <2>4 DEF ExpansionInv
<1>2. CASE caller # "parse"
  <2>1. parsed' = parsed
    BY <1>2 DEF Validated
  <2>2. parsed' # <<>> => IsJobs(parsed') /\ Valid(parsed') /\ DepsKnown(parsed') /\ Fully(parsed', input')
    BY <1>0, <2>1 DEF ExpansionInv
  <2> QED
    BY <1>0, <2>2 DEF ExpansionInv
<1> QED
  BY <1>1, <1>2

\* A step after which the jobs in hand are those before it, or no longer matter.
LEMMA ExpansionOver ==
    ASSUME ExpansionInv, input' = input, parsed' = parsed,
           phase' \notin {"defaults", "expandPipeline", "expandJobs"},
           phase' \in {"check", "sort"} /\ caller' = "parse" =>
                phase \in {"check", "sort"} /\ caller = "parse" /\ jobs' = jobs
    PROVE  ExpansionInv'
<1>1. parsed' # <<>> => IsJobs(parsed') /\ Valid(parsed') /\ DepsKnown(parsed') /\ Fully(parsed', input')
  BY DEF ExpansionInv
<1>2. phase' \in {"check", "sort"} /\ caller' = "parse" => Fully(jobs', input')
  BY DEF ExpansionInv
<1> QED
  BY <1>1, <1>2 DEF ExpansionInv

\* The other steps.
LEMMA ExpansionWaits ==
    ASSUME PlanInv, ExpansionInv,
           \/ phase' = "failed" /\ input' = input /\ parsed' = parsed
           \/ Check \/ VisitRoot \/ VisitDep \/ Leave \/ ValidateAction
           \/ \E from, to \in Targets : RunAction(from, to)
           \/ Build \/ BuildJob \/ BuildRunnerJobs
    PROVE  ExpansionInv'
<1>1. CASE phase' = "failed" /\ input' = input /\ parsed' = parsed
  BY <1>1, ExpansionOver
<1>2. CASE \E e : Fail(e)
  BY <1>1, <1>2 DEF Fail
<1>3. CASE /\ phase \in {"check", "sort"} /\ phase' = "sort"
           /\ UNCHANGED <<input, parsed, caller, jobs>>
  BY <1>3, ExpansionOver
<1>4. CASE /\ phase' \in {"build", "llb", "ready"} \/ (phase' = "check" /\ caller' # "parse")
           /\ UNCHANGED <<input, parsed>>
  BY <1>4, ExpansionOver
<1>5. CASE Check
  BY <1>2, <1>3, <1>5 DEF Check
<1>6. ASSUME phase = "sort", NEW m, NEW fs, NEW ord, Sorted(m, fs, ord)
      PROVE  ExpansionInv'
  BY <1>3, <1>6 DEF Sorted
<1>7. CASE VisitRoot
  <2>1. phase = "sort" /\ \E m, fs, ord : Sorted(m, fs, ord)
    BY <1>7 DEF VisitRoot, Sorting
  <2> QED
    BY <1>6, <2>1
<1>8. CASE VisitDep
  <2>1. phase = "sort" /\ ((\E m, fs, ord : Sorted(m, fs, ord)) \/ \E e : Fail(e))
    BY <1>8 DEF VisitDep, Sorting
  <2> QED
    BY <1>2, <1>6, <2>1
<1>9. CASE Leave
  <2>1. phase = "sort" /\ \E m, fs, ord : Sorted(m, fs, ord)
    BY <1>9 DEF Leave, Sorting
  <2> QED
    BY <1>6, <2>1
<1>10. CASE ValidateAction
  BY <1>4, <1>10 DEF ValidateAction, CallValidate
<1>11. ASSUME NEW from \in Targets, NEW to \in Targets, RunAction(from, to)
       PROVE  ExpansionInv'
  BY <1>2, <1>4, <1>11 DEF RunAction
<1>12. CASE Build
  BY <1>4, <1>12 DEF Build, Proceed, CallValidate
<1>13. CASE BuildJob
  <2>1. (\E e : Fail(e)) \/ (phase' = phase /\ UNCHANGED <<input, parsed>>)
    BY <1>13 DEF BuildJob
  <2>2. phase = "llb"
    BY <1>13 DEF BuildJob
  <2> QED
    BY <1>2, <1>4, <2>1, <2>2
<1>14. CASE BuildRunnerJobs
  <2>1. (\E e : Fail(e)) \/ (phase' = "ready" /\ UNCHANGED <<input, parsed>>)
    BY <1>14 DEF BuildRunnerJobs
  <2> QED
    BY <1>2, <1>4, <2>1
<1> QED
  BY <1>1, <1>5, <1>7, <1>8, <1>9, <1>10, <1>11, <1>12, <1>13, <1>14

\* The invariant of the expansion, with that of the plan.
LEMMA ExpansionInvariant == Spec => [](PlanInv /\ ExpansionInv)
<1>1. Init => ExpansionInv
  BY DEF Init, ExpansionInv
<1>2. PlanInv /\ PlanInv' /\ ExpansionInv /\ [Next]_vars => ExpansionInv'
  <2> SUFFICES ASSUME PlanInv, PlanInv', ExpansionInv, [Next]_vars
               PROVE  ExpansionInv'
    OBVIOUS
  <2>1. CASE ApplyDefaults
    BY <2>1, DefaultsKept
  <2>2. CASE ExpandPipeline
    <3>1. phase' # "failed" \/ (input' = input /\ parsed' = parsed)
      BY <2>2 DEF ExpandPipeline, Proceed, Fail
    <3> QED
      BY <2>2, <3>1, PipelineExpanded, ExpansionWaits
  <2>3. CASE ExpandJobs
    <3>1. phase' # "failed" \/ (input' = input /\ parsed' = parsed)
      BY <2>3 DEF ExpandJobs, Proceed, Fail
    <3> QED
      BY <2>3, <3>1, JobsExpanded, ExpansionWaits
  <2>4. CASE Validated
    BY <2>4, ExpandedAccepted
  <2>5. CASE \/ Check \/ VisitRoot \/ VisitDep \/ Leave \/ ValidateAction
             \/ \E from, to \in Targets : RunAction(from, to)
             \/ Build \/ BuildJob \/ BuildRunnerJobs
    BY <2>5, ExpansionWaits
  <2>6. CASE UNCHANGED vars
    <3>1. input' = input /\ jobs' = jobs /\ phase' = phase /\ caller' = caller /\ parsed' = parsed
      BY <2>6 DEF vars
    <3> QED
      BY <3>1 DEF ExpansionInv
  <2> QED
    BY <2>1, <2>2, <2>3, <2>4, <2>5, <2>6 DEF Next
<1> QED
  BY <1>1, <1>2, PlanInvariant, PTL DEF Spec

\* Of a file that parse accepts there is one job for every choice of values, of
\* the pipeline's matrix and of the job's own, and no other; and unless two of
\* its names meet in a replica, each waits for the variants of its dependencies
\* in its own replica, all of them and nothing else.
THEOREM VariantsAsWritten == Spec => []VariantDeps
<1>1. ExpansionInv => VariantDeps
  <2> SUFFICES ASSUME ExpansionInv, parsed # <<>>
               PROVE  /\ Len(parsed) = Cardinality(Instances)
                      /\ NamesOf(parsed) = {NameOf(i) : i \in Instances}
                      /\ ReplicasApart => \A i \in Instances :
                            ToSet(Parsed(NameOf(i)).deps) = {NameOf(n) : n \in Needed(i)}
    BY DEF VariantDeps
  <2>1. PICK f : /\ IsJobs(parsed) /\ Valid(parsed) /\ DepsKnown(parsed)
                 /\ Expanded(parsed, input, f)
    BY DEF ExpansionInv, Fully
  <2> QED
    BY <2>1, InstancesCounted, NeededAwaited
<1> QED
  BY <1>1, ExpansionInvariant, PTL

\* Two variants of one job share no cache volume, whichever matrix made them.
THEOREM VariantsShareNoCache == Spec => []CachesApart
<1>1. ExpansionInv => CachesApart
  <2> SUFFICES ASSUME ExpansionInv, parsed # <<>>,
                      NEW i \in Instances, NEW n \in Instances, i.src = n.src, i # n
               PROVE  CacheIDs(Parsed(NameOf(i))) \cap CacheIDs(Parsed(NameOf(n))) = {}
    BY DEF CachesApart
  <2>1. PICK f : IsJobs(parsed) /\ Valid(parsed) /\ Expanded(parsed, input, f)
    BY DEF ExpansionInv, Fully
  <2> QED
    BY <2>1, VariantsCachesApart
<1> QED
  BY <1>1, ExpansionInvariant, PTL

=============================================================================
