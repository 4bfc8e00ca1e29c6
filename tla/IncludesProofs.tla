--------------------------- MODULE IncludesProofs ---------------------------
(***************************************************************************)
(* Reading the includes, for any files, any contents and any depth limit:  *)
(* the ancestry is that of the open files, the verdict on cycles is right  *)
(* in both directions, the cache changes nothing, and an alias reaches all *)
(* the jobs of its include.                                                *)
(*                                                                         *)
(* The open files are an include path, so that a push that meets one of    *)
(* them closes a cycle; and the files that have been read to their end are *)
(* closed under inclusion and on no cycle, so that what is accepted has    *)
(* none.  The reference, Walk, is a recursive function: its facts are      *)
(* proved by induction on the length of the walk.                          *)
(*                                                                         *)
(* What the cache holds for a file follows from what it holds for the      *)
(* files it includes, and the files read can be numbered, each after its   *)
(* includes: by induction on that number it holds the reference, which     *)
(* reads everything anew.  A job of an include that its alias does not     *)
(* reach would be named by another such job, without end.                  *)
(***************************************************************************)
EXTENDS Includes, FiniteSetTheorems, SequenceTheorems, TLAPS

Nodes(f) == disk[f].nodes

Fields == {"file", "given", "as", "pos", "groups", "inline"}

IsFrame(fr) ==
    /\ DOMAIN fr = Fields
    /\ fr.file \in Files /\ fr.pos \in 1..(Len(Nodes(fr.file)) + 1)

\* The files that have been read to their end.
Parsed == {key[1] : key \in DOMAIN cache}

\* The frame stands at an include of f.
AtIncludeOf(fr, f) ==
    /\ fr.pos <= Len(Nodes(fr.file))
    /\ Nodes(fr.file)[fr.pos].kind = "include" /\ Nodes(fr.file)[fr.pos].source = f

\* All that the frame has passed is in C.
Passed(fr, C) ==
    \A i \in 1..(fr.pos - 1) :
        Nodes(fr.file)[i].kind = "include" => Nodes(fr.file)[i].source \in C

\* The stack s of open files begins with the root, and every frame stands at the
\* include of the next one's file.
OpenFiles(s, C) ==
    /\ s \in Seq(Range(s)) /\ Len(s) > 0 /\ s[1].file = Root
    /\ \A k \in 1..Len(s) : IsFrame(s[k]) /\ Passed(s[k], C)
    /\ \A k \in 1..(Len(s) - 1) : AtIncludeOf(s[k], s[k + 1].file)

Ancestry(s) == [k \in 1..(Len(s) - 1) |-> s[k + 1].file]

\* The files that have been read are closed under inclusion, on no cycle.
Sound(C) ==
    C \subseteq Files /\ \A f \in C : Includes(f) \subseteq C /\ f \notin Reachable(f)

IncludesInv ==
    /\ disk \in Worlds
    /\ OpenFiles(stack, Parsed) /\ AncestryTight
    /\ Sound(Parsed) /\ CycleVerdict

-----------------------------------------------------------------------------
(* Induction, with a set in place of a predicate.                          *)

\* A set of numbers that is not empty has a least: the intervals that end in its
\* members are finite sets, well-founded by inclusion.
LEMMA LeastNumber ==
    ASSUME NEW S \in SUBSET Nat, S # {}
    PROVE  \E m \in S : \A k \in S : m <= k
<1> DEFINE T == {1..m : m \in S}
<1>1. \A m \in S : 1..m \in FiniteSubsetsOf(Nat)
  <2>1. \A m \in S : IsFiniteSet(1..m) /\ 1..m \subseteq Nat
    BY FS_Interval
  <2> QED
    BY <2>1 DEF FiniteSubsetsOf
<1>2. T \subseteq FiniteSubsetsOf(Nat) /\ T # {}
  BY <1>1
<1>3. IsWellFoundedOn(StrictSubsetOrdering(Nat), FiniteSubsetsOf(Nat))
  BY FS_StrictSubsetOrderingWellFounded
<1>4. PICK x \in T : \A y \in T : ~(<<y, x>> \in StrictSubsetOrdering(Nat))
  <2> HIDE DEF T
  <2> QED
    BY <1>2, <1>3, WFMin
<1>5. PICK m \in S : x = 1..m
  OBVIOUS
<1>6. ASSUME NEW k \in S, k < m
      PROVE  FALSE
  <2>1. 1..k \subseteq 1..m /\ m \in 1..m /\ m \notin 1..k
    BY <1>6
  <2>2. 1..k # 1..m /\ 1..k \in T /\ 1..k \subseteq Nat /\ 1..m \subseteq Nat
    BY <2>1
  <2>3. <<1..k, 1..m>> \in StrictSubsetOrdering(Nat)
    BY <2>1, <2>2 DEF StrictSubsetOrdering
  <2> QED
    BY <1>4, <1>5, <2>2, <2>3
<1> QED
  BY <1>6

\* Induction on the natural numbers.
LEMMA Induction ==
    ASSUME NEW S, 0 \in S, \A n \in Nat : n \in S => n + 1 \in S
    PROVE  Nat \subseteq S
<1> SUFFICES ASSUME Nat \ S # {}
             PROVE  FALSE
  OBVIOUS
<1>1. PICK m \in Nat \ S : \A k \in Nat \ S : m <= k
  BY LeastNumber
<1>2. m - 1 \in Nat /\ m - 1 \in S
  BY <1>1
<1> QED
  BY <1>1, <1>2

-----------------------------------------------------------------------------
(* Walks.                                                                  *)

\* The files at each step of the walks from f, up to n steps.
Steps(files, f, n) ==
    files = [k \in 0..n |-> IF k = 0 THEN {f} ELSE UNION {Includes(g) : g \in files[k - 1]}]

\* There are such.
LEMMA StepsExist ==
    ASSUME NEW f, NEW n \in Nat
    PROVE  \E files : Steps(files, f, n)
<1> DEFINE S == {m \in Nat : \E files : Steps(files, f, m)}
<1>1. 0 \in S
  <2> DEFINE zero == [k \in 0..0 |-> {f}]
  <2>1. Steps(zero, f, 0)
    BY DEF Steps
  <2> QED
    BY <2>1
<1>2. ASSUME NEW m \in Nat, m \in S
      PROVE  m + 1 \in S
  <2>1. PICK files : Steps(files, f, m)
    BY <1>2
  <2> DEFINE next == UNION {Includes(g) : g \in files[m]}
             more == [k \in 0..(m + 1) |-> IF k = m + 1 THEN next ELSE files[k]]
  <2>2. \A k \in 0..m : more[k] = files[k]
    OBVIOUS
  <2>3. more[m + 1] = UNION {Includes(g) : g \in more[m]}
    BY <2>2
  <2>4. \A k \in 0..m : files[k] = IF k = 0 THEN {f} ELSE UNION {Includes(g) : g \in files[k - 1]}
    BY <2>1 DEF Steps
  <2>5. \A k \in 0..m : more[k] = IF k = 0 THEN {f} ELSE UNION {Includes(g) : g \in more[k - 1]}
    <3> HIDE DEF more
    <3>1. \A k \in 0..m : k # 0 => k - 1 \in 0..m
      OBVIOUS
    <3> QED
      BY <2>2, <2>4, <3>1
  <2>6. more = [k \in 0..(m + 1) |-> more[k]]
    OBVIOUS
  <2> HIDE DEF more
  <2>7. \A k \in 0..(m + 1) :
          more[k] = IF k = 0 THEN {f} ELSE UNION {Includes(g) : g \in more[k - 1]}
    <3> SUFFICES ASSUME NEW k \in 0..(m + 1)
                 PROVE  more[k] = IF k = 0 THEN {f} ELSE UNION {Includes(g) : g \in more[k - 1]}
      OBVIOUS
    <3>1. CASE k = m + 1
      <4>1. k # 0 /\ k - 1 = m
        BY <3>1
      <4>2. more[k - 1] = more[m] /\ more[k] = more[m + 1]
        BY <3>1, <4>1
      <4> QED
        BY <2>3, <4>1, <4>2
    <3>2. CASE k # m + 1
      <4>1. k \in 0..m
        BY <3>2
      <4> QED
        BY <2>5, <4>1
    <3> QED
      BY <3>1, <3>2
  <2>8. Steps(more, f, m + 1)
    BY <2>6, <2>7 DEF Steps
  <2> QED
    BY <2>8
<1> HIDE DEF S
<1>3. Nat \subseteq S
  BY <1>1, <1>2, Induction
<1> QED
  BY <1>3 DEF S

\* They agree, however far they go.
LEMMA StepsAgree ==
    ASSUME NEW f, NEW n \in Nat, NEW m \in Nat, NEW a, NEW b, Steps(a, f, n), Steps(b, f, m),
           n <= m
    PROVE  a[n] = b[n]
<1> DEFINE S == {k \in Nat : k <= n => a[k] = b[k]}
<1>1. 0 \in S
  BY DEF Steps
<1>2. ASSUME NEW k \in Nat, k \in S
      PROVE  k + 1 \in S
  <2>1. CASE k + 1 <= n
    <3> DEFINE After(F) == UNION {Includes(g) : g \in F}
    <3>1. a[k + 1] = After(a[k]) /\ b[k + 1] = After(b[k])
      BY <2>1, SMTT(30) DEF Steps
    <3> HIDE DEF After
    <3>2. a[k] = b[k]
      BY <1>2, <2>1
    <3> QED
      BY <3>1, <3>2
  <2> QED
    BY <2>1
<1> HIDE DEF S
<1>3. Nat \subseteq S
  BY <1>1, <1>2, Induction
<1> QED
  BY <1>3 DEF S

\* The walks from f, step by step.
LEMMA WalkSteps ==
    ASSUME NEW f
    PROVE  /\ Walk(f, 0) = {f}
           /\ \A n \in Nat : Walk(f, n + 1) = UNION {Includes(g) : g \in Walk(f, n)}
<1> DEFINE W(n) == CHOOSE files : Steps(files, f, n)
<1>1. \A n \in Nat : Walk(f, n) = W(n)[n]
  BY DEF Walk, Steps
<1>2. \A n \in Nat : Steps(W(n), f, n)
  BY StepsExist
<1> HIDE DEF W
<1>3. W(0)[0] = {f}
  BY <1>2 DEF Steps
<1>4. ASSUME NEW n \in Nat
      PROVE  W(n + 1)[n + 1] = UNION {Includes(g) : g \in W(n)[n]}
  <2>1. W(n)[n] = W(n + 1)[n]
    BY <1>2, StepsAgree
  <2>2. Steps(W(n + 1), f, n + 1)
    BY <1>2
  <2>3. W(n + 1)[n + 1] = UNION {Includes(g) : g \in W(n + 1)[n]}
    BY <2>2 DEF Steps
  <2> QED
    BY <2>1, <2>3
<1> QED
  BY <1>1, <1>3, <1>4

\* What walks from f that have begun to move never leave C.
LEMMA ClosedWalk ==
    ASSUME NEW f, NEW C, Includes(f) \subseteq C, \A g \in C : Includes(g) \subseteq C
    PROVE  \A n \in Nat : Walk(f, n + 1) \subseteq C
<1> DEFINE S == {n \in Nat : Walk(f, n + 1) \subseteq C}
<1>1. 0 \in S
  <2>1. Walk(f, 0 + 1) = UNION {Includes(g) : g \in {f}}
    BY WalkSteps
  <2> QED
    BY <2>1
<1>2. ASSUME NEW n \in Nat, n \in S
      PROVE  n + 1 \in S
  <2>1. Walk(f, (n + 1) + 1) = UNION {Includes(g) : g \in Walk(f, n + 1)}
    BY WalkSteps
  <2> QED
    BY <1>2, <2>1
<1> HIDE DEF S
<1>3. Nat \subseteq S
  BY <1>1, <1>2, Induction
<1> QED
  BY <1>3 DEF S

\* So nothing but C is reachable from f.
LEMMA ReachableIn ==
    ASSUME NEW f, NEW C, Includes(f) \subseteq C, \A g \in C : Includes(g) \subseteq C
    PROVE  Reachable(f) \subseteq C
<1>1. Cardinality(Files) \in Nat
  BY IncludesAssumption, FS_CardinalityType
<1>2. ASSUME NEW n \in 1..Cardinality(Files)
      PROVE  Walk(f, n) \subseteq C
  <2>1. n - 1 \in Nat /\ n = (n - 1) + 1
    BY <1>1
  <2> QED
    BY <2>1, ClosedWalk
<1> QED
  BY <1>2 DEF Reachable

\* A file all of whose includes have been read makes no cycle with them.
LEMMA SoundGrows ==
    ASSUME NEW C, Sound(C), NEW f \in Files, Includes(f) \subseteq C
    PROVE  Sound(C \cup {f})
<1>1. f \in C \/ f \notin Reachable(f)
  BY ReachableIn DEF Sound
<1> QED
  BY <1>1 DEF Sound

\* A root all of whose includes have been read is on no cycle and leads to none.
LEMMA SoundRoot ==
    ASSUME NEW C, Sound(C), Includes(Root) \subseteq C
    PROVE  ~CyclicFrom(Root)
<1>1. Sound(C \cup {Root})
  BY SoundGrows, IncludesAssumption
<1>2. Reachable(Root) \subseteq C
  BY ReachableIn DEF Sound
<1> QED
  BY <1>1, <1>2 DEF CyclicFrom, Sound

\* A walk from one file to a second, and from that to a third by one include.
LEMMA WalkOn ==
    ASSUME NEW f, NEW g, NEW h, NEW n \in Nat, g \in Walk(f, n), h \in Includes(g)
    PROVE  h \in Walk(f, n + 1)
BY WalkSteps

\* A sequence of files each of which includes the next is a walk.
LEMMA PathWalk ==
    ASSUME NEW p, NEW l \in Nat, \A k \in 1..(l - 1) : p[k + 1] \in Includes(p[k]),
           NEW i \in 1..l, NEW j \in i..l
    PROVE  p[j] \in Walk(p[i], j - i)
<1> DEFINE S == {m \in Nat : i + m <= l => p[i + m] \in Walk(p[i], m)}
<1>1. 0 \in S
  BY WalkSteps
<1>2. ASSUME NEW m \in Nat, m \in S
      PROVE  m + 1 \in S
  <2>1. CASE i + (m + 1) <= l
    <3>1. p[i + m] \in Walk(p[i], m)
      BY <1>2, <2>1
    <3>2. p[(i + m) + 1] \in Includes(p[i + m])
      BY <2>1
    <3>3. p[(i + m) + 1] \in Walk(p[i], m + 1)
      BY <3>1, <3>2, WalkOn
    <3>4. (i + m) + 1 = i + (m + 1)
      OBVIOUS
    <3> QED
      BY <3>3, <3>4
  <2> QED
    BY <2>1
<1> HIDE DEF S
<1>3. j - i \in S
  BY <1>1, <1>2, Induction
<1> QED
  BY <1>3 DEF S

-----------------------------------------------------------------------------
(* Stacks.                                                                 *)

\* Every sequence is one of its own elements.
LEMMA SeqOfItsRange ==
    ASSUME NEW T, NEW t \in Seq(T)
    PROVE  t \in Seq(Range(t))
<1>1. Len(t) \in Nat /\ t \in [1..Len(t) -> T] /\ DOMAIN t = 1..Len(t)
  BY LenProperties
<1>2. t \in [1..Len(t) -> Range(t)]
  BY <1>1 DEF Range
<1> QED
  BY <1>1, <1>2, SeqDef

\* A frame on top.
LEMMA Pushing ==
    ASSUME NEW s, s \in Seq(Range(s)), NEW e
    PROVE  LET t == Append(s, e) IN
           /\ t \in Seq(Range(t)) /\ Len(t) = Len(s) + 1
           /\ \A k \in 1..Len(s) : t[k] = s[k]
           /\ t[Len(s) + 1] = e
<1> DEFINE T == Range(s) \cup {e}
           t == Append(s, e)
<1>1. s \in Seq(T) /\ e \in T
  OBVIOUS
<1> HIDE DEF T
<1>2. /\ t \in Seq(T) /\ Len(t) = Len(s) + 1
      /\ \A k \in 1..Len(s) : t[k] = s[k]
      /\ t[Len(s) + 1] = e
  BY <1>1
<1>3. t \in Seq(Range(t))
  <2> HIDE DEF t
  <2> QED
    BY <1>2, SeqDef, SMTT(30) DEF Range
<1> QED
  BY <1>2, <1>3

\* Another frame in place of the top one.
LEMMA Replacing ==
    ASSUME NEW s, s \in Seq(Range(s)), Len(s) > 0, NEW e
    PROVE  LET t == Replaced(s, e) IN
           /\ t \in Seq(Range(t)) /\ Len(t) = Len(s)
           /\ \A k \in 1..(Len(s) - 1) : t[k] = s[k]
           /\ t[Len(s)] = e
<1> DEFINE T == Range(s) \cup {e}
           t == [s EXCEPT ![Len(s)] = e]
<1>1. s \in Seq(T) /\ e \in T /\ Len(s) \in 1..Len(s) /\ Len(s) \in Nat
  BY LenProperties
<1> HIDE DEF T
<1>2. /\ t \in Seq(T) /\ Len(t) = Len(s)
      /\ \A k \in 1..(Len(s) - 1) : t[k] = s[k]
      /\ t[Len(s)] = e
  BY <1>1, ExceptSeq
<1> HIDE DEF t
<1>3. t \in Seq(Range(t))
  BY <1>2, SeqOfItsRange
<1> QED
  BY <1>2, <1>3 DEF Replaced, t

\* The top frame away.
LEMMA Popping ==
    ASSUME NEW s, s \in Seq(Range(s)), Len(s) > 0
    PROVE  /\ Front(s) \in Seq(Range(Front(s))) /\ Len(Front(s)) = Len(s) - 1
           /\ \A k \in 1..(Len(s) - 1) : Front(s)[k] = s[k]
<1>1. Len(s) \in Nat /\ \A k \in 1..Len(s) : s[k] \in Range(s)
  BY LenProperties, ElementOfSeq
<1>2. /\ Front(s) \in Seq(Range(s)) /\ Len(Front(s)) = Len(s) - 1
      /\ \A k \in 1..(Len(s) - 1) : Front(s)[k] = s[k]
  <2>1. Front(s) = SubSeq(s, 1, Len(s) - 1) /\ Len(s) - 1 \in Int /\ Len(s) - 1 >= 0
    BY <1>1 DEF Front
  <2>2. \A k \in 1..(Len(s) - 1) : s[k] \in Range(s)
    BY <1>1
  <2> HIDE DEF Front
  <2>3. /\ SubSeq(s, 1, Len(s) - 1) \in Seq(Range(s))
        /\ Len(SubSeq(s, 1, Len(s) - 1)) = IF 1 <= Len(s) - 1 THEN Len(s) - 1 - 1 + 1 ELSE 0
        /\ \A k \in 1..(Len(s) - 1 - 1 + 1) : SubSeq(s, 1, Len(s) - 1)[k] = s[1 + k - 1]
    BY <2>1, <2>2, SubSeqProperties
  <2>4. Len(s) - 1 - 1 + 1 = Len(s) - 1 /\ \A k \in 1..(Len(s) - 1) : 1 + k - 1 = k
    BY <1>1
  <2>5. Len(SubSeq(s, 1, Len(s) - 1)) = Len(s) - 1
    <3>1. CASE Len(s) = 1
      BY <2>3, <3>1
    <3>2. CASE Len(s) > 1
      BY <1>1, <2>3, <2>4, <3>2
    <3> DEFINE l == Len(s)
    <3>3. l \in Nat /\ l > 0
      BY <1>1
    <3> HIDE DEF l
    <3>4. l = 1 \/ l > 1
      BY <3>3
    <3> QED
      BY <3>1, <3>2, <3>4 DEF l
  <2> QED
    BY <2>1, <2>3, <2>4, <2>5
<1> QED
  BY <1>2, SeqOfItsRange

\* A frame that stands at an include passes it and is otherwise the same.
LEMMA PassingInclude ==
    ASSUME NEW fr, IsFrame(fr), fr.pos <= Len(Nodes(fr.file)), NEW js, NEW skip,
           Len(Nodes(fr.file)) \in Nat
    PROVE  LET next == WithInclude(fr, js, skip) IN
           IsFrame(next) /\ next.file = fr.file /\ next.pos = fr.pos + 1
BY DEF IsFrame, Fields, WithInclude

\* So does one that stands at a job.
LEMMA PassingJob ==
    ASSUME NEW fr, IsFrame(fr), fr.pos <= Len(Nodes(fr.file)), NEW job,
           Len(Nodes(fr.file)) \in Nat
    PROVE  LET next == [fr EXCEPT !.pos = @ + 1, !.inline = Append(@, job)] IN
           IsFrame(next) /\ next.file = fr.file /\ next.pos = fr.pos + 1
BY DEF IsFrame, Fields

\* The nodes of a file are a sequence.
LEMMA NodesCounted ==
    ASSUME disk \in Worlds, NEW f \in Files
    PROVE  Len(Nodes(f)) \in Nat /\ DOMAIN Nodes(f) = 1..Len(Nodes(f))
<1>1. Nodes(f) \in Seq(Range(Nodes(f)))
  BY WorldsAssumption DEF Nodes
<1> QED
  BY <1>1, LenProperties

-----------------------------------------------------------------------------
(* The steps.                                                              *)

\* The graph of the files is that of the disk, which no step writes.
LEMMA SameGraph ==
    ASSUME disk' = disk
    PROVE  /\ \A f : Includes(f)' = Includes(f) /\ Nodes(f)' = Nodes(f)
           /\ \A f : Reachable(f)' = Reachable(f)
           /\ CyclicFrom(Root)' = CyclicFrom(Root)
           /\ \A f, n : Walk(f, n)' = Walk(f, n)
           /\ \A C : Sound(C)' <=> Sound(C)
           /\ \A s, C : OpenFiles(s, C)' <=> OpenFiles(s, C)
<1>1. \A f : Includes(f)' = Includes(f) /\ Nodes(f)' = Nodes(f)
  BY DEF Includes, Nodes
<1>2. \A f, n : Walk(f, n)' = Walk(f, n)
  BY DEF Walk, Includes
<1>3. \A f : Reachable(f)' = Reachable(f)
  BY <1>2 DEF Reachable
<1>4. CyclicFrom(Root)' <=> CyclicFrom(Root)
  BY <1>3 DEF CyclicFrom
<1>5. \A fr : IsFrame(fr)' <=> IsFrame(fr)
  BY <1>1 DEF IsFrame
<1>6. \A C : Sound(C)' <=> Sound(C)
  BY <1>1, <1>3 DEF Sound
<1>7. CyclicFrom(Root)' = CyclicFrom(Root)
  BY <1>4 DEF CyclicFrom
<1>8. \A s, C : OpenFiles(s, C)' <=> OpenFiles(s, C)
  <2>1. \A fr, C : Passed(fr, C)' <=> Passed(fr, C)
    BY <1>1 DEF Passed
  <2>2. \A fr, f : AtIncludeOf(fr, f)' <=> AtIncludeOf(fr, f)
    BY <1>1 DEF AtIncludeOf
  <2> QED
    BY <1>5, <2>1, <2>2 DEF OpenFiles
<1> QED
  BY <1>1, <1>2, <1>3, <1>6, <1>7, <1>8

\* A frame at an include of a file that exists: its file includes that file.
LEMMA AtInclude ==
    ASSUME disk \in Worlds, NEW fr, IsFrame(fr), NEW f \in Files, AtIncludeOf(fr, f)
    PROVE  f \in Includes(fr.file)
<1>1. fr.pos \in DOMAIN Nodes(fr.file)
  BY NodesCounted DEF IsFrame, AtIncludeOf
<1> QED
  BY <1>1 DEF AtIncludeOf, Includes, Nodes

\* Each open file includes the next.
LEMMA OpenFilesPath ==
    ASSUME IncludesInv
    PROVE  /\ Len(stack) \in Nat /\ Len(stack) > 0 /\ stack[1].file = Root
           /\ \A k \in 1..Len(stack) : stack[k].file \in Files
           /\ \A k \in 1..(Len(stack) - 1) : stack[k + 1].file \in Includes(stack[k].file)
<1>1. OpenFiles(stack, Parsed) /\ disk \in Worlds
  BY DEF IncludesInv
<1>2. Len(stack) \in Nat
  BY <1>1, LenProperties DEF OpenFiles
<1>3. \A k \in 1..Len(stack) : IsFrame(stack[k]) /\ stack[k].file \in Files
  BY <1>1 DEF OpenFiles, IsFrame
<1>4. ASSUME NEW k \in 1..(Len(stack) - 1)
      PROVE  stack[k + 1].file \in Includes(stack[k].file)
  <2>1. k \in 1..Len(stack) /\ k + 1 \in 1..Len(stack)
    BY <1>2
  <2>2. AtIncludeOf(stack[k], stack[k + 1].file)
    BY <1>1 DEF OpenFiles
  <2> QED
    BY <1>1, <1>3, <2>1, <2>2, AtInclude
<1> QED
  BY <1>1, <1>2, <1>3, <1>4 DEF OpenFiles

\* No more files are open than there are, beside the root.
LEMMA AncestorsFew ==
    ASSUME IncludesInv
    PROVE  Len(stack) - 1 <= Cardinality(Files) /\ Cardinality(Files) \in Nat
<1>1. Len(stack) \in Nat /\ Len(stack) > 0 /\ \A k \in 1..Len(stack) : stack[k].file \in Files
  BY OpenFilesPath
<1>2. ancestors = [k \in 1..(Len(stack) - 1) |-> stack[k + 1].file] /\ IsInjective(ancestors)
  BY DEF IncludesInv, AncestryTight
<1>3. ancestors \in Injection(1..(Len(stack) - 1), Files)
  BY <1>1, <1>2 DEF Injection
<1>4. /\ IsFiniteSet(1..(Len(stack) - 1))
      /\ Cardinality(1..(Len(stack) - 1)) =
             IF 1 > Len(stack) - 1 THEN 0 ELSE Len(stack) - 1 - 1 + 1
  BY <1>1, FS_Interval, SMTT(30)
<1>5. Cardinality(1..(Len(stack) - 1)) <= Cardinality(Files)
  BY <1>3, IncludesAssumption, FS_Injection
<1>6. Cardinality(Files) \in Nat
  BY IncludesAssumption, FS_CardinalityType
<1> QED
  BY <1>1, <1>4, <1>5, <1>6

\* To include an open file is to close a cycle, which the root leads to.
LEMMA MetAgain ==
    ASSUME IncludesInv, NEW h \in Includes(Top.file), CycleAt(h)
    PROVE  CyclicFrom(Root)
<1>1. /\ Len(stack) \in Nat /\ Len(stack) > 0 /\ stack[1].file = Root
      /\ \A k \in 1..(Len(stack) - 1) : stack[k + 1].file \in Includes(stack[k].file)
  BY OpenFilesPath
<1>2. ancestors = [k \in 1..(Len(stack) - 1) |-> stack[k + 1].file]
  BY DEF IncludesInv, AncestryTight
<1>3. PICK k \in 1..(Len(stack) - 1) : stack[k + 1].file = h
  BY <1>2 DEF CycleAt
<1> DEFINE p == [i \in 1..Len(stack) |-> stack[i].file]
           l == Len(stack)
<1>4. \A i \in 1..(l - 1) : p[i + 1] \in Includes(p[i])
  BY <1>1
<1>5. p[l] = Top.file /\ p[1] = Root /\ p[k + 1] = h /\ l \in Nat /\ k + 1 \in 1..l /\ 1 \in 1..l
  BY <1>1, <1>3 DEF Top
<1> HIDE DEF p, l
<1>6. Top.file \in Walk(h, l - (k + 1))
  <2>1. l \in (k + 1)..l
    BY <1>5
  <2>2. p[l] \in Walk(p[k + 1], l - (k + 1))
    BY <1>4, <1>5, <2>1, PathWalk
  <2> QED
    BY <1>5, <2>2
<1>7. l - (k + 1) \in Nat /\ (l - (k + 1)) + 1 = l - k
  BY <1>3, <1>5
<1>8. h \in Walk(h, l - k)
  BY <1>6, <1>7, WalkOn
<1>9. h \in Walk(Root, k)
  <2>1. h \in Walk(Root, (k + 1) - 1)
    BY <1>4, <1>5, PathWalk
  <2>2. (k + 1) - 1 = k
    BY <1>3
  <2> QED
    BY <2>1, <2>2
<1>10. l - k \in 1..Cardinality(Files) /\ k \in 1..Cardinality(Files)
  <2>1. l - 1 <= Cardinality(Files) /\ Cardinality(Files) \in Nat
    BY AncestorsFew DEF l
  <2> QED
    BY <1>3, <1>5, <2>1 DEF l
<1>11. h \in Reachable(h) /\ h \in Reachable(Root)
  BY <1>8, <1>9, <1>10 DEF Reachable
<1> QED
  BY <1>11 DEF CyclicFrom

\* To include a file where the limit is reached is to take a path that is too
\* long.
LEMMA PathTooLong ==
    ASSUME IncludesInv, NEW h \in Includes(Top.file), TooDeep
    PROVE  Walk(Root, MaxDepth + 1) # {}
<1>1. /\ Len(stack) \in Nat /\ Len(stack) > 0 /\ stack[1].file = Root
      /\ \A k \in 1..(Len(stack) - 1) : stack[k + 1].file \in Includes(stack[k].file)
  BY OpenFilesPath
<1>2. Len(ancestors) = Len(stack) - 1 /\ Len(ancestors) = MaxDepth /\ MaxDepth \in Nat
  <2>1. ancestors = [k \in 1..(Len(stack) - 1) |-> stack[k + 1].file] /\ Len(ancestors) <= MaxDepth
    BY DEF IncludesInv, AncestryTight
  <2>2. Len(stack) - 1 \in Nat
    BY <1>1
  <2>3. Len(ancestors) = Len(stack) - 1
    BY <2>1, <2>2
  <2>4. Len(ancestors) >= MaxDepth /\ MaxDepth \in Nat
    BY IncludesAssumption DEF TooDeep
  <2>5. Len(ancestors) <= MaxDepth
    BY <2>1
  <2> QED
    BY <2>2, <2>3, <2>4, <2>5
<1> DEFINE p == [i \in 1..Len(stack) |-> stack[i].file]
           l == Len(stack)
<1>3. \A i \in 1..(l - 1) : p[i + 1] \in Includes(p[i])
  BY <1>1
<1>4. p[l] = Top.file /\ p[1] = Root /\ l \in Nat /\ 1 \in 1..l /\ l - 1 = MaxDepth
  BY <1>1, <1>2 DEF Top
<1> HIDE DEF p, l
<1>5. Top.file \in Walk(Root, l - 1)
  <2>1. l \in 1..l
    BY <1>1, <1>4 DEF l
  <2>2. p[l] \in Walk(p[1], l - 1)
    BY <1>3, <1>4, <2>1, PathWalk
  <2> QED
    BY <1>4, <2>2
<1>6. h \in Walk(Root, MaxDepth + 1)
  BY <1>2, <1>4, <1>5, WalkOn
<1> QED
  BY <1>6

\* The ancestry is a sequence of files.
LEMMA AncestrySeq ==
    ASSUME NEW s, NEW C, OpenFiles(s, C)
    PROVE  /\ Len(s) \in Nat /\ Len(s) > 0
           /\ Ancestry(s) \in Seq(Files) /\ Len(Ancestry(s)) = Len(s) - 1
<1>1. Len(s) \in Nat /\ Len(s) > 0
  BY LenProperties DEF OpenFiles
<1>2. \A k \in 1..(Len(s) - 1) : k + 1 \in 1..Len(s) /\ s[k + 1].file \in Files
  BY <1>1 DEF OpenFiles, IsFrame
<1>3. Len(s) - 1 \in Nat /\ Ancestry(s) \in [1..(Len(s) - 1) -> Files]
  BY <1>1, <1>2 DEF Ancestry
<1>4. Ancestry(s) \in Seq(Files)
  BY <1>3, SeqDef
<1>5. Len(Ancestry(s)) = Len(s) - 1
  BY <1>3, <1>4
<1> QED
  BY <1>1, <1>4, <1>5

\* A file that the top frame includes is opened.
LEMMA Opening ==
    ASSUME disk \in Worlds, NEW s, NEW C, OpenFiles(s, C),
           NEW fr, IsFrame(fr), fr.pos = 1, AtIncludeOf(s[Len(s)], fr.file)
    PROVE  /\ OpenFiles(Append(s, fr), C)
           /\ Ancestry(Append(s, fr)) = Append(Ancestry(s), fr.file)
<1> DEFINE t == Append(s, fr)
           n == Len(s)
<1>1. s \in Seq(Range(s)) /\ n \in Nat /\ n > 0 /\ Ancestry(s) \in Seq(Files) /\ Len(Ancestry(s)) = n - 1
  BY AncestrySeq DEF OpenFiles
<1>2. /\ t \in Seq(Range(t)) /\ Len(t) = n + 1
      /\ \A k \in 1..n : t[k] = s[k]
      /\ t[n + 1] = fr
  BY <1>1, Pushing
<1>3. /\ s[1].file = Root /\ AtIncludeOf(s[n], fr.file)
      /\ \A k \in 1..n : IsFrame(s[k]) /\ Passed(s[k], C)
      /\ \A k \in 1..(n - 1) : AtIncludeOf(s[k], s[k + 1].file)
  BY DEF OpenFiles
<1> HIDE DEF t, n
<1>4. Passed(fr, C)
  BY DEF Passed
<1>5. \A k \in 1..(n + 1) : IsFrame(t[k]) /\ Passed(t[k], C)
  <2> SUFFICES ASSUME NEW k \in 1..(n + 1)
               PROVE  IsFrame(t[k]) /\ Passed(t[k], C)
    OBVIOUS
  <2>1. k \in 1..n \/ k = n + 1
    BY <1>1
  <2> QED
    BY <1>2, <1>3, <1>4, <2>1
<1>6. \A k \in 1..n : AtIncludeOf(t[k], t[k + 1].file)
  <2> SUFFICES ASSUME NEW k \in 1..n
               PROVE  AtIncludeOf(t[k], t[k + 1].file)
    OBVIOUS
  <2>1. CASE k = n
    BY <1>2, <1>3, <2>1
  <2>2. CASE k # n
    <3>1. k \in 1..(n - 1) /\ k + 1 \in 1..n
      BY <1>1, <2>2
    <3> QED
      BY <1>2, <1>3, <3>1
  <2> QED
    BY <2>1, <2>2
<1>7. OpenFiles(t, C)
  <2>1. Len(t) > 0 /\ Len(t) - 1 = n /\ t[1].file = Root
    BY <1>1, <1>2, <1>3, SMTT(30)
  <2> QED
    BY <1>2, <1>5, <1>6, <2>1 DEF OpenFiles
<1>8. Ancestry(t) = Append(Ancestry(s), fr.file)
  <2>1. Ancestry(t) \in Seq(Files) /\ Len(Ancestry(t)) = n
    <3>1. Len(Ancestry(t)) = Len(t) - 1 /\ Ancestry(t) \in Seq(Files)
      BY <1>7, AncestrySeq
    <3> QED
      BY <1>1, <1>2, <3>1
  <2>2. fr.file \in Files
    BY DEF IsFrame
  <2> DEFINE u == Append(Ancestry(s), fr.file)
  <2>3. /\ u \in Seq(Files) /\ Len(u) = n
        /\ \A k \in 1..(n - 1) : u[k] = Ancestry(s)[k]
        /\ u[n] = fr.file
    BY <1>1, <2>2
  <2>4. \A k \in 1..(n - 1) : Ancestry(s)[k] = s[k + 1].file
    BY DEF Ancestry, n
  <2>5. \A k \in 1..n : Ancestry(t)[k] = t[k + 1].file
    BY <1>1, <1>2 DEF Ancestry
  <2> HIDE DEF u
  <2>6. ASSUME NEW k \in 1..n
        PROVE  Ancestry(t)[k] = u[k]
    <3>1. CASE k = n
      BY <1>2, <2>3, <2>5, <3>1
    <3>2. CASE k # n
      <4>1. k \in 1..(n - 1) /\ k + 1 \in 1..n
        BY <1>1, <3>2
      <4> QED
        BY <1>2, <2>3, <2>4, <2>5, <4>1, ZenonT(60)
    <3> QED
      BY <3>1, <3>2
  <2>7. Ancestry(t) = u
    BY <2>1, <2>3, <2>6, SeqEqual
  <2> QED
    BY <2>7 DEF u
<1> QED
  BY <1>7, <1>8 DEF t

\* The top frame passes a node; if that is an include, of a file that has been
\* read to its end.
LEMMA Passing ==
    ASSUME disk \in Worlds, NEW s, NEW C, OpenFiles(s, C),
           NEW fr, IsFrame(fr), fr.file = s[Len(s)].file, fr.pos = s[Len(s)].pos + 1,
           \A f : AtIncludeOf(s[Len(s)], f) => f \in C
    PROVE  OpenFiles(Replaced(s, fr), C) /\ Ancestry(Replaced(s, fr)) = Ancestry(s)
<1> DEFINE t == Replaced(s, fr)
           n == Len(s)
<1>1. s \in Seq(Range(s)) /\ n \in Nat /\ n > 0
  BY AncestrySeq DEF OpenFiles
<1>2. /\ t \in Seq(Range(t)) /\ Len(t) = n
      /\ \A k \in 1..(n - 1) : t[k] = s[k]
      /\ t[n] = fr
  BY <1>1, Replacing
<1>3. /\ s[1].file = Root
      /\ \A k \in 1..n : IsFrame(s[k]) /\ Passed(s[k], C)
      /\ \A k \in 1..(n - 1) : AtIncludeOf(s[k], s[k + 1].file)
  BY DEF OpenFiles
<1>4. fr.file = s[n].file /\ fr.pos = s[n].pos + 1 /\ \A f : AtIncludeOf(s[n], f) => f \in C
  OBVIOUS
<1> HIDE DEF t, n
<1>5. Passed(fr, C)
  <2> SUFFICES ASSUME NEW i \in 1..(fr.pos - 1), Nodes(fr.file)[i].kind = "include"
               PROVE  Nodes(fr.file)[i].source \in C
    BY DEF Passed
  <2>1. n \in 1..n /\ IsFrame(s[n]) /\ Passed(s[n], C) /\ IsFrame(fr)
    BY <1>1, <1>3
  <2>2. /\ s[n].pos \in Nat /\ s[n].pos >= 1
        /\ Len(Nodes(s[n].file)) \in Nat /\ fr.pos <= Len(Nodes(s[n].file)) + 1
    BY <1>4, <2>1, NodesCounted DEF IsFrame
  <2>3. CASE i = s[n].pos
    BY <1>4, <2>2, <2>3, SMTT(30) DEF AtIncludeOf
  <2>4. CASE i # s[n].pos
    <3>1. i \in 1..(s[n].pos - 1)
      BY <1>4, <2>2, <2>4, SMTT(30)
    <3> QED
      BY <1>4, <2>1, <3>1 DEF Passed
  <2> QED
    BY <2>3, <2>4
<1>6. \A k \in 1..n : t[k].file = s[k].file /\ IsFrame(t[k]) /\ Passed(t[k], C)
  <2> SUFFICES ASSUME NEW k \in 1..n
               PROVE  t[k].file = s[k].file /\ IsFrame(t[k]) /\ Passed(t[k], C)
    OBVIOUS
  <2>1. k \in 1..(n - 1) \/ k = n
    BY <1>1
  <2> QED
    BY <1>2, <1>3, <1>4, <1>5, <2>1
<1>7. \A k \in 1..(n - 1) : AtIncludeOf(t[k], t[k + 1].file) /\ t[k + 1].file = s[k + 1].file
  <2>1. \A k \in 1..(n - 1) : k + 1 \in 1..n
    BY <1>1
  <2> QED
    BY <1>2, <1>3, <1>6, <2>1
<1>8. t[1].file = Root
  BY <1>1, <1>3, <1>6
<1>9. OpenFiles(t, C)
  BY <1>1, <1>2, <1>6, <1>7, <1>8 DEF OpenFiles
<1>10. Ancestry(t) = Ancestry(s)
  BY <1>2, <1>7 DEF Ancestry, n
<1> QED
  BY <1>9, <1>10 DEF t

\* The top frame is left.
LEMMA Leaving ==
    ASSUME disk \in Worlds, NEW s, NEW C, OpenFiles(s, C), Len(s) > 1
    PROVE  OpenFiles(Front(s), C) /\ Ancestry(Front(s)) = Front(Ancestry(s))
<1> DEFINE t == Front(s)
           n == Len(s)
<1>1. /\ s \in Seq(Range(s)) /\ n \in Nat /\ n > 1
      /\ Ancestry(s) \in Seq(Files) /\ Len(Ancestry(s)) = n - 1
  BY AncestrySeq DEF OpenFiles
<1>2. /\ t \in Seq(Range(t)) /\ Len(t) = n - 1
      /\ \A k \in 1..(n - 1) : t[k] = s[k]
  BY <1>1, Popping
<1>3. /\ s[1].file = Root
      /\ \A k \in 1..n : IsFrame(s[k]) /\ Passed(s[k], C)
      /\ \A k \in 1..(n - 1) : AtIncludeOf(s[k], s[k + 1].file)
  BY DEF OpenFiles
<1> HIDE DEF t, n
<1>4. OpenFiles(t, C)
  <2>1. /\ \A k \in 1..(n - 1) : k \in 1..n
        /\ \A k \in 1..(n - 1 - 1) : k \in 1..(n - 1) /\ k + 1 \in 1..(n - 1)
        /\ n - 1 > 0 /\ 1 \in 1..(n - 1)
    BY <1>1
  <2> QED
    BY <1>2, <1>3, <2>1 DEF OpenFiles
<1>5. Ancestry(t) = Front(Ancestry(s))
  <2> DEFINE a == Ancestry(s)
  <2>1. a \in Seq(Range(a)) /\ Len(a) = n - 1 /\ Len(a) > 0
    BY <1>1, SeqOfItsRange
  <2>2. \A k \in 1..(n - 1) : a[k] = s[k + 1].file /\ a[k] \in Files
    BY <1>1, <1>3 DEF Ancestry, n, IsFrame
  <2> HIDE DEF a
  <2>3. /\ Front(a) \in Seq(Range(Front(a))) /\ Len(Front(a)) = n - 1 - 1
        /\ \A k \in 1..(n - 1 - 1) : Front(a)[k] = a[k]
    BY <2>1, Popping
  <2>4. Front(a) = [k \in 1..(n - 1 - 1) |-> Front(a)[k]]
    BY <2>3, LenProperties
  <2>5. \A k \in 1..(n - 1 - 1) : k \in 1..(n - 1) /\ k + 1 \in 1..(n - 1)
    BY <1>1
  <2>6. \A k \in 1..(n - 1 - 1) : Front(a)[k] = t[k + 1].file
    BY <1>2, <2>2, <2>3, <2>5
  <2>7. Ancestry(t) = [k \in 1..(n - 1 - 1) |-> t[k + 1].file]
    BY <1>2 DEF Ancestry
  <2>8. Ancestry(t) = Front(a)
    BY <2>4, <2>6, <2>7
  <2> QED
    BY <2>8 DEF a
<1> QED
  BY <1>4, <1>5 DEF t

\* What is left of an ancestry without its last file is as tight.
LEMMA FrontOfDistinct ==
    ASSUME NEW s, NEW C, OpenFiles(s, C), Len(s) > 1, NEW m \in Nat,
           NEW a, a = Ancestry(s), IsInjective(a), Len(a) <= m
    PROVE  IsInjective(Front(a)) /\ Len(Front(a)) <= m
<1>1. a \in Seq(Range(a)) /\ Len(a) \in Nat /\ Len(a) > 0
  BY AncestrySeq, SeqOfItsRange
<1>2. /\ Front(a) \in Seq(Range(Front(a))) /\ Len(Front(a)) = Len(a) - 1
      /\ \A k \in 1..(Len(a) - 1) : Front(a)[k] = a[k]
  BY <1>1, Popping
<1>3. \A i, j \in 1..Len(a) : a[i] = a[j] => i = j
  BY <1>1 DEF IsInjective
<1>4. DOMAIN Front(a) = 1..(Len(a) - 1) /\ \A k \in 1..(Len(a) - 1) : k \in 1..Len(a)
  BY <1>1, <1>2, LenProperties
<1>5. IsInjective(Front(a))
  <2> DEFINE b == Front(a)
  <2>1. DOMAIN b = 1..(Len(a) - 1) /\ \A k \in 1..(Len(a) - 1) : b[k] = a[k] /\ k \in 1..Len(a)
    BY <1>2, <1>4
  <2> HIDE DEF b
  <2>2. \A i, j \in DOMAIN b : b[i] = b[j] => i = j
    BY <1>3, <2>1, ZenonT(60)
  <2>3. IsInjective(b)
    BY <2>2 DEF IsInjective
  <2> QED
    BY <2>3 DEF b
<1> QED
  BY <1>1, <1>2, <1>5

\* More files have been read.
LEMMA MoreParsed ==
    ASSUME NEW s, NEW C, OpenFiles(s, C), NEW D, C \subseteq D
    PROVE  OpenFiles(s, D)
<1>1. \A fr : Passed(fr, C) => Passed(fr, D)
  BY DEF Passed
<1> QED
  BY <1>1 DEF OpenFiles

\* What the invariant says of the next state, with the stack, the ancestry and
\* the files read named there.
LEMMA Carried ==
    ASSUME IncludesInv, disk' = disk,
           NEW s, s = stack', NEW a, a = ancestors', NEW C, C = Parsed',
           OpenFiles(s, C), a = Ancestry(s), IsInjective(a), Len(a) <= MaxDepth, Sound(C),
           err' = "circular" => CyclicFrom(Root),
           phase' \in {"merged", "done"} => ~CyclicFrom(Root),
           err' = "depth" => Walk(Root, MaxDepth + 1) # {}
    PROVE  IncludesInv'
<1>1. disk' \in Worlds
  BY DEF IncludesInv
<1>2. OpenFiles(stack, Parsed)'
  <2>1. OpenFiles(s, C)'
    BY SameGraph
  <2> QED
    BY <2>1 DEF OpenFiles, IsFrame, Passed, AtIncludeOf, Nodes
<1>3. AncestryTight'
  BY DEF AncestryTight, Ancestry
<1>4. Sound(Parsed)'
  <2>1. Sound(C)'
    BY SameGraph
  <2> QED
    BY <2>1 DEF Sound
<1>5. CycleVerdict'
  BY SameGraph DEF CycleVerdict
<1> QED
  BY <1>1, <1>2, <1>3, <1>4, <1>5 DEF IncludesInv

\* What is left alone keeps the invariant, if the verdict is right.
LEMMA Failing ==
    ASSUME IncludesInv, NEW e, Fail(e),
           e = "circular" => CyclicFrom(Root),
           e = "depth" => Walk(Root, MaxDepth + 1) # {}
    PROVE  IncludesInv'
<1>1. disk' = disk /\ stack' = stack /\ ancestors' = ancestors /\ cache' = cache
  BY DEF Fail, stateVars
<1>2. PICK s, a, C : s = stack /\ a = ancestors /\ C = Parsed
  OBVIOUS
<1>3. OpenFiles(s, C) /\ Sound(C) /\ a = Ancestry(s) /\ IsInjective(a) /\ Len(a) <= MaxDepth
  BY <1>2 DEF IncludesInv, AncestryTight, Ancestry
<1>4. s = stack' /\ a = ancestors' /\ C = Parsed'
  BY <1>1, <1>2 DEF Parsed
<1>5. err' = e /\ phase' = "failed"
  BY DEF Fail
<1> QED
  BY <1>1, <1>3, <1>4, <1>5, Carried

\* The node of the top frame.
LEMMA AtNode ==
    ASSUME IncludesInv
    PROVE  /\ IsFrame(Top) /\ Len(Nodes(Top.file)) \in Nat
           /\ ~AtEnd => Top.pos <= Len(Nodes(Top.file))
           /\ ~AtEnd /\ Node.kind = "include" => AtIncludeOf(Top, Node.source)
           /\ \A f : AtIncludeOf(Top, f) => ~AtEnd /\ Node.kind = "include" /\ Node.source = f
<1>1. Len(stack) \in 1..Len(stack)
  BY OpenFilesPath
<1>2. IsFrame(Top) /\ disk \in Worlds
  BY <1>1 DEF IncludesInv, OpenFiles, Top
<1>3. Len(Nodes(Top.file)) \in Nat /\ Top.pos \in Nat
  BY <1>2, NodesCounted DEF IsFrame
<1> QED
  BY <1>2, <1>3 DEF AtEnd, File, Node, Nodes, AtIncludeOf

\* A job is read.
LEMMA JobStep ==
    ASSUME IncludesInv, ParseJob
    PROVE  IncludesInv'
<1> DEFINE fr == [Top EXCEPT !.pos = @ + 1, !.inline = Append(@, Node.job)]
<1>1. /\ ~AtEnd /\ Node.kind = "job" /\ stack' = Replaced(stack, fr)
      /\ disk' = disk /\ ancestors' = ancestors /\ cache' = cache /\ phase' = phase /\ err' = err
  BY DEF ParseJob, stateVars
<1>2. IsFrame(fr) /\ fr.file = Top.file /\ fr.pos = Top.pos + 1
  BY <1>1, AtNode, PassingJob
<1> HIDE DEF fr
<1>3. \A f : ~AtIncludeOf(Top, f)
  BY <1>1, AtNode
<1>4. PICK s, a, C : s = stack' /\ a = ancestors /\ C = Parsed
  OBVIOUS
<1>5. OpenFiles(s, C) /\ Ancestry(s) = Ancestry(stack)
  BY <1>1, <1>2, <1>3, <1>4, Passing DEF IncludesInv, Top
<1>6. C = Parsed'
  BY <1>1, <1>4 DEF Parsed
<1> QED
  BY <1>1, <1>4, <1>5, <1>6, Carried DEF IncludesInv, AncestryTight, Ancestry, CycleVerdict

\* An include is refused.
LEMMA RefusedStep ==
    ASSUME IncludesInv, IncludeRefused
    PROVE  IncludesInv'
<1>1. IsFrame(Top) /\ AtIncludeOf(Top, Node.source) /\ disk \in Worlds
  BY AtNode DEF IncludeRefused, Including, IncludesInv
<1>2. Node.source \in Files => Node.source \in Includes(Top.file)
  BY <1>1, AtInclude
<1>3. CASE Fail("missing")
  BY <1>3, Failing
<1>4. CASE Node.source \in Files /\ CycleAt(Node.source) /\ Fail("circular")
  BY <1>2, <1>4, MetAgain, Failing
<1>5. CASE Node.source \in Files /\ TooDeep /\ Fail("depth")
  BY <1>2, <1>5, PathTooLong, Failing
<1> QED
  BY <1>3, <1>4, <1>5 DEF IncludeRefused

\* An include of what has been read.
LEMMA CachedStep ==
    ASSUME IncludesInv, IncludeCached
    PROVE  IncludesInv'
<1> DEFINE frag == cache[Key(Node.source, Node.given)]
           fr == WithInclude(Top, frag.jobs, Node.skip)
<1>1. /\ AtIncludeOf(Top, Node.source) /\ ~AtEnd
      /\ IsFrame(Top) /\ Len(Nodes(Top.file)) \in Nat /\ Top.pos <= Len(Nodes(Top.file))
      /\ \A f : AtIncludeOf(Top, f) => Node.source = f
  BY AtNode DEF IncludeCached, Pushed, Including
<1>2. Node.source \in Parsed
  BY DEF IncludeCached, Key, Parsed
<1>3. CASE Fail("duplicateAlias")
  BY <1>3, Failing
<1>4. CASE ~Fail("duplicateAlias")
  <2>1. /\ stack' = Replaced(stack, fr) /\ disk' = disk /\ ancestors' = ancestors
        /\ cache' = cache /\ phase' = phase /\ err' = err
    BY <1>4 DEF IncludeCached
  <2>2. IsFrame(fr) /\ fr.file = Top.file /\ fr.pos = Top.pos + 1
    BY <1>1, PassingInclude
  <2> HIDE DEF fr
  <2>3. PICK s, a, C : s = stack' /\ a = ancestors /\ C = Parsed
    OBVIOUS
  <2>4. OpenFiles(s, C) /\ Ancestry(s) = Ancestry(stack)
    BY <1>1, <1>2, <2>1, <2>2, <2>3, Passing DEF IncludesInv, Top
  <2>5. C = Parsed'
    BY <2>1, <2>3 DEF Parsed
  <2> QED
    BY <2>1, <2>3, <2>4, <2>5, Carried DEF IncludesInv, AncestryTight, Ancestry, CycleVerdict
<1> QED
  BY <1>3, <1>4

\* A file is opened that no open file is.
LEMMA OpensStep ==
    ASSUME IncludesInv, IncludeOpens
    PROVE  IncludesInv'
<1> DEFINE h == Node.source
           fr == Frame(h, Node.given, Node.as)
<1>1. /\ h \in Files /\ ~CycleAt(h) /\ ~TooDeep /\ AtIncludeOf(Top, h)
      /\ ancestors' = Append(ancestors, h) /\ stack' = Append(stack, fr)
      /\ disk' = disk /\ cache' = cache
      /\ (phase' = "failed" /\ err' = "rejected") \/ (phase' = phase /\ err' = err)
  BY AtNode DEF IncludeOpens, Pushed, Including
<1>2. IsFrame(fr) /\ fr.file = h /\ fr.pos = 1
  BY <1>1, NodesCounted DEF Frame, IsFrame, Fields, IncludesInv
<1> HIDE DEF fr, h
<1>3. PICK s, a, C : s = stack' /\ a = ancestors' /\ C = Parsed
  OBVIOUS
<1>4. /\ disk \in Worlds /\ OpenFiles(stack, C) /\ Sound(C)
      /\ ancestors = Ancestry(stack) /\ IsInjective(ancestors) /\ Len(ancestors) <= MaxDepth
  BY <1>3 DEF IncludesInv, AncestryTight, Ancestry
<1>5. OpenFiles(s, C) /\ Ancestry(s) = Append(Ancestry(stack), h)
  BY <1>1, <1>2, <1>3, <1>4, Opening DEF Top
<1>6. ancestors \in Seq(Files) /\ Len(ancestors) \in Nat
  BY <1>4, AncestrySeq
<1>7. /\ a \in Seq(Files) /\ Len(a) = Len(ancestors) + 1
      /\ \A k \in 1..Len(ancestors) : a[k] = ancestors[k]
      /\ a[Len(ancestors) + 1] = h
  BY <1>1, <1>3, <1>6
<1>8. Len(a) <= MaxDepth
  BY <1>1, <1>6, <1>7, IncludesAssumption DEF TooDeep
<1>9. IsInjective(a)
  <2>1. \A k \in 1..Len(ancestors) : ancestors[k] # h
    BY <1>1, <1>6 DEF CycleAt
  <2>2. \A i, j \in 1..Len(ancestors) : ancestors[i] = ancestors[j] => i = j
    BY <1>4, <1>6 DEF IsInjective
  <2>3. \A i \in DOMAIN a : i \in 1..Len(ancestors) \/ i = Len(ancestors) + 1
    BY <1>6, <1>7
  <2>4. \A i, j \in DOMAIN a : a[i] = a[j] => i = j
    BY <1>7, <2>1, <2>2, <2>3
  <2> QED
    BY <2>4 DEF IsInjective
<1>10. C = Parsed'
  BY <1>1, <1>3 DEF Parsed
<1> QED
  BY <1>1, <1>3, <1>4, <1>5, <1>8, <1>9, <1>10, Carried DEF IncludesInv, CycleVerdict

\* An error returns through a file.
LEMMA UnwindStep ==
    ASSUME IncludesInv, Unwind
    PROVE  IncludesInv'
<1>1. /\ Len(stack) > 1 /\ stack' = Front(stack) /\ ancestors' = Front(ancestors)
      /\ disk' = disk /\ cache' = cache /\ phase' = phase /\ err' = err
  BY DEF Unwind
<1>2. PICK s, a, C : s = stack' /\ a = ancestors' /\ C = Parsed
  OBVIOUS
<1>3. /\ disk \in Worlds /\ OpenFiles(stack, C) /\ Sound(C)
      /\ ancestors = Ancestry(stack) /\ IsInjective(ancestors) /\ Len(ancestors) <= MaxDepth
  BY <1>2 DEF IncludesInv, AncestryTight, Ancestry
<1>4. OpenFiles(s, C) /\ a = Ancestry(s)
  BY <1>1, <1>2, <1>3, Leaving
<1>5. IsInjective(a) /\ Len(a) <= MaxDepth
  BY <1>1, <1>2, <1>3, IncludesAssumption, FrontOfDistinct
<1>6. C = Parsed'
  BY <1>1, <1>2 DEF Parsed
<1> QED
  BY <1>1, <1>2, <1>3, <1>4, <1>5, <1>6, Carried DEF IncludesInv, CycleVerdict

\* All that a file includes has been read when its end is.
LEMMA AllPassed ==
    ASSUME IncludesInv, AtEnd
    PROVE  Top.file \in Files /\ Includes(Top.file) \subseteq Parsed
<1>1. Len(stack) \in 1..Len(stack) /\ disk \in Worlds
  BY OpenFilesPath DEF IncludesInv
<1>2. IsFrame(Top) /\ Passed(Top, Parsed)
  BY <1>1 DEF IncludesInv, OpenFiles, Top
<1>3. Top.file \in Files /\ Top.pos \in 1..(Len(Nodes(Top.file)) + 1)
  BY <1>2 DEF IsFrame
<1>4. Len(Nodes(Top.file)) \in Nat /\ DOMAIN Nodes(Top.file) = 1..Len(Nodes(Top.file))
  BY <1>1, <1>3, NodesCounted
<1>5. Top.pos > Len(Nodes(Top.file))
  BY DEF AtEnd, File, Nodes
<1>6. DOMAIN Nodes(Top.file) = 1..(Top.pos - 1)
  BY <1>3, <1>4, <1>5
<1>7. \A i \in DOMAIN Nodes(Top.file) :
        Nodes(Top.file)[i].kind = "include" => Nodes(Top.file)[i].source \in Parsed
  BY <1>2, <1>6 DEF Passed
<1> QED
  BY <1>3, <1>7 DEF Includes, Nodes

\* The end of an included file: it joins those that have been read.
LEMMA CloseStep ==
    ASSUME IncludesInv, CloseInclude
    PROVE  IncludesInv'
<1> DEFINE f == Top.file
           D == Parsed \cup {f}
           below == Front(stack)
           parent == Last(below)
<1>1. /\ AtEnd /\ Len(stack) > 1 /\ disk' = disk /\ phase = "parse"
      /\ DOMAIN cache' = DOMAIN cache \cup {<<f, Top.given>>}
  BY DEF CloseInclude, Closing, Key, Parsing
<1>2. /\ disk \in Worlds /\ OpenFiles(stack, Parsed) /\ Sound(Parsed)
      /\ ancestors = Ancestry(stack) /\ IsInjective(ancestors) /\ Len(ancestors) <= MaxDepth
  BY DEF IncludesInv, AncestryTight, Ancestry
<1>3. Parsed' = D
  <2> DEFINE key == <<f, Top.given>>
  <2>1. key[1] = f
    OBVIOUS
  <2> HIDE DEF key, f
  <2>2. DOMAIN cache' = DOMAIN cache \cup {key}
    BY <1>1 DEF key, f
  <2>3. \A g : g \in Parsed' <=> \E k \in DOMAIN cache \cup {key} : g = k[1]
    BY <2>2 DEF Parsed
  <2>4. \A g : g \in Parsed <=> \E k \in DOMAIN cache : g = k[1]
    BY DEF Parsed
  <2> QED
    BY <2>1, <2>3, <2>4
<1>4. f \in Files /\ Includes(f) \subseteq Parsed
  BY <1>1, AllPassed
<1>5. Sound(D)
  BY <1>2, <1>4, SoundGrows
<1>6. OpenFiles(stack, D)
  BY <1>2, MoreParsed
<1>7. PICK s, a, C : s = stack' /\ a = ancestors' /\ C = D
  OBVIOUS
<1>8. CASE stack' = stack /\ ancestors' = ancestors /\ phase' = "failed" /\ err' = "duplicateAlias"
  BY <1>1, <1>2, <1>3, <1>5, <1>6, <1>7, <1>8, Carried
<1>9. ASSUME NEW js, NEW skip,
             stack' = Replaced(below, WithInclude(parent, js, skip)),
             ancestors' = Front(ancestors), phase' = phase, err' = err
      PROVE  IncludesInv'
  <2> DEFINE fr == WithInclude(parent, js, skip)
             n == Len(stack)
  <2>1. n \in Nat /\ n > 1 /\ Len(below) = n - 1 /\ below[n - 1] = stack[n - 1]
    BY <1>1, <1>2, Popping DEF OpenFiles
  <2>2. parent = stack[n - 1] /\ parent = below[Len(below)]
    BY <2>1 DEF Last
  <2>3. IsFrame(parent) /\ AtIncludeOf(parent, f)
    <3>1. n - 1 \in 1..(n - 1) /\ n - 1 \in 1..n /\ (n - 1) + 1 = n
      BY <2>1
    <3> QED
      BY <1>2, <2>2, <3>1 DEF OpenFiles, Top
  <2>4. OpenFiles(below, D) /\ Ancestry(below) = Front(ancestors)
    BY <1>1, <1>2, <1>6, Leaving
  <2> HIDE DEF below, parent
  <2>5. Len(Nodes(parent.file)) \in Nat
    BY <1>2, <2>3, NodesCounted DEF IsFrame
  <2>6. IsFrame(fr) /\ fr.file = parent.file /\ fr.pos = parent.pos + 1
    BY <2>3, <2>5, PassingInclude DEF AtIncludeOf
  <2>7. \A g : AtIncludeOf(parent, g) => g \in D
    BY <2>3 DEF AtIncludeOf
  <2> HIDE DEF fr, D
  <2>8. OpenFiles(Replaced(below, fr), D) /\ Ancestry(Replaced(below, fr)) = Ancestry(below)
    BY <1>2, <2>2, <2>4, <2>6, <2>7, Passing
  <2>9. OpenFiles(s, C) /\ a = Ancestry(s)
    BY <1>7, <1>9, <2>4, <2>8 DEF fr
  <2>10. IsInjective(a) /\ Len(a) <= MaxDepth
    BY <1>1, <1>2, <1>7, <1>9, IncludesAssumption, FrontOfDistinct
  <2> QED
    BY <1>1, <1>3, <1>5, <1>7, <1>9, <2>9, <2>10, Carried DEF IncludesInv, CycleVerdict
<1> QED
  BY <1>8, <1>9 DEF CloseInclude

\* The end of the root: all it includes has been read.
LEMMA FinishStep ==
    ASSUME IncludesInv, FinishRoot
    PROVE  IncludesInv'
<1>1. CASE Fail("conflict")
  BY <1>1, Failing
<1>2. CASE ~Fail("conflict")
  <2>1. /\ AtEnd /\ Len(stack) = 1 /\ phase = "parse" /\ phase' = "merged"
        /\ disk' = disk /\ stack' = stack /\ ancestors' = ancestors /\ cache' = cache /\ err' = err
    BY <1>2 DEF FinishRoot, Parsing, stateVars
  <2>2. Top.file = Root
    BY <2>1, OpenFilesPath DEF Top
  <2>3. ~CyclicFrom(Root)
    BY <2>1, <2>2, AllPassed, SoundRoot DEF IncludesInv
  <2>4. PICK s, a, C : s = stack /\ a = ancestors /\ C = Parsed
    OBVIOUS
  <2>5. C = Parsed'
    BY <2>1, <2>4 DEF Parsed
  <2> QED
    BY <2>1, <2>3, <2>4, <2>5, Carried DEF IncludesInv, AncestryTight, Ancestry, CycleVerdict
<1> QED
  BY <1>1, <1>2

\* The aliases are expanded.
LEMMA ExpandStep ==
    ASSUME IncludesInv, ExpandAliases
    PROVE  IncludesInv'
<1>1. CASE Fail("aliasCollision")
  BY <1>1, Failing
<1>2. CASE ~Fail("aliasCollision")
  <2>1. /\ phase = "merged" /\ phase' = "done"
        /\ disk' = disk /\ stack' = stack /\ ancestors' = ancestors /\ cache' = cache /\ err' = err
    BY <1>2 DEF ExpandAliases, stateVars
  <2>2. PICK s, a, C : s = stack /\ a = ancestors /\ C = Parsed
    OBVIOUS
  <2>3. C = Parsed'
    BY <2>1, <2>2 DEF Parsed
  <2> QED
    BY <2>1, <2>2, <2>3, Carried DEF IncludesInv, AncestryTight, Ancestry, CycleVerdict
<1> QED
  BY <1>1, <1>2

\* At first the root is open and nothing has been read.
LEMMA InvInit ==
    Init => IncludesInv
<1> SUFFICES ASSUME Init
             PROVE  IncludesInv
  OBVIOUS
<1> DEFINE fr == Frame(Root, NoParam, "")
<1>1. disk \in Worlds /\ stack = <<fr>>
  BY DEF Init
<1>2. IsFrame(fr) /\ fr.file = Root /\ fr.pos = 1
  <2>1. DOMAIN fr = Fields /\ fr.file = Root /\ fr.pos = 1
    BY DEF Frame, Fields
  <2>2. Root \in Files /\ Len(Nodes(Root)) \in Nat
    BY <1>1, IncludesAssumption, NodesCounted
  <2> HIDE DEF fr
  <2> QED
    BY <2>1, <2>2 DEF IsFrame
<1> HIDE DEF fr
<1>3. OpenFiles(stack, Parsed)
  <2>1. stack \in Seq({fr}) /\ Len(stack) = 1 /\ stack[1] = fr
    BY <1>1
  <2>2. stack \in Seq(Range(stack))
    BY <2>1, SeqOfItsRange
  <2>3. Passed(fr, Parsed)
    BY <1>2 DEF Passed
  <2> QED
    BY <1>2, <2>1, <2>2, <2>3 DEF OpenFiles
<1>4. AncestryTight
  <2>1. ancestors = <<>> /\ DOMAIN ancestors = {} /\ Len(ancestors) = 0 /\ Len(stack) = 1
    <3>1. ancestors = <<>>
      BY DEF Init
    <3>2. Len(stack) = 1
      BY <1>1
    <3> QED
      BY <3>1, <3>2
  <2>2. ancestors = [k \in 1..(Len(stack) - 1) |-> stack[k + 1].file]
    BY <2>1
  <2> QED
    BY <2>1, <2>2, IncludesAssumption DEF AncestryTight, IsInjective
<1>5. Sound(Parsed)
  <2>1. Parsed = {}
    <3>1. cache = <<>>
      BY DEF Init
    <3>2. DOMAIN cache = {}
      BY <3>1
    <3> QED
      BY <3>2 DEF Parsed
  <2> QED
    BY <2>1 DEF Sound
<1>6. CycleVerdict
  BY DEF Init, CycleVerdict
<1> QED
  BY <1>1, <1>3, <1>4, <1>5, <1>6 DEF IncludesInv

\* In every behaviour.
LEMMA InvHolds ==
    Spec => []IncludesInv
<1>1. ASSUME IncludesInv, [Next]_vars
      PROVE  IncludesInv'
  <2>1. CASE ParseJob
    BY <1>1, <2>1, JobStep
  <2>2. CASE ParseRejects
    BY <1>1, <2>2, Failing DEF ParseRejects
  <2>3. CASE IncludeRefused
    BY <1>1, <2>3, RefusedStep
  <2>4. CASE IncludeCached
    BY <1>1, <2>4, CachedStep
  <2>5. CASE IncludeOpens
    BY <1>1, <2>5, OpensStep
  <2>6. CASE CloseRejects
    BY <1>1, <2>6, Failing DEF CloseRejects
  <2>7. CASE CloseInclude
    BY <1>1, <2>7, CloseStep
  <2>8. CASE Unwind
    BY <1>1, <2>8, UnwindStep
  <2>9. CASE FinishRoot
    BY <1>1, <2>9, FinishStep
  <2>10. CASE ExpandAliases
    BY <1>1, <2>10, ExpandStep
  <2>11. CASE UNCHANGED vars
    <3>1. /\ disk' = disk /\ stack' = stack /\ ancestors' = ancestors /\ cache' = cache
          /\ phase' = phase /\ err' = err
      BY <2>11 DEF vars, stateVars
    <3>2. PICK s, a, C : s = stack /\ a = ancestors /\ C = Parsed
      OBVIOUS
    <3>3. C = Parsed'
      BY <3>1, <3>2 DEF Parsed
    <3> QED
      BY <1>1, <3>1, <3>2, <3>3, Carried DEF IncludesInv, AncestryTight, Ancestry, CycleVerdict
  <2> QED
    BY <1>1, <2>1, <2>2, <2>3, <2>4, <2>5, <2>6, <2>7, <2>8, <2>9, <2>10, <2>11 DEF Next
<1> QED
  BY <1>1, InvInit, PTL DEF Spec

-----------------------------------------------------------------------------
\* The ancestry is that of the files open at the moment, each once and never
\* more than the limit, whatever has been met, refused or unwound (include.go
\* push, pop, resolveInclude).
THEOREM AncestryAlwaysTight ==
    Spec => []AncestryTight
<1>1. IncludesInv => AncestryTight
  BY DEF IncludesInv
<1> QED
  BY <1>1, InvHolds, PTL

\* A file that includes itself by any path is refused and nothing else is, for
\* any graph of files (include.go push, parser.go ParseFile).
THEOREM CyclesAndOnlyCycles ==
    Spec => []CycleVerdict
<1>1. IncludesInv => CycleVerdict
  BY DEF IncludesInv
<1> QED
  BY <1>1, InvHolds, PTL

-----------------------------------------------------------------------------
(* What the cache and the open files hold.                                 *)

IsList(s) == s \in Seq(Range(s))

IsJob(j) == DOMAIN j = {"name", "deps", "val"}

IsJobs(js) == IsList(js) /\ \A k \in DOMAIN js : IsJob(js[k])

IsGroups(gs) == IsList(gs) /\ \A k \in DOMAIN gs : IsJobs(gs[k].jobs)

\* The jobs the cache holds for each file and parameter.
Held(c) == [key \in DOMAIN c |-> c[key].jobs]

\* A node that has been read: a job, or an include whose jobs are in the cache.
IsRead(n, c) ==
    \/ n.kind = "job" /\ IsJob(n.job)
    \/ n.kind = "include" /\ <<n.source, n.given>> \in DOMAIN c

AllRead(f, c) == \A i \in DOMAIN Nodes(f) : IsRead(Nodes(f)[i], c)

GroupsOf(f, n, c) == [i \in 1..n |-> GroupOf(Nodes(f)[i], Held(c))]

\* The frame has collected what the nodes it has passed stand for.
Collected(fr, c) ==
    /\ IsGroups(fr.groups) /\ IsJobs(fr.inline)
    /\ \A i \in 1..(fr.pos - 1) : IsRead(Nodes(fr.file)[i], c)
    /\ Offered(Flushed(fr)) = Offered(GroupsOf(fr.file, fr.pos - 1, c))

\* Every open file was opened with what its include gives.
Given(s) ==
    /\ s[1].given = NoParam
    /\ \A k \in 1..(Len(s) - 1) : s[k + 1].given = Nodes(s[k].file)[s[k].pos].given

\* What the cache holds for a file follows from what it holds for its includes.
CacheReads(c) ==
    \A key \in DOMAIN c :
        /\ key = <<key[1], key[2]>> /\ key[1] \in Files /\ key[2] \in Givens
        /\ AllRead(key[1], c)
        /\ IsJobs(c[key].jobs)
        /\ c[key].jobs = ReadFrom(Held(c), key[1], key[2])

\* The files that have been read can be numbered, each after what it includes.
Ranks(h, C) ==
    \A f \in C : h[f] \in 1..Cardinality(C) /\ \A g \in Includes(f) : h[g] < h[f]

Ranked(C) == \E h : Ranks(h, C)

StackReads(s, c) == Given(s) /\ \A k \in 1..Len(s) : Collected(s[k], c)

CacheInv ==
    /\ StackReads(stack, cache) /\ CacheReads(cache) /\ Ranked(Parsed)
    /\ phase = "merged" => jobs = Reference(Root, NoParam)
    /\ phase \in {"merged", "done"} => IsJobs(jobs)

-----------------------------------------------------------------------------
(* Lists.                                                                  *)

\* What a list is made of.
LEMMA ListFacts ==
    ASSUME NEW s, IsList(s)
    PROVE  Len(s) \in Nat /\ DOMAIN s = 1..Len(s) /\ s = [i \in 1..Len(s) |-> s[i]]
BY LenProperties DEF IsList

\* How to make one.
LEMMA MakeList ==
    ASSUME NEW n \in Nat, NEW s, s = [i \in 1..n |-> s[i]]
    PROVE  IsList(s) /\ Len(s) = n
<1>1. s \in [1..n -> Range(s)]
  BY DEF Range
<1>2. s \in Seq(Range(s))
  BY <1>1, SeqDef
<1> QED
  BY <1>1, <1>2, LenProperties DEF IsList

\* Two lists with the same members at the same places are one.
LEMMA SameList ==
    ASSUME NEW s, NEW t, IsList(s), IsList(t), Len(s) = Len(t),
           \A i \in 1..Len(s) : s[i] = t[i]
    PROVE  s = t
BY ListFacts

\* The empty list and the lists of one member.
LEMMA ShortLists ==
    IsList(<<>>) /\ \A e : IsList(<<e>>)
<1>1. IsList(<<>>)
  <2>1. <<>> \in Seq({})
    OBVIOUS
  <2> QED
    BY <2>1, SeqOfItsRange DEF IsList
<1>2. ASSUME NEW e
      PROVE  IsList(<<e>>)
  <2>1. <<e>> \in Seq({e})
    OBVIOUS
  <2> QED
    BY <2>1, SeqOfItsRange DEF IsList
<1> QED
  BY <1>1, <1>2

\* Two lists joined.
LEMMA JoiningLists ==
    ASSUME NEW s, NEW t, IsList(s), IsList(t)
    PROVE  /\ IsList(s \o t) /\ Len(s \o t) = Len(s) + Len(t)
           /\ \A i \in 1..(Len(s) + Len(t)) :
                 (s \o t)[i] = IF i <= Len(s) THEN s[i] ELSE t[i - Len(s)]
<1> DEFINE T == Range(s) \cup Range(t)
           u == s \o t
<1>1. s \in Seq(T) /\ t \in Seq(T)
  BY DEF IsList
<1> HIDE DEF T
<1>2. /\ u \in Seq(T) /\ Len(u) = Len(s) + Len(t)
      /\ \A i \in 1..(Len(s) + Len(t)) : u[i] = IF i <= Len(s) THEN s[i] ELSE t[i - Len(s)]
  BY <1>1, ConcatProperties
<1>3. IsList(u)
  <2> HIDE DEF u
  <2> QED
    BY <1>2, SeqOfItsRange DEF IsList
<1> QED
  BY <1>2, <1>3 DEF u

\* Joining is associative.
LEMMA JoiningThree ==
    ASSUME NEW s, NEW t, NEW u, IsList(s), IsList(t), IsList(u)
    PROVE  (s \o t) \o u = s \o (t \o u)
<1> DEFINE T == Range(s) \cup Range(t) \cup Range(u)
<1>1. s \in Seq(T) /\ t \in Seq(T) /\ u \in Seq(T)
  BY DEF IsList
<1> HIDE DEF T
<1> QED
  BY <1>1, ConcatAssociative, SMTT(30)

\* t is the list s and the member e behind it.
Lengthens(t, s, e) ==
    /\ IsList(t) /\ Len(t) = Len(s) + 1
    /\ \A i \in 1..Len(s) : t[i] = s[i]
    /\ t[Len(s) + 1] = e
    /\ t = s \o <<e>>

\* A list and one member more.
LEMMA Lengthened ==
    ASSUME NEW s, IsList(s), NEW e
    PROVE  Lengthens(Append(s, e), s, e)
<1>1. /\ IsList(Append(s, e)) /\ Len(Append(s, e)) = Len(s) + 1
      /\ \A i \in 1..Len(s) : Append(s, e)[i] = s[i]
      /\ Append(s, e)[Len(s) + 1] = e
  BY Pushing DEF IsList
<1> DEFINE T == Range(s) \cup {e}
<1>2. s \in Seq(T) /\ e \in T
  BY DEF IsList
<1> HIDE DEF T
<1>3. Append(s, e) = s \o <<e>>
  BY <1>2, AppendIsConcat
<1> QED
  BY <1>1, <1>3 DEF Lengthens

\* A list whose last member is known by the others.
LEMMA LastApart ==
    ASSUME NEW n \in Nat, NEW s, IsList(s), Len(s) = n + 1
    PROVE  LET t == [i \in 1..n |-> s[i]] IN
           IsList(t) /\ Len(t) = n /\ s = Append(t, s[n + 1])
<1> DEFINE t == [i \in 1..n |-> s[i]]
<1>1. IsList(t) /\ Len(t) = n
  <2>1. t = [i \in 1..n |-> t[i]]
    OBVIOUS
  <2> HIDE DEF t
  <2> QED
    BY <2>1, MakeList
<1>2. \A i \in 1..n : t[i] = s[i]
  OBVIOUS
<1> HIDE DEF t
<1> DEFINE e == s[n + 1]
           u == Append(t, e)
<1>3. IsList(u) /\ Len(u) = n + 1 /\ (\A i \in 1..n : u[i] = t[i]) /\ u[n + 1] = e
  <2> HIDE DEF e
  <2>1. Lengthens(u, t, e)
    BY <1>1, Lengthened
  <2> HIDE DEF u
  <2> QED
    BY <1>1, <2>1 DEF Lengthens
<1>4. \A i \in 1..(n + 1) : i \in 1..n \/ i = n + 1
  OBVIOUS
<1>5. s = u
  <2> HIDE DEF u
  <2> QED
    BY <1>2, <1>3, <1>4, SameList
<1> QED
  BY <1>1, <1>5 DEF t

\* What a finite set properly contains has fewer members.
LEMMA SmallerSet ==
    ASSUME NEW B, IsFiniteSet(B), NEW A, A \subseteq B, A # B
    PROVE  Cardinality(A) < Cardinality(B)
<1>1. IsFiniteSet(A) /\ Cardinality(A) <= Cardinality(B) /\ Cardinality(A) # Cardinality(B)
  BY FS_Subset
<1>2. Cardinality(A) \in Nat /\ Cardinality(B) \in Nat
  BY <1>1, FS_CardinalityType
<1> QED
  BY <1>1, <1>2

-----------------------------------------------------------------------------
(* Flattening a list of lists.                                             *)

IsListOfLists(seqs) == IsList(seqs) /\ \A k \in DOMAIN seqs : IsList(seqs[k])

\* The lists joined so far, one more at each place.
Joined(f, seqs, n) ==
    f = [i \in 1..n |-> IF i = 1 THEN seqs[i] ELSE f[i - 1] \o seqs[i]]

\* There are such.
LEMMA JoinedExists ==
    ASSUME NEW seqs, NEW n \in Nat
    PROVE  \E f : Joined(f, seqs, n)
<1> DEFINE S == {m \in Nat : \E f : Joined(f, seqs, m)}
<1>1. 0 \in S
  <2> DEFINE zero == [k \in 1..0 |-> {}]
  <2>1. Joined(zero, seqs, 0)
    BY DEF Joined
  <2> QED
    BY <2>1
<1>2. ASSUME NEW m \in Nat, m \in S
      PROVE  m + 1 \in S
  <2>1. PICK f : Joined(f, seqs, m)
    BY <1>2
  <2> DEFINE next == IF m + 1 = 1 THEN seqs[m + 1] ELSE f[m] \o seqs[m + 1]
             more == [k \in 1..(m + 1) |-> IF k = m + 1 THEN next ELSE f[k]]
  <2>2. /\ \A k \in 1..m : f[k] = IF k = 1 THEN seqs[k] ELSE f[k - 1] \o seqs[k]
        /\ \A k \in 1..m : more[k] = f[k]
        /\ more[m + 1] = next /\ more = [k \in 1..(m + 1) |-> more[k]]
    <3>1. \A k \in 1..m : f[k] = IF k = 1 THEN seqs[k] ELSE f[k - 1] \o seqs[k]
      BY <2>1 DEF Joined
    <3> HIDE DEF next
    <3> QED
      BY <3>1
  <2> HIDE DEF more
  <2>3. \A k \in 1..(m + 1) : more[k] = IF k = 1 THEN seqs[k] ELSE more[k - 1] \o seqs[k]
    <3> SUFFICES ASSUME NEW k \in 1..(m + 1)
                 PROVE  more[k] = IF k = 1 THEN seqs[k] ELSE more[k - 1] \o seqs[k]
      OBVIOUS
    <3>1. k # 1 => k - 1 \in 1..m /\ (k = m + 1 => k - 1 = m)
      OBVIOUS
    <3>2. CASE k = m + 1
      BY <2>2, <3>1, <3>2
    <3>3. CASE k # m + 1
      <4>1. k \in 1..m
        BY <3>3
      <4> QED
        BY <2>2, <3>1, <4>1
    <3> QED
      BY <3>2, <3>3
  <2>4. Joined(more, seqs, m + 1)
    BY <2>2, <2>3 DEF Joined
  <2> QED
    BY <2>4
<1> HIDE DEF S
<1>3. Nat \subseteq S
  BY <1>1, <1>2, Induction
<1> QED
  BY <1>3 DEF S

\* They agree where the lists do.
LEMMA JoinedAgree ==
    ASSUME NEW s, NEW t, NEW n \in Nat, NEW m \in Nat, n <= m, NEW a, NEW b,
           Joined(a, s, n), Joined(b, t, m), \A i \in 1..n : s[i] = t[i]
    PROVE  \A i \in 1..n : a[i] = b[i]
<1> DEFINE S == {k \in Nat : k + 1 \in 1..n => a[k + 1] = b[k + 1]}
<1>1. \A i \in 1..n : a[i] = IF i = 1 THEN s[i] ELSE a[i - 1] \o s[i]
  BY DEF Joined
<1>2. \A i \in 1..m : b[i] = IF i = 1 THEN t[i] ELSE b[i - 1] \o t[i]
  BY DEF Joined
<1>3. 0 \in S
  BY <1>1, <1>2
<1>4. ASSUME NEW k \in Nat, k \in S
      PROVE  k + 1 \in S
  <2> SUFFICES ASSUME (k + 1) + 1 \in 1..n
               PROVE  a[(k + 1) + 1] = b[(k + 1) + 1]
    OBVIOUS
  <2> DEFINE i == (k + 1) + 1
  <2>1. i \in 1..n /\ i \in 1..m /\ i # 1 /\ i - 1 = k + 1 /\ k + 1 \in 1..n
    OBVIOUS
  <2>2. a[k + 1] = b[k + 1]
    BY <1>4, <2>1
  <2> HIDE DEF i, S
  <2>3. a[i] = a[i - 1] \o s[i]
    BY <1>1, <2>1
  <2>4. b[i] = b[i - 1] \o t[i]
    BY <1>2, <2>1
  <2>5. s[i] = t[i]
    BY <2>1
  <2> QED
    BY <2>1, <2>2, <2>3, <2>4, <2>5 DEF i
<1> HIDE DEF S
<1>5. Nat \subseteq S
  BY <1>3, <1>4, Induction
<1>6. ASSUME NEW i \in 1..n
      PROVE  a[i] = b[i]
  <2>1. i - 1 \in S /\ (i - 1) + 1 = i
    BY <1>5
  <2> QED
    BY <2>1 DEF S
<1> QED
  BY <1>6

\* One list more is joined behind the others.
LEMMA FlattenMore ==
    ASSUME NEW seqs, IsList(seqs), NEW s, IsList(s)
    PROVE  FlattenSeq(Append(seqs, s)) = FlattenSeq(seqs) \o s
<1> DEFINE n == Len(seqs)
           more == Append(seqs, s)
           f == CHOOSE x : Joined(x, seqs, n)
           g == CHOOSE x : Joined(x, more, n + 1)
<1>1. n \in Nat /\ DOMAIN seqs = 1..n
  BY ListFacts
<1>2. Len(more) = n + 1 /\ (\A i \in 1..n : seqs[i] = more[i]) /\ more[n + 1] = s
  <2>1. Lengthens(more, seqs, s)
    BY Lengthened
  <2> HIDE DEF more
  <2> QED
    BY <2>1 DEF Lengthens
<1>3. Joined(f, seqs, n) /\ Joined(g, more, n + 1)
  <2>1. n + 1 \in Nat
    BY <1>1
  <2> HIDE DEF n, more
  <2> QED
    BY <1>1, <2>1, JoinedExists
<1>4. n = 0 => FlattenSeq(seqs) = seqs
  BY DEF FlattenSeq
<1>5. n # 0 => FlattenSeq(seqs) = f[n]
  BY DEF FlattenSeq, Joined
<1>6. FlattenSeq(more) = g[n + 1]
  <2> HIDE DEF more
  <2>1. Len(more) # 0
    BY <1>1, <1>2
  <2>2. FlattenSeq(more) = (CHOOSE x : Joined(x, more, Len(more)))[Len(more)]
    BY <2>1 DEF FlattenSeq, Joined
  <2> QED
    BY <1>2, <2>2
<1> HIDE DEF f, g, more, n
<1>7. g[n + 1] = IF n = 0 THEN more[n + 1] ELSE g[n] \o more[n + 1]
  <2>1. \A i \in 1..(n + 1) : g[i] = IF i = 1 THEN more[i] ELSE g[i - 1] \o more[i]
    BY <1>3 DEF Joined
  <2> DEFINE k == n + 1
  <2>2. k \in 1..(n + 1)
    BY <1>1
  <2> HIDE DEF k
  <2>3. g[k] = IF k = 1 THEN more[k] ELSE g[k - 1] \o more[k]
    BY <2>1, <2>2
  <2>4. k - 1 = n /\ (k = 1 <=> n = 0)
    BY <1>1 DEF k
  <2>5. g[k] = IF n = 0 THEN more[k] ELSE g[n] \o more[k]
    BY <2>3, <2>4
  <2> QED
    BY <2>5 DEF k
<1>8. CASE n = 0
  <2>1. seqs = <<>>
    BY <1>8, EmptySeq DEF IsList, n
  <2>2. <<>> \o s = s
    BY ConcatEmptySeq DEF IsList
  <2>3. FlattenSeq(seqs) \o s = s
    BY <1>4, <1>8, <2>1, <2>2
  <2>4. FlattenSeq(more) = s
    BY <1>2, <1>6, <1>7, <1>8
  <2> QED
    BY <2>3, <2>4 DEF more
<1>9. CASE n # 0
  <2>1. n \in 1..n /\ n <= n + 1 /\ n + 1 \in Nat /\ n + 1 # 1 /\ n + 1 - 1 = n
    BY <1>1, <1>9
  <2>2. f[n] = g[n]
    BY <1>1, <1>2, <1>3, <2>1, JoinedAgree
  <2> QED
    BY <1>2, <1>5, <1>6, <1>7, <1>9, <2>1, <2>2 DEF more
<1> QED
  BY <1>8, <1>9

\* The list of all the members of the lists.
LEMMA FlattenedList ==
    ASSUME NEW seqs, IsListOfLists(seqs)
    PROVE  /\ IsList(FlattenSeq(seqs))
           /\ \A i \in DOMAIN FlattenSeq(seqs) :
                 \E k \in DOMAIN seqs : \E l \in DOMAIN seqs[k] : FlattenSeq(seqs)[i] = seqs[k][l]
<1> DEFINE Flat(s, t) ==
              IsList(t) /\ \A i \in DOMAIN t : \E k \in DOMAIN s : \E l \in DOMAIN s[k] : t[i] = s[k][l]
           S == {n \in Nat : \A s : IsListOfLists(s) /\ Len(s) = n => Flat(s, FlattenSeq(s))}
<1>1. 0 \in S
  <2> SUFFICES ASSUME NEW s, IsListOfLists(s), Len(s) = 0
               PROVE  Flat(s, FlattenSeq(s))
    OBVIOUS
  <2>1. FlattenSeq(s) = s
    BY DEF FlattenSeq
  <2>2. DOMAIN s = {} /\ IsList(s)
    BY ListFacts DEF IsListOfLists
  <2> QED
    BY <2>1, <2>2
<1>2. ASSUME NEW n \in Nat, n \in S
      PROVE  n + 1 \in S
  <2> SUFFICES ASSUME NEW s, IsListOfLists(s), Len(s) = n + 1
               PROVE  Flat(s, FlattenSeq(s))
    OBVIOUS
  <2> DEFINE front == [i \in 1..n |-> s[i]]
             last == s[n + 1]
  <2>1. /\ IsList(s) /\ DOMAIN s = 1..(n + 1) /\ IsList(last)
        /\ IsList(front) /\ Len(front) = n /\ s = Append(front, last)
    BY LastApart, ListFacts DEF IsListOfLists
  <2>2. /\ \A i \in 1..n : front[i] = s[i] /\ i \in DOMAIN s
        /\ DOMAIN front = 1..n
    BY <2>1
  <2>3. IsListOfLists(front)
    BY <2>1, <2>2 DEF IsListOfLists
  <2>4. Flat(front, FlattenSeq(front))
    BY <1>2, <2>1, <2>3
  <2> HIDE DEF front, S
  <2>5. FlattenSeq(s) = FlattenSeq(front) \o last
    BY <2>1, FlattenMore
  <2> DEFINE t == FlattenSeq(front)
             u == t \o last
             l == Len(t)
  <2>6. /\ IsList(t) /\ l \in Nat /\ DOMAIN t = 1..l
        /\ \A i \in DOMAIN t : \E k \in DOMAIN front : \E x \in DOMAIN front[k] : t[i] = front[k][x]
    BY <2>4, ListFacts
  <2>7. Len(last) \in Nat /\ DOMAIN last = 1..Len(last)
    BY <2>1, ListFacts
  <2>8. /\ IsList(u) /\ DOMAIN u = 1..(l + Len(last))
        /\ \A i \in 1..(l + Len(last)) : u[i] = IF i <= l THEN t[i] ELSE last[i - l]
    BY <2>1, <2>6, JoiningLists, ListFacts
  <2> HIDE DEF last, t, u, l
  <2>9. ASSUME NEW i \in DOMAIN u
        PROVE  \E k \in DOMAIN s : \E x \in DOMAIN s[k] : u[i] = s[k][x]
    <3>1. CASE i <= l
      <4>1. i \in DOMAIN t /\ u[i] = t[i]
        BY <2>6, <2>7, <2>8, <3>1
      <4> QED
        BY <2>2, <2>6, <4>1
    <3>2. CASE ~(i <= l)
      <4>1. i - l \in DOMAIN last /\ u[i] = last[i - l] /\ n + 1 \in DOMAIN s
        BY <2>1, <2>6, <2>7, <2>8, <3>2
      <4> QED
        BY <4>1 DEF last
    <3> QED
      BY <3>1, <3>2
  <2>10. Flat(s, u)
    BY <2>8, <2>9
  <2> QED
    BY <2>5, <2>10 DEF u, t
<1>3. Nat \subseteq S
  <2> HIDE DEF S
  <2> QED
    BY <1>1, <1>2, Induction
<1>4. Len(seqs) \in Nat
  BY ListFacts DEF IsListOfLists
<1> QED
  BY <1>3, <1>4

-----------------------------------------------------------------------------
(* Offers.                                                                 *)

OffersOf(gr) == [k \in DOMAIN gr.jobs |-> [job |-> gr.jobs[k], skip |-> gr.skip]]

\* What a group offers.
LEMMA OffersListed ==
    ASSUME NEW gr, IsJobs(gr.jobs)
    PROVE  /\ IsList(OffersOf(gr)) /\ Len(OffersOf(gr)) = Len(gr.jobs)
           /\ \A k \in 1..Len(gr.jobs) : OffersOf(gr)[k] = [job |-> gr.jobs[k], skip |-> gr.skip]
           /\ \A k \in DOMAIN OffersOf(gr) : IsJob(OffersOf(gr)[k].job)
<1> DEFINE os == OffersOf(gr)
<1>1. Len(gr.jobs) \in Nat /\ DOMAIN gr.jobs = 1..Len(gr.jobs)
  BY ListFacts DEF IsJobs
<1>2. \A k \in 1..Len(gr.jobs) : os[k] = [job |-> gr.jobs[k], skip |-> gr.skip]
  BY <1>1 DEF OffersOf
<1>3. os = [k \in 1..Len(gr.jobs) |-> os[k]]
  BY <1>1 DEF OffersOf
<1>4. IsList(os) /\ Len(os) = Len(gr.jobs)
  <2> HIDE DEF os
  <2> QED
    BY <1>1, <1>3, MakeList
<1>5. DOMAIN os = 1..Len(gr.jobs)
  BY <1>1 DEF OffersOf
<1>6. \A k \in 1..Len(gr.jobs) : IsJob(gr.jobs[k])
  BY <1>1 DEF IsJobs
<1>7. \A k \in 1..Len(gr.jobs) : os[k].job = gr.jobs[k]
  <2> SUFFICES ASSUME NEW k \in 1..Len(gr.jobs)
               PROVE  os[k].job = gr.jobs[k]
    OBVIOUS
  <2>1. os[k] = [job |-> gr.jobs[k], skip |-> gr.skip]
    BY <1>2
  <2> HIDE DEF os
  <2> QED
    BY <2>1
<1>8. \A k \in DOMAIN os : IsJob(os[k].job)
  <2> HIDE DEF os
  <2> QED
    BY <1>5, <1>6, <1>7
<1> QED
  BY <1>2, <1>4, <1>8

\* The lists of offers of the groups.
LEMMA OfferLists ==
    ASSUME NEW gs, IsGroups(gs)
    PROVE  LET lists == [g \in DOMAIN gs |-> OffersOf(gs[g])] IN
           /\ Offered(gs) = FlattenSeq(lists)
           /\ IsListOfLists(lists) /\ Len(lists) = Len(gs)
<1> DEFINE lists == [g \in DOMAIN gs |-> OffersOf(gs[g])]
<1>1. Offered(gs) = FlattenSeq(lists)
  BY DEF Offered, OffersOf
<1>2. /\ Len(gs) \in Nat /\ DOMAIN gs = 1..Len(gs)
      /\ \A g \in DOMAIN gs : IsList(OffersOf(gs[g]))
  BY ListFacts, OffersListed DEF IsGroups
<1>3. lists = [g \in 1..Len(gs) |-> lists[g]] /\ \A g \in DOMAIN gs : lists[g] = OffersOf(gs[g])
  BY <1>2
<1>4. DOMAIN lists = DOMAIN gs
  OBVIOUS
<1> HIDE DEF lists
<1>5. IsList(lists) /\ Len(lists) = Len(gs)
  BY <1>2, <1>3, MakeList
<1> QED
  BY <1>1, <1>2, <1>3, <1>4, <1>5 DEF IsListOfLists, lists

\* All that is offered is a job.
LEMMA OfferedJobs ==
    ASSUME NEW gs, IsGroups(gs)
    PROVE  IsList(Offered(gs)) /\ \A i \in DOMAIN Offered(gs) : IsJob(Offered(gs)[i].job)
<1> DEFINE lists == [g \in DOMAIN gs |-> OffersOf(gs[g])]
<1>1. Offered(gs) = FlattenSeq(lists) /\ IsListOfLists(lists)
  BY OfferLists
<1>2. \A g \in DOMAIN lists : \A l \in DOMAIN lists[g] : IsJob(lists[g][l].job)
  BY OffersListed DEF IsGroups
<1> HIDE DEF lists
<1> QED
  BY <1>1, <1>2, FlattenedList

\* A group more.
LEMMA GroupsMore ==
    ASSUME NEW gs, IsGroups(gs), NEW gr, IsJobs(gr.jobs)
    PROVE  /\ IsGroups(Append(gs, gr))
           /\ Offered(Append(gs, gr)) = Offered(gs) \o OffersOf(gr)
<1> DEFINE more == Append(gs, gr)
           n == Len(gs)
           lists == [g \in DOMAIN gs |-> OffersOf(gs[g])]
           moreLists == [g \in DOMAIN more |-> OffersOf(more[g])]
<1>1. /\ IsList(gs) /\ n \in Nat /\ DOMAIN gs = 1..n
      /\ \A g \in DOMAIN gs : IsJobs(gs[g].jobs)
  BY ListFacts DEF IsGroups
<1>2. /\ IsList(more) /\ Len(more) = n + 1
      /\ \A g \in 1..n : more[g] = gs[g]
      /\ more[n + 1] = gr
  <2>1. Lengthens(more, gs, gr)
    BY <1>1, Lengthened
  <2> HIDE DEF more
  <2> QED
    BY <2>1 DEF Lengthens
<1> HIDE DEF more, n
<1>3. DOMAIN more = 1..(n + 1)
  BY <1>2, ListFacts
<1>4. \A g \in 1..(n + 1) : g \in 1..n \/ g = n + 1
  BY <1>1
<1>5. IsGroups(more)
  BY <1>1, <1>2, <1>3, <1>4 DEF IsGroups
<1>6. Offered(gs) = FlattenSeq(lists) /\ IsListOfLists(lists) /\ Len(lists) = n
  BY OfferLists DEF n
<1>7. Offered(more) = FlattenSeq(moreLists) /\ IsListOfLists(moreLists) /\ Len(moreLists) = n + 1
  BY <1>2, <1>5, OfferLists
<1>8. /\ \A g \in 1..n : lists[g] = OffersOf(gs[g])
      /\ \A g \in 1..(n + 1) : moreLists[g] = OffersOf(more[g])
  BY <1>1, <1>3
<1> HIDE DEF lists, moreLists
<1>9. IsList(OffersOf(gr))
  BY OffersListed
<1>10. moreLists = Append(lists, OffersOf(gr))
  <2> DEFINE t == Append(lists, OffersOf(gr))
  <2>1. /\ IsList(t) /\ Len(t) = n + 1
        /\ \A g \in 1..n : t[g] = lists[g]
        /\ t[n + 1] = OffersOf(gr)
    <3>1. Lengthens(t, lists, OffersOf(gr))
      BY <1>6, Lengthened DEF IsListOfLists
    <3> HIDE DEF t
    <3> QED
      BY <1>6, <3>1 DEF Lengthens
  <2> HIDE DEF t
  <2>2. \A g \in 1..(n + 1) : moreLists[g] = t[g]
    BY <1>2, <1>4, <1>8, <2>1
  <2>3. moreLists = t
    BY <1>7, <2>1, <2>2, SameList DEF IsListOfLists
  <2> QED
    BY <2>3 DEF t
<1>11. Offered(more) = Offered(gs) \o OffersOf(gr)
  BY <1>6, <1>7, <1>9, <1>10, FlattenMore DEF IsListOfLists
<1> QED
  BY <1>5, <1>11 DEF more

\* The frame's groups, with its inline jobs, are groups.
LEMMA FlushedGroups ==
    ASSUME NEW fr, IsGroups(fr.groups), IsJobs(fr.inline)
    PROVE  IsGroups(Flushed(fr))
BY GroupsMore DEF Flushed

\* A job more, in a group of its own or in the one that is being collected.
LEMMA JobOffered ==
    ASSUME NEW fr, IsFrame(fr), IsGroups(fr.groups), IsJobs(fr.inline), NEW job, IsJob(job)
    PROVE  LET next == [fr EXCEPT !.pos = @ + 1, !.inline = Append(@, job)] IN
           /\ next.groups = fr.groups /\ IsJobs(next.inline)
           /\ Offered(Flushed(next)) = Offered(Flushed(fr)) \o <<[job |-> job, skip |-> FALSE]>>
<1> DEFINE next == [fr EXCEPT !.pos = @ + 1, !.inline = Append(@, job)]
           js == fr.inline
           more == Append(js, job)
           new == [jobs |-> more, skip |-> FALSE]
           old == [jobs |-> js, skip |-> FALSE]
           offer == [job |-> job, skip |-> FALSE]
           gs == fr.groups
<1>1. next.groups = gs /\ next.inline = more
  BY DEF IsFrame, Fields
<1>2. /\ IsList(js) /\ Len(js) \in Nat /\ DOMAIN js = 1..Len(js)
      /\ \A k \in 1..Len(js) : IsJob(js[k])
  BY ListFacts DEF IsJobs
<1>3. /\ IsList(more) /\ Len(more) = Len(js) + 1 /\ DOMAIN more = 1..(Len(js) + 1)
      /\ \A k \in 1..Len(js) : more[k] = js[k]
      /\ more[Len(js) + 1] = job
  <2>1. /\ IsList(more) /\ Len(more) = Len(js) + 1
        /\ \A k \in 1..Len(js) : more[k] = js[k]
        /\ more[Len(js) + 1] = job
    <3>1. Lengthens(more, js, job)
      BY <1>2, Lengthened
    <3> HIDE DEF more, js
    <3> QED
      BY <3>1 DEF Lengthens
  <2> HIDE DEF more
  <2> QED
    BY <2>1, ListFacts
<1>4. \A k \in 1..(Len(js) + 1) : k \in 1..Len(js) \/ k = Len(js) + 1
  BY <1>2
<1>5. IsJobs(more) /\ more # <<>>
  <2> HIDE DEF more, js
  <2>1. IsJobs(more)
    BY <1>2, <1>3, <1>4 DEF IsJobs
  <2>2. Len(more) # 0
    BY <1>2, <1>3
  <2> QED
    BY <2>1, <2>2, EmptySeq
<1>6. new.jobs = more /\ new.skip = FALSE /\ old.jobs = js /\ old.skip = FALSE
  OBVIOUS
<1>7. Flushed(next) = Append(gs, new)
  BY <1>1, <1>5 DEF Flushed
<1> HIDE DEF new, old, more, next, offer
<1>8. Offered(Flushed(next)) = Offered(gs) \o OffersOf(new)
  BY <1>5, <1>6, <1>7, GroupsMore
<1>9. OffersOf(new) = OffersOf(old) \o <<offer>>
  <2>1. /\ IsList(OffersOf(new)) /\ Len(OffersOf(new)) = Len(js) + 1
        /\ \A k \in 1..(Len(js) + 1) : OffersOf(new)[k] = [job |-> more[k], skip |-> FALSE]
    <3>1. /\ IsList(OffersOf(new)) /\ Len(OffersOf(new)) = Len(new.jobs)
          /\ \A k \in 1..Len(new.jobs) : OffersOf(new)[k] = [job |-> new.jobs[k], skip |-> new.skip]
      BY <1>5, <1>6, OffersListed
    <3> QED
      BY <1>3, <1>6, <3>1
  <2>2. /\ IsList(OffersOf(old)) /\ Len(OffersOf(old)) = Len(js)
        /\ \A k \in 1..Len(js) : OffersOf(old)[k] = [job |-> js[k], skip |-> FALSE]
    <3>1. /\ IsList(OffersOf(old)) /\ Len(OffersOf(old)) = Len(old.jobs)
          /\ \A k \in 1..Len(old.jobs) : OffersOf(old)[k] = [job |-> old.jobs[k], skip |-> old.skip]
      BY <1>6, OffersListed
    <3> QED
      BY <1>6, <3>1
  <2> DEFINE t == Append(OffersOf(old), offer)
  <2>3. /\ IsList(t) /\ Len(t) = Len(js) + 1
        /\ \A k \in 1..Len(js) : t[k] = OffersOf(old)[k]
        /\ t[Len(js) + 1] = offer
        /\ t = OffersOf(old) \o <<offer>>
    <3>1. Lengthens(t, OffersOf(old), offer)
      BY <2>2, Lengthened
    <3> HIDE DEF t
    <3> QED
      BY <2>2, <3>1 DEF Lengthens
  <2> HIDE DEF t
  <2>4. \A k \in 1..(Len(js) + 1) : OffersOf(new)[k] = t[k]
    BY <1>3, <1>4, <2>1, <2>2, <2>3, ZenonT(60) DEF offer
  <2>5. OffersOf(new) = t
    BY <2>1, <2>3, <2>4, SameList
  <2> QED
    BY <2>3, <2>5
<1>10. Offered(Flushed(fr)) \o <<offer>> = Offered(gs) \o (OffersOf(old) \o <<offer>>)
  <2>1. IsList(Offered(gs)) /\ IsList(OffersOf(old)) /\ IsList(<<offer>>)
    BY <1>6, ShortLists, OfferedJobs, OffersListed
  <2>2. CASE js = <<>>
    <3>1. Flushed(fr) = gs
      BY <2>2 DEF Flushed
    <3>2. OffersOf(old) = <<>>
      <4>1. Len(OffersOf(old)) = 0
        BY <1>6, <2>2, OffersListed, EmptySeq
      <4> QED
        BY <2>1, <4>1, EmptySeq DEF IsList
    <3>3. <<>> \o <<offer>> = <<offer>>
      BY <2>1, ConcatEmptySeq DEF IsList
    <3> QED
      BY <3>1, <3>2, <3>3
  <2>3. CASE js # <<>>
    <3>1. Flushed(fr) = Append(gs, old)
      BY <2>3 DEF Flushed, old
    <3>2. Offered(Flushed(fr)) = Offered(gs) \o OffersOf(old)
      BY <1>6, <3>1, GroupsMore
    <3> QED
      BY <2>1, <3>2, JoiningThree, SMTT(30)
  <2> QED
    BY <2>2, <2>3
<1> QED
  BY <1>1, <1>5, <1>8, <1>9, <1>10 DEF next, offer

\* An include more, behind the jobs collected so far.
LEMMA IncludeOffered ==
    ASSUME NEW fr, IsFrame(fr), IsGroups(fr.groups), IsJobs(fr.inline), NEW js, IsJobs(js),
           NEW skip, NEW next, next = WithInclude(fr, js, skip),
           NEW gr, gr = [jobs |-> js, skip |-> skip]
    PROVE  /\ IsGroups(next.groups) /\ IsJobs(next.inline)
           /\ Offered(Flushed(next)) = Offered(Flushed(fr)) \o OffersOf(gr)
<1>1. next.groups = Append(Flushed(fr), gr) /\ next.inline = <<>> /\ gr.jobs = js
  BY DEF IsFrame, Fields, WithInclude
<1>2. Flushed(next) = next.groups
  BY <1>1 DEF Flushed
<1>3. IsGroups(Flushed(fr))
  BY FlushedGroups
<1>4. IsJobs(<<>>)
  <2>1. DOMAIN <<>> = {}
    OBVIOUS
  <2> QED
    BY <2>1, ShortLists DEF IsJobs
<1>5. /\ IsGroups(Append(Flushed(fr), gr))
      /\ Offered(Append(Flushed(fr), gr)) = Offered(Flushed(fr)) \o OffersOf(gr)
  BY <1>1, <1>3, GroupsMore
<1> QED
  BY <1>1, <1>2, <1>4, <1>5

\* Merging keeps them jobs.
LEMMA MergedJobs ==
    ASSUME NEW offers, IsList(offers), \A i \in DOMAIN offers : IsJob(offers[i].job)
    PROVE  IsJobs(MergeJobs(offers))
<1> DEFINE lists == [i \in DOMAIN offers |->
                        IF FirstOfItsName(offers, i) THEN <<offers[i].job>> ELSE <<>>]
<1>1. MergeJobs(offers) = FlattenSeq(lists)
  BY DEF MergeJobs
<1>2. Len(offers) \in Nat /\ DOMAIN offers = 1..Len(offers)
  BY ListFacts
<1>3. \A i \in DOMAIN offers :
        IsList(lists[i]) /\ \A l \in DOMAIN lists[i] : lists[i][l] = offers[i].job
  <2> SUFFICES ASSUME NEW i \in DOMAIN offers
               PROVE  IsList(lists[i]) /\ \A l \in DOMAIN lists[i] : lists[i][l] = offers[i].job
    OBVIOUS
  <2> DEFINE j == offers[i].job
  <2>1. IsList(<<>>) /\ IsList(<<j>>)
    BY ShortLists
  <2>2. DOMAIN <<>> = {} /\ DOMAIN <<j>> = {1} /\ <<j>>[1] = j
    OBVIOUS
  <2>3. lists[i] = IF FirstOfItsName(offers, i) THEN <<j>> ELSE <<>>
    OBVIOUS
  <2> HIDE DEF lists, j
  <2>4. IsList(lists[i]) /\ \A l \in DOMAIN lists[i] : lists[i][l] = j
    BY <2>1, <2>2, <2>3
  <2> QED
    BY <2>4 DEF j
<1>4. lists = [i \in 1..Len(offers) |-> lists[i]] /\ DOMAIN lists = DOMAIN offers
  BY <1>2
<1> HIDE DEF lists
<1>5. IsListOfLists(lists)
  BY <1>2, <1>3, <1>4, MakeList DEF IsListOfLists
<1>6. /\ IsList(FlattenSeq(lists))
      /\ \A i \in DOMAIN FlattenSeq(lists) : \E k \in DOMAIN lists : \E l \in DOMAIN lists[k] :
            FlattenSeq(lists)[i] = lists[k][l]
  BY <1>5, FlattenedList
<1> DEFINE u == FlattenSeq(lists)
<1> HIDE DEF u
<1>7. \A i \in DOMAIN u : IsJob(u[i])
  <2> SUFFICES ASSUME NEW i \in DOMAIN u
               PROVE  IsJob(u[i])
    OBVIOUS
  <2>1. PICK k \in DOMAIN lists : \E l \in DOMAIN lists[k] : u[i] = lists[k][l]
    BY <1>6 DEF u
  <2>2. u[i] = offers[k].job /\ k \in DOMAIN offers
    BY <1>3, <1>4, <2>1
  <2> QED
    BY <2>2
<1> QED
  BY <1>1, <1>6, <1>7 DEF IsJobs, u

\* So does substituting a parameter.
LEMMA SubstitutedJobs ==
    ASSUME NEW js, IsJobs(js), NEW param, NEW given
    PROVE  IsJobs(SubstituteParams(js, param, given))
<1> DEFINE t == [k \in DOMAIN js |->
                    [js[k] EXCEPT !.val = IF @ = "${param}" THEN ResolveParam(given) ELSE @]]
<1>1. Len(js) \in Nat /\ DOMAIN js = 1..Len(js) /\ \A k \in DOMAIN js : IsJob(js[k])
  BY ListFacts DEF IsJobs
<1>2. \A k \in DOMAIN js : DOMAIN t[k] = DOMAIN js[k]
  OBVIOUS
<1>3. t = [k \in 1..Len(js) |-> t[k]] /\ DOMAIN t = DOMAIN js
  BY <1>1
<1>4. SubstituteParams(js, param, given) = js \/ SubstituteParams(js, param, given) = t
  BY DEF SubstituteParams
<1> HIDE DEF t
<1>5. IsJobs(t)
  BY <1>1, <1>2, <1>3, MakeList DEF IsJobs, IsJob
<1> QED
  BY <1>4, <1>5

-----------------------------------------------------------------------------
(* What a frame has collected.                                             *)

HoldsJobs(c) == \A key \in DOMAIN c : IsJobs(c[key].jobs)

\* d holds all that c holds.
Extends(c, d) == \A key \in DOMAIN c : key \in DOMAIN d /\ d[key].jobs = c[key].jobs

\* What a node that has been read stands for depends on what is held for it only.
LEMMA SameGroup ==
    ASSUME NEW c, NEW n, IsRead(n, c), NEW a, NEW b, \A key \in DOMAIN c : a[key] = b[key]
    PROVE  GroupOf(n, a) = GroupOf(n, b)
BY DEF IsRead, GroupOf

\* A node that has been read gives a group of jobs.
LEMMA GroupOfRead ==
    ASSUME NEW c, HoldsJobs(c), NEW n, IsRead(n, c)
    PROVE  IsJobs(GroupOf(n, Held(c)).jobs)
<1> DEFINE key == <<n.source, n.given>>
<1>1. CASE n.kind = "job" /\ IsJob(n.job)
  <2> DEFINE js == <<n.job>>
  <2>1. GroupOf(n, Held(c)).jobs = js
    BY <1>1 DEF GroupOf
  <2>2. DOMAIN js = {1} /\ js[1] = n.job /\ IsList(js)
    BY ShortLists
  <2> HIDE DEF js
  <2> QED
    BY <1>1, <2>1, <2>2 DEF IsJobs
<1>2. CASE n.kind = "include" /\ key \in DOMAIN c
  <2>1. GroupOf(n, Held(c)).jobs = Held(c)[key]
    BY <1>2 DEF GroupOf
  <2> HIDE DEF key
  <2> QED
    BY <1>2, <2>1 DEF Held, HoldsJobs
<1> QED
  BY <1>1, <1>2 DEF IsRead

\* One node more.
LEMMA OneGroupMore ==
    ASSUME NEW f, NEW c, HoldsJobs(c), NEW n \in Nat,
           \A i \in 1..(n + 1) : IsRead(Nodes(f)[i], c)
    PROVE  Offered(GroupsOf(f, n + 1, c))
              = Offered(GroupsOf(f, n, c)) \o OffersOf(GroupOf(Nodes(f)[n + 1], Held(c)))
<1> DEFINE G(i) == GroupOf(Nodes(f)[i], Held(c))
           gs == GroupsOf(f, n, c)
           more == GroupsOf(f, n + 1, c)
<1>1. \A i \in 1..(n + 1) : IsJobs(G(i).jobs)
  BY GroupOfRead
<1>2. gs = [i \in 1..n |-> G(i)] /\ more = [i \in 1..(n + 1) |-> G(i)]
  BY DEF GroupsOf
<1> HIDE DEF gs, more, G
<1>3. gs = [i \in 1..n |-> gs[i]] /\ DOMAIN gs = 1..n /\ \A i \in 1..n : gs[i] = G(i)
  BY <1>2
<1>4. /\ more = [i \in 1..(n + 1) |-> more[i]] /\ DOMAIN more = 1..(n + 1)
      /\ \A i \in 1..(n + 1) : more[i] = G(i)
  BY <1>2
<1>5. IsList(gs) /\ Len(gs) = n
  BY <1>3, MakeList
<1>6. IsList(more) /\ Len(more) = n + 1
  <2>1. n + 1 \in Nat
    OBVIOUS
  <2> QED
    BY <1>4, <2>1, MakeList
<1>7. \A i \in 1..n : i \in 1..(n + 1)
  OBVIOUS
<1>8. IsGroups(gs)
  BY <1>1, <1>3, <1>5, <1>7 DEF IsGroups
<1>9. n + 1 \in 1..(n + 1) /\ IsJobs(G(n + 1).jobs)
  BY <1>1
<1>10. more = Append(gs, G(n + 1))
  <2> DEFINE t == Append(gs, G(n + 1))
  <2>1. /\ IsList(t) /\ Len(t) = n + 1
        /\ \A i \in 1..n : t[i] = gs[i]
        /\ t[n + 1] = G(n + 1)
    <3>1. Lengthens(t, gs, G(n + 1))
      BY <1>5, Lengthened
    <3> HIDE DEF t
    <3> QED
      BY <1>5, <3>1 DEF Lengthens
  <2> HIDE DEF t
  <2>2. \A i \in 1..(n + 1) : i \in 1..n \/ i = n + 1
    OBVIOUS
  <2>3. \A i \in 1..(n + 1) : more[i] = t[i]
    BY <1>3, <1>4, <2>1, <2>2
  <2>4. more = t
    BY <1>6, <2>1, <2>3, SameList
  <2> QED
    BY <2>4 DEF t
<1>11. Offered(more) = Offered(gs) \o OffersOf(G(n + 1))
  BY <1>8, <1>9, <1>10, GroupsMore
<1> QED
  BY <1>11 DEF gs, more, G

\* The frame passes a node and collects what it stands for.
LEMMA CollectedMore ==
    ASSUME disk \in Worlds, NEW c, HoldsJobs(c), NEW fr, IsFrame(fr), Collected(fr, c),
           fr.pos <= Len(Nodes(fr.file)), IsRead(Nodes(fr.file)[fr.pos], c),
           NEW next, next.file = fr.file, next.pos = fr.pos + 1,
           IsGroups(next.groups), IsJobs(next.inline),
           Offered(Flushed(next))
              = Offered(Flushed(fr)) \o OffersOf(GroupOf(Nodes(fr.file)[fr.pos], Held(c)))
    PROVE  Collected(next, c)
<1> DEFINE n == fr.pos - 1
           f == fr.file
<1>1. n \in Nat /\ fr.pos = n + 1 /\ next.pos - 1 = n + 1
  BY NodesCounted DEF IsFrame
<1>2. /\ \A i \in 1..n : IsRead(Nodes(f)[i], c)
      /\ Offered(Flushed(fr)) = Offered(GroupsOf(f, n, c))
  BY DEF Collected
<1>3. IsRead(Nodes(f)[n + 1], c)
  BY <1>1
<1>4. Offered(Flushed(next)) = Offered(GroupsOf(f, n, c)) \o OffersOf(GroupOf(Nodes(f)[n + 1], Held(c)))
  BY <1>1, <1>2
<1>5. next.file = f
  OBVIOUS
<1> HIDE DEF n, f
<1>6. \A i \in 1..(n + 1) : IsRead(Nodes(f)[i], c)
  <2>1. \A i \in 1..(n + 1) : i \in 1..n \/ i = n + 1
    BY <1>1
  <2> QED
    BY <1>2, <1>3, <2>1
<1>7. Offered(Flushed(next)) = Offered(GroupsOf(f, n + 1, c))
  BY <1>1, <1>4, <1>6, OneGroupMore
<1> QED
  BY <1>1, <1>5, <1>6, <1>7 DEF Collected

\* It has still collected it when the cache holds more.
LEMMA CollectedStill ==
    ASSUME NEW c, NEW d, Extends(c, d), NEW fr, Collected(fr, c)
    PROVE  Collected(fr, d)
<1>1. \A n : IsRead(n, c) => IsRead(n, d)
  BY DEF IsRead, Extends
<1>2. \A key \in DOMAIN c : Held(c)[key] = Held(d)[key]
  BY DEF Held, Extends
<1> DEFINE m == fr.pos - 1
<1>3. \A i \in 1..m : IsRead(Nodes(fr.file)[i], c)
  BY DEF Collected
<1>4. \A i \in 1..m :
        GroupOf(Nodes(fr.file)[i], Held(c)) = GroupOf(Nodes(fr.file)[i], Held(d))
  BY <1>2, <1>3, SameGroup
<1>5. GroupsOf(fr.file, m, c) = GroupsOf(fr.file, m, d)
  <2> HIDE DEF m
  <2> QED
    BY <1>4 DEF GroupsOf
<1> QED
  BY <1>1, <1>3, <1>5 DEF Collected

\* What is read of a file depends on what is held for its includes only.
Agree(a, b, c) == \A key \in DOMAIN c : a[key] = b[key]

\* Two accounts that agree on what was read give a file the same jobs.
LEMMA SameReading ==
    ASSUME NEW c, NEW f, AllRead(f, c), NEW a, NEW b, Agree(a, b, c), NEW p
    PROVE  ReadFrom(a, f, p) = ReadFrom(b, f, p)
<1> DEFINE nodes == disk[f].nodes
<1>1. \A k \in DOMAIN nodes : GroupOf(nodes[k], a) = GroupOf(nodes[k], b)
  BY SameGroup DEF Nodes, AllRead, Agree
<1> DEFINE ga == [k \in DOMAIN nodes |-> GroupOf(nodes[k], a)]
           gb == [k \in DOMAIN nodes |-> GroupOf(nodes[k], b)]
<1>2. ga = gb
  BY <1>1
<1>3. /\ ReadFrom(a, f, p) = SubstituteParams(MergeJobs(Offered(ga)), disk[f].param, p)
      /\ ReadFrom(b, f, p) = SubstituteParams(MergeJobs(Offered(gb)), disk[f].param, p)
  BY DEF ReadFrom
<1> HIDE DEF ga, gb
<1> QED
  BY <1>2, <1>3

\* At its end the frame has collected what the file stands for.
LEMMA EndCollected ==
    ASSUME disk \in Worlds, NEW c, NEW fr, IsFrame(fr), Collected(fr, c),
           fr.pos > Len(Nodes(fr.file)), NEW p
    PROVE  LET js == SubstituteParams(MergeJobs(Offered(Flushed(fr))), disk[fr.file].param, p) IN
           /\ IsJobs(js) /\ js = ReadFrom(Held(c), fr.file, p)
           /\ IsJobs(MergeJobs(Offered(Flushed(fr))))
           /\ AllRead(fr.file, c)
<1> DEFINE f == fr.file
           n == Len(Nodes(f))
           offers == Offered(Flushed(fr))
<1>1. n \in Nat /\ DOMAIN Nodes(f) = 1..n /\ fr.pos - 1 = n
  <2>1. f \in Files /\ fr.pos \in 1..(n + 1)
    BY DEF IsFrame
  <2>2. n \in Nat /\ DOMAIN Nodes(f) = 1..n
    BY <2>1, NodesCounted
  <2> QED
    BY <2>1, <2>2
<1>2. offers = Offered(GroupsOf(f, n, c)) /\ \A i \in 1..n : IsRead(Nodes(f)[i], c)
  BY <1>1 DEF Collected
<1>3. GroupsOf(f, n, c) = [k \in DOMAIN disk[f].nodes |-> GroupOf(disk[f].nodes[k], Held(c))]
  BY <1>1 DEF GroupsOf, Nodes
<1>4. IsJobs(MergeJobs(offers))
  <2>1. IsGroups(Flushed(fr))
    BY FlushedGroups DEF Collected
  <2> QED
    BY <2>1, OfferedJobs, MergedJobs
<1>5. SubstituteParams(MergeJobs(offers), disk[f].param, p) = ReadFrom(Held(c), f, p)
  <2> HIDE DEF offers
  <2> QED
    BY <1>2, <1>3 DEF ReadFrom
<1>6. IsJobs(SubstituteParams(MergeJobs(offers), disk[f].param, p))
  <2> HIDE DEF offers
  <2> QED
    BY <1>4, SubstitutedJobs
<1> QED
  BY <1>1, <1>2, <1>4, <1>5, <1>6 DEF AllRead

-----------------------------------------------------------------------------
(* The reference.                                                          *)

\* What every file stands for, read to a depth.
ReadAt(read, depth) ==
    [key \in Files \X Givens |->
        IF depth = 0 THEN <<>> ELSE ReadFrom(read[depth - 1], key[1], key[2])]

Readings(read, n) == read = [depth \in 0..n |-> ReadAt(read, depth)]

\* There are such.
LEMMA ReadingsExist ==
    ASSUME NEW n \in Nat
    PROVE  \E read : Readings(read, n)
<1> DEFINE S == {m \in Nat : \E read : Readings(read, m)}
<1>1. 0 \in S
  <2> DEFINE zero == [k \in 0..0 |-> [key \in Files \X Givens |-> <<>>]]
  <2>1. \A depth \in 0..0 : ReadAt(zero, depth) = [key \in Files \X Givens |-> <<>>]
    BY DEF ReadAt
  <2>2. Readings(zero, 0)
    BY <2>1 DEF Readings
  <2> QED
    BY <2>2
<1>2. ASSUME NEW m \in Nat, m \in S
      PROVE  m + 1 \in S
  <2>1. PICK read : Readings(read, m)
    BY <1>2
  <2> DEFINE next == [key \in Files \X Givens |-> ReadFrom(read[m], key[1], key[2])]
             more == [k \in 0..(m + 1) |-> IF k = m + 1 THEN next ELSE read[k]]
  <2>2. /\ \A k \in 0..m : more[k] = read[k]
        /\ more[m + 1] = next /\ more = [k \in 0..(m + 1) |-> more[k]]
    <3> HIDE DEF next
    <3> QED
      OBVIOUS
  <2>3. \A k \in 0..m : read[k] = ReadAt(read, k)
    BY <2>1 DEF Readings
  <2> HIDE DEF more
  <2>4. ASSUME NEW k \in 0..m
        PROVE  more[k] = ReadAt(more, k)
    <3>1. CASE k = 0
      <4>1. ReadAt(read, k) = ReadAt(more, k)
        BY <3>1 DEF ReadAt
      <4> QED
        BY <2>2, <2>3, <4>1
    <3>2. CASE k # 0
      <4>1. k - 1 \in 0..m
        BY <3>2
      <4>2. more[k - 1] = read[k - 1]
        BY <2>2, <4>1
      <4>3. ReadAt(read, k) = ReadAt(more, k)
        BY <4>2 DEF ReadAt
      <4> QED
        BY <2>2, <2>3, <4>3
    <3> QED
      BY <3>1, <3>2
  <2>5. more[m + 1] = ReadAt(more, m + 1)
    <3>1. m + 1 # 0 /\ (m + 1) - 1 = m /\ more[m] = read[m]
      <4>1. m \in 0..m
        OBVIOUS
      <4>2. more[m] = read[m]
        BY <2>2, <4>1
      <4> QED
        BY <4>2
    <3> DEFINE d == m + 1
    <3> HIDE DEF d
    <3>2. d # 0 /\ d - 1 = m
      BY <3>1 DEF d
    <3>3. ReadAt(more, d) = next
      BY <3>1, <3>2 DEF ReadAt
    <3> QED
      BY <2>2, <3>3 DEF d
  <2>6. \A k \in 0..(m + 1) : more[k] = ReadAt(more, k)
    <3>1. \A k \in 0..(m + 1) : k \in 0..m \/ k = m + 1
      OBVIOUS
    <3> QED
      BY <2>4, <2>5, <3>1
  <2>7. Readings(more, m + 1)
    BY <2>2, <2>6 DEF Readings
  <2> QED
    BY <2>7
<1> HIDE DEF S
<1>3. Nat \subseteq S
  BY <1>1, <1>2, Induction
<1> QED
  BY <1>3 DEF S

\* The reference is the deepest of them.
LEMMA ReferenceRead ==
    \E read : /\ Readings(read, Cardinality(Files))
              /\ \A f, p : Reference(f, p) = read[Cardinality(Files)][<<f, p>>]
<1> DEFINE N == Cardinality(Files)
           read == CHOOSE r : Readings(r, N)
<1>1. N \in Nat
  BY IncludesAssumption, FS_CardinalityType
<1>2. Readings(read, N)
  <2> HIDE DEF N
  <2> QED
    BY <1>1, ReadingsExist
<1>3. \A f, p : Reference(f, p) = read[N][<<f, p>>]
  BY DEF Reference, Readings, ReadAt
<1> QED
  BY <1>2, <1>3

\* At a depth other than the first.
LEMMA ReadingBelow ==
    ASSUME NEW n \in Nat, NEW read, Readings(read, n), NEW depth \in 1..n,
           NEW f \in Files, NEW p \in Givens
    PROVE  read[depth][<<f, p>>] = ReadFrom(read[depth - 1], f, p)
<1>1. \A d \in 0..n : read[d] = ReadAt(read, d)
  BY DEF Readings
<1>2. depth \in 0..n /\ depth # 0
  OBVIOUS
<1>3. read[depth] = ReadAt(read, depth)
  BY <1>1, <1>2
<1> QED
  BY <1>2, <1>3 DEF ReadAt

\* What the cache holds for the files up to a rank.
Within(h, d, c) == [k \in {key \in DOMAIN c : h[key[1]] <= d} |-> c[k]]

\* A file needs no more of it than its includes.
LEMMA ReadWithin ==
    ASSUME NEW c, NEW C, C = {key[1] : key \in DOMAIN c}, C \subseteq Files,
           NEW f, AllRead(f, c), NEW h, NEW d, \A g \in Includes(f) \cap C : h[g] <= d
    PROVE  AllRead(f, Within(h, d, c))
<1> DEFINE K == {key \in DOMAIN c : h[key[1]] <= d}
           cut == [k \in K |-> c[k]]
<1>1. ASSUME NEW i \in DOMAIN Nodes(f)
      PROVE  IsRead(Nodes(f)[i], cut)
  <2> DEFINE n == Nodes(f)[i]
  <2>1. CASE n.kind = "include" /\ <<n.source, n.given>> \in DOMAIN c
    <3> DEFINE k == <<n.source, n.given>>
    <3>1. k \in DOMAIN c /\ k[1] = n.source
      BY <2>1
    <3>2. n.source \in C /\ n.source \in Files
      <4> HIDE DEF k
      <4> QED
        BY <3>1
    <3>3. n.source \in Includes(f)
      BY <2>1, <3>2 DEF Includes, Nodes
    <3>4. k \in K
      <4> HIDE DEF k
      <4> QED
        BY <3>1, <3>2, <3>3
    <3> QED
      BY <2>1, <3>4 DEF IsRead
  <2>2. CASE n.kind = "job" /\ IsJob(n.job)
    BY <2>2 DEF IsRead
  <2> QED
    BY <2>1, <2>2 DEF AllRead, IsRead
<1> QED
  BY <1>1 DEF AllRead, Within

\* What the cache holds for a file is what is read of it to a depth that its
\* rank allows.
LEMMA CacheRead ==
    ASSUME disk \in Worlds, NEW c, CacheReads(c), NEW C, C = {key[1] : key \in DOMAIN c}, Sound(C),
           NEW h, Ranks(h, C), NEW n \in Nat, NEW read, Readings(read, n)
    PROVE  \A depth \in 0..n : \A key \in DOMAIN c : h[key[1]] <= depth => c[key].jobs = read[depth][key]
<1> DEFINE S == {d \in Nat : d <= n =>
                    \A key \in DOMAIN c : h[key[1]] <= d => c[key].jobs = read[d][key]}
<1>1. \A key \in DOMAIN c : key[1] \in C
  OBVIOUS
<1>2. IsFiniteSet(C) /\ Cardinality(C) \in Nat
  BY IncludesAssumption, FS_Subset, FS_CardinalityType DEF Sound
<1>3. \A f \in C : h[f] \in Nat /\ h[f] >= 1
  BY <1>2 DEF Ranks
<1>4. 0 \in S
  BY <1>1, <1>3
<1>5. ASSUME NEW d \in Nat, d \in S
      PROVE  d + 1 \in S
  <2> SUFFICES ASSUME d + 1 <= n, NEW key \in DOMAIN c, h[key[1]] <= d + 1
               PROVE  c[key].jobs = read[d + 1][key]
    OBVIOUS
  <2> DEFINE f == key[1]
             p == key[2]
  <2>1. /\ key = <<f, p>> /\ f \in Files /\ p \in Givens /\ f \in C
        /\ AllRead(f, c)
        /\ c[key].jobs = ReadFrom(Held(c), f, p)
    BY <1>1 DEF CacheReads
  <2>2. read[d + 1][key] = ReadFrom(read[d], f, p)
    <3> DEFINE e == d + 1
    <3>1. e \in 1..n /\ e - 1 = d
      OBVIOUS
    <3> HIDE DEF e
    <3>2. read[e][<<f, p>>] = ReadFrom(read[e - 1], f, p)
      BY <2>1, <3>1, ReadingBelow
    <3> QED
      BY <2>1, <3>1, <3>2 DEF e
  <2> HIDE DEF f, p
  <2>3. \A k \in DOMAIN c : h[k[1]] <= d => c[k].jobs = read[d][k]
    BY <1>5
  <2> HIDE DEF S
  <2>4. \A g \in Includes(f) \cap C : h[g] <= d
    <3> SUFFICES ASSUME NEW g \in Includes(f) \cap C
                 PROVE  h[g] <= d
      OBVIOUS
    <3> DEFINE x == h[g]
               y == h[f]
    <3>1. x < y /\ y <= d + 1 /\ x \in Nat /\ y \in Nat
      BY <1>3, <2>1 DEF Ranks, f
    <3> HIDE DEF x, y
    <3>2. x <= d
      BY <3>1
    <3> QED
      BY <3>2 DEF x
  <2> DEFINE a == Held(c)
             b == read[d]
             cut == Within(h, d, c)
  <2>5. Agree(a, b, cut)
    BY <2>3 DEF Held, Agree, Within
  <2>6. C \subseteq Files
    BY DEF Sound
  <2> HIDE DEF a, b, cut
  <2>7. AllRead(f, cut)
    BY <2>1, <2>4, <2>6, ReadWithin DEF cut
  <2>8. ReadFrom(a, f, p) = ReadFrom(b, f, p)
    BY <2>5, <2>7, SameReading
  <2> QED
    BY <2>1, <2>2, <2>8 DEF a, b
<1> HIDE DEF S
<1>6. Nat \subseteq S
  BY <1>4, <1>5, Induction
<1>7. ASSUME NEW depth \in 0..n
      PROVE  \A key \in DOMAIN c : h[key[1]] <= depth => c[key].jobs = read[depth][key]
  BY <1>6 DEF S
<1> QED
  BY <1>7

\* Whatever is in the cache is what the reference gives.
LEMMA CacheIsReference ==
    ASSUME disk \in Worlds, NEW c, CacheReads(c), NEW C, C = {key[1] : key \in DOMAIN c}, Sound(C),
           Ranked(C)
    PROVE  \A key \in DOMAIN c : c[key].jobs = Reference(key[1], key[2])
<1> DEFINE N == Cardinality(Files)
<1>1. PICK read : Readings(read, N) /\ \A f, p : Reference(f, p) = read[N][<<f, p>>]
  BY ReferenceRead
<1>2. PICK h : Ranks(h, C)
  BY DEF Ranked
<1>3. N \in Nat /\ Cardinality(C) \in Nat /\ Cardinality(C) <= N
  BY IncludesAssumption, FS_Subset, FS_CardinalityType DEF Sound
<1> HIDE DEF N
<1>4. \A key \in DOMAIN c : h[key[1]] \in 1..Cardinality(C)
  BY <1>2 DEF Ranks
<1>5. \A key \in DOMAIN c : h[key[1]] <= N
  <2> SUFFICES ASSUME NEW key \in DOMAIN c
               PROVE  h[key[1]] <= N
    OBVIOUS
  <2> DEFINE x == h[key[1]]
  <2>1. x \in 1..Cardinality(C)
    BY <1>4
  <2> HIDE DEF x
  <2>2. x <= N
    BY <1>3, <2>1
  <2> QED
    BY <2>2 DEF x
<1>6. N \in 0..N
  BY <1>3
<1>7. \A depth \in 0..N : \A key \in DOMAIN c : h[key[1]] <= depth => c[key].jobs = read[depth][key]
  BY <1>1, <1>2, <1>3, CacheRead
<1>8. \A key \in DOMAIN c : c[key].jobs = read[N][key]
  BY <1>5, <1>6, <1>7
<1>9. \A key \in DOMAIN c : key = <<key[1], key[2]>>
  BY DEF CacheReads
<1> QED
  BY <1>1, <1>8, <1>9

\* So is what is read of the root, when all it includes has been read.
LEMMA RootIsReference ==
    ASSUME disk \in Worlds, NEW c, CacheReads(c), NEW C, C = {key[1] : key \in DOMAIN c}, Sound(C),
           Ranked(C), AllRead(Root, c), Includes(Root) \subseteq C
    PROVE  ReadFrom(Held(c), Root, NoParam) = Reference(Root, NoParam)
<1> DEFINE N == Cardinality(Files)
<1>1. PICK read : Readings(read, N) /\ \A f, p : Reference(f, p) = read[N][<<f, p>>]
  BY ReferenceRead
<1>2. PICK h : Ranks(h, C)
  BY DEF Ranked
<1>3. /\ C \subseteq Files /\ IsFiniteSet(C) /\ Root \in Files /\ NoParam \in Givens
      /\ N \in Nat /\ Cardinality(C) \in Nat /\ Cardinality(C) <= N
  BY IncludesAssumption, FS_Subset, FS_CardinalityType DEF Sound, Givens
<1>4. Root \notin C => Cardinality(C) + 1 <= N
  <2> SUFFICES ASSUME Root \notin C
               PROVE  Cardinality(C) + 1 <= N
    OBVIOUS
  <2>1. Cardinality(C \cup {Root}) = Cardinality(C) + 1
    BY <1>3, FS_AddElement
  <2>2. C \cup {Root} \subseteq Files
    BY <1>3
  <2>3. Cardinality(C \cup {Root}) <= N
    BY <2>2, IncludesAssumption, FS_Subset
  <2> QED
    BY <2>1, <2>3
<1>5. 1 <= N
  <2>1. N # 0
    BY <1>3, IncludesAssumption, FS_EmptySet
  <2> HIDE DEF N
  <2> QED
    BY <1>3, <2>1
<1> DEFINE m == Cardinality(C)
           d == N - 1
<1>6. d \in Nat /\ d \in 0..N /\ N \in 1..N
  <2> HIDE DEF N
  <2> QED
    BY <1>3, <1>5
<1>7. \A g \in Includes(Root) \cap C : h[g] <= d
  <2> SUFFICES ASSUME NEW g \in Includes(Root) \cap C
               PROVE  h[g] <= d
    OBVIOUS
  <2> DEFINE x == h[g]
             y == h[Root]
  <2>1. x \in 1..m /\ (Root \in C => y \in 1..m /\ x < y)
    BY <1>2 DEF Ranks
  <2> HIDE DEF x, y, N, m, d
  <2>2. x <= d
    <3>1. m \in Nat /\ m <= N /\ N \in Nat /\ d = N - 1 /\ (Root \notin C => m + 1 <= N)
      BY <1>3, <1>4 DEF m, d
    <3>2. CASE Root \in C
      BY <2>1, <3>1, <3>2
    <3>3. CASE Root \notin C
      BY <2>1, <3>1, <3>3
    <3> QED
      BY <3>2, <3>3
  <2> QED
    BY <2>2 DEF x
<1> DEFINE a == Held(c)
           b == read[d]
           cut == Within(h, d, c)
<1>8. Agree(a, b, cut)
  <2>1. \A depth \in 0..N : \A key \in DOMAIN c : h[key[1]] <= depth => c[key].jobs = read[depth][key]
    BY <1>1, <1>2, <1>3, CacheRead
  <2> HIDE DEF N
  <2>2. \A key \in DOMAIN c : h[key[1]] <= d => c[key].jobs = read[d][key]
    BY <1>6, <2>1
  <2> HIDE DEF d
  <2> QED
    BY <2>2 DEF Held, Agree, Within
<1>9. read[N][<<Root, NoParam>>] = ReadFrom(b, Root, NoParam)
  <2> HIDE DEF N
  <2> QED
    BY <1>1, <1>3, <1>6, ReadingBelow
<1> HIDE DEF N, d, a, b, cut
<1>10. AllRead(Root, cut)
  BY <1>3, <1>7, ReadWithin DEF cut
<1>11. ReadFrom(a, Root, NoParam) = ReadFrom(b, Root, NoParam)
  BY <1>8, <1>10, SameReading
<1> QED
  BY <1>1, <1>9, <1>11 DEF a

\* A file whose includes have been read is ranked after them.
LEMMA RankedMore ==
    ASSUME NEW C, Sound(C), Ranked(C), NEW f \in Files, Includes(f) \subseteq C
    PROVE  Ranked(C \cup {f})
<1> DEFINE D == C \cup {f}
           m == Cardinality(C)
<1>1. PICK h : Ranks(h, C)
  BY DEF Ranked
<1>2. IsFiniteSet(C) /\ m \in Nat
  BY IncludesAssumption, FS_Subset, FS_CardinalityType DEF Sound
<1>3. CASE f \in C
  <2>1. D = C
    BY <1>3
  <2> QED
    BY <2>1
<1>4. CASE f \notin C
  <2> DEFINE r == [g \in D |-> IF g = f THEN m + 1 ELSE h[g]]
  <2>1. Cardinality(D) = m + 1
    BY <1>2, <1>4, FS_AddElement
  <2>2. /\ \A g \in C : h[g] \in 1..m /\ Includes(g) \subseteq C
        /\ \A g \in C : \A e \in Includes(g) : h[e] < h[g]
    BY <1>1 DEF Ranks, Sound
  <2>3. r[f] = m + 1 /\ \A g \in C : r[g] = h[g]
    BY <1>4
  <2> HIDE DEF r, m
  <2>4. \A g \in C : r[g] \in 1..(m + 1) /\ r[g] < r[f]
    <3> SUFFICES ASSUME NEW g \in C
                 PROVE  r[g] \in 1..(m + 1) /\ r[g] < r[f]
      OBVIOUS
    <3> DEFINE x == r[g]
    <3>1. x \in 1..m
      BY <2>2, <2>3
    <3> HIDE DEF x
    <3>2. x \in 1..(m + 1) /\ x < m + 1
      BY <1>2, <3>1
    <3> QED
      BY <2>3, <3>2 DEF x
  <2>5. r[f] \in 1..(m + 1)
    BY <1>2, <2>3
  <2>6. ASSUME NEW g \in D
        PROVE  r[g] \in 1..(m + 1) /\ \A e \in Includes(g) : r[e] < r[g]
    <3>1. CASE g = f
      BY <2>4, <2>5, <3>1
    <3>2. CASE g \in C
      BY <2>2, <2>3, <2>4, <3>2
    <3> QED
      BY <3>1, <3>2
  <2>7. Ranks(r, D)
    BY <2>1, <2>6 DEF Ranks
  <2> QED
    BY <2>7 DEF Ranked
<1> QED
  BY <1>3, <1>4

\* d is c with frag for one more key.
Joins(d, c, key, frag) == d = [k \in DOMAIN c \cup {key} |-> IF k = key THEN frag ELSE c[k]]

\* A file that has been read joins the cache.
LEMMA CacheMore ==
    ASSUME NEW c, CacheReads(c), NEW f \in Files, NEW p \in Givens, AllRead(f, c),
           NEW frag, IsJobs(frag.jobs), frag.jobs = ReadFrom(Held(c), f, p),
           NEW d, Joins(d, c, <<f, p>>, frag)
    PROVE  CacheReads(d) /\ Extends(c, d)
<1> DEFINE key == <<f, p>>
<1>1. key[1] = f /\ key[2] = p
  OBVIOUS
<1> HIDE DEF key
<1>2. /\ DOMAIN d = DOMAIN c \cup {key} /\ d[key] = frag
      /\ \A k \in DOMAIN c : k # key => d[k] = c[k]
  BY DEF key, Joins
<1>3. \A k \in DOMAIN c :
        /\ k = <<k[1], k[2]>> /\ k[1] \in Files /\ k[2] \in Givens
        /\ AllRead(k[1], c) /\ IsJobs(c[k].jobs)
        /\ c[k].jobs = ReadFrom(Held(c), k[1], k[2])
  BY DEF CacheReads
<1>4. Extends(c, d)
  <2>1. key \in DOMAIN c => c[key].jobs = frag.jobs
    BY <1>1, <1>3
  <2> QED
    BY <1>2, <2>1 DEF Extends
<1>5. \A g : AllRead(g, c) => AllRead(g, d)
  BY <1>4 DEF AllRead, IsRead, Extends
<1>6. \A g, q : AllRead(g, c) => ReadFrom(Held(c), g, q) = ReadFrom(Held(d), g, q)
  <2> SUFFICES ASSUME NEW g, NEW q, AllRead(g, c)
               PROVE  ReadFrom(Held(c), g, q) = ReadFrom(Held(d), g, q)
    OBVIOUS
  <2> DEFINE a == Held(c)
             b == Held(d)
  <2>1. Agree(a, b, c)
    BY <1>4 DEF Agree, Held, Extends
  <2> HIDE DEF a, b
  <2>2. ReadFrom(a, g, q) = ReadFrom(b, g, q)
    BY <2>1, SameReading
  <2> QED
    BY <2>2 DEF a, b
<1>7. ASSUME NEW k \in DOMAIN d
      PROVE  /\ k = <<k[1], k[2]>> /\ k[1] \in Files /\ k[2] \in Givens
             /\ AllRead(k[1], d) /\ IsJobs(d[k].jobs)
             /\ d[k].jobs = ReadFrom(Held(d), k[1], k[2])
  <2>1. CASE k = key
    <3>1. key = <<key[1], key[2]>>
      BY DEF key
    <3> QED
      BY <1>1, <1>2, <1>5, <1>6, <2>1, <3>1
  <2>2. CASE k # key
    <3>1. k \in DOMAIN c /\ d[k] = c[k]
      BY <1>2, <2>2
    <3> QED
      BY <1>3, <1>5, <1>6, <3>1
  <2> QED
    BY <2>1, <2>2
<1> QED
  BY <1>4, <1>7 DEF CacheReads

-----------------------------------------------------------------------------
(* What the steps make of it.                                              *)

\* A frame at its beginning has collected nothing.
LEMMA NothingCollected ==
    ASSUME NEW fr, fr.pos = 1, fr.groups = <<>>, fr.inline = <<>>, NEW c
    PROVE  Collected(fr, c)
<1>1. IsGroups(<<>>) /\ IsJobs(<<>>)
  <2>1. DOMAIN <<>> = {}
    OBVIOUS
  <2> QED
    BY <2>1, ShortLists DEF IsGroups, IsJobs
<1>2. fr.pos - 1 = 0 /\ 1..0 = {}
  OBVIOUS
<1>3. Flushed(fr) = <<>>
  BY DEF Flushed
<1>4. GroupsOf(fr.file, fr.pos - 1, c) = <<>>
  <2> DEFINE gs == GroupsOf(fr.file, fr.pos - 1, c)
  <2>1. gs = [i \in 1..0 |-> GroupOf(Nodes(fr.file)[i], Held(c))]
    BY <1>2 DEF GroupsOf
  <2>2. gs = [i \in 1..0 |-> gs[i]]
    BY <2>1
  <2> HIDE DEF gs
  <2>3. IsList(gs) /\ Len(gs) = 0
    BY <2>2, MakeList
  <2>4. gs = <<>>
    BY <2>3, EmptySeq DEF IsList
  <2> QED
    BY <2>4 DEF gs
<1> QED
  BY <1>1, <1>2, <1>3, <1>4 DEF Collected

\* A file that is opened has collected nothing yet.
LEMMA OpeningRead ==
    ASSUME NEW s, IsList(s), Len(s) > 0, NEW c, StackReads(s, c),
           NEW f, NEW given, NEW as, given = Nodes(s[Len(s)].file)[s[Len(s)].pos].given
    PROVE  StackReads(Append(s, Frame(f, given, as)), c)
<1> DEFINE fr == Frame(f, given, as)
           t == Append(s, fr)
           n == Len(s)
<1>1. n \in Nat /\ n > 0
  BY ListFacts
<1>2. /\ Len(t) = n + 1
      /\ \A k \in 1..n : t[k] = s[k]
      /\ t[n + 1] = fr
  <2> HIDE DEF fr
  <2>1. Lengthens(t, s, fr)
    BY Lengthened
  <2> HIDE DEF t
  <2> QED
    BY <2>1 DEF Lengthens
<1>3. /\ fr.given = given /\ fr.file = f /\ fr.pos = 1
      /\ fr.groups = <<>> /\ fr.inline = <<>>
  BY DEF Frame
<1> HIDE DEF fr, t
<1>4. Collected(fr, c)
  BY <1>3, NothingCollected
<1>5. \A k \in 1..(n + 1) : Collected(t[k], c)
  <2>1. \A k \in 1..(n + 1) : k \in 1..n \/ k = n + 1
    BY <1>1
  <2>2. \A k \in 1..n : Collected(s[k], c)
    BY DEF StackReads
  <2> QED
    BY <1>2, <1>4, <2>1, <2>2
<1>6. Given(t)
  <2>1. s[1].given = NoParam /\ t[1] = s[1] /\ t[n] = s[n]
    BY <1>1, <1>2 DEF StackReads, Given
  <2>2. ASSUME NEW k \in 1..n
        PROVE  t[k + 1].given = Nodes(t[k].file)[t[k].pos].given
    <3>1. CASE k = n
      BY <1>2, <1>3, <2>1, <3>1
    <3>2. CASE k # n
      <4>1. k \in 1..(n - 1) /\ k + 1 \in 1..n
        BY <1>1, <3>2
      <4>2. s[k + 1].given = Nodes(s[k].file)[s[k].pos].given
        BY <4>1 DEF StackReads, Given
      <4> QED
        BY <1>2, <4>1, <4>2
    <3> QED
      BY <3>1, <3>2
  <2>3. Len(t) - 1 = n
    BY <1>1, <1>2
  <2> QED
    BY <2>1, <2>2, <2>3 DEF Given
<1> QED
  BY <1>2, <1>5, <1>6 DEF StackReads, t, fr

\* The top frame passes a node.
LEMMA PassingRead ==
    ASSUME NEW s, IsList(s), Len(s) > 0, NEW c, StackReads(s, c),
           NEW fr, fr.given = s[Len(s)].given, Collected(fr, c)
    PROVE  StackReads(Replaced(s, fr), c)
<1> DEFINE t == Replaced(s, fr)
           n == Len(s)
<1>1. n \in Nat /\ n > 0
  BY ListFacts
<1>2. /\ Len(t) = n /\ t[n] = fr
      /\ \A k \in 1..(n - 1) : t[k] = s[k]
  BY Replacing DEF IsList
<1> HIDE DEF t
<1>3. \A k \in 1..n : (k \in 1..(n - 1) \/ k = n) /\ t[k].given = s[k].given
  <2>1. \A k \in 1..n : k \in 1..(n - 1) \/ k = n
    BY <1>1
  <2> QED
    BY <1>2, <2>1
<1>4. \A k \in 1..n : Collected(t[k], c)
  <2>1. \A k \in 1..n : Collected(s[k], c)
    BY DEF StackReads
  <2> QED
    BY <1>2, <1>3, <2>1
<1>5. Given(t)
  <2>1. t[1].given = NoParam
    <3>1. 1 \in 1..n
      BY <1>1
    <3> QED
      BY <1>3, <3>1 DEF StackReads, Given
  <2>2. \A k \in 1..(n - 1) : k + 1 \in 1..n
    BY <1>1
  <2>3. \A k \in 1..(n - 1) : s[k + 1].given = Nodes(s[k].file)[s[k].pos].given
    BY DEF StackReads, Given
  <2> QED
    BY <1>2, <1>3, <2>1, <2>2, <2>3 DEF Given
<1> QED
  BY <1>2, <1>4, <1>5 DEF StackReads, t

\* The top frame is left.
LEMMA LeavingRead ==
    ASSUME NEW s, IsList(s), Len(s) > 1, NEW c, StackReads(s, c)
    PROVE  StackReads(Front(s), c)
<1> DEFINE t == Front(s)
           n == Len(s)
<1>1. n \in Nat /\ n > 1
  BY ListFacts
<1>2. Len(t) = n - 1 /\ \A k \in 1..(n - 1) : t[k] = s[k]
  BY <1>1, Popping DEF IsList
<1> HIDE DEF t
<1>3. /\ \A k \in 1..(n - 1) : k \in 1..n
      /\ \A k \in 1..(n - 1 - 1) : k \in 1..(n - 1) /\ k + 1 \in 1..(n - 1)
      /\ 1 \in 1..(n - 1)
  BY <1>1
<1>4. \A k \in 1..(n - 1) : Collected(t[k], c)
  BY <1>2, <1>3 DEF StackReads
<1>5. Given(t)
  BY <1>2, <1>3 DEF StackReads, Given
<1> QED
  BY <1>2, <1>4, <1>5 DEF StackReads, t

\* The cache holds more.
LEMMA StackStill ==
    ASSUME NEW s, NEW c, StackReads(s, c), NEW d, Extends(c, d)
    PROVE  StackReads(s, d)
BY CollectedStill DEF StackReads

\* Nothing of it depends on more than the disk.
LEMMA SameReads ==
    ASSUME disk' = disk
    PROVE  /\ \A s, c : StackReads(s, c)' <=> StackReads(s, c)
           /\ \A c : CacheReads(c)' <=> CacheReads(c)
           /\ \A C : Ranked(C)' <=> Ranked(C)
           /\ Reference(Root, NoParam)' = Reference(Root, NoParam)
<1>1. \A f : Nodes(f)' = Nodes(f) /\ Includes(f)' = Includes(f)
  BY SameGraph
<1>2. \A fr, c : Collected(fr, c)' <=> Collected(fr, c)
  BY <1>1 DEF Collected, GroupsOf
<1>3. \A s : Given(s)' <=> Given(s)
  BY <1>1 DEF Given
<1>4. \A s, c : StackReads(s, c)' <=> StackReads(s, c)
  BY <1>2, <1>3 DEF StackReads
<1>5. \A b, f, p : ReadFrom(b, f, p)' = ReadFrom(b, f, p)
  BY DEF ReadFrom
<1>6. Givens' = Givens
  BY DEF Givens
<1>7. \A f, c : AllRead(f, c)' <=> AllRead(f, c)
  BY <1>1 DEF AllRead
<1>8. \A c : CacheReads(c)' <=> CacheReads(c)
  BY <1>5, <1>6, <1>7 DEF CacheReads
<1>9. \A h, C : Ranks(h, C)' <=> Ranks(h, C)
  BY <1>1 DEF Ranks
<1>10. \A C : Ranked(C)' <=> Ranked(C)
  BY <1>9 DEF Ranked
<1>11. Reference(Root, NoParam)' = Reference(Root, NoParam)
  BY <1>5, <1>6, ZenonT(60) DEF Reference
<1> QED
  BY <1>4, <1>8, <1>10, <1>11

\* What the invariant says of the next state, with the stack, the cache and the
\* files read named there.
LEMMA CacheCarried ==
    ASSUME disk' = disk, NEW s, s = stack', NEW c, c = cache', NEW C, C = Parsed',
           StackReads(s, c), CacheReads(c), Ranked(C),
           phase' = "merged" => jobs' = Reference(Root, NoParam),
           phase' \in {"merged", "done"} => IsJobs(jobs')
    PROVE  CacheInv'
<1>1. StackReads(stack, cache)'
  <2>1. StackReads(s, c)'
    BY SameReads
  <2> QED
    BY <2>1 DEF StackReads, Given, Collected, GroupsOf, Nodes
<1>2. CacheReads(cache)'
  <2>1. CacheReads(c)'
    BY SameReads
  <2> QED
    BY <2>1 DEF CacheReads, AllRead, ReadFrom
<1>3. Ranked(Parsed)'
  <2>1. Ranked(C)'
    BY SameReads
  <2> QED
    BY <2>1 DEF Ranked, Ranks
<1>4. (phase = "merged" => jobs = Reference(Root, NoParam))'
  BY SameReads
<1>5. (phase \in {"merged", "done"} => IsJobs(jobs))'
  OBVIOUS
<1> QED
  BY <1>1, <1>2, <1>3, <1>4, <1>5 DEF CacheInv

\* What is left alone keeps the invariant.
LEMMA CacheKept ==
    ASSUME CacheInv, disk' = disk, stack' = stack, cache' = cache,
           phase' = "merged" => phase = "merged", phase' = "done" => phase = "done", jobs' = jobs
    PROVE  CacheInv'
<1>1. PICK s, c, C : s = stack /\ c = cache /\ C = Parsed
  OBVIOUS
<1>2. StackReads(s, c) /\ CacheReads(c) /\ Ranked(C)
  BY <1>1 DEF CacheInv
<1>3. s = stack' /\ c = cache' /\ C = Parsed'
  BY <1>1 DEF Parsed
<1>4. /\ phase' = "merged" => jobs' = Reference(Root, NoParam)
      /\ phase' \in {"merged", "done"} => IsJobs(jobs')
  BY DEF CacheInv
<1> QED
  BY <1>2, <1>3, <1>4, CacheCarried

\* An error keeps the invariant.
LEMMA FailRead ==
    ASSUME CacheInv, NEW e, Fail(e)
    PROVE  CacheInv'
BY CacheKept DEF Fail, stateVars

\* The frame on top and its node.
LEMMA TopRead ==
    ASSUME IncludesInv, CacheInv
    PROVE  /\ disk \in Worlds /\ IsList(stack) /\ Len(stack) > 0 /\ Top = stack[Len(stack)]
           /\ IsFrame(Top) /\ Collected(Top, cache) /\ HoldsJobs(cache)
           /\ ~AtEnd => /\ Top.pos <= Len(Nodes(Top.file)) /\ Node = Nodes(Top.file)[Top.pos]
                        /\ Node.kind = "job" => IsJob(Node.job)
<1>1. disk \in Worlds /\ IsList(stack) /\ Len(stack) > 0 /\ Len(stack) \in Nat
  BY OpenFilesPath DEF IncludesInv, OpenFiles, IsList
<1>2. IsFrame(Top)
  BY AtNode
<1>3. Len(stack) \in 1..Len(stack)
  BY <1>1
<1>4. Collected(Top, cache)
  BY <1>3 DEF CacheInv, StackReads, Top
<1>5. HoldsJobs(cache)
  BY DEF CacheInv, CacheReads, HoldsJobs
<1>6. ASSUME ~AtEnd
      PROVE  /\ Top.pos <= Len(Nodes(Top.file)) /\ Node = Nodes(Top.file)[Top.pos]
             /\ Node.kind = "job" => IsJob(Node.job)
  <2>1. Top.pos <= Len(Nodes(Top.file)) /\ Node = Nodes(Top.file)[Top.pos]
    BY <1>6, AtNode DEF Node, File, Nodes
  <2>2. Top.file \in Files /\ Top.pos \in DOMAIN Nodes(Top.file)
    BY <1>1, <1>2, <2>1, NodesCounted DEF IsFrame
  <2>3. Node \in Range(disk[Top.file].nodes)
    BY <2>1, <2>2 DEF Range, Nodes
  <2> QED
    BY <1>1, <2>1, <2>2, <2>3, WorldsAssumption DEF IsJob
<1> QED
  BY <1>1, <1>2, <1>4, <1>5, <1>6 DEF Top

\* A job is read.
LEMMA JobRead ==
    ASSUME IncludesInv, CacheInv, ParseJob
    PROVE  CacheInv'
<1> DEFINE fr == [Top EXCEPT !.pos = @ + 1, !.inline = Append(@, Node.job)]
<1>1. /\ ~AtEnd /\ Node.kind = "job" /\ stack' = Replaced(stack, fr)
      /\ disk' = disk /\ cache' = cache /\ phase' = phase /\ jobs' = jobs
  BY DEF ParseJob, stateVars
<1>2. /\ disk \in Worlds /\ IsList(stack) /\ Len(stack) > 0 /\ Top = stack[Len(stack)]
      /\ IsFrame(Top) /\ Collected(Top, cache) /\ HoldsJobs(cache)
      /\ Top.pos <= Len(Nodes(Top.file)) /\ Node = Nodes(Top.file)[Top.pos]
      /\ IsJob(Node.job)
  BY <1>1, TopRead
<1>3. IsGroups(Top.groups) /\ IsJobs(Top.inline)
  BY <1>2, SMTT(30) DEF Collected
<1>4. /\ fr.groups = Top.groups /\ IsJobs(fr.inline)
      /\ Offered(Flushed(fr)) = Offered(Flushed(Top)) \o <<[job |-> Node.job, skip |-> FALSE]>>
  BY <1>2, <1>3, JobOffered, ZenonT(60)
<1>5. fr.file = Top.file /\ fr.pos = Top.pos + 1 /\ fr.given = Top.given
  BY <1>2 DEF IsFrame, Fields
<1>6. PICK s, c, C : s = stack' /\ c = cache /\ C = Parsed
  OBVIOUS
<1> HIDE DEF fr
<1> DEFINE gr == GroupOf(Node, Held(c))
<1>7. OffersOf(gr) = <<[job |-> Node.job, skip |-> FALSE]>>
  <2> DEFINE j == Node.job
             js == <<j>>
             offer == [job |-> j, skip |-> FALSE]
  <2>1. gr.jobs = js /\ gr.skip = FALSE
    BY <1>1 DEF GroupOf
  <2>2. IsList(js) /\ Len(js) = 1 /\ DOMAIN js = {1} /\ js[1] = j /\ IsJob(j)
    BY <1>2, ShortLists
  <2> HIDE DEF gr, js
  <2>3. IsJobs(js)
    BY <2>2 DEF IsJobs
  <2>4. IsList(OffersOf(gr)) /\ Len(OffersOf(gr)) = 1 /\ OffersOf(gr)[1] = offer
    <3>1. /\ IsList(OffersOf(gr)) /\ Len(OffersOf(gr)) = Len(gr.jobs)
          /\ \A k \in 1..Len(gr.jobs) : OffersOf(gr)[k] = [job |-> gr.jobs[k], skip |-> gr.skip]
      BY <2>1, <2>3, OffersListed
    <3> QED
      BY <2>1, <2>2, <3>1
  <2> HIDE DEF offer
  <2>5. IsList(<<offer>>) /\ Len(<<offer>>) = 1 /\ <<offer>>[1] = offer
    BY ShortLists
  <2>6. OffersOf(gr) = <<offer>>
    <3> DEFINE t == <<offer>>
    <3>1. IsList(t) /\ Len(t) = 1 /\ t[1] = offer
      BY <2>5
    <3> HIDE DEF t
    <3>2. OffersOf(gr) = t
      BY <2>4, <3>1, SameList
    <3> QED
      BY <3>2 DEF t
  <2> QED
    BY <2>6 DEF j, offer
<1> HIDE DEF gr
<1>8. IsRead(Node, c)
  <2>1. Node.kind = "job"
    BY <1>1
  <2>2. IsJob(Node.job)
    BY <1>2, SMTT(30)
  <2> QED
    BY <2>1, <2>2 DEF IsRead
<1>9. Collected(fr, c)
  <2>1. /\ Collected(Top, c) /\ HoldsJobs(c) /\ IsGroups(fr.groups)
        /\ Offered(Flushed(fr)) = Offered(Flushed(Top)) \o OffersOf(gr)
    BY <1>2, <1>3, <1>4, <1>6, <1>7
  <2>2. gr = GroupOf(Nodes(Top.file)[Top.pos], Held(c)) /\ IsRead(Nodes(Top.file)[Top.pos], c)
    BY <1>2, <1>8 DEF gr
  <2> QED
    BY <1>2, <1>4, <1>5, <2>1, <2>2, CollectedMore
<1>10. StackReads(s, c)
  <2>1. StackReads(stack, c)
    BY <1>6 DEF CacheInv
  <2> QED
    BY <1>1, <1>2, <1>5, <1>6, <1>9, <2>1, PassingRead
<1>11. c = cache' /\ C = Parsed'
  BY <1>1, <1>6 DEF Parsed
<1>12. phase' \notin {"merged", "done"}
  BY <1>1 DEF ParseJob, Parsing
<1>13. CacheReads(c) /\ Ranked(C)
  BY <1>6 DEF CacheInv
<1> QED
  BY <1>1, <1>6, <1>10, <1>11, <1>12, <1>13, CacheCarried

\* The node is an include whose jobs the cache holds.
Holds(c, n, js) ==
    /\ n.kind = "include" /\ <<n.source, n.given>> \in DOMAIN c
    /\ c[<<n.source, n.given>>].jobs = js

\* The frame passes an include whose jobs are in the cache.
LEMMA IncludeCollected ==
    ASSUME disk \in Worlds, NEW c, HoldsJobs(c), NEW fr, IsFrame(fr), Collected(fr, c),
           fr.pos <= Len(Nodes(fr.file)), NEW n, n = Nodes(fr.file)[fr.pos],
           NEW js, Holds(c, n, js)
    PROVE  Collected(WithInclude(fr, js, n.skip), c)
<1> DEFINE key == <<n.source, n.given>>
           next == WithInclude(fr, js, n.skip)
           gr == GroupOf(n, Held(c))
           new == [jobs |-> js, skip |-> n.skip]
<1>0. n.kind = "include" /\ key \in DOMAIN c /\ c[key].jobs = js
  BY DEF Holds
<1>1. IsGroups(fr.groups) /\ IsJobs(fr.inline) /\ IsJobs(js) /\ Len(Nodes(fr.file)) \in Nat
  <2> HIDE DEF key
  <2> QED
    BY <1>0, NodesCounted DEF Collected, HoldsJobs, IsFrame
<1>2. /\ IsGroups(next.groups) /\ IsJobs(next.inline)
      /\ Offered(Flushed(next)) = Offered(Flushed(fr)) \o OffersOf(new)
  <2>1. next = WithInclude(fr, js, n.skip) /\ new = [jobs |-> js, skip |-> n.skip]
    OBVIOUS
  <2> HIDE DEF next, new
  <2> QED
    BY <1>1, <2>1, IncludeOffered, SMTT(30)
<1>3. next.file = fr.file /\ next.pos = fr.pos + 1
  BY <1>1, PassingInclude
<1>4. gr = new
  <2>1. Held(c)[key] = js
    <3> HIDE DEF key
    <3> QED
      BY <1>0 DEF Held
  <2> QED
    BY <1>0, <2>1 DEF GroupOf
<1>5. IsRead(n, c)
  BY <1>0 DEF IsRead
<1> HIDE DEF next, gr, new
<1>6. Offered(Flushed(next)) = Offered(Flushed(fr)) \o OffersOf(GroupOf(Nodes(fr.file)[fr.pos], Held(c)))
  BY <1>2, <1>4 DEF gr
<1>7. Collected(next, c)
  BY <1>2, <1>3, <1>5, <1>6, CollectedMore
<1> QED
  BY <1>7 DEF next

\* An include of what has been read.
LEMMA CachedRead ==
    ASSUME IncludesInv, CacheInv, IncludeCached
    PROVE  CacheInv'
<1> DEFINE frag == cache[Key(Node.source, Node.given)]
           fr == WithInclude(Top, frag.jobs, Node.skip)
<1>1. CASE Fail("duplicateAlias")
  BY <1>1, FailRead
<1>2. CASE ~Fail("duplicateAlias")
  <2>1. /\ ~AtEnd /\ Node.kind = "include" /\ <<Node.source, Node.given>> \in DOMAIN cache
        /\ stack' = Replaced(stack, fr) /\ disk' = disk /\ cache' = cache /\ jobs' = jobs
        /\ phase' = "parse"
    BY <1>2 DEF IncludeCached, Pushed, Including, Parsing, Key
  <2>2. /\ disk \in Worlds /\ IsList(stack) /\ Len(stack) > 0 /\ Top = stack[Len(stack)]
        /\ IsFrame(Top) /\ Collected(Top, cache) /\ HoldsJobs(cache)
        /\ Top.pos <= Len(Nodes(Top.file)) /\ Node = Nodes(Top.file)[Top.pos]
    BY <2>1, TopRead
  <2>3. fr.given = Top.given
    <3> HIDE DEF frag
    <3> QED
      BY <2>2 DEF WithInclude, IsFrame, Fields
  <2>4. PICK s, c, C : s = stack' /\ c = cache /\ C = Parsed
    OBVIOUS
  <2>5. Collected(fr, c)
    <3> DEFINE js == frag.jobs
    <3>1. js = c[<<Node.source, Node.given>>].jobs
      BY <2>4 DEF Key
    <3>2. <<Node.source, Node.given>> \in DOMAIN c
      BY <2>1, <2>4
    <3> HIDE DEF frag
    <3>3. IsFrame(Top) /\ Collected(Top, c) /\ HoldsJobs(c) /\ disk \in Worlds
      BY <2>2, <2>4
    <3> HIDE DEF js
    <3>4. Holds(c, Node, js)
      BY <2>1, <3>1, <3>2 DEF Holds
    <3>5. Collected(WithInclude(Top, js, Node.skip), c)
      BY <2>2, <3>3, <3>4, IncludeCollected
    <3> QED
      BY <3>5 DEF js
  <2> HIDE DEF fr
  <2>6. StackReads(s, c)
    <3>1. StackReads(stack, c)
      BY <2>4 DEF CacheInv
    <3> QED
      BY <2>1, <2>2, <2>3, <2>4, <2>5, <3>1, PassingRead
  <2>7. c = cache' /\ C = Parsed'
    BY <2>1, <2>4 DEF Parsed
  <2>8. CacheReads(c) /\ Ranked(C)
    BY <2>4 DEF CacheInv
  <2> QED
    BY <2>1, <2>4, <2>6, <2>7, <2>8, CacheCarried
<1> QED
  BY <1>1, <1>2

\* A file is opened.
LEMMA OpensRead ==
    ASSUME IncludesInv, CacheInv, IncludeOpens
    PROVE  CacheInv'
<1>1. /\ ~AtEnd /\ stack' = Append(stack, Frame(Node.source, Node.given, Node.as))
      /\ disk' = disk /\ cache' = cache /\ jobs' = jobs /\ phase' \notin {"merged", "done"}
  BY DEF IncludeOpens, Pushed, Including, Parsing
<1>2. /\ IsList(stack) /\ Len(stack) > 0 /\ Top = stack[Len(stack)]
      /\ Node = Nodes(Top.file)[Top.pos]
  BY <1>1, TopRead
<1>3. PICK s, c, C : s = stack' /\ c = cache /\ C = Parsed
  OBVIOUS
<1>4. StackReads(s, c)
  <2>1. StackReads(stack, c)
    BY <1>3 DEF CacheInv
  <2> QED
    BY <1>1, <1>2, <1>3, <2>1, OpeningRead
<1>5. c = cache' /\ C = Parsed'
  BY <1>1, <1>3 DEF Parsed
<1>6. CacheReads(c) /\ Ranked(C)
  BY <1>3 DEF CacheInv
<1> QED
  BY <1>1, <1>3, <1>4, <1>5, <1>6, CacheCarried

\* An error returns through a file.
LEMMA UnwindRead ==
    ASSUME IncludesInv, CacheInv, Unwind
    PROVE  CacheInv'
<1>1. /\ Len(stack) > 1 /\ stack' = Front(stack)
      /\ disk' = disk /\ cache' = cache /\ jobs' = jobs /\ phase' \notin {"merged", "done"}
  BY DEF Unwind
<1>2. PICK s, c, C : s = stack' /\ c = cache /\ C = Parsed
  OBVIOUS
<1>3. StackReads(s, c)
  <2>1. StackReads(stack, c) /\ IsList(stack)
    BY <1>2, TopRead DEF CacheInv
  <2> QED
    BY <1>1, <1>2, <2>1, LeavingRead
<1>4. c = cache' /\ C = Parsed'
  BY <1>1, <1>2 DEF Parsed
<1>5. CacheReads(c) /\ Ranked(C)
  BY <1>2 DEF CacheInv
<1> QED
  BY <1>1, <1>2, <1>3, <1>4, <1>5, CacheCarried

\* The file that is closed has been read to its end.
LEMMA ParsedMore ==
    ASSUME CloseInclude
    PROVE  Parsed' = Parsed \cup {Top.file}
<1> DEFINE f == Top.file
           key == <<f, Top.given>>
<1>1. key[1] = f
  OBVIOUS
<1>2. DOMAIN cache' = DOMAIN cache \cup {key}
  BY DEF CloseInclude, Key
<1> HIDE DEF key, f
<1>3. \A g : g \in Parsed' <=> \E k \in DOMAIN cache \cup {key} : g = k[1]
  BY <1>2 DEF Parsed
<1>4. \A g : g \in Parsed <=> \E k \in DOMAIN cache : g = k[1]
  BY DEF Parsed
<1>5. Parsed' = Parsed \cup {f}
  BY <1>1, <1>3, <1>4
<1> QED
  BY <1>5 DEF f

\* What an open file was given is what its include says.
LEMMA GivenBelow ==
    ASSUME IncludesInv, CacheInv, Len(stack) > 1
    PROVE  LET parent == Last(Front(stack))
               n == Nodes(parent.file)[parent.pos]
           IN  /\ IsFrame(parent) /\ parent.pos <= Len(Nodes(parent.file))
               /\ n.kind = "include" /\ n.source = Top.file /\ n.given = Top.given
               /\ Top.given \in Givens
               /\ IsList(Front(stack)) /\ Len(Front(stack)) > 0
               /\ parent = Front(stack)[Len(Front(stack))]
<1> DEFINE below == Front(stack)
           parent == Last(below)
           l == Len(stack)
<1>1. OpenFiles(stack, Parsed) /\ IsList(stack) /\ l \in Nat /\ l > 1 /\ disk \in Worlds
  BY OpenFilesPath DEF IncludesInv, OpenFiles, IsList
<1>2. IsList(below) /\ Len(below) = l - 1 /\ below[l - 1] = stack[l - 1]
  BY <1>1, Popping DEF IsList
<1>3. parent = below[Len(below)] /\ parent = stack[l - 1]
  BY <1>2 DEF Last
<1>4. l - 1 \in 1..(l - 1) /\ l - 1 \in 1..l /\ (l - 1) + 1 = l
  BY <1>1
<1>5. IsFrame(parent) /\ AtIncludeOf(parent, stack[l].file)
  BY <1>1, <1>3, <1>4 DEF OpenFiles
<1> HIDE DEF below, parent
<1>6. stack[l].given = Nodes(parent.file)[parent.pos].given
  <2>1. \A k \in 1..(l - 1) : stack[k + 1].given = Nodes(stack[k].file)[stack[k].pos].given
    BY DEF CacheInv, StackReads, Given
  <2>2. stack[(l - 1) + 1].given = Nodes(stack[l - 1].file)[stack[l - 1].pos].given
    BY <1>4, <2>1
  <2> QED
    BY <1>3, <1>4, <2>2
<1>7. Top.given \in Givens
  <2> DEFINE n == Nodes(parent.file)[parent.pos]
  <2>1. parent.file \in Files /\ parent.pos \in DOMAIN Nodes(parent.file) /\ n.kind = "include"
    BY <1>1, <1>5, NodesCounted DEF IsFrame, AtIncludeOf
  <2>2. n \in Range(disk[parent.file].nodes)
    BY <2>1 DEF Range, Nodes
  <2> HIDE DEF n
  <2>3. n.given \in Givens
    BY <2>1, <2>2 DEF Givens
  <2> QED
    BY <1>6, <2>3 DEF Top, n
<1>8. Len(below) > 0
  BY <1>1, <1>2
<1> QED
  BY <1>2, <1>3, <1>5, <1>6, <1>7, <1>8 DEF AtIncludeOf, Top, below, parent

\* The end of an included file.
LEMMA CloseRead ==
    ASSUME IncludesInv, CacheInv, CloseInclude
    PROVE  CacheInv'
<1> DEFINE f == Top.file
           p == Top.given
           js == SubstituteParams(MergeJobs(Offered(Flushed(Top))), disk[f].param, p)
           frag == [name |-> disk[f].name, jobs |-> js]
           below == Front(stack)
           parent == Last(below)
           n == Nodes(parent.file)[parent.pos]
<1>1. /\ AtEnd /\ Len(stack) > 1 /\ disk' = disk /\ jobs' = jobs /\ phase = "parse"
      /\ cache' = [k \in DOMAIN cache \cup {<<f, p>>} |-> IF k = <<f, p>> THEN frag ELSE cache[k]]
      /\ \/ stack' = stack /\ phase' = "failed"
         \/ stack' = Replaced(below, WithInclude(parent, js, n.skip)) /\ phase' = phase
  BY DEF CloseInclude, Closing, Parsing, Key, File, Nodes
<1>2. /\ disk \in Worlds /\ IsList(stack) /\ IsFrame(Top) /\ Collected(Top, cache)
      /\ Sound(Parsed) /\ Ranked(Parsed) /\ f \in Files /\ Includes(f) \subseteq Parsed
      /\ Top.pos > Len(Nodes(f))
  BY <1>1, TopRead, AllPassed DEF IncludesInv, CacheInv, AtEnd, File, Nodes
<1>3. IsJobs(js) /\ js = ReadFrom(Held(cache), f, p) /\ AllRead(f, cache)
  BY <1>2, EndCollected
<1>4. /\ IsFrame(parent) /\ parent.pos <= Len(Nodes(parent.file))
      /\ n.kind = "include" /\ n.source = f /\ n.given = p /\ p \in Givens
      /\ IsList(below) /\ Len(below) > 0 /\ parent = below[Len(below)]
  BY <1>1, GivenBelow
<1>5. PICK s, c, d, C : s = stack' /\ c = cache /\ d = cache' /\ C = Parsed'
  OBVIOUS
<1>6. Ranked(C)
  BY <1>2, <1>5, ParsedMore, RankedMore
<1>7. frag.jobs = js
  OBVIOUS
<1> HIDE DEF js, frag, below, parent
<1>8. CacheReads(d) /\ Extends(c, d)
  <2>1. CacheReads(c) /\ AllRead(f, c) /\ IsJobs(frag.jobs) /\ frag.jobs = ReadFrom(Held(c), f, p)
        /\ Joins(d, c, <<f, p>>, frag)
    BY <1>1, <1>3, <1>5, <1>7 DEF CacheInv, Joins
  <2> HIDE DEF f, p
  <2> QED
    BY <1>2, <1>4, <2>1, CacheMore
<1>9. StackReads(stack, d)
  <2>1. StackReads(stack, c)
    BY <1>5 DEF CacheInv
  <2> QED
    BY <1>8, <2>1, StackStill
<1>10. CASE stack' = stack /\ phase' = "failed"
  BY <1>1, <1>5, <1>6, <1>8, <1>9, <1>10, CacheCarried
<1>11. CASE stack' = Replaced(below, WithInclude(parent, js, n.skip)) /\ phase' = phase
  <2> DEFINE fr == WithInclude(parent, js, n.skip)
             key == <<n.source, n.given>>
  <2>1. StackReads(below, d)
    BY <1>1, <1>2, <1>9, LeavingRead DEF below
  <2>2. Collected(parent, d)
    <3>1. Len(below) \in 1..Len(below)
      BY <1>4, ListFacts
    <3> QED
      BY <1>4, <2>1, <3>1 DEF StackReads
  <2>3. HoldsJobs(d)
    BY <1>8 DEF CacheReads, HoldsJobs
  <2>4. key \in DOMAIN d /\ d[key].jobs = js
    <3>1. key = <<f, p>>
      BY <1>4
    <3> HIDE DEF key
    <3> QED
      BY <1>1, <1>5, <1>7, <3>1
  <2>5. Collected(fr, d)
    <3>1. n.kind = "include" /\ IsFrame(parent) /\ disk \in Worlds
      BY <1>2, <1>4, Zenon
    <3>2. Holds(d, n, js)
      BY <2>4, <3>1, Zenon DEF Holds
    <3>3. parent.pos <= Len(Nodes(parent.file)) /\ n = Nodes(parent.file)[parent.pos]
      BY <1>4, Zenon
    <3> HIDE DEF key
    <3>4. Collected(WithInclude(parent, js, n.skip), d)
      BY <2>2, <2>3, <3>1, <3>2, <3>3, IncludeCollected
    <3> QED
      BY <3>4
  <2>6. fr.given = parent.given
    BY <1>4 DEF WithInclude, IsFrame, Fields
  <2> HIDE DEF fr
  <2>7. StackReads(Replaced(below, fr), d)
    BY <1>4, <2>1, <2>5, <2>6, PassingRead
  <2>8. StackReads(s, d)
    BY <1>5, <1>11, <2>7 DEF fr
  <2> QED
    BY <1>1, <1>5, <1>6, <1>8, <1>11, <2>8, CacheCarried
<1> QED
  BY <1>1, <1>10, <1>11

\* The end of the root.
LEMMA FinishRead ==
    ASSUME IncludesInv, CacheInv, FinishRoot
    PROVE  CacheInv'
<1>1. CASE Fail("conflict")
  BY <1>1, FailRead
<1>2. CASE ~Fail("conflict")
  <2>1. /\ AtEnd /\ Len(stack) = 1 /\ jobs' = MergeJobs(Offered(Flushed(Top)))
        /\ disk' = disk /\ stack' = stack /\ cache' = cache
    BY <1>2 DEF FinishRoot, stateVars
  <2>2. /\ Top.file = Root /\ Top.given = NoParam /\ Top.pos > Len(Nodes(Root))
        /\ Includes(Root) \subseteq Parsed
    <3>1. Top = stack[1]
      BY <2>1 DEF Top
    <3>2. Top.file = Root /\ Top.given = NoParam
      BY <3>1, OpenFilesPath DEF CacheInv, StackReads, Given
    <3> QED
      BY <2>1, <3>2, AllPassed DEF AtEnd, File, Nodes
  <2>3. disk \in Worlds /\ IsFrame(Top) /\ Collected(Top, cache) /\ disk[Root].param = "none"
    BY TopRead, WorldsAssumption
  <2> DEFINE js == MergeJobs(Offered(Flushed(Top)))
  <2>4. /\ SubstituteParams(js, disk[Root].param, NoParam) = ReadFrom(Held(cache), Root, NoParam)
        /\ IsJobs(js) /\ AllRead(Root, cache)
    BY <2>2, <2>3, EndCollected
  <2>5. SubstituteParams(js, disk[Root].param, NoParam) = js
    BY <2>3 DEF SubstituteParams
  <2>6. PICK s, c, C : s = stack /\ c = cache /\ C = Parsed
    OBVIOUS
  <2>7. StackReads(s, c) /\ CacheReads(c) /\ Ranked(C) /\ Sound(C)
    BY <2>6 DEF CacheInv, IncludesInv
  <2>8. ReadFrom(Held(c), Root, NoParam) = Reference(Root, NoParam)
    <3>1. C = {key[1] : key \in DOMAIN c} /\ AllRead(Root, c) /\ Includes(Root) \subseteq C
      BY <2>2, <2>4, <2>6 DEF Parsed
    <3> QED
      BY <2>3, <2>7, <3>1, RootIsReference
  <2>9. js = Reference(Root, NoParam)
    BY <2>4, <2>5, <2>6, <2>8
  <2> HIDE DEF js
  <2>10. s = stack' /\ c = cache' /\ C = Parsed' /\ jobs' = js
    BY <2>1, <2>6 DEF Parsed, js
  <2> QED
    BY <2>1, <2>4, <2>7, <2>9, <2>10, CacheCarried
<1> QED
  BY <1>1, <1>2

\* The aliases are expanded: the jobs stay jobs.
LEMMA ExpandRead ==
    ASSUME IncludesInv, CacheInv, ExpandAliases
    PROVE  CacheInv'
<1>1. CASE Fail("aliasCollision")
  BY <1>1, FailRead
<1>2. CASE ~Fail("aliasCollision")
  <2> DEFINE js == [k \in DOMAIN jobs |-> [jobs[k] EXCEPT !.deps = ExpandDeps(@, aliases)]]
  <2>1. /\ phase = "merged" /\ phase' = "done" /\ jobs' = js
        /\ disk' = disk /\ stack' = stack /\ cache' = cache
    BY <1>2 DEF ExpandAliases, stateVars
  <2>2. IsJobs(js)
    <3>1. Len(jobs) \in Nat /\ DOMAIN jobs = 1..Len(jobs) /\ \A k \in DOMAIN jobs : IsJob(jobs[k])
      BY <2>1, ListFacts DEF CacheInv, IsJobs
    <3>2. \A k \in DOMAIN jobs : DOMAIN js[k] = DOMAIN jobs[k]
      OBVIOUS
    <3>3. js = [k \in 1..Len(jobs) |-> js[k]] /\ DOMAIN js = DOMAIN jobs
      BY <3>1
    <3> HIDE DEF js
    <3> QED
      BY <3>1, <3>2, <3>3, MakeList DEF IsJobs, IsJob
  <2> HIDE DEF js
  <2>3. PICK s, c, C : s = stack /\ c = cache /\ C = Parsed
    OBVIOUS
  <2>4. StackReads(s, c) /\ CacheReads(c) /\ Ranked(C)
    BY <2>3 DEF CacheInv
  <2>5. s = stack' /\ c = cache' /\ C = Parsed'
    BY <2>1, <2>3 DEF Parsed
  <2> QED
    BY <2>1, <2>2, <2>4, <2>5, CacheCarried
<1> QED
  BY <1>1, <1>2

\* At first the cache is empty and the root has collected nothing.
LEMMA CacheInit ==
    Init => CacheInv
<1> SUFFICES ASSUME Init
             PROVE  CacheInv
  OBVIOUS
<1> DEFINE fr == Frame(Root, NoParam, "")
<1>1. /\ stack = <<fr>> /\ cache = <<>> /\ phase = "parse"
      /\ fr.given = NoParam /\ fr.pos = 1 /\ fr.groups = <<>> /\ fr.inline = <<>>
  BY DEF Init, Frame
<1>2. DOMAIN cache = {} /\ Parsed = {}
  <2>1. cache = <<>>
    BY <1>1
  <2>2. DOMAIN cache = {}
    BY <2>1
  <2> QED
    BY <2>2 DEF Parsed
<1> HIDE DEF fr
<1>3. CacheReads(cache) /\ Ranked(Parsed)
  BY <1>2 DEF CacheReads, Ranked, Ranks
<1>4. Len(stack) = 1 /\ stack[1] = fr
  BY <1>1
<1>5. Collected(fr, cache)
  BY <1>1, NothingCollected
<1>6. StackReads(stack, cache)
  BY <1>1, <1>4, <1>5 DEF StackReads, Given
<1> QED
  BY <1>1, <1>3, <1>6 DEF CacheInv

\* In every behaviour.
LEMMA CacheHolds ==
    Spec => []CacheInv
<1>1. ASSUME IncludesInv, CacheInv, [Next]_vars
      PROVE  CacheInv'
  <2>1. CASE ParseJob
    BY <1>1, <2>1, JobRead
  <2>2. CASE ParseRejects
    BY <1>1, <2>2, FailRead DEF ParseRejects
  <2>3. CASE IncludeRefused
    BY <1>1, <2>3, FailRead DEF IncludeRefused
  <2>4. CASE IncludeCached
    BY <1>1, <2>4, CachedRead
  <2>5. CASE IncludeOpens
    BY <1>1, <2>5, OpensRead
  <2>6. CASE CloseRejects
    BY <1>1, <2>6, FailRead DEF CloseRejects
  <2>7. CASE CloseInclude
    BY <1>1, <2>7, CloseRead
  <2>8. CASE Unwind
    BY <1>1, <2>8, UnwindRead
  <2>9. CASE FinishRoot
    BY <1>1, <2>9, FinishRead
  <2>10. CASE ExpandAliases
    BY <1>1, <2>10, ExpandRead
  <2>11. CASE UNCHANGED vars
    BY <1>1, <2>11, CacheKept DEF vars, stateVars
  <2> QED
    BY <1>1, <2>1, <2>2, <2>3, <2>4, <2>5, <2>6, <2>7, <2>8, <2>9, <2>10, <2>11 DEF Next
<1> QED
  BY <1>1, CacheInit, InvHolds, PTL DEF Spec

\* The cache changes nothing, for any files: what it holds, and what the root's
\* jobs are in the end, is what reading every file anew gives (include.go
\* cacheKey, resolveInclude; merge.go MergeJobs).
THEOREM CacheChangesNothing ==
    Spec => []CacheTransparent
<1>1. IncludesInv /\ CacheInv => CacheTransparent
  <2> SUFFICES ASSUME IncludesInv, CacheInv
               PROVE  CacheTransparent
    OBVIOUS
  <2>1. \A k \in DOMAIN cache : cache[k].jobs = Reference(k[1], k[2])
    <3>1. Parsed = {key[1] : key \in DOMAIN cache}
      BY DEF Parsed
    <3> HIDE DEF Parsed
    <3> QED
      BY <3>1, CacheIsReference DEF IncludesInv, CacheInv
  <2> QED
    BY <2>1 DEF CacheTransparent, CacheInv
<1> QED
  BY <1>1, InvHolds, CacheHolds, PTL

-----------------------------------------------------------------------------
(* The aliases.                                                            *)

Targets(as, inc) ==
    DOMAIN as = DOMAIN inc /\ \A a \in DOMAIN as : as[a] = TerminalJobs(inc[a])

\* An alias stands for the terminal jobs of what it was registered for, and in
\* the end for itself if a job has its name.
AliasInv ==
    /\ Targets(aliases, included)
    /\ phase = "done" => ~AliasCollision(jobs, aliases)

\* Registering an alias (RegisterAlias) keeps the aliases' targets right.
LEMMA AliasRegistered ==
    ASSUME Targets(aliases, included), NEW alias, NEW js, RegisterAlias(alias, js)
    PROVE  Targets(aliases, included)'
<1>1. /\ DOMAIN aliases' = DOMAIN aliases \cup {alias}
      /\ DOMAIN included' = DOMAIN aliases \cup {alias}
  BY DEF RegisterAlias, Targets
<1>2. ASSUME NEW a \in DOMAIN aliases'
      PROVE  aliases'[a] = TerminalJobs(included'[a])
  <2>1. CASE a = alias
    BY <1>1, <2>1 DEF RegisterAlias
  <2>2. CASE a # alias
    BY <1>1, <2>2 DEF RegisterAlias, Targets
  <2> QED
    BY <2>1, <2>2
<1> QED
  BY <1>1, <1>2 DEF Targets, TerminalJobs, Names

\* A step that registers nothing and does not end the parse.
LEMMA AliasesStill ==
    ASSUME AliasInv, aliases' = aliases, included' = included, jobs' = jobs,
           phase' = "done" => phase = "done"
    PROVE  AliasInv'
BY DEF AliasInv, Targets, TerminalJobs, Names, AliasCollision

\* In the aliases' expansion the jobs keep their names.
LEMMA ExpandedNames ==
    ASSUME IsJobs(jobs), NEW js,
           js = [k \in DOMAIN jobs |-> [jobs[k] EXCEPT !.deps = ExpandDeps(@, aliases)]]
    PROVE  Names(js) = Names(jobs)
<1>1. \A k \in DOMAIN jobs : js[k].name = jobs[k].name
  BY DEF IsJobs, IsJob
<1>2. DOMAIN js = DOMAIN jobs
  OBVIOUS
<1> QED
  BY <1>1, <1>2 DEF Names

\* The aliases are expanded, so none names a job other than itself.
LEMMA AliasExpanded ==
    ASSUME IncludesInv, CacheInv, AliasInv, ExpandAliases
    PROVE  AliasInv'
<1>1. CASE Fail("aliasCollision")
  BY <1>1, AliasesStill DEF Fail, stateVars
<1>2. CASE ~Fail("aliasCollision")
  <2> DEFINE js == [k \in DOMAIN jobs |-> [jobs[k] EXCEPT !.deps = ExpandDeps(@, aliases)]]
  <2>1. /\ phase = "merged" /\ jobs' = js /\ ~AliasCollision(jobs, aliases)
        /\ aliases' = aliases /\ included' = included
    BY <1>2 DEF ExpandAliases, stateVars
  <2>2. Names(js) = Names(jobs)
    BY <2>1, ExpandedNames DEF CacheInv
  <2> HIDE DEF js
  <2>3. Names(jobs') = Names(jobs)
    BY <2>1, <2>2
  <2>4. ~AliasCollision(jobs', aliases')
    BY <2>1, <2>3 DEF AliasCollision
  <2>5. Targets(aliases', included')
    BY <2>1 DEF AliasInv
  <2> QED
    BY <2>4, <2>5 DEF AliasInv, Targets, TerminalJobs, AliasCollision, Names
<1> QED
  BY <1>1, <1>2

\* In every behaviour.
LEMMA AliasHolds ==
    Spec => []AliasInv
<1>1. Init => AliasInv
  <2> SUFFICES ASSUME Init
               PROVE  AliasInv
    OBVIOUS
  <2>1. aliases = <<>> /\ included = <<>> /\ phase = "parse"
    BY DEF Init
  <2>2. DOMAIN aliases = {} /\ DOMAIN included = {}
    <3>1. DOMAIN <<>> = {}
      OBVIOUS
    <3> QED
      BY <2>1, <3>1
  <2> QED
    BY <2>1, <2>2 DEF AliasInv, Targets
<1>2. ASSUME IncludesInv, CacheInv, AliasInv, [Next]_vars
      PROVE  AliasInv'
  <2>1. CASE ParseJob \/ ParseRejects \/ IncludeRefused \/ IncludeOpens \/ CloseRejects \/ Unwind
    <3>1. aliases' = aliases /\ included' = included /\ jobs' = jobs /\ phase' # "done"
      BY <2>1 DEF ParseJob, ParseRejects, IncludeRefused, Including, IncludeOpens, Pushed,
                  CloseRejects, Closing, Unwind, Parsing, Fail, stateVars
    <3> QED
      BY <1>2, <3>1, AliasesStill
  <2>2. CASE IncludeCached
    <3>1. CASE Fail("duplicateAlias")
      BY <1>2, <3>1, AliasesStill DEF Fail, stateVars
    <3>2. CASE ~Fail("duplicateAlias")
      <4>1. PICK alias, js : RegisterAlias(alias, js)
        BY <2>2, <3>2 DEF IncludeCached
      <4>2. phase' # "done"
        BY <2>2, <3>2 DEF IncludeCached, Pushed, Including, Parsing
      <4> QED
        BY <1>2, <4>1, <4>2, AliasRegistered DEF AliasInv
    <3> QED
      BY <3>1, <3>2
  <2>3. CASE CloseInclude
    <3>1. phase' # "done"
      BY <2>3 DEF CloseInclude, Closing, Parsing
    <3>2. CASE UNCHANGED <<aliases, included>>
      BY <1>2, <2>3, <3>1, <3>2, AliasesStill DEF CloseInclude
    <3>3. CASE ~UNCHANGED <<aliases, included>>
      <4>1. PICK alias, js : RegisterAlias(alias, js)
        BY <2>3, <3>3 DEF CloseInclude
      <4> QED
        BY <1>2, <3>1, <4>1, AliasRegistered DEF AliasInv
    <3> QED
      BY <3>2, <3>3
  <2>4. CASE FinishRoot
    <3>1. aliases' = aliases /\ included' = included /\ phase' # "done"
      BY <2>4 DEF FinishRoot, Fail, stateVars
    <3> QED
      BY <1>2, <3>1 DEF AliasInv, Targets, TerminalJobs, Names
  <2>5. CASE ExpandAliases
    BY <1>2, <2>5, AliasExpanded
  <2>6. CASE UNCHANGED vars
    BY <1>2, <2>6, AliasesStill DEF vars, stateVars
  <2> QED
    BY <1>2, <2>1, <2>2, <2>3, <2>4, <2>5, <2>6 DEF Next
<1> QED
  BY <1>1, <1>2, InvHolds, CacheHolds, PTL DEF Spec

-----------------------------------------------------------------------------
(* Reaching.                                                               *)

\* What is reached holds the start, is closed, and is the least such.
LEMMA ReachedClosed ==
    ASSUME NEW deps, NEW S, \A n \in DOMAIN deps : deps[n] \subseteq DOMAIN deps
    PROVE  /\ Reached(deps, S) \subseteq DOMAIN deps
           /\ S \cap DOMAIN deps \subseteq Reached(deps, S)
           /\ \A m \in Reached(deps, S) : deps[m] \subseteq Reached(deps, S)
<1>1. Reached(deps, S) \subseteq DOMAIN deps
  BY DEF Reached
<1>2. S \cap DOMAIN deps \subseteq Reached(deps, S)
  BY DEF Reached
<1>3. ASSUME NEW m \in Reached(deps, S), NEW n \in deps[m]
      PROVE  n \in Reached(deps, S)
  <2>1. m \in DOMAIN deps /\ n \in DOMAIN deps
    BY <1>1, <1>3
  <2>2. ASSUME NEW L \in SUBSET DOMAIN deps,
               S \cap DOMAIN deps \subseteq L, \A k \in L : deps[k] \subseteq L
        PROVE  n \in L
    <3>1. m \in L
      BY <1>3, <2>2 DEF Reached
    <3> QED
      BY <1>3, <2>2, <3>1
  <2> QED
    BY <2>1, <2>2 DEF Reached
<1> QED
  BY <1>1, <1>2, <1>3

\* Whatever holds the start and is closed holds all that is reached.
LEMMA ReachedLeast ==
    ASSUME NEW deps, NEW S, NEW L \in SUBSET DOMAIN deps,
           S \cap DOMAIN deps \subseteq L, \A m \in L : deps[m] \subseteq L
    PROVE  Reached(deps, S) \subseteq L
BY DEF Reached

\* Where nothing reaches itself, no set of names has every member named by
\* another: what the least of them reaches would be less still.
LEMMA SomethingFirst ==
    ASSUME NEW deps, IsFiniteSet(DOMAIN deps),
           \A n \in DOMAIN deps : deps[n] \subseteq DOMAIN deps,
           \A n \in DOMAIN deps : n \notin Reached(deps, deps[n]),
           NEW X \in SUBSET DOMAIN deps,
           \A n \in X : \E m \in X : n \in deps[m]
    PROVE  X = {}
<1> SUFFICES ASSUME X # {}
             PROVE  FALSE
  OBVIOUS
<1> DEFINE D == DOMAIN deps
           beyond(n) == D \ Reached(deps, deps[n])
           S == {Cardinality(beyond(n)) : n \in X}
<1>1. \A n \in D : IsFiniteSet(beyond(n)) /\ Cardinality(beyond(n)) \in Nat
  BY FS_Difference, FS_CardinalityType
<1>2. S \in SUBSET Nat /\ S # {}
  BY <1>1
<1> HIDE DEF S
<1>3. PICK c \in S : \A k \in S : c <= k
  BY <1>2, LeastNumber
<1>4. PICK n \in X : c = Cardinality(beyond(n))
  BY <1>3 DEF S
<1>5. PICK m \in X : n \in deps[m]
  BY <1>4
<1>6. beyond(m) \subseteq beyond(n)
  <2>1. Reached(deps, deps[n]) \subseteq Reached(deps, deps[m])
    <3> DEFINE L == Reached(deps, deps[m])
    <3>1. L \subseteq D /\ deps[m] \cap D \subseteq L /\ \A k \in L : deps[k] \subseteq L
      BY ReachedClosed
    <3>2. n \in L
      BY <1>4, <1>5, <3>1
    <3>3. deps[n] \cap D \subseteq L
      BY <3>1, <3>2
    <3> HIDE DEF L
    <3>4. Reached(deps, deps[n]) \subseteq L
      BY <3>1, <3>3, ReachedLeast
    <3> QED
      BY <3>4 DEF L
  <2> QED
    BY <2>1
<1>7. n \in beyond(n) /\ n \notin beyond(m)
  <2>1. n \in Reached(deps, deps[m])
    BY <1>4, <1>5, ReachedClosed
  <2> QED
    BY <1>4, <2>1
<1>8. Cardinality(beyond(m)) < Cardinality(beyond(n))
  <2>1. beyond(m) \subseteq beyond(n) /\ beyond(m) # beyond(n) /\ IsFiniteSet(beyond(n))
    BY <1>1, <1>4, <1>6, <1>7
  <2> HIDE DEF beyond
  <2> QED
    BY <2>1, SmallerSet
<1>9. Cardinality(beyond(m)) \in S
  BY DEF S
<1>10. Cardinality(beyond(m)) \in Nat /\ Cardinality(beyond(n)) \in Nat
  BY <1>1
<1>11. c <= Cardinality(beyond(m))
  BY <1>3, <1>9
<1> HIDE DEF beyond
<1> QED
  BY <1>4, <1>8, <1>10, <1>11

\* DependsOn stays within the names of the jobs.
LEMMA DependenciesNamed ==
    ASSUME NEW js
    PROVE  LET deps == DependsOn(js)
           IN  DOMAIN deps = Names(js) /\ \A n \in DOMAIN deps : deps[n] \subseteq DOMAIN deps
BY DEF DependsOn

\* The names of a list of jobs are finite in number.
LEMMA NamesFinite ==
    ASSUME NEW js, IsList(js)
    PROVE  IsFiniteSet(Names(js))
<1>1. IsFiniteSet(DOMAIN js)
  BY ListFacts, FS_Interval
<1> DEFINE names == [k \in DOMAIN js |-> js[k].name]
<1>2. Names(js) = Range(names) /\ names \in Surjection(DOMAIN js, Range(names))
  BY DEF Names, Range, Surjection
<1> HIDE DEF names
<1> QED
  BY <1>1, <1>2, FS_Surjection

\* Where no job reaches itself, from the terminal jobs of an include every job
\* of it is reached: one that is not would be named by another that is not.
LEMMA TerminalsReach ==
    ASSUME NEW js, IsList(js), NEW as, ~AliasCollision(js, as),
           \A n \in Names(js) : n \notin Reached(DependsOn(js), DependsOn(js)[n]),
           NEW inc, \A i \in DOMAIN inc : \E k \in DOMAIN js :
                       js[k].name = inc[i].name /\ js[k].deps = ExpandDeps(inc[i].deps, as)
    PROVE  Names(inc) \subseteq Reached(DependsOn(js), TerminalJobs(inc))
<1> DEFINE deps == DependsOn(js)
           R == Reached(deps, TerminalJobs(inc))
           X == Names(inc) \ R
<1>1. DOMAIN deps = Names(js) /\ \A n \in DOMAIN deps : deps[n] \subseteq DOMAIN deps
  BY DependenciesNamed
<1>2. IsFiniteSet(DOMAIN deps)
  BY <1>1, NamesFinite
<1>3. Names(inc) \subseteq Names(js)
  BY DEF Names
<1>4. /\ TerminalJobs(inc) \cap DOMAIN deps \subseteq R
      /\ \A m \in R : deps[m] \subseteq R
  BY <1>1, ReachedClosed
<1>5. ASSUME NEW n \in X
      PROVE  \E m \in X : n \in deps[m]
  <2>1. n \in Names(inc) /\ n \in Names(js) /\ n \notin R /\ n \notin TerminalJobs(inc)
    BY <1>1, <1>3, <1>4
  <2>2. PICK i \in DOMAIN inc : n \in inc[i].deps
    BY <2>1 DEF TerminalJobs
  <2>3. PICK k \in DOMAIN js :
            js[k].name = inc[i].name /\ js[k].deps = ExpandDeps(inc[i].deps, as)
    OBVIOUS
  <2>4. n \in ExpandDeps(inc[i].deps, as)
    <3>1. n \in DOMAIN as => as[n] = {n}
      BY <2>1 DEF AliasCollision
    <3>2. n \in (IF n \in DOMAIN as /\ as[n] # {} THEN as[n] ELSE {n})
      BY <3>1
    <3> QED
      BY <2>2, <3>2 DEF ExpandDeps
  <2> DEFINE m == inc[i].name
  <2>5. m \in Names(inc) /\ m \in Names(js)
    BY <1>3 DEF Names
  <2>6. n \in deps[m]
    BY <2>1, <2>3, <2>4, <2>5 DEF DependsOn
  <2>7. m \notin R
    BY <1>4, <2>1, <2>6
  <2> QED
    BY <2>5, <2>6, <2>7
<1>6. X \subseteq DOMAIN deps
  BY <1>1, <1>3
<1>7. \A n \in DOMAIN deps : n \notin Reached(deps, deps[n])
  BY <1>1
<1> HIDE DEF deps, R
<1>8. X = {}
  <2> HIDE DEF X
  <2> QED
    BY <1>1, <1>2, <1>5, <1>6, <1>7, SomethingFirst
<1> QED
  BY <1>8 DEF R, deps

\* For any files: a job that depends on the alias of an include waits for every
\* job of it (merge.go TerminalJobs, ExpandAliases; include.go registerAlias),
\* where the pipeline has no dependency cycle and no job of the include was
\* replaced by another.
THEOREM AliasesCoverTheirIncludes ==
    Spec => []AliasCovers
<1>1. CacheInv /\ AliasInv => AliasCovers
  <2> SUFFICES ASSUME CacheInv, AliasInv, phase = "done",
                      \A n \in Names(jobs) : n \notin Reached(DependsOn(jobs), DependsOn(jobs)[n]),
                      NEW a \in DOMAIN aliases,
                      \A i \in DOMAIN included[a] : \E k \in DOMAIN jobs :
                          /\ jobs[k].name = included[a][i].name
                          /\ jobs[k].deps = ExpandDeps(included[a][i].deps, aliases)
               PROVE  Names(included[a]) \subseteq Reached(DependsOn(jobs), aliases[a])
    BY DEF AliasCovers
  <2>1. IsList(jobs) /\ ~AliasCollision(jobs, aliases)
    BY DEF CacheInv, AliasInv, IsJobs
  <2>2. aliases[a] = TerminalJobs(included[a])
    BY DEF AliasInv, Targets
  <2>3. Names(included[a]) \subseteq Reached(DependsOn(jobs), TerminalJobs(included[a]))
    BY <2>1, TerminalsReach
  <2> QED
    BY <2>2, <2>3
<1> QED
  BY <1>1, CacheHolds, AliasHolds, PTL
=============================================================================
