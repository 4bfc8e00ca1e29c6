------------------------ MODULE VertexReadersProofs ------------------------
(***************************************************************************)
(* The readers of a solve's vertices give one account, for any number of   *)
(* solves, names and vertices, however the solves are wired to the names.  *)
(*                                                                         *)
(* What is inductive is said of one solve, of one name, and of a solve     *)
(* that has its name to itself.  Between the tee's two steps the collector *)
(* is a vertex ahead of the display: wherever the two are compared, the    *)
(* vertex that the tee still holds makes up for the difference.            *)
(***************************************************************************)
EXTENDS VertexReaders, TLAPS, FiniteSetTheorems

Statuses == {"absent", "pending", "running"} \cup Ended

Entry == [digest : Digests, cached : BOOLEAN]

TypeInv ==
    /\ name \in [Solves -> Names]
    /\ build \in [Solves -> SUBSET Digests]
    /\ inTee \in [Solves -> {<<>>} \cup (Digests \X Shapes)]
    /\ closed \subseteq Solves
    /\ untimed \in [Names -> SUBSET Digests]
    /\ answer \in [Solves -> {"none", "error", "missing", "cached"}]
    /\ tui \in [Names -> [Digests -> Statuses]]
    /\ plain \in [Solves -> [Digests -> {"unseen", "started", "done"}]]
    /\ stats \in [Names -> Seq(Entry)]
    /\ flags \in [Solves -> UNION {[D -> BOOLEAN] : D \in SUBSET Digests}]

\* The shapes with which a vertex has ended, and is marked as cached.
Ending == {v \in Shapes : Ends(v)}
Marked == {v \in Shapes : "cached" \in v}

\* The tee of s holds d, with a shape of K.
Holds(s, d, K) == inTee[s] # <<>> /\ inTee[s][1] = d /\ inTee[s][2] \in K

Shown(s, d) == tui[name[s]][d]

\* The vertices in the report and those that it need not have.
Accounted(n) == Counted(n) \cup untimed[n]

\* An entry and a status that are of one message.
Agree(c, status) == IF c THEN status \in {"cached", "failed"} ELSE status # "cached"

\* A solve: nothing is held once its channel is closed; the collectors have
\* seen what the tee holds; what the plain display has ended, the TUI has; a
\* vertex known to be cached is shown as ended or about to be; and an image is
\* called cached at the close alone, on all of the flags.
SolveInv(s) ==
    /\ s \in closed => inTee[s] = <<>>
    /\ \A d \in Digests : Holds(s, d, Shapes) => d \in DOMAIN flags[s]
    /\ \A d \in Digests : Holds(s, d, Ending) => d \in Accounted(name[s])
    /\ \A d \in Digests : plain[s][d] = "done" => Shown(s, d) \in Ended
    /\ \A d \in DOMAIN flags[s] :
          flags[s][d] => Shown(s, d) \in Ended \/ Holds(s, d, Marked)
    /\ answer[s] = "cached" =>
          s \in closed /\ DOMAIN flags[s] # {} /\ \A d \in DOMAIN flags[s] : flags[s][d]

\* A name: one entry for a vertex, for all that are shown as ended but untimed
\* ones, and for no other but those a tee still holds.
NameInv(n) ==
    /\ \A i, j \in DOMAIN stats[n] : stats[n][i].digest = stats[n][j].digest => i = j
    /\ \A d \in Digests : tui[n][d] \in Ended => d \in Accounted(n)
    /\ \A d \in Counted(n) :
          tui[n][d] \in Ended \/ \E s \in Solves : name[s] = n /\ Holds(s, d, Ending)

Recorded(n, d, c) ==
    \E i \in DOMAIN stats[n] : stats[n][i].digest = d /\ stats[n][i].cached = c

Alone(s) == \A x \in Solves : name[x] = name[s] => x = s

\* A solve with a name of its own: all that the TUI shows under it is of the
\* solve, and the entries of vertices that are not untimed agree with what is
\* shown, or about to be.
AloneInv(s) ==
    Alone(s) =>
        /\ \A d \in Digests : Shown(s, d) # "absent" => d \in DOMAIN flags[s]
        /\ \A d \in Digests : Shown(s, d) \in Ended => plain[s][d] = "done"
        /\ \A d \in Digests, c \in BOOLEAN :
              Recorded(name[s], d, c) /\ d \notin untimed[name[s]] =>
                  IF Shown(s, d) \in Ended THEN Agree(c, Shown(s, d))
                  ELSE Holds(s, d, IF c THEN Ending \cap Marked ELSE Ending \ Marked)

ReadersInv ==
    /\ TypeInv
    /\ \A s \in Solves : SolveInv(s) /\ AloneInv(s)
    /\ \A n \in Names : NameInv(n)

-----------------------------------------------------------------------------
(* Types.                                                                  *)

\* What is counted has ended, and so has what is cached.
LEMMA ShapeFacts ==
    ASSUME NEW v \in Shapes
    PROVE  /\ v \in Ending <=> Ends(v)
           /\ v \in Marked <=> "cached" \in v
           /\ v \in Marked => v \in Ending
           /\ \A d : Counts(d, v) => Ends(v)
BY DEF Ending, Marked, Ends, Counts

\* The entry that Observe appends is one.
LEMMA ObserveTyped ==
    ASSUME TypeInv, NEW n \in Names, NEW d \in Digests, NEW v \in Shapes
    PROVE  Observe(n, d, v) \in [Names -> Seq(Entry)]
<1> DEFINE e == [digest |-> d, cached |-> "cached" \in v]
<1>1. stats \in [Names -> Seq(Entry)]
  BY DEF TypeInv
<1>2. e \in Entry
  BY DEF Entry
<1> HIDE DEF e
<1>3. Append(stats[n], e) \in Seq(Entry)
  BY <1>1, <1>2
<1>4. [stats EXCEPT ![n] = Append(@, e)] \in [Names -> Seq(Entry)]
  BY <1>1, <1>3
<1>5. Observe(n, d, v) \in {stats, [stats EXCEPT ![n] = Append(@, e)]}
  BY DEF Observe, e
<1> QED
  BY <1>1, <1>4, <1>5

\* So is the flag that Collect sets.
LEMMA CollectTyped ==
    ASSUME TypeInv, NEW s \in Solves, NEW d \in Digests, NEW v \in Shapes
    PROVE  Collect(s, d, v) \in [Solves -> UNION {[D -> BOOLEAN] : D \in SUBSET Digests}]
<1> DEFINE F == UNION {[D -> BOOLEAN] : D \in SUBSET Digests}
           c == "cached" \in v
           g == [x \in DOMAIN flags[s] \cup {d} |-> IF x = d THEN c ELSE flags[s][x]]
<1>1. flags \in [Solves -> F]
  BY DEF TypeInv
<1>2. g \in F
  <2>1. PICK D \in SUBSET Digests : flags[s] \in [D -> BOOLEAN]
    BY <1>1
  <2>2. c \in BOOLEAN
    OBVIOUS
  <2> HIDE DEF c
  <2>3. g \in [D \cup {d} -> BOOLEAN]
    BY <2>1, <2>2
  <2>4. D \cup {d} \in SUBSET Digests
    OBVIOUS
  <2> HIDE DEF g
  <2> QED
    BY <2>3, <2>4
<1>3. Collect(s, d, v) \in {flags, [flags EXCEPT ![s] = g]}
  BY DEF Collect
<1> HIDE DEF g, F
<1>4. [flags EXCEPT ![s] = g] \in [Solves -> F]
  BY <1>1, <1>2
<1> QED
  BY <1>1, <1>3, <1>4 DEF F

\* Every step keeps the types.
LEMMA TypeStep ==
    ASSUME TypeInv, [Next]_vars
    PROVE  TypeInv'
<1>1. ASSUME NEW s \in Solves, NEW d \in Digests, NEW v \in Shapes, Report(s, d, v)
      PROVE  TypeInv'
  <2>1. stats' \in [Names -> Seq(Entry)]
    BY <1>1, ObserveTyped DEF Report, TypeInv
  <2>2. flags' \in [Solves -> UNION {[D -> BOOLEAN] : D \in SUBSET Digests}]
    BY <1>1, CollectTyped DEF Report
  <2>3. untimed' \in [Names -> SUBSET Digests]
    BY <1>1 DEF Report, TypeInv
  <2> QED
    BY <1>1, <2>1, <2>2, <2>3 DEF Report, TypeInv
<1>2. ASSUME NEW s \in Solves, Show(s)
      PROVE  TypeInv'
  <2>1. PICK d \in Digests, v \in Shapes : inTee[s] = <<d, v>>
    BY <1>2 DEF Show, TypeInv
  <2>2. /\ tui' = ApplyVertex(name[s], d, v)
        /\ plain' = LogVertex(s, d, v)
    BY <1>2, <2>1 DEF Show
  <2>3. tui' \in [Names -> [Digests -> Statuses]]
    BY <2>2 DEF TypeInv, ApplyVertex, Status, Statuses, Ended
  <2>4. plain' \in [Solves -> [Digests -> {"unseen", "started", "done"}]]
    BY <2>2 DEF TypeInv, LogVertex
  <2> QED
    BY <1>2, <2>3, <2>4 DEF Show, TypeInv
<1>3. ASSUME NEW s \in Solves, NEW result \in {"ok", "denied", "error"}, Close(s, result)
      PROVE  TypeInv'
  <2>1. ImageAnswer(s, result) \in {"none", "error", "missing", "cached"}
    BY DEF ImageAnswer
  <2> QED
    BY <1>3, <2>1 DEF Close, TypeInv
<1>4. CASE UNCHANGED vars
  BY <1>4 DEF vars, readers, TypeInv
<1>5. \A s \in Solves : build[s] \subseteq Digests
  BY DEF TypeInv
<1> QED
  BY <1>1, <1>2, <1>3, <1>4, <1>5 DEF Next

-----------------------------------------------------------------------------
(* What a step does to the readers, in the invariant's own terms.          *)

\* The entries of n are those it had and, for an ended vertex that had none, one
\* more; those of the other names are the same.
Observes(n, d, v) ==
    /\ \A m \in Names \ {n} : stats'[m] = stats[m]
    /\ Counted(n)' = IF Counts(d, v) THEN Counted(n) \cup {d} ELSE Counted(n)
    /\ DOMAIN stats[n] \subseteq DOMAIN stats'[n]
    /\ \A i \in DOMAIN stats[n] : stats'[n][i] = stats[n][i]
    /\ \A i \in DOMAIN stats'[n] \ DOMAIN stats[n] :
          /\ i = Len(stats[n]) + 1
          /\ Counts(d, v) /\ d \notin Counted(n)
          /\ stats'[n][i] = [digest |-> d, cached |-> "cached" \in v]

\* That is what Observe does.
LEMMA ObserveEffect ==
    ASSUME TypeInv, NEW n \in Names, NEW d \in Digests, NEW v \in Shapes,
           stats' = Observe(n, d, v)
    PROVE  Observes(n, d, v)
<1> USE DEF Observes
<1>1. stats \in [Names -> Seq(Entry)]
  BY DEF TypeInv
<1>2. CASE Counts(d, v) /\ d \notin Counted(n)
  <2> DEFINE e == [digest |-> d, cached |-> "cached" \in v]
  <2>1. e \in Entry /\ e.digest = d
    BY DEF Entry
  <2> HIDE DEF e
  <2>2. stats' = [stats EXCEPT ![n] = Append(stats[n], e)]
    BY <1>2 DEF Observe, e
  <2>3. stats'[n] = Append(stats[n], e) /\ \A m \in Names \ {n} : stats'[m] = stats[m]
    BY <1>1, <2>2
  <2>4. stats[n] \in Seq(Entry)
    BY <1>1
  <2>5. /\ DOMAIN stats[n] = 1..Len(stats[n]) /\ Len(stats[n]) \in Nat
        /\ DOMAIN stats'[n] = 1..(Len(stats[n]) + 1)
        /\ \A i \in 1..Len(stats[n]) : stats'[n][i] = stats[n][i]
        /\ stats'[n][Len(stats[n]) + 1] = e
    BY <2>1, <2>3, <2>4
  <2>6. Counted(n)' = Counted(n) \cup {d}
    <3>1. \A i \in DOMAIN stats'[n] : i \in DOMAIN stats[n] \/ i = Len(stats[n]) + 1
      BY <2>5
    <3>2. Len(stats[n]) + 1 \in DOMAIN stats'[n]
      BY <2>5
    <3> QED
      BY <2>1, <2>5, <3>1, <3>2, SMTT(30) DEF Counted
  <2> QED
    BY <1>2, <2>3, <2>5, <2>6 DEF e
<1>3. CASE ~(Counts(d, v) /\ d \notin Counted(n))
  <2>1. stats' = stats
    BY <1>3 DEF Observe
  <2>2. Counted(n)' = Counted(n)
    BY <2>1 DEF Counted
  <2> QED
    BY <1>3, <2>1, <2>2
<1> QED
  BY <1>2, <1>3

\* After Collect, s has a flag for d, which is set if it was or if the vertex is
\* cached; all other flags are the same.
LEMMA CollectEffect ==
    ASSUME TypeInv, NEW s \in Solves, NEW d \in Digests, NEW v \in Shapes,
           flags' = Collect(s, d, v)
    PROVE  /\ \A x \in Solves \ {s} : flags'[x] = flags[x]
           /\ DOMAIN flags'[s] = DOMAIN flags[s] \cup {d}
           /\ \A x \in DOMAIN flags[s] \ {d} : flags'[s][x] = flags[s][x]
           /\ flags'[s][d] <=> "cached" \in v \/ (d \in DOMAIN flags[s] /\ flags[s][d])
<1> DEFINE g == [x \in DOMAIN flags[s] \cup {d} |-> IF x = d THEN "cached" \in v ELSE flags[s][x]]
<1>1. flags \in [Solves -> UNION {[D -> BOOLEAN] : D \in SUBSET Digests}]
  BY DEF TypeInv
<1>2. CASE "cached" \in v \/ d \notin DOMAIN flags[s]
  <2>1. flags' = [flags EXCEPT ![s] = g]
    BY <1>2 DEF Collect
  <2> HIDE DEF g
  <2>2. flags'[s] = g /\ \A x \in Solves \ {s} : flags'[x] = flags[x]
    BY <1>1, <2>1
  <2> QED
    BY <1>2, <2>2 DEF g
<1>3. CASE ~("cached" \in v \/ d \notin DOMAIN flags[s])
  <2>1. flags' = flags
    BY <1>3 DEF Collect
  <2> QED
    BY <1>3, <2>1
<1> QED
  BY <1>2, <1>3

\* The entries are of vertices.
LEMMA EntryOfVertex ==
    ASSUME TypeInv, NEW n \in Names, NEW i \in DOMAIN stats[n]
    PROVE  /\ stats[n][i].digest \in Digests /\ stats[n][i].cached \in BOOLEAN
           /\ stats[n][i].digest \in Counted(n)
<1>1. stats[n] \in Seq(Entry)
  BY DEF TypeInv
<1>2. stats[n][i] \in Entry
  BY <1>1
<1> QED
  BY <1>2 DEF Entry, Counted

\* What a tee holds is a vertex and a kind, and no tee holds more than one.
LEMMA HeldIsOne ==
    ASSUME TypeInv, NEW s \in Solves
    PROVE  /\ inTee[s] = <<>> => \A d, K : ~Holds(s, d, K)
           /\ inTee[s] # <<>> =>
                 \E d \in Digests, v \in Shapes :
                    inTee[s] = <<d, v>> /\ \A e, K : Holds(s, e, K) <=> e = d /\ v \in K
BY DEF TypeInv, Holds

\* After a Report, the tee of s holds its vertex; the others hold what they did.
LEMMA ReportHolds ==
    ASSUME TypeInv, NEW s \in Solves, NEW d \in Digests, NEW v \in Shapes, Report(s, d, v)
    PROVE  /\ inTee'[s] # <<>>
           /\ \A e, K : ~Holds(s, e, K)
           /\ \A e, K : Holds(s, e, K)' <=> e = d /\ v \in K
           /\ \A x \in Solves \ {s} : \A e, K : Holds(x, e, K)' <=> Holds(x, e, K)
           /\ \A x \in Solves \ {s} : inTee'[x] = inTee[x]
<1>1. inTee'[s] = <<d, v>> /\ \A x \in Solves \ {s} : inTee'[x] = inTee[x]
  BY DEF Report, TypeInv
<1>2. <<d, v>> # <<>>
  OBVIOUS
<1>3. inTee[s] = <<>>
  BY DEF Report
<1> QED
  BY <1>1, <1>2, <1>3 DEF Holds

-----------------------------------------------------------------------------
(* The steps.                                                              *)

\* A step that is not of the solve leaves its SolveInv alone, if what is shown
\* and counted under its name only grows.
LEMMA Bystander ==
    ASSUME TypeInv, NEW x \in Solves, SolveInv(x),
           name' = name, inTee'[x] = inTee[x], flags'[x] = flags[x],
           \A d \in Digests : plain'[x][d] = plain[x][d],
           x \in closed' <=> x \in closed, answer'[x] = answer[x],
           Accounted(name[x]) \subseteq Accounted(name[x])',
           \A d \in Digests : Shown(x, d) \in Ended => tui'[name[x]][d] \in Ended
    PROVE  SolveInv(x)'
<1>1. \A d \in DOMAIN flags[x] : d \in Digests
  BY DEF TypeInv
<1>2. \A d, K : Holds(x, d, K)' <=> Holds(x, d, K)
  BY DEF Holds
<1>3. \A d \in Digests : Shown(x, d)' = tui'[name[x]][d]
  BY DEF Shown
<1>4. \A d \in Digests : Holds(x, d, Ending)' => d \in Accounted(name[x])'
  BY <1>2 DEF SolveInv
<1> QED
  BY <1>1, <1>2, <1>3, <1>4 DEF SolveInv

\* BuildKit reports a vertex.
LEMMA ReportStep ==
    ASSUME ReadersInv, NEW s \in Solves, NEW d \in Digests, NEW v \in Shapes, Report(s, d, v)
    PROVE  /\ \A x \in Solves : SolveInv(x)' /\ AloneInv(x)'
           /\ \A n \in Names : NameInv(n)'
<1>1. /\ TypeInv
      /\ \A x \in Solves : SolveInv(x) /\ AloneInv(x)
      /\ \A m \in Names : NameInv(m)
  BY DEF ReadersInv
<1> PICK n \in Names : n = name[s]
  BY <1>1 DEF TypeInv
<1>2. n = name[s] /\ \A x \in Solves : name[x] \in Names
  BY <1>1 DEF TypeInv
<1>3. /\ s \notin closed /\ inTee[s] = <<>>
      /\ UNCHANGED <<name, closed, answer, tui, tuiDone, plain>>
      /\ stats' = Observe(n, d, v) /\ flags' = Collect(s, d, v)
  BY DEF Report
<1>4. /\ \A m \in Names \ {n} : stats'[m] = stats[m]
      /\ Counted(n)' = IF Counts(d, v) THEN Counted(n) \cup {d} ELSE Counted(n)
      /\ DOMAIN stats[n] \subseteq DOMAIN stats'[n]
      /\ \A i \in DOMAIN stats[n] : stats'[n][i] = stats[n][i]
      /\ \A i \in DOMAIN stats'[n] \ DOMAIN stats[n] :
            /\ i = Len(stats[n]) + 1
            /\ Counts(d, v) /\ d \notin Counted(n)
            /\ stats'[n][i] = [digest |-> d, cached |-> "cached" \in v]
  <2>1. TypeInv /\ stats' = Observe(n, d, v)
    BY <1>1, <1>3
  <2>2. Observes(n, d, v)
    BY <2>1, ObserveEffect
  <2> QED
    BY <2>2, Zenon DEF Observes
<1>5. /\ \A x \in Solves \ {s} : flags'[x] = flags[x]
      /\ DOMAIN flags'[s] = DOMAIN flags[s] \cup {d}
      /\ \A x \in DOMAIN flags[s] \ {d} : flags'[s][x] = flags[s][x]
      /\ flags'[s][d] <=> "cached" \in v \/ (d \in DOMAIN flags[s] /\ flags[s][d])
  BY <1>1, <1>3, CollectEffect
<1>u. /\ untimed[n] \subseteq untimed'[n]
      /\ Ends(v) => Counts(d, v) \/ d \in untimed'[n]
      /\ \A m \in Names \ {n} : untimed'[m] = untimed[m]
  BY <1>1, <1>2 DEF Report, TypeInv
<1>6. /\ inTee'[s] # <<>>
      /\ \A e, K : ~Holds(s, e, K)
      /\ \A e, K : Holds(s, e, K)' <=> e = d /\ v \in K
      /\ \A x \in Solves \ {s} : \A e, K : Holds(x, e, K)' <=> Holds(x, e, K)
      /\ \A x \in Solves \ {s} : inTee'[x] = inTee[x]
  BY <1>1, ReportHolds
<1>7. \A m \in Names \ {n} : Counted(m)' = Counted(m) /\ untimed'[m] = untimed[m]
  BY <1>2, <1>4, <1>u DEF Counted
<1>s. \A m \in Names : Accounted(m) \subseteq Accounted(m)'
  BY <1>4, <1>u, <1>7 DEF Accounted
<1>8. \A x \in Solves, e \in Digests : Shown(x, e)' = Shown(x, e)
  BY <1>3 DEF Shown
<1>9. \A x \in Solves : DOMAIN flags[x] \subseteq Digests
  BY <1>1 DEF TypeInv
<1>10. ASSUME NEW x \in Solves
       PROVE  SolveInv(x)'
  <2>1. CASE x # s
    <3>1. Accounted(name[x]) \subseteq Accounted(name[x])'
      <4> PICK m \in Names : m = name[x]
        BY <1>2
      <4>1. Accounted(m) \subseteq Accounted(m)'
        BY <1>s
      <4>2. name'[x] = m
        BY <1>3
      <4>3. Accounted(name[x])' = Accounted(m)'
        BY <4>2 DEF Accounted, Counted
      <4> QED
        BY <4>1, <4>3
    <3> QED
      BY <2>1, <3>1, <1>1, <1>3, <1>5, <1>6, <1>8, Bystander DEF Shown
  <2>2. CASE x = s
    <3>1. Accounted(name[s])' = Accounted(n)'
      BY <1>2, <1>3 DEF Accounted, Counted
    <3>3. \A e \in DOMAIN flags'[s] : flags'[s][e] => Shown(s, e) \in Ended \/ (e = d /\ v \in Marked)
      <4>1. \A e \in DOMAIN flags[s] : flags[s][e] => Shown(s, e) \in Ended
        BY <1>1, <1>6 DEF SolveInv
      <4>2. flags'[s][d] => v \in Marked \/ (d \in DOMAIN flags[s] /\ flags[s][d])
        BY <1>5, ShapeFacts
      <4>3. \A e \in DOMAIN flags[s] \ {d} : flags'[s][e] => flags[s][e]
        BY <1>5
      <4> QED
        BY <1>5, <4>1, <4>2, <4>3
    <3>4. answer'[s] # "cached"
      BY <1>1, <1>3 DEF SolveInv
    <3>5. \A e \in Digests : Holds(s, e, Ending)' => e \in Accounted(n)'
      BY <1>4, <1>6, <1>u, ShapeFacts DEF Accounted
    <3>6. \A e \in Digests : plain'[s][e] = "done" => Shown(s, e)' \in Ended
      BY <1>1, <1>3, <1>8 DEF SolveInv
    <3>7. \A e \in Digests : Holds(s, e, Shapes)' => e \in DOMAIN flags'[s]
      BY <1>5, <1>6
    <3>8. \A e \in DOMAIN flags'[s] : flags'[s][e] => Shown(s, e)' \in Ended \/ Holds(s, e, Marked)'
      BY <1>5, <1>6, <1>8, <1>9, <3>3
    <3> QED
      BY <1>3, <2>2, <3>1, <3>4, <3>5, <3>6, <3>7, <3>8 DEF SolveInv
  <2> QED
    BY <2>1, <2>2
<1>11. ASSUME NEW x \in Solves
       PROVE  AloneInv(x)'
  <2> SUFFICES ASSUME Alone(x)
               PROVE  AloneInv(x)'
    BY <1>3 DEF AloneInv, Alone
  <2>1. CASE x # s
    <3>1. name[x] # n /\ name[x] \in Names /\ name'[x] = name[x]
      BY <1>2, <1>3, <2>1 DEF Alone
    <3>2. /\ stats'[name'[x]] = stats[name[x]] /\ untimed'[name'[x]] = untimed[name[x]]
          /\ flags'[x] = flags[x] /\ plain'[x] = plain[x]
      BY <1>3, <1>4, <1>5, <1>u, <2>1, <3>1
    <3>3. \A e, c : Recorded(name[x], e, c)' <=> Recorded(name[x], e, c)
      BY <3>1, <3>2 DEF Recorded
    <3>4. \A e, K : Holds(x, e, K)' <=> Holds(x, e, K)
      BY <1>6, <2>1
    <3>5. AloneInv(x)
      BY <1>1
    <3> QED
      BY <1>8, <3>1, <3>2, <3>3, <3>4, <3>5 DEF AloneInv
  <2>2. CASE x = s
    <3>1. name'[s] = n /\ stats'[name'[s]] = stats'[n] /\ stats[name[s]] = stats[n]
      BY <1>2, <1>3
    <3>2. \A e \in Digests : Shown(s, e)' # "absent" => e \in DOMAIN flags'[s]
      BY <1>1, <1>5, <1>8, <2>2 DEF AloneInv
    <3>3. \A e \in Digests : Shown(s, e)' \in Ended => plain'[s][e] = "done"
      BY <1>1, <1>3, <1>8, <2>2 DEF AloneInv
    <3>4. ASSUME NEW e \in Digests, NEW c \in BOOLEAN,
                 Recorded(name[s], e, c)', e \notin untimed'[name'[s]]
          PROVE  IF Shown(s, e)' \in Ended THEN Agree(c, Shown(s, e)')
                 ELSE Holds(s, e, IF c THEN Ending \cap Marked ELSE Ending \ Marked)'
      <4>1. PICK i \in DOMAIN stats'[n] : stats'[n][i].digest = e /\ stats'[n][i].cached = c
        BY <3>1, <3>4 DEF Recorded
      <4>2. e \notin untimed'[n] /\ e \notin untimed[n]
        BY <1>u, <3>1, <3>4
      <4>3. CASE i \in DOMAIN stats[n]
        <5>1. Recorded(n, e, c)
          BY <1>4, <4>1, <4>3 DEF Recorded
        <5>2. Shown(s, e) \in Ended /\ Agree(c, Shown(s, e))
          BY <1>1, <1>6, <2>2, <3>1, <4>2, <5>1 DEF AloneInv
        <5> QED
          BY <1>8, <5>2
      <4>4. CASE i \notin DOMAIN stats[n]
        <5>1. Counts(d, v) /\ d \notin Counted(n) /\ e = d /\ c = ("cached" \in v)
          BY <1>4, <4>1, <4>4
        <5>2. Shown(s, d) \notin Ended
          BY <1>1, <1>2, <4>2, <5>1 DEF NameInv, Shown, Accounted
        <5>3. v \in IF c THEN Ending \cap Marked ELSE Ending \ Marked
          BY <5>1, ShapeFacts
        <5> QED
          BY <1>6, <1>8, <5>1, <5>2, <5>3
      <4> QED
        BY <4>3, <4>4
    <3> QED
      BY <2>2, <3>2, <3>3, <3>4 DEF AloneInv
  <2> QED
    BY <2>1, <2>2
<1>12. ASSUME NEW m \in Names
       PROVE  NameInv(m)'
  <2>1. \A x \in Solves : \A e, K : Holds(x, e, K) => Holds(x, e, K)'
    BY <1>6
  <2>2. \A e \in Digests : tui'[m][e] = tui[m][e]
    BY <1>3
  <2>3. Counted(m) \subseteq Digests
    BY <1>1, EntryOfVertex DEF Counted
  <2>4. CASE m # n
    BY <1>1, <1>3, <1>4, <1>7, <1>s, <2>1, <2>2, <2>3, <2>4 DEF NameInv
  <2>5. CASE m = n
    <3>1. ASSUME NEW i \in DOMAIN stats'[n], NEW j \in DOMAIN stats'[n],
                 stats'[n][i].digest = stats'[n][j].digest
          PROVE  i = j
      <4>1. ASSUME NEW h \in DOMAIN stats[n]
            PROVE  stats'[n][h] = stats[n][h] /\ stats'[n][h].digest \in Counted(n)
        BY <1>4 DEF Counted
      <4>2. ASSUME NEW h \in DOMAIN stats'[n], h \notin DOMAIN stats[n]
            PROVE  stats'[n][h].digest \notin Counted(n) /\ h = Len(stats[n]) + 1
        BY <1>4, <4>2
      <4>3. CASE i \in DOMAIN stats[n] /\ j \in DOMAIN stats[n]
        BY <1>1, <1>2, <3>1, <4>1, <4>3 DEF NameInv
      <4> QED
        BY <3>1, <4>1, <4>2, <4>3
    <3>2. \A e \in Digests : tui'[n][e] \in Ended => e \in Accounted(n)'
      BY <1>1, <1>s, <2>2, <2>5 DEF NameInv
    <3>3. ASSUME NEW e \in Counted(n)'
          PROVE  tui'[n][e] \in Ended \/ \E x \in Solves : name'[x] = n /\ Holds(x, e, Ending)'
      <4>1. CASE e \in Counted(n)
        BY <1>1, <1>3, <2>1, <2>2, <2>3, <2>5, <4>1 DEF NameInv
      <4>2. CASE e = d /\ Counts(d, v)
        BY <1>2, <1>3, <1>6, <4>2, ShapeFacts
      <4> QED
        BY <1>4, <4>1, <4>2
    <3> QED
      BY <2>5, <3>1, <3>2, <3>3 DEF NameInv
  <2> QED
    BY <2>4, <2>5
<1> QED
  BY <1>10, <1>11, <1>12

\* The display takes a vertex.
LEMMA ShowStep ==
    ASSUME ReadersInv, NEW s \in Solves, Show(s)
    PROVE  /\ \A x \in Solves : SolveInv(x)' /\ AloneInv(x)'
           /\ \A n \in Names : NameInv(n)'
<1>1. /\ TypeInv
      /\ \A x \in Solves : SolveInv(x) /\ AloneInv(x)
      /\ \A m \in Names : NameInv(m)
  BY DEF ReadersInv
<1> PICK n \in Names : n = name[s]
  BY <1>1 DEF TypeInv
<1> PICK d \in Digests, v \in Shapes : inTee[s] = <<d, v>>
  BY <1>1 DEF Show, TypeInv
<1>2. n = name[s] /\ \A x \in Solves : name[x] \in Names
  BY <1>1 DEF TypeInv
<1>3. UNCHANGED <<name, closed, answer, stats, flags, untimed>>
  BY DEF Show
<1> DEFINE settles == tui[n][d] \notin Ended
<1>4. /\ \A m \in Names, e \in Digests : (m # n \/ e # d) => tui'[m][e] = tui[m][e]
      /\ ~settles => tui'[n][d] = tui[n][d]
      /\ settles => IF Ends(v) THEN tui'[n][d] \in Ended /\ Agree("cached" \in v, tui'[n][d])
                    ELSE tui'[n][d] \notin Ended
  <2>1. tui' = ApplyVertex(n, d, v)
    BY <1>2 DEF Show
  <2>2. tui \in [Names -> [Digests -> Statuses]]
    BY <1>1 DEF TypeInv
  <2>3. ASSUME settles
        PROVE  IF Ends(v) THEN tui'[n][d] \in Ended /\ Agree("cached" \in v, tui'[n][d])
               ELSE tui'[n][d] \notin Ended
    <3>1. tui'[n][d] = Status(v, tui[n][d])
      BY <2>1, <2>2, <2>3 DEF ApplyVertex
    <3>2. tui[n][d] \in Statuses \ Ended
      BY <2>2, <2>3
    <3> QED
      BY <3>1, <3>2 DEF Status, Statuses, Ended, Ends, Agree
  <2> QED
    BY <2>1, <2>2, <2>3 DEF ApplyVertex
<1>5. /\ \A x \in Solves, e \in Digests : (x # s \/ e # d) => plain'[x][e] = plain[x][e]
      /\ plain'[s][d] = "done" <=> Ends(v) \/ plain[s][d] = "done"
  <2>1. plain' = LogVertex(s, d, v)
    BY DEF Show
  <2> QED
    BY <1>1, <2>1 DEF TypeInv, LogVertex
<1>6. /\ inTee'[s] = <<>> /\ \A e, K : Holds(s, e, K) <=> e = d /\ v \in K
      /\ \A e, K : ~Holds(s, e, K)'
      /\ \A x \in Solves \ {s} : \A e, K : Holds(x, e, K)' <=> Holds(x, e, K)
      /\ \A x \in Solves \ {s} : inTee'[x] = inTee[x]
  <2>1. inTee' = [inTee EXCEPT ![s] = <<>>]
    BY DEF Show
  <2> QED
    BY <1>1, <2>1 DEF TypeInv, Holds
<1>7. \A m : Counted(m)' = Counted(m) /\ Accounted(m)' = Accounted(m)
  BY <1>3 DEF Accounted, Counted
<1>8. tui'[n][d] \in Ended <=> tui[n][d] \in Ended \/ Ends(v)
  BY <1>4
<1>9. \A m \in Names, e \in Digests : tui[m][e] \in Ended => tui'[m][e] = tui[m][e]
  BY <1>4
<1>10. \A x \in Solves : \A e : Shown(x, e) = tui[name[x]][e] /\ Shown(x, e)' = tui'[name[x]][e]
  BY <1>3 DEF Shown
<1>11. Ends(v) => d \in Accounted(n)
  <2>1. SolveInv(s)
    BY <1>1
  <2> QED
    BY <1>2, <1>6, <2>1, ShapeFacts DEF SolveInv
<1>12. ASSUME NEW x \in Solves
       PROVE  SolveInv(x)'
  <2>1. CASE x # s
    <3>1. Accounted(name[x]) \subseteq Accounted(name[x])'
      <4>1. name' = name /\ stats' = stats /\ untimed' = untimed
        BY <1>3
      <4> QED
        BY <4>1 DEF Accounted, Counted
    <3>2. \A e \in Digests : Shown(x, e) \in Ended => tui'[name[x]][e] \in Ended
      BY <1>2, <1>9, <1>10
    <3>3. \A e \in Digests : plain'[x][e] = plain[x][e]
      BY <1>5, <2>1
    <3>4. name' = name /\ closed' = closed /\ answer' = answer /\ flags' = flags
      BY <1>3
    <3>5. inTee'[x] = inTee[x]
      BY <1>6, <2>1
    <3> QED
      BY <1>1, <3>1, <3>2, <3>3, <3>4, <3>5, Bystander
  <2>2. CASE x = s
    <3>1. \A e \in Digests : plain'[s][e] = "done" => Shown(s, e)' \in Ended
      <4>1. \A e \in Digests : plain[s][e] = "done" => tui[n][e] \in Ended
        BY <1>1, <1>2, <1>10 DEF SolveInv
      <4>2. \A e \in Digests : plain'[s][e] = "done" => tui'[n][e] \in Ended
        BY <1>4, <1>5, <1>8, <4>1
      <4> QED
        BY <1>2, <1>10, <4>2
    <3>2. \A e \in DOMAIN flags[s] : flags[s][e] => Shown(s, e)' \in Ended
      <4>1. \A e \in DOMAIN flags[s] : e \in Digests
        BY <1>1 DEF TypeInv
      <4>2. \A e \in DOMAIN flags[s] :
              flags[s][e] => tui[n][e] \in Ended \/ (e = d /\ v \in Marked)
        BY <1>1, <1>2, <1>6, <1>10 DEF SolveInv
      <4>3. v \in Marked => Ends(v)
        BY ShapeFacts
      <4>4. \A e \in DOMAIN flags[s] : flags[s][e] => tui'[n][e] \in Ended
        BY <1>8, <1>9, <4>1, <4>2, <4>3
      <4> QED
        BY <1>2, <1>10, <4>4
    <3>3. answer'[s] = "cached" =>
              s \in closed' /\ DOMAIN flags'[s] # {} /\ \A e \in DOMAIN flags'[s] : flags'[s][e]
      BY <1>1, <1>3 DEF SolveInv
    <3> QED
      BY <1>3, <1>6, <2>2, <3>1, <3>2, <3>3 DEF SolveInv
  <2> QED
    BY <2>1, <2>2
<1>13. ASSUME NEW x \in Solves
       PROVE  AloneInv(x)'
  <2> SUFFICES ASSUME Alone(x)
               PROVE  AloneInv(x)'
    BY <1>3 DEF AloneInv, Alone
  <2>1. /\ \A e, c : Recorded(name[x], e, c)' <=> Recorded(name[x], e, c)
        /\ untimed'[name'[x]] = untimed[name[x]]
    BY <1>3 DEF Recorded
  <2>2. flags'[x] = flags[x] /\ AloneInv(x)
    BY <1>1, <1>3
  <2>3. CASE x # s
    <3>1. name[x] # n /\ name[x] \in Names
      BY <1>2, <2>3 DEF Alone
    <3>2. \A e \in Digests : Shown(x, e)' = Shown(x, e) /\ plain'[x][e] = plain[x][e]
      BY <1>4, <1>5, <1>10, <2>3, <3>1
    <3>3. \A e, K : Holds(x, e, K)' <=> Holds(x, e, K)
      BY <1>6, <2>3
    <3> QED
      BY <2>1, <2>2, <3>2, <3>3 DEF AloneInv
  <2>4. CASE x = s
    <3>1. \A e \in Digests : Shown(s, e) = tui[n][e] /\ Shown(s, e)' = tui'[n][e]
      BY <1>2, <1>10
    <3>2. d \in DOMAIN flags[s]
      BY <1>1, <1>6 DEF SolveInv
    <3>3. \A e \in Digests : Shown(s, e)' # "absent" => e \in DOMAIN flags'[s]
      BY <1>4, <2>2, <2>4, <3>1, <3>2 DEF AloneInv
    <3>4. \A e \in Digests : Shown(s, e)' \in Ended => plain'[s][e] = "done"
      BY <1>4, <1>5, <1>8, <2>2, <2>4, <3>1 DEF AloneInv
    <3>5. ASSUME NEW e \in Digests, NEW c \in BOOLEAN,
                 Recorded(name[s], e, c), e \notin untimed[name[s]]
          PROVE  Shown(s, e)' \in Ended /\ Agree(c, Shown(s, e)')
      <4>1. IF tui[n][e] \in Ended THEN Agree(c, tui[n][e])
            ELSE Holds(s, e, IF c THEN Ending \cap Marked ELSE Ending \ Marked)
        BY <2>2, <2>4, <3>1, <3>5 DEF AloneInv
      <4>2. CASE tui[n][e] \in Ended
        BY <1>9, <3>1, <4>1, <4>2
      <4>3. CASE tui[n][e] \notin Ended
        <5>1. e = d /\ v \in IF c THEN Ending \cap Marked ELSE Ending \ Marked
          BY <1>6, <4>1, <4>3
        <5>2. Ends(v) /\ c = ("cached" \in v)
          BY <5>1, ShapeFacts
        <5>3. tui'[n][e] \in Ended /\ Agree("cached" \in v, tui'[n][e])
          BY <1>4, <4>3, <5>1, <5>2
        <5> QED
          BY <3>1, <5>2, <5>3
      <4> QED
        BY <4>2, <4>3
    <3> QED
      BY <2>1, <2>4, <3>3, <3>4, <3>5 DEF AloneInv
  <2> QED
    BY <2>3, <2>4
<1>14. ASSUME NEW m \in Names
       PROVE  NameInv(m)'
  <2>1. NameInv(m) /\ stats' = stats /\ name' = name
    BY <1>1, <1>3
  <2>2. Counted(m) \subseteq Digests
    BY <1>1, EntryOfVertex DEF Counted
  <2>3. \A e \in Digests : tui'[m][e] \in Ended => e \in Accounted(m)'
    BY <1>4, <1>7, <1>8, <1>11, <2>1 DEF NameInv
  <2>4. ASSUME NEW e \in Counted(m)
        PROVE  tui'[m][e] \in Ended \/ \E x \in Solves : name[x] = m /\ Holds(x, e, Ending)'
    <3>1. CASE tui[m][e] \in Ended
      BY <1>9, <2>2, <3>1
    <3>2. ASSUME NEW x \in Solves, name[x] = m, Holds(x, e, Ending)
          PROVE  tui'[m][e] \in Ended \/ Holds(x, e, Ending)'
      <4>1. CASE x # s
        BY <1>6, <3>2, <4>1
      <4>2. CASE x = s
        BY <1>2, <1>6, <1>8, <3>2, <4>2, ShapeFacts
      <4> QED
        BY <4>1, <4>2
    <3> QED
      BY <2>1, <3>1, <3>2 DEF NameInv
  <2> QED
    BY <1>7, <2>1, <2>3, <2>4 DEF NameInv
<1> QED
  BY <1>12, <1>13, <1>14

\* A solve ends.
LEMMA CloseStep ==
    ASSUME ReadersInv, NEW s \in Solves, NEW result \in {"ok", "denied", "error"},
           Close(s, result)
    PROVE  /\ \A x \in Solves : SolveInv(x)' /\ AloneInv(x)'
           /\ \A n \in Names : NameInv(n)'
<1>1. /\ TypeInv
      /\ \A x \in Solves : SolveInv(x) /\ AloneInv(x)
      /\ \A m \in Names : NameInv(m)
  BY DEF ReadersInv
<1>2. /\ UNCHANGED <<name, inTee, tui, plain, stats, flags, untimed>>
      /\ closed' = closed \cup {s} /\ inTee[s] = <<>>
      /\ answer' = [answer EXCEPT ![s] = ImageAnswer(s, result)]
  BY DEF Close
<1>3. ASSUME NEW x \in Solves
      PROVE  SolveInv(x)'
  <2>1. x \in closed' => inTee'[x] = <<>>
    BY <1>1, <1>2 DEF SolveInv
  <2>2. answer'[x] = "cached" =>
            x \in closed' /\ DOMAIN flags[x] # {} /\ \A d \in DOMAIN flags[x] : flags[x][d]
    <3>1. CASE x = s
      BY <1>1, <1>2, <3>1 DEF TypeInv, ImageAnswer
    <3>2. CASE x # s
      BY <1>1, <1>2, <3>2 DEF TypeInv, SolveInv
    <3> QED
      BY <3>1, <3>2
  <2>3. SolveInv(x)
    BY <1>1
  <2> QED
    BY <1>2, <2>1, <2>2, <2>3 DEF SolveInv, Holds, Accounted, Counted, Shown
<1>4. ASSUME NEW x \in Solves
      PROVE  AloneInv(x)'
  <2>1. AloneInv(x)
    BY <1>1
  <2> QED
    BY <1>2, <2>1 DEF AloneInv, Alone, Shown, Recorded, Holds
<1>5. ASSUME NEW m \in Names
      PROVE  NameInv(m)'
  <2>1. NameInv(m)
    BY <1>1
  <2> QED
    BY <1>2, <2>1 DEF NameInv, Accounted, Counted, Holds
<1> QED
  BY <1>3, <1>4, <1>5

-----------------------------------------------------------------------------
\* The invariant is inductive.
LEMMA InvInit ==
    Init => ReadersInv
<1> SUFFICES ASSUME Init
             PROVE  ReadersInv
  OBVIOUS
<1>1. TypeInv
  <2>1. <<>> \in Seq(Entry)
    OBVIOUS
  <2>2. [d \in {} |-> FALSE] \in [{} -> BOOLEAN] /\ {} \in SUBSET Digests
    OBVIOUS
  <2>3. [d \in {} |-> FALSE] \in UNION {[D -> BOOLEAN] : D \in SUBSET Digests}
    BY <2>2
  <2>4. name \in [Solves -> Names] /\ build \in [Solves -> SUBSET Digests]
    <3>1. PICK scene \in Scenes : name = scene.name /\ build = scene.build
      BY DEF Init
    <3> QED
      BY <3>1, ReadersAssumption
  <2>5. flags \in [Solves -> UNION {[D -> BOOLEAN] : D \in SUBSET Digests}]
    BY <2>3 DEF Init
  <2>6. stats \in [Names -> Seq(Entry)]
    BY <2>1 DEF Init
  <2> QED
    BY <2>4, <2>5, <2>6 DEF Init, TypeInv, Statuses
<1>2. name \in [Solves -> Names]
  BY <1>1 DEF TypeInv
<1>3. \A n \in Names : stats[n] = <<>> /\ DOMAIN stats[n] = {} /\ Counted(n) = {}
  BY DEF Init, Counted
<1>4. \A s \in Solves : DOMAIN flags[s] = {} /\ \A d, K : ~Holds(s, d, K)
  BY DEF Init, Holds
<1>5. ASSUME NEW s \in Solves
      PROVE  SolveInv(s)
  BY <1>4 DEF Init, SolveInv
<1>6. ASSUME NEW s \in Solves
      PROVE  AloneInv(s)
  <2>1. \A d \in Digests : Shown(s, d) = "absent"
    BY <1>2 DEF Init, Shown
  <2>2. \A d, c : ~Recorded(name[s], d, c)
    BY <1>2, <1>3 DEF Recorded
  <2> QED
    BY <2>1, <2>2 DEF AloneInv, Ended
<1>7. ASSUME NEW n \in Names
      PROVE  NameInv(n)
  BY <1>3 DEF Init, NameInv, Ended
<1> QED
  BY <1>1, <1>5, <1>6, <1>7 DEF ReadersInv

\* In every behaviour.
LEMMA InvHolds ==
    Spec => []ReadersInv
<1>1. ASSUME ReadersInv, [Next]_vars
      PROVE  ReadersInv'
  <2>1. TypeInv /\ TypeInv'
    BY <1>1, TypeStep DEF ReadersInv
  <2>2. ASSUME NEW s \in Solves, NEW d \in Digests, NEW v \in Shapes, Report(s, d, v)
        PROVE  ReadersInv'
    BY <1>1, <2>1, <2>2, ReportStep DEF ReadersInv
  <2>3. ASSUME NEW s \in Solves, Show(s)
        PROVE  ReadersInv'
    BY <1>1, <2>1, <2>3, ShowStep DEF ReadersInv
  <2>4. ASSUME NEW s \in Solves, NEW result \in {"ok", "denied", "error"}, Close(s, result)
        PROVE  ReadersInv'
    BY <1>1, <2>1, <2>4, CloseStep DEF ReadersInv
  <2>5. CASE UNCHANGED vars
    <3>1. \A s \in Solves : SolveInv(s)'
      BY <1>1, <2>5 DEF vars, readers, ReadersInv, SolveInv, Holds, Shown, Accounted, Counted
    <3>2. \A s \in Solves : AloneInv(s)'
      <4> SUFFICES ASSUME NEW s \in Solves
                   PROVE  AloneInv(s)'
        OBVIOUS
      <4>1. /\ AloneInv(s) /\ name' = name /\ flags' = flags /\ plain' = plain
            /\ untimed' = untimed
        BY <1>1, <2>5 DEF vars, readers, ReadersInv
      <4>2. \A d : Shown(s, d)' = Shown(s, d) /\ \A K : Holds(s, d, K)' <=> Holds(s, d, K)
        BY <2>5 DEF vars, readers, Shown, Holds
      <4>3. \A n, d, c : Recorded(n, d, c)' <=> Recorded(n, d, c)
        BY <2>5 DEF vars, readers, Recorded
      <4> QED
        BY <4>1, <4>2, <4>3 DEF AloneInv, Alone
    <3>3. \A n \in Names : NameInv(n)'
      BY <1>1, <2>5 DEF vars, readers, ReadersInv, NameInv, Holds, Accounted, Counted
    <3> QED
      BY <2>1, <3>1, <3>2, <3>3 DEF ReadersInv
  <2>6. \A s \in Solves : build[s] \subseteq Digests
    BY <2>1 DEF TypeInv
  <2> QED
    BY <1>1, <2>2, <2>3, <2>4, <2>5, <2>6 DEF Next
<1> QED
  BY <1>1, InvInit, PTL DEF Spec

-----------------------------------------------------------------------------
(* The account.                                                            *)

\* A sequence without repetitions is as long as the set of what it counts.
LEMMA NoneTwice ==
    ASSUME TypeInv, NEW n \in Names, NameInv(n)
    PROVE  Cardinality(Counted(n)) = Len(stats[n])
<1> DEFINE I == 1..Len(stats[n])
           f == [i \in I |-> stats[n][i].digest]
<1>1. stats[n] \in Seq(Entry) /\ Len(stats[n]) \in Nat /\ DOMAIN stats[n] = I
  BY DEF TypeInv
<1>2. f \in Surjection(I, Counted(n))
  BY <1>1 DEF Surjection, Counted
<1>3. f \in Injection(I, Counted(n))
  BY <1>1, <1>2 DEF Surjection, Injection, IsInjective, NameInv
<1>4. IsFiniteSet(I) /\ Cardinality(I) = Len(stats[n])
  <2>1. \A l \in Nat : IsFiniteSet(1..l) /\ Cardinality(1..l) = l
    BY FS_Interval, SMTT(30)
  <2> QED
    BY <1>1, <2>1, Zenon
<1> HIDE DEF f, I
<1> QED
  BY <1>2, <1>3, <1>4, FS_Surjection

\* The invariant gives the account of each name: the channels that are closed
\* leave nothing for a tee to hold.
LEMMA AccountOfName ==
    ASSUME ReadersInv, NEW n \in Names
    PROVE  /\ Settled(n) \ untimed[n] \subseteq Counted(n)
           /\ Cardinality(Counted(n)) = Len(stats[n])
           /\ \A s \in SolvesOf(n), d \in Digests : plain[s][d] = "done" => d \in Settled(n)
           /\ SolvesOf(n) \subseteq closed => Counted(n) \subseteq Settled(n)
<1>1. TypeInv /\ NameInv(n) /\ \A s \in Solves : SolveInv(s)
  BY DEF ReadersInv
<1>2. Counted(n) \subseteq Digests
  BY <1>1, EntryOfVertex DEF Counted
<1>3. Settled(n) \ untimed[n] \subseteq Counted(n)
  BY <1>1 DEF NameInv, Settled, Accounted
<1>4. \A s \in SolvesOf(n), d \in Digests : plain[s][d] = "done" => d \in Settled(n)
  BY <1>1 DEF SolveInv, SolvesOf, Settled, Shown
<1>5. ASSUME SolvesOf(n) \subseteq closed, NEW d \in Counted(n)
      PROVE  d \in Settled(n)
  <2>1. \A s \in Solves : name[s] = n => ~Holds(s, d, Ending)
    BY <1>1, <1>5 DEF SolveInv, SolvesOf, Holds
  <2> QED
    BY <1>1, <1>2, <2>1 DEF NameInv, Settled
<1> QED
  BY <1>1, <1>3, <1>4, <1>5, NoneTwice

\* And of each solve that has ended and had its name to itself.
LEMMA AccountOfSolve ==
    ASSUME ReadersInv, NEW s \in closed, SolvesOf(name[s]) = {s}
    PROVE  /\ CachedInTUI(name[s]) \ untimed[name[s]] \subseteq CachedInReport(name[s])
           /\ CachedInReport(name[s]) \ untimed[name[s]]
                 \subseteq CachedInTUI(name[s]) \cup FailedInTUI(name[s])
           /\ {d \in Digests : plain[s][d] = "done"} = Settled(name[s])
           /\ answer[s] = "cached" =>
                 /\ Settled(name[s]) = {d \in Digests : tui[name[s]][d] # "absent"}
                 /\ Settled(name[s]) # {}
<1>1. s \in Solves /\ TypeInv /\ SolveInv(s) /\ AloneInv(s) /\ \A m \in Names : NameInv(m)
  BY DEF ReadersInv, TypeInv
<1>2. Alone(s)
  BY DEF Alone, SolvesOf
<1> PICK n \in Names : n = name[s]
  BY <1>1 DEF TypeInv
<1>3. \A d, K : ~Holds(s, d, K)
  BY <1>1 DEF SolveInv, Holds
<1>4. \A d \in Digests, c \in BOOLEAN :
        Recorded(n, d, c) /\ d \notin untimed[n] => tui[n][d] \in Ended /\ Agree(c, tui[n][d])
  BY <1>1, <1>2, <1>3 DEF AloneInv, Shown
<1>5. /\ CachedInTUI(n) \ untimed[n] \subseteq CachedInReport(n)
      /\ CachedInReport(n) \ untimed[n] \subseteq CachedInTUI(n) \cup FailedInTUI(n)
  <2>1. ASSUME NEW d \in CachedInTUI(n), d \notin untimed[n]
        PROVE  d \in CachedInReport(n)
    <3>1. d \in Digests /\ tui[n][d] = "cached" /\ tui[n][d] \in Ended
      BY <2>1 DEF CachedInTUI, Ended
    <3>2. PICK i \in DOMAIN stats[n] : stats[n][i].digest = d
      BY <1>1, <2>1, <3>1 DEF NameInv, Accounted, Counted
    <3>3. stats[n][i].cached \in BOOLEAN
      BY <1>1, <3>2, EntryOfVertex
    <3>4. stats[n][i].cached
      BY <1>4, <2>1, <3>1, <3>2, <3>3 DEF Recorded, Agree
    <3> QED
      BY <3>2, <3>4 DEF CachedInReport
  <2>2. ASSUME NEW d \in CachedInReport(n), d \notin untimed[n]
        PROVE  d \in CachedInTUI(n) \cup FailedInTUI(n)
    <3>1. PICK i \in DOMAIN stats[n] : stats[n][i].digest = d /\ stats[n][i].cached
      BY <2>2 DEF CachedInReport
    <3>2. d \in Digests /\ stats[n][i].cached \in BOOLEAN
      BY <1>1, <3>1, EntryOfVertex
    <3>3. Recorded(n, d, TRUE)
      BY <3>1, <3>2 DEF Recorded
    <3> QED
      BY <1>4, <2>2, <3>2, <3>3 DEF CachedInTUI, FailedInTUI, Agree
  <2> QED
    BY <2>1, <2>2
<1>6. {d \in Digests : plain[s][d] = "done"} = Settled(n)
  BY <1>1, <1>2 DEF SolveInv, AloneInv, Shown, Settled
<1>7. ASSUME answer[s] = "cached"
      PROVE  /\ Settled(n) = {d \in Digests : tui[n][d] # "absent"}
             /\ Settled(n) # {}
  <2>1. /\ DOMAIN flags[s] # {} /\ \A d \in DOMAIN flags[s] : flags[s][d]
        /\ DOMAIN flags[s] \subseteq Digests
    BY <1>1, <1>7 DEF SolveInv, TypeInv
  <2>2. \A d \in DOMAIN flags[s] : d \in Settled(n)
    BY <1>1, <1>3, <2>1 DEF SolveInv, Shown, Settled
  <2>3. \A d \in Digests : tui[n][d] # "absent" => d \in DOMAIN flags[s]
    BY <1>1, <1>2 DEF AloneInv, Shown
  <2>4. \A d \in Settled(n) : tui[n][d] # "absent"
    BY DEF Settled, Ended
  <2> QED
    BY <2>1, <2>2, <2>3, <2>4 DEF Settled
<1> QED
  BY <1>5, <1>6, <1>7

\* However often BuildKit repeats its vertices, whatever of them it has set and
\* however the exports that share a name interleave, the TUI, the plain display,
\* the cache report and the image check give one account of them, but for what
\* the collector skips (progress/model.go applyVertex, plain.go logVertex,
\* cache/stats.go Observe, imagestore.go isImageCached).
THEOREM OneAccountAlways ==
    Spec => []OneAccount
<1>1. ReadersInv => OneAccount
  BY AccountOfName, AccountOfSolve DEF OneAccount
<1> QED
  BY <1>1, InvHolds, PTL

=============================================================================
