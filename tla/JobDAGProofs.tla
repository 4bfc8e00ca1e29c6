---------------------------- MODULE JobDAGProofs ----------------------------
(***************************************************************************)
(* Proofs about the job phase, for every set of jobs, every set of         *)
(* dependency tables and every parallelism.                                *)
(***************************************************************************)
EXTENDS JobDAG, FiniteSetTheorems, SequenceTheorems, TLAPS

-----------------------------------------------------------------------------
(* The semaphore's queue.                                                  *)

\* w holds each of the jobs in S once, and nothing else.
Queues(w, S) ==
    /\ w \in Seq(Jobs)
    /\ \A j \in Jobs : j \in S <=> \E i \in DOMAIN w : w[i] = j
    /\ \A i, k \in DOMAIN w : w[i] = w[k] => i = k

Queued == {j \in Jobs : pc[j] = "queued"}

\* Unlinking a cancelled waiter leaves a queue of the others.
LEMMA WithoutJobQueues ==
    ASSUME NEW S \in SUBSET Jobs, NEW w, Queues(w, S), NEW j \in S
    PROVE  /\ Queues(WithoutJob(w, j), S \ {j})
           /\ Len(WithoutJob(w, j)) = Len(w) - 1
           /\ w # <<>>
<1> DEFINE p == CHOOSE i \in DOMAIN w : w[i] = j
           v == [i \in 1..(Len(w) - 1) |-> IF i < p THEN w[i] ELSE w[i + 1]]
<1>0. w \in Seq(Jobs) /\ Len(w) \in Nat /\ DOMAIN w = 1..Len(w)
  BY DEF Queues
<1>1. p \in 1..Len(w) /\ w[p] = j
  BY <1>0 DEF Queues
<1>2. Len(w) - 1 \in Nat
  BY <1>0, <1>1
<1>3. \A i \in 1..(Len(w) - 1) : v[i] \in Jobs
  BY <1>0, <1>1
<1>4. v \in Seq(Jobs) /\ Len(v) = Len(w) - 1 /\ DOMAIN v = 1..(Len(w) - 1)
  BY <1>2, <1>3
<1>7. WithoutJob(w, j) = v
  BY DEF WithoutJob
<1>8. \A i \in 1..(Len(w) - 1) : v[i] = IF i < p THEN w[i] ELSE w[i + 1]
  OBVIOUS
<1>9. \A i, k \in 1..Len(w) : w[i] = w[k] => i = k
  BY <1>0 DEF Queues
<1>10. \A k \in Jobs : k \in S <=> \E i \in 1..Len(w) : w[i] = k
  BY <1>0 DEF Queues
<1> HIDE DEF v, p
<1>5. ASSUME NEW k \in Jobs
      PROVE  k \in S \ {j} <=> \E i \in DOMAIN v : v[i] = k
  <2>1. ASSUME k \in S \ {j}
        PROVE  \E i \in DOMAIN v : v[i] = k
    <3>1. PICK i \in 1..Len(w) : w[i] = k
      BY <2>1, <1>10
    <3>2. CASE i < p
      <4>1. i \in 1..(Len(w) - 1) /\ v[i] = w[i]
        BY <3>2, <1>1, <1>0, <1>8
      <4> QED
        BY <4>1, <3>1, <1>4
    <3>3. CASE i > p
      <4>1. i - 1 \in 1..(Len(w) - 1) /\ ~(i - 1 < p) /\ (i - 1) + 1 = i
        BY <3>1, <3>3, <1>1, <1>0
      <4>2. v[i - 1] = w[i]
        BY <4>1, <1>8
      <4> QED
        BY <4>1, <4>2, <3>1, <1>4
    <3>4. i # p
      BY <3>1, <2>1, <1>1
    <3> QED
      BY <3>1, <3>2, <3>3, <3>4, <1>1, <1>0
  <2>2. ASSUME NEW i \in DOMAIN v, v[i] = k
        PROVE  k \in S \ {j}
    <3>1. i \in 1..(Len(w) - 1) /\ v[i] = IF i < p THEN w[i] ELSE w[i + 1]
      BY <2>2, <1>4, <1>8
    <3>2. PICK m \in 1..Len(w) : w[m] = k /\ m # p
      <4>1. CASE i < p
        BY <4>1, <3>1, <2>2, <1>0, <1>1
      <4>2. CASE ~(i < p)
        <5>1. i + 1 \in 1..Len(w) /\ i + 1 # p /\ w[i + 1] = k
          BY <4>2, <3>1, <2>2, <1>0, <1>1
        <5> QED
          BY <5>1
      <4> QED
        BY <4>1, <4>2
    <3>3. k # j
      BY <3>2, <1>1, <1>9
    <3> QED
      BY <3>2, <3>3, <1>10
  <2> QED
    BY <2>1, <2>2
<1>6. ASSUME NEW i \in DOMAIN v, NEW k \in DOMAIN v, v[i] = v[k]
      PROVE  i = k
  <2> DEFINE at(m) == IF m < p THEN m ELSE m + 1
  <2>1. /\ at(i) \in 1..Len(w) /\ v[i] = w[at(i)]
        /\ at(k) \in 1..Len(w) /\ v[k] = w[at(k)]
    BY <1>0, <1>1, <1>4, <1>8
  <2>2. at(i) = at(k)
    BY <2>1, <1>6, <1>9
  <2> QED
    BY <2>2, <1>0, <1>1, <1>4
<1>11. Queues(v, S \ {j})
  BY <1>4, <1>5, <1>6 DEF Queues
<1>12. w # <<>>
  BY <1>0, <1>1
<1> QED
  BY <1>4, <1>7, <1>11, <1>12

\* A waiter that joins at the back leaves a queue of one more.
LEMMA AppendQueues ==
    ASSUME NEW S \in SUBSET Jobs, NEW w, Queues(w, S), NEW j \in Jobs \ S
    PROVE  Queues(Append(w, j), S \cup {j})
<1>1. w \in Seq(Jobs) /\ Len(w) \in Nat /\ DOMAIN w = 1..Len(w)
  BY DEF Queues
<1>2. /\ Append(w, j) \in Seq(Jobs)
      /\ DOMAIN Append(w, j) = 1..(Len(w) + 1)
      /\ \A i \in 1..Len(w) : Append(w, j)[i] = w[i]
      /\ Append(w, j)[Len(w) + 1] = j
  BY <1>1
<1>3. ASSUME NEW k \in Jobs
      PROVE  k \in S \cup {j} <=> \E i \in DOMAIN Append(w, j) : Append(w, j)[i] = k
  BY <1>1, <1>2 DEF Queues
<1>4. ASSUME NEW i \in DOMAIN Append(w, j), NEW k \in DOMAIN Append(w, j),
             Append(w, j)[i] = Append(w, j)[k]
      PROVE  i = k
  BY <1>1, <1>2, <1>4 DEF Queues
<1> QED
  BY <1>2, <1>3, <1>4 DEF Queues

\* The jobs that get a token when n are handed out to w.
Served(w, n) == {k \in Jobs : \E i \in 1..n : w[i] = k}

\* v is what is left of w after the first n.
IsRest(v, w, n) ==
    /\ v \in Seq(Jobs)
    /\ Len(v) = Len(w) - n
    /\ \A i \in 1..(Len(w) - n) : v[i] = w[i + n]

\* SubSeq from n + 1 on is what is left after the first n.
LEMMA SubSeqIsRest ==
    ASSUME NEW w \in Seq(Jobs), NEW n \in 0..Len(w)
    PROVE  IsRest(SubSeq(w, n + 1, Len(w)), w, n)
<1>1. n + 1 \in Int /\ Len(w) \in Int /\ \A i \in (n + 1)..Len(w) : w[i] \in Jobs
  OBVIOUS
<1>0. /\ (IF n + 1 <= Len(w) THEN Len(w) - (n + 1) + 1 ELSE 0) = Len(w) - n
      /\ Len(w) - (n + 1) + 1 = Len(w) - n
      /\ \A i \in 1..(Len(w) - n) : (n + 1) + i - 1 = i + n
  OBVIOUS
<1>2. ASSUME NEW v,
             v \in Seq(Jobs),
             Len(v) = IF n + 1 <= Len(w) THEN Len(w) - (n + 1) + 1 ELSE 0,
             \A i \in 1..(Len(w) - (n + 1) + 1) : v[i] = w[(n + 1) + i - 1]
      PROVE  IsRest(v, w, n)
  <2>1. Len(v) = Len(w) - n
    BY <1>0, <1>2, Zenon
  <2>2. \A i \in 1..(Len(w) - n) : v[i] = w[i + n]
    BY <1>0, <1>2, Zenon
  <2> QED
    BY <1>2, <2>1, <2>2, Zenon DEF IsRest
<1>3. /\ SubSeq(w, n + 1, Len(w)) \in Seq(Jobs)
      /\ Len(SubSeq(w, n + 1, Len(w))) = IF n + 1 <= Len(w)
                                         THEN Len(w) - (n + 1) + 1 ELSE 0
      /\ \A i \in 1..(Len(w) - (n + 1) + 1) :
           SubSeq(w, n + 1, Len(w))[i] = w[(n + 1) + i - 1]
  BY <1>1, SubSeqProperties
<1> QED
  BY <1>2, <1>3, Zenon

\* What is left after the first n have been served.
LEMMA SubSeqQueues ==
    ASSUME NEW S \in SUBSET Jobs, NEW w, Queues(w, S), NEW n \in 0..Len(w),
           NEW v, IsRest(v, w, n)
    PROVE  /\ Queues(v, S \ Served(w, n))
           /\ Served(w, n) \subseteq S
<1>1. w \in Seq(Jobs) /\ Len(w) \in Nat /\ DOMAIN w = 1..Len(w)
  BY DEF Queues
<1>2. /\ v \in Seq(Jobs)
      /\ Len(v) = Len(w) - n
      /\ \A i \in 1..(Len(w) - n) : v[i] = w[i + n]
  BY DEF IsRest
<1>3. DOMAIN v = 1..(Len(w) - n)
  BY <1>2
<1>7. \A i, k \in 1..Len(w) : w[i] = w[k] => i = k
  BY <1>1 DEF Queues
<1>8. \A k \in Jobs : k \in S <=> \E i \in 1..Len(w) : w[i] = k
  BY <1>1 DEF Queues
<1>4. Served(w, n) \subseteq S
  BY <1>1, <1>8 DEF Served
<1>5. ASSUME NEW k \in Jobs
      PROVE  k \in S \ Served(w, n) <=> \E i \in DOMAIN v : v[i] = k
  <2>1. ASSUME k \in S \ Served(w, n)
        PROVE  \E i \in DOMAIN v : v[i] = k
    <3>1. PICK i \in 1..Len(w) : w[i] = k
      BY <2>1, <1>8
    <3>2. i - n \in 1..(Len(w) - n) /\ (i - n) + n = i
      BY <2>1, <3>1, <1>1 DEF Served
    <3>3. v[i - n] = w[i]
      BY <3>2, <1>2
    <3> QED
      BY <3>1, <3>2, <3>3, <1>3
  <2>2. ASSUME NEW i \in DOMAIN v, v[i] = k
        PROVE  k \in S \ Served(w, n)
    <3>1. i + n \in 1..Len(w) /\ i + n > n /\ w[i + n] = k
      BY <2>2, <1>1, <1>2, <1>3
    <3>2. k \in S
      BY <3>1, <1>8
    <3>3. \A m \in 1..n : w[m] # k
      BY <3>1, <1>1, <1>7
    <3> QED
      BY <3>2, <3>3 DEF Served
  <2> QED
    BY <2>1, <2>2
<1>6. ASSUME NEW i \in DOMAIN v, NEW k \in DOMAIN v, v[i] = v[k]
      PROVE  i = k
  <2>1. i + n \in DOMAIN w /\ k + n \in DOMAIN w /\ w[i + n] = w[k + n]
    <3>1. i \in 1..(Len(w) - n) /\ k \in 1..(Len(w) - n)
      BY <1>3
    <3>2. v[i] = w[i + n] /\ v[k] = w[k + n]
      BY <3>1, <1>2
    <3> QED
      BY <3>1, <3>2, <1>1, <1>6
  <2>2. i + n = k + n
    BY <2>1, <1>1, <1>7
  <2> QED
    BY <2>2, <1>3
<1> QED
  BY <1>2, <1>4, <1>5, <1>6 DEF Queues

-----------------------------------------------------------------------------
(* notifyWaiters.                                                          *)

\* There is at least one token.
LEMMA LimitType == Limit \in Nat \ {0}
<1>1. Cardinality(Jobs) \in Nat /\ Cardinality(Jobs) # 0
  BY ConstantsAssumption, FS_CardinalityType, FS_EmptySet
<1> QED
  BY <1>1, ConstantsAssumption DEF Limit

\* notifyWaiters never serves more goroutines than are queued.
LEMMA HandedType ==
    ASSUME NEW c \in Int, NEW w \in Seq(Jobs)
    PROVE  Handed(c, w) \in 0..Len(w)
<1>1. Len(w) \in Nat
  OBVIOUS
<1> QED
  BY <1>1, LimitType DEF Handed

\* What handing n tokens to the queue w of S does when goroutine j, which is
\* not in that queue, moves to label l: the served goroutines are granted, the
\* rest of S stays queued, and no one else moves.
LEMMA HandEffect ==
    ASSUME pc \in [Jobs -> Labels],
           NEW j \in Jobs, NEW l \in Labels, l # "queued",
           NEW c \in Int, NEW w, NEW n \in 0..Len(w),
           Queues(w, Queued \ {j}),
           Hand(j, l, c, w, n)
    PROVE  /\ pc' \in [Jobs -> Labels]
           /\ cur' = c + n
           /\ Queues(waiters', Queued')
           /\ Len(waiters') = Len(w) - n
           /\ pc'[j] = l
           /\ \A k \in Jobs \ {j} :
                pc'[k] = IF k \in Served(w, n) THEN "granted" ELSE pc[k]
           /\ Served(w, n) \subseteq Queued \ {j}
<1> DEFINE S == Queued \ {j}
<1>1. w \in Seq(Jobs) /\ S \in SUBSET Jobs
  BY DEF Queues, Queued
<1>2. cur' = c + n /\ waiters' = SubSeq(w, n + 1, Len(w))
  BY DEF Hand
<1>3. /\ pc' \in [Jobs -> Labels]
      /\ pc'[j] = l
      /\ \A k \in Jobs \ {j} :
           pc'[k] = IF k \in Served(w, n) THEN "granted" ELSE pc[k]
  BY DEF Hand, Labels, Holding, Served
<1>4. IsRest(waiters', w, n)
  BY <1>1, <1>2, SubSeqIsRest
<1>5. Queues(waiters', S \ Served(w, n)) /\ Served(w, n) \subseteq S
  BY <1>1, <1>4, SubSeqQueues
<1>6. Queued' = S \ Served(w, n)
  BY <1>3, <1>5 DEF Queued
<1> QED
  BY <1>2, <1>3, <1>4, <1>5, <1>6 DEF IsRest

-----------------------------------------------------------------------------
(* Type correctness, with the queue: unlinking a waiter is only defined      *)
(* because a queued goroutine is in the queue.                               *)

TypeInv == TypeOK /\ Queues(waiters, Queued)

\* A goroutine that is not queued and does not become so leaves the queue as
\* it is.
LEMMA QueueKept ==
    ASSUME TypeInv, NEW j \in Jobs, pc[j] # "queued",
           NEW l \in Labels, l # "queued",
           Goto(j, l), waiters' = waiters
    PROVE  pc' \in [Jobs -> Labels] /\ Queues(waiters', Queued')
<1>1. pc \in [Jobs -> Labels]
  BY DEF TypeInv, TypeOK
<1>2. pc' \in [Jobs -> Labels]
  BY <1>1 DEF Goto
<1>3. Queued' = Queued
  BY <1>1 DEF Goto, Queued
<1> QED
  BY <1>2, <1>3 DEF TypeInv

\* Run starts with every goroutine in its loop and an empty queue.
LEMMA TypeInvInit == JobInit => TypeInv
<1> SUFFICES ASSUME JobInit PROVE TypeInv
  OBVIOUS
<1>1. TypeOK
  <2>1. idx \in [Jobs -> Nat \ {0}] /\ nodeErr \in [Jobs -> Errors]
    BY DEF JobInit, Errors, FirstDep
  <2>2. pc \in [Jobs -> Labels] /\ waiters \in Seq(Jobs)
    BY DEF JobInit, Labels
  <2>3. /\ phase \in {"build", "rejected", "jobs", "waited"}
        /\ deps \in Graphs /\ done \subseteq Jobs /\ cur \in Int
        /\ groupErr \in Errors
    BY DEF JobInit, Errors, FirstDep
  <2>4. ctxDone \in BOOLEAN
    BY DEF JobInit, FirstDep
  <2> QED
    BY <2>1, <2>2, <2>3, <2>4 DEF TypeOK
<1>2. Queues(<<>>, {})
  BY DEF Queues
<1>3. Queued = {}
  BY DEF JobInit, Queued
<1> QED
  BY <1>1, <1>2, <1>3 DEF TypeInv, JobInit

\* Every action keeps the types, and the queue in line with the labels.
LEMMA TypeInvStep == TypeInv /\ [Next]_jobVars => TypeInv'
<1> SUFFICES ASSUME TypeInv, [Next]_jobVars PROVE TypeInv'
  OBVIOUS
<1> USE DEF Labels, Holding, Errors
<1>0. /\ TypeOK /\ Queues(waiters, Queued)
      /\ pc \in [Jobs -> Labels] /\ waiters \in Seq(Jobs) /\ cur \in Int
  BY DEF TypeInv, TypeOK
<1>1. CASE BuildDAG
  BY <1>0, <1>1 DEF BuildDAG, TypeOK, TypeInv, Queued
<1>2. CASE Wait
  BY <1>0, <1>2 DEF Wait, TypeOK, TypeInv, Queued
<1>3. CASE CancelCaller
  BY <1>0, <1>3 DEF CancelCaller, TypeOK, TypeInv, Queued
<1>4. ASSUME NEW j \in Jobs, DepDone(j) PROVE TypeInv'
  <2>1. CASE pc' = pc /\ nodeErr' = nodeErr /\ idx' = [idx EXCEPT ![j] = @ + 1]
    BY <1>0, <1>4, <2>1 DEF DepDone, TypeOK, TypeInv, Queued
  <2>2. CASE idx' = idx /\ FailAt(j, nodeErr[deps[j][idx[j]]], "close")
    <3>1. deps[j][idx[j]] \in Jobs /\ pc[j] # "queued"
      BY <1>0, <1>4 DEF DepDone, TypeOK, At
    <3>2. pc' \in [Jobs -> Labels] /\ Queues(waiters', Queued')
      BY <1>4, <2>2, <3>1, QueueKept DEF DepDone, FailAt
    <3> QED
      BY <1>0, <1>4, <2>2, <3>1, <3>2 DEF DepDone, FailAt, TypeOK, TypeInv
  <2> QED
    BY <1>4, <2>1, <2>2 DEF DepDone
<1>5. ASSUME NEW j \in Jobs, DepCanceled(j) PROVE TypeInv'
  <2>1. pc' \in [Jobs -> Labels] /\ Queues(waiters', Queued')
    BY <1>5, QueueKept DEF DepCanceled, FailAt, At
  <2> QED
    BY <1>0, <1>5, <2>1 DEF DepCanceled, FailAt, TypeOK, TypeInv
<1>6. ASSUME NEW j \in Jobs, AcquireRefused(j) PROVE TypeInv'
  <2>1. pc' \in [Jobs -> Labels] /\ Queues(waiters', Queued')
    BY <1>6, QueueKept DEF AcquireRefused, FailAt, AtAcquire, At
  <2> QED
    BY <1>0, <1>6, <2>1 DEF AcquireRefused, FailAt, TypeOK, TypeInv
<1>7. ASSUME NEW j \in Jobs, AcquireNow(j) PROVE TypeInv'
  <2>1. pc' \in [Jobs -> Labels] /\ Queues(waiters', Queued')
    BY <1>7, QueueKept DEF AcquireNow, AtAcquire, At
  <2> QED
    BY <1>0, <1>7, <2>1 DEF AcquireNow, TypeOK, TypeInv
<1>8. ASSUME NEW j \in Jobs, AcquireQueue(j) PROVE TypeInv'
  <2>1. pc' \in [Jobs -> Labels] /\ Queued' = Queued \cup {j} /\ j \notin Queued
    BY <1>0, <1>8 DEF AcquireQueue, AtAcquire, At, Goto, Queued
  <2>2. Queues(waiters', Queued')
    BY <1>0, <1>8, <2>1, AppendQueues DEF AcquireQueue, Queued
  <2> QED
    BY <1>0, <1>8, <2>1, <2>2 DEF AcquireQueue, TypeOK, TypeInv, Queues
<1>9. ASSUME NEW j \in Jobs, QueuedCanceled(j) PROVE TypeInv'
  <2> DEFINE rest == WithoutJob(waiters, j)
             n == IF Head(waiters) = j /\ cur < Limit THEN Handed(cur, rest) ELSE 0
  <2>1. j \in Queued /\ Queued \in SUBSET Jobs
    BY <1>9 DEF QueuedCanceled, At, Queued
  <2>2. Queues(rest, Queued \ {j}) /\ rest \in Seq(Jobs)
    BY <1>0, <2>1, WithoutJobQueues DEF Queues
  <2>3. n \in 0..Len(rest)
    BY <1>0, <2>2, HandedType
  <2>4. Hand(j, "close", cur, rest, n)
    BY <1>9 DEF QueuedCanceled
  <2> HIDE DEF rest, n
  <2>5. pc' \in [Jobs -> Labels] /\ cur' = cur + n /\ Queues(waiters', Queued')
    BY <1>0, <2>2, <2>3, <2>4, HandEffect
  <2>6. cur' \in Int /\ waiters' \in Seq(Jobs)
    BY <1>0, <2>2, <2>3, <2>5 DEF Queues
  <2> QED
    BY <1>0, <1>9, <2>5, <2>6 DEF QueuedCanceled, TypeOK, TypeInv
<1>10. ASSUME NEW j \in Jobs, GrantTaken(j) PROVE TypeInv'
  <2>1. pc' \in [Jobs -> Labels] /\ Queues(waiters', Queued')
    BY <1>10, QueueKept DEF GrantTaken, At
  <2> QED
    BY <1>0, <1>10, <2>1 DEF GrantTaken, TypeOK, TypeInv
<1>11. ASSUME NEW j \in Jobs, pc[j] # "queued",
              NotifyWaiters(j, "close", cur - 1, waiters)
       PROVE  /\ pc' \in [Jobs -> Labels] /\ Queues(waiters', Queued')
              /\ cur' \in Int /\ waiters' \in Seq(Jobs)
  <2> DEFINE c == cur - 1
             n == Handed(c, waiters)
  <2>1. Queues(waiters, Queued \ {j})
    <3>1. Queued \ {j} = Queued
      BY <1>11 DEF Queued
    <3> QED
      BY <1>0, <3>1
  <2>2. n \in 0..Len(waiters) /\ c \in Int
    BY <1>0, HandedType
  <2>3. Hand(j, "close", c, waiters, n)
    BY <1>11 DEF NotifyWaiters
  <2> HIDE DEF c, n
  <2>4. /\ pc' \in [Jobs -> Labels] /\ Queues(waiters', Queued')
        /\ cur' = c + n
    BY <1>0, <2>1, <2>2, <2>3, HandEffect
  <2> QED
    BY <1>0, <2>2, <2>4 DEF Queues
<1>12. ASSUME NEW j \in Jobs, GrantReturned(j) PROVE TypeInv'
  <2>1. pc[j] # "queued"
    BY <1>12 DEF GrantReturned, At
  <2> QED
    BY <1>0, <1>11, <1>12, <2>1 DEF GrantReturned, TypeOK, TypeInv
<1>13. ASSUME NEW j \in Jobs, Release(j) PROVE TypeInv'
  <2>1. pc[j] # "queued"
    BY <1>13 DEF Release, At
  <2> QED
    BY <1>0, <1>11, <1>13, <2>1 DEF Release, TypeOK, TypeInv
<1>14. ASSUME NEW j \in Jobs, SolveRejected(j) \/ SolveFailed(j) PROVE TypeInv'
  <2>1. pc' \in [Jobs -> Labels] /\ Queues(waiters', Queued')
    BY <1>14, QueueKept DEF SolveRejected, SolveFailed, FailAt, At
  <2>2. /\ nodeErr' = [nodeErr EXCEPT ![j] = j]
        /\ UNCHANGED <<phase, deps, idx, done, cur, waiters, groupErr, ctxDone>>
    BY <1>14 DEF SolveRejected, SolveFailed, FailAt
  <2> QED
    BY <1>0, <2>1, <2>2 DEF TypeOK, TypeInv
<1>15. ASSUME NEW j \in Jobs, SolveCalled(j) \/ SolveOK(j) PROVE TypeInv'
  <2>1. pc' \in [Jobs -> Labels] /\ Queues(waiters', Queued')
    BY <1>15, QueueKept DEF SolveCalled, SolveOK, At
  <2> QED
    BY <1>0, <1>15, <2>1 DEF SolveCalled, SolveOK, TypeOK, TypeInv
<1>16. ASSUME NEW j \in Jobs, SolveCanceled(j) PROVE TypeInv'
  <2>1. pc' \in [Jobs -> Labels] /\ Queues(waiters', Queued')
    BY <1>16, QueueKept DEF SolveCanceled, FailAt, At
  <2> QED
    BY <1>0, <1>16, <2>1 DEF SolveCanceled, FailAt, TypeOK, TypeInv
<1>17. ASSUME NEW j \in Jobs, CloseDone(j) PROVE TypeInv'
  <2>1. pc' \in [Jobs -> Labels] /\ Queues(waiters', Queued')
    BY <1>17, QueueKept DEF CloseDone, At
  <2> QED
    BY <1>0, <1>17, <2>1 DEF CloseDone, TypeOK, TypeInv
<1>18. ASSUME NEW j \in Jobs, Return(j) PROVE TypeInv'
  <2>1. pc' \in [Jobs -> Labels] /\ Queues(waiters', Queued')
    BY <1>18, QueueKept DEF Return, At
  <2> QED
    BY <1>0, <1>18, <2>1 DEF Return, FirstError, TypeOK, TypeInv
<1>19. CASE UNCHANGED jobVars
  BY <1>0, <1>19 DEF jobVars, TypeOK, TypeInv, Queued
<1> QED
  BY <1>1, <1>2, <1>3, <1>4, <1>5, <1>6, <1>7, <1>8, <1>9, <1>10, <1>12, <1>13,
     <1>14, <1>15, <1>16, <1>17, <1>18, <1>19
     DEF Next, JobNext, GoroutineStep, SolveAnswer, Finished

\* Every reachable state of the job phase is well typed.
THEOREM TypeCorrect == Spec => []TypeOK
<1>1. Spec => []TypeInv
  BY TypeInvInit, TypeInvStep, PTL DEF Spec
<1>2. TypeInv => TypeOK
  BY DEF TypeInv
<1> QED
  BY <1>1, <1>2, PTL

-----------------------------------------------------------------------------
(* The kinds of step, as far as errors and dependencies are concerned.  The  *)
(* invariants below look at a step only through its kind.                    *)

Early == {"wait", "queued", "granted", "slot", "solving"}

\* A step of j may hand tokens to queued goroutines; nothing else moves.
OthersMove(j) ==
    \A k \in Jobs \ {j} : \/ pc'[k] = pc[k]
                          \/ pc[k] = "queued" /\ pc'[k] = "granted"

\* j goes on to its next dependency.
Advances(j) ==
    /\ phase = "jobs" /\ pc[j] = "wait" /\ idx[j] <= Len(deps[j])
    /\ deps[j][idx[j]] \in Succeeded
    /\ idx' = [idx EXCEPT ![j] = @ + 1]
    /\ UNCHANGED <<phase, deps, pc, nodeErr, done, groupErr, ctxDone>>

\* Where a new error of j may come from.
Justified(j, e) ==
    \/ e = j /\ pc[j] \in {"slot", "solving"}
    \/ e = Canceled /\ GroupCtxDone
    \/ e # NoErr /\ \E d \in done : e = nodeErr[d]

\* j sets its error.
Fails(j, e) ==
    /\ phase = "jobs" /\ pc[j] \in Early /\ pc'[j] \in {"release", "close"}
    /\ OthersMove(j)
    /\ nodeErr' = [nodeErr EXCEPT ![j] = e]
    /\ Justified(j, e)
    /\ UNCHANGED <<phase, deps, idx, done, groupErr, ctxDone>>

\* j moves on with its error as it is.
Moves(j) ==
    /\ phase = "jobs" /\ pc[j] \in Early \cup {"release"}
    /\ pc[j] = "wait" => idx[j] > Len(deps[j])
    /\ pc'[j] \in {"queued", "slot", "solving", "release", "close"}
    /\ pc[j] = "release" => pc'[j] = "close"
    /\ OthersMove(j)
    /\ UNCHANGED <<phase, deps, idx, nodeErr, done, groupErr, ctxDone>>

\* No goroutine moves.
RunStep ==
    \/ BuildDAG \/ Wait \/ CancelCaller
    \/ UNCHANGED <<phase, deps, pc, idx, nodeErr, done, groupErr, ctxDone>>

\* A goroutine that only moves itself leaves the others where they are.
LEMMA GotoMoves ==
    ASSUME pc \in [Jobs -> Labels], NEW j \in Jobs, NEW l, Goto(j, l)
    PROVE  pc'[j] = l /\ OthersMove(j)
BY DEF Goto, OthersMove

\* Handing out tokens moves the others from queued to granted at most.
LEMMA HandMoves ==
    ASSUME pc \in [Jobs -> Labels], NEW j \in Jobs, NEW l,
           NEW c \in Int, NEW w, NEW n \in 0..Len(w),
           Queues(w, Queued \ {j}), l \in Labels, l # "queued",
           Hand(j, l, c, w, n)
    PROVE  pc'[j] = l /\ OthersMove(j)
<1>1. /\ pc'[j] = l
      /\ \A k \in Jobs \ {j} :
           pc'[k] = IF k \in Served(w, n) THEN "granted" ELSE pc[k]
      /\ Served(w, n) \subseteq Queued \ {j}
  BY HandEffect
<1> QED
  BY <1>1 DEF OthersMove, Queued

\* A goroutine that gives its token back leaves the others as HandMoves says.
LEMMA NotifyMoves ==
    ASSUME TypeInv, NEW j \in Jobs, pc[j] # "queued",
           NotifyWaiters(j, "close", cur - 1, waiters)
    PROVE  pc'[j] = "close" /\ OthersMove(j)
<1> DEFINE c == cur - 1
           n == Handed(c, waiters)
<1>0. Queues(waiters, Queued) /\ pc \in [Jobs -> Labels] /\ cur \in Int
  BY DEF TypeInv, TypeOK
<1>1. Queues(waiters, Queued \ {j})
  <2>1. Queued \ {j} = Queued
    BY DEF Queued
  <2> QED
    BY <1>0, <2>1
<1>2. n \in 0..Len(waiters) /\ c \in Int
  BY <1>0, HandedType DEF Queues
<1>3. Hand(j, "close", c, waiters, n)
  BY DEF NotifyWaiters
<1>4. "close" \in Labels
  BY DEF Labels
<1> HIDE DEF c, n
<1> QED
  BY <1>0, <1>1, <1>2, <1>3, <1>4, HandMoves

\* A cancelled waiter leaves the others as HandMoves says.
LEMMA QueuedCanceledMoves ==
    ASSUME TypeInv, NEW j \in Jobs, QueuedCanceled(j)
    PROVE  pc'[j] = "close" /\ OthersMove(j)
<1> DEFINE rest == WithoutJob(waiters, j)
           n == IF Head(waiters) = j /\ cur < Limit THEN Handed(cur, rest) ELSE 0
<1>0. Queues(waiters, Queued) /\ pc \in [Jobs -> Labels] /\ cur \in Int
  BY DEF TypeInv, TypeOK
<1>1. j \in Queued /\ Queued \in SUBSET Jobs
  BY DEF QueuedCanceled, At, Queued
<1>2. Queues(rest, Queued \ {j}) /\ rest \in Seq(Jobs)
  BY <1>0, <1>1, WithoutJobQueues, SMTT(30) DEF Queues
<1>3. n \in 0..Len(rest)
  BY <1>0, <1>2, HandedType
<1>4. Hand(j, "close", cur, rest, n)
  BY DEF QueuedCanceled
<1>5. "close" \in Labels
  BY DEF Labels
<1> HIDE DEF rest, n
<1> QED
  BY <1>0, <1>2, <1>3, <1>4, <1>5, HandMoves

\* Where a goroutine goes on in the wait loop, and where it gets its error from.
LEMMA ErrorSteps ==
    ASSUME TypeInv, NEW j \in Jobs
    PROVE  /\ DepDone(j) => Advances(j) \/ \E e \in Errors : Fails(j, e)
           /\ DepCanceled(j) \/ AcquireRefused(j) \/ SolveCanceled(j) => Fails(j, Canceled)
           /\ QueuedCanceled(j) \/ GrantReturned(j) => Fails(j, Canceled)
           /\ SolveRejected(j) \/ SolveFailed(j) => Fails(j, j)
           /\ j \in Errors /\ Canceled \in Errors
<1>0. /\ pc \in [Jobs -> Labels] /\ nodeErr \in [Jobs -> Errors]
      /\ done \subseteq Jobs /\ Canceled \in Errors /\ Jobs \subseteq Errors
  BY DEF TypeInv, TypeOK, Errors
<1> USE DEF At, AtAcquire, Early
<1>1. ASSUME DepDone(j)
      PROVE  Advances(j) \/ \E e \in Errors : Fails(j, e)
  <2> DEFINE d == deps[j][idx[j]]
  <2>1. d \in done
    BY <1>1 DEF DepDone
  <2>2. CASE nodeErr[d] = NoErr
    BY <1>1, <2>1, <2>2 DEF DepDone, Advances, Succeeded
  <2>3. CASE nodeErr[d] # NoErr
    <3>1. FailAt(j, nodeErr[d], "close") /\ idx' = idx
      BY <1>1, <2>3 DEF DepDone
    <3>2. pc'[j] = "close" /\ OthersMove(j)
      BY <1>0, <3>1, GotoMoves DEF FailAt
    <3>3. Justified(j, nodeErr[d])
      BY <2>1, <2>3 DEF Justified
    <3>4. nodeErr[d] \in Errors
      BY <1>0, <2>1
    <3> QED
      BY <1>1, <3>1, <3>2, <3>3, <3>4 DEF DepDone, Fails, FailAt
  <2> QED
    BY <2>2, <2>3
<1>2. ASSUME DepCanceled(j) \/ AcquireRefused(j) \/ SolveCanceled(j)
      PROVE  Fails(j, Canceled)
  <2>1. PICK l \in {"close", "release"} : FailAt(j, Canceled, l)
    BY <1>2 DEF DepCanceled, AcquireRefused, SolveCanceled
  <2>2. pc'[j] = l /\ OthersMove(j)
    BY <1>0, <2>1, GotoMoves DEF FailAt
  <2>3. Justified(j, Canceled)
    BY <1>2 DEF DepCanceled, AcquireRefused, SolveCanceled, Justified
  <2> QED
    BY <1>2, <2>1, <2>2, <2>3
       DEF DepCanceled, AcquireRefused, SolveCanceled, Fails, FailAt
<1>3. ASSUME QueuedCanceled(j)
      PROVE  Fails(j, Canceled)
  <2>1. Justified(j, Canceled)
    BY <1>3 DEF QueuedCanceled, Justified
  <2> QED
    BY <1>3, <2>1, QueuedCanceledMoves DEF QueuedCanceled, Fails
<1>4. ASSUME GrantReturned(j)
      PROVE  Fails(j, Canceled)
  <2>1. Justified(j, Canceled)
    BY <1>4 DEF GrantReturned, Justified
  <2> QED
    BY <1>4, <2>1, NotifyMoves DEF GrantReturned, Fails
<1>5. ASSUME SolveRejected(j) \/ SolveFailed(j)
      PROVE  Fails(j, j)
  <2>1. FailAt(j, j, "release")
    BY <1>5 DEF SolveRejected, SolveFailed
  <2>2. pc'[j] = "release" /\ OthersMove(j)
    BY <1>0, <2>1, GotoMoves DEF FailAt
  <2> QED
    BY <1>5, <2>1, <2>2 DEF SolveRejected, SolveFailed, Fails, FailAt, Justified
<1> QED
  BY <1>0, <1>1, <1>2, <1>3, <1>4, <1>5

\* Every step of the specification is of one of these kinds.
LEMMA StepKinds ==
    ASSUME TypeInv, [Next]_jobVars
    PROVE  \/ RunStep
           \/ \E j \in Jobs : \/ Advances(j) \/ Moves(j)
                              \/ CloseDone(j) \/ Return(j)
                              \/ \E e \in Errors : Fails(j, e)
<1>0. pc \in [Jobs -> Labels]
  BY DEF TypeInv, TypeOK
<1> USE DEF At, AtAcquire, Early
<1>6. ASSUME NEW j \in Jobs, Release(j)
      PROVE  Moves(j)
  BY <1>6, NotifyMoves DEF Release, Moves
<1>7. ASSUME NEW j \in Jobs,
             \/ AcquireNow(j) \/ AcquireQueue(j) \/ GrantTaken(j)
             \/ SolveCalled(j) \/ SolveOK(j)
      PROVE  Moves(j)
  <2>1. PICK l \in {"slot", "queued", "solving", "release"} : Goto(j, l)
    BY <1>7 DEF AcquireNow, AcquireQueue, GrantTaken, SolveCalled, SolveOK
  <2>2. pc'[j] = l /\ OthersMove(j)
    BY <1>0, <2>1, GotoMoves
  <2> QED
    BY <1>7, <2>2
       DEF AcquireNow, AcquireQueue, GrantTaken, SolveCalled, SolveOK, Moves
<1>8. CASE UNCHANGED jobVars
  BY <1>8 DEF jobVars, RunStep
<1> QED
  BY <1>6, <1>7, <1>8, ErrorSteps
     DEF Next, JobNext, GoroutineStep, SolveAnswer, Finished, RunStep

-----------------------------------------------------------------------------
(* Dependency order.  DepsSolvedFirst is not inductive by itself: what makes *)
(* it so is that a dependency already passed stays solved (its error is      *)
(* frozen by the closed channel), and that only a goroutine past all of them *)
(* leaves the wait loop without an error.                                    *)

OrderInv ==
    /\ \A j \in Jobs : \A i \in DOMAIN deps[j] :
         i < idx[j] => deps[j][i] \in Succeeded
    /\ \A j \in Jobs : pc[j] # "wait" /\ nodeErr[j] = NoErr => idx[j] > Len(deps[j])
    /\ \A j \in Jobs : pc[j] \in Early => nodeErr[j] = NoErr
    /\ \A j \in Jobs : j \in done <=> pc[j] \in {"return", "exited"}

\* No dependency has been passed when Run starts.
LEMMA OrderInvInit == JobInit => OrderInv
<1> SUFFICES ASSUME JobInit PROVE OrderInv
  OBVIOUS
<1>1. \A j \in Jobs : pc[j] = "wait" /\ idx[j] = 1 /\ nodeErr[j] = NoErr /\ j \notin done
  BY DEF JobInit, FirstDep
<1>2. ASSUME NEW j \in Jobs, NEW i \in DOMAIN deps[j], i < 1
      PROVE  FALSE
  <2>1. deps[j] \in Seq(Jobs \cup {Unknown})
    BY ConstantsAssumption DEF JobInit
  <2> QED
    BY <1>2, <2>1
<1> QED
  BY <1>1, <1>2 DEF OrderInv

\* A closed channel and the error behind it stay as they are.
LEMMA DoneFrozen ==
    ASSUME TypeInv, OrderInv, [Next]_jobVars
    PROVE  \A j \in done : j \in done' /\ nodeErr'[j] = nodeErr[j]
<1> SUFFICES ASSUME NEW k \in done PROVE k \in done' /\ nodeErr'[k] = nodeErr[k]
  OBVIOUS
<1>0. k \in Jobs /\ pc[k] \notin Early /\ nodeErr \in [Jobs -> Errors]
  BY DEF TypeInv, TypeOK, OrderInv, Early
<1>1. CASE RunStep
  BY <1>1 DEF RunStep, BuildDAG, Wait, CancelCaller
<1>2. ASSUME NEW j \in Jobs, Advances(j) \/ Moves(j) \/ CloseDone(j) \/ Return(j)
      PROVE  k \in done' /\ nodeErr'[k] = nodeErr[k]
  BY <1>2 DEF Advances, Moves, CloseDone, Return
<1>3. ASSUME NEW j \in Jobs, NEW e \in Errors, Fails(j, e)
      PROVE  k \in done' /\ nodeErr'[k] = nodeErr[k]
  BY <1>0, <1>3 DEF Fails
<1> QED
  BY <1>1, <1>2, <1>3, StepKinds

\* Every kind of step keeps the dependency order.
LEMMA OrderInvStep == TypeInv /\ OrderInv /\ [Next]_jobVars => OrderInv'
<1> SUFFICES ASSUME TypeInv, OrderInv, [Next]_jobVars PROVE OrderInv'
  OBVIOUS
<1>0. /\ pc \in [Jobs -> Labels] /\ nodeErr \in [Jobs -> Errors]
      /\ idx \in [Jobs -> Nat \ {0}] /\ done \subseteq Jobs
      /\ \A j \in Jobs : deps[j] \in Seq(Jobs \cup {Unknown})
  BY ConstantsAssumption DEF TypeInv, TypeOK
<1>d. deps' = deps
  BY DEF Next, JobNext, GoroutineStep, SolveAnswer, Finished, jobVars, BuildDAG,
     Wait, CancelCaller, DepDone, DepCanceled, AcquireRefused, AcquireNow,
     AcquireQueue, QueuedCanceled, GrantTaken, GrantReturned, Release,
     SolveRejected, SolveCalled, SolveOK, SolveFailed, SolveCanceled, CloseDone,
     Return
<1>s. Succeeded \subseteq Succeeded'
  BY DoneFrozen DEF Succeeded
\* The first conjunct follows from these two facts about a step of any kind.
<1>f. ASSUME \A k \in Jobs : \/ idx'[k] = idx[k]
                             \/ /\ idx'[k] = idx[k] + 1
                                /\ deps[k][idx[k]] \in Succeeded
      PROVE  \A k \in Jobs : \A i \in DOMAIN deps'[k] :
               i < idx'[k] => deps'[k][i] \in Succeeded'
  <2> SUFFICES ASSUME NEW k \in Jobs, NEW i \in DOMAIN deps[k], i < idx'[k]
               PROVE  deps[k][i] \in Succeeded'
    BY <1>d
  <2>0. i \in Nat /\ idx[k] \in Nat
    BY <1>0
  <2>1. i < idx[k] => deps[k][i] \in Succeeded
    BY DEF OrderInv
  <2>2. i < idx[k] \/ i = idx[k]
    BY <1>f, <2>0
  <2>3. i = idx[k] => deps[k][i] \in Succeeded
    BY <1>f, <2>0
  <2> QED
    BY <2>1, <2>2, <2>3, <1>s
<1>1. CASE RunStep
  <2>1. UNCHANGED <<pc, idx, nodeErr, done>>
    BY <1>1 DEF RunStep, BuildDAG, Wait, CancelCaller
  <2> QED
    BY <2>1, <1>d, <1>f DEF OrderInv
<1>2. ASSUME NEW j \in Jobs, Advances(j) PROVE OrderInv'
  <2>1. /\ UNCHANGED <<pc, nodeErr, done>>
        /\ idx' = [idx EXCEPT ![j] = @ + 1]
        /\ deps[j][idx[j]] \in Succeeded
        /\ pc[j] = "wait"
    BY <1>2 DEF Advances
  <2>2. \A k \in Jobs : idx'[k] = IF k = j THEN idx[j] + 1 ELSE idx[k]
    BY <1>0, <2>1
  <2>3. \A k \in Jobs : \A i \in DOMAIN deps'[k] :
           i < idx'[k] => deps'[k][i] \in Succeeded'
    BY <1>f, <2>1, <2>2
  <2>4. \A k \in Jobs :
           pc'[k] # "wait" /\ nodeErr'[k] = NoErr => idx'[k] > Len(deps'[k])
    BY <2>1, <2>2, <1>d DEF OrderInv
  <2> QED
    BY <2>1, <2>3, <2>4 DEF OrderInv
<1>3. ASSUME NEW j \in Jobs, Moves(j) PROVE OrderInv'
  <2>1. UNCHANGED <<idx, nodeErr, done>> /\ OthersMove(j)
    BY <1>3 DEF Moves
  <2>2. \A k \in Jobs : \A i \in DOMAIN deps'[k] :
           i < idx'[k] => deps'[k][i] \in Succeeded'
    BY <1>f, <2>1
  <2>3. \A k \in Jobs :
           pc'[k] # "wait" /\ nodeErr'[k] = NoErr => idx'[k] > Len(deps'[k])
    <3>1. nodeErr[j] = NoErr => idx[j] > Len(deps[j])
      BY <1>3 DEF Moves, OrderInv
    <3>2. \A k \in Jobs \ {j} : pc'[k] # "wait" => pc[k] # "wait"
      BY <2>1 DEF OthersMove
    <3> QED
      BY <2>1, <3>1, <3>2, <1>d DEF OrderInv
  <2>4. \A k \in Jobs : pc'[k] \in Early => nodeErr'[k] = NoErr
    BY <1>3, <2>1 DEF OrderInv, OthersMove, Moves, Early
  <2>5. \A k \in Jobs : k \in done' <=> pc'[k] \in {"return", "exited"}
    BY <1>3, <2>1 DEF OrderInv, OthersMove, Moves, Early
  <2> QED
    BY <2>2, <2>3, <2>4, <2>5 DEF OrderInv
<1>4. ASSUME NEW j \in Jobs, NEW e \in Errors, Fails(j, e) PROVE OrderInv'
  <2>1. /\ UNCHANGED <<idx, done>> /\ OthersMove(j)
        /\ nodeErr' = [nodeErr EXCEPT ![j] = e]
        /\ pc'[j] \in {"release", "close"} /\ pc[j] \in Early
    BY <1>4 DEF Fails
  <2>e. e # NoErr
    BY <1>4, ConstantsAssumption DEF Fails, Justified
  <2>2. \A k \in Jobs : \A i \in DOMAIN deps'[k] :
           i < idx'[k] => deps'[k][i] \in Succeeded'
    BY <1>f, <2>1
  <2>3. \A k \in Jobs :
           pc'[k] # "wait" /\ nodeErr'[k] = NoErr => idx'[k] > Len(deps'[k])
    <3>1. \A k \in Jobs \ {j} : /\ pc'[k] # "wait" => pc[k] # "wait"
                                /\ nodeErr'[k] = nodeErr[k]
      BY <1>0, <2>1 DEF OthersMove
    <3>2. nodeErr'[j] # NoErr
      BY <1>0, <2>1, <2>e
    <3> QED
      BY <2>1, <3>1, <3>2, <1>d DEF OrderInv
  <2>4. \A k \in Jobs : pc'[k] \in Early => nodeErr'[k] = NoErr
    BY <1>0, <2>1 DEF OrderInv, OthersMove, Early
  <2>5. \A k \in Jobs : k \in done' <=> pc'[k] \in {"return", "exited"}
    BY <2>1 DEF OrderInv, OthersMove, Early
  <2> QED
    BY <2>2, <2>3, <2>4, <2>5 DEF OrderInv
<1>5. ASSUME NEW j \in Jobs, CloseDone(j) \/ Return(j) PROVE OrderInv'
  <2>1. /\ UNCHANGED <<idx, nodeErr>>
        /\ pc[j] \in {"close", "return"}
        /\ \E l \in {"return", "exited"} : pc' = [pc EXCEPT ![j] = l]
        /\ done' = done \cup {j}
    BY <1>5 DEF CloseDone, Return, At, Goto, OrderInv
  <2>2. \A k \in Jobs : \A i \in DOMAIN deps'[k] :
           i < idx'[k] => deps'[k][i] \in Succeeded'
    BY <1>f, <2>1
  <2>3. \A k \in Jobs :
           pc'[k] # "wait" /\ nodeErr'[k] = NoErr => idx'[k] > Len(deps'[k])
    BY <1>0, <2>1, <1>d DEF OrderInv
  <2>4. \A k \in Jobs : pc'[k] \in Early => nodeErr'[k] = NoErr
    BY <1>0, <2>1 DEF OrderInv, Early
  <2>5. \A k \in Jobs : k \in done' <=> pc'[k] \in {"return", "exited"}
    BY <1>0, <2>1 DEF OrderInv
  <2> QED
    BY <2>2, <2>3, <2>4, <2>5 DEF OrderInv
<1> QED
  BY <1>1, <1>2, <1>3, <1>4, <1>5, StepKinds

\* A goroutine past its loop, with no error, has passed all its dependencies.
LEMMA OrderInvImplies == TypeInv /\ OrderInv => DepsSolvedFirst
<1> SUFFICES ASSUME TypeInv, OrderInv,
                    NEW j \in Started \cup Succeeded, NEW d \in DepsOf(j)
             PROVE  d \in Succeeded
  BY DEF DepsSolvedFirst
<1>1. /\ j \in Jobs /\ deps[j] \in Seq(Jobs \cup {Unknown})
      /\ idx[j] \in Nat
  BY ConstantsAssumption DEF TypeInv, TypeOK, Started, Succeeded
<1>2. PICK i \in DOMAIN deps[j] : d = deps[j][i]
  BY <1>1 DEF DepsOf, AsSets
<1>3. idx[j] > Len(deps[j])
  BY <1>1 DEF OrderInv, Started, Succeeded, Early
<1>4. i < idx[j]
  BY <1>1, <1>2, <1>3
<1> QED
  BY <1>1, <1>2, <1>4 DEF OrderInv

\* The dependency order holds in every reachable state.
LEMMA OrderCorrect == Spec => [](TypeInv /\ OrderInv)
<1>1. JobInit => TypeInv /\ OrderInv
  BY TypeInvInit, OrderInvInit
<1>2. TypeInv /\ OrderInv /\ [Next]_jobVars => (TypeInv /\ OrderInv)'
  BY TypeInvStep, OrderInvStep
<1> QED
  BY <1>1, <1>2, PTL DEF Spec

\* Whatever the schedule, the parallelism and the failures: no job is solved
\* before everything it depends on has been.
THEOREM DependenciesFirst == Spec => []DepsSolvedFirst
BY OrderCorrect, OrderInvImplies, PTL

\* The happens-before that dagNode's comment claims: an error is never written
\* after the channel it is read behind has been closed.
THEOREM ErrorsFrozen == Spec => ErrFrozenOnceDone
<1>1. TypeInv /\ OrderInv /\ [Next]_jobVars
        => [\A j \in done : j \in done' /\ nodeErr'[j] = nodeErr[j]]_jobVars
  BY DoneFrozen
<1> QED
  BY <1>1, OrderCorrect, PTL DEF Spec, ErrFrozenOnceDone

-----------------------------------------------------------------------------
(* Errors and the verdict.  CauseIsReal and VerdictFaithful need to know that *)
(* a goroutine is only cancelled after the caller cancelled or the errgroup   *)
(* kept an error: so the first error it keeps cannot be a sibling's           *)
(* cancellation.                                                              *)

VerdictInv ==
    /\ CauseIsReal
    /\ \A j \in Jobs : nodeErr[j] = Canceled => ctxDone \/ groupErr # NoErr
    /\ \A j \in Jobs : pc[j] = "exited" /\ nodeErr[j] # NoErr => groupErr # NoErr
    /\ groupErr # NoErr => \E j \in done : nodeErr[j] # NoErr
    /\ phase = "waited" => \A j \in Jobs : pc[j] = "exited"

\* There is no error when Run starts.
LEMMA VerdictInvInit == JobInit => VerdictInv
BY ConstantsAssumption DEF JobInit, VerdictInv, CauseIsReal

\* Every kind of step keeps the causes of errors real.
LEMMA VerdictInvStep ==
    TypeInv /\ OrderInv /\ VerdictInv /\ [Next]_jobVars => VerdictInv'
<1> SUFFICES ASSUME TypeInv, OrderInv, VerdictInv, [Next]_jobVars
             PROVE  VerdictInv'
  OBVIOUS
<1>0. /\ pc \in [Jobs -> Labels] /\ nodeErr \in [Jobs -> Errors]
      /\ done \subseteq Jobs /\ groupErr \in Errors
      /\ NoErr \notin Jobs /\ Canceled \notin Jobs /\ NoErr # Canceled
  BY ConstantsAssumption DEF TypeInv, TypeOK
<1>k. \A k \in done : k \in done' /\ nodeErr'[k] = nodeErr[k]
  BY DoneFrozen
<1>1. CASE RunStep
  <2>1. /\ UNCHANGED <<pc, nodeErr, done, groupErr>>
        /\ ctxDone => ctxDone'
        /\ phase' = "waited" => phase = "waited" \/ \A j \in Jobs : pc[j] = "exited"
    BY <1>1 DEF RunStep, BuildDAG, Wait, CancelCaller
  <2> QED
    BY <2>1 DEF VerdictInv, CauseIsReal
<1>2. ASSUME NEW j \in Jobs, Advances(j) \/ Moves(j) PROVE VerdictInv'
  <2>1. /\ UNCHANGED <<phase, nodeErr, done, groupErr, ctxDone>>
        /\ \A k \in Jobs : pc'[k] = "exited" => pc[k] = "exited"
        /\ phase # "waited"
    BY <1>2 DEF Advances, Moves, OthersMove
  <2> QED
    BY <2>1 DEF VerdictInv, CauseIsReal
<1>3. ASSUME NEW j \in Jobs, NEW e \in Errors, Fails(j, e) PROVE VerdictInv'
  <2>1. /\ UNCHANGED <<phase, done, groupErr, ctxDone>>
        /\ \A k \in Jobs : pc'[k] = "exited" => pc[k] = "exited" /\ k # j
        /\ phase = "jobs"
        /\ nodeErr[j] = NoErr
    BY <1>3 DEF Fails, OthersMove, OrderInv
  <2>2. \A k \in Jobs : nodeErr'[k] = IF k = j THEN e ELSE nodeErr[k]
    BY <1>0, <1>3 DEF Fails
  \* No error blames j yet, so those blamed so far keep their own error.
  <2>3. \A k \in Jobs : nodeErr[k] \in Jobs => nodeErr[k] # j
    BY <1>0, <2>1 DEF VerdictInv, CauseIsReal
  <2>4. groupErr \in Jobs => groupErr # j
    BY <1>0, <2>1 DEF VerdictInv, CauseIsReal
  <2>5. \/ e = j
        \/ e = Canceled /\ (ctxDone \/ groupErr # NoErr)
        \/ e # NoErr /\ \E d \in done : e = nodeErr[d]
    BY <1>3, <2>1 DEF Fails, Justified, GroupCtxDone
  <2>6. e \in Jobs => nodeErr'[e] = e
    BY <1>0, <2>1, <2>2, <2>3, <2>5 DEF VerdictInv, CauseIsReal
  <2>7. e = Canceled => ctxDone \/ groupErr # NoErr
    BY <1>0, <2>5 DEF VerdictInv
  <2>8. CauseIsReal'
    BY <1>0, <2>1, <2>2, <2>3, <2>4, <2>6 DEF VerdictInv, CauseIsReal
  <2>9. groupErr # NoErr => \E k \in done : nodeErr'[k] # NoErr
    BY <1>k DEF VerdictInv
  <2> QED
    BY <2>1, <2>2, <2>7, <2>8, <2>9 DEF VerdictInv
<1>4. ASSUME NEW j \in Jobs, CloseDone(j) PROVE VerdictInv'
  <2>1. /\ UNCHANGED <<phase, nodeErr, groupErr, ctxDone>> /\ phase = "jobs"
        /\ done \subseteq done'
        /\ \A k \in Jobs : pc'[k] = "exited" => pc[k] = "exited"
    BY <1>0, <1>4 DEF CloseDone, At, Goto
  <2> QED
    BY <2>1 DEF VerdictInv, CauseIsReal
<1>5. ASSUME NEW j \in Jobs, Return(j) PROVE VerdictInv'
  <2>1. /\ UNCHANGED <<phase, nodeErr, done, ctxDone>> /\ phase = "jobs"
        /\ groupErr' = IF groupErr = NoErr THEN nodeErr[j] ELSE groupErr
        /\ \A k \in Jobs : pc'[k] = "exited" => pc[k] = "exited" \/ k = j
        /\ j \in done
    BY <1>0, <1>5 DEF Return, FirstError, At, Goto, OrderInv
  <2>2. groupErr # NoErr => groupErr' # NoErr
    BY <2>1
  <2>3. nodeErr[j] # NoErr => groupErr' # NoErr
    BY <2>1
  <2>4. groupErr' \in Jobs => nodeErr[groupErr'] = groupErr'
    BY <1>0, <2>1 DEF VerdictInv, CauseIsReal
  <2>5. groupErr' = Canceled => ctxDone
    BY <1>0, <2>1 DEF VerdictInv, CauseIsReal
  <2>6. groupErr' # NoErr => \E k \in done : nodeErr[k] # NoErr
    BY <2>1 DEF VerdictInv
  <2> QED
    BY <2>1, <2>2, <2>3, <2>4, <2>5, <2>6 DEF VerdictInv, CauseIsReal
<1> QED
  BY <1>1, <1>2, <1>3, <1>4, <1>5, StepKinds

\* The causes of errors are real in every reachable state.
LEMMA VerdictCorrect == Spec => [](TypeInv /\ OrderInv /\ VerdictInv)
<1>1. JobInit => VerdictInv
  BY VerdictInvInit
<1>2. TypeInv /\ OrderInv /\ VerdictInv /\ [Next]_jobVars => VerdictInv'
  BY VerdictInvStep
<1> QED
  BY <1>1, <1>2, OrderCorrect, PTL DEF Spec

\* No schedule blames a job that did not fail, and a run whose caller did not
\* cancel never answers "canceled".
THEOREM CausesReal == Spec => []CauseIsReal
<1>1. VerdictInv => CauseIsReal
  BY DEF VerdictInv
<1> QED
  BY <1>1, VerdictCorrect, PTL

\* Wait answers nil exactly when every job was solved.
THEOREM VerdictsFaithful == Spec => []VerdictFaithful
<1>1. TypeInv /\ OrderInv /\ VerdictInv => VerdictFaithful
  <2> SUFFICES ASSUME TypeInv, OrderInv, VerdictInv, phase = "waited"
               PROVE  groupErr = NoErr <=> Succeeded = Jobs
    BY DEF VerdictFaithful
  <2>1. done = Jobs
    BY DEF TypeInv, TypeOK, OrderInv, VerdictInv
  <2> QED
    BY <2>1 DEF VerdictInv, Succeeded
<1> QED
  BY <1>1, VerdictCorrect, PTL

-----------------------------------------------------------------------------
(* The tokens of the semaphore: counting.                                  *)

\* The owners of tokens are jobs, hence finitely many.
LEMMA HoldersFinite == IsFiniteSet(Holders) /\ Cardinality(Holders) \in Nat
<1>1. Holders \in SUBSET Jobs /\ IsFiniteSet(Jobs)
  BY ConstantsAssumption DEF Holders
<1> QED
  BY <1>1, FS_Subset, FS_CardinalityType

\* Handing out n tokens serves n goroutines: the queue names each one once.
LEMMA ServedCount ==
    ASSUME NEW S \in SUBSET Jobs, NEW w, Queues(w, S), NEW n \in 0..Len(w)
    PROVE  IsFiniteSet(Served(w, n)) /\ Cardinality(Served(w, n)) = n
<1> DEFINE f == [i \in 1..n |-> w[i]]
           T == Served(w, n)
<1>1. w \in Seq(Jobs) /\ Len(w) \in Nat /\ DOMAIN w = 1..Len(w)
  BY DEF Queues
<1>2. \A i \in 1..n : w[i] \in Jobs
  BY <1>1
<1>3. f \in [1..n -> T]
  BY <1>2 DEF Served
<1>4. \A k \in T : \E i \in 1..n : f[i] = k
  BY DEF Served
<1>5. \A i, k \in 1..n : f[i] = f[k] => i = k
  BY <1>1 DEF Queues
<1>6. f \in Surjection(1..n, T) /\ f \in Injection(1..n, T)
  BY <1>3, <1>4, <1>5 DEF Surjection, Injection, IsInjective
<1>7. IsFiniteSet(1..n) /\ Cardinality(1..n) = n
  BY <1>1, FS_Interval
<1> QED
  BY <1>6, <1>7, FS_Surjection

\* When goroutine j leaves and n tokens are handed out, the owners are those
\* that were, without j, and the n that were served.
LEMMA HandCount ==
    ASSUME pc \in [Jobs -> Labels],
           NEW j \in Jobs, NEW c \in Int, NEW w, NEW n \in 0..Len(w),
           Queues(w, Queued \ {j}),
           Hand(j, "close", c, w, n)
    PROVE  /\ Cardinality(Holders') = Cardinality(Holders \ {j}) + n
           /\ cur' = c + n
           /\ Len(waiters') = Len(w) - n
           /\ waiters' \in Seq(Jobs)
<1> DEFINE S == Served(w, n)
           H == Holders \ {j}
<1>0. "close" \in Labels /\ "close" # "queued"
  BY DEF Labels
<1>1. /\ pc'[j] = "close"
      /\ \A k \in Jobs \ {j} : pc'[k] = IF k \in S THEN "granted" ELSE pc[k]
      /\ S \subseteq Queued \ {j}
      /\ cur' = c + n /\ Len(waiters') = Len(w) - n /\ Queues(waiters', Queued')
  BY <1>0, HandEffect
<1>2. Holders' = H \cup S
  BY <1>1 DEF Holders, Holding, Served
<1>3. H \cap S = {}
  BY <1>1 DEF Holders, Holding, Queued
<1>4. IsFiniteSet(S) /\ Cardinality(S) = n /\ n \in Int
  BY ServedCount DEF Queued
<1>5. IsFiniteSet(H) /\ Cardinality(H) \in Nat
  BY HoldersFinite, FS_RemoveElement, FS_CardinalityType
<1>6. Cardinality(H \cup S) = Cardinality(H) + Cardinality(S) - Cardinality(H \cap S)
  BY <1>4, <1>5, FS_Union
<1>7. Cardinality(H \cap S) = 0
  BY <1>3, FS_EmptySet
<1>8. cur' = c + n /\ Len(waiters') = Len(w) - n /\ waiters' \in Seq(Jobs)
  BY <1>1 DEF Queues
<1> HIDE DEF S, H
<1>9. Cardinality(H \cup S) = Cardinality(H) + n
  BY <1>4, <1>5, <1>6, <1>7
<1> QED
  BY <1>2, <1>9, <1>8 DEF H

-----------------------------------------------------------------------------
(* The tokens.                                                             *)

SlotInv ==
    /\ cur = Cardinality(Holders)
    /\ cur <= Limit
    /\ waiters # <<>> => cur = Limit

\* A step that neither gives nor takes a token.
LEMMA SameHolders ==
    ASSUME TypeInv, SlotInv, NEW j \in Jobs, NEW l \in Labels,
           Goto(j, l), pc[j] \in Holding <=> l \in Holding,
           cur' = cur, waiters' = waiters
    PROVE  SlotInv'
<1>1. pc \in [Jobs -> Labels]
  BY DEF TypeInv, TypeOK
<1>2. Holders' = Holders
  BY <1>1 DEF Goto, Holders
<1> QED
  BY <1>2 DEF SlotInv

\* A token goes back and the queue is notified.
LEMMA TokenBack ==
    ASSUME TypeInv, SlotInv, NEW j \in Holders,
           NotifyWaiters(j, "close", cur - 1, waiters)
    PROVE  SlotInv'
<1> DEFINE c == cur - 1
           n == Handed(c, waiters)
<1>1. /\ pc \in [Jobs -> Labels] /\ waiters \in Seq(Jobs) /\ Len(waiters) \in Nat
      /\ Queues(waiters, Queued)
  BY DEF TypeInv, TypeOK
<1>2. j \in Jobs /\ Queues(waiters, Queued \ {j})
  <2>1. j \in Jobs /\ Queued \ {j} = Queued
    BY DEF Holders, Holding, Queued
  <2> QED
    BY <1>1, <2>1
<1>3. c \in Int /\ cur \in Int /\ Limit \in Nat /\ c < Limit
  BY LimitType DEF SlotInv, TypeInv, TypeOK
<1>4. n <= Limit - c /\ (n < Len(waiters) => n = Limit - c)
  BY <1>1, <1>3 DEF Handed
<1>5. n \in 0..Len(waiters) /\ c \in Int
  BY <1>1, <1>3, HandedType
<1>6. Hand(j, "close", c, waiters, n)
  BY DEF NotifyWaiters
<1> HIDE DEF c, n
<1>7. /\ Cardinality(Holders') = Cardinality(Holders \ {j}) + n
      /\ cur' = c + n
      /\ Len(waiters') = Len(waiters) - n
      /\ waiters' \in Seq(Jobs)
  BY <1>1, <1>2, <1>6, <1>5, HandCount
<1>8. Cardinality(Holders \ {j}) = c
  BY HoldersFinite, FS_RemoveElement DEF SlotInv, c
<1>9. waiters' # <<>> => n < Len(waiters)
  BY <1>1, <1>5, <1>7
<1> QED
  BY <1>3, <1>4, <1>7, <1>8, <1>9, <1>5, SMTT(30) DEF SlotInv, Limit

\* No token is out when Run starts.
LEMMA SlotInvInit == JobInit => SlotInv
<1> SUFFICES ASSUME JobInit PROVE SlotInv
  OBVIOUS
<1>1. Holders = {}
  BY DEF JobInit, Holders, Holding
<1> QED
  BY <1>1, FS_EmptySet, LimitType DEF JobInit, SlotInv

\* Every action keeps the tokens accounted for.
LEMMA SlotInvStep == TypeInv /\ SlotInv /\ [Next]_jobVars => SlotInv'
<1> SUFFICES ASSUME TypeInv, SlotInv, [Next]_jobVars PROVE SlotInv'
  OBVIOUS
<1>0. /\ pc \in [Jobs -> Labels] /\ cur \in Int /\ Limit \in Nat
      /\ Queues(waiters, Queued) /\ waiters \in Seq(Jobs)
  BY LimitType DEF TypeInv, TypeOK
<1>1. CASE BuildDAG \/ Wait \/ CancelCaller \/ UNCHANGED jobVars
  <2>1. pc' = pc /\ cur' = cur /\ waiters' = waiters
    BY <1>1 DEF BuildDAG, Wait, CancelCaller, jobVars
  <2> QED
    BY <2>1 DEF SlotInv, Holders
<1>2. ASSUME NEW j \in Jobs, DepDone(j) PROVE SlotInv'
  <2>1. CASE pc' = pc
    BY <1>2, <2>1 DEF DepDone, SlotInv, Holders
  <2>2. CASE Goto(j, "close")
    BY <1>2, <2>2, SameHolders DEF DepDone, At, Labels, Holding
  <2> QED
    BY <1>2, <2>1, <2>2 DEF DepDone, FailAt
<1>3. ASSUME NEW j \in Jobs, DepCanceled(j) \/ AcquireRefused(j) PROVE SlotInv'
  BY <1>3, SameHolders DEF DepCanceled, AcquireRefused, AtAcquire, FailAt, At, Labels, Holding
<1>4. ASSUME NEW j \in Jobs, AcquireNow(j) PROVE SlotInv'
  <2>1. pc[j] = "wait" /\ Goto(j, "slot") /\ cur' = cur + 1 /\ cur < Limit
        /\ waiters = <<>> /\ waiters' = waiters
    BY <1>4 DEF AcquireNow, AtAcquire, At
  <2>2. Holders' = Holders \cup {j} /\ j \notin Holders
    BY <1>0, <2>1 DEF Goto, Holders, Holding
  <2>3. Cardinality(Holders \cup {j}) = Cardinality(Holders) + 1
    BY <2>2, HoldersFinite, FS_AddElement
  <2> QED
    BY <1>0, <2>1, <2>2, <2>3 DEF SlotInv
<1>5. ASSUME NEW j \in Jobs, AcquireQueue(j) PROVE SlotInv'
  <2>1. pc[j] = "wait" /\ Goto(j, "queued") /\ cur' = cur /\ cur = Limit
    BY <1>0, <1>5 DEF AcquireQueue, AtAcquire, At, SlotInv
  <2>2. Holders' = Holders
    BY <1>0, <2>1 DEF Goto, Holders, Holding
  <2> QED
    BY <2>1, <2>2 DEF SlotInv, Limit
<1>6. ASSUME NEW j \in Jobs, QueuedCanceled(j) PROVE SlotInv'
  <2> DEFINE rest == WithoutJob(waiters, j)
  <2>1. j \in Queued /\ Queued \in SUBSET Jobs
    BY <1>6 DEF QueuedCanceled, At, Queued
  <2>2. Queues(rest, Queued \ {j}) /\ waiters # <<>>
    BY <1>0, <2>1, WithoutJobQueues
  <2>3. rest \in Seq(Jobs)
    BY <2>2 DEF Queues
  <2>4. cur = Limit
    BY <2>2 DEF SlotInv
  <2>5. Hand(j, "close", cur, rest, 0) /\ 0 \in 0..Len(rest)
    BY <1>0, <1>6, <2>4, <2>3 DEF QueuedCanceled
  <2> HIDE DEF rest
  <2>6. cur' = cur
    BY <1>0, <2>5 DEF Hand
  <2>7. Cardinality(Holders') = Cardinality(Holders \ {j}) + 0
    BY <1>0, <2>2, <2>5, HandCount
  <2>8. Holders \ {j} = Holders
    BY <2>1 DEF Queued, Holders, Holding
  <2>9. SlotInv'
    <3>1. Cardinality(Holders') = Cardinality(Holders)
      BY <2>7, <2>8, HoldersFinite
    <3> QED
      BY <1>0, <2>4, <2>6, <3>1 DEF SlotInv, Limit
  <2> QED
    BY <2>9
<1>7. ASSUME NEW j \in Jobs, GrantTaken(j) PROVE SlotInv'
  BY <1>7, SameHolders DEF GrantTaken, At, Labels, Holding
<1>8. ASSUME NEW j \in Jobs, GrantReturned(j) \/ Release(j) PROVE SlotInv'
  BY <1>8, TokenBack DEF GrantReturned, Release, At, Holders, Holding
<1>9. ASSUME NEW j \in Jobs,
             SolveRejected(j) \/ SolveCalled(j) \/ SolveOK(j) \/ SolveFailed(j) \/ SolveCanceled(j)
      PROVE  SlotInv'
  BY <1>9, SameHolders
     DEF SolveRejected, SolveCalled, SolveOK, SolveFailed, SolveCanceled, FailAt, At, Labels, Holding
<1>10. ASSUME NEW j \in Jobs, CloseDone(j) \/ Return(j) PROVE SlotInv'
  BY <1>10, SameHolders DEF CloseDone, Return, At, Labels, Holding
<1> QED
  BY <1>1, <1>2, <1>3, <1>4, <1>5, <1>6, <1>7, <1>8, <1>9, <1>10
     DEF Next, JobNext, GoroutineStep, SolveAnswer, Finished

\* The tokens are accounted for in every reachable state.
LEMMA SlotsCorrect == Spec => [](TypeInv /\ SlotInv)
<1>1. JobInit => TypeInv /\ SlotInv
  BY TypeInvInit, SlotInvInit
<1>2. TypeInv /\ SlotInv /\ [Next]_jobVars => TypeInv' /\ SlotInv'
  BY TypeInvStep, SlotInvStep
<1> QED
  BY <1>1, <1>2, PTL DEF Spec

\* The semaphore's count is the number of goroutines that own a token, and
\* never passes the limit: at most Parallelism jobs are solved at once.
THEOREM TokensAccounted == Spec => []SlotsAccounted
<1>1. SlotInv => SlotsAccounted
  BY DEF SlotInv, SlotsAccounted
<1> QED
  BY <1>1, SlotsCorrect, PTL

\* Goroutines queue only while every token is out, and the queue holds exactly
\* the goroutines that are blocked in Acquire, each one once.
THEOREM NoWakeupLost == Spec => []NoLostWakeup
<1>1. TypeInv /\ SlotInv => NoLostWakeup
  BY DEF TypeInv, SlotInv, NoLostWakeup, Queues, Queued
<1> QED
  BY <1>1, SlotsCorrect, PTL

-----------------------------------------------------------------------------
(* The job phase implements DependencyOrder: its goroutines, its semaphore *)
(* and its errgroup do nothing that the promise does not allow.            *)

\* What the steps below need of a reachable state.
PhaseInv == TypeInv /\ OrderInv /\ VerdictInv /\ SlotInv

\* All invariants together hold in every reachable state.
LEMMA PhaseCorrect == Spec => []PhaseInv
BY VerdictCorrect, SlotsCorrect, PTL DEF PhaseInv

-----------------------------------------------------------------------------
(* The status of a job.                                                    *)

Over == {"release", "close", "return", "exited"}

\* Which labels and errors stand for which status.
LEMMA StatusValues ==
    ASSUME NEW k \in Jobs, NEW l \in Labels, NEW e \in Errors
    PROVE  /\ StatusOf(l, e, k) = "running" <=> l \in {"slot", "solving"}
           /\ StatusOf(l, e, k) = "pending" <=> l \in {"wait", "queued", "granted"}
           /\ StatusOf(l, e, k) = "ok" <=> l \in Over /\ e = NoErr
           /\ StatusOf(l, e, k) = "failed" <=> l \in Over /\ e = k
           /\ l \in Over /\ e # NoErr /\ e # k => StatusOf(l, e, k) = "skipped"
<1>1. NoErr # k
  BY ConstantsAssumption
<1>2. CASE l \in {"slot", "solving"}
  BY <1>2 DEF StatusOf, Over
<1>3. CASE l \in {"wait", "queued", "granted"}
  BY <1>3 DEF StatusOf, Over
<1>4. CASE l \in Over
  <2>1. StatusOf(l, e, k) = IF e = NoErr THEN "ok" ELSE IF e = k THEN "failed" ELSE "skipped"
    BY <1>4 DEF StatusOf, Over
  <2> QED
    BY <1>1, <1>4, <2>1 DEF Over
<1> QED
  BY <1>2, <1>3, <1>4 DEF Labels, Holding, Over

\* A step of j changes no one else's status, a grant included.
LEMMA OneStatus ==
    ASSUME PhaseInv, NEW j \in Jobs, OthersMove(j),
           nodeErr' \in [Jobs -> Errors],
           \A k \in Jobs \ {j} : nodeErr'[k] = nodeErr[k]
    PROVE  JobStatus' = [JobStatus EXCEPT ![j] = StatusOf(pc'[j], nodeErr'[j], j)]
<1>1. ASSUME NEW k \in Jobs \ {j}
      PROVE  StatusOf(pc'[k], nodeErr'[k], k) = StatusOf(pc[k], nodeErr[k], k)
  <2>1. CASE pc'[k] = pc[k]
    BY <2>1
  <2>2. CASE pc[k] = "queued" /\ pc'[k] = "granted"
    BY <2>2, StatusValues DEF Labels, Holding, PhaseInv, TypeInv, TypeOK
  <2> QED
    BY <2>1, <2>2 DEF OthersMove
<1>2. JobStatus' = [k \in Jobs |-> StatusOf(pc'[k], nodeErr'[k], k)]
  BY DEF JobStatus
<1>3. JobStatus = [k \in Jobs |-> StatusOf(pc[k], nodeErr[k], k)]
  BY DEF JobStatus
<1> QED
  BY <1>1, <1>2, <1>3

\* An error that is not nil can be traced to a failure or to the caller.
LEMMA Traced ==
    ASSUME PhaseInv, NEW e \in Errors \ {NoErr},
           groupErr = e \/ \E d \in done : nodeErr[d] = e
    PROVE  /\ e \in Jobs => e \in Promise!Failed
           /\ Promise!Failed # {} \/ ctxDone
<1>0. /\ pc \in [Jobs -> Labels] /\ nodeErr \in [Jobs -> Errors]
      /\ done \subseteq Jobs /\ groupErr \in Errors
      /\ NoErr \notin Jobs /\ Canceled \notin Jobs /\ NoErr # Canceled
  BY ConstantsAssumption DEF PhaseInv, TypeInv, TypeOK
<1>1. ASSUME NEW k \in Jobs, nodeErr[k] = k
      PROVE  k \in Promise!Failed
  <2>1. pc[k] \in Over
    BY <1>0, <1>1 DEF PhaseInv, OrderInv, Early, Labels, Holding, Over
  <2>2. JobStatus[k] = "failed"
    BY <1>0, <1>1, <2>1, StatusValues DEF JobStatus
  <2> QED
    BY <2>2 DEF Promise!Failed
<1>2. e \in Jobs => nodeErr[e] = e
  BY <1>0 DEF PhaseInv, VerdictInv, CauseIsReal
<1>3. groupErr \in Jobs => nodeErr[groupErr] = groupErr
  BY DEF PhaseInv, VerdictInv, CauseIsReal
<1>4. e = Canceled => ctxDone \/ groupErr # NoErr
  BY <1>0 DEF PhaseInv, VerdictInv, CauseIsReal
<1>5. groupErr # NoErr => groupErr \in Jobs \/ ctxDone
  BY <1>0 DEF PhaseInv, VerdictInv, CauseIsReal, Errors
<1>6. e \in Jobs \/ e = Canceled
  BY DEF Errors
<1> QED
  BY <1>1, <1>2, <1>3, <1>4, <1>5, <1>6

-----------------------------------------------------------------------------
\* The job phase starts where the promise does.
LEMMA PromiseInit == JobInit => Promise!Init
<1> SUFFICES ASSUME JobInit PROVE Promise!Init
  OBVIOUS
<1>1. AsSets(deps) \in {AsSets(g) : g \in Graphs}
  BY DEF JobInit
<1>2. JobStatus = [j \in Jobs |-> "pending"]
  BY DEF JobInit, JobStatus, StatusOf
<1>3. groupErr = NoErr /\ ctxDone = FALSE /\ (phase = "waited") = FALSE
  BY DEF JobInit
<1> QED
  BY <1>1, <1>2, <1>3 DEF Promise!Init

\* DependencyOrder counts with the same Cardinality.
LEMMA SameCardinality == Promise!Cardinality(Promise!Running) = Cardinality(Promise!Running)
BY DEF Promise!Cardinality, Cardinality

\* j goes from pending to running.
LEMMA Starting ==
    ASSUME PhaseInv, NEW j \in Jobs, AcquireNow(j) \/ GrantTaken(j)
    PROVE  Promise!Start(j)
<1>0. /\ pc \in [Jobs -> Labels] /\ nodeErr \in [Jobs -> Errors]
      /\ idx[j] \in Nat /\ deps[j] \in Seq(Jobs \cup {Unknown})
  BY ConstantsAssumption DEF PhaseInv, TypeInv, TypeOK
<1>1. /\ pc[j] \in {"wait", "granted"} /\ Goto(j, "slot")
      /\ ~GroupCtxDone
      /\ UNCHANGED <<phase, deps, nodeErr, groupErr, ctxDone>>
  BY DEF AcquireNow, GrantTaken, AtAcquire, At
<1>2. JobStatus[j] = "pending" /\ StatusOf("slot", nodeErr[j], j) = "running"
  BY <1>0, <1>1, StatusValues DEF JobStatus, Labels, Holding
<1>3. JobStatus' = [JobStatus EXCEPT ![j] = "running"]
  <2>1. pc'[j] = "slot" /\ OthersMove(j)
    BY <1>0, <1>1, GotoMoves
  <2> QED
    BY <1>0, <1>1, <1>2, <2>1, OneStatus
<1>4. AsSets(deps)[j] \subseteq Promise!Succeeded
  <2> SUFFICES ASSUME NEW i \in DOMAIN deps[j]
               PROVE  deps[j][i] \in Promise!Succeeded
    BY DEF AsSets
  <2>1. idx[j] > Len(deps[j])
    <3>1. CASE AcquireNow(j)
      BY <3>1 DEF AcquireNow, AtAcquire
    <3>2. CASE GrantTaken(j)
      BY <3>2, <1>0 DEF GrantTaken, At, PhaseInv, OrderInv, Early
    <3> QED
      BY <3>1, <3>2
  <2>2. i < idx[j]
    BY <1>0, <2>1
  <2>3. deps[j][i] \in Succeeded
    BY <2>2 DEF PhaseInv, OrderInv
  <2>4. /\ deps[j][i] \in Jobs /\ pc[deps[j][i]] \in Over
        /\ nodeErr[deps[j][i]] = NoErr
    BY <2>3 DEF Succeeded, PhaseInv, OrderInv, TypeInv, TypeOK, Over
  <2>5. JobStatus[deps[j][i]] = "ok"
    BY <1>0, <2>4, StatusValues DEF JobStatus
  <2> QED
    BY <2>4, <2>5 DEF Promise!Succeeded
<1>5. Cardinality(Promise!Running) < Limit
  <2> DEFINE Run == {k \in Jobs : pc[k] \in {"slot", "solving"}}
  <2>1. Promise!Running = Run
    BY <1>0, StatusValues DEF JobStatus, Promise!Running
  <2>2. Run \subseteq Holders \ {j}
    BY <1>1 DEF Holders, Holding
  <2>3. /\ IsFiniteSet(Holders \ {j})
        /\ Cardinality(Holders \ {j}) = IF j \in Holders THEN cur - 1 ELSE cur
    BY HoldersFinite, FS_RemoveElement DEF PhaseInv, SlotInv
  <2>4. IsFiniteSet(Run) /\ Cardinality(Run) <= Cardinality(Holders \ {j})
    BY <2>2, <2>3, FS_Subset
  <2>5. Cardinality(Run) \in Nat
    BY <2>4, FS_CardinalityType
  <2>6. cur \in Int /\ Limit \in Nat /\ cur <= Limit
    BY LimitType DEF PhaseInv, TypeInv, TypeOK, SlotInv
  <2>7. CASE AcquireNow(j)
    BY <2>1, <2>3, <2>4, <2>5, <2>6, <2>7 DEF AcquireNow
  <2>8. CASE GrantTaken(j)
    <3>1. j \in Holders
      BY <2>8 DEF GrantTaken, At, Holders, Holding
    <3> QED
      BY <3>1, <2>1, <2>3, <2>4, <2>5, <2>6
  <2> QED
    BY <2>7, <2>8
<1>6. AsSets(deps)' = AsSets(deps) /\ groupErr = NoErr /\ ~ctxDone
  BY <1>1 DEF AsSets, GroupCtxDone
<1> QED
  BY <1>1, <1>2, <1>3, <1>4, <1>5, <1>6, SameCardinality DEF Promise!Start, Promise!Become

\* j gets an error: by itself, or because the run is failing or cancelled.
LEMMA Failing ==
    ASSUME PhaseInv, NEW j \in Jobs, NEW e \in Errors, Fails(j, e)
    PROVE  Promise!Fail(j) \/ Promise!Skip(j)
<1>0. /\ pc \in [Jobs -> Labels] /\ nodeErr \in [Jobs -> Errors] /\ done \subseteq Jobs
      /\ groupErr \in Errors
      /\ NoErr \notin Jobs /\ Canceled \notin Jobs /\ NoErr # Canceled
  BY ConstantsAssumption DEF PhaseInv, TypeInv, TypeOK
<1>1. /\ pc[j] \in Early /\ pc'[j] \in {"release", "close"} /\ OthersMove(j)
      /\ nodeErr' = [nodeErr EXCEPT ![j] = e]
      /\ UNCHANGED <<phase, deps, groupErr, ctxDone>>
      /\ phase = "jobs" /\ Justified(j, e)
  BY DEF Fails
<1>2. nodeErr[j] = NoErr
  BY <1>1 DEF PhaseInv, OrderInv
<1>3. JobStatus' = [JobStatus EXCEPT ![j] = StatusOf(pc'[j], e, j)]
  BY <1>0, <1>1, OneStatus
<1>4. AsSets(deps)' = AsSets(deps)
  BY <1>1 DEF AsSets
<1>5. pc'[j] \in Labels /\ pc'[j] \in Over
  BY <1>1 DEF Labels, Holding, Over
<1>6. CASE e = j /\ pc[j] \in {"slot", "solving"}
  <2>1. StatusOf(pc'[j], e, j) = "failed" /\ JobStatus[j] = "running"
    BY <1>0, <1>5, <1>6, StatusValues DEF JobStatus
  <2> QED
    BY <1>1, <1>3, <1>4, <2>1 DEF Promise!Fail, Promise!Become
<1>7. ASSUME e # j, e # NoErr, Promise!Failed # {} \/ ctxDone
      PROVE  Promise!Skip(j)
  <2>1. StatusOf(pc'[j], e, j) = "skipped"
    BY <1>0, <1>5, <1>7, StatusValues
  <2>2. JobStatus[j] \in {"pending", "running"}
    BY <1>0, <1>1, StatusValues DEF JobStatus, Early
  <2> QED
    BY <1>1, <1>3, <1>4, <1>7, <2>1, <2>2 DEF Promise!Skip, Promise!Become
<1>8. CASE e = Canceled /\ GroupCtxDone
  <2>1. ctxDone \/ groupErr # NoErr
    BY <1>1, <1>8 DEF GroupCtxDone
  <2>2. Promise!Failed # {} \/ ctxDone
    BY <1>0, <2>1, Traced
  <2> QED
    BY <1>0, <1>7, <1>8, <2>2
<1>9. CASE e # NoErr /\ \E d \in done : e = nodeErr[d]
  <2>1. Promise!Failed # {} \/ ctxDone
    BY <1>9, Traced
  <2>2. e # j
    BY <1>0, <1>2, <1>9 DEF PhaseInv, VerdictInv, CauseIsReal
  <2> QED
    BY <1>7, <1>9, <2>1, <2>2
<1> QED
  BY <1>1, <1>6, <1>8, <1>9 DEF Justified

\* A step that changes no status.
LEMMA Stuttering ==
    ASSUME PhaseInv, NEW j \in Jobs, OthersMove(j),
           UNCHANGED <<phase, deps, nodeErr, groupErr, ctxDone>>,
           pc'[j] \in Labels,
           \/ pc[j] \in {"slot", "solving"} /\ pc'[j] \in {"slot", "solving"}
           \/ pc[j] \in {"wait", "queued", "granted"} /\ pc'[j] \in {"wait", "queued", "granted"}
           \/ pc[j] \in Over /\ pc'[j] \in Over
    PROVE  UNCHANGED Promise!vars
<1>0. pc \in [Jobs -> Labels] /\ nodeErr \in [Jobs -> Errors]
  BY DEF PhaseInv, TypeInv, TypeOK
<1>1. StatusOf(pc'[j], nodeErr[j], j) = StatusOf(pc[j], nodeErr[j], j)
  BY DEF StatusOf, Over
<1>2. JobStatus' = [JobStatus EXCEPT ![j] = StatusOf(pc'[j], nodeErr[j], j)]
  BY <1>0, OneStatus
<1>3. JobStatus = [k \in Jobs |-> StatusOf(pc[k], nodeErr[k], k)]
  BY DEF JobStatus
<1>4. JobStatus' = JobStatus
  BY <1>1, <1>2, <1>3
<1>5. AsSets(deps)' = AsSets(deps)
  BY DEF AsSets
<1> QED
  BY <1>4, <1>5 DEF Promise!vars

\* Every step of the job phase is a step of the promise or changes nothing in it.
LEMMA PromiseStep == PhaseInv /\ [Next]_jobVars => [Promise!Next]_(Promise!vars)
<1> SUFFICES ASSUME PhaseInv, [Next]_jobVars
             PROVE  Promise!Next \/ UNCHANGED Promise!vars
  OBVIOUS
<1> USE DEF At, AtAcquire
<1>0. /\ TypeInv /\ pc \in [Jobs -> Labels] /\ nodeErr \in [Jobs -> Errors]
      /\ done \subseteq Jobs /\ groupErr \in Errors
      /\ NoErr \notin Jobs /\ Canceled \notin Jobs /\ NoErr # Canceled
  BY ConstantsAssumption DEF PhaseInv, TypeInv, TypeOK
<1>1. CASE BuildDAG \/ UNCHANGED jobVars
  <2>1. /\ UNCHANGED <<deps, pc, nodeErr, groupErr, ctxDone>>
        /\ (phase' = "waited") = (phase = "waited")
    BY <1>1 DEF BuildDAG, jobVars
  <2> QED
    BY <2>1 DEF Promise!vars, JobStatus, AsSets
<1>2. CASE Wait
  <2>1. /\ phase = "jobs" /\ phase' = "waited"
        /\ \A j \in Jobs : pc[j] = "exited"
        /\ UNCHANGED <<deps, pc, nodeErr, groupErr, ctxDone>>
    BY <1>2 DEF Wait
  <2>2. \A j \in Jobs : /\ JobStatus[j] \notin {"pending", "running"}
                        /\ JobStatus[j] = "ok" <=> nodeErr[j] = NoErr
    BY <1>0, <2>1, StatusValues DEF JobStatus, Over
  <2>3. groupErr = NoErr <=> Promise!Succeeded = Jobs
    <3>1. groupErr = NoErr <=> \A j \in Jobs : nodeErr[j] = NoErr
      BY <1>0, <2>1 DEF PhaseInv, VerdictInv
    <3> QED
      BY <2>2, <3>1 DEF Promise!Succeeded
  <2>4. JobStatus' = JobStatus /\ AsSets(deps)' = AsSets(deps)
    BY <2>1 DEF JobStatus, AsSets
  <2>5. Promise!Report
    BY <2>1, <2>2, <2>3, <2>4 DEF Promise!Report
  <2> QED
    BY <2>5 DEF Promise!Next
<1>3. CASE CancelCaller
  <2>1. /\ phase # "waited" /\ ctxDone' = TRUE
        /\ UNCHANGED <<phase, deps, pc, nodeErr, groupErr>>
    BY <1>3 DEF CancelCaller
  <2>2. Promise!Cancel
    BY <2>1 DEF Promise!Cancel, JobStatus, AsSets
  <2> QED
    BY <2>2 DEF Promise!Next
<1>4. ASSUME NEW j \in Jobs, Advances(j) PROVE UNCHANGED Promise!vars
  BY <1>4 DEF Advances, Promise!vars, JobStatus, AsSets
<1>5. ASSUME NEW j \in Jobs, NEW e \in Errors, Fails(j, e) PROVE Promise!Next
  BY <1>5, Failing DEF Promise!Next
<1>6. ASSUME NEW j \in Jobs, AcquireNow(j) \/ GrantTaken(j) PROVE Promise!Next
  BY <1>6, Starting DEF Promise!Next
<1>7. ASSUME NEW j \in Jobs, SolveOK(j) PROVE Promise!Next
  <2>1. /\ pc[j] = "solving" /\ Goto(j, "release")
        /\ UNCHANGED <<phase, deps, nodeErr, groupErr, ctxDone>>
    BY <1>7 DEF SolveOK
  <2>2. pc'[j] = "release" /\ OthersMove(j)
    BY <1>0, <2>1, GotoMoves
  <2>3. nodeErr[j] = NoErr
    BY <2>1 DEF PhaseInv, OrderInv, Early
  <2>4. JobStatus[j] = "running" /\ StatusOf("release", nodeErr[j], j) = "ok"
    BY <1>0, <2>1, <2>3, StatusValues DEF JobStatus, Labels, Holding, Over
  <2>5. JobStatus' = [JobStatus EXCEPT ![j] = "ok"]
    BY <1>0, <2>1, <2>2, <2>4, OneStatus
  <2>6. AsSets(deps)' = AsSets(deps)
    BY <2>1 DEF AsSets
  <2>7. Promise!Succeed(j)
    BY <2>1, <2>4, <2>5, <2>6 DEF Promise!Succeed, Promise!Become
  <2> QED
    BY <2>7 DEF Promise!Next
<1>8. ASSUME NEW j \in Jobs, AcquireQueue(j) \/ SolveCalled(j) \/ CloseDone(j)
      PROVE  UNCHANGED Promise!vars
  <2>1. PICK l \in {"queued", "solving", "return"} : Goto(j, l)
    BY <1>8 DEF AcquireQueue, SolveCalled, CloseDone
  <2>2. pc'[j] = l /\ OthersMove(j)
    BY <1>0, <2>1, GotoMoves
  <2>3. /\ \/ pc[j] = "wait" /\ l = "queued"
           \/ pc[j] = "slot" /\ l = "solving"
           \/ pc[j] = "close" /\ l = "return"
        /\ UNCHANGED <<phase, deps, nodeErr, groupErr, ctxDone>>
    BY <1>0, <1>8, <2>2 DEF AcquireQueue, SolveCalled, CloseDone, Goto
  <2> QED
    BY <2>2, <2>3, Stuttering DEF Labels, Holding, Over
<1>9. ASSUME NEW j \in Jobs, Release(j) PROVE UNCHANGED Promise!vars
  <2>1. pc'[j] = "close" /\ OthersMove(j)
    BY <1>0, <1>9, NotifyMoves DEF Release
  <2> QED
    BY <1>9, <2>1, Stuttering DEF Release, Labels, Holding, Over
<1>10. ASSUME NEW j \in Jobs, Return(j) PROVE Promise!Next \/ UNCHANGED Promise!vars
  <2>1. /\ pc[j] = "return" /\ Goto(j, "exited")
        /\ groupErr' = IF groupErr = NoErr THEN nodeErr[j] ELSE groupErr
        /\ UNCHANGED <<phase, deps, nodeErr, ctxDone>>
        /\ j \in done
    BY <1>10 DEF Return, FirstError, PhaseInv, OrderInv
  <2>2. JobStatus' = JobStatus
    <3>1. pc'[j] = "exited" /\ OthersMove(j)
      BY <1>0, <2>1, GotoMoves
    <3>2. JobStatus' = [JobStatus EXCEPT ![j] = StatusOf("exited", nodeErr[j], j)]
      BY <1>0, <2>1, <3>1, OneStatus
    <3>3. StatusOf("exited", nodeErr[j], j) = StatusOf("return", nodeErr[j], j)
      BY DEF StatusOf
    <3>4. JobStatus = [k \in Jobs |-> StatusOf(pc[k], nodeErr[k], k)]
      BY DEF JobStatus
    <3> QED
      BY <2>1, <3>2, <3>3, <3>4
  <2>3. AsSets(deps)' = AsSets(deps)
    BY <2>1 DEF AsSets
  <2>4. CASE groupErr' = groupErr
    BY <2>1, <2>2, <2>3, <2>4 DEF Promise!vars
  <2>5. CASE groupErr' # groupErr
    <3>1. groupErr = NoErr /\ groupErr' = nodeErr[j] /\ nodeErr[j] \in Errors \ {NoErr}
      BY <1>0, <2>1, <2>5
    <3>2. nodeErr[j] \in Jobs => nodeErr[j] \in Promise!Failed
      BY <2>1, <3>1, Traced
    <3>3. nodeErr[j] = Canceled => ctxDone
      BY <3>1 DEF PhaseInv, VerdictInv
    <3>4. nodeErr[j] \in Jobs \cup {Canceled}
      BY <3>1 DEF Errors
    <3>5. Promise!Decide(nodeErr[j])
      BY <2>1, <2>2, <2>3, <3>1, <3>2, <3>3, <3>4 DEF Promise!Decide
    <3> QED
      BY <3>4, <3>5 DEF Promise!Next
  <2> QED
    BY <2>4, <2>5
<1> QED
  <2>1. ASSUME NEW j \in Jobs, GoroutineStep(j) \/ SolveAnswer(j)
        PROVE  \/ Advances(j) \/ \E e \in Errors : Fails(j, e)
               \/ AcquireNow(j) \/ GrantTaken(j) \/ SolveOK(j) \/ AcquireQueue(j)
               \/ SolveCalled(j) \/ CloseDone(j) \/ Release(j) \/ Return(j)
    BY <1>0, <2>1, ErrorSteps DEF GoroutineStep, SolveAnswer
  <2> QED
    BY <1>1, <1>2, <1>3, <1>4, <1>5, <1>6, <1>7, <1>8, <1>9, <1>10, <2>1
       DEF Next, JobNext, Finished

\* The job phase of runner.Run implements the promise.
THEOREM KeepsThePromise == Spec => KeepsPromise
<1>1. Spec => []PhaseInv
  BY PhaseCorrect
<1>2. JobInit => Promise!Init
  BY PromiseInit
<1>3. PhaseInv /\ [Next]_jobVars => [Promise!Next]_(Promise!vars)
  BY PromiseStep
<1> QED
  BY <1>1, <1>2, <1>3, PTL DEF Spec, KeepsPromise, Promise!Spec

=============================================================================
