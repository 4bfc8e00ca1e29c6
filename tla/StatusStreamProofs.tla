------------------------- MODULE StatusStreamProofs -------------------------
(***************************************************************************)
(* Proofs about the status path, for every set of Solve calls, every        *)
(* number of statuses and both displays.                                    *)
(***************************************************************************)
EXTENDS StatusStream, TLAPS

-----------------------------------------------------------------------------
(* The inductive invariant.                                                *)

InHand(s) == IF tee[s] \in {"got", "send"} THEN 1 ELSE 0
Unseen(s) == IF tee[s] = "got" THEN 1 ELSE 0

\* The statuses received from s are all accounted for.
AllObserved(s) == observed[s] + Unseen(s) = sent[s]
AllShown(s) == shown[s] + InHand(s) = sent[s]

\* The goroutines on s's path stand where its Solve call allows.
Placed(s) ==
    /\ ~collecting => tee[s] = "none"
    /\ collecting /\ tee[s] = "none" => consumer[s] = "none"
    /\ consumer[s] = "none" => tee[s] = "none" /\ solve[s] \in {"idle", "error"}
    /\ solve[s] = "idle" => consumer[s] = "none"
    /\ consumer[s] = "exited" => SourceClosed(s)
    /\ ~ctxDone => tee[s] # "drain" /\ consumer[s] # "drain"

\* No status is counted before it is received, none is lost before the context
\* is cancelled, and a Solve call that succeeds has had all of them received.
Counted(s) ==
    /\ observed[s] + Unseen(s) <= sent[s]
    /\ shown[s] + InHand(s) <= sent[s]
    /\ solve[s] \in {"ok", "done"} => sent[s] = Statuses
    /\ ~ctxDone /\ collecting => AllObserved(s)
    /\ ~ctxDone /\ program = "running" => AllShown(s)

\* The collector misses statuses only in a run that somebody cancelled or in
\* which a Solve call failed.
NoErrorSoFar == \A s \in Solves : solve[s] # "error"
Collected(s) == collecting /\ ~callerDone /\ NoErrorSoFar => AllObserved(s)

\* executePipeline and the TUI's program against the goroutines.
Ordered ==
    /\ main # "run" => \A s \in Solves : Returned(s)
    /\ main = "run" /\ runDone => ~NoErrorSoFar
    /\ display = "tui" /\ (\E s \in Solves : consumer[s] # "none") => monitor # "none"
    /\ NoEarlyQuit
    /\ main \in {"waited", "reported"} /\ program # "killed" => ConsumersDone
    /\ program = "killed" => display = "tui"
    /\ ReportComplete

PathInv(s) == Placed(s) /\ Counted(s) /\ Collected(s)

StreamInv == TypeOK /\ (\A s \in Solves : PathInv(s)) /\ Ordered

-----------------------------------------------------------------------------
(* What a step leaves alone.                                               *)

\* s's path is where it was.
Untouched(s) ==
    /\ solve'[s] = solve[s] /\ sent'[s] = sent[s] /\ tee'[s] = tee[s]
    /\ consumer'[s] = consumer[s] /\ observed'[s] = observed[s] /\ shown'[s] = shown[s]

\* What no step undoes.
Onwards ==
    /\ display' = display /\ collecting' = collecting
    /\ callerDone => callerDone'
    /\ runDone => runDone'
    /\ program' = "running" => program = "running"
    /\ NoErrorSoFar' => NoErrorSoFar

\* A step of s.
StepOf(s) == SolveStep(s) \/ SolveCloses(s) \/ TeeStep(s) \/ ConsumerStep(s)

\* A step of s leaves the paths of the others alone.
LEMMA OthersUntouched ==
    ASSUME TypeOK, NEW s \in Solves, StepOf(s)
    PROVE  \A x \in Solves \ {s} : Untouched(x)
<1> USE DEF TypeOK, Untouched, Received, Rendered
<1>1. CASE SolveStep(s) \/ SolveCloses(s)
  BY <1>1 DEF SolveStep, Attach, Skipped, SolveReturns, SolveCloses
<1>2. CASE TeeStep(s)
  BY <1>2 DEF TeeStep, TeeReceives, TeeObserves, TeeForwards, TeeCanceled, TeeDrains,
     TeeExits
<1>3. CASE ConsumerStep(s)
  BY <1>3 DEF ConsumerStep, ConsumerReceives, ConsumerDrains, ConsumerCanceled,
     ConsumerExits
<1> QED
  BY <1>1, <1>2, <1>3 DEF StepOf

\* A path that a step leaves alone keeps its part of the invariant.
LEMMA UntouchedKeeps ==
    ASSUME NEW s \in Solves, PathInv(s), Untouched(s), Onwards
    PROVE  PathInv(s)'
BY DEF PathInv, Placed, Counted, Collected, AllObserved, AllShown, Unseen, InHand,
    SourceClosed, ChClosed, ctxDone, Untouched, Onwards

\* No step undoes a cancellation, an error or the end of the program.
LEMMA StepsGoOnwards == TypeOK /\ [Next]_vars => Onwards
<1> SUFFICES ASSUME TypeOK, [Next]_vars PROVE Onwards
  OBVIOUS
<1>1. ASSUME NEW s \in Solves, SolveStep(s) \/ SolveCloses(s) PROVE Onwards
  BY <1>1 DEF TypeOK, Onwards, NoErrorSoFar, ctxVars, SolveStep, Attach, Skipped,
     SolveReturns, SolveCloses
<1>2. ASSUME NEW s \in Solves, TeeStep(s) \/ ConsumerStep(s) PROVE Onwards
  BY <1>2 DEF Onwards, NoErrorSoFar, ctxVars, TeeStep, ConsumerStep,
     TeeReceives, TeeObserves, TeeForwards, TeeCanceled, TeeDrains, TeeExits,
     ConsumerReceives, ConsumerDrains, ConsumerCanceled, ConsumerExits
<1>3. ASSUME \/ MonitorDone \/ ProgramKilled \/ RunReturns \/ WaitReturns
             \/ PrintReport \/ CallerCancels \/ UNCHANGED vars
      PROVE  Onwards
  BY <1>3 DEF Onwards, NoErrorSoFar, vars, ctxVars, pathVars,
     MonitorDone, ProgramKilled, RunReturns, WaitReturns, PrintReport, CallerCancels
<1> QED
  BY <1>1, <1>2, <1>3 DEF Next, Finished

-----------------------------------------------------------------------------
(* A step of s keeps s's own part of the invariant.                        *)

\* Attach, and the Solve call.
LEMMA SolveKeepsPath ==
    ASSUME StreamInv, Onwards, NEW s \in Solves, SolveStep(s) \/ SolveCloses(s)
    PROVE  PathInv(s)'
<1> USE DEF StreamInv, TypeOK, PathInv, Placed, Counted, Collected, AllObserved, AllShown,
        Unseen, InHand, SourceClosed, ChClosed, Returned, ctxDone, Onwards
<1>1. CASE Attach(s)
  BY <1>1 DEF Attach
<1>2. CASE Skipped(s)
  BY <1>2 DEF Skipped
<1>3. CASE SolveReturns(s)
  BY <1>3 DEF SolveReturns
<1>4. CASE SolveCloses(s)
  BY <1>4 DEF SolveCloses
<1> QED
  BY <1>1, <1>2, <1>3, <1>4 DEF SolveStep

\* The goroutine of teeStatus.
LEMMA TeeKeepsPath ==
    ASSUME StreamInv, Onwards, NEW s \in Solves, TeeStep(s)
    PROVE  PathInv(s)'
<1> USE DEF StreamInv, TypeOK, PathInv, Placed, Counted, Collected, AllObserved, AllShown,
        Unseen, InHand, SourceClosed, ChClosed, Returned, ctxDone, Onwards
<1>1. CASE TeeReceives(s)
  BY <1>1 DEF TeeReceives, Received, CanSend
<1>2. CASE TeeObserves(s)
  BY <1>2 DEF TeeObserves
<1>3. CASE TeeForwards(s)
  BY <1>3 DEF TeeForwards, Rendered
<1>4. CASE TeeCanceled(s)
  BY <1>4 DEF TeeCanceled
<1>5. CASE TeeDrains(s)
  BY <1>5 DEF TeeDrains, Received, CanSend, Ordered
<1>6. CASE TeeExits(s)
  BY <1>6 DEF TeeExits
<1> QED
  BY <1>1, <1>2, <1>3, <1>4, <1>5, <1>6 DEF TeeStep

\* The consumer goroutine.
LEMMA ConsumerKeepsPath ==
    ASSUME StreamInv, Onwards, NEW s \in Solves, ConsumerStep(s)
    PROVE  PathInv(s)'
<1> USE DEF StreamInv, TypeOK, PathInv, Placed, Counted, Collected, AllObserved, AllShown,
        Unseen, InHand, SourceClosed, ChClosed, Returned, ctxDone, Onwards
<1>1. CASE ConsumerReceives(s)
  BY <1>1 DEF ConsumerReceives, Received, Rendered, CanSend
<1>2. CASE ConsumerDrains(s)
  BY <1>2 DEF ConsumerDrains, Received, CanSend
<1>3. CASE ConsumerCanceled(s)
  BY <1>3 DEF ConsumerCanceled
<1>4. CASE ConsumerExits(s)
  BY <1>4 DEF ConsumerExits
<1> QED
  BY <1>1, <1>2, <1>3, <1>4 DEF ConsumerStep

-----------------------------------------------------------------------------
(* The types, and the order of executePipeline.                            *)

\* The counters stay within what a Solve call sends, because they follow sent.
LEMMA TypeOKStep == StreamInv /\ [Next]_vars => TypeOK'
<1> SUFFICES ASSUME StreamInv, [Next]_vars PROVE TypeOK'
  OBVIOUS
<1> USE StreamAssumption DEF StreamInv, TypeOK
<1>1. ASSUME NEW s \in Solves, SolveStep(s) \/ SolveCloses(s) PROVE TypeOK'
  <2>1. CASE Attach(s)
    BY <2>1 DEF ctxVars, Attach
  <2>2. CASE Skipped(s)
    BY <2>2 DEF Skipped
  <2>3. CASE SolveReturns(s)
    BY <2>3 DEF SolveReturns
  <2>4. CASE SolveCloses(s)
    BY <2>4 DEF ctxVars, SolveCloses
  <2> QED
    BY <1>1, <2>1, <2>2, <2>3, <2>4 DEF SolveStep
<1>2. ASSUME NEW s \in Solves, TeeStep(s) PROVE TypeOK'
  <2>1. /\ observed[s] \in Nat /\ shown[s] \in Nat /\ sent[s] \in 0..Statuses
        /\ tee[s] = "got" => observed[s] + 1 \in 0..Statuses
        /\ tee[s] = "send" => shown[s] + 1 \in 0..Statuses
    BY DEF PathInv, Counted, Unseen, InHand
  <2>2. CASE TeeReceives(s) \/ TeeDrains(s)
    BY <2>1, <2>2 DEF ctxVars, TeeReceives, TeeDrains, Received, CanSend
  <2>3. CASE TeeObserves(s)
    BY <2>1, <2>3 DEF ctxVars, TeeObserves
  <2>4. CASE TeeForwards(s)
    BY <2>1, <2>4 DEF ctxVars, TeeForwards, Rendered
  <2>5. CASE TeeCanceled(s) \/ TeeExits(s)
    BY <2>5 DEF ctxVars, TeeCanceled, TeeExits
  <2> QED
    BY <1>2, <2>2, <2>3, <2>4, <2>5 DEF TeeStep
<1>3. ASSUME NEW s \in Solves, ConsumerStep(s) PROVE TypeOK'
  <2>1. /\ shown[s] \in Nat /\ sent[s] \in 0..Statuses /\ shown[s] <= sent[s]
    BY DEF PathInv, Counted, Unseen, InHand
  <2>2. CASE ConsumerReceives(s)
    BY <2>1, <2>2 DEF ctxVars, ConsumerReceives, Received, Rendered, CanSend
  <2>3. CASE ConsumerDrains(s)
    BY <2>1, <2>3 DEF ctxVars, ConsumerDrains, Received, CanSend
  <2>4. CASE ConsumerCanceled(s) \/ ConsumerExits(s)
    BY <2>4 DEF ctxVars, ConsumerCanceled, ConsumerExits
  <2> QED
    BY <1>3, <2>2, <2>3, <2>4 DEF ConsumerStep
<1>4. ASSUME \/ MonitorDone \/ ProgramKilled \/ RunReturns \/ WaitReturns
             \/ PrintReport \/ CallerCancels \/ UNCHANGED vars
      PROVE  TypeOK'
  <2>1. CASE MonitorDone \/ ProgramKilled
    BY <2>1 DEF ctxVars, pathVars, MonitorDone, ProgramKilled
  <2>2. CASE RunReturns
    BY <2>2 DEF ctxVars, pathVars, RunReturns
  <2>3. CASE WaitReturns
    BY <2>3 DEF ctxVars, pathVars, WaitReturns
  <2>4. CASE PrintReport \/ CallerCancels
    BY <2>4, ZenonT(60) DEF ctxVars, pathVars, PrintReport, CallerCancels
  <2>5. CASE UNCHANGED vars
    BY <2>5 DEF vars, ctxVars, pathVars
  <2> QED
    BY <1>4, <2>1, <2>2, <2>3, <2>4, <2>5
<1> QED
  BY <1>1, <1>2, <1>3, <1>4 DEF Next, Finished

\* Every path keeps its part of the invariant.
LEMMA PathsStep == StreamInv /\ [Next]_vars => (\A s \in Solves : PathInv(s))'
<1> SUFFICES ASSUME StreamInv, [Next]_vars, NEW s \in Solves PROVE PathInv(s)'
  OBVIOUS
<1>0. TypeOK /\ PathInv(s) /\ Onwards
  BY StepsGoOnwards DEF StreamInv
<1>1. ASSUME NEW x \in Solves, StepOf(x) PROVE PathInv(s)'
  <2>1. CASE x = s
    BY <1>0, <1>1, <2>1, SolveKeepsPath, TeeKeepsPath, ConsumerKeepsPath DEF StepOf
  <2>2. CASE x # s
    BY <1>0, <1>1, <2>2, OthersUntouched, UntouchedKeeps
  <2> QED
    BY <2>1, <2>2
<1>2. ASSUME \/ MonitorDone \/ ProgramKilled \/ RunReturns \/ WaitReturns
             \/ PrintReport \/ CallerCancels \/ UNCHANGED vars
      PROVE  PathInv(s)'
  <2>1. Untouched(s)
    BY <1>2 DEF Untouched, vars, pathVars,
       MonitorDone, ProgramKilled, RunReturns, WaitReturns, PrintReport, CallerCancels
  <2> QED
    BY <1>0, <2>1, UntouchedKeeps
<1> QED
  BY <1>1, <1>2 DEF Next, Finished, StepOf

\* What a step of s does to what the others look at.
LEMMA StepEffect ==
    ASSUME StreamInv, NEW s \in Solves, StepOf(s)
    PROVE  /\ UNCHANGED <<display, collecting, callerDone, program, main, report>>
           /\ Returned(s) => solve'[s] = solve[s]
           /\ runDone' = runDone \/ solve'[s] = "error"
           /\ consumer[s] = "exited" => consumer'[s] = "exited"
           /\ consumer[s] = "none" => consumer'[s] = "none" \/ main = "run"
           /\ monitor' = monitor \/ (display = "tui" => monitor' = "waiting")
           /\ display = "tui" /\ consumer'[s] # "none" => monitor' # "none"
<1> USE DEF StreamInv, TypeOK, Ordered, Returned
<1>1. CASE SolveStep(s) \/ SolveCloses(s)
  <2>1. CASE Attach(s)
    BY <2>1 DEF Attach, ctxVars, PathInv, Placed
  <2>2. CASE Skipped(s)
    BY <2>2 DEF Skipped
  <2>3. CASE SolveReturns(s)
    BY <2>3 DEF SolveReturns
  <2>4. CASE SolveCloses(s)
    BY <2>4 DEF SolveCloses, ctxVars
  <2> QED
    BY <1>1, <2>1, <2>2, <2>3, <2>4 DEF SolveStep
<1>2. CASE TeeStep(s)
  BY <1>2 DEF ctxVars, TeeStep, TeeReceives, TeeObserves, TeeForwards, TeeCanceled,
     TeeDrains, TeeExits
<1>3. CASE ConsumerStep(s)
  BY <1>3 DEF ctxVars, ConsumerStep, ConsumerReceives, ConsumerDrains, ConsumerCanceled,
     ConsumerExits
<1> QED
  BY <1>1, <1>2, <1>3 DEF StepOf

\* A consumer that has ended, or will never start, stays so once Run has
\* returned; nor does a Solve call that has returned run again.
LEMMA EndedStays ==
    ASSUME StreamInv, [Next]_vars, main # "run"
    PROVE  /\ main' # "run"
           /\ \A s \in Solves : Returned(s)'
           /\ ConsumersDone => ConsumersDone'
<1>0. TypeOK /\ \A s \in Solves : Returned(s)
  BY DEF StreamInv, Ordered
<1>1. ASSUME NEW x \in Solves, StepOf(x)
      PROVE  /\ main' # "run" /\ \A s \in Solves : Returned(s)'
             /\ ConsumersDone => ConsumersDone'
  <2>1. \A s \in Solves \ {x} : solve'[s] = solve[s] /\ consumer'[s] = consumer[s]
    BY <1>0, <1>1, OthersUntouched DEF Untouched
  <2>2. /\ main' = main
        /\ solve'[x] = solve[x]
        /\ consumer[x] \in {"none", "exited"} => consumer'[x] \in {"none", "exited"}
    BY <1>0, <1>1, StepEffect
  <2> QED
    BY <1>0, <2>1, <2>2 DEF Returned, ConsumersDone
<1>2. ASSUME \/ MonitorDone \/ ProgramKilled \/ RunReturns \/ WaitReturns
             \/ PrintReport \/ CallerCancels \/ UNCHANGED vars
      PROVE  /\ main' # "run" /\ \A s \in Solves : Returned(s)'
             /\ ConsumersDone => ConsumersDone'
  BY <1>0, <1>2 DEF Returned, ConsumersDone, vars, pathVars,
     MonitorDone, ProgramKilled, RunReturns, WaitReturns, PrintReport, CallerCancels
<1> QED
  BY <1>1, <1>2 DEF Next, Finished, StepOf

-----------------------------------------------------------------------------
\* executePipeline, the TUI's program and the report keep in step.
LEMMA OrderedStep == StreamInv /\ [Next]_vars => Ordered'
<1> SUFFICES ASSUME StreamInv, [Next]_vars PROVE Ordered'
  OBVIOUS
<1>0. TypeOK /\ Ordered /\ Onwards
  BY StepsGoOnwards DEF StreamInv
<1>1. ASSUME NEW x \in Solves, StepOf(x) PROVE Ordered'
  <2>0. /\ UNCHANGED <<display, collecting, callerDone, program, main, report>>
        /\ runDone' = runDone \/ solve'[x] = "error"
        /\ display = "tui" /\ consumer'[x] # "none" => monitor' # "none"
        /\ monitor' = monitor \/ (display = "tui" => monitor' = "waiting")
    BY <1>1, StepEffect
  <2>1. \A s \in Solves \ {x} : solve'[s] = solve[s] /\ consumer'[s] = consumer[s]
    BY <1>0, <1>1, OthersUntouched DEF Untouched
  <2>2. main' # "run" => \A s \in Solves : Returned(s)'
    BY <2>0, EndedStays
  <2>3. main' = "run" /\ runDone' => ~NoErrorSoFar'
    BY <1>0, <2>0 DEF Ordered, Onwards, NoErrorSoFar
  <2>4. display' = "tui" /\ (\E s \in Solves : consumer'[s] # "none") => monitor' # "none"
    BY <1>0, <2>0, <2>1 DEF Ordered
  <2>5. NoEarlyQuit'
    BY <1>0, <2>0, EndedStays DEF Ordered, NoEarlyQuit
  <2>6. main' \in {"waited", "reported"} /\ program' # "killed" => ConsumersDone'
    BY <1>0, <2>0, EndedStays DEF Ordered
  <2>7. ReportComplete'
    <3>1. ASSUME main = "reported", NEW s \in Solves, solve'[s] = "done"
          PROVE  solve[s] = "done"
      BY <1>0, <1>1, <2>1, <3>1, StepEffect DEF Ordered
    <3> QED
      BY <1>0, <2>0, <3>1 DEF Ordered, ReportComplete
  <2>8. program' = "killed" => display' = "tui"
    BY <1>0, <2>0 DEF Ordered
  <2> QED
    BY <2>2, <2>3, <2>4, <2>5, <2>6, <2>7, <2>8 DEF Ordered
<1>2. CASE MonitorDone
  BY <1>0, <1>2 DEF MonitorDone, Ordered, NoEarlyQuit, ReportComplete, ConsumersDone,
     NoErrorSoFar, Returned, ctxVars, pathVars
<1>3. CASE ProgramKilled
  BY <1>0, <1>3 DEF ProgramKilled, Ordered, NoEarlyQuit, ReportComplete, ConsumersDone,
     NoErrorSoFar, Returned, ctxVars, pathVars
<1>4. CASE RunReturns
  BY <1>0, <1>4 DEF RunReturns, Ordered, NoEarlyQuit, ReportComplete, ConsumersDone,
     NoErrorSoFar, Returned, ctxVars, pathVars, TypeOK
<1>5. CASE WaitReturns
  BY <1>0, <1>5 DEF WaitReturns, Ordered, NoEarlyQuit, ReportComplete, ConsumersDone,
     NoErrorSoFar, Returned, ctxVars, pathVars, TypeOK
<1>6. CASE PrintReport
  <2>1. /\ UNCHANGED <<display, collecting, ctxVars, pathVars, monitor, program>>
        /\ main = "waited" /\ main' = "reported" /\ report' = observed
    BY <1>6 DEF PrintReport
  <2>2. ASSUME collecting, ~callerDone, program # "killed", NEW s \in Solves,
               \A x \in Solves : solve[x] = "done"
        PROVE  observed[s] = Statuses
    <3>1. tee[s] = "exited"
      BY <1>0, <2>1, <2>2 DEF StreamInv, PathInv, Placed, Ordered, ConsumersDone, SourceClosed, TypeOK
    <3>2. AllObserved(s) /\ sent[s] = Statuses
      BY <2>2 DEF StreamInv, PathInv, Counted, Collected, NoErrorSoFar
    <3> QED
      BY <1>0, <3>1, <3>2 DEF AllObserved, Unseen, TypeOK
  <2>3. ReportComplete'
    BY <2>1, <2>2 DEF ReportComplete, ctxVars, pathVars
  <2> QED
    BY <1>0, <2>1, <2>3 DEF Ordered, NoEarlyQuit, ConsumersDone, NoErrorSoFar, Returned,
       ctxVars, pathVars
<1>7. CASE CallerCancels
  BY <1>0, <1>7 DEF CallerCancels, Ordered, NoEarlyQuit, ReportComplete, ConsumersDone,
     NoErrorSoFar, Returned, ctxVars, pathVars
<1>8. CASE UNCHANGED vars
  BY <1>0, <1>8 DEF vars, Ordered, NoEarlyQuit, ReportComplete, ConsumersDone,
     NoErrorSoFar, Returned, ctxVars, pathVars
<1> QED
  BY <1>1, <1>2, <1>3, <1>4, <1>5, <1>6, <1>7, <1>8 DEF Next, Finished, StepOf

\* No goroutine has been started when Run is called.
LEMMA StreamInvInit == Init => StreamInv
<1> SUFFICES ASSUME Init PROVE StreamInv
  OBVIOUS
<1>1. TypeOK
  <2>1. 0 \in 0..Statuses
    BY StreamAssumption
  <2>2. \A x \in {sent, observed, shown, report} : x \in [Solves -> 0..Statuses]
    BY <2>1 DEF Init
  <2>3. /\ solve \in [Solves -> {"idle", "sending", "ok", "failed", "done", "error"}]
        /\ tee \in [Solves -> {"none", "recv", "got", "send", "drain", "exited"}]
        /\ consumer \in [Solves -> {"none", "recv", "drain", "exited"}]
    BY DEF Init
  <2> QED
    BY <2>2, <2>3 DEF Init, TypeOK
<1>2. ASSUME NEW s \in Solves PROVE PathInv(s)
  <2>1. Placed(s)
    BY DEF Init, Placed
  <2>2. Counted(s) /\ Collected(s)
    BY DEF Init, Counted, Collected, AllObserved, AllShown, Unseen, InHand
  <2> QED
    BY <2>1, <2>2 DEF PathInv
<1>3. Ordered
  BY DEF Init, Ordered, NoEarlyQuit, ReportComplete, NoErrorSoFar
<1> QED
  BY <1>1, <1>2, <1>3 DEF StreamInv

\* The invariant holds in every reachable state.
LEMMA StreamCorrect == Spec => []StreamInv
<1>1. StreamInv /\ [Next]_vars => StreamInv'
  BY TypeOKStep, PathsStep, OrderedStep DEF StreamInv
<1> QED
  BY <1>1, StreamInvInit, PTL DEF Spec

-----------------------------------------------------------------------------
(* The theorems.                                                           *)

\* Every reachable state is well typed: in particular neither the collector nor
\* the display counts more statuses than a Solve call sends.
THEOREM StreamTypeCorrect == Spec => []TypeOK
<1>1. StreamInv => TypeOK
  BY DEF StreamInv
<1> QED
  BY <1>1, StreamCorrect, PTL

\* Until somebody cancels, every status received from a Solve call is observed
\* and rendered, or is the one the goroutine of teeStatus has in hand.
THEOREM NothingDropped == Spec => []NothingDroppedBeforeCancel
<1>1. StreamInv => NothingDroppedBeforeCancel
  BY DEF StreamInv, PathInv, Counted, AllObserved, AllShown, Unseen, InHand,
     NothingDroppedBeforeCancel
<1> QED
  BY <1>1, StreamCorrect, PTL

\* The cache report of a run in which nothing failed, nothing was cancelled and
\* nobody quit the TUI counts every status.
THEOREM ReportIsComplete == Spec => []ReportComplete
<1>1. StreamInv => ReportComplete
  BY DEF StreamInv, Ordered
<1> QED
  BY <1>1, StreamCorrect, PTL

\* Plain.Wait and Quiet.Wait return only when no goroutine is left on any path.
THEOREM PlainWaitCorrect == Spec => []PlainWaitMeansDone
<1>1. StreamInv => PlainWaitMeansDone
  <2> SUFFICES ASSUME StreamInv, display = "plain", main \in {"waited", "reported"}
               PROVE  ConsumersDone /\ \A s \in Solves : tee[s] \in {"none", "exited"}
    BY DEF PlainWaitMeansDone
  <2>1. ConsumersDone
    BY DEF StreamInv, Ordered
  <2> QED
    BY <2>1 DEF StreamInv, TypeOK, PathInv, Placed, SourceClosed, ConsumersDone
<1> QED
  BY <1>1, StreamCorrect, PTL

\* The TUI quits by itself only after Seal, when every consumer has ended.
THEOREM TUIQuitsLast == Spec => []NoEarlyQuit
<1>1. StreamInv => NoEarlyQuit
  BY DEF StreamInv, Ordered
<1> QED
  BY <1>1, StreamCorrect, PTL

=============================================================================
