---------------------------- MODULE StatusStream ----------------------------
(***************************************************************************)
(* The path of a SolveStatus.  A Solve call sends on an unbuffered channel;*)
(* teeStatus (internal/runner/runner.go) interposes the cache collector    *)
(* when there is one; the display's consumer goroutine receives what is    *)
(* left (internal/progress).  When the runner's context is cancelled the   *)
(* goroutines drain instead, because the sender cannot be interrupted.     *)
(* executePipeline (cmd/cicada/main.go) runs the solves, seals the display,*)
(* waits for it and prints the collector's report.                         *)
(*                                                                         *)
(* The solves of one errgroup are modelled.  Quiet consumes as Plain does. *)
(* The bubbletea program is external: it receives what is sent to it while *)
(* it runs, and sending to it after it has quit does nothing.              *)
(***************************************************************************)
EXTENDS Naturals, FiniteSets

CONSTANTS
    Solves,     \* the Solve calls of the run
    Statuses,   \* how many statuses a complete Solve sends
    Displays    \* the displays a run may be given: "plain", "tui"

ASSUME StreamAssumption ==
    /\ IsFiniteSet(Solves)
    /\ Statuses \in Nat
    /\ Displays \subseteq {"plain", "tui"}

VARIABLES
    display,    \* the kind of display
    collecting, \* cfg.collector # nil
    callerDone, \* the caller's context is cancelled
    runDone,    \* the errgroup's own cancellation: a failure, or Wait returned
    solve,      \* solve[s]: how far the call is
    sent,       \* statuses received from s's channel
    tee,        \* the goroutine of teeStatus
    consumer,   \* the goroutine of Attach
    observed,   \* statuses the collector has observed
    shown,      \* statuses the display has rendered
    monitor,    \* the TUI's monitor goroutine
    program,    \* the bubbletea program: "running", "quit", or "killed" by the
                \* user's ctrl+c or by the context
    main,       \* executePipeline
    report      \* what the printed report counted

ctxVars == <<callerDone, runDone>>
pathVars == <<solve, sent, tee, consumer, observed, shown>>
vars == <<display, collecting, ctxVars, pathVars, monitor, program, main, report>>

-----------------------------------------------------------------------------
ctxDone == callerDone \/ runDone

ChClosed(s) == solve[s] \in {"ok", "failed", "done", "error"}

\* The goroutine that called Solve has returned, without or with an error.
Returned(s) == solve[s] \in {"done", "error"}

\* The channel the consumer receives from: teeStatus returns src itself when
\* there is no collector.
SourceClosed(s) == IF collecting THEN tee[s] = "exited" ELSE ChClosed(s)

ConsumersDone == \A s \in Solves : consumer[s] \in {"none", "exited"}

\* The display renders what it receives, unless the program is gone.
Rendered(s) ==
    shown' = IF display = "tui" /\ program # "running" THEN shown
             ELSE [shown EXCEPT ![s] = @ + 1]

Received(s) == sent' = [sent EXCEPT ![s] = @ + 1]

Init ==
    /\ display \in Displays /\ collecting \in BOOLEAN
    /\ callerDone = FALSE /\ runDone = FALSE
    /\ solve = [s \in Solves |-> "idle"]
    /\ sent = [s \in Solves |-> 0]
    /\ tee = [s \in Solves |-> "none"]
    /\ consumer = [s \in Solves |-> "none"]
    /\ observed = [s \in Solves |-> 0]
    /\ shown = [s \in Solves |-> 0]
    /\ monitor = "none"
    /\ program = "running"
    /\ main = "run"
    /\ report = [s \in Solves |-> 0]

-----------------------------------------------------------------------------
(* Attach and the Solve call.                                              *)

\* teeStatus and display.Attach: both goroutines start, and the TUI's first
\* Attach starts its monitor.
Attach(s) ==
    /\ main = "run" /\ solve[s] = "idle"
    /\ solve' = [solve EXCEPT ![s] = "sending"]
    /\ tee' = [tee EXCEPT ![s] = IF collecting THEN "recv" ELSE "none"]
    /\ consumer' = [consumer EXCEPT ![s] = "recv"]
    /\ monitor' = IF display = "tui" THEN "waiting" ELSE "none"
    /\ UNCHANGED <<display, collecting, ctxVars, sent, observed, shown, program, main, report>>

\* The job never gets as far as Attach: it was cancelled while it waited, one
\* of its dependencies failed, or it has no definition.
Skipped(s) ==
    /\ main = "run" /\ solve[s] = "idle"
    /\ solve' = [solve EXCEPT ![s] = "error"]
    /\ runDone' = TRUE
    /\ UNCHANGED <<display, collecting, callerDone, sent, tee, consumer, observed, shown,
                   monitor, program, main, report>>

\* Solve closes the channel once it has sent everything, or fails before, as it
\* does when its context is cancelled.
SolveCloses(s) ==
    /\ solve[s] = "sending"
    /\ \/ sent[s] = Statuses /\ solve' = [solve EXCEPT ![s] = "ok"]
       \/ solve' = [solve EXCEPT ![s] = "failed"]
    /\ UNCHANGED <<display, collecting, ctxVars, sent, tee, consumer, observed, shown,
                   monitor, program, main, report>>

\* Solve returns; a failure cancels the errgroup's context.
SolveReturns(s) ==
    /\ solve[s] \in {"ok", "failed"}
    /\ runDone' = (runDone \/ solve[s] = "failed")
    /\ solve' = [solve EXCEPT ![s] = IF @ = "ok" THEN "done" ELSE "error"]
    /\ UNCHANGED <<display, collecting, callerDone, sent, tee, consumer, observed, shown,
                   monitor, program, main, report>>

CanSend(s) == solve[s] = "sending" /\ sent[s] < Statuses

-----------------------------------------------------------------------------
(* The goroutine of teeStatus.                                             *)

TeeReceives(s) ==
    /\ tee[s] = "recv" /\ CanSend(s)
    /\ Received(s)
    /\ tee' = [tee EXCEPT ![s] = "got"]
    /\ UNCHANGED <<display, collecting, ctxVars, solve, consumer, observed, shown,
                   monitor, program, main, report>>

TeeObserves(s) ==
    /\ tee[s] = "got"
    /\ observed' = [observed EXCEPT ![s] = @ + 1]
    /\ tee' = [tee EXCEPT ![s] = "send"]
    /\ UNCHANGED <<display, collecting, ctxVars, solve, sent, consumer, shown,
                   monitor, program, main, report>>

\* Mutation of TeeForwards: the status is sent again after it was taken.
TeeForwards_Twice(s) ==
    /\ tee[s] = "send" /\ consumer[s] \in {"recv", "drain"}
    /\ IF consumer[s] = "recv" THEN Rendered(s) ELSE UNCHANGED shown
    /\ UNCHANGED <<display, collecting, ctxVars, solve, sent, tee, consumer, observed,
                   monitor, program, main, report>>

\* Mutation of TeeForwards: a select with a default, so a busy consumer misses it.
TeeForwards_OrDrops(s) ==
    /\ tee[s] = "send"
    /\ tee' = [tee EXCEPT ![s] = "recv"]
    /\ UNCHANGED <<display, collecting, ctxVars, solve, sent, consumer, observed, shown,
                   monitor, program, main, report>>

\* out <- status meets the consumer, which renders it or discards it.
TeeForwards(s) ==
    /\ tee[s] = "send" /\ consumer[s] \in {"recv", "drain"}
    /\ tee' = [tee EXCEPT ![s] = "recv"]
    /\ IF consumer[s] = "recv" THEN Rendered(s) ELSE UNCHANGED shown
    /\ UNCHANGED <<display, collecting, ctxVars, solve, sent, consumer, observed,
                   monitor, program, main, report>>

\* Mutation of TeeCanceled: the context is looked at before Observe too.
TeeCanceled_BeforeObserve(s) ==
    /\ tee[s] \in {"recv", "got", "send"} /\ ctxDone
    /\ tee' = [tee EXCEPT ![s] = "drain"]
    /\ UNCHANGED <<display, collecting, ctxVars, solve, sent, consumer, observed, shown,
                   monitor, program, main, report>>

\* Mutation of TeeCanceled: no deferred drainChannel.
TeeCanceled_NoDrain(s) ==
    /\ tee[s] \in {"recv", "send"} /\ ctxDone
    /\ tee' = [tee EXCEPT ![s] = "exited"]
    /\ UNCHANGED <<display, collecting, ctxVars, solve, sent, consumer, observed, shown,
                   monitor, program, main, report>>

\* Either select may take ctx.Done, the inner one with a status in hand.
TeeCanceled(s) ==
    /\ tee[s] \in {"recv", "send"} /\ ctxDone
    /\ tee' = [tee EXCEPT ![s] = "drain"]
    /\ UNCHANGED <<display, collecting, ctxVars, solve, sent, consumer, observed, shown,
                   monitor, program, main, report>>

TeeDrains(s) ==
    /\ tee[s] = "drain" /\ CanSend(s)
    /\ Received(s)
    /\ UNCHANGED <<display, collecting, ctxVars, solve, tee, consumer, observed, shown,
                   monitor, program, main, report>>

\* src is closed: leave, closing out.
TeeExits(s) ==
    /\ tee[s] \in {"recv", "drain"} /\ ChClosed(s)
    /\ tee' = [tee EXCEPT ![s] = "exited"]
    /\ UNCHANGED <<display, collecting, ctxVars, solve, sent, consumer, observed, shown,
                   monitor, program, main, report>>

-----------------------------------------------------------------------------
(* The consumer goroutine of Attach, without a collector in between.       *)

ConsumerReceives(s) ==
    /\ ~collecting /\ consumer[s] = "recv" /\ CanSend(s)
    /\ Received(s)
    /\ Rendered(s)
    /\ UNCHANGED <<display, collecting, ctxVars, solve, tee, consumer, observed,
                   monitor, program, main, report>>

ConsumerDrains(s) ==
    /\ ~collecting /\ consumer[s] = "drain" /\ CanSend(s)
    /\ Received(s)
    /\ UNCHANGED <<display, collecting, ctxVars, solve, tee, consumer, observed, shown,
                   monitor, program, main, report>>

ConsumerCanceled(s) ==
    /\ consumer[s] = "recv" /\ ctxDone
    /\ consumer' = [consumer EXCEPT ![s] = "drain"]
    /\ UNCHANGED <<display, collecting, ctxVars, solve, sent, tee, observed, shown,
                   monitor, program, main, report>>

\* The channel is closed: wg.Done.
ConsumerExits(s) ==
    /\ consumer[s] \in {"recv", "drain"} /\ SourceClosed(s)
    /\ consumer' = [consumer EXCEPT ![s] = "exited"]
    /\ UNCHANGED <<display, collecting, ctxVars, solve, sent, tee, observed, shown,
                   monitor, program, main, report>>

-----------------------------------------------------------------------------
(* The TUI's program and its monitor goroutine.                            *)

\* Mutation of MonitorDone: it does not wait for the seal.
MonitorDone_NoSeal ==
    /\ monitor = "waiting" /\ ConsumersDone
    /\ monitor' = "done"
    /\ program' = IF program = "running" THEN "quit" ELSE program
    /\ UNCHANGED <<display, collecting, ctxVars, pathVars, main, report>>

\* <-sealCh, wg.Wait, then allDoneMsg, on which the program quits.
MonitorDone ==
    /\ monitor = "waiting" /\ main # "run" /\ ConsumersDone
    /\ monitor' = "done"
    /\ program' = IF program = "running" THEN "quit" ELSE program
    /\ UNCHANGED <<display, collecting, ctxVars, pathVars, main, report>>

\* ctrl+c quits the program; so does the caller's context.
ProgramKilled ==
    /\ display = "tui" /\ program = "running"
    /\ program' = "killed"
    /\ UNCHANGED <<display, collecting, ctxVars, pathVars, monitor, main, report>>

-----------------------------------------------------------------------------
(* executePipeline.                                                        *)

\* runner.Run returns, which cancels the errgroup's context, and Seal is
\* called; with no Attach before it, Seal itself tells the program to quit.
RunReturns ==
    /\ main = "run"
    /\ \A s \in Solves : Returned(s)
    /\ runDone' = TRUE
    /\ main' = "sealed"
    /\ program' = IF display = "tui" /\ monitor = "none" /\ program = "running"
                  THEN "quit" ELSE program
    /\ UNCHANGED <<display, collecting, callerDone, pathVars, monitor, report>>

\* Mutation of WaitReturns: only goroutines that were attached and still receive
\* are waited for, not those that drain.
WaitReturns_NotDrained ==
    /\ main = "sealed"
    /\ IF display = "tui" THEN program # "running"
       ELSE \A s \in Solves : consumer[s] # "recv"
    /\ main' = "waited"
    /\ UNCHANGED <<display, collecting, ctxVars, pathVars, monitor, program, report>>

\* display.Wait: the WaitGroup for Plain and Quiet, the program's end for TUI.
WaitReturns ==
    /\ main = "sealed"
    /\ IF display = "tui" THEN program # "running" ELSE ConsumersDone
    /\ main' = "waited"
    /\ UNCHANGED <<display, collecting, ctxVars, pathVars, monitor, program, report>>

PrintReport ==
    /\ main = "waited"
    /\ report' = observed
    /\ main' = "reported"
    /\ UNCHANGED <<display, collecting, ctxVars, pathVars, monitor, program>>

CallerCancels ==
    /\ ~callerDone /\ main = "run"
    /\ callerDone' = TRUE
    /\ UNCHANGED <<display, collecting, runDone, pathVars, monitor, program, main, report>>

-----------------------------------------------------------------------------
TeeStep(s) ==
    \/ TeeReceives(s) \/ TeeObserves(s) \/ TeeForwards(s)
    \/ TeeCanceled(s) \/ TeeDrains(s) \/ TeeExits(s)

ConsumerStep(s) ==
    \/ ConsumerReceives(s) \/ ConsumerDrains(s)
    \/ ConsumerCanceled(s) \/ ConsumerExits(s)

SolveStep(s) == Attach(s) \/ Skipped(s) \/ SolveReturns(s)

Finished ==
    /\ main = "reported" /\ monitor # "waiting" /\ ConsumersDone
    /\ \A s \in Solves : tee[s] \in {"none", "exited"}
    /\ UNCHANGED vars

Next ==
    \/ \E s \in Solves : \/ SolveStep(s) \/ SolveCloses(s)
                         \/ TeeStep(s) \/ ConsumerStep(s)
    \/ MonitorDone \/ ProgramKilled \/ RunReturns \/ WaitReturns \/ PrintReport
    \/ CallerCancels \/ Finished

Spec == Init /\ [][Next]_vars

\* Goroutines are scheduled; a Solve call whose statuses are received goes on
\* to close its channel (the Solver contract).  A select with two ready cases
\* picks either one, so the tee's and the consumer's steps are only fair as a
\* whole.
FairSpec ==
    /\ Spec
    /\ \A s \in Solves :
         /\ WF_vars(SolveStep(s)) /\ WF_vars(TeeStep(s)) /\ WF_vars(ConsumerStep(s))
         /\ WF_vars(SolveCloses(s) /\ sent[s] = Statuses)
    /\ WF_vars(MonitorDone) /\ WF_vars(RunReturns) /\ WF_vars(WaitReturns)
    /\ WF_vars(PrintReport)

-----------------------------------------------------------------------------
(* Safety.                                                                 *)

TypeOK ==
    /\ display \in Displays /\ collecting \in BOOLEAN
    /\ callerDone \in BOOLEAN /\ runDone \in BOOLEAN
    /\ solve \in [Solves -> {"idle", "sending", "ok", "failed", "done", "error"}]
    /\ sent \in [Solves -> 0..Statuses]
    /\ tee \in [Solves -> {"none", "recv", "got", "send", "drain", "exited"}]
    /\ consumer \in [Solves -> {"none", "recv", "drain", "exited"}]
    /\ observed \in [Solves -> 0..Statuses] /\ shown \in [Solves -> 0..Statuses]
    /\ monitor \in {"none", "waiting", "done"}
    /\ program \in {"running", "quit", "killed"}
    /\ main \in {"run", "sealed", "waited", "reported"}
    /\ report \in [Solves -> 0..Statuses]

\* While the shared context lives nothing is dropped: every status received from
\* a Solve call is observed and rendered, or is the one the tee has in hand.
\* (Once it is cancelled - by the caller, by another job's failure or by Run's
\* own end - the display may lose the last statuses, of solved jobs too.)
NothingDroppedBeforeCancel ==
    ~ctxDone => \A s \in Solves :
        LET inHand == IF tee[s] \in {"got", "send"} THEN 1 ELSE 0
            unseen == IF tee[s] = "got" THEN 1 ELSE 0
        IN  /\ collecting => observed[s] + unseen = sent[s]
            /\ program = "running" => shown[s] + inHand = sent[s]

\* The printed cache report counts every status of a run in which nothing
\* failed, nothing was cancelled and nobody quit the TUI: none is lost to Run's
\* end cancelling the context while the tee still has the last one in hand.
ReportComplete ==
    (main = "reported" /\ collecting /\ ~callerDone /\ program # "killed"
        /\ \A s \in Solves : solve[s] = "done")
    => \A s \in Solves : report[s] = Statuses

\* "Wait blocks until all attached jobs complete" (Plain.Wait, Quiet.Wait): the
\* consumers, and the tees they receive from, have all ended.
PlainWaitMeansDone ==
    (display = "plain" /\ main \in {"waited", "reported"}) =>
        /\ ConsumersDone
        /\ \A s \in Solves : tee[s] \in {"none", "exited"}

\* The TUI does not quit by itself while a job may still be attached or shown,
\* although its WaitGroup falls back to zero between one job and the next.
NoEarlyQuit ==
    program = "quit" => main # "run" /\ ConsumersDone

\* "Wait blocks until all attached jobs complete and returns any error
\* encountered" (Display in display.go), for every display.
WaitMeansDone == main \in {"waited", "reported"} => ConsumersDone

-----------------------------------------------------------------------------
(* Liveness.                                                               *)

\* No goroutine is left behind and nobody waits for ever: the report is printed
\* and every tee, consumer and monitor ends, whatever is cancelled or killed.
EverythingEnds ==
    <>[](/\ main = "reported" /\ ConsumersDone /\ monitor # "waiting"
         /\ \A s \in Solves : tee[s] \in {"none", "exited"})

=============================================================================
