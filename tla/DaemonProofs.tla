---------------------------- MODULE DaemonProofs ----------------------------
(***************************************************************************)
(* Proofs about the engine manager: for any number of processes over the   *)
(* one container, what their answers mean.                                 *)
(***************************************************************************)
EXTENDS Daemon, TLAPS

-----------------------------------------------------------------------------
(* The invariant, process by process.                                      *)

Starting == {"inspect", "restart", "create", "starting", "check", "sleep"}
Stopping == {"stopInspect", "stopAct", "rmInspect", "rmAct"}

\* A process is in the code of its command, and has an answer at its end.
WhereInv(c) ==
    /\ pc[c] = "idle" <=> cmd[c] = "none"
    /\ pc[c] = "dial" => cmd[c] = "run"
    /\ pc[c] \in Starting => cmd[c] \in {"run", "start"}
    /\ pc[c] \in Stopping => cmd[c] = "stop"
    /\ pc[c] = "status" => cmd[c] = "status"
    /\ pc[c] # "answered" => answer[c] = "none"

\* A process that will meet a container it does not expect is excused: one that
\* starts a container that cannot be started, creates one that is there, or
\* removes one that runs.
Clash(l, b) ==
    \/ l \in {"restart", "starting"} /\ b \in {"absent", "paused"}
    \/ l = "create" /\ b # "absent"
    \/ l \in {"rmInspect", "rmAct"} /\ b = "running"

Unexpected(c) == Clash(pc[c], box)

Excused(c) == "excused" \in hist[c]

AnswerInv(c) ==
    /\ answer[c] = "ok" => IF cmd[c] = "stop" THEN "gone" \in hist[c] \/ "misread" \in hist[c]
                           ELSE "reachable" \in hist[c]
    /\ answer[c] = "startFailed" => Excused(c)

ClientInv(c) == WhereInv(c) /\ (Unexpected(c) => Excused(c)) /\ AnswerInv(c)

Inv == TypeOK /\ \A c \in Clients : ClientInv(c)

-----------------------------------------------------------------------------
(* Lemmas about steps.                                                     *)

\* What Note does to the history of one process that has no answer yet.
LEMMA NoteEffect ==
    ASSUME TypeOK, NEW by, NEW more, Note(by, more), NEW c \in Clients, pc[c] # "answered"
    PROVE  /\ hist[c] \subseteq hist'[c]
           /\ hist'[c] \subseteq Facts[cmd[c]]
           /\ Facts[cmd[c]] \cap Held \subseteq hist'[c]
           /\ c = by => Facts[cmd[c]] \cap more \subseteq hist'[c]
           /\ c # by /\ box' # box => Facts[cmd[c]] \cap {"excused"} \subseteq hist'[c]
  BY DEF Note, TypeOK

\* Note keeps what is held against an answer that has been given.
LEMMA NoteFrozen ==
    ASSUME NEW by, NEW more, Note(by, more)
    PROVE  /\ DOMAIN hist' = Clients
           /\ \A c \in Clients : pc[c] = "answered" => hist'[c] = hist[c]
  BY DEF Note

\* Which facts count for a command.
LEMMA FactsOf ==
    ASSUME NEW k
    PROVE  /\ k \in {"run", "start"} => Facts[k] = {"reachable", "excused"}
           /\ k = "stop" => Facts[k] = {"gone", "misread", "excused"}
           /\ k = "status" => Facts[k] = {}
           /\ k = "none" => Facts[k] = {}
  BY DEF Facts

\* A step leaves the engine's variables well typed when it moves them by Becomes.
LEMMA BecomesTyped ==
    ASSUME TypeOK, NEW b \in Boxes, Becomes(b)
    PROVE  box' \in Boxes /\ healthy' \in BOOLEAN /\ (healthy' => box' = "running")
  BY DEF Becomes, TypeOK

\* A process that does not move keeps its invariant when another hand changes
\* the container: whatever it did not expect, it is excused for.
LEMMA Bystander ==
    ASSUME Inv, NEW by, NEW more, Note(by, more), NEW c \in Clients, c # by,
           pc'[c] = pc[c], cmd'[c] = cmd[c], answer'[c] = answer[c]
    PROVE  ClientInv(c)' /\ hist'[c] \subseteq Facts[cmd[c]]
<1>1. ClientInv(c) /\ TypeOK /\ hist[c] \subseteq Facts[cmd[c]]
  BY DEF Inv, TypeOK
<1>2. WhereInv(c)'
  BY <1>1 DEF ClientInv, WhereInv
<1>3. hist[c] \subseteq hist'[c] /\ hist'[c] \subseteq Facts[cmd[c]]
  BY <1>1, NoteEffect, NoteFrozen
<1>4. AnswerInv(c)'
  BY <1>1, <1>3 DEF ClientInv, AnswerInv, Excused
<1>5. ASSUME Unexpected(c)' PROVE Excused(c)'
  <2>1. CASE box' = box
    BY <1>1, <1>3, <1>5, <2>1 DEF ClientInv, Unexpected, Clash, Excused
  <2>2. CASE box' # box
    <3>1. "excused" \in Facts[cmd[c]]
      BY <1>1, <1>5, FactsOf DEF ClientInv, WhereInv, Unexpected, Clash, Starting, Stopping
    <3>2. pc[c] # "answered"
      BY <1>5 DEF Unexpected, Clash
    <3> QED
      BY <1>1, <2>2, <3>1, <3>2, NoteEffect DEF Excused
  <2> QED
    BY <2>1, <2>2
<1> QED
  BY <1>2, <1>3, <1>4, <1>5 DEF ClientInv

-----------------------------------------------------------------------------
(* How a step of one process keeps the invariant.                          *)

\* The engine's variables have their types after the step.
EngineTyped ==
    box' \in Boxes /\ healthy' \in BOOLEAN /\ (healthy' => box' = "running")

\* The command of c goes on to l, as Goto and StopFails have it.
Moves(c, l) ==
    /\ pc' = [pc EXCEPT ![c] = l]
    /\ UNCHANGED <<cmd, late, ctxDone, answer>>
    /\ stopErr' \in [Clients -> BOOLEAN]

\* A process that goes on to l keeps the invariant if l is in the code of its
\* command, and if it is excused for a container it does not expect there.
LEMMA MovesOn ==
    ASSUME Inv, NEW c \in Clients, NEW l \in Starting \cup Stopping, NEW more,
           Note(c, more), Moves(c, l), EngineTyped,
           pc[c] \notin {"idle", "answered"},
           l \in Starting => cmd[c] \in {"run", "start"},
           l \in Stopping => cmd[c] = "stop",
           Clash(l, box') => Excused(c) \/ "excused" \in more \/ box' = "paused"
    PROVE  Inv'
<1>1. TypeOK /\ ClientInv(c)
  BY DEF Inv
<1>2. /\ pc'[c] = l /\ cmd' = cmd /\ answer' = answer
      /\ \A d \in Clients : d # c => pc'[d] = pc[d]
      /\ pc' \in [Clients -> Labels]
  BY <1>1 DEF Moves, TypeOK, Labels, Starting, Stopping
<1>3. ASSUME NEW d \in Clients, d # c
      PROVE  ClientInv(d)' /\ hist'[d] \subseteq Facts[cmd[d]]
  BY <1>2, <1>3, Bystander
<1>4. hist[c] \subseteq hist'[c] /\ hist'[c] \subseteq Facts[cmd[c]]
  BY <1>1, NoteEffect
<1>5. ASSUME Clash(l, box') PROVE "excused" \in hist'[c]
  <2>1. "excused" \in Facts[cmd[c]]
    BY <1>5, FactsOf DEF Clash, Starting, Stopping
  <2>2. Facts[cmd[c]] \cap more \subseteq hist'[c] /\ Facts[cmd[c]] \cap Held \subseteq hist'[c]
    BY <1>1, NoteEffect
  <2>3. box' = "paused" => "excused" \in Held
    BY DEF Held
  <2> QED
    BY <1>4, <1>5, <2>1, <2>2, <2>3 DEF Excused
<1>6. WhereInv(c)'
  BY <1>1, <1>2 DEF ClientInv, WhereInv, Starting, Stopping
<1>7. AnswerInv(c)'
  BY <1>1, <1>2, <1>4 DEF ClientInv, AnswerInv, Excused
<1>8. ClientInv(c)'
  BY <1>2, <1>5, <1>6, <1>7 DEF ClientInv, Unexpected, Excused
<1>9. TypeOK'
  BY <1>1, <1>2, <1>3, <1>4, NoteFrozen DEF TypeOK, EngineTyped, Moves
<1> QED
  BY <1>3, <1>8, <1>9 DEF Inv

\* A process that replies keeps the invariant if a success is backed by the
\* fact it stands for and a failed start by an excuse.
LEMMA Replies ==
    ASSUME Inv, NEW c \in Clients, NEW more, NEW a \in {"ok"} \cup Errors \cup Boxes,
           Note(c, more), Reply(c, a), EngineTyped,
           pc[c] \notin {"idle", "answered"},
           a = "ok" => IF cmd[c] = "stop" THEN "gone" \in hist'[c] \/ "misread" \in hist'[c]
                       ELSE "reachable" \in hist'[c],
           a = "startFailed" => "excused" \in hist'[c]
    PROVE  Inv'
<1>1. TypeOK /\ ClientInv(c)
  BY DEF Inv
<1>2. /\ pc'[c] = "answered" /\ cmd' = cmd /\ answer'[c] = a
      /\ \A d \in Clients : d # c => pc'[d] = pc[d] /\ answer'[d] = answer[d]
      /\ pc' \in [Clients -> Labels]
      /\ answer' \in [Clients -> {"none", "ok"} \cup Errors \cup Boxes]
  BY <1>1 DEF Reply, TypeOK, Labels
<1>3. ASSUME NEW d \in Clients, d # c
      PROVE  ClientInv(d)' /\ hist'[d] \subseteq Facts[cmd[d]]
  BY <1>2, <1>3, Bystander
<1>4. hist'[c] \subseteq Facts[cmd[c]]
  BY <1>1, NoteEffect
<1>5. WhereInv(c)' /\ AnswerInv(c)' /\ ~Unexpected(c)'
  BY <1>1, <1>2 DEF ClientInv, WhereInv, AnswerInv, Excused, Unexpected, Clash, Starting, Stopping
<1>6. TypeOK'
  BY <1>1, <1>2, <1>3, <1>4, NoteFrozen DEF TypeOK, EngineTyped, Reply
<1> QED
  BY <1>3, <1>5, <1>6 DEF Inv, ClientInv

-----------------------------------------------------------------------------
(* The operations.                                                         *)

\* The code of a command and the facts it holds its answer against.
LEMMA Located ==
    ASSUME Inv, NEW c \in Clients
    PROVE  /\ TypeOK /\ ClientInv(c)
           /\ pc[c] = "dial" => cmd[c] = "run"
           /\ pc[c] \in Starting => cmd[c] \in {"run", "start"}
           /\ pc[c] \in Stopping => cmd[c] = "stop"
  BY DEF Inv, ClientInv, WhereInv

\* A step that leaves the engine alone leaves it well typed.
LEMMA EngineLeft == TypeOK /\ UNCHANGED engineVars => EngineTyped
  BY DEF TypeOK, engineVars, EngineTyped

\* Goto and StopFails are moves.
LEMMA GotoMoves == \A c \in Clients, l \in Labels : TypeOK /\ Goto(c, l) => Moves(c, l)
  BY DEF Goto, Moves, localVars, TypeOK

\* A failed stop goes on to Remove.
LEMMA StopFailsMoves == \A c \in Clients : TypeOK /\ StopFails(c) => Moves(c, "rmInspect")
  BY DEF StopFails, Moves, TypeOK

\* An inspect shows the container as it is, or an absent one with an excuse,
\* which for Remove is that it misread its error.
LEMMA Inspecting ==
    ASSUME NEW c, NEW s, Inspected(c, s)
    PROVE  \E more : /\ Note(c, more)
                     /\ s = box \/ ("excused" \in more /\ (pc[c] = "rmInspect" => "misread" \in more))
<1>1. CASE s = box /\ Note(c, {})
  BY <1>1
<1>2. CASE Note(c, {"excused"} \cup (IF pc[c] = "rmInspect" THEN {"misread"} ELSE {}))
  BY <1>2
<1> QED
  BY <1>1, <1>2 DEF Inspected

\* EnsureRunning's probe preserves the invariant.
LEMMA EnsureDialStep == ASSUME Inv, NEW c \in Clients, EnsureDial(c) PROVE Inv'
<1>1. TypeOK /\ pc[c] = "dial" /\ cmd[c] = "run" /\ Note(c, {}) /\ EngineTyped /\ UNCHANGED engineVars
  BY Located, EngineLeft DEF EnsureDial
<1>2. CASE Reachable(c) /\ Reply(c, "ok")
  <2>1. "reachable" \in Held
    BY <1>1, <1>2 DEF Reachable, Held, engineVars
  <2>2. "reachable" \in hist'[c]
    BY <1>1, <2>1, NoteEffect, FactsOf
  <2> QED
    BY <1>1, <1>2, <2>2, Replies
<1>3. CASE Goto(c, "inspect")
  <2>1. Moves(c, "inspect")
    BY <1>1, <1>3, GotoMoves DEF Labels
  <2> QED
    BY <1>1, <2>1, MovesOn DEF Starting, Stopping, Clash
<1> QED
  BY <1>2, <1>3 DEF EnsureDial

\* A failing inspect is an error of its own.
LEMMA InspectFailsStep ==
    ASSUME Inv, NEW c \in Clients, pc[c] \notin {"idle", "answered"}, InspectFails(c)
    PROVE  Inv'
  BY Located, EngineLeft, Replies DEF InspectFails, Errors

\* What Start decides on an inspect suits what it saw.
LEMMA StartInspectStep == ASSUME Inv, NEW c \in Clients, StartInspect(c) PROVE Inv'
<1>1. TypeOK /\ pc[c] = "inspect" /\ cmd[c] \in {"run", "start"}
  BY Located DEF StartInspect, Inspect, Starting
<1>2. CASE InspectFails(c)
  BY <1>1, <1>2, InspectFailsStep
<1>3. ASSUME Inspect(c, "inspect", StartLabel) PROVE Inv'
  <2>1. PICK s \in Boxes : Inspected(c, s) /\ Goto(c, StartLabel(s))
    BY <1>3 DEF Inspect
  <2>2. EngineTyped /\ box' = box
    BY <1>1, <1>3, EngineLeft DEF Inspect, engineVars
  <2>3. /\ StartLabel(s) \in Starting /\ StartLabel(s) \notin Stopping
        /\ StartLabel(s) \in Labels
        /\ Clash(StartLabel(s), s) => s = "paused"
        /\ Clash(StartLabel("absent"), s) => s # "absent"
    BY DEF StartLabel, Starting, Stopping, Labels, Clash, Boxes
  <2>4. Moves(c, StartLabel(s))
    BY <1>1, <2>1, <2>3, GotoMoves
  <2>5. PICK more : Note(c, more) /\ (s = box \/ "excused" \in more)
    BY <2>1, Inspecting
  <2> QED
    BY <1>1, <2>2, <2>3, <2>4, <2>5, MovesOn
<1> QED
  BY <1>2, <1>3 DEF StartInspect

\* What a call of the command line may do to a container in state b.
LEMMA OutcomesOf ==
    ASSUME NEW b \in Boxes, NEW what \in {"create", "start", "stop", "rm -f"},
           NEW o \in Outcomes(what, b)
    PROVE  /\ o[1] \in Boxes
           /\ what = "create" => (IF o[2] THEN o[1] = "created" ELSE b # "absent")
           /\ what = "start" /\ ~o[2] => b \in {"absent", "paused"}
           /\ what = "stop" => o[1] # "running"
           /\ what = "rm -f" /\ o[2] => o[1] = "absent"
<1>1. CASE what = "create"
  <2>1. CASE b = "absent" /\ o = <<"created", TRUE>>
    BY <1>1, <2>1 DEF Boxes
  <2>2. CASE b # "absent" /\ o = <<b, FALSE>>
    BY <1>1, <2>2
  <2> QED
    BY <1>1, <2>1, <2>2 DEF Outcomes
<1>2. CASE what = "start"
  <2>1. CASE b \in {"absent", "paused"} /\ o = <<b, FALSE>>
    BY <1>2, <2>1
  <2>2. CASE o = <<"running", TRUE>>
    BY <1>2, <2>2 DEF Boxes
  <2> QED
    BY <1>2, <2>1, <2>2 DEF Outcomes
<1>3. CASE what = "stop"
  <2>1. CASE b # "running" /\ o = <<b, FALSE>>
    BY <1>3, <2>1
  <2>2. CASE b # "running" /\ o = <<b, TRUE>>
    BY <1>3, <2>2
  <2>3. CASE o = <<"exited", TRUE>>
    BY <1>3, <2>3 DEF Boxes
  <2> QED
    BY <1>3, <2>1, <2>2, <2>3 DEF Outcomes
<1>4. CASE what = "rm -f"
  <2>1. CASE o = <<"absent", TRUE>>
    BY <1>4, <2>1 DEF Boxes
  <2>2. CASE o = <<"absent", FALSE>>
    BY <1>4, <2>2 DEF Boxes
  <2> QED
    BY <1>4, <2>1, <2>2 DEF Outcomes
<1> QED
  BY <1>1, <1>2, <1>3, <1>4

\* A call leaves the engine's variables well typed, whether it worked or not.
LEMMA CallTyped ==
    ASSUME TypeOK, NEW what \in {"create", "start", "stop", "rm -f"},
           NEW b \in {box} \cup {o[1] : o \in Outcomes(what, box)}, Becomes(b)
    PROVE  EngineTyped
<1>1. box \in Boxes
  BY DEF TypeOK
<1>2. \A o \in Outcomes(what, box) : o[1] \in Boxes
  BY <1>1, OutcomesOf
<1>3. b = box \/ \E o \in Outcomes(what, box) : b = o[1]
  OBVIOUS
<1>4. b \in Boxes
  BY <1>1, <1>2, <1>3
<1> QED
  BY <1>4, BecomesTyped DEF EngineTyped

\* `start' fails only on a container that is not there or paused.
LEMMA StartsStep ==
    ASSUME Inv, NEW c \in Clients, pc[c] \in {"restart", "starting"},
           Call(c, "start", Goto(c, "check"), Reply(c, "startFailed"))
    PROVE  Inv'
<1>1. /\ TypeOK /\ pc[c] \in {"restart", "starting"} /\ cmd[c] \in {"run", "start"} /\ box \in Boxes
      /\ Clash(pc[c], box) => Excused(c)
  BY Located DEF TypeOK, Starting, ClientInv, Unexpected
<1>2. \/ \E o \in Outcomes("start", box) :
              Becomes(o[1]) /\ (IF o[2] THEN Goto(c, "check") ELSE Reply(c, "startFailed")) /\ Note(c, {})
      \/ \E b \in {box} \cup {o[1] : o \in Outcomes("start", box)} :
              Becomes(b) /\ Reply(c, "startFailed") /\ Note(c, {"excused"})
  BY DEF Call
<1>3. ASSUME NEW more, Reply(c, "startFailed"), Note(c, more), EngineTyped,
             Excused(c) \/ "excused" \in more
      PROVE  Inv'
  <2>1. "excused" \in hist'[c]
    BY <1>1, <1>3, NoteEffect, FactsOf DEF Excused
  <2> QED
    BY <1>1, <1>3, <2>1, Replies DEF Errors
<1>4. ASSUME NEW o \in Outcomes("start", box), Becomes(o[1]), Note(c, {}),
             IF o[2] THEN Goto(c, "check") ELSE Reply(c, "startFailed")
      PROVE  Inv'
  <2>1. EngineTyped /\ box' = o[1]
    BY <1>1, <1>4, CallTyped DEF Becomes
  <2>2. CASE o[2]
    <3>1. Moves(c, "check") /\ Note(c, {})
      BY <1>1, <1>4, <2>2, GotoMoves DEF Labels
    <3>2. ~Clash("check", box')
      BY <1>1, <2>1, <2>2, OutcomesOf DEF Clash
    <3> QED
      BY <1>1, <2>1, <3>1, <3>2, MovesOn DEF Starting, Stopping
  <2>3. CASE ~o[2]
    <3>1. Clash(pc[c], box)
      BY <1>1, <2>3, OutcomesOf DEF Clash
    <3> QED
      BY <1>1, <1>3, <1>4, <2>1, <2>3, <3>1
  <2> QED
    BY <2>2, <2>3
<1>5. ASSUME NEW b \in {box} \cup {o[1] : o \in Outcomes("start", box)},
             Becomes(b), Reply(c, "startFailed"), Note(c, {"excused"})
      PROVE  Inv'
  BY <1>1, <1>3, <1>5, CallTyped
<1> QED
  BY <1>2, <1>4, <1>5

\* `run' creates a container unless there is one.
LEMMA RunCreatesStep ==
    ASSUME Inv, NEW c \in Clients, RunCreates(c)
    PROVE  Inv'
<1>1. /\ TypeOK /\ pc[c] \in {"create"} /\ cmd[c] \in {"run", "start"} /\ box \in Boxes
      /\ Clash(pc[c], box) => Excused(c)
  BY Located DEF TypeOK, Starting, ClientInv, Unexpected, RunCreates
<1>2. \/ \E o \in Outcomes("create", box) :
              Becomes(o[1]) /\ (IF o[2] THEN Goto(c, "starting") ELSE Reply(c, "startFailed")) /\ Note(c, {})
      \/ \E b \in {box} \cup {o[1] : o \in Outcomes("create", box)} :
              Becomes(b) /\ Reply(c, "startFailed") /\ Note(c, {"excused"})
  BY DEF Call, RunCreates
<1>3. ASSUME NEW more, Reply(c, "startFailed"), Note(c, more), EngineTyped,
             Excused(c) \/ "excused" \in more
      PROVE  Inv'
  <2>1. "excused" \in hist'[c]
    BY <1>1, <1>3, NoteEffect, FactsOf DEF Excused
  <2> QED
    BY <1>1, <1>3, <2>1, Replies DEF Errors
<1>4. ASSUME NEW o \in Outcomes("create", box), Becomes(o[1]), Note(c, {}),
             IF o[2] THEN Goto(c, "starting") ELSE Reply(c, "startFailed")
      PROVE  Inv'
  <2>1. EngineTyped /\ box' = o[1]
    BY <1>1, <1>4, CallTyped, ZenonT(60) DEF Becomes
  <2>2. CASE o[2]
    <3>1. Moves(c, "starting") /\ Note(c, {})
      BY <1>1, <1>4, <2>2, GotoMoves DEF Labels
    <3>2. ~Clash("starting", box')
      BY <1>1, <2>1, <2>2, OutcomesOf, ZenonT(60) DEF Clash
    <3> QED
      BY <1>1, <2>1, <3>1, <3>2, MovesOn DEF Starting, Stopping
  <2>3. CASE ~o[2]
    <3>1. Clash(pc[c], box)
      BY <1>1, <2>3, OutcomesOf DEF Clash
    <3> QED
      BY <1>1, <1>3, <1>4, <2>1, <2>3, <3>1
  <2> QED
    BY <2>2, <2>3
<1>5. ASSUME NEW b \in {box} \cup {o[1] : o \in Outcomes("create", box)},
             Becomes(b), Reply(c, "startFailed"), Note(c, {"excused"})
      PROVE  Inv'
  BY <1>1, <1>3, <1>5, CallTyped
<1> QED
  BY <1>2, <1>4, <1>5

\* waitHealthy says that the engine is up when it has just been reached.
LEMMA ProbeStep == ASSUME Inv, NEW c \in Clients, Probe(c) PROVE Inv'
<1>1. /\ TypeOK /\ pc[c] = "check" /\ cmd[c] \in {"run", "start"} /\ Note(c, {})
      /\ EngineTyped /\ UNCHANGED engineVars
  BY Located, EngineLeft DEF Probe, Starting
<1>2. CASE Reply(c, "unhealthy")
  BY <1>1, <1>2, Replies DEF Errors
<1>3. CASE Reachable(c) /\ Reply(c, "ok")
  <2>1. "reachable" \in Held
    BY <1>1, <1>3 DEF Reachable, Held, engineVars
  <2>2. "reachable" \in hist'[c]
    BY <1>1, <2>1, NoteEffect, FactsOf
  <2> QED
    BY <1>1, <1>3, <2>2, Replies
<1>4. CASE Goto(c, "sleep")
  <2>1. Moves(c, "sleep")
    BY <1>1, <1>4, GotoMoves DEF Labels
  <2> QED
    BY <1>1, <2>1, MovesOn DEF Starting, Stopping, Clash
<1> QED
  BY <1>2, <1>3, <1>4 DEF Probe

\* The wait between two probes ends in another, or with the context.
LEMMA WakeStep == ASSUME Inv, NEW c \in Clients, Wake(c) PROVE Inv'
<1>1. /\ TypeOK /\ pc[c] = "sleep" /\ cmd[c] \in {"run", "start"} /\ Note(c, {}) /\ EngineTyped
  BY Located, EngineLeft DEF Wake, Starting
<1>2. CASE Goto(c, "check")
  <2>1. Moves(c, "check")
    BY <1>1, <1>2, GotoMoves DEF Labels
  <2> QED
    BY <1>1, <2>1, MovesOn DEF Starting, Stopping, Clash
<1>3. CASE Reply(c, "canceled")
  BY <1>1, <1>3, Replies DEF Errors
<1> QED
  BY <1>2, <1>3 DEF Wake

\* Stop looks, and leaves a container that does not run to Remove.
LEMMA StopInspectStep == ASSUME Inv, NEW c \in Clients, StopInspect(c) PROVE Inv'
<1>1. TypeOK /\ pc[c] = "stopInspect" /\ cmd[c] = "stop" /\ EngineTyped /\ box' = box
  BY Located, EngineLeft DEF StopInspect, Inspect, Stopping, engineVars
<1>2. CASE StopFails(c) /\ Note(c, {"excused"})
  <2>1. Moves(c, "rmInspect")
    BY <1>1, <1>2, StopFailsMoves
  <2> QED
    BY <1>1, <1>2, <2>1, MovesOn DEF Starting, Stopping
<1>3. ASSUME Inspect(c, "stopInspect", StopLabel) PROVE Inv'
  <2>1. PICK s \in Boxes : Inspected(c, s) /\ Goto(c, StopLabel(s))
    BY <1>3 DEF Inspect
  <2>2. /\ StopLabel(s) \in Stopping /\ StopLabel(s) \notin Starting /\ StopLabel(s) \in Labels
        /\ ~Clash(StopLabel(s), s)
    BY DEF StopLabel, Starting, Stopping, Labels, Clash
  <2>3. Moves(c, StopLabel(s))
    BY <1>1, <2>1, <2>2, GotoMoves
  <2>4. PICK more : Note(c, more) /\ (s = box \/ "excused" \in more)
    BY <2>1, Inspecting
  <2> QED
    BY <1>1, <2>2, <2>3, <2>4, MovesOn
<1> QED
  BY <1>2, <1>3 DEF StopInspect

\* A stop that has worked leaves no running container, and one that has not an excuse.
LEMMA StopActStep == ASSUME Inv, NEW c \in Clients, StopAct(c) PROVE Inv'
<1>1. TypeOK /\ pc[c] = "stopAct" /\ cmd[c] = "stop" /\ box \in Boxes
  BY Located DEF TypeOK, StopAct, Stopping
<1>2. \/ \E o \in Outcomes("stop", box) :
              Becomes(o[1]) /\ (IF o[2] THEN Goto(c, "rmInspect") ELSE StopFails(c)) /\ Note(c, {})
      \/ \E b \in {box} \cup {o[1] : o \in Outcomes("stop", box)} :
              Becomes(b) /\ StopFails(c) /\ Note(c, {"excused"})
  BY DEF StopAct, Call
<1>3. Goto(c, "rmInspect") \/ StopFails(c) => Moves(c, "rmInspect")
  BY <1>1, GotoMoves, StopFailsMoves DEF Labels
<1>4. ASSUME NEW o \in Outcomes("stop", box), Becomes(o[1]), Note(c, {}), Moves(c, "rmInspect")
      PROVE  Inv'
  <2>1. EngineTyped /\ box' = o[1]
    BY <1>1, <1>4, CallTyped DEF Becomes
  <2>2. ~Clash("rmInspect", box')
    BY <1>1, <2>1, OutcomesOf, ZenonT(60) DEF Clash
  <2> QED
    BY <1>1, <1>4, <2>1, <2>2, MovesOn DEF Starting, Stopping
<1>5. ASSUME NEW b \in {box} \cup {o[1] : o \in Outcomes("stop", box)},
             Becomes(b), Moves(c, "rmInspect"), Note(c, {"excused"})
      PROVE  Inv'
  <2>1. EngineTyped
    BY <1>1, <1>5, CallTyped
  <2> QED
    BY <1>1, <1>5, <2>1, MovesOn DEF Starting, Stopping
<1> QED
  BY <1>2, <1>3, <1>4, <1>5

\* Remove answers that the container is gone when it was seen to be, or misread to.
LEMMA RemoveInspectStep == ASSUME Inv, NEW c \in Clients, RemoveInspect(c) PROVE Inv'
<1>1. /\ TypeOK /\ ClientInv(c) /\ pc[c] = "rmInspect" /\ cmd[c] = "stop"
      /\ EngineTyped /\ box' = box
  BY Located, EngineLeft DEF RemoveInspect, Stopping, engineVars
<1>2. CASE Inspected(c, "absent") /\ Reply(c, StopAnswer(c))
  <2>1. PICK more : Note(c, more) /\ (box = "absent" \/ "misread" \in more)
    BY <1>1, <1>2, Inspecting
  <2>2. box = "absent" => "gone" \in Held
    BY <1>1 DEF Held
  <2>3. "gone" \in hist'[c] \/ "misread" \in hist'[c]
    BY <1>1, <2>1, <2>2, NoteEffect, FactsOf
  <2> QED
    BY <1>1, <1>2, <2>1, <2>3, Replies DEF StopAnswer, Errors
<1>3. CASE Inspected(c, box) /\ Goto(c, "rmAct")
  <2>1. Moves(c, "rmAct")
    BY <1>1, <1>3, GotoMoves DEF Labels
  <2>2. PICK more : Note(c, more)
    BY <1>3, Inspecting
  <2>3. Clash("rmAct", box') => Excused(c)
    BY <1>1 DEF ClientInv, Unexpected, Clash
  <2> QED
    BY <1>1, <2>1, <2>2, <2>3, MovesOn DEF Starting, Stopping
<1>4. CASE Reply(c, "stopFailed") /\ Note(c, {"excused"})
  BY <1>1, <1>4, Replies DEF Errors
<1> QED
  BY <1>2, <1>3, <1>4 DEF RemoveInspect

\* Remove answers that the container is gone when `rm -f' says so.
LEMMA RemoveActStep == ASSUME Inv, NEW c \in Clients, RemoveAct(c) PROVE Inv'
<1>1. TypeOK /\ pc[c] = "rmAct" /\ cmd[c] = "stop" /\ box \in Boxes
  BY Located DEF TypeOK, RemoveAct, Stopping
<1>2. \/ \E o \in Outcomes("rm -f", box) :
              Becomes(o[1]) /\ (IF o[2] THEN Reply(c, StopAnswer(c)) ELSE Reply(c, "stopFailed")) /\ Note(c, {})
      \/ \E b \in {box} \cup {o[1] : o \in Outcomes("rm -f", box)} :
              Becomes(b) /\ Reply(c, "stopFailed") /\ Note(c, {"excused"})
  BY DEF RemoveAct, Call
<1>3. ASSUME NEW o \in Outcomes("rm -f", box), Becomes(o[1]), Note(c, {}),
             IF o[2] THEN Reply(c, StopAnswer(c)) ELSE Reply(c, "stopFailed")
      PROVE  Inv'
  <2>1. EngineTyped /\ box' = o[1] /\ Note(c, {})
    BY <1>1, <1>3, CallTyped DEF Becomes
  <2>2. CASE o[2]
    <3>1. "gone" \in Held
      BY <1>1, <2>1, <2>2, OutcomesOf DEF Held
    <3>2. "gone" \in hist'[c]
      <4>1. Facts[cmd[c]] \cap Held \subseteq hist'[c]
        BY <1>1, <2>1, NoteEffect
      <4>2. "gone" \in Facts[cmd[c]]
        BY <1>1, FactsOf
      <4> QED
        BY <3>1, <4>1, <4>2
    <3>3. Reply(c, StopAnswer(c)) /\ StopAnswer(c) \in {"ok", "stopFailed"}
      BY <1>3, <2>2 DEF StopAnswer
    <3> QED
      BY <1>1, <1>3, <2>1, <3>2, <3>3, Replies DEF Errors
  <2>3. CASE ~o[2]
    BY <1>1, <1>3, <2>1, <2>3, Replies DEF Errors
  <2> QED
    BY <2>2, <2>3
<1>4. ASSUME NEW b \in {box} \cup {o[1] : o \in Outcomes("rm -f", box)},
             Becomes(b), Reply(c, "stopFailed"), Note(c, {"excused"})
      PROVE  Inv'
  <2>1. EngineTyped
    BY <1>1, <1>4, CallTyped
  <2> QED
    BY <1>1, <1>4, <2>1, Replies DEF Errors
<1> QED
  BY <1>2, <1>3, <1>4

\* Status answers what it saw.
LEMMA StatusInspectStep == ASSUME Inv, NEW c \in Clients, StatusInspect(c) PROVE Inv'
<1>1. TypeOK /\ pc[c] = "status"
  BY Located DEF StatusInspect
<1>2. CASE InspectFails(c)
  BY <1>1, <1>2, InspectFailsStep
<1>3. ASSUME NEW s \in Boxes, UNCHANGED engineVars, Inspected(c, s), Reply(c, s) PROVE Inv'
  <2>1. PICK more : Note(c, more)
    BY <1>3, Inspecting
  <2>2. EngineTyped /\ s # "ok" /\ s # "startFailed"
    BY <1>1, <1>3, EngineLeft DEF Boxes
  <2> QED
    BY <1>1, <1>3, <2>1, <2>2, Replies
<1> QED
  BY <1>2, <1>3 DEF StatusInspect

\* A process at any step of its command preserves the invariant.
LEMMA ClientStep == ASSUME Inv, NEW c \in Clients, Step(c) PROVE Inv'
<1>1. Restart(c) \/ RunStarts(c) => Inv'
  BY StartsStep DEF Restart, RunStarts
<1> QED
  BY <1>1, EnsureDialStep, StartInspectStep, RunCreatesStep, ProbeStep, WakeStep,
     StopInspectStep, StopActStep, RemoveInspectStep, RemoveActStep, StatusInspectStep DEF Step

\* A new command starts with no more against it than holds at that moment.
LEMMA BeginStep == ASSUME Inv, NEW c \in Clients, Begin(c) PROVE Inv'
<1>1. /\ TypeOK /\ ClientInv(c) /\ box' = box /\ healthy' = healthy
      /\ UNCHANGED <<late, stopErr, ctxDone, answer>> /\ pc[c] = "idle"
  BY Located DEF Begin, engineVars
<1>2. PICK k \in Commands : /\ cmd' = [cmd EXCEPT ![c] = k]
                            /\ pc' = [pc EXCEPT ![c] = FirstLabel[k]]
                            /\ hist' = [hist EXCEPT ![c] = Facts[k] \cap Held]
  BY DEF Begin
<1>3. /\ k \in {"run", "start", "stop", "status"} /\ k # "none"
      /\ FirstLabel[k] = IF k = "run" THEN "dial" ELSE IF k = "start" THEN "inspect"
                         ELSE IF k = "stop" THEN "stopInspect" ELSE "status"
  BY CommandsAssumption DEF FirstLabel
<1>4. pc' \in [Clients -> Labels] /\ cmd' \in [Clients -> Commands \cup {"none"}]
  BY <1>1, <1>2, <1>3 DEF TypeOK, Labels
<1>5. ASSUME NEW d \in Clients PROVE ClientInv(d)' /\ hist'[d] \subseteq Facts[cmd'[d]]
  <2>1. CASE d = c
    <3>1. pc'[c] = FirstLabel[k] /\ cmd'[c] = k /\ answer'[c] = "none"
      BY <1>1, <1>2 DEF TypeOK, ClientInv, WhereInv
    <3>2. WhereInv(c)' /\ ~Unexpected(c)' /\ AnswerInv(c)'
      BY <1>3, <3>1 DEF WhereInv, Unexpected, Clash, AnswerInv, Starting, Stopping
    <3>3. hist'[c] \subseteq Facts[k]
      BY <1>1, <1>2 DEF TypeOK
    <3> QED
      BY <2>1, <3>1, <3>2, <3>3 DEF ClientInv
  <2>2. CASE d # c
    BY <1>1, <1>2, <2>2
      DEF TypeOK, Inv, ClientInv, WhereInv, Unexpected, Clash, Excused, AnswerInv
  <2> QED
    BY <2>1, <2>2
<1>6. TypeOK'
  BY <1>1, <1>2, <1>4, <1>5 DEF TypeOK
<1> QED
  BY <1>5, <1>6 DEF Inv

\* The end of a command forgets it.
LEMMA EndStep == ASSUME Inv, NEW c \in Clients, End(c) PROVE Inv'
<1>1. /\ TypeOK /\ box' = box /\ healthy' = healthy /\ UNCHANGED <<late, stopErr, ctxDone>>
      /\ cmd' = [cmd EXCEPT ![c] = "none"] /\ pc' = [pc EXCEPT ![c] = "idle"]
      /\ answer' = [answer EXCEPT ![c] = "none"] /\ hist' = [hist EXCEPT ![c] = {}]
  BY Located DEF End, engineVars
<1>2. ASSUME NEW d \in Clients PROVE ClientInv(d)' /\ hist'[d] \subseteq Facts[cmd'[d]]
  <2>1. CASE d = c
    BY <1>1, <2>1
      DEF TypeOK, ClientInv, WhereInv, Unexpected, Clash, AnswerInv, Starting, Stopping
  <2>2. CASE d # c
    BY <1>1, <2>2
      DEF TypeOK, Inv, ClientInv, WhereInv, Unexpected, Clash, Excused, AnswerInv
  <2> QED
    BY <2>1, <2>2
<1>3. TypeOK'
  BY <1>1, <1>2 DEF TypeOK, Labels
<1> QED
  BY <1>2, <1>3 DEF Inv

\* Time, a cancelled context and stuttering touch nothing the invariant is about.
LEMMA QuietStep ==
    ASSUME Inv, UNCHANGED <<engineVars, cmd, pc, answer, hist>>,
           late' \in [Clients -> BOOLEAN], stopErr' \in [Clients -> BOOLEAN],
           ctxDone' \in [Clients -> BOOLEAN]
    PROVE  Inv'
  BY DEF Inv, TypeOK, ClientInv, WhereInv, Unexpected, Clash, Excused, AnswerInv, engineVars

\* What the engine and the user do to the container excuses everybody.
LEMMA EngineStep == ASSUME Inv, EngineChanges PROVE Inv'
<1>1. /\ TypeOK /\ Note("world", {}) /\ UNCHANGED <<cmd, late, stopErr, ctxDone, pc, answer>>
      /\ EngineTyped
  BY DEF Inv, EngineChanges, localVars, EngineTyped, Becomes, TypeOK, Boxes
<1>2. ASSUME NEW d \in Clients PROVE ClientInv(d)' /\ hist'[d] \subseteq Facts[cmd[d]]
  BY <1>1, CommandsAssumption, Bystander
<1>3. TypeOK'
  BY <1>1, <1>2, NoteFrozen DEF TypeOK, EngineTyped
<1> QED
  BY <1>2, <1>3 DEF Inv

-----------------------------------------------------------------------------
(* The theorems.                                                           *)

\* No command has begun: nothing to answer for.
LEMMA InitInv == Init => Inv
<1> SUFFICES ASSUME Init PROVE Inv
  OBVIOUS
<1>1. TypeOK
  BY DEF Init, TypeOK, Labels
<1>2. ASSUME NEW c \in Clients PROVE ClientInv(c)
  BY DEF Init, ClientInv, WhereInv, Unexpected, Clash, AnswerInv, Starting, Stopping
<1> QED
  BY <1>1, <1>2 DEF Inv

\* Every step preserves the invariant.
LEMMA NextInv == Inv /\ [Next]_vars => Inv'
<1> SUFFICES ASSUME Inv, [Next]_vars PROVE Inv'
  OBVIOUS
<1>1. ASSUME NEW c \in Clients, Begin(c) \/ End(c) \/ Step(c) PROVE Inv'
  BY <1>1, BeginStep, EndStep, ClientStep
<1>2. ASSUME NEW c \in Clients, DeadlinePasses(c) \/ Cancel(c) PROVE Inv'
  BY <1>2, QuietStep DEF Inv, TypeOK, DeadlinePasses, Cancel
<1>3. CASE EngineChanges
  BY <1>3, EngineStep
<1>4. CASE UNCHANGED vars
  BY <1>4, QuietStep DEF Inv, TypeOK, vars, localVars
<1> QED
  BY <1>1, <1>2, <1>3, <1>4 DEF Next

\* The invariant holds throughout.
LEMMA Invariance == Spec => []Inv
  BY InitInv, NextInv, PTL DEF Spec

\* Every reachable state is well typed.
THEOREM TypeCorrect == Spec => []TypeOK
  BY Invariance, PTL DEF Inv

\* What engine start, a run's EnsureRunning and engine stop answer with nil was
\* true at a moment of the command, whatever other processes did meanwhile, but
\* for a stop whose Remove misread a failed inspect.
THEOREM AnswersTrue == Spec => []AnswersHeld
<1>1. Inv => AnswersHeld
  BY DEF Inv, ClientInv, AnswerInv, AnswersHeld
<1> QED
  BY <1>1, Invariance, PTL

\* Start fails on a container only for a cause outside of it.
THEOREM StartFailuresExcused == Spec => []StartFailsForCause
<1>1. Inv => StartFailsForCause
  BY DEF Inv, ClientInv, AnswerInv, Excused, StartFailsForCause
<1> QED
  BY <1>1, Invariance, PTL

\* Remove kills no running engine that could have been stopped.
THEOREM GentleStop == Spec => StopsBeforeKill
<1>1. Inv /\ [Next]_vars =>
        [\A c \in Clients :
            pc[c] = "rmAct" /\ pc'[c] # "rmAct" /\ box = "running" /\ box' = "absent"
                => "excused" \in hist[c]]_vars
  BY DEF Inv, ClientInv, Unexpected, Clash, Excused
<1> QED
  BY <1>1, Invariance, PTL DEF Spec, StopsBeforeKill

=============================================================================
