------------------------------- MODULE Daemon -------------------------------
(***************************************************************************)
(* The engine manager (internal/daemon) over the container runtime's       *)
(* command line (internal/runtime): several cicada processes share the one *)
(* container cicada-buildkitd and nothing else.  Every operation inspects  *)
(* the container first and acts on what it saw; in between, the other      *)
(* processes, the user and the engine itself may change it.                *)
(*                                                                         *)
(* External: docker or podman, and buildkitd.  "paused" stands for every   *)
(* state of an existing container that parseState does not turn into       *)
(* created, running or exited.  A command line call may fail before or     *)
(* after it took effect: a port in use, execTimeout, a killed client.      *)
(***************************************************************************)
CONSTANTS
    Clients,    \* the cicada processes
    Commands    \* what they are asked: "run", "start", "stop" or "status"

ASSUME CommandsAssumption ==
    /\ Commands \subseteq {"run", "start", "stop", "status"}
    /\ "world" \notin Clients    \* who is neither of them: EngineChanges

VARIABLES
    box,        \* the container
    healthy,    \* buildkitd answers ListWorkers
    cmd,        \* cmd[c]: the command of c
    pc,         \* pc[c]: where it is
    late,       \* late[c]: waitHealthy's deadline has passed
    stopErr,    \* stopErr[c]: Stop returned an error (engineStopAction)
    ctxDone,    \* ctxDone[c]: the command's context is cancelled
    answer,     \* answer[c]: what the command returned
    hist        \* hist[c]: what its answer is held against (history)

engineVars == <<box, healthy>>
localVars == <<cmd, late, stopErr, ctxDone>>
vars == <<engineVars, localVars, pc, answer, hist>>

Boxes == {"absent", "created", "running", "exited", "paused"}
Errors == {"inspecting", "startFailed", "unhealthy", "canceled", "stopFailed"}
Labels == {"idle", "dial", "inspect", "restart", "create", "starting", "check", "sleep",
           "stopInspect", "stopAct", "rmInspect", "rmAct", "status", "answered"}

-----------------------------------------------------------------------------
(* History: what a reader of c's answer may hold against it.  "reachable"  *)
(* and "gone" when there was an engine to reach, or no container, at a     *)
(* moment of the command; "misread" when Remove's inspect failed with a    *)
(* message that reads as "no such container"; "excused" when a call of c   *)
(* went wrong by itself, another hand changed the container, or it was     *)
(* paused.                                                                 *)

Facts == [none |-> {}, status |-> {},
          run  |-> {"reachable", "excused"}, start |-> {"reachable", "excused"},
          stop |-> {"gone", "misread", "excused"}]

Held ==
    (IF healthy' THEN {"reachable"} ELSE {}) \cup (IF box' = "absent" THEN {"gone"} ELSE {})
        \cup (IF box' = "paused" THEN {"excused"} ELSE {})

Note(by, more) ==
    hist' = [c \in Clients |->
                IF pc[c] = "answered" THEN hist[c]
                ELSE hist[c] \cup (Facts[cmd[c]] \cap
                        (Held \cup (IF c = by THEN more
                                    ELSE IF box' # box THEN {"excused"} ELSE {})))]

\* The container becomes b; an engine answers only in a container that goes on.
Becomes(b) == box' = b /\ healthy' = (healthy /\ box = "running" /\ b = "running")

Goto(c, l) == pc' = [pc EXCEPT ![c] = l] /\ UNCHANGED <<localVars, answer>>

\* The command returns a; its locals and its context go with it.
Reply(c, a) ==
    /\ pc' = [pc EXCEPT ![c] = "answered"]
    /\ answer' = [answer EXCEPT ![c] = a]
    /\ late' = [late EXCEPT ![c] = FALSE]
    /\ stopErr' = [stopErr EXCEPT ![c] = FALSE]
    /\ ctxDone' = [ctxDone EXCEPT ![c] = FALSE]
    /\ UNCHANGED cmd

-----------------------------------------------------------------------------
(* The runtime's commands on a container in state b: what it becomes and   *)
(* whether the command succeeds.                                           *)

Outcomes(what, b) ==
    CASE what = "create" -> IF b = "absent" THEN {<<"created", TRUE>>} ELSE {<<b, FALSE>>}
      [] what = "start"  -> IF b \in {"absent", "paused"} THEN {<<b, FALSE>>}
                            ELSE {<<"running", TRUE>>}
      [] what = "stop"   -> IF b = "absent" THEN {<<b, FALSE>>}
                            ELSE IF b \in {"running", "paused"} THEN {<<"exited", TRUE>>}
                            ELSE {<<b, TRUE>>}
      [] what = "rm -f"  -> {<<"absent", TRUE>>} \cup
                            (IF b = "absent" THEN {<<"absent", FALSE>>} ELSE {})

\* One call of the command line by c.  A call on a cancelled context is not
\* made; any other may fail with or without its effect.
Call(c, what, Then, Else) ==
    \/ \E o \in Outcomes(what, box) :
          /\ ~ctxDone[c]
          /\ Becomes(o[1])
          /\ IF o[2] THEN Then ELSE Else
          /\ Note(c, {})
    \/ \E b \in {box} \cup (IF ctxDone[c] THEN {} ELSE {o[1] : o \in Outcomes(what, box)}) :
          /\ Becomes(b)
          /\ Else
          /\ Note(c, {"excused"})

\* Inspect, whose error is "not found" when the message contains "no such",
\* whatever there is no such thing of.
Inspected(c, s) ==
    /\ ~ctxDone[c]
    /\ \/ s = box /\ Note(c, {})
       \/ /\ s = "absent"
          /\ Note(c, {"excused"} \cup (IF pc[c] = "rmInspect" THEN {"misread"} ELSE {}))

InspectFails(c) == UNCHANGED engineVars /\ Reply(c, "inspecting") /\ Note(c, {"excused"})

\* An inspect of c at label at, going on to the label it chooses from what it saw.
Inspect(c, at, next(_)) ==
    /\ pc[c] = at
    /\ UNCHANGED engineVars
    /\ \E s \in Boxes : Inspected(c, s) /\ Goto(c, next(s))

-----------------------------------------------------------------------------
(* A command begins and ends.                                              *)

FirstLabel == [run |-> "dial", start |-> "inspect", stop |-> "stopInspect", status |-> "status"]

Begin(c) ==
    /\ pc[c] = "idle"
    /\ UNCHANGED <<engineVars, late, stopErr, ctxDone, answer>>
    /\ \E k \in Commands :
          /\ cmd' = [cmd EXCEPT ![c] = k]
          /\ pc' = [pc EXCEPT ![c] = FirstLabel[k]]
          /\ hist' = [hist EXCEPT ![c] = Facts[k] \cap Held]

End(c) ==
    /\ pc[c] = "answered"
    /\ cmd' = [cmd EXCEPT ![c] = "none"]
    /\ pc' = [pc EXCEPT ![c] = "idle"]
    /\ answer' = [answer EXCEPT ![c] = "none"]
    /\ hist' = [hist EXCEPT ![c] = {}]
    /\ UNCHANGED <<engineVars, late, stopErr, ctxDone>>

(* EnsureRunning for the default address: one probe, then Start.  A failed *)
(* dial is never an error, it is an engine that cannot be reached.         *)

Reachable(c) == healthy /\ ~ctxDone[c]

EnsureDial(c) ==
    /\ pc[c] = "dial"
    /\ UNCHANGED engineVars /\ Note(c, {})
    /\ IF Reachable(c) THEN Reply(c, "ok") ELSE Goto(c, "inspect")

(* Start.                                                                  *)

\* A stopped container is not told from a missing one.
StartLabel_NoRestart(s) == IF s = "running" THEN "check" ELSE "create"

StartLabel(s) ==
    CASE s = "running" -> "check"
      [] s \in {"exited", "created"} -> "restart"
      [] OTHER -> "create"

StartInspect(c) ==
    \/ Inspect(c, "inspect", StartLabel)
    \/ pc[c] = "inspect" /\ InspectFails(c)

Restart(c) ==
    /\ pc[c] = "restart"
    /\ Call(c, "start", Goto(c, "check"), Reply(c, "startFailed"))

\* `run -d' creates the container under its name, then starts it.
RunCreates(c) ==
    /\ pc[c] = "create"
    /\ Call(c, "create", Goto(c, "starting"), Reply(c, "startFailed"))

RunStarts(c) ==
    /\ pc[c] = "starting"
    /\ Call(c, "start", Goto(c, "check"), Reply(c, "startFailed"))

(* waitHealthy: the deadline is looked at before a probe, not after it.    *)

\* The deadline is not looked at.
Probe_NoDeadline(c) ==
    /\ pc[c] = "check"
    /\ UNCHANGED engineVars /\ Note(c, {})
    /\ IF Reachable(c) THEN Reply(c, "ok") ELSE Goto(c, "sleep")

Probe(c) ==
    /\ pc[c] = "check"
    /\ UNCHANGED engineVars /\ Note(c, {})
    /\ IF late[c] THEN Reply(c, "unhealthy")
       ELSE IF Reachable(c) THEN Reply(c, "ok")
       ELSE Goto(c, "sleep")

Wake(c) ==
    /\ pc[c] = "sleep"
    /\ UNCHANGED engineVars /\ Note(c, {})
    /\ \/ Goto(c, "check")
       \/ ctxDone[c] /\ Reply(c, "canceled")

(* engineStopAction: Stop, then Remove whatever Stop returned.             *)

\* Stop does nothing: Remove will take the container away.
StopLabel_RemoveOnly(s) == "rmInspect"

StopLabel(s) == IF s = "running" THEN "stopAct" ELSE "rmInspect"

StopFails(c) ==
    /\ pc' = [pc EXCEPT ![c] = "rmInspect"]
    /\ stopErr' = [stopErr EXCEPT ![c] = TRUE]
    /\ UNCHANGED <<cmd, late, ctxDone, answer>>

StopInspect(c) ==
    \/ Inspect(c, "stopInspect", StopLabel)
    \/ pc[c] = "stopInspect" /\ UNCHANGED engineVars /\ StopFails(c) /\ Note(c, {"excused"})

StopAct(c) ==
    /\ pc[c] = "stopAct"
    /\ Call(c, "stop", Goto(c, "rmInspect"), StopFails(c))

StopAnswer(c) == IF stopErr[c] THEN "stopFailed" ELSE "ok"

RemoveInspect(c) ==
    /\ pc[c] = "rmInspect"
    /\ UNCHANGED engineVars
    /\ \/ Inspected(c, "absent") /\ Reply(c, StopAnswer(c))
       \/ box # "absent" /\ Inspected(c, box) /\ Goto(c, "rmAct")
       \/ Reply(c, "stopFailed") /\ Note(c, {"excused"})

\* The error of `rm -f' is not returned.
RemoveAct_IgnoresError(c) ==
    /\ pc[c] = "rmAct"
    /\ Call(c, "rm -f", Reply(c, StopAnswer(c)), Reply(c, StopAnswer(c)))

RemoveAct(c) ==
    /\ pc[c] = "rmAct"
    /\ Call(c, "rm -f", Reply(c, StopAnswer(c)), Reply(c, "stopFailed"))

StatusInspect(c) ==
    /\ pc[c] = "status"
    /\ \/ UNCHANGED engineVars /\ \E s \in Boxes : Inspected(c, s) /\ Reply(c, s)
       \/ InspectFails(c)

-----------------------------------------------------------------------------
(* The world: time, ctrl+c, the engine coming up or crashing, and a user   *)
(* pausing the container by hand.                                          *)

DeadlinePasses(c) ==
    /\ pc[c] \in {"check", "sleep"} /\ ~late[c]
    /\ late' = [late EXCEPT ![c] = TRUE]
    /\ UNCHANGED <<engineVars, cmd, pc, stopErr, ctxDone, answer, hist>>

Cancel(c) ==
    /\ pc[c] \notin {"idle", "answered"} /\ ~ctxDone[c]
    /\ ctxDone' = [ctxDone EXCEPT ![c] = TRUE]
    /\ UNCHANGED <<engineVars, cmd, pc, late, stopErr, answer, hist>>

EngineChanges ==
    /\ \/ box = "running" /\ box' = box /\ healthy' = ~healthy
       \/ box = "running" /\ Becomes("exited")
       \/ box = "running" /\ Becomes("paused")
       \/ box = "paused" /\ Becomes("running")
    /\ UNCHANGED <<localVars, pc, answer>>
    /\ Note("world", {})

Init ==
    /\ box \in Boxes
    /\ healthy \in BOOLEAN /\ (healthy => box = "running")
    /\ cmd = [c \in Clients |-> "none"]
    /\ pc = [c \in Clients |-> "idle"]
    /\ late = [c \in Clients |-> FALSE]
    /\ stopErr = [c \in Clients |-> FALSE]
    /\ ctxDone = [c \in Clients |-> FALSE]
    /\ answer = [c \in Clients |-> "none"]
    /\ hist = [c \in Clients |-> {}]

Step(c) ==
    \/ EnsureDial(c) \/ StartInspect(c) \/ Restart(c) \/ RunCreates(c) \/ RunStarts(c)
    \/ Probe(c) \/ Wake(c)
    \/ StopInspect(c) \/ StopAct(c) \/ RemoveInspect(c) \/ RemoveAct(c)
    \/ StatusInspect(c)

Next ==
    \/ \E c \in Clients :
          Begin(c) \/ End(c) \/ Step(c) \/ DeadlinePasses(c) \/ Cancel(c)
    \/ EngineChanges

\* Calls end (execTimeout, the probe's two seconds) and time passes.
Fairness == \A c \in Clients : WF_vars(Step(c)) /\ WF_vars(DeadlinePasses(c))

Spec == Init /\ [][Next]_vars
FairSpec == Spec /\ Fairness

-----------------------------------------------------------------------------
\* Every variable has its type, and an engine answers only in a running container.
TypeOK ==
    /\ box \in Boxes
    /\ healthy \in BOOLEAN /\ (healthy => box = "running")
    /\ cmd \in [Clients -> Commands \cup {"none"}]
    /\ pc \in [Clients -> Labels]
    /\ late \in [Clients -> BOOLEAN]
    /\ stopErr \in [Clients -> BOOLEAN]
    /\ ctxDone \in [Clients -> BOOLEAN]
    /\ answer \in [Clients -> {"none", "ok"} \cup Errors \cup Boxes]
    /\ DOMAIN hist = Clients /\ \A c \in Clients : hist[c] \subseteq Facts[cmd[c]]

\* What a command answers was true at a moment of that command, whatever the
\* other processes do meanwhile: after a nil Start or EnsureRunning the engine
\* could be reached, after a nil `engine stop' there was no container
\* (daemon.go Start, Stop and Remove, main.go engineStopAction).  The one
\* exception is a stop whose Remove took an inspect that failed for there being
\* no container (cli.go:107): its nil says nothing, the container may have been
\* there, and running, all along.
AnswersHeld ==
    \A c \in Clients : answer[c] = "ok" =>
        IF cmd[c] = "stop" THEN "gone" \in hist[c] \/ "misread" \in hist[c]
        ELSE "reachable" \in hist[c]

\* Start is idempotent for a process that is alone: it fails to bring up the
\* container, from any state of it but "paused", only when a call of the
\* command line went wrong or another hand changed the container meanwhile
\* (daemon.go:115-151).
StartFailsForCause ==
    \A c \in Clients : answer[c] = "startFailed" => "excused" \in hist[c]

\* `engine stop' does not kill a running engine that it has not asked to stop:
\* `rm -f' meets a running container only when the stop failed, the container
\* was paused, or another hand started it after Stop had looked (main.go
\* engineStopAction).
StopsBeforeKill ==
    [][\A c \in Clients :
          pc[c] = "rmAct" /\ pc'[c] # "rmAct" /\ box = "running" /\ box' = "absent"
              => "excused" \in hist[c]]_vars

\* Every command ends: waitHealthy gives up at its deadline when the engine
\* never comes up, and no call of the command line is waited for without limit.
CommandsEnd == \A c \in Clients : (pc[c] # "idle") ~> (pc[c] = "answered")

=============================================================================
