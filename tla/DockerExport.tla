---------------------------- MODULE DockerExport ----------------------------
(***************************************************************************)
(* The docker-load task of Runner, opened up (solveImageExportDocker): one *)
(* goroutine solves and BuildKit writes the tarball into an io.Pipe, the   *)
(* other runs `docker load' with the pipe's reader as its standard input.  *)
(* The reader is no file, so os/exec copies it in a goroutine of its own,  *)
(* and cmd.Run returns only when the process is over and the copier too.   *)
(* A Write into the pipe waits for its reader and cannot be cancelled.     *)
(*                                                                         *)
(* External: BuildKit, docker, io.Pipe and os/exec.  BuildKit may fail at  *)
(* any time, before or after it has closed the pipe; docker may stop at    *)
(* any time, and is not trusted to refuse a truncated tarball.             *)
(***************************************************************************)
EXTENDS Naturals

CONSTANT Chunks     \* how many writes the tarball takes

ASSUME ChunksAssumption == Chunks \in Nat

VARIABLES
    solver,     \* the goroutine of s.Solve
    wrote,      \* chunks that Write has handed over
    pwClosed, prClosed,
    copier,     \* os/exec's copy of the pipe into the process
    docker,     \* the process
    got,        \* chunks the process has read
    loader,     \* the goroutine of cmd.Run
    err,        \* the errgroup's first error
    ctxDone     \* the caller's context is cancelled

pipeVars == <<pwClosed, prClosed>>
loadVars == <<copier, docker, got, loader>>
vars == <<solver, wrote, pipeVars, loadVars, err, ctxDone>>

ectxDone == ctxDone \/ err # "none"

\* errgroup.Go: the first error stays, and cancels ectx.
Record(e) == err' = IF err = "none" THEN e ELSE err

Init ==
    /\ solver = "building" /\ wrote = 0
    /\ pwClosed = FALSE /\ prClosed = FALSE
    /\ copier = "none" /\ docker = "none" /\ got = 0 /\ loader = "running"
    /\ err = "none" /\ ctxDone \in BOOLEAN

\* display.Attach fails: nothing has been started, both ends are closed.
AttachFails ==
    /\ solver = "building" /\ ~pwClosed /\ docker = "none" /\ err = "none"
    /\ solver' = "returned" /\ loader' = "returned" /\ copier' = "done" /\ docker' = "failed"
    /\ pwClosed' = TRUE /\ prClosed' = TRUE /\ err' = "attach"
    /\ UNCHANGED <<wrote, got, ctxDone>>

-----------------------------------------------------------------------------
(* Solve, and BuildKit's writer behind it.                                 *)

BeginWrite ==
    /\ solver = "building" /\ wrote < Chunks /\ ~pwClosed
    /\ solver' = "writing"
    /\ UNCHANGED <<wrote, pipeVars, loadVars, err, ctxDone>>

\* The copier takes the chunk.
WriteRead ==
    /\ solver = "writing" /\ copier = "reading" /\ ~prClosed
    /\ solver' = "building" /\ wrote' = wrote + 1
    /\ copier' = "holding"
    /\ UNCHANGED <<pipeVars, docker, got, loader, err, ctxDone>>

\* io.ErrClosedPipe: the writer gives up and BuildKit fails.
WriteFails ==
    /\ solver = "writing" /\ prClosed
    /\ solver' = "failed"
    /\ UNCHANGED <<wrote, pipeVars, loadVars, err, ctxDone>>

\* BuildKit closes the stream, whole or not, before Solve returns.
StreamEnds ==
    /\ solver = "building" /\ ~pwClosed
    /\ pwClosed' = TRUE
    /\ UNCHANGED <<solver, wrote, prClosed, loadVars, err, ctxDone>>

SolveEnds ==
    /\ solver = "building"
    /\ solver' \in (IF wrote = Chunks THEN {"ok"} ELSE {}) \cup {"failed"}
    /\ UNCHANGED <<wrote, pipeVars, loadVars, err, ctxDone>>

\* The deferred pw.Close: the reader sees the end of the file, also after a
\* failure.  The goroutine then returns its error.
SolveCloses ==
    /\ solver \in {"ok", "failed"} /\ ~pwClosed
    /\ pwClosed' = TRUE
    /\ UNCHANGED <<solver, wrote, prClosed, loadVars, err, ctxDone>>

\* The error of Solve is dropped.
SolveReturns_NoError ==
    /\ solver \in {"ok", "failed"} /\ pwClosed
    /\ solver' = "returned"
    /\ UNCHANGED <<wrote, pipeVars, loadVars, err, ctxDone>>

SolveReturns ==
    /\ solver \in {"ok", "failed"} /\ pwClosed
    /\ solver' = "returned"
    /\ IF solver = "failed" THEN Record("solve") ELSE UNCHANGED err
    /\ UNCHANGED <<wrote, pipeVars, loadVars, ctxDone>>

-----------------------------------------------------------------------------
(* docker load.                                                            *)

CopierWrites ==
    /\ copier = "holding"
    /\ IF docker = "running" THEN copier' = "reading" /\ got' = got + 1
       ELSE copier' = "done" /\ UNCHANGED got      \* EPIPE, which os/exec ignores
    /\ UNCHANGED <<solver, wrote, pipeVars, docker, loader, err, ctxDone>>

CopierEnds ==
    /\ copier = "reading" /\ pwClosed
    /\ copier' = "done"
    /\ UNCHANGED <<solver, wrote, pipeVars, docker, got, loader, err, ctxDone>>

\* cmd.Start: a process with its copier, or neither.
DockerStarts ==
    /\ docker = "none"
    /\ \/ docker' = "running" /\ copier' = "reading"
       \/ docker' = "failed" /\ copier' = "done"
    /\ UNCHANGED <<solver, wrote, pipeVars, got, loader, err, ctxDone>>

\* docker fails, or is content with what it has read: everything, or whatever
\* came before the end of the file.
DockerExits ==
    /\ docker = "running"
    /\ docker' \in {"failed"} \cup (IF got = Chunks \/ copier = "done" THEN {"ok"} ELSE {})
    /\ UNCHANGED <<solver, wrote, pipeVars, copier, got, loader, err, ctxDone>>

\* The process alone is waited for.
LoadCloses_ProcessOnly ==
    /\ loader = "running" /\ docker \in {"ok", "failed"}
    /\ loader' = "closing" /\ prClosed' = TRUE
    /\ UNCHANGED <<solver, wrote, pwClosed, copier, docker, got, err, ctxDone>>

\* The reader is not closed.
LoadCloses_NoClose ==
    /\ loader = "running" /\ docker \in {"ok", "failed"} /\ copier = "done"
    /\ loader' = "closing"
    /\ UNCHANGED <<solver, wrote, pipeVars, copier, docker, got, err, ctxDone>>

\* cmd.Run returns and the deferred pr.Close runs.
LoadCloses ==
    /\ loader = "running" /\ docker \in {"ok", "failed"} /\ copier = "done"
    /\ loader' = "closing" /\ prClosed' = TRUE
    /\ UNCHANGED <<solver, wrote, pwClosed, copier, docker, got, err, ctxDone>>

LoadReturns ==
    /\ loader = "closing"
    /\ loader' = "returned"
    /\ IF docker = "failed" THEN Record("load") ELSE UNCHANGED err
    /\ UNCHANGED <<solver, wrote, pipeVars, copier, docker, got, ctxDone>>

Cancel ==
    /\ ~ctxDone /\ ctxDone' = TRUE
    /\ UNCHANGED <<solver, wrote, pipeVars, loadVars, err>>

\* eg.Wait has returned.
Returned == solver = "returned" /\ loader = "returned"

Next ==
    \/ AttachFails
    \/ BeginWrite \/ WriteRead \/ WriteFails \/ StreamEnds
    \/ SolveEnds \/ SolveCloses \/ SolveReturns
    \/ DockerStarts \/ CopierWrites \/ CopierEnds \/ DockerExits \/ LoadCloses \/ LoadReturns
    \/ Cancel

\* The goroutines run.  BuildKit and docker owe an end only to one who has
\* cancelled them (the command's context kills the process), or, docker, to
\* one who has closed its input, and BuildKit to one who takes what it writes.
Fairness ==
    /\ WF_vars(WriteRead) /\ WF_vars(WriteFails)
    /\ WF_vars(SolveCloses) /\ WF_vars(SolveReturns)
    /\ WF_vars(DockerStarts) /\ WF_vars(CopierWrites) /\ WF_vars(CopierEnds)
    /\ WF_vars(LoadCloses) /\ WF_vars(LoadReturns)
    /\ WF_vars((ectxDone \/ copier = "done") /\ DockerExits)
    /\ WF_vars((ectxDone \/ wrote = Chunks \/ pwClosed) /\ SolveEnds)
    /\ WF_vars(BeginWrite)

Spec == Init /\ [][Next]_vars
FairSpec == Spec /\ Fairness

-----------------------------------------------------------------------------
\* A nil answer means that BuildKit handed over the whole tarball, that docker
\* read all of it and that it reported success: a truncated stream looks like
\* the end of the file to docker, but never like a success to the caller.
NilMeansLoaded ==
    Returned /\ err = "none" => wrote = Chunks /\ got = Chunks /\ docker = "ok"

\* When the task is over no process, no copier and no blocked writer is left
\* behind it, however it ended.
NothingLeft ==
    Returned => /\ docker \in {"ok", "failed"}
                /\ copier = "done"
                /\ pwClosed /\ prClosed

\* The task ends: docker may die with the pipe full, BuildKit may fail before it
\* has written anything, and the caller may cancel at any point of a Write.
ExportReturns == <>Returned
=============================================================================
