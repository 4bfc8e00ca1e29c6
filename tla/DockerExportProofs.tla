------------------------- MODULE DockerExportProofs -------------------------
(***************************************************************************)
(* Proofs about the docker load of one image: for a tarball of any length, *)
(* a nil answer means that all of it was loaded, and nothing stays behind. *)
(***************************************************************************)
EXTENDS DockerExport, TLAPS

-----------------------------------------------------------------------------
(* The invariant.                                                          *)

TypeInv ==
    /\ solver \in {"building", "writing", "ok", "failed", "returned"}
    /\ wrote \in Nat /\ got \in Nat
    /\ pwClosed \in BOOLEAN /\ prClosed \in BOOLEAN
    /\ copier \in {"none", "reading", "holding", "done"}
    /\ docker \in {"none", "running", "ok", "failed"}
    /\ loader \in {"running", "closing", "returned"}
    /\ err \in {"none", "solve", "load", "attach"}

\* Solve succeeds only behind the last chunk, and an error of it is kept.
SolverInv ==
    /\ wrote <= Chunks
    /\ solver = "writing" => wrote < Chunks
    /\ solver = "ok" => wrote = Chunks
    /\ solver = "returned" => pwClosed /\ (err = "none" => wrote = Chunks)

\* cmd.Run returns behind the process and its copier, and an error of it is kept.
LoaderInv ==
    /\ loader # "running" => docker \in {"ok", "failed"} /\ copier = "done" /\ prClosed
    /\ loader = "returned" /\ err = "none" => docker = "ok"

\* No chunk is lost between BuildKit and a process that goes on to succeed: the
\* copier drops the one it holds only when the process is gone, and a process
\* that was content with the chunks it had read had read them all.
ChunksInv ==
    /\ docker = "none" <=> copier = "none"
    /\ copier \in {"none", "reading"} => got = wrote
    /\ copier = "holding" => wrote = got + 1
    /\ copier = "done" /\ docker = "running" => got = wrote
    /\ docker = "ok" => got = wrote /\ (copier # "done" => wrote = Chunks)

Inv == TypeInv /\ SolverInv /\ LoaderInv /\ ChunksInv

-----------------------------------------------------------------------------
\* A task that has not begun satisfies the invariant.
LEMMA InitInv == Init => Inv
<1> SUFFICES ASSUME Init PROVE Inv
  OBVIOUS
<1> USE DEF Init
<1>1. TypeInv
  BY DEF TypeInv
<1>2. SolverInv /\ LoaderInv
  BY ChunksAssumption DEF SolverInv, LoaderInv
<1>3. ChunksInv
  BY DEF ChunksInv
<1> QED
  BY <1>1, <1>2, <1>3 DEF Inv

\* Every step of BuildKit, of the pipe, of docker and of the two goroutines
\* preserves the invariant.
LEMMA NextInv == Inv /\ [Next]_vars => Inv'
<1> USE ChunksAssumption DEF Inv, TypeInv, SolverInv, LoaderInv, ChunksInv, pipeVars, loadVars
<1> SUFFICES ASSUME Inv, [Next]_vars PROVE Inv'
  OBVIOUS
<1>1. CASE AttachFails
  BY <1>1 DEF AttachFails
<1>2. CASE BeginWrite
  BY <1>2 DEF BeginWrite
<1>3. CASE WriteRead
  BY <1>3 DEF WriteRead
<1>4. CASE WriteFails
  BY <1>4 DEF WriteFails
<1>5. CASE StreamEnds
  BY <1>5 DEF StreamEnds
<1>6. CASE SolveEnds
  BY <1>6 DEF SolveEnds
<1>7. CASE SolveCloses
  BY <1>7 DEF SolveCloses
<1>8. CASE SolveReturns
  BY <1>8 DEF SolveReturns, Record
<1>9. CASE DockerStarts
  BY <1>9 DEF DockerStarts
<1>10. CASE CopierWrites
  BY <1>10 DEF CopierWrites
<1>11. CASE CopierEnds
  BY <1>11 DEF CopierEnds
<1>12. CASE DockerExits
  BY <1>12 DEF DockerExits
<1>13. CASE LoadCloses
  BY <1>13 DEF LoadCloses
<1>14. CASE LoadReturns
  BY <1>14 DEF LoadReturns, Record
<1>15. CASE Cancel
  BY <1>15 DEF Cancel
<1>16. CASE UNCHANGED vars
  BY <1>16 DEF vars
<1> QED
  BY <1>1, <1>2, <1>3, <1>4, <1>5, <1>6, <1>7, <1>8, <1>9, <1>10, <1>11, <1>12,
     <1>13, <1>14, <1>15, <1>16 DEF Next

\* The invariant holds throughout.
LEMMA Invariance == Spec => []Inv
  BY InitInv, NextInv, PTL DEF Spec

-----------------------------------------------------------------------------
\* A nil answer of solveImageExportDocker means that the whole tarball was
\* handed over, read and reported loaded.
THEOREM LoadedWhenNil == Spec => []NilMeansLoaded
<1>1. Inv => NilMeansLoaded
  BY DEF Inv, TypeInv, SolverInv, LoaderInv, ChunksInv, NilMeansLoaded, Returned
<1> QED
  BY <1>1, Invariance, PTL

\* When solveImageExportDocker returns, the process, the copier and both ends of
\* the pipe are gone.
THEOREM NothingStaysBehind == Spec => []NothingLeft
<1>1. Inv => NothingLeft
  BY DEF Inv, SolverInv, LoaderInv, NothingLeft, Returned
<1> QED
  BY <1>1, Invariance, PTL

=============================================================================
