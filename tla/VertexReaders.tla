--------------------------- MODULE VertexReaders ---------------------------
(***************************************************************************)
(* What is made of the vertices in the status messages of a solve, by the  *)
(* TUI's model (progress/model.go), the plain display (progress/plain.go), *)
(* the cache collector (cache/stats.go) and the offline image check        *)
(* (imagestore/imagestore.go).  A message is one vertex; how messages      *)
(* travel and are lost is StatusStream's.                                  *)
(*                                                                         *)
(* Solves attach under a name, several exports of a job under the same     *)
(* one.  The TUI and the collector keep their state by name, the plain     *)
(* display and the image check by solve.  The tee hands a message to the   *)
(* collector first and to the display in a step of its own.                *)
(*                                                                         *)
(* BuildKit is external: a vertex may come with any of its fields set, as  *)
(* often and in whatever order.                                            *)
(***************************************************************************)
EXTENDS Naturals, FiniteSets, Sequences, SequencesExt

CONSTANTS
    Solves,
    Names,      \* the names in the display
    Digests,    \* the vertices
    NoDigest,   \* the empty digest
    Shapes,     \* what BuildKit may have set of a vertex
    Scenes      \* which solve attaches under which name, and of which vertices
                \* its build consists

\* Those of a vertex's fields that the readers look at: whether it has the two
\* times, is marked as cached, has an error text.
Fields == {"started", "completed", "cached", "error"}

ASSUME ReadersAssumption ==
    /\ Shapes \subseteq SUBSET Fields
    /\ Scenes \subseteq [name : [Solves -> Names], build : [Solves -> SUBSET Digests]]

VARIABLES
    name,       \* name[s]: what s is attached as
    build,      \* build[s]: the vertices of s
    inTee,      \* inTee[s]: the vertex the tee holds for the display, or <<>>
    closed,     \* the solves whose status channel is closed
    answer,     \* answer[s]: isImageCached, had s been its solve
    tui,        \* tui[n][d]: stepState.status, or "absent"
    tuiDone,    \* the names with jobState.done
    plain,      \* plain[s][d]: logVertex's seen
    stats,      \* stats[n]: Collector.stats, [digest, cached] each
    flags,      \* flags[s]: vertices of collectVertexCachedStates
    untimed     \* history, untimed[n]: vertices that ended in a message which
                \* the collector skips

readers == <<tui, tuiDone, plain, stats, flags>>
vars == <<name, build, inTee, closed, answer, readers, untimed>>

-----------------------------------------------------------------------------
\* The statuses that last.
Ended == {"done", "cached", "failed"}

\* For a display a vertex has ended with any of these, for the collector with
\* both times alone, and only if it has a digest.
Ends(v) == v \cap {"completed", "cached", "error"} # {}
Counts(d, v) == d # NoDigest /\ {"started", "completed"} \subseteq v

SolvesOf(n) == {s \in Solves : name[s] = n}

Init ==
    /\ \E scene \in Scenes : name = scene.name /\ build = scene.build
    /\ inTee = [s \in Solves |-> <<>>]
    /\ closed = {}
    /\ answer = [s \in Solves |-> "none"]
    /\ tui = [n \in Names |-> [d \in Digests |-> "absent"]]
    /\ tuiDone = {}
    /\ plain = [s \in Solves |-> [d \in Digests |-> "unseen"]]
    /\ stats = [n \in Names |-> <<>>]
    /\ flags = [s \in Solves |-> [d \in {} |-> FALSE]]
    /\ untimed = [n \in Names |-> {}]

-----------------------------------------------------------------------------
(* The readers, one vertex at a time.                                      *)

Counted(n) == {stats[n][k].digest : k \in DOMAIN stats[n]}

\* Every message that has both times is counted.
Observe_Repeats(n, d, v) ==
    IF Counts(d, v)
    THEN [stats EXCEPT ![n] = Append(@, [digest |-> d, cached |-> "cached" \in v])]
    ELSE stats

Observe(n, d, v) ==
    IF Counts(d, v) /\ d \notin Counted(n)
    THEN [stats EXCEPT ![n] = Append(@, [digest |-> d, cached |-> "cached" \in v])]
    ELSE stats

\* Cached sticks; a vertex that was never cached is recorded as such.
Collect(s, d, v) ==
    IF "cached" \in v \/ d \notin DOMAIN flags[s]
    THEN [flags EXCEPT ![s] =
            [x \in DOMAIN @ \cup {d} |-> IF x = d THEN "cached" \in v ELSE @[x]]]
    ELSE flags

\* What applyVertex makes of a vertex that is not settled.
Status(v, before) ==
    IF "error" \in v THEN "failed"
    ELSE IF "cached" \in v THEN "cached"
    ELSE IF "completed" \in v THEN "done"
    ELSE IF "started" \in v THEN "running"
    ELSE IF before = "absent" THEN "pending"
    ELSE before

ApplyVertex(n, d, v) ==
    IF tui[n][d] \in Ended THEN tui
    ELSE [tui EXCEPT ![n][d] = Status(v, @)]

\* What is logged of an ended vertex, once or (an error) each time, leaves it
\* done; a start is logged of a vertex not seen before.
LogVertex(s, d, v) ==
    IF Ends(v) THEN [plain EXCEPT ![s][d] = "done"]
    ELSE IF "started" \in v /\ plain[s][d] = "unseen" THEN [plain EXCEPT ![s][d] = "started"]
    ELSE plain

-----------------------------------------------------------------------------
\* BuildKit says v of d, the tee observes it.
Report(s, d, v) ==
    /\ s \notin closed /\ inTee[s] = <<>>
    /\ inTee' = [inTee EXCEPT ![s] = <<d, v>>]
    /\ stats' = Observe(name[s], d, v)
    /\ flags' = Collect(s, d, v)
    /\ untimed' = IF Ends(v) /\ ~Counts(d, v) THEN [untimed EXCEPT ![name[s]] = @ \cup {d}]
                  ELSE untimed
    /\ UNCHANGED <<name, build, closed, answer, tui, tuiDone, plain>>

\* The display takes what the tee holds.
Show(s) ==
    /\ inTee[s] # <<>>
    /\ LET d == inTee[s][1]  v == inTee[s][2] IN
       /\ tui' = ApplyVertex(name[s], d, v)
       /\ plain' = LogVertex(s, d, v)
    /\ inTee' = [inTee EXCEPT ![s] = <<>>]
    /\ UNCHANGED <<name, build, closed, answer, tuiDone, stats, flags, untimed>>

\* No vertex at all is no proof of anything.
ImageAnswer(s, result) ==
    CASE result = "error" -> "error"
      [] result = "denied" -> "missing"
      [] OTHER -> IF DOMAIN flags[s] # {} /\ \A d \in DOMAIN flags[s] : flags[s][d]
                  THEN "cached" ELSE "missing"

\* The solve returns and its channel is closed; the display's entry is done
\* with the first of the solves that share it.
Close(s, result) ==
    /\ s \notin closed /\ inTee[s] = <<>>
    /\ closed' = closed \cup {s}
    /\ tuiDone' = tuiDone \cup {name[s]}
    /\ answer' = [answer EXCEPT ![s] = ImageAnswer(s, result)]
    /\ UNCHANGED <<name, build, inTee, tui, plain, stats, flags, untimed>>

Next == \E s \in Solves :
    \/ \E d \in build[s], v \in Shapes : Report(s, d, v)
    \/ Show(s)
    \/ \E result \in {"ok", "denied", "error"} : Close(s, result)

Spec == Init /\ [][Next]_vars

-----------------------------------------------------------------------------
Settled(n) == {d \in Digests : tui[n][d] \in Ended}

CachedInTUI(n) == {d \in Digests : tui[n][d] = "cached"}
CachedInReport(n) == {stats[n][k].digest : k \in {i \in DOMAIN stats[n] : stats[n][i].cached}}

FailedInTUI(n) == {d \in Digests : tui[n][d] = "failed"}

\* However often vertices are repeated and however the exports that share a
\* name interleave, the readers give one account: of what is shown as ended,
\* the cache report lacks nothing but what some message ended without both
\* times or a digest; it has each vertex once; what the plain display has ended
\* the TUI has too; and when the solves are over all in the report is shown as
\* ended.  Where a solve has its name to itself the two displays agree on what
\* has ended; the TUI and the report on what was cached, those untimed vertices
\* apart, and those whose error hides it in the TUI; and the image check calls
\* an image cached only if there is something of it and all of that has ended.
OneAccount ==
    /\ \A n \in Names :
        /\ Settled(n) \ untimed[n] \subseteq Counted(n)
        /\ Cardinality(Counted(n)) = Len(stats[n])
        /\ \A s \in SolvesOf(n), d \in Digests :
                plain[s][d] = "done" => d \in Settled(n)
        /\ SolvesOf(n) \subseteq closed => Counted(n) \subseteq Settled(n)
    /\ \A s \in closed :
        SolvesOf(name[s]) = {s} =>
            /\ CachedInTUI(name[s]) \ untimed[name[s]] \subseteq CachedInReport(name[s])
            /\ CachedInReport(name[s]) \ untimed[name[s]]
                  \subseteq CachedInTUI(name[s]) \cup FailedInTUI(name[s])
            /\ {d \in Digests : plain[s][d] = "done"} = Settled(name[s])
            /\ answer[s] = "cached" =>
                  /\ Settled(name[s]) = {d \in Digests : tui[name[s]][d] # "absent"}
                  /\ Settled(name[s]) # {}

=============================================================================
