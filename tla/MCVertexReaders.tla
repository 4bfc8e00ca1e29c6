-------------------------- MODULE MCVertexReaders --------------------------
(***************************************************************************)
(* Two exports of one job under one name with a vertex in common, a job    *)
(* beside an export that has the same vertex, a job of two vertices and a  *)
(* job with a vertex that has no digest.                                   *)
(***************************************************************************)
EXTENDS VertexReaders

MCScenes ==
    {[name |-> <<"export", "export">>, build |-> <<{"d1", "d2"}, {"d1"}>>],
     [name |-> <<"job", "export">>, build |-> <<{"d1"}, {"d1"}>>],
     [name |-> <<"job", "export">>, build |-> <<{"d1", "d2"}, {}>>],
     [name |-> <<"job", "export">>, build |-> <<{"d1", ""}, {}>>]}

\* Each way to end with both times and without, and a start.
MCShapes ==
    {{}, {"started"}, {"started", "completed"}, {"started", "completed", "cached"},
     {"started", "completed", "error"}, {"completed"}, {"cached"}, {"error"}, {"cached", "error"}}

=============================================================================
