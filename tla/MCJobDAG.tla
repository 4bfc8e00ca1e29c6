------------------------------ MODULE MCJobDAG ------------------------------
(***************************************************************************)
(* Small instances of JobDAG.                                              *)
(***************************************************************************)
EXTENDS JobDAG, TLC

CONSTANTS a, b, c, d

\* Four jobs.  The tables the dependency code tells apart: independent jobs, a
\* diamond, a chain beside a free job, the same dependency named twice, and two
\* that buildDAG refuses.
MCGraphs4 == {
    a :> <<>> @@ b :> <<>> @@ c :> <<a, b>> @@ d :> <<>>,
    a :> <<>> @@ b :> <<a>> @@ c :> <<a>> @@ d :> <<b, c>>,
    a :> <<>> @@ b :> <<a>> @@ c :> <<b, a, b>> @@ d :> <<>>,
    a :> <<Unknown>> @@ b :> <<>> @@ c :> <<>> @@ d :> <<>>,
    a :> <<c>> @@ b :> <<a>> @@ c :> <<b>> @@ d :> <<>> }

\* Tables for the liveness runs: free jobs, a chain, a fork, a cycle.
MCGraphsLive == {
    a :> <<>> @@ b :> <<>> @@ c :> <<>>,
    a :> <<>> @@ b :> <<a>> @@ c :> <<b>>,
    a :> <<>> @@ b :> <<a>> @@ c :> <<a>>,
    a :> <<b>> @@ b :> <<a>> @@ c :> <<>> }

=============================================================================
