----------------------------- MODULE MCIncludes -----------------------------
(***************************************************************************)
(* Every choice of contents for a root and four files from short lists:   *)
(* diamonds, cycles through any of them, nested and repeated aliases,      *)
(* parameters, conflicts and broken files.                                 *)
(***************************************************************************)
EXTENDS Includes, TLC

CONSTANTS r, f, g, h, k, none, v1, v2

Job(n, ds) == [kind |-> "job", job |-> [name |-> n, deps |-> ds, val |-> "${param}"]]
Inc(s, as, skip, given) ==
    [kind |-> "include", source |-> s, as |-> as, skip |-> skip, given |-> given]
Bad == [kind |-> "bad"]

Pipeline(n, ns) == [kind |-> "pipeline", name |-> n, param |-> "none", nodes |-> ns]
Fragment(n, p, ns) == [kind |-> "fragment", name |-> n, param |-> p, nodes |-> ns]

RootFiles ==
    {Pipeline("R", ns) : ns \in {
        <<Inc(f, "", FALSE, none), Inc(g, "", FALSE, none), Job("end", {"F", "G"})>>,
        <<Inc(f, "", FALSE, none), Inc(g, "", TRUE, none), Job("end", {"G"})>>,
        <<Inc(f, "one", FALSE, v1), Inc(g, "", TRUE, none), Inc(f, "two", TRUE, v2)>>,
        <<Job("x", {}), Inc(g, "G", TRUE, none), Inc(f, "F", TRUE, none), Job("end", {"F", "y"})>>,
        <<Inc(f, "end", FALSE, none), Job("end", {})>>,
        <<Inc(f, "x", FALSE, none), Inc(r, "", TRUE, none)>> }}

FFiles ==
    {Fragment("F", p, ns) : p \in {"none", "default", Required}, ns \in {
        <<Job("x", {})>>,
        <<Job("y", {"x"}), Job("x", {})>>,
        <<Job("x", {}), Inc(h, "", FALSE, none), Job("b", {"H", "x"})>>,
        <<Inc(g, "", FALSE, none)>> }}

GFiles ==
    {Pipeline("G", ns) : ns \in {
        <<Inc(f, "GF", FALSE, none), Job("z", {"GF"})>>,
        <<Inc(f, "GF", TRUE, v2), Inc(h, "GH", TRUE, none), Job("z", {"x"})>>,
        <<Job("z", {}), Inc(h, "", FALSE, none), Bad>> }}
    \cup {[kind |-> "broken", name |-> "G", param |-> "none", nodes |-> <<>>]}

HFiles ==
    {Pipeline("H", ns) : ns \in {
        <<Job("p", {}), Job("q", {"p"})>>,
        <<Inc(g, "", FALSE, none)>>,
        <<Inc("lost", "", FALSE, none)>>,
        <<Inc(k, "", FALSE, none), Job("p", {"K"})>> }}

KFile == Pipeline("K", <<Job("k", {})>>)

MCWorlds ==
    {r :> a @@ f :> b @@ g :> c @@ h :> d @@ k :> KFile :
        a \in RootFiles, b \in FFiles, c \in GFiles, d \in HFiles}

=============================================================================
