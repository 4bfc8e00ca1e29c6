----------------------------- MODULE MCPlanning -----------------------------
(***************************************************************************)
(* Pipelines of up to three jobs a, b, c: chains, forks, cycles and        *)
(* unknown names, with matrices on the pipeline, on any job, on both, too  *)
(* large or malformed, artifacts, caches, exports and publishes.  The names *)
(* of one input differ, as MergeJobs has made sure.                        *)
(***************************************************************************)
EXTENDS Planning, TLC

CONSTANTS none, noname

Dim(n, vs) == [name |-> n, values |-> vs]
OS == <<Dim("os", <<"linux", "mac">>)>>
Arch == <<Dim("arch", <<"x", "y">>)>>
One == <<Dim("arch", <<"x">>)>>
Both == OS \o Arch
Malformed == {<<>>, <<Dim("os", <<>>)>>, <<Dim("+", <<"x">>)>>, OS \o OS,
              <<Dim("os", <<"linux", "mac", "bsd">>), Dim("arch", <<"x", "y">>)>>}

Step(n, es, from, cs) == [name |-> n, exports |-> es, arts |-> from, caches |-> cs]

\* The first job delivers early and late, the others at most late.
JobA(name, m) ==
    [name |-> name, deps |-> <<>>, arts |-> <<>>, caches |-> {<<"mod">>}, matrix |-> m,
     image |-> FALSE, platform |-> <<>>, exports |-> {}, publish |-> TRUE,
     steps |-> <<Step("s1", {"out"}, <<>>, {}), Step("s2", {"bin"}, <<>>, {<<"pip">>})>>]

Later(name, ds, arts, m) ==
    [name |-> name, deps |-> ds, arts |-> arts, caches |-> {<<"mod">>}, matrix |-> m,
     image |-> TRUE, platform |-> <<>>, exports |-> {"doc"}, publish |-> FALSE,
     steps |-> <<Step("s1", {}, arts, {})>>]

a == Name("a")
b == Name("b")
c == Name("c")
a1 == [a EXCEPT !.items = [d \in {"os"} |-> "linux"]]
aPlain == [a EXCEPT !.rest = {"full"}]
b1 == [b EXCEPT !.items = [d \in {"arch"} |-> "x"]]

Matrices == {none, OS, Arch, One}

Text(t) == [var |-> FALSE, text |-> t]
Var(d) == [var |-> TRUE, text |-> d]

\* A name no system has, four parts where there may be three, and a variable
\* that no matrix has replaced.
MCBadPlatforms == {<<Text("mac")>>, <<Text("a/b/c/d")>>, <<Var("os")>>}

Pipeline(js, m) == [jobs |-> js, matrix |-> m, image |-> TRUE]

MCInputs ==
    \* a chain, a fork, a dependency named twice, artifacts over a matrix
    {Pipeline(<<Later(c, cd, <<>>, none), JobA(a, ma), Later(b, <<a>>, arts, mb)>>, mp) :
        cd \in {<<b>>, <<a>>, <<a, b, a>>, <<>>}, arts \in {<<>>, <<a>>},
        ma \in Matrices, mb \in Matrices, mp \in {none, OS}}
    \* cycles, self-dependencies, unknown jobs
    \cup {Pipeline(<<JobA(a, ma), Later(b, bd, <<>>, none), Later(c, <<b>>, <<>>, none)>>, mp) :
        bd \in {<<c>>, <<b>>, <<a, Name("z")>>}, ma \in {none, Arch}, mp \in {none, OS}}
    \* names that carry a bracket, names that meet
    \cup {Pipeline(<<JobA(x, ma), JobA(y, mb), Later(b, <<d>>, arts, none)>>, mp) :
        x \in {a, aPlain}, y \in {a1, c}, d \in {a, a1}, arts \in {<<>>, <<a>>},
        ma \in {none, OS}, mb \in {none, Arch}, mp \in {none, OS, Arch}}
    \* matrices that are refused, on the pipeline and on a job, or do not fit together
    \cup {Pipeline(<<JobA(a, none)>>, m) : m \in Malformed}
    \cup {Pipeline(<<JobA(a, m)>>, none) : m \in Malformed \cup {Both}}
    \* platforms as written and from a matrix of either kind, good and bad
    \cup {Pipeline(<<[JobA(a, ma) EXCEPT !.platform = p], Later(b, <<a>>, <<>>, none)>>, mp) :
        p \in {<<Text("linux")>>, <<Text("a/b/c/d")>>, <<Var("os")>>},
        ma \in {none, OS}, mp \in {none, OS, Arch}}
    \* a value no name may hold, an export of the root, no image, no steps, no jobs
    \cup {Pipeline(<<JobA(a, <<Dim("os", <<"a b">>)>>)>>, none),
          Pipeline(<<JobA(a, none), [Later(b, <<a>>, <<>>, none) EXCEPT !.exports = {"/"}]>>, none),
          Pipeline(<<[Later(b, <<>>, <<>>, none) EXCEPT !.exports = {"/."}]>>, none),
          Pipeline(<<[JobA(a, none) EXCEPT !.steps = <<>>]>>, none),
          Pipeline(<<[JobA(a, none) EXCEPT !.steps = @ \o @]>>, none),
          Pipeline(<<>>, none),
          [jobs |-> <<JobA(a, none)>>, matrix |-> none, image |-> FALSE]}

Target(j, s) == [job |-> j, step |-> s]

MCTargets ==
    {NoTarget, Target(noname, "s1"), Target(a, ""), Target(a, "s1"), Target(a, "s2"), Target(a, "s9"),
     Target(a1, ""), Target(a1, "s1"), Target(b, ""), Target(b, "s1"), Target(b1, ""), Target(c, "")}

=============================================================================
