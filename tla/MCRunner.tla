------------------------------ MODULE MCRunner ------------------------------
(***************************************************************************)
(* Small instances of Runner: a chain of two jobs beside a free one, up to *)
(* two exports, and the publish lists that runPublishes tells apart.       *)
(***************************************************************************)
EXTENDS Runner, TLC

CONSTANTS a, b, c, app, tool, amd, arm

MCGraphs == {a :> <<>> @@ b :> <<a>> @@ c :> <<>>}

Pub(j, i, push, platform) ==
    [job |-> j, image |-> i, push |-> push, insecure |-> FALSE, platform |-> platform]

Input(specs, flags) == [specs |-> specs, flags |-> flags]

MCPublishInputs == {
    \* nothing to publish
    Input(<<>>, {AllJobs}),
    \* pushed and loaded, beside a plain image
    Input(<<Pub(a, app, TRUE, amd), Pub(b, tool, FALSE, amd)>>, {a}),
    \* a manifest list beside a docker load
    Input(<<Pub(a, app, TRUE, amd), Pub(c, tool, FALSE, amd), Pub(b, app, TRUE, arm)>>, {c}),
    \* two variants for one platform
    Input(<<Pub(a, app, TRUE, amd), Pub(b, app, TRUE, amd)>>, {}),
    \* variants that disagree, by their settings or by the flag
    Input(<<Pub(a, app, TRUE, amd), Pub(b, app, FALSE, arm)>>, {}),
    Input(<<Pub(a, app, TRUE, amd), Pub(b, app, TRUE, arm)>>, {a}),
    \* a multi-platform image to be loaded
    Input(<<Pub(a, app, FALSE, amd), Pub(b, app, FALSE, arm)>>, {AllJobs}) }

=============================================================================
