--------------------------- MODULE MCControlPlane ---------------------------
(***************************************************************************)
(* An instance of ControlPlane for TLC: a script and a dashboard; three    *)
(* folders, one inside another; paths that go down, up and out; pairs of   *)
(* tokens.                                                                 *)
(***************************************************************************)
EXTENDS ControlPlane

CONSTANTS own, other, script, viewer

MCTracks == 1..MaxCalls

Pop == <<"pop">>
Old == <<"pop", "old">>

MCFolders == {<<>>, Pop, Old, <<"news">>}

MCFiles == {<<"pop", "p">>, <<"pop", "old", "o">>, <<"news", "n">>}

(* The root; pop/old/o by a detour; the folder beside; out of the root.    *)
MCLocations ==
    {[absolute |-> FALSE, path |-> <<>>],
     [absolute |-> TRUE,  path |-> <<Up, "pop", "old", "o">>],
     [absolute |-> FALSE, path |-> <<"pop", Up, "news">>],
     [absolute |-> FALSE, path |-> <<"pop", Up, Up, "news", "n">>]}

MCViewerOps == {"GetStatus", "NowPlaying", "PublicNowPlaying",
                "RegisterStation", "UnregisterStation", "ClearQueue"}

Owner   == [valid |-> TRUE, slugs |-> {own, other}, dirs |-> {}, readOnly |-> FALSE]
Scoped  == [Owner EXCEPT !.slugs = {own}, !.dirs = {Old}]
Looker  == [Owner EXCEPT !.dirs = {<<Star, "old">>, <<"news">>}, !.readOnly = TRUE]
Other   == [Owner EXCEPT !.slugs = {other}, !.dirs = {<<Star>>}]
Expired == [Owner EXCEPT !.valid = FALSE]

MCTokens == {[c \in {script, viewer} |-> IF c = script THEN pair[1] ELSE pair[2]] :
               pair \in {<<Scoped, Owner>>, <<Owner, Looker>>, <<Looker, Other>>,
                         <<Other, Expired>>}}
=============================================================================
