---------------------------- MODULE MCAptInstall ----------------------------
(* Two packages, three releases, one of them with a dot in its name;       *)
(* --pin-packages twice for one release.                                   *)
EXTENDS AptInstall

CONSTANTS a, b, stable, proposed, dotted

MCPkg == {a, b}
MCRelease == {stable, proposed, dotted}
MCRequests == {<<>>, <<stable>>, <<stable, proposed>>, <<stable, stable>>, <<dotted, stable>>}
MCDotted == {dotted}
=============================================================================
