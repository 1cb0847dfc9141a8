--------------------------- MODULE MCPackageTests ---------------------------
(* Control files of up to three stanzas with a field that is empty or      *)
(* invalid, and one stanza with fields of up to two groups of up to three  *)
(* alternatives.                                                           *)
EXTENDS PackageTests

A == <<"a", 0>>
B == <<"b", 0>>
S == <<"s/", 0>>

Plain == [field |-> "tests", names |-> <<A>>, labels |-> <<>>, bare |-> FALSE,
          restrictions |-> {}, archs |-> <<>>, unknown |-> FALSE,
          dependsValid |-> TRUE]
Command == [Plain EXCEPT !.field = "command", !.names = <<>>]

Pos(a) == [neg |-> FALSE, arch |-> a]
Neg(a) == [neg |-> TRUE, arch |-> a]
ArchLists == {<<>>, <<Pos("any")>>, <<Pos("all")>>, <<Pos("amd64")>>, <<Neg("amd64")>>,
              <<Neg("arm64"), Pos("amd64")>>, <<Pos("amd64"), Pos("arm64")>>,
              <<Neg("any")>>, <<Neg("amd64"), Neg("arm64")>>}

Good ==
    {[Plain EXCEPT !.names = n] : n \in {<<A>>, <<A, B>>, <<S, B>>}}
    \cup {[Plain EXCEPT !.restrictions = r] : r \in {{"needs-root"}, {"isolation-container"}, {"new"}}}
    \cup {[Plain EXCEPT !.archs = a] : a \in ArchLists}
    \cup {[Plain EXCEPT !.unknown = TRUE], Command,
          [Command EXCEPT !.restrictions = {"needs-root"}],
          [Command EXCEPT !.labels = <<B>>],
          [Command EXCEPT !.labels = <<CommandName(1)>>]}
Bad ==
    {[Plain EXCEPT !.names = <<>>], [Plain EXCEPT !.dependsValid = FALSE],
     [Plain EXCEPT !.field = "both"], [Command EXCEPT !.field = "none"],
     [Plain EXCEPT !.labels = <<B>>], [Command EXCEPT !.labels = <<A, B>>],
     [Command EXCEPT !.bare = TRUE]}

Short == {<<>>} \cup {<<s>> : s \in Good \cup Bad}
Later == {Plain, Command, [Command EXCEPT !.labels = <<CommandName(1)>>],
          [Plain EXCEPT !.dependsValid = FALSE]}
MCControls ==
    Short \cup {<<s, t>> : s \in Good, t \in Later}
    \cup {<<Command, s, Command>> : s \in Good}

MCTestbeds == [caps : {{}, {"root-on-testbed"}, {"isolation-machine"}}, arch : {"amd64"}]
MCOptions == [only : {{}, {A}, {CommandName(1)}}, skip : {{}, {A}},
              ignore : {{}, {"needs-root", "new"}}]
MCSlashed == {S}
MCName == {A, B, S} \cup {CommandName(i) : i \in 1..3}

Dep(p, h, o, d) == [pkg |-> p, here |-> h, ok |-> o, parses |-> d]

Lib       == Dep("lib", TRUE, TRUE, TRUE)
Other     == Dep("lib", FALSE, TRUE, TRUE)
Tool      == Dep("tool", TRUE, TRUE, TRUE)
Libc      == Dep("libc", TRUE, TRUE, TRUE)
Typo      == Dep("libc", TRUE, FALSE, FALSE)
NoVersion == Dep("lib", TRUE, TRUE, FALSE)     \* lib (>= )
Profile   == Dep("libc", TRUE, FALSE, TRUE)    \* libc <!nocheck>

MCPkgs == {"lib", "tool", "libc", "@", "@builddeps@", "@recommends@", "make",
           "build-essential", "docs"}

MCWord(w) == Dep(w, TRUE, FALSE, FALSE)

MCSources == {{[pkg |-> "lib", here |-> h], [pkg |-> "tool", here |-> TRUE]} : h \in BOOLEAN}
             \cup {{[pkg |-> "lib", here |-> TRUE]}}
Alternative == {Lib, Other, Tool, Libc, Typo, NoVersion, Profile, MCWord("@")}
Group == {<<MCWord(w)>> : w \in {"@", "@builddeps@", "@recommends@"}} \cup {<<a>> : a \in Alternative}
         \cup {<<a, b>> : a, b \in Alternative} \cup {<<Lib, Tool, Libc>>, <<Tool, Libc, Typo>>}
MCFields == {<<>>} \cup {<<g>> : g \in Group} \cup {<<<<MCWord("@")>>, g>> : g \in Group}
            \cup {<<g, <<Tool>>>> : g \in Group}

MCSubjects ==
    [control : MCControls, source : {{[pkg |-> "lib", here |-> TRUE]}}, field : {<<>>, <<<<Typo>>>>}]
    \cup [control : {<<Plain>>, <<[Plain EXCEPT !.dependsValid = FALSE]>>}, source : MCSources,
         field : MCFields]
=============================================================================
