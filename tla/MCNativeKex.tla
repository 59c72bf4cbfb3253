----------------------------- MODULE MCNativeKex -----------------------------
(* Instances of NativeKex: which versions of the plugin talk to each other. *)
EXTENDS NativeKex

Builds(a, b) == [e \in {Alice, Bob} |-> IF e = Alice THEN a ELSE b]

\* two release builds, two debug builds, a debug build and an older version
Same == {Builds("rsa", "rsa"), Builds("newpg", "newpg"), Builds("newpg", "old")}
Old == {Builds("newpg", "old")}
Mixed == {Builds("newpg", "rsa")}
Newpg == {Builds("newpg", "newpg")}
=============================================================================
