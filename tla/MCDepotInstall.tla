--------------------------- MODULE MCDepotInstall ---------------------------
(***************************************************************************)
(* Small instances of DepotInstall: three versions m1, m2, m3 of a depot   *)
(* and one manifest n1 of a second depot.                                  *)
(***************************************************************************)
EXTENDS DepotInstall, TLC

CONSTANTS d1, d2, m1, m2, m3, n1, n2, x, y, z, b1, b2

Plain(c) == [dir |-> FALSE, exec |-> FALSE, data |-> c, hashed |-> TRUE]

Program(c) == [dir |-> FALSE, exec |-> TRUE, data |-> c, hashed |-> TRUE]

Folder == [dir |-> TRUE, exec |-> FALSE, data |-> x, hashed |-> FALSE]

Unhashed(c) == [dir |-> FALSE, exec |-> FALSE, data |-> c, hashed |-> FALSE]

\* file 1 changes every time, 2 stays at first, 3 goes, 4 is a directory
ThreeVersions ==
    m1 :> (1 :> Program(x) @@ 2 :> Plain(y) @@ 3 :> Plain(x))
    @@ m2 :> (1 :> Program(y) @@ 2 :> Plain(y) @@ 4 :> Folder)
    @@ m3 :> (1 :> Program(z) @@ 2 :> Unhashed(z))

Ask(order, want, b, fs, v) ==
    [order |-> order, want |-> want, build |-> b, filter |-> fs, verify |-> v]

\* one depot, any version
OneDepot(filters, verifies, builds) ==
    {Ask(<<d1>>, d1 :> m, b, fs, v) :
        m \in Manifests, b \in builds, fs \in filters, v \in verifies}

\* with or without --verify
AnyVersion == OneDepot({Files}, BOOLEAN, {b1})

\* also one with a filter, and one of a second build
AnyFilter ==
    OneDepot({Files}, {FALSE}, {b1})
    \cup {Ask(<<d1>>, d1 :> m3, b1, {1}, FALSE), Ask(<<d1>>, d1 :> m2, b2, Files, FALSE)}

\* two depots of one app with files of their own
Apart ==
    m1 :> (1 :> Program(x) @@ 2 :> Plain(y))
    @@ m2 :> (1 :> Program(y))
    @@ n1 :> (3 :> Plain(x))
    @@ n2 :> (3 :> Plain(x) @@ 4 :> Plain(z))

AnyPair ==
    {Ask(o, d1 :> w[1] @@ d2 :> w[2], b1, Files, v) :
        o \in {<<d1, d2>>, <<d2, d1>>}, w \in {m1, m2} \X {n1, n2}, v \in BOOLEAN}

\* the same request again and again
SamePair == {Ask(<<d1, d2>>, d1 :> m1 @@ d2 :> n2, b1, Files, v) : v \in BOOLEAN}
=============================================================================
