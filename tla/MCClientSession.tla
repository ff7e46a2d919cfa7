--------------------------- MODULE MCClientSession ---------------------------
(***************************************************************************)
(* Memberships for TLC: a user in two contexts, another in one of them.    *)
(***************************************************************************)
EXTENDS ClientSession

CONSTANTS u1, u2, k1, k2

MCSessions == {<<u1, k1>>, <<u1, k2>>, <<u2, k1>>}

MCFreezable == {<<u1, k1>>}
=============================================================================
