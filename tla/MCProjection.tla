---------------------------- MODULE MCProjection ----------------------------
(***************************************************************************)
(* Small instances of the engine and the database for TLC.                 *)
(***************************************************************************)
EXTENDS ProjectionProperties

CONSTANTS alice, bob

MCUsers == {alice, bob}

\* Users are interchangeable: the only CHOOSE picks the one account of a user.
Symmetry == Permutations(MCUsers)
=============================================================================
