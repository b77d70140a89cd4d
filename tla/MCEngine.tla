------------------------------ MODULE MCEngine ------------------------------
(***************************************************************************)
(* Small instances of the engine for TLC.                                  *)
(***************************************************************************)
EXTENDS EngineProperties

CONSTANTS alice, bob

MCUsers == {alice, bob}

\* Users are interchangeable in every definition: only Sums CHOOSEs one, and a
\* sum is the same in every order.
Symmetry == Permutations(MCUsers)
=============================================================================
