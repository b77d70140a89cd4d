----------------------------- MODULE MCRuntime -----------------------------
(***************************************************************************)
(* Small instances of the engine process for TLC.                          *)
(***************************************************************************)
EXTENDS RuntimeProperties
=============================================================================
