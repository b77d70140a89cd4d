------------------------------- MODULE MCApi -------------------------------
(***************************************************************************)
(* Small instances of the API's engine client for TLC.                     *)
(***************************************************************************)
EXTENDS ApiProperties
=============================================================================
