----------------------------- MODULE MCObserver -----------------------------
(***************************************************************************)
(* Small instances of the index price observer for TLC.                    *)
(***************************************************************************)
EXTENDS ObserverProperties
=============================================================================
