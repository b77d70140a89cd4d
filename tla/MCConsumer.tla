----------------------------- MODULE MCConsumer -----------------------------
(***************************************************************************)
(* Small instances of the consumer loop for TLC.                           *)
(***************************************************************************)
EXTENDS ConsumerProperties

CONSTANTS c1, c2

MCConsumers == {c1, c2}
=============================================================================
