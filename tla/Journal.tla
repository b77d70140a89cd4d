------------------------------ MODULE Journal ------------------------------
(***************************************************************************)
(* What the README calls the source of truth: a log of inputs, and a state *)
(* that reflects it up to some entry.  The state only ever goes forward,   *)
(* whoever computes it and however often that dies.                        *)
(***************************************************************************)
EXTENDS Naturals, Sequences

CONSTANT Inputs

VARIABLES
  log,
  applied   \* the last entry that the state reflects

Init == log = <<>> /\ applied = 0

Record ==
  /\ \E input \in Inputs : log' = Append(log, input)
  /\ UNCHANGED applied

\* One entry while the process lives, all that are left when it recovers.
Advance ==
  /\ applied' \in applied + 1 .. Len(log)
  /\ UNCHANGED log

Spec == Init /\ [][Record \/ Advance]_<<log, applied>>
=============================================================================
