---------------------------- MODULE MCRetention ----------------------------
(***************************************************************************)
(* Instances of Retention for TLC: one run after the other, and what the   *)
(* policy promises of them.                                                *)
(***************************************************************************)
EXTENDS Retention

CONSTANTS timer

\* January to March.
ThreeMonths == <<0, 31, 59>>

=============================================================================
