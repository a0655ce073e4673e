------------------------------- MODULE MCFee -------------------------------
(***************************************************************************)
(* Fee with small numbers: a threshold of 12 or 16 units in place of 100*T, *)
(* so that debts on both sides of it and of zero are reached within a few   *)
(* scans; the delays of the code.                                           *)
(***************************************************************************)
EXTENDS Fee
=============================================================================
