---------------------------- MODULE MCHexagonScan ----------------------------
(***************************************************************************)
(* HexagonScan in both modes: four launches use each record slot twice, two *)
(* calls of one panel each leave a boundary between calls in the middle of  *)
(* an attempt, and two attempts let the words of one be seen by the next.   *)
(***************************************************************************)
EXTENDS HexagonScan

BothModes == {"records", "fused"}
=============================================================================
