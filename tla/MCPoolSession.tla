---------------------------- MODULE MCPoolSession ----------------------------
(***************************************************************************)
(* PoolSession with the constants of its configurations: three jobs let a   *)
(* second job overtake one still being handed over, two sessions let one    *)
(* follow another.                                                          *)
(***************************************************************************)
EXTENDS PoolSession
=============================================================================
