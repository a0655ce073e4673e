---------------------------- MODULE MCQpowSearch ----------------------------
(***************************************************************************)
(* QpowSearch with lines of three counters and launches of one or four, so  *)
(* that some are cut off at the end of a line; two devices; two jobs, so    *)
(* that launches of the first still run under the second.                   *)
(***************************************************************************)
EXTENDS QpowSearch
=============================================================================
