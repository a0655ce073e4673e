------------------------- MODULE MCDeviceCommitment --------------------------
(***************************************************************************)
(* DeviceCommitment with two groups.  Four rows are enough for a full hash, *)
(* a row that is not hashed, and later ones in either group; three jobs for *)
(* a key that comes, goes and comes again.                                  *)
(***************************************************************************)
EXTENDS DeviceCommitment, TLC

CONSTANTS g1, g2

AllBackends == {"cuda", "opencl", "wgpu", "host"}
AllButCuda == AllBackends \ {"cuda"}
OnlyCuda == {"cuda"}
TwoGroups == {g1, g2}
GroupSymmetry == Permutations(TwoGroups)
=============================================================================
