-------------------------------- MODULE MCParts --------------------------------
(***************************************************************************)
(* Parts that do not interact, each checked by itself in one run: the wire  *)
(* to the pool, the hash tree of signal A, the team of the Quantus CPU      *)
(* search, the scan of the tiles and the scan on the NPU.  part is the one  *)
(* that runs; the others keep one initial state.                            *)
(***************************************************************************)
EXTENDS PoolWire, MatrixTree, QpowCpuTeam, TileScan, NpuScan

VARIABLE part

MCSalts == {<<2, 2>>}   \* the largest digits, so that a stray carry shows

PartsInit ==
  /\ part \in {"wire", "tree", "team", "scan", "npu"}
  /\ WireInit /\ TreeInit /\ TeamInit /\ ScanInit /\ NpuInit
  /\ part # "tree" => chunks = CHOOSE n \in ChunkCounts : TRUE
  /\ part # "team" => hits = {} /\ extranonceLen = CHOOSE n \in Extranonces : TRUE
  /\ part # "scan" => backend = CHOOSE b \in ScanBackends : TRUE

PartsNext ==
  /\ UNCHANGED part
  /\ \/ part = "wire" /\ WireNext /\ UNCHANGED <<treeVars, teamVars, scanVars, npuVars>>
     \/ part = "tree" /\ TreeNext /\ UNCHANGED <<wireVars, teamVars, scanVars, npuVars>>
     \/ part = "team" /\ TeamNext /\ UNCHANGED <<wireVars, treeVars, scanVars, npuVars>>
     \/ part = "scan" /\ ScanNext /\ UNCHANGED <<wireVars, treeVars, teamVars, npuVars>>
     \/ part = "npu" /\ NpuNext /\ UNCHANGED <<wireVars, treeVars, teamVars, scanVars>>

PartsSpec ==
  PartsInit /\ [][PartsNext]_<<part, wireVars, treeVars, teamVars, scanVars, npuVars>>

\* The type invariants of the parts: every variable has its type.
PartsTypeOK == WireTypeOK /\ TreeTypeOK /\ TeamTypeOK /\ ScanTypeOK /\ NpuTypeOK

(***************************************************************************)
(* What an attempt over all tiles reports is so on every backend: its hit   *)
(* is one the device found in this attempt, and without one all tiles were  *)
(* looked at (cp_pearl_*_worker.cpp, cp_*_worker.cpp, mine_attempt).        *)
(***************************************************************************)
AttemptsReportRight == ScanReportIsRight /\ NpuReportIsRight
=============================================================================
