---------------------------- MODULE MCShareQueue ----------------------------
(***************************************************************************)
(* The backend modes that exist, for model checking ShareQueue.             *)
(***************************************************************************)
EXTENDS ShareQueue

\* CPU, Hexagon, Intel NPU, oneDNN host fallback, OpenCL --cpu-gen: A only.
HostMode == [witness |-> FALSE, defer |-> FALSE, handoffBt |-> FALSE,
             submits |-> TRUE, mock |-> FALSE]
\* CUDA --cpu-gen: both matrices.
HostBothMode == [HostMode EXCEPT !.handoffBt = TRUE]
\* GPU preparation without a witness: buffers written only for a share.
DeferMode == [HostMode EXCEPT !.defer = TRUE]
\* CUDA, OpenCL, oneDNN, wgpu with GPU preparation: device witness.
WitnessMode == [DeferMode EXCEPT !.witness = TRUE]
DryRunMode == [HostMode EXCEPT !.submits = FALSE]
MockMode == [HostBothMode EXCEPT !.submits = FALSE, !.mock = TRUE]

AllModes == {HostMode, HostBothMode, DeferMode, WitnessMode, DryRunMode, MockMode}

\* For liveness and refinement: matrices handed over, and device witnesses.
LiveModes == {HostBothMode, WitnessMode}

\* For the pool that stops reading.
OneHostMode == {HostBothMode}
=============================================================================
