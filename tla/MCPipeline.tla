---------------------------- MODULE MCPipeline ----------------------------
(* The pipeline for TLC: images that cannot be decoded, that give no piece  *)
(* (an unknown geometry shape) and that give two pieces.                    *)
EXTENDS PipelineQueue, TLC

MCCuts == {Undecodable, 0, 2}
MCLiveCuts == {Undecodable, 1}
MCCalls == Calls

\* The calls an attempt may lose with the outcome still recorded: not those
\* that record it, no stop, and no claim committed behind the worker's back.
MCAttemptCalls == Calls \ {"RetryOrFailTask", "CompleteTask", "SetPuzzleStatus", "Stop"}
MCLateCalls == MCAttemptCalls \ {"ClaimTask"}

Symmetry == Permutations(Worker)
===========================================================================
