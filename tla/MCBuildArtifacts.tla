--------------------------- MODULE MCBuildArtifacts ---------------------------
(* The instance of BuildArtifacts that TLC checks: processes that build    *)
(* the same VM, interchangeable (no property is about liveness).           *)
EXTENDS BuildArtifacts, TLC

ProcSymmetry == Permutations(Procs)
===============================================================================
