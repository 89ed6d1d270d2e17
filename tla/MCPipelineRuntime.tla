------------------------- MODULE MCPipelineRuntime -------------------------
(* Model-checking instances of PipelineRuntime: two cameras a and b.        *)
EXTENDS PipelineRuntime, TLC

CONSTANTS a, b

MCCameras == {a, b}
NoCameras == {}

\* One tick apart, within the tolerance, and half a period apart.
NearPhase == (a :> 0) @@ (b :> 1)
FarPhase == (a :> 0) @@ (b :> 2)
=============================================================================
