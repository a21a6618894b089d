------------------------- MODULE MCWorkloadGenerator -------------------------
(***************************************************************************)
(* A slow and a fast phase.  One unit of time is half a second: the sleep  *)
(* is capped at one unit, and two units behind is too far.                 *)
(***************************************************************************)
EXTENDS WorkloadGenerator

MCPhases == {"nominal", "surge"}
MCPeriod == [p \in MCPhases |-> IF p = "nominal" THEN 3 ELSE 1]
=============================================================================
