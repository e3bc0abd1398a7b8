------------------------- MODULE MCInferenceServer -------------------------
(* An instance of InferenceServer for TLC. *)
EXTENDS InferenceServer

CONSTANTS frame, frames, junk

MCBodies == {frame, frames, junk}
MCShape == [k \in MCBodies |->
    CASE k = frame -> "single" [] k = frames -> "batch" [] k = junk -> "garbage"]
MCTypes == {"maxRisePct", "endChangePct"}
MCOutcome == [t \in MCTypes |-> t]
=============================================================================
