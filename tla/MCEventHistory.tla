--------------------------- MODULE MCEventHistory ---------------------------
(* Instances of EventHistory for TLC: one collector takes every event, the *)
(* other one all but the second.                                           *)
EXTENDS EventHistory, TLC

CONSTANTS a, b

AllAndMost == a :> Keys @@ b :> Keys \ {2}
=============================================================================
