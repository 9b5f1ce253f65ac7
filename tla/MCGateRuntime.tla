--------------------------- MODULE MCGateRuntime ---------------------------
(* Instances of the gate runtime; the .cfg files give the constants: two   *)
(* ring slots, and gates enough that the ring wraps.                       *)
EXTENDS GateRuntime
============================================================================
