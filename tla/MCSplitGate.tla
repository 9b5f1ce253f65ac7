----------------------------- MODULE MCSplitGate -----------------------------
(* Instances of the split gate queue; the .cfg files give the constants.   *)
EXTENDS SplitGate
=============================================================================
