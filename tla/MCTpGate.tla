------------------------------ MODULE MCTpGate ------------------------------
(* Instances of the gate transport: what the hello may agree.              *)
EXTENDS TpGate

Agreed(chunks, aux, barrier, ready) ==
  [chunks |-> chunks, aux |-> aux, barrier |-> barrier, recvReady |-> ready]

(* Vectors of two messages, a paired auxiliary slot and the ready barrier; *)
(* or vectors of one message, no paired exchange (one in each token would  *)
(* order the slots by itself) and batches without a header.                *)
SafetyModes == {Agreed(2, {1}, TRUE, TRUE), Agreed(1, {}, FALSE, FALSE)}
DivergeModes == {Agreed(1, {1}, TRUE, TRUE)}
=============================================================================
