-------------------------------- MODULE MCWireRun --------------------------------
(* WireRun for TLC: a set of connection ids made of the two it names. *)
EXTENDS WireRun

BothIds == {INITIATOR_ID, RESPONDER_ID}
=============================================================================
