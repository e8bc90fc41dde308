----------------------------- MODULE MCRelayNode -----------------------------
(* One relay that hears every possible frame at every moment.              *)
EXTENDS RelayNode
=============================================================================
