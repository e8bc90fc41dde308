------------------------------ MODULE MCAMQueue ------------------------------
(* AMQueue for TLC: three senders, of which two may share a message_t.     *)
EXTENDS AMQueue
=============================================================================
