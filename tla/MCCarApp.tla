------------------------------ MODULE MCCarApp -------------------------------
(* Three angles, two tags, two resends, a counter that wraps soon.         *)
EXTENDS CarApp
=============================================================================
