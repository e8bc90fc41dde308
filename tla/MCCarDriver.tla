----------------------------- MODULE MCCarDriver -----------------------------
(* One radio beside the driver, two tags, one servo value.                 *)
EXTENDS CarDriver
=============================================================================
