------------------------------- MODULE MCMount -------------------------------
(* Mount has no constants; this module is the one TLC runs. *)
EXTENDS Mount
=============================================================================
