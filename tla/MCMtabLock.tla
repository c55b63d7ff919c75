----------------------------- MODULE MCMtabLock -----------------------------
(* Constants for model checking MtabLock. *)
EXTENDS MtabLock

CONSTANTS p1, p2, p3, d1, d2

MCTwo == {p1, p2}
MCThree == {p1, p2, p3}
MCDir == {d1, d2}
MCOneDir == {d1}
MCKind == {"add", "remount", "del"}
=============================================================================
