----------------------------- MODULE MCRpcClient -----------------------------
(* Constants for model checking RpcClient. *)
EXTENDS RpcClient

CONSTANTS t1, t2, c1, c2, c3

MCThread == {t1, t2}
MCClient == {c1, c2, c3}

\* The third address, which the client of a slot needs to move while the other
\* slot keeps its own, is left to the runs with -s; and so are the procedures
\* of several calls, but for those of one of two workers.
MCBound == single \/ (c3 \notin live' /\ part'[t2] = "only")
=============================================================================
