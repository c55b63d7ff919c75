---------------------------- MODULE MCDirStream ----------------------------
(* Two readers; sizes for which an entry can fill the buffer exactly. *)
EXTENDS DirStream

MCName == {"a", "b", "c"}
MCFirst == <<"a", "b">>
MCSize == [n \in MCName |-> IF n = "b" THEN 2 ELSE 1]
=============================================================================
