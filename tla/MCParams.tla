------------------------------ MODULE MCParams ------------------------------
(* The inputs TLC gives the functions. *)
EXTENDS Params

MCDevNames == BoundedSeq({"h", ":", ",", "[", "]"}, 6) \cup {<<"nfs://", "h", ":">>}

MCOptions ==
  {[name |-> n, val |-> 0] : n \in {"tcp", "notcp", "udp", "noudp", "bad", "unsupported",
                                    "other", "mounthost", "acregmin"}}
    \cup {[name |-> n, val |-> 2] : n \in {"mountvers", "nfsvers", "acregmin", "acregmax", "acdirmax"}}
    \cup {[name |-> n, val |-> 3] : n \in {"mountvers", "nfsvers", "actimeo", "acdirmin", "acregmin", "mounthost"}}

MCBytes == {0, 1, 511, 512, 1023, 1024, 1025, 4095, 4096, 8799, 32768, 65535, 65536, 100000,
            1048575, 1048576, 1048577, 2147483647}

\* space, tab, new line, backslash, the digits of their escapes, 8, a and #
MCChars == {32, 9, 10, 92, 48, 49, 51, 52, 56, 97, 35}
MCDirs == {<<>>, <<32>>, <<35>>}

MCNames == {"", ".", "..", "...", "a", "b"}
=============================================================================
