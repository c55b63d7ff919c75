---------------------------- MODULE MCNfs4Client ----------------------------
(* One thread that makes every call beside one that closes files, and, for     *)
(* liveness, the calls that hold the mutex and the mknod that is forgotten.    *)
EXTENDS Nfs4Client

MCThread == {"t1", "t2"}
MCCallsOf == [t1 |-> DOMAIN Calls, t2 |-> {"nfs_close"}]
MCLiveCallsOf == [t1 |-> {"nfs_open2", "nfs_truncate", "nfs_mknod"},
                  t2 |-> {"nfs_close"}]
==============================================================================
