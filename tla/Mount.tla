-------------------------------- MODULE Mount --------------------------------
(***************************************************************************)
(* The life of the daemon: main (fuse/hsfs_main.c) with hsfs_do_mount,     *)
(* hsi_nfs3_mount, hsi_fill_super and hsfs_do_unmount                      *)
(* (nfs3/hsi_nfs3_mount.c).  The mount server, the RPC library and libfuse *)
(* are external: any of their calls may fail.                              *)
(***************************************************************************)
EXTENDS Integers

VARIABLES
  pc,
  fg,        \* hsfs_opts->fg: -f was given
  expired,   \* time(NULL) >= timeout
  round,     \* parity of the iterations: a failed one is a step too
  ret,       \* ret of hsfs_do_mount and err of main: 0 or not
  granted,   \* mntres.fhs_status is 0
  fh,        \* the copy of the root handle
  clntp, acl_clntp,
  root,      \* super->root is set
  session,   \* the fuse session
  served,    \* external: the server lists this client as mounted
  unanswered, \* external: an UMNT was not answered
  crash      \* why the daemon stopped without returning from main

vars == <<pc, fg, expired, round, ret, granted, fh, clntp, acl_clntp, root, session,
          served, unanswered, crash>>
supers == <<clntp, acl_clntp, root>>

TypeOK ==
  /\ pc \in {"parse", "attempt", "nfs_client", "acl_client", "root", "umnt_fail", "returned",
             "session", "signals", "fuse_mount", "loop", "unmount", "exit", "crashed"}
  /\ fg \in BOOLEAN /\ expired \in BOOLEAN /\ round \in {0, 1}
  /\ ret \in {0, 1} /\ granted \in BOOLEAN
  /\ fh \in {"none", "held", "freed"}
  /\ clntp \in {"none", "live", "destroyed"} /\ acl_clntp \in {"none", "live", "destroyed"}
  /\ root \in BOOLEAN /\ session \in {"none", "new", "mounted", "destroyed"}
  /\ served \in BOOLEAN /\ unanswered \in BOOLEAN
  /\ crash \in {"none", "null client", "error pointer", "null root", "dead client"}

Init ==
  /\ pc = "parse" /\ fg \in BOOLEAN /\ expired = FALSE /\ round = 0 /\ ret = 1
  /\ granted = FALSE /\ fh = "none" /\ clntp = "none" /\ acl_clntp = "none" /\ root = FALSE
  /\ session = "none" /\ served = FALSE /\ unanswered = FALSE /\ crash = "none"

Crash(why) == pc' = "crashed" /\ crash' = why

-----------------------------------------------------------------------------
(* hsfs_do_mount *)

\* The device name, the host and the options are parsed, or main returns.
Parse ==
  /\ pc = "parse"
  /\ pc' \in {"attempt", "returned"}
  /\ UNCHANGED <<fg, expired, round, ret, granted, fh, supers, session, served, unanswered, crash>>

\* hsi_nfs3_mount: no client, MNT fails, or there is no memory for the handle,
\* the server having taken the mount or not; or MNT returns a status.
Mnt ==
  \/ ret' = 1 /\ served' \in {served, TRUE} /\ UNCHANGED <<granted, fh>>
  \/ ret' = 0 /\ granted' \in BOOLEAN /\ fh' = "held" /\ served' = (served \/ granted')

\* Mutant of GiveUp: the deadline is not looked at.
GiveUpNever(timedout) == fg /\ ~timedout

\* In the foreground only a timeout is retried, and only until the deadline.
GiveUp(timedout) == fg /\ (~timedout \/ expired)

Attempt ==
  /\ pc = "attempt"
  /\ round' = 1 - round /\ Mnt
  /\ \E timedout \in BOOLEAN :
       pc' = IF ret' = 0 THEN "nfs_client" ELSE IF GiveUp(timedout) THEN "returned" ELSE "attempt"
  /\ UNCHANGED <<fg, expired, supers, session, unanswered, crash>>

\* hsi_nfs3_clnt_create; umnt_fail destroys super->clntp even if it is NULL.
NfsClient ==
  /\ pc = "nfs_client"
  /\ \/ clntp' = "live" /\ pc' = "acl_client" /\ UNCHANGED crash
     \/ Crash("null client") /\ UNCHANGED clntp
  /\ UNCHANGED <<fg, expired, round, ret, granted, fh, acl_clntp, root, session, served, unanswered>>

AclClient ==
  /\ pc = "acl_client"
  /\ acl_clntp' \in {"live", "none"} /\ pc' = "root"
  /\ UNCHANGED <<fg, expired, round, ret, granted, fh, clntp, root, session, served, unanswered, crash>>

\* The status of MNT, then hsi_fill_super: FSINFO may fail, the root inode may
\* be an error pointer that IS_ERR does not recognise, PATHCONF may fail when
\* super->root is already set.
Root ==
  /\ pc = "root"
  /\ \/ ~granted /\ pc' = "returned" /\ UNCHANGED <<root, fh, crash>>
     \/ granted /\ pc' = "umnt_fail" /\ root' \in BOOLEAN /\ UNCHANGED <<fh, crash>>
     \/ granted /\ Crash("error pointer") /\ UNCHANGED <<root, fh>>
     \/ granted /\ pc' = "returned" /\ root' = TRUE /\ fh' = "freed" /\ UNCHANGED crash
  /\ UNCHANGED <<fg, expired, round, ret, granted, clntp, acl_clntp, session, served, unanswered>>

\* hsi_nfs3_unmount, whose result nobody looks at.
Umnt ==
  \/ served' = FALSE /\ UNCHANGED unanswered
  \/ served' \in {served, FALSE} /\ unanswered' = TRUE

UmntFail ==
  /\ pc = "umnt_fail"
  /\ fh' = "freed" /\ clntp' = "destroyed"
  /\ acl_clntp' = IF acl_clntp = "live" THEN "destroyed" ELSE acl_clntp
  /\ Umnt
  /\ pc' = "returned"
  /\ UNCHANGED <<fg, expired, round, ret, granted, root, session, crash>>

-----------------------------------------------------------------------------
(* main *)

\* Mutant of Returned: the error is not looked at.
ReturnedUnchecked ==
  /\ pc = "returned" /\ pc' = "session" /\ ret' = 1
  /\ UNCHANGED <<fg, expired, round, granted, fh, supers, session, served, unanswered, crash>>

Returned ==
  /\ pc = "returned"
  /\ pc' = IF ret = 0 THEN "session" ELSE "exit"
  /\ ret' = 1
  /\ UNCHANGED <<fg, expired, round, granted, fh, supers, session, served, unanswered, crash>>

SessionNew ==
  /\ pc = "session"
  /\ \/ session' = "new" /\ pc' = "signals"
     \/ pc' = "unmount" /\ UNCHANGED session
  /\ UNCHANGED <<fg, expired, round, ret, granted, fh, supers, served, unanswered, crash>>

\* fuse_set_signal_handlers and fuse_session_mount: on an error the session is
\* destroyed.
Setup(from, to, s) ==
  /\ pc = from
  /\ \/ pc' = to /\ session' = s
     \/ pc' = "unmount" /\ session' = "destroyed"
  /\ UNCHANGED <<fg, expired, round, ret, granted, fh, supers, served, unanswered, crash>>

SetSignals == Setup("signals", "fuse_mount", "new")
FuseMount == Setup("fuse_mount", "loop", "mounted")

\* The session loop: hsx_fuse_init takes a reference on the root, requests use
\* the client; then the session is unmounted and destroyed.
Loop ==
  /\ pc = "loop"
  /\ \/ ~root /\ Crash("null root") /\ UNCHANGED <<session, ret>>
     \/ root /\ clntp # "live" /\ Crash("dead client") /\ UNCHANGED <<session, ret>>
     \/ root /\ pc' = "unmount" /\ session' = "destroyed" /\ ret' \in {0, 1} /\ UNCHANGED crash
  /\ UNCHANGED <<fg, expired, round, granted, fh, supers, served, unanswered>>

\* Mutant of Unmount: the server is not told.
UnmountSilent ==
  /\ pc = "unmount" /\ clntp = "live" /\ clntp' = "destroyed" /\ pc' = "exit"
  /\ UNCHANGED <<fg, expired, round, ret, granted, fh, acl_clntp, root, session,
                 served, unanswered, crash>>

\* hsfs_do_unmount.
Unmount ==
  /\ pc = "unmount"
  /\ \/ clntp = "live" /\ clntp' = "destroyed" /\ Umnt /\ pc' = "exit" /\ UNCHANGED crash
     \/ clntp # "live" /\ Crash("dead client") /\ UNCHANGED <<clntp, served, unanswered>>
  /\ UNCHANGED <<fg, expired, round, ret, granted, fh, acl_clntp, root, session>>

Expire ==
  /\ ~expired /\ expired' = TRUE
  /\ UNCHANGED <<pc, fg, round, ret, granted, fh, supers, session, served, unanswered, crash>>

Step ==
  \/ Parse \/ Attempt \/ NfsClient \/ AclClient \/ Root \/ UmntFail \/ Returned
  \/ SessionNew \/ SetSignals \/ FuseMount \/ Loop \/ Unmount

Next == Step \/ Expire

\* The daemon runs and time passes.
Spec == Init /\ [][Next]_vars /\ WF_vars(Step) /\ WF_vars(Expire)

-----------------------------------------------------------------------------
(* Properties *)

\* hsfs_do_unmount: when the daemon exits after it had a client, the server's
\* mount list does not name it, also when several MNT of the mount loop took
\* effect, unless an UMNT was not answered.
ServerReleased == pc = "exit" /\ clntp # "none" => ~served \/ unanswered

\* main: the daemon stops on a missing root or a dead client only when
\* hsfs_do_mount failed after MNT was answered and still returned 0: the mount
\* was refused, or the super block could not be filled.
StopExplained ==
  crash \in {"null root", "dead client"} => (fh = "held" /\ ~granted) \/ clntp = "destroyed"

\* hsfs_do_mount with -f ends: the mount loop stops at the deadline.
ForegroundEnds == fg => <>(pc \notin {"parse", "attempt"})
=============================================================================
