------------------------------ MODULE Nfs4Calls ------------------------------
(***************************************************************************)
(* The NFSv4 calls of lib/nfs_v4.c.  A call is an "async" function, which  *)
(* allocates a struct nfs4_cb_data and queues a compound, followed by a    *)
(* chain of RPC callbacks, each of which looks at the reply and then       *)
(* queues the next compound, or calls the application back and frees the   *)
(* structure.                                                              *)
(*                                                                         *)
(* Every C function is translated to the set of its paths: one sequence of *)
(* effects for each way through the function.  An effect is a pair:        *)
(*   <<"own", b>>     allocate b and attach it to the nfs4_cb_data         *)
(*   <<"hold", b>>    allocate b without attaching it                      *)
(*   <<"drop", b>>    free(b)                                              *)
(*   <<"give", b>>    detach b: it belongs to the caller or the context    *)
(*   <<"cb", s>>      data->cb(s);  <<"call", s>>  cb(s), without data     *)
(*   <<"free", "">>   free_nfs4_cb_data(data)                              *)
(*   <<"send", f>>    a compound is queued, f is its callback              *)
(*   <<"swap", f>>    another nfs4_cb_data, its compound queued, takes     *)
(*                    over; data is freed                                  *)
(*   <<"run", f>>     f is called with the reply at hand                   *)
(*   <<"lock", "">>   nfs_mt_mutex_lock(nfs4_open_call_mutex)              *)
(*   <<"cont", f>>    data->continue_cb = f                                *)
(*   <<"open_cb", f>> data->open_cb = f                                    *)
(*   <<"func", p>>    data->filler.func = nfs4_populate_p                  *)
(*   <<"path", s>>    data->path names the object ("full") or its parent   *)
(*                    directory, the name being in filler.data ("split")   *)
(*   <<"fill", "">>   filler.func(data, op) appends its operations         *)
(*   <<"flag", x>>    a flag of data is set; <<"flags", s>>  those of s    *)
(*   <<"link", "">>   a symbolic link in the path gives way to its target  *)
(*   <<"page", "">>   a page of a directory without the last entry         *)
(*   <<"acted", o>>   the server has run the operations of filler.func     *)
(*   <<"opened", o>>  the server holds an open of the file, or ("closed")  *)
(*                    has released it                                      *)
(*   <<"ret", r>>     return r                                             *)
(* What the server answers, and whether an allocation or a send fails, is  *)
(* the choice between the paths of a set.  d is the nfs4_cb_data.          *)
(***************************************************************************)
EXTENDS Sequences, FiniteSets

Then(prefix, rest) == {prefix \o r : r \in rest}

Ok == << <<"ret", "0">> >>
Fail == << <<"ret", "-1">> >>
Return == << >>

\* data->cb(st, ...); free_nfs4_cb_data(data); return;
Finish(st) == << <<"cb", st>>, <<"free", "">> >>

\* free_nfs4_cb_data(data); return -1;
Drop == << <<"free", "">> >> \o Fail

\* b = malloc(...); if (b == NULL) failed; ...
Malloc(b, failed, rest) == {failed} \cup Then(<< <<"own", b>> >>, rest)

\* The same allocation under another name.
Move(a, b) == << <<"give", a>>, <<"own", b>> >>

\* A file handle is two allocations: the second may fail with the first made.
MallocFh(failed, rest) == {failed} \cup Malloc("blob0", failed, {failed} \cup rest)

\* rpc_nfs4_compound_async2: no pdu, no room for it, no queue; or it is sent.
Compound(f, failed, done) == {failed, << <<"send", f>> >> \o done}

\* An RPC error, a cancelled or timed out call, a compound that failed.
CheckError(rest) == {Finish(st) : st \in {"EFAULT", "EINTR", "EIO"}} \cup rest

\* The reply has no result of the operation the callback looks for.
FindOp(rest) == {Finish("EINVAL")} \cup rest

InitFullPath(rest) ==
    {Fail} \cup Then(<< <<"own", "data">>, <<"own", "path">>,
                        <<"path", "full">> >>, rest)

\* data_split_path does not check its strdup; without the name the process ends
\* in strlen, and there is no path for that.
InitSplitPath(rest) ==
    {Fail} \cup Then(<< <<"own", "data">>, <<"own", "path">>,
                        <<"own", "name">>, <<"path", "split">> >>, rest)

InitData(rest) == {Fail} \cup Then(<< <<"own", "data">> >>, rest)

-----------------------------------------------------------------------------
(* Walking a path.  One compound holds the LOOKUPs and, behind them, the     *)
(* operations of filler.func; it is sent again for every link on the way.    *)

\* nfs4_lookup_path_async: the path does not resolve, no memory, no send.
Lookup(cont, failed, done) ==
    {failed, << <<"fill", "">>, <<"cont", cont>>,
                <<"send", "nfs4_lookup_path_1_cb">> >> \o done}

\* nfs4_populate_*: what the operations of filler.func are to carry.  A SETATTR
\* wants a stateid.  Every creation is sent as EXCLUSIVE4 (flags|O_EXCL), which
\* has no mode; with O_EXCL one is set afterwards.
Wanted(d) ==
    CASE d.func \in {"remove", "lookup_readlink"} -> {"name"}
      [] d.func \in {"symlink", "link"} -> {"name", "blob0"}
      [] d.func \in {"mkdir", "rename"} -> {"name", "blob0", "blob1"}
      [] d.func = "mknod" -> {"name", "blob0", "blob1", "type"}
      [] d.func = "open" ->
             {"name"} \cup (IF d.flags \cap {"O_CREAT", "O_EXCL"} = {"O_CREAT"}
                           THEN {"mode"} ELSE {})
      [] d.func \in {"chmod", "chown", "utimes"} -> {"blob3", "stateid"}
      [] d.func = "access" -> {"blob3"}
      [] d.func = "readdir" -> {"blob2"}
      [] OTHER -> {}

\* What data has for them.  nfs4_populate_mknod strips the type off its own
\* argument; the calls by path have no open file to take a stateid from.
Unset(d) == Wanted(d) \ (d.owned \cup IF d.typed THEN {"type"} ELSE {})

nfs4_lookup_path_2_cb(d) ==
    CheckError({Finish("ENOMEM")} \cup FindOp({Finish("ENOMEM")} \cup
        Then(<< <<"link", "">> >>, Lookup(d.cont, Finish("ENOMEM"), Return))))

\* READLINK of the link the walk stopped at.
AskLink ==
    {Finish("ENOMEM")} \cup
    Then(<< <<"hold", "op">> >>,
         Compound("nfs4_lookup_path_2_cb", Finish("ENOMEM"), Return))

\* The OPEN behind the LOOKUPs may have been granted even if the call fails.
Granted(d) == {<<>>} \cup IF d.func = "open" THEN {<< <<"opened", "server">> >>} ELSE {}

nfs4_lookup_path_1_cb(d) ==
    LET failed == UNION {Then(g, CheckError({Finish("EINVAL")})) : g \in Granted(d)}
        all_found == << <<"acted", d.path>> >>
                     \o (IF d.func = "open" THEN << <<"opened", "server">> >> ELSE <<>>)
                     \o << <<"run", d.cont>> >>
        open_is_link == IF d.func = "open"
                        THEN {<< <<"run", "nfs4_open_readlink">> >>} ELSE {}
        inner_link == {Finish("EFAULT")} \cup AskLink
        last_is_link == IF "NO_FOLLOW" \in d.flags THEN {}
                        ELSE Then(<< <<"acted", "link">> >>, AskLink)
    IN  failed \cup {all_found} \cup open_is_link \cup inner_link \cup last_is_link

-----------------------------------------------------------------------------
(* Connecting and mounting. *)

\* rpc_connect_port_async, with a structure of its own ("rpc").
ConnectPort(failed, done) ==
    {failed, << <<"hold", "rpc">>,
                <<"send", "rpc_connect_program_4_cb">> >> \o done}

rpc_connect_program_4_cb ==
    {<< <<"run", "nfs4_mount_1_cb: error">>, <<"drop", "rpc">> >>,
     << <<"send", "rpc_connect_program_5_cb">> >>}

rpc_connect_program_5_cb ==
    {<< <<"run", f>>, <<"drop", "rpc">> >> :
        f \in {"nfs4_mount_1_cb", "nfs4_mount_1_cb: error"}}

\* Nothing to unmount in NFSv4: the callback is called at once.
nfs_umount_async == {<< <<"call", "OK">> >> \o Ok}

nfs4_mount_async ==
    {Fail} \cup InitData(Then(<< <<"own", "path">>, <<"path", "full">> >>,
                              ConnectPort(Drop, Ok)))

nfs4_mount_1_cb(connected) ==
    IF connected
    THEN Compound("nfs4_mount_2_cb", Finish("ENOMEM"), Return)
    ELSE CheckError({})

nfs4_mount_2_cb ==
    CheckError(Compound("nfs4_mount_3_cb", Finish("ENOMEM"), Return))

nfs4_mount_3_cb ==
    CheckError(Then(<< <<"func", "getfh">> >>,
        Malloc("name", Finish("ENOMEM"),
               Lookup("nfs4_mount_4_cb", Finish("ENOMEM"), Return))))

nfs4_mount_4_cb == CheckError(FindOp({Finish("ENOMEM"), Finish("OK")}))

-----------------------------------------------------------------------------
(* Calls on a path. *)

\* Without memory for filler.data the call calls back, frees and returns -1.
nfs4_chdir_async ==
    InitFullPath(Then(<< <<"func", "getattr">> >>,
        Malloc("name", Finish("ENOMEM") \o Fail,
               Lookup("nfs4_chdir_1_cb", Drop, Ok))))

nfs4_chdir_1_cb ==
    CheckError({<< <<"give", "path">> >> \o Finish("OK")})

nfs4_stat64_async(no_follow) ==
    InitFullPath(Then(<< <<"flag", no_follow>>, <<"func", "getattr">> >>,
        Malloc("name", Finish("ENOMEM") \o Fail,
               Lookup("nfs4_xstat64_cb", Drop, Ok))))

\* Attributes that do not parse are reported, and then the call succeeds.
nfs4_xstat64_cb ==
    CheckError(FindOp({Finish("OK"), Finish("EINVAL") \o Finish("OK")}))

nfs4_mkdir2_async ==
    InitSplitPath(Then(<< <<"func", "mkdir">> >>,
        Malloc("blob0", Drop, Malloc("blob1", Drop,
               Lookup("nfs4_mkdir_cb", Drop, Ok)))))

nfs4_mkdir_cb == CheckError({Finish("OK")})

nfs4_remove_async ==
    InitSplitPath(Then(<< <<"func", "remove">> >>,
                       Lookup("nfs4_remove_cb", Drop, Ok)))

nfs4_remove_cb == CheckError({Finish("OK")})

\* Whether there was memory for the target is not checked.
nfs4_symlink_async ==
    InitSplitPath(Then(<< <<"func", "symlink">> >>,
        UNION {Then(target, Lookup("nfs4_symlink_cb", Drop, Ok)) :
                   target \in {<<>>, << <<"own", "blob0">> >>}}))

nfs4_symlink_cb == CheckError({Finish("OK")})

nfs4_readlink_async ==
    InitFullPath(Then(<< <<"flag", "NO_FOLLOW">>, <<"func", "readlink">> >>,
                      Lookup("nfs4_readlink_cb", Drop, Ok)))

nfs4_readlink_cb ==
    CheckError(FindOp(Malloc("blob0", Finish("ENOMEM"), {Finish("OK")})))

\* Without memory for the mask the call returns 0 and nothing else happens.
nfs4_mknod_async ==
    {Fail} \cup
    InitSplitPath(Then(<< <<"func", "mknod">> >>,
        Malloc("blob0", Ok, Malloc("blob1", Drop,
               Lookup("nfs4_mknod_cb", Drop, Ok)))))

nfs4_mknod_cb == CheckError({Finish("OK")})

\* The parent of the new name first, then the old object.
nfs4_link_async ==
    InitSplitPath(Then(<< <<"func", "getfh">> >>,
        Malloc("blob1", Drop, Lookup("nfs4_link_1_cb", Drop, Ok))))

nfs4_link_1_cb ==
    CheckError(FindOp(MallocFh(Finish("ENOMEM"),
        Then(<< <<"func", "link">>, <<"drop", "path">> >> \o Move("blob1", "path")
                \o << <<"path", "full">> >>,
             Lookup("nfs4_link_2_cb", Finish("EFAULT"), Return)))))

nfs4_link_2_cb == CheckError({Finish("OK")})

\* Mutant of nfs4_rename_async: data is not freed when the walk cannot start.
RenameKeeps ==
    InitSplitPath(Then(<< <<"func", "getfh">> >>,
        Malloc("blob2", Drop, Lookup("nfs4_rename_1_cb", Fail, Ok))))

nfs4_rename_async ==
    InitSplitPath(Then(<< <<"func", "getfh">> >>,
        Malloc("blob2", Drop, Lookup("nfs4_rename_1_cb", Drop, Ok))))

nfs4_rename_1_cb ==
    CheckError(FindOp(MallocFh(Finish("ENOMEM"),
        Then(Move("name", "blob1") \o << <<"drop", "path">> >>,
             {Finish("EINVAL")} \cup
             Then(<< <<"own", "path">>, <<"own", "name">>, <<"func", "rename">> >>,
                  Lookup("nfs4_rename_2_cb", Finish("ENOMEM"), Return))))))

nfs4_rename_2_cb == CheckError({Finish("OK")})

nfs4_chmod_async_internal(no_follow) ==
    InitFullPath(Then(<< <<"func", "chmod">>, <<"flag", no_follow>> >>,
        Malloc("blob3", Drop, Lookup("nfs4_chmod_cb", Fail, Ok))))

nfs4_chmod_cb == CheckError({Finish("OK")})

nfs4_chown_async_internal(no_follow) ==
    InitSplitPath(Then(<< <<"func", "chown">>, <<"flag", no_follow>> >>,
        Malloc("blob3", Drop, Lookup("nfs4_chown_cb", Fail, Ok))))

nfs4_chown_cb == CheckError({Finish("OK")})

nfs4_access_internal ==
    InitFullPath(Then(<< <<"func", "access">> >>,
        Malloc("blob3", Fail, Lookup("nfs4_access_cb", Drop, Ok))))

nfs4_access_cb == CheckError(FindOp({Finish("OK"), Finish("EACCES")}))

nfs4_utimes_async_internal(no_follow) ==
    InitFullPath(Then(<< <<"func", "utimes">>, <<"flag", no_follow>> >>,
        Malloc("blob3", Fail, Lookup("nfs4_utimes_cb", Drop, Ok))))

nfs4_utimes_cb == CheckError({Finish("OK")})

nfs4_statvfs_async_internal == InitData(Compound("nfs4_statvfs_cb", Drop, Ok))

nfs4_statvfs_cb == CheckError(FindOp({Finish("EINVAL"), Finish("OK")}))

nfs4_opendir_async ==
    InitFullPath(Then(<< <<"func", "readdir">> >>,
        Malloc("blob1", Drop, Malloc("blob2", Drop,
               Lookup("nfs4_opendir_cb", Drop, Ok)))))

nfs4_parse_readdir(d) ==
    {Finish("ENOMEM"), Finish("EINVAL"),
     << <<"give", "blob1">> >> \o Finish("OK")}
    \cup Then(<< <<"page", "">> >>,
              Compound("nfs4_opendir_2_cb", Finish("ENOMEM"), Return))

nfs4_opendir_cb(d) ==
    CheckError(FindOp(MallocFh(Finish("ENOMEM"), FindOp(nfs4_parse_readdir(d)))))

nfs4_opendir_2_cb(d) == CheckError(FindOp(nfs4_parse_readdir(d)))

-----------------------------------------------------------------------------
(* Open, and the calls that open. *)

\* Mutant of nfs4_open_async_internal: fails without freeing data.
OpenKeeps(flags) ==
    Then(<< <<"func", "open">> >>, Lookup("nfs4_open_cb", Fail, Ok))

nfs4_open_async_internal(flags) ==
    LET walk == Then(<< <<"flags", flags>>, <<"func", "open">> >>,
                     Lookup("nfs4_open_cb", Drop, Ok))
    IN  IF "O_CREAT" \in flags
        THEN Malloc("blob1", Drop, Malloc("blob2", Drop, walk))
        ELSE walk

\* O_EXCL leaves the file empty already, so it turns O_TRUNC off.
nfs4_open_async(flags) ==
    LET walk == Then(<< <<"lock", "">> >>, nfs4_open_async_internal(flags))
        after(f) == Then(<< <<"open_cb", f>> >>, Malloc("blob3", Drop, walk))
    IN  InitSplitPath(CASE "O_EXCL" \in flags -> after("nfs4_open_chmod_cb")
                        [] flags \cap {"O_EXCL", "O_TRUNC"} = {"O_TRUNC"} ->
                             after("nfs4_open_truncate_cb")
                        [] OTHER -> walk)

nfs4_create_async(flags) == nfs4_open_async({"O_CREAT"} \cup flags)

\* The last component is a link.  With O_NOFOLLOW the application is told and
\* that is all; otherwise the target is asked for and the open starts over.
nfs4_open_readlink(d) ==
    IF "O_NOFOLLOW" \in d.flags
    THEN {<< <<"cb", "ELOOP">> >>}
    ELSE Then(<< <<"func", "lookup_readlink">> >>,
              Lookup("nfs4_open_readlink_cb", Finish("ENOMEM"), Return))

\* Mutant of nfs4_open_readlink_cb: the target is not split.
OpenLinkWhole ==
    CheckError(Then(<< <<"link", "">>, <<"drop", "path">>, <<"drop", "name">>,
                       <<"own", "path">>, <<"func", "open">> >>,
                    Lookup("nfs4_open_cb", Finish("ENOMEM"), Return)))

nfs4_open_readlink_cb ==
    CheckError(FindOp({Finish("ENOMEM")} \cup
        Then(<< <<"link", "">>, <<"drop", "path">>, <<"drop", "name">> >>,
             {Finish("EINVAL")} \cup
             Then(<< <<"own", "path">>, <<"own", "name">>, <<"func", "open">> >>,
                  Lookup("nfs4_open_cb", Finish("ENOMEM"), Return)))))

\* What open_cb and open_confirm_cb do with an open that is complete.
Opened(d) ==
    IF d.open_cb = "none"
    THEN {<< <<"give", "blob0">> >> \o Finish("OK")}
    ELSE {<< <<"run", d.open_cb>> >>}

nfs4_open_cb(d) ==
    CheckError(FindOp({Finish("EINVAL")} \cup FindOp(MallocFh(Finish("ENOMEM"), FindOp(
        Opened(d) \cup
        Compound("nfs4_open_confirm_cb", Finish("ENOMEM"), Return))))))

nfs4_open_confirm_cb(d) == CheckError(FindOp(Opened(d)))

nfs4_open_truncate_cb ==
    CheckError(Compound("nfs4_open_setattr_cb", Finish("ENOMEM"), Return))

\* Mutant of nfs4_open_chmod_cb: a compound that cannot be sent is not reported.
OpenChmodSilent == CheckError(Compound("nfs4_open_setattr_cb", Return, Return))

nfs4_open_chmod_cb ==
    CheckError(Compound("nfs4_open_setattr_cb", Finish("ENOMEM"), Return))

nfs4_open_setattr_cb ==
    CheckError({<< <<"give", "blob0">> >> \o Finish("OK")})

nfs4_truncate_async ==
    InitSplitPath(Then(<< <<"open_cb", "nfs4_truncate_open_cb">> >>,
        Malloc("blob3", Drop,
            Then(<< <<"lock", "">> >>, nfs4_open_async_internal({"O_WRONLY"})))))

\* SETATTR and CLOSE in one compound.
nfs4_truncate_open_cb ==
    CheckError(Compound("nfs4_truncate_close_cb", Finish("ENOMEM"), Return))

\* Mutant of nfs4_truncate_close_cb: the compound had no CLOSE.
TruncateKeepsOpen == CheckError({Finish("OK")})

nfs4_truncate_close_cb ==
    CheckError({<< <<"opened", "closed">> >> \o Finish("OK")})

-----------------------------------------------------------------------------
(* Calls on an open file. *)

\* The handle is freed with data, unless the CLOSE was never sent.
nfs4_close_async ==
    InitData(Then(<< <<"lock", "">>, <<"own", "blob0">> >>,
        Compound("nfs4_close_cb", << <<"give", "blob0">> >> \o Drop, Ok)))

nfs4_close_cb == CheckError({Finish("OK")})

nfs4_fstat64_async == InitData(Compound("nfs4_xstat64_cb", Drop, Ok))

nfs4_getacl_async == InitData(Compound("nfs4_getacl_cb", Drop, Ok))

\* check_nfs4_error and nfs4_find_op have already called back and freed.
nfs4_getacl_cb ==
    {done \o Finish("EIO") : done \in CheckError(FindOp({}))}
    \cup {Finish("OK"), Finish("EIO")}

nfs4_pread_async_internal == InitData(Compound("nfs4_pread_cb", Drop, Ok))

\* Mutant of nfs4_pread_cb: no return after the error has been reported.
PreadGoesOn == {done \o Finish("OK") : done \in CheckError(FindOp({}))}

nfs4_pread_cb == CheckError(FindOp({Finish("OK")}))

nfs4_pwrite_async_internal == InitData(Compound("nfs4_pwrite_cb", Drop, Ok))

nfs4_pwrite_cb == CheckError(FindOp({Finish("OK")}))

nfs4_write_async(append) ==
    IF append THEN InitData(Compound("nfs4_write_append_cb", Drop, Ok))
              ELSE nfs4_pwrite_async_internal

\* The size is known; a nested pwrite, with a structure of its own, takes over.
nfs4_write_append_cb ==
    CheckError(FindOp({Finish("EINVAL"), << <<"swap", "nfs4_pwrite_cb">> >>,
                       << <<"free", "">>, <<"cb", "ENOMEM">> >>}))

nfs4_fsync_async == InitData(Compound("nfs4_fsync_cb", Drop, Ok))

nfs4_fsync_cb == CheckError({Finish("OK")})

nfs4_ftruncate_async ==
    InitData(Malloc("blob3", Drop, Compound("nfs4_fsync_cb", Drop, Ok)))

nfs4_fchmod_async ==
    InitData(Malloc("blob3", Drop, Compound("nfs4_fsync_cb", Drop, Ok)))

nfs4_fchown_async ==
    InitData(Malloc("blob3", Drop, Compound("nfs4_fsync_cb", Drop, Ok)))

\* SEEK_SET and SEEK_CUR answer at once; the offset of SEEK_END is in a block
\* that data points to and does not free.
nfs4_lseek_async ==
    {<< <<"call", "OK">> >> \o Ok, << <<"call", "EINVAL">> >> \o Ok}
    \cup InitData({Drop} \cup
                  Then(<< <<"hold", "blob1">> >>, Compound("nfs4_lseek_cb", Drop, Ok)))

nfs4_lseek_cb == CheckError(FindOp({Finish("EINVAL"), Finish("OK")}))

nfs4_lockf_async == InitData(Compound("nfs4_lockf_cb", Drop, Ok))

nfs4_lockf_cb == CheckError(FindOp({Finish("OK")}))

\* Either the lock request is on its way or data has been freed.
SetLock(failed, done) == Compound("nfs4_fcntl_cb", << <<"free", "">> >> \o failed, done)

nfs4_fcntl_async ==
    InitData({Drop} \cup SetLock(Fail, Ok)
             \cup Compound("nfs4_fcntl_stat_cb", Drop, Ok))

\* An unparsable reply is reported and data freed, and the lock is still sent.
nfs4_fcntl_stat_cb ==
    LET lock == SetLock(Finish("ENOMEM"), Return)
    IN  CheckError(FindOp(lock \cup Then(Finish("EINVAL"), lock)))

nfs4_fcntl_cb == CheckError(FindOp({Finish("OK")}))

-----------------------------------------------------------------------------
(* The callbacks by name, and the entry points by the name of the call.      *)

Callback(f, d) ==
    CASE f = "nfs4_lookup_path_1_cb" -> nfs4_lookup_path_1_cb(d)
      [] f = "nfs4_lookup_path_2_cb" -> nfs4_lookup_path_2_cb(d)
      [] f = "rpc_connect_program_4_cb" -> rpc_connect_program_4_cb
      [] f = "rpc_connect_program_5_cb" -> rpc_connect_program_5_cb
      [] f = "nfs4_mount_1_cb" -> nfs4_mount_1_cb(TRUE)
      [] f = "nfs4_mount_1_cb: error" -> nfs4_mount_1_cb(FALSE)
      [] f = "nfs4_mount_2_cb" -> nfs4_mount_2_cb
      [] f = "nfs4_mount_3_cb" -> nfs4_mount_3_cb
      [] f = "nfs4_mount_4_cb" -> nfs4_mount_4_cb
      [] f = "nfs4_chdir_1_cb" -> nfs4_chdir_1_cb
      [] f = "nfs4_xstat64_cb" -> nfs4_xstat64_cb
      [] f = "nfs4_mkdir_cb" -> nfs4_mkdir_cb
      [] f = "nfs4_remove_cb" -> nfs4_remove_cb
      [] f = "nfs4_symlink_cb" -> nfs4_symlink_cb
      [] f = "nfs4_readlink_cb" -> nfs4_readlink_cb
      [] f = "nfs4_mknod_cb" -> nfs4_mknod_cb
      [] f = "nfs4_link_1_cb" -> nfs4_link_1_cb
      [] f = "nfs4_link_2_cb" -> nfs4_link_2_cb
      [] f = "nfs4_rename_1_cb" -> nfs4_rename_1_cb
      [] f = "nfs4_rename_2_cb" -> nfs4_rename_2_cb
      [] f = "nfs4_chmod_cb" -> nfs4_chmod_cb
      [] f = "nfs4_chown_cb" -> nfs4_chown_cb
      [] f = "nfs4_access_cb" -> nfs4_access_cb
      [] f = "nfs4_utimes_cb" -> nfs4_utimes_cb
      [] f = "nfs4_statvfs_cb" -> nfs4_statvfs_cb
      [] f = "nfs4_opendir_cb" -> nfs4_opendir_cb(d)
      [] f = "nfs4_opendir_2_cb" -> nfs4_opendir_2_cb(d)
      [] f = "nfs4_open_readlink" -> nfs4_open_readlink(d)
      [] f = "nfs4_open_readlink_cb" -> nfs4_open_readlink_cb
      [] f = "nfs4_open_cb" -> nfs4_open_cb(d)
      [] f = "nfs4_open_confirm_cb" -> nfs4_open_confirm_cb(d)
      [] f = "nfs4_open_truncate_cb" -> nfs4_open_truncate_cb
      [] f = "nfs4_open_chmod_cb" -> nfs4_open_chmod_cb
      [] f = "nfs4_open_setattr_cb" -> nfs4_open_setattr_cb
      [] f = "nfs4_truncate_open_cb" -> nfs4_truncate_open_cb
      [] f = "nfs4_truncate_close_cb" -> nfs4_truncate_close_cb
      [] f = "nfs4_close_cb" -> nfs4_close_cb
      [] f = "nfs4_getacl_cb" -> nfs4_getacl_cb
      [] f = "nfs4_pread_cb" -> nfs4_pread_cb
      [] f = "nfs4_pwrite_cb" -> nfs4_pwrite_cb
      [] f = "nfs4_write_append_cb" -> nfs4_write_append_cb
      [] f = "nfs4_fsync_cb" -> nfs4_fsync_cb
      [] f = "nfs4_lseek_cb" -> nfs4_lseek_cb
      [] f = "nfs4_lockf_cb" -> nfs4_lockf_cb
      [] f = "nfs4_fcntl_stat_cb" -> nfs4_fcntl_stat_cb
      [] f = "nfs4_fcntl_cb" -> nfs4_fcntl_cb
      [] f = "external_cb" -> CheckError({Finish("OK")})

\* The combinations of flags that take different paths.
OpenFlags ==
    {{}, {"O_TRUNC"}, {"O_CREAT"}, {"O_CREAT", "O_EXCL"},
     {"O_CREAT", "O_EXCL", "O_TRUNC"}, {"O_NOFOLLOW"}}

Entry(f) ==
    CASE f = "nfs4_open_async" -> UNION {nfs4_open_async(fl) : fl \in OpenFlags}
      [] f = "nfs4_create_async" -> nfs4_create_async({})
      [] f = "nfs4_write_async" -> UNION {nfs4_write_async(a) : a \in BOOLEAN}
      [] f = "nfs4_stat64_async" -> nfs4_stat64_async("none")
      [] f = "nfs4_lstat64_async" -> nfs4_stat64_async("NO_FOLLOW")
      [] f = "nfs4_chmod_async" -> nfs4_chmod_async_internal("none")
      [] f = "nfs4_lchmod_async" -> nfs4_chmod_async_internal("NO_FOLLOW")
      [] f = "nfs4_chown_async" -> nfs4_chown_async_internal("none")
      [] f = "nfs4_lchown_async" -> nfs4_chown_async_internal("NO_FOLLOW")
      [] f = "nfs4_utimes_async" -> nfs4_utimes_async_internal("none")
      [] f = "nfs4_lutimes_async" -> nfs4_utimes_async_internal("NO_FOLLOW")
      [] f = "nfs4_access_async" -> nfs4_access_internal
      [] f = "nfs4_statvfs_async" -> nfs4_statvfs_async_internal
      [] f = "nfs4_pread_async" -> nfs4_pread_async_internal
      [] f = "nfs4_pwrite_async" -> nfs4_pwrite_async_internal
      [] f = "nfs4_mount_async" -> nfs4_mount_async
      [] f = "nfs4_chdir_async" -> nfs4_chdir_async
      [] f = "nfs4_mkdir2_async" -> nfs4_mkdir2_async
      [] f = "nfs4_remove_async" -> nfs4_remove_async
      [] f = "nfs4_symlink_async" -> nfs4_symlink_async
      [] f = "nfs4_readlink_async" -> nfs4_readlink_async
      [] f = "nfs4_mknod_async" -> nfs4_mknod_async
      [] f = "nfs4_link_async" -> nfs4_link_async
      [] f = "nfs4_rename_async" -> nfs4_rename_async
      [] f = "nfs4_opendir_async" -> nfs4_opendir_async
      [] f = "nfs4_truncate_async" -> nfs4_truncate_async
      [] f = "nfs4_close_async" -> nfs4_close_async
      [] f = "nfs4_fstat64_async" -> nfs4_fstat64_async
      [] f = "nfs4_getacl_async" -> nfs4_getacl_async
      [] f = "nfs4_fsync_async" -> nfs4_fsync_async
      [] f = "nfs4_ftruncate_async" -> nfs4_ftruncate_async
      [] f = "nfs4_fchmod_async" -> nfs4_fchmod_async
      [] f = "nfs4_fchown_async" -> nfs4_fchown_async
      [] f = "nfs4_lseek_async" -> nfs4_lseek_async
      [] f = "nfs4_lockf_async" -> nfs4_lockf_async
      [] f = "nfs4_fcntl_async" -> nfs4_fcntl_async
      [] f = "nfs_umount_async" -> nfs_umount_async
      [] f = "external" -> InitData(Compound("external_cb", Drop, Ok))
      [] f = "unsupported" -> {Fail}
==============================================================================
