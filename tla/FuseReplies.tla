---------------------------- MODULE FuseReplies ----------------------------
(***************************************************************************)
(* The handlers of fuse/ that keep no state between requests, as the set   *)
(* of ways each can end: the replies it sends, whether the server has done *)
(* what was asked.  AttrCache runs them beside the handlers that use the   *)
(* cached attributes.  `missing` is hsfs_ilookup returning NULL for a      *)
(* number of the request.                                                  *)
(***************************************************************************)
EXTENDS Integers, Sequences

\* replies: "ok", "err", or "crash" for an undefined access instead of a reply
Ending(r, d) == [replies |-> r, did |-> d]

Nothing == {Ending(<< >>, FALSE)}
Refused == {Ending(<<"err">>, FALSE)}
Crash(d) == {Ending(<<"crash">>, d)}

\* A procedure of nfs3/ with one remote call, and its result replied: the
\* server did it; or refused, or was not reached; or did it and the answer
\* was lost (hsi_nfs3_clnt_call).
OneCall ==
  {Ending(<<"ok">>, TRUE), Ending(<<"err">>, FALSE),
   Ending(<<"err">>, TRUE)}

-----------------------------------------------------------------------------
(* The procedures of nfs3/ they call *)

\* The granted rights are not looked at: success also when fewer were granted.
hsi_nfs3_access == OneCall \cup {Ending(<<"ok">>, FALSE)}

\* Mutant of hsi_nfs3_rmdir: an answer that never came counts as success.
RmdirEarly == {Ending(<<"ok">>, d) : d \in BOOLEAN}

hsi_nfs3_rmdir == OneCall

\* Names that are empty or too long are refused without a call.
hsi_nfs3_unlink == OneCall \cup Refused
hsi_nfs3_rename == OneCall \cup Refused

\* Returns 0 and no target when the copy of it cannot be allocated.
hsi_nfs3_readlink == OneCall \cup Crash(TRUE)

hsi_nfs3_statfs == OneCall

\* ENOTSUP without an ACL client.
hsi_nfs3_getxattr == OneCall \cup Refused

\* An answer without handle or attributes makes an ERR_PTR value, which IS_ERR
\* does not know.
hsi_nfs3_handle_create == Crash(TRUE)

hsi_nfs3_mkdir == OneCall \cup hsi_nfs3_handle_create
hsi_nfs3_mknod == OneCall \cup hsi_nfs3_handle_create
hsi_nfs3_symlink == OneCall \cup hsi_nfs3_handle_create

-----------------------------------------------------------------------------
(* The handlers *)

\* Mutant of hsx_fuse_access: the result is replied again at `out`.
AccessTwice(missing) ==
  IF missing THEN Nothing ELSE {Ending(<<"ok", "ok">>, TRUE)}

hsx_fuse_access(missing) == IF missing THEN Nothing ELSE hsi_nfs3_access
hsx_fuse_rmdir(missing) == IF missing THEN Nothing ELSE hsi_nfs3_rmdir
hsx_fuse_unlink(missing) == IF missing THEN Refused ELSE hsi_nfs3_unlink
hsx_fuse_rename(missing) == IF missing THEN Refused ELSE hsi_nfs3_rename

\* st is 0 when the inode is missing, and then nothing is replied.
hsx_fuse_readlink(missing) == IF missing THEN Nothing ELSE hsi_nfs3_readlink

\* The root of the super block; hsi_super2statvfs may refuse what it holds.
hsx_fuse_statfs(missing) == hsi_nfs3_statfs \cup Refused

\* fi->fh is allocated by open and freed by release; create leaves it 0.
hsx_fuse_open(missing) == {Ending(<<"ok">>, TRUE)} \cup Refused
hsx_fuse_release(missing) == {Ending(<<"ok">>, TRUE)}
hsx_fuse_opendir(missing) == IF missing THEN Refused ELSE {Ending(<<"ok">>, TRUE)}

\* Other names, a short buffer and no memory are refused.
hsx_fuse_getxattr(missing) == IF missing THEN Refused ELSE hsi_nfs3_getxattr

hsx_fuse_mkdir(missing) == IF missing THEN Nothing ELSE hsi_nfs3_mkdir
hsx_fuse_mknod(missing) == IF missing THEN Refused ELSE hsi_nfs3_mknod
hsx_fuse_symlink(missing) == IF missing THEN Refused ELSE hsi_nfs3_symlink

PlainOps ==
  {"access", "rmdir", "unlink", "rename", "readlink", "statfs", "open", "release",
   "opendir", "getxattr", "mkdir", "mknod", "symlink"}

Endings(op, missing) ==
  CASE op = "access" -> hsx_fuse_access(missing)
    [] op = "rmdir" -> hsx_fuse_rmdir(missing)
    [] op = "unlink" -> hsx_fuse_unlink(missing)
    [] op = "rename" -> hsx_fuse_rename(missing)
    [] op = "readlink" -> hsx_fuse_readlink(missing)
    [] op = "statfs" -> hsx_fuse_statfs(missing)
    [] op = "open" -> hsx_fuse_open(missing)
    [] op = "release" -> hsx_fuse_release(missing)
    [] op = "opendir" -> hsx_fuse_opendir(missing)
    [] op = "getxattr" -> hsx_fuse_getxattr(missing)
    [] op = "mkdir" -> hsx_fuse_mkdir(missing)
    [] op = "mknod" -> hsx_fuse_mknod(missing)
    [] op = "symlink" -> hsx_fuse_symlink(missing)
=============================================================================
