------------------------------ MODULE SyncCalls ------------------------------
(***************************************************************************)
(* The synchronous calls of lib/libnfs-sync.c and the dispatch of          *)
(* lib/libnfs.c.  Every nfs_x() puts a struct sync_cb_data on its stack,   *)
(* starts nfs_x_async() and waits until the callback has filled it in.     *)
(* nfs_x_async() picks the function of the protocol version in use, or     *)
(* returns -1 ("unsupported").  The NFSv3 functions are not part of the    *)
(* source ("external").  A call is described by                            *)
(*   async   the asynchronous call it starts                               *)
(*   result  what its callback does with a successful answer:              *)
(*             "none"   nothing but the status is kept                     *)
(*             "copy"   the answer is copied into the caller's buffer      *)
(*             "handle" the answer, a handle, is passed on to the caller   *)
(*             "room"   it is copied when it fits or memory is found, and  *)
(*                      otherwise cb_data->status is set to an error       *)
(***************************************************************************)
EXTENDS TLC

Via(async, result) == [async |-> async, result |-> result]

MountCalls ==
    [nfs_mount  |-> Via("nfs_mount_async", "none"),
     nfs_umount |-> Via("nfs_umount_async", "none")]

StatCalls ==
    [nfs_stat    |-> Via("nfs_stat_async", "copy"),
     nfs_stat64  |-> Via("nfs_stat64_async", "copy"),
     nfs_lstat64 |-> Via("nfs_lstat64_async", "copy")]

OpenCalls ==
    [nfs_open  |-> Via("nfs_open_async", "handle"),
     nfs_open2 |-> Via("nfs_open2_async", "handle"),
     nfs_chdir |-> Via("nfs_chdir_async", "none")]

ReadCalls ==
    [nfs_pread |-> Via("nfs_pread_async", "copy"),
     nfs_read  |-> Via("nfs_read_async", "copy"),
     nfs_close |-> Via("nfs_close_async", "none")]

WriteCalls ==
    [nfs_fstat   |-> Via("nfs_fstat_async", "copy"),
     nfs_fstat64 |-> Via("nfs_fstat64_async", "copy"),
     nfs_pwrite  |-> Via("nfs_pwrite_async", "none"),
     nfs_write   |-> Via("nfs_write_async", "none")]

SizeCalls ==
    [nfs_fsync     |-> Via("nfs_fsync_async", "none"),
     nfs_ftruncate |-> Via("nfs_ftruncate_async", "none"),
     nfs_truncate  |-> Via("nfs_truncate_async", "none")]

DirCalls ==
    [nfs_mkdir  |-> Via("nfs_mkdir_async", "none"),
     nfs_mkdir2 |-> Via("nfs_mkdir2_async", "none"),
     nfs_rmdir  |-> Via("nfs_rmdir_async", "none")]

NodeCalls ==
    [nfs_creat  |-> Via("nfs_create_async", "handle"),
     nfs_mknod  |-> Via("nfs_mknod_async", "none"),
     nfs_unlink |-> Via("nfs_unlink_async", "none")]

SeekCalls ==
    [nfs_opendir |-> Via("nfs_opendir_async", "handle"),
     nfs_lseek   |-> Via("nfs_lseek_async", "copy"),
     nfs_lockf   |-> Via("nfs_lockf_async", "none")]

FsCalls ==
    [nfs_fcntl     |-> Via("nfs_fcntl_async", "none"),
     nfs_statvfs   |-> Via("nfs_statvfs_async", "copy"),
     nfs_statvfs64 |-> Via("nfs_statvfs64_async", "copy")]

LinkCalls ==
    [nfs_readlink  |-> Via("nfs_readlink_async", "room"),
     nfs_readlink2 |-> Via("nfs_readlink_async", "room")]

ModeCalls ==
    [nfs_chmod  |-> Via("nfs_chmod_async", "none"),
     nfs_lchmod |-> Via("nfs_lchmod_async", "none"),
     nfs_fchmod |-> Via("nfs_fchmod_async", "none")]

OwnerCalls ==
    [nfs_chown  |-> Via("nfs_chown_async", "none"),
     nfs_lchown |-> Via("nfs_lchown_async", "none"),
     nfs_fchown |-> Via("nfs_fchown_async", "none")]

TimeCalls ==
    [nfs_utimes  |-> Via("nfs_utimes_async", "none"),
     nfs_lutimes |-> Via("nfs_lutimes_async", "none"),
     nfs_utime   |-> Via("nfs_utime_async", "none")]

AccessCalls ==
    [nfs_access  |-> Via("nfs_access_async", "none"),
     nfs_access2 |-> Via("nfs_access2_async", "none"),
     nfs_symlink |-> Via("nfs_symlink_async", "none")]

NameCalls ==
    [nfs_rename |-> Via("nfs_rename_async", "none"),
     nfs_link   |-> Via("nfs_link_async", "none")]

AclCalls ==
    [nfs3_getacl |-> Via("nfs3_getacl_async", "copy"),
     nfs4_getacl |-> Via("nfs4_getacl_async", "room")]

Calls ==
    MountCalls @@ StatCalls @@ OpenCalls @@ ReadCalls @@ WriteCalls @@ SizeCalls
    @@ DirCalls @@ NodeCalls @@ SeekCalls @@ FsCalls @@ LinkCalls @@ ModeCalls
    @@ OwnerCalls @@ TimeCalls @@ AccessCalls @@ NameCalls @@ AclCalls

-----------------------------------------------------------------------------
(* The dispatch on nfs->nfsi->version. *)

Both(f) == [v3 |-> "external", v4 |-> f]
OnlyV3 == [v3 |-> "external", v4 |-> "unsupported"]
OnlyV4(f) == [v3 |-> "unsupported", v4 |-> f]

MountAsync ==
    [nfs_mount_async  |-> Both("nfs4_mount_async"),
     nfs_umount_async |-> Both("nfs_umount_async")]

OpenAsync ==
    [nfs_stat_async    |-> OnlyV3,
     nfs_stat64_async  |-> Both("nfs4_stat64_async"),
     nfs_lstat64_async |-> Both("nfs4_lstat64_async"),
     nfs_open2_async   |-> Both("nfs4_open_async"),
     nfs_open_async    |-> Both("nfs4_open_async"),
     nfs_chdir_async   |-> Both("nfs4_chdir_async"),
     nfs_pread_async   |-> Both("nfs4_pread_async"),
     nfs_read_async    |-> Both("nfs4_pread_async")]

FileAsync ==
    [nfs_pwrite_async    |-> Both("nfs4_pwrite_async"),
     nfs_write_async     |-> Both("nfs4_write_async"),
     nfs_close_async     |-> Both("nfs4_close_async"),
     nfs_fstat_async     |-> OnlyV3,
     nfs_fstat64_async   |-> Both("nfs4_fstat64_async"),
     nfs_fsync_async     |-> Both("nfs4_fsync_async"),
     nfs_ftruncate_async |-> Both("nfs4_ftruncate_async"),
     nfs_truncate_async  |-> Both("nfs4_truncate_async")]

EntryAsync ==
    [nfs_mkdir2_async  |-> Both("nfs4_mkdir2_async"),
     nfs_mkdir_async   |-> Both("nfs4_mkdir2_async"),
     nfs_rmdir_async   |-> Both("nfs4_remove_async"),
     nfs_create_async  |-> Both("nfs4_create_async"),
     nfs_unlink_async  |-> Both("nfs4_remove_async"),
     nfs_mknod_async   |-> Both("nfs4_mknod_async"),
     nfs_opendir_async |-> Both("nfs4_opendir_async")]

LockAsync ==
    [nfs_lseek_async     |-> Both("nfs4_lseek_async"),
     nfs_lockf_async     |-> OnlyV4("nfs4_lockf_async"),
     nfs_fcntl_async     |-> OnlyV4("nfs4_fcntl_async"),
     nfs_statvfs_async   |-> Both("nfs4_statvfs_async"),
     nfs_statvfs64_async |-> Both("nfs4_statvfs_async"),
     nfs_readlink_async  |-> Both("nfs4_readlink_async"),
     nfs_chmod_async     |-> Both("nfs4_chmod_async"),
     nfs_lchmod_async    |-> Both("nfs4_lchmod_async"),
     nfs_fchmod_async    |-> Both("nfs4_fchmod_async")]

AttrAsync ==
    [nfs_chown_async   |-> Both("nfs4_chown_async"),
     nfs_lchown_async  |-> Both("nfs4_lchown_async"),
     nfs_fchown_async  |-> Both("nfs4_fchown_async"),
     nfs_utimes_async  |-> Both("nfs4_utimes_async"),
     nfs_lutimes_async |-> Both("nfs4_lutimes_async"),
     nfs_utime_async   |-> Both("nfs4_utimes_async"),
     nfs_access_async  |-> Both("nfs4_access_async"),
     nfs_access2_async |-> Both("nfs4_access_async")]

NameAsync ==
    [nfs_symlink_async |-> Both("nfs4_symlink_async"),
     nfs_rename_async  |-> Both("nfs4_rename_async"),
     nfs_link_async    |-> Both("nfs4_link_async")]

\* The ACL functions are called directly, whatever the version.
AclAsync ==
    [nfs3_getacl_async |-> [v3 |-> "external", v4 |-> "external"],
     nfs4_getacl_async |-> [v3 |-> "nfs4_getacl_async", v4 |-> "nfs4_getacl_async"]]

Dispatch ==
    MountAsync @@ OpenAsync @@ FileAsync @@ EntryAsync @@ LockAsync @@ AttrAsync
    @@ NameAsync @@ AclAsync
==============================================================================
