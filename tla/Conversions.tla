----------------------------- MODULE Conversions -----------------------------
(***************************************************************************)
(* The conversions between what the kernel, the daemon, the server and the *)
(* mount table say: attributes (nfs3/hsi_nfs3_fattr2stat.c,                *)
(* nfs3/hsi_nfs3_lookup.c, lib/hsfs_inode.c), times (fuse/                 *)
(* hsx_fuse_stat2iattr.c, nfs3/hsi_nfs3_setattr.c), statuses               *)
(* (nfs3/hsi_nfs3_unlink.c, nfs4/nfs4.c), access control lists             *)
(* (nfs3/hsi_acl3.c), the fields of the mount table (nfs3/nfs_mntent.c)    *)
(* and libnfs's paths (lib/libnfs.c).                                      *)
(***************************************************************************)
EXTENDS Integers, SequencesExt

CONSTANTS
  Word,       \* bound: bits of a size (64 in the code)
  BlockBits,  \* bound: bits of a block of st_blocks (9 in the code)
  LineSize    \* bound: bytes of the buffer for a line of the mount table (4096)

-----------------------------------------------------------------------------
(* Attributes.  A fattr3 is [known, common, used, size, rdev, atime, mtime,  *)
(* ctime]: known that the type is one of the protocol's, common the links,   *)
(* the owners and the seconds of the times, which have the same code, and    *)
(* the times their nanoseconds.                                              *)

LLONG_MAX == 2^(Word - 1) - 1

\* Mutant of nfs_size_to_off_t: a size is cast, not clamped.
SizeCast(size) == IF size > LLONG_MAX THEN size - 2^Word ELSE size

nfs_size_to_off_t(size) == IF size > LLONG_MAX - 1 THEN LLONG_MAX - 1 ELSE size

nfs_calc_block_size(used) == ((used + 2^BlockBits - 1) % 2^Word) \div 2^BlockBits

NoStat == [blksize |-> 0, common |-> 0, blocks |-> 0, size |-> 0, rdev |-> 0,
           atime |-> 0, mtime |-> 0, ctime |-> 0]

\* What hsx_fuse_getattr replies: its stat is zeroed and then converted, and
\* the error for an unknown type is dropped by hsi_nfs3_do_getattr.
hsi_nfs3_fattr2stat(f) ==
  IF ~f.known THEN NoStat
  ELSE [blksize |-> 0, common |-> f.common, blocks |-> f.used \div 2^BlockBits,
        size |-> IF f.size > LLONG_MAX THEN f.size - 2^Word ELSE f.size,
        rdev |-> f.rdev, atime |-> f.atime, mtime |-> f.atime, ctime |-> 0]

\* What the other replies say of the same attributes, through the inode:
\* hsi_nfs3_fattr2fattr, nfs_update_inode, hsfs_generic_fillattr.  Nothing
\* assigns i_rdev; i_blkbits is that of the mount's block size.
hsfs_generic_fillattr(f, bsize) ==
  [blksize |-> bsize, common |-> f.common,
   blocks |-> nfs_calc_block_size(f.used), size |-> nfs_size_to_off_t(f.size),
   rdev |-> 0, atime |-> f.atime, mtime |-> f.mtime, ctime |-> f.ctime]

-----------------------------------------------------------------------------
(* Setting a time.  to_set holds ATIME if one is to be set and ATIME_NOW if  *)
(* it is the present; mtime has the same code.                               *)

hsx_fuse_stat2iattr(to_set) ==
  IF "ATIME" \notin to_set THEN {}
  ELSE {"ATIME"} \cup (IF "ATIME_NOW" \in to_set THEN {} ELSE {"ATIME_SET"})

\* hsi_nfs3_setattr: S_ISSETATIMENOW tests the bit that stands for both.
TimeSent(valid) ==
  IF "ATIME" \in valid THEN "server" ELSE IF "ATIME_SET" \in valid THEN "client" ELSE "keep"

-----------------------------------------------------------------------------
(* Statuses, without the prefixes NFS3ERR_ and NFS4ERR_, to the names of     *)
(* errnos without the E.                                                     *)

SameName == {"PERM", "NOENT", "IO", "NXIO", "EXIST", "XDEV", "NOTDIR", "ISDIR", "INVAL", "FBIG",
             "NOSPC", "ROFS", "MLINK", "NAMETOOLONG", "NOTEMPTY"}

hsi_nfs3_stat_to_errno(s) ==
  CASE s = "OK" -> "0"
    [] s \in SameName \cup {"NODEV", "DQUOT", "STALE", "REMOTE"} -> s
    [] s = "ACCESS" -> "ACCES"
    [] OTHER -> "IO"

Invalid4 == {"BADHANDLE", "BAD_COOKIE", "NOTSUPP", "BADTYPE", "BAD_STATEID", "BAD_SEQID",
             "ATTRNOTSUPP", "BADZDR", "BADOWNER", "BADCHAR", "BADNAME", "BAD_RANGE", "LOCK_NOTSUPP"}
Io4 == {"STALE", "TOOSMALL", "SERVERFAULT", "DELAY", "SAME", "DENIED", "LOCKED", "GRACE",
        "SHARE_DENIED", "WRONGSEC", "CLID_INUSE", "RESOURCE", "MOVED", "NOFILEHANDLE",
        "MINOR_VERS_MISMATCH", "STALE_CLIENTID", "STALE_STATEID", "OLD_STATEID", "NOT_SAME",
        "LOCK_RANGE", "SYMLINK", "RESTOREFH", "NO_GRACE", "RECLAIM_BAD", "RECLAIM_CONFLICT",
        "LOCKS_HELD", "OPENMODE", "OP_ILLEGAL", "DEADLOCK", "FILE_OPEN", "ADMIN_REVOKED",
        "CB_PATH_DOWN"}

\* The results are negative in the code.
nfsstat4_to_errno(s) ==
  CASE s = "OK" -> "0"
    [] s \in SameName -> s
    [] s = "ACCESS" -> "ACCES"
    [] s \in Invalid4 -> "INVAL"
    [] s \in {"EXPIRED", "FHEXPIRED"} -> "AGAIN"
    [] s \in Io4 -> "IO"
    [] OTHER -> "RANGE"   \* DQUOT, and what the table does not have

-----------------------------------------------------------------------------
(* Access control lists: sequences of entries [tag, perm, id] *)

ObjTags == {"USER_OBJ", "GROUP_OBJ", "MASK", "OTHER"}
Tags == ObjTags \cup {"USER", "GROUP"}
Undefined == -1
ERANGE == 34

\* sizeof(posix_acl_xattr_header) and of an entry.
XattrSize(count) == 4 + 8 * count

\* What is returned, and what is written in a buffer of that size.
posix_acl_to_xattr(acl, size) ==
  LET real_size == XattrSize(Len(acl))
  IN IF real_size > size THEN [ret |-> ERANGE, entries |-> <<>>]
     ELSE [ret |-> real_size, entries |-> acl]

\* A list, or <<>> for NULL.  The version is the right one: the kernel checks it.
posix_acl_from_xattr(entries, size) ==
  LET count == (size - 4) \div 8
  IN IF size < 4 \/ (size - 4) % 8 # 0 \/ count = 0 \/ \E i \in 1 .. count : entries[i].tag \notin Tags
     THEN <<>>
     ELSE [i \in 1 .. count |->
             IF entries[i].tag \in ObjTags THEN [entries[i] EXCEPT !.id = Undefined] ELSE entries[i]]

posix_acl_from_mode(mode) ==
  << [tag |-> "USER_OBJ", perm |-> (mode \div 64) % 8, id |-> Undefined],
     [tag |-> "GROUP_OBJ", perm |-> (mode \div 8) % 8, id |-> Undefined],
     [tag |-> "OTHER", perm |-> mode % 8, id |-> Undefined] >>

-----------------------------------------------------------------------------
(* The lines of the mount table, sequences of character codes *)

Space == 32
Tab == 9
NewLine == 10
Hash == 35
Backslash == 92
Zero == 48
Blank == {Space, Tab}

Escape(c) == <<Backslash, Zero + c \div 64, Zero + ((c \div 8) % 8), Zero + (c % 8)>>

\* Mutant of mangle: the escape character is not escaped.
MangleSpaces(s) ==
  FlattenSeq([i \in DOMAIN s |->
    IF s[i] \in {Space, Tab, NewLine} THEN Escape(s[i]) ELSE <<s[i]>>])

mangle(s) ==
  FlattenSeq([i \in DOMAIN s |->
    IF s[i] \in {Space, Tab, NewLine, Backslash} THEN Escape(s[i]) ELSE <<s[i]>>])

IsOctal(s, i) == i <= Len(s) /\ s[i] \in Zero .. Zero + 7

\* The escape is looked for past the field's end too, where it cannot be.
RECURSIVE unmangle(_)
unmangle(s) ==
  IF s = <<>> \/ Head(s) \in Blank THEN <<>>
  ELSE IF Head(s) = Backslash /\ \A i \in 2 .. 4 : IsOctal(s, i)
  THEN <<64 * (s[2] - Zero) + 8 * (s[3] - Zero) + s[4] - Zero>> \o unmangle(SubSeq(s, 5, Len(s)))
  ELSE <<Head(s)>> \o unmangle(Tail(s))

\* What of s is left after the first i - 1 characters; nothing if i is 0.
From(s, i) == IF i = 0 THEN <<>> ELSE SubSeq(s, i, Len(s))
skip_spaces(s) == From(s, SelectInSeq(s, LAMBDA c : c \notin Blank))
skip_nonspaces(s) == From(s, SelectInSeq(s, LAMBDA c : c \in Blank))

\* One character stands for the type, the options and the numbers.
nfs_addmntent(m) == mangle(m.fsname) \o <<Space>> \o mangle(m.dir) \o <<Space, Zero>>

\* The entry of a line of its own, or none: the line is a comment, or with its
\* end does not fit fgets's buffer.
nfs_getmntent(line) ==
  LET s == skip_spaces(line)
      d == skip_spaces(skip_nonspaces(s))
  IN IF Len(line) + 1 > LineSize - 1 \/ s = <<>> \/ Head(s) = Hash THEN {}
     ELSE {[fsname |-> unmangle(s), dir |-> unmangle(d)]}

-----------------------------------------------------------------------------
(* libnfs's paths, sequences of names with a slash before each: a last name  *)
(* of "" is a slash at the end, and <<>> the empty string                    *)

\* The loops that make one slash of several, and of a dot between slashes.
DropNames(s) == SelectSeq(Front(s), LAMBDA n : n \notin {"", "."}) \o <<Last(s)>>

\* The loop for /string/../; <<>> is its error, and no path becomes that.
RECURSIVE DropParents(_)
DropParents(s) ==
  LET i == SelectInSeq(Front(s), LAMBDA n : n = "..")
  IN IF i = 0 THEN s ELSE IF i = 1 THEN <<>>
     ELSE DropParents(SubSeq(s, 1, i - 2) \o SubSeq(s, i + 1, Len(s)))

\* The tests of the path's end.
TrimPath(s) ==
  LET a == IF Len(s) > 1 /\ Last(s) = "" THEN Front(s) ELSE s
      b == IF Last(a) = "." THEN Front(a) ELSE a
      up == b # <<>> /\ Last(b) = ".."
  IN [ok |-> b # <<"..">>, path |-> IF up /\ Len(b) > 1 THEN SubSeq(b, 1, Len(b) - 2) ELSE b]

nfs_normalize_path(path) ==
  LET p == IF path = <<>> THEN <<>> ELSE DropParents(DropNames(path))
  IN IF p = <<>> THEN [ok |-> FALSE, path |-> path] ELSE TrimPath(p)

=============================================================================
