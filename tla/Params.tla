------------------------------- MODULE Params -------------------------------
(***************************************************************************)
(* The functions of MountParams and Conversions, each applied once to each *)
(* of a bounded set of inputs, and what they promise: that they agree with *)
(* a reference definition, with their inverse or with one another.         *)
(***************************************************************************)
EXTENDS MountParams, Conversions

CONSTANTS
  DevNames,   \* device names, sequences of characters
  Options,    \* options, records [name, val]
  MaxOptions, \* bound: options in one string
  Bytes,      \* byte counts an option or a server may give
  Chars,      \* codes of the characters of a mount table's field
  MaxField,   \* bound: length of the field for the device
  Dirs,       \* fields for the mount point
  Names,      \* components of a path
  MaxNames    \* bound: components of a path

VARIABLES
  what,   \* the function that is called
  given,  \* its argument
  out     \* <<its result>>, or <<>>

vars == <<what, given, out>>

Bit == {0, 1}
Statuses == SameName \cup Invalid4 \cup Io4
  \cup {"OK", "ACCESS", "NODEV", "DQUOT", "REMOTE", "EXPIRED", "FHEXPIRED", "a new one"}
Entries == [tag : {"USER_OBJ", "USER", "MASK"}, perm : {0, 7}, id : {Undefined, 5}]

Init ==
  /\ out = <<>>
  /\ \/ what = "devname" /\ given \in DevNames
     \/ what = "options" /\ given \in BoundedSeq(Options, MaxOptions)
     \/ what = "block_size" /\ given \in Bytes
     \/ what = "fsinfo" /\ given \in [size : {65536, 8800}, pref : Bytes, max : Bytes, dtpref : Bytes]
     \/ what = "statvfs" /\ given \in [bytes : 0 .. 2^Width - 1, bits : 1 .. Width - 1]
     \/ what = "stat" /\ given \in [known : BOOLEAN, common : Bit, used : 0 .. 2^Word - 1,
                                    size : 0 .. 2^Word - 1, rdev : Bit, atime : Bit, mtime : Bit, ctime : Bit]
     \/ what = "time" /\ given \in SUBSET {"ATIME", "ATIME_NOW"}
     \/ what = "errno" /\ given \in Statuses
     \/ what = "acl" /\ given \in [acl : BoundedSeq(Entries, 2), size : 0 .. 40]
     \/ what = "mode" /\ given \in 0 .. 511
     \/ what = "line" /\ given \in [fsname : BoundedSeq(Chars, MaxField), dir : Dirs]
     \/ what = "path" /\ given \in BoundedSeq(Names, MaxNames)

Call(f, result) ==
  /\ what = f /\ out = <<>>
  /\ out' = <<result>>
  /\ UNCHANGED <<what, given>>

Next ==
  \/ Call("devname", nfs_parse_devname(given))
  \/ Call("options", [accepted |-> Accepted(given), super |-> Super(given)])
  \/ Call("block_size", hsfs_block_size(given, FALSE))
  \/ Call("block_size", hsfs_block_size(given, TRUE))
  \/ Call("fsinfo", hsi_fsinfo_to_super([rsize |-> given.size, wsize |-> given.size], given))
  \/ Call("statvfs", BlocksOf(given.bytes, given.bits))
  \/ Call("stat", [getattr |-> hsi_nfs3_fattr2stat(given),
                   others |-> hsfs_generic_fillattr(given, hsfs_block_size(0, TRUE))])
  \/ Call("time", TimeSent(hsx_fuse_stat2iattr(given)))
  \/ Call("errno", [v3 |-> hsi_nfs3_stat_to_errno(given), v4 |-> nfsstat4_to_errno(given)])
  \/ Call("acl", LET x == posix_acl_to_xattr(given.acl, given.size)
                 IN [ret |-> x.ret,
                     acl |-> IF x.ret = ERANGE THEN <<>> ELSE posix_acl_from_xattr(x.entries, x.ret)])
  \/ Call("mode", posix_acl_from_mode(given))
  \/ Call("line", nfs_getmntent(nfs_addmntent(given)))
  \/ Call("path", nfs_normalize_path(given))

Spec == Init /\ [][Next]_vars

-----------------------------------------------------------------------------
(* Properties *)

Returned(f) == what = f /\ out # <<>>

\* The options the parser looks at: it stops after the first bad one.
Seen(opts) ==
  LET i == SelectInSeq(opts, LAMBDA o : o.name \in {"bad", "unsupported"})
  IN IF i = 0 THEN opts ELSE Before(i + 1, opts)
Given(names) == SelectSeq(Seen(given), LAMBDA o : o.name \in names)
LastGiven(names) == IF Given(names) = <<>> THEN 0 ELSE Last(Given(names)).val

\* nfs_parse_devname takes a device name apart at the colon that ends the host
\* without losing or adding a character: the host, in brackets or not, a colon
\* and the path are the name again.  Only with a comma before the colon do they
\* not: then the host is the first name, and the path, which the server has to
\* export, is empty, although the comment in nfs_parse_simple_hostname announces
\* the first name of the list and nothing else.  It refuses a name only if it is
\* a URL, has no such colon, or has a host or path that is too long.
DevNameSplit ==
  Returned("devname") =>
    LET r == out[1]
        bracket == given # <<>> /\ Head(given) = "["
        colon == IF bracket THEN First("]", given) + 1 ELSE First(":", given)
    IN /\ r.ok => Len(r.host) <= NFS_MAXHOSTNAME /\ Len(r.path) <= NFS_MAXPATHNAME
       /\ r.ok =>
            \/ given = r.host \o <<":">> \o r.path /\ First(":", r.host) = 0
            \/ given = <<"[">> \o r.host \o <<"]", ":">> \o r.path /\ First("]", r.host) = 0
            \/ r.path = <<>> /\ IsPrefix(r.host \o <<",">>, given) /\ First(",", r.host) = 0
       /\ ~r.ok =>
            \/ colon \notin 1 .. Len(given) \/ given[colon] # ":"
            \/ Head(given) = "nfs://"
            \/ colon - 1 > NFS_MAXHOSTNAME + (IF bracket THEN 2 ELSE 0)
            \/ Len(given) - colon > NFS_MAXPATHNAME

\* hsfs_do_mount refuses a string of options for one of five reasons, and for
\* no other: more options before any bad parameter than new_opts holds; an option nobody knows, before any bad parameter; a mount host that
\* does not resolve, in a string without a bad parameter; a version of NFS other
\* than 3; any version of the mount protocol, although the message of
\* hsi_nfsmnt_check_compat says that 3 is supported.
RefusedFor ==
  Returned("options") =>
    LET stop == Given({"bad", "unsupported"})
        kept == SelectSeq(Seen(given), LAMBDA o : o.name \notin {"bad", "unsupported", "other"})
    IN ~out[1].accepted <=>
         \/ Len(kept) >= OptSize
         \/ stop # <<>> /\ stop[1].name = "unsupported"
         \/ stop = <<>> /\ Given({"mounthost"}) # <<>> /\ LastGiven({"mounthost"}) = 0
         \/ LastGiven({"nfsvers"}) \notin {0, 3}
         \/ LastGiven({"mountvers"}) # 0

\* UMNT goes over the transport that MNT went over if an option chose it.  With
\* no such option the mount uses TCP and the unmount UDP, for the default is
\* put in pm_prot and not in the flag hsfs_do_unmount reads; and after an
\* option for TCP, notcp changes the one and not the other.
UnmountTransport ==
  Returned("options") /\ out[1].accepted =>
    LET chosen == Given({"tcp", "noudp", "udp", "notcp"})
        \* the last option that touches the flag
        flag == SelectLastInSeq(chosen, LAMBDA o : o.name # "notcp")
    IN UmntProt(out[1].super) = out[1].super.prot <=>
         /\ chosen # <<>>
         /\ Last(chosen).name = "notcp" => flag = 0 \/ chosen[flag].name = "udp"

\* Whatever the options, the attribute times the daemon runs with are positive
\* and ordered, and a pair of positive and ordered times that was given, as
\* such or by actimeo, is the pair it runs with.
TimesKept ==
  Returned("options") /\ out[1].accepted =>
    LET kept(min, max, t) ==
          /\ 0 < t[1] /\ t[1] <= t[2]
          /\ 0 < LastGiven({min, "actimeo"}) /\ LastGiven({min, "actimeo"}) <= LastGiven({max, "actimeo"})
             => t = <<LastGiven({min, "actimeo"}), LastGiven({max, "actimeo"})>>
    IN kept("acregmin", "acregmax", out[1].super.acreg) /\ kept("acdirmin", "acdirmax", out[1].super.acdir)

\* The size hsfs_block_size gives is a power of two of the range of I/O sizes,
\* and the greatest one that is not above what was asked for, if that is in the
\* range.
BlockSizeNearest ==
  Returned("block_size") =>
    /\ \E n \in 10 .. 20 : out[1] = 2^n
    /\ given \in HSFS_MIN_FILE_IO_SIZE .. HSFS_MAX_FILE_IO_SIZE => out[1] <= given /\ given < 2 * out[1]

\* After FSINFO a request is never empty and never above what the server takes
\* or what the daemon supports, and a READDIRPLUS reply fits a READ: for every
\* server, whatever rsize and wsize the mount began with.  A server whose
\* maximum is below 1024 is asked for more than it takes, for hsfs_block_size
\* makes 4096 of it (and one below 512 is not believed).
IoSizesFit ==
  Returned("fsinfo") =>
    LET s == out[1]
    IN /\ \A n \in {s.rsize, s.wsize} :
            /\ 0 < n /\ n <= HSFS_MAX_FILE_IO_SIZE
            /\ given.max >= HSFS_MIN_FILE_IO_SIZE => n <= given.max
       /\ 0 < s.dtsize /\ s.dtsize <= s.rsize /\ s.dtsize <= DirPages

\* statfs counts the blocks that hold the bytes the server reported, the last
\* one included; a server that reports within a block of the greatest number
\* (for "no limit") is shown to have none, as the sum wraps.
StatvfsRoundsUp ==
  Returned("statvfs") =>
    LET block == 2^given.bits
    IN IF given.bytes > 2^Width - block THEN out[1] = 0
       ELSE out[1] * block >= given.bytes /\ (out[1] - 1) * block < given.bytes

\* getattr and the replies that go through the inode show a process the same
\* file differently in st_blksize, which getattr leaves 0.  In the rest they
\* agree but for: a device, a use that does not fill its last block, a size no
\* off_t holds (or the greatest one), a change time with a fraction, access and
\* modification times with different ones, and a file of unknown type, of which
\* getattr shows nothing.  The kernel caches either conversion in turn, so in
\* each of these cases a file seems to change that does not.
StatsAgree ==
  Returned("stat") =>
    LET getattr == out[1].getattr
        others == out[1].others
        differ == {x \in DOMAIN getattr : getattr[x] # others[x]}
    IN differ = {"blksize"} \cup
         IF ~given.known THEN {x \in DOMAIN others : others[x] # 0}
         ELSE {x \in {"rdev", "ctime"} : given[x] # 0}
              \cup {x \in {"mtime"} : given.atime # given.mtime}
              \cup {x \in {"blocks"} : given.used % 2^BlockBits # 0}
              \cup {x \in {"size"} : given.size >= LLONG_MAX}

\* setattr sends a time exactly when the kernel asked to set one, and what it
\* sends is the server's present: the explicit time of utimes(2) is converted,
\* marked as given (ATIME_SET) and then overwritten.
TimeSetByServer ==
  Returned("time") => out[1] = IF "ATIME" \in given THEN "server" ELSE "keep"

\* No failure of either protocol is taken for success, and a process sees one
\* errno for one status whichever protocol is spoken, but for those that NFSv4
\* calls invalid and v3 has no errno for, a stale handle, a quota, and what
\* only one of the tables has.
ErrnosAgree ==
  Returned("errno") =>
    /\ (out[1].v3 = "0") = (given = "OK") /\ (out[1].v4 = "0") = (given = "OK")
    /\ out[1].v3 # out[1].v4 =>
         given \in Invalid4 \cup {"STALE", "DQUOT", "NODEV", "REMOTE", "EXPIRED", "FHEXPIRED", "a new one"}

\* An access control list read with getxattr and set again with setxattr is the
\* same list, ids that mean nothing apart; a buffer that is too small is always
\* told from one that was filled, although both are positive results; and the
\* list made of a mode, which stands in for a missing one, gives that mode.
AclRoundTrip ==
  /\ Returned("acl") =>
       /\ out[1].ret = ERANGE <=> given.size < XattrSize(Len(given.acl))
       /\ out[1].ret # ERANGE => out[1].acl = [i \in DOMAIN given.acl |->
            IF given.acl[i].tag = "USER" THEN given.acl[i] ELSE [given.acl[i] EXCEPT !.id = Undefined]]
  /\ Returned("mode") =>
       given = 64 * out[1][1].perm + 8 * out[1][2].perm + out[1][3].perm

\* A line written to the mount table is read back as it was, whatever blanks,
\* backslashes and digits its fields have, so that it is found again at the
\* unmount; but not if a field is empty, if the device begins with the sign of a
\* comment, which mangle does not escape, or if it is longer than the buffer.
LineRoundTrip ==
  Returned("line") =>
    (out[1] = {given} <=>
       /\ given.fsname # <<>> /\ given.dir # <<>>
       /\ Head(given.fsname) # Hash
       /\ Len(nfs_addmntent(given)) < LineSize - 1)

\* Reference: the components walked one by one; above the root there is nothing.
Walk(names) ==
  FoldLeft(LAMBDA w, n : CASE ~w.ok \/ n \in {"", "."} -> w
                           [] n = ".." -> IF w.at = <<>> THEN [w EXCEPT !.ok = FALSE]
                                          ELSE [w EXCEPT !.at = Front(@)]
                           [] OTHER -> [w EXCEPT !.at = Append(@, n)],
           [ok |-> TRUE, at |-> <<>>], names)

\* nfs_normalize_path rewrites a path to the one that a walk of its components
\* ends at, and fails exactly if the walk leaves the root or the path is empty.
\* A path that ends at the root may become the empty string, with no error,
\* although the function has one for it.
PathCanonical ==
  Returned("path") =>
    LET w == Walk(given)
    IN /\ out[1].ok = (w.ok /\ given # <<>>)
       /\ out[1].ok => out[1].path = w.at \/ (w.at = <<>> /\ out[1].path = <<"">>)

\* What is taken apart is put together again: device names (nfs_parse_devname),
\* access control lists (hsi_acl3.c), lines of the mount table (nfs_mntent.c).
RoundTrips == DevNameSplit /\ AclRoundTrip /\ LineRoundTrip

\* Two parts of the code that interpret one thing agree on it, or differ where
\* it is said above: the two conversions of attributes, the two tables of
\* errnos, the transports of MNT and UMNT.
ViewsAgree == StatsAgree /\ ErrnosAgree /\ UnmountTransport

\* What is computed from options, from FSINFO and FSSTAT, from the times of
\* setattr and from paths is what a definition that does not follow the code
\* says it should be, with the exceptions given above.
MeetsReference ==
  /\ RefusedFor /\ TimesKept
  /\ BlockSizeNearest /\ IoSizesFit /\ StatvfsRoundsUp
  /\ TimeSetByServer /\ PathCanonical
=============================================================================
