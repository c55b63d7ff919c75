----------------------------- MODULE MountParams -----------------------------
(***************************************************************************)
(* What a mount is told, and what it makes of it: the device name          *)
(* (utils/mount/parse_dev.c), the options and their defaults               *)
(* (nfs3/hsi_nfs3_mount.c), the block sizes taken from FSINFO              *)
(* (nfs3/hsi_nfs3_fsinfo.c) and the counts of statfs                       *)
(* (fuse/hsx_fuse_statfs.c).  These are functions of their arguments.      *)
(***************************************************************************)
EXTENDS Integers, SequencesExt, FiniteSetsExt

CONSTANTS
  Width,            \* bound: bits of the integers statfs adds (64 in the code)
  NFS_MAXHOSTNAME,  \* bound: characters of a host name (255 in the code)
  NFS_MAXPATHNAME,  \* bound: characters of a path (1024 in the code)
  OptSize           \* bound: options new_opts is too small for, if each had
                    \* the same length (the code counts 1024 characters)

-----------------------------------------------------------------------------
(* The device name *)

NoName == [ok |-> FALSE, host |-> <<>>, path |-> <<>>]
Name(host, path) == [ok |-> TRUE, host |-> host, path |-> path]

First(c, s) == SelectInSeq(s, LAMBDA x : x = c)
Before(i, s) == SubSeq(s, 1, i - 1)
After(i, s) == SubSeq(s, i + 1, Len(s))

\* The else of the comma's test has the increment of colon as its statement:
\* with a comma, colon stays on the character that was overwritten by a NUL.
\* The list of names has to be short enough as a whole.
nfs_parse_simple_hostname(dev) ==
  LET colon == First(":", dev)
      comma == First(",", Before(colon, dev))
  IN IF colon = 0 \/ colon - 1 > NFS_MAXHOSTNAME THEN NoName
     ELSE IF comma # 0 THEN Name(Before(comma, dev), <<>>)
     ELSE IF Len(dev) - colon > NFS_MAXPATHNAME THEN NoName
     ELSE Name(Before(colon, dev), After(colon, dev))

nfs_parse_square_bracket(dev) ==
  LET cbrace == First("]", dev)
  IN IF cbrace \in {0, Len(dev)} \/ dev[cbrace + 1] # ":" THEN NoName
     ELSE IF cbrace - 2 > NFS_MAXHOSTNAME \/ Len(dev) - cbrace - 1 > NFS_MAXPATHNAME THEN NoName
     ELSE Name(SubSeq(dev, 2, cbrace - 1), After(cbrace + 1, dev))

\* A URL is refused; "nfs://" is one character here.
nfs_parse_devname(dev) ==
  IF dev # <<>> /\ Head(dev) = "[" THEN nfs_parse_square_bracket(dev)
  ELSE IF dev # <<>> /\ Head(dev) = "nfs://" THEN NoName
  ELSE nfs_parse_simple_hostname(dev)

-----------------------------------------------------------------------------
(* The options *)

AcOptions == {"acregmin", "acregmax", "acdirmin", "acdirmax"}
NumOptions == AcOptions \cup {"rsize", "wsize", "timeo", "retrans", "retry", "port",
                              "mountport", "mountprog", "mountvers", "nfsprog", "nfsvers"}

\* The super block, the two pmaps and retry as the parser finds them; prot is
\* the pm_prot of both servers, tcp the flag NFS_MOUNT_TCP.
NoOptions ==
  [num |-> [n \in NumOptions |-> IF n = "retry" THEN -1 ELSE 0],
   prot |-> "none", tcp |-> FALSE, mounthost |-> "none", len |-> 0, end |-> "none"]

SetOption(s, o) ==
  CASE o.name \in NumOptions -> [s EXCEPT !.num[o.name] = o.val]
    [] o.name = "actimeo" ->
         [s EXCEPT !.num = [n \in NumOptions |-> IF n \in AcOptions THEN o.val ELSE @[n]]]
    [] o.name \in {"tcp", "noudp"} -> [s EXCEPT !.prot = "tcp", !.tcp = TRUE]
    [] o.name = "udp" -> [s EXCEPT !.prot = "udp", !.tcp = FALSE]
    [] o.name = "notcp" -> [s EXCEPT !.prot = "udp"]
    [] o.name = "mounthost" -> [s EXCEPT !.mounthost = IF o.val = 0 THEN "unknown" ELSE "known"]

\* new_opts gets the option, or is too small for it.
NewOpt(s) == IF s.len + 1 >= OptSize THEN [s EXCEPT !.end = "failed"] ELSE [s EXCEPT !.len = @ + 1]

\* One turn of the loop.  "bad" stands for what goes to bad_parameter and
\* "unsupported" for what goes to out_bad; "other" for the options ignored.
ParseOption(s, o) ==
  CASE s.end # "none" \/ o.name = "other" -> s
    [] o.name = "bad" -> [s EXCEPT !.end = "bad"]
    [] o.name = "unsupported" -> [s EXCEPT !.end = "failed"]
    [] OTHER -> NewOpt(SetOption(s, o))

\* A bad parameter ends the loop, skips the mount host, and is no failure.
hsi_nfs3_parse_options(opts) ==
  LET s == FoldLeft(ParseOption, NoOptions, opts)
  IN IF s.end = "none" /\ s.mounthost = "unknown" THEN [s EXCEPT !.end = "failed"] ELSE s

\* Any version of the mount protocol that is given is refused, 3 too.
hsi_nfsmnt_check_compat(s) == s.num["nfsvers"] \notin {0, 3} \/ s.num["mountvers"] # 0

-----------------------------------------------------------------------------
(* Block sizes *)

HSFS_MIN_FILE_IO_SIZE == 1024
HSFS_DEF_FILE_IO_SIZE == 4096
HSFS_MAX_FILE_IO_SIZE == 1048576
DirPages == 8 * 4096   \* HSFS_PAGE_SIZE * HSFS_MAX_READDIR_PAGES

\* The highest bit set; 0 if there is none.  Bytes stays below 2^31.
HighBit(b) == Max({0} \cup {n \in 0 .. 30 : 2^n <= b})

\* A zero or a power of two stays as it is unless the bits are asked for.
hsfs_block_bits(b, nrbitsp) ==
  IF nrbitsp \/ (b # 0 /\ b # 2^HighBit(b)) THEN 2^HighBit(b) ELSE b

hsfs_block_size(b, nrbitsp) ==
  hsfs_block_bits(IF b < HSFS_MIN_FILE_IO_SIZE THEN HSFS_DEF_FILE_IO_SIZE
                  ELSE IF b >= HSFS_MAX_FILE_IO_SIZE THEN HSFS_MAX_FILE_IO_SIZE
                  ELSE b, nrbitsp)

OrDefault(v, d) == IF v = 0 THEN d ELSE v

\* The two times are put back to their defaults together.
Times(min, max, dmin, dmax) ==
  LET lo == OrDefault(min, dmin)
      hi == OrDefault(max, dmax)
  IN IF lo > hi THEN <<dmin, dmax>> ELSE <<lo, hi>>

\* Whatever rsize, wsize and mounthost said, they are overwritten; bsize is
\* not an option and is 0 until now.
hsi_validate_mount_data(s) ==
  LET prot == IF s.prot = "none" THEN "tcp" ELSE s.prot
      size == IF prot = "tcp" THEN 65536 ELSE 8800
  IN [prot |-> prot, tcp |-> s.tcp,
      rsize |-> size, wsize |-> size, bsize |-> hsfs_block_size(0, TRUE),
      timeo |-> OrDefault(s.num["timeo"], 600), retrans |-> OrDefault(s.num["retrans"], 3),
      acreg |-> Times(s.num["acregmin"], s.num["acregmax"], 3, 60),
      acdir |-> Times(s.num["acdirmin"], s.num["acdirmax"], 30, 60),
      retry |-> IF s.num["retry"] = -1 THEN 10000 ELSE s.num["retry"]]

\* hsfs_do_mount up to its first call: what it goes on with, or no mount.
Accepted(opts) ==
  LET s == hsi_nfs3_parse_options(opts) IN s.end # "failed" /\ ~hsi_nfsmnt_check_compat(s)
Super(opts) == hsi_validate_mount_data(hsi_nfs3_parse_options(opts))

\* hsfs_do_unmount's choice of transport.
UmntProt(super) == IF super.tcp THEN "tcp" ELSE "udp"

-----------------------------------------------------------------------------
(* FSINFO and statfs *)

\* Mutant of IoSize: the server's maximum is not looked at.
IoSizeUncapped(size, pref, max) ==
  Min({HSFS_MAX_FILE_IO_SIZE, IF size = 0 THEN hsfs_block_size(pref, FALSE) ELSE size})

\* rsize from rtpref and rtmax, wsize from wtpref and wtmax.
IoSize(size, pref, max) ==
  LET s == IF size = 0 THEN hsfs_block_size(pref, FALSE) ELSE size
      t == IF max >= 512 /\ s > max THEN hsfs_block_size(max, FALSE) ELSE s
  IN Min({HSFS_MAX_FILE_IO_SIZE, t})

hsi_fsinfo_to_super(super, f) ==
  LET rsize == IoSize(super.rsize, f.pref, f.max)
  IN [rsize |-> rsize, wsize |-> IoSize(super.wsize, f.pref, f.max),
      dtsize |-> Min({hsfs_block_size(f.dtpref, FALSE), DirPages, rsize})]

\* f_blocks, f_bfree and f_bavail of hsi_super2statvfs.
BlocksOf(bytes, bits) == ((bytes + 2^bits - 1) % 2^Width) \div 2^bits

=============================================================================
