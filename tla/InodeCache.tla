----------------------------- MODULE InodeCache -----------------------------
(***************************************************************************)
(* The inode cache of lib/hsfs_inode.c and the FUSE lookup-count ledger    *)
(* that the handlers of fuse/ keep on it, as the daemon runs with one      *)
(* worker (-s): handlers run one after another, while the kernel, the      *)
(* server and the other clients of the server act at any time.             *)
(*                                                                         *)
(* An inode is an address returned by malloc; its fields are functions of  *)
(* the address.  An object of the server is its file handle (with its      *)
(* fileid, which nfs_find_actor compares too).  An RPC or NFS error makes  *)
(* a handler reply an errno and change nothing: such a run of a handler is *)
(* a stuttering step here.                                                 *)
(***************************************************************************)
EXTENDS Integers, Sequences

CONSTANTS
  Inode,      \* addresses malloc can return
  NoInode,    \* what is not an inode: NULL, or an ERR_PTR value
  Handle,     \* server objects
  Root,       \* the object the export names
  IdMod,      \* ULONG_MAX + 1, the range of sb->curr_id
  CountMod,   \* 2^32, the values of inode->i_count, an int taken to wrap around
  MaxCount,   \* bound: the kernel keeps at most MaxCount lookups of an inode
  MaxEntries  \* bound: entries in one READDIRPLUS answer

ASSUME ConstantsAssumption ==
  /\ NoInode \notin Inode
  /\ Root \in Handle
  /\ IdMod \in Nat /\ IdMod > 2
  /\ CountMod \in Nat /\ CountMod > 1
  /\ MaxCount \in Nat
  /\ MaxEntries \in Nat

VARIABLES
  kind, excl,                  \* server: what each object is; those made EXCLUSIVE
  curr_id, id_table, fh_table, \* struct hsfs_super
  alloc, ino, fh, private, i_count, \* the heap: struct hsfs_inode
  nlookup, pending,            \* kernel: lookups held; FORGETs queued
  phase, ctx, buf,             \* READDIRPLUS in progress
  linked, dots, iputs,         \* history: uncounted entries, dot entries, iput calls
  status                       \* lifetime of the process

server == <<kind, excl>>
tables == <<curr_id, id_table, fh_table, alloc, ino, fh>>
kernel == <<nlookup, pending>>
readdir == <<phase, ctx, buf>>
history == <<linked, dots, iputs>>
vars == <<server, tables, private, i_count, kernel, readdir, history, status>>

Id == 0 .. IdMod - 1
Kinds == {"none", "dir", "reg", "other"}
Statuses == {"mount", "init", "up", "err_inode", "not_new", "ref_dec",
             "forget_null", "root_ino"}
Entry == [inode : Inode \cup {NoInode}, dot : BOOLEAN]

TypeOK ==
  /\ kind \in [Handle -> Kinds] /\ excl \subseteq Handle
  /\ curr_id \in Id
  /\ id_table \subseteq Inode /\ fh_table \subseteq Inode /\ alloc \subseteq Inode
  /\ ino \in [Inode -> Id]
  /\ fh \in [Inode -> Handle]
  /\ private \in [Inode -> Nat]
  /\ i_count \in [Inode -> 0 .. CountMod - 1]
  /\ nlookup \in [Id -> Nat] /\ pending \in [Id -> Nat]
  /\ phase \in {"idle", "get", "fill", "free"}
  /\ ctx \in Seq(Entry)
  /\ buf \in [Id -> Nat]
  /\ linked \in [Id -> Nat] /\ dots \in [Id -> Nat]
  /\ iputs \in [Inode -> Nat]
  /\ status \in Statuses

-----------------------------------------------------------------------------
(* lib/hsfs_inode.c *)

\* hash_init of both tables, sb->curr_id = 0, and the malloc'd world before.
Init ==
  /\ kind = [h \in Handle |-> IF h = Root THEN "dir" ELSE "none"] /\ excl = {}
  /\ curr_id = 0 /\ id_table = {} /\ fh_table = {} /\ alloc = {}
  /\ ino = [i \in Inode |-> 0] /\ fh = [i \in Inode |-> Root]
  /\ private = [i \in Inode |-> 0] /\ i_count = [i \in Inode |-> 0]
  /\ nlookup = [n \in Id |-> 0] /\ pending = [n \in Id |-> 0]
  /\ phase = "idle" /\ ctx = << >> /\ buf = [n \in Id |-> 0]
  /\ linked = [n \in Id |-> 0] /\ dots = [n \in Id |-> 0]
  /\ iputs = [i \in Inode |-> 0]
  /\ status = "mount"

\* Mutant of FhFind: the is_bad_inode test of nfs_find_actor inverted.
FhFindInverted(h) == {i \in fh_table : fh[i] = h /\ ino[i] = 0}

\* __id_ifind, __fh_ifind with nfs_find_actor: what each hash chain offers.
IdFind(n) == {i \in id_table : ino[i] = n}
FhFind(h) == {i \in fh_table : fh[i] = h /\ ino[i] # 0}

\* hsfs_ilookup.
Ilookup(n) == IF IdFind(n) = {} THEN NoInode ELSE CHOOSE i \in IdFind(n) : TRUE

Least(S) == CHOOSE n \in S : \A m \in S : n <= m

\* The ids the do-while of __inode_add_to_lists can stop at before and after
\* curr_id wraps to 0 and is set to 2.
FreeAbove == {n \in Id : n > curr_id /\ IdFind(n) = {}}
FreeWrapped == {n \in Id : n >= 2 /\ IdFind(n) = {}}
NextId == Least(IF FreeAbove # {} THEN FreeAbove ELSE FreeWrapped)

\* __inode_add_to_lists for the new inode i of handle h; with every id taken
\* its loop does not end.
AddToLists(i, h) ==
  /\ FreeAbove \cup FreeWrapped # {}
  /\ curr_id' = NextId
  /\ ino' = [ino EXCEPT ![i] = NextId]
  /\ fh' = [fh EXCEPT ![i] = h]
  /\ id_table' = id_table \cup {i}
  /\ fh_table' = fh_table \cup {i}

\* Mutant of Iget5: a new inode starts with a usage count of one.
Iget5Counted(h, i) ==
  \/ /\ i \in FhFind(h)
     /\ UNCHANGED <<tables, i_count>>
  \/ /\ FhFind(h) = {}
     /\ i \in Inode \ alloc
     /\ alloc' = alloc \cup {i}
     /\ i_count' = [i_count EXCEPT ![i] = 1]
     /\ AddToLists(i, h)

\* hsfs_iget5_locked: the cached inode of h, or a new one at address i.
Iget5(h, i) ==
  \/ /\ i \in FhFind(h)
     /\ UNCHANGED <<tables, i_count>>
  \/ /\ FhFind(h) = {}
     /\ i \in Inode \ alloc
     /\ alloc' = alloc \cup {i}
     /\ i_count' = [i_count EXCEPT ![i] = 0]
     /\ AddToLists(i, h)

\* inode->private as hsi_nfs_fhget leaves it: alloc_inode zeroes it.
Refs(i) == IF i \in alloc THEN private[i] ELSE 0

\* Mutant of Iput: every put unhashes the inode.
IputUnhash(i) ==
  /\ i_count' = [i_count EXCEPT ![i] = (@ - 1) % CountMod]
  /\ id_table' = id_table \ {i} /\ fh_table' = fh_table \ {i}
  /\ iputs' = [iputs EXCEPT ![i] = IF @ < CountMod THEN @ + 1 ELSE @]
  /\ UNCHANGED <<curr_id, alloc, ino, fh>>

\* hsfs_iput: the count is decremented first; at zero destroy_inode frees the
\* inode and leaves it on both hash chains, unless i_nlink is zero, when
\* generic_delete_inode does nothing.  iputs counts the calls up to CountMod.
Iput(i) ==
  /\ i_count' = [i_count EXCEPT ![i] = (@ - 1) % CountMod]
  /\ alloc' \in IF (i_count[i] - 1) % CountMod = 0 THEN {alloc, alloc \ {i}} ELSE {alloc}
  /\ iputs' = [iputs EXCEPT ![i] = IF @ < CountMod THEN @ + 1 ELSE @]
  /\ UNCHANGED <<curr_id, id_table, fh_table, ino, fh>>

-----------------------------------------------------------------------------
(* Mounting: hsi_fill_super, then the INIT request. *)

\* Without attributes hsi_nfs_fhget returns ERR_PTR(-ENOENT), which IS_ERR
\* does not recognise, so that the assertion on the root's number stops it.
FillSuper ==
  /\ status = "mount"
  /\ \/ \E i \in Inode :
          /\ Iget5(Root, i)
          /\ status' = IF ino'[i] = 1 THEN "init" ELSE "root_ino"
     \/ /\ status' = "root_ino"
        /\ UNCHANGED <<tables, i_count>>
  /\ UNCHANGED <<server, private, kernel, readdir, history>>

\* hsx_fuse_init on sb->root, the inode numbered 1; the kernel holds one lookup of the root.
FuseInit ==
  /\ status = "init"
  /\ LET i == Ilookup(1) IN
     /\ private' = [private EXCEPT ![i] = 1]
     /\ status' = IF private[i] = 0 THEN "up" ELSE "not_new"
  /\ nlookup' = [nlookup EXCEPT ![1] = 1]
  /\ UNCHANGED <<server, tables, i_count, pending, readdir, history>>

-----------------------------------------------------------------------------
(* The environment *)

\* The server makes the object h.
Make(h, k) ==
  /\ kind[h] = "none" /\ k # "none"
  /\ kind' = [kind EXCEPT ![h] = k]

\* Another client of the server creates an object, perhaps EXCLUSIVE with the
\* verifier this client would use (the number of the parent inode).
OtherCreate(h, k) ==
  /\ Make(h, k)
  /\ excl' \in {excl, IF k = "reg" THEN excl \cup {h} ELSE excl}
  /\ UNCHANGED <<tables, private, i_count, kernel, readdir, history, status>>

\* The kernel drops k of its lookups of n and queues a FORGET, which the
\* daemon may read after requests sent later.
KernelForget(n, k) ==
  /\ status = "up"
  /\ n # 1 /\ k \in 1 .. nlookup[n]
  /\ nlookup' = [nlookup EXCEPT ![n] = @ - k]
  /\ pending' = [pending EXCEPT ![n] = @ + k]
  /\ UNCHANGED <<server, tables, private, i_count, readdir, history, status>>

\* The process runs and no freed inode is on a hash chain (walking such a
\* chain is undefined); a handler starts when no other one runs.
Running == status = "up" /\ fh_table \subseteq alloc
Serving == Running /\ phase = "idle"

\* A request that names n, as the object or as the directory it acts on, and
\* the handler found its inode.
Known(n) == nlookup[n] > 0 /\ Ilookup(n) # NoInode
KnownDir(n) == Known(n) /\ kind[fh[Ilookup(n)]] = "dir"

\* fuse_reply_entry or fuse_reply_create with the number n.
ReplyEntry(n) ==
  /\ nlookup[n] + pending[n] + buf[n] < MaxCount
  /\ nlookup' = [nlookup EXCEPT ![n] = @ + 1]

-----------------------------------------------------------------------------
(* Handlers that give the kernel an entry *)

\* The answer lacks attributes or a handle, or malloc fails: the handler goes
\* on with an ERR_PTR value as an inode and dereferences its NULL sb.
UseErrPtr ==
  /\ status' = "err_inode"
  /\ UNCHANGED <<tables, private, i_count, kernel, readdir, history>>

\* Mutant of Lookup: no hsx_fuse_ref_inc.
LookupUncounted(p, h) ==
  /\ Serving /\ KnownDir(p) /\ kind[h] # "none"
  /\ \E i \in Inode :
       /\ Iget5(h, i)
       /\ private' = [private EXCEPT ![i] = Refs(i)]
       /\ ReplyEntry(ino'[i])
  /\ UNCHANGED <<server, pending, readdir, history, status>>

\* hsx_fuse_lookup.
Lookup(p, h) ==
  /\ Serving /\ KnownDir(p) /\ kind[h] # "none"
  /\ UNCHANGED server
  /\ \/ UseErrPtr
     \/ /\ \E i \in Inode :
             /\ Iget5(h, i)
             /\ private' = [private EXCEPT ![i] = Refs(i) + 1]
             /\ ReplyEntry(ino'[i])
        /\ UNCHANGED <<pending, readdir, history, status>>

\* The tail of create, mkdir, mknod and symlink: xchg the reference to one and
\* assert that it was zero.
ReplyNew(h) ==
  /\ \E i \in Inode :
       /\ Iget5(h, i)
       /\ private' = [private EXCEPT ![i] = 1]
       /\ IF Refs(i) = 0
          THEN ReplyEntry(ino'[i]) /\ UNCHANGED status
          ELSE UNCHANGED nlookup /\ status' = "not_new"
  /\ UNCHANGED <<pending, readdir, history>>

\* hsi_nfs3_mkdir, hsi_nfs3_mknod, hsi_nfs3_symlink: the server makes h, and
\* hsi_nfs3_handle_create caches it.
MakeNode(p, h, k) ==
  /\ Serving /\ KnownDir(p)
  /\ Make(h, k) /\ UNCHANGED excl
  /\ UseErrPtr \/ ReplyNew(h)

Mkdir(p, h) == MakeNode(p, h, "dir")
Mknod(p, h) == MakeNode(p, h, "other")
Symlink(p, h) == MakeNode(p, h, "other")

\* The existing file an answer to CREATE may name instead of a new one:
\* GUARDED never, UNCHECKED any, EXCLUSIVE one made with the same verifier.
CreateExisting(how) ==
  CASE how = "UNCHECKED" -> {h \in Handle : kind[h] = "reg"}
    [] how = "GUARDED" -> {}
    [] how = "EXCLUSIVE" -> excl

\* hsx_fuse_create; after EXCLUSIVE a SETATTR sets the mode, and when it fails
\* the handler replies its error with the file made and its inode cached.
Create(p, how, h) ==
  /\ Serving /\ KnownDir(p)
  /\ Make(h, "reg") \/ (h \in CreateExisting(how) /\ UNCHANGED kind)
  /\ excl' = IF how = "EXCLUSIVE" THEN excl \cup {h} ELSE excl
  /\ \/ UseErrPtr
     \/ ReplyNew(h)
     \/ /\ how = "EXCLUSIVE"
        /\ \E i \in Inode :
             /\ Iget5(h, i)
             /\ private' = [private EXCEPT ![i] = Refs(i)]
        /\ UNCHANGED <<kernel, readdir, history, status>>

\* hsx_fuse_link: an entry for the inode itself, with no reference taken.
Link(p, n) ==
  /\ Serving /\ KnownDir(p) /\ Known(n) /\ ~KnownDir(n)
  /\ ReplyEntry(ino[Ilookup(n)])
  /\ linked' = [linked EXCEPT ![ino[Ilookup(n)]] = @ + 1]
  /\ UNCHANGED <<server, tables, private, i_count, pending, readdir, dots, iputs, status>>

\* hsx_fuse_forget, with hsx_fuse_ref_dec.
Forget(n, k) ==
  LET i == Ilookup(n) IN
  /\ Serving /\ k \in 1 .. pending[n]
  /\ pending' = [pending EXCEPT ![n] = @ - k]
  /\ status' = IF i = NoInode THEN "forget_null"
               ELSE IF private[i] < k THEN "ref_dec" ELSE "up"
  /\ private' = IF status' = "up" THEN [private EXCEPT ![i] = @ - k] ELSE private
  /\ IF status' = "up" /\ private[i] = k
     THEN Iput(i)
     ELSE UNCHANGED <<tables, i_count, iputs>>
  /\ UNCHANGED <<server, nlookup, readdir, linked, dots>>

-----------------------------------------------------------------------------
(* hsx_fuse_readdir_plus with hsi_nfs3_readdir_plus, a step per loop turn *)

ReaddirStart(p) ==
  /\ Serving /\ KnownDir(p)
  /\ phase' = "get"
  /\ UNCHANGED <<server, tables, private, i_count, kernel, ctx, buf, history, status>>

\* One entry of the answer, chosen as the loop reaches it.  hsi_nfs_fhget may
\* give an ERR_PTR value, which IS_ERR lets pass into the list.
ReaddirGet(h, dot) ==
  /\ Running /\ phase = "get" /\ Len(ctx) < MaxEntries
  /\ kind[h] # "none" /\ (dot => kind[h] = "dir")
  /\ \/ \E i \in Inode :
          /\ Iget5(h, i)
          /\ private' = [private EXCEPT ![i] = Refs(i)]
          /\ ctx' = Append(ctx, [inode |-> i, dot |-> dot])
     \/ /\ ctx' = Append(ctx, [inode |-> NoInode, dot |-> dot])
        /\ UNCHANGED <<tables, private, i_count>>
  /\ UNCHANGED <<server, kernel, phase, buf, history, status>>

\* The list is complete, or an entry came without a handle or memory (an error
\* for all); or the buffer of a complete list cannot be allocated.
ReaddirGot ==
  /\ Running /\ phase = "get"
  /\ \/ phase' \in {"fill", "free"} /\ UNCHANGED ctx
     \/ phase' = "idle" /\ ctx' = << >>
  /\ UNCHANGED <<server, tables, private, i_count, kernel, buf, history, status>>

\* hsi_nfs3_readdir.c:__free_ctx, one node.  On an ERR_PTR value hsfs_iput
\* decrements a word of bad_hsfs_inode and frees nothing.
ReaddirFree ==
  /\ Running /\ phase = "free"
  /\ IF ctx = << >>
     THEN phase' = "idle" /\ UNCHANGED <<tables, i_count, iputs, ctx>>
     ELSE /\ ctx' = Tail(ctx) /\ UNCHANGED phase
          /\ IF Head(ctx).inode = NoInode
             THEN UNCHANGED <<tables, i_count, iputs>>
             ELSE Iput(Head(ctx).inode)
  /\ UNCHANGED <<server, private, kernel, buf, linked, dots, status>>

\* Mutant of ReaddirFill: the entry is copied before the reference is taken,
\* and the reference is lost with the exact-fit branch.
ReaddirFillUncounted ==
  /\ Running /\ phase = "fill" /\ ctx # << >> /\ Head(ctx).inode # NoInode
  /\ LET n == ino[Head(ctx).inode] IN
     /\ nlookup[n] + pending[n] + buf[n] < MaxCount
     /\ buf' = [buf EXCEPT ![n] = @ + 1]
  /\ ctx' = Tail(ctx)
  /\ UNCHANGED <<server, tables, private, i_count, kernel, phase, history, status>>

\* The entry fits: a reference is taken and the entry is in the buffer.  The
\* kernel takes no lookup for "." and "..".
ReaddirFill ==
  /\ Running /\ phase = "fill" /\ ctx # << >>
  /\ LET i == Head(ctx).inode IN
     IF i = NoInode
     THEN status' = "err_inode" /\ UNCHANGED <<private, ctx, buf, dots>>
     ELSE /\ nlookup[ino[i]] + pending[ino[i]] + buf[ino[i]] + dots[ino[i]] < MaxCount
          /\ private' = [private EXCEPT ![i] = @ + 1]
          /\ ctx' = Tail(ctx)
          /\ IF Head(ctx).dot
             THEN dots' = [dots EXCEPT ![ino[i]] = @ + 1] /\ UNCHANGED buf
             ELSE buf' = [buf EXCEPT ![ino[i]] = @ + 1] /\ UNCHANGED dots
          /\ UNCHANGED status
  /\ UNCHANGED <<server, tables, i_count, kernel, phase, linked, iputs>>

\* The list ends or the next entry does not fit; what is left of the list is
\* freed without touching its inodes (__free_ctx(saved_ctx, 0)).
ReaddirReply ==
  /\ Running /\ phase = "fill"
  /\ ctx # << >> => Head(ctx).inode # NoInode
  /\ nlookup' = [n \in Id |-> nlookup[n] + buf[n]]
  /\ buf' = [n \in Id |-> 0]
  /\ phase' = "idle" /\ ctx' = << >>
  /\ UNCHANGED <<server, tables, private, i_count, pending, history, status>>

Next ==
  \/ FillSuper
  \/ FuseInit
  \/ \E h \in Handle, k \in Kinds : OtherCreate(h, k)
  \/ \E n \in Id, k \in 1 .. MaxCount : KernelForget(n, k)
  \/ \E n \in Id, k \in 1 .. MaxCount : Forget(n, k)
  \/ \E p \in Id, h \in Handle : Lookup(p, h)
  \/ \E p \in Id, h \in Handle : Mkdir(p, h)
  \/ \E p \in Id, h \in Handle : Mknod(p, h)
  \/ \E p \in Id, h \in Handle : Symlink(p, h)
  \/ \E p \in Id, h \in Handle, how \in {"UNCHECKED", "GUARDED", "EXCLUSIVE"} :
       Create(p, how, h)
  \/ \E p \in Id, n \in Id : Link(p, n)
  \/ \E p \in Id : ReaddirStart(p)
  \/ \E h \in Handle, dot \in BOOLEAN : ReaddirGet(h, dot)
  \/ ReaddirGot
  \/ ReaddirFree
  \/ ReaddirFill
  \/ ReaddirReply

Spec == Init /\ [][Next]_vars

-----------------------------------------------------------------------------
(* Properties *)

\* No two cached inodes have the same number, and no cached inode has number
\* 0, which is_bad_inode takes for a bad inode: the loop of
\* __inode_add_to_lists never hands out a number twice.
NumbersUnique ==
  \A i, j \in id_table : ino[i] # 0 /\ (ino[i] = ino[j] => i = j)

\* An object of the server has at most one inode in the cache, however it was
\* reached (lookup, create, readdirplus): hsfs_iget5_locked finds the first.
HandlesUnique ==
  \A i, j \in fh_table : fh[i] = fh[j] => i = j

\* Whatever number the kernel still holds, has a FORGET queued for, or is about
\* to read from a directory buffer, hsfs_ilookup finds: no handler takes its
\* "inode missing" exit, several of which send no reply, and the assertion
\* of hsx_fuse_forget on the looked-up inode holds.
KernelResolves ==
  status # "forget_null" /\
  \A n \in Id : nlookup[n] + pending[n] + buf[n] > 0 => Ilookup(n) # NoInode

\* The ledger: inode->private is the number of lookups the kernel holds, has
\* queued to forget or will read from the directory buffer, plus the entries
\* for "." and ".." and minus the entries hsx_fuse_link sent without counting.
Ledger ==
  status = "up" =>
    \A i \in id_table :
      private[i] + linked[ino[i]] =
        nlookup[ino[i]] + pending[ino[i]] + buf[ino[i]] + dots[ino[i]]

\* hsx_fuse_ref_dec can only meet a FORGET larger than the count of an inode
\* for which hsx_fuse_link has replied, the one whose ledger the FORGET has just
\* put out of balance: no other handler loses a reference.
RefDecOnlyAfterLink ==
  status = "ref_dec" =>
    \E i \in id_table :
      /\ linked[ino[i]] > 0
      /\ private[i] + linked[ino[i]] >
           nlookup[ino[i]] + pending[ino[i]] + buf[ino[i]] + dots[ino[i]]

\* The usage count starts at 0, hsfs_iput decrements it before its test, and
\* nothing increments it: an inode is freed only by the wrap-around of the
\* count, after CountMod calls of hsfs_iput, and is then still on its chains.
FreedOnlyByWrap ==
  \A i \in id_table : i \notin alloc => iputs[i] >= CountMod

\* Once a number has been given to an object it stands for that object for as
\* long as the process lives, whatever the kernel forgets: a number kept by
\* the kernel or by an open file never turns into another file.
NumbersStable ==
  [][\A i \in id_table :
       i \in id_table' /\ ino'[i] = ino[i] /\ fh'[i] = fh[i]]_vars

\* FUSE_ASSERT(ref == 0) "Should be a new one..." in create, mkdir, mknod and
\* symlink (hsx_fuse_create.c:64).
CreatedIsNew == status # "not_new"

-----------------------------------------------------------------------------
(* What the cache is for: it implements NodeNumbers *)

\* The numbers in use and the lookups the daemon has answered for them that no
\* FORGET it has read took back.
Bound == {<<ino[i], fh[i]>> : i \in id_table}
Held == [n \in Id |-> nlookup[n] + pending[n] + buf[n]]

Ids == INSTANCE NodeNumbers WITH Number <- Id, Object <- Handle, bound <- Bound, held <- Held

\* Tables, usage counts, references and directory buffers together do what the
\* FUSE interface promises the kernel: hsfs_iget5_locked binds a number to one
\* object for good, every reply gives a bound number, and hsx_fuse_forget takes
\* back no more than was given, crashes of the daemon included.
ImplementsNodeNumbers == Ids!Spec

-----------------------------------------------------------------------------
(* The inductive invariant behind these properties *)

\* Both tables hold the same inodes, all that malloc gave and never fewer;
\* the list of a directory answer points into them.
TablesAgree ==
  /\ id_table = fh_table /\ alloc \subseteq id_table
  /\ \A k \in 1 .. Len(ctx) : ctx[k].inode \in id_table \cup {NoInode}

\* A number that no cached inode has, has no trace in the ledger.
NumbersBacked ==
  \A n \in Id : IdFind(n) = {} => /\ nlookup[n] = 0 /\ pending[n] = 0 /\ buf[n] = 0
                                  /\ dots[n] = 0 /\ linked[n] = 0

\* The usage count as a function of the calls of hsfs_iput.
UsageCount ==
  /\ \A i \in Inode \ id_table : iputs[i] = 0
  /\ \A i \in id_table :
       iputs[i] < CountMod =>
         i_count[i] = IF iputs[i] = 0 THEN 0 ELSE CountMod - iputs[i]

\* Before INIT only the root may be cached, and nobody holds a reference.
BeforeUp ==
  /\ status = "mount" => id_table = {} /\ curr_id = 0
  /\ status = "init" => IdFind(1) # {}
  /\ status \in {"mount", "init"} =>
       /\ \A i \in Inode : private[i] = 0
       /\ \A n \in Id : /\ nlookup[n] = 0 /\ pending[n] = 0 /\ buf[n] = 0
                        /\ dots[n] = 0 /\ linked[n] = 0

IInv ==
  /\ TypeOK /\ TablesAgree /\ NumbersUnique /\ HandlesUnique /\ NumbersBacked
  /\ Ledger /\ UsageCount /\ BeforeUp
  /\ FreedOnlyByWrap /\ RefDecOnlyAfterLink /\ status # "forget_null"
=============================================================================
