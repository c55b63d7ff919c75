# A verification project for nfs-fuse

nfs-fuse is an NFSv3 client that runs as a FUSE daemon.  The kernel sends it file
system requests; each handler of `fuse/` finds the inode a request names, calls a
procedure of `nfs3/`, which makes one or more remote calls to the server, and
replies to the kernel.  `lib/` also carries a copy of the NFSv4 part of libnfs.  This
directory holds TLA+ models of these parts, the configurations that check them with
TLC, and theorems proved with TLAPS.

## The parts of the system and their modules

| part | source | modules |
| --- | --- | --- |
| inode cache, lookup counts | `lib/hsfs_inode.c`, `nfs_common/hsi_nfs_inode.c`, `include/hsx_fuse.h`, the handlers that reply an entry | `InodeCache`, its abstract specification `NodeNumbers`, the proofs in `InodeCacheProofs` |
| the same with several workers | `lib/hsfs_inode.c`, `nfs_common/hsi_nfs_inode.c` | `IgetWorkers`, the proofs in `IgetWorkersLemmas` and `IgetWorkersProofs` |
| attributes, reads and writes, ACLs, replies | `fuse/hsx_fuse_*.c`, `nfs_common/hsi_nfs_inode.c`, `nfs3/hsi_nfs3_*.c` | `AttrCache`, `FuseReplies`, the proofs in `AttrCacheLemmas` and `AttrCacheProofs` |
| listing a directory | `fuse/hsx_fuse_readdir.c`, `nfs3/hsi_nfs3_readdir.c` | `DirStream`, the proofs in `DirStreamProofs` |
| remote calls, reconnection | `nfs3/hsi_nfs3_mount.c` | `RpcClient`, its proofs in `RpcClientProofs` |
| mounting, the session, unmounting | `nfs3/hsi_nfs3_mount.c`, `fuse/hsfs_main.c` | `Mount` |
| options, device names, sizes, conversions | `nfs3/hsi_nfs3_mount.c`, `utils/mount/parse_dev.c`, `nfs3/hsi_nfs3_fsinfo.c`, `nfs3/hsi_acl3.c`, ... | `MountParams`, `Conversions`, and `Params`, which calls them |
| mtab | `nfs3/fstab.c`, `nfs3/nfs_mntent.c` | `MtabLock`, its proofs in `MtabLockProofs`; `Conversions` |
| NFSv4 calls, synchronous API | `lib/nfs_v4.c`, `lib/libnfs-sync.c`, `lib/libnfs.c`, `nfs4/nfs4.c` | `Nfs4Calls`, `SyncCalls`, `Nfs4Client` |

How they interact: `main` parses the command line, `hsfs_do_mount` gets the root
handle from the mount server, makes an NFS and an ACL client and fills the super
block, and the FUSE session loop then calls the handlers, one at a time with `-s`
and from several worker threads otherwise.  A handler turns the number in a request
into an inode (`hsfs_ilookup`), calls a procedure of `nfs3/`, which calls the server
through `hsi_nfs3_clnt_call`, and puts what it learns into the inode cache.
`lib/nfs_v4.c` is linked into the daemon, but nothing calls it yet, and no makefile
builds `lib/libnfs.c` and `lib/libnfs-sync.c`.

`MC...` modules give the constants for TLC.  The operators whose comment begins with
"Mutant of" are variants of the next definition with a plausible mistake in it.  They
are not part of the model; each makes a property fail, which shows that the property
depends on that piece of the code.  The `TypeOK` of a module documents the types of
its variables.  Those of the modules with proofs are proved as part of
their inductive invariants; the others hold on the instances below and
can be added to a configuration, but no run lists them.

| run | module | distinct states | properties |
| --- | --- | --- | --- |
| `icache` | `InodeCache` | 466,159 | `HandlesUnique`, `KernelResolves`, `Ledger`, `RefDecOnlyAfterLink`, `FreedOnlyByWrap`, `ImplementsNodeNumbers` |
| `iget` | `IgetWorkers` | 898,263 | `SettledStay`, `AloneIsSafe`, `HarmOnlyWhenRaced`, `Answered` |
| `attr` | `AttrCache` | 2,001,616 | `RepliedOnce`, `OutcomeTold`, `AttributesReal`, `SizeSetUnlessStale`, `CreatedRight`, `TransferExact`, `AclsCrossedAlone` |
| `dir` | `DirStream` | 651,326 | `ListingExact`, `ListingEnds` |
| `rpc` | `RpcClient` | 854,358 | `MisuseExplained`, `ClientsKept`, `ExecsBounded`, `CallReturns` |
| `mount` | `Mount` | 1,888 | `ServerReleased`, `StopExplained`, `ForegroundEnds` |
| `mtab` | `MtabLock` | 824,640 | `OnlyCreatorProceeds`, `LeftExplained`, `NoLostUpdate`, `Finishes` |
| `params` | `Params` | 754,524 | `RoundTrips`, `ViewsAgree`, `MeetsReference` |
| `nfs4` | `Nfs4Client` | 1,469,308 | `ExactlyOneAnswer`, `ResourcesReturned`, `FrameLive`, `CompoundsRight`, `OpenLedger` |
| `nfs4_live` | `Nfs4Client` | 199,695 | `Answered`, `MutexReleased` |
| `icache_created_is_new` | `InodeCache` | violated | `CreatedIsNew` |
| `mtab_never_both` | `MtabLock` | violated | `NeverBoth` |

Many properties are of the form "this holds, except ...": the code has exits that
break it, and the property names all of them.  It then says that there are no others.
"What the source says and the code does not do" lists those exits that contradict a
comment or an assertion.

## InodeCache: the inode cache and the lookup counts

An inode is an address `malloc` may return; `id_table`, `fh_table`, `curr_id`, `ino`,
`private` and `i_count` are the fields of the same name, and `alloc` is the set of
addresses not freed.  A server object is its file handle with its fileid.  The kernel
is `nlookup` (lookups it holds per number) and `pending` (FORGET requests it has
queued).  `curr_id` and `i_count` keep their width (`IdMod`, `CountMod`), and so the
wrap-around of either is part of the model.

Each handler that gives the kernel an entry is one action (`Lookup`, `Create`,
`Mkdir`, `Mknod`, `Symlink`, `Link`), as are `Forget`, `FillSuper` (the root inode,
made by the mount) and `FuseInit`.  READDIRPLUS is five actions, one entry per step,
because its error path releases what it had collected.  `OtherCreate` is another
client of the server and `KernelForget` the kernel; they can take a step between any
two steps of the daemon.  An RPC or NFS error makes a handler answer an errno and
change nothing here, so it is a stuttering step.  `status` records how the process
ended, when an assertion failed or an error pointer was used as an inode.

The module models one worker (`-s`); `IgetWorkers` is the cache with several.

| property | says |
| --- | --- |
| `NumbersUnique`, `HandlesUnique` | one inode per number and per server object |
| `KernelResolves` | every number the kernel can send is found |
| `Ledger` | `private` is what the kernel holds, plus dot entries, minus entries of `hsx_fuse_link` |
| `RefDecOnlyAfterLink` | `hsx_fuse_ref_dec` underflows only for an inode that `hsx_fuse_link` has replied, whose ledger the FORGET has put out of balance |
| `FreedOnlyByWrap` | an inode is freed only when its usage count wraps |
| `NumbersStable` | no step gives a number to another object |
| `ImplementsNodeNumbers` | the cache implements `NodeNumbers` |

`NumbersUnique` and `NumbersStable` are proved; `ImplementsNodeNumbers` with
`HandlesUnique` covers them in the run.

`NodeNumbers` is what a FUSE file system promises the kernel, however it keeps its
inodes: `bound` relates numbers and objects one to one and only grows, `held` counts
the gifts of each number, and a return takes back no more than was given.  Under the
refinement mapping `bound` is `Bound`, the numbers and handles of the inodes in
`id_table`, and `held` is `Held`, the lookups the kernel holds, those of queued FORGETs
and those in a directory buffer that is being filled.

Bounds of the run `icache`: three addresses, two server objects, four numbers (0, the
root, and two more, so that `curr_id` wraps), `CountMod` 2 (the usage count wraps at
the second put), two lookups per inode, two entries per directory answer.  These are
enough for a freed address to be allocated again, for a number search to pass a
taken number, and for a READDIRPLUS to fail after its first entry.  The addresses are
symmetric.  The daemon may stop on a failed assertion, so deadlock is not checked.

### What is proved

For any set of addresses and handles, any width of both counters and any bounds on
the kernel:

| theorem | module | says |
| --- | --- | --- |
| `TypeCorrect` | `InodeCacheProofs` | `Spec => []TypeOK` |
| `OneNumber`, `OneInode` | `InodeCacheProofs` | `[]NumbersUnique`, `[]HandlesUnique` |
| `LedgerBalances` | `InodeCacheProofs` | `[]Ledger` |
| `KernelNumbersResolve` | `InodeCacheProofs` | `[]KernelResolves` |
| `UnderflowExplained`, `FreeExplained` | `InodeCacheProofs` | `[]RefDecOnlyAfterLink`, `[]FreedOnlyByWrap` |
| `NumbersNeverMove` | `InodeCacheProofs` | `NumbersStable`, an action property |
| `Refinement` | `InodeCacheProofs` | `Spec => ImplementsNodeNumbers` |

The assumption is `ConstantsAssumption`: `NoInode` is not an address, the root is a
handle, there are at least three numbers and two values of the usage count.

None of the properties is inductive alone.  `IInv` adds to them:

- `TablesAgree`: both tables hold the same inodes, and what is allocated is in them.
  Nothing is ever unhashed, which is why `KernelResolves` holds at all.
- `NumbersBacked`: a number no inode has appears nowhere in the kernel's accounts.
  A new inode then starts with an account of zero and `Ledger` holds for it.
- `UsageCount`: the usage count as a function of the number of puts, from which
  `FreedOnlyByWrap` follows.
- `BeforeUp`: what is known before the INIT request.

`Invariance` is `Spec => []IInv`, with one lemma per action.  The cache operations
have their own lemmas (`Iget5Effect`, `Iget5KeepsLedger`, `IputEffect`), which the
lemmas of the handlers cite.  `KernelResolves` follows from `NumbersBacked`.

`Refinement` uses `IInv` in the state before a step.  `Iget5Resolves` shows that
`hsfs_iget5_locked` is a `Resolve` of the abstract specification: it returns the inode
that is bound, or binds an unused number.  A handler that replies an entry is then a
`Give` (`ReplyGives`), `hsi_nfs3_readdir_plus` a `Cache` per entry, filling the buffer
a `Give`, `hsx_fuse_forget` a `Return` of what was queued (`ForgetReturns`), and moving
lookups between the kernel, its queue and the buffer leaves `Held` alone
(`CountsMove`).  `StepsMap` puts the actions together.

## IgetWorkers: the inode cache with several workers

The tables have no lock (`XXX LOCK` in `lib/hsfs_inode.c`) and the session loop runs
many threads.  A worker goes through `hsi_nfs_fhget` and `hsfs_iget5_locked` one memory
access at a time: `Find` walks the handle chain, `Alloc` makes the inode, `Load`,
`Store`, `Test` and `Take` are the search for a number, a `curr_id++` being a load and
a store, `ReadHead` with `LinkId` and `LinkFh` is `hlist_add_head`, `SetNew` marks the
inode, `Fill` copies the attributes, `RefInc` and `Reply` finish the request.

`SettledStay`: what both chains led to when nobody was inside stays in both chains for
ever; its handle leads to it, and its number to it unless an inode of overlapping
requests took the same number.  (Three workers and five requests get there: two of them
move `curr_id` back, the third is sent to a number that is in use.  The run's two
workers cannot, and the property once claimed that no number is ever taken over; the
proof found the difference.)  `AloneIsSafe`: a duplicate, a lost inode or a shared
number needs requests that overlapped.  `HarmOnlyWhenRaced`: so does everything the
kernel could notice, a number that leads to another object, a failed assertion of
`hsx_fuse_forget`, an entry whose attributes are missing (`include/hsfs.h` says that a
new inode is returned locked; `wait_on_inode` is empty).  `Answered`: the search for a
number ends.

Bounds: two workers, two objects besides the root, three requests, which is a race of
two followed by a request that sees what it left; three free addresses, so that a
request never lacks memory; numbers up to 6, more than the search can reach.
`Fairness` is weak fairness of each worker: no step blocks.

### What is proved of it

`IgetWorkersProofs`, with the lemmas of `IgetWorkersLemmas`, for any finite set of workers
and any sets of addresses and handles, and any bounds on requests and numbers
(`WorkersAssumption`):

| theorem | says |
| --- | --- |
| `SettledInodesStay` | `Spec => []SettledStay` |
| `AloneInodesSafe` | `Spec => []AloneIsSafe` |
| `HarmNeedsOverlap` | `Spec => []HarmOnlyWhenRaced` |

The inductive invariant `IInv` (checked with TLC on the instance of `iget` as well) speaks
of the chains that will still be written, not only of those in the tables: `IdChains` and
`FhChains` are the head pointers and every head that a worker has read and not yet written
back.  It adds:

- `Periods`: what the history variables record; while requests do not overlap one worker
  at most is busy.
- `Hands`: what each worker holds at each step, and that an inode which is not yet in the
  handle chain is in one worker's hands only.
- `Chains`: an inode is in a chain only once it has a number, and never in the chain its
  maker is about to put it in.
- `Settled`: every chain of `IdChains` and `FhChains` has the settled inodes.  A lost
  insertion is a write of an old chain, and an old chain has them too.
- `Cleans`: the numbers of inodes made alone are below all that can still be given, also
  below a `curr_id` that an old load is about to move back.
- `AloneMakes`: one request alone makes its inode as in `InodeCache`.
- `Filling`: an inode without attributes has a worker that will fill them in.
- `Held` and `Balance`: what the kernel was told, and that `private` balances until
  requests overlap.  `Balance` counts workers, and its lemmas use the cardinalities of
  `FiniteSetTheorems`.

## AttrCache and FuseReplies: attributes, data and replies

The server keeps all attributes an object ever had (`log`), their index standing for
ctime; the cached inode has a size, an owner and the index (`cache`).  The RPC library
serialises calls on a client, so a call is one step; the copying of the answer (size
first, `UpdateSize` and `UpdateRest`) and the reading back for the reply are others, and
another worker can come in between.  `hsi_nfs_setattr` drops a size that equals the
cached one, alone (`setsize`) or beside other attributes (`setboth`), `Claim` is
`hsx_fuse_create` writing the caller's ids into the inode of the directory,
`hsx_fuse_read` and `hsx_fuse_write` are one chunk of their loops, `GetAcl` and `SetAcl`
the two calls of setxattr.  A call may be refused, executed and its answer lost, or
answered without attributes.  `FuseReplies` gives the remaining handlers as the set of
ways they can end.

Three exits end a request otherwise than its call did: `hsx_fuse_link` has no memory for
the reply (ENOMEM, after the link was made), `hsx_fuse_create` meets an inode that the
kernel knows (`known`), for which FUSE_ASSERT aborts, and an ERR_PTR is used as an inode.

- `RepliedOnce`: one reply per request, except where an inode is not found and in
  setxattr, which replies twice.
- `OutcomeTold`: success means that the server did it, an error that it did not, unless
  the answer was lost, had no attributes or another object's, a second call failed, or
  link had no memory.
- `AttributesReal`: attributes that are replied or kept were the server's all at once.
- `SizeSetUnlessStale`: a truncate that succeeds took place, unless it was dropped
  because the cached size was stale.
- `CreatedRight`: the owner of a new file, and the verifier of an exclusive create.
- `TransferExact`: no gaps in what is read or written; short only where the file was.
- `AclsCrossedAlone`: what setxattr does to the ACL it does not name.

Each behaviour has a load, the operations that meet in one inode; without loads the
product of all operations is out of reach.  Two workers, or one at a time (`single`);
sizes up to 3 with chunks of 2, so that a transfer has a full and a short chunk; two
changes per object, one for the request and one by another client.

### What is proved of it

`AttrCacheProofs`, with the lemmas of `AttrCacheLemmas`, for any set of workers, owners and
loads, any sizes and chunk size, and any number of changes at the server
(`AttrAssumption`):

| theorem | says |
| --- | --- |
| `HandlersReplyOnce`, `RepliesTellOutcome` | `[]RepliedOnce`, `[]OutcomeTold` |
| `AttributesAreReal` | `[]AttributesReal` |
| `SizesAreSet` | `[]SizeSetUnlessStale` |
| `CreatedIsRight` | `[]CreatedRight` |
| `TransfersAreExact` | `[]TransferExact` |
| `AclsAreCrossed` | `AclsCrossedAlone`, an action property |

The inductive invariant `IInv` (checked with TLC on the instance of `attr` as well) adds:

- `Where`: which request can be at which step, and what it has had the server do by then.
- `Agrees`: an answer that is being copied is a state of the server's `log` since the
  request began (`Real`); what is in the inode is that answer unless another worker wrote
  it; the ids of a create are in the directory's inode until the call.  The log only
  grows, so that `Real` survives the steps of everyone else.
  A size that is due (`SizeDue`: the call was made with it, or an inode that was right
  dropped it) is in the log since the request began.
- `Alone`: with `-s` one request is served at a time, nothing is mixed, and the inode is a
  state of the server but between `UpdateSize` and `UpdateRest`.
- `AclPlan`: what setxattr is about to send, against the ACLs as they are now.

## DirStream: listing a directory

Readers open (`Open`), call (`Call`), store the verifier in the inode they share
(`Store`), fill the kernel's buffer one entry at a time (`AddEntry`, or `NoEntry` where
the handler gives up) and reply (`Reply`), while other clients add and remove entries.
A server's cookies are lasting (`stable`) or positions that the verifier protects.

`ListingExact`: a listing that came to the end returned each entry that was there all
the time exactly once, none were left, and a rejected cookie has its cause in a change
or in the verifier of another reader.  `ListingEnds`: every listing ends.  Entry sizes
of 1 and 2, one more for readdirplus, and a buffer of 4 make an entry fill the buffer
exactly; `BufAssumption` says that a buffer holds more than one entry, as the kernel
offers a page.  Two changes of the directory, so that growing stops.  Fairness: a reader
goes on until it is told the end, and the daemon answers.

### What is proved of it

`DirStreamProofs`, for any set of readers and names, any directory to begin with, any
entry sizes and buffer that `BufAssumption` admits and any number of changes:

| theorem | says |
|---|---|
| `Invariance` | `Spec => []IInv` |
| `ListingsAreExact` | `Spec => []ListingExact` |

`ListingExact` speaks of listings that are over, and says nothing of one under way;
`IInv` says where each listing stands:

- `Ordered`: names in the directory are distinct, and lasting cookies ascend and stay
  below the next one.
- `Shape`: what is in an answer lies after the offset and ascends, entries were put in
  the buffer only from it, and an answer is empty only where no entries were left.  That
  an entry fits in an empty buffer comes from `BufAssumption` and `len = 0`.
- `Guarded`: where cookies are positions and no other reader came between, the verifier
  of the inode is the one of the listing's first call, from `Store` on.
- `Returned`: as long as the cookies mean what they meant at the first call, the names
  that lasted were returned once up to the offset and not at all after it.
- `Answer`: the answer has the lasting entries from the offset to its last cookie
  without a gap.  This is what lets `Reply` go on at the last entry that fitted, and
  lose none when the buffer is full before the answer ends.
- `Ended`: what is left of it when the listing is over.

## RpcClient: calls, retries and reconnection

`cl` is `sb->clntp` and `sb->acl_clntp`; `live` are the clients created and not yet
destroyed.  A worker goes through `Begin` (a procedure of `nfs3/` copies the client
pointer), `Send` and `Error` (one round of `hsi_nfs3_clnt_call`), `Match`, `Close`,
`Create`, `Store` (`hsi_nfs3_clnt_reconnect`) and `Finish` (`clnt_freeres`).  Before it
frees its result a procedure may call another one, with its own copy kept in `held`
(`Nest`: link, create and fsinfo call getattr), and setxattr sends SETACL with the copy
it took before GETACL (`SetAcl`).  The RPC library is external: whatever `clnt_call`
returns, the server may have executed the request.  An address of a destroyed client may
be used for the next one.

With `-s` a destroyed client is used only after a reconnection failed, or by a procedure
that goes on with a copy of the client from before a reconnection, which its own call or
one it made through another procedure brought about (`HeldOver`), and none is destroyed
twice or looked for in vain unless a reconnection failed (`MisuseExplained`).  No client
is leaked and the slots stay distinct unless a reconnection failed (`ClientsKept`).
With one worker or two the server executes a request at most once more than it may be
retried, six times with the 5 of the code (`ExecsBounded`), and every call returns
(`CallReturns`).

One retry lets a call reconnect and then be exhausted, and two workers meet each other
at every step of a reconnection.  With three addresses a new client gets the address
just destroyed, another one while the other slot keeps its own, or one that a failed
reconnection left in a slot.  `MCBound` leaves the third address, and procedures of
several calls in the second worker, to the behaviours with `-s`.

Fairness is weak fairness of each worker's steps: `clnt_call` and the connection
attempts have timeouts, and a thread that can run does.  `Begin` and `Unmount` are
not fair, since nobody has to send a request.  A behaviour may stop when the daemon
is unmounted or has failed, and deadlock is therefore not checked.

### What is proved of it

`RpcClientProofs`, for any set of workers, any set of client addresses and any number of
retries (`RpcAssumption`: `Null` is neither an address nor a slot, `Retries` is a natural
number):

| theorem | says |
| --- | --- |
| `Bounded` | `Spec => []ExecsBounded` |
| `SlotsKept` | `Spec => []ClientsKept` |
| `Explained` | `Spec => []MisuseExplained` |

The inductive invariant `IInv` (checked with TLC on the instance of `rpc` as well) adds:

- `Counted`: a request was executed at most as often as it was sent, and fewer than
  `Retries` retries were made where another one can follow.
- `Alone`: with `-s` at most one thread serves a request.  The lemmas `MineOfClients` and
  `ClientsOfMine` use it to turn statements about all threads into ones about that thread.
- `OwnSlot`: a call uses the client of its slot, and `hsi_nfs3_clnt_reconnect`, which looks
  for the slot by the address of the client, finds that one; but SETACL may use a client
  that was destroyed meanwhile.
- `HeldAcl`: what setxattr keeps over GETACL is the slot's client, or destroyed.
- `SlotsLive`: a slot's client exists unless it is being replaced.  While it is, the old
  address is not in use, or the new client got it; this is what makes a reused address
  harmless with `-s`.

## MtabLock: the lock file of mtab

Every process that records a mount runs `lock_mtab`, works on mtab and runs
`unlock_mtab`.  `lockf` is what the name of the lock file refers to, `flk` who holds
the POSIX lock of it, `made` and `flag` are `j == 0` and `we_created_lockfile`.  Each
system call of the protocol is a step (`Link`, `Open`, `Claim`, `Wait`, `Close`,
`Unlink`), and so are the two assignments of `we_created_lockfile`, because a signal
can come in between.  `Add` appends a line, of which a failed write leaves a part
(`torn`); `Read` and `Replace` are `update_mtab`, which may read less than there is and
which renames its temporary file even when the flush in `fclose` failed (`cut`).
`Signal` is the handler with its `unlock_mtab`, `Kill` a
`SIGKILL`.  `serial` is the file as it would be had the same updates run one by one.

Only the creator of the lock file works on mtab, except when a signal falls between
the unlink and the reset of the flag (`OnlyCreatorProceeds`); a lock file is left behind
only by SIGKILL, or by a signal between the link and the setting of the flag
(`LeftExplained`); no update is lost unless an update failed to read all of mtab, a
write or the last flush put only a part of it on the disk, or a signal came in that
window (`NoLostUpdate`); every process ends (`Finishes`).

Two processes, two mount points, one signal and one kill; `mtab_never_both` needs three
processes and one mount point.  `MaxTries` stands for the 100000 of the code; 1 reaches
both sides of both limits.  Fairness is weak fairness of each process: the wait for the
POSIX lock is under an alarm, so that a process is never blocked for ever.  Each process
takes the lock once.  At present no path of `main` calls `hsi_add_mtab` or
`hsi_del_mtab`; the code is modelled as it would run when they are.

### What is proved of it

`MtabLockProofs`, for any set of processes and mount points and any number of tries,
signals and kills (`MtabAssumption`: `None` is not a process, the bounds are natural
numbers):

| theorem | says |
| --- | --- |
| `Exclusion` | `Spec => []OnlyCreatorProceeds` |
| `LeftBehind` | `Spec => []LeftExplained` |
| `UpdatesKept` | `Spec => []NoLostUpdate` |

The inductive invariant `IInv` (checked with TLC on two and on three processes) adds:

- `FlagSet`: `we_created_lockfile` is set exactly from its assignment to its reset, so that
  the handler of a signal removes the file when its process made it.
- `Linked` and `Kept`: whom the lock file belongs to, and that its maker still has it.
  `Kept` has the proviso of `OnlyCreatorProceeds`: no signal came after the unlink and
  before the reset.
- `Pending`: what `update_mtab` is about to write is what its update makes of the file as
  it is now.  It is kept because only the maker of the lock file works on mtab, which is
  how `NoLostUpdate` rests on `Exclusion`.
- `TornIsCut`: half a line is there only after a write that failed.
- `Rounds`: a bound on the waits, for the types.

## Mount: the life of the daemon

`Attempt` is an iteration of the loop in `hsfs_do_mount`, `NfsClient`, `AclClient`,
`Root` and `UmntFail` the rest of it, `Returned` to `Unmount` the rest of `main`.  Every
call of the mount server, the RPC library and libfuse may fail.  `served` says whether
the server's mount list names this client.

After a run that had a client the server does not list this client unless an UMNT was
not answered (`ServerReleased`); the daemon stops on a missing root or a destroyed
client only when the mount had failed and `hsfs_do_mount` returned 0 (`StopExplained`);
with `-f` the mount loop ends (`ForegroundEnds`).

The delays between the attempts are left out.  (The comment "1, 2, 4, 8, 16, 30, ..."
at `nfs3/hsi_nfs3_mount.c:668` is not what happens: `val` is declared inside the loop,
and every delay is one second.)  `round` is the parity of the
iterations: a failed iteration is then a step of its own, and fairness does not force
one of them to succeed.  Fairness: the daemon runs, and time passes (`Expire`).

## MountParams, Conversions, Params: functions of their arguments

`MountParams` has the parsing of device names, the effect of the options and their
defaults, block sizes, the sizes taken from FSINFO and the counts of statfs;
`Conversions` attributes, times, statuses, ACLs, lines of mtab and paths.  `Params` calls
each function on every input of a bounded set.

- `RoundTrips`: what is taken apart is put together again (`DevNameSplit`,
  `AclRoundTrip`, `LineRoundTrip`).
- `ViewsAgree`: two parts of the code that interpret one thing agree, or differ exactly
  where the property says: `StatsAgree` (the two conversions of attributes always differ
  in `st_blksize`, and in six other cases), `ErrnosAgree`, `UnmountTransport`.
- `MeetsReference`: a result is what an independent definition says (`RefusedFor`,
  `TimesKept`, `BlockSizeNearest`, `IoSizesFit`, `StatvfsRoundsUp`, `TimeSetByServer`,
  `PathCanonical`).

Device names have up to 6 characters of the five classes the parser tells apart, with
limits of 2 for the host and 3 for the path; strings up to 4 options out of those that
reach the super block, the fourth of which no longer fits; byte counts lie around every
threshold of the code; the first field of an mtab line has up to 4 characters, as an
escape has, out of those that are escaped, occur in escapes or begin a comment, and the
buffer is shorter than the longest line; paths have up to 6 components, which are names
and not characters.  Widths of 7 and 5
bits stand for 64, and blocks of 4 bytes for 512: the arithmetic is modular, and wraps
in the same places.

## Nfs4Calls, SyncCalls, Nfs4Client: the NFSv4 library

`Nfs4Calls` translates each function of the call chains of `lib/nfs_v4.c` to its paths,
sequences of effects on memory, on the mutex, on the compounds that are sent and on the
application's callback.  `SyncCalls` is the table of the calls of `lib/libnfs-sync.c`,
with the dispatch of `lib/libnfs.c`.  `Nfs4Client` runs them: application threads that
poll, or that wait for a service thread (`mt`).  A reply, an error or the loss of the
connection ends every compound; `malloc` may fail wherever the code checks it.

- `ExactlyOneAnswer`: an accepted call is called back once, a refused one never.
- `ResourcesReturned`: `nfs4_cb_data` is freed once, nothing is leaked, the mutex is
  released.
- `FrameLive`: no callback writes to the stack frame of a call that has returned, but for
  the second of two callbacks.  Without a service thread that one is `nfs4_fcntl_cb`,
  which runs in the poll loop of the next call.
- `CompoundsRight`: every operation carries what it is to carry, at each walk of a call
  (`OperationsSet`: `Wanted` is what the `nfs4_populate` functions read, `Unset` what
  nobody has set), and acts on what the caller named (`ActsOnNamed`).
- `OpenLedger`: a call that succeeds has the opens that the server granted in the
  caller's hands or closed, but for one per failed attempt of nfs_open.
- `Answered`, `MutexReleased` (`nfs4_live`): who waits is answered, and
  `nfs4_open_call_mutex` is always released.

The exceptions each of them names are exits of the code.  The three callbacks that go
on after an error are `nfs4_xstat64_cb`, `nfs4_fcntl_stat_cb` and `nfs4_getacl_cb`; an open
with O_NOFOLLOW that meets a link keeps the mutex; mknod without memory for its mask is
accepted and forgotten.  Links are followed without limit (`lib/nfs_v4.c:1218`, `2357`,
`2412`): round a cycle a caller waits for ever, and an open or truncate keeps the mutex;
`Circles` is that exception of `Answered` and `MutexReleased`.  Not set are the stateid
of chmod, chown and utimes by path, the mode of a creation without O_EXCL (`flags|O_EXCL`
at 2260 makes each one exclusive), the target of a symlink when there is no memory for
it, and the type of a mknod behind a link.

One thread makes any call while another closes files, which is the shortest call that
takes the mutex.  Links are counted up to two and followed further, two further pages of
a directory and two retries (10 in the code) reach a second round of every loop.
`nfs4_live` has the calls that hold the mutex and the forgotten mknod, and no retry.
Fairness: a thread that can go on does; for every compound a reply, an error or a
timeout comes; and the service thread takes replies in the order they come in, so that
it passes over none for ever, which is strong fairness of `ServiceReply`.  Without a
service thread the waiting thread polls on while nothing is pending; that the connection
fails then (`ServiceFails`) is not fair.

## What the source says and the code does not do

Two runs show a statement of the source violated:

- `icache_created_is_new`: `FUSE_ASSERT(ref == 0)` after CREATE
  (`fuse/hsx_fuse_create.c:64`) fails when the file exists and is cached, which an
  UNCHECKED create allows.
- `mtab_never_both`: a signal between the unlink and the reset of
  `we_created_lockfile` lets two processes into mtab, which the comment at
  `nfs3/fstab.c:298` excludes.

Others are exceptions of a property that passes, or part of a definition:

- `hsx_fuse_link` replies an entry and does not count it, and the assertion
  `val <= inode->private` (`include/hsx_fuse.h:393`) can fail: `RefDecOnlyAfterLink`.
- `hsfs_iput` is said to free an inode whose count reaches zero (`include/hsfs.h:289`).
  The count starts at 0 and is decremented before the test: `FreedOnlyByWrap`.
- A mount that the server refused returns 0 (`nfs3/hsi_nfs3_mount.c:732`):
  `StopExplained`.
- "The lock file will be removed if we catch a signal" (`nfs3/fstab.c:290`), but not
  before the flag is set: `LeftExplained`.
- A remount that is "not found" (`nfs3/fstab.c:483`) is added to one direction of the
  chain, and not written when mtab has other entries: `Updated` in `MtabLock`.
- A size is dropped as unchanged (`nfs_common/hsi_nfs_inode.c:425`) although the file
  has changed: `SizeSetUnlessStale`.
- Two workers whose calls fail on one connection both reconnect, and the second one
  reaches "Bad client point." (`nfs3/hsi_nfs3_mount.c:810`); `MisuseExplained` is
  therefore stated for `-s`.
- The callbacks of readlink and getacl set an error that is then overwritten with
  success (`lib/libnfs-sync.c:1530`, `2233`): the "room" results of `SyncCalls`.

## What is only model-checked

Liveness (`CallReturns`, `Finishes`, `ForegroundEnds`, `ListingEnds`, both `Answered`,
`MutexReleased`) is out of reach of the prover.  So are the functions of `Conversions`
that are folds or recursions over their input, for any length, and what `Params` says of
them: each of its properties compares functions over bounded inputs.  `Nfs4Client` runs
the paths of `Nfs4Calls`, which are built with recursive operators, and its safety
properties are checked on the instances above only.
`Mount` has no constants, so there TLC covers all there is.

## Not modelled

- Logging, the generated XDR code and the marshalling of arguments: no control state.
- The command line of `main` (`hsi_parse_opts`, the checks of the mount point) and the
  read-only lookups in fstab and mtab.
- The values that FSSTAT and PATHCONF copy into the super block without looking at
  them.
- Writes are sent UNSTABLE and there is no COMMIT.  The daemon keeps no state about
  it, and what a server that restarts loses is not the daemon's to decide.
- That the write loop ends: a server that takes zero bytes without an error keeps it
  going, and nothing in the code bounds it.
- In `IgetWorkers` the wrap of `curr_id` and freeing, which `InodeCache` has.
- hsi_nfs3_setattr's other attributes beside size and owner, which have the same code.
- In libnfs: that `data_split_path` may get no memory for a name, after which the process
  ends in `strlen`; URLs, the parsing of attributes beyond whether it fails, reconnection,
  the socket layer, and the NFSv3 functions, which the repository does not have
  (`lib/nfs_v3.c`).
