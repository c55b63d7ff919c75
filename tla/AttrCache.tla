------------------------------ MODULE AttrCache ------------------------------
(***************************************************************************)
(* The attributes kept in cached inodes (nfs_common/hsi_nfs_inode.c), the  *)
(* handlers of fuse/ that read and write them, and the read and write      *)
(* loops, with several workers and other clients of the server.            *)
(*                                                                         *)
(* The server keeps, per object, the sequence of all attributes it had;    *)
(* the index stands for ctime.  The RPC library serialises the calls of a  *)
(* client handle, so a call is one step; receiving the answer, copying it  *)
(* into the inode (size first, the rest after it) and reading the inode    *)
(* for the reply are steps of their own.                                   *)
(***************************************************************************)
EXTENDS Integers, Sequences, FuseReplies

CONSTANTS
  Worker,   \* threads of fuse_session_loop_mt
  Uid,      \* owners; Daemon is the one the daemon's own credential gives
  Daemon,
  MaxSize,  \* bound on file sizes
  Chunk,    \* sb->rsize = sb->wsize
  MaxLog,   \* bound: changes of an object at the server, plus one
  Loads     \* what happens together: the operations the kernel sends, the
            \* objects and sizes they name, the attributes other clients change

\* setsize, chown and setboth are setattr with a size, without one, and with a
\* size and other attributes; the owner stands for those.
AttrOps == {"getattr", "setsize", "chown", "setboth", "lookup", "link", "create", "read",
            "write", "setxattr"}
SizeOps == {"setsize", "setboth"}

ASSUME AttrAssumption ==
  /\ Daemon \in Uid /\ MaxSize \in Nat /\ Chunk \in Nat \ {0} /\ MaxLog \in Nat \ {0}
  /\ \A l \in Loads : l.ops \subseteq AttrOps \cup PlainOps /\ l.sizes \subseteq 0 .. MaxSize

VARIABLES
  single,   \* fuse_opts.singlethread
  load,     \* the member of Loads of this behaviour
  log,      \* server: object -> its attributes so far
  acl,      \* server: the ACLs of a directory
  new,      \* server: the file that create makes, or NoFile
  cache,    \* cached inode: object -> attributes and the index they had
  job       \* worker -> request being served

vars == <<single, load, log, acl, new, cache, job>>

Size == 0 .. MaxSize
Obj == {"dir", "file"}
Attr == [size : Size, uid : Uid]
Cached == [size : Size, uid : Uid, ver : 1 .. MaxLog]
AclTypes == {"access", "default"}
Acls == {"old_access", "old_default", "given", "from_mode", "empty"}
Hows == {"UNCHECKED", "GUARDED", "EXCLUSIVE"}
NoFile == [by |-> "nobody", owner |-> Daemon, caller |-> Daemon, how |-> "UNCHECKED",
           mixed |-> FALSE, verf |-> "none"]

\* why: what made an applied request fail.  base: Len(log) at the start.  ans:
\* the attributes received.  mixed: another worker wrote the inode after this
\* one had begun to.  drop: the size was taken out of attr->valid, by an inode
\* that was stale.  known: the kernel had the inode that a create got.  got:
\* positions of the buffer read or written.
Idle == [op |-> "none", pc |-> "idle", o |-> "file", val |-> 0, uid |-> Daemon,
         how |-> "UNCHECKED", base |-> 1, ans |-> [size |-> 0, uid |-> Daemon, ver |-> 1],
         rpc |-> FALSE, drop |-> FALSE, stale |-> FALSE, known |-> FALSE, mixed |-> FALSE,
         missing |-> FALSE, did |-> FALSE, why |-> "none", cnt |-> 0, eof |-> FALSE, got |-> {},
         replies |-> << >>, type |-> "access",
         acl |-> [access |-> "empty", default |-> "empty"]]

PCs == {"idle", "claim", "check", "call", "again", "size", "rest", "reply", "getacl",
        "setacl", "plain", "done"}
Whys == {"none", "lost", "EAGAIN", "ESTALE", "ENOMEM", "second"}

Job == [op : AttrOps \cup PlainOps \cup {"none"}, pc : PCs, o : Obj, val : Size, uid : Uid,
        how : Hows, base : 1 .. MaxLog, ans : Cached,
        rpc : BOOLEAN, drop : BOOLEAN, stale : BOOLEAN, known : BOOLEAN, mixed : BOOLEAN,
        missing : BOOLEAN, did : BOOLEAN, why : Whys, cnt : Size, eof : BOOLEAN, got : SUBSET Size,
        replies : Seq({"ok", "err", "crash"}), type : AclTypes,
        acl : [access : Acls, default : Acls]]
File == [by : Worker \cup {"nobody", "other"}, owner : Uid, caller : Uid, how : Hows,
         mixed : BOOLEAN, verf : {"none", "number", "another"}]

TypeOK ==
  /\ single \in BOOLEAN /\ load \in Loads
  /\ log \in [Obj -> Seq(Attr)] /\ \A o \in Obj : Len(log[o]) \in 1 .. MaxLog
  /\ acl \in [access : Acls, default : Acls]
  /\ new \in File
  /\ cache \in [Obj -> Cached]
  /\ job \in [Worker -> Job]

Now(o) == log[o][Len(log[o])]
Fresh(o) == [size |-> Now(o).size, uid |-> Now(o).uid, ver |-> Len(log[o])]

Init ==
  /\ single \in BOOLEAN /\ load \in Loads
  /\ log = [o \in Obj |-> <<[size |-> 0, uid |-> Daemon]>>]
  /\ acl = [access |-> "old_access", default |-> "old_default"]
  /\ new = NoFile
  /\ cache = [o \in Obj |-> Fresh(o)]
  /\ job = [w \in Worker |-> Idle]

Set(w, j) == job' = [job EXCEPT ![w] = j]
At(w, p) == job[w].pc = p
Change(o, a) == Len(log[o]) < MaxLog /\ log' = [log EXCEPT ![o] = Append(@, a)]

\* Another client changes the size or the owner of an object, ...
OtherChange(o, a) ==
  /\ o \in load.objs /\ a # Now(o) /\ (o = "dir" => a.size = 0)
  /\ a.size # Now(o).size => "size" \in load.others /\ a.size \in load.sizes
  /\ a.uid # Now(o).uid => "uid" \in load.others
  /\ Change(o, a)
  /\ UNCHANGED <<single, load, acl, new, cache, job>>

\* ... or makes the file, perhaps with the verifier that this client uses.
OtherCreate(v) ==
  /\ "create" \in load.ops /\ new = NoFile
  /\ new' = [NoFile EXCEPT !.by = "other", !.verf = v]
  /\ UNCHANGED <<single, load, log, acl, cache, job>>

-----------------------------------------------------------------------------
(* A request arrives *)

\* Where its handler goes once hsfs_ilookup has found the inode.
Entry(op) ==
  CASE op \in {"getattr", "lookup", "link", "chown", "read", "write"} -> "call"
    [] op \in SizeOps -> "check"
    [] op = "create" -> "claim"
    [] op = "setxattr" -> "getacl"
    [] OTHER -> "plain"

\* hsfs_ilookup fails only in a process with several workers (IgetWorkers).
\* setxattr then replies success, link and create nothing, getattr and setattr
\* print the number of the NULL inode.
MissingReplies(op) ==
  CASE op = "setxattr" -> <<"ok">>
    [] op \in {"link", "create"} -> << >>
    [] op \in {"getattr", "setsize", "chown", "setboth"} -> <<"crash">>
    [] OTHER -> <<"err">>

Start(w, op, o, v, u, how) ==
  /\ At(w, "idle") /\ op \in load.ops /\ o \in load.objs
  /\ single => \A x \in Worker : At(x, "idle")
  /\ op \in {"setsize", "setboth", "link", "read", "write"} => o = "file"
  /\ op = "create" => o = "dir"
  /\ op \notin {"setsize", "setboth", "read", "write"} => v = 0
  /\ op \notin {"chown", "setboth", "create"} => u = Daemon
  /\ op # "create" => how = "UNCHECKED"
  /\ op \in PlainOps => o = "dir"
  /\ \E m \in IF single THEN {FALSE} ELSE BOOLEAN :
       LET j == [Idle EXCEPT !.op = op, !.o = o, !.val = v, !.uid = u, !.how = how,
                             !.base = Len(log[o]), !.missing = m]
       IN Set(w, IF m /\ op \notin PlainOps
                 THEN [j EXCEPT !.pc = "done", !.replies = MissingReplies(op)]
                 ELSE [j EXCEPT !.pc = Entry(op)])
  /\ UNCHANGED <<single, load, log, acl, new, cache>>

\* The request is over and the worker waits for the next.
Finish(w) ==
  /\ At(w, "done")
  /\ Set(w, Idle)
  /\ UNCHANGED <<single, load, log, acl, new, cache>>

\* A handler of FuseReplies.
Plain(w) ==
  /\ At(w, "plain")
  /\ \E e \in Endings(job[w].op, job[w].missing) :
       Set(w, [job[w] EXCEPT !.pc = "done", !.replies = e.replies, !.did = e.did])
  /\ UNCHANGED <<single, load, log, acl, new, cache>>

\* The handler replies r and is done; `with` is the request as it then is.
Done(w, with, r) == Set(w, [with EXCEPT !.pc = "done", !.replies = r])

\* The server refused the call, or was not reached.
Refuse(w, r) == Done(w, job[w], r) /\ UNCHANGED <<log, acl, new>>

\* The server did it and the answer was lost: hsi_nfs3_clnt_call calls again
\* or gives up.
Lose(w, r) ==
  LET j == [job[w] EXCEPT !.did = TRUE, !.rpc = TRUE, !.why = "lost"]
  IN Set(w, j) \/ Done(w, j, r)

-----------------------------------------------------------------------------
(* Attributes *)

Stale(o) == cache[o].ver < Len(log[o])

\* Mutant of hsi_nfs_setattr: a size that is not smaller is dropped too.
SetattrDropsGrowth(w) ==
  /\ At(w, "check")
  /\ LET j == job[w]
         d == j.val >= cache[j.o].size
     IN Set(w, [j EXCEPT !.stale = Stale(j.o), !.drop = d,
                         !.pc = IF d /\ j.op = "setsize" THEN "reply" ELSE "call"])
  /\ UNCHANGED <<single, load, log, acl, new, cache>>

\* hsi_nfs_setattr: a size equal to the cached one is dropped, and without
\* another attribute to set there is no call.
hsi_nfs_setattr(w) ==
  /\ At(w, "check")
  /\ LET j == job[w]
         d == j.val = cache[j.o].size
     IN Set(w, [j EXCEPT !.stale = Stale(j.o), !.drop = d,
                         !.pc = IF d /\ j.op = "setsize" THEN "reply" ELSE "call"])
  /\ UNCHANGED <<single, load, log, acl, new, cache>>

\* The attributes a SETATTR leaves (hsx_fuse_stat2iattr).
Wanted(j) ==
  [size |-> IF j.op \in SizeOps /\ ~j.drop THEN j.val ELSE Now(j.o).size,
   uid |-> IF j.op \in {"chown", "setboth"} THEN j.uid ELSE Now(j.o).uid]

\* The call succeeded and its answer has attributes; its receiver goes on to
\* nfs_refresh_inode.
Received(w, a) ==
  Set(w, [job[w] EXCEPT !.pc = "size", !.ans = a, !.rpc = TRUE, !.did = TRUE])

\* hsi_nfs3_getattr.
CallGet(w) ==
  /\ At(w, "call") /\ job[w].op = "getattr"
  /\ Received(w, Fresh(job[w].o)) \/ Done(w, job[w], <<"err">>)
  /\ UNCHANGED <<single, load, log, acl, new, cache>>

\* hsi_nfs3_lookup of a cached object, where an answer without attributes
\* makes an ERR_PTR value that the handler uses as an inode.
CallLookup(w) ==
  /\ At(w, "call") /\ job[w].op = "lookup"
  /\ \/ Received(w, Fresh(job[w].o))
     \/ Done(w, job[w], <<"err">>)
     \/ Done(w, job[w], <<"crash">>)
  /\ UNCHANGED <<single, load, log, acl, new, cache>>

\* The server does what j asks of its object.
Apply(w, a) ==
  /\ Change(job[w].o, a) /\ UNCHANGED <<acl, new>>

After(w, a) == [size |-> a.size, uid |-> a.uid, ver |-> Len(log[job[w].o]) + 1]

\* A second call, that only follows up the first, is refused.
Second(w) == Done(w, [job[w] EXCEPT !.why = "second"], <<"err">>) /\ UNCHANGED <<log, acl, new>>

\* hsi_nfs3_setattr, which fails with EAGAIN when the answer has no attributes.
CallSet(w) ==
  LET j == job[w] IN
  /\ At(w, "call") /\ j.op \in {"setsize", "chown", "setboth"}
  /\ \/ Refuse(w, <<"err">>)
     \/ /\ Apply(w, Wanted(j))
        /\ \/ Received(w, After(w, Wanted(j)))
           \/ Lose(w, <<"err">>)
           \/ Done(w, [j EXCEPT !.rpc = TRUE, !.did = TRUE, !.why = "EAGAIN"], <<"err">>)
  /\ UNCHANGED <<single, load, cache>>

\* hsi_nfs3_link, which changes the ctime of the file; when the answer has no
\* attributes it asks for them (at "again").
CallLink(w) ==
  LET j == job[w] IN
  /\ j.op = "link"
  /\ \/ At(w, "call") /\ Refuse(w, <<"err">>)
     \/ /\ At(w, "call") /\ Apply(w, Now(j.o))
        /\ \/ Received(w, After(w, Now(j.o)))
           \/ Lose(w, <<"err">>)
           \/ Set(w, [j EXCEPT !.pc = "again", !.rpc = TRUE, !.did = TRUE])
     \/ At(w, "again") /\ Received(w, Fresh(j.o)) /\ UNCHANGED <<log, acl, new>>
     \/ At(w, "again") /\ Second(w)
  /\ UNCHANGED <<single, load, cache>>

\* Worker x has begun to use what it wrote into the inode of o.
Using(x, o) ==
  /\ job[x].o = o
  /\ job[x].pc \in IF job[x].op = "create" THEN {"call"} ELSE {"rest", "reply"}

\* Worker w writes the inode of o as c; others that use it see a mixture.
Write(w, o, c, j) ==
  /\ cache' = [cache EXCEPT ![o] = c]
  /\ job' = [x \in Worker |-> IF x = w THEN j
                              ELSE [job[x] EXCEPT !.mixed = @ \/ Using(x, o)]]

\* nfs_refresh_inode, nfs_update_inode.  The object may have become another
\* one: -ESTALE, which hsi_nfs_setattr and hsi_nfs_fhget ignore.
UpdateSize(w) ==
  LET j == job[w] IN
  /\ At(w, "size")
  /\ \/ Write(w, j.o, [cache[j.o] EXCEPT !.size = j.ans.size], [j EXCEPT !.pc = "rest"])
     \/ /\ IF j.op \in {"getattr", "link"}
           THEN Done(w, [j EXCEPT !.why = "ESTALE"], <<"err">>)
           ELSE Set(w, [j EXCEPT !.pc = "reply", !.why = "ESTALE"])
        /\ UNCHANGED cache
  /\ UNCHANGED <<single, load, log, acl, new>>

UpdateRest(w) ==
  /\ At(w, "rest")
  /\ Write(w, job[w].o, [cache[job[w].o] EXCEPT !.uid = job[w].ans.uid, !.ver = job[w].ans.ver],
           [job[w] EXCEPT !.pc = "reply"])
  /\ UNCHANGED <<single, load, log, acl, new>>

\* Mutant of Reply: getattr too answers from the inode.
ReplyCached(w) ==
  /\ At(w, "reply")
  /\ Done(w, [job[w] EXCEPT !.ans = cache[job[w].o]], <<"ok">>)
  /\ UNCHANGED <<single, load, log, acl, new, cache>>

\* getattr replies what it received (hsi_nfs3_fattr2stat); the others what the
\* inode now holds (hsfs_generic_fillattr).  hsx_fuse_link allocates its reply,
\* and fails when it cannot.
Reply(w) ==
  /\ At(w, "reply")
  /\ \/ Done(w, IF job[w].op = "getattr" THEN job[w]
                ELSE [job[w] EXCEPT !.ans = cache[job[w].o]], <<"ok">>)
     \/ job[w].op = "link" /\ Done(w, [job[w] EXCEPT !.why = "ENOMEM"], <<"err">>)
  /\ UNCHANGED <<single, load, log, acl, new, cache>>

-----------------------------------------------------------------------------
(* Creation *)

\* Mutant of Claim: the inode of the directory is left alone.
ClaimNothing(w) ==
  /\ At(w, "claim")
  /\ Write(w, "dir", cache["dir"], [job[w] EXCEPT !.pc = "call"])
  /\ UNCHANGED <<single, load, log, acl, new>>

\* hsx_fuse_create puts the caller's ids into the inode of the directory, ...
Claim(w) ==
  /\ At(w, "claim")
  /\ Write(w, "dir", [cache["dir"] EXCEPT !.uid = job[w].uid], [job[w] EXCEPT !.pc = "call"])
  /\ UNCHANGED <<single, load, log, acl, new>>

\* ... from where hsi_nfs3_create takes the owner of the new file.  EXCLUSIVE
\* sends no attributes but a verifier, the number of the directory.
CreateArgs(j) ==
  IF j.how = "EXCLUSIVE" THEN [how |-> j.how, uid |-> Daemon, verf |-> "number"]
  ELSE [how |-> j.how, uid |-> cache["dir"].uid, verf |-> "none"]

\* The server takes an existing file for the one asked for.
Matches(a) ==
  CASE a.how = "UNCHECKED" -> TRUE
    [] a.how = "GUARDED" -> FALSE
    [] a.how = "EXCLUSIVE" -> new.verf = a.verf

\* The server makes the file, or finds it.
Make(w, a) ==
  /\ UNCHANGED acl
  /\ IF new = NoFile
     THEN /\ new' = [by |-> w, owner |-> a.uid, caller |-> job[w].uid, how |-> a.how,
                     mixed |-> job[w].mixed, verf |-> a.verf]
          /\ Change("dir", Now("dir"))
     ELSE Matches(a) /\ UNCHANGED <<new, log>>

\* FUSE_ASSERT(ref == 0): the kernel must not have had the inode.
Opened(j) == IF j.known THEN <<"crash">> ELSE <<"ok">>

\* An answer without handle or attributes makes an ERR_PTR value.  After an
\* EXCLUSIVE one a SETATTR gives the new file its mode (at "again").  The kernel
\* may know a file that was there, or that another worker has looked up since.
CallCreate(w) ==
  LET j == job[w] IN
  /\ j.op = "create"
  /\ \/ At(w, "call") /\ Refuse(w, <<"err">>)
     \/ /\ At(w, "call") /\ Make(w, CreateArgs(j))
        /\ \E b \in IF single /\ new = NoFile THEN {FALSE} ELSE BOOLEAN :
             LET k == [j EXCEPT !.did = TRUE, !.rpc = TRUE, !.known = b] IN
             \/ Lose(w, <<"err">>)
             \/ Done(w, k, <<"crash">>)
             \/ IF j.how = "EXCLUSIVE" THEN Set(w, [k EXCEPT !.pc = "again"])
                ELSE Done(w, k, Opened(k))
     \/ At(w, "again") /\ Second(w)
     \/ At(w, "again") /\ Refuse(w, Opened(j))
  /\ UNCHANGED <<single, load, cache>>

-----------------------------------------------------------------------------
(* Reading and writing at offset 0, a step per remote call *)

\* min(size - cnt, sb->rsize).
NextChunk(j) == IF j.val - j.cnt < Chunk THEN j.val - j.cnt ELSE Chunk

\* n bytes more; the loop goes on, or the handler replies what it has.
Progress(w, n, eof) ==
  LET j == [job[w] EXCEPT !.cnt = @ + n, !.eof = eof, !.did = TRUE,
                          !.got = @ \cup (job[w].cnt .. job[w].cnt + n - 1)]
  IN IF j.cnt < j.val /\ ~eof THEN Set(w, j) ELSE Done(w, j, <<"ok">>)

\* hsi_nfs3_read: the server may return fewer bytes than asked, tells the end of
\* the file when it finds nothing, and may when it reaches it.
hsi_nfs3_read(j) ==
  LET left == Now("file").size - j.cnt IN
  IF left <= 0 THEN {[n |-> 0, eof |-> TRUE]}
  ELSE {r \in [n : 1 .. NextChunk(j), eof : BOOLEAN] : r.n <= left /\ (r.eof => r.n = left)}

\* hsi_nfs3_write: the server may take fewer bytes, not none.
hsi_nfs3_write(j) == 1 .. NextChunk(j)

\* Mutant of hsx_fuse_read: a short answer ends the loop.
ReadShortStops(w) ==
  LET j == job[w] IN
  /\ At(w, "call") /\ j.op = "read"
  /\ \E n \in 1 .. NextChunk(j) :
       /\ j.cnt + n <= Now("file").size
       /\ Done(w, [j EXCEPT !.cnt = @ + n, !.did = TRUE, !.got = @ \cup (j.cnt .. j.cnt + n - 1)],
               <<"ok">>)
  /\ UNCHANGED <<single, load, log, acl, new, cache>>

hsx_fuse_read(w) ==
  LET j == job[w] IN
  /\ At(w, "call") /\ j.op = "read"
  /\ \/ Done(w, j, <<"err">>)
     \/ j.val = 0 /\ Progress(w, 0, FALSE)
     \/ j.val > 0 /\ \E r \in hsi_nfs3_read(j) : Progress(w, r.n, r.eof)
  /\ UNCHANGED <<single, load, log, acl, new, cache>>

\* The cached size is not touched.
hsx_fuse_write(w) ==
  LET j == job[w] IN
  /\ At(w, "call") /\ j.op = "write"
  /\ \/ Done(w, j, <<"err">>) /\ UNCHANGED log
     \/ j.val = 0 /\ Progress(w, 0, FALSE) /\ UNCHANGED log
     \/ \E n \in hsi_nfs3_write(j) :
          /\ Change("file", [Now("file") EXCEPT !.size = IF @ < j.cnt + n THEN j.cnt + n ELSE @])
          /\ Progress(w, n, FALSE)
  /\ UNCHANGED <<single, load, acl, new, cache>>

-----------------------------------------------------------------------------
(* hsx_fuse_setxattr with hsi_nfs3_setxattr; acl is that of the directory *)

Other(t) == IF t = "access" THEN "default" ELSE "access"

\* Mutant of AclArgs: the ACL that is not named is cleared.
AclArgsClear(t, v, got) ==
  IF t = "access" THEN [access |-> v, default |-> "empty"] ELSE [access |-> "empty", default |-> v]

\* What is sent for a directory when v is to be the ACL of type t and the
\* server's ACL of type t, which is read with the type of the request, is got.
AclArgs(t, v, got) ==
  IF t = "access" THEN [access |-> IF v = "empty" THEN "from_mode" ELSE v, default |-> got]
  ELSE [access |-> got, default |-> v]

\* Another name replies success once.  Without an ACL client ENOTSUP, and on a
\* failed GETACL or a default ACL of a file success, are replied twice.
GetAcl(w) ==
  LET j == job[w] IN
  /\ At(w, "getacl")
  /\ \/ Done(w, j, <<"ok">>)
     \/ Done(w, j, <<"err", "err">>)
     \/ Done(w, j, <<"ok", "ok">>)
     \/ j.o = "file" /\ Set(w, [j EXCEPT !.pc = "setacl"])
     \/ /\ j.o = "dir"
        /\ \E t \in AclTypes, v \in {"given", "empty"} :
             Set(w, [j EXCEPT !.pc = "setacl", !.type = t, !.acl = AclArgs(t, v, acl[t])])
  /\ UNCHANGED <<single, load, log, acl, new, cache>>

\* The reply is sent again after it was sent.
SetAcl(w) ==
  LET j == [job[w] EXCEPT !.did = TRUE, !.rpc = TRUE] IN
  /\ At(w, "setacl")
  /\ \/ Refuse(w, <<"err", "err">>)
     \/ /\ IF j.o = "dir" THEN acl' = j.acl ELSE UNCHANGED acl
        /\ UNCHANGED <<log, new>>
        /\ Done(w, j, <<"ok", "ok">>) \/ Lose(w, <<"err", "err">>)
  /\ UNCHANGED <<single, load, cache>>

-----------------------------------------------------------------------------
Work(w) ==
  \/ Plain(w) \/ hsi_nfs_setattr(w) \/ CallGet(w) \/ CallLookup(w)
  \/ CallSet(w) \/ CallLink(w)
  \/ UpdateSize(w) \/ UpdateRest(w) \/ Reply(w) \/ Claim(w) \/ CallCreate(w)
  \/ hsx_fuse_read(w) \/ hsx_fuse_write(w) \/ GetAcl(w) \/ SetAcl(w)

Next ==
  \/ \E o \in Obj, a \in Attr : OtherChange(o, a)
  \/ \E v \in {"number", "another"} : OtherCreate(v)
  \/ \E w \in Worker, op \in load.ops, o \in Obj, v \in load.sizes, u \in Uid, how \in Hows :
       Start(w, op, o, v, u, how)
  \/ \E w \in Worker : Work(w)
  \/ \E w \in Worker : Finish(w)

Spec == Init /\ [][Next]_vars

-----------------------------------------------------------------------------
(* Properties *)

Ok(w) == At(w, "done") /\ job[w].replies = <<"ok">>
Since(w) == job[w].base .. Len(log[job[w].o])

\* Every handler of fuse/ replies exactly once to the request it was given,
\* whatever the server answers and other workers do, or ends the process in its
\* place (an ERR_PTR value used, FUSE_ASSERT).  Exceptions are an inode that was
\* not found, and setxattr, whose reply is sent again at `out`.
RepliedOnce ==
  \A w \in Worker :
    At(w, "done") /\ ~job[w].missing /\ job[w].op # "setxattr" => Len(job[w].replies) = 1

\* A handler that replies success has had the server do what was asked.  Known
\* exceptions are access, which ignores the rights granted, the success that
\* setxattr replies for names it does not know, and a size that was dropped.
SuccessMeansDone ==
  \A w \in Worker :
    /\ Ok(w) /\ job[w].op \notin {"access", "setxattr"}
    /\ job[w].op = "setsize" => job[w].rpc
    => job[w].did

\* A request that changes attributes or names and fails has changed nothing at
\* the server.  Known exceptions: the answer was lost, SETATTR's had no
\* attributes (EAGAIN), they were another object's (ESTALE), a second call failed,
\* or hsx_fuse_link could not allocate the reply to a link that was made (ENOMEM).
FailedUntouched ==
  \A w \in Worker :
    /\ At(w, "done") /\ job[w].replies = <<"err">> /\ job[w].why = "none"
    /\ job[w].op \in {"setsize", "chown", "setboth", "link", "create"}
    => ~job[w].did

\* The reply of a handler tells what the server did: success that it was done,
\* an error that it was not, but for the exceptions named above.
OutcomeTold == SuccessMeansDone /\ FailedUntouched

\* Attributes that a handler replies are ones the server had, all at once, at
\* some time since the request was sent.  For getattr this is always so; the
\* others read them back from the inode, where another worker may have mixed
\* in its own, a -ESTALE may have kept the old ones, or nothing was asked.
RepliedReal ==
  \A w \in Worker :
    /\ Ok(w) /\ job[w].op \in {"getattr", "setsize", "chown", "setboth", "lookup"}
    /\ job[w].op # "getattr" => job[w].rpc /\ ~job[w].mixed /\ job[w].why # "ESTALE"
    => \E i \in Since(w) : /\ job[w].ans.size = log[job[w].o][i].size
                            /\ job[w].ans.uid = log[job[w].o][i].uid

\* With one worker the inode holds, between requests, attributes the server had
\* all at once; only create breaks this, for the owner of its directory.
SnapshotAlone ==
  single /\ (\A w \in Worker : job[w].pc \in {"idle", "done"}) =>
    \A o \in Obj :
      /\ cache[o].size = log[o][cache[o].ver].size
      /\ cache[o].uid = log[o][cache[o].ver].uid \/ (o = "dir" /\ "create" \in load.ops)

\* Attributes never mix two states of the file, in a reply or in the cached
\* inode, but where several workers update one inode or a create borrows it.
AttributesReal == RepliedReal /\ SnapshotAlone

\* A successful truncate or extension, alone or with other attributes, took
\* place at the server after it was asked for, unless hsi_nfs_setattr dropped it.
\* With one worker that takes attributes older than the last change; with
\* several, workers that copied their answers into the inode at once are enough.
SizeSetUnlessStale ==
  \A w \in Worker :
    Ok(w) /\ job[w].op \in SizeOps /\ (job[w].drop => single /\ ~job[w].stale) =>
      \E i \in Since(w) : log["file"][i].size = job[w].val

\* A file that hsx_fuse_create makes belongs to the caller: the ids travel in
\* the inode of the directory.  Not so when another worker wrote that inode
\* before the call, and never with O_EXCL, which sends no ids.
CreatedOwned ==
  new.by \in Worker /\ new.how # "EXCLUSIVE" /\ ~new.mixed => new.owner = new.caller

\* An O_EXCL create succeeds only for a file that this request made, or that
\* was made with the same verifier, which is the number of the directory.
ExclusiveVerified ==
  \A w \in Worker :
    Ok(w) /\ job[w].op = "create" /\ job[w].how = "EXCLUSIVE" =>
      new.by = w \/ new.verf = "number"

\* A file that hsx_fuse_create reports is the caller's own: of its ids, and for
\* O_EXCL of its making, as far as ids and verifier that go with the directory's
\* inode allow.
CreatedRight == CreatedOwned /\ ExclusiveVerified

\* The read and write loops transfer a prefix of the request without a gap.  A
\* write that succeeds took all of it; a read returns less only when the file
\* was not longer at some time since the request was sent.
TransferExact ==
  \A w \in Worker : job[w].op \in {"read", "write"} =>
    /\ job[w].got = 0 .. job[w].cnt - 1
    /\ Ok(w) /\ job[w].cnt < job[w].val =>
         /\ job[w].op = "read"
         /\ \E i \in Since(w) : log["file"][i].size <= job[w].cnt

\* With one worker the ACL of a directory that setxattr does not name becomes
\* what the named one was before: GETACL is read with the type of the request.
\* The named one becomes what the caller gave.
AclsCrossedAlone ==
  [][acl' # acl /\ single =>
       \E w \in Worker :
         /\ job[w].pc = "setacl"
         /\ acl'[job[w].type] \in {"given", "from_mode", "empty"}
         /\ job[w].did \/ acl'[Other(job[w].type)] = acl[job[w].type]]_vars

-----------------------------------------------------------------------------
(* The inductive invariant behind the safety properties *)

\* What a request is where, and what it has done by then.
Where(w) ==
  LET j == job[w] IN
  /\ j.pc = "plain" => j.op \in PlainOps
  /\ j.pc \in {"getacl", "setacl"} => j.op = "setxattr"
  /\ j.pc = "claim" => j.op = "create" /\ ~j.did
  /\ j.pc = "check" => j.op \in {"setsize", "setboth"} /\ ~j.rpc /\ ~j.did /\ ~j.drop
  /\ j.pc = "again" => j.did /\ (j.op = "link" \/ (j.op = "create" /\ j.how = "EXCLUSIVE"))
  /\ j.pc \in {"size", "rest"} => j.rpc /\ j.did
  /\ j.pc = "reply" => (j.rpc /\ j.did) \/ (j.op = "setsize" /\ ~j.rpc /\ j.drop)
  /\ j.pc \in {"size", "rest", "reply"} =>
       j.op \in {"getattr", "lookup", "setsize", "chown", "setboth", "link"}
  /\ j.pc = "call" /\ j.op \in {"setsize", "chown", "setboth", "link", "create"} /\ j.did =>
       j.why = "lost"
  /\ j.op \in {"setsize", "setboth", "link", "read", "write"} => j.o = "file"
  /\ j.op = "create" => j.o = "dir" /\ "create" \in load.ops
  /\ j.op \in {"read", "write"} => j.got = 0 .. j.cnt - 1 /\ j.cnt <= j.val

\* The answer a request got is what the server had at one time since it was sent.
Real(w) ==
  LET j == job[w] IN
  /\ j.ans.ver \in Since(w)
  /\ j.ans.size = log[j.o][j.ans.ver].size /\ j.ans.uid = log[j.o][j.ans.ver].uid

\* The size is to have been set: the call was made with it, or it was dropped by
\* an inode that told the truth.
SizeDue(w) ==
  LET j == job[w] IN
  /\ j.op \in {"setsize", "setboth"}
  /\ \/ ~j.drop /\ j.did
     \/ j.drop /\ single /\ ~j.stale

SizeWasSet(w) == \E i \in Since(w) : log["file"][i].size = job[w].val

\* How a request, the inode and the server agree.
Agrees(w) ==
  LET j == job[w] IN
  /\ j.base <= Len(log[j.o])
  /\ j.pc \in {"size", "rest"} \/ (j.pc = "reply" /\ j.rpc) => Real(w)
  /\ j.pc = "rest" /\ ~j.mixed => cache[j.o].size = j.ans.size
  /\ j.pc = "reply" /\ j.rpc /\ ~j.mixed /\ j.why # "ESTALE" =>
       cache[j.o].size = j.ans.size /\ cache[j.o].uid = j.ans.uid
  /\ j.op = "create" /\ j.pc = "call" /\ ~j.mixed => cache["dir"].uid = j.uid
  /\ SizeDue(w) => SizeWasSet(w)
  /\ j.op = "create" /\ j.how = "EXCLUSIVE" /\ (j.pc = "again" \/ Ok(w)) => new.verf = "number"

Snapshot(o) ==
  /\ cache[o].size = log[o][cache[o].ver].size
  /\ cache[o].uid = log[o][cache[o].ver].uid \/ (o = "dir" /\ "create" \in load.ops)

\* One worker: nobody interferes, and the inode is a snapshot but while it is
\* being written.
Alone ==
  single =>
    /\ \A v, w \in Worker : ~At(v, "idle") /\ ~At(w, "idle") => v = w
    /\ \A w \in Worker : ~job[w].mixed
    /\ \A o \in Obj : Snapshot(o) \/ \E w \in Worker : At(w, "rest") /\ job[w].o = o

AclPlan ==
  \A w \in Worker :
    LET j == job[w] IN
    j.pc = "setacl" /\ j.o = "dir" =>
      /\ j.acl[j.type] \in {"given", "from_mode", "empty"}
      /\ single /\ ~j.did => j.acl[Other(j.type)] = acl[j.type]

IInv ==
  /\ TypeOK /\ \A o \in Obj : cache[o].ver <= Len(log[o])
  /\ \A w \in Worker : Where(w) /\ Agrees(w)
  /\ Alone /\ AclPlan
  /\ RepliedOnce /\ OutcomeTold /\ RepliedReal /\ SizeSetUnlessStale /\ CreatedOwned
  /\ TransferExact
=============================================================================
