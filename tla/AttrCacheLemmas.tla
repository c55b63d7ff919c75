-------------------------- MODULE AttrCacheLemmas ---------------------------
(***************************************************************************)
(* Proofs about AttrCache, first part: what the steps of others leave      *)
(* alone, and the steps of the requests that fetch and set attributes.     *)
(***************************************************************************)
EXTENDS AttrCache, TLAPS

-----------------------------------------------------------------------------
(* The parts of the invariant that are about one worker *)

\* What a finished request tells, a matter of the request alone.
Told(w) ==
  LET j == job[w] IN
  /\ j.pc = "done" /\ ~j.missing /\ j.op # "setxattr" => Len(j.replies) = 1
  /\ /\ j.pc = "done" /\ j.replies = <<"ok">> /\ j.op \notin {"access", "setxattr"}
     /\ j.op = "setsize" => j.rpc
     => j.did
  /\ /\ j.pc = "done" /\ j.replies = <<"err">> /\ j.why = "none"
     /\ j.op \in {"setsize", "chown", "setboth", "link", "create"}
     => ~j.did

\* What it tells of the server's attributes.
Shown(w) ==
  LET j == job[w] IN
  /\ /\ Ok(w) /\ j.op \in {"getattr", "setsize", "chown", "setboth", "lookup"}
     /\ j.op # "getattr" => j.rpc /\ ~j.mixed /\ j.why # "ESTALE"
     => \E i \in Since(w) : j.ans.size = log[j.o][i].size /\ j.ans.uid = log[j.o][i].uid
  /\ Ok(w) /\ j.op \in {"setsize", "setboth"} /\ (j.drop => single /\ ~j.stale) => SizeWasSet(w)
  /\ j.op \in {"read", "write"} /\ Ok(w) /\ j.cnt < j.val =>
       j.op = "read" /\ \E i \in Since(w) : log["file"][i].size <= j.cnt

\* What a step of another worker or client leaves of the request of x.
Kept(x) ==
  LET j == job[x]
      k == job'[x]
  IN
  /\ k.op = j.op /\ k.pc = j.pc /\ k.o = j.o /\ k.val = j.val /\ k.uid = j.uid
  /\ k.how = j.how /\ k.base = j.base /\ k.ans = j.ans /\ k.rpc = j.rpc /\ k.stale = j.stale
  /\ k.drop = j.drop /\ k.known = j.known
  /\ k.missing = j.missing /\ k.did = j.did /\ k.why = j.why /\ k.cnt = j.cnt
  /\ k.got = j.got /\ k.replies = j.replies /\ k.type = j.type /\ k.acl = j.acl

\* The server's history of an object only grows.
LogGrows ==
  \A o \in Obj : /\ Len(log'[o]) \in Nat /\ Len(log[o]) <= Len(log'[o])
                 /\ \A i \in 1 .. Len(log[o]) : log'[o][i] = log[o][i]

\* What worker x may rely on in the steps of the others.
Rely(x) ==
  /\ Kept(x) /\ (job[x].mixed => job'[x].mixed)
  /\ job[x].pc = "idle" => job'[x].mixed = job[x].mixed
  /\ \A o \in Obj : Using(x, o) => cache'[o] = cache[o] \/ job'[x].mixed

\* What holds of the state around.
Around ==
  /\ LogGrows /\ UNCHANGED <<single, load>>
  /\ new.verf = "number" => new'.verf = "number"

-----------------------------------------------------------------------------
(* The server *)

\* The last state of an object is one the server had.
LEMMA NowReal ==
  ASSUME TypeOK, NEW o \in Obj
  PROVE  /\ Now(o) \in Attr /\ Now(o) = log[o][Len(log[o])]
         /\ Fresh(o) \in Cached /\ Fresh(o).ver = Len(log[o])
         /\ Fresh(o).size = log[o][Len(log[o])].size
         /\ Fresh(o).uid = log[o][Len(log[o])].uid
<1>1. log[o] \in Seq(Attr) /\ Len(log[o]) \in 1 .. MaxLog
  BY DEF TypeOK
<1>2. Now(o) = log[o][Len(log[o])]
  BY DEF Now
<1>3. Now(o) \in Attr
  BY <1>1, <1>2
<1>4. Fresh(o) = [size |-> Now(o).size, uid |-> Now(o).uid, ver |-> Len(log[o])]
  BY DEF Fresh
<1> QED
  BY <1>1, <1>2, <1>3, <1>4 DEF Attr, Cached

\* A change appends to the history of its object.
LEMMA Changed ==
  ASSUME TypeOK, NEW o \in Obj, NEW a \in Attr, Change(o, a)
  PROVE  /\ log' \in [Obj -> Seq(Attr)] /\ \A x \in Obj : Len(log'[x]) \in 1 .. MaxLog
         /\ Len(log'[o]) = Len(log[o]) + 1 /\ log'[o][Len(log[o]) + 1] = a
         /\ \A x \in Obj \ {o} : log'[x] = log[x]
         /\ LogGrows
<1>1. log[o] \in Seq(Attr) /\ Len(log[o]) \in 1 .. MaxLog /\ Len(log[o]) < MaxLog
  BY DEF TypeOK, Change
<1>2. log' = [log EXCEPT ![o] = Append(log[o], a)] /\ MaxLog \in Nat
  BY AttrAssumption DEF Change, TypeOK
<1>3. /\ Append(log[o], a) \in Seq(Attr) /\ Len(Append(log[o], a)) = Len(log[o]) + 1
      /\ Append(log[o], a)[Len(log[o]) + 1] = a
      /\ \A i \in 1 .. Len(log[o]) : Append(log[o], a)[i] = log[o][i]
  BY <1>1
<1>4. /\ log'[o] = Append(log[o], a) /\ \A x \in Obj \ {o} : log'[x] = log[x]
      /\ log' \in [Obj -> Seq(Attr)]
  BY <1>2, <1>3 DEF TypeOK
<1>5. \A x \in Obj : Len(log[x]) \in 1 .. MaxLog
  BY DEF TypeOK
<1>6. \A x \in Obj : Len(log'[x]) \in 1 .. MaxLog
  BY <1>1, <1>2, <1>3, <1>4, <1>5
<1>7. LogGrows
  <2> SUFFICES ASSUME NEW x \in Obj
               PROVE  /\ Len(log'[x]) \in Nat /\ Len(log[x]) <= Len(log'[x])
                      /\ \A i \in 1 .. Len(log[x]) : log'[x][i] = log[x][i]
    BY DEF LogGrows
  <2>1. CASE x = o
    BY <1>1, <1>3, <1>4, <2>1
  <2>2. CASE x # o
    BY <1>4, <1>5, <2>2
  <2> QED
    BY <2>1, <2>2
<1> QED
  BY <1>3, <1>4, <1>6, <1>7

\* Nothing is lost of a history that does not change.
LEMMA LogSame ==
  ASSUME TypeOK, UNCHANGED log
  PROVE  LogGrows
  BY DEF LogGrows, TypeOK

-----------------------------------------------------------------------------
(* The steps of others *)

\* What was there since the request was sent is still there.
LEMMA SinceKept ==
  ASSUME TypeOK, NEW x \in Worker, Kept(x), LogGrows, job[x].base <= Len(log[job[x].o])
  PROVE  /\ Since(x) \subseteq Since(x)'
         /\ \A i \in Since(x) : log'[job[x].o][i] = log[job[x].o][i]
         /\ job'[x].base <= Len(log'[job'[x].o])
<1>1. job[x] \in Job /\ job[x].o \in Obj /\ job[x].base \in 1 .. MaxLog
  BY DEF TypeOK, Job
<1>2. Len(log[job[x].o]) \in Nat /\ Len(log[job[x].o]) <= Len(log'[job[x].o])
  BY <1>1 DEF TypeOK, LogGrows
<1>3. \A i \in job[x].base .. Len(log[job[x].o]) : i \in 1 .. Len(log[job[x].o])
  BY <1>1, <1>2
<1>4. job'[x].o = job[x].o /\ job'[x].base = job[x].base /\ Len(log'[job[x].o]) \in Nat
  BY <1>1 DEF Kept, LogGrows
<1>5. \A i \in job[x].base .. Len(log[job[x].o]) : log'[job[x].o][i] = log[job[x].o][i]
  BY <1>1, <1>3 DEF LogGrows
<1> QED
  BY <1>1, <1>2, <1>4, <1>5 DEF Since

\* What a request has done and told does not depend on others.
LEMMA LocalKept ==
  ASSUME NEW x \in Worker, Kept(x), UNCHANGED load, Where(x), Told(x)
  PROVE  Where(x)' /\ Told(x)'
  BY DEF Kept, Where, Told

\* What a request, the inode and the server agreed on, they agree on after a step
\* of others, but where that step is marked as mixed in.
LEMMA SharedKept ==
  ASSUME TypeOK, NEW x \in Worker, Rely(x), Around, Where(x), Agrees(x), Shown(x)
  PROVE  Agrees(x)' /\ Shown(x)'
<1> DEFINE j == job[x]
           k == job'[x]
<1>1. Kept(x) /\ LogGrows /\ j.base <= Len(log[j.o])
  BY DEF Rely, Around, Agrees
<1>2. /\ Since(x) \subseteq Since(x)'
      /\ \A i \in Since(x) : log'[j.o][i] = log[j.o][i]
      /\ k.base <= Len(log'[k.o])
  BY <1>1, SinceKept, Zenon
<1>3. /\ k.op = j.op /\ k.pc = j.pc /\ k.o = j.o /\ k.val = j.val /\ k.uid = j.uid
      /\ k.how = j.how /\ k.ans = j.ans /\ k.rpc = j.rpc /\ k.stale = j.stale
      /\ k.drop = j.drop /\ k.did = j.did /\ k.why = j.why /\ k.cnt = j.cnt /\ k.replies = j.replies
  BY <1>1 DEF Kept
<1>4. single' = single /\ (new.verf = "number" => new'.verf = "number") /\ (j.mixed => k.mixed)
  BY ZenonT(40) DEF Rely, Around
<1>5. Real(x) => Real(x)'
  BY <1>2, <1>3 DEF Real
<1>6. j.op \in {"setsize", "setboth"} /\ SizeWasSet(x) => SizeWasSet(x)'
  BY <1>2, <1>3 DEF SizeWasSet, Where
<1>6a. SizeDue(x)' => SizeDue(x) /\ j.op \in {"setsize", "setboth"}
  BY <1>3, <1>4 DEF SizeDue
<1>7. j.pc \in {"rest", "reply"} /\ j.op # "create" /\ ~k.mixed => cache'[j.o] = cache[j.o]
  BY DEF Rely, Using, TypeOK, Job
<1>8. j.pc = "call" /\ j.op = "create" /\ ~k.mixed => cache'["dir"] = cache["dir"]
  BY DEF Rely, Using, Where, Obj
<1>9. j.pc \in {"rest", "reply"} => j.op # "create"
  BY DEF Where
<1>10. Ok(x)' <=> Ok(x)
  BY <1>3, Zenon DEF Ok, At
<1>11. Agrees(x)'
  BY <1>2, <1>3, <1>4, <1>5, <1>6, <1>6a, <1>7, <1>8, <1>9, <1>10, ZenonT(40) DEF Agrees
<1>12. Shown(x)'
  <2>1. /\ Ok(x) /\ j.op \in {"getattr", "setsize", "chown", "setboth", "lookup"}
        /\ j.op # "getattr" => j.rpc /\ ~k.mixed /\ j.why # "ESTALE"
        => \E i \in Since(x)' : j.ans.size = log'[j.o][i].size /\ j.ans.uid = log'[j.o][i].uid
    BY <1>2, <1>4 DEF Shown
  <2>2. j.op \in {"read", "write"} /\ Ok(x) /\ j.cnt < j.val =>
          j.op = "read" /\ \E i \in Since(x)' : log'["file"][i].size <= j.cnt
    BY <1>2 DEF Shown, Where
  <2>3. Ok(x) /\ j.op \in {"setsize", "setboth"} /\ (j.drop => single /\ ~j.stale) => SizeWasSet(x)'
    BY <1>6 DEF Shown
  <2> QED
    BY <1>3, <1>4, <1>10, <2>1, <2>2, <2>3 DEF Shown
<1> QED
  BY <1>11, <1>12

-----------------------------------------------------------------------------
(* The steps of a worker: types, what the others may rely on, and the request *)

Fine(w) == Where(w) /\ Told(w) /\ Agrees(w) /\ Shown(w)

Frame(w) == TypeOK' /\ Around /\ \A x \in Worker \ {w} : Rely(x)

\* A step that changes the request of w only, besides the server.
LEMMA SetFrame ==
  ASSUME TypeOK, NEW w \in Worker, NEW k \in Job, Set(w, k), UNCHANGED cache
  PROVE  /\ job'[w] = k /\ job' \in [Worker -> Job]
         /\ \A x \in Worker \ {w} : Rely(x) /\ job'[x] = job[x]
<1>1. /\ job'[w] = k /\ job' \in [Worker -> Job]
      /\ \A x \in Worker \ {w} : job'[x] = job[x]
  BY DEF Set, TypeOK
<1> QED
  BY <1>1 DEF Rely, Kept

\* A step that changes nothing else.
LEMMA QuietFrame ==
  ASSUME TypeOK, NEW w \in Worker, NEW k \in Job, Set(w, k),
         UNCHANGED <<single, load, log, acl, new, cache>>
  PROVE  Frame(w) /\ job'[w] = k
<1>1. /\ job'[w] = k /\ job' \in [Worker -> Job] /\ \A x \in Worker \ {w} : Rely(x)
  BY SetFrame
<1>2. LogGrows
  BY LogSame
<1> QED
  BY <1>1, <1>2 DEF Frame, Around, TypeOK

\* The request before the step.
LEMMA JobType ==
  ASSUME TypeOK, NEW w \in Worker
  PROVE  /\ job[w] \in Job /\ job[w].o \in Obj /\ job[w].val \in Size /\ job[w].cnt \in Size
         /\ job[w].base \in 1 .. MaxLog /\ Len(log[job[w].o]) \in 1 .. MaxLog
         /\ cache[job[w].o] \in Cached
  BY DEF TypeOK, Job

\* The waiting worker.
LEMMA IdleJob == Idle \in Job
<1>1. 0 \in Size /\ 1 \in 1 .. MaxLog /\ Daemon \in Uid
  BY AttrAssumption DEF Size
<1>2. << >> \in Seq({"ok", "err", "crash"})
  OBVIOUS
<1>3. [size |-> 0, uid |-> Daemon, ver |-> 1] \in Cached
  BY <1>1 DEF Cached
<1>4. [access |-> "empty", default |-> "empty"] \in [access : Acls, default : Acls]
  BY DEF Acls
<1> QED
  BY <1>1, <1>2, <1>3, <1>4 DEF Idle, Job, PCs, Obj, Hows, Whys, AclTypes

\* It has asked for nothing and was told nothing.
LEMMA IdleFields ==
  /\ Idle.pc = "idle" /\ Idle.op = "none" /\ Idle.o = "file" /\ Idle.base = 1
  /\ ~Idle.did /\ ~Idle.mixed /\ ~Idle.drop
  BY DEF Idle

\* A finished request is forgotten.
LEMMA FinishStep ==
  ASSUME TypeOK, NEW w \in Worker, Finish(w)
  PROVE  Frame(w) /\ Fine(w)'
<1>1. Frame(w) /\ job'[w] = Idle
  BY IdleJob, QuietFrame DEF Finish
<1>2. log' = log /\ Len(log["file"]) \in 1 .. MaxLog
  BY DEF Finish, TypeOK, Obj
<1>3. Where(w)' /\ Told(w)'
  BY <1>1, IdleFields DEF Where, Told
<1>4. Agrees(w)' /\ Shown(w)'
  BY <1>1, <1>2, IdleFields DEF Agrees, Shown, Ok, At, SizeDue
<1> QED
  BY <1>1, <1>3, <1>4 DEF Fine

\* A request arrives: hsfs_ilookup finds its inode, or the handler ends.
LEMMA StartStep ==
  ASSUME TypeOK, NEW w \in Worker, NEW op \in load.ops, NEW o \in Obj, NEW v \in load.sizes,
         NEW u \in Uid, NEW how \in Hows, Start(w, op, o, v, u, how)
  PROVE  Frame(w) /\ Fine(w)' /\ ~job'[w].mixed /\ job'[w].pc # "setacl"
<1>1. op \in AttrOps \cup PlainOps /\ v \in Size /\ Len(log[o]) \in 1 .. MaxLog
  BY AttrAssumption DEF TypeOK, Size
<1>2. PICK m \in BOOLEAN :
        LET j == [Idle EXCEPT !.op = op, !.o = o, !.val = v, !.uid = u, !.how = how,
                              !.base = Len(log[o]), !.missing = m]
        IN Set(w, IF m /\ op \notin PlainOps
                  THEN [j EXCEPT !.pc = "done", !.replies = MissingReplies(op)]
                  ELSE [j EXCEPT !.pc = Entry(op)])
  BY Zenon DEF Start
<1> DEFINE j == [Idle EXCEPT !.op = op, !.o = o, !.val = v, !.uid = u, !.how = how,
                             !.base = Len(log[o]), !.missing = m]
           k == IF m /\ op \notin PlainOps
                THEN [j EXCEPT !.pc = "done", !.replies = MissingReplies(op)]
                ELSE [j EXCEPT !.pc = Entry(op)]
<1>3. /\ MissingReplies(op) \in Seq({"ok", "err", "crash"}) /\ Entry(op) \in PCs
      /\ MissingReplies(op) = <<"ok">> => op = "setxattr"
      /\ MissingReplies(op) = <<"err">> => op \notin {"setsize", "chown", "setboth", "link", "create"}
  <2>1. Entry(op) \in PCs
    BY DEF Entry, PCs
  <2>2. CASE op = "setxattr"
    BY <2>1, <2>2 DEF MissingReplies
  <2>3. CASE op \in {"link", "create"}
    BY <2>1, <2>3 DEF MissingReplies
  <2>4. CASE op \in {"getattr", "setsize", "chown", "setboth"}
    BY <2>1, <2>4 DEF MissingReplies
  <2>5. CASE op \notin {"setxattr", "link", "create", "getattr", "setsize", "chown", "setboth"}
    <3>1. MissingReplies(op) = <<"err">>
      BY <2>5, Zenon DEF MissingReplies
    <3>2. <<"err">> # <<"ok">>
      OBVIOUS
    <3> QED
      BY <2>1, <2>5, <3>1, <3>2
  <2> QED
    BY <2>2, <2>3, <2>4, <2>5
<1>4. j \in Job
  BY <1>1, IdleJob, Zenon DEF Job
<1>5. /\ j.op = op /\ j.o = o /\ j.val = v /\ j.base = Len(log[o]) /\ j.missing = m
      /\ j.uid = u /\ j.rpc = FALSE /\ j.did = FALSE /\ j.cnt = 0 /\ j.got = {} /\ j.why = "none"
      /\ j.mixed = FALSE /\ j.drop = FALSE
  BY DEF Idle
<1> HIDE DEF j
<1>6. k \in Job
  BY <1>3, <1>4, ZenonT(40) DEF Job, PCs
<1>7. /\ k.op = op /\ k.o = o /\ k.val = v /\ k.base = Len(log[o]) /\ k.missing = m
      /\ k.uid = u /\ ~k.rpc /\ ~k.did /\ k.cnt = 0 /\ k.got = {} /\ k.why = "none"
      /\ ~k.mixed /\ ~k.drop
  BY <1>4, <1>5 DEF Job
<1>8. \/ m /\ op \notin PlainOps /\ k.pc = "done" /\ k.replies = MissingReplies(op)
      \/ k.pc = Entry(op)
  BY <1>4 DEF Job
<1> HIDE DEF k
<1>9. Frame(w) /\ job'[w] = k
  BY <1>2, <1>6, QuietFrame DEF Start, j, k
<1>10. /\ op \in {"setsize", "setboth", "link", "read", "write"} => o = "file"
       /\ op = "create" => o = "dir"
       /\ load' = load /\ log' = log
  BY DEF Start
<1>11. 0 .. 0 - 1 = {} /\ 0 <= v
  BY <1>1, AttrAssumption DEF Size
<1>12. Where(w)'
  BY <1>1, <1>7, <1>8, <1>9, <1>10, <1>11, ZenonT(40)
     DEF Where, Entry, SizeOps, PlainOps, AttrOps
<1>13. Told(w)'
  BY <1>1, <1>3, <1>7, <1>8, <1>9, Zenon DEF Told, Entry
<1>14. Agrees(w)' /\ Shown(w)'
  <2>1. k.pc = "done" \/ k.pc \in {"call", "check", "claim", "getacl", "plain"}
    BY <1>8 DEF Entry
  <2>2. k.pc = "call" => op # "create"
    BY <1>8 DEF Entry
  <2>3. k.pc = "done" /\ k.replies = <<"ok">> => op = "setxattr"
    BY <1>3, <1>8 DEF Entry
  <2> QED
    BY <1>1, <1>7, <1>9, <1>10, <2>1, <2>2, <2>3 DEF Agrees, Shown, Ok, At, SizeDue
<1>15. k.pc # "setacl"
  BY <1>8 DEF Entry
<1> QED
  BY <1>7, <1>9, <1>12, <1>13, <1>14, <1>15 DEF Fine

\* How the handlers of FuseReplies end: with one reply when the inode is found, and
\* success, but for access, only when the server has done it.
LEMMA PlainEnds ==
  ASSUME NEW op \in PlainOps, NEW m \in BOOLEAN, NEW e \in Endings(op, m)
  PROVE  /\ e.replies \in Seq({"ok", "err", "crash"}) /\ e.did \in BOOLEAN
         /\ ~m => Len(e.replies) = 1
         /\ e.replies = <<"ok">> /\ op # "access" => e.did
<1> DEFINE Once == {Ending(<<"ok">>, TRUE), Ending(<<"err">>, FALSE), Ending(<<"err">>, TRUE),
                    Ending(<<"crash">>, TRUE)}
           Ends(x) == \/ x \in Once \/ (m /\ x = Ending(<< >>, FALSE))
                      \/ op = "access" /\ x = Ending(<<"ok">>, FALSE)
<1> SUFFICES ASSUME Ends(e)
             PROVE  /\ e.replies \in Seq({"ok", "err", "crash"}) /\ e.did \in BOOLEAN
                    /\ ~m => Len(e.replies) = 1
                    /\ e.replies = <<"ok">> /\ op # "access" => e.did
  <2> SUFFICES Ends(e)
    BY Zenon
  <2>4. CASE op = "access"
    <3>1. Endings(op, m) = hsx_fuse_access(m)
      BY <2>4, Zenon DEF Endings
    <3> QED
      BY <2>4, <3>1, Zenon DEF hsx_fuse_access, hsi_nfs3_access, OneCall, Nothing, Refused, Crash
  <2>5. CASE op = "rmdir"
    <3>1. Endings(op, m) = hsx_fuse_rmdir(m)
      BY <2>5, Zenon DEF Endings
    <3> QED
      BY <2>5, <3>1, Zenon DEF hsx_fuse_rmdir, hsi_nfs3_rmdir, OneCall, Nothing, Refused, Crash
  <2>6. CASE op = "unlink"
    <3>1. Endings(op, m) = hsx_fuse_unlink(m)
      BY <2>6, Zenon DEF Endings
    <3> QED
      BY <2>6, <3>1, Zenon DEF hsx_fuse_unlink, hsi_nfs3_unlink, OneCall, Nothing, Refused, Crash
  <2>7. CASE op = "rename"
    <3>1. Endings(op, m) = hsx_fuse_rename(m)
      BY <2>7, Zenon DEF Endings
    <3> QED
      BY <2>7, <3>1, Zenon DEF hsx_fuse_rename, hsi_nfs3_rename, OneCall, Nothing, Refused, Crash
  <2>8. CASE op = "readlink"
    <3>1. Endings(op, m) = hsx_fuse_readlink(m)
      BY <2>8, Zenon DEF Endings
    <3> QED
      BY <2>8, <3>1, Zenon DEF hsx_fuse_readlink, hsi_nfs3_readlink, OneCall, Nothing, Refused, Crash
  <2>9. CASE op = "statfs"
    <3>1. Endings(op, m) = hsx_fuse_statfs(m)
      BY <2>9, Zenon DEF Endings
    <3> QED
      BY <2>9, <3>1, Zenon DEF hsx_fuse_statfs, hsi_nfs3_statfs, OneCall, Nothing, Refused, Crash
  <2>10. CASE op = "open"
    <3>1. Endings(op, m) = hsx_fuse_open(m)
      BY <2>10, Zenon DEF Endings
    <3> QED
      BY <2>10, <3>1, Zenon DEF hsx_fuse_open, OneCall, Nothing, Refused, Crash
  <2>11. CASE op = "release"
    <3>1. Endings(op, m) = hsx_fuse_release(m)
      BY <2>11, Zenon DEF Endings
    <3> QED
      BY <2>11, <3>1, Zenon DEF hsx_fuse_release, OneCall, Nothing, Refused, Crash
  <2>12. CASE op = "opendir"
    <3>1. Endings(op, m) = hsx_fuse_opendir(m)
      BY <2>12, Zenon DEF Endings
    <3> QED
      BY <2>12, <3>1, Zenon DEF hsx_fuse_opendir, OneCall, Nothing, Refused, Crash
  <2>13. CASE op = "getxattr"
    <3>1. Endings(op, m) = hsx_fuse_getxattr(m)
      BY <2>13, Zenon DEF Endings
    <3> QED
      BY <2>13, <3>1, Zenon DEF hsx_fuse_getxattr, hsi_nfs3_getxattr, OneCall, Nothing, Refused, Crash
  <2>14. CASE op = "mkdir"
    <3>1. Endings(op, m) = hsx_fuse_mkdir(m)
      BY <2>14, Zenon DEF Endings
    <3> QED
      BY <2>14, <3>1, Zenon DEF hsx_fuse_mkdir, hsi_nfs3_mkdir, hsi_nfs3_handle_create, OneCall, Nothing, Refused, Crash
  <2>15. CASE op = "mknod"
    <3>1. Endings(op, m) = hsx_fuse_mknod(m)
      BY <2>15, Zenon DEF Endings
    <3> QED
      BY <2>15, <3>1, Zenon DEF hsx_fuse_mknod, hsi_nfs3_mknod, hsi_nfs3_handle_create, OneCall, Nothing, Refused, Crash
  <2>16. CASE op = "symlink"
    <3>1. Endings(op, m) = hsx_fuse_symlink(m)
      BY <2>16, Zenon DEF Endings
    <3> QED
      BY <2>16, <3>1, Zenon DEF hsx_fuse_symlink, hsi_nfs3_symlink, hsi_nfs3_handle_create, OneCall, Nothing, Refused, Crash
  <2> QED
    BY <2>4, <2>5, <2>6, <2>7, <2>8, <2>9, <2>10, <2>11, <2>12, <2>13, <2>14, <2>15, <2>16, Zenon DEF PlainOps
<1>1. CASE e = Ending(<<"ok">>, TRUE)
  BY <1>1 DEF Ending
<1>2. ASSUME NEW r \in {"err", "crash"}, NEW d \in BOOLEAN, e = Ending(<<r>>, d)
      PROVE  /\ e.replies \in Seq({"ok", "err", "crash"}) /\ e.did \in BOOLEAN
             /\ Len(e.replies) = 1 /\ e.replies # <<"ok">>
  <2>1. e.replies = <<r>> /\ e.did = d
    BY <1>2 DEF Ending
  <2>2. <<r>> \in Seq({"ok", "err", "crash"}) /\ Len(<<r>>) = 1 /\ <<r>>[1] # <<"ok">>[1]
    OBVIOUS
  <2> QED
    BY <2>1, <2>2
<1>3. CASE m /\ e = Ending(<< >>, FALSE)
  BY <1>3 DEF Ending
<1>4. CASE op = "access" /\ e = Ending(<<"ok">>, FALSE)
  BY <1>4 DEF Ending
<1> QED
  BY <1>1, <1>2, <1>3, <1>4, Zenon

\* What a step in which a call reaches the server does around the request.
Served ==
  /\ UNCHANGED <<single, load, cache>>
  /\ LogGrows /\ log' \in [Obj -> Seq(Attr)] /\ \A o \in Obj : Len(log'[o]) \in 1 .. MaxLog
  /\ acl' \in [access : Acls, default : Acls]
  /\ new' \in File /\ (new.verf = "number" => new'.verf = "number")

\* A call that changes nothing, and one that changes an object.
LEMMA ServedSame ==
  ASSUME TypeOK, UNCHANGED <<single, load, log, acl, new, cache>>
  PROVE  Served
  BY LogSame DEF Served, TypeOK

LEMMA ServedChange ==
  ASSUME TypeOK, UNCHANGED <<single, load, cache, acl, new>>, NEW o \in Obj, NEW a \in Attr,
         Change(o, a)
  PROVE  Served
  BY Changed DEF Served, TypeOK

\* A step that changes the request of w and the server.
LEMMA ServedFrame ==
  ASSUME TypeOK, NEW w \in Worker, NEW k \in Job, Set(w, k), Served
  PROVE  Frame(w) /\ job'[w] = k
<1>1. /\ job'[w] = k /\ job' \in [Worker -> Job] /\ \A x \in Worker \ {w} : Rely(x)
  BY SetFrame DEF Served
<1> QED
  BY <1>1 DEF Frame, Around, TypeOK, Served

\* What of a request its handler does not change.
Asked(j, k) ==
  /\ k.op = j.op /\ k.o = j.o /\ k.val = j.val /\ k.uid = j.uid /\ k.how = j.how
  /\ k.base = j.base /\ k.missing = j.missing /\ k.drop = j.drop /\ k.stale = j.stale

\* A request keeps its place in the histories, which only grow.
LEMMA BaseStays ==
  ASSUME TypeOK, NEW w \in Worker, Fine(w), LogGrows, NEW k \in Job, Asked(job[w], k)
  PROVE  /\ k.base <= Len(log'[k.o]) /\ k.base <= Len(log[k.o])
         /\ k.base \in Nat /\ Len(log[k.o]) \in Nat /\ Len(log'[k.o]) \in Nat
<1> DEFINE m == Len(log[job[w].o])
           n == Len(log'[job[w].o])
           b == job[w].base
<1>1. job[w].o \in Obj /\ b \in 1 .. MaxLog /\ m \in 1 .. MaxLog
  BY JobType, Zenon
<1>2. b <= m
  BY Zenon DEF Fine, Agrees
<1>3. n \in Nat /\ m <= n
  BY <1>1, Zenon DEF LogGrows
<1>4. k.base = b /\ k.o = job[w].o
  BY Zenon DEF Asked
<1> HIDE DEF m, n, b
<1>5. b <= n /\ b \in Nat /\ m \in Nat
  BY <1>1, <1>2, <1>3
<1> QED
  BY <1>2, <1>3, <1>4, <1>5, Zenon DEF m, n, b

\* A handler that ends without success, or setxattr that ends at all.
LEMMA Failed ==
  ASSUME TypeOK, NEW w \in Worker, Fine(w), NEW k \in Job, job'[w] = k, Asked(job[w], k),
         LogGrows, load' = load, k.pc = "done", k.cnt = job[w].cnt, k.got = job[w].got,
         k.op # "setxattr" =>
           /\ Len(k.replies) = 1 /\ k.replies # <<"ok">>
           /\ (/\ k.replies = <<"err">> /\ k.why = "none"
               /\ k.op \in {"setsize", "chown", "setboth", "link", "create"}) => ~k.did,
         SizeDue(w)' => SizeWasSet(w)'
  PROVE  Fine(w)'
<1>1. k.base <= Len(log'[k.o])
  BY BaseStays, Zenon
<1>2. Where(w)'
  BY DEF Fine, Where, Asked
<1>3. Told(w)'
  BY DEF Told
<1>4. Agrees(w)' /\ Shown(w)'
  BY <1>1, Zenon DEF Agrees, Shown, Ok, At
<1> QED
  BY <1>2, <1>3, <1>4 DEF Fine

\* The answer of a call has come with attributes (nfs_refresh_inode is next).
LEMMA Answered ==
  ASSUME TypeOK, NEW w \in Worker, Fine(w), NEW k \in Job, job'[w] = k, Asked(job[w], k),
         LogGrows, load' = load, k.pc = "size", k.cnt = job[w].cnt, k.got = job[w].got,
         k.op \in {"getattr", "lookup", "setsize", "chown", "setboth", "link"}, k.rpc, k.did,
         k.ans.ver \in Len(log[k.o]) .. Len(log'[k.o]),
         k.ans.size = log'[k.o][k.ans.ver].size, k.ans.uid = log'[k.o][k.ans.ver].uid,
         SizeDue(w)' => SizeWasSet(w)'
  PROVE  Fine(w)'
<1>1. k.base <= Len(log'[k.o]) /\ k.ans.ver \in k.base .. Len(log'[k.o])
  <2> DEFINE m == Len(log[k.o])
             n == Len(log'[k.o])
  <2>1. k.base <= n /\ k.base <= m /\ k.base \in Nat /\ m \in Nat /\ n \in Nat
    BY BaseStays, Zenon
  <2>2. k.ans.ver \in m .. n
    OBVIOUS
  <2> HIDE DEF m, n
  <2>3. k.ans.ver \in k.base .. n
    BY <2>1, <2>2
  <2> QED
    BY <2>1, <2>3, Zenon DEF n
<1>2. Where(w)'
  BY DEF Fine, Where, Asked
<1>3. Told(w)'
  BY DEF Told
<1>4. Real(w)'
  BY <1>1 DEF Real, Since
<1>5. Agrees(w)' /\ Shown(w)'
  BY <1>1, <1>4 DEF Agrees, Shown, Ok, At
<1> QED
  BY <1>2, <1>3, <1>5 DEF Fine

\* The handlers of FuseReplies.
LEMMA PlainStep ==
  ASSUME TypeOK, NEW w \in Worker, Fine(w), Plain(w)
  PROVE  Frame(w) /\ Fine(w)'
<1> DEFINE j == job[w]
<1>1. PICK e \in Endings(j.op, j.missing) :
        Set(w, [j EXCEPT !.pc = "done", !.replies = e.replies, !.did = e.did])
  BY Zenon DEF Plain
<1>2. j \in Job /\ j.missing \in BOOLEAN /\ j.pc = "plain" /\ j.op \in PlainOps
      /\ j.base <= Len(log[j.o])
  BY JobType DEF Job, Fine, Where, Plain, At, Agrees
<1>3. /\ e.replies \in Seq({"ok", "err", "crash"}) /\ e.did \in BOOLEAN
      /\ ~j.missing => Len(e.replies) = 1
      /\ e.replies = <<"ok">> /\ j.op # "access" => e.did
  BY <1>2, PlainEnds
<1> DEFINE k == [j EXCEPT !.pc = "done", !.replies = e.replies, !.did = e.did]
<1>4. k \in Job
  BY <1>2, <1>3, Zenon DEF Job, PCs
<1>5. /\ k.op = j.op /\ k.o = j.o /\ k.val = j.val /\ k.base = j.base /\ k.missing = j.missing
      /\ k.pc = "done" /\ k.replies = e.replies /\ k.did = e.did
  BY <1>2 DEF Job
<1> HIDE DEF k
<1>6. Frame(w) /\ job'[w] = k /\ log' = log /\ load' = load
  BY <1>1, <1>4, QuietFrame DEF Plain, k
<1>7. k.op \in PlainOps /\ j.op \notin AttrOps
  BY <1>2, <1>5 DEF PlainOps, AttrOps
<1>8. Where(w)' /\ Told(w)'
  BY <1>2, <1>3, <1>5, <1>6, <1>7, Zenon DEF Where, Told, AttrOps
<1>9. Agrees(w)' /\ Shown(w)'
  BY <1>2, <1>5, <1>6, <1>7, Zenon DEF Agrees, Shown, Ok, At, AttrOps, SizeDue
<1> QED
  BY <1>6, <1>8, <1>9 DEF Fine

\* hsi_nfs_setattr drops a size only when the server had it, if there is one worker
\* and the inode is not older than the last change.
LEMMA CheckStep ==
  ASSUME TypeOK, Alone, \A o \in Obj : cache[o].ver <= Len(log[o]),
         NEW w \in Worker, Fine(w), hsi_nfs_setattr(w)
  PROVE  Frame(w) /\ Fine(w)'
<1> DEFINE j == job[w]
           d == j.val = cache[j.o].size
           k == [j EXCEPT !.stale = Stale(j.o), !.drop = d,
                          !.pc = IF d /\ j.op = "setsize" THEN "reply" ELSE "call"]
<1>1. /\ j \in Job /\ j.o \in Obj /\ j.val \in Size /\ j.base \in 1 .. MaxLog
      /\ Len(log[j.o]) \in 1 .. MaxLog /\ cache[j.o] \in Cached
      /\ Stale(j.o) \in BOOLEAN /\ d \in BOOLEAN
  BY JobType DEF Stale
<1>2. /\ j.pc = "check" /\ j.op \in {"setsize", "setboth"} /\ ~j.rpc /\ ~j.did /\ j.o = "file"
      /\ j.base <= Len(log[j.o])
  BY DEF Fine, Where, Agrees, hsi_nfs_setattr, At
<1> HIDE DEF d
<1>3. k \in Job
  <2>1. (IF d /\ j.op = "setsize" THEN "reply" ELSE "call") \in PCs
    BY DEF PCs
  <2> QED
    BY <1>1, <2>1, Zenon DEF Job
<1>4. /\ k.op = j.op /\ k.o = j.o /\ k.val = j.val /\ k.base = j.base
      /\ k.rpc = j.rpc /\ k.did = j.did /\ k.stale = Stale(j.o) /\ k.drop = d
      /\ k.pc = IF d /\ j.op = "setsize" THEN "reply" ELSE "call"
  BY <1>1, Zenon DEF Job
<1> HIDE DEF k
<1>5. Frame(w) /\ job'[w] = k /\ log' = log /\ load' = load /\ single' = single
  BY <1>3, QuietFrame DEF hsi_nfs_setattr, k, d
<1>6. SizeDue(w)' => SizeWasSet(w)'
  <2> SUFFICES ASSUME SizeDue(w)'
               PROVE  SizeWasSet(w)'
    OBVIOUS
  <2>1. single /\ ~Stale(j.o) /\ d
    BY <1>2, <1>4, <1>5, Zenon DEF SizeDue
  <2>2. cache[j.o].ver = Len(log[j.o]) /\ j.val = cache[j.o].size
    BY <1>1, <2>1 DEF Cached, Stale, d
  <2>3. ~ \E x \in Worker : At(x, "rest") /\ job[x].o = j.o
    BY <1>2, <2>1 DEF Alone, At
  <2>4. cache[j.o].size = log[j.o][cache[j.o].ver].size
    BY <1>1, <2>1, <2>3 DEF Alone, Snapshot
  <2>5. Len(log[j.o]) \in j.base .. Len(log[j.o])
    BY <1>1, <1>2
  <2>6. /\ job'[w].base = j.base /\ job'[w].o = "file" /\ job'[w].val = j.val
        /\ log'["file"] = log[j.o]
    BY <1>2, <1>4, <1>5
  <2>7. Len(log[j.o]) \in Since(w)' /\ log'["file"][Len(log[j.o])].size = job'[w].val
    BY <1>2, <2>2, <2>4, <2>5, <2>6 DEF Since
  <2> QED
    BY <2>7 DEF SizeWasSet
<1>7. Where(w)' /\ Told(w)'
  BY <1>2, <1>4, <1>5, Zenon DEF Where, Told
<1>8. Agrees(w)' /\ Shown(w)'
  BY <1>2, <1>4, <1>5, <1>6, Zenon DEF Agrees, Shown, Ok, At
<1> QED
  BY <1>5, <1>7, <1>8 DEF Fine

\* A handler replies and is done; nothing else of the request changes.
LEMMA DoneJob ==
  ASSUME NEW i \in Job, NEW r \in Seq({"ok", "err", "crash"})
  PROVE  LET k == [i EXCEPT !.pc = "done", !.replies = r] IN
         /\ k \in Job /\ Asked(i, k) /\ k.pc = "done" /\ k.replies = r
         /\ k.cnt = i.cnt /\ k.got = i.got /\ k.rpc = i.rpc /\ k.did = i.did /\ k.why = i.why
         /\ k.ans = i.ans /\ k.stale = i.stale /\ k.mixed = i.mixed
  BY ZenonT(40) DEF Job, PCs, Asked

\* The replies that handlers send.
LEMMA Replies ==
  /\ \A r \in {"ok", "err", "crash"} : <<r>> \in Seq({"ok", "err", "crash"}) /\ Len(<<r>>) = 1
  /\ \A r, s \in {"ok", "err", "crash"} : <<r, s>> \in Seq({"ok", "err", "crash"})
  /\ <<"err">> # <<"ok">> /\ <<"crash">> # <<"ok">> /\ <<"crash">> # <<"err">>
<1>1. <<"err">>[1] # <<"ok">>[1] /\ <<"crash">>[1] # <<"ok">>[1] /\ <<"crash">>[1] # <<"err">>[1]
  OBVIOUS
<1> QED
  BY <1>1

\* What was set since the request was sent stays so while the server works.
LEMMA SetStays ==
  ASSUME TypeOK, NEW w \in Worker, Fine(w), LogGrows, Asked(job[w], job'[w]),
         job[w].op \in {"setsize", "setboth"}, SizeWasSet(w)
  PROVE  SizeWasSet(w)'
<1>1. /\ job[w].o = "file" /\ job[w].base \in 1 .. MaxLog /\ Len(log["file"]) \in Nat
      /\ "file" \in Obj
  BY JobType DEF Fine, Where, Obj
<1>2. PICK i \in job[w].base .. Len(log["file"]) : log["file"][i].size = job[w].val
  BY <1>1 DEF SizeWasSet, Since
<1>3. /\ i \in 1 .. Len(log["file"]) /\ i \in job[w].base .. Len(log'["file"])
      /\ log'["file"][i] = log["file"][i]
  BY <1>1 DEF LogGrows
<1> QED
  BY <1>1, <1>2, <1>3, Zenon DEF SizeWasSet, Since, Asked

\* A size that was to be set has been, if the step that did it set it.
LEMMA DueStays ==
  ASSUME TypeOK, NEW w \in Worker, Fine(w), LogGrows, single' = single, Asked(job[w], job'[w]),
         job[w].op \in {"setsize", "setboth"} /\ ~job[w].drop /\ ~job[w].did /\ job'[w].did
           => SizeWasSet(w)'
  PROVE  SizeDue(w)' => SizeWasSet(w)'
<1>1. SizeDue(w) => SizeWasSet(w)
  BY Zenon DEF Fine, Agrees
<1>2. SizeDue(w)' => /\ job[w].op \in {"setsize", "setboth"}
                     /\ SizeDue(w) \/ (~job[w].drop /\ ~job[w].did /\ job'[w].did)
  BY DEF SizeDue, Asked
<1> QED
  BY <1>1, <1>2, SetStays, Zenon

\* The server refused, or was not reached.
LEMMA RefuseStep ==
  ASSUME TypeOK, NEW w \in Worker, Fine(w), NEW i \in Job, Asked(job[w], i),
         i.cnt = job[w].cnt, i.got = job[w].got, i.did = job[w].did,
         NEW r \in Seq({"ok", "err", "crash"}), Done(w, i, r),
         UNCHANGED <<single, load, log, acl, new, cache>>,
         i.op # "setxattr" =>
           /\ r \in {<<"err">>, <<"crash">>}
           /\ i.why = "none" /\ i.op \in {"setsize", "chown", "setboth", "link", "create"} => ~i.did
  PROVE  Frame(w) /\ Fine(w)'
<1> DEFINE k == [i EXCEPT !.pc = "done", !.replies = r]
<1>1. /\ k \in Job /\ Asked(i, k) /\ k.pc = "done" /\ k.replies = r
      /\ k.cnt = i.cnt /\ k.got = i.got /\ k.rpc = i.rpc /\ k.did = i.did /\ k.why = i.why
  BY DoneJob, Zenon
<1> HIDE DEF k
<1>2. Frame(w) /\ job'[w] = k /\ LogGrows /\ load' = load /\ single' = single
  BY <1>1, QuietFrame, LogSame DEF Done, k
<1>3. Asked(job[w], k)
  BY <1>1 DEF Asked
<1>4. SizeDue(w)' => SizeWasSet(w)'
  BY <1>1, <1>2, <1>3, DueStays, Zenon
<1>5. k.op # "setxattr" =>
        /\ Len(k.replies) = 1 /\ k.replies # <<"ok">>
        /\ (/\ k.replies = <<"err">> /\ k.why = "none"
            /\ k.op \in {"setsize", "chown", "setboth", "link", "create"}) => ~k.did
  BY <1>1, Replies DEF Asked
<1>6. Fine(w)'
  BY <1>1, <1>2, <1>3, <1>4, <1>5, Failed
<1> QED
  BY <1>2, <1>6

\* The server did it and the answer was lost: the handler calls again or fails.
LEMMA LoseStep ==
  ASSUME TypeOK, NEW w \in Worker, Fine(w), job[w].pc \in {"call", "setacl"}, Served,
         NEW r \in Seq({"ok", "err", "crash"}), Lose(w, r),
         job[w].op \in {"setsize", "chown", "setboth", "link", "create", "setxattr"},
         job[w].op # "setxattr" => r = <<"err">>,
         job[w].op \in {"setsize", "setboth"} /\ ~job[w].drop =>
           \E n \in job[w].base .. Len(log'["file"]) : log'["file"][n].size = job[w].val
  PROVE  Frame(w) /\ Fine(w)'
<1> DEFINE j == job[w]
           i == [j EXCEPT !.did = TRUE, !.rpc = TRUE, !.why = "lost"]
           k == [i EXCEPT !.pc = "done", !.replies = r]
<1>1. j \in Job
  BY JobType
<1>2. i \in Job
  BY <1>1, Zenon DEF Job, Whys
<1>3. /\ Asked(j, i) /\ i.pc = j.pc /\ i.cnt = j.cnt /\ i.got = j.got /\ i.did /\ i.rpc
      /\ i.why = "lost" /\ i.mixed = j.mixed
  BY <1>1 DEF Job, Asked
<1>4. Set(w, i) \/ Set(w, k)
  BY DEF Lose, Done
<1> HIDE DEF i
<1>5. j.op \in {"setsize", "setboth"} => j.o = "file"
  BY DEF Fine, Where
<1>6. CASE Set(w, i)
  <2>1. Frame(w) /\ job'[w] = i /\ load' = load /\ LogGrows /\ single' = single
    BY <1>2, <1>6, ServedFrame DEF Served
  <2>2. SizeDue(w)' => SizeWasSet(w)'
    <3>1. j.op \in {"setsize", "setboth"} /\ ~j.drop => SizeWasSet(w)'
      BY <1>3, <1>5, <2>1 DEF SizeWasSet, Since, Asked
    <3> QED
      BY <1>3, <2>1, <3>1, DueStays, Zenon
  <2>3. i.base <= Len(log'[i.o])
    BY <1>2, <1>3, <2>1, BaseStays, ZenonT(40)
  <2>4. Where(w)' /\ Told(w)'
    BY <1>3, <2>1, ZenonT(30) DEF Fine, Where, Told, Asked
  <2>5. i.op = "create" /\ i.pc = "call" /\ ~i.mixed => cache'["dir"].uid = i.uid
    BY <1>3, ZenonT(30) DEF Fine, Agrees, Asked, Served
  <2>6. Agrees(w)' /\ Shown(w)'
    BY <1>3, <2>1, <2>2, <2>3, <2>5, Zenon DEF Agrees, Shown, Ok, At
  <2> QED
    BY <2>1, <2>4, <2>6, Zenon DEF Fine
<1>7. CASE Set(w, k)
  <2>1. /\ k \in Job /\ Asked(i, k) /\ k.pc = "done" /\ k.replies = r
        /\ k.cnt = i.cnt /\ k.got = i.got /\ k.rpc = i.rpc /\ k.did = i.did /\ k.why = i.why
    BY <1>2, DoneJob, ZenonT(40)
  <2> HIDE DEF k
  <2>2. Frame(w) /\ job'[w] = k /\ load' = load /\ LogGrows /\ single' = single
    BY <1>7, <2>1, ServedFrame DEF Served
  <2>3. Asked(j, k) /\ k.cnt = j.cnt /\ k.got = j.got
    BY <1>3, <2>1 DEF Asked
  <2>4. SizeDue(w)' => SizeWasSet(w)'
    <3>1. j.op \in {"setsize", "setboth"} /\ ~j.drop => SizeWasSet(w)'
      BY <1>5, <2>2, <2>3 DEF SizeWasSet, Since, Asked
    <3> QED
      BY <2>2, <2>3, <3>1, DueStays, Zenon
  <2>5. k.op # "setxattr" =>
          /\ Len(k.replies) = 1 /\ k.replies # <<"ok">>
          /\ (/\ k.replies = <<"err">> /\ k.why = "none"
              /\ k.op \in {"setsize", "chown", "setboth", "link", "create"}) => ~k.did
    BY <1>3, <2>1, <2>3, Replies, Zenon DEF Asked
  <2>6. Fine(w)'
    BY <2>1, <2>2, <2>3, <2>4, <2>5, Failed, Zenon
  <2> QED
    BY <2>2, <2>6
<1> QED
  BY <1>4, <1>6, <1>7

\* An answer with attributes that the server has now, or has just got.
LEMMA ReceivedStep ==
  ASSUME TypeOK, NEW w \in Worker, Fine(w), Served, NEW a \in Cached, Received(w, a),
         job[w].op \in {"getattr", "lookup", "setsize", "chown", "setboth", "link"},
         a.ver \in Len(log[job[w].o]) .. Len(log'[job[w].o]),
         a.size = log'[job[w].o][a.ver].size, a.uid = log'[job[w].o][a.ver].uid,
         job[w].op \in {"setsize", "setboth"} /\ ~job[w].drop =>
           \E n \in job[w].base .. Len(log'["file"]) : log'["file"][n].size = job[w].val
  PROVE  Frame(w) /\ Fine(w)'
<1> DEFINE j == job[w]
           k == [j EXCEPT !.pc = "size", !.ans = a, !.rpc = TRUE, !.did = TRUE]
<1>1. j \in Job
  BY JobType
<1>2. k \in Job
  BY <1>1, Zenon DEF Job, PCs
<1>3. /\ Asked(j, k) /\ k.pc = "size" /\ k.cnt = j.cnt /\ k.got = j.got /\ k.rpc /\ k.did
      /\ k.ans = a
  BY <1>1 DEF Job, Asked
<1> HIDE DEF k
<1>4. Frame(w) /\ job'[w] = k /\ load' = load /\ LogGrows /\ single' = single
  BY <1>2, ServedFrame, Zenon DEF Received, k, Served
<1>5. j.op \in {"setsize", "setboth"} => j.o = "file"
  BY Zenon DEF Fine, Where
<1>6. SizeDue(w)' => SizeWasSet(w)'
  <2>1. j.op \in {"setsize", "setboth"} /\ ~j.drop => SizeWasSet(w)'
    BY <1>3, <1>4, <1>5, Zenon DEF SizeWasSet, Since, Asked
  <2> QED
    BY <1>3, <1>4, <2>1, DueStays, Zenon
<1>7. /\ k.op \in {"getattr", "lookup", "setsize", "chown", "setboth", "link"}
      /\ k.ans.ver \in Len(log[k.o]) .. Len(log'[k.o])
      /\ k.ans.size = log'[k.o][k.ans.ver].size /\ k.ans.uid = log'[k.o][k.ans.ver].uid
  BY <1>3 DEF Asked
<1>8. Fine(w)'
  BY <1>2, <1>3, <1>4, <1>6, <1>7, Answered, ZenonT(30)
<1> QED
  BY <1>4, <1>8, Zenon

\* The attributes at the server are received.
LEMMA FreshStep ==
  ASSUME TypeOK, NEW w \in Worker, Fine(w), Received(w, Fresh(job[w].o)),
         UNCHANGED <<single, load, log, acl, new, cache>>,
         job[w].op \in {"getattr", "lookup", "link"}
  PROVE  Frame(w) /\ Fine(w)'
<1>1. job[w].o \in Obj /\ Len(log[job[w].o]) \in 1 .. MaxLog /\ Served /\ log' = log
  BY JobType, ServedSame, Zenon
<1> DEFINE a == Fresh(job[w].o)
<1>2. /\ a \in Cached /\ a.ver \in Len(log[job[w].o]) .. Len(log'[job[w].o])
      /\ a.size = log'[job[w].o][a.ver].size /\ a.uid = log'[job[w].o][a.ver].uid
  BY <1>1, NowReal
<1> QED
  BY <1>1, <1>2, ReceivedStep, Zenon

\* What the server has made of the object is received.
LEMMA AfterStep ==
  ASSUME TypeOK, NEW w \in Worker, Fine(w), NEW a \in Attr, Change(job[w].o, a), Served,
         Received(w, After(w, a)), job[w].op \in {"setsize", "chown", "setboth", "link"},
         job[w].op \in {"setsize", "setboth"} /\ ~job[w].drop => a.size = job[w].val
  PROVE  Frame(w) /\ Fine(w)'
<1> DEFINE o == job[w].o
           c == After(w, a)
<1>1. /\ o \in Obj /\ Len(log[o]) \in 1 .. MaxLog /\ job[w].base \in 1 .. MaxLog
      /\ job[w].base <= Len(log[o])
  BY JobType DEF Fine, Agrees
<1>2. /\ Len(log'[o]) = Len(log[o]) + 1 /\ log'[o][Len(log[o]) + 1] = a
      /\ Len(log'[o]) \in 1 .. MaxLog
  BY <1>1, Changed, Zenon
<1>3. c \in Cached /\ c.ver = Len(log[o]) + 1 /\ c.size = a.size /\ c.uid = a.uid
  BY <1>2, Zenon DEF After, Cached, Attr
<1>4. /\ c.ver \in Len(log[o]) .. Len(log'[o])
      /\ c.size = log'[o][c.ver].size /\ c.uid = log'[o][c.ver].uid
  BY <1>1, <1>2, <1>3
<1>5. job[w].op \in {"setsize", "setboth"} /\ ~job[w].drop =>
        \E n \in job[w].base .. Len(log'["file"]) : log'["file"][n].size = job[w].val
  <2>1. job[w].op \in {"setsize", "setboth"} => o = "file"
    BY DEF Fine, Where
  <2>2. Len(log[o]) + 1 \in job[w].base .. Len(log'[o])
    BY <1>1, <1>2
  <2> QED
    BY <1>2, <2>1, <2>2, Zenon
<1> QED
  BY <1>3, <1>4, <1>5, ReceivedStep, ZenonT(30)

\* hsi_nfs3_getattr and hsi_nfs3_lookup.
LEMMA GetStep ==
  ASSUME TypeOK, NEW w \in Worker, Fine(w), CallGet(w) \/ CallLookup(w)
  PROVE  Frame(w) /\ Fine(w)'
<1> DEFINE j == job[w]
<1>1. j \in Job /\ Asked(j, j)
  BY JobType DEF Asked
<1>2. /\ j.op \in {"getattr", "lookup"}
      /\ UNCHANGED <<single, load, log, acl, new, cache>>
      /\ Received(w, Fresh(j.o)) \/ Done(w, j, <<"err">>) \/ Done(w, j, <<"crash">>)
  BY DEF CallGet, CallLookup
<1>3. CASE Received(w, Fresh(j.o))
  BY <1>2, <1>3, FreshStep
<1>4. CASE Done(w, j, <<"err">>)
  BY <1>1, <1>2, <1>4, Replies, RefuseStep, Zenon
<1>5. CASE Done(w, j, <<"crash">>)
  BY <1>1, <1>2, <1>5, Replies, RefuseStep, Zenon
<1> QED
  BY <1>2, <1>3, <1>4, <1>5

\* A change that the server made, of whose answer the handler gets nothing.
LEMMA SetAtServer ==
  ASSUME TypeOK, NEW w \in Worker, Fine(w), NEW a \in Attr, Change(job[w].o, a),
         job[w].op \in {"setsize", "setboth"}, a.size = job[w].val
  PROVE  \E n \in job[w].base .. Len(log'["file"]) : log'["file"][n].size = job[w].val
<1>1. /\ job[w].o = "file" /\ "file" \in Obj /\ Len(log["file"]) \in 1 .. MaxLog
      /\ job[w].base \in 1 .. MaxLog /\ job[w].base <= Len(log["file"])
  BY JobType DEF Fine, Agrees, Where, Obj
<1>2. Len(log'["file"]) = Len(log["file"]) + 1 /\ log'["file"][Len(log["file"]) + 1] = a
  BY <1>1, Changed
<1>3. Len(log["file"]) + 1 \in job[w].base .. Len(log'["file"])
  BY <1>1, <1>2
<1> QED
  BY <1>2, <1>3, ZenonT(40)

\* hsi_nfs3_setattr.
LEMMA SetStep ==
  ASSUME TypeOK, NEW w \in Worker, Fine(w), CallSet(w)
  PROVE  Frame(w) /\ Fine(w)'
<1> DEFINE j == job[w]
           a == Wanted(j)
           i == [j EXCEPT !.rpc = TRUE, !.did = TRUE, !.why = "EAGAIN"]
           k == [i EXCEPT !.pc = "done", !.replies = <<"err">>]
<1>1. j \in Job /\ Asked(j, j) /\ j.o \in Obj /\ j.val \in Size
  BY JobType DEF Asked
<1>2. /\ j.pc = "call" /\ j.op \in {"setsize", "chown", "setboth"} /\ UNCHANGED <<single, load, cache>>
      /\ j.did => j.why = "lost"
  BY DEF CallSet, At, Fine, Where
<1>3. \/ Refuse(w, <<"err">>)
      \/ /\ Apply(w, a)
         /\ Received(w, After(w, a)) \/ Lose(w, <<"err">>) \/ Set(w, k)
  BY DEF CallSet, Done
<1>4. CASE Refuse(w, <<"err">>)
  BY <1>1, <1>2, <1>4, Replies, RefuseStep, Zenon DEF Refuse
<1>5. ASSUME Apply(w, a)
      PROVE  /\ a \in Attr /\ Served /\ Change(j.o, a)
             /\ j.op \in {"setsize", "setboth"} /\ ~j.drop => a.size = j.val
  <2>1. Now(j.o) \in Attr
    BY <1>1, NowReal
  <2>2. a \in Attr /\ (j.op \in {"setsize", "setboth"} /\ ~j.drop => a.size = j.val)
    <3>1. j.uid \in Uid /\ Now(j.o).size \in Size /\ Now(j.o).uid \in Uid
      BY <1>1, <2>1, Zenon DEF Job, Attr
    <3> QED
      BY <1>1, <1>2, <3>1 DEF Wanted, Attr, SizeOps
  <2> QED
    BY <1>1, <1>2, <1>5, <2>2, ServedChange DEF Apply
<1> HIDE DEF a
<1>6. CASE Apply(w, a) /\ Received(w, After(w, a))
  BY <1>2, <1>5, <1>6, AfterStep
<1>7. ASSUME Apply(w, a), j.op \in {"setsize", "setboth"}, ~j.drop
      PROVE  \E n \in j.base .. Len(log'["file"]) : log'["file"][n].size = j.val
  BY <1>5, <1>7, SetAtServer
<1>8. CASE Apply(w, a) /\ Lose(w, <<"err">>)
  BY <1>2, <1>5, <1>7, <1>8, Replies, LoseStep, Zenon
<1>9. CASE Apply(w, a) /\ Set(w, k)
  <2>1. i \in Job
    BY <1>1, Zenon DEF Job, Whys
  <2>2. /\ Asked(j, i) /\ i.cnt = j.cnt /\ i.got = j.got /\ i.why = "EAGAIN"
    BY <1>1 DEF Job, Asked
  <2> HIDE DEF i
  <2>3. /\ k \in Job /\ Asked(i, k) /\ k.pc = "done" /\ k.replies = <<"err">>
        /\ k.cnt = i.cnt /\ k.got = i.got /\ k.why = i.why
    BY <2>1, Replies, DoneJob, ZenonT(30)
  <2> HIDE DEF k
  <2>4. Frame(w) /\ job'[w] = k /\ load' = load /\ LogGrows /\ single' = single
    BY <1>5, <1>9, <2>3, ServedFrame DEF Served
  <2>5. Asked(j, k) /\ k.cnt = j.cnt /\ k.got = j.got /\ k.why = "EAGAIN"
    BY <2>2, <2>3, Zenon DEF Asked
  <2>6. SizeDue(w)' => SizeWasSet(w)'
    <3>1. j.op \in {"setsize", "setboth"} => j.o = "file"
      BY DEF Fine, Where
    <3>2. j.op \in {"setsize", "setboth"} /\ ~j.drop => SizeWasSet(w)'
      BY <1>7, <1>9, <2>4, <2>5, <3>1, Zenon DEF SizeWasSet, Since, Asked
    <3> QED
      BY <2>4, <2>5, <3>2, DueStays, Zenon
  <2>7. Len(k.replies) = 1 /\ k.replies # <<"ok">> /\ k.why # "none"
    BY <2>3, <2>5, Replies
  <2>8. Fine(w)'
    BY <2>3, <2>4, <2>5, <2>6, <2>7, Failed, Zenon
  <2> QED
    BY <2>4, <2>8
<1> QED
  BY <1>3, <1>4, <1>6, <1>8, <1>9

\* A second call that only follows up the first fails.
LEMMA SecondStep ==
  ASSUME TypeOK, NEW w \in Worker, Fine(w), Second(w), UNCHANGED <<single, load, cache>>
  PROVE  Frame(w) /\ Fine(w)'
<1> DEFINE i == [job[w] EXCEPT !.why = "second"]
<1>1. job[w] \in Job
  BY JobType
<1>2. i \in Job
  BY <1>1 DEF Job, Whys
<1>3. Asked(job[w], i) /\ i.cnt = job[w].cnt /\ i.got = job[w].got /\ i.did = job[w].did
      /\ i.why = "second"
  BY <1>1 DEF Job, Asked
<1> HIDE DEF i
<1>4. Done(w, i, <<"err">>) /\ UNCHANGED <<log, acl, new>>
  BY DEF Second, i
<1> QED
  BY <1>2, <1>3, <1>4, Replies, RefuseStep, Zenon

\* The request as the worker waits to follow up its call.
LEMMA AgainStep ==
  ASSUME TypeOK, NEW w \in Worker, Fine(w), Served, NEW k \in Job, Set(w, k), Asked(job[w], k),
         k.cnt = job[w].cnt, k.got = job[w].got, k.pc = "again", k.did,
         \/ k.op = "link"
         \/ k.op = "create" /\ k.how = "EXCLUSIVE" /\ new'.verf = "number"
  PROVE  Frame(w) /\ Fine(w)'
<1>1. Frame(w) /\ job'[w] = k /\ load' = load /\ LogGrows
  BY ServedFrame DEF Served
<1>2. k.base <= Len(log'[k.o])
  BY <1>1, BaseStays, Zenon
<1>3. Where(w)' /\ Told(w)'
  BY <1>1, ZenonT(30) DEF Fine, Where, Told, Asked
<1>4. Agrees(w)' /\ Shown(w)'
  BY <1>1, <1>2, Zenon DEF Agrees, Shown, Ok, At, SizeDue
<1> QED
  BY <1>1, <1>3, <1>4 DEF Fine

\* hsi_nfs3_link.
LEMMA LinkStep ==
  ASSUME TypeOK, NEW w \in Worker, Fine(w), CallLink(w)
  PROVE  Frame(w) /\ Fine(w)'
<1> DEFINE j == job[w]
           k == [j EXCEPT !.pc = "again", !.rpc = TRUE, !.did = TRUE]
<1>1. j \in Job /\ Asked(j, j) /\ j.o \in Obj
  BY JobType DEF Asked
<1>2. /\ j.op = "link" /\ UNCHANGED <<single, load, cache>>
      /\ j.pc = "call" /\ j.did => j.why = "lost"
  BY DEF CallLink, Fine, Where
<1>3. \/ j.pc = "call" /\ Refuse(w, <<"err">>)
      \/ /\ j.pc = "call" /\ Apply(w, Now(j.o))
         /\ Received(w, After(w, Now(j.o))) \/ Lose(w, <<"err">>) \/ Set(w, k)
      \/ Received(w, Fresh(j.o)) /\ UNCHANGED <<log, acl, new>>
      \/ Second(w)
  BY DEF CallLink, At
<1>4. CASE j.pc = "call" /\ Refuse(w, <<"err">>)
  BY <1>1, <1>2, <1>4, Replies, RefuseStep, Zenon DEF Refuse
<1>5. ASSUME Apply(w, Now(j.o))
      PROVE  Now(j.o) \in Attr /\ Served /\ Change(j.o, Now(j.o))
  BY <1>1, <1>2, <1>5, NowReal, ServedChange, Zenon DEF Apply
<1>6. CASE Apply(w, Now(j.o)) /\ Received(w, After(w, Now(j.o)))
  BY <1>2, <1>5, <1>6, AfterStep
<1>7. CASE j.pc = "call" /\ Apply(w, Now(j.o)) /\ Lose(w, <<"err">>)
  BY <1>2, <1>5, <1>7, Replies, LoseStep, Zenon
<1>8. CASE Apply(w, Now(j.o)) /\ Set(w, k)
  <2>1. k \in Job
    BY <1>1, Zenon DEF Job, PCs
  <2>2. Asked(j, k) /\ k.cnt = j.cnt /\ k.got = j.got /\ k.pc = "again" /\ k.did
    BY <1>1 DEF Job, Asked
  <2> HIDE DEF k
  <2>3. k.op = "link"
    BY <1>2, <2>2 DEF Asked
  <2> QED
    BY <1>5, <1>8, <2>1, <2>2, <2>3, AgainStep
<1>9. CASE Received(w, Fresh(j.o)) /\ UNCHANGED <<log, acl, new>>
  BY <1>2, <1>9, FreshStep
<1>10. CASE Second(w)
  BY <1>2, <1>10, SecondStep
<1> QED
  BY <1>3, <1>4, <1>6, <1>7, <1>8, <1>9, <1>10

\* A step that writes the inode of an object, too.
LEMMA WriteFrame ==
  ASSUME TypeOK, NEW w \in Worker, NEW k \in Job, NEW o \in Obj, NEW c \in Cached,
         Write(w, o, c, k), UNCHANGED <<single, load, log, acl, new>>
  PROVE  /\ Frame(w) /\ job'[w] = k /\ LogGrows
         /\ cache'[o] = c /\ \A p \in Obj \ {o} : cache'[p] = cache[p]
<1>1. LogGrows
  BY LogSame
<1>2. cache' = [cache EXCEPT ![o] = c] /\ cache \in [Obj -> Cached] /\ job \in [Worker -> Job]
  BY DEF Write, TypeOK
<1>3. cache' \in [Obj -> Cached] /\ cache'[o] = c /\ \A p \in Obj \ {o} : cache'[p] = cache[p]
  BY <1>2
<1>4. job'[w] = k
  BY DEF Write
<1>5. ASSUME NEW x \in Worker \ {w}
      PROVE  job'[x] \in Job /\ Rely(x)
  <2> DEFINE b == job[x].mixed \/ Using(x, o)
  <2>1. job'[x] = [job[x] EXCEPT !.mixed = b]
    BY DEF Write
  <2>2. job[x] \in Job /\ b \in BOOLEAN
    BY <1>2 DEF Using
  <2>3. job'[x] \in Job /\ Kept(x) /\ job'[x].mixed = b
    <3> HIDE DEF b
    <3> QED
      BY <2>1, <2>2, ZenonT(40) DEF Job, Kept
  <2>4. ASSUME NEW p \in Obj, Using(x, p)
        PROVE  cache'[p] = cache[p] \/ job'[x].mixed
    BY <1>3, <2>3, <2>4, Zenon
  <2>5. job[x].pc = "idle" => job'[x].mixed = job[x].mixed
    BY <2>2, <2>3, Zenon DEF Using, Job
  <2> QED
    BY <2>3, <2>4, <2>5, Zenon DEF Rely
<1>6. job' \in [Worker -> Job]
  <2>1. job' = [x \in Worker |-> job'[x]]
    BY DEF Write
  <2> QED
    BY <1>4, <1>5, <2>1
<1> QED
  BY <1>1, <1>3, <1>4, <1>5, <1>6 DEF Frame, Around, TypeOK

\* nfs_update_inode puts the size received into the inode, or -ESTALE is returned.
LEMMA SizeStep ==
  ASSUME TypeOK, NEW w \in Worker, Fine(w), UpdateSize(w)
  PROVE  Frame(w) /\ Fine(w)'
<1> DEFINE j == job[w]
           c == [cache[j.o] EXCEPT !.size = j.ans.size]
           k == [j EXCEPT !.pc = "rest"]
           i == [j EXCEPT !.why = "ESTALE"]
           l == [j EXCEPT !.pc = "reply", !.why = "ESTALE"]
<1>1. j \in Job /\ j.o \in Obj /\ cache[j.o] \in Cached /\ j.ans \in Cached
  BY JobType, Zenon DEF Job
<1>2. /\ j.pc = "size" /\ j.rpc /\ j.did /\ Real(w) /\ j.base <= Len(log[j.o])
      /\ j.op \in {"getattr", "lookup", "setsize", "chown", "setboth", "link"}
      /\ UNCHANGED <<single, load, log, acl, new>>
  BY DEF UpdateSize, At, Fine, Where, Agrees
<1>3. \/ Write(w, j.o, c, k)
      \/ Done(w, i, <<"err">>) /\ UNCHANGED cache
      \/ Set(w, l) /\ UNCHANGED cache
  BY DEF UpdateSize
<1>4. CASE Write(w, j.o, c, k)
  <2>1. k \in Job /\ c \in Cached /\ c.size = j.ans.size
    BY <1>1, Zenon DEF Job, PCs, Cached
  <2>2. /\ Asked(j, k) /\ k.pc = "rest" /\ k.cnt = j.cnt /\ k.got = j.got /\ k.ans = j.ans
        /\ k.rpc = j.rpc /\ k.did = j.did
    BY <1>1 DEF Job, Asked
  <2> HIDE DEF k, c
  <2>3. Frame(w) /\ job'[w] = k /\ LogGrows /\ cache'[j.o] = c /\ load' = load /\ log' = log
    BY <1>1, <1>2, <1>4, <2>1, WriteFrame
  <2>4. Where(w)' /\ Told(w)'
    BY <1>2, <2>2, <2>3, ZenonT(30) DEF Fine, Where, Told, Asked
  <2>5. Real(w)' /\ (SizeDue(w)' => SizeWasSet(w)')
    <3>1. Real(w)'
      BY <1>2, <2>2, <2>3, ZenonT(40) DEF Real, Since, Asked
    <3> QED
      BY <1>2, <2>2, <2>3, <3>1, DueStays, Zenon
  <2>6. Agrees(w)' /\ Shown(w)'
    BY <1>2, <2>1, <2>2, <2>3, <2>5, ZenonT(30) DEF Agrees, Shown, Ok, At, Asked
  <2> QED
    BY <2>3, <2>4, <2>6 DEF Fine
<1>5. CASE Done(w, i, <<"err">>) /\ UNCHANGED cache
  <2>1. i \in Job
    BY <1>1 DEF Job, Whys
  <2>2. /\ Asked(j, i) /\ i.cnt = j.cnt /\ i.got = j.got /\ i.did = j.did /\ i.why = "ESTALE"
    BY <1>1 DEF Job, Asked
  <2> HIDE DEF i
  <2> QED
    BY <1>2, <1>5, <2>1, <2>2, Replies, RefuseStep, Zenon
<1>6. CASE Set(w, l) /\ UNCHANGED cache
  <2>1. l \in Job
    BY <1>1, ZenonT(30) DEF Job, PCs, Whys
  <2>2. /\ Asked(j, l) /\ l.pc = "reply" /\ l.cnt = j.cnt /\ l.got = j.got /\ l.ans = j.ans
        /\ l.rpc = j.rpc /\ l.did = j.did /\ l.why = "ESTALE"
    BY <1>1 DEF Job, Asked
  <2> HIDE DEF l
  <2>3. Frame(w) /\ job'[w] = l /\ LogGrows /\ load' = load /\ log' = log
    BY <1>2, <1>6, <2>1, QuietFrame, LogSame
  <2>4. Where(w)' /\ Told(w)'
    BY <1>2, <2>2, <2>3, Zenon DEF Fine, Where, Told, Asked
  <2>5. Real(w)' /\ (SizeDue(w)' => SizeWasSet(w)')
    <3>1. Real(w)'
      BY <1>2, <2>2, <2>3, ZenonT(40) DEF Real, Since, Asked
    <3> QED
      BY <1>2, <2>2, <2>3, <3>1, DueStays, Zenon
  <2>6. Agrees(w)' /\ Shown(w)'
    BY <1>2, <2>2, <2>3, <2>5, Zenon DEF Agrees, Shown, Ok, At, Asked
  <2> QED
    BY <2>3, <2>4, <2>6 DEF Fine
<1> QED
  BY <1>3, <1>4, <1>5, <1>6

\* nfs_update_inode puts the rest into the inode.
LEMMA RestStep ==
  ASSUME TypeOK, NEW w \in Worker, Fine(w), UpdateRest(w)
  PROVE  Frame(w) /\ Fine(w)'
<1> DEFINE j == job[w]
           c == [cache[j.o] EXCEPT !.uid = j.ans.uid, !.ver = j.ans.ver]
           k == [j EXCEPT !.pc = "reply"]
<1>1. j \in Job /\ j.o \in Obj /\ cache[j.o] \in Cached /\ j.ans \in Cached
  BY JobType, Zenon DEF Job
<1>2. /\ j.pc = "rest" /\ j.rpc /\ j.did /\ Real(w) /\ j.base <= Len(log[j.o])
      /\ j.op \in {"getattr", "lookup", "setsize", "chown", "setboth", "link"}
      /\ ~j.mixed => cache[j.o].size = j.ans.size
      /\ UNCHANGED <<single, load, log, acl, new>>
  BY DEF UpdateRest, At, Fine, Where, Agrees
<1>3. Write(w, j.o, c, k)
  BY DEF UpdateRest
<1>4. k \in Job /\ c \in Cached /\ c.size = cache[j.o].size /\ c.uid = j.ans.uid
  BY <1>1, ZenonT(30) DEF Job, PCs, Cached
<1>5. /\ Asked(j, k) /\ k.pc = "reply" /\ k.cnt = j.cnt /\ k.got = j.got /\ k.ans = j.ans
      /\ k.rpc = j.rpc /\ k.did = j.did /\ k.mixed = j.mixed
  BY <1>1 DEF Job, Asked
<1> HIDE DEF k, c
<1>6. Frame(w) /\ job'[w] = k /\ LogGrows /\ cache'[j.o] = c /\ load' = load /\ log' = log
  BY <1>1, <1>2, <1>3, <1>4, WriteFrame
<1>7. Where(w)' /\ Told(w)'
  BY <1>2, <1>5, <1>6, Zenon DEF Fine, Where, Told, Asked
<1>8. Real(w)' /\ (SizeDue(w)' => SizeWasSet(w)')
  <2>1. Real(w)'
    BY <1>2, <1>5, <1>6, ZenonT(30) DEF Real, Since, Asked
  <2> QED
    BY <1>2, <1>5, <1>6, <2>1, DueStays, Zenon
<1>9. Agrees(w)' /\ Shown(w)'
  BY <1>2, <1>4, <1>5, <1>6, <1>8, ZenonT(40) DEF Agrees, Shown, Ok, At, Asked
<1> QED
  BY <1>6, <1>7, <1>9 DEF Fine

\* The reply tells what the server had, if the inode is as this worker wrote it.
LEMMA ReplyStep ==
  ASSUME TypeOK, NEW w \in Worker, Fine(w), Reply(w)
  PROVE  Frame(w) /\ Fine(w)'
<1> DEFINE j == job[w]
           i == IF j.op = "getattr" THEN j ELSE [j EXCEPT !.ans = cache[j.o]]
           k == [i EXCEPT !.pc = "done", !.replies = <<"ok">>]
           e == [j EXCEPT !.why = "ENOMEM"]
<1>1. j \in Job /\ j.o \in Obj /\ cache[j.o] \in Cached
  BY JobType
<1>2. /\ j.pc = "reply" /\ j.base <= Len(log[j.o])
      /\ (j.rpc /\ j.did) \/ (j.op = "setsize" /\ ~j.rpc /\ j.drop)
      /\ j.op \in {"getattr", "lookup", "setsize", "chown", "setboth", "link"}
      /\ UNCHANGED <<single, load, log, acl, new, cache>>
  BY DEF Reply, At, Fine, Where, Agrees
<1>3. /\ j.rpc => Real(w)
      /\ j.rpc /\ ~j.mixed /\ j.why # "ESTALE" =>
           cache[j.o].size = j.ans.size /\ cache[j.o].uid = j.ans.uid
  BY <1>2, Zenon DEF Fine, Agrees
<1>4. Set(w, k) \/ Done(w, e, <<"err">>)
  BY DEF Reply, Done
<1>4a. CASE Done(w, e, <<"err">>)
  <2>1. e \in Job
    BY <1>1 DEF Job, Whys
  <2>2. /\ Asked(j, e) /\ e.cnt = j.cnt /\ e.got = j.got /\ e.did = j.did /\ e.why = "ENOMEM"
    BY <1>1 DEF Job, Asked
  <2> HIDE DEF e
  <2> QED
    BY <1>2, <1>4a, <2>1, <2>2, Replies, RefuseStep, Zenon
<1> SUFFICES ASSUME Set(w, k)
             PROVE  Frame(w) /\ Fine(w)'
  BY <1>4, <1>4a
<1>5. i \in Job
  BY <1>1 DEF Job
<1>6. /\ Asked(j, i) /\ i.cnt = j.cnt /\ i.got = j.got /\ i.rpc = j.rpc /\ i.did = j.did
      /\ i.why = j.why /\ i.mixed = j.mixed /\ i.stale = j.stale
      /\ i.ans = IF j.op = "getattr" THEN j.ans ELSE cache[j.o]
  BY <1>1 DEF Job, Asked
<1> HIDE DEF i
<1>7. /\ k \in Job /\ Asked(i, k) /\ k.pc = "done" /\ k.replies = <<"ok">>
      /\ k.cnt = i.cnt /\ k.got = i.got /\ k.rpc = i.rpc /\ k.did = i.did /\ k.why = i.why
      /\ k.ans = i.ans /\ k.stale = i.stale /\ k.mixed = i.mixed
  BY <1>5, Replies, DoneJob, Zenon
<1> HIDE DEF k
<1>8. Frame(w) /\ job'[w] = k /\ LogGrows /\ load' = load /\ log' = log /\ single' = single
  BY <1>2, <1>7, QuietFrame, LogSame
<1>9. Asked(j, k)
  BY <1>6, <1>7 DEF Asked
<1>10. Where(w)' /\ Told(w)'
  BY <1>2, <1>6, <1>7, <1>8, <1>9, Replies, ZenonT(40) DEF Fine, Where, Told, Asked
<1>11. SizeDue(w)' => SizeWasSet(w)'
  BY <1>6, <1>7, <1>8, <1>9, DueStays, ZenonT(30)
<1>12. /\ j.rpc /\ (j.op # "getattr" => ~k.mixed /\ k.why # "ESTALE")
       => \E n \in Since(w)' : k.ans.size = log'[k.o][n].size /\ k.ans.uid = log'[k.o][n].uid
  <2>1. Since(w)' = Since(w) /\ k.o = j.o
    BY <1>8, <1>9 DEF Since, Asked
  <2>2. j.rpc => /\ j.ans.ver \in Since(w) /\ j.ans.size = log[j.o][j.ans.ver].size
                 /\ j.ans.uid = log[j.o][j.ans.ver].uid
    BY <1>3, ZenonT(30) DEF Real
  <2>3. j.rpc /\ (j.op # "getattr" => ~k.mixed /\ k.why # "ESTALE")
        => k.ans.size = j.ans.size /\ k.ans.uid = j.ans.uid
    BY <1>3, <1>6, <1>7, Zenon
  <2> QED
    BY <1>8, <2>1, <2>2, <2>3, Zenon
<1>13. Agrees(w)' /\ Shown(w)'
  <2>1. Agrees(w)'
    BY <1>2, <1>3, <1>6, <1>7, <1>8, <1>9, <1>11, ZenonT(40) DEF Agrees, Ok, At, Asked
  <2>2. k.op \in {"setsize", "setboth"} /\ (k.drop => single /\ ~k.stale) => SizeWasSet(w)'
    <3>1. ~k.drop => k.did
      BY <1>2, <1>6, <1>7, <1>9, Zenon DEF Asked
    <3> QED
      BY <1>8, <1>11, <3>1, Zenon DEF SizeDue
  <2>3. /\ k.op \in {"getattr", "setsize", "chown", "setboth", "lookup"}
        /\ k.op # "getattr" => k.rpc /\ ~k.mixed /\ k.why # "ESTALE"
        => \E n \in Since(w)' :
             k.ans.size = log'[k.o][n].size /\ k.ans.uid = log'[k.o][n].uid
    BY <1>2, <1>6, <1>7, <1>9, <1>12, Zenon DEF Asked
  <2>4. k.op \notin {"read", "write"}
    BY <1>2, <1>9, Zenon DEF Asked
  <2>5. Shown(w)'
    BY <1>8, <2>2, <2>3, <2>4, Zenon DEF Shown, Ok, At
  <2> QED
    BY <2>1, <2>5
<1> QED
  BY <1>8, <1>10, <1>13 DEF Fine

\* hsx_fuse_create puts the caller's ids into the inode of the directory.
LEMMA ClaimStep ==
  ASSUME TypeOK, NEW w \in Worker, Fine(w), Claim(w)
  PROVE  Frame(w) /\ Fine(w)'
<1> DEFINE j == job[w]
           c == [cache["dir"] EXCEPT !.uid = j.uid]
           k == [j EXCEPT !.pc = "call"]
<1>1. j \in Job /\ "dir" \in Obj /\ cache["dir"] \in Cached /\ j.uid \in Uid
  BY JobType, Zenon DEF Job, Obj, TypeOK
<1>2. /\ j.pc = "claim" /\ j.op = "create" /\ ~j.did /\ j.o = "dir" /\ j.base <= Len(log[j.o])
      /\ UNCHANGED <<single, load, log, acl, new>>
  BY DEF Claim, At, Fine, Where, Agrees
<1>3. Write(w, "dir", c, k)
  BY DEF Claim
<1>4. k \in Job /\ c \in Cached /\ c.uid = j.uid
  BY <1>1, Zenon DEF Job, PCs, Cached
<1>5. /\ Asked(j, k) /\ k.pc = "call" /\ k.did = j.did
  BY <1>1 DEF Job, Asked
<1> HIDE DEF k, c
<1>6. Frame(w) /\ job'[w] = k /\ LogGrows /\ cache'["dir"] = c /\ load' = load /\ log' = log
  BY <1>1, <1>2, <1>3, <1>4, WriteFrame, Zenon
<1>7. Where(w)' /\ Told(w)'
  BY <1>2, <1>5, <1>6, ZenonT(30) DEF Fine, Where, Told, Asked
<1>8. Agrees(w)' /\ Shown(w)'
  BY <1>2, <1>4, <1>5, <1>6, ZenonT(30) DEF Agrees, Shown, Ok, At, Asked, SizeDue
<1> QED
  BY <1>6, <1>7, <1>8 DEF Fine
=============================================================================
