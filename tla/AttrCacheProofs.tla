-------------------------- MODULE AttrCacheProofs ---------------------------
(***************************************************************************)
(* Proofs about AttrCache, for any number of workers, any sizes, chunks    *)
(* and changes, and any mixture of requests: creating, transfers and ACLs, *)
(* the inductive invariant, and the theorems.                              *)
(***************************************************************************)
EXTENDS AttrCacheLemmas

\* A create that ends with success, or in a crash.
LEMMA CreateEnds ==
  ASSUME TypeOK, NEW w \in Worker, Fine(w), Served, NEW i \in Job, Asked(job[w], i),
         i.op = "create", i.did, NEW r \in {"ok", "crash"}, Done(w, i, <<r>>),
         r = "ok" /\ i.how = "EXCLUSIVE" => new'.verf = "number"
  PROVE  Frame(w) /\ Fine(w)'
<1> DEFINE k == [i EXCEPT !.pc = "done", !.replies = <<r>>]
<1>1. /\ k \in Job /\ Asked(i, k) /\ k.pc = "done" /\ k.replies = <<r>> /\ k.did = i.did
  <2>1. <<r>> \in Seq({"ok", "err", "crash"})
    BY Replies
  <2> QED
    BY <2>1, DoneJob, Zenon
<1>2. Set(w, k)
  BY DEF Done
<1> HIDE DEF k
<1>3. Frame(w) /\ job'[w] = k /\ load' = load /\ LogGrows
  BY <1>1, <1>2, ServedFrame DEF Served
<1>4. Asked(job[w], k)
  BY <1>1 DEF Asked
<1>5. k.base <= Len(log'[k.o])
  BY <1>1, <1>3, <1>4, BaseStays, Zenon
<1>6. /\ Len(k.replies) = 1 /\ k.replies # <<"err">> /\ (k.replies = <<"ok">> => r = "ok")
  <2>1. <<r>>[1] = r /\ <<"err">>[1] = "err" /\ <<"ok">>[1] = "ok" /\ Len(<<r>>) = 1
    OBVIOUS
  <2> QED
    BY <1>1, <2>1
<1>7. Where(w)' /\ Told(w)'
  BY <1>1, <1>3, <1>4, <1>6, ZenonT(30) DEF Fine, Where, Told, Asked
<1>8. Agrees(w)' /\ Shown(w)'
  BY <1>1, <1>3, <1>4, <1>5, <1>6, Zenon DEF Agrees, Shown, Ok, At, Asked, SizeDue
<1> QED
  BY <1>3, <1>7, <1>8, Zenon DEF Fine

\* hsi_nfs3_create.
LEMMA CreateStep ==
  ASSUME TypeOK, NEW w \in Worker, Fine(w), CallCreate(w)
  PROVE  Frame(w) /\ Fine(w)'
<1> DEFINE j == job[w]
           a == CreateArgs(j)
           k(b) == [j EXCEPT !.did = TRUE, !.rpc = TRUE, !.known = b]
           l(b) == [k(b) EXCEPT !.pc = "again"]
           Made == j.pc = "call" /\ Make(w, a)
<1>1. j \in Job /\ Asked(j, j) /\ j.o \in Obj /\ "dir" \in Obj
  BY JobType DEF Asked, Obj
<1>2. /\ j.op = "create" /\ UNCHANGED <<single, load, cache>>
      /\ j.pc = "call" /\ j.did => j.why = "lost"
  BY DEF CallCreate, Fine, Where
<1>3. \A b \in BOOLEAN : k(b) \in Job /\ l(b) \in Job
  BY <1>1, Zenon DEF Job, PCs
<1>4. \A b \in BOOLEAN :
        /\ Asked(j, k(b)) /\ k(b).did /\ k(b).cnt = j.cnt /\ k(b).got = j.got
        /\ Asked(j, l(b)) /\ l(b).did /\ l(b).cnt = j.cnt /\ l(b).got = j.got
        /\ l(b).pc = "again"
  BY <1>1 DEF Job, Asked
<1>5. \A i : Opened(i) \in {<<"crash">>, <<"ok">>}
  BY DEF Opened
<1>5a. ASSUME NEW b \in BOOLEAN,
               \/ Lose(w, <<"err">>)
               \/ Done(w, k(b), <<"crash">>)
               \/ IF j.how = "EXCLUSIVE" THEN Set(w, l(b)) ELSE Done(w, k(b), Opened(k(b)))
       PROVE  \/ Lose(w, <<"err">>)
              \/ Done(w, k(b), <<"crash">>)
              \/ j.how = "EXCLUSIVE" /\ Set(w, l(b))
              \/ j.how # "EXCLUSIVE" /\ Done(w, k(b), <<"ok">>)
  BY <1>5, <1>5a, Zenon
<1>6. \/ j.pc = "call" /\ Refuse(w, <<"err">>)
      \/ Made /\ Lose(w, <<"err">>)
      \/ /\ Made
         /\ \E b \in BOOLEAN : \/ Done(w, k(b), <<"crash">>)
                               \/ j.how = "EXCLUSIVE" /\ Set(w, l(b))
                               \/ j.how # "EXCLUSIVE" /\ Done(w, k(b), <<"ok">>)
      \/ j.pc = "again" /\ Second(w)
      \/ j.pc = "again" /\ Refuse(w, <<"ok">>)
      \/ j.pc = "again" /\ Refuse(w, <<"crash">>)
  <2>1. CASE /\ j.pc = "call" /\ Make(w, a)
             /\ \E b \in BOOLEAN :
                  \/ Lose(w, <<"err">>)
                  \/ Done(w, k(b), <<"crash">>)
                  \/ IF j.how = "EXCLUSIVE" THEN Set(w, l(b)) ELSE Done(w, k(b), Opened(k(b)))
    <3>1. PICK b \in BOOLEAN :
            \/ Lose(w, <<"err">>)
            \/ Done(w, k(b), <<"crash">>)
            \/ IF j.how = "EXCLUSIVE" THEN Set(w, l(b)) ELSE Done(w, k(b), Opened(k(b)))
      BY <2>1
    <3> HIDE DEF k, l
    <3>2. \/ Lose(w, <<"err">>)
          \/ Done(w, k(b), <<"crash">>)
          \/ j.how = "EXCLUSIVE" /\ Set(w, l(b))
          \/ j.how # "EXCLUSIVE" /\ Done(w, k(b), <<"ok">>)
      BY <1>5a, <3>1, Zenon
    <3>3. Made
      BY <2>1
    <3> HIDE DEF Made, a
    <3> QED
      BY <3>2, <3>3
  <2>2. CASE j.pc = "again" /\ Refuse(w, Opened(j))
    BY <1>5, <2>2, Zenon
  <2> QED
    BY <2>1, <2>2, Zenon DEF CallCreate, At
<1> HIDE DEF k, l
<1>7. CASE j.pc = "call" /\ Refuse(w, <<"err">>)
  BY <1>1, <1>2, <1>7, Replies, RefuseStep, Zenon DEF Refuse
<1>8. /\ a.uid \in Uid /\ a.verf \in {"none", "number"}
      /\ a.how = j.how /\ (j.how = "EXCLUSIVE" => a.verf = "number")
  BY <1>1, AttrAssumption DEF CreateArgs, TypeOK, Cached
<1> HIDE DEF a
<1>9. ASSUME Made, new = NoFile
      PROVE  Served /\ new'.verf = a.verf
  <2>1. Now("dir") \in Attr
    BY <1>1, NowReal
  <2>2. LogGrows /\ log' \in [Obj -> Seq(Attr)] /\ \A o \in Obj : Len(log'[o]) \in 1 .. MaxLog
    BY <1>1, <1>9, <2>1, Changed DEF Make
  <2>3. new' \in File /\ new'.verf = a.verf
    BY <1>1, <1>8, <1>9 DEF File, Job, Make
  <2>4. new.verf # "number"
    BY <1>9 DEF NoFile
  <2> QED
    BY <1>2, <1>9, <2>2, <2>3, <2>4 DEF Served, TypeOK, Make
<1>10. ASSUME Made, new # NoFile
       PROVE  Served /\ (j.how = "EXCLUSIVE" => new'.verf = "number")
  BY <1>2, <1>8, <1>10, ServedSame, Zenon DEF Matches, Make
<1>11. Made => Served /\ (j.how = "EXCLUSIVE" => new'.verf = "number")
  BY <1>8, <1>9, <1>10
<1> HIDE DEF Made
<1>12. CASE Made /\ Lose(w, <<"err">>)
  BY <1>2, <1>11, <1>12, Replies, LoseStep, Zenon DEF Made
<1>13. ASSUME Made, NEW b \in BOOLEAN, Done(w, k(b), <<"crash">>)
       PROVE  Frame(w) /\ Fine(w)'
  <2>1. k(b).op = "create"
    BY <1>2, <1>4 DEF Asked
  <2> QED
    BY <1>3, <1>4, <1>11, <1>13, <2>1, CreateEnds
<1>14. ASSUME Made, NEW b \in BOOLEAN, j.how = "EXCLUSIVE", Set(w, l(b))
       PROVE  Frame(w) /\ Fine(w)'
  <2>1. l(b).op = "create" /\ l(b).how = "EXCLUSIVE"
    BY <1>2, <1>4, <1>14 DEF Asked
  <2>2. Served /\ new'.verf = "number"
    BY <1>11, <1>14
  <2> QED
    BY <1>3, <1>4, <1>14, <2>1, <2>2, AgainStep
<1>15. ASSUME Made, NEW b \in BOOLEAN, j.how # "EXCLUSIVE", Done(w, k(b), <<"ok">>)
       PROVE  Frame(w) /\ Fine(w)'
  <2>1. k(b).op = "create" /\ k(b).how # "EXCLUSIVE"
    BY <1>2, <1>4, <1>15 DEF Asked
  <2>2. Served
    BY <1>11, <1>15
  <2> QED
    BY <1>3, <1>4, <1>15, <2>1, <2>2, CreateEnds
<1>16. CASE Second(w)
  BY <1>2, <1>16, SecondStep
<1>17. ASSUME j.pc = "again", NEW r \in {"ok", "crash"}, Refuse(w, <<r>>)
       PROVE  Frame(w) /\ Fine(w)'
  <2>1. j.did /\ (j.how = "EXCLUSIVE" => new.verf = "number")
    BY <1>2, <1>17, Zenon DEF Fine, Where, Agrees
  <2>2. Served /\ new' = new /\ Done(w, j, <<r>>)
    BY <1>2, <1>17, ServedSame DEF Refuse
  <2> QED
    BY <1>1, <1>2, <2>1, <2>2, CreateEnds
<1> QED
  BY <1>6, <1>7, <1>12, <1>13, <1>14, <1>15, <1>16, <1>17, ZenonT(40)

\* The bytes moved so far and the next n.
LEMMA Longer ==
  ASSUME NEW c \in Nat, NEW n \in Nat, NEW v \in Nat, MaxSize \in Nat, c + n <= v, v <= MaxSize
  PROVE  /\ c + n \in Size /\ (0 .. c - 1) \cup (c .. c + n - 1) = 0 .. (c + n) - 1
         /\ 0 .. (c + n) - 1 \in SUBSET Size
  BY DEF Size

\* The loops of read and write go on, or reply what they have.
LEMMA ProgressStep ==
  ASSUME TypeOK, NEW w \in Worker, Fine(w), Served, job[w].pc = "call",
         job[w].op \in {"read", "write"}, NEW n \in Nat, NEW eof \in BOOLEAN,
         job[w].cnt + n <= job[w].val, Progress(w, n, eof),
         eof => /\ job[w].op = "read"
                /\ \E m \in job[w].base .. Len(log'["file"]) :
                     log'["file"][m].size <= job[w].cnt + n
  PROVE  Frame(w) /\ Fine(w)'
<1> DEFINE j == job[w]
           i == [j EXCEPT !.cnt = j.cnt + n, !.eof = eof, !.did = TRUE,
                          !.got = j.got \cup (j.cnt .. j.cnt + n - 1)]
           k == [i EXCEPT !.pc = "done", !.replies = <<"ok">>]
<1>1. /\ j \in Job /\ j.o = "file" /\ j.val \in Nat /\ j.val <= MaxSize /\ j.cnt \in Nat
      /\ j.got = 0 .. j.cnt - 1 /\ MaxSize \in Nat
  BY JobType, AttrAssumption DEF Fine, Where, Size
<1>2. /\ j.cnt + n \in Size /\ j.got \cup (j.cnt .. j.cnt + n - 1) = 0 .. (j.cnt + n) - 1
      /\ 0 .. (j.cnt + n) - 1 \in SUBSET Size
  BY <1>1, Longer
<1>3. i \in Job
  BY <1>1, <1>2, Zenon DEF Job
<1>4. /\ Asked(j, i) /\ i.cnt = j.cnt + n /\ i.got = 0 .. i.cnt - 1 /\ i.did /\ i.pc = j.pc
  BY <1>1, <1>2 DEF Job, Asked
<1>5. \/ Set(w, i)
      \/ Set(w, k) /\ (i.cnt < i.val => eof)
  BY DEF Progress, Done
<1> HIDE DEF i
<1>6. /\ k \in Job /\ Asked(i, k) /\ k.pc = "done" /\ k.replies = <<"ok">>
      /\ k.cnt = i.cnt /\ k.got = i.got /\ k.did = i.did
  BY <1>3, Replies, DoneJob, ZenonT(30)
<1> HIDE DEF k
<1>7. ASSUME NEW x \in Job, Asked(j, x), Set(w, x)
      PROVE  Frame(w) /\ job'[w] = x /\ load' = load /\ x.base <= Len(log'[x.o])
  <2>1. Frame(w) /\ job'[w] = x /\ load' = load /\ LogGrows
    BY <1>7, ServedFrame DEF Served
  <2> QED
    BY <1>7, <2>1, BaseStays, Zenon
<1>8. CASE Set(w, i)
  <2>1. Frame(w) /\ job'[w] = i /\ load' = load /\ i.base <= Len(log'[i.o])
    BY <1>3, <1>4, <1>7, <1>8, ZenonT(30)
  <2>2. Where(w)' /\ Told(w)'
    BY <1>1, <1>4, <2>1, ZenonT(30) DEF Where, Told, Asked
  <2>3. Agrees(w)' /\ Shown(w)'
    BY <1>4, <2>1 DEF Agrees, Shown, Ok, At, Asked, SizeDue
  <2> QED
    BY <2>1, <2>2, <2>3, ZenonT(30) DEF Fine
<1>9. CASE Set(w, k) /\ (i.cnt < i.val => eof)
  <2>1. Asked(j, k)
    BY <1>4, <1>6 DEF Asked
  <2>2. Frame(w) /\ job'[w] = k /\ load' = load /\ k.base <= Len(log'[k.o])
    BY <1>6, <1>7, <1>9, <2>1, ZenonT(30)
  <2>3. Where(w)' /\ Told(w)'
    BY <1>1, <1>4, <1>6, <2>1, <2>2, Replies, ZenonT(30) DEF Where, Told, Asked
  <2>4. k.cnt < k.val => k.op = "read" /\ \E m \in Since(w)' : log'["file"][m].size <= k.cnt
    BY <1>1, <1>4, <1>6, <1>9, <2>1, <2>2 DEF Since, Asked
  <2>5. Agrees(w)' /\ Shown(w)'
    BY <1>4, <1>6, <2>1, <2>2, <2>4, Zenon DEF Agrees, Shown, Ok, At, Asked, SizeDue
  <2> QED
    BY <2>2, <2>3, <2>5 DEF Fine
<1> QED
  BY <1>5, <1>8, <1>9

\* How much is asked for in one call of a loop.
LEMMA ChunkLeft ==
  ASSUME TypeOK, NEW w \in Worker, Fine(w), job[w].op \in {"read", "write"}
  PROVE  /\ job[w].val \in Nat /\ job[w].cnt \in Nat /\ job[w].cnt <= job[w].val
         /\ \A n \in 1 .. NextChunk(job[w]) : n \in Nat /\ job[w].cnt + n <= job[w].val
<1>1. /\ job[w].val \in Nat /\ job[w].cnt \in Nat /\ job[w].cnt <= job[w].val /\ Chunk \in Nat
  BY JobType, AttrAssumption DEF Fine, Where, Size
<1> QED
  BY <1>1 DEF NextChunk

\* hsx_fuse_read: it returns less than was asked for only at the end of the file.
LEMMA ReadStep ==
  ASSUME TypeOK, NEW w \in Worker, Fine(w), hsx_fuse_read(w)
  PROVE  Frame(w) /\ Fine(w)'
<1> DEFINE j == job[w]
           left == Now("file").size - j.cnt
<1>1. j \in Job /\ Asked(j, j) /\ "file" \in Obj
  BY JobType DEF Asked, Obj
<1>2. /\ j.pc = "call" /\ j.op = "read" /\ Served /\ UNCHANGED <<single, load, log, acl, new, cache>>
  BY ServedSame DEF hsx_fuse_read, At
<1>3. \/ Done(w, j, <<"err">>)
      \/ j.val = 0 /\ Progress(w, 0, FALSE)
      \/ \E r \in hsi_nfs3_read(j) : Progress(w, r.n, r.eof)
  BY Zenon DEF hsx_fuse_read
<1>4. /\ j.val \in Nat /\ j.cnt \in Nat /\ j.cnt <= j.val
      /\ \A n \in 1 .. NextChunk(j) : n \in Nat /\ j.cnt + n <= j.val
  BY <1>2, ChunkLeft
<1>5. CASE Done(w, j, <<"err">>)
  BY <1>1, <1>2, <1>5, Replies, RefuseStep, Zenon
<1>6. CASE j.val = 0 /\ Progress(w, 0, FALSE)
  <2>1. 0 \in Nat /\ FALSE \in BOOLEAN /\ j.cnt + 0 <= j.val
    BY <1>4
  <2> QED
    BY <1>2, <1>6, <2>1, ProgressStep, Zenon
<1>7. ASSUME NEW r \in hsi_nfs3_read(j), Progress(w, r.n, r.eof)
      PROVE  Frame(w) /\ Fine(w)'
  <2>1. Now("file") \in Attr /\ Now("file").size = log'["file"][Len(log'["file"])].size
    BY <1>1, <1>2, NowReal
  <2>2. Now("file").size \in Nat
    BY <2>1, AttrAssumption DEF Attr, Size
  <2>3. /\ r.n \in Nat /\ r.eof \in BOOLEAN /\ j.cnt + r.n <= j.val
        /\ r.eof => Now("file").size <= j.cnt + r.n
    <3>1. CASE left <= 0
      <4>1. r = [n |-> 0, eof |-> TRUE]
        BY <3>1 DEF hsi_nfs3_read
      <4> QED
        BY <1>4, <2>2, <3>1, <4>1
    <3>2. CASE ~(left <= 0)
      <4>1. /\ r \in [n : 1 .. NextChunk(j), eof : BOOLEAN]
            /\ r.n <= left /\ (r.eof => r.n = left)
        BY <3>2 DEF hsi_nfs3_read
      <4>2. r.n \in 1 .. NextChunk(j) /\ r.eof \in BOOLEAN
        BY <4>1
      <4> QED
        BY <1>4, <2>2, <4>1, <4>2
    <3> QED
      BY <3>1, <3>2
  <2>4. Len(log'["file"]) \in j.base .. Len(log'["file"])
    <3>1. j.o = "file" /\ j.base <= Len(log[j.o]) /\ j.base \in 1 .. MaxLog
          /\ Len(log["file"]) \in Nat /\ log' = log
      BY <1>2, JobType DEF Fine, Agrees, Where
    <3> QED
      BY <3>1
  <2>5. r.eof => \E m \in j.base .. Len(log'["file"]) : log'["file"][m].size <= j.cnt + r.n
    BY <2>1, <2>3, <2>4, Zenon
  <2> QED
    BY <1>2, <1>7, <2>3, <2>5, ProgressStep
<1> QED
  BY <1>3, <1>5, <1>6, <1>7, Zenon

\* hsx_fuse_write: it takes all of it or fails.
LEMMA WriteStep ==
  ASSUME TypeOK, NEW w \in Worker, Fine(w), hsx_fuse_write(w)
  PROVE  Frame(w) /\ Fine(w)'
<1> DEFINE j == job[w]
           a(n) == [Now("file") EXCEPT !.size = IF @ < j.cnt + n THEN j.cnt + n ELSE @]
<1>1. j \in Job /\ Asked(j, j) /\ "file" \in Obj
  BY JobType DEF Asked, Obj
<1>2. /\ j.pc = "call" /\ j.op = "write" /\ UNCHANGED <<single, load, acl, new, cache>>
  BY DEF hsx_fuse_write, At
<1>3. \/ Done(w, j, <<"err">>) /\ UNCHANGED log
      \/ j.val = 0 /\ Progress(w, 0, FALSE) /\ UNCHANGED log
      \/ \E n \in 1 .. NextChunk(j) : Change("file", a(n)) /\ Progress(w, n, FALSE)
  BY Zenon DEF hsx_fuse_write, hsi_nfs3_write
<1>4. /\ j.val \in Nat /\ j.cnt \in Nat /\ j.cnt <= j.val
      /\ \A n \in 1 .. NextChunk(j) : n \in Nat /\ j.cnt + n <= j.val
  BY <1>2, ChunkLeft
<1>5. CASE Done(w, j, <<"err">>) /\ UNCHANGED log
  BY <1>1, <1>2, <1>5, Replies, RefuseStep, Zenon
<1>6. CASE j.val = 0 /\ Progress(w, 0, FALSE) /\ UNCHANGED log
  <2>1. 0 \in Nat /\ FALSE \in BOOLEAN /\ j.cnt + 0 <= j.val
    BY <1>4
  <2>2. Served
    BY <1>2, <1>6, ServedSame
  <2> QED
    BY <1>2, <1>6, <2>1, <2>2, ProgressStep, Zenon
<1>7. ASSUME NEW n \in 1 .. NextChunk(j), Change("file", a(n)), Progress(w, n, FALSE)
      PROVE  Frame(w) /\ Fine(w)'
  <2>1. Now("file") \in Attr
    BY <1>1, NowReal
  <2>2. n \in Nat /\ j.cnt + n <= j.val /\ j.cnt + n \in Size
    BY <1>1, <1>4, JobType, AttrAssumption DEF Size
  <2>3. a(n) \in Attr
    BY <2>1, <2>2 DEF Attr
  <2> HIDE DEF a
  <2>4. Served
    BY <1>1, <1>2, <1>7, <2>3, ServedChange
  <2> QED
    BY <1>2, <1>7, <2>2, <2>4, ProgressStep, Zenon
<1> QED
  BY <1>3, <1>5, <1>6, <1>7, Zenon

\* hsx_fuse_setxattr: GETACL.
LEMMA GetAclStep ==
  ASSUME TypeOK, NEW w \in Worker, Fine(w), GetAcl(w)
  PROVE  Frame(w) /\ Fine(w)'
<1> DEFINE j == job[w]
<1>1. j \in Job /\ Asked(j, j)
  BY JobType DEF Asked
<1>2. /\ j.pc = "getacl" /\ j.op = "setxattr" /\ UNCHANGED <<single, load, log, acl, new, cache>>
      /\ j.base <= Len(log[j.o])
  BY ZenonT(30) DEF GetAcl, At, Fine, Where, Agrees
<1>3. \/ \E r \in {<<"ok">>, <<"err", "err">>, <<"ok", "ok">>} : Done(w, j, r)
      \/ Set(w, [j EXCEPT !.pc = "setacl"])
      \/ \E t \in AclTypes, v \in {"given", "empty"} :
           Set(w, [j EXCEPT !.pc = "setacl", !.type = t, !.acl = AclArgs(t, v, acl[t])])
  BY Zenon DEF GetAcl
<1>4. ASSUME NEW r \in {<<"ok">>, <<"err", "err">>, <<"ok", "ok">>}, Done(w, j, r)
      PROVE  Frame(w) /\ Fine(w)'
  <2>1. r \in Seq({"ok", "err", "crash"})
    BY Replies, ZenonT(30)
  <2> QED
    BY <1>1, <1>2, <1>4, <2>1, RefuseStep
<1>5. ASSUME NEW k \in Job, Set(w, k), k.op = j.op, k.o = j.o, k.base = j.base, k.pc = "setacl"
      PROVE  Frame(w) /\ Fine(w)'
  <2>1. Frame(w) /\ job'[w] = k /\ log' = log /\ load' = load
    BY <1>2, <1>5, QuietFrame
  <2>2. Where(w)' /\ Told(w)'
    BY <1>2, <1>5, <2>1, ZenonT(30) DEF Where, Told
  <2>3. Agrees(w)' /\ Shown(w)'
    BY <1>2, <1>5, <2>1, ZenonT(30) DEF Agrees, Shown, Ok, At, SizeDue
  <2> QED
    BY <2>1, <2>2, <2>3 DEF Fine
<1>6. CASE Set(w, [j EXCEPT !.pc = "setacl"])
  <2> DEFINE k == [j EXCEPT !.pc = "setacl"]
  <2>1. k \in Job /\ k.op = j.op /\ k.o = j.o /\ k.base = j.base /\ k.pc = "setacl"
    BY <1>1 DEF Job, PCs
  <2> HIDE DEF k
  <2>2. Set(w, k)
    BY <1>6 DEF k
  <2> QED
    BY <1>5, <2>1, <2>2, Zenon
<1>7. ASSUME NEW t \in AclTypes, NEW v \in {"given", "empty"},
             Set(w, [j EXCEPT !.pc = "setacl", !.type = t, !.acl = AclArgs(t, v, acl[t])])
      PROVE  Frame(w) /\ Fine(w)'
  <2> DEFINE k == [j EXCEPT !.pc = "setacl", !.type = t, !.acl = AclArgs(t, v, acl[t])]
  <2>1. acl[t] \in Acls
    BY DEF TypeOK, AclTypes
  <2>2. AclArgs(t, v, acl[t]) \in [access : Acls, default : Acls]
    BY <2>1 DEF AclArgs, Acls
  <2>3. k \in Job /\ k.op = j.op /\ k.o = j.o /\ k.base = j.base /\ k.pc = "setacl"
    BY <1>1, <2>2, Zenon DEF Job, PCs
  <2> HIDE DEF k
  <2>4. Set(w, k)
    BY <1>7 DEF k
  <2> QED
    BY <1>5, <2>3, <2>4
<1> QED
  BY <1>3, <1>4, <1>6, <1>7, Zenon

\* hsi_nfs3_setxattr: SETACL.
LEMMA SetAclStep ==
  ASSUME TypeOK, NEW w \in Worker, Fine(w), SetAcl(w)
  PROVE  Frame(w) /\ Fine(w)'
<1> DEFINE j == job[w]
           i == [j EXCEPT !.did = TRUE, !.rpc = TRUE]
           k == [i EXCEPT !.pc = "done", !.replies = <<"ok", "ok">>]
<1>1. j \in Job /\ Asked(j, j) /\ j.acl \in [access : Acls, default : Acls]
  BY JobType DEF Asked, Job
<1>2. /\ j.pc = "setacl" /\ j.op = "setxattr" /\ UNCHANGED <<single, load, cache>>
  BY DEF SetAcl, At, Fine, Where
<1>3. i \in Job
  BY <1>1, Zenon DEF Job
<1>4. Asked(j, i) /\ i.cnt = j.cnt /\ i.got = j.got /\ i.acl = j.acl
  BY <1>1 DEF Job, Asked
<1>5. \/ Refuse(w, <<"err", "err">>)
      \/ /\ (acl' = i.acl \/ acl' = acl) /\ UNCHANGED <<log, new>>
         /\ Set(w, k) \/ Lose(w, <<"err", "err">>)
  BY DEF SetAcl, Done
<1> HIDE DEF i
<1>6. CASE Refuse(w, <<"err", "err">>)
  <2>1. <<"err", "err">> \in Seq({"ok", "err", "crash"})
    BY Replies
  <2> QED
    BY <1>1, <1>2, <1>6, <2>1, RefuseStep, Zenon DEF Refuse
<1>7. ASSUME acl' = i.acl \/ acl' = acl, UNCHANGED <<log, new>>
      PROVE  Served
  BY <1>1, <1>2, <1>4, <1>7, LogSame DEF Served, TypeOK
<1>8. CASE (acl' = i.acl \/ acl' = acl) /\ UNCHANGED <<log, new>> /\ Lose(w, <<"err", "err">>)
  <2>1. <<"err", "err">> \in Seq({"ok", "err", "crash"}) /\ Served
    BY <1>7, <1>8, Replies
  <2> QED
    BY <1>2, <1>8, <2>1, LoseStep, Zenon
<1>9. CASE (acl' = i.acl \/ acl' = acl) /\ UNCHANGED <<log, new>> /\ Set(w, k)
  <2>1. <<"ok", "ok">> \in Seq({"ok", "err", "crash"}) /\ Served
    BY <1>7, <1>9, Replies
  <2>2. k \in Job /\ Asked(i, k) /\ k.pc = "done" /\ k.cnt = i.cnt /\ k.got = i.got
    BY <1>3, <2>1, DoneJob, Zenon
  <2> HIDE DEF k
  <2>3. Frame(w) /\ job'[w] = k /\ load' = load /\ LogGrows
    BY <1>9, <2>1, <2>2, ServedFrame DEF Served
  <2>4. Asked(j, k) /\ k.cnt = j.cnt /\ k.got = j.got /\ k.op = "setxattr"
    BY <1>2, <1>4, <2>2 DEF Asked
  <2>5. Fine(w)'
    BY <2>2, <2>3, <2>4, Failed DEF SizeDue
  <2> QED
    BY <2>3, <2>5
<1> QED
  BY <1>5, <1>6, <1>8, <1>9

-----------------------------------------------------------------------------
(* The steps of other clients *)

\* Another client changes an object or makes the file.
LEMMA OtherStep ==
  ASSUME TypeOK,
         \/ \E o \in Obj, a \in Attr : OtherChange(o, a)
         \/ \E v \in {"number", "another"} : OtherCreate(v)
  PROVE  TypeOK' /\ Around /\ UNCHANGED <<cache, job, acl>> /\ \A x \in Worker : Rely(x)
<1>1. UNCHANGED <<single, load, acl, cache, job>>
  BY DEF OtherChange, OtherCreate
<1>2. \A x \in Worker : Rely(x)
  BY <1>1 DEF Rely, Kept
<1>3. ASSUME NEW o \in Obj, NEW a \in Attr, OtherChange(o, a)
      PROVE  TypeOK' /\ Around
  <2>1. Change(o, a) /\ new' = new
    BY <1>3 DEF OtherChange
  <2>2. LogGrows /\ log' \in [Obj -> Seq(Attr)] /\ \A x \in Obj : Len(log'[x]) \in 1 .. MaxLog
    BY <2>1, Changed
  <2> QED
    BY <1>1, <2>1, <2>2 DEF TypeOK, Around
<1>4. ASSUME NEW v \in {"number", "another"}, OtherCreate(v)
      PROVE  TypeOK' /\ Around
  <2>1. log' = log /\ new.verf # "number" /\ new' = [NoFile EXCEPT !.by = "other", !.verf = v]
    BY <1>4 DEF OtherCreate, NoFile
  <2>2. new' \in File
    BY <2>1, AttrAssumption, Zenon DEF NoFile, File, Hows
  <2>3. LogGrows
    BY <2>1, LogSame
  <2> QED
    BY <1>1, <2>1, <2>2, <2>3 DEF TypeOK, Around
<1> QED
  BY <1>1, <1>2, <1>3, <1>4

-----------------------------------------------------------------------------
(* All workers *)

\* What a step of a worker in a request does to the rest of the state.
Effect(w) ==
  /\ job[w].pc # "idle" /\ job'[w].mixed = job[w].mixed
  /\ job[w].pc = "rest" => UpdateRest(w)
  /\ cache' = cache \/ UpdateSize(w) \/ UpdateRest(w) \/ Claim(w)
  /\ (acl' = acl /\ job'[w].pc # "setacl") \/ GetAcl(w) \/ SetAcl(w)
  /\ new' = new \/ CallCreate(w)

\* How the request goes on.
LEMMA RequestGoes ==
  ASSUME TypeOK, NEW w \in Worker
  PROVE  LET j == job[w]
             k == job'[w]
         IN
         /\ \A a \in Cached : Received(w, a) => k.mixed = j.mixed /\ k.pc = "size"
         /\ \A r : Done(w, j, r) => k.mixed = j.mixed /\ k.pc = "done"
         /\ \A r : Lose(w, r) => k.mixed = j.mixed /\ k.pc \in {j.pc, "done"}
         /\ \A n, e : Progress(w, n, e) => k.mixed = j.mixed /\ k.pc \in {j.pc, "done"}
         /\ Second(w) => k.mixed = j.mixed /\ k.pc = "done"
<1> DEFINE j == job[w]
           k == job'[w]
<1>1. j \in Job /\ \A i : Set(w, i) => k = i
  BY JobType DEF Set, TypeOK
<1>2. \A a \in Cached : Received(w, a) => k.mixed = j.mixed /\ k.pc = "size"
  BY <1>1, Zenon DEF Received, Job
<1>3. \A r : Done(w, j, r) => k.mixed = j.mixed /\ k.pc = "done"
  BY <1>1, Zenon DEF Done, Job
<1>4. ASSUME NEW r, Lose(w, r)
      PROVE  k.mixed = j.mixed /\ k.pc \in {j.pc, "done"}
  <2> DEFINE i == [j EXCEPT !.did = TRUE, !.rpc = TRUE, !.why = "lost"]
  <2>1. i \in Job /\ i.mixed = j.mixed /\ i.pc = j.pc
    BY <1>1, Zenon DEF Job, Whys
  <2>2. Set(w, i) \/ Set(w, [i EXCEPT !.pc = "done", !.replies = r])
    BY <1>4 DEF Lose, Done
  <2> HIDE DEF i
  <2> QED
    BY <1>1, <2>1, <2>2, Zenon DEF Job
<1>5. ASSUME NEW n, NEW e, Progress(w, n, e)
      PROVE  k.mixed = j.mixed /\ k.pc \in {j.pc, "done"}
  <2> DEFINE i == [j EXCEPT !.cnt = @ + n, !.eof = e, !.did = TRUE,
                            !.got = @ \cup (j.cnt .. j.cnt + n - 1)]
  <2>1. /\ DOMAIN i = DOMAIN j /\ i = [f \in DOMAIN i |-> i[f]] /\ i.mixed = j.mixed
        /\ i.pc = j.pc /\ "pc" \in DOMAIN i /\ "mixed" \in DOMAIN i
    BY <1>1, Zenon DEF Job
  <2>2. Set(w, i) \/ Set(w, [i EXCEPT !.pc = "done", !.replies = <<"ok">>])
    BY <1>5 DEF Progress, Done
  <2> HIDE DEF i
  <2> QED
    BY <1>1, <2>1, <2>2, Zenon
<1>6. ASSUME Second(w)
      PROVE  k.mixed = j.mixed /\ k.pc = "done"
  <2> DEFINE i == [j EXCEPT !.why = "second"]
  <2>1. i \in Job /\ i.mixed = j.mixed
    BY <1>1 DEF Job, Whys
  <2>2. Set(w, [i EXCEPT !.pc = "done", !.replies = <<"err">>])
    BY <1>6 DEF Second, Done
  <2> HIDE DEF i
  <2> QED
    BY <1>1, <2>1, <2>2, Zenon DEF Job
<1> QED
  BY <1>2, <1>3, <1>4, <1>5, <1>6, Zenon

\* Every step of a worker has such an effect.
LEMMA WorkEffect ==
  ASSUME TypeOK, NEW w \in Worker, Work(w)
  PROVE  Effect(w)
<1> DEFINE j == job[w]
           k == job'[w]
           Goes == k.mixed = j.mixed /\ k.pc # "setacl"
<1>1. j \in Job /\ j.o \in Obj /\ \A i : Set(w, i) => k = i
  BY JobType DEF Set, TypeOK
<1>2. ASSUME cache' = cache, acl' = acl, Goes, new' = new \/ CallCreate(w),
             j.pc \notin {"idle", "rest"}
      PROVE  Effect(w)
  BY <1>2 DEF Effect
<1>3. CASE Plain(w)
  BY <1>1, <1>2, <1>3, Zenon DEF Plain, At, Job
<1>4. CASE hsi_nfs_setattr(w)
  <2> DEFINE d == j.val = cache[j.o].size
             p == IF d /\ j.op = "setsize" THEN "reply" ELSE "call"
             i == [j EXCEPT !.stale = Stale(j.o), !.drop = d, !.pc = p]
  <2>1. k = i
    BY <1>1, <1>4 DEF hsi_nfs_setattr
  <2>2. i.mixed = j.mixed /\ i.pc = p
    BY <1>1, Zenon DEF Job
  <2>3. p # "setacl"
    OBVIOUS
  <2> QED
    BY <1>2, <1>4, <2>1, <2>2, <2>3 DEF hsi_nfs_setattr, At
<1>5. CASE CallGet(w) \/ CallLookup(w)
  <2>1. /\ j.pc = "call" /\ UNCHANGED <<acl, new, cache>>
        /\ Received(w, Fresh(j.o)) \/ Done(w, j, <<"err">>) \/ Done(w, j, <<"crash">>)
    BY <1>5 DEF CallGet, CallLookup, At
  <2>2. Goes
    BY <1>1, <2>1, NowReal, RequestGoes, Zenon
  <2> QED
    BY <1>2, <2>1, <2>2
<1>6. CASE CallSet(w)
  <2> DEFINE i == [j EXCEPT !.rpc = TRUE, !.did = TRUE, !.why = "EAGAIN"]
             a == [j EXCEPT !.pc = "size", !.ans = After(w, Wanted(j)), !.rpc = TRUE, !.did = TRUE]
  <2>1. /\ j.pc = "call" /\ UNCHANGED <<acl, new, cache>>
        /\ \/ Done(w, j, <<"err">>) \/ Lose(w, <<"err">>) \/ Set(w, a)
           \/ Set(w, [i EXCEPT !.pc = "done", !.replies = <<"err">>])
    BY <1>6 DEF CallSet, At, Refuse, Apply, Received, Done
  <2>2. i \in Job /\ i.mixed = j.mixed /\ a.mixed = j.mixed /\ a.pc = "size"
    BY <1>1, Zenon DEF Job, Whys
  <2> HIDE DEF i, a
  <2>3. ASSUME Set(w, [i EXCEPT !.pc = "done", !.replies = <<"err">>])
        PROVE  Goes
    BY <1>1, <2>2, <2>3, ZenonT(30) DEF Job
  <2>4. Goes
    BY <1>1, <2>1, <2>2, <2>3, RequestGoes
  <2> QED
    BY <1>2, <2>1, <2>4
<1>7. CASE CallLink(w)
  <2> DEFINE i == [j EXCEPT !.pc = "again", !.rpc = TRUE, !.did = TRUE]
             a == [j EXCEPT !.pc = "size", !.ans = After(w, Now(j.o)), !.rpc = TRUE, !.did = TRUE]
  <2>1. /\ j.pc \in {"call", "again"} /\ UNCHANGED <<acl, new, cache>>
        /\ \/ Done(w, j, <<"err">>) \/ (j.pc = "call" /\ Lose(w, <<"err">>)) \/ Set(w, a)
           \/ Set(w, i)
           \/ Received(w, Fresh(j.o)) \/ Second(w)
    BY <1>7, Zenon DEF CallLink, At, Refuse, Apply, Second, Received
  <2>2. i.mixed = j.mixed /\ i.pc = "again" /\ a.mixed = j.mixed /\ a.pc = "size"
    BY <1>1 DEF Job
  <2> HIDE DEF i, a
  <2>3. Goes
    BY <1>1, <2>1, <2>2, NowReal, RequestGoes, Zenon
  <2> QED
    BY <1>2, <2>1, <2>3
<1>8. CASE UpdateSize(w)
  <2> DEFINE i == [j EXCEPT !.why = "ESTALE"]
             s == [j EXCEPT !.pc = "rest"]
             l == [j EXCEPT !.pc = "reply", !.why = "ESTALE"]
  <2>1. /\ j.pc = "size" /\ UNCHANGED <<acl, new>>
        /\ k = s \/ k = l \/ k = [i EXCEPT !.pc = "done", !.replies = <<"err">>]
    BY <1>1, <1>8 DEF UpdateSize, At, Write, Done
  <2>2. /\ i \in Job /\ i.mixed = j.mixed /\ s.mixed = j.mixed /\ s.pc = "rest"
        /\ l.mixed = j.mixed /\ l.pc = "reply"
    BY <1>1 DEF Job, Whys
  <2> HIDE DEF i, s, l
  <2>3. ASSUME k = [i EXCEPT !.pc = "done", !.replies = <<"err">>]
        PROVE  Goes
    BY <2>2, <2>3 DEF Job
  <2>4. Goes
    BY <2>1, <2>2, <2>3
  <2> QED
    BY <1>8, <2>1, <2>4 DEF Effect
<1>9. CASE UpdateRest(w)
  <2>1. j.pc = "rest" /\ UNCHANGED <<acl, new>> /\ k = [j EXCEPT !.pc = "reply"]
    BY <1>9 DEF UpdateRest, At, Write
  <2> QED
    BY <1>1, <1>9, <2>1 DEF Effect, Job
<1>10. CASE Reply(w)
  <2> DEFINE i == IF j.op = "getattr" THEN j ELSE [j EXCEPT !.ans = cache[j.o]]
  <2>1. i \in Job /\ i.mixed = j.mixed
    BY <1>1, JobType DEF Job
  <2> DEFINE e == [j EXCEPT !.why = "ENOMEM"]
  <2>2. /\ j.pc = "reply" /\ UNCHANGED <<acl, new, cache>>
        /\ \/ Set(w, [i EXCEPT !.pc = "done", !.replies = <<"ok">>])
           \/ Set(w, [e EXCEPT !.pc = "done", !.replies = <<"err">>])
    BY <1>10 DEF Reply, At, Done
  <2>2a. e \in Job /\ e.mixed = j.mixed
    BY <1>1, Zenon DEF Job, Whys
  <2> HIDE DEF i, e
  <2>3. Goes
    BY <1>1, <2>1, <2>2, <2>2a, Zenon DEF Job
  <2> QED
    BY <1>2, <2>2, <2>3
<1>11. CASE Claim(w)
  <2>1. j.pc = "claim" /\ UNCHANGED <<acl, new>> /\ k = [j EXCEPT !.pc = "call"]
    BY <1>11 DEF Claim, At, Write
  <2> QED
    BY <1>1, <1>11, <2>1 DEF Effect, Job
<1>12. CASE CallCreate(w)
  <2> DEFINE i(b) == [j EXCEPT !.did = TRUE, !.rpc = TRUE, !.known = b]
             l(b) == [i(b) EXCEPT !.pc = "again"]
  <2>1. /\ j.pc \in {"call", "again"} /\ UNCHANGED <<acl, cache>>
        /\ \/ \E r : Done(w, j, r)
           \/ \E b \in BOOLEAN : Set(w, l(b)) \/ \E r : Done(w, i(b), r)
           \/ (j.pc = "call" /\ Lose(w, <<"err">>)) \/ Second(w)
    BY <1>12, Zenon DEF CallCreate, At, Refuse, Second, Make
  <2>2. \A b \in BOOLEAN : i(b) \in Job /\ i(b).mixed = j.mixed /\ l(b).mixed = j.mixed
                            /\ l(b).pc = "again"
    BY <1>1, Zenon DEF Job
  <2> HIDE DEF i, l
  <2>3. ASSUME NEW b \in BOOLEAN, NEW r, Done(w, i(b), r)
        PROVE  Goes
    <3>1. PICK x \in Job : x = i(b)
      BY <2>2
    <3>2. x.mixed = j.mixed /\ Done(w, x, r)
      BY <2>2, <2>3, <3>1
    <3> QED
      BY <1>1, <3>2, Zenon DEF Done, Job
  <2>4. ASSUME NEW b \in BOOLEAN, Set(w, l(b))
        PROVE  Goes
    BY <1>1, <2>2, <2>4, Zenon
  <2>5. Goes
    BY <1>1, <2>1, <2>3, <2>4, RequestGoes, Zenon
  <2> QED
    BY <1>2, <1>12, <2>1, <2>5, Zenon
<1>13. CASE hsx_fuse_read(w) \/ hsx_fuse_write(w)
  <2>1. /\ j.pc = "call" /\ UNCHANGED <<acl, new, cache>>
        /\ Done(w, j, <<"err">>) \/ \E n, e : Progress(w, n, e)
    BY <1>13, ZenonT(30) DEF hsx_fuse_read, hsx_fuse_write, At
  <2>2. Goes
    BY <2>1, RequestGoes, Zenon
  <2> QED
    BY <1>2, <2>1, <2>2
<1>14. CASE GetAcl(w)
  <2>1. /\ j.pc = "getacl" /\ UNCHANGED <<acl, new, cache>>
        /\ \/ \E r : Done(w, j, r)
           \/ \E t, a : Set(w, [j EXCEPT !.pc = "setacl", !.type = t, !.acl = a])
           \/ Set(w, [j EXCEPT !.pc = "setacl"])
    BY <1>14, ZenonT(30) DEF GetAcl, At
  <2>2. k.mixed = j.mixed
    BY <1>1, <2>1, RequestGoes, ZenonT(30) DEF Job
  <2> QED
    BY <1>14, <2>1, <2>2, ZenonT(30) DEF Effect
<1>15. CASE SetAcl(w)
  <2> DEFINE i == [j EXCEPT !.did = TRUE, !.rpc = TRUE]
  <2>1. /\ j.pc = "setacl" /\ UNCHANGED <<new, cache>>
        /\ \E r : Done(w, j, r) \/ Done(w, i, r) \/ Lose(w, r)
    BY <1>15 DEF SetAcl, At, Refuse
  <2>2. i \in Job /\ i.mixed = j.mixed
    BY <1>1, Zenon DEF Job
  <2> HIDE DEF i
  <2>3. ASSUME NEW r, Done(w, i, r)
        PROVE  k.mixed = j.mixed
    BY <1>1, <2>2, <2>3, ZenonT(30) DEF Done, Job
  <2>4. k.mixed = j.mixed
    BY <2>1, <2>3, RequestGoes
  <2> QED
    BY <1>15, <2>1, <2>4, Zenon DEF Effect
<1> QED
  BY <1>3, <1>4, <1>5, <1>6, <1>7, <1>8, <1>9, <1>10, <1>11, <1>12, <1>13, <1>14, <1>15, Zenon DEF Work

\* The invariant, with the part of each worker gathered.
Base ==
  /\ TypeOK /\ \A o \in Obj : cache[o].ver <= Len(log[o])
  /\ \A w \in Worker : Fine(w)
  /\ Alone /\ AclPlan /\ CreatedOwned

\* It says the same.
LEMMA InvBase == IInv <=> Base
<1>1. ASSUME NEW w \in Worker, Where(w)
      PROVE  /\ Told(w) <=> /\ At(w, "done") /\ ~job[w].missing /\ job[w].op # "setxattr"
                               => Len(job[w].replies) = 1
                            /\ /\ Ok(w) /\ job[w].op \notin {"access", "setxattr"}
                               /\ job[w].op = "setsize" => job[w].rpc
                               => job[w].did
                            /\ /\ At(w, "done") /\ job[w].replies = <<"err">>
                               /\ job[w].why = "none"
                               /\ job[w].op \in {"setsize", "chown", "setboth", "link", "create"}
                               => ~job[w].did
  BY DEF Told, Ok, At
<1>2. (\A w \in Worker : Where(w)) => ((\A w \in Worker : Told(w)) <=> RepliedOnce /\ OutcomeTold)
  BY <1>1 DEF RepliedOnce, OutcomeTold, SuccessMeansDone, FailedUntouched
<1>3. (\A w \in Worker : Where(w)) =>
        ((\A w \in Worker : Shown(w)) <=> RepliedReal /\ SizeSetUnlessStale /\ TransferExact)
  <2> SUFFICES ASSUME \A w \in Worker : Where(w)
               PROVE  (\A w \in Worker : Shown(w)) <=>
                        RepliedReal /\ SizeSetUnlessStale /\ TransferExact
    OBVIOUS
  <2>1. (\A w \in Worker : Shown(w)) => RepliedReal
    BY DEF Shown, RepliedReal
  <2>2. (\A w \in Worker : Shown(w)) => SizeSetUnlessStale
    BY DEF Shown, SizeSetUnlessStale, SizeWasSet, SizeOps
  <2>3. (\A w \in Worker : Shown(w)) => TransferExact
    BY ZenonT(30) DEF Shown, TransferExact, Where
  <2>4. ASSUME RepliedReal, SizeSetUnlessStale, TransferExact, NEW w \in Worker
        PROVE  Shown(w)
    <3>1. /\ Ok(w) /\ job[w].op \in {"setsize", "setboth"}
          /\ job[w].drop => single /\ ~job[w].stale
          => SizeWasSet(w)
      BY <2>4 DEF SizeSetUnlessStale, SizeWasSet, SizeOps
    <3> QED
      BY <2>4, <3>1, Zenon DEF Shown, RepliedReal, TransferExact
  <2> QED
    BY <2>1, <2>2, <2>3, <2>4
<1> QED
  BY <1>2, <1>3, Zenon DEF IInv, Base, Fine

\* Every step of a worker is fine for it, and the others may rely on it.
LEMMA WorkerStep ==
  ASSUME Base, NEW w \in Worker,
         \/ \E op \in load.ops, o \in Obj, v \in load.sizes, u \in Uid, how \in Hows :
              Start(w, op, o, v, u, how)
         \/ Work(w) \/ Finish(w)
  PROVE  Frame(w) /\ Fine(w)'
<1>1. TypeOK /\ Fine(w) /\ Alone /\ \A o \in Obj : cache[o].ver <= Len(log[o])
  BY DEF Base
<1>2. CASE \E op \in load.ops, o \in Obj, v \in load.sizes, u \in Uid, how \in Hows :
             Start(w, op, o, v, u, how)
  BY <1>1, <1>2, StartStep, Zenon
<1>3. CASE Finish(w)
  BY <1>1, <1>3, FinishStep
<1>4. CASE Work(w)
  <2>1. CASE Plain(w)
    BY <1>1, <2>1, PlainStep
  <2>2. CASE hsi_nfs_setattr(w)
    BY <1>1, <2>2, CheckStep
  <2>3. CASE CallGet(w) \/ CallLookup(w)
    BY <1>1, <2>3, GetStep
  <2>4. CASE CallSet(w)
    BY <1>1, <2>4, SetStep
  <2>5. CASE CallLink(w)
    BY <1>1, <2>5, LinkStep
  <2>6. CASE UpdateSize(w)
    BY <1>1, <2>6, SizeStep
  <2>7. CASE UpdateRest(w)
    BY <1>1, <2>7, RestStep
  <2>8. CASE Reply(w)
    BY <1>1, <2>8, ReplyStep
  <2>9. CASE Claim(w)
    BY <1>1, <2>9, ClaimStep
  <2>10. CASE CallCreate(w)
    BY <1>1, <2>10, CreateStep
  <2>11. CASE hsx_fuse_read(w)
    BY <1>1, <2>11, ReadStep
  <2>12. CASE hsx_fuse_write(w)
    BY <1>1, <2>12, WriteStep
  <2>13. CASE GetAcl(w)
    BY <1>1, <2>13, GetAclStep
  <2>14. CASE SetAcl(w)
    BY <1>1, <2>14, SetAclStep
  <2> QED
    BY <1>4, <2>1, <2>2, <2>3, <2>4, <2>5, <2>6, <2>7, <2>8, <2>9, <2>10, <2>11, <2>12,
       <2>13, <2>14, ZenonT(30) DEF Work
<1> QED
  BY <1>2, <1>3, <1>4

\* The others are as fine as they were.
LEMMA OthersStep ==
  ASSUME Base, Around, NEW x \in Worker, Rely(x)
  PROVE  Fine(x)'
<1>1. TypeOK /\ Fine(x) /\ Kept(x) /\ load' = load
  BY DEF Base, Rely, Around
<1> QED
  BY <1>1, LocalKept, SharedKept DEF Fine

\* The time of the attributes in the inode has been.
LEMMA VersionStep ==
  ASSUME Base, Around, TypeOK',
         \/ cache' = cache
         \/ \E w \in Worker : UpdateSize(w) \/ UpdateRest(w) \/ Claim(w)
  PROVE  \A o \in Obj : cache'[o].ver <= Len(log'[o])
<1>1. TypeOK /\ LogGrows
  BY DEF Base, Around
<1>2. \A o \in Obj : /\ cache[o] \in Cached /\ cache[o].ver \in 1 .. MaxLog
                     /\ Len(log[o]) \in 1 .. MaxLog /\ Len(log'[o]) \in Nat
                     /\ Len(log[o]) <= Len(log'[o]) /\ cache[o].ver <= Len(log[o])
  BY <1>1, Zenon DEF Base, TypeOK, LogGrows, Cached
<1>3. ASSUME NEW o \in Obj, NEW c \in Cached, cache' = [cache EXCEPT ![o] = c],
             c.ver \in Nat, c.ver <= Len(log[o])
      PROVE  \A p \in Obj : cache'[p].ver <= Len(log'[p])
  BY <1>1, <1>2, <1>3 DEF TypeOK
<1>4. CASE cache' = cache
  BY <1>2, <1>4
<1>5. ASSUME NEW w \in Worker, UpdateSize(w) \/ Claim(w)
      PROVE  \A p \in Obj : cache'[p].ver <= Len(log'[p])
  <2>1. job[w] \in Job /\ job[w].o \in Obj /\ job[w].ans \in Cached /\ job[w].uid \in Uid
        /\ "dir" \in Obj
    BY <1>1, JobType, ZenonT(30) DEF Job, Obj
  <2>2. \/ cache' = cache
        \/ cache' = [cache EXCEPT ![job[w].o] = [cache[job[w].o] EXCEPT !.size = job[w].ans.size]]
        \/ cache' = [cache EXCEPT !["dir"] = [cache["dir"] EXCEPT !.uid = job[w].uid]]
    BY <1>5, Zenon DEF UpdateSize, Claim, Write
  <2>3. ASSUME NEW o \in Obj
        PROVE  /\ [cache[o] EXCEPT !.size = job[w].ans.size] \in Cached
               /\ [cache[o] EXCEPT !.size = job[w].ans.size].ver = cache[o].ver
               /\ [cache[o] EXCEPT !.uid = job[w].uid] \in Cached
               /\ [cache[o] EXCEPT !.uid = job[w].uid].ver = cache[o].ver
    BY <1>2, <2>1 DEF Cached
  <2>4. CASE cache' = [cache EXCEPT ![job[w].o] =
                         [cache[job[w].o] EXCEPT !.size = job[w].ans.size]]
    BY <1>2, <1>3, <2>1, <2>3, <2>4
  <2>5. CASE cache' = [cache EXCEPT !["dir"] = [cache["dir"] EXCEPT !.uid = job[w].uid]]
    BY <1>2, <1>3, <2>1, <2>3, <2>5
  <2> QED
    BY <1>4, <2>2, <2>4, <2>5
<1>6. ASSUME NEW w \in Worker, UpdateRest(w)
      PROVE  \A p \in Obj : cache'[p].ver <= Len(log'[p])
  <2> DEFINE j == job[w]
             c == [cache[j.o] EXCEPT !.uid = j.ans.uid, !.ver = j.ans.ver]
  <2>1. j \in Job /\ j.o \in Obj /\ j.ans \in Cached /\ cache[j.o] \in Cached
    BY <1>1, JobType, ZenonT(30) DEF Job
  <2>2. Real(w)
    BY <1>6, Zenon DEF UpdateRest, At, Base, Fine, Agrees
  <2>3. c \in Cached /\ c.ver = j.ans.ver /\ c.ver \in Nat /\ c.ver <= Len(log[j.o])
    <3>1. c \in Cached /\ c.ver = j.ans.ver /\ j.ans.ver \in 1 .. MaxLog
      BY <2>1, Zenon DEF Cached
    <3> QED
      BY <1>2, <2>1, <2>2, <3>1 DEF Real, Since
  <2>4. cache' = [cache EXCEPT ![j.o] = c]
    BY <1>6, Zenon DEF UpdateRest, Write
  <2> HIDE DEF c
  <2> QED
    BY <1>3, <2>1, <2>3, <2>4, Zenon
<1> QED
  BY <1>4, <1>5, <1>6

\* What was a snapshot of the server's attributes still is one.
LEMMA SnapshotKept ==
  ASSUME Base, Around, NEW o \in Obj, cache'[o] = cache[o], Snapshot(o)
  PROVE  Snapshot(o)'
<1>1. cache[o].ver \in 1 .. Len(log[o]) /\ load' = load
  BY DEF Base, TypeOK, Cached, Around
<1>2. log'[o][cache[o].ver] = log[o][cache[o].ver]
  BY <1>1 DEF Around, LogGrows
<1> QED
  BY <1>1, <1>2 DEF Snapshot

\* A step of w when the others wait: nobody interferes, and the inode is a snapshot
\* after it, but while w is writing it.
LEMMA AloneStep ==
  ASSUME Base, NEW w \in Worker, Frame(w), single => ~job'[w].mixed,
         single => \A x \in Worker \ {w} : At(x, "idle"),
         \A o \in Obj :
           single => Snapshot(o)' \/ (job'[w].pc = "rest" /\ job'[w].o = o)
  PROVE  Alone'
<1> SUFFICES ASSUME single'
             PROVE  /\ \A v, x \in Worker : ~At(v, "idle")' /\ ~At(x, "idle")' => v = x
                    /\ \A x \in Worker : ~job'[x].mixed
                    /\ \A o \in Obj : \/ Snapshot(o)'
                                      \/ \E x \in Worker : At(x, "rest")' /\ job'[x].o = o
  BY Zenon DEF Alone
<1>1. single /\ \A x \in Worker \ {w} : At(x, "idle") /\ Rely(x) /\ ~job[x].mixed
  BY Zenon DEF Frame, Around, Base, Alone
<1>2. \A x \in Worker \ {w} : At(x, "idle")'
  BY <1>1 DEF Rely, Kept, At
<1>3. \A x \in Worker \ {w} : ~job'[x].mixed
  BY <1>1 DEF Rely, At
<1> QED
  BY <1>1, <1>2, <1>3 DEF At

\* With one worker, every step of a worker keeps it so.
LEMMA AloneNext ==
  ASSUME Base, NEW w \in Worker, Frame(w),
         \/ \E op \in load.ops, o \in Obj, v \in load.sizes, u \in Uid, how \in Hows :
              Start(w, op, o, v, u, how)
         \/ Work(w) \/ Finish(w)
  PROVE  Alone'
<1> DEFINE j == job[w]
           k == job'[w]
<1>1. /\ TypeOK /\ Around /\ Alone /\ Fine(w) /\ j \in Job /\ j.o \in Obj /\ "dir" \in Obj
      /\ load' = load /\ TypeOK'
  BY JobType, ZenonT(30) DEF Base, Frame, Around, Obj
<1>2. ASSUME single, \A x \in Worker \ {w} : At(x, "idle"), j.pc # "rest"
      PROVE  \A o \in Obj : Snapshot(o) /\ (cache'[o] = cache[o] => Snapshot(o)')
  BY <1>1, <1>2, SnapshotKept DEF Alone, At
<1>3. ASSUME NEW op \in load.ops, NEW o \in Obj, NEW v \in load.sizes, NEW u \in Uid,
             NEW how \in Hows, Start(w, op, o, v, u, how)
      PROVE  Alone'
  <2>1. /\ j.pc = "idle" /\ cache' = cache /\ (single => \A x \in Worker : At(x, "idle"))
    BY <1>3, ZenonT(30) DEF Start, At
  <2>2. ~k.mixed
    BY <1>1, <1>3, StartStep, ZenonT(30)
  <2> QED
    BY <1>2, <2>1, <2>2, AloneStep, ZenonT(30)
<1>4. CASE Finish(w)
  <2>1. j.pc = "done" /\ cache' = cache /\ k = Idle
    BY <1>1, <1>4, ZenonT(30) DEF Finish, At, Set, TypeOK
  <2>2. ~k.mixed
    BY <2>1 DEF Idle
  <2>3. single => \A x \in Worker \ {w} : At(x, "idle")
    BY <1>1, <2>1, ZenonT(30) DEF Alone, At
  <2> QED
    BY <1>2, <2>1, <2>2, <2>3, AloneStep
<1>5. CASE Work(w)
  <2>1. Effect(w)
    BY <1>1, <1>5, WorkEffect
  <2>2. /\ single => \A x \in Worker \ {w} : At(x, "idle")
        /\ single => ~k.mixed /\ ~j.mixed
    BY <1>1, <2>1, ZenonT(30) DEF Alone, At, Effect
  <2>3. CASE cache' = cache /\ ~UpdateRest(w)
    <3>1. j.pc # "rest"
      BY <2>1, <2>3, ZenonT(30) DEF Effect
    <3> QED
      BY <1>2, <2>2, <2>3, <3>1, AloneStep, ZenonT(30)
  <2>4. CASE UpdateSize(w)
    <3>1. j.pc = "size"
      BY <2>4 DEF UpdateSize, At
    <3>2. \/ cache' = cache
          \/ /\ k = [j EXCEPT !.pc = "rest"]
             /\ \E c : cache' = [cache EXCEPT ![j.o] = c]
      BY <2>4, Zenon DEF UpdateSize, Write
    <3>3. \A o \in Obj : cache'[o] = cache[o] \/ (k.pc = "rest" /\ k.o = o)
      BY <1>1, <3>2 DEF TypeOK, Job
    <3> QED
      BY <1>2, <2>2, <3>1, <3>3, AloneStep, Zenon
  <2>5. CASE Claim(w)
    <3>1. /\ j.pc = "claim" /\ cache' = [cache EXCEPT !["dir"] = [cache["dir"] EXCEPT !.uid = j.uid]]
          /\ "create" \in load.ops
      BY <1>1, <2>5 DEF Claim, At, Write, Fine, Where
    <3>2. /\ \A o \in Obj \ {"dir"} : cache'[o] = cache[o]
          /\ cache'["dir"].size = cache["dir"].size /\ cache'["dir"].ver = cache["dir"].ver
      BY <1>1, <3>1 DEF TypeOK, Cached
    <3>3. log' = log
      BY <2>5 DEF Claim
    <3>4. Snapshot("dir") => Snapshot("dir")'
      BY <1>1, <3>1, <3>2, <3>3 DEF Snapshot
    <3> QED
      BY <1>1, <1>2, <2>2, <3>1, <3>2, <3>4, AloneStep
  <2>6. CASE UpdateRest(w)
    <3> DEFINE c == [cache[j.o] EXCEPT !.uid = j.ans.uid, !.ver = j.ans.ver]
    <3>1. /\ j.pc = "rest" /\ cache' = [cache EXCEPT ![j.o] = c] /\ log' = log
      BY <2>6 DEF UpdateRest, At, Write
    <3>2. Real(w) /\ (~j.mixed => cache[j.o].size = j.ans.size)
      BY <1>1, <3>1 DEF Fine, Agrees
    <3>3. c.size = cache[j.o].size /\ c.uid = j.ans.uid /\ c.ver = j.ans.ver
      BY <1>1 DEF TypeOK, Cached
    <3> HIDE DEF c
    <3>4. cache'[j.o] = c /\ \A o \in Obj \ {j.o} : cache'[o] = cache[o]
      BY <1>1, <3>1, ZenonT(30) DEF TypeOK
    <3>5. ASSUME NEW o \in Obj, o = j.o, single
          PROVE  Snapshot(o)'
      BY <2>2, <3>1, <3>2, <3>3, <3>4, <3>5, ZenonT(30) DEF Snapshot, Real
    <3>6. \A o \in Obj \ {j.o} : single => Snapshot(o)
      BY <1>1, <2>2, <3>1, ZenonT(30) DEF Alone, At
    <3>7. \A o \in Obj \ {j.o} : single => Snapshot(o)'
      BY <1>1, <3>4, <3>6, SnapshotKept, ZenonT(30)
    <3> QED
      BY <2>2, <3>5, <3>7, AloneStep
  <2> QED
    BY <2>1, <2>3, <2>4, <2>5, <2>6, Zenon DEF Effect
<1> QED
  BY <1>3, <1>4, <1>5

\* hsi_nfs3_setxattr sends the ACL that was read, for as long as there is one worker.
LEMMA AclStep ==
  ASSUME Base, NEW w \in Worker, Frame(w),
         \/ \E op \in load.ops, o \in Obj, v \in load.sizes, u \in Uid, how \in Hows :
              Start(w, op, o, v, u, how)
         \/ Work(w) \/ Finish(w)
  PROVE  AclPlan'
<1> DEFINE j == job[w]
           k == job'[w]
           Plan(x) == job[x].pc = "setacl" /\ job[x].o = "dir" =>
                        /\ job[x].acl[job[x].type] \in {"given", "from_mode", "empty"}
                        /\ single /\ ~job[x].did => job[x].acl[Other(job[x].type)] = acl[job[x].type]
<1>1. /\ TypeOK /\ Alone /\ j \in Job /\ single' = single
      /\ \A x \in Worker : Plan(x)
      /\ \A x \in Worker \ {w} : Kept(x)
  BY JobType, ZenonT(30) DEF Base, Frame, Around, AclPlan, Rely
<1>2. ASSUME acl' = acl \/ (single => \A x \in Worker \ {w} : At(x, "idle"))
      PROVE  \A x \in Worker \ {w} : Plan(x)'
  <2> SUFFICES ASSUME NEW x \in Worker \ {w}
               PROVE  Plan(x)'
    OBVIOUS
  <2>1. Plan(x) /\ (acl' = acl \/ (single => job[x].pc = "idle"))
    BY <1>1, <1>2, ZenonT(30) DEF At
  <2>2. /\ job'[x].pc = job[x].pc /\ job'[x].o = job[x].o /\ job'[x].acl = job[x].acl
        /\ job'[x].type = job[x].type /\ job'[x].did = job[x].did
    BY <1>1, ZenonT(30) DEF Kept
  <2> QED
    BY <1>1, <2>1, <2>2, ZenonT(30)
<1>3. ASSUME Plan(w)', \A x \in Worker \ {w} : Plan(x)'
      PROVE  AclPlan'
  BY <1>3, ZenonT(30) DEF AclPlan
<1>4. CASE acl' = acl /\ k.pc # "setacl"
  BY <1>2, <1>3, <1>4, ZenonT(30)
<1>5. ASSUME NEW op \in load.ops, NEW o \in Obj, NEW v \in load.sizes, NEW u \in Uid,
             NEW how \in Hows, Start(w, op, o, v, u, how)
      PROVE  AclPlan'
  <2>1. acl' = acl /\ k.pc # "setacl"
    BY <1>1, <1>5, StartStep, Zenon DEF Start
  <2> QED
    BY <1>4, <2>1, ZenonT(30)
<1>6. CASE Finish(w)
  <2>1. acl' = acl /\ k.pc # "setacl"
    BY <1>1, <1>6, ZenonT(30) DEF Finish, Set, TypeOK, Idle
  <2> QED
    BY <1>4, <2>1
<1>7. CASE GetAcl(w)
  <2>1. acl' = acl /\ \/ \E r : k = [j EXCEPT !.pc = "done", !.replies = r]
                      \/ j.o = "file" /\ k = [j EXCEPT !.pc = "setacl"]
                      \/ \E t \in AclTypes, v \in {"given", "empty"} :
                           k = [j EXCEPT !.pc = "setacl", !.type = t, !.acl = AclArgs(t, v, acl[t])]
    BY <1>1, <1>7, ZenonT(30) DEF GetAcl, Done, Set, TypeOK
  <2>2. ASSUME NEW r, k = [j EXCEPT !.pc = "done", !.replies = r]
        PROVE  k.pc # "setacl"
    BY <1>1, <2>2 DEF Job
  <2>3. ASSUME j.o = "file", k = [j EXCEPT !.pc = "setacl"]
        PROVE  k.o # "dir"
    BY <1>1, <2>3 DEF Job
  <2>4. ASSUME NEW t \in AclTypes, NEW v \in {"given", "empty"},
               k = [j EXCEPT !.pc = "setacl", !.type = t, !.acl = AclArgs(t, v, acl[t])]
        PROVE  Plan(w)'
    <3>1. k.type = t /\ k.acl = AclArgs(t, v, acl[t])
      BY <1>1, <2>4 DEF Job
    <3>2. /\ AclArgs(t, v, acl[t])[t] \in {"given", "from_mode", "empty"}
          /\ AclArgs(t, v, acl[t])[Other(t)] = acl[t]
      BY DEF AclArgs, AclTypes, Other
    <3> QED
      BY <2>1, <3>1, <3>2, Zenon
  <2>5. Plan(w)'
    BY <2>1, <2>2, <2>3, <2>4, ZenonT(30)
  <2> QED
    BY <1>2, <1>3, <2>1, <2>5, ZenonT(30)
<1>8. CASE SetAcl(w)
  <2> DEFINE i == [j EXCEPT !.did = TRUE, !.rpc = TRUE]
             l == [j EXCEPT !.did = TRUE, !.rpc = TRUE, !.why = "lost"]
  <2>1. /\ j.pc = "setacl"
        /\ \/ \E r : \/ k = [j EXCEPT !.pc = "done", !.replies = r]
                     \/ k = [i EXCEPT !.pc = "done", !.replies = r]
                     \/ k = [l EXCEPT !.pc = "done", !.replies = r]
           \/ k = l
    BY <1>1, <1>8, Zenon DEF SetAcl, At, Refuse, Done, Lose, Set, TypeOK
  <2>2. i \in Job /\ l \in Job /\ l.did /\ l.acl = j.acl /\ l.type = j.type /\ l.o = j.o
    BY <1>1, Zenon DEF Job, Whys
  <2> HIDE DEF i, l
  <2>3. ASSUME NEW m \in Job, NEW r, k = [m EXCEPT !.pc = "done", !.replies = r]
        PROVE  k.pc = "done"
    BY <2>3 DEF Job
  <2>4. k.pc = "done" \/ k = l
    BY <1>1, <2>1, <2>2, <2>3, ZenonT(30)
  <2>5. Plan(w)'
    BY <1>1, <2>1, <2>2, <2>4, ZenonT(30)
  <2>6. single => \A x \in Worker \ {w} : At(x, "idle")
    BY <1>1, <2>1, ZenonT(30) DEF Alone, At
  <2> QED
    BY <1>2, <1>3, <2>5, <2>6, ZenonT(30)
<1>9. CASE Work(w) /\ ~GetAcl(w) /\ ~SetAcl(w)
  <2>1. Effect(w)
    BY <1>1, <1>9, WorkEffect
  <2> QED
    BY <1>4, <1>9, <2>1, ZenonT(30) DEF Effect
<1> QED
  BY <1>5, <1>6, <1>7, <1>8, <1>9, ZenonT(30)

\* hsi_nfs3_create sends the ids that hsx_fuse_create left in the directory's inode.
LEMMA OwnedStep ==
  ASSUME Base, NEW w \in Worker, new' = new \/ CallCreate(w)
  PROVE  CreatedOwned'
<1> DEFINE j == job[w]
           a == CreateArgs(j)
<1>1. CASE new' = new
  BY <1>1, Zenon DEF Base, CreatedOwned
<1>2. CASE /\ j.op = "create" /\ j.pc = "call"
           /\ new' = [by |-> w, owner |-> a.uid, caller |-> j.uid, how |-> a.how,
                      mixed |-> j.mixed, verf |-> a.verf]
  <2>1. ~j.mixed => cache["dir"].uid = j.uid
    BY <1>2, ZenonT(30) DEF Base, Fine, Agrees
  <2>2. a.how # "EXCLUSIVE" => a.uid = cache["dir"].uid
    BY DEF CreateArgs
  <2> QED
    BY <1>2, <2>1, <2>2 DEF CreatedOwned
<1> QED
  BY <1>1, <1>2 DEF CallCreate, Make, Refuse, Second, At

-----------------------------------------------------------------------------
(* The invariant *)

\* A mounted file system that nobody has used yet.
LEMMA InitHolds == Init => IInv
<1> SUFFICES ASSUME Init
             PROVE  Base
  BY InvBase
<1> DEFINE a == [size |-> 0, uid |-> Daemon]
<1>1. a \in Attr /\ 1 \in 1 .. MaxLog /\ Daemon \in Uid
  BY AttrAssumption DEF Attr, Size
<1>2. \A o \in Obj : log[o] = <<a>>
  BY DEF Init
<1>3. <<a>> \in Seq(Attr) /\ Len(<<a>>) = 1 /\ <<a>>[1] = a
  BY <1>1
<1>4. log \in [Obj -> Seq(Attr)] /\ \A o \in Obj : Len(log[o]) \in 1 .. MaxLog /\ Len(log[o]) = 1
  BY <1>1, <1>3 DEF Init
<1>5. \A o \in Obj : cache[o] = [size |-> 0, uid |-> Daemon, ver |-> 1]
  BY <1>2, <1>3 DEF Init, Fresh, Now
<1>6. cache \in [Obj -> Cached]
  <2>1. [size |-> 0, uid |-> Daemon, ver |-> 1] \in Cached
    BY <1>1 DEF Cached, Attr
  <2>2. cache = [o \in Obj |-> cache[o]]
    BY DEF Init
  <2> QED
    BY <1>5, <2>1, <2>2
<1>7. new \in File /\ CreatedOwned
  BY <1>1 DEF Init, NoFile, File, Hows, CreatedOwned
<1>8. acl \in [access : Acls, default : Acls]
  BY DEF Init, Acls
<1>9. job \in [Worker -> Job] /\ \A w \in Worker : job[w] = Idle
  BY IdleJob DEF Init
<1>10. TypeOK
  BY <1>4, <1>6, <1>7, <1>8, <1>9 DEF TypeOK, Init
<1>11. \A o \in Obj : cache[o].ver <= Len(log[o])
  BY <1>4, <1>5
<1>12. ASSUME NEW w \in Worker
       PROVE  Fine(w)
  <2>1. Where(w) /\ Told(w)
    BY <1>9, IdleFields, Zenon DEF Where, Told
  <2>2. Agrees(w) /\ Shown(w)
    BY <1>4, <1>9, IdleFields DEF Agrees, Shown, Ok, At, Obj, SizeDue
  <2> QED
    BY <2>1, <2>2, Zenon DEF Fine
<1>13. \A w \in Worker : job[w].pc = "idle" /\ ~job[w].mixed
  BY <1>9, IdleFields, Zenon
<1>14. \A o \in Obj : Snapshot(o)
  BY <1>2, <1>3, <1>5 DEF Snapshot
<1>15. Alone /\ AclPlan
  BY <1>13, <1>14 DEF Alone, AclPlan, At
<1> QED
  BY <1>7, <1>10, <1>11, <1>12, <1>15 DEF Base

\* Every step of the workers and of other clients preserves it.
LEMMA NextHolds == IInv /\ [Next]_vars => IInv'
<1> SUFFICES ASSUME Base, [Next]_vars
             PROVE  Base'
  <2>1. IInv => Base
    BY InvBase
  <2>2. Base' => IInv'
    BY InvBase, PTL
  <2> QED
    BY <2>1, <2>2
<1>1. TypeOK
  BY DEF Base
<1>2. ASSUME NEW w \in Worker,
             \/ \E op \in load.ops, o \in Obj, v \in load.sizes, u \in Uid, how \in Hows :
                  Start(w, op, o, v, u, how)
             \/ Work(w) \/ Finish(w)
      PROVE  Base'
  <2>1. Frame(w) /\ Fine(w)'
    BY <1>2, WorkerStep
  <2>2. TypeOK' /\ Around /\ \A x \in Worker \ {w} : Rely(x)
    BY <2>1 DEF Frame
  <2>3. \A x \in Worker : Fine(x)'
    BY <2>1, <2>2, OthersStep
  <2>4. /\ cache' = cache \/ UpdateSize(w) \/ UpdateRest(w) \/ Claim(w)
        /\ new' = new \/ CallCreate(w)
    <3>1. CASE Work(w)
      BY <1>1, <3>1, WorkEffect DEF Effect
    <3>2. ASSUME NEW op, NEW o, NEW v, NEW u, NEW how, Start(w, op, o, v, u, how)
          PROVE  cache' = cache /\ new' = new
      BY <3>2 DEF Start
    <3>3. Finish(w) => cache' = cache /\ new' = new
      BY DEF Finish
    <3> QED
      BY <1>2, <3>1, <3>2, <3>3, Zenon
  <2>5. \A o \in Obj : cache'[o].ver <= Len(log'[o])
    BY <2>2, <2>4, VersionStep
  <2>6. Alone'
    BY <1>2, <2>1, AloneNext
  <2>7. AclPlan'
    BY <1>2, <2>1, AclStep
  <2>8. CreatedOwned'
    BY <2>4, OwnedStep
  <2> QED
    BY <2>2, <2>3, <2>5, <2>6, <2>7, <2>8, Zenon DEF Base
<1>3. ASSUME \/ \E o \in Obj, a \in Attr : OtherChange(o, a)
             \/ \E v \in {"number", "another"} : OtherCreate(v)
      PROVE  Base'
  <2>1. /\ TypeOK' /\ Around /\ UNCHANGED <<cache, job, acl>> /\ \A x \in Worker : Rely(x)
        /\ single' = single
    BY <1>1, <1>3, OtherStep DEF Around
  <2>2. \A x \in Worker : Fine(x)'
    BY <2>1, OthersStep
  <2>3. \A o \in Obj : cache'[o].ver <= Len(log'[o])
    BY <2>1, VersionStep
  <2>4. \A o \in Obj : Snapshot(o) => Snapshot(o)'
    BY <2>1, SnapshotKept
  <2>5. Alone'
    BY <2>1, <2>4, Zenon DEF Base, Alone, At
  <2>6. AclPlan'
    BY <2>1 DEF Base, AclPlan
  <2>7. CreatedOwned'
    <3>1. new' = new \/ new'.owner = new'.caller
      BY <1>3, Zenon DEF OtherChange, OtherCreate, NoFile
    <3> QED
      BY <3>1 DEF Base, CreatedOwned
  <2> QED
    BY <2>1, <2>2, <2>3, <2>5, <2>6, <2>7 DEF Base
<1>4. CASE UNCHANGED vars
  <2>1. /\ UNCHANGED <<single, load, log, acl, new, cache, job>>
    BY <1>4 DEF vars
  <2>2. LogGrows
    BY <1>1, <2>1, LogSame
  <2>3. TypeOK' /\ Around /\ \A x \in Worker : Rely(x)
    BY <1>1, <2>1, <2>2 DEF TypeOK, Around, Rely, Kept
  <2>4. \A x \in Worker : Fine(x)'
    BY <2>3, OthersStep
  <2>5. \A o \in Obj : Snapshot(o) => Snapshot(o)'
    BY <2>1, Zenon DEF Snapshot
  <2>6. Alone' /\ AclPlan' /\ CreatedOwned'
    BY <2>1, <2>5 DEF Base, Alone, AclPlan, CreatedOwned, At
  <2> QED
    BY <2>1, <2>3, <2>4, <2>6 DEF Base
<1> QED
  BY <1>2, <1>3, <1>4 DEF Next

\* The inductive invariant of the attribute cache holds for any number of workers,
\* any sizes, chunks and numbers of changes, and any mixture of requests.
THEOREM Invariance == Spec => []IInv
  BY InitHolds, NextHolds, PTL DEF Spec

-----------------------------------------------------------------------------
(* What follows from it *)

\* Every handler replies exactly once, but for the exceptions that RepliedOnce names.
THEOREM HandlersReplyOnce == Spec => []RepliedOnce
<1>1. IInv => RepliedOnce
  BY DEF IInv
<1> QED
  BY <1>1, Invariance, PTL

\* The reply tells what the server did, but for the exceptions that OutcomeTold names.
THEOREM RepliesTellOutcome == Spec => []OutcomeTold
<1>1. IInv => OutcomeTold
  BY DEF IInv
<1> QED
  BY <1>1, Invariance, PTL

\* Attributes that are replied, and with one worker those that are cached, are ones
\* that the server had all at once.
THEOREM AttributesAreReal == Spec => []AttributesReal
<1>1. IInv => AttributesReal
  <2> SUFFICES ASSUME IInv
               PROVE  RepliedReal /\ SnapshotAlone
    BY DEF AttributesReal
  <2>1. ASSUME single, \A w \in Worker : job[w].pc \in {"idle", "done"}, NEW o \in Obj
        PROVE  Snapshot(o)
    BY <2>1 DEF IInv, Alone, At
  <2>2. SnapshotAlone
    BY <2>1 DEF SnapshotAlone, Snapshot
  <2> QED
    BY <2>2 DEF IInv
<1> QED
  BY <1>1, Invariance, PTL

\* A size that is reported as set was set after the request, unless hsi_nfs_setattr
\* dropped it by a stale inode.
THEOREM SizesAreSet == Spec => []SizeSetUnlessStale
<1>1. IInv => SizeSetUnlessStale
  BY DEF IInv
<1> QED
  BY <1>1, Invariance, PTL

\* A created file is the caller's, and an O_EXCL one has the verifier of the directory.
THEOREM CreatedIsRight == Spec => []CreatedRight
<1>1. IInv => CreatedRight
  BY DEF IInv, CreatedRight, ExclusiveVerified, Agrees
<1> QED
  BY <1>1, Invariance, PTL

\* The read and write loops transfer a prefix without a gap, all of it for a write.
THEOREM TransfersAreExact == Spec => []TransferExact
<1>1. IInv => TransferExact
  BY DEF IInv
<1> QED
  BY <1>1, Invariance, PTL

\* With one worker setxattr of one ACL of a directory puts the old value of that one
\* into the other.
THEOREM AclsAreCrossed == Spec => AclsCrossedAlone
<1> DEFINE Crossed ==
             acl' # acl /\ single =>
               \E w \in Worker :
                 /\ job[w].pc = "setacl"
                 /\ acl'[job[w].type] \in {"given", "from_mode", "empty"}
                 /\ job[w].did \/ acl'[Other(job[w].type)] = acl[job[w].type]
<1>1. IInv /\ [Next]_vars => [Crossed]_vars
  <2> SUFFICES ASSUME IInv, [Next]_vars, acl' # acl, single
               PROVE  \E w \in Worker :
                        /\ job[w].pc = "setacl"
                        /\ acl'[job[w].type] \in {"given", "from_mode", "empty"}
                        /\ job[w].did \/ acl'[Other(job[w].type)] = acl[job[w].type]
    BY Zenon
  <2>1. TypeOK /\ AclPlan
    BY DEF IInv
  <2>2. PICK w \in Worker : SetAcl(w)
    <3>1. ~UNCHANGED vars
      BY Zenon DEF vars
    <3>2. ASSUME NEW w \in Worker, Work(w)
          PROVE  SetAcl(w)
      <4>1. Effect(w)
        BY <2>1, <3>2, WorkEffect
      <4> QED
        BY <4>1, Zenon DEF Effect, GetAcl
    <3>3. ASSUME NEW w, NEW op, NEW o, NEW v, NEW u, NEW how, Start(w, op, o, v, u, how)
          PROVE  acl' = acl
      BY <3>3 DEF Start
    <3>4. ASSUME NEW w, Finish(w)
          PROVE  acl' = acl
      BY <3>4 DEF Finish
    <3>5. ASSUME \/ \E o \in Obj, a \in Attr : OtherChange(o, a)
                 \/ \E v \in {"number", "another"} : OtherCreate(v)
          PROVE  acl' = acl
      BY <3>5, Zenon DEF OtherChange, OtherCreate
    <3> QED
      BY <3>1, <3>2, <3>3, <3>4, <3>5, Zenon DEF Next
  <2>3. job[w].pc = "setacl" /\ job[w].o = "dir" /\ acl' = job[w].acl
    <3> DEFINE j == [job[w] EXCEPT !.did = TRUE, !.rpc = TRUE]
    <3>1. job[w] \in Job
      BY <2>1, JobType
    <3>2. j.o = job[w].o /\ j.acl = job[w].acl
      BY <3>1 DEF Job
    <3>3. job[w].pc = "setacl" /\ j.o = "dir" /\ acl' = j.acl
      BY <2>2 DEF SetAcl, At, Refuse
    <3> QED
      BY <3>2, <3>3
  <2> QED
    BY <2>1, <2>3 DEF AclPlan
<1> QED
  BY <1>1, Invariance, PTL DEF Spec, AclsCrossedAlone

=============================================================================
