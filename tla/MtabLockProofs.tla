--------------------------- MODULE MtabLockProofs ---------------------------
(***************************************************************************)
(* Proofs about MtabLock, for any number of processes, mount points,       *)
(* tries, signals and kills.                                               *)
(***************************************************************************)
EXTENDS MtabLock, SequenceTheorems, TLAPS

-----------------------------------------------------------------------------
(* Types *)

\* The chain that update_mtab writes is a list of entries.
LEMMA UpdatedType ==
  ASSUME NEW s \in Seq(Entry), NEW o \in Op, NEW p \in Proc
  PROVE  Updated(s, o, p) \in Seq(Entry)
<1> DEFINE e == [dir |-> o.dir, opts |-> p]
<1>1. e \in Entry
  BY DEF Entry, Op
<1>2. CASE Last(s, o.dir) = {}
  BY <1>1, <1>2 DEF Updated
<1>3. CASE Last(s, o.dir) # {}
  <2> DEFINE i == CHOOSE j \in Last(s, o.dir) : TRUE
  <2>1. i \in DOMAIN s /\ i \in 1 .. Len(s)
    BY <1>3 DEF Last
  <2>2. [s EXCEPT ![i] = e] \in Seq(Entry)
    BY <1>1, <2>1, ExceptSeq
  <2>3. SubSeq(s, 1, i - 1) \o SubSeq(s, i + 1, Len(s)) \in Seq(Entry)
    <3> HIDE DEF i
    <3>a. \A j \in 1 .. Len(s) : s[j] \in Entry
      BY ElementOfSeq
    <3>0. /\ i - 1 \in Int /\ i + 1 \in Int /\ Len(s) \in Int
          /\ \A j \in 1 .. i - 1 : s[j] \in Entry
          /\ \A j \in i + 1 .. Len(s) : s[j] \in Entry
      BY <2>1, <3>a
    <3>1. SubSeq(s, 1, i - 1) \in Seq(Entry)
      BY <3>0, SubSeqProperties
    <3>2. SubSeq(s, i + 1, Len(s)) \in Seq(Entry)
      BY <3>0, SubSeqProperties
    <3> QED BY <3>1, <3>2, ConcatProperties
  <2> QED BY <1>3, <2>2, <2>3 DEF Updated
<1> QED BY <1>2, <1>3

\* The first lines of a file, which is what a read or a write that fails leaves
\* of it, are a list of entries.
LEMMA PrefixType ==
  ASSUME NEW s \in Seq(Entry), NEW n \in 0 .. Len(s)
  PROVE  SubSeq(s, 1, n) \in Seq(Entry)
<1>1. \A j \in 1 .. Len(s) : s[j] \in Entry
  BY ElementOfSeq
<1>2. n \in Int /\ \A j \in 1 .. n : s[j] \in Entry
  BY <1>1
<1> QED BY <1>2, SubSeqProperties

\* close(2) leaves the POSIX locks with processes.
LEMMA DropType ==
  ASSUME flk \in [Proc -> Proc \cup {None}], NEW p \in Proc, Drop(p)
  PROVE  flk' \in [Proc -> Proc \cup {None}]
  BY DEF Drop

\* Every process keeps its fields in range; the tries are bounded as in lock_mtab.
LEMMA TypeStep ==
  ASSUME TypeOK, Rounds, NEW p \in Proc, Step(p) PROVE TypeOK' /\ Rounds'
<1> USE DEF Gone, PCs, Critical
<1>0. MaxTries \in Nat
  BY MtabAssumption
<1>1. CASE Begin(p)
  BY <1>1, Zenon DEF Begin, Goto, TypeOK, Rounds, files, faults
<1>2. CASE Link(p)
  BY <1>2, Zenon DEF Link, Goto, TypeOK, Rounds, files, faults
<1>3. CASE SetFlag(p)
  BY <1>3 DEF SetFlag, Goto, TypeOK, Rounds, files, faults
<1>4. CASE Open(p)
  <2>1. flk' \in [Proc -> Proc \cup {None}]
    BY <1>4, DropType DEF Open, Die, TypeOK
  <2>2. fd' \in [Proc -> Proc \cup {None}] /\ noent' \in [Proc -> 0 .. MaxTries]
    <3>1. noent[p] \in 0 .. MaxTries /\ noent \in [Proc -> 0 .. MaxTries]
      BY DEF TypeOK
    <3>2. noent[p] < MaxTries => noent[p] + 1 \in 0 .. MaxTries
      BY <1>0, <3>1
    <3>3. UNCHANGED noent \/ (noent[p] < MaxTries /\ noent' = [noent EXCEPT ![p] = noent[p] + 1])
      BY <1>4 DEF Open
    <3>4. noent' \in [Proc -> 0 .. MaxTries]
      BY <3>1, <3>2, <3>3
    <3>5. fd' \in [Proc -> Proc \cup {None}]
      BY <1>4, Zenon DEF Open, TypeOK
    <3> QED BY <3>4, <3>5
  <2>3. pc' \in [Proc -> PCs] /\ Rounds'
    BY <1>4, Zenon DEF Open, Die, Goto, TypeOK, Rounds
  <2> QED BY <1>4, <2>1, <2>2, <2>3 DEF Open, TypeOK, files, faults
<1>5. CASE Claim(p)
  BY <1>5, Zenon DEF Claim, Goto, TypeOK, Rounds, files, faults
<1>6. CASE Wait(p)
  <2>1. flk' \in [Proc -> Proc \cup {None}]
    BY <1>6, DropType, Zenon DEF Wait, Die, TypeOK
  <2>2. pc' \in [Proc -> PCs] /\ Rounds'
    BY <1>6, Zenon DEF Wait, Die, Goto, TypeOK, Rounds
  <2> QED BY <1>6, <2>1, <2>2, Zenon DEF Wait, TypeOK, files, faults
<1>7. CASE Waited(p)
  <2>1. flk' \in [Proc -> Proc \cup {None}] /\ fd' \in [Proc -> Proc \cup {None}]
    BY <1>7, DropType DEF Waited, TypeOK
  <2>2. waits[p] \in 0 .. MaxTries /\ waits' = [waits EXCEPT ![p] = @ + 1]
    <3>1. waits[p] \in 0 .. MaxTries + 1
      BY DEF TypeOK
    <3>2. waits[p] <= MaxTries
      BY <1>7 DEF Waited, Rounds
    <3> QED BY <1>0, <1>7, <3>1, <3>2 DEF Waited
  <2>3. waits' \in [Proc -> 0 .. MaxTries + 1]
    BY <1>0, <2>2 DEF TypeOK
  <2>4. pc' \in [Proc -> PCs]
    BY <1>7 DEF Waited, Goto, TypeOK
  <2>5. Rounds'
    BY <1>0, <1>7, <2>2 DEF Waited, Stale, Goto, TypeOK, Rounds
  <2> QED BY <1>7, <2>1, <2>3, <2>4, <2>5 DEF Waited, TypeOK, files, faults
<1>8. CASE Enter(p)
  <2>0. op[p] \in Op /\ mtab \in Seq(Entry) /\ serial \in Seq(Entry) /\ chain \in [Proc -> Seq(Entry)]
    BY DEF TypeOK
  <2>1. \A s \in Seq(Entry) : op[p].kind = "add" => Applied(s, op[p], p) \in Seq(Entry)
    <3>1. [dir |-> op[p].dir, opts |-> p] \in Entry
      BY <2>0 DEF Op, Entry
    <3> QED BY <3>1, AppendProperties DEF Applied
  <2>2. \A n \in 0 .. Len(mtab) : Updated(SubSeq(mtab, 1, n), op[p], p) \in Seq(Entry)
    <3> SUFFICES ASSUME NEW n \in 0 .. Len(mtab)
                 PROVE  Updated(SubSeq(mtab, 1, n), op[p], p) \in Seq(Entry)
      OBVIOUS
    <3>3. SubSeq(mtab, 1, n) \in Seq(Entry)
      BY <2>0, PrefixType, Zenon
    <3> QED BY <2>0, <3>3, UpdatedType, Zenon
  <2>3. /\ mtab' \in Seq(Entry) /\ serial' \in Seq(Entry) /\ chain' \in [Proc -> Seq(Entry)]
        /\ cut' \in BOOLEAN /\ torn' \in BOOLEAN
    <3>1. CASE Add(p)
      BY <2>0, <2>1, <3>1, Zenon DEF Add, TypeOK
    <3>2. CASE Read(p)
      <4>1. chain' \in [Proc -> Seq(Entry)]
        BY <2>0, <2>2, <3>2, Zenon DEF Read
      <4>2. cut' \in BOOLEAN
        BY <3>2, Zenon DEF Read, TypeOK
      <4> QED BY <3>2, <4>1, <4>2, Zenon DEF Read, TypeOK
    <3>3. CASE UNCHANGED files
      BY <3>3 DEF TypeOK, files
    <3> QED BY <1>8, <3>1, <3>2, <3>3 DEF Enter
  <2>4. pc' \in [Proc -> PCs] /\ Rounds'
    BY <1>8, Zenon DEF Enter, Goto, TypeOK, Rounds
  <2> QED BY <1>8, <2>3, <2>4 DEF Enter, TypeOK, faults
<1>9. CASE Write(p)
  <2>0. op[p] \in Op /\ serial \in Seq(Entry) /\ chain \in [Proc -> Seq(Entry)] /\ mtab \in Seq(Entry)
    BY DEF TypeOK
  <2>1. Applied(serial, op[p], p) \in Seq(Entry)
    <3>1. [dir |-> op[p].dir, opts |-> p] \in Entry
      BY <2>0 DEF Op, Entry
    <3> QED BY <2>0, <3>1, AppendProperties, UpdatedType DEF Applied
  <2>a. ASSUME Replace(p)
        PROVE  /\ mtab' \in Seq(Entry) /\ serial' \in Seq(Entry) /\ chain' \in [Proc -> Seq(Entry)]
               /\ cut' \in BOOLEAN /\ torn' \in BOOLEAN
    <3>1. \A n \in 0 .. Len(chain[p]) - 1 : SubSeq(chain[p], 1, n) \in Seq(Entry)
      <4>1. chain[p] \in Seq(Entry) /\ Len(chain[p]) \in Nat
        BY <2>0
      <4>2. \A n \in 0 .. Len(chain[p]) - 1 : n \in 0 .. Len(chain[p])
        BY <4>1
      <4> QED BY <4>1, <4>2, PrefixType, Zenon
    <3>2. mtab' \in Seq(Entry) /\ torn' \in BOOLEAN /\ cut' \in BOOLEAN
      BY <2>0, <2>a, <3>1, Zenon DEF Replace, TypeOK
    <3>3. serial' \in Seq(Entry) /\ chain' \in [Proc -> Seq(Entry)]
      BY <2>0, <2>1, <2>a, EmptySeq, Zenon DEF Replace
    <3> QED BY <3>2, <3>3
  <2>2. /\ mtab' \in Seq(Entry) /\ serial' \in Seq(Entry) /\ chain' \in [Proc -> Seq(Entry)]
        /\ cut' \in BOOLEAN /\ torn' \in BOOLEAN
    BY <1>9, <2>0, <2>a, Zenon DEF Write, files, TypeOK
  <2>3. pc' \in [Proc -> PCs] /\ Rounds'
    BY <1>9 DEF Write, Goto, TypeOK, Rounds
  <2> QED BY <1>9, <2>2, <2>3, Zenon DEF Write, TypeOK, faults
<1>10. CASE Close(p)
  <2>1. flk' \in [Proc -> Proc \cup {None}]
    BY <1>10, DropType DEF Close, TypeOK
  <2> QED BY <1>10, <2>1, Zenon DEF Close, Goto, TypeOK, Rounds, files, faults
<1>11. CASE Unlink(p)
  BY <1>11 DEF Unlink, Goto, TypeOK, Rounds, files, faults
<1>12. CASE ClearFlag(p)
  BY <1>12 DEF ClearFlag, Goto, TypeOK, Rounds, files, faults
<1> QED BY <1>1, <1>2, <1>3, <1>4, <1>5, <1>6, <1>7, <1>8, <1>9, <1>10, <1>11, <1>12 DEF Step

\* So do the handler of a signal and SIGKILL.
LEMMA TypeFault ==
  ASSUME TypeOK, Rounds, NEW p \in Proc, Signal(p) \/ Kill(p) PROVE TypeOK' /\ Rounds'
<1> USE DEF Gone, PCs, Critical
<1>1. MaxSignals \in Nat /\ MaxKills \in Nat
  BY MtabAssumption
<1>2. flk' \in [Proc -> Proc \cup {None}]
  BY DropType DEF Signal, Kill, TypeOK
<1>3. CASE Signal(p)
  <2>1. pc' \in [Proc -> PCs] /\ Rounds'
    BY <1>3 DEF Signal, Goto, TypeOK, Rounds
  <2>2. signals' \in 0 .. MaxSignals
    BY <1>1, <1>3 DEF Signal, TypeOK
  <2> QED BY <1>2, <1>3, <2>1, <2>2, Zenon DEF Signal, TypeOK, files
<1>4. CASE Kill(p)
  <2>1. pc' \in [Proc -> PCs] /\ Rounds'
    BY <1>4 DEF Kill, Goto, TypeOK, Rounds
  <2>2. kills' \in 0 .. MaxKills
    BY <1>1, <1>4 DEF Kill, TypeOK
  <2> QED BY <1>2, <1>4, <2>1, <2>2 DEF Kill, TypeOK, files
<1> QED BY <1>3, <1>4

-----------------------------------------------------------------------------
(* The lock *)

Lock == FlagSet /\ Linked /\ Kept

\* A process that moves without touching the lock file.
LEMMA LockMove ==
  ASSUME Lock, NEW p \in Proc, UNCHANGED lockf,
         \A q \in Proc \ {p} : pc'[q] = pc[q] /\ made'[q] = made[q] /\ flag'[q] = flag[q],
         pc[p] # "late",
         pc'[p] \notin Gone => (flag'[p] <=> Holding(p)' \/ pc'[p] = "clear"),
         pc'[p] = "made" => made'[p],
         lockf = p => Holding(p)' \/ pc'[p] \in {"made", "early", "killed"},
         NoLate /\ (Holding(p)' \/ pc'[p] = "made") => lockf = p
  PROVE  Lock'
<1>1. \A q \in Proc \ {p} : Holding(q)' <=> Holding(q)
  BY DEF Holding
<1>2. NoLate' => NoLate
  BY DEF NoLate
<1>3. FlagSet'
  BY <1>1 DEF Lock, FlagSet
<1>4. Linked'
  BY <1>1 DEF Lock, Linked
<1>5. Kept'
  BY <1>1, <1>2 DEF Lock, Kept
<1> QED BY <1>3, <1>4, <1>5 DEF Lock

\* The steps of lock_mtab, of the work on mtab and of unlock_mtab.
LEMMA LockStep ==
  ASSUME TypeOK, Lock, NEW p \in Proc, Step(p) PROVE Lock'
<1> USE DEF Holding, Critical, Gone
<1>0. /\ pc \in [Proc -> PCs] /\ made \in [Proc -> BOOLEAN] /\ flag \in [Proc -> BOOLEAN]
      /\ pc[p] \notin Gone => (flag[p] <=> Holding(p) \/ pc[p] = "clear")
      /\ pc[p] = "made" => made[p]
      /\ lockf = p => Holding(p) \/ pc[p] \in {"made", "early", "killed"}
      /\ NoLate /\ (Holding(p) \/ pc[p] = "made") => lockf = p
  BY DEF TypeOK, Lock, FlagSet, Linked, Kept
<1>1. CASE Begin(p)
  BY <1>0, <1>1, LockMove DEF Begin, Goto
<1>2. CASE Link(p)
  <2>1. CASE lockf = None /\ lockf' = p /\ made' = [made EXCEPT ![p] = TRUE] /\ Goto(p, "made")
    <3>1. /\ pc[p] = "link" /\ pc'[p] = "made" /\ made'[p] /\ UNCHANGED flag
          /\ \A q \in Proc \ {p} : pc'[q] = pc[q] /\ made'[q] = made[q]
      BY <1>0, <1>2, <2>1 DEF Link, Goto
    <3>2. FlagSet'
      BY <1>0, <3>1 DEF Lock, FlagSet
    <3>3. Linked'
      BY <2>1, <3>1 DEF Linked
    <3>4. Kept'
      <4> SUFFICES ASSUME NoLate', NEW q \in Proc, Holding(q)' \/ pc'[q] = "made" PROVE q = p
        BY <2>1 DEF Kept
      <4>1. NoLate
        BY <3>1 DEF NoLate
      <4> QED BY <2>1, <3>1, <4>1, MtabAssumption DEF Lock, Kept
    <3> QED BY <3>2, <3>3, <3>4 DEF Lock
  <2>2. CASE UNCHANGED lockf /\ UNCHANGED flag /\ Goto(p, "died") /\ UNCHANGED made
    BY <1>0, <1>2, <2>2, LockMove DEF Link, Goto
  <2>3. CASE UNCHANGED lockf /\ UNCHANGED flag /\ Goto(p, "open") /\ made' = [made EXCEPT ![p] = FALSE]
    BY <1>0, <1>2, <2>3, LockMove, Zenon DEF Link, Goto
  <2> QED BY <1>2, <2>1, <2>2, <2>3 DEF Link
<1>3. CASE SetFlag(p)
  BY <1>0, <1>3, LockMove, Zenon DEF SetFlag, Goto
<1>4. CASE Open(p)
  <2>1. /\ pc[p] = "open" /\ UNCHANGED <<lockf, made, flag>>
        /\ \A q \in Proc \ {p} : pc'[q] = pc[q]
        /\ \/ lockf # None /\ pc'[p] = IF made[p] THEN "claim" ELSE "wait"
           \/ lockf = None /\ pc'[p] = IF flag[p] THEN "cs" ELSE "link"
           \/ lockf = None /\ pc'[p] = "died"
    BY <1>0, <1>4 DEF Open, Goto, Die
  <2>2. lockf = None => lockf # p
    BY MtabAssumption
  <2> QED BY <1>0, <2>1, <2>2, LockMove
<1>5. CASE Claim(p)
  BY <1>0, <1>5, LockMove DEF Claim, Goto
<1>6. CASE Wait(p)
  BY <1>0, <1>6, LockMove DEF Wait, Goto, Die
<1>7. CASE Waited(p)
  BY <1>0, <1>7, LockMove DEF Waited, Goto
<1>8. CASE Enter(p)
  BY <1>0, <1>8, LockMove DEF Enter, Goto
<1>9. CASE Write(p)
  BY <1>0, <1>9, LockMove DEF Write, Goto
<1>10. CASE Close(p)
  BY <1>0, <1>10, LockMove DEF Close, Goto
<1>11. CASE Unlink(p)
  <2>1. /\ pc[p] = "unlink" /\ pc'[p] = "clear" /\ lockf' = None /\ UNCHANGED <<flag, made>>
        /\ \A q \in Proc \ {p} : pc'[q] = pc[q]
    BY <1>0, <1>11 DEF Unlink, Goto
  <2>2. FlagSet' /\ Linked'
    BY <1>0, <2>1, MtabAssumption DEF Lock, FlagSet, Linked
  <2>3. NoLate' => NoLate
    BY <2>1 DEF NoLate
  <2>4. Kept'
    BY <1>0, <2>1, <2>3 DEF Lock, Kept
  <2> QED BY <2>2, <2>4 DEF Lock
<1>12. CASE ClearFlag(p)
  BY <1>0, <1>12, LockMove, Zenon DEF ClearFlag, Goto
<1> QED BY <1>1, <1>2, <1>3, <1>4, <1>5, <1>6, <1>7, <1>8, <1>9, <1>10, <1>11, <1>12 DEF Step

\* A signal or a kill, at any point.
LEMMA LockFault ==
  ASSUME TypeOK, Lock, NEW p \in Proc, Signal(p) \/ Kill(p) PROVE Lock'
<1> USE DEF Holding, Critical, Gone
<1>0. /\ pc \in [Proc -> PCs] /\ made \in [Proc -> BOOLEAN] /\ flag \in [Proc -> BOOLEAN]
      /\ pc[p] \notin Gone => (flag[p] <=> Holding(p) \/ pc[p] = "clear")
      /\ lockf = p => Holding(p) \/ pc[p] \in {"made", "early", "killed"}
      /\ NoLate /\ (Holding(p) \/ pc[p] = "made") => lockf = p
  BY DEF TypeOK, Lock, FlagSet, Linked, Kept
<1>1. CASE Kill(p)
  BY <1>0, <1>1, LockMove DEF Kill, Goto
<1>2. CASE Signal(p)
  <2>1. /\ pc[p] \notin Gone /\ UNCHANGED made
        /\ lockf' = IF flag[p] THEN None ELSE lockf
        /\ pc'[p] = CASE pc[p] = "made" -> "early" [] pc[p] = "clear" -> "late"
                         [] OTHER -> "signalled"
        /\ \A q \in Proc \ {p} : pc'[q] = pc[q] /\ flag'[q] = flag[q]
    BY <1>0, <1>2 DEF Signal, Goto
  <2>2. CASE ~flag[p]
    BY <1>0, <2>1, <2>2, LockMove
  <2>3. CASE flag[p]
    <3>1. FlagSet'
      BY <1>0, <2>1, <2>3 DEF Lock, FlagSet
    <3>2. Linked'
      BY <2>1, <2>3, MtabAssumption DEF Linked
    <3>3. Kept'
      <4> SUFFICES ASSUME NoLate', NEW q \in Proc, Holding(q)' \/ pc'[q] = "made" PROVE FALSE
        BY DEF Kept
      <4>1. NoLate /\ pc[p] # "clear"
        BY <2>1 DEF NoLate
      <4>2. lockf = p
        BY <1>0, <2>1, <2>3, <4>1
      <4>3. q # p
        BY <2>1
      <4> QED BY <2>1, <4>1, <4>2, <4>3 DEF Lock, Kept
    <3> QED BY <3>1, <3>2, <3>3 DEF Lock
  <2> QED BY <1>0, <2>2, <2>3
<1> QED BY <1>1, <1>2

-----------------------------------------------------------------------------
(* The file *)

Files == TornIsCut /\ Pending /\ NoLostUpdate

\* A step that leaves the files alone and does not reach the write.
LEMMA FilesMove ==
  ASSUME TypeOK, Files, NEW p \in Proc, NEW l, Goto(p, l), UNCHANGED <<op, files>>,
         pc[p] \notin Gone, l # "write"
  PROVE  Files'
<1>1. NoLate' => NoLate
  BY DEF Goto, NoLate, Gone, TypeOK
<1>2. \A q \in Proc : pc'[q] = "write" => pc[q] = "write"
  BY DEF Goto, TypeOK
<1>3. Pending'
  BY <1>1, <1>2 DEF Files, Pending, files
<1>4. NoLostUpdate'
  BY <1>1 DEF Files, NoLostUpdate, NoLate, files
<1>5. TornIsCut'
  BY DEF Files, TornIsCut, files
<1> QED BY <1>3, <1>4, <1>5 DEF Files

\* Only the process that made the lock file works on mtab, so what another one
\* is about to write stays what its update makes of the file.
LEMMA FilesStep ==
  ASSUME TypeOK, Lock, Files, NEW p \in Proc, Step(p) PROVE Files'
<1>1. CASE Begin(p) \/ Link(p) \/ SetFlag(p) \/ Claim(p) \/ Waited(p) \/ Close(p) \/ Unlink(p) \/ ClearFlag(p)
  <2>1. \E l : Goto(p, l) /\ l # "write"
    BY <1>1 DEF Begin, Link, SetFlag, Claim, Waited, Close, Unlink, ClearFlag
  <2>2. UNCHANGED <<op, files>> /\ pc[p] \notin Gone
    BY <1>1 DEF Begin, Link, SetFlag, Claim, Waited, Close, Unlink, ClearFlag, Gone
  <2> QED BY <2>1, <2>2, FilesMove
<1>2. CASE Open(p) \/ Wait(p)
  <2>1. \E l : Goto(p, l) /\ l # "write"
    BY <1>2 DEF Open, Wait, Die
  <2>2. UNCHANGED <<op, files>> /\ pc[p] \notin Gone
    BY <1>2 DEF Open, Wait, Gone
  <2> QED BY <2>1, <2>2, FilesMove
<1>3. ASSUME pc[p] \in Critical, NoLate, NEW q \in Proc, pc[q] = "write" PROVE q = p
  BY <1>3 DEF Lock, Kept, Holding, Critical
<1>4. CASE Enter(p)
  <2>0. pc[p] = "cs" /\ pc[p] \in Critical /\ UNCHANGED op
    BY <1>4 DEF Enter, Critical
  <2>1. CASE Add(p) /\ Goto(p, "close")
    <3>1. NoLate' => NoLate
      BY <2>0, <2>1 DEF Goto, NoLate, TypeOK
    <3>2. \A q \in Proc : pc'[q] = "write" => pc[q] = "write" /\ q # p
      BY <2>0, <2>1 DEF Goto, TypeOK
    <3>3. UNCHANGED chain /\ (cut => cut')
      BY <2>1 DEF Add
    <3>4. Pending'
      BY <1>3, <2>0, <3>1, <3>2, <3>3 DEF Files, Pending
    <3>5. \/ cut'
          \/ UNCHANGED cut /\ ~torn' /\ serial' = Applied(serial, op[p], p)
             /\ mtab' = IF torn THEN mtab ELSE Applied(mtab, op[p], p)
      BY <2>1 DEF Add
    <3>6. TornIsCut'
      BY <3>5 DEF TornIsCut
    <3>7. ~cut /\ NoLate => mtab = serial /\ ~torn
      BY DEF Files, NoLostUpdate, NoLate, TornIsCut
    <3>8. NoLostUpdate'
      BY <3>1, <3>5, <3>7 DEF NoLostUpdate, NoLate
    <3> QED BY <3>4, <3>6, <3>8 DEF Files
  <2>2. CASE Read(p) /\ Goto(p, "write")
    <3>a. op[p].kind # "add" /\ UNCHANGED <<mtab, torn, serial>>
      BY <2>2 DEF Read
    <3>0. PICK n \in 0 .. Len(mtab) :
                  /\ chain' = [chain EXCEPT ![p] = Updated(SubSeq(mtab, 1, n), op[p], p)]
                  /\ cut' = (cut \/ n < Len(mtab))
      BY <2>2, Zenon DEF Read
    <3>1. NoLate' => NoLate
      BY <2>0, <2>2 DEF Goto, NoLate, TypeOK
    <3>2. \A q \in Proc : pc'[q] = "write" /\ q # p => pc[q] = "write" /\ chain'[q] = chain[q]
      BY <2>2, <3>0 DEF Goto, TypeOK
    <3>3. ~cut' => ~cut /\ n = Len(mtab)
      <4>1. mtab \in Seq(Entry) /\ Len(mtab) \in Nat
        BY DEF TypeOK
      <4>2. ~(n < Len(mtab)) => n = Len(mtab)
        BY <4>1
      <4> QED BY <3>0, <4>2, Zenon
    <3>4. ~cut' => chain'[p] = Updated(mtab, op[p], p)
      <4>1. mtab \in Seq(Entry) /\ chain'[p] = Updated(SubSeq(mtab, 1, n), op[p], p)
        BY <3>0 DEF TypeOK
      <4>2. SubSeq(mtab, 1, Len(mtab)) = mtab
        BY <4>1, SubSeqFull
      <4> QED BY <3>3, <4>1, <4>2, Zenon
    <3>5. Pending'
      <4> SUFFICES ASSUME NEW q \in Proc, pc'[q] = "write"
                   PROVE  /\ op[q].kind # "add"
                          /\ ~cut' /\ NoLate' => chain'[q] = Updated(mtab, op[q], q)
        BY <2>0, <3>a DEF Pending
      <4>1. CASE q = p
        BY <3>a, <3>4, <4>1
      <4>2. CASE q # p
        BY <3>1, <3>2, <3>3, <4>2 DEF Files, Pending
      <4> QED BY <4>1, <4>2
    <3>6. NoLostUpdate' /\ TornIsCut'
      BY <3>a, <3>1, <3>3 DEF Files, NoLostUpdate, NoLate, TornIsCut
    <3> QED BY <3>5, <3>6 DEF Files
  <2>3. CASE Goto(p, "close") /\ UNCHANGED files
    BY <2>0, <2>3, FilesMove DEF Gone
  <2> QED BY <1>4, <2>1, <2>2, <2>3 DEF Enter
<1>5. CASE Write(p)
  <2>0. pc[p] = "write" /\ pc[p] \in Critical /\ UNCHANGED op /\ Goto(p, "close")
    BY <1>5 DEF Write, Critical
  <2>1. CASE Replace(p)
    <3>0. /\ serial' = Applied(serial, op[p], p) /\ chain' = [chain EXCEPT ![p] = <<>>]
          /\ (mtab' = chain[p] /\ ~torn' /\ UNCHANGED cut) \/ cut'
      BY <2>1, Zenon DEF Replace
    <3>1. NoLate' => NoLate
      BY <2>0 DEF Goto, NoLate, TypeOK
    <3>2. \A q \in Proc : pc'[q] = "write" => pc[q] = "write" /\ q # p
      BY <2>0 DEF Goto, TypeOK
    <3>3. Pending'
      BY <1>3, <2>0, <3>0, <3>1, <3>2 DEF Files, Pending
    <3>4. op[p].kind # "add" /\ (~cut /\ NoLate => chain[p] = Updated(mtab, op[p], p))
      BY <2>0 DEF Files, Pending
    <3>5. ~cut /\ NoLate => mtab = serial
      BY DEF Files, NoLostUpdate, NoLate
    <3>6. ~cut' /\ NoLate' => mtab' = serial'
      BY <3>0, <3>1, <3>4, <3>5 DEF Applied
    <3>7. NoLostUpdate' /\ TornIsCut'
      BY <3>0, <3>6, Zenon DEF NoLostUpdate, NoLate, TornIsCut
    <3> QED BY <3>3, <3>7 DEF Files
  <2>2. CASE UNCHANGED files
    BY <2>0, <2>2, FilesMove DEF Gone
  <2> QED BY <1>5, <2>1, <2>2 DEF Write
<1> QED BY <1>1, <1>2, <1>4, <1>5 DEF Step

\* A signal or a kill does not touch mtab.
LEMMA FilesFault ==
  ASSUME TypeOK, Files, NEW p \in Proc, Signal(p) \/ Kill(p) PROVE Files'
<1>1. \E l : Goto(p, l) /\ l # "write"
  BY DEF Signal, Kill
<1>2. UNCHANGED <<op, files>> /\ pc[p] \notin Gone
  BY DEF Signal, Kill
<1> QED BY <1>1, <1>2, FilesMove

-----------------------------------------------------------------------------
(* The invariant and what follows from it *)

\* No process has begun, and mtab is as the last one left it.
LEMMA InitHolds == Init => IInv
<1> SUFFICES ASSUME Init PROVE IInv
  OBVIOUS
<1>0. MaxTries \in Nat /\ MaxSignals \in Nat /\ MaxKills \in Nat /\ None \notin Proc
  BY MtabAssumption
<1>1. mtab \in Seq(Entry)
  <2>1. \A d \in Dir : [dir |-> d, opts |-> None] \in Entry
    BY DEF Entry
  <2>2. \A d \in Dir : <<[dir |-> d, opts |-> None]>> \in Seq(Entry)
    BY <2>1
  <2>3. <<>> \in Seq(Entry)
    OBVIOUS
  <2> QED BY <2>2, <2>3, Zenon DEF Init
<1>2. chain \in [Proc -> Seq(Entry)]
  BY DEF Init
<1>3. 0 \in 0 .. MaxTries /\ 0 \in 0 .. MaxTries + 1 /\ 0 \in 0 .. MaxSignals /\ 0 \in 0 .. MaxKills
  BY <1>0
<1>4. TypeOK
  BY <1>1, <1>2, <1>3, Zenon DEF Init, TypeOK, PCs
<1>5. Rounds
  BY <1>0 DEF Init, Rounds
<1>6. FlagSet /\ Linked /\ Kept
  BY <1>0 DEF Init, FlagSet, Linked, Kept, Holding, Critical, Gone
<1>7. TornIsCut /\ Pending /\ NoLostUpdate
  BY DEF Init, TornIsCut, Pending, NoLostUpdate
<1> QED BY <1>4, <1>5, <1>6, <1>7 DEF IInv

\* Every step of lock_mtab, update_mtab, unlock_mtab and handler keeps the invariant.
LEMMA NextHolds == IInv /\ [Next]_vars => IInv'
<1> SUFFICES ASSUME IInv, [Next]_vars PROVE IInv'
  OBVIOUS
<1>0. TypeOK /\ Rounds /\ Lock /\ Files
  BY DEF IInv, Lock, Files
<1>1. ASSUME NEW p \in Proc, Step(p) PROVE IInv'
  <2>1. TypeOK' /\ Rounds'
    BY <1>0, <1>1, TypeStep
  <2>2. Lock'
    BY <1>0, <1>1, LockStep
  <2>3. Files'
    BY <1>0, <1>1, FilesStep
  <2> QED BY <2>1, <2>2, <2>3 DEF IInv, Lock, Files
<1>2. ASSUME NEW p \in Proc, Signal(p) \/ Kill(p) PROVE IInv'
  <2>1. TypeOK' /\ Rounds'
    BY <1>0, <1>2, TypeFault
  <2>2. Lock'
    BY <1>0, <1>2, LockFault
  <2>3. Files'
    BY <1>0, <1>2, FilesFault
  <2> QED BY <2>1, <2>2, <2>3 DEF IInv, Lock, Files
<1>3. CASE UNCHANGED vars
  BY <1>3 DEF vars, IInv, TypeOK, Rounds, FlagSet, Linked, Kept, TornIsCut, Pending, NoLostUpdate, NoLate,
              Holding
<1> QED BY <1>1, <1>2, <1>3 DEF Next

\* The invariant holds of lock_mtab, unlock_mtab and update_mtab in every run.
THEOREM Invariance == Spec => []IInv
BY InitHolds, NextHolds, PTL DEF Spec

\* Whatever the number of processes, signals and kills, whoever works on mtab
\* made the lock file that is there, unless a signal came between the unlink of
\* unlock_mtab and its reset of we_created_lockfile.
THEOREM Exclusion == Spec => []OnlyCreatorProceeds
<1>1. IInv => OnlyCreatorProceeds
  BY Zenon DEF IInv, OnlyCreatorProceeds, Kept, NoLate, Holding
<1> QED BY <1>1, Invariance, PTL

\* A lock file whose maker has gone was left by SIGKILL, or by a signal between
\* the link of lock_mtab and its assignment of we_created_lockfile.
THEOREM LeftBehind == Spec => []LeftExplained
<1>1. IInv => LeftExplained
  BY DEF IInv, LeftExplained, Linked, Holding, Gone, Critical
<1> QED BY <1>1, Invariance, PTL

\* Under that proviso, and if every update_mtab could read the whole file and the
\* disk took all that it and hsi_add_mtab wrote, mtab is what its updates make
\* of it one after the other.
THEOREM UpdatesKept == Spec => []NoLostUpdate
<1>1. IInv => NoLostUpdate
  BY DEF IInv
<1> QED BY <1>1, Invariance, PTL
=============================================================================
