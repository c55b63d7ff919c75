-------------------------- MODULE InodeCacheProofs --------------------------
(***************************************************************************)
(* The theorems about InodeCache: what the functions of lib/hsfs_inode.c   *)
(* do to the cache and the ledger, the steps of the mount, of the          *)
(* environment and of the handlers of fuse/, a lemma for each, the         *)
(* inductive invariant and what follows from it, and that InodeCache       *)
(* implements NodeNumbers.                                                 *)
(***************************************************************************)
EXTENDS InodeCache, TLAPS, WellFoundedInduction

\* A nonempty set of numbers has a least element, the one the search picks.
LEMMA LeastInSet ==
  ASSUME NEW S, S \subseteq Nat, S # {}
  PROVE  Least(S) \in S
<1> DEFINE R == OpToRel(<, Nat)
<1>1. IsWellFoundedOn(R, Nat)
  BY NatLessThanWellFounded, Zenon
<1>2. PICK x \in S : \A y \in S : ~(<<y, x>> \in R)
  BY <1>1, WFMin, Zenon
<1>3. \A y \in S : ~(y < x)
  BY <1>2, S \subseteq Nat, Zenon DEF OpToRel
<1>4. \A y \in S : x <= y
  BY <1>3, S \subseteq Nat
<1> QED
  BY <1>4, Zenon DEF Least

\* The do-while of __inode_add_to_lists stops at a number that is neither 0
\* nor in use.
LEMMA NextIdIsFree ==
  ASSUME TypeOK, FreeAbove \cup FreeWrapped # {}
  PROVE  NextId \in Id /\ NextId # 0 /\ IdFind(NextId) = {}
<1> DEFINE Free == {n \in Id : n # 0 /\ IdFind(n) = {}}
<1>1. curr_id \in Nat /\ Id \subseteq Nat
  BY ConstantsAssumption DEF TypeOK, Id
<1>2. FreeAbove \subseteq Free
  BY <1>1 DEF FreeAbove
<1>3. FreeWrapped \subseteq Free
  BY <1>1 DEF FreeWrapped
<1>4. Free \subseteq Nat
  BY <1>1, Zenon
<1>5. NextId \in Free
  <2>1. CASE FreeAbove # {}
    BY <2>1, <1>2, <1>4, LeastInSet DEF NextId
  <2>2. CASE FreeAbove = {}
    BY <2>2, <1>3, <1>4, LeastInSet DEF NextId
  <2> QED
    BY <2>1, <2>2
<1> QED
  BY <1>5

\* Decrementing a usage count of width CountMod.
LEMMA CountDown ==
  ASSUME NEW c \in 0 .. CountMod - 1
  PROVE  (c - 1) % CountMod = IF c = 0 THEN CountMod - 1 ELSE c - 1
  BY ConstantsAssumption, SMT

-----------------------------------------------------------------------------
(* hsfs_iget5_locked *)

\* hsfs_iget5_locked keeps every cached inode as it is, adds at most the inode
\* it returns, and gives a new inode a number nobody has.
LEMMA Iget5Effect ==
  ASSUME TypeOK, TablesAgree, NumbersUnique, HandlesUnique, id_table \subseteq alloc,
         NEW h \in Handle, NEW i \in Inode, Iget5(h, i)
  PROVE  /\ curr_id' \in Id /\ ino' \in [Inode -> Id] /\ fh' \in [Inode -> Handle]
         /\ i_count' \in [Inode -> 0 .. CountMod - 1]
         /\ id_table' = id_table \cup {i} /\ fh_table' = id_table' /\ alloc' = id_table'
         /\ alloc = id_table
         /\ \A j \in id_table : ino'[j] = ino[j] /\ fh'[j] = fh[j] /\ i_count'[j] = i_count[j]
         /\ i \notin id_table => IdFind(ino'[i]) = {} /\ i_count'[i] = 0
         /\ NumbersUnique' /\ HandlesUnique'
<1>0. alloc = id_table /\ fh_table = id_table
  BY Zenon DEF TablesAgree
<1>1. CASE i \in FhFind(h) /\ UNCHANGED <<tables, i_count>>
  <2>1. i \in id_table
    BY <1>0, <1>1 DEF FhFind
  <2>2. UNCHANGED <<curr_id, id_table, fh_table, alloc, ino, fh, i_count>>
    BY <1>1 DEF tables
  <2>3. NumbersUnique' /\ HandlesUnique'
    BY <2>2 DEF NumbersUnique, HandlesUnique
  <2> QED
    BY <1>0, <2>1, <2>2, <2>3, Zenon DEF TypeOK
<1>2. CASE /\ FhFind(h) = {}
           /\ i \in Inode \ alloc
           /\ alloc' = alloc \cup {i}
           /\ i_count' = [i_count EXCEPT ![i] = 0]
           /\ AddToLists(i, h)
  <2> DEFINE m == NextId
  <2>1. m \in Id /\ m # 0 /\ IdFind(m) = {}
    BY <1>2, NextIdIsFree DEF AddToLists
  <2>2. /\ curr_id' = m
        /\ ino' = [ino EXCEPT ![i] = m]
        /\ fh' = [fh EXCEPT ![i] = h]
        /\ id_table' = id_table \cup {i}
        /\ fh_table' = fh_table \cup {i}
    BY <1>2 DEF AddToLists
  <2> HIDE DEF m
  <2>3. i \notin id_table
    BY <1>0, <1>2
  <2>4. /\ ino' \in [Inode -> Id] /\ fh' \in [Inode -> Handle]
        /\ i_count' \in [Inode -> 0 .. CountMod - 1]
    <3>1. 0 \in 0 .. CountMod - 1
      BY ConstantsAssumption
    <3>2. i_count' \in [Inode -> 0 .. CountMod - 1]
      BY <1>2, <3>1 DEF TypeOK
    <3>3. ino' \in [Inode -> Id] /\ fh' \in [Inode -> Handle]
      BY <2>1, <2>2, Zenon DEF TypeOK
    <3> QED
      BY <3>2, <3>3
  <2>5. \A j \in Inode : j # i => ino'[j] = ino[j] /\ fh'[j] = fh[j] /\ i_count'[j] = i_count[j]
    BY <1>2, <2>2 DEF TypeOK
  <2>6. ino'[i] = m /\ fh'[i] = h /\ i_count'[i] = 0
    BY <1>2, <2>2 DEF TypeOK
  <2>7. \A j \in id_table : j \in Inode /\ j # i /\ ino[j] # m /\ fh[j] # h
    BY <1>0, <1>2, <2>1, <2>3 DEF TypeOK, IdFind, FhFind, NumbersUnique
  <2>8. NumbersUnique'
    BY <2>1, <2>2, <2>5, <2>6, <2>7 DEF NumbersUnique
  <2>9. HandlesUnique'
    BY <1>0, <2>2, <2>5, <2>6, <2>7 DEF HandlesUnique
  <2> QED
    BY <1>0, <1>2, <2>1, <2>2, <2>3, <2>4, <2>5, <2>6, <2>7, <2>8, <2>9
<1> QED
  BY <1>1, <1>2 DEF Iget5

\* The facts of the invariant that depend on the tables only, after
\* hsfs_iget5_locked.
LEMMA Iget5KeepsCounts ==
  ASSUME IInv, id_table \subseteq alloc, NEW h \in Handle, NEW i \in Inode, Iget5(h, i),
         UNCHANGED iputs
  PROVE  UsageCount' /\ FreedOnlyByWrap'
<1>1. /\ id_table' = id_table \cup {i} /\ alloc' = id_table' /\ alloc = id_table
      /\ \A j \in id_table : i_count'[j] = i_count[j]
      /\ i \notin id_table => i_count'[i] = 0
  BY Iget5Effect DEF IInv
<1>2. \A j \in Inode \ id_table' : iputs'[j] = 0
  BY <1>1 DEF IInv, UsageCount
<1>3. iputs[i] \in Nat /\ (i \notin id_table => iputs[i] = 0)
  BY DEF IInv, TypeOK, UsageCount
<1>4. UsageCount'
  BY <1>1, <1>2, <1>3, ConstantsAssumption DEF IInv, UsageCount
<1> QED
  BY <1>1, <1>4 DEF FreedOnlyByWrap

\* d lookups are given to the kernel for the inode hsfs_iget5_locked returned:
\* every number in the ledger still belongs to a cached inode.
LEMMA Iget5KeepsBacked ==
  ASSUME IInv, id_table \subseteq alloc, NEW h \in Handle, NEW i \in Inode, Iget5(h, i),
         NEW d \in Nat,
         \A n \in Id : nlookup'[n] = IF n = ino'[i] THEN nlookup[n] + d ELSE nlookup[n],
         UNCHANGED <<pending, buf, dots, linked>>
  PROVE  NumbersBacked'
<1>1. /\ id_table' = id_table \cup {i} /\ ino' \in [Inode -> Id]
      /\ \A j \in id_table : ino'[j] = ino[j]
  BY Iget5Effect DEF IInv
<1>2. \A n \in Id : IdFind(n)' = {} => IdFind(n) = {} /\ n # ino'[i]
  BY <1>1 DEF IdFind
<1> QED
  BY <1>2 DEF IInv, NumbersBacked

\* If as many references are taken on the inode as lookups are given to the
\* kernel, the ledger stays balanced.
LEMMA Iget5KeepsLedger ==
  ASSUME IInv, status = "up", id_table \subseteq alloc,
         NEW h \in Handle, NEW i \in Inode, Iget5(h, i), NEW d \in Nat,
         private' = [private EXCEPT ![i] = Refs(i) + d],
         \A n \in Id : nlookup'[n] = IF n = ino'[i] THEN nlookup[n] + d ELSE nlookup[n],
         UNCHANGED <<pending, buf, dots, linked>>
  PROVE  Ledger'
<1>1. /\ id_table' = id_table \cup {i} /\ ino' \in [Inode -> Id] /\ alloc = id_table
      /\ \A j \in id_table : ino'[j] = ino[j]
      /\ i \notin id_table => IdFind(ino'[i]) = {}
      /\ NumbersUnique'
  BY Iget5Effect DEF IInv
<1>2. \A n \in Id : /\ nlookup[n] \in Nat /\ pending[n] \in Nat /\ buf[n] \in Nat
                    /\ dots[n] \in Nat /\ linked[n] \in Nat
  BY DEF IInv, TypeOK
<1>3. id_table \subseteq Inode /\ \A j \in Inode : private[j] \in Nat /\ ino[j] \in Id
  BY Zenon DEF IInv, TypeOK
<1>4. private'[i] = Refs(i) + d /\ \A j \in Inode : j # i => private'[j] = private[j]
  BY DEF IInv, TypeOK
<1> SUFFICES ASSUME NEW j \in id_table'
             PROVE  private'[j] + linked[ino'[j]] =
                      nlookup'[ino'[j]] + pending[ino'[j]] + buf[ino'[j]] + dots[ino'[j]]
  BY Zenon DEF Ledger
<1>5. ASSUME NEW k \in id_table
      PROVE  private[k] + linked[ino[k]] =
               nlookup[ino[k]] + pending[ino[k]] + buf[ino[k]] + dots[ino[k]]
  BY DEF IInv, Ledger
<1>6. CASE j # i
  <2>1. j \in id_table /\ ino'[j] = ino[j] /\ ino'[j] # ino'[i] /\ ino[j] \in Id
    BY <1>1, <1>3, <1>6 DEF NumbersUnique
  <2>2. nlookup'[ino[j]] = nlookup[ino[j]]
    BY <2>1, <1>2
  <2> QED
    BY <1>3, <1>4, <1>5, <1>6, <2>1, <2>2
<1>7. CASE j = i /\ i \in id_table
  <2>1. Refs(i) = private[i] /\ ino'[i] = ino[i] /\ ino[i] \in Id
    BY <1>1, <1>3, <1>7, Zenon DEF Refs
  <2>2. nlookup'[ino[i]] = nlookup[ino[i]] + d
    BY <2>1
  <2> QED
    BY <1>2, <1>3, <1>4, <1>5, <1>7, <2>1, <2>2
<1>8. CASE j = i /\ i \notin id_table
  <2> DEFINE n == ino'[i]
  <2>1. Refs(i) = 0 /\ n \in Id
    BY <1>1, <1>8, Zenon DEF Refs
  <2>3. nlookup[n] = 0 /\ pending[n] = 0 /\ buf[n] = 0 /\ dots[n] = 0 /\ linked[n] = 0
    BY <1>1, <1>8, <2>1, Zenon DEF IInv, NumbersBacked
  <2>4. nlookup'[n] = d
    BY <2>1, <2>3
  <2> QED
    BY <1>4, <1>8, <2>1, <2>3, <2>4
<1> QED
  BY <1>6, <1>7, <1>8

-----------------------------------------------------------------------------
(* The invariant holds initially and each action keeps it *)

\* hsfs_init_icache and the mount's first state satisfy the invariant.
LEMMA InitKeeps == Init => IInv
<1> SUFFICES ASSUME Init PROVE IInv
  OBVIOUS
<1>1. TypeOK
  BY ConstantsAssumption DEF Init, TypeOK, Id, Kinds, Statuses
<1>2. TablesAgree /\ NumbersUnique /\ HandlesUnique /\ UsageCount /\ FreedOnlyByWrap
  BY DEF Init, TablesAgree, NumbersUnique, HandlesUnique, UsageCount, FreedOnlyByWrap
<1>3. NumbersBacked /\ Ledger /\ BeforeUp /\ RefDecOnlyAfterLink /\ status # "forget_null"
  BY DEF Init, NumbersBacked, Ledger, BeforeUp, RefDecOnlyAfterLink
<1> QED
  BY <1>1, <1>2, <1>3 DEF IInv

\* What a step that leaves the cache alone keeps.
LEMMA CacheFrame ==
  ASSUME IInv, UNCHANGED <<tables, i_count, iputs>>
  PROVE  /\ NumbersUnique' /\ HandlesUnique' /\ UsageCount' /\ FreedOnlyByWrap'
         /\ UNCHANGED <<curr_id, id_table, fh_table, alloc, ino, fh>>
  BY DEF IInv, tables, NumbersUnique, HandlesUnique, UsageCount, FreedOnlyByWrap

\* What a step that also leaves the ledger alone keeps.
LEMMA LedgerFrame ==
  ASSUME IInv, UNCHANGED <<tables, i_count, private, kernel, buf, history>>,
         status' = "up" => status = "up"
  PROVE  Ledger' /\ NumbersBacked'
  BY DEF IInv, tables, kernel, history, Ledger, NumbersBacked, IdFind

\* The use of an ERR_PTR value as an inode stops the process.
LEMMA UseErrPtrKeeps ==
  ASSUME IInv, UseErrPtr, kind' \in [Handle -> Kinds], excl' \subseteq Handle
  PROVE  IInv'
<1>1. /\ UNCHANGED <<tables, private, i_count, kernel, phase, ctx, buf, linked, dots, iputs>>
      /\ status' = "err_inode"
  BY DEF UseErrPtr, readdir, history
<1>2. /\ NumbersUnique' /\ HandlesUnique' /\ UsageCount' /\ FreedOnlyByWrap'
      /\ UNCHANGED <<curr_id, id_table, fh_table, alloc, ino, fh>>
  BY <1>1, CacheFrame
<1>3. TypeOK'
  BY <1>1, <1>2, Zenon DEF IInv, TypeOK, kernel, Statuses
<1>4. TablesAgree'
  BY <1>1, <1>2 DEF IInv, TablesAgree
<1>5. Ledger' /\ NumbersBacked'
  BY <1>1, LedgerFrame DEF history
<1>6. BeforeUp' /\ RefDecOnlyAfterLink' /\ status' # "forget_null"
  BY <1>1 DEF BeforeUp, RefDecOnlyAfterLink
<1> QED
  BY <1>2, <1>3, <1>4, <1>5, <1>6 DEF IInv

\* hsi_fill_super caches the root, or stops on its assertion.
LEMMA FillSuperKeeps == ASSUME IInv, FillSuper PROVE IInv'
<1>1. /\ status = "mount" /\ id_table = {}
      /\ UNCHANGED <<kind, excl, private, nlookup, pending, phase, ctx, buf, linked, dots, iputs>>
  BY DEF FillSuper, IInv, BeforeUp, server, kernel, readdir, history
<1>2. ASSUME NEW i \in Inode, Iget5(Root, i),
             status' = IF ino'[i] = 1 THEN "init" ELSE "root_ino"
      PROVE  IInv'
  <2>0. Root \in Handle /\ id_table \subseteq alloc
    BY <1>1, ConstantsAssumption, Zenon
  <2>1. /\ curr_id' \in Id /\ ino' \in [Inode -> Id] /\ fh' \in [Inode -> Handle]
        /\ i_count' \in [Inode -> 0 .. CountMod - 1]
        /\ id_table' = {i} /\ fh_table' = id_table' /\ alloc' = id_table'
        /\ NumbersUnique' /\ HandlesUnique'
    BY <1>1, <1>2, <2>0, Iget5Effect DEF IInv
  <2>2. UsageCount' /\ FreedOnlyByWrap'
    BY <1>1, <1>2, <2>0, Iget5KeepsCounts
  <2>3. TypeOK'
    BY <1>1, <1>2, <2>1, Zenon DEF IInv, TypeOK, Statuses
  <2>4. TablesAgree'
    BY <1>1, <2>1 DEF IInv, TablesAgree
  <2>5. /\ \A j \in Inode : private'[j] = 0
        /\ \A n \in Id : /\ nlookup[n] = 0 /\ pending[n] = 0 /\ buf[n] = 0
                         /\ dots[n] = 0 /\ linked[n] = 0
    BY <1>1 DEF IInv, BeforeUp
  <2>6. NumbersBacked'
    BY <1>1, <2>5 DEF NumbersBacked
  <2>7. Ledger' /\ RefDecOnlyAfterLink' /\ status' # "forget_null"
    BY <1>2 DEF Ledger, RefDecOnlyAfterLink
  <2>8. BeforeUp'
    BY <1>1, <1>2, <2>1, <2>5 DEF BeforeUp, IdFind
  <2> QED
    BY <2>1, <2>2, <2>3, <2>4, <2>6, <2>7, <2>8, Zenon DEF IInv
<1>3. ASSUME status' = "root_ino", UNCHANGED <<tables, i_count>>
      PROVE  IInv'
  <2>1. /\ NumbersUnique' /\ HandlesUnique' /\ UsageCount' /\ FreedOnlyByWrap'
        /\ UNCHANGED <<curr_id, id_table, fh_table, alloc, ino, fh>>
    BY <1>1, <1>3, CacheFrame
  <2>2. TypeOK' /\ TablesAgree'
    BY <1>1, <1>3, <2>1, Zenon DEF IInv, TypeOK, Statuses, TablesAgree
  <2>3. Ledger' /\ NumbersBacked'
    BY <1>1, <1>3, LedgerFrame DEF kernel, history
  <2>4. BeforeUp' /\ RefDecOnlyAfterLink' /\ status' # "forget_null"
    BY <1>3 DEF BeforeUp, RefDecOnlyAfterLink
  <2> QED
    BY <2>1, <2>2, <2>3, <2>4 DEF IInv
<1> QED
  BY <1>2, <1>3 DEF FillSuper

\* hsfs_ilookup returns an inode of the table with the number asked for, or
\* none.
LEMMA IlookupFinds ==
  ASSUME TypeOK, NEW n
  PROVE  /\ IdFind(n) # {} => /\ Ilookup(n) \in id_table /\ ino[Ilookup(n)] = n
                              /\ Ilookup(n) \in Inode /\ Ilookup(n) # NoInode
         /\ IdFind(n) = {} => Ilookup(n) = NoInode
<1>1. CASE IdFind(n) # {}
  <2>1. Ilookup(n) \in IdFind(n)
    BY <1>1 DEF Ilookup
  <2>2. Ilookup(n) \in id_table /\ ino[Ilookup(n)] = n
    BY <2>1 DEF IdFind
  <2> QED
    BY <1>1, <2>2, ConstantsAssumption, Zenon DEF TypeOK
<1>2. CASE IdFind(n) = {}
  BY <1>2 DEF Ilookup
<1> QED
  BY <1>1, <1>2

\* The types of the counters, for the arithmetic of the ledger.
LEMMA CounterTypes ==
  ASSUME TypeOK
  PROVE  /\ \A n \in Id : /\ nlookup[n] \in Nat /\ pending[n] \in Nat /\ buf[n] \in Nat
                          /\ dots[n] \in Nat /\ linked[n] \in Nat
         /\ \A j \in Inode : private[j] \in Nat /\ ino[j] \in Id
         /\ id_table \subseteq Inode
  BY DEF TypeOK

\* hsx_fuse_init counts the kernel's lookup of the root.
LEMMA FuseInitKeeps == ASSUME IInv, FuseInit PROVE IInv'
<1> DEFINE i == Ilookup(1)
<1>1. /\ status = "init" /\ i \in Inode /\ i \in id_table /\ ino[i] = 1
  BY IlookupFinds DEF FuseInit, IInv, BeforeUp
<1>2. /\ private' = [private EXCEPT ![i] = 1]
      /\ status' = IF private[i] = 0 THEN "up" ELSE "not_new"
      /\ nlookup' = [nlookup EXCEPT ![1] = 1]
      /\ UNCHANGED <<kind, excl, tables, i_count, pending, phase, ctx, buf, linked, dots, iputs>>
  BY DEF FuseInit, server, readdir, history
<1> HIDE DEF i
<1>3. /\ NumbersUnique' /\ HandlesUnique' /\ UsageCount' /\ FreedOnlyByWrap'
      /\ UNCHANGED <<curr_id, id_table, fh_table, alloc, ino, fh>>
  BY <1>2, CacheFrame
<1>4. 1 \in Id
  BY ConstantsAssumption DEF Id
<1>5. TypeOK'
  BY <1>1, <1>2, <1>3, <1>4, Zenon DEF IInv, TypeOK, Statuses
<1>6. TablesAgree'
  BY <1>2, <1>3 DEF IInv, TablesAgree
<1>7. \A j \in Inode : private[j] = 0
  BY <1>1 DEF IInv, BeforeUp
<1>8. \A n \in Id : /\ nlookup[n] = 0 /\ pending[n] = 0 /\ buf[n] = 0
                    /\ dots[n] = 0 /\ linked[n] = 0
  BY <1>1 DEF IInv, BeforeUp
<1>9. NumbersBacked'
  <2>1. \A n \in Id : IdFind(n)' = {} => n # 1
    BY <1>1, <1>3 DEF IdFind
  <2>2. \A n \in Id : n # 1 => nlookup'[n] = 0
    BY <1>2, <1>8, Zenon DEF IInv, TypeOK
  <2> QED
    BY <1>2, <1>8, <2>1, <2>2 DEF NumbersBacked
<1>10. Ledger'
  <2> SUFFICES ASSUME NEW j \in id_table
               PROVE  private'[j] + linked[ino[j]] =
                        nlookup'[ino[j]] + pending[ino[j]] + buf[ino[j]] + dots[ino[j]]
    BY <1>2, <1>3 DEF Ledger
  <2>1. j \in Inode /\ ino[j] \in Id
    BY CounterTypes, Zenon DEF IInv
  <2>2. CASE j = i
    BY <1>1, <1>2, <1>8, <2>1, <2>2 DEF IInv, TypeOK
  <2>3. CASE j # i
    <3>1. ino[j] # 1
      BY <1>1, <2>3, Zenon DEF IInv, NumbersUnique
    <3>2. private'[j] = 0 /\ nlookup'[ino[j]] = 0
      BY <1>2, <1>7, <1>8, <2>1, <2>3, <3>1, Zenon DEF IInv, TypeOK
    <3> QED
      BY <1>8, <2>1, <3>2
  <2> QED
    BY <2>2, <2>3, Zenon
<1>11. BeforeUp' /\ RefDecOnlyAfterLink' /\ status' # "forget_null"
  BY <1>2 DEF BeforeUp, RefDecOnlyAfterLink
<1> QED
  BY <1>3, <1>5, <1>6, <1>9, <1>10, <1>11, Zenon DEF IInv

\* Another client of the server does not touch the cache.
LEMMA OtherCreateKeeps ==
  ASSUME IInv, NEW h \in Handle, NEW k \in Kinds, OtherCreate(h, k) PROVE IInv'
<1>1. /\ kind' = [kind EXCEPT ![h] = k] /\ excl' \subseteq Handle
      /\ UNCHANGED <<tables, private, i_count, nlookup, pending, phase, ctx, buf,
                     linked, dots, iputs, status>>
  BY DEF OtherCreate, Make, kernel, readdir, history, IInv, TypeOK
<1>2. /\ NumbersUnique' /\ HandlesUnique' /\ UsageCount' /\ FreedOnlyByWrap'
      /\ UNCHANGED <<curr_id, id_table, fh_table, alloc, ino, fh>>
  BY <1>1, CacheFrame
<1>3. TypeOK' /\ TablesAgree'
  BY <1>1, <1>2, Zenon DEF IInv, TypeOK, TablesAgree
<1>4. Ledger' /\ NumbersBacked'
  BY <1>1, LedgerFrame, Zenon DEF kernel, history
<1>5. BeforeUp' /\ RefDecOnlyAfterLink' /\ status' # "forget_null"
  BY <1>1, <1>2 DEF IInv, BeforeUp, RefDecOnlyAfterLink, IdFind
<1> QED
  BY <1>2, <1>3, <1>4, <1>5, Zenon DEF IInv

\* A FORGET that is queued moves lookups from one account to the other.
LEMMA KernelForgetKeeps ==
  ASSUME IInv, NEW n \in Id, NEW k \in Nat, KernelForget(n, k) PROVE IInv'
<1>1. /\ status = "up" /\ k <= nlookup[n]
      /\ nlookup' = [nlookup EXCEPT ![n] = @ - k]
      /\ pending' = [pending EXCEPT ![n] = @ + k]
      /\ UNCHANGED <<kind, excl, tables, private, i_count, phase, ctx, buf, linked, dots, iputs,
                     status>>
  BY CounterTypes DEF KernelForget, server, readdir, history, IInv
<1>2. /\ NumbersUnique' /\ HandlesUnique' /\ UsageCount' /\ FreedOnlyByWrap'
      /\ UNCHANGED <<curr_id, id_table, fh_table, alloc, ino, fh>>
  BY <1>1, CacheFrame, Zenon
<1>3. nlookup[n] - k \in Nat /\ pending[n] + k \in Nat
  BY <1>1, CounterTypes DEF IInv
<1>4. TypeOK' /\ TablesAgree'
  BY <1>1, <1>2, <1>3, Zenon DEF IInv, TypeOK, TablesAgree
<1>5. Ledger'
  <2> SUFFICES ASSUME NEW j \in id_table
               PROVE  private[j] + linked[ino[j]] =
                        nlookup'[ino[j]] + pending'[ino[j]] + buf[ino[j]] + dots[ino[j]]
    BY <1>1, <1>2, Zenon DEF Ledger
  <2>1. private[j] + linked[ino[j]] =
          nlookup[ino[j]] + pending[ino[j]] + buf[ino[j]] + dots[ino[j]]
    BY <1>1, Zenon DEF IInv, Ledger
  <2>2. /\ ino[j] \in Id /\ nlookup[ino[j]] \in Nat /\ pending[ino[j]] \in Nat
        /\ buf[ino[j]] \in Nat /\ dots[ino[j]] \in Nat
    BY CounterTypes, Zenon DEF IInv
  <2>3. CASE ino[j] = n
    <3>1. nlookup'[ino[j]] = nlookup[ino[j]] - k /\ pending'[ino[j]] = pending[ino[j]] + k
      BY <1>1, <2>2, <2>3, Zenon DEF IInv, TypeOK
    <3> QED
      BY <2>1, <2>2, <3>1
  <2>4. CASE ino[j] # n
    <3>1. nlookup'[ino[j]] = nlookup[ino[j]] /\ pending'[ino[j]] = pending[ino[j]]
      BY <1>1, <2>2, <2>4, Zenon DEF IInv, TypeOK
    <3> QED
      BY <2>1, <3>1, Zenon
  <2> QED
    BY <2>3, <2>4
<1>6. NumbersBacked'
  <2>1. \A m \in Id : IdFind(m)' = IdFind(m)
    BY <1>2 DEF IdFind
  <2>2. IdFind(n) # {}
    <3>1. nlookup[n] # 0
      BY CounterTypes DEF KernelForget, IInv
    <3> QED
      BY <3>1 DEF IInv, NumbersBacked
  <2>3. \A m \in Id : m # n => nlookup'[m] = nlookup[m] /\ pending'[m] = pending[m]
    BY <1>1, Zenon DEF IInv, TypeOK
  <2> QED
    BY <1>1, <2>1, <2>2, <2>3 DEF IInv, NumbersBacked
<1>7. BeforeUp' /\ RefDecOnlyAfterLink' /\ status' # "forget_null"
  BY <1>1 DEF BeforeUp, RefDecOnlyAfterLink
<1> QED
  BY <1>2, <1>4, <1>5, <1>6, <1>7, Zenon DEF IInv

-----------------------------------------------------------------------------
(* The handlers of fuse/ that take one step *)

\* fuse_reply_entry adds one lookup to the kernel's count of n.
LEMMA ReplyEntryAdds ==
  ASSUME TypeOK, NEW n \in Id, ReplyEntry(n)
  PROVE  /\ nlookup' \in [Id -> Nat]
         /\ \A m \in Id : nlookup'[m] = IF m = n THEN nlookup[m] + 1 ELSE nlookup[m]
<1>1. nlookup \in [Id -> Nat] /\ nlookup' = [nlookup EXCEPT ![n] = @ + 1]
  BY Zenon DEF TypeOK, ReplyEntry
<1>2. nlookup[n] + 1 \in Nat
  BY <1>1
<1> QED
  BY <1>1, <1>2, Zenon

\* The inode returned by hsfs_iget5_locked, d references and d lookups: the
\* whole invariant.
LEMMA EntryKeeps ==
  ASSUME IInv, Running, NEW h \in Handle, NEW i \in Inode, Iget5(h, i),
         NEW d \in Nat,
         private' = [private EXCEPT ![i] = Refs(i) + d],
         nlookup' \in [Id -> Nat],
         \A n \in Id : nlookup'[n] = IF n = ino'[i] THEN nlookup[n] + d ELSE nlookup[n],
         kind' \in [Handle -> Kinds], excl' \subseteq Handle,
         phase' \in {"idle", "get", "fill", "free"}, ctx' \in Seq(Entry),
         \A k \in 1 .. Len(ctx') : ctx'[k].inode \in id_table' \cup {NoInode},
         UNCHANGED <<pending, buf, history>>, status' = "up"
  PROVE  IInv'
<1>1. status = "up" /\ id_table \subseteq alloc
  BY Zenon DEF Running, IInv, TablesAgree
<1>2. /\ curr_id' \in Id /\ ino' \in [Inode -> Id] /\ fh' \in [Inode -> Handle]
      /\ i_count' \in [Inode -> 0 .. CountMod - 1]
      /\ id_table' = id_table \cup {i} /\ fh_table' = id_table' /\ alloc' = id_table'
      /\ NumbersUnique' /\ HandlesUnique'
  BY <1>1, Iget5Effect, Zenon DEF IInv
<1>3. UNCHANGED <<linked, dots, iputs>>
  BY Zenon DEF history
<1>4. UsageCount' /\ FreedOnlyByWrap'
  BY <1>1, <1>3, Iget5KeepsCounts
<1>5. Ledger'
  BY <1>1, <1>3, Iget5KeepsLedger, Zenon
<1>6. NumbersBacked'
  BY <1>1, <1>3, Iget5KeepsBacked, Zenon
<1>7. Refs(i) + d \in Nat
  <2>1. Refs(i) \in Nat
    BY DEF Refs, IInv, TypeOK
  <2> QED
    BY <2>1
<1>8. TypeOK'
  BY <1>2, <1>3, <1>7, Zenon DEF IInv, TypeOK, Statuses
<1>9. TablesAgree'
  BY <1>2 DEF TablesAgree
<1>10. BeforeUp' /\ RefDecOnlyAfterLink' /\ status' # "forget_null"
  BY Zenon DEF BeforeUp, RefDecOnlyAfterLink
<1> QED
  BY <1>2, <1>4, <1>5, <1>6, <1>8, <1>9, <1>10 DEF IInv

\* The kernel's number of an inode that hsfs_iget5_locked returned.
LEMMA Iget5Number ==
  ASSUME IInv, Running, NEW h \in Handle, NEW i \in Inode, Iget5(h, i)
  PROVE  ino'[i] \in Id /\ id_table' = id_table \cup {i}
<1>1. id_table \subseteq alloc
  BY Zenon DEF Running, IInv, TablesAgree
<1> QED
  BY <1>1, Iget5Effect DEF IInv

\* The list of a directory answer still points into the table when it grows.
LEMMA CtxKept ==
  ASSUME IInv, UNCHANGED ctx, id_table \subseteq id_table'
  PROVE  /\ ctx' \in Seq(Entry)
         /\ \A k \in 1 .. Len(ctx') : ctx'[k].inode \in id_table' \cup {NoInode}
  BY DEF IInv, TypeOK, TablesAgree

\* hsx_fuse_lookup counts each entry it replies.
LEMMA LookupKeeps ==
  ASSUME IInv, NEW p \in Id, NEW h \in Handle, Lookup(p, h) PROVE IInv'
<1>1. Running /\ kind' \in [Handle -> Kinds] /\ excl' \subseteq Handle
  BY DEF Lookup, Serving, server, IInv, TypeOK
<1>2. CASE UseErrPtr
  BY <1>1, <1>2, UseErrPtrKeeps
<1>3. ASSUME NEW i \in Inode, Iget5(h, i),
             private' = [private EXCEPT ![i] = Refs(i) + 1],
             ReplyEntry(ino'[i]),
             UNCHANGED <<pending, readdir, history, status>>
      PROVE  IInv'
  <2>1. ino'[i] \in Id /\ id_table \subseteq id_table'
    BY <1>1, <1>3, Iget5Number
  <2>2. /\ nlookup' \in [Id -> Nat]
        /\ \A n \in Id : nlookup'[n] = IF n = ino'[i] THEN nlookup[n] + 1 ELSE nlookup[n]
    BY <1>3, <2>1, ReplyEntryAdds, Zenon DEF IInv
  <2>3. UNCHANGED <<phase, ctx, buf>> /\ status' = "up"
    BY <1>1, <1>3 DEF readdir, Running
  <2>4. phase' \in {"idle", "get", "fill", "free"}
    BY <2>3 DEF IInv, TypeOK
  <2>5. /\ ctx' \in Seq(Entry)
        /\ \A k \in 1 .. Len(ctx') : ctx'[k].inode \in id_table' \cup {NoInode}
    BY <2>1, <2>3, CtxKept, Zenon
  <2> QED
    BY <1>1, <1>3, <2>2, <2>3, <2>4, <2>5, EntryKeeps, Zenon
<1> QED
  BY <1>2, <1>3, Zenon DEF Lookup

\* A step that stops the process may leave the ledger unbalanced; what is left
\* of the invariant after the failed assertion of create.
LEMMA NotNewKeeps ==
  ASSUME IInv, Running, NEW h \in Handle, NEW i \in Inode, Iget5(h, i),
         private' = [private EXCEPT ![i] = 1],
         kind' \in [Handle -> Kinds], excl' \subseteq Handle,
         UNCHANGED <<kernel, readdir, history>>, status' = "not_new"
  PROVE  IInv'
<1>1. id_table \subseteq alloc
  BY Zenon DEF Running, IInv, TablesAgree
<1>2. /\ curr_id' \in Id /\ ino' \in [Inode -> Id] /\ fh' \in [Inode -> Handle]
      /\ i_count' \in [Inode -> 0 .. CountMod - 1]
      /\ id_table' = id_table \cup {i} /\ fh_table' = id_table' /\ alloc' = id_table'
      /\ NumbersUnique' /\ HandlesUnique'
  BY <1>1, Iget5Effect, Zenon DEF IInv
<1>3. UNCHANGED <<nlookup, pending, phase, ctx, buf, linked, dots, iputs>>
  BY DEF kernel, readdir, history
<1>4. UsageCount' /\ FreedOnlyByWrap'
  BY <1>1, <1>3, Iget5KeepsCounts, Zenon
<1>5. NumbersBacked'
  <2>1. \A n \in Id : nlookup'[n] = IF n = ino'[i] THEN nlookup[n] + 0 ELSE nlookup[n]
    BY <1>3, CounterTypes DEF IInv
  <2> QED
    BY <1>1, <1>3, <2>1, Iget5KeepsBacked, Zenon
<1>6. TypeOK'
  BY <1>2, <1>3, Zenon DEF IInv, TypeOK, Statuses
<1>7. TablesAgree'
  BY <1>2, <1>3, CtxKept, Zenon DEF TablesAgree
<1>8. Ledger' /\ BeforeUp' /\ RefDecOnlyAfterLink' /\ status' # "forget_null"
  BY DEF Ledger, BeforeUp, RefDecOnlyAfterLink
<1> QED
  BY <1>2, <1>4, <1>5, <1>6, <1>7, <1>8, Zenon DEF IInv

\* The tail of create, mkdir, mknod and symlink counts the entry it replies,
\* or stops on its assertion.
LEMMA ReplyNewKeeps ==
  ASSUME IInv, Running, NEW h \in Handle, ReplyNew(h),
         kind' \in [Handle -> Kinds], excl' \subseteq Handle
  PROVE  IInv'
<1>1. PICK i \in Inode :
        /\ Iget5(h, i)
        /\ private' = [private EXCEPT ![i] = 1]
        /\ IF Refs(i) = 0
           THEN ReplyEntry(ino'[i]) /\ UNCHANGED status
           ELSE UNCHANGED nlookup /\ status' = "not_new"
  BY Zenon DEF ReplyNew
<1>2. UNCHANGED <<pending, phase, ctx, buf, history>>
  BY DEF ReplyNew, readdir
<1>3. ino'[i] \in Id /\ id_table \subseteq id_table'
  BY <1>1, Iget5Number
<1>4. CASE Refs(i) = 0
  <2>1. /\ nlookup' \in [Id -> Nat]
        /\ \A n \in Id : nlookup'[n] = IF n = ino'[i] THEN nlookup[n] + 1 ELSE nlookup[n]
    BY <1>1, <1>3, <1>4, ReplyEntryAdds DEF IInv
  <2>2. status' = "up" /\ phase' \in {"idle", "get", "fill", "free"}
    BY <1>1, <1>2, <1>4 DEF Running, IInv, TypeOK
  <2>3. /\ ctx' \in Seq(Entry)
        /\ \A k \in 1 .. Len(ctx') : ctx'[k].inode \in id_table' \cup {NoInode}
    BY <1>2, <1>3, CtxKept
  <2>4. private' = [private EXCEPT ![i] = Refs(i) + 1]
    BY <1>1, <1>4
  <2> QED
    BY <1>1, <1>2, <2>1, <2>2, <2>3, <2>4, EntryKeeps, ZenonT(40)
<1>5. CASE Refs(i) # 0
  BY <1>1, <1>2, <1>5, NotNewKeeps, Zenon DEF kernel, readdir
<1> QED
  BY <1>4, <1>5

\* hsx_fuse_mkdir, hsx_fuse_mknod and hsx_fuse_symlink keep the invariant.
LEMMA MakeNodeKeeps ==
  ASSUME IInv, NEW p \in Id, NEW h \in Handle, NEW k \in Kinds, MakeNode(p, h, k)
  PROVE  IInv'
<1>1. Running /\ kind' \in [Handle -> Kinds] /\ excl' \subseteq Handle
  BY Zenon DEF MakeNode, Make, Serving, IInv, TypeOK
<1> QED
  BY <1>1, UseErrPtrKeeps, ReplyNewKeeps DEF MakeNode

\* hsx_fuse_create keeps the invariant, its late SETATTR error included.
LEMMA CreateKeeps ==
  ASSUME IInv, NEW p \in Id, NEW how, NEW h \in Handle, Create(p, how, h)
  PROVE  IInv'
<1>1. Running /\ kind' \in [Handle -> Kinds] /\ excl' \subseteq Handle
  BY Zenon DEF Create, Make, Serving, IInv, TypeOK, Kinds
<1>2. CASE UseErrPtr \/ ReplyNew(h)
  BY <1>1, <1>2, UseErrPtrKeeps, ReplyNewKeeps
<1>3. ASSUME NEW i \in Inode, Iget5(h, i),
             private' = [private EXCEPT ![i] = Refs(i)],
             UNCHANGED <<kernel, readdir, history, status>>
      PROVE  IInv'
  <2>1. id_table \subseteq id_table'
    BY <1>1, <1>3, Iget5Number
  <2>2. UNCHANGED <<nlookup, pending, phase, ctx, buf, history>> /\ status' = "up"
    BY <1>1, <1>3 DEF kernel, readdir, Running
  <2>3. /\ nlookup' \in [Id -> Nat]
        /\ \A n \in Id : nlookup'[n] = IF n = ino'[i] THEN nlookup[n] + 0 ELSE nlookup[n]
    <3>1. \A n \in Id : nlookup[n] + 0 = nlookup[n]
      BY CounterTypes DEF IInv
    <3> QED
      BY <2>2, <3>1, Zenon DEF IInv, TypeOK
  <2>4. /\ ctx' \in Seq(Entry) /\ phase' \in {"idle", "get", "fill", "free"}
        /\ \A k \in 1 .. Len(ctx') : ctx'[k].inode \in id_table' \cup {NoInode}
    BY <2>1, <2>2, CtxKept, Zenon DEF IInv, TypeOK
  <2>5. private' = [private EXCEPT ![i] = Refs(i) + 0]
    <3>1. Refs(i) \in Nat
      BY DEF Refs, IInv, TypeOK
    <3>2. Refs(i) + 0 = Refs(i)
      BY <3>1
    <3> QED
      BY <1>3, <3>2, Zenon
  <2> QED
    BY <1>1, <1>3, <2>2, <2>3, <2>4, <2>5, EntryKeeps, Zenon
<1> QED
  BY <1>2, <1>3 DEF Create

\* hsx_fuse_link: the kernel's count and the history grow together.
LEMMA LinkKeeps ==
  ASSUME IInv, NEW p \in Id, NEW n \in Id, Link(p, n) PROVE IInv'
<1>1. /\ status = "up" /\ IdFind(n) # {} /\ ino[Ilookup(n)] = n
  BY IlookupFinds, Zenon DEF Link, Serving, Running, Known, IInv
<1>2. /\ ReplyEntry(n) /\ linked' = [linked EXCEPT ![n] = @ + 1]
      /\ UNCHANGED <<kind, excl, tables, private, i_count, pending, phase, ctx, buf, dots,
                     iputs, status>>
  BY <1>1, Zenon DEF Link, server, readdir
<1>3. /\ NumbersUnique' /\ HandlesUnique' /\ UsageCount' /\ FreedOnlyByWrap'
      /\ UNCHANGED <<curr_id, id_table, fh_table, alloc, ino, fh>>
  BY <1>2, CacheFrame, Zenon
<1>4. /\ nlookup' \in [Id -> Nat]
      /\ \A m \in Id : nlookup'[m] = IF m = n THEN nlookup[m] + 1 ELSE nlookup[m]
  BY <1>2, ReplyEntryAdds, Zenon DEF IInv
<1>5. /\ linked' \in [Id -> Nat]
      /\ \A m \in Id : linked'[m] = IF m = n THEN linked[m] + 1 ELSE linked[m]
  <2>1. linked \in [Id -> Nat]
    BY Zenon DEF IInv, TypeOK
  <2>2. linked' = [linked EXCEPT ![n] = @ + 1]
    BY <1>2
  <2> QED
    BY <2>1, <2>2
<1>6. TypeOK' /\ TablesAgree'
  BY <1>2, <1>3, <1>4, <1>5, ZenonT(30) DEF IInv, TypeOK, TablesAgree
<1>7. NumbersBacked'
  <2>1. \A m \in Id : IdFind(m)' = IdFind(m)
    BY <1>3, Zenon DEF IdFind
  <2> QED
    BY <1>1, <1>2, <1>4, <1>5, <2>1, Zenon DEF IInv, NumbersBacked
<1>8. Ledger'
  <2> SUFFICES ASSUME NEW j \in id_table
               PROVE  private[j] + linked'[ino[j]] =
                        nlookup'[ino[j]] + pending[ino[j]] + buf[ino[j]] + dots[ino[j]]
    BY <1>2, <1>3, Zenon DEF Ledger
  <2>1. private[j] + linked[ino[j]] =
          nlookup[ino[j]] + pending[ino[j]] + buf[ino[j]] + dots[ino[j]]
    BY <1>1, Zenon DEF IInv, Ledger
  <2>2. /\ ino[j] \in Id /\ nlookup[ino[j]] \in Nat /\ pending[ino[j]] \in Nat
        /\ buf[ino[j]] \in Nat /\ dots[ino[j]] \in Nat /\ linked[ino[j]] \in Nat
        /\ private[j] \in Nat
    BY CounterTypes, ZenonT(40) DEF IInv
  <2>3. CASE ino[j] = n
    <3>1. linked'[ino[j]] = linked[ino[j]] + 1 /\ nlookup'[ino[j]] = nlookup[ino[j]] + 1
      BY <1>4, <1>5, <2>2, <2>3, Zenon
    <3> QED
      BY <2>1, <2>2, <3>1
  <2>4. CASE ino[j] # n
    <3>1. linked'[ino[j]] = linked[ino[j]] /\ nlookup'[ino[j]] = nlookup[ino[j]]
      BY <1>4, <1>5, <2>2, <2>4, Zenon
    <3> QED
      BY <2>1, <3>1, Zenon
  <2> QED
    BY <2>3, <2>4, Zenon
<1>9. BeforeUp' /\ RefDecOnlyAfterLink' /\ status' # "forget_null"
  BY <1>1, <1>2 DEF BeforeUp, RefDecOnlyAfterLink
<1> QED
  BY <1>3, <1>6, <1>7, <1>8, <1>9, Zenon DEF IInv

\* hsfs_iput: the table keeps the inode; memory is given back only when the
\* usage count comes round to zero.
LEMMA IputEffect ==
  ASSUME IInv, Running, NEW i \in id_table, Iput(i)
  PROVE  /\ UNCHANGED <<curr_id, id_table, fh_table, ino, fh>>
         /\ alloc' \subseteq alloc
         /\ i_count' \in [Inode -> 0 .. CountMod - 1] /\ iputs' \in [Inode -> Nat]
         /\ UsageCount' /\ FreedOnlyByWrap'
<1>0. UNCHANGED <<curr_id, id_table, fh_table, ino, fh>> /\ alloc' \subseteq alloc
  BY Zenon DEF Iput
<1>1. /\ i \in Inode /\ i \in alloc /\ i_count[i] \in 0 .. CountMod - 1 /\ iputs[i] \in Nat
      /\ CountMod \in Nat /\ CountMod > 1 /\ id_table \subseteq alloc
  BY ConstantsAssumption, Zenon DEF IInv, TypeOK, Running, TablesAgree
<1> DEFINE c == IF i_count[i] = 0 THEN CountMod - 1 ELSE i_count[i] - 1
<1>2. (i_count[i] - 1) % CountMod = c /\ c \in 0 .. CountMod - 1
  BY <1>1, CountDown
<1> HIDE DEF c
<1>3. /\ i_count' = [i_count EXCEPT ![i] = c]
      /\ iputs' = [iputs EXCEPT ![i] = IF @ < CountMod THEN @ + 1 ELSE @]
      /\ alloc' \in IF c = 0 THEN {alloc, alloc \ {i}} ELSE {alloc}
  BY <1>2, Zenon DEF Iput
<1> DEFINE d == IF iputs[i] < CountMod THEN iputs[i] + 1 ELSE iputs[i]
<1>4. i_count' \in [Inode -> 0 .. CountMod - 1] /\ iputs' \in [Inode -> Nat]
  <2>1. d \in Nat
    BY <1>1
  <2> QED
    BY <1>1, <1>2, <1>3, <2>1, Zenon DEF IInv, TypeOK
<1>5. /\ i_count'[i] = c /\ iputs'[i] = d
      /\ \A j \in Inode : j # i => i_count'[j] = i_count[j] /\ iputs'[j] = iputs[j]
  BY <1>1, <1>3, Zenon DEF IInv, TypeOK
<1>6. iputs[i] < CountMod => i_count[i] = IF iputs[i] = 0 THEN 0 ELSE CountMod - iputs[i]
  BY <1>1, Zenon DEF IInv, UsageCount
<1>7. iputs[i] < CountMod => c = CountMod - d
  BY <1>1, <1>6 DEF c
<1>8. UsageCount'
  <2>1. \A j \in Inode \ id_table : iputs'[j] = 0
    BY <1>5, Zenon DEF IInv, UsageCount
  <2>2. d < CountMod => c = IF d = 0 THEN 0 ELSE CountMod - d
    BY <1>1, <1>7
  <2>3. ASSUME NEW j \in id_table
        PROVE  iputs'[j] < CountMod =>
                 i_count'[j] = IF iputs'[j] = 0 THEN 0 ELSE CountMod - iputs'[j]
    <3>1. CASE j = i
      BY <1>5, <2>2, <3>1, Zenon
    <3>2. CASE j # i
      BY <1>5, <3>2, Zenon DEF IInv, TypeOK, UsageCount
    <3> QED
      BY <3>1, <3>2, Zenon
  <2> QED
    BY <1>0, <2>1, <2>3, Zenon DEF UsageCount
<1>9. FreedOnlyByWrap'
  <2>1. c = 0 => d >= CountMod
    BY <1>1, <1>7
  <2>2. i \notin alloc' => iputs'[i] >= CountMod
    BY <1>1, <1>3, <1>5, <2>1, Zenon
  <2>3. \A j \in id_table : j # i => j \in alloc'
    BY <1>1, <1>3, Zenon
  <2> QED
    BY <1>0, <2>2, <2>3, Zenon DEF FreedOnlyByWrap
<1> QED
  BY <1>0, <1>4, <1>8, <1>9, Zenon

\* hsx_fuse_forget takes from the count what the kernel queued, or stops on
\* the assertion of hsx_fuse_ref_dec, which only an uncounted link explains.
LEMMA ForgetKeeps ==
  ASSUME IInv, NEW n \in Id, NEW k \in Nat, Forget(n, k) PROVE IInv'
<1> DEFINE i == Ilookup(n)
<1>1. /\ Running /\ status = "up" /\ k > 0 /\ k <= pending[n]
      /\ pending' = [pending EXCEPT ![n] = @ - k]
      /\ UNCHANGED <<kind, excl, nlookup, phase, ctx, buf, linked, dots>>
  BY CounterTypes DEF Forget, Serving, Running, server, readdir, IInv
<1>2. /\ IdFind(n) # {} /\ i \in id_table /\ ino[i] = n /\ i \in Inode /\ i # NoInode
  <2>1. pending[n] # 0
    BY <1>1, CounterTypes DEF IInv
  <2>2. IdFind(n) # {}
    BY <2>1, Zenon DEF IInv, NumbersBacked
  <2> QED
    BY <2>2, IlookupFinds, Zenon DEF IInv
<1>3. /\ status' = IF private[i] < k THEN "ref_dec" ELSE "up"
      /\ private' = IF status' = "up" THEN [private EXCEPT ![i] = @ - k] ELSE private
      /\ IF status' = "up" /\ private[i] = k
         THEN Iput(i)
         ELSE UNCHANGED <<tables, i_count, iputs>>
  BY <1>2, Zenon DEF Forget
<1> HIDE DEF i
<1>4. /\ UNCHANGED <<curr_id, id_table, fh_table, ino, fh>>
      /\ alloc' \subseteq alloc
      /\ i_count' \in [Inode -> 0 .. CountMod - 1] /\ iputs' \in [Inode -> Nat]
      /\ UsageCount' /\ FreedOnlyByWrap'
  <2>1. CASE Iput(i)
    BY <1>1, <1>2, <2>1, IputEffect, Zenon
  <2>2. CASE UNCHANGED <<tables, i_count, iputs>>
    BY <2>2, CacheFrame, Zenon DEF IInv, TypeOK
  <2> QED
    BY <1>3, <2>1, <2>2, Zenon
<1>5. NumbersUnique' /\ HandlesUnique' /\ \A m \in Id : IdFind(m)' = IdFind(m)
  BY <1>4, Zenon DEF IInv, NumbersUnique, HandlesUnique, IdFind
<1>6. /\ pending' \in [Id -> Nat] /\ pending'[n] = pending[n] - k
      /\ \A m \in Id : m # n => pending'[m] = pending[m]
  <2>1. pending[n] - k \in Nat
    BY <1>1, CounterTypes DEF IInv
  <2> QED
    BY <1>1, <2>1, Zenon DEF IInv, TypeOK
<1>7. private' \in [Inode -> Nat]
  <2>1. CASE status' = "up"
    <3>1. private[i] \in Nat /\ ~(private[i] < k)
      BY <1>2, <1>3, <2>1, CounterTypes, Zenon DEF IInv
    <3>2. private[i] - k \in Nat
      BY <3>1
    <3> QED
      BY <1>3, <2>1, <3>2, Zenon DEF IInv, TypeOK
  <2>2. CASE status' # "up"
    BY <1>3, <2>2, Zenon DEF IInv, TypeOK
  <2> QED
    BY <2>1, <2>2
<1>8. TypeOK' /\ TablesAgree'
  <2>1. alloc' \subseteq Inode /\ status' \in Statuses
    BY <1>3, <1>4, Zenon DEF IInv, TypeOK, Statuses
  <2> QED
    BY <1>1, <1>4, <1>6, <1>7, <2>1, ZenonT(30) DEF IInv, TypeOK, TablesAgree
<1>9. NumbersBacked'
  BY <1>1, <1>2, <1>5, <1>6, Zenon DEF IInv, NumbersBacked
<1>10. Ledger'
  <2> SUFFICES ASSUME status' = "up", NEW j \in id_table
               PROVE  private'[j] + linked[ino[j]] =
                        nlookup[ino[j]] + pending'[ino[j]] + buf[ino[j]] + dots[ino[j]]
    BY <1>1, <1>4, Zenon DEF Ledger
  <2>1. private[j] + linked[ino[j]] =
          nlookup[ino[j]] + pending[ino[j]] + buf[ino[j]] + dots[ino[j]]
    BY <1>1, Zenon DEF IInv, Ledger
  <2>2. /\ ino[j] \in Id /\ nlookup[ino[j]] \in Nat /\ pending[ino[j]] \in Nat
        /\ buf[ino[j]] \in Nat /\ dots[ino[j]] \in Nat /\ linked[ino[j]] \in Nat
        /\ private[j] \in Nat /\ j \in Inode
    BY CounterTypes, Zenon DEF IInv
  <2>3. CASE j = i
    <3>1. private'[j] = private[j] - k
      BY <1>3, <2>2, <2>3, Zenon DEF IInv, TypeOK
    <3>2. ino[j] = n /\ pending'[ino[j]] = pending[ino[j]] - k
      BY <1>2, <1>6, <2>3, Zenon
    <3> QED
      BY <2>1, <2>2, <3>1, <3>2
  <2>4. CASE j # i
    <3>1. private'[j] = private[j]
      BY <1>3, <2>2, <2>4, Zenon DEF IInv, TypeOK
    <3>2. ino[j] # n
      BY <1>2, <2>4, Zenon DEF IInv, NumbersUnique
    <3> QED
      BY <1>6, <2>1, <2>2, <3>1, <3>2, Zenon
  <2> QED
    BY <2>3, <2>4, Zenon
<1>11. RefDecOnlyAfterLink'
  <2> SUFFICES ASSUME private[i] < k, status' = "ref_dec" PROVE RefDecOnlyAfterLink'
    BY <1>3, Zenon DEF RefDecOnlyAfterLink
  <2>1. private[i] + linked[n] = nlookup[n] + pending[n] + buf[n] + dots[n]
    BY <1>1, <1>2, Zenon DEF IInv, Ledger
  <2>2. /\ nlookup[n] \in Nat /\ pending[n] \in Nat /\ buf[n] \in Nat
        /\ dots[n] \in Nat /\ linked[n] \in Nat /\ private[i] \in Nat
    BY <1>2, CounterTypes, Zenon DEF IInv
  <2>3. /\ linked[n] > 0
        /\ private[i] + linked[n] > nlookup[n] + pending'[n] + buf[n] + dots[n]
    BY <1>1, <1>6, <2>1, <2>2
  <2>4. /\ i \in id_table' /\ ino'[i] = n /\ private' = private
        /\ UNCHANGED <<nlookup, buf, dots, linked>>
    BY <1>1, <1>2, <1>3, <1>4, Zenon
  <2> QED
    BY <2>3, <2>4 DEF RefDecOnlyAfterLink
<1>12. BeforeUp' /\ status' # "forget_null"
  BY <1>3, Zenon DEF BeforeUp
<1> QED
  BY <1>4, <1>5, <1>8, <1>9, <1>10, <1>11, <1>12, Zenon DEF IInv

-----------------------------------------------------------------------------

\* A READDIRPLUS request starts.
LEMMA ReaddirStartKeeps == ASSUME IInv, NEW p \in Id, ReaddirStart(p) PROVE IInv'
<1>1. /\ status = "up" /\ phase' = "get"
      /\ UNCHANGED <<kind, excl, tables, private, i_count, kernel, ctx, buf, history, status>>
      /\ UNCHANGED <<nlookup, pending, linked, dots, iputs>>
  BY Zenon DEF ReaddirStart, Serving, Running, server, kernel, history
<1>2. /\ NumbersUnique' /\ HandlesUnique' /\ UsageCount' /\ FreedOnlyByWrap'
      /\ UNCHANGED <<curr_id, id_table, fh_table, alloc, ino, fh>>
  BY <1>1, CacheFrame
<1>3. TypeOK' /\ TablesAgree'
  BY <1>1, <1>2, Zenon DEF IInv, TypeOK, TablesAgree
<1>4. Ledger' /\ NumbersBacked'
  BY <1>1, LedgerFrame
<1>5. BeforeUp' /\ RefDecOnlyAfterLink' /\ status' # "forget_null"
  BY <1>1, Zenon DEF BeforeUp, RefDecOnlyAfterLink
<1> QED
  BY <1>2, <1>3, <1>4, <1>5, Zenon DEF IInv

\* The list of a READDIRPLUS answer is complete, or abandoned.
LEMMA ReaddirGotKeeps == ASSUME IInv, ReaddirGot PROVE IInv'
<1>1. /\ status = "up" /\ phase' \in {"fill", "free", "idle"} /\ ctx' \in {ctx, << >>}
      /\ UNCHANGED <<kind, excl, tables, private, i_count, kernel, buf, history, status>>
      /\ UNCHANGED <<nlookup, pending, linked, dots, iputs>>
  BY Zenon DEF ReaddirGot, Running, server, kernel, history
<1>2. /\ NumbersUnique' /\ HandlesUnique' /\ UsageCount' /\ FreedOnlyByWrap'
      /\ UNCHANGED <<curr_id, id_table, fh_table, alloc, ino, fh>>
  BY <1>1, CacheFrame, Zenon
<1>3. /\ ctx' \in Seq(Entry)
      /\ \A k \in 1 .. Len(ctx') : ctx'[k].inode \in id_table' \cup {NoInode}
  <2>1. CASE ctx' = ctx
    BY <1>2, <2>1, CtxKept
  <2>2. CASE ctx' = << >>
    <3>1. ctx' \in Seq(Entry) /\ Len(ctx') = 0
      BY <2>2
    <3> QED
      BY <3>1
  <2> QED
    BY <1>1, <2>1, <2>2, Zenon
<1>4. TypeOK' /\ TablesAgree'
  BY <1>1, <1>2, <1>3, Zenon DEF IInv, TypeOK, TablesAgree
<1>5. Ledger' /\ NumbersBacked'
  BY <1>1, LedgerFrame, Zenon
<1>6. BeforeUp' /\ RefDecOnlyAfterLink' /\ status' # "forget_null"
  BY <1>1, Zenon DEF BeforeUp, RefDecOnlyAfterLink
<1> QED
  BY <1>2, <1>4, <1>5, <1>6, Zenon DEF IInv

\* Appending an entry to the list of a directory answer.
LEMMA CtxAppend ==
  ASSUME IInv, NEW e \in Entry, ctx' = Append(ctx, e), id_table \subseteq id_table',
         e.inode \in id_table' \cup {NoInode}
  PROVE  /\ ctx' \in Seq(Entry)
         /\ \A k \in 1 .. Len(ctx') : ctx'[k].inode \in id_table' \cup {NoInode}
<1>1. ctx \in Seq(Entry) /\ \A k \in 1 .. Len(ctx) : ctx[k].inode \in id_table \cup {NoInode}
  BY Zenon DEF IInv, TypeOK, TablesAgree
<1>2. /\ ctx' \in Seq(Entry) /\ Len(ctx') = Len(ctx) + 1 /\ Len(ctx) \in Nat
      /\ \A k \in 1 .. Len(ctx') : ctx'[k] = IF k <= Len(ctx) THEN ctx[k] ELSE e
  BY <1>1
<1> QED
  BY <1>1, <1>2

\* hsi_nfs3_readdir_plus caches the inode of one entry and takes no reference.
LEMMA ReaddirGetKeeps ==
  ASSUME IInv, NEW h \in Handle, NEW dot \in BOOLEAN, ReaddirGet(h, dot) PROVE IInv'
<1>1. /\ Running /\ status = "up" /\ status' = "up"
      /\ UNCHANGED <<kind, excl, nlookup, pending, phase, buf, history, linked, dots, iputs>>
  BY DEF ReaddirGet, Running, server, kernel, history
<1>2. ASSUME NEW i \in Inode, Iget5(h, i),
             private' = [private EXCEPT ![i] = Refs(i)],
             ctx' = Append(ctx, [inode |-> i, dot |-> dot])
      PROVE  IInv'
  <2>1. id_table' = id_table \cup {i}
    BY <1>1, <1>2, Iget5Number, Zenon
  <2>2. [inode |-> i, dot |-> dot] \in Entry
    BY Zenon DEF Entry
  <2>3. /\ ctx' \in Seq(Entry)
        /\ \A k \in 1 .. Len(ctx') : ctx'[k].inode \in id_table' \cup {NoInode}
    BY <1>2, <2>1, <2>2, CtxAppend, Zenon
  <2>4. /\ nlookup' \in [Id -> Nat]
        /\ \A n \in Id : nlookup'[n] = IF n = ino'[i] THEN nlookup[n] + 0 ELSE nlookup[n]
    <3>1. \A n \in Id : nlookup[n] + 0 = nlookup[n]
      BY CounterTypes DEF IInv
    <3> QED
      BY <1>1, <3>1, Zenon DEF IInv, TypeOK
  <2>5. private' = [private EXCEPT ![i] = Refs(i) + 0]
    <3>1. Refs(i) \in Nat
      BY DEF Refs, IInv, TypeOK
    <3>2. Refs(i) + 0 = Refs(i)
      BY <3>1
    <3> QED
      BY <1>2, <3>2, Zenon
  <2>6. /\ kind' \in [Handle -> Kinds] /\ excl' \subseteq Handle
        /\ phase' \in {"idle", "get", "fill", "free"}
    BY <1>1, Zenon DEF IInv, TypeOK
  <2> QED
    BY <1>1, <1>2, <2>3, <2>4, <2>5, <2>6, EntryKeeps, Zenon
<1>3. ASSUME ctx' = Append(ctx, [inode |-> NoInode, dot |-> dot]),
             UNCHANGED <<tables, private, i_count>>
      PROVE  IInv'
  <2>1. /\ NumbersUnique' /\ HandlesUnique' /\ UsageCount' /\ FreedOnlyByWrap'
        /\ UNCHANGED <<curr_id, id_table, fh_table, alloc, ino, fh>>
    BY <1>1, <1>3, CacheFrame
  <2>2. [inode |-> NoInode, dot |-> dot] \in Entry
    BY Zenon DEF Entry
  <2>3. /\ ctx' \in Seq(Entry)
        /\ \A k \in 1 .. Len(ctx') : ctx'[k].inode \in id_table' \cup {NoInode}
    BY <1>3, <2>1, <2>2, CtxAppend, Zenon
  <2>4. TypeOK' /\ TablesAgree'
    BY <1>1, <1>3, <2>1, <2>3, Zenon DEF IInv, TypeOK, TablesAgree
  <2>5. Ledger' /\ NumbersBacked'
    BY <1>1, <1>3, LedgerFrame, ZenonT(40) DEF kernel
  <2>6. BeforeUp' /\ RefDecOnlyAfterLink' /\ status' # "forget_null"
    BY <1>1 DEF BeforeUp, RefDecOnlyAfterLink
  <2> QED
    BY <2>1, <2>4, <2>5, <2>6, Zenon DEF IInv
<1> QED
  BY <1>2, <1>3, Zenon DEF ReaddirGet

\* Dropping the first entry of the list of a directory answer.
LEMMA CtxTail ==
  ASSUME IInv, ctx # << >>
  PROVE  /\ Tail(ctx) \in Seq(Entry)
         /\ Head(ctx).inode \in id_table \cup {NoInode} /\ Head(ctx).dot \in BOOLEAN
         /\ \A k \in 1 .. Len(Tail(ctx)) : Tail(ctx)[k].inode \in id_table \cup {NoInode}
<1>1. ctx \in Seq(Entry) /\ \A k \in 1 .. Len(ctx) : ctx[k].inode \in id_table \cup {NoInode}
  BY DEF IInv, TypeOK, TablesAgree
<1>2. /\ Tail(ctx) \in Seq(Entry) /\ Len(Tail(ctx)) = Len(ctx) - 1
      /\ Len(ctx) \in Nat /\ Len(ctx) > 0 /\ Head(ctx) = ctx[1]
      /\ \A k \in 1 .. Len(Tail(ctx)) : Tail(ctx)[k] = ctx[k + 1]
  BY <1>1
<1>3. 1 \in 1 .. Len(ctx) /\ \A k \in 1 .. Len(Tail(ctx)) : k + 1 \in 1 .. Len(ctx)
  BY <1>2
<1>4. ctx[1] \in Entry
  BY <1>1, <1>3
<1> QED
  BY <1>1, <1>2, <1>3, <1>4, Zenon DEF Entry

\* __free_ctx gives back a usage count nobody took; the ledger is not touched.
LEMMA ReaddirFreeKeeps == ASSUME IInv, ReaddirFree PROVE IInv'
<1>1. /\ Running /\ status = "up" /\ status' = "up"
      /\ UNCHANGED <<kind, excl, private, nlookup, pending, buf, linked, dots>>
  BY Zenon DEF ReaddirFree, Running, server, kernel
<1>2. /\ UNCHANGED <<curr_id, id_table, fh_table, ino, fh>>
      /\ alloc' \subseteq alloc
      /\ i_count' \in [Inode -> 0 .. CountMod - 1] /\ iputs' \in [Inode -> Nat]
      /\ UsageCount' /\ FreedOnlyByWrap'
  <2>1. CASE UNCHANGED <<tables, i_count, iputs>>
    BY <2>1, CacheFrame, Zenon DEF IInv, TypeOK
  <2>2. CASE ctx # << >> /\ Head(ctx).inode # NoInode /\ Iput(Head(ctx).inode)
    <3>1. Head(ctx).inode \in id_table
      BY <2>2, CtxTail
    <3> QED
      BY <1>1, <2>2, <3>1, IputEffect, Zenon
  <2> QED
    BY <2>1, <2>2 DEF ReaddirFree
<1>3. /\ phase' \in {"idle", "free"} /\ ctx' \in Seq(Entry)
      /\ \A k \in 1 .. Len(ctx') : ctx'[k].inode \in id_table \cup {NoInode}
  <2>1. CASE ctx = << >>
    BY <2>1, Zenon DEF ReaddirFree, IInv, TypeOK, TablesAgree
  <2>2. CASE ctx # << >>
    BY <2>2, CtxTail, Zenon DEF ReaddirFree
  <2> QED
    BY <2>1, <2>2, Zenon
<1>4. NumbersUnique' /\ HandlesUnique' /\ \A m \in Id : IdFind(m)' = IdFind(m)
  BY <1>2, Zenon DEF IInv, NumbersUnique, HandlesUnique, IdFind
<1>5. TypeOK' /\ TablesAgree'
  <2>1. alloc' \subseteq Inode
    BY <1>2, Zenon DEF IInv, TypeOK
  <2> QED
    BY <1>1, <1>2, <1>3, <2>1, Zenon DEF IInv, TypeOK, TablesAgree
<1>6. Ledger' /\ NumbersBacked'
  BY <1>1, <1>2, <1>4, ZenonT(30) DEF IInv, Ledger, NumbersBacked
<1>7. BeforeUp' /\ RefDecOnlyAfterLink' /\ status' # "forget_null"
  BY <1>1, Zenon DEF BeforeUp, RefDecOnlyAfterLink
<1> QED
  BY <1>2, <1>4, <1>5, <1>6, <1>7, Zenon DEF IInv

\* hsx_fuse_readdir_plus counts each entry it copies into the buffer.
LEMMA ReaddirFillKeeps == ASSUME IInv, ReaddirFill PROVE IInv'
<1> DEFINE i == Head(ctx).inode
<1>1. /\ Running /\ status = "up" /\ ctx # << >>
      /\ UNCHANGED <<kind, excl, tables, i_count, nlookup, pending, phase, linked, iputs>>
  BY Zenon DEF ReaddirFill, Running, server, kernel
<1>2. /\ NumbersUnique' /\ HandlesUnique' /\ UsageCount' /\ FreedOnlyByWrap'
      /\ UNCHANGED <<curr_id, id_table, fh_table, alloc, ino, fh>>
  BY <1>1, CacheFrame
<1>3. CASE i = NoInode
  <2>1. status' = "err_inode" /\ UNCHANGED <<private, ctx, buf, dots>>
    BY <1>3, Zenon DEF ReaddirFill
  <2>2. TypeOK' /\ TablesAgree'
    BY <1>1, <1>2, <2>1, Zenon DEF IInv, TypeOK, TablesAgree, Statuses
  <2>3. Ledger' /\ NumbersBacked'
    BY <1>1, <1>2, <2>1, Zenon DEF IInv, Ledger, NumbersBacked, IdFind
  <2>4. BeforeUp' /\ RefDecOnlyAfterLink' /\ status' # "forget_null"
    BY <2>1 DEF BeforeUp, RefDecOnlyAfterLink
  <2> QED
    BY <1>2, <2>2, <2>3, <2>4, ZenonT(40) DEF IInv
<1>4. CASE i # NoInode
  <2>1. /\ status' = "up" /\ ctx' = Tail(ctx)
        /\ private' = [private EXCEPT ![i] = @ + 1]
        /\ IF Head(ctx).dot
           THEN dots' = [dots EXCEPT ![ino[i]] = @ + 1] /\ UNCHANGED buf
           ELSE buf' = [buf EXCEPT ![ino[i]] = @ + 1] /\ UNCHANGED dots
    BY <1>1, <1>4, Zenon DEF ReaddirFill
  <2>2. /\ i \in id_table /\ ctx' \in Seq(Entry)
        /\ \A k \in 1 .. Len(ctx') : ctx'[k].inode \in id_table \cup {NoInode}
    BY <1>1, <1>4, <2>1, CtxTail, ZenonT(40)
  <2> HIDE DEF i
  <2>3. /\ i \in Inode /\ ino[i] \in Id /\ private[i] + 1 \in Nat
        /\ buf[ino[i]] + 1 \in Nat /\ dots[ino[i]] + 1 \in Nat
    BY <2>2, CounterTypes DEF IInv
  <2>4. /\ private' \in [Inode -> Nat] /\ private'[i] = private[i] + 1
        /\ \A j \in Inode : j # i => private'[j] = private[j]
    BY <2>1, <2>3, Zenon DEF IInv, TypeOK
  <2>5. /\ buf' \in [Id -> Nat] /\ dots' \in [Id -> Nat]
        /\ \A n \in Id : n # ino[i] => buf'[n] = buf[n] /\ dots'[n] = dots[n]
        /\ \/ buf'[ino[i]] = buf[ino[i]] + 1 /\ dots'[ino[i]] = dots[ino[i]]
           \/ dots'[ino[i]] = dots[ino[i]] + 1 /\ buf'[ino[i]] = buf[ino[i]]
    <3>1. CASE Head(ctx).dot
      BY <2>1, <2>3, <3>1, Zenon DEF IInv, TypeOK
    <3>2. CASE ~Head(ctx).dot
      BY <2>1, <2>3, <3>2, Zenon DEF IInv, TypeOK
    <3> QED
      BY <3>1, <3>2, Zenon
  <2>6. TypeOK' /\ TablesAgree'
    BY <1>1, <1>2, <2>1, <2>2, <2>4, <2>5, ZenonT(40) DEF IInv, TypeOK, TablesAgree
  <2>7. NumbersBacked'
    <3>1. \A n \in Id : IdFind(n)' = IdFind(n) /\ (IdFind(n) = {} => n # ino[i])
      BY <1>2, <2>2 DEF IdFind
    <3> QED
      BY <1>1, <2>5, <3>1, Zenon DEF IInv, NumbersBacked
  <2>8. Ledger'
    <3> SUFFICES ASSUME NEW j \in id_table
                 PROVE  private'[j] + linked[ino[j]] =
                          nlookup[ino[j]] + pending[ino[j]] + buf'[ino[j]] + dots'[ino[j]]
      BY <1>1, <1>2, Zenon DEF Ledger
    <3>1. private[j] + linked[ino[j]] =
            nlookup[ino[j]] + pending[ino[j]] + buf[ino[j]] + dots[ino[j]]
      BY <1>1, Zenon DEF IInv, Ledger
    <3>2. /\ ino[j] \in Id /\ nlookup[ino[j]] \in Nat /\ pending[ino[j]] \in Nat
          /\ buf[ino[j]] \in Nat /\ dots[ino[j]] \in Nat /\ linked[ino[j]] \in Nat
          /\ private[j] \in Nat /\ j \in Inode
      BY CounterTypes, Zenon DEF IInv
    <3>3. CASE j = i
      BY <2>4, <2>5, <3>1, <3>2, <3>3
    <3>4. CASE j # i
      <4>1. ino[j] # ino[i]
        BY <2>2, <3>4 DEF IInv, NumbersUnique
      <4> QED
        BY <2>4, <2>5, <3>1, <3>2, <3>4, <4>1, Zenon
    <3> QED
      BY <3>3, <3>4, ZenonT(40)
  <2>9. BeforeUp' /\ RefDecOnlyAfterLink' /\ status' # "forget_null"
    BY <2>1, Zenon DEF BeforeUp, RefDecOnlyAfterLink
  <2> QED
    BY <1>2, <2>6, <2>7, <2>8, <2>9, ZenonT(40) DEF IInv
<1> QED
  BY <1>3, <1>4

\* The kernel takes over the lookups of the buffer it is sent.
LEMMA ReaddirReplyKeeps == ASSUME IInv, ReaddirReply PROVE IInv'
<1>1. /\ Running /\ status = "up" /\ status' = "up" /\ phase' = "idle" /\ ctx' = << >>
      /\ UNCHANGED <<kind, excl, tables, private, i_count, pending, linked, dots, iputs>>
      /\ nlookup' = [n \in Id |-> nlookup[n] + buf[n]] /\ buf' = [n \in Id |-> 0]
  BY Zenon DEF ReaddirReply, Running, server, history
<1>2. /\ NumbersUnique' /\ HandlesUnique' /\ UsageCount' /\ FreedOnlyByWrap'
      /\ UNCHANGED <<curr_id, id_table, fh_table, alloc, ino, fh>>
  BY <1>1, CacheFrame, Zenon
<1>3. \A n \in Id : nlookup[n] \in Nat /\ buf[n] \in Nat /\ nlookup[n] + buf[n] \in Nat
  BY CounterTypes DEF IInv
<1>4. /\ nlookup' \in [Id -> Nat] /\ buf' \in [Id -> Nat]
      /\ \A n \in Id : nlookup'[n] = nlookup[n] + buf[n] /\ buf'[n] = 0
  BY <1>1, <1>3, Zenon
<1>5. TypeOK' /\ TablesAgree'
  <2>1. << >> \in Seq(Entry) /\ Len(<< >>) = 0
    OBVIOUS
  <2>2. ctx' \in Seq(Entry) /\ \A k \in 1 .. Len(ctx') : FALSE
    BY <1>1, <2>1
  <2>3. TypeOK'
    BY <1>1, <1>2, <1>4, <2>2, Zenon DEF IInv, TypeOK
  <2>4. TablesAgree'
    BY <1>2, <2>2, ZenonT(40) DEF IInv, TablesAgree
  <2> QED
    BY <2>3, <2>4
<1>6. NumbersBacked'
  <2>1. \A n \in Id : IdFind(n)' = IdFind(n)
    BY <1>2, ZenonT(40) DEF IdFind
  <2> QED
    BY <1>1, <1>3, <1>4, <2>1 DEF IInv, NumbersBacked
<1>7. Ledger'
  <2> SUFFICES ASSUME NEW j \in id_table
               PROVE  private[j] + linked[ino[j]] =
                        nlookup'[ino[j]] + pending[ino[j]] + buf'[ino[j]] + dots[ino[j]]
    BY <1>1, <1>2, ZenonT(30) DEF Ledger
  <2>1. private[j] + linked[ino[j]] =
          nlookup[ino[j]] + pending[ino[j]] + buf[ino[j]] + dots[ino[j]]
    BY <1>1, ZenonT(30) DEF IInv, Ledger
  <2>2. /\ ino[j] \in Id /\ nlookup[ino[j]] \in Nat /\ pending[ino[j]] \in Nat
        /\ buf[ino[j]] \in Nat /\ dots[ino[j]] \in Nat /\ linked[ino[j]] \in Nat
        /\ private[j] \in Nat
    BY CounterTypes, Zenon DEF IInv
  <2>3. nlookup'[ino[j]] = nlookup[ino[j]] + buf[ino[j]] /\ buf'[ino[j]] = 0
    BY <1>4, <2>2
  <2>4. private[j] + linked[ino[j]] =
          (nlookup[ino[j]] + buf[ino[j]]) + pending[ino[j]] + 0 + dots[ino[j]]
    BY <2>1, <2>2
  <2> QED
    BY <2>3, <2>4, Zenon
<1>8. BeforeUp' /\ RefDecOnlyAfterLink' /\ status' # "forget_null"
  BY <1>1 DEF BeforeUp, RefDecOnlyAfterLink
<1> QED
  BY <1>2, <1>5, <1>6, <1>7, <1>8, ZenonT(40) DEF IInv

\* Every step of the daemon, of the kernel and of the server keeps the
\* invariant.
LEMMA NextKeeps == IInv /\ [Next]_vars => IInv'
<1> SUFFICES ASSUME IInv, [Next]_vars PROVE IInv'
  OBVIOUS
<1>0. 1 .. MaxCount \subseteq Nat
  BY ConstantsAssumption
<1>1. CASE FillSuper
  BY <1>1, FillSuperKeeps
<1>2. CASE FuseInit
  BY <1>2, FuseInitKeeps, Zenon
<1>3. CASE \E h \in Handle, k \in Kinds : OtherCreate(h, k)
  BY <1>3, OtherCreateKeeps, Zenon
<1>4. CASE \E n \in Id, k \in 1 .. MaxCount : KernelForget(n, k)
  BY <1>0, <1>4, KernelForgetKeeps, Zenon
<1>5. CASE \E n \in Id, k \in 1 .. MaxCount : Forget(n, k)
  BY <1>0, <1>5, ForgetKeeps, Zenon
<1>6. CASE \E p \in Id, h \in Handle : Lookup(p, h)
  BY <1>6, LookupKeeps, Zenon
<1>7. CASE \E p \in Id, h \in Handle : Mkdir(p, h) \/ Mknod(p, h) \/ Symlink(p, h)
  BY <1>7, MakeNodeKeeps, Zenon DEF Mkdir, Mknod, Symlink, Kinds
<1>8. CASE \E p \in Id, h \in Handle, how \in {"UNCHECKED", "GUARDED", "EXCLUSIVE"} :
             Create(p, how, h)
  BY <1>8, CreateKeeps, Zenon
<1>9. CASE \E p \in Id, n \in Id : Link(p, n)
  BY <1>9, LinkKeeps, Zenon
<1>10. CASE \E p \in Id : ReaddirStart(p)
  BY <1>10, ReaddirStartKeeps, Zenon
<1>11. CASE \E h \in Handle, dot \in BOOLEAN : ReaddirGet(h, dot)
  BY <1>11, ReaddirGetKeeps
<1>12. CASE ReaddirGot
  BY <1>12, ReaddirGotKeeps
<1>13. CASE ReaddirFree
  BY <1>13, ReaddirFreeKeeps, Zenon
<1>14. CASE ReaddirFill
  BY <1>14, ReaddirFillKeeps, Zenon
<1>15. CASE ReaddirReply
  BY <1>15, ReaddirReplyKeeps, Zenon
<1>16. CASE UNCHANGED vars
  <2>1. /\ UNCHANGED <<kind, excl, tables, private, i_count, kernel, phase, ctx, buf, history,
                       status, nlookup, pending, linked, dots, iputs>>
    BY <1>16 DEF vars, server, kernel, readdir, history
  <2>2. /\ NumbersUnique' /\ HandlesUnique' /\ UsageCount' /\ FreedOnlyByWrap'
        /\ UNCHANGED <<curr_id, id_table, fh_table, alloc, ino, fh>>
    BY <2>1, CacheFrame, Zenon
  <2>3. TypeOK' /\ TablesAgree'
    BY <2>1, <2>2, Zenon DEF IInv, TypeOK, TablesAgree
  <2>4. Ledger' /\ NumbersBacked'
    BY <2>1, LedgerFrame, Zenon
  <2>5. BeforeUp' /\ RefDecOnlyAfterLink' /\ status' # "forget_null"
    BY <2>1, <2>2, Zenon DEF IInv, BeforeUp, RefDecOnlyAfterLink, IdFind
  <2> QED
    BY <2>2, <2>3, <2>4, <2>5, Zenon DEF IInv
<1> QED
  BY <1>1, <1>2, <1>3, <1>4, <1>5, <1>6, <1>7, <1>8, <1>9, <1>10, <1>11, <1>12,
     <1>13, <1>14, <1>15, <1>16, Zenon DEF Next

\* The inductive invariant holds in every state the daemon reaches.
THEOREM Invariance == Spec => []IInv
<1>1. Init => IInv
  BY InitKeeps
<1>2. IInv /\ [Next]_vars => IInv'
  BY NextKeeps
<1> QED
  BY <1>1, <1>2, PTL DEF Spec

\* Every field keeps its type: counters of the ledger never go below zero and
\* i_count stays within an unsigned int.
THEOREM TypeCorrect == Spec => []TypeOK
<1>1. IInv => TypeOK
  BY DEF IInv
<1> QED
  BY <1>1, Invariance, PTL

\* hsfs_iget5_locked gives no number twice, also after curr_id wraps.
THEOREM OneNumber == Spec => []NumbersUnique
<1>1. IInv => NumbersUnique
  BY DEF IInv
<1> QED
  BY <1>1, Invariance, PTL

\* hsfs_iget5_locked caches no server object twice.
THEOREM OneInode == Spec => []HandlesUnique
<1>1. IInv => HandlesUnique
  BY DEF IInv
<1> QED
  BY <1>1, Invariance, PTL

\* inode->private balances with what the kernel holds, has queued to forget
\* and is about to be sent, corrected by dot entries and uncounted links.
THEOREM LedgerBalances == Spec => []Ledger
<1>1. IInv => Ledger
  BY DEF IInv
<1> QED
  BY <1>1, Invariance, PTL

\* Every number the kernel can name is found by hsfs_ilookup.
THEOREM KernelNumbersResolve == Spec => []KernelResolves
<1>1. IInv => KernelResolves
  <2> SUFFICES ASSUME IInv, NEW n \in Id, nlookup[n] + pending[n] + buf[n] > 0
               PROVE  Ilookup(n) # NoInode
    BY Zenon DEF KernelResolves, IInv
  <2>1. nlookup[n] # 0 \/ pending[n] # 0 \/ buf[n] # 0
    BY CounterTypes DEF IInv
  <2>2. IdFind(n) # {}
    BY <2>1 DEF IInv, NumbersBacked
  <2> QED
    BY <2>2, IlookupFinds, Zenon DEF IInv
<1> QED
  BY <1>1, Invariance, PTL

\* Only an entry that hsx_fuse_link did not count makes hsx_fuse_ref_dec stop.
THEOREM UnderflowExplained == Spec => []RefDecOnlyAfterLink
<1>1. IInv => RefDecOnlyAfterLink
  BY DEF IInv
<1> QED
  BY <1>1, Invariance, PTL

\* Only the wrap-around of i_count makes hsfs_iput free an inode.
THEOREM FreeExplained == Spec => []FreedOnlyByWrap
<1>1. IInv => FreedOnlyByWrap
  BY DEF IInv
<1> QED
  BY <1>1, Invariance, PTL

\* hsfs_iget5_locked, wherever it runs, keeps what is cached.
LEMMA Iget5Stable ==
  ASSUME IInv, id_table \subseteq alloc, NEW h \in Handle, NEW i \in Inode, Iget5(h, i)
  PROVE  \A j \in id_table : j \in id_table' /\ ino'[j] = ino[j] /\ fh'[j] = fh[j]
  BY Iget5Effect, Zenon DEF IInv

\* A number given to an object stands for that object as long as the process
\* lives: no step renumbers, removes or replaces a cached inode.
THEOREM NumbersNeverMove == Spec => NumbersStable
<1>1. IInv /\ [Next]_vars =>
        [\A i \in id_table : i \in id_table' /\ ino'[i] = ino[i] /\ fh'[i] = fh[i]]_vars
  <2> DEFINE Keep == \A j \in id_table : j \in id_table' /\ ino'[j] = ino[j] /\ fh'[j] = fh[j]
  <2> SUFFICES ASSUME IInv, Next PROVE Keep
    BY Zenon
  <2>1. CASE UNCHANGED tables
    BY <2>1, Zenon DEF tables
  <2>2. ASSUME NEW i, Iput(i) PROVE Keep
    BY <2>2, Zenon DEF Iput
  <2>3. ASSUME NEW h \in Handle, NEW i \in Inode, Iget5(h, i), id_table \subseteq alloc
        PROVE  Keep
    BY <2>3, Iget5Stable, Zenon
  <2>4. Running => id_table \subseteq alloc
    BY DEF Running, IInv, TablesAgree
  <2>5. CASE FillSuper
    BY <2>5, <2>1, <2>3, Zenon DEF FillSuper, IInv, BeforeUp
  <2>6. CASE FuseInit
    BY <2>1, <2>6, Zenon DEF FuseInit
  <2>7. ASSUME NEW h \in Handle, NEW k, OtherCreate(h, k) PROVE Keep
    BY <2>1, <2>7 DEF OtherCreate
  <2>8. ASSUME NEW n, NEW k, KernelForget(n, k) PROVE Keep
    BY <2>1, <2>8, Zenon DEF KernelForget
  <2>9. ASSUME NEW n, NEW k, Forget(n, k) PROVE Keep
    BY <2>1, <2>2, <2>9 DEF Forget
  <2>10. ASSUME NEW p, NEW h \in Handle, Lookup(p, h) PROVE Keep
    BY <2>1, <2>3, <2>4, <2>10, ZenonT(40) DEF Lookup, Serving, UseErrPtr
  <2>11. ASSUME NEW p, NEW h \in Handle, Mkdir(p, h) \/ Mknod(p, h) \/ Symlink(p, h)
         PROVE  Keep
    <3>1. UseErrPtr \/ (ReplyNew(h) /\ Serving)
      BY <2>11 DEF MakeNode, Mkdir, Mknod, Symlink
    <3> QED
      BY <2>1, <2>3, <2>4, <3>1, Zenon DEF Serving, UseErrPtr, ReplyNew
  <2>12. ASSUME NEW p, NEW how, NEW h \in Handle, Create(p, how, h) PROVE Keep
    BY <2>1, <2>3, <2>4, <2>12, ZenonT(30) DEF Create, Serving, UseErrPtr, ReplyNew
  <2>13. ASSUME NEW p, NEW n, Link(p, n) PROVE Keep
    BY <2>1, <2>13, ZenonT(30) DEF Link
  <2>14. ASSUME NEW h \in Handle, NEW dot, ReaddirGet(h, dot) PROVE Keep
    BY <2>1, <2>3, <2>4, <2>14, ZenonT(30) DEF ReaddirGet
  <2>15. ASSUME NEW p, ReaddirStart(p) PROVE Keep
    BY <2>1, <2>15 DEF ReaddirStart
  <2>16. CASE ReaddirGot \/ ReaddirFill \/ ReaddirReply
    BY <2>1, <2>16, Zenon DEF ReaddirGot, ReaddirFill, ReaddirReply
  <2>17. CASE ReaddirFree
    BY <2>1, <2>2, <2>17, Zenon DEF ReaddirFree
  <2> HIDE DEF Keep
  <2> QED
    BY <2>5, <2>6, <2>7, <2>8, <2>9, <2>10, <2>11, <2>12, <2>13, <2>14, <2>15, <2>16,
       <2>17, Zenon DEF Next
<1> QED
  BY <1>1, Invariance, PTL DEF Spec, NumbersStable

-----------------------------------------------------------------------------
(* InodeCache implements NodeNumbers: every step of the daemon, the kernel and the
   server is a step of the abstract specification or changes neither the numbers
   nor what the kernel holds of them. *)

\* What is given is a number of the ledger's type.
LEMMA HeldTypes ==
  ASSUME TypeOK
  PROVE  /\ Held \in [Id -> Nat]
         /\ \A n \in Id : /\ Held[n] = nlookup[n] + pending[n] + buf[n]
                          /\ nlookup[n] \in Nat /\ pending[n] \in Nat /\ buf[n] \in Nat
<1>1. \A n \in Id : nlookup[n] \in Nat /\ pending[n] \in Nat /\ buf[n] \in Nat
  BY Zenon DEF TypeOK
<1> QED
  BY <1>1 DEF Held

\* hsfs_iget5_locked binds the number of the inode it returns to the object,
\* or finds it bound.
LEMMA Iget5Resolves ==
  ASSUME IInv, id_table \subseteq alloc, NEW h \in Handle, NEW i \in Inode, Iget5(h, i)
  PROVE  ino'[i] \in Id /\ Ids!Resolve(ino'[i], h)
<1>0. alloc = id_table /\ fh_table = id_table /\ id_table \subseteq Inode
  BY Zenon DEF IInv, TablesAgree, TypeOK
<1>1. /\ ino' \in [Inode -> Id] /\ id_table' = id_table \cup {i}
      /\ \A j \in id_table : ino'[j] = ino[j] /\ fh'[j] = fh[j]
      /\ i \notin id_table => IdFind(ino'[i]) = {}
  BY Iget5Effect, Zenon DEF IInv
<1>2. CASE i \in FhFind(h) /\ UNCHANGED <<tables, i_count>>
  <2>1. i \in id_table /\ fh[i] = h /\ UNCHANGED <<id_table, ino, fh>>
    BY <1>0, <1>2 DEF FhFind, tables
  <2>2. <<ino'[i], h>> \in Bound /\ UNCHANGED Bound
    BY <2>1, Zenon DEF Bound
  <2> QED
    BY <1>1, <2>2, Zenon DEF Ids!Resolve
<1>3. CASE FhFind(h) = {} /\ i \in Inode \ alloc /\ AddToLists(i, h)
  <2>1. i \notin id_table /\ fh'[i] = h
    BY <1>0, <1>3, Zenon DEF AddToLists, IInv, TypeOK
  <2>2. \A j \in id_table : ino[j] # ino'[i] /\ fh[j] # h
    BY <1>0, <1>1, <1>3, <2>1, Zenon DEF IdFind, FhFind, IInv, NumbersUnique
  <2>3. Ids!Free(ino'[i], h)
    BY <2>2 DEF Ids!Free, Bound
  <2>4. Bound' = Bound \cup {<<ino'[i], h>>}
    BY <1>1, <2>1, Zenon DEF Bound
  <2> QED
    BY <1>1, <2>3, <2>4, Zenon DEF Ids!Resolve
<1> QED
  BY <1>2, <1>3, Zenon DEF Iget5

\* A step that leaves the numbers alone, and one that leaves the counts alone.
LEMMA BoundFrame == ASSUME UNCHANGED <<id_table, ino, fh>> PROVE UNCHANGED Bound
  BY Zenon DEF Bound

LEMMA HeldFrame == ASSUME UNCHANGED <<nlookup, pending, buf>> PROVE UNCHANGED Held
  BY Zenon DEF Held

\* An inode is cached and the kernel is told nothing.
LEMMA CacheStep ==
  ASSUME IInv, id_table \subseteq alloc, NEW h \in Handle, NEW i \in Inode, Iget5(h, i),
         UNCHANGED <<nlookup, pending, buf>>
  PROVE  Ids!Next
<1>1. ino'[i] \in Id /\ Ids!Cache(ino'[i], h)
  BY Iget5Resolves, HeldFrame, Zenon DEF Ids!Cache
<1> QED
  BY <1>1 DEF Ids!Next

\* The counts after a step that moves one of them.
LEMMA HeldAt ==
  ASSUME NEW n \in Id, NEW d,
         \A m \in Id : nlookup'[m] + pending'[m] + buf'[m] =
                         IF m = n THEN Held[m] + d ELSE Held[m]
  PROVE  Held' = [Held EXCEPT ![n] = @ + d]
  BY Zenon DEF Held

\* fuse_reply_entry and its kind give one more lookup of a number.
LEMMA ReplyGives ==
  ASSUME TypeOK, NEW n \in Id, ReplyEntry(n), UNCHANGED <<pending, buf>>
  PROVE  Held' = [Held EXCEPT ![n] = @ + 1]
<1>1. nlookup' = [nlookup EXCEPT ![n] = @ + 1]
  BY Zenon DEF ReplyEntry
<1>2. \A m \in Id : nlookup'[m] = IF m = n THEN nlookup[m] + 1 ELSE nlookup[m]
  BY <1>1, Zenon DEF TypeOK
<1>3. ASSUME NEW m \in Id
      PROVE  nlookup'[m] + pending'[m] + buf'[m] = IF m = n THEN Held[m] + 1 ELSE Held[m]
  <2>1. nlookup[m] \in Nat /\ pending[m] \in Nat /\ buf[m] \in Nat
    BY HeldTypes, Zenon
  <2>2. Held[m] = nlookup[m] + pending[m] + buf[m]
    BY HeldTypes
  <2>3. nlookup'[m] = IF m = n THEN nlookup[m] + 1 ELSE nlookup[m]
    BY <1>2, Zenon
  <2> QED
    BY <2>1, <2>2, <2>3
<1> QED
  BY <1>3, HeldAt, Zenon

\* An inode is found or cached and the kernel is given its number.
LEMMA GiveStep ==
  ASSUME IInv, id_table \subseteq alloc, NEW h \in Handle, NEW i \in Inode, Iget5(h, i),
         ReplyEntry(ino'[i]), UNCHANGED <<pending, buf>>
  PROVE  Ids!Next
<1>1. ino'[i] \in Id /\ Ids!Resolve(ino'[i], h)
  BY Iget5Resolves, Zenon
<1>2. Held' = [Held EXCEPT ![ino'[i]] = @ + 1]
  BY <1>1, ReplyGives, Zenon DEF IInv
<1>3. Ids!Give(ino'[i], h)
  BY <1>1, <1>2 DEF Ids!Give
<1> QED
  BY <1>1, <1>3, Zenon DEF Ids!Next

\* A number in the table is given again, the table as it was.
LEMMA GiveAgain ==
  ASSUME IInv, NEW i \in id_table, UNCHANGED <<id_table, ino, fh>>,
         Held' = [Held EXCEPT ![ino[i]] = @ + 1]
  PROVE  Ids!Next
<1>1. ino[i] \in Id /\ fh[i] \in Handle
  BY DEF IInv, TypeOK
<1>2. <<ino[i], fh[i]>> \in Bound /\ UNCHANGED Bound
  BY BoundFrame, Zenon DEF Bound
<1>3. Ids!Give(ino[i], fh[i])
  BY <1>2, Zenon DEF Ids!Give, Ids!Resolve
<1> QED
  BY <1>1, <1>3, Zenon DEF Ids!Next

\* Steps that change neither.
LEMMA Stutter ==
  ASSUME UNCHANGED <<id_table, ino, fh, nlookup, pending, buf>>
  PROVE  UNCHANGED <<Bound, Held>>
  BY BoundFrame, HeldFrame

\* hsx_fuse_init on the root: the kernel's first lookup.
LEMMA FuseInitGives == ASSUME IInv, FuseInit PROVE Ids!Next
<1> DEFINE i == Ilookup(1)
<1>1. /\ status = "init" /\ i \in id_table /\ ino[i] = 1
  BY IlookupFinds, Zenon DEF FuseInit, IInv, BeforeUp
<1>2. /\ nlookup' = [nlookup EXCEPT ![1] = 1]
      /\ UNCHANGED <<id_table, ino, fh, pending, buf>>
  BY DEF FuseInit, tables, readdir
<1> HIDE DEF i
<1>3. 1 \in Id
  BY ConstantsAssumption DEF Id
<1>4. \A n \in Id : nlookup[n] = 0 /\ pending[n] = 0 /\ buf[n] = 0
  BY <1>1, Zenon DEF IInv, BeforeUp
<1>5. \A n \in Id : nlookup'[n] = IF n = 1 THEN 1 ELSE 0
  BY <1>2, <1>4, Zenon DEF IInv, TypeOK
<1>6. \A n \in Id : Held[n] = 0
  BY <1>4 DEF Held
<1>7. \A n \in Id : nlookup'[n] + pending'[n] + buf'[n] = IF n = 1 THEN Held[n] + 1 ELSE Held[n]
  BY <1>2, <1>4, <1>5, <1>6
<1>8. Held' = [Held EXCEPT ![ino[i]] = @ + 1]
  BY <1>1, <1>3, <1>7, HeldAt, Zenon
<1> QED
  BY <1>1, <1>2, <1>8, GiveAgain, Zenon

\* hsx_fuse_forget takes back what the kernel returns.
LEMMA ForgetReturns ==
  ASSUME IInv, NEW n \in Id, NEW k \in 1 .. MaxCount, Forget(n, k)
  PROVE  Ids!Next
<1>1. /\ k \in 1 .. pending[n] /\ pending' = [pending EXCEPT ![n] = @ - k]
      /\ UNCHANGED <<nlookup, buf>>
  BY Zenon DEF Forget, readdir
<1>2. UNCHANGED <<id_table, ino, fh>>
  BY Zenon DEF Forget, Iput, tables
<1>3. /\ nlookup[n] \in Nat /\ pending[n] \in Nat /\ buf[n] \in Nat
      /\ Held[n] = nlookup[n] + pending[n] + buf[n]
  BY HeldTypes, Zenon DEF IInv
<1>4. k \in 1 .. Held[n] /\ k \in Int
  BY <1>1, <1>3
<1>5. ASSUME NEW m \in Id
      PROVE  nlookup'[m] + pending'[m] + buf'[m] = IF m = n THEN Held[m] - k ELSE Held[m]
  <2>1. nlookup[m] \in Nat /\ pending[m] \in Nat /\ buf[m] \in Nat
    BY HeldTypes DEF IInv
  <2>2. Held[m] = nlookup[m] + pending[m] + buf[m]
    BY HeldTypes, Zenon DEF IInv
  <2>3. pending'[m] = IF m = n THEN pending[m] - k ELSE pending[m]
    BY <1>1, Zenon DEF IInv, TypeOK
  <2> QED
    BY <1>1, <1>4, <2>1, <2>2, <2>3
<1>6. Held' = [Held EXCEPT ![n] = @ - k]
  BY <1>5, Zenon DEF Held
<1>7. Ids!Return(n, k)
  BY <1>2, <1>6, BoundFrame, Zenon DEF Ids!Return
<1> QED
  BY <1>4, <1>7, Zenon DEF Ids!Next

\* Between the kernel's table, its queue of FORGETs and the buffer of a
\* directory answer, counts move and none is lost.
LEMMA CountsMove ==
  ASSUME TypeOK, UNCHANGED <<id_table, ino, fh>>,
         \A m \in Id : nlookup'[m] + pending'[m] + buf'[m] = nlookup[m] + pending[m] + buf[m]
  PROVE  UNCHANGED <<Bound, Held>>
  BY BoundFrame, Zenon DEF Held

LEMMA KernelForgetMoves ==
  ASSUME IInv, NEW n \in Id, NEW k \in 1 .. MaxCount, KernelForget(n, k)
  PROVE  UNCHANGED <<Bound, Held>>
<1>1. /\ k \in 1 .. nlookup[n]
      /\ nlookup' = [nlookup EXCEPT ![n] = @ - k]
      /\ pending' = [pending EXCEPT ![n] = @ + k]
      /\ UNCHANGED <<id_table, ino, fh, buf>>
  BY Zenon DEF KernelForget, tables, readdir
<1>2. ASSUME NEW m \in Id
      PROVE  nlookup'[m] + pending'[m] + buf'[m] = nlookup[m] + pending[m] + buf[m]
  <2>1. nlookup[m] \in Nat /\ pending[m] \in Nat /\ buf[m] \in Nat /\ k \in Int
    BY HeldTypes DEF IInv
  <2>2. /\ nlookup'[m] = IF m = n THEN nlookup[m] - k ELSE nlookup[m]
        /\ pending'[m] = IF m = n THEN pending[m] + k ELSE pending[m]
    BY <1>1, Zenon DEF IInv, TypeOK
  <2> QED
    BY <1>1, <2>1, <2>2
<1> QED
  BY <1>1, <1>2, CountsMove, Zenon DEF IInv

LEMMA ReaddirReplyMoves == ASSUME IInv, ReaddirReply PROVE UNCHANGED <<Bound, Held>>
<1>1. /\ nlookup' = [m \in Id |-> nlookup[m] + buf[m]] /\ buf' = [m \in Id |-> 0]
      /\ UNCHANGED <<id_table, ino, fh, pending>>
  BY Zenon DEF ReaddirReply, tables
<1>2. ASSUME NEW m \in Id
      PROVE  nlookup'[m] + pending'[m] + buf'[m] = nlookup[m] + pending[m] + buf[m]
  <2>1. nlookup[m] \in Nat /\ pending[m] \in Nat /\ buf[m] \in Nat
    BY HeldTypes, Zenon DEF IInv
  <2>2. nlookup'[m] = nlookup[m] + buf[m] /\ buf'[m] = 0 /\ pending'[m] = pending[m]
    BY <1>1
  <2> QED
    BY <2>1, <2>2
<1> QED
  BY <1>1, <1>2, CountsMove, Zenon DEF IInv

\* A directory entry in the buffer is a number given.
LEMMA ReaddirFillGives ==
  ASSUME IInv, ReaddirFill PROVE Ids!Next \/ UNCHANGED <<Bound, Held>>
<1> DEFINE i == Head(ctx).inode
<1>1. /\ i \in id_table \cup {NoInode} /\ UNCHANGED <<id_table, ino, fh, nlookup, pending>>
  BY CtxTail, Zenon DEF ReaddirFill, tables, kernel
<1>2. i = NoInode \/ Head(ctx).dot => UNCHANGED buf
  BY Zenon DEF ReaddirFill
<1>3. ~(i = NoInode \/ Head(ctx).dot) => buf' = [buf EXCEPT ![ino[i]] = @ + 1]
  BY Zenon DEF ReaddirFill
<1> HIDE DEF i
<1>4. CASE i = NoInode \/ Head(ctx).dot
  BY <1>1, <1>2, <1>4, Stutter
<1>5. CASE ~(i = NoInode \/ Head(ctx).dot)
  <2>1. i \in id_table /\ ino[i] \in Id
    BY <1>1, <1>5, Zenon DEF IInv, TypeOK
  <2>2. ASSUME NEW m \in Id
        PROVE  nlookup'[m] + pending'[m] + buf'[m] = IF m = ino[i] THEN Held[m] + 1 ELSE Held[m]
    <3>1. nlookup[m] \in Nat /\ pending[m] \in Nat /\ buf[m] \in Nat
      BY HeldTypes DEF IInv
    <3>2. Held[m] = nlookup[m] + pending[m] + buf[m]
      BY HeldTypes, Zenon DEF IInv
    <3>3. buf'[m] = IF m = ino[i] THEN buf[m] + 1 ELSE buf[m]
      BY <1>3, <1>5, Zenon DEF IInv, TypeOK
    <3> QED
      BY <1>1, <3>1, <3>2, <3>3
  <2>3. Held' = [Held EXCEPT ![ino[i]] = @ + 1]
    BY <2>1, <2>2, HeldAt
  <2> QED
    BY <1>1, <2>1, <2>3, GiveAgain, Zenon
<1> QED
  BY <1>4, <1>5, Zenon

\* hsx_fuse_link gives the number of an inode it has.
LEMMA LinkGives == ASSUME IInv, NEW p \in Id, NEW n \in Id, Link(p, n) PROVE Ids!Next
<1>1. Ilookup(n) \in id_table /\ ino[Ilookup(n)] = n
  BY IlookupFinds, Zenon DEF Link, Known, IInv
<1>2. ReplyEntry(n) /\ UNCHANGED <<id_table, ino, fh, pending, buf>>
  BY <1>1 DEF Link, tables, readdir
<1>3. Held' = [Held EXCEPT ![ino[Ilookup(n)]] = @ + 1]
  BY <1>1, <1>2, ReplyGives, Zenon DEF IInv
<1> QED
  BY <1>1, <1>2, <1>3, GiveAgain, ZenonT(40)

\* Every step maps to a step of NodeNumbers or to none.
LEMMA StepsMap == IInv /\ [Next]_vars => [Ids!Next]_(Ids!vars)
<1> DEFINE Maps == Ids!Next \/ UNCHANGED <<Bound, Held>>
<1> SUFFICES ASSUME IInv, [Next]_vars PROVE Maps
  BY DEF Ids!vars
<1>1. CASE UNCHANGED <<tables, nlookup, pending, buf>>
  BY <1>1, Stutter, Zenon DEF tables
<1>2. ASSUME NEW i, Iput(i), UNCHANGED <<nlookup, pending, buf>> PROVE Maps
  BY <1>2, Stutter, Zenon DEF Iput
<1>3. ASSUME NEW h \in Handle, NEW i \in Inode, Iget5(h, i), id_table \subseteq alloc,
             UNCHANGED <<nlookup, pending, buf>>
      PROVE  Maps
  BY <1>3, CacheStep, Zenon
<1>4. ASSUME NEW h \in Handle, NEW i \in Inode, Iget5(h, i), id_table \subseteq alloc,
             ReplyEntry(ino'[i]), UNCHANGED <<pending, buf>>
      PROVE  Maps
  BY <1>4, GiveStep, Zenon
<1>5. Running => id_table \subseteq alloc
  BY Zenon DEF Running, IInv, TablesAgree
<1>6. CASE UseErrPtr
  BY <1>1, <1>6 DEF UseErrPtr, kernel, readdir
<1>7. ASSUME NEW h \in Handle, ReplyNew(h), Running PROVE Maps
  <2>1. UNCHANGED <<pending, buf>>
    BY <1>7 DEF ReplyNew, readdir
  <2>2. PICK i \in Inode : Iget5(h, i) /\ (ReplyEntry(ino'[i]) \/ UNCHANGED nlookup)
    BY <1>7, Zenon DEF ReplyNew
  <2> QED
    BY <1>3, <1>4, <1>5, <1>7, <2>1, <2>2, Zenon
<1> HIDE DEF Maps
<1>8. CASE FillSuper
  <2>1. id_table \subseteq alloc /\ UNCHANGED <<nlookup, pending, buf>>
    BY <1>8, Zenon DEF FillSuper, IInv, BeforeUp, kernel, readdir
  <2> QED
    BY <1>1, <1>3, <1>8, <2>1, ConstantsAssumption, Zenon DEF FillSuper
<1>9. CASE FuseInit
  BY <1>9, FuseInitGives, Zenon DEF Maps
<1>10. ASSUME NEW h \in Handle, NEW k, OtherCreate(h, k) PROVE Maps
  BY <1>1, <1>10, Zenon DEF OtherCreate, kernel, readdir
<1>11. ASSUME NEW n \in Id, NEW k \in 1 .. MaxCount, KernelForget(n, k) PROVE Maps
  BY <1>11, KernelForgetMoves, Zenon DEF Maps
<1>12. ASSUME NEW n \in Id, NEW k \in 1 .. MaxCount, Forget(n, k) PROVE Maps
  BY <1>12, ForgetReturns DEF Maps
<1>13. ASSUME NEW p, NEW h \in Handle, Lookup(p, h) PROVE Maps
  BY <1>4, <1>5, <1>6, <1>13, ZenonT(30) DEF Lookup, Serving, readdir
<1>14. ASSUME NEW p, NEW h \in Handle, Mkdir(p, h) \/ Mknod(p, h) \/ Symlink(p, h)
       PROVE  Maps
  BY <1>6, <1>7, <1>14, Zenon DEF MakeNode, Mkdir, Mknod, Symlink, Serving
<1>15. ASSUME NEW p, NEW how, NEW h \in Handle, Create(p, how, h) PROVE Maps
  BY <1>3, <1>5, <1>6, <1>7, <1>15, ZenonT(30) DEF Create, Serving, kernel, readdir
<1>16. ASSUME NEW p \in Id, NEW n \in Id, Link(p, n) PROVE Maps
  BY <1>16, LinkGives DEF Maps
<1>17. ASSUME NEW h \in Handle, NEW dot, ReaddirGet(h, dot) PROVE Maps
  BY <1>1, <1>3, <1>5, <1>17, ZenonT(30) DEF ReaddirGet, kernel
<1>18. ASSUME NEW p, ReaddirStart(p) PROVE Maps
  BY <1>1, <1>18, Zenon DEF ReaddirStart, kernel
<1>19. CASE ReaddirGot
  BY <1>1, <1>19 DEF ReaddirGot, kernel
<1>20. CASE ReaddirFree
  BY <1>1, <1>2, <1>20, Zenon DEF ReaddirFree, kernel
<1>21. CASE ReaddirFill
  BY <1>21, ReaddirFillGives, Zenon DEF Maps
<1>22. CASE ReaddirReply
  BY <1>22, ReaddirReplyMoves, Zenon DEF Maps
<1>23. CASE UNCHANGED vars
  BY <1>1, <1>23 DEF vars, kernel, readdir
<1> QED
  BY <1>8, <1>9, <1>10, <1>11, <1>12, <1>13, <1>14, <1>15, <1>16, <1>17, <1>18, <1>19, <1>20,
     <1>21, <1>22, <1>23, Zenon DEF Next

\* The tables, the usage counts, the handlers' references and the directory
\* buffers implement the numbering a FUSE file system owes the kernel, for any
\* number of inodes, handles and identifiers and any width of the counts.
THEOREM Refinement == Spec => ImplementsNodeNumbers
<1>1. Init => Ids!Init
  <2> SUFFICES ASSUME Init PROVE Ids!Init
    BY Zenon
  <2>1. Bound = {}
    BY Zenon DEF Init, Bound
  <2>2. Held = [n \in Id |-> 0]
    BY DEF Init, Held
  <2> QED
    BY <2>1, <2>2 DEF Ids!Init
<1> QED
  BY <1>1, StepsMap, Invariance, PTL DEF Spec, ImplementsNodeNumbers, Ids!Spec
=============================================================================
