------------------------- MODULE IgetWorkersLemmas --------------------------
(***************************************************************************)
(* Proofs about IgetWorkers, first part: walking a chain, and what a step  *)
(* of hsfs_iget5_locked keeps of the types, the inodes in hand and the     *)
(* chains.                                                                 *)
(***************************************************************************)
EXTENDS IgetWorkers, FiniteSetTheorems, TLAPS

-----------------------------------------------------------------------------
(* Walking a chain *)

\* A nonempty set of positions has a least one, where the walk stops.
LEMMA LeastInSet ==
  ASSUME NEW S, S \subseteq Nat, S # {}
  PROVE  Least(S) \in S /\ \A y \in S : Least(S) <= y
<1> DEFINE R == OpToRel(<, Nat)
<1>1. IsWellFoundedOn(R, Nat)
  BY NatLessThanWellFounded, Zenon
<1>2. PICK x \in S : \A y \in S : ~(<<y, x>> \in R)
  BY <1>1, WFMin, Zenon
<1>3. \A y \in S : ~(y < x)
  BY <1>2, S \subseteq Nat, Zenon DEF OpToRel
<1>4. \A y \in S : x <= y
  BY <1>3, S \subseteq Nat
<1> QED
  BY <1>4, Zenon DEF Least

\* The walk finds nothing exactly when no node of the chain is wanted, and what
\* it finds is a node of the chain and wanted.
LEMMA FirstFinds ==
  ASSUME NEW s \in Seq(Inode), NEW S
  PROVE  /\ FirstOf(s, S) = Null <=> \A k \in DOMAIN s : s[k] \notin S
         /\ FirstOf(s, S) # Null => /\ FirstOf(s, S) \in S
                                    /\ FirstOf(s, S) \in Inode
                                    /\ \E k \in DOMAIN s : s[k] = FirstOf(s, S)
<1> DEFINE hits == {k \in DOMAIN s : s[k] \in S}
<1>1. DOMAIN s \subseteq Nat /\ \A k \in DOMAIN s : s[k] \in Inode
  OBVIOUS
<1>2. Null \notin Inode
  BY WorkersAssumption
<1>3. CASE hits = {}
  BY <1>3, Zenon DEF FirstOf
<1>4. CASE hits # {}
  <2>1. Least(hits) \in hits
    BY <1>1, <1>4, LeastInSet, Zenon
  <2>2. FirstOf(s, S) = s[Least(hits)]
    BY <1>4, Zenon DEF FirstOf
  <2> HIDE DEF hits
  <2> DEFINE m == Least(hits)
  <2>3. m \in DOMAIN s /\ s[m] \in S
    BY <2>1 DEF hits
  <2> QED
    BY <1>1, <1>2, <2>2, <2>3, Zenon
<1> QED
  BY <1>3, <1>4

\* Whether the walk stops at a node depends on the nodes of the chain only.
LEMMA FirstSame ==
  ASSUME NEW s, NEW S, NEW T, \A k \in DOMAIN s : s[k] \in S <=> s[k] \in T
  PROVE  FirstOf(s, S) = FirstOf(s, T)
<1>1. {k \in DOMAIN s : s[k] \in S} = {k \in DOMAIN s : s[k] \in T}
  OBVIOUS
<1> QED
  BY <1>1, Zenon DEF FirstOf

\* hlist_add_head puts its node before all that the chain had.
LEMMA FirstLinked ==
  ASSUME NEW s \in Seq(Inode), NEW i \in Inode, NEW S
  PROVE  FirstOf(<<i>> \o s, S) = IF i \in S THEN i ELSE FirstOf(s, S)
<1> DEFINE t == <<i>> \o s
           new == {k \in DOMAIN t : t[k] \in S}
           old == {k \in DOMAIN s : s[k] \in S}
<1>1. /\ t \in Seq(Inode) /\ DOMAIN t = 1 .. Len(s) + 1 /\ DOMAIN s = 1 .. Len(s)
      /\ t[1] = i /\ \A k \in DOMAIN s : t[k + 1] = s[k]
      /\ Len(s) \in Nat
  BY SMT
<1>2. FirstOf(t, S) = IF new = {} THEN Null ELSE t[Least(new)]
  BY Zenon DEF FirstOf
<1>3. FirstOf(s, S) = IF old = {} THEN Null ELSE s[Least(old)]
  BY Zenon DEF FirstOf
<1> HIDE DEF t
<1>4. new \subseteq Nat /\ old \subseteq Nat
  BY <1>1
<1>5. CASE i \in S
  <2>1. 1 \in new
    BY <1>1, <1>5
  <2>2. Least(new) \in new /\ Least(new) <= 1
    BY <1>4, <2>1, LeastInSet, Zenon
  <2> DEFINE m == Least(new)
  <2> HIDE DEF m
  <2>3. m \in new /\ m <= 1
    BY <2>2 DEF m
  <2>4. m = 1
    BY <1>1, <2>3
  <2> QED
    BY <1>1, <1>2, <1>5, <2>1, <2>4, Zenon DEF t, m
<1>6. CASE i \notin S
  <2>1. \A k \in new : k - 1 \in old
    BY <1>1, <1>6
  <2>2. \A k \in old : k + 1 \in new
    BY <1>1, <1>6
  <2>3. CASE old = {}
    <3>1. new = {}
      BY <2>1, <2>3, Zenon
    <3> QED
      BY <1>2, <1>3, <1>6, <2>3, <3>1, Zenon DEF t
  <2>4. CASE old # {}
    <3>1. new # {}
      BY <2>2, <2>4, Zenon
    <3> DEFINE m == Least(new)
               n == Least(old)
    <3>2. m \in new /\ \A y \in new : m <= y
      BY <1>4, <3>1, LeastInSet, Zenon
    <3>3. n \in old /\ \A y \in old : n <= y
      BY <1>4, <2>4, LeastInSet, Zenon
    <3> HIDE DEF m, n
    <3>4. m <= n + 1 /\ n <= m - 1
      BY <2>1, <2>2, <3>2, <3>3
    <3>5. m = n + 1
      BY <1>4, <3>2, <3>3, <3>4
    <3>6. t[m] = s[n]
      BY <1>1, <3>3, <3>5
    <3> QED
      BY <1>2, <1>3, <1>6, <2>4, <3>1, <3>6, Zenon DEF t, m, n
  <2> QED
    BY <2>3, <2>4
<1> QED
  BY <1>5, <1>6

-----------------------------------------------------------------------------
(* Types *)

\* Where the walks of __id_ifind and __fh_ifind lead.
LEMMA WalkTypes ==
  ASSUME TypeOK, NEW n, NEW h
  PROVE  Ilookup(n) \in Inode \cup {Null} /\ FhFind(h) \in Inode \cup {Null}
<1>1. id_table \in Seq(Inode) /\ fh_table \in Seq(Inode)
  BY DEF TypeOK
<1> QED
  BY <1>1, FirstFinds, Zenon DEF Ilookup, FhFind

\* A worker that is past malloc has an inode in hand.
LEMMA InHand ==
  ASSUME TypeOK, Hands, NEW w \in Worker, pc[w] \notin Empty
  PROVE  /\ inode[w] \in Inode /\ inode[w] \in Allocated
         /\ inode[w] # Null /\ fh[inode[w]] = want[w] /\ want[w] \in Handle
  BY WorkersAssumption DEF Hands, Allocated, Empty

\* The variables are of their types after every step.
LEMMA TypeStep ==
  ASSUME TypeOK, Hands, [Next]_vars
  PROVE  TypeOK'
<1>1. ASSUME NEW w \in Worker, NEW h \in Handle, Get(w, h)
      PROVE  TypeOK'
  <2>1. pc' \in [Worker -> PCs] /\ want' \in [Worker -> Handle \cup {Root}]
    BY <1>1 DEF Get, Goto, TypeOK, PCs
  <2>2. gets' \in 0 .. MaxGets
    BY <1>1, WorkersAssumption DEF Get, TypeOK
  <2>3. /\ raced' \subseteq Inode /\ crowded' \in BOOLEAN
        /\ UNCHANGED <<super, fields, inode, loaded, first, kernel, status, settled, period>>
    BY <1>1 DEF Get, TypeOK
  <2> QED
    BY <2>1, <2>2, <2>3, Zenon DEF TypeOK, super, fields, kernel
<1>2. ASSUME NEW w \in Worker, Find(w)
      PROVE  TypeOK'
  <2>1. FhFind(want[w]) \in Inode \cup {Null}
    BY WalkTypes
  <2> QED
    BY <1>2, <2>1 DEF Find, At, Goto, TypeOK, PCs, super, fields, kernel, history
<1>3. ASSUME NEW w \in Worker, Alloc(w)
      PROVE  TypeOK'
  <2> DEFINE i == CHOOSE j \in Inode \ Allocated : TRUE
  <2>1. i \in Inode
    BY <1>3 DEF Alloc, Allocated
  <2> HIDE DEF i
  <2>2. /\ inode' = [inode EXCEPT ![w] = i] /\ fh' = [fh EXCEPT ![i] = want[w]]
        /\ period' = period \cup {i}
        /\ raced' = IF crowded THEN raced \cup {i} ELSE raced
    BY <1>3, Zenon DEF Alloc, i
  <2>3. /\ inode' \in [Worker -> Inode \cup {Null}] /\ fh' \in [Inode -> Handle \cup {Root}]
        /\ period' \subseteq Inode /\ raced' \subseteq Inode
    BY <2>1, <2>2 DEF TypeOK
  <2>4. pc' \in [Worker -> PCs]
    BY <1>3 DEF Alloc, Goto, TypeOK, PCs
  <2> QED
    BY <1>3, <2>3, <2>4, Zenon DEF Alloc, TypeOK, super, kernel
<1>4. ASSUME NEW w \in Worker, Load(w)
      PROVE  TypeOK'
  BY <1>4 DEF Load, At, Goto, TypeOK, PCs, super, fields, kernel, history
<1>5. ASSUME NEW w \in Worker, Store(w)
      PROVE  TypeOK'
  <2>1. loaded[w] \in Id /\ loaded[w] + 1 \in Id /\ 0 \in Id
    BY <1>5, WorkersAssumption DEF Store, TypeOK, Id
  <2> QED
    BY <1>5, <2>1, Zenon DEF Store, At, Goto, TypeOK, PCs, fields, kernel, history
<1>6. ASSUME NEW w \in Worker, Test(w)
      PROVE  TypeOK'
  BY <1>6 DEF Test, At, Goto, TypeOK, PCs, super, fields, kernel, history
<1>7. ASSUME NEW w \in Worker, Take(w)
      PROVE  TypeOK'
  BY <1>7, Zenon DEF Take, At, Goto, TypeOK, PCs, super, fields, kernel, history
<1>8. ASSUME NEW w \in Worker, ReadHead(w, "id_head", id_table, "id_link")
      PROVE  TypeOK'
  BY <1>8 DEF ReadHead, At, Goto, TypeOK, PCs, super, fields, kernel, history
<1>9. ASSUME NEW w \in Worker, ReadHead(w, "fh_head", fh_table, "fh_link")
      PROVE  TypeOK'
  BY <1>9 DEF ReadHead, At, Goto, TypeOK, PCs, super, fields, kernel, history
<1>10. ASSUME NEW w \in Worker, LinkId(w)
       PROVE  TypeOK'
  <2>1. inode[w] \in Inode
    BY <1>10, InHand DEF LinkId, At, Empty
  <2>2. Linked(w) \in Seq(Inode) /\ << >> \in Seq(Inode)
    BY <2>1, SMT DEF Linked, TypeOK
  <2> QED
    BY <1>10, <2>2 DEF LinkId, At, Goto, TypeOK, PCs, fields, kernel, history
<1>11. ASSUME NEW w \in Worker, LinkFh(w)
       PROVE  TypeOK'
  <2>1. inode[w] \in Inode
    BY <1>11, InHand DEF LinkFh, At, Empty
  <2>2. Linked(w) \in Seq(Inode) /\ << >> \in Seq(Inode)
    BY <2>1, SMT DEF Linked, TypeOK
  <2> QED
    BY <1>11, <2>2 DEF LinkFh, At, Goto, TypeOK, PCs, fields, kernel, history
<1>12. ASSUME NEW w \in Worker, SetNew(w)
       PROVE  TypeOK'
  BY <1>12, Zenon DEF SetNew, At, Goto, TypeOK, PCs, super, fields, kernel, history
<1>13. ASSUME NEW w \in Worker, Fill(w)
       PROVE  TypeOK'
  <2>1. inode[w] \in Inode
    BY <1>13, InHand DEF Fill, At, Empty
  <2>2. /\ filled' = [filled EXCEPT ![inode[w]] = filled[inode[w]] \/ i_new[inode[w]]]
        /\ i_new' = [i_new EXCEPT ![inode[w]] = FALSE]
    BY <1>13, <2>1 DEF Fill, TypeOK
  <2>3. filled[inode[w]] \in BOOLEAN /\ i_new[inode[w]] \in BOOLEAN
    BY <2>1 DEF TypeOK
  <2>4. (filled[inode[w]] \/ i_new[inode[w]]) \in BOOLEAN
    BY <2>3, Zenon
  <2>5. filled' \in [Inode -> BOOLEAN] /\ i_new' \in [Inode -> BOOLEAN]
    BY <2>2, <2>4, Zenon DEF TypeOK
  <2> QED
    BY <1>13, <2>5, Zenon DEF Fill, At, Goto, TypeOK, PCs, super, kernel, history
<1>14. ASSUME NEW w \in Worker, RefInc(w)
       PROVE  TypeOK'
  <2>1. inode[w] \in Inode
    BY <1>14, InHand DEF RefInc, At, Empty
  <2> QED
    BY <1>14, <2>1 DEF RefInc, At, Goto, TypeOK, PCs, super, fields, kernel, history
<1>15. ASSUME NEW w \in Worker, Reply(w)
       PROVE  TypeOK'
  <2>1. inode[w] \in Inode /\ want[w] \in Handle
    BY <1>15, InHand DEF Reply, At, Empty
  <2>2. ino[inode[w]] \in Id
    BY <2>1 DEF TypeOK
  <2>3. nlookup' \in [Id -> Nat] /\ told' \subseteq Id \X (Handle \cup {Root})
    BY <1>15, <2>1, <2>2 DEF Reply, TypeOK
  <2>4. /\ inode' \in [Worker -> Inode \cup {Null}] /\ pc' \in [Worker -> PCs]
        /\ want' \in [Worker -> Handle \cup {Root}]
    BY <1>15 DEF Reply, At, Goto, TypeOK, PCs
  <2>5. /\ settled' \subseteq Inode /\ period' \subseteq Inode /\ raced' \subseteq Inode
        /\ crowded' \in BOOLEAN
    BY <1>15, Zenon DEF Reply, Quiesce, history, TypeOK
  <2> QED
    BY <1>15, <2>3, <2>4, <2>5, Zenon DEF Reply, TypeOK, super, fields
<1>16. ASSUME NEW n \in Id, Forget(n)
       PROVE  TypeOK'
  <2>1. private' \in [Inode -> Nat]
    <3>1. CASE status' = "up"
      <4>1. Ilookup(n) \in Inode /\ private[Ilookup(n)] >= nlookup[n]
        <5>1. Ilookup(n) # Null /\ ~(private[Ilookup(n)] < nlookup[n])
          BY <1>16, <3>1 DEF Forget
        <5>2. Ilookup(n) \in Inode
          BY <5>1, WalkTypes
        <5> QED
          BY <5>1, <5>2 DEF TypeOK
      <4>2. private' = [private EXCEPT ![Ilookup(n)] = private[Ilookup(n)] - nlookup[n]]
        BY <1>16, <3>1, <4>1 DEF Forget, TypeOK
      <4> QED
        BY <4>1, <4>2 DEF TypeOK
    <3>2. CASE status' # "up"
      BY <1>16, <3>2 DEF Forget, TypeOK
    <3> QED
      BY <3>1, <3>2
  <2>2. status' \in {"up", "forget_null", "ref_dec"}
    BY <1>16 DEF Forget
  <2> QED
    BY <1>16, <2>1, <2>2 DEF Forget, TypeOK, super, locals, history
<1>17. CASE UNCHANGED vars
  BY <1>17 DEF vars, super, fields, locals, kernel, history, TypeOK
<1> QED
  BY <1>1, <1>2, <1>3, <1>4, <1>5, <1>6, <1>7, <1>8, <1>9, <1>10, <1>11, <1>12, <1>13,
     <1>14, <1>15, <1>16, <1>17, Zenon DEF Next, Work

-----------------------------------------------------------------------------
(* What a step keeps *)

\* get_new_inode makes one inode that no worker and no chain had.
LEMMA AllocMakes ==
  ASSUME TypeOK, Hands, NEW w \in Worker, Alloc(w)
  PROVE  \E i \in Inode \ Allocated :
           /\ inode' = [inode EXCEPT ![w] = i] /\ fh' = [fh EXCEPT ![i] = want[w]]
           /\ period' = period \cup {i}
           /\ raced' = IF crowded THEN raced \cup {i} ELSE raced
           /\ Allocated' = Allocated \cup {i}
<1> DEFINE i == CHOOSE j \in Inode \ Allocated : TRUE
<1>1. i \in Inode \ Allocated
  BY DEF Alloc, Allocated
<1> HIDE DEF i
<1>2. /\ inode' = [inode EXCEPT ![w] = i] /\ fh' = [fh EXCEPT ![i] = want[w]]
      /\ period' = period \cup {i}
      /\ raced' = IF crowded THEN raced \cup {i} ELSE raced
  BY Zenon DEF Alloc, i
<1>3. want[w] \in Handle /\ want[w] # Root
  BY WorkersAssumption DEF Alloc, At, Hands
<1>4. Allocated' = Allocated \cup {i}
  BY <1>1, <1>2, <1>3 DEF Allocated, TypeOK
<1> QED
  BY <1>1, <1>2, <1>4, Zenon

\* Only Alloc writes handles.
LEMMA AllocatedSame ==
  ASSUME fh' = fh
  PROVE  Allocated' = Allocated
  BY Zenon DEF Allocated

\* An inode keeps its handle, and its number once it has one.
LEMMA FieldsKept ==
  ASSUME TypeOK, Hands, [Next]_vars
  PROVE  \A j \in Allocated :
           j \in Allocated' /\ fh'[j] = fh[j] /\ (ino[j] # 0 => ino'[j] = ino[j])
<1>1. CASE \E w \in Worker : Alloc(w)
  <2> PICK w \in Worker : Alloc(w)
    BY <1>1
  <2>1. PICK i \in Inode \ Allocated :
          fh' = [fh EXCEPT ![i] = want[w]] /\ Allocated' = Allocated \cup {i}
    BY AllocMakes
  <2>2. ino' = ino
    BY DEF Alloc
  <2> QED
    BY <2>1, <2>2 DEF TypeOK, Allocated
<1>2. CASE \E w \in Worker : Take(w)
  <2> PICK w \in Worker : Take(w)
    BY <1>2
  <2>1. inode[w] \in Inode /\ ino[inode[w]] = 0
    BY InHand DEF Take, At, Hands, Empty, Unnumbered
  <2>2. ino' = [ino EXCEPT ![inode[w]] = curr_id] /\ fh' = fh
    BY DEF Take
  <2> QED
    BY <2>1, <2>2, AllocatedSame DEF TypeOK, Allocated
<1>3. CASE ~(\E w \in Worker : Alloc(w)) /\ ~(\E w \in Worker : Take(w))
  <2>1. ino' = ino /\ fh' = fh
    BY <1>3, Zenon DEF Next, Work, vars, super, fields, kernel, history, Get, Find, Load, Store,
         Test, ReadHead, LinkId, LinkFh, SetNew, Fill, RefInc, Reply, Forget
  <2> QED
    BY <2>1, AllocatedSame, Zenon
<1> QED
  BY <1>1, <1>2, <1>3

\* The chains of a step: none is new but the one that hlist_add_head writes.
LEMMA ChainsKept ==
  ASSUME TypeOK, Hands, [Next]_vars
  PROVE  /\ \A s \in IdChains' : s \in IdChains \/ \E w \in Worker : LinkId(w) /\ s = Linked(w)
         /\ \A s \in FhChains' : s \in FhChains \/ \E w \in Worker : LinkFh(w) /\ s = Linked(w)
<1>1. ASSUME NEW w \in Worker, NEW h \in Handle, Get(w, h)
      PROVE  IdChains' \subseteq IdChains /\ FhChains' \subseteq FhChains
  <2>1. /\ UNCHANGED <<id_table, fh_table, first>> /\ pc'[w] = "find"
        /\ \A v \in Worker \ {w} : pc'[v] = pc[v]
    BY <1>1 DEF Get, Goto, super, TypeOK
  <2> QED
    BY <2>1, Zenon DEF IdChains, FhChains
<1>2. ASSUME NEW w \in Worker,
             \/ Find(w) \/ Alloc(w) \/ Load(w) \/ Store(w) \/ Test(w) \/ Take(w)
             \/ SetNew(w) \/ Fill(w) \/ RefInc(w) \/ Reply(w)
      PROVE  IdChains' \subseteq IdChains /\ FhChains' \subseteq FhChains
  <2>1. /\ id_table' = id_table /\ fh_table' = fh_table /\ first' = first
        /\ \A v \in Worker : pc'[v] \in {"id_link", "fh_link"} => pc'[v] = pc[v]
    BY <1>2 DEF Find, Alloc, Load, Store, Test, Take, SetNew, Fill, RefInc, Reply, Goto,
         super, TypeOK
  <2> QED
    BY <2>1, Zenon DEF IdChains, FhChains
<1>3. ASSUME NEW w \in Worker,
             \/ ReadHead(w, "id_head", id_table, "id_link")
             \/ ReadHead(w, "fh_head", fh_table, "fh_link")
      PROVE  IdChains' \subseteq IdChains /\ FhChains' \subseteq FhChains
  <2>1. /\ id_table' = id_table /\ fh_table' = fh_table
        /\ \A v \in Worker : v # w => first'[v] = first[v] /\ pc'[v] = pc[v]
        /\ pc'[w] = "id_link" => first'[w] = id_table
        /\ pc'[w] = "fh_link" => first'[w] = fh_table
    BY <1>3 DEF ReadHead, Goto, super, TypeOK
  <2> QED
    BY <2>1 DEF IdChains, FhChains
<1>4. ASSUME NEW w \in Worker, LinkId(w)
      PROVE  IdChains' \subseteq IdChains \cup {Linked(w)} /\ FhChains' \subseteq FhChains
  <2>1. /\ id_table' = Linked(w) /\ fh_table' = fh_table
        /\ \A v \in Worker : /\ pc'[v] \in {"id_link", "fh_link"} => pc'[v] = pc[v] /\ v # w
                             /\ v # w => first'[v] = first[v]
    BY <1>4 DEF LinkId, Goto, TypeOK
  <2> QED
    BY <2>1 DEF IdChains, FhChains
<1>5. ASSUME NEW w \in Worker, LinkFh(w)
      PROVE  IdChains' \subseteq IdChains /\ FhChains' \subseteq FhChains \cup {Linked(w)}
  <2>1. /\ id_table' = id_table /\ fh_table' = Linked(w)
        /\ \A v \in Worker : /\ pc'[v] \in {"id_link", "fh_link"} => pc'[v] = pc[v] /\ v # w
                             /\ v # w => first'[v] = first[v]
    BY <1>5 DEF LinkFh, Goto, TypeOK
  <2> QED
    BY <2>1 DEF IdChains, FhChains
<1>6. ASSUME NEW n \in Id, Forget(n)
      PROVE  IdChains' \subseteq IdChains /\ FhChains' \subseteq FhChains
  BY <1>6 DEF Forget, super, locals, IdChains, FhChains
<1>7. CASE UNCHANGED vars
  BY <1>7 DEF vars, super, locals, IdChains, FhChains
<1>8. CASE \E w \in Worker : LinkId(w)
  BY <1>4, <1>8, Zenon
<1>9. CASE \E w \in Worker : LinkFh(w)
  BY <1>5, <1>9, Zenon
<1>10. CASE ~(\E w \in Worker : LinkId(w)) /\ ~(\E w \in Worker : LinkFh(w))
  <2>1. IdChains' \subseteq IdChains /\ FhChains' \subseteq FhChains
    BY <1>1, <1>2, <1>3, <1>6, <1>7, <1>10, Zenon DEF Next, Work
  <2> QED
    BY <2>1
<1> QED
  BY <1>8, <1>9, <1>10

\* The chains are sequences of inodes.
LEMMA ChainTypes ==
  ASSUME TypeOK
  PROVE  \A s \in IdChains \cup FhChains : s \in Seq(Inode)
  BY DEF TypeOK, IdChains, FhChains

\* A walk of a chain finds after a step what it found before.
LEMMA WalkKept ==
  ASSUME TypeOK, Hands, Chains, [Next]_vars, NEW s \in IdChains \cup FhChains
  PROVE  /\ \A n : FirstOf(s, {j \in Inode : ino'[j] = n}) = FirstOf(s, Numbered(n))
         /\ \A h : FirstOf(s, {j \in Inode : fh'[j] = h /\ ino'[j] # 0})
                     = FirstOf(s, OfHandle(h))
<1>1. \A k \in DOMAIN s : s[k] \in Allocated /\ ino[s[k]] # 0
  BY DEF Chains
<1>2. \A k \in DOMAIN s : ino'[s[k]] = ino[s[k]] /\ fh'[s[k]] = fh[s[k]]
  BY <1>1, FieldsKept
<1>3. ASSUME NEW n
      PROVE  FirstOf(s, {j \in Inode : ino'[j] = n}) = FirstOf(s, Numbered(n))
  <2>1. \A k \in DOMAIN s : s[k] \in {j \in Inode : ino'[j] = n} <=> s[k] \in Numbered(n)
    BY <1>2 DEF Numbered
  <2> QED
    BY <2>1, FirstSame, Zenon
<1>4. ASSUME NEW h
      PROVE  FirstOf(s, {j \in Inode : fh'[j] = h /\ ino'[j] # 0}) = FirstOf(s, OfHandle(h))
  <2>1. \A k \in DOMAIN s :
          s[k] \in {j \in Inode : fh'[j] = h /\ ino'[j] # 0} <=> s[k] \in OfHandle(h)
    BY <1>2 DEF OfHandle
  <2> QED
    BY <2>1, FirstSame, Zenon
<1> QED
  BY <1>3, <1>4

\* What __fh_ifind finds is a numbered inode of that handle which no worker is
\* still linking.
LEMMA FhFound ==
  ASSUME TypeOK, Chains, NEW h, FhFind(h) # Null
  PROVE  /\ FhFind(h) \in Allocated /\ fh[FhFind(h)] = h /\ ino[FhFind(h)] # 0
         /\ \A w \in Worker : pc[w] \in BeforeFh => inode[w] # FhFind(h)
<1>1. fh_table \in FhChains /\ fh_table \in Seq(Inode)
  BY DEF FhChains, TypeOK
<1>2. PICK k \in DOMAIN fh_table : fh_table[k] = FhFind(h)
  BY <1>1, FirstFinds, Zenon DEF FhFind
<1>3. FhFind(h) \in OfHandle(h)
  BY <1>1, FirstFinds, Zenon DEF FhFind
<1> QED
  BY <1>1, <1>2, <1>3 DEF OfHandle, Chains

-----------------------------------------------------------------------------
(* Periods and the inodes in hand *)

\* A period lasts while some worker is busy; what is made while two are is raced.
LEMMA PeriodsStep ==
  ASSUME TypeOK, Hands, Periods, [Next]_vars
  PROVE  Periods'
<1>1. ASSUME NEW w \in Worker, NEW h \in Handle, Get(w, h)
      PROVE  Periods'
  <2>1. Busy' = Busy \cup {w} /\ Allocated' = Allocated
    BY <1>1, AllocatedSame DEF Get, Goto, Busy, TypeOK, fields
  <2>2. /\ crowded' = (crowded \/ Busy # {}) /\ settled' = settled /\ period' = period
        /\ raced' = IF crowded' THEN raced \cup period ELSE raced
    BY <1>1 DEF Get
  <2> QED
    BY <2>1, <2>2, Zenon DEF Periods
<1>2. ASSUME NEW w \in Worker, Alloc(w)
      PROVE  Periods'
  <2>1. Busy' = Busy /\ crowded' = crowded /\ settled' = settled /\ w \in Busy
    BY <1>2 DEF Alloc, At, Goto, Busy, TypeOK
  <2>2. PICK i \in Inode \ Allocated :
          /\ period' = period \cup {i}
          /\ raced' = IF crowded THEN raced \cup {i} ELSE raced
          /\ Allocated' = Allocated \cup {i}
    BY <1>2, AllocMakes
  <2> QED
    BY <2>1, <2>2 DEF Periods
<1>3. ASSUME NEW w \in Worker,
             \/ Find(w) \/ Load(w) \/ Store(w) \/ Test(w) \/ Take(w) \/ LinkId(w) \/ LinkFh(w)
             \/ ReadHead(w, "id_head", id_table, "id_link")
             \/ ReadHead(w, "fh_head", fh_table, "fh_link")
             \/ SetNew(w) \/ Fill(w) \/ RefInc(w)
      PROVE  Periods'
  <2>1. Busy' = Busy
    BY <1>3, ZenonT(40) DEF Find, Load, Store, Test, Take, LinkId, LinkFh, ReadHead, SetNew, Fill,
         RefInc, At, Goto, Busy, TypeOK
  <2>2. fh' = fh /\ UNCHANGED history
    BY <1>3, Zenon DEF Find, Load, Store, Test, Take, LinkId, LinkFh, ReadHead, SetNew, Fill,
         RefInc, fields
  <2> QED
    BY <2>1, <2>2, AllocatedSame DEF Periods, history
<1>4. ASSUME NEW w \in Worker, Reply(w)
      PROVE  Periods'
  <2>1. Busy' = Busy \ {w} /\ Allocated' = Allocated /\ w \in Busy
    BY <1>4, AllocatedSame DEF Reply, At, Goto, Busy, TypeOK, fields
  <2>2. CASE Busy = {w}
    BY <1>4, <2>1, <2>2 DEF Reply, Quiesce, Periods
  <2>3. CASE Busy # {w}
    BY <1>4, <2>1, <2>3 DEF Reply, history, Periods
  <2> QED
    BY <2>2, <2>3
<1>5. CASE UNCHANGED vars \/ \E n \in Id : Forget(n)
  <2>1. Busy' = Busy /\ fh' = fh /\ UNCHANGED history
    BY <1>5 DEF Forget, vars, fields, locals, Busy
  <2> QED
    BY <2>1, AllocatedSame DEF Periods, history
<1> QED
  BY <1>1, <1>2, <1>3, <1>4, <1>5, Zenon DEF Next, Work

\* A worker past malloc has an inode of the handle it wants; while it links it, no
\* other worker has it.
LEMMA HandsStep ==
  ASSUME TypeOK, Periods, Hands, Chains, [Next]_vars
  PROVE  Hands'
<1>1. ASSUME NEW w \in Worker, NEW h \in Handle, Get(w, h)
      PROVE  Hands'
  BY <1>1, AllocatedSame, Zenon DEF Get, At, Goto, TypeOK, Hands, Empty, Making, BeforeFh, BeforeId,
       Unnumbered, fields
<1>2. ASSUME NEW w \in Worker, Find(w)
      PROVE  Hands'
  <2>1. /\ Allocated' = Allocated /\ ino' = ino /\ fh' = fh /\ period' = period
        /\ want' = want /\ pc[w] = "find"
        /\ \A v \in Worker \ {w} : pc'[v] = pc[v] /\ inode'[v] = inode[v]
        /\ inode'[w] = FhFind(want[w])
        /\ pc'[w] = IF FhFind(want[w]) = Null THEN "alloc" ELSE "fill"
    BY <1>2, AllocatedSame, Zenon DEF Find, At, Goto, TypeOK, fields, history
  <2>2. FhFind(want[w]) # Null =>
          /\ FhFind(want[w]) \in Allocated /\ fh[FhFind(want[w])] = want[w]
          /\ ino[FhFind(want[w])] # 0
          /\ \A v \in Worker : pc[v] \in BeforeFh => inode[v] # FhFind(want[w])
    BY FhFound
  <2>3. \A v \in Worker : pc[v] \in BeforeFh => inode[v] # Null
    BY InHand DEF BeforeFh, BeforeId, Unnumbered, Empty
  <2> QED
    BY <2>1, <2>2, <2>3 DEF Hands, Empty, Making, BeforeFh, BeforeId, Unnumbered
<1>3. ASSUME NEW w \in Worker, Alloc(w)
      PROVE  Hands'
  <2>1. PICK i \in Inode \ Allocated :
          /\ inode' = [inode EXCEPT ![w] = i] /\ fh' = [fh EXCEPT ![i] = want[w]]
          /\ period' = period \cup {i} /\ Allocated' = Allocated \cup {i}
    BY <1>3, AllocMakes
  <2>2. /\ pc' = [pc EXCEPT ![w] = "load"] /\ ino' = ino /\ want' = want /\ pc[w] = "alloc"
    BY <1>3, Zenon DEF Alloc, At, Goto
  <2>3. \A v \in Worker : inode[v] # i /\ (pc[v] \notin Empty => inode[v] \in Allocated)
    BY WorkersAssumption, InHand, Zenon DEF Hands
  <2>4. ino[i] = 0
    BY DEF Chains
  <2>5. \A v \in Worker : v # w => pc'[v] = pc[v] /\ inode'[v] = inode[v]
    BY <2>1, <2>2 DEF TypeOK
  <2>6. pc'[w] = "load" /\ inode'[w] = i /\ fh'[i] = want[w]
    BY <2>1, <2>2 DEF TypeOK
  <2>7. \A j \in Allocated : fh'[j] = fh[j]
    BY <2>1 DEF TypeOK, Allocated
  <2>8. \A v \in Worker : pc[v] \in BeforeFh => inode[v] # Null
    BY InHand DEF BeforeFh, BeforeId, Unnumbered, Empty
  <2> QED
    BY <2>1, <2>2, <2>3, <2>4, <2>5, <2>6, <2>7, <2>8
    DEF Hands, Empty, Making, BeforeFh, BeforeId, Unnumbered
<1>4. ASSUME NEW w \in Worker, Take(w)
      PROVE  Hands'
  <2>1. /\ Allocated' = Allocated /\ fh' = fh /\ period' = period /\ want' = want
        /\ inode' = inode /\ pc[w] = "take" /\ pc' = [pc EXCEPT ![w] = "id_head"]
        /\ ino' = [ino EXCEPT ![inode[w]] = curr_id]
    BY <1>4, AllocatedSame DEF Take, At, Goto, history
  <2>2. inode[w] \in Inode /\ \A v \in Worker \ {w} : inode[v] # inode[w]
    BY <2>1, InHand, Zenon DEF Hands, BeforeFh, BeforeId, Unnumbered, Empty
  <2>3. ino'[inode[w]] # 0 /\ \A j \in Inode \ {inode[w]} : ino'[j] = ino[j]
    BY <2>1, <2>2 DEF TypeOK, Chains
  <2>4. \A v \in Worker : pc[v] \notin Empty => inode[v] \in Inode
    BY InHand
  <2>5. pc'[w] = "id_head" /\ \A v \in Worker \ {w} : pc'[v] = pc[v]
    BY <2>1 DEF TypeOK
  <2> QED
    <3>1. /\ "take" \in Making /\ "take" \in BeforeFh /\ "take" \notin Empty
          /\ "id_head" \notin Empty /\ "id_head" \notin Unnumbered
      BY Zenon DEF Empty, Making, BeforeFh, BeforeId, Unnumbered
    <3> QED
      BY <2>1, <2>2, <2>3, <2>4, <2>5, <3>1 DEF Hands
<1>5. ASSUME NEW w \in Worker,
             \/ Load(w) \/ Store(w) \/ Test(w) \/ LinkId(w) \/ LinkFh(w)
             \/ ReadHead(w, "id_head", id_table, "id_link")
             \/ ReadHead(w, "fh_head", fh_table, "fh_link")
             \/ SetNew(w) \/ Fill(w) \/ RefInc(w)
      PROVE  Hands'
  <2>1. /\ Allocated' = Allocated /\ ino' = ino /\ fh' = fh /\ period' = period
        /\ want' = want /\ inode' = inode
    BY <1>5, AllocatedSame, Zenon DEF Load, Store, Test, LinkId, LinkFh, ReadHead, SetNew, Fill,
         RefInc, fields, history
  <2>2. /\ pc[w] \notin Empty /\ pc'[w] \notin Empty
        /\ pc[w] \in Unnumbered <=> pc'[w] \in Unnumbered
        /\ pc'[w] \in Making => pc[w] \in Making
        /\ pc'[w] \in BeforeFh => pc[w] \in BeforeFh
    BY <1>5, ZenonT(40) DEF Load, Store, Test, LinkId, LinkFh, ReadHead, SetNew, Fill, RefInc, At, Goto,
         TypeOK, Empty, Making, BeforeFh, BeforeId, Unnumbered
  <2>3. \A v \in Worker \ {w} : pc'[v] = pc[v]
    BY <1>5 DEF Load, Store, Test, LinkId, LinkFh, ReadHead, SetNew, Fill, RefInc, Goto,
         TypeOK
  <2>4. "idle" \in Empty
    BY Zenon DEF Empty
  <2> QED
    BY <2>1, <2>2, <2>3, <2>4 DEF Hands
<1>6. ASSUME NEW w \in Worker, Reply(w)
      PROVE  Hands'
  <2>1. /\ Allocated' = Allocated /\ ino' = ino /\ fh' = fh
        /\ pc'[w] = "idle" /\ inode'[w] = Null
        /\ \A v \in Worker \ {w} :
             pc'[v] = pc[v] /\ inode'[v] = inode[v] /\ want'[v] = want[v]
    BY <1>6, AllocatedSame DEF Reply, Goto, TypeOK, fields
  <2>2. period' = period \/ Busy = {w}
    BY <1>6 DEF Reply, history
  <2>3. period' = period \/ \A v \in Worker \ {w} : pc[v] = "idle"
    BY <2>2 DEF Busy
  <2>4. \A v \in Worker : pc[v] \in BeforeFh => inode[v] # Null
    BY InHand DEF BeforeFh, BeforeId, Unnumbered, Empty
  <2>5. "idle" \in Empty /\ "idle" \notin Making /\ "idle" \notin BeforeFh
    BY Zenon DEF Empty, Making, BeforeFh, BeforeId, Unnumbered
  <2>6. ASSUME NEW v \in Worker
        PROVE  /\ pc'[v] # "idle" => want'[v] \in Handle
               /\ pc'[v] \in Empty => inode'[v] = Null
               /\ pc'[v] \notin Empty => /\ inode'[v] \in Allocated' /\ fh'[inode'[v]] = want'[v]
                                         /\ pc'[v] \in Unnumbered <=> ino'[inode'[v]] = 0
               /\ pc'[v] \in Making => inode'[v] \in period'
    <3>1. CASE v = w
      BY <2>1, <2>5, <3>1, Zenon
    <3>2. CASE v # w
      <4>1. /\ pc[v] # "idle" => want[v] \in Handle
            /\ pc[v] \in Empty => inode[v] = Null
            /\ pc[v] \notin Empty => /\ inode[v] \in Allocated /\ fh[inode[v]] = want[v]
                                     /\ pc[v] \in Unnumbered <=> ino[inode[v]] = 0
            /\ pc[v] \in Making => inode[v] \in period
        BY Zenon DEF Hands
      <4>2. pc'[v] = pc[v] /\ inode'[v] = inode[v] /\ want'[v] = want[v]
        BY <2>1, <3>2, Zenon
      <4>3. pc[v] \in Making => period' = period
        BY <2>3, <2>5, <3>2, Zenon
      <4> QED
        BY <2>1, <4>1, <4>2, <4>3, Zenon
    <3> QED
      BY <3>1, <3>2, Zenon
  <2>7. ASSUME NEW v \in Worker, pc'[v] \in BeforeFh, NEW u \in Worker \ {v}
        PROVE  inode'[u] # inode'[v]
    <3>1. v # w /\ pc[v] \in BeforeFh /\ inode'[v] = inode[v]
      BY <2>1, <2>5, <2>7, Zenon
    <3> QED
      BY <2>1, <2>4, <3>1, ZenonT(30) DEF Hands
  <2> QED
    BY <2>6, <2>7, Zenon DEF Hands
<1>7. CASE UNCHANGED vars \/ \E n \in Id : Forget(n)
  <2>1. /\ ino' = ino /\ fh' = fh /\ period' = period /\ UNCHANGED locals
    BY <1>7 DEF Forget, vars, fields, history
  <2> QED
    BY <2>1, AllocatedSame, Zenon DEF Hands, locals
<1> QED
  BY <1>1, <1>2, <1>3, <1>4, <1>5, <1>6, <1>7, Zenon DEF Next, Work

-----------------------------------------------------------------------------
(* The chains *)

\* A worker that has not linked its inode was there before the step, with the same
\* inode and handle, or has just made it, or has just found none.
LEMMA BeforeKept ==
  ASSUME TypeOK, Hands, [Next]_vars, NEW w \in Worker
  PROVE  /\ pc'[w] \in BeforeFh =>
              \/ /\ pc[w] \in BeforeFh /\ inode'[w] = inode[w] /\ want'[w] = want[w]
                 /\ pc'[w] \in BeforeId => pc[w] \in BeforeId
              \/ inode'[w] \notin Allocated /\ pc[w] = "alloc" /\ want'[w] = want[w]
         /\ pc'[w] = "alloc" =>
              /\ want'[w] = want[w]
              /\ pc[w] = "alloc" \/ FhFind(want[w]) = Null
<1>1. ASSUME NEW v \in Worker, Alloc(v)
      PROVE  /\ \A u \in Worker \ {v} : pc'[u] = pc[u] /\ inode'[u] = inode[u]
             /\ pc'[v] = "load" /\ pc[v] = "alloc" /\ want' = want /\ inode'[v] \notin Allocated
  <2>1. PICK i \in Inode \ Allocated : inode' = [inode EXCEPT ![v] = i]
    BY <1>1, AllocMakes
  <2> QED
    BY <1>1, <2>1 DEF Alloc, At, Goto, TypeOK
<1>2. CASE \E v \in Worker : Alloc(v)
  BY <1>1, <1>2 DEF BeforeFh, BeforeId, Unnumbered
<1>3. ASSUME NEW v \in Worker,
             \/ Load(v) \/ Store(v) \/ Test(v) \/ Take(v) \/ LinkId(v) \/ LinkFh(v)
             \/ ReadHead(v, "id_head", id_table, "id_link")
             \/ ReadHead(v, "fh_head", fh_table, "fh_link")
      PROVE  /\ inode' = inode /\ want' = want /\ \A u \in Worker \ {v} : pc'[u] = pc[u]
             /\ pc[v] \in BeforeFh /\ pc'[v] \in BeforeFh \cup {"new"}
             /\ pc'[v] \in BeforeId => pc[v] \in BeforeId
  BY <1>3, Zenon DEF Load, Store, Test, Take, LinkId, LinkFh, ReadHead, At, Goto, TypeOK,
       BeforeFh, BeforeId, Unnumbered
<1>4. CASE \E v \in Worker :
             \/ Load(v) \/ Store(v) \/ Test(v) \/ Take(v) \/ LinkId(v) \/ LinkFh(v)
             \/ ReadHead(v, "id_head", id_table, "id_link")
             \/ ReadHead(v, "fh_head", fh_table, "fh_link")
  BY <1>3, <1>4, Zenon DEF BeforeFh, BeforeId, Unnumbered
<1>5. ASSUME NEW v \in Worker, NEW h \in Handle, Get(v, h)
      PROVE  /\ inode' = inode /\ pc'[v] = "find"
             /\ \A u \in Worker \ {v} : pc'[u] = pc[u] /\ want'[u] = want[u]
  BY <1>5 DEF Get, Goto, TypeOK
<1>6. CASE \E v \in Worker, h \in Handle : Get(v, h)
  BY <1>5, <1>6, Zenon DEF BeforeFh, BeforeId, Unnumbered
<1>7. ASSUME NEW v \in Worker, SetNew(v) \/ Fill(v) \/ RefInc(v) \/ Reply(v)
      PROVE  /\ pc'[v] \in {"fill", "ref", "reply", "idle"}
             /\ \A u \in Worker \ {v} :
                  pc'[u] = pc[u] /\ inode'[u] = inode[u] /\ want'[u] = want[u]
  BY <1>7 DEF SetNew, Fill, RefInc, Reply, Goto, TypeOK
<1>8. CASE \E v \in Worker : SetNew(v) \/ Fill(v) \/ RefInc(v) \/ Reply(v)
  BY <1>7, <1>8, Zenon DEF BeforeFh, BeforeId, Unnumbered
<1>9. ASSUME NEW v \in Worker, Find(v)
      PROVE  /\ want' = want /\ pc'[v] = IF FhFind(want[v]) = Null THEN "alloc" ELSE "fill"
             /\ \A u \in Worker \ {v} : pc'[u] = pc[u] /\ inode'[u] = inode[u]
  BY <1>9, Zenon DEF Find, Goto, TypeOK
<1>10. CASE \E v \in Worker : Find(v)
  BY <1>9, <1>10, Zenon DEF BeforeFh, BeforeId, Unnumbered
<1>11. CASE UNCHANGED vars \/ \E n \in Id : Forget(n)
  BY <1>11, Zenon DEF Forget, vars, locals
<1> QED
  BY <1>2, <1>4, <1>6, <1>8, <1>10, <1>11, Zenon DEF Next, Work

\* The nodes of the chain that hlist_add_head writes.
LEMMA LinkedNodes ==
  ASSUME TypeOK, NEW w \in Worker, inode[w] \in Inode
  PROVE  /\ Linked(w) \in Seq(Inode)
         /\ \A k \in DOMAIN Linked(w) :
              Linked(w)[k] = inode[w] \/ \E l \in DOMAIN first[w] : Linked(w)[k] = first[w][l]
         /\ \A i \in Range(first[w]) : i \in Range(Linked(w))
         /\ \A S : FirstOf(Linked(w), S)
                     = IF inode[w] \in S THEN inode[w] ELSE FirstOf(first[w], S)
<1> DEFINE s == first[w]
           t == <<inode[w]>> \o s
<1>1. s \in Seq(Inode)
  BY DEF TypeOK
<1>2. \A S : FirstOf(t, S) = IF inode[w] \in S THEN inode[w] ELSE FirstOf(s, S)
  BY <1>1, FirstLinked, ZenonT(40)
<1> HIDE DEF s
<1>3. /\ t \in Seq(Inode) /\ DOMAIN t = 1 .. Len(s) + 1 /\ DOMAIN s = 1 .. Len(s)
      /\ t[1] = inode[w] /\ \A k \in DOMAIN s : t[k + 1] = s[k]
      /\ Len(s) \in Nat
  BY <1>1, SMT
<1> HIDE DEF t
<1>4. \A k \in DOMAIN t : k = 1 \/ (k - 1 \in DOMAIN s /\ t[k] = s[k - 1])
  BY <1>3
<1>5. \A k \in DOMAIN t : t[k] = inode[w] \/ \E l \in DOMAIN s : t[k] = s[l]
  BY <1>3, <1>4
<1>6. \A k \in DOMAIN s : k + 1 \in DOMAIN t /\ t[k + 1] = s[k]
  BY <1>3
<1>7. \A i \in Range(s) : i \in Range(t)
  BY <1>6 DEF Range
<1> QED
  BY <1>2, <1>3, <1>5, <1>7, Zenon DEF s, t, Linked

\* What __id_ifind finds is an inode of that number.
LEMMA IdFound ==
  ASSUME TypeOK, Chains, NEW n, Ilookup(n) # Null
  PROVE  Ilookup(n) \in Allocated /\ ino[Ilookup(n)] = n
<1>1. id_table \in IdChains /\ id_table \in Seq(Inode)
  BY DEF IdChains, TypeOK
<1>2. PICK k \in DOMAIN id_table : id_table[k] = Ilookup(n)
  BY <1>1, FirstFinds, Zenon DEF Ilookup
<1>3. Ilookup(n) \in Numbered(n)
  BY <1>1, FirstFinds, Zenon DEF Ilookup
<1> QED
  BY <1>1, <1>2, <1>3 DEF Numbered, Chains

\* A chain has an inode only after it was numbered and linked there.
LEMMA ChainsStep ==
  ASSUME TypeOK, Hands, Chains, [Next]_vars
  PROVE  Chains'
<1>1. curr_id' # 0
  <2>1. CASE \E w \in Worker : Store(w)
    <3> PICK w \in Worker : Store(w)
      BY <2>1
    <3>1. curr_id' = loaded[w] + 1 /\ loaded[w] \in Id
      BY DEF Store, TypeOK
    <3> QED
      BY <3>1 DEF Id
  <2>2. CASE ~(\E w \in Worker : Store(w))
    <3>1. curr_id' = curr_id
      BY <2>2, Zenon DEF Next, Work, vars, super, Get, Find, Alloc, Load, Test, Take, ReadHead,
           LinkId, LinkFh, SetNew, Fill, RefInc, Reply, Forget
    <3> QED
      BY <3>1 DEF Chains
  <2> QED
    BY <2>1, <2>2
<1>2. ASSUME NEW s \in IdChains', NEW k \in DOMAIN s
      PROVE  /\ s[k] \in Allocated' /\ ino'[s[k]] # 0
             /\ \A w \in Worker : pc'[w] \in BeforeId => s[k] # inode'[w]
  <2>1. BeforeId \subseteq BeforeFh
    BY DEF BeforeFh
  <2> DEFINE Old == /\ s[k] \in Allocated /\ ino[s[k]] # 0
                    /\ \A w \in Worker :
                         pc'[w] \in BeforeId /\ pc[w] \in BeforeId => s[k] # inode[w]
  <2>2. Old
    <3>1. CASE s \in IdChains
      BY <3>1 DEF Chains
    <3>2. ASSUME NEW v \in Worker, LinkId(v), s = Linked(v)
          PROVE  Old
      <4>1. /\ inode[v] \in Inode /\ inode[v] \in Allocated /\ ino[inode[v]] # 0
            /\ \A w \in Worker \ {v} : inode[w] # inode[v]
        BY <3>2, InHand DEF LinkId, At, Hands, Empty, BeforeFh, BeforeId, Unnumbered
      <4>2. first[v] \in IdChains /\ pc'[v] \notin BeforeId
        BY <3>2 DEF LinkId, At, Goto, IdChains, TypeOK, BeforeId, Unnumbered
      <4>3. \A m \in DOMAIN Linked(v) :
              Linked(v)[m] = inode[v] \/ \E l \in DOMAIN first[v] : Linked(v)[m] = first[v][l]
        BY <4>1, LinkedNodes, Zenon
      <4>4. s[k] = inode[v] \/ \E l \in DOMAIN first[v] : s[k] = first[v][l]
        BY <3>2, <4>3
      <4>5. \A l \in DOMAIN first[v] :
              /\ first[v][l] \in Allocated /\ ino[first[v][l]] # 0
              /\ \A w \in Worker : pc[w] \in BeforeId => first[v][l] # inode[w]
        BY <4>2, Zenon DEF Chains
      <4> QED
        BY <4>1, <4>2, <4>4, <4>5, Zenon
    <3> QED
      BY <3>1, <3>2, ChainsKept, Zenon
  <2> QED
    BY <2>1, <2>2, FieldsKept, BeforeKept, Zenon
<1>3. ASSUME NEW s \in FhChains', NEW k \in DOMAIN s
      PROVE  /\ s[k] \in Allocated' /\ ino'[s[k]] # 0
             /\ \A w \in Worker : pc'[w] \in BeforeFh => s[k] # inode'[w]
  <2> DEFINE Old == /\ s[k] \in Allocated /\ ino[s[k]] # 0
                    /\ \A w \in Worker :
                         pc'[w] \in BeforeFh /\ pc[w] \in BeforeFh => s[k] # inode[w]
  <2>2. Old
    <3>1. CASE s \in FhChains
      BY <3>1 DEF Chains
    <3>2. ASSUME NEW v \in Worker, LinkFh(v), s = Linked(v)
          PROVE  Old
      <4>1. /\ inode[v] \in Inode /\ inode[v] \in Allocated /\ ino[inode[v]] # 0
            /\ \A w \in Worker \ {v} : inode[w] # inode[v]
        BY <3>2, InHand DEF LinkFh, At, Hands, Empty, BeforeFh, BeforeId, Unnumbered
      <4>2. first[v] \in FhChains /\ pc'[v] \notin BeforeFh
        BY <3>2 DEF LinkFh, At, Goto, FhChains, TypeOK, BeforeFh, BeforeId, Unnumbered
      <4>3. \A m \in DOMAIN Linked(v) :
              Linked(v)[m] = inode[v] \/ \E l \in DOMAIN first[v] : Linked(v)[m] = first[v][l]
        BY <4>1, LinkedNodes, Zenon
      <4>4. s[k] = inode[v] \/ \E l \in DOMAIN first[v] : s[k] = first[v][l]
        BY <3>2, <4>3, Zenon
      <4>5. \A l \in DOMAIN first[v] :
              /\ first[v][l] \in Allocated /\ ino[first[v][l]] # 0
              /\ \A w \in Worker : pc[w] \in BeforeFh => first[v][l] # inode[w]
        BY <4>2, Zenon DEF Chains
      <4> QED
        BY <4>1, <4>2, <4>4, <4>5, Zenon
    <3> QED
      BY <3>1, <3>2, ChainsKept, Zenon
  <2> QED
    BY <2>2, FieldsKept, BeforeKept, Zenon
<1>4. \A i \in Inode \ Allocated' : ino'[i] = 0 /\ private'[i] = 0
  <2> SUFFICES ASSUME NEW i \in Inode \ Allocated
               PROVE  ino'[i] = 0 /\ private'[i] = 0
    BY FieldsKept
  <2>0. ino[i] = 0 /\ private[i] = 0
    BY DEF Chains
  <2>1. ASSUME NEW w \in Worker, Take(w) \/ RefInc(w)
        PROVE  ino'[i] = 0 /\ private'[i] = 0
    <3>1. inode[w] # i
      BY <2>1, InHand, Zenon DEF Take, RefInc, At, Empty
    <3> QED
      BY <2>0, <2>1, <3>1 DEF Take, RefInc, TypeOK
  <2>2. ASSUME NEW n \in Id, Forget(n)
        PROVE  ino'[i] = 0 /\ private'[i] = 0
    <3>1. Ilookup(n) # i
      BY IdFound, WorkersAssumption
    <3> QED
      BY <2>0, <2>2, <3>1 DEF Forget, TypeOK
  <2>3. CASE ~(\E w \in Worker : Take(w) \/ RefInc(w)) /\ ~(\E n \in Id : Forget(n))
    <3>1. ino' = ino /\ private' = private
      BY <2>3, Zenon DEF Next, Work, vars, super, fields, Get, Find, Alloc, Load, Store, Test, ReadHead,
           LinkId, LinkFh, SetNew, Fill, Reply
    <3> QED
      BY <2>0, <3>1
  <2> QED
    BY <2>1, <2>2, <2>3
<1> QED
  BY <1>1, <1>2, <1>3, <1>4 DEF Chains
=============================================================================
