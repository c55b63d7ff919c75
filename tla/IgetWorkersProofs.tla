------------------------- MODULE IgetWorkersProofs --------------------------
(***************************************************************************)
(* Proofs about IgetWorkers, for any number of workers, requests, inodes   *)
(* and handles: settled and clean inodes, the requests no other overlaps,  *)
(* what the kernel holds, and the theorems.                                *)
(***************************************************************************)
EXTENDS IgetWorkersLemmas

-----------------------------------------------------------------------------
(* Settled and clean inodes *)

\* The history changes at the end of a period, and else grows by overlapping.
LEMMA HistoryKept ==
  ASSUME TypeOK, Hands, Periods, [Next]_vars
  PROVE  /\ raced \subseteq raced' /\ Clean \subseteq Clean'
         /\ \/ settled' = settled /\ Clean' = Clean
            \/ \E w \in Worker :
                 /\ Reply(w) /\ Busy = {w} /\ raced' = raced
                 /\ settled' = settled \cup {i \in period : Resolves(i)}
                 /\ Clean' \subseteq Clean \cup {i \in period : ~crowded}
<1>1. ASSUME NEW w \in Worker, NEW h \in Handle, Get(w, h)
      PROVE  raced \subseteq raced' /\ settled' = settled /\ Clean' = Clean
  <2>1. Allocated' = Allocated
    BY <1>1, AllocatedSame DEF Get, fields
  <2> QED
    BY <1>1, <2>1 DEF Get, Clean
<1>2. ASSUME NEW w \in Worker, Alloc(w)
      PROVE  raced \subseteq raced' /\ settled' = settled /\ Clean' = Clean
  <2>1. PICK i \in Inode \ Allocated :
          /\ period' = period \cup {i}
          /\ raced' = IF crowded THEN raced \cup {i} ELSE raced
          /\ Allocated' = Allocated \cup {i}
    BY <1>2, AllocMakes
  <2> QED
    BY <1>2, <2>1 DEF Alloc, Clean
<1>3. ASSUME NEW w \in Worker, Reply(w), Busy = {w}
      PROVE  /\ raced' = raced /\ settled' = settled \cup {i \in period : Resolves(i)}
             /\ Clean' \subseteq Clean \cup {i \in period : ~crowded}
             /\ Clean \subseteq Clean'
  <2>1. Allocated' = Allocated
    BY <1>3, AllocatedSame DEF Reply, fields
  <2>2. /\ raced' = raced /\ settled' = settled \cup {i \in period : Resolves(i)}
        /\ period' = {}
    BY <1>3 DEF Reply, Quiesce
  <2>3. crowded => period \subseteq raced
    BY DEF Periods
  <2> QED
    BY <2>1, <2>2, <2>3 DEF Clean
<1>4. CASE ~ \/ \E w \in Worker, h \in Handle : Get(w, h)
             \/ \E w \in Worker : Alloc(w)
             \/ \E w \in Worker : Reply(w) /\ Busy = {w}
  <2>1. fh' = fh /\ UNCHANGED history
    BY <1>4, ZenonT(30) DEF Next, Work, vars, fields, Find, Load, Store, Test, Take, ReadHead,
         LinkId, LinkFh, SetNew, Fill, RefInc, Reply, Forget
  <2> QED
    BY <2>1, AllocatedSame DEF history, Clean
<1> QED
  BY <1>1, <1>2, <1>3, <1>4, Zenon

\* At the end of a period the chains are the two tables.
LEMMA QuietChains ==
  ASSUME TypeOK, NEW w \in Worker, Reply(w), Busy = {w}
  PROVE  IdChains' = {id_table} /\ FhChains' = {fh_table} /\ Busy' = {}
         /\ ino' = ino /\ fh' = fh /\ curr_id' = curr_id
<1>1. \A v \in Worker : pc'[v] = "idle"
  BY DEF Reply, Goto, Busy, TypeOK
<1>2. id_table' = id_table /\ fh_table' = fh_table /\ ino' = ino /\ fh' = fh /\ curr_id' = curr_id
  BY DEF Reply, super, fields
<1> QED
  BY <1>1, <1>2, Zenon DEF IdChains, FhChains, Busy

\* A worker that links an inode alone gives it a number that no chain has.
LEMMA AloneNumber ==
  ASSUME TypeOK, Periods, Hands, Chains, AloneMakes, ~crowded,
         NEW w \in Worker, pc[w] = "id_link", NEW i \in Range(id_table)
  PROVE  ino[i] # ino[inode[w]]
<1>1. inode[w] \in period
  BY DEF Hands, Making, BeforeFh, BeforeId
<1>2. Ilookup(curr_id) = Null /\ ino[inode[w]] = curr_id
  BY <1>1 DEF AloneMakes, Unnumbered
<1>3. id_table \in Seq(Inode)
  BY DEF TypeOK
<1>4. \A k \in DOMAIN id_table : id_table[k] \notin Numbered(curr_id)
  BY <1>2, <1>3, FirstFinds, Zenon DEF Ilookup
<1>5. PICK k \in DOMAIN id_table : i = id_table[k]
  BY DEF Range
<1>6. i \in Inode
  BY <1>3, <1>5
<1> QED
  BY <1>2, <1>4, <1>5, <1>6 DEF Numbered

\* An inode in a chain is numbered.
LEMMA SettledNumbered ==
  ASSUME TypeOK, Periods, Chains, Settled, NEW i \in settled
  PROVE  i \in Allocated /\ i \in Inode /\ ino[i] # 0 /\ i \in Range(id_table)
<1>1. id_table \in IdChains
  BY DEF IdChains
<1>2. i \in Range(id_table)
  BY <1>1 DEF Settled
<1> QED
  BY <1>1, <1>2 DEF Chains, Range, Periods, Allocated

\* No insertion loses a settled inode, and no second inode of its object is made.
LEMMA SettledStep ==
  ASSUME TypeOK, Periods, Hands, Chains, Settled, AloneMakes, [Next]_vars
  PROVE  Settled'
<1>1. ASSUME NEW i \in settled
      PROVE  /\ \A s \in IdChains' : /\ i \in Range(s)
                                     /\ FirstOf(s, {j \in Inode : ino'[j] = ino'[i]}) \in {i} \cup raced'
             /\ \A s \in FhChains' :
                  FirstOf(s, {j \in Inode : fh'[j] = fh'[i] /\ ino'[j] # 0}) = i
             /\ \A w \in Worker : pc'[w] \in BeforeFh \cup {"alloc"} => want'[w] # fh'[i]
  <2>1. i \in Allocated /\ i \in Inode /\ ino[i] # 0 /\ i \in Range(id_table)
    BY SettledNumbered
  <2>2. ino'[i] = ino[i] /\ fh'[i] = fh[i] /\ raced \subseteq raced'
    BY <2>1, FieldsKept, HistoryKept, Zenon
  <2>3. ASSUME NEW s \in IdChains'
        PROVE  /\ i \in Range(s)
               /\ FirstOf(s, {j \in Inode : ino'[j] = ino'[i]}) \in {i} \cup raced'
    <3>1. CASE s \in IdChains
      <4>1. i \in Range(s) /\ FirstOf(s, Numbered(ino[i])) \in {i} \cup raced
        BY <3>1 DEF Settled
      <4>2. FirstOf(s, {j \in Inode : ino'[j] = ino[i]}) = FirstOf(s, Numbered(ino[i]))
        BY <3>1, WalkKept
      <4> QED
        BY <2>2, <4>1, <4>2
    <3>2. ASSUME NEW w \in Worker, LinkId(w), s = Linked(w)
          PROVE  /\ i \in Range(s)
                 /\ FirstOf(s, {j \in Inode : ino'[j] = ino'[i]}) \in {i} \cup raced'
      <4>1. /\ inode[w] \in Inode /\ inode[w] \in period /\ first[w] \in IdChains
            /\ pc[w] = "id_link" /\ ino' = ino
        BY <3>2, InHand DEF LinkId, At, Hands, Empty, Making, BeforeFh, BeforeId, IdChains, fields
      <4>2. i \in Range(first[w]) /\ FirstOf(first[w], Numbered(ino[i])) \in {i} \cup raced
        BY <4>1, Zenon DEF Settled
      <4>3. i \in Range(Linked(w))
        BY <4>1, <4>2, LinkedNodes, Zenon
      <4>4. FirstOf(Linked(w), Numbered(ino[i]))
              = IF inode[w] \in Numbered(ino[i]) THEN inode[w]
                ELSE FirstOf(first[w], Numbered(ino[i]))
        BY <4>1, LinkedNodes, ZenonT(40)
      <4>5. inode[w] \in Numbered(ino[i]) => inode[w] \in raced
        BY <2>1, <4>1, AloneNumber, Zenon DEF Periods, Numbered
      <4>6. FirstOf(Linked(w), Numbered(ino[i])) \in {i} \cup raced
        BY <4>2, <4>4, <4>5, Zenon
      <4>7. FirstOf(Linked(w), {j \in Inode : ino'[j] = ino'[i]}) \in {i} \cup raced
        BY <4>1, <4>6, Zenon DEF Numbered
      <4> QED
        BY <2>2, <3>2, <4>3, <4>7, ZenonT(40)
    <3> QED
      BY <3>1, <3>2, ChainsKept, Zenon
  <2>4. ASSUME NEW s \in FhChains'
        PROVE  FirstOf(s, {j \in Inode : fh'[j] = fh'[i] /\ ino'[j] # 0}) = i
    <3>1. CASE s \in FhChains
      <4>1. FirstOf(s, OfHandle(fh[i])) = i
        BY <3>1, Zenon DEF Settled
      <4>2. FirstOf(s, {j \in Inode : fh'[j] = fh[i] /\ ino'[j] # 0})
              = FirstOf(s, OfHandle(fh[i]))
        BY <3>1, WalkKept
      <4> QED
        BY <2>2, <4>1, <4>2, ZenonT(30)
    <3>2. ASSUME NEW w \in Worker, LinkFh(w), s = Linked(w)
          PROVE  FirstOf(s, {j \in Inode : fh'[j] = fh'[i] /\ ino'[j] # 0}) = i
      <4>1. /\ inode[w] \in Inode /\ first[w] \in FhChains /\ fh[inode[w]] = want[w]
            /\ pc[w] = "fh_link" /\ ino' = ino /\ fh' = fh
        BY <3>2, InHand, ZenonT(30) DEF LinkFh, At, Empty, FhChains, fields
      <4>2. FirstOf(first[w], OfHandle(fh[i])) = i /\ want[w] # fh[i]
        BY <4>1, Zenon DEF Settled, BeforeFh
      <4>3. FirstOf(Linked(w), OfHandle(fh[i]))
              = IF inode[w] \in OfHandle(fh[i]) THEN inode[w]
                ELSE FirstOf(first[w], OfHandle(fh[i]))
        BY <4>1, LinkedNodes, ZenonT(40)
      <4>4. inode[w] \notin OfHandle(fh[i])
        BY <4>1, <4>2, Zenon DEF OfHandle
      <4>5. FirstOf(Linked(w), {j \in Inode : fh'[j] = fh'[i] /\ ino'[j] # 0}) = i
        BY <4>1, <4>2, <4>3, <4>4, Zenon DEF OfHandle
      <4> QED
        BY <3>2, <4>5, ZenonT(40)
    <3> QED
      BY <3>1, <3>2, ChainsKept, ZenonT(40)
  <2>5. ASSUME NEW w \in Worker, pc'[w] \in BeforeFh \cup {"alloc"}
        PROVE  want'[w] # fh'[i]
    <3>1. FhFind(fh[i]) = i
      BY DEF Settled, FhChains, FhFind
    <3>2. FhFind(fh[i]) # Null
      BY <2>1, <3>1, WorkersAssumption
    <3>3. pc[w] \in BeforeFh \cup {"alloc"} => want[w] # fh[i]
      BY DEF Settled
    <3>4. want'[w] = want[w] /\ (pc[w] \in BeforeFh \cup {"alloc"} \/ FhFind(want[w]) = Null)
      BY <2>5, BeforeKept
    <3> QED
      BY <2>2, <3>2, <3>3, <3>4
  <2> QED
    BY <2>3, <2>4, <2>5
<1>2. ASSUME NEW w \in Worker, Reply(w), Busy = {w}, NEW i \in period, Resolves(i)
      PROVE  /\ \A s \in IdChains' : /\ i \in Range(s)
                                     /\ FirstOf(s, {j \in Inode : ino'[j] = ino'[i]}) \in {i} \cup raced'
             /\ \A s \in FhChains' :
                  FirstOf(s, {j \in Inode : fh'[j] = fh'[i] /\ ino'[j] # 0}) = i
             /\ \A v \in Worker : pc'[v] \in BeforeFh \cup {"alloc"} => want'[v] # fh'[i]
  <2>1. /\ IdChains' = {id_table} /\ FhChains' = {fh_table} /\ ino' = ino /\ fh' = fh
        /\ \A v \in Worker : pc'[v] = "idle"
    BY <1>2, QuietChains DEF Busy
  <2>2. FirstOf(id_table, Numbered(ino[i])) = i /\ FirstOf(fh_table, OfHandle(fh[i])) = i
    BY <1>2 DEF Resolves, Ilookup, FhFind
  <2>3. i # Null /\ id_table \in Seq(Inode)
    BY WorkersAssumption DEF TypeOK
  <2>4. \E k \in DOMAIN id_table : id_table[k] = i
    <3>1. FirstOf(id_table, Numbered(ino[i])) # Null
      BY <2>2, <2>3
    <3>2. \E k \in DOMAIN id_table : id_table[k] = FirstOf(id_table, Numbered(ino[i]))
      BY <2>3, <3>1, FirstFinds, Zenon
    <3> QED
      BY <2>2, <3>2
  <2>5. i \in Range(id_table)
    BY <2>4 DEF Range
  <2>6. /\ FirstOf(id_table, {j \in Inode : ino'[j] = ino'[i]}) = i
        /\ FirstOf(fh_table, {j \in Inode : fh'[j] = fh'[i] /\ ino'[j] # 0}) = i
    BY <2>1, <2>2, Zenon DEF Numbered, OfHandle
  <2>7. "idle" \notin BeforeFh \cup {"alloc"}
    BY DEF BeforeFh, BeforeId, Unnumbered
  <2> QED
    BY <2>1, <2>5, <2>6, <2>7, Zenon
<1>3. \A i \in settled' :
        \/ i \in settled
        \/ i \in period /\ \E w \in Worker : Reply(w) /\ Busy = {w} /\ Resolves(i)
  BY HistoryKept
<1> QED
  BY <1>1, <1>2, <1>3, Zenon DEF Settled, Numbered, OfHandle

\* A request that was alone to the end leaves a clean inode, which both chains
\* lead to.
LEMMA AloneEnds ==
  ASSUME TypeOK, Periods, Hands, AloneMakes, ~crowded,
         NEW w \in Worker, Reply(w), NEW i \in period
  PROVE  Busy = {w} /\ i = inode[w] /\ ino[i] = curr_id /\ fh[i] = want[w] /\ Resolves(i)
<1>1. pc[w] = "reply" /\ w \in Busy
  BY DEF Reply, At, Busy
<1>2. Busy = {w}
  BY <1>1 DEF Periods
<1>3. PICK v \in Worker : inode[v] = i
  BY DEF AloneMakes
<1>4. v \in Busy
  BY <1>3, WorkersAssumption DEF Busy, Hands, Empty, TypeOK
<1>5. i = inode[w] /\ fh[i] = want[w]
  BY <1>1, <1>2, <1>3, <1>4, InHand DEF Empty
<1>6. ino[i] = curr_id /\ Ilookup(curr_id) = i /\ FhFind(want[w]) = i
  BY <1>1, <1>5 DEF AloneMakes, Unnumbered, BeforeId, BeforeFh
<1> QED
  BY <1>2, <1>5, <1>6 DEF Resolves

\* The numbers that the counter gives later are above those of clean inodes.
LEMMA CleansStep ==
  ASSUME TypeOK, Periods, Hands, Chains, Settled, Cleans, AloneMakes, [Next]_vars
  PROVE  Cleans'
<1> DEFINE Fine(i) ==
      /\ i \in settled' /\ ino'[i] <= curr_id' /\ ino'[i] # 0
      /\ \A s \in IdChains' : FirstOf(s, {j \in Inode : ino'[j] = ino'[i]}) = i
      /\ \A w \in Worker :
           /\ pc'[w] = "store" => ino'[i] <= loaded'[w]
           /\ pc'[w] \in {"test", "take"} => ino'[i] < curr_id'
           /\ pc'[w] \in {"id_head", "id_link"} => ino'[i] < ino'[inode'[w]]
<1>1. ASSUME NEW i \in Clean
      PROVE  Fine(i)
  <2>1. i \in settled /\ i \in Allocated /\ i \in Inode /\ ino[i] # 0 /\ ino[i] <= curr_id
    BY DEF Cleans, Clean, Allocated
  <2>2. ino'[i] = ino[i] /\ i \in settled'
    BY <2>1, FieldsKept, HistoryKept, Zenon
  <2>3. ino[i] \in Nat /\ curr_id \in Nat /\ \A w \in Worker : loaded[w] \in Nat
    BY <2>1 DEF TypeOK, Id
  <2>4. ASSUME NEW s \in IdChains'
        PROVE  FirstOf(s, {j \in Inode : ino'[j] = ino'[i]}) = i
    <3>1. CASE s \in IdChains
      <4>1. FirstOf(s, Numbered(ino[i])) = i
        BY <3>1 DEF Cleans
      <4>2. FirstOf(s, {j \in Inode : ino'[j] = ino[i]}) = FirstOf(s, Numbered(ino[i]))
        BY <3>1, WalkKept
      <4> QED
        BY <2>2, <4>1, <4>2
    <3>2. ASSUME NEW w \in Worker, LinkId(w), s = Linked(w)
          PROVE  FirstOf(s, {j \in Inode : ino'[j] = ino'[i]}) = i
      <4>1. /\ inode[w] \in Inode /\ first[w] \in IdChains /\ pc[w] = "id_link" /\ ino' = ino
        BY <3>2, InHand DEF LinkId, At, Empty, IdChains, fields
      <4>2. FirstOf(first[w], Numbered(ino[i])) = i /\ ino[i] < ino[inode[w]]
        BY <4>1 DEF Cleans
      <4>3. inode[w] \notin Numbered(ino[i])
        BY <2>3, <4>1, <4>2 DEF Numbered
      <4>4. FirstOf(Linked(w), Numbered(ino[i]))
              = IF inode[w] \in Numbered(ino[i]) THEN inode[w]
                ELSE FirstOf(first[w], Numbered(ino[i]))
        BY <4>1, LinkedNodes, Zenon
      <4>5. FirstOf(Linked(w), {j \in Inode : ino'[j] = ino'[i]}) = i
        BY <4>1, <4>2, <4>3, <4>4, Zenon DEF Numbered
      <4> QED
        BY <3>2, <4>5, Zenon
    <3> QED
      BY <3>1, <3>2, ChainsKept, Zenon
  <2> DEFINE Above == /\ ino[i] <= curr_id'
                      /\ \A w \in Worker :
                           /\ pc'[w] = "store" => ino[i] <= loaded'[w]
                           /\ pc'[w] \in {"test", "take"} => ino[i] < curr_id'
                           /\ pc'[w] \in {"id_head", "id_link"} => ino[i] < ino'[inode'[w]]
  <2>5. \A w \in Worker :
          /\ pc[w] = "store" => ino[i] <= loaded[w]
          /\ pc[w] \in {"test", "take"} => ino[i] < curr_id
          /\ pc[w] \in {"id_head", "id_link"} => ino[i] < ino[inode[w]]
    BY DEF Cleans
  <2>6. ASSUME NEW w \in Worker, Load(w)
        PROVE  Above
    BY <2>1, <2>5, <2>6 DEF Load, Goto, super, fields, TypeOK
  <2>7. ASSUME NEW w \in Worker, Store(w)
        PROVE  Above
    <3>1. ino[i] <= loaded[w] /\ curr_id' = loaded[w] + 1
      BY <2>5, <2>7 DEF Store, At
    <3>2. ino[i] < curr_id'
      BY <2>3, <3>1
    <3>3. /\ ino' = ino /\ inode' = inode /\ pc'[w] = "test"
          /\ \A v \in Worker \ {w} : pc'[v] = pc[v] /\ loaded'[v] = loaded[v]
      BY <2>7 DEF Store, Goto, fields, TypeOK
    <3> QED
      BY <2>3, <2>5, <3>1, <3>2, <3>3
  <2>8. ASSUME NEW w \in Worker, Take(w)
        PROVE  Above
    <3>1. ino[i] < curr_id /\ pc[w] = "take"
      BY <2>5, <2>8, ZenonT(30) DEF Take, At
    <3>2. inode[w] \in Inode /\ \A v \in Worker \ {w} : inode[v] # inode[w]
      BY <3>1, InHand, Zenon DEF Hands, BeforeFh, BeforeId, Unnumbered, Empty
    <3>3. /\ curr_id' = curr_id /\ loaded' = loaded /\ inode' = inode /\ pc'[w] = "id_head"
          /\ \A v \in Worker \ {w} : pc'[v] = pc[v]
          /\ ino'[inode[w]] = curr_id
      BY <2>8, <3>2 DEF Take, Goto, super, TypeOK
    <3>4. \A v \in Worker \ {w} : ino'[inode[v]] = ino[inode[v]]
      BY <2>8, <3>2 DEF Take, TypeOK
    <3> QED
      BY <2>1, <2>5, <3>1, <3>3, <3>4, ZenonT(30)
  <2>9. ASSUME NEW w \in Worker,
               \/ Find(w) \/ Alloc(w) \/ Test(w) \/ LinkId(w) \/ LinkFh(w)
               \/ ReadHead(w, "id_head", id_table, "id_link")
               \/ ReadHead(w, "fh_head", fh_table, "fh_link")
               \/ SetNew(w) \/ Fill(w) \/ RefInc(w) \/ Reply(w)
        PROVE  Above
    <3>1. /\ curr_id' = curr_id /\ loaded' = loaded /\ ino' = ino
          /\ \A v \in Worker \ {w} : pc'[v] = pc[v] /\ inode'[v] = inode[v]
      BY <2>9, ZenonT(40) DEF Find, Alloc, Test, LinkId, LinkFh, ReadHead, SetNew, Fill, RefInc, Reply,
           Goto, super, fields, TypeOK
    <3>2. /\ pc'[w] # "store" /\ pc'[w] # "test" /\ pc'[w] # "id_head"
          /\ pc'[w] = "take" => pc[w] = "test"
          /\ pc'[w] = "id_link" => pc[w] = "id_head" /\ inode'[w] = inode[w]
      BY <2>9, ZenonT(30) DEF Find, Alloc, Test, LinkId, LinkFh, ReadHead, SetNew, Fill, RefInc, Reply,
           At, Goto, TypeOK
    <3> QED
      BY <2>1, <2>5, <3>1, <3>2, ZenonT(30)
  <2>10. ASSUME NEW w \in Worker, NEW h \in Handle, Get(w, h)
         PROVE  Above
    BY <2>1, <2>5, <2>10 DEF Get, Goto, super, fields, TypeOK
  <2>11. ASSUME UNCHANGED vars \/ \E n \in Id : Forget(n)
         PROVE  Above
    <3>1. curr_id' = curr_id /\ ino' = ino /\ pc' = pc /\ loaded' = loaded /\ inode' = inode
      BY <2>11 DEF Forget, vars, super, fields, locals
    <3> QED
      BY <2>1, <2>5, <3>1, Zenon
  <2>12. Above
    <3> HIDE DEF Above
    <3> QED
      BY <2>6, <2>7, <2>8, <2>9, <2>10, <2>11, ZenonT(40) DEF Next, Work
  <2> QED
    BY <2>1, <2>2, <2>4, <2>12
<1>2. ASSUME NEW w \in Worker, Reply(w), NEW i \in period, ~crowded, Busy = {w},
             settled' = settled \cup {j \in period : Resolves(j)}
      PROVE  Fine(i)
  <2>1. i = inode[w] /\ ino[i] = curr_id /\ Resolves(i)
    BY <1>2, AloneEnds
  <2>2. /\ IdChains' = {id_table} /\ ino' = ino /\ curr_id' = curr_id
        /\ \A v \in Worker : pc'[v] = "idle"
    BY <1>2, QuietChains DEF Busy
  <2>3. FirstOf(id_table, {j \in Inode : ino'[j] = ino'[i]}) = i
    BY <2>1, <2>2, Zenon DEF Resolves, Ilookup, Numbered
  <2>4. curr_id \in Nat /\ curr_id # 0
    BY DEF TypeOK, Id, Chains
  <2>5. i \in settled' /\ ino'[i] <= curr_id' /\ ino'[i] # 0
    BY <1>2, <2>1, <2>2, <2>4
  <2> QED
    BY <2>2, <2>3, <2>5, Zenon
<1>3. \A i \in Clean' : Fine(i)
  BY <1>1, <1>2, HistoryKept, Zenon
<1> QED
  BY <1>3, Zenon DEF Cleans, Numbered

-----------------------------------------------------------------------------
(* A request that no other overlaps *)

\* With one worker busy, the inode it makes gets a free number, and both chains
\* lead to it once it is linked.
LEMMA AloneMakesStep ==
  ASSUME TypeOK, Periods, Hands, Chains, AloneMakes, [Next]_vars
  PROVE  AloneMakes'
<1> SUFFICES ASSUME ~crowded'
             PROVE  AloneMakes'
  BY Zenon DEF AloneMakes
<1>1. ASSUME NEW w \in Worker, ~crowded, pc[w] # "idle"
      PROVE  /\ \A v \in Worker : inode[v] \in period => v = w
             /\ \A i \in period : inode[w] = i
  <2>1. \A v \in Busy : v = w
    BY <1>1 DEF Periods, Busy
  <2>2. \A v \in Worker : inode[v] # Null => v \in Busy
    BY DEF Hands, Busy, Empty
  <2>3. Null \notin period
    BY WorkersAssumption DEF TypeOK
  <2> QED
    BY <1>1, <2>1, <2>2, <2>3 DEF AloneMakes
<1>2. CASE period' = {}
  BY <1>2, Zenon DEF AloneMakes
<1>3. ASSUME NEW w \in Worker, NEW h \in Handle, Get(w, h)
      PROVE  period' = {}
  BY <1>3, Zenon DEF Get, Periods
<1>4. ASSUME NEW w \in Worker, Reply(w)
      PROVE  period' = {}
  <2>1. w \in Busy
    BY <1>4 DEF Reply, At, Busy
  <2>2. CASE Busy = {w}
    BY <1>4, <2>2 DEF Reply, Quiesce
  <2>3. CASE Busy # {w}
    BY <1>4, <2>1, <2>3 DEF Reply, history, Periods
  <2> QED
    BY <2>2, <2>3
<1>5. ASSUME NEW w \in Worker, Find(w)
      PROVE  period' = {}
  <2>1. pc[w] = "find" /\ inode[w] = Null /\ ~crowded /\ period' = period
    BY <1>5 DEF Find, At, Hands, Empty, history
  <2>2. Null \notin period
    BY WorkersAssumption DEF TypeOK
  <2> QED
    BY <1>1, <2>1, <2>2
<1>6. ASSUME NEW w \in Worker, Alloc(w)
      PROVE  AloneMakes'
  <2>1. pc[w] = "alloc" /\ inode[w] = Null /\ ~crowded /\ pc' = [pc EXCEPT ![w] = "load"]
    BY <1>6 DEF Alloc, At, Goto, Hands, Empty
  <2>2. period = {}
    <3>1. Null \notin period
      BY WorkersAssumption DEF TypeOK
    <3> QED
      BY <1>1, <2>1, <3>1
  <2>3. PICK i \in Inode \ Allocated :
          inode' = [inode EXCEPT ![w] = i] /\ period' = period \cup {i}
    BY <1>6, AllocMakes
  <2>4. \A v \in Worker : inode[v] # i
    BY WorkersAssumption, InHand DEF Hands
  <2>5. \A v \in Worker : inode'[v] = i <=> v = w
    BY <2>3, <2>4 DEF TypeOK
  <2>6. pc'[w] = "load"
    BY <2>1 DEF TypeOK
  <2> QED
    BY <2>2, <2>3, <2>5, <2>6 DEF AloneMakes, BeforeFh, BeforeId, Unnumbered
<1>7. ASSUME NEW w \in Worker,
             \/ Load(w) \/ Store(w) \/ Test(w) \/ Take(w) \/ LinkId(w) \/ LinkFh(w)
             \/ ReadHead(w, "id_head", id_table, "id_link")
             \/ ReadHead(w, "fh_head", fh_table, "fh_link")
             \/ SetNew(w) \/ Fill(w) \/ RefInc(w)
      PROVE  AloneMakes'
  <2>1. ~crowded /\ period' = period /\ inode' = inode /\ want' = want /\ pc[w] # "idle"
    <3>1. UNCHANGED <<history, inode, want>> /\ pc[w] # "idle"
      BY <1>7, Zenon DEF Load, Store, Test, Take, LinkId, LinkFh, ReadHead, SetNew, Fill,
           RefInc, At
    <3> QED
      BY <3>1 DEF history
  <2>2. /\ \A v \in Worker : inode[v] \in period => v = w
        /\ \A i \in period : inode[w] = i
    BY <1>1, <2>1
  <2>3. SUFFICES ASSUME inode[w] \in period
                 PROVE  /\ pc'[w] = "take" => Ilookup(curr_id)' = Null
                        /\ pc'[w] \notin Unnumbered => ino'[inode[w]] = curr_id'
                        /\ pc'[w] \in {"id_head", "id_link"} => Ilookup(curr_id)' = Null
                        /\ pc'[w] \notin BeforeId => Ilookup(curr_id)' = inode[w]
                        /\ pc'[w] \notin BeforeFh => FhFind(want[w])' = inode[w]
    BY <2>1, <2>2, Zenon DEF AloneMakes
  <2>4. /\ pc[w] = "take" => Ilookup(curr_id) = Null
        /\ pc[w] \notin Unnumbered => ino[inode[w]] = curr_id
        /\ pc[w] \in {"id_head", "id_link"} => Ilookup(curr_id) = Null
        /\ pc[w] \notin BeforeId => Ilookup(curr_id) = inode[w]
        /\ pc[w] \notin BeforeFh => FhFind(want[w]) = inode[w]
    BY <2>1, <2>3 DEF AloneMakes
  <2>5. inode[w] \in Inode /\ fh[inode[w]] = want[w]
        /\ (pc[w] \notin Unnumbered => ino[inode[w]] # 0)
    BY <1>7, InHand, ZenonT(30) DEF Hands, Load, Store, Test, Take, LinkId, LinkFh, ReadHead, SetNew, Fill,
         RefInc, At, Empty
  <2>6. CASE Load(w) \/ Store(w)
    <3>1. pc'[w] \in {"store", "test"}
      BY <2>6 DEF Load, Store, Goto, TypeOK
    <3> QED
      BY <3>1 DEF BeforeFh, BeforeId, Unnumbered
  <2>7. CASE Test(w)
    <3>1. /\ pc'[w] = IF Ilookup(curr_id) # Null THEN "load" ELSE "take"
          /\ id_table' = id_table /\ curr_id' = curr_id /\ ino' = ino
      BY <2>7 DEF Test, Goto, super, fields, TypeOK
    <3>2. Ilookup(curr_id)' = Ilookup(curr_id)
      BY <3>1 DEF Ilookup, Numbered
    <3> QED
      BY <3>1, <3>2 DEF BeforeFh, BeforeId, Unnumbered
  <2>8. CASE Take(w)
    <3>1. /\ pc[w] = "take" /\ pc'[w] = "id_head" /\ id_table' = id_table /\ curr_id' = curr_id
          /\ ino'[inode[w]] = curr_id
      BY <2>5, <2>8 DEF Take, At, Goto, super, TypeOK
    <3>2. id_table \in IdChains
      BY DEF IdChains
    <3>3. FirstOf(id_table, {j \in Inode : ino'[j] = curr_id}) = Ilookup(curr_id)
      BY <3>2, WalkKept, Zenon DEF Ilookup
    <3>4. Ilookup(curr_id)' = Null
      BY <2>4, <3>1, <3>3, Zenon DEF Ilookup, Numbered
    <3> QED
      BY <3>1, <3>4, Zenon DEF BeforeFh, BeforeId, Unnumbered
  <2>9. CASE LinkId(w)
    <3>1. /\ pc[w] = "id_link" /\ pc'[w] = "fh_head" /\ id_table' = Linked(w)
          /\ curr_id' = curr_id /\ ino' = ino
      BY <2>9 DEF LinkId, At, Goto, fields, TypeOK
    <3>2. ino[inode[w]] = curr_id
      BY <2>4, <3>1, Zenon DEF Unnumbered
    <3>3. inode[w] \in Numbered(curr_id)
      BY <2>5, <3>2 DEF Numbered
    <3>4. FirstOf(Linked(w), Numbered(curr_id)) = inode[w]
      BY <2>5, <3>3, LinkedNodes, ZenonT(40)
    <3>5. Ilookup(curr_id)' = inode[w]
      BY <3>1, <3>4, Zenon DEF Ilookup, Numbered
    <3> QED
      BY <3>1, <3>2, <3>5 DEF BeforeFh, BeforeId, Unnumbered
  <2>10. CASE LinkFh(w)
    <3>1. /\ pc[w] = "fh_link" /\ pc'[w] = "new" /\ fh_table' = Linked(w)
          /\ curr_id' = curr_id /\ ino' = ino /\ fh' = fh /\ id_table' = id_table
      BY <2>10 DEF LinkFh, At, Goto, fields, TypeOK
    <3>2. ino[inode[w]] = curr_id /\ Ilookup(curr_id) = inode[w]
      BY <2>4, <3>1 DEF Unnumbered, BeforeId
    <3>3. inode[w] \in OfHandle(want[w])
      BY <2>5, <3>1 DEF OfHandle, Unnumbered
    <3>4. FirstOf(Linked(w), OfHandle(want[w])) = inode[w]
      BY <2>5, <3>3, LinkedNodes, Zenon
    <3>5. Ilookup(curr_id)' = inode[w] /\ FhFind(want[w])' = inode[w]
      BY <2>1, <3>1, <3>2, <3>4, Zenon DEF Ilookup, Numbered, FhFind, OfHandle
    <3> QED
      BY <3>1, <3>2, <3>5 DEF BeforeFh, BeforeId, Unnumbered
  <2>11. CASE \/ ReadHead(w, "id_head", id_table, "id_link")
              \/ ReadHead(w, "fh_head", fh_table, "fh_link")
              \/ SetNew(w) \/ Fill(w) \/ RefInc(w)
    <3>1. /\ id_table' = id_table /\ fh_table' = fh_table /\ curr_id' = curr_id
          /\ ino' = ino /\ fh' = fh
      BY <2>11 DEF ReadHead, SetNew, Fill, RefInc, super, fields
    <3>2. Ilookup(curr_id)' = Ilookup(curr_id) /\ FhFind(want[w])' = FhFind(want[w])
      BY <2>1, <3>1, ZenonT(30) DEF Ilookup, Numbered, FhFind, OfHandle
    <3>3. \/ pc[w] = "id_head" /\ pc'[w] = "id_link"
          \/ pc[w] = "fh_head" /\ pc'[w] = "fh_link"
          \/ pc[w] \notin BeforeFh /\ pc'[w] \in {"fill", "ref", "reply"}
      BY <2>11 DEF ReadHead, SetNew, Fill, RefInc, At, Goto, TypeOK, BeforeFh, BeforeId, Unnumbered
    <3> QED
      BY <2>4, <3>1, <3>2, <3>3, Zenon DEF BeforeFh, BeforeId, Unnumbered
  <2> QED
    BY <1>7, <2>6, <2>7, <2>8, <2>9, <2>10, <2>11, ZenonT(30)
<1>8. CASE UNCHANGED vars \/ \E n \in Id : Forget(n)
  <2>1. UNCHANGED <<super, ino, fh, pc, want, inode, period, crowded>>
    BY <1>8 DEF Forget, vars, fields, locals, history
  <2> QED
    BY <2>1, Zenon DEF AloneMakes, super, Ilookup, FhFind, Numbered, OfHandle
<1> QED
  BY <1>2, <1>3, <1>4, <1>5, <1>6, <1>7, <1>8, ZenonT(40) DEF Next, Work

-----------------------------------------------------------------------------
(* Attributes *)

\* A step of w that leaves the attributes alone, and keeps what w has in hand while
\* it makes an inode.
LEMMA FillingKept ==
  ASSUME Filling, NEW w \in Worker, Allocated' = Allocated, period' = period,
         filled' = filled, i_new' = i_new,
         \A v \in Worker \ {w} : pc'[v] = pc[v] /\ inode'[v] = inode[v],
         pc[w] # "fill", pc[w] \in Making => pc'[w] \in Making /\ inode'[w] = inode[w]
  PROVE  Filling'
<1>1. ASSUME NEW i \in Allocated, ~filled[i]
      PROVE  /\ i \in period
             /\ \E v \in Worker :
                  inode'[v] = i /\ (pc'[v] \in Making \/ (pc'[v] = "fill" /\ i_new[i]))
  <2>1. PICK v \in Worker :
          i \in period /\ inode[v] = i /\ (pc[v] \in Making \/ (pc[v] = "fill" /\ i_new[i]))
    BY <1>1, Zenon DEF Filling
  <2> QED
    BY <2>1, Zenon
<1> QED
  BY <1>1, Zenon DEF Filling

\* An inode whose attributes are missing has a worker that will fill them in: the
\* one that made it, unless another took its I_NEW and filled it.
LEMMA FillingStep ==
  ASSUME TypeOK, Periods, Hands, Filling, [Next]_vars
  PROVE  Filling'
<1>1. ASSUME NEW w \in Worker, Alloc(w)
      PROVE  Filling'
  <2>1. PICK i \in Inode \ Allocated :
          /\ inode' = [inode EXCEPT ![w] = i] /\ period' = period \cup {i}
          /\ Allocated' = Allocated \cup {i}
    BY <1>1, AllocMakes
  <2>2. /\ pc' = [pc EXCEPT ![w] = "load"] /\ pc[w] = "alloc"
        /\ filled' = filled /\ i_new' = i_new
    BY <1>1 DEF Alloc, At, Goto
  <2>3. /\ inode'[w] = i /\ pc'[w] = "load"
        /\ \A v \in Worker \ {w} : inode'[v] = inode[v] /\ pc'[v] = pc[v]
    BY <2>1, <2>2 DEF TypeOK
  <2>4. "load" \in Making /\ "alloc" \notin Making
    BY DEF Making, BeforeFh, BeforeId, Unnumbered
  <2> QED
    BY <2>1, <2>2, <2>3, <2>4 DEF Filling
<1>2. ASSUME NEW w \in Worker, Reply(w)
      PROVE  Filling'
  <2>1. /\ filled' = filled /\ i_new' = i_new /\ pc[w] = "reply" /\ Allocated' = Allocated
        /\ \A v \in Worker \ {w} : inode'[v] = inode[v] /\ pc'[v] = pc[v]
    BY <1>2, AllocatedSame DEF Reply, At, Goto, fields, TypeOK
  <2>2. period' = period \/ Busy = {w}
    BY <1>2 DEF Reply, history
  <2>3. "reply" \notin Making /\ "idle" \notin Making
    BY DEF Making, BeforeFh, BeforeId, Unnumbered
  <2>4. \A v \in Worker : pc[v] \in Making \cup {"fill"} => v \in Busy
    BY <2>3 DEF Busy
  <2>5. ASSUME NEW i \in Allocated, ~filled[i]
        PROVE  /\ i \in period'
               /\ \E v \in Worker :
                    inode'[v] = i /\ (pc'[v] \in Making \/ (pc'[v] = "fill" /\ i_new'[i]))
    <3>1. PICK v \in Worker :
            i \in period /\ inode[v] = i /\ (pc[v] \in Making \/ (pc[v] = "fill" /\ i_new[i]))
      BY <2>5, Zenon DEF Filling
    <3>2. v # w /\ v \in Busy
      BY <2>1, <2>3, <2>4, <3>1
    <3> QED
      BY <2>1, <2>2, <3>1, <3>2, ZenonT(30)
  <2> QED
    BY <2>1, <2>5, Zenon DEF Filling
<1>3. ASSUME NEW w \in Worker, Fill(w)
      PROVE  Filling'
  <2>1. /\ pc[w] = "fill" /\ inode' = inode /\ Allocated' = Allocated /\ period' = period
        /\ \A v \in Worker \ {w} : pc'[v] = pc[v]
    BY <1>3, AllocatedSame, Zenon DEF Fill, At, Goto, history, TypeOK
  <2>2. inode[w] \in Inode
    BY <2>1, InHand DEF Empty
  <2>3. /\ filled' = [filled EXCEPT ![inode[w]] = filled[inode[w]] \/ i_new[inode[w]]]
        /\ i_new' = [i_new EXCEPT ![inode[w]] = FALSE]
    BY <1>3, <2>2 DEF Fill, TypeOK
  <2>4. \A i \in Inode : /\ filled[i] => filled'[i]
                         /\ i # inode[w] /\ i_new[i] => i_new'[i]
                         /\ i = inode[w] /\ i_new[i] => filled'[i]
    BY <2>3, Zenon DEF TypeOK
  <2>5. "fill" \notin Making
    BY DEF Making, BeforeFh, BeforeId, Unnumbered
  <2>6. ASSUME NEW i \in Allocated, ~filled'[i]
        PROVE  /\ i \in period
               /\ \E v \in Worker :
                    inode[v] = i /\ (pc'[v] \in Making \/ (pc'[v] = "fill" /\ i_new'[i]))
    <3>1. i \in Inode
      BY DEF Allocated
    <3>2. ~filled[i]
      BY <2>4, <2>6, <3>1, Zenon
    <3>3. PICK v \in Worker :
            i \in period /\ inode[v] = i /\ (pc[v] \in Making \/ (pc[v] = "fill" /\ i_new[i]))
      BY <3>2, ZenonT(40) DEF Filling
    <3>4. CASE i = inode[w]
      <4>1. ~i_new[i]
        BY <2>4, <2>6, <3>1, <3>4, Zenon
      <4>2. pc[v] \in Making /\ v # w
        BY <2>1, <2>5, <3>3, <4>1
      <4> QED
        BY <2>1, <3>3, <4>2
    <3>5. CASE i # inode[w]
      <4>1. i_new[i] => i_new'[i]
        BY <2>4, <3>1, <3>5, Zenon
      <4> QED
        BY <2>1, <3>3, <3>5, <4>1, Zenon
    <3> QED
      BY <3>4, <3>5
  <2> QED
    BY <2>1, <2>6, Zenon DEF Filling
<1>4. ASSUME NEW w \in Worker, SetNew(w)
      PROVE  Filling'
  <2>1. /\ pc' = [pc EXCEPT ![w] = "fill"] /\ inode' = inode /\ Allocated' = Allocated
        /\ period' = period /\ filled' = filled /\ i_new' = [i_new EXCEPT ![inode[w]] = TRUE]
    BY <1>4, AllocatedSame DEF SetNew, Goto, history
  <2>2. /\ pc'[w] = "fill" /\ \A v \in Worker \ {w} : pc'[v] = pc[v]
        /\ \A i \in Inode : i_new[i] \/ i = inode[w] => i_new'[i]
    BY <2>1 DEF TypeOK
  <2>3. \A i \in Allocated : i \in Inode
    BY Zenon DEF Allocated
  <2> QED
    BY <2>1, <2>2, <2>3 DEF Filling
<1>5. ASSUME NEW w \in Worker,
             \/ Find(w) \/ Load(w) \/ Store(w) \/ Test(w) \/ Take(w) \/ LinkId(w) \/ LinkFh(w)
             \/ ReadHead(w, "id_head", id_table, "id_link")
             \/ ReadHead(w, "fh_head", fh_table, "fh_link") \/ RefInc(w)
      PROVE  Filling'
  <2>1. /\ Allocated' = Allocated /\ period' = period /\ filled' = filled /\ i_new' = i_new
        /\ \A v \in Worker \ {w} : pc'[v] = pc[v] /\ inode'[v] = inode[v]
    BY <1>5, AllocatedSame, Zenon DEF Find, Load, Store, Test, Take, LinkId, LinkFh, ReadHead, RefInc,
         Goto, fields, history, TypeOK
  <2>2. /\ pc[w] # "fill"
        /\ pc[w] \in Making => pc'[w] \in Making /\ inode'[w] = inode[w]
    BY <1>5, Zenon DEF Find, Load, Store, Test, Take, LinkId, LinkFh, ReadHead, RefInc, At, Goto,
         TypeOK, Making, BeforeFh, BeforeId, Unnumbered
  <2> QED
    BY <2>1, <2>2, FillingKept, Zenon
<1>6. ASSUME NEW w \in Worker, NEW h \in Handle, Get(w, h)
      PROVE  Filling'
  <2>1. /\ Allocated' = Allocated /\ period' = period /\ filled' = filled /\ i_new' = i_new
        /\ \A v \in Worker \ {w} : pc'[v] = pc[v]
        /\ inode' = inode /\ pc[w] = "idle"
    BY <1>6, AllocatedSame DEF Get, At, Goto, fields, TypeOK
  <2>2. "idle" \notin Making
    BY DEF Making, BeforeFh, BeforeId, Unnumbered
  <2> QED
    BY <2>1, <2>2, FillingKept, Zenon
<1>7. CASE UNCHANGED vars \/ \E n \in Id : Forget(n)
  <2>1. UNCHANGED <<fh, i_new, filled, pc, inode, period>>
    BY <1>7 DEF Forget, vars, fields, locals, history
  <2> QED
    BY <2>1, AllocatedSame, Zenon DEF Filling
<1> QED
  BY <1>1, <1>2, <1>3, <1>4, <1>5, <1>6, <1>7, ZenonT(40) DEF Next, Work

-----------------------------------------------------------------------------
(* What the kernel holds *)

\* A number that the kernel holds was given for a clean inode, or an inode made by
\* overlapping requests has it too.
LEMMA HeldStep ==
  ASSUME TypeOK, Periods, Hands, Chains, Cleans, AloneMakes, Held, [Next]_vars
  PROVE  Held'
<1> DEFINE Given(t) == /\ t[1] # 0
                       /\ \/ \E i \in raced' : ino'[i] = t[1]
                          \/ \E i \in Clean' : ino'[i] = t[1] /\ fh'[i] = t[2]
<1>1. ASSUME NEW t \in told
      PROVE  Given(t)
  <2>1. /\ t[1] # 0
        /\ \/ \E i \in raced : ino[i] = t[1]
           \/ \E i \in Clean : ino[i] = t[1] /\ fh[i] = t[2]
    BY DEF Held
  <2>2. raced \subseteq raced' /\ Clean \subseteq Clean'
    BY HistoryKept, Zenon
  <2>3. raced \subseteq Allocated /\ Clean \subseteq Allocated
    BY DEF Periods, Clean
  <2> QED
    BY <2>1, <2>2, <2>3, FieldsKept, Zenon
<1>2. ASSUME NEW w \in Worker, Reply(w)
      PROVE  Given(<<ino[inode[w]], want[w]>>)
  <2> DEFINE i == inode[w]
  <2>1. i \in Inode /\ i \in Allocated /\ fh[i] = want[w] /\ ino[i] # 0
    BY <1>2, InHand, Zenon DEF Reply, At, Hands, Empty, Unnumbered
  <2>2. ino' = ino /\ fh' = fh /\ Allocated' = Allocated
    BY <1>2, AllocatedSame DEF Reply, fields
  <2>3. i \in raced' \/ i \in Clean'
    <3>1. raced \subseteq raced' /\ Clean \subseteq Clean'
      BY HistoryKept, Zenon
    <3>2. CASE i \in period /\ i \notin raced
      <4>1. ~crowded
        BY <3>2 DEF Periods
      <4>2. Busy = {w}
        BY <1>2, <3>2, <4>1, AloneEnds
      <4>3. period' = {}
        BY <1>2, <4>2 DEF Reply, Quiesce
      <4> QED
        BY <2>1, <2>2, <4>3 DEF Clean
    <3> QED
      BY <2>1, <3>1, <3>2 DEF Clean
  <2> QED
    BY <2>1, <2>2, <2>3
<1>3. ASSUME NEW w \in Worker, Reply(w)
      PROVE  Held'
  <2> HIDE DEF Given
  <2> DEFINE n == ino[inode[w]]
  <2>1. nlookup' = [nlookup EXCEPT ![n] = nlookup[n] + 1] /\ told' = told \cup {<<n, want[w]>>}
    BY <1>3 DEF Reply
  <2>2. \A t \in told' : Given(t)
    BY <1>1, <1>2, <1>3, <2>1, Zenon
  <2> HIDE DEF n
  <2>3. \A m \in Id : nlookup'[m] > 0 => \E t \in told' : t[1] = m
    <3>1. ASSUME NEW m \in Id, nlookup'[m] > 0
          PROVE  \E t \in told' : t[1] = m
      <4>1. CASE m = n
        <5>1. <<n, want[w]>>[1] = m
          BY <4>1
        <5> QED
          BY <2>1, <5>1, Zenon
      <4>2. CASE m # n
        <5>1. nlookup[m] > 0
          BY <2>1, <3>1, <4>2 DEF TypeOK
        <5>2. PICK t \in told : t[1] = m
          BY <5>1 DEF Held
        <5> QED
          BY <2>1, <5>2
      <4> QED
        BY <4>1, <4>2
    <3> QED
      BY <3>1
  <2> QED
    BY <2>2, <2>3 DEF Held, Given
<1>4. ASSUME NEW n \in Id, Forget(n)
      PROVE  Held'
  <2>1. nlookup' = [nlookup EXCEPT ![n] = 0] /\ told' = {t \in told : t[1] # n}
    BY <1>4 DEF Forget
  <2>2. \A m \in Id : nlookup'[m] > 0 => \E t \in told' : t[1] = m
    BY <2>1 DEF Held, TypeOK
  <2> QED
    BY <1>1, <2>1, <2>2 DEF Held
<1>5. CASE ~(\E w \in Worker : Reply(w)) /\ ~(\E n \in Id : Forget(n))
  <2>1. UNCHANGED kernel
    BY <1>5, Zenon DEF Next, Work, vars, Get, Find, Alloc, Load, Store, Test, Take, ReadHead,
         LinkId, LinkFh, SetNew, Fill, RefInc
  <2>2. nlookup' = nlookup /\ told' = told
    BY <2>1 DEF kernel
  <2>3. \A n \in Id : nlookup'[n] > 0 => \E t \in told' : t[1] = n
    BY <2>2 DEF Held
  <2> QED
    BY <1>1, <2>2, <2>3 DEF Held
<1> QED
  BY <1>3, <1>4, <1>5

\* Until requests overlap, no two inodes have one number.
LEMMA NumbersDistinct ==
  ASSUME TypeOK, Periods, Hands, Cleans, AloneMakes, raced = {},
         NEW i \in Allocated, NEW j \in Allocated, ino[i] = ino[j]
  PROVE  i = j
<1>1. ASSUME NEW k \in Allocated \ period
      PROVE  k # Null /\ ino[k] # 0 /\ Ilookup(ino[k]) = k
  <2>1. k \in Clean /\ id_table \in IdChains
    BY DEF Clean, IdChains
  <2> QED
    BY <2>1, WorkersAssumption, ZenonT(30) DEF Cleans, Allocated, Ilookup
<1>2. ASSUME NEW k \in period
      PROVE  \E w \in Busy : /\ inode[w] = k /\ \A v \in Busy : v = w
                             /\ ino[k] = 0 \/ Ilookup(ino[k]) \in {Null, k}
  <2>1. ~crowded
    BY DEF Periods
  <2>2. PICK w \in Worker : inode[w] = k
    BY <2>1 DEF AloneMakes
  <2>3. pc[w] \notin Empty /\ w \in Busy
    BY <2>2, WorkersAssumption, Zenon DEF Hands, Busy, TypeOK, Empty
  <2>4. ino[k] = 0 \/ Ilookup(ino[k]) \in {Null, k}
    <3>1. pc[w] \in Unnumbered => ino[k] = 0
      BY <2>2, <2>3 DEF Hands
    <3>2. pc[w] \notin Unnumbered => ino[k] = curr_id
      BY <2>1, <2>2 DEF AloneMakes
    <3>3. pc[w] \in {"id_head", "id_link"} => Ilookup(curr_id) = Null
      BY <2>1, <2>2 DEF AloneMakes
    <3>4. pc[w] \notin BeforeId => Ilookup(curr_id) = k
      BY <2>1, <2>2 DEF AloneMakes
    <3> QED
      BY <3>1, <3>2, <3>3, <3>4 DEF BeforeId
  <2> QED
    BY <2>1, <2>2, <2>3, <2>4 DEF Periods
<1> QED
  BY <1>1, <1>2

\* The workers about to send an inode are finitely many.
LEMMA ReplyingFinite ==
  ASSUME NEW i
  PROVE  IsFiniteSet(Replying(i)) /\ Cardinality(Replying(i)) \in Nat
<1>1. Replying(i) \subseteq Worker
  BY DEF Replying
<1>2. IsFiniteSet(Replying(i))
  BY <1>1, WorkersAssumption, FS_Subset, ZenonT(40)
<1> QED
  BY <1>2, FS_CardinalityType, Zenon

\* A number that the kernel holds leads to its inode until requests overlap.
LEMMA ForgetFinds ==
  ASSUME TypeOK, Cleans, Held, raced = {}, NEW n \in Id, nlookup[n] > 0
  PROVE  Ilookup(n) \in Clean /\ Ilookup(n) # Null /\ ino[Ilookup(n)] = n
<1>1. PICK t \in told : t[1] = n
  BY Zenon DEF Held
<1>2. PICK i \in Clean : ino[i] = n
  BY <1>1, ZenonT(40) DEF Held
<1>3. id_table \in IdChains
  BY DEF IdChains
<1>4. Ilookup(n) = i
  BY <1>2, <1>3 DEF Cleans, Ilookup
<1> QED
  BY <1>2, <1>4, WorkersAssumption DEF Clean, Allocated

\* inode->private is what the kernel holds and is about to get.
LEMMA BalanceStep ==
  ASSUME TypeOK, Periods, Hands, Chains, Cleans, AloneMakes, Held, Balance, [Next]_vars
  PROVE  Balance'
<1> SUFFICES ASSUME raced' = {}
             PROVE  \A i \in Allocated' :
                      private'[i] = nlookup'[ino'[i]] + Cardinality(Replying(i)')
  BY Zenon DEF Balance
<1>0. raced = {} /\ (crowded => period = {})
  BY HistoryKept, Zenon DEF Periods
<1>1. \A i \in Allocated : /\ private[i] = nlookup[ino[i]] + Cardinality(Replying(i))
                           /\ i \in Inode /\ ino[i] \in Id /\ private[i] \in Nat
                           /\ nlookup[ino[i]] \in Nat
  BY <1>0 DEF Balance, Allocated, TypeOK
<1>2. nlookup[0] = 0
  <2>1. ~(nlookup[0] > 0) /\ 0 \in Id
    BY WorkersAssumption DEF Held, Id
  <2> QED
    BY <2>1 DEF TypeOK
<1>3. ASSUME NEW w \in Worker, RefInc(w), NEW i \in Allocated'
      PROVE  private'[i] = nlookup'[ino'[i]] + Cardinality(Replying(i)')
  <2>1. /\ Allocated' = Allocated /\ nlookup' = nlookup /\ ino' = ino
        /\ inode' = inode /\ pc[w] = "ref" /\ pc' = [pc EXCEPT ![w] = "reply"]
    BY <1>3, AllocatedSame, Zenon DEF RefInc, At, Goto, kernel
  <2>2. inode[w] \in Inode
    BY <2>1, InHand DEF Empty
  <2>3. i \in Inode /\ private[i] \in Nat
    BY <1>1, <1>3, <2>1
  <2>4. private'[i] = IF i = inode[w] THEN private[i] + 1 ELSE private[i]
    BY <1>3, <2>2, <2>3, Zenon DEF RefInc, TypeOK
  <2>5. Replying(i)' = IF i = inode[w] THEN Replying(i) \cup {w} ELSE Replying(i)
    BY <2>1 DEF Replying, TypeOK
  <2>6. w \notin Replying(i)
    BY <2>1 DEF Replying
  <2>7. Cardinality(Replying(i)')
          = IF i = inode[w] THEN Cardinality(Replying(i)) + 1 ELSE Cardinality(Replying(i))
    BY <2>5, <2>6, ReplyingFinite, FS_AddElement, Zenon
  <2>8. private[i] = nlookup[ino[i]] + Cardinality(Replying(i)) /\ nlookup[ino[i]] \in Nat
    BY <1>1, <1>3, <2>1
  <2>9. Cardinality(Replying(i)) \in Nat
    BY ReplyingFinite, Zenon
  <2> QED
    BY <2>1, <2>3, <2>4, <2>7, <2>8, <2>9
<1>4. ASSUME NEW w \in Worker, Reply(w), NEW i \in Allocated'
      PROVE  private'[i] = nlookup'[ino'[i]] + Cardinality(Replying(i)')
  <2>1. /\ Allocated' = Allocated /\ private' = private /\ ino' = ino
        /\ inode' = [inode EXCEPT ![w] = Null] /\ pc[w] = "reply"
        /\ pc' = [pc EXCEPT ![w] = "idle"]
    BY <1>4, AllocatedSame DEF Reply, At, Goto, fields
  <2>2. inode[w] \in Inode /\ inode[w] \in Allocated
    BY <2>1, InHand DEF Empty
  <2>3. i = inode[w] <=> ino[i] = ino[inode[w]]
    BY <1>0, <1>4, <2>1, <2>2, NumbersDistinct, Zenon
  <2>4. nlookup'[ino[i]] = IF i = inode[w] THEN nlookup[ino[i]] + 1 ELSE nlookup[ino[i]]
    <3>1. nlookup' = [nlookup EXCEPT ![ino[inode[w]]] = nlookup[ino[inode[w]]] + 1]
      BY <1>4, Zenon DEF Reply
    <3>2. ino[inode[w]] \in Id /\ ino[i] \in Id
      BY <1>1, <1>4, <2>1, <2>2, Zenon
    <3> QED
      BY <2>3, <3>1, <3>2, Zenon DEF TypeOK
  <2>5. Replying(i)' = IF i = inode[w] THEN Replying(i) \ {w} ELSE Replying(i)
    BY <2>1 DEF Replying, TypeOK
  <2>6. i = inode[w] => w \in Replying(i)
    BY <2>1 DEF Replying
  <2>7. Cardinality(Replying(i)')
          = IF i = inode[w] THEN Cardinality(Replying(i)) - 1 ELSE Cardinality(Replying(i))
    BY <2>5, <2>6, ReplyingFinite, FS_RemoveElement, Zenon
  <2>8. private[i] = nlookup[ino[i]] + Cardinality(Replying(i)) /\ nlookup[ino[i]] \in Nat
    BY <1>1, <1>4, <2>1
  <2>9. Cardinality(Replying(i)) \in Nat
    BY ReplyingFinite, Zenon
  <2> QED
    BY <2>1, <2>4, <2>7, <2>8, <2>9
<1>5. ASSUME NEW n \in Id, Forget(n), NEW i \in Allocated'
      PROVE  private'[i] = nlookup'[ino'[i]] + Cardinality(Replying(i)')
  <2> DEFINE f == Ilookup(n)
  <2>1. /\ Allocated' = Allocated /\ ino' = ino /\ Replying(i)' = Replying(i)
        /\ nlookup[n] > 0 /\ nlookup' = [nlookup EXCEPT ![n] = 0]
    BY <1>5, AllocatedSame DEF Forget, locals, Replying
  <2>2. f \in Allocated /\ f # Null /\ ino[f] = n
    BY <1>0, <2>1, ForgetFinds DEF Clean
  <2>3. private[f] = nlookup[n] + Cardinality(Replying(f)) /\ nlookup[n] \in Nat
        /\ Cardinality(Replying(f)) \in Nat /\ private[f] \in Nat
    BY <1>1, <2>2, ReplyingFinite, Zenon
  <2>4. ~(private[f] < nlookup[n])
    BY <2>3
  <2>5. private' = [private EXCEPT ![f] = private[f] - nlookup[n]]
    BY <1>5, <2>2, <2>4, Zenon DEF Forget
  <2>6. i \in Allocated /\ i \in Inode /\ ino[i] \in Id
    BY <1>1, <1>5, <2>1, Zenon
  <2> HIDE DEF f
  <2>7. CASE i = f
    <3>1. private'[i] = private[f] - nlookup[n]
      BY <2>5, <2>6, <2>7, Zenon DEF TypeOK
    <3>2. nlookup'[ino'[i]] = 0
      BY <2>1, <2>2, <2>7, Zenon DEF TypeOK
    <3> QED
      BY <2>1, <2>3, <2>7, <3>1, <3>2
  <2>8. CASE i # f
    <3>1. ino[i] # n
      BY <1>0, <2>2, <2>6, <2>8, NumbersDistinct, Zenon
    <3> QED
      BY <1>1, <2>1, <2>5, <2>6, <2>8, <3>1, Zenon DEF TypeOK
  <2> QED
    BY <2>7, <2>8, Zenon
<1>6. ASSUME NEW w \in Worker, Take(w), NEW i \in Allocated'
      PROVE  private'[i] = nlookup'[ino'[i]] + Cardinality(Replying(i)')
  <2>1. /\ Allocated' = Allocated /\ private' = private /\ nlookup' = nlookup
        /\ ino' = [ino EXCEPT ![inode[w]] = curr_id] /\ inode' = inode
        /\ pc[w] = "take" /\ pc' = [pc EXCEPT ![w] = "id_head"]
    BY <1>6, AllocatedSame, Zenon DEF Take, At, Goto, kernel
  <2>2. Replying(i)' = Replying(i)
    BY <2>1, Zenon DEF Replying, TypeOK
  <2>3. i \in Inode /\ private[i] = nlookup[ino[i]] + Cardinality(Replying(i))
    BY <1>1, <1>6, <2>1, Zenon
  <2>4. CASE i # inode[w]
    BY <2>1, <2>2, <2>3, <2>4, Zenon DEF TypeOK
  <2>5. CASE i = inode[w]
    <3>1. ino[i] = 0 /\ i \in period
      BY <2>1, <2>5, Zenon DEF Hands, Empty, Unnumbered, Making, BeforeFh, BeforeId
    <3>2. Ilookup(curr_id) = Null
      BY <1>0, <2>1, <2>5, <3>1, Zenon DEF AloneMakes
    <3>3. curr_id \in Id /\ nlookup[curr_id] \in Nat
      BY Zenon DEF TypeOK
    <3>4. ~(nlookup[curr_id] > 0)
      BY <1>0, <3>2, <3>3, ForgetFinds, Zenon
    <3>5. nlookup[curr_id] = 0
      BY <3>3, <3>4
    <3>6. ino'[i] = curr_id
      BY <2>1, <2>3, <2>5 DEF TypeOK
    <3> QED
      BY <1>2, <2>1, <2>2, <2>3, <3>1, <3>5, <3>6, Zenon
  <2> QED
    BY <2>4, <2>5
<1>7. ASSUME NEW w \in Worker, Alloc(w), NEW i \in Allocated'
      PROVE  private'[i] = nlookup'[ino'[i]] + Cardinality(Replying(i)')
  <2>1. PICK j \in Inode \ Allocated :
          inode' = [inode EXCEPT ![w] = j] /\ Allocated' = Allocated \cup {j}
    BY <1>7, AllocMakes, Zenon
  <2>2. /\ private' = private /\ nlookup' = nlookup /\ ino' = ino
        /\ pc[w] = "alloc" /\ pc' = [pc EXCEPT ![w] = "load"]
    BY <1>7 DEF Alloc, At, Goto, kernel
  <2>3. Replying(i)' = Replying(i)
    BY <2>1, <2>2, Zenon DEF Replying, TypeOK
  <2>4. CASE i \in Allocated
    BY <1>1, <2>2, <2>3, <2>4, Zenon
  <2>5. CASE i = j
    <3>1. Replying(i) = {}
      BY <2>5, InHand DEF Replying, Empty
    <3>2. Cardinality(Replying(i)) = 0
      BY <3>1, FS_EmptySet, Zenon
    <3>3. private[i] = 0 /\ ino[i] = 0
      BY <2>5 DEF Chains
    <3> QED
      BY <1>2, <2>2, <2>3, <3>2, <3>3
  <2> QED
    BY <1>7, <2>1, <2>4, <2>5, Zenon
<1>8. ASSUME NEW w \in Worker,
             \/ Find(w) \/ Load(w) \/ Store(w) \/ Test(w) \/ LinkId(w) \/ LinkFh(w)
             \/ ReadHead(w, "id_head", id_table, "id_link")
             \/ ReadHead(w, "fh_head", fh_table, "fh_link") \/ SetNew(w) \/ Fill(w)
             \/ \E h \in Handle : Get(w, h),
             NEW i \in Allocated'
      PROVE  private'[i] = nlookup'[ino'[i]] + Cardinality(Replying(i)')
  <2>1. Allocated' = Allocated /\ private' = private /\ nlookup' = nlookup /\ ino' = ino
    BY <1>8, AllocatedSame, ZenonT(30) DEF Find, Load, Store, Test, LinkId, LinkFh, ReadHead, SetNew, Fill,
         Get, fields, kernel
  <2>2. /\ pc[w] # "reply" /\ pc'[w] # "reply"
        /\ \A v \in Worker \ {w} : pc'[v] = pc[v] /\ inode'[v] = inode[v]
    BY <1>8, Zenon DEF Find, Load, Store, Test, LinkId, LinkFh, ReadHead, SetNew, Fill, Get, At, Goto,
         TypeOK
  <2>3. Replying(i)' = Replying(i)
    BY <2>2 DEF Replying
  <2> QED
    BY <1>1, <1>8, <2>1, <2>3, ZenonT(30)
<1>9. ASSUME UNCHANGED vars, NEW i \in Allocated'
      PROVE  private'[i] = nlookup'[ino'[i]] + Cardinality(Replying(i)')
  <2>1. Allocated' = Allocated /\ private' = private /\ nlookup' = nlookup /\ ino' = ino
        /\ pc' = pc /\ inode' = inode
    BY <1>9, AllocatedSame DEF vars, fields, kernel, locals
  <2>2. Replying(i)' = Replying(i)
    BY <2>1 DEF Replying
  <2> QED
    BY <1>1, <1>9, <2>1, <2>2, Zenon
<1> QED
  BY <1>3, <1>4, <1>5, <1>6, <1>7, <1>8, <1>9, ZenonT(40) DEF Next, Work

\* Neither assertion of hsx_fuse_forget fails before requests overlap.
LEMMA ForgetStep ==
  ASSUME TypeOK, Periods, Hands, Cleans, Held, Balance, ForgetUnlessRaced, [Next]_vars
  PROVE  ForgetUnlessRaced'
<1> SUFFICES ASSUME raced' = {}
             PROVE  status' = "up"
  BY DEF ForgetUnlessRaced
<1>1. raced = {} /\ status = "up"
  BY HistoryKept, Zenon DEF ForgetUnlessRaced
<1>2. ASSUME NEW n \in Id, Forget(n)
      PROVE  status' = "up"
  <2>1. nlookup[n] > 0 /\ nlookup[n] \in Nat
    BY <1>2 DEF Forget, TypeOK
  <2>2. Ilookup(n) \in Clean /\ Ilookup(n) # Null /\ ino[Ilookup(n)] = n
    BY <1>1, <2>1, ForgetFinds, Zenon
  <2>3. private[Ilookup(n)] = nlookup[n] + Cardinality(Replying(Ilookup(n)))
    BY <1>1, <2>2 DEF Balance, Clean
  <2>4. Cardinality(Replying(Ilookup(n))) \in Nat
    BY ReplyingFinite
  <2>5. ~(private[Ilookup(n)] < nlookup[n])
    BY <2>1, <2>3, <2>4
  <2> QED
    BY <1>2, <2>2, <2>5, Zenon DEF Forget
<1>3. CASE ~(\E n \in Id : Forget(n))
  <2>1. status' = status
    BY <1>3, Zenon DEF Next, Work, vars, Get, Find, Alloc, Load, Store, Test, Take, ReadHead,
         LinkId, LinkFh, SetNew, Fill, RefInc, Reply
  <2> QED
    BY <1>1, <2>1
<1> QED
  BY <1>2, <1>3

-----------------------------------------------------------------------------
(* The theorems *)

\* After the mount the root is alone in both chains.
LEMMA InitHolds ==
  ASSUME Init
  PROVE  IInv
<1>1. Allocated = {RootInode} /\ RootInode \in Inode /\ RootInode # Null
  BY WorkersAssumption DEF Init, Allocated
<1>2. 0 \in Id /\ 1 \in Id /\ gets \in 0 .. MaxGets
  BY WorkersAssumption DEF Id, Init
<1>3. /\ id_table = <<RootInode>> /\ fh_table = <<RootInode>> /\ ino[RootInode] = 1
      /\ \A i \in Inode : (ino[i] # 0 \/ private[i] # 0) => i = RootInode
      /\ curr_id = 1 /\ filled[RootInode] /\ private[RootInode] = 1
      /\ status = "up" /\ fh[RootInode] = Root
      /\ settled = {RootInode} /\ period = {} /\ crowded = FALSE /\ raced = {}
  BY <1>1, Zenon DEF Init
<1>4. \A w \in Worker : pc[w] = "idle" /\ inode[w] = Null
  BY Zenon DEF Init
<1>5. TypeOK
  <2>1. <<RootInode>> \in Seq(Inode) /\ << >> \in Seq(Inode)
    BY <1>1
  <2>2. i_new \in [Inode -> BOOLEAN] /\ filled \in [Inode -> BOOLEAN] /\ crowded \in BOOLEAN
    <3>1. \A i \in Inode : (i = RootInode) \in BOOLEAN
      OBVIOUS
    <3> QED
      BY <3>1, Zenon DEF Init
  <2>3. /\ ino \in [Inode -> Id] /\ fh \in [Inode -> Handle \cup {Root}]
        /\ private \in [Inode -> Nat] /\ nlookup \in [Id -> Nat]
    BY <1>2 DEF Init
  <2>4. /\ pc \in [Worker -> PCs] /\ want \in [Worker -> Handle \cup {Root}]
        /\ inode \in [Worker -> Inode \cup {Null}] /\ loaded \in [Worker -> Id]
        /\ first \in [Worker -> Seq(Inode)]
    BY <1>2, <2>1 DEF Init, PCs
  <2>5. told \subseteq Id \X (Handle \cup {Root})
    BY <1>2 DEF Init
  <2> QED
    BY <1>1, <1>2, <1>3, <2>1, <2>2, <2>3, <2>4, <2>5, Zenon DEF TypeOK
<1>6. IdChains = {<<RootInode>>} /\ FhChains = {<<RootInode>>}
  BY <1>3, <1>4 DEF IdChains, FhChains
<1>7. ASSUME NEW S, RootInode \in S
      PROVE  FirstOf(<<RootInode>>, S) = RootInode
  <2> DEFINE s == <<RootInode>>
  <2>1. s \in Seq(Inode) /\ DOMAIN s = {1} /\ s[1] = RootInode
    BY <1>1
  <2> HIDE DEF s
  <2>2. FirstOf(s, S) # Null
    BY <1>7, <2>1, FirstFinds, Zenon
  <2>3. \E k \in DOMAIN s : s[k] = FirstOf(s, S)
    BY <2>1, <2>2, FirstFinds, Zenon
  <2>4. FirstOf(s, S) = RootInode
    BY <2>1, <2>3
  <2> QED
    BY <2>4 DEF s
<1>8. /\ FirstOf(<<RootInode>>, Numbered(1)) = RootInode
      /\ FirstOf(<<RootInode>>, OfHandle(Root)) = RootInode
  <2>1. RootInode \in Numbered(1) /\ RootInode \in OfHandle(Root)
    BY <1>1, <1>3 DEF Numbered, OfHandle
  <2> QED
    BY <1>7, <2>1
<1>9. Periods /\ Hands /\ AloneMakes /\ ForgetUnlessRaced
  BY <1>1, <1>3, <1>4, ZenonT(30) DEF Periods, Hands, AloneMakes, ForgetUnlessRaced, Busy, Empty,
       Making, BeforeFh, BeforeId, Unnumbered
<1>10. Chains
  <2>1. \A k \in DOMAIN <<RootInode>> : <<RootInode>>[k] = RootInode
    OBVIOUS
  <2>2. "idle" \notin BeforeFh /\ "idle" \notin BeforeId
    BY DEF BeforeFh, BeforeId, Unnumbered
  <2> QED
    BY <1>1, <1>3, <1>4, <1>6, <2>1, <2>2 DEF Chains
<1>11. Settled /\ Cleans
  <2>1. RootInode \in Range(<<RootInode>>)
    BY DEF Range
  <2>2. "idle" \notin BeforeFh \cup {"alloc"}
    BY DEF BeforeFh, BeforeId, Unnumbered
  <2>3. Clean = {RootInode}
    BY <1>1, <1>3 DEF Clean
  <2>4. Settled
    BY <1>3, <1>4, <1>6, <1>8, <2>1, <2>2, ZenonT(30) DEF Settled
  <2>5. Cleans
    BY <1>3, <1>4, <1>6, <1>8, <2>3 DEF Cleans
  <2> QED
    BY <2>4, <2>5
<1>12. Filling
  BY <1>1, <1>3, Zenon DEF Filling
<1>13. Held
  <2>1. told = {<<1, Root>>} /\ \A n \in Id : nlookup[n] > 0 => n = 1
    BY DEF Init
  <2>2. Clean = {RootInode}
    BY <1>1, <1>3 DEF Clean
  <2>3. <<1, Root>>[1] = 1 /\ <<1, Root>>[2] = Root
    OBVIOUS
  <2> QED
    BY <1>3, <2>1, <2>2, <2>3 DEF Held
<1>14. Balance
  <2>1. Replying(RootInode) = {}
    BY <1>4 DEF Replying
  <2>2. Cardinality(Replying(RootInode)) = 0
    BY <2>1, FS_EmptySet
  <2>3. nlookup[1] = 1
    BY <1>2 DEF Init
  <2> QED
    BY <1>1, <1>3, <2>2, <2>3 DEF Balance
<1> QED
  BY <1>5, <1>9, <1>10, <1>11, <1>12, <1>13, <1>14 DEF IInv

\* Every step of every worker and every forget keeps the invariant.
LEMMA NextHolds ==
  ASSUME IInv, [Next]_vars
  PROVE  IInv'
<1>1. TypeOK' /\ Periods' /\ Hands' /\ Chains'
  BY TypeStep, PeriodsStep, HandsStep, ChainsStep DEF IInv
<1>2. Settled' /\ Cleans' /\ AloneMakes'
  BY SettledStep, CleansStep, AloneMakesStep DEF IInv
<1>3. Filling' /\ Held' /\ Balance' /\ ForgetUnlessRaced'
  BY FillingStep, HeldStep, BalanceStep, ForgetStep DEF IInv
<1> QED
  BY <1>1, <1>2, <1>3 DEF IInv

\* The invariant holds in every state, for any number of workers.
THEOREM Invariance == Spec => []IInv
<1>1. Init => IInv
  BY InitHolds
<1>2. IInv /\ [Next]_vars => IInv'
  BY NextHolds
<1> QED
  BY <1>1, <1>2, PTL DEF Spec

\* hlist_add_head without a lock may lose the inodes that workers are linking at
\* that moment, and never one that both chains led to when no worker was inside
\* hsi_nfs_fhget.
THEOREM SettledInodesStay == Spec => []SettledStay
<1>1. IInv => SettledStay
  <2> SUFFICES ASSUME IInv, NEW i \in settled
               PROVE  /\ i \in Range(id_table) /\ FhFind(fh[i]) = i
                      /\ Ilookup(ino[i]) \in {i} \cup raced
    BY Zenon DEF SettledStay
  <2>1. Settled /\ id_table \in IdChains /\ fh_table \in FhChains
    BY Zenon DEF IInv, IdChains, FhChains
  <2> QED
    BY <2>1, Zenon DEF Settled, FhFind, Ilookup
<1> QED
  BY <1>1, Invariance, PTL

\* get_new_inode run by one worker alone makes an inode that is found by its number
\* and its handle, and has its attributes, whatever overlaps before and after.
THEOREM AloneInodesSafe == Spec => []AloneIsSafe
<1>1. IInv => AloneIsSafe
  <2> SUFFICES ASSUME IInv, NEW i \in Clean
               PROVE  Resolves(i) /\ filled[i]
    BY ZenonT(40) DEF AloneIsSafe, Clean
  <2>1. Settled /\ Cleans /\ Filling /\ id_table \in IdChains /\ fh_table \in FhChains
    BY Zenon DEF IInv, IdChains, FhChains
  <2>2. i \in settled /\ Ilookup(ino[i]) = i
    BY <2>1 DEF Cleans, Ilookup
  <2>3. FhFind(fh[i]) = i
    BY <2>1, <2>2, ZenonT(40) DEF Settled, FhFind
  <2>4. filled[i]
    BY <2>1 DEF Filling, Clean
  <2> QED
    BY <2>2, <2>3, <2>4, Zenon DEF Resolves
<1> QED
  BY <1>1, Invariance, PTL

\* What the kernel sees go wrong (a number that leads to another object, a failed
\* assertion of hsx_fuse_forget, an entry without attributes) needs requests that
\* overlapped in hsi_nfs_fhget.
THEOREM HarmNeedsOverlap == Spec => []HarmOnlyWhenRaced
<1>1. IInv => HarmOnlyWhenRaced
  <2> SUFFICES ASSUME IInv
               PROVE  HarmOnlyWhenRaced
    OBVIOUS
  <2>1. KernelUnlessRaced
    <3> SUFFICES ASSUME NEW t \in told, ~(\E i \in raced : ino[i] = t[1])
                 PROVE  Ilookup(t[1]) # Null /\ fh[Ilookup(t[1])] = t[2]
      BY DEF KernelUnlessRaced
    <3>1. PICK i \in Clean : ino[i] = t[1] /\ fh[i] = t[2]
      BY Zenon DEF IInv, Held
    <3>2. Ilookup(ino[i]) = i
      BY DEF IInv, Cleans, IdChains, Ilookup
    <3> QED
      BY <3>1, <3>2, WorkersAssumption DEF Clean, Allocated
  <2>2. BareReplyOverlaps
    <3> SUFFICES ASSUME NEW w \in Worker, pc[w] = "reply", ~filled[inode[w]]
                 PROVE  \E v \in Worker \ {w} : inode[v] = inode[w] /\ pc[v] \in {"new", "fill"}
      BY DEF BareReplyOverlaps
    <3>1. inode[w] \in Allocated
      BY InHand DEF IInv, Empty
    <3>2. PICK v \in Worker :
            inode[v] = inode[w] /\ (pc[v] \in Making \/ (pc[v] = "fill" /\ i_new[inode[w]]))
      BY <3>1 DEF IInv, Filling
    <3>3. v # w
      BY <3>2, Zenon DEF Making, BeforeFh, BeforeId, Unnumbered
    <3>4. pc[v] \notin BeforeFh
      BY <3>2, <3>3 DEF IInv, Hands
    <3> QED
      BY <3>2, <3>3, <3>4, Zenon DEF Making
  <2> QED
    BY <2>1, <2>2 DEF HarmOnlyWhenRaced, IInv
<1> QED
  BY <1>1, Invariance, PTL

=============================================================================
