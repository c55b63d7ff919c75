---------------------------- MODULE IgetWorkers ----------------------------
(***************************************************************************)
(* hsi_nfs_fhget and hsfs_iget5_locked run by several workers at once: the *)
(* FUSE session loop serves requests from many threads and the tables of   *)
(* lib/hsfs_inode.c have no lock (its comments say "XXX LOCK").  A step is *)
(* one access to memory that another worker can see.  InodeCache is the    *)
(* same code with one worker.                                              *)
(*                                                                         *)
(* A hash chain is the sequence its head pointer leads to: the next        *)
(* pointer of a node is written once, before the node is linked, and so a  *)
(* walk sees the chain as it was when it read the head.  All numbers share *)
(* a bucket here, and all handles: two that do not cannot lose each other. *)
(***************************************************************************)
EXTENDS Integers, Sequences, FiniteSets, Functions

CONSTANTS
  Worker,    \* threads of fuse_session_loop_mt
  Inode,     \* addresses malloc can return
  RootInode, \* the inode made by the mount
  Handle,    \* server objects, besides the root
  Root,
  Null,
  MaxGets,   \* bound: requests served
  MaxId      \* bound on sb->curr_id, which does not wrap here

ASSUME WorkersAssumption ==
  /\ IsFiniteSet(Worker)
  /\ Null \notin Inode /\ RootInode \in Inode /\ Root \notin Handle
  /\ MaxGets \in Nat /\ MaxId \in Nat \ {0}

VARIABLES
  curr_id, id_table, fh_table,          \* struct hsfs_super
  ino, fh, i_new, filled, private,      \* struct hsfs_inode
  pc, want, inode, loaded, first,       \* per worker
  nlookup, told,                        \* kernel: lookups held, what each number is
  gets, status,
  settled, period, crowded, raced       \* history, see Quiesce

super == <<curr_id, id_table, fh_table>>
fields == <<ino, fh, i_new, filled, private>>
locals == <<pc, want, inode, loaded, first>>
kernel == <<nlookup, told>>
history == <<settled, period, crowded, raced>>
vars == <<super, fields, locals, kernel, gets, status, history>>

Id == 0 .. MaxId
PCs == {"idle", "find", "alloc", "load", "store", "test", "take", "id_head",
        "id_link", "fh_head", "fh_link", "new", "fill", "ref", "reply"}

TypeOK ==
  /\ curr_id \in Id
  /\ id_table \in Seq(Inode) /\ fh_table \in Seq(Inode)
  /\ ino \in [Inode -> Id] /\ fh \in [Inode -> Handle \cup {Root}]
  /\ i_new \in [Inode -> BOOLEAN] /\ filled \in [Inode -> BOOLEAN]
  /\ private \in [Inode -> Nat]
  /\ pc \in [Worker -> PCs] /\ want \in [Worker -> Handle \cup {Root}]
  /\ inode \in [Worker -> Inode \cup {Null}]
  /\ loaded \in [Worker -> Id] /\ first \in [Worker -> Seq(Inode)]
  /\ nlookup \in [Id -> Nat] /\ told \subseteq Id \X (Handle \cup {Root})
  /\ gets \in 0 .. MaxGets
  /\ status \in {"up", "forget_null", "ref_dec"}
  /\ settled \subseteq Inode /\ period \subseteq Inode /\ raced \subseteq Inode
  /\ crowded \in BOOLEAN

\* The mount is over: the root is numbered 1 and the kernel holds it.
Init ==
  /\ curr_id = 1 /\ id_table = <<RootInode>> /\ fh_table = <<RootInode>>
  /\ ino = [i \in Inode |-> IF i = RootInode THEN 1 ELSE 0]
  /\ fh = [i \in Inode |-> Root]
  /\ i_new = [i \in Inode |-> FALSE] /\ filled = [i \in Inode |-> i = RootInode]
  /\ private = [i \in Inode |-> IF i = RootInode THEN 1 ELSE 0]
  /\ pc = [w \in Worker |-> "idle"] /\ want = [w \in Worker |-> Root]
  /\ inode = [w \in Worker |-> Null] /\ loaded = [w \in Worker |-> 0]
  /\ first = [w \in Worker |-> << >>]
  /\ nlookup = [n \in Id |-> IF n = 1 THEN 1 ELSE 0] /\ told = {<<1, Root>>}
  /\ gets = 0 /\ status = "up"
  /\ settled = {RootInode} /\ period = {} /\ crowded = FALSE /\ raced = {}

-----------------------------------------------------------------------------
(* Walking a chain *)

\* The first node of chain s that is one of S, as hash_for_each_possible with
\* a break finds it, or Null.
Least(K) == CHOOSE k \in K : \A m \in K : k <= m
FirstOf(s, S) ==
  LET hits == {k \in DOMAIN s : s[k] \in S} IN IF hits = {} THEN Null ELSE s[Least(hits)]

\* __id_ifind, hsfs_ilookup.
Numbered(n) == {i \in Inode : ino[i] = n}
Ilookup(n) == FirstOf(id_table, Numbered(n))

\* __fh_ifind with nfs_find_actor.
OfHandle(h) == {i \in Inode : fh[i] = h /\ ino[i] # 0}
FhFind(h) == FirstOf(fh_table, OfHandle(h))

\* Every inode that any worker is making or has made.
Allocated == {i \in Inode : i = RootInode \/ fh[i] # Root}

-----------------------------------------------------------------------------
(* The steps of a worker *)

At(w, p) == status = "up" /\ pc[w] = p
Goto(w, p) == pc' = [pc EXCEPT ![w] = p]
Busy == {w \in Worker : pc[w] # "idle"}

\* A request whose handler calls hsi_nfs_fhget for the object h arrives, and
\* the server has answered.  History: another worker is at work already.
Get(w, h) ==
  /\ At(w, "idle") /\ gets < MaxGets
  /\ gets' = gets + 1
  /\ want' = [want EXCEPT ![w] = h]
  /\ Goto(w, "find")
  /\ crowded' = (crowded \/ Busy # {})
  /\ raced' = IF crowded' THEN raced \cup period ELSE raced
  /\ UNCHANGED <<super, fields, inode, loaded, first, kernel, status, settled, period>>

\* hsfs_iget5_locked: the chain is walked once, with no lock kept.
Find(w) ==
  /\ At(w, "find")
  /\ inode' = [inode EXCEPT ![w] = FhFind(want[w])]
  /\ Goto(w, IF FhFind(want[w]) = Null THEN "alloc" ELSE "fill")
  /\ UNCHANGED <<super, fields, want, loaded, first, kernel, gets, status, history>>

\* get_new_inode: nfs_alloc_inode, inode_init_always and nfs_init_locked.  Fresh
\* addresses are alike, so that any one of them will do.  There is always one:
\* what follows when malloc fails is in AttrCache.
Alloc(w) ==
  /\ At(w, "alloc") /\ Allocated # Inode
  /\ LET i == CHOOSE i \in Inode \ Allocated : TRUE IN
     /\ inode' = [inode EXCEPT ![w] = i]
     /\ fh' = [fh EXCEPT ![i] = want[w]]
     /\ period' = period \cup {i}
     /\ raced' = IF crowded THEN raced \cup {i} ELSE raced
  /\ Goto(w, "load")
  /\ UNCHANGED <<super, ino, i_new, filled, private, want, loaded, first, kernel, gets,
                 status, settled, crowded>>

\* sb->curr_id++ in __inode_add_to_lists: a load and a store.
Load(w) ==
  /\ At(w, "load")
  /\ loaded' = [loaded EXCEPT ![w] = curr_id]
  /\ Goto(w, "store")
  /\ UNCHANGED <<super, fields, want, inode, first, kernel, gets, status, history>>

\* Mutant of Store: the counter is not advanced.
StoreSame(w) ==
  /\ At(w, "store") /\ loaded[w] < MaxId
  /\ curr_id' = loaded[w]
  /\ loaded' = [loaded EXCEPT ![w] = 0]
  /\ Goto(w, "test")
  /\ UNCHANGED <<id_table, fh_table, fields, want, inode, first, kernel, gets, status,
                 history>>

Store(w) ==
  /\ At(w, "store") /\ loaded[w] < MaxId
  /\ curr_id' = loaded[w] + 1
  /\ loaded' = [loaded EXCEPT ![w] = 0]
  /\ Goto(w, "test")
  /\ UNCHANGED <<id_table, fh_table, fields, want, inode, first, kernel, gets, status,
                 history>>

\* while (__id_ifind(sb, sb->curr_id) != NULL).
Test(w) ==
  /\ At(w, "test")
  /\ Goto(w, IF Ilookup(curr_id) # Null THEN "load" ELSE "take")
  /\ UNCHANGED <<super, fields, want, inode, loaded, first, kernel, gets, status, history>>

\* Mutant of Take: the number is the one before the increment.
TakeStale(w) ==
  /\ At(w, "take")
  /\ ino' = [ino EXCEPT ![inode[w]] = curr_id - 1]
  /\ Goto(w, "id_head")
  /\ UNCHANGED <<super, fh, i_new, filled, private, want, inode, loaded, first, kernel,
                 gets, status, history>>

\* inode->ino = sb->curr_id, which is read again.
Take(w) ==
  /\ At(w, "take")
  /\ ino' = [ino EXCEPT ![inode[w]] = curr_id]
  /\ Goto(w, "id_head")
  /\ UNCHANGED <<super, fh, i_new, filled, private, want, inode, loaded, first, kernel,
                 gets, status, history>>

\* hlist_add_head reads the head pointer ...
ReadHead(w, from, table, to) ==
  /\ At(w, from)
  /\ first' = [first EXCEPT ![w] = table]
  /\ Goto(w, to)
  /\ UNCHANGED <<super, fields, want, inode, loaded, kernel, gets, status, history>>

\* Mutant of Linked: the new node does not point to the old first one.
LinkedAlone(w) == <<inode[w]>>

\* ... and writes the new node there, in front of what it has read.
Linked(w) == <<inode[w]>> \o first[w]

LinkId(w) ==
  /\ At(w, "id_link")
  /\ id_table' = Linked(w) /\ first' = [first EXCEPT ![w] = << >>]
  /\ Goto(w, "fh_head")
  /\ UNCHANGED <<curr_id, fh_table, fields, want, inode, loaded, kernel, gets, status,
                 history>>

LinkFh(w) ==
  /\ At(w, "fh_link")
  /\ fh_table' = Linked(w) /\ first' = [first EXCEPT ![w] = << >>]
  /\ Goto(w, "new")
  /\ UNCHANGED <<curr_id, id_table, fields, want, inode, loaded, kernel, gets, status,
                 history>>

\* Mutant of SetNew: I_NEW is not set.
SetNewNever(w) ==
  /\ At(w, "new")
  /\ Goto(w, "fill")
  /\ UNCHANGED <<super, fields, want, inode, loaded, first, kernel, gets, status, history>>

\* get_new_inode sets I_NEW after both chains have the inode.
SetNew(w) ==
  /\ At(w, "new")
  /\ i_new' = [i_new EXCEPT ![inode[w]] = TRUE]
  /\ Goto(w, "fill")
  /\ UNCHANGED <<super, ino, fh, filled, private, want, inode, loaded, first, kernel, gets,
                 status, history>>

\* hsi_nfs_fhget with the inode in hand: an I_NEW one gets its attributes and
\* is unlocked; otherwise nfs_refresh_inode, which leaves an inode that has no
\* type yet as it is (-ESTALE, ignored).
Fill(w) ==
  /\ At(w, "fill")
  /\ LET i == inode[w] IN
     /\ filled' = [filled EXCEPT ![i] = @ \/ i_new[i]]
     /\ i_new' = [i_new EXCEPT ![i] = FALSE]
  /\ Goto(w, "ref")
  /\ UNCHANGED <<super, ino, fh, private, want, inode, loaded, first, kernel, gets, status,
                 history>>

\* hsx_fuse_ref_inc is one atomic instruction.
RefInc(w) ==
  /\ At(w, "ref")
  /\ private' = [private EXCEPT ![inode[w]] = @ + 1]
  /\ Goto(w, "reply")
  /\ UNCHANGED <<super, ino, fh, i_new, filled, want, inode, loaded, first, kernel, gets,
                 status, history>>

\* When the last worker goes idle the inodes that both chains lead to are
\* settled, and a new period begins.
Resolves(i) == Ilookup(ino[i]) = i /\ FhFind(fh[i]) = i
Quiesce ==
  /\ settled' = settled \cup {i \in period : Resolves(i)}
  /\ period' = {} /\ crowded' = FALSE /\ UNCHANGED raced

\* hsx_fuse_fill_reply and fuse_reply_entry.
Reply(w) ==
  /\ At(w, "reply")
  /\ LET n == ino[inode[w]] IN
     /\ nlookup' = [nlookup EXCEPT ![n] = @ + 1]
     /\ told' = told \cup {<<n, want[w]>>}
  /\ inode' = [inode EXCEPT ![w] = Null] /\ want' = [want EXCEPT ![w] = Root]
  /\ Goto(w, "idle")
  /\ IF Busy = {w} THEN Quiesce ELSE UNCHANGED history
  /\ UNCHANGED <<super, fields, loaded, first, gets, status>>

\* hsx_fuse_forget of all the kernel's lookups of n; the test and the
\* subtraction of hsx_fuse_ref_dec act on what the number leads to now.  At zero
\* hsfs_iput decrements a count that no step here reads, and frees nothing
\* before that count wraps (FreedOnlyByWrap in InodeCache).
Forget(n) ==
  LET i == Ilookup(n) IN
  /\ status = "up" /\ n # 1 /\ nlookup[n] > 0
  /\ status' = IF i = Null THEN "forget_null"
               ELSE IF private[i] < nlookup[n] THEN "ref_dec" ELSE "up"
  /\ private' = IF status' = "up" THEN [private EXCEPT ![i] = @ - nlookup[n]] ELSE private
  /\ nlookup' = [nlookup EXCEPT ![n] = 0]
  /\ told' = {t \in told : t[1] # n}
  /\ UNCHANGED <<super, ino, fh, i_new, filled, locals, gets, history>>

Work(w) ==
  \/ Find(w) \/ Alloc(w) \/ Load(w) \/ Store(w) \/ Test(w) \/ Take(w)
  \/ ReadHead(w, "id_head", id_table, "id_link") \/ LinkId(w)
  \/ ReadHead(w, "fh_head", fh_table, "fh_link") \/ LinkFh(w)
  \/ SetNew(w) \/ Fill(w) \/ RefInc(w) \/ Reply(w)

Next ==
  \/ \E w \in Worker, h \in Handle : Get(w, h)
  \/ \E w \in Worker : Work(w)
  \/ \E n \in Id : Forget(n)

\* A worker that has begun a request goes on: nothing in it blocks.
Fairness == \A w \in Worker : WF_vars(Work(w))

Spec == Init /\ [][Next]_vars /\ Fairness

-----------------------------------------------------------------------------
(* Properties *)

\* An inode that both hash chains led to at a moment when no worker was inside
\* hsi_nfs_fhget is never lost again by the unlocked hlist_add_head: it stays in
\* both chains, its handle leads to it, and its number to it or to an inode made
\* by overlapping requests, which the unlocked curr_id++ may give a number that
\* is taken.
SettledStay ==
  \A i \in settled :
    /\ i \in Range(id_table) /\ FhFind(fh[i]) = i
    /\ Ilookup(ino[i]) \in {i} \cup raced

\* Two inodes of one object, an inode missing from a chain, a number shared by
\* two inodes: each only if the requests that made them overlapped.  An inode
\* made while one worker was busy and used after that is found by its number
\* and handle and has its attributes.
AloneIsSafe ==
  \A i \in Allocated \ (raced \cup period) : Resolves(i) /\ filled[i]

\* A number the kernel holds leads to the object it was given for, unless an
\* inode made by overlapping requests has that number.
KernelUnlessRaced ==
  \A t \in told :
    \/ \E i \in raced : ino[i] = t[1]
    \/ Ilookup(t[1]) # Null /\ fh[Ilookup(t[1])] = t[2]

\* hsx_fuse_forget stops the process (its assertion on the inode, or the one
\* in hsx_fuse_ref_dec) only after overlapping requests made an inode: with
\* one worker neither assertion can fail for lookups that were counted.
ForgetUnlessRaced == status # "up" => raced # {}

\* An entry is sent to the kernel with the attributes of its inode missing
\* (no type, size 0) only while the worker that made the inode is between
\* linking it and filling it: include/hsfs.h promises that the new inode is
\* returned locked, and wait_on_inode is empty.
BareReplyOverlaps ==
  \A w \in Worker :
    pc[w] = "reply" /\ ~filled[inode[w]] =>
      \E v \in Worker \ {w} : inode[v] = inode[w] /\ pc[v] \in {"new", "fill"}

\* What the kernel gets to see of the unlocked tables (a number that leads
\* astray, a failed assertion, an entry without attributes) needs requests
\* that overlap inside hsi_nfs_fhget.
HarmOnlyWhenRaced == KernelUnlessRaced /\ ForgetUnlessRaced /\ BareReplyOverlaps

\* Every request is answered, or the process was stopped: the search for a
\* number ends although another worker may move curr_id back.
Answered ==
  \A w \in Worker : pc[w] # "idle" ~> pc[w] = "idle" \/ status # "up"

-----------------------------------------------------------------------------
(* The inductive invariant behind the safety properties *)

\* Where a worker that makes an inode has not numbered it, has not linked it by
\* number, has not linked it by handle, has not marked it.
Unnumbered == {"load", "store", "test", "take"}
BeforeId == Unnumbered \cup {"id_head", "id_link"}
BeforeFh == BeforeId \cup {"fh_head", "fh_link"}
Making == BeforeFh \cup {"new"}
Empty == {"idle", "find", "alloc"}

\* The chains that walks and insertions start from.
IdChains == {id_table} \cup {first[w] : w \in {v \in Worker : pc[v] = "id_link"}}
FhChains == {fh_table} \cup {first[w] : w \in {v \in Worker : pc[v] = "fh_link"}}

\* Inodes made by a request that overlapped no other.
Clean == Allocated \ (raced \cup period)

Periods ==
  /\ Busy = {} => period = {} /\ ~crowded
  /\ ~crowded => \A v, w \in Busy : v = w
  /\ crowded => period \subseteq raced
  /\ period \cup raced \cup settled \subseteq Allocated

Hands ==
  \A w \in Worker :
    /\ pc[w] # "idle" => want[w] \in Handle
    /\ pc[w] \in Empty => inode[w] = Null
    /\ pc[w] \notin Empty => /\ inode[w] \in Allocated /\ fh[inode[w]] = want[w]
                             /\ pc[w] \in Unnumbered <=> ino[inode[w]] = 0
    /\ pc[w] \in Making => inode[w] \in period
    /\ pc[w] \in BeforeFh => \A v \in Worker \ {w} : inode[v] # inode[w]

\* An inode is in a chain only once it was numbered and linked there.
Chains ==
  /\ curr_id # 0
  /\ \A s \in IdChains : \A k \in DOMAIN s :
       /\ s[k] \in Allocated /\ ino[s[k]] # 0
       /\ \A w \in Worker : pc[w] \in BeforeId => s[k] # inode[w]
  /\ \A s \in FhChains : \A k \in DOMAIN s :
       /\ s[k] \in Allocated /\ ino[s[k]] # 0
       /\ \A w \in Worker : pc[w] \in BeforeFh => s[k] # inode[w]
  /\ \A i \in Inode \ Allocated : ino[i] = 0 /\ private[i] = 0

\* Every chain that will be written back has the settled inodes, and no other
\* inode of such an object is being made.
Settled ==
  \A i \in settled :
    /\ \A s \in IdChains : i \in Range(s) /\ FirstOf(s, Numbered(ino[i])) \in {i} \cup raced
    /\ \A s \in FhChains : FirstOf(s, OfHandle(fh[i])) = i
    /\ \A w \in Worker : pc[w] \in BeforeFh \cup {"alloc"} => want[w] # fh[i]

\* The numbers of clean inodes are below all that are still to be given.
Cleans ==
  \A i \in Clean :
    /\ i \in settled /\ ino[i] <= curr_id /\ ino[i] # 0
    /\ \A s \in IdChains : FirstOf(s, Numbered(ino[i])) = i
    /\ \A w \in Worker :
         /\ pc[w] = "store" => ino[i] <= loaded[w]
         /\ pc[w] \in {"test", "take"} => ino[i] < curr_id
         /\ pc[w] \in {"id_head", "id_link"} => ino[i] < ino[inode[w]]

\* One request alone makes its inode as InodeCache has it.
AloneMakes ==
  ~crowded =>
    /\ \A i \in period : \E w \in Worker : inode[w] = i
    /\ \A w \in Worker : inode[w] \in period =>
         /\ pc[w] = "take" => Ilookup(curr_id) = Null
         /\ pc[w] \notin Unnumbered => ino[inode[w]] = curr_id
         /\ pc[w] \in {"id_head", "id_link"} => Ilookup(curr_id) = Null
         /\ pc[w] \notin BeforeId => Ilookup(curr_id) = inode[w]
         /\ pc[w] \notin BeforeFh => FhFind(want[w]) = inode[w]

\* An inode without attributes has a worker that will fill them in.
Filling ==
  \A i \in Allocated :
    \/ filled[i]
    \/ i \in period /\ \E w \in Worker :
         inode[w] = i /\ (pc[w] \in Making \/ (pc[w] = "fill" /\ i_new[i]))

\* What the kernel holds was given for a clean inode, or shares its number with a
\* raced one.
Held ==
  /\ \A t \in told :
       /\ t[1] # 0
       /\ \/ \E i \in raced : ino[i] = t[1]
          \/ \E i \in Clean : ino[i] = t[1] /\ fh[i] = t[2]
  /\ \A n \in Id : nlookup[n] > 0 => \E t \in told : t[1] = n

Replying(i) == {w \in Worker : pc[w] = "reply" /\ inode[w] = i}

\* Until requests overlap, inode->private is what the kernel holds and is about
\* to get.
Balance ==
  raced = {} => \A i \in Allocated : private[i] = nlookup[ino[i]] + Cardinality(Replying(i))

IInv ==
  /\ TypeOK /\ Periods /\ Hands /\ Chains /\ Settled /\ Cleans /\ AloneMakes
  /\ Filling /\ Held /\ Balance /\ ForgetUnlessRaced
=============================================================================
