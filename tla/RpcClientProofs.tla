--------------------------- MODULE RpcClientProofs ---------------------------
(***************************************************************************)
(* Proofs about RpcClient, for any number of workers, client addresses and *)
(* retries.                                                                *)
(***************************************************************************)
EXTENDS RpcClient, TLAPS

-----------------------------------------------------------------------------
(* Types and counters *)

Typed == TypeOK /\ Counted

\* The variables that a call of hsi_nfs3_clnt_call starts with.
TypedCall ==
  /\ part \in [Thread -> Parts] /\ pc \in [Thread -> PCs]
  /\ saved \in [Thread -> Client \cup {Null}] /\ clnt \in [Thread -> Client \cup {Null}]
  /\ rtry \in [Thread -> 0 .. Retries] /\ execs \in [Thread -> 0 .. Retries + 2]

\* A call that starts is typed and counts from 0.
LEMMA TypedStart ==
  ASSUME Typed, NEW t \in Thread, NEW p \in Parts, NEW c \in Client \cup {Null}, StartCall(t, p, c)
  PROVE  TypedCall' /\ Counted'
<1>0. Retries \in Nat
  BY RpcAssumption
<1>1. TypedCall'
  BY <1>0 DEF StartCall, Goto, Typed, TypeOK, TypedCall, PCs
<1>2. Counted'
  BY <1>0 DEF Typed, TypeOK, Counted, StartCall, Goto
<1> QED BY <1>1, <1>2

\* A new call of hsi_nfs3_clnt_call starts to count at 0.
LEMMA TypedBegin ==
  ASSUME Typed, NEW t \in Thread, NEW s \in Slot, Begin(t, s) PROVE Typed'
<1>1. PICK p \in Parts : StartCall(t, p, cl[s])
  BY Zenon DEF Begin, Parts
<1>2. held' \in [Thread -> Client \cup {Null}] /\ slot' \in [Thread -> Slot]
  BY DEF Begin, Typed, TypeOK
<1>3. cl[s] \in Client \cup {Null}
  BY DEF Typed, TypeOK
<1>4. TypedCall' /\ Counted'
  BY <1>1, <1>3, TypedStart
<1>5. TypeOK'
  BY <1>2, <1>4 DEF Begin, Typed, TypeOK, TypedCall
<1> QED BY <1>4, <1>5 DEF Typed
\* Every step of hsi_nfs3_clnt_call and _reconnect keeps the fields in range
\* and the executions below the number of times the request was sent.
LEMMA TypedStep ==
  ASSUME Typed, NEW t \in Thread, Step(t) PROVE Typed'
<1>0. Retries \in Nat /\ Null \notin Slot
  BY RpcAssumption DEF Slot
<1>a. UNCHANGED single
  BY DEF Step
<1>1. CASE Send(t)
  <2>1. PICK ran \in {0, 1}, ok \in BOOLEAN :
          /\ execs' = [execs EXCEPT ![t] = IF @ = Retries + 2 THEN @ ELSE @ + ran]
          /\ ret' = [ret EXCEPT ![t] = IF ok THEN "ok" ELSE "error"]
          /\ pc' = [pc EXCEPT ![t] = IF ok THEN "done" ELSE "err"]
    BY <1>1, Zenon DEF Send, Goto
  <2>2. execs[t] \in 0 .. Retries + 2 /\ rtry[t] \in 0 .. Retries /\ execs[t] <= rtry[t]
    BY <1>1 DEF Send, Typed, TypeOK, Counted
  <2>3. execs' \in [Thread -> 0 .. Retries + 2] /\ execs'[t] <= rtry[t] + 1
    BY <1>0, <2>1, <2>2 DEF Typed, TypeOK
  <2>4. status' \in {"up", "unmounted", "use_after_destroy", "double_destroy", "bad_client"}
    BY <1>1 DEF Send, Use, Typed, TypeOK
  <2>5. ret' \in [Thread -> {"ok", "error"}] /\ pc' \in [Thread -> PCs]
    BY <2>1 DEF Typed, TypeOK, PCs
  <2>6. TypeOK'
    BY <1>a, <1>1, <2>3, <2>4, <2>5 DEF Send, Typed, TypeOK
  <2>7. Counted'
    BY <1>1, <2>1, <2>3 DEF Send, Typed, TypeOK, Counted
  <2> QED BY <2>6, <2>7 DEF Typed
<1>2. CASE Error(t)
  <2>1. rtry[t] \in 0 .. Retries /\ execs[t] \in 0 .. Retries + 2 /\ execs[t] <= rtry[t] + 1
    BY DEF Typed, TypeOK, Counted
  <2>2. \/ Goto(t, "done") /\ UNCHANGED <<rtry, ret>>
        \/ rtry[t] < Retries /\ Retry(t)
        \/ rtry[t] < Retries /\ Goto(t, "match") /\ UNCHANGED <<rtry, ret>>
    BY <1>0, <1>2, <2>1 DEF Error, Exhausted
  <2>3. pc' \in [Thread -> PCs] /\ rtry' \in [Thread -> 0 .. Retries] /\ ret' \in [Thread -> {"ok", "error"}]
    BY <1>0, <2>1, <2>2 DEF Retry, Goto, Typed, TypeOK, PCs
  <2>4. status' \in {"up", "unmounted", "use_after_destroy", "double_destroy", "bad_client"}
    BY <1>2 DEF Error, Use, Typed, TypeOK
  <2>5. TypeOK'
    BY <1>a, <1>2, <2>3, <2>4 DEF Error, Typed, TypeOK
  <2>6. Counted'
    BY <1>0, <1>2, <2>1, <2>2 DEF Error, Retry, Goto, Typed, TypeOK, Counted
  <2> QED BY <2>5, <2>6 DEF Typed
<1>3. CASE Match(t)
  BY <1>a, <1>3 DEF Match, Goto, Typed, TypeOK, Counted, PCs, Slot
<1>4. CASE Close(t)
  BY <1>a, <1>4 DEF Close, Use, Goto, Typed, TypeOK, Counted, PCs, locals
<1>5. CASE Create(t)
  <2>1. /\ pc' \in [Thread -> PCs] /\ clnt' \in [Thread -> Client \cup {Null}]
        /\ sclnt' \in [Thread -> Slot \cup {Null}]
    BY <1>5 DEF Create, Goto, Typed, TypeOK, PCs
  <2>2. TypeOK'
    BY <1>a, <1>5, <2>1, Zenon DEF Create, Typed, TypeOK
  <2>3. Counted'
    BY <1>5 DEF Create, Goto, Typed, TypeOK, Counted, PCs
  <2> QED BY <2>2, <2>3 DEF Typed
<1>6. CASE Store(t)
  <2>1. rtry[t] \in 0 .. Retries /\ execs[t] \in 0 .. Retries + 2 /\ execs[t] <= rtry[t] + 1 /\ rtry[t] < Retries
    BY <1>6 DEF Store, Typed, TypeOK, Counted
  <2>2. pc' \in [Thread -> PCs] /\ rtry' \in [Thread -> 0 .. Retries] /\ ret' \in [Thread -> {"ok", "error"}]
    BY <1>0, <1>6, <2>1 DEF Store, Retry, Goto, Typed, TypeOK, PCs
  <2>a. sclnt' \in [Thread -> Slot \cup {Null}] /\ cl' \in [Slot -> Client \cup {Null}]
    BY <1>6 DEF Store, Typed, TypeOK
  <2>3. TypeOK'
    BY <1>a, <1>6, <2>2, <2>a, Zenon DEF Store, Typed, TypeOK
  <2>4. Counted'
    BY <1>0, <1>6, <2>1 DEF Store, Retry, Goto, Typed, TypeOK, Counted
  <2> QED BY <2>3, <2>4 DEF Typed
<1>7. CASE Finish(t)
  <2>1. CASE status' = "use_after_destroy" /\ UNCHANGED <<pc, locals>>
    BY <1>a, <1>7, <2>1 DEF Finish, Typed, TypeOK, Counted, locals
  <2>2. CASE Leave(t) /\ UNCHANGED status
    <3>1. TypeOK'
      BY <1>0, <1>a, <1>7, <2>2 DEF Finish, Leave, Goto, Typed, TypeOK, Parts, PCs, Slot
    <3>2. Counted'
      BY <1>0, <2>2 DEF Leave, Goto, Typed, TypeOK, Counted, PCs
    <3> QED BY <3>1, <3>2 DEF Typed
  <2>3. CASE SetAcl(t) /\ UNCHANGED status
    <3>1. held[t] \in Client \cup {Null} /\ "setacl" \in Parts
      BY DEF Typed, TypeOK, Parts
    <3>2. TypedCall' /\ Counted'
      BY <2>3, <3>1, TypedStart, Zenon DEF SetAcl
    <3>3. held' \in [Thread -> Client \cup {Null}] /\ UNCHANGED <<slot, sclnt, ret>>
      BY <2>3 DEF SetAcl, Typed, TypeOK
    <3> QED BY <1>a, <1>7, <2>3, <3>2, <3>3, Zenon DEF Finish, Typed, TypeOK, TypedCall
  <2> QED BY <1>7, <2>1, <2>2, <2>3, Zenon DEF Finish
<1>8. CASE Nest(t)
  <2>1. cl["clntp"] \in Client \cup {Null} /\ "nested" \in Parts
    BY DEF Typed, TypeOK, Parts, Slot
  <2>2. TypedCall' /\ Counted'
    BY <1>8, <2>1, TypedStart, Zenon DEF Nest
  <2>3. held' \in [Thread -> Client \cup {Null}]
    BY <1>8 DEF Nest, Typed, TypeOK
  <2> QED BY <1>a, <1>8, <2>2, <2>3, Zenon DEF Nest, Typed, TypeOK, TypedCall
<1> QED BY <1>1, <1>2, <1>3, <1>4, <1>5, <1>6, <1>7, <1>8 DEF Step

-----------------------------------------------------------------------------
(* The clients, with one request at a time *)

Clients == OwnSlot /\ HeldAcl /\ SlotsLive /\ ClientsKept /\ MisuseExplained

\* A step of hsi_nfs3_clnt_call, or of the procedure around it, moves its own
\* worker only.
LEMMA StepMoves ==
  ASSUME NEW t \in Thread, Step(t)
  PROVE  /\ status = "up" /\ pc[t] # "idle" /\ UNCHANGED single
         /\ UNCHANGED pc \/ \E l : pc' = [pc EXCEPT ![t] = l]
<1>1. status = "up" /\ pc[t] # "idle" /\ UNCHANGED single
  BY DEF Step, Send, Error, Match, Close, Create, Store, Nest, Finish
<1>2. CASE Send(t) \/ Error(t) \/ Match(t) \/ Close(t) \/ Create(t) \/ Store(t)
  BY <1>1, <1>2 DEF Send, Error, Retry, Match, Close, Create, Store, Goto
<1>3. CASE Nest(t) \/ Finish(t)
  BY <1>1, <1>3 DEF Nest, Finish, Leave, SetAcl, StartCall, Goto, locals
<1> QED BY <1>1, <1>2, <1>3 DEF Step

\* With -s the session loop starts a request only when none is served.
LEMMA AloneStep ==
  ASSUME TypeOK, Alone, NEW t \in Thread, Step(t) \/ \E s \in Slot : Begin(t, s) PROVE Alone'
<1>1. CASE Step(t)
  <2>1. pc[t] # "idle" /\ UNCHANGED single
    BY <1>1, StepMoves
  <2>2. UNCHANGED pc \/ \E l : pc' = [pc EXCEPT ![t] = l]
    BY <1>1, StepMoves
  <2> QED BY <2>1, <2>2 DEF Alone, TypeOK
<1>2. CASE \E s \in Slot : Begin(t, s)
  BY <1>2 DEF Begin, StartCall, Goto, Alone, TypeOK
<1> QED BY <1>1, <1>2

\* Without -s, or once a reconnection of hsi_nfs3_clnt_reconnect has failed,
\* nothing is claimed about the clients.
LEMMA ClientsVacuous == ASSUME (~single \/ lost)' PROVE Clients'
BY DEF Clients, OwnSlot, HeldAcl, SlotsLive, ClientsKept, NoneLeaked, SlotsDiffer, MisuseExplained

\* What Clients says when only t is serving a request.
Mine(t) ==
  /\ pc[t] \in {"call", "err", "match", "close", "done"} =>
       /\ cl[slot[t]] # Null
       /\ \/ clnt[t] = cl[slot[t]]
          \/ pc[t] = "call" /\ part[t] = "setacl" /\ clnt[t] \notin live /\ saved[t] = clnt[t]
  /\ pc[t] \in {"close", "create", "store"} => sclnt[t] = slot[t]
  /\ pc[t] # "idle" /\ part[t] = "getacl" /\ held[t] \in live =>
       held[t] = IF pc[t] = "store" THEN clnt[t] ELSE cl[slot[t]]
  /\ cl["clntp"] # Null /\ cl["clntp"] # cl["acl_clntp"]
  /\ \A s \in Slot : cl[s] # Null /\ ~(pc[t] \in {"create", "store"} /\ slot[t] = s) => cl[s] \in live
  /\ pc[t] = "create" => cl[slot[t]] \notin live
  /\ pc[t] = "store" =>
       /\ clnt[t] \in live
       /\ cl[slot[t]] \in live => cl[slot[t]] = clnt[t]
       /\ \A s \in Slot : s # slot[t] => cl[s] # clnt[t]
  /\ \A c \in live : (\E s \in Slot : cl[s] = c) \/ (pc[t] = "store" /\ clnt[t] = c)

\* Clients, read for the one request there is.
LEMMA MineOfClients ==
  ASSUME Clients, single, ~lost, status = "up", NEW t \in Thread,
         \A u \in Thread \ {t} : pc[u] = "idle"
  PROVE  Mine(t)
<1>1. \A s \in Slot : Replacing(s) <=> pc[t] \in {"create", "store"} /\ slot[t] = s
  BY DEF Replacing
<1>2. SlotsLive /\ OwnSlot /\ HeldAcl /\ NoneLeaked /\ SlotsDiffer
  BY DEF Clients, ClientsKept
<1>3. \A c \in live : (\E s \in Slot : cl[s] = c) \/ (pc[t] = "store" /\ clnt[t] = c)
  BY <1>2 DEF NoneLeaked
<1> QED BY <1>1, <1>2, <1>3 DEF Mine, SlotsLive, OwnSlot, HeldAcl, SlotsDiffer

\* And back, after a step that left the daemon running.
LEMMA ClientsOfMine ==
  ASSUME NEW t \in Thread, Mine(t)', status' = "up",
         \A u \in Thread \ {t} : pc'[u] = "idle"
  PROVE  Clients'
<1>1. \A s \in Slot : Replacing(s)' <=> pc'[t] \in {"create", "store"} /\ slot'[t] = s
  BY DEF Replacing
<1>2. OwnSlot' /\ HeldAcl'
  BY DEF Mine, OwnSlot, HeldAcl
<1>3. SlotsLive'
  BY <1>1 DEF Mine, SlotsLive
<1>4. ClientsKept'
  BY DEF Mine, ClientsKept, NoneLeaked, SlotsDiffer
<1>5. MisuseExplained'
  BY DEF MisuseExplained
<1> QED BY <1>2, <1>3, <1>4, <1>5 DEF Clients

\* A procedure of nfs3/ takes a client that is in its slot and not destroyed.
LEMMA ClientsBegin ==
  ASSUME TypeOK, Clients, NEW t \in Thread, NEW s \in Slot, Begin(t, s) PROVE Clients'
<1>1. CASE ~single \/ lost
  <2>1. (~single \/ lost)'
    BY <1>1 DEF Begin
  <2> QED BY <2>1, ClientsVacuous
<1>2. CASE single /\ ~lost
  <2>1. \A u \in Thread : pc[u] = "idle"
    BY <1>2 DEF Begin
  <2>2. Mine(t) /\ status = "up"
    BY <1>2, <2>1, MineOfClients DEF Begin
  <2>3. /\ pc'[t] = "call" /\ clnt'[t] = cl[s] /\ slot'[t] = s /\ cl[s] # Null
        /\ held'[t] = cl[s] \/ part'[t] = "only"
        /\ pc[t] = "idle" /\ UNCHANGED <<cl, live, status, single, lost>>
    BY DEF Begin, StartCall, Goto, TypeOK
  <2>4. Mine(t)'
    BY <2>2, <2>3 DEF Mine
  <2>5. \A u \in Thread \ {t} : pc'[u] = "idle"
    BY <2>1 DEF Begin, StartCall, Goto, TypeOK
  <2> QED BY <2>2, <2>3, <2>4, <2>5, ClientsOfMine
<1> QED BY <1>1, <1>2

\* Whichever step the one request takes, the slots keep their clients.
LEMMA MineStep ==
  ASSUME TypeOK, NEW t \in Thread, Mine(t), Step(t), ~lost'
  PROVE  \/ status' = "up" /\ Mine(t)'
         \/ /\ status' = "use_after_destroy" /\ HeldOver(t)'
            /\ pc[t] # "store" /\ UNCHANGED <<cl, live>>
<1>0. Null \notin Client /\ Null \notin Slot
  BY RpcAssumption DEF Slot
<1>1. slot[t] \in Slot /\ Slot = {"clntp", "acl_clntp"}
  BY DEF TypeOK, Slot
<1>2. /\ pc[t] \in {"err", "match", "close", "done"} => clnt[t] = cl[slot[t]] /\ clnt[t] \in live
      /\ pc[t] = "call" => \/ clnt[t] = cl[slot[t]] /\ clnt[t] # Null /\ clnt[t] \in live
                           \/ clnt[t] \notin live /\ saved[t] = clnt[t] /\ cl[slot[t]] \in live
  BY <1>1 DEF Mine
<1>3. CASE Send(t)
  <2>1. pc[t] = "call" /\ pc'[t] \in {"done", "err"} /\ UNCHANGED <<cl, live, slot, saved, part, held, clnt>>
    BY <1>3 DEF Send, Goto, TypeOK
  <2>2. CASE clnt[t] \in live
    <3>1. status' = "up" /\ clnt[t] = cl[slot[t]] /\ clnt[t] # Null
      BY <1>2, <1>3, <2>1, <2>2 DEF Send, Use
    <3> QED BY <2>1, <3>1 DEF Mine
  <2>3. CASE clnt[t] \notin live
    <3>1. status' = "use_after_destroy"
      BY <1>3, <2>3 DEF Send, Use
    <3>2. saved[t] # cl[slot[t]]
      BY <1>0, <1>2, <2>1, <2>3 DEF Mine, TypeOK
    <3> QED BY <2>1, <3>1, <3>2 DEF HeldOver
  <2> QED BY <2>2, <2>3
<1>4. CASE Error(t)
  <2>1. status' = "up" /\ pc[t] = "err" /\ pc'[t] \in {"done", "call", "match"}
    BY <1>2, <1>4 DEF Error, Retry, Use, Goto, TypeOK
  <2> QED BY <1>4, <2>1 DEF Error, Mine
<1>5. CASE Match(t)
  <2>1. status' = "up" /\ pc[t] = "match" /\ pc'[t] = "close"
    BY <1>5 DEF Match, Goto, TypeOK
  <2>2. sclnt'[t] = slot[t]
    BY <1>1, <1>5 DEF Match, Mine, TypeOK
  <2> QED BY <1>5, <2>1, <2>2 DEF Match, Mine
<1>6. CASE Close(t)
  <2>1. status' = "up" /\ pc[t] = "close" /\ pc'[t] = "create" /\ live' = live \ {clnt[t]}
    BY <1>2, <1>6 DEF Close, Use, Goto, TypeOK
  <2>2. \A s \in Slot : s # slot[t] => cl[s] # clnt[t]
    BY <1>1, <2>1 DEF Mine
  <2> QED BY <1>1, <1>6, <2>1, <2>2 DEF Close, Mine, locals
<1>7. CASE Create(t)
  <2>1. sclnt[t] = slot[t] /\ sclnt[t] # Null /\ pc[t] = "create"
    BY <1>0, <1>1, <1>7 DEF Create, Mine
  <2>2. PICK c \in Client \ live : clnt' = [clnt EXCEPT ![t] = c] /\ live' = live \cup {c}
    BY <1>7, <2>1 DEF Create
  <2>3. status' = "up" /\ pc'[t] = "store" /\ clnt'[t] = c
    BY <1>7, <2>1, <2>2 DEF Create, Goto, TypeOK
  <2>4. \A s \in Slot : s # slot[t] => cl[s] # c
    BY <1>0, <1>1, <2>1, <2>2 DEF Mine
  <2> QED BY <1>1, <1>7, <2>1, <2>2, <2>3, <2>4 DEF Create, Mine
<1>8. CASE Store(t)
  <2>1. sclnt[t] = slot[t] /\ pc[t] = "store" /\ clnt[t] \in live /\ clnt[t] # Null
    BY <1>0, <1>8 DEF Store, Mine, TypeOK
  <2>2. /\ status' = "up" /\ pc'[t] = "call" /\ cl'[slot[t]] = clnt[t]
        /\ \A s \in Slot : s # slot[t] => cl'[s] = cl[s]
        /\ UNCHANGED <<live, slot, clnt, part, held>>
    BY <1>1, <1>8, <2>1 DEF Store, Retry, Goto, TypeOK
  <2>3. cl'["clntp"] # Null /\ cl'["clntp"] # cl'["acl_clntp"]
    BY <1>1, <2>1, <2>2 DEF Mine
  <2>4. \A s \in Slot : cl'[s] # Null => cl'[s] \in live
    BY <1>1, <2>1, <2>2 DEF Mine
  <2>5. \A c \in live : \E s \in Slot : cl'[s] = c
    BY <1>1, <2>1, <2>2 DEF Mine
  <2> QED BY <2>1, <2>2, <2>3, <2>4, <2>5 DEF Mine
<1>9. CASE Nest(t)
  <2>1. /\ status' = "up" /\ pc[t] = "done" /\ pc'[t] = "call" /\ part'[t] = "nested" /\ slot[t] = "clntp"
        /\ clnt'[t] = cl["clntp"] /\ UNCHANGED <<cl, live, slot>>
    BY <1>9 DEF Nest, StartCall, Goto, TypeOK
  <2> QED BY <2>1 DEF Mine
<1>10. CASE Finish(t)
  <2>0. pc[t] = "done" /\ clnt[t] = cl[slot[t]] /\ clnt[t] \in live /\ status = "up" /\ UNCHANGED <<cl, live>>
    BY <1>2, <1>10 DEF Finish
  <2>1. PICK c \in Frees(t) :
          IF Freed(t, c) \subseteq live
          THEN (Leave(t) \/ SetAcl(t)) /\ UNCHANGED status
          ELSE status' = "use_after_destroy" /\ UNCHANGED <<pc, locals>>
    BY <1>10, Zenon DEF Finish
  <2>2. CASE ~(Freed(t, c) \subseteq live)
    <3>1. cl["clntp"] \in live
      BY <1>1, <2>0 DEF Mine
    <3>2. c = Null \/ c = cl["clntp"] \/ c = saved[t]
      BY <2>1 DEF Frees
    <3>3. saved[t] \notin live \/ (part[t] = "nested" /\ held[t] \notin live)
      BY <2>2, <3>1, <3>2 DEF Freed
    <3>4. HeldOver(t)
      BY <2>0, <3>3 DEF HeldOver
    <3>5. status' = "use_after_destroy" /\ UNCHANGED <<pc, slot, saved, part, held>>
      BY <2>1, <2>2 DEF locals
    <3> QED BY <2>0, <3>4, <3>5 DEF HeldOver
  <2>3. CASE Leave(t) /\ UNCHANGED status
    <3>1. status' = "up" /\ pc'[t] = "idle"
      BY <2>0, <2>3 DEF Leave, Goto, TypeOK
    <3> QED BY <2>0, <3>1 DEF Mine
  <2>4. CASE SetAcl(t) /\ UNCHANGED status
    <3>1. /\ status' = "up" /\ pc'[t] = "call" /\ part[t] = "getacl" /\ part'[t] = "setacl"
          /\ clnt'[t] = held[t] /\ saved'[t] = held[t] /\ UNCHANGED slot
      BY <2>0, <2>4 DEF SetAcl, StartCall, Goto, TypeOK
    <3>2. held[t] = cl[slot[t]] \/ held[t] \notin live
      BY <2>0, <3>1 DEF Mine
    <3>3. Null \notin live
      BY <1>0 DEF TypeOK
    <3> QED BY <2>0, <3>1, <3>2, <3>3 DEF Mine
  <2> QED BY <2>1, <2>2, <2>3, <2>4
<1> QED BY <1>3, <1>4, <1>5, <1>6, <1>7, <1>8, <1>9, <1>10 DEF Step

\* Every step of hsi_nfs3_clnt_call and _reconnect keeps the slots' clients.
LEMMA ClientsStep ==
  ASSUME TypeOK, Alone, Clients, NEW t \in Thread, Step(t) PROVE Clients'
<1>1. status = "up" /\ pc[t] # "idle" /\ UNCHANGED single
  BY StepMoves
<1>2. UNCHANGED pc \/ \E l : pc' = [pc EXCEPT ![t] = l]
  BY StepMoves
<1>3. lost => lost'
  BY Zenon DEF Step, Send, Error, Match, Close, Create, Store, Nest, Finish
<1>4. CASE ~single \/ lost'
  BY <1>1, <1>4, ClientsVacuous
<1>5. CASE single /\ ~lost'
  <2>1. ~lost /\ \A u \in Thread \ {t} : pc[u] = "idle"
    BY <1>1, <1>3, <1>5 DEF Alone
  <2>2. \A u \in Thread \ {t} : pc'[u] = "idle"
    BY <1>2, <2>1 DEF TypeOK
  <2>3. Mine(t)
    BY <1>1, <1>5, <2>1, MineOfClients
  <2>4. CASE status' = "up" /\ Mine(t)'
    BY <2>2, <2>4, ClientsOfMine
  <2>5. CASE /\ status' = "use_after_destroy" /\ HeldOver(t)'
             /\ pc[t] # "store" /\ UNCHANGED <<cl, live>>
    <3>1. OwnSlot' /\ HeldAcl' /\ SlotsLive'
      BY <2>5 DEF OwnSlot, HeldAcl, SlotsLive
    <3>2. ClientsKept'
      BY <1>5, <2>1, <2>5 DEF Clients, ClientsKept, NoneLeaked, SlotsDiffer
    <3>3. MisuseExplained'
      BY <2>5 DEF MisuseExplained
    <3> QED BY <3>1, <3>2, <3>3 DEF Clients
  <2> QED BY <1>5, <2>3, <2>4, <2>5, MineStep
<1> QED BY <1>4, <1>5

\* hsfs_do_unmount destroys a client that exists.
LEMMA ClientsUnmount ==
  ASSUME TypeOK, Alone, Clients, Unmount PROVE Clients'
<1>0. status = "up" /\ UNCHANGED <<single, cl, pc, locals, lost>> /\ live' = live \ {cl["clntp"]}
  BY DEF Unmount
<1>1. CASE ~single \/ lost
  BY <1>0, <1>1, ClientsVacuous
<1>2. CASE single /\ ~lost
  <2>1. cl["clntp"] \in live
    BY <1>0, <1>2 DEF Clients, SlotsLive, Unmount, Replacing, Slot
  <2>2. status' = "unmounted"
    BY <2>1 DEF Unmount
  <2>3. OwnSlot' /\ HeldAcl' /\ SlotsLive' /\ ClientsKept' /\ MisuseExplained'
    BY <1>0, <1>2, <2>2
    DEF Clients, OwnSlot, HeldAcl, SlotsLive, ClientsKept, NoneLeaked, SlotsDiffer, MisuseExplained, locals
  <2> QED BY <2>3 DEF Clients
<1> QED BY <1>1, <1>2

-----------------------------------------------------------------------------
(* The invariant and what follows from it *)

\* hsfs_do_mount made the clients of the slots and no request is served.
LEMMA InitHolds == Init => IInv
<1> SUFFICES ASSUME Init PROVE IInv
  OBVIOUS
<1>0. Retries \in Nat /\ Null \notin Client
  BY RpcAssumption
<1>1. PICK c \in Client, a \in Client \cup {Null} :
        c # a /\ cl = [clntp |-> c, acl_clntp |-> a] /\ live = {c, a} \ {Null}
  BY DEF Init
<1>2. cl["clntp"] = c /\ cl["acl_clntp"] = a /\ cl \in [Slot -> Client \cup {Null}]
  BY <1>1 DEF Slot
<1>3. TypeOK
  <2>1. live \subseteq Client
    BY <1>1
  <2>2. 0 \in 0 .. Retries /\ 0 \in 0 .. Retries + 2
    BY <1>0
  <2>3. "clntp" \in Slot /\ "idle" \in PCs /\ "only" \in Parts
    BY DEF Slot, PCs, Parts
  <2> QED BY <1>2, <2>1, <2>2, <2>3, Zenon DEF Init, TypeOK
<1>4. Counted /\ Alone /\ OwnSlot /\ HeldAcl /\ MisuseExplained
  BY <1>0 DEF Init, Counted, Alone, OwnSlot, HeldAcl, MisuseExplained
<1>5. SlotsLive
  BY <1>0, <1>1, <1>2 DEF Init, SlotsLive, Slot
<1>6. ClientsKept
  BY <1>0, <1>1, <1>2 DEF Init, ClientsKept, NoneLeaked, SlotsDiffer, Slot
<1> QED BY <1>3, <1>4, <1>5, <1>6 DEF IInv

\* Every step of a worker and the unmount keep the invariant.
LEMMA NextHolds == IInv /\ [Next]_vars => IInv'
<1> SUFFICES ASSUME IInv, [Next]_vars PROVE IInv'
  OBVIOUS
<1>0. TypeOK /\ Typed /\ Alone /\ Clients
  BY DEF IInv, Typed, Clients
<1>1. ASSUME NEW t \in Thread, Step(t) PROVE IInv'
  <2>1. Typed'
    BY <1>0, <1>1, TypedStep
  <2>2. Alone'
    BY <1>0, <1>1, AloneStep
  <2>3. Clients'
    BY <1>0, <1>1, ClientsStep
  <2> QED BY <2>1, <2>2, <2>3 DEF IInv, Typed, Clients
<1>2. ASSUME NEW t \in Thread, NEW s \in Slot, Begin(t, s) PROVE IInv'
  <2>1. Typed'
    BY <1>0, <1>2, TypedBegin
  <2>2. Alone'
    BY <1>0, <1>2, AloneStep
  <2>3. Clients'
    BY <1>0, <1>2, ClientsBegin
  <2> QED BY <2>1, <2>2, <2>3 DEF IInv, Typed, Clients
<1>3. CASE Unmount
  <2>1. Typed'
    BY <1>0, <1>3 DEF Unmount, Typed, TypeOK, Counted, locals
  <2>2. Alone'
    BY <1>0, <1>3 DEF Unmount, Alone
  <2>3. Clients'
    BY <1>0, <1>3, ClientsUnmount
  <2> QED BY <2>1, <2>2, <2>3 DEF IInv, Typed, Clients
<1>4. CASE UNCHANGED vars
  BY <1>4 DEF vars, IInv, TypeOK, Counted, Alone, OwnSlot, HeldAcl, SlotsLive, Replacing,
              ClientsKept, NoneLeaked, SlotsDiffer, MisuseExplained, HeldOver
<1> QED BY <1>1, <1>2, <1>3, <1>4 DEF Next

\* The invariant holds of hsi_nfs3_clnt_call and hsi_nfs3_clnt_reconnect in
\* every run.
THEOREM Invariance == Spec => []IInv
BY InitHolds, NextHolds, PTL DEF Spec

\* Whatever the number of workers, a request of hsi_nfs3_clnt_call is executed
\* at most once more than the retries it has.
THEOREM Bounded == Spec => []ExecsBounded
<1>1. IInv => ExecsBounded
  <2> SUFFICES ASSUME IInv, NEW t \in Thread PROVE execs[t] <= Retries + 1
    BY Zenon DEF ExecsBounded
  <2>1. Retries \in Nat
    BY RpcAssumption
  <2>2. rtry[t] \in 0 .. Retries /\ execs[t] \in 0 .. Retries + 2 /\ execs[t] <= rtry[t] + 1
    BY DEF IInv, TypeOK, Counted
  <2> QED BY <2>1, <2>2
<1> QED BY <1>1, Invariance, PTL

\* With -s, hsi_nfs3_clnt_reconnect leaks no client and never gives the two slots
\* of the super block one client, until a reconnection fails.
THEOREM SlotsKept == Spec => []ClientsKept
<1>1. IInv => ClientsKept
  BY DEF IInv
<1> QED BY <1>1, Invariance, PTL

\* With -s, a destroyed client is used only after a failed reconnection, or by a
\* procedure (hsi_nfs3_link, _create, _setxattr and those of one call) that
\* goes on with its copy of a client that one of its own calls replaced.
THEOREM Explained == Spec => []MisuseExplained
<1>1. IInv => MisuseExplained
  BY DEF IInv
<1> QED BY <1>1, Invariance, PTL
=============================================================================
