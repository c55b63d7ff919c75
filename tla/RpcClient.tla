------------------------------ MODULE RpcClient ------------------------------
(***************************************************************************)
(* hsi_nfs3_clnt_call and hsi_nfs3_clnt_reconnect (nfs3/hsi_nfs3_mount.c): *)
(* every remote call of the daemon goes through them.  Worker threads      *)
(* share the two client handles of the super block, with no lock; with -s  *)
(* one request is served at a time.  The RPC library and the server are    *)
(* external: a call may be executed by the server or not whatever error it *)
(* returns, and an address given back to malloc may be given out again.    *)
(***************************************************************************)
EXTENDS Integers

CONSTANTS
  Thread,   \* worker threads
  Client,   \* addresses of CLIENT structures
  Null,
  Retries   \* the 5 of hsi_nfs3_clnt_call

ASSUME RpcAssumption == Null \notin Client \cup {"clntp", "acl_clntp"} /\ Retries \in Nat

VARIABLES
  single,   \* fuse_opts.singlethread: -s was given
  cl,       \* sb->clntp and sb->acl_clntp
  live,     \* clients created and not destroyed
  pc, slot, \* per thread: where it is, and which client its caller took
  saved,    \* the caller's copy of the client
  part,     \* which call of its procedure it is in
  held,     \* the copy of the client that an outer procedure keeps meanwhile
  clnt, sclnt, rtry, ret, \* locals of hsi_nfs3_clnt_call and _reconnect
  execs,    \* history: times the server executed the current call, saturating
  lost,     \* history: a reconnection failed and left a destroyed client behind
  status

vars == <<single, cl, live, pc, slot, saved, part, held, clnt, sclnt, rtry, ret, execs, lost, status>>
locals == <<slot, saved, part, held, clnt, sclnt, rtry, ret, execs>>

Slot == {"clntp", "acl_clntp"}
PCs == {"idle", "call", "err", "match", "close", "create", "store", "done"}

\* "only": the procedure's first call.  "nested": a call of a procedure that it
\* called, before it frees its own result.  "getacl" and "setacl": the two calls
\* of hsi_nfs3_setxattr.
Parts == {"only", "nested", "getacl", "setacl"}

TypeOK ==
  /\ single \in BOOLEAN /\ cl \in [Slot -> Client \cup {Null}] /\ live \subseteq Client
  /\ pc \in [Thread -> PCs] /\ slot \in [Thread -> Slot]
  /\ part \in [Thread -> Parts] /\ held \in [Thread -> Client \cup {Null}]
  /\ saved \in [Thread -> Client \cup {Null}] /\ clnt \in [Thread -> Client \cup {Null}]
  /\ sclnt \in [Thread -> Slot \cup {Null}]
  /\ rtry \in [Thread -> 0 .. Retries] /\ ret \in [Thread -> {"ok", "error"}]
  /\ execs \in [Thread -> 0 .. Retries + 2] /\ lost \in BOOLEAN
  /\ status \in {"up", "unmounted", "use_after_destroy", "double_destroy", "bad_client"}

\* hsfs_do_mount made both clients, or the server has no ACL program.
Init ==
  /\ single \in BOOLEAN
  /\ \E c \in Client, a \in Client \cup {Null} :
       c # a /\ cl = [clntp |-> c, acl_clntp |-> a] /\ live = {c, a} \ {Null}
  /\ pc = [t \in Thread |-> "idle"] /\ slot = [t \in Thread |-> "clntp"]
  /\ part = [t \in Thread |-> "only"] /\ held = [t \in Thread |-> Null]
  /\ saved = [t \in Thread |-> Null] /\ clnt = [t \in Thread |-> Null]
  /\ sclnt = [t \in Thread |-> Null] /\ rtry = [t \in Thread |-> 0]
  /\ ret = [t \in Thread |-> "ok"] /\ execs = [t \in Thread |-> 0]
  /\ lost = FALSE /\ status = "up"

Goto(t, p) == pc' = [pc EXCEPT ![t] = p]

\* hsi_nfs3_clnt_call starts with c, of which its caller has a copy.
StartCall(t, p, c) ==
  /\ part' = [part EXCEPT ![t] = p]
  /\ saved' = [saved EXCEPT ![t] = c] /\ clnt' = [clnt EXCEPT ![t] = c]
  /\ rtry' = [rtry EXCEPT ![t] = 0] /\ execs' = [execs EXCEPT ![t] = 0]
  /\ Goto(t, "call")

\* A procedure of nfs3/ takes a client of the super block and calls.
\* hsi_nfs3_setxattr takes one and, for a directory, calls hsi_nfs3_getxattr,
\* which takes it again.
Begin(t, s) ==
  /\ status = "up" /\ pc[t] = "idle" /\ cl[s] # Null
  /\ single => \A u \in Thread : pc[u] = "idle"
  /\ slot' = [slot EXCEPT ![t] = s]
  /\ \/ StartCall(t, "only", cl[s]) /\ UNCHANGED held
     \/ s = "acl_clntp" /\ StartCall(t, "getacl", cl[s]) /\ held' = [held EXCEPT ![t] = cl[s]]
  /\ UNCHANGED <<single, cl, live, sclnt, ret, lost, status>>

\* A step that uses the CLIENT c: undefined when c has been destroyed.
Use(c, bad) == IF c \in live THEN UNCHANGED status ELSE status' = bad

\* clnt_call of the RPC library.
Send(t) ==
  /\ status = "up" /\ pc[t] = "call"
  /\ Use(clnt[t], "use_after_destroy")
  /\ \E ran \in {0, 1}, ok \in BOOLEAN :
       /\ ok => ran = 1
       /\ execs' = [execs EXCEPT ![t] = IF @ = Retries + 2 THEN @ ELSE @ + ran]
       /\ ret' = [ret EXCEPT ![t] = IF ok THEN "ok" ELSE "error"]
       /\ Goto(t, IF ok THEN "done" ELSE "err")
  /\ UNCHANGED <<cl, live, slot, saved, part, held, clnt, sclnt, rtry, lost>>

\* Mutant of Retry: the counter is not advanced after a reconnection.
RetryForever(t) ==
  Goto(t, "call") /\ UNCHANGED rtry /\ ret' = [ret EXCEPT ![t] = "ok"]

\* goto retry, where ret = 0.
Retry(t) ==
  Goto(t, "call") /\ rtry' = [rtry EXCEPT ![t] = @ + 1] /\ ret' = [ret EXCEPT ![t] = "ok"]

\* Mutant of Exhausted: off by one.
ExhaustedLate(t) == rtry[t] > Retries

Exhausted(t) == rtry[t] >= Retries

\* hsi_rpc_stat_to_errno and the choice of hsi_nfs3_clnt_call.
Error(t) ==
  /\ status = "up" /\ pc[t] = "err"
  /\ Use(clnt[t], "use_after_destroy")
  /\ \E errno \in {"EAGAIN", "ENOTCONN", "other"} :
       \/ (Exhausted(t) \/ errno = "other") /\ Goto(t, "done") /\ UNCHANGED <<rtry, ret>>
       \/ ~Exhausted(t) /\ errno = "EAGAIN" /\ Retry(t)
       \/ ~Exhausted(t) /\ errno = "ENOTCONN" /\ Goto(t, "match") /\ UNCHANGED <<rtry, ret>>
  /\ UNCHANGED <<cl, live, slot, saved, part, held, clnt, sclnt, execs, lost>>

-----------------------------------------------------------------------------
(* hsi_nfs3_clnt_reconnect *)

\* Mutant of Match: the slot is not looked for.
MatchAcl(t) ==
  /\ status = "up" /\ pc[t] = "match"
  /\ sclnt' = [sclnt EXCEPT ![t] = "acl_clntp"]
  /\ Goto(t, "close")
  /\ UNCHANGED <<cl, live, slot, saved, part, held, clnt, rtry, ret, execs, lost, status>>

Match(t) ==
  /\ status = "up" /\ pc[t] = "match"
  /\ sclnt' = [sclnt EXCEPT ![t] = IF clnt[t] = cl["clntp"] THEN "clntp"
                                   ELSE IF clnt[t] = cl["acl_clntp"] THEN "acl_clntp"
                                   ELSE Null]
  /\ Goto(t, "close")
  /\ UNCHANGED <<cl, live, slot, saved, part, held, clnt, rtry, ret, execs, lost, status>>

\* hsi_mnt_closeclnt.
Close(t) ==
  /\ status = "up" /\ pc[t] = "close"
  /\ Use(clnt[t], "double_destroy")
  /\ live' = live \ {clnt[t]}
  /\ Goto(t, "create")
  /\ UNCHANGED <<cl, locals, lost>>

\* hsi_nfs3_clnt_create with the address of the slot: connect and ping.  With
\* no slot ("Bad client point.") the address is a NULL pointer.
Create(t) ==
  /\ status = "up" /\ pc[t] = "create"
  /\ \/ /\ sclnt[t] = Null
        /\ status' = "bad_client"
        /\ UNCHANGED <<pc, clnt, sclnt, live, lost>>
     \/ /\ sclnt[t] # Null
        /\ \E c \in Client \ live :
             clnt' = [clnt EXCEPT ![t] = c] /\ live' = live \cup {c}
        /\ Goto(t, "store")
        /\ UNCHANGED <<sclnt, lost, status>>
     \/ /\ sclnt[t] # Null
        /\ clnt' = [clnt EXCEPT ![t] = Null] /\ sclnt' = [sclnt EXCEPT ![t] = Null]
        /\ lost' = TRUE
        /\ Goto(t, "done")
        /\ UNCHANGED <<live, status>>
  /\ UNCHANGED <<cl, slot, saved, part, held, rtry, ret, execs>>

\* Mutant of Store: the new client is used for this call only.
StoreLocal(t) ==
  /\ status = "up" /\ pc[t] = "store"
  /\ Retry(t)
  /\ sclnt' = [sclnt EXCEPT ![t] = Null]
  /\ UNCHANGED <<cl, live, slot, saved, part, held, clnt, execs, lost, status>>

Store(t) ==
  /\ status = "up" /\ pc[t] = "store"
  /\ cl' = [cl EXCEPT ![sclnt[t]] = clnt[t]]
  /\ Retry(t)
  /\ sclnt' = [sclnt EXCEPT ![t] = Null]
  /\ UNCHANGED <<live, slot, saved, part, held, clnt, execs, lost, status>>

-----------------------------------------------------------------------------
\* Back in a procedure of nfs3/, which keeps its copy of the client while it
\* makes another call: hsi_nfs3_link asks for the attributes the reply has not,
\* hsi_nfs3_create sets the mode of a file it made EXCLUSIVE.
Nest(t) ==
  /\ status = "up" /\ pc[t] = "done" /\ part[t] = "only" /\ slot[t] = "clntp" /\ ret[t] = "ok"
  /\ held' = [held EXCEPT ![t] = saved[t]]
  /\ StartCall(t, "nested", cl["clntp"])
  /\ UNCHANGED <<cl, live, slot, sclnt, ret, lost, status>>

\* The client that clnt_freeres is called with, if it is called at all.  For a
\* result it is the copy taken before the call or, in some procedures, what
\* sb->clntp is now.  hsi_nfs3_access calls it after an error as well.
Frees(t) ==
  IF ret[t] = "ok" THEN {saved[t]} \cup (IF part[t] = "setacl" THEN {} ELSE {cl["clntp"]})
  ELSE {Null} \cup (IF part[t] = "only" /\ slot[t] = "clntp" THEN {saved[t]} ELSE {})

\* A nested call returns to a procedure that frees its own result.
Freed(t, c) == ({c} \cup (IF part[t] = "nested" THEN {held[t]} ELSE {})) \ {Null}

\* The locals die.
Leave(t) ==
  /\ Goto(t, "idle") /\ slot' = [slot EXCEPT ![t] = "clntp"]
  /\ part' = [part EXCEPT ![t] = "only"] /\ held' = [held EXCEPT ![t] = Null]
  /\ saved' = [saved EXCEPT ![t] = Null] /\ clnt' = [clnt EXCEPT ![t] = Null]
  /\ sclnt' = [sclnt EXCEPT ![t] = Null] /\ rtry' = [rtry EXCEPT ![t] = 0]
  /\ ret' = [ret EXCEPT ![t] = "ok"] /\ execs' = [execs EXCEPT ![t] = 0]

\* hsi_nfs3_setxattr has the other ACL and sends SETACL with the client it took
\* at the beginning.
SetAcl(t) ==
  /\ part[t] = "getacl" /\ ret[t] = "ok"
  /\ StartCall(t, "setacl", held[t])
  /\ held' = [held EXCEPT ![t] = Null]
  /\ UNCHANGED <<slot, sclnt, ret>>

\* The procedure frees the result and returns, or goes on to its next call.
Finish(t) ==
  /\ status = "up" /\ pc[t] = "done"
  /\ \E c \in Frees(t) :
       IF Freed(t, c) \subseteq live
       THEN (Leave(t) \/ SetAcl(t)) /\ UNCHANGED status
       ELSE status' = "use_after_destroy" /\ UNCHANGED <<pc, locals>>
  /\ UNCHANGED <<cl, live, lost>>

\* hsfs_do_unmount, when the session loop has ended.
Unmount ==
  /\ status = "up" /\ \A t \in Thread : pc[t] = "idle"
  /\ status' = IF cl["clntp"] \in live THEN "unmounted" ELSE "double_destroy"
  /\ live' = live \ {cl["clntp"]}
  /\ UNCHANGED <<single, cl, pc, locals, lost>>

Step(t) ==
  /\ UNCHANGED single
  /\ \/ Send(t) \/ Error(t) \/ Match(t) \/ Close(t) \/ Create(t) \/ Store(t) \/ Nest(t) \/ Finish(t)

Next == (\E t \in Thread : Step(t) \/ \E s \in Slot : Begin(t, s)) \/ Unmount

\* A worker thread runs its call to the end: clnt_call and the connection
\* attempts have timeouts.
Spec == Init /\ [][Next]_vars /\ \A t \in Thread : WF_vars(Step(t))

-----------------------------------------------------------------------------
(* Properties *)

\* The procedure that t is in has a copy of a client from before a reconnection
\* that it, or a procedure it called, has made.
HeldOver(t) ==
  /\ pc[t] # "idle"
  /\ \/ saved[t] # cl[slot[t]]
     \/ part[t] = "nested" /\ held[t] # cl[slot[t]]

\* With -s: the daemon uses a destroyed client only after a reconnection that
\* failed, or when a procedure goes on with the copy of the client it took
\* before one of its own calls, or of those it makes through another procedure
\* (hsi_nfs3_link, _create, _setxattr), reconnected; and it destroys none
\* twice, and reconnects none that no slot has, unless a reconnection failed.
MisuseExplained ==
  single =>
  /\ status = "use_after_destroy" => lost \/ \E t \in Thread : HeldOver(t)
  /\ status \in {"double_destroy", "bad_client"} => lost

\* With -s: no client is leaked by a reconnection: what was created and
\* not destroyed is in the super block or about to be stored there.
NoneLeaked ==
  single /\ ~lost => \A c \in live : (\E s \in Slot : cl[s] = c) \/
                  (\E t \in Thread : pc[t] = "store" /\ clnt[t] = c)

\* With -s: the NFS and the ACL client are different clients, so that no
\* call goes to the other program, unless a slot kept a destroyed client whose
\* address the other slot's new client got.
SlotsDiffer == single /\ cl["clntp"] = cl["acl_clntp"] => lost

\* With -s: through every reconnection of hsi_nfs3_clnt_reconnect the clients
\* that exist are those of the super block, one for each slot.
ClientsKept == NoneLeaked /\ SlotsDiffer

\* Every call returns, with any number of workers: five retries are the limit
\* for errors and reconnections together.
CallReturns ==
  \A t \in Thread : pc[t] = "call" ~> (pc[t] = "idle" \/ status # "up")

\* A request is executed by the server at most once more than it is retried,
\* so at most six times: the retries of hsi_nfs3_clnt_call repeat calls that
\* are not idempotent (REMOVE, RENAME, MKDIR, LINK) after they took effect.
ExecsBounded == \A t \in Thread : execs[t] <= Retries + 1

-----------------------------------------------------------------------------
(* The inductive invariant behind the safety properties *)

\* A request was executed at most once for every time it was sent.
Counted ==
  \A t \in Thread :
    /\ execs[t] <= rtry[t] + 1
    /\ pc[t] = "call" => execs[t] <= rtry[t]
    /\ pc[t] \in {"match", "close", "create", "store"} => rtry[t] < Retries

\* With -s one request is served at a time.
Alone == single => \A t, u \in Thread : pc[t] # "idle" /\ pc[u] # "idle" => t = u

\* The client of a slot is being replaced.
Replacing(s) == \E t \in Thread : pc[t] \in {"create", "store"} /\ slot[t] = s

\* A call uses the client of its slot, and a reconnection replaces that one;
\* but SETACL may be sent with a client that was destroyed meanwhile.
OwnSlot ==
  single /\ ~lost /\ status = "up" => \A t \in Thread :
    /\ pc[t] \in {"call", "err", "match", "close", "done"} =>
         /\ cl[slot[t]] # Null
         /\ \/ clnt[t] = cl[slot[t]]
            \/ pc[t] = "call" /\ part[t] = "setacl" /\ clnt[t] \notin live /\ saved[t] = clnt[t]
    /\ pc[t] \in {"close", "create", "store"} => sclnt[t] = slot[t]

\* The client hsi_nfs3_setxattr took is the slot's, or the one about to be
\* stored there, or destroyed.
HeldAcl ==
  single /\ ~lost /\ status = "up" => \A t \in Thread :
    pc[t] # "idle" /\ part[t] = "getacl" /\ held[t] \in live =>
      held[t] = IF pc[t] = "store" THEN clnt[t] ELSE cl[slot[t]]

\* A slot has a client of its own that was not destroyed, but while it is replaced.
SlotsLive ==
  single /\ ~lost /\ status = "up" =>
    /\ cl["clntp"] # Null
    /\ \A s \in Slot : cl[s] # Null /\ ~Replacing(s) => cl[s] \in live
    /\ \A t \in Thread :
         /\ pc[t] = "create" => cl[slot[t]] \notin live
         /\ pc[t] = "store" =>
              /\ clnt[t] \in live
              /\ cl[slot[t]] \in live => cl[slot[t]] = clnt[t]
              /\ \A s \in Slot : s # slot[t] => cl[s] # clnt[t]

IInv == TypeOK /\ Counted /\ Alone /\ OwnSlot /\ HeldAcl /\ SlotsLive /\ ClientsKept /\ MisuseExplained
=============================================================================
