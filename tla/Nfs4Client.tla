----------------------------- MODULE Nfs4Client -----------------------------
(***************************************************************************)
(* Application threads that use the synchronous calls (SyncCalls) on top   *)
(* of the NFSv4 calls (Nfs4Calls).                                         *)
(*                                                                         *)
(* Built without HAVE_MULTITHREADING (mt = FALSE) a thread polls the       *)
(* socket itself and runs the callbacks from wait_for_nfs_reply.  In a     *)
(* multithreaded context (mt = TRUE) a service thread runs them, one at a  *)
(* time, while the application threads wait on the semaphores of their     *)
(* sync_cb_data, and an open, truncate or close holds                      *)
(* nfs4_open_call_mutex from its async function to the end of its call.    *)
(*                                                                         *)
(* The threads interleave between any two effects that another thread can  *)
(* see: an answer, a compound that is sent, the mutex taken or released.   *)
(***************************************************************************)
EXTENDS Nfs4Calls, SyncCalls, Naturals

CONSTANTS
    Thread,      \* application threads
    CallsOf,     \* CallsOf[t]: the calls thread t makes
    MaxLinks,    \* symbolic links in the way of one call that are counted: the
                 \* code follows them without limit, also round a cycle
    MaxPages,    \* pages of a directory after the first
    MaxRetry     \* how often nfs_open tries again (10 in the code)

ASSUME BoundsAssumption ==
    /\ CallsOf \in [Thread -> SUBSET DOMAIN Calls]
    /\ MaxLinks \in Nat /\ MaxPages \in Nat /\ MaxRetry \in Nat

VARIABLES
    mt,          \* rpc->multithreading_enabled
    version,     \* nfs->nfsi->version
    call,        \* call[t]: the call of thread t, under way or the last one
    service,     \* the thread for whose call a callback runs, or Nobody
    mutex        \* whose call holds nfs4_open_call_mutex: a thread, Nobody, Abandoned

vars == <<mt, version, call, service, mutex>>

Nobody == "nobody"
Abandoned == "abandoned"

\* struct nfs4_cb_data, with what the server did for it: links counts
\* up to its bound, acted has the objects that filler.func reached, typed tells
\* that the type of a mknod is still in its argument.
NoData ==
    [live |-> FALSE, owned |-> {}, flags |-> {}, cont |-> "none",
     open_cb |-> "none", func |-> "none", path |-> "full", links |-> 0,
     pages |-> 0, typed |-> TRUE, acted |-> {}, opened |-> "no"]

\* struct sync_cb_data on the stack of the caller.
NoFrame == [live |-> FALSE, fin |-> FALSE, sem |-> 0, status |-> "none", got |-> FALSE]

NoCall ==
    [pc |-> "idle", name |-> "none", async |-> "none", at |-> "none",
     todo |-> <<>>, pend |-> "none", ret |-> "none",
     data |-> NoData, heap |-> {}, frame |-> NoFrame, answers |-> <<>>,
     faults |-> {}, unset |-> {}, lost |-> 0, retry |-> 0]

Init ==
    /\ mt \in BOOLEAN
    /\ version \in {"v3", "v4"}
    /\ call = [t \in Thread |-> NoCall]
    /\ service = Nobody
    /\ mutex = Nobody

-----------------------------------------------------------------------------
(* The effects. *)

Fault(c, yes, kind) ==
    IF yes THEN [c EXCEPT !.faults = @ \cup {[kind |-> kind, from |-> c.at]}] ELSE c

\* The callback of the synchronous call: keep the answer, cb_data_is_finished.
cb_data_is_finished(c, st, got) ==
    [c EXCEPT !.answers = Append(@, [status |-> st, from |-> c.at]),
              !.frame.fin = TRUE,
              !.frame.status = st,
              !.frame.sem = @ + 1,
              !.frame.got = got]

Answer(c, st) ==
    LET room == st = "OK" /\ Calls[c.name].result = "room"
        reached == Fault(c, ~c.frame.live, "dead frame")
    IN  {cb_data_is_finished(reached, st, got) :
            got \in IF room THEN BOOLEAN ELSE {st = "OK"}}

free_nfs4_cb_data(c) ==
    [Fault(c, ~c.data.live, "double free") EXCEPT
        !.heap = @ \ c.data.owned,
        !.data = [NoData EXCEPT !.links = c.data.links, !.opened = c.data.opened]]

\* What only the call itself can see.
Quiet == {"own", "hold", "drop", "give", "cont", "open_cb", "func", "path", "fill",
          "flag", "flags", "link", "page", "acted", "opened", "ret"}

\* The states of a call after an effect.
Effect(c, k, x) ==
    CASE k = "own"  -> {[c EXCEPT !.heap = @ \cup {x}, !.data.owned = @ \cup {x},
                                  !.data.live = @ \/ x = "data"]}
      [] k = "hold" -> {[c EXCEPT !.heap = @ \cup {x}]}
      [] k \in {"drop", "give"} ->
                       {[c EXCEPT !.heap = @ \ {x}, !.data.owned = @ \ {x},
                                  !.data.opened = IF k = "give" /\ @ = "server"
                                                  THEN "handle" ELSE @]}
      [] k = "cont" -> {[c EXCEPT !.data.cont = x]}
      [] k = "open_cb" -> {[c EXCEPT !.data.open_cb = x]}
      [] k = "func" -> {[c EXCEPT !.data.func = x]}
      [] k = "path" -> {[c EXCEPT !.data.path = x]}
      [] k = "fill" -> {[c EXCEPT !.unset = @ \cup {<<c.data.func, a>> : a \in Unset(c.data)},
                                  !.data.typed = @ /\ c.data.func # "mknod"]}
      [] k = "flag" -> {[c EXCEPT !.data.flags = (@ \cup {x}) \ {"none"}]}
      [] k = "flags" -> {[c EXCEPT !.data.flags =
                                 @ \cup (x \cap {"O_CREAT", "O_EXCL", "O_NOFOLLOW"})]}
      [] k = "link" -> {[c EXCEPT !.data.links = IF @ < MaxLinks THEN @ + 1 ELSE @]}
      [] k = "page" -> {[c EXCEPT !.data.pages = @ + 1]}
      [] k = "acted" -> {[c EXCEPT !.data.acted = @ \cup {<<c.data.func, x>>}]}
      [] k = "opened" -> {[c EXCEPT !.data.opened = x]}
      [] k = "ret"  -> {[c EXCEPT !.ret = x]}
      [] k = "cb"   -> Answer(Fault(c, ~c.data.live, "use after free"), x)
      [] k = "call" -> Answer(c, x)
      [] k = "free" -> {free_nfs4_cb_data(c)}
      [] k = "send" -> {[Fault(c, ~c.data.live, "use after free") EXCEPT !.pend = x]}
      [] k = "swap" -> {[c EXCEPT !.pend = x, !.heap = {"data"},
                                  !.data = [NoData EXCEPT !.live = TRUE, !.owned = {"data"}]]}
      [] k = "lock" -> {c}

Step(c) ==
    {[n EXCEPT !.todo = Tail(@)] : n \in Effect(c, Head(c.todo)[1], Head(c.todo)[2])}

\* A function runs on to the next effect that another thread can see.
RECURSIVE Settle(_)
Settle(c) ==
    IF c.todo # <<>> /\ Head(c.todo)[1] \in Quiet
    THEN UNION {Settle(n) : n \in Step(c)}
    ELSE {c}

\* The paths of f; a directory has an end.
Paths(f, d) ==
    {s \in Callback(f, d) :
        d.pages = MaxPages => \A i \in DOMAIN s : s[i][1] # "page"}

Enter(c, f, s) == Settle([c EXCEPT !.at = f, !.todo = s])

\* The reply to the compound: its callback starts.
Reply(c) ==
    UNION {Enter([c EXCEPT !.pend = "none"], c.pend, s) : s \in Paths(c.pend, c.data)}

\* The function that runs for call t performs its next visible effect.
Perform(t) ==
    LET c == call[t]
        k == Head(c.todo)[1]
        x == Head(c.todo)[2]
    IN  /\ c.todo # <<>>
        /\ k = "lock" /\ mt => mutex = Nobody
        /\ \E n \in IF k = "run" THEN UNION {Enter(c, x, s \o Tail(c.todo)) : s \in Paths(x, c.data)}
                                 ELSE UNION {Settle(m) : m \in Step(c)} :
              call' = [call EXCEPT ![t] = n]
        /\ mutex' = CASE k = "lock" /\ mt -> t
                      [] k = "free" /\ mutex = t -> Nobody
                      [] OTHER -> mutex

-----------------------------------------------------------------------------
(* The application thread. *)

\* nfs_init_cb_data, and the async function is called.
Start(name, retry, lost) ==
    LET async == Dispatch[Calls[name].async][version]
        fresh == [NoCall EXCEPT !.pc = "async", !.name = name, !.async = async,
                                !.retry = retry, !.lost = lost, !.frame.live = TRUE]
    IN  UNION {Enter(fresh, async, s) : s \in Entry(async)}

\* The semaphore cannot be made: the call fails before it starts.
NoSemaphore(name) ==
    [NoCall EXCEPT !.name = name, !.ret = "-1", !.frame.status = "-1"]

\* Without multithreading a context is used by one thread at a time; what the
\* call before has left pending stays with it.
Begin(t) ==
    /\ call[t] = NoCall
    /\ mt \/ \A u \in Thread : call[u] = NoCall \/ (call[u].pc = "idle" /\ call[u].pend # "none")
    /\ \E name \in CallsOf[t] :
         \/ \E c \in Start(name, 0, 0) : call' = [call EXCEPT ![t] = c]
         \/ mt /\ call' = [call EXCEPT ![t] = NoSemaphore(name)]
    /\ UNCHANGED <<mt, version, service, mutex>>

Over(c) == c.pc = "idle" /\ c.name # "none" /\ c.todo = <<>> /\ c.pend = "none"

\* The application goes on; nobody is left to unlock what the call still holds.
Forget(t) ==
    /\ Over(call[t])
    /\ call' = [call EXCEPT ![t] = NoCall]
    /\ mutex' = IF mutex = t THEN Abandoned ELSE mutex
    /\ UNCHANGED <<mt, version, service>>

\* The async function.
CallerStep(t) ==
    /\ call[t].pc = "async"
    /\ Perform(t)
    /\ UNCHANGED <<mt, version, service>>

LostOpens(c) == c.lost + IF c.data.opened = "server" THEN 1 ELSE 0

Returned(c, status) ==
    [c EXCEPT !.pc = "idle", !.frame.live = FALSE, !.frame.status = status,
              !.lost = LostOpens(c)]

\* The async function has returned: fail, or go on to wait.
AsyncDone(t) ==
    LET c == call[t]
    IN  /\ c.pc = "async" /\ c.todo = <<>>
        /\ call' = [call EXCEPT ![t] = IF c.ret = "0" THEN [c EXCEPT !.pc = "wait"]
                                       ELSE Returned(c, "-1")]
        /\ UNCHANGED <<mt, version, service, mutex>>

\* The callback of what t has pending starts.
Serve(t) ==
    /\ service = Nobody /\ call[t].pend # "none"
    /\ \E n \in Reply(call[t]) :
         /\ call' = [call EXCEPT ![t] = n]
         /\ service' = IF n.todo = <<>> THEN Nobody ELSE t
    /\ UNCHANGED <<mt, version, mutex>>

Polls(t) == ~mt /\ call[t].pc = "wait" /\ service = Nobody /\ ~call[t].frame.fin

\* nfs_service, called by the waiting thread: a reply, or a failed connection,
\* for which rpc_error_all_pdus runs the callbacks.  The reply may be one that a
\* call which has returned was not there for.  With nothing pending it polls on.
wait_for_nfs_reply(t) ==
    /\ Polls(t)
    /\ \E u \in Thread : (u = t \/ call[u].pc = "idle") /\ Serve(u)

\* The connection fails while nothing is pending.
ServiceFails(t) ==
    /\ Polls(t) /\ call[t].pend = "none"
    /\ call' = [call EXCEPT ![t] = Returned(call[t], "EIO")]
    /\ UNCHANGED <<mt, version, service, mutex>>

\* Mutant of Finished: nobody waits for the semaphore.
FinishedAtOnce(c) == mt \/ (c.frame.fin /\ service = Nobody)

\* nfs_mt_sem_wait has returned, or the loop on is_finished has ended.
Finished(c) == IF mt THEN c.frame.sem > 0 ELSE c.frame.fin /\ service = Nobody

\* The answer is there: nfs_destroy_cb_sem and return, or nfs_open once more.
SyncReturn(t) ==
    LET c == call[t]
    IN  /\ c.pc = "wait"
        /\ Finished(c)
        /\ IF c.name = "nfs_open" /\ c.frame.status = "EIO" /\ c.retry < MaxRetry
           THEN /\ c.todo = <<>>
                /\ \E n \in Start(c.name, c.retry + 1, LostOpens(c)) :
                      call' = [call EXCEPT ![t] = n]
           ELSE call' = [call EXCEPT ![t] = Returned(c, c.frame.status)]
        /\ UNCHANGED <<mt, version, service, mutex>>

-----------------------------------------------------------------------------
(* The callbacks, in the service thread or the one that polls. *)

\* An async function touches nothing after it has queued its compound, so its
\* return may be taken to come before the reply.
ServiceReply(t) == mt /\ call[t].pc # "async" /\ Serve(t)

ServiceStep(t) ==
    /\ service = t
    /\ Perform(t)
    /\ service' = IF call'[t].todo = <<>> THEN Nobody ELSE t
    /\ UNCHANGED <<mt, version>>

Caller(t) == CallerStep(t) \/ AsyncDone(t) \/ wait_for_nfs_reply(t) \/ SyncReturn(t)

Service == \E t \in Thread : ServiceReply(t) \/ ServiceStep(t)

Next == (\E t \in Thread : Begin(t) \/ Forget(t) \/ Caller(t) \/ ServiceFails(t)) \/ Service

\* A thread that can go on does.  For every compound a reply, an error or a
\* timeout comes, and the service thread takes them in the order they come in,
\* so that no reply is passed over for ever.
Fairness ==
    \A t \in Thread : WF_vars(Caller(t)) /\ SF_vars(ServiceReply(t)) /\ WF_vars(ServiceStep(t))

Spec == Init /\ [][Next]_vars /\ Fairness

-----------------------------------------------------------------------------
(* Properties. *)

TypeOK ==
    /\ mt \in BOOLEAN /\ version \in {"v3", "v4"}
    /\ service \in Thread \cup {Nobody} /\ mutex \in Thread \cup {Nobody, Abandoned}
    /\ \A t \in Thread :
         /\ call[t].pc \in {"idle", "async", "wait"}
         /\ call[t].data.owned \subseteq call[t].heap
         /\ call[t].data.links \in 0..MaxLinks /\ call[t].data.pages \in 0..MaxPages
         /\ call[t].retry \in 0..MaxRetry

\* The application is called back at most once per call.  Three callbacks go on
\* after they have reported an error: nfs4_xstat64_cb when the attributes do not
\* parse, nfs4_fcntl_stat_cb likewise, nfs4_getacl_cb after every failed reply.
CallbackOnce ==
    \A t \in Thread :
        LET a == call[t].answers
        IN  Len(a) > 1 =>
              /\ Len(a) = 2 /\ a[1].status # "OK"
              /\ \/ a[1].from = "nfs4_xstat64_cb" /\ a[2] = [a[1] EXCEPT !.status = "OK"]
                 \/ a[1].from = "nfs4_getacl_cb" /\ a[2] = [a[1] EXCEPT !.status = "EIO"]
                 \/ a[1] = [status |-> "EINVAL", from |-> "nfs4_fcntl_stat_cb"]

\* An async function that returns an error has not called back and will not.
\* The exceptions are chdir and stat64 without memory for filler.data.
RefusedSilently ==
    \A t \in Thread :
        call[t].ret = "-1" /\ call[t].answers # <<>> =>
            /\ call[t].async \in {"nfs4_chdir_async", "nfs4_stat64_async", "nfs4_lstat64_async"}
            /\ call[t].answers = <<[status |-> "ENOMEM", from |-> call[t].async]>>

\* A call that was accepted and is over has been answered: no path of a
\* callback ends without a new compound or an answer.  The exception is mknod
\* without memory for the attribute mask.
NeverForgotten ==
    \A t \in Thread :
        LET c == call[t]
        IN  c.ret = "0" /\ c.todo = <<>> /\ c.pend = "none" /\ c.answers = <<>>
                => c.at = "nfs4_mknod_async"

\* Every call of the library is answered exactly once if its async function
\* accepted it and not at all otherwise, but for the exits named above.
ExactlyOneAnswer == CallbackOnce /\ RefusedSilently /\ NeverForgotten

\* nfs4_cb_data is freed once and not used afterwards.  Broken by the three
\* callbacks of CallbackOnce, by the lock request that nfs4_fcntl_stat_cb goes
\* on to send, and by nfs4_write_append_cb when the nested write cannot start.
FreedOnce ==
    \A t \in Thread : \A f \in call[t].faults :
        f.kind \in {"use after free", "double free"} =>
            f.from \in {"nfs4_xstat64_cb", "nfs4_getacl_cb", "nfs4_fcntl_stat_cb",
                       "nfs4_fcntl_cb", "nfs4_write_append_cb"}

\* The answer of an open with O_NOFOLLOW that meets a link.
IsLink(c) == c.answers = <<[status |-> "ELOOP", from |-> "nfs4_open_readlink"]>>

\* When a call is over, what was allocated for it is freed or handed on.  Left
\* behind are: the operations of the compound that asks for a link's target;
\* the offset of SEEK_END; everything, when an open with O_NOFOLLOW meets a
\* link, when chmod or chown cannot start its walk, when access or utimes has
\* no memory for its argument, or mknod for its mask.
NothingLeaked ==
    \A t \in Thread :
        LET c == call[t]
        IN  Over(c) /\ c.heap # {} =>
              \/ c.heap = {"op"}
              \/ c.heap = {"blob1"} /\ c.async = "nfs4_lseek_async"
              \/ IsLink(c)
              \/ c.ret = "-1" /\ c.data.live /\ c.data.func \in {"chmod", "chown", "access", "utimes"}
              \/ c.at = "nfs4_mknod_async" /\ c.answers = <<>>

\* A callback never writes to a sync_cb_data whose function has returned.  The
\* second of two callbacks does.  Without a service thread that is only the
\* one of the lock that nfs4_fcntl_stat_cb sends after it has answered: it runs
\* in wait_for_nfs_reply of the next call.
FrameLive ==
    \A t \in Thread : \A f \in call[t].faults :
        f.kind = "dead frame" =>
            Len(call[t].answers) = 2 /\ (mt \/ f.from = "nfs4_fcntl_cb")

\* The mutex belongs to a call whose structure is still there to release it.
\* An open with O_NOFOLLOW that meets a link keeps it for ever.
MutexOwned ==
    mutex \in Thread =>
        call[mutex].data.live /\ (Over(call[mutex]) => IsLink(call[mutex]))

\* A call gives back all it took (nfs4_cb_data, what hangs from it, the mutex),
\* and each once, but for the exits named above.
ResourcesReturned == FreedOnce /\ NothingLeaked /\ MutexOwned

\* What an operation of a walk is to carry has been given to it, also when data
\* was rearranged on the way and when the walk starts over behind a link.
\* Exceptions: the stateid of a SETATTR by path is not set, the mode of a
\* creation without O_EXCL is not sent, a symlink is made without a target when
\* there was no memory for it, and nfs4_populate_mknod, which strips the type
\* from its own argument, leaves the whole operation unset behind a link.
OperationsSet ==
    \A t \in Thread : \A u \in call[t].unset :
        \/ u \in {"chmod", "chown", "utimes"} \X {"stateid"}
        \/ u \in {<<"open", "mode">>, <<"symlink", "blob0">>}
        \/ u = <<"mknod", "type">> /\ call[t].data.links > 0

ByName == {"mkdir", "remove", "open", "symlink", "rename", "mknod"}
OnObject == {"link", "chmod", "chown", "utimes"}

\* An operation that changes something is run in the directory of the name that
\* it takes, or on the object the path names, and on nothing else.  chown is
\* run on the parent directory; chmod and utimes change a link at the end of
\* the path first and its target afterwards.
ActsOnNamed ==
    \A t \in Thread : \A a \in call[t].data.acted :
        /\ a[1] \in ByName => a[2] # "full"
        /\ a[1] \in OnObject => \/ a[2] = "full"
                                \/ a[1] = "chown"
                                \/ (a[2] = "link" /\ "NO_FOLLOW" \notin call[t].data.flags)

\* The compounds a call sends say what the call asks for: every operation is
\* filled in, and acts on what the caller named.
CompoundsRight == OperationsSet /\ ActsOnNamed

\* When a call succeeds, an open that the server granted for it is in the hands
\* of the caller, if that asked for one, or closed again.  Opens of failed
\* attempts stay at the server, one per attempt of nfs_open.
OpenLedger ==
    \A t \in Thread :
        LET c == call[t]
        IN  Over(c) /\ c.frame.status = "OK" =>
              /\ c.lost <= IF c.name = "nfs_open" THEN c.retry ELSE 0
              /\ c.data.opened = CASE c.async \in {"nfs4_open_async", "nfs4_create_async"} -> "handle"
                                   [] c.async = "nfs4_truncate_async" -> "closed"
                                   [] OTHER -> "no"

\* The call follows links for longer than is counted, perhaps round a cycle.
Circles(c) == c.data.links = MaxLinks

\* Whoever waits for an answer gets it, and returns or tries again.  Exceptions
\* are the mknod that was accepted and forgotten, and a call that meets one link
\* after the other: nothing bounds how many are followed.
Answered ==
    \A t \in Thread :
        call[t].pc = "wait" ~> \/ call[t].pc # "wait"
                               \/ call[t].at = "nfs4_mknod_async" /\ call[t].pend = "none"
                               \/ Circles(call[t])

\* nfs4_open_call_mutex is always released, except by the open with O_NOFOLLOW
\* that meets a link, and while an open or truncate follows links without end.
MutexReleased ==
    \A t \in Thread :
        mutex = t ~> mutex = Nobody \/ IsLink(call[t]) \/ Circles(call[t])
==============================================================================
