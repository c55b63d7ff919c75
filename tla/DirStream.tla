----------------------------- MODULE DirStream -----------------------------
(***************************************************************************)
(* Listing a directory: hsx_fuse_readdir and hsx_fuse_readdir_plus with    *)
(* the READDIR procedures of nfs3/, for several readers of one directory   *)
(* that other clients change meanwhile.  The cookie verifier is kept once  *)
(* per directory, in its inode.  What readdir_plus does to the inodes of   *)
(* the entries is in InodeCache.                                           *)
(***************************************************************************)
EXTENDS Integers, Sequences

CONSTANTS
  Reader,      \* open directory streams, each served by a worker
  Name, First, \* names, and those the directory has at first
  Size,        \* name -> bytes fuse_add_direntry needs for it
  Plus,        \* what fuse_add_direntry_plus needs besides
  Buf,         \* size of the buffer the kernel offers
  MaxGen       \* bound: changes of the directory

\* The kernel offers a page at least, more than any one entry needs.
ASSUME BufAssumption ==
  /\ First \in Seq(Name) /\ \A i, j \in DOMAIN First : First[i] = First[j] => i = j
  /\ Plus \in Nat /\ Buf \in Nat /\ MaxGen \in Nat
  /\ \A n \in Name : Size[n] \in Nat \ {0} /\ Size[n] + Plus < Buf

VARIABLES
  stable,      \* server: cookies last, and verifiers are not checked;
               \* otherwise cookies are positions and a verifier guards them
  dir,         \* server: sequence of [name, cookie]
  next,        \* server: the next lasting cookie
  gen,         \* server: changes so far, the verifier of the directory
  verf,        \* NFS_I(inode)->cookieverf
  rd           \* reader -> its listing

vars == <<stable, dir, next, gen, verf, rd>>

\* state: call, store, fill, or how it ended: eof, error, bad_cookie.  plus: the
\* request is a READDIRPLUS.  batch, bverf: the answer.  count, len: entries and
\* bytes in the buffer.  gen: that of the first call.  all: names the directory
\* had ever since.  seen: how often each was returned (2: more than once).
\* shared: another reader stored its verifier since.  more: entries were
\* left at the last call.
Closed == [state |-> "new", off |-> 0, plus |-> FALSE, batch |-> << >>, bverf |-> 0,
           count |-> 0, len |-> 0, gen |-> 0, all |-> {}, seen |-> [n \in Name |-> 0],
           shared |-> FALSE, more |-> FALSE]

Ends == {"new", "eof", "error", "bad_cookie"}
Names == {dir[i].name : i \in DOMAIN dir}
Cookie(i) == IF stable THEN dir[i].cookie ELSE i
Entry(i) == [name |-> dir[i].name, cookie |-> Cookie(i)]

Listing == [state : Ends \cup {"call", "store", "fill"}, off : Nat, plus : BOOLEAN,
            batch : Seq([name : Name, cookie : Nat]), bverf : 0 .. MaxGen, count : Nat,
            len : 0 .. Buf, gen : 0 .. MaxGen, all : SUBSET Name, seen : [Name -> 0 .. 2],
            shared : BOOLEAN, more : BOOLEAN]

TypeOK ==
  /\ stable \in BOOLEAN /\ dir \in Seq([name : Name, cookie : Nat]) /\ next \in Nat
  /\ gen \in 0 .. MaxGen /\ verf \in 0 .. MaxGen
  /\ rd \in [Reader -> Listing]

Init ==
  /\ stable \in BOOLEAN
  /\ dir = [i \in DOMAIN First |-> [name |-> First[i], cookie |-> i]]
  /\ next = Len(First) + 1 /\ gen = 0 /\ verf = 0
  /\ rd = [r \in Reader |-> Closed]

Set(r, x) == rd' = [rd EXCEPT ![r] = x]

\* What a listing leaves for the properties when it is over.
End(r, how) ==
  Set(r, [Closed EXCEPT !.state = how, !.gen = rd[r].gen, !.all = rd[r].all,
                        !.seen = rd[r].seen, !.shared = rd[r].shared, !.more = rd[r].more])
Fail(r) == Set(r, [Closed EXCEPT !.state = "error"])

\* Another client adds or removes an entry.
OtherAdd(n) ==
  /\ gen < MaxGen /\ n \notin Names
  /\ dir' = Append(dir, [name |-> n, cookie |-> next])
  /\ next' = next + 1 /\ gen' = gen + 1
  /\ UNCHANGED <<stable, verf, rd>>

OtherRemove(n) ==
  /\ gen < MaxGen
  /\ \E i \in DOMAIN dir :
       /\ dir[i].name = n
       /\ dir' = [j \in 1 .. Len(dir) - 1 |-> IF j < i THEN dir[j] ELSE dir[j + 1]]
  /\ gen' = gen + 1
  /\ rd' = [r \in Reader |-> [rd[r] EXCEPT !.all = @ \ {n}]]
  /\ UNCHANGED <<stable, next, verf>>

\* A process begins to list the directory (hsx_fuse_opendir).
Open(r) ==
  /\ rd[r].state \in Ends
  /\ Set(r, [Closed EXCEPT !.state = "call"])
  /\ UNCHANGED <<stable, dir, next, gen, verf>>

\* The READDIR or READDIRPLUS call: the verifier of the inode goes with every
\* cookie.  Entries 1 .. m of the directory are not after the cookie, and the
\* server returns the next ones up to n, none only at the end.
Call(r) ==
  LET first == rd[r].off = 0 IN
  /\ rd[r].state = "call"
  /\ \/ Fail(r)
     \/ ~stable /\ ~first /\ verf # gen /\ End(r, "bad_cookie")
     \/ /\ stable \/ first \/ verf = gen
        /\ \E plus \in BOOLEAN, m, n \in 0 .. Len(dir) :
             /\ \A i \in DOMAIN dir : Cookie(i) > rd[r].off <=> i > m
             /\ m < n \/ (m = n /\ n = Len(dir))
             /\ Set(r, [rd[r] EXCEPT !.state = "store", !.plus = plus,
                                     !.batch = [i \in 1 .. n - m |-> Entry(m + i)],
                                     !.bverf = gen, !.more = m < Len(dir),
                                     !.gen = IF first THEN gen ELSE @,
                                     !.all = IF first THEN Names ELSE @,
                                     !.shared = ~first /\ @])
  /\ UNCHANGED <<stable, dir, next, gen, verf>>

\* nfs_refresh_inode may fail with -ESTALE; otherwise the verifier is kept.
Store(r) ==
  /\ rd[r].state = "store"
  /\ \/ Fail(r) /\ UNCHANGED verf
     \/ /\ verf' = rd[r].bverf
        /\ rd' = [x \in Reader |->
                    IF x = r THEN [rd[r] EXCEPT !.state = "fill", !.bverf = 0]
                    ELSE [rd[x] EXCEPT !.shared = @ \/ rd[x].state \notin Ends]]
  /\ UNCHANGED <<stable, dir, next, gen>>

-----------------------------------------------------------------------------
(* Filling the buffer of the kernel *)

\* What fuse_add_direntry or fuse_add_direntry_plus needs for the next entry.
Res(x) == Size[x.batch[x.count + 1].name] + (IF x.plus THEN Plus ELSE 0)

\* Neither loop adds an entry that needs all that is left of the buffer.
Fits(x) == x.count < Len(x.batch) /\ Res(x) < Buf - x.len

\* hsx_fuse_readdir, hsx_fuse_readdir_plus: one round of the loop.
AddEntry(r) ==
  /\ rd[r].state = "fill" /\ Fits(rd[r])
  /\ Set(r, [rd[r] EXCEPT !.count = @ + 1, !.len = @ + Res(rd[r])])
  /\ UNCHANGED <<stable, dir, next, gen, verf>>

\* No memory for the names or the buffer, or an entry without a handle in
\* hsi_nfs3_readdir_plus, is an error.
NoEntry(r) ==
  /\ rd[r].state = "fill" /\ rd[r].count = 0
  /\ Fail(r)
  /\ UNCHANGED <<stable, dir, next, gen, verf>>

\* Mutant of Offset: where the answer ended.
OffsetOfAnswer(b, k) == b[Len(b)].cookie

\* Mutant of Offset: the cookie the call was made with.
OffsetSame(b, k) == b[1].cookie - 1

\* The kernel goes on at the offset of the last entry it got.
Offset(b, k) == b[k].cookie

\* fuse_reply_buf.  An empty buffer is the end of the directory to the kernel.
Reply(r) ==
  LET b == rd[r].batch
      k == rd[r].count
  IN
  /\ rd[r].state = "fill" /\ ~Fits(rd[r])
  /\ IF k = 0 THEN End(r, "eof")
     ELSE Set(r, [rd[r] EXCEPT !.state = "call", !.off = Offset(b, k), !.batch = << >>,
                    !.plus = FALSE, !.count = 0, !.len = 0, !.more = FALSE,
                    !.seen = [n \in Name |->
                      IF (\E i \in 1 .. k : b[i].name = n) /\ @[n] < 2 THEN @[n] + 1 ELSE @[n]]])
  /\ UNCHANGED <<stable, dir, next, gen, verf>>

-----------------------------------------------------------------------------
Serve(r) == Call(r) \/ Store(r) \/ AddEntry(r) \/ NoEntry(r) \/ Reply(r)

Next ==
  \/ \E n \in Name : OtherAdd(n) \/ OtherRemove(n)
  \/ \E r \in Reader : Open(r)
  \/ \E r \in Reader : Serve(r)

\* A reader asks on until it is told the end or an error, as readdir(3) loops
\* do, and the daemon answers.
Spec == Init /\ [][Next]_vars /\ \A r \in Reader : WF_vars(Serve(r))

-----------------------------------------------------------------------------
(* Properties *)

\* A listing that reached the end returned every entry that the directory had
\* all the time exactly once, however the answers of the server and the
\* buffers of the kernel cut it.  Where the cookies are positions this needs
\* the verifier, and holds unless another reader of the directory, whose
\* verifier replaces this one's in the inode, came between.
ExactlyOnce ==
  \A r \in Reader :
    rd[r].state = "eof" /\ (stable \/ ~rd[r].shared) =>
      \A n \in rd[r].all : rd[r].seen[n] = 1

\* The empty buffer that means the end is sent only when the server had no
\* entries left: neither loop stops before its first entry.
EndIsEnd == \A r \in Reader : rd[r].state = "eof" => ~rd[r].more

\* The server rejects a cookie only when the directory changed since the
\* listing began, or another reader came between.
BadCookieExplained ==
  \A r \in Reader : rd[r].state = "bad_cookie" => gen # rd[r].gen \/ rd[r].shared

\* How a listing ends is right: at the end all was returned, once each, and an
\* error has its cause in the directory or in the verifier readers share.
ListingExact == ExactlyOnce /\ EndIsEnd /\ BadCookieExplained

\* Every listing comes to an end, once the directory stops growing.
ListingEnds == \A r \in Reader : rd[r].state = "call" ~> rd[r].state \in Ends

-----------------------------------------------------------------------------
(* The inductive invariant behind ListingExact *)

\* The server's directory: no name twice, lasting cookies in order.
Ordered ==
  /\ \A i, j \in DOMAIN dir : i < j => dir[i].cookie < dir[j].cookie
  /\ \A i, j \in DOMAIN dir : dir[i].name = dir[j].name => i = j
  /\ next # 0 /\ \A i \in DOMAIN dir : dir[i].cookie \in 1 .. next - 1

\* The cookies of listing x mean what they meant at its first call, ...
Lasting(x) == stable \/ x.gen = gen

\* ... and no other reader's verifier can stand in for its own.
Own(x) == stable \/ ~x.shared

\* What a listing is where.
Shape(x) ==
  /\ x.gen <= gen /\ x.bverf <= gen /\ x.all \subseteq Names
  /\ x.state \notin {"store", "fill"} => x.batch = << >>
  /\ x.count <= Len(x.batch) /\ (x.count = 0 => x.len = 0)
  /\ x.off = 0 => \A n \in Name : x.state \notin Ends => x.seen[n] = 0
  /\ \A k \in DOMAIN x.batch : x.batch[k].cookie > x.off
  /\ \A k, l \in DOMAIN x.batch : k < l => x.batch[k].cookie < x.batch[l].cookie
  /\ x.state \in {"store", "fill"} /\ x.more => x.batch # << >>

\* Positions are guarded by the verifier: the one in the inode is that of the
\* listing's first call.
Guarded(x) ==
  ~stable /\ ~x.shared =>
    /\ x.state \in {"call", "store"} /\ x.off # 0 => verf = x.gen
    /\ x.state = "store" => x.bverf = x.gen
    /\ x.state = "fill" => verf = x.gen

\* What was returned are the entries up to the offset.
Returned(x) ==
  x.state \in {"call", "store", "fill"} /\ Own(x) /\ Lasting(x) =>
    \A i \in DOMAIN dir :
      dir[i].name \in x.all => x.seen[dir[i].name] = IF Cookie(i) <= x.off THEN 1 ELSE 0

\* An answer has the entries from the offset on, without a gap; if it is empty
\* there are none.
Answer(x) ==
  x.state \in {"store", "fill"} /\ Own(x) =>
    /\ x.batch = << >> => \A n \in x.all : x.seen[n] = 1
    /\ Lasting(x) => \A i \in DOMAIN dir : dir[i].name \in x.all =>
         /\ \A k \in DOMAIN x.batch :
              x.batch[k].name = dir[i].name => x.batch[k].cookie = Cookie(i)
         /\ x.batch # << >> /\ x.off < Cookie(i) /\ Cookie(i) <= x.batch[Len(x.batch)].cookie =>
              \E k \in DOMAIN x.batch : x.batch[k] = Entry(i)

\* How it ended, as ListingExact has it.
Ended(x) ==
  /\ x.state = "eof" => ~x.more /\ (Own(x) => \A n \in x.all : x.seen[n] = 1)
  /\ x.state = "bad_cookie" => gen # x.gen \/ x.shared

Right(x) == Shape(x) /\ Guarded(x) /\ Returned(x) /\ Answer(x) /\ Ended(x)

IInv == TypeOK /\ Ordered /\ \A r \in Reader : Right(rd[r])
=============================================================================
