--------------------------- MODULE DirStreamProofs ---------------------------
(***************************************************************************)
(* Proof that listings end as ListingExact says, for any number of         *)
(* readers, any names and sizes of entries and any changes by other        *)
(* clients.                                                                *)
(***************************************************************************)
EXTENDS DirStream, TLAPS

Active == {"call", "store", "fill"}

DirEntry == [name : Name, cookie : Nat]

\* The elements of a sequence.
LEMMA Elements ==
  ASSUME NEW S, NEW s \in Seq(S)
  PROVE  Len(s) \in Nat /\ DOMAIN s = 1 .. Len(s) /\ \A i \in DOMAIN s : s[i] \in S
  OBVIOUS

\* The types of the fields of a listing.
LEMMA ListingFields ==
  ASSUME NEW x \in Listing
  PROVE  /\ x.off \in Nat /\ x.plus \in BOOLEAN /\ x.batch \in Seq(DirEntry)
         /\ x.bverf \in 0 .. MaxGen /\ x.count \in Nat /\ x.len \in 0 .. Buf
         /\ x.gen \in 0 .. MaxGen /\ x.all \in SUBSET Name /\ x.seen \in [Name -> 0 .. 2]
         /\ x.shared \in BOOLEAN /\ x.more \in BOOLEAN
  BY DEF Listing, DirEntry

\* The fields of a listing that has not begun.
LEMMA ClosedFields ==
  /\ Closed \in Listing
  /\ Closed.off = 0 /\ Closed.batch = << >> /\ Closed.bverf = 0 /\ Closed.count = 0
  /\ Closed.len = 0 /\ Closed.gen = 0 /\ Closed.all = {} /\ ~Closed.shared /\ ~Closed.more
  /\ \A n \in Name : Closed.seen[n] = 0
  BY BufAssumption DEF Closed, Listing, Ends

\* The server numbers the entries of a directory upwards from 1, with lasting
\* cookies or with positions.
LEMMA CookiesGrow ==
  ASSUME TypeOK, Ordered
  PROVE  /\ \A i \in DOMAIN dir : Cookie(i) \in Nat \ {0} /\ dir[i].name \in Name
         /\ \A i, j \in DOMAIN dir : i < j <=> Cookie(i) < Cookie(j)
<1>0. dir \in Seq(DirEntry) /\ next \in Nat
  BY DEF TypeOK, DirEntry
<1>1. \A i \in DOMAIN dir : i \in Nat \ {0} /\ dir[i] \in DirEntry
  BY <1>0, Elements
<1>2. \A i \in DOMAIN dir : dir[i].cookie \in Nat \ {0} /\ dir[i].name \in Name
  BY <1>0, <1>1 DEF Ordered, DirEntry
<1>3. \A i, j \in DOMAIN dir : i < j <=> dir[i].cookie < dir[j].cookie
  <2> SUFFICES ASSUME NEW i \in DOMAIN dir, NEW j \in DOMAIN dir
               PROVE  i < j <=> dir[i].cookie < dir[j].cookie
    OBVIOUS
  <2>1. i < j \/ i = j \/ j < i
    BY <1>1
  <2>2. (i < j => dir[i].cookie < dir[j].cookie) /\ (j < i => dir[j].cookie < dir[i].cookie)
    BY DEF Ordered
  <2> QED BY <1>1, <1>2, <2>1, <2>2
<1> QED BY <1>1, <1>2, <1>3 DEF Cookie

\* A listing that no step touches stays right while the directory and the
\* verifier stay the same.
LEMMA Untouched ==
  ASSUME NEW q \in Reader, UNCHANGED <<stable, dir, gen, verf>>, rd'[q] = rd[q], Right(rd[q])
  PROVE  Right(rd[q])'
  BY DEF Right, Shape, Guarded, Returned, Answer, Ended, Own, Lasting, Names, Cookie, Entry

\* A step of the daemon for one reader has to be looked at for that reader only.
LEMMA OneReader ==
  ASSUME IInv, NEW r \in Reader, UNCHANGED <<stable, dir, next, gen, verf>>,
         NEW x \in Listing, rd' = [rd EXCEPT ![r] = x], Right(rd[r])'
  PROVE  IInv'
<1>1. TypeOK'
  BY DEF IInv, TypeOK
<1>2. Ordered'
  BY DEF IInv, Ordered
<1>3. ASSUME NEW q \in Reader PROVE Right(rd[q])'
  <2>1. CASE q = r
    BY <2>1
  <2>2. CASE q # r
    <3>1. rd'[q] = rd[q]
      BY <2>2 DEF IInv, TypeOK
    <3> QED BY <3>1, Untouched DEF IInv
  <2> QED BY <2>1, <2>2
<1> QED BY <1>1, <1>2, <1>3 DEF IInv

-----------------------------------------------------------------------------
\* A listing that ends has nothing left to be right about but its end.
LEMMA EndKeeps ==
  ASSUME IInv, NEW r \in Reader, NEW how \in {"eof", "bad_cookie"}, End(r, how),
         UNCHANGED <<stable, dir, next, gen, verf>>,
         how = "eof" => ~rd[r].more /\ (Own(rd[r]) => \A n \in rd[r].all : rd[r].seen[n] = 1),
         how = "bad_cookie" => gen # rd[r].gen \/ rd[r].shared
  PROVE  IInv'
<1> DEFINE x == rd[r]
           y == [Closed EXCEPT !.state = how, !.gen = x.gen, !.all = x.all,
                               !.seen = x.seen, !.shared = x.shared, !.more = x.more]
<1>1. rd \in [Reader -> Listing] /\ x \in Listing /\ Right(x)
  BY DEF IInv, TypeOK
<1>2. rd' = [rd EXCEPT ![r] = y] /\ rd'[r] = y
  BY <1>1 DEF End, Set
<1>3. /\ y.state = how /\ y.gen = x.gen /\ y.all = x.all /\ y.seen = x.seen
      /\ y.shared = x.shared /\ y.more = x.more
      /\ y.off = 0 /\ y.batch = << >> /\ y.bverf = 0 /\ y.count = 0 /\ y.len = 0
  BY DEF Closed
<1>4. y \in Listing
  <2>1. /\ x.gen \in 0 .. MaxGen /\ x.all \in SUBSET Name /\ x.seen \in [Name -> 0 .. 2]
        /\ x.shared \in BOOLEAN /\ x.more \in BOOLEAN
    BY <1>1, ListingFields, Zenon
  <2>2. how \in Ends
    BY DEF Ends
  <2> HIDE DEF x
  <2>3. Closed \in Listing
    BY ClosedFields
  <2> QED BY <2>1, <2>2, <2>3, Zenon DEF Listing
<1> HIDE DEF y
<1>5. Shape(rd[r])'
  BY <1>1, <1>2, <1>3 DEF Right, Shape, Listing, Ends, Names, TypeOK, IInv
<1>6. (Guarded(rd[r]) /\ Returned(rd[r]) /\ Answer(rd[r]))'
  BY <1>2, <1>3 DEF Guarded, Returned, Answer
<1>7. Ended(rd[r])'
  BY <1>2, <1>3 DEF Ended, Own
<1> QED BY <1>2, <1>4, <1>5, <1>6, <1>7, OneReader, Zenon DEF Right

\* A listing that failed, or begins, is right.
LEMMA FreshKeeps ==
  ASSUME IInv, NEW r \in Reader, NEW s \in {"call", "error"},
         rd' = [rd EXCEPT ![r] = [Closed EXCEPT !.state = s]],
         UNCHANGED <<stable, dir, next, gen, verf>>
  PROVE  IInv'
<1> DEFINE y == [Closed EXCEPT !.state = s]
<1>1. rd \in [Reader -> Listing] /\ gen \in Nat
  BY BufAssumption DEF IInv, TypeOK
<1>2. rd'[r] = y
  BY <1>1
<1>3. /\ y.state = s /\ y.off = 0 /\ y.batch = << >> /\ y.bverf = 0 /\ y.count = 0
      /\ y.len = 0 /\ y.gen = 0 /\ y.all = {} /\ ~y.shared /\ ~y.more
      /\ \A n \in Name : y.seen[n] = 0
  BY DEF Closed
<1>4. y \in Listing
  BY ClosedFields, Zenon DEF Listing, Closed, Ends
<1> HIDE DEF y
<1>5. Shape(rd[r])'
  <2>1. y.gen <= gen' /\ y.bverf <= gen' /\ y.count <= Len(y.batch) /\ DOMAIN y.batch = {}
    BY <1>1, <1>3
  <2> QED BY <1>2, <1>3, <2>1, Zenon DEF Shape
<1>6. (Guarded(rd[r]) /\ Returned(rd[r]) /\ Answer(rd[r]) /\ Ended(rd[r]))'
  BY <1>2, <1>3, Zenon DEF Guarded, Returned, Answer, Ended
<1>7. rd' = [rd EXCEPT ![r] = y]
  BY DEF y
<1> QED BY <1>4, <1>5, <1>6, <1>7, OneReader, Zenon DEF Right

-----------------------------------------------------------------------------
\* The server's answer to an accepted call has the entries after the offset
\* without a gap, and an empty one means that everything was returned.
LEMMA AcceptedKeeps ==
  ASSUME IInv, NEW r \in Reader, rd[r].state = "call",
         stable \/ rd[r].off = 0 \/ verf = gen,
         NEW plus \in BOOLEAN, NEW m \in 0 .. Len(dir), NEW n \in 0 .. Len(dir),
         \A i \in DOMAIN dir : Cookie(i) > rd[r].off <=> i > m,
         m < n \/ (m = n /\ n = Len(dir)),
         UNCHANGED <<stable, dir, next, gen, verf>>,
         Set(r, [rd[r] EXCEPT !.state = "store", !.plus = plus,
                              !.batch = [i \in 1 .. n - m |-> Entry(m + i)],
                              !.bverf = gen, !.more = m < Len(dir),
                              !.gen = IF rd[r].off = 0 THEN gen ELSE @,
                              !.all = IF rd[r].off = 0 THEN Names ELSE @,
                              !.shared = ~(rd[r].off = 0) /\ @])
  PROVE  IInv'
<1> DEFINE x == rd[r]
           b == [i \in 1 .. n - m |-> Entry(m + i)]
           g == IF x.off = 0 THEN gen ELSE x.gen
           a == IF x.off = 0 THEN Names ELSE x.all
           h == ~(x.off = 0) /\ x.shared
           y == [x EXCEPT !.state = "store", !.plus = plus, !.batch = b, !.bverf = gen,
                          !.more = m < Len(dir), !.gen = g, !.all = a, !.shared = h]
<1>1. rd \in [Reader -> Listing] /\ x \in Listing /\ Right(x)
  BY DEF IInv, TypeOK
<1>2. rd' = [rd EXCEPT ![r] = y] /\ rd'[r] = y
  BY <1>1 DEF Set
<1>3. /\ y.state = "store" /\ y.off = x.off /\ y.batch = b /\ y.bverf = gen
      /\ y.count = x.count /\ y.len = x.len /\ y.gen = g /\ y.all = a /\ y.seen = x.seen
      /\ y.shared = h /\ y.more = (m < Len(dir))
  BY <1>1 DEF Listing
<1>4. /\ \A i \in DOMAIN dir : Cookie(i) \in Nat \ {0} /\ dir[i].name \in Name
      /\ \A i, j \in DOMAIN dir : i < j <=> Cookie(i) < Cookie(j)
  BY CookiesGrow DEF IInv
<1>5. dir \in Seq(DirEntry) /\ DOMAIN dir = 1 .. Len(dir) /\ Len(dir) \in Nat
  BY DEF IInv, TypeOK, DirEntry
<1>6. /\ Len(b) = n - m /\ DOMAIN b = 1 .. n - m /\ n - m \in Nat
      /\ \A k \in 1 .. n - m : /\ m + k \in DOMAIN dir /\ b[k] = Entry(m + k)
                               /\ b[k].name = dir[m + k].name /\ b[k].cookie = Cookie(m + k)
  BY <1>5 DEF Entry
<1>7. b \in Seq(DirEntry)
  <2>1. \A i \in 1 .. n - m : Entry(m + i) \in DirEntry
    BY <1>4, <1>5 DEF Entry, DirEntry
  <2>2. b \in [1 .. n - m -> DirEntry]
    BY <2>1
  <2> QED BY <2>2, <1>6
<1>8. /\ x.off \in Nat /\ x.gen \in Nat /\ gen \in Nat /\ x.count = 0 /\ x.len = 0
      /\ g \in 0 .. MaxGen /\ gen \in 0 .. MaxGen /\ a \subseteq Name /\ h \in BOOLEAN
  <2>1. gen \in 0 .. MaxGen /\ MaxGen \in Nat
    BY BufAssumption DEF IInv, TypeOK
  <2>2. x.batch = << >> /\ x.count <= Len(x.batch) /\ (x.count = 0 => x.len = 0)
    BY <1>1 DEF Right, Shape
  <2>3. Names \subseteq Name
    BY <1>4 DEF Names
  <2> QED BY <2>1, <2>2, <2>3, <1>1, ListingFields
<1>9. y \in Listing
  <2> DEFINE o == m < Len(dir)
  <2>1. o \in BOOLEAN /\ a \in SUBSET Name
    BY <1>8
  <2> HIDE DEF x, b, g, a, h, o
  <2>2. [x EXCEPT !.state = "store", !.plus = plus, !.batch = b, !.bverf = gen,
                  !.more = o, !.gen = g, !.all = a, !.shared = h] \in Listing
    BY <2>1, <1>1, <1>7, <1>8, Zenon DEF Listing, DirEntry
  <2> QED BY <2>2 DEF o
<1> HIDE DEF y, b, g, a, h
<1>10. Shape(rd[r])'
  <2>1. y.gen <= gen' /\ y.bverf <= gen' /\ y.all \subseteq Names'
    <3>1. Names' = Names
      BY DEF Names
    <3> QED BY <1>1, <1>3, <1>8, <3>1 DEF Right, Shape, g, a
  <2>2. y.count <= Len(y.batch) /\ y.len = 0
    BY <1>3, <1>6, <1>8
  <2>3. y.off = 0 => \A t \in Name : y.seen[t] = 0
    BY <1>1, <1>3 DEF Right, Shape, Ends
  <2>4. \A k \in DOMAIN y.batch : y.batch[k].cookie > y.off
    BY <1>3, <1>5, <1>6
  <2>5. \A k, l \in DOMAIN y.batch : k < l => y.batch[k].cookie < y.batch[l].cookie
    BY <1>3, <1>4, <1>5, <1>6
  <2>6. y.more => y.batch # << >>
    <3>1. m < Len(dir) => Len(b) # 0
      BY <1>5, <1>6
    <3>2. b = << >> => Len(b) = 0
      OBVIOUS
    <3> QED BY <1>3, <3>1, <3>2, Zenon
  <2> QED BY <1>2, <1>3, <2>1, <2>2, <2>3, <2>4, <2>5, <2>6 DEF Shape
<1>11. x.off # 0 => g = x.gen /\ a = x.all /\ (h <=> x.shared)
  BY <1>1 DEF g, a, h, Listing
<1>12. x.off = 0 => g = gen /\ a = Names /\ ~h
  BY DEF g, a, h
<1>13. ~stable /\ ~h => g = gen
  BY <1>1, <1>11, <1>12 DEF Right, Guarded
<1>14. Guarded(rd[r])'
  BY <1>2, <1>3, <1>13, <1>1, <1>11, <1>12 DEF Guarded, Right
<1>15. (stable \/ ~h) => \A i \in DOMAIN dir :
         dir[i].name \in a => x.seen[dir[i].name] = IF Cookie(i) <= x.off THEN 1 ELSE 0
  <2> SUFFICES ASSUME stable \/ ~h, NEW i \in DOMAIN dir, dir[i].name \in a
               PROVE  x.seen[dir[i].name] = IF Cookie(i) <= x.off THEN 1 ELSE 0
    OBVIOUS
  <2>1. CASE x.off = 0
    BY <2>1, <1>1, <1>4, <1>8 DEF Right, Shape, Ends
  <2>2. CASE x.off # 0
    BY <2>2, <1>1, <1>11, <1>13 DEF Right, Returned, Own, Lasting
  <2> QED BY <2>1, <2>2
<1>16. Returned(rd[r])'
  BY <1>2, <1>3, <1>15 DEF Returned, Own, Cookie
<1>17. Answer(rd[r])'
  <2> SUFFICES ASSUME stable \/ ~h
               PROVE  /\ b = << >> => \A t \in a : x.seen[t] = 1
                      /\ \A i \in DOMAIN dir : dir[i].name \in a =>
                           /\ \A k \in DOMAIN b : b[k].name = dir[i].name => b[k].cookie = Cookie(i)
                           /\ b # << >> /\ x.off < Cookie(i) /\ Cookie(i) <= b[Len(b)].cookie =>
                                \E k \in DOMAIN b : b[k] = Entry(i)
    BY <1>2, <1>3 DEF Answer, Own, Cookie, Entry
  <2>1. ASSUME b = << >>, NEW t \in a PROVE x.seen[t] = 1
    <3>1. m = Len(dir)
      BY <2>1, <1>5, <1>6
    <3>2. PICK i \in DOMAIN dir : dir[i].name = t
      BY <1>1, <2>1 DEF a, Right, Shape, Names
    <3>3. Cookie(i) <= x.off
      BY <3>1, <1>4, <1>5, <1>8
    <3> QED BY <3>2, <3>3, <2>1, <1>15
  <2>2. ASSUME NEW i \in DOMAIN dir, NEW k \in DOMAIN b, b[k].name = dir[i].name
        PROVE  b[k].cookie = Cookie(i)
    BY <2>2, <1>6 DEF IInv, Ordered
  <2>3. ASSUME NEW i \in DOMAIN dir, b # << >>, x.off < Cookie(i), Cookie(i) <= b[Len(b)].cookie
        PROVE  \E k \in DOMAIN b : b[k] = Entry(i)
    <3>1. n - m # 0
      BY <2>3, <1>6
    <3>2. m < i /\ b[Len(b)].cookie = Cookie(n) /\ n \in DOMAIN dir
      <4>1. n - m \in 1 .. n - m /\ m + (n - m) = n
        BY <3>1, <1>6
      <4>2. m < i
        BY <2>3, <1>4, <1>5, <1>8
      <4> QED BY <4>1, <4>2, <1>6
    <3>3. i <= n
      BY <3>2, <2>3, <1>4, <1>5
    <3>4. i - m \in 1 .. n - m /\ m + (i - m) = i
      BY <3>2, <3>3, <1>5
    <3> QED BY <3>4, <1>6
  <2> QED BY <2>1, <2>2, <2>3
<1>18. Ended(rd[r])'
  BY <1>2, <1>3 DEF Ended
<1> QED BY <1>2, <1>9, <1>10, <1>14, <1>16, <1>17, <1>18, OneReader, Zenon DEF Right

\* A READDIR call, however it ends: the positions of a changed directory are
\* rejected, unless the verifier in the inode is another reader's.
LEMMA CallKeeps ==
  ASSUME IInv, NEW r \in Reader, Call(r)
  PROVE  IInv'
<1>1. UNCHANGED <<stable, dir, next, gen, verf>> /\ rd[r].state = "call" /\ Right(rd[r])
  BY Zenon DEF Call, IInv
<1>2. CASE Fail(r)
  BY <1>1, <1>2, FreshKeeps, Zenon DEF Fail, Set
<1>3. CASE ~stable /\ rd[r].off # 0 /\ verf # gen /\ End(r, "bad_cookie")
  <2>1. gen # rd[r].gen \/ rd[r].shared
    BY <1>1, <1>3 DEF Right, Guarded
  <2> QED BY <1>1, <1>3, <2>1, EndKeeps
<1>4. CASE /\ stable \/ rd[r].off = 0 \/ verf = gen
           /\ \E plus \in BOOLEAN, m, n \in 0 .. Len(dir) :
                /\ \A i \in DOMAIN dir : Cookie(i) > rd[r].off <=> i > m
                /\ m < n \/ (m = n /\ n = Len(dir))
                /\ Set(r, [rd[r] EXCEPT !.state = "store", !.plus = plus,
                              !.batch = [i \in 1 .. n - m |-> Entry(m + i)],
                              !.bverf = gen, !.more = m < Len(dir),
                              !.gen = IF rd[r].off = 0 THEN gen ELSE @,
                              !.all = IF rd[r].off = 0 THEN Names ELSE @,
                              !.shared = ~(rd[r].off = 0) /\ @])
  BY <1>1, <1>4, AcceptedKeeps, Zenon
<1> QED BY <1>1, <1>2, <1>3, <1>4, ZenonT(30) DEF Call

-----------------------------------------------------------------------------
\* Storing the verifier marks every other listing that is under way: with
\* positions for cookies nothing is claimed of it any more.
LEMMA StoreKeeps ==
  ASSUME IInv, NEW r \in Reader, Store(r)
  PROVE  IInv'
<1>1. UNCHANGED <<stable, dir, next, gen>> /\ rd[r].state = "store" /\ rd \in [Reader -> Listing]
  BY DEF Store, IInv, TypeOK
<1>2. CASE Fail(r) /\ UNCHANGED verf
  BY <1>1, <1>2, FreshKeeps, Zenon DEF Fail, Set
<1>3. CASE /\ verf' = rd[r].bverf
           /\ rd' = [x \in Reader |->
                       IF x = r THEN [rd[r] EXCEPT !.state = "fill", !.bverf = 0]
                       ELSE [rd[x] EXCEPT !.shared = @ \/ rd[x].state \notin Ends]]
  <2>1. ASSUME NEW q \in Reader, q # r
        PROVE  rd'[q] \in Listing /\ Right(rd[q])'
    <3> DEFINE x == rd[q]
               h == x.shared \/ x.state \notin Ends
               y == [x EXCEPT !.shared = h]
    <3>1. x \in Listing /\ Right(x) /\ rd'[q] = y
      BY <1>1, <1>3, <2>1 DEF IInv
    <3>2. h \in BOOLEAN
      BY <3>1, ListingFields
    <3> HIDE DEF x, h
    <3>3. y \in Listing
      BY <3>1, <3>2, Zenon DEF Listing
    <3>4. /\ y.state = x.state /\ y.off = x.off /\ y.batch = x.batch /\ y.bverf = x.bverf
          /\ y.count = x.count /\ y.len = x.len /\ y.gen = x.gen /\ y.all = x.all
          /\ y.seen = x.seen /\ y.more = x.more /\ y.shared = h
      BY <3>1 DEF Listing
    <3> HIDE DEF y
    <3>5. Shape(rd[q])'
      BY <1>1, <3>1, <3>4 DEF Right, Shape, Names
    <3>6. CASE x.state \in Ends
      <4>1. h <=> x.shared
        BY <3>6 DEF h
      <4>2. (Guarded(rd[q]) /\ Returned(rd[q]) /\ Answer(rd[q]))'
        BY <3>1, <3>4, <3>6 DEF Guarded, Returned, Answer, Ends
      <4>3. Ended(rd[q])'
        BY <1>1, <3>1, <3>4, <4>1 DEF Right, Ended, Own
      <4> QED BY <3>1, <3>3, <3>5, <4>2, <4>3 DEF Right
    <3>7. CASE x.state \notin Ends
      <4>1. h
        BY <3>7 DEF h
      <4>2. (Guarded(rd[q]) /\ Ended(rd[q]))'
        BY <3>1, <3>4, <3>7, <4>1 DEF Guarded, Ended, Ends
      <4>3. (Returned(rd[q]) /\ Answer(rd[q]))'
        BY <1>1, <3>1, <3>4, <4>1 DEF Right, Returned, Answer, Own, Lasting, Cookie, Entry
      <4> QED BY <3>1, <3>3, <3>5, <4>2, <4>3 DEF Right
    <3> QED BY <3>6, <3>7
  <2>2. rd'[r] \in Listing /\ Right(rd[r])' /\ verf' \in 0 .. MaxGen
    <3> DEFINE x == rd[r]
               y == [x EXCEPT !.state = "fill", !.bverf = 0]
    <3>1. x \in Listing /\ Right(x) /\ rd'[r] = y /\ verf' = x.bverf /\ x.state = "store"
      BY <1>1, <1>3 DEF IInv
    <3>2. gen \in Nat /\ 0 \in 0 .. MaxGen
      BY BufAssumption DEF IInv, TypeOK
    <3> HIDE DEF x
    <3>3. y \in Listing
      BY <3>1, <3>2, Zenon DEF Listing
    <3>4. /\ y.state = "fill" /\ y.off = x.off /\ y.batch = x.batch /\ y.bverf = 0
          /\ y.count = x.count /\ y.len = x.len /\ y.gen = x.gen /\ y.all = x.all
          /\ y.seen = x.seen /\ y.more = x.more /\ y.shared = x.shared
      BY <3>1 DEF Listing
    <3> HIDE DEF y
    <3>5. Shape(rd[r])'
      BY <1>1, <3>1, <3>2, <3>4 DEF Right, Shape, Names, Ends
    <3>6. (Guarded(rd[r]) /\ Ended(rd[r]))'
      BY <1>1, <3>1, <3>4 DEF Right, Guarded, Ended
    <3>7. (Returned(rd[r]) /\ Answer(rd[r]))'
      BY <1>1, <3>1, <3>4 DEF Right, Returned, Answer, Own, Lasting, Cookie, Entry
    <3>8. x.bverf \in 0 .. MaxGen
      BY <3>1, ListingFields
    <3> QED BY <3>1, <3>3, <3>5, <3>6, <3>7, <3>8 DEF Right
  <2>3. \A q \in Reader : rd'[q] \in Listing /\ Right(rd[q])'
    BY <2>1, <2>2
  <2>4. DOMAIN rd' = Reader /\ rd' = [q \in Reader |-> rd'[q]]
    BY <1>3
  <2>5. TypeOK'
    BY <1>1, <2>2, <2>3, <2>4 DEF IInv, TypeOK
  <2>6. Ordered'
    BY <1>1 DEF IInv, Ordered
  <2> QED BY <2>3, <2>5, <2>6 DEF IInv
<1> QED BY <1>1, <1>2, <1>3 DEF Store

-----------------------------------------------------------------------------
\* An entry goes into the buffer only if some room is left after it.
LEMMA AddEntryKeeps ==
  ASSUME IInv, NEW r \in Reader, AddEntry(r)
  PROVE  IInv'
<1> DEFINE x == rd[r]
           c == x.count + 1
           l == x.len + Res(x)
           y == [x EXCEPT !.count = c, !.len = l]
<1>1. /\ UNCHANGED <<stable, dir, next, gen, verf>> /\ x.state = "fill" /\ Fits(x)
      /\ rd \in [Reader -> Listing] /\ x \in Listing /\ Right(x)
  BY DEF AddEntry, IInv, TypeOK
<1>2. rd' = [rd EXCEPT ![r] = y] /\ rd'[r] = y
  BY <1>1 DEF AddEntry, Set
<1>3. x.count \in Nat /\ x.len \in 0 .. Buf /\ x.batch \in Seq(DirEntry) /\ Buf \in Nat
  BY <1>1, ListingFields, BufAssumption
<1>4. x.count < Len(x.batch) /\ Res(x) < Buf - x.len
  BY <1>1 DEF Fits
<1>5. x.batch[x.count + 1].name \in Name
  <2>1. x.count + 1 \in DOMAIN x.batch
    BY <1>3, <1>4
  <2>2. x.batch[x.count + 1] \in DirEntry
    BY <2>1, <1>3, Elements
  <2> QED BY <2>2 DEF DirEntry
<1>6. Res(x) \in Nat
  BY <1>5, BufAssumption DEF Res
<1>7. c \in Nat /\ l \in 0 .. Buf /\ c # 0 /\ c <= Len(x.batch)
  BY <1>3, <1>4, <1>6
<1> HIDE DEF x, c, l
<1>8. y \in Listing
  BY <1>1, <1>7, Zenon DEF Listing
<1>9. /\ y.state = x.state /\ y.off = x.off /\ y.batch = x.batch /\ y.bverf = x.bverf
      /\ y.count = c /\ y.len = l /\ y.gen = x.gen /\ y.all = x.all
      /\ y.seen = x.seen /\ y.more = x.more /\ y.shared = x.shared
  BY <1>1 DEF Listing
<1> HIDE DEF y
<1>10. Shape(rd[r])'
  BY <1>1, <1>2, <1>7, <1>9 DEF Right, Shape, Names
<1>11. (Guarded(rd[r]) /\ Ended(rd[r]))'
  BY <1>1, <1>2, <1>9 DEF Right, Guarded, Ended, Own
<1>12. (Returned(rd[r]) /\ Answer(rd[r]))'
  BY <1>1, <1>2, <1>9 DEF Right, Returned, Answer, Own, Lasting, Cookie, Entry
<1> QED BY <1>1, <1>2, <1>8, <1>10, <1>11, <1>12, OneReader, Zenon DEF Right

\* A listing that fails before its first entry.
LEMMA NoEntryKeeps ==
  ASSUME IInv, NEW r \in Reader, NoEntry(r)
  PROVE  IInv'
  BY FreshKeeps, Zenon DEF NoEntry, Fail, Set

\* The empty buffer: the kernel's buffer has room for any one entry, so that
\* the server's answer was empty.
LEMMA EmptyReplyKeeps ==
  ASSUME IInv, NEW r \in Reader, Reply(r), rd[r].count = 0
  PROVE  IInv'
<1> DEFINE x == rd[r]
<1>1. /\ UNCHANGED <<stable, dir, next, gen, verf>> /\ x.state = "fill" /\ ~Fits(x)
      /\ End(r, "eof") /\ x \in Listing /\ Right(x)
  BY DEF Reply, IInv, TypeOK
<1>2. x.batch = << >>
  <2>1. x.batch \in Seq(DirEntry) /\ x.len = 0
    BY <1>1, ListingFields DEF Right, Shape
  <2>2. ASSUME Len(x.batch) # 0 PROVE FALSE
    <3>1. 1 \in DOMAIN x.batch
      BY <2>1, <2>2
    <3>2. x.batch[1] \in DirEntry
      BY <3>1, <2>1, Elements
    <3>3. x.batch[1].name \in Name
      BY <3>2 DEF DirEntry
    <3>4. Res(x) = Size[x.batch[1].name] + (IF x.plus THEN Plus ELSE 0)
      BY DEF Res
    <3>5. Res(x) < Buf
      BY <3>3, <3>4, BufAssumption
    <3> QED BY <1>1, <2>1, <2>2, <3>5, BufAssumption DEF Fits
  <2> QED BY <2>1, <2>2
<1>3. ~x.more
  BY <1>1, <1>2 DEF Right, Shape
<1>4. Own(x) => \A n \in x.all : x.seen[n] = 1
  BY <1>1, <1>2 DEF Right, Answer
<1> QED BY <1>1, <1>3, <1>4, EndKeeps

\* A reply with entries counts each of them once: the ones of the answer come
\* after the offset, and the kernel goes on after the last one it was given.
LEMMA FullReplyKeeps ==
  ASSUME IInv, NEW r \in Reader, Reply(r), rd[r].count # 0
  PROVE  IInv'
<1> DEFINE x == rd[r]
           b == x.batch
           k == x.count
           o == b[k].cookie
           t == [n \in Name |->
                   IF (\E i \in 1 .. k : b[i].name = n) /\ x.seen[n] < 2 THEN x.seen[n] + 1
                   ELSE x.seen[n]]
           y == [x EXCEPT !.state = "call", !.off = o, !.batch = << >>, !.plus = FALSE,
                          !.count = 0, !.len = 0, !.more = FALSE, !.seen = t]
<1>1. /\ UNCHANGED <<stable, dir, next, gen, verf>> /\ x.state = "fill"
      /\ rd \in [Reader -> Listing] /\ x \in Listing /\ Right(x)
  BY DEF Reply, IInv, TypeOK
<1>2. rd' = [rd EXCEPT ![r] = y] /\ rd'[r] = y
  BY <1>1 DEF Reply, Set, Offset
<1>3. /\ b \in Seq(DirEntry) /\ k \in Nat /\ x.off \in Nat /\ x.seen \in [Name -> 0 .. 2]
      /\ x.gen \in Nat /\ x.bverf \in Nat
  BY <1>1, ListingFields, BufAssumption
<1>4. k \in DOMAIN b /\ 1 .. k \subseteq DOMAIN b
  BY <1>1, <1>3 DEF Right, Shape
<1>5. \A i \in DOMAIN b : b[i].cookie \in Nat /\ b[i].name \in Name /\ b[i].cookie > x.off
  <2>1. \A i \in DOMAIN b : b[i] \in DirEntry
    BY <1>3, Elements
  <2>2. \A i \in DOMAIN b : b[i].cookie > x.off
    BY <1>1 DEF Right, Shape
  <2> HIDE DEF b, x
  <2> QED BY <2>1, <2>2 DEF DirEntry
<1>6. \A i, j \in DOMAIN b : i < j => b[i].cookie < b[j].cookie
  BY <1>1 DEF Right, Shape
<1>7. o \in Nat /\ o > x.off /\ o # 0
  BY <1>3, <1>4, <1>5
<1>8. t \in [Name -> 0 .. 2]
  BY <1>3
<1>9. \A n \in Name : t[n] = IF (\E i \in 1 .. k : b[i].name = n) /\ x.seen[n] < 2
                              THEN x.seen[n] + 1 ELSE x.seen[n]
  OBVIOUS
<1>10. 0 \in 0 .. Buf /\ << >> \in Seq(DirEntry)
  BY BufAssumption
<1> HIDE DEF x, b, k, o, t
<1>11. y \in Listing
  BY <1>1, <1>7, <1>8, <1>10, Zenon DEF Listing, DirEntry
<1>12. /\ y.state = "call" /\ y.off = o /\ y.batch = << >> /\ y.bverf = x.bverf
       /\ y.count = 0 /\ y.len = 0 /\ y.gen = x.gen /\ y.all = x.all
       /\ y.seen = t /\ ~y.more /\ y.shared = x.shared
  BY <1>1 DEF Listing
<1> HIDE DEF y
<1>13. Shape(rd[r])'
  BY <1>1, <1>2, <1>7, <1>12 DEF Right, Shape, Names
<1>14. (Guarded(rd[r]) /\ Answer(rd[r]) /\ Ended(rd[r]))'
  BY <1>1, <1>2, <1>12 DEF Right, Guarded, Answer, Ended
<1>15. ASSUME Own(x), Lasting(x), NEW i \in DOMAIN dir, dir[i].name \in x.all
       PROVE  t[dir[i].name] = IF Cookie(i) <= o THEN 1 ELSE 0
  <2>1. Cookie(i) \in Nat /\ dir[i].name \in Name
    BY CookiesGrow DEF IInv
  <2>2. x.seen[dir[i].name] = IF Cookie(i) <= x.off THEN 1 ELSE 0
    BY <1>1, <1>15 DEF Right, Returned
  <2>3. CASE \E j \in 1 .. k : b[j].name = dir[i].name
    <3>1. PICK j \in 1 .. k : b[j].name = dir[i].name
      BY <2>3
    <3>2. j \in DOMAIN b /\ j <= k /\ j \in Nat
      BY <1>3, <1>4
    <3>3. b[j].cookie = Cookie(i)
      BY <1>1, <1>15, <3>1, <3>2 DEF Right, Answer, b
    <3>4. Cookie(i) <= o
      <4>1. CASE j = k
        BY <4>1, <3>3, <2>1 DEF o
      <4>2. CASE j # k
        BY <4>2, <3>2, <3>3, <1>3, <1>4, <1>6, <1>7, <2>1 DEF o
      <4> QED BY <4>1, <4>2
    <3>5. x.seen[dir[i].name] = 0
      BY <2>1, <2>2, <3>2, <3>3, <1>3, <1>5
    <3>6. t[dir[i].name] = 1
      BY <1>9, <2>1, <2>3, <3>5
    <3> QED BY <3>4, <3>6
  <2>4. CASE ~ \E j \in 1 .. k : b[j].name = dir[i].name
    <3>1. t[dir[i].name] = x.seen[dir[i].name]
      BY <1>9, <2>1, <2>4
    <3>2. CASE Cookie(i) <= x.off
      BY <3>1, <3>2, <2>1, <2>2, <1>3, <1>7
    <3>3. CASE x.off < Cookie(i)
      <4>1. Cookie(i) > o
        <5>1. SUFFICES ASSUME Cookie(i) <= o PROVE FALSE
          BY <1>7, <2>1
        <5>2. b # << >> /\ Len(b) \in DOMAIN b /\ k <= Len(b) /\ Len(b) \in Nat
          BY <1>3, <1>4
        <5>3. o <= b[Len(b)].cookie
          <6>1. CASE k = Len(b)
            BY <6>1, <1>7 DEF o
          <6>2. CASE k # Len(b)
            BY <6>2, <5>2, <1>3, <1>4, <1>5, <1>6 DEF o
          <6> QED BY <6>1, <6>2
        <5>4. b[Len(b)].cookie \in Nat
          BY <5>2, <1>5
        <5>5. Cookie(i) <= b[Len(b)].cookie
          BY <5>1, <5>3, <5>4, <1>7, <2>1
        <5>6. PICK j \in DOMAIN b : b[j] = Entry(i)
          BY <1>1, <1>15, <3>3, <5>2, <5>5 DEF Right, Answer, b
        <5>7. b[j].name = dir[i].name /\ b[j].cookie = Cookie(i)
          BY <5>6 DEF Entry
        <5>8. j \in Nat /\ 1 <= j /\ j > k
          BY <5>7, <2>4, <1>3
        <5>9. b[j].cookie > o
          BY <5>8, <1>3, <1>4, <1>5, <1>6 DEF o
        <5> QED BY <5>1, <5>7, <5>9, <1>7, <2>1
      <4> QED BY <3>1, <3>3, <4>1, <2>1, <2>2, <1>3, <1>7
    <3> QED BY <3>2, <3>3, <2>1, <1>3
  <2> QED BY <2>3, <2>4
<1>16. Returned(rd[r])'
  <2> SUFFICES ASSUME Own(x), Lasting(x)
               PROVE  \A i \in DOMAIN dir : dir[i].name \in x.all =>
                        t[dir[i].name] = IF Cookie(i) <= o THEN 1 ELSE 0
    BY <1>1, <1>2, <1>12 DEF Returned, Own, Lasting, Cookie
  <2> QED BY <1>15
<1> QED BY <1>1, <1>2, <1>11, <1>13, <1>14, <1>16, OneReader, Zenon DEF Right

-----------------------------------------------------------------------------
\* Another client adds an entry: it is none that a listing has to return, and
\* positions are no longer taken at their word.
LEMMA OtherAddKeeps ==
  ASSUME IInv, NEW n \in Name, OtherAdd(n)
  PROVE  IInv'
<1>1. /\ dir \in Seq(DirEntry) /\ next \in Nat /\ gen \in 0 .. MaxGen /\ gen' = gen + 1
      /\ gen < MaxGen /\ n \notin Names /\ next' = next + 1 /\ UNCHANGED <<stable, verf, rd>>
      /\ dir' = Append(dir, [name |-> n, cookie |-> next]) /\ MaxGen \in Nat
  BY BufAssumption DEF OtherAdd, IInv, TypeOK, DirEntry
<1>2. /\ Len(dir') = Len(dir) + 1 /\ DOMAIN dir' = 1 .. Len(dir) + 1 /\ Len(dir) \in Nat
      /\ DOMAIN dir = 1 .. Len(dir) /\ \A i \in DOMAIN dir : dir'[i] = dir[i]
      /\ dir'[Len(dir) + 1] = [name |-> n, cookie |-> next]
  BY <1>1
<1>3. dir'[Len(dir) + 1].name = n /\ dir'[Len(dir) + 1].cookie = next
  BY <1>2
<1>4. TypeOK'
  <2>1. [name |-> n, cookie |-> next] \in DirEntry
    BY <1>1 DEF DirEntry
  <2>2. dir' \in Seq(DirEntry)
    BY <1>1, <2>1
  <2> QED BY <1>1, <2>2 DEF IInv, TypeOK, DirEntry
<1>5. \A i \in DOMAIN dir' : i \in DOMAIN dir \/ i = Len(dir) + 1
  BY <1>2
<1>6. \A i \in DOMAIN dir : dir[i].name # n
  BY <1>1 DEF Names
<1>7. Ordered'
  <2>1. \A i \in DOMAIN dir : dir[i].cookie \in 1 .. next - 1
    BY DEF IInv, Ordered
  <2>2. \A i \in DOMAIN dir' : dir'[i].cookie \in 1 .. next' - 1
    <3>1. next # 0
      BY DEF IInv, Ordered
    <3> QED BY <1>1, <1>2, <1>3, <1>5, <2>1, <3>1
  <2>3. \A i, j \in DOMAIN dir' : i < j => dir'[i].cookie < dir'[j].cookie
    BY <1>1, <1>2, <1>3, <1>5, <2>1 DEF IInv, Ordered
  <2>4. \A i, j \in DOMAIN dir' : dir'[i].name = dir'[j].name => i = j
    BY <1>2, <1>3, <1>5, <1>6 DEF IInv, Ordered
  <2>5. next' # 0
    BY <1>1
  <2> QED BY <2>2, <2>3, <2>4, <2>5 DEF Ordered
<1>8. ASSUME NEW q \in Reader PROVE Right(rd[q])'
  <2>1. Right(rd[q]) /\ rd'[q] = rd[q] /\ rd[q] \in Listing
    BY <1>1 DEF IInv, TypeOK
  <2>2. rd[q].gen \in Nat /\ rd[q].bverf \in Nat /\ rd[q].gen <= gen /\ rd[q].bverf <= gen
    BY <2>1, ListingFields, BufAssumption DEF Right, Shape
  <2>3. Lasting(rd[q])' => stable /\ Lasting(rd[q])
    BY <1>1, <2>1, <2>2 DEF Lasting
  <2>4. Names \subseteq Names'
    BY <1>2, <1>5 DEF Names
  <2>5. Shape(rd[q])'
    BY <1>1, <2>1, <2>2, <2>4 DEF Right, Shape
  <2>6. (Guarded(rd[q]) /\ Ended(rd[q]))'
    BY <1>1, <2>1, <2>2 DEF Right, Guarded, Ended, Own
  <2>7. rd[q].all \subseteq Names
    BY <2>1 DEF Right, Shape
  <2>8. \A i \in DOMAIN dir' : dir'[i].name \in rd[q].all => i \in DOMAIN dir
    BY <1>1, <1>3, <1>5, <2>7
  <2>9. stable => \A i \in DOMAIN dir : Cookie(i)' = Cookie(i) /\ Entry(i)' = Entry(i)
    BY <1>1, <1>2 DEF Cookie, Entry
  <2>10. Returned(rd[q])'
    BY <1>1, <1>2, <2>1, <2>3, <2>8, <2>9 DEF Right, Returned, Own
  <2>11. Answer(rd[q])'
    BY <1>1, <1>2, <2>1, <2>3, <2>8, <2>9 DEF Right, Answer, Own
  <2> QED BY <2>5, <2>6, <2>10, <2>11 DEF Right
<1> QED BY <1>4, <1>7, <1>8 DEF IInv

\* Another client removes an entry, which no listing has to return any more.
LEMMA OtherRemoveKeeps ==
  ASSUME IInv, NEW n \in Name, OtherRemove(n)
  PROVE  IInv'
<1>1. /\ dir \in Seq(DirEntry) /\ next \in Nat /\ gen \in 0 .. MaxGen /\ gen' = gen + 1
      /\ gen < MaxGen /\ UNCHANGED <<stable, next, verf>> /\ MaxGen \in Nat
      /\ rd \in [Reader -> Listing]
      /\ rd' = [q \in Reader |-> [rd[q] EXCEPT !.all = @ \ {n}]]
  BY BufAssumption DEF OtherRemove, IInv, TypeOK, DirEntry
<1>2. PICK d \in DOMAIN dir :
        /\ dir[d].name = n
        /\ dir' = [j \in 1 .. Len(dir) - 1 |-> IF j < d THEN dir[j] ELSE dir[j + 1]]
  BY DEF OtherRemove
<1>3. d \in 1 .. Len(dir) /\ Len(dir) \in Nat /\ DOMAIN dir = 1 .. Len(dir) /\ Len(dir) - 1 \in Nat
  BY <1>1
<1> DEFINE old(j) == IF j < d THEN j ELSE j + 1
<1>4. /\ DOMAIN dir' = 1 .. Len(dir) - 1
      /\ \A j \in DOMAIN dir' : old(j) \in DOMAIN dir /\ old(j) # d /\ dir'[j] = dir[old(j)]
  BY <1>2, <1>3
<1>5. \A i, j \in DOMAIN dir' : i < j => old(i) < old(j)
  BY <1>3, <1>4
<1>6. \A i, j \in DOMAIN dir' : old(i) = old(j) => i = j
  BY <1>3, <1>4
<1>7. \A i \in DOMAIN dir : i = d \/ \E j \in DOMAIN dir' : old(j) = i
  <2> SUFFICES ASSUME NEW i \in DOMAIN dir, i # d PROVE \E j \in DOMAIN dir' : old(j) = i
    OBVIOUS
  <2>1. CASE i < d
    BY <2>1, <1>3, <1>4
  <2>2. CASE i > d
    <3>1. i - 1 \in DOMAIN dir' /\ old(i - 1) = i
      BY <2>2, <1>3, <1>4
    <3> QED BY <3>1
  <2> QED BY <2>1, <2>2, <1>3
<1> HIDE DEF old
<1>8. \A j \in DOMAIN dir' : dir'[j].name # n
  BY <1>2, <1>4 DEF IInv, Ordered
<1>9. \A m \in Names : m = n \/ m \in Names'
  <2> SUFFICES ASSUME NEW m \in Names, m # n PROVE m \in Names'
    OBVIOUS
  <2>1. PICK i \in DOMAIN dir : dir[i].name = m
    BY DEF Names
  <2>2. PICK j \in DOMAIN dir' : old(j) = i
    BY <1>2, <1>7, <2>1
  <2> QED BY <2>1, <2>2, <1>4 DEF Names
<1>10. dir' \in Seq(DirEntry)
  <2>1. \A j \in 1 .. Len(dir) - 1 : (IF j < d THEN dir[j] ELSE dir[j + 1]) \in DirEntry
    BY <1>1, <1>3
  <2>2. dir' \in [1 .. Len(dir) - 1 -> DirEntry]
    BY <1>2, <2>1
  <2> QED BY <1>3, <2>2
<1>11. Ordered'
  <2>1. \A i, j \in DOMAIN dir' : i < j => dir'[i].cookie < dir'[j].cookie
    BY <1>4, <1>5 DEF IInv, Ordered
  <2>2. \A i, j \in DOMAIN dir' : dir'[i].name = dir'[j].name => i = j
    BY <1>4, <1>6 DEF IInv, Ordered
  <2>3. \A i \in DOMAIN dir' : dir'[i].cookie \in 1 .. next' - 1
    BY <1>1, <1>4 DEF IInv, Ordered
  <2>4. next' # 0
    BY <1>1 DEF IInv, Ordered
  <2> QED BY <2>1, <2>2, <2>3, <2>4 DEF Ordered
<1>12. ASSUME NEW q \in Reader PROVE rd'[q] \in Listing /\ Right(rd[q])'
  <2> DEFINE x == rd[q]
             a == x.all \ {n}
             y == [x EXCEPT !.all = a]
  <2>1. x \in Listing /\ Right(x) /\ rd'[q] = y
    BY <1>1 DEF IInv
  <2>0. stable' = stable /\ verf' = verf /\ gen' = gen + 1 /\ gen \in Nat
    BY <1>1
  <2>2. /\ x.gen \in Nat /\ x.bverf \in Nat /\ x.gen <= gen /\ x.bverf <= gen
        /\ a \in SUBSET Name /\ x.all \subseteq Names
    BY <2>1, ListingFields, BufAssumption DEF Right, Shape
  <2>3. \A m \in a : m \in x.all /\ m # n
    OBVIOUS
  <2> HIDE DEF x, a
  <2>4. y \in Listing
    BY <2>1, <2>2 DEF Listing
  <2>5. /\ y.state = x.state /\ y.off = x.off /\ y.batch = x.batch /\ y.bverf = x.bverf
        /\ y.count = x.count /\ y.len = x.len /\ y.gen = x.gen /\ y.all = a
        /\ y.seen = x.seen /\ y.more = x.more /\ y.shared = x.shared
    BY <2>1 DEF Listing
  <2> HIDE DEF y
  <2>6. a \subseteq Names'
    BY <1>9, <2>2, <2>3
  <2>7. Shape(rd[q])'
    BY <2>0, <2>1, <2>2, <2>5, <2>6 DEF Right, Shape
  <2>8. (Guarded(rd[q]) /\ Ended(rd[q]))'
    BY <2>0, <2>1, <2>2, <2>3, <2>5 DEF Right, Guarded, Ended, Own
  <2>9. Lasting(rd[q])' => stable /\ Lasting(x)
    BY <2>0, <2>1, <2>2, <2>5 DEF Lasting
  <2>10. stable => \A j \in DOMAIN dir' : Cookie(j)' = Cookie(old(j)) /\ Entry(j)' = Entry(old(j))
    BY <1>1, <1>4 DEF Cookie, Entry
  <2>11. Returned(rd[q])'
    <3> SUFFICES ASSUME x.state \in Active, Own(x), stable, Lasting(x),
                        NEW j \in DOMAIN dir', dir'[j].name \in a
                 PROVE  x.seen[dir'[j].name] = IF Cookie(j)' <= x.off THEN 1 ELSE 0
      BY <2>0, <2>1, <2>5, <2>9 DEF Returned, Own, Active
    <3> QED BY <1>4, <2>1, <2>3, <2>10 DEF Right, Returned, Active
  <2>12. Answer(rd[q])'
    <3> SUFFICES ASSUME x.state \in {"store", "fill"}, Own(x)
                 PROVE  /\ x.batch = << >> => \A m \in a : x.seen[m] = 1
                        /\ stable /\ Lasting(x) => \A j \in DOMAIN dir' : dir'[j].name \in a =>
                             /\ \A k \in DOMAIN x.batch :
                                  x.batch[k].name = dir'[j].name => x.batch[k].cookie = Cookie(j)'
                             /\ /\ x.batch # << >> /\ x.off < Cookie(j)'
                                /\ Cookie(j)' <= x.batch[Len(x.batch)].cookie
                                => \E k \in DOMAIN x.batch : x.batch[k] = Entry(j)'
      BY <2>0, <2>1, <2>5, <2>9 DEF Answer, Own
    <3>1. x.batch = << >> => \A m \in a : x.seen[m] = 1
      BY <2>1, <2>3 DEF Right, Answer
    <3>2. ASSUME stable, Lasting(x), NEW j \in DOMAIN dir', dir'[j].name \in a
          PROVE  /\ \A k \in DOMAIN x.batch :
                      x.batch[k].name = dir'[j].name => x.batch[k].cookie = Cookie(j)'
                 /\ /\ x.batch # << >> /\ x.off < Cookie(j)'
                    /\ Cookie(j)' <= x.batch[Len(x.batch)].cookie
                    => \E k \in DOMAIN x.batch : x.batch[k] = Entry(j)'
      <4>1. /\ old(j) \in DOMAIN dir /\ dir'[j] = dir[old(j)] /\ dir[old(j)].name \in x.all
            /\ Cookie(j)' = Cookie(old(j)) /\ Entry(j)' = Entry(old(j))
        BY <1>4, <2>3, <2>10, <3>2
      <4> QED BY <4>1, <2>1, <3>2 DEF Right, Answer
    <3> QED BY <3>1, <3>2
  <2> QED BY <2>1, <2>4, <2>7, <2>8, <2>11, <2>12 DEF Right
<1>13. TypeOK'
  <2>1. rd' = [q \in Reader |-> rd'[q]]
    BY <1>1
  <2> QED BY <1>1, <1>10, <1>12, <2>1 DEF IInv, TypeOK, DirEntry
<1> QED BY <1>11, <1>12, <1>13 DEF IInv

-----------------------------------------------------------------------------
\* A directory and its readers start right.
LEMMA InitRight ==
  ASSUME Init
  PROVE  IInv
<1>1. /\ First \in Seq(Name) /\ Len(First) \in Nat /\ DOMAIN First = 1 .. Len(First)
      /\ \A i \in DOMAIN First : First[i] \in Name
  BY BufAssumption
<1>2. /\ dir = [i \in DOMAIN First |-> [name |-> First[i], cookie |-> i]]
      /\ next = Len(First) + 1 /\ gen = 0 /\ verf = 0 /\ rd = [r \in Reader |-> Closed]
      /\ stable \in BOOLEAN
  BY DEF Init
<1>3. /\ DOMAIN dir = 1 .. Len(First)
      /\ \A i \in DOMAIN dir : dir[i].name = First[i] /\ dir[i].cookie = i
  BY <1>1, <1>2
<1>4. dir \in Seq(DirEntry)
  <2>1. dir \in [1 .. Len(First) -> DirEntry]
    BY <1>1, <1>2 DEF DirEntry
  <2> QED BY <1>1, <2>1
<1>5. TypeOK
  BY <1>1, <1>2, <1>4, ClosedFields, BufAssumption DEF TypeOK, DirEntry
<1>6. Ordered
  BY <1>1, <1>2, <1>3, BufAssumption DEF Ordered
<1>7. ASSUME NEW r \in Reader PROVE Right(rd[r])
  <2>1. rd[r] = Closed /\ Closed.state = "new"
    BY <1>2 DEF Closed
  <2>2. Shape(rd[r])
    <3>1. Closed.count <= Len(Closed.batch) /\ DOMAIN Closed.batch = {}
      BY ClosedFields
    <3> QED BY <1>2, <2>1, <3>1, ClosedFields DEF Shape, Ends
  <2>3. Guarded(rd[r]) /\ Returned(rd[r]) /\ Answer(rd[r]) /\ Ended(rd[r])
    BY <2>1 DEF Guarded, Returned, Answer, Ended
  <2> QED BY <2>2, <2>3 DEF Right
<1> QED BY <1>5, <1>6, <1>7 DEF IInv

\* Every step of the readers, the daemon and the other clients keeps IInv.
LEMMA NextRight ==
  ASSUME IInv, [Next]_vars
  PROVE  IInv'
<1>1. ASSUME NEW n \in Name, OtherAdd(n) \/ OtherRemove(n) PROVE IInv'
  BY <1>1, OtherAddKeeps, OtherRemoveKeeps
<1>2. ASSUME NEW r \in Reader, Open(r) PROVE IInv'
  BY <1>2, FreshKeeps, Zenon DEF Open, Set
<1>3. ASSUME NEW r \in Reader, Serve(r) PROVE IInv'
  <2>1. CASE Call(r)
    BY <2>1, CallKeeps
  <2>2. CASE Store(r)
    BY <2>2, StoreKeeps
  <2>3. CASE AddEntry(r)
    BY <2>3, AddEntryKeeps
  <2>4. CASE NoEntry(r)
    BY <2>4, NoEntryKeeps
  <2>5. CASE Reply(r)
    BY <2>5, EmptyReplyKeeps, FullReplyKeeps
  <2> QED BY <1>3, <2>1, <2>2, <2>3, <2>4, <2>5 DEF Serve
<1>4. CASE UNCHANGED vars
  <2>1. TypeOK' /\ Ordered' /\ UNCHANGED <<stable, dir, next, gen, verf, rd>>
    BY <1>4 DEF vars, IInv, TypeOK, Ordered
  <2> QED BY <2>1, Untouched DEF IInv
<1> QED BY <1>1, <1>2, <1>3, <1>4 DEF Next

\* The listings of a directory, with the server's answers and the kernel's
\* buffers cut anywhere, stay as IInv says.
THEOREM Invariance == Spec => []IInv
<1>1. Init => IInv
  BY InitRight
<1>2. IInv /\ [Next]_vars => IInv'
  BY NextRight
<1> QED BY <1>1, <1>2, PTL DEF Spec

\* A listing that hsx_fuse_readdir or hsx_fuse_readdir_plus ends with an empty
\* buffer returned every lasting entry exactly once and left none, and a cookie
\* is rejected only after a change or another reader's verifier.
THEOREM ListingsAreExact == Spec => []ListingExact
<1>1. IInv => ListingExact
  BY DEF IInv, Right, Ended, Own, ListingExact, ExactlyOnce, EndIsEnd, BadCookieExplained
<1> QED BY <1>1, Invariance, PTL
=============================================================================
