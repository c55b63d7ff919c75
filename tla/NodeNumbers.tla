----------------------------- MODULE NodeNumbers -----------------------------
(***************************************************************************)
(* What a FUSE file system promises the kernel about node numbers, however *)
(* it keeps them: a number names one object and an object has one number,  *)
(* for as long as the file system runs; the kernel is given numbers that   *)
(* name something, and each gift is returned at most once.                 *)
(***************************************************************************)
EXTENDS Integers

CONSTANTS Number, Object

VARIABLES
  bound,  \* pairs <<number, object>>
  held    \* gifts of each number not yet returned

vars == <<bound, held>>

Init == bound = {} /\ held = [n \in Number |-> 0]

Free(n, o) == \A p \in bound : p[1] # n /\ p[2] # o

\* n is the number of o, from now on if o had none.
Resolve(n, o) ==
  \/ <<n, o>> \in bound /\ UNCHANGED bound
  \/ Free(n, o) /\ bound' = bound \cup {<<n, o>>}

\* The file system numbers o without telling.
Cache(n, o) == Resolve(n, o) /\ UNCHANGED held

\* It gives the kernel the number of o.
Give(n, o) == Resolve(n, o) /\ held' = [held EXCEPT ![n] = @ + 1]

\* The kernel returns k of the gifts of n.
Return(n, k) ==
  /\ held' = [held EXCEPT ![n] = @ - k]
  /\ UNCHANGED bound

Next ==
  \/ \E n \in Number, o \in Object : Cache(n, o) \/ Give(n, o)
  \/ \E n \in Number : \E k \in 1 .. held[n] : Return(n, k)

Spec == Init /\ [][Next]_vars
=============================================================================
