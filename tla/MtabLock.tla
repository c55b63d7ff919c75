------------------------------ MODULE MtabLock ------------------------------
(***************************************************************************)
(* lock_mtab, unlock_mtab and update_mtab (nfs3/fstab.c) with their        *)
(* callers hsi_add_mtab and hsi_del_mtab (fuse/hsfs_main.c): processes     *)
(* that record mounts take a lock file by link(2), wait for each other     *)
(* with a POSIX lock on it, and rewrite /etc/mtab.  A process takes the    *)
(* lock once.  It can be stopped by a signal, whose handler runs           *)
(* unlock_mtab, or be killed.                                              *)
(***************************************************************************)
EXTENDS Integers, Sequences, FiniteSets

CONSTANTS
  Proc,       \* processes; also the inode of the link target each one makes
  None,
  Dir,        \* mount points
  Kind,       \* what the processes do: "add", "remount", "del"
  MaxTries,   \* the 100000 of lock_mtab
  MaxSignals, \* signals delivered in a behaviour
  MaxKills    \* processes killed in a behaviour

ASSUME MtabAssumption == None \notin Proc /\ {MaxTries, MaxSignals, MaxKills} \subseteq Nat

VARIABLES
  lockf,    \* the inode that MOUNTED_LOCK names, or None
  flk,      \* which process has the POSIX lock of an inode
  pc, op,
  made, flag, fd, noent, waits, \* j = 0, we_created_lockfile, lockfile_fd, both tries
  chain,    \* what update_mtab has read and changed
  mtab,     \* /etc/mtab: a sequence of [dir, opts], one for each whole line
  torn,     \* mtab ends in a line cut short, without its newline
  serial,   \* history: the updates that reached the disk, applied one by one
  cut,      \* history: an update read, or the disk took, only a part of mtab
  signals, kills

vars == <<lockf, flk, pc, op, made, flag, fd, noent, waits, chain, mtab, torn, serial, cut, signals, kills>>
files == <<chain, mtab, torn, serial, cut>>
faults == <<signals, kills>>

Entry == [dir : Dir, opts : Proc \cup {None}]
Op == [kind : Kind, dir : Dir]
Critical == {"cs", "write"}
PCs == Critical \cup {"start", "link", "made", "open", "claim", "wait", "waited",
                      "close", "unlink", "clear", "done", "signalled", "early", "late", "killed", "died"}
Gone == {"done", "signalled", "early", "late", "killed", "died"}

TypeOK ==
  /\ lockf \in Proc \cup {None} /\ flk \in [Proc -> Proc \cup {None}]
  /\ pc \in [Proc -> PCs] /\ op \in [Proc -> Op]
  /\ made \in [Proc -> BOOLEAN] /\ flag \in [Proc -> BOOLEAN]
  /\ fd \in [Proc -> Proc \cup {None}]
  /\ noent \in [Proc -> 0 .. MaxTries] /\ waits \in [Proc -> 0 .. MaxTries + 1]
  /\ mtab \in Seq(Entry) /\ serial \in Seq(Entry) /\ chain \in [Proc -> Seq(Entry)]
  /\ torn \in BOOLEAN /\ cut \in BOOLEAN
  /\ signals \in 0 .. MaxSignals /\ kills \in 0 .. MaxKills

Init ==
  /\ lockf = None /\ flk = [p \in Proc |-> None]
  /\ pc = [p \in Proc |-> "start"] /\ op \in [Proc -> Op]
  /\ made = [p \in Proc |-> FALSE] /\ flag = [p \in Proc |-> FALSE]
  /\ fd = [p \in Proc |-> None]
  /\ noent = [p \in Proc |-> 0] /\ waits = [p \in Proc |-> 0]
  /\ mtab \in {<<>>} \cup {<<[dir |-> d, opts |-> None]>> : d \in Dir}
  /\ serial = mtab /\ chain = [p \in Proc |-> <<>>]
  /\ torn = FALSE /\ cut = FALSE /\ signals = 0 /\ kills = 0

Goto(p, l) == pc' = [pc EXCEPT ![p] = l]
\* close(2) or the end of the process drops its POSIX lock.
Drop(p) == flk' = [i \in Proc |-> IF flk[i] = p THEN None ELSE flk[i]]
\* die: at_die is unlock_mtab, which does nothing here, and exit.
Die(p) == Goto(p, "died") /\ Drop(p)

-----------------------------------------------------------------------------
(* lock_mtab *)

\* The link target is created, or cannot be; update_mtab does not lock when
\* mtab is missing or read-only.
Begin(p) ==
  /\ pc[p] = "start"
  /\ \/ Goto(p, "link")
     \/ Goto(p, "died")
     \/ op[p].kind # "add" /\ Goto(p, "done")
  /\ UNCHANGED <<lockf, flk, op, made, flag, fd, noent, waits, files, faults>>

\* Mutant of Link: the lock file is made with creat, which also succeeds when
\* the file exists.
LinkCreat(p) ==
  /\ pc[p] = "link" /\ lockf' = p
  /\ made' = [made EXCEPT ![p] = TRUE] /\ Goto(p, "made")
  /\ UNCHANGED <<flk, op, flag, fd, noent, waits, files, faults>>

Link(p) ==
  /\ pc[p] = "link"
  /\ \/ lockf = None /\ lockf' = p /\ made' = [made EXCEPT ![p] = TRUE] /\ Goto(p, "made")
     \/ lockf # None /\ made' = [made EXCEPT ![p] = FALSE] /\ Goto(p, "open") /\ UNCHANGED lockf
     \/ Goto(p, "died") /\ UNCHANGED <<lockf, made>>
  /\ UNCHANGED <<flk, op, flag, fd, noent, waits, files, faults>>

SetFlag(p) ==
  /\ pc[p] = "made"
  /\ flag' = [flag EXCEPT ![p] = TRUE] /\ Goto(p, "open")
  /\ UNCHANGED <<lockf, flk, op, made, fd, noent, waits, files, faults>>

Open(p) ==
  /\ pc[p] = "open"
  /\ \/ /\ lockf # None
        /\ fd' = [fd EXCEPT ![p] = lockf]
        /\ Goto(p, IF made[p] THEN "claim" ELSE "wait")
        /\ UNCHANGED <<lockf, flk, flag, noent>>
     \/ /\ lockf = None /\ noent[p] < MaxTries
        /\ noent' = [noent EXCEPT ![p] = @ + 1]
        /\ fd' = [fd EXCEPT ![p] = None]
        /\ Goto(p, IF flag[p] THEN "cs" ELSE "link")
        /\ UNCHANGED <<lockf, flk, flag>>
     \/ /\ lockf = None /\ noent[p] = MaxTries
        /\ Die(p) /\ UNCHANGED <<lockf, flag, noent, fd>>
  /\ UNCHANGED <<op, made, waits, files, faults>>

\* F_SETLK; when it fails the process proceeds anyway.
Claim(p) ==
  /\ pc[p] = "claim"
  /\ flk' = [flk EXCEPT ![fd[p]] = IF @ = None THEN p ELSE @]
  /\ Goto(p, "cs")
  /\ UNCHANGED <<lockf, op, made, flag, fd, noent, waits, files, faults>>

\* F_SETLKW, under an alarm.
Wait(p) ==
  /\ pc[p] = "wait"
  /\ \/ flk[fd[p]] = None /\ flk' = [flk EXCEPT ![fd[p]] = p] /\ Goto(p, "waited")
     \/ flk[fd[p]] # None /\ Die(p)
  /\ UNCHANGED <<lockf, op, made, flag, fd, noent, waits, files, faults>>

\* Mutant of Waited: the number of rounds has no limit.
WaitedForever(p) ==
  /\ pc[p] = "waited" /\ Drop(p) /\ fd' = [fd EXCEPT ![p] = None] /\ Goto(p, "link")
  /\ UNCHANGED <<lockf, op, made, flag, noent, waits, files, faults>>

Stale(p) == waits'[p] > MaxTries

Waited(p) ==
  /\ pc[p] = "waited"
  /\ waits' = [waits EXCEPT ![p] = @ + 1]
  /\ Drop(p) /\ fd' = [fd EXCEPT ![p] = None]
  /\ Goto(p, IF Stale(p) THEN "died" ELSE "link")
  /\ UNCHANGED <<lockf, op, made, flag, noent, files, faults>>

-----------------------------------------------------------------------------
(* hsi_add_mtab and update_mtab, with the lock *)

Last(s, d) == {i \in DOMAIN s : s[i].dir = d /\ \A j \in i + 1 .. Len(s) : s[j].dir # d}

\* The chain of update_mtab.  An entry that was not found is linked at the end
\* of the backward chain only, so that it is written when there is no other.
Updated(s, o, p) ==
  LET e == [dir |-> o.dir, opts |-> p] IN
  IF Last(s, o.dir) = {}
  THEN IF o.kind = "remount" /\ s = <<>> THEN <<e>> ELSE s
  ELSE LET i == CHOOSE j \in Last(s, o.dir) : TRUE IN
       IF o.kind = "remount" THEN [s EXCEPT ![i] = e]
       ELSE SubSeq(s, 1, i - 1) \o SubSeq(s, i + 1, Len(s))

\* What one update makes of the file.
Applied(s, o, p) ==
  IF o.kind = "add" THEN Append(s, [dir |-> o.dir, opts |-> p]) ELSE Updated(s, o, p)

\* hsi_add_mtab appends a line, which is joined to one that was cut short; or
\* addmntent fails with a part of the line written.
Add(p) ==
  /\ op[p].kind = "add"
  /\ \/ /\ mtab' = IF torn THEN mtab ELSE Applied(mtab, op[p], p)
        /\ serial' = Applied(serial, op[p], p)
        /\ torn' = FALSE /\ UNCHANGED cut
     \/ torn' = TRUE /\ cut' = TRUE /\ UNCHANGED <<mtab, serial>>
  /\ UNCHANGED chain

\* update_mtab reads the file first, up to a line that is too long, and nothing
\* of it after a read error.
Read(p) ==
  /\ op[p].kind # "add"
  /\ \E n \in 0 .. Len(mtab) :
       /\ chain' = [chain EXCEPT ![p] = Updated(SubSeq(mtab, 1, n), op[p], p)]
       /\ cut' = (cut \/ n < Len(mtab))
  /\ UNCHANGED <<mtab, torn, serial>>

\* Either may fail to open the file, or to write anything, and leaves.
Enter(p) ==
  /\ pc[p] = "cs"
  /\ \/ Add(p) /\ Goto(p, "close")
     \/ Read(p) /\ Goto(p, "write")
     \/ UNCHANGED files /\ Goto(p, "close")
  /\ UNCHANGED <<lockf, flk, op, made, flag, fd, noent, waits, faults>>

\* The temporary file is renamed.  It holds the chain, or the part of it that
\* was written before its last flush failed: nfs_endmntent does not look at
\* what fclose returns.
Replace(p) ==
  /\ \/ mtab' = chain[p] /\ torn' = FALSE /\ UNCHANGED cut
     \/ \E n \in 0 .. Len(chain[p]) - 1 :
          mtab' = SubSeq(chain[p], 1, n) /\ torn' \in BOOLEAN /\ cut' = TRUE
  /\ serial' = Applied(serial, op[p], p)
  /\ chain' = [chain EXCEPT ![p] = <<>>]

\* Or that file cannot be opened or renamed; an error of nfs_addmntent is fatal,
\* and die unlocks.
Write(p) ==
  /\ pc[p] = "write"
  /\ Replace(p) \/ UNCHANGED files
  /\ Goto(p, "close")
  /\ UNCHANGED <<lockf, flk, op, made, flag, fd, noent, waits, faults>>

-----------------------------------------------------------------------------
(* unlock_mtab *)

Close(p) ==
  /\ pc[p] = "close"
  /\ Drop(p) /\ fd' = [fd EXCEPT ![p] = None] /\ Goto(p, "unlink")
  /\ UNCHANGED <<lockf, op, made, flag, noent, waits, files, faults>>

Unlink(p) ==
  /\ pc[p] = "unlink" /\ lockf' = None /\ Goto(p, "clear")
  /\ UNCHANGED <<flk, op, made, flag, fd, noent, waits, files, faults>>

ClearFlag(p) ==
  /\ pc[p] = "clear" /\ flag' = [flag EXCEPT ![p] = FALSE] /\ Goto(p, "done")
  /\ UNCHANGED <<lockf, flk, op, made, fd, noent, waits, files, faults>>

\* Mutant of Signal: the handler exits without unlock_mtab.
SignalExits(p) ==
  /\ pc[p] \notin Gone \cup {"start"} /\ signals < MaxSignals
  /\ signals' = signals + 1
  /\ Drop(p) /\ Goto(p, "signalled")
  /\ UNCHANGED <<lockf, op, made, flag, fd, noent, waits, files, kills>>

\* handler, die and unlock_mtab, at any point once the handlers are set; "early"
\* when the lock file was made and the flag not yet set, "late" when it was
\* already removed and the flag not yet reset.
Signal(p) ==
  /\ pc[p] \notin Gone \cup {"start"} /\ signals < MaxSignals
  /\ signals' = signals + 1
  /\ lockf' = IF flag[p] THEN None ELSE lockf
  /\ flag' = [flag EXCEPT ![p] = FALSE]
  /\ Drop(p) /\ Goto(p, CASE pc[p] = "made" -> "early" [] pc[p] = "clear" -> "late"
                         [] OTHER -> "signalled")
  /\ UNCHANGED <<op, made, fd, noent, waits, files, kills>>

\* SIGKILL, or the machine takes the process away.
Kill(p) ==
  /\ pc[p] \notin Gone \cup {"start"} /\ kills < MaxKills
  /\ kills' = kills + 1 /\ Drop(p) /\ Goto(p, "killed")
  /\ UNCHANGED <<lockf, op, made, flag, fd, noent, waits, files, signals>>

Step(p) ==
  \/ Begin(p) \/ Link(p) \/ SetFlag(p) \/ Open(p) \/ Claim(p) \/ Wait(p) \/ Waited(p)
  \/ Enter(p) \/ Write(p) \/ Close(p) \/ Unlink(p) \/ ClearFlag(p)

Next == \E p \in Proc : Step(p) \/ Signal(p) \/ Kill(p)

\* A process that is not blocked runs, and alarm ends a wait.
Spec == Init /\ [][Next]_vars /\ \A p \in Proc : WF_vars(Step(p))

-----------------------------------------------------------------------------
(* Properties *)

\* lock_mtab: a process works on mtab only while the lock file is its own, so
\* never two at a time, whatever signals and kills there are, unless a signal
\* hit a process between its unlink and the reset of we_created_lockfile.
OnlyCreatorProceeds ==
  (\A q \in Proc : pc[q] # "late") =>
    \A p \in Proc : pc[p] \in Critical \cup {"close", "unlink"} => lockf = p

\* "The lock file will be removed if we catch a signal or when we exit": one that
\* its process left behind was left by SIGKILL, or by a signal between link and
\* the assignment of we_created_lockfile.
LeftExplained ==
  \A p \in Proc : lockf = p /\ pc[p] \in Gone => pc[p] \in {"early", "killed"}

\* update_mtab: mtab is the result of its updates one after the other, so that
\* no entry another process wrote is lost, unless an update could not read all
\* of mtab and wrote back the part it had, the disk took only a part of what
\* was written (update_mtab renames the temporary file all the same), or a
\* signal came in that window.
NoLostUpdate == ~cut /\ (\A q \in Proc : pc[q] # "late") => mtab = serial

\* lock_mtab: every process finishes or dies, also when a killed process left
\* its lock file behind.
Finishes == \A p \in Proc : <>(pc[p] \in Gone)

\* fstab.c: "we proceed only if it was us that created the lock": with signals
\* no two processes are "scribbling in /etc/mtab" either.
NeverBoth == \A p, q \in Proc : pc[p] \in Critical /\ pc[q] \in Critical => p = q

-----------------------------------------------------------------------------
(* The inductive invariant behind the safety properties *)

\* Where a process is that made the lock file and has not removed it.
Holding(p) == pc[p] \in Critical \cup {"claim", "close", "unlink"} \/ (pc[p] = "open" /\ made[p])
NoLate == \A q \in Proc : pc[q] # "late"

\* The flag is set where unlock_mtab must remove the file, and until it is reset.
FlagSet ==
  \A p \in Proc :
    /\ pc[p] \notin Gone => (flag[p] <=> Holding(p) \/ pc[p] = "clear")
    /\ pc[p] = "made" => made[p]

\* The name of the lock file leads to a process that made it and still has it, or
\* could not remove it.
Linked == \A p \in Proc : lockf = p => Holding(p) \/ pc[p] \in {"made", "early", "killed"}

\* Whoever made the file still has it, if no signal came in the window.
Kept == NoLate => \A p \in Proc : Holding(p) \/ pc[p] = "made" => lockf = p

\* What update_mtab is about to write is what its update makes of the file.
Pending ==
  \A p \in Proc : pc[p] = "write" =>
    /\ op[p].kind # "add"
    /\ ~cut /\ NoLate => chain[p] = Updated(mtab, op[p], p)

\* A line was cut short by a write that failed.
TornIsCut == torn => cut

\* A process that has waited too often does not wait again.
Rounds == \A p \in Proc : pc[p] \notin Gone => waits[p] <= MaxTries

IInv == TypeOK /\ Rounds /\ FlagSet /\ Linked /\ Kept /\ TornIsCut /\ Pending /\ NoLostUpdate
=============================================================================
