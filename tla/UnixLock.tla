------------------------------ MODULE UnixLock ------------------------------
(***************************************************************************)
(* The locks of a database file on Unix (unixLock(), posixUnlock() and     *)
(* unixClose() of os_unix.c), built from advisory read- and write-locks on *)
(* three places of the file: the pending byte, the reserved byte and the   *)
(* shared range.  Such locks belong to a process, not to a connection; so  *)
(* connections of one process share an unixInodeInfo that counts for them. *)
(*                                                                         *)
(* A step is one call of fcntl() with the code up to the next one: between *)
(* two of them another process may lock, while the mutex of the inode      *)
(* keeps the connections of the same process out.  Calls that end in       *)
(* SQLITE_BUSY without any change are left out.                            *)
(***************************************************************************)
EXTENDS Integers, FiniteSets

CONSTANTS
  Conns,    \* unixFile: the open database file of a connection
  Procs,    \* processes
  ProcOf    \* the process of a connection

ASSUME UnixLockAssumption == ProcOf \in [Conns -> Procs] /\ IsFiniteSet(Conns)

NO_LOCK == 0
SHARED_LOCK == 1
RESERVED_LOCK == 2
PENDING_LOCK == 3
EXCLUSIVE_LOCK == 4

VARIABLES
  os,     \* os[p]: the lock of process p on each place of the file
  inode,  \* inode[p]: the unixInodeInfo of the process
  eFileLock,  \* of each unixFile
  open,   \* connections whose file is open
  pc      \* where the running call of unixLock() or posixUnlock() is

vars == <<os, inode, eFileLock, open, pc>>

Places == {"pending", "reserved", "shared"}

Free == [pl \in Places |-> "none"]

\* unused: a descriptor waits in pUnused to be closed
Info(level, nShared, nLock, unused) ==
  [eFileLock |-> level, nShared |-> nShared, nLock |-> nLock, unused |-> unused]

NoInode == Info(NO_LOCK, 0, 0, FALSE)

Mates(c) == {d \in Conns : ProcOf[d] = ProcOf[c]}

\* pc[c]: in unixLock() "range" (a read-lock on the shared range comes next),
\* "drop" and "giveup" (the pending byte is unlocked next), "exclusive"; in
\* posixUnlock() "bytes" (the two bytes are unlocked next) on the way to
\* SHARED, "bytesAll" and "all" on the way to NO_LOCK.
Steps == {"idle", "range", "drop", "giveup", "exclusive",
          "bytes", "bytesAll", "all"}

\* The mutex of the inode is free and the file of c is open.
Enter(c) == c \in open /\ \A d \in Mates(c) : pc[d] = "idle"

\* fcntl(F_SETLK) on one place; a lock of the same process is replaced.
Grants(p, pl, type) ==
  \A q \in Procs \ {p} :
    IF type = "write" THEN os[q][pl] = "none" ELSE os[q][pl] # "write"

SetLock(p, pl, type) ==
  /\ Grants(p, pl, type)
  /\ os' = [os EXCEPT ![p][pl] = type]

At(c, step) == pc' = [pc EXCEPT ![c] = step]

-----------------------------------------------------------------------------
\* unixLock(SHARED_LOCK)

\* (Slip... : plausible slips of the definition that follows, see the README;
\* nothing uses them.)

SlipLockSharedAgain(c) ==
  LET i == inode[ProcOf[c]]
  IN /\ Enter(c) /\ eFileLock[c] = NO_LOCK
     /\ i.eFileLock \in {SHARED_LOCK, RESERVED_LOCK}
     /\ eFileLock' = [eFileLock EXCEPT ![c] = SHARED_LOCK]
     /\ inode' = [inode EXCEPT ![ProcOf[c]].nShared = @ + 1]
     /\ UNCHANGED <<os, open, pc>>

\* The process has a read-lock already: only count.
LockSharedAgain(c) ==
  LET i == inode[ProcOf[c]]
  IN /\ Enter(c) /\ eFileLock[c] = NO_LOCK
     /\ i.eFileLock \in {SHARED_LOCK, RESERVED_LOCK}
     /\ eFileLock' = [eFileLock EXCEPT ![c] = SHARED_LOCK]
     /\ inode' = [inode EXCEPT ![ProcOf[c]] =
                    Info(i.eFileLock, i.nShared + 1, i.nLock + 1, i.unused)]
     /\ UNCHANGED <<os, open, pc>>

LockSharedPending(c) ==
  /\ Enter(c) /\ eFileLock[c] = NO_LOCK
  /\ inode[ProcOf[c]].eFileLock = NO_LOCK
  /\ SetLock(ProcOf[c], "pending", "read")
  /\ At(c, "range")
  /\ UNCHANGED <<inode, eFileLock, open>>

LockSharedRange(c) ==
  /\ pc[c] = "range"
  /\ \/ SetLock(ProcOf[c], "shared", "read") /\ At(c, "drop")
     \/ /\ ~Grants(ProcOf[c], "shared", "read") /\ At(c, "giveup")
        /\ UNCHANGED os
  /\ UNCHANGED <<inode, eFileLock, open>>

LockSharedDone(c) ==
  LET i == inode[ProcOf[c]]
  IN /\ pc[c] \in {"drop", "giveup"}
     /\ os' = [os EXCEPT ![ProcOf[c]]["pending"] = "none"]
     /\ IF pc[c] = "drop"
        THEN /\ eFileLock' = [eFileLock EXCEPT ![c] = SHARED_LOCK]
             /\ inode' = [inode EXCEPT ![ProcOf[c]] =
                            Info(SHARED_LOCK, 1, i.nLock + 1, i.unused)]
        ELSE UNCHANGED <<eFileLock, inode>>
     /\ At(c, "idle")
     /\ UNCHANGED open

-----------------------------------------------------------------------------
\* unixLock(RESERVED_LOCK) and unixLock(EXCLUSIVE_LOCK)

SlipAloneInProcess(c) == TRUE

\* No other connection of the process has a lock that stands in the way.
AloneInProcess(c) == eFileLock[c] = inode[ProcOf[c]].eFileLock

Level(c, level) ==
  /\ eFileLock' = [eFileLock EXCEPT ![c] = level]
  /\ inode' = [inode EXCEPT ![ProcOf[c]].eFileLock = level]

LockReserved(c) ==
  /\ Enter(c) /\ eFileLock[c] = SHARED_LOCK /\ AloneInProcess(c)
  /\ SetLock(ProcOf[c], "reserved", "write")
  /\ Level(c, RESERVED_LOCK)
  /\ UNCHANGED <<open, pc>>

SlipLockPending(c) ==
  /\ Enter(c) /\ eFileLock[c] = RESERVED_LOCK /\ AloneInProcess(c)
  /\ UNCHANGED os
  /\ Level(c, PENDING_LOCK)
  /\ At(c, "exclusive")
  /\ UNCHANGED open

\* On the way from RESERVED the pending byte keeps new readers out, and is
\* kept when the rest of the call fails.
LockPending(c) ==
  /\ Enter(c) /\ eFileLock[c] = RESERVED_LOCK /\ AloneInProcess(c)
  /\ SetLock(ProcOf[c], "pending", "write")
  /\ Level(c, PENDING_LOCK)
  /\ At(c, "exclusive")
  /\ UNCHANGED open

\* The second half of that call, or the whole of one from SHARED (to roll
\* back a hot journal) or from PENDING (a new attempt).
LockExclusive(c) ==
  /\ \/ pc[c] = "exclusive"
     \/ /\ Enter(c) /\ AloneInProcess(c)
        /\ eFileLock[c] \in {SHARED_LOCK, PENDING_LOCK}
  /\ IF inode[ProcOf[c]].nShared = 1 /\ Grants(ProcOf[c], "shared", "write")
     THEN /\ SetLock(ProcOf[c], "shared", "write")
          /\ Level(c, EXCLUSIVE_LOCK)
     ELSE UNCHANGED <<os, inode, eFileLock>>
  /\ At(c, "idle")
  /\ UNCHANGED open

-----------------------------------------------------------------------------
\* posixUnlock()

UnlockToShared(c) ==
  /\ Enter(c) /\ eFileLock[c] > SHARED_LOCK
  /\ os' = [os EXCEPT ![ProcOf[c]]["shared"] = "read"]
  /\ At(c, "bytes")
  /\ UNCHANGED <<inode, eFileLock, open>>

\* Both bytes in one call: PENDING_BYTE+1 is RESERVED_BYTE.
UnlockBytes(c) ==
  /\ pc[c] \in {"bytes", "bytesAll"}
  /\ os' = [os EXCEPT ![ProcOf[c]]["pending"] = "none",
                      ![ProcOf[c]]["reserved"] = "none"]
  /\ inode' = [inode EXCEPT ![ProcOf[c]].eFileLock = SHARED_LOCK]
  /\ IF pc[c] = "bytes"
     THEN /\ eFileLock' = [eFileLock EXCEPT ![c] = SHARED_LOCK]
          /\ At(c, "idle")
     ELSE At(c, "all") /\ UNCHANGED eFileLock
  /\ UNCHANGED open

UnlockFromMore(c) ==
  /\ Enter(c) /\ eFileLock[c] > SHARED_LOCK
  /\ At(c, "bytesAll")
  /\ UNCHANGED <<os, inode, eFileLock, open>>

SlipUnlockAll(c) ==
  LET p == ProcOf[c]
      i == inode[p]
  IN /\ \/ pc[c] = "all"
        \/ Enter(c) /\ eFileLock[c] = SHARED_LOCK
     /\ os' = [os EXCEPT ![p] = Free]
     /\ inode' = IF i.nShared = 1
                 THEN [inode EXCEPT ![p] = NoInode]
                 ELSE [inode EXCEPT ![p] =
                         Info(i.eFileLock, i.nShared - 1, i.nLock - 1, i.unused)]
     /\ eFileLock' = [eFileLock EXCEPT ![c] = NO_LOCK]
     /\ At(c, "idle")
     /\ UNCHANGED open

\* The last connection of the process gives the locks back; nLock at zero
\* also closes the descriptors that wait for it.
UnlockAll(c) ==
  LET p == ProcOf[c]
      i == inode[p]
  IN /\ \/ pc[c] = "all"
        \/ Enter(c) /\ eFileLock[c] = SHARED_LOCK
     /\ IF i.nShared = 1
        THEN /\ os' = [os EXCEPT ![p] = Free]
             /\ inode' = [inode EXCEPT ![p] = NoInode]
        ELSE /\ inode' = [inode EXCEPT ![p] =
                            Info(i.eFileLock, i.nShared - 1, i.nLock - 1, i.unused)]
             /\ UNCHANGED os
     /\ eFileLock' = [eFileLock EXCEPT ![c] = NO_LOCK]
     /\ At(c, "idle")
     /\ UNCHANGED open

-----------------------------------------------------------------------------
\* unixClose(), after its call of unixUnlock(NO_LOCK), and unixOpen()

\* close() of any descriptor drops every lock of the process on the file;
\* so it has to wait while a connection of the process has one.
Close(c) ==
  /\ Enter(c) /\ eFileLock[c] = NO_LOCK
  /\ open' = open \ {c}
  /\ IF inode[ProcOf[c]].nLock > 0
     THEN inode' = [inode EXCEPT ![ProcOf[c]].unused = TRUE] /\ UNCHANGED os
     ELSE os' = [os EXCEPT ![ProcOf[c]] = Free] /\ UNCHANGED inode
  /\ UNCHANGED <<eFileLock, pc>>

Open(c) ==
  /\ c \notin open
  /\ open' = open \cup {c}
  /\ UNCHANGED <<os, inode, eFileLock, pc>>

\* The process ends, in whatever call it is.
Kill(p) ==
  LET its == {c \in Conns : ProcOf[c] = p}
  IN /\ os' = [os EXCEPT ![p] = Free]
     /\ inode' = [inode EXCEPT ![p] = NoInode]
     /\ eFileLock' = [c \in Conns |-> IF c \in its THEN NO_LOCK ELSE eFileLock[c]]
     /\ pc' = [c \in Conns |-> IF c \in its THEN "idle" ELSE pc[c]]
     /\ open' = open \cup its

-----------------------------------------------------------------------------
Init ==
  /\ os = [p \in Procs |-> Free]
  /\ inode = [p \in Procs |-> NoInode]
  /\ eFileLock = [c \in Conns |-> NO_LOCK]
  /\ open = Conns
  /\ pc = [c \in Conns |-> "idle"]

\* The rest of a call that has begun.
Continue(c) ==
  \/ LockSharedRange(c) \/ LockSharedDone(c)
  \/ pc[c] = "exclusive" /\ LockExclusive(c)
  \/ UnlockBytes(c)
  \/ pc[c] = "all" /\ UnlockAll(c)

Call(c) ==
  \/ LockSharedAgain(c) \/ LockSharedPending(c) \/ LockReserved(c)
  \/ LockPending(c)
  \/ pc[c] = "idle" /\ LockExclusive(c)
  \/ UnlockToShared(c) \/ UnlockFromMore(c)
  \/ pc[c] = "idle" /\ UnlockAll(c)
  \/ Close(c) \/ Open(c)

Next == \/ \E c \in Conns : Continue(c) \/ Call(c)
        \/ \E p \in Procs : Kill(p)

\* A call that has begun ends.  A reader ends its transaction; a connection
\* that waits for EXCLUSIVE with PENDING in its hands tries again, as the
\* busy handler of pager_wait_on_lock() makes it do.
Fairness ==
  \A c \in Conns :
    /\ WF_vars(Continue(c))
    /\ WF_vars(pc[c] = "idle" /\ eFileLock[c] = SHARED_LOCK /\ UnlockAll(c))
    /\ WF_vars(pc[c] = "idle" /\ eFileLock[c] = PENDING_LOCK /\ LockExclusive(c))

Spec == Init /\ [][Next]_vars /\ Fairness

-----------------------------------------------------------------------------
Holders(p) == {c \in Conns : ProcOf[c] = p /\ eFileLock[c] # NO_LOCK}

\* The state is well formed, and the counts that the connections of a process
\* share (nShared, nLock) are those of its connections with a lock.
TypeOK ==
  /\ os \in [Procs -> [Places -> {"none", "read", "write"}]]
  /\ inode \in [Procs -> [eFileLock : NO_LOCK..EXCLUSIVE_LOCK,
                          nShared : 0..Cardinality(Conns),
                          nLock : 0..Cardinality(Conns), unused : BOOLEAN]]
  /\ eFileLock \in [Conns -> NO_LOCK..EXCLUSIVE_LOCK]
  /\ open \in SUBSET Conns
  /\ pc \in [Conns -> Steps]
  /\ \A p \in Procs : /\ inode[p].nShared = Cardinality(Holders(p))
                      /\ inode[p].nLock = Cardinality(Holders(p))

\* The lock that the other connections have to respect: SHARED from the
\* moment the shared range is read-locked; and a lock on its way down is
\* what its places still protect.
Effective(c) ==
  LET its == os[ProcOf[c]]
  IN IF pc[c] = "drop" THEN SHARED_LOCK
     ELSE IF pc[c] = "all" /\ its["shared"] = "read" THEN SHARED_LOCK
     ELSE IF pc[c] = "bytes" /\ eFileLock[c] = EXCLUSIVE_LOCK
             /\ its["pending"] = "none" THEN SHARED_LOCK
     ELSE eFileLock[c]

Promise == INSTANCE FileLock WITH
  lock <- [c \in Conns |-> Effective(c)],
  reserver <- {c \in Conns : /\ eFileLock[c] > SHARED_LOCK
                             /\ os[ProcOf[c]]["reserved"] = "write"}

\* The calls of unixLock() and posixUnlock() keep what the five locks
\* promise, whichever processes the connections are in and however the
\* system calls of two processes interleave.
Refinement == Promise!LockSpec

\* Every connection is covered by locks of its process: what one of them
\* gives back or closes takes nothing from another (nShared, nLock and
\* pUnused of unixInodeInfo).
Covered ==
  \A c \in Conns :
    LET its == os[ProcOf[c]]
    IN /\ Effective(c) >= SHARED_LOCK => its["shared"] # "none"
       /\ eFileLock[c] = EXCLUSIVE_LOCK /\ pc[c] = "idle" => its["shared"] = "write"
       /\ eFileLock[c] = PENDING_LOCK /\ pc[c] = "idle" => its["pending"] = "write"
       /\ eFileLock[c] = RESERVED_LOCK /\ pc[c] = "idle" => its["reserved"] = "write"

\* PENDING is there so that readers do not starve a writer: a connection
\* that waits for EXCLUSIVE gets it, or gives up, as readers come and go;
\* provided that no other process reads with several connections in turns.
WriterGetsIn ==
  \A c \in Conns :
    (\A d, e \in Conns \ Mates(c) : ProcOf[d] = ProcOf[e] => d = e)
      => ((eFileLock[c] = PENDING_LOCK) ~> (eFileLock[c] # PENDING_LOCK))
=============================================================================
