------------------------------ MODULE FileLock ------------------------------
(***************************************************************************)
(* What the five locks of a database file promise to the connections that  *)
(* use it (os.h, and sqlite3OsLock(), sqlite3OsUnlock() and                *)
(* sqlite3OsCheckReservedLock() as the pager calls them).  UnixLock shows  *)
(* that the advisory locks of the operating system give that promise;      *)
(* Pager is built on it.                                                   *)
(***************************************************************************)
EXTENDS Integers

CONSTANT Conns  \* the connections to one database file

NO_LOCK == 0
SHARED_LOCK == 1
RESERVED_LOCK == 2
PENDING_LOCK == 3
EXCLUSIVE_LOCK == 4

Levels == NO_LOCK..EXCLUSIVE_LOCK

VARIABLES
  lock,     \* lock[c]: the lock connection c has on the file
  reserver  \* connections that went through RESERVED: the reserved byte

lockVars == <<lock, reserver>>

LockInit == lock = [c \in Conns |-> NO_LOCK] /\ reserver = {}

Others(c) == Conns \ {c}

SlipLockShared(c) ==
  /\ lock[c] = NO_LOCK
  /\ \/ \A d \in Others(c) : lock[d] < PENDING_LOCK
     \/ \E d \in Others(c) : lock[d] >= SHARED_LOCK
  /\ lock' = [lock EXCEPT ![c] = SHARED_LOCK]
  /\ UNCHANGED reserver

\* EXCLUSIVE keeps readers out.  PENDING keeps the first of them out: a
\* process that is reading already lets its other connections in.
LockShared(c) ==
  /\ lock[c] = NO_LOCK
  /\ \A d \in Others(c) : lock[d] < EXCLUSIVE_LOCK
  /\ \/ \A d \in Others(c) : lock[d] < PENDING_LOCK
     \/ \E d \in Others(c) : lock[d] = SHARED_LOCK
  /\ lock' = [lock EXCEPT ![c] = SHARED_LOCK]
  /\ UNCHANGED reserver

\* One connection at a time may mean to write.
LockReserved(c) ==
  /\ lock[c] = SHARED_LOCK
  /\ \A d \in Others(c) : lock[d] <= SHARED_LOCK
  /\ lock' = [lock EXCEPT ![c] = RESERVED_LOCK]
  /\ reserver' = {c}

\* A request for EXCLUSIVE by the holder of RESERVED begins with PENDING,
\* which stays when the readers are still there.
LockPending(c) ==
  /\ lock[c] = RESERVED_LOCK
  /\ lock' = [lock EXCEPT ![c] = PENDING_LOCK]
  /\ UNCHANGED reserver

\* EXCLUSIVE comes after PENDING, or, to roll back a hot journal, straight
\* after SHARED: the reserved byte then stays free.
LockExclusive(c) ==
  /\ lock[c] \in {SHARED_LOCK, PENDING_LOCK}
  /\ \A d \in Others(c) : lock[d] = NO_LOCK
  /\ lock' = [lock EXCEPT ![c] = EXCLUSIVE_LOCK]
  /\ UNCHANGED reserver

Unlock(c, level) ==
  /\ level \in {NO_LOCK, SHARED_LOCK}
  /\ lock[c] > level
  /\ lock' = [lock EXCEPT ![c] = level]
  /\ reserver' = reserver \ {c}

\* An EXCLUSIVE lock that is given up altogether loses the reserved byte
\* first.
LeaveReserved(c) ==
  /\ lock[c] = EXCLUSIVE_LOCK
  /\ reserver' = reserver \ {c}
  /\ UNCHANGED lock

\* The operating system drops the locks of a process that ends.
Vanish(gone) ==
  /\ lock' = [c \in Conns |-> IF c \in gone THEN NO_LOCK ELSE lock[c]]
  /\ reserver' = reserver \ gone

\* sqlite3OsCheckReservedLock() of a connection that has only SHARED.
ReservedSeen(c) == reserver \ {c} # {}

LockNext ==
  \/ \E c \in Conns : \/ LockShared(c) \/ LockReserved(c) \/ LockPending(c)
                      \/ LockExclusive(c) \/ LeaveReserved(c)
                      \/ \E level \in {NO_LOCK, SHARED_LOCK} : Unlock(c, level)
  \/ \E gone \in SUBSET Conns : Vanish(gone)

LockSpec == LockInit /\ [][LockNext]_lockVars

LockTypeOK == lock \in [Conns -> Levels] /\ reserver \in SUBSET Conns

\* A writer of the file is alone with it: a connection with EXCLUSIVE is the
\* only one with a lock, and at most one has more than SHARED (the five
\* locks of os.h, which the pager relies on for isolation).
Exclusion ==
  \A c \in Conns : \A d \in Others(c) :
    /\ lock[c] = EXCLUSIVE_LOCK => lock[d] = NO_LOCK
    /\ lock[c] > SHARED_LOCK => lock[d] <= SHARED_LOCK
=============================================================================
