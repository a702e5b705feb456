---------------------------- MODULE SharedCache -----------------------------
(***************************************************************************)
(* Connections of one process on a shared cache (btree.c): transactions of *)
(* the b-tree layer, read- and write-locks on tables, BTS_EXCLUSIVE and    *)
(* BTS_PENDING, and sqlite3_unlock_notify() (notify.c), by which a         *)
(* connection that met a lock waits until the other one is done.           *)
(*                                                                         *)
(* An action is what runs under the mutex of the shared cache or under the *)
(* main mutex: the locks go in one action, whoever waits is told in the    *)
(* next.  The list of locks has no order here: the code takes the first    *)
(* one that is in the way.  Left out: locks on the file (Pager), read-     *)
(* uncommitted mode, savepoints and errors other than SQLITE_LOCKED.       *)
(***************************************************************************)
EXTENDS Integers, FiniteSets

CONSTANTS
  Conns,    \* connections
  Tables,   \* root pages; SCHEMA_ROOT is one of them
  Browsers, \* connections that leave a SELECT open while they go on,
  Writers,  \* that write,
  Loners,   \* and that use BEGIN EXCLUSIVE
  None

SCHEMA_ROOT == 1
ASSUME SharedCacheAssumption ==
  /\ SCHEMA_ROOT \in Tables /\ None \notin Conns /\ IsFiniteSet(Conns)
  /\ Browsers \subseteq Conns /\ Writers \subseteq Conns /\ Loners \subseteq Conns

TRANS_NONE == 0
TRANS_READ == 1
TRANS_WRITE == 2
READ_LOCK == 1
WRITE_LOCK == 2

VARIABLES
  inTrans,        \* Btree.inTrans, of each connection
  inTransaction,  \* BtShared.inTransaction
  pWriter,        \* the connection with the write-transaction, or None
  exclusive, pending,  \* BTS_EXCLUSIVE, BTS_PENDING
  eLock,          \* the lock of a connection on a table, 0 for none
  autoCommit,     \* FALSE: after BEGIN
  open,           \* the connection has a SELECT that is not finished
  pc,             \* where the connection is in its statement
  pBlockingConnection, pUnlockConnection

trans == <<inTrans, inTransaction, pWriter, exclusive, pending, eLock>>
waits == <<pBlockingConnection, pUnlockConnection>>
vars == <<trans, waits, autoCommit, open, pc>>

At(c, p) == pc[c] = p
Goto(c, p) == pc' = [pc EXCEPT ![c] = p]

-----------------------------------------------------------------------------
\* Locks

\* A mutant: read-locks of others are overlooked.
SlipInTheWay(c, t, lock) ==
  IF exclusive /\ pWriter # c THEN {pWriter}
  ELSE {d \in Conns \ {c} : eLock[d][t] = WRITE_LOCK}

\* querySharedCacheTableLock(): who is in the way of a lock.
InTheWay(c, t, lock) ==
  IF exclusive /\ pWriter # c THEN {pWriter}
  ELSE {d \in Conns \ {c} : eLock[d][t] # 0 /\ eLock[d][t] # lock}

\* sqlite3ConnectionBlocked(), and the statement fails with SQLITE_LOCKED.
Blocked(c, d) ==
  /\ pBlockingConnection' = [pBlockingConnection EXCEPT ![c] = d]
  /\ Goto(c, "failed")
  /\ UNCHANGED pUnlockConnection

\* btreeBeginTrans(): who is in the way of a transaction.  wrflag: 0 to read,
\* 1 to write, 2 to be alone.
BeginBlockers(c, wrflag) ==
  IF (wrflag > 0 /\ inTransaction = TRANS_WRITE) \/ pending THEN {pWriter}
  ELSE IF wrflag = 2 /\ \E d \in Conns \ {c} : eLock[d][SCHEMA_ROOT] # 0
  THEN {d \in Conns \ {c} : \E t \in Tables : eLock[d][t] # 0}
  ELSE InTheWay(c, SCHEMA_ROOT, READ_LOCK)

IsBegun(c, wrflag) == inTrans[c] = TRANS_WRITE \/ (inTrans[c] = TRANS_READ /\ wrflag = 0)

\* A transaction has a read-lock on the schema.
Begin(c, wrflag) ==
  /\ inTrans' = [inTrans EXCEPT ![c] = IF wrflag > 0 THEN TRANS_WRITE ELSE TRANS_READ]
  /\ inTransaction' = IF inTrans'[c] > inTransaction THEN inTrans'[c] ELSE inTransaction
  /\ eLock' = IF inTrans[c] = TRANS_NONE
              THEN [eLock EXCEPT ![c][SCHEMA_ROOT] = READ_LOCK] ELSE eLock
  /\ IF wrflag > 0 THEN pWriter' = c /\ exclusive' = (wrflag = 2)
     ELSE UNCHANGED <<pWriter, exclusive>>
  /\ UNCHANGED pending

\* OP_Transaction, at the start of a statement; p: where it goes on.
BeginTrans(c, wrflag, p) ==
  IF IsBegun(c, wrflag)
  THEN Goto(c, p) /\ UNCHANGED <<trans, waits>>
  ELSE IF BeginBlockers(c, wrflag) = {}
  THEN Begin(c, wrflag) /\ Goto(c, p) /\ UNCHANGED waits
  ELSE (\E d \in BeginBlockers(c, wrflag) : Blocked(c, d)) /\ UNCHANGED trans

-----------------------------------------------------------------------------
\* The end of a transaction

nTransaction == Cardinality({c \in Conns : inTrans[c] # TRANS_NONE})

Unlock(c) == [eLock EXCEPT ![c] = [t \in Tables |-> 0]]

\* A mutant: who is refused because of BTS_PENDING, and has no transaction,
\* clears the flag when its statement ends.
SlipClearsPending(c) == pWriter = c \/ nTransaction = 2

\* clearAllSharedCacheTableLocks(): BTS_PENDING goes with the writer, or with
\* the last transaction beside it.  Without this guard of
\* btreeEndTransaction() on a transaction "the BTS_PENDING flag may be
\* incorrectly cleared".
ClearsPending(c) ==
  inTrans[c] # TRANS_NONE /\ (pWriter = c \/ nTransaction = 2)

\* BtreeCommitPhaseTwo() or BtreeRollback(), with btreeEndTransaction(): while
\* another statement of the connection is active it keeps its read-locks
\* (downgradeAllSharedCacheTableLocks()), else they go
\* (clearAllSharedCacheTableLocks()).
EndTransaction(c, active) ==
  LET mine == pWriter = c
      left == IF inTrans[c] = TRANS_WRITE THEN TRANS_READ ELSE inTransaction
  IN /\ pWriter' = IF mine THEN None ELSE pWriter
     /\ exclusive' = (exclusive /\ ~mine)
     /\ IF inTrans[c] # TRANS_NONE /\ active
        THEN /\ inTrans' = [inTrans EXCEPT ![c] = TRANS_READ]
             /\ inTransaction' = left
             /\ pending' = (pending /\ ~mine)
             /\ eLock' = IF ~mine THEN eLock
                         ELSE [d \in Conns |-> [t \in Tables |->
                                 IF eLock[d][t] = 0 THEN 0 ELSE READ_LOCK]]
        ELSE /\ inTrans' = [inTrans EXCEPT ![c] = TRANS_NONE]
             /\ inTransaction' = IF nTransaction' = 0 THEN TRANS_NONE ELSE left
             /\ pending' = (pending /\ ~ClearsPending(c))
             /\ eLock' = Unlock(c)

-----------------------------------------------------------------------------
\* Statements

\* A statement that reads or writes.
Start(c, wrflag) ==
  /\ At(c, "idle")
  /\ BeginTrans(c, wrflag, IF wrflag = 0 THEN "read" ELSE "write")
  /\ UNCHANGED <<autoCommit, open>>

\* BEGIN, BEGIN IMMEDIATE and BEGIN EXCLUSIVE.
BeginStatement(c, wrflag) ==
  /\ At(c, "idle") /\ autoCommit[c]
  /\ IF wrflag = 0 THEN Goto(c, "idle") /\ UNCHANGED <<trans, waits>>
     ELSE BeginTrans(c, wrflag, "idle")
  /\ autoCommit' = [autoCommit EXCEPT ![c] = (pc'[c] = "failed")]
  /\ UNCHANGED open

\* OP_TableLock; a writer that meets readers sets BTS_PENDING.
LockTable(c, t, lock) ==
  LET others == InTheWay(c, t, lock)
  IN /\ At(c, "read") \/ At(c, "write")
     /\ lock = WRITE_LOCK => At(c, "write")
     /\ eLock[c][t] < lock
     /\ IF others = {}
        THEN /\ eLock' = [eLock EXCEPT ![c][t] = lock]
             /\ UNCHANGED <<pending, pc, waits>>
        ELSE /\ \E d \in others : Blocked(c, d)
             /\ pending' = (pending \/ (lock = WRITE_LOCK /\ ~(exclusive /\ pWriter # c)))
             /\ UNCHANGED eLock
     /\ UNCHANGED <<inTrans, inTransaction, pWriter, exclusive, autoCommit, open>>

\* The SELECT is stepped, and stays open.
Step(c) ==
  /\ At(c, "read") /\ c \in Browsers /\ ~open[c]
  /\ open' = [open EXCEPT ![c] = TRUE]
  /\ Goto(c, "idle")
  /\ UNCHANGED <<trans, waits, autoCommit>>

\* sqlite3VdbeHalt(): outside of BEGIN and COMMIT each statement is a
\* transaction; the end of one is told in Unlocked.
Halt(c) ==
  LET failed == At(c, "failed")
  IN /\ failed \/ At(c, "read") \/ At(c, "write")
     /\ IF autoCommit[c]
        THEN EndTransaction(c, open[c]) /\ Goto(c, IF failed THEN "told" ELSE "ended")
        ELSE UNCHANGED trans /\ Goto(c, IF failed THEN "locked" ELSE "idle")
     /\ UNCHANGED <<waits, autoCommit, open>>

Close(c) ==
  /\ (At(c, "idle") \/ At(c, "deadlock")) /\ open[c]
  /\ open' = [open EXCEPT ![c] = FALSE]
  /\ IF autoCommit[c]
     THEN EndTransaction(c, FALSE) /\ Goto(c, "ended")
     ELSE UNCHANGED <<trans, pc>>
  /\ UNCHANGED <<waits, autoCommit>>

\* COMMIT or ROLLBACK.
EndStatement(c) ==
  /\ (At(c, "idle") \/ At(c, "deadlock")) /\ ~autoCommit[c]
  /\ autoCommit' = [autoCommit EXCEPT ![c] = TRUE]
  /\ EndTransaction(c, open[c])
  /\ Goto(c, "ended")
  /\ UNCHANGED <<waits, open>>

-----------------------------------------------------------------------------
\* Unlock-notify

\* A mutant: one of those who wait is called back.
SlipUnlocked(c) ==
  LET all == {d \in Conns : pUnlockConnection[d] = c}
      one == IF all = {} THEN {} ELSE {CHOOSE d \in all : TRUE}
  IN /\ At(c, "ended") \/ At(c, "told")
     /\ pBlockingConnection' =
          [d \in Conns |-> IF pBlockingConnection[d] = c THEN None ELSE pBlockingConnection[d]]
     /\ pUnlockConnection' =
          [d \in Conns |-> IF d \in one THEN None ELSE pUnlockConnection[d]]
     /\ pc' = [d \in Conns |->
          IF d = c THEN IF At(c, "told") THEN "locked" ELSE "idle"
          ELSE IF d \in one THEN "idle" ELSE pc[d]]
     /\ UNCHANGED <<trans, autoCommit, open>>

\* sqlite3ConnectionUnlocked(): those who wait for c are called back.
Unlocked(c) ==
  /\ At(c, "ended") \/ At(c, "told")
  /\ pBlockingConnection' =
       [d \in Conns |-> IF pBlockingConnection[d] = c THEN None ELSE pBlockingConnection[d]]
  /\ pUnlockConnection' =
       [d \in Conns |-> IF pUnlockConnection[d] = c THEN None ELSE pUnlockConnection[d]]
  /\ pc' = [d \in Conns |->
       IF d = c THEN IF At(c, "told") THEN "locked" ELSE "idle"
       ELSE IF pUnlockConnection[d] = c THEN "idle" ELSE pc[d]]
  /\ UNCHANGED <<trans, autoCommit, open>>

\* A mutant: nothing is found.
SlipWaitsFor(c) == {}

\* Whom c would wait for, on the way along pUnlockConnection: what the loop of
\* sqlite3_unlock_notify() meets.
WaitsFor(c) ==
  {d \in Conns : \A S \in SUBSET Conns :
     /\ pBlockingConnection[c] \in S
     /\ \A e \in S : pUnlockConnection[e] \in S \cup {None}
     => d \in S}

\* sqlite3_unlock_notify(): called back at once, deadlock, or wait.
Register(c) ==
  /\ At(c, "locked")
  /\ IF pBlockingConnection[c] = None
     THEN Goto(c, "idle") /\ UNCHANGED pUnlockConnection
     ELSE IF c \in WaitsFor(c)
     THEN Goto(c, "deadlock") /\ UNCHANGED pUnlockConnection
     ELSE /\ pUnlockConnection' =
               [pUnlockConnection EXCEPT ![c] = pBlockingConnection[c]]
          /\ Goto(c, "waiting")
  /\ UNCHANGED <<pBlockingConnection, trans, autoCommit, open>>

\* The application does not wait.
GiveUp(c) ==
  /\ At(c, "locked")
  /\ Goto(c, "idle")
  /\ UNCHANGED <<trans, waits, autoCommit, open>>

-----------------------------------------------------------------------------
Init ==
  /\ inTrans = [c \in Conns |-> TRANS_NONE] /\ inTransaction = TRANS_NONE
  /\ pWriter = None /\ exclusive = FALSE /\ pending = FALSE
  /\ eLock = [c \in Conns |-> [t \in Tables |-> 0]]
  /\ autoCommit = [c \in Conns |-> TRUE] /\ open = [c \in Conns |-> FALSE]
  /\ pc = [c \in Conns |-> "idle"]
  /\ pBlockingConnection = [c \in Conns |-> None]
  /\ pUnlockConnection = [c \in Conns |-> None]

Kinds(c) == {0} \cup (IF c \in Writers THEN {1} ELSE {})
                \cup (IF c \in Loners THEN {2} ELSE {})

Statement(c) ==
  \/ \E wrflag \in Kinds(c) \ {2} : Start(c, wrflag)
  \/ \E wrflag \in Kinds(c) : BeginStatement(c, wrflag)
  \/ \E t \in Tables, lock \in {READ_LOCK, WRITE_LOCK} : LockTable(c, t, lock)
  \/ Step(c)

Next ==
  \E c \in Conns :
    \/ Statement(c) \/ Halt(c) \/ Close(c) \/ EndStatement(c)
    \/ Unlocked(c) \/ Register(c) \/ GiveUp(c)

\* What ends a transaction, if nothing else of the connection keeps it.
Finish(c) == EndStatement(c) \/ (autoCommit[c] /\ Close(c))

\* A statement and a call end, and an application finishes what it has begun,
\* also when it runs other statements again and again; it may begin a new
\* transaction at once.
Fairness ==
  \A c \in Conns :
    WF_vars(Halt(c) \/ Unlocked(c) \/ Register(c) \/ GiveUp(c)) /\ SF_vars(Finish(c))

Spec == Init /\ [][Next]_vars /\ Fairness

-----------------------------------------------------------------------------
\* The assertions of btree.c: a write-lock keeps all others off the table,
\* who is alone is alone, locks are those of a transaction, and whenever
\* pWriter->db is followed there is a writer.
LocksOK ==
  /\ \A c \in Conns : \A d \in Conns \ {c}, t \in Tables :
       eLock[c][t] = WRITE_LOCK => eLock[d][t] = 0
  /\ exclusive => \A d \in Conns \ {pWriter} : inTrans[d] = TRANS_NONE
  /\ \A c \in Conns, t \in Tables : eLock[c][t] <= inTrans[c]
  /\ \A c \in Conns : inTrans[c] = TRANS_WRITE <=> pWriter = c
  /\ pending \/ exclusive \/ inTransaction = TRANS_WRITE => pWriter \in Conns
  /\ \A c \in Conns : inTransaction >= inTrans[c]

\* Nobody waits for itself, over any number of others: in every group that
\* waits there is one that waits for nobody of the group.  So the loop in
\* sqlite3_unlock_notify() ends, and "indirect deadlock is also detected".
NoWaitCycle ==
  \A S \in SUBSET Conns : S # {} => \E c \in S : pUnlockConnection[c] \notin S

\* While BTS_PENDING is set nobody begins a transaction, so those the writer
\* waits for become fewer; and the flag stays until the writer has ended its
\* transaction or no other is left (btree.c: it "may be incorrectly cleared"
\* when a connection without a transaction releases its locks).
PendingKeepsReadersOut ==
  [][pending =>
       /\ \A c \in Conns : inTrans'[c] # TRANS_NONE => inTrans[c] # TRANS_NONE
       /\ \/ pending'
          \/ pWriter' # pWriter
          \/ \A c \in Conns \ {pWriter} : inTrans'[c] = TRANS_NONE]_vars

\* Who waits is called back in the end.
WaitersAreWoken == \A c \in Conns : At(c, "waiting") ~> ~At(c, "waiting")
=============================================================================
