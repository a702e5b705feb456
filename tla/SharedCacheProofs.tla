-------------------------- MODULE SharedCacheProofs --------------------------
(***************************************************************************)
(* Proofs about SharedCache, for any finite set of connections and any     *)
(* tables: the locks are what btree.c asserts, BTS_PENDING keeps new       *)
(* transactions out, nobody waits in a circle, and whoever waits waits for *)
(* a connection that has yet to call back.                                 *)
(***************************************************************************)
EXTENDS SharedCache, FiniteSetTheorems, TLAPS

Places == {"idle", "read", "write", "failed", "told", "ended", "locked",
           "waiting", "deadlock"}

TransType ==
  /\ inTrans \in [Conns -> {TRANS_NONE, TRANS_READ, TRANS_WRITE}]
  /\ inTransaction \in {TRANS_NONE, TRANS_READ, TRANS_WRITE}
  /\ pWriter \in Conns \cup {None}
  /\ exclusive \in BOOLEAN /\ pending \in BOOLEAN
  /\ eLock \in [Conns -> [Tables -> {0, READ_LOCK, WRITE_LOCK}]]

WaitType ==
  /\ autoCommit \in [Conns -> BOOLEAN] /\ open \in [Conns -> BOOLEAN]
  /\ pc \in [Conns -> Places]
  /\ pBlockingConnection \in [Conns -> Conns \cup {None}]
  /\ pUnlockConnection \in [Conns -> Conns \cup {None}]

\* Who has a transaction has a lock on the schema, so that who wants to be
\* alone sees it.
SchemaInv == \A c \in Conns : inTrans[c] # TRANS_NONE => eLock[c][SCHEMA_ROOT] # 0

\* A statement that runs has its transaction.
StatementInv ==
  \A c \in Conns : /\ At(c, "read") => inTrans[c] # TRANS_NONE
                   /\ At(c, "write") => inTrans[c] = TRANS_WRITE

\* The five parts of LocksOK that are about one transaction each.
WriteLocksInv ==
  \A c \in Conns : \A d \in Conns \ {c}, t \in Tables :
    eLock[c][t] = WRITE_LOCK => eLock[d][t] = 0

AloneInv == exclusive => \A d \in Conns \ {pWriter} : inTrans[d] = TRANS_NONE

LocksOfTransInv == \A c \in Conns, t \in Tables : eLock[c][t] <= inTrans[c]

WriterInv ==
  /\ \A c \in Conns : inTrans[c] = TRANS_WRITE <=> pWriter = c
  /\ pending \/ exclusive \/ inTransaction = TRANS_WRITE => pWriter \in Conns
  /\ \A c \in Conns : inTransaction >= inTrans[c]

\* Who has yet to tell that its transaction is over.
Owes(d) == inTrans[d] # TRANS_NONE \/ At(d, "ended") \/ At(d, "told")

\* Who waits waits for the connection that was in its way, and that one owes
\* a call.
WaitInv ==
  /\ \A c \in Conns : pBlockingConnection[c] # None => Owes(pBlockingConnection[c])
  /\ \A c \in Conns : At(c, "waiting") <=> pUnlockConnection[c] # None
  /\ \A c \in Conns : At(c, "waiting") =>
       pUnlockConnection[c] = pBlockingConnection[c]

TransInv == /\ TransType /\ SchemaInv /\ WriteLocksInv /\ AloneInv
            /\ LocksOfTransInv /\ WriterInv

IInv == TransInv /\ WaitType /\ StatementInv /\ WaitInv /\ NoWaitCycle

\* No call is lost: whoever waits is registered with a connection that has
\* not called back yet (between the check for pBlockingConnection and the
\* entry in the list of sqlite3_unlock_notify() nothing slips through).
NoLostCall ==
  \A c \in Conns : At(c, "waiting") =>
    pUnlockConnection[c] \in Conns /\ Owes(pUnlockConnection[c])

-----------------------------------------------------------------------------
USE DEF TRANS_NONE, TRANS_READ, TRANS_WRITE, READ_LOCK, WRITE_LOCK

\* Nobody in the way of a lock: the others have the same kind of lock on the
\* table or none, and nobody else is alone.
LEMMA NobodyInTheWay ==
  ASSUME NEW c \in Conns, NEW t, NEW lock, InTheWay(c, t, lock) = {}
  PROVE  /\ exclusive => pWriter = c
         /\ \A d \in Conns \ {c} : eLock[d][t] # 0 => eLock[d][t] = lock
BY DEF InTheWay

\* Whoever is in the way is another connection.
LEMMA BlockersAreOthers ==
  ASSUME TransInv, NEW c \in Conns
  PROVE  /\ \A t, lock : /\ InTheWay(c, t, lock) \subseteq Conns
                         /\ t \in Tables /\ lock # 0 =>
                            \A d \in InTheWay(c, t, lock) : inTrans[d] # TRANS_NONE
         /\ \A wrflag : /\ BeginBlockers(c, wrflag) \subseteq Conns
                        /\ \A d \in BeginBlockers(c, wrflag) : inTrans[d] # TRANS_NONE
<1>1. /\ pending \/ exclusive \/ inTransaction = TRANS_WRITE =>
           pWriter \in Conns /\ inTrans[pWriter] = TRANS_WRITE
      /\ \A d \in Conns, t \in Tables : eLock[d][t] # 0 => inTrans[d] # TRANS_NONE
  BY DEF TransInv, TransType, WriterInv, LocksOfTransInv
<1>2. ASSUME NEW t, NEW lock
      PROVE  /\ InTheWay(c, t, lock) \subseteq Conns
             /\ t \in Tables => \A d \in InTheWay(c, t, lock) : inTrans[d] # TRANS_NONE
  BY <1>1 DEF InTheWay
<1>3. SCHEMA_ROOT \in Tables
  BY SharedCacheAssumption
<1>4. ASSUME NEW wrflag
      PROVE  /\ BeginBlockers(c, wrflag) \subseteq Conns
             /\ \A d \in BeginBlockers(c, wrflag) : inTrans[d] # TRANS_NONE
  BY <1>1, <1>2, <1>3 DEF BeginBlockers
<1>5. QED
  BY <1>2, <1>4

-----------------------------------------------------------------------------
\* A transaction that begins with nobody in the way.
LEMMA BeginKeeps ==
  ASSUME TransInv, NEW c \in Conns, NEW wrflag \in {0, 1, 2},
         ~IsBegun(c, wrflag), BeginBlockers(c, wrflag) = {}, Begin(c, wrflag)
  PROVE  /\ TransInv'
         /\ inTrans'[c] # TRANS_NONE /\ (wrflag > 0 => inTrans'[c] = TRANS_WRITE)
         /\ \A d \in Conns \ {c} : inTrans'[d] = inTrans[d]
         /\ ~pending
<1> USE DEF TransInv, TransType
<1>1. SCHEMA_ROOT \in Tables /\ None \notin Conns
  BY SharedCacheAssumption
<1>2. /\ inTrans' = [inTrans EXCEPT ![c] = IF wrflag > 0 THEN TRANS_WRITE ELSE TRANS_READ]
      /\ inTransaction' = IF inTrans'[c] > inTransaction THEN inTrans'[c] ELSE inTransaction
      /\ eLock' = IF inTrans[c] = TRANS_NONE
                  THEN [eLock EXCEPT ![c][SCHEMA_ROOT] = READ_LOCK] ELSE eLock
      /\ wrflag > 0 => pWriter' = c /\ exclusive' = (wrflag = 2)
      /\ wrflag = 0 => pWriter' = pWriter /\ exclusive' = exclusive
      /\ pending' = pending
  BY DEF Begin
<1>3. /\ wrflag > 0 => inTransaction # TRANS_WRITE
      /\ ~pending
      /\ wrflag = 2 => \A d \in Conns \ {c} : eLock[d][SCHEMA_ROOT] = 0
      /\ InTheWay(c, SCHEMA_ROOT, READ_LOCK) = {}
  BY <1>1, <1>2 DEF BeginBlockers
<1>4. /\ inTrans[c] # TRANS_WRITE /\ (wrflag = 0 => inTrans[c] = TRANS_NONE)
      /\ ~exclusive
  <2>1. inTrans[c] # TRANS_WRITE /\ (wrflag = 0 => inTrans[c] = TRANS_NONE)
    BY DEF IsBegun
  <2>2. exclusive => pWriter = c
    BY <1>3, NobodyInTheWay
  <2>3. QED
    BY <2>1, <2>2 DEF WriterInv
<1>5. \A d \in Conns : wrflag > 0 => inTrans[d] # TRANS_WRITE
  BY <1>3 DEF WriterInv
<1>6. /\ inTrans' \in [Conns -> {TRANS_NONE, TRANS_READ, TRANS_WRITE}]
      /\ eLock' \in [Conns -> [Tables -> {0, READ_LOCK, WRITE_LOCK}]]
      /\ \A d \in Conns \ {c} : inTrans'[d] = inTrans[d] /\ eLock'[d] = eLock[d]
      /\ inTrans'[c] = IF wrflag > 0 THEN TRANS_WRITE ELSE TRANS_READ
      /\ \A t \in Tables : eLock'[c][t] = eLock[c][t] \/ eLock'[c][t] = READ_LOCK
      /\ \A t \in Tables : eLock[c][t] # 0 => eLock'[c][t] = eLock[c][t] \/ t = SCHEMA_ROOT
      /\ \A t \in Tables : eLock'[c][t] = READ_LOCK =>
           eLock[c][t] = READ_LOCK \/ t = SCHEMA_ROOT
      /\ eLock'[c][SCHEMA_ROOT] # 0
  <2>1. /\ inTrans' \in [Conns -> {TRANS_NONE, TRANS_READ, TRANS_WRITE}]
        /\ \A d \in Conns \ {c} : inTrans'[d] = inTrans[d]
        /\ inTrans'[c] = IF wrflag > 0 THEN TRANS_WRITE ELSE TRANS_READ
    BY <1>2
  <2>2. CASE inTrans[c] = TRANS_NONE
    BY <1>1, <1>2, <2>1, <2>2
  <2>3. CASE inTrans[c] # TRANS_NONE
    BY <1>1, <1>2, <2>1, <2>3 DEF SchemaInv
  <2>4. QED
    BY <2>2, <2>3
<1>7. TransType'
  <2>1. CASE wrflag = 0
    BY <1>2, <1>6, <2>1
  <2>2. CASE wrflag > 0
    <3>1. pWriter' = c /\ exclusive' \in BOOLEAN
      BY <1>2, <2>2
    <3>2. inTransaction' \in {TRANS_NONE, TRANS_READ, TRANS_WRITE}
      BY <1>2, <1>6
    <3>3. QED
      BY <1>2, <1>6, <3>1, <3>2
  <2>3. QED
    BY <2>1, <2>2
<1>8. SchemaInv'
  BY <1>6 DEF SchemaInv
<1>9. WriteLocksInv'
  <2>1. \A d \in Conns \ {c} : eLock[d][SCHEMA_ROOT] # WRITE_LOCK
    <3>1. \A d \in Conns \ {c} :
            eLock[d][SCHEMA_ROOT] # 0 => eLock[d][SCHEMA_ROOT] = READ_LOCK
      BY <1>3 DEF InTheWay
    <3>2. QED
      BY <3>1
  <2>2. \A t \in Tables : eLock[c][t] # WRITE_LOCK
    BY <1>4 DEF LocksOfTransInv
  <2>3. \A t \in Tables : eLock'[c][t] # WRITE_LOCK
    BY <1>6, <2>2
  <2>4. ASSUME NEW d \in Conns, NEW e \in Conns \ {d}, NEW t \in Tables,
               eLock'[d][t] = WRITE_LOCK
        PROVE  eLock'[e][t] = 0
    <3>1. d # c /\ eLock[d][t] = WRITE_LOCK
      BY <1>6, <2>3, <2>4
    <3>2. eLock[e][t] = 0 /\ t # SCHEMA_ROOT
      BY <2>1, <3>1 DEF WriteLocksInv
    <3>3. QED
      BY <1>6, <3>2
  <2>5. QED
    BY <2>4 DEF WriteLocksInv
<1>10. AloneInv'
  <2>1. exclusive' => wrflag = 2 /\ pWriter' = c
    <3>1. CASE wrflag = 0
      BY <1>2, <1>4, <3>1
    <3>2. CASE wrflag > 0
      BY <1>2, <3>2
    <3>3. QED
      BY <3>1, <3>2
  <2>2. wrflag = 2 => \A d \in Conns \ {c} : inTrans[d] = TRANS_NONE
    BY <1>3 DEF SchemaInv
  <2>3. QED
    BY <1>6, <2>1, <2>2 DEF AloneInv
<1>11. LocksOfTransInv'
  <2>1. \A t \in Tables : eLock'[c][t] <= READ_LOCK
    BY <1>4, <1>6 DEF LocksOfTransInv
  <2>2. inTrans'[c] >= READ_LOCK
    BY <1>6
  <2>3. ASSUME NEW d \in Conns, NEW t \in Tables
        PROVE  eLock'[d][t] <= inTrans'[d]
    <3>1. CASE d = c
      BY <1>6, <2>1, <2>2, <3>1
    <3>2. CASE d # c
      BY <1>6, <3>2 DEF LocksOfTransInv
    <3>3. QED
      BY <3>1, <3>2
  <2>4. QED
    BY <2>3 DEF LocksOfTransInv
<1>12. WriterInv'
  <2>1. \A d \in Conns : inTrans'[d] = TRANS_WRITE <=> pWriter' = d
    <3>1. CASE wrflag > 0
      BY <1>2, <1>5, <1>6, <3>1
    <3>2. CASE wrflag = 0
      BY <1>2, <1>4, <1>6, <3>2 DEF WriterInv
    <3>3. QED
      BY <3>1, <3>2
  <2>2. pending' \/ exclusive' \/ inTransaction' = TRANS_WRITE => pWriter' \in Conns
    BY <1>2, <1>3, <1>6 DEF WriterInv
  <2>3. \A d \in Conns : inTransaction' >= inTrans'[d]
    BY <1>2, <1>6 DEF WriterInv
  <2>4. QED
    BY <2>1, <2>2, <2>3 DEF WriterInv
<1>13. QED
  BY <1>3, <1>6, <1>7, <1>8, <1>9, <1>10, <1>11, <1>12

\* A transaction that ends, or goes on as one that reads.
LEMMA EndKeeps ==
  ASSUME TransInv, NEW c \in Conns, NEW active \in BOOLEAN, EndTransaction(c, active)
  PROVE  /\ TransInv'
         /\ \A d \in Conns \ {c} : inTrans'[d] = inTrans[d]
         /\ inTrans'[c] # TRANS_NONE => inTrans[c] # TRANS_NONE
<1> USE DEF TransInv, TransType
<1> DEFINE mine == pWriter = c
           left == IF inTrans[c] = TRANS_WRITE THEN TRANS_READ ELSE inTransaction
<1>1. SCHEMA_ROOT \in Tables /\ None \notin Conns /\ IsFiniteSet(Conns)
  BY SharedCacheAssumption
<1>2. /\ pWriter' = IF mine THEN None ELSE pWriter
      /\ exclusive' = (exclusive /\ ~mine)
      /\ mine <=> inTrans[c] = TRANS_WRITE
      /\ \A d \in Conns \ {c} : mine => inTrans[d] # TRANS_WRITE
  BY DEF EndTransaction, WriterInv
<1>3. CASE inTrans[c] # TRANS_NONE /\ active
  <2>1. /\ inTrans' = [inTrans EXCEPT ![c] = TRANS_READ]
        /\ inTransaction' = left
        /\ pending' = (pending /\ ~mine)
        /\ eLock' = IF ~mine THEN eLock
                    ELSE [d \in Conns |-> [t \in Tables |->
                            IF eLock[d][t] = 0 THEN 0 ELSE READ_LOCK]]
    BY <1>3 DEF EndTransaction
  <2>2. /\ \A d \in Conns \ {c} : inTrans'[d] = inTrans[d]
        /\ inTrans'[c] = TRANS_READ
        /\ eLock' \in [Conns -> [Tables -> {0, READ_LOCK, WRITE_LOCK}]]
        /\ \A d \in Conns, t \in Tables :
             /\ eLock'[d][t] = 0 <=> eLock[d][t] = 0
             /\ eLock'[d][t] = WRITE_LOCK => ~mine /\ eLock[d][t] = WRITE_LOCK
    BY <2>1
  <2>3. TransType'
    BY <1>1, <1>2, <2>1, <2>2
  <2>4. SchemaInv'
    BY <1>1, <1>3, <2>2 DEF SchemaInv
  <2>5. WriteLocksInv'
    BY <2>2 DEF WriteLocksInv
  <2>6. AloneInv'
    BY <1>2, <1>3, <2>2 DEF AloneInv
  <2>7. LocksOfTransInv'
    <3>1. ASSUME NEW d \in Conns, NEW t \in Tables
          PROVE  eLock'[d][t] <= inTrans'[d]
      <4>1. eLock[d][t] <= inTrans[d] /\ eLock[d][t] \in {0, READ_LOCK, WRITE_LOCK}
        BY DEF LocksOfTransInv
      <4>2. CASE mine
        BY <1>2, <2>2, <4>1, <4>2
      <4>3. CASE ~mine
        BY <1>2, <1>3, <2>1, <2>2, <4>1, <4>3
      <4>4. QED
        BY <4>2, <4>3
    <3>2. QED
      BY <3>1 DEF LocksOfTransInv
  <2>8. WriterInv'
    <3>1. \A d \in Conns : inTrans'[d] = TRANS_WRITE <=> pWriter' = d
      BY <1>1, <1>2, <2>2 DEF WriterInv
    <3>2. pending' \/ exclusive' \/ inTransaction' = TRANS_WRITE => pWriter' \in Conns
      <4>1. CASE mine
        <5>1. ~pending' /\ ~exclusive'
          BY <1>2, <2>1, <4>1, Zenon
        <5>2. inTransaction' # TRANS_WRITE
          BY <1>2, <2>1, <4>1
        <5>3. QED
          BY <5>1, <5>2
      <4>2. CASE ~mine
        BY <1>2, <2>1, <4>2 DEF WriterInv
      <4>3. QED
        BY <4>1, <4>2
    <3>3. \A d \in Conns : inTransaction' >= inTrans'[d]
      <4>1. CASE mine
        BY <1>2, <2>1, <2>2, <4>1
      <4>2. CASE ~mine
        BY <1>2, <1>3, <2>1, <2>2, <4>2 DEF WriterInv
      <4>3. QED
        BY <4>1, <4>2
    <3>4. QED
      BY <3>1, <3>2, <3>3 DEF WriterInv
  <2>9. QED
    BY <1>3, <2>2, <2>3, <2>4, <2>5, <2>6, <2>7, <2>8
<1>4. CASE ~(inTrans[c] # TRANS_NONE /\ active)
  <2>1. /\ inTrans' = [inTrans EXCEPT ![c] = TRANS_NONE]
        /\ inTransaction' = IF nTransaction' = 0 THEN TRANS_NONE ELSE left
        /\ pending' = (pending /\ ~ClearsPending(c))
        /\ eLock' = Unlock(c)
    BY <1>4 DEF EndTransaction
  <2>2. /\ \A d \in Conns \ {c} : inTrans'[d] = inTrans[d]
        /\ inTrans'[c] = TRANS_NONE
        /\ eLock' \in [Conns -> [Tables -> {0, READ_LOCK, WRITE_LOCK}]]
        /\ \A d \in Conns \ {c} : eLock'[d] = eLock[d]
        /\ \A t \in Tables : eLock'[c][t] = 0
    BY <2>1 DEF Unlock
  <2>3. TransType'
    BY <1>1, <1>2, <2>1, <2>2
  <2>4. SchemaInv'
    BY <2>2 DEF SchemaInv
  <2>5. WriteLocksInv'
    BY <2>2 DEF WriteLocksInv
  <2>6. AloneInv'
    BY <1>2, <2>2 DEF AloneInv
  <2>7. LocksOfTransInv'
    BY <2>2 DEF LocksOfTransInv
  <2>8. nTransaction' = 0 => \A d \in Conns : inTrans'[d] = TRANS_NONE
    <3>1. IsFiniteSet({d \in Conns : inTrans'[d] # TRANS_NONE})
      BY <1>1, FS_Subset
    <3>2. nTransaction' = 0 => {d \in Conns : inTrans'[d] # TRANS_NONE} = {}
      BY <3>1, FS_EmptySet DEF nTransaction
    <3>3. QED
      BY <3>2
  <2>9. WriterInv'
    <3>1. \A d \in Conns : inTrans'[d] = TRANS_WRITE <=> pWriter' = d
      BY <1>1, <1>2, <2>2 DEF WriterInv
    <3>2. pending' \/ exclusive' \/ inTransaction' = TRANS_WRITE => pWriter' \in Conns
      <4>1. CASE mine
        <5>1. ~pending' /\ ~exclusive'
          <6>1. ClearsPending(c)
            BY <1>2, <4>1 DEF ClearsPending
          <6>2. QED
            BY <1>2, <2>1, <4>1, <6>1, Zenon
        <5>2. inTransaction' # TRANS_WRITE
          BY <1>2, <2>1, <4>1
        <5>3. QED
          BY <5>1, <5>2
      <4>2. CASE ~mine
        BY <1>2, <2>1, <4>2 DEF WriterInv
      <4>3. QED
        BY <4>1, <4>2
    <3>3. \A d \in Conns : inTransaction' >= inTrans'[d]
      <4>1. CASE nTransaction' = 0
        BY <2>1, <2>3, <2>8, <4>1
      <4>2. CASE nTransaction' # 0
        BY <1>2, <2>1, <2>2, <4>2 DEF WriterInv
      <4>3. QED
        BY <4>1, <4>2
    <3>4. QED
      BY <3>1, <3>2, <3>3 DEF WriterInv
  <2>10. QED
    BY <2>2, <2>3, <2>4, <2>5, <2>6, <2>7, <2>9
<1>5. QED
  BY <1>3, <1>4

-----------------------------------------------------------------------------
\* The parts of the invariant that a step leaves alone.
LEMMA SameTrans ==
  ASSUME TransInv, UNCHANGED trans
  PROVE  TransInv'
BY DEF trans, TransInv, TransType, SchemaInv, WriteLocksInv, AloneInv,
       LocksOfTransInv, WriterInv

\* Where no lock, no transaction and no call changes, nobody waits for anybody
\* else than before.
LEMMA SameWaits ==
  ASSUME NoWaitCycle, UNCHANGED pUnlockConnection
  PROVE  NoWaitCycle'
BY DEF NoWaitCycle

\* A step of c that nobody else's wait depends on: c neither begins nor ends
\* to wait, and still owes its call if it did.
LEMMA WaitKeeps ==
  ASSUME WaitType, WaitInv, NEW c \in Conns, NEW p \in Places,
         pc' = [pc EXCEPT ![c] = p],
         pc[c] # "waiting", p # "waiting", UNCHANGED waits,
         \A d \in Conns \ {c} : inTrans'[d] = inTrans[d],
         Owes(c) => inTrans'[c] # TRANS_NONE \/ p \in {"ended", "told"}
  PROVE  WaitInv' /\ pc' \in [Conns -> Places]
<1> USE DEF WaitType, waits
<1>1. /\ pc' \in [Conns -> Places] /\ pc'[c] = p
      /\ \A d \in Conns \ {c} : pc'[d] = pc[d]
  OBVIOUS
<1>2. ASSUME NEW d \in Conns, Owes(d)
      PROVE  Owes(d)'
  BY <1>1, <1>2 DEF Owes, At
<1>3. \A d \in Conns : pBlockingConnection'[d] # None => Owes(pBlockingConnection[d])'
  BY <1>2 DEF WaitInv
<1>4. /\ \A d \in Conns : At(d, "waiting")' <=> pUnlockConnection'[d] # None
      /\ \A d \in Conns : At(d, "waiting")' =>
           pUnlockConnection'[d] = pBlockingConnection'[d]
  BY <1>1 DEF WaitInv, At
<1>5. QED
  BY <1>1, <1>3, <1>4 DEF WaitInv

\* A statement that fails because d is in the way.
LEMMA BlockedKeeps ==
  ASSUME WaitType, WaitInv, NEW c \in Conns, NEW d \in Conns, Blocked(c, d),
         pc[c] \in {"idle", "read", "write"}, inTrans[d] # TRANS_NONE,
         inTrans' = inTrans
  PROVE  /\ WaitInv' /\ pc' \in [Conns -> Places]
         /\ pBlockingConnection' \in [Conns -> Conns \cup {None}]
<1> USE DEF WaitType, Places
<1>1. /\ pc' = [pc EXCEPT ![c] = "failed"]
      /\ pBlockingConnection' = [pBlockingConnection EXCEPT ![c] = d]
      /\ pUnlockConnection' = pUnlockConnection
  BY DEF Blocked, Goto
<1>2. ASSUME NEW e \in Conns, Owes(e)
      PROVE  Owes(e)'
  BY <1>1, <1>2 DEF Owes, At
<1>3. Owes(d)'
  BY DEF Owes
<1>4. \A e \in Conns : pBlockingConnection'[e] # None => Owes(pBlockingConnection[e])'
  BY <1>1, <1>2, <1>3 DEF WaitInv
<1>5. /\ \A e \in Conns : At(e, "waiting")' <=> pUnlockConnection'[e] # None
      /\ \A e \in Conns : At(e, "waiting")' =>
           pUnlockConnection'[e] = pBlockingConnection'[e]
  BY <1>1 DEF WaitInv, At
<1>6. QED
  BY <1>1, <1>4, <1>5 DEF WaitInv

-----------------------------------------------------------------------------
\* sqlite3BtreeBeginTrans() keeps the invariant.
LEMMA BeginTransStep ==
  ASSUME IInv, NEW c \in Conns, NEW wrflag \in {0, 1, 2}, At(c, "idle"),
         NEW p \in {"idle", "read", "write"}, p = "write" => wrflag > 0,
         BeginTrans(c, wrflag, p),
         autoCommit' \in [Conns -> BOOLEAN], open' = open
  PROVE  IInv'
<1> USE DEF Places
<1>a. TransInv /\ WaitType /\ StatementInv /\ WaitInv /\ NoWaitCycle
  BY DEF IInv
<1>b. c \in Conns /\ pc[c] = "idle" /\ p \in Places
  BY DEF At
<1>1. CASE IsBegun(c, wrflag)
  <2>1. pc' = [pc EXCEPT ![c] = p] /\ UNCHANGED trans /\ UNCHANGED waits
    BY <1>1 DEF BeginTrans, Goto
  <2>2. TransInv' /\ NoWaitCycle' /\ inTrans' = inTrans
    BY <1>a, <2>1, SameTrans, SameWaits DEF waits, trans
  <2>3. WaitInv' /\ pc' \in [Conns -> Places]
    BY <1>a, <1>b, <2>1, <2>2, WaitKeeps DEF Owes, At
  <2>4. WaitType'
    BY <1>a, <2>1, <2>3 DEF WaitType, waits
  <2>5. inTrans[c] # TRANS_NONE /\ (wrflag > 0 => inTrans[c] = TRANS_WRITE)
    BY <1>1 DEF IsBegun
  <2>6. StatementInv'
    BY <1>a, <2>1, <2>2, <2>5 DEF StatementInv, At, WaitType
  <2>7. QED
    BY <2>2, <2>3, <2>4, <2>6 DEF IInv
<1>2. CASE ~IsBegun(c, wrflag) /\ BeginBlockers(c, wrflag) = {}
  <2>1. Begin(c, wrflag) /\ pc' = [pc EXCEPT ![c] = p] /\ UNCHANGED waits
    BY <1>2 DEF BeginTrans, Goto
  <2>2. /\ TransInv'
        /\ inTrans'[c] # TRANS_NONE /\ (wrflag > 0 => inTrans'[c] = TRANS_WRITE)
        /\ \A d \in Conns \ {c} : inTrans'[d] = inTrans[d]
    BY <1>a, <1>2, <2>1, BeginKeeps
  <2>3. NoWaitCycle'
    BY <1>a, <2>1, SameWaits DEF waits
  <2>4. WaitInv' /\ pc' \in [Conns -> Places]
    BY <1>a, <1>b, <2>1, <2>2, WaitKeeps
  <2>5. WaitType'
    BY <1>a, <2>1, <2>4 DEF WaitType, waits
  <2>6. StatementInv'
    BY <1>a, <2>1, <2>2 DEF StatementInv, At, WaitType
  <2>7. QED
    BY <2>2, <2>3, <2>4, <2>5, <2>6 DEF IInv
<1>3. CASE ~IsBegun(c, wrflag) /\ BeginBlockers(c, wrflag) # {}
  <2>1. PICK d \in BeginBlockers(c, wrflag) : Blocked(c, d)
    BY <1>3 DEF BeginTrans
  <2>2. UNCHANGED trans /\ inTrans' = inTrans
    BY <1>3 DEF BeginTrans, trans
  <2>3. d \in Conns /\ inTrans[d] # TRANS_NONE
    BY <1>a, BlockersAreOthers
  <2>4. /\ WaitInv' /\ pc' \in [Conns -> Places]
        /\ pBlockingConnection' \in [Conns -> Conns \cup {None}]
    BY <1>a, <1>b, <2>1, <2>2, <2>3, BlockedKeeps
  <2>5. TransInv' /\ NoWaitCycle'
    BY <1>a, <2>1, <2>2, SameTrans, SameWaits DEF Blocked
  <2>6. WaitType'
    BY <1>a, <2>1, <2>4 DEF WaitType, Blocked
  <2>7. StatementInv'
    BY <1>a, <2>1, <2>2 DEF StatementInv, At, WaitType, Blocked, Goto
  <2>8. QED
    BY <2>4, <2>5, <2>6, <2>7 DEF IInv
<1>4. QED
  BY <1>1, <1>2, <1>3

\* The start of a statement that reads or writes keeps the invariant.
LEMMA StartStep ==
  ASSUME IInv, NEW c \in Conns, NEW wrflag \in {0, 1}, Start(c, wrflag)
  PROVE  IInv'
<1>1. /\ At(c, "idle")
      /\ BeginTrans(c, wrflag, IF wrflag = 0 THEN "read" ELSE "write")
      /\ autoCommit' \in [Conns -> BOOLEAN] /\ open' = open
  BY DEF Start, IInv, WaitType
<1>2. CASE wrflag = 0
  BY <1>1, <1>2, BeginTransStep
<1>3. CASE wrflag = 1
  BY <1>1, <1>3, BeginTransStep
<1>4. QED
  BY <1>2, <1>3

\* A step that changes neither transactions nor waits, and takes c from one
\* place to another.
LEMMA MoveStep ==
  ASSUME IInv, NEW c \in Conns, NEW p \in Places \ {"waiting", "read", "write"},
         pc' = [pc EXCEPT ![c] = p], UNCHANGED <<trans, waits>>,
         pc[c] \notin {"waiting", "ended", "told"},
         autoCommit' \in [Conns -> BOOLEAN], open' \in [Conns -> BOOLEAN]
  PROVE  IInv'
<1>a. TransInv /\ WaitType /\ StatementInv /\ WaitInv /\ NoWaitCycle
  BY DEF IInv
<1>1. TransInv' /\ NoWaitCycle' /\ inTrans' = inTrans
  BY <1>a, SameTrans, SameWaits DEF waits, trans
<1>2. WaitInv' /\ pc' \in [Conns -> Places]
  BY <1>a, <1>1, WaitKeeps DEF Owes, At
<1>3. WaitType'
  BY <1>a, <1>2 DEF WaitType, waits
<1>4. StatementInv'
  BY <1>a, <1>1 DEF StatementInv, At, WaitType
<1>5. QED
  BY <1>1, <1>2, <1>3, <1>4 DEF IInv

\* BEGIN, BEGIN IMMEDIATE and BEGIN EXCLUSIVE keep the invariant.
LEMMA BeginStatementStep ==
  ASSUME IInv, NEW c \in Conns, NEW wrflag \in {0, 1, 2}, BeginStatement(c, wrflag)
  PROVE  IInv'
<1>1. /\ At(c, "idle") /\ open' = open
      /\ autoCommit' \in [Conns -> BOOLEAN]
  BY DEF BeginStatement, IInv, WaitType
<1>2. CASE wrflag = 0
  <2>1. pc' = [pc EXCEPT ![c] = "idle"] /\ UNCHANGED <<trans, waits>>
    BY <1>2 DEF BeginStatement, Goto
  <2>2. open' \in [Conns -> BOOLEAN]
    BY <1>1 DEF IInv, WaitType
  <2>3. QED
    BY <1>1, <2>1, <2>2, MoveStep DEF Places, At
<1>3. CASE wrflag # 0
  <2>1. BeginTrans(c, wrflag, "idle")
    BY <1>3 DEF BeginStatement
  <2>2. QED
    BY <1>1, <2>1, BeginTransStep
<1>4. QED
  BY <1>2, <1>3

\* A SELECT that is stepped and stays open keeps the invariant.
LEMMA StepStep ==
  ASSUME IInv, NEW c \in Conns, Step(c)
  PROVE  IInv'
<1>1. /\ pc' = [pc EXCEPT ![c] = "idle"] /\ pc[c] = "read"
      /\ UNCHANGED <<trans, waits>>
      /\ autoCommit' \in [Conns -> BOOLEAN] /\ open' \in [Conns -> BOOLEAN]
  BY DEF Step, Goto, At, IInv, WaitType
<1>2. QED
  BY <1>1, MoveStep DEF Places

\* An application that does not wait after SQLITE_LOCKED keeps the invariant.
LEMMA GiveUpStep ==
  ASSUME IInv, NEW c \in Conns, GiveUp(c)
  PROVE  IInv'
<1>1. /\ pc' = [pc EXCEPT ![c] = "idle"] /\ pc[c] = "locked"
      /\ UNCHANGED <<trans, waits>>
      /\ autoCommit' \in [Conns -> BOOLEAN] /\ open' \in [Conns -> BOOLEAN]
  BY DEF GiveUp, Goto, At, IInv, WaitType
<1>2. QED
  BY <1>1, MoveStep DEF Places

\* querySharedCacheTableLock() and setSharedCacheTableLock() keep the invariant.
LEMMA LockTableStep ==
  ASSUME IInv, NEW c \in Conns, NEW t \in Tables,
         NEW lock \in {READ_LOCK, WRITE_LOCK}, LockTable(c, t, lock)
  PROVE  IInv'
<1> USE DEF Places
<1>a. TransInv /\ WaitType /\ StatementInv /\ WaitInv /\ NoWaitCycle
  BY DEF IInv
<1>b. TransType
  BY <1>a DEF TransInv
<1>1. /\ pc[c] \in {"read", "write"} /\ (lock = WRITE_LOCK => pc[c] = "write")
      /\ eLock[c][t] < lock
      /\ inTrans' = inTrans /\ inTransaction' = inTransaction /\ pWriter' = pWriter
      /\ exclusive' = exclusive /\ autoCommit' = autoCommit /\ open' = open
  BY DEF LockTable, At
<1>2. lock <= inTrans[c]
  BY <1>a, <1>b, <1>1 DEF StatementInv, At, TransType
<1>3. CASE InTheWay(c, t, lock) = {}
  <2>1. /\ eLock' = [eLock EXCEPT ![c][t] = lock]
        /\ pending' = pending /\ pc' = pc /\ UNCHANGED waits
    BY <1>3 DEF LockTable
  <2>2. /\ eLock' \in [Conns -> [Tables -> {0, READ_LOCK, WRITE_LOCK}]]
        /\ eLock'[c][t] = lock
        /\ \A d \in Conns, u \in Tables : d # c \/ u # t => eLock'[d][u] = eLock[d][u]
    BY <1>b, <2>1 DEF TransType
  <2>3. TransType'
    BY <1>b, <1>1, <2>1, <2>2 DEF TransType
  <2>4. SchemaInv'
    BY <1>a, <1>1, <2>2, SharedCacheAssumption DEF TransInv, SchemaInv
  <2>5. \A d \in Conns \ {c} : eLock[d][t] = 0 \/ eLock[d][t] = lock
    BY <1>3 DEF InTheWay
  <2>6. lock = WRITE_LOCK => \A d \in Conns \ {c} : eLock[d][t] = 0
    <3>1. ASSUME lock = WRITE_LOCK, NEW d \in Conns \ {c}
          PROVE  eLock[d][t] # WRITE_LOCK
      <4>1. inTrans[c] = TRANS_WRITE /\ inTrans[d] # TRANS_WRITE
        BY <1>a, <1>b, <1>2, <3>1 DEF TransInv, WriterInv, TransType
      <4>2. QED
        BY <1>a, <1>b, <4>1 DEF TransInv, LocksOfTransInv, TransType
    <3>2. QED
      BY <2>5, <3>1
  <2>7. WriteLocksInv'
    <3>1. ASSUME NEW d \in Conns, NEW e \in Conns \ {d}, NEW u \in Tables,
                 eLock'[d][u] = WRITE_LOCK
          PROVE  eLock'[e][u] = 0
      <4>1. CASE u # t
        BY <1>a, <2>2, <3>1, <4>1 DEF TransInv, WriteLocksInv
      <4>2. CASE u = t /\ d = c
        BY <2>2, <2>6, <3>1, <4>2
      <4>3. CASE u = t /\ d # c
        <5>1. eLock[d][t] = WRITE_LOCK
          BY <2>2, <3>1, <4>3
        <5>2. lock = WRITE_LOCK
          BY <2>5, <4>3, <5>1
        <5>3. QED
          BY <2>6, <4>3, <5>1, <5>2
      <4>4. QED
        BY <4>1, <4>2, <4>3
    <3>2. QED
      BY <3>1 DEF WriteLocksInv
  <2>8. AloneInv' /\ WriterInv'
    BY <1>a, <1>1, <2>1 DEF TransInv, AloneInv, WriterInv
  <2>9. LocksOfTransInv'
    BY <1>a, <1>1, <1>2, <2>2 DEF TransInv, LocksOfTransInv
  <2>10. WaitType' /\ StatementInv' /\ WaitInv' /\ NoWaitCycle'
    BY <1>a, <1>1, <2>1 DEF WaitType, StatementInv, WaitInv, NoWaitCycle, Owes,
       At, waits
  <2>11. QED
    BY <2>3, <2>4, <2>7, <2>8, <2>9, <2>10 DEF IInv, TransInv
<1>4. CASE InTheWay(c, t, lock) # {}
  <2>1. PICK d \in InTheWay(c, t, lock) : Blocked(c, d)
    BY <1>4 DEF LockTable
  <2>2. /\ eLock' = eLock
        /\ pending' = (pending \/ (lock = WRITE_LOCK /\ ~(exclusive /\ pWriter # c)))
    BY <1>4 DEF LockTable
  <2>3. d \in Conns /\ inTrans[d] # TRANS_NONE
    BY <1>a, BlockersAreOthers
  <2>4. /\ WaitInv' /\ pc' \in [Conns -> Places]
        /\ pBlockingConnection' \in [Conns -> Conns \cup {None}]
    BY <1>a, <1>1, <2>1, <2>3, BlockedKeeps
  <2>5. pending' \in BOOLEAN /\ (pending' => pending \/ lock = WRITE_LOCK)
    BY <1>b, <2>2 DEF TransType
  <2>6. TransType'
    BY <1>b, <1>1, <2>2, <2>5 DEF TransType
  <2>7. SchemaInv' /\ WriteLocksInv' /\ AloneInv' /\ LocksOfTransInv'
    BY <1>a, <1>1, <2>2
    DEF TransInv, SchemaInv, WriteLocksInv, AloneInv, LocksOfTransInv
  <2>8. WriterInv'
    <3>1. lock = WRITE_LOCK => pWriter \in Conns
      BY <1>a, <1>b, <1>2 DEF TransInv, WriterInv, TransType
    <3>2. QED
      BY <1>a, <1>1, <2>5, <3>1 DEF TransInv, WriterInv
  <2>9. NoWaitCycle'
    BY <1>a, <2>1, SameWaits DEF Blocked
  <2>10. WaitType'
    BY <1>a, <1>1, <2>1, <2>4 DEF WaitType, Blocked
  <2>11. StatementInv'
    BY <1>a, <1>1, <2>1 DEF StatementInv, At, WaitType, Blocked, Goto
  <2>12. QED
    BY <2>4, <2>6, <2>7, <2>8, <2>9, <2>10, <2>11 DEF IInv, TransInv
<1>5. QED
  BY <1>3, <1>4

\* btreeEndTransaction() keeps the invariant, with other statements of the
\* connection active or not.
LEMMA EndStep ==
  ASSUME IInv, NEW c \in Conns, NEW active \in BOOLEAN, EndTransaction(c, active),
         NEW p \in {"told", "ended"}, pc' = [pc EXCEPT ![c] = p],
         pc[c] # "waiting", UNCHANGED waits,
         autoCommit' \in [Conns -> BOOLEAN], open' \in [Conns -> BOOLEAN]
  PROVE  IInv'
<1> USE DEF Places
<1>a. TransInv /\ WaitType /\ StatementInv /\ WaitInv /\ NoWaitCycle
  BY DEF IInv
<1>1. /\ TransInv'
      /\ \A d \in Conns \ {c} : inTrans'[d] = inTrans[d]
  BY <1>a, EndKeeps
<1>2. WaitInv' /\ pc' \in [Conns -> Places]
  BY <1>a, <1>1, WaitKeeps
<1>3. WaitType' /\ NoWaitCycle'
  BY <1>a, <1>2, SameWaits DEF WaitType, waits
<1>4. StatementInv'
  BY <1>a, <1>1 DEF StatementInv, At, WaitType
<1>5. QED
  BY <1>1, <1>2, <1>3, <1>4 DEF IInv

\* sqlite3VdbeHalt() keeps the invariant.
LEMMA HaltStep ==
  ASSUME IInv, NEW c \in Conns, Halt(c)
  PROVE  IInv'
<1>1. /\ pc[c] \in {"failed", "read", "write"} /\ UNCHANGED waits
      /\ autoCommit' \in [Conns -> BOOLEAN] /\ open' \in [Conns -> BOOLEAN]
      /\ open[c] \in BOOLEAN
  BY DEF Halt, At, IInv, WaitType
<1>2. CASE autoCommit[c]
  <2>1. PICK p \in {"told", "ended"} : pc' = [pc EXCEPT ![c] = p]
    BY <1>2 DEF Halt, Goto
  <2>2. EndTransaction(c, open[c])
    BY <1>2 DEF Halt
  <2>3. QED
    BY <1>1, <2>1, <2>2, EndStep
<1>3. CASE ~autoCommit[c]
  <2>1. PICK p \in {"locked", "idle"} : pc' = [pc EXCEPT ![c] = p]
    BY <1>3 DEF Halt, Goto
  <2>2. UNCHANGED <<trans, waits>>
    BY <1>3 DEF Halt
  <2>3. QED
    BY <1>1, <2>1, <2>2, MoveStep DEF Places
<1>4. QED
  BY <1>2, <1>3

\* The close of an open SELECT keeps the invariant.
LEMMA CloseStep ==
  ASSUME IInv, NEW c \in Conns, Close(c)
  PROVE  IInv'
<1>1. /\ pc[c] \in {"idle", "deadlock"} /\ UNCHANGED waits
      /\ autoCommit' \in [Conns -> BOOLEAN] /\ open' \in [Conns -> BOOLEAN]
  BY DEF Close, At, IInv, WaitType
<1>2. CASE autoCommit[c]
  <2>1. EndTransaction(c, FALSE) /\ pc' = [pc EXCEPT ![c] = "ended"]
    BY <1>2 DEF Close, Goto
  <2>2. QED
    BY <1>1, <2>1, EndStep
<1>3. CASE ~autoCommit[c]
  <2>1. UNCHANGED <<trans, waits>> /\ pc' = pc
    BY <1>1, <1>3 DEF Close
  <2>2. pc' = [pc EXCEPT ![c] = pc[c]]
    BY <2>1 DEF IInv, WaitType
  <2>3. QED
    BY <1>1, <2>1, <2>2, MoveStep DEF Places
<1>4. QED
  BY <1>2, <1>3

\* COMMIT and ROLLBACK keep the invariant.
LEMMA EndStatementStep ==
  ASSUME IInv, NEW c \in Conns, EndStatement(c)
  PROVE  IInv'
<1>1. /\ pc[c] \in {"idle", "deadlock"} /\ UNCHANGED waits
      /\ autoCommit' \in [Conns -> BOOLEAN] /\ open' \in [Conns -> BOOLEAN]
      /\ open[c] \in BOOLEAN /\ EndTransaction(c, open[c])
      /\ pc' = [pc EXCEPT ![c] = "ended"]
  BY DEF EndStatement, Goto, At, IInv, WaitType
<1>2. QED
  BY <1>1, EndStep

\* sqlite3ConnectionUnlocked(), with the callbacks it makes, keeps the invariant.
LEMMA UnlockedStep ==
  ASSUME IInv, NEW c \in Conns, Unlocked(c)
  PROVE  IInv'
<1> USE DEF Places
<1>a. TransInv /\ WaitType /\ StatementInv /\ WaitInv /\ NoWaitCycle
      /\ None \notin Conns
  BY SharedCacheAssumption DEF IInv
<1>1. /\ pc[c] \in {"ended", "told"} /\ UNCHANGED trans /\ inTrans' = inTrans
      /\ autoCommit' = autoCommit /\ open' = open
      /\ pBlockingConnection' \in [Conns -> Conns \cup {None}]
      /\ pUnlockConnection' \in [Conns -> Conns \cup {None}]
      /\ pc' \in [Conns -> Places]
  BY <1>a DEF Unlocked, At, trans, WaitType
<1>2. \A d \in Conns :
        /\ pBlockingConnection'[d] = IF pBlockingConnection[d] = c THEN None
                                     ELSE pBlockingConnection[d]
        /\ pUnlockConnection'[d] = IF pUnlockConnection[d] = c THEN None
                                   ELSE pUnlockConnection[d]
        /\ d # c => pc'[d] = IF pUnlockConnection[d] = c THEN "idle" ELSE pc[d]
        /\ d = c => pc'[d] \in {"locked", "idle"}
  BY <1>a DEF Unlocked, WaitType
<1>3. TransInv' /\ WaitType'
  BY <1>a, <1>1, SameTrans DEF WaitType
<1>4. StatementInv'
  BY <1>a, <1>1, <1>2 DEF StatementInv, At
<1>5. WaitInv'
  <2>1. ASSUME NEW d \in Conns, Owes(d), d # c
        PROVE  Owes(d)'
    <3>1. pc[d] \in {"ended", "told"} => pUnlockConnection[d] = None
      BY <1>a DEF WaitInv, At
    <3>2. QED
      BY <1>a, <1>1, <1>2, <2>1, <3>1 DEF Owes, At
  <2>2. ASSUME NEW d \in Conns, pBlockingConnection'[d] # None
        PROVE  Owes(pBlockingConnection[d])'
    <3>1. /\ pBlockingConnection'[d] = pBlockingConnection[d]
          /\ pBlockingConnection[d] # c /\ pBlockingConnection[d] # None
          /\ pBlockingConnection[d] \in Conns
      BY <1>a, <1>2, <2>2 DEF WaitType
    <3>2. Owes(pBlockingConnection[d])
      BY <1>a, <3>1 DEF WaitInv
    <3>3. PICK e \in Conns : e = pBlockingConnection[d] /\ e # c /\ Owes(e)
      BY <3>1, <3>2
    <3>4. Owes(e)' /\ pBlockingConnection'[d] = e
      BY <2>1, <3>1, <3>3
    <3>5. QED
      BY <3>4 DEF Owes, At
  <2>3. ASSUME NEW d \in Conns
        PROVE  /\ pc'[d] = "waiting" <=> pUnlockConnection'[d] # None
               /\ pc'[d] = "waiting" => pUnlockConnection'[d] = pBlockingConnection'[d]
    <3>1. /\ pc[d] = "waiting" <=> pUnlockConnection[d] # None
          /\ pc[d] = "waiting" => pUnlockConnection[d] = pBlockingConnection[d]
      BY <1>a DEF WaitInv, At
    <3>2. QED
      BY <1>a, <1>1, <1>2, <3>1
  <2>4. QED
    BY <2>2, <2>3 DEF WaitInv, At
<1>6. NoWaitCycle'
  <2>1. ASSUME NEW S \in SUBSET Conns, S # {},
               \A d \in S : pUnlockConnection'[d] \in S
        PROVE  FALSE
    <3>1. \A d \in S : pUnlockConnection[d] \in S
      BY <1>a, <1>2, <2>1
    <3>2. QED
      BY <1>a, <2>1, <3>1 DEF NoWaitCycle
  <2>2. QED
    BY <2>1 DEF NoWaitCycle
<1>7. QED
  BY <1>3, <1>4, <1>5, <1>6 DEF IInv

\* The loop of sqlite3_unlock_notify() has found no way back to c.
LEMMA RegisterCycle ==
  ASSUME WaitType, NoWaitCycle, NEW c \in Conns, c \notin WaitsFor(c),
         pBlockingConnection[c] # None,
         pUnlockConnection' = [pUnlockConnection EXCEPT ![c] = pBlockingConnection[c]]
  PROVE  NoWaitCycle'
<1>a. /\ None \notin Conns /\ pBlockingConnection[c] \in Conns
      /\ pUnlockConnection \in [Conns -> Conns \cup {None}]
  BY SharedCacheAssumption DEF WaitType
<1>1. PICK W \in SUBSET Conns : /\ pBlockingConnection[c] \in W
                                /\ \A e \in W : pUnlockConnection[e] \in W \cup {None}
                                /\ c \notin W
  BY DEF WaitsFor
<1>2. ASSUME NEW S \in SUBSET Conns, S # {},
             \A d \in S : pUnlockConnection'[d] \in S
      PROVE  FALSE
  <2>1. CASE c \notin S
    <3>1. \A d \in S : pUnlockConnection[d] \in S
      BY <1>a, <1>2, <2>1
    <3>2. QED
      BY <1>2, <3>1 DEF NoWaitCycle
  <2>2. CASE c \in S
    <3>1. pBlockingConnection[c] \in S \cap W
      BY <1>a, <1>1, <1>2, <2>2
    <3>2. \A d \in S \cap W : pUnlockConnection[d] \in S \cap W
      BY <1>a, <1>1, <1>2
    <3>3. QED
      BY <3>1, <3>2 DEF NoWaitCycle
  <2>3. QED
    BY <2>1, <2>2
<1>3. QED
  BY <1>2 DEF NoWaitCycle

\* sqlite3_unlock_notify() keeps the invariant: a call that would close a circle
\* is refused.
LEMMA RegisterStep ==
  ASSUME IInv, NEW c \in Conns, Register(c)
  PROVE  IInv'
<1> USE DEF Places
<1>a. TransInv /\ WaitType /\ StatementInv /\ WaitInv /\ NoWaitCycle
      /\ None \notin Conns
  BY SharedCacheAssumption DEF IInv
<1>1. /\ pc[c] = "locked" /\ UNCHANGED trans /\ inTrans' = inTrans
      /\ autoCommit' = autoCommit /\ open' = open
      /\ pBlockingConnection' = pBlockingConnection
  BY DEF Register, At, trans
<1>2. CASE pBlockingConnection[c] = None \/ c \in WaitsFor(c)
  <2>1. PICK p \in {"idle", "deadlock"} : pc' = [pc EXCEPT ![c] = p]
    BY <1>2 DEF Register, Goto
  <2>2. UNCHANGED <<trans, waits>>
    BY <1>1, <1>2 DEF Register, waits
  <2>3. autoCommit' \in [Conns -> BOOLEAN] /\ open' \in [Conns -> BOOLEAN]
    BY <1>a, <1>1 DEF WaitType
  <2>4. QED
    BY <1>1, <2>1, <2>2, <2>3, MoveStep
<1>3. CASE ~(pBlockingConnection[c] = None \/ c \in WaitsFor(c))
  <2>1. /\ pUnlockConnection' = [pUnlockConnection EXCEPT ![c] = pBlockingConnection[c]]
        /\ pc' = [pc EXCEPT ![c] = "waiting"]
    BY <1>3 DEF Register, Goto
  <2>2. TransInv' /\ WaitType'
    BY <1>a, <1>1, <2>1, SameTrans DEF WaitType
  <2>3. StatementInv'
    BY <1>a, <1>1, <2>1 DEF StatementInv, At, WaitType
  <2>4. WaitInv'
    <3>1. ASSUME NEW d \in Conns, Owes(d)
          PROVE  Owes(d)'
      BY <1>a, <1>1, <2>1, <3>1 DEF Owes, At, WaitType
    <3>2. ASSUME NEW d \in Conns, pBlockingConnection'[d] # None
          PROVE  Owes(pBlockingConnection[d])'
      <4>1. PICK e \in Conns : e = pBlockingConnection[d] /\ Owes(e)
        BY <1>a, <1>1, <3>2 DEF WaitInv, WaitType
      <4>2. Owes(e)' /\ pBlockingConnection'[d] = e
        BY <1>1, <3>1, <4>1
      <4>3. QED
        BY <4>2 DEF Owes, At
    <3>3. ASSUME NEW d \in Conns
          PROVE  /\ pc'[d] = "waiting" <=> pUnlockConnection'[d] # None
                 /\ pc'[d] = "waiting" => pUnlockConnection'[d] = pBlockingConnection'[d]
      BY <1>a, <1>1, <1>3, <2>1 DEF WaitInv, At, WaitType
    <3>4. QED
      BY <3>2, <3>3 DEF WaitInv, At
  <2>5. NoWaitCycle'
    BY <1>a, <1>3, <2>1, RegisterCycle
  <2>6. QED
    BY <2>2, <2>3, <2>4, <2>5 DEF IInv
<1>4. QED
  BY <1>2, <1>3

-----------------------------------------------------------------------------
\* At first no connection has a lock or waits.
LEMMA InitInv == Init => IInv
<1> SUFFICES ASSUME Init
             PROVE  IInv
  OBVIOUS
<1>1. SCHEMA_ROOT \in Tables /\ None \notin Conns
  BY SharedCacheAssumption
<1>2. TransInv
  <2>1. TransType
    BY <1>1 DEF Init, TransType
  <2>2. SchemaInv /\ WriteLocksInv /\ AloneInv /\ LocksOfTransInv
    BY <1>1 DEF Init, SchemaInv, WriteLocksInv, AloneInv, LocksOfTransInv
  <2>3. WriterInv
    BY <1>1 DEF Init, WriterInv
  <2>4. QED
    BY <2>1, <2>2, <2>3 DEF TransInv
<1>3. WaitType /\ StatementInv /\ WaitInv
  BY <1>1 DEF Init, WaitType, StatementInv, WaitInv, Owes, At, Places
<1>4. NoWaitCycle
  BY <1>1 DEF Init, NoWaitCycle
<1>5. QED
  BY <1>2, <1>3, <1>4 DEF IInv

\* No call of a connection breaks the invariant.
LEMMA StepInv == IInv /\ [Next]_vars => IInv'
<1> SUFFICES ASSUME IInv, [Next]_vars
             PROVE  IInv'
  OBVIOUS
<1>1. ASSUME NEW c \in Conns, Statement(c)
      PROVE  IInv'
  <2>1. /\ Kinds(c) \ {2} \subseteq {0, 1}
        /\ Kinds(c) \subseteq {0, 1, 2}
    BY DEF Kinds
  <2>2. QED
    BY <1>1, <2>1, StartStep, BeginStatementStep, LockTableStep, StepStep
    DEF Statement
<1>2. CASE UNCHANGED vars
  <2>1. UNCHANGED trans /\ UNCHANGED <<waits, autoCommit, open, pc, inTrans>>
    BY <1>2 DEF vars, trans
  <2>2. TransInv'
    BY <2>1, SameTrans DEF IInv
  <2>3. WaitType' /\ StatementInv' /\ WaitInv' /\ NoWaitCycle'
    BY <2>1 DEF IInv, waits, WaitType, StatementInv, WaitInv, NoWaitCycle,
       Owes, At
  <2>4. QED
    BY <2>2, <2>3 DEF IInv
<1>3. QED
  BY <1>1, <1>2, HaltStep, CloseStep, EndStatementStep, UnlockedStep,
     RegisterStep, GiveUpStep DEF Next

\* The invariant holds for any connections and tables: what the theorems below
\* are read off from.
THEOREM Invariance == Spec => []IInv
BY InitInv, StepInv, PTL DEF Spec

\* The assertions of btree.c hold, for any connections and tables.
THEOREM LocksAreOK == Spec => []LocksOK
<1>1. IInv => LocksOK
  BY DEF IInv, TransInv, WriteLocksInv, AloneInv, LocksOfTransInv, WriterInv, LocksOK
<1>2. QED
  BY Invariance, <1>1, PTL

\* Nobody waits in a circle of any length.
THEOREM NobodyWaitsInACircle == Spec => []NoWaitCycle
<1>1. IInv => NoWaitCycle
  BY DEF IInv
<1>2. QED
  BY Invariance, <1>1, PTL

\* Who waits is registered with a connection that has not called back yet.
THEOREM NoCallIsLost == Spec => []NoLostCall
<1>1. IInv => NoLostCall
  BY DEF IInv, WaitInv, WaitType, NoLostCall
<1>2. QED
  BY Invariance, <1>1, PTL

-----------------------------------------------------------------------------
\* What BTS_PENDING promises to the writer, of one step.
PendingHeeded ==
  pending =>
    /\ \A d \in Conns : inTrans'[d] # TRANS_NONE => inTrans[d] # TRANS_NONE
    /\ \/ pending'
       \/ pWriter' # pWriter
       \/ \A d \in Conns \ {pWriter} : inTrans'[d] = TRANS_NONE

\* A step that ends no transaction and begins none.
LEMMA NothingEnds ==
  ASSUME UNCHANGED inTrans, pending => pending'
  PROVE  PendingHeeded
BY DEF PendingHeeded

\* With two transactions, one of them the writer's, the other is the last that
\* the writer waits for.
LEMMA LastOfTwo ==
  ASSUME NEW c \in Conns, NEW w \in Conns \ {c}, inTrans[c] # TRANS_NONE,
         inTrans[w] # TRANS_NONE, nTransaction = 2, NEW d \in Conns \ {c, w}
  PROVE  inTrans[d] = TRANS_NONE
<1> DEFINE T == {e \in Conns : inTrans[e] # TRANS_NONE}
<1>1. IsFiniteSet(T) /\ Cardinality(T) = 2
  BY SharedCacheAssumption, FS_Subset DEF nTransaction
<1>2. c \in T /\ w \in T \ {c}
  OBVIOUS
<1> HIDE DEF T
<1>3. IsFiniteSet(T \ {c}) /\ Cardinality(T \ {c}) = 1
  BY <1>1, <1>2, FS_RemoveElement
<1>4. /\ IsFiniteSet((T \ {c}) \ {w})
      /\ Cardinality((T \ {c}) \ {w}) = 0
  BY <1>2, <1>3, FS_RemoveElement
<1>5. (T \ {c}) \ {w} = {}
  BY <1>4, FS_EmptySet
<1>6. d \notin T
  BY <1>5
<1>7. QED
  BY <1>6 DEF T

\* sqlite3BtreeBeginTrans() begins nothing while BTS_PENDING or BTS_EXCLUSIVE
\* forbids it.
LEMMA BeginTransHeeds ==
  ASSUME IInv, NEW c \in Conns, NEW wrflag \in {0, 1, 2}, NEW p,
         BeginTrans(c, wrflag, p)
  PROVE  PendingHeeded
<1>a. TransInv
  BY DEF IInv
<1>1. CASE ~IsBegun(c, wrflag) /\ BeginBlockers(c, wrflag) = {}
  <2>1. Begin(c, wrflag)
    BY <1>1 DEF BeginTrans
  <2>2. ~pending
    BY <1>a, <1>1, <2>1, BeginKeeps
  <2>3. QED
    BY <2>2 DEF PendingHeeded
<1>2. CASE IsBegun(c, wrflag) \/ BeginBlockers(c, wrflag) # {}
  BY <1>2, NothingEnds DEF BeginTrans, trans
<1>3. QED
  BY <1>1, <1>2

\* The end of a transaction is the beginning of no other, and the flag goes
\* with the writer or with the last that is in its way.
LEMMA EndHeeds ==
  ASSUME IInv, NEW c \in Conns, NEW active \in BOOLEAN, EndTransaction(c, active)
  PROVE  PendingHeeded
<1> SUFFICES ASSUME pending
             PROVE  /\ \A d \in Conns : inTrans'[d] # TRANS_NONE => inTrans[d] # TRANS_NONE
                    /\ \/ pending'
                       \/ pWriter' # pWriter
                       \/ \A d \in Conns \ {pWriter} : inTrans'[d] = TRANS_NONE
  BY DEF PendingHeeded
<1>1. TransInv /\ None \notin Conns
  BY SharedCacheAssumption DEF IInv
<1>2. /\ \A d \in Conns \ {c} : inTrans'[d] = inTrans[d]
      /\ inTrans'[c] # TRANS_NONE => inTrans[c] # TRANS_NONE
  BY <1>1, EndKeeps
<1>3. pWriter \in Conns /\ inTrans[pWriter] # TRANS_NONE
  BY <1>1 DEF TransInv, WriterInv
<1>4. ASSUME ~pending', pWriter' = pWriter
      PROVE  \A d \in Conns \ {pWriter} : inTrans'[d] = TRANS_NONE
  <2>1. pWriter # c
    BY <1>1, <1>3, <1>4 DEF EndTransaction
  <2>2. /\ inTrans[c] # TRANS_NONE /\ nTransaction = 2
        /\ inTrans' = [inTrans EXCEPT ![c] = TRANS_NONE]
    <3>1. CASE inTrans[c] # TRANS_NONE /\ active
      <4>1. pending' = (pending /\ ~(pWriter = c))
        BY <3>1 DEF EndTransaction
      <4>2. QED
        BY <1>4, <2>1, <4>1, Zenon
    <3>2. CASE ~(inTrans[c] # TRANS_NONE /\ active)
      <4>1. /\ pending' = (pending /\ ~ClearsPending(c))
            /\ inTrans' = [inTrans EXCEPT ![c] = TRANS_NONE]
        BY <3>2 DEF EndTransaction
      <4>2. ClearsPending(c)
        BY <1>4, <4>1, Zenon
      <4>3. QED
        BY <2>1, <4>1, <4>2 DEF ClearsPending
    <3>3. QED
      BY <3>1, <3>2
  <2>3. inTrans'[c] = TRANS_NONE
    BY <1>1, <2>2 DEF TransInv, TransType
  <2>4. ASSUME NEW d \in Conns \ {pWriter}, d # c
        PROVE  inTrans'[d] = TRANS_NONE
    <3>1. inTrans[d] = TRANS_NONE
      BY <1>3, <2>1, <2>2, <2>4, LastOfTwo
    <3>2. QED
      BY <1>2, <2>4, <3>1
  <2>5. QED
    BY <2>3, <2>4
<1>5. QED
  BY <1>2, <1>4

\* No call lets a reader in while a writer waits for the readers to leave, or
\* takes the flag from the writer.
LEMMA StepHeeds == IInv /\ [Next]_vars => PendingHeeded
<1> SUFFICES ASSUME IInv, [Next]_vars
             PROVE  PendingHeeded
  OBVIOUS
<1>1. ASSUME NEW c \in Conns
      PROVE  open[c] \in BOOLEAN
  BY DEF IInv, WaitType
<1>2. ASSUME UNCHANGED inTrans, pending => pending'
      PROVE  PendingHeeded
  BY <1>2, NothingEnds
<1>3. ASSUME NEW c \in Conns, Statement(c)
      PROVE  PendingHeeded
  <2>1. /\ Kinds(c) \ {2} \subseteq {0, 1, 2}
        /\ Kinds(c) \subseteq {0, 1, 2}
    BY DEF Kinds
  <2>2. ASSUME NEW wrflag \in Kinds(c) \ {2}, Start(c, wrflag)
        PROVE  PendingHeeded
    BY <2>1, <2>2, BeginTransHeeds DEF Start
  <2>3. ASSUME NEW wrflag \in Kinds(c), BeginStatement(c, wrflag)
        PROVE  PendingHeeded
    <3>1. CASE wrflag = 0
      BY <1>2, <2>3, <3>1 DEF BeginStatement, trans
    <3>2. CASE wrflag # 0
      BY <2>1, <2>3, <3>2, BeginTransHeeds DEF BeginStatement
    <3>3. QED
      BY <3>1, <3>2
  <2>4. QED
    <3>1. ASSUME NEW t \in Tables, NEW lock \in {READ_LOCK, WRITE_LOCK},
                 LockTable(c, t, lock)
          PROVE  PendingHeeded
      <4>1. UNCHANGED inTrans /\ (pending => pending')
        BY <3>1 DEF LockTable
      <4>2. QED
        BY <1>2, <4>1
    <3>2. ASSUME Step(c)
          PROVE  PendingHeeded
      BY <1>2, <3>2 DEF Step, trans
    <3>3. QED
      BY <1>3, <2>2, <2>3, <3>1, <3>2 DEF Statement
<1>4. ASSUME NEW c \in Conns, Halt(c) \/ Close(c) \/ EndStatement(c)
      PROVE  PendingHeeded
  <2>1. \/ UNCHANGED <<inTrans, pending>>
        \/ \E active \in BOOLEAN : EndTransaction(c, active)
    BY <1>1, <1>4 DEF Halt, Close, EndStatement, trans
  <2>2. QED
    BY <1>2, <2>1, EndHeeds
<1>5. ASSUME NEW c \in Conns, Unlocked(c) \/ Register(c) \/ GiveUp(c)
      PROVE  PendingHeeded
  BY <1>2, <1>5 DEF Unlocked, Register, GiveUp, trans
<1>6. CASE UNCHANGED vars
  BY <1>2, <1>6 DEF vars, trans
<1>7. QED
  BY <1>3, <1>4, <1>5, <1>6 DEF Next

\* While BTS_PENDING is set the readers the writer waits for become fewer, and
\* the flag stays until it has ended or none of them is left.
THEOREM ReadersBecomeFewer == Spec => PendingKeepsReadersOut
<1>1. IInv /\ [Next]_vars =>
        [pending =>
           /\ \A c \in Conns : inTrans'[c] # TRANS_NONE => inTrans[c] # TRANS_NONE
           /\ \/ pending'
              \/ pWriter' # pWriter
              \/ \A c \in Conns \ {pWriter} : inTrans'[c] = TRANS_NONE]_vars
  BY StepHeeds DEF PendingHeeded
<1>2. QED
  BY Invariance, <1>1, PTL DEF Spec, PendingKeepsReadersOut
=============================================================================
