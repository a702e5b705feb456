--------------------------- MODULE UnixLockProofs ---------------------------
(***************************************************************************)
(* Proofs about UnixLock, for any finite set of connections in any number  *)
(* of processes: the counts that the connections of a process share are    *)
(* right, each connection is covered by the locks of its process, and the  *)
(* calls implement FileLock.                                               *)
(***************************************************************************)
EXTENDS UnixLock, FiniteSetTheorems, TLAPS

\* TypeOK, in the form in which the steps keep it: the counts are in range
\* because of what they count.
Shapes ==
  /\ os \in [Procs -> [Places -> {"none", "read", "write"}]]
  /\ inode \in [Procs -> [eFileLock : NO_LOCK..EXCLUSIVE_LOCK,
                          nShared : Nat, nLock : Nat, unused : BOOLEAN]]
  /\ eFileLock \in [Conns -> NO_LOCK..EXCLUSIVE_LOCK]
  /\ open \in SUBSET Conns
  /\ pc \in [Conns -> Steps]

Counts ==
  \A p \in Procs : /\ inode[p].nShared = Cardinality(Holders(p))
                   /\ inode[p].nLock = Cardinality(Holders(p))

\* The mutex of the inode: one call at a time in each process, of a
\* connection whose file is open.
MutexInv ==
  /\ \A c, d \in Conns :
       ProcOf[c] = ProcOf[d] /\ pc[c] # "idle" /\ pc[d] # "idle" => c = d
  /\ \A c \in Conns : pc[c] # "idle" \/ eFileLock[c] # NO_LOCK => c \in open

\* The level in unixInodeInfo is that of its strongest connection, but for
\* one that has given up the bytes and not yet the rest.
LevelInv ==
  \A c \in Conns :
    LET level == inode[ProcOf[c]].eFileLock
    IN /\ pc[c] # "all" => eFileLock[c] <= level
       /\ pc[c] = "all" => level = SHARED_LOCK
       /\ eFileLock[c] > SHARED_LOCK /\ pc[c] # "all" => eFileLock[c] = level

\* One connection of a process is above SHARED, and one with EXCLUSIVE is the
\* only one with a lock.
SoleInv ==
  \A c, d \in Conns :
    ProcOf[c] = ProcOf[d] /\ c # d =>
      /\ eFileLock[c] > SHARED_LOCK => eFileLock[d] <= SHARED_LOCK
      /\ eFileLock[c] = EXCLUSIVE_LOCK => eFileLock[d] = NO_LOCK

\* The level is that of somebody.
HeldInv == \A p \in Procs : inode[p].eFileLock # NO_LOCK => Holders(p) # {}

\* What is known in the middle of a call.
CallInv ==
  \A c \in Conns :
    LET its == os[ProcOf[c]]
    IN /\ pc[c] \in {"range", "drop", "giveup"} =>
            inode[ProcOf[c]].eFileLock = NO_LOCK /\ its["pending"] = "read"
       /\ pc[c] \in {"drop", "bytes"} => its["shared"] = "read"
       /\ pc[c] = "exclusive" => eFileLock[c] = PENDING_LOCK
       /\ pc[c] \in {"bytes", "bytesAll", "all"} => eFileLock[c] > SHARED_LOCK

\* The operating system keeps a write-lock of one process from the others.
SystemInv ==
  \A p, q \in Procs, pl \in Places :
    p # q /\ os[p][pl] = "write" => os[q][pl] = "none"

\* The locks of a process cover its connections,
CoverInv ==
  \A c \in Conns :
    LET its == os[ProcOf[c]]
    IN /\ eFileLock[c] # NO_LOCK => its["shared"] # "none"
       /\ eFileLock[c] = EXCLUSIVE_LOCK /\ pc[c] # "bytes" => its["shared"] = "write"
       /\ eFileLock[c] \in {RESERVED_LOCK, PENDING_LOCK} /\ pc[c] # "all" =>
            its["reserved"] = "write"
       /\ eFileLock[c] = PENDING_LOCK /\ pc[c] # "all" => its["pending"] = "write"
       /\ eFileLock[c] = EXCLUSIVE_LOCK =>
            /\ its["pending"] # "read"
            /\ its["pending"] = "write" <=> its["reserved"] = "write"

\* and none is left over: every lock that others have to respect is there for
\* some connection.
NeededInv ==
  \A p \in Procs :
    /\ os[p]["shared"] = "write" =>
         \E c \in Conns : ProcOf[c] = p /\ eFileLock[c] = EXCLUSIVE_LOCK
                          /\ pc[c] # "bytes"
    /\ os[p]["reserved"] = "write" =>
         \E c \in Conns : ProcOf[c] = p /\ eFileLock[c] > SHARED_LOCK
                          /\ pc[c] # "all"
    /\ os[p]["pending"] = "write" =>
         \E c \in Conns : ProcOf[c] = p /\ eFileLock[c] >= PENDING_LOCK
                          /\ pc[c] # "all"
    /\ os[p]["pending"] = "read" =>
         \E c \in Conns : ProcOf[c] = p /\ pc[c] \in {"range", "drop", "giveup"}

\* Between the two steps of a call from EXCLUSIVE to SHARED the shared range
\* is free for readers and the pending byte still keeps them out.
LeavingInv ==
  \A c \in Conns :
    /\ pc[c] = "bytes" /\ eFileLock[c] = EXCLUSIVE_LOCK
    /\ os[ProcOf[c]]["pending"] # "none"
    => \A p \in Procs \ {ProcOf[c]} : os[p]["shared"] = "none"

IInv == /\ Shapes /\ Counts /\ MutexInv /\ LevelInv /\ SoleInv /\ HeldInv
        /\ CallInv /\ SystemInv /\ CoverInv /\ NeededInv /\ LeavingInv

-----------------------------------------------------------------------------
USE DEF NO_LOCK, SHARED_LOCK, RESERVED_LOCK, PENDING_LOCK, EXCLUSIVE_LOCK

\* A process has finitely many connections that have a lock.
LEMMA HoldersFinite ==
  ASSUME NEW p \in Procs
  PROVE  /\ IsFiniteSet(Holders(p)) /\ IsFiniteSet(Holders(p)')
         /\ Cardinality(Holders(p)) \in 0..Cardinality(Conns)
         /\ Cardinality(Holders(p)') \in 0..Cardinality(Conns)
<1>1. /\ IsFiniteSet(Conns) /\ Holders(p) \in SUBSET Conns
      /\ Holders(p)' \in SUBSET Conns
  BY UnixLockAssumption DEF Holders
<1>2. QED
  BY <1>1, FS_Subset, FS_CardinalityType

\* The type invariant in two parts: the shapes of the variables, and the counts
\* of the unixInodeInfo, which are numbers of connections.
LEMMA TypeParts == TypeOK <=> Shapes /\ Counts
<1>1. Cardinality(Conns) \in Nat
  BY UnixLockAssumption, FS_CardinalityType
<1>2. TypeOK => Shapes /\ Counts
  BY <1>1 DEF TypeOK, Shapes, Counts
<1>3. ASSUME Shapes, Counts
      PROVE  TypeOK
  <2>1. ASSUME NEW p \in Procs
        PROVE  inode[p] \in [eFileLock : NO_LOCK..EXCLUSIVE_LOCK,
                             nShared : 0..Cardinality(Conns),
                             nLock : 0..Cardinality(Conns), unused : BOOLEAN]
    BY <1>3, HoldersFinite DEF Shapes, Counts
  <2>2. QED
    BY <1>3, <2>1 DEF TypeOK, Shapes, Counts
<1>4. QED
  BY <1>2, <1>3

\* nLock is right as long as no connection gets its first lock or loses its last.
LEMMA SameHolders ==
  ASSUME \A d \in Conns : eFileLock'[d] # NO_LOCK <=> eFileLock[d] # NO_LOCK
  PROVE  \A p \in Procs : Holders(p)' = Holders(p)
BY DEF Holders

\* A connection that gets its first lock counts as one more.
LEMMA NewHolder ==
  ASSUME NEW c \in Conns, eFileLock \in [Conns -> NO_LOCK..EXCLUSIVE_LOCK],
         eFileLock[c] = NO_LOCK,
         eFileLock' = [eFileLock EXCEPT ![c] = SHARED_LOCK]
  PROVE  /\ Holders(ProcOf[c])' = Holders(ProcOf[c]) \cup {c}
         /\ Cardinality(Holders(ProcOf[c])') = Cardinality(Holders(ProcOf[c])) + 1
         /\ \A p \in Procs : p # ProcOf[c] => Holders(p)' = Holders(p)
<1>1. ProcOf[c] \in Procs
  BY UnixLockAssumption
<1>2. /\ Holders(ProcOf[c])' = Holders(ProcOf[c]) \cup {c}
      /\ \A p \in Procs : p # ProcOf[c] => Holders(p)' = Holders(p)
      /\ c \notin Holders(ProcOf[c])
  BY DEF Holders
<1>3. QED
  BY <1>1, <1>2, HoldersFinite, FS_AddElement

\* A connection that loses its last lock counts as one less.
LEMMA LostHolder ==
  ASSUME NEW c \in Conns, eFileLock \in [Conns -> NO_LOCK..EXCLUSIVE_LOCK],
         eFileLock[c] # NO_LOCK,
         eFileLock' = [eFileLock EXCEPT ![c] = NO_LOCK]
  PROVE  /\ Holders(ProcOf[c])' = Holders(ProcOf[c]) \ {c}
         /\ Cardinality(Holders(ProcOf[c])') = Cardinality(Holders(ProcOf[c])) - 1
         /\ \A p \in Procs : p # ProcOf[c] => Holders(p)' = Holders(p)
<1>1. ProcOf[c] \in Procs
  BY UnixLockAssumption
<1>2. /\ Holders(ProcOf[c])' = Holders(ProcOf[c]) \ {c}
      /\ \A p \in Procs : p # ProcOf[c] => Holders(p)' = Holders(p)
      /\ c \in Holders(ProcOf[c])
  BY DEF Holders
<1>3. QED
  BY <1>1, <1>2, HoldersFinite, FS_RemoveElement

\* A connection that is counted alone is the only one.
LEMMA OnlyHolder ==
  ASSUME NEW c \in Conns, eFileLock[c] # NO_LOCK, NEW n, n = 1,
         Cardinality(Holders(ProcOf[c])) = n
  PROVE  \A d \in Conns : ProcOf[d] = ProcOf[c] /\ d # c => eFileLock[d] = NO_LOCK
<1>1. /\ ProcOf[c] \in Procs
      /\ c \in Holders(ProcOf[c])
  BY UnixLockAssumption DEF Holders
<1>2. PICK x : Holders(ProcOf[c]) = {x}
  BY <1>1, HoldersFinite, FS_Singleton
<1>3. QED
  BY <1>1, <1>2 DEF Holders

\* A process that has SHARED already only counts the new connection.
LEMMA LockSharedAgainStep ==
  ASSUME IInv, NEW c \in Conns, LockSharedAgain(c)
  PROVE  IInv'
<1> USE DEF Places, Steps, Info, NoInode, Free
<1>a. /\ Shapes /\ Counts
      /\ ProcOf \in [Conns -> Procs] /\ ProcOf[c] \in Procs
  BY UnixLockAssumption DEF IInv
<1> USE DEF Shapes
<1>b. /\ ProcOf[c] \in Procs
      /\ inode \in [Procs -> [eFileLock : NO_LOCK..EXCLUSIVE_LOCK,
                             nShared : Nat, nLock : Nat, unused : BOOLEAN]]
  BY <1>a
<1> DEFINE i == inode[ProcOf[c]]
<1>1. /\ inode' = [inode EXCEPT ![ProcOf[c]] = Info(i.eFileLock, i.nShared + 1, i.nLock + 1, i.unused)]
      /\ eFileLock' = [eFileLock EXCEPT ![c] = SHARED_LOCK]
      /\ os' = os
      /\ open' = open
      /\ pc' = pc
  BY <1>a DEF LockSharedAgain, Level, SetLock, At
<1>2. /\ c \in open
      /\ \A d \in Mates(c) : pc[d] = "idle"
      /\ eFileLock[c] = NO_LOCK
      /\ i.eFileLock \in {SHARED_LOCK, RESERVED_LOCK}
  BY <1>a DEF LockSharedAgain, Enter, AloneInProcess, SetLock, IInv,
     Mates, MutexInv, LevelInv, CallInv
<1>3. /\ Holders(ProcOf[c])' = Holders(ProcOf[c]) \cup {c}
      /\ Cardinality(Holders(ProcOf[c])') = Cardinality(Holders(ProcOf[c])) + 1
      /\ \A p \in Procs : p # ProcOf[c] => Holders(p)' = Holders(p)
  BY <1>a, <1>1, <1>2, NewHolder
<1>4. os[ProcOf[c]]["shared"] # "none"
  BY <1>a, <1>1, <1>2 DEF IInv, HeldInv, CoverInv, Holders
<1>5. inode' \in [Procs -> [eFileLock : NO_LOCK..EXCLUSIVE_LOCK,
                         nShared : Nat, nLock : Nat, unused : BOOLEAN]]
  BY <1>b, <1>1
<1>6. eFileLock' \in [Conns -> NO_LOCK..EXCLUSIVE_LOCK]
  BY <1>a, <1>1
<1>7. Shapes'
  BY <1>a, <1>1, <1>2, <1>5, <1>6
<1>8. Counts'
  BY <1>a, <1>1, <1>2, <1>3, HoldersFinite DEF Counts
<1>9. MutexInv'
  BY <1>a, <1>1, <1>2 DEF IInv, MutexInv, Mates
<1>10. LevelInv'
  BY <1>a, <1>1, <1>2 DEF IInv, LevelInv, CallInv, MutexInv, SoleInv, Mates, NoInode
<1>11. SoleInv'
  BY <1>a, <1>1, <1>2 DEF IInv, SoleInv, LevelInv, MutexInv, Mates
<1>12. HeldInv'
  BY <1>a, <1>1, <1>2, <1>3 DEF IInv, HeldInv, LevelInv, Mates
<1>13. CallInv'
  BY <1>a, <1>1, <1>2 DEF IInv, CallInv, MutexInv, LevelInv, Mates
<1>14. SystemInv'
  BY <1>a, <1>1, <1>2 DEF IInv, SystemInv, CallInv, CoverInv, NeededInv, LevelInv, SoleInv, Grants, Free
<1>15. CoverInv'
  BY <1>a, <1>1, <1>2, <1>4 DEF IInv, CoverInv, LevelInv, SoleInv, CallInv, MutexInv, NeededInv, Grants, Free, Mates
<1>16. NeededInv'
  BY <1>a, <1>1, <1>2 DEF IInv, NeededInv, LevelInv, SoleInv, CallInv, MutexInv, CoverInv, Grants, Free, Mates
<1>17. LeavingInv'
  BY <1>a, <1>1, <1>2 DEF IInv, LeavingInv, LevelInv, SoleInv, CallInv, MutexInv, SystemInv, CoverInv, Grants, Free, Mates
<1>18. QED
  BY <1>7, <1>8, <1>9, <1>10, <1>11, <1>12, <1>13, <1>14, <1>15, <1>16, <1>17 DEF IInv

\* The PENDING byte is locked for reading on the way to SHARED.
LEMMA LockSharedPendingStep ==
  ASSUME IInv, NEW c \in Conns, LockSharedPending(c)
  PROVE  IInv'
<1> USE DEF Places, Steps, Info, NoInode, Free
<1>a. /\ Shapes /\ Counts
      /\ ProcOf \in [Conns -> Procs] /\ ProcOf[c] \in Procs
  BY UnixLockAssumption DEF IInv
<1> USE DEF Shapes
<1>b. /\ ProcOf[c] \in Procs
      /\ inode \in [Procs -> [eFileLock : NO_LOCK..EXCLUSIVE_LOCK,
                             nShared : Nat, nLock : Nat, unused : BOOLEAN]]
  BY <1>a
<1> DEFINE i == inode[ProcOf[c]]
<1>1. /\ os' = [os EXCEPT ![ProcOf[c]]["pending"] = "read"]
      /\ pc' = [pc EXCEPT ![c] = "range"]
      /\ inode' = inode
      /\ eFileLock' = eFileLock
      /\ open' = open
  BY <1>a DEF LockSharedPending, Level, SetLock, At
<1>2. /\ c \in open
      /\ \A d \in Mates(c) : pc[d] = "idle"
      /\ eFileLock[c] = NO_LOCK
      /\ i.eFileLock = NO_LOCK
      /\ Grants(ProcOf[c], "pending", "read")
  BY <1>a DEF LockSharedPending, Enter, AloneInProcess, SetLock, IInv,
     Mates, MutexInv, LevelInv, CallInv
<1>3. \A p \in Procs : Holders(p)' = Holders(p)
  BY <1>a, <1>1 DEF Holders
<1>4. os' \in [Procs -> [Places -> {"none", "read", "write"}]]
  BY <1>a, <1>1
<1>5. pc' \in [Conns -> Steps]
  BY <1>a, <1>1
<1>6. Shapes'
  BY <1>a, <1>1, <1>2, <1>4, <1>5
<1>7. Counts'
  BY <1>a, <1>1, <1>2, <1>3, HoldersFinite DEF Counts
<1>8. MutexInv'
  BY <1>a, <1>1, <1>2 DEF IInv, MutexInv, Mates
<1>9. LevelInv'
  BY <1>a, <1>1, <1>2 DEF IInv, LevelInv, CallInv, MutexInv, SoleInv, Mates, NoInode
<1>10. SoleInv'
  BY <1>a, <1>1, <1>2 DEF IInv, SoleInv, LevelInv, MutexInv, Mates
<1>11. HeldInv'
  BY <1>a, <1>1, <1>2, <1>3 DEF IInv, HeldInv, LevelInv, Mates
<1>12. CallInv'
  BY <1>a, <1>1, <1>2 DEF IInv, CallInv, MutexInv, LevelInv, Mates
<1>13. SystemInv'
  BY <1>a, <1>1, <1>2 DEF IInv, SystemInv, CallInv, CoverInv, NeededInv, LevelInv, SoleInv, Grants, Free
<1>14. CoverInv'
  BY <1>a, <1>1, <1>2 DEF IInv, CoverInv, LevelInv, SoleInv, CallInv, MutexInv, NeededInv, Grants, Free, Mates
<1>15. NeededInv'
  BY <1>a, <1>1, <1>2 DEF IInv, NeededInv, LevelInv, SoleInv, CallInv, MutexInv, CoverInv, Grants, Free, Mates
<1>16. LeavingInv'
  BY <1>a, <1>1, <1>2 DEF IInv, LeavingInv, LevelInv, SoleInv, CallInv, MutexInv, SystemInv, CoverInv, Grants, Free, Mates
<1>17. QED
  BY <1>6, <1>7, <1>8, <1>9, <1>10, <1>11, <1>12, <1>13, <1>14, <1>15, <1>16 DEF IInv

\* The SHARED range is locked for reading, or not.
LEMMA LockSharedRangeStep ==
  ASSUME IInv, NEW c \in Conns, LockSharedRange(c)
  PROVE  IInv'
<1> USE DEF Places, Steps, Info, NoInode, Free
<1>a. /\ Shapes /\ Counts
      /\ ProcOf \in [Conns -> Procs] /\ ProcOf[c] \in Procs
  BY UnixLockAssumption DEF IInv
<1> USE DEF Shapes
<1>b. /\ ProcOf[c] \in Procs
      /\ inode \in [Procs -> [eFileLock : NO_LOCK..EXCLUSIVE_LOCK,
                             nShared : Nat, nLock : Nat, unused : BOOLEAN]]
  BY <1>a
<1>1. CASE SetLock(ProcOf[c], "shared", "read") /\ At(c, "drop")
  <2>1. /\ os' = [os EXCEPT ![ProcOf[c]]["shared"] = "read"]
        /\ pc' = [pc EXCEPT ![c] = "drop"]
        /\ inode' = inode
        /\ eFileLock' = eFileLock
        /\ open' = open
    BY <1>a, <1>1 DEF LockSharedRange, Level, SetLock, At
  <2>2. /\ pc[c] = "range"
        /\ Grants(ProcOf[c], "shared", "read")
    BY <1>a, <1>1 DEF LockSharedRange, Enter, AloneInProcess, SetLock, IInv,
       Mates, MutexInv, LevelInv, CallInv
  <2>3. \A p \in Procs : Holders(p)' = Holders(p)
    BY <1>a, <2>1 DEF Holders
  <2>4. os' \in [Procs -> [Places -> {"none", "read", "write"}]]
    BY <1>a, <2>1
  <2>5. pc' \in [Conns -> Steps]
    BY <1>a, <2>1
  <2>6. Shapes'
    BY <1>a, <1>1, <2>1, <2>2, <2>4, <2>5
  <2>7. Counts'
    BY <1>a, <1>1, <2>1, <2>2, <2>3, HoldersFinite DEF Counts
  <2>8. MutexInv'
    BY <1>a, <1>1, <2>1, <2>2 DEF IInv, MutexInv, Mates
  <2>9. LevelInv'
    BY <1>a, <1>1, <2>1, <2>2 DEF IInv, LevelInv, CallInv, MutexInv, SoleInv, Mates, NoInode
  <2>10. SoleInv'
    BY <1>a, <1>1, <2>1, <2>2 DEF IInv, SoleInv, LevelInv, MutexInv, Mates
  <2>11. HeldInv'
    BY <1>a, <1>1, <2>1, <2>2, <2>3 DEF IInv, HeldInv, LevelInv, Mates
  <2>12. CallInv'
    BY <1>a, <1>1, <2>1, <2>2 DEF IInv, CallInv, MutexInv, LevelInv, Mates
  <2>13. SystemInv'
    BY <1>a, <1>1, <2>1, <2>2 DEF IInv, SystemInv, CallInv, CoverInv, NeededInv, LevelInv, SoleInv, Grants, Free
  <2>14. CoverInv'
    BY <1>a, <1>1, <2>1, <2>2 DEF IInv, CoverInv, LevelInv, SoleInv, CallInv, MutexInv, NeededInv, Grants, Free, Mates
  <2>15. NeededInv'
    BY <1>a, <1>1, <2>1, <2>2 DEF IInv, NeededInv, LevelInv, SoleInv, CallInv, MutexInv, CoverInv, Grants, Free, Mates
  <2>16. LeavingInv'
    BY <1>a, <1>1, <2>1, <2>2 DEF IInv, LeavingInv, LevelInv, SoleInv, CallInv, MutexInv, SystemInv, CoverInv, Grants, Free, Mates
  <2>17. QED
    BY <2>6, <2>7, <2>8, <2>9, <2>10, <2>11, <2>12, <2>13, <2>14, <2>15, <2>16 DEF IInv
<1>2. CASE At(c, "giveup") /\ UNCHANGED os
  <2>1. /\ pc' = [pc EXCEPT ![c] = "giveup"]
        /\ os' = os
        /\ inode' = inode
        /\ eFileLock' = eFileLock
        /\ open' = open
    BY <1>a, <1>2 DEF LockSharedRange, Level, SetLock, At
  <2>2. pc[c] = "range"
    BY <1>a, <1>2 DEF LockSharedRange, Enter, AloneInProcess, SetLock, IInv,
       Mates, MutexInv, LevelInv, CallInv
  <2>3. \A p \in Procs : Holders(p)' = Holders(p)
    BY <1>a, <2>1 DEF Holders
  <2>4. pc' \in [Conns -> Steps]
    BY <1>a, <2>1
  <2>5. Shapes'
    BY <1>a, <1>2, <2>1, <2>2, <2>4
  <2>6. Counts'
    BY <1>a, <1>2, <2>1, <2>2, <2>3, HoldersFinite DEF Counts
  <2>7. MutexInv'
    BY <1>a, <1>2, <2>1, <2>2 DEF IInv, MutexInv, Mates
  <2>8. LevelInv'
    BY <1>a, <1>2, <2>1, <2>2 DEF IInv, LevelInv, CallInv, MutexInv, SoleInv, Mates, NoInode
  <2>9. SoleInv'
    BY <1>a, <1>2, <2>1, <2>2 DEF IInv, SoleInv, LevelInv, MutexInv, Mates
  <2>10. HeldInv'
    BY <1>a, <1>2, <2>1, <2>2, <2>3 DEF IInv, HeldInv, LevelInv, Mates
  <2>11. CallInv'
    BY <1>a, <1>2, <2>1, <2>2 DEF IInv, CallInv, MutexInv, LevelInv, Mates
  <2>12. SystemInv'
    BY <1>a, <1>2, <2>1, <2>2 DEF IInv, SystemInv, CallInv, CoverInv, NeededInv, LevelInv, SoleInv, Grants, Free
  <2>13. CoverInv'
    BY <1>a, <1>2, <2>1, <2>2 DEF IInv, CoverInv, LevelInv, SoleInv, CallInv, MutexInv, NeededInv, Grants, Free, Mates
  <2>14. NeededInv'
    BY <1>a, <1>2, <2>1, <2>2 DEF IInv, NeededInv, LevelInv, SoleInv, CallInv, MutexInv, CoverInv, Grants, Free, Mates
  <2>15. LeavingInv'
    BY <1>a, <1>2, <2>1, <2>2 DEF IInv, LeavingInv, LevelInv, SoleInv, CallInv, MutexInv, SystemInv, CoverInv, Grants, Free, Mates
  <2>16. QED
    BY <2>5, <2>6, <2>7, <2>8, <2>9, <2>10, <2>11, <2>12, <2>13, <2>14, <2>15 DEF IInv
<1>3. QED
  BY <1>1, <1>2 DEF LockSharedRange

\* The PENDING byte is given back, with SHARED or without.
LEMMA LockSharedDoneStep ==
  ASSUME IInv, NEW c \in Conns, LockSharedDone(c)
  PROVE  IInv'
<1> USE DEF Places, Steps, Info, NoInode, Free
<1>a. /\ Shapes /\ Counts
      /\ ProcOf \in [Conns -> Procs] /\ ProcOf[c] \in Procs
  BY UnixLockAssumption DEF IInv
<1> USE DEF Shapes
<1>b. /\ ProcOf[c] \in Procs
      /\ inode \in [Procs -> [eFileLock : NO_LOCK..EXCLUSIVE_LOCK,
                             nShared : Nat, nLock : Nat, unused : BOOLEAN]]
  BY <1>a
<1>1. CASE pc[c] = "drop"
  <2> DEFINE i == inode[ProcOf[c]]
  <2>1. /\ os' = [os EXCEPT ![ProcOf[c]]["pending"] = "none"]
        /\ eFileLock' = [eFileLock EXCEPT ![c] = SHARED_LOCK]
        /\ inode' = [inode EXCEPT ![ProcOf[c]] = Info(SHARED_LOCK, 1, i.nLock + 1, i.unused)]
        /\ pc' = [pc EXCEPT ![c] = "idle"]
        /\ open' = open
    BY <1>a, <1>1 DEF LockSharedDone, Level, SetLock, At
  <2>2. /\ i.eFileLock = NO_LOCK
        /\ eFileLock[c] = NO_LOCK
    BY <1>a, <1>1 DEF IInv, LevelInv, CallInv
  <2>3. /\ Holders(ProcOf[c])' = Holders(ProcOf[c]) \cup {c}
        /\ Cardinality(Holders(ProcOf[c])') = Cardinality(Holders(ProcOf[c])) + 1
        /\ \A p \in Procs : p # ProcOf[c] => Holders(p)' = Holders(p)
    BY <1>a, <1>1, <2>1, <2>2, NewHolder
  <2>4. \A d \in Conns : ProcOf[d] = ProcOf[c] => eFileLock[d] = NO_LOCK
    BY <1>a, <1>1, <2>2 DEF IInv, LevelInv, MutexInv
  <2>5. Holders(ProcOf[c]) = {} /\ Cardinality(Holders(ProcOf[c])) = 0
    BY <2>4, FS_EmptySet DEF Holders
  <2>6. Cardinality(Holders(ProcOf[c])') = 1
    BY <2>5, <2>3
  <2>7. i.nLock = 0
    BY <2>5, <1>a DEF Counts
  <2>8. os' \in [Procs -> [Places -> {"none", "read", "write"}]]
    BY <1>a, <2>1
  <2>9. inode' \in [Procs -> [eFileLock : NO_LOCK..EXCLUSIVE_LOCK,
                           nShared : Nat, nLock : Nat, unused : BOOLEAN]]
    BY <1>b, <2>1
  <2>10. eFileLock' \in [Conns -> NO_LOCK..EXCLUSIVE_LOCK]
    BY <1>a, <2>1
  <2>11. pc' \in [Conns -> Steps]
    BY <1>a, <2>1
  <2>12. Shapes'
    BY <1>a, <1>1, <2>1, <2>2, <2>8, <2>9, <2>10, <2>11
  <2>13. Counts'
    BY <1>a, <1>1, <2>1, <2>2, <2>3, HoldersFinite, <2>6, <2>7 DEF Counts
  <2>14. MutexInv'
    BY <1>a, <1>1, <2>1, <2>2 DEF IInv, MutexInv, Mates
  <2>15. LevelInv'
    BY <1>a, <1>1, <2>1, <2>2, <2>4 DEF IInv, LevelInv, CallInv, MutexInv, SoleInv, Mates, NoInode
  <2>16. SoleInv'
    BY <1>a, <1>1, <2>1, <2>2, <2>4 DEF IInv, SoleInv, LevelInv, MutexInv, Mates
  <2>17. HeldInv'
    BY <1>a, <1>1, <2>1, <2>2, <2>3 DEF IInv, HeldInv, LevelInv, Mates
  <2>18. CallInv'
    BY <1>a, <1>1, <2>1, <2>2 DEF IInv, CallInv, MutexInv, LevelInv, Mates
  <2>19. SystemInv'
    BY <1>a, <1>1, <2>1, <2>2 DEF IInv, SystemInv, CallInv, CoverInv, NeededInv, LevelInv, SoleInv, Grants, Free
  <2>20. CoverInv'
    BY <1>a, <1>1, <2>1, <2>2 DEF IInv, CoverInv, LevelInv, SoleInv, CallInv, MutexInv, NeededInv, Grants, Free, Mates
  <2>21. NeededInv'
    BY <1>a, <1>1, <2>1, <2>2 DEF IInv, NeededInv, LevelInv, SoleInv, CallInv, MutexInv, CoverInv, Grants, Free, Mates
  <2>22. LeavingInv'
    BY <1>a, <1>1, <2>1, <2>2 DEF IInv, LeavingInv, LevelInv, SoleInv, CallInv, MutexInv, SystemInv, CoverInv, Grants, Free, Mates
  <2>23. QED
    BY <2>12, <2>13, <2>14, <2>15, <2>16, <2>17, <2>18, <2>19, <2>20, <2>21, <2>22 DEF IInv
<1>2. CASE pc[c] = "giveup"
  <2>1. /\ os' = [os EXCEPT ![ProcOf[c]]["pending"] = "none"]
        /\ pc' = [pc EXCEPT ![c] = "idle"]
        /\ inode' = inode
        /\ eFileLock' = eFileLock
        /\ open' = open
    BY <1>a, <1>2 DEF LockSharedDone, Level, SetLock, At
  <2>2. \A p \in Procs : Holders(p)' = Holders(p)
    BY <1>a, <2>1 DEF Holders
  <2>3. os' \in [Procs -> [Places -> {"none", "read", "write"}]]
    BY <1>a, <2>1
  <2>4. pc' \in [Conns -> Steps]
    BY <1>a, <2>1
  <2>5. Shapes'
    BY <1>a, <1>2, <2>1, <2>3, <2>4
  <2>6. Counts'
    BY <1>a, <1>2, <2>1, <2>2, HoldersFinite DEF Counts
  <2>7. MutexInv'
    BY <1>a, <1>2, <2>1 DEF IInv, MutexInv, Mates
  <2>8. LevelInv'
    BY <1>a, <1>2, <2>1 DEF IInv, LevelInv, CallInv, MutexInv, SoleInv, Mates, NoInode
  <2>9. SoleInv'
    BY <1>a, <1>2, <2>1 DEF IInv, SoleInv, LevelInv, MutexInv, Mates
  <2>10. HeldInv'
    BY <1>a, <1>2, <2>1, <2>2 DEF IInv, HeldInv, LevelInv, Mates
  <2>11. CallInv'
    BY <1>a, <1>2, <2>1 DEF IInv, CallInv, MutexInv, LevelInv, Mates
  <2>12. SystemInv'
    BY <1>a, <1>2, <2>1 DEF IInv, SystemInv, CallInv, CoverInv, NeededInv, LevelInv, SoleInv, Grants, Free
  <2>13. CoverInv'
    BY <1>a, <1>2, <2>1 DEF IInv, CoverInv, LevelInv, SoleInv, CallInv, MutexInv, NeededInv, Grants, Free, Mates
  <2>14. NeededInv'
    BY <1>a, <1>2, <2>1 DEF IInv, NeededInv, LevelInv, SoleInv, CallInv, MutexInv, CoverInv, Grants, Free, Mates
  <2>15. LeavingInv'
    BY <1>a, <1>2, <2>1 DEF IInv, LeavingInv, LevelInv, SoleInv, CallInv, MutexInv, SystemInv, CoverInv, Grants, Free, Mates
  <2>16. QED
    BY <2>5, <2>6, <2>7, <2>8, <2>9, <2>10, <2>11, <2>12, <2>13, <2>14, <2>15 DEF IInv
<1>3. QED
  BY <1>1, <1>2 DEF LockSharedDone

\* RESERVED is taken by a write-lock on the reserved byte.
LEMMA LockReservedStep ==
  ASSUME IInv, NEW c \in Conns, LockReserved(c)
  PROVE  IInv'
<1> USE DEF Places, Steps, Info, NoInode, Free
<1>a. /\ Shapes /\ Counts
      /\ ProcOf \in [Conns -> Procs] /\ ProcOf[c] \in Procs
  BY UnixLockAssumption DEF IInv
<1> USE DEF Shapes
<1>b. /\ ProcOf[c] \in Procs
      /\ inode \in [Procs -> [eFileLock : NO_LOCK..EXCLUSIVE_LOCK,
                             nShared : Nat, nLock : Nat, unused : BOOLEAN]]
  BY <1>a
<1> DEFINE i == inode[ProcOf[c]]
<1>1. /\ os' = [os EXCEPT ![ProcOf[c]]["reserved"] = "write"]
      /\ eFileLock' = [eFileLock EXCEPT ![c] = RESERVED_LOCK]
      /\ inode' = [inode EXCEPT ![ProcOf[c]].eFileLock = RESERVED_LOCK]
      /\ open' = open
      /\ pc' = pc
  BY <1>a DEF LockReserved, Level, SetLock, At
<1>2. /\ c \in open
      /\ \A d \in Mates(c) : pc[d] = "idle"
      /\ eFileLock[c] = SHARED_LOCK
      /\ i.eFileLock = SHARED_LOCK
      /\ Grants(ProcOf[c], "reserved", "write")
  BY <1>a DEF LockReserved, Enter, AloneInProcess, SetLock, IInv,
     Mates, MutexInv, LevelInv, CallInv
<1>3. \A d \in Conns : eFileLock'[d] # NO_LOCK <=> eFileLock[d] # NO_LOCK
  BY <1>a, <1>1, <1>2
<1>4. \A p \in Procs : Holders(p)' = Holders(p)
  BY <1>3, SameHolders
<1>5. os' \in [Procs -> [Places -> {"none", "read", "write"}]]
  BY <1>a, <1>1
<1>6. inode' \in [Procs -> [eFileLock : NO_LOCK..EXCLUSIVE_LOCK,
                         nShared : Nat, nLock : Nat, unused : BOOLEAN]]
  BY <1>b, <1>1
<1>7. eFileLock' \in [Conns -> NO_LOCK..EXCLUSIVE_LOCK]
  BY <1>a, <1>1
<1>8. Shapes'
  BY <1>a, <1>1, <1>2, <1>5, <1>6, <1>7
<1>9. Counts'
  BY <1>a, <1>1, <1>2, <1>4, HoldersFinite DEF Counts
<1>10. MutexInv'
  BY <1>a, <1>1, <1>2 DEF IInv, MutexInv, Mates
<1>11. LevelInv'
  BY <1>a, <1>1, <1>2 DEF IInv, LevelInv, CallInv, MutexInv, SoleInv, Mates, NoInode
<1>12. SoleInv'
  BY <1>a, <1>1, <1>2 DEF IInv, SoleInv, LevelInv, MutexInv, Mates
<1>13. HeldInv'
  BY <1>a, <1>1, <1>2, <1>4 DEF IInv, HeldInv, LevelInv, Mates
<1>14. CallInv'
  BY <1>a, <1>1, <1>2 DEF IInv, CallInv, MutexInv, LevelInv, Mates
<1>15. SystemInv'
  BY <1>a, <1>1, <1>2 DEF IInv, SystemInv, CallInv, CoverInv, NeededInv, LevelInv, SoleInv, Grants, Free
<1>16. CoverInv'
  BY <1>a, <1>1, <1>2 DEF IInv, CoverInv, LevelInv, SoleInv, CallInv, MutexInv, NeededInv, Grants, Free, Mates
<1>17. NeededInv'
  BY <1>a, <1>1, <1>2 DEF IInv, NeededInv, LevelInv, SoleInv, CallInv, MutexInv, CoverInv, Grants, Free, Mates
<1>18. LeavingInv'
  BY <1>a, <1>1, <1>2 DEF IInv, LeavingInv, LevelInv, SoleInv, CallInv, MutexInv, SystemInv, CoverInv, Grants, Free, Mates
<1>19. QED
  BY <1>8, <1>9, <1>10, <1>11, <1>12, <1>13, <1>14, <1>15, <1>16, <1>17, <1>18 DEF IInv

\* PENDING is taken by a write-lock on the PENDING byte.
LEMMA LockPendingStep ==
  ASSUME IInv, NEW c \in Conns, LockPending(c)
  PROVE  IInv'
<1> USE DEF Places, Steps, Info, NoInode, Free
<1>a. /\ Shapes /\ Counts
      /\ ProcOf \in [Conns -> Procs] /\ ProcOf[c] \in Procs
  BY UnixLockAssumption DEF IInv
<1> USE DEF Shapes
<1>b. /\ ProcOf[c] \in Procs
      /\ inode \in [Procs -> [eFileLock : NO_LOCK..EXCLUSIVE_LOCK,
                             nShared : Nat, nLock : Nat, unused : BOOLEAN]]
  BY <1>a
<1> DEFINE i == inode[ProcOf[c]]
<1>1. /\ os' = [os EXCEPT ![ProcOf[c]]["pending"] = "write"]
      /\ eFileLock' = [eFileLock EXCEPT ![c] = PENDING_LOCK]
      /\ inode' = [inode EXCEPT ![ProcOf[c]].eFileLock = PENDING_LOCK]
      /\ pc' = [pc EXCEPT ![c] = "exclusive"]
      /\ open' = open
  BY <1>a DEF LockPending, Level, SetLock, At
<1>2. /\ c \in open
      /\ \A d \in Mates(c) : pc[d] = "idle"
      /\ eFileLock[c] = RESERVED_LOCK
      /\ i.eFileLock = RESERVED_LOCK
      /\ Grants(ProcOf[c], "pending", "write")
  BY <1>a DEF LockPending, Enter, AloneInProcess, SetLock, IInv,
     Mates, MutexInv, LevelInv, CallInv
<1>3. \A d \in Conns : eFileLock'[d] # NO_LOCK <=> eFileLock[d] # NO_LOCK
  BY <1>a, <1>1, <1>2
<1>4. \A p \in Procs : Holders(p)' = Holders(p)
  BY <1>3, SameHolders
<1>5. os' \in [Procs -> [Places -> {"none", "read", "write"}]]
  BY <1>a, <1>1
<1>6. inode' \in [Procs -> [eFileLock : NO_LOCK..EXCLUSIVE_LOCK,
                         nShared : Nat, nLock : Nat, unused : BOOLEAN]]
  BY <1>b, <1>1
<1>7. eFileLock' \in [Conns -> NO_LOCK..EXCLUSIVE_LOCK]
  BY <1>a, <1>1
<1>8. pc' \in [Conns -> Steps]
  BY <1>a, <1>1
<1>9. Shapes'
  BY <1>a, <1>1, <1>2, <1>5, <1>6, <1>7, <1>8
<1>10. Counts'
  BY <1>a, <1>1, <1>2, <1>4, HoldersFinite DEF Counts
<1>11. MutexInv'
  BY <1>a, <1>1, <1>2 DEF IInv, MutexInv, Mates
<1>12. LevelInv'
  BY <1>a, <1>1, <1>2 DEF IInv, LevelInv, CallInv, MutexInv, SoleInv, Mates, NoInode
<1>13. SoleInv'
  BY <1>a, <1>1, <1>2 DEF IInv, SoleInv, LevelInv, MutexInv, Mates
<1>14. HeldInv'
  BY <1>a, <1>1, <1>2, <1>4 DEF IInv, HeldInv, LevelInv, Mates
<1>15. CallInv'
  BY <1>a, <1>1, <1>2 DEF IInv, CallInv, MutexInv, LevelInv, Mates
<1>16. SystemInv'
  BY <1>a, <1>1, <1>2 DEF IInv, SystemInv, CallInv, CoverInv, NeededInv, LevelInv, SoleInv, Grants, Free
<1>17. CoverInv'
  BY <1>a, <1>1, <1>2 DEF IInv, CoverInv, LevelInv, SoleInv, CallInv, MutexInv, NeededInv, Grants, Free, Mates
<1>18. NeededInv'
  BY <1>a, <1>1, <1>2 DEF IInv, NeededInv, LevelInv, SoleInv, CallInv, MutexInv, CoverInv, Grants, Free, Mates
<1>19. LeavingInv'
  BY <1>a, <1>1, <1>2 DEF IInv, LeavingInv, LevelInv, SoleInv, CallInv, MutexInv, SystemInv, CoverInv, Grants, Free, Mates
<1>20. QED
  BY <1>9, <1>10, <1>11, <1>12, <1>13, <1>14, <1>15, <1>16, <1>17, <1>18, <1>19 DEF IInv

\* EXCLUSIVE is taken by a write-lock on the SHARED range.
LEMMA LockExclusiveStep ==
  ASSUME IInv, NEW c \in Conns, LockExclusive(c)
  PROVE  IInv'
<1> USE DEF Places, Steps, Info, NoInode, Free
<1>a. /\ Shapes /\ Counts
      /\ ProcOf \in [Conns -> Procs] /\ ProcOf[c] \in Procs
  BY UnixLockAssumption DEF IInv
<1> USE DEF Shapes
<1>b. /\ ProcOf[c] \in Procs
      /\ inode \in [Procs -> [eFileLock : NO_LOCK..EXCLUSIVE_LOCK,
                             nShared : Nat, nLock : Nat, unused : BOOLEAN]]
  BY <1>a
<1>1. CASE inode[ProcOf[c]].nShared = 1 /\ Grants(ProcOf[c], "shared", "write")
  <2> DEFINE i == inode[ProcOf[c]]
  <2>1. /\ os' = [os EXCEPT ![ProcOf[c]]["shared"] = "write"]
        /\ eFileLock' = [eFileLock EXCEPT ![c] = EXCLUSIVE_LOCK]
        /\ inode' = [inode EXCEPT ![ProcOf[c]].eFileLock = EXCLUSIVE_LOCK]
        /\ pc' = [pc EXCEPT ![c] = "idle"]
        /\ open' = open
    BY <1>a, <1>1 DEF LockExclusive, Level, SetLock, At
  <2>2. /\ c \in open
        /\ pc[c] \in {"idle", "exclusive"}
        /\ \A d \in Mates(c) \ {c} : pc[d] = "idle"
        /\ eFileLock[c] \in {SHARED_LOCK, PENDING_LOCK}
        /\ i.eFileLock = eFileLock[c]
    BY <1>a, <1>1 DEF LockExclusive, Enter, AloneInProcess, SetLock, IInv,
       Mates, MutexInv, LevelInv, CallInv
  <2>3. \A d \in Conns : eFileLock'[d] # NO_LOCK <=> eFileLock[d] # NO_LOCK
    BY <1>a, <2>1, <2>2
  <2>4. \A p \in Procs : Holders(p)' = Holders(p)
    BY <2>3, SameHolders
  <2>5. \A d \in Conns : ProcOf[d] = ProcOf[c] /\ d # c => eFileLock[d] = NO_LOCK
    BY <1>a, <1>1, <2>1, <2>2, OnlyHolder DEF Counts
  <2>6. os[ProcOf[c]]["pending"] # "read"
    BY <1>a, <2>2 DEF IInv, NeededInv, Mates
  <2>7. eFileLock[c] = SHARED_LOCK =>
          os[ProcOf[c]]["pending"] # "write" /\ os[ProcOf[c]]["reserved"] # "write"
    BY <1>a, <2>5 DEF IInv, NeededInv
  <2>8. eFileLock[c] = PENDING_LOCK =>
          os[ProcOf[c]]["pending"] = "write" /\ os[ProcOf[c]]["reserved"] = "write"
    BY <1>a, <2>2 DEF IInv, CoverInv
  <2>9. /\ os[ProcOf[c]]["pending"] # "read"
        /\ os[ProcOf[c]]["pending"] = "write" <=> os[ProcOf[c]]["reserved"] = "write"
    BY <2>6, <2>7, <2>8, <2>2
  <2>10. os' \in [Procs -> [Places -> {"none", "read", "write"}]]
    BY <1>a, <2>1
  <2>11. inode' \in [Procs -> [eFileLock : NO_LOCK..EXCLUSIVE_LOCK,
                            nShared : Nat, nLock : Nat, unused : BOOLEAN]]
    BY <1>b, <2>1
  <2>12. eFileLock' \in [Conns -> NO_LOCK..EXCLUSIVE_LOCK]
    BY <1>a, <2>1
  <2>13. pc' \in [Conns -> Steps]
    BY <1>a, <2>1
  <2>14. Shapes'
    BY <1>a, <1>1, <2>1, <2>2, <2>10, <2>11, <2>12, <2>13
  <2>15. Counts'
    BY <1>a, <1>1, <2>1, <2>2, <2>4, HoldersFinite DEF Counts
  <2>16. MutexInv'
    BY <1>a, <1>1, <2>1, <2>2 DEF IInv, MutexInv, Mates
  <2>17. LevelInv'
    BY <1>a, <1>1, <2>1, <2>2, <2>5 DEF IInv, LevelInv, CallInv, MutexInv, SoleInv, Mates, NoInode
  <2>18. SoleInv'
    BY <1>a, <1>1, <2>1, <2>2, <2>5 DEF IInv, SoleInv, LevelInv, MutexInv, Mates
  <2>19. HeldInv'
    BY <1>a, <1>1, <2>1, <2>2, <2>4 DEF IInv, HeldInv, LevelInv, Mates
  <2>20. CallInv'
    BY <1>a, <1>1, <2>1, <2>2, <2>5 DEF IInv, CallInv, MutexInv, LevelInv, Mates
  <2>21. SystemInv'
    BY <1>a, <1>1, <2>1, <2>2, <2>5 DEF IInv, SystemInv, CallInv, CoverInv, NeededInv, LevelInv, SoleInv, Grants, Free
  <2>22. CoverInv'
    BY <1>a, <1>1, <2>1, <2>2, <2>5, <2>9 DEF IInv, CoverInv, LevelInv, SoleInv, CallInv, MutexInv, NeededInv, Grants, Free, Mates
  <2>23. NeededInv'
    BY <1>a, <1>1, <2>1, <2>2, <2>5 DEF IInv, NeededInv, LevelInv, SoleInv, CallInv, MutexInv, CoverInv, Grants, Free, Mates
  <2>24. LeavingInv'
    BY <1>a, <1>1, <2>1, <2>2, <2>5 DEF IInv, LeavingInv, LevelInv, SoleInv, CallInv, MutexInv, SystemInv, CoverInv, Grants, Free, Mates
  <2>25. QED
    BY <2>14, <2>15, <2>16, <2>17, <2>18, <2>19, <2>20, <2>21, <2>22, <2>23, <2>24 DEF IInv
<1>2. CASE ~(inode[ProcOf[c]].nShared = 1 /\ Grants(ProcOf[c], "shared", "write"))
  <2>1. /\ pc' = [pc EXCEPT ![c] = "idle"]
        /\ os' = os
        /\ inode' = inode
        /\ eFileLock' = eFileLock
        /\ open' = open
    BY <1>a, <1>2 DEF LockExclusive, Level, SetLock, At
  <2>2. pc[c] \in {"idle", "exclusive"}
    BY <1>a, <1>2 DEF LockExclusive, Enter, AloneInProcess, SetLock, IInv,
       Mates, MutexInv, LevelInv, CallInv
  <2>3. \A p \in Procs : Holders(p)' = Holders(p)
    BY <1>a, <2>1 DEF Holders
  <2>4. pc' \in [Conns -> Steps]
    BY <1>a, <2>1
  <2>5. Shapes'
    BY <1>a, <1>2, <2>1, <2>2, <2>4
  <2>6. Counts'
    BY <1>a, <1>2, <2>1, <2>2, <2>3, HoldersFinite DEF Counts
  <2>7. MutexInv'
    BY <1>a, <1>2, <2>1, <2>2 DEF IInv, MutexInv, Mates
  <2>8. LevelInv'
    BY <1>a, <1>2, <2>1, <2>2 DEF IInv, LevelInv, CallInv, MutexInv, SoleInv, Mates, NoInode
  <2>9. SoleInv'
    BY <1>a, <1>2, <2>1, <2>2 DEF IInv, SoleInv, LevelInv, MutexInv, Mates
  <2>10. HeldInv'
    BY <1>a, <1>2, <2>1, <2>2, <2>3 DEF IInv, HeldInv, LevelInv, Mates
  <2>11. CallInv'
    BY <1>a, <1>2, <2>1, <2>2 DEF IInv, CallInv, MutexInv, LevelInv, Mates
  <2>12. SystemInv'
    BY <1>a, <1>2, <2>1, <2>2 DEF IInv, SystemInv, CallInv, CoverInv, NeededInv, LevelInv, SoleInv, Grants, Free
  <2>13. CoverInv'
    BY <1>a, <1>2, <2>1, <2>2 DEF IInv, CoverInv, LevelInv, SoleInv, CallInv, MutexInv, NeededInv, Grants, Free, Mates
  <2>14. NeededInv'
    BY <1>a, <1>2, <2>1, <2>2 DEF IInv, NeededInv, LevelInv, SoleInv, CallInv, MutexInv, CoverInv, Grants, Free, Mates
  <2>15. LeavingInv'
    BY <1>a, <1>2, <2>1, <2>2 DEF IInv, LeavingInv, LevelInv, SoleInv, CallInv, MutexInv, SystemInv, CoverInv, Grants, Free, Mates
  <2>16. QED
    BY <2>5, <2>6, <2>7, <2>8, <2>9, <2>10, <2>11, <2>12, <2>13, <2>14, <2>15 DEF IInv
<1>3. QED
  BY <1>1, <1>2 DEF LockExclusive

\* posixUnlock() to SHARED: the range is read-locked again.
LEMMA UnlockToSharedStep ==
  ASSUME IInv, NEW c \in Conns, UnlockToShared(c)
  PROVE  IInv'
<1> USE DEF Places, Steps, Info, NoInode, Free
<1>a. /\ Shapes /\ Counts
      /\ ProcOf \in [Conns -> Procs] /\ ProcOf[c] \in Procs
  BY UnixLockAssumption DEF IInv
<1> USE DEF Shapes
<1>b. /\ ProcOf[c] \in Procs
      /\ inode \in [Procs -> [eFileLock : NO_LOCK..EXCLUSIVE_LOCK,
                             nShared : Nat, nLock : Nat, unused : BOOLEAN]]
  BY <1>a
<1>1. /\ os' = [os EXCEPT ![ProcOf[c]]["shared"] = "read"]
      /\ pc' = [pc EXCEPT ![c] = "bytes"]
      /\ inode' = inode
      /\ eFileLock' = eFileLock
      /\ open' = open
  BY <1>a DEF UnlockToShared, Level, SetLock, At
<1>2. /\ c \in open
      /\ \A d \in Mates(c) : pc[d] = "idle"
      /\ eFileLock[c] > SHARED_LOCK
  BY <1>a DEF UnlockToShared, Enter, AloneInProcess, SetLock, IInv,
     Mates, MutexInv, LevelInv, CallInv
<1>3. \A p \in Procs : Holders(p)' = Holders(p)
  BY <1>a, <1>1 DEF Holders
<1>4. os' \in [Procs -> [Places -> {"none", "read", "write"}]]
  BY <1>a, <1>1
<1>5. pc' \in [Conns -> Steps]
  BY <1>a, <1>1
<1>6. Shapes'
  BY <1>a, <1>1, <1>2, <1>4, <1>5
<1>7. Counts'
  BY <1>a, <1>1, <1>2, <1>3, HoldersFinite DEF Counts
<1>8. MutexInv'
  BY <1>a, <1>1, <1>2 DEF IInv, MutexInv, Mates
<1>9. LevelInv'
  BY <1>a, <1>1, <1>2 DEF IInv, LevelInv, CallInv, MutexInv, SoleInv, Mates, NoInode
<1>10. SoleInv'
  BY <1>a, <1>1, <1>2 DEF IInv, SoleInv, LevelInv, MutexInv, Mates
<1>11. HeldInv'
  BY <1>a, <1>1, <1>2, <1>3 DEF IInv, HeldInv, LevelInv, Mates
<1>12. CallInv'
  BY <1>a, <1>1, <1>2 DEF IInv, CallInv, MutexInv, LevelInv, Mates
<1>13. SystemInv'
  BY <1>a, <1>1, <1>2 DEF IInv, SystemInv, CallInv, CoverInv, NeededInv, LevelInv, SoleInv, Grants, Free
<1>14. CoverInv'
  BY <1>a, <1>1, <1>2 DEF IInv, CoverInv, LevelInv, SoleInv, CallInv, MutexInv, NeededInv, Grants, Free, Mates
<1>15. NeededInv'
  BY <1>a, <1>1, <1>2 DEF IInv, NeededInv, LevelInv, SoleInv, CallInv, MutexInv, CoverInv, Grants, Free, Mates
<1>16. LeavingInv'
  BY <1>a, <1>1, <1>2 DEF IInv, LeavingInv, LevelInv, SoleInv, CallInv, MutexInv, SystemInv, CoverInv, Grants, Free, Mates
<1>17. QED
  BY <1>6, <1>7, <1>8, <1>9, <1>10, <1>11, <1>12, <1>13, <1>14, <1>15, <1>16 DEF IInv

\* posixUnlock(): the PENDING and reserved bytes are let go.
LEMMA UnlockBytesStep ==
  ASSUME IInv, NEW c \in Conns, UnlockBytes(c)
  PROVE  IInv'
<1> USE DEF Places, Steps, Info, NoInode, Free
<1>a. /\ Shapes /\ Counts
      /\ ProcOf \in [Conns -> Procs] /\ ProcOf[c] \in Procs
  BY UnixLockAssumption DEF IInv
<1> USE DEF Shapes
<1>b. /\ ProcOf[c] \in Procs
      /\ inode \in [Procs -> [eFileLock : NO_LOCK..EXCLUSIVE_LOCK,
                             nShared : Nat, nLock : Nat, unused : BOOLEAN]]
  BY <1>a
<1>1. CASE pc[c] = "bytes"
  <2>1. /\ os' = [os EXCEPT ![ProcOf[c]]["pending"] = "none", ![ProcOf[c]]["reserved"] = "none"]
        /\ eFileLock' = [eFileLock EXCEPT ![c] = SHARED_LOCK]
        /\ inode' = [inode EXCEPT ![ProcOf[c]].eFileLock = SHARED_LOCK]
        /\ pc' = [pc EXCEPT ![c] = "idle"]
        /\ open' = open
    BY <1>a, <1>1 DEF UnlockBytes, Level, SetLock, At
  <2>2. eFileLock[c] > SHARED_LOCK
    BY <1>a, <1>1 DEF UnlockBytes, Enter, AloneInProcess, SetLock, IInv,
       Mates, MutexInv, LevelInv, CallInv
  <2>3. \A d \in Conns : eFileLock'[d] # NO_LOCK <=> eFileLock[d] # NO_LOCK
    BY <1>a, <2>1, <2>2
  <2>4. \A p \in Procs : Holders(p)' = Holders(p)
    BY <2>3, SameHolders
  <2>5. os' \in [Procs -> [Places -> {"none", "read", "write"}]]
    BY <1>a, <2>1
  <2>6. inode' \in [Procs -> [eFileLock : NO_LOCK..EXCLUSIVE_LOCK,
                           nShared : Nat, nLock : Nat, unused : BOOLEAN]]
    BY <1>b, <2>1
  <2>7. eFileLock' \in [Conns -> NO_LOCK..EXCLUSIVE_LOCK]
    BY <1>a, <2>1
  <2>8. pc' \in [Conns -> Steps]
    BY <1>a, <2>1
  <2>9. Shapes'
    BY <1>a, <1>1, <2>1, <2>2, <2>5, <2>6, <2>7, <2>8
  <2>10. Counts'
    BY <1>a, <1>1, <2>1, <2>2, <2>4, HoldersFinite DEF Counts
  <2>11. MutexInv'
    BY <1>a, <1>1, <2>1, <2>2 DEF IInv, MutexInv, Mates
  <2>12. LevelInv'
    BY <1>a, <1>1, <2>1, <2>2 DEF IInv, LevelInv, CallInv, MutexInv, SoleInv, Mates, NoInode
  <2>13. SoleInv'
    BY <1>a, <1>1, <2>1, <2>2 DEF IInv, SoleInv, LevelInv, MutexInv, Mates
  <2>14. HeldInv'
    BY <1>a, <1>1, <2>1, <2>2, <2>4 DEF IInv, HeldInv, LevelInv, Mates
  <2>15. CallInv'
    BY <1>a, <1>1, <2>1, <2>2 DEF IInv, CallInv, MutexInv, LevelInv, Mates
  <2>16. SystemInv'
    BY <1>a, <1>1, <2>1, <2>2 DEF IInv, SystemInv, CallInv, CoverInv, NeededInv, LevelInv, SoleInv, Grants, Free
  <2>17. CoverInv'
    BY <1>a, <1>1, <2>1, <2>2 DEF IInv, CoverInv, LevelInv, SoleInv, CallInv, MutexInv, NeededInv, Grants, Free, Mates
  <2>18. NeededInv'
    BY <1>a, <1>1, <2>1, <2>2 DEF IInv, NeededInv, LevelInv, SoleInv, CallInv, MutexInv, CoverInv, Grants, Free, Mates
  <2>19. LeavingInv'
    BY <1>a, <1>1, <2>1, <2>2 DEF IInv, LeavingInv, LevelInv, SoleInv, CallInv, MutexInv, SystemInv, CoverInv, Grants, Free, Mates
  <2>20. QED
    BY <2>9, <2>10, <2>11, <2>12, <2>13, <2>14, <2>15, <2>16, <2>17, <2>18, <2>19 DEF IInv
<1>2. CASE pc[c] = "bytesAll"
  <2>1. /\ os' = [os EXCEPT ![ProcOf[c]]["pending"] = "none", ![ProcOf[c]]["reserved"] = "none"]
        /\ inode' = [inode EXCEPT ![ProcOf[c]].eFileLock = SHARED_LOCK]
        /\ pc' = [pc EXCEPT ![c] = "all"]
        /\ eFileLock' = eFileLock
        /\ open' = open
    BY <1>a, <1>2 DEF UnlockBytes, Level, SetLock, At
  <2>2. eFileLock[c] > SHARED_LOCK
    BY <1>a, <1>2 DEF UnlockBytes, Enter, AloneInProcess, SetLock, IInv,
       Mates, MutexInv, LevelInv, CallInv
  <2>3. \A p \in Procs : Holders(p)' = Holders(p)
    BY <1>a, <2>1 DEF Holders
  <2>4. os' \in [Procs -> [Places -> {"none", "read", "write"}]]
    BY <1>a, <2>1
  <2>5. inode' \in [Procs -> [eFileLock : NO_LOCK..EXCLUSIVE_LOCK,
                           nShared : Nat, nLock : Nat, unused : BOOLEAN]]
    BY <1>b, <2>1
  <2>6. pc' \in [Conns -> Steps]
    BY <1>a, <2>1
  <2>7. Shapes'
    BY <1>a, <1>2, <2>1, <2>2, <2>4, <2>5, <2>6
  <2>8. Counts'
    BY <1>a, <1>2, <2>1, <2>2, <2>3, HoldersFinite DEF Counts
  <2>9. MutexInv'
    BY <1>a, <1>2, <2>1, <2>2 DEF IInv, MutexInv, Mates
  <2>10. LevelInv'
    BY <1>a, <1>2, <2>1, <2>2 DEF IInv, LevelInv, CallInv, MutexInv, SoleInv, Mates, NoInode
  <2>11. SoleInv'
    BY <1>a, <1>2, <2>1, <2>2 DEF IInv, SoleInv, LevelInv, MutexInv, Mates
  <2>12. HeldInv'
    BY <1>a, <1>2, <2>1, <2>2, <2>3 DEF IInv, HeldInv, LevelInv, Mates
  <2>13. CallInv'
    BY <1>a, <1>2, <2>1, <2>2 DEF IInv, CallInv, MutexInv, LevelInv, Mates
  <2>14. SystemInv'
    BY <1>a, <1>2, <2>1, <2>2 DEF IInv, SystemInv, CallInv, CoverInv, NeededInv, LevelInv, SoleInv, Grants, Free
  <2>15. CoverInv'
    BY <1>a, <1>2, <2>1, <2>2 DEF IInv, CoverInv, LevelInv, SoleInv, CallInv, MutexInv, NeededInv, Grants, Free, Mates
  <2>16. NeededInv'
    BY <1>a, <1>2, <2>1, <2>2 DEF IInv, NeededInv, LevelInv, SoleInv, CallInv, MutexInv, CoverInv, Grants, Free, Mates
  <2>17. LeavingInv'
    BY <1>a, <1>2, <2>1, <2>2 DEF IInv, LeavingInv, LevelInv, SoleInv, CallInv, MutexInv, SystemInv, CoverInv, Grants, Free, Mates
  <2>18. QED
    BY <2>7, <2>8, <2>9, <2>10, <2>11, <2>12, <2>13, <2>14, <2>15, <2>16, <2>17 DEF IInv
<1>3. QED
  BY <1>1, <1>2 DEF UnlockBytes

\* posixUnlock() from RESERVED or more on its way to no lock.
LEMMA UnlockFromMoreStep ==
  ASSUME IInv, NEW c \in Conns, UnlockFromMore(c)
  PROVE  IInv'
<1> USE DEF Places, Steps, Info, NoInode, Free
<1>a. /\ Shapes /\ Counts
      /\ ProcOf \in [Conns -> Procs] /\ ProcOf[c] \in Procs
  BY UnixLockAssumption DEF IInv
<1> USE DEF Shapes
<1>b. /\ ProcOf[c] \in Procs
      /\ inode \in [Procs -> [eFileLock : NO_LOCK..EXCLUSIVE_LOCK,
                             nShared : Nat, nLock : Nat, unused : BOOLEAN]]
  BY <1>a
<1>1. /\ pc' = [pc EXCEPT ![c] = "bytesAll"]
      /\ os' = os
      /\ inode' = inode
      /\ eFileLock' = eFileLock
      /\ open' = open
  BY <1>a DEF UnlockFromMore, Level, SetLock, At
<1>2. /\ c \in open
      /\ \A d \in Mates(c) : pc[d] = "idle"
      /\ eFileLock[c] > SHARED_LOCK
  BY <1>a DEF UnlockFromMore, Enter, AloneInProcess, SetLock, IInv,
     Mates, MutexInv, LevelInv, CallInv
<1>3. \A p \in Procs : Holders(p)' = Holders(p)
  BY <1>a, <1>1 DEF Holders
<1>4. pc' \in [Conns -> Steps]
  BY <1>a, <1>1
<1>5. Shapes'
  BY <1>a, <1>1, <1>2, <1>4
<1>6. Counts'
  BY <1>a, <1>1, <1>2, <1>3, HoldersFinite DEF Counts
<1>7. MutexInv'
  BY <1>a, <1>1, <1>2 DEF IInv, MutexInv, Mates
<1>8. LevelInv'
  BY <1>a, <1>1, <1>2 DEF IInv, LevelInv, CallInv, MutexInv, SoleInv, Mates, NoInode
<1>9. SoleInv'
  BY <1>a, <1>1, <1>2 DEF IInv, SoleInv, LevelInv, MutexInv, Mates
<1>10. HeldInv'
  BY <1>a, <1>1, <1>2, <1>3 DEF IInv, HeldInv, LevelInv, Mates
<1>11. CallInv'
  BY <1>a, <1>1, <1>2 DEF IInv, CallInv, MutexInv, LevelInv, Mates
<1>12. SystemInv'
  BY <1>a, <1>1, <1>2 DEF IInv, SystemInv, CallInv, CoverInv, NeededInv, LevelInv, SoleInv, Grants, Free
<1>13. CoverInv'
  BY <1>a, <1>1, <1>2 DEF IInv, CoverInv, LevelInv, SoleInv, CallInv, MutexInv, NeededInv, Grants, Free, Mates
<1>14. NeededInv'
  BY <1>a, <1>1, <1>2 DEF IInv, NeededInv, LevelInv, SoleInv, CallInv, MutexInv, CoverInv, Grants, Free, Mates
<1>15. LeavingInv'
  BY <1>a, <1>1, <1>2 DEF IInv, LeavingInv, LevelInv, SoleInv, CallInv, MutexInv, SystemInv, CoverInv, Grants, Free, Mates
<1>16. QED
  BY <1>5, <1>6, <1>7, <1>8, <1>9, <1>10, <1>11, <1>12, <1>13, <1>14, <1>15 DEF IInv

\* posixUnlock() to no lock: the last connection of the process lets go of
\* everything and closes the descriptors that wait for it.
LEMMA UnlockAllStep ==
  ASSUME IInv, NEW c \in Conns, UnlockAll(c)
  PROVE  IInv'
<1> USE DEF Places, Steps, Info, NoInode, Free
<1>a. /\ Shapes /\ Counts
      /\ ProcOf \in [Conns -> Procs] /\ ProcOf[c] \in Procs
  BY UnixLockAssumption DEF IInv
<1> USE DEF Shapes
<1>b. /\ ProcOf[c] \in Procs
      /\ inode \in [Procs -> [eFileLock : NO_LOCK..EXCLUSIVE_LOCK,
                             nShared : Nat, nLock : Nat, unused : BOOLEAN]]
  BY <1>a
<1>1. CASE inode[ProcOf[c]].nShared = 1
  <2>1. /\ os' = [os EXCEPT ![ProcOf[c]] = Free]
        /\ inode' = [inode EXCEPT ![ProcOf[c]] = NoInode]
        /\ eFileLock' = [eFileLock EXCEPT ![c] = NO_LOCK]
        /\ pc' = [pc EXCEPT ![c] = "idle"]
        /\ open' = open
    BY <1>a, <1>1 DEF UnlockAll, Level, SetLock, At
  <2>2. /\ pc[c] = "all" \/ (pc[c] = "idle" /\ eFileLock[c] = SHARED_LOCK)
        /\ \A d \in Mates(c) \ {c} : pc[d] = "idle"
        /\ eFileLock[c] # NO_LOCK
    BY <1>a, <1>1 DEF UnlockAll, Enter, AloneInProcess, SetLock, IInv,
       Mates, MutexInv, LevelInv, CallInv
  <2>3. /\ Holders(ProcOf[c])' = Holders(ProcOf[c]) \ {c}
        /\ Cardinality(Holders(ProcOf[c])') = Cardinality(Holders(ProcOf[c])) - 1
        /\ \A p \in Procs : p # ProcOf[c] => Holders(p)' = Holders(p)
    BY <1>a, <1>1, <2>1, <2>2, LostHolder
  <2>4. \A d \in Conns : ProcOf[d] = ProcOf[c] /\ d # c => eFileLock[d] = NO_LOCK
    BY <1>a, <1>1, <2>1, <2>2, OnlyHolder DEF Counts
  <2>5. Cardinality(Holders(ProcOf[c])') = 0
    BY <1>a, <1>1, <2>3 DEF Counts
  <2>6. os' \in [Procs -> [Places -> {"none", "read", "write"}]]
    BY <1>a, <2>1
  <2>7. inode' \in [Procs -> [eFileLock : NO_LOCK..EXCLUSIVE_LOCK,
                           nShared : Nat, nLock : Nat, unused : BOOLEAN]]
    BY <1>b, <2>1
  <2>8. eFileLock' \in [Conns -> NO_LOCK..EXCLUSIVE_LOCK]
    BY <1>a, <2>1
  <2>9. pc' \in [Conns -> Steps]
    BY <1>a, <2>1
  <2>10. Shapes'
    BY <1>a, <1>1, <2>1, <2>2, <2>6, <2>7, <2>8, <2>9
  <2>11. Counts'
    BY <1>a, <1>1, <2>1, <2>2, <2>3, HoldersFinite, <2>5 DEF Counts
  <2>12. MutexInv'
    BY <1>a, <1>1, <2>1, <2>2 DEF IInv, MutexInv, Mates
  <2>13. LevelInv'
    BY <1>a, <1>1, <2>1, <2>2, <2>4 DEF IInv, LevelInv, CallInv, MutexInv, SoleInv, Mates, NoInode
  <2>14. SoleInv'
    BY <1>a, <1>1, <2>1, <2>2 DEF IInv, SoleInv, LevelInv, MutexInv, Mates
  <2>15. HeldInv'
    BY <1>a, <1>1, <2>1, <2>2, <2>3 DEF IInv, HeldInv, LevelInv, Mates
  <2>16. CallInv'
    BY <1>a, <1>1, <2>1, <2>2, <2>4 DEF IInv, CallInv, MutexInv, LevelInv, Mates
  <2>17. SystemInv'
    BY <1>a, <1>1, <2>1, <2>2, <2>4 DEF IInv, SystemInv, CallInv, CoverInv, NeededInv, LevelInv, SoleInv, Grants, Free
  <2>18. CoverInv'
    BY <1>a, <1>1, <2>1, <2>2, <2>4 DEF IInv, CoverInv, LevelInv, SoleInv, CallInv, MutexInv, NeededInv, Grants, Free, Mates
  <2>19. NeededInv'
    BY <1>a, <1>1, <2>1, <2>2, <2>4 DEF IInv, NeededInv, LevelInv, SoleInv, CallInv, MutexInv, CoverInv, Grants, Free, Mates
  <2>20. LeavingInv'
    BY <1>a, <1>1, <2>1, <2>2, <2>4 DEF IInv, LeavingInv, LevelInv, SoleInv, CallInv, MutexInv, SystemInv, CoverInv, Grants, Free, Mates
  <2>21. QED
    BY <2>10, <2>11, <2>12, <2>13, <2>14, <2>15, <2>16, <2>17, <2>18, <2>19, <2>20 DEF IInv
<1>2. CASE inode[ProcOf[c]].nShared # 1
  <2> DEFINE i == inode[ProcOf[c]]
  <2>1. /\ inode' = [inode EXCEPT ![ProcOf[c]] = Info(i.eFileLock, i.nShared - 1, i.nLock - 1, i.unused)]
        /\ eFileLock' = [eFileLock EXCEPT ![c] = NO_LOCK]
        /\ pc' = [pc EXCEPT ![c] = "idle"]
        /\ os' = os
        /\ open' = open
    BY <1>a, <1>2 DEF UnlockAll, Level, SetLock, At
  <2>2. /\ pc[c] = "all" \/ (pc[c] = "idle" /\ eFileLock[c] = SHARED_LOCK)
        /\ \A d \in Mates(c) \ {c} : pc[d] = "idle"
        /\ eFileLock[c] # NO_LOCK
    BY <1>a, <1>2 DEF UnlockAll, Enter, AloneInProcess, SetLock, IInv,
       Mates, MutexInv, LevelInv, CallInv
  <2>3. /\ Holders(ProcOf[c])' = Holders(ProcOf[c]) \ {c}
        /\ Cardinality(Holders(ProcOf[c])') = Cardinality(Holders(ProcOf[c])) - 1
        /\ \A p \in Procs : p # ProcOf[c] => Holders(p)' = Holders(p)
    BY <1>a, <1>2, <2>1, <2>2, LostHolder
  <2>4. c \in Holders(ProcOf[c]) /\ IsFiniteSet(Holders(ProcOf[c]))
    BY <1>a, <1>2, <2>1, <2>2, HoldersFinite DEF Holders
  <2>5. Cardinality(Holders(ProcOf[c])) \in Nat \ {0, 1}
    BY <1>a, <1>2, <2>4, FS_EmptySet, HoldersFinite DEF Counts
  <2>6. Holders(ProcOf[c]) # {c} /\ Cardinality(Holders(ProcOf[c])) > 1
    BY <2>5, <2>4, FS_Singleton
  <2>7. i.nShared - 1 \in Nat /\ i.nLock - 1 \in Nat
    BY <1>a, <2>5 DEF Counts
  <2>8. \A p \in Procs : inode'[p].eFileLock = inode[p].eFileLock
    BY <1>b, <2>1
  <2>9. /\ \A d \in Conns : d # c => eFileLock'[d] = eFileLock[d] /\ pc'[d] = pc[d]
        /\ eFileLock'[c] = NO_LOCK /\ pc'[c] = "idle"
    BY <1>a, <2>1
  <2>10. inode[ProcOf[c]].eFileLock >= NO_LOCK
    BY <1>b
  <2>11. eFileLock[c] # EXCLUSIVE_LOCK
    BY <1>a, <2>6, <2>4 DEF IInv, SoleInv, Holders
  <2>12. inode' \in [Procs -> [eFileLock : NO_LOCK..EXCLUSIVE_LOCK,
                            nShared : Nat, nLock : Nat, unused : BOOLEAN]]
    BY <1>b, <2>1, <2>7
  <2>13. eFileLock' \in [Conns -> NO_LOCK..EXCLUSIVE_LOCK]
    BY <1>a, <2>1
  <2>14. pc' \in [Conns -> Steps]
    BY <1>a, <2>1
  <2>15. Shapes'
    BY <1>a, <1>2, <2>1, <2>2, <2>12, <2>13, <2>14
  <2>16. Counts'
    BY <1>a, <1>2, <2>1, <2>2, <2>3, HoldersFinite DEF Counts
  <2>17. MutexInv'
    BY <1>a, <1>2, <2>1, <2>2 DEF IInv, MutexInv, Mates
  <2>18. LevelInv'
    BY <1>a, <2>8, <2>9, <2>10 DEF IInv, LevelInv
  <2>19. SoleInv'
    BY <1>a, <1>2, <2>1, <2>2 DEF IInv, SoleInv, LevelInv, MutexInv, Mates
  <2>20. HeldInv'
    BY <1>a, <1>2, <2>1, <2>2, <2>3, <2>6, <2>4 DEF IInv, HeldInv, LevelInv, Mates
  <2>21. CallInv'
    BY <1>a, <1>2, <2>1, <2>2 DEF IInv, CallInv, MutexInv, LevelInv, Mates
  <2>22. SystemInv'
    BY <1>a, <1>2, <2>1, <2>2 DEF IInv, SystemInv, CallInv, CoverInv, NeededInv, LevelInv, SoleInv, Grants, Free
  <2>23. CoverInv'
    BY <1>a, <1>2, <2>1, <2>2 DEF IInv, CoverInv, LevelInv, SoleInv, CallInv, MutexInv, NeededInv, Grants, Free, Mates
  <2>24. NeededInv'
    BY <1>a, <1>2, <2>1, <2>2, <2>11 DEF IInv, NeededInv, LevelInv, SoleInv, CallInv, MutexInv, CoverInv, Grants, Free, Mates
  <2>25. LeavingInv'
    BY <1>a, <1>2, <2>1, <2>2 DEF IInv, LeavingInv, LevelInv, SoleInv, CallInv, MutexInv, SystemInv, CoverInv, Grants, Free, Mates
  <2>26. QED
    BY <2>15, <2>16, <2>17, <2>18, <2>19, <2>20, <2>21, <2>22, <2>23, <2>24, <2>25 DEF IInv
<1>3. QED
  BY <1>1, <1>2 DEF UnlockAll

\* unixClose(): the descriptor is closed, or kept while the process has a lock.
LEMMA CloseStep ==
  ASSUME IInv, NEW c \in Conns, Close(c)
  PROVE  IInv'
<1> USE DEF Places, Steps, Info, NoInode, Free
<1>a. /\ Shapes /\ Counts
      /\ ProcOf \in [Conns -> Procs] /\ ProcOf[c] \in Procs
  BY UnixLockAssumption DEF IInv
<1> USE DEF Shapes
<1>b. /\ ProcOf[c] \in Procs
      /\ inode \in [Procs -> [eFileLock : NO_LOCK..EXCLUSIVE_LOCK,
                             nShared : Nat, nLock : Nat, unused : BOOLEAN]]
  BY <1>a
<1>1. CASE inode[ProcOf[c]].nLock > 0
  <2>1. /\ inode' = [inode EXCEPT ![ProcOf[c]].unused = TRUE]
        /\ open' = open \ {c}
        /\ os' = os
        /\ eFileLock' = eFileLock
        /\ pc' = pc
    BY <1>a, <1>1 DEF Close, Level, SetLock, At
  <2>2. /\ eFileLock[c] = NO_LOCK
        /\ \A d \in Mates(c) : pc[d] = "idle"
    BY <1>a, <1>1 DEF Close, Enter, AloneInProcess, SetLock, IInv,
       Mates, MutexInv, LevelInv, CallInv
  <2>3. \A p \in Procs : Holders(p)' = Holders(p)
    BY <1>a, <2>1 DEF Holders
  <2>4. inode' \in [Procs -> [eFileLock : NO_LOCK..EXCLUSIVE_LOCK,
                           nShared : Nat, nLock : Nat, unused : BOOLEAN]]
    BY <1>b, <2>1
  <2>5. Shapes'
    BY <1>a, <1>1, <2>1, <2>2, <2>4
  <2>6. Counts'
    BY <1>a, <1>1, <2>1, <2>2, <2>3, HoldersFinite DEF Counts
  <2>7. MutexInv'
    BY <1>a, <1>1, <2>1, <2>2 DEF IInv, MutexInv, Mates
  <2>8. LevelInv'
    BY <1>a, <1>1, <2>1, <2>2 DEF IInv, LevelInv, CallInv, MutexInv, SoleInv, Mates, NoInode
  <2>9. SoleInv'
    BY <1>a, <1>1, <2>1, <2>2 DEF IInv, SoleInv, LevelInv, MutexInv, Mates
  <2>10. HeldInv'
    BY <1>a, <1>1, <2>1, <2>2, <2>3 DEF IInv, HeldInv, LevelInv, Mates
  <2>11. CallInv'
    BY <1>a, <1>1, <2>1, <2>2 DEF IInv, CallInv, MutexInv, LevelInv, Mates
  <2>12. SystemInv'
    BY <1>a, <1>1, <2>1, <2>2 DEF IInv, SystemInv, CallInv, CoverInv, NeededInv, LevelInv, SoleInv, Grants, Free
  <2>13. CoverInv'
    BY <1>a, <1>1, <2>1, <2>2 DEF IInv, CoverInv, LevelInv, SoleInv, CallInv, MutexInv, NeededInv, Grants, Free, Mates
  <2>14. NeededInv'
    BY <1>a, <1>1, <2>1, <2>2 DEF IInv, NeededInv, LevelInv, SoleInv, CallInv, MutexInv, CoverInv, Grants, Free, Mates
  <2>15. LeavingInv'
    BY <1>a, <1>1, <2>1, <2>2 DEF IInv, LeavingInv, LevelInv, SoleInv, CallInv, MutexInv, SystemInv, CoverInv, Grants, Free, Mates
  <2>16. QED
    BY <2>5, <2>6, <2>7, <2>8, <2>9, <2>10, <2>11, <2>12, <2>13, <2>14, <2>15 DEF IInv
<1>2. CASE ~(inode[ProcOf[c]].nLock > 0)
  <2>1. /\ os' = [os EXCEPT ![ProcOf[c]] = Free]
        /\ open' = open \ {c}
        /\ inode' = inode
        /\ eFileLock' = eFileLock
        /\ pc' = pc
    BY <1>a, <1>2 DEF Close, Level, SetLock, At
  <2>2. /\ eFileLock[c] = NO_LOCK
        /\ \A d \in Mates(c) : pc[d] = "idle"
    BY <1>a, <1>2 DEF Close, Enter, AloneInProcess, SetLock, IInv,
       Mates, MutexInv, LevelInv, CallInv
  <2>3. \A p \in Procs : Holders(p)' = Holders(p)
    BY <1>a, <2>1 DEF Holders
  <2>4. Holders(ProcOf[c]) = {}
    BY <1>a, <1>2, <2>1, <2>2, FS_EmptySet, HoldersFinite DEF Counts
  <2>5. \A d \in Mates(c) : eFileLock[d] = NO_LOCK
    BY <1>a, <2>4 DEF Holders, Mates
  <2>6. os' \in [Procs -> [Places -> {"none", "read", "write"}]]
    BY <1>a, <2>1
  <2>7. Shapes'
    BY <1>a, <1>2, <2>1, <2>2, <2>6
  <2>8. Counts'
    BY <1>a, <1>2, <2>1, <2>2, <2>3, HoldersFinite DEF Counts
  <2>9. MutexInv'
    BY <1>a, <1>2, <2>1, <2>2 DEF IInv, MutexInv, Mates
  <2>10. LevelInv'
    BY <1>a, <1>2, <2>1, <2>2 DEF IInv, LevelInv, CallInv, MutexInv, SoleInv, Mates, NoInode
  <2>11. SoleInv'
    BY <1>a, <1>2, <2>1, <2>2 DEF IInv, SoleInv, LevelInv, MutexInv, Mates
  <2>12. HeldInv'
    BY <1>a, <1>2, <2>1, <2>2, <2>3 DEF IInv, HeldInv, LevelInv, Mates
  <2>13. CallInv'
    BY <1>a, <1>2, <2>1, <2>2 DEF IInv, CallInv, MutexInv, LevelInv, Mates
  <2>14. SystemInv'
    BY <1>a, <1>2, <2>1, <2>2 DEF IInv, SystemInv, CallInv, CoverInv, NeededInv, LevelInv, SoleInv, Grants, Free
  <2>15. CoverInv'
    BY <1>a, <1>2, <2>1, <2>2, <2>5 DEF IInv, CoverInv, LevelInv, SoleInv, CallInv, MutexInv, NeededInv, Grants, Free, Mates
  <2>16. NeededInv'
    BY <1>a, <1>2, <2>1, <2>2, <2>5 DEF IInv, NeededInv, LevelInv, SoleInv, CallInv, MutexInv, CoverInv, Grants, Free, Mates
  <2>17. LeavingInv'
    BY <1>a, <1>2, <2>1, <2>2, <2>5 DEF IInv, LeavingInv, LevelInv, SoleInv, CallInv, MutexInv, SystemInv, CoverInv, Grants, Free, Mates
  <2>18. QED
    BY <2>7, <2>8, <2>9, <2>10, <2>11, <2>12, <2>13, <2>14, <2>15, <2>16, <2>17 DEF IInv
<1>3. QED
  BY <1>1, <1>2 DEF Close

\* unixOpen() adds a descriptor.
LEMMA OpenStep ==
  ASSUME IInv, NEW c \in Conns, Open(c)
  PROVE  IInv'
<1> USE DEF Places, Steps, Info, NoInode, Free
<1>a. /\ Shapes /\ Counts
      /\ ProcOf \in [Conns -> Procs] /\ ProcOf[c] \in Procs
  BY UnixLockAssumption DEF IInv
<1> USE DEF Shapes
<1>b. /\ ProcOf[c] \in Procs
      /\ inode \in [Procs -> [eFileLock : NO_LOCK..EXCLUSIVE_LOCK,
                             nShared : Nat, nLock : Nat, unused : BOOLEAN]]
  BY <1>a
<1>1. /\ open' = open \cup {c}
      /\ os' = os
      /\ inode' = inode
      /\ eFileLock' = eFileLock
      /\ pc' = pc
  BY <1>a DEF Open, Level, SetLock, At
<1>2. \A p \in Procs : Holders(p)' = Holders(p)
  BY <1>a, <1>1 DEF Holders
<1>3. Shapes'
  BY <1>a, <1>1
<1>4. Counts'
  BY <1>a, <1>1, <1>2, HoldersFinite DEF Counts
<1>5. MutexInv'
  BY <1>a, <1>1 DEF IInv, MutexInv, Mates
<1>6. LevelInv'
  BY <1>a, <1>1 DEF IInv, LevelInv, CallInv, MutexInv, SoleInv, Mates, NoInode
<1>7. SoleInv'
  BY <1>a, <1>1 DEF IInv, SoleInv, LevelInv, MutexInv, Mates
<1>8. HeldInv'
  BY <1>a, <1>1, <1>2 DEF IInv, HeldInv, LevelInv, Mates
<1>9. CallInv'
  BY <1>a, <1>1 DEF IInv, CallInv, MutexInv, LevelInv, Mates
<1>10. SystemInv'
  BY <1>a, <1>1 DEF IInv, SystemInv, CallInv, CoverInv, NeededInv, LevelInv, SoleInv, Grants, Free
<1>11. CoverInv'
  BY <1>a, <1>1 DEF IInv, CoverInv, LevelInv, SoleInv, CallInv, MutexInv, NeededInv, Grants, Free, Mates
<1>12. NeededInv'
  BY <1>a, <1>1 DEF IInv, NeededInv, LevelInv, SoleInv, CallInv, MutexInv, CoverInv, Grants, Free, Mates
<1>13. LeavingInv'
  BY <1>a, <1>1 DEF IInv, LeavingInv, LevelInv, SoleInv, CallInv, MutexInv, SystemInv, CoverInv, Grants, Free, Mates
<1>14. QED
  BY <1>3, <1>4, <1>5, <1>6, <1>7, <1>8, <1>9, <1>10, <1>11, <1>12, <1>13 DEF IInv

\* The system drops the byte locks of a process that ends.
LEMMA KillStep ==
  ASSUME IInv, NEW p \in Procs, Kill(p)
  PROVE  IInv'
<1> USE DEF Places, Steps, Info, NoInode, Free
<1>a. Shapes /\ Counts /\ ProcOf \in [Conns -> Procs]
  BY UnixLockAssumption DEF IInv
<1>1. /\ os' = [os EXCEPT ![p] = Free]
      /\ inode' = [inode EXCEPT ![p] = NoInode]
      /\ open' = open \cup {c \in Conns : ProcOf[c] = p}
  BY DEF Kill
<1>2. \A c \in Conns :
        /\ ProcOf[c] = p => eFileLock'[c] = NO_LOCK /\ pc'[c] = "idle"
        /\ ProcOf[c] # p => eFileLock'[c] = eFileLock[c] /\ pc'[c] = pc[c]
  BY DEF Kill
<1>3. /\ Holders(p)' = {}
      /\ \A q \in Procs : q # p => Holders(q)' = Holders(q)
  BY <1>2 DEF Holders
<1>4. /\ os' \in [Procs -> [Places -> {"none", "read", "write"}]]
      /\ \A pl \in Places : os'[p][pl] = "none"
      /\ \A q \in Procs : q # p => os'[q] = os[q]
  BY <1>a, <1>1 DEF Shapes
<1>5. /\ inode' \in [Procs -> [eFileLock : NO_LOCK..EXCLUSIVE_LOCK,
                             nShared : Nat, nLock : Nat, unused : BOOLEAN]]
      /\ inode'[p] = NoInode
      /\ \A q \in Procs : q # p => inode'[q] = inode[q]
  BY <1>a, <1>1 DEF Shapes
<1>6. /\ eFileLock' \in [Conns -> NO_LOCK..EXCLUSIVE_LOCK]
      /\ pc' \in [Conns -> Steps]
  BY <1>a DEF Shapes, Kill
<1>7. Shapes'
  BY <1>a, <1>1, <1>4, <1>5, <1>6 DEF Shapes
<1>8. Counts'
  <2>1. Cardinality(Holders(p)') = 0
    BY <1>3, FS_EmptySet
  <2>2. ASSUME NEW q \in Procs, q # p
        PROVE  Cardinality(Holders(q)') = Cardinality(Holders(q))
    BY <1>3, <2>2
  <2>3. QED
    BY <1>a, <1>5, <2>1, <2>2 DEF Counts
<1>9. MutexInv'
  BY <1>1, <1>2 DEF IInv, MutexInv
<1>10. LevelInv'
  BY <1>a, <1>2, <1>5 DEF IInv, LevelInv
<1>11. SoleInv'
  BY <1>a, <1>2 DEF IInv, SoleInv
<1>12. HeldInv'
  BY <1>3, <1>5 DEF IInv, HeldInv
<1>13. CallInv'
  BY <1>a, <1>2, <1>4, <1>5 DEF IInv, CallInv
<1>14. SystemInv'
  BY <1>4 DEF IInv, SystemInv
<1>15. CoverInv'
  BY <1>a, <1>2, <1>4 DEF IInv, CoverInv
<1>16. NeededInv'
  BY <1>2, <1>4 DEF IInv, NeededInv
<1>17. LeavingInv'
  BY <1>a, <1>2, <1>4 DEF IInv, LeavingInv
<1>18. QED
  BY <1>7, <1>8, <1>9, <1>10, <1>11, <1>12, <1>13, <1>14, <1>15, <1>16, <1>17
  DEF IInv

\* With no file open the invariant holds.
LEMMA InitInv == Init => IInv
<1> USE DEF Places, Steps, Info, NoInode, Free
<1> SUFFICES ASSUME Init
             PROVE  IInv
  OBVIOUS
<1>1. /\ os = [p \in Procs |-> Free] /\ inode = [p \in Procs |-> NoInode]
      /\ eFileLock = [c \in Conns |-> NO_LOCK] /\ open = Conns
      /\ pc = [c \in Conns |-> "idle"]
      /\ ProcOf \in [Conns -> Procs]
  BY UnixLockAssumption DEF Init
<1>2. \A p \in Procs : Holders(p) = {}
  BY <1>1 DEF Holders
<1>3. Shapes
  BY <1>1 DEF Shapes
<1>4. Counts
  BY <1>1, <1>2, FS_EmptySet DEF Counts
<1>5. MutexInv /\ LevelInv /\ SoleInv /\ HeldInv
  BY <1>1 DEF MutexInv, LevelInv, SoleInv, HeldInv
<1>6. CallInv /\ SystemInv /\ CoverInv /\ NeededInv /\ LeavingInv
  BY <1>1 DEF CallInv, SystemInv, CoverInv, NeededInv, LeavingInv
<1>7. QED
  BY <1>3, <1>4, <1>5, <1>6 DEF IInv

\* The invariant is one of the state: a step that changes nothing keeps it.
LEMMA StutterInv == IInv /\ UNCHANGED vars => IInv'
BY DEF vars, IInv, Shapes, Counts, Holders, MutexInv, LevelInv, SoleInv,
       HeldInv, CallInv, SystemInv, CoverInv, NeededInv, LeavingInv

\* No system call of a connection and no end of a process breaks the invariant.
LEMMA StepInv == IInv /\ [Next]_vars => IInv'
<1> SUFFICES ASSUME IInv, [Next]_vars
             PROVE  IInv'
  OBVIOUS
<1>1. ASSUME NEW c \in Conns, Continue(c)
      PROVE  IInv'
  BY <1>1, LockSharedRangeStep, LockSharedDoneStep, LockExclusiveStep,
     UnlockBytesStep, UnlockAllStep DEF Continue
<1>2. ASSUME NEW c \in Conns, Call(c)
      PROVE  IInv'
  BY <1>2, LockSharedAgainStep, LockSharedPendingStep, LockReservedStep,
     LockPendingStep, LockExclusiveStep, UnlockToSharedStep, UnlockFromMoreStep,
     UnlockAllStep, CloseStep, OpenStep DEF Call
<1>3. ASSUME NEW p \in Procs, Kill(p)
      PROVE  IInv'
  BY <1>3, KillStep
<1>4. QED
  BY <1>1, <1>2, <1>3, StutterInv DEF Next

\* The invariant holds for any connections in any processes: what the theorems
\* below are read off from.
THEOREM Invariance == Spec => []IInv
BY InitInv, StepInv, PTL DEF Spec

\* nShared, nLock and eFileLock of every unixInodeInfo are what the connections of
\* its process have together, in every state that unixLock(), posixUnlock() and
\* unixClose() can reach.
THEOREM TypeCorrect == Spec => []TypeOK
<1>1. IInv => TypeOK
  BY TypeParts DEF IInv
<1>2. QED
  BY Invariance, <1>1, PTL

\* The invariant contains that the byte locks cover the connections.
LEMMA InvCovered == IInv => Covered
<1> SUFFICES ASSUME IInv, NEW c \in Conns
             PROVE  LET its == os[ProcOf[c]]
                    IN /\ Effective(c) >= SHARED_LOCK => its["shared"] # "none"
                       /\ eFileLock[c] = EXCLUSIVE_LOCK /\ pc[c] = "idle"
                            => its["shared"] = "write"
                       /\ eFileLock[c] = PENDING_LOCK /\ pc[c] = "idle"
                            => its["pending"] = "write"
                       /\ eFileLock[c] = RESERVED_LOCK /\ pc[c] = "idle"
                            => its["reserved"] = "write"
  BY DEF Covered
<1>1. eFileLock[c] \in NO_LOCK..EXCLUSIVE_LOCK
  BY DEF IInv, Shapes
<1>2. QED
  BY <1>1 DEF IInv, CallInv, CoverInv, Effective

\* What a connection believes to have is covered by byte locks of its process: no
\* other process can get a lock that excludes it.
THEOREM EveryConnectionCovered == Spec => []Covered
BY Invariance, InvCovered, PTL

-----------------------------------------------------------------------------
\* The connections that the reserved byte speaks for, as Promise has them.
Reserver ==
  {c \in Conns : eFileLock[c] > SHARED_LOCK /\ os[ProcOf[c]]["reserved"] = "write"}

\* What a lock that others respect says of the places of the file.
LEMMA EffectiveLevels ==
  ASSUME IInv, NEW d \in Conns
  PROVE  /\ Effective(d) \in NO_LOCK..EXCLUSIVE_LOCK
         /\ pc[d] = "idle" => Effective(d) = eFileLock[d]
         /\ Effective(d) # NO_LOCK => os[ProcOf[d]]["shared"] # "none"
         /\ Effective(d) > SHARED_LOCK => Effective(d) = eFileLock[d]
<1>1. eFileLock[d] \in NO_LOCK..EXCLUSIVE_LOCK
  BY DEF IInv, Shapes
<1>2. QED
  BY <1>1 DEF IInv, CallInv, CoverInv, Effective

\* While a connection has RESERVED or PENDING its process has the SHARED range
\* locked for reading, and not more.
LEMMA AboveShared ==
  ASSUME IInv, NEW d \in Conns, eFileLock[d] \in {RESERVED_LOCK, PENDING_LOCK}
  PROVE  os[ProcOf[d]]["shared"] = "read"
<1>1. /\ os[ProcOf[d]]["shared"] \in {"read", "write"}
      /\ ProcOf[d] \in Procs
  BY UnixLockAssumption DEF IInv, Shapes, CoverInv, Places
<1>2. os[ProcOf[d]]["shared"] # "write"
  BY <1>1 DEF IInv, SoleInv, NeededInv
<1>3. QED
  BY <1>1, <1>2

\* A connection that the others have to respect as RESERVED or PENDING has those
\* bytes locked for writing.
LEMMA WriterCovered ==
  ASSUME IInv, NEW d \in Conns, Effective(d) \in {RESERVED_LOCK, PENDING_LOCK}
  PROVE  /\ os[ProcOf[d]]["reserved"] = "write"
         /\ Effective(d) = PENDING_LOCK => os[ProcOf[d]]["pending"] = "write"
<1>1. eFileLock[d] = Effective(d)
  BY EffectiveLevels
<1>2. pc[d] # "all"
  BY <1>1, AboveShared DEF Effective
<1>3. QED
  BY <1>1, <1>2 DEF IInv, CoverInv

\* EXCLUSIVE keeps the readers of other processes out of the shared range.
LEMMA ExclusiveEmpty ==
  ASSUME IInv, NEW d \in Conns, Effective(d) = EXCLUSIVE_LOCK,
         NEW p \in Procs, p # ProcOf[d]
  PROVE  os[p]["shared"] = "none"
<1>1. eFileLock[d] = EXCLUSIVE_LOCK /\ ProcOf[d] \in Procs
  BY EffectiveLevels, UnixLockAssumption
<1>2. CASE pc[d] = "bytes"
  BY <1>1, <1>2 DEF IInv, LeavingInv, Effective
<1>3. CASE pc[d] # "bytes"
  BY <1>1, <1>3 DEF IInv, CoverInv, SystemInv, Places
<1>4. QED
  BY <1>2, <1>3

\* No connection of a process has more than eFileLock of its unixInodeInfo.
LEMMA MatesBelow ==
  ASSUME IInv, NEW c \in Conns, NEW d \in Conns, ProcOf[d] = ProcOf[c],
         pc[d] # "all"
  PROVE  /\ eFileLock[d] <= inode[ProcOf[c]].eFileLock
         /\ eFileLock[d] \in NO_LOCK..EXCLUSIVE_LOCK
BY DEF IInv, Shapes, LevelInv

\* A step of one connection changes nothing for the others.
LEMMA OthersKeep ==
  ASSUME IInv, NEW c \in Conns,
         \A p \in Procs : p # ProcOf[c] => os'[p] = os[p],
         \A d \in Conns : d # c => eFileLock'[d] = eFileLock[d] /\ pc'[d] = pc[d],
         \A d \in Mates(c) : d # c => pc[d] = "idle"
  PROVE  /\ \A d \in Conns : d # c => Effective(d)' = Effective(d)
         /\ \A d \in Conns : ProcOf[d] # ProcOf[c] => os'[ProcOf[d]] = os[ProcOf[d]]
<1>1. ASSUME NEW d \in Conns, d # c
      PROVE  Effective(d)' = Effective(d)
  <2>1. ProcOf[d] \in Procs
    BY UnixLockAssumption
  <2>2. CASE ProcOf[d] = ProcOf[c]
    BY <1>1, <2>2 DEF Mates, Effective
  <2>3. CASE ProcOf[d] # ProcOf[c]
    BY <1>1, <2>1, <2>3 DEF Effective
  <2>4. QED
    BY <2>2, <2>3
<1>2. QED
  BY <1>1, UnixLockAssumption

\* Only c changes, to a new level.
Becomes(c, level) ==
  /\ Effective(c)' = level
  /\ \A d \in Conns : d # c => Effective(d)' = Effective(d)

\* The state function that Promise has for lock.
LEMMA LockOf ==
  ASSUME NEW c \in Conns, NEW level, Becomes(c, level)
  PROVE  [d \in Conns |-> Effective(d)]'
           = [[d \in Conns |-> Effective(d)] EXCEPT ![c] = level]
BY DEF Becomes

\* What LockShared of FileLock asks for.
LEMMA MapsToLockShared ==
  ASSUME IInv, NEW c \in Conns, Effective(c) = NO_LOCK,
         Becomes(c, SHARED_LOCK), Reserver' = Reserver,
         \A d \in Conns : d # c => Effective(d) < EXCLUSIVE_LOCK,
         \/ \A d \in Conns : d # c => Effective(d) < PENDING_LOCK
         \/ \E d \in Conns : d # c /\ Effective(d) = SHARED_LOCK
  PROVE  Promise!LockNext
<1>1. Promise!LockShared(c)
  BY LockOf DEF Promise!LockShared, Promise!Others, Reserver, Promise!NO_LOCK,
     Promise!SHARED_LOCK, Promise!PENDING_LOCK, Promise!EXCLUSIVE_LOCK
<1>2. QED
  BY <1>1 DEF Promise!LockNext

\* What LockReserved of FileLock asks for.
LEMMA MapsToLockReserved ==
  ASSUME IInv, NEW c \in Conns, Effective(c) = SHARED_LOCK,
         Becomes(c, RESERVED_LOCK), Reserver' = {c},
         \A d \in Conns : d # c => Effective(d) <= SHARED_LOCK
  PROVE  Promise!LockNext
<1>1. Promise!LockReserved(c)
  BY LockOf DEF Promise!LockReserved, Promise!Others, Reserver,
     Promise!SHARED_LOCK, Promise!RESERVED_LOCK
<1>2. QED
  BY <1>1 DEF Promise!LockNext

\* What LockPending of FileLock asks for.
LEMMA MapsToLockPending ==
  ASSUME IInv, NEW c \in Conns, Effective(c) = RESERVED_LOCK,
         Becomes(c, PENDING_LOCK), Reserver' = Reserver
  PROVE  Promise!LockNext
<1>1. Promise!LockPending(c)
  BY LockOf DEF Promise!LockPending, Reserver, Promise!RESERVED_LOCK,
     Promise!PENDING_LOCK
<1>2. QED
  BY <1>1 DEF Promise!LockNext

\* What LockExclusive of FileLock asks for.
LEMMA MapsToLockExclusive ==
  ASSUME IInv, NEW c \in Conns, Effective(c) \in {SHARED_LOCK, PENDING_LOCK},
         Becomes(c, EXCLUSIVE_LOCK), Reserver' = Reserver,
         \A d \in Conns : d # c => Effective(d) = NO_LOCK
  PROVE  Promise!LockNext
<1>1. Promise!LockExclusive(c)
  BY LockOf DEF Promise!LockExclusive, Promise!Others, Reserver,
     Promise!NO_LOCK, Promise!SHARED_LOCK, Promise!PENDING_LOCK,
     Promise!EXCLUSIVE_LOCK
<1>2. QED
  BY <1>1 DEF Promise!LockNext

\* What Unlock of FileLock asks for.
LEMMA MapsToUnlock ==
  ASSUME IInv, NEW c \in Conns, NEW level \in {NO_LOCK, SHARED_LOCK},
         Effective(c) > level, Becomes(c, level), Reserver' = Reserver \ {c}
  PROVE  Promise!LockNext
<1>1. Promise!Unlock(c, level)
  BY LockOf DEF Promise!Unlock, Reserver, Promise!NO_LOCK, Promise!SHARED_LOCK
<1>2. QED
  BY <1>1 DEF Promise!LockNext, Promise!NO_LOCK, Promise!SHARED_LOCK

\* What LeaveReserved of FileLock asks for.
LEMMA MapsToLeaveReserved ==
  ASSUME IInv, NEW c \in Conns, Effective(c) = EXCLUSIVE_LOCK,
         Becomes(c, EXCLUSIVE_LOCK), Reserver' = Reserver \ {c}
  PROVE  Promise!LockNext
<1>1. Promise!LeaveReserved(c)
  BY DEF Becomes, Promise!LeaveReserved, Reserver, Promise!EXCLUSIVE_LOCK
<1>2. QED
  BY <1>1 DEF Promise!LockNext

\* A step that changes no lock and no reserved byte is none of FileLock.
LEMMA MapsToStutter ==
  ASSUME IInv, NEW c \in Conns, Becomes(c, Effective(c)), Reserver' = Reserver
  PROVE  UNCHANGED Promise!lockVars
BY DEF Becomes, Promise!lockVars, Reserver

\* The read-lock on the SHARED range is LockShared, or fails.
LEMMA LockSharedRangeMaps ==
  ASSUME IInv, IInv', NEW c \in Conns, LockSharedRange(c)
  PROVE  [Promise!LockNext]_(Promise!lockVars)
<1> USE DEF Places, Steps
<1>a. /\ Shapes /\ ProcOf[c] \in Procs /\ ProcOf \in [Conns -> Procs]
      /\ pc[c] = "range" /\ eFileLock' = eFileLock
  BY UnixLockAssumption DEF IInv, LockSharedRange
<1>b. /\ \A d \in Mates(c) : d # c => pc[d] = "idle"
      /\ inode[ProcOf[c]].eFileLock = NO_LOCK
      /\ os[ProcOf[c]]["pending"] = "read"
  BY <1>a DEF IInv, MutexInv, CallInv, Mates
<1>c. \A d \in Mates(c) : eFileLock[d] = NO_LOCK
  BY <1>a, <1>b, MatesBelow DEF Mates
<1>d. Effective(c) = NO_LOCK
  BY <1>a, <1>c DEF Mates, Effective
<1>1. CASE SetLock(ProcOf[c], "shared", "read") /\ At(c, "drop")
  <2>1. /\ os' = [os EXCEPT ![ProcOf[c]]["shared"] = "read"]
        /\ pc' = [pc EXCEPT ![c] = "drop"]
        /\ Grants(ProcOf[c], "shared", "read")
    BY <1>1 DEF SetLock, At
  <2>2. Becomes(c, SHARED_LOCK)
    BY <1>a, <1>b, <2>1, OthersKeep DEF Shapes, Effective, Becomes
  <2>3. Reserver' = Reserver
    BY <1>a, <2>1 DEF Reserver, Shapes
  <2>4. ASSUME NEW d \in Conns, d # c
        PROVE  Effective(d) < PENDING_LOCK
    <3>1. Effective(d) \in NO_LOCK..EXCLUSIVE_LOCK
      BY EffectiveLevels
    <3>2. CASE ProcOf[d] = ProcOf[c]
      BY <1>b, <1>c, <2>4, <3>2, EffectiveLevels DEF Mates
    <3>3. CASE ProcOf[d] # ProcOf[c] /\ Effective(d) = PENDING_LOCK
      BY <1>a, <1>b, <3>3, WriterCovered DEF IInv, SystemInv
    <3>4. CASE ProcOf[d] # ProcOf[c] /\ Effective(d) = EXCLUSIVE_LOCK
      <4>1. eFileLock[d] = EXCLUSIVE_LOCK /\ os[ProcOf[d]]["shared"] # "write"
        BY <1>a, <2>1, <3>4, EffectiveLevels DEF Grants
      <4>2. pc[d] = "bytes" /\ os[ProcOf[d]]["pending"] # "none"
        BY <3>4, <4>1 DEF IInv, CoverInv, Effective
      <4>3. os[ProcOf[d]]["pending"] = "write"
        BY <1>a, <4>1, <4>2 DEF IInv, CoverInv, Shapes
      <4>4. QED
        BY <1>a, <1>b, <3>4, <4>3 DEF IInv, SystemInv
    <3>5. QED
      BY <3>1, <3>2, <3>3, <3>4
  <2>5. \A d \in Conns : d # c => Effective(d) < EXCLUSIVE_LOCK
    BY <2>4, EffectiveLevels
  <2>6. QED
    BY <1>d, <2>2, <2>3, <2>4, <2>5, MapsToLockShared
<1>2. CASE At(c, "giveup") /\ UNCHANGED os
  <2>1. os' = os /\ pc' = [pc EXCEPT ![c] = "giveup"]
    BY <1>2 DEF At
  <2>2. Becomes(c, Effective(c))
    BY <1>a, <1>b, <1>c, <2>1, OthersKeep DEF Shapes, Effective, Becomes, Mates
  <2>3. Reserver' = Reserver
    BY <1>a, <2>1 DEF Reserver
  <2>4. QED
    BY <2>2, <2>3, MapsToStutter
<1>3. QED
  BY <1>1, <1>2 DEF LockSharedRange

\* To count one more connection of the process is LockShared.
LEMMA LockSharedAgainMaps ==
  ASSUME IInv, IInv', NEW c \in Conns, LockSharedAgain(c)
  PROVE  [Promise!LockNext]_(Promise!lockVars)
<1> USE DEF Places, Steps
<1>a. /\ Shapes /\ ProcOf[c] \in Procs /\ ProcOf \in [Conns -> Procs]
      /\ os' = os /\ pc' = pc /\ eFileLock' = [eFileLock EXCEPT ![c] = SHARED_LOCK]
      /\ eFileLock[c] = NO_LOCK
      /\ inode[ProcOf[c]].eFileLock \in {SHARED_LOCK, RESERVED_LOCK}
      /\ \A d \in Mates(c) : pc[d] = "idle"
  BY UnixLockAssumption DEF IInv, LockSharedAgain, Enter
<1>b. Effective(c) = NO_LOCK /\ Becomes(c, SHARED_LOCK)
  BY <1>a, OthersKeep DEF Shapes, Effective, Becomes, Mates
<1>c. Reserver' = Reserver
  BY <1>a DEF Reserver, Shapes
<1>d. PICK h \in Conns : ProcOf[h] = ProcOf[c] /\ eFileLock[h] # NO_LOCK
  BY <1>a DEF IInv, HeldInv, Holders
<1>e. /\ pc[h] = "idle" /\ Effective(h) = eFileLock[h] /\ h # c
      /\ eFileLock[h] \in {SHARED_LOCK, RESERVED_LOCK}
      /\ os[ProcOf[c]]["shared"] # "none"
  BY <1>a, <1>d, MatesBelow, EffectiveLevels DEF Mates
<1>1. ASSUME NEW d \in Conns, ProcOf[d] = ProcOf[c]
      PROVE  Effective(d) <= RESERVED_LOCK
  BY <1>1, <1>a, MatesBelow, EffectiveLevels DEF Mates
<1>2. ASSUME NEW d \in Conns, d # c
      PROVE  Effective(d) < EXCLUSIVE_LOCK
  <2>1. CASE ProcOf[d] = ProcOf[c]
    BY <2>1, <1>1, EffectiveLevels
  <2>2. CASE ProcOf[d] # ProcOf[c]
    BY <1>a, <1>e, <2>2, ExclusiveEmpty, EffectiveLevels
  <2>3. QED
    BY <2>1, <2>2
<1>3. CASE eFileLock[h] = SHARED_LOCK
  BY <1>b, <1>c, <1>e, <1>2, <1>3, MapsToLockShared
<1>4. CASE eFileLock[h] = RESERVED_LOCK
  <2>1. os[ProcOf[c]]["reserved"] = "write"
    BY <1>d, <1>e, <1>4 DEF IInv, CoverInv
  <2>2. ASSUME NEW d \in Conns, d # c
        PROVE  Effective(d) < PENDING_LOCK
    <3>1. CASE ProcOf[d] = ProcOf[c]
      BY <3>1, <1>1, EffectiveLevels
    <3>2. CASE ProcOf[d] # ProcOf[c]
      <4>1. os[ProcOf[d]]["reserved"] = "none"
        BY <1>a, <2>1, <3>2 DEF IInv, SystemInv
      <4>2. Effective(d) # PENDING_LOCK
        BY <4>1, WriterCovered
      <4>3. QED
        BY <1>2, <2>2, <4>2, EffectiveLevels
    <3>3. QED
      BY <3>1, <3>2
  <2>3. QED
    BY <1>b, <1>c, <1>2, <2>2, MapsToLockShared
<1>5. QED
  BY <1>e, <1>3, <1>4

\* The write-lock on the reserved byte is LockReserved, or fails.
LEMMA LockReservedMaps ==
  ASSUME IInv, IInv', NEW c \in Conns, LockReserved(c)
  PROVE  [Promise!LockNext]_(Promise!lockVars)
<1> USE DEF Places, Steps
<1>a. /\ Shapes /\ ProcOf[c] \in Procs /\ ProcOf \in [Conns -> Procs]
      /\ os' = [os EXCEPT ![ProcOf[c]]["reserved"] = "write"]
      /\ pc' = pc /\ eFileLock' = [eFileLock EXCEPT ![c] = RESERVED_LOCK]
      /\ eFileLock[c] = SHARED_LOCK /\ inode[ProcOf[c]].eFileLock = SHARED_LOCK
      /\ \A d \in Mates(c) : pc[d] = "idle"
      /\ Grants(ProcOf[c], "reserved", "write")
  BY UnixLockAssumption
  DEF IInv, LockReserved, Enter, AloneInProcess, SetLock, Level
<1>b. Effective(c) = SHARED_LOCK /\ Becomes(c, RESERVED_LOCK)
  BY <1>a, OthersKeep DEF Shapes, Effective, Becomes, Mates
<1>c. \A d \in Conns : ProcOf[d] # ProcOf[c] => os[ProcOf[d]]["reserved"] = "none"
  BY <1>a DEF Grants
<1>d. \A d \in Conns : ProcOf[d] = ProcOf[c] =>
        Effective(d) <= SHARED_LOCK /\ eFileLock[d] <= SHARED_LOCK
  BY <1>a, MatesBelow, EffectiveLevels DEF Mates
<1>e. Reserver' = {c}
  BY <1>a, <1>c, <1>d DEF Reserver, Shapes
<1>1. ASSUME NEW d \in Conns, d # c
      PROVE  Effective(d) <= SHARED_LOCK
  <2>1. CASE ProcOf[d] = ProcOf[c]
    BY <1>d, <2>1
  <2>2. CASE ProcOf[d] # ProcOf[c]
    <3>1. os[ProcOf[c]]["shared"] # "none"
      BY <1>a DEF IInv, CoverInv
    <3>2. Effective(d) # EXCLUSIVE_LOCK
      BY <1>a, <2>2, <3>1, ExclusiveEmpty
    <3>3. Effective(d) \notin {RESERVED_LOCK, PENDING_LOCK}
      BY <1>c, <2>2, WriterCovered
    <3>4. QED
      BY <3>2, <3>3, EffectiveLevels
  <2>3. QED
    BY <2>1, <2>2
<1>2. QED
  BY <1>b, <1>e, <1>1, MapsToLockReserved

\* The write-lock on the PENDING byte is LockPending, or fails.
LEMMA LockPendingMaps ==
  ASSUME IInv, IInv', NEW c \in Conns, LockPending(c)
  PROVE  [Promise!LockNext]_(Promise!lockVars)
<1> USE DEF Places, Steps
<1>a. /\ Shapes /\ ProcOf[c] \in Procs /\ ProcOf \in [Conns -> Procs]
      /\ os' = [os EXCEPT ![ProcOf[c]]["pending"] = "write"]
      /\ pc' = [pc EXCEPT ![c] = "exclusive"]
      /\ eFileLock' = [eFileLock EXCEPT ![c] = PENDING_LOCK]
      /\ eFileLock[c] = RESERVED_LOCK
      /\ \A d \in Mates(c) : pc[d] = "idle"
  BY UnixLockAssumption
  DEF IInv, LockPending, Enter, SetLock, Level, At
<1>b. Effective(c) = RESERVED_LOCK /\ Becomes(c, PENDING_LOCK)
  BY <1>a, OthersKeep DEF Shapes, Effective, Becomes, Mates
<1>c. Reserver' = Reserver
  BY <1>a DEF Reserver, Shapes
<1>d. QED
  BY <1>b, <1>c, MapsToLockPending

\* The write-lock on the SHARED range is LockExclusive, or fails.
LEMMA LockExclusiveMaps ==
  ASSUME IInv, IInv', NEW c \in Conns, LockExclusive(c)
  PROVE  [Promise!LockNext]_(Promise!lockVars)
<1> USE DEF Places, Steps
<1>a. /\ Shapes /\ ProcOf[c] \in Procs /\ ProcOf \in [Conns -> Procs]
      /\ pc' = [pc EXCEPT ![c] = "idle"] /\ pc[c] \in {"idle", "exclusive"}
      /\ eFileLock[c] \in {SHARED_LOCK, PENDING_LOCK}
      /\ \A d \in Mates(c) : d # c => pc[d] = "idle"
  BY UnixLockAssumption
  DEF IInv, LockExclusive, Enter, At, MutexInv, CallInv, Mates
<1>b. Effective(c) = eFileLock[c]
  BY <1>a DEF Effective
<1>1. CASE inode[ProcOf[c]].nShared = 1 /\ Grants(ProcOf[c], "shared", "write")
  <2>1. /\ os' = [os EXCEPT ![ProcOf[c]]["shared"] = "write"]
        /\ eFileLock' = [eFileLock EXCEPT ![c] = EXCLUSIVE_LOCK]
        /\ \A d \in Conns : ProcOf[d] # ProcOf[c] => os[ProcOf[d]]["shared"] = "none"
    BY <1>a, <1>1 DEF LockExclusive, SetLock, Level, Grants
  <2>2. Becomes(c, EXCLUSIVE_LOCK)
    BY <1>a, <2>1, OthersKeep DEF Shapes, Effective, Becomes, Mates
  <2>3. \A d \in Conns : ProcOf[d] = ProcOf[c] /\ d # c => eFileLock[d] = NO_LOCK
    BY <1>a, <1>1, OnlyHolder DEF IInv, Counts
  <2>4. eFileLock[c] = SHARED_LOCK => os[ProcOf[c]]["reserved"] # "write"
    BY <1>a, <2>3 DEF IInv, NeededInv
  <2>5. Reserver' = Reserver
    BY <1>a, <2>1, <2>4 DEF Reserver, Shapes
  <2>6. ASSUME NEW d \in Conns, d # c
        PROVE  Effective(d) = NO_LOCK
    BY <1>a, <2>1, <2>3, <2>6, EffectiveLevels DEF Mates
  <2>7. QED
    BY <1>a, <1>b, <2>2, <2>5, <2>6, MapsToLockExclusive
<1>2. CASE ~(inode[ProcOf[c]].nShared = 1 /\ Grants(ProcOf[c], "shared", "write"))
  <2>1. os' = os /\ eFileLock' = eFileLock
    BY <1>2 DEF LockExclusive
  <2>2. Becomes(c, Effective(c))
    BY <1>a, <2>1, OthersKeep DEF Shapes, Effective, Becomes
  <2>3. Reserver' = Reserver
    BY <2>1 DEF Reserver
  <2>4. QED
    BY <2>2, <2>3, MapsToStutter
<1>3. QED
  BY <1>1, <1>2

\* The read-lock on the PENDING byte is no step of FileLock.
LEMMA LockSharedPendingMaps ==
  ASSUME IInv, IInv', NEW c \in Conns, LockSharedPending(c)
  PROVE  [Promise!LockNext]_(Promise!lockVars)
<1> USE DEF Places, Steps
<1>a. /\ Shapes /\ ProcOf[c] \in Procs /\ ProcOf \in [Conns -> Procs]
      /\ os' = [os EXCEPT ![ProcOf[c]]["pending"] = "read"]
      /\ pc' = [pc EXCEPT ![c] = "range"] /\ eFileLock' = eFileLock
      /\ \A d \in Mates(c) : pc[d] = "idle"
  BY UnixLockAssumption DEF IInv, LockSharedPending, Enter, SetLock, At
<1>b. Becomes(c, Effective(c))
  BY <1>a, OthersKeep DEF Shapes, Effective, Becomes, Mates
<1>c. Reserver' = Reserver
  BY <1>a DEF Reserver, Shapes
<1>d. QED
  BY <1>b, <1>c, MapsToStutter

\* To give the PENDING byte back is no step of FileLock.
LEMMA LockSharedDoneMaps ==
  ASSUME IInv, IInv', NEW c \in Conns, LockSharedDone(c)
  PROVE  [Promise!LockNext]_(Promise!lockVars)
<1> USE DEF Places, Steps
<1>a. /\ Shapes /\ ProcOf[c] \in Procs /\ ProcOf \in [Conns -> Procs]
      /\ os' = [os EXCEPT ![ProcOf[c]]["pending"] = "none"]
      /\ pc' = [pc EXCEPT ![c] = "idle"] /\ pc[c] \in {"drop", "giveup"}
      /\ pc[c] = "drop" => eFileLock' = [eFileLock EXCEPT ![c] = SHARED_LOCK]
      /\ pc[c] = "giveup" => eFileLock' = eFileLock
      /\ \A d \in Mates(c) : d # c => pc[d] = "idle"
  BY UnixLockAssumption DEF IInv, LockSharedDone, At, MutexInv, Mates
<1>b. eFileLock[c] = NO_LOCK
  BY <1>a, MatesBelow DEF IInv, CallInv
<1>c. \A d \in Conns : d # c => eFileLock'[d] = eFileLock[d] /\ pc'[d] = pc[d]
  BY <1>a DEF Shapes
<1>d. Becomes(c, Effective(c))
  <2>1. Effective(c)' = Effective(c)
    BY <1>a, <1>b DEF Shapes, Effective
  <2>2. QED
    BY <1>a, <1>c, <2>1, OthersKeep DEF Shapes, Becomes
<1>e. Reserver' = Reserver
  <2>1. \A d \in Conns : eFileLock'[d] > SHARED_LOCK <=> eFileLock[d] > SHARED_LOCK
    BY <1>a, <1>b, <1>c DEF Shapes
  <2>2. \A d \in Conns : os'[ProcOf[d]]["reserved"] = os[ProcOf[d]]["reserved"]
    BY <1>a DEF Shapes
  <2>3. QED
    BY <2>1, <2>2 DEF Reserver
<1>f. QED
  BY <1>d, <1>e, MapsToStutter

\* To lock the range for reading again is Unlock where no byte protects more than
\* SHARED then, and else no step of FileLock.
LEMMA UnlockToSharedMaps ==
  ASSUME IInv, IInv', NEW c \in Conns, UnlockToShared(c)
  PROVE  [Promise!LockNext]_(Promise!lockVars)
<1> USE DEF Places, Steps
<1>a. /\ Shapes /\ ProcOf[c] \in Procs /\ ProcOf \in [Conns -> Procs]
      /\ os' = [os EXCEPT ![ProcOf[c]]["shared"] = "read"]
      /\ pc' = [pc EXCEPT ![c] = "bytes"] /\ eFileLock' = eFileLock
      /\ eFileLock[c] > SHARED_LOCK /\ pc[c] = "idle"
      /\ \A d \in Mates(c) : pc[d] = "idle"
  BY UnixLockAssumption DEF IInv, UnlockToShared, Enter, At, Mates
<1>b. /\ Effective(c) = eFileLock[c]
      /\ \A d \in Conns : d # c => Effective(d)' = Effective(d)
  BY <1>a, OthersKeep DEF Shapes, Effective
<1>c. Reserver' = Reserver
  BY <1>a DEF Reserver, Shapes
<1>1. CASE eFileLock[c] = EXCLUSIVE_LOCK /\ os[ProcOf[c]]["pending"] = "none"
  <2>1. Becomes(c, SHARED_LOCK)
    BY <1>a, <1>b, <1>1 DEF Shapes, Effective, Becomes
  <2>2. c \notin Reserver
    BY <1>1 DEF IInv, CoverInv, Reserver
  <2>3. Reserver' = Reserver \ {c}
    BY <1>c, <2>2
  <2>4. QED
    BY <1>a, <1>b, <2>1, <2>3, MapsToUnlock
<1>2. CASE ~(eFileLock[c] = EXCLUSIVE_LOCK /\ os[ProcOf[c]]["pending"] = "none")
  <2>1. Becomes(c, Effective(c))
    BY <1>a, <1>b, <1>2 DEF Shapes, Effective, Becomes
  <2>2. QED
    BY <1>c, <2>1, MapsToStutter
<1>3. QED
  BY <1>1, <1>2

\* To let go of the PENDING and reserved bytes is Unlock, or LeaveReserved.
LEMMA UnlockBytesMaps ==
  ASSUME IInv, IInv', NEW c \in Conns, UnlockBytes(c)
  PROVE  [Promise!LockNext]_(Promise!lockVars)
<1> USE DEF Places, Steps
<1>a. /\ Shapes /\ ProcOf[c] \in Procs /\ ProcOf \in [Conns -> Procs]
      /\ os' = [os EXCEPT ![ProcOf[c]]["pending"] = "none",
                          ![ProcOf[c]]["reserved"] = "none"]
      /\ pc[c] \in {"bytes", "bytesAll"} /\ eFileLock[c] > SHARED_LOCK
      /\ \A d \in Mates(c) : d # c => pc[d] = "idle"
  BY UnixLockAssumption DEF IInv, UnlockBytes, MutexInv, CallInv, Mates
<1>b. /\ os'[ProcOf[c]]["pending"] = "none" /\ os'[ProcOf[c]]["reserved"] = "none"
      /\ os'[ProcOf[c]]["shared"] = os[ProcOf[c]]["shared"]
      /\ \A p \in Procs : p # ProcOf[c] => os'[p] = os[p]
  BY <1>a DEF Shapes
<1>c. \A d \in Conns : d # c =>
        /\ eFileLock'[d] = eFileLock[d] /\ pc'[d] = pc[d]
        /\ ProcOf[d] = ProcOf[c] => eFileLock[d] <= SHARED_LOCK
  BY <1>a DEF Shapes, UnlockBytes, At, IInv, SoleInv
<1>d. \A d \in Conns : d # c => Effective(d)' = Effective(d)
  BY <1>a, <1>b, <1>c, OthersKeep
<1>e. Reserver' = Reserver \ {c}
  <2>1. c \notin Reserver'
    BY <1>b DEF Reserver
  <2>2. ASSUME NEW d \in Conns, d # c
        PROVE  d \in Reserver' <=> d \in Reserver
    <3>1. CASE ProcOf[d] = ProcOf[c]
      <4>1. ~(eFileLock[d] > SHARED_LOCK) /\ eFileLock'[d] = eFileLock[d]
        BY SMTT(30), <1>a, <1>c, <2>2, <3>1 DEF Shapes
      <4>2. QED
        BY <4>1 DEF Reserver
    <3>2. CASE ProcOf[d] # ProcOf[c]
      BY <1>a, <1>b, <1>c, <2>2, <3>2 DEF Reserver
    <3>3. QED
      BY <3>1, <3>2
  <2>3. QED
    BY <2>1, <2>2 DEF Reserver
<1>1. CASE pc[c] = "bytes"
  <2>1. pc'[c] = "idle" /\ eFileLock'[c] = SHARED_LOCK
    BY <1>a, <1>1 DEF UnlockBytes, At, Shapes
  <2>2. Becomes(c, SHARED_LOCK)
    BY <1>d, <2>1 DEF Becomes, Effective
  <2>3. CASE eFileLock[c] = EXCLUSIVE_LOCK /\ os[ProcOf[c]]["pending"] = "none"
    <3>1. Effective(c) = SHARED_LOCK
      BY <1>1, <2>3 DEF Effective
    <3>2. c \notin Reserver
      BY <2>3 DEF IInv, CoverInv, Reserver
    <3>3. QED
      BY <1>e, <2>2, <3>1, <3>2, MapsToStutter
  <2>4. CASE ~(eFileLock[c] = EXCLUSIVE_LOCK /\ os[ProcOf[c]]["pending"] = "none")
    <3>1. Effective(c) = eFileLock[c]
      BY <1>1, <2>4 DEF Effective
    <3>2. QED
      BY <1>a, <1>e, <2>2, <3>1, MapsToUnlock
  <2>5. QED
    BY <2>3, <2>4
<1>2. CASE pc[c] = "bytesAll"
  <2>1. pc'[c] = "all" /\ eFileLock'[c] = eFileLock[c] /\ Effective(c) = eFileLock[c]
    BY <1>a, <1>2 DEF UnlockBytes, At, Shapes, Effective
  <2>2. CASE eFileLock[c] = EXCLUSIVE_LOCK
    <3>1. os[ProcOf[c]]["shared"] = "write"
      BY <1>2, <2>2 DEF IInv, CoverInv
    <3>2. Becomes(c, EXCLUSIVE_LOCK)
      BY <1>b, <1>d, <2>1, <2>2, <3>1 DEF Becomes, Effective
    <3>3. QED
      BY <1>e, <2>1, <2>2, <3>2, MapsToLeaveReserved
  <2>3. CASE eFileLock[c] # EXCLUSIVE_LOCK
    <3>1. eFileLock[c] \in {RESERVED_LOCK, PENDING_LOCK}
      BY <1>a, <2>3 DEF Shapes
    <3>2. Becomes(c, SHARED_LOCK)
      BY <1>b, <1>d, <2>1, <3>1, AboveShared DEF Becomes, Effective
    <3>3. QED
      BY <1>a, <1>e, <2>1, <3>2, MapsToUnlock
  <2>4. QED
    BY <2>2, <2>3
<1>3. QED
  BY <1>a, <1>1, <1>2

\* The beginning of posixUnlock() is no step of FileLock.
LEMMA UnlockFromMoreMaps ==
  ASSUME IInv, IInv', NEW c \in Conns, UnlockFromMore(c)
  PROVE  [Promise!LockNext]_(Promise!lockVars)
<1> USE DEF Places, Steps
<1>a. /\ Shapes /\ ProcOf[c] \in Procs /\ ProcOf \in [Conns -> Procs]
      /\ pc' = [pc EXCEPT ![c] = "bytesAll"] /\ os' = os /\ eFileLock' = eFileLock
      /\ \A d \in Mates(c) : pc[d] = "idle"
  BY UnixLockAssumption DEF IInv, UnlockFromMore, Enter, At
<1>b. Becomes(c, Effective(c))
  BY <1>a, OthersKeep DEF Shapes, Effective, Becomes, Mates
<1>c. Reserver' = Reserver
  BY <1>a DEF Reserver
<1>d. QED
  BY <1>b, <1>c, MapsToStutter

\* The unlock of the last connection of a process is Unlock.
LEMMA UnlockAllMaps ==
  ASSUME IInv, IInv', NEW c \in Conns, UnlockAll(c)
  PROVE  [Promise!LockNext]_(Promise!lockVars)
<1> USE DEF Places, Steps
<1>a. /\ Shapes /\ ProcOf[c] \in Procs /\ ProcOf \in [Conns -> Procs]
      /\ pc' = [pc EXCEPT ![c] = "idle"]
      /\ eFileLock' = [eFileLock EXCEPT ![c] = NO_LOCK]
      /\ eFileLock[c] # NO_LOCK /\ pc[c] \in {"idle", "all"}
      /\ \A d \in Mates(c) : d # c => pc[d] = "idle"
  BY UnixLockAssumption
  DEF IInv, UnlockAll, Enter, At, MutexInv, CallInv, Mates
<1>b. Effective(c) > NO_LOCK
  BY <1>a DEF Effective, Shapes
<1>c. \A p \in Procs : p # ProcOf[c] => os'[p] = os[p]
  BY <1>a DEF UnlockAll, Shapes
<1>d. Becomes(c, NO_LOCK)
  BY <1>a, <1>c, OthersKeep DEF Shapes, Effective, Becomes
<1>e. Reserver' = Reserver \ {c}
  <2>1. CASE inode[ProcOf[c]].nShared = 1
    <3>1. \A d \in Conns : ProcOf[d] = ProcOf[c] /\ d # c => eFileLock[d] = NO_LOCK
      BY <1>a, <2>1, OnlyHolder DEF IInv, Counts
    <3>2. QED
      BY <1>a, <1>c, <3>1 DEF Reserver, Shapes
  <2>2. CASE inode[ProcOf[c]].nShared # 1
    BY <1>a, <2>2 DEF UnlockAll, Reserver, Shapes
  <2>3. QED
    BY <2>1, <2>2
<1>f. QED
  BY <1>b, <1>d, <1>e, MapsToUnlock

\* unixClose() of a connection without a lock is no step of FileLock.
LEMMA CloseMaps ==
  ASSUME IInv, IInv', NEW c \in Conns, Close(c)
  PROVE  [Promise!LockNext]_(Promise!lockVars)
<1> USE DEF Places, Steps
<1>a. /\ Shapes /\ ProcOf[c] \in Procs /\ ProcOf \in [Conns -> Procs]
      /\ pc' = pc /\ eFileLock' = eFileLock
      /\ \A d \in Mates(c) : pc[d] = "idle"
  BY UnixLockAssumption DEF IInv, Close, Enter
<1>b. \A p \in Procs : p # ProcOf[c] => os'[p] = os[p]
  BY <1>a DEF Close, Shapes
<1>c. Becomes(c, Effective(c))
  BY <1>a, <1>b, OthersKeep DEF Shapes, Effective, Becomes, Mates
<1>d. Reserver' = Reserver
  <2>1. CASE inode[ProcOf[c]].nLock > 0
    BY <1>a, <2>1 DEF Close, Reserver
  <2>2. CASE ~(inode[ProcOf[c]].nLock > 0)
    <3>1. Cardinality(Holders(ProcOf[c])) = 0
      BY <1>a, <2>2 DEF IInv, Counts, Shapes
    <3>2. Holders(ProcOf[c]) = {}
      BY <1>a, <3>1, HoldersFinite, FS_EmptySet
    <3>3. \A d \in Conns : ProcOf[d] = ProcOf[c] => eFileLock[d] = NO_LOCK
      BY <3>2 DEF Holders
    <3>4. QED
      BY <1>a, <1>b, <3>3 DEF Reserver
  <2>3. QED
    BY <2>1, <2>2
<1>e. QED
  BY <1>c, <1>d, MapsToStutter

\* The end of a process is Vanish of its connections.
LEMMA KillMaps ==
  ASSUME IInv, IInv', NEW p \in Procs, Kill(p)
  PROVE  [Promise!LockNext]_(Promise!lockVars)
<1> DEFINE its == {c \in Conns : ProcOf[c] = p}
<1>a. /\ Shapes /\ ProcOf \in [Conns -> Procs]
      /\ os' = [os EXCEPT ![p] = Free]
  BY UnixLockAssumption DEF IInv, Kill
<1>b. \A q \in Procs : q # p => os'[q] = os[q]
  BY <1>a DEF Shapes
<1>1. ASSUME NEW c \in its
      PROVE  Effective(c)' = NO_LOCK /\ eFileLock'[c] = NO_LOCK
  BY DEF Kill, Effective
<1>2. ASSUME NEW c \in Conns, c \notin its
      PROVE  /\ Effective(c)' = Effective(c)
             /\ eFileLock'[c] = eFileLock[c] /\ os'[ProcOf[c]] = os[ProcOf[c]]
  <2>1. /\ eFileLock'[c] = eFileLock[c] /\ pc'[c] = pc[c]
        /\ os'[ProcOf[c]] = os[ProcOf[c]]
    BY <1>a, <1>b, <1>2 DEF Kill
  <2>2. QED
    BY <2>1 DEF Effective
<1>3. [d \in Conns |-> Effective(d)]'
        = [d \in Conns |-> IF d \in its THEN NO_LOCK
                           ELSE [e \in Conns |-> Effective(e)][d]]
  BY <1>1, <1>2
<1>4. Reserver' = Reserver \ its
  BY <1>1, <1>2 DEF Reserver
<1>5. Promise!Vanish(its)
  BY <1>3, <1>4 DEF Promise!Vanish, Reserver, Promise!NO_LOCK
<1>6. QED
  BY <1>5 DEF Promise!LockNext

\* A step that changes nothing maps to one that changes nothing.
LEMMA StutterMaps ==
  ASSUME UNCHANGED <<os, eFileLock, pc>>
  PROVE  UNCHANGED Promise!lockVars
BY DEF Promise!lockVars, Effective

\* The calls of unixLock() and posixUnlock() keep what the five locks
\* promise, for any number of connections in any number of processes: each
\* step is a step of FileLock or changes none of the locks that others see.
THEOREM ImplementsFileLock == Spec => Refinement
<1>1. Init => Promise!LockInit
  <2> SUFFICES ASSUME Init
               PROVE  Promise!LockInit
    OBVIOUS
  <2>1. \A c \in Conns : Effective(c) = NO_LOCK /\ ~(eFileLock[c] > SHARED_LOCK)
    BY DEF Init, Effective
  <2>2. QED
    BY <2>1 DEF Promise!LockInit, Promise!NO_LOCK
<1>2. IInv /\ IInv' /\ [Next]_vars => [Promise!LockNext]_(Promise!lockVars)
  <2> SUFFICES ASSUME IInv, IInv', [Next]_vars
               PROVE  [Promise!LockNext]_(Promise!lockVars)
    OBVIOUS
  <2>1. ASSUME NEW c \in Conns, Continue(c)
        PROVE  [Promise!LockNext]_(Promise!lockVars)
    BY <2>1, LockSharedRangeMaps, LockSharedDoneMaps, LockExclusiveMaps,
       UnlockBytesMaps, UnlockAllMaps DEF Continue
  <2>2. ASSUME NEW c \in Conns, Call(c)
        PROVE  [Promise!LockNext]_(Promise!lockVars)
    <3>1. Open(c) => UNCHANGED <<os, eFileLock, pc>>
      BY DEF Open
    <3>2. QED
      BY <2>2, <3>1, LockSharedAgainMaps, LockSharedPendingMaps,
         LockReservedMaps, LockPendingMaps, LockExclusiveMaps,
         UnlockToSharedMaps, UnlockFromMoreMaps, UnlockAllMaps, CloseMaps,
         StutterMaps DEF Call
  <2>3. ASSUME NEW p \in Procs, Kill(p)
        PROVE  [Promise!LockNext]_(Promise!lockVars)
    BY <2>3, KillMaps
  <2>4. UNCHANGED vars => UNCHANGED <<os, eFileLock, pc>>
    BY DEF vars
  <2>5. QED
    BY <2>1, <2>2, <2>3, <2>4, StutterMaps DEF Next
<1>3. QED
  BY <1>1, <1>2, Invariance, PTL DEF Spec, Refinement, Promise!LockSpec

\* A connection with EXCLUSIVE is alone with the file, and one connection has
\* more than SHARED, in whichever processes the others are.
THEOREM ConnectionsExclude == Spec => []Promise!Exclusion
<1>1. ASSUME IInv, NEW c \in Conns, NEW d \in Conns, c # d
      PROVE  /\ Effective(c) = EXCLUSIVE_LOCK => Effective(d) = NO_LOCK
             /\ Effective(c) > SHARED_LOCK => Effective(d) <= SHARED_LOCK
  <2>1. /\ ProcOf[c] \in Procs /\ ProcOf[d] \in Procs
        /\ Effective(c) \in NO_LOCK..EXCLUSIVE_LOCK
        /\ Effective(d) \in NO_LOCK..EXCLUSIVE_LOCK
        /\ eFileLock[d] \in NO_LOCK..EXCLUSIVE_LOCK
    BY <1>1, UnixLockAssumption, EffectiveLevels DEF IInv, Shapes
  <2>2. CASE ProcOf[c] = ProcOf[d]
    <3>1. /\ Effective(c) = EXCLUSIVE_LOCK => eFileLock[d] = NO_LOCK
          /\ Effective(c) > SHARED_LOCK => eFileLock[d] <= SHARED_LOCK
      BY <1>1, <2>2, EffectiveLevels DEF IInv, SoleInv
    <3>3. pc[d] # "idle" => pc[c] = "idle" /\ Effective(c) = eFileLock[c]
      BY <1>1, <2>2, EffectiveLevels DEF IInv, MutexInv
    <3>4. pc[d] = "drop" => Effective(c) = NO_LOCK
      BY <1>1, <2>2, <3>3, MatesBelow DEF IInv, CallInv
    <3>5. pc[d] # "drop" => Effective(d) = eFileLock[d] \/ eFileLock[d] > SHARED_LOCK
      BY <1>1 DEF Effective, IInv, CallInv
    <3>6. QED
      BY <2>1, <3>1, <3>4, <3>5
  <2>3. CASE ProcOf[c] # ProcOf[d]
    <3>1. /\ Effective(c) = EXCLUSIVE_LOCK => Effective(d) = NO_LOCK
          /\ Effective(d) = EXCLUSIVE_LOCK => Effective(c) = NO_LOCK
      BY <1>1, <2>1, <2>3, ExclusiveEmpty, EffectiveLevels
    <3>2. ~(/\ Effective(c) \in {RESERVED_LOCK, PENDING_LOCK}
            /\ Effective(d) \in {RESERVED_LOCK, PENDING_LOCK})
      BY <1>1, <2>1, <2>3, WriterCovered DEF IInv, SystemInv, Places
    <3>3. QED
      BY <2>1, <3>1, <3>2
  <2>4. QED
    BY <2>2, <2>3
<1>2. IInv => Promise!Exclusion
  BY <1>1 DEF Promise!Exclusion, Promise!Others, Promise!NO_LOCK,
     Promise!SHARED_LOCK, Promise!EXCLUSIVE_LOCK
<1>3. QED
  BY Invariance, <1>2, PTL

=============================================================================
