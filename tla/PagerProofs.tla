---------------------------- MODULE PagerProofs -----------------------------
(***************************************************************************)
(* For any number of connections, pages and journal slots, with I/O        *)
(* errors, killed processes and power losses: every pager holds the lock   *)
(* and the journal that its state calls for, a writer of the file is alone *)
(* with it, no page of the file is overwritten before the record that would *)
(* bring it back is on disk, and all that is read or written is of its type. *)
(***************************************************************************)
EXTENDS Pager, TLAPS, WellFoundedInduction
-----------------------------------------------------------------------------
\* The least and the greatest number of a set: Min and Max of FiniteSetsExt, with
\* which the model names the next inode, the next page to write, the end of a file.

\* A set of natural numbers that is not empty has a least member.  Cited
\* wherever an induction over numbers is needed: as the least number for
\* which something fails.
LEMMA MinOfNat ==
  ASSUME NEW S \in SUBSET Nat, S # {}
  PROVE  Min(S) \in S /\ \A y \in S : Min(S) <= y
<1> DEFINE R == {ss \in Nat \X Nat : ss[1] < ss[2]}
<1>1. IsWellFoundedOn(R, Nat)
  BY NatLessThanWellFounded, Zenon DEF OpToRel
<1> HIDE DEF R
<1>2. \E x \in S : \A y \in S : <<y, x>> \notin R
  BY <1>1, WFMin, Zenon
<1>3. ASSUME NEW x \in S, NEW y \in S, <<y, x>> \notin R
      PROVE  x <= y
  BY <1>3 DEF R
<1>4. \E x \in S : \A y \in S : x <= y
  BY <1>2, <1>3
<1>5. QED
  BY <1>4 DEF Min

\* A set of natural numbers up to n that is not empty has a greatest member.
LEMMA MaxOfUpTo ==
  ASSUME NEW n \in Nat, NEW S \in SUBSET (0..n), S # {}
  PROVE  Max(S) \in S /\ \A y \in S : y <= Max(S)
<1> DEFINE T == {n - s : s \in S}
<1>1. \A s \in S : s \in 0..n
  OBVIOUS
<1>2. T \in SUBSET Nat /\ T # {}
  BY <1>1
<1>3. Min(T) \in T /\ \A y \in T : Min(T) <= y
  BY <1>2, MinOfNat
<1>4. PICK x \in S : Min(T) = n - x
  BY <1>3
<1>5. \A y \in S : x >= y
  <2> TAKE y \in S
  <2>1. n - x <= n - y
    BY <1>3, <1>4
  <2>2. QED
    BY <2>1
<1>6. QED
  BY <1>5 DEF Max

\* What a power loss may make of a file, as a table of the first cells.
Extend(f, S, k) == {Append(s, x) : s \in S, x \in f[k].may}
Table(f, g, n) == g = [k \in 0..n |-> IF k = 0 THEN {<<>>} ELSE Extend(f, g[k - 1], k)]

\* There is such a table of every file: of a shortest one without it the next
\* shorter one has it.
LEMMA TableExists ==
  ASSUME NEW f, NEW n \in Nat
  PROVE  \E g : Table(f, g, n)
<1> DEFINE Fails == {k \in Nat : ~\E g : Table(f, g, k)}
<1> SUFFICES ASSUME Fails # {}
             PROVE  FALSE
  BY DEF Fails
<1>1. PICK m \in Fails : \A k \in Fails : m <= k
  <2>1. Fails \in SUBSET Nat
    OBVIOUS
  <2> HIDE DEF Fails
  <2>2. QED
    BY <2>1, MinOfNat
<1>2. Table(f, [k \in 0..0 |-> {<<>>}], 0)
  BY DEF Table
<1>3. m \in Nat \ {0}
  BY <1>2
<1>4. m - 1 \in Nat /\ m - 1 \notin Fails
  BY <1>1, <1>3
<1>5. PICK g : Table(f, g, m - 1)
  BY <1>4
<1> DEFINE h == [k \in 0..m |-> IF k = m THEN Extend(f, g[m - 1], m) ELSE g[k]]
<1>6. Table(f, h, m)
  <2>1. \A k \in 0..m - 1 : g[k] = IF k = 0 THEN {<<>>} ELSE Extend(f, g[k - 1], k)
    BY <1>5 DEF Table
  <2>2. h[m] = Extend(f, h[m - 1], m)
    BY <1>3
  <2>3. \A k \in 0..m - 1 : h[k] = IF k = 0 THEN {<<>>} ELSE Extend(f, h[k - 1], k)
    BY <2>1, <1>3
  <2>4. h = [k \in 0..m |-> h[k]]
    OBVIOUS
  <2> HIDE DEF h
  <2>5. \A k \in 0..m : h[k] = IF k = 0 THEN {<<>>} ELSE Extend(f, h[k - 1], k)
    BY <2>2, <2>3, <1>3
  <2>6. QED
    BY <2>4, <2>5 DEF Table
<1>7. QED
  BY <1>1, <1>6

\* Each cell of what survives was one of the contents of that cell.
LEMMA SurvivorsAre ==
  ASSUME NEW f, Len(f) \in Nat, NEW s \in Survivors(f)
  PROVE  Len(s) = Len(f) /\ \A i \in 1..Len(f) : s[i] \in f[i].may
<1> DEFINE V == UNION {f[i].may : i \in 1..Len(f)}
           Good(t, n) == t \in Seq(V) /\ Len(t) = n /\ \A i \in 1..n : t[i] \in f[i].may
           upTo == CHOOSE g : Table(f, g, Len(f))
           Fails == {n \in 0..Len(f) : \E t \in upTo[n] : ~Good(t, n)}
<1>1. Table(f, upTo, Len(f))
  BY TableExists
<1>2. Survivors(f) = upTo[Len(f)]
  BY DEF Survivors, Table, Extend
<1> HIDE DEF upTo
<1>3. Fails = {}
  <2> SUFFICES ASSUME Fails # {}
               PROVE  FALSE
    OBVIOUS
  <2>1. PICK m \in Fails : \A k \in Fails : m <= k
    <3>1. Fails \in SUBSET Nat
      OBVIOUS
    <3> HIDE DEF Fails
    <3>2. QED
      BY <3>1, MinOfNat
  <2>2. PICK t \in upTo[m] : ~Good(t, m)
    OBVIOUS
  <2>3. m # 0
    <3>1. upTo[0] = {<<>>}
      BY <1>1 DEF Table
    <3>2. Good(<<>>, 0)
      OBVIOUS
    <3>3. QED
      BY <2>2, <3>1, <3>2
  <2>4. m \in 1..Len(f) /\ m - 1 \in 0..Len(f) /\ m - 1 \notin Fails
    <3>1. m \in 0..Len(f)
      OBVIOUS
    <3> HIDE DEF Fails
    <3>2. QED
      BY <2>1, <2>3, <3>1
  <2>5. upTo[m] = Extend(f, upTo[m - 1], m)
    <3> HIDE DEF Fails, V
    <3>1. m \in 0..Len(f) /\ m # 0
      BY <2>4
    <3> HIDE DEF Good
    <3>2. \A k \in 0..Len(f) : upTo[k] = IF k = 0 THEN {<<>>} ELSE Extend(f, upTo[k - 1], k)
      BY <1>1 DEF Table
    <3>3. QED
      BY <3>1, <3>2
  <2>6. PICK u \in upTo[m - 1], x \in f[m].may : t = Append(u, x)
    BY <2>2, <2>5 DEF Extend
  <2>7. Good(u, m - 1)
    BY <2>4
  <2>8. x \in V
    BY <2>4
  <2> HIDE DEF V, Fails
  <2>9. Good(t, m)
    <3>1. u \in Seq(V) /\ Len(u) = m - 1 /\ m \in Nat
      BY <2>4, <2>7
    <3>2. t \in Seq(V) /\ Len(t) = m
      BY <2>6, <2>8, <3>1
    <3>3. t[m] = x /\ \A i \in 1..m - 1 : t[i] = u[i]
      BY <2>6, <2>8, <3>1
    <3>4. \A i \in 1..m : t[i] \in f[i].may
      BY <2>6, <2>7, <3>1, <3>3
    <3>5. QED
      BY <3>2, <3>4
  <2>10. QED
    BY <2>2, <2>9
<1>4. Len(f) \in 0..Len(f)
  OBVIOUS
<1>5. QED
  BY <1>2, <1>3, <1>4
-----------------------------------------------------------------------------

\* FileLock by itself, for any set of connections

\* Of one step: whatever changes the locks leaves them well formed.
LEMMA LockTypeStep ==
  ASSUME LockTypeOK, [LockNext]_lockVars
  PROVE  LockTypeOK'
<1> USE DEF LockTypeOK, Levels, NO_LOCK, SHARED_LOCK, RESERVED_LOCK,
            PENDING_LOCK, EXCLUSIVE_LOCK
<1>1. ASSUME NEW c \in Conns, LockShared(c)
      PROVE  LockTypeOK'
  BY <1>1 DEF LockShared
<1>2. ASSUME NEW c \in Conns, LockReserved(c)
      PROVE  LockTypeOK'
  BY <1>2 DEF LockReserved
<1>3. ASSUME NEW c \in Conns, LockPending(c)
      PROVE  LockTypeOK'
  BY <1>3 DEF LockPending
<1>4. ASSUME NEW c \in Conns, LockExclusive(c)
      PROVE  LockTypeOK'
  BY <1>4 DEF LockExclusive
<1>5. ASSUME NEW c \in Conns, LeaveReserved(c)
      PROVE  LockTypeOK'
  BY <1>5 DEF LeaveReserved
<1>6. ASSUME NEW c \in Conns, NEW level \in {NO_LOCK, SHARED_LOCK},
             Unlock(c, level)
      PROVE  LockTypeOK'
  BY <1>6 DEF Unlock
<1>7. ASSUME NEW gone \in SUBSET Conns, Vanish(gone)
      PROVE  LockTypeOK'
  BY <1>7 DEF Vanish
<1>8. CASE UNCHANGED lockVars
  BY <1>8 DEF lockVars
<1>9. QED
  BY <1>1, <1>2, <1>3, <1>4, <1>5, <1>6, <1>7, <1>8 DEF LockNext

\* Of one step: the rules by which a lock is given keep the writer alone.
LEMMA ExclusionStep ==
  ASSUME LockTypeOK, Exclusion, [LockNext]_lockVars
  PROVE  Exclusion'
<1> USE DEF LockTypeOK, Exclusion, Others, Levels, NO_LOCK, SHARED_LOCK,
            RESERVED_LOCK, PENDING_LOCK, EXCLUSIVE_LOCK
<1>1. ASSUME NEW c \in Conns, LockShared(c)
      PROVE  Exclusion'
  BY <1>1 DEF LockShared
<1>2. ASSUME NEW c \in Conns, LockReserved(c)
      PROVE  Exclusion'
  BY <1>2 DEF LockReserved
<1>3. ASSUME NEW c \in Conns, LockPending(c)
      PROVE  Exclusion'
  BY <1>3 DEF LockPending
<1>4. ASSUME NEW c \in Conns, LockExclusive(c)
      PROVE  Exclusion'
  BY <1>4 DEF LockExclusive
<1>5. ASSUME NEW c \in Conns, LeaveReserved(c)
      PROVE  Exclusion'
  BY <1>5 DEF LeaveReserved
<1>6. ASSUME NEW c \in Conns, NEW level \in {NO_LOCK, SHARED_LOCK},
             Unlock(c, level)
      PROVE  Exclusion'
  BY <1>6 DEF Unlock
<1>7. ASSUME NEW gone \in SUBSET Conns, Vanish(gone)
      PROVE  Exclusion'
  BY <1>7 DEF Vanish
<1>8. CASE UNCHANGED lockVars
  BY <1>8 DEF lockVars
<1>9. QED
  BY <1>1, <1>2, <1>3, <1>4, <1>5, <1>6, <1>7, <1>8 DEF LockNext

\* Every connection has one of the five locks, and only connections have the
\* reserved byte: the levels of os.h are all that unixLock() and posixUnlock()
\* leave behind.
THEOREM LockTypeCorrect == LockSpec => []LockTypeOK
<1>1. LockInit => LockTypeOK
  BY DEF LockInit, LockTypeOK, Levels, NO_LOCK, EXCLUSIVE_LOCK
<1>2. LockTypeOK /\ [LockNext]_lockVars => LockTypeOK'
  BY LockTypeStep
<1>3. QED
  BY <1>1, <1>2, PTL DEF LockSpec

\* A writer of the file is alone with it: what the pager relies on for
\* isolation, whatever the connections do and whichever of their processes
\* end.  The invariant is inductive as it stands.
THEOREM LocksExclude == LockSpec => []Exclusion
<1>1. LockInit => Exclusion
  BY DEF LockInit, Exclusion, Others, NO_LOCK, SHARED_LOCK, EXCLUSIVE_LOCK
<1>2. LockTypeOK /\ Exclusion /\ [LockNext]_lockVars => Exclusion'
  BY ExclusionStep
<1>3. QED
  BY <1>1, <1>2, LockTypeCorrect, PTL DEF LockSpec

-----------------------------------------------------------------------------
\* The invariant of the pagers

Fields ==
  {"eState", "pc", "cache", "vers", "dbSize", "nPage", "orig", "dirty",
   "needSync", "inJournal", "jfd", "off", "hdr", "header", "nRec", "nonce",
   "hot", "left", "commit", "spill"}

\* Where a call of a pager can be that plays a journal back or ends a
\* transaction; of a hot journal these calls run before there is a
\* transaction.
PlayPcs == {"play", "record", "playend", "final", "finsync", "end"}
CommitPcs == {"excl", "phase1", "jsync", "jhdr", "jsync2", "failed"}
ReadPcs == {"exists", "reserved", "empty", "first", "hot", "validate"}

\* The states of a pager and the places of its calls that go together, and
\* the lock it has there.
StateInv(g, l) ==
  \/ g.eState = "open" /\ g.pc = "idle" /\ l = NO_LOCK
  \/ g.eState = "open" /\ g.pc \in ReadPcs /\ l = SHARED_LOCK
  \/ g.eState = "open" /\ g.pc = "delete" /\ l = RESERVED_LOCK
  \/ g.eState = "open" /\ g.pc \in {"open", "hotsync", "dbsync"} \cup PlayPcs
       /\ l = EXCLUSIVE_LOCK
  \/ g.eState = "reader" /\ g.pc = "idle" /\ l = SHARED_LOCK
  \/ g.eState = "locked" /\ g.pc \in {"idle", "excl", "phase1", "final", "finsync", "end"}
       /\ l >= RESERVED_LOCK
  \/ g.eState = "cachemod" /\ g.pc \in {"idle"} \cup CommitPcs \cup PlayPcs
       /\ l >= RESERVED_LOCK
  \/ g.eState = "dbmod" /\ g.pc \in {"idle", "wdb", "dbsync"} \cup CommitPcs \cup PlayPcs
       /\ l = EXCLUSIVE_LOCK
  \/ g.eState = "finished" /\ g.pc \in {"final", "finsync", "end"}
       /\ l = EXCLUSIVE_LOCK
  \/ g.eState = "error" /\ g.pc = "idle" /\ l >= SHARED_LOCK

\* A commit goes on under EXCLUSIVE.
CommitInv(g, l) ==
  /\ g.commit \in BOOLEAN
  /\ g.pc \in {"phase1", "jsync", "jhdr", "jsync2"} => l = EXCLUSIVE_LOCK
  /\ g.commit => g.eState \in {"locked", "cachemod", "dbmod", "finished", "error"}
  /\ g.pc \in {"idle", "phase1"} /\ g.eState # "error" => g.spill = 0

\* A hot journal is played back before the transaction begins.
HotInv(g) ==
  /\ g.hot \in BOOLEAN
  /\ g.hot <=> g.eState = "open" /\ g.pc \in {"dbsync"} \cup PlayPcs

\* The journal is open while something may have to be taken from it.
JournalInv(g) ==
  /\ g.jfd \in 0..MaxInode
  /\ g.eState \in {"cachemod", "dbmod", "finished"} /\ g.pc # "end" => g.jfd # 0
  /\ g.pc \in {"hotsync", "finsync"} => g.jfd # 0
  /\ g.hot /\ g.pc # "end" => g.jfd # 0

\* Before the first change of a transaction nothing of it is there.
CleanInv(g) ==
  /\ g.eState \in {"open", "reader", "locked"} /\ ~g.hot =>
       /\ g.dirty = {} /\ g.needSync = {} /\ g.inJournal = {}
       /\ g.spill = 0 /\ g.off = 0
  /\ g.eState = "locked" => g.dbSize = g.orig

PagerInv(g, l) ==
  /\ g = [f \in Fields |-> g[f]]
  /\ StateInv(g, l) /\ CommitInv(g, l) /\ HotInv(g) /\ JournalInv(g) /\ CleanInv(g)

FilesInv ==
  /\ dirent = [cur |-> dirent.cur, may |-> dirent.may]
  /\ dirent.cur \in 0..MaxInode /\ dirent.may \subseteq 0..MaxInode
  /\ journal = [i \in Inodes |-> journal[i]]
  /\ \A i \in Inodes : journal[i] = [s \in Slots |-> journal[i][s]]

\* A transaction whose pages are being changed, and not yet undone.
Logging(g) ==
  /\ g.eState \in {"cachemod", "dbmod"}
  /\ g.pc \in {"idle", "excl", "phase1", "jsync", "jhdr", "jsync2", "wdb"}

\* The record of page p is in the segment that is being written.
InOpenSegment(g, cells, p) ==
  \E s \in g.hdr + 1..g.off : IsRecordOf(cells[s].cur, p, g.nonce)

LogInv(g, cells) ==
  /\ g.off \in 0..MaxSlot /\ g.hdr \in Nat \ {0} /\ g.nRec \in Nat
  /\ g.pc # "wdb" \/ g.spill # 0 => g.off = g.hdr + g.nRec
  /\ g.needSync \subseteq g.dirty /\ g.dirty \subseteq Pages
  /\ \A p \in g.dirty : p <= g.orig => p \in g.inJournal
  /\ \A p \in g.inJournal :
       \/ OnRecord(cells, g.hdr, p)
       \/ p \in g.needSync /\ InOpenSegment(g, cells, p)
  /\ g.spill # 0 => g.spill \in g.dirty
  /\ g.pc = "wdb" => IF g.spill = 0 THEN g.needSync = {} ELSE g.spill \notin g.needSync
  /\ g.pc = "jsync2" =>
       cells[g.hdr].cur = Header(TRUE, g.nRec, g.nonce, g.orig)

IInv ==
  /\ LockTypeOK /\ Exclusion
  /\ FilesInv
  /\ pager = [c \in Conns |-> pager[c]]
  /\ \A c \in Conns :
       /\ PagerInv(pager[c], lock[c])
       /\ Logging(pager[c]) => LogInv(pager[c], journal[pager[c].jfd])

\* Only a connection that has EXCLUSIVE, and so has the file to itself,
\* changes the database file; else the power failed.
FileIsWrittenAlone ==
  [][db' # db =>
       \/ \E c \in Conns :
            lock[c] = EXCLUSIVE_LOCK /\ \A d \in Others(c) : lock[d] = NO_LOCK
       \/ \A c \in Conns : lock'[c] = NO_LOCK]_vars

\* Rule (1) at the head of pager.c: a page that the file had when the
\* transaction began is overwritten only when its record is on disk, in a
\* segment of the journal whose header is on disk and counts it.
RecordFirst ==
  [][\A c \in Conns : \A p \in Pages :
       /\ pager[c].pc = "wdb" /\ lock'[c] # NO_LOCK
       /\ p <= pager[c].orig /\ db[p].cur # NoPage /\ db'[p] # db[p]
       => OnRecord(journal[pager[c].jfd], MaxSlot + 1, p)]_vars

-----------------------------------------------------------------------------
\* What a logging pager has no other connection has: RESERVED at least.
LEMMA LoggingHasReserved ==
  ASSUME NEW g, NEW l, PagerInv(g, l), Logging(g)
  PROVE  l >= RESERVED_LOCK
BY DEF PagerInv, StateInv, Logging, RESERVED_LOCK, EXCLUSIVE_LOCK

\* Of a step of one connection it is enough to look at its own pager: the
\* journal is changed only by a connection that keeps other writers away.
LEMMA OneMoves ==
  ASSUME IInv, NEW c \in Conns, NEW g,
         [LockNext]_lockVars, \A d \in Others(c) : lock'[d] = lock[d],
         Set(c, g), PagerInv(g, lock'[c]), FilesInv',
         journal' = journal \/ lock[c] >= RESERVED_LOCK,
         Logging(g) => LogInv(g, journal'[g.jfd])
  PROVE  IInv'
<1>1. LockTypeOK' /\ Exclusion'
  BY LockTypeStep, ExclusionStep DEF IInv
<1>2. /\ pager' = [d \in Conns |-> pager'[d]] /\ pager'[c] = g
      /\ \A d \in Others(c) : pager'[d] = pager[d]
  BY DEF IInv, Set, Others
<1>3. \A d \in Conns : PagerInv(pager'[d], lock'[d])
  BY <1>2 DEF IInv, Others
<1>4. ASSUME NEW d \in Conns, Logging(pager'[d])
      PROVE  LogInv(pager'[d], journal'[pager'[d].jfd])
  <2>1. CASE d = c
    BY <2>1, <1>2, <1>4
  <2>2. CASE d # c
    <3>1. d \in Others(c) /\ pager'[d] = pager[d]
      BY <2>2, <1>2 DEF Others
    <3>2. lock[d] >= RESERVED_LOCK
      BY <3>1, <1>4, LoggingHasReserved DEF IInv
    <3>3. lock[c] \in Levels /\ lock[d] \in Levels
      BY DEF IInv, LockTypeOK
    <3>4. ~(lock[c] >= RESERVED_LOCK)
      BY <3>1, <3>2, <3>3
         DEF IInv, Exclusion, Levels, NO_LOCK, SHARED_LOCK, RESERVED_LOCK, EXCLUSIVE_LOCK
    <3>5. QED
      BY <3>1, <3>4, <1>4 DEF IInv
  <2>3. QED
    BY <2>1, <2>2
<1>5. QED
  BY <1>1, <1>2, <1>3, <1>4 DEF IInv

\* The same where neither a lock nor a file of the journal changes.
LEMMA OnlyPagerMoves ==
  ASSUME IInv, NEW c \in Conns, NEW g, Set(c, g),
         UNCHANGED <<lock, reserver, journal, dirent>>,
         PagerInv(g, lock[c]),
         Logging(g) => LogInv(g, journal[g.jfd])
  PROVE  IInv'
<1>1. UNCHANGED lockVars /\ FilesInv'
  BY DEF lockVars, IInv, FilesInv
<1>2. QED
  BY <1>1, OneMoves

-----------------------------------------------------------------------------
\* What a step of FileLock gives a connection, and that it leaves the others
\* alone.
LEMMA LockGiven ==
  ASSUME LockTypeOK, NEW c \in Conns,
         NEW l, \/ LockShared(c) /\ l = SHARED_LOCK
                \/ LockReserved(c) /\ l = RESERVED_LOCK
                \/ LockPending(c) /\ l = PENDING_LOCK
                \/ LockExclusive(c) /\ l = EXCLUSIVE_LOCK
                \/ Unlock(c, l)
  PROVE  LockNext /\ lock'[c] = l /\ \A d \in Others(c) : lock'[d] = lock[d]
BY DEF LockTypeOK, LockNext, LockShared, LockReserved, LockPending, LockExclusive,
       Unlock, Others

USE DEF NO_LOCK, SHARED_LOCK, RESERVED_LOCK, PENDING_LOCK, EXCLUSIVE_LOCK

\* The bounds of the model are numbers that are not zero.
LEMMA Bounds == MaxPage \in Nat \ {0} /\ MaxSlot \in Nat \ {0} /\ MaxInode \in Nat \ {0}
BY PagerAssumption DEF PagerAssumption

-----------------------------------------------------------------------------
\* pager_unlock() leaves a pager that is open and has nothing.
LEMMA UnlockedIsOpen ==
  ASSUME NEW g, NEW l, PagerInv(g, l), NEW error
  PROVE  PagerInv(Unlocked(g, error), NO_LOCK) /\ ~Logging(Unlocked(g, error))
<1> DEFINE e == Ended(g)
<1>1. /\ e = [f \in Fields |-> e[f]]
      /\ e.dirty = {} /\ e.needSync = {} /\ e.inJournal = {} /\ e.spill = 0
      /\ e.off = 0 /\ e.hot = FALSE /\ e.commit = FALSE
  BY ZenonT(30) DEF PagerInv, Ended, Fields
<1>2. Unlocked(g, error) =
        [e EXCEPT !.eState = "open", !.pc = "idle", !.jfd = 0,
                  !.dbSize = 0, !.nPage = 0,
                  !.cache = IF error THEN NoCache ELSE @]
  BY DEF Unlocked
<1> DEFINE u == Unlocked(g, error)
<1> HIDE DEF e
<1>3. /\ u = [f \in Fields |-> u[f]]
      /\ u.eState = "open" /\ u.pc = "idle" /\ u.jfd = 0
      /\ u.dirty = {} /\ u.needSync = {} /\ u.inJournal = {} /\ u.spill = 0
      /\ u.off = 0 /\ u.hot = FALSE /\ u.commit = FALSE
  BY ZenonT(60), <1>1, <1>2 DEF Fields
<1> HIDE DEF u
<1>4. StateInv(u, NO_LOCK) /\ CommitInv(u, NO_LOCK) /\ ~Logging(u)
  BY <1>3 DEF StateInv, CommitInv, Logging
<1>5. HotInv(u) /\ CleanInv(u)
  BY <1>3 DEF HotInv, CleanInv, PlayPcs
<1>6. JournalInv(u)
  BY <1>3, Bounds DEF JournalInv
<1>7. QED
  BY <1>3, <1>4, <1>5, <1>6 DEF u, PagerInv

\* To read a page changes the cache, and the version that the cache is of.
LEMMA LoadedIs ==
  ASSUME NEW g, g = [f \in Fields |-> g[f]], NEW p
  PROVE  /\ Loaded(g, p) = [f \in Fields |-> Loaded(g, p)[f]]
         /\ \A f \in Fields \ {"cache", "vers"} : Loaded(g, p)[f] = g[f]
BY DEF Loaded, Fields

\* sqlite3PagerGet() of a page leaves a pager what it was otherwise.
LEMMA LoadedKeeps ==
  ASSUME NEW g, NEW l, PagerInv(g, l), NEW p
  PROVE  /\ PagerInv(Loaded(g, p), l)
         /\ Loaded(g, p).eState = g.eState /\ Loaded(g, p).pc = g.pc
<1> DEFINE h == Loaded(g, p)
<1>1. h = [f \in Fields |-> h[f]] /\ \A f \in Fields \ {"cache", "vers"} : h[f] = g[f]
  BY LoadedIs DEF PagerInv
<1>2. /\ h.eState = g.eState /\ h.pc = g.pc /\ h.hot = g.hot /\ h.commit = g.commit
      /\ h.spill = g.spill /\ h.jfd = g.jfd /\ h.dirty = g.dirty /\ h.off = g.off
      /\ h.needSync = g.needSync /\ h.inJournal = g.inJournal /\ h.orig = g.orig
      /\ h.dbSize = g.dbSize
  BY <1>1 DEF Fields
<1> HIDE DEF h
<1>3. PagerInv(h, l)
  BY <1>1, <1>2 DEF PagerInv, StateInv, CommitInv, HotInv, JournalInv, CleanInv
<1>4. QED
  BY <1>2, <1>3 DEF h

-----------------------------------------------------------------------------
\* sqlite3PagerSharedLock()

\* SHARED is taken, and a hot journal looked for.
LEMMA SharedLockStep ==
  ASSUME IInv, NEW c \in Conns, SharedLock(c)
  PROVE  IInv'
<1> DEFINE g == [pager[c] EXCEPT !.pc = "exists"]
<1>1. LockShared(c) /\ Set(c, g) /\ UNCHANGED <<mode, files, counts>>
  BY DEF SharedLock, Goto
<1>2. PagerInv(pager[c], lock[c]) /\ LockTypeOK
  BY DEF IInv
<1>3. LockNext /\ lock'[c] = SHARED_LOCK /\ \A d \in Others(c) : lock'[d] = lock[d]
  BY <1>1, <1>2, LockGiven
<1>4. PagerInv(g, SHARED_LOCK) /\ ~Logging(g)
  BY <1>2 DEF SharedLock, Logging, PagerInv, StateInv, CommitInv, HotInv, JournalInv,
     CleanInv, Fields, ReadPcs, PlayPcs, CommitPcs
<1>5. FilesInv' /\ journal' = journal
  BY <1>1 DEF files, IInv, FilesInv
<1>6. QED
  BY <1>1, <1>3, <1>4, <1>5, OneMoves

\* hasHotJournal(): whether there is a journal.
LEMMA JournalExistsStep ==
  ASSUME IInv, NEW c \in Conns, JournalExists(c)
  PROVE  IInv'
<1> DEFINE g == [pager[c] EXCEPT !.pc = IF dirent.cur = 0 THEN "validate" ELSE "reserved"]
<1>1. Set(c, g) /\ UNCHANGED <<lock, reserver, journal, dirent>>
  BY DEF JournalExists, Goto, files
<1>2. PagerInv(pager[c], lock[c])
  BY DEF IInv
<1>3. PagerInv(g, lock[c]) /\ ~Logging(g)
  BY <1>2 DEF JournalExists, Logging, PagerInv, StateInv, CommitInv, HotInv, JournalInv,
     CleanInv, Fields, ReadPcs, PlayPcs, CommitPcs
<1>4. QED
  BY <1>1, <1>3, OnlyPagerMoves

\* hasHotJournal(): whether its transaction is still running.
LEMMA CheckReservedStep ==
  ASSUME IInv, NEW c \in Conns, CheckReserved(c)
  PROVE  IInv'
<1> DEFINE g == [pager[c] EXCEPT !.pc = IF ReservedSeen(c) THEN "validate"
                                   ELSE IF DbSize = 0 THEN "empty" ELSE "first"]
<1>1. Set(c, g) /\ UNCHANGED <<lock, reserver, journal, dirent>>
  BY DEF CheckReserved, Goto, files
<1>2. PagerInv(pager[c], lock[c])
  BY DEF IInv
<1>3. PagerInv(g, lock[c]) /\ ~Logging(g)
  BY <1>2 DEF CheckReserved, Logging, PagerInv, StateInv, CommitInv, HotInv, JournalInv,
     CleanInv, Fields, ReadPcs, PlayPcs, CommitPcs
<1>4. QED
  BY <1>1, <1>3, OnlyPagerMoves

\* hasHotJournal(): the journal of a database without pages is deleted under
\* RESERVED, if that is to be had.
LEMMA EmptyReserveStep ==
  ASSUME IInv, NEW c \in Conns, EmptyReserve(c)
  PROVE  IInv'
<1>1. PagerInv(pager[c], lock[c]) /\ LockTypeOK
  BY DEF IInv
<1>2. FilesInv' /\ UNCHANGED <<journal, dirent>>
  BY DEF EmptyReserve, files, IInv, FilesInv
<1>3. CASE LockReserved(c) /\ Goto(c, "delete")
  <2> DEFINE g == [pager[c] EXCEPT !.pc = "delete"]
  <2>1. PagerInv(g, RESERVED_LOCK) /\ ~Logging(g)
    BY <1>1 DEF EmptyReserve, Logging, PagerInv, StateInv, CommitInv, HotInv, JournalInv,
     CleanInv, Fields, ReadPcs, PlayPcs, CommitPcs
  <2>2. LockNext /\ lock'[c] = RESERVED_LOCK /\ \A d \in Others(c) : lock'[d] = lock[d]
    BY <1>1, <1>3, LockGiven
  <2>3. QED
    BY <1>2, <1>3, <2>1, <2>2, OneMoves DEF Goto
<1>4. CASE Goto(c, "validate") /\ UNCHANGED <<lock, reserver>>
  <2> DEFINE g == [pager[c] EXCEPT !.pc = "validate"]
  <2>1. PagerInv(g, lock[c]) /\ ~Logging(g)
    BY <1>1 DEF EmptyReserve, Logging, PagerInv, StateInv, CommitInv, HotInv, JournalInv,
     CleanInv, Fields, ReadPcs, PlayPcs, CommitPcs
  <2>2. QED
    BY <1>2, <1>4, <2>1, OnlyPagerMoves DEF Goto
<1>5. QED
  BY <1>3, <1>4 DEF EmptyReserve

\* The name goes; RESERVED is given back.
LEMMA EmptyDeleteStep ==
  ASSUME IInv, NEW c \in Conns, EmptyDelete(c)
  PROVE  IInv'
<1> DEFINE g == [pager[c] EXCEPT !.pc = "validate"]
<1>1. Unlock(c, SHARED_LOCK) /\ Set(c, g) /\ journal' = journal
  BY DEF EmptyDelete, Goto
<1>2. PagerInv(pager[c], lock[c]) /\ LockTypeOK /\ FilesInv
  BY DEF IInv
<1>3. LockNext /\ lock'[c] = SHARED_LOCK /\ \A d \in Others(c) : lock'[d] = lock[d]
  BY <1>1, <1>2, LockGiven
<1>4. PagerInv(g, SHARED_LOCK) /\ ~Logging(g)
  BY <1>2 DEF EmptyDelete, Logging, PagerInv, StateInv, CommitInv, HotInv, JournalInv,
     CleanInv, Fields, ReadPcs, PlayPcs, CommitPcs
<1>5. FilesInv'
  <2>1. dirent' = [cur |-> 0, may |-> MayBe(dirent.may \cup {0})]
    BY DEF EmptyDelete
  <2>2. MayBe(dirent.may \cup {0}) \subseteq 0..MaxInode
    BY <1>2, Bounds DEF FilesInv, MayBe
  <2>3. /\ dirent' = [cur |-> dirent'.cur, may |-> dirent'.may]
        /\ dirent'.cur \in 0..MaxInode /\ dirent'.may \subseteq 0..MaxInode
    BY <2>1, <2>2, Bounds
  <2>4. QED
    BY <1>1, <1>2, <2>3 DEF FilesInv
<1>6. QED
  BY <1>1, <1>3, <1>4, <1>5, OneMoves

\* hasHotJournal(): whether the journal begins with a header.
LEMMA FirstByteStep ==
  ASSUME IInv, NEW c \in Conns, FirstByte(c)
  PROVE  IInv'
<1> DEFINE g == [pager[c] EXCEPT !.pc = IF dirent.cur = 0 \/ IsMagic(JournalNow[1])
                                   THEN "hot" ELSE "validate"]
<1>1. Set(c, g) /\ UNCHANGED <<lock, reserver, journal, dirent>>
  BY DEF FirstByte, Goto, files
<1>2. PagerInv(pager[c], lock[c])
  BY DEF IInv
<1>3. PagerInv(g, lock[c]) /\ ~Logging(g)
  BY <1>2 DEF FirstByte, Logging, PagerInv, StateInv, CommitInv, HotInv, JournalInv,
     CleanInv, Fields, ReadPcs, PlayPcs, CommitPcs
<1>4. QED
  BY <1>1, <1>3, OnlyPagerMoves

\* EXCLUSIVE for the rollback of a hot journal, or nothing.
LEMMA HotLockStep ==
  ASSUME IInv, NEW c \in Conns, HotLock(c)
  PROVE  IInv'
<1>1. PagerInv(pager[c], lock[c]) /\ LockTypeOK
  BY DEF IInv
<1>2. FilesInv' /\ UNCHANGED <<journal, dirent>>
  BY DEF HotLock, files, IInv, FilesInv
<1>3. CASE LockExclusive(c) /\ Goto(c, "open")
  <2> DEFINE g == [pager[c] EXCEPT !.pc = "open"]
  <2>1. PagerInv(g, EXCLUSIVE_LOCK) /\ ~Logging(g)
    BY <1>1 DEF HotLock, Logging, PagerInv, StateInv, CommitInv, HotInv, JournalInv,
     CleanInv, Fields, ReadPcs, PlayPcs, CommitPcs
  <2>2. LockNext /\ lock'[c] = EXCLUSIVE_LOCK /\ \A d \in Others(c) : lock'[d] = lock[d]
    BY <1>1, <1>3, LockGiven
  <2>3. QED
    BY <1>2, <1>3, <2>1, <2>2, OneMoves DEF Goto
<1>4. CASE Unlock(c, NO_LOCK) /\ Set(c, Unlocked(pager[c], FALSE))
  <2>1. PagerInv(Unlocked(pager[c], FALSE), NO_LOCK) /\ ~Logging(Unlocked(pager[c], FALSE))
    BY <1>1, UnlockedIsOpen
  <2>2. LockNext /\ lock'[c] = NO_LOCK /\ \A d \in Others(c) : lock'[d] = lock[d]
    BY <1>1, <1>4, LockGiven
  <2>3. QED
    BY <1>2, <1>4, <2>1, <2>2, OneMoves
<1>5. QED
  BY <1>3, <1>4 DEF HotLock

\* The hot journal is opened, or is gone by now.
LEMMA HotOpenStep ==
  ASSUME IInv, NEW c \in Conns, HotOpen(c)
  PROVE  IInv'
<1>1. PagerInv(pager[c], lock[c]) /\ LockTypeOK /\ FilesInv
  BY DEF IInv
<1>2. FilesInv' /\ UNCHANGED <<journal, dirent>>
  BY <1>1 DEF HotOpen, files, FilesInv
<1>3. CASE dirent.cur = 0
  <2> DEFINE g == [pager[c] EXCEPT !.pc = "validate"]
  <2>1. PagerInv(g, SHARED_LOCK) /\ ~Logging(g)
    BY <1>1 DEF HotOpen, Logging, PagerInv, StateInv, CommitInv, HotInv, JournalInv,
     CleanInv, Fields, ReadPcs, PlayPcs, CommitPcs
  <2>2. Unlock(c, SHARED_LOCK) /\ Set(c, g)
    BY <1>3 DEF HotOpen, Goto
  <2>3. LockNext /\ lock'[c] = SHARED_LOCK /\ \A d \in Others(c) : lock'[d] = lock[d]
    BY <1>1, <2>2, LockGiven
  <2>4. QED
    BY <1>2, <2>1, <2>2, <2>3, OneMoves
<1>4. CASE dirent.cur # 0
  <2> DEFINE g == [pager[c] EXCEPT !.jfd = dirent.cur, !.pc = "hotsync"]
  <2>1. PagerInv(g, lock[c]) /\ ~Logging(g)
    BY <1>1, <1>4 DEF HotOpen, Logging, FilesInv, PagerInv, StateInv, CommitInv, HotInv, JournalInv,
     CleanInv, Fields, ReadPcs, PlayPcs, CommitPcs
  <2>2. Set(c, g) /\ UNCHANGED <<lock, reserver>>
    BY <1>4 DEF HotOpen
  <2>3. QED
    BY <1>2, <2>1, <2>2, OnlyPagerMoves
<1>5. QED
  BY <1>3, <1>4

\* From the sync of the hot journal on the pager is playing it back.
LEMMA HotSyncStep ==
  ASSUME IInv, NEW c \in Conns, HotSync(c)
  PROVE  IInv'
<1> DEFINE g == [pager[c] EXCEPT !.hdr = SlotsUsed(journal[pager[c].jfd]) + 1,
                                 !.hot = TRUE, !.off = 0, !.pc = "play"]
<1>1. PagerInv(pager[c], lock[c]) /\ LockTypeOK /\ FilesInv
  BY DEF IInv
<1>2. Set(c, g) /\ UNCHANGED lockVars /\ lock[c] = EXCLUSIVE_LOCK
  BY <1>1 DEF HotSync, lockVars, PagerInv, StateInv, CommitInv, HotInv, JournalInv,
     CleanInv, Fields, ReadPcs, PlayPcs, CommitPcs
<1>3. PagerInv(g, lock[c]) /\ ~Logging(g)
  BY <1>1 DEF HotSync, Logging, PagerInv, StateInv, CommitInv, HotInv, JournalInv,
     CleanInv, Fields, ReadPcs, PlayPcs, CommitPcs
<1>4. FilesInv'
  <2>1. journal' = [journal EXCEPT ![pager[c].jfd] = Sync(@)] /\ UNCHANGED dirent
    BY DEF HotSync
  <2>2. QED
    BY <1>1, <2>1 DEF FilesInv, Sync
<1>5. QED
  BY <1>2, <1>3, <1>4, OneMoves DEF lockVars

\* The cache is kept or thrown away, and the read-transaction begins.
LEMMA ValidateStep ==
  ASSUME IInv, NEW c \in Conns, Validate(c)
  PROVE  IInv'
<1> DEFINE stale == pager[c].vers # (IF DbSize = 0 THEN NoVersion ELSE Version(db[1].cur))
           h == [pager[c] EXCEPT !.cache = IF stale THEN NoCache ELSE @,
                                 !.dbSize = DbSize, !.eState = "reader", !.pc = "idle"]
           k == IF DbSize = 0 THEN h ELSE Loaded(h, 1)
           g == [k EXCEPT !.nPage = Version(k.cache[1]).nPage]
<1>1. Set(c, g) /\ UNCHANGED <<lock, reserver, journal, dirent>>
  BY DEF Validate, files
<1>2. PagerInv(pager[c], lock[c])
  BY DEF IInv
<1>3. PagerInv(h, lock[c]) /\ h.eState = "reader"
  BY ZenonT(30), <1>2 DEF Validate, PagerInv, StateInv, CommitInv, HotInv, JournalInv,
     CleanInv, Fields, ReadPcs, PlayPcs, CommitPcs
<1>4. PagerInv(k, lock[c]) /\ k.eState = "reader"
  <2> HIDE DEF h
  <2>1. QED
    BY <1>3, LoadedKeeps
<1>5. PagerInv(g, lock[c]) /\ ~Logging(g)
  <2> HIDE DEF k
  <2>1. QED
    BY <1>4 DEF Logging, PagerInv, StateInv, CommitInv, HotInv, JournalInv,
     CleanInv, Fields, ReadPcs, PlayPcs, CommitPcs
<1>6. QED
  BY <1>1, <1>5, OnlyPagerMoves

\* A page is read in a read-transaction.
LEMMA ReadStep ==
  ASSUME IInv, NEW c \in Conns, NEW p, Read(c, p)
  PROVE  IInv'
<1>1. Set(c, Loaded(pager[c], p)) /\ UNCHANGED <<lock, reserver, journal, dirent>>
  BY DEF Read, files
<1>2. PagerInv(pager[c], lock[c]) /\ pager[c].eState = "reader"
  BY DEF IInv, Read
<1>3. PagerInv(Loaded(pager[c], p), lock[c]) /\ ~Logging(Loaded(pager[c], p))
  BY <1>2, LoadedKeeps DEF Logging
<1>4. QED
  BY <1>1, <1>3, OnlyPagerMoves

\* pager_unlock() at the end of a read-transaction.
LEMMA EndReadStep ==
  ASSUME IInv, NEW c \in Conns, EndRead(c)
  PROVE  IInv'
<1>1. PagerInv(pager[c], lock[c]) /\ LockTypeOK
  BY DEF IInv
<1>2. Unlock(c, NO_LOCK) /\ Set(c, Unlocked(pager[c], FALSE))
  BY DEF EndRead
<1>3. PagerInv(Unlocked(pager[c], FALSE), NO_LOCK) /\ ~Logging(Unlocked(pager[c], FALSE))
  BY <1>1, UnlockedIsOpen
<1>4. LockNext /\ lock'[c] = NO_LOCK /\ \A d \in Others(c) : lock'[d] = lock[d]
  BY <1>1, <1>2, LockGiven
<1>5. FilesInv' /\ journal' = journal
  BY DEF EndRead, files, IInv, FilesInv
<1>6. QED
  BY <1>2, <1>3, <1>4, <1>5, OneMoves

-----------------------------------------------------------------------------
\* sqlite3PagerBegin() and sqlite3PagerWrite()

\* sqlite3PagerBegin() takes RESERVED; nothing is written yet.
LEMMA BeginWriteStep ==
  ASSUME IInv, NEW c \in Conns, BeginWrite(c)
  PROVE  IInv'
<1> DEFINE g == [pager[c] EXCEPT !.eState = "locked", !.orig = pager[c].dbSize]
<1>1. PagerInv(pager[c], lock[c]) /\ LockTypeOK
  BY DEF IInv
<1>2. LockReserved(c) /\ Set(c, g) /\ UNCHANGED <<journal, dirent>>
  BY DEF BeginWrite, files
<1>3. LockNext /\ lock'[c] = RESERVED_LOCK /\ \A d \in Others(c) : lock'[d] = lock[d]
  BY <1>1, <1>2, LockGiven
<1>4. PagerInv(g, RESERVED_LOCK) /\ ~Logging(g)
  <2> DEFINE k == pager[c]
  <2>1. k.eState = "reader" /\ k.pc = "idle" /\ PagerInv(k, lock[c])
    BY <1>1 DEF BeginWrite
  <2>2. /\ g = [f \in Fields |-> g[f]]
        /\ g.eState = "locked" /\ g.pc = "idle" /\ g.orig = k.dbSize /\ g.dbSize = k.dbSize
        /\ g.hot = k.hot /\ g.commit = k.commit /\ g.spill = k.spill /\ g.jfd = k.jfd
        /\ g.off = k.off /\ g.dirty = k.dirty /\ g.needSync = k.needSync
        /\ g.inJournal = k.inJournal
    BY <2>1 DEF PagerInv, Fields
  <2> HIDE DEF g, k
  <2>3. StateInv(g, RESERVED_LOCK) /\ CommitInv(g, RESERVED_LOCK) /\ ~Logging(g)
    BY <2>1, <2>2 DEF PagerInv, StateInv, CommitInv, Logging
  <2>4. HotInv(g) /\ JournalInv(g) /\ CleanInv(g)
    BY <2>1, <2>2 DEF PagerInv, HotInv, JournalInv, CleanInv
  <2>5. QED
    BY <2>2, <2>3, <2>4 DEF PagerInv
<1>5. FilesInv' /\ journal' = journal
  BY <1>2 DEF IInv, FilesInv
<1>6. QED
  BY <1>2, <1>3, <1>4, <1>5, OneMoves

\* What the pager and its journal are while pages are being changed.
Writes(o, l) ==
  /\ o = [pager |-> o.pager, cells |-> o.cells]
  /\ PagerInv(o.pager, l) /\ o.pager.eState \in {"cachemod", "dbmod"}
  /\ o.pager.pc \in {"idle", "phase1"}
  /\ o.cells = [s \in Slots |-> o.cells[s]]
  /\ LogInv(o.pager, o.cells)

\* pager_open_journal(): the log is empty, behind a header at slot 1.
LEMMA OpenedWrites ==
  ASSUME FilesInv, NEW g, NEW l, PagerInv(g, l), g.eState = "locked", g.pc = "idle",
         g.jfd = 0 /\ dirent.cur = 0 => FreeInodes # {}
  PROVE  /\ Writes(Opened(g), l) /\ Opened(g).pager.pc = "idle"
         /\ Opened(g).pager.off = 1
<1> DEFINE i == IF g.jfd # 0 THEN g.jfd
                ELSE IF dirent.cur # 0 THEN dirent.cur ELSE NewInode
           old == IF dirent.cur = 0 /\ g.jfd = 0 THEN NoJournal ELSE journal[i]
           nonce == NewNonce(old)
           h == [g EXCEPT !.eState = "cachemod", !.jfd = i, !.off = 1, !.hdr = 1,
                          !.header = TRUE, !.nRec = 0, !.nonce = nonce]
           cells == [old EXCEPT ![1] = Written(@, Header(FALSE, 0, nonce, g.orig))]
<1>1. Opened(g) = [pager |-> h, cells |-> cells]
  BY DEF Opened
<1>2. i \in Inodes
  <2>1. CASE g.jfd = 0 /\ dirent.cur = 0
    <3>1. FreeInodes \in SUBSET Nat /\ FreeInodes # {}
      BY <2>1, Bounds DEF FreeInodes, Inodes
    <3>2. NewInode \in FreeInodes
      BY <3>1, MinOfNat DEF NewInode
    <3>3. QED
      BY <2>1, <3>2 DEF FreeInodes
  <2>2. CASE ~(g.jfd = 0 /\ dirent.cur = 0)
    BY <2>2, Bounds DEF FilesInv, PagerInv, JournalInv, Inodes
  <2>3. QED
    BY <2>1, <2>2
<1>3. old = [s \in Slots |-> old[s]]
  BY <1>2 DEF FilesInv, NoJournal
<1> HIDE DEF i, old, nonce
<1>4. cells = [s \in Slots |-> cells[s]]
  BY <1>3
<1>5. /\ h = [f \in Fields |-> h[f]]
      /\ h.eState = "cachemod" /\ h.pc = "idle" /\ h.jfd = i /\ h.off = 1 /\ h.hdr = 1
      /\ h.nRec = 0 /\ h.spill = 0 /\ h.hot = FALSE /\ h.commit = g.commit
      /\ h.dirty = {} /\ h.needSync = {} /\ h.inJournal = {}
  BY ZenonT(30) DEF PagerInv, StateInv, CommitInv, HotInv, JournalInv,
     CleanInv, Fields, ReadPcs, PlayPcs, CommitPcs
<1> HIDE DEF h, cells
<1>6. PagerInv(h, l)
  <2>1. StateInv(h, l)
    BY <1>5 DEF PagerInv, StateInv
  <2>2. CommitInv(h, l)
    BY <1>5 DEF PagerInv, CommitInv
  <2>3. HotInv(h) /\ CleanInv(h)
    BY <1>5 DEF HotInv, CleanInv
  <2>4. JournalInv(h)
    BY <1>2, <1>5, Bounds DEF JournalInv, Inodes
  <2>5. QED
    BY <1>5, <2>1, <2>2, <2>3, <2>4 DEF PagerInv
<1>7. LogInv(h, cells)
  <2>1. h.off \in 0..MaxSlot /\ h.hdr \in Nat \ {0} /\ h.nRec \in Nat /\ h.off = h.hdr + h.nRec
    BY <1>5, Bounds
  <2>2. QED
    BY <1>5, <2>1 DEF LogInv
<1>8. QED
  BY <1>1, <1>4, <1>5, <1>6, <1>7 DEF Writes

\* Cells of the journal that a new record does not touch.
LEMMA RecordedStay ==
  ASSUME NEW cells, NEW new, NEW hdr \in Nat, NEW k \in Nat, NEW p,
         \A s \in Slots : s < hdr => new[s] = cells[s],
         OnRecord(cells, hdr, p), k >= hdr
  PROVE  OnRecord(new, k, p)
<1>1. PICK h \in 1..hdr - 1, s \in 1..hdr - 1 :
        /\ h < s
        /\ h \in Slots /\ cells[h] = Stable(cells[h].cur)
        /\ cells[h].cur.kind = "header" /\ cells[h].cur.magic
        /\ s <= h + cells[h].cur.nRec
        /\ s \in Slots /\ cells[s] = Stable(cells[s].cur)
        /\ IsRecordOf(cells[s].cur, p, cells[h].cur.nonce)
  BY DEF OnRecord
<1>2. new[h] = cells[h] /\ new[s] = cells[s] /\ h \in 1..k - 1 /\ s \in 1..k - 1
  BY <1>1
<1>3. QED
  BY <1>1, <1>2 DEF OnRecord

\* pager_write(): the page becomes dirty, and what it was is in the open segment
\* of the journal, to be synced first, unless it is on record already or new.
LEMMA JournalledWrites ==
  ASSUME NEW o, NEW l, Writes(o, l), NEW p \in Pages, o.pager.off + 1 <= MaxSlot
  PROVE  /\ Writes(Journalled(o, p), l)
         /\ Journalled(o, p).pager.pc = o.pager.pc
<1> DEFINE g == o.pager
           q == Journalled(o, p)
           h == [g EXCEPT !.dirty = @ \cup {p}, !.dbSize = Max({@, p})]
<1>1. /\ PagerInv(g, l) /\ g.eState \in {"cachemod", "dbmod"} /\ g.pc \in {"idle", "phase1"}
      /\ LogInv(g, o.cells) /\ o = [pager |-> g, cells |-> o.cells]
      /\ o.cells = [s \in Slots |-> o.cells[s]]
  BY DEF Writes
<1>2. /\ h = [f \in Fields |-> h[f]] /\ h.dirty = g.dirty \cup {p}
      /\ \A f \in Fields \ {"dirty", "dbSize"} : h[f] = g[f]
  BY <1>1 DEF PagerInv, Fields
<1> DEFINE m == q.pager
<1> HIDE DEF h, m, q
<1>3. /\ m = [f \in Fields |-> m[f]]
      /\ \A f \in Fields \ {"dirty", "dbSize", "off", "nRec", "needSync", "inJournal"} :
           m[f] = g[f]
      /\ m.dirty = g.dirty \cup {p}
      /\ q = [pager |-> m, cells |-> q.cells]
      /\ \/ /\ p \in g.inJournal \/ ~(p <= g.orig)
            /\ q.cells = o.cells
            /\ m.off = g.off /\ m.nRec = g.nRec /\ m.inJournal = g.inJournal
            /\ m.needSync \in {g.needSync, g.needSync \cup {p}}
         \/ /\ m.off = g.off + 1 /\ m.nRec = g.nRec + 1
            /\ m.inJournal = g.inJournal \cup {p} /\ m.needSync = g.needSync \cup {p}
            /\ q.cells = PutRecord(o.cells, g.off + 1, Record(p, Content(g, p), g.nonce))
  <2>1. CASE p \in g.inJournal
    <3>1. q = [pager |-> h, cells |-> o.cells]
      BY <1>1, <2>1 DEF Journalled, h, q
    <3>2. QED
      BY <1>2, <2>1, <3>1 DEF m, Fields
  <2>2. CASE p \notin g.inJournal /\ p <= g.orig
    <3> DEFINE k == [h EXCEPT !.off = @ + 1, !.nRec = @ + 1,
                              !.needSync = @ \cup {p}, !.inJournal = @ \cup {p}]
    <3>1. q = [pager |-> k,
               cells |-> PutRecord(o.cells, g.off + 1, Record(p, Content(g, p), g.nonce))]
      BY <2>2 DEF Journalled, h, q
    <3>2. /\ k = [f \in Fields |-> k[f]]
          /\ \A f \in Fields \ {"dirty", "dbSize", "off", "nRec", "needSync", "inJournal"} :
               k[f] = g[f]
          /\ k.dirty = g.dirty \cup {p} /\ k.off = g.off + 1 /\ k.nRec = g.nRec + 1
          /\ k.inJournal = g.inJournal \cup {p} /\ k.needSync = g.needSync \cup {p}
      BY <1>2 DEF Fields
    <3> HIDE DEF k
    <3>3. m = k
      BY <3>1 DEF m
    <3>4. QED
      BY <3>1, <3>2, <3>3
  <2>3. CASE p \notin g.inJournal /\ ~(p <= g.orig)
    <3> DEFINE k == [h EXCEPT !.needSync = IF g.eState # "dbmod" THEN @ \cup {p} ELSE @]
    <3>1. q = [pager |-> k, cells |-> o.cells]
      BY <1>1, <2>3 DEF Journalled, h, q
    <3>2. /\ k = [f \in Fields |-> k[f]]
          /\ \A f \in Fields \ {"dirty", "dbSize", "needSync"} : k[f] = g[f]
          /\ k.dirty = g.dirty \cup {p}
          /\ k.needSync \in {g.needSync, g.needSync \cup {p}}
      BY <1>2 DEF Fields
    <3> HIDE DEF k
    <3>3. m = k
      BY <3>1 DEF m
    <3>4. QED
      BY <2>3, <3>1, <3>2, <3>3 DEF Fields
  <2>4. QED
    BY <2>1, <2>2, <2>3
<1>4. /\ m.eState = g.eState /\ m.pc = g.pc /\ m.hot = g.hot /\ m.commit = g.commit
      /\ m.spill = g.spill /\ m.jfd = g.jfd /\ m.orig = g.orig /\ m.hdr = g.hdr
      /\ m.nonce = g.nonce
  BY <1>3 DEF Fields
<1>5. PagerInv(m, l)
  <2>1. StateInv(m, l) /\ HotInv(m)
    BY <1>1, <1>4 DEF PagerInv, StateInv, HotInv
  <2>2. CommitInv(m, l) /\ JournalInv(m)
    BY <1>1, <1>4 DEF PagerInv, CommitInv, JournalInv
  <2>3. CleanInv(m)
    BY <1>1, <1>4 DEF CleanInv
  <2>4. QED
    BY <1>3, <2>1, <2>2, <2>3 DEF PagerInv
<1>6. q.cells = [s \in Slots |-> q.cells[s]]
  BY <1>1, <1>3 DEF PutRecord
<1>7. g.off \in Nat /\ g.hdr \in Nat \ {0} /\ g.nRec \in Nat /\ g.off = g.hdr + g.nRec
  BY <1>1 DEF LogInv
<1>8. CASE /\ p \in g.inJournal \/ ~(p <= g.orig)
           /\ q.cells = o.cells
           /\ m.off = g.off /\ m.nRec = g.nRec /\ m.inJournal = g.inJournal
           /\ m.needSync \in {g.needSync, g.needSync \cup {p}}
  <2>1. LogInv(m, q.cells)
    BY <1>1, <1>3, <1>4, <1>8 DEF LogInv, InOpenSegment
  <2>2. QED
    BY <1>1, <1>3, <1>4, <1>5, <1>6, <2>1 DEF Writes, m, q
<1>9. CASE /\ m.off = g.off + 1 /\ m.nRec = g.nRec + 1
           /\ m.inJournal = g.inJournal \cup {p} /\ m.needSync = g.needSync \cup {p}
           /\ q.cells = PutRecord(o.cells, g.off + 1, Record(p, Content(g, p), g.nonce))
  <2>1. /\ g.off + 1 \in Slots
        /\ \A s \in Slots : s # g.off + 1 => q.cells[s] = o.cells[s]
        /\ q.cells[g.off + 1].cur = Record(p, Content(g, p), g.nonce)
    <3>1. g.off + 1 \in Slots
      BY <1>7, Bounds DEF Slots
    <3>2. QED
      BY <1>1, <1>9, <3>1 DEF PutRecord, WrittenPage
  <2>2. InOpenSegment(m, q.cells, p)
    BY SMTT(90), <1>4, <1>7, <1>9, <2>1 DEF InOpenSegment, IsRecordOf, Record
  <2>3. ASSUME NEW r, InOpenSegment(g, o.cells, r)
        PROVE  InOpenSegment(m, q.cells, r)
    <3>1. PICK s \in g.hdr + 1..g.off : IsRecordOf(o.cells[s].cur, r, g.nonce)
      BY <2>3 DEF InOpenSegment
    <3>2. s \in Slots /\ s # g.off + 1 /\ s \in m.hdr + 1..m.off
      BY <1>4, <1>7, <1>9, <2>1, Bounds DEF Slots
    <3>3. QED
      BY <1>4, <2>1, <3>1, <3>2 DEF InOpenSegment
  <2>4. ASSUME NEW r, OnRecord(o.cells, g.hdr, r)
        PROVE  OnRecord(q.cells, m.hdr, r)
    <3>1. \A s \in Slots : s < g.hdr => q.cells[s] = o.cells[s]
      BY <1>7, <2>1 DEF Slots
    <3>2. OnRecord(q.cells, g.hdr, r)
      BY SMTT(30), <1>7, <2>4, <3>1, RecordedStay
    <3>3. QED
      BY <1>4, <3>2
  <2>5. \A r \in m.inJournal :
          \/ OnRecord(q.cells, m.hdr, r)
          \/ r \in m.needSync /\ InOpenSegment(m, q.cells, r)
    BY <1>1, <1>9, <2>2, <2>3, <2>4 DEF LogInv
  <2>6. /\ m.off \in 0..MaxSlot /\ m.hdr \in Nat \ {0} /\ m.nRec \in Nat
        /\ m.off = m.hdr + m.nRec
    BY <1>4, <1>7, <1>9, Bounds
  <2>7. LogInv(m, q.cells)
    BY <1>1, <1>3, <1>4, <1>9, <2>5, <2>6 DEF LogInv
  <2>8. QED
    BY <1>1, <1>3, <1>4, <1>5, <1>6, <2>7 DEF Writes, m, q
<1>10. QED
  BY <1>3, <1>8, <1>9

\* LogInv looks at these fields only.
LEMMA SameLog ==
  ASSUME NEW g, NEW h, NEW cells, LogInv(g, cells),
         h.off = g.off, h.hdr = g.hdr, h.nRec = g.nRec, h.nonce = g.nonce,
         h.dirty = g.dirty, h.needSync = g.needSync, h.inJournal = g.inJournal,
         h.orig = g.orig,
         h.spill # 0 => h.spill \in g.dirty,
         g.pc # "wdb" \/ g.spill # 0,
         h.pc = "wdb" => h.spill # 0 /\ h.spill \notin g.needSync,
         h.pc # "jsync2"
  PROVE  LogInv(h, cells)
BY DEF LogInv, InOpenSegment

\* The pager and its journal after a page was changed.
LEMMA StoreStep ==
  ASSUME IInv, NEW c \in Conns, NEW o, Store(c, o), UNCHANGED <<lock, reserver>>,
         lock[c] >= RESERVED_LOCK, PagerInv(o.pager, lock[c]),
         o.pager.eState \in {"cachemod", "dbmod"}, o.pager.pc # "end",
         o.cells = [s \in Slots |-> o.cells[s]], LogInv(o.pager, o.cells)
  PROVE  IInv'
<1> DEFINE i == o.pager.jfd
<1>1. i \in Inodes
  BY Bounds DEF PagerInv, JournalInv, Inodes
<1>2. /\ Set(c, o.pager) /\ journal' = [journal EXCEPT ![i] = o.cells]
      /\ dirent' = IF dirent.cur # 0 \/ pager[c].jfd # 0 THEN dirent
                   ELSE [cur |-> i, may |-> dirent.may \cup {i}]
  BY DEF Store
<1>3. FilesInv
  BY DEF IInv
<1> HIDE DEF i
<1>4. journal' = [k \in Inodes |-> journal'[k]] /\ journal'[i] = o.cells
      /\ \A k \in Inodes : journal'[k] = [s \in Slots |-> journal'[k][s]]
  BY <1>1, <1>2, <1>3 DEF FilesInv
<1>5. /\ dirent' = [cur |-> dirent'.cur, may |-> dirent'.may]
      /\ dirent'.cur \in 0..MaxInode /\ dirent'.may \subseteq 0..MaxInode
  <2>1. CASE dirent' = dirent
    BY <1>3, <2>1 DEF FilesInv
  <2>2. CASE dirent' = [cur |-> i, may |-> dirent.may \cup {i}]
    <3>1. i \in 0..MaxInode
      BY <1>1, Bounds DEF Inodes
    <3>2. QED
      BY <1>3, <2>2, <3>1 DEF FilesInv
  <2>3. QED
    BY <1>2, <2>1, <2>2
<1>6. FilesInv'
  BY <1>4, <1>5 DEF FilesInv
<1>7. LogInv(o.pager, journal'[o.pager.jfd])
  BY <1>4 DEF i
<1>8. QED
  BY <1>2, <1>6, <1>7, OneMoves DEF lockVars

\* sqlite3PagerWrite() of a page keeps the log.
LEMMA WriteStep ==
  ASSUME IInv, NEW c \in Conns, NEW p \in Pages, NEW x, Write(c, p, x)
  PROVE  IInv'
<1> DEFINE l == lock[c]
           g == Loaded(pager[c], p)
           v == Writable(g)
           o == Journalled(v, p)
           w == [o EXCEPT !.pager = [@ EXCEPT !.cache[p] = x,
                                              !.nPage = Max({pager[c].nPage, p})]]
<1>1. /\ PagerInv(pager[c], l) /\ FilesInv /\ l \in Levels
      /\ Logging(pager[c]) => LogInv(pager[c], journal[pager[c].jfd])
  BY DEF IInv, LockTypeOK
<1>2. /\ pager[c].eState \in {"locked", "cachemod", "dbmod"} /\ pager[c].pc = "idle"
      /\ pager[c].eState = "locked" /\ pager[c].jfd = 0 /\ dirent.cur = 0 => FreeInodes # {}
      /\ pager[c].off + 2 <= MaxSlot
      /\ Store(c, w) /\ UNCHANGED <<lock, reserver>>
  BY DEF Write, InWrite
<1>3. /\ PagerInv(g, l) /\ g.eState = pager[c].eState /\ g.pc = "idle"
      /\ g = [f \in Fields |-> g[f]]
      /\ \A f \in Fields \ {"cache", "vers"} : g[f] = pager[c][f]
  BY <1>1, <1>2, LoadedKeeps, LoadedIs DEF PagerInv
<1>4. /\ g.jfd = pager[c].jfd /\ g.off = pager[c].off /\ g.hdr = pager[c].hdr
      /\ g.nRec = pager[c].nRec /\ g.nonce = pager[c].nonce /\ g.dirty = pager[c].dirty
      /\ g.needSync = pager[c].needSync /\ g.inJournal = pager[c].inJournal
      /\ g.orig = pager[c].orig /\ g.spill = pager[c].spill
  BY <1>3 DEF Fields
<1>5. l >= RESERVED_LOCK
  BY SMTT(60), <1>1, <1>2 DEF PagerInv, StateInv
<1> HIDE DEF l, g, v, o
<1>6. Writes(v, l) /\ v.pager.pc = "idle" /\ v.pager.off + 1 <= MaxSlot
  <2>1. CASE g.eState = "locked"
    <3>1. pager[c].off = 0
      BY <1>1, <1>3, <2>1 DEF PagerInv, CleanInv, HotInv
    <3>2. v = Opened(g)
      BY <2>1 DEF v, Writable
    <3>3. Writes(Opened(g), l) /\ Opened(g).pager.pc = "idle" /\ Opened(g).pager.off = 1
      BY <1>1, <1>2, <1>3, <1>4, <2>1, OpenedWrites
    <3>4. QED
      BY <1>2, <3>1, <3>2, <3>3
  <2>2. CASE g.eState # "locked"
    <3> DEFINE cells == journal[g.jfd]
    <3>1. v = [pager |-> g, cells |-> cells]
      BY <2>2 DEF v, Writable
    <3>2. Logging(pager[c]) /\ g.jfd \in Inodes
      BY <1>2, <1>3, <2>2, Bounds DEF Logging, PagerInv, JournalInv, Inodes
    <3>3. cells = [s \in Slots |-> cells[s]]
      BY <1>1, <3>2 DEF FilesInv
    <3>4. LogInv(pager[c], cells) /\ pager[c].spill = 0
      BY <1>1, <1>2, <1>4, <2>2, <3>2 DEF PagerInv, CommitInv
    <3>5. LogInv(g, cells)
      BY <1>2, <1>3, <1>4, <3>4, SameLog
    <3>6. g.off + 1 <= MaxSlot
      BY <1>2, <1>4, <3>4, Bounds DEF LogInv
    <3> HIDE DEF cells
    <3>7. QED
      BY <1>2, <1>3, <2>2, <3>1, <3>3, <3>5, <3>6 DEF Writes
  <2>3. QED
    BY <2>1, <2>2
<1>7. Writes(o, l) /\ o.pager.pc = "idle"
  BY <1>6, JournalledWrites DEF o
<1> DEFINE n == Max({pager[c].nPage, p})
           m == [o.pager EXCEPT !.cache[p] = x, !.nPage = n]
<1> HIDE DEF n
<1>8. w = [pager |-> m, cells |-> o.cells]
  BY <1>7 DEF Writes, n
<1>9. /\ m = [f \in Fields |-> m[f]]
      /\ \A f \in Fields \ {"cache", "nPage"} : m[f] = o.pager[f]
  BY <1>7 DEF Writes, PagerInv, Fields
<1> HIDE DEF w, m
<1>10. /\ m.eState = o.pager.eState /\ m.pc = o.pager.pc /\ m.hot = o.pager.hot
       /\ m.commit = o.pager.commit /\ m.spill = o.pager.spill /\ m.jfd = o.pager.jfd
       /\ m.orig = o.pager.orig /\ m.hdr = o.pager.hdr /\ m.nonce = o.pager.nonce
       /\ m.off = o.pager.off /\ m.nRec = o.pager.nRec /\ m.dirty = o.pager.dirty
       /\ m.needSync = o.pager.needSync /\ m.inJournal = o.pager.inJournal
       /\ m.dbSize = o.pager.dbSize
  BY <1>9 DEF Fields
<1>11. PagerInv(m, l)
  BY <1>7, <1>9, <1>10 DEF Writes, PagerInv, StateInv, CommitInv, HotInv, JournalInv, CleanInv
<1>12. LogInv(m, o.cells)
  BY <1>7, <1>10, SameLog DEF Writes, PagerInv, CommitInv
<1>13. QED
  BY <1>2, <1>5, <1>7, <1>8, <1>10, <1>11, <1>12, StoreStep DEF l, Writes

\* The first phase of a commit changes page 1, through the same log.
LEMMA CommitStep ==
  ASSUME IInv, NEW c \in Conns, NEW n, Commit(c, n)
  PROVE  IInv'
<1> DEFINE l == lock[c]
           g == Loaded(pager[c], 1)
           v == Writable(g)
           o == Journalled(v, 1)
           m == [o.pager EXCEPT !.cache[1] = [ver |-> pager[c].vers.ver + 1, nPage |-> n],
                                !.nPage = n, !.dbSize = n,
                                !.commit = TRUE, !.pc = "jsync"]
           w == [o EXCEPT !.pager =
                   [@ EXCEPT !.cache[1] = [ver |-> pager[c].vers.ver + 1, nPage |-> n],
                             !.nPage = n, !.dbSize = n,
                             !.commit = TRUE, !.pc = "jsync"]]
<1>1. /\ PagerInv(pager[c], l) /\ FilesInv /\ l \in Levels
      /\ Logging(pager[c]) => LogInv(pager[c], journal[pager[c].jfd])
  BY DEF IInv, LockTypeOK
<1>2. /\ pager[c].eState # "locked" /\ pager[c].pc = "phase1"
      /\ pager[c].off < MaxSlot
      /\ Store(c, w) /\ UNCHANGED <<lock, reserver>>
  BY DEF Commit
<1>3. /\ PagerInv(g, l) /\ g.eState = pager[c].eState /\ g.pc = "phase1"
      /\ g = [f \in Fields |-> g[f]]
      /\ \A f \in Fields \ {"cache", "vers"} : g[f] = pager[c][f]
  BY <1>1, <1>2, LoadedKeeps, LoadedIs DEF PagerInv
<1>4. /\ g.jfd = pager[c].jfd /\ g.off = pager[c].off /\ g.hdr = pager[c].hdr
      /\ g.nRec = pager[c].nRec /\ g.nonce = pager[c].nonce /\ g.dirty = pager[c].dirty
      /\ g.needSync = pager[c].needSync /\ g.inJournal = pager[c].inJournal
      /\ g.orig = pager[c].orig /\ g.spill = pager[c].spill
  BY <1>3 DEF Fields
<1>5. l = EXCLUSIVE_LOCK /\ pager[c].eState \in {"cachemod", "dbmod"} /\ pager[c].spill = 0
  BY <1>1, <1>2 DEF PagerInv, StateInv, CommitInv, ReadPcs, PlayPcs, CommitPcs
<1> HIDE DEF l, g, v, o
<1>6. Writes(v, l) /\ v.pager.pc = "phase1" /\ v.pager.off + 1 <= MaxSlot
  <2> DEFINE cells == journal[g.jfd]
  <2>1. v = [pager |-> g, cells |-> cells]
    BY <1>2, <1>3 DEF v, Writable
  <2>2. Logging(pager[c]) /\ g.jfd \in Inodes
    BY <1>2, <1>3, <1>5, Bounds DEF Logging, PagerInv, JournalInv, Inodes
  <2>3. cells = [s \in Slots |-> cells[s]]
    BY <1>1, <2>2 DEF FilesInv
  <2>4. LogInv(pager[c], cells)
    BY <1>1, <1>4, <2>2
  <2>5. LogInv(g, cells)
    BY <1>2, <1>3, <1>4, <1>5, <2>4, SameLog
  <2>6. g.off + 1 <= MaxSlot
    BY <1>2, <1>4, <2>4, Bounds DEF LogInv
  <2> HIDE DEF cells
  <2>7. QED
    BY <1>3, <1>5, <2>1, <2>3, <2>5, <2>6 DEF Writes
<1>7. 1 \in Pages
  BY Bounds DEF Pages
<1>8. Writes(o, l) /\ o.pager.pc = "phase1"
  BY <1>6, <1>7, JournalledWrites DEF o
<1>9. w = [pager |-> m, cells |-> o.cells]
  BY <1>8 DEF Writes
<1>10. /\ m = [f \in Fields |-> m[f]] /\ m.commit = TRUE /\ m.pc = "jsync"
       /\ \A f \in Fields \ {"cache", "nPage", "dbSize", "commit", "pc"} : m[f] = o.pager[f]
  BY <1>8 DEF Writes, PagerInv, Fields
<1> HIDE DEF w, m
<1>11. /\ m.eState = o.pager.eState /\ m.hot = o.pager.hot
       /\ m.spill = o.pager.spill /\ m.jfd = o.pager.jfd
       /\ m.orig = o.pager.orig /\ m.hdr = o.pager.hdr /\ m.nonce = o.pager.nonce
       /\ m.off = o.pager.off /\ m.nRec = o.pager.nRec /\ m.dirty = o.pager.dirty
       /\ m.needSync = o.pager.needSync /\ m.inJournal = o.pager.inJournal
  BY <1>10 DEF Fields
<1>12. PagerInv(m, l)
  <2>1. StateInv(m, l) /\ CommitInv(m, l)
    BY <1>5, <1>8, <1>10, <1>11 DEF Writes, PagerInv, StateInv, CommitInv, CommitPcs
  <2>2. HotInv(m) /\ JournalInv(m) /\ CleanInv(m)
    BY <1>8, <1>10, <1>11 DEF Writes, PagerInv, HotInv, JournalInv, CleanInv, PlayPcs
  <2>3. QED
    BY <1>10, <2>1, <2>2 DEF PagerInv
<1>13. LogInv(m, o.cells)
  BY <1>8, <1>10, <1>11, SameLog DEF Writes, PagerInv, CommitInv
<1>14. QED
  BY <1>2, <1>5, <1>8, <1>9, <1>10, <1>11, <1>12, <1>13, StoreStep DEF l, Writes

-----------------------------------------------------------------------------
\* vdbeCommit(), sqlite3PagerCommitPhaseOne() and pagerStress()

\* sqlite3PagerCommitPhaseOne() asks for EXCLUSIVE, or has it.
LEMMA BeginCommitStep ==
  ASSUME IInv, NEW c \in Conns, BeginCommit(c)
  PROVE  IInv'
<1> DEFINE g == [pager[c] EXCEPT !.pc = "excl"]
<1>1. Set(c, g) /\ UNCHANGED <<lock, reserver, journal, dirent>>
  BY DEF BeginCommit, Goto, files
<1>2. /\ PagerInv(pager[c], lock[c])
      /\ Logging(pager[c]) => LogInv(pager[c], journal[pager[c].jfd])
      /\ pager[c].eState \in {"locked", "cachemod", "dbmod"} /\ pager[c].pc = "idle"
  BY DEF IInv, BeginCommit, InWrite
<1>3. PagerInv(g, lock[c])
  BY <1>2 DEF PagerInv, StateInv, CommitInv, HotInv, JournalInv,
     CleanInv, Fields, ReadPcs, PlayPcs, CommitPcs
<1>4. Logging(g) => LogInv(g, journal[g.jfd])
  BY <1>2, SameLog DEF Logging, PagerInv, CommitInv, Fields
<1>5. QED
  BY <1>1, <1>3, <1>4, OnlyPagerMoves

\* A transaction that changed nothing goes straight to its end.
LEMMA CommitNothingStep ==
  ASSUME IInv, NEW c \in Conns, CommitNothing(c)
  PROVE  IInv'
<1> DEFINE g == [pager[c] EXCEPT !.commit = TRUE, !.pc = "final"]
<1>1. Set(c, g) /\ UNCHANGED <<lock, reserver, journal, dirent>>
  BY DEF CommitNothing, files
<1>2. PagerInv(pager[c], lock[c]) /\ pager[c].eState = "locked" /\ pager[c].pc = "phase1"
  BY DEF IInv, CommitNothing
<1>3. PagerInv(g, lock[c]) /\ ~Logging(g)
  BY <1>2 DEF Logging, PagerInv, StateInv, CommitInv, HotInv, JournalInv,
     CleanInv, Fields, ReadPcs, PlayPcs, CommitPcs
<1>4. QED
  BY <1>1, <1>3, OnlyPagerMoves

\* pagerStress() picks a dirty page; the log is synced first if it has to be.
LEMMA SpillStep ==
  ASSUME IInv, NEW c \in Conns, NEW p \in Pages, Spill(c, p)
  PROVE  IInv'
<1> DEFINE g == [pager[c] EXCEPT !.spill = p,
                                 !.pc = IF p \in pager[c].needSync \/ pager[c].eState = "cachemod"
                                        THEN "excl" ELSE "wdb"]
<1>1. Set(c, g) /\ UNCHANGED <<lock, reserver, journal, dirent>>
  BY DEF Spill, files
<1>2. /\ PagerInv(pager[c], lock[c])
      /\ Logging(pager[c]) => LogInv(pager[c], journal[pager[c].jfd])
      /\ pager[c].eState \in {"locked", "cachemod", "dbmod"} /\ pager[c].pc = "idle"
      /\ p \in pager[c].dirty /\ p # 0
  BY DEF IInv, Spill, InWrite, Pages
<1>3. pager[c].eState \in {"cachemod", "dbmod"}
  BY <1>2 DEF PagerInv, CleanInv, HotInv
<1>4. PagerInv(g, lock[c])
  BY <1>2, <1>3 DEF PagerInv, StateInv, CommitInv, HotInv, JournalInv,
     CleanInv, Fields, ReadPcs, PlayPcs, CommitPcs
<1>5. Logging(g) => LogInv(g, journal[g.jfd])
  BY <1>2, <1>3, SameLog DEF Logging, PagerInv, CommitInv, Fields
<1>6. QED
  BY <1>1, <1>4, <1>5, OnlyPagerMoves

\* PENDING on the way to EXCLUSIVE changes no pager.
LEMMA PendingStep ==
  ASSUME IInv, NEW c \in Conns, Pending(c)
  PROVE  IInv'
<1> DEFINE g == pager[c]
<1>1. /\ PagerInv(g, lock[c]) /\ LockTypeOK /\ FilesInv
      /\ Logging(g) => LogInv(g, journal[g.jfd])
      /\ pager = [d \in Conns |-> pager[d]] /\ g.pc = "excl"
  BY DEF IInv, Pending
<1>2. LockPending(c) /\ UNCHANGED <<pager, journal, dirent>>
  BY DEF Pending, files
<1>3. LockNext /\ lock'[c] = PENDING_LOCK /\ \A d \in Others(c) : lock'[d] = lock[d]
  BY <1>1, <1>2, LockGiven
<1>4. PagerInv(g, PENDING_LOCK)
  BY <1>1, <1>2 DEF LockPending, PagerInv, StateInv, CommitInv, ReadPcs, PlayPcs, CommitPcs
<1>5. Set(c, g) /\ FilesInv' /\ journal' = journal
  BY <1>1, <1>2 DEF Set, FilesInv
<1>6. QED
  BY <1>1, <1>3, <1>4, <1>5, OneMoves

\* EXCLUSIVE: the commit, or the spill, goes on.
LEMMA ExclusiveStep ==
  ASSUME IInv, NEW c \in Conns, Exclusive(c)
  PROVE  IInv'
<1> DEFINE g == [pager[c] EXCEPT !.pc = IF pager[c].spill = 0 THEN "phase1" ELSE "jsync"]
<1>1. /\ PagerInv(pager[c], lock[c]) /\ LockTypeOK /\ FilesInv
      /\ Logging(pager[c]) => LogInv(pager[c], journal[pager[c].jfd])
      /\ pager[c].pc = "excl"
  BY DEF IInv, Exclusive
<1>2. /\ Set(c, g) /\ UNCHANGED <<journal, dirent>>
      /\ LockExclusive(c) \/ (lock[c] = EXCLUSIVE_LOCK /\ UNCHANGED lockVars)
  BY DEF Exclusive, Goto, files
<1>3. [LockNext]_lockVars /\ lock'[c] = EXCLUSIVE_LOCK /\ \A d \in Others(c) : lock'[d] = lock[d]
  BY <1>1, <1>2, LockGiven DEF lockVars
<1>4. pager[c].eState \in {"locked", "cachemod", "dbmod"}
  BY <1>1 DEF PagerInv, StateInv, ReadPcs, PlayPcs, CommitPcs
<1>5. PagerInv(g, EXCLUSIVE_LOCK)
  BY SMTT(60), <1>1, <1>4 DEF PagerInv, StateInv, CommitInv, HotInv, JournalInv,
     CleanInv, Fields, ReadPcs, PlayPcs, CommitPcs
<1>6. Logging(g) => LogInv(g, journal'[g.jfd])
  <2>1. SUFFICES ASSUME Logging(g)
                 PROVE  LogInv(g, journal[g.jfd])
    BY <1>2
  <2>2. g.eState = pager[c].eState /\ g.jfd = pager[c].jfd /\ g.spill = pager[c].spill
    BY <1>1 DEF PagerInv, Fields
  <2>3. LogInv(pager[c], journal[pager[c].jfd])
    BY <1>1, <2>1, <2>2 DEF Logging
  <2>4. pager[c].spill # 0 => pager[c].spill \in pager[c].dirty
    BY <2>3 DEF LogInv
  <2>5. g.pc \in {"phase1", "jsync"}
    BY <1>1 DEF PagerInv, Fields
  <2>6. QED
    BY <1>1, <2>2, <2>3, <2>4, <2>5, SameLog DEF PagerInv, Fields
<1>7. FilesInv' /\ journal' = journal
  BY <1>1, <1>2 DEF FilesInv
<1>8. QED
  BY <1>2, <1>3, <1>5, <1>6, <1>7, OneMoves

\* The readers do not leave: the transaction stays open.
LEMMA BusyStep ==
  ASSUME IInv, NEW c \in Conns, Busy(c)
  PROVE  IInv'
<1> DEFINE g == [pager[c] EXCEPT !.spill = 0, !.pc = "idle"]
<1>1. Set(c, g) /\ UNCHANGED <<lock, reserver, journal, dirent>>
  BY DEF Busy, files
<1>2. /\ PagerInv(pager[c], lock[c]) /\ pager[c].pc = "excl"
      /\ Logging(pager[c]) => LogInv(pager[c], journal[pager[c].jfd])
  BY DEF IInv, Busy
<1>3. pager[c].eState \in {"locked", "cachemod", "dbmod"}
  BY <1>2 DEF PagerInv, StateInv, ReadPcs, PlayPcs, CommitPcs
<1>4. PagerInv(g, lock[c])
  BY <1>2, <1>3 DEF PagerInv, StateInv, CommitInv, HotInv, JournalInv,
     CleanInv, Fields, ReadPcs, PlayPcs, CommitPcs
<1>5. Logging(g) => LogInv(g, journal[g.jfd])
  BY <1>2, <1>3, SameLog DEF Logging, PagerInv, Fields
<1>6. QED
  BY <1>1, <1>4, <1>5, OnlyPagerMoves

-----------------------------------------------------------------------------
\* syncJournal() and pager_write_pagelist()

\* A connection that syncs its journal: the cells of that file, of which every
\* one is then on disk, and the directory.
LEMMA SyncedFiles ==
  ASSUME FilesInv, NEW i \in Inodes, NEW cells, cells = [s \in Slots |-> cells[s]],
         SyncJournalFile(i, cells)
  PROVE  FilesInv' /\ journal'[i] = Sync(cells)
<1>1. Sync(cells) = [s \in Slots |-> Stable(cells[s].cur)]
  BY DEF Sync
<1> DEFINE new == [j \in Inodes |->
                     IF j = i THEN Sync(cells)
                     ELSE IF \E c \in Conns : pager[c].jfd = j THEN journal[j]
                     ELSE NoJournal]
<1>2. journal' = new /\ dirent' = [dirent EXCEPT !.may = {dirent.cur}]
  BY DEF SyncJournalFile
<1>3. \A j \in Inodes : new[j] = [s \in Slots |-> new[j][s]]
  BY <1>1 DEF FilesInv, NoJournal
<1>4. journal' = [j \in Inodes |-> journal'[j]] /\ journal'[i] = Sync(cells)
      /\ \A j \in Inodes : journal'[j] = [s \in Slots |-> journal'[j][s]]
  BY <1>2, <1>3
<1>5. /\ dirent' = [cur |-> dirent'.cur, may |-> dirent'.may]
      /\ dirent'.cur \in 0..MaxInode /\ dirent'.may \subseteq 0..MaxInode
  BY <1>2 DEF FilesInv
<1>6. QED
  BY <1>4, <1>5 DEF FilesInv

\* While its journal is synced a transaction is logging, under EXCLUSIVE.
LEMMA SyncingLogs ==
  ASSUME IInv, NEW c \in Conns, pager[c].pc \in {"jsync", "jhdr", "jsync2"}
  PROVE  /\ PagerInv(pager[c], lock[c]) /\ FilesInv
         /\ pager[c].eState \in {"cachemod", "dbmod"} /\ lock[c] = EXCLUSIVE_LOCK
         /\ pager[c].jfd \in Inodes
         /\ LogInv(pager[c], journal[pager[c].jfd])
<1>1. PagerInv(pager[c], lock[c]) /\ FilesInv
  BY DEF IInv
<1>2. pager[c].eState \in {"cachemod", "dbmod"} /\ lock[c] = EXCLUSIVE_LOCK
  BY <1>1 DEF PagerInv, StateInv, CommitInv, ReadPcs, PlayPcs
<1>3. pager[c].jfd \in Inodes
  BY <1>1, <1>2, Bounds DEF PagerInv, JournalInv, Inodes
<1>4. LogInv(pager[c], journal[pager[c].jfd])
  BY <1>2 DEF IInv, Logging
<1>5. QED
  BY <1>1, <1>2, <1>3, <1>4

\* What is on record stays so when the journal is synced.
LEMMA SyncedStay ==
  ASSUME NEW cells, NEW new, NEW hdr, NEW p,
         \A s \in Slots : s < hdr => new[s] = Stable(cells[s].cur),
         OnRecord(cells, hdr, p), hdr \in Nat
  PROVE  OnRecord(new, hdr, p)
<1>1. PICK h \in 1..hdr - 1, s \in 1..hdr - 1 :
        /\ h < s
        /\ h \in Slots /\ cells[h] = Stable(cells[h].cur)
        /\ cells[h].cur.kind = "header" /\ cells[h].cur.magic
        /\ s <= h + cells[h].cur.nRec
        /\ s \in Slots /\ cells[s] = Stable(cells[s].cur)
        /\ IsRecordOf(cells[s].cur, p, cells[h].cur.nonce)
  BY DEF OnRecord
<1>2. new[h] = cells[h] /\ new[s] = cells[s]
  BY <1>1
<1>3. QED
  BY <1>1, <1>2 DEF OnRecord

\* The first sync of syncJournal(): the records are on disk.
LEMMA JSyncStep ==
  ASSUME IInv, NEW c \in Conns, JSync(c)
  PROVE  IInv'
<1> DEFINE g == pager[c]
           h == [g EXCEPT !.pc = "jhdr"]
           cells == journal[g.jfd]
           next == g.off + 1
           clear == IF next <= MaxSlot /\ IsMagic(cells[next].cur)
                    THEN [cells EXCEPT ![next] =
                            Written(@, [cells[next].cur EXCEPT !.magic = FALSE])]
                    ELSE cells
<1>1. /\ g.pc = "jsync" /\ SyncJournalFile(g.jfd, clear) /\ Set(c, h)
      /\ UNCHANGED <<lock, reserver>>
  BY DEF JSync, Goto
<1>2. /\ PagerInv(g, lock[c]) /\ FilesInv
      /\ g.eState \in {"cachemod", "dbmod"} /\ lock[c] = EXCLUSIVE_LOCK
      /\ g.jfd \in Inodes /\ LogInv(g, cells)
  BY <1>1, SyncingLogs
<1>3. cells = [s \in Slots |-> cells[s]]
  BY <1>2 DEF FilesInv
<1>4. g.off \in Nat /\ g.hdr \in Nat /\ g.off = g.hdr + g.nRec /\ g.nRec \in Nat
  <2>1. g.pc = "jsync" /\ LogInv(g, cells)
    BY <1>1, <1>2
  <2> HIDE DEF g, cells
  <2>2. QED
    BY ONLY <2>1, Bounds DEF LogInv
<1> HIDE DEF cells
<1>5. /\ clear = [s \in Slots |-> clear[s]]
      /\ \A s \in Slots : s # g.off + 1 => clear[s] = cells[s]
  BY <1>3
<1> HIDE DEF clear
<1>6. FilesInv' /\ journal'[g.jfd] = Sync(clear)
  BY <1>1, <1>2, <1>5, SyncedFiles
<1>7. \A s \in Slots : s # g.off + 1 => journal'[g.jfd][s] = Stable(cells[s].cur)
  BY <1>5, <1>6 DEF Sync
<1>8. PagerInv(h, lock[c])
  BY <1>1, <1>2 DEF PagerInv, StateInv, CommitInv, HotInv, JournalInv,
     CleanInv, Fields, ReadPcs, PlayPcs, CommitPcs
<1>9. LogInv(h, journal'[g.jfd])
  <2> DEFINE new == journal'[g.jfd]
  <2> HIDE DEF new
  <2>1. \A s \in Slots : s # g.off + 1 => new[s] = Stable(cells[s].cur)
    BY <1>7 DEF new
  <2>2. /\ h.off = g.off /\ h.hdr = g.hdr /\ h.nRec = g.nRec /\ h.nonce = g.nonce
        /\ h.dirty = g.dirty /\ h.needSync = g.needSync /\ h.inJournal = g.inJournal
        /\ h.orig = g.orig /\ h.spill = g.spill /\ h.pc = "jhdr"
    BY <1>2 DEF PagerInv, Fields
  <2> HIDE DEF h, g
  <2>3. ASSUME NEW p, OnRecord(cells, g.hdr, p)
        PROVE  OnRecord(new, g.hdr, p)
    <3>1. \A s \in Slots : s < g.hdr => new[s] = Stable(cells[s].cur)
      BY <1>4, <2>1 DEF Slots
    <3>2. QED
      BY <1>4, <2>3, <3>1, SyncedStay
  <2>4. ASSUME NEW p, InOpenSegment(g, cells, p)
        PROVE  InOpenSegment(h, new, p)
    <3>1. PICK s \in g.hdr + 1..g.off : IsRecordOf(cells[s].cur, p, g.nonce)
      BY <2>4 DEF InOpenSegment
    <3>2. s \in Slots /\ s # g.off + 1
      BY <1>1, <1>2, <1>4, Bounds DEF Slots, LogInv
    <3>3. new[s] = Stable(cells[s].cur)
      BY <2>1, <3>2
    <3>4. new[s].cur = cells[s].cur
      BY <3>3 DEF Stable
    <3>5. QED
      BY <2>2, <3>1, <3>4 DEF InOpenSegment
  <2>5. LogInv(h, new)
    BY <1>1, <1>2, <2>2, <2>3, <2>4 DEF LogInv
  <2>6. QED
    BY <2>5 DEF new
<1>10. h.jfd = g.jfd
  BY <1>2 DEF PagerInv, Fields
<1>11. UNCHANGED lockVars /\ lock[c] >= RESERVED_LOCK
  BY <1>1, <1>2 DEF lockVars
<1> HIDE DEF h, g
<1>12. QED
  BY <1>1, <1>6, <1>8, <1>9, <1>10, <1>11, OneMoves DEF lockVars

\* The header of the open segment gets its magic and the count of its records.
LEMMA JHeaderStep ==
  ASSUME IInv, NEW c \in Conns, JHeader(c)
  PROVE  IInv'
<1> DEFINE g == pager[c]
           h == [g EXCEPT !.pc = "jsync2"]
           i == g.jfd
           x == Header(TRUE, g.nRec, g.nonce, g.orig)
<1>1. /\ g.pc = "jhdr" /\ Set(c, h) /\ UNCHANGED <<lock, reserver, dirent>>
      /\ journal' = [journal EXCEPT ![i][g.hdr] = Written(@, x)]
  BY DEF JHeader, Goto, PutCell
<1>2. /\ PagerInv(g, lock[c]) /\ FilesInv
      /\ g.eState \in {"cachemod", "dbmod"} /\ lock[c] = EXCLUSIVE_LOCK
      /\ i \in Inodes /\ LogInv(g, journal[i])
  BY <1>1, SyncingLogs
<1>3. g.off \in 0..MaxSlot /\ g.hdr \in Nat \ {0} /\ g.off = g.hdr + g.nRec /\ g.nRec \in Nat
  BY <1>1, <1>2 DEF LogInv
<1>4. g.hdr \in Slots
  BY <1>3, Bounds DEF Slots
<1>5. PagerInv(h, lock[c])
  BY <1>1, <1>2 DEF PagerInv, StateInv, CommitInv, HotInv, JournalInv,
     CleanInv, Fields, ReadPcs, PlayPcs, CommitPcs
<1>6. /\ h.off = g.off /\ h.hdr = g.hdr /\ h.nRec = g.nRec /\ h.nonce = g.nonce
      /\ h.dirty = g.dirty /\ h.needSync = g.needSync /\ h.inJournal = g.inJournal
      /\ h.orig = g.orig /\ h.spill = g.spill /\ h.pc = "jsync2" /\ h.jfd = i
  BY <1>2 DEF PagerInv, Fields
<1> HIDE DEF h, x
<1>7. /\ journal' = [k \in Inodes |-> journal'[k]]
      /\ journal'[i] = [journal[i] EXCEPT ![g.hdr] = Written(@, x)]
      /\ \A k \in Inodes : k # i => journal'[k] = journal[k]
  BY <1>1, <1>2 DEF FilesInv
<1> DEFINE new == journal'[i]
<1> HIDE DEF i
<1>8. /\ new = [s \in Slots |-> new[s]]
      /\ \A s \in Slots : s # g.hdr => new[s] = journal[i][s]
      /\ new[g.hdr].cur = x
  <2>1. journal[i] = [s \in Slots |-> journal[i][s]]
    BY <1>2 DEF FilesInv
  <2>2. new = [journal[i] EXCEPT ![g.hdr] = Written(journal[i][g.hdr], x)]
    BY <1>7
  <2> HIDE DEF new, g
  <2>3. /\ new = [s \in Slots |-> new[s]]
        /\ \A s \in Slots : s # g.hdr => new[s] = journal[i][s]
        /\ new[g.hdr] = Written(journal[i][g.hdr], x)
    BY <1>4, <2>1, <2>2
  <2>4. QED
    BY <2>3 DEF Written
<1>9. FilesInv'
  BY <1>1, <1>2, <1>7, <1>8 DEF FilesInv
<1> HIDE DEF new, g
<1>10. ASSUME NEW p, OnRecord(journal[i], g.hdr, p)
       PROVE  OnRecord(new, g.hdr, p)
  <2>1. \A s \in Slots : s < g.hdr => new[s] = journal[i][s]
    BY <1>3, <1>8 DEF Slots
  <2>2. g.hdr \in Nat /\ g.hdr >= g.hdr
    BY <1>3
  <2>3. QED
    BY <1>10, <2>1, <2>2, RecordedStay
<1>11. ASSUME NEW p, InOpenSegment(g, journal[i], p)
       PROVE  InOpenSegment(h, new, p)
  <2>1. PICK s \in g.hdr + 1..g.off : IsRecordOf(journal[i][s].cur, p, g.nonce)
    BY <1>11 DEF InOpenSegment
  <2>2. s \in Slots /\ s # g.hdr
    BY <1>3, Bounds DEF Slots
  <2>3. QED
    BY <1>6, <1>8, <2>1, <2>2 DEF InOpenSegment
<1>12. LogInv(h, new)
  <2>1. h.pc = "jsync2" => new[h.hdr].cur = Header(TRUE, h.nRec, h.nonce, h.orig)
    BY <1>6, <1>8 DEF x
  <2>2. QED
    BY <1>1, <1>2, <1>6, <1>10, <1>11, <2>1 DEF LogInv
<1>13. LogInv(h, journal'[h.jfd])
  BY <1>6, <1>12 DEF new
<1>14. UNCHANGED lockVars /\ lock[c] >= RESERVED_LOCK
  BY <1>1, <1>2 DEF lockVars
<1>15. QED
  BY <1>1, <1>5, <1>9, <1>13, <1>14, OneMoves DEF lockVars

\* Once the header that counts them is synced too, all the records of a
\* transaction are on record.
LEMMA AllOnRecord ==
  ASSUME NEW g, NEW cells, LogInv(g, cells), g.pc = "jsync2", NEW new,
         \A s \in Slots : s <= g.off => new[s] = Stable(cells[s].cur),
         NEW p \in g.inJournal
  PROVE  OnRecord(new, g.off + 1, p)
<1>1. g.off \in 0..MaxSlot /\ g.hdr \in Nat \ {0} /\ g.off = g.hdr + g.nRec /\ g.nRec \in Nat
  BY DEF LogInv
<1>2. CASE OnRecord(cells, g.hdr, p)
  <2>1. \A s \in Slots : s < g.hdr => new[s] = Stable(cells[s].cur)
    BY <1>1 DEF Slots
  <2>2. OnRecord(new, g.hdr, p)
    BY <1>1, <1>2, <2>1, SyncedStay
  <2>3. g.off + 1 \in Nat /\ g.off + 1 >= g.hdr
    BY <1>1
  <2>4. QED
    BY <1>1, <2>2, <2>3, RecordedStay
<1>3. CASE InOpenSegment(g, cells, p)
  <2>1. PICK s \in g.hdr + 1..g.off : IsRecordOf(cells[s].cur, p, g.nonce)
    BY <1>3 DEF InOpenSegment
  <2>2. s \in Slots /\ g.hdr \in Slots /\ s <= g.off /\ g.hdr <= g.off
    BY <1>1, Bounds DEF Slots
  <2>3. new[s] = Stable(cells[s].cur) /\ new[g.hdr] = Stable(cells[g.hdr].cur)
    BY <2>2
  <2>4. cells[g.hdr].cur = Header(TRUE, g.nRec, g.nonce, g.orig)
    BY DEF LogInv
  <2>5. new[s].cur = cells[s].cur /\ new[g.hdr].cur = cells[g.hdr].cur
    BY <2>3 DEF Stable
  <2>6. /\ new[g.hdr].cur.kind = "header" /\ new[g.hdr].cur.magic
        /\ new[g.hdr].cur.nRec = g.nRec /\ new[g.hdr].cur.nonce = g.nonce
    BY <2>4, <2>5 DEF Header
  <2>7. s <= g.hdr + new[g.hdr].cur.nRec /\ g.hdr < s
    BY <1>1, <2>6
  <2>8. s \in 1..(g.off + 1) - 1 /\ g.hdr \in 1..(g.off + 1) - 1
    BY <1>1
  <2>9. IsRecordOf(new[s].cur, p, new[g.hdr].cur.nonce)
    BY <2>1, <2>5, <2>6
  <2>10. QED
    BY <2>2, <2>3, <2>5, <2>6, <2>7, <2>8, <2>9 DEF OnRecord
<1>4. QED
  BY <1>2, <1>3 DEF LogInv

\* The second sync of syncJournal(): the segment is closed, everything in it is on
\* record and no page needs a sync any more.
LEMMA JSync2Step ==
  ASSUME IInv, NEW c \in Conns, JSync2(c)
  PROVE  IInv'
<1> DEFINE g == pager[c]
           i == g.jfd
           cells == Sync(journal[i])
           nonce == NewNonce(cells)
           k == [g EXCEPT !.needSync = {}, !.eState = "dbmod", !.pc = "wdb",
                          !.hdr = g.off + 1, !.header = FALSE]
           m == [k EXCEPT !.header = TRUE, !.off = @ + 1, !.nRec = 0, !.nonce = nonce]
           y == [cells EXCEPT ![g.off + 1] = Written(@, Header(FALSE, 0, nonce, g.orig))]
           h == IF g.spill = 0 THEN k ELSE m
           new == IF g.spill = 0 THEN cells ELSE y
<1>1. /\ g.pc = "jsync2" /\ Set(c, h) /\ UNCHANGED <<lock, reserver, dirent>>
      /\ journal' = [journal EXCEPT ![i] = new]
      /\ g.spill # 0 => g.off + 1 <= MaxSlot
  BY DEF JSync2
<1>2. /\ PagerInv(g, lock[c]) /\ FilesInv
      /\ g.eState \in {"cachemod", "dbmod"} /\ lock[c] = EXCLUSIVE_LOCK
      /\ i \in Inodes /\ LogInv(g, journal[i])
  BY <1>1, SyncingLogs
<1>3. g.off \in 0..MaxSlot /\ g.hdr \in Nat \ {0} /\ g.off = g.hdr + g.nRec /\ g.nRec \in Nat
  BY <1>1, <1>2 DEF LogInv
<1>4. journal[i] = [s \in Slots |-> journal[i][s]]
  BY <1>2 DEF FilesInv
<1>5. cells = [s \in Slots |-> Stable(journal[i][s].cur)]
  BY <1>4 DEF Sync
<1> HIDE DEF cells, nonce
<1>6. /\ new = [s \in Slots |-> new[s]]
      /\ \A s \in Slots : s <= g.off => new[s] = Stable(journal[i][s].cur)
  <2>1. \A s \in Slots : s <= g.off => s # g.off + 1
    BY <1>3 DEF Slots
  <2>2. y = [s \in Slots |-> y[s]] /\ \A s \in Slots : s # g.off + 1 => y[s] = cells[s]
    BY <1>5
  <2> HIDE DEF y, g
  <2>3. QED
    BY <1>5, <2>1, <2>2
<1>7. /\ k = [f \in Fields |-> k[f]]
      /\ k.off = g.off /\ k.hdr = g.off + 1 /\ k.nRec = g.nRec
      /\ k.dirty = g.dirty /\ k.needSync = {} /\ k.inJournal = g.inJournal
      /\ k.orig = g.orig /\ k.spill = g.spill /\ k.pc = "wdb" /\ k.jfd = i
      /\ k.eState = "dbmod" /\ k.hot = g.hot /\ k.commit = g.commit
  BY <1>2 DEF PagerInv, Fields
<1> HIDE DEF k
<1>8. /\ m = [f \in Fields |-> m[f]]
      /\ m.off = g.off + 1 /\ m.hdr = g.off + 1 /\ m.nRec = 0
      /\ m.dirty = g.dirty /\ m.needSync = {} /\ m.inJournal = g.inJournal
      /\ m.orig = g.orig /\ m.spill = g.spill /\ m.pc = "wdb" /\ m.jfd = i
      /\ m.eState = "dbmod" /\ m.hot = g.hot /\ m.commit = g.commit
  BY <1>7 DEF Fields
<1> HIDE DEF m, y
<1>9. /\ h = [f \in Fields |-> h[f]]
      /\ h.hdr = g.off + 1 /\ h.nRec \in Nat /\ h.off \in 0..MaxSlot
      /\ h.spill # 0 => h.off = h.hdr + h.nRec
      /\ h.dirty = g.dirty /\ h.needSync = {} /\ h.inJournal = g.inJournal
      /\ h.orig = g.orig /\ h.spill = g.spill /\ h.pc = "wdb" /\ h.jfd = i
      /\ h.eState = "dbmod" /\ h.hot = g.hot /\ h.commit = g.commit
  <2>1. CASE g.spill = 0
    BY <1>3, <1>7, <2>1
  <2>2. CASE g.spill # 0
    <3>1. h = m
      BY <2>2
    <3>2. g.off + 1 \in 0..MaxSlot /\ g.off + 1 = g.off + 1 + 0
      BY <1>1, <1>3, <2>2, Bounds
    <3> HIDE DEF h, g
    <3>3. h.hdr = g.off + 1 /\ h.nRec = 0 /\ h.off = g.off + 1
      BY <1>8, <3>1
    <3>4. h.nRec \in Nat /\ h.off \in 0..MaxSlot /\ h.off = h.hdr + h.nRec
      BY <3>2, <3>3
    <3>5. QED
      BY <1>8, <3>1, <3>3, <3>4
  <2>3. QED
    BY <2>1, <2>2
<1>10. PagerInv(h, lock[c])
  <2>1. StateInv(h, lock[c]) /\ CommitInv(h, lock[c])
    BY <1>2, <1>9 DEF PagerInv, StateInv, CommitInv
  <2>2. HotInv(h) /\ JournalInv(h) /\ CleanInv(h)
    BY <1>1, <1>2, <1>9 DEF PagerInv, HotInv, JournalInv, CleanInv
  <2>3. QED
    BY <1>9, <2>1, <2>2 DEF PagerInv
<1>11. /\ journal' = [j \in Inodes |-> journal'[j]] /\ journal'[i] = new
       /\ \A j \in Inodes : j # i => journal'[j] = journal[j]
  BY <1>1, <1>2 DEF FilesInv
<1> HIDE DEF h, new
<1>12. FilesInv'
  <2>1. \A j \in Inodes : journal'[j] = [s \in Slots |-> journal'[j][s]]
    BY <1>2, <1>6, <1>11 DEF FilesInv
  <2>2. QED
    BY <1>1, <1>2, <1>11, <2>1 DEF FilesInv
<1>13. LogInv(h, new)
  <2>1. \A p \in h.inJournal : OnRecord(new, h.hdr, p)
    BY <1>1, <1>2, <1>6, <1>9, AllOnRecord
  <2>2. h.hdr \in Nat \ {0}
    BY <1>3, <1>9
  <2>3. \A p \in h.dirty : p <= h.orig => p \in h.inJournal
    BY <1>2, <1>9 DEF LogInv
  <2>4. h.dirty \subseteq Pages /\ (h.spill # 0 => h.spill \in h.dirty)
    BY <1>2, <1>9 DEF LogInv
  <2>5. QED
    BY <1>9, <2>1, <2>2, <2>3, <2>4 DEF LogInv
<1>14. LogInv(h, journal'[h.jfd])
  BY <1>9, <1>11, <1>13
<1>15. UNCHANGED lockVars /\ lock[c] >= RESERVED_LOCK
  BY <1>1, <1>2 DEF lockVars
<1>16. QED
  BY <1>1, <1>10, <1>12, <1>14, <1>15, OneMoves DEF lockVars

\* While pages are written the file is in the hands of this connection alone.
LEMMA WritingLogs ==
  ASSUME IInv, NEW c \in Conns, pager[c].pc = "wdb"
  PROVE  /\ PagerInv(pager[c], lock[c])
         /\ pager[c].eState = "dbmod" /\ lock[c] = EXCLUSIVE_LOCK
         /\ LogInv(pager[c], journal[pager[c].jfd])
<1>1. PagerInv(pager[c], lock[c])
  BY DEF IInv
<1>2. pager[c].eState = "dbmod" /\ lock[c] = EXCLUSIVE_LOCK
  BY <1>1 DEF PagerInv, StateInv, ReadPcs, PlayPcs, CommitPcs
<1>3. QED
  BY <1>1, <1>2 DEF IInv, Logging

\* pager_write_pagelist() writes the next page of a commit.
LEMMA WritePageStep ==
  ASSUME IInv, NEW c \in Conns, WritePage(c)
  PROVE  IInv'
<1> DEFINE g == pager[c]
           q == Min({p \in g.dirty : p <= g.dbSize})
           h == Stored(g, q)
<1>1. /\ g.pc = "wdb" /\ g.spill = 0 /\ Set(c, h)
      /\ UNCHANGED <<lock, reserver, journal, dirent>>
  BY DEF WritePage
<1>2. PagerInv(g, lock[c]) /\ g.eState = "dbmod" /\ LogInv(g, journal[g.jfd])
  BY <1>1, WritingLogs
<1> HIDE DEF q
<1>3. /\ h = [f \in Fields |-> h[f]] /\ h.dirty = g.dirty \ {q}
      /\ \A f \in Fields \ {"dirty", "vers"} : h[f] = g[f]
  BY <1>2 DEF PagerInv, Fields, Stored
<1> HIDE DEF h, g
<1>4. /\ h.eState = g.eState /\ h.pc = g.pc /\ h.hot = g.hot /\ h.commit = g.commit
      /\ h.spill = g.spill /\ h.jfd = g.jfd /\ h.orig = g.orig /\ h.hdr = g.hdr
      /\ h.nonce = g.nonce /\ h.off = g.off /\ h.nRec = g.nRec
      /\ h.needSync = g.needSync /\ h.inJournal = g.inJournal
  BY <1>3 DEF Fields
<1>5. PagerInv(h, lock[c])
  BY <1>2, <1>3, <1>4 DEF PagerInv, StateInv, CommitInv, HotInv, JournalInv, CleanInv
<1>6. LogInv(h, journal[h.jfd])
  BY <1>1, <1>2, <1>3, <1>4 DEF LogInv, InOpenSegment
<1>7. QED
  BY <1>1, <1>5, <1>6, OnlyPagerMoves

\* pager_write_pagelist() writes the page that is spilled.
LEMMA WriteSpilledStep ==
  ASSUME IInv, NEW c \in Conns, WriteSpilled(c)
  PROVE  IInv'
<1> DEFINE g == pager[c]
           q == g.spill
           k == Stored(g, q)
           h == [k EXCEPT !.cache[q] = NoPage, !.spill = 0, !.pc = "idle"]
<1>1. /\ g.pc = "wdb" /\ q # 0 /\ Set(c, h)
      /\ UNCHANGED <<lock, reserver, journal, dirent>>
  BY DEF WriteSpilled
<1>2. PagerInv(g, lock[c]) /\ g.eState = "dbmod" /\ LogInv(g, journal[g.jfd])
  BY <1>1, WritingLogs
<1>3. /\ k = [f \in Fields |-> k[f]] /\ k.dirty = g.dirty \ {q}
      /\ \A f \in Fields \ {"dirty", "vers"} : k[f] = g[f]
  BY <1>2 DEF PagerInv, Fields, Stored
<1> HIDE DEF k
<1>4. /\ h = [f \in Fields |-> h[f]] /\ h.dirty = g.dirty \ {q} /\ h.spill = 0 /\ h.pc = "idle"
      /\ \A f \in Fields \ {"dirty", "vers", "cache", "spill", "pc"} : h[f] = g[f]
  BY <1>3 DEF Fields
<1>5. q \notin g.needSync
  BY <1>1, <1>2 DEF LogInv
<1> HIDE DEF h, g, q
<1>6. /\ h.eState = g.eState /\ h.hot = g.hot /\ h.commit = g.commit
      /\ h.jfd = g.jfd /\ h.orig = g.orig /\ h.hdr = g.hdr
      /\ h.nonce = g.nonce /\ h.off = g.off /\ h.nRec = g.nRec
      /\ h.needSync = g.needSync /\ h.inJournal = g.inJournal
  BY <1>4 DEF Fields
<1>7. PagerInv(h, lock[c])
  <2>1. StateInv(h, lock[c]) /\ CommitInv(h, lock[c])
    BY <1>1, <1>2, <1>4, <1>6 DEF PagerInv, StateInv, CommitInv, ReadPcs, PlayPcs, CommitPcs
  <2>2. HotInv(h) /\ JournalInv(h) /\ CleanInv(h)
    BY <1>1, <1>2, <1>4, <1>6 DEF PagerInv, HotInv, JournalInv, CleanInv, PlayPcs
  <2>3. QED
    BY <1>4, <2>1, <2>2 DEF PagerInv
<1>8. LogInv(h, journal[h.jfd])
  <2>1. g.off = g.hdr + g.nRec
    BY <1>1, <1>2 DEF LogInv, q
  <2>2. QED
    BY <1>2, <1>4, <1>5, <1>6, <2>1 DEF LogInv, InOpenSegment
<1>9. QED
  BY <1>1, <1>7, <1>8, OnlyPagerMoves

\* The file gets the size of the image at the end of a commit.
LEMMA GrowStep ==
  ASSUME IInv, NEW c \in Conns, Grow(c)
  PROVE  IInv'
<1> DEFINE h == [pager[c] EXCEPT !.dirty = {}, !.pc = "dbsync"]
<1>1. /\ pager[c].pc = "wdb" /\ Set(c, h)
      /\ UNCHANGED <<lock, reserver, journal, dirent>>
  BY DEF Grow
<1>2. PagerInv(pager[c], lock[c]) /\ pager[c].eState = "dbmod"
  BY <1>1, WritingLogs
<1>3. PagerInv(h, lock[c]) /\ ~Logging(h)
  BY <1>1, <1>2 DEF Logging, PagerInv, StateInv, CommitInv, HotInv, JournalInv,
     CleanInv, Fields, ReadPcs, PlayPcs, CommitPcs
<1>4. QED
  BY <1>1, <1>3, OnlyPagerMoves

\* The database file is synced, by a commit or a rollback.
LEMMA DbSyncStep ==
  ASSUME IInv, NEW c \in Conns, DbSync(c)
  PROVE  IInv'
<1> DEFINE h == [pager[c] EXCEPT !.eState = IF pager[c].commit THEN "finished" ELSE @,
                                 !.pc = "final"]
<1>1. /\ pager[c].pc = "dbsync" /\ Set(c, h)
      /\ UNCHANGED <<lock, reserver, journal, dirent>>
  BY DEF DbSync
<1>2. PagerInv(pager[c], lock[c])
  BY DEF IInv
<1>3. pager[c].eState \in {"open", "dbmod"} /\ lock[c] = EXCLUSIVE_LOCK
  BY <1>1, <1>2 DEF PagerInv, StateInv, ReadPcs, PlayPcs, CommitPcs
<1>4. PagerInv(h, lock[c]) /\ ~Logging(h)
  BY <1>1, <1>2, <1>3 DEF Logging, PagerInv, StateInv, CommitInv, HotInv, JournalInv,
     CleanInv, Fields, ReadPcs, PlayPcs, CommitPcs
<1>5. QED
  BY <1>1, <1>4, OnlyPagerMoves

-----------------------------------------------------------------------------
\* pager_playback()

\* pager_playback() begins, or a transaction without a change just ends.
LEMMA RollbackStep ==
  ASSUME IInv, NEW c \in Conns, Rollback(c)
  PROVE  IInv'
<1> DEFINE h == [pager[c] EXCEPT !.commit = FALSE, !.spill = 0, !.off = 0,
                                 !.pc = IF pager[c].eState = "locked" THEN "final" ELSE "play"]
<1>1. /\ InWrite(pager[c]) \/ pager[c].pc = "failed"
      /\ Set(c, h) /\ UNCHANGED <<lock, reserver, journal, dirent>>
  BY DEF Rollback, files
<1>2. PagerInv(pager[c], lock[c])
  BY DEF IInv
<1> DEFINE g == pager[c]
<1>3. g.eState \in {"locked", "cachemod", "dbmod"}
  BY <1>1, <1>2 DEF InWrite, PagerInv, StateInv, ReadPcs, PlayPcs
<1>4. /\ h = [f \in Fields |-> h[f]] /\ h.commit = FALSE /\ h.spill = 0 /\ h.off = 0
      /\ h.pc = (IF g.eState = "locked" THEN "final" ELSE "play")
      /\ h.eState = g.eState /\ h.hot = g.hot /\ h.jfd = g.jfd /\ h.dirty = g.dirty
      /\ h.needSync = g.needSync /\ h.inJournal = g.inJournal
      /\ h.orig = g.orig /\ h.dbSize = g.dbSize
  BY <1>2 DEF PagerInv, Fields
<1> HIDE DEF h, g
<1>5. g.pc \in {"idle", "failed"}
  BY <1>1 DEF InWrite, g
<1>6. StateInv(h, lock[c]) /\ CommitInv(h, lock[c]) /\ ~Logging(h)
  BY <1>2, <1>3, <1>4 DEF g, PagerInv, StateInv, CommitInv, Logging, PlayPcs
<1>7. HotInv(h) /\ JournalInv(h) /\ CleanInv(h)
  BY <1>2, <1>3, <1>4, <1>5 DEF g, PagerInv, HotInv, JournalInv, CleanInv, PlayPcs
<1>8. PagerInv(h, lock[c])
  BY <1>4, <1>6, <1>7 DEF PagerInv
<1>9. QED
  BY <1>1, <1>6, <1>8, OnlyPagerMoves

\* A pager that plays a journal back and stays in the same state.
LEMMA PlayGoesOn ==
  ASSUME NEW g, NEW l, PagerInv(g, l), NEW h, h = [f \in Fields |-> h[f]],
         g.pc \in {"play", "record", "playend"}, h.pc \in {"play", "record", "playend"},
         \A f \in Fields \ {"pc", "off", "nonce", "left", "dbSize", "cache", "vers"} :
           h[f] = g[f]
  PROVE  PagerInv(h, l) /\ ~Logging(h)
<1>1. /\ h.eState = g.eState /\ h.hot = g.hot /\ h.commit = g.commit
      /\ h.spill = g.spill /\ h.jfd = g.jfd /\ h.dirty = g.dirty
      /\ h.needSync = g.needSync /\ h.inJournal = g.inJournal
  BY DEF Fields
<1>2. g.eState \in {"open", "cachemod", "dbmod"} /\ (g.eState = "open" => g.hot)
  BY DEF PagerInv, StateInv, HotInv, ReadPcs, PlayPcs, CommitPcs
<1>3. StateInv(h, l) /\ CommitInv(h, l) /\ ~Logging(h)
  BY <1>1, <1>2 DEF PagerInv, StateInv, CommitInv, Logging, ReadPcs, PlayPcs, CommitPcs
<1>4. HotInv(h) /\ JournalInv(h) /\ CleanInv(h)
  BY <1>1, <1>2 DEF PagerInv, HotInv, JournalInv, CleanInv, PlayPcs
<1>5. QED
  BY <1>3, <1>4 DEF PagerInv

\* readJournalHdr(): the next segment, or the end of the journal.
LEMMA PlayHeaderStep ==
  ASSUME IInv, NEW c \in Conns, PlayHeader(c)
  PROVE  IInv'
<1> DEFINE g == pager[c]
           cells == Cur(journal[g.jfd])
           used == SlotsUsed(journal[g.jfd])
           at == g.off + 1
           own == ~g.hot /\ g.header /\ at = g.hdr
           found == at <= used /\ (own \/ IsMagic(cells[at]))
           x == cells[at]
           n == IF own /\ x.nRec = 0 THEN used - at ELSE x.nRec
           k == [g EXCEPT !.pc = "playend"]
           m == [g EXCEPT !.off = at, !.nonce = x.nonce, !.left = n,
                          !.dbSize = IF g.off = 0 THEN x.orig ELSE @,
                          !.pc = IF n = 0 THEN "play" ELSE "record"]
           h == IF ~found THEN k ELSE m
<1>1. /\ g.pc = "play" /\ Set(c, h) /\ UNCHANGED <<lock, reserver, journal, dirent>>
  BY DEF PlayHeader, Goto
<1>2. PagerInv(g, lock[c])
  BY DEF IInv
<1> HIDE DEF n, x, at, found, own, used
<1>3. /\ h = [f \in Fields |-> h[f]] /\ h.pc \in {"play", "record", "playend"}
      /\ \A f \in Fields \ {"pc", "off", "nonce", "left", "dbSize", "cache", "vers"} :
           h[f] = g[f]
  BY ZenonT(60), <1>2 DEF PagerInv, Fields
<1> HIDE DEF h, g
<1>4. PagerInv(h, lock[c]) /\ ~Logging(h)
  BY <1>1, <1>2, <1>3, PlayGoesOn
<1>5. QED
  BY <1>1, <1>4, OnlyPagerMoves

\* pager_playback_one_page(): the next record, or the end.
LEMMA PlayRecordStep ==
  ASSUME IInv, NEW c \in Conns, PlayRecord(c)
  PROVE  IInv'
<1> DEFINE g == pager[c]
           cells == Cur(journal[g.jfd])
           at == g.off + 1
           x == IF at > MaxSlot THEN NoCell ELSE cells[at]
           k == [g EXCEPT !.cache = IF g.hot THEN NoCache ELSE @, !.off = at,
                          !.left = @ - 1, !.pc = IF g.left = 1 THEN "play" ELSE "record"]
           m == [k EXCEPT !.cache[x.pgno] = x.data,
                          !.vers = IF x.pgno = 1 THEN Version(x.data) ELSE @]
           e == [g EXCEPT !.pc = "playend"]
<1>1. /\ g.pc = "record" /\ UNCHANGED <<lock, reserver, journal, dirent>>
      /\ Set(c, k) \/ Set(c, m) \/ Set(c, e)
  BY DEF PlayRecord
<1>2. PagerInv(g, lock[c])
  BY DEF IInv
<1> HIDE DEF x, at
<1>3. /\ k = [f \in Fields |-> k[f]] /\ k.pc \in {"play", "record", "playend"}
      /\ \A f \in Fields \ {"pc", "off", "nonce", "left", "dbSize", "cache", "vers"} :
           k[f] = g[f]
  BY <1>2 DEF PagerInv, Fields
<1>4. /\ e = [f \in Fields |-> e[f]] /\ e.pc \in {"play", "record", "playend"}
      /\ \A f \in Fields \ {"pc", "off", "nonce", "left", "dbSize", "cache", "vers"} :
           e[f] = g[f]
  BY <1>2 DEF PagerInv, Fields
<1> HIDE DEF k, e
<1>5. /\ m = [f \in Fields |-> m[f]] /\ m.pc \in {"play", "record", "playend"}
      /\ \A f \in Fields \ {"pc", "off", "nonce", "left", "dbSize", "cache", "vers"} :
           m[f] = g[f]
  BY <1>3 DEF Fields
<1> HIDE DEF m, g
<1>6. ASSUME NEW h \in {k, m, e}
      PROVE  PagerInv(h, lock[c]) /\ ~Logging(h)
  BY <1>1, <1>2, <1>3, <1>4, <1>5, PlayGoesOn
<1>7. QED
  BY <1>1, <1>6, OnlyPagerMoves

\* All is played back: the file is synced if it may have been written.
LEMMA PlayEndStep ==
  ASSUME IInv, NEW c \in Conns, PlayEnd(c)
  PROVE  IInv'
<1> DEFINE h == [pager[c] EXCEPT !.pc = IF DbInPlay(pager[c]) THEN "dbsync" ELSE "final"]
<1>1. /\ pager[c].pc = "playend" /\ Set(c, h) /\ UNCHANGED <<lock, reserver, journal, dirent>>
  BY DEF PlayEnd, files
<1>2. PagerInv(pager[c], lock[c])
  BY DEF IInv
<1>3. pager[c].eState \in {"open", "cachemod", "dbmod"}
  BY <1>1, <1>2 DEF PagerInv, StateInv, ReadPcs, PlayPcs, CommitPcs
<1>4. PagerInv(h, lock[c]) /\ ~Logging(h)
  BY <1>1, <1>2, <1>3 DEF DbInPlay, Logging, PagerInv, StateInv, CommitInv, HotInv, JournalInv,
     CleanInv, Fields, ReadPcs, PlayPcs, CommitPcs
<1>5. QED
  BY <1>1, <1>4, OnlyPagerMoves

-----------------------------------------------------------------------------
\* pager_end_transaction()

\* A transaction that is ending keeps other writers away.
LEMMA EndingIsAlone ==
  ASSUME IInv, NEW c \in Conns, pager[c].pc \in {"final", "finsync", "end"}
  PROVE  /\ PagerInv(pager[c], lock[c]) /\ FilesInv /\ LockTypeOK
         /\ lock[c] >= RESERVED_LOCK
         /\ pager[c].eState \in {"open", "locked", "cachemod", "dbmod", "finished"}
         /\ pager[c].eState = "open" => pager[c].hot
<1>1. PagerInv(pager[c], lock[c]) /\ FilesInv /\ LockTypeOK
  BY DEF IInv
<1>2. /\ lock[c] >= RESERVED_LOCK
      /\ pager[c].eState \in {"open", "locked", "cachemod", "dbmod", "finished"}
  BY <1>1 DEF PagerInv, StateInv, ReadPcs, CommitPcs
<1>3. pager[c].eState = "open" => pager[c].hot
  BY <1>1 DEF PagerInv, HotInv, PlayPcs
<1>4. QED
  BY <1>1, <1>2, <1>3

\* The pager as it goes on with the end of its transaction.
LEMMA EndingGoesOn ==
  ASSUME NEW g, NEW l, PagerInv(g, l), g.pc \in {"final", "finsync"},
         NEW h, NEW i \in 0..MaxInode, NEW pc \in {"finsync", "end"},
         h = [g EXCEPT !.jfd = i, !.pc = pc],
         pc = "finsync" => i # 0
  PROVE  PagerInv(h, l) /\ ~Logging(h)
<1>1. /\ h = [f \in Fields |-> h[f]] /\ h.pc = pc /\ h.jfd = i
      /\ h.eState = g.eState /\ h.hot = g.hot /\ h.commit = g.commit
      /\ h.spill = g.spill /\ h.dirty = g.dirty /\ h.off = g.off
      /\ h.needSync = g.needSync /\ h.inJournal = g.inJournal
      /\ h.orig = g.orig /\ h.dbSize = g.dbSize
  BY DEF PagerInv, Fields
<1>2. StateInv(h, l) /\ CommitInv(h, l) /\ ~Logging(h)
  BY <1>1 DEF PagerInv, StateInv, CommitInv, Logging, ReadPcs, PlayPcs, CommitPcs
<1>3. HotInv(h) /\ JournalInv(h) /\ CleanInv(h)
  BY <1>1 DEF PagerInv, HotInv, JournalInv, CleanInv, PlayPcs
<1>4. QED
  BY <1>1, <1>2, <1>3 DEF PagerInv

\* In mode "truncate" the journal gets another inode, for every connection
\* that has it open.
LEMMA SwapStep ==
  ASSUME IInv, NEW c \in Conns, pager[c].pc = "final", pager[c].jfd # 0,
         NEW new \in Inodes, UNCHANGED lockVars,
         journal' = [journal EXCEPT ![new] = NoJournal],
         dirent' = [cur |-> new, may |-> dirent.may \cup {new}],
         pager' = [d \in Conns |->
           IF d = c THEN [pager[c] EXCEPT !.jfd = new, !.pc = "finsync"]
           ELSE IF pager[d].jfd = pager[c].jfd THEN [pager[d] EXCEPT !.jfd = new]
           ELSE pager[d]]
  PROVE  IInv'
<1>1. /\ PagerInv(pager[c], lock[c]) /\ FilesInv /\ lock[c] >= RESERVED_LOCK
      /\ new \in 0..MaxInode /\ new # 0
  BY EndingIsAlone, Bounds DEF Inodes
<1>2. LockTypeOK' /\ Exclusion'
  BY LockTypeStep, ExclusionStep DEF IInv
<1>3. FilesInv'
  <2>1. /\ journal' = [k \in Inodes |-> journal'[k]]
        /\ \A k \in Inodes : journal'[k] = [s \in Slots |-> journal'[k][s]]
    BY <1>1 DEF FilesInv, NoJournal
  <2>2. /\ dirent' = [cur |-> dirent'.cur, may |-> dirent'.may]
        /\ dirent'.cur \in 0..MaxInode /\ dirent'.may \subseteq 0..MaxInode
    BY <1>1 DEF FilesInv
  <2>3. QED
    BY <2>1, <2>2 DEF FilesInv
<1>4. lock' = lock
  BY DEF lockVars
<1>5. PagerInv(pager'[c], lock'[c]) /\ ~Logging(pager'[c])
  <2>1. pager'[c] = [pager[c] EXCEPT !.jfd = new, !.pc = "finsync"]
    OBVIOUS
  <2>2. QED
    BY <1>1, <1>4, <2>1, EndingGoesOn
<1>6. ASSUME NEW d \in Conns, d # c
      PROVE  PagerInv(pager'[d], lock'[d]) /\ ~Logging(pager'[d])
  <2> DEFINE g == pager[d]
             h == pager'[d]
  <2>1. PagerInv(g, lock[d]) /\ ~Logging(g)
    <3>1. PagerInv(g, lock[d]) /\ LockTypeOK /\ Exclusion
      BY DEF IInv
    <3>2. ~(lock[d] >= RESERVED_LOCK)
      BY <1>1, <1>6, <3>1 DEF Exclusion, Others, LockTypeOK, Levels
    <3>3. QED
      BY <3>1, <3>2, LoggingHasReserved
  <2>2. h = g \/ h = [g EXCEPT !.jfd = new]
    BY <1>6
  <2> HIDE DEF g, h
  <2>3. CASE h = g
    BY <1>4, <2>1, <2>3 DEF h
  <2>4. CASE h = [g EXCEPT !.jfd = new]
    <3>1. /\ h = [f \in Fields |-> h[f]] /\ h.jfd = new /\ h.pc = g.pc
          /\ h.eState = g.eState /\ h.hot = g.hot /\ h.commit = g.commit
          /\ h.spill = g.spill /\ h.dirty = g.dirty /\ h.off = g.off
          /\ h.needSync = g.needSync /\ h.inJournal = g.inJournal
          /\ h.orig = g.orig /\ h.dbSize = g.dbSize
      BY <2>1, <2>4 DEF PagerInv, Fields
    <3>2. StateInv(h, lock[d]) /\ CommitInv(h, lock[d]) /\ ~Logging(h)
      BY <2>1, <3>1 DEF PagerInv, StateInv, CommitInv, Logging
    <3>3. HotInv(h) /\ JournalInv(h) /\ CleanInv(h)
      BY <1>1, <2>1, <3>1 DEF PagerInv, HotInv, JournalInv, CleanInv
    <3>4. QED
      BY <1>4, <3>1, <3>2, <3>3 DEF PagerInv, h
  <2>5. QED
    BY <2>2, <2>3, <2>4
<1>7. pager' = [d \in Conns |-> pager'[d]]
  OBVIOUS
<1>8. QED
  BY <1>2, <1>3, <1>5, <1>6, <1>7 DEF IInv

\* pager_end_transaction() deletes, truncates or overwrites the journal.
LEMMA FinalizeStep ==
  ASSUME IInv, NEW c \in Conns, Finalize(c)
  PROVE  IInv'
<1> DEFINE g == pager[c]
<1>1. /\ g.pc = "final" /\ UNCHANGED <<lock, reserver>>
      /\ \/ /\ mode = "delete" /\ g.jfd # 0
            /\ dirent' = [cur |-> 0, may |-> MayBe(dirent.may \cup {0})]
            /\ Set(c, [g EXCEPT !.jfd = 0, !.pc = "end"])
            /\ UNCHANGED journal
         \/ /\ mode = "truncate" /\ g.jfd # 0 /\ g.off # 0
            /\ FreeInodes # {}
            /\ journal' = [journal EXCEPT ![NewInode] = NoJournal]
            /\ dirent' = [cur |-> NewInode, may |-> dirent.may \cup {NewInode}]
            /\ pager' = [d \in Conns |->
                 IF d = c THEN [g EXCEPT !.jfd = NewInode, !.pc = "finsync"]
                 ELSE IF pager[d].jfd = g.jfd THEN [pager[d] EXCEPT !.jfd = NewInode]
                 ELSE pager[d]]
         \/ /\ mode = "persist" /\ g.jfd # 0 /\ g.off # 0
            /\ PutCell(g.jfd, 1, Junk)
            /\ Goto(c, "finsync")
            /\ UNCHANGED dirent
         \/ Goto(c, "end") /\ UNCHANGED <<journal, dirent>>
  BY DEF Finalize
<1>2. /\ PagerInv(g, lock[c]) /\ FilesInv /\ LockTypeOK /\ lock[c] >= RESERVED_LOCK
      /\ UNCHANGED lockVars
  BY <1>1, EndingIsAlone DEF lockVars
<1>3. g.jfd \in 0..MaxInode /\ 0 \in 0..MaxInode
  BY <1>2, Bounds DEF PagerInv, JournalInv
<1>4. CASE /\ dirent' = [cur |-> 0, may |-> MayBe(dirent.may \cup {0})]
           /\ Set(c, [g EXCEPT !.jfd = 0, !.pc = "end"])
           /\ UNCHANGED journal
  <2> DEFINE h == [g EXCEPT !.jfd = 0, !.pc = "end"]
  <2>1. PagerInv(h, lock[c]) /\ ~Logging(h)
    BY <1>1, <1>2, <1>3, EndingGoesOn
  <2>2. MayBe(dirent.may \cup {0}) \subseteq 0..MaxInode
    BY <1>2, <1>3 DEF FilesInv, MayBe
  <2>3. /\ dirent' = [cur |-> dirent'.cur, may |-> dirent'.may]
        /\ dirent'.cur \in 0..MaxInode /\ dirent'.may \subseteq 0..MaxInode
    BY <1>3, <1>4, <2>2
  <2>4. FilesInv'
    BY <1>2, <1>4, <2>3 DEF FilesInv
  <2> HIDE DEF h
  <2>5. Set(c, h)
    BY <1>4 DEF h
  <2>6. QED
    BY <1>2, <2>1, <2>4, <2>5, OneMoves DEF lockVars
<1>5. CASE /\ g.jfd # 0 /\ FreeInodes # {}
           /\ journal' = [journal EXCEPT ![NewInode] = NoJournal]
           /\ dirent' = [cur |-> NewInode, may |-> dirent.may \cup {NewInode}]
           /\ pager' = [d \in Conns |->
                IF d = c THEN [g EXCEPT !.jfd = NewInode, !.pc = "finsync"]
                ELSE IF pager[d].jfd = g.jfd THEN [pager[d] EXCEPT !.jfd = NewInode]
                ELSE pager[d]]
  <2>1. FreeInodes \in SUBSET Nat /\ FreeInodes # {}
    BY <1>5, Bounds DEF FreeInodes, Inodes
  <2>2. NewInode \in Inodes
    BY <2>1, MinOfNat DEF NewInode, FreeInodes
  <2>3. QED
    BY <1>1, <1>2, <1>5, <2>2, SwapStep
<1>6. CASE g.jfd # 0 /\ PutCell(g.jfd, 1, Junk) /\ Goto(c, "finsync") /\ UNCHANGED dirent
  <2> DEFINE h == [g EXCEPT !.pc = "finsync"]
  <2>1. h = [g EXCEPT !.jfd = g.jfd, !.pc = "finsync"]
    BY <1>2 DEF PagerInv, Fields
  <2>2. PagerInv(h, lock[c]) /\ ~Logging(h)
    BY <1>1, <1>2, <1>3, <1>6, <2>1, EndingGoesOn
  <2>3. journal' = [journal EXCEPT ![g.jfd][1] = Written(@, Junk)]
    BY <1>6 DEF PutCell
  <2>4. FilesInv'
    BY <1>2, <1>6, <2>3 DEF FilesInv
  <2>5. Set(c, h)
    BY <1>6 DEF Goto
  <2> HIDE DEF h
  <2>6. QED
    BY <1>2, <2>2, <2>4, <2>5, OneMoves DEF lockVars
<1>7. CASE Goto(c, "end") /\ UNCHANGED <<journal, dirent>>
  <2> DEFINE h == [g EXCEPT !.pc = "end"]
  <2>1. h = [g EXCEPT !.jfd = g.jfd, !.pc = "end"]
    BY <1>2 DEF PagerInv, Fields
  <2>2. PagerInv(h, lock[c]) /\ ~Logging(h)
    BY <1>1, <1>2, <1>3, <2>1, EndingGoesOn
  <2>3. Set(c, h)
    BY <1>7 DEF Goto
  <2> HIDE DEF h
  <2>4. QED
    BY <1>1, <1>7, <2>2, <2>3, OnlyPagerMoves
<1>8. QED
  BY <1>1, <1>4, <1>5, <1>6, <1>7

\* The end of the journal is synced.
LEMMA FinSyncStep ==
  ASSUME IInv, NEW c \in Conns, FinSync(c)
  PROVE  IInv'
<1> DEFINE g == pager[c]
           h == [g EXCEPT !.pc = "end"]
<1>1. /\ g.pc = "finsync" /\ SyncJournalFile(g.jfd, journal[g.jfd])
      /\ Set(c, h) /\ UNCHANGED lockVars
  BY DEF FinSync, Goto, lockVars
<1>2. PagerInv(g, lock[c]) /\ FilesInv /\ LockTypeOK /\ lock[c] >= RESERVED_LOCK
  BY <1>1, EndingIsAlone
<1>3. g.jfd \in Inodes
  BY <1>1, <1>2, Bounds DEF PagerInv, JournalInv, Inodes
<1>4. FilesInv'
  BY <1>1, <1>2, <1>3, SyncedFiles DEF FilesInv
<1>5. h = [g EXCEPT !.jfd = g.jfd, !.pc = "end"] /\ g.jfd \in 0..MaxInode
  BY <1>2 DEF PagerInv, JournalInv, Fields
<1>6. PagerInv(h, lock[c]) /\ ~Logging(h)
  BY <1>1, <1>2, <1>5, EndingGoesOn
<1> HIDE DEF h
<1>7. QED
  BY <1>1, <1>2, <1>4, <1>6, OneMoves DEF lockVars

\* A transaction that has ended leaves a reader, or a connection that can
\* begin to read now that the hot journal is gone.
LEMMA ConcludeStep ==
  ASSUME IInv, NEW c \in Conns, Conclude(c)
  PROVE  IInv'
<1> DEFINE g == pager[c]
           cache == [p \in Pages |-> IF p > g.dbSize THEN NoPage ELSE g.cache[p]]
           n == IF g.commit THEN g.nPage ELSE Version(cache[1]).nPage
           e == Ended(g)
           h == [e EXCEPT !.cache = cache, !.nPage = n,
                          !.eState = IF g.hot THEN "open" ELSE "reader",
                          !.pc = IF g.hot THEN "validate" ELSE "idle"]
<1>1. /\ g.pc = "end" /\ Unlock(c, SHARED_LOCK) /\ UNCHANGED <<journal, dirent>>
  BY DEF Conclude
<1>2. PagerInv(g, lock[c]) /\ FilesInv /\ LockTypeOK
  BY <1>1, EndingIsAlone
<1>3. /\ e = [f \in Fields |-> e[f]] /\ e.nPage = g.nPage
      /\ e.dirty = {} /\ e.needSync = {} /\ e.inJournal = {} /\ e.spill = 0
      /\ e.off = 0 /\ e.hot = FALSE /\ e.commit = FALSE /\ e.jfd = g.jfd
  BY ZenonT(30), <1>2 DEF PagerInv, Ended, Fields
<1>4. Set(c, h)
  BY <1>3 DEF Conclude
<1> HIDE DEF e, cache, n
<1>5. /\ h = [f \in Fields |-> h[f]]
      /\ h.dirty = {} /\ h.needSync = {} /\ h.inJournal = {} /\ h.spill = 0
      /\ h.off = 0 /\ h.hot = FALSE /\ h.commit = FALSE /\ h.jfd = g.jfd
      /\ h.eState = (IF g.hot THEN "open" ELSE "reader")
      /\ h.pc = (IF g.hot THEN "validate" ELSE "idle")
  BY <1>3 DEF Fields
<1> HIDE DEF h, g
<1>6. StateInv(h, SHARED_LOCK) /\ CommitInv(h, SHARED_LOCK) /\ ~Logging(h)
  BY <1>5 DEF StateInv, CommitInv, Logging, ReadPcs
<1>7. HotInv(h) /\ JournalInv(h) /\ CleanInv(h)
  BY <1>2, <1>5 DEF PagerInv, HotInv, JournalInv, CleanInv, PlayPcs
<1>8. PagerInv(h, SHARED_LOCK)
  BY <1>5, <1>6, <1>7 DEF PagerInv
<1>9. LockNext /\ lock'[c] = SHARED_LOCK /\ \A d \in Others(c) : lock'[d] = lock[d]
  BY <1>1, <1>2, LockGiven
<1>10. FilesInv'
  BY <1>1, <1>2 DEF FilesInv
<1>11. QED
  BY <1>1, <1>4, <1>6, <1>8, <1>9, <1>10, OneMoves

-----------------------------------------------------------------------------
\* Faults

\* A call that fails leaves a pager that has unlocked, one whose commit has
\* to be rolled back, or one in the error state.
LEMMA IoErrorStep ==
  ASSUME IInv, NEW c \in Conns, IoError(c)
  PROVE  IInv'
<1> DEFINE g == pager[c]
<1>1. /\ g.pc \in {"jsync", "jhdr", "jsync2", "wdb", "dbsync", "play", "record",
                   "final", "finsync"}
      /\ g.eState # "locked" /\ UNCHANGED <<journal, dirent>>
      /\ \/ g.hot /\ Unlock(c, NO_LOCK) /\ Set(c, Unlocked(g, TRUE))
         \/ /\ g.commit /\ g.eState \in {"cachemod", "dbmod"}
            /\ Goto(c, "failed") /\ UNCHANGED lockVars
         \/ /\ ~g.hot /\ Set(c, [g EXCEPT !.eState = "error", !.pc = "idle"])
            /\ IF g.pc \in {"final", "finsync"}
               THEN Unlock(c, SHARED_LOCK) ELSE UNCHANGED lockVars
  BY DEF IoError
<1>2. PagerInv(g, lock[c]) /\ FilesInv /\ LockTypeOK
  BY DEF IInv
<1>3. FilesInv' /\ journal' = journal
  BY <1>1, <1>2 DEF FilesInv
<1>4. CASE Unlock(c, NO_LOCK) /\ Set(c, Unlocked(g, TRUE))
  <2>1. PagerInv(Unlocked(g, TRUE), NO_LOCK) /\ ~Logging(Unlocked(g, TRUE))
    BY <1>2, UnlockedIsOpen
  <2>2. LockNext /\ lock'[c] = NO_LOCK /\ \A d \in Others(c) : lock'[d] = lock[d]
    BY <1>2, <1>4, LockGiven
  <2>3. QED
    BY <1>3, <1>4, <2>1, <2>2, OneMoves
<1>5. CASE /\ g.commit /\ g.eState \in {"cachemod", "dbmod"}
           /\ Goto(c, "failed") /\ UNCHANGED lockVars
  <2> DEFINE h == [g EXCEPT !.pc = "failed"]
  <2>1. PagerInv(h, lock[c]) /\ ~Logging(h)
    BY <1>1, <1>2, <1>5 DEF Logging, PagerInv, StateInv, CommitInv, HotInv, JournalInv,
       CleanInv, Fields, ReadPcs, PlayPcs, CommitPcs
  <2>2. Set(c, h)
    BY <1>5 DEF Goto
  <2> HIDE DEF h
  <2>3. QED
    BY <1>1, <1>5, <2>1, <2>2, OnlyPagerMoves DEF lockVars
<1>6. CASE /\ ~g.hot /\ Set(c, [g EXCEPT !.eState = "error", !.pc = "idle"])
           /\ IF g.pc \in {"final", "finsync"}
              THEN Unlock(c, SHARED_LOCK) ELSE UNCHANGED lockVars
  <2> DEFINE h == [g EXCEPT !.eState = "error", !.pc = "idle"]
  <2>1. /\ h = [f \in Fields |-> h[f]] /\ h.eState = "error" /\ h.pc = "idle"
        /\ h.commit = g.commit /\ h.hot = g.hot /\ h.jfd = g.jfd
    BY <1>2 DEF PagerInv, Fields
  <2>2. Set(c, h)
    BY <1>6
  <2>3. lock[c] \in Levels /\ lock[c] >= RESERVED_LOCK
    BY SMTT(90), <1>1, <1>2, <1>6 DEF PagerInv, StateInv, HotInv, ReadPcs, PlayPcs, CommitPcs,
       LockTypeOK
  <2> HIDE DEF h
  <2>4. HotInv(h) /\ JournalInv(h) /\ CleanInv(h) /\ ~Logging(h)
    BY <1>2, <1>6, <2>1 DEF PagerInv, HotInv, JournalInv, CleanInv, Logging
  <2>5. ASSUME NEW l, l >= SHARED_LOCK
        PROVE  PagerInv(h, l)
    BY <1>2, <2>1, <2>4, <2>5 DEF PagerInv, StateInv, CommitInv
  <2>6. CASE Unlock(c, SHARED_LOCK)
    <3>1. LockNext /\ lock'[c] = SHARED_LOCK /\ \A d \in Others(c) : lock'[d] = lock[d]
      BY <1>2, <2>6, LockGiven
    <3>2. QED
      BY <1>3, <2>2, <2>4, <2>5, <3>1, OneMoves
  <2>7. CASE UNCHANGED lockVars
    <3>1. lock[c] >= SHARED_LOCK
      BY <2>3 DEF Levels
    <3>2. QED
      BY <1>1, <2>2, <2>4, <2>5, <2>7, <3>1, OnlyPagerMoves DEF lockVars
  <2>8. QED
    BY <1>6, <2>6, <2>7
<1>7. QED
  BY <1>1, <1>4, <1>5, <1>6

\* A pager in the error state gives everything up.
LEMMA ErrorUnlockStep ==
  ASSUME IInv, NEW c \in Conns, ErrorUnlock(c)
  PROVE  IInv'
<1>1. /\ Unlock(c, NO_LOCK) /\ Set(c, Unlocked(pager[c], TRUE))
      /\ UNCHANGED <<journal, dirent>>
  BY DEF ErrorUnlock, files
<1>2. PagerInv(pager[c], lock[c]) /\ FilesInv /\ LockTypeOK
  BY DEF IInv
<1>3. PagerInv(Unlocked(pager[c], TRUE), NO_LOCK) /\ ~Logging(Unlocked(pager[c], TRUE))
  BY <1>2, UnlockedIsOpen
<1>4. LockNext /\ lock'[c] = NO_LOCK /\ \A d \in Others(c) : lock'[d] = lock[d]
  BY <1>1, <1>2, LockGiven
<1>5. FilesInv'
  BY <1>1, <1>2 DEF FilesInv
<1>6. QED
  BY <1>1, <1>3, <1>4, <1>5, OneMoves

\* A pager that was just opened.
LEMMA FreshIsOpen == PagerInv(Fresh, NO_LOCK) /\ ~Logging(Fresh)
<1>1. /\ Fresh = [f \in Fields |-> Fresh[f]]
      /\ Fresh.eState = "open" /\ Fresh.pc = "idle" /\ Fresh.jfd = 0
      /\ Fresh.dirty = {} /\ Fresh.needSync = {} /\ Fresh.inJournal = {}
      /\ Fresh.spill = 0 /\ Fresh.off = 0 /\ Fresh.hot = FALSE /\ Fresh.commit = FALSE
  BY DEF Fresh, Fields
<1>2. StateInv(Fresh, NO_LOCK) /\ CommitInv(Fresh, NO_LOCK) /\ ~Logging(Fresh)
  BY <1>1 DEF StateInv, CommitInv, Logging
<1>3. HotInv(Fresh) /\ CleanInv(Fresh)
  BY <1>1 DEF HotInv, CleanInv, PlayPcs
<1>4. JournalInv(Fresh)
  BY <1>1, Bounds DEF JournalInv, PlayPcs
<1>5. QED
  BY <1>1, <1>2, <1>3, <1>4 DEF PagerInv

\* A process is killed: its locks are gone, its files are not.
LEMMA CrashStep ==
  ASSUME IInv, NEW c \in Conns, Crash(c)
  PROVE  IInv'
<1>1. Vanish({c}) /\ Set(c, Fresh) /\ UNCHANGED <<journal, dirent>>
  BY DEF Crash, files
<1>2. FilesInv /\ LockTypeOK
  BY DEF IInv
<1>3. /\ LockNext /\ lock'[c] = NO_LOCK
      /\ \A d \in Others(c) : lock'[d] = lock[d]
  BY <1>1, <1>2 DEF LockNext, Vanish, Others, LockTypeOK
<1>4. FilesInv'
  BY <1>1, <1>2 DEF FilesInv
<1>5. QED
  BY <1>1, <1>3, <1>4, FreshIsOpen, OneMoves

\* After a power loss every connection is gone, and the files are whatever the
\* disk has kept.
LEMMA PowerLossStep ==
  ASSUME IInv, PowerLoss
  PROVE  IInv'
<1>1. /\ Vanish(Conns) /\ pager' = [c \in Conns |-> Fresh]
      /\ FilesInv /\ LockTypeOK /\ Exclusion
  BY DEF PowerLoss, IInv
<1>2. LockNext /\ \A c \in Conns : lock'[c] = NO_LOCK
  BY <1>1 DEF LockNext, Vanish
<1>3. LockTypeOK' /\ Exclusion'
  BY <1>1, <1>2, LockTypeStep, ExclusionStep
<1>4. FilesInv'
  <2>1. PICK i \in dirent.may :
          /\ dirent' = Stable(i)
          /\ IF i = 0 THEN journal' = [k \in Inodes |-> NoJournal]
             ELSE \E j \in Survivors(journal[i]) :
                    journal' = [k \in Inodes |->
                      IF k = i THEN [s \in Slots |-> Stable(j[s])] ELSE NoJournal]
    BY DEF PowerLoss
  <2>2. /\ dirent' = [cur |-> dirent'.cur, may |-> dirent'.may]
        /\ dirent'.cur \in 0..MaxInode /\ dirent'.may \subseteq 0..MaxInode
    BY <1>1, <2>1 DEF FilesInv, Stable
  <2>3. /\ journal' = [k \in Inodes |-> journal'[k]]
        /\ \A k \in Inodes : journal'[k] = [s \in Slots |-> journal'[k][s]]
    <3>1. CASE journal' = [k \in Inodes |-> NoJournal]
      BY <3>1 DEF NoJournal
    <3>2. ASSUME NEW j, journal' = [k \in Inodes |->
                   IF k = i THEN [s \in Slots |-> Stable(j[s])] ELSE NoJournal]
          PROVE  /\ journal' = [k \in Inodes |-> journal'[k]]
                 /\ \A k \in Inodes : journal'[k] = [s \in Slots |-> journal'[k][s]]
      BY <3>2 DEF NoJournal
    <3>3. QED
      BY <2>1, <3>1, <3>2
  <2>4. QED
    BY <2>2, <2>3 DEF FilesInv
<1>5. \A c \in Conns : PagerInv(pager'[c], lock'[c]) /\ ~Logging(pager'[c])
  BY <1>1, <1>2, FreshIsOpen
<1>6. pager' = [c \in Conns |-> pager'[c]]
  BY <1>1
<1>7. QED
  BY <1>3, <1>4, <1>5, <1>6 DEF IInv

-----------------------------------------------------------------------------
\* The invariant

\* When the first connection comes there is no lock, no journal and no pager that
\* has anything.
LEMMA InitInv == Init => IInv
<1> SUFFICES ASSUME Init PROVE IInv
  OBVIOUS
<1>1. /\ LockInit /\ journal = [i \in Inodes |-> NoJournal] /\ dirent = Stable(0)
      /\ pager = [c \in Conns |-> Fresh]
  BY DEF Init
<1>2. LockTypeOK /\ Exclusion /\ \A c \in Conns : lock[c] = NO_LOCK
  BY <1>1 DEF LockInit, LockTypeOK, Exclusion, Others, Levels
<1>3. FilesInv
  BY <1>1, Bounds DEF FilesInv, Stable, NoJournal
<1>4. \A c \in Conns : PagerInv(pager[c], lock[c]) /\ ~Logging(pager[c])
  BY <1>1, <1>2, FreshIsOpen
<1>5. QED
  BY <1>1, <1>2, <1>3, <1>4 DEF IInv

\* No step of a pager and no fault breaks the invariant.
LEMMA StepInv == IInv /\ [Next]_vars => IInv'
<1> SUFFICES ASSUME IInv, [Next]_vars PROVE IInv'
  OBVIOUS
<1>1. ASSUME NEW c \in Conns, Reading(c)
      PROVE  IInv'
  BY <1>1, SharedLockStep, JournalExistsStep, CheckReservedStep, EmptyReserveStep,
     EmptyDeleteStep, FirstByteStep, HotLockStep, HotOpenStep, HotSyncStep,
     ValidateStep, EndReadStep, ReadStep DEF Reading
<1>2. ASSUME NEW c \in Conns, Writing(c)
      PROVE  IInv'
  BY <1>2, BeginWriteStep, BeginCommitStep, CommitNothingStep, WriteStep, CommitStep,
     SpillStep, PendingStep, ExclusiveStep, BusyStep, JSyncStep, JHeaderStep,
     JSync2Step, WritePageStep, WriteSpilledStep, GrowStep, DbSyncStep DEF Writing
<1>3. ASSUME NEW c \in Conns, Ending(c)
      PROVE  IInv'
  BY <1>3, RollbackStep, PlayHeaderStep, PlayRecordStep, PlayEndStep, FinalizeStep,
     FinSyncStep, ConcludeStep DEF Ending
<1>4. ASSUME NEW c \in Conns, Fault(c)
      PROVE  IInv'
  BY <1>4, IoErrorStep, ErrorUnlockStep, CrashStep DEF Fault
<1>5. CASE UNCHANGED vars
  BY <1>5 DEF vars, IInv, LockTypeOK, Exclusion, FilesInv
<1>6. QED
  BY <1>1, <1>2, <1>3, <1>4, <1>5, PowerLossStep DEF Next

\* The invariant holds with any number of connections, pages, journal slots,
\* transactions, errors and crashes: what the theorems below are read off from.
THEOREM Invariance == Spec => []IInv
<1>1. QED
  BY InitInv, StepInv, PTL DEF Spec

-----------------------------------------------------------------------------
\* What follows from it

\* A writer of the database file is alone with it: the locking of the pagers
\* is a behaviour of FileLock, whose rules keep this.
THEOREM WriterIsAlone == Spec => []Exclusion
<1>1. IInv => Exclusion
  BY DEF IInv
<1>2. QED
  BY <1>1, Invariance, PTL

\* assert_pager_state() never fails on the lock, the size or the journal of a
\* pager, whatever call it is in.
LEMMA PagersAreOK ==
  ASSUME IInv, NEW c \in Conns
  PROVE  PagerStateOK(c)
<1> DEFINE g == pager[c]
<1>1. PagerInv(g, lock[c])
  BY DEF IInv
<1>2. /\ g.eState \in States
      /\ g.eState = "reader" => lock[c] >= SHARED_LOCK
      /\ g.eState \in {"locked", "cachemod"} => lock[c] >= RESERVED_LOCK
      /\ g.eState \in {"dbmod", "finished"} => lock[c] = EXCLUSIVE_LOCK
  BY <1>1 DEF PagerInv, StateInv, States
<1>3. /\ g.eState = "locked" => g.dbSize = g.orig
      /\ g.eState \in {"cachemod", "dbmod", "finished"} /\ g.pc # "end" => g.jfd # 0
  BY <1>1 DEF PagerInv, CleanInv, JournalInv
<1>4. QED
  BY <1>2, <1>3 DEF PagerStateOK

\* assert_pager_state() never fails on the lock, the size or the journal, in any
\* state the pagers can reach together.
THEOREM PagerStates == Spec => []PagersOK
<1>1. IInv => PagersOK
  BY PagersAreOK DEF PagersOK
<1>2. QED
  BY <1>1, Invariance, PTL

-----------------------------------------------------------------------------
\* The database file is changed by a commit or a spill that writes pages, by
\* what ends it, and by a rollback, all under EXCLUSIVE.
LEMMA OneWrites ==
  ASSUME IInv, NEW c \in Conns,
         Reading(c) \/ Writing(c) \/ Ending(c) \/ Fault(c), db' # db
  PROVE  /\ lock[c] = EXCLUSIVE_LOCK
         /\ \/ WritePage(c) \/ WriteSpilled(c) \/ Grow(c) \/ IoError(c)
            \/ pager[c].pc # "wdb"
<1>1. PagerInv(pager[c], lock[c])
  BY DEF IInv
<1>2. \/ WritePage(c) \/ WriteSpilled(c) \/ Grow(c) \/ DbSync(c)
      \/ PlayHeader(c) \/ PlayRecord(c) \/ Conclude(c) \/ IoError(c)
  <2>1. CASE Reading(c)
    BY <2>1 DEF Reading, SharedLock, JournalExists, CheckReserved, EmptyReserve,
       EmptyDelete, FirstByte, HotLock, HotOpen, HotSync, Validate, EndRead, Read, files
  <2>2. CASE Writing(c)
    BY <2>2 DEF Writing, BeginWrite, BeginCommit, CommitNothing, Write, Commit, Spill,
       Pending, Exclusive, Busy, JSync, JHeader, JSync2, files
  <2>3. CASE Ending(c)
    BY <2>3 DEF Ending, Rollback, PlayEnd, Finalize, FinSync, files
  <2>4. CASE Fault(c)
    BY <2>4 DEF Fault, ErrorUnlock, Crash, files
  <2>5. QED
    BY <2>1, <2>2, <2>3, <2>4
<1>3. CASE WritePage(c) \/ WriteSpilled(c) \/ Grow(c)
  <2>1. pager[c].pc = "wdb"
    BY <1>3 DEF WritePage, WriteSpilled, Grow
  <2>2. QED
    BY <1>3, <2>1, WritingLogs
<1>4. CASE DbSync(c)
  <2>1. pager[c].pc = "dbsync"
    BY <1>4 DEF DbSync
  <2>2. QED
    BY <1>1, <2>1 DEF PagerInv, StateInv, ReadPcs, PlayPcs, CommitPcs
<1>5. CASE PlayHeader(c) \/ PlayRecord(c)
  <2>1. pager[c].pc \in {"play", "record"} /\ DbInPlay(pager[c])
    BY <1>5 DEF PlayHeader, PlayRecord
  <2>2. QED
    BY <1>1, <2>1 DEF DbInPlay, PagerInv, StateInv, ReadPcs, PlayPcs, CommitPcs
<1>6. CASE Conclude(c)
  <2>1. pager[c].pc = "end" /\ pager[c].eState = "finished"
    BY <1>6 DEF Conclude
  <2>2. QED
    BY <1>1, <2>1 DEF PagerInv, StateInv
<1>7. CASE IoError(c)
  <2>1. pager[c].pc = "wdb"
    BY <1>7 DEF IoError
  <2>2. QED
    BY <1>7, <2>1, WritingLogs
<1>8. QED
  BY <1>2, <1>3, <1>4, <1>5, <1>6, <1>7

\* Whoever reads the file under SHARED sees it stand still; a power loss, the
\* only other thing that changes it, leaves nobody who is reading.
THEOREM WrittenAlone == Spec => FileIsWrittenAlone
<1>1. ASSUME IInv, [Next]_vars, db' # db
      PROVE  \/ \E c \in Conns :
                  lock[c] = EXCLUSIVE_LOCK /\ \A d \in Others(c) : lock[d] = NO_LOCK
             \/ \A c \in Conns : lock'[c] = NO_LOCK
  <2>1. CASE PowerLoss
    BY <2>1 DEF PowerLoss, Vanish
  <2>2. ASSUME NEW c \in Conns, Reading(c) \/ Writing(c) \/ Ending(c) \/ Fault(c)
        PROVE  lock[c] = EXCLUSIVE_LOCK /\ \A d \in Others(c) : lock[d] = NO_LOCK
    <3>1. lock[c] = EXCLUSIVE_LOCK
      BY <1>1, <2>2, OneWrites
    <3>2. QED
      BY <1>1, <3>1 DEF IInv, Exclusion
  <2>3. QED
    BY <1>1, <2>1, <2>2 DEF Next, vars
<1>2. QED
  BY <1>1, Invariance, PTL DEF Spec, FileIsWrittenAlone

\* The database file has a cell for every page.
DbShape == db = [p \in Pages |-> db[p]]

\* Whoever writes, cuts or restores the database file, it remains one of these
\* pages.
LEMMA DbShapeHolds == Spec => []DbShape
<1>1. Init => DbShape
  BY DEF Init, DbShape
<1>2. ASSUME DbShape, [Next]_vars
      PROVE  DbShape'
  <2> USE DEF DbShape
  <2>1. ASSUME NEW n
        PROVE  TruncateDb(n) = [p \in Pages |-> TruncateDb(n)[p]]
    BY DEF TruncateDb, WriteDb
  <2>2. Sync(db) = [p \in Pages |-> Sync(db)[p]]
    BY <1>2 DEF Sync
  <2>3. ASSUME NEW c \in Conns, Reading(c)
        PROVE  DbShape'
    BY <1>2, <2>3 DEF Reading, SharedLock, JournalExists, CheckReserved, EmptyReserve,
       EmptyDelete, FirstByte, HotLock, HotOpen, HotSync, Validate, EndRead, Read, files
  <2>4. ASSUME NEW c \in Conns, Writing(c)
        PROVE  DbShape'
    <3>1. CASE WritePage(c) \/ WriteSpilled(c)
      BY <3>1 DEF WritePage, WriteSpilled, WriteDb
    <3>2. CASE Grow(c) \/ DbSync(c)
      BY <1>2, <2>1, <2>2, <3>2 DEF Grow, DbSync
    <3>3. CASE UNCHANGED db
      BY <1>2, <3>3
    <3>4. QED
      BY <2>4, <3>1, <3>2, <3>3 DEF Writing, BeginWrite, BeginCommit, CommitNothing,
         Write, Commit, Spill, Pending, Exclusive, Busy, JSync, JHeader, JSync2, files
  <2>5. ASSUME NEW c \in Conns, Ending(c)
        PROVE  DbShape'
    <3>1. CASE PlayHeader(c) \/ Conclude(c)
      BY <1>2, <2>1, <3>1 DEF PlayHeader, Conclude
    <3>2. CASE PlayRecord(c)
      BY <1>2, <3>2 DEF PlayRecord, WriteDb
    <3>3. CASE UNCHANGED db
      BY <1>2, <3>3
    <3>4. QED
      BY <2>5, <3>1, <3>2, <3>3 DEF Ending, Rollback, PlayEnd, Finalize, FinSync, files
  <2>6. ASSUME NEW c \in Conns, Fault(c)
        PROVE  DbShape'
    BY <1>2, <2>6 DEF Fault, IoError, ErrorUnlock, Crash, WriteDb, files
  <2>7. CASE PowerLoss
    BY <2>7 DEF PowerLoss
  <2>8. CASE UNCHANGED vars
    BY <1>2, <2>8 DEF vars
  <2>9. QED
    BY <1>2, <2>3, <2>4, <2>5, <2>6, <2>7, <2>8 DEF Next
<1>3. QED
  BY <1>1, <1>2, PTL DEF Spec

\* Beyond its size a file has no page.
LEMMA NothingBeyond ==
  ASSUME DbShape, NEW p \in Pages, p > DbSize
  PROVE  db[p].cur = NoPage
<1> DEFINE S == {0} \cup {q \in DOMAIN Cur(db) : Cur(db)[q] # NoPage}
<1>1. DOMAIN Cur(db) = Pages /\ Cur(db)[p] = db[p].cur
  BY DEF DbShape, Cur
<1>2. S \in SUBSET (0..MaxPage) /\ S # {} /\ MaxPage \in Nat
  BY <1>1, Bounds DEF Pages
<1>3. Max(S) \in 0..MaxPage /\ \A y \in S : y <= Max(S)
  BY <1>2, MaxOfUpTo
<1>4. DbSize = Max(S)
  BY DEF DbSize, Length
<1> HIDE DEF S
<1>5. p \notin S
  BY <1>2, <1>3, <1>4 DEF Pages
<1>6. QED
  BY <1>1, <1>5 DEF S

\* What is on record for the transaction is on record in the journal.
LEMMA InJournalIsOnRecord ==
  ASSUME NEW c \in Conns, NEW p, LogInv(pager[c], journal[pager[c].jfd]),
         p \in pager[c].dirty, p <= pager[c].orig, p \notin pager[c].needSync
  PROVE  OnRecord(journal[pager[c].jfd], MaxSlot + 1, p)
<1> DEFINE cells == journal[pager[c].jfd]
           hdr == pager[c].hdr
<1>1. OnRecord(cells, hdr, p) /\ hdr \in Nat
  BY DEF LogInv
<1> HIDE DEF cells, hdr
<1>2. PICK h \in 1..hdr - 1, s \in 1..hdr - 1 :
        /\ h < s
        /\ h \in Slots /\ cells[h] = Stable(cells[h].cur)
        /\ cells[h].cur.kind = "header" /\ cells[h].cur.magic
        /\ s <= h + cells[h].cur.nRec
        /\ s \in Slots /\ cells[s] = Stable(cells[s].cur)
        /\ IsRecordOf(cells[s].cur, p, cells[h].cur.nonce)
  BY <1>1 DEF OnRecord
<1>3. h \in 1..(MaxSlot + 1) - 1 /\ s \in 1..(MaxSlot + 1) - 1
  BY <1>2, Bounds DEF Slots
<1>4. OnRecord(cells, MaxSlot + 1, p)
  BY <1>2, <1>3 DEF OnRecord
<1>5. QED
  BY <1>4 DEF cells

\* A page that is there changes only if it is the one that is written.
LEMMA OnePageChanges ==
  ASSUME NEW q, NEW x, NEW p \in Pages, db[p].cur # NoPage, WriteDb(q, x)[p] # db[p]
  PROVE  p = q
BY DEF WriteDb

\* Rule (1): no page is overwritten before its record is on disk, under a
\* header that is on disk and counts it; in spills and commits, after a commit
\* that failed, with errors and crashes of others anywhere.
THEOREM RecordsComeFirst == Spec => RecordFirst
<1>1. ASSUME IInv, DbShape, [Next]_vars, NEW c \in Conns, NEW p \in Pages,
             pager[c].pc = "wdb", lock'[c] # NO_LOCK,
             p <= pager[c].orig, db[p].cur # NoPage, db'[p] # db[p]
      PROVE  OnRecord(journal[pager[c].jfd], MaxSlot + 1, p)
  <2> DEFINE g == pager[c]
  <2>1. /\ PagerInv(g, lock[c]) /\ lock[c] = EXCLUSIVE_LOCK
        /\ LogInv(g, journal[g.jfd])
    BY <1>1, WritingLogs
  <2>2. PICK d \in Conns : Reading(d) \/ Writing(d) \/ Ending(d) \/ Fault(d)
    BY <1>1 DEF Next, vars, PowerLoss, Vanish
  <2>3. /\ lock[d] = EXCLUSIVE_LOCK
        /\ \/ WritePage(d) \/ WriteSpilled(d) \/ Grow(d) \/ IoError(d)
           \/ pager[d].pc # "wdb"
    BY <1>1, <2>2, OneWrites
  <2>4. d = c
    BY <1>1, <2>1, <2>3 DEF IInv, Exclusion, Others
  <2> DEFINE left == {q \in g.dirty : q <= g.dbSize}
  <2>5. CASE g.spill = 0 /\ left # {} /\ db' \in {WriteDb(Min(left), x) : x \in {g.cache[Min(left)], Torn}}
    <3>1. p = Min(left)
      BY <1>1, <2>5, OnePageChanges
    <3>2. left \in SUBSET Nat /\ left # {}
      BY <2>1, <2>5, Bounds DEF LogInv, Pages
    <3>3. Min(left) \in left
      BY <3>2, MinOfNat
    <3>4. p \in g.dirty /\ p \notin g.needSync
      BY <1>1, <2>1, <2>5, <3>1, <3>3 DEF LogInv
    <3>5. QED
      BY <1>1, <2>1, <3>4, InJournalIsOnRecord
  <2>6. CASE g.spill # 0 /\ db' \in {WriteDb(g.spill, x) : x \in {g.cache[g.spill], Torn}}
    <3>1. p = g.spill
      BY <1>1, <2>6, OnePageChanges
    <3>2. p \in g.dirty /\ p \notin g.needSync
      BY <1>1, <2>1, <2>6, <3>1 DEF LogInv
    <3>3. QED
      BY <1>1, <2>1, <3>2, InJournalIsOnRecord
  <2>7. ~Grow(c)
    <3>1. SUFFICES ASSUME Grow(c) PROVE FALSE
      OBVIOUS
    <3>2. g.dbSize > DbSize /\ db' = TruncateDb(g.dbSize)
      BY <1>1, <3>1 DEF Grow
    <3>3. db' = WriteDb(g.dbSize, Zero)
      BY <3>2 DEF TruncateDb
    <3>4. p = g.dbSize
      BY <1>1, <3>3, OnePageChanges
    <3>5. QED
      BY <1>1, <3>2, <3>4, NothingBeyond
  <2>8. CASE WritePage(c)
    BY <2>5, <2>8 DEF WritePage
  <2>9. CASE WriteSpilled(c)
    BY <2>6, <2>9 DEF WriteSpilled
  <2>10. CASE IoError(c)
    <3>1. /\ left # {}
          /\ db' = WriteDb(IF g.spill # 0 THEN g.spill ELSE Min(left), Torn)
      BY <1>1, <2>10 DEF IoError
    <3>2. QED
      BY <2>5, <2>6, <3>1
  <2>11. QED
    BY <1>1, <2>3, <2>4, <2>7, <2>8, <2>9, <2>10
<1>2. IInv /\ DbShape /\ [Next]_vars =>
        (\A c \in Conns : \A p \in Pages :
           /\ pager[c].pc = "wdb" /\ lock'[c] # NO_LOCK
           /\ p <= pager[c].orig /\ db[p].cur # NoPage /\ db'[p] # db[p]
           => OnRecord(journal[pager[c].jfd], MaxSlot + 1, p))
  BY <1>1
<1>3. QED
  BY <1>2, Invariance, DbShapeHolds, PTL DEF Spec, RecordFirst

-----------------------------------------------------------------------------
\* The types of the files, and of what the pagers know of them.  This is more
\* than it seems.  A page that is changed has to be in the cache, so the file
\* must have every page that a transaction reads, and go on having them while
\* others fail; a rollback restores what a record says, so a record has to say
\* what a page may hold; a rollback reads the size to go back to from the first
\* header, so it has to be one, with the size the transaction began with, until
\* it is ended.  The bound b is the largest number that a journal holds: one
\* more is always free.

USE DEF NO_LOCK, SHARED_LOCK, RESERVED_LOCK, PENDING_LOCK, EXCLUSIVE_LOCK

\* What page 1 may hold: a header, or what is there where there is none.
HeaderPages == [ver : Nat, nPage : Pages]
FirstPages == HeaderPages \cup {NoPage, Zero, Torn}

\* A cell of a file whose contents are among these.
CellOf(cell, S) ==
  /\ cell = [cur |-> cell.cur, may |-> cell.may]
  /\ cell.cur \in cell.may /\ cell.may \subseteq S

\* The file has its pages from the first to the last, without a gap.
Present(d, n) == \A p \in Pages : p <= n => d[p].cur # NoPage
DbType(d) ==
  /\ d = [p \in Pages |-> d[p]]
  /\ \A p \in Pages : CellOf(d[p], OnDisk)
  /\ d[1].may \subseteq FirstPages
  /\ \A p \in Pages : d[p].cur # NoPage => Present(d, p)

\* What a slot of a journal may hold, with numbers on its headers up to b.
HeaderCells(b) ==
  [kind : {"header"}, magic : BOOLEAN, nRec : Nat, nonce : 0..b, orig : 0..MaxPage]
RecordCells(b) ==
  {x \in [kind : {"record"}, pgno : Pages, data : OnDisk \ {NoPage}, nonce : 0..b] :
     x.pgno = 1 => x.data \in FirstPages}
Cells(b) == {NoCell, Junk} \cup HeaderCells(b) \cup RecordCells(b)
JournalType(cells, b) == \A s \in Slots : CellOf(cells[s], Cells(b))

\* What a pager knows, whatever it is doing.
DataType(g, b) ==
  /\ g.cache \in [Pages -> OnDisk] /\ g.cache[1] \in FirstPages
  /\ g.vers \in [ver : Nat, nPage : 0..MaxPage]
  /\ g.dbSize \in 0..MaxPage /\ g.nPage \in 0..MaxPage /\ g.orig \in 0..MaxPage
  /\ g.off \in 0..MaxSlot /\ g.nonce \in 0..b
  /\ g.dirty \subseteq {p \in Pages : g.cache[p] # NoPage} /\ g.needSync \subseteq g.dirty
  /\ g.hot => g.dirty = {}

\* The file has the pages that a transaction began with, and those that it
\* has after a commit or a rollback.
InUndo == {"play", "record", "playend", "dbsync", "final", "finsync", "end"}
SizeType(g, d) ==
  /\ g.eState \in {"reader", "locked", "finished"} => Present(d, g.dbSize)
  /\ g.eState = "cachemod" \/ (g.eState = "dbmod" /\ g.pc \notin InUndo \cup {"failed"}) =>
       Present(d, g.orig)
  /\ g.eState \in {"cachemod", "dbmod"} /\ g.pc \in InUndo =>
       (g.pc = "play" /\ g.off = 0) \/ Present(d, g.dbSize)

\* Until it is finalized, the journal of a transaction begins with a header,
\* and the header the pager writes behind is there.
HeaderType(g, cells, b) ==
  /\ g.eState = "cachemod" /\ g.pc \notin {"final", "finsync", "end"} =>
       /\ g.header /\ g.hdr = 1
       /\ cells[1].cur \in HeaderCells(b) /\ cells[1].cur.orig = g.orig
  /\ g.eState = "dbmod" /\ g.pc \notin {"final", "finsync", "end"} =>
       /\ IsMagic(cells[1].cur)
       /\ g.header => g.hdr \in Slots /\ cells[g.hdr].cur \in HeaderCells(b)
  /\ Logging(g) /\ 1 \in g.dirty => g.cache[1] \in HeaderPages
  /\ g.eState \in {"cachemod", "dbmod"} /\ g.commit => g.pc \notin InUndo \ {"dbsync"}

TInv(b) ==
  /\ mode \in AllModes /\ most \in 0..MaxPage
  /\ dirent.cur \in dirent.may
  /\ DbType(db)
  /\ \A i \in Inodes : JournalType(journal[i], b)
  /\ \A c \in Conns :
       /\ DataType(pager[c], b) /\ SizeType(pager[c], db)
       /\ HeaderType(pager[c], journal[pager[c].jfd], b)

-----------------------------------------------------------------------------
\* The contents that pages may have, and those of page 1.
LEMMA Contents ==
  /\ NoPage \in OnDisk /\ Zero \in OnDisk /\ Torn \in OnDisk
  /\ NoPage \in FirstPages /\ Zero \in FirstPages /\ Torn \in FirstPages
  /\ FirstPages \subseteq OnDisk /\ NoPage # Zero /\ NoPage # Torn
  /\ PageContents \subseteq OnDisk /\ NoPage \notin PageContents
  /\ Values \subseteq PageContents
BY PagerAssumption, Bounds DEF PagerAssumption, OnDisk, FirstPages, HeaderPages, PageContents, Pages

\* A cell that is written holds what it held or what is written.
LEMMA WrittenCell ==
  ASSUME NEW S, NEW cell, CellOf(cell, S), NEW x \in S, NEW torn \in S
  PROVE  CellOf(Written(cell, x), S) /\ CellOf(WrittenPage(cell, x, torn), S)
         /\ CellOf(Stable(x), S)
BY DEF CellOf, Written, WrittenPage, Stable

\* Page 1 of a file.
LEMMA FirstCell ==
  ASSUME NEW d, DbType(d)
  PROVE  1 \in Pages /\ CellOf(d[1], FirstPages)
<1>1. 1 \in Pages
  BY Bounds DEF Pages
<1>2. CellOf(d[1], OnDisk) /\ d[1].may \subseteq FirstPages
  BY <1>1 DEF DbType
<1>3. QED
  BY <1>1, <1>2 DEF CellOf

\* The number of pages of the file.
LEMMA SizeIs ==
  ASSUME DbType(db)
  PROVE  /\ DbSize \in 0..MaxPage /\ Present(db, DbSize)
         /\ \A p \in Pages : p > DbSize => db[p].cur = NoPage
<1> DEFINE S == {0} \cup {q \in DOMAIN Cur(db) : Cur(db)[q] # NoPage}
<1>1. DOMAIN Cur(db) = Pages /\ \A q \in Pages : Cur(db)[q] = db[q].cur
  BY DEF DbType, Cur
<1>2. S \in SUBSET (0..MaxPage) /\ S # {} /\ MaxPage \in Nat
  BY <1>1, Bounds DEF Pages
<1>3. Max(S) \in S /\ \A y \in S : y <= Max(S)
  BY <1>2, MaxOfUpTo
<1>4. DbSize = Max(S)
  BY DEF DbSize, Length
<1> HIDE DEF S
<1>5. DbSize \in 0..MaxPage
  BY <1>2, <1>3, <1>4
<1>6. ASSUME NEW p \in Pages, p > DbSize
      PROVE  db[p].cur = NoPage
  <2>1. p \in Nat /\ ~(p <= Max(S)) /\ Max(S) \in Nat
    BY <1>4, <1>5, <1>6 DEF Pages
  <2>2. p \notin S
    BY <1>3, <2>1
  <2>3. QED
    BY <1>1, <2>2 DEF S
<1>7. Present(db, DbSize)
  <2>1. CASE DbSize = 0
    BY <2>1 DEF Present, Pages
  <2>2. CASE DbSize # 0
    <3>1. DbSize \in Pages /\ db[DbSize].cur # NoPage
      BY <1>1, <1>3, <1>4, <2>2 DEF S
    <3>2. QED
      BY <3>1 DEF DbType
  <2>3. QED
    BY <2>1, <2>2
<1>8. QED
  BY <1>5, <1>6, <1>7

\* What a page is after a write.
LEMMA WriteIs ==
  ASSUME NEW p, NEW x, NEW q \in Pages
  PROVE  WriteDb(p, x)[q] =
           IF q = p THEN WrittenPage(db[q], x, Torn)
           ELSE IF q < p /\ db[q].cur = NoPage THEN Written(db[q], Zero)
           ELSE db[q]
BY DEF WriteDb

\* A page is written: the file has no gap before it, and has what it had.
LEMMA WriteTyped ==
  ASSUME DbType(db), NEW p \in Pages, NEW x \in OnDisk \ {NoPage}, p = 1 => x \in FirstPages
  PROVE  /\ DbType(WriteDb(p, x)) /\ Present(WriteDb(p, x), p)
         /\ \A n \in Nat : Present(db, n) => Present(WriteDb(p, x), n)
<1> DEFINE d == WriteDb(p, x)
<1>1. d = [q \in Pages |-> d[q]]
  BY DEF WriteDb
<1>2. \A q \in Pages : CellOf(db[q], OnDisk) /\ d[q] \in {WrittenPage(db[q], x, Torn), Written(db[q], Zero), db[q]}
  BY WriteIs DEF DbType
<1>3. \A q \in Pages : CellOf(d[q], OnDisk)
  BY <1>2, WrittenCell, Contents
<1>4. \A q \in Pages : (q <= p \/ db[q].cur # NoPage) <=> d[q].cur # NoPage
  <2>1. ASSUME NEW q \in Pages
        PROVE  d[q].cur = IF q = p THEN x ELSE IF q < p /\ db[q].cur = NoPage
                          THEN Zero ELSE db[q].cur
    <3>1. d[q] = IF q = p THEN WrittenPage(db[q], x, Torn)
                 ELSE IF q < p /\ db[q].cur = NoPage THEN Written(db[q], Zero)
                 ELSE db[q]
      BY WriteIs
    <3> HIDE DEF d
    <3>2. QED
      BY <3>1 DEF WrittenPage, Written
  <2>2. QED
    BY <2>1, Contents DEF Pages
<1>5. d[1].may \subseteq FirstPages
  <2>1. 1 \in Pages /\ CellOf(db[1], FirstPages)
    BY FirstCell
  <2>2. d[1] \in {WrittenPage(db[1], x, Torn), Written(db[1], Zero), db[1]}
        /\ (p # 1 => d[1] \in {Written(db[1], Zero), db[1]})
    BY <2>1, WriteIs
  <2> HIDE DEF d
  <2>3. CellOf(d[1], FirstPages)
    BY <2>1, <2>2, WrittenCell, Contents
  <2>4. QED
    BY <2>3 DEF CellOf
<1> HIDE DEF d
<1>6. Present(d, p) /\ \A n \in Nat : Present(db, n) => Present(d, n)
  BY <1>4 DEF Present
<1>7. ASSUME NEW q \in Pages, d[q].cur # NoPage
      PROVE  Present(d, q)
  <2>1. CASE q <= p
    BY <1>4, <2>1 DEF Present, Pages
  <2>2. CASE db[q].cur # NoPage
    BY <1>4, <2>2 DEF DbType, Present
  <2>3. QED
    BY <1>4, <1>7, <2>1, <2>2
<1>8. QED
  BY <1>1, <1>3, <1>5, <1>6, <1>7 DEF DbType, d

\* pager_truncate() leaves a file of the size it was called with.
LEMMA TruncateTyped ==
  ASSUME DbType(db), NEW n \in 0..MaxPage
  PROVE  DbType(TruncateDb(n)) /\ Present(TruncateDb(n), n)
<1>1. CASE DbSize < n
  <2>1. n \in Pages
    BY <1>1, SizeIs DEF Pages
  <2>2. QED
    BY <1>1, <2>1, WriteTyped, Contents DEF TruncateDb
<1>2. CASE ~(DbSize < n)
  <2> DEFINE d == TruncateDb(n)
  <2>1. d = [q \in Pages |-> IF q > n THEN Written(db[q], NoPage) ELSE db[q]]
    BY <1>2 DEF TruncateDb
  <2>2. d = [q \in Pages |-> d[q]]
    BY <2>1
  <2>3. \A q \in Pages : d[q] = IF q > n THEN Written(db[q], NoPage) ELSE db[q]
    BY <2>1
  <2> HIDE DEF d
  <2>4. \A q \in Pages : CellOf(d[q], OnDisk)
    <3> TAKE q \in Pages
    <3>1. CellOf(db[q], OnDisk) /\ CellOf(Written(db[q], NoPage), OnDisk)
      BY WrittenCell, Contents DEF DbType
    <3>2. QED
      BY <2>3, <3>1
  <2>5. ASSUME NEW q \in Pages
        PROVE  d[q].cur # NoPage <=> q <= n /\ db[q].cur # NoPage
    <3>1. q \in Nat /\ n \in Nat
      BY Bounds DEF Pages
    <3>2. Written(db[q], NoPage).cur = NoPage
      BY DEF Written
    <3>3. QED
      BY <2>3, <3>1, <3>2
  <2>6. d[1].may \subseteq FirstPages
    <3>1. 1 \in Pages /\ CellOf(db[1], FirstPages)
      BY FirstCell
    <3>2. d[1] \in {Written(db[1], NoPage), db[1]}
      BY <2>3, <3>1
    <3>3. QED
      BY ZenonT(30), <3>1, <3>2, WrittenCell, Contents DEF CellOf
  <2>7. \A q \in Pages : d[q].cur # NoPage => Present(d, q)
    BY <2>5 DEF DbType, Present, Pages
  <2>8. Present(d, n)
    <3>1. Present(db, DbSize) /\ n <= DbSize /\ DbSize \in Nat
      BY <1>2, SizeIs
    <3>2. QED
      BY <2>5, <3>1 DEF Present, Pages
  <2>9. QED
    BY <2>2, <2>4, <2>6, <2>7, <2>8 DEF DbType, d
<1>3. QED
  BY <1>1, <1>2

\* A sync changes nothing that a read returns.
LEMMA SyncTyped ==
  ASSUME DbType(db)
  PROVE  DbType(Sync(db)) /\ \A n : Present(db, n) <=> Present(Sync(db), n)
<1> DEFINE d == Sync(db)
<1>1. d = [p \in Pages |-> Stable(db[p].cur)]
  BY DEF DbType, Sync
<1>2. d = [p \in Pages |-> d[p]] /\ \A p \in Pages : d[p].cur = db[p].cur /\ d[p] = Stable(db[p].cur)
  BY <1>1 DEF Stable
<1> HIDE DEF d
<1>3. \A p \in Pages : CellOf(d[p], OnDisk)
  BY <1>2, Contents, WrittenCell DEF DbType, CellOf, Stable
<1>4. d[1].may \subseteq FirstPages
  BY <1>2, Bounds DEF DbType, CellOf, Stable, Pages
<1>5. \A n : Present(db, n) <=> Present(d, n)
  BY <1>2 DEF Present
<1>6. QED
  BY <1>2, <1>3, <1>4, <1>5 DEF DbType, d

\* sqlite3PagerGet() finds a page in the cache or in the file.
LEMMA ContentTyped ==
  ASSUME NEW g, NEW b, DataType(g, b), DbType(db), NEW p \in Pages
  PROVE  /\ Content(g, p) \in OnDisk /\ (p = 1 => Content(g, p) \in FirstPages)
         /\ p > g.dbSize \/ db[p].cur # NoPage => Content(g, p) # NoPage
BY Contents DEF DataType, DbType, CellOf, Content

\* dbFileVers[] as it is taken from page 1.
LEMMA VersionTyped ==
  ASSUME NEW x \in FirstPages
  PROVE  Version(x) \in [ver : Nat, nPage : 0..MaxPage]
BY Bounds DEF Version, NoVersion, FirstPages, HeaderPages, Pages

\* A larger bound allows more numbers.
LEMMA CellsGrow ==
  ASSUME NEW b \in Nat, NEW k \in Nat, b <= k
  PROVE  /\ HeaderCells(b) \subseteq HeaderCells(k) /\ RecordCells(b) \subseteq RecordCells(k)
         /\ Cells(b) \subseteq Cells(k) /\ 0..b \subseteq 0..k
BY DEF HeaderCells, RecordCells, Cells

\* cksumInit of a new header is a number that no other header or record has.
LEMMA NonceIsNew ==
  ASSUME NEW b \in Nat, NEW cells, JournalType(cells, b)
  PROVE  NewNonce(cells) \in 1..b + 1 /\ NewNonce(cells) \notin Nonces(cells)
<1>1. Nonces(cells) \subseteq 0..b
  <2>1. SUFFICES ASSUME NEW s \in Slots, NEW y \in cells[s].may,
                        y.kind \in {"header", "record"}
                 PROVE  y.nonce \in 0..b
    BY DEF Nonces
  <2>2. y \in Cells(b)
    BY DEF JournalType, CellOf
  <2>3. QED
    BY <2>1, <2>2 DEF Cells, HeaderCells, RecordCells, NoCell, Junk
<1> DEFINE S == {0} \cup Nonces(cells)
<1>2. S \in SUBSET (0..b) /\ S # {}
  BY <1>1
<1>3. Max(S) \in S /\ \A y \in S : y <= Max(S)
  BY <1>2, MaxOfUpTo
<1>4. NewNonce(cells) = Max(S) + 1
  BY DEF NewNonce
<1> HIDE DEF S
<1>5. Max(S) \in 0..b /\ Max(S) + 1 \notin S
  <2>1. Max(S) \in 0..b
    BY <1>2, <1>3
  <2> DEFINE m == Max(S)
  <2> HIDE DEF m
  <2>2. m \in Nat /\ ~(m + 1 <= m)
    BY <2>1 DEF m
  <2>3. QED
    BY <1>3, <2>1, <2>2 DEF m
<1>6. QED
  BY <1>4, <1>5 DEF S

-----------------------------------------------------------------------------
\* How the types carry over: a step of one pager, and what it gives up

\* What a page that is read changes of a pager.
LEMMA LoadedFields ==
  ASSUME NEW g, g = [f \in Fields |-> g[f]], NEW p
  PROVE  /\ Loaded(g, p) = [f \in Fields |-> Loaded(g, p)[f]]
         /\ \A f \in Fields \ {"cache", "vers"} : Loaded(g, p)[f] = g[f]
         /\ Loaded(g, p).cache = [g.cache EXCEPT ![p] = Content(g, p)]
         /\ Loaded(g, p).vers = IF p = 1 /\ g.cache[1] = NoPage /\ g.dbSize > 0
                                THEN Version(db[1].cur) ELSE g.vers
BY DEF Loaded, Fields

\* What a pager knows is typed as before if it knows the same.
LEMMA SameData ==
  ASSUME NEW b, NEW g, DataType(g, b), NEW h,
         \A f \in {"cache", "vers", "dbSize", "nPage", "orig", "off", "nonce", "dirty",
                   "needSync"} : h[f] = g[f],
         h.hot => g.dirty = {}
  PROVE  DataType(h, b)
<1>1. /\ h.cache = g.cache /\ h.vers = g.vers /\ h.dbSize = g.dbSize /\ h.nPage = g.nPage
      /\ h.orig = g.orig /\ h.off = g.off /\ h.nonce = g.nonce /\ h.dirty = g.dirty
      /\ h.needSync = g.needSync
  OBVIOUS
<1>2. QED
  BY <1>1 DEF DataType

\* A page is read into the cache.
LEMMA LoadedTyped ==
  ASSUME NEW b, NEW g, g = [f \in Fields |-> g[f]], DataType(g, b), DbType(db), NEW p \in Pages
  PROVE  DataType(Loaded(g, p), b)
<1> DEFINE h == Loaded(g, p)
<1>1. /\ h.cache = [g.cache EXCEPT ![p] = Content(g, p)]
      /\ h.vers = IF p = 1 /\ g.cache[1] = NoPage /\ g.dbSize > 0
                  THEN Version(db[1].cur) ELSE g.vers
      /\ h.dbSize = g.dbSize /\ h.nPage = g.nPage
      /\ h.orig = g.orig /\ h.off = g.off /\ h.nonce = g.nonce /\ h.dirty = g.dirty
      /\ h.needSync = g.needSync /\ h.hot = g.hot
  <2>1. /\ \A f \in Fields \ {"cache", "vers"} : h[f] = g[f]
        /\ h.cache = [g.cache EXCEPT ![p] = Content(g, p)]
        /\ h.vers = IF p = 1 /\ g.cache[1] = NoPage /\ g.dbSize > 0
                    THEN Version(db[1].cur) ELSE g.vers
    BY LoadedFields
  <2> HIDE DEF h
  <2>2. QED
    BY <2>1 DEF Fields
<1>2. Content(g, p) \in OnDisk /\ (p = 1 => Content(g, p) \in FirstPages)
      /\ (g.cache[p] # NoPage => Content(g, p) = g.cache[p])
  BY ContentTyped DEF Content
<1>3. Version(db[1].cur) \in [ver : Nat, nPage : 0..MaxPage]
  BY FirstCell, VersionTyped DEF CellOf
<1> HIDE DEF h
<1>4. h.cache \in [Pages -> OnDisk] /\ h.cache[1] \in FirstPages
      /\ \A q \in Pages : g.cache[q] # NoPage => h.cache[q] # NoPage
  BY SMTT(30), <1>1, <1>2, Bounds DEF DataType, Pages
<1>5. QED
  BY <1>1, <1>3, <1>4 DEF DataType, h

\* A larger bound on the numbers of headers is a bound too.
LEMMA TypesGrow ==
  ASSUME NEW b \in Nat, NEW k \in Nat, b <= k
  PROVE  /\ \A cells : JournalType(cells, b) => JournalType(cells, k)
         /\ \A g : DataType(g, b) => DataType(g, k)
         /\ \A g, cells : HeaderType(g, cells, b) => HeaderType(g, cells, k)
<1>1. /\ HeaderCells(b) \subseteq HeaderCells(k) /\ Cells(b) \subseteq Cells(k)
      /\ 0..b \subseteq 0..k
  BY CellsGrow
<1>2. QED
  BY <1>1 DEF JournalType, CellOf, DataType, HeaderType

\* Of a step of one connection it is enough to look at its own pager and at
\* the files.
LEMMA OneTyped ==
  ASSUME IInv, NEW b \in Nat, TInv(b), NEW k \in Nat, b <= k,
         NEW c \in Conns, NEW g, Set(c, g),
         UNCHANGED <<mode, most>>, dirent'.cur \in dirent'.may,
         DbType(db'), \A i \in Inodes : JournalType(journal'[i], k),
         DataType(g, k), SizeType(g, db'), HeaderType(g, journal'[g.jfd], k),
         db' = db \/ lock[c] = EXCLUSIVE_LOCK,
         journal' = journal \/ lock[c] >= RESERVED_LOCK
  PROVE  TInv(k)'
<1>1. pager'[c] = g /\ \A d \in Others(c) : pager'[d] = pager[d]
  BY DEF IInv, Set, Others
<1>2. ASSUME NEW d \in Others(c)
      PROVE  /\ DataType(pager[d], k) /\ SizeType(pager[d], db')
             /\ HeaderType(pager[d], journal'[pager[d].jfd], k)
  <2>1. /\ d \in Conns /\ PagerInv(pager[d], lock[d]) /\ lock[c] \in Levels /\ lock[d] \in Levels
        /\ (lock[c] = EXCLUSIVE_LOCK => lock[d] = NO_LOCK)
        /\ (lock[c] > SHARED_LOCK => lock[d] <= SHARED_LOCK)
    BY <1>2 DEF IInv, LockTypeOK, Exclusion, Others
  <2>2. /\ DataType(pager[d], b) /\ SizeType(pager[d], db)
        /\ HeaderType(pager[d], journal[pager[d].jfd], b)
    BY <2>1 DEF TInv
  <2>3. DataType(pager[d], k)
    BY <2>2, TypesGrow
  <2>4. SizeType(pager[d], db')
    <3>1. CASE lock[d] = NO_LOCK
      <4>1. pager[d].eState = "open"
        BY <2>1, <3>1 DEF PagerInv, StateInv
      <4>2. QED
        BY <4>1 DEF SizeType
    <3>2. QED
      BY <2>1, <2>2, <3>1
  <2>5. HeaderType(pager[d], journal'[pager[d].jfd], k)
    <3>1. CASE lock[c] >= RESERVED_LOCK
      <4>1. lock[d] <= SHARED_LOCK
        BY <2>1, <3>1 DEF Levels
      <4>2. pager[d].eState \notin {"cachemod", "dbmod"}
        BY <2>1, <4>1 DEF PagerInv, StateInv, Levels
      <4>3. QED
        BY <4>2 DEF HeaderType, Logging
    <3>2. QED
      BY <2>2, <3>1, TypesGrow
  <2>6. QED
    BY <2>3, <2>4, <2>5
<1>3. \A d \in Conns : /\ DataType(pager'[d], k) /\ SizeType(pager'[d], db')
                       /\ HeaderType(pager'[d], journal'[pager'[d].jfd], k)
  BY <1>1, <1>2 DEF Others
<1>4. mode' \in AllModes /\ most' \in 0..MaxPage
  BY DEF TInv
<1>5. QED
  BY <1>3, <1>4 DEF TInv

\* The same where no file changes.
LEMMA OnlyPagerTyped ==
  ASSUME IInv, NEW b \in Nat, TInv(b), NEW c \in Conns, NEW g, Set(c, g),
         UNCHANGED <<mode, most, db, journal, dirent>>,
         DataType(g, b), SizeType(g, db), HeaderType(g, journal[g.jfd], b)
  PROVE  TInv(b)'
<1>1. /\ dirent'.cur \in dirent'.may /\ DbType(db')
      /\ \A i \in Inodes : JournalType(journal'[i], b)
      /\ SizeType(g, db') /\ HeaderType(g, journal'[g.jfd], b)
  BY DEF TInv
<1>2. QED
  BY <1>1, OneTyped

\* A call goes on without any change of what the pager knows.
LEMMA GoesOnTyped ==
  ASSUME IInv, NEW b \in Nat, TInv(b), NEW c \in Conns, NEW g, Set(c, g),
         UNCHANGED <<mode, most, db, journal, dirent>>,
         \A f \in Fields \ {"pc", "spill", "commit", "left", "jfd"} : g[f] = pager[c][f],
         \/ g.eState \notin {"cachemod", "dbmod"}
         \/ Logging(pager[c]) /\ Logging(g) /\ g.jfd = pager[c].jfd
  PROVE  TInv(b)'
<1>1. /\ DataType(pager[c], b) /\ SizeType(pager[c], db)
      /\ HeaderType(pager[c], journal[pager[c].jfd], b)
  BY DEF TInv
<1>2. /\ g.hot = pager[c].hot /\ g.eState = pager[c].eState /\ g.dbSize = pager[c].dbSize
      /\ g.orig = pager[c].orig /\ g.header = pager[c].header /\ g.hdr = pager[c].hdr
      /\ g.off = pager[c].off /\ g.dirty = pager[c].dirty /\ g.cache = pager[c].cache
  BY DEF Fields
<1>3. DataType(g, b)
  <2>1. g.hot => pager[c].dirty = {}
    BY <1>1, <1>2 DEF DataType
  <2>2. \A f \in {"cache", "vers", "dbSize", "nPage", "orig", "off", "nonce", "dirty",
                   "needSync"} : g[f] = pager[c][f]
    BY DEF Fields
  <2>3. QED
    BY <1>1, <2>1, <2>2, SameData
<1>4. SizeType(g, db)
  BY <1>1, <1>2 DEF SizeType, Logging, InUndo
<1>5. HeaderType(g, journal[g.jfd], b)
  BY <1>1, <1>2 DEF HeaderType, Logging, InUndo
<1>6. QED
  BY <1>3, <1>4, <1>5, OnlyPagerTyped

-----------------------------------------------------------------------------
\* sqlite3PagerSharedLock() up to the playback of a hot journal
LEMMA GotoOpenTyped ==
  ASSUME IInv, NEW b \in Nat, TInv(b), NEW c \in Conns, NEW pc, Goto(c, pc),
         pager[c].eState \in {"open", "reader", "locked"}, UNCHANGED <<mode, files, counts>>
  PROVE  TInv(b)'
<1> DEFINE g == [pager[c] EXCEPT !.pc = pc]
<1>1. Set(c, g) /\ UNCHANGED <<mode, most, db, journal, dirent>>
  BY DEF Goto, files, counts
<1>2. pager[c] = [f \in Fields |-> pager[c][f]]
  BY DEF IInv, PagerInv
<1>3. g.eState = pager[c].eState
      /\ \A f \in Fields \ {"pc", "spill", "commit", "left", "jfd"} : g[f] = pager[c][f]
  BY <1>2 DEF Fields
<1>4. QED
  BY <1>1, <1>3, GoesOnTyped

\* What a transaction kept is forgotten.
LEMMA EndedTyped ==
  ASSUME NEW b \in Nat, NEW g, g = [f \in Fields |-> g[f]], DataType(g, b)
  PROVE  DataType(Ended(g), b)
<1> DEFINE h == Ended(g)
<1>1. /\ h.cache = g.cache /\ h.vers = g.vers /\ h.dbSize = g.dbSize /\ h.nPage = g.nPage
      /\ h.orig = 0 /\ h.off = 0 /\ h.nonce = 0 /\ h.dirty = {}
      /\ h.needSync = {} /\ h.hot = FALSE
  BY DEF Fields, Ended
<1> HIDE DEF h
<1>2. DataType(h, b)
  BY <1>1, Bounds DEF DataType
<1>3. QED
  BY <1>2 DEF h

\* An empty cache.
LEMMA NoCacheTyped ==
  NoCache \in [Pages -> OnDisk] /\ NoCache[1] \in FirstPages
  /\ NoVersion \in [ver : Nat, nPage : 0..MaxPage]
BY Contents, Bounds DEF NoCache, NoVersion, Pages

\* pager_unlock() leaves a pager that is open, with a cache or without.
LEMMA UnlockedTyped ==
  ASSUME NEW b \in Nat, NEW g, g = [f \in Fields |-> g[f]], DataType(g, b), NEW error
  PROVE  DataType(Unlocked(g, error), b) /\ Unlocked(g, error).eState = "open"
<1> DEFINE e == Ended(g)
           h == Unlocked(g, error)
<1>1. DataType(e, b)
  BY EndedTyped
<1>2. e = [f \in Fields |-> e[f]] /\ e.dirty = {} /\ e.hot = FALSE
  BY ZenonT(30) DEF Ended, Fields
<1>3. h = [e EXCEPT !.eState = "open", !.pc = "idle", !.jfd = 0,
                    !.dbSize = 0, !.nPage = 0, !.cache = IF error THEN NoCache ELSE @]
  BY DEF Unlocked
<1> HIDE DEF e, h
<1>4. /\ h.cache = (IF error THEN NoCache ELSE e.cache) /\ h.vers = e.vers /\ h.dbSize = 0
      /\ h.nPage = 0 /\ h.orig = e.orig /\ h.off = e.off /\ h.nonce = e.nonce
      /\ h.dirty = {} /\ h.needSync = e.needSync /\ h.hot = FALSE /\ h.eState = "open"
  BY <1>2, <1>3 DEF Fields
<1>5. DataType(h, b)
  BY <1>1, <1>2, <1>4, NoCacheTyped, Bounds DEF DataType
<1>6. QED
  BY <1>4, <1>5 DEF h

\* pager_unlock()
LEMMA UnlockTyped ==
  ASSUME IInv, NEW b \in Nat, TInv(b), NEW c \in Conns, NEW error,
         Set(c, Unlocked(pager[c], error)),
         UNCHANGED <<mode, most, db, journal, dirent>>
  PROVE  TInv(b)'
<1>1. DataType(Unlocked(pager[c], error), b) /\ Unlocked(pager[c], error).eState = "open"
  BY UnlockedTyped DEF TInv, IInv, PagerInv
<1>2. SizeType(Unlocked(pager[c], error), db)
      /\ HeaderType(Unlocked(pager[c], error), journal[Unlocked(pager[c], error).jfd], b)
  BY <1>1 DEF SizeType, HeaderType, Logging
<1>3. QED
  BY <1>1, <1>2, OnlyPagerTyped

\* A sync leaves of each slot what a read returns.
LEMMA SyncedCells ==
  ASSUME NEW b, NEW cells, cells = [s \in Slots |-> cells[s]], JournalType(cells, b)
  PROVE  /\ JournalType(Sync(cells), b) /\ Sync(cells) = [s \in Slots |-> Sync(cells)[s]]
         /\ \A s \in Slots : Sync(cells)[s] = Stable(cells[s].cur) /\ Sync(cells)[s].cur = cells[s].cur
<1>1. Sync(cells) = [s \in Slots |-> Stable(cells[s].cur)]
  BY DEF Sync
<1>2. \A s \in Slots : Sync(cells)[s] = Stable(cells[s].cur)
  BY <1>1
<1>3. \A s \in Slots : CellOf(Stable(cells[s].cur), Cells(b))
  <2> TAKE s \in Slots
  <2>1. cells[s].cur \in Cells(b)
    BY DEF JournalType, CellOf
  <2>2. QED
    BY <2>1 DEF CellOf, Stable
<1>4. QED
  BY <1>1, <1>2, <1>3 DEF JournalType, Stable

\* A name is taken away; the file may stay for a power loss.
LEMMA NoName == 0 \in MayBe(dirent.may \cup {0})
BY DEF MayBe, Dead

\* The hot journal is synced before it is played back.
LEMMA HotSyncTyped ==
  ASSUME IInv, NEW b \in Nat, TInv(b), NEW c \in Conns, HotSync(c)
  PROVE  TInv(b)'
<1> DEFINE g == pager[c]
           h == [g EXCEPT !.hdr = SlotsUsed(journal[g.jfd]) + 1,
                          !.hot = TRUE, !.off = 0, !.pc = "play"]
<1>1. /\ PagerInv(g, lock[c]) /\ FilesInv /\ g.pc = "hotsync" /\ DataType(g, b)
      /\ Set(c, h) /\ journal' = [journal EXCEPT ![g.jfd] = Sync(@)]
      /\ UNCHANGED <<mode, most, db, dirent>> /\ dirent.cur \in dirent.may /\ DbType(db)
      /\ \A i \in Inodes : JournalType(journal[i], b)
  BY DEF HotSync, IInv, TInv, counts
<1>2. /\ g.eState = "open" /\ g.dirty = {} /\ lock[c] = EXCLUSIVE_LOCK /\ g.jfd \in Inodes
  <2>1. g.eState = "open" /\ lock[c] = EXCLUSIVE_LOCK
    BY <1>1 DEF PagerInv, StateInv, ReadPcs, PlayPcs, CommitPcs
  <2>2. g.dirty = {}
    BY <1>1, <2>1 DEF PagerInv, HotInv, CleanInv, PlayPcs
  <2>3. g.jfd \in 0..MaxInode /\ g.jfd # 0
    BY <1>1 DEF PagerInv, JournalInv
  <2>4. QED
    BY <2>1, <2>2, <2>3, Bounds DEF Inodes
<1>3. /\ h.cache = g.cache /\ h.vers = g.vers /\ h.dbSize = g.dbSize /\ h.nPage = g.nPage
      /\ h.orig = g.orig /\ h.off = 0 /\ h.nonce = g.nonce /\ h.dirty = g.dirty
      /\ h.needSync = g.needSync /\ h.eState = "open"
  BY <1>1, <1>2 DEF PagerInv, Fields
<1> HIDE DEF h
<1>4. DataType(h, b)
  BY <1>1, <1>2, <1>3, Bounds DEF DataType
<1>5. SizeType(h, db') /\ HeaderType(h, journal'[h.jfd], b)
  BY <1>3 DEF SizeType, HeaderType, Logging
<1>6. \A i \in Inodes : JournalType(journal'[i], b)
  <2>1. journal[g.jfd] = [s \in Slots |-> journal[g.jfd][s]]
    BY <1>1, <1>2 DEF FilesInv
  <2>2. JournalType(Sync(journal[g.jfd]), b)
    BY <1>1, <1>2, <2>1, SyncedCells
  <2>3. \A i \in Inodes : journal'[i] \in {journal[i], Sync(journal[g.jfd])}
    BY <1>1 DEF FilesInv
  <2>4. QED
    BY <1>1, <2>2, <2>3
<1>7. QED
  BY <1>1, <1>2, <1>4, <1>5, <1>6, OneTyped

\* The cache is emptied if it is stale; page 1 is read.
LEMMA ValidateTyped ==
  ASSUME IInv, NEW b \in Nat, TInv(b), NEW c \in Conns, Validate(c)
  PROVE  TInv(b)'
<1> DEFINE stale == pager[c].vers # (IF DbSize = 0 THEN NoVersion ELSE Version(db[1].cur))
           h == [pager[c] EXCEPT !.cache = IF stale THEN NoCache ELSE @,
                                 !.dbSize = DbSize, !.eState = "reader", !.pc = "idle"]
           k == IF DbSize = 0 THEN h ELSE Loaded(h, 1)
           g == [k EXCEPT !.nPage = Version(k.cache[1]).nPage]
<1> HIDE DEF stale
<1>1. Set(c, g) /\ UNCHANGED <<mode, most, db, journal, dirent>>
  BY DEF Validate, files, counts, stale
<1>2. /\ PagerInv(pager[c], lock[c]) /\ DataType(pager[c], b) /\ DbType(db)
      /\ pager[c].pc = "validate"
  BY DEF IInv, TInv, Validate
<1>3. pager[c].dirty = {} /\ pager[c].hot = FALSE
  BY <1>2 DEF PagerInv, StateInv, HotInv, CleanInv, ReadPcs, PlayPcs, CommitPcs
<1>4. /\ h = [f \in Fields |-> h[f]] /\ h.cache = (IF stale THEN NoCache ELSE pager[c].cache)
      /\ h.vers = pager[c].vers /\ h.dbSize = DbSize /\ h.nPage = pager[c].nPage
      /\ h.orig = pager[c].orig /\ h.off = pager[c].off /\ h.nonce = pager[c].nonce
      /\ h.dirty = {} /\ h.needSync = pager[c].needSync /\ h.hot = FALSE /\ h.eState = "reader"
  BY <1>2, <1>3 DEF PagerInv, Fields
<1> HIDE DEF h
<1>5. DataType(h, b)
  <2>1. DbSize \in 0..MaxPage
    BY <1>2, SizeIs
  <2>2. h.cache \in [Pages -> OnDisk] /\ h.cache[1] \in FirstPages
    BY <1>2, <1>4, NoCacheTyped DEF DataType
  <2>3. QED
    BY <1>2, <1>3, <1>4, <2>1, <2>2 DEF DataType
<1>6. /\ DataType(k, b) /\ k = [f \in Fields |-> k[f]]
      /\ k.dbSize = h.dbSize /\ k.eState = h.eState /\ k.hot = h.hot
  <2>1. 1 \in Pages
    BY Bounds DEF Pages
  <2>2. DataType(Loaded(h, 1), b)
    BY <1>2, <1>4, <1>5, <2>1, LoadedTyped
  <2>3. /\ Loaded(h, 1) = [f \in Fields |-> Loaded(h, 1)[f]]
        /\ \A f \in Fields \ {"cache", "vers"} : Loaded(h, 1)[f] = h[f]
    <3>1. h = [f \in Fields |-> h[f]]
      BY <1>4
    <3>2. QED
      BY <3>1, LoadedIs, Zenon
  <2>4. /\ Loaded(h, 1).dbSize = h.dbSize /\ Loaded(h, 1).eState = h.eState
        /\ Loaded(h, 1).hot = h.hot
    BY <2>3 DEF Fields
  <2>5. QED
    BY <1>4, <1>5, <2>2, <2>3, <2>4
<1> HIDE DEF k
<1>7. /\ \A f \in Fields \ {"nPage"} : g[f] = k[f]
      /\ g.nPage = Version(k.cache[1]).nPage
  BY <1>6 DEF Fields
<1> HIDE DEF g
<1>8. /\ g.cache = k.cache /\ g.vers = k.vers /\ g.dbSize = k.dbSize
      /\ g.orig = k.orig /\ g.off = k.off /\ g.nonce = k.nonce /\ g.dirty = k.dirty
      /\ g.needSync = k.needSync /\ g.hot = k.hot /\ g.eState = k.eState
  BY <1>7 DEF Fields
<1>9. Version(k.cache[1]).nPage \in 0..MaxPage
  BY <1>6, VersionTyped DEF DataType
<1>10. DataType(g, b)
  BY <1>6, <1>7, <1>8, <1>9 DEF DataType
<1>11. SizeType(g, db) /\ HeaderType(g, journal[g.jfd], b)
  BY <1>2, <1>4, <1>6, <1>8, SizeIs DEF SizeType, HeaderType, Logging
<1>12. QED
  BY <1>1, <1>10, <1>11, OnlyPagerTyped

\* A page is read.
LEMMA ReadTyped ==
  ASSUME IInv, NEW b \in Nat, TInv(b), NEW c \in Conns, NEW p \in Pages, Read(c, p)
  PROVE  TInv(b)'
<1> DEFINE g == Loaded(pager[c], p)
<1>1. Set(c, g) /\ UNCHANGED <<mode, most, db, journal, dirent>> /\ pager[c].eState = "reader"
  BY DEF Read, files, counts
<1>2. /\ PagerInv(pager[c], lock[c]) /\ DataType(pager[c], b) /\ DbType(db)
      /\ SizeType(pager[c], db)
  BY DEF IInv, TInv
<1>3. DataType(g, b) /\ g.eState = "reader" /\ g.dbSize = pager[c].dbSize
  <2>1. pager[c] = [f \in Fields |-> pager[c][f]]
    BY <1>2 DEF PagerInv
  <2>2. DataType(g, b) /\ \A f \in Fields \ {"cache", "vers"} : g[f] = pager[c][f]
    BY ZenonT(60), <1>2, <2>1, LoadedTyped, LoadedFields
  <2> HIDE DEF g
  <2>3. QED
    BY <1>1, <2>2 DEF Fields
<1>4. SizeType(g, db) /\ HeaderType(g, journal[g.jfd], b)
  BY <1>1, <1>2, <1>3 DEF SizeType, HeaderType, Logging
<1>5. QED
  BY <1>1, <1>3, <1>4, OnlyPagerTyped

\* Every step of a read-transaction.
LEMMA ReadingTyped ==
  ASSUME IInv, NEW b \in Nat, TInv(b), NEW c \in Conns, Reading(c)
  PROVE  TInv(b)'
<1>1. PagerInv(pager[c], lock[c])
  BY DEF IInv
<1>2. CASE \/ SharedLock(c) \/ JournalExists(c) \/ CheckReserved(c) \/ EmptyReserve(c)
           \/ FirstByte(c)
  <2>1. pager[c].eState = "open"
    BY <1>1, <1>2 DEF PagerInv, StateInv, SharedLock, JournalExists, CheckReserved,
       EmptyReserve, FirstByte, ReadPcs, PlayPcs, CommitPcs
  <2>2. PICK pc : Goto(c, pc)
    BY <1>2 DEF SharedLock, JournalExists, CheckReserved, EmptyReserve, FirstByte
  <2>3. UNCHANGED <<mode, files, counts>>
    BY <1>2 DEF SharedLock, JournalExists, CheckReserved, EmptyReserve, FirstByte
  <2>4. QED
    BY <2>1, <2>2, <2>3, GotoOpenTyped
<1>3. CASE EmptyDelete(c)
  <2> DEFINE g == [pager[c] EXCEPT !.pc = "validate"]
  <2>1. /\ Set(c, g) /\ UNCHANGED <<mode, most, db, journal>> /\ dirent'.cur \in dirent'.may
    BY <1>3, NoName DEF EmptyDelete, Goto, counts
  <2>2. pager[c].eState = "open"
    BY <1>1, <1>3 DEF EmptyDelete, PagerInv, StateInv, ReadPcs, PlayPcs, CommitPcs
  <2>3. DataType(pager[c], b)
    BY DEF TInv
  <2>4. /\ \A f \in {"cache", "vers", "dbSize", "nPage", "orig", "off", "nonce", "dirty",
                     "needSync"} : g[f] = pager[c][f]
        /\ g.hot = pager[c].hot /\ g.eState = "open"
    BY <1>1, <2>2 DEF PagerInv, Fields
  <2> HIDE DEF g
  <2>5. DataType(g, b)
    <3>1. g.hot => pager[c].dirty = {}
      BY <2>3, <2>4 DEF DataType
    <3>2. QED
      BY <2>3, <2>4, <3>1, SameData
  <2>6. SizeType(g, db') /\ HeaderType(g, journal'[g.jfd], b)
    BY <2>4 DEF SizeType, HeaderType, Logging
  <2>7. QED
    BY <2>1, <2>5, <2>6, OneTyped DEF TInv
<1>4. CASE HotLock(c)
  <2>1. UNCHANGED <<mode, most, db, journal, dirent>>
    BY <1>4 DEF HotLock, files, counts
  <2>2. CASE Goto(c, "open")
    <3>1. pager[c].eState = "open" /\ UNCHANGED <<mode, files, counts>>
      BY <1>1, <1>4 DEF HotLock, PagerInv, StateInv, ReadPcs, PlayPcs, CommitPcs
    <3>2. QED
      BY <2>2, <3>1, GotoOpenTyped
  <2>3. CASE Set(c, Unlocked(pager[c], FALSE))
    BY <2>1, <2>3, UnlockTyped
  <2>4. QED
    BY <1>4, <2>2, <2>3 DEF HotLock
<1>5. CASE HotOpen(c)
  <2>1. pager[c].eState = "open" /\ UNCHANGED <<mode, files, counts>>
    BY <1>1, <1>5 DEF HotOpen, PagerInv, StateInv, ReadPcs, PlayPcs, CommitPcs
  <2>2. CASE dirent.cur = 0
    BY <1>5, <2>1, <2>2, GotoOpenTyped DEF HotOpen
  <2>3. CASE dirent.cur # 0
    <3> DEFINE g == [pager[c] EXCEPT !.jfd = dirent.cur, !.pc = "hotsync"]
    <3>1. Set(c, g) /\ UNCHANGED <<mode, most, db, journal, dirent>>
      BY <1>5, <2>1, <2>3 DEF HotOpen, files, counts
    <3>2. g.eState = "open" /\ \A f \in Fields \ {"pc", "spill", "commit", "left", "jfd"} : g[f] = pager[c][f]
      BY <1>1, <2>1 DEF PagerInv, Fields
    <3>3. QED
      BY <3>1, <3>2, GoesOnTyped
  <2>4. QED
    BY <2>2, <2>3
<1>6. CASE EndRead(c)
  BY <1>6, UnlockTyped DEF EndRead, files, counts
<1>7. QED
  BY <1>2, <1>3, <1>4, <1>5, <1>6, HotSyncTyped, ValidateTyped, ReadTyped DEF Reading

-----------------------------------------------------------------------------
\* The first write of a transaction: pager_open_journal() and pager_write()

\* The journal that a transaction opens, and what it finds there.
ToOpen(g) == IF g.jfd # 0 THEN g.jfd
             ELSE IF dirent.cur # 0 THEN dirent.cur ELSE NewInode
Found(g) == IF dirent.cur = 0 /\ g.jfd = 0 THEN NoJournal ELSE journal[ToOpen(g)]

\* pager_open_journal() finds a journal, and writes a header without magic.
LEMMA OpenedIs ==
  ASSUME FilesInv, NEW g, g = [f \in Fields |-> g[f]], g.jfd \in 0..MaxInode,
         g.jfd = 0 /\ dirent.cur = 0 => FreeInodes # {}
  PROVE  LET h == Opened(g).pager
         IN /\ Opened(g) = [pager |-> h, cells |-> Opened(g).cells]
            /\ ToOpen(g) \in Inodes /\ (g.jfd = 0 /\ dirent.cur = 0 => ToOpen(g) \in FreeInodes)
            /\ h = [f \in Fields |-> h[f]]
            /\ \A f \in Fields \ {"eState", "jfd", "off", "hdr", "header", "nRec", "nonce"} :
                 h[f] = g[f]
            /\ h.eState = "cachemod" /\ h.jfd = ToOpen(g) /\ h.off = 1 /\ h.hdr = 1
            /\ h.header = TRUE /\ h.nRec = 0 /\ h.nonce = NewNonce(Found(g))
            /\ Found(g) = [s \in Slots |-> Found(g)[s]]
            /\ Opened(g).cells = [Found(g) EXCEPT ![1] =
                                    Written(@, Header(FALSE, 0, h.nonce, g.orig))]
<1> DEFINE i == ToOpen(g)
           old == Found(g)
           nonce == NewNonce(old)
           h == [g EXCEPT !.eState = "cachemod", !.jfd = i, !.off = 1, !.hdr = 1,
                          !.header = TRUE, !.nRec = 0, !.nonce = nonce]
           cells == [old EXCEPT ![1] = Written(@, Header(FALSE, 0, nonce, g.orig))]
<1>1. Opened(g) = [pager |-> h, cells |-> cells]
  BY DEF Opened, ToOpen, Found
<1>2. i \in Inodes /\ (g.jfd = 0 /\ dirent.cur = 0 => i \in FreeInodes)
  <2>1. CASE g.jfd = 0 /\ dirent.cur = 0
    <3>1. FreeInodes \in SUBSET Nat /\ FreeInodes # {}
      BY <2>1, Bounds DEF FreeInodes, Inodes
    <3>2. NewInode \in FreeInodes
      BY <3>1, MinOfNat DEF NewInode
    <3>3. QED
      BY <2>1, <3>2 DEF FreeInodes, ToOpen
  <2>2. CASE ~(g.jfd = 0 /\ dirent.cur = 0)
    BY <2>2, Bounds DEF FilesInv, Inodes, ToOpen
  <2>3. QED
    BY <2>1, <2>2
<1>3. old = [s \in Slots |-> old[s]]
  <2>1. CASE dirent.cur = 0 /\ g.jfd = 0
    BY <2>1 DEF Found, NoJournal
  <2>2. CASE ~(dirent.cur = 0 /\ g.jfd = 0)
    BY <1>2, <2>2 DEF FilesInv, Found
  <2>3. QED
    BY <2>1, <2>2
<1> HIDE DEF i, old, nonce
<1>4. /\ h = [f \in Fields |-> h[f]]
      /\ \A f \in Fields \ {"eState", "jfd", "off", "hdr", "header", "nRec", "nonce"} : h[f] = g[f]
      /\ h.eState = "cachemod" /\ h.jfd = i /\ h.off = 1 /\ h.hdr = 1
      /\ h.header = TRUE /\ h.nRec = 0 /\ h.nonce = nonce
  BY DEF Fields
<1> HIDE DEF h, cells
<1>5. Opened(g).pager = h /\ Opened(g).cells = cells
  BY <1>1
<1>6. QED
  BY <1>1, <1>2, <1>3, <1>4, <1>5 DEF i, old, nonce, cells

\* What sqlite3PagerWrite() does to a pager and its journal, in its three cases.
JournalledIs(o, p, q) ==
  LET g == o.pager
      m == q.pager
  IN /\ q = [pager |-> m, cells |-> q.cells] /\ m = [f \in Fields |-> m[f]]
     /\ \A f \in Fields \ {"dirty", "dbSize", "off", "nRec", "needSync", "inJournal"} :
          m[f] = g[f]
     /\ m.dirty = g.dirty \cup {p} /\ m.dbSize = Max({g.dbSize, p})
     /\ \/ /\ p \in g.inJournal \/ p > g.orig
           /\ q.cells = o.cells
           /\ m.off = g.off /\ m.nRec = g.nRec /\ m.inJournal = g.inJournal
           /\ m.needSync \in {g.needSync, g.needSync \cup {p}}
        \/ /\ p \notin g.inJournal /\ p <= g.orig
           /\ m.off = g.off + 1 /\ m.nRec = g.nRec + 1
           /\ m.inJournal = g.inJournal \cup {p} /\ m.needSync = g.needSync \cup {p}
           /\ q.cells = PutRecord(o.cells, g.off + 1, Record(p, Content(g, p), g.nonce))

\* pager_write() journals a page, marks a new one, or only makes it dirty.
LEMMA JournalledFields ==
  ASSUME NEW o, o = [pager |-> o.pager, cells |-> o.cells],
         o.pager = [f \in Fields |-> o.pager[f]], NEW p \in Pages, o.pager.orig \in 0..MaxPage
  PROVE  JournalledIs(o, p, Journalled(o, p))
<1> DEFINE g == o.pager
           q == Journalled(o, p)
           n == Max({g.dbSize, p})
           h == [g EXCEPT !.dirty = @ \cup {p}, !.dbSize = n]
           rest == Fields \ {"dirty", "dbSize", "off", "nRec", "needSync", "inJournal"}
<1>1. /\ h = [f \in Fields |-> h[f]] /\ h.dirty = g.dirty \cup {p} /\ h.dbSize = n
      /\ \A f \in Fields \ {"dirty", "dbSize"} : h[f] = g[f]
  BY DEF Fields
<1> DEFINE m == q.pager
<1>2. h = [g EXCEPT !.dirty = @ \cup {p}, !.dbSize = Max({@, p})]
  OBVIOUS
<1>3. p \in Nat /\ g.orig \in Nat
  BY Bounds DEF Pages
<1> HIDE DEF h, m, q, n
<1>4. CASE p \in g.inJournal
  <2>1. q = [pager |-> h, cells |-> o.cells]
    BY <1>2, <1>4 DEF Journalled, q
  <2>2. m = h /\ q.cells = o.cells
    BY <2>1 DEF m
  <2>3. /\ m.dirty = g.dirty \cup {p} /\ m.dbSize = n /\ \A f \in rest : m[f] = g[f]
        /\ m.off = g.off /\ m.nRec = g.nRec /\ m.inJournal = g.inJournal /\ m.needSync = g.needSync
    BY <1>1, <2>2 DEF Fields
  <2>4. QED
    BY <1>1, <1>4, <2>1, <2>2, <2>3 DEF JournalledIs, m, n, q
<1>5. CASE p \notin g.inJournal /\ p <= g.orig
  <2> DEFINE k == [h EXCEPT !.off = @ + 1, !.nRec = @ + 1,
                            !.needSync = @ \cup {p}, !.inJournal = @ \cup {p}]
  <2>1. q = [pager |-> k,
             cells |-> PutRecord(o.cells, g.off + 1, Record(p, Content(g, p), g.nonce))]
    BY <1>2, <1>5 DEF Journalled, q
  <2>2. /\ k = [f \in Fields |-> k[f]]
        /\ k.dirty = g.dirty \cup {p} /\ k.dbSize = n /\ \A f \in rest : k[f] = g[f]
        /\ k.off = g.off + 1 /\ k.nRec = g.nRec + 1
        /\ k.inJournal = g.inJournal \cup {p} /\ k.needSync = g.needSync \cup {p}
    BY <1>1 DEF Fields
  <2> HIDE DEF k
  <2>3. m = k /\ q.cells = PutRecord(o.cells, g.off + 1, Record(p, Content(g, p), g.nonce))
    BY <2>1 DEF m
  <2>4. QED
    BY <1>5, <2>1, <2>2, <2>3 DEF JournalledIs, m, n, q
<1>6. CASE p \notin g.inJournal /\ ~(p <= g.orig)
  <2> DEFINE k == [h EXCEPT !.needSync = IF g.eState # "dbmod" THEN @ \cup {p} ELSE @]
  <2>1. q = [pager |-> k, cells |-> o.cells]
    BY <1>2, <1>6 DEF Journalled, q
  <2>2. /\ k = [f \in Fields |-> k[f]]
        /\ k.dirty = g.dirty \cup {p} /\ k.dbSize = n /\ \A f \in rest : k[f] = g[f]
        /\ k.off = g.off /\ k.nRec = g.nRec /\ k.inJournal = g.inJournal
        /\ k.needSync \in {g.needSync, g.needSync \cup {p}}
    BY <1>1 DEF Fields
  <2> HIDE DEF k
  <2>3. m = k /\ q.cells = o.cells /\ p > g.orig
    BY <1>3, <1>6, <2>1 DEF m
  <2>4. QED
    BY <2>1, <2>2, <2>3 DEF JournalledIs, m, n, q
<1>7. QED
  BY <1>4, <1>5, <1>6 DEF q

\* A transaction is ready to change a page: its log is in order, and has room.
LEMMA ReadyToWrite ==
  ASSUME IInv, NEW c \in Conns, NEW p \in Pages,
         pager[c].eState \in {"locked", "cachemod", "dbmod"},
         pager[c].pc \in {"idle", "phase1"},
         pager[c].eState = "locked" => pager[c].pc = "idle" /\ pager[c].off + 2 <= MaxSlot,
         pager[c].eState = "locked" /\ pager[c].jfd = 0 /\ dirent.cur = 0 => FreeInodes # {},
         pager[c].off < MaxSlot
  PROVE  LET v == Writable(Loaded(pager[c], p))
         IN /\ Writes(v, lock[c]) /\ v.pager.pc = pager[c].pc /\ v.pager.off + 1 <= MaxSlot
            /\ lock[c] >= RESERVED_LOCK
<1> DEFINE l == lock[c]
           g == Loaded(pager[c], p)
           v == Writable(g)
<1>1. /\ PagerInv(pager[c], l) /\ FilesInv /\ l \in Levels
      /\ Logging(pager[c]) => LogInv(pager[c], journal[pager[c].jfd])
  BY DEF IInv, LockTypeOK
<1>2. /\ PagerInv(g, l) /\ g.eState = pager[c].eState /\ g.pc = pager[c].pc
      /\ g = [f \in Fields |-> g[f]]
      /\ \A f \in Fields \ {"cache", "vers"} : g[f] = pager[c][f]
  BY <1>1, LoadedKeeps, LoadedIs DEF PagerInv
<1>3. /\ g.jfd = pager[c].jfd /\ g.off = pager[c].off /\ g.hdr = pager[c].hdr
      /\ g.nRec = pager[c].nRec /\ g.nonce = pager[c].nonce /\ g.dirty = pager[c].dirty
      /\ g.needSync = pager[c].needSync /\ g.inJournal = pager[c].inJournal
      /\ g.orig = pager[c].orig /\ g.spill = pager[c].spill
  BY <1>2 DEF Fields
<1>4. l >= RESERVED_LOCK
  BY <1>1 DEF PagerInv, StateInv
<1> HIDE DEF l, g, v
<1>5. Writes(v, l) /\ v.pager.pc = pager[c].pc /\ v.pager.off + 1 <= MaxSlot
  <2>1. CASE g.eState = "locked"
    <3>1. pager[c].off = 0
      BY <1>1, <1>2, <2>1 DEF PagerInv, CleanInv, HotInv
    <3>2. v = Opened(g)
      BY <2>1 DEF v, Writable
    <3>3. Writes(Opened(g), l) /\ Opened(g).pager.pc = "idle" /\ Opened(g).pager.off = 1
      BY <1>1, <1>2, <1>3, <2>1, OpenedWrites
    <3>4. QED
      BY <1>2, <2>1, <3>1, <3>2, <3>3
  <2>2. CASE g.eState # "locked"
    <3> DEFINE cells == journal[g.jfd]
    <3>1. v = [pager |-> g, cells |-> cells]
      BY <2>2 DEF v, Writable
    <3>2. Logging(pager[c]) /\ g.jfd \in Inodes
      BY <1>2, <2>2, Bounds DEF Logging, PagerInv, JournalInv, Inodes
    <3>3. cells = [s \in Slots |-> cells[s]]
      BY <1>1, <3>2 DEF FilesInv
    <3>4. LogInv(pager[c], cells) /\ pager[c].spill = 0
      BY <1>1, <1>2, <1>3, <2>2, <3>2 DEF PagerInv, CommitInv
    <3>5. LogInv(g, cells)
      BY <1>2, <1>3, <3>4, SameLog
    <3>6. g.off + 1 <= MaxSlot
      BY <1>3, <3>4, Bounds DEF LogInv
    <3> HIDE DEF cells
    <3>7. QED
      BY <1>2, <2>2, <3>1, <3>3, <3>5, <3>6 DEF Writes
  <2>3. QED
    BY <2>1, <2>2
<1>6. QED
  BY <1>4, <1>5 DEF l, g, v

\* A pager that is about to change page p, and its journal.
OpenTyped(v, p, b) ==
  /\ DataType(v.pager, b) /\ JournalType(v.cells, b) /\ HeaderType(v.pager, v.cells, b)
  /\ Present(db, v.pager.orig)
  /\ p <= v.pager.orig => v.pager.cache[p] # NoPage

\* A record is one of the cells a journal may have.
LEMMA RecordTyped ==
  ASSUME NEW b \in Nat, NEW p \in Pages, NEW x \in OnDisk \ {NoPage},
         p = 1 => x \in FirstPages, NEW n \in 0..b
  PROVE  Record(p, x, n) \in Cells(b)
BY DEF Record, Cells, RecordCells

\* So is a header.
LEMMA HeaderTyped ==
  ASSUME NEW b \in Nat, NEW magic \in BOOLEAN, NEW nRec \in Nat, NEW n \in 0..b,
         NEW orig \in 0..MaxPage
  PROVE  /\ Header(magic, nRec, n, orig) \in HeaderCells(b)
         /\ Header(magic, nRec, n, orig) \in Cells(b)
BY DEF Header, Cells, HeaderCells

\* So is what a journal has where it was ended.
LEMMA CutTyped == \A b \in Nat : NoCell \in Cells(b) /\ Junk \in Cells(b)
BY DEF Cells

\* A cell of a journal is written.
LEMMA PutTyped ==
  ASSUME NEW b, NEW cells, cells = [s \in Slots |-> cells[s]], JournalType(cells, b),
         NEW t \in Slots, NEW x, CellOf(x, Cells(b))
  PROVE  JournalType([cells EXCEPT ![t] = x], b)
BY DEF JournalType

\* A pager that is ready to change pages is of its type.
LEMMA WritableTyped ==
  ASSUME IInv, NEW b \in Nat, TInv(b), NEW c \in Conns, NEW p \in Pages,
         pager[c].eState \in {"locked", "cachemod", "dbmod"},
         pager[c].pc \in {"idle", "phase1"},
         pager[c].eState = "locked" /\ pager[c].jfd = 0 /\ dirent.cur = 0 => FreeInodes # {}
  PROVE  OpenTyped(Writable(Loaded(pager[c], p)), p, b + 1)
<1> DEFINE r == pager[c]
           g == Loaded(r, p)
           v == Writable(g)
<1>1. /\ PagerInv(r, lock[c]) /\ FilesInv /\ DataType(r, b) /\ SizeType(r, db)
      /\ HeaderType(r, journal[r.jfd], b) /\ DbType(db)
      /\ \A i \in Inodes : JournalType(journal[i], b)
  BY DEF IInv, TInv
<1>2. r = [f \in Fields |-> r[f]]
  BY <1>1 DEF PagerInv
<1>3. /\ g = [f \in Fields |-> g[f]] /\ \A f \in Fields \ {"cache", "vers"} : g[f] = r[f]
      /\ g.cache = [r.cache EXCEPT ![p] = Content(r, p)]
  <2> HIDE DEF r
  <2>1. g = [f \in Fields |-> g[f]] /\ \A f \in Fields \ {"cache", "vers"} : g[f] = r[f]
    BY <1>2, LoadedIs, Zenon
  <2>2. g.cache = [r.cache EXCEPT ![p] = Content(r, p)]
    BY <1>2, LoadedFields
  <2>3. QED
    BY <2>1, <2>2
<1>4. DataType(g, b)
  BY <1>1, <1>2, LoadedTyped
<1>5. /\ g.eState = r.eState /\ g.pc = r.pc /\ g.dbSize = r.dbSize /\ g.orig = r.orig
      /\ g.jfd = r.jfd /\ g.hdr = r.hdr /\ g.header = r.header /\ g.off = r.off
      /\ g.needSync = r.needSync /\ g.hot = r.hot /\ g.dirty = r.dirty
  BY <1>3 DEF Fields
<1>6. Present(db, r.orig)
  <2>1. CASE r.eState = "locked"
    BY <1>1, <2>1 DEF SizeType, PagerInv, CleanInv
  <2>2. CASE r.eState # "locked"
    BY <1>1, <2>2 DEF SizeType, InUndo
  <2>3. QED
    BY <2>1, <2>2
<1>7. p <= r.orig => g.cache[p] # NoPage
  <2>1. SUFFICES ASSUME p <= r.orig PROVE g.cache[p] # NoPage
    OBVIOUS
  <2>2. db[p].cur # NoPage
    BY <1>6, <2>1 DEF Present
  <2>3. Content(r, p) # NoPage
    BY <1>1, <2>2, ContentTyped
  <2>4. QED
    BY <1>1, <1>3, <2>3 DEF DataType
<1> HIDE DEF g
<1>8. ASSUME r.eState = "locked"
      PROVE  OpenTyped(v, p, b + 1)
  <2>1. v = Opened(g)
    BY <1>5, <1>8 DEF Writable
  <2>2. g.jfd \in 0..MaxInode /\ (g.jfd = 0 /\ dirent.cur = 0 => FreeInodes # {})
    BY <1>1, <1>5, <1>8 DEF PagerInv, JournalInv
  <2> DEFINE h == Opened(g).pager
             cells == Opened(g).cells
             old == Found(g)
  <2>3. /\ ToOpen(g) \in Inodes /\ h = [f \in Fields |-> h[f]]
        /\ \A f \in Fields \ {"eState", "jfd", "off", "hdr", "header", "nRec", "nonce"} :
             h[f] = g[f]
        /\ h.eState = "cachemod" /\ h.off = 1 /\ h.hdr = 1 /\ h.header = TRUE
        /\ h.nonce = NewNonce(old) /\ old = [s \in Slots |-> old[s]]
        /\ cells = [old EXCEPT ![1] = Written(@, Header(FALSE, 0, h.nonce, g.orig))]
    BY ZenonT(30), <1>1, <1>3, <2>2, OpenedIs
  <2> HIDE DEF h, cells
  <2>4. /\ h.cache = g.cache /\ h.vers = g.vers /\ h.dbSize = g.dbSize /\ h.nPage = g.nPage
        /\ h.orig = g.orig /\ h.dirty = g.dirty /\ h.needSync = g.needSync /\ h.hot = g.hot
        /\ h.pc = g.pc
    BY <2>3 DEF Fields
  <2>5. JournalType(old, b)
    <3>1. CASE old = NoJournal
      BY SMTT(60), <3>1, CutTyped DEF JournalType, NoJournal, CellOf, Stable
    <3>2. CASE old = journal[ToOpen(g)]
      BY <1>1, <2>3, <3>2
    <3>3. QED
      BY <3>1, <3>2 DEF Found
  <2> HIDE DEF old
  <2>6. h.nonce \in 0..b + 1 /\ b + 1 \in Nat
    BY <2>3, <2>5, NonceIsNew
  <2>7. DataType(h, b + 1)
    BY <1>4, <2>3, <2>4, <2>6, Bounds DEF DataType
  <2> DEFINE x == Header(FALSE, 0, h.nonce, g.orig)
  <2>8. x \in HeaderCells(b + 1) /\ x \in Cells(b + 1) /\ x.orig = g.orig
    <3>1. g.orig \in 0..MaxPage /\ 0 \in Nat /\ FALSE \in BOOLEAN
      BY <1>4 DEF DataType
    <3>2. QED
      BY <2>6, <3>1, HeaderTyped DEF Header
  <2> HIDE DEF x
  <2>9. 1 \in Slots /\ JournalType(old, b + 1) /\ CellOf(old[1], Cells(b + 1))
    <3>1. 1 \in Slots
      BY Bounds DEF Slots
    <3>2. JournalType(old, b + 1)
      BY <2>5, <2>6, TypesGrow
    <3>3. QED
      BY <3>1, <3>2 DEF JournalType
  <2>10. CellOf(Written(old[1], x), Cells(b + 1))
    BY <2>8, <2>9, WrittenCell
  <2>11. cells = [old EXCEPT ![1] = Written(old[1], x)]
    BY <2>3 DEF x
  <2>12. JournalType(cells, b + 1)
    BY <2>3, <2>9, <2>10, <2>11, PutTyped
  <2>13. cells[1].cur = x
    <3>1. cells[1] = Written(old[1], x)
      BY <2>3, <2>9, <2>11
    <3>2. QED
      BY <3>1 DEF Written
  <2>14. HeaderType(h, cells, b + 1)
    <3>1. r.dirty = {}
      BY <1>1, <1>8 DEF PagerInv, HotInv, CleanInv
    <3>2. h.dirty = {}
      BY <1>5, <2>4, <3>1
    <3>3. QED
      BY <2>3, <2>4, <2>8, <2>13, <1>5, <3>2 DEF HeaderType, InUndo
  <2>15. v.pager = h /\ v.cells = cells
    BY <2>1 DEF h, cells
  <2> HIDE DEF v
  <2>16. QED
    BY <1>5, <1>6, <1>7, <2>4, <2>7, <2>12, <2>14, <2>15 DEF OpenTyped
<1>9. ASSUME r.eState # "locked"
      PROVE  OpenTyped(v, p, b + 1)
  <2>1. v.pager = g /\ v.cells = journal[g.jfd]
    BY <1>5, <1>9 DEF Writable
  <2>2. g.jfd \in Inodes
    BY <1>1, <1>5, <1>9, Bounds DEF PagerInv, JournalInv, Inodes
  <2> HIDE DEF v
  <2>3. HeaderType(g, journal[g.jfd], b)
    <3>1. Logging(r) /\ 1 \in Pages
      BY <1>1, <1>9, Bounds DEF Logging, Pages
    <3>2. 1 \in r.dirty => g.cache[1] = r.cache[1]
      BY <1>1, <1>3, <3>1 DEF DataType, Content
    <3>3. QED
      BY <1>1, <1>5, <3>1, <3>2 DEF HeaderType, InUndo
  <2>4. b + 1 \in Nat /\ b <= b + 1
    OBVIOUS
  <2>5. /\ HeaderType(v.pager, v.cells, b + 1) /\ DataType(v.pager, b + 1)
        /\ JournalType(v.cells, b + 1)
    BY <1>1, <1>4, <2>1, <2>2, <2>3, <2>4, TypesGrow
  <2>6. QED
    BY <1>5, <1>6, <1>7, <2>1, <2>5 DEF OpenTyped
<1>10. QED
  BY <1>8, <1>9 DEF g, v

\* The page is changed, behind its record in the journal.
LEMMA ChangedTyped ==
  ASSUME NEW b \in Nat, NEW v, NEW l, Writes(v, l), NEW p \in Pages, OpenTyped(v, p, b),
         v.pager.off + 1 <= MaxSlot, DbType(db),
         NEW x \in OnDisk \ {NoPage}, p = 1 => x \in HeaderPages,
         NEW q, q = Journalled(v, p), NEW m,
         \A f \in Fields \ {"cache", "nPage", "dbSize", "commit", "pc"} : m[f] = q.pager[f],
         m.cache = [q.pager.cache EXCEPT ![p] = x],
         m.nPage \in 0..MaxPage, m.dbSize \in 0..MaxPage, m.pc \in {"idle", "jsync"}
  PROVE  DataType(m, b) /\ SizeType(m, db) /\ JournalType(q.cells, b) /\ HeaderType(m, q.cells, b)
<1> DEFINE g == v.pager
           k == q.pager
<1>1. /\ v = [pager |-> g, cells |-> v.cells] /\ PagerInv(g, l)
      /\ g.eState \in {"cachemod", "dbmod"} /\ g.pc \in {"idle", "phase1"}
      /\ v.cells = [s \in Slots |-> v.cells[s]] /\ LogInv(g, v.cells)
  BY DEF Writes
<1>2. /\ DataType(g, b) /\ JournalType(v.cells, b) /\ HeaderType(g, v.cells, b)
      /\ Present(db, g.orig) /\ (p <= g.orig => g.cache[p] # NoPage)
  BY DEF OpenTyped
<1>3. JournalledIs(v, p, q)
  <2>1. g.orig \in 0..MaxPage /\ g = [f \in Fields |-> g[f]]
    BY <1>1, <1>2 DEF DataType, PagerInv
  <2>2. QED
    BY <1>1, <2>1, JournalledFields
<1>4. /\ k.cache = g.cache /\ k.vers = g.vers /\ k.orig = g.orig /\ k.nonce = g.nonce
      /\ k.hot = g.hot /\ k.header = g.header /\ k.hdr = g.hdr /\ k.eState = g.eState
      /\ k.dirty = g.dirty \cup {p} /\ k.needSync \subseteq g.needSync \cup {p}
      /\ k.off \in {g.off, g.off + 1}
      /\ \/ q.cells = v.cells
         \/ /\ p <= g.orig
            /\ q.cells = PutRecord(v.cells, g.off + 1, Record(p, Content(g, p), g.nonce))
  BY <1>3 DEF JournalledIs, Fields
<1>5. /\ m.vers = k.vers /\ m.orig = k.orig /\ m.nonce = k.nonce /\ m.hot = k.hot
      /\ m.header = k.header /\ m.hdr = k.hdr /\ m.eState = k.eState /\ m.dirty = k.dirty
      /\ m.needSync = k.needSync /\ m.off = k.off
  BY DEF Fields
<1>6. g.hot = FALSE /\ g.off \in Nat /\ g.hdr \in Nat \ {0} /\ g.nRec \in Nat /\ g.off = g.hdr + g.nRec
      /\ g.off + 1 \in Slots
  BY SMTT(30), <1>1, Bounds DEF PagerInv, HotInv, LogInv, Slots
<1> HIDE DEF k, g
<1>7. DataType(m, b)
  <2>1. m.cache \in [Pages -> OnDisk] /\ m.cache[1] \in FirstPages
    <3>1. x \in OnDisk /\ (p = 1 => x \in FirstPages) /\ 1 \in Pages
      BY Bounds DEF FirstPages, Pages
    <3>2. g.cache \in [Pages -> OnDisk] /\ g.cache[1] \in FirstPages
      BY <1>2 DEF DataType
    <3>3. m.cache = [g.cache EXCEPT ![p] = x]
      BY <1>4 DEF k
    <3>4. QED
      BY <3>1, <3>2, <3>3
  <2>2. m.dirty \subseteq {r \in Pages : m.cache[r] # NoPage}
    BY <1>2, <1>4, <1>5 DEF DataType, k
  <2>3. m.off \in 0..MaxSlot
    <3>1. g.off \in 0..MaxSlot /\ g.off + 1 \in 0..MaxSlot
      BY <1>6, Bounds DEF Slots
    <3>2. QED
      BY <1>4, <1>5, <3>1
  <2>4. QED
    BY <1>2, <1>4, <1>5, <1>6, <2>1, <2>2, <2>3 DEF DataType
<1>8. SizeType(m, db)
  BY <1>1, <1>2, <1>4, <1>5 DEF SizeType, InUndo
<1>12. 1 \in m.dirty => m.cache[1] \in HeaderPages
  <2>1. m.cache = [g.cache EXCEPT ![p] = x] /\ g.cache \in [Pages -> OnDisk] /\ Logging(g)
    BY <1>1, <1>2, <1>4 DEF DataType, Logging, k
  <2>2. 1 \in Pages /\ (1 \in g.dirty => g.cache[1] \in HeaderPages)
    BY <1>2, <2>1, Bounds DEF HeaderType, Pages
  <2>3. QED
    BY <1>4, <1>5, <2>1, <2>2
<1>9. CASE q.cells = v.cells
  <2>1. HeaderType(m, q.cells, b)
    BY <1>1, <1>2, <1>4, <1>5, <1>9, <1>12 DEF HeaderType, InUndo
  <2>2. QED
    BY <1>2, <1>7, <1>8, <1>9, <2>1
<1>10. CASE /\ p <= g.orig
            /\ q.cells = PutRecord(v.cells, g.off + 1, Record(p, Content(g, p), g.nonce))
  <2> DEFINE y == Record(p, Content(g, p), g.nonce)
  <2>1. y \in Cells(b)
    <3>1. /\ Content(g, p) \in OnDisk \ {NoPage} /\ (p = 1 => Content(g, p) \in FirstPages)
          /\ g.nonce \in 0..b
      BY <1>2, <1>10, ContentTyped DEF Content, DataType
    <3>2. QED
      BY <3>1, RecordTyped
  <2> HIDE DEF y
  <2>2. CellOf(v.cells[g.off + 1], Cells(b)) /\ Junk \in Cells(b)
    BY <1>2, <1>6, CutTyped DEF JournalType
  <2>3. CellOf(WrittenPage(v.cells[g.off + 1], y, Junk), Cells(b))
    BY <2>1, <2>2, WrittenCell
  <2>4. q.cells = [v.cells EXCEPT ![g.off + 1] = WrittenPage(v.cells[g.off + 1], y, Junk)]
    BY <1>10 DEF PutRecord, y
  <2>5. JournalType(q.cells, b)
    BY <1>1, <1>2, <1>6, <2>3, <2>4, PutTyped
  <2>6. \A s \in Slots : s # g.off + 1 => q.cells[s] = v.cells[s]
    BY <1>1, <2>4
  <2>7. 1 \in Slots /\ 1 # g.off + 1 /\ g.hdr # g.off + 1
    BY <1>6, Bounds DEF Slots
  <2>8. HeaderType(m, q.cells, b)
    BY <1>1, <1>2, <1>4, <1>5, <1>12, <2>6, <2>7 DEF HeaderType, InUndo
  <2>9. QED
    BY <1>7, <1>8, <2>5, <2>8
<1>11. QED
  BY <1>4, <1>9, <1>10

\* The pager and its journal after a page was changed.
LEMMA StoreTyped ==
  ASSUME IInv, NEW b \in Nat, TInv(b), NEW c \in Conns, NEW o, Store(c, o),
         UNCHANGED <<mode, most, db>>, lock[c] >= RESERVED_LOCK, o.pager.jfd \in Inodes,
         DataType(o.pager, b + 1), SizeType(o.pager, db), JournalType(o.cells, b + 1),
         HeaderType(o.pager, o.cells, b + 1)
  PROVE  TInv(b + 1)'
<1>1. /\ FilesInv /\ dirent.cur \in dirent.may /\ DbType(db) /\ b + 1 \in Nat
      /\ \A i \in Inodes : JournalType(journal[i], b + 1)
  BY TypesGrow DEF IInv, TInv
<1>2. /\ Set(c, o.pager) /\ journal' = [journal EXCEPT ![o.pager.jfd] = o.cells]
      /\ dirent'.cur \in dirent'.may
  BY <1>1 DEF Store
<1>3. /\ journal'[o.pager.jfd] = o.cells
      /\ \A i \in Inodes : journal'[i] \in {journal[i], o.cells}
  BY <1>1, <1>2 DEF FilesInv
<1>4. DbType(db') /\ SizeType(o.pager, db')
  BY <1>1
<1>5. (\A i \in Inodes : JournalType(journal'[i], b + 1))
      /\ HeaderType(o.pager, journal'[o.pager.jfd], b + 1)
  BY <1>1, <1>3
<1>6. b <= b + 1
  OBVIOUS
<1>7. QED
  BY <1>1, <1>2, <1>4, <1>5, <1>6, OneTyped

\* The larger of two numbers.
LEMMA MaxOfTwo ==
  ASSUME NEW n \in Nat, NEW j \in 0..n, NEW k \in 0..n
  PROVE  Max({j, k}) = IF j <= k THEN k ELSE j
<1>1. {j, k} \in SUBSET (0..n) /\ {j, k} # {}
  OBVIOUS
<1>2. Max({j, k}) \in {j, k} /\ \A y \in {j, k} : y <= Max({j, k})
  BY <1>1, MaxOfUpTo
<1> DEFINE m == Max({j, k})
<1> HIDE DEF m
<1>3. m \in {j, k} /\ j <= m /\ k <= m /\ j \in Nat /\ k \in Nat
  BY <1>2 DEF m
<1>4. m = IF j <= k THEN k ELSE j
  BY <1>3
<1>5. QED
  BY <1>4 DEF m

\* A page is changed or appended.
LEMMA PageChangeTyped ==
  ASSUME IInv, NEW b \in Nat, TInv(b), NEW c \in Conns, NEW p \in Pages,
         NEW x \in Values \cup {FirstPage(1)}, Write(c, p, x)
  PROVE  TInv(b + 1)'
<1> DEFINE v == Writable(Loaded(pager[c], p))
           q == Journalled(v, p)
           n == Max({pager[c].nPage, p})
           m == [q.pager EXCEPT !.cache[p] = x, !.nPage = n]
           w == [q EXCEPT !.pager = [@ EXCEPT !.cache[p] = x, !.nPage = n]]
<1>1. /\ pager[c].eState \in {"locked", "cachemod", "dbmod"} /\ pager[c].pc = "idle"
      /\ pager[c].eState = "locked" /\ pager[c].jfd = 0 /\ dirent.cur = 0 => FreeInodes # {}
      /\ pager[c].off + 2 <= MaxSlot
      /\ Store(c, w) /\ UNCHANGED <<mode, most, db>>
      /\ (p = 1 => x = [ver |-> 0, nPage |-> 1]) /\ (p # 1 => x \in Values)
  BY DEF Write, InWrite, counts, Pages
<1>2. DbType(db) /\ DataType(pager[c], b) /\ b + 1 \in Nat
  BY DEF TInv
<1>3. x \in OnDisk \ {NoPage} /\ (p = 1 => x \in HeaderPages)
  <2>1. CASE p = 1
    <3>1. x \in HeaderPages
      BY <1>1, <2>1, Bounds DEF HeaderPages, Pages
    <3>2. QED
      BY <3>1, Contents DEF FirstPages, HeaderPages, PageContents
  <2>2. CASE p # 1
    BY <1>1, <2>2, Contents
  <2>3. QED
    BY <2>1, <2>2
<1>4. n \in 0..MaxPage /\ q.pager.dbSize \in 0..MaxPage
  <2>1. OpenTyped(v, p, b + 1)
    BY <1>1, WritableTyped
  <2>2. v.pager.dbSize \in 0..MaxPage /\ p \in 0..MaxPage /\ pager[c].nPage \in 0..MaxPage
    BY <1>2, <2>1, Bounds DEF OpenTyped, DataType, Pages
  <2>3. q.pager.dbSize \in {v.pager.dbSize, p}
    <3>1. pager[c].off < MaxSlot
      BY <1>1, <1>2, Bounds DEF DataType
    <3>2. Writes(v, lock[c])
      BY <1>1, <3>1, ReadyToWrite
    <3>3. v = [pager |-> v.pager, cells |-> v.cells] /\ v.pager = [f \in Fields |-> v.pager[f]]
          /\ v.pager.orig \in 0..MaxPage
      BY <2>1, <3>2 DEF Writes, PagerInv, OpenTyped, DataType
    <3> HIDE DEF v
    <3>4. JournalledIs(v, p, q)
      BY <3>3, JournalledFields
    <3>5. q.pager.dbSize = Max({v.pager.dbSize, p})
      BY <3>4 DEF JournalledIs
    <3>6. QED
      BY <2>2, <3>5, MaxOfTwo, Bounds
  <2>4. n \in {pager[c].nPage, p}
    BY <2>2, MaxOfTwo, Bounds
  <2> HIDE DEF n
  <2>5. QED
    BY <2>2, <2>3, <2>4
<1>5. /\ Writes(v, lock[c]) /\ v.pager.off + 1 <= MaxSlot /\ v.pager.pc = "idle"
      /\ lock[c] >= RESERVED_LOCK
  <2>1. pager[c].off < MaxSlot
    BY <1>1, <1>2, Bounds DEF DataType
  <2>2. QED
    BY <1>1, <2>1, ReadyToWrite
<1>6. OpenTyped(v, p, b + 1)
  BY <1>1, WritableTyped
<1> HIDE DEF v
<1>7. Writes(q, lock[c]) /\ q.pager.pc = "idle"
  BY <1>5, JournalledWrites
<1> HIDE DEF q
<1> HIDE DEF n
<1>8. w = [pager |-> m, cells |-> q.cells]
  BY <1>7 DEF Writes
<1>9. /\ \A f \in Fields \ {"cache", "nPage"} : m[f] = q.pager[f]
      /\ m.cache = [q.pager.cache EXCEPT ![p] = x] /\ m.nPage = n
  BY <1>7 DEF Writes, PagerInv, Fields
<1> HIDE DEF w, m
<1>10. m.dbSize = q.pager.dbSize /\ m.pc = "idle" /\ m.jfd = q.pager.jfd
  BY <1>7, <1>9 DEF Fields
<1>11. /\ DataType(m, b + 1) /\ SizeType(m, db) /\ JournalType(q.cells, b + 1)
       /\ HeaderType(m, q.cells, b + 1)
  <2>1. \A f \in Fields \ {"cache", "nPage", "dbSize", "commit", "pc"} : m[f] = q.pager[f]
    BY <1>9
  <2>2. q = Journalled(v, p)
    BY DEF q
  <2>3. QED
    BY <1>2, <1>3, <1>4, <1>5, <1>6, <1>9, <1>10, <2>1, <2>2, ChangedTyped
<1>12. q.pager.jfd \in Inodes
  BY <1>7, Bounds DEF Writes, PagerInv, JournalInv, Inodes
<1>13. QED
  <2>1. w.pager = m /\ w.cells = q.cells
    BY <1>8
  <2>2. Store(c, w)
    BY <1>1 DEF w, q, v, n
  <2>3. QED
    BY <1>1, <1>5, <1>10, <1>11, <1>12, <2>1, <2>2, StoreTyped

\* Phase one of a commit: page 1 is changed, and pages may be given up.
LEMMA CommitTyped ==
  ASSUME IInv, NEW b \in Nat, TInv(b), NEW c \in Conns, NEW n \in Pages, Commit(c, n)
  PROVE  TInv(b + 1)'
<1> DEFINE v == Writable(Loaded(pager[c], 1))
           q == Journalled(v, 1)
           x == [ver |-> pager[c].vers.ver + 1, nPage |-> n]
           m == [q.pager EXCEPT !.cache[1] = x, !.nPage = n, !.dbSize = n,
                                !.commit = TRUE, !.pc = "jsync"]
           w == [q EXCEPT !.pager =
                   [@ EXCEPT !.cache[1] = x, !.nPage = n, !.dbSize = n,
                             !.commit = TRUE, !.pc = "jsync"]]
<1>1. /\ pager[c].eState # "locked" /\ pager[c].pc = "phase1" /\ pager[c].off < MaxSlot
      /\ Store(c, w) /\ UNCHANGED <<mode, most, db>>
  BY DEF Commit, counts
<1>2. /\ PagerInv(pager[c], lock[c]) /\ DbType(db) /\ DataType(pager[c], b) /\ b + 1 \in Nat
      /\ 1 \in Pages
  BY Bounds DEF TInv, IInv, Pages
<1>3. pager[c].eState \in {"cachemod", "dbmod"}
  BY <1>1, <1>2 DEF PagerInv, StateInv, ReadPcs, PlayPcs
<1>4. x \in HeaderPages /\ x \in OnDisk \ {NoPage} /\ n \in 0..MaxPage
  <2>1. x \in HeaderPages
    BY <1>2 DEF HeaderPages, DataType
  <2>2. QED
    BY <2>1, Contents, Bounds DEF HeaderPages, PageContents, Pages
<1> HIDE DEF x
<1>5. /\ Writes(v, lock[c]) /\ v.pager.off + 1 <= MaxSlot /\ v.pager.pc = "phase1"
      /\ lock[c] >= RESERVED_LOCK
  BY <1>1, <1>2, <1>3, ReadyToWrite
<1>6. OpenTyped(v, 1, b + 1)
  BY <1>1, <1>2, <1>3, WritableTyped
<1> HIDE DEF v
<1>7. Writes(q, lock[c])
  BY <1>2, <1>5, JournalledWrites
<1> HIDE DEF q
<1>8. w = [pager |-> m, cells |-> q.cells]
  BY <1>7 DEF Writes
<1>9. /\ \A f \in Fields \ {"cache", "nPage", "dbSize", "commit", "pc"} : m[f] = q.pager[f]
      /\ m.cache = [q.pager.cache EXCEPT ![1] = x] /\ m.nPage = n /\ m.dbSize = n
      /\ m.pc = "jsync"
  BY <1>7 DEF Writes, PagerInv, Fields
<1> HIDE DEF w, m
<1>10. m.jfd = q.pager.jfd
  BY <1>9 DEF Fields
<1>11. /\ DataType(m, b + 1) /\ SizeType(m, db) /\ JournalType(q.cells, b + 1)
       /\ HeaderType(m, q.cells, b + 1)
  <2>1. q = Journalled(v, 1)
    BY DEF q
  <2>2. QED
    BY <1>2, <1>4, <1>5, <1>6, <1>9, <2>1, ChangedTyped
<1>12. q.pager.jfd \in Inodes
  BY <1>7, Bounds DEF Writes, PagerInv, JournalInv, Inodes
<1>13. QED
  <2>1. w.pager = m /\ w.cells = q.cells
    BY <1>8
  <2>2. Store(c, w)
    BY <1>1 DEF w, q, v, x
  <2>3. QED
    BY <1>1, <1>5, <1>10, <1>11, <1>12, <2>1, <2>2, StoreTyped

-----------------------------------------------------------------------------
\* What only moves a commit or a spill on, and the syncs of the journal

LoggingPcs == {"idle", "excl", "phase1", "jsync", "jhdr", "jsync2", "wdb"}

\* A transaction goes on from call to call while pages are changed.
LEMMA LoggingTyped ==
  ASSUME IInv, NEW b \in Nat, TInv(b), NEW c \in Conns, NEW g, Set(c, g),
         UNCHANGED <<mode, most, db, journal, dirent>>,
         \A f \in Fields \ {"pc", "spill", "commit"} : g[f] = pager[c][f],
         pager[c].pc \in LoggingPcs, g.pc \in LoggingPcs
  PROVE  TInv(b)'
<1>1. g.eState = pager[c].eState /\ g.jfd = pager[c].jfd
  BY DEF Fields
<1>2. \A f \in Fields \ {"pc", "spill", "commit", "left", "jfd"} : g[f] = pager[c][f]
  OBVIOUS
<1>3. \/ g.eState \notin {"cachemod", "dbmod"}
      \/ Logging(pager[c]) /\ Logging(g) /\ g.jfd = pager[c].jfd
  BY <1>1 DEF Logging, LoggingPcs
<1>4. QED
  BY <1>2, <1>3, GoesOnTyped

\* sqlite3PagerBegin()
LEMMA BeginWriteTyped ==
  ASSUME IInv, NEW b \in Nat, TInv(b), NEW c \in Conns, BeginWrite(c)
  PROVE  TInv(b)'
<1> DEFINE r == pager[c]
           g == [r EXCEPT !.eState = "locked", !.orig = r.dbSize]
<1>1. /\ PagerInv(r, lock[c]) /\ DataType(r, b) /\ SizeType(r, db) /\ r.eState = "reader"
      /\ Set(c, g) /\ UNCHANGED <<mode, most, db, journal, dirent>>
  BY DEF BeginWrite, IInv, TInv, files
<1>2. /\ g.cache = r.cache /\ g.vers = r.vers /\ g.dbSize = r.dbSize /\ g.nPage = r.nPage
      /\ g.orig = r.dbSize /\ g.off = r.off /\ g.nonce = r.nonce /\ g.dirty = r.dirty
      /\ g.needSync = r.needSync /\ g.hot = r.hot /\ g.eState = "locked"
  BY <1>1 DEF PagerInv, Fields
<1> HIDE DEF g
<1>3. DataType(g, b)
  BY <1>1, <1>2 DEF DataType
<1>4. SizeType(g, db) /\ HeaderType(g, journal[g.jfd], b)
  BY <1>1, <1>2 DEF SizeType, HeaderType, Logging
<1>5. QED
  BY <1>1, <1>3, <1>4, OnlyPagerTyped

\* The steps of a commit and of a spill before the journal is synced.
LEMMA LeadUpTyped ==
  ASSUME IInv, NEW b \in Nat, TInv(b), NEW c \in Conns,
         \/ BeginCommit(c) \/ CommitNothing(c) \/ \E p \in Pages : Spill(c, p)
         \/ Pending(c) \/ Exclusive(c) \/ Busy(c)
  PROVE  TInv(b)'
<1>1. PagerInv(pager[c], lock[c]) /\ pager[c] = [f \in Fields |-> pager[c][f]]
  BY DEF IInv, PagerInv
<1>2. ASSUME NEW pc, NEW spill, Set(c, [pager[c] EXCEPT !.spill = spill, !.pc = pc]),
             UNCHANGED <<mode, files, counts>>, pager[c].pc \in LoggingPcs, pc \in LoggingPcs
      PROVE  TInv(b)'
  <2> DEFINE g == [pager[c] EXCEPT !.spill = spill, !.pc = pc]
  <2>1. g.pc = pc /\ \A f \in Fields \ {"pc", "spill", "commit"} : g[f] = pager[c][f]
    BY <1>1 DEF Fields
  <2>2. UNCHANGED <<mode, most, db, journal, dirent>>
    BY <1>2 DEF files, counts
  <2> HIDE DEF g
  <2>3. QED
    BY <1>2, <2>1, <2>2, LoggingTyped DEF g
<1>3. ASSUME NEW pc, Goto(c, pc),
             UNCHANGED <<mode, files, counts>>, pager[c].pc \in LoggingPcs, pc \in LoggingPcs
      PROVE  TInv(b)'
  <2> DEFINE g == [pager[c] EXCEPT !.pc = pc]
  <2>1. g.pc = pc /\ \A f \in Fields \ {"pc", "spill", "commit"} : g[f] = pager[c][f]
    BY <1>1 DEF Fields
  <2>2. UNCHANGED <<mode, most, db, journal, dirent>> /\ Set(c, g)
    BY <1>3 DEF files, counts, Goto
  <2> HIDE DEF g
  <2>3. QED
    BY <1>3, <2>1, <2>2, LoggingTyped
<1>4. CASE BeginCommit(c)
  BY <1>3, <1>4 DEF BeginCommit, InWrite, LoggingPcs
<1>5. CASE CommitNothing(c)
  <2> DEFINE g == [pager[c] EXCEPT !.commit = TRUE, !.pc = "final"]
  <2>1. Set(c, g) /\ UNCHANGED <<mode, most, db, journal, dirent>> /\ pager[c].eState = "locked"
    BY <1>5 DEF CommitNothing, files, counts
  <2>2. g.eState = "locked"
        /\ \A f \in Fields \ {"pc", "spill", "commit", "left", "jfd"} : g[f] = pager[c][f]
    BY <1>1, <2>1 DEF Fields
  <2> HIDE DEF g
  <2>3. QED
    BY <2>1, <2>2, GoesOnTyped
<1>6. CASE \E p \in Pages : Spill(c, p)
  BY <1>2, <1>6 DEF Spill, InWrite, LoggingPcs
<1>7. CASE Pending(c)
  <2>1. UNCHANGED <<mode, most, db, journal, dirent, pager>>
    BY <1>7 DEF Pending, files, counts
  <2>2. Logging(pager[c]) \/ pager[c].eState \notin {"cachemod", "dbmod"}
    BY <1>7 DEF Pending, Logging
  <2>3. Set(c, pager[c])
    BY <2>1 DEF Set, IInv
  <2>4. QED
    BY <2>1, <2>2, <2>3, GoesOnTyped
<1>8. CASE Exclusive(c)
  BY <1>3, <1>8 DEF Exclusive, LoggingPcs
<1>9. CASE Busy(c)
  BY <1>2, <1>9 DEF Busy, LoggingPcs
<1>10. QED
  BY <1>4, <1>5, <1>6, <1>7, <1>8, <1>9

-----------------------------------------------------------------------------
\* A journal is synced, and files that were journals forgotten.
LEMMA SyncJournalTyped ==
  ASSUME FilesInv, NEW b \in Nat, \A i \in Inodes : JournalType(journal[i], b),
         NEW i \in Inodes, NEW cells, cells = [s \in Slots |-> cells[s]], JournalType(cells, b),
         SyncJournalFile(i, cells)
  PROVE  /\ dirent'.cur \in dirent'.may /\ \A j \in Inodes : JournalType(journal'[j], b)
         /\ journal'[i] = Sync(cells)
<1>1. dirent'.cur \in dirent'.may
  BY DEF SyncJournalFile, FilesInv
<1>2. journal'[i] = Sync(cells)
      /\ \A j \in Inodes : journal'[j] \in {Sync(cells), journal[j], NoJournal}
  BY DEF SyncJournalFile
<1>3. JournalType(NoJournal, b)
  BY CutTyped DEF JournalType, NoJournal, CellOf, Stable
<1>4. JournalType(Sync(cells), b)
  BY SyncedCells
<1>5. QED
  BY <1>1, <1>2, <1>3, <1>4

\* The first sync of the journal; the header of an earlier transaction behind
\* its end is cleared.
LEMMA JSyncTyped ==
  ASSUME IInv, NEW b \in Nat, TInv(b), NEW c \in Conns, JSync(c)
  PROVE  TInv(b)'
<1> DEFINE r == pager[c]
           cells == journal[r.jfd]
           next == r.off + 1
           clear == IF next <= MaxSlot /\ IsMagic(cells[next].cur)
                    THEN [cells EXCEPT ![next] =
                            Written(@, [cells[next].cur EXCEPT !.magic = FALSE])]
                    ELSE cells
           g == [r EXCEPT !.pc = "jhdr"]
<1>1. /\ PagerInv(r, lock[c]) /\ FilesInv /\ r.eState \in {"cachemod", "dbmod"}
      /\ lock[c] = EXCLUSIVE_LOCK /\ r.jfd \in Inodes /\ LogInv(r, cells) /\ r.pc = "jsync"
  BY SyncingLogs DEF JSync
<1>2. /\ DataType(r, b) /\ SizeType(r, db) /\ HeaderType(r, cells, b) /\ DbType(db)
      /\ \A i \in Inodes : JournalType(journal[i], b)
  BY DEF TInv
<1>3. /\ SyncJournalFile(r.jfd, clear) /\ Set(c, g) /\ UNCHANGED <<mode, most, db>>
  BY DEF JSync, Goto, counts
<1>4. cells = [s \in Slots |-> cells[s]] /\ JournalType(cells, b)
  BY <1>1, <1>2 DEF FilesInv
<1>5. r.off \in Nat /\ r.hdr \in Nat \ {0} /\ r.nRec \in Nat /\ next \in Nat /\ r.hdr < next /\ 1 < next
  BY <1>1, Bounds DEF LogInv
<1> HIDE DEF next
<1>6. /\ clear = [s \in Slots |-> clear[s]] /\ JournalType(clear, b)
      /\ \A s \in Slots : s < next => clear[s] = cells[s]
  <2>1. CASE next <= MaxSlot /\ IsMagic(cells[next].cur)
    <3> DEFINE x == [cells[next].cur EXCEPT !.magic = FALSE]
    <3>1. next \in Slots
      BY <1>5, <2>1, Bounds DEF Slots
    <3>2. CellOf(cells[next], Cells(b)) /\ cells[next].cur.kind = "header"
      BY <1>4, <2>1, <3>1 DEF JournalType, IsMagic
    <3>3. x \in Cells(b)
      <4>1. cells[next].cur \in HeaderCells(b)
        BY <3>2 DEF CellOf, Cells, RecordCells, NoCell, Junk
      <4>2. QED
        BY <4>1 DEF Cells, HeaderCells
    <3> HIDE DEF x
    <3>4. CellOf(Written(cells[next], x), Cells(b))
      BY <3>2, <3>3, WrittenCell
    <3>5. clear = [cells EXCEPT ![next] = Written(cells[next], x)]
      BY <2>1 DEF x
    <3> HIDE DEF clear
    <3>6. JournalType(clear, b)
      BY <1>4, <3>1, <3>4, <3>5, PutTyped
    <3>7. clear = [s \in Slots |-> clear[s]]
      BY <1>4, <3>5
    <3>8. \A s \in Slots : s # next => clear[s] = cells[s]
      BY <1>4, <3>5
    <3>9. \A s \in Slots : s < next => s # next
      BY Bounds DEF Slots
    <3>10. QED
      BY <3>6, <3>7, <3>8, <3>9
  <2>2. CASE ~(next <= MaxSlot /\ IsMagic(cells[next].cur))
    BY <1>4, <2>2
  <2>3. QED
    BY <2>1, <2>2
<1> HIDE DEF clear
<1>7. /\ dirent'.cur \in dirent'.may /\ \A j \in Inodes : JournalType(journal'[j], b)
      /\ journal'[r.jfd] = Sync(clear)
  BY <1>1, <1>2, <1>3, <1>6, SyncJournalTyped
<1>8. g.pc = "jhdr" /\ \A f \in Fields \ {"pc"} : g[f] = r[f]
  BY <1>1 DEF PagerInv, Fields
<1> HIDE DEF g
<1>9. /\ g.cache = r.cache /\ g.vers = r.vers /\ g.dbSize = r.dbSize /\ g.nPage = r.nPage
      /\ g.orig = r.orig /\ g.off = r.off /\ g.nonce = r.nonce /\ g.dirty = r.dirty
      /\ g.needSync = r.needSync /\ g.hot = r.hot /\ g.eState = r.eState
      /\ g.jfd = r.jfd /\ g.hdr = r.hdr /\ g.header = r.header
  BY <1>8 DEF Fields
<1>10. DataType(g, b)
  BY <1>2, <1>9 DEF DataType
<1>11. SizeType(g, db')
  BY <1>1, <1>2, <1>3, <1>8, <1>9 DEF SizeType, InUndo
<1>12. HeaderType(g, journal'[g.jfd], b)
  <2> DEFINE new == journal'[g.jfd]
  <2>1. \A s \in Slots : s < next => new[s].cur = cells[s].cur
    BY <1>6, <1>7, <1>9, SyncedCells
  <2>2. 1 \in Slots
    BY Bounds DEF Slots
  <2> HIDE DEF new
  <2>3. new[1].cur = cells[1].cur /\ (r.hdr \in Slots => new[r.hdr].cur = cells[r.hdr].cur)
    BY <1>5, <2>1, <2>2
  <2>4. HeaderType(g, new, b)
    BY <1>1, <1>2, <1>8, <1>9, <2>3 DEF HeaderType, InUndo, Logging
  <2>5. QED
    BY <2>4 DEF new
<1>13. DbType(db')
  BY <1>2, <1>3
<1>14. QED
  BY <1>1, <1>3, <1>7, <1>10, <1>11, <1>12, <1>13, OneTyped

\* writeJournalHdr() of a journal being synced: the header gets its magic.
LEMMA JHeaderTyped ==
  ASSUME IInv, NEW b \in Nat, TInv(b), NEW c \in Conns, JHeader(c)
  PROVE  TInv(b)'
<1> DEFINE r == pager[c]
           cells == journal[r.jfd]
           x == Header(TRUE, r.nRec, r.nonce, r.orig)
           g == [r EXCEPT !.pc = "jsync2"]
           new == [cells EXCEPT ![r.hdr] = Written(cells[r.hdr], x)]
<1>1. /\ PagerInv(r, lock[c]) /\ FilesInv /\ r.eState \in {"cachemod", "dbmod"}
      /\ lock[c] = EXCLUSIVE_LOCK /\ r.jfd \in Inodes /\ LogInv(r, cells) /\ r.pc = "jhdr"
  BY SyncingLogs DEF JHeader
<1>2. /\ DataType(r, b) /\ SizeType(r, db) /\ HeaderType(r, cells, b) /\ DbType(db)
      /\ \A i \in Inodes : JournalType(journal[i], b)
      /\ dirent.cur \in dirent.may
  BY DEF TInv
<1>3. /\ journal' = [journal EXCEPT ![r.jfd] = new] /\ Set(c, g)
      /\ UNCHANGED <<mode, most, db, dirent>>
  BY <1>1 DEF JHeader, Goto, counts, PutCell, FilesInv
<1>4. cells = [s \in Slots |-> cells[s]] /\ JournalType(cells, b)
  BY <1>1, <1>2 DEF FilesInv
<1>5. r.hdr \in Slots /\ 1 \in Slots /\ r.nRec \in Nat
  BY <1>1, Bounds DEF LogInv, Slots
<1>6. x \in HeaderCells(b) /\ x \in Cells(b) /\ x.orig = r.orig /\ IsMagic(x)
  <2>1. r.nonce \in 0..b /\ r.orig \in 0..MaxPage /\ TRUE \in BOOLEAN
    BY <1>2 DEF DataType
  <2>2. x.orig = r.orig /\ IsMagic(x)
    BY DEF Header, IsMagic
  <2>3. QED
    BY <1>5, <2>1, <2>2, HeaderTyped
<1> HIDE DEF x
<1>7. /\ new = [s \in Slots |-> new[s]] /\ JournalType(new, b)
      /\ new[r.hdr].cur = x /\ \A s \in Slots : s # r.hdr => new[s] = cells[s]
  <2>1. CellOf(cells[r.hdr], Cells(b))
    BY <1>4, <1>5 DEF JournalType
  <2>2. CellOf(Written(cells[r.hdr], x), Cells(b)) /\ Written(cells[r.hdr], x).cur = x
    BY <1>6, <2>1, WrittenCell DEF Written
  <2>3. JournalType(new, b)
    BY <1>4, <1>5, <2>2, PutTyped
  <2>4. new = [s \in Slots |-> new[s]] /\ \A s \in Slots : s # r.hdr => new[s] = cells[s]
    BY <1>4
  <2>5. new[r.hdr] = Written(cells[r.hdr], x)
    BY <1>4, <1>5
  <2> HIDE DEF new
  <2>6. QED
    BY <2>2, <2>3, <2>4, <2>5
<1> HIDE DEF new
<1>8. g.pc = "jsync2" /\ \A f \in Fields \ {"pc"} : g[f] = r[f]
  BY <1>1 DEF PagerInv, Fields
<1> HIDE DEF g
<1>9. /\ g.cache = r.cache /\ g.vers = r.vers /\ g.dbSize = r.dbSize /\ g.nPage = r.nPage
      /\ g.orig = r.orig /\ g.off = r.off /\ g.nonce = r.nonce /\ g.dirty = r.dirty
      /\ g.needSync = r.needSync /\ g.hot = r.hot /\ g.eState = r.eState
      /\ g.jfd = r.jfd /\ g.hdr = r.hdr /\ g.header = r.header
  BY <1>8 DEF Fields
<1>10. DataType(g, b)
  BY <1>2, <1>9 DEF DataType
<1>11. SizeType(g, db')
  BY <1>1, <1>2, <1>3, <1>8, <1>9 DEF SizeType, InUndo
<1>12. (\A i \in Inodes : JournalType(journal'[i], b)) /\ journal'[r.jfd] = new
  <2>1. \A i \in Inodes : journal'[i] \in {journal[i], new}
    BY <1>1, <1>3 DEF FilesInv
  <2>2. journal'[r.jfd] = new
    BY <1>1, <1>3 DEF FilesInv
  <2>3. QED
    BY <1>2, <1>7, <2>1, <2>2
<1>13. HeaderType(g, new, b)
  <2>1. /\ g.eState = "cachemod" => new[1].cur = x
        /\ g.eState = "dbmod" => IsMagic(new[1].cur)
    BY <1>1, <1>2, <1>5, <1>6, <1>7, <1>9 DEF HeaderType
  <2>2. QED
    BY <1>1, <1>2, <1>5, <1>6, <1>7, <1>8, <1>9, <2>1 DEF HeaderType, InUndo, Logging
<1>14. DbType(db') /\ dirent'.cur \in dirent'.may
  BY <1>2, <1>3
<1>15. HeaderType(g, journal'[g.jfd], b)
  BY <1>9, <1>12, <1>13
<1>16. QED
  BY <1>1, <1>3, <1>10, <1>11, <1>12, <1>14, <1>15, OneTyped

\* The second sync of the journal; a spill then begins another segment.
LEMMA JSync2Typed ==
  ASSUME IInv, NEW b \in Nat, TInv(b), NEW c \in Conns, JSync2(c)
  PROVE  TInv(b + 1)'
<1> DEFINE g == pager[c]
           i == g.jfd
           cells == Sync(journal[i])
           nonce == NewNonce(cells)
           z == Header(FALSE, 0, nonce, g.orig)
           k == [g EXCEPT !.needSync = {}, !.eState = "dbmod", !.pc = "wdb",
                          !.hdr = g.off + 1, !.header = FALSE]
           m == [k EXCEPT !.header = TRUE, !.off = @ + 1, !.nRec = 0, !.nonce = nonce]
           y == [cells EXCEPT ![g.off + 1] = Written(cells[g.off + 1], z)]
           h == IF g.spill = 0 THEN k ELSE m
           new == IF g.spill = 0 THEN cells ELSE y
<1>1. /\ PagerInv(g, lock[c]) /\ FilesInv /\ g.eState \in {"cachemod", "dbmod"}
      /\ lock[c] = EXCLUSIVE_LOCK /\ i \in Inodes /\ LogInv(g, journal[i]) /\ g.pc = "jsync2"
  BY SyncingLogs DEF JSync2
<1>2. /\ DataType(g, b) /\ SizeType(g, db) /\ HeaderType(g, journal[i], b) /\ DbType(db)
      /\ \A j \in Inodes : JournalType(journal[j], b)
      /\ dirent.cur \in dirent.may
  BY DEF TInv
<1>3. /\ Set(c, h) /\ UNCHANGED <<mode, most, db, dirent>>
      /\ journal' = [journal EXCEPT ![i] = new]
      /\ g.spill # 0 => g.off + 1 <= MaxSlot
  BY DEF JSync2, counts
<1>4. g.off \in 0..MaxSlot /\ g.hdr \in Nat \ {0} /\ g.off = g.hdr + g.nRec /\ g.nRec \in Nat
      /\ 1 \in Slots /\ 1 <= g.off /\ b + 1 \in Nat
  BY <1>1, Bounds DEF LogInv, Slots
<1>5. /\ cells = [s \in Slots |-> cells[s]] /\ JournalType(cells, b) /\ JournalType(cells, b + 1)
      /\ \A s \in Slots : cells[s].cur = journal[i][s].cur
  <2>1. journal[i] = [s \in Slots |-> journal[i][s]] /\ JournalType(journal[i], b)
    BY <1>1, <1>2 DEF FilesInv
  <2> DEFINE old == journal[i]
  <2>2. JournalType(cells, b) /\ cells = [s \in Slots |-> cells[s]]
        /\ \A s \in Slots : cells[s].cur = old[s].cur
    <3>3. old = [s \in Slots |-> old[s]] /\ JournalType(old, b)
      BY <2>1
    <3> HIDE DEF old
    <3>1. /\ JournalType(Sync(old), b) /\ Sync(old) = [s \in Slots |-> Sync(old)[s]]
          /\ \A s \in Slots : Sync(old)[s].cur = old[s].cur
      BY <3>3, SyncedCells, Zenon
    <3>2. QED
      BY <3>1 DEF old
  <2> HIDE DEF cells
  <2>3. QED
    BY <2>2, TypesGrow
<1>6. cells[1].cur \in HeaderCells(b) /\ IsMagic(cells[1].cur)
  <2>1. CASE g.eState = "cachemod"
    <3>1. cells[1].cur \in HeaderCells(b) /\ g.hdr = 1
      BY <1>1, <1>2, <1>4, <1>5, <2>1 DEF HeaderType
    <3>2. journal[i][g.hdr].cur = Header(TRUE, g.nRec, g.nonce, g.orig)
      BY <1>1 DEF LogInv
    <3> HIDE DEF cells, i
    <3>3. IsMagic(cells[1].cur)
      BY <1>4, <1>5, <3>1, <3>2 DEF Header, IsMagic
    <3>4. QED
      BY <3>1, <3>3
  <2>2. CASE g.eState # "cachemod"
    <3>1. IsMagic(cells[1].cur)
      BY <1>1, <1>2, <1>4, <1>5, <2>2 DEF HeaderType
    <3>2. cells[1].cur \in Cells(b)
      BY <1>4, <1>5 DEF JournalType, CellOf
    <3> HIDE DEF cells
    <3>3. QED
      BY <3>1, <3>2 DEF IsMagic, Cells, RecordCells, NoCell, Junk
  <2>3. QED
    BY <2>1, <2>2
<1>7. nonce \in 0..b + 1 /\ g.orig \in 0..MaxPage /\ g.nonce \in 0..b + 1
  <2>1. nonce \in 1..b + 1
    BY <1>5, NonceIsNew
  <2> HIDE DEF nonce
  <2>2. QED
    BY <1>2, <2>1 DEF DataType
<1> HIDE DEF cells, nonce
<1>8. z \in HeaderCells(b + 1) /\ z \in Cells(b + 1)
  BY <1>4, <1>7, HeaderTyped
<1> HIDE DEF z
<1>9. /\ k.off = g.off /\ k.hdr = g.off + 1 /\ k.header = FALSE
      /\ k.cache = g.cache /\ k.vers = g.vers /\ k.dbSize = g.dbSize /\ k.nPage = g.nPage
      /\ k.nonce = g.nonce /\ k.dirty = g.dirty /\ k.needSync = {} /\ k.orig = g.orig
      /\ k.pc = "wdb" /\ k.jfd = i /\ k.eState = "dbmod" /\ k.hot = g.hot
      /\ k = [f \in Fields |-> k[f]]
  BY <1>1 DEF PagerInv, Fields
<1> HIDE DEF k
<1>10. /\ m.off = g.off + 1 /\ m.hdr = g.off + 1 /\ m.header = TRUE
      /\ m.cache = g.cache /\ m.vers = g.vers /\ m.dbSize = g.dbSize /\ m.nPage = g.nPage
      /\ m.nonce = nonce /\ m.dirty = g.dirty /\ m.needSync = {} /\ m.orig = g.orig
      /\ m.pc = "wdb" /\ m.jfd = i /\ m.eState = "dbmod" /\ m.hot = g.hot
  BY <1>9 DEF Fields
<1> HIDE DEF m
<1>11. DataType(h, b + 1) /\ h.jfd = i /\ h.eState = "dbmod" /\ h.pc = "wdb" /\ h.orig = g.orig
       /\ h.cache = g.cache /\ h.dirty = g.dirty
  <2>1. CASE g.spill = 0
    <3>1. h = k
      BY <2>1
    <3> HIDE DEF h
    <3>2. QED
      BY <1>2, <1>7, <1>9, <3>1 DEF DataType
  <2>2. CASE g.spill # 0
    <3>1. h = m
      BY <2>2
    <3>2. g.off + 1 \in 0..MaxSlot
      BY <1>3, <1>4, <2>2, Bounds
    <3> HIDE DEF h
    <3>3. QED
      BY <1>2, <1>7, <1>10, <3>1, <3>2 DEF DataType
  <2>3. QED
    BY <2>1, <2>2
<1>12. JournalType(new, b + 1) /\ HeaderType(h, new, b + 1)
  <2>1. 1 \in g.dirty => g.cache[1] \in HeaderPages
    BY <1>1, <1>2 DEF HeaderType, Logging
  <2>2. HeaderCells(b) \subseteq HeaderCells(b + 1)
    BY <1>4, CellsGrow
  <2>3. CASE g.spill = 0
    <3>1. h = k /\ new = cells
      BY <2>3
    <3> HIDE DEF h, new
    <3>2. QED
      BY <1>5, <1>6, <1>9, <1>11, <2>1, <3>1 DEF HeaderType, InUndo
  <2>4. CASE g.spill # 0
    <3>1. h = m /\ new = y
      BY <2>4
    <3>2. g.off + 1 \in Slots /\ 1 # g.off + 1
      BY <1>3, <1>4, <2>4, Bounds DEF Slots
    <3>3. CellOf(cells[g.off + 1], Cells(b + 1))
      BY <1>5, <3>2 DEF JournalType
    <3>4. CellOf(Written(cells[g.off + 1], z), Cells(b + 1)) /\ Written(cells[g.off + 1], z).cur = z
      BY <1>8, <3>3, WrittenCell DEF Written
    <3>5. JournalType(y, b + 1)
      BY <1>5, <3>2, <3>4, PutTyped
    <3>6. y[1] = cells[1] /\ y[g.off + 1] = Written(cells[g.off + 1], z)
      BY <1>4, <1>5, <3>2
    <3> HIDE DEF h, new, y
    <3>7. y[1].cur = cells[1].cur /\ y[g.off + 1].cur = z
      BY <3>4, <3>6
    <3>8. HeaderType(m, y, b + 1)
      BY <1>6, <1>8, <1>10, <2>1, <3>2, <3>7 DEF HeaderType, InUndo
    <3>9. QED
      BY <3>1, <3>5, <3>8
  <2>5. QED
    BY <2>3, <2>4
<1> HIDE DEF h, new
<1>13. SizeType(h, db')
  BY <1>1, <1>2, <1>3, <1>11 DEF SizeType, InUndo
<1>14. (\A j \in Inodes : JournalType(journal'[j], b + 1)) /\ journal'[i] = new
  <2>1. \A j \in Inodes : journal'[j] \in {journal[j], new}
    BY <1>1, <1>3 DEF FilesInv
  <2>2. journal'[i] = new
    BY <1>1, <1>3 DEF FilesInv
  <2>3. \A j \in Inodes : JournalType(journal[j], b + 1)
    BY <1>2, <1>4, TypesGrow
  <2>4. QED
    BY <1>12, <2>1, <2>2, <2>3
<1>15. DbType(db') /\ dirent'.cur \in dirent'.may /\ b <= b + 1
       /\ HeaderType(h, journal'[h.jfd], b + 1)
  BY <1>2, <1>3, <1>11, <1>12, <1>14
<1>16. QED
  BY <1>1, <1>3, <1>4, <1>11, <1>13, <1>14, <1>15, OneTyped

-----------------------------------------------------------------------------
\* Pages go to the database file

\* OneTyped for a step that leaves the journal and its name alone.
LEMMA DbTyped ==
  ASSUME IInv, NEW b \in Nat, TInv(b), NEW c \in Conns, NEW g, Set(c, g),
         UNCHANGED <<mode, most, journal, dirent>>,
         DbType(db'), db' = db \/ lock[c] = EXCLUSIVE_LOCK,
         DataType(g, b), SizeType(g, db'), HeaderType(g, journal[g.jfd], b)
  PROVE  TInv(b)'
<1>1. /\ dirent'.cur \in dirent'.may /\ \A i \in Inodes : JournalType(journal'[i], b)
      /\ HeaderType(g, journal'[g.jfd], b)
  BY DEF TInv
<1>2. b <= b
  OBVIOUS
<1>3. QED
  BY <1>1, <1>2, OneTyped

\* A changed page is in the cache, and may be written to the file.
LEMMA DirtyPage ==
  ASSUME IInv, NEW b \in Nat, TInv(b), NEW c \in Conns, pager[c].pc = "wdb",
         NEW p \in pager[c].dirty
  PROVE  /\ p \in Pages /\ pager[c].cache[p] \in OnDisk \ {NoPage}
         /\ p = 1 => pager[c].cache[1] \in HeaderPages
         /\ DbType(WriteDb(p, pager[c].cache[p]))
         /\ \A n \in Nat : Present(db, n) => Present(WriteDb(p, pager[c].cache[p]), n)
<1>1. /\ DataType(pager[c], b) /\ HeaderType(pager[c], journal[pager[c].jfd], b) /\ DbType(db)
  BY DEF TInv
<1>2. Logging(pager[c])
  BY WritingLogs DEF Logging
<1>3. p \in Pages /\ pager[c].cache[p] \in OnDisk \ {NoPage}
  BY <1>1 DEF DataType
<1>4. p = 1 => pager[c].cache[1] \in HeaderPages
  BY <1>1, <1>2 DEF HeaderType
<1>5. p = 1 => pager[c].cache[p] \in FirstPages
  BY <1>4 DEF FirstPages
<1>6. QED
  BY <1>1, <1>3, <1>4, <1>5, WriteTyped

\* pager_write_pagelist() writes the next page, or the one that is spilled.
LEMMA WritePageTyped ==
  ASSUME IInv, NEW b \in Nat, TInv(b), NEW c \in Conns, WritePage(c) \/ WriteSpilled(c)
  PROVE  TInv(b)'
<1> DEFINE r == pager[c]
           left == {p \in r.dirty : p <= r.dbSize}
           q == IF r.spill = 0 THEN Min(left) ELSE r.spill
           k == Stored(r, q)
           s == [k EXCEPT !.cache[q] = NoPage, !.spill = 0, !.pc = "idle"]
           h == IF r.spill = 0 THEN k ELSE s
<1>1. /\ r.pc = "wdb" /\ Set(c, h) /\ db' = WriteDb(q, r.cache[q])
      /\ UNCHANGED <<mode, most, journal, dirent>>
      /\ r.spill = 0 => left # {}
  BY DEF WritePage, WriteSpilled, counts
<1>2. /\ PagerInv(r, lock[c]) /\ r.eState = "dbmod" /\ lock[c] = EXCLUSIVE_LOCK
      /\ LogInv(r, journal[r.jfd])
  BY <1>1, WritingLogs
<1>3. DataType(r, b) /\ SizeType(r, db) /\ HeaderType(r, journal[r.jfd], b)
  BY DEF TInv
<1>4. q \in r.dirty
  <2>1. CASE r.spill = 0
    <3>1. left \in SUBSET Nat
      BY <1>3 DEF DataType, Pages
    <3>2. left # {}
      BY <1>1, <2>1
    <3> HIDE DEF left
    <3>3. Min(left) \in left
      BY <3>1, <3>2, MinOfNat
    <3>4. QED
      BY <2>1, <3>3 DEF left
  <2>2. CASE r.spill # 0
    BY <1>2, <2>2 DEF LogInv
  <2>3. QED
    BY <2>1, <2>2
<1> HIDE DEF left, q
<1>5. /\ q \in Pages /\ r.cache[q] \in OnDisk \ {NoPage}
      /\ q = 1 => r.cache[1] \in HeaderPages
      /\ DbType(db') /\ \A n \in Nat : Present(db, n) => Present(db', n)
  BY <1>1, <1>4, DirtyPage
<1>6. /\ k = [f \in Fields |-> k[f]] /\ k.dirty = r.dirty \ {q}
      /\ k.vers = (IF q = 1 THEN r.cache[1] ELSE r.vers)
      /\ \A f \in Fields \ {"dirty", "vers"} : k[f] = r[f]
  BY <1>2 DEF PagerInv, Fields, Stored
<1> HIDE DEF k
<1>7. /\ k.cache = r.cache /\ k.dbSize = r.dbSize /\ k.nPage = r.nPage /\ k.orig = r.orig
      /\ k.off = r.off /\ k.nonce = r.nonce /\ k.needSync = r.needSync /\ k.hot = r.hot
      /\ k.eState = r.eState /\ k.pc = r.pc /\ k.jfd = r.jfd /\ k.hdr = r.hdr
      /\ k.header = r.header /\ k.commit = r.commit
  BY <1>6 DEF Fields
<1>8. /\ s.cache = [k.cache EXCEPT ![q] = NoPage] /\ s.pc = "idle"
      /\ \A f \in Fields \ {"cache", "spill", "pc"} : s[f] = k[f]
  BY <1>6 DEF Fields
<1> HIDE DEF s
<1>9. /\ s.dirty = k.dirty /\ s.vers = k.vers
      /\ s.dbSize = r.dbSize /\ s.nPage = r.nPage /\ s.orig = r.orig
      /\ s.off = r.off /\ s.nonce = r.nonce /\ s.needSync = r.needSync /\ s.hot = r.hot
      /\ s.eState = r.eState /\ s.jfd = r.jfd /\ s.hdr = r.hdr /\ s.header = r.header
  BY <1>7, <1>8 DEF Fields
<1>10. /\ h.dirty = r.dirty \ {q} /\ h.vers = (IF q = 1 THEN r.cache[1] ELSE r.vers)
       /\ h.dbSize = r.dbSize /\ h.nPage = r.nPage /\ h.orig = r.orig
       /\ h.off = r.off /\ h.nonce = r.nonce /\ h.needSync = r.needSync /\ h.hot = r.hot
       /\ h.eState = r.eState /\ h.jfd = r.jfd /\ h.hdr = r.hdr /\ h.header = r.header
       /\ h.pc \in {"wdb", "idle"}
       /\ h.cache \in {r.cache, [r.cache EXCEPT ![q] = NoPage]}
  BY <1>1, <1>6, <1>7, <1>8, <1>9
<1> HIDE DEF h, r
<1>11. 1 \in Pages /\ HeaderPages \subseteq [ver : Nat, nPage : 0..MaxPage]
  BY Bounds DEF Pages, HeaderPages
<1>12. DataType(h, b)
  <2>1. h.vers \in [ver : Nat, nPage : 0..MaxPage]
    BY <1>3, <1>5, <1>10, <1>11 DEF DataType
  <2>2. h.cache \in [Pages -> OnDisk] /\ h.cache[1] \in FirstPages
        /\ \A p \in Pages \ {q} : h.cache[p] = r.cache[p]
    BY <1>3, <1>5, <1>10, <1>11, Contents DEF DataType
  <2>3. h.dirty \subseteq {p \in Pages : h.cache[p] # NoPage}
    BY <1>3, <1>10, <2>2 DEF DataType
  <2>4. q \notin r.needSync
    BY <1>1, <1>2, <1>4 DEF LogInv, q
  <2>5. h.needSync \subseteq h.dirty
    BY <1>3, <1>10, <2>4 DEF DataType
  <2>6. QED
    BY <1>3, <1>10, <2>1, <2>2, <2>3, <2>5 DEF DataType
<1>13. SizeType(h, db')
  <2>1. Present(db, r.orig) /\ r.orig \in Nat
    BY <1>1, <1>2, <1>3 DEF SizeType, InUndo, DataType
  <2>2. QED
    BY <1>2, <1>5, <1>10, <2>1 DEF SizeType, InUndo
<1>14. HeaderType(h, journal[h.jfd], b)
  <2>1. 1 \in h.dirty => h.cache[1] \in HeaderPages
    <3>1. Logging(r)
      BY <1>1, <1>2 DEF Logging
    <3>2. r.cache \in [Pages -> OnDisk]
      BY <1>3 DEF DataType
    <3>3. QED
      BY <1>3, <1>10, <1>11, <3>1, <3>2 DEF HeaderType
  <2>2. QED
    BY <1>1, <1>2, <1>3, <1>10, <2>1 DEF HeaderType, InUndo
<1>15. QED
  BY <1>1, <1>2, <1>5, <1>12, <1>13, <1>14, DbTyped DEF h

\* The file gets the size of the image.
LEMMA GrowTyped ==
  ASSUME IInv, NEW b \in Nat, TInv(b), NEW c \in Conns, Grow(c)
  PROVE  TInv(b)'
<1> DEFINE r == pager[c]
           g == [r EXCEPT !.dirty = {}, !.pc = "dbsync"]
<1>1. /\ r.pc = "wdb" /\ r.spill = 0 /\ Set(c, g) /\ UNCHANGED <<mode, most, journal, dirent>>
      /\ db' = IF r.dbSize > DbSize THEN TruncateDb(r.dbSize) ELSE db
  BY DEF Grow, counts
<1>2. /\ PagerInv(r, lock[c]) /\ r.eState = "dbmod" /\ lock[c] = EXCLUSIVE_LOCK
      /\ LogInv(r, journal[r.jfd])
  BY <1>1, WritingLogs
<1>3. DataType(r, b) /\ HeaderType(r, journal[r.jfd], b) /\ DbType(db) /\ r.needSync = {}
  BY <1>1, <1>2 DEF TInv, LogInv
<1>4. g.dirty = {} /\ g.pc = "dbsync" /\ \A f \in Fields \ {"dirty", "pc"} : g[f] = r[f]
  BY <1>2 DEF PagerInv, Fields
<1> HIDE DEF g
<1>5. /\ g.cache = r.cache /\ g.vers = r.vers /\ g.dbSize = r.dbSize /\ g.nPage = r.nPage
      /\ g.orig = r.orig /\ g.off = r.off /\ g.nonce = r.nonce
      /\ g.needSync = r.needSync /\ g.hot = r.hot /\ g.eState = r.eState
      /\ g.jfd = r.jfd /\ g.hdr = r.hdr /\ g.header = r.header
  BY <1>4 DEF Fields
<1>6. DataType(g, b)
  BY <1>3, <1>4, <1>5 DEF DataType
<1>7. DbType(db') /\ Present(db', r.dbSize)
  <2>1. CASE r.dbSize > DbSize
    BY <1>1, <1>3, <2>1, TruncateTyped DEF DataType
  <2>2. CASE ~(r.dbSize > DbSize)
    <3>1. Present(db, DbSize) /\ DbSize \in Nat /\ r.dbSize \in Nat
      BY <1>3, SizeIs DEF DataType
    <3>2. r.dbSize <= DbSize
      BY <2>2, <3>1
    <3>3. Present(db, r.dbSize)
      BY <3>1, <3>2 DEF Present, Pages
    <3>4. QED
      BY <1>1, <1>3, <2>2, <3>3
  <2>3. QED
    BY <2>1, <2>2
<1>8. SizeType(g, db')
  BY <1>2, <1>4, <1>5, <1>7 DEF SizeType, InUndo
<1>9. HeaderType(g, journal[g.jfd], b)
  BY <1>1, <1>2, <1>3, <1>4, <1>5 DEF HeaderType, Logging
<1>10. QED
  BY <1>1, <1>2, <1>6, <1>7, <1>8, <1>9, DbTyped

\* sqlite3PagerSync(), of a commit and of a rollback
LEMMA DbSyncTyped ==
  ASSUME IInv, NEW b \in Nat, TInv(b), NEW c \in Conns, DbSync(c)
  PROVE  TInv(b)'
<1> DEFINE r == pager[c]
           g == [r EXCEPT !.eState = IF r.commit THEN "finished" ELSE @, !.pc = "final"]
<1>1. /\ r.pc = "dbsync" /\ Set(c, g) /\ UNCHANGED <<mode, most, journal, dirent>>
      /\ db' = Sync(db)
  BY DEF DbSync, counts
<1>2. /\ PagerInv(r, lock[c]) /\ DataType(r, b) /\ SizeType(r, db) /\ DbType(db)
      /\ HeaderType(r, journal[r.jfd], b)
  BY DEF IInv, TInv
<1>3. /\ r.eState \in {"open", "dbmod"} /\ lock[c] = EXCLUSIVE_LOCK
      /\ r.eState = "open" => ~r.commit
  BY <1>1, <1>2 DEF PagerInv, StateInv, CommitInv, ReadPcs, PlayPcs, CommitPcs
<1>4. /\ g.pc = "final" /\ g.eState = (IF r.commit THEN "finished" ELSE r.eState)
      /\ \A f \in Fields \ {"eState", "pc"} : g[f] = r[f]
  BY <1>2 DEF PagerInv, Fields
<1> HIDE DEF g
<1>5. /\ g.cache = r.cache /\ g.vers = r.vers /\ g.dbSize = r.dbSize /\ g.nPage = r.nPage
      /\ g.orig = r.orig /\ g.off = r.off /\ g.nonce = r.nonce /\ g.dirty = r.dirty
      /\ g.needSync = r.needSync /\ g.hot = r.hot /\ g.commit = r.commit
      /\ g.jfd = r.jfd /\ g.hdr = r.hdr /\ g.header = r.header
  BY <1>4 DEF Fields
<1>6. DataType(g, b)
  BY <1>2, <1>5 DEF DataType
<1>7. DbType(db') /\ \A n : Present(db, n) <=> Present(db', n)
  BY <1>1, <1>2, SyncTyped
<1>8. SizeType(g, db')
  BY <1>1, <1>2, <1>3, <1>4, <1>5, <1>7 DEF SizeType, InUndo
<1>9. HeaderType(g, journal[g.jfd], b)
  BY <1>3, <1>4, <1>5 DEF HeaderType, Logging
<1>10. QED
  BY <1>1, <1>3, <1>6, <1>7, <1>8, <1>9, DbTyped

\* Every step of a transaction that goes on or commits.
LEMMA WritingTyped ==
  ASSUME IInv, NEW b \in Nat, TInv(b), NEW c \in Conns, Writing(c)
  PROVE  TInv(b)' \/ TInv(b + 1)'
BY BeginWriteTyped, LeadUpTyped, PageChangeTyped, CommitTyped, JSyncTyped, JHeaderTyped,
   JSync2Typed, WritePageTyped, GrowTyped, DbSyncTyped DEF Writing

-----------------------------------------------------------------------------
\* pager_playback()

\* The last slot of a journal that holds anything.
LEMMA UsedIs ==
  ASSUME NEW cells
  PROVE  /\ SlotsUsed(cells) \in 0..MaxSlot
         /\ \A s \in Slots : cells[s].cur.kind # "none" => s <= SlotsUsed(cells)
<1> DEFINE S == {0} \cup {s \in Slots : cells[s].cur.kind # "none"}
<1>1. S \in SUBSET (0..MaxSlot) /\ S # {} /\ MaxSlot \in Nat
  BY Bounds DEF Slots
<1>2. Max(S) \in S /\ \A y \in S : y <= Max(S)
  BY <1>1, MaxOfUpTo
<1>3. SlotsUsed(cells) = Max(S)
  BY DEF SlotsUsed
<1>4. \A s \in Slots : cells[s].cur.kind # "none" => s \in S
  OBVIOUS
<1> HIDE DEF S
<1>5. QED
  BY <1>1, <1>2, <1>3, <1>4

\* A rollback begins, or a transaction without a change ends.
LEMMA RollbackTyped ==
  ASSUME IInv, NEW b \in Nat, TInv(b), NEW c \in Conns, Rollback(c)
  PROVE  TInv(b)'
<1> DEFINE r == pager[c]
           g == [r EXCEPT !.commit = FALSE, !.spill = 0, !.off = 0,
                          !.pc = IF r.eState = "locked" THEN "final" ELSE "play"]
<1>1. /\ Set(c, g) /\ UNCHANGED <<mode, most, db, journal, dirent>>
      /\ InWrite(r) \/ r.pc = "failed"
  BY DEF Rollback, files, counts
<1>2. /\ PagerInv(r, lock[c]) /\ DataType(r, b) /\ SizeType(r, db)
      /\ HeaderType(r, journal[r.jfd], b)
  BY DEF IInv, TInv
<1>3. r.eState \in {"locked", "cachemod", "dbmod"} /\ r.pc \in {"idle", "failed"}
  BY <1>1, <1>2 DEF InWrite, PagerInv, StateInv, ReadPcs, PlayPcs
<1>4. /\ g.commit = FALSE /\ g.off = 0 /\ g.pc = (IF r.eState = "locked" THEN "final" ELSE "play")
      /\ \A f \in Fields \ {"commit", "spill", "off", "pc"} : g[f] = r[f]
  BY <1>2 DEF PagerInv, Fields
<1> HIDE DEF g
<1>5. /\ g.cache = r.cache /\ g.vers = r.vers /\ g.dbSize = r.dbSize /\ g.nPage = r.nPage
      /\ g.orig = r.orig /\ g.nonce = r.nonce /\ g.dirty = r.dirty
      /\ g.needSync = r.needSync /\ g.hot = r.hot /\ g.eState = r.eState
      /\ g.jfd = r.jfd /\ g.hdr = r.hdr /\ g.header = r.header
  BY <1>4 DEF Fields
<1>6. DataType(g, b)
  BY <1>2, <1>4, <1>5, Bounds DEF DataType
<1>7. SizeType(g, db)
  BY <1>2, <1>3, <1>4, <1>5 DEF SizeType, InUndo
<1>8. HeaderType(g, journal[g.jfd], b)
  BY <1>2, <1>3, <1>4, <1>5 DEF HeaderType, Logging
<1>9. QED
  BY <1>1, <1>6, <1>7, <1>8, OnlyPagerTyped

\* Where a rollback can be in its playback, and what it has at hand there.
LEMMA PlayingHas ==
  ASSUME IInv, NEW b \in Nat, TInv(b), NEW c \in Conns,
         pager[c].pc \in {"play", "record", "playend"}
  PROVE  LET r == pager[c]
         IN /\ r = [f \in Fields |-> r[f]] /\ DataType(r, b) /\ SizeType(r, db)
            /\ HeaderType(r, journal[r.jfd], b) /\ DbType(db)
            /\ r.eState \in {"open", "cachemod", "dbmod"}
            /\ r.eState = "open" <=> r.hot
            /\ r.hot \in BOOLEAN
            /\ DbInPlay(r) => lock[c] = EXCLUSIVE_LOCK
            /\ r.jfd \in Inodes /\ JournalType(journal[r.jfd], b)
            /\ journal[r.jfd] = [s \in Slots |-> journal[r.jfd][s]]
<1>1. PagerInv(pager[c], lock[c]) /\ FilesInv
  BY DEF IInv
<1>2. /\ pager[c].eState \in {"open", "cachemod", "dbmod"}
      /\ pager[c].eState \in {"open", "dbmod"} => lock[c] = EXCLUSIVE_LOCK
  BY <1>1 DEF PagerInv, StateInv, ReadPcs, PlayPcs, CommitPcs
<1>3. pager[c].hot \in BOOLEAN /\ (pager[c].eState = "open" <=> pager[c].hot)
  BY <1>1, <1>2 DEF PagerInv, HotInv, PlayPcs
<1>4. pager[c].jfd \in Inodes
  BY <1>1, <1>2, <1>3, Bounds DEF PagerInv, JournalInv, Inodes
<1>5. QED
  BY <1>1, <1>2, <1>3, <1>4 DEF TInv, PagerInv, DbInPlay, FilesInv

\* readJournalHdr(): a header that the playback finds.
LEMMA PlayHeaderTyped ==
  ASSUME IInv, NEW b \in Nat, TInv(b), NEW c \in Conns, PlayHeader(c)
  PROVE  TInv(b)'
<1> DEFINE r == pager[c]
           j == journal[r.jfd]
           cells == Cur(j)
           used == SlotsUsed(j)
           at == r.off + 1
           own == ~r.hot /\ r.header /\ at = r.hdr
           found == at <= used /\ (own \/ IsMagic(cells[at]))
           x == cells[at]
           n == IF own /\ x.nRec = 0 THEN used - at ELSE x.nRec
           h == [r EXCEPT !.off = at, !.nonce = x.nonce, !.left = n,
                          !.dbSize = IF r.off = 0 THEN x.orig ELSE @,
                          !.pc = IF n = 0 THEN "play" ELSE "record"]
           e == [r EXCEPT !.pc = "playend"]
<1>1. /\ r.pc = "play" /\ UNCHANGED <<mode, most, journal, dirent>>
      /\ ~found => UNCHANGED db /\ Set(c, e)
      /\ found => /\ db' = IF r.off = 0 /\ DbInPlay(r) THEN TruncateDb(x.orig) ELSE db
                  /\ Set(c, h)
  BY DEF PlayHeader, counts, Goto
<1>2. /\ r = [f \in Fields |-> r[f]] /\ DataType(r, b) /\ SizeType(r, db)
      /\ HeaderType(r, j, b) /\ DbType(db)
      /\ r.eState \in {"open", "cachemod", "dbmod"} /\ (r.eState = "open" <=> r.hot)
      /\ DbInPlay(r) => lock[c] = EXCLUSIVE_LOCK
      /\ JournalType(j, b) /\ j = [s \in Slots |-> j[s]]
  BY <1>1, PlayingHas
<1>3. used \in 0..MaxSlot /\ \A s \in Slots : j[s].cur.kind # "none" => s <= used
  BY UsedIs
<1>4. \A s \in Slots : cells[s] = j[s].cur
  BY <1>2 DEF Cur
<1>5. at \in Nat \ {0} /\ MaxSlot \in Nat /\ 1 \in Slots /\ r.off \in Nat
  BY SMTT(60), <1>2, Bounds DEF DataType, Slots
<1> HIDE DEF used, cells, j
<1>6. CASE ~found
  <2>1. r.off = 0 => r.eState = "open"
    <3>1. SUFFICES ASSUME r.off = 0, r.eState # "open"
                   PROVE  FALSE
      OBVIOUS
    <3>2. 1 <= used /\ (own \/ IsMagic(cells[1]))
      <4>1. CASE r.eState = "cachemod"
        <5>1. own /\ j[1].cur \in HeaderCells(b)
          BY SMTT(90), <1>1, <1>2, <3>1, <4>1 DEF HeaderType
        <5>2. QED
          BY <1>3, <1>5, <5>1 DEF HeaderCells
      <4>2. CASE r.eState = "dbmod"
        <5>1. IsMagic(j[1].cur)
          BY <1>1, <1>2, <4>2 DEF HeaderType
        <5>2. QED
          BY <1>3, <1>4, <1>5, <5>1 DEF IsMagic
      <4>3. QED
        BY <1>2, <3>1, <4>1, <4>2
    <3>3. QED
      BY <1>6, <3>1, <3>2
  <2>2. e.pc = "playend" /\ \A f \in Fields \ {"pc"} : e[f] = r[f]
    BY <1>2 DEF Fields
  <2> HIDE DEF e
  <2>3. /\ e.cache = r.cache /\ e.vers = r.vers /\ e.dbSize = r.dbSize /\ e.nPage = r.nPage
        /\ e.orig = r.orig /\ e.nonce = r.nonce /\ e.dirty = r.dirty /\ e.off = r.off
        /\ e.needSync = r.needSync /\ e.hot = r.hot /\ e.eState = r.eState
        /\ e.jfd = r.jfd /\ e.hdr = r.hdr /\ e.header = r.header /\ e.commit = r.commit
    BY <2>2 DEF Fields
  <2>4. DataType(e, b)
    BY <1>2, <2>3 DEF DataType
  <2>5. SizeType(e, db)
    BY <1>1, <1>2, <2>1, <2>2, <2>3 DEF SizeType, InUndo
  <2>6. HeaderType(e, j, b)
    BY <1>1, <1>2, <2>2, <2>3 DEF HeaderType, Logging, InUndo
  <2>7. HeaderType(e, journal[e.jfd], b)
    BY <2>3, <2>6 DEF j
  <2>8. DbType(db') /\ SizeType(e, db') /\ Set(c, e) /\ db' = db
    BY <1>1, <1>2, <1>6, <2>5
  <2>9. QED
    BY <1>1, <2>4, <2>7, <2>8, DbTyped
<1>7. CASE found
  <2>1. at \in Slots
    BY <1>3, <1>5, <1>7 DEF Slots
  <2>2. x \in HeaderCells(b)
    <3>1. j[at].cur \in Cells(b) /\ x = j[at].cur
      BY <1>2, <1>4, <2>1 DEF JournalType, CellOf
    <3>2. CASE own
      BY ZenonT(60), <1>1, <1>2, <2>1, <3>1, <3>2 DEF HeaderType
    <3>3. CASE IsMagic(x)
      BY <3>1, <3>3 DEF IsMagic, Cells, RecordCells, NoCell, Junk
    <3>4. QED
      BY <1>7, <3>2, <3>3
  <2>3. x.orig \in 0..MaxPage /\ x.nonce \in 0..b
    BY <2>2 DEF HeaderCells
  <2>4. r.eState = "cachemod" /\ r.off = 0 => x.orig = r.orig
    BY SMTT(90), <1>1, <1>2, <1>4, <2>1 DEF HeaderType
  <2> DEFINE pc == IF n = 0 THEN "play" ELSE "record"
             size == IF r.off = 0 THEN x.orig ELSE r.dbSize
  <2>5. pc \in {"play", "record"} /\ size \in 0..MaxPage
    BY <1>2, <2>3 DEF DataType
  <2>6. h = [r EXCEPT !.off = at, !.nonce = x.nonce, !.left = n, !.dbSize = size, !.pc = pc]
    OBVIOUS
  <2>7. /\ DbType(db')
        /\ r.off = 0 /\ DbInPlay(r) => Present(db', size)
        /\ ~(r.off = 0 /\ DbInPlay(r)) => db' = db
    <3>1. CASE r.off = 0 /\ DbInPlay(r)
      BY <1>1, <1>2, <1>7, <2>3, <3>1, TruncateTyped
    <3>2. CASE ~(r.off = 0 /\ DbInPlay(r))
      BY <1>1, <1>2, <1>7, <3>2
    <3>3. QED
      BY <3>1, <3>2
  <2>8. Set(c, h) /\ (db' = db \/ lock[c] = EXCLUSIVE_LOCK)
    BY <1>1, <1>2, <1>7
  <2> HIDE DEF x, n, pc, h
  <2>9. /\ h.off = at /\ h.nonce = x.nonce /\ h.dbSize = size /\ h.pc = pc
        /\ \A f \in Fields \ {"off", "nonce", "left", "dbSize", "pc"} : h[f] = r[f]
    BY <1>2, <2>6 DEF Fields
  <2>10. /\ h.cache = r.cache /\ h.vers = r.vers /\ h.nPage = r.nPage
        /\ h.orig = r.orig /\ h.dirty = r.dirty
        /\ h.needSync = r.needSync /\ h.hot = r.hot /\ h.eState = r.eState
        /\ h.jfd = r.jfd /\ h.hdr = r.hdr /\ h.header = r.header /\ h.commit = r.commit
    BY <2>9 DEF Fields
  <2>11. DataType(h, b)
    <3>1. at \in 0..MaxSlot
      BY <2>1, Bounds DEF Slots
    <3>2. QED
      BY <1>2, <2>3, <2>5, <2>9, <2>10, <3>1 DEF DataType
  <2>12. r.eState \in {"cachemod", "dbmod"} => Present(db', size)
    <3>1. CASE r.off # 0
      BY <1>1, <1>2, <2>7, <3>1 DEF SizeType, InUndo
    <3>2. CASE r.off = 0
      <4>1. CASE r.eState = "cachemod"
        BY <1>2, <2>4, <2>7, <3>2, <4>1 DEF SizeType, DbInPlay
      <4>2. CASE r.eState = "dbmod"
        BY <2>7, <3>2, <4>2 DEF DbInPlay
      <4>3. QED
        BY <4>1, <4>2
    <3>3. QED
      BY <3>1, <3>2
  <2>13. r.eState = "cachemod" => db' = db
    BY <2>7 DEF DbInPlay
  <2> HIDE DEF size
  <2>14. SizeType(h, db')
    BY <1>2, <2>5, <2>9, <2>10, <2>12, <2>13 DEF SizeType, InUndo
  <2>15. HeaderType(h, j, b)
    BY <1>1, <1>2, <2>5, <2>9, <2>10 DEF HeaderType, Logging, InUndo
  <2>16. HeaderType(h, journal[h.jfd], b)
    BY <2>10, <2>15 DEF j
  <2>17. QED
    BY <1>1, <2>7, <2>8, <2>11, <2>14, <2>16, DbTyped
<1>8. QED
  BY <1>6, <1>7

\* pager_playback_one_page()
LEMMA PlayRecordTyped ==
  ASSUME IInv, NEW b \in Nat, TInv(b), NEW c \in Conns, PlayRecord(c)
  PROVE  TInv(b)'
<1> DEFINE r == pager[c]
           j == journal[r.jfd]
           at == r.off + 1
           x == IF at > MaxSlot THEN NoCell ELSE Cur(j)[at]
           pc == IF r.left = 1 THEN "play" ELSE "record"
           first == IF r.hot THEN NoCache ELSE r.cache
           h == [r EXCEPT !.cache = IF r.hot THEN NoCache ELSE @, !.off = at,
                          !.left = @ - 1, !.pc = IF r.left = 1 THEN "play" ELSE "record"]
           p == x.pgno
           k == IF h.cache[p] = NoPage THEN h
                ELSE [h EXCEPT !.cache[p] = x.data,
                               !.vers = IF p = 1 THEN Version(x.data) ELSE @]
           e == [r EXCEPT !.pc = "playend"]
<1>1. /\ r.pc = "record" /\ UNCHANGED <<mode, most, journal, dirent>>
      /\ \/ /\ Restores(r, x) /\ Set(c, k)
            /\ db' = IF DbInPlay(r) /\ at < r.hdr THEN WriteDb(p, x.data) ELSE db
         \/ Skips(r, x) /\ Set(c, h) /\ UNCHANGED db
         \/ Set(c, e) /\ UNCHANGED db
  BY DEF PlayRecord, counts
<1>2. /\ r = [f \in Fields |-> r[f]] /\ DataType(r, b) /\ SizeType(r, db)
      /\ HeaderType(r, j, b) /\ DbType(db)
      /\ r.eState \in {"open", "cachemod", "dbmod"} /\ (r.eState = "open" <=> r.hot)
      /\ DbInPlay(r) => lock[c] = EXCLUSIVE_LOCK
      /\ JournalType(j, b) /\ j = [s \in Slots |-> j[s]]
  BY <1>1, PlayingHas
<1>3. at \in Nat \ {0} /\ MaxSlot \in Nat /\ 1 \in Pages
  BY SMTT(30), <1>2, Bounds DEF DataType, Pages
<1>4. Restores(r, x) \/ Skips(r, x) => at \in Slots /\ x \in Cells(b)
  <2>1. at > MaxSlot => x = NoCell
    OBVIOUS
  <2>2. ~(at > MaxSlot) => at \in Slots /\ x = j[at].cur
    <3>1. \A s \in Slots : Cur(j)[s] = j[s].cur
      BY <1>2 DEF Cur
    <3>2. ~(at > MaxSlot) => at \in Slots
      BY <1>3 DEF Slots
    <3>3. ~(at > MaxSlot) => x = Cur(j)[at]
      OBVIOUS
    <3> HIDE DEF x, j, at
    <3>4. QED
      BY <3>1, <3>2, <3>3
  <2>3. at \in Slots => j[at].cur \in Cells(b)
    BY <1>2 DEF JournalType, CellOf
  <2> HIDE DEF x, j, at
  <2>4. QED
    BY <2>1, <2>2, <2>3 DEF Restores, Skips, NoCell
<1> HIDE DEF x, j
<1>5. /\ h.off = at /\ h.pc = pc /\ h.cache = first
      /\ h = [f \in Fields |-> h[f]]
      /\ \A f \in Fields \ {"cache", "off", "left", "pc"} : h[f] = r[f]
  BY <1>2 DEF Fields
<1> HIDE DEF h
<1>6. /\ h.vers = r.vers /\ h.dbSize = r.dbSize /\ h.nPage = r.nPage
      /\ h.orig = r.orig /\ h.nonce = r.nonce /\ h.dirty = r.dirty
      /\ h.needSync = r.needSync /\ h.hot = r.hot /\ h.eState = r.eState
      /\ h.jfd = r.jfd /\ h.hdr = r.hdr /\ h.header = r.header /\ h.commit = r.commit
  BY <1>5 DEF Fields
<1>7. /\ first \in [Pages -> OnDisk] /\ first[1] \in FirstPages
      /\ r.dirty \subseteq {q \in Pages : first[q] # NoPage}
      /\ pc \in {"play", "record"}
  BY <1>2, NoCacheTyped DEF DataType
<1>8. ASSUME at \in Slots
      PROVE  /\ DataType(h, b)
             /\ \A d : (\A n \in Nat : Present(db, n) => Present(d, n)) => SizeType(h, d)
             /\ HeaderType(h, journal[h.jfd], b)
  <2>1. DataType(h, b)
    <3>1. at \in 0..MaxSlot
      BY <1>8, Bounds DEF Slots
    <3>2. QED
      BY <1>2, <1>5, <1>6, <1>7, <3>1 DEF DataType
  <2>2. r.eState \in {"cachemod", "dbmod"} => Present(db, r.dbSize)
        /\ (r.eState = "cachemod" => Present(db, r.orig))
    BY <1>1, <1>2 DEF SizeType, InUndo
  <2>3. r.dbSize \in Nat /\ r.orig \in Nat
    BY <1>2 DEF DataType
  <2>4. \A d : (\A n \in Nat : Present(db, n) => Present(d, n)) => SizeType(h, d)
    BY <1>2, <1>5, <1>6, <1>7, <2>2, <2>3 DEF SizeType, InUndo
  <2>5. HeaderType(h, j, b)
    BY <1>1, <1>2, <1>5, <1>6, <1>7 DEF HeaderType, Logging, InUndo
  <2>6. QED
    BY <1>6, <2>1, <2>4, <2>5 DEF j
<1>9. CASE Restores(r, x) /\ Set(c, k)
           /\ db' = IF DbInPlay(r) /\ at < r.hdr THEN WriteDb(p, x.data) ELSE db
  <2>1. at \in Slots /\ x \in RecordCells(b)
    <3>1. at \in Slots /\ x \in Cells(b) /\ x.kind = "record"
      BY <1>4, <1>9 DEF Restores
    <3>2. QED
      BY <3>1 DEF Cells, HeaderCells, NoCell, Junk
  <2>2. p \in Pages /\ x.data \in OnDisk \ {NoPage} /\ (p = 1 => x.data \in FirstPages)
    BY <2>1 DEF RecordCells
  <2>3. /\ DbType(db') /\ \A n \in Nat : Present(db, n) => Present(db', n)
        /\ db' = db \/ lock[c] = EXCLUSIVE_LOCK
    <3>1. DbType(WriteDb(p, x.data)) /\ \A n \in Nat : Present(db, n) => Present(WriteDb(p, x.data), n)
      BY <1>2, <2>2, WriteTyped
    <3>2. QED
      BY <1>2, <1>9, <3>1
  <2> HIDE DEF p
  <2>4. DataType(h, b) /\ SizeType(h, db') /\ HeaderType(h, journal[h.jfd], b)
    BY <1>8, <2>1, <2>3
  <2>5. CASE h.cache[p] = NoPage
    <3>1. Set(c, h)
      BY <1>9, <2>5
    <3>2. QED
      BY <1>1, <2>3, <2>4, <3>1, DbTyped
  <2>6. CASE h.cache[p] # NoPage
    <3> DEFINE m == [h EXCEPT !.cache[p] = x.data,
                              !.vers = IF p = 1 THEN Version(x.data) ELSE @]
    <3>1. Set(c, m)
      BY <1>9, <2>6
    <3>2. /\ m.cache = [h.cache EXCEPT ![p] = x.data]
          /\ m.vers = (IF p = 1 THEN Version(x.data) ELSE h.vers)
          /\ \A f \in Fields \ {"cache", "vers"} : m[f] = h[f]
      BY <1>5 DEF Fields
    <3> HIDE DEF m, k
    <3>3. /\ m.off = h.off /\ m.pc = h.pc /\ m.dbSize = h.dbSize /\ m.nPage = h.nPage
          /\ m.orig = h.orig /\ m.nonce = h.nonce /\ m.dirty = h.dirty
          /\ m.needSync = h.needSync /\ m.hot = h.hot /\ m.eState = h.eState
          /\ m.jfd = h.jfd /\ m.hdr = h.hdr /\ m.header = h.header /\ m.commit = h.commit
      BY <3>2 DEF Fields
    <3>4. DataType(m, b)
      <4>1. /\ m.cache \in [Pages -> OnDisk] /\ m.cache[1] \in FirstPages
            /\ \A q \in Pages : h.cache[q] # NoPage => m.cache[q] # NoPage
        <5>1. h.cache \in [Pages -> OnDisk] /\ h.cache[1] \in FirstPages
          BY <2>4 DEF DataType
        <5>2. QED
          BY <1>3, <2>2, <3>2, <5>1
      <4>2. m.vers \in [ver : Nat, nPage : 0..MaxPage]
        <5>1. p = 1 => Version(x.data) \in [ver : Nat, nPage : 0..MaxPage]
          BY <2>2, VersionTyped
        <5>2. QED
          BY <2>4, <3>2, <5>1 DEF DataType
      <4>3. QED
        BY <2>4, <3>3, <4>1, <4>2 DEF DataType
    <3>5. SizeType(m, db')
      BY <2>4, <3>3 DEF SizeType
    <3>6. HeaderType(m, journal[m.jfd], b)
      <4>1. ~Logging(m)
        BY <1>5, <1>7, <3>3 DEF Logging
      <4>2. QED
        BY <2>4, <3>3, <4>1 DEF HeaderType
    <3>7. QED
      BY <1>1, <2>3, <3>1, <3>4, <3>5, <3>6, DbTyped
  <2>7. QED
    BY <2>5, <2>6
<1>10. CASE Skips(r, x) /\ Set(c, h) /\ UNCHANGED db
  <2>1. DataType(h, b) /\ SizeType(h, db') /\ HeaderType(h, journal[h.jfd], b) /\ DbType(db')
    BY <1>2, <1>4, <1>8, <1>10
  <2>2. QED
    BY <1>1, <1>10, <2>1, DbTyped
<1>11. CASE Set(c, e) /\ UNCHANGED db
  <2>1. e.pc = "playend" /\ \A f \in Fields \ {"pc"} : e[f] = r[f]
    BY <1>2 DEF Fields
  <2> HIDE DEF e
  <2>2. /\ e.cache = r.cache /\ e.vers = r.vers /\ e.dbSize = r.dbSize /\ e.nPage = r.nPage
        /\ e.orig = r.orig /\ e.nonce = r.nonce /\ e.dirty = r.dirty /\ e.off = r.off
        /\ e.needSync = r.needSync /\ e.hot = r.hot /\ e.eState = r.eState
        /\ e.jfd = r.jfd /\ e.hdr = r.hdr /\ e.header = r.header /\ e.commit = r.commit
    BY <2>1 DEF Fields
  <2>3. DataType(e, b)
    BY <1>2, <2>2 DEF DataType
  <2>4. SizeType(e, db)
    BY <1>1, <1>2, <2>1, <2>2 DEF SizeType, InUndo
  <2>5. HeaderType(e, j, b)
    BY <1>1, <1>2, <2>1, <2>2 DEF HeaderType, Logging, InUndo
  <2>6. HeaderType(e, journal[e.jfd], b)
    BY <2>2, <2>5 DEF j
  <2>7. DbType(db') /\ SizeType(e, db') /\ db' = db
    BY <1>2, <1>11, <2>4
  <2>8. QED
    BY <1>1, <1>11, <2>3, <2>6, <2>7, DbTyped
<1>12. QED
  BY <1>1, <1>9, <1>10, <1>11

\* The end of the playback.
LEMMA PlayEndTyped ==
  ASSUME IInv, NEW b \in Nat, TInv(b), NEW c \in Conns, PlayEnd(c)
  PROVE  TInv(b)'
<1> DEFINE r == pager[c]
           pc == IF DbInPlay(r) THEN "dbsync" ELSE "final"
           e == [r EXCEPT !.pc = pc]
<1>1. /\ r.pc = "playend" /\ Set(c, e) /\ UNCHANGED <<mode, most, db, journal, dirent>>
  BY DEF PlayEnd, files, counts
<1>2. /\ r = [f \in Fields |-> r[f]] /\ DataType(r, b) /\ SizeType(r, db)
      /\ HeaderType(r, journal[r.jfd], b)
      /\ r.eState \in {"open", "cachemod", "dbmod"}
  BY <1>1, PlayingHas
<1>3. r.eState = "cachemod" => pc = "final"
  BY DEF DbInPlay
<1>4. pc \in {"dbsync", "final"}
  OBVIOUS
<1> HIDE DEF pc
<1>5. e.pc = pc /\ \A f \in Fields \ {"pc"} : e[f] = r[f]
  BY <1>2 DEF Fields
<1> HIDE DEF e
<1>6. /\ e.cache = r.cache /\ e.vers = r.vers /\ e.dbSize = r.dbSize /\ e.nPage = r.nPage
      /\ e.orig = r.orig /\ e.nonce = r.nonce /\ e.dirty = r.dirty /\ e.off = r.off
      /\ e.needSync = r.needSync /\ e.hot = r.hot /\ e.eState = r.eState
      /\ e.jfd = r.jfd /\ e.hdr = r.hdr /\ e.header = r.header /\ e.commit = r.commit
  BY <1>5 DEF Fields
<1>7. DataType(e, b)
  BY <1>2, <1>6 DEF DataType
<1>8. SizeType(e, db)
  BY <1>1, <1>2, <1>4, <1>5, <1>6 DEF SizeType, InUndo
<1>9. HeaderType(e, journal[e.jfd], b)
  BY <1>1, <1>2, <1>4, <1>5, <1>6 DEF HeaderType, Logging, InUndo
<1>10. QED
  BY <1>1, <1>7, <1>8, <1>9, OnlyPagerTyped

-----------------------------------------------------------------------------
\* pager_end_transaction()

\* A pager that ends a transaction keeps what it knows.
LEMMA EndsTyped ==
  ASSUME NEW b, NEW g, g = [f \in Fields |-> g[f]], DataType(g, b), SizeType(g, db),
         NEW old, HeaderType(g, old, b),
         g.pc \in {"final", "finsync"}, NEW i, NEW pc \in {"finsync", "end"},
         NEW h, h = [g EXCEPT !.jfd = i, !.pc = pc], NEW cells
  PROVE  DataType(h, b) /\ SizeType(h, db) /\ HeaderType(h, cells, b)
<1>1. /\ h.pc = pc /\ h.cache = g.cache /\ h.vers = g.vers /\ h.dbSize = g.dbSize
      /\ h.nPage = g.nPage /\ h.orig = g.orig /\ h.nonce = g.nonce /\ h.dirty = g.dirty
      /\ h.off = g.off /\ h.needSync = g.needSync /\ h.hot = g.hot /\ h.eState = g.eState
      /\ h.commit = g.commit
  <2>1. h.pc = pc /\ \A f \in Fields \ {"jfd", "pc"} : h[f] = g[f]
    BY DEF Fields
  <2>2. QED
    BY <2>1 DEF Fields
<1>2. DataType(h, b)
  BY <1>1 DEF DataType
<1>3. SizeType(h, db)
  BY <1>1 DEF SizeType, InUndo
<1>4. HeaderType(h, cells, b)
  BY <1>1 DEF HeaderType, Logging, InUndo
<1>5. QED
  BY <1>2, <1>3, <1>4

\* In mode "truncate" the other connections see the journal as a new file.
LEMMA SwapTyped ==
  ASSUME IInv, NEW b \in Nat, TInv(b), NEW c \in Conns, pager[c].pc = "final",
         NEW new \in Inodes, UNCHANGED <<mode, most, db>>,
         journal' = [journal EXCEPT ![new] = NoJournal],
         dirent' = [cur |-> new, may |-> dirent.may \cup {new}],
         pager' = [d \in Conns |->
           IF d = c THEN [pager[c] EXCEPT !.jfd = new, !.pc = "finsync"]
           ELSE IF pager[d].jfd = pager[c].jfd THEN [pager[d] EXCEPT !.jfd = new]
           ELSE pager[d]]
  PROVE  TInv(b)'
<1>1. /\ FilesInv /\ lock[c] >= RESERVED_LOCK /\ LockTypeOK /\ Exclusion
      /\ \A d \in Conns : PagerInv(pager[d], lock[d])
  BY EndingIsAlone DEF IInv
<1>2. /\ DbType(db) /\ \A i \in Inodes : JournalType(journal[i], b)
  BY DEF TInv
<1>3. \A d \in Conns : /\ DataType(pager[d], b) /\ SizeType(pager[d], db)
                       /\ HeaderType(pager[d], journal[pager[d].jfd], b)
  BY DEF TInv
<1>4. \A i \in Inodes : JournalType(journal'[i], b)
  <2>1. JournalType(NoJournal, b)
    BY CutTyped DEF JournalType, NoJournal, CellOf, Stable
  <2>2. \A i \in Inodes : journal'[i] \in {journal[i], NoJournal}
    BY <1>1 DEF FilesInv
  <2>3. QED
    BY <1>2, <2>1, <2>2
<1>5. ASSUME NEW d \in Conns
      PROVE  /\ DataType(pager'[d], b) /\ SizeType(pager'[d], db)
             /\ HeaderType(pager'[d], journal'[pager'[d].jfd], b)
  <2>1. CASE d = c
    <3>1. pager'[c] = [pager[c] EXCEPT !.jfd = new, !.pc = "finsync"]
      OBVIOUS
    <3>2. pager[c] = [f \in Fields |-> pager[c][f]]
      BY <1>1 DEF PagerInv
    <3>3. QED
      BY <1>3, <2>1, <3>1, <3>2, EndsTyped
  <2>2. CASE d # c
    <3> DEFINE g == pager[d]
               h == pager'[d]
    <3>1. h = g \/ h = [g EXCEPT !.jfd = new]
      BY <2>2
    <3>2. g = [f \in Fields |-> g[f]] /\ PagerInv(g, lock[d])
      BY <1>1 DEF PagerInv
    <3>3. DataType(g, b) /\ SizeType(g, db)
      BY <1>3
    <3>4. g.eState \notin {"cachemod", "dbmod"}
      <4>1. ~(lock[d] >= RESERVED_LOCK)
        BY <1>1, <2>2 DEF Exclusion, Others, LockTypeOK, Levels
      <4>2. QED
        BY <3>2, <4>1 DEF PagerInv, StateInv
    <3> HIDE DEF g, h
    <3>5. /\ h.pc = g.pc /\ h.cache = g.cache /\ h.vers = g.vers /\ h.dbSize = g.dbSize
          /\ h.nPage = g.nPage /\ h.orig = g.orig /\ h.nonce = g.nonce /\ h.dirty = g.dirty
          /\ h.off = g.off /\ h.needSync = g.needSync /\ h.hot = g.hot /\ h.eState = g.eState
      BY <3>1, <3>2 DEF Fields
    <3>6. DataType(h, b)
      BY <3>3, <3>5 DEF DataType
    <3>7. SizeType(h, db)
      BY <3>3, <3>5 DEF SizeType
    <3>8. \A cells : HeaderType(h, cells, b)
      BY <3>4, <3>5 DEF HeaderType, Logging
    <3>9. QED
      BY <3>6, <3>7, <3>8 DEF h
  <2>3. QED
    BY <2>1, <2>2
<1>6. mode' \in AllModes /\ most' \in 0..MaxPage /\ dirent'.cur \in dirent'.may /\ DbType(db')
  BY <1>2 DEF TInv
<1>7. \A d \in Conns : SizeType(pager'[d], db')
  BY <1>5
<1>8. QED
  BY <1>4, <1>5, <1>6, <1>7 DEF TInv

\* pager_end_transaction() deletes, truncates or overwrites the journal.
LEMMA FinalizeTyped ==
  ASSUME IInv, NEW b \in Nat, TInv(b), NEW c \in Conns, Finalize(c)
  PROVE  TInv(b)'
<1> DEFINE g == pager[c]
<1>1. /\ g.pc = "final" /\ UNCHANGED <<mode, most, db>>
      /\ \/ /\ dirent' = [cur |-> 0, may |-> MayBe(dirent.may \cup {0})]
            /\ Set(c, [g EXCEPT !.jfd = 0, !.pc = "end"])
            /\ UNCHANGED journal
         \/ /\ g.jfd # 0 /\ FreeInodes # {}
            /\ journal' = [journal EXCEPT ![NewInode] = NoJournal]
            /\ dirent' = [cur |-> NewInode, may |-> dirent.may \cup {NewInode}]
            /\ pager' = [d \in Conns |->
                 IF d = c THEN [g EXCEPT !.jfd = NewInode, !.pc = "finsync"]
                 ELSE IF pager[d].jfd = g.jfd THEN [pager[d] EXCEPT !.jfd = NewInode]
                 ELSE pager[d]]
         \/ g.jfd # 0 /\ PutCell(g.jfd, 1, Junk) /\ Goto(c, "finsync") /\ UNCHANGED dirent
         \/ Goto(c, "end") /\ UNCHANGED <<journal, dirent>>
  BY DEF Finalize, counts
<1>2. /\ PagerInv(g, lock[c]) /\ FilesInv /\ lock[c] >= RESERVED_LOCK
      /\ DataType(g, b) /\ SizeType(g, db) /\ HeaderType(g, journal[g.jfd], b)
      /\ g = [f \in Fields |-> g[f]]
  BY <1>1, EndingIsAlone DEF TInv, PagerInv
<1>3. /\ DbType(db) /\ DbType(db') /\ \A i \in Inodes : JournalType(journal[i], b)
  BY <1>1 DEF TInv
<1>4. /\ dirent.cur \in dirent.may /\ b <= b
  BY DEF TInv
<1>5. ASSUME NEW i, NEW pc \in {"finsync", "end"}, NEW h, h = [g EXCEPT !.jfd = i, !.pc = pc],
             NEW cells
      PROVE  DataType(h, b) /\ SizeType(h, db) /\ SizeType(h, db') /\ HeaderType(h, cells, b)
  <2>1. DataType(h, b) /\ SizeType(h, db) /\ HeaderType(h, cells, b)
    BY <1>1, <1>2, <1>5, EndsTyped
  <2>2. QED
    BY <1>1, <2>1
<1>6. CASE /\ dirent' = [cur |-> 0, may |-> MayBe(dirent.may \cup {0})]
           /\ Set(c, [g EXCEPT !.jfd = 0, !.pc = "end"])
           /\ UNCHANGED journal
  <2> DEFINE h == [g EXCEPT !.jfd = 0, !.pc = "end"]
  <2>1. DataType(h, b) /\ SizeType(h, db') /\ HeaderType(h, journal'[h.jfd], b)
    BY <1>5
  <2>2. Set(c, h) /\ dirent'.cur \in dirent'.may /\ \A i \in Inodes : JournalType(journal'[i], b)
    BY <1>3, <1>6, NoName
  <2> HIDE DEF h
  <2>3. QED
    BY <1>1, <1>3, <1>4, <1>6, <2>1, <2>2, OneTyped
<1>7. CASE /\ g.jfd # 0 /\ FreeInodes # {}
           /\ journal' = [journal EXCEPT ![NewInode] = NoJournal]
           /\ dirent' = [cur |-> NewInode, may |-> dirent.may \cup {NewInode}]
           /\ pager' = [d \in Conns |->
                IF d = c THEN [g EXCEPT !.jfd = NewInode, !.pc = "finsync"]
                ELSE IF pager[d].jfd = g.jfd THEN [pager[d] EXCEPT !.jfd = NewInode]
                ELSE pager[d]]
  <2>1. FreeInodes \in SUBSET Nat /\ FreeInodes # {}
    BY <1>7, Bounds DEF FreeInodes, Inodes
  <2>2. NewInode \in Inodes
    BY <2>1, MinOfNat DEF NewInode, FreeInodes
  <2>3. QED
    BY <1>1, <1>7, <2>2, SwapTyped
<1>8. CASE g.jfd # 0 /\ PutCell(g.jfd, 1, Junk) /\ Goto(c, "finsync") /\ UNCHANGED dirent
  <2> DEFINE h == [g EXCEPT !.pc = "finsync"]
             cells == journal[g.jfd]
             new == [cells EXCEPT ![1] = Written(cells[1], Junk)]
  <2>1. g.jfd \in Inodes
    BY <1>2, <1>8, Bounds DEF PagerInv, JournalInv, Inodes
  <2>2. h = [g EXCEPT !.jfd = g.jfd, !.pc = "finsync"]
    BY <1>2 DEF Fields
  <2>3. Set(c, h) /\ journal' = [journal EXCEPT ![g.jfd] = new]
    BY <1>2, <1>8, <2>1 DEF Goto, PutCell, FilesInv
  <2> HIDE DEF h
  <2>4. DataType(h, b) /\ SizeType(h, db') /\ HeaderType(h, journal'[h.jfd], b)
    BY <1>5, <2>2
  <2>5. JournalType(new, b)
    <3>0. cells = [s \in Slots |-> cells[s]] /\ JournalType(cells, b)
      BY <1>2, <1>3, <2>1 DEF FilesInv
    <3> HIDE DEF cells
    <3>1. cells = [s \in Slots |-> cells[s]] /\ JournalType(cells, b) /\ 1 \in Slots
      BY <3>0, Bounds DEF Slots
    <3>2. CellOf(Written(cells[1], Junk), Cells(b))
      BY <3>1, CutTyped, WrittenCell DEF JournalType
    <3>3. QED
      BY <3>1, <3>2, PutTyped
  <2> HIDE DEF new
  <2>6. \A i \in Inodes : JournalType(journal'[i], b)
    BY <1>2, <1>3, <2>3, <2>5 DEF FilesInv
  <2>7. dirent'.cur \in dirent'.may
    BY <1>4, <1>8
  <2>8. QED
    BY <1>1, <1>2, <1>3, <1>4, <2>3, <2>4, <2>6, <2>7, OneTyped
<1>9. CASE Goto(c, "end") /\ UNCHANGED <<journal, dirent>>
  <2> DEFINE h == [g EXCEPT !.pc = "end"]
  <2>1. h = [g EXCEPT !.jfd = g.jfd, !.pc = "end"]
    BY <1>2 DEF Fields
  <2>2. Set(c, h)
    BY <1>9 DEF Goto
  <2> HIDE DEF h
  <2>3. DataType(h, b) /\ SizeType(h, db) /\ HeaderType(h, journal[h.jfd], b)
    BY <1>5, <2>1
  <2>4. QED
    BY <1>1, <1>9, <2>2, <2>3, OnlyPagerTyped
<1>10. QED
  BY <1>1, <1>6, <1>7, <1>8, <1>9

\* The end of the journal is synced.
LEMMA FinSyncTyped ==
  ASSUME IInv, NEW b \in Nat, TInv(b), NEW c \in Conns, FinSync(c)
  PROVE  TInv(b)'
<1> DEFINE g == pager[c]
           h == [g EXCEPT !.pc = "end"]
<1>1. /\ g.pc = "finsync" /\ SyncJournalFile(g.jfd, journal[g.jfd])
      /\ Set(c, h) /\ UNCHANGED <<mode, most, db>>
  BY DEF FinSync, Goto, counts
<1>2. /\ PagerInv(g, lock[c]) /\ FilesInv /\ lock[c] >= RESERVED_LOCK
      /\ DataType(g, b) /\ SizeType(g, db) /\ HeaderType(g, journal[g.jfd], b)
      /\ g = [f \in Fields |-> g[f]]
  BY <1>1, EndingIsAlone DEF TInv, PagerInv
<1>3. /\ DbType(db) /\ DbType(db') /\ \A i \in Inodes : JournalType(journal[i], b)
  BY <1>1 DEF TInv
<1>4. g.jfd \in Inodes
  BY <1>1, <1>2, Bounds DEF PagerInv, JournalInv, Inodes
<1>5. dirent'.cur \in dirent'.may /\ \A j \in Inodes : JournalType(journal'[j], b)
  <2>1. journal[g.jfd] = [s \in Slots |-> journal[g.jfd][s]] /\ JournalType(journal[g.jfd], b)
    BY <1>2, <1>3, <1>4 DEF FilesInv
  <2>2. QED
    BY <1>1, <1>2, <1>3, <1>4, <2>1, SyncJournalTyped
<1>6. h = [g EXCEPT !.jfd = g.jfd, !.pc = "end"]
  BY <1>2 DEF Fields
<1> HIDE DEF h
<1>7. DataType(h, b) /\ SizeType(h, db) /\ HeaderType(h, journal'[h.jfd], b)
  BY <1>1, <1>2, <1>6, EndsTyped
<1>8. SizeType(h, db') /\ b <= b
  BY <1>1, <1>7
<1>9. QED
  BY <1>1, <1>2, <1>3, <1>5, <1>7, <1>8, OneTyped

\* The file is cut to its size, and the transaction over.
LEMMA ConcludeTyped ==
  ASSUME IInv, NEW b \in Nat, TInv(b), NEW c \in Conns, Conclude(c)
  PROVE  TInv(b)'
<1> DEFINE g == pager[c]
           cache == [p \in Pages |-> IF p > g.dbSize THEN NoPage ELSE g.cache[p]]
           n == IF g.commit THEN g.nPage ELSE Version(cache[1]).nPage
           e == Ended(g)
           h == [e EXCEPT !.cache = cache, !.nPage = n,
                          !.eState = IF g.hot THEN "open" ELSE "reader",
                          !.pc = IF g.hot THEN "validate" ELSE "idle"]
<1>1. /\ g.pc = "end" /\ UNCHANGED <<mode, most, journal, dirent>>
      /\ db' = IF g.commit /\ g.eState = "finished" /\ DbSize > g.dbSize
               THEN TruncateDb(g.dbSize) ELSE db
  BY DEF Conclude, counts
<1>2. /\ PagerInv(g, lock[c]) /\ FilesInv /\ lock[c] >= RESERVED_LOCK
      /\ g.eState \in {"open", "locked", "cachemod", "dbmod", "finished"}
      /\ g.eState = "open" => g.hot
      /\ DataType(g, b) /\ SizeType(g, db) /\ DbType(db) /\ g = [f \in Fields |-> g[f]]
  BY <1>1, EndingIsAlone DEF TInv, PagerInv
<1>3. g.eState = "finished" => lock[c] = EXCLUSIVE_LOCK
  BY <1>2 DEF PagerInv, StateInv
<1>4. /\ e = [f \in Fields |-> e[f]] /\ e.vers = g.vers /\ e.dbSize = g.dbSize
      /\ e.nPage = g.nPage /\ e.orig = 0 /\ e.off = 0 /\ e.nonce = 0
      /\ e.dirty = {} /\ e.needSync = {} /\ e.hot = FALSE
  BY ZenonT(30), <1>2 DEF Ended, Fields
<1>5. Set(c, h)
  BY <1>4 DEF Conclude
<1>6. cache \in [Pages -> OnDisk] /\ cache[1] \in FirstPages /\ n \in 0..MaxPage
  <2>1. 1 \in Pages
    BY Bounds DEF Pages
  <2>2. cache \in [Pages -> OnDisk] /\ cache[1] \in FirstPages
    BY <1>2, <2>1, Contents DEF DataType
  <2> HIDE DEF cache
  <2>3. Version(cache[1]).nPage \in 0..MaxPage
    BY <2>2, VersionTyped
  <2>4. QED
    BY <1>2, <2>2, <2>3 DEF DataType
<1> HIDE DEF e, cache, n
<1>7. /\ h.vers = g.vers /\ h.dbSize = g.dbSize
      /\ h.nPage = n /\ h.orig = 0 /\ h.off = 0 /\ h.nonce = 0 /\ h.cache = cache
      /\ h.dirty = {} /\ h.needSync = {} /\ h.hot = FALSE
      /\ h.eState = (IF g.hot THEN "open" ELSE "reader")
  BY <1>4 DEF Fields
<1> HIDE DEF h
<1>8. DataType(h, b)
  BY <1>2, <1>6, <1>7, Bounds DEF DataType
<1>9. DbType(db') /\ (db' = db \/ (g.eState = "finished" /\ Present(db', g.dbSize)))
  <2>1. CASE g.commit /\ g.eState = "finished" /\ DbSize > g.dbSize
    <3>1. db' = TruncateDb(g.dbSize) /\ g.dbSize \in 0..MaxPage
      BY <1>1, <1>2, <2>1 DEF DataType
    <3>2. QED
      BY <1>2, <2>1, <3>1, TruncateTyped
  <2>2. CASE ~(g.commit /\ g.eState = "finished" /\ DbSize > g.dbSize)
    <3>1. db' = db
      BY <1>1, <2>2
    <3>2. DbType(db)
      BY <1>2
    <3>3. QED
      BY <3>1, <3>2
  <2>3. QED
    BY <2>1, <2>2
<1>10. SizeType(h, db')
  <2>1. g.eState # "open" => Present(db', g.dbSize)
    BY <1>1, <1>2, <1>9 DEF SizeType, InUndo
  <2>2. g.eState = "open" => h.eState = "open"
    BY <1>2, <1>7
  <2>3. h.eState \in {"open", "reader"}
    BY <1>7
  <2>4. QED
    BY <1>7, <2>1, <2>2, <2>3 DEF SizeType
<1>11. HeaderType(h, journal[h.jfd], b)
  BY <1>7 DEF HeaderType, Logging
<1>12. QED
  BY <1>1, <1>3, <1>5, <1>8, <1>9, <1>10, <1>11, DbTyped

\* Every step of a rollback, and of the end of a transaction.
LEMMA EndingTyped ==
  ASSUME IInv, NEW b \in Nat, TInv(b), NEW c \in Conns, Ending(c)
  PROVE  TInv(b)'
BY RollbackTyped, PlayHeaderTyped, PlayRecordTyped, PlayEndTyped, FinalizeTyped,
   FinSyncTyped, ConcludeTyped DEF Ending

-----------------------------------------------------------------------------
\* Faults, the first state, and the theorem

\* A write of a page that fails may leave the page torn: the file still has
\* all the pages it had.
LEMMA TornTyped ==
  ASSUME IInv, NEW b \in Nat, TInv(b), NEW c \in Conns, IoError(c)
  PROVE  /\ DbType(db') /\ \A n \in Nat : Present(db, n) => Present(db', n)
         /\ db' = db \/ pager[c].pc = "wdb"
<1> DEFINE g == pager[c]
           left == {p \in g.dirty : p <= g.dbSize}
           target == IF g.spill # 0 THEN g.spill ELSE Min(left)
<1>1. \/ db' = db
      \/ g.pc = "wdb" /\ left # {} /\ db' = WriteDb(target, Torn)
  BY DEF IoError
<1>2. DbType(db)
  BY DEF TInv
<1>3. CASE db' = db
  BY <1>2, <1>3
<1>4. CASE g.pc = "wdb" /\ left # {} /\ db' = WriteDb(target, Torn)
  <2>1. LogInv(g, journal[g.jfd])
    BY <1>4, WritingLogs
  <2>2. target \in Pages
    <3>1. CASE g.spill # 0
      BY <2>1, <3>1 DEF LogInv
    <3>2. CASE g.spill = 0
      <4>1. left \in SUBSET Nat /\ left # {} /\ left \subseteq Pages
        BY <1>4, <2>1 DEF LogInv, Pages
      <4>2. Min(left) \in left
        BY <4>1, MinOfNat
      <4>3. QED
        BY <3>2, <4>1, <4>2
    <3>3. QED
      BY <3>1, <3>2
  <2> HIDE DEF target
  <2>3. Torn \in OnDisk \ {NoPage} /\ Torn \in FirstPages
    BY Contents
  <2>4. QED
    BY <1>2, <1>4, <2>2, <2>3, WriteTyped
<1>5. QED
  BY <1>1, <1>3, <1>4

\* A system call fails.
LEMMA IoErrorTyped ==
  ASSUME IInv, NEW b \in Nat, TInv(b), NEW c \in Conns, IoError(c)
  PROVE  TInv(b)'
<1> DEFINE g == pager[c]
<1>1. /\ g.pc \in {"jsync", "jhdr", "jsync2", "wdb", "dbsync", "play", "record",
                   "final", "finsync"}
      /\ g.eState # "locked" /\ UNCHANGED <<mode, most, journal, dirent>>
      /\ \/ Set(c, Unlocked(g, TRUE))
         \/ g.commit /\ g.eState \in {"cachemod", "dbmod"} /\ Goto(c, "failed")
         \/ ~g.hot /\ Set(c, [g EXCEPT !.eState = "error", !.pc = "idle"])
  BY DEF IoError
<1>2. /\ PagerInv(g, lock[c]) /\ DataType(g, b) /\ SizeType(g, db)
      /\ HeaderType(g, journal[g.jfd], b) /\ g = [f \in Fields |-> g[f]]
  BY DEF IInv, TInv, PagerInv
<1>3. /\ DbType(db') /\ \A n \in Nat : Present(db, n) => Present(db', n)
      /\ db' = db \/ lock[c] = EXCLUSIVE_LOCK
  BY TornTyped, WritingLogs
<1>4. CASE Set(c, Unlocked(g, TRUE))
  <2> DEFINE h == Unlocked(g, TRUE)
  <2>1. DataType(h, b) /\ h.eState = "open"
    BY <1>2, UnlockedTyped
  <2> HIDE DEF h
  <2>2. SizeType(h, db') /\ HeaderType(h, journal[h.jfd], b)
    BY <2>1 DEF SizeType, HeaderType, Logging
  <2>3. Set(c, h)
    BY <1>4 DEF h
  <2>4. QED
    BY <1>1, <1>3, <2>1, <2>2, <2>3, DbTyped
<1>5. CASE g.commit /\ g.eState \in {"cachemod", "dbmod"} /\ Goto(c, "failed")
  <2> DEFINE h == [g EXCEPT !.pc = "failed"]
  <2>1. /\ h.eState = g.eState /\ h.pc = "failed" /\ h.hot = g.hot
        /\ h.orig = g.orig /\ h.header = g.header /\ h.hdr = g.hdr /\ h.jfd = g.jfd
        /\ \A f \in {"cache", "vers", "dbSize", "nPage", "orig", "off", "nonce", "dirty",
                     "needSync"} : h[f] = g[f]
    BY <1>2 DEF Fields
  <2>2. Set(c, h)
    BY <1>5 DEF Goto
  <2> HIDE DEF h
  <2>3. DataType(h, b)
    <3>1. h.hot => g.dirty = {}
      BY <1>2, <2>1 DEF DataType
    <3>2. QED
      BY <1>2, <2>1, <3>1, SameData
  <2>4. SizeType(h, db')
    <3>1. h.eState = "cachemod" => Present(db, g.orig)
      BY <1>2, <2>1 DEF SizeType
    <3>2. g.orig \in Nat
      BY <1>2 DEF DataType
    <3>3. QED
      BY <1>3, <1>5, <2>1, <3>1, <3>2 DEF SizeType, InUndo
  <2>5. HeaderType(h, journal[h.jfd], b)
    <3>1. g.pc \notin {"final", "finsync", "end"}
      BY <1>2, <1>5 DEF HeaderType, InUndo
    <3>2. QED
      BY <1>2, <1>5, <2>1, <3>1 DEF HeaderType, Logging, InUndo
  <2>6. QED
    BY <1>1, <1>3, <2>2, <2>3, <2>4, <2>5, DbTyped
<1>6. CASE ~g.hot /\ Set(c, [g EXCEPT !.eState = "error", !.pc = "idle"])
  <2> DEFINE h == [g EXCEPT !.eState = "error", !.pc = "idle"]
  <2>1. /\ h.eState = "error" /\ h.hot = g.hot
        /\ \A f \in {"cache", "vers", "dbSize", "nPage", "orig", "off", "nonce", "dirty",
                     "needSync"} : h[f] = g[f]
    BY <1>2 DEF Fields
  <2>2. Set(c, h)
    BY <1>6
  <2> HIDE DEF h
  <2>3. DataType(h, b)
    <3>1. h.hot => g.dirty = {}
      BY <1>2, <2>1 DEF DataType
    <3>2. QED
      BY <1>2, <2>1, <3>1, SameData
  <2>4. SizeType(h, db') /\ HeaderType(h, journal[h.jfd], b)
    BY <2>1 DEF SizeType, HeaderType, Logging
  <2>5. QED
    BY <1>1, <1>3, <2>2, <2>3, <2>4, DbTyped
<1>7. QED
  BY <1>1, <1>4, <1>5, <1>6

\* A pager that was just opened knows nothing.
LEMMA FreshTyped ==
  ASSUME NEW b \in Nat, NEW d, NEW cells
  PROVE  DataType(Fresh, b) /\ SizeType(Fresh, d) /\ HeaderType(Fresh, cells, b)
<1>1. /\ Fresh.cache = NoCache /\ Fresh.vers = NoVersion /\ Fresh.dbSize = 0
      /\ Fresh.nPage = 0 /\ Fresh.orig = 0 /\ Fresh.off = 0 /\ Fresh.nonce = 0
      /\ Fresh.dirty = {} /\ Fresh.needSync = {} /\ Fresh.eState = "open"
      /\ Fresh.hot = FALSE
  BY DEF Fresh
<1>2. DataType(Fresh, b)
  BY <1>1, NoCacheTyped, Bounds DEF DataType
<1>3. SizeType(Fresh, d) /\ HeaderType(Fresh, cells, b)
  BY <1>1 DEF SizeType, HeaderType, Logging
<1>4. QED
  BY <1>2, <1>3

\* A connection fails, is unlocked after an error, or is killed.
LEMMA FaultTyped ==
  ASSUME IInv, NEW b \in Nat, TInv(b), NEW c \in Conns, Fault(c)
  PROVE  TInv(b)'
<1>1. CASE IoError(c)
  BY <1>1, IoErrorTyped
<1>2. CASE ErrorUnlock(c)
  <2>1. Set(c, Unlocked(pager[c], TRUE)) /\ UNCHANGED <<mode, most, db, journal, dirent>>
    BY <1>2 DEF ErrorUnlock, files, counts
  <2>2. QED
    BY <2>1, UnlockTyped
<1>3. CASE Crash(c)
  <2>1. Set(c, Fresh) /\ UNCHANGED <<mode, most, db, journal, dirent>>
    BY <1>3 DEF Crash, files
  <2>2. QED
    BY <2>1, FreshTyped, OnlyPagerTyped
<1>4. QED
  BY <1>1, <1>2, <1>3 DEF Fault

-----------------------------------------------------------------------------
\* What a power loss leaves of the database file: of each page one of the
\* contents it may have, and no gap before the last of them.
LEMMA FilledTyped ==
  ASSUME DbType(db), NEW s \in Survivors(db),
         NEW d, d = [p \in Pages |-> Stable(Filled(s)[p])]
  PROVE  DbType(d)
<1> DEFINE S == {0} \cup {q \in DOMAIN s : s[q] # NoPage}
           f == Filled(s)
<1>1. Len(db) = MaxPage /\ MaxPage \in Nat \ {0}
  <2>1. db \in [1..MaxPage -> {db[p] : p \in Pages}]
    BY DEF DbType, Pages
  <2>2. QED
    BY <2>1, Bounds
<1>2. DOMAIN s = Pages /\ \A p \in Pages : s[p] \in db[p].may
  <2>1. Len(s) = MaxPage /\ \A i \in 1..MaxPage : s[i] \in db[i].may
    BY <1>1, SurvivorsAre
  <2>2. QED
    BY <2>1 DEF Pages
<1>3. S \in SUBSET (0..MaxPage) /\ S # {}
  <2>1. DOMAIN s = Pages
    BY <1>2
  <2>2. QED
    BY <1>1, <2>1 DEF Pages
<1>4. Max(S) \in S /\ \A y \in S : y <= Max(S)
  BY <1>1, <1>3, MaxOfUpTo
<1>5. Length(s) = Max(S)
  BY DEF Length
<1> HIDE DEF S
<1>6. \A p \in Pages : f[p] = IF s[p] = NoPage /\ p < Max(S) THEN Zero ELSE s[p]
  BY <1>2, <1>5 DEF Filled
<1> HIDE DEF f
<1>7. \A p \in Pages : f[p] # NoPage <=> p <= Max(S)
  <2> TAKE p \in Pages
  <2>1. Max(S) \in 0..MaxPage /\ p \in Nat /\ Zero # NoPage
    <3>1. Max(S) \in 0..MaxPage
      BY <1>3, <1>4
    <3>2. QED
      BY <3>1, Contents DEF Pages
  <2>2. p \in S <=> s[p] # NoPage
    BY <1>2 DEF S, Pages
  <2>3. Max(S) = p => p \in S
    BY <1>4
  <2>4. p \in S => p <= Max(S)
    BY <1>4
  <2>5. QED
    BY <1>6, <2>1, <2>2, <2>3, <2>4
<1>8. d = [p \in Pages |-> d[p]] /\ \A p \in Pages : d[p] = Stable(f[p]) /\ d[p].cur = f[p]
  BY DEF Stable, f
<1>9. \A p \in Pages : f[p] \in OnDisk /\ (p = 1 => f[p] \in FirstPages)
  <2> TAKE p \in Pages
  <2>1. db[p].may \subseteq OnDisk /\ (p = 1 => db[p].may \subseteq FirstPages)
    BY DEF DbType, CellOf
  <2>2. QED
    BY <1>2, <1>6, <2>1, Contents
<1>10. \A p \in Pages : CellOf(d[p], OnDisk) /\ (p = 1 => d[p].may \subseteq FirstPages)
  <2> TAKE p \in Pages
  <2>1. d[p] = [cur |-> f[p], may |-> {f[p]}]
    BY <1>8 DEF Stable
  <2>2. f[p] \in OnDisk /\ (p = 1 => f[p] \in FirstPages)
    BY <1>9
  <2>3. QED
    BY <2>1, <2>2 DEF CellOf
<1>11. \A p \in Pages : d[p].cur # NoPage => Present(d, p)
  <2> SUFFICES ASSUME NEW p \in Pages, d[p].cur # NoPage, NEW q \in Pages, q <= p
               PROVE  d[q].cur # NoPage
    BY DEF Present
  <2>1. Max(S) \in 0..MaxPage
    BY <1>3, <1>4
  <2>2. QED
    BY <1>7, <1>8, <2>1 DEF Pages
<1>12. QED
  <2>1. 1 \in Pages
    BY <1>1 DEF Pages
  <2>2. d[1].may \subseteq FirstPages
    BY <1>10, <2>1
  <2>3. QED
    BY <1>8, <1>10, <1>11, <2>2 DEF DbType

\* The power fails.
LEMMA PowerLossTyped ==
  ASSUME IInv, NEW b \in Nat, TInv(b), PowerLoss
  PROVE  TInv(b)'
<1>1. pager' = [c \in Conns |-> Fresh] /\ UNCHANGED <<mode, most>> /\ FilesInv
  BY DEF PowerLoss, IInv
<1>2. DbType(db')
  <2>1. PICK s \in Survivors(db) : db' = [p \in Pages |-> Stable(Filled(s)[p])]
    BY DEF PowerLoss
  <2>2. QED
    BY <2>1, FilledTyped DEF TInv
<1>3. PICK i \in dirent.may :
        /\ dirent' = Stable(i)
        /\ IF i = 0 THEN journal' = [k \in Inodes |-> NoJournal]
           ELSE \E j \in Survivors(journal[i]) :
                  journal' = [k \in Inodes |->
                    IF k = i THEN [s \in Slots |-> Stable(j[s])] ELSE NoJournal]
  BY DEF PowerLoss
<1>4. dirent'.cur \in dirent'.may
  BY <1>3 DEF Stable
<1>5. JournalType(NoJournal, b)
  BY DEF JournalType, CellOf, NoJournal, Cells, Stable
<1>6. \A k \in Inodes : JournalType(journal'[k], b)
  <2>1. CASE journal' = [k \in Inodes |-> NoJournal]
    BY <1>5, <2>1
  <2>2. ASSUME i # 0, NEW j \in Survivors(journal[i]),
               journal' = [k \in Inodes |->
                  IF k = i THEN [s \in Slots |-> Stable(j[s])] ELSE NoJournal]
        PROVE  \A k \in Inodes : JournalType(journal'[k], b)
    <3>1. i \in Inodes
      BY <1>1, <1>3, <2>2, Bounds DEF FilesInv, Inodes
    <3>2. journal[i] = [s \in Slots |-> journal[i][s]] /\ JournalType(journal[i], b)
      BY <1>1, <3>1 DEF FilesInv, TInv
    <3>3. Len(journal[i]) = MaxSlot /\ MaxSlot \in Nat
      <4>1. journal[i] \in [1..MaxSlot -> {journal[i][s] : s \in Slots}]
        BY <3>2 DEF Slots
      <4>2. QED
        BY <4>1, Bounds
    <3>4. \A s \in Slots : j[s] \in journal[i][s].may
      BY <3>3, SurvivorsAre DEF Slots
    <3>5. JournalType([s \in Slots |-> Stable(j[s])], b)
      BY <3>2, <3>4 DEF JournalType, CellOf, Stable
    <3>6. QED
      BY <1>5, <2>2, <3>5
  <2>3. QED
    BY <1>3, <2>1, <2>2
<1>7. \A c \in Conns : /\ DataType(pager'[c], b) /\ SizeType(pager'[c], db')
                       /\ HeaderType(pager'[c], journal'[pager'[c].jfd], b)
  BY <1>1, FreshTyped
<1>8. QED
  BY <1>1, <1>2, <1>4, <1>6, <1>7 DEF TInv

-----------------------------------------------------------------------------
\* The first connection finds a database file of a number of pages, and no
\* journal.
LEMMA InitTyped == Init => TInv(0)
<1> SUFFICES ASSUME Init PROVE TInv(0)
  OBVIOUS
<1>1. PICK x \in Scenarios, v \in Values :
        /\ mode = x.mode /\ most = x.most
        /\ db = [p \in Pages |->
                  Stable(IF p > x.size THEN NoPage
                         ELSE IF p = 1 THEN FirstPage(x.size) ELSE v)]
  BY DEF Init
<1>2. /\ journal = [i \in Inodes |-> NoJournal] /\ dirent = Stable(0)
      /\ pager = [c \in Conns |-> Fresh]
  BY DEF Init
<1>3. x.mode \in AllModes /\ x.size \in 0..MaxPage /\ x.most \in 0..MaxPage
  BY PagerAssumption DEF PagerAssumption
<1>4. DbType(db)
  <2> DEFINE f == [p \in Pages |-> IF p > x.size THEN NoPage
                                   ELSE IF p = 1 THEN FirstPage(x.size) ELSE v]
  <2>1. db = [p \in Pages |-> db[p]] /\ \A p \in Pages : db[p] = Stable(f[p]) /\ db[p].cur = f[p]
    BY <1>1 DEF Stable
  <2>2. 1 <= x.size => FirstPage(x.size) \in HeaderPages
    BY <1>3 DEF FirstPage, HeaderPages, Pages
  <2>3. v \in OnDisk /\ v # NoPage /\ HeaderPages \subseteq OnDisk /\ NoPage \in FirstPages
        /\ (\A y \in HeaderPages : y # NoPage)
    BY Contents DEF FirstPages, OnDisk, PageContents, HeaderPages
  <2>4. \A p \in Pages : /\ f[p] \in OnDisk /\ (p = 1 => f[p] \in FirstPages)
                         /\ (f[p] # NoPage <=> p <= x.size)
    <3> TAKE p \in Pages
    <3>1. p \in Nat /\ x.size \in Nat /\ 1 <= p
      BY <1>3 DEF Pages
    <3>2. CASE p > x.size
      <4>1. f[p] = NoPage /\ ~(p <= x.size)
        BY <3>1, <3>2
      <4>2. QED
        BY <4>1, Contents
    <3>3. CASE p <= x.size /\ p = 1
      BY <2>2, <2>3, <3>1, <3>3 DEF FirstPages
    <3>4. CASE p <= x.size /\ p # 1
      BY <2>3, <3>1, <3>4
    <3>5. QED
      BY <3>1, <3>2, <3>3, <3>4
  <2> HIDE DEF f
  <2>5. \A p \in Pages : CellOf(db[p], OnDisk) /\ (p = 1 => db[p].may \subseteq FirstPages)
    BY <2>1, <2>4 DEF CellOf, Stable
  <2>6. \A p \in Pages : db[p].cur # NoPage => Present(db, p)
    BY <1>3, <2>1, <2>4 DEF Present, Pages
  <2>7. QED
    BY <2>1, <2>5, <2>6, Bounds DEF DbType, Pages
<1>5. \A i \in Inodes : JournalType(journal[i], 0)
  BY <1>2 DEF JournalType, CellOf, NoJournal, Cells, Stable
<1>6. \A c \in Conns : /\ DataType(pager[c], 0) /\ SizeType(pager[c], db)
                       /\ HeaderType(pager[c], journal[pager[c].jfd], 0)
  BY <1>2, FreshTyped
<1>7. dirent.cur \in dirent.may
  BY <1>2 DEF Stable
<1>8. QED
  BY <1>1, <1>3, <1>4, <1>5, <1>6, <1>7 DEF TInv

\* The files and the pagers are of their types, with some bound on the
\* numbers that the journals hold.
Typed == \E b \in Nat : TInv(b)

\* No step breaks the types.
LEMMA StepTyped == IInv /\ Typed /\ [Next]_vars => Typed'
<1> SUFFICES ASSUME IInv, NEW b \in Nat, TInv(b), [Next]_vars
             PROVE  \E k \in Nat : TInv(k)'
  BY DEF Typed
<1>1. b + 1 \in Nat
  OBVIOUS
<1>2. ASSUME NEW c \in Conns, Reading(c)
      PROVE  TInv(b)'
  BY <1>2, ReadingTyped
<1>3. ASSUME NEW c \in Conns, Writing(c)
      PROVE  TInv(b)' \/ TInv(b + 1)'
  BY <1>3, WritingTyped
<1>4. ASSUME NEW c \in Conns, Ending(c)
      PROVE  TInv(b)'
  BY <1>4, EndingTyped
<1>5. ASSUME NEW c \in Conns, Fault(c)
      PROVE  TInv(b)'
  BY <1>5, FaultTyped
<1>6. ASSUME UNCHANGED vars
      PROVE  TInv(b)'
  BY <1>6 DEF vars, TInv
<1>7. TInv(b)' \/ TInv(b + 1)'
  <2>1. CASE \E c \in Conns : Reading(c) \/ Writing(c) \/ Ending(c) \/ Fault(c)
    BY <1>2, <1>3, <1>4, <1>5, <2>1
  <2>2. CASE PowerLoss
    <3>1. TInv(b)'
      BY <2>2, PowerLossTyped
    <3>2. QED
      BY <3>1
  <2>3. CASE UNCHANGED vars
    <3>1. TInv(b)'
      BY <1>6, <2>3
    <3>2. QED
      BY <3>1
  <2>4. QED
    BY <2>1, <2>2, <2>3 DEF Next
<1>8. QED
  BY <1>1, <1>7

\* The types of the files and of what the pagers know are what TypeOK says of
\* them, and the pagers are in states that go together.
LEMMA TypesAreOK ==
  ASSUME IInv, Typed
  PROVE  TypeOK
<1>1. PICK b \in Nat : TInv(b)
  BY DEF Typed
<1>2. LockTypeOK /\ PagersOK
  BY PagersAreOK DEF IInv, PagersOK
<1>3. \A p \in Pages : db[p].cur \in db[p].may /\ db[p].may \subseteq OnDisk
  BY <1>1 DEF TInv, DbType, CellOf
<1>4. dirent.cur \in dirent.may /\ dirent.may \subseteq 0..MaxInode
  BY <1>1 DEF TInv, IInv, FilesInv
<1>5. \A c \in Conns :
       /\ pager[c].jfd \in 0..MaxInode /\ pager[c].off \in 0..MaxSlot
       /\ pager[c].dirty \subseteq {p \in Pages : pager[c].cache[p] # NoPage}
       /\ pager[c].needSync \subseteq pager[c].dirty
  BY <1>1 DEF TInv, DataType, IInv, PagerInv, JournalInv
<1>6. mode \in AllModes /\ most \in 0..MaxPage
  BY <1>1 DEF TInv
<1>7. QED
  BY <1>2, <1>3, <1>4, <1>5, <1>6 DEF TypeOK

\* Whatever the connections do and whatever fails, the files hold only what was
\* written or may be left of a write, and every pager knows pages and places of
\* the journal that there are.
THEOREM TypeCorrect == Spec => []TypeOK
<1>1. Init => Typed
  BY InitTyped DEF Typed
<1>2. IInv /\ Typed /\ [Next]_vars => Typed'
  BY StepTyped
<1>3. IInv /\ Typed => TypeOK
  BY TypesAreOK
<1>4. QED
  BY <1>1, <1>2, <1>3, Invariance, PTL DEF Spec
=============================================================================
