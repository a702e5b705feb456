----------------------------- MODULE WalProofs ------------------------------
(***************************************************************************)
(* For any number of connections, pages, frames and read-marks, with       *)
(* processes killed and power lost: every part of the code of the log has  *)
(* the lock it relies on, and no lock has two owners.                      *)
(***************************************************************************)
EXTENDS Wal, FiniteSetTheorems, TLAPS, WellFoundedInduction
-----------------------------------------------------------------------------
\* The least and the greatest number of a set: Min and Max of FiniteSetsExt, with
\* which the model names the next frame, mark or slot.

\* A set of natural numbers that is not empty has a least member.  Cited
\* wherever an induction over numbers is needed: as the least number for
\* which something fails.
LEMMA MinOfNat ==
  ASSUME NEW S \in SUBSET Nat, S # {}
  PROVE  Min(S) \in S /\ \A y \in S : Min(S) <= y
<1> DEFINE R == {ss \in Nat \X Nat : ss[1] < ss[2]}
<1>1. IsWellFoundedOn(R, Nat)
  BY NatLessThanWellFounded, Zenon DEF OpToRel
<1> HIDE DEF R
<1>2. \E x \in S : \A y \in S : <<y, x>> \notin R
  BY <1>1, WFMin, Zenon
<1>3. ASSUME NEW x \in S, NEW y \in S, <<y, x>> \notin R
      PROVE  x <= y
  BY <1>3 DEF R
<1>4. \E x \in S : \A y \in S : x <= y
  BY <1>2, <1>3
<1>5. QED
  BY <1>4 DEF Min

\* A set of natural numbers up to n that is not empty has a greatest member.
LEMMA MaxOfUpTo ==
  ASSUME NEW n \in Nat, NEW S \in SUBSET (0..n), S # {}
  PROVE  Max(S) \in S /\ \A y \in S : y <= Max(S)
<1> DEFINE T == {n - s : s \in S}
<1>1. \A s \in S : s \in 0..n
  OBVIOUS
<1>2. T \in SUBSET Nat /\ T # {}
  BY <1>1
<1>3. Min(T) \in T /\ \A y \in T : Min(T) <= y
  BY <1>2, MinOfNat
<1>4. PICK x \in S : Min(T) = n - x
  BY <1>3
<1>5. \A y \in S : x >= y
  <2> TAKE y \in S
  <2>1. n - x <= n - y
    BY <1>3, <1>4
  <2>2. QED
    BY <2>1
<1>6. QED
  BY <1>5 DEF Max

\* What a power loss may make of a file, as a table of the first cells.
Extend(f, S, k) == {Append(s, x) : s \in S, x \in f[k].may}
Table(f, g, n) == g = [k \in 0..n |-> IF k = 0 THEN {<<>>} ELSE Extend(f, g[k - 1], k)]

\* There is such a table of every file: of a shortest one without it the next
\* shorter one has it.
LEMMA TableExists ==
  ASSUME NEW f, NEW n \in Nat
  PROVE  \E g : Table(f, g, n)
<1> DEFINE Fails == {k \in Nat : ~\E g : Table(f, g, k)}
<1> SUFFICES ASSUME Fails # {}
             PROVE  FALSE
  BY DEF Fails
<1>1. PICK m \in Fails : \A k \in Fails : m <= k
  <2>1. Fails \in SUBSET Nat
    OBVIOUS
  <2> HIDE DEF Fails
  <2>2. QED
    BY <2>1, MinOfNat
<1>2. Table(f, [k \in 0..0 |-> {<<>>}], 0)
  BY DEF Table
<1>3. m \in Nat \ {0}
  BY <1>2
<1>4. m - 1 \in Nat /\ m - 1 \notin Fails
  BY <1>1, <1>3
<1>5. PICK g : Table(f, g, m - 1)
  BY <1>4
<1> DEFINE h == [k \in 0..m |-> IF k = m THEN Extend(f, g[m - 1], m) ELSE g[k]]
<1>6. Table(f, h, m)
  <2>1. \A k \in 0..m - 1 : g[k] = IF k = 0 THEN {<<>>} ELSE Extend(f, g[k - 1], k)
    BY <1>5 DEF Table
  <2>2. h[m] = Extend(f, h[m - 1], m)
    BY <1>3
  <2>3. \A k \in 0..m - 1 : h[k] = IF k = 0 THEN {<<>>} ELSE Extend(f, h[k - 1], k)
    BY <2>1, <1>3
  <2>4. h = [k \in 0..m |-> h[k]]
    OBVIOUS
  <2> HIDE DEF h
  <2>5. \A k \in 0..m : h[k] = IF k = 0 THEN {<<>>} ELSE Extend(f, h[k - 1], k)
    BY <2>2, <2>3, <1>3
  <2>6. QED
    BY <2>4, <2>5 DEF Table
<1>7. QED
  BY <1>1, <1>6

\* Each cell of what survives was one of the contents of that cell.
LEMMA SurvivorsAre ==
  ASSUME NEW f, Len(f) \in Nat, NEW s \in Survivors(f)
  PROVE  Len(s) = Len(f) /\ \A i \in 1..Len(f) : s[i] \in f[i].may
<1> DEFINE V == UNION {f[i].may : i \in 1..Len(f)}
           Good(t, n) == t \in Seq(V) /\ Len(t) = n /\ \A i \in 1..n : t[i] \in f[i].may
           upTo == CHOOSE g : Table(f, g, Len(f))
           Fails == {n \in 0..Len(f) : \E t \in upTo[n] : ~Good(t, n)}
<1>1. Table(f, upTo, Len(f))
  BY TableExists
<1>2. Survivors(f) = upTo[Len(f)]
  BY DEF Survivors, Table, Extend
<1> HIDE DEF upTo
<1>3. Fails = {}
  <2> SUFFICES ASSUME Fails # {}
               PROVE  FALSE
    OBVIOUS
  <2>1. PICK m \in Fails : \A k \in Fails : m <= k
    <3>1. Fails \in SUBSET Nat
      OBVIOUS
    <3> HIDE DEF Fails
    <3>2. QED
      BY <3>1, MinOfNat
  <2>2. PICK t \in upTo[m] : ~Good(t, m)
    OBVIOUS
  <2>3. m # 0
    <3>1. upTo[0] = {<<>>}
      BY <1>1 DEF Table
    <3>2. Good(<<>>, 0)
      OBVIOUS
    <3>3. QED
      BY <2>2, <3>1, <3>2
  <2>4. m \in 1..Len(f) /\ m - 1 \in 0..Len(f) /\ m - 1 \notin Fails
    <3>1. m \in 0..Len(f)
      OBVIOUS
    <3> HIDE DEF Fails
    <3>2. QED
      BY <2>1, <2>3, <3>1
  <2>5. upTo[m] = Extend(f, upTo[m - 1], m)
    <3> HIDE DEF Fails, V
    <3>1. m \in 0..Len(f) /\ m # 0
      BY <2>4
    <3> HIDE DEF Good
    <3>2. \A k \in 0..Len(f) : upTo[k] = IF k = 0 THEN {<<>>} ELSE Extend(f, upTo[k - 1], k)
      BY <1>1 DEF Table
    <3>3. QED
      BY <3>1, <3>2
  <2>6. PICK u \in upTo[m - 1], x \in f[m].may : t = Append(u, x)
    BY <2>2, <2>5 DEF Extend
  <2>7. Good(u, m - 1)
    BY <2>4
  <2>8. x \in V
    BY <2>4
  <2> HIDE DEF V, Fails
  <2>9. Good(t, m)
    <3>1. u \in Seq(V) /\ Len(u) = m - 1 /\ m \in Nat
      BY <2>4, <2>7
    <3>2. t \in Seq(V) /\ Len(t) = m
      BY <2>6, <2>8, <3>1
    <3>3. t[m] = x /\ \A i \in 1..m - 1 : t[i] = u[i]
      BY <2>6, <2>8, <3>1
    <3>4. \A i \in 1..m : t[i] \in f[i].may
      BY <2>6, <2>7, <3>1, <3>3
    <3>5. QED
      BY <3>2, <3>4
  <2>10. QED
    BY <2>2, <2>9
<1>4. Len(f) \in 0..Len(f)
  OBVIOUS
<1>5. QED
  BY <1>2, <1>3, <1>4
-----------------------------------------------------------------------------

Fields ==
  {"pc", "job", "hdr", "cache", "tmp", "slot", "mark", "min", "dirty", "todo",
   "com", "first", "redo", "added", "mode", "safe", "i", "iter", "changed"}

\* Where a connection is that reads, writes, resets the log or checkpoints.
RecoverPcs == {"recover", "recover0", "recover1"}
HeaderPcs == {"copy1", "badhdr"} \cup RecoverPcs
MarkPcs == {"lockmark", "min", "verify"}
FramePcs == {"header", "synchdr", "frame", "index", "publish", "done"}
ResetPcs == {"reset", "reset0", "reset1", "reset2"}
CopyPcs == {"synclog", "copy", "backfill"}
SafePcs == {"mark", "lock0"} \cup CopyPcs
CkptPcs == {"start", "copied", "cut", "truncated"} \cup SafePcs

\* The places of a call and what is being done go together.
JobInv(g) ==
  \/ g.job = "none" /\ g.pc \in {"idle", "closed"}
  \/ g.job = "begin" /\ g.pc \in {"pick", "check0"} \cup HeaderPcs \cup MarkPcs
  \/ g.job = "again" /\ g.pc \in {"pick"} \cup MarkPcs
  \/ g.job = "txn" /\ g.pc \in {"read", "write", "restart"} \cup FramePcs \cup ResetPcs
  \/ g.job = "ckpt" /\ g.pc \in HeaderPcs \cup ResetPcs \cup CkptPcs

\* A write transaction, and a connection that reads the log at a snapshot.
InWrite(g) == g.job = "again" \/ (g.job = "txn" /\ g.pc # "read")
Shares(g) == g.job = "txn" \/ g.pc \in {"check0", "min", "verify"}

\* The locks that each part of the code needs.
Owns(g) ==
  (IF InWrite(g) \/ g.mode # Passive THEN {WRITE_LOCK} ELSE {})
    \cup (IF g.job = "ckpt" THEN {CKPT_LOCK} ELSE {})
    \cup (IF g.pc \in RecoverPcs THEN {WRITE_LOCK, CKPT_LOCK, RECOVER_LOCK} ELSE {})
    \cup (IF g.pc \in {"cut"} \cup ResetPcs THEN {WRITE_LOCK} \cup ReadLocks ELSE {})
    \cup (IF g.pc \in CopyPcs THEN {READ_LOCK(0)} ELSE {})

LocksInv(ex, sh) ==
  /\ ex = [s \in Slots |-> ex[s]] /\ sh = [s \in Slots |-> sh[s]]
  /\ \A s \in Slots :
       ex[s] = {} \/ (sh[s] = {} /\ \E c \in Conns : ex[s] = {c})

\* The slot of a connection.
SlotInv(g) ==
  /\ g.slot \in 0..NReader - 1
  /\ g.slot # 0 => g.job = "txn" \/ g.pc \in MarkPcs
  /\ g.pc \in MarkPcs \cup FramePcs => g.slot # 0
  /\ g.pc \in ResetPcs => g.slot = 0

GoodHdr(h) ==
  /\ h = Hdr(h.salt, h.mx, h.sum, h.chg)
  /\ h.mx \in 0..MaxFrame /\ h.salt \in Nat /\ h.chg \in {0, 1}
AnyHdr(h) == h = NoHdr \/ GoodHdr(h)

IsASeq(s) == Len(s) \in Nat /\ s = [n \in 1..Len(s) |-> s[n]]

\* What a connection has read, and what it is about to write there.
DataInv(g) ==
  /\ AnyHdr(g.hdr) /\ AnyHdr(g.tmp)
  /\ g.pc \notin {"idle", "closed", "copy1", "badhdr", "recover"} => GoodHdr(g.hdr)
  /\ g.mode # Passive => g.job = "ckpt"
  /\ g.pc \in MarkPcs => g.mark \in 0..g.hdr.mx
  /\ IsASeq(g.added) /\ g.hdr.mx + Len(g.added) <= MaxFrame
  /\ g.pc \notin {"frame", "index"} => g.added = <<>>
  /\ g.pc \in SafePcs => g.safe \in 0..g.hdr.mx
  /\ g.pc = "mark" => g.i \in 1..NReader
  /\ g.pc = "header" => g.hdr.mx = 0

\* The writer's header begins where the shared one ends, and the read-mark
\* of a connection is not above its snapshot.
MarkInv(g, sm) ==
  /\ InWrite(g) /\ g.pc # "reset0" =>
       GoodHdr(sm.h0) /\ sm.h0.mx <= g.hdr.mx
  /\ g.job = "txn" /\ g.slot # 0 =>
       sm.mark[g.slot] <= IF g.pc = "read" THEN g.hdr.mx ELSE sm.h0.mx

ConInv(c, g, ex, sh, sm) ==
  /\ g = [f \in Fields |-> g[f]]
  /\ JobInv(g) /\ SlotInv(g) /\ DataInv(g) /\ MarkInv(g, sm)
  /\ \A s \in Owns(g) : c \in ex[s]
  /\ Shares(g) => c \in sh[READ_LOCK(g.slot)]

ShmInv(sm) ==
  /\ sm = [h0 |-> sm.h0, h1 |-> sm.h1, back |-> sm.back, mark |-> sm.mark,
           idx |-> sm.idx]
  /\ AnyHdr(sm.h0) /\ AnyHdr(sm.h1) /\ sm.back \in 0..MaxFrame
  /\ sm.mark \in [Readers -> 0..READMARK_NOT_USED]
  /\ IsASeq(sm.idx) /\ Len(sm.idx) <= MaxFrame

\* The salts that a file may hold.
SaltsInv(cell) ==
  /\ cell = [cur |-> cell.cur, may |-> cell.may]
  /\ cell.cur \in cell.may /\ cell.may \subseteq Nat /\ IsFiniteSet(cell.may)
FramesInv(w) == w = [n \in Frames |-> w[n]] /\ \A n \in Frames : IsFiniteSet(w[n].may)
LogInv ==
  /\ SaltsInv(whdr) /\ FramesInv(wal)
  /\ \/ uncut = <<>>
     \/ /\ Len(uncut) = MaxFrame + 1 /\ SaltsInv(uncut[1])
        /\ \A n \in Frames : IsFiniteSet(uncut[n + 1].may)

IInv ==
  /\ LocksInv(excl, share) /\ ShmInv(shm) /\ LogInv
  /\ con = [c \in Conns |-> con[c]]
  /\ \A c \in Conns : ConInv(c, con[c], excl, share, shm)

-----------------------------------------------------------------------------
\* The bounds of the model are numbers.
LEMMA Bounds ==
  /\ MaxFrame \in Nat \ {0} /\ NReader \in Nat /\ NReader >= 3
  /\ IsFiniteSet(Conns) /\ IsFiniteSet(Pages)
BY WalAssumption DEF WalAssumption

\* A step of connection c takes no lock from another.
KeepsOthers(c, ex, sh, ex1, sh1) ==
  \A d \in Conns : \A s \in Slots :
    d # c => /\ (d \in ex[s] => d \in ex1[s])
             /\ (d \in sh[s] => d \in sh1[s])

\* To own locks that are free takes none from another.
LEMMA OwnLocks ==
  ASSUME NEW ex, NEW sh, LocksInv(ex, sh), NEW c \in Conns, NEW S,
         \A s \in S : s \in Slots /\ (c \in ex[s] \/ (ex[s] = {} /\ sh[s] = {})),
         NEW ex1, ex1 = [s \in Slots |-> IF s \in S THEN {c} ELSE ex[s]]
  PROVE  /\ LocksInv(ex1, sh) /\ KeepsOthers(c, ex, sh, ex1, sh)
         /\ \A s \in S : c \in ex1[s]
         /\ \A s \in Slots : c \in ex[s] => c \in ex1[s]
BY DEF LocksInv, KeepsOthers

\* Nor does it to give back those that one owns.
LEMMA DisownLocks ==
  ASSUME NEW ex, NEW sh, LocksInv(ex, sh), NEW c \in Conns, NEW S,
         \A s \in S : s \in Slots /\ c \in ex[s],
         NEW ex1, ex1 = [s \in Slots |-> IF s \in S THEN {} ELSE ex[s]]
  PROVE  /\ LocksInv(ex1, sh) /\ KeepsOthers(c, ex, sh, ex1, sh)
         /\ \A s \in Slots : s \notin S /\ c \in ex[s] => c \in ex1[s]
BY DEF LocksInv, KeepsOthers

\* Nor to share a lock that nobody owns, and to let it go.
LEMMA ShareLocks ==
  ASSUME NEW ex, NEW sh, LocksInv(ex, sh), NEW c \in Conns, NEW s \in Slots,
         NEW sh1,
         \/ ex[s] = {} /\ sh1 = [sh EXCEPT ![s] = @ \cup {c}]
         \/ sh1 = [sh EXCEPT ![s] = @ \ {c}]
  PROVE  LocksInv(ex, sh1) /\ KeepsOthers(c, ex, sh, ex, sh1)
BY DEF LocksInv, KeepsOthers

\* A lock that is owned has one owner and is shared by nobody.
LEMMA OneOwner ==
  ASSUME NEW ex, NEW sh, LocksInv(ex, sh), NEW s \in Slots, NEW c \in ex[s]
  PROVE  c \in Conns /\ ex[s] = {c} /\ sh[s] = {}
BY DEF LocksInv

\* Of a step of one connection it is enough to look at its own Wal object:
\* the header has one writer, and nobody moves a read-mark under a reader.
LEMMA OneMoves ==
  ASSUME IInv, NEW c \in Conns, NEW g, con' = [con EXCEPT ![c] = g],
         LocksInv(excl', share'), KeepsOthers(c, excl, share, excl', share'),
         ShmInv(shm'), LogInv',
         shm'.h0 = shm.h0 \/ c \in excl[WRITE_LOCK],
         \A i \in Readers : shm'.mark[i] = shm.mark[i] \/ share[READ_LOCK(i)] = {},
         ConInv(c, g, excl', share', shm')
  PROVE  IInv'
<1>1. con' = [d \in Conns |-> con'[d]] /\ con'[c] = g
      /\ \A d \in Conns : d # c => con'[d] = con[d]
  BY DEF IInv
<1>2. ASSUME NEW d \in Conns, d # c
      PROVE  ConInv(d, con[d], excl', share', shm')
  <2>1. ConInv(d, con[d], excl, share, shm) /\ LocksInv(excl, share)
    BY DEF IInv
  <2>2. Owns(con[d]) \subseteq Slots /\ READ_LOCK(con[d].slot) \in Slots
    BY <2>1, Bounds DEF ConInv, Owns, SlotInv, Slots, WRITE_LOCK, CKPT_LOCK, RECOVER_LOCK,
       READ_LOCK, ReadLocks, Readers
  <2>3. \A s \in Owns(con[d]) : d \in excl'[s]
    BY <1>2, <2>1, <2>2 DEF KeepsOthers, ConInv
  <2>4. Shares(con[d]) => d \in share'[READ_LOCK(con[d].slot)]
    BY <1>2, <2>1, <2>2 DEF KeepsOthers, ConInv
  <2>5. InWrite(con[d]) => shm'.h0 = shm.h0
    <3>1. InWrite(con[d]) => d \in excl[WRITE_LOCK]
      BY <2>1 DEF ConInv, Owns
    <3>2. WRITE_LOCK \in Slots
      BY Bounds DEF Slots, WRITE_LOCK
    <3>3. c \in excl[WRITE_LOCK] /\ d \in excl[WRITE_LOCK] => c = d
      BY <2>1, <3>2, OneOwner
    <3>4. QED
      BY <1>2, <3>1, <3>3
  <2>6. con[d].job = "txn" /\ con[d].slot # 0 =>
          shm'.mark[con[d].slot] = shm.mark[con[d].slot]
    <3>1. con[d].job = "txn" => d \in share[READ_LOCK(con[d].slot)]
      BY <2>1 DEF ConInv, Shares
    <3>2. con[d].slot # 0 => con[d].slot \in Readers
      BY <2>1, Bounds DEF ConInv, SlotInv, Readers
    <3>3. QED
      BY <3>1, <3>2
  <2>7. MarkInv(con[d], shm')
    BY <2>1, <2>5, <2>6 DEF ConInv, MarkInv, InWrite
  <2>8. QED
    BY <2>1, <2>3, <2>4, <2>7 DEF ConInv
<1>3. \A d \in Conns : ConInv(d, con'[d], excl', share', shm')
  BY <1>1, <1>2
<1>4. QED
  BY <1>1, <1>3 DEF IInv

\* What a connection knows, where it has nothing to write.
LEMMA DataKept ==
  ASSUME NEW g, DataInv(g), NEW h, GoodHdr(h.hdr), h.tmp = g.tmp, h.mode = g.mode,
         h.added = <<>>, h.mode # Passive => h.job = "ckpt",
         h.pc \in MarkPcs => h.mark \in 0..h.hdr.mx,
         h.pc \in SafePcs => h.safe \in 0..h.hdr.mx,
         h.pc = "mark" => h.i \in 1..NReader,
         h.pc = "header" => h.hdr.mx = 0
  PROVE  DataInv(h)
<1>1. IsASeq(<<>>) /\ Len(<<>>) = 0
  BY DEF IsASeq
<1>2. h.hdr.mx + 0 <= MaxFrame
  BY Bounds DEF GoodHdr
<1>3. AnyHdr(h.hdr) /\ AnyHdr(h.tmp)
  BY DEF DataInv, AnyHdr
<1>4. QED
  BY <1>1, <1>2, <1>3 DEF DataInv

\* The same where neither the wal-index nor a lock changes.
LEMMA JustMoves ==
  ASSUME IInv, NEW c \in Conns, NEW g, con' = [con EXCEPT ![c] = g],
         UNCHANGED <<shm, excl, share>>, LogInv', ConInv(c, g, excl, share, shm)
  PROVE  IInv'
<1>1. LocksInv(excl', share') /\ ShmInv(shm') /\ ConInv(c, g, excl', share', shm')
  BY DEF IInv
<1>2. KeepsOthers(c, excl, share, excl', share')
  BY DEF KeepsOthers
<1>3. QED
  BY <1>1, <1>2, OneMoves

\* Where the log stays as it is, so does what holds of it.
LEMMA SameLog ==
  ASSUME IInv, UNCHANGED log
  PROVE  LogInv'
BY DEF IInv, LogInv, SaltsInv, FramesInv, log

USE DEF RecoverPcs, HeaderPcs, MarkPcs, FramePcs, ResetPcs, CopyPcs, SafePcs, CkptPcs

-----------------------------------------------------------------------------
\* walIndexReadHdr() and walIndexRecover()

\* The first copy of the header is read.
LEMMA BeginReadStep ==
  ASSUME IInv, NEW c \in Conns, BeginRead(c)
  PROVE  IInv'
<1> DEFINE g == con[c]
           h == [g EXCEPT !.pc = "copy1", !.job = "begin", !.tmp = shm.h0]
<1>1. ConInv(c, g, excl, share, shm) /\ ShmInv(shm)
  BY DEF IInv
<1>2. con' = [con EXCEPT ![c] = h] /\ UNCHANGED <<shm, excl, share>> /\ UNCHANGED log
      /\ g.pc = "idle"
  BY DEF BeginRead, Put, At, locks
<1>3. ConInv(c, h, excl, share, shm)
  BY <1>1, <1>2 DEF ConInv, JobInv, SlotInv, DataInv, MarkInv, Owns, Shares, InWrite,
     ShmInv, Fields
<1>4. QED
  BY <1>2, <1>3, SameLog, JustMoves

\* The locks of the wal-index have numbers of their own.
LEMMA LockNumbers ==
  /\ {WRITE_LOCK, CKPT_LOCK, RECOVER_LOCK, READ_LOCK(0)} \cup ReadLocks \subseteq Slots
  /\ Cardinality({WRITE_LOCK, CKPT_LOCK, RECOVER_LOCK}) = Cardinality({0, 1, 2})
  /\ WRITE_LOCK # CKPT_LOCK /\ WRITE_LOCK # RECOVER_LOCK /\ CKPT_LOCK # RECOVER_LOCK
  /\ \A n \in Nat : READ_LOCK(n) \notin {WRITE_LOCK, CKPT_LOCK, RECOVER_LOCK}
  /\ READ_LOCK(0) \notin ReadLocks
  /\ \A i \in Readers : READ_LOCK(i) \in ReadLocks
  /\ \A i \in 0..NReader - 1 : READ_LOCK(i) \in Slots
BY Bounds DEF Slots, Readers, ReadLocks, WRITE_LOCK, CKPT_LOCK, RECOVER_LOCK, READ_LOCK

\* A call that ends leaves a connection that needs no lock.
LEMMA RestIsIdle ==
  ASSUME NEW c, NEW hdr, AnyHdr(hdr), NEW cache, NEW ex, NEW sh, NEW sm
  PROVE  ConInv(c, [Blank EXCEPT !.hdr = hdr, !.cache = cache], ex, sh, sm)
<1> DEFINE g == [Blank EXCEPT !.hdr = hdr, !.cache = cache]
<1>1. /\ g = [f \in Fields |-> g[f]] /\ g.pc = "idle" /\ g.job = "none" /\ g.hdr = hdr
      /\ g.tmp = NoHdr /\ g.slot = 0 /\ g.added = <<>> /\ g.mode = Passive
  BY DEF Blank, Fields
<1> HIDE DEF g
<1>2. JobInv(g) /\ SlotInv(g) /\ MarkInv(g, sm) /\ Owns(g) = {} /\ ~Shares(g)
  BY <1>1, Bounds DEF JobInv, SlotInv, MarkInv, Owns, Shares, InWrite
<1>3. hdr.mx <= MaxFrame /\ hdr.mx \in Int
  BY Bounds DEF AnyHdr, GoodHdr, NoHdr, Hdr
<1>4. DataInv(g)
  BY <1>1, <1>3 DEF DataInv, AnyHdr, IsASeq
<1>5. QED
  BY <1>1, <1>2, <1>4 DEF ConInv, g

\* A header was found.
LEMMA GotHdrStep ==
  ASSUME IInv, NEW c \in Conns, con[c].pc \in {"copy1", "badhdr"},
         NEW hdr, GoodHdr(hdr), GotHdr(c, hdr),
         UNCHANGED <<shm, excl, share>>, UNCHANGED log
  PROVE  IInv'
<1> DEFINE g == con[c]
           h == [g EXCEPT !.pc = IF g.job = "ckpt" THEN "start" ELSE "pick",
                  !.hdr = hdr, !.tmp = NoHdr,
                  !.cache = IF hdr # g.hdr /\ g.job = "begin" THEN NoImage ELSE g.cache,
                  !.changed = g.job = "ckpt" /\ hdr # g.hdr]
<1>1. ConInv(c, g, excl, share, shm) /\ ShmInv(shm)
  BY DEF IInv
<1>2. con' = [con EXCEPT ![c] = h]
  BY DEF GotHdr, Put
<1>3. /\ h = [f \in Fields |-> h[f]] /\ h.job = g.job /\ h.slot = g.slot
      /\ h.pc = IF g.job = "ckpt" THEN "start" ELSE "pick"
      /\ h.hdr = hdr /\ h.tmp = NoHdr /\ h.added = g.added /\ h.mode = g.mode
  <2>1. g = [f \in Fields |-> g[f]]
    BY <1>1 DEF ConInv
  <2>2. QED
    BY <2>1, ZenonT(30) DEF Fields
<1> HIDE DEF h, g
<1>4. g.job \in {"begin", "ckpt"} /\ g.slot = 0 /\ g.added = <<>> /\ g.pc \in {"copy1", "badhdr"}
  BY <1>1 DEF ConInv, JobInv, SlotInv, DataInv, g
<1>5. JobInv(h) /\ SlotInv(h) /\ MarkInv(h, shm) /\ Owns(h) = Owns(g) /\ ~Shares(h)
  BY <1>3, <1>4, Bounds DEF JobInv, SlotInv, MarkInv, Owns, Shares, InWrite
<1>6. DataInv(h)
  <2>1. /\ AnyHdr(h.hdr) /\ AnyHdr(h.tmp) /\ GoodHdr(h.hdr)
        /\ h.mode # Passive => h.job = "ckpt"
    BY <1>1, <1>3, <1>4 DEF ConInv, DataInv, AnyHdr
  <2>2. /\ h.added = <<>> /\ IsASeq(h.added) /\ h.hdr.mx + Len(h.added) <= MaxFrame
    BY <1>3, <1>4, Bounds DEF GoodHdr, IsASeq
  <2>3. h.pc \notin MarkPcs \cup SafePcs \cup {"header"}
    BY <1>3
  <2>4. QED
    BY <2>1, <2>2, <2>3 DEF DataInv
<1>7. ConInv(c, h, excl, share, shm)
  BY <1>1, <1>3, <1>5, <1>6 DEF ConInv
<1>8. QED
  BY <1>2, <1>7, SameLog, JustMoves

\* The two copies are compared.
LEMMA TryHdrStep ==
  ASSUME IInv, NEW c \in Conns, TryHdr(c)
  PROVE  IInv'
<1> DEFINE g == con[c]
           h == [g EXCEPT !.pc = "badhdr", !.tmp = NoHdr]
<1>1. ConInv(c, g, excl, share, shm) /\ ShmInv(shm)
  BY DEF IInv
<1>2. UNCHANGED <<shm, excl, share>> /\ UNCHANGED log /\ g.pc = "copy1"
  BY DEF TryHdr, At, locks
<1>3. CASE GotHdr(c, shm.h1) /\ shm.h1 # NoHdr
  BY <1>1, <1>2, <1>3, GotHdrStep DEF ShmInv, AnyHdr
<1>4. CASE Put(c, h)
  <2>1. ConInv(c, h, excl, share, shm)
    BY <1>1, <1>2 DEF ConInv, JobInv, SlotInv, DataInv, MarkInv, Owns, Shares, InWrite,
       AnyHdr, Fields
  <2>2. QED
    BY <1>2, <1>4, <2>1, SameLog, JustMoves DEF Put
<1>5. QED
  BY <1>3, <1>4 DEF TryHdr

\* With the write lock a bad header is read again, or recovered.
LEMMA BadHdrStep ==
  ASSUME IInv, NEW c \in Conns, BadHdr(c)
  PROVE  IInv'
<1> DEFINE g == con[c]
           h == [g EXCEPT !.pc = "recover"]
<1>1. ConInv(c, g, excl, share, shm) /\ ShmInv(shm) /\ LocksInv(excl, share)
  BY DEF IInv
<1>2. UNCHANGED <<shm, share>> /\ UNCHANGED log /\ g.pc = "badhdr"
  BY DEF BadHdr, At
<1>3. CASE shm.h0 # NoHdr /\ GotHdr(c, shm.h0) /\ UNCHANGED excl
  BY <1>1, <1>2, <1>3, GotHdrStep DEF ShmInv, AnyHdr
<1>4. CASE /\ \A s \in RecoveryLocks(c) : CanOwn(s)
           /\ HoldsWrite(c) \/ CanOwn(WRITE_LOCK)
           /\ Own(c, RecoveryLocks(c) \cup {WRITE_LOCK})
           /\ Goto(c, "recover")
  <2> DEFINE S == RecoveryLocks(c) \cup {WRITE_LOCK}
  <2>1. \A s \in S : s \in Slots /\ (c \in excl[s] \/ (excl[s] = {} /\ share[s] = {}))
    BY <1>1, <1>4, LockNumbers DEF RecoveryLocks, CanOwn, HoldsWrite, ConInv, Owns
  <2>2. /\ LocksInv(excl', share') /\ KeepsOthers(c, excl, share, excl', share')
        /\ \A s \in S : c \in excl'[s]
        /\ \A s \in Slots : c \in excl[s] => c \in excl'[s]
    <3>1. excl' = [s \in Slots |-> IF s \in S THEN {c} ELSE excl[s]] /\ share' = share
      BY <1>2, <1>4 DEF Own
    <3> HIDE DEF S
    <3>2. QED
      BY <1>1, <2>1, <3>1, OwnLocks
  <2>3. /\ h = [f \in Fields |-> h[f]] /\ h.pc = "recover"
        /\ \A f \in Fields \ {"pc"} : h[f] = g[f]
    BY <1>1 DEF ConInv, Fields
  <2>4. /\ h.job = g.job /\ h.slot = g.slot /\ h.hdr = g.hdr /\ h.tmp = g.tmp
        /\ h.added = g.added /\ h.mode = g.mode
    BY <2>3 DEF Fields
  <2> HIDE DEF h
  <2>5. JobInv(h) /\ SlotInv(h) /\ DataInv(h) /\ MarkInv(h, shm') /\ ~Shares(h)
    BY <1>1, <1>2, <2>3, <2>4 DEF ConInv, JobInv, SlotInv, DataInv, MarkInv, InWrite, Shares
  <2>6. \A s \in Owns(h) : c \in excl'[s]
    <3>1. g.job \in {"begin", "ckpt"}
      BY <1>1, <1>2 DEF ConInv, JobInv
    <3>2. Owns(h) = {WRITE_LOCK, CKPT_LOCK, RECOVER_LOCK}
      BY <2>3, <2>4, <3>1 DEF Owns, InWrite
    <3>3. g.job = "ckpt" => c \in excl[CKPT_LOCK]
      BY <1>1 DEF ConInv, Owns
    <3>4. g.job = "begin" => CKPT_LOCK \in S
      BY DEF RecoveryLocks
    <3>5. QED
      BY <2>2, <3>1, <3>2, <3>3, <3>4, LockNumbers DEF RecoveryLocks
  <2>7. ConInv(c, h, excl', share', shm')
    BY <2>3, <2>5, <2>6 DEF ConInv
  <2>8. QED
    BY <1>1, <1>2, <1>4, <2>2, <2>7, SameLog, OneMoves DEF Goto, h
<1>5. QED
  BY <1>3, <1>4 DEF BadHdr

\* The locks of a checkpoint are given back.
LEMMA EndCkptLocksIs ==
  ASSUME IInv, NEW c \in Conns, con[c].job = "ckpt", EndCkptLocks(c), share' = share
  PROVE  LocksInv(excl', share') /\ KeepsOthers(c, excl, share, excl', share')
<1> DEFINE S == {CKPT_LOCK} \cup (IF HoldsWrite(c) THEN {WRITE_LOCK} ELSE {})
<1>1. ConInv(c, con[c], excl, share, shm) /\ LocksInv(excl, share)
  BY DEF IInv
<1>2. \A s \in S : s \in Slots /\ c \in excl[s]
  BY <1>1, LockNumbers DEF ConInv, Owns, HoldsWrite
<1>3. excl' = [s \in Slots |-> IF s \in S THEN {} ELSE excl[s]]
  BY DEF EndCkptLocks, Disown
<1> HIDE DEF S
<1>4. QED
  BY <1>1, <1>2, <1>3, DisownLocks

\* The header could not be had: the call ends, or the checkpoint.
LEMMA BadHdrBusyStep ==
  ASSUME IInv, NEW c \in Conns, BadHdrBusy(c)
  PROVE  IInv'
<1> DEFINE h == [Blank EXCEPT !.hdr = con[c].hdr, !.cache = NoImage]
<1>1. ConInv(c, con[c], excl, share, shm) /\ LocksInv(excl, share) /\ ShmInv(shm)
  BY DEF IInv
<1>2. con' = [con EXCEPT ![c] = h] /\ UNCHANGED <<shm, share>> /\ UNCHANGED log
  BY DEF BadHdrBusy, GiveUp, Rest
<1>3. ConInv(c, h, excl', share', shm')
  <2>1. AnyHdr(con[c].hdr)
    BY <1>1 DEF ConInv, DataInv
  <2>2. QED
    BY <2>1, RestIsIdle
<1> HIDE DEF h
<1>4. LocksInv(excl', share') /\ KeepsOthers(c, excl, share, excl', share')
  <2>1. CASE con[c].job = "ckpt"
    BY <1>2, <2>1, EndCkptLocksIs DEF BadHdrBusy
  <2>2. CASE con[c].job # "ckpt"
    BY <1>1, <1>2, <2>2 DEF BadHdrBusy, KeepsOthers
  <2>3. QED
    BY <2>1, <2>2
<1>5. QED
  BY <1>1, <1>2, <1>3, <1>4, SameLog, OneMoves

\* A frame of the log file that walIndexRecover() accepts.
Fits(salt, frames, n) ==
  /\ salt # 0 /\ frames[n].salt = salt
  /\ frames[n].sum = [i \in 1..n |-> Body(frames[i])]

\* What walIndexRecover() finds: the frames that fit up to the first that does
\* not, and of these the last that commits.
IsRecovered(r, salt, frames, last) ==
  /\ \A n \in 1..last : Fits(salt, frames, n)
  /\ last = MaxFrame \/ ~Fits(salt, frames, last + 1)
  /\ r.idx = [n \in 1..last |-> frames[n].pg]
  /\ GoodHdr(r.hdr) /\ r.hdr.salt = salt /\ r.hdr.mx \in 0..last
  /\ r.hdr.mx = 0 \/ frames[r.hdr.mx].com
  /\ \A n \in 1..last : frames[n].com => n <= r.hdr.mx
  /\ r.hdr.sum = IF r.hdr.mx = 0 THEN <<>> ELSE frames[r.hdr.mx].sum
  /\ r = [hdr |-> r.hdr, idx |-> r.idx] /\ r.hdr.chg = 0

LEMMA RecoveredIs ==
  ASSUME NEW salt \in Nat, NEW frames
  PROVE  \E last \in 0..MaxFrame : IsRecovered(Recovered(salt, frames), salt, frames, last)
<1> DEFINE bad == {n \in Frames : ~Fits(salt, frames, n)}
           last == IF bad = {} THEN MaxFrame ELSE Min(bad) - 1
           S == {0} \cup {n \in 1..last : frames[n].com}
           mx == Max(S)
           r == Recovered(salt, frames)
<1>1. /\ r.hdr = Hdr(salt, mx, IF mx = 0 THEN <<>> ELSE frames[mx].sum, 0)
      /\ r.idx = [n \in 1..last |-> frames[n].pg]
      /\ r = [hdr |-> r.hdr, idx |-> r.idx]
  BY DEF Recovered, Fits
<1>2. /\ last \in 0..MaxFrame
      /\ \A n \in 1..last : n \notin bad
      /\ last = MaxFrame \/ last + 1 \in bad
  <2>1. CASE bad = {}
    BY <2>1, Bounds
  <2>2. CASE bad # {}
    <3>1. bad \in SUBSET Nat /\ bad \subseteq Frames
      BY Bounds DEF Frames
    <3> HIDE DEF bad
    <3>2. Min(bad) \in bad /\ \A y \in bad : Min(bad) <= y
      BY <2>2, <3>1, MinOfNat
    <3>3. Min(bad) \in 1..MaxFrame
      BY <3>1, <3>2 DEF Frames
    <3>4. QED
      BY <2>2, <3>1, <3>2, <3>3, Bounds
  <2>3. QED
    BY <2>1, <2>2
<1>3. \A n \in Frames : n \in bad <=> ~Fits(salt, frames, n)
  OBVIOUS
<1> HIDE DEF bad, r
<1> DEFINE k == last
<1>4. k \in 0..MaxFrame
  BY <1>2
<1> HIDE DEF k
<1>5. mx \in S /\ \A y \in S : y <= mx
  <2>1. S = {0} \cup {n \in 1..k : frames[n].com}
    BY DEF k
  <2>2. k \in Nat /\ S \in SUBSET (0..k) /\ S # {}
    BY <1>4, <2>1, Bounds
  <2> HIDE DEF S
  <2>3. QED
    BY <2>2, MaxOfUpTo
<1>6. mx \in 0..k /\ (mx = 0 \/ frames[mx].com) /\ \A n \in 1..k : frames[n].com => n <= mx
  BY <1>4, <1>5, Bounds DEF k
<1> HIDE DEF mx
<1>7. /\ r.hdr.salt = salt /\ r.hdr.mx = mx /\ r.hdr.chg = 0
      /\ r.hdr.sum = IF mx = 0 THEN <<>> ELSE frames[mx].sum
      /\ GoodHdr(r.hdr)
  BY <1>1, <1>4, <1>6, Bounds DEF GoodHdr, Hdr
<1>8. /\ \A n \in 1..k : Fits(salt, frames, n)
      /\ k = MaxFrame \/ ~Fits(salt, frames, k + 1)
      /\ r.idx = [n \in 1..k |-> frames[n].pg]
  BY <1>1, <1>2, <1>3, <1>4, Bounds DEF k, Frames
<1>9. IsRecovered(r, salt, frames, k)
  BY <1>1, <1>4, <1>6, <1>7, <1>8 DEF IsRecovered
<1>10. QED
  BY <1>4, <1>9 DEF r

\* The second copy of a new header, and the index with it.
LEMMA RecoverStep ==
  ASSUME IInv, NEW c \in Conns, Recover(c)
  PROVE  IInv'
<1> DEFINE g == con[c]
           r == Recovered(whdr.cur, Cur(wal))
           h == [g EXCEPT !.pc = "recover0", !.hdr = r.hdr]
<1>1. ConInv(c, g, excl, share, shm) /\ LocksInv(excl, share) /\ ShmInv(shm)
  BY DEF IInv
<1>2. /\ con' = [con EXCEPT ![c] = h] /\ UNCHANGED <<excl, share>> /\ UNCHANGED log
      /\ shm' = [shm EXCEPT !.h1 = r.hdr, !.idx = r.idx] /\ g.pc = "recover"
  BY DEF Recover, Put, At, locks
<1>3. PICK last \in 0..MaxFrame : IsRecovered(r, whdr.cur, Cur(wal), last)
  BY RecoveredIs DEF IInv, LogInv, SaltsInv
<1> HIDE DEF r
<1>4. IsASeq(r.idx) /\ Len(r.idx) <= MaxFrame
  BY <1>3, Bounds DEF IsASeq, IsRecovered
<1>5. ShmInv(shm') /\ shm'.h0 = shm.h0 /\ shm'.mark = shm.mark
  BY <1>1, <1>2, <1>3, <1>4 DEF ShmInv, AnyHdr, IsRecovered
<1>6. /\ h = [f \in Fields |-> h[f]] /\ h.pc = "recover0" /\ h.job = g.job /\ h.slot = g.slot
      /\ h.hdr = r.hdr /\ h.tmp = g.tmp /\ h.added = g.added /\ h.mode = g.mode
  BY <1>1 DEF ConInv, Fields
<1> HIDE DEF h
<1>7. JobInv(h) /\ SlotInv(h) /\ Owns(h) = Owns(g) /\ ~Shares(h) /\ ~InWrite(h)
  BY <1>1, <1>2, <1>6 DEF ConInv, JobInv, SlotInv, Owns, Shares, InWrite
<1>8. DataInv(h)
  <2>1. DataInv(g) /\ g.added = <<>>
    BY <1>1, <1>2 DEF ConInv, DataInv
  <2>2. h.hdr.mx \in 0..MaxFrame /\ GoodHdr(h.hdr)
    BY <1>3, <1>6 DEF GoodHdr, IsRecovered
  <2>3. h.hdr.mx + Len(h.added) <= MaxFrame
    BY <1>6, <2>1, <2>2, Bounds
  <2>4. QED
    BY <1>6, <2>1, <2>2, <2>3 DEF DataInv, AnyHdr
<1>9. ConInv(c, h, excl', share', shm')
  BY <1>1, <1>2, <1>6, <1>7, <1>8 DEF ConInv, MarkInv, JobInv
<1>10. LocksInv(excl', share') /\ KeepsOthers(c, excl, share, excl', share')
  BY <1>1, <1>2 DEF KeepsOthers
<1>11. QED
  BY <1>2, <1>5, <1>9, <1>10, SameLog, OneMoves

\* The first copy.
LEMMA RecoverHdrStep ==
  ASSUME IInv, NEW c \in Conns, RecoverHdr(c)
  PROVE  IInv'
<1> DEFINE g == con[c]
           h == [g EXCEPT !.pc = "recover1"]
<1>1. ConInv(c, g, excl, share, shm) /\ LocksInv(excl, share) /\ ShmInv(shm)
  BY DEF IInv
<1>2. /\ con' = [con EXCEPT ![c] = h] /\ UNCHANGED <<excl, share>> /\ UNCHANGED log
      /\ shm' = [shm EXCEPT !.h0 = g.hdr] /\ g.pc = "recover0"
  BY DEF RecoverHdr, Goto, At, locks
<1>3. ShmInv(shm') /\ shm'.mark = shm.mark
  BY <1>1, <1>2 DEF ShmInv, ConInv, DataInv
<1>4. c \in excl[WRITE_LOCK]
  BY <1>1, <1>2 DEF ConInv, Owns
<1>5. /\ h = [f \in Fields |-> h[f]] /\ h.pc = "recover1" /\ h.job = g.job /\ h.slot = g.slot
      /\ h.hdr = g.hdr /\ h.tmp = g.tmp /\ h.added = g.added /\ h.mode = g.mode
  BY <1>1 DEF ConInv, Fields
<1> HIDE DEF h
<1>6. JobInv(h) /\ SlotInv(h) /\ Owns(h) = Owns(g) /\ ~Shares(h) /\ ~InWrite(h)
  BY <1>1, <1>2, <1>5 DEF ConInv, JobInv, SlotInv, Owns, Shares, InWrite
<1>7. DataInv(h)
  BY <1>1, <1>2, <1>5 DEF ConInv, DataInv
<1>8. ConInv(c, h, excl', share', shm')
  BY <1>1, <1>2, <1>5, <1>6, <1>7 DEF ConInv, MarkInv, JobInv
<1>9. LocksInv(excl', share') /\ KeepsOthers(c, excl, share, excl', share')
  BY <1>1, <1>2 DEF KeepsOthers
<1>10. QED
  BY <1>2, <1>3, <1>4, <1>8, <1>9, SameLog, OneMoves

\* nBackfill and the read-marks; the locks of the recovery are given back.
LEMMA RecoverInfoStep ==
  ASSUME IInv, NEW c \in Conns, RecoverInfo(c)
  PROVE  IInv'
<1> DEFINE g == con[c]
           mark == [i \in Readers |-> IF CanOwn(READ_LOCK(i))
                                      THEN Unused(con[c].hdr.mx)[i] ELSE shm.mark[i]]
           S == RecoveryLocks(c) \cup (IF HoldsWrite(c) THEN {} ELSE {WRITE_LOCK})
           h == [g EXCEPT !.pc = IF g.job = "ckpt" THEN "start" ELSE "pick",
                          !.cache = IF g.job = "begin" THEN NoImage ELSE g.cache,
                          !.changed = g.job = "ckpt"]
<1>1. ConInv(c, g, excl, share, shm) /\ LocksInv(excl, share) /\ ShmInv(shm)
  BY DEF IInv
<1>2. /\ con' = [con EXCEPT ![c] = h] /\ share' = share /\ UNCHANGED log
      /\ excl' = [s \in Slots |-> IF s \in S THEN {} ELSE excl[s]]
      /\ shm' = [shm EXCEPT !.back = 0, !.mark = mark] /\ g.pc = "recover1"
  BY DEF RecoverInfo, Put, At, Disown
<1>3. g.job \in {"begin", "ckpt"} /\ g.slot = 0 /\ g.added = <<>> /\ GoodHdr(g.hdr)
      /\ c \in excl[WRITE_LOCK] /\ c \in excl[CKPT_LOCK] /\ c \in excl[RECOVER_LOCK]
  BY <1>1, <1>2 DEF ConInv, JobInv, SlotInv, DataInv, Owns
<1>4. /\ LocksInv(excl', share') /\ KeepsOthers(c, excl, share, excl', share')
      /\ \A s \in Slots : s \notin S /\ c \in excl[s] => c \in excl'[s]
  <2>1. \A s \in S : s \in Slots /\ c \in excl[s]
    BY <1>3, LockNumbers DEF RecoveryLocks
  <2> HIDE DEF S
  <2>2. QED
    BY <1>1, <1>2, <2>1, DisownLocks
<1>5. mark \in [Readers -> 0..READMARK_NOT_USED]
  BY <1>1, <1>3, Bounds DEF ShmInv, Unused, READMARK_NOT_USED, GoodHdr
<1>6. \A i \in Readers : mark[i] = shm.mark[i] \/ share[READ_LOCK(i)] = {}
  BY DEF CanOwn
<1> HIDE DEF mark
<1>7. ShmInv(shm') /\ shm'.h0 = shm.h0 /\ shm'.mark = mark
  <2>1. shm' = [h0 |-> shm.h0, h1 |-> shm.h1, back |-> 0, mark |-> mark, idx |-> shm.idx]
    BY <1>1, <1>2 DEF ShmInv
  <2>2. QED
    BY <1>1, <1>5, <2>1, Bounds DEF ShmInv
<1>8. /\ h = [f \in Fields |-> h[f]] /\ h.job = g.job /\ h.slot = g.slot
      /\ h.pc = IF g.job = "ckpt" THEN "start" ELSE "pick"
      /\ h.hdr = g.hdr /\ h.tmp = g.tmp /\ h.added = g.added /\ h.mode = g.mode
  BY <1>1 DEF ConInv, Fields
<1> HIDE DEF h
<1>9. JobInv(h) /\ SlotInv(h) /\ ~Shares(h) /\ ~InWrite(h)
  BY <1>3, <1>8, Bounds DEF JobInv, SlotInv, Shares, InWrite
<1>10. \A s \in Owns(h) : c \in excl'[s]
  <2>1. \A s \in Owns(h) : s \in Slots /\ c \in excl[s] /\ s \notin S
    BY <1>3, <1>8, <1>9, LockNumbers DEF Owns, RecoveryLocks, HoldsWrite
  <2>2. QED
    BY <1>4, <2>1
<1>11. DataInv(h)
  BY <1>1, <1>2, <1>3, <1>8 DEF ConInv, DataInv
<1>12. ConInv(c, h, excl', share', shm')
  BY <1>3, <1>8, <1>9, <1>10, <1>11 DEF ConInv, MarkInv
<1>13. QED
  BY <1>2, <1>4, <1>6, <1>7, <1>12, SameLog, OneMoves

-----------------------------------------------------------------------------
\* walTryBeginRead()

\* WAL_RETRY: back to the beginning.
LEMMA RetryIs ==
  ASSUME IInv, NEW c \in Conns, Retry(c), con[c].job \in {"begin", "again"},
         con[c].pc \in {"pick", "check0"} \cup MarkPcs,
         \A s \in Slots : c \in excl[s] => c \in excl'[s], shm'.h0 = shm.h0
  PROVE  \E h : con' = [con EXCEPT ![c] = h] /\ ConInv(c, h, excl', share', shm')
<1> DEFINE g == con[c]
           h == [g EXCEPT !.pc = "pick", !.slot = 0, !.mark = 0]
           i == [Blank EXCEPT !.hdr = g.hdr, !.cache = g.cache]
<1>1. ConInv(c, g, excl, share, shm)
  BY DEF IInv
<1>2. CASE g.job = "again" /\ con' = [con EXCEPT ![c] = h]
  <2>1. /\ h = [f \in Fields |-> h[f]] /\ h.job = g.job /\ h.slot = 0 /\ h.pc = "pick"
        /\ h.hdr = g.hdr /\ h.tmp = g.tmp /\ h.added = g.added /\ h.mode = g.mode
    BY <1>1 DEF ConInv, Fields
  <2> HIDE DEF h
  <2>2. JobInv(h) /\ SlotInv(h) /\ ~Shares(h) /\ InWrite(h) /\ InWrite(g) /\ Owns(h) = {WRITE_LOCK}
    <3>1. JobInv(g) /\ SlotInv(g)
      BY <1>1 DEF ConInv
    <3>2. InWrite(h) /\ InWrite(g) /\ ~Shares(h) /\ SlotInv(h)
      BY <1>2, <2>1, Bounds DEF Shares, InWrite, SlotInv
    <3>3. JobInv(h)
      BY <1>2, <2>1, <3>1 DEF JobInv
    <3>4. Owns(h) = {WRITE_LOCK}
      BY <1>2, <2>1 DEF Owns, InWrite
    <3>5. QED
      BY <3>2, <3>3, <3>4
  <2>3. DataInv(h)
    BY <1>1, <1>2, <2>1 DEF ConInv, DataInv
  <2>4. MarkInv(h, shm')
    BY <1>1, <1>2, <2>1, <2>2 DEF ConInv, MarkInv
  <2>5. c \in excl'[WRITE_LOCK]
    BY <1>1, <2>2, LockNumbers DEF ConInv, Owns
  <2>6. QED
    BY <1>2, <2>1, <2>2, <2>3, <2>4, <2>5 DEF ConInv
<1>3. CASE con' = [con EXCEPT ![c] = i]
  <2>1. AnyHdr(g.hdr)
    BY <1>1 DEF ConInv, DataInv
  <2>2. ConInv(c, i, excl', share', shm')
    BY <2>1, RestIsIdle
  <2>3. QED
    BY <1>3, <2>2
<1>4. QED
  BY <1>2, <1>3 DEF Retry, Put, Rest

\* The same where nothing but a lock on the wal-index changes.
LEMMA RetryStep ==
  ASSUME IInv, NEW c \in Conns, Retry(c), con[c].job \in {"begin", "again"},
         con[c].pc \in {"pick", "check0"} \cup MarkPcs,
         UNCHANGED <<shm, excl>>, UNCHANGED log,
         LocksInv(excl, share'), KeepsOthers(c, excl, share, excl, share')
  PROVE  IInv'
<1>1. PICK h : con' = [con EXCEPT ![c] = h] /\ ConInv(c, h, excl', share', shm')
  BY RetryIs
<1>2. ShmInv(shm')
  BY DEF IInv
<1>3. QED
  BY <1>1, <1>2, SameLog, OneMoves

\* The transaction is open.
LEMMA OpenedStep ==
  ASSUME IInv, NEW c \in Conns, con[c].pc \in {"check0", "verify"},
         shm.h0 = con[c].hdr,
         con[c].slot # 0 => shm.mark[con[c].slot] <= con[c].hdr.mx,
         NEW min, Opened(c, con[c].slot, min),
         UNCHANGED <<shm, excl, share>>, UNCHANGED log
  PROVE  IInv'
<1> DEFINE g == con[c]
           now == Image(min, IF g.slot = 0 THEN 0 ELSE g.hdr.mx)
           h == [g EXCEPT !.pc = IF g.job = "again" THEN ToWrite(g) ELSE "read",
             !.job = "txn", !.slot = g.slot, !.min = min, !.mark = 0,
             !.cache = IF g.cache = NoImage THEN now ELSE g.cache]
<1>1. ConInv(c, g, excl, share, shm) /\ ShmInv(shm)
  BY DEF IInv
<1>2. con' = [con EXCEPT ![c] = h]
  BY DEF Opened, Put
<1>3. /\ h = [f \in Fields |-> h[f]] /\ h.job = "txn" /\ h.slot = g.slot
      /\ h.pc = IF g.job = "again" THEN ToWrite(g) ELSE "read"
      /\ h.hdr = g.hdr /\ h.tmp = g.tmp /\ h.added = g.added /\ h.mode = g.mode
  <2> HIDE DEF now
  <2>1. g = [f \in Fields |-> g[f]]
    BY <1>1 DEF ConInv
  <2>2. QED
    BY <2>1, ZenonT(30) DEF Fields
<1> HIDE DEF h
<1>4. ToWrite(g) \in {"header", "frame"} /\ (ToWrite(g) = "header" => g.hdr.mx = 0)
  BY DEF ToWrite
<1>5. /\ g.job \in {"begin", "again"} /\ g.added = <<>> /\ GoodHdr(g.hdr) /\ g.mode = Passive
      /\ g.job = "again" => g.slot # 0 /\ c \in excl[WRITE_LOCK]
  BY <1>1 DEF ConInv, JobInv, SlotInv, DataInv, Owns, InWrite
<1>6. JobInv(h) /\ SlotInv(h) /\ Owns(h) \subseteq Owns(g) /\ Shares(g)
  BY <1>1, <1>3, <1>4, <1>5 DEF ConInv, JobInv, SlotInv, Owns, Shares, InWrite
<1>7. DataInv(h)
  BY <1>1, <1>3, <1>4, <1>5 DEF ConInv, DataInv
<1>8. MarkInv(h, shm)
  BY <1>3, <1>5 DEF MarkInv, InWrite, GoodHdr
<1>9. ConInv(c, h, excl, share, shm)
  BY <1>1, <1>3, <1>6, <1>7, <1>8 DEF ConInv
<1>10. QED
  BY <1>2, <1>9, SameLog, JustMoves

\* A reader that ignores the log shares the first of the read-locks.
LEMMA PickDbStep ==
  ASSUME IInv, NEW c \in Conns, PickDb(c)
  PROVE  IInv'
<1> DEFINE g == con[c]
           h == [g EXCEPT !.pc = "check0"]
           s == READ_LOCK(0)
<1>1. ConInv(c, g, excl, share, shm) /\ LocksInv(excl, share) /\ ShmInv(shm)
  BY DEF IInv
<1>2. /\ con' = [con EXCEPT ![c] = h] /\ UNCHANGED <<shm, excl>> /\ UNCHANGED log
      /\ g.pc = "pick" /\ g.job = "begin"
      /\ excl[s] = {} /\ share' = [share EXCEPT ![s] = @ \cup {c}] /\ s \in Slots
  BY LockNumbers DEF PickDb, Goto, At, CanShare, Share
<1> HIDE DEF s
<1>3. LocksInv(excl', share') /\ KeepsOthers(c, excl, share, excl', share')
  BY <1>1, <1>2, ShareLocks
<1>4. c \in share'[s]
  BY <1>1, <1>2 DEF LocksInv
<1>5. /\ h = [f \in Fields |-> h[f]] /\ h.pc = "check0" /\ h.job = g.job /\ h.slot = g.slot
      /\ h.hdr = g.hdr /\ h.tmp = g.tmp /\ h.added = g.added /\ h.mode = g.mode
  BY <1>1 DEF ConInv, Fields
<1> HIDE DEF h
<1>6. JobInv(h) /\ SlotInv(h) /\ Owns(h) = Owns(g) /\ h.slot = 0
  BY <1>1, <1>2, <1>5 DEF ConInv, JobInv, SlotInv, Owns, InWrite
<1>7. DataInv(h) /\ MarkInv(h, shm)
  BY <1>1, <1>2, <1>5 DEF ConInv, DataInv, MarkInv, InWrite
<1>8. ConInv(c, h, excl', share', shm')
  BY <1>1, <1>2, <1>4, <1>5, <1>6, <1>7 DEF ConInv, s
<1>9. QED
  BY <1>1, <1>2, <1>3, <1>8, SameLog, OneMoves

\* If the header is still the same, it may read.
LEMMA CheckDbStep ==
  ASSUME IInv, NEW c \in Conns, CheckDb(c)
  PROVE  IInv'
<1>1. ConInv(c, con[c], excl, share, shm) /\ LocksInv(excl, share) /\ ShmInv(shm)
  BY DEF IInv
<1>2. UNCHANGED <<shm, excl>> /\ UNCHANGED log /\ con[c].pc = "check0"
      /\ con[c].job = "begin" /\ con[c].slot = 0
  BY <1>1 DEF CheckDb, At, ConInv, JobInv, SlotInv
<1>3. CASE shm.h0 = con[c].hdr /\ Opened(c, 0, 1) /\ UNCHANGED share
  BY <1>2, <1>3, OpenedStep
<1>4. CASE Unshare(c, READ_LOCK(0)) /\ Retry(c)
  <2>1. LocksInv(excl, share') /\ KeepsOthers(c, excl, share, excl, share')
    BY <1>1, <1>4, LockNumbers, ShareLocks DEF Unshare
  <2>2. QED
    BY <1>2, <1>4, <2>1, RetryStep
<1>5. QED
  BY <1>3, <1>4 DEF CheckDb

\* A read-mark is picked, or one that no reader is on is set.
LEMMA PickMarkStep ==
  ASSUME IInv, NEW c \in Conns, PickMark(c)
  PROVE  IInv'
<1> DEFINE g == con[c]
           mx == g.hdr.mx
           low == {i \in Readers : shm.mark[i] <= mx}
           top == Max({0} \cup {shm.mark[i] : i \in low})
           best == Max({0} \cup {i \in low : shm.mark[i] = top})
           free == {i \in Readers : CanOwn(READ_LOCK(i))}
           pick(i, mark) == Put(c, [g EXCEPT !.pc = "lockmark", !.slot = i, !.mark = mark])
<1>1. ConInv(c, g, excl, share, shm) /\ LocksInv(excl, share) /\ ShmInv(shm)
  BY DEF IInv
<1>2. UNCHANGED <<excl, share>> /\ UNCHANGED log /\ g.pc = "pick"
  BY DEF PickMark, At, locks
<1>3. \/ /\ free # {} /\ shm' = [shm EXCEPT !.mark[Min(free)] = mx]
         /\ pick(Min(free), mx)
      \/ best = 0 /\ Retry(c) /\ UNCHANGED shm
      \/ best # 0 /\ pick(best, top) /\ UNCHANGED shm
  BY DEF PickMark
<1>4. /\ g.job \in {"begin", "again"} /\ mx \in 0..MaxFrame /\ g.added = <<>>
      /\ g.mode = Passive /\ g.slot = 0 /\ GoodHdr(g.hdr)
  BY <1>1, <1>2 DEF ConInv, JobInv, SlotInv, DataInv, GoodHdr
<1>5. KeepsOthers(c, excl, share, excl', share') /\ LocksInv(excl', share')
  BY <1>1, <1>2 DEF KeepsOthers
<1>6. ASSUME NEW i \in Readers, NEW mark \in 0..mx, pick(i, mark), ShmInv(shm'),
             shm'.h0 = shm.h0,
             \A j \in Readers : shm'.mark[j] = shm.mark[j] \/ share[READ_LOCK(j)] = {}
      PROVE  IInv'
  <2> DEFINE h == [g EXCEPT !.pc = "lockmark", !.slot = i, !.mark = mark]
  <2>1. /\ h = [f \in Fields |-> h[f]] /\ h.pc = "lockmark" /\ h.slot = i /\ h.mark = mark
        /\ h.job = g.job /\ h.hdr = g.hdr /\ h.tmp = g.tmp /\ h.added = g.added /\ h.mode = g.mode
    BY <1>1 DEF ConInv, Fields
  <2>2. con' = [con EXCEPT ![c] = h]
    BY <1>6 DEF Put
  <2> HIDE DEF h
  <2>3. JobInv(h) /\ SlotInv(h) /\ Owns(h) = Owns(g) /\ ~Shares(h) /\ (InWrite(h) <=> InWrite(g))
    BY <1>2, <1>4, <2>1, Bounds DEF JobInv, SlotInv, Owns, Shares, InWrite, Readers
  <2>4. DataInv(h)
    BY <1>1, <1>4, <2>1 DEF ConInv, DataInv
  <2>5. MarkInv(h, shm')
    BY <1>1, <1>2, <1>4, <1>6, <2>1, <2>3 DEF ConInv, MarkInv
  <2>6. ConInv(c, h, excl', share', shm')
    BY <1>1, <1>2, <2>1, <2>3, <2>4, <2>5 DEF ConInv
  <2>7. QED
    BY <1>2, <1>5, <1>6, <2>2, <2>6, SameLog, OneMoves
<1>7. CASE /\ free # {} /\ shm' = [shm EXCEPT !.mark[Min(free)] = mx]
           /\ pick(Min(free), mx)
  <2>1. Min(free) \in free
    <3>1. free \in SUBSET Nat
      BY Bounds DEF Readers
    <3> HIDE DEF free
    <3>2. QED
      BY <1>7, <3>1, MinOfNat
  <2> DEFINE i == Min(free)
  <2>2. i \in Readers /\ share[READ_LOCK(i)] = {}
    BY <2>1 DEF CanOwn
  <2> HIDE DEF i, free, pick
  <2>3. /\ shm' = [h0 |-> shm.h0, h1 |-> shm.h1, back |-> shm.back,
                   mark |-> [shm.mark EXCEPT ![i] = mx], idx |-> shm.idx]
        /\ pick(i, mx)
    BY <1>1, <1>7 DEF ShmInv, i
  <2>4. shm'.mark \in [Readers -> 0..READMARK_NOT_USED]
    BY <1>1, <1>4, <2>2, <2>3, Bounds DEF ShmInv, READMARK_NOT_USED
  <2>5. \A j \in Readers : shm'.mark[j] = shm.mark[j] \/ share[READ_LOCK(j)] = {}
    BY <1>1, <2>2, <2>3 DEF ShmInv
  <2>6. ShmInv(shm') /\ shm'.h0 = shm.h0
    BY <1>1, <2>3, <2>4 DEF ShmInv
  <2>7. QED
    BY <1>4, <1>6, <2>2, <2>3, <2>5, <2>6
<1>8. CASE best = 0 /\ Retry(c) /\ UNCHANGED shm
  BY <1>1, <1>2, <1>4, <1>5, <1>8, RetryStep
<1>9. CASE best # 0 /\ pick(best, top) /\ UNCHANGED shm
  <2>1. top \in 0..mx
    <3> DEFINE S == {0} \cup {shm.mark[i] : i \in low}
    <3>1. mx \in Nat /\ S \in SUBSET (0..mx) /\ S # {}
      BY <1>1, <1>4, Bounds DEF ShmInv, READMARK_NOT_USED
    <3> HIDE DEF S
    <3>2. Max(S) \in S
      BY <3>1, MaxOfUpTo
    <3>3. QED
      BY <3>1, <3>2 DEF S
  <2>2. best \in Readers
    <3> DEFINE S == {0} \cup {i \in low : shm.mark[i] = top}
    <3>1. NReader \in Nat /\ S \in SUBSET (0..NReader) /\ S # {} /\ S \subseteq Readers \cup {0}
      BY Bounds DEF Readers
    <3> HIDE DEF S
    <3>2. Max(S) \in S
      BY <3>1, MaxOfUpTo
    <3>3. QED
      BY <1>9, <3>1, <3>2 DEF S
  <2> HIDE DEF best, top, pick
  <2>3. QED
    BY <1>1, <1>6, <1>9, <2>1, <2>2
<1>10. QED
  BY <1>3, <1>7, <1>8, <1>9

\* The read-lock of the mark is shared.
LEMMA LockMarkStep ==
  ASSUME IInv, NEW c \in Conns, LockMark(c)
  PROVE  IInv'
<1> DEFINE g == con[c]
           h == [g EXCEPT !.pc = "min"]
           s == READ_LOCK(g.slot)
<1>1. ConInv(c, g, excl, share, shm) /\ LocksInv(excl, share) /\ ShmInv(shm)
  BY DEF IInv
<1>2. UNCHANGED <<shm, excl>> /\ UNCHANGED log /\ g.pc = "lockmark"
  BY DEF LockMark, At
<1>3. g.job \in {"begin", "again"} /\ s \in Slots
  BY <1>1, <1>2, LockNumbers DEF ConInv, JobInv, SlotInv
<1>4. CASE excl[s] = {} /\ Share(c, s) /\ Goto(c, "min")
  <2> HIDE DEF s
  <2>1. LocksInv(excl', share') /\ KeepsOthers(c, excl, share, excl', share')
    BY <1>1, <1>2, <1>3, <1>4, ShareLocks DEF Share
  <2>2. c \in share'[s]
    BY <1>1, <1>3, <1>4 DEF LocksInv, Share
  <2>3. /\ h = [f \in Fields |-> h[f]] /\ h.pc = "min" /\ h.job = g.job /\ h.slot = g.slot
        /\ h.hdr = g.hdr /\ h.tmp = g.tmp /\ h.added = g.added /\ h.mode = g.mode
        /\ h.mark = g.mark
    BY <1>1 DEF ConInv, Fields
  <2>4. con' = [con EXCEPT ![c] = h]
    BY <1>4 DEF Goto
  <2> HIDE DEF h
  <2>5. JobInv(h) /\ SlotInv(h) /\ Owns(h) = Owns(g) /\ (InWrite(h) <=> InWrite(g))
    BY <1>1, <1>2, <1>3, <2>3 DEF ConInv, JobInv, SlotInv, Owns, InWrite
  <2>6. DataInv(h) /\ MarkInv(h, shm)
    BY <1>1, <1>2, <1>3, <2>3, <2>5 DEF ConInv, DataInv, MarkInv
  <2>7. ConInv(c, h, excl', share', shm')
    BY <1>1, <1>2, <2>2, <2>3, <2>5, <2>6 DEF ConInv, s
  <2>8. QED
    BY <1>1, <1>2, <2>1, <2>4, <2>7, SameLog, OneMoves
<1>5. CASE Retry(c) /\ UNCHANGED share
  <2>1. LocksInv(excl, share') /\ KeepsOthers(c, excl, share, excl, share')
    BY <1>1, <1>5 DEF KeepsOthers
  <2>2. QED
    BY <1>2, <1>3, <1>5, <2>1, RetryStep
<1>6. QED
  BY <1>4, <1>5 DEF LockMark, CanShare

\* minFrame is loaded.
LEMMA LoadMinStep ==
  ASSUME IInv, NEW c \in Conns, LoadMin(c)
  PROVE  IInv'
<1> DEFINE g == con[c]
           h == [g EXCEPT !.pc = "verify", !.min = shm.back + 1]
<1>1. ConInv(c, g, excl, share, shm)
  BY DEF IInv
<1>2. con' = [con EXCEPT ![c] = h] /\ UNCHANGED <<shm, excl, share>> /\ UNCHANGED log
      /\ g.pc = "min"
  BY DEF LoadMin, Put, At, locks
<1>3. /\ h = [f \in Fields |-> h[f]] /\ h.pc = "verify" /\ h.job = g.job /\ h.slot = g.slot
      /\ h.hdr = g.hdr /\ h.tmp = g.tmp /\ h.added = g.added /\ h.mode = g.mode
      /\ h.mark = g.mark
  BY <1>1 DEF ConInv, Fields
<1> HIDE DEF h
<1>4. JobInv(h) /\ SlotInv(h) /\ Owns(h) = Owns(g) /\ (InWrite(h) <=> InWrite(g)) /\ Shares(g)
  BY <1>1, <1>2, <1>3 DEF ConInv, JobInv, SlotInv, Owns, InWrite, Shares
<1>5. DataInv(h) /\ MarkInv(h, shm)
  BY <1>1, <1>2, <1>3, <1>4 DEF ConInv, DataInv, MarkInv, JobInv
<1>6. ConInv(c, h, excl, share, shm)
  BY <1>1, <1>2, <1>3, <1>4, <1>5 DEF ConInv
<1>7. QED
  BY <1>2, <1>6, SameLog, JustMoves

\* If the mark and the header are still the same, the transaction is open.
LEMMA VerifyStep ==
  ASSUME IInv, NEW c \in Conns, Verify(c)
  PROVE  IInv'
<1> DEFINE g == con[c]
<1>1. ConInv(c, g, excl, share, shm) /\ LocksInv(excl, share) /\ ShmInv(shm)
  BY DEF IInv
<1>2. UNCHANGED <<shm, excl>> /\ UNCHANGED log /\ g.pc = "verify"
  BY DEF Verify, At
<1>3. /\ g.job \in {"begin", "again"} /\ READ_LOCK(g.slot) \in Slots
      /\ g.mark \in 0..g.hdr.mx
  BY <1>1, <1>2, LockNumbers DEF ConInv, JobInv, SlotInv, DataInv
<1>4. CASE shm.mark[g.slot] = g.mark /\ shm.h0 = g.hdr
           /\ Opened(c, g.slot, g.min) /\ UNCHANGED share
  BY <1>2, <1>3, <1>4, OpenedStep
<1>5. CASE Unshare(c, READ_LOCK(g.slot)) /\ Retry(c)
  <2>1. LocksInv(excl, share') /\ KeepsOthers(c, excl, share, excl, share')
    BY <1>1, <1>3, <1>5, ShareLocks DEF Unshare
  <2>2. QED
    BY <1>2, <1>3, <1>5, <2>1, RetryStep
<1>6. QED
  BY <1>4, <1>5 DEF Verify

\* A reader is done.
LEMMA EndReadStep ==
  ASSUME IInv, NEW c \in Conns, EndRead(c)
  PROVE  IInv'
<1> DEFINE h == [Blank EXCEPT !.hdr = con[c].hdr, !.cache = con[c].cache]
           s == READ_LOCK(con[c].slot)
<1>1. ConInv(c, con[c], excl, share, shm) /\ LocksInv(excl, share) /\ ShmInv(shm)
  BY DEF IInv
<1>2. /\ con' = [con EXCEPT ![c] = h] /\ UNCHANGED <<shm, excl>> /\ UNCHANGED log
      /\ share' = [share EXCEPT ![s] = @ \ {c}]
  BY DEF EndRead, Rest, Unshare
<1>3. s \in Slots /\ AnyHdr(con[c].hdr)
  BY <1>1, LockNumbers DEF ConInv, SlotInv, DataInv
<1>4. ConInv(c, h, excl', share', shm')
  BY <1>3, RestIsIdle
<1> HIDE DEF h, s
<1>5. LocksInv(excl', share') /\ KeepsOthers(c, excl, share, excl', share')
  BY <1>1, <1>2, <1>3, ShareLocks
<1>6. QED
  BY <1>1, <1>2, <1>4, <1>5, SameLog, OneMoves

-----------------------------------------------------------------------------
\* The image of a finite set is finite.
LEMMA FiniteImage ==
  ASSUME NEW S, IsFiniteSet(S), NEW f, f = [x \in S |-> f[x]]
  PROVE  IsFiniteSet({f[x] : x \in S})
<1>1. f \in Surjection(S, {f[x] : x \in S})
  BY DEF Surjection
<1>2. QED
  BY <1>1, FS_Surjection

\* There are only so many salts, and so there is another.
LEMMA NewSaltIs ==
  ASSUME IInv
  PROVE  NewSalt \in Nat \ {0} /\ NewSalt \notin Salts
<1>1. IsFiniteSet(whdr.may) /\ FramesInv(wal)
  BY DEF IInv, LogInv, SaltsInv
<1> DEFINE F == UNION {{f.salt : f \in wal[n].may} : n \in Frames}
           C == {con[c].hdr.salt : c \in Conns}
           D == {con[c].tmp.salt : c \in Conns}
<1>2. IsFiniteSet(F)
  <2> DEFINE fs(n) == {f.salt : f \in wal[n].may}
             all == [n \in Frames |-> fs(n)]
  <2>1. ASSUME NEW n \in Frames PROVE IsFiniteSet(fs(n))
    <3> DEFINE salt == [f \in wal[n].may |-> f.salt]
    <3>1. IsFiniteSet(wal[n].may)
      BY <1>1 DEF FramesInv
    <3>2. IsFiniteSet({salt[f] : f \in wal[n].may})
      BY <3>1, FiniteImage
    <3>3. {salt[f] : f \in wal[n].may} = fs(n)
      OBVIOUS
    <3>4. QED
      BY <3>2, <3>3
  <2>2. IsFiniteSet(Frames)
    BY Bounds, FS_Interval DEF Frames
  <2>3. IsFiniteSet({all[n] : n \in Frames})
    <3>1. all = [n \in Frames |-> all[n]]
      OBVIOUS
    <3> HIDE DEF all
    <3>2. QED
      BY <2>2, <3>1, FiniteImage
  <2>4. \A T \in {all[n] : n \in Frames} : IsFiniteSet(T)
    BY <2>1
  <2>5. IsFiniteSet(UNION {all[n] : n \in Frames})
    BY <2>3, <2>4, FS_UNION
  <2>6. UNION {all[n] : n \in Frames} = F
    OBVIOUS
  <2>7. QED
    BY <2>5, <2>6
<1>3. IsFiniteSet(C)
  <2> DEFINE salt == [c \in Conns |-> con[c].hdr.salt]
  <2>1. IsFiniteSet({salt[c] : c \in Conns})
    <3>1. salt = [c \in Conns |-> salt[c]]
      OBVIOUS
    <3> HIDE DEF salt
    <3>2. QED
      BY <3>1, Bounds, FiniteImage
  <2>2. {salt[c] : c \in Conns} = C
    OBVIOUS
  <2>3. QED
    BY <2>1, <2>2
<1>4. IsFiniteSet(D)
  <2> DEFINE salt == [c \in Conns |-> con[c].tmp.salt]
  <2>1. IsFiniteSet({salt[c] : c \in Conns})
    <3>1. salt = [c \in Conns |-> salt[c]]
      OBVIOUS
    <3> HIDE DEF salt
    <3>2. QED
      BY <3>1, Bounds, FiniteImage
  <2>2. {salt[c] : c \in Conns} = D
    OBVIOUS
  <2>3. QED
    BY <2>1, <2>2
<1>5. Salts = ((((({whdr.cur} \cup whdr.may) \cup F) \cup {shm.h0.salt, shm.h1.salt}) \cup C) \cup D)
  BY Zenon DEF Salts
<1> HIDE DEF F, C, D
<1>6. IsFiniteSet(Salts)
  <2>1. IsFiniteSet({whdr.cur}) /\ IsFiniteSet({shm.h0.salt}) /\ IsFiniteSet({shm.h1.salt})
    BY FS_Singleton
  <2>2. IsFiniteSet({shm.h0.salt} \cup {shm.h1.salt})
    BY <2>1, FS_Union
  <2>3. {shm.h0.salt} \cup {shm.h1.salt} = {shm.h0.salt, shm.h1.salt}
    OBVIOUS
  <2>4. IsFiniteSet({whdr.cur} \cup whdr.may)
    BY <1>1, <2>1, FS_Union
  <2>5. IsFiniteSet(({whdr.cur} \cup whdr.may) \cup F)
    BY <1>2, <2>4, FS_Union
  <2>6. IsFiniteSet((({whdr.cur} \cup whdr.may) \cup F) \cup {shm.h0.salt, shm.h1.salt})
    BY <2>2, <2>3, <2>5, FS_Union
  <2>7. IsFiniteSet(((({whdr.cur} \cup whdr.may) \cup F) \cup {shm.h0.salt, shm.h1.salt}) \cup C)
    BY <1>3, <2>6, FS_Union
  <2>8. QED
    BY <1>4, <1>5, <2>7, FS_Union
<1> DEFINE k == Cardinality(Salts)
           N == (1..k + 1) \ Salts
<1>7. k \in Nat
  BY <1>6, FS_CardinalityType
<1>8. N # {}
  <2>1. SUFFICES ASSUME 1..k + 1 \subseteq Salts
                 PROVE  FALSE
    OBVIOUS
  <2> HIDE DEF k
  <2>2. Cardinality(1..k + 1) = k + 1
    BY <1>7, FS_Interval
  <2>3. Cardinality(1..k + 1) <= Cardinality(Salts)
    BY <1>6, <2>1, FS_Subset
  <2>4. QED
    BY <1>7, <2>2, <2>3 DEF k
<1>9. N \in SUBSET Nat
  BY <1>7
<1>10. NewSalt = Min(N)
  BY DEF NewSalt
<1>11. NewSalt \in N
  BY <1>8, <1>9, <1>10, MinOfNat
<1>12. QED
  BY <1>7, <1>11

\* A write leaves a page of the log finitely many contents.
LEMMA WrittenIsFinite ==
  ASSUME NEW cell, IsFiniteSet(cell.may), NEW f
  PROVE  IsFiniteSet(WrittenPage(cell, f, NoFrame).may)
<1>1. IsFiniteSet({}) /\ IsFiniteSet({NoFrame})
  BY FS_EmptySet, FS_Singleton
<1>2. IsFiniteSet(cell.may \cup {f})
  BY FS_AddElement
<1>3. IsFiniteSet((cell.may \cup {f}) \cup (IF cell.may = {f} THEN {} ELSE {NoFrame}))
  BY <1>1, <1>2, FS_Union
<1>4. QED
  BY <1>3 DEF WrittenPage

\* The log file after the writes and syncs of the code.
LEMMA LogWrites ==
  ASSUME IInv
  PROVE  /\ \A salt \in Nat : whdr' = Written(whdr, salt) /\ UNCHANGED <<wal, uncut>> => LogInv'
         /\ SyncLog => LogInv'
         /\ \A n, f : PutFrame(n, f) /\ UNCHANGED <<whdr, uncut>> => LogInv'
<1>1. SaltsInv(whdr) /\ FramesInv(wal) /\ LogInv
  BY DEF IInv, LogInv
<1>2. ASSUME NEW salt \in Nat, whdr' = Written(whdr, salt), UNCHANGED <<wal, uncut>>
      PROVE  LogInv'
  <2>1. whdr' = [cur |-> salt, may |-> whdr.may \cup {salt}]
    BY <1>2 DEF Written
  <2>2. IsFiniteSet(whdr.may \cup {salt})
    BY <1>1, FS_AddElement DEF SaltsInv
  <2>3. SaltsInv(whdr')
    BY <1>1, <2>1, <2>2 DEF SaltsInv
  <2>4. QED
    BY <1>1, <1>2, <2>3 DEF LogInv
<1>3. ASSUME SyncLog
      PROVE  LogInv'
  <2>1. whdr' = [cur |-> whdr.cur, may |-> {whdr.cur}] /\ wal' = Sync(wal) /\ uncut' = <<>>
    BY <1>3 DEF SyncLog, Stable
  <2>2. SaltsInv(whdr')
    BY <1>1, <2>1, FS_Singleton DEF SaltsInv
  <2>3. wal' = [n \in Frames |-> wal'[n]] /\ \A n \in Frames : wal'[n].may = {wal[n].cur}
    BY <1>1, <2>1 DEF FramesInv, Sync, Stable
  <2>4. FramesInv(wal')
    BY <2>3, FS_Singleton DEF FramesInv
  <2>5. QED
    BY <2>1, <2>2, <2>4 DEF LogInv
<1>4. ASSUME NEW n, NEW f, PutFrame(n, f), UNCHANGED <<whdr, uncut>>
      PROVE  LogInv'
  <2>1. /\ wal' = [m \in Frames |-> wal'[m]]
        /\ \A m \in Frames : m # n => wal'[m] = wal[m]
        /\ n \in Frames => wal'[n] = WrittenPage(wal[n], f, NoFrame)
    BY <1>1, <1>4 DEF FramesInv, PutFrame
  <2>2. \A m \in Frames : IsFiniteSet(wal[m].may)
    BY <1>1 DEF FramesInv
  <2>3. n \in Frames => IsFiniteSet(wal'[n].may)
    BY <2>1, <2>2, WrittenIsFinite
  <2>4. FramesInv(wal')
    BY <2>1, <2>2, <2>3 DEF FramesInv
  <2>5. QED
    BY <1>1, <1>4, <2>4 DEF LogInv
<1>5. QED
  BY <1>2, <1>3, <1>4

-----------------------------------------------------------------------------
\* The writer

\* The write-lock, if nothing was committed since.
LEMMA BeginWriteStep ==
  ASSUME IInv, NEW c \in Conns, BeginWrite(c)
  PROVE  IInv'
<1> DEFINE g == con[c]
           h == [g EXCEPT !.pc = "write"]
           S == {WRITE_LOCK}
<1>1. ConInv(c, g, excl, share, shm) /\ LocksInv(excl, share) /\ ShmInv(shm)
  BY DEF IInv
<1>2. /\ con' = [con EXCEPT ![c] = h] /\ UNCHANGED <<shm, share>> /\ UNCHANGED log
      /\ excl' = [s \in Slots |-> IF s \in S THEN {c} ELSE excl[s]]
      /\ g.pc = "read" /\ CanOwn(WRITE_LOCK) /\ g.hdr = shm.h0
  BY DEF BeginWrite, Goto, At, Own
<1>3. /\ LocksInv(excl', share') /\ KeepsOthers(c, excl, share, excl', share')
      /\ c \in excl'[WRITE_LOCK]
  <2>1. \A s \in S : s \in Slots /\ (c \in excl[s] \/ (excl[s] = {} /\ share[s] = {}))
    BY <1>2, LockNumbers DEF CanOwn
  <2>2. WRITE_LOCK \in S
    OBVIOUS
  <2> HIDE DEF S
  <2>3. QED
    BY <1>1, <1>2, <2>1, <2>2, OwnLocks
<1>4. /\ h = [f \in Fields |-> h[f]] /\ h.pc = "write" /\ h.job = g.job /\ h.slot = g.slot
      /\ h.hdr = g.hdr /\ h.tmp = g.tmp /\ h.added = g.added /\ h.mode = g.mode
  BY <1>1 DEF ConInv, Fields
<1> HIDE DEF h
<1>5. g.job = "txn" /\ GoodHdr(g.hdr) /\ g.mode = Passive
  BY <1>1, <1>2 DEF ConInv, JobInv, DataInv
<1>6. JobInv(h) /\ SlotInv(h) /\ Owns(h) = {WRITE_LOCK} /\ Shares(g)
  BY <1>1, <1>2, <1>4, <1>5 DEF ConInv, JobInv, SlotInv, Owns, InWrite, Shares
<1>7. DataInv(h)
  BY <1>1, <1>2, <1>4 DEF ConInv, DataInv
<1>8. MarkInv(h, shm)
  BY <1>1, <1>2, <1>4, <1>5 DEF ConInv, MarkInv, GoodHdr
<1>9. ConInv(c, h, excl', share', shm')
  BY <1>1, <1>2, <1>3, <1>4, <1>6, <1>7, <1>8 DEF ConInv
<1>10. QED
  BY <1>1, <1>2, <1>3, <1>9, SameLog, OneMoves

\* A step of a writer that changes neither its header nor where it reads.
LEMMA WriterMoves ==
  ASSUME IInv, NEW c \in Conns, con[c].job = "txn",
         con[c].pc \in {"write", "restart"} \cup FramePcs,
         NEW h, con' = [con EXCEPT ![c] = h], UNCHANGED <<shm, excl, share>>, LogInv',
         h = [f \in Fields |-> h[f]], h.job = "txn",
         h.pc \in {"write", "restart"} \cup FramePcs, h.pc \in FramePcs => h.slot # 0,
         h.slot = con[c].slot, h.hdr.mx = con[c].hdr.mx, GoodHdr(h.hdr),
         h.tmp = con[c].tmp, h.mode = con[c].mode, IsASeq(h.added),
         h.hdr.mx + Len(h.added) <= MaxFrame, h.pc \notin {"frame", "index"} => h.added = <<>>,
         h.pc = "header" => h.hdr.mx = 0
  PROVE  IInv'
<1> DEFINE g == con[c]
<1>1. ConInv(c, g, excl, share, shm)
  BY DEF IInv
<1>2. JobInv(h) /\ SlotInv(h) /\ Owns(h) = Owns(g) /\ Shares(g) /\ InWrite(g)
  BY <1>1 DEF ConInv, JobInv, SlotInv, Owns, InWrite, Shares
<1>3. DataInv(h)
  BY <1>1 DEF ConInv, DataInv, AnyHdr
<1>4. MarkInv(h, shm)
  BY <1>1, <1>2 DEF ConInv, MarkInv
<1>5. ConInv(c, h, excl, share, shm)
  BY <1>1, <1>2, <1>3, <1>4 DEF ConInv
<1>6. QED
  BY <1>5, JustMoves

\* A page is changed in the cache, or written to the log.
LEMMA WriteStep ==
  ASSUME IInv, NEW c \in Conns,
         \/ \E p \in Pages : Write(c, p) \/ Spill(c, p)
         \/ Commit(c)
  PROVE  IInv'
<1>1. ConInv(c, con[c], excl, share, shm)
  BY DEF IInv
<1>2. con[c].pc = "write" /\ UNCHANGED <<shm, excl, share>> /\ UNCHANGED log
  BY DEF Write, Spill, Commit, At, locks
<1>3. /\ con[c].job = "txn" /\ GoodHdr(con[c].hdr) /\ con[c].added = <<>>
      /\ con[c].hdr.mx + 0 <= MaxFrame
  BY <1>1, <1>2 DEF ConInv, JobInv, DataInv, GoodHdr
<1>4. IsASeq(<<>>) /\ Len(<<>>) = 0
  BY DEF IsASeq
<1>5. ASSUME NEW p \in Pages, Write(c, p)
      PROVE  IInv'
  <2> DEFINE g == con[c]
             h == [g EXCEPT !.cache = [con[c].cache EXCEPT ![p] = Content(c)],
                            !.dirty = con[c].dirty \cup {p}]
  <2>1. con' = [con EXCEPT ![c] = h]
    BY <1>5 DEF Write, Put
  <2>2. /\ h = [f \in Fields |-> h[f]] /\ h.pc = g.pc /\ h.job = g.job /\ h.slot = g.slot
        /\ h.hdr = g.hdr /\ h.tmp = g.tmp /\ h.added = g.added /\ h.mode = g.mode
    BY <1>1 DEF ConInv, Fields
  <2> HIDE DEF h
  <2>3. QED
    BY <1>2, <1>3, <1>4, <2>1, <2>2, SameLog, WriterMoves
<1>6. ASSUME NEW todo, NEW com, Flush(c, todo, com)
      PROVE  IInv'
  <2> DEFINE g == con[c]
             h == [g EXCEPT !.pc = "restart", !.todo = todo, !.com = com, !.added = <<>>,
                            !.first = IF Spilled(c) THEN shm.h0.mx + 1 ELSE 0]
  <2>1. con' = [con EXCEPT ![c] = h]
    BY <1>6 DEF Flush, Put
  <2>2. /\ h = [f \in Fields |-> h[f]] /\ h.pc = "restart" /\ h.job = g.job /\ h.slot = g.slot
        /\ h.hdr = g.hdr /\ h.tmp = g.tmp /\ h.added = <<>> /\ h.mode = g.mode
    BY <1>1 DEF ConInv, Fields
  <2> HIDE DEF h
  <2>3. QED
    BY <1>2, <1>3, <1>4, <2>1, <2>2, SameLog, WriterMoves
<1>7. QED
  BY <1>5, <1>6 DEF Spill, Commit

\* walRestartLog(): a writer on the database file alone takes all read-locks
\* to start the log over, or becomes a reader of the log.
LEMMA RestartLogStep ==
  ASSUME IInv, NEW c \in Conns, RestartLog(c)
  PROVE  IInv'
<1> DEFINE g == con[c]
<1>1. ConInv(c, g, excl, share, shm) /\ LocksInv(excl, share) /\ ShmInv(shm)
  BY DEF IInv
<1>2. g.pc = "restart" /\ shm' = shm /\ UNCHANGED log
  BY DEF RestartLog, At
<1>3. /\ g.job = "txn" /\ GoodHdr(g.hdr) /\ g.added = <<>> /\ g.mode = Passive
      /\ c \in excl[WRITE_LOCK] /\ IsASeq(g.added) /\ g.hdr.mx + Len(g.added) <= MaxFrame
      /\ g.slot = 0 => c \in share[READ_LOCK(0)]
  BY <1>1, <1>2 DEF ConInv, JobInv, DataInv, Owns, InWrite, Shares
<1>4. CASE g.slot # 0 /\ Goto(c, ToWrite(g)) /\ UNCHANGED locks
  <2> DEFINE h == [g EXCEPT !.pc = ToWrite(g)]
  <2>1. con' = [con EXCEPT ![c] = h] /\ UNCHANGED <<excl, share>>
    BY <1>4 DEF Goto, locks
  <2>2. /\ h = [f \in Fields |-> h[f]] /\ h.pc = ToWrite(g) /\ h.job = g.job /\ h.slot = g.slot
        /\ h.hdr = g.hdr /\ h.tmp = g.tmp /\ h.added = g.added /\ h.mode = g.mode
    BY <1>1 DEF ConInv, Fields
  <2>3. ToWrite(g) \in {"header", "frame"} /\ (ToWrite(g) = "header" => g.hdr.mx = 0)
    BY DEF ToWrite
  <2> HIDE DEF h
  <2>4. QED
    BY <1>2, <1>3, <1>4, <2>1, <2>2, <2>3, SameLog, WriterMoves
<1>5. CASE /\ g.slot = 0 /\ \A s \in ReadLocks : CanOwn(s)
           /\ Own(c, ReadLocks) /\ Goto(c, "reset") /\ UNCHANGED share
  <2> DEFINE h == [g EXCEPT !.pc = "reset"]
  <2>1. con' = [con EXCEPT ![c] = h]
    BY <1>5 DEF Goto
  <2>2. /\ h = [f \in Fields |-> h[f]] /\ h.pc = "reset" /\ h.job = g.job /\ h.slot = g.slot
        /\ h.hdr = g.hdr /\ h.tmp = g.tmp /\ h.added = g.added /\ h.mode = g.mode
    BY <1>1 DEF ConInv, Fields
  <2> HIDE DEF h
  <2>3. /\ LocksInv(excl', share') /\ KeepsOthers(c, excl, share, excl', share')
        /\ \A s \in ReadLocks : c \in excl'[s]
        /\ \A s \in Slots : c \in excl[s] => c \in excl'[s]
    <3>1. \A s \in ReadLocks : s \in Slots /\ (c \in excl[s] \/ (excl[s] = {} /\ share[s] = {}))
      BY <1>5, LockNumbers DEF CanOwn
    <3>2. excl' = [s \in Slots |-> IF s \in ReadLocks THEN {c} ELSE excl[s]]
      BY <1>5 DEF Own
    <3>3. QED
      BY <1>1, <1>5, <3>1, <3>2, OwnLocks
  <2>4. JobInv(h) /\ SlotInv(h) /\ Owns(h) = {WRITE_LOCK} \cup ReadLocks
    BY <1>1, <1>3, <1>5, <2>2 DEF ConInv, JobInv, SlotInv, Owns, InWrite
  <2>5. DataInv(h)
    BY <1>1, <1>3, <2>2, DataKept DEF ConInv
  <2>6. MarkInv(h, shm)
    BY <1>1, <1>2, <1>3, <1>5, <2>2 DEF ConInv, MarkInv, InWrite
  <2>7. ConInv(c, h, excl', share', shm')
    BY <1>2, <1>3, <1>5, <2>2, <2>3, <2>4, <2>5, <2>6, LockNumbers DEF ConInv
  <2>8. QED
    BY <1>1, <1>2, <2>1, <2>3, <2>7, SameLog, OneMoves
<1>6. CASE /\ g.slot = 0 /\ Unshare(c, READ_LOCK(0)) /\ UNCHANGED excl
           /\ Put(c, [con[c] EXCEPT !.pc = "pick", !.job = "again"])
  <2> DEFINE h == [g EXCEPT !.pc = "pick", !.job = "again"]
  <2>1. con' = [con EXCEPT ![c] = h]
    BY <1>6 DEF Put
  <2>2. /\ h = [f \in Fields |-> h[f]] /\ h.pc = "pick" /\ h.job = "again" /\ h.slot = g.slot
        /\ h.hdr = g.hdr /\ h.tmp = g.tmp /\ h.added = g.added /\ h.mode = g.mode
    BY <1>1 DEF ConInv, Fields
  <2> HIDE DEF h
  <2>3. LocksInv(excl', share') /\ KeepsOthers(c, excl, share, excl', share')
    BY <1>1, <1>6, LockNumbers, ShareLocks DEF Unshare
  <2>4. JobInv(h) /\ SlotInv(h) /\ Owns(h) = {WRITE_LOCK} /\ ~Shares(h)
    BY <1>1, <1>3, <1>6, <2>2, Bounds DEF ConInv, JobInv, SlotInv, Owns, InWrite, Shares
  <2>5. DataInv(h)
    BY <1>1, <1>3, <2>2, DataKept DEF ConInv
  <2>6. MarkInv(h, shm)
    BY <1>1, <1>2, <1>3, <2>2 DEF ConInv, MarkInv, InWrite
  <2>7. ConInv(c, h, excl', share', shm')
    BY <1>2, <1>3, <1>6, <2>2, <2>4, <2>5, <2>6 DEF ConInv
  <2>8. QED
    BY <1>1, <1>2, <1>6, <2>1, <2>3, <2>7, SameLog, OneMoves
<1>7. QED
  BY <1>4, <1>5, <1>6 DEF RestartLog

\* walRestartHdr(): a new salt, and no frame.
LEMMA ResetHdrStep ==
  ASSUME IInv, NEW c \in Conns, ResetHdr(c)
  PROVE  IInv'
<1> DEFINE g == con[c]
           new == Hdr(NewSalt, 0, <<>>, g.hdr.chg)
           h == [g EXCEPT !.pc = "reset0", !.hdr = new]
<1>1. ConInv(c, g, excl, share, shm) /\ LocksInv(excl, share) /\ ShmInv(shm)
  BY DEF IInv
<1>2. /\ con' = [con EXCEPT ![c] = h] /\ UNCHANGED <<excl, share>> /\ UNCHANGED log
      /\ shm' = [shm EXCEPT !.h1 = new] /\ g.pc = "reset"
  BY DEF ResetHdr, Put, At, locks
<1>3. g.added = <<>> /\ GoodHdr(g.hdr) /\ g.job \in {"txn", "ckpt"} /\ g.slot = 0
  BY <1>1, <1>2 DEF ConInv, JobInv, DataInv, SlotInv
<1>4. GoodHdr(new) /\ new.mx = 0
  BY <1>3, NewSaltIs, Bounds DEF GoodHdr, Hdr
<1> HIDE DEF new
<1>5. ShmInv(shm') /\ shm'.h0 = shm.h0 /\ shm'.mark = shm.mark
  BY <1>1, <1>2, <1>4 DEF ShmInv, AnyHdr
<1>6. /\ h = [f \in Fields |-> h[f]] /\ h.pc = "reset0" /\ h.job = g.job /\ h.slot = g.slot
      /\ h.hdr = new /\ h.tmp = g.tmp /\ h.added = g.added /\ h.mode = g.mode
  BY <1>1 DEF ConInv, Fields
<1> HIDE DEF h
<1>7. JobInv(h) /\ SlotInv(h) /\ Owns(h) = Owns(g) /\ (Shares(h) <=> Shares(g))
  BY <1>1, <1>2, <1>3, <1>6 DEF ConInv, JobInv, SlotInv, Owns, Shares, InWrite
<1>8. DataInv(h)
  <2>1. DataInv(g) /\ h.added = <<>> /\ h.pc \notin MarkPcs \cup SafePcs \cup {"mark", "header"}
    BY <1>1, <1>3, <1>6 DEF ConInv
  <2>2. h.mode # Passive => h.job = "ckpt"
    BY <1>6, <2>1 DEF DataInv
  <2>3. QED
    BY <1>4, <1>6, <2>1, <2>2, DataKept
<1>9. ConInv(c, h, excl', share', shm')
  BY <1>1, <1>2, <1>3, <1>6, <1>7, <1>8 DEF ConInv, MarkInv
<1>10. LocksInv(excl', share') /\ KeepsOthers(c, excl, share, excl', share')
  BY <1>1, <1>2 DEF KeepsOthers
<1>11. QED
  BY <1>2, <1>5, <1>9, <1>10, SameLog, OneMoves

\* The first copy of the header, and nBackfill.
LEMMA ResetMoves ==
  ASSUME IInv, NEW c \in Conns, ResetHdr0(c) \/ ResetBackfill(c)
  PROVE  IInv'
<1> DEFINE g == con[c]
           pc == IF g.pc = "reset0" THEN "reset1" ELSE "reset2"
           h == [g EXCEPT !.pc = pc]
<1>1. ConInv(c, g, excl, share, shm) /\ LocksInv(excl, share) /\ ShmInv(shm)
  BY DEF IInv
<1>2. /\ con' = [con EXCEPT ![c] = h] /\ UNCHANGED <<excl, share>> /\ UNCHANGED log
      /\ g.pc \in {"reset0", "reset1"}
      /\ shm' = IF g.pc = "reset0" THEN [shm EXCEPT !.h0 = g.hdr] ELSE [shm EXCEPT !.back = 0]
  BY DEF ResetHdr0, ResetBackfill, Goto, At, locks
<1>3. GoodHdr(g.hdr) /\ g.job \in {"txn", "ckpt"} /\ g.slot = 0 /\ c \in excl[WRITE_LOCK]
  BY <1>1, <1>2 DEF ConInv, JobInv, DataInv, SlotInv, Owns
<1>4. /\ ShmInv(shm') /\ shm'.mark = shm.mark
      /\ shm'.h0 = IF g.pc = "reset0" THEN g.hdr ELSE shm.h0
  BY <1>1, <1>2, <1>3, Bounds DEF ShmInv, AnyHdr
<1>5. /\ h = [f \in Fields |-> h[f]] /\ h.pc = pc /\ h.job = g.job /\ h.slot = g.slot
      /\ h.hdr = g.hdr /\ h.tmp = g.tmp /\ h.added = g.added /\ h.mode = g.mode
  BY <1>1 DEF ConInv, Fields
<1> HIDE DEF h
<1>6. JobInv(h) /\ SlotInv(h) /\ Owns(h) = Owns(g) /\ (Shares(h) <=> Shares(g))
  BY <1>1, <1>2, <1>3, <1>5 DEF ConInv, JobInv, SlotInv, Owns, Shares, InWrite
<1>7. DataInv(h)
  BY <1>1, <1>2, <1>3, <1>5 DEF ConInv, DataInv
<1>8. MarkInv(h, shm')
  <2>1. h.slot = 0 /\ (InWrite(h) <=> InWrite(g)) /\ h.hdr = g.hdr
    BY <1>2, <1>3, <1>5 DEF InWrite
  <2>2. CASE g.pc = "reset0"
    BY <1>3, <1>4, <2>1, <2>2 DEF MarkInv, GoodHdr
  <2>3. CASE g.pc = "reset1"
    BY <1>1, <1>4, <2>1, <2>3 DEF ConInv, MarkInv
  <2>4. QED
    BY <1>2, <2>2, <2>3
<1>9. ConInv(c, h, excl', share', shm')
  BY <1>1, <1>2, <1>5, <1>6, <1>7, <1>8 DEF ConInv
<1>10. LocksInv(excl', share') /\ KeepsOthers(c, excl, share, excl', share')
  BY <1>1, <1>2 DEF KeepsOthers
<1>11. QED
  BY <1>2, <1>3, <1>4, <1>9, <1>10, SameLog, OneMoves

\* The read-marks: nobody is on one, and the writer lets go of its locks.
LEMMA ResetMarksStep ==
  ASSUME IInv, NEW c \in Conns, ResetMarks(c)
  PROVE  IInv'
<1> DEFINE g == con[c]
           mark == [i \in Readers |-> IF i = 1 THEN 0 ELSE READMARK_NOT_USED]
<1>1. ConInv(c, g, excl, share, shm) /\ LocksInv(excl, share) /\ ShmInv(shm)
  BY DEF IInv
<1>2. UNCHANGED log /\ g.pc = "reset2" /\ shm' = [shm EXCEPT !.mark = mark]
  BY DEF ResetMarks, At
<1>3. /\ g.added = <<>> /\ GoodHdr(g.hdr) /\ g.job \in {"txn", "ckpt"} /\ g.slot = 0
      /\ c \in excl[WRITE_LOCK] /\ \A s \in ReadLocks : c \in excl[s]
      /\ g.job = "txn" => g.mode = Passive
  BY <1>1, <1>2 DEF ConInv, JobInv, DataInv, SlotInv, Owns
<1>4. ShmInv(shm') /\ shm'.h0 = shm.h0
  <2>1. mark \in [Readers -> 0..READMARK_NOT_USED]
    BY Bounds DEF READMARK_NOT_USED
  <2> HIDE DEF mark
  <2>2. QED
    BY <1>1, <1>2, <2>1 DEF ShmInv
<1>5. \A i \in Readers : share[READ_LOCK(i)] = {}
  BY <1>1, <1>3, LockNumbers, OneOwner
<1>6. CASE g.job = "ckpt" /\ Goto(c, "cut") /\ UNCHANGED locks
  <2> DEFINE h == [g EXCEPT !.pc = "cut"]
  <2>1. con' = [con EXCEPT ![c] = h] /\ UNCHANGED <<excl, share>>
    BY <1>6 DEF Goto, locks
  <2>2. /\ h = [f \in Fields |-> h[f]] /\ h.pc = "cut" /\ h.job = g.job /\ h.slot = g.slot
        /\ h.hdr = g.hdr /\ h.tmp = g.tmp /\ h.added = g.added /\ h.mode = g.mode
    BY <1>1 DEF ConInv, Fields
  <2> HIDE DEF h
  <2>3. JobInv(h) /\ SlotInv(h) /\ Owns(h) = Owns(g) /\ ~Shares(h)
    BY <1>1, <1>2, <1>3, <1>6, <2>2 DEF ConInv, JobInv, SlotInv, Owns, Shares, InWrite
  <2>4. DataInv(h) /\ MarkInv(h, shm')
    BY <1>1, <1>2, <1>3, <1>6, <2>2 DEF ConInv, DataInv, MarkInv, InWrite
  <2>5. ConInv(c, h, excl', share', shm')
    BY <1>1, <1>2, <2>1, <2>2, <2>3, <2>4 DEF ConInv
  <2>6. LocksInv(excl', share') /\ KeepsOthers(c, excl, share, excl', share')
    BY <1>1, <2>1 DEF KeepsOthers
  <2>7. QED
    BY <1>2, <1>4, <1>5, <2>1, <2>5, <2>6, SameLog, OneMoves
<1>7. CASE /\ g.job # "ckpt" /\ Disown(ReadLocks) /\ Unshare(c, READ_LOCK(0))
           /\ Put(c, [con[c] EXCEPT !.pc = "pick", !.job = "again"])
  <2> DEFINE h == [g EXCEPT !.pc = "pick", !.job = "again"]
  <2>1. con' = [con EXCEPT ![c] = h]
    BY <1>7 DEF Put
  <2>2. /\ h = [f \in Fields |-> h[f]] /\ h.pc = "pick" /\ h.job = "again" /\ h.slot = g.slot
        /\ h.hdr = g.hdr /\ h.tmp = g.tmp /\ h.added = g.added /\ h.mode = g.mode
    BY <1>1 DEF ConInv, Fields
  <2> HIDE DEF h
  <2>3. /\ LocksInv(excl', share) /\ KeepsOthers(c, excl, share, excl', share)
        /\ \A s \in Slots : s \notin ReadLocks /\ c \in excl[s] => c \in excl'[s]
    <3>1. excl' = [s \in Slots |-> IF s \in ReadLocks THEN {} ELSE excl[s]]
      BY <1>7 DEF Disown
    <3>2. \A s \in ReadLocks : s \in Slots /\ c \in excl[s]
      BY <1>3, LockNumbers
    <3>3. QED
      BY <1>1, <3>1, <3>2, DisownLocks
  <2>4. LocksInv(excl', share') /\ KeepsOthers(c, excl', share, excl', share')
    BY <1>7, <2>3, LockNumbers, ShareLocks DEF Unshare
  <2>5. KeepsOthers(c, excl, share, excl', share')
    BY <2>3, <2>4 DEF KeepsOthers
  <2>6. JobInv(h) /\ SlotInv(h) /\ Owns(h) = {WRITE_LOCK} /\ ~Shares(h)
    BY <1>1, <1>3, <1>7, <2>2, Bounds DEF ConInv, JobInv, SlotInv, Owns, InWrite, Shares
  <2>7. DataInv(h)
    BY <1>1, <1>3, <1>7, <2>2, DataKept DEF ConInv
  <2>8. MarkInv(h, shm')
    BY <1>1, <1>2, <1>3, <1>4, <1>7, <2>2 DEF ConInv, MarkInv, InWrite
  <2>9. WRITE_LOCK \notin ReadLocks
    BY LockNumbers, Bounds DEF ReadLocks, Readers
  <2>10. ConInv(c, h, excl', share', shm')
    BY <1>3, <2>2, <2>3, <2>6, <2>7, <2>8, <2>9, LockNumbers DEF ConInv
  <2>11. QED
    BY <1>2, <1>4, <1>5, <2>1, <2>4, <2>5, <2>10, SameLog, OneMoves
<1>8. QED
  BY <1>6, <1>7 DEF ResetMarks

-----------------------------------------------------------------------------
\* walFrames()

\* Rows are made longer, cut and joined.
LEMMA Rows ==
  ASSUME NEW s, IsASeq(s)
  PROVE  /\ \A x : IsASeq(Append(s, x)) /\ Len(Append(s, x)) = Len(s) + 1
         /\ \A m \in Nat : IsASeq(SubSeq(s, 1, m)) /\ Len(SubSeq(s, 1, m)) = m
         /\ \A t : IsASeq(t) => IsASeq(s \o t) /\ Len(s \o t) = Len(s) + Len(t)
<1>1. ASSUME NEW S, NEW t \in Seq(S)
      PROVE  IsASeq(t)
  BY DEF IsASeq
<1>2. ASSUME NEW x
      PROVE  IsASeq(Append(s, x)) /\ Len(Append(s, x)) = Len(s) + 1
  <2> DEFINE S == {s[n] : n \in 1..Len(s)} \cup {x}
  <2>1. s \in Seq(S) /\ x \in S
    BY DEF IsASeq
  <2> HIDE DEF S
  <2>2. Append(s, x) \in Seq(S) /\ Len(Append(s, x)) = Len(s) + 1
    BY <2>1
  <2>3. QED
    BY <1>1, <2>2
<1>3. ASSUME NEW m \in Nat
      PROVE  IsASeq(SubSeq(s, 1, m)) /\ Len(SubSeq(s, 1, m)) = m
  BY DEF IsASeq
<1>4. ASSUME NEW t, IsASeq(t)
      PROVE  IsASeq(s \o t) /\ Len(s \o t) = Len(s) + Len(t)
  <2> DEFINE S == {s[n] : n \in 1..Len(s)} \cup {t[n] : n \in 1..Len(t)}
  <2>1. s \in Seq(S) /\ t \in Seq(S)
    BY <1>4 DEF IsASeq
  <2> HIDE DEF S
  <2>2. s \o t \in Seq(S) /\ Len(s \o t) = Len(s) + Len(t)
    BY <2>1
  <2>3. QED
    BY <1>1, <2>2
<1>5. QED
  BY <1>2, <1>3, <1>4

\* The header of the log, and its sync.
LEMMA WriteHeaderStep ==
  ASSUME IInv, NEW c \in Conns, WriteHeader(c) \/ SyncHeader(c)
  PROVE  IInv'
<1> DEFINE g == con[c]
<1>1. ConInv(c, g, excl, share, shm)
  BY DEF IInv
<1>2. g.pc \in {"header", "synchdr"} /\ UNCHANGED <<shm, excl, share>>
  BY DEF WriteHeader, SyncHeader, At, locks
<1>3. g.job = "txn" /\ g.slot # 0 /\ GoodHdr(g.hdr) /\ g.added = <<>> /\ IsASeq(g.added)
  BY <1>1, <1>2 DEF ConInv, JobInv, SlotInv, DataInv
<1>4. CASE WriteHeader(c)
  <2>1. PICK salt \in {g.hdr.salt, NewSalt} \ {0} :
          /\ whdr' = Written(whdr, salt)
          /\ con' = [con EXCEPT ![c] = [g EXCEPT !.pc = "synchdr",
                                        !.hdr = Hdr(salt, 0, <<>>, g.hdr.chg)]]
    BY <1>4 DEF WriteHeader, Put
  <2> DEFINE new == Hdr(salt, 0, <<>>, g.hdr.chg)
             h == [g EXCEPT !.pc = "synchdr", !.hdr = new]
  <2>2. salt \in Nat
    BY <1>3, NewSaltIs DEF GoodHdr
  <2>3. LogInv'
    BY <1>4, <2>1, <2>2, LogWrites DEF WriteHeader
  <2>4. GoodHdr(new) /\ new.mx = 0
    BY <1>3, <2>2, Bounds DEF GoodHdr, Hdr
  <2>5. g.hdr.mx = 0 /\ g.hdr.mx + Len(g.added) <= MaxFrame
    BY <1>1, <1>4 DEF ConInv, DataInv, WriteHeader, At
  <2> HIDE DEF new
  <2>6. /\ h = [f \in Fields |-> h[f]] /\ h.pc = "synchdr" /\ h.job = g.job /\ h.slot = g.slot
        /\ h.hdr = new /\ h.tmp = g.tmp /\ h.added = g.added /\ h.mode = g.mode
    BY <1>1 DEF ConInv, Fields
  <2>7. con' = [con EXCEPT ![c] = h]
    BY <2>1 DEF new
  <2> HIDE DEF h
  <2>8. h.hdr.mx + Len(h.added) <= MaxFrame /\ AnyHdr(h.hdr)
    BY <2>4, <2>5, <2>6 DEF AnyHdr
  <2>9. QED
    BY <1>2, <1>3, <2>3, <2>4, <2>5, <2>6, <2>7, <2>8, WriterMoves
<1>5. CASE SyncHeader(c)
  <2> DEFINE h == [g EXCEPT !.pc = "frame"]
  <2>1. con' = [con EXCEPT ![c] = h]
    BY <1>5 DEF SyncHeader, Goto
  <2>2. LogInv'
    BY <1>5, LogWrites DEF SyncHeader
  <2>3. g.hdr.mx + Len(g.added) <= MaxFrame
    BY <1>1 DEF ConInv, DataInv
  <2>4. /\ h = [f \in Fields |-> h[f]] /\ h.pc = "frame" /\ h.job = g.job /\ h.slot = g.slot
        /\ h.hdr = g.hdr /\ h.tmp = g.tmp /\ h.added = g.added /\ h.mode = g.mode
    BY <1>1 DEF ConInv, Fields
  <2> HIDE DEF h
  <2>5. QED
    BY <1>2, <1>3, <2>1, <2>2, <2>3, <2>4, WriterMoves
<1>6. QED
  BY <1>4, <1>5

\* A frame is written over, or appended.
LEMMA FrameStep ==
  ASSUME IInv, NEW c \in Conns, Overwrite(c) \/ AppendFrame(c)
  PROVE  IInv'
<1> DEFINE g == con[c]
           p == Head(g.todo)
<1>1. ConInv(c, g, excl, share, shm)
  BY DEF IInv
<1>2. g.pc = "frame" /\ UNCHANGED <<shm, excl, share>> /\ UNCHANGED <<whdr, uncut>>
  BY DEF Overwrite, AppendFrame, At, locks
<1>3. /\ g.job = "txn" /\ g.slot # 0 /\ GoodHdr(g.hdr) /\ IsASeq(g.added)
      /\ g.hdr.mx + Len(g.added) <= MaxFrame
  BY <1>1, <1>2 DEF ConInv, JobInv, SlotInv, DataInv
<1>4. CASE Overwrite(c)
  <2> DEFINE n == FindFrame(g.min, g.hdr.mx, p)
             h == [g EXCEPT !.todo = Tail(g.todo),
                    !.dirty = IF g.com THEN g.dirty ELSE g.dirty \ {p},
                    !.redo = IF g.redo = 0 \/ n < g.redo THEN n ELSE g.redo]
  <2>1. con' = [con EXCEPT ![c] = h] /\ PutFrame(n, [wal[n].cur EXCEPT !.val = g.cache[p]])
    BY <1>4 DEF Overwrite, Put
  <2>2. LogInv'
    BY <1>2, <2>1, LogWrites
  <2>3. /\ h = [f \in Fields |-> h[f]] /\ h.pc = g.pc /\ h.job = g.job /\ h.slot = g.slot
        /\ h.hdr = g.hdr /\ h.tmp = g.tmp /\ h.added = g.added /\ h.mode = g.mode
    BY <1>1 DEF ConInv, Fields
  <2> HIDE DEF h
  <2>4. QED
    BY <1>2, <1>3, <2>1, <2>2, <2>3, WriterMoves
<1>5. CASE AppendFrame(c)
  <2> DEFINE n == g.hdr.mx + Len(g.added) + 1
             sum == Append(g.hdr.sum, Body([pg |-> p, val |-> g.cache[p],
                      com |-> g.com /\ Len(g.todo) = 1, salt |-> 0, sum |-> <<>>]))
             added == Append(g.added, p)
  <2>1. n <= MaxFrame
    BY <1>5 DEF AppendFrame
  <2>2. PICK new \in {g.hdr, [g.hdr EXCEPT !.sum = sum]} :
          /\ \E f : PutFrame(n, f)
          /\ con' = [con EXCEPT ![c] = [g EXCEPT !.todo = Tail(g.todo), !.added = added,
                                                 !.hdr = new]]
    <3>1. CASE g.redo = 0
      BY <1>5, <3>1 DEF AppendFrame, Put
    <3>2. CASE g.redo # 0
      <4> DEFINE h1 == [g EXCEPT !.todo = Tail(g.todo), !.added = added]
                 h2 == [g EXCEPT !.todo = Tail(g.todo), !.added = added, !.hdr = g.hdr]
      <4>1. h1 = h2
        BY <1>1 DEF ConInv, Fields
      <4>2. \E f : PutFrame(n, f) /\ con' = [con EXCEPT ![c] = h1]
        BY <1>5, <3>2 DEF AppendFrame, Put
      <4>3. QED
        BY <4>1, <4>2
    <3>3. QED
      BY <3>1, <3>2
  <2> HIDE DEF sum
  <2>3. GoodHdr(new) /\ new.mx = g.hdr.mx
    BY <1>3 DEF GoodHdr, Hdr
  <2>4. IsASeq(added) /\ Len(added) = Len(g.added) + 1
    BY <1>3, Rows
  <2>5. g.hdr.mx + Len(added) <= MaxFrame
    BY <1>3, <2>1, <2>4, Bounds DEF GoodHdr, IsASeq
  <2> HIDE DEF added
  <2> DEFINE h == [g EXCEPT !.todo = Tail(g.todo), !.added = added, !.hdr = new]
  <2>6. LogInv'
    BY <1>2, <2>2, LogWrites
  <2>7. /\ h = [f \in Fields |-> h[f]] /\ h.pc = g.pc /\ h.job = g.job /\ h.slot = g.slot
        /\ h.hdr = new /\ h.tmp = g.tmp /\ h.added = added /\ h.mode = g.mode
    BY <1>1 DEF ConInv, Fields
  <2>8. con' = [con EXCEPT ![c] = h]
    BY <2>2
  <2> HIDE DEF h
  <2>9. QED
    BY <1>2, <1>3, <2>3, <2>4, <2>5, <2>6, <2>7, <2>8, WriterMoves
<1>6. QED
  BY <1>4, <1>5

\* The checksums after a frame that was written over, and the sync of the log.
LEMMA FinishStep ==
  ASSUME IInv, NEW c \in Conns, RewriteChecksums(c) \/ SyncCommit(c)
  PROVE  IInv'
<1> DEFINE g == con[c]
<1>1. ConInv(c, g, excl, share, shm)
  BY DEF IInv
<1>2. g.pc = "frame" /\ UNCHANGED <<shm, excl, share>>
  BY DEF RewriteChecksums, SyncCommit, AllWritten, At, locks
<1>3. /\ g.job = "txn" /\ g.slot # 0 /\ GoodHdr(g.hdr) /\ IsASeq(g.added)
      /\ g.hdr.mx + Len(g.added) <= MaxFrame
  BY <1>1, <1>2 DEF ConInv, JobInv, SlotInv, DataInv
<1>4. CASE RewriteChecksums(c)
  <2> DEFINE last == g.hdr.mx + Len(g.added)
             sum == [n \in 1..last |-> Body(wal[n].cur)]
             new == [g.hdr EXCEPT !.sum = sum]
             h == [g EXCEPT !.redo = 0, !.hdr = new]
             frame(n) == [wal[n].cur EXCEPT !.salt = g.hdr.salt, !.sum = SubSeq(sum, 1, n)]
  <2>1. /\ con' = [con EXCEPT ![c] = h] /\ UNCHANGED <<whdr, uncut>>
        /\ wal' = [n \in Frames |->
             IF n \in g.redo..last THEN WrittenPage(wal[n], frame(n), NoFrame) ELSE wal[n]]
    BY <1>4 DEF RewriteChecksums, Put
  <2> HIDE DEF sum
  <2>2. GoodHdr(new) /\ new.mx = g.hdr.mx
    BY <1>3 DEF GoodHdr, Hdr
  <2>3. LogInv'
    <3>1. LogInv /\ FramesInv(wal)
      BY DEF IInv, LogInv
    <3>2. ASSUME NEW n \in Frames
          PROVE  IsFiniteSet(wal'[n].may)
      <4>1. IsFiniteSet(wal[n].may)
        BY <3>1 DEF FramesInv
      <4>2. IsFiniteSet(WrittenPage(wal[n], frame(n), NoFrame).may)
        BY <4>1, WrittenIsFinite
      <4>3. wal'[n] \in {WrittenPage(wal[n], frame(n), NoFrame), wal[n]}
        BY <2>1
      <4>4. QED
        BY <4>1, <4>2, <4>3
    <3>3. FramesInv(wal')
      BY <2>1, <3>2 DEF FramesInv
    <3>4. QED
      BY <2>1, <3>1, <3>3 DEF LogInv
  <2> HIDE DEF new
  <2>4. /\ h = [f \in Fields |-> h[f]] /\ h.pc = g.pc /\ h.job = g.job /\ h.slot = g.slot
        /\ h.hdr = new /\ h.tmp = g.tmp /\ h.added = g.added /\ h.mode = g.mode
    BY <1>1 DEF ConInv, Fields
  <2> HIDE DEF h
  <2>5. QED
    BY <1>2, <1>3, <2>1, <2>2, <2>3, <2>4, WriterMoves
<1>5. CASE SyncCommit(c)
  <2> DEFINE h == [g EXCEPT !.pc = "index"]
  <2>1. con' = [con EXCEPT ![c] = h]
    BY <1>5 DEF SyncCommit, Goto
  <2>2. LogInv'
    BY <1>5, LogWrites DEF SyncCommit
  <2>3. /\ h = [f \in Fields |-> h[f]] /\ h.pc = "index" /\ h.job = g.job /\ h.slot = g.slot
        /\ h.hdr = g.hdr /\ h.tmp = g.tmp /\ h.added = g.added /\ h.mode = g.mode
    BY <1>1 DEF ConInv, Fields
  <2> HIDE DEF h
  <2>4. QED
    BY <1>2, <1>3, <2>1, <2>2, <2>3, WriterMoves
<1>6. QED
  BY <1>4, <1>5

\* The index, and with a commit the second copy of the header.
LEMMA IndexStep ==
  ASSUME IInv, NEW c \in Conns, Index(c)
  PROVE  IInv'
<1> DEFINE g == con[c]
           new == Hdr(g.hdr.salt, g.hdr.mx + Len(g.added), g.hdr.sum,
                      IF g.com THEN 1 ELSE g.hdr.chg)
           idx == IF g.added = <<>> THEN shm.idx
                  ELSE SubSeq(shm.idx, 1, g.hdr.mx) \o g.added
           h == [g EXCEPT !.pc = IF g.com THEN "publish" ELSE "write", !.hdr = new,
                  !.dirty = IF g.com THEN g.dirty ELSE g.dirty \ ToSet(g.added),
                  !.added = <<>>, !.first = 0]
<1>1. ConInv(c, g, excl, share, shm) /\ LocksInv(excl, share) /\ ShmInv(shm)
  BY DEF IInv
<1>2. /\ con' = [con EXCEPT ![c] = h] /\ UNCHANGED <<excl, share>> /\ UNCHANGED log
      /\ shm' = [shm EXCEPT !.idx = idx, !.h1 = IF g.com THEN new ELSE @]
      /\ g.pc \in {"frame", "index"}
  BY DEF Index, Put, At, AllWritten, locks
<1>3. /\ g.job = "txn" /\ g.slot # 0 /\ GoodHdr(g.hdr) /\ IsASeq(g.added)
      /\ g.hdr.mx + Len(g.added) <= MaxFrame /\ g.mode = Passive
      /\ c \in excl[WRITE_LOCK] /\ GoodHdr(shm.h0) /\ shm.h0.mx <= g.hdr.mx
      /\ InWrite(g) /\ Shares(g)
  BY <1>1, <1>2 DEF ConInv, JobInv, SlotInv, DataInv, MarkInv, InWrite, Owns, Shares
<1>4. GoodHdr(new) /\ new.mx = g.hdr.mx + Len(g.added) /\ shm.h0.mx <= new.mx
  BY <1>3, Bounds DEF GoodHdr, Hdr, IsASeq
<1>5. IsASeq(idx) /\ Len(idx) <= MaxFrame
  <2>1. IsASeq(shm.idx) /\ Len(shm.idx) <= MaxFrame /\ g.hdr.mx \in Nat
    BY <1>1, <1>3, Bounds DEF ShmInv, GoodHdr
  <2> DEFINE cut == SubSeq(shm.idx, 1, g.hdr.mx)
  <2>2. IsASeq(cut) /\ Len(cut) = g.hdr.mx
    BY <2>1, Rows
  <2> HIDE DEF cut
  <2>3. IsASeq(cut \o g.added) /\ Len(cut \o g.added) = g.hdr.mx + Len(g.added)
    <3>1. \A t : IsASeq(t) => IsASeq(cut \o t) /\ Len(cut \o t) = Len(cut) + Len(t)
      BY <2>2, Rows
    <3>2. QED
      BY <1>3, <2>2, <3>1
  <2>4. QED
    BY <1>3, <2>1, <2>3 DEF cut
<1> HIDE DEF new, idx
<1>6. ShmInv(shm') /\ shm'.h0 = shm.h0 /\ shm'.mark = shm.mark
  <2>1. shm' = [h0 |-> shm.h0, h1 |-> IF g.com THEN new ELSE shm.h1, back |-> shm.back,
                mark |-> shm.mark, idx |-> idx]
    BY <1>1, <1>2 DEF ShmInv
  <2>2. QED
    BY <1>1, <1>4, <1>5, <2>1 DEF ShmInv, AnyHdr
<1>7. /\ h = [f \in Fields |-> h[f]] /\ h.pc \in {"publish", "write"} /\ h.job = g.job
      /\ h.slot = g.slot /\ h.hdr = new /\ h.tmp = g.tmp /\ h.added = <<>> /\ h.mode = g.mode
  BY <1>1 DEF ConInv, Fields
<1> HIDE DEF h
<1>8. JobInv(h) /\ SlotInv(h) /\ Owns(h) = {WRITE_LOCK} /\ InWrite(h)
  BY <1>1, <1>3, <1>7 DEF ConInv, JobInv, SlotInv, Owns, InWrite
<1>9. DataInv(h)
  BY <1>1, <1>3, <1>4, <1>7, DataKept DEF ConInv
<1>10. MarkInv(h, shm')
  BY <1>1, <1>2, <1>3, <1>4, <1>6, <1>7 DEF ConInv, MarkInv
<1>11. ConInv(c, h, excl', share', shm')
  BY <1>1, <1>2, <1>3, <1>7, <1>8, <1>9, <1>10 DEF ConInv
<1>12. LocksInv(excl', share') /\ KeepsOthers(c, excl, share, excl', share')
  BY <1>1, <1>2 DEF KeepsOthers
<1>13. QED
  BY <1>2, <1>6, <1>11, <1>12, SameLog, OneMoves

\* The first copy of the header: the commit can be seen.
LEMMA PublishStep ==
  ASSUME IInv, NEW c \in Conns, Publish(c)
  PROVE  IInv'
<1> DEFINE g == con[c]
           h == [g EXCEPT !.pc = "done", !.dirty = {}, !.com = FALSE]
<1>1. ConInv(c, g, excl, share, shm) /\ LocksInv(excl, share) /\ ShmInv(shm)
  BY DEF IInv
<1>2. /\ con' = [con EXCEPT ![c] = h] /\ UNCHANGED <<excl, share>> /\ UNCHANGED log
      /\ shm' = [shm EXCEPT !.h0 = g.hdr] /\ g.pc = "publish"
  BY DEF Publish, Put, At, locks
<1>3. /\ g.job = "txn" /\ g.slot # 0 /\ GoodHdr(g.hdr) /\ g.added = <<>> /\ g.mode = Passive
      /\ c \in excl[WRITE_LOCK] /\ shm.h0.mx <= g.hdr.mx /\ GoodHdr(shm.h0)
      /\ InWrite(g) /\ Shares(g) /\ g.slot \in Readers /\ shm.mark[g.slot] <= shm.h0.mx
  <2>1. /\ g.job = "txn" /\ g.slot # 0 /\ GoodHdr(g.hdr) /\ g.added = <<>>
        /\ g.mode = Passive /\ g.slot \in 0..NReader - 1
    BY <1>1, <1>2 DEF ConInv, JobInv, SlotInv, DataInv
  <2>2. InWrite(g) /\ Shares(g) /\ c \in excl[WRITE_LOCK]
    BY <1>1, <1>2, <2>1 DEF ConInv, InWrite, Owns, Shares
  <2>3. shm.h0.mx <= g.hdr.mx /\ GoodHdr(shm.h0) /\ shm.mark[g.slot] <= shm.h0.mx
    BY <1>1, <1>2, <2>1, <2>2 DEF ConInv, MarkInv
  <2>4. QED
    BY <2>1, <2>2, <2>3, Bounds DEF Readers
<1>4. ShmInv(shm') /\ shm'.mark = shm.mark /\ shm'.h0 = g.hdr
  BY <1>1, <1>2, <1>3 DEF ShmInv, AnyHdr
<1>5. /\ h = [f \in Fields |-> h[f]] /\ h.pc = "done" /\ h.job = g.job
      /\ h.slot = g.slot /\ h.hdr = g.hdr /\ h.tmp = g.tmp /\ h.added = <<>> /\ h.mode = g.mode
  BY <1>1, <1>3 DEF ConInv, Fields
<1> HIDE DEF h
<1>6. JobInv(h) /\ SlotInv(h) /\ Owns(h) = {WRITE_LOCK}
  BY <1>1, <1>3, <1>5 DEF ConInv, JobInv, SlotInv, Owns, InWrite
<1>7. DataInv(h)
  BY <1>1, <1>3, <1>5, DataKept DEF ConInv
<1>8. MarkInv(h, shm')
  <2>1. shm.mark[g.slot] \in Int
    BY <1>1, <1>3, Bounds DEF ShmInv, READMARK_NOT_USED
  <2>2. QED
    BY <1>3, <1>4, <1>5, <2>1 DEF MarkInv, GoodHdr
<1>9. ConInv(c, h, excl', share', shm')
  BY <1>1, <1>2, <1>3, <1>5, <1>6, <1>7, <1>8 DEF ConInv
<1>10. LocksInv(excl', share') /\ KeepsOthers(c, excl, share, excl', share')
  BY <1>1, <1>2 DEF KeepsOthers
<1>11. QED
  BY <1>2, <1>3, <1>4, <1>9, <1>10, SameLog, OneMoves

\* The writer is a reader again, after a commit or without.
LEMMA EndWriteStep ==
  ASSUME IInv, NEW c \in Conns, EndWrite(c) \/ Rollback(c)
  PROVE  IInv'
<1> DEFINE g == con[c]
           S == {WRITE_LOCK}
<1>1. ConInv(c, g, excl, share, shm) /\ LocksInv(excl, share) /\ ShmInv(shm)
  BY DEF IInv
<1>2. /\ share' = share /\ UNCHANGED log /\ g.pc \in {"done", "write"}
      /\ excl' = [s \in Slots |-> IF s \in S THEN {} ELSE excl[s]]
  BY DEF EndWrite, Rollback, At, Disown
<1>3. /\ g.job = "txn" /\ GoodHdr(g.hdr) /\ g.added = <<>> /\ g.mode = Passive
      /\ c \in excl[WRITE_LOCK] /\ shm.h0.mx <= g.hdr.mx /\ GoodHdr(shm.h0)
      /\ InWrite(g) /\ Shares(g) /\ g.slot \in 0..NReader - 1
  BY <1>1, <1>2 DEF ConInv, JobInv, SlotInv, DataInv, MarkInv, InWrite, Owns, Shares
<1>4. LocksInv(excl', share') /\ KeepsOthers(c, excl, share, excl', share')
  <2>1. \A s \in S : s \in Slots /\ c \in excl[s]
    BY <1>3, LockNumbers
  <2> HIDE DEF S
  <2>2. QED
    BY <1>1, <1>2, <2>1, DisownLocks
<1>5. PICK h :
        /\ con' = [con EXCEPT ![c] = h] /\ h = [f \in Fields |-> h[f]] /\ h.pc = "read"
        /\ h.job = g.job /\ h.slot = g.slot /\ h.hdr \in {g.hdr, shm.h0} /\ h.tmp = g.tmp
        /\ h.added = g.added /\ h.mode = g.mode
  <2>1. CASE EndWrite(c)
    <3> DEFINE h == [g EXCEPT !.pc = "read", !.redo = 0]
    <3>1. con' = [con EXCEPT ![c] = h]
      BY <2>1 DEF EndWrite, Put
    <3>2. /\ h = [f \in Fields |-> h[f]] /\ h.pc = "read"
          /\ h.job = g.job /\ h.slot = g.slot /\ h.hdr = g.hdr /\ h.tmp = g.tmp
          /\ h.added = g.added /\ h.mode = g.mode
      BY <1>1 DEF ConInv, Fields
    <3> HIDE DEF h
    <3>3. QED
      BY <3>1, <3>2
  <2>2. CASE Rollback(c)
    <3> DEFINE h == [g EXCEPT !.pc = "read", !.hdr = shm.h0, !.dirty = {}, !.redo = 0,
                      !.cache = Image(g.min, IF g.slot = 0 THEN 0 ELSE shm.h0.mx)]
    <3>1. con' = [con EXCEPT ![c] = h]
      BY <2>2 DEF Rollback, Put
    <3>2. /\ h = [f \in Fields |-> h[f]] /\ h.pc = "read"
          /\ h.job = g.job /\ h.slot = g.slot /\ h.hdr = shm.h0 /\ h.tmp = g.tmp
          /\ h.added = g.added /\ h.mode = g.mode
      BY <1>1 DEF ConInv, Fields
    <3> HIDE DEF h
    <3>3. QED
      BY <3>1, <3>2
  <2>3. QED
    BY <2>1, <2>2
<1>6. ShmInv(shm') /\ shm'.h0 = shm.h0 /\ shm'.mark = shm.mark
  <2>1. CASE EndWrite(c)
    BY <1>1, <2>1 DEF EndWrite
  <2>2. CASE Rollback(c)
    <3> DEFINE cut == SubSeq(shm.idx, 1, shm.h0.mx)
    <3>1. PICK idx \in {shm.idx, cut} : shm' = [shm EXCEPT !.idx = idx]
      BY <2>2 DEF Rollback
    <3>2. IsASeq(shm.idx) /\ Len(shm.idx) <= MaxFrame /\ shm.h0.mx \in 0..MaxFrame
      BY <1>1, <1>3 DEF ShmInv, GoodHdr
    <3>3. IsASeq(cut) /\ Len(cut) <= MaxFrame
      BY <3>2, Rows, Bounds
    <3> HIDE DEF cut
    <3>4. QED
      BY <1>1, <3>1, <3>2, <3>3 DEF ShmInv
  <2>3. QED
    BY <2>1, <2>2
<1>7. JobInv(h) /\ SlotInv(h) /\ Owns(h) = {} /\ ~InWrite(h)
  BY <1>1, <1>3, <1>5 DEF ConInv, JobInv, SlotInv, Owns, InWrite
<1>8. DataInv(h)
  BY <1>1, <1>3, <1>5, DataKept DEF ConInv
<1>9. MarkInv(h, shm')
  <2>1. g.slot # 0 => shm.mark[g.slot] <= shm.h0.mx /\ shm.mark[g.slot] \in Int
    BY <1>1, <1>2, <1>3, Bounds DEF ConInv, MarkInv, ShmInv, READMARK_NOT_USED, Readers
  <2>2. QED
    BY <1>3, <1>5, <1>6, <1>7, <2>1 DEF MarkInv, GoodHdr
<1>10. ConInv(c, h, excl', share', shm')
  BY <1>1, <1>2, <1>3, <1>5, <1>7, <1>8, <1>9 DEF ConInv
<1>11. QED
  BY <1>2, <1>4, <1>5, <1>6, <1>10, SameLog, OneMoves

-----------------------------------------------------------------------------
\* sqlite3WalCheckpoint() and walCheckpoint()

\* The lock of checkpoints, and of a writer where it is free.
LEMMA BeginCheckpointStep ==
  ASSUME IInv, NEW c \in Conns, NEW mode, BeginCheckpoint(c, mode)
  PROVE  IInv'
<1> DEFINE g == con[c]
           write == mode # Passive /\ CanOwn(WRITE_LOCK)
           S == {CKPT_LOCK} \cup (IF write THEN {WRITE_LOCK} ELSE {})
           h == [g EXCEPT !.pc = "copy1", !.job = "ckpt", !.tmp = shm.h0,
                   !.mode = IF write THEN mode ELSE Passive]
<1>1. ConInv(c, g, excl, share, shm) /\ LocksInv(excl, share) /\ ShmInv(shm)
  BY DEF IInv
<1>2. /\ con' = [con EXCEPT ![c] = h] /\ UNCHANGED <<shm, share>> /\ UNCHANGED log
      /\ excl' = [s \in Slots |-> IF s \in S THEN {c} ELSE excl[s]]
      /\ g.pc = "idle" /\ CanOwn(CKPT_LOCK)
  BY DEF BeginCheckpoint, Put, At, Own
<1>3. /\ LocksInv(excl', share') /\ KeepsOthers(c, excl, share, excl', share')
      /\ \A s \in S : c \in excl'[s]
  <2>1. \A s \in S : s \in Slots /\ (c \in excl[s] \/ (excl[s] = {} /\ share[s] = {}))
    BY <1>2, LockNumbers DEF CanOwn
  <2> HIDE DEF S
  <2>2. QED
    BY <1>1, <1>2, <2>1, OwnLocks
<1>4. /\ h = [f \in Fields |-> h[f]] /\ h.pc = "copy1" /\ h.job = "ckpt" /\ h.slot = g.slot
      /\ h.hdr = g.hdr /\ h.tmp = shm.h0 /\ h.added = g.added
      /\ h.mode = IF write THEN mode ELSE Passive
  BY <1>1 DEF ConInv, Fields
<1> HIDE DEF h
<1>5. g.job = "none" /\ g.slot = 0 /\ g.added = <<>>
  BY <1>1, <1>2 DEF ConInv, JobInv, SlotInv, DataInv
<1>6. JobInv(h) /\ SlotInv(h) /\ ~Shares(h) /\ ~InWrite(h)
  BY <1>1, <1>4, <1>5 DEF ConInv, JobInv, SlotInv, Shares, InWrite
<1>7. Owns(h) \subseteq S
  BY <1>4, <1>6 DEF Owns
<1>8. DataInv(h)
  BY <1>1, <1>2, <1>4 DEF ConInv, DataInv, ShmInv
<1>9. ConInv(c, h, excl', share', shm')
  BY <1>3, <1>4, <1>5, <1>6, <1>7, <1>8 DEF ConInv, MarkInv
<1>10. QED
  BY <1>1, <1>2, <1>3, <1>9, SameLog, OneMoves

\* A step of a checkpoint that needs no other lock than before.
LEMMA CkptMoves ==
  ASSUME IInv, NEW c \in Conns, con[c].job = "ckpt", con[c].pc \in CkptPcs,
         NEW h, con' = [con EXCEPT ![c] = h], UNCHANGED <<shm, excl, share>>, LogInv',
         h = [f \in Fields |-> h[f]], h.job = "ckpt", h.pc \in CkptPcs \ {"cut"},
         h.pc \in CopyPcs => con[c].pc \in CopyPcs,
         h.slot = con[c].slot, h.hdr = con[c].hdr, h.tmp = con[c].tmp,
         h.added = con[c].added, h.mode = con[c].mode,
         h.pc \in SafePcs => h.safe \in 0..h.hdr.mx, h.pc = "mark" => h.i \in 1..NReader
  PROVE  IInv'
<1> DEFINE g == con[c]
<1>1. ConInv(c, g, excl, share, shm)
  BY DEF IInv
<1>2. GoodHdr(g.hdr) /\ g.slot = 0 /\ g.added = <<>>
  BY <1>1 DEF ConInv, SlotInv, DataInv
<1>3. JobInv(h) /\ SlotInv(h) /\ ~Shares(h) /\ ~InWrite(h)
  BY <1>1, <1>2 DEF ConInv, JobInv, SlotInv, InWrite, Shares
<1>4. Owns(h) \subseteq Owns(g)
  BY <1>3 DEF Owns, InWrite
<1>5. DataInv(h)
  BY <1>1, <1>2, DataKept DEF ConInv
<1>6. ConInv(c, h, excl, share, shm)
  BY <1>1, <1>3, <1>4, <1>5 DEF ConInv, MarkInv
<1>7. QED
  BY <1>6, JustMoves

\* Is there anything to copy?
LEMMA StartStep ==
  ASSUME IInv, NEW c \in Conns, StartCheckpoint(c) \/ Iterator(c)
  PROVE  IInv'
<1> DEFINE g == con[c]
           last == [p \in Pages |-> FindFrame(1, con[c].hdr.mx, p)]
<1>1. ConInv(c, g, excl, share, shm)
  BY DEF IInv
<1>2. UNCHANGED <<shm, excl, share>> /\ UNCHANGED log /\ g.pc \in {"start", "mark"}
  BY DEF StartCheckpoint, Iterator, At, locks
<1>3. /\ g.job = "ckpt" /\ GoodHdr(g.hdr) /\ g.hdr.mx \in 0..g.hdr.mx
      /\ g.pc = "mark" => g.safe \in 0..g.hdr.mx
  <2>1. g.job = "ckpt"
    BY <1>1, <1>2 DEF ConInv, JobInv
  <2>2. GoodHdr(g.hdr) /\ (g.pc = "mark" => g.safe \in 0..g.hdr.mx)
    BY <1>1, <1>2 DEF ConInv, DataInv
  <2>3. g.hdr.mx \in 0..g.hdr.mx
    BY <2>2, Bounds DEF GoodHdr
  <2>4. QED
    BY <2>1, <2>2, <2>3
<1>4. CASE con' = [con EXCEPT ![c] = [g EXCEPT !.pc = "mark", !.safe = g.hdr.mx, !.i = 1]]
  <2> DEFINE h == [g EXCEPT !.pc = "mark", !.safe = g.hdr.mx, !.i = 1]
  <2>1. /\ h = [f \in Fields |-> h[f]] /\ h.pc = "mark" /\ h.job = g.job /\ h.slot = g.slot
        /\ h.hdr = g.hdr /\ h.tmp = g.tmp /\ h.added = g.added /\ h.mode = g.mode
        /\ h.safe = g.hdr.mx /\ h.i = 1
    BY <1>1 DEF ConInv, Fields
  <2>2. con' = [con EXCEPT ![c] = h]
    BY <1>4
  <2>3. LogInv' /\ 1 \in 1..NReader
    BY <1>2, SameLog, Bounds
  <2>4. h.safe \in 0..h.hdr.mx
    BY <1>3, <2>1
  <2> HIDE DEF h
  <2>5. g.pc \in CkptPcs /\ h.pc \in CkptPcs \ ({"cut"} \cup CopyPcs)
    BY <1>2, <2>1
  <2>6. QED
    BY <1>2, <1>3, <2>1, <2>2, <2>3, <2>4, <2>5, CkptMoves
<1>5. CASE con' = [con EXCEPT ![c].pc = "copied"]
  <2> DEFINE h == [g EXCEPT !.pc = "copied"]
  <2>1. /\ h = [f \in Fields |-> h[f]] /\ h.pc = "copied" /\ h.job = g.job /\ h.slot = g.slot
        /\ h.hdr = g.hdr /\ h.tmp = g.tmp /\ h.added = g.added /\ h.mode = g.mode
    BY <1>1 DEF ConInv, Fields
  <2>2. con' = [con EXCEPT ![c] = h]
    BY <1>5
  <2> HIDE DEF h
  <2>3. QED
    BY <1>2, <1>3, <2>1, <2>2, SameLog, CkptMoves
<1>6. CASE g.pc = "mark" /\ con' = [con EXCEPT ![c] = [g EXCEPT !.pc = "lock0", !.iter = last]]
  <2> HIDE DEF last
  <2> DEFINE h == [g EXCEPT !.pc = "lock0", !.iter = last]
  <2>1. /\ h = [f \in Fields |-> h[f]] /\ h.pc = "lock0" /\ h.job = g.job /\ h.slot = g.slot
        /\ h.hdr = g.hdr /\ h.tmp = g.tmp /\ h.added = g.added /\ h.mode = g.mode
        /\ h.safe = g.safe
    BY <1>1 DEF ConInv, Fields
  <2>2. con' = [con EXCEPT ![c] = h]
    BY <1>6
  <2> HIDE DEF h
  <2>3. LogInv' /\ g.job = "ckpt" /\ h.safe \in 0..h.hdr.mx
    BY <1>2, <1>3, <1>6, <2>1, SameLog
  <2>4. g.pc = "mark"
    BY <1>6
  <2>5. QED
    BY <1>2, <2>1, <2>2, <2>3, <2>4, CkptMoves
<1>7. QED
  BY <1>4, <1>5, <1>6 DEF StartCheckpoint, Iterator, Put, Goto, At

\* A read-mark is raised if nobody is on it, and else it bounds the checkpoint.
LEMMA CheckMarkStep ==
  ASSUME IInv, NEW c \in Conns, CheckMark(c)
  PROVE  IInv'
<1> DEFINE g == con[c]
           y == shm.mark[g.i]
           raised == IF g.i = 1 THEN g.safe ELSE READMARK_NOT_USED
<1>1. ConInv(c, g, excl, share, shm) /\ LocksInv(excl, share) /\ ShmInv(shm)
  BY DEF IInv
<1>2. UNCHANGED <<excl, share>> /\ UNCHANGED log /\ g.pc = "mark" /\ g.i < NReader
  BY DEF CheckMark, At, locks
<1>3. /\ g.job = "ckpt" /\ GoodHdr(g.hdr) /\ g.hdr.mx \in 0..MaxFrame
      /\ g.safe \in 0..g.hdr.mx /\ g.slot = 0 /\ g.added = <<>>
      /\ g.i \in Readers /\ g.i + 1 \in 1..NReader
  <2>1. /\ g.job = "ckpt" /\ GoodHdr(g.hdr) /\ g.hdr.mx \in 0..MaxFrame
        /\ g.safe \in 0..g.hdr.mx /\ g.added = <<>> /\ g.i \in 1..NReader
    BY <1>1, <1>2 DEF ConInv, JobInv, DataInv, GoodHdr
  <2>2. g.slot = 0
    BY <1>1, <1>2, <2>1 DEF ConInv, SlotInv
  <2>3. QED
    BY <1>2, <2>1, <2>2, Bounds DEF Readers
<1>4. y \in 0..READMARK_NOT_USED /\ raised \in 0..READMARK_NOT_USED
  <2>1. shm.mark \in [Readers -> 0..READMARK_NOT_USED]
    BY <1>1 DEF ShmInv
  <2>2. y \in 0..READMARK_NOT_USED
    BY <1>3, <2>1
  <2>3. raised \in 0..READMARK_NOT_USED
    BY <1>3, Bounds DEF READMARK_NOT_USED
  <2>4. QED
    BY <2>2, <2>3
<1>5. PICK safe \in 0..g.hdr.mx, mark \in [Readers -> 0..READMARK_NOT_USED] :
        /\ con' = [con EXCEPT ![c] = [g EXCEPT !.i = g.i + 1, !.safe = safe]]
        /\ shm' = [shm EXCEPT !.mark = mark]
        /\ \A i \in Readers : mark[i] = shm.mark[i] \/ share[READ_LOCK(i)] = {}
  <2>1. CASE g.safe > y /\ CanOwn(READ_LOCK(g.i))
    <3> DEFINE mark == [shm.mark EXCEPT ![g.i] = raised]
               h == [g EXCEPT !.i = g.i + 1]
    <3>1. con' = [con EXCEPT ![c] = h] /\ shm' = [shm EXCEPT !.mark[g.i] = raised]
      BY <2>1 DEF CheckMark, Put
    <3>2. h = [g EXCEPT !.i = g.i + 1, !.safe = g.safe]
      BY <1>1 DEF ConInv, Fields
    <3>3. shm' = [shm EXCEPT !.mark = mark]
      BY <1>1, <3>1 DEF ShmInv
    <3>4. mark \in [Readers -> 0..READMARK_NOT_USED]
      BY <1>1, <1>3, <1>4 DEF ShmInv
    <3>5. \A i \in Readers : mark[i] = shm.mark[i] \/ share[READ_LOCK(i)] = {}
      BY <1>1, <1>3, <2>1 DEF ShmInv, CanOwn
    <3>6. con' = [con EXCEPT ![c] = [g EXCEPT !.i = g.i + 1, !.safe = g.safe]]
      BY <3>1, <3>2
    <3> HIDE DEF mark, h
    <3>7. QED
      BY <1>3, <3>3, <3>4, <3>5, <3>6
  <2>2. CASE ~(g.safe > y /\ CanOwn(READ_LOCK(g.i)))
    <3> DEFINE least == Min({g.safe, y})
    <3>1. con' = [con EXCEPT ![c] = [g EXCEPT !.i = g.i + 1, !.safe = least]] /\ shm' = shm
      BY <2>2 DEF CheckMark, Put
    <3>2. least \in 0..g.hdr.mx
      <4> DEFINE two == {g.safe, y}
      <4>1. two \in SUBSET Nat /\ two # {} /\ g.safe \in two
        BY <1>3, <1>4, Bounds DEF READMARK_NOT_USED
      <4> HIDE DEF two
      <4>2. Min(two) \in two /\ Min(two) <= g.safe
        BY <4>1, MinOfNat
      <4>3. QED
        BY <1>3, <4>1, <4>2 DEF two
    <3> HIDE DEF least
    <3>3. shm' = [shm EXCEPT !.mark = shm.mark]
      BY <1>1, <3>1 DEF ShmInv
    <3>4. QED
      BY <1>1, <3>1, <3>2, <3>3 DEF ShmInv
  <2>3. QED
    BY <2>1, <2>2
<1> DEFINE h == [g EXCEPT !.i = g.i + 1, !.safe = safe]
<1>6. /\ h = [f \in Fields |-> h[f]] /\ h.pc = g.pc /\ h.job = g.job /\ h.slot = g.slot
      /\ h.hdr = g.hdr /\ h.tmp = g.tmp /\ h.added = g.added /\ h.mode = g.mode
      /\ h.safe = safe /\ h.i = g.i + 1
  BY <1>1 DEF ConInv, Fields
<1>7. con' = [con EXCEPT ![c] = h]
  BY <1>5
<1> HIDE DEF h
<1>8. ShmInv(shm') /\ shm'.h0 = shm.h0 /\ shm'.mark = mark
  <2>1. shm' = [h0 |-> shm.h0, h1 |-> shm.h1, back |-> shm.back, mark |-> mark, idx |-> shm.idx]
    BY <1>1, <1>5 DEF ShmInv
  <2>2. QED
    BY <1>1, <2>1 DEF ShmInv
<1>9. JobInv(h) /\ SlotInv(h) /\ ~Shares(h) /\ ~InWrite(h) /\ Owns(h) = Owns(g)
  BY <1>1, <1>2, <1>3, <1>6 DEF ConInv, JobInv, SlotInv, InWrite, Shares, Owns
<1>10. DataInv(h)
  BY <1>1, <1>2, <1>3, <1>6, DataKept DEF ConInv
<1>11. ConInv(c, h, excl', share', shm')
  BY <1>1, <1>2, <1>3, <1>6, <1>9, <1>10 DEF ConInv, MarkInv
<1>12. LocksInv(excl', share') /\ KeepsOthers(c, excl, share, excl', share')
  BY <1>1, <1>2 DEF KeepsOthers
<1>13. QED
  BY <1>2, <1>5, <1>7, <1>8, <1>11, <1>12, SameLog, OneMoves

\* READ_LOCK(0), with which no reader begins to ignore the log.
LEMMA LockDbStep ==
  ASSUME IInv, NEW c \in Conns, LockDb(c)
  PROVE  IInv'
<1> DEFINE g == con[c]
           iter == [p \in {q \in Pages : g.iter[q] \in shm.back + 1..g.safe} |-> g.iter[p]]
<1>1. ConInv(c, g, excl, share, shm) /\ LocksInv(excl, share) /\ ShmInv(shm)
  BY DEF IInv
<1>2. UNCHANGED <<shm, share>> /\ UNCHANGED log /\ g.pc = "lock0"
  BY DEF LockDb, At
<1>3. /\ g.job = "ckpt" /\ GoodHdr(g.hdr) /\ g.slot = 0 /\ g.added = <<>>
      /\ g.safe \in 0..g.hdr.mx
  BY <1>1, <1>2 DEF ConInv, JobInv, SlotInv, DataInv
<1>4. CASE /\ CanOwn(READ_LOCK(0)) /\ Own(c, {READ_LOCK(0)})
           /\ con' = [con EXCEPT ![c] = [g EXCEPT !.pc = "synclog", !.iter = iter]]
  <2> DEFINE S == {READ_LOCK(0)}
  <2>1. /\ LocksInv(excl', share') /\ KeepsOthers(c, excl, share, excl', share')
        /\ \A s \in S : c \in excl'[s]
        /\ \A s \in Slots : c \in excl[s] => c \in excl'[s]
    <3>1. \A s \in S : s \in Slots /\ (c \in excl[s] \/ (excl[s] = {} /\ share[s] = {}))
      BY <1>4, LockNumbers DEF CanOwn
    <3>2. excl' = [s \in Slots |-> IF s \in S THEN {c} ELSE excl[s]]
      BY <1>4 DEF Own
    <3> HIDE DEF S
    <3>3. QED
      BY <1>1, <1>2, <3>1, <3>2, OwnLocks
  <2> HIDE DEF iter
  <2> DEFINE h == [g EXCEPT !.pc = "synclog", !.iter = iter]
  <2>2. /\ h = [f \in Fields |-> h[f]] /\ h.pc = "synclog" /\ h.job = g.job /\ h.slot = g.slot
        /\ h.hdr = g.hdr /\ h.tmp = g.tmp /\ h.added = g.added /\ h.mode = g.mode
        /\ h.safe = g.safe
    BY <1>1 DEF ConInv, Fields
  <2>3. con' = [con EXCEPT ![c] = h]
    BY <1>4
  <2> HIDE DEF h
  <2>4. JobInv(h) /\ SlotInv(h) /\ ~Shares(h) /\ ~InWrite(h) /\ Owns(h) = Owns(g) \cup S
    BY <1>1, <1>2, <1>3, <2>2 DEF ConInv, JobInv, SlotInv, InWrite, Shares, Owns
  <2>5. \A s \in Owns(g) : s \in Slots
    BY <1>2, <1>3, LockNumbers DEF Owns
  <2>6. DataInv(h)
    BY <1>1, <1>3, <2>2, DataKept DEF ConInv, DataInv
  <2>7. ConInv(c, h, excl', share', shm')
    BY <1>1, <1>3, <2>1, <2>2, <2>4, <2>5, <2>6 DEF ConInv, MarkInv
  <2>8. QED
    BY <1>1, <1>2, <2>1, <2>3, <2>7, SameLog, OneMoves
<1>5. CASE Goto(c, "copied") /\ UNCHANGED excl
  <2> DEFINE h == [g EXCEPT !.pc = "copied"]
  <2>1. /\ h = [f \in Fields |-> h[f]] /\ h.pc = "copied" /\ h.job = g.job /\ h.slot = g.slot
        /\ h.hdr = g.hdr /\ h.tmp = g.tmp /\ h.added = g.added /\ h.mode = g.mode
    BY <1>1 DEF ConInv, Fields
  <2>2. con' = [con EXCEPT ![c] = h]
    BY <1>5 DEF Goto
  <2> HIDE DEF h
  <2>3. QED
    BY <1>2, <1>3, <1>5, <2>1, <2>2, SameLog, CkptMoves
<1>6. QED
  BY <1>4, <1>5 DEF LockDb, Put

\* The log is synced, and pages are copied.
LEMMA CopyStep ==
  ASSUME IInv, NEW c \in Conns, CheckpointSync(c) \/ Copy(c) \/ CopiedAll(c)
  PROVE  IInv'
<1> DEFINE g == con[c]
<1>1. ConInv(c, g, excl, share, shm)
  BY DEF IInv
<1>2. UNCHANGED <<shm, excl, share>> /\ g.pc \in {"synclog", "copy"}
  BY DEF CheckpointSync, Copy, CopiedAll, At, locks
<1>3. g.job = "ckpt" /\ g.safe \in 0..g.hdr.mx
  BY <1>1, <1>2 DEF ConInv, JobInv, DataInv
<1>4. LogInv'
  <2>1. CheckpointSync(c) => LogInv'
    BY LogWrites DEF CheckpointSync
  <2>2. Copy(c) \/ CopiedAll(c) => LogInv'
    BY SameLog DEF Copy, CopiedAll
  <2>3. QED
    BY <2>1, <2>2
<1>5. \E pc \in {"copy", "backfill"} : \E iter :
        con' = [con EXCEPT ![c] = [g EXCEPT !.pc = pc, !.iter = iter]]
  <2>1. ASSUME NEW pc \in {"copy", "backfill"}, con' = [con EXCEPT ![c].pc = pc]
        PROVE  con' = [con EXCEPT ![c] = [g EXCEPT !.pc = pc, !.iter = g.iter]]
    <3>1. [g EXCEPT !.pc = pc] = [g EXCEPT !.pc = pc, !.iter = g.iter]
      BY <1>1 DEF ConInv, Fields
    <3>2. con' = [con EXCEPT ![c] = [g EXCEPT !.pc = pc]]
      BY <2>1
    <3>3. QED
      BY <3>1, <3>2
  <2>2. CASE CheckpointSync(c) \/ CopiedAll(c)
    BY <2>1, <2>2 DEF CheckpointSync, CopiedAll, Goto
  <2>3. CASE Copy(c)
    <3> DEFINE rest == [q \in DOMAIN g.iter \ {Min(DOMAIN g.iter)} |-> g.iter[q]]
    <3>1. con' = [con EXCEPT ![c] = [g EXCEPT !.iter = rest]] /\ g.pc = "copy"
      BY <2>3 DEF Copy, Put, At
    <3> HIDE DEF rest
    <3>2. [g EXCEPT !.iter = rest] = [g EXCEPT !.pc = "copy", !.iter = rest]
      BY <1>1, <3>1 DEF ConInv, Fields
    <3>3. QED
      BY <3>1, <3>2
  <2>4. QED
    BY <2>2, <2>3
<1>6. PICK pc \in {"copy", "backfill"} : \E iter :
        con' = [con EXCEPT ![c] = [g EXCEPT !.pc = pc, !.iter = iter]]
  BY <1>5
<1>7. PICK iter : con' = [con EXCEPT ![c] = [g EXCEPT !.pc = pc, !.iter = iter]]
  BY <1>6
<1> DEFINE h == [g EXCEPT !.pc = pc, !.iter = iter]
<1>8. /\ h = [f \in Fields |-> h[f]] /\ h.pc = pc /\ h.job = g.job /\ h.slot = g.slot
      /\ h.hdr = g.hdr /\ h.tmp = g.tmp /\ h.added = g.added /\ h.mode = g.mode
      /\ h.safe = g.safe
  BY <1>1 DEF ConInv, Fields
<1>9. con' = [con EXCEPT ![c] = h]
  BY <1>7
<1> HIDE DEF h
<1>10. QED
  BY <1>2, <1>3, <1>4, <1>8, <1>9, CkptMoves

\* nBackfill is raised to what was copied, and READ_LOCK(0) given back.
LEMMA BackfillStep ==
  ASSUME IInv, NEW c \in Conns, Backfill(c)
  PROVE  IInv'
<1> DEFINE g == con[c]
           S == {READ_LOCK(0)}
           h == [g EXCEPT !.pc = "copied", !.iter = <<>>]
<1>1. ConInv(c, g, excl, share, shm) /\ LocksInv(excl, share) /\ ShmInv(shm)
  BY DEF IInv
<1>2. /\ con' = [con EXCEPT ![c] = h] /\ share' = share /\ UNCHANGED log
      /\ excl' = [s \in Slots |-> IF s \in S THEN {} ELSE excl[s]]
      /\ shm' = [shm EXCEPT !.back = g.safe] /\ g.pc = "backfill"
  BY DEF Backfill, Put, At, Disown
<1>3. /\ g.job = "ckpt" /\ GoodHdr(g.hdr) /\ g.slot = 0 /\ g.added = <<>>
      /\ g.safe \in 0..MaxFrame
  <2>1. g.job = "ckpt" /\ GoodHdr(g.hdr) /\ g.added = <<>> /\ g.safe \in 0..g.hdr.mx
    BY <1>1, <1>2 DEF ConInv, JobInv, DataInv
  <2>2. g.slot = 0
    BY <1>1, <1>2, <2>1 DEF ConInv, SlotInv
  <2>3. QED
    BY <2>1, <2>2, Bounds DEF GoodHdr
<1>4. /\ LocksInv(excl', share') /\ KeepsOthers(c, excl, share, excl', share')
      /\ \A s \in Slots : s \notin S /\ c \in excl[s] => c \in excl'[s]
  <2>1. c \in excl[READ_LOCK(0)]
    BY <1>1, <1>2 DEF ConInv, Owns
  <2>2. \A s \in S : s \in Slots /\ c \in excl[s]
    BY <2>1, LockNumbers
  <2> HIDE DEF S
  <2>3. QED
    BY <1>1, <1>2, <2>2, DisownLocks
<1>5. ShmInv(shm') /\ shm'.h0 = shm.h0 /\ shm'.mark = shm.mark
  BY <1>1, <1>2, <1>3 DEF ShmInv
<1>6. /\ h = [f \in Fields |-> h[f]] /\ h.pc = "copied" /\ h.job = g.job /\ h.slot = g.slot
      /\ h.hdr = g.hdr /\ h.tmp = g.tmp /\ h.added = g.added /\ h.mode = g.mode
  BY <1>1 DEF ConInv, Fields
<1> HIDE DEF h
<1>7. JobInv(h) /\ SlotInv(h) /\ ~Shares(h) /\ ~InWrite(h) /\ Owns(h) \subseteq Owns(g)
  BY <1>1, <1>2, <1>3, <1>6 DEF ConInv, JobInv, SlotInv, InWrite, Shares, Owns
<1>8. \A s \in Owns(h) : s \in Slots /\ s \notin S
  BY <1>3, <1>6, <1>7, LockNumbers DEF Owns
<1>9. DataInv(h)
  BY <1>1, <1>3, <1>6, DataKept DEF ConInv, DataInv
<1>10. ConInv(c, h, excl', share', shm')
  BY <1>1, <1>3, <1>4, <1>6, <1>7, <1>8, <1>9 DEF ConInv, MarkInv
<1>11. QED
  BY <1>1, <1>2, <1>4, <1>5, <1>10, SameLog, OneMoves

\* All read-locks of the log, so that it can be reset.
LEMMA TruncateStep ==
  ASSUME IInv, NEW c \in Conns, TruncateLog(c)
  PROVE  IInv'
<1> DEFINE g == con[c]
           h == [g EXCEPT !.pc = "reset"]
<1>1. ConInv(c, g, excl, share, shm) /\ LocksInv(excl, share) /\ ShmInv(shm)
  BY DEF IInv
<1>2. /\ con' = [con EXCEPT ![c] = h] /\ UNCHANGED <<shm, share>> /\ UNCHANGED log
      /\ excl' = [s \in Slots |-> IF s \in ReadLocks THEN {c} ELSE excl[s]]
      /\ g.pc = "copied" /\ g.mode = "truncate" /\ \A s \in ReadLocks : CanOwn(s)
  BY DEF TruncateLog, ToReset, Goto, At, Own
<1>3. g.job = "ckpt" /\ GoodHdr(g.hdr) /\ g.slot = 0 /\ g.added = <<>>
  BY <1>1, <1>2 DEF ConInv, JobInv, SlotInv, DataInv
<1>4. /\ LocksInv(excl', share') /\ KeepsOthers(c, excl, share, excl', share')
      /\ \A s \in ReadLocks : c \in excl'[s]
      /\ \A s \in Slots : c \in excl[s] => c \in excl'[s]
  <2>1. \A s \in ReadLocks : s \in Slots /\ (c \in excl[s] \/ (excl[s] = {} /\ share[s] = {}))
    BY <1>2, LockNumbers DEF CanOwn
  <2>2. QED
    BY <1>1, <1>2, <2>1, OwnLocks
<1>5. /\ h = [f \in Fields |-> h[f]] /\ h.pc = "reset" /\ h.job = g.job /\ h.slot = g.slot
      /\ h.hdr = g.hdr /\ h.tmp = g.tmp /\ h.added = g.added /\ h.mode = g.mode
  BY <1>1 DEF ConInv, Fields
<1> HIDE DEF h
<1>6. JobInv(h) /\ SlotInv(h) /\ ~Shares(h) /\ ~InWrite(h)
  BY <1>3, <1>5, Bounds DEF JobInv, SlotInv, InWrite, Shares
<1>7. Owns(h) = {WRITE_LOCK, CKPT_LOCK} \cup ReadLocks /\ c \in excl[WRITE_LOCK]
      /\ c \in excl[CKPT_LOCK]
  BY <1>1, <1>2, <1>3, <1>5, <1>6 DEF ConInv, Owns, Passive
<1>8. DataInv(h)
  BY <1>1, <1>3, <1>5, DataKept DEF ConInv, DataInv
<1>9. ConInv(c, h, excl', share', shm')
  BY <1>3, <1>4, <1>5, <1>6, <1>7, <1>8, LockNumbers DEF ConInv, MarkInv
<1>10. QED
  BY <1>1, <1>2, <1>4, <1>9, SameLog, OneMoves

\* The log file is cut to nothing.
LEMMA CutStep ==
  ASSUME IInv, NEW c \in Conns, CutLog(c)
  PROVE  IInv'
<1> DEFINE g == con[c]
           h == [g EXCEPT !.pc = "truncated"]
<1>1. ConInv(c, g, excl, share, shm) /\ LocksInv(excl, share) /\ ShmInv(shm)
  BY DEF IInv
<1>2. /\ con' = [con EXCEPT ![c] = h] /\ UNCHANGED <<shm, share>>
      /\ excl' = [s \in Slots |-> IF s \in ReadLocks THEN {} ELSE excl[s]]
      /\ g.pc = "cut"
  BY DEF CutLog, Goto, At, Disown
<1>3. g.job = "ckpt" /\ GoodHdr(g.hdr) /\ g.slot = 0 /\ g.added = <<>>
  BY <1>1, <1>2 DEF ConInv, JobInv, SlotInv, DataInv
<1>4. /\ LocksInv(excl', share') /\ KeepsOthers(c, excl, share, excl', share')
      /\ \A s \in Slots : s \notin ReadLocks /\ c \in excl[s] => c \in excl'[s]
  <2>1. \A s \in ReadLocks : s \in Slots /\ c \in excl[s]
    BY <1>1, <1>2, LockNumbers DEF ConInv, Owns
  <2>2. QED
    BY <1>1, <1>2, <2>1, DisownLocks
<1>5. LogInv'
  <2>1. /\ uncut' = <<whdr>> \o wal /\ whdr' = [cur |-> 0, may |-> {0}]
        /\ wal' = [n \in Frames |-> [cur |-> NoFrame, may |-> {NoFrame}]]
    BY DEF CutLog, Stable
  <2>2. SaltsInv(whdr) /\ FramesInv(wal)
    BY DEF IInv, LogInv
  <2>3. SaltsInv(whdr') /\ FramesInv(wal')
    <3>1. IsFiniteSet({0}) /\ IsFiniteSet({NoFrame})
      BY FS_Singleton
    <3>2. SaltsInv(whdr')
      BY <2>1, <3>1 DEF SaltsInv
    <3>3. FramesInv(wal')
      BY <2>1, <3>1 DEF FramesInv
    <3>4. QED
      BY <3>2, <3>3
  <2>4. /\ Len(uncut') = MaxFrame + 1 /\ uncut'[1] = whdr
        /\ \A n \in Frames : uncut'[n + 1] = wal[n]
    <3> DEFINE A == {whdr} \cup {wal[n] : n \in Frames}
    <3>1. wal \in Seq(A) /\ Len(wal) = MaxFrame /\ <<whdr>> \in Seq(A)
      BY <2>2, Bounds DEF FramesInv, Frames
    <3> HIDE DEF A
    <3>2. QED
      BY <2>1, <3>1, Bounds DEF Frames
  <2>5. QED
    BY <2>2, <2>3, <2>4 DEF LogInv, FramesInv
<1>6. /\ h = [f \in Fields |-> h[f]] /\ h.pc = "truncated" /\ h.job = g.job /\ h.slot = g.slot
      /\ h.hdr = g.hdr /\ h.tmp = g.tmp /\ h.added = g.added /\ h.mode = g.mode
  BY <1>1 DEF ConInv, Fields
<1> HIDE DEF h
<1>7. JobInv(h) /\ SlotInv(h) /\ ~Shares(h) /\ ~InWrite(h)
  BY <1>3, <1>6, Bounds DEF JobInv, SlotInv, InWrite, Shares
<1>8. \A s \in Owns(h) : s \in Slots /\ s \notin ReadLocks /\ c \in excl[s]
  <2>1. Owns(h) \subseteq {WRITE_LOCK, CKPT_LOCK} /\ Owns(h) \subseteq Owns(g)
    BY <1>2, <1>3, <1>6, <1>7 DEF Owns
  <2>2. QED
    BY <1>1, <2>1, LockNumbers, Bounds DEF ConInv, ReadLocks, Readers
<1>9. DataInv(h)
  BY <1>1, <1>3, <1>6, DataKept DEF ConInv, DataInv
<1>10. ConInv(c, h, excl', share', shm')
  BY <1>3, <1>4, <1>6, <1>7, <1>8, <1>9 DEF ConInv, MarkInv
<1>11. ShmInv(shm') /\ shm' = shm
  BY <1>1, <1>2
<1>12. QED
  BY <1>2, <1>4, <1>5, <1>10, <1>11, OneMoves

\* A checkpoint ends.
LEMMA EndCheckpointStep ==
  ASSUME IInv, NEW c \in Conns, EndCheckpoint(c)
  PROVE  IInv'
<1> DEFINE hdr == IF con[c].changed THEN NoHdr ELSE con[c].hdr
           h == [Blank EXCEPT !.hdr = hdr, !.cache = con[c].cache]
<1>1. ConInv(c, con[c], excl, share, shm) /\ ShmInv(shm)
  BY DEF IInv
<1>2. /\ con' = [con EXCEPT ![c] = h] /\ UNCHANGED <<shm, share>> /\ UNCHANGED log
      /\ con[c].pc \in {"truncated", "copied"} /\ EndCkptLocks(c)
  BY DEF EndCheckpoint, Rest, At
<1>3. con[c].job = "ckpt" /\ AnyHdr(hdr)
  BY <1>1, <1>2 DEF ConInv, JobInv, DataInv, AnyHdr
<1> HIDE DEF hdr
<1>4. ConInv(c, h, excl', share', shm')
  BY <1>3, RestIsIdle
<1> HIDE DEF h
<1>5. LocksInv(excl', share') /\ KeepsOthers(c, excl, share, excl', share')
  BY <1>2, <1>3, EndCkptLocksIs
<1>6. QED
  BY <1>1, <1>2, <1>4, <1>5, SameLog, OneMoves

-----------------------------------------------------------------------------
\* Processes and power

\* A connection that does nothing asks nothing of the wal-index and the locks.
LEMMA OutOfCalls ==
  ASSUME NEW c, NEW g, g = [f \in Fields |-> g[f]], g.job = "none",
         g.pc \in {"idle", "closed"}, SlotInv(g), DataInv(g), NEW ex, NEW sh, NEW sm
  PROVE  ConInv(c, g, ex, sh, sm)
<1>1. JobInv(g) /\ MarkInv(g, sm) /\ Owns(g) = {} /\ ~Shares(g)
  BY DEF JobInv, MarkInv, Owns, Shares, InWrite, DataInv
<1>2. QED
  BY <1>1 DEF ConInv

\* The Wal object of a new connection, or of one that was killed.
LEMMA BlankIs ==
  ASSUME NEW g, g = Blank \/ g = [Blank EXCEPT !.pc = "closed"]
  PROVE  /\ g = [f \in Fields |-> g[f]] /\ g.job = "none" /\ g.pc \in {"idle", "closed"}
         /\ SlotInv(g) /\ DataInv(g)
<1>1. /\ g = [f \in Fields |-> g[f]] /\ g.pc \in {"idle", "closed"} /\ g.job = "none"
      /\ g.hdr = NoHdr /\ g.tmp = NoHdr /\ g.slot = 0 /\ g.added = <<>> /\ g.mode = Passive
  <2>1. CASE g = Blank
    BY <2>1 DEF Blank, Fields
  <2>2. CASE g = [Blank EXCEPT !.pc = "closed"]
    BY <2>2 DEF Blank, Fields
  <2>3. QED
    BY <2>1, <2>2
<1>2. SlotInv(g)
  BY <1>1, Bounds DEF SlotInv
<1>3. IsASeq(<<>>) /\ Len(<<>>) = 0 /\ NoHdr.mx = -1
  BY DEF IsASeq, NoHdr, Hdr
<1>4. DataInv(g)
  BY <1>1, <1>3, Bounds DEF DataInv, AnyHdr
<1>5. QED
  BY <1>1, <1>2, <1>4

\* The wal-index as it is when nobody has opened it.
LEMMA ZeroIsGood == ShmInv(ShmZero)
<1>1. IsASeq(<<>>) /\ Len(<<>>) = 0
  BY DEF IsASeq
<1>2. QED
  BY <1>1, Bounds DEF ShmInv, ShmZero, AnyHdr, READMARK_NOT_USED

\* A process is killed.
LEMMA KillStep ==
  ASSUME IInv, NEW c \in Conns, Kill(c)
  PROVE  IInv'
<1> DEFINE h == [Blank EXCEPT !.pc = "closed"]
<1>1. LocksInv(excl, share) /\ ShmInv(shm)
  BY DEF IInv
<1>2. /\ con' = [con EXCEPT ![c] = h] /\ shm' = shm /\ UNCHANGED log
      /\ excl' = [s \in Slots |-> excl[s] \ {c}]
      /\ share' = [s \in Slots |-> share[s] \ {c}]
  BY DEF Kill
<1>3. ConInv(c, h, excl', share', shm')
  BY BlankIs, OutOfCalls
<1> HIDE DEF h
<1>4. KeepsOthers(c, excl, share, excl', share')
  BY <1>1, <1>2 DEF KeepsOthers
<1>5. LocksInv(excl', share')
  <2>1. excl' = [s \in Slots |-> excl'[s]] /\ share' = [s \in Slots |-> share'[s]]
    BY <1>2
  <2>2. ASSUME NEW s \in Slots
        PROVE  excl'[s] = {} \/ (share'[s] = {} /\ \E d \in Conns : excl'[s] = {d})
    BY <1>1, <1>2 DEF LocksInv
  <2>3. QED
    BY <2>1, <2>2 DEF LocksInv
<1>6. QED
  BY <1>1, <1>2, <1>3, <1>4, <1>5, SameLog, OneMoves

\* A process opens the wal-index, the first one anew.
LEMMA OpenStep ==
  ASSUME IInv, NEW c \in Conns, Open(c)
  PROVE  IInv'
<1> DEFINE g == con[c]
           h == [g EXCEPT !.pc = "idle"]
<1>1. ConInv(c, g, excl, share, shm) /\ LocksInv(excl, share) /\ ShmInv(shm)
      /\ con = [d \in Conns |-> con[d]]
  BY DEF IInv
<1>2. /\ con' = [con EXCEPT ![c] = h] /\ UNCHANGED <<excl, share>> /\ UNCHANGED log
      /\ g.pc = "closed"
      /\ shm' = IF \A d \in Conns : con[d].pc = "closed" THEN ShmZero ELSE shm
  BY DEF Open, Goto, At, locks
<1>3. /\ h = [f \in Fields |-> h[f]] /\ h.pc = "idle" /\ h.job = g.job /\ h.slot = g.slot
      /\ h.hdr = g.hdr /\ h.tmp = g.tmp /\ h.added = g.added /\ h.mode = g.mode
  BY <1>1 DEF ConInv, Fields
<1> HIDE DEF h
<1>4. g.job = "none"
  BY <1>1, <1>2 DEF ConInv, JobInv
<1>5. SlotInv(h) /\ DataInv(h)
  BY <1>1, <1>2, <1>3, <1>4 DEF ConInv, SlotInv, DataInv
<1>6. ConInv(c, h, excl', share', shm')
  BY <1>3, <1>4, <1>5, OutOfCalls
<1>7. CASE \A d \in Conns : con[d].pc = "closed"
  <2>1. ASSUME NEW d \in Conns, d # c
        PROVE  ConInv(d, con[d], excl', share', shm')
    <3>1. ConInv(d, con[d], excl, share, shm) /\ con[d].pc = "closed"
      BY <1>7 DEF IInv
    <3>2. con[d].job = "none" /\ SlotInv(con[d]) /\ DataInv(con[d])
          /\ con[d] = [f \in Fields |-> con[d][f]]
      BY <3>1 DEF ConInv, JobInv
    <3>3. QED
      BY <3>1, <3>2, OutOfCalls
  <2>2. con' = [d \in Conns |-> con'[d]] /\ con'[c] = h
        /\ \A d \in Conns : d # c => con'[d] = con[d]
    BY <1>1, <1>2
  <2>3. \A d \in Conns : ConInv(d, con'[d], excl', share', shm')
    BY <1>6, <2>1, <2>2
  <2>4. LocksInv(excl', share') /\ ShmInv(shm') /\ LogInv'
    BY <1>1, <1>2, <1>7, ZeroIsGood, SameLog
  <2>5. QED
    BY <2>2, <2>3, <2>4 DEF IInv
<1>8. CASE ~\A d \in Conns : con[d].pc = "closed"
  BY <1>2, <1>6, <1>8, SameLog, JustMoves
<1>9. QED
  BY <1>7, <1>8

\* Nobody has done anything yet.
LEMMA FreshIsGood ==
  ASSUME shm' = ShmZero, con' = [c \in Conns |-> Blank], LogInv',
         excl' = [s \in Slots |-> {}], share' = [s \in Slots |-> {}]
  PROVE  IInv'
<1>1. \A c \in Conns : ConInv(c, con'[c], excl', share', shm')
  BY BlankIs, OutOfCalls
<1>2. LocksInv(excl', share')
  BY DEF LocksInv
<1>3. QED
  BY <1>1, <1>2, ZeroIsGood DEF IInv

\* The power is lost: of the log anything that was not synced may be gone.
LEMMA PowerLossStep ==
  ASSUME IInv, PowerLoss
  PROVE  IInv'
<1> DEFINE file == <<whdr>> \o wal
<1>1. PICK w \in Survivors(file) \cup (IF uncut = <<>> THEN {} ELSE Survivors(uncut)) :
        /\ whdr' = [cur |-> w[1], may |-> {w[1]}]
        /\ wal' = [n \in Frames |-> [cur |-> w[n + 1], may |-> {w[n + 1]}]]
  BY DEF PowerLoss, Stable
<1>2. SaltsInv(whdr) /\ FramesInv(wal)
  BY DEF IInv, LogInv
<1>3. Len(file) = MaxFrame + 1 /\ file[1] = whdr
  <2> DEFINE A == {whdr} \cup {wal[n] : n \in Frames}
  <2>1. wal \in Seq(A) /\ Len(wal) = MaxFrame /\ <<whdr>> \in Seq(A)
    BY <1>2, Bounds DEF FramesInv, Frames
  <2> HIDE DEF A
  <2>2. QED
    BY <2>1, Bounds
<1> HIDE DEF file
<1>4. w[1] \in Nat
  <2>1. CASE w \in Survivors(file)
    <3>1. w[1] \in file[1].may
      BY <1>3, <2>1, SurvivorsAre, Bounds
    <3>2. QED
      BY <1>2, <1>3, <3>1 DEF SaltsInv
  <2>2. CASE uncut # <<>> /\ w \in Survivors(uncut)
    <3>1. Len(uncut) = MaxFrame + 1 /\ SaltsInv(uncut[1])
      BY <2>2 DEF IInv, LogInv
    <3>2. w[1] \in uncut[1].may
      BY <2>2, <3>1, SurvivorsAre, Bounds
    <3>3. QED
      BY <3>1, <3>2 DEF SaltsInv
  <2>3. QED
    BY <2>1, <2>2
<1>5. SaltsInv(whdr')
  <2>1. IsFiniteSet({w[1]})
    BY FS_Singleton
  <2>2. QED
    BY <1>1, <1>4, <2>1 DEF SaltsInv
<1>6. FramesInv(wal')
  <2>1. \A n \in Frames : IsFiniteSet({w[n + 1]})
    BY FS_Singleton
  <2>2. QED
    BY <1>1, <2>1 DEF FramesInv
<1>7. LogInv'
  BY <1>5, <1>6 DEF LogInv, PowerLoss
<1>8. QED
  BY <1>7, FreshIsGood DEF PowerLoss

\* At first the log is empty.
LEMMA InitInv == Init => IInv
<1> SUFFICES ASSUME Init
             PROVE  IInv
  OBVIOUS
<1>1. whdr = [cur |-> 0, may |-> {0}] /\ uncut = <<>>
      /\ wal = [n \in Frames |-> [cur |-> NoFrame, may |-> {NoFrame}]]
  BY DEF Init, Stable
<1>2. IsFiniteSet({0}) /\ IsFiniteSet({NoFrame})
  BY FS_Singleton
<1>3. LogInv
  <2>1. SaltsInv(whdr)
    BY <1>1, <1>2 DEF SaltsInv
  <2>2. FramesInv(wal)
    BY <1>1, <1>2 DEF FramesInv
  <2>3. QED
    BY <1>1, <2>1, <2>2 DEF LogInv
<1>4. \A c \in Conns : ConInv(c, con[c], excl, share, shm)
  BY BlankIs, OutOfCalls DEF Init
<1>5. LocksInv(excl, share) /\ ShmInv(shm) /\ con = [c \in Conns |-> con[c]]
  BY ZeroIsGood DEF Init, LocksInv
<1>6. QED
  BY <1>3, <1>4, <1>5 DEF IInv

\* Of the actions that write to the wal-index, those that change its first
\* header hold the write lock, and those that move a read-mark leave alone
\* the marks that somebody is on.
LEMMA WhoWrites ==
  ASSUME IInv, NEW c \in Conns, Reading(c) \/ Writing(c) \/ Checkpointing(c) \/ Kill(c)
  PROVE  /\ shm'.h0 = shm.h0 \/ (c \in excl[WRITE_LOCK] /\ con'[c] # con[c])
         /\ \A i \in Readers : shm'.mark[i] = shm.mark[i] \/ share[READ_LOCK(i)] = {}
         /\ \A d \in Conns : d # c => con'[d] = con[d]
<1>1. /\ ShmInv(shm) /\ LocksInv(excl, share) /\ con = [d \in Conns |-> con[d]]
      /\ ConInv(c, con[c], excl, share, shm)
  BY DEF IInv
<1>2. ASSUME Reading(c)
      PROVE  /\ shm'.h0 = shm.h0 \/ (c \in excl[WRITE_LOCK] /\ con'[c] # con[c])
             /\ \A i \in Readers : shm'.mark[i] = shm.mark[i] \/ share[READ_LOCK(i)] = {}
  <2>1. CASE RecoverHdr(c)
    <3>1. con[c].pc = "recover0" /\ con'[c].pc = "recover1"
      BY <1>1, <2>1 DEF RecoverHdr, At, Goto, ConInv, Fields
    <3>2. c \in excl[WRITE_LOCK]
      BY <1>1, <3>1 DEF ConInv, Owns
    <3>3. QED
      BY <1>1, <2>1, <3>1, <3>2 DEF RecoverHdr, ShmInv
  <2>2. CASE Recover(c)
    BY <1>1, <2>2 DEF Recover, ShmInv
  <2>3. CASE RecoverInfo(c)
    BY <1>1, <2>3 DEF RecoverInfo, ShmInv, CanOwn
  <2>4. CASE PickMark(c)
    <3> DEFINE free == {i \in Readers : CanOwn(READ_LOCK(i))}
               m == Min(free)
    <3>1. free \in SUBSET Nat
      BY Bounds DEF Readers
    <3>2. free # {} => m \in free
      <4> HIDE DEF free
      <4>1. QED
        BY <3>1, MinOfNat
    <3>3. shm' = shm \/ (free # {} /\ shm' = [shm EXCEPT !.mark[m] = con[c].hdr.mx])
      BY <2>4 DEF PickMark
    <3>4. free # {} => share[READ_LOCK(m)] = {}
      BY <3>2 DEF CanOwn
    <3> HIDE DEF free, m
    <3>5. QED
      BY <1>1, <3>3, <3>4 DEF ShmInv
  <2>5. CASE BeginRead(c) \/ TryHdr(c) \/ BadHdr(c) \/ BadHdrBusy(c) \/ PickDb(c) \/ CheckDb(c)
             \/ LockMark(c) \/ LoadMin(c) \/ Verify(c) \/ EndRead(c)
    BY <2>5 DEF BeginRead, TryHdr, BadHdr, BadHdrBusy, PickDb, CheckDb, LockMark, LoadMin,
       Verify, EndRead
  <2>6. QED
    BY <1>2, <2>1, <2>2, <2>3, <2>4, <2>5 DEF Reading
<1>3. ASSUME Writing(c)
      PROVE  /\ shm'.h0 = shm.h0 \/ (c \in excl[WRITE_LOCK] /\ con'[c] # con[c])
             /\ \A i \in Readers : shm'.mark[i] = shm.mark[i] \/ share[READ_LOCK(i)] = {}
  <2>1. CASE ResetHdr0(c) \/ Publish(c)
    <3>1. con[c].pc \in {"reset0", "publish"} /\ con'[c].pc \in {"reset1", "done"}
      <4>1. con[c] = [f \in Fields |-> con[c][f]] /\ con = [d \in Conns |-> con[d]]
        BY <1>1 DEF ConInv, IInv
      <4>2. CASE ResetHdr0(c)
        BY <4>1, <4>2 DEF ResetHdr0, At, Goto, Fields
      <4>3. CASE Publish(c)
        BY <4>1, <4>3 DEF Publish, At, Put, Fields
      <4>4. QED
        BY <2>1, <4>2, <4>3
    <3>2. c \in excl[WRITE_LOCK]
      BY <1>1, <3>1 DEF ConInv, Owns, JobInv, InWrite
    <3>3. QED
      BY <1>1, <2>1, <3>1, <3>2 DEF ResetHdr0, Publish, ShmInv
  <2>2. CASE ResetHdr(c) \/ ResetBackfill(c) \/ Index(c) \/ Rollback(c)
    BY <1>1, <2>2 DEF ResetHdr, ResetBackfill, Index, Rollback, ShmInv
  <2>3. CASE ResetMarks(c)
    <3>1. \A s \in ReadLocks : c \in excl[s]
      BY <1>1, <2>3 DEF ResetMarks, ConInv, Owns, At
    <3>2. \A i \in Readers : share[READ_LOCK(i)] = {}
      BY <1>1, <3>1, LockNumbers, OneOwner
    <3>3. QED
      BY <1>1, <2>3, <3>2 DEF ResetMarks, ShmInv
  <2>4. CASE \/ BeginWrite(c) \/ Commit(c) \/ RestartLog(c)
             \/ \E p \in Pages : Write(c, p) \/ Spill(c, p)
             \/ WriteHeader(c) \/ SyncHeader(c) \/ Overwrite(c) \/ AppendFrame(c)
             \/ RewriteChecksums(c) \/ SyncCommit(c) \/ EndWrite(c)
    BY <2>4 DEF BeginWrite, Commit, RestartLog, Write, Spill, WriteHeader, SyncHeader,
       Overwrite, AppendFrame, RewriteChecksums, SyncCommit, EndWrite
  <2>5. QED
    BY <1>3, <2>1, <2>2, <2>3, <2>4 DEF Writing
<1>4. ASSUME Checkpointing(c)
      PROVE  /\ shm'.h0 = shm.h0 \/ (c \in excl[WRITE_LOCK] /\ con'[c] # con[c])
             /\ \A i \in Readers : shm'.mark[i] = shm.mark[i] \/ share[READ_LOCK(i)] = {}
  <2>1. CASE CheckMark(c)
    BY <1>1, <2>1 DEF CheckMark, ShmInv, CanOwn
  <2>2. CASE Backfill(c)
    BY <1>1, <2>2 DEF Backfill, ShmInv
  <2>3. CASE \/ \E mode \in modes : BeginCheckpoint(c, mode)
             \/ StartCheckpoint(c) \/ Iterator(c) \/ LockDb(c) \/ CheckpointSync(c)
             \/ Copy(c) \/ CopiedAll(c) \/ TruncateLog(c) \/ CutLog(c) \/ EndCheckpoint(c)
    BY <2>3 DEF BeginCheckpoint, StartCheckpoint, Iterator, LockDb, CheckpointSync, Copy,
       CopiedAll, TruncateLog, CutLog, EndCheckpoint
  <2>4. QED
    BY <1>4, <2>1, <2>2, <2>3 DEF Checkpointing
<1>5. ASSUME Kill(c)
      PROVE  shm' = shm
  BY <1>5 DEF Kill
<1>6. \E h : con' = [con EXCEPT ![c] = h]
  <2>1. CASE Reading(c)
    BY <2>1 DEF Reading, BeginRead, TryHdr, BadHdr, BadHdrBusy, Recover, RecoverHdr,
       RecoverInfo, PickDb, CheckDb, PickMark, LockMark, LoadMin, Verify, EndRead, GotHdr,
       Opened, Retry, GiveUp, Rest, Put, Goto
  <2>2. CASE Writing(c)
    BY <2>2 DEF Writing, BeginWrite, Commit, RestartLog, Write, Spill, Flush, ResetHdr,
       ResetHdr0, ResetBackfill, ResetMarks, WriteHeader, SyncHeader, Overwrite, AppendFrame,
       RewriteChecksums, SyncCommit, Index, Publish, EndWrite, Rollback, Put, Goto
  <2>3. CASE Checkpointing(c)
    BY <2>3 DEF Checkpointing, BeginCheckpoint, StartCheckpoint, CheckMark, Iterator, LockDb,
       CheckpointSync, Copy, CopiedAll, Backfill, TruncateLog, CutLog, EndCheckpoint, Rest,
       Put, Goto
  <2>4. CASE Kill(c)
    BY <2>4 DEF Kill
  <2>5. QED
    BY <2>1, <2>2, <2>3, <2>4
<1>7. \A d \in Conns : d # c => con'[d] = con[d]
  BY <1>1, <1>6
<1>8. QED
  BY <1>2, <1>3, <1>4, <1>5, <1>7

\* Every step keeps the invariant.
LEMMA StepInv == IInv /\ [Next]_vars => IInv'
<1> SUFFICES ASSUME IInv, [Next]_vars
             PROVE  IInv'
  OBVIOUS
<1>1. ASSUME NEW c \in Conns, Reading(c)
      PROVE  IInv'
  BY <1>1, BeginReadStep, TryHdrStep, BadHdrStep, BadHdrBusyStep, RecoverStep, RecoverHdrStep,
     RecoverInfoStep, PickDbStep, CheckDbStep, PickMarkStep, LockMarkStep, LoadMinStep,
     VerifyStep, EndReadStep DEF Reading
<1>2. ASSUME NEW c \in Conns, Writing(c)
      PROVE  IInv'
  BY <1>2, BeginWriteStep, WriteStep, RestartLogStep, ResetHdrStep, ResetMoves, ResetMarksStep,
     WriteHeaderStep, FrameStep, FinishStep, IndexStep, PublishStep, EndWriteStep DEF Writing
<1>3. ASSUME NEW c \in Conns, Checkpointing(c)
      PROVE  IInv'
  BY <1>3, BeginCheckpointStep, StartStep, CheckMarkStep, LockDbStep, CopyStep, BackfillStep,
     TruncateStep, CutStep, EndCheckpointStep DEF Checkpointing
<1>4. CASE UNCHANGED vars
  BY <1>4 DEF IInv, LogInv, vars
<1>5. QED
  BY <1>1, <1>2, <1>3, <1>4, KillStep, OpenStep, PowerLossStep DEF Next

-----------------------------------------------------------------------------
\* In every behaviour, with any number of connections, pages, frames and
\* read-marks, locks have one owner and each part of wal.c those it needs.
THEOREM Invariance == Spec => []IInv
BY InitInv, StepInv, PTL DEF Spec

\* So the locks and the read-marks are as TypeOK says: a lock that is
\* exclusive has one holder, writers, checkpoints and readers are on theirs,
\* and the read-mark of a reader is at or below its snapshot.
THEOREM TypeCorrect == Spec => []TypeOK
<1>1. IInv => TypeOK
  <2> SUFFICES ASSUME IInv
               PROVE  TypeOK
    OBVIOUS
  <2>1. /\ HdrOK(shm.h0) /\ HdrOK(shm.h1) /\ shm.back \in 0..MaxFrame
        /\ shm.mark \in [Readers -> 0..READMARK_NOT_USED] /\ Len(shm.idx) <= MaxFrame
    BY DEF IInv, ShmInv, AnyHdr, GoodHdr, HdrOK
  <2>2. \A s \in Slots : excl[s] = {} \/ (Cardinality(excl[s]) = 1 /\ share[s] = {})
    BY FS_Singleton DEF IInv, LocksInv
  <2>3. ASSUME NEW c \in Conns
        PROVE  /\ con[c].pc \in {"write", "frame", "publish"} => c \in excl[WRITE_LOCK]
               /\ con[c].job = "ckpt" => c \in excl[CKPT_LOCK]
               /\ con[c].pc \in {"read", "write"} => c \in share[READ_LOCK(con[c].slot)]
               /\ con[c].pc = "read" /\ con[c].slot # 0 =>
                    shm.mark[con[c].slot] <= con[c].hdr.mx
    <3>1. ConInv(c, con[c], excl, share, shm)
      BY DEF IInv
    <3>2. con[c].pc \in {"read", "write", "frame", "publish"} => con[c].job = "txn"
      BY <3>1 DEF ConInv, JobInv
    <3>3. QED
      BY <3>1, <3>2 DEF ConInv, MarkInv, Owns, InWrite, Shares
  <2>4. QED
    BY <2>1, <2>2, <2>3 DEF TypeOK
<1>2. QED
  BY <1>1, Invariance, PTL

\* While a connection is on a read-mark, nobody moves it: not another reader
\* that looks for a mark of its own, no checkpoint, no reset of the log, and
\* no recovery.
MarksStay ==
  \A c \in Conns :
    Shares(con[c]) /\ con[c].slot # 0 /\ Shares(con'[c]) =>
      shm'.mark[con[c].slot] = shm.mark[con[c].slot]

\* While a connection is in a write transaction, nobody else changes the
\* header: no other writer commits, and nobody recovers.
NoCommitUnderAWriter ==
  \A c \in Conns : InWrite(con[c]) /\ con'[c] = con[c] => shm'.h0 = shm.h0

\* Whoever steps, its locks keep it from the marks and the header of others.
LEMMA OthersStay ==
  ASSUME IInv, [Next]_vars
  PROVE  MarksStay /\ NoCommitUnderAWriter
<1> SUFFICES ASSUME NEW d \in Conns
             PROVE  /\ Shares(con[d]) /\ con[d].slot # 0 /\ Shares(con'[d]) =>
                         shm'.mark[con[d].slot] = shm.mark[con[d].slot]
                    /\ InWrite(con[d]) /\ con'[d] = con[d] => shm'.h0 = shm.h0
  BY DEF MarksStay, NoCommitUnderAWriter
<1>1. ConInv(d, con[d], excl, share, shm) /\ LocksInv(excl, share)
  BY DEF IInv
<1>2. Shares(con[d]) /\ con[d].slot # 0 =>
        con[d].slot \in Readers /\ d \in share[READ_LOCK(con[d].slot)]
  BY <1>1, Bounds DEF ConInv, SlotInv, Readers
<1>3. InWrite(con[d]) => d \in excl[WRITE_LOCK]
  BY <1>1 DEF ConInv, Owns
<1>4. CASE \E c \in Conns : Reading(c) \/ Writing(c) \/ Checkpointing(c) \/ Kill(c)
  <2>1. PICK c \in Conns : Reading(c) \/ Writing(c) \/ Checkpointing(c) \/ Kill(c)
    BY <1>4
  <2>2. /\ shm'.h0 = shm.h0 \/ (c \in excl[WRITE_LOCK] /\ con'[c] # con[c])
        /\ \A i \in Readers : shm'.mark[i] = shm.mark[i] \/ share[READ_LOCK(i)] = {}
    BY <2>1, WhoWrites
  <2>3. c \in excl[WRITE_LOCK] /\ d \in excl[WRITE_LOCK] => c = d
    BY <1>1, LockNumbers, OneOwner
  <2>4. QED
    BY <1>2, <1>3, <2>2, <2>3
<1>5. CASE \E c \in Conns : Open(c)
  <2>1. PICK c \in Conns : Open(c)
    BY <1>5
  <2>2. CASE \A e \in Conns : con[e].pc = "closed"
    BY <1>1, <2>2 DEF ConInv, JobInv, Shares, InWrite
  <2>3. CASE ~\A e \in Conns : con[e].pc = "closed"
    BY <2>1, <2>3 DEF Open, At
  <2>4. QED
    BY <2>2, <2>3
<1>6. CASE PowerLoss
  <2>1. con'[d] = Blank
    BY <1>6 DEF PowerLoss
  <2>2. ~Shares(con'[d]) /\ con'[d].job = "none" /\ con'[d].pc = "idle"
    BY <2>1 DEF Shares, Blank
  <2>3. ~InWrite(con'[d])
    BY <2>2 DEF InWrite
  <2>4. QED
    BY <2>2, <2>3
<1>7. CASE UNCHANGED vars
  BY <1>7 DEF vars
<1>8. QED
  BY <1>4, <1>5, <1>6, <1>7 DEF Next

\* In no behaviour does a read-mark move under its reader, nor the header
\* under a writer.
THEOREM SnapshotsArePinned == Spec => [][MarksStay /\ NoCommitUnderAWriter]_vars
<1>1. IInv /\ [Next]_vars => [MarksStay /\ NoCommitUnderAWriter]_vars
  BY OthersStay
<1>2. QED
  BY <1>1, Invariance, PTL DEF Spec
=============================================================================
