-------------------------------- MODULE Wal ---------------------------------
(***************************************************************************)
(* The write-ahead log (wal.c): readers that each see one snapshot, one    *)
(* writer that appends frames, checkpoints that copy frames back into the  *)
(* database file, the reset of the log, and recovery after a crash.        *)
(*                                                                         *)
(* The wal-index is shared memory, so that a step is one access to it that *)
(* another process may see, a lock, or one system call.  A frame has its   *)
(* salt and its checksum, which is taken as the row of everything it       *)
(* covers.  Left out: the hash tables (the index is the row of page        *)
(* numbers they stand for), the number of pages (transactions do not       *)
(* change it), snapshots that the application keeps, heap memory in place  *)
(* of shared memory, and busy handlers.                                    *)
(***************************************************************************)
EXTENDS Disk, FiniteSetsExt, SequencesExt

CONSTANTS
  Conns,      \* connections, each with a process of its own
  Pages,      \* pages of the database
  MaxFrame,   \* frames the log may have
  NReader,    \* WAL_NREADER
  Scenarios,  \* behaviours: how far to sync, and bounds on what happens
  KillInReset,\* TRUE: a process may be killed in the middle of a reset too
  NoImage, Torn  \* an empty cache; a torn write

Passive == "passive"
Modes == {Passive, "full", "restart", "truncate"}

ASSUME WalAssumption ==
  /\ IsFiniteSet(Conns)
  /\ IsFiniteSet(Pages) /\ Pages = 1..Cardinality(Pages) /\ 1 \in Pages
  /\ KillInReset \in BOOLEAN
  /\ MaxFrame \in Nat \ {0} /\ NReader \in Nat /\ NReader >= 3
  /\ Scenarios \subseteq
       [users : 1..Cardinality(Conns), full : BOOLEAN, modes : SUBSET Modes,
        trans : Nat, spills : Nat, ckpts : Nat, crashes : Nat]

VARIABLES
  users,  \* the connections that do anything
  full,   \* synchronous=FULL: the log is synced at each commit
  modes,  \* the modes of checkpoints
  db,     \* the database file: the transaction that wrote each page
  whdr,   \* the header of the log: its salt, 0 if there is none
  wal,    \* the frames of the log file
  uncut,  \* the log before it was truncated, while that is not synced
  shm,    \* the wal-index
  excl, share,  \* who holds the locks on the wal-index
  con,    \* the Wal object, and the page cache, of each connection
  trans, spills, ckpts, crashes  \* so many are still to come

vars == <<users, full, modes, db, whdr, wal, uncut, shm, excl, share, con,
          trans, spills, ckpts, crashes>>
log == <<whdr, wal, uncut>>
locks == <<excl, share>>
bounds == <<users, full, modes, trans, spills, ckpts, crashes>>

Frames == 1..MaxFrame
WRITE_LOCK == 0
CKPT_LOCK == 1
RECOVER_LOCK == 2
READ_LOCK(i) == 3 + i
Slots == 0..NReader + 2
Readers == 1..NReader - 1
ReadLocks == {READ_LOCK(i) : i \in Readers}   \* all but READ_LOCK(0)
READMARK_NOT_USED == MaxFrame + 1

-----------------------------------------------------------------------------
\* Frames, headers and the wal-index

NoFrame == [pg |-> 0, val |-> 0, com |-> FALSE, salt |-> 0, sum |-> <<>>]
Body(f) == <<f.pg, f.val, f.com>>

\* WalIndexHdr.  sum: aFrameCksum, of the frames up to mxFrame; chg: iChange,
\* 0 if there was no commit since a recovery (else the rest tells).
Hdr(salt, mx, sum, chg) == [salt |-> salt, mx |-> mx, sum |-> sum, chg |-> chg]
NoHdr == Hdr(0, -1, <<>>, 0)   \* isInit is zero

ShmZero == [h0 |-> NoHdr, h1 |-> NoHdr, back |-> 0,
            mark |-> [i \in Readers |-> 0], idx |-> <<>>]

Unused(mx) == [i \in Readers |-> IF i = 1 /\ mx # 0 THEN mx ELSE READMARK_NOT_USED]

\* What walIndexRecover() makes of a log: frames are good up to the first with
\* another salt or a wrong checksum, and count up to the last that commits.
Recovered(salt, frames) ==
  LET good(n) == /\ salt # 0 /\ frames[n].salt = salt
                 /\ frames[n].sum = [i \in 1..n |-> Body(frames[i])]
      bad == {n \in Frames : ~good(n)}
      last == IF bad = {} THEN MaxFrame ELSE Min(bad) - 1
      mx == Max({0} \cup {n \in 1..last : frames[n].com})
  IN [hdr |-> Hdr(salt, mx, IF mx = 0 THEN <<>> ELSE frames[mx].sum, 0),
      idx |-> [n \in 1..last |-> frames[n].pg]]

\* walFindFrame(): the last frame of page p in a range, 0 if there is none.
LastFrame(idx, min, max, p) ==
  Max({0} \cup {n \in min..max : n <= Len(idx) /\ idx[n] = p})
FindFrame(min, max, p) == LastFrame(shm.idx, min, max, p)

\* The database as the files give it to a reader.
ImageBy(idx, min, max) ==
  [p \in Pages |->
     LET n == LastFrame(idx, min, max, p)
     IN IF n = 0 THEN db[p].cur ELSE wal[n].cur.val]
Image(min, max) == ImageBy(shm.idx, min, max)

\* A salt that is nowhere else: salt-1 counts, and salt-2 is random.
Salts ==
  {whdr.cur} \cup whdr.may
    \cup (UNION {{f.salt : f \in wal[n].may} : n \in Frames})
    \cup {shm.h0.salt, shm.h1.salt} \cup {con[c].hdr.salt : c \in Conns}
    \cup {con[c].tmp.salt : c \in Conns}
NewSalt == Min((1..Cardinality(Salts) + 1) \ Salts)

-----------------------------------------------------------------------------
\* Locks and connections

CanShare(s) == excl[s] = {}
CanOwn(s) == excl[s] = {} /\ share[s] = {}
Own(c, S) == excl' = [s \in Slots |-> IF s \in S THEN {c} ELSE excl[s]]
Disown(S) == excl' = [s \in Slots |-> IF s \in S THEN {} ELSE excl[s]]
Share(c, s) == share' = [share EXCEPT ![s] = @ \cup {c}]
Unshare(c, s) == share' = [share EXCEPT ![s] = @ \ {c}]

\* job: "begin" while sqlite3WalBeginReadTransaction() runs, "txn" in a
\* transaction, "again" while walRestartLog() begins to read anew, "ckpt" in
\* sqlite3WalCheckpoint().  hdr and min: the snapshot; cache: the page cache,
\* with the changes of the writer; dirty: the pages that are not in the log
\* yet.  slot: the read-lock, or the one to be taken.
Blank ==
  [pc |-> "idle", job |-> "none", hdr |-> NoHdr, cache |-> NoImage,
   tmp |-> NoHdr, slot |-> 0, mark |-> 0, min |-> 0,
   dirty |-> {}, todo |-> <<>>, com |-> FALSE, first |-> 0, redo |-> 0,
   added |-> <<>>,
   mode |-> Passive, safe |-> 0, i |-> 0, iter |-> <<>>, changed |-> FALSE]

Put(c, g) == con' = [con EXCEPT ![c] = g]
Goto(c, pc) == con' = [con EXCEPT ![c].pc = pc]
\* Between calls only the header and the cache have a meaning.
Rest(c, hdr, cache) == con' = [con EXCEPT ![c] = [Blank EXCEPT !.hdr = hdr, !.cache = cache]]
GiveUp(c) == Rest(c, con[c].hdr, NoImage)   \* an error: pager_reset()
Retry(c) ==                                 \* WAL_RETRY
  IF con[c].job = "again" THEN Put(c, [con[c] EXCEPT !.pc = "pick", !.slot = 0, !.mark = 0])
  ELSE Rest(c, con[c].hdr, con[c].cache)

At(c, pc) == con[c].pc = pc
ToWrite(g) == IF g.hdr.mx = 0 THEN "header" ELSE "frame"

-----------------------------------------------------------------------------
\* walIndexReadHdr() and walIndexRecover()

BeginRead(c) ==
  /\ At(c, "idle") /\ c \in users
  /\ Put(c, [con[c] EXCEPT !.pc = "copy1", !.job = "begin", !.tmp = shm.h0])
  /\ UNCHANGED <<db, log, shm, locks, bounds>>

\* A header other than the one known makes the cache worthless.
GotHdr(c, h) ==
  Put(c, [con[c] EXCEPT !.pc = IF con[c].job = "ckpt" THEN "start" ELSE "pick",
          !.hdr = h, !.tmp = NoHdr,
          !.cache = IF h # con[c].hdr /\ con[c].job = "begin"
                    THEN NoImage ELSE con[c].cache,
          !.changed = con[c].job = "ckpt" /\ h # con[c].hdr])

\* walIndexTryHdr(): the two copies are written in the reverse order.
TryHdr(c) ==
  /\ At(c, "copy1")
  /\ IF con[c].tmp = shm.h1 /\ shm.h1 # NoHdr
     THEN GotHdr(c, shm.h1)
     ELSE Put(c, [con[c] EXCEPT !.pc = "badhdr", !.tmp = NoHdr])
  /\ UNCHANGED <<db, log, shm, locks, bounds>>

\* With the write lock nobody else changes the header: it is read again, and
\* if it is still bad, it is made anew.  Recovery takes the locks of
\* checkpoints and of recovery, but not those of readers.
HoldsWrite(c) == con[c].mode # Passive
RecoveryLocks(c) == {RECOVER_LOCK} \cup (IF con[c].job = "ckpt" THEN {} ELSE {CKPT_LOCK})

BadHdr(c) ==
  /\ At(c, "badhdr")
  /\ HoldsWrite(c) \/ CanOwn(WRITE_LOCK)
  /\ IF shm.h0 = shm.h1 /\ shm.h0 # NoHdr
     THEN GotHdr(c, shm.h0) /\ UNCHANGED excl
     ELSE /\ \A s \in RecoveryLocks(c) : CanOwn(s)
          /\ Own(c, RecoveryLocks(c) \cup {WRITE_LOCK})
          /\ Goto(c, "recover")
  /\ UNCHANGED <<db, log, shm, share, bounds>>

EndCkptLocks(c) ==
  Disown({CKPT_LOCK} \cup (IF HoldsWrite(c) THEN {WRITE_LOCK} ELSE {}))

\* SQLITE_BUSY or SQLITE_BUSY_RECOVERY, or WAL_RETRY.
BadHdrBusy(c) ==
  /\ At(c, "badhdr")
  /\ \/ ~HoldsWrite(c) /\ ~CanOwn(WRITE_LOCK)
     \/ /\ ~(shm.h0 = shm.h1 /\ shm.h0 # NoHdr)
        /\ \E s \in RecoveryLocks(c) : ~CanOwn(s)
  /\ IF con[c].job = "ckpt" THEN EndCkptLocks(c) ELSE UNCHANGED excl
  /\ GiveUp(c)
  /\ UNCHANGED <<db, log, shm, share, bounds>>

\* walIndexWriteHdr(), the second copy first; nBackfill and the read-marks
\* after it, a read-mark only if no reader is on it.
Recover(c) ==
  LET r == Recovered(whdr.cur, Cur(wal))
  IN /\ At(c, "recover")
     /\ shm' = [shm EXCEPT !.h1 = r.hdr, !.idx = r.idx]
     /\ Put(c, [con[c] EXCEPT !.pc = "recover0", !.hdr = r.hdr])
     /\ UNCHANGED <<db, log, locks, bounds>>

RecoverHdr(c) ==
  /\ At(c, "recover0")
  /\ shm' = [shm EXCEPT !.h0 = con[c].hdr]
  /\ Goto(c, "recover1")
  /\ UNCHANGED <<db, log, locks, bounds>>

RecoverInfo(c) ==
  /\ At(c, "recover1")
  /\ shm' = [shm EXCEPT
       !.back = 0,
       !.mark = [i \in Readers |-> IF CanOwn(READ_LOCK(i))
                                   THEN Unused(con[c].hdr.mx)[i] ELSE @[i]]]
  /\ Disown(RecoveryLocks(c) \cup (IF HoldsWrite(c) THEN {} ELSE {WRITE_LOCK}))
  /\ Put(c, [con[c] EXCEPT !.pc = IF con[c].job = "ckpt" THEN "start" ELSE "pick",
             !.cache = IF con[c].job = "begin" THEN NoImage ELSE con[c].cache,
             !.changed = con[c].job = "ckpt"])
  /\ UNCHANGED <<db, log, share, bounds>>

-----------------------------------------------------------------------------
\* walTryBeginRead()

\* The transaction is open; a cache that is still good is used again.
Opened(c, slot, min) ==
  LET g == con[c]
      now == Image(min, IF slot = 0 THEN 0 ELSE g.hdr.mx)
  IN Put(c, [con[c] EXCEPT !.pc = IF g.job = "again" THEN ToWrite(g) ELSE "read",
             !.job = "txn", !.slot = slot, !.min = min, !.mark = 0,
             !.cache = IF g.cache = NoImage THEN now ELSE g.cache])

\* The log is all in the database file: a reader may ignore it.
PickDb(c) ==
  /\ At(c, "pick") /\ con[c].job = "begin"
  /\ shm.back = con[c].hdr.mx /\ CanShare(READ_LOCK(0))
  /\ Share(c, READ_LOCK(0))
  /\ Goto(c, "check0")
  /\ UNCHANGED <<db, log, shm, excl, bounds>>

\* "It is not safe to allow the reader to continue here if frames may have
\* been appended to the log before READ_LOCK(0) was obtained."
CheckDb(c) ==
  /\ At(c, "check0")
  /\ IF shm.h0 = con[c].hdr
     THEN Opened(c, 0, 1) /\ UNCHANGED share
     ELSE Unshare(c, READ_LOCK(0)) /\ Retry(c)
  /\ UNCHANGED <<db, log, shm, excl, bounds>>

\* The read-mark closest to, but not above, the snapshot; if it is below, one
\* that no reader is on is set to the snapshot.
PickMark(c) ==
  LET mx == con[c].hdr.mx
      low == {i \in Readers : shm.mark[i] <= mx}
      top == Max({0} \cup {shm.mark[i] : i \in low})
      best == Max({0} \cup {i \in low : shm.mark[i] = top})
      free == {i \in Readers : CanOwn(READ_LOCK(i))}
      pick(i, mark) == Put(c, [con[c] EXCEPT !.pc = "lockmark", !.slot = i, !.mark = mark])
  IN /\ At(c, "pick")
     /\ con[c].job = "begin" => shm.back # mx \/ ~CanShare(READ_LOCK(0))
     /\ IF (top < mx \/ best = 0) /\ free # {}
        THEN /\ shm' = [shm EXCEPT !.mark[Min(free)] = mx]
             /\ pick(Min(free), mx)
        ELSE /\ IF best = 0 THEN Retry(c) ELSE pick(best, top)
             /\ UNCHANGED shm
     /\ UNCHANGED <<db, log, locks, bounds>>

LockMark(c) ==
  LET s == READ_LOCK(con[c].slot)
  IN /\ At(c, "lockmark")
     /\ IF CanShare(s) THEN Share(c, s) /\ Goto(c, "min")
        ELSE Retry(c) /\ UNCHANGED share
     /\ UNCHANGED <<db, log, shm, excl, bounds>>

\* minFrame is set before the header is looked at again.
LoadMin(c) ==
  /\ At(c, "min")
  /\ Put(c, [con[c] EXCEPT !.pc = "verify", !.min = shm.back + 1])
  /\ UNCHANGED <<db, log, shm, locks, bounds>>

Verify(c) ==
  LET g == con[c]
  IN /\ At(c, "verify")
     /\ IF shm.mark[g.slot] = g.mark /\ shm.h0 = g.hdr
        THEN Opened(c, g.slot, g.min) /\ UNCHANGED share
        ELSE Unshare(c, READ_LOCK(g.slot)) /\ Retry(c)
     /\ UNCHANGED <<db, log, shm, excl, bounds>>

EndRead(c) ==
  /\ At(c, "read")
  /\ Unshare(c, READ_LOCK(con[c].slot))
  /\ Rest(c, con[c].hdr, con[c].cache)
  /\ UNCHANGED <<db, log, shm, excl, bounds>>

-----------------------------------------------------------------------------
\* The writer

\* Fails with SQLITE_BUSY_SNAPSHOT if something was committed since.
BeginWrite(c) ==
  /\ At(c, "read") /\ trans > 0 /\ trans' = trans - 1
  /\ CanOwn(WRITE_LOCK) /\ con[c].hdr = shm.h0
  /\ Own(c, {WRITE_LOCK})
  /\ Goto(c, "write")
  /\ UNCHANGED <<users, full, modes, db, log, shm, share, spills, ckpts, crashes>>

\* Contents are told apart by who wrote them: the transaction, and whether
\* before or after it had spilled.
Spilled(c) == con[c].hdr # shm.h0
Content(c) == 2 * trans + (IF Spilled(c) THEN 2 ELSE 1)

Write(c, p) ==
  /\ At(c, "write") /\ con[c].cache[p] # Content(c)
  /\ Put(c, [con[c] EXCEPT !.cache = [con[c].cache EXCEPT ![p] = Content(c)],
             !.dirty = con[c].dirty \cup {p}])
  /\ UNCHANGED <<db, log, shm, locks, bounds>>

\* walFrames() is called with the pages in todo.
Flush(c, todo, com) ==
  Put(c, [con[c] EXCEPT !.pc = "restart", !.todo = todo, !.com = com, !.added = <<>>,
          !.first = IF Spilled(c) THEN shm.h0.mx + 1 ELSE 0])

\* pagerStress(): a page is written to make room in the cache, never page 1.
Spill(c, p) ==
  /\ At(c, "write") /\ p \in con[c].dirty \ {1}
  /\ spills > 0 /\ spills' = spills - 1
  /\ Flush(c, <<p>>, FALSE)
  /\ UNCHANGED <<users, full, modes, db, log, shm, locks, trans, ckpts, crashes>>

\* The dirty pages by their numbers (pcacheSortDirtyList()).
InOrder(S) ==
  [i \in 1..Cardinality(S) |-> CHOOSE p \in S : Cardinality({q \in S : q <= p}) = i]

\* With nothing left to write, page 1 is written for its commit mark.
Commit(c) ==
  LET g == con[c]
      pages == IF g.dirty = {} THEN {1} ELSE g.dirty
  IN /\ At(c, "write") /\ (g.dirty # {} \/ Spilled(c))
     /\ Flush(c, InOrder(pages), TRUE)
     /\ UNCHANGED <<db, log, shm, locks, bounds>>

\* walRestartLog(): a writer that reads from the database file alone starts
\* the log again from its beginning if no reader is on the log, and then
\* becomes a reader of the log.
RestartLog(c) ==
  LET g == con[c]
  IN /\ At(c, "restart")
     /\ IF g.slot # 0 THEN Goto(c, ToWrite(g)) /\ UNCHANGED locks
        ELSE IF shm.back > 0 /\ \A s \in ReadLocks : CanOwn(s)
        THEN Own(c, ReadLocks) /\ Goto(c, "reset") /\ UNCHANGED share
        ELSE /\ Unshare(c, READ_LOCK(0))
             /\ Put(c, [con[c] EXCEPT !.pc = "pick", !.job = "again"]) /\ UNCHANGED excl
     /\ UNCHANGED <<db, log, shm, bounds>>

\* walRestartHdr()
ResetHdr(c) ==
  LET h == Hdr(NewSalt, 0, <<>>, con[c].hdr.chg)
  IN /\ At(c, "reset")
     /\ shm' = [shm EXCEPT !.h1 = h]
     /\ Put(c, [con[c] EXCEPT !.pc = "reset0", !.hdr = h])
     /\ UNCHANGED <<db, log, locks, bounds>>

ResetHdr0(c) ==
  /\ At(c, "reset0")
  /\ shm' = [shm EXCEPT !.h0 = con[c].hdr]
  /\ Goto(c, "reset1")
  /\ UNCHANGED <<db, log, locks, bounds>>

ResetBackfill(c) ==
  /\ At(c, "reset1")
  /\ shm' = [shm EXCEPT !.back = 0]
  /\ Goto(c, "reset2")
  /\ UNCHANGED <<db, log, locks, bounds>>

\* The read-marks; then the writer drops its locks, and a checkpoint with
\* SQLITE_CHECKPOINT_TRUNCATE goes on to cut the log file.
ResetMarks(c) ==
  /\ At(c, "reset2")
  /\ shm' = [shm EXCEPT !.mark = [i \in Readers |-> IF i = 1 THEN 0 ELSE READMARK_NOT_USED]]
  /\ IF con[c].job = "ckpt"
     THEN Goto(c, "cut") /\ UNCHANGED locks
     ELSE /\ Disown(ReadLocks) /\ Unshare(c, READ_LOCK(0))
          /\ Put(c, [con[c] EXCEPT !.pc = "pick", !.job = "again"])
  /\ UNCHANGED <<db, log, bounds>>

\* The header of the log, at its first frame; the salt is drawn again if
\* nCkpt is zero, which depends on what the connection did before.
WriteHeader(c) ==
  /\ At(c, "header")
  /\ \E salt \in {con[c].hdr.salt, NewSalt} \ {0} :
       /\ whdr' = Written(whdr, salt)
       /\ Put(c, [con[c] EXCEPT !.pc = "synchdr", !.hdr = Hdr(salt, 0, <<>>, con[c].hdr.chg)])
  /\ UNCHANGED <<db, wal, uncut, shm, locks, bounds>>

SyncLog == whdr' = Stable(whdr.cur) /\ wal' = Sync(wal) /\ uncut' = <<>>

SyncHeader(c) ==
  /\ At(c, "synchdr")
  /\ SyncLog
  /\ Goto(c, "frame")
  /\ UNCHANGED <<db, shm, locks, bounds>>

PutFrame(n, f) == wal' = [wal EXCEPT ![n] = WrittenPage(@, f, NoFrame)]

\* A page this transaction has in the log already is written over, unless its
\* frame has to carry the commit mark; checksums are then wrong from there
\* on, and a new frame gets none.
Overwrites(c) ==
  LET g == con[c]
  IN /\ g.first # 0 /\ (Len(g.todo) > 1 \/ ~g.com)
     /\ FindFrame(g.min, g.hdr.mx, Head(g.todo)) >= g.first

Overwrite(c) ==
  LET g == con[c]
      p == Head(g.todo)
      n == FindFrame(g.min, g.hdr.mx, p)
  IN /\ At(c, "frame") /\ g.todo # <<>> /\ Overwrites(c)
     /\ PutFrame(n, [wal[n].cur EXCEPT !.val = g.cache[p]])
     /\ Put(c, [con[c] EXCEPT !.todo = Tail(g.todo),
                !.dirty = IF g.com THEN g.dirty ELSE g.dirty \ {p},
                !.redo = IF g.redo = 0 \/ n < g.redo THEN n ELSE g.redo])
     /\ UNCHANGED <<db, whdr, uncut, shm, locks, bounds>>

AppendFrame(c) ==
  LET g == con[c]
      p == Head(g.todo)
      n == g.hdr.mx + Len(g.added) + 1
      f == [pg |-> p, val |-> g.cache[p], com |-> g.com /\ Len(g.todo) = 1,
            salt |-> 0, sum |-> <<>>]
      sum == Append(g.hdr.sum, Body(f))
  IN /\ At(c, "frame") /\ g.todo # <<>> /\ ~Overwrites(c) /\ n <= MaxFrame
     /\ IF g.redo = 0
        THEN /\ PutFrame(n, [f EXCEPT !.salt = g.hdr.salt, !.sum = sum])
             /\ Put(c, [con[c] EXCEPT !.todo = Tail(g.todo), !.added = Append(g.added, p),
                        !.hdr = [g.hdr EXCEPT !.sum = sum]])
        ELSE /\ PutFrame(n, f)
             /\ Put(c, [con[c] EXCEPT !.todo = Tail(g.todo), !.added = Append(g.added, p)])
     /\ UNCHANGED <<db, whdr, uncut, shm, locks, bounds>>

AllWritten(c) == At(c, "frame") /\ con[c].todo = <<>>

\* walRewriteChecksums()
RewriteChecksums(c) ==
  LET g == con[c]
      last == g.hdr.mx + Len(g.added)
      sum == [n \in 1..last |-> Body(wal[n].cur)]
  IN /\ AllWritten(c) /\ g.com /\ g.redo # 0
     /\ wal' = [n \in Frames |->
          IF n \in g.redo..last
          THEN WrittenPage(wal[n], [wal[n].cur EXCEPT
                 !.salt = g.hdr.salt, !.sum = SubSeq(sum, 1, n)], NoFrame)
          ELSE wal[n]]
     /\ Put(c, [con[c] EXCEPT !.redo = 0, !.hdr = [g.hdr EXCEPT !.sum = sum]])
     /\ UNCHANGED <<db, whdr, uncut, shm, locks, bounds>>

SyncCommit(c) ==
  /\ AllWritten(c) /\ con[c].com /\ con[c].redo = 0 /\ full
  /\ SyncLog
  /\ Goto(c, "index")
  /\ UNCHANGED <<db, shm, locks, bounds>>

\* walIndexAppend() removes what a writer that died left of itself.  A commit
\* writes the header of the wal-index too, again the second copy first.
Index(c) ==
  LET g == con[c]
      h == Hdr(g.hdr.salt, g.hdr.mx + Len(g.added), g.hdr.sum,
               IF g.com THEN 1 ELSE g.hdr.chg)
      idx == IF g.added = <<>> THEN shm.idx
             ELSE SubSeq(shm.idx, 1, g.hdr.mx) \o g.added
  IN /\ \/ At(c, "index")
        \/ AllWritten(c) /\ ~(g.com /\ (full \/ g.redo # 0))
     /\ shm' = [shm EXCEPT !.idx = idx, !.h1 = IF g.com THEN h ELSE @]
     /\ Put(c, [con[c] EXCEPT !.pc = IF g.com THEN "publish" ELSE "write", !.hdr = h,
                !.dirty = IF g.com THEN g.dirty ELSE g.dirty \ ToSet(g.added),
                !.added = <<>>, !.first = 0])
     /\ UNCHANGED <<db, log, locks, bounds>>

Publish(c) ==
  /\ At(c, "publish")
  /\ shm' = [shm EXCEPT !.h0 = con[c].hdr]
  /\ Put(c, [con[c] EXCEPT !.pc = "done", !.dirty = {}, !.com = FALSE])
  /\ UNCHANGED <<db, log, locks, bounds>>

EndWrite(c) ==
  /\ At(c, "done")
  /\ Disown({WRITE_LOCK})
  /\ Put(c, [con[c] EXCEPT !.pc = "read", !.redo = 0])
  /\ UNCHANGED <<db, log, shm, share, bounds>>

\* sqlite3WalUndo(): the header is again that of the last commit, and so are
\* the pages; without a frame left the index is not cleaned.
Rollback(c) ==
  LET g == con[c]
      h == shm.h0
  IN /\ At(c, "write")
     /\ shm' = [shm EXCEPT !.idx = IF h.mx \in {0, g.hdr.mx} THEN @
                                   ELSE SubSeq(@, 1, h.mx)]
     /\ Put(c, [con[c] EXCEPT !.pc = "read", !.hdr = h, !.dirty = {}, !.redo = 0,
                !.cache = Image(g.min, IF g.slot = 0 THEN 0 ELSE h.mx)])
     /\ Disown({WRITE_LOCK})
     /\ UNCHANGED <<db, log, share, bounds>>

-----------------------------------------------------------------------------
\* sqlite3WalCheckpoint() and walCheckpoint()

\* Without the write lock a checkpoint is made as if it were passive.
BeginCheckpoint(c, mode) ==
  LET write == mode # Passive /\ CanOwn(WRITE_LOCK)
  IN /\ At(c, "idle") /\ c \in users /\ ckpts > 0 /\ ckpts' = ckpts - 1
     /\ CanOwn(CKPT_LOCK)
     /\ Own(c, {CKPT_LOCK} \cup (IF write THEN {WRITE_LOCK} ELSE {}))
     /\ Put(c, [con[c] EXCEPT !.pc = "copy1", !.job = "ckpt", !.tmp = shm.h0,
                !.mode = IF write THEN mode ELSE Passive])
     /\ UNCHANGED <<users, full, modes, db, log, shm, share, trans, spills, crashes>>

StartCheckpoint(c) ==
  /\ At(c, "start")
  /\ IF shm.back < con[c].hdr.mx
     THEN Put(c, [con[c] EXCEPT !.pc = "mark", !.safe = con[c].hdr.mx, !.i = 1])
     ELSE Goto(c, "copied")
  /\ UNCHANGED <<db, log, shm, locks, bounds>>

\* A mutant: the read-mark is raised under the reader.
SlipCheckMark(c) ==
  LET g == con[c]
      y == shm.mark[g.i]
  IN /\ At(c, "mark") /\ g.i < NReader
     /\ IF g.safe > y
        THEN /\ shm' = [shm EXCEPT !.mark[g.i] = IF g.i = 1 THEN g.safe
                                                 ELSE READMARK_NOT_USED]
             /\ Put(c, [con[c] EXCEPT !.i = g.i + 1])
        ELSE /\ Put(c, [con[c] EXCEPT !.i = g.i + 1, !.safe = Min({g.safe, y})])
             /\ UNCHANGED shm
     /\ UNCHANGED <<db, log, locks, bounds>>

\* A reader on an older snapshot bounds the checkpoint.
CheckMark(c) ==
  LET g == con[c]
      y == shm.mark[g.i]
  IN /\ At(c, "mark") /\ g.i < NReader
     /\ IF g.safe > y /\ CanOwn(READ_LOCK(g.i))
        THEN /\ shm' = [shm EXCEPT !.mark[g.i] = IF g.i = 1 THEN g.safe
                                                 ELSE READMARK_NOT_USED]
             /\ Put(c, [con[c] EXCEPT !.i = g.i + 1])
        ELSE /\ Put(c, [con[c] EXCEPT !.i = g.i + 1, !.safe = Min({g.safe, y})])
             /\ UNCHANGED shm
     /\ UNCHANGED <<db, log, locks, bounds>>

\* walIteratorInit(): of each page the last frame there is.
Iterator(c) ==
  LET last == [p \in Pages |-> FindFrame(1, con[c].hdr.mx, p)]
  IN /\ At(c, "mark") /\ con[c].i = NReader
     /\ IF shm.back < con[c].safe
        THEN Put(c, [con[c] EXCEPT !.pc = "lock0", !.iter = last])
        ELSE Goto(c, "copied")
     /\ UNCHANGED <<db, log, shm, locks, bounds>>

\* A mutant: the log may have been reset since the header was read.
SlipLockDb(c) ==
  LET g == con[c]
  IN /\ At(c, "lock0")
     /\ IF CanOwn(READ_LOCK(0))
        THEN /\ Own(c, {READ_LOCK(0)})
             /\ Put(c, [con[c] EXCEPT !.pc = "synclog",
                  !.iter = [p \in {q \in Pages : g.iter[q] \in shm.back + 1..g.safe} |->
                              g.iter[p]]])
        ELSE Goto(c, "copied") /\ UNCHANGED excl
     /\ UNCHANGED <<db, log, shm, share, bounds>>

\* "Now that read-lock slot 0 is locked, check that the wal has not been
\* wrapped since the header was read for this checkpoint."
LockDb(c) ==
  LET g == con[c]
  IN /\ At(c, "lock0")
     /\ IF CanOwn(READ_LOCK(0)) /\ shm.h0.salt = g.hdr.salt
        THEN /\ Own(c, {READ_LOCK(0)})
             /\ Put(c, [con[c] EXCEPT !.pc = "synclog",
                  !.iter = [p \in {q \in Pages : g.iter[q] \in shm.back + 1..g.safe} |->
                              g.iter[p]]])
        ELSE Goto(c, "copied") /\ UNCHANGED excl
     /\ UNCHANGED <<db, log, shm, share, bounds>>

CheckpointSync(c) ==
  /\ At(c, "synclog")
  /\ SyncLog
  /\ Goto(c, "copy")
  /\ UNCHANGED <<db, shm, locks, bounds>>

Copy(c) ==
  LET iter == con[c].iter
      p == Min(DOMAIN iter)
  IN /\ At(c, "copy") /\ DOMAIN iter # {}
     /\ db' = [db EXCEPT ![p] = WrittenPage(@, wal[iter[p]].cur.val, Torn)]
     /\ Put(c, [con[c] EXCEPT !.iter = [q \in DOMAIN iter \ {p} |-> iter[q]]])
     /\ UNCHANGED <<log, shm, locks, bounds>>

\* A mutant: the database file is not synced.
SlipCopiedAll(c) ==
  /\ At(c, "copy") /\ DOMAIN con[c].iter = {}
  /\ UNCHANGED db
  /\ Goto(c, "backfill")
  /\ UNCHANGED <<log, shm, locks, bounds>>

\* The database file is synced if nothing of the log is missing in it.
CopiedAll(c) ==
  /\ At(c, "copy") /\ DOMAIN con[c].iter = {}
  /\ db' = IF con[c].safe = shm.h0.mx THEN Sync(db) ELSE db
  /\ Goto(c, "backfill")
  /\ UNCHANGED <<log, shm, locks, bounds>>

Backfill(c) ==
  /\ At(c, "backfill")
  /\ shm' = [shm EXCEPT !.back = con[c].safe]
  /\ Disown({READ_LOCK(0)})
  /\ Put(c, [con[c] EXCEPT !.pc = "copied", !.iter = <<>>])
  /\ UNCHANGED <<db, log, share, bounds>>

\* RESTART waits until no reader is on the log, TRUNCATE resets it then too.
ToReset(c) ==
  /\ con[c].mode = "truncate" /\ shm.back = con[c].hdr.mx
  /\ \A s \in ReadLocks : CanOwn(s)

TruncateLog(c) ==
  /\ At(c, "copied") /\ ToReset(c)
  /\ Own(c, ReadLocks)
  /\ Goto(c, "reset")
  /\ UNCHANGED <<db, log, shm, share, bounds>>

CutLog(c) ==
  /\ At(c, "cut")
  /\ uncut' = <<whdr>> \o wal
  /\ whdr' = Stable(0) /\ wal' = [n \in Frames |-> Stable(NoFrame)]
  /\ Disown(ReadLocks)
  /\ Goto(c, "truncated")
  /\ UNCHANGED <<db, shm, share, bounds>>

\* The header is forgotten if it was new, for the cache does not fit it.
EndCheckpoint(c) ==
  /\ At(c, "truncated") \/ (At(c, "copied") /\ ~ToReset(c))
  /\ EndCkptLocks(c)
  /\ Rest(c, IF con[c].changed THEN NoHdr ELSE con[c].hdr, con[c].cache)
  /\ UNCHANGED <<db, log, shm, share, bounds>>

-----------------------------------------------------------------------------
\* Processes and power

\* A process is killed: its locks go, all else is as it was.  Between the
\* new header and nBackfill a reset leaves the wal-index in a state that no
\* recovery mends: that is for a run of its own.
Kill(c) ==
  /\ con[c].pc \notin {"idle", "closed"}
  /\ con[c].pc = "reset1" => KillInReset
  /\ crashes > 0 /\ crashes' = crashes - 1
  /\ excl' = [s \in Slots |-> excl[s] \ {c}]
  /\ share' = [s \in Slots |-> share[s] \ {c}]
  /\ con' = [con EXCEPT ![c] = [Blank EXCEPT !.pc = "closed"]]
  /\ UNCHANGED <<users, full, modes, db, log, shm, trans, spills, ckpts>>

\* The first one to open the wal-index makes it empty.
Open(c) ==
  /\ At(c, "closed")
  /\ shm' = IF \A d \in Conns : At(d, "closed") THEN ShmZero ELSE shm
  /\ Goto(c, "idle")
  /\ UNCHANGED <<db, log, locks, bounds>>

\* Of what was not synced anything may be lost; a truncation all or nothing.
PowerLoss ==
  /\ crashes > 0 /\ crashes' = crashes - 1
  /\ \E d \in Survivors(db) : db' = [p \in Pages |-> Stable(d[p])]
  /\ \E w \in Survivors(<<whdr>> \o wal) \cup
               (IF uncut = <<>> THEN {} ELSE Survivors(uncut)) :
       /\ whdr' = Stable(w[1])
       /\ wal' = [n \in Frames |-> Stable(w[n + 1])]
  /\ uncut' = <<>>
  /\ shm' = ShmZero
  /\ excl' = [s \in Slots |-> {}] /\ share' = [s \in Slots |-> {}]
  /\ con' = [c \in Conns |-> Blank]
  /\ UNCHANGED <<users, full, modes, trans, spills, ckpts>>

-----------------------------------------------------------------------------
Init ==
  /\ \E s \in Scenarios :
       /\ users \in {u \in SUBSET Conns : Cardinality(u) = s.users}
       /\ full = s.full /\ modes = s.modes
       /\ trans = s.trans /\ spills = s.spills
       /\ ckpts = s.ckpts /\ crashes = s.crashes
  /\ db = [p \in Pages |-> Stable(0)]
  /\ whdr = Stable(0) /\ wal = [n \in Frames |-> Stable(NoFrame)] /\ uncut = <<>>
  /\ shm = ShmZero
  /\ excl = [s \in Slots |-> {}] /\ share = [s \in Slots |-> {}]
  /\ con = [c \in Conns |-> Blank]

Reading(c) ==
  \/ BeginRead(c) \/ TryHdr(c) \/ BadHdr(c) \/ BadHdrBusy(c)
  \/ Recover(c) \/ RecoverHdr(c) \/ RecoverInfo(c)
  \/ PickDb(c) \/ CheckDb(c) \/ PickMark(c) \/ LockMark(c)
  \/ LoadMin(c) \/ Verify(c) \/ EndRead(c)

Writing(c) ==
  \/ BeginWrite(c) \/ Commit(c) \/ RestartLog(c)
  \/ \E p \in Pages : Write(c, p) \/ Spill(c, p)
  \/ ResetHdr(c) \/ ResetHdr0(c) \/ ResetBackfill(c) \/ ResetMarks(c)
  \/ WriteHeader(c) \/ SyncHeader(c)
  \/ Overwrite(c) \/ AppendFrame(c) \/ RewriteChecksums(c)
  \/ SyncCommit(c) \/ Index(c) \/ Publish(c) \/ EndWrite(c) \/ Rollback(c)

Checkpointing(c) ==
  \/ \E mode \in modes : BeginCheckpoint(c, mode)
  \/ StartCheckpoint(c) \/ CheckMark(c) \/ Iterator(c) \/ LockDb(c)
  \/ CheckpointSync(c) \/ Copy(c) \/ CopiedAll(c) \/ Backfill(c)
  \/ TruncateLog(c) \/ CutLog(c) \/ EndCheckpoint(c)

Next ==
  \/ \E c \in Conns :
       Reading(c) \/ Writing(c) \/ Checkpointing(c) \/ Kill(c) \/ Open(c)
  \/ PowerLoss

Spec == Init /\ [][Next]_vars

-----------------------------------------------------------------------------
HdrOK(h) ==
  h = NoHdr \/ (h.mx \in 0..MaxFrame /\ h.salt \in Nat /\ h.chg \in {0, 1})

\* Types, and what lock each part of the code relies on: at most one holder
\* of a lock that is exclusive, a reader on its read-lock, a writer and a
\* checkpoint on theirs, and the read-mark of a reader at or below its
\* snapshot.
TypeOK ==
  /\ HdrOK(shm.h0) /\ HdrOK(shm.h1) /\ shm.back \in 0..MaxFrame
  /\ shm.mark \in [Readers -> 0..READMARK_NOT_USED] /\ Len(shm.idx) <= MaxFrame
  /\ \A s \in Slots : excl[s] = {} \/ (Cardinality(excl[s]) = 1 /\ share[s] = {})
  /\ \A c \in Conns :
       /\ con[c].pc \in {"write", "frame", "publish"} => c \in excl[WRITE_LOCK]
       /\ con[c].job = "ckpt" => c \in excl[CKPT_LOCK]
       /\ con[c].pc \in {"read", "write"} => c \in share[READ_LOCK(con[c].slot)]
       /\ con[c].pc = "read" /\ con[c].slot # 0 =>
            shm.mark[con[c].slot] <= con[c].hdr.mx

\* The log is started again only when all of it is in the database file and
\* synced there (the assertions in walRestartLog() and walCheckpoint(), and
\* "the entire log file has been checkpointed" of walRestartHdr()). A recovery
\* that runs beside a reader of slot 0 sets nBackfill to 0 again, and
\* walRestartLog() then leaves the log alone (pInfo->nBackfill>0).
RestartIsSafe ==
  \A c \in Conns :
    /\ At(c, "restart") /\ con[c].slot = 0 => shm.back \in {0, con[c].hdr.mx}
    /\ At(c, "reset") =>
         /\ shm.back = con[c].hdr.mx
         /\ \A p \in Pages :
              LET n == FindFrame(1, con[c].hdr.mx, p)
              IN /\ Sync(db) = db
                 /\ n # 0 => db[p].cur = wal[n].cur.val

\* "The nBackfill number is never greater than WalIndexHdr.mxFrame", at least
\* while nobody is at work (wal.c, the comment on WalCkptInfo).
BackfillWithinLog == (\A s \in Slots : excl[s] = {}) => shm.back <= Max({0, shm.h0.mx})
=============================================================================
