------------------------------- MODULE Pager --------------------------------
(***************************************************************************)
(* The pager with a rollback journal (pager.c): transactions of several    *)
(* connections on one database file, hot-journal rollback after a crash,   *)
(* and the files as the operating system keeps them.                       *)
(*                                                                         *)
(* A step is one system call with the code around it, so that the steps of *)
(* two connections interleave, and a crash falls, between any two calls    *)
(* that matter.  The journal is a row of slots, each with a header or with *)
(* a page record (its bytes and the rounding of headers to sectors are     *)
(* left out).  synchronous=FULL and locking_mode=NORMAL are modelled, with *)
(* the device characteristics zero and no super-journal.                   *)
(***************************************************************************)
EXTENDS Disk, FileLock, FiniteSetsExt, SequencesExt

CONSTANTS
  MaxPage,     \* pages the database file may have
  Values,      \* what a page other than page 1 may contain
  MaxSlot,     \* slots of the journal: a transaction writes no more
  MaxInode,    \* files that are the journal or were it
  ShrinkModes, \* the modes in which a transaction may shrink the database
  DoubleFault, \* whether a call may be broken off where Exposed, below
  Scenarios,   \* behaviours: the journal mode, the pages at first and at
               \* most, and bounds on what happens
  NoPage, Zero, Torn,  \* beyond the end of the file; a hole; a torn write
  NoView       \* the view of a connection that is in no transaction

AllModes == {"delete", "truncate", "persist"}

ASSUME PagerAssumption ==
  /\ MaxPage \in Nat \ {0} /\ MaxSlot \in Nat \ {0} /\ MaxInode \in Nat \ {0}
  /\ ShrinkModes \subseteq AllModes /\ DoubleFault \in BOOLEAN
  /\ Scenarios \subseteq [mode : AllModes, size : 0..MaxPage, most : 0..MaxPage,
                          trans : Nat, crashes : Nat, errors : Nat]
  /\ NoPage \notin Values \cup {Zero, Torn} \cup [ver : Nat, nPage : Nat]
  /\ Zero \notin [ver : Nat, nPage : Nat] /\ Torn \notin [ver : Nat, nPage : Nat]

VARIABLES
  mode,     \* Pager.journalMode of every connection
  db,       \* the database file: of each page what a read sees ("cur") and
            \* what a power loss may leave ("may")
  journal,  \* the same of each journal file, by inode
  dirent,   \* the inode the name of the journal stands for, 0 for none
  pager,    \* the Pager of each connection
  most,     \* pages the database may grow to
  trans, crashes, errors  \* so many write-transactions, power losses and
                          \* processes killed, and I/O errors are still to come

vars == <<lock, reserver, mode, db, journal, dirent, pager,
          most, trans, crashes, errors>>
files == <<db, journal, dirent>>
counts == <<most, trans, crashes, errors>>

Pages == 1..MaxPage
Slots == 1..MaxSlot
Inodes == 1..MaxInode

-----------------------------------------------------------------------------
\* Files

Length(d) == Max({0} \cup {p \in DOMAIN d : d[p] # NoPage})
DbSize == Length(Cur(db))

\* Pages before the end that were never written read as zeros.
Filled(d) == [p \in DOMAIN d |-> IF d[p] = NoPage /\ p < Length(d) THEN Zero ELSE d[p]]

WriteDb(p, x) ==
  [q \in Pages |->
     IF q = p THEN WrittenPage(db[q], x, Torn)
     ELSE IF q < p /\ db[q].cur = NoPage THEN Written(db[q], Zero)
     ELSE db[q]]

\* pager_truncate(): the file gets n pages, by cutting or by a page of zeros.
TruncateDb(n) ==
  IF DbSize < n THEN WriteDb(n, Zero)
  ELSE [q \in Pages |-> IF q > n THEN Written(db[q], NoPage) ELSE db[q]]

\* The journal.  nonce: cksumInit, on which the checksum of a record rests.
NoCell == [kind |-> "none"]
Junk == [kind |-> "junk"]    \* zeros, or a record that was torn
Header(magic, nRec, nonce, orig) ==
  [kind |-> "header", magic |-> magic, nRec |-> nRec, nonce |-> nonce, orig |-> orig]
Record(pgno, data, nonce) ==
  [kind |-> "record", pgno |-> pgno, data |-> data, nonce |-> nonce]

IsMagic(cell) == cell.kind = "header" /\ cell.magic
NoJournal == [s \in Slots |-> Stable(NoCell)]
SlotsUsed(cells) == Max({0} \cup {s \in Slots : cells[s].cur.kind # "none"})

\* A journal that no power loss can make hot is as good as none.
Dead(i) == i # 0 /\ \A x \in journal[i][1].may : ~IsMagic(x)
MayBe(ents) == {IF Dead(i) THEN 0 ELSE i : i \in ents}

InUse(i) == i = dirent.cur \/ i \in dirent.may \/ \E c \in Conns : pager[c].jfd = i
FreeInodes == {i \in Inodes : ~InUse(i)}
NewInode == Min(FreeInodes)

Nonces(cells) ==
  {x.nonce : x \in {y \in UNION {cells[s].may : s \in Slots} :
                      y.kind \in {"header", "record"}}}
NewNonce(cells) == Max({0} \cup Nonces(cells)) + 1

-----------------------------------------------------------------------------
\* What a database file and a journal amount to (for the properties)

\* What a rollback reads of a journal: header after header, each with its
\* records, up to the first that is not what it should be.
Played(j) ==
  LET end[h \in 1..MaxSlot + 1] ==
        IF h > MaxSlot \/ ~IsMagic(j[h]) THEN h - 1
        ELSE LET next == h + j[h].nRec + 1
                 bad == {s \in h + 1..next - 1 :
                           \/ s > MaxSlot
                           \/ j[s].kind # "record" \/ j[s].nonce # j[h].nonce}
             IN IF bad = {} THEN end[next] ELSE Min(bad) - 1
  IN SubSeq(j, 1, end[1])

RolledBack(d, played) ==
  LET of(p) == {s \in DOMAIN played :
                  played[s].kind = "record" /\ played[s].pgno = p}
  IN IF played = <<>> \/ d[1] = NoPage THEN d
     ELSE [p \in Pages |->
            IF p > played[1].orig THEN NoPage
            ELSE IF of(p) # {} THEN played[Max(of(p))].data
            ELSE IF d[p] = NoPage THEN Zero ELSE d[p]]

\* The pages that the header on page 1 counts.
ImageOf(d) ==
  IF d[1] = NoPage THEN <<>>
  ELSE IF d[1] \in {Zero, Torn} THEN d
  ELSE SubSeq(d, 1, d[1].nPage)

JournalNow == IF dirent.cur = 0 THEN Cur(NoJournal) ELSE Cur(journal[dirent.cur])

-----------------------------------------------------------------------------
\* The Pager of a connection

\* eState as in the source.  pc: where the running call is, "idle" between
\* calls, "failed" when a commit failed and has to be rolled back.
\* nPage: BtShared.nPage; vers: dbFileVers[], as the content of page 1;
\* off: journalOff, in slots; hdr: the slot at journalHdr, before which every
\* record is synced; header: whether journalHdr is a place where a header can
\* be (it may also be the end of the last record); left: records of the segment
\* still to be played back; commit: bCommit; spill: the page that pagerStress()
\* writes, 0 while committing.
NoCache == [p \in Pages |-> NoPage]
NoVersion == [ver |-> 0, nPage |-> 0]

Fresh ==
  [eState |-> "open", pc |-> "idle", cache |-> NoCache, vers |-> NoVersion,
   dbSize |-> 0, nPage |-> 0, orig |-> 0, dirty |-> {}, needSync |-> {},
   inJournal |-> {}, jfd |-> 0, off |-> 0, hdr |-> 0, header |-> FALSE, nRec |-> 0, nonce |-> 0,
   hot |-> FALSE, left |-> 0, commit |-> FALSE,
   spill |-> 0]

\* Between transactions these have no meaning.
Ended(g) ==
  [g EXCEPT !.orig = 0, !.dirty = {}, !.needSync = {}, !.inJournal = {},
            !.off = 0, !.hdr = 0, !.header = FALSE, !.nRec = 0, !.nonce = 0,
            !.hot = FALSE, !.left = 0, !.commit = FALSE, !.spill = 0]

\* pager_unlock(): the lock is dropped, the journal closed; after an error
\* the cache is not to be trusted.
Unlocked(g, error) ==
  [Ended(g) EXCEPT !.eState = "open", !.pc = "idle", !.jfd = 0,
                   !.dbSize = 0, !.nPage = 0,
                   !.cache = IF error THEN NoCache ELSE @]

Set(c, g) == pager' = [pager EXCEPT ![c] = g]
Goto(c, pc) == Set(c, [pager[c] EXCEPT !.pc = pc])

\* sqlite3PagerGet(): page p as connection g has it or reads it.
Content(g, p) ==
  IF g.cache[p] # NoPage THEN g.cache[p]
  ELSE IF p > g.dbSize THEN Zero ELSE db[p].cur

\* readDbPage() takes dbFileVers[] from a page 1 it reads.
Version(x) == IF x \in {NoPage, Zero, Torn} THEN NoVersion ELSE x
Loaded(g, p) ==
  [g EXCEPT !.cache[p] = Content(g, p),
            !.vers = IF p = 1 /\ g.cache[1] = NoPage /\ g.dbSize > 0
                     THEN Version(db[1].cur) ELSE @]

-----------------------------------------------------------------------------
\* sqlite3PagerSharedLock() and hasHotJournal()

SharedLock(c) ==
  /\ pager[c].eState = "open" /\ pager[c].pc = "idle"
  /\ LockShared(c)
  /\ Goto(c, "exists")
  /\ UNCHANGED <<mode, files, counts>>

\* sqlite3OsAccess() on the journal
JournalExists(c) ==
  /\ pager[c].pc = "exists"
  /\ Goto(c, IF dirent.cur = 0 THEN "validate" ELSE "reserved")
  /\ UNCHANGED <<lock, reserver, mode, files, counts>>

\* The journal may have been deleted since.  A database without pages has
\* nothing to roll back.
CheckReserved(c) ==
  /\ pager[c].pc = "reserved"
  /\ Goto(c, IF ReservedSeen(c) THEN "validate"
             ELSE IF DbSize = 0 THEN "empty" ELSE "first")
  /\ UNCHANGED <<lock, reserver, mode, files, counts>>

EmptyReserve(c) ==
  /\ pager[c].pc = "empty"
  /\ \/ LockReserved(c) /\ Goto(c, "delete")
     \/ /\ \E d \in Others(c) : lock[d] > SHARED_LOCK
        /\ Goto(c, "validate") /\ UNCHANGED <<lock, reserver>>
  /\ UNCHANGED <<mode, files, counts>>

\* sqlite3OsDelete() without a sync of the directory: the name may come back.
EmptyDelete(c) ==
  /\ pager[c].pc = "delete"
  /\ dirent' = [cur |-> 0, may |-> MayBe(dirent.may \cup {0})]
  /\ Unlock(c, SHARED_LOCK)
  /\ Goto(c, "validate")
  /\ UNCHANGED <<mode, db, journal, counts>>

\* A journal that cannot be opened any more is taken for hot too.
FirstByte(c) ==
  /\ pager[c].pc = "first"
  /\ Goto(c, IF dirent.cur = 0 \/ IsMagic(JournalNow[1]) THEN "hot" ELSE "validate")
  /\ UNCHANGED <<lock, reserver, mode, files, counts>>

\* EXCLUSIVE without RESERVED on the way; else SQLITE_BUSY.
HotLock(c) ==
  /\ pager[c].pc = "hot"
  /\ \/ LockExclusive(c) /\ Goto(c, "open")
     \/ /\ \E d \in Others(c) : lock[d] # NO_LOCK
        /\ Unlock(c, NO_LOCK) /\ Set(c, Unlocked(pager[c], FALSE))
  /\ UNCHANGED <<mode, files, counts>>

\* Somebody else may have rolled it back in the meantime.
HotOpen(c) ==
  /\ pager[c].pc = "open"
  /\ IF dirent.cur = 0
     THEN Unlock(c, SHARED_LOCK) /\ Goto(c, "validate")
     ELSE /\ Set(c, [pager[c] EXCEPT !.jfd = dirent.cur, !.pc = "hotsync"])
          /\ UNCHANGED <<lock, reserver>>
  /\ UNCHANGED <<mode, files, counts>>

\* pagerSyncHotJournal(): then every record counts as synced.
HotSync(c) ==
  LET g == pager[c]
  IN /\ g.pc = "hotsync"
     /\ journal' = [journal EXCEPT ![g.jfd] = Sync(@)]
     /\ Set(c, [g EXCEPT !.hdr = SlotsUsed(journal[g.jfd]) + 1,
                         !.hot = TRUE, !.off = 0, !.pc = "play"])
     /\ UNCHANGED <<lock, reserver, mode, db, dirent, counts>>

\* The cache of an earlier transaction is good if bytes 24 to 39 of the file
\* are what they were.  lockBtree() then gets page 1 and holds it.
Validate(c) ==
  LET g == pager[c]
      stale == g.vers # (IF DbSize = 0 THEN NoVersion ELSE Version(db[1].cur))
      h == [g EXCEPT !.cache = IF stale THEN NoCache ELSE @,
                     !.dbSize = DbSize, !.eState = "reader", !.pc = "idle"]
      k == IF DbSize = 0 THEN h ELSE Loaded(h, 1)
  IN /\ g.pc = "validate"
     /\ Set(c, [k EXCEPT !.nPage = Version(k.cache[1]).nPage])
     /\ UNCHANGED <<lock, reserver, mode, files, counts>>

Read(c, p) ==
  LET g == pager[c]
  IN /\ g.eState = "reader" /\ g.pc = "idle"
     /\ p \in 1..g.nPage /\ g.cache[p] = NoPage
     /\ Set(c, Loaded(g, p))
     /\ UNCHANGED <<lock, reserver, mode, files, counts>>

EndRead(c) ==
  /\ pager[c].eState = "reader" /\ pager[c].pc = "idle"
  /\ Unlock(c, NO_LOCK)
  /\ Set(c, Unlocked(pager[c], FALSE))
  /\ UNCHANGED <<mode, files, counts>>

-----------------------------------------------------------------------------
\* sqlite3PagerBegin(), sqlite3PagerWrite() and the b-tree's use of them

\* Left out: a second transaction on a database that is still empty with the
\* journal of the first one kept open (see the README).
BeginWrite(c) ==
  LET g == pager[c]
  IN /\ g.eState = "reader" /\ g.pc = "idle"
     /\ g.jfd = 0 \/ g.dbSize > 0
     /\ trans > 0 /\ trans' = trans - 1
     /\ LockReserved(c)
     /\ Set(c, [g EXCEPT !.eState = "locked", !.orig = g.dbSize])
     /\ UNCHANGED <<mode, files, most, crashes, errors>>

PutCell(i, s, x) == journal' = [journal EXCEPT ![i][s] = Written(@, x)]
PutRecord(cells, s, x) == [cells EXCEPT ![s] = WrittenPage(@, x, Junk)]

\* pager_open_journal(): the file that has the name, or a new one; its first
\* header has no magic yet.
Opened(g) ==
  LET i == IF g.jfd # 0 THEN g.jfd
           ELSE IF dirent.cur # 0 THEN dirent.cur ELSE NewInode
      old == IF dirent.cur = 0 /\ g.jfd = 0 THEN NoJournal ELSE journal[i]
      nonce == NewNonce(old)
  IN [pager |-> [g EXCEPT !.eState = "cachemod", !.jfd = i, !.off = 1, !.hdr = 1,
                          !.header = TRUE, !.nRec = 0, !.nonce = nonce],
      cells |-> [old EXCEPT ![1] = Written(@, Header(FALSE, 0, nonce, g.orig))]]

SlipJournalled(o, p) ==
  LET g == o.pager
      h == [g EXCEPT !.dirty = @ \cup {p}, !.dbSize = Max({@, p})]
  IN IF p \in g.inJournal THEN [o EXCEPT !.pager = h]
     ELSE IF p <= g.orig
     THEN [pager |-> [h EXCEPT !.off = @ + 1, !.nRec = @ + 1,
                               !.inJournal = @ \cup {p}],
           cells |-> PutRecord(o.cells, g.off + 1,
                               Record(p, Content(g, p), g.nonce))]
     ELSE [o EXCEPT !.pager =
             [h EXCEPT !.needSync = IF g.eState # "dbmod" THEN @ \cup {p} ELSE @]]

\* pager_write(): what page p was goes to the journal, once in a transaction,
\* unless the page is new.
Journalled(o, p) ==
  LET g == o.pager
      h == [g EXCEPT !.dirty = @ \cup {p}, !.dbSize = Max({@, p})]
  IN IF p \in g.inJournal THEN [o EXCEPT !.pager = h]
     ELSE IF p <= g.orig
     THEN [pager |-> [h EXCEPT !.off = @ + 1, !.nRec = @ + 1,
                               !.needSync = @ \cup {p},
                               !.inJournal = @ \cup {p}],
           cells |-> PutRecord(o.cells, g.off + 1,
                               Record(p, Content(g, p), g.nonce))]
     ELSE [o EXCEPT !.pager =
             [h EXCEPT !.needSync = IF g.eState # "dbmod" THEN @ \cup {p} ELSE @]]

InWrite(g) == g.eState \in {"locked", "cachemod", "dbmod"} /\ g.pc = "idle"

\* The pager as the b-tree changes pages with it, with its journal open.
Writable(g) ==
  IF g.eState = "locked" THEN Opened(g)
  ELSE [pager |-> g, cells |-> journal[g.jfd]]

Store(c, o) ==
  /\ Set(c, o.pager)
  /\ journal' = [journal EXCEPT ![o.pager.jfd] = o.cells]
  /\ dirent' = IF dirent.cur # 0 \/ pager[c].jfd # 0 THEN dirent
               ELSE [cur |-> o.pager.jfd, may |-> dirent.may \cup {o.pager.jfd}]

\* A page is changed, or a page is appended; the first of all is page 1.  Two
\* changes of a page with no write of it between them count as the second.
Write(c, p, x) ==
  LET g == pager[c]
      o == Journalled(Writable(Loaded(g, p)), p)
  IN /\ InWrite(g)
     /\ g.eState = "locked" /\ g.jfd = 0 /\ dirent.cur = 0 => FreeInodes # {}
     /\ p \notin g.dirty /\ p <= g.nPage + 1 /\ p <= most
     /\ IF p = 1 THEN g.nPage = 0 /\ x = [ver |-> 0, nPage |-> 1]
        ELSE p > 1 /\ x \in Values /\ g.nPage > 0
     /\ g.off + 2 <= MaxSlot
     /\ p <= g.nPage => x # Content(g, p)
     /\ Store(c, [o EXCEPT !.pager = [@ EXCEPT !.cache[p] = x,
                                               !.nPage = Max({g.nPage, p})]])
     /\ UNCHANGED <<lock, reserver, mode, db, counts>>

-----------------------------------------------------------------------------
\* vdbeCommit(), sqlite3PagerCommitPhaseOne(), and pagerStress() up to its write

\* vdbeCommit() asks for the EXCLUSIVE lock before anything else.
BeginCommit(c) ==
  /\ InWrite(pager[c])
  /\ Goto(c, "excl")
  /\ UNCHANGED <<lock, reserver, mode, files, counts>>

\* The b-tree may have given up the last page (sqlite3PagerTruncateImage()).
\* pager_incr_changecounter() writes page 1; for brevity the number of pages
\* on it is brought up to date at the same time.
Commit(c, n) ==
  LET g == pager[c]
      o == Journalled(Writable(Loaded(g, 1)), 1)
  IN /\ g.pc = "phase1" /\ g.eState # "locked"
     /\ n \in {g.nPage, g.nPage - 1} /\ n > 0
     /\ n < g.nPage => mode \in ShrinkModes
     /\ g.off < MaxSlot
     /\ Store(c, [o EXCEPT !.pager =
                    [@ EXCEPT !.cache[1] = [ver |-> g.vers.ver + 1, nPage |-> n],
                              !.nPage = n, !.dbSize = n,
                              !.commit = TRUE, !.pc = "jsync"]])
     /\ UNCHANGED <<lock, reserver, mode, db, counts>>

\* Nothing was changed.
CommitNothing(c) ==
  /\ pager[c].pc = "phase1" /\ pager[c].eState = "locked"
  /\ Set(c, [pager[c] EXCEPT !.commit = TRUE, !.pc = "final"])
  /\ UNCHANGED <<lock, reserver, mode, files, counts>>

\* The page cache is full and makes room for another page; page 1 is in use.
\* The journal is synced if it has to be.
Spill(c, p) ==
  LET g == pager[c]
  IN /\ InWrite(g) /\ p \in g.dirty \ {1} /\ g.off + 2 <= MaxSlot
     /\ Set(c, [g EXCEPT !.spill = p,
                         !.pc = IF p \in g.needSync \/ g.eState = "cachemod"
                                THEN "excl" ELSE "wdb"])
     /\ UNCHANGED <<lock, reserver, mode, files, counts>>

\* pager_wait_on_lock(EXCLUSIVE_LOCK)
Pending(c) ==
  /\ pager[c].pc = "excl"
  /\ LockPending(c)
  /\ UNCHANGED <<mode, files, pager, counts>>

Exclusive(c) ==
  /\ pager[c].pc = "excl"
  /\ \/ lock[c] = PENDING_LOCK /\ LockExclusive(c)
     \/ lock[c] = EXCLUSIVE_LOCK /\ UNCHANGED lockVars
  /\ Goto(c, IF pager[c].spill = 0 THEN "phase1" ELSE "jsync")
  /\ UNCHANGED <<mode, files, counts>>

\* The busy handler gives up: the transaction stays open, and PENDING too.
Busy(c) ==
  /\ pager[c].pc = "excl" /\ lock[c] = PENDING_LOCK
  /\ \E d \in Others(c) : lock[d] # NO_LOCK
  /\ Set(c, [pager[c] EXCEPT !.spill = 0, !.pc = "idle"])
  /\ UNCHANGED <<lock, reserver, mode, files, counts>>

-----------------------------------------------------------------------------
\* syncJournal() and pager_write_pagelist()

\* fsync() of the journal; of the directory too, the first time after the
\* file was opened to be written.
SyncJournalFile(i, cells) ==
  /\ journal' = [j \in Inodes |->
                   IF j = i THEN Sync(cells)
                   ELSE IF \E c \in Conns : pager[c].jfd = j THEN journal[j]
                   ELSE NoJournal]
  /\ dirent' = [dirent EXCEPT !.may = {dirent.cur}]

\* A header that an earlier transaction left just behind is made unreadable.
JSync(c) ==
  LET g == pager[c]
      cells == journal[g.jfd]
      next == g.off + 1
      clear == IF next <= MaxSlot /\ IsMagic(cells[next].cur)
               THEN [cells EXCEPT ![next] =
                       Written(@, [cells[next].cur EXCEPT !.magic = FALSE])]
               ELSE cells
  IN /\ g.pc = "jsync"
     /\ SyncJournalFile(g.jfd, clear)
     /\ Goto(c, "jhdr")
     /\ UNCHANGED <<lock, reserver, mode, db, counts>>

\* Magic and nRec are written once the records are on disk.
JHeader(c) ==
  LET g == pager[c]
  IN /\ g.pc = "jhdr"
     /\ PutCell(g.jfd, g.hdr, Header(TRUE, g.nRec, g.nonce, g.orig))
     /\ Goto(c, "jsync2")
     /\ UNCHANGED <<lock, reserver, mode, db, dirent, counts>>

\* The journal is synced again; after a spill a new header follows.
JSync2(c) ==
  LET g == pager[c]
      h == [g EXCEPT !.needSync = {}, !.eState = "dbmod", !.pc = "wdb",
                     !.hdr = g.off + 1, !.header = FALSE]
      cells == Sync(journal[g.jfd])
      nonce == NewNonce(cells)
  IN /\ g.pc = "jsync2"
     /\ IF g.spill = 0
        THEN journal' = [journal EXCEPT ![g.jfd] = cells] /\ Set(c, h)
        ELSE /\ g.off + 1 <= MaxSlot
             /\ journal' = [journal EXCEPT ![g.jfd] =
                  [cells EXCEPT ![g.off + 1] =
                     Written(@, Header(FALSE, 0, nonce, g.orig))]]
             /\ Set(c, [h EXCEPT !.header = TRUE, !.off = @ + 1,
                                 !.nRec = 0, !.nonce = nonce])
     /\ UNCHANGED <<lock, reserver, mode, db, dirent, counts>>

Stored(g, p) ==
  [g EXCEPT !.dirty = @ \ {p}, !.vers = IF p = 1 THEN g.cache[1] ELSE @]

WritePage(c) ==
  LET g == pager[c]
      left == {p \in g.dirty : p <= g.dbSize}
  IN /\ g.pc = "wdb" /\ g.spill = 0 /\ left # {}
     /\ db' = WriteDb(Min(left), g.cache[Min(left)])
     /\ Set(c, Stored(g, Min(left)))
     /\ UNCHANGED <<lock, reserver, mode, journal, dirent, counts>>

\* The page leaves the cache.
WriteSpilled(c) ==
  LET g == pager[c]
      p == g.spill
  IN /\ g.pc = "wdb" /\ p # 0
     /\ db' = WriteDb(p, g.cache[p])
     /\ Set(c, [Stored(g, p) EXCEPT !.cache[p] = NoPage, !.spill = 0, !.pc = "idle"])
     /\ UNCHANGED <<lock, reserver, mode, journal, dirent, counts>>

\* The file grows if the last pages of the image were not written.
Grow(c) ==
  LET g == pager[c]
  IN /\ g.pc = "wdb" /\ g.spill = 0 /\ {p \in g.dirty : p <= g.dbSize} = {}
     /\ db' = IF g.dbSize > DbSize THEN TruncateDb(g.dbSize) ELSE db
     /\ Set(c, [g EXCEPT !.dirty = {}, !.pc = "dbsync"])
     /\ UNCHANGED <<lock, reserver, mode, journal, dirent, counts>>

SlipDbSync(c) ==
  LET g == pager[c]
  IN /\ g.pc = "dbsync"
     /\ UNCHANGED db
     /\ Set(c, [g EXCEPT !.eState = IF g.commit THEN "finished" ELSE @, !.pc = "final"])
     /\ UNCHANGED <<lock, reserver, mode, journal, dirent, counts>>

\* sqlite3PagerSync(), of a commit and of a rollback
DbSync(c) ==
  LET g == pager[c]
  IN /\ g.pc = "dbsync"
     /\ db' = Sync(db)
     /\ Set(c, [g EXCEPT !.eState = IF g.commit THEN "finished" ELSE @, !.pc = "final"])
     /\ UNCHANGED <<lock, reserver, mode, journal, dirent, counts>>

-----------------------------------------------------------------------------
\* pager_playback(), of a transaction of this connection or a hot journal

Rollback(c) ==
  LET g == pager[c]
  IN /\ InWrite(g) \/ g.pc = "failed"
     /\ Set(c, [g EXCEPT !.commit = FALSE, !.spill = 0, !.off = 0,
                         !.pc = IF g.eState = "locked" THEN "final" ELSE "play"])
     /\ UNCHANGED <<lock, reserver, mode, files, counts>>

\* The database file is written only once it is in the hands of this pager.
DbInPlay(g) == g.eState \in {"dbmod", "open"}

\* readJournalHdr() at the next slot.  In a rollback of its own transaction
\* the pager knows its last header by its place.
PlayHeader(c) ==
  LET g == pager[c]
      cells == Cur(journal[g.jfd])
      used == SlotsUsed(journal[g.jfd])
      at == g.off + 1
      own == ~g.hot /\ g.header /\ at = g.hdr
      found == at <= used /\ (own \/ IsMagic(cells[at]))
      x == cells[at]
      n == IF own /\ x.nRec = 0 THEN used - at ELSE x.nRec
  IN /\ g.pc = "play"
     /\ IF ~found
        THEN UNCHANGED db /\ Goto(c, "playend")
        ELSE /\ db' = IF g.off = 0 /\ DbInPlay(g) THEN TruncateDb(x.orig) ELSE db
             /\ Set(c, [g EXCEPT !.off = at, !.nonce = x.nonce, !.left = n,
                                 !.dbSize = IF g.off = 0 THEN x.orig ELSE @,
                                 !.pc = IF n = 0 THEN "play" ELSE "record"])
     /\ UNCHANGED <<lock, reserver, mode, journal, dirent, counts>>

\* pager_playback_one_page() finds a record, passes over it, or is done: a
\* header in this place reads as a record of a page far away.
Skips(g, x) ==
  \/ x.kind = "header" /\ x.magic
  \/ x.kind = "record" /\ x.pgno > g.dbSize
Restores(g, x) ==
  x.kind = "record" /\ x.pgno <= g.dbSize /\ x.nonce = g.nonce

\* A restored page goes to the file if its record is synced, and to the cache
\* if it is there; a hot rollback has emptied the cache.
PlayRecord(c) ==
  LET g == pager[c]
      cells == Cur(journal[g.jfd])
      at == g.off + 1
      x == IF at > MaxSlot THEN NoCell ELSE cells[at]
      h == [g EXCEPT !.cache = IF g.hot THEN NoCache ELSE @, !.off = at,
                     !.left = @ - 1, !.pc = IF g.left = 1 THEN "play" ELSE "record"]
      p == x.pgno
  IN /\ g.pc = "record"
     /\ IF Restores(g, x)
        THEN /\ db' = IF DbInPlay(g) /\ at < g.hdr THEN WriteDb(p, x.data) ELSE db
             /\ Set(c, IF h.cache[p] = NoPage THEN h
                       ELSE [h EXCEPT !.cache[p] = x.data,
                                      !.vers = IF p = 1 THEN Version(x.data) ELSE @])
        ELSE /\ UNCHANGED db
             /\ Set(c, IF Skips(g, x) THEN h ELSE [g EXCEPT !.pc = "playend"])
     /\ UNCHANGED <<lock, reserver, mode, journal, dirent, counts>>

PlayEnd(c) ==
  LET g == pager[c]
  IN /\ g.pc = "playend"
     /\ Set(c, [g EXCEPT !.pc = IF DbInPlay(g) THEN "dbsync" ELSE "final"])
     /\ UNCHANGED <<lock, reserver, mode, files, counts>>

-----------------------------------------------------------------------------
\* pager_end_transaction()

\* The journal is finalized.  A file that is truncated counts as another
\* file, which a sync makes the only one.
Finalize(c) ==
  LET g == pager[c]
      swap(new) == [d \in Conns |->
        IF d = c THEN [g EXCEPT !.jfd = new, !.pc = "finsync"]
        ELSE IF pager[d].jfd = g.jfd THEN [pager[d] EXCEPT !.jfd = new]
        ELSE pager[d]]
  IN /\ g.pc = "final"
     /\ CASE mode = "delete" /\ g.jfd # 0 ->
               /\ dirent' = [cur |-> 0, may |-> MayBe(dirent.may \cup {0})]
               /\ Set(c, [g EXCEPT !.jfd = 0, !.pc = "end"])
               /\ UNCHANGED journal
          [] mode = "truncate" /\ g.jfd # 0 /\ g.off # 0 ->
               /\ FreeInodes # {}
               /\ journal' = [journal EXCEPT ![NewInode] = NoJournal]
               /\ dirent' = [cur |-> NewInode, may |-> dirent.may \cup {NewInode}]
               /\ pager' = swap(NewInode)
          [] mode = "persist" /\ g.jfd # 0 /\ g.off # 0 ->
               /\ PutCell(g.jfd, 1, Junk)
               /\ Goto(c, "finsync")
               /\ UNCHANGED dirent
          [] OTHER -> Goto(c, "end") /\ UNCHANGED <<journal, dirent>>
     /\ UNCHANGED <<lock, reserver, mode, db, counts>>

FinSync(c) ==
  /\ pager[c].pc = "finsync"
  /\ SyncJournalFile(pager[c].jfd, journal[pager[c].jfd])
  /\ Goto(c, "end")
  /\ UNCHANGED <<lock, reserver, mode, db, counts>>

SlipConclude(c) ==
  LET g == pager[c]
      cache == [p \in Pages |-> IF p > g.dbSize THEN NoPage ELSE g.cache[p]]
      h == [Ended(g) EXCEPT !.cache = cache,
                            !.nPage = IF g.commit THEN @ ELSE Version(cache[1]).nPage,
                            !.pc = IF g.hot THEN "validate" ELSE "idle"]
  IN /\ g.pc = "end"
     /\ db' = IF g.commit /\ g.eState = "finished" /\ DbSize > g.dbSize
              THEN TruncateDb(g.dbSize) ELSE db
     /\ Unlock(c, SHARED_LOCK)
     /\ Set(c, h)
     /\ UNCHANGED <<mode, journal, dirent, counts>>

\* The file is cut to its size after a commit, and the lock given back.  A
\* hot rollback goes on with the read-transaction it was called for.
Conclude(c) ==
  LET g == pager[c]
      cache == [p \in Pages |-> IF p > g.dbSize THEN NoPage ELSE g.cache[p]]
      h == [Ended(g) EXCEPT !.cache = cache,
                            !.nPage = IF g.commit THEN @ ELSE Version(cache[1]).nPage,
                            !.eState = IF g.hot THEN "open" ELSE "reader",
                            !.pc = IF g.hot THEN "validate" ELSE "idle"]
  IN /\ g.pc = "end"
     /\ db' = IF g.commit /\ g.eState = "finished" /\ DbSize > g.dbSize
              THEN TruncateDb(g.dbSize) ELSE db
     /\ Unlock(c, SHARED_LOCK)
     /\ Set(c, h)
     /\ UNCHANGED <<mode, journal, dirent, counts>>

-----------------------------------------------------------------------------
\* Faults

\* The journal was ended, or a database that had been empty cut to nothing,
\* and this is not synced yet.  The next connection that comes along takes the
\* journal for worthless, though a power loss may still bring the file back.
Exposed(g) ==
  \/ g.pc = "finsync"
  \/ g.pc \in {"play", "record", "playend", "dbsync"} /\ ~g.commit /\ g.dbSize = 0

\* A system call fails; a write of a page may have been done in part.  A
\* commit that fails is rolled back; otherwise the pager is in the error
\* state until its last page is given back (pager_error()).
IoError(c) ==
  LET g == pager[c]
      committing == g.commit /\ g.eState \in {"cachemod", "dbmod"}
      left == {p \in g.dirty : p <= g.dbSize}
      target == IF g.spill # 0 THEN g.spill ELSE Min(left)
  IN /\ g.pc \in {"jsync", "jhdr", "jsync2", "wdb", "dbsync", "play", "record",
                  "final", "finsync"}
     /\ g.eState # "locked"
     /\ DoubleFault \/ ~Exposed(g)
     /\ errors > 0 /\ errors' = errors - 1
     /\ \/ UNCHANGED db
        \/ /\ g.pc = "wdb" /\ left # {}
           /\ db' = WriteDb(target, Torn)
     /\ CASE g.hot -> /\ Unlock(c, NO_LOCK)
                      /\ Set(c, Unlocked(g, TRUE))
          [] committing -> /\ Goto(c, "failed")
                           /\ UNCHANGED lockVars
          [] OTHER -> /\ Set(c, [g EXCEPT !.eState = "error", !.pc = "idle"])
                      /\ IF g.pc \in {"final", "finsync"}
                         THEN Unlock(c, SHARED_LOCK) ELSE UNCHANGED lockVars
     /\ UNCHANGED <<mode, journal, dirent, most, trans, crashes>>

\* pager_unlock() when the connection gives up
ErrorUnlock(c) ==
  /\ pager[c].eState = "error"
  /\ Unlock(c, NO_LOCK)
  /\ Set(c, Unlocked(pager[c], TRUE))
  /\ UNCHANGED <<mode, files, counts>>

\* The process of a connection is killed; its writes are with the system.
Crash(c) ==
  /\ lock[c] # NO_LOCK
  /\ DoubleFault \/ ~Exposed(pager[c])
  /\ crashes > 0 /\ crashes' = crashes - 1
  /\ Vanish({c})
  /\ Set(c, Fresh)
  /\ UNCHANGED <<mode, files, most, trans, errors>>

PowerLoss ==
  /\ \E c \in Conns : lock[c] # NO_LOCK
  /\ crashes > 0 /\ crashes' = crashes - 1
  /\ Vanish(Conns)
  /\ pager' = [c \in Conns |-> Fresh]
  /\ \E d \in Survivors(db) :
       db' = [p \in Pages |-> Stable(Filled(d)[p])]
  /\ \E i \in dirent.may :
       /\ dirent' = Stable(i)
       /\ IF i = 0 THEN journal' = [k \in Inodes |-> NoJournal]
          ELSE \E j \in Survivors(journal[i]) :
                 journal' = [k \in Inodes |->
                   IF k = i THEN [s \in Slots |-> Stable(j[s])] ELSE NoJournal]
  /\ UNCHANGED <<mode, most, trans, errors>>

-----------------------------------------------------------------------------
FirstPage(n) == [ver |-> 0, nPage |-> n]

Init ==
  /\ LockInit
  /\ \E x \in Scenarios, v \in Values :
       /\ mode = x.mode /\ most = x.most
       /\ trans = x.trans /\ crashes = x.crashes /\ errors = x.errors
       /\ db = [p \in Pages |->
                  Stable(IF p > x.size THEN NoPage
                         ELSE IF p = 1 THEN FirstPage(x.size) ELSE v)]
  /\ journal = [i \in Inodes |-> NoJournal]
  /\ dirent = Stable(0)
  /\ pager = [c \in Conns |-> Fresh]

Reading(c) ==
  \/ SharedLock(c) \/ JournalExists(c) \/ CheckReserved(c) \/ EmptyReserve(c)
  \/ EmptyDelete(c) \/ FirstByte(c) \/ HotLock(c) \/ HotOpen(c) \/ HotSync(c)
  \/ Validate(c) \/ EndRead(c)
  \/ \E p \in Pages : Read(c, p)

Writing(c) ==
  \/ BeginWrite(c) \/ BeginCommit(c) \/ CommitNothing(c)
  \/ \E p \in Pages, x \in Values \cup {FirstPage(1)} : Write(c, p, x)
  \/ \E n \in Pages : Commit(c, n)
  \/ \E p \in Pages : Spill(c, p)
  \/ Pending(c) \/ Exclusive(c) \/ Busy(c)
  \/ JSync(c) \/ JHeader(c) \/ JSync2(c)
  \/ WritePage(c) \/ WriteSpilled(c) \/ Grow(c) \/ DbSync(c)

Ending(c) ==
  \/ Rollback(c) \/ PlayHeader(c) \/ PlayRecord(c) \/ PlayEnd(c)
  \/ Finalize(c) \/ FinSync(c) \/ Conclude(c)

Fault(c) == IoError(c) \/ ErrorUnlock(c) \/ Crash(c)

Next ==
  \/ \E c \in Conns : Reading(c) \/ Writing(c) \/ Ending(c) \/ Fault(c)
  \/ PowerLoss

Spec == Init /\ [][Next]_vars

-----------------------------------------------------------------------------
\* Properties

PageContents ==
  Values \cup [ver : Nat, nPage : Pages]
OnDisk == PageContents \cup {NoPage, Zero, Torn}
States == {"open", "reader", "locked", "cachemod", "dbmod", "finished", "error"}

\* What assert_pager_state() asserts of one pager.
PagerStateOK(c) ==
  LET g == pager[c]
  IN /\ g.eState \in States
     /\ g.eState = "reader" => lock[c] >= SHARED_LOCK
     /\ g.eState \in {"locked", "cachemod"} => lock[c] >= RESERVED_LOCK
     /\ g.eState \in {"dbmod", "finished"} => lock[c] = EXCLUSIVE_LOCK
     /\ g.eState = "locked" => g.dbSize = g.orig
     /\ g.eState \in {"cachemod", "dbmod", "finished"} /\ g.pc # "end" => g.jfd # 0

\* Every pager is in a state that assert_pager_state() allows: its lock and its
\* journal are those that its eState calls for.
PagersOK == \A c \in Conns : PagerStateOK(c)

\* The state is well formed, and every pager in a state it may be in.
TypeOK ==
  /\ LockTypeOK
  /\ mode \in AllModes /\ most \in 0..MaxPage
  /\ \A p \in Pages : db[p].cur \in db[p].may /\ db[p].may \subseteq OnDisk
  /\ dirent.cur \in dirent.may /\ dirent.may \subseteq 0..MaxInode
  /\ PagersOK
  /\ \A c \in Conns :
       /\ pager[c].jfd \in 0..MaxInode /\ pager[c].off \in 0..MaxSlot
       /\ pager[c].dirty \subseteq {p \in Pages : pager[c].cache[p] # NoPage}
       /\ pager[c].needSync \subseteq pager[c].dirty

\* A record of page p, in a segment with this nonce.
IsRecordOf(x, p, nonce) == x.kind = "record" /\ x.pgno = p /\ x.nonce = nonce

\* The record of page p is on disk, in a segment whose header counts it and
\* is on disk too.
OnRecord(cells, hdr, p) ==
  \E h, s \in 1..hdr - 1 :
    /\ h < s
    /\ h \in Slots /\ cells[h] = Stable(cells[h].cur)
    /\ cells[h].cur.kind = "header" /\ cells[h].cur.magic
    /\ s <= h + cells[h].cur.nRec
    /\ s \in Slots /\ cells[s] = Stable(cells[s].cur)
    /\ IsRecordOf(cells[s].cur, p, cells[h].cur.nonce)

InTransaction(g) ==
  g.eState \in {"reader", "locked", "cachemod", "dbmod", "finished"}
\* A rollback throws away what the connection had.
Undoing(g) ==
  ~g.commit /\ g.pc \in {"play", "record", "playend", "dbsync", "final",
                         "finsync", "end"}

View(c) ==
  LET g == pager[c]
  IN IF InTransaction(g) /\ ~Undoing(g)
     THEN [p \in 1..g.nPage |-> Content(g, p)] ELSE NoView

Images == {s \in Seq(PageContents) : Len(s) <= MaxPage}

\* The images that come of the database file with one of these journals.
Outcomes(journals) ==
  {ImageOf(d) : d \in {RolledBack(f, j) : f \in {Cur(db)},
                                          j \in {Played(k) : k \in journals}}}

Image == CHOOSE x \in Outcomes({JournalNow}) : TRUE

\* The images that a power loss could still bring back, by the directory or
\* by the first header of a journal.
Undone ==
  LET of(i) == IF i = 0 THEN {Cur(NoJournal)}
               ELSE {[Cur(journal[i]) EXCEPT ![1] = x] : x \in journal[i][1].may}
  IN Outcomes(UNION {of(i) : i \in dirent.may}) \ {Image}

Writers == {c \in Conns :
  /\ pager[c].eState \in {"locked", "cachemod", "dbmod", "finished"}
  /\ ~Undoing(pager[c])}

\* The state of AtomicFile that this state stands for.
PromiseOfFiles == [image |-> Image, undone |-> Undone]
PromiseOfPagers == [view |-> [c \in Conns |-> View(c)], writer |-> Writers]
=============================================================================
