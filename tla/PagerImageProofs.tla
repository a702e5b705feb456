-------------------------- MODULE PagerImageProofs --------------------------
(***************************************************************************)
(* The committed image, to the end: rollbacks, hot journals, the end of a  *)
(* transaction, errors, crashes and power losses leave it so or make       *)
(* it what was committed; and a page of it is not overwritten before the   *)
(* journal has it on disk.                                                 *)
(***************************************************************************)
EXTENDS PagerPromiseProofs

USE DEF NO_LOCK, SHARED_LOCK, RESERVED_LOCK, PENDING_LOCK, EXCLUSIVE_LOCK

\* The pager q.pager is about to change page p; its journal is q.cells.
Changing(q, i, c, p) ==
  /\ q = [pager |-> q.pager, cells |-> q.cells]
  /\ IsImage(i) /\ Ready(q.pager, i, q.cells) /\ lock[c] >= RESERVED_LOCK
  /\ p \in q.pager.dirty /\ p <= q.pager.dbSize
  /\ q.pager.orig \in 0..MaxPage /\ (p <= q.pager.orig => p \in q.pager.inJournal)
  /\ q.pager.nPage = pager[c].nPage /\ q.pager.pc = pager[c].pc
  /\ q.pager.jfd \in Inodes /\ q.pager.jfd # 0
  /\ dirent.cur # 0 => dirent.cur = q.pager.jfd
  /\ pager[c].jfd # 0 => dirent.cur = pager[c].jfd
  /\ q.pager.eState = "cachemod" =>
       /\ Quiet(db, i) /\ ~IsMagic(q.cells[1].cur)
       /\ (\E x \in q.cells[1].may : IsMagic(x)) =>
            EmptyDb(db) /\ dirent.cur = q.pager.jfd /\ dirent.may = {q.pager.jfd}
  /\ q.pager.eState = "dbmod" =>
       lock[c] = EXCLUSIVE_LOCK /\ dirent.cur = q.pager.jfd /\ dirent.may = {q.pager.jfd}

\* pager_write() makes a page ready to be changed.
LEMMA ChangeReady ==
  ASSUME IInv, NEW b \in Nat, TInv(b), NEW i, PInv(i), NEW c \in Conns, NEW p \in Pages,
         pager[c].eState = "locked" \/ pager[c].eState = "cachemod" \/ pager[c].eState = "dbmod",
         pager[c].pc = "idle" \/ pager[c].pc = "phase1",
         pager[c].eState = "locked" => pager[c].pc = "idle" /\ pager[c].off + 2 <= MaxSlot,
         pager[c].eState = "locked" /\ pager[c].jfd = 0 /\ dirent.cur = 0 => FreeInodes # {},
         pager[c].off < MaxSlot
  PROVE  Changing(Journalled(Writable(Loaded(pager[c], p)), p), i, c, p)
<1> DEFINE v == Writable(Loaded(pager[c], p))
           q == Journalled(v, p)
<1>1. /\ pager[c].eState \in {"locked", "cachemod", "dbmod"} /\ pager[c].pc \in {"idle", "phase1"}
  OBVIOUS
<1>2. Writes(v, lock[c]) /\ v.pager.off + 1 <= MaxSlot /\ lock[c] >= RESERVED_LOCK
  BY <1>1, ReadyToWrite
<1>3. OpenTyped(v, p, b + 1)
  BY <1>1, WritableTyped
<1>4. Opening(v, i, b + 1, c)
  <2>1. CASE pager[c].eState = "locked"
    BY <2>1, OpenedReady
  <2>2. CASE pager[c].eState # "locked"
    BY <2>2, ChangedReady
  <2>3. QED
    BY <2>1, <2>2
<1>5. IsImage(i)
  BY DEF PInv
<1> HIDE DEF v
<1>6. JournalledIs(v, p, q)
  <2>1. v = [pager |-> v.pager, cells |-> v.cells] /\ v.pager = [f \in Fields |-> v.pager[f]]
        /\ v.pager.orig \in 0..MaxPage
    BY <1>2, <1>3, <1>4 DEF Writes, PagerInv, OpenTyped, DataType, Opening
  <2>2. QED
    BY <2>1, JournalledFields
<1> HIDE DEF q
<1>7. /\ Ready(q.pager, i, q.cells) /\ p \in q.pager.dirty /\ p <= q.pager.dbSize
      /\ p <= q.pager.orig => p \in q.pager.inJournal
      /\ q.pager.nPage = v.pager.nPage /\ q.pager.cache = v.pager.cache
      /\ q.pager.vers = v.pager.vers /\ q.pager.orig = v.pager.orig
      /\ q.pager.jfd = v.pager.jfd /\ q.pager.eState = v.pager.eState /\ q.pager.pc = v.pager.pc
      /\ q.cells[1] = v.cells[1]
  <2>1. b + 1 \in Nat /\ v.pager.orig \in 0..MaxPage /\ v.pager.off \in 0..MaxSlot
    BY <1>3 DEF OpenTyped, DataType
  <2>2. v.pager.off < MaxSlot
    BY <1>2, <2>1, Bounds
  <2>3. /\ Ready(v.pager, i, v.cells) /\ JournalType(v.cells, b + 1)
        /\ (p <= v.pager.orig => v.pager.cache[p] # NoPage)
    BY <1>3, <1>4 DEF OpenTyped, Opening
  <2>4. b + 1 \in Nat
    BY <2>1
  <2>5. v.pager.orig \in 0..MaxPage
    BY <2>1
  <2>6. QED
    BY <1>5, <1>6, <2>2, <2>3, <2>4, <2>5, JournalledReady
<1>8. q = [pager |-> q.pager, cells |-> q.cells]
  BY <1>6 DEF JournalledIs
<1>9. Changing(q, i, c, p)
  <2>0. q.pager.orig \in 0..MaxPage
    BY <1>3, <1>7 DEF OpenTyped, DataType
  <2>1. /\ v.pager.nPage = pager[c].nPage /\ v.pager.pc = pager[c].pc
        /\ v.pager.jfd \in Inodes /\ v.pager.jfd # 0
        /\ dirent.cur # 0 => dirent.cur = v.pager.jfd
        /\ pager[c].jfd # 0 => dirent.cur = pager[c].jfd
    BY <1>4 DEF Opening
  <2>2. v.pager.eState = "cachemod" =>
          /\ Quiet(db, i) /\ ~IsMagic(v.cells[1].cur)
          /\ (\E x \in v.cells[1].may : IsMagic(x)) =>
               EmptyDb(db) /\ dirent.cur = v.pager.jfd /\ dirent.may = {v.pager.jfd}
    BY <1>4 DEF Opening
  <2>3. v.pager.eState = "dbmod" =>
          lock[c] = EXCLUSIVE_LOCK /\ dirent.cur = v.pager.jfd /\ dirent.may = {v.pager.jfd}
    BY <1>4 DEF Opening
  <2>4. QED
    BY <1>2, <1>5, <1>7, <1>8, <2>0, <2>1, <2>2, <2>3 DEF Changing
<1>10. QED
  BY <1>9 DEF q, v

\* What remains of a change of a page: what is in the cache and on record.
LEMMA ChangeKept ==
  ASSUME IInv, NEW i, PInv(i), NEW c \in Conns, NEW q, NEW p, Changing(q, i, c, p),
         NEW h, NEW w, w.pager = h, w.cells = q.cells, Store(c, w),
         UNCHANGED <<lock, reserver, mode, db>>,
         h.eState = q.pager.eState, h.jfd = q.pager.jfd, h.orig = q.pager.orig,
         h.hdr = q.pager.hdr, h.header = q.pager.header, h.nRec = q.pager.nRec,
         h.off = q.pager.off, h.nonce = q.pager.nonce, h.hot = q.pager.hot, h.spill = q.pager.spill,
         \/ h.pc = "idle" /\ h.commit = FALSE
         \/ h.pc = "jsync" /\ h.commit = TRUE /\ lock[c] = EXCLUSIVE_LOCK,
         WriteK(h, i, db, q.cells, mode)
  PROVE  PInv(i)'
<1> DEFINE k == q.pager
           cells == q.cells
<1>1. ReadyLog(k, i, cells) /\ ReadyPages(k, i, cells)
  BY DEF Changing, Ready
<1>2. /\ k.eState = "cachemod" \/ k.eState = "dbmod"
      /\ k.pc = "idle" \/ k.pc = "phase1"
      /\ k.header = TRUE /\ k.hot = FALSE /\ LogK(k, i, db, cells)
      /\ NoMagic(cells, k.hdr) \/ (k.hdr = 1 /\ EmptyDb(db) /\ ~IsMagic(cells[1].cur))
      /\ k.spill = 0
  BY <1>1 DEF ReadyLog, ReadyPages
<1>3. LogK(h, i, db, cells)
  BY <1>2, LogSame DEF SameJournal
<1>4. SyncK(h, i, db, cells, dirent')
  <2>1. /\ h.header = TRUE /\ h.hdr = k.hdr /\ h.spill = 0
        /\ (h.pc = "idle" /\ h.commit = FALSE) \/ (h.pc = "jsync" /\ h.commit = TRUE)
    BY <1>2
  <2>2. NoMagic(cells, h.hdr) \/ (h.hdr = 1 /\ EmptyDb(db) /\ ~IsMagic(cells[1].cur))
    BY <1>2, <2>1
  <2> HIDE DEF cells, k
  <2>3. CASE h.pc = "idle"
    <3>1. h.commit = FALSE /\ h.spill = 0 /\ 0 # 1
      BY <2>1, <2>3
    <3>2. QED
      BY <2>2, <2>3, <3>1 DEF SyncK
  <2>4. CASE h.pc = "jsync"
    <3>1. h.commit = TRUE /\ h.spill = 0 /\ 0 # 1
      BY <2>1, <2>4
    <3>2. QED
      BY <2>2, <2>4, <3>1 DEF SyncK
  <2>5. QED
    BY <2>1, <2>3, <2>4
<1>5. /\ lock[c] >= RESERVED_LOCK /\ k.pc = pager[c].pc /\ k.jfd \in Inodes /\ k.jfd # 0
      /\ dirent.cur # 0 => dirent.cur = k.jfd
      /\ pager[c].jfd # 0 => dirent.cur = pager[c].jfd
      /\ k.eState = "cachemod" =>
           /\ Quiet(db, i) /\ ~IsMagic(cells[1].cur)
           /\ (\E x \in cells[1].may : IsMagic(x)) =>
                EmptyDb(db) /\ dirent.cur = k.jfd /\ dirent.may = {k.jfd}
      /\ k.eState = "dbmod" =>
           lock[c] = EXCLUSIVE_LOCK /\ dirent.cur = k.jfd /\ dirent.may = {k.jfd}
  BY DEF Changing
<1>6. IF dirent.cur = 0 THEN dirent' = [cur |-> k.jfd, may |-> dirent.may \cup {k.jfd}]
      ELSE dirent.cur = k.jfd /\ dirent' = dirent
  BY <1>5 DEF Store
<1>7. Set(c, h) /\ journal' = [journal EXCEPT ![k.jfd] = cells]
  BY DEF Store
<1> HIDE DEF k, cells
<1>8. /\ h.jfd = k.jfd /\ h.eState = k.eState /\ h.hot = k.hot /\ WriteK(h, i, db, cells, mode)
  BY DEF k, cells
<1>9. h.pc = "idle" \/ (h.pc = "jsync" /\ lock[c] = EXCLUSIVE_LOCK)
  OBVIOUS
<1>10. pager[c].pc = "idle" \/ pager[c].pc = "phase1"
  BY <1>2, <1>5
<1>11. h.eState = "cachemod" \/ h.eState = "dbmod"
  BY <1>2, <1>8
<1>12. h.eState = "cachemod" =>
           /\ Quiet(db, i) /\ ~IsMagic(cells[1].cur)
           /\ (\E x \in cells[1].may : IsMagic(x)) =>
                EmptyDb(db) /\ dirent.cur = k.jfd /\ dirent.may = {k.jfd}
  BY <1>5, <1>8
<1>13. h.eState = "dbmod" => lock[c] = EXCLUSIVE_LOCK /\ dirent.cur = k.jfd /\ dirent.may = {k.jfd}
  BY <1>5, <1>8
<1>14. IInv /\ PInv(i) /\ c \in Conns /\ UNCHANGED <<lock, reserver, mode, db>> /\ h.hot = FALSE
  BY <1>2, <1>8
<1>15. lock[c] >= RESERVED_LOCK /\ k.jfd \in Inodes /\ k.jfd # 0
  BY <1>5
<1>16. QED
  BY ONLY <1>3, <1>4, <1>6, <1>7, <1>8, <1>9, <1>10, <1>11, <1>12, <1>13, <1>14, <1>15, StoreKept

\* A page is changed or appended.
LEMMA WriteKept ==
  ASSUME IInv, NEW b \in Nat, TInv(b), NEW i, PInv(i), NEW c \in Conns, NEW p \in Pages,
         NEW x \in Values \cup {FirstPage(1)}, Write(c, p, x)
  PROVE  PInv(i)'
<1> DEFINE q == Journalled(Writable(Loaded(pager[c], p)), p)
           n == Max({pager[c].nPage, p})
           h == [q.pager EXCEPT !.cache[p] = x, !.nPage = n]
           w == [q EXCEPT !.pager = [@ EXCEPT !.cache[p] = x, !.nPage = n]]
<1>1. /\ pager[c].eState \in {"locked", "cachemod", "dbmod"} /\ pager[c].pc = "idle"
      /\ pager[c].eState = "locked" /\ pager[c].jfd = 0 /\ dirent.cur = 0 => FreeInodes # {}
      /\ pager[c].off + 2 <= MaxSlot /\ p <= pager[c].nPage + 1
      /\ Store(c, w) /\ UNCHANGED <<lock, reserver, mode, db>>
      /\ (p = 1 => x = [ver |-> 0, nPage |-> 1]) /\ (p # 1 => x \in Values /\ pager[c].nPage > 0)
  BY DEF Write, InWrite, counts, Pages
<1>2. DataType(pager[c], b) /\ p \in 1..MaxPage /\ MaxPage \in Nat
  BY Bounds DEF TInv, Pages
<1>3. pager[c].nPage \in 0..MaxPage /\ pager[c].off \in 0..MaxSlot
  BY <1>2 DEF DataType
<1>4. Changing(q, i, c, p)
  <2>1. pager[c].off < MaxSlot
    BY <1>1, <1>3, Bounds
  <2>2. pager[c].eState = "locked" \/ pager[c].eState = "cachemod" \/ pager[c].eState = "dbmod"
    BY <1>1
  <2>3. QED
    BY <1>1, <2>1, <2>2, ChangeReady
<1>5. n = IF pager[c].nPage <= p THEN p ELSE pager[c].nPage
  <2>1. MaxPage \in Nat /\ pager[c].nPage \in 0..MaxPage /\ p \in 0..MaxPage
    BY <1>2, <1>3
  <2>2. QED
    BY <2>1, MaxOfTwo
<1>6. x \in PageContents /\ x # NoPage
  <2>1. CASE p = 1
    <3>1. x = [ver |-> 0, nPage |-> 1] /\ 1 \in Pages
      BY <1>1, <2>1
    <3>2. x \in HeaderPages
      BY <3>1 DEF HeaderPages
    <3>3. QED
      BY <3>2, Contents DEF FirstPages, HeaderPages, PageContents
  <2>2. CASE p # 1
    BY <1>1, <2>2, Contents DEF PageContents
  <2>3. QED
    BY <2>1, <2>2
<1> HIDE DEF q, n
<1> DEFINE k == q.pager
<1>7. /\ ReadyLog(k, i, q.cells) /\ ReadyPages(k, i, q.cells) /\ IsPager(k)
      /\ p \in k.dirty /\ p <= k.dbSize /\ (p <= k.orig => p \in k.inJournal)
      /\ k.nPage = pager[c].nPage /\ IsImage(i)
  BY <1>4 DEF Changing, Ready, ReadyLog
<1>8. /\ w.pager = h /\ w.cells = q.cells
  BY <1>4 DEF Changing
<1>9. /\ h.eState = k.eState /\ h.jfd = k.jfd /\ h.orig = k.orig /\ h.hdr = k.hdr
      /\ h.header = k.header /\ h.nRec = k.nRec /\ h.off = k.off /\ h.nonce = k.nonce
      /\ h.hot = k.hot /\ h.spill = k.spill /\ h.pc = k.pc /\ h.commit = k.commit
      /\ h.dbSize = k.dbSize /\ h.dirty = k.dirty /\ h.inJournal = k.inJournal /\ h.vers = k.vers
      /\ h.nPage = n /\ h.cache = [k.cache EXCEPT ![p] = x]
  BY <1>7 DEF IsPager, Fields
<1> HIDE DEF h, w
<1>10. /\ k.commit = FALSE /\ k.dbSize \in 0..MaxPage /\ k.nPage <= k.dbSize
       /\ Len(i) <= k.nPage /\ (Len(i) # 0 => k.vers = i[1]) /\ (k.nPage # 0 => k.cache[1] # NoPage)
       /\ k.cache \in [Pages -> OnDisk] /\ k.dirty \subseteq Pages /\ (\A r \in k.dirty : r <= k.dbSize)
  BY <1>7 DEF ReadyPages
<1>11. /\ k.header = TRUE /\ k.off = k.hdr + k.nRec /\ k.nonce = q.cells[k.hdr].cur.nonce
       /\ k.hdr \in Slots /\ k.nRec \in Nat /\ Len(i) <= k.orig
  BY <1>7 DEF ReadyLog, LogK
<1> HIDE DEF k
<1>12. /\ n \in 1..MaxPage /\ n <= k.dbSize /\ Len(i) <= n /\ Len(i) \in 0..MaxPage /\ k.nPage <= n
       /\ \A r \in 1..n : r = p \/ r \in 1..k.nPage
  <2>1. Len(i) \in 0..MaxPage
    BY <1>7, ImageIs
  <2>2. QED
    BY <1>1, <1>2, <1>3, <1>5, <1>7, <1>10, <2>1
<1>13. /\ h.off = End(h) /\ h.off >= 1
  <2>1. k.hdr \in Nat \ {0}
    BY <1>11, Bounds DEF Slots
  <2>2. QED
    BY <1>9, <1>11, <2>1 DEF End
<1>14. /\ h.cache[p] = x /\ \A r \in Pages : r # p => h.cache[r] = k.cache[r]
  BY <1>2, <1>9, <1>10 DEF Pages
<1>15. \A r \in 1..Len(i) : r \notin k.inJournal => r # p
  <2>1. Len(i) <= k.orig /\ (p <= k.orig => p \in k.inJournal)
    BY <1>7, <1>11 DEF k
  <2>2. p \in 1..Len(i) => p <= k.orig
    <3>1. k.orig \in Nat
      BY <1>2, <1>4 DEF Changing, k
    <3>2. QED
      BY <1>2, <1>12, <2>1, <3>1
  <2>3. QED
    BY <2>1, <2>2
<1>16. \A r \in 1..Len(i) : r \notin h.inJournal =>
         db[r] = Stable(i[r]) /\ (h.cache[r] # NoPage => h.cache[r] = i[r])
  <2> SUFFICES ASSUME NEW r \in 1..Len(i), r \notin h.inJournal
               PROVE  db[r] = Stable(i[r]) /\ (h.cache[r] # NoPage => h.cache[r] = i[r])
    OBVIOUS
  <2>1. r \notin k.inJournal /\ r # p /\ r \in Pages
    BY <1>7, <1>9, <1>15, ImageIs
  <2>2. db[r] = Stable(i[r]) /\ (k.cache[r] # NoPage => k.cache[r] = i[r])
    BY <1>7, <2>1 DEF ReadyPages, k
  <2>3. QED
    BY <1>14, <2>1, <2>2
<1>17. \A r \in h.inJournal : Recs(q.cells, r, 2, h.off)
  BY <1>7, <1>9 DEF ReadyPages, k
<1>18. \A r \in 1..h.nPage :
         /\ h.cache[r] # NoPage => h.cache[r] \in PageContents
         /\ r \notin h.dirty => db[r].cur \in PageContents /\ h.cache[r] \in {NoPage, db[r].cur}
  <2> SUFFICES ASSUME NEW r \in 1..n
               PROVE  /\ h.cache[r] # NoPage => h.cache[r] \in PageContents
                      /\ r \notin h.dirty => db[r].cur \in PageContents /\ h.cache[r] \in {NoPage, db[r].cur}
    BY <1>9
  <2>1. CASE r = p
    BY <1>6, <1>7, <1>9, <1>14, <2>1 DEF k
  <2>2. CASE r # p
    <3>1. r \in 1..k.nPage /\ r \in Pages
      <4>1. r \in 1..k.nPage
        BY <1>12, <2>2
      <4>2. n <= MaxPage /\ n \in Nat
        BY <1>2, <1>12
      <4>3. QED
        BY <1>2, <4>1, <4>2 DEF Pages
    <3>2. /\ k.cache[r] # NoPage => k.cache[r] \in PageContents
          /\ r \notin k.dirty => db[r].cur \in PageContents /\ k.cache[r] \in {NoPage, db[r].cur}
      BY <1>7, <3>1 DEF ReadyPages, k
    <3>3. QED
      BY <1>9, <1>14, <2>2, <3>1, <3>2
  <2>3. QED
    BY <2>1, <2>2
<1>19. h.cache[1] # NoPage
  <2>1. CASE p = 1
    BY <1>6, <1>14, <2>1
  <2>2. CASE p # 1
    <3>1. k.nPage # 0
      BY <1>1, <1>3, <1>7, <2>2 DEF k
    <3>2. 1 \in Pages
      BY Bounds DEF Pages
    <3>3. QED
      BY <1>10, <1>14, <2>2, <3>1, <3>2
  <2>3. QED
    BY <2>1, <2>2
<1>20. WriteK(h, i, db, q.cells, mode)
  <2>1. /\ h.nonce = q.cells[h.hdr].cur.nonce /\ 0 < h.nPage /\ h.nPage <= h.dbSize /\ Len(i) <= h.nPage
    BY <1>9, <1>11, <1>12
  <2>2. h.commit = FALSE /\ (\A r \in h.dirty : r <= h.dbSize) /\ (Len(i) # 0 => h.vers = i[1])
    BY <1>9, <1>10
  <2>3. QED
    BY <1>13, <1>16, <1>17, <1>18, <1>19, <2>1, <2>2 DEF WriteK
<1>21. /\ Store(c, w) /\ UNCHANGED <<lock, reserver, mode, db>>
  BY <1>1 DEF w, n, q
<1>22. /\ h.eState = q.pager.eState /\ h.jfd = q.pager.jfd /\ h.orig = q.pager.orig
       /\ h.hdr = q.pager.hdr /\ h.header = q.pager.header /\ h.nRec = q.pager.nRec
       /\ h.off = q.pager.off /\ h.nonce = q.pager.nonce /\ h.hot = q.pager.hot /\ h.spill = q.pager.spill
       /\ h.pc = "idle" /\ h.commit = FALSE
  <2>1. k.pc = "idle"
    BY <1>1, <1>4 DEF Changing, k
  <2>2. QED
    BY <1>9, <1>10, <2>1 DEF k
<1>23. IInv /\ PInv(i) /\ c \in Conns
  OBVIOUS
<1>24. QED
  BY ONLY <1>4, <1>8, <1>20, <1>21, <1>22, <1>23, ChangeKept

\* Phase one of a commit: page 1 is changed, and the last page may be given up.
LEMMA CommitKept ==
  ASSUME "delete" \notin ShrinkModes,
         IInv, NEW b \in Nat, TInv(b), NEW i, PInv(i), NEW c \in Conns, NEW n \in Pages, Commit(c, n)
  PROVE  PInv(i)'
<1> DEFINE q == Journalled(Writable(Loaded(pager[c], 1)), 1)
           x == [ver |-> pager[c].vers.ver + 1, nPage |-> n]
           h == [q.pager EXCEPT !.cache[1] = x, !.nPage = n, !.dbSize = n,
                                !.commit = TRUE, !.pc = "jsync"]
           w == [q EXCEPT !.pager =
                   [@ EXCEPT !.cache[1] = x, !.nPage = n, !.dbSize = n,
                             !.commit = TRUE, !.pc = "jsync"]]
<1>1. /\ pager[c].eState # "locked" /\ pager[c].pc = "phase1" /\ pager[c].off < MaxSlot
      /\ n \in {pager[c].nPage, pager[c].nPage - 1} /\ n > 0
      /\ n < pager[c].nPage => mode \in ShrinkModes
      /\ Store(c, w) /\ UNCHANGED <<lock, reserver, mode, db>>
  BY DEF Commit
<1>2. /\ DataType(pager[c], b) /\ 1 \in Pages /\ MaxPage \in Nat /\ n \in 1..MaxPage
      /\ PagerInv(pager[c], lock[c])
  BY Bounds DEF TInv, IInv, Pages
<1>3. /\ pager[c].nPage \in 0..MaxPage /\ pager[c].vers.ver \in Nat
      /\ pager[c].vers.ver + 1 \in Nat
  BY <1>2 DEF DataType
<1>4. /\ pager[c].eState = "cachemod" \/ pager[c].eState = "dbmod"
      /\ lock[c] = EXCLUSIVE_LOCK
  <2>1. StateInv(pager[c], lock[c]) /\ CommitInv(pager[c], lock[c])
    BY <1>2 DEF PagerInv
  <2>2. lock[c] = EXCLUSIVE_LOCK
    BY <1>1, <2>1 DEF CommitInv
  <2>3. pager[c].eState = "cachemod" \/ pager[c].eState = "dbmod"
    BY <1>1, <2>1 DEF StateInv, PlayPcs, ReadPcs
  <2>4. QED
    BY <2>2, <2>3
<1>5. Len(i) # 0 => pager[c].vers = i[1]
  <2>1. Active(pager[c])
    BY <1>1, <1>4 DEF Active, LoggingPcs
  <2>2. /\ WriteK(pager[c], i, db, journal[pager[c].jfd], mode)
        /\ SyncK(pager[c], i, db, journal[pager[c].jfd], dirent)
    BY <1>4, <2>1, ActiveHas
  <2>3. CommitInv(pager[c], lock[c]) /\ pager[c].commit \in BOOLEAN
    BY <1>2 DEF PagerInv, CommitInv
  <2>4. ~pager[c].commit
    BY <1>1, <2>2 DEF SyncK
  <2>5. QED
    BY <2>2, <2>4 DEF WriteK
<1>6. Changing(q, i, c, 1)
  <2>1. pager[c].pc = "idle" \/ pager[c].pc = "phase1"
    BY <1>1
  <2>2. QED
    BY <1>1, <1>2, <1>4, <2>1, ChangeReady
<1>7. x \in HeaderPages /\ x.nPage = n /\ x.ver = pager[c].vers.ver + 1
  BY <1>3 DEF HeaderPages
<1>8. x \in PageContents /\ x # NoPage
  BY <1>7, Contents DEF HeaderPages, FirstPages, PageContents
<1> HIDE DEF q, x
<1> DEFINE k == q.pager
<1>9. /\ ReadyLog(k, i, q.cells) /\ ReadyPages(k, i, q.cells) /\ IsPager(k)
      /\ 1 \in k.dirty /\ (1 <= k.orig => 1 \in k.inJournal) /\ k.orig \in 0..MaxPage
      /\ k.nPage = pager[c].nPage /\ IsImage(i)
  BY <1>6 DEF Changing, Ready, ReadyLog
<1>10. /\ w.pager = h /\ w.cells = q.cells
  BY <1>6 DEF Changing
<1>11. /\ h.eState = k.eState /\ h.jfd = k.jfd /\ h.orig = k.orig /\ h.hdr = k.hdr
       /\ h.header = k.header /\ h.nRec = k.nRec /\ h.off = k.off /\ h.nonce = k.nonce
       /\ h.hot = k.hot /\ h.spill = k.spill /\ h.pc = "jsync" /\ h.commit = TRUE
       /\ h.dbSize = n /\ h.dirty = k.dirty /\ h.inJournal = k.inJournal /\ h.vers = k.vers
       /\ h.nPage = n /\ h.cache = [k.cache EXCEPT ![1] = x]
  BY <1>9 DEF IsPager, Fields
<1> HIDE DEF h, w
<1>12. /\ Len(i) <= k.nPage /\ k.cache \in [Pages -> OnDisk] /\ k.nPage \in 0..MaxPage
  BY <1>9 DEF ReadyPages
<1>13. /\ k.header = TRUE /\ k.off = k.hdr + k.nRec /\ k.nonce = q.cells[k.hdr].cur.nonce
       /\ k.hdr \in Slots /\ k.nRec \in Nat /\ Len(i) <= k.orig
  BY <1>9 DEF ReadyLog, LogK
<1> HIDE DEF k
<1>14. /\ h.off = End(h) /\ h.off >= 1
  <2>1. k.hdr \in Nat \ {0}
    BY <1>13, Bounds DEF Slots
  <2>2. QED
    BY <1>11, <1>13, <2>1 DEF End
<1>15. /\ h.cache[1] = x /\ \A r \in Pages : r # 1 => h.cache[r] = k.cache[r]
  BY <1>2, <1>11, <1>12
<1>16. Len(i) \in 0..MaxPage /\ (1 <= Len(i) => 1 \in k.inJournal)
  <2>1. Len(i) \in 0..MaxPage
    BY <1>9, ImageIs
  <2>2. QED
    BY <1>9, <1>13, <2>1 DEF k
<1>17. \A r \in 1..Len(i) : r \notin h.inJournal =>
         db[r] = Stable(i[r]) /\ (h.cache[r] # NoPage => h.cache[r] = i[r])
  <2> SUFFICES ASSUME NEW r \in 1..Len(i), r \notin h.inJournal
               PROVE  db[r] = Stable(i[r]) /\ (h.cache[r] # NoPage => h.cache[r] = i[r])
    OBVIOUS
  <2>1. 1 <= Len(i)
    BY <1>16
  <2>2. r \notin k.inJournal /\ r # 1 /\ r \in Pages
    BY <1>9, <1>11, <1>16, <2>1, ImageIs
  <2>3. db[r] = Stable(i[r]) /\ (k.cache[r] # NoPage => k.cache[r] = i[r])
    BY <1>9, <2>2 DEF ReadyPages, k
  <2>4. QED
    BY <1>15, <2>2, <2>3
<1>18. \A r \in h.inJournal : Recs(q.cells, r, 2, h.off)
  BY <1>9, <1>11 DEF ReadyPages, k
<1>19. \A r \in 1..n : r \in 1..k.nPage /\ r \in Pages
  BY <1>1, <1>2, <1>3, <1>9 DEF k, Pages
<1>20. \A r \in 1..h.nPage :
         /\ h.cache[r] # NoPage => h.cache[r] \in PageContents
         /\ r \notin h.dirty => db[r].cur \in PageContents /\ h.cache[r] \in {NoPage, db[r].cur}
  <2> SUFFICES ASSUME NEW r \in 1..n
               PROVE  /\ h.cache[r] # NoPage => h.cache[r] \in PageContents
                      /\ r \notin h.dirty => db[r].cur \in PageContents /\ h.cache[r] \in {NoPage, db[r].cur}
    BY <1>11
  <2>1. CASE r = 1
    BY <1>8, <1>9, <1>11, <1>15, <2>1 DEF k
  <2>2. CASE r # 1
    <3>1. r \in 1..k.nPage /\ r \in Pages
      BY <1>19
    <3>2. /\ k.cache[r] # NoPage => k.cache[r] \in PageContents
          /\ r \notin k.dirty => db[r].cur \in PageContents /\ k.cache[r] \in {NoPage, db[r].cur}
      BY <1>9, <3>1 DEF ReadyPages, k
    <3>3. QED
      BY <1>11, <1>15, <2>2, <3>1, <3>2
  <2>3. QED
    BY <2>1, <2>2
<1>21. mode = "delete" => Len(i) <= h.nPage
  <2>1. mode = "delete" => ~(n < pager[c].nPage)
    BY <1>1
  <2>2. QED
    BY <1>1, <1>2, <1>3, <1>9, <1>11, <1>12, <1>16, <2>1 DEF k
<1>22. Len(i) # 0 => x.ver > i[1].ver
  BY <1>3, <1>5, <1>7
<1>23. WriteK(h, i, db, q.cells, mode)
  <2>1. /\ h.nonce = q.cells[h.hdr].cur.nonce /\ 0 < h.nPage /\ h.nPage <= h.dbSize
    BY <1>2, <1>11, <1>13
  <2>2. /\ h.commit = TRUE /\ h.cache[1] = x /\ x \in HeaderPages /\ x.nPage = n /\ h.nPage = n /\ h.dbSize = n
        /\ (Len(i) # 0 => x.ver > i[1].ver) /\ 1 \in h.dirty /\ x # NoPage
    BY <1>7, <1>8, <1>9, <1>11, <1>15, <1>22 DEF k
  <2>3. QED
    BY <1>14, <1>17, <1>18, <1>20, <1>21, <2>1, <2>2 DEF WriteK
<1>24. /\ Store(c, w) /\ UNCHANGED <<lock, reserver, mode, db>>
  BY <1>1 DEF w, q, x
<1>25. /\ h.eState = q.pager.eState /\ h.jfd = q.pager.jfd /\ h.orig = q.pager.orig
       /\ h.hdr = q.pager.hdr /\ h.header = q.pager.header /\ h.nRec = q.pager.nRec
       /\ h.off = q.pager.off /\ h.nonce = q.pager.nonce /\ h.hot = q.pager.hot /\ h.spill = q.pager.spill
       /\ h.pc = "jsync" /\ h.commit = TRUE /\ lock[c] = EXCLUSIVE_LOCK
  BY <1>4, <1>11 DEF k
<1>26. IInv /\ PInv(i) /\ c \in Conns
  OBVIOUS
<1>27. QED
  BY ONLY <1>6, <1>10, <1>23, <1>24, <1>25, <1>26, ChangeKept

-----------------------------------------------------------------------------
\* Playing a journal back

\* A chain of segments begins with one, and the rest is a chain.
LEMMA ChainTail ==
  ASSUME NEW j, Counts(j), NEW m \in Nat \ {0}, NEW n \in Nat, m < n, Chain(j, m, n)
  PROVE  /\ m \in Slots /\ IsMagic(j[m]) /\ j[m].nRec \in Nat /\ Segment(j, m)
         /\ m + j[m].nRec + 1 <= n /\ Chain(j, m + j[m].nRec + 1, n)
<1>1. PICK H \in SUBSET Slots : ChainOf(j, H, m, n)
  BY DEF Chain
<1>2. m \in H /\ H \subseteq m..n - 1 /\ n <= MaxSlot + 1 /\ MaxSlot \in Nat
  BY <1>1, Bounds DEF ChainOf
<1>3. m \in Slots /\ IsMagic(j[m]) /\ Segment(j, m) /\ m + j[m].nRec + 1 \in H \cup {n}
  BY <1>1, <1>2 DEF ChainOf
<1>4. j[m].nRec \in Nat
  BY <1>3 DEF Counts
<1> DEFINE k == m + j[m].nRec + 1
           G == {h \in H : h >= k}
<1>5. k \in Nat /\ k <= n
  BY <1>2, <1>3, <1>4
<1>6. G \in SUBSET Slots /\ G \subseteq k..n - 1 /\ k \in G \cup {n}
  <2>1. G \in SUBSET Slots
    BY <1>1
  <2>2. \A h \in H : h \in m..n - 1
    BY <1>2
  <2>3. \A h \in G : h \in Nat /\ h >= k /\ h <= n - 1
    BY <2>2
  <2>4. G \subseteq k..n - 1
    BY <1>5, <2>3
  <2>5. k \in H \cup {n} /\ k >= k
    BY <1>3, <1>5
  <2>6. k \in G \cup {n}
    BY <2>5
  <2>7. QED
    BY <2>1, <2>4, <2>6
<1>7. ASSUME NEW h \in G
      PROVE  IsMagic(j[h]) /\ Segment(j, h) /\ h + j[h].nRec + 1 \in G \cup {n}
  <2>1. h \in H /\ h \in Nat /\ h >= k /\ h \in Slots
    BY <1>1, <1>2
  <2>2. IsMagic(j[h]) /\ Segment(j, h) /\ h + j[h].nRec + 1 \in H \cup {n}
    BY <1>1, <2>1 DEF ChainOf
  <2>3. j[h].nRec \in Nat
    BY <2>1, <2>2 DEF Counts
  <2>4. h + j[h].nRec + 1 >= k
    BY <1>5, <2>1, <2>3
  <2>5. QED
    BY <2>2, <2>4
<1>8. ChainOf(j, G, k, n)
  BY <1>2, <1>6, <1>7 DEF ChainOf
<1>9. QED
  BY <1>3, <1>4, <1>5, <1>6, <1>8 DEF Chain

\* readJournalHdr() finds the header with which a chain begins.
Heads(cells, at, n) ==
  /\ at \in Slots /\ at <= SlotsUsed(cells) /\ IsMagic(cells[at].cur)
  /\ cells[at].cur.nRec \in Nat /\ at + cells[at].cur.nRec + 1 <= n
  /\ Chain(Cur(cells), at + cells[at].cur.nRec + 1, n)
  /\ \A s \in at + 1..at + cells[at].cur.nRec :
       cells[s].cur.kind = "record" /\ cells[s].cur.nonce = cells[at].cur.nonce

\* It is there where the chain says.
LEMMA HeaderFound ==
  ASSUME NEW b \in Nat, NEW cells, cells = [s \in Slots |-> cells[s]], JournalType(cells, b),
         NEW at \in Nat \ {0}, NEW n \in Nat, at < n, Chain(Cur(cells), at, n)
  PROVE  Heads(cells, at, n)
<1> DEFINE j == Cur(cells)
<1>1. j = [s \in Slots |-> j[s]] /\ \A s \in Slots : j[s] = cells[s].cur
  BY WithIs
<1>2. \A s \in Slots : j[s] \in Cells(b)
  BY <1>1 DEF JournalType, CellOf
<1> HIDE DEF j
<1>3. Counts(j)
  BY <1>2, CellsCount
<1>4. /\ at \in Slots /\ IsMagic(j[at]) /\ j[at].nRec \in Nat /\ Segment(j, at)
      /\ at + j[at].nRec + 1 <= n /\ Chain(j, at + j[at].nRec + 1, n)
  BY <1>3, ChainTail DEF j
<1>5. at <= SlotsUsed(cells)
  <2>1. cells[at].cur.kind # "none"
    BY <1>1, <1>4 DEF IsMagic
  <2>2. QED
    BY <1>4, <2>1, UsedIs
<1>6. \A s \in at + 1..at + j[at].nRec : s \in Slots
  <2>1. MaxSlot \in Nat /\ at + j[at].nRec <= MaxSlot
    BY <1>4, Bounds DEF Segment
  <2>2. QED
    BY <1>4, <2>1 DEF Slots
<1>7. \A s \in at + 1..at + j[at].nRec : j[s].kind = "record" /\ j[s].nonce = j[at].nonce
  BY <1>4 DEF Segment
<1>8. j[at] = cells[at].cur
  BY <1>1, <1>4
<1>9. \A s \in at + 1..at + j[at].nRec :
       cells[s].cur.kind = "record" /\ cells[s].cur.nonce = cells[at].cur.nonce
  BY <1>1, <1>6, <1>7, <1>8
<1>10. QED
  BY <1>4, <1>5, <1>8, <1>9 DEF Heads, j

\* The file is cut to the size it had, or grows to it.
LEMMA CutIs ==
  ASSUME DbType(db), NEW n \in 0..MaxPage
  PROVE  /\ \A p \in Pages : p <= n /\ db[p].cur # NoPage => TruncateDb(n)[p] = db[p]
         /\ \A p \in Pages : p > n => TruncateDb(n)[p].cur = NoPage
         /\ \A p \in Pages : p <= n => TruncateDb(n)[p].cur # NoPage
<1> DEFINE d == TruncateDb(n)
<1>1. DbSize \in 0..MaxPage /\ Present(db, DbSize) /\ (\A p \in Pages : p > DbSize => db[p].cur = NoPage)
      /\ MaxPage \in Nat /\ \A p \in Pages : p \in Nat
  BY SizeIs, Bounds DEF Pages
<1>2. CASE DbSize < n
  <2>1. d = WriteDb(n, Zero)
    BY <1>2 DEF TruncateDb
  <2>2. n \in Pages /\ db[n].cur = NoPage
    BY <1>1, <1>2 DEF Pages
  <2> HIDE DEF d
  <2>3. \A p \in Pages : d[p] = IF p = n THEN WrittenPage(db[p], Zero, Torn)
                                ELSE IF p < n /\ db[p].cur = NoPage THEN Written(db[p], Zero)
                                ELSE db[p]
    BY <2>1, WriteIs
  <2>4. \A p \in Pages : p <= n /\ db[p].cur # NoPage => d[p] = db[p]
    BY <2>2, <2>3
  <2>5. \A p \in Pages : p > n => d[p].cur = NoPage
    <3> TAKE p \in Pages
    <3>1. p > n => p > DbSize /\ p # n /\ ~(p < n)
      BY <1>1, <1>2
    <3>2. QED
      BY <1>1, <2>3, <3>1
  <2>6. \A p \in Pages : p <= n => d[p].cur # NoPage
    <3> TAKE p \in Pages
    <3>1. Written(db[p], Zero).cur = Zero /\ WrittenPage(db[p], Zero, Torn).cur = Zero /\ Zero # NoPage
      BY Contents DEF Written, WrittenPage
    <3>2. p <= n => p = n \/ p < n
      BY <1>1
    <3>3. QED
      BY <2>3, <3>1, <3>2
  <2>7. QED
    BY <2>4, <2>5, <2>6 DEF d
<1>3. CASE ~(DbSize < n)
  <2>1. d = [q \in Pages |-> IF q > n THEN Written(db[q], NoPage) ELSE db[q]]
    BY <1>3 DEF TruncateDb
  <2>2. \A p \in Pages : d[p] = IF p > n THEN Written(db[p], NoPage) ELSE db[p]
    BY <2>1
  <2> HIDE DEF d
  <2>3. \A p \in Pages : p <= n => d[p] = db[p]
    BY <1>1, <2>2
  <2>4. \A p \in Pages : p > n => d[p].cur = NoPage
    <3> TAKE p \in Pages
    <3>1. Written(db[p], NoPage).cur = NoPage
      BY DEF Written
    <3>2. QED
      BY <2>2, <3>1
  <2>5. \A p \in Pages : p <= n => db[p].cur # NoPage
    BY <1>1, <1>3 DEF Present
  <2>6. QED
    BY <2>3, <2>4, <2>5 DEF d
<1>4. QED
  BY <1>2, <1>3

\* What the journal covered it covers after that too.
LEMMA CoveredCut ==
  ASSUME DbType(db), NEW i, IsImage(i), NEW cells, NEW x, NEW n, Covered(cells, x, i, db, n),
         x.orig \in 0..MaxPage
  PROVE  /\ Covered(cells, x, i, TruncateDb(x.orig), n)
         /\ Len(i) = 0 => \A p \in Pages : TruncateDb(x.orig)[p].cur = NoPage
         /\ \A p \in 1..Len(i) : db[p].cur = i[p] => TruncateDb(x.orig)[p].cur = i[p]
         /\ TruncateDb(x.orig)[1].cur = NoPage => x.orig = 0
<1> DEFINE d == TruncateDb(x.orig)
<1>1. /\ \A p \in Pages : p <= x.orig /\ db[p].cur # NoPage => d[p] = db[p]
      /\ \A p \in Pages : p > x.orig => d[p].cur = NoPage
      /\ \A p \in Pages : p <= x.orig => d[p].cur # NoPage
  BY CutIs
<1>2. Len(i) <= x.orig /\ (Len(i) = 0 <=> x.orig = 0) /\ Len(i) \in 0..MaxPage /\ 1 \in Pages
  BY ImageIs, Bounds DEF Covered, Pages
<1> HIDE DEF d
<1>3. \A p \in 1..Len(i) : p \in Pages /\ p <= x.orig /\ i[p] # NoPage
  BY <1>2, ImageIs, Contents
<1>4. ASSUME NEW p \in 1..Len(i)
      PROVE  d[p] = Stable(i[p]) \/ Recs(cells, p, 2, n - 1)
  <2>1. db[p] = Stable(i[p]) \/ Recs(cells, p, 2, n - 1)
    BY DEF Covered
  <2>2. CASE db[p] = Stable(i[p])
    <3>1. db[p].cur = i[p]
      BY <2>2 DEF Stable
    <3>2. d[p] = db[p]
      BY <1>1, <1>3, <3>1
    <3>3. QED
      BY <2>2, <3>2
  <2>3. QED
    BY <2>1, <2>2
<1>5. ASSUME Len(i) # 0
      PROVE  NoPage \notin d[1].may
  <2>1. NoPage \notin db[1].may
    BY <1>5 DEF Covered
  <2>2. db[1].cur \in db[1].may
    <3>1. CellOf(db[1], FirstPages)
      BY FirstCell
    <3>2. QED
      BY <3>1 DEF CellOf
  <2>3. d[1] = db[1]
    BY <1>1, <1>2, <1>5, <2>1, <2>2
  <2>4. QED
    BY <2>1, <2>3
<1>6. Covered(cells, x, i, d, n)
  BY <1>4, <1>5 DEF Covered
<1>7. Len(i) = 0 => \A p \in Pages : d[p].cur = NoPage
  BY <1>1, <1>2 DEF Pages
<1>8. \A p \in 1..Len(i) : db[p].cur = i[p] => d[p].cur = i[p]
  BY <1>1, <1>3
<1>9. d[1].cur = NoPage => x.orig = 0
  BY <1>1, <1>2
<1>10. QED
  BY <1>6, <1>7, <1>8, <1>9 DEF d

\* A slot without a record of the page is passed over.
LEMMA RecsPast ==
  ASSUME NEW cells, NEW p, NEW m \in Nat, NEW n \in Int,
         cells[m].cur.kind # "record" \/ cells[m].cur.pgno # p
  PROVE  Recs(cells, p, m, n) => Recs(cells, p, m + 1, n)
<1> SUFFICES ASSUME Recs(cells, p, m, n)
             PROVE  Recs(cells, p, m + 1, n)
  OBVIOUS
<1>1. PICK s \in m..n : cells[s].cur.kind = "record" /\ cells[s].cur.pgno = p
  BY DEF Recs
<1>2. s # m
  BY <1>1
<1>3. s \in m + 1..n
  BY <1>2
<1>4. QED
  BY <1>1, <1>3 DEF Recs

\* A page is restored in the file.
LEMMA PagesRestored ==
  ASSUME DbType(db), NEW i, IsImage(i), NEW cells, NEW m \in Nat, NEW n \in Int,
         NEW p \in Pages, cells[m].cur.kind = "record", cells[m].cur.pgno = p,
         NEW y, y # NoPage, p <= Len(i) => y = i[p],
         \A q \in 1..Len(i) : db[q].cur = i[q] \/ Recs(cells, q, m, n)
  PROVE  \A q \in 1..Len(i) : WriteDb(p, y)[q].cur = i[q] \/ Recs(cells, q, m + 1, n)
<1> DEFINE d == WriteDb(p, y)
<1>1. \A q \in Pages : d[q] = IF q = p THEN WrittenPage(db[q], y, Torn)
                              ELSE IF q < p /\ db[q].cur = NoPage THEN Written(db[q], Zero)
                              ELSE db[q]
  BY WriteIs
<1> HIDE DEF d
<1>2. ASSUME NEW q \in 1..Len(i)
      PROVE  d[q].cur = i[q] \/ Recs(cells, q, m + 1, n)
  <2>1. q \in Pages /\ i[q] # NoPage /\ q <= Len(i)
    BY ImageIs, Contents
  <2>2. CASE q = p
    <3>0. WrittenPage(db[q], y, Torn).cur = y
      BY DEF WrittenPage
    <3>1. d[q].cur = y
      BY <1>1, <2>1, <2>2, <3>0
    <3>2. QED
      BY <2>1, <2>2, <3>1
  <2>3. CASE q # p
    <3>1. Recs(cells, q, m, n) => Recs(cells, q, m + 1, n)
      BY <2>3, RecsPast
    <3>2. db[q].cur = i[q] => d[q].cur = i[q]
      BY <1>1, <2>1, <2>3
    <3>3. QED
      BY <3>1, <3>2
  <2>4. QED
    BY <2>2, <2>3
<1>3. QED
  BY <1>2 DEF d

\* What a playback has at hand, of its own transaction or of a hot journal.
Playback(g, l, i, b, cells) ==
  /\ IsPager(g) /\ PagerInv(g, l) /\ DataType(g, b) /\ HeaderType(g, cells, b) /\ DbType(db)
  /\ g.jfd # 0 /\ g.jfd \in Inodes /\ dirent.cur = g.jfd
  /\ IsImage(i) /\ cells = [s \in Slots |-> cells[s]] /\ JournalType(cells, b)
  /\ \A s \in Slots : cells[s].cur \in cells[s].may /\ cells[s].cur \in Cells(b)
  /\ FilesK(i, db, journal, dirent, mode)
  /\ g.commit = FALSE /\ (g.pc = "play" \/ g.pc = "record")
  /\ g.eState # "cachemod" => l = EXCLUSIVE_LOCK
  /\ db[1].cur = NoPage => EmptyDb(db) \/ Cutting(g, l)
OwnPlay(g, l, i, b, cells) ==
  /\ Playback(g, l, i, b, cells) /\ g.hot = FALSE
  /\ g.eState = "cachemod" \/ g.eState = "dbmod"
  /\ LogK(g, i, db, cells) /\ PlayK(g, i, db, cells)
  /\ TrustK(g, l, i, db, journal, dirent)
HotPlay(g, l, i, b, cells) ==
  /\ Playback(g, l, i, b, cells) /\ g.hot = TRUE /\ g.eState = "open"
  /\ CacheK(g, i) /\ HotK(g, i, db, cells)

\* It has it.
LEMMA PlaybackHas ==
  ASSUME IInv, NEW b \in Nat, TInv(b), NEW i, PInv(i), NEW c \in Conns,
         pager[c].pc = "play" \/ pager[c].pc = "record"
  PROVE  /\ pager[c].hot = FALSE => OwnPlay(pager[c], lock[c], i, b, journal[pager[c].jfd])
         /\ pager[c].hot # FALSE => HotPlay(pager[c], lock[c], i, b, journal[pager[c].jfd])
<1> DEFINE g == pager[c]
           l == lock[c]
           cells == journal[g.jfd]
<1>1. /\ IsPager(g) /\ DataType(g, b) /\ HeaderType(g, cells, b) /\ DbType(db)
      /\ g.eState = "open" \/ g.eState = "cachemod" \/ g.eState = "dbmod"
      /\ g.eState = "open" <=> g.hot
      /\ g.hot = TRUE \/ g.hot = FALSE
      /\ DbInPlay(g) => l = EXCLUSIVE_LOCK
      /\ g.jfd \in Inodes /\ JournalType(cells, b)
      /\ cells = [s \in Slots |-> cells[s]]
  BY PlayingHas DEF IsPager
<1>2. PagerInv(g, l) /\ PInv(i) /\ IsImage(i) /\ FilesK(i, db, journal, dirent, mode)
      /\ ConnK(g, l, i, db, journal, dirent, mode)
  BY DEF PInv, IInv
<1>3. db[1].cur = NoPage => EmptyDb(db) \/ \E d \in Conns : Cutting(pager[d], lock[d])
  BY DEF PInv
<1>4. l = EXCLUSIVE_LOCK => \A d \in Others(c) : lock[d] = NO_LOCK
  BY DEF IInv, Exclusion
<1>5. g.pc = "play" \/ g.pc = "record"
  OBVIOUS
<1>6. g.jfd # 0
  BY <1>1 DEF Inodes
<1>7. \A s \in Slots : cells[s].cur \in cells[s].may /\ cells[s].cur \in Cells(b)
  BY <1>1 DEF JournalType, CellOf
<1>8. l = EXCLUSIVE_LOCK => (db[1].cur = NoPage => EmptyDb(db) \/ Cutting(g, l))
  <2> SUFFICES ASSUME l = EXCLUSIVE_LOCK, NEW d \in Conns, Cutting(pager[d], lock[d])
               PROVE  Cutting(g, l)
    BY <1>3
  <2>1. lock[d] = EXCLUSIVE_LOCK
    BY DEF Cutting
  <2>2. d = c
    BY <1>4, <2>1 DEF Others
  <2>3. QED
    BY <2>2
<1> HIDE DEF g, l, cells
<1>9. g.eState # "cachemod" => l = EXCLUSIVE_LOCK
  BY <1>1 DEF DbInPlay
<1>10. g.eState = "cachemod" => Quiet(db, i)
  BY <1>2 DEF ConnK, TrustK, Trusts
<1>11. db[1].cur = NoPage => EmptyDb(db) \/ Cutting(g, l)
  BY <1>1, <1>2, <1>8, <1>9, <1>10, QuietFirst
<1>12. g.commit = FALSE
  <2>1. g.commit \in BOOLEAN /\ (g.commit => g.eState # "open")
    BY <1>2 DEF PagerInv, CommitInv
  <2>2. g.eState # "open" => ~g.commit
    BY <1>1, <1>5 DEF HeaderType, InUndo
  <2>3. QED
    BY <2>1, <2>2
<1>13. dirent.cur = g.jfd
  BY <1>1, <1>2, <1>5 DEF ConnK, JfdK
<1>14. Playback(g, l, i, b, cells)
  BY <1>1, <1>2, <1>5, <1>6, <1>7, <1>9, <1>11, <1>12, <1>13 DEF Playback
<1>15. g.hot = FALSE => OwnPlay(g, l, i, b, cells)
  <2> SUFFICES ASSUME g.hot = FALSE
               PROVE  OwnPlay(g, l, i, b, cells)
    OBVIOUS
  <2>1. g.eState = "cachemod" \/ g.eState = "dbmod"
    BY <1>1
  <2>2. Playing(g)
    BY <1>5, <2>1 DEF Playing
  <2>3. LogK(g, i, db, cells) /\ PlayK(g, i, db, cells) /\ TrustK(g, l, i, db, journal, dirent)
    BY <1>2, <2>2 DEF ConnK, OwnK, cells
  <2>4. QED
    BY <1>14, <2>1, <2>3 DEF OwnPlay
<1>16. g.hot # FALSE => HotPlay(g, l, i, b, cells)
  <2>1. CacheK(g, i) /\ HotK(g, i, db, cells)
    BY <1>2 DEF ConnK, cells
  <2>2. QED
    BY <1>1, <1>14, <2>1 DEF HotPlay
<1>17. QED
  BY <1>15, <1>16 DEF g, l, cells

\* The playback of its own journal goes on.
LEMMA OwnGoes ==
  ASSUME IInv, NEW b \in Nat, NEW i, PInv(i), NEW c \in Conns,
         OwnPlay(pager[c], lock[c], i, b, journal[pager[c].jfd]),
         NEW h, Set(c, h), UNCHANGED lockVars, UNCHANGED <<mode, journal, dirent>>,
         h.pc = "play" \/ h.pc = "record", h.hot = FALSE, h.jfd = pager[c].jfd, h.commit = FALSE,
         SameJournal(pager[c], h),
         pager[c].eState = "cachemod" => db' = db,
         pager[c].eState = "dbmod" =>
           /\ Covered(journal[pager[c].jfd], journal[pager[c].jfd][1].cur, i, db', pager[c].hdr)
           /\ db'[1].cur = NoPage => EmptyDb(db') \/ Cutting(h, lock[c]),
         PlayK(h, i, db', journal[pager[c].jfd])
  PROVE  PInv(i)'
<1> DEFINE g == pager[c]
           l == lock[c]
           cells == journal[g.jfd]
<1>1. /\ g.jfd # 0 /\ dirent.cur = g.jfd /\ IsImage(i) /\ g.hot = FALSE
      /\ FilesK(i, db, journal, dirent, mode)
      /\ g.eState = "cachemod" \/ g.eState = "dbmod"
      /\ g.eState = "dbmod" => l = EXCLUSIVE_LOCK
      /\ LogK(g, i, db, cells) /\ TrustK(g, l, i, db, journal, dirent)
  BY DEF OwnPlay, Playback
<1>2. journal' = journal /\ dirent' = dirent /\ mode' = mode /\ lock'[c] = l
      /\ [LockNext]_lockVars /\ (\A d \in Others(c) : lock'[d] = lock[d])
      /\ PlayK(h, i, db', cells) /\ SameJournal(g, h) /\ h.jfd = g.jfd
  BY SameLocks DEF Others
<1>3. /\ g.eState = "cachemod" => db' = db
      /\ g.eState = "dbmod" => /\ Covered(cells, cells[1].cur, i, db', g.hdr)
                               /\ db'[1].cur = NoPage => EmptyDb(db') \/ Cutting(h, l)
  OBVIOUS
<1>4. g.eState = "dbmod" => IsStable(cells[1]) /\ IsMagic(cells[1].cur)
  BY <1>1 DEF LogK
<1>5. g.pc # "finsync" /\ Set(c, h) /\ UNCHANGED lockVars /\ UNCHANGED <<mode, journal, dirent>>
  BY DEF OwnPlay, Playback
<1>6. LogK(h, i, db', cells)
  <2>1. LogK(h, i, db, cells)
    BY <1>1, <1>2, LogSame
  <2>2. h.eState = g.eState /\ h.hdr = g.hdr
    BY <1>2 DEF SameJournal
  <2> HIDE DEF g, l, cells
  <2>3. QED
    BY <1>1, <1>3, <2>1, <2>2 DEF LogK
<1>7. OwnK(h, i, db', cells, dirent, mode)
  <2>1. ~Active(h) /\ ~Undoes(h)
    <3>1. h.eState = "cachemod" \/ h.eState = "dbmod"
      BY <1>1, <1>2 DEF SameJournal
    <3>2. QED
      BY <3>1 DEF Active, Undoes, LoggingPcs
  <2> HIDE DEF g, l, cells
  <2>2. QED
    BY <1>2, <1>6, <2>1 DEF OwnK
<1>8. TrustK(h, l, i, db', journal, dirent)
  <2>1. h.eState = g.eState
    BY <1>2 DEF SameJournal
  <2> HIDE DEF g, l, cells
  <2>2. CASE g.eState = "cachemod"
    <3>1. Quiet(db, i) /\ (RESERVED_LOCK <= l /\ l < EXCLUSIVE_LOCK => Cold(db, journal, dirent))
      BY <1>1, <2>2 DEF TrustK, Trusts, Cools
    <3>2. Cools(h, l) => RESERVED_LOCK <= l /\ l < EXCLUSIVE_LOCK
      BY <2>1, <2>2 DEF Cools
    <3>3. db' = db
      BY <1>3, <2>2
    <3>4. QED
      BY <3>1, <3>2, <3>3 DEF TrustK
  <2>3. CASE g.eState = "dbmod"
    <3>1. ~Trusts(h, l) /\ ~Cools(h, l)
      BY <2>1, <2>3 DEF Trusts, Cools
    <3>2. QED
      BY <3>1 DEF TrustK
  <2>4. QED
    BY <1>1, <2>2, <2>3
<1>9. ConnK(h, l, i, db', journal', dirent', mode)
  <2>1. WriterK(h, l, i, db', journal, dirent, mode)
    BY <1>1, <1>2, <1>7, <1>8 DEF WriterK
  <2>2. h.eState = "cachemod" \/ h.eState = "dbmod"
    BY <1>1, <1>2 DEF SameJournal
  <2>3. ConnK(h, l, i, db', journal, dirent, mode)
    BY <2>1, <2>2, WriterIs
  <2>4. QED
    BY <1>2, <2>3
<1>10. CASE g.eState = "cachemod"
  <2>1. db' = db /\ Quiet(db, i)
    BY <1>1, <1>3, <1>10 DEF TrustK, Trusts
  <2>2. EmptyDb(db) \/ db[1].cur # NoPage
    BY <1>1, <2>1, QuietFirst
  <2>3. ConnK(h, lock'[c], i, db, journal, dirent, mode)
    BY <1>2, <1>9, <2>1
  <2>4. UNCHANGED <<mode, db, journal, dirent>>
    BY <1>2, <2>1
  <2>5. QED
    BY <1>2, <1>5, <2>2, <2>3, <2>4, PagerPromises
<1>11. CASE g.eState = "dbmod"
  <2>1. dirent.may = {g.jfd}
    <3>1. IsStable(journal[dirent.cur][1]) /\ IsMagic(journal[dirent.cur][1].cur) /\ dirent.cur # 0
      BY <1>1, <1>4, <1>11
    <3>2. dirent.may = {dirent.cur}
      BY <1>1, <3>1, NameIsSure
    <3>3. QED
      BY <1>1, <3>2
  <2> DEFINE e == g.jfd
  <2>2. dirent'.cur = e /\ dirent'.may = {e} /\ e # 0
    BY <1>1, <1>2, <2>1
  <2>3. IsStable(journal'[e][1]) /\ IsMagic(journal'[e][1].cur)
        /\ Covered(journal'[e], journal'[e][1].cur, i, db', g.hdr)
        /\ (db'[1].cur = NoPage => EmptyDb(db') \/ Cutting(h, lock[c]))
    BY <1>2, <1>3, <1>4, <1>11
  <2>4. lock[c] = EXCLUSIVE_LOCK /\ UNCHANGED lockVars /\ mode' = mode /\ Set(c, h)
    BY <1>1, <1>5, <1>11
  <2>5. ConnK(h, lock[c], i, db', journal', dirent', mode)
    BY <1>9
  <2> HIDE DEF e, g, l, cells
  <2>6. QED
    BY <2>2, <2>3, <2>4, <2>5, WriterPromises
<1>12. QED
  BY <1>1, <1>10, <1>11

\* The playback of its own journal is done: the pages are what they were.
LEMMA OwnEnds ==
  ASSUME IInv, NEW b \in Nat, NEW i, PInv(i), NEW c \in Conns,
         OwnPlay(pager[c], lock[c], i, b, journal[pager[c].jfd]),
         Goto(c, "playend"), UNCHANGED lockVars, UNCHANGED <<mode, db, journal, dirent>>,
         UndoK(pager[c], i, db)
  PROVE  PInv(i)'
<1> DEFINE g == pager[c]
           l == lock[c]
           h == [g EXCEPT !.pc = "playend"]
<1>1. /\ IsPager(g) /\ g.jfd # 0 /\ dirent.cur = g.jfd /\ IsImage(i) /\ g.hot = FALSE /\ g.commit = FALSE
      /\ g.eState = "cachemod" \/ g.eState = "dbmod"
      /\ TrustK(g, l, i, db, journal, dirent)
      /\ db[1].cur = NoPage => EmptyDb(db) \/ Cutting(g, l)
  BY DEF OwnPlay, Playback, PagerInv
<1>2. Set(c, h) /\ lock'[c] = l /\ [LockNext]_lockVars /\ (\A d \in Others(c) : lock'[d] = lock[d])
      /\ UNCHANGED <<mode, db, journal, dirent>>
  BY SameLocks DEF Others, Goto
<1>3. /\ h.pc = "playend" /\ h.eState = g.eState /\ h.hot = FALSE /\ h.commit = FALSE
      /\ h.cache = g.cache /\ h.vers = g.vers /\ h.dbSize = g.dbSize /\ h.jfd = g.jfd /\ h.off = g.off
  BY <1>1 DEF IsPager, Fields
<1>4. UndoK(g, i, db)
  OBVIOUS
<1> HIDE DEF g, h, l
<1>5. UndoK(h, i, db)
  BY <1>3, <1>4 DEF UndoK, Agrees, Coherent
<1>6. OwnK(h, i, db, journal[h.jfd], dirent, mode)
  <2>1. ~Active(h) /\ ~Playing(h)
    BY <1>1, <1>3 DEF Active, Playing, LoggingPcs
  <2>2. QED
    BY <1>5, <2>1 DEF OwnK
<1>7. TrustK(h, l, i, db, journal, dirent)
  <2>1. CASE g.eState = "cachemod"
    <3>1. Quiet(db, i) /\ (RESERVED_LOCK <= l /\ l < EXCLUSIVE_LOCK => Cold(db, journal, dirent))
      BY <1>1, <2>1 DEF TrustK, Trusts, Cools
    <3>2. Cools(h, l) => RESERVED_LOCK <= l /\ l < EXCLUSIVE_LOCK
      BY <1>3, <2>1 DEF Cools
    <3>3. QED
      BY <1>3, <3>1, <3>2 DEF TrustK
  <2>2. CASE g.eState = "dbmod"
    <3>1. ~Trusts(h, l) /\ ~Cools(h, l)
      BY <1>3, <2>2 DEF Trusts, Cools
    <3>2. QED
      BY <1>3, <3>1 DEF TrustK
  <2>3. QED
    BY <1>1, <2>1, <2>2
<1>8. ConnK(h, lock'[c], i, db, journal, dirent, mode)
  <2>1. WriterK(h, l, i, db, journal, dirent, mode)
    BY <1>1, <1>3, <1>6, <1>7 DEF WriterK
  <2>2. ConnK(h, l, i, db, journal, dirent, mode)
    BY <1>1, <1>3, <2>1, WriterIs
  <2>3. QED
    BY <1>2, <2>2
<1>9. Cutting(pager[c], lock[c]) => Cutting(h, lock'[c]) \/ EmptyDb(db) \/ db[1].cur # NoPage
  <2>1. Cutting(g, l) => Cutting(h, l)
    BY <1>3 DEF Cutting
  <2>2. QED
    BY <1>2, <2>1 DEF g, l
<1>10. pager[c].pc # "finsync"
  BY DEF OwnPlay, Playback
<1>11. QED
  BY <1>2, <1>8, <1>9, <1>10, PagerPromises

\* No records.
LEMMA RecsNone ==
  ASSUME NEW cells, NEW p, NEW m \in Int, NEW n \in Int, n < m
  PROVE  ~Recs(cells, p, m, n)
BY DEF Recs

\* readJournalHdr(), in the terms of the journal.
OwnHeader(g) == ~g.hot /\ g.header /\ g.off + 1 = g.hdr
FoundAt(g, cells) ==
  g.off + 1 <= SlotsUsed(cells) /\ (OwnHeader(g) \/ IsMagic(cells[g.off + 1].cur))
CountAt(g, cells) ==
  IF OwnHeader(g) /\ cells[g.off + 1].cur.nRec = 0 THEN SlotsUsed(cells) - (g.off + 1)
  ELSE cells[g.off + 1].cur.nRec
AtHeader(g, cells) ==
  [g EXCEPT !.off = g.off + 1, !.nonce = cells[g.off + 1].cur.nonce, !.left = CountAt(g, cells),
            !.dbSize = IF g.off = 0 THEN cells[g.off + 1].cur.orig ELSE @,
            !.pc = IF CountAt(g, cells) = 0 THEN "play" ELSE "record"]
AtHeaderDb(g, cells) ==
  IF g.off = 0 /\ DbInPlay(g) THEN TruncateDb(cells[g.off + 1].cur.orig) ELSE db

\* readJournalHdr() finds a header, or does not.
LEMMA PlayHeaderIs ==
  ASSUME NEW c \in Conns, PlayHeader(c), pager[c].off \in 0..MaxSlot,
         journal[pager[c].jfd] = [s \in Slots |-> journal[pager[c].jfd][s]]
  PROVE  LET g == pager[c]
             cells == journal[g.jfd]
         IN /\ g.pc = "play" /\ UNCHANGED lockVars /\ UNCHANGED <<mode, journal, dirent>>
            /\ ~FoundAt(g, cells) => db' = db /\ Goto(c, "playend")
            /\ FoundAt(g, cells) => /\ db' = AtHeaderDb(g, cells) /\ Set(c, AtHeader(g, cells))
                                  /\ g.off + 1 \in Slots
<1> DEFINE g == pager[c]
           j == journal[g.jfd]
           cells == Cur(j)
           used == SlotsUsed(j)
           at == g.off + 1
           own == ~g.hot /\ g.header /\ at = g.hdr
           found == at <= used /\ (own \/ IsMagic(cells[at]))
           x == cells[at]
           n == IF own /\ x.nRec = 0 THEN used - at ELSE x.nRec
           h == [g EXCEPT !.off = at, !.nonce = x.nonce, !.left = n,
                          !.dbSize = IF g.off = 0 THEN x.orig ELSE @,
                          !.pc = IF n = 0 THEN "play" ELSE "record"]
<1>1. /\ g.pc = "play" /\ UNCHANGED <<mode, journal, dirent>> /\ UNCHANGED lockVars
      /\ ~found => UNCHANGED db /\ Goto(c, "playend")
      /\ found => /\ db' = IF g.off = 0 /\ DbInPlay(g) THEN TruncateDb(x.orig) ELSE db
                  /\ Set(c, h)
  BY DEF PlayHeader, lockVars
<1>2. used \in 0..MaxSlot /\ MaxSlot \in Nat
  BY UsedIs, Bounds
<1>3. \A s \in Slots : cells[s] = j[s].cur
  BY DEF Cur
<1>4. at <= used => at \in Slots
  BY <1>2 DEF Slots
<1>5. at <= used => x = j[at].cur
  BY <1>3, <1>4
<1>6. found <=> FoundAt(g, j)
  BY <1>5 DEF FoundAt, OwnHeader
<1>7. found => n = CountAt(g, j)
  BY <1>5 DEF CountAt, OwnHeader
<1>8. found => h = AtHeader(g, j)
  BY <1>5, <1>7 DEF AtHeader
<1>9. found => (IF g.off = 0 /\ DbInPlay(g) THEN TruncateDb(x.orig) ELSE db) = AtHeaderDb(g, j)
  BY <1>5 DEF AtHeaderDb
<1>10. found => at \in Slots
  BY <1>4
<1> HIDE DEF found, h, x, n, used, cells, own
<1>11. QED
  BY <1>1, <1>6, <1>8, <1>9, <1>10

\* The pager at the header, field by field.
LEMMA AtHeaderIs ==
  ASSUME NEW g, IsPager(g), NEW cells
  PROVE  LET h == AtHeader(g, cells)
             x == cells[g.off + 1].cur
         IN /\ IsPager(h) /\ h.off = g.off + 1 /\ h.nonce = x.nonce /\ h.left = CountAt(g, cells)
            /\ h.dbSize = (IF g.off = 0 THEN x.orig ELSE g.dbSize)
            /\ h.pc = (IF CountAt(g, cells) = 0 THEN "play" ELSE "record")
            /\ h.hot = g.hot /\ h.jfd = g.jfd /\ h.commit = g.commit /\ h.cache = g.cache
            /\ h.vers = g.vers /\ SameJournal(g, h)
BY ZenonT(60) DEF IsPager, AtHeader, Fields, SameJournal

\* Where the journal of a transaction ends, by what a rollback goes.
LEMMA OwnPlaces ==
  ASSUME NEW g, NEW l, NEW i, NEW b \in Nat, NEW cells, OwnPlay(g, l, i, b, cells)
  PROVE  /\ g.off \in Nat /\ g.off <= MaxSlot /\ MaxSlot \in Nat \ {0} /\ 1 \in Slots
         /\ g.hdr \in Nat \ {0} /\ g.nRec \in Nat /\ g.hdr <= MaxSlot + 1
         /\ End(g) \in Nat /\ End(g) >= 1 /\ g.hdr <= End(g) + 1 /\ End(g) <= MaxSlot
         /\ End(g) = IF g.header THEN g.hdr + g.nRec ELSE g.hdr - 1
         /\ SlotsUsed(cells) \in 0..MaxSlot
         /\ \A s \in Slots : cells[s].cur.kind # "none" => s <= SlotsUsed(cells)
         /\ Len(i) \in Nat
<1>1. /\ g.nRec \in Nat /\ g.hdr \in 1..MaxSlot + 1 /\ g.hdr <= End(g) + 1 /\ End(g) <= MaxSlot
      /\ g.eState = "cachemod" => g.header
      /\ g.eState = "dbmod" => g.hdr \in 2..MaxSlot + 1
      /\ g.eState = "cachemod" \/ g.eState = "dbmod"
  BY DEF OwnPlay, LogK, Covered
<1>2. MaxSlot \in Nat \ {0} /\ 1 \in Slots
  BY Bounds DEF Slots
<1>3. g.off \in Nat /\ g.off <= MaxSlot
  BY <1>2 DEF OwnPlay, Playback, DataType
<1>4. End(g) = IF g.header THEN g.hdr + g.nRec ELSE g.hdr - 1
  BY DEF End
<1>5. End(g) \in Nat /\ End(g) >= 1
  <2>1. CASE g.header
    BY <1>1, <1>2, <1>4, <2>1
  <2>2. CASE ~g.header
    BY <1>1, <1>2, <1>4, <2>2
  <2>3. QED
    BY <2>1, <2>2
<1>6. Len(i) \in Nat
  BY ImageIs, Bounds DEF OwnPlay, Playback
<1>7. QED
  BY SMTT(60), <1>1, <1>2, <1>3, <1>4, <1>5, <1>6, UsedIs

\* When all records of it are passed nothing is left to be restored.
LEMMA NothingLeft ==
  ASSUME NEW g, NEW l, NEW i, NEW b \in Nat, NEW cells, OwnPlay(g, l, i, b, cells),
         g.off >= End(g)
  PROVE  UndoK(g, i, db)
<1>1. /\ g.off \in Nat /\ g.hdr \in Nat /\ End(g) \in Nat /\ End(g) >= 1 /\ g.hdr <= End(g) + 1
      /\ Len(i) \in Nat
  BY OwnPlaces
<1>2. /\ PlayK(g, i, db, cells) /\ IsImage(i)
      /\ Len(i) <= g.orig /\ (Len(i) = 0 <=> g.orig = 0)
      /\ g.eState = "cachemod" => Quiet(db, i)
      /\ g.eState = "cachemod" \/ g.eState = "dbmod"
  BY DEF OwnPlay, Playback, LogK, TrustK, Trusts
<1>3. g.off >= 1 /\ g.off # 0
  BY <1>1
<1>4. /\ g.dbSize = g.orig
      /\ Len(i) = 0 /\ g.eState = "dbmod" => \A p \in Pages : db[p].cur = NoPage
  BY <1>2, <1>3 DEF PlayK
<1>5. \A p : ~Recs(cells, p, g.off + 1, End(g)) /\ ~Recs(cells, p, g.off + 1, g.hdr - 1)
  <2> TAKE p
  <2>1. g.off + 1 \in Int /\ End(g) \in Int /\ g.hdr - 1 \in Int /\ End(g) < g.off + 1 /\ g.hdr - 1 < g.off + 1
    BY <1>1
  <2>2. QED
    BY <2>1, RecsNone
<1>6. \A p \in 1..Len(i) : (g.cache[p] # NoPage => g.cache[p] = i[p]) /\ db[p].cur = i[p]
  BY <1>2, <1>5 DEF PlayK
<1>7. Len(i) # 0 => g.cache[1] = i[1] /\ g.vers = i[1]
  <2>1. Len(i) # 0 => 1 \in 1..Len(i)
    BY <1>1
  <2>2. QED
    BY <1>2, <1>5, <1>6, <2>1 DEF PlayK
<1>8. Agrees(g, i)
  BY <1>2, <1>4, <1>6, <1>7 DEF Agrees, Coherent
<1>9. Len(i) = 0 => \A p \in Pages : db[p].cur = NoPage
  <2>1. CASE g.eState = "cachemod"
    BY <1>2, <2>1 DEF Quiet, EmptyDb, Stable
  <2>2. QED
    BY <1>2, <1>4, <2>1
<1>10. QED
  BY <1>3, <1>6, <1>8, <1>9 DEF UndoK

\* No header more: the rollback is done.
LEMMA OwnDone ==
  ASSUME NEW g, NEW l, NEW i, NEW b \in Nat, NEW cells, OwnPlay(g, l, i, b, cells),
         g.pc = "play", ~FoundAt(g, cells)
  PROVE  UndoK(g, i, db)
<1> DEFINE at == g.off + 1
           used == SlotsUsed(cells)
<1>1. /\ at \in Nat \ {0} /\ g.off \in Nat /\ g.off <= MaxSlot /\ MaxSlot \in Nat
      /\ g.hdr \in Nat \ {0} /\ g.nRec \in Nat /\ End(g) \in Nat /\ End(g) <= MaxSlot
      /\ End(g) = IF g.header THEN g.hdr + g.nRec ELSE g.hdr - 1
      /\ used \in 0..MaxSlot
      /\ \A s \in Slots : cells[s].cur.kind # "none" => s <= used
  <2>1. g.off \in Nat
    BY OwnPlaces
  <2>2. at \in Nat \ {0}
    BY <2>1
  <2> HIDE DEF at
  <2>3. QED
    BY <2>2, OwnPlaces
<1>2. /\ \/ at <= g.hdr /\ Chain(Cur(cells), at, g.hdr)
         \/ g.off >= End(g)
      /\ cells = [s \in Slots |-> cells[s]] /\ JournalType(cells, b) /\ g.hot = FALSE
      /\ g.header => OpenSegment(g, i, cells)
  BY DEF OwnPlay, Playback, PlayK, PlaceK, LogK
<1>3. CASE at < g.hdr /\ Chain(Cur(cells), at, g.hdr)
  <2>1. Heads(cells, at, g.hdr)
    BY <1>1, <1>2, <1>3, HeaderFound
  <2>2. QED
    BY <2>1 DEF Heads, FoundAt
<1>4. CASE at = g.hdr
  <2>1. CASE g.header
    <3>1. g.hdr \in Slots
      BY <1>1, <2>1 DEF Slots
    <3>2. cells[g.hdr].cur.kind # "none"
      BY <1>2, <2>1 DEF OpenSegment
    <3>3. at <= used
      BY <1>1, <1>4, <3>1, <3>2
    <3>4. QED
      BY <1>2, <1>4, <2>1, <3>3 DEF FoundAt, OwnHeader
  <2>2. CASE ~g.header
    <3>1. g.off >= End(g)
      BY <1>1, <1>4, <2>2
    <3>2. QED
      BY <3>1, NothingLeft
  <2>3. QED
    BY <2>1, <2>2
<1>5. CASE g.off >= End(g)
  BY <1>5, NothingLeft
<1>6. QED
  BY <1>1, <1>2, <1>3, <1>4, <1>5

\* A header is found: what is there of its segment.
LEMMA OwnPlace ==
  ASSUME NEW g, NEW l, NEW i, NEW b \in Nat, NEW cells, OwnPlay(g, l, i, b, cells),
         g.pc = "play", FoundAt(g, cells), g.off + 1 \in Slots
  PROVE  PlaceK(AtHeader(g, cells), cells) /\ cells[g.off + 1].cur.kind = "header"
<1> DEFINE at == g.off + 1
           used == SlotsUsed(cells)
           h == AtHeader(g, cells)
           x == cells[at].cur
           n == CountAt(g, cells)
<1>1. /\ at \in Nat \ {0} /\ g.off \in Nat /\ g.off <= MaxSlot /\ MaxSlot \in Nat
      /\ g.hdr \in Nat \ {0} /\ g.nRec \in Nat /\ End(g) \in Nat /\ End(g) <= MaxSlot
      /\ End(g) = IF g.header THEN g.hdr + g.nRec ELSE g.hdr - 1
      /\ used \in 0..MaxSlot
      /\ \A s \in Slots : cells[s].cur.kind # "none" => s <= used
  <2>1. g.off \in Nat
    BY OwnPlaces
  <2>2. at \in Nat \ {0}
    BY <2>1
  <2> HIDE DEF at
  <2>3. QED
    BY <2>2, OwnPlaces
<1>2. /\ \/ at <= g.hdr /\ Chain(Cur(cells), at, g.hdr)
         \/ /\ g.off >= End(g) /\ ~(g.header /\ at = g.hdr)
            /\ g.off < used => ~IsMagic(x)
      /\ cells = [s \in Slots |-> cells[s]] /\ JournalType(cells, b) /\ g.hot = FALSE
      /\ x \in Cells(b) /\ x \in cells[at].may
      /\ IF g.header THEN OpenSegment(g, i, cells) ELSE NoMagic(cells, g.hdr)
      /\ IsPager(g)
  BY DEF OwnPlay, Playback, PlayK, PlaceK, LogK
<1>3. /\ h.off = at /\ h.nonce = x.nonce /\ h.left = n /\ h.pc = (IF n = 0 THEN "play" ELSE "record")
      /\ h.hdr = g.hdr /\ h.header = g.header /\ End(h) = End(g)
  BY <1>2, AtHeaderIs DEF SameJournal, End
<1>4. at <= used /\ (OwnHeader(g) \/ IsMagic(x))
  BY DEF FoundAt
<1>5. n = IF OwnHeader(g) /\ x.nRec = 0 THEN used - at ELSE x.nRec
  BY DEF CountAt
<1>6. OwnHeader(g) <=> g.header /\ at = g.hdr
  BY <1>2 DEF OwnHeader
<1> HIDE DEF h, n, used
<1>7. CASE at < g.hdr /\ Chain(Cur(cells), at, g.hdr)
  <2>1. Heads(cells, at, g.hdr)
    BY <1>1, <1>2, <1>7, HeaderFound
  <2>2. n = x.nRec
    BY <1>1, <1>5, <1>6, <1>7
  <2>3. /\ IsMagic(x) /\ n \in Nat /\ at + n + 1 <= g.hdr /\ Chain(Cur(cells), at + n + 1, g.hdr)
        /\ \A s \in at + 1..at + n : cells[s].cur.kind = "record" /\ cells[s].cur.nonce = x.nonce
    BY <2>1, <2>2 DEF Heads
  <2>4. CASE n = 0
    <3>1. h.off + 1 <= h.hdr /\ Chain(Cur(cells), h.off + 1, h.hdr) /\ h.pc = "play" /\ h.pc # "record"
      <4>1. at + n + 1 = at + 1
        BY <1>1, <2>4
      <4>2. QED
        BY <1>3, <2>3, <2>4, <4>1
    <3>2. QED
      BY <2>3, <3>1 DEF PlaceK, IsMagic, h
  <2>5. CASE n # 0
    <3>1. h.pc = "record" /\ h.off # 0 /\ n > 0
      BY <1>1, <1>3, <2>3, <2>5
    <3>2. InSegment(h, cells, h.hdr)
      BY <1>3, <2>3, <3>1 DEF InSegment
    <3>3. QED
      BY <2>3, <3>1, <3>2 DEF PlaceK, IsMagic, h
  <2>6. QED
    BY <2>4, <2>5
<1>8. CASE at = g.hdr /\ g.header
  <2>1. /\ x.kind = "header"
        /\ \A s \in at + 1..End(g) : cells[s].cur.kind = "record"
        /\ x.nRec = 0 \/ x.nRec = g.nRec
    BY <1>2, <1>8 DEF OpenSegment
  <2>2. End(g) <= used
    <3>1. CASE g.nRec = 0
      BY <1>1, <1>4, <1>8, <3>1
    <3>2. CASE g.nRec # 0
      <4>1. End(g) \in at + 1..End(g) /\ End(g) \in Slots
        BY <1>1, <1>8, <3>2 DEF Slots
      <4>2. QED
        BY <1>1, <2>1, <4>1
    <3>3. QED
      BY <3>1, <3>2
  <2>3. n = IF x.nRec = 0 THEN used - at ELSE g.nRec
    BY <1>5, <1>6, <1>8, <2>1
  <2>4. n \in Nat
    BY <1>1, <1>4, <2>3
  <2>5. CASE n = 0
    <3>1. End(g) <= at /\ used = at
      BY <1>1, <1>4, <1>8, <2>1, <2>2, <2>3, <2>5
    <3>2. h.off >= End(h) /\ ~(h.header /\ h.off + 1 = h.hdr) /\ ~(h.off < used) /\ h.pc = "play" /\ h.off # 0
      BY <1>1, <1>3, <1>8, <2>5, <3>1
    <3>3. QED
      BY <2>1, <3>2 DEF PlaceK, used, h
  <2>6. CASE n # 0
    <3>1. h.pc = "record" /\ h.left \in Nat \ {0} /\ h.header /\ h.hdr <= h.off /\ h.nonce = cells[h.hdr].cur.nonce /\ h.off # 0
      BY <1>1, <1>3, <1>8, <2>4, <2>6
    <3>2. h.off + h.left = IF cells[h.hdr].cur.nRec = 0 THEN used ELSE End(h)
      BY <1>1, <1>3, <1>8, <2>3
    <3>3. QED
      BY <2>1, <3>1, <3>2 DEF PlaceK, used, h
  <2>7. QED
    BY <2>5, <2>6
<1>9. CASE at = g.hdr /\ ~g.header
  <2>1. IsMagic(x) /\ NoMagic(cells, g.hdr) /\ g.hdr <= MaxSlot
    BY <1>1, <1>2, <1>4, <1>6, <1>9
  <2>2. QED
    BY <1>2, <1>9, <2>1 DEF NoMagic
<1>10. CASE g.off >= End(g) /\ ~(g.header /\ at = g.hdr) /\ (g.off < used => ~IsMagic(x))
  BY <1>1, <1>4, <1>6, <1>10
<1>11. QED
  BY <1>1, <1>2, <1>7, <1>8, <1>9, <1>10 DEF h

\* A header has no page in it.
HeaderPassed(g, i, cells, d) ==
  /\ PlayK(AtHeader(g, cells), i, d, cells)
  /\ g.eState = "cachemod" => d = db
  /\ g.eState = "dbmod" =>
       /\ Covered(cells, cells[1].cur, i, d, g.hdr)
       /\ d[1].cur = NoPage => EmptyDb(d) \/ Cutting(AtHeader(g, cells), EXCLUSIVE_LOCK)

\* So the rollback of its own transaction goes on after it.
LEMMA OwnHeaderPlayed ==
  ASSUME NEW g, NEW l, NEW i, NEW b \in Nat, NEW cells, OwnPlay(g, l, i, b, cells),
         g.pc = "play", FoundAt(g, cells), g.off + 1 \in Slots
  PROVE  HeaderPassed(g, i, cells, AtHeaderDb(g, cells))
<1> DEFINE at == g.off + 1
           h == AtHeader(g, cells)
           x == cells[at].cur
           d == AtHeaderDb(g, cells)
<1>1. /\ g.off \in Nat /\ End(g) \in Nat /\ g.hdr \in Nat /\ Len(i) \in Nat
  BY OwnPlaces
<1>2. PlaceK(h, cells) /\ x.kind = "header"
  BY OwnPlace
<1>3. /\ IsPager(g) /\ IsImage(i) /\ DbType(db) /\ PlayK(g, i, db, cells) /\ LogK(g, i, db, cells)
      /\ g.hot = FALSE /\ g.commit = FALSE
      /\ g.eState = "cachemod" \/ g.eState = "dbmod"
      /\ g.eState = "dbmod" => l = EXCLUSIVE_LOCK
      /\ x \in Cells(b)
      /\ db[1].cur = NoPage => EmptyDb(db) \/ Cutting(g, l)
  BY DEF OwnPlay, Playback
<1>4. /\ h.off = at /\ h.dbSize = (IF g.off = 0 THEN x.orig ELSE g.dbSize)
      /\ h.pc = "play" \/ h.pc = "record"
      /\ h.commit = g.commit /\ h.cache = g.cache /\ h.vers = g.vers
      /\ h.eState = g.eState /\ h.orig = g.orig /\ h.hdr = g.hdr /\ End(h) = End(g)
  BY <1>3, AtHeaderIs DEF SameJournal, End
<1>5. x.orig \in 0..MaxPage
  BY <1>2, <1>3 DEF Cells, HeaderCells, RecordCells, NoCell, Junk
<1>6. g.off = 0 => x = cells[1].cur /\ at = 1 /\ x.orig = g.orig
  BY <1>3 DEF LogK
<1>7. g.eState = "dbmod" => Covered(cells, cells[1].cur, i, db, g.hdr)
  BY <1>3 DEF LogK
<1>8. d = IF g.off = 0 /\ g.eState = "dbmod" THEN TruncateDb(x.orig) ELSE db
  BY <1>3 DEF AtHeaderDb, DbInPlay
<1> HIDE DEF h, x, d, at
<1>9. CASE g.off = 0 /\ g.eState = "dbmod"
  <2> DEFINE y == TruncateDb(x.orig)
  <2>1. Covered(cells, x, i, db, g.hdr)
    BY <1>6, <1>7, <1>9
  <2>2. /\ Covered(cells, x, i, y, g.hdr)
        /\ Len(i) = 0 => \A p \in Pages : y[p].cur = NoPage
        /\ \A p \in 1..Len(i) : db[p].cur = i[p] => y[p].cur = i[p]
        /\ y[1].cur = NoPage => x.orig = 0
    BY <1>3, <1>5, <2>1, CoveredCut
  <2>3. d = y
    BY <1>8, <1>9
  <2> HIDE DEF y
  <2>4. d[1].cur = NoPage => Cutting(h, EXCLUSIVE_LOCK)
    BY <1>3, <1>4, <1>9, <2>2, <2>3 DEF Cutting
  <2>5. QED
    <3>1. Covered(cells, cells[1].cur, i, d, g.hdr)
      BY <1>6, <1>9, <2>2, <2>3
    <3>2. PlayK(h, i, d, cells)
      <4>1. h.off # 0 => /\ h.dbSize = h.orig
                         /\ Len(i) = 0 /\ h.eState = "dbmod" => \A p \in Pages : d[p].cur = NoPage
        BY <1>4, <1>6, <1>9, <2>2, <2>3
      <4>2. \A p : \A n \in Int : Recs(cells, p, g.off + 1, n) => Recs(cells, p, h.off + 1, n)
        <5> TAKE p
        <5> TAKE n \in Int
        <5>1. at \in Nat /\ cells[at].cur.kind # "record" /\ at = g.off + 1
          BY <1>1, <1>2 DEF at, x
        <5>2. Recs(cells, p, at, n) => Recs(cells, p, at + 1, n)
          BY <5>1, RecsPast
        <5>3. QED
          BY <1>4, <5>1, <5>2
      <4>3. \A p \in 1..Len(i) :
              /\ (h.cache[p] # NoPage => h.cache[p] = i[p]) \/ Recs(cells, p, h.off + 1, End(h))
              /\ d[p].cur = i[p] \/ Recs(cells, p, h.off + 1, h.hdr - 1)
        <5> TAKE p \in 1..Len(i)
        <5>1. /\ (g.cache[p] # NoPage => g.cache[p] = i[p]) \/ Recs(cells, p, g.off + 1, End(g))
              /\ db[p].cur = i[p] \/ Recs(cells, p, g.off + 1, g.hdr - 1)
          BY <1>3 DEF PlayK
        <5>2. End(g) \in Int /\ g.hdr - 1 \in Int
          BY <1>1
        <5>3. QED
          BY <1>4, <2>2, <2>3, <4>2, <5>1, <5>2
      <4>4. Len(i) # 0 => h.cache[1] # NoPage /\ (h.vers = i[1] \/ Recs(cells, 1, h.off + 1, End(h)))
        <5>1. End(g) \in Int
          BY <1>1
        <5>2. QED
          BY <1>3, <1>4, <4>2, <5>1 DEF PlayK
      <4>5. QED
        BY <1>2, <4>1, <4>3, <4>4 DEF PlayK
    <3>3. QED
      BY <1>9, <2>4, <3>1, <3>2 DEF HeaderPassed, h, d
<1>10. CASE ~(g.off = 0 /\ g.eState = "dbmod")
  <2>1. d = db
    BY <1>8, <1>10
  <2>2. PlayK(h, i, d, cells)
    <4>1. h.off # 0 => /\ h.dbSize = h.orig
                       /\ Len(i) = 0 /\ h.eState = "dbmod" => \A p \in Pages : d[p].cur = NoPage
      <5>1. CASE g.off = 0
        BY <1>3, <1>4, <1>6, <1>10, <5>1
      <5>2. CASE g.off # 0
        BY <1>3, <1>4, <2>1, <5>2 DEF PlayK
      <5>3. QED
        BY <5>1, <5>2
    <4>2. \A p : \A n \in Int : Recs(cells, p, g.off + 1, n) => Recs(cells, p, h.off + 1, n)
      <5> TAKE p
      <5> TAKE n \in Int
      <5>1. at \in Nat /\ cells[at].cur.kind # "record" /\ at = g.off + 1
        BY <1>1, <1>2 DEF at, x
      <5>2. Recs(cells, p, at, n) => Recs(cells, p, at + 1, n)
        BY <5>1, RecsPast
      <5>3. QED
        BY <1>4, <5>1, <5>2
    <4>3. \A p \in 1..Len(i) :
            /\ (h.cache[p] # NoPage => h.cache[p] = i[p]) \/ Recs(cells, p, h.off + 1, End(h))
            /\ d[p].cur = i[p] \/ Recs(cells, p, h.off + 1, h.hdr - 1)
      <5> TAKE p \in 1..Len(i)
      <5>1. /\ (g.cache[p] # NoPage => g.cache[p] = i[p]) \/ Recs(cells, p, g.off + 1, End(g))
            /\ db[p].cur = i[p] \/ Recs(cells, p, g.off + 1, g.hdr - 1)
        BY <1>3 DEF PlayK
      <5>2. End(g) \in Int /\ g.hdr - 1 \in Int
        BY <1>1
      <5>3. QED
        BY <1>4, <2>1, <4>2, <5>1, <5>2
    <4>4. Len(i) # 0 => h.cache[1] # NoPage /\ (h.vers = i[1] \/ Recs(cells, 1, h.off + 1, End(h)))
      <5>1. End(g) \in Int
        BY <1>1
      <5>2. QED
        BY <1>3, <1>4, <4>2, <5>1 DEF PlayK
    <4>5. QED
      BY <1>2, <4>1, <4>3, <4>4 DEF PlayK
  <2>3. g.eState = "dbmod" => /\ Covered(cells, cells[1].cur, i, d, g.hdr)
                              /\ d[1].cur = NoPage => EmptyDb(d) \/ Cutting(h, EXCLUSIVE_LOCK)
    <3> SUFFICES ASSUME g.eState = "dbmod"
                 PROVE  /\ Covered(cells, cells[1].cur, i, d, g.hdr)
                        /\ d[1].cur = NoPage => EmptyDb(d) \/ Cutting(h, EXCLUSIVE_LOCK)
      OBVIOUS
    <3>1. g.off # 0 /\ h.dbSize = g.dbSize
      BY <1>4, <1>10
    <3>2. Cutting(g, l) => Cutting(h, EXCLUSIVE_LOCK)
      BY <1>4, <3>1 DEF Cutting
    <3>3. QED
      BY <1>3, <1>7, <2>1, <3>2
  <2>4. QED
    BY <2>1, <2>2, <2>3 DEF HeaderPassed, h, d
<1>11. QED
  BY <1>9, <1>10

\* readJournalHdr(), in a rollback of its own transaction.
LEMMA OwnHeaderKept ==
  ASSUME IInv, NEW b \in Nat, TInv(b), NEW i, PInv(i), NEW c \in Conns, PlayHeader(c),
         pager[c].hot = FALSE
  PROVE  PInv(i)'
<1> DEFINE g == pager[c]
           l == lock[c]
           cells == journal[g.jfd]
           h == AtHeader(g, cells)
<1>1. g.pc = "play"
  BY DEF PlayHeader
<1>2. OwnPlay(g, l, i, b, cells)
  BY <1>1, PlaybackHas
<1>3. /\ IsPager(g) /\ g.off \in 0..MaxSlot /\ cells = [s \in Slots |-> cells[s]]
      /\ g.eState = "dbmod" => l = EXCLUSIVE_LOCK
      /\ g.hot = FALSE /\ g.commit = FALSE
  BY <1>2 DEF OwnPlay, Playback, DataType
<1>4. /\ UNCHANGED lockVars /\ UNCHANGED <<mode, journal, dirent>>
      /\ ~FoundAt(g, cells) => db' = db /\ Goto(c, "playend")
      /\ FoundAt(g, cells) => /\ db' = AtHeaderDb(g, cells) /\ Set(c, h)
                              /\ g.off + 1 \in Slots
  BY <1>3, PlayHeaderIs
<1>5. CASE ~FoundAt(g, cells)
  <2>1. UndoK(g, i, db)
    BY <1>1, <1>2, <1>5, OwnDone
  <2>2. UNCHANGED <<mode, db, journal, dirent>> /\ Goto(c, "playend")
    BY <1>4, <1>5
  <2>3. QED
    BY <1>2, <1>4, <2>1, <2>2, OwnEnds
<1>6. CASE FoundAt(g, cells)
  <2>1. HeaderPassed(g, i, cells, AtHeaderDb(g, cells))
    BY <1>1, <1>2, <1>4, <1>6, OwnHeaderPlayed
  <2>2. HeaderPassed(g, i, cells, db')
    BY <1>4, <1>6, <2>1
  <2>3. /\ h.pc = "play" \/ h.pc = "record"
        /\ h.hot = FALSE /\ h.jfd = g.jfd /\ h.commit = FALSE /\ SameJournal(g, h)
    BY <1>3, AtHeaderIs
  <2>4. /\ PlayK(h, i, db', cells)
        /\ g.eState = "cachemod" => db' = db
        /\ g.eState = "dbmod" =>
             /\ Covered(cells, cells[1].cur, i, db', g.hdr)
             /\ db'[1].cur = NoPage => EmptyDb(db') \/ Cutting(h, l)
    BY <1>3, <2>2 DEF HeaderPassed
  <2>5. Set(c, h)
    BY <1>4, <1>6
  <2> HIDE DEF h
  <2>6. QED
    BY <1>2, <1>4, <2>3, <2>4, <2>5, OwnGoes
<1>7. QED
  BY <1>5, <1>6

\* The playback of a hot journal goes on.
HotMoves(g, h) ==
  /\ h.pc = "play" \/ h.pc = "record" \/ h.pc = "playend"
  /\ h.eState = "open" /\ h.hot = TRUE /\ h.jfd = g.jfd /\ h.commit = FALSE /\ h.hdr = g.hdr
  /\ h.vers = g.vers
  /\ h.cache = g.cache \/ h.cache = NoCache

\* The connection relies on the hot journal still.
LEMMA HotMoved ==
  ASSUME NEW g, NEW l, NEW i, NEW b, NEW cells, HotPlay(g, l, i, b, cells),
         NEW h, HotMoves(g, h), NEW d, NEW j, j[g.jfd] = cells,
         HotK(h, i, d, cells)
  PROVE  ConnK(h, l, i, d, j, dirent, mode)
<1>1. CacheK(h, i)
  <2>1. CacheK(g, i) /\ g.eState = "open" /\ h.eState = "open" /\ h.vers = g.vers
    BY DEF HotPlay, HotMoves
  <2>2. CASE h.cache = g.cache
    BY <2>1, <2>2 DEF CacheK, NothingCached, Coherent
  <2>3. CASE h.cache = NoCache
    BY <2>3, NothingIsKept
  <2>4. QED
    BY <2>2, <2>3 DEF HotMoves
<1>2. TrustK(h, l, i, d, j, dirent)
  BY DEF TrustK, Trusts, Cools, HotMoves
<1>3. JfdK(h, i, dirent, mode)
  BY DEF JfdK, HotMoves, HotPlay, Playback
<1>4. HotK(h, i, d, j[h.jfd]) /\ h.eState = "open" /\ h.hot = TRUE
  BY DEF HotMoves
<1>5. QED
  BY <1>1, <1>2, <1>3, <1>4, HotIs

\* The file is what it was, and the journal is without a header, or with one.
LEMMA ColdMoves ==
  ASSUME IInv, NEW b \in Nat, NEW i, PInv(i), NEW c \in Conns,
         HotPlay(pager[c], lock[c], i, b, journal[pager[c].jfd]),
         NEW h, HotMoves(pager[c], h), Set(c, h), h.dbSize = pager[c].dbSize,
         UNCHANGED lockVars, UNCHANGED <<mode, db, journal, dirent>>,
         HotK(h, i, db, journal[pager[c].jfd])
  PROVE  PInv(i)'
<1>1. ConnK(h, lock[c], i, db, journal, dirent, mode)
  BY HotMoved
<1>2. lock'[c] = lock[c] /\ [LockNext]_lockVars /\ (\A d \in Others(c) : lock'[d] = lock[d])
  BY SameLocks DEF Others
<1>3. pager[c].pc # "finsync"
  BY DEF HotPlay, Playback
<1>4. Cutting(pager[c], lock[c]) => Cutting(h, lock'[c])
  BY <1>2 DEF Cutting, HotMoves, HotPlay, Playback
<1>5. ConnK(h, lock'[c], i, db, journal, dirent, mode)
  BY <1>1, <1>2
<1>6. QED
  BY <1>2, <1>3, <1>4, <1>5, PagerPromises

\* The playback of a journal with a header goes on, the file changes.
LEMMA HotGoes ==
  ASSUME IInv, NEW b \in Nat, NEW i, PInv(i), NEW c \in Conns,
         HotPlay(pager[c], lock[c], i, b, journal[pager[c].jfd]),
         NEW h, HotMoves(pager[c], h), Set(c, h),
         UNCHANGED lockVars, UNCHANGED <<mode, journal, dirent>>,
         IsMagic(journal[pager[c].jfd][1].cur),
         NEW n, HotAt(h, i, db', journal[pager[c].jfd], n),
         db'[1].cur = NoPage => EmptyDb(db') \/ Cutting(h, lock[c])
  PROVE  PInv(i)'
<1> DEFINE g == pager[c]
           cells == journal[g.jfd]
<1>1. /\ g.jfd # 0 /\ dirent.cur = g.jfd /\ IsImage(i) /\ lock[c] = EXCLUSIVE_LOCK
      /\ FilesK(i, db, journal, dirent, mode) /\ HotK(g, i, db, cells)
      /\ g.hot = TRUE /\ (g.pc = "play" \/ g.pc = "record")
  BY DEF HotPlay, Playback
<1>2. /\ \A s \in Slots : IsStable(cells[s])
      /\ g.hdr = SlotsUsed(cells) + 1
  BY <1>1 DEF HotK
<1>3. 1 \in Slots
  BY Bounds DEF Slots
<1>4. HotK(h, i, db', cells)
  <2>1. h.hdr = g.hdr /\ (h.pc = "play" \/ h.pc = "record" \/ h.pc = "playend")
    BY DEF HotMoves
  <2>2. IsMagic(cells[1].cur) /\ HotAt(h, i, db', cells, n)
    OBVIOUS
  <2> HIDE DEF g, cells
  <2>3. QED
    BY <1>2, <2>1, <2>2 DEF HotK
<1>5. ConnK(h, lock[c], i, db', journal, dirent, mode)
  BY <1>4, HotMoved
<1>6. dirent.may = {g.jfd}
  <2>1. IsStable(journal[dirent.cur][1]) /\ IsMagic(journal[dirent.cur][1].cur) /\ dirent.cur # 0
    BY <1>1, <1>2, <1>3
  <2>2. dirent.may = {dirent.cur}
    BY <1>1, <2>1, NameIsSure
  <2>3. QED
    BY <1>1, <2>2
<1> DEFINE e == g.jfd
<1>7. dirent'.cur = e /\ dirent'.may = {e} /\ e # 0
  BY <1>1, <1>6
<1>8. IsStable(journal'[e][1]) /\ IsMagic(journal'[e][1].cur)
      /\ Covered(journal'[e], journal'[e][1].cur, i, db', n)
      /\ (db'[1].cur = NoPage => EmptyDb(db') \/ Cutting(h, lock[c]))
  BY <1>2, <1>3 DEF HotAt
<1>9. lock[c] = EXCLUSIVE_LOCK /\ UNCHANGED lockVars /\ mode' = mode /\ Set(c, h)
  BY <1>1
<1>10. ConnK(h, lock[c], i, db', journal', dirent', mode)
  BY <1>5
<1> HIDE DEF e, g, cells
<1>11. QED
  BY <1>7, <1>8, <1>9, <1>10, WriterPromises

\* What is at hand of a hot journal with a header.
LEMMA HotHas ==
  ASSUME NEW g, NEW l, NEW i, NEW b \in Nat, NEW cells, HotPlay(g, l, i, b, cells)
  PROVE  /\ IsPager(g) /\ IsImage(i) /\ DbType(db) /\ l = EXCLUSIVE_LOCK
         /\ g.off \in Nat /\ g.off <= MaxSlot /\ MaxSlot \in Nat \ {0} /\ 1 \in Slots
         /\ cells = [s \in Slots |-> cells[s]] /\ JournalType(cells, b)
         /\ \A s \in Slots : IsStable(cells[s]) /\ cells[s].cur \in cells[s].may /\ cells[s].cur \in Cells(b)
         /\ g.hdr = SlotsUsed(cells) + 1 /\ SlotsUsed(cells) \in 0..MaxSlot
         /\ \A s \in Slots : cells[s].cur.kind # "none" => s <= SlotsUsed(cells)
         /\ Len(i) \in Nat
         /\ db[1].cur = NoPage => EmptyDb(db) \/ Cutting(g, l)
         /\ g.hot = TRUE /\ g.eState = "open" /\ g.commit = FALSE
<1>1. /\ IsPager(g) /\ IsImage(i) /\ DbType(db) /\ l = EXCLUSIVE_LOCK /\ DataType(g, b)
      /\ cells = [s \in Slots |-> cells[s]] /\ JournalType(cells, b)
      /\ \A s \in Slots : cells[s].cur \in cells[s].may /\ cells[s].cur \in Cells(b)
      /\ db[1].cur = NoPage => EmptyDb(db) \/ Cutting(g, l)
      /\ g.hot = TRUE /\ g.eState = "open" /\ g.commit = FALSE
      /\ g.pc = "play" \/ g.pc = "record"
      /\ HotK(g, i, db, cells)
  BY DEF HotPlay, Playback
<1>2. MaxSlot \in Nat \ {0} /\ 1 \in Slots
  BY Bounds DEF Slots
<1>3. g.off \in Nat /\ g.off <= MaxSlot
  BY <1>1, <1>2 DEF DataType
<1>4. Len(i) \in Nat
  BY <1>1, ImageIs, Bounds
<1>5. /\ \A s \in Slots : IsStable(cells[s])
      /\ g.hdr = SlotsUsed(cells) + 1
  BY <1>1 DEF HotK
<1>6. QED
  BY <1>1, <1>2, <1>3, <1>4, <1>5, UsedIs

\* What is known of a hot journal that is played back.
HotLog(g, i, cells) ==
  /\ IsMagic(cells[1].cur) => \E n : HotAt(g, i, db, cells, n)
  /\ ~IsMagic(cells[1].cur) => g.off = 0 /\ g.pc # "record" /\ Quiet(db, i)

\* It is known.
LEMMA HotLogHas ==
  ASSUME NEW g, NEW l, NEW i, NEW b \in Nat, NEW cells, HotPlay(g, l, i, b, cells)
  PROVE  HotLog(g, i, cells)
<1>1. HotK(g, i, db, cells) /\ g.hot = TRUE /\ (g.pc = "play" \/ g.pc = "record")
  BY DEF HotPlay, Playback
<1>2. IF IsMagic(cells[1].cur) THEN \E n : HotAt(g, i, db, cells, n)
      ELSE g.off = 0 /\ g.pc # "record" /\ Quiet(db, i)
  BY <1>1 DEF HotK
<1>3. QED
  BY <1>2 DEF HotLog

\* What is at hand of a hot journal, but for that.
HotBase(g, l, i, b, cells) ==
  /\ IsPager(g) /\ IsImage(i) /\ DbType(db) /\ l = EXCLUSIVE_LOCK
  /\ g.off \in Nat /\ g.off <= MaxSlot /\ MaxSlot \in Nat \ {0} /\ 1 \in Slots
  /\ cells = [s \in Slots |-> cells[s]] /\ JournalType(cells, b)
  /\ \A s \in Slots : IsStable(cells[s]) /\ cells[s].cur \in cells[s].may /\ cells[s].cur \in Cells(b)
  /\ g.hdr = SlotsUsed(cells) + 1 /\ SlotsUsed(cells) \in 0..MaxSlot
  /\ \A s \in Slots : cells[s].cur.kind # "none" => s <= SlotsUsed(cells)
  /\ Len(i) \in Nat
  /\ db[1].cur = NoPage => EmptyDb(db) \/ Cutting(g, l)
  /\ g.hot = TRUE /\ g.eState = "open" /\ g.commit = FALSE

\* It is at hand.
LEMMA HotBaseHas ==
  ASSUME NEW g, NEW l, NEW i, NEW b \in Nat, NEW cells, HotPlay(g, l, i, b, cells)
  PROVE  HotBase(g, l, i, b, cells)
<1>1. HotPlay(g, l, i, b, cells)
  OBVIOUS
<1>2. /\ IsPager(g) /\ IsImage(i) /\ DbType(db) /\ l = EXCLUSIVE_LOCK
      /\ g.off \in Nat /\ g.off <= MaxSlot /\ MaxSlot \in Nat \ {0} /\ 1 \in Slots
      /\ cells = [s \in Slots |-> cells[s]] /\ JournalType(cells, b)
      /\ \A s \in Slots : IsStable(cells[s]) /\ cells[s].cur \in cells[s].may /\ cells[s].cur \in Cells(b)
      /\ g.hdr = SlotsUsed(cells) + 1 /\ SlotsUsed(cells) \in 0..MaxSlot
      /\ \A s \in Slots : cells[s].cur.kind # "none" => s <= SlotsUsed(cells)
      /\ Len(i) \in Nat
      /\ db[1].cur = NoPage => EmptyDb(db) \/ Cutting(g, l)
      /\ g.hot = TRUE /\ g.eState = "open" /\ g.commit = FALSE
  BY <1>1, HotHas
<1>3. QED
  BY <1>2 DEF HotBase

\* A header of a hot journal is found.
LEMMA HotHeaderPlayed ==
  ASSUME NEW g, NEW l, NEW i, NEW b \in Nat, NEW cells, HotPlay(g, l, i, b, cells),
         g.pc = "play", FoundAt(g, cells), g.off + 1 \in Slots, NEW n, HotAt(g, i, db, cells, n),
         NEW d, d = AtHeaderDb(g, cells)
  PROVE  /\ HotAt(AtHeader(g, cells), i, d, cells, n)
         /\ d[1].cur = NoPage => EmptyDb(d) \/ Cutting(AtHeader(g, cells), l)
<1> DEFINE at == g.off + 1
           h == AtHeader(g, cells)
           x == cells[at].cur
           k == CountAt(g, cells)
<1>1. /\ IsPager(g) /\ IsImage(i) /\ DbType(db) /\ l = EXCLUSIVE_LOCK
      /\ g.off \in Nat /\ MaxSlot \in Nat \ {0}
      /\ cells = [s \in Slots |-> cells[s]] /\ JournalType(cells, b)
      /\ SlotsUsed(cells) \in 0..MaxSlot
      /\ Len(i) \in Nat
      /\ db[1].cur = NoPage => EmptyDb(db) \/ Cutting(g, l)
      /\ g.hot = TRUE /\ g.eState = "open" /\ g.commit = FALSE
      /\ x \in Cells(b) /\ x \in cells[at].may
  <2>1. HotBase(g, l, i, b, cells)
    BY HotBaseHas
  <2>2. at \in Slots
    OBVIOUS
  <2> HIDE DEF at
  <2>3. QED
    BY <2>1, <2>2 DEF HotBase
<1>2. /\ h.off = at /\ h.nonce = x.nonce /\ h.left = k
      /\ h.dbSize = (IF g.off = 0 THEN x.orig ELSE g.dbSize)
      /\ h.pc = (IF k = 0 THEN "play" ELSE "record") /\ h.commit = FALSE
  BY <1>1, AtHeaderIs
<1>3. IsMagic(x) /\ at <= SlotsUsed(cells) /\ k = x.nRec
  BY <1>1 DEF FoundAt, OwnHeader, CountAt
<1>4. /\ Covered(cells, cells[1].cur, i, db, n) /\ NoMagic(cells, n)
      /\ g.off + 1 <= n /\ Chain(Cur(cells), g.off + 1, n)
      /\ g.off # 0 => /\ g.dbSize = cells[1].cur.orig
                      /\ Len(i) = 0 => \A p \in Pages : db[p].cur = NoPage
      /\ \A p \in 1..Len(i) : db[p].cur = i[p] \/ Recs(cells, p, g.off + 1, n - 1)
      /\ n \in 2..MaxSlot + 1
  BY DEF HotAt, Covered
<1>5. at \in Nat \ {0} /\ n \in Nat /\ at = g.off + 1 /\ at < n
  <2>1. at \in Nat \ {0} /\ n \in Nat
    BY <1>1, <1>4
  <2>2. at # n
    <3>1. at = n => n <= MaxSlot
      BY <1>1, <1>3, <2>1
    <3>2. QED
      BY <1>1, <1>3, <1>4, <3>1 DEF NoMagic
  <2>3. QED
    BY <1>4, <2>1, <2>2
<1>6. Chain(Cur(cells), at, n)
  BY <1>4
<1>7. x = cells[at].cur
  OBVIOUS
<1> HIDE DEF at, h, k, x
<1>8. Heads(cells, at, n)
  BY <1>1, <1>5, <1>6, HeaderFound
<1>9. /\ k \in Nat /\ at + k + 1 <= n /\ Chain(Cur(cells), at + k + 1, n)
      /\ \A s \in at + 1..at + k : cells[s].cur.kind = "record" /\ cells[s].cur.nonce = x.nonce
  BY <1>3, <1>7, <1>8 DEF Heads
<1>10. x.orig \in 0..MaxPage /\ x.kind # "record"
  BY <1>1, <1>3 DEF Cells, HeaderCells, RecordCells, NoCell, Junk, IsMagic
<1>11. d = IF g.off = 0 THEN TruncateDb(x.orig) ELSE db
  BY <1>1, <1>5, <1>7 DEF AtHeaderDb, DbInPlay
<1>12. g.off = 0 => x = cells[1].cur
  BY <1>5, <1>7
<1>13. /\ Covered(cells, cells[1].cur, i, d, n)
       /\ Len(i) = 0 => \A p \in Pages : d[p].cur = NoPage
       /\ \A p \in 1..Len(i) : db[p].cur = i[p] => d[p].cur = i[p]
       /\ d[1].cur = NoPage => EmptyDb(d) \/ Cutting(h, l)
       /\ h.dbSize = cells[1].cur.orig
  <2>1. CASE g.off = 0
    <3> DEFINE y == TruncateDb(x.orig)
    <3>1. Covered(cells, x, i, db, n)
      BY <1>4, <1>12, <2>1
    <3>2. /\ Covered(cells, x, i, y, n)
          /\ Len(i) = 0 => \A p \in Pages : y[p].cur = NoPage
          /\ \A p \in 1..Len(i) : db[p].cur = i[p] => y[p].cur = i[p]
          /\ y[1].cur = NoPage => x.orig = 0
      BY <1>1, <1>10, <3>1, CoveredCut
    <3>3. d = y
      BY <1>11, <2>1
    <3> HIDE DEF y
    <3>4. d[1].cur = NoPage => Cutting(h, l)
      BY <1>1, <1>2, <2>1, <3>2, <3>3 DEF Cutting
    <3>5. QED
      BY <1>2, <1>12, <2>1, <3>2, <3>3, <3>4
  <2>2. CASE g.off # 0
    <3>1. d = db /\ h.dbSize = g.dbSize
      BY <1>2, <1>11, <2>2
    <3>2. Cutting(g, l) => Cutting(h, l)
      BY <1>2, <3>1 DEF Cutting
    <3>3. QED
      BY <1>1, <1>4, <2>2, <3>1, <3>2
  <2>3. QED
    BY <2>1, <2>2
<1>14. \A p \in 1..Len(i) : d[p].cur = i[p] \/ Recs(cells, p, h.off + 1, n - 1)
  <2> TAKE p \in 1..Len(i)
  <2>1. n - 1 \in Int /\ at \in Nat /\ cells[at].cur.kind # "record"
    BY <1>5, <1>7, <1>10
  <2>2. Recs(cells, p, at, n - 1) => Recs(cells, p, at + 1, n - 1)
    BY <2>1, RecsPast
  <2>3. db[p].cur = i[p] \/ Recs(cells, p, at, n - 1)
    BY <1>4, <1>5
  <2>4. QED
    BY <1>2, <1>13, <2>2, <2>3
<1>15. h.pc = "play" => h.off + 1 <= n /\ Chain(Cur(cells), h.off + 1, n)
  <2> SUFFICES ASSUME h.pc = "play"
               PROVE  h.off + 1 <= n /\ Chain(Cur(cells), h.off + 1, n)
    OBVIOUS
  <2>1. at + k + 1 = at + 1
    BY <1>2, <1>5
  <2>2. QED
    BY <1>2, <1>9, <2>1
<1>16. h.pc = "record" => InSegment(h, cells, n)
  <2> SUFFICES ASSUME h.pc = "record"
               PROVE  InSegment(h, cells, n)
    OBVIOUS
  <2>1. k > 0
    BY <1>2, <1>9
  <2>2. QED
    BY <1>2, <1>9, <2>1 DEF InSegment
<1>17. h.off # 0 /\ h.pc # "playend" /\ h.pc # "dbsync"
  BY <1>2, <1>5
<1>18. HotAt(h, i, d, cells, n)
  BY <1>4, <1>13, <1>14, <1>15, <1>16, <1>17 DEF HotAt
<1>19. QED
  BY <1>13, <1>18 DEF h

\* None is found any more.
LEMMA HotDone ==
  ASSUME NEW g, NEW l, NEW i, NEW b \in Nat, NEW cells, HotPlay(g, l, i, b, cells),
         g.pc = "play", ~FoundAt(g, cells)
  PROVE  HotK([g EXCEPT !.pc = "playend"], i, db, cells)
<1> DEFINE at == g.off + 1
           h == [g EXCEPT !.pc = "playend"]
<1>1. /\ IsPager(g) /\ g.off \in Nat /\ MaxSlot \in Nat \ {0}
      /\ cells = [s \in Slots |-> cells[s]] /\ JournalType(cells, b)
      /\ \A s \in Slots : IsStable(cells[s])
      /\ g.hdr = SlotsUsed(cells) + 1 /\ SlotsUsed(cells) \in 0..MaxSlot
      /\ IsMagic(cells[1].cur) => \E n : HotAt(g, i, db, cells, n)
      /\ ~IsMagic(cells[1].cur) => g.off = 0 /\ g.pc # "record" /\ Quiet(db, i)
  <2>1. HotBase(g, l, i, b, cells) /\ HotLog(g, i, cells)
    BY HotBaseHas, HotLogHas
  <2>2. QED
    BY <2>1 DEF HotBase, HotLog
<1>2. h.pc = "playend" /\ h.off = g.off /\ h.hdr = g.hdr /\ h.dbSize = g.dbSize
  BY <1>1 DEF IsPager, Fields
<1> HIDE DEF h
<1>3. CASE IsMagic(cells[1].cur)
  <2>1. PICK n : HotAt(g, i, db, cells, n)
    BY <1>1, <1>3
  <2>2. g.off + 1 <= n /\ Chain(Cur(cells), g.off + 1, n) /\ n \in 2..MaxSlot + 1
    BY <2>1 DEF HotAt, Covered
  <2>3. g.off = n - 1
    <3>1. CASE at < n
      <4>1. Heads(cells, at, n)
        BY <1>1, <2>2, <3>1, HeaderFound
      <4>2. QED
        BY <4>1 DEF Heads, FoundAt
    <3>2. QED
      BY <1>1, <2>2, <3>1
  <2>4. h.off # 0 /\ n \in Nat
    BY <1>1, <1>2, <2>2, <2>3
  <2>5. HotAt(h, i, db, cells, n)
    BY <1>2, <2>1, <2>3, <2>4 DEF HotAt
  <2>6. HotK(h, i, db, cells)
    BY <1>1, <1>2, <1>3, <2>5 DEF HotK
  <2>7. QED
    BY <2>6 DEF h
<1>4. CASE ~IsMagic(cells[1].cur)
  <2>1. HotK(h, i, db, cells)
    BY <1>1, <1>2, <1>4 DEF HotK
  <2>2. QED
    BY <2>1 DEF h
<1>5. QED
  BY <1>3, <1>4

\* readJournalHdr()
LEMMA PlayHeaderKept ==
  ASSUME IInv, NEW b \in Nat, TInv(b), NEW i, PInv(i), NEW c \in Conns, PlayHeader(c)
  PROVE  PInv(i)'
<1> DEFINE g == pager[c]
           l == lock[c]
           cells == journal[g.jfd]
<1>1. g.pc = "play"
  BY DEF PlayHeader
<1>2. CASE g.hot = FALSE
  BY <1>2, OwnHeaderKept
<1>3. CASE g.hot # FALSE
  <2>1. HotPlay(g, l, i, b, cells)
    BY <1>1, <1>3, PlaybackHas
  <2>2. /\ IsPager(g) /\ g.off \in 0..MaxSlot /\ cells = [s \in Slots |-> cells[s]]
        /\ g.hot = TRUE /\ g.commit = FALSE /\ g.eState = "open"
        /\ IsMagic(cells[1].cur) => \E n : HotAt(g, i, db, cells, n)
        /\ ~IsMagic(cells[1].cur) => g.off = 0 /\ g.pc # "record" /\ Quiet(db, i)
    <3>1. DataType(g, b)
      BY <2>1 DEF HotPlay, Playback
    <3>2. g.off \in 0..MaxSlot
      BY <3>1 DEF DataType
    <3>3. HotBase(g, l, i, b, cells) /\ HotLog(g, i, cells)
      BY <2>1, HotBaseHas, HotLogHas
    <3> HIDE DEF g, l, cells
    <3>4. QED
      BY <3>2, <3>3 DEF HotBase, HotLog
  <2>3. /\ UNCHANGED lockVars /\ UNCHANGED <<mode, journal, dirent>>
        /\ ~FoundAt(g, cells) => db' = db /\ Goto(c, "playend")
        /\ FoundAt(g, cells) => /\ db' = AtHeaderDb(g, cells) /\ Set(c, AtHeader(g, cells))
                                /\ g.off + 1 \in Slots
    BY <2>2, PlayHeaderIs
  <2>4. CASE ~FoundAt(g, cells)
    <3> DEFINE h == [g EXCEPT !.pc = "playend"]
    <3>1. HotK(h, i, db, cells)
      BY <1>1, <2>1, <2>4, HotDone
    <3>2. HotMoves(g, h) /\ h.dbSize = g.dbSize
      BY <2>2 DEF HotMoves, IsPager, Fields
    <3>3. Set(c, h) /\ UNCHANGED <<mode, db, journal, dirent>>
      BY <2>3, <2>4 DEF Goto
    <3> HIDE DEF h
    <3>4. QED
      BY <2>1, <2>3, <3>1, <3>2, <3>3, ColdMoves
  <2>5. CASE FoundAt(g, cells)
    <3> DEFINE h == AtHeader(g, cells)
    <3>1. IsMagic(cells[1].cur)
      <4>1. CASE ~IsMagic(cells[1].cur)
        <5>1. g.off = 0
          BY <2>2, <4>1
        <5>2. IsMagic(cells[g.off + 1].cur)
          BY <2>2, <2>5 DEF FoundAt, OwnHeader
        <5>3. g.off + 1 = 1
          BY <5>1
        <5>4. QED
          BY <4>1, <5>2, <5>3
      <4>2. QED
        BY <4>1
    <3>2. PICK n : HotAt(g, i, db, cells, n)
      BY <2>2, <3>1
    <3>3. db' = AtHeaderDb(g, cells) /\ g.off + 1 \in Slots /\ Set(c, h)
      BY <2>3, <2>5
    <3>4. /\ HotAt(h, i, db', cells, n)
          /\ db'[1].cur = NoPage => EmptyDb(db') \/ Cutting(h, l)
      BY <1>1, <2>1, <2>5, <3>2, <3>3, HotHeaderPlayed
    <3>5. HotMoves(g, h)
      <4>1. /\ h.pc = "play" \/ h.pc = "record"
            /\ h.hot = g.hot /\ h.jfd = g.jfd /\ h.commit = g.commit /\ h.cache = g.cache
            /\ h.vers = g.vers /\ SameJournal(g, h)
        BY <2>2, AtHeaderIs
      <4> HIDE DEF h
      <4>2. QED
        BY <2>2, <4>1 DEF HotMoves, SameJournal
    <3> HIDE DEF h
    <3>6. QED
      BY <2>1, <2>3, <3>1, <3>3, <3>4, <3>5, HotGoes
  <2>6. QED
    BY <2>4, <2>5
<1>4. QED
  BY <1>2, <1>3

\* pager_playback_one_page(), in the terms of the journal.
SlotAt(g, cells) == IF g.off + 1 > MaxSlot THEN NoCell ELSE cells[g.off + 1].cur
Passed(g) ==
  [g EXCEPT !.cache = IF g.hot THEN NoCache ELSE @, !.off = g.off + 1,
            !.left = @ - 1, !.pc = IF g.left = 1 THEN "play" ELSE "record"]
PutBack(g, x) ==
  IF Passed(g).cache[x.pgno] = NoPage THEN Passed(g)
  ELSE [Passed(g) EXCEPT !.cache[x.pgno] = x.data,
                         !.vers = IF x.pgno = 1 THEN Version(x.data) ELSE @]
PutBackDb(g, x) ==
  IF DbInPlay(g) /\ g.off + 1 < g.hdr THEN WriteDb(x.pgno, x.data) ELSE db

\* A record is played back, is passed over, or is the end.
LEMMA PlayRecordIs ==
  ASSUME NEW c \in Conns, PlayRecord(c), pager[c].off \in 0..MaxSlot,
         journal[pager[c].jfd] = [s \in Slots |-> journal[pager[c].jfd][s]]
  PROVE  LET g == pager[c]
             x == SlotAt(g, journal[g.jfd])
         IN /\ g.pc = "record" /\ UNCHANGED lockVars /\ UNCHANGED <<mode, journal, dirent>>
            /\ Restores(g, x) => db' = PutBackDb(g, x) /\ Set(c, PutBack(g, x))
            /\ ~Restores(g, x) /\ Skips(g, x) => db' = db /\ Set(c, Passed(g))
            /\ ~Restores(g, x) /\ ~Skips(g, x) => db' = db /\ Goto(c, "playend")
<1> DEFINE g == pager[c]
           j == journal[g.jfd]
           at == g.off + 1
           x == IF at > MaxSlot THEN NoCell ELSE Cur(j)[at]
           y == SlotAt(g, j)
<1>1. x = y
  <2>1. g.off \in Nat /\ MaxSlot \in Nat
    BY Bounds
  <2>2. ~(at > MaxSlot) => at \in Slots
    BY <2>1 DEF Slots
  <2>3. \A s \in Slots : Cur(j)[s] = j[s].cur
    BY DEF Cur
  <2>4. QED
    BY <2>2, <2>3 DEF SlotAt
<1>2. /\ g.pc = "record" /\ UNCHANGED <<mode, journal, dirent>> /\ UNCHANGED lockVars
      /\ Restores(g, x) => db' = PutBackDb(g, x) /\ Set(c, PutBack(g, x))
      /\ ~Restores(g, x) /\ Skips(g, x) => db' = db /\ Set(c, Passed(g))
      /\ ~Restores(g, x) /\ ~Skips(g, x) => db' = db /\ Goto(c, "playend")
  BY DEF PlayRecord, lockVars, PutBack, PutBackDb, Passed, Goto
<1> HIDE DEF x, y, g, j
<1>3. QED
  BY <1>1, <1>2 DEF y, g, j

\* The pager when the record is passed.
LEMMA PassedIs ==
  ASSUME NEW g, IsPager(g)
  PROVE  LET h == Passed(g)
         IN /\ IsPager(h) /\ h.off = g.off + 1 /\ h.left = g.left - 1
            /\ h.pc = (IF g.left = 1 THEN "play" ELSE "record")
            /\ h.cache = (IF g.hot THEN NoCache ELSE g.cache)
            /\ h.hot = g.hot /\ h.jfd = g.jfd /\ h.commit = g.commit /\ h.vers = g.vers
            /\ h.dbSize = g.dbSize /\ h.nonce = g.nonce /\ SameJournal(g, h)
BY DEF IsPager, Passed, Fields, SameJournal

\* The pager when a page was restored, field by field.
LEMMA PutBackIs ==
  ASSUME NEW g, IsPager(g), g.cache \in [Pages -> OnDisk], NEW x, x.pgno \in Pages
  PROVE  LET h == PutBack(g, x)
             cache == IF g.hot THEN NoCache ELSE g.cache
         IN /\ IsPager(h) /\ h.off = g.off + 1 /\ h.left = g.left - 1
            /\ h.pc = (IF g.left = 1 THEN "play" ELSE "record")
            /\ h.hot = g.hot /\ h.jfd = g.jfd /\ h.commit = g.commit
            /\ h.dbSize = g.dbSize /\ h.nonce = g.nonce /\ SameJournal(g, h)
            /\ \A q \in Pages : h.cache[q] = IF q = x.pgno /\ cache[q] # NoPage THEN x.data ELSE cache[q]
            /\ h.vers = (IF x.pgno = 1 /\ cache[1] # NoPage THEN Version(x.data) ELSE g.vers)
            /\ g.hot => h.cache = NoCache /\ h.vers = g.vers
<1> DEFINE m == Passed(g)
           p == x.pgno
           cache == IF g.hot THEN NoCache ELSE g.cache
           k == [m EXCEPT !.cache[p] = x.data, !.vers = IF p = 1 THEN Version(x.data) ELSE @]
           h == PutBack(g, x)
<1>1. /\ IsPager(m) /\ m.off = g.off + 1 /\ m.left = g.left - 1
      /\ m.pc = (IF g.left = 1 THEN "play" ELSE "record")
      /\ m.cache = cache
      /\ m.hot = g.hot /\ m.jfd = g.jfd /\ m.commit = g.commit /\ m.vers = g.vers
      /\ m.dbSize = g.dbSize /\ m.nonce = g.nonce /\ SameJournal(g, m)
  BY PassedIs
<1>2. h = IF m.cache[p] = NoPage THEN m ELSE k
  BY DEF PutBack
<1>3. cache = [q \in Pages |-> cache[q]]
  BY DEF NoCache
<1>4. g.hot => \A q \in Pages : cache[q] = NoPage
  BY DEF NoCache
<1>5. p \in Pages
  OBVIOUS
<1> HIDE DEF m, h, p, cache
<1>6. /\ IsPager(k) /\ k.cache = [m.cache EXCEPT ![p] = x.data]
      /\ k.vers = (IF p = 1 THEN Version(x.data) ELSE m.vers)
      /\ \A f \in Fields \ {"cache", "vers"} : k[f] = m[f]
  BY <1>1 DEF IsPager, Fields
<1>7. /\ k.off = m.off /\ k.left = m.left /\ k.pc = m.pc /\ k.hot = m.hot /\ k.jfd = m.jfd
      /\ k.commit = m.commit /\ k.dbSize = m.dbSize /\ k.nonce = m.nonce
      /\ k.eState = m.eState /\ k.orig = m.orig /\ k.hdr = m.hdr /\ k.header = m.header
      /\ k.nRec = m.nRec
  BY <1>6 DEF Fields
<1> HIDE DEF k
<1>8. CASE m.cache[p] = NoPage
  <2>1. h = m /\ cache[p] = NoPage
    BY <1>1, <1>2, <1>8
  <2>2. g.hot => cache = NoCache
    BY DEF cache
  <2>3. p = 1 => cache[1] = NoPage
    BY <2>1
  <2>4. QED
    BY <1>1, <2>1, <2>2, <2>3 DEF h, p, cache
<1>9. CASE m.cache[p] # NoPage
  <2>1. h = k /\ cache[p] # NoPage
    BY <1>1, <1>2, <1>9
  <2>2. ~g.hot
    BY <1>4, <1>5, <2>1
  <2>3. SameJournal(g, h)
    BY <1>1, <1>7, <2>1 DEF SameJournal
  <2>4. \A q \in Pages : h.cache[q] = IF q = p /\ cache[q] # NoPage THEN x.data ELSE cache[q]
    BY <1>1, <1>3, <1>6, <2>1
  <2>5. h.vers = (IF p = 1 /\ cache[1] # NoPage THEN Version(x.data) ELSE g.vers)
    BY <1>1, <1>6, <2>1
  <2>6. QED
    BY <1>1, <1>6, <1>7, <2>1, <2>2, <2>3, <2>4, <2>5 DEF h, p, cache
<1>10. QED
  BY <1>8, <1>9

\* In a segment a record follows, of a page of the image or beyond its end.
RecordAt(g, i, cells, n) ==
  LET x == SlotAt(g, cells)
  IN /\ g.off + 1 \in Slots /\ g.off + 1 < n /\ x = cells[g.off + 1].cur
     /\ x.kind = "record" /\ x.pgno \in Pages /\ x.data # NoPage
     /\ x.pgno <= Len(i) => x.data = i[x.pgno]
     /\ Restores(g, x) /\ Recs(cells, x.pgno, 2, n - 1) /\ Len(i) # 0

\* A segment that is not at its end has a record there.
LEMMA SegmentRecord ==
  ASSUME NEW b \in Nat, NEW cells, \A s \in Slots : cells[s].cur \in Cells(b),
         NEW i, IsImage(i), NEW d, NEW n, Covered(cells, cells[1].cur, i, d, n),
         NEW g, g.off \in Nat \ {0}, InSegment(g, cells, n), g.dbSize = cells[1].cur.orig
  PROVE  RecordAt(g, i, cells, n)
<1> DEFINE at == g.off + 1
           x == cells[at].cur
           p == x.pgno
           orig == cells[1].cur.orig
<1>1. MaxSlot \in Nat \ {0} /\ Len(i) \in Nat
  BY ImageIs, Bounds
<1>2. n \in 2..MaxSlot + 1
  BY DEF Covered
<1>3. /\ g.left \in Nat \ {0} /\ g.off + g.left + 1 <= n
      /\ \A s \in g.off + 1..g.off + g.left :
           cells[s].cur.kind = "record" /\ cells[s].cur.nonce = g.nonce
  BY DEF InSegment
<1>4. at \in Nat /\ at >= 2 /\ at < n /\ at <= MaxSlot /\ at \in g.off + 1..g.off + g.left
  BY <1>1, <1>2, <1>3
<1>5. at \in Slots /\ at \in 2..n - 1
  BY <1>1, <1>2, <1>4 DEF Slots
<1>6. x.kind = "record" /\ x.nonce = g.nonce
  BY <1>3, <1>4
<1>7. Good(x, i, orig)
  BY <1>5 DEF Covered
<1>8. x \in Cells(b)
  BY <1>5
<1>9. SlotAt(g, cells) = x
  BY <1>1, <1>4 DEF SlotAt
<1>10. Recs(cells, p, 2, n - 1)
  BY <1>5, <1>6 DEF Recs
<1>11. Len(i) = 0 => orig = 0
  BY DEF Covered
<1> HIDE DEF x, orig
<1>12. x \in RecordCells(b)
  BY <1>6, <1>8 DEF Cells, HeaderCells, RecordCells, NoCell, Junk
<1>13. p \in Pages /\ x.data # NoPage /\ p \in Nat
  BY <1>12 DEF RecordCells, Pages
<1>14. p \in 1..orig /\ (p <= Len(i) => x.data = i[p])
  BY <1>6, <1>7 DEF Good
<1>15. orig # 0
  BY <1>13, <1>14
<1>16. g.dbSize = orig
  BY DEF orig
<1>17. Restores(g, x)
  <2>1. p <= g.dbSize
    BY <1>14, <1>16
  <2>2. QED
    BY <1>6, <2>1 DEF Restores
<1>18. x = cells[at].cur
  BY DEF x
<1>19. at \in Slots /\ at < n
  BY <1>4, <1>5
<1> HIDE DEF p, at
<1>20. QED
  BY <1>6, <1>9, <1>10, <1>11, <1>13, <1>14, <1>15, <1>17, <1>18, <1>19 DEF RecordAt, p, at

\* The place after the record.
LEMMA SegmentGoes ==
  ASSUME NEW cells, NEW n \in Nat, NEW g, g.off \in Nat, InSegment(g, cells, n),
         NEW h, h.off = g.off + 1, h.left = g.left - 1, h.nonce = g.nonce
  PROVE  /\ g.left = 1 => h.off + 1 <= n /\ Chain(Cur(cells), h.off + 1, n)
         /\ g.left # 1 => InSegment(h, cells, n)
<1>1. /\ g.left \in Nat \ {0} /\ g.off + g.left + 1 <= n
      /\ Chain(Cur(cells), g.off + g.left + 1, n)
      /\ \A s \in g.off + 1..g.off + g.left :
           cells[s].cur.kind = "record" /\ cells[s].cur.nonce = g.nonce
  BY DEF InSegment
<1>2. CASE g.left = 1
  <2>1. g.off + g.left + 1 = h.off + 1
    BY <1>1, <1>2
  <2>2. h.off + 1 <= n /\ Chain(Cur(cells), h.off + 1, n)
    BY <1>1, <2>1
  <2>3. QED
    BY <1>2, <2>2
<1>3. CASE g.left # 1
  <2>1. h.off + h.left = g.off + g.left /\ h.left \in Nat \ {0} /\ h.off \in Nat
    BY <1>1, <1>3
  <2>2. \A s \in h.off + 1..h.off + h.left : s \in g.off + 1..g.off + g.left
    BY <1>1, <2>1
  <2>3. h.off + h.left + 1 = g.off + g.left + 1
    BY <2>1
  <2>4. InSegment(h, cells, n)
    BY <1>1, <2>1, <2>2, <2>3 DEF InSegment
  <2>5. QED
    BY <1>3, <2>4
<1>4. QED
  BY <1>2, <1>3

\* A record of a hot journal is played back.
LEMMA HotRecordPlayed ==
  ASSUME NEW g, NEW l, NEW i, NEW b \in Nat, NEW cells, HotPlay(g, l, i, b, cells),
         g.pc = "record", NEW n, HotAt(g, i, db, cells, n),
         NEW h, h.off = g.off + 1, h.left = g.left - 1, h.nonce = g.nonce, h.dbSize = g.dbSize,
         h.pc = IF g.left = 1 THEN "play" ELSE "record",
         NEW d, d = PutBackDb(g, SlotAt(g, cells))
  PROVE  /\ RecordAt(g, i, cells, n) /\ HotAt(h, i, d, cells, n) /\ d[1].cur # NoPage
<1> DEFINE at == g.off + 1
           x == SlotAt(g, cells)
           y == WriteDb(x.pgno, x.data)
<1>1. HotBase(g, l, i, b, cells)
  BY HotBaseHas
<1>2. /\ Covered(cells, cells[1].cur, i, db, n) /\ NoMagic(cells, n)
      /\ InSegment(g, cells, n) /\ g.off # 0 /\ g.dbSize = cells[1].cur.orig
      /\ \A p \in 1..Len(i) : db[p].cur = i[p] \/ Recs(cells, p, g.off + 1, n - 1)
      /\ n \in 2..MaxSlot + 1
  BY DEF HotAt, Covered
<1>3. /\ g.off \in Nat /\ IsImage(i) /\ DbType(db) /\ MaxSlot \in Nat
      /\ \A s \in Slots : cells[s].cur \in Cells(b)
      /\ g.hdr = SlotsUsed(cells) + 1 /\ SlotsUsed(cells) \in Nat
      /\ \A s \in Slots : cells[s].cur.kind # "none" => s <= SlotsUsed(cells)
      /\ Len(i) \in Nat /\ g.eState = "open"
  BY <1>1 DEF HotBase
<1>4. RecordAt(g, i, cells, n)
  <2>1. g.off \in Nat \ {0}
    BY <1>2, <1>3
  <2>2. QED
    BY <1>2, <1>3, <2>1, SegmentRecord
<1>5. /\ at \in Slots /\ at < n /\ x = cells[at].cur
      /\ x.kind = "record" /\ x.pgno \in Pages /\ x.data # NoPage
      /\ x.pgno <= Len(i) => x.data = i[x.pgno]
      /\ Restores(g, x) /\ Recs(cells, x.pgno, 2, n - 1) /\ Len(i) # 0
  BY <1>4 DEF RecordAt
<1>6. at < g.hdr /\ at \in Nat /\ n \in Nat
  <2>1. at <= SlotsUsed(cells)
    BY <1>3, <1>5
  <2>2. QED
    BY <1>2, <1>3, <2>1
<1>7. d = y
  BY <1>3, <1>6 DEF PutBackDb, DbInPlay
<1>8. at = g.off + 1
  OBVIOUS
<1> HIDE DEF x, at
<1>9. Covered(cells, cells[1].cur, i, y, n)
  BY <1>2, <1>3, <1>5, CoveredWrite
<1>10. \A q \in 1..Len(i) : y[q].cur = i[q] \/ Recs(cells, q, at + 1, n - 1)
  <2>1. n - 1 \in Int /\ cells[at].cur.kind = "record" /\ cells[at].cur.pgno = x.pgno
    BY <1>5, <1>6
  <2>2. \A p \in 1..Len(i) : db[p].cur = i[p] \/ Recs(cells, p, at, n - 1)
    BY <1>2, <1>8
  <2>3. QED
    BY <1>3, <1>5, <1>6, <2>1, <2>2, PagesRestored
<1>11. y[1].cur # NoPage
  BY <1>5, WrittenFirst
<1>12. /\ h.pc = "play" => h.off + 1 <= n /\ Chain(Cur(cells), h.off + 1, n)
       /\ h.pc = "record" => InSegment(h, cells, n)
  BY <1>2, <1>3, <1>6, SegmentGoes
<1>13. h.off # 0 /\ h.off = at /\ h.pc # "playend" /\ h.pc # "dbsync"
  BY <1>3, <1>8
<1>14. HotAt(h, i, d, cells, n)
  BY <1>2, <1>5, <1>7, <1>9, <1>10, <1>12, <1>13 DEF HotAt
<1>15. QED
  BY <1>4, <1>7, <1>11, <1>14

\* A page is restored in the cache, if it is there.
BackInCache(g, i, cells, h) ==
  /\ \A q \in 1..Len(i) :
       (h.cache[q] # NoPage => h.cache[q] = i[q]) \/ Recs(cells, q, g.off + 2, End(g))
  /\ Len(i) # 0 => h.cache[1] # NoPage /\ (h.vers = i[1] \/ Recs(cells, 1, g.off + 2, End(g)))

\* A record puts back a page of the cache.
LEMMA CacheBack ==
  ASSUME NEW g, NEW l, NEW i, NEW b \in Nat, NEW cells, OwnPlay(g, l, i, b, cells),
         NEW x, x = cells[g.off + 1].cur, x.kind = "record", x.pgno \in Pages,
         x.data # NoPage, x.pgno <= Len(i) => x.data = i[x.pgno]
  PROVE  BackInCache(g, i, cells, PutBack(g, x))
<1> DEFINE h == PutBack(g, x)
           at == g.off + 1
           p == x.pgno
<1>1. /\ g.off \in Nat /\ End(g) \in Nat /\ Len(i) \in Nat
  BY OwnPlaces
<1>2. /\ IsPager(g) /\ IsImage(i) /\ PlayK(g, i, db, cells) /\ g.hot = FALSE /\ DataType(g, b)
  BY DEF OwnPlay, Playback
<1>3. g.cache \in [Pages -> OnDisk]
  BY <1>2 DEF DataType
<1>4. /\ \A q \in Pages : h.cache[q] = IF q = p /\ g.cache[q] # NoPage THEN x.data ELSE g.cache[q]
      /\ h.vers = (IF p = 1 /\ g.cache[1] # NoPage THEN Version(x.data) ELSE g.vers)
  BY <1>2, <1>3, PutBackIs
<1>5. /\ at \in Nat /\ End(g) \in Int /\ g.off + 2 = at + 1 /\ cells[at].cur = x
  BY <1>1
<1> HIDE DEF h, at, p
<1>6. \A q \in Pages : q # p =>
        (Recs(cells, q, at, End(g)) => Recs(cells, q, at + 1, End(g)))
  BY <1>5, RecsPast DEF p
<1>7. /\ \A q \in 1..Len(i) : (g.cache[q] # NoPage => g.cache[q] = i[q]) \/ Recs(cells, q, at, End(g))
      /\ Len(i) # 0 => g.cache[1] # NoPage /\ (g.vers = i[1] \/ Recs(cells, 1, at, End(g)))
  BY <1>2 DEF PlayK, at
<1>8. \A q \in 1..Len(i) : q \in Pages
  BY <1>2, ImageIs
<1>9. ASSUME NEW q \in 1..Len(i)
      PROVE  (h.cache[q] # NoPage => h.cache[q] = i[q]) \/ Recs(cells, q, at + 1, End(g))
  <2>1. q \in Pages
    BY <1>8
  <2>2. CASE q = p
    <3>1. x.data = i[q]
      BY <1>1, <2>2 DEF p
    <3>2. h.cache[q] = NoPage \/ h.cache[q] = x.data
      BY <1>4, <2>1, <2>2
    <3>3. QED
      BY <3>1, <3>2
  <2>3. CASE q # p
    BY <1>4, <1>6, <1>7, <2>1, <2>3
  <2>4. QED
    BY <2>2, <2>3
<1>10. ASSUME Len(i) # 0
       PROVE  h.cache[1] # NoPage /\ (h.vers = i[1] \/ Recs(cells, 1, at + 1, End(g)))
  <2>1. /\ 1 \in 1..Len(i) /\ 1 \in Pages /\ Version(i[1]) = i[1]
    BY <1>2, <1>10, FirstIs
  <2>2. g.cache[1] # NoPage
    BY <1>7, <1>10
  <2>3. CASE p = 1
    <3>1. x.data = i[1]
      BY <1>1, <2>1, <2>3 DEF p
    <3>2. QED
      BY <1>4, <2>1, <2>2, <2>3, <3>1
  <2>4. CASE p # 1
    BY <1>4, <1>6, <1>7, <1>10, <2>1, <2>2, <2>4
  <2>5. QED
    BY <2>3, <2>4
<1>11. QED
  BY <1>5, <1>9, <1>10 DEF BackInCache, h

\* A record of a segment that is complete is played back: the page is put
\* back in the file too.
RecordPassed(g, i, cells, h, d) ==
  /\ PlayK(h, i, d, cells)
  /\ g.eState = "cachemod" => d = db
  /\ g.eState = "dbmod" => Covered(cells, cells[1].cur, i, d, g.hdr) /\ (d = db \/ d[1].cur # NoPage)

\* A record of its own transaction is played back.
LEMMA OwnRecordBack ==
  ASSUME NEW g, NEW l, NEW i, NEW b \in Nat, NEW cells, OwnPlay(g, l, i, b, cells),
         g.pc = "record", InSegment(g, cells, g.hdr)
  PROVE  /\ Restores(g, SlotAt(g, cells)) /\ SlotAt(g, cells).pgno \in Pages
         /\ RecordPassed(g, i, cells, PutBack(g, SlotAt(g, cells)), PutBackDb(g, SlotAt(g, cells)))
<1> DEFINE at == g.off + 1
           x == SlotAt(g, cells)
           y == WriteDb(x.pgno, x.data)
           h == PutBack(g, x)
           d == PutBackDb(g, x)
<1>1. /\ g.off \in Nat /\ End(g) \in Nat /\ Len(i) \in Nat /\ g.hdr \in Nat \ {0} /\ g.hdr <= MaxSlot + 1
      /\ MaxSlot \in Nat
  BY OwnPlaces
<1>2. /\ IsPager(g) /\ IsImage(i) /\ PlayK(g, i, db, cells) /\ LogK(g, i, db, cells) /\ g.hot = FALSE
      /\ DataType(g, b) /\ DbType(db)
      /\ \A s \in Slots : cells[s].cur \in Cells(b)
      /\ g.eState = "cachemod" \/ g.eState = "dbmod"
  BY DEF OwnPlay, Playback
<1>3. g.off # 0 /\ g.dbSize = g.orig
  BY <1>2 DEF PlayK, PlaceK
<1>4. g.eState = "dbmod"
  <2>1. g.left \in Nat \ {0} /\ g.off + g.left + 1 <= g.hdr
    BY DEF InSegment
  <2>2. g.hdr # 1
    BY <1>1, <1>3, <2>1
  <2>3. QED
    BY <1>2, <2>2 DEF LogK
<1>5. Covered(cells, cells[1].cur, i, db, g.hdr) /\ g.dbSize = cells[1].cur.orig
  BY <1>2, <1>3, <1>4 DEF LogK
<1>6. RecordAt(g, i, cells, g.hdr)
  <2>1. g.off \in Nat \ {0}
    BY <1>1, <1>3
  <2>2. QED
    BY <1>2, <1>5, <2>1, SegmentRecord
<1>7. /\ at \in Slots /\ at < g.hdr /\ x = cells[at].cur
      /\ x.kind = "record" /\ x.pgno \in Pages /\ x.data # NoPage
      /\ x.pgno <= Len(i) => x.data = i[x.pgno]
      /\ Restores(g, x) /\ Recs(cells, x.pgno, 2, g.hdr - 1) /\ Len(i) # 0
  BY <1>6 DEF RecordAt
<1>8. d = y
  BY <1>4, <1>7 DEF PutBackDb, DbInPlay
<1>9. BackInCache(g, i, cells, h)
  <2>1. x = cells[g.off + 1].cur
    BY <1>7
  <2> HIDE DEF x
  <2>2. QED
    BY <1>7, <2>1, CacheBack
<1>10. g.cache \in [Pages -> OnDisk]
  BY <1>2 DEF DataType
<1> HIDE DEF x
<1>11. /\ h.off = g.off + 1 /\ h.left = g.left - 1
       /\ h.pc = (IF g.left = 1 THEN "play" ELSE "record")
       /\ h.dbSize = g.dbSize /\ h.nonce = g.nonce
       /\ h.orig = g.orig /\ h.hdr = g.hdr /\ End(h) = End(g)
  BY <1>2, <1>7, <1>10, PutBackIs DEF SameJournal, End
<1>12. at = g.off + 1 /\ at \in Nat /\ g.hdr - 1 \in Int /\ g.hdr \in Nat /\ g.off + 2 = at + 1
  BY <1>1
<1> HIDE DEF at, h, d
<1>13. Covered(cells, cells[1].cur, i, y, g.hdr)
  BY <1>2, <1>5, <1>7, CoveredWrite
<1>14. \A q \in 1..Len(i) : y[q].cur = i[q] \/ Recs(cells, q, at + 1, g.hdr - 1)
  <2>1. cells[at].cur.kind = "record" /\ cells[at].cur.pgno = x.pgno
    BY <1>7
  <2>2. \A p \in 1..Len(i) : db[p].cur = i[p] \/ Recs(cells, p, at, g.hdr - 1)
    BY <1>2, <1>12 DEF PlayK
  <2>3. QED
    BY <1>2, <1>7, <1>12, <2>1, <2>2, PagesRestored
<1>15. y[1].cur # NoPage
  BY <1>7, WrittenFirst
<1>16. PlaceK(h, cells)
  <2>1. /\ g.left = 1 => h.off + 1 <= g.hdr /\ Chain(Cur(cells), h.off + 1, g.hdr)
        /\ g.left # 1 => InSegment(h, cells, g.hdr)
    BY <1>1, <1>11, <1>12, SegmentGoes
  <2>2. h.off # 0
    BY <1>1, <1>11
  <2>3. QED
    BY <1>11, <2>1, <2>2 DEF PlaceK
<1>17. PlayK(h, i, d, cells)
  <2>1. h.off + 1 = at + 1
    BY <1>11, <1>12
  <2>2. \A q \in 1..Len(i) :
          /\ (h.cache[q] # NoPage => h.cache[q] = i[q]) \/ Recs(cells, q, h.off + 1, End(h))
          /\ d[q].cur = i[q] \/ Recs(cells, q, h.off + 1, h.hdr - 1)
    BY <1>8, <1>9, <1>11, <1>12, <1>14, <2>1 DEF BackInCache
  <2>3. Len(i) # 0 => h.cache[1] # NoPage /\ (h.vers = i[1] \/ Recs(cells, 1, h.off + 1, End(h)))
    BY <1>9, <1>11, <1>12, <2>1 DEF BackInCache
  <2>4. QED
    BY <1>3, <1>7, <1>11, <1>16, <2>2, <2>3 DEF PlayK
<1>18. RecordPassed(g, i, cells, h, d)
  BY <1>4, <1>8, <1>13, <1>15, <1>17 DEF RecordPassed
<1>19. QED
  BY <1>7, <1>18 DEF h, d, x

\* In the last segment, which the file does not need.
InLast(g, cells) ==
  /\ g.header /\ g.hdr <= g.off /\ g.left \in Nat \ {0}
  /\ g.nonce = cells[g.hdr].cur.nonce
  /\ g.off + g.left = IF cells[g.hdr].cur.nRec = 0 THEN SlotsUsed(cells) ELSE End(g)

\* The place after the record.
LEMMA LastGoes ==
  ASSUME NEW g, NEW l, NEW i, NEW b \in Nat, NEW cells, OwnPlay(g, l, i, b, cells),
         InLast(g, cells),
         NEW h, h.off = g.off + 1, h.left = g.left - 1, h.nonce = g.nonce, SameJournal(g, h),
         h.pc = IF g.left = 1 THEN "play" ELSE "record"
  PROVE  PlaceK(h, cells)
<1>1. /\ g.off \in Nat /\ End(g) \in Nat /\ MaxSlot \in Nat /\ g.hdr \in Nat \ {0} /\ g.nRec \in Nat
      /\ End(g) <= MaxSlot
      /\ End(g) = (IF g.header THEN g.hdr + g.nRec ELSE g.hdr - 1)
      /\ SlotsUsed(cells) \in 0..MaxSlot
      /\ \A s \in Slots : cells[s].cur.kind # "none" => s <= SlotsUsed(cells)
  BY OwnPlaces
<1>2. /\ g.header /\ g.hdr <= g.off /\ g.left \in Nat \ {0}
      /\ g.nonce = cells[g.hdr].cur.nonce
      /\ g.off + g.left = IF cells[g.hdr].cur.nRec = 0 THEN SlotsUsed(cells) ELSE End(g)
  BY DEF InLast
<1>3. OpenSegment(g, i, cells)
  BY <1>2 DEF OwnPlay, LogK
<1>4. h.hdr = g.hdr /\ h.header = g.header /\ End(h) = End(g)
  BY DEF SameJournal, End
<1>5. End(g) <= SlotsUsed(cells)
  <2>1. End(g) \in Slots /\ g.hdr \in Slots
    BY <1>1, <1>2 DEF Slots
  <2>2. cells[End(g)].cur.kind # "none"
    <3>1. CASE End(g) = g.hdr
      BY <1>3, <3>1 DEF OpenSegment
    <3>2. CASE End(g) # g.hdr
      <4>1. End(g) \in g.hdr + 1..End(g)
        BY <1>1, <1>2, <3>2
      <4>2. QED
        BY <1>3, <4>1 DEF OpenSegment
    <3>3. QED
      BY <3>1, <3>2
  <2>3. QED
    BY <1>1, <2>1, <2>2
<1>6. h.off # 0 /\ h.hdr < h.off
  BY <1>1, <1>2, <1>4
<1>7. CASE g.left = 1
  <2>1. h.off = IF cells[g.hdr].cur.nRec = 0 THEN SlotsUsed(cells) ELSE End(g)
    BY <1>1, <1>2, <1>7
  <2>2. h.off >= End(h)
    BY <1>1, <1>4, <1>5, <2>1
  <2>3. h.off + 1 # h.hdr
    BY <1>1, <1>4, <1>6
  <2>4. h.off < SlotsUsed(cells) => ~IsMagic(cells[h.off + 1].cur)
    <3> SUFFICES ASSUME h.off < SlotsUsed(cells)
                 PROVE  ~IsMagic(cells[h.off + 1].cur)
      OBVIOUS
    <3>1. cells[g.hdr].cur.nRec # 0 /\ h.off = End(g) /\ End(g) < MaxSlot
      BY <1>1, <2>1
    <3>2. QED
      BY <1>3, <3>1 DEF OpenSegment
  <2>5. h.pc = "play" /\ h.pc # "record"
    BY <1>7
  <2>6. QED
    BY <1>6, <2>2, <2>3, <2>4, <2>5 DEF PlaceK
<1>8. CASE g.left # 1
  <2>1. h.off + h.left = g.off + g.left /\ h.left \in Nat \ {0}
    BY <1>1, <1>2, <1>8
  <2>2. h.pc = "record" /\ h.pc # "play" /\ h.hdr <= h.off
    BY <1>1, <1>2, <1>4, <1>8
  <2>3. h.off + h.left = IF cells[h.hdr].cur.nRec = 0 THEN SlotsUsed(cells) ELSE End(h)
    BY <1>2, <1>4, <2>1
  <2>4. h.header /\ h.nonce = cells[h.hdr].cur.nonce
    BY <1>2, <1>4
  <2>5. QED
    BY <1>6, <2>1, <2>2, <2>3, <2>4 DEF PlaceK
<1>9. QED
  BY <1>7, <1>8

\* What there is in the next slot.
LEMMA LastRecord ==
  ASSUME NEW g, NEW l, NEW i, NEW b \in Nat, NEW cells, OwnPlay(g, l, i, b, cells),
         InLast(g, cells), g.pc = "record"
  PROVE  LET x == SlotAt(g, cells)
         IN /\ g.off + 1 \in Slots /\ x = cells[g.off + 1].cur /\ ~(g.off + 1 < g.hdr)
            /\ g.off + 1 <= End(g) =>
                 /\ Restores(g, x) /\ x.pgno \in Pages /\ x.data # NoPage /\ x.kind = "record"
                 /\ x.pgno <= Len(i) => x.data = i[x.pgno]
            /\ g.off + 1 > End(g) => ~Restores(g, x) /\ g.off >= End(g)
<1> DEFINE at == g.off + 1
           x == cells[at].cur
           used == SlotsUsed(cells)
<1>1. /\ g.off \in Nat /\ End(g) \in Nat /\ MaxSlot \in Nat /\ g.hdr \in Nat \ {0} /\ g.nRec \in Nat
      /\ End(g) <= MaxSlot /\ used \in 0..MaxSlot
  BY OwnPlaces
<1>2. /\ g.header /\ g.hdr <= g.off /\ g.left \in Nat \ {0}
      /\ g.nonce = cells[g.hdr].cur.nonce
      /\ g.off + g.left = IF cells[g.hdr].cur.nRec = 0 THEN used ELSE End(g)
  BY DEF InLast
<1>3. OpenSegment(g, i, cells)
  BY <1>2 DEF OwnPlay, LogK
<1>4. at <= MaxSlot /\ at \in Nat /\ at >= g.hdr + 1 /\ ~(at < g.hdr)
  BY <1>1, <1>2
<1>5. at \in Slots
  BY <1>1, <1>4 DEF Slots
<1>6. SlotAt(g, cells) = x
  BY <1>1, <1>4 DEF SlotAt
<1>7. x \in Cells(b)
  BY <1>5 DEF OwnPlay, Playback
<1>8. g.off # 0 /\ g.dbSize = g.orig
  BY DEF OwnPlay, PlayK, PlaceK
<1>9. at = g.off + 1
  OBVIOUS
<1>10. ASSUME at <= End(g)
       PROVE  /\ Restores(g, x) /\ x.pgno \in Pages /\ x.data # NoPage /\ x.kind = "record"
              /\ x.pgno <= Len(i) => x.data = i[x.pgno]
  <2>1. at \in g.hdr + 1..End(g)
    BY <1>1, <1>4, <1>10
  <2>2. x.kind = "record" /\ x.nonce = g.nonce /\ Good(x, i, g.orig)
    BY <1>2, <1>3, <2>1 DEF OpenSegment
  <2> HIDE DEF x
  <2>3. x \in RecordCells(b)
    BY <1>7, <2>2 DEF Cells, HeaderCells, RecordCells, NoCell, Junk
  <2>4. x.pgno \in Pages /\ x.data # NoPage /\ x.pgno \in Nat
    BY <2>3 DEF RecordCells, Pages
  <2>5. x.pgno \in 1..g.orig /\ (x.pgno <= Len(i) => x.data = i[x.pgno])
    BY <2>2 DEF Good
  <2>6. x.pgno <= g.dbSize
    BY <1>8, <2>4, <2>5
  <2>7. QED
    BY <2>2, <2>4, <2>5, <2>6 DEF Restores
<1>11. ASSUME at > End(g)
       PROVE  ~Restores(g, x) /\ g.off >= End(g)
  <2>1. at \in End(g) + 1..MaxSlot
    BY <1>1, <1>4, <1>11
  <2>2. x.kind = "record" => x.nonce # g.nonce
    BY <1>2, <1>3, <2>1 DEF OpenSegment
  <2>3. g.off >= End(g)
    BY <1>1, <1>11
  <2>4. QED
    BY <2>2, <2>3 DEF Restores
<1> HIDE DEF x, at
<1>12. QED
  BY <1>4, <1>5, <1>6, <1>9, <1>10, <1>11 DEF x, at

\* Behind the synced part of the journal the file needs nothing of it.
LEMMA NothingSynced ==
  ASSUME NEW g, NEW l, NEW i, NEW b \in Nat, NEW cells, OwnPlay(g, l, i, b, cells),
         InLast(g, cells), g.pc = "record"
  PROVE  \A q \in 1..Len(i) : db[q].cur = i[q]
<1>1. /\ g.off \in Nat /\ g.hdr \in Nat \ {0} /\ g.hdr <= g.off
  <2>1. /\ g.off \in Nat /\ g.hdr \in Nat \ {0}
    BY OwnPlaces
  <2>2. QED
    BY <2>1 DEF InLast
<1>2. g.off + 1 \in Int /\ g.hdr - 1 \in Int /\ g.hdr - 1 < g.off + 1
  BY <1>1
<1>3. \A q : ~Recs(cells, q, g.off + 1, g.hdr - 1)
  BY <1>2, RecsNone
<1>4. PlayK(g, i, db, cells)
  BY DEF OwnPlay
<1>5. QED
  BY <1>3, <1>4 DEF PlayK

\* A record of the last segment is played back in the cache alone.
LEMMA OwnLastBack ==
  ASSUME NEW g, NEW l, NEW i, NEW b \in Nat, NEW cells, OwnPlay(g, l, i, b, cells),
         g.pc = "record", InLast(g, cells), Restores(g, SlotAt(g, cells))
  PROVE  /\ SlotAt(g, cells).pgno \in Pages
         /\ RecordPassed(g, i, cells, PutBack(g, SlotAt(g, cells)), PutBackDb(g, SlotAt(g, cells)))
<1> DEFINE x == SlotAt(g, cells)
           h == PutBack(g, x)
           d == PutBackDb(g, x)
<1>1. /\ g.off \in Nat /\ End(g) \in Nat /\ Len(i) \in Nat
  BY OwnPlaces
<1>2. /\ IsPager(g) /\ PlayK(g, i, db, cells) /\ LogK(g, i, db, cells) /\ g.hot = FALSE
      /\ DataType(g, b)
      /\ g.eState = "cachemod" \/ g.eState = "dbmod"
  BY DEF OwnPlay, Playback
<1>3. /\ x = cells[g.off + 1].cur /\ ~(g.off + 1 < g.hdr)
      /\ g.off + 1 <= End(g) =>
           /\ Restores(g, x) /\ x.pgno \in Pages /\ x.data # NoPage /\ x.kind = "record"
           /\ x.pgno <= Len(i) => x.data = i[x.pgno]
      /\ g.off + 1 > End(g) => ~Restores(g, x) /\ g.off >= End(g)
  BY LastRecord
<1>4. g.off + 1 <= End(g)
  BY <1>1, <1>3
<1>5. /\ x.pgno \in Pages /\ x.data # NoPage /\ x.kind = "record"
      /\ x.pgno <= Len(i) => x.data = i[x.pgno]
  BY <1>3, <1>4
<1>6. d = db
  BY <1>3 DEF PutBackDb
<1>7. g.cache \in [Pages -> OnDisk]
  BY <1>2 DEF DataType
<1>8. BackInCache(g, i, cells, h)
  <2>1. x = cells[g.off + 1].cur
    BY <1>3
  <2> HIDE DEF x
  <2>2. QED
    BY <1>5, <2>1, CacheBack
<1> HIDE DEF x
<1>9. /\ h.off = g.off + 1 /\ h.left = g.left - 1
      /\ h.pc = (IF g.left = 1 THEN "play" ELSE "record")
      /\ h.dbSize = g.dbSize /\ h.nonce = g.nonce /\ SameJournal(g, h)
  BY <1>2, <1>5, <1>7, PutBackIs
<1> HIDE DEF h, d
<1>10. h.eState = g.eState /\ h.orig = g.orig /\ h.hdr = g.hdr /\ End(h) = End(g)
  BY <1>9 DEF SameJournal, End
<1>11. PlaceK(h, cells)
  BY <1>9, LastGoes
<1>12. \A q \in 1..Len(i) : db[q].cur = i[q]
  BY NothingSynced
<1>13. h.off + 1 = g.off + 2
  BY <1>1, <1>9
<1>14. g.off # 0 /\ g.dbSize = g.orig
       /\ (Len(i) = 0 /\ g.eState = "dbmod" => \A p \in Pages : db[p].cur = NoPage)
  BY <1>2 DEF PlayK, PlaceK
<1>15. PlayK(h, i, d, cells)
  <2>1. \A q \in 1..Len(i) :
          /\ (h.cache[q] # NoPage => h.cache[q] = i[q]) \/ Recs(cells, q, h.off + 1, End(h))
          /\ d[q].cur = i[q] \/ Recs(cells, q, h.off + 1, h.hdr - 1)
    BY <1>6, <1>8, <1>10, <1>12, <1>13 DEF BackInCache
  <2>2. Len(i) # 0 => h.cache[1] # NoPage /\ (h.vers = i[1] \/ Recs(cells, 1, h.off + 1, End(h)))
    BY <1>8, <1>10, <1>13 DEF BackInCache
  <2>3. QED
    BY <1>6, <1>9, <1>10, <1>11, <1>14, <2>1, <2>2 DEF PlayK
<1>16. RecordPassed(g, i, cells, h, d)
  BY <1>2, <1>6, <1>15 DEF RecordPassed, LogK
<1>17. QED
  BY <1>5, <1>16 DEF h, d, x

\* What is no record of it is passed over.
LEMMA OwnLastPassed ==
  ASSUME NEW g, NEW l, NEW i, NEW b \in Nat, NEW cells, OwnPlay(g, l, i, b, cells),
         g.pc = "record", InLast(g, cells), ~Restores(g, SlotAt(g, cells))
  PROVE  UndoK(g, i, db) /\ RecordPassed(g, i, cells, Passed(g), db)
<1> DEFINE x == SlotAt(g, cells)
           h == Passed(g)
<1>1. /\ g.off \in Nat /\ End(g) \in Nat /\ Len(i) \in Nat
  BY OwnPlaces
<1>2. /\ IsPager(g) /\ PlayK(g, i, db, cells) /\ LogK(g, i, db, cells) /\ g.hot = FALSE
      /\ g.eState = "cachemod" \/ g.eState = "dbmod"
  BY DEF OwnPlay, Playback
<1>3. /\ g.off + 1 <= End(g) => Restores(g, x)
      /\ g.off + 1 > End(g) => ~Restores(g, x) /\ g.off >= End(g)
  BY LastRecord
<1>4. g.off >= End(g)
  BY <1>1, <1>3
<1>5. UndoK(g, i, db)
  BY <1>4, NothingLeft
<1>6. /\ h.off = g.off + 1 /\ h.left = g.left - 1
      /\ h.pc = (IF g.left = 1 THEN "play" ELSE "record") /\ h.cache = g.cache /\ h.vers = g.vers
      /\ h.dbSize = g.dbSize /\ h.nonce = g.nonce /\ SameJournal(g, h)
  BY <1>2, PassedIs
<1> HIDE DEF h
<1>7. h.eState = g.eState /\ h.orig = g.orig
  BY <1>6 DEF SameJournal
<1>8. PlaceK(h, cells)
  BY <1>6, LastGoes
<1>9. /\ \A q \in 1..Len(i) : db[q].cur = i[q]
      /\ \A q \in 1..Len(i) : g.cache[q] # NoPage => g.cache[q] = i[q]
      /\ Len(i) # 0 => g.cache[1] # NoPage /\ g.vers = i[1]
  <2>1. \A q \in 1..Len(i) : db[q].cur = i[q]
    BY NothingSynced
  <2>2. Agrees(g, i)
    BY <1>5 DEF UndoK
  <2>3. Len(i) # 0 => g.cache[1] # NoPage
    BY <1>2 DEF PlayK
  <2>4. QED
    BY <2>1, <2>2, <2>3 DEF Agrees, Coherent
<1>10. g.off # 0 /\ g.dbSize = g.orig
       /\ (Len(i) = 0 /\ g.eState = "dbmod" => \A p \in Pages : db[p].cur = NoPage)
  BY <1>2 DEF PlayK, PlaceK
<1>11. PlayK(h, i, db, cells)
  BY <1>6, <1>7, <1>8, <1>9, <1>10 DEF PlayK
<1>12. RecordPassed(g, i, cells, h, db)
  BY <1>2, <1>11 DEF RecordPassed, LogK
<1>13. QED
  BY <1>5, <1>12 DEF h

\* The rollback of its own transaction goes on.
LEMMA OwnRecordGoes ==
  ASSUME IInv, NEW b \in Nat, NEW i, PInv(i), NEW c \in Conns,
         OwnPlay(pager[c], lock[c], i, b, journal[pager[c].jfd]),
         NEW h, Set(c, h), UNCHANGED lockVars, UNCHANGED <<mode, journal, dirent>>,
         h.pc = "play" \/ h.pc = "record", h.hot = pager[c].hot, h.jfd = pager[c].jfd,
         h.commit = pager[c].commit, h.dbSize = pager[c].dbSize, SameJournal(pager[c], h),
         RecordPassed(pager[c], i, journal[pager[c].jfd], h, db')
  PROVE  PInv(i)'
<1> DEFINE g == pager[c]
           cells == journal[g.jfd]
<1>1. /\ g.hot = FALSE /\ g.commit = FALSE /\ (g.eState = "dbmod" => lock[c] = EXCLUSIVE_LOCK)
      /\ db[1].cur = NoPage => EmptyDb(db) \/ Cutting(g, lock[c])
  BY DEF OwnPlay, Playback
<1>2. /\ PlayK(h, i, db', cells)
      /\ g.eState = "cachemod" => db' = db
      /\ g.eState = "dbmod" => Covered(cells, cells[1].cur, i, db', g.hdr) /\ (db' = db \/ db'[1].cur # NoPage)
  BY DEF RecordPassed
<1>3. Cutting(g, lock[c]) => Cutting(h, lock[c])
  BY DEF Cutting
<1>4. g.eState = "dbmod" => /\ Covered(cells, cells[1].cur, i, db', g.hdr)
                            /\ db'[1].cur = NoPage => EmptyDb(db') \/ Cutting(h, lock[c])
  BY <1>1, <1>2, <1>3
<1>5. /\ h.hot = FALSE /\ h.commit = FALSE
      /\ g.eState = "cachemod" => db' = db
      /\ PlayK(h, i, db', cells)
  BY <1>1, <1>2
<1> HIDE DEF g, cells
<1>6. QED
  BY <1>4, <1>5, OwnGoes DEF g, cells

\* pager_playback_one_page(), of its own journal.
LEMMA OwnRecordKept ==
  ASSUME IInv, NEW b \in Nat, TInv(b), NEW i, PInv(i), NEW c \in Conns, PlayRecord(c),
         pager[c].hot = FALSE
  PROVE  PInv(i)'
<1> DEFINE g == pager[c]
           l == lock[c]
           cells == journal[g.jfd]
           x == SlotAt(g, cells)
<1>1. g.pc = "record"
  BY DEF PlayRecord
<1>2. OwnPlay(g, l, i, b, cells)
  BY <1>1, PlaybackHas
<1>3. /\ IsPager(g) /\ g.off \in 0..MaxSlot /\ cells = [s \in Slots |-> cells[s]]
      /\ g.cache \in [Pages -> OnDisk] /\ PlaceK(g, cells)
  BY <1>2 DEF OwnPlay, Playback, DataType, PlayK
<1>4. /\ UNCHANGED lockVars /\ UNCHANGED <<mode, journal, dirent>>
      /\ Restores(g, x) => db' = PutBackDb(g, x) /\ Set(c, PutBack(g, x))
      /\ ~Restores(g, x) /\ Skips(g, x) => db' = db /\ Set(c, Passed(g))
      /\ ~Restores(g, x) /\ ~Skips(g, x) => db' = db /\ Goto(c, "playend")
  BY <1>3, PlayRecordIs
<1>5. InSegment(g, cells, g.hdr) \/ InLast(g, cells)
  BY <1>1, <1>3 DEF PlaceK, InLast
<1>6. CASE Restores(g, x)
  <2> DEFINE h == PutBack(g, x)
  <2>1. x.pgno \in Pages /\ RecordPassed(g, i, cells, h, PutBackDb(g, x))
    <3>1. CASE InSegment(g, cells, g.hdr)
      BY <1>1, <1>2, <3>1, OwnRecordBack
    <3>2. CASE InLast(g, cells)
      BY <1>1, <1>2, <1>6, <3>2, OwnLastBack
    <3>3. QED
      BY <1>5, <3>1, <3>2
  <2>2. db' = PutBackDb(g, x) /\ Set(c, h)
    BY <1>4, <1>6
  <2>3. RecordPassed(g, i, cells, h, db')
    BY <2>1, <2>2
  <2> HIDE DEF x
  <2>4. /\ h.pc = "play" \/ h.pc = "record"
        /\ h.hot = g.hot /\ h.jfd = g.jfd /\ h.commit = g.commit /\ h.dbSize = g.dbSize
        /\ SameJournal(g, h)
    BY <1>3, <2>1, PutBackIs
  <2> HIDE DEF h
  <2>5. QED
    BY <1>2, <1>4, <2>2, <2>3, <2>4, OwnRecordGoes
<1>7. CASE ~Restores(g, x)
  <2>1. InLast(g, cells)
    <3>1. CASE InSegment(g, cells, g.hdr)
      BY <1>1, <1>2, <1>7, <3>1, OwnRecordBack
    <3>2. QED
      BY <1>5, <3>1
  <2>2. UndoK(g, i, db) /\ RecordPassed(g, i, cells, Passed(g), db)
    BY <1>1, <1>2, <1>7, <2>1, OwnLastPassed
  <2>3. CASE Skips(g, x)
    <3> DEFINE h == Passed(g)
    <3>1. db' = db /\ Set(c, h)
      BY <1>4, <1>7, <2>3
    <3>2. RecordPassed(g, i, cells, h, db')
      BY <2>2, <3>1
    <3>3. /\ h.pc = "play" \/ h.pc = "record"
          /\ h.hot = g.hot /\ h.jfd = g.jfd /\ h.commit = g.commit /\ h.dbSize = g.dbSize
          /\ SameJournal(g, h)
      BY <1>3, PassedIs
    <3> HIDE DEF h
    <3>4. QED
      BY <1>2, <1>4, <3>1, <3>2, <3>3, OwnRecordGoes
  <2>4. CASE ~Skips(g, x)
    <3>1. db' = db /\ Goto(c, "playend")
      BY <1>4, <1>7, <2>4
    <3>2. UNCHANGED <<mode, db, journal, dirent>>
      BY <1>4, <3>1
    <3>3. QED
      BY <1>2, <1>4, <2>2, <3>1, <3>2, OwnEnds
  <2>5. QED
    BY <2>3, <2>4
<1>8. QED
  BY <1>6, <1>7

\* pager_playback_one_page()
LEMMA PlayRecordKept ==
  ASSUME IInv, NEW b \in Nat, TInv(b), NEW i, PInv(i), NEW c \in Conns, PlayRecord(c)
  PROVE  PInv(i)'
<1> DEFINE g == pager[c]
           l == lock[c]
           cells == journal[g.jfd]
           x == SlotAt(g, cells)
           h == PutBack(g, x)
<1>1. g.pc = "record"
  BY DEF PlayRecord
<1>2. CASE g.hot = FALSE
  BY <1>2, OwnRecordKept
<1>3. CASE g.hot # FALSE
  <2>1. HotPlay(g, l, i, b, cells)
    BY <1>1, <1>3, PlaybackHas
  <2>2. /\ IsPager(g) /\ g.off \in 0..MaxSlot /\ cells = [s \in Slots |-> cells[s]]
        /\ g.cache \in [Pages -> OnDisk] /\ g.hot = TRUE /\ g.commit = FALSE /\ g.eState = "open"
    BY <2>1 DEF HotPlay, Playback, DataType
  <2>3. /\ UNCHANGED lockVars /\ UNCHANGED <<mode, journal, dirent>>
        /\ Restores(g, x) => db' = PutBackDb(g, x) /\ Set(c, h)
    BY <2>2, PlayRecordIs
  <2>4. HotLog(g, i, cells)
    BY <2>1, HotLogHas
  <2>5. IsMagic(cells[1].cur) /\ \E n : HotAt(g, i, db, cells, n)
    BY <1>1, <2>4 DEF HotLog
  <2>6. PICK n : HotAt(g, i, db, cells, n)
    BY <2>5
  <2>7. RecordAt(g, i, cells, n)
    <3> DEFINE k == Passed(g)
    <3>1. /\ k.off = g.off + 1 /\ k.left = g.left - 1 /\ k.nonce = g.nonce /\ k.dbSize = g.dbSize
          /\ k.pc = IF g.left = 1 THEN "play" ELSE "record"
      BY <2>2, PassedIs
    <3> HIDE DEF k
    <3>2. QED
      BY <1>1, <2>1, <2>6, <3>1, HotRecordPlayed
  <2>8. Restores(g, x) /\ x.pgno \in Pages
    BY <2>7 DEF RecordAt
  <2>9. /\ h.off = g.off + 1 /\ h.left = g.left - 1
        /\ h.pc = (IF g.left = 1 THEN "play" ELSE "record")
        /\ h.hot = g.hot /\ h.jfd = g.jfd /\ h.commit = g.commit
        /\ h.dbSize = g.dbSize /\ h.nonce = g.nonce /\ SameJournal(g, h)
        /\ g.hot => h.cache = NoCache /\ h.vers = g.vers
    <3> HIDE DEF x
    <3>1. QED
      BY <2>2, <2>8, PutBackIs
  <2>10. db' = PutBackDb(g, x) /\ Set(c, h)
    BY <2>3, <2>8
  <2> HIDE DEF h
  <2>11. HotAt(h, i, db', cells, n) /\ db'[1].cur # NoPage
    BY <1>1, <2>1, <2>6, <2>9, <2>10, HotRecordPlayed
  <2>12. HotMoves(g, h)
    BY <2>2, <2>9 DEF HotMoves, SameJournal
  <2>13. QED
    BY <2>1, <2>3, <2>5, <2>10, <2>11, <2>12, HotGoes
<1>4. QED
  BY <1>2, <1>3

-----------------------------------------------------------------------------
\* The end of a transaction

\* What a connection relies on that has finalized its journal, or is about to
\* conclude.
LEMMA EndingHas ==
  ASSUME NEW g, NEW l, PagerInv(g, l), g.pc = "finsync" \/ g.pc = "end",
         NEW i, NEW d, NEW j, NEW name, NEW m, ConnK(g, l, i, d, j, name, m)
  PROVE  Quiet(d, i) /\ Cold(d, j, name)
<1>1. TrustK(g, l, i, d, j, name)
  BY DEF ConnK
<1>2. \/ g.eState = "open" /\ g.hot
      \/ g.eState = "locked" \/ g.eState = "cachemod" \/ g.eState = "dbmod" \/ g.eState = "finished"
  <2>1. g.eState \in {"open", "locked", "cachemod", "dbmod", "finished"}
    BY DEF PagerInv, StateInv, ReadPcs, CommitPcs, PlayPcs
  <2>2. g.eState = "open" => g.hot
    BY DEF PagerInv, HotInv, PlayPcs
  <2>3. QED
    BY <2>1, <2>2
<1>3. Trusts(g, l) /\ Cools(g, l)
  BY <1>2 DEF Trusts, Cools
<1>4. QED
  BY <1>1, <1>3 DEF TrustK

\* The journal that it syncs has the name.
LEMMA FinSyncName ==
  ASSUME NEW g, NEW l, PagerInv(g, l), g.pc = "finsync",
         NEW i, NEW d, NEW j, NEW name, NEW m, ConnK(g, l, i, d, j, name, m)
  PROVE  name.cur = g.jfd /\ g.jfd # 0 /\ m # "delete"
<1>1. g.jfd # 0
  BY DEF PagerInv, JournalInv
<1>2. JfdK(g, i, name, m) /\ ReadK(g, i)
  BY DEF ConnK
<1>3. m # "delete"
  BY <1>2 DEF JfdK
<1>4. CASE g.eState = "locked"
  <2>1. g.dbSize > 0 /\ (g.dbSize = 0 <=> Len(i) = 0)
    BY <1>1, <1>2, <1>4 DEF JfdK, ReadK, Reads, Agrees
  <2>2. Len(i) # 0
    BY <2>1
  <2>3. QED
    BY <1>1, <1>2, <1>3, <1>4, <2>2 DEF JfdK
<1>5. CASE g.eState # "locked"
  <2>1. g.eState \in {"open", "cachemod", "dbmod", "finished"} /\ (g.eState = "open" => g.hot)
    BY <1>5 DEF PagerInv, StateInv, HotInv, ReadPcs, CommitPcs, PlayPcs
  <2>2. QED
    BY <1>1, <1>2, <1>3, <2>1 DEF JfdK
<1>6. QED
  BY <1>4, <1>5

\* The call goes on to its end.
EndsLike(g, h) ==
  /\ h.eState = g.eState /\ h.hot = g.hot /\ h.jfd = g.jfd
  /\ h.cache = g.cache /\ h.vers = g.vers /\ h.dbSize = g.dbSize /\ h.nPage = g.nPage
  /\ h.commit = g.commit /\ h.off = g.off

\* The connection when the end of the journal is on disk.
LEMMA FinSynced ==
  ASSUME NEW g, g.pc = "finsync", NEW h, h.pc = "end", EndsLike(g, h),
         NEW l, PagerInv(g, l), NEW i, NEW d, NEW j, NEW name, NEW m, ConnK(g, l, i, d, j, name, m),
         NEW k, NEW name2, name2.cur = g.jfd, name2.may = {g.jfd}, Cold(d, k, name2)
  PROVE  ConnK(h, l, i, d, k, name2, m)
<1>1. /\ h.eState = g.eState /\ h.hot = g.hot /\ h.jfd = g.jfd /\ h.pc = "end"
      /\ h.cache = g.cache /\ h.vers = g.vers /\ h.dbSize = g.dbSize /\ h.nPage = g.nPage
      /\ h.commit = g.commit /\ h.off = g.off
  BY DEF EndsLike
<1>2. Quiet(d, i)
  BY EndingHas
<1>3. CacheK(g, i) /\ ReadK(g, i) /\ JfdK(g, i, name, m) /\ OwnK(g, i, d, j[g.jfd], name, m)
      /\ m # "delete"
  BY FinSyncName DEF ConnK
<1>4. TrustK(h, l, i, d, k, name2)
  BY <1>1, <1>2 DEF TrustK
<1>5. CacheK(h, i)
  BY <1>1, <1>3 DEF CacheK, NothingCached, Coherent
<1>6. ReadK(h, i)
  BY <1>1, <1>3 DEF ReadK, Reads, Agrees, NothingCached, Coherent
<1>7. JfdK(h, i, name2, m)
  BY <1>1, <1>3 DEF JfdK
<1>8. OwnK(h, i, d, k[h.jfd], name2, m)
  <2>1. ~Active(h) /\ ~Playing(h)
    BY <1>1 DEF Active, Playing, LoggingPcs
  <2>2. Undoes(h) => Undoes(g)
    BY <1>1 DEF Undoes
  <2>3. UndoK(g, i, d) => UndoK(h, i, d)
    BY <1>1 DEF UndoK, Agrees, Coherent
  <2>4. QED
    BY <1>3, <2>1, <2>2, <2>3 DEF OwnK
<1>9. HotK(h, i, d, k[h.jfd])
  BY <1>1 DEF HotK
<1>10. QED
  BY <1>4, <1>5, <1>6, <1>7, <1>8, <1>9 DEF ConnK

\* The finalized journal is synced.
LEMMA FinSyncKept ==
  ASSUME IInv, NEW b \in Nat, TInv(b), NEW i, PInv(i), NEW c \in Conns, FinSync(c)
  PROVE  PInv(i)'
<1> DEFINE g == pager[c]
           h == [g EXCEPT !.pc = "end"]
           e == g.jfd
           cells == journal[e]
           name == [dirent EXCEPT !.may = {dirent.cur}]
<1>1. /\ g.pc = "finsync" /\ Set(c, h) /\ SyncJournalFile(e, cells)
      /\ UNCHANGED lockVars /\ mode' = mode /\ db' = db
  BY DEF FinSync, Goto, lockVars
<1>2. PagerInv(g, lock[c]) /\ IsPager(g) /\ lock[c] >= RESERVED_LOCK
  BY <1>1, EndingIsAlone DEF PagerInv, IsPager
<1>3. IsImage(i) /\ ConnK(g, lock[c], i, db, journal, dirent, mode)
  BY DEF PInv
<1>4. Quiet(db, i) /\ Cold(db, journal, dirent)
  BY <1>1, <1>2, <1>3, EndingHas
<1>5. dirent.cur = e /\ e # 0 /\ e \in 0..MaxInode
  BY <1>1, <1>2, <1>3, FinSyncName DEF PagerInv, JournalInv
<1>6. e \in Inodes /\ cells = [s \in Slots |-> cells[s]] /\ JournalType(cells, b) /\ 1 \in Slots
  BY <1>5, JournalOf, Bounds DEF Slots
<1>7. dirent' = name /\ name.cur = e /\ name.may = {e}
  <2>1. dirent = [cur |-> dirent.cur, may |-> dirent.may]
    BY DEF IInv, FilesInv
  <2>2. QED
    BY <1>1, <1>5, <2>1 DEF SyncJournalFile
<1>8. journal'[e] = Sync(cells)
  BY <1>1, <1>6 DEF SyncJournalFile
<1>9. journal'[e][1].cur = cells[1].cur /\ journal'[e][1].may = {cells[1].cur}
  <2>1. Sync(cells)[1] = Stable(cells[1].cur)
    BY <1>6, SyncedCells
  <2>2. QED
    BY <1>8, <2>1 DEF Stable
<1>19. h.pc = "end" /\ EndsLike(g, h)
  BY <1>2 DEF EndsLike, IsPager, Fields
<1> HIDE DEF g, h, e, cells, name
<1>10. IsMagic(cells[1].cur) => EmptyDb(db) /\ Len(i) = 0
  <2>1. IsMagic(cells[1].cur) => EmptyDb(db)
    BY <1>4, <1>5 DEF Cold, cells
  <2>2. EmptyDb(db) => Len(i) = 0
    <3>1. FilesOK(b, db, journal, dirent) /\ FilesK(i, db, journal, dirent, mode)
      BY FilesAre DEF PInv
    <3>2. QED
      BY <1>3, <3>1, EmptyIs
  <2>3. QED
    BY <2>1, <2>2
<1>11. FilesK(i, db, journal', name, mode)
  <2>1. NamedK(e, i, db, journal', mode)
    BY <1>4, <1>5, <1>9, <1>10 DEF NamedK
  <2>2. QED
    BY <1>4, <1>5, <1>7, <1>9, <1>10, <2>1 DEF FilesK
<1>12. ~Dying(journal', name) /\ Cold(db, journal', name)
  BY <1>5, <1>7, <1>9, <1>10 DEF Dying, Cold
<1>13. ConnK(h, lock[c], i, db, journal', name, mode)
  BY <1>1, <1>2, <1>3, <1>7, <1>12, <1>19, FinSynced DEF e, g
<1>14. \A d \in Others(c) : ConnK(pager[d], lock[d], i, db, journal', name, mode)
  BY <1>2, <1>5, <1>7, <1>12, OthersShared
<1>15. [LockNext]_lockVars /\ (\A d \in Others(c) : lock'[d] = lock[d]) /\ lock'[c] = lock[c]
  BY <1>1, SameLocks DEF Others
<1>16. EmptyK(db', journal', dirent', pager', lock')
  <2>1. EmptyDb(db) \/ db[1].cur # NoPage
    BY <1>3, <1>4, QuietFirst
  <2>2. QED
    BY <1>1, <1>7, <1>12, <2>1 DEF EmptyK
<1>17. FilesK(i, db', journal', dirent', mode)
       /\ ConnK(h, lock'[c], i, db', journal', dirent', mode)
       /\ \A d \in Others(c) : ConnK(pager[d], lock[d], i, db', journal', dirent', mode)
  BY <1>1, <1>7, <1>11, <1>13, <1>14, <1>15
<1>18. QED
  BY <1>1, <1>3, <1>15, <1>16, <1>17, OnePromises

\* What a journal covers it covers also when the file is cut behind the image.
LEMMA CoveredBehind ==
  ASSUME NEW i, IsImage(i), NEW cells, NEW x, NEW d, NEW n, Covered(cells, x, i, d, n),
         NEW d2, \A p \in 1..Len(i) : d2[p] = d[p]
  PROVE  Covered(cells, x, i, d2, n)
<1>1. Len(i) # 0 => d2[1] = d[1]
  BY ImageIs
<1>2. QED
  BY <1>1 DEF Covered

\* The pager that pager_end_transaction() leaves.
CutCache(g) == [p \in Pages |-> IF p > g.dbSize THEN NoPage ELSE g.cache[p]]
Concluded(g) ==
  [Ended(g) EXCEPT !.cache = CutCache(g),
                   !.nPage = IF g.commit THEN @ ELSE Version(CutCache(g)[1]).nPage,
                   !.eState = IF g.hot THEN "open" ELSE "reader",
                   !.pc = IF g.hot THEN "validate" ELSE "idle"]

\* The pager after the transaction, field by field.
LEMMA ConcludedIs ==
  ASSUME NEW g, IsPager(g)
  PROVE  LET h == Concluded(g)
         IN /\ h.cache = CutCache(g) /\ h.vers = g.vers /\ h.dbSize = g.dbSize /\ h.jfd = g.jfd
            /\ h.nPage = (IF g.commit THEN g.nPage ELSE Version(CutCache(g)[1]).nPage)
            /\ h.eState = (IF g.hot THEN "open" ELSE "reader")
            /\ h.pc = (IF g.hot THEN "validate" ELSE "idle")
            /\ h.hot = FALSE /\ h.commit = FALSE
<1> DEFINE e == Ended(g)
<1>1. /\ e = [f \in Fields |-> e[f]] /\ e.vers = g.vers /\ e.dbSize = g.dbSize
      /\ e.nPage = g.nPage /\ e.jfd = g.jfd /\ e.hot = FALSE /\ e.commit = FALSE
  BY ZenonT(30) DEF Ended, Fields, IsPager
<1> HIDE DEF e
<1> DEFINE h == [e EXCEPT !.cache = CutCache(g),
                          !.nPage = IF g.commit THEN g.nPage ELSE Version(CutCache(g)[1]).nPage,
                          !.eState = IF g.hot THEN "open" ELSE "reader",
                          !.pc = IF g.hot THEN "validate" ELSE "idle"]
<1>2. Concluded(g) = h
  BY <1>1 DEF Concluded, e
<1>3. /\ h.cache = CutCache(g) /\ h.vers = g.vers /\ h.dbSize = g.dbSize /\ h.jfd = g.jfd
      /\ h.nPage = (IF g.commit THEN g.nPage ELSE Version(CutCache(g)[1]).nPage)
      /\ h.eState = (IF g.hot THEN "open" ELSE "reader")
      /\ h.pc = (IF g.hot THEN "validate" ELSE "idle")
      /\ h.hot = FALSE /\ h.commit = FALSE
  BY <1>1 DEF Fields
<1> HIDE DEF h
<1>4. QED
  BY <1>2, <1>3

\* After a hot journal was played back the transaction begins that it was for.
LEMMA HotConcluded ==
  ASSUME NEW g, IsPager(g), g.hot = TRUE, g.pc = "end", NEW l, PagerInv(g, l),
         NEW i, IsImage(i), NEW d, NEW j, NEW name, NEW m, ConnK(g, l, i, d, j, name, m), NEW k
  PROVE  ConnK(Concluded(g), k, i, d, j, name, m)
<1> DEFINE h == Concluded(g)
<1>1. /\ h.cache = CutCache(g) /\ h.vers = g.vers /\ h.dbSize = g.dbSize /\ h.jfd = g.jfd
      /\ h.eState = "open" /\ h.pc = "validate" /\ h.hot = FALSE /\ g.eState = "open"
  BY ConcludedIs DEF PagerInv, HotInv
<1> HIDE DEF h
<1>2. Quiet(d, i) /\ Cold(d, j, name)
  BY EndingHas
<1>3. CacheK(g, i) /\ JfdK(g, i, name, m)
  BY DEF ConnK
<1>4. TrustK(h, k, i, d, j, name)
  BY <1>1, <1>2 DEF TrustK
<1>5. CacheK(h, i)
  <2>1. \A p \in Pages : h.cache[p] = NoPage \/ h.cache[p] = g.cache[p]
    BY <1>1 DEF CutCache
  <2>2. NothingCached(g) => NothingCached(h)
    BY <2>1 DEF NothingCached
  <2>3. Coherent(g, i) => Coherent(h, i)
    <3>1. \A p \in 1..Len(i) : h.cache[p] # NoPage => h.cache[p] = g.cache[p]
      <4>1. \A p \in 1..Len(i) : p \in Pages
        BY ImageIs
      <4>2. QED
        BY <2>1, <4>1
    <3>2. QED
      BY <3>1 DEF Coherent
  <2>4. QED
    BY <1>1, <1>3, <2>2, <2>3 DEF CacheK
<1>6. JfdK(h, i, name, m)
  BY <1>1, <1>3 DEF JfdK
<1>7. QED
  BY <1>1, <1>4, <1>5, <1>6, OpenIs DEF h

\* What the pager of a transaction that is over has of the image.
LEMMA EndReads ==
  ASSUME NEW g, g.pc = "end", g.hot = FALSE,
         g.eState = "locked" \/ g.eState = "cachemod" \/ g.eState = "dbmod" \/ g.eState = "finished",
         g.commit => g.eState = "locked" \/ g.eState = "finished",
         NEW l, NEW i, NEW d, NEW j, NEW name, NEW m, ConnK(g, l, i, d, j, name, m)
  PROVE  /\ Agrees(g, i) /\ (g.commit => g.nPage = Len(i))
         /\ g.eState = "finished" => g.commit /\ g.dbSize = Len(i)
<1>1. ReadK(g, i) /\ OwnK(g, i, d, j[g.jfd], name, m)
  BY DEF ConnK
<1>2. CASE g.eState = "locked" \/ g.eState = "finished"
  BY <1>1, <1>2 DEF ReadK, Reads
<1>3. CASE g.eState = "cachemod" \/ g.eState = "dbmod"
  <2>1. Undoes(g)
    BY <1>3 DEF Undoes
  <2>2. QED
    BY <1>1, <1>3, <2>1 DEF OwnK, UndoK
<1>4. QED
  BY <1>2, <1>3

\* It is a reader of the committed image.
LEMMA ReaderConcluded ==
  ASSUME NEW g, IsPager(g), g.hot = FALSE, g.pc = "end", NEW i, IsImage(i),
         g.dbSize \in Nat, Agrees(g, i), g.commit => g.nPage = Len(i),
         NEW d, Quiet(d, i), NEW j, NEW name, Cold(d, j, name), NEW m, JfdK(g, i, name, m), NEW k
  PROVE  ConnK(Concluded(g), k, i, d, j, name, m)
<1> DEFINE h == Concluded(g)
<1>1. /\ h.cache = CutCache(g) /\ h.vers = g.vers /\ h.dbSize = g.dbSize /\ h.jfd = g.jfd
      /\ h.nPage = (IF g.commit THEN g.nPage ELSE Version(h.cache[1]).nPage)
      /\ h.eState = "reader" /\ h.pc = "idle" /\ h.hot = FALSE
  BY ConcludedIs
<1> HIDE DEF h
<1>2. 1 \in Pages /\ \A p \in Pages : p \in Nat \ {0}
  BY Bounds DEF Pages
<1>3. \A p \in Pages : h.cache[p] = IF p > g.dbSize THEN NoPage ELSE g.cache[p]
  BY <1>1 DEF CutCache
<1>4. \A p \in 1..Len(i) : p \in Pages /\ ~(p > g.dbSize)
  <2>1. Len(i) \in Nat /\ Len(i) <= g.dbSize /\ \A p \in 1..Len(i) : p \in Pages
    BY ImageIs DEF Agrees
  <2>2. QED
    BY <2>1
<1>5. \A p \in 1..Len(i) : h.cache[p] = g.cache[p]
  BY <1>3, <1>4
<1>6. Agrees(h, i)
  <2>1. Coherent(h, i)
    BY <1>5 DEF Agrees, Coherent
  <2>2. Len(i) # 0 => h.cache[1] = i[1]
    BY <1>5, FirstIs DEF Agrees
  <2>3. QED
    BY <1>1, <2>1, <2>2 DEF Agrees
<1>7. Len(i) = 0 => NothingCached(h)
  <2> SUFFICES ASSUME Len(i) = 0
               PROVE  NothingCached(h)
    OBVIOUS
  <2>1. g.dbSize = 0
    BY DEF Agrees
  <2>2. \A p \in Pages : p > g.dbSize
    BY <1>2, <2>1
  <2>3. QED
    BY <1>3, <2>2 DEF NothingCached
<1>8. h.nPage = Len(i)
  <2>1. CASE g.commit
    BY <1>1, <2>1
  <2>2. CASE ~g.commit /\ Len(i) = 0
    <3>1. h.cache[1] = NoPage
      BY <1>2, <1>7, <2>2 DEF NothingCached
    <3>2. QED
      BY <1>1, <2>2, <3>1 DEF Version, NoVersion
  <2>3. CASE ~g.commit /\ Len(i) # 0
    <3>1. h.cache[1] = i[1] /\ Version(i[1]) = i[1] /\ i[1].nPage = Len(i)
      BY <1>6, <2>3, FirstIs DEF Agrees
    <3>2. QED
      BY <1>1, <2>3, <3>1
  <2>4. QED
    BY <2>1, <2>2, <2>3
<1>9. TrustK(h, k, i, d, j, name)
  BY <1>1 DEF TrustK
<1>10. JfdK(h, i, name, m)
  BY <1>1 DEF JfdK
<1>11. Reads(h, i)
  BY <1>6, <1>7 DEF Reads
<1>12. QED
  BY <1>1, <1>8, <1>9, <1>10, <1>11, ReaderIs DEF h

\* The files when the database file is cut to the committed image.
LEMMA CutFiles ==
  ASSUME DbType(db), NEW i, IsImage(i), Quiet(db, i), NEW j, NEW name, Cold(db, j, name), NEW m,
         FilesK(i, db, j, name, m), Dying(j, name) => EmptyDb(db),
         m # "delete" => name.may = {name.cur}, NEW n \in 0..MaxPage, n = Len(i), DbSize > n
  PROVE  /\ FilesK(i, TruncateDb(n), j, name, m) /\ Quiet(TruncateDb(n), i)
         /\ Cold(TruncateDb(n), j, name) /\ ~Dying(j, name)
<1> DEFINE d == TruncateDb(n)
<1>1. Len(i) # 0
  <2> SUFFICES ASSUME Len(i) = 0
               PROVE  FALSE
    OBVIOUS
  <2>1. \A p \in Pages : db[p].cur = NoPage
    BY DEF Quiet, EmptyDb, Stable
  <2>2. DbSize \in 0..MaxPage /\ Present(db, DbSize) /\ DbSize # 0
    BY SizeIs
  <2>3. DbSize \in Pages /\ DbSize <= DbSize
    BY <2>2, Bounds DEF Pages
  <2>4. QED
    BY <2>1, <2>2, <2>3 DEF Present
<1>2. \A p \in 1..Len(i) : p \in Pages /\ db[p] = Stable(i[p]) /\ db[p].cur # NoPage /\ p <= n
  <2>1. \A p \in 1..Len(i) : p \in Pages /\ p <= n /\ i[p] \in PageContents
    BY ImageIs
  <2>2. NoPage \notin PageContents
    BY Contents
  <2>3. \A p \in 1..Len(i) : db[p] = Stable(i[p])
    BY <1>1 DEF Quiet
  <2>4. QED
    BY <2>1, <2>2, <2>3 DEF Stable
<1>3. \A p \in 1..Len(i) : d[p] = db[p]
  BY <1>2, CutIs
<1>4. ~EmptyDb(db) /\ 1 \in 1..Len(i)
  <2>1. 1 \in 1..Len(i)
    BY <1>1, ImageIs
  <2>2. db[1].cur # NoPage /\ 1 \in Pages
    BY <1>2, <2>1
  <2>3. Stable(NoPage).cur = NoPage
    BY DEF Stable
  <2>4. QED
    BY <2>1, <2>2, <2>3 DEF EmptyDb
<1> HIDE DEF d
<1>5. Quiet(d, i)
  BY <1>1, <1>2, <1>3 DEF Quiet
<1>6. (name.cur = 0 \/ ~IsMagic(j[name.cur][1].cur)) /\ ~Dying(j, name)
  BY <1>4 DEF Cold
<1>7. ASSUME NEW e \in name.may
      PROVE  NamedK(e, i, d, j, m)
  <2>1. NamedK(e, i, db, j, m)
    BY DEF FilesK
  <2>2. CASE e = 0
    BY <1>5, <2>2 DEF NamedK
  <2>3. CASE e # 0
    <3>1. ASSUME NEW x \in j[e][1].may, IsMagic(x)
          PROVE  Revives(j[e], x, i, d, m)
      <4>1. m = "delete"
        <5>1. m # "delete" => e = name.cur
          OBVIOUS
        <5>2. QED
          BY <1>6, <2>3, <3>1, <5>1 DEF Dying
      <4>2. Revives(j[e], x, i, db, m)
        BY <1>4, <2>1, <2>3, <3>1 DEF NamedK
      <4>3. PICK u, k : IsImage(u) /\ Len(u) <= Len(i) /\ Covered(j[e], x, u, db, k)
        BY <4>1, <4>2 DEF Revives
      <4>4. \A p \in 1..Len(u) : d[p] = db[p]
        <5>1. Len(u) \in Nat /\ Len(i) \in Nat
          BY <4>3, ImageIs
        <5>2. \A p \in 1..Len(u) : p \in 1..Len(i)
          BY <4>3, <5>1
        <5>3. QED
          BY <1>3, <5>2
      <4>5. Covered(j[e], x, u, d, k)
        BY <4>3, <4>4, CoveredBehind
      <4>6. QED
        BY <4>3, <4>5 DEF Revives
    <3>2. QED
      BY <1>5, <2>3, <3>1 DEF NamedK
  <2>4. QED
    BY <2>2, <2>3
<1>8. name.cur # 0 /\ (\E x \in j[name.cur][1].may : IsMagic(x)) => name.may = {name.cur}
  BY DEF FilesK
<1>9. QED
  BY <1>5, <1>6, <1>7, <1>8 DEF FilesK, Cold, d

\* pager_end_transaction() ends: the file is cut, and the lock given back.
LEMMA ConcludeKept ==
  ASSUME IInv, NEW b \in Nat, TInv(b), NEW i, PInv(i), NEW c \in Conns, Conclude(c)
  PROVE  PInv(i)'
<1> DEFINE g == pager[c]
           h == Concluded(g)
           cut == g.commit /\ g.eState = "finished" /\ DbSize > g.dbSize
<1>1. /\ g.pc = "end" /\ Unlock(c, SHARED_LOCK)
      /\ mode' = mode /\ journal' = journal /\ dirent' = dirent
      /\ db' = IF cut THEN TruncateDb(g.dbSize) ELSE db
  BY DEF Conclude
<1>2. /\ PagerInv(g, lock[c]) /\ IsPager(g) /\ lock[c] >= RESERVED_LOCK
      /\ DataType(g, b) /\ HeaderType(g, journal[g.jfd], b) /\ DbType(db)
      /\ g.eState \in {"open", "locked", "cachemod", "dbmod", "finished"}
      /\ g.eState = "open" => g.hot
  BY <1>1, EndingIsAlone DEF TInv, PagerInv, IsPager
<1>3. Set(c, h)
  BY DEF Conclude, Concluded, CutCache
<1>4. IsImage(i) /\ ConnK(g, lock[c], i, db, journal, dirent, mode) /\ FilesK(i, db, journal, dirent, mode)
  BY DEF PInv
<1>5. Quiet(db, i) /\ Cold(db, journal, dirent)
  BY <1>1, <1>2, <1>4, EndingHas
<1>6. LockTypeOK
  BY DEF IInv
<1>7. [LockNext]_lockVars /\ \A d \in Others(c) : lock'[d] = lock[d]
  BY <1>1, <1>6, LockGiven
<1>8. Dying(journal, dirent) => EmptyDb(db)
  <2>1. pager[c].pc # "finsync"
    BY <1>1
  <2>2. QED
    BY <1>2, <2>1, NobodyEnds
<1>9. g.dbSize \in 0..MaxPage /\ g.dbSize \in Nat /\ g.hot \in BOOLEAN /\ g.commit \in BOOLEAN
  BY <1>2 DEF DataType, PagerInv, HotInv, CommitInv
<1>10. g.hot = TRUE => g.eState = "open"
  BY <1>2 DEF PagerInv, HotInv
<1>11. g.commit => g.eState = "locked" \/ g.eState = "finished"
  BY <1>1, <1>2 DEF PagerInv, CommitInv, HeaderType, InUndo
<1>12. JfdK(g, i, dirent, mode)
  BY <1>4 DEF ConnK
<1>13. ASSUME g.hot = FALSE
       PROVE  /\ Agrees(g, i) /\ (g.commit => g.nPage = Len(i))
              /\ g.eState = "finished" => g.commit /\ g.dbSize = Len(i)
  <2>1. g.eState = "locked" \/ g.eState = "cachemod" \/ g.eState = "dbmod" \/ g.eState = "finished"
    BY <1>2, <1>13
  <2>2. QED
    BY ZenonT(60), <1>1, <1>4, <1>11, <1>13, <2>1, EndReads
<1> HIDE DEF g, h, cut
<1>14. CASE ~cut
  <2>1. db' = db
    BY <1>1, <1>14
  <2>2. \A k : ConnK(h, k, i, db, journal, dirent, mode)
    <3> TAKE k
    <3>1. CASE g.hot = TRUE
      BY <1>1, <1>2, <1>4, <3>1, HotConcluded DEF h
    <3>2. CASE g.hot = FALSE
      BY <1>1, <1>2, <1>4, <1>5, <1>9, <1>12, <1>13, <3>2, ReaderConcluded DEF h
    <3>3. QED
      BY <1>9, <3>1, <3>2
  <2>3. EmptyK(db', journal', dirent', pager', lock')
    <3>1. EmptyDb(db) \/ db[1].cur # NoPage
      BY <1>4, <1>5, QuietFirst
    <3>2. QED
      BY <1>1, <1>8, <2>1, <3>1 DEF EmptyK
  <2>4. FilesK(i, db', journal', dirent', mode)
        /\ ConnK(h, lock'[c], i, db', journal', dirent', mode)
        /\ \A d \in Others(c) : ConnK(pager[d], lock[d], i, db', journal', dirent', mode)
    BY <1>1, <1>4, <2>1, <2>2 DEF PInv, Others
  <2>5. QED
    BY <1>1, <1>3, <1>4, <1>7, <2>3, <2>4, OnePromises
<1>15. CASE cut
  <2>1. db' = TruncateDb(g.dbSize) /\ g.eState = "finished" /\ DbSize > g.dbSize
    BY <1>1, <1>15 DEF cut
  <2>2. g.hot = FALSE /\ g.dbSize = Len(i)
    BY <1>9, <1>10, <1>13, <2>1
  <2>3. mode # "delete" => dirent.may = {dirent.cur}
    BY <1>1, <1>12, <2>1 DEF JfdK
  <2>4. /\ FilesK(i, db', journal, dirent, mode) /\ Quiet(db', i)
        /\ Cold(db', journal, dirent) /\ ~Dying(journal, dirent)
    BY <1>2, <1>4, <1>5, <1>8, <1>9, <2>1, <2>2, <2>3, CutFiles
  <2>5. \A k : ConnK(h, k, i, db', journal, dirent, mode)
    BY <1>1, <1>2, <1>4, <1>9, <1>12, <1>13, <2>2, <2>4, ReaderConcluded DEF h
  <2>6. lock[c] = EXCLUSIVE_LOCK
    BY <1>2, <2>1 DEF PagerInv, StateInv
  <2>7. \A d \in Others(c) : ConnK(pager[d], lock[d], i, db', journal, dirent, mode)
    BY <2>6, OthersIdle
  <2>8. EmptyK(db', journal', dirent', pager', lock')
    <3>1. EmptyDb(db') \/ db'[1].cur # NoPage
      BY <1>4, <2>4, QuietFirst
    <3>2. QED
      BY <1>1, <2>4, <3>1 DEF EmptyK
  <2>9. FilesK(i, db', journal', dirent', mode)
        /\ ConnK(h, lock'[c], i, db', journal', dirent', mode)
        /\ \A d \in Others(c) : ConnK(pager[d], lock[d], i, db', journal', dirent', mode)
    BY <1>1, <2>4, <2>5, <2>7
  <2>10. QED
    BY <1>1, <1>3, <1>4, <1>7, <2>8, <2>9, OnePromises
<1>16. QED
  BY <1>14, <1>15

\* What is known when the journal is finalized: u is the committed image as
\* soon as that is done.
EndK(g, u, d) ==
  /\ CacheK(g, u)
  /\ g.eState = "finished" => Reads(g, u) /\ g.nPage = Len(u) /\ g.commit /\ g.dbSize = g.nPage
  /\ Undoes(g) => UndoK(g, u, d)
Outcome(g, u, i, b, m) ==
  /\ IsImage(u) /\ Quiet(db, u) /\ EndK(g, u, db)
  /\ m = "delete" => Len(i) <= Len(u)
  /\ g.eState # "finished" => u = i
  /\ \A k : DataType(k, b) /\ IdleK(k, i) => IdleK(k, u)

\* An older cache is older than a new image too.
LEMMA OlderCache ==
  ASSUME NEW i, IsImage(i), NEW u, IsImage(u), Len(u) # 0,
         Len(i) # 0 => u[1].ver > i[1].ver, NEW b, NEW k, DataType(k, b), IdleK(k, i)
  PROVE  IdleK(k, u)
<1>1. k.vers.ver \in Nat
  BY DEF DataType
<1>2. CacheK(k, i) /\ k.jfd = 0
  BY DEF IdleK
<1>3. CacheK(k, u)
  <2> SUFFICES ASSUME k.eState = "open", ~NothingCached(k)
               PROVE  k.vers.ver < u[1].ver
    <3>1. u[1].ver \in Nat
      BY FirstIs
    <3>2. k.eState = "open" /\ ~NothingCached(k) => k.vers.ver <= u[1].ver /\ k.vers.ver # u[1].ver
      BY <1>1, <3>1
    <3>3. QED
      BY <3>2 DEF CacheK
  <2>1. Len(i) # 0 /\ k.vers.ver <= i[1].ver
    BY <1>2 DEF CacheK
  <2>2. i[1].ver \in Nat /\ u[1].ver \in Nat /\ u[1].ver > i[1].ver
    BY <2>1, FirstIs
  <2>3. QED
    BY <1>1, <2>1, <2>2
<1>4. QED
  BY <1>2, <1>3 DEF IdleK

\* The image that a commit leaves.
LEMMA CommittedImage ==
  ASSUME DbType(db), NEW i, IsImage(i), NEW g, g.eState = "finished", g.pc = "final", g.commit = TRUE,
         g.dbSize = g.nPage, g.nPage \in 0..MaxPage, NEW b, NEW cells, NEW name, NEW m,
         WriteK(g, i, db, cells, m), SyncK(g, i, db, cells, name)
  PROVE  Outcome(g, [p \in 1..g.nPage |-> db[p].cur], i, b, m)
<1> DEFINE n == g.nPage
           u == [p \in 1..n |-> db[p].cur]
<1>1. n \in Nat /\ 0 < n /\ n \in 0..MaxPage /\ 1 \in 1..n /\ g.dbSize = n
  BY DEF WriteK
<1>2. \A p \in 1..n : /\ p \notin g.dirty /\ IsStable(db[p]) /\ db[p].cur \in PageContents
                      /\ g.cache[p] = NoPage \/ g.cache[p] = db[p].cur
  BY DEF WriteK, SyncK
<1>3. g.cache[1] = db[1].cur
  BY <1>1, <1>2 DEF WriteK
<1>4. /\ db[1].cur \in HeaderPages /\ db[1].cur.nPage = n /\ g.vers = db[1].cur
      /\ Len(i) # 0 => db[1].cur.ver > i[1].ver
  BY <1>1, <1>2, <1>3 DEF WriteK
<1>5. m = "delete" => Len(i) <= n
  BY DEF WriteK
<1> HIDE DEF n
<1>6. u \in [1..n -> PageContents] /\ Len(u) = n /\ u[1] = db[1].cur
      /\ \A p \in 1..n : u[p] = db[p].cur
  BY <1>1, <1>2
<1> HIDE DEF u
<1>7. IsImage(u)
  BY <1>1, <1>4, <1>6 DEF IsImage
<1>8. Quiet(db, u)
  <2>1. \A p \in 1..Len(u) : db[p] = Stable(u[p])
    BY <1>2, <1>6 DEF IsStable
  <2>2. Len(u) # 0
    BY <1>1, <1>6
  <2>3. QED
    BY <2>1, <2>2 DEF Quiet
<1>9. Coherent(g, u)
  <2>1. \A p \in 1..Len(u) : g.cache[p] = NoPage \/ g.cache[p] = u[p]
    BY <1>2, <1>6
  <2>2. QED
    BY <2>1 DEF Coherent
<1>10. Reads(g, u) /\ g.nPage = Len(u)
  <2>1. Len(u) # 0 /\ g.dbSize = Len(u) /\ g.nPage = Len(u) /\ Len(u) \in Nat
    BY <1>1, <1>6 DEF n
  <2>2. QED
    BY <1>3, <1>4, <1>6, <1>9, <2>1 DEF Reads, Agrees
<1>11. EndK(g, u, db)
  BY <1>10 DEF EndK, CacheK, Undoes
<1>12. \A k : DataType(k, b) /\ IdleK(k, i) => IdleK(k, u)
  <2>1. Len(u) # 0 /\ (Len(i) # 0 => u[1].ver > i[1].ver)
    BY <1>1, <1>4, <1>6
  <2>2. QED
    BY <1>7, <2>1, OlderCache
<1>13. Outcome(g, u, i, b, m)
  BY <1>5, <1>6, <1>7, <1>8, <1>11, <1>12 DEF Outcome
<1>14. QED
  BY <1>13 DEF u, n

\* What there is at the call that finalizes the journal.
LEMMA AtFinal ==
  ASSUME IInv, NEW b \in Nat, TInv(b), NEW i, PInv(i), NEW c \in Conns, pager[c].pc = "final",
         pager[c].eState # "locked"
  PROVE  \E u : Outcome(pager[c], u, i, b, mode)
<1> DEFINE g == pager[c]
<1>1. /\ PagerInv(g, lock[c]) /\ DataType(g, b) /\ DbType(db) /\ HeaderType(g, journal[g.jfd], b)
      /\ g.eState \in {"open", "cachemod", "dbmod", "finished"} /\ (g.eState = "open" => g.hot)
  BY EndingIsAlone DEF TInv
<1>2. IsImage(i) /\ ConnK(g, lock[c], i, db, journal, dirent, mode) /\ g.pc = "final"
  BY DEF PInv
<1>3. OwnK(g, i, db, journal[g.jfd], dirent, mode) /\ ReadK(g, i) /\ CacheK(g, i)
      /\ TrustK(g, lock[c], i, db, journal, dirent)
  BY <1>2 DEF ConnK
<1> HIDE DEF g
<1>4. CASE g.eState = "finished"
  <2>1. g.commit = TRUE /\ g.dbSize = g.nPage /\ g.nPage \in 0..MaxPage
    BY <1>1, <1>3, <1>4 DEF ReadK, PagerInv, CommitInv, DataType
  <2>2. WriteK(g, i, db, journal[g.jfd], mode) /\ SyncK(g, i, db, journal[g.jfd], dirent)
    BY <1>2, <1>3, <1>4 DEF OwnK, Active
  <2>3. Outcome(g, [p \in 1..g.nPage |-> db[p].cur], i, b, mode)
    BY <1>1, <1>2, <1>4, <2>1, <2>2, CommittedImage
  <2>4. QED
    BY <2>3 DEF g
<1>5. CASE g.eState # "finished"
  <2>1. Trusts(g, lock[c])
    BY <1>1, <1>2, <1>5 DEF Trusts
  <2>2. Quiet(db, i)
    BY <1>3, <2>1 DEF TrustK
  <2>3. Undoes(g) => UndoK(g, i, db)
    BY <1>3 DEF OwnK
  <2>4. Len(i) \in Nat
    BY <1>2, ImageIs
  <2>5. Outcome(g, i, i, b, mode)
    BY <1>2, <1>3, <1>5, <2>2, <2>3, <2>4 DEF Outcome, EndK
  <2>6. QED
    BY <2>5 DEF g
<1>6. QED
  BY <1>4, <1>5

SameEnd(g, h) ==
  /\ h.eState = g.eState /\ h.hot = g.hot
  /\ h.cache = g.cache /\ h.vers = g.vers /\ h.dbSize = g.dbSize /\ h.nPage = g.nPage
  /\ h.commit = g.commit /\ h.off = g.off

\* The pager when the journal is finalized.
LEMMA Finalized ==
  ASSUME NEW g, g.pc = "final", g.eState # "locked", NEW l, PagerInv(g, l),
         NEW h, SameEnd(g, h), h.pc = "end" \/ h.pc = "finsync",
         NEW u, NEW i, NEW b, NEW m, Outcome(g, u, i, b, m),
         NEW k, NEW name, Cold(db, k, name),
         h.pc = "end" => h.jfd = 0 /\ m = "delete",
         h.pc = "finsync" => name.cur = h.jfd /\ m # "delete"
  PROVE  ConnK(h, l, u, db, k, name, m)
<1>1. /\ h.eState = g.eState /\ h.hot = g.hot
      /\ h.cache = g.cache /\ h.vers = g.vers /\ h.dbSize = g.dbSize /\ h.nPage = g.nPage
      /\ h.commit = g.commit /\ h.off = g.off
  BY DEF SameEnd
<1>2. g.eState \in {"open", "cachemod", "dbmod", "finished"} /\ (g.eState = "open" => g.hot)
  BY DEF PagerInv, StateInv, HotInv, ReadPcs, CommitPcs, PlayPcs
<1>3. Quiet(db, u) /\ EndK(g, u, db)
  BY DEF Outcome
<1>4. TrustK(h, l, u, db, k, name)
  BY <1>1, <1>3 DEF TrustK
<1>5. CacheK(h, u)
  BY <1>1, <1>3 DEF EndK, CacheK, NothingCached, Coherent
<1>6. ReadK(h, u)
  BY <1>1, <1>2, <1>3 DEF EndK, ReadK, Reads, Agrees, NothingCached, Coherent
<1>7. JfdK(h, u, name, m)
  BY <1>1, <1>2 DEF JfdK
<1>8. OwnK(h, u, db, k[h.jfd], name, m)
  <2>1. ~Active(h) /\ ~Playing(h)
    BY <1>1 DEF Active, Playing, LoggingPcs
  <2>2. Undoes(h) => Undoes(g)
    BY <1>1 DEF Undoes
  <2>3. UndoK(g, u, db) => UndoK(h, u, db)
    BY <1>1 DEF UndoK, Agrees, Coherent
  <2>4. QED
    BY <1>3, <2>1, <2>2, <2>3 DEF EndK, OwnK
<1>9. HotK(h, u, db, k[h.jfd])
  BY <1>1 DEF HotK
<1>10. QED
  BY <1>4, <1>5, <1>6, <1>7, <1>8, <1>9 DEF ConnK

\* What may come of a journal file, when the file has the new image.
LEMMA NamedOutcome ==
  ASSUME NEW e, NEW i, NEW d, NEW j, NEW m, NamedK(e, i, d, j, m),
         NEW u, Quiet(d, u), m = "delete" => Len(i) <= Len(u), IsImage(i), IsImage(u)
  PROVE  NamedK(e, u, d, j, m)
<1>1. \A v : IsImage(v) => Len(v) \in Nat
  BY ImageIs
<1>2. \A x : Revives(j[e], x, i, d, m) => Revives(j[e], x, u, d, m)
  <2> TAKE x
  <2> SUFFICES ASSUME Revives(j[e], x, i, d, m)
               PROVE  Revives(j[e], x, u, d, m)
    OBVIOUS
  <2>1. PICK v, n : /\ IsImage(v) /\ (m = "delete" => Len(v) <= Len(i))
                    /\ Covered(j[e], x, v, d, n)
    BY DEF Revives
  <2>2. m = "delete" => Len(v) <= Len(u)
    BY <1>1, <2>1
  <2>3. QED
    BY <2>1, <2>2 DEF Revives
<1>3. QED
  BY <1>2 DEF NamedK

\* What remains of the others when the journal is finalized.
LEMMA OthersOutcome ==
  ASSUME IInv, NEW b \in Nat, TInv(b), NEW i, PInv(i), NEW c \in Conns, pager[c].pc = "final",
         NEW u, Outcome(pager[c], u, i, b, mode),
         NEW j, NEW name, Cold(db, j, name),
         lock[c] # EXCLUSIVE_LOCK =>
           \A d \in Others(c) :
             /\ pager[d].eState # "error" /\ pager[d].jfd # 0 /\ Len(i) # 0
             /\ dirent.cur = pager[d].jfd
             => name.cur = pager[d].jfd
  PROVE  \A d \in Others(c) : ConnK(pager[d], lock[d], u, db, j, name, mode)
<1>1. PagerInv(pager[c], lock[c]) /\ lock[c] >= RESERVED_LOCK
  BY EndingIsAlone
<1>2. CASE lock[c] = EXCLUSIVE_LOCK
  <2>1. \A d \in Others(c) : DataType(pager[d], b)
    BY DEF TInv, Others
  <2>2. \A d \in Others(c) : IdleK(pager[d], i) => IdleK(pager[d], u)
    BY <2>1 DEF Outcome
  <2>3. QED
    BY <1>2, <2>2, OthersIdle
<1>3. CASE lock[c] # EXCLUSIVE_LOCK
  <2>1. pager[c].eState # "finished"
    BY <1>1, <1>3 DEF PagerInv, StateInv
  <2>2. u = i
    BY <2>1 DEF Outcome
  <2>3. \A d \in Others(c) : ConnK(pager[d], lock[d], i, db, j, name, mode)
    BY <1>1, <1>3, OthersShared
  <2>4. QED
    BY <2>2, <2>3
<1>4. QED
  BY <1>2, <1>3

\* A call that finalizes the journal of a transaction, or a hot one.
LEMMA FinalHas ==
  ASSUME IInv, NEW b \in Nat, TInv(b), NEW i, PInv(i), NEW c \in Conns, pager[c].pc = "final",
         pager[c].eState # "locked"
  PROVE  LET g == pager[c]
         IN /\ PagerInv(g, lock[c]) /\ IsPager(g) /\ lock[c] >= RESERVED_LOCK
            /\ dirent.cur = g.jfd /\ g.jfd # 0 /\ g.jfd \in Inodes
            /\ IsImage(i) /\ FilesK(i, db, journal, dirent, mode) /\ DbType(db)
            /\ journal[g.jfd] = [s \in Slots |-> journal[g.jfd][s]] /\ JournalType(journal[g.jfd], b)
            /\ mode \in AllModes /\ 1 \in Slots
<1> DEFINE g == pager[c]
<1>1. /\ PagerInv(g, lock[c]) /\ lock[c] >= RESERVED_LOCK /\ IsPager(g)
      /\ g.eState \in {"open", "cachemod", "dbmod", "finished"} /\ (g.eState = "open" => g.hot)
  BY EndingIsAlone DEF PagerInv, IsPager
<1>2. IsImage(i) /\ FilesK(i, db, journal, dirent, mode) /\ ConnK(g, lock[c], i, db, journal, dirent, mode)
  BY DEF PInv
<1>3. JfdK(g, i, dirent, mode)
  BY <1>2 DEF ConnK
<1>4. dirent.cur = g.jfd
  BY <1>1, <1>3 DEF JfdK
<1>5. g.jfd # 0 /\ g.jfd \in 0..MaxInode
  BY <1>1 DEF PagerInv, JournalInv
<1>6. /\ g.jfd \in Inodes /\ journal[g.jfd] = [s \in Slots |-> journal[g.jfd][s]]
      /\ JournalType(journal[g.jfd], b)
  BY <1>5, JournalOf
<1>7. DbType(db) /\ mode \in AllModes /\ 1 \in Slots
  BY Bounds DEF TInv, Slots
<1>8. QED
  BY <1>1, <1>2, <1>4, <1>5, <1>6, <1>7

\* Without an open journal: its file is deleted.
LEMMA FinalDeleted ==
  ASSUME IInv, NEW b \in Nat, TInv(b), NEW i, PInv(i), NEW c \in Conns, pager[c].pc = "final",
         pager[c].eState # "locked", mode = "delete",
         dirent' = [cur |-> 0, may |-> MayBe(dirent.may \cup {0})],
         Set(c, [pager[c] EXCEPT !.jfd = 0, !.pc = "end"]),
         UNCHANGED <<mode, db, journal>>, UNCHANGED lockVars,
         NEW u, Outcome(pager[c], u, i, b, mode)
  PROVE  PInv(u)'
<1> DEFINE g == pager[c]
           h == [g EXCEPT !.jfd = 0, !.pc = "end"]
           name == [cur |-> 0, may |-> MayBe(dirent.may \cup {0})]
<1>1. /\ PagerInv(g, lock[c]) /\ IsPager(g) /\ lock[c] >= RESERVED_LOCK
      /\ IsImage(i) /\ FilesK(i, db, journal, dirent, mode)
  BY FinalHas
<1>2. SameEnd(g, h) /\ h.pc = "end" /\ h.jfd = 0
  BY <1>1 DEF SameEnd, IsPager, Fields
<1>3. Set(c, h) /\ dirent' = name /\ mode' = mode /\ db' = db /\ journal' = journal /\ g.pc = "final"
      /\ g.eState # "locked" /\ Outcome(g, u, i, b, mode)
  OBVIOUS
<1>4. name.cur = 0 /\ \A e \in name.may : e = 0 \/ e \in dirent.may
  BY DEF MayBe
<1> HIDE DEF g, h, name
<1>5. IsImage(u) /\ Quiet(db, u) /\ Len(i) <= Len(u)
  BY <1>3 DEF Outcome
<1>6. FilesK(u, db, journal, name, mode)
  <2>1. ASSUME NEW e \in name.may
        PROVE  NamedK(e, u, db, journal, mode)
    <3>1. CASE e = 0
      BY <1>5, <3>1 DEF NamedK
    <3>2. CASE e # 0
      <4>1. NamedK(e, i, db, journal, mode)
        BY <1>1, <1>4, <3>2 DEF FilesK
      <4>2. QED
        BY <1>1, <1>5, <4>1, NamedOutcome
    <3>3. QED
      BY <3>1, <3>2
  <2>2. QED
    BY <1>4, <1>5, <2>1 DEF FilesK
<1>7. Cold(db, journal, name) /\ ~Dying(journal, name)
  BY <1>4 DEF Cold, Dying
<1>8. ConnK(h, lock[c], u, db, journal, name, mode)
  BY <1>1, <1>2, <1>3, <1>7, Finalized
<1>9. \A d \in Others(c) : ConnK(pager[d], lock[d], u, db, journal, name, mode)
  <2>1. ASSUME NEW d \in Others(c), pager[d].eState # "error"
        PROVE  pager[d].jfd = 0
    <3>1. PagerInv(pager[d], lock[d]) /\ lock[d] \in Levels /\ lock[d] <= SHARED_LOCK
      <4>1. PagerInv(pager[d], lock[d]) /\ lock[d] \in Levels /\ lock[c] \in Levels
        BY DEF IInv, Others, LockTypeOK
      <4>2. lock[c] > SHARED_LOCK
        BY <1>1, <4>1 DEF Levels
      <4>3. QED
        BY <4>1, <4>2 DEF IInv, Exclusion, Others
    <3>2. pager[d].pc # "hotsync" /\ ~pager[d].hot /\ pager[d].eState \in {"open", "reader", "error"}
      BY <3>1, SharedIs
    <3>3. JfdK(pager[d], i, dirent, mode)
      BY DEF PInv, ConnK, Others
    <3>4. QED
      BY <2>1, <3>2, <3>3 DEF JfdK
  <2>2. QED
    BY <1>3, <1>7, <2>1, OthersOutcome DEF g
<1>10. [LockNext]_lockVars /\ (\A d \in Others(c) : lock'[d] = lock[d]) /\ lock'[c] = lock[c]
  BY SameLocks DEF Others
<1>11. EmptyK(db', journal', dirent', pager', lock')
  <2>1. EmptyDb(db) \/ db[1].cur # NoPage
    BY <1>5, QuietFirst
  <2>2. QED
    BY <1>3, <1>7, <2>1 DEF EmptyK
<1>12. /\ FilesK(u, db', journal', dirent', mode)
       /\ ConnK(h, lock'[c], u, db', journal', dirent', mode)
       /\ \A d \in Others(c) : ConnK(pager[d], lock[d], u, db', journal', dirent', mode)
  BY <1>3, <1>6, <1>8, <1>9, <1>10
<1>13. QED
  BY <1>3, <1>5, <1>10, <1>11, <1>12, OnePromises

\* What covers an image with some first header does so whatever is in the
\* first slot.
LEMMA CoveredFirst ==
  ASSUME NEW b \in Nat, NEW cells, cells = [s \in Slots |-> cells[s]], JournalType(cells, b),
         NEW new, new = [s \in Slots |-> new[s]], \A s \in Slots \ {1} : new[s] = cells[s],
         NEW x \in Cells(b), NEW i, NEW d, NEW n, Covered(cells, x, i, d, n)
  PROVE  Covered(new, x, i, d, n)
<1>1. n \in 2..MaxSlot + 1 /\ MaxSlot \in Nat /\ n \in Nat
  BY Bounds DEF Covered
<1>2. \A s \in 2..MaxSlot : new[s] = cells[s] /\ s \in Slots
  BY DEF Slots
<1>3. \A s \in 2..n - 1 : new[s] = cells[s]
  BY <1>1, <1>2
<1>4. After(new, n, i, x.orig)
  <2> SUFFICES ASSUME n <= MaxSlot
               PROVE  After(new, n, i, x.orig)
    BY DEF After
  <2>1. n \in 2..MaxSlot /\ new[n] = cells[n] /\ n \in Slots
    BY <1>1, <1>2
  <2>2. After(cells, n, i, x.orig)
    BY DEF Covered
  <2>3. ASSUME NEW y \in cells[n].may, IsMagic(y)
        PROVE  /\ n + y.nRec <= MaxSlot
               /\ \A s \in n + 1..n + y.nRec :
                    /\ IsStable(new[s]) /\ new[s].cur.kind = "record"
                    /\ new[s].cur.nonce = y.nonce /\ Good(new[s].cur, i, x.orig)
               /\ NoMagic(new, n + y.nRec + 1)
    <3>1. y.nRec \in Nat
      <4>1. y \in Cells(b)
        BY <2>1 DEF JournalType, CellOf
      <4>2. QED
        BY <2>3, <4>1 DEF Cells, HeaderCells, RecordCells, NoCell, Junk, IsMagic
    <3>2. /\ n + y.nRec <= MaxSlot
          /\ \A s \in n + 1..n + y.nRec :
               /\ IsStable(cells[s]) /\ cells[s].cur.kind = "record"
               /\ cells[s].cur.nonce = y.nonce /\ Good(cells[s].cur, i, x.orig)
          /\ NoMagic(cells, n + y.nRec + 1)
      BY <2>1, <2>2, <2>3 DEF After
    <3>3. \A s \in n + 1..n + y.nRec : new[s] = cells[s]
      BY <1>1, <1>2, <3>1, <3>2
    <3>4. n + y.nRec + 1 <= MaxSlot => new[n + y.nRec + 1] = cells[n + y.nRec + 1]
      BY <1>1, <1>2, <3>1
    <3>5. NoMagic(new, n + y.nRec + 1)
      BY <3>2, <3>4 DEF NoMagic
    <3>6. QED
      BY <3>2, <3>3, <3>5
  <2>4. QED
    BY <2>1, <2>3 DEF After
<1>5. QED
  BY <1>3, <1>4, CoveredSame

\* The header of the journal is overwritten with zeros.
LEMMA FinalZeroed ==
  ASSUME IInv, NEW b \in Nat, TInv(b), NEW i, PInv(i), NEW c \in Conns, pager[c].pc = "final",
         pager[c].eState # "locked", mode = "persist",
         PutCell(pager[c].jfd, 1, Junk), Goto(c, "finsync"),
         UNCHANGED <<mode, db, dirent>>, UNCHANGED lockVars,
         NEW u, Outcome(pager[c], u, i, b, mode)
  PROVE  PInv(u)'
<1> DEFINE g == pager[c]
           h == [g EXCEPT !.pc = "finsync"]
           e == g.jfd
           cells == journal[e]
           new == [cells EXCEPT ![1] = Written(cells[1], Junk)]
           j == [journal EXCEPT ![e] = new]
<1>1. /\ PagerInv(g, lock[c]) /\ IsPager(g) /\ lock[c] >= RESERVED_LOCK
      /\ dirent.cur = e /\ e # 0 /\ e \in Inodes /\ 1 \in Slots
      /\ IsImage(i) /\ FilesK(i, db, journal, dirent, mode)
      /\ cells = [s \in Slots |-> cells[s]] /\ JournalType(cells, b)
  BY FinalHas
<1>2. SameEnd(g, h) /\ h.pc = "finsync" /\ h.jfd = e
  BY <1>1 DEF SameEnd, IsPager, Fields
<1>3. journal = [f \in Inodes |-> journal[f]]
  BY DEF IInv, FilesInv
<1>4. /\ Set(c, h) /\ dirent' = dirent /\ mode' = mode /\ db' = db /\ g.pc = "final"
      /\ g.eState # "locked" /\ Outcome(g, u, i, b, mode) /\ mode # "delete" /\ journal' = j
  BY <1>1, <1>3 DEF PutCell, Goto
<1>5. j[e] = new /\ \A f : f # e => j[f] = journal[f]
  BY <1>1, <1>3
<1>6. /\ new = [s \in Slots |-> new[s]] /\ \A s \in Slots \ {1} : new[s] = cells[s]
      /\ new[1].cur = Junk /\ new[1].may = cells[1].may \cup {Junk}
  BY <1>1 DEF Written
<1>7. ~IsMagic(Junk)
  BY DEF IsMagic, Junk
<1> HIDE DEF g, h, e, cells, new, j
<1>8. IsImage(u) /\ Quiet(db, u)
  BY <1>4 DEF Outcome
<1>9. \A x \in cells[1].may : x \in Cells(b)
  BY <1>1 DEF JournalType, CellOf
<1>10. FilesK(u, db, j, dirent, mode)
  <2>1. ASSUME NEW f \in dirent.may
        PROVE  NamedK(f, u, db, j, mode)
    <3>1. NamedK(f, i, db, journal, mode)
      BY <1>1 DEF FilesK
    <3>2. NamedK(f, u, db, journal, mode)
      BY <1>1, <1>4, <1>8, <3>1, NamedOutcome
    <3>3. CASE f # e
      BY <1>5, <3>2, <3>3 DEF NamedK
    <3>4. CASE f = e
      <4>1. ASSUME NEW x \in cells[1].may, Revives(cells, x, u, db, mode)
            PROVE  Revives(new, x, u, db, mode)
        <5>1. PICK v, n : /\ IsImage(v) /\ (mode = "delete" => Len(v) <= Len(u))
                          /\ Covered(cells, x, v, db, n)
          BY <4>1 DEF Revives
        <5>2. Covered(new, x, v, db, n)
          BY <1>1, <1>6, <1>9, <5>1, CoveredFirst
        <5>3. QED
          BY <5>1, <5>2 DEF Revives
      <4>2. \A x \in cells[1].may :
              IF IsMagic(x) THEN EmptyDb(db) \/ Revives(cells, x, u, db, mode) ELSE Quiet(db, u)
        BY <1>1, <3>2, <3>4 DEF NamedK, cells
      <4>3. \A x \in new[1].may :
              IF IsMagic(x) THEN EmptyDb(db) \/ Revives(new, x, u, db, mode) ELSE Quiet(db, u)
        BY <1>6, <1>7, <1>8, <4>1, <4>2
      <4>4. QED
        BY <1>1, <1>5, <3>4, <4>3 DEF NamedK
    <3>5. QED
      BY <3>3, <3>4
  <2>2. (\E x \in j[dirent.cur][1].may : IsMagic(x)) => dirent.may = {dirent.cur}
    <3>1. (\E x \in cells[1].may : IsMagic(x)) => dirent.may = {dirent.cur}
      BY <1>1 DEF FilesK, cells
    <3>2. QED
      BY <1>1, <1>5, <1>6, <1>7, <3>1
  <2>3. ~IsMagic(j[dirent.cur][1].cur)
    BY <1>1, <1>5, <1>6, <1>7
  <2>4. QED
    BY <1>8, <2>1, <2>2, <2>3 DEF FilesK
<1>11. Cold(db, j, dirent)
  BY <1>1, <1>5, <1>6, <1>7 DEF Cold
<1>12. ConnK(h, lock[c], u, db, j, dirent, mode)
  BY <1>1, <1>2, <1>4, <1>11, Finalized
<1>13. \A d \in Others(c) : ConnK(pager[d], lock[d], u, db, j, dirent, mode)
  BY <1>4, <1>11, OthersOutcome DEF g
<1>14. [LockNext]_lockVars /\ (\A d \in Others(c) : lock'[d] = lock[d]) /\ lock'[c] = lock[c]
  BY SameLocks DEF Others
<1>15. EmptyK(db', journal', dirent', pager', lock')
  <2>1. EmptyDb(db) \/ db[1].cur # NoPage
    BY <1>8, QuietFirst
  <2>2. pager'[c].pc = "finsync"
    BY <1>2, <1>4 DEF Set, IInv
  <2>3. QED
    BY <1>4, <2>1, <2>2 DEF EmptyK
<1>16. /\ FilesK(u, db', journal', dirent', mode)
       /\ ConnK(h, lock'[c], u, db', journal', dirent', mode)
       /\ \A d \in Others(c) : ConnK(pager[d], lock[d], u, db', journal', dirent', mode)
  BY <1>4, <1>10, <1>12, <1>13, <1>14
<1>17. QED
  BY <1>4, <1>8, <1>14, <1>15, <1>16, OnePromises

\* A step that may change every pager: all of them have what they rely on.
LEMMA AllPromise ==
  ASSUME IInv, NEW i, PInv(i), mode' = mode, [LockNext]_lockVars,
         NEW u, IsImage(u), FilesK(u, db', journal', dirent', mode),
         EmptyK(db', journal', dirent', pager', lock'),
         \A d \in Conns : ConnK(pager'[d], lock'[d], u, db', journal', dirent', mode)
  PROVE  PInv(u)'
<1>1. \A d \in reserver' : lock'[d] >= RESERVED_LOCK
  BY ReserverStep DEF IInv, PInv
<1>2. QED
  BY <1>1 DEF PInv, EmptyK

\* A reader, when another file gets the name of the journal that it has open.
LEMMA ReaderSwapped ==
  ASSUME NEW g, NEW l, PagerInv(g, l), l \in Levels, l <= SHARED_LOCK,
         NEW i, NEW d, NEW j, NEW name, NEW m, m # "delete", ConnK(g, l, i, d, j, name, m),
         NEW k, NEW name2, Cold(d, k, name2), name2.cur # 0, name.cur # 0,
         NEW h, SameEnd(g, h), h.pc = g.pc,
         h.jfd = IF g.jfd = name.cur THEN name2.cur ELSE g.jfd
  PROVE  ConnK(h, l, i, d, k, name2, m)
<1>1. /\ ~g.hot /\ g.pc \notin {"hotsync", "delete", "open", "end", "finsync"}
      /\ g.eState \in {"open", "reader", "error"}
  BY SharedIs
<1>2. TrustK(g, l, i, d, j, name) /\ CacheK(g, i) /\ ReadK(g, i) /\ JfdK(g, i, name, m)
  BY DEF ConnK
<1>3. /\ h.eState = g.eState /\ h.hot = g.hot /\ h.pc = g.pc
      /\ h.cache = g.cache /\ h.vers = g.vers /\ h.dbSize = g.dbSize /\ h.nPage = g.nPage
      /\ h.commit = g.commit
  BY DEF SameEnd
<1>4. TrustK(h, l, i, d, k, name2)
  BY <1>2, <1>3 DEF TrustK, Trusts
<1>5. CacheK(h, i)
  BY <1>2, <1>3 DEF CacheK, NothingCached, Coherent
<1>6. ReadK(h, i)
  BY <1>2, <1>3 DEF ReadK, Reads, Agrees, NothingCached, Coherent
<1>7. JfdK(h, i, name2, m)
  BY <1>1, <1>2, <1>3 DEF JfdK
<1>8. OwnK(h, i, d, k[h.jfd], name2, m) /\ HotK(h, i, d, k[h.jfd])
  BY <1>1, <1>3 DEF OwnK, HotK, Active, Playing, Undoes
<1>9. QED
  BY <1>4, <1>5, <1>6, <1>7, <1>8 DEF ConnK

\* The journal is truncated: what it was counts as another file.
LEMMA FinalSwapped ==
  ASSUME IInv, NEW b \in Nat, TInv(b), NEW i, PInv(i), NEW c \in Conns, pager[c].pc = "final",
         pager[c].eState # "locked", mode = "truncate", NEW new \in Inodes, new \notin dirent.may,
         new # dirent.cur,
         journal' = [journal EXCEPT ![new] = NoJournal],
         dirent' = [cur |-> new, may |-> dirent.may \cup {new}],
         pager' = [d \in Conns |->
           IF d = c THEN [pager[c] EXCEPT !.jfd = new, !.pc = "finsync"]
           ELSE IF pager[d].jfd = pager[c].jfd THEN [pager[d] EXCEPT !.jfd = new]
           ELSE pager[d]],
         UNCHANGED <<mode, db>>, UNCHANGED lockVars,
         NEW u, Outcome(pager[c], u, i, b, mode)
  PROVE  PInv(u)'
<1> DEFINE g == pager[c]
           h == [g EXCEPT !.jfd = new, !.pc = "finsync"]
           j == [journal EXCEPT ![new] = NoJournal]
           name == [cur |-> new, may |-> dirent.may \cup {new}]
<1>1. /\ PagerInv(g, lock[c]) /\ IsPager(g) /\ lock[c] >= RESERVED_LOCK
      /\ dirent.cur = g.jfd /\ g.jfd # 0 /\ 1 \in Slots
      /\ IsImage(i) /\ FilesK(i, db, journal, dirent, mode)
  BY FinalHas
<1>2. SameEnd(g, h) /\ h.pc = "finsync" /\ h.jfd = new
  BY <1>1 DEF SameEnd, IsPager, Fields
<1>3. journal = [f \in Inodes |-> journal[f]]
  BY DEF IInv, FilesInv
<1>4. /\ pager'[c] = h /\ dirent' = name /\ mode' = mode /\ db' = db /\ g.pc = "final"
      /\ g.eState # "locked" /\ Outcome(g, u, i, b, mode) /\ mode # "delete" /\ journal' = j
      /\ new # 0
  BY Bounds DEF Inodes
<1>5. j[new] = NoJournal /\ \A f : f # new => j[f] = journal[f]
  BY <1>3
<1>6. name.cur = new /\ name.may = dirent.may \cup {new}
  OBVIOUS
<1>7. NoJournal[1] = Stable(NoCell) /\ ~IsMagic(NoCell) /\ \A x \in NoJournal[1].may : x = NoCell
  BY <1>1 DEF NoJournal, Stable, IsMagic, NoCell
<1>8. \A d \in Others(c) :
        pager'[d] = IF pager[d].jfd = g.jfd THEN [pager[d] EXCEPT !.jfd = new] ELSE pager[d]
  BY DEF Others
<1> HIDE DEF g, h, j, name
<1>9. IsImage(u) /\ Quiet(db, u)
  BY <1>4 DEF Outcome
<1>10. FilesK(u, db, j, name, mode)
  <2>1. ASSUME NEW f \in name.may
        PROVE  NamedK(f, u, db, j, mode)
    <3>1. CASE f = new
      BY <1>4, <1>5, <1>7, <1>9, <3>1 DEF NamedK
    <3>2. CASE f # new
      <4>1. NamedK(f, i, db, journal, mode)
        BY <1>1, <1>6, <3>2 DEF FilesK
      <4>2. NamedK(f, u, db, journal, mode)
        BY <1>1, <1>4, <1>9, <4>1, NamedOutcome
      <4>3. QED
        BY <1>5, <3>2, <4>2 DEF NamedK
    <3>3. QED
      BY <3>1, <3>2
  <2>2. QED
    BY <1>5, <1>6, <1>7, <1>9, <2>1 DEF FilesK, Stable
<1>11. Cold(db, j, name) /\ ~Dying(j, name)
  BY <1>5, <1>6, <1>7 DEF Cold, Dying, Stable
<1>12. ConnK(h, lock[c], u, db, j, name, mode)
  BY <1>1, <1>2, <1>4, <1>6, <1>11, Finalized
<1>13. ASSUME NEW d \in Others(c)
       PROVE  ConnK(pager'[d], lock[d], u, db, j, name, mode)
  <2> DEFINE k == pager[d]
             n == pager'[d]
  <2>1. PagerInv(k, lock[d]) /\ IsPager(k) /\ lock[d] \in Levels /\ d \in Conns
        /\ ConnK(k, lock[d], i, db, journal, dirent, mode)
    BY DEF IInv, PInv, PagerInv, IsPager, Others, LockTypeOK
  <2>2. SameEnd(k, n) /\ n.pc = k.pc /\ n.jfd = (IF k.jfd = g.jfd THEN new ELSE k.jfd)
    <3>1. n = IF k.jfd = g.jfd THEN [k EXCEPT !.jfd = new] ELSE k
      BY <1>8
    <3> HIDE DEF k, n
    <3>2. QED
      BY <2>1, <3>1 DEF SameEnd, IsPager, Fields
  <2>3. CASE lock[c] = EXCLUSIVE_LOCK
    <3>1. lock[d] = NO_LOCK
      BY <2>3 DEF IInv, Exclusion, Others
    <3>2. k.eState = "open" /\ k.pc = "idle" /\ k.hot = FALSE
      BY <2>1, <3>1, UnlockedIs
    <3>3. IdleK(k, i) /\ DataType(k, b)
      BY <2>1, <3>2, IdleIs DEF TInv
    <3>4. IdleK(k, u)
      BY <1>4, <3>3 DEF Outcome
    <3>5. n = k
      BY <1>1, <1>8, <3>3 DEF IdleK
    <3>6. n.eState = "open" /\ n.pc = "idle" /\ n.hot = FALSE /\ IdleK(n, u)
      BY <3>2, <3>4, <3>5
    <3> HIDE DEF k, n
    <3>7. ConnK(n, lock[d], u, db, j, name, mode)
      BY <3>6, IdleIs
    <3>8. QED
      BY <3>7 DEF n
  <2>4. CASE lock[c] # EXCLUSIVE_LOCK
    <3>1. lock[d] <= SHARED_LOCK
      <4>1. lock[c] > SHARED_LOCK
        BY <1>1 DEF IInv, LockTypeOK, Levels
      <4>2. QED
        BY <4>1 DEF IInv, Exclusion, Others
    <3>2. g.eState # "finished"
      BY <1>1, <2>4 DEF PagerInv, StateInv
    <3>3. u = i
      BY <1>4, <3>2 DEF Outcome
    <3>4. /\ PagerInv(k, lock[d]) /\ lock[d] \in Levels /\ lock[d] <= SHARED_LOCK
          /\ mode # "delete" /\ ConnK(k, lock[d], i, db, journal, dirent, mode)
          /\ Cold(db, j, name) /\ name.cur # 0 /\ dirent.cur # 0
          /\ SameEnd(k, n) /\ n.pc = k.pc
          /\ n.jfd = IF k.jfd = dirent.cur THEN name.cur ELSE k.jfd
      BY <1>1, <1>4, <1>6, <1>11, <2>1, <2>2, <3>1
    <3> HIDE DEF k, n
    <3>5. ConnK(n, lock[d], i, db, j, name, mode)
      BY <3>4, ReaderSwapped
    <3>6. QED
      BY <3>3, <3>5 DEF n
  <2>5. QED
    BY <2>3, <2>4
<1>14. [LockNext]_lockVars /\ \A d \in Conns : lock'[d] = lock[d]
  BY SameLocks
<1>15. EmptyK(db', journal', dirent', pager', lock')
  <2>1. EmptyDb(db) \/ db[1].cur # NoPage
    BY <1>9, QuietFirst
  <2>2. QED
    BY <1>4, <1>11, <2>1 DEF EmptyK
<1>16. \A d \in Conns : ConnK(pager'[d], lock'[d], u, db', journal', dirent', mode)
  BY <1>4, <1>12, <1>13, <1>14 DEF Others
<1>17. FilesK(u, db', journal', dirent', mode)
  BY <1>4, <1>10
<1>18. QED
  BY <1>4, <1>9, <1>14, <1>15, <1>16, <1>17, AllPromise

\* A call that has a journal to finalize has read or written some of it,
\* unless the journal is one without a header.
LEMMA FinalOff ==
  ASSUME NEW g, NEW l, PagerInv(g, l), g.pc = "final", g.eState # "locked", g.hot \/ g.eState # "open",
         NEW i, NEW d, NEW j, NEW name, NEW m, ConnK(g, l, i, d, j, name, m),
         NEW cells, NEW b, HeaderType(g, cells, b)
  PROVE  /\ g.jfd # 0 /\ name.cur = g.jfd
         /\ g.off = 0 => g.hot /\ ~IsMagic(j[g.jfd][1].cur)
<1>1. g.eState \in {"open", "cachemod", "dbmod", "finished"}
  BY DEF PagerInv, StateInv
<1>2. g.jfd # 0
  BY <1>1 DEF PagerInv, JournalInv
<1>3. name.cur = g.jfd
  BY <1>1 DEF ConnK, JfdK
<1>4. CASE g.hot
  BY <1>2, <1>3, <1>4 DEF ConnK, HotK
<1>5. CASE ~g.hot
  <2>1. g.eState \in {"cachemod", "dbmod", "finished"}
    BY <1>1, <1>5
  <2>2. CASE g.eState = "finished"
    <3>1. WriteK(g, i, d, j[g.jfd], m)
      BY <2>2 DEF ConnK, OwnK, Active
    <3>2. g.off >= 1
      BY <3>1 DEF WriteK
    <3>3. QED
      BY <1>2, <1>3, <3>2
  <2>3. CASE g.eState # "finished"
    <3>0. ~g.commit
      BY <2>1, <2>3 DEF HeaderType, InUndo
    <3>1. UndoK(g, i, d)
      BY <2>1, <2>3, <3>0 DEF ConnK, OwnK, Undoes
    <3>2. g.off >= 1
      BY <3>1 DEF UndoK
    <3>3. QED
      BY <1>2, <1>3, <3>2
  <2>4. QED
    BY <2>2, <2>3
<1>6. QED
  BY <1>4, <1>5

\* The call goes on after a hot journal of which there was nothing to play.
LEMMA HotNothing ==
  ASSUME NEW g, g.pc = "final", g.eState = "open", g.hot = TRUE,
         NEW l, NEW i, NEW d, NEW j, NEW name, NEW m, ConnK(g, l, i, d, j, name, m),
         name.cur = g.jfd, g.jfd # 0, ~IsMagic(j[g.jfd][1].cur), m # "delete",
         NEW h, SameEnd(g, h), h.pc = "end", h.jfd = g.jfd
  PROVE  ConnK(h, l, i, d, j, name, m)
<1>1. TrustK(g, l, i, d, j, name) /\ CacheK(g, i)
  BY DEF ConnK
<1>2. h.eState = "open" /\ h.hot = TRUE /\ h.cache = g.cache /\ h.vers = g.vers
  BY DEF SameEnd
<1>3. Quiet(d, i) /\ Cold(d, j, name)
  BY <1>1 DEF TrustK, Trusts, Cold
<1>4. TrustK(h, l, i, d, j, name)
  BY <1>3 DEF TrustK
<1>5. CacheK(h, i)
  BY <1>1, <1>2 DEF CacheK, NothingCached, Coherent
<1>6. JfdK(h, i, name, m)
  BY <1>2 DEF JfdK
<1>7. HotK(h, i, d, j[h.jfd])
  BY DEF HotK
<1>8. QED
  BY <1>2, <1>4, <1>5, <1>6, <1>7, HotIs

\* Nothing is done to the journal.
LEMMA FinalNothing ==
  ASSUME IInv, NEW b \in Nat, TInv(b), NEW i, PInv(i), NEW c \in Conns, pager[c].pc = "final",
         pager[c].jfd = 0 \/ (mode # "delete" /\ pager[c].off = 0),
         Goto(c, "end"), UNCHANGED <<mode, db, journal, dirent>>, UNCHANGED lockVars
  PROVE  PInv(i)'
<1> DEFINE g == pager[c]
           h == [g EXCEPT !.pc = "end"]
<1>1. /\ PagerInv(g, lock[c]) /\ IsPager(g) /\ HeaderType(g, journal[g.jfd], b)
      /\ g.eState \in {"open", "locked", "cachemod", "dbmod", "finished"} /\ (g.eState = "open" => g.hot)
      /\ g.hot \in BOOLEAN /\ (g.hot <=> g.eState = "open") /\ g.pc = "final"
  BY EndingIsAlone DEF PagerInv, IsPager, HotInv, TInv, PlayPcs
<1>2. ConnK(g, lock[c], i, db, journal, dirent, mode)
  BY DEF PInv
<1>3. Set(c, h)
  BY DEF Goto
<1>4. SameEnd(g, h) /\ h.pc = "end" /\ h.jfd = g.jfd
  BY <1>1 DEF SameEnd, IsPager, Fields
<1>5. g.jfd = 0 \/ (mode # "delete" /\ g.off = 0)
  OBVIOUS
<1> HIDE DEF g, h
<1>6. ConnK(h, lock[c], i, db, journal, dirent, mode)
  <2>1. CASE g.eState = "locked"
    <3>1. /\ h.cache = g.cache /\ h.vers = g.vers /\ h.dbSize = g.dbSize /\ h.nPage = g.nPage
          /\ h.eState = "locked" /\ h.hot = g.hot
      BY <1>4, <2>1 DEF SameEnd
    <3>2. QED
      BY <1>1, <1>2, <1>4, <2>1, <3>1, LockedGoes
  <2>2. CASE g.eState # "locked"
    <3>1. g.hot \/ g.eState # "open"
      BY <1>1
    <3>2. /\ g.jfd # 0 /\ dirent.cur = g.jfd
          /\ g.off = 0 => g.hot /\ ~IsMagic(journal[g.jfd][1].cur)
      BY <1>1, <1>2, <2>2, <3>1, FinalOff
    <3>3. /\ g.eState = "open" /\ g.hot = TRUE /\ ~IsMagic(journal[g.jfd][1].cur)
          /\ mode # "delete"
      BY <1>1, <1>5, <3>2
    <3>4. QED
      BY <1>1, <1>2, <1>4, <3>2, <3>3, HotNothing
  <2>3. QED
    BY <2>1, <2>2
<1>7. [LockNext]_lockVars /\ (\A d \in Others(c) : lock'[d] = lock[d]) /\ lock'[c] = lock[c]
  BY SameLocks DEF Others
<1>8. ~Cutting(pager[c], lock[c]) /\ pager[c].pc # "finsync"
  BY DEF Cutting
<1>9. ConnK(h, lock'[c], i, db, journal, dirent, mode)
  BY <1>6, <1>7
<1>10. QED
  BY <1>3, <1>7, <1>8, <1>9, PagerPromises

\* pager_end_transaction() deletes, truncates or overwrites the journal.
LEMMA FinalizeKept ==
  ASSUME IInv, NEW b \in Nat, TInv(b), NEW i, PInv(i), NEW c \in Conns, Finalize(c)
  PROVE  \E u : PInv(u)'
<1> DEFINE g == pager[c]
           Swapped(new) == [d \in Conns |->
             IF d = c THEN [g EXCEPT !.jfd = new, !.pc = "finsync"]
             ELSE IF pager[d].jfd = g.jfd THEN [pager[d] EXCEPT !.jfd = new]
             ELSE pager[d]]
<1>1. mode \in AllModes
  BY DEF TInv
<1>2. /\ g.pc = "final" /\ UNCHANGED lockVars /\ UNCHANGED <<mode, db>>
      /\ \/ /\ mode = "delete" /\ g.jfd # 0
            /\ dirent' = [cur |-> 0, may |-> MayBe(dirent.may \cup {0})]
            /\ Set(c, [g EXCEPT !.jfd = 0, !.pc = "end"])
            /\ UNCHANGED journal
         \/ /\ mode = "truncate" /\ g.jfd # 0 /\ g.off # 0
            /\ FreeInodes # {}
            /\ journal' = [journal EXCEPT ![NewInode] = NoJournal]
            /\ dirent' = [cur |-> NewInode, may |-> dirent.may \cup {NewInode}]
            /\ pager' = Swapped(NewInode)
         \/ /\ mode = "persist" /\ g.jfd # 0 /\ g.off # 0
            /\ PutCell(g.jfd, 1, Junk) /\ Goto(c, "finsync") /\ UNCHANGED dirent
         \/ /\ g.jfd = 0 \/ (mode # "delete" /\ g.off = 0)
            /\ Goto(c, "end") /\ UNCHANGED <<journal, dirent>>
  BY <1>1 DEF Finalize, AllModes, lockVars
<1>3. CASE g.eState = "locked"
  <2>1. g.off = 0
    BY <1>3 DEF IInv, PagerInv, CleanInv, HotInv
  <2>2. JfdK(g, i, dirent, mode)
    BY DEF PInv, ConnK
  <2>3. mode = "delete" => g.jfd = 0
    BY <1>3, <2>2 DEF JfdK
  <2>4. /\ g.jfd = 0 \/ (mode # "delete" /\ g.off = 0)
        /\ Goto(c, "end") /\ UNCHANGED <<mode, db, journal, dirent>>
    BY <1>2, <2>1, <2>3
  <2>5. PInv(i)'
    BY <1>2, <2>4, FinalNothing
  <2>6. QED
    BY <2>5
<1>4. CASE g.eState # "locked"
  <2>1. PICK u : Outcome(g, u, i, b, mode)
    BY <1>2, <1>4, AtFinal
  <2>2. CASE /\ mode = "delete" /\ g.jfd # 0
             /\ dirent' = [cur |-> 0, may |-> MayBe(dirent.may \cup {0})]
             /\ Set(c, [g EXCEPT !.jfd = 0, !.pc = "end"])
             /\ UNCHANGED journal
    <3>1. PInv(u)'
      BY <1>2, <1>4, <2>1, <2>2, FinalDeleted
    <3>2. QED
      BY <3>1
  <2>3. CASE /\ mode = "truncate" /\ g.jfd # 0 /\ g.off # 0
             /\ FreeInodes # {}
             /\ journal' = [journal EXCEPT ![NewInode] = NoJournal]
             /\ dirent' = [cur |-> NewInode, may |-> dirent.may \cup {NewInode}]
             /\ pager' = Swapped(NewInode)
    <3>1. FreeInodes \in SUBSET Nat /\ FreeInodes # {}
      BY <2>3, Bounds DEF FreeInodes, Inodes
    <3>2. NewInode \in FreeInodes
      BY <3>1, MinOfNat DEF NewInode
    <3>3. NewInode \in Inodes /\ NewInode \notin dirent.may /\ NewInode # dirent.cur
      BY <3>2 DEF FreeInodes, InUse
    <3>4. PInv(u)'
      BY <1>2, <1>4, <2>1, <2>3, <3>3, FinalSwapped
    <3>5. QED
      BY <3>4
  <2>4. CASE /\ mode = "persist" /\ g.jfd # 0 /\ g.off # 0
             /\ PutCell(g.jfd, 1, Junk) /\ Goto(c, "finsync") /\ UNCHANGED dirent
    <3>1. UNCHANGED <<mode, db, dirent>>
      BY <1>2, <2>4
    <3>2. PInv(u)'
      BY <1>2, <1>4, <2>1, <2>4, <3>1, FinalZeroed
    <3>3. QED
      BY <3>2
  <2>5. CASE /\ g.jfd = 0 \/ (mode # "delete" /\ g.off = 0)
             /\ Goto(c, "end") /\ UNCHANGED <<journal, dirent>>
    <3>1. UNCHANGED <<mode, db, journal, dirent>>
      BY <1>2, <2>5
    <3>2. PInv(i)'
      BY <1>2, <2>5, <3>1, FinalNothing
    <3>3. QED
      BY <3>2
  <2>6. QED
    BY <1>2, <2>2, <2>3, <2>4, <2>5
<1>5. QED
  BY <1>3, <1>4

-----------------------------------------------------------------------------
\* A power loss, and the beginning

\* What is left of the database file.
LEMMA FilledIs ==
  ASSUME DbType(db), NEW s \in Survivors(db)
  PROVE  LET f == Filled(s)
         IN /\ From(f, db)
            /\ \A p \in Pages : \A x : db[p] = Stable(x) /\ x # NoPage => f[p] = x
            /\ EmptyDb(db) => \A p \in Pages : f[p] = NoPage
            /\ f[1] = NoPage => \A p \in Pages : f[p] = NoPage
<1> DEFINE S == {0} \cup {q \in DOMAIN s : s[q] # NoPage}
           f == Filled(s)
<1>1. Len(db) = MaxPage /\ MaxPage \in Nat \ {0}
  <2>1. db \in [1..MaxPage -> {db[p] : p \in Pages}]
    BY DEF DbType, Pages
  <2>2. QED
    BY <2>1, Bounds
<1>2. DOMAIN s = Pages /\ \A p \in Pages : s[p] \in db[p].may
  <2>1. Len(s) = MaxPage /\ \A i \in 1..MaxPage : s[i] \in db[i].may
    BY <1>1, SurvivorsAre
  <2>2. QED
    BY <2>1 DEF Pages
<1>3. S \in SUBSET (0..MaxPage) /\ S # {}
  <2>1. DOMAIN s = Pages
    BY <1>2
  <2>2. QED
    BY <1>1, <2>1 DEF Pages
<1>4. Max(S) \in S /\ \A y \in S : y <= Max(S)
  BY <1>1, <1>3, MaxOfUpTo
<1>5. Length(s) = Max(S)
  BY DEF Length
<1>6. \A p \in S : p = 0 \/ (p \in Pages /\ s[p] # NoPage)
  BY <1>2
<1>7. \A p \in Pages : s[p] # NoPage => p \in S
  BY <1>2
<1> HIDE DEF S
<1>8. /\ f = [p \in Pages |-> f[p]]
      /\ \A p \in Pages : f[p] = IF s[p] = NoPage /\ p < Max(S) THEN Zero ELSE s[p]
  BY <1>2, <1>5 DEF Filled
<1> HIDE DEF f
<1>9. EmptyDb(db) => \A p \in Pages : s[p] = NoPage
  BY <1>2 DEF EmptyDb, Stable
<1>10. EmptyDb(db) => Max(S) = 0
  BY <1>4, <1>6, <1>9
<1>11. From(f, db)
  <2>1. ASSUME NEW p \in Pages, f[p] \notin db[p].may
        PROVE  f[p] = Zero /\ NoPage \in db[p].may /\ ~EmptyDb(db)
    <3>1. s[p] = NoPage /\ p < Max(S) /\ f[p] = Zero
      BY <1>2, <1>8, <2>1
    <3>2. p > 0
      BY DEF Pages
    <3>3. QED
      BY <1>2, <1>10, <3>1, <3>2 DEF Pages
  <2>2. QED
    BY <1>8, <2>1 DEF From
<1>12. ASSUME NEW p \in Pages, NEW x, db[p] = Stable(x), x # NoPage
       PROVE  f[p] = x
  <2>1. s[p] = x
    BY <1>2, <1>12 DEF Stable
  <2>2. QED
    BY <1>8, <1>12, <2>1
<1>13. ASSUME EmptyDb(db), NEW p \in Pages
       PROVE  f[p] = NoPage
  <2>1. ~(p < Max(S))
    BY <1>10, <1>13 DEF Pages
  <2>2. QED
    BY <1>8, <1>9, <1>13, <2>1
<1>14. ASSUME f[1] = NoPage, NEW p \in Pages
       PROVE  f[p] = NoPage
  <2>1. 1 \in Pages /\ Zero # NoPage
    BY <1>1, Contents DEF Pages
  <2>2. s[1] = NoPage /\ ~(1 < Max(S))
    BY <1>8, <1>14, <2>1
  <2>3. Max(S) \in 0..MaxPage
    BY <1>3, <1>4
  <2>4. Max(S) # 1
    BY <1>4, <1>6, <2>2
  <2>5. Max(S) = 0
    BY <1>1, <2>2, <2>3, <2>4
  <2>6. p \notin S /\ ~(p < Max(S))
    <3>1. p > 0 /\ p \in Nat
      BY DEF Pages
    <3>2. p \in S => p <= Max(S)
      BY <1>4
    <3>3. QED
      BY <2>5, <3>1, <3>2
  <2>7. QED
    BY <1>7, <1>8, <2>6
<1>15. QED
  BY <1>11, <1>12, <1>13, <1>14 DEF f

\* What a journal covers it covers in what is left of it and of the file.
LEMMA CoveredLeft ==
  ASSUME NEW b \in Nat, NEW cells, cells = [s \in Slots |-> cells[s]], JournalType(cells, b),
         NEW x \in Cells(b), NEW i, IsImage(i), NEW d, NEW n, Covered(cells, x, i, d, n),
         NEW k, FromJournal(k, cells, x), NEW f, NEW d2,
         \A p \in Pages : d2[p] = Stable(f[p]),
         From(f, d), \A p \in Pages : \A y : d[p] = Stable(y) /\ y # NoPage => f[p] = y,
         NEW new, new = [s \in Slots |-> new[s]], \A s \in Slots : new[s] = Stable(k[s])
  PROVE  Covered(new, x, i, d2, n)
<1>1. n \in 2..MaxSlot + 1 /\ MaxSlot \in Nat \ {0} /\ n \in Nat /\ n >= 2
  BY Bounds DEF Covered
<1>2. /\ k[1] = x /\ \A s \in 2..MaxSlot : s \in Slots /\ k[s] \in cells[s].may
      /\ 1 \in Slots
  BY <1>1 DEF FromJournal, Slots
<1>3. \A s \in 2..n - 1 : IsStable(cells[s]) /\ Good(cells[s].cur, i, x.orig) /\ s \in 2..MaxSlot
  <2>1. \A s \in 2..n - 1 : IsStable(cells[s]) /\ Good(cells[s].cur, i, x.orig)
    BY DEF Covered
  <2>2. \A s \in 2..n - 1 : s \in 2..MaxSlot
    BY <1>1
  <2>3. QED
    BY <2>1, <2>2
<1>4. \A s \in 2..n - 1 : k[s] = cells[s].cur
  <2>1. ASSUME NEW s \in 2..n - 1
        PROVE  k[s] = cells[s].cur
    <3>1. k[s] \in cells[s].may /\ IsStable(cells[s])
      BY <1>2, <1>3
    <3>2. cells[s].may = {cells[s].cur}
      BY ONLY <3>1, StableIs
    <3>3. QED
      BY ONLY <3>1, <3>2
  <2>2. QED
    BY ONLY <2>1
<1>5. \A s \in Slots : new[s] = Stable(k[s]) /\ new[s].cur = k[s] /\ new[s].may = {k[s]} /\ IsStable(new[s])
  BY DEF Stable, IsStable
<1>6. new = [s \in Slots |-> new[s]]
  OBVIOUS
<1>7. \A s \in 2..n - 1 : IsStable(new[s]) /\ new[s].cur = cells[s].cur
  BY <1>2, <1>3, <1>4, <1>5
<1>8. Chain(With(new, x), 1, n)
  <2>1. PICK H \in SUBSET Slots : ChainOf(With(cells, x), H, 1, n)
    BY DEF Covered, Chain
  <2>2. \A s \in 1..n - 1 : With(new, x)[s] = With(cells, x)[s]
    <3>0. With(new, x)[1] = x /\ \A s \in Slots \ {1} : With(new, x)[s] = new[s].cur
      BY ONLY <1>6, WithIs
    <3>1. /\ With(cells, x)[1] = x /\ \A s \in Slots \ {1} : With(cells, x)[s] = cells[s].cur
          /\ With(new, x)[1] = x /\ \A s \in Slots \ {1} : With(new, x)[s] = new[s].cur
      BY <3>0, WithIs
    <3>2. \A s \in 1..n - 1 : s = 1 \/ (s \in 2..n - 1 /\ s \in Slots \ {1})
      BY <1>1, <1>2, <1>3
    <3>3. QED
      BY <1>7, <3>1, <3>2
  <2>3. \A h \in H : With(cells, x)[h].nRec \in Nat
    <3>1. \A h \in H : IsMagic(With(cells, x)[h])
      BY <2>1 DEF ChainOf
    <3>2. \A s \in Slots : With(cells, x)[s] \in Cells(b)
      BY WithIsFrom, FromTyped
    <3>3. QED
      BY <2>1, <3>1, <3>2, CellsCount DEF Counts
  <2>4. ChainOf(With(new, x), H, 1, n)
    BY ONLY <1>1, <2>1, <2>2, <2>3, ChainSame
  <2>5. QED
    BY <2>1, <2>4 DEF Chain
<1>9. After(new, n, i, x.orig)
  <2> SUFFICES ASSUME n <= MaxSlot
               PROVE  After(new, n, i, x.orig)
    BY DEF After
  <2>0. n \in 2..MaxSlot
    BY <1>1
  <2>1. n \in Slots /\ k[n] \in cells[n].may /\ new[n].may = {k[n]}
    BY ONLY <2>0, <1>2, <1>5
  <2>2. ASSUME IsMagic(k[n])
        PROVE  LET y == k[n]
               IN /\ n + y.nRec <= MaxSlot
                  /\ \A s \in n + 1..n + y.nRec :
                       /\ IsStable(new[s]) /\ new[s].cur.kind = "record"
                       /\ new[s].cur.nonce = y.nonce /\ Good(new[s].cur, i, x.orig)
                  /\ NoMagic(new, n + y.nRec + 1)
    <3> DEFINE y == k[n]
    <3>1. y.nRec \in Nat
      <4>1. \A s \in Slots : k[s] \in Cells(b)
        BY FromTyped
      <4>2. QED
        BY <2>1, <2>2, <4>1, CellsCount DEF Counts
    <3>2. /\ n + y.nRec <= MaxSlot
          /\ \A s \in n + 1..n + y.nRec :
               /\ IsStable(cells[s]) /\ cells[s].cur.kind = "record"
               /\ cells[s].cur.nonce = y.nonce /\ Good(cells[s].cur, i, x.orig)
          /\ NoMagic(cells, n + y.nRec + 1)
      BY <2>1, <2>2 DEF After, Covered
    <3> HIDE DEF y
    <3>3. \A s \in n + 1..n + y.nRec : s \in 2..MaxSlot /\ s \in Slots
      BY <1>1, <1>2, <3>1, <3>2
    <3>4. \A s \in n + 1..n + y.nRec : k[s] = cells[s].cur
      BY <1>2, <3>2, <3>3, StableIs
    <3>5. \A s \in n + 1..n + y.nRec :
            /\ IsStable(new[s]) /\ new[s].cur.kind = "record"
            /\ new[s].cur.nonce = y.nonce /\ Good(new[s].cur, i, x.orig)
      BY ONLY <1>5, <3>2, <3>3, <3>4
    <3>6. n + y.nRec + 1 <= MaxSlot => n + y.nRec + 1 \in 2..MaxSlot
      BY <1>1, <3>1
    <3>7. NoMagic(new, n + y.nRec + 1)
      BY ONLY <1>2, <1>5, <3>2, <3>6 DEF NoMagic
    <3>8. QED
      BY <3>2, <3>5, <3>7 DEF y
  <2>3. QED
    BY <2>1, <2>2 DEF After
<1>10. \A p \in 1..Len(i) : p \in Pages /\ i[p] # NoPage
  BY ImageIs, Contents
<1>11. \A p \in 1..Len(i) : d2[p] = Stable(i[p]) \/ Recs(new, p, 2, n - 1)
  <2> TAKE p \in 1..Len(i)
  <2>1. CASE d[p] = Stable(i[p])
    BY <1>10, <2>1
  <2>2. CASE Recs(cells, p, 2, n - 1)
    BY <1>7, <2>2 DEF Recs
  <2>3. QED
    BY <2>1, <2>2 DEF Covered
<1>12. Len(i) # 0 => NoPage \notin d2[1].may
  <2> SUFFICES ASSUME Len(i) # 0 PROVE NoPage \notin d2[1].may
    OBVIOUS
  <2>1. NoPage \notin d[1].may /\ 1 \in Pages /\ Zero # NoPage
    BY Bounds, Contents DEF Covered, Pages
  <2>2. f[1] # NoPage
    BY <2>1 DEF From
  <2>3. d2[1] = Stable(f[1])
    BY <2>1
  <2>4. QED
    BY <2>2, <2>3 DEF Stable
<1>13. \A s \in 2..n - 1 : IsStable(new[s]) /\ Good(new[s].cur, i, x.orig)
  BY <1>3, <1>7
<1>14. /\ Len(i) <= x.orig /\ (Len(i) = 0 <=> x.orig = 0)
  BY DEF Covered
<1>15. QED
  BY <1>1, <1>8, <1>9, <1>11, <1>12, <1>13, <1>14 DEF Covered

\* A connection that has done nothing yet relies on nothing.
LEMMA FreshRelies ==
  ASSUME NEW l, NEW i, NEW d, NEW j, NEW name, NEW m
  PROVE  ConnK(Fresh, l, i, d, j, name, m)
<1>1. /\ Fresh.eState = "open" /\ Fresh.pc = "idle" /\ Fresh.hot = FALSE /\ Fresh.jfd = 0
      /\ Fresh.cache = NoCache
  BY DEF Fresh
<1>2. IdleK(Fresh, i)
  BY <1>1 DEF IdleK, CacheK, NothingCached, NoCache
<1>3. QED
  BY <1>1, <1>2, IdleIs

\* When no connection is left it is enough to look at the files.
LEMMA AloneAreFiles ==
  ASSUME pager' = [c \in Conns |-> Fresh], reserver' = {},
         NEW u, IsImage(u), FilesK(u, db', journal', dirent', mode'),
         db'[1].cur = NoPage => EmptyDb(db'), ~Dying(journal', dirent')
  PROVE  PInv(u)'
<1>1. \A c \in Conns : ConnK(pager'[c], lock'[c], u, db', journal', dirent', mode')
  BY FreshRelies
<1>2. QED
  BY <1>1 DEF PInv

\* A file that is on disk as an image is that after the power loss.
LEMMA QuietLeft ==
  ASSUME NEW i, IsImage(i), NEW d, Quiet(d, i), NEW f, NEW d2, \A p \in Pages : d2[p] = Stable(f[p]),
         EmptyDb(d) => \A p \in Pages : f[p] = NoPage,
         \A p \in Pages : \A y : d[p] = Stable(y) /\ y # NoPage => f[p] = y
  PROVE  Quiet(d2, i)
<1>1. CASE Len(i) = 0
  <2>1. \A p \in Pages : f[p] = NoPage
    BY <1>1 DEF Quiet
  <2>2. QED
    BY <1>1, <2>1 DEF Quiet, EmptyDb
<1>2. CASE Len(i) # 0
  <2>1. \A p \in 1..Len(i) : p \in Pages /\ i[p] # NoPage
    BY ImageIs, Contents
  <2>2. \A p \in 1..Len(i) : d[p] = Stable(i[p])
    BY <1>2 DEF Quiet
  <2>3. \A p \in 1..Len(i) : f[p] = i[p]
    BY <2>1, <2>2
  <2>4. QED
    BY <1>2, <2>1, <2>3 DEF Quiet
<1>3. QED
  BY <1>1, <1>2

\* The files after a power loss: what of the journal file e is left, k.
LEMMA FilesLeft ==
  ASSUME NEW b \in Nat, IInv, TInv(b), NEW i, IsImage(i), FilesK(i, db, journal, dirent, mode),
         NEW e \in dirent.may, e # 0, NEW k, FromJournal(k, journal[e], k[1]), k[1] \in journal[e][1].may,
         NEW f, NEW d2, \A p \in Pages : d2[p] = Stable(f[p]), From(f, db),
         \A p \in Pages : \A y : db[p] = Stable(y) /\ y # NoPage => f[p] = y,
         EmptyDb(db) => \A p \in Pages : f[p] = NoPage,
         NEW j2, j2[e] = [s \in Slots |-> Stable(k[s])], NEW name, name = Stable(e)
  PROVE  \E u : /\ IsImage(u) /\ FilesK(u, d2, j2, name, mode) /\ ~Dying(j2, name)
                /\ u = i \/ u \in Results(db, journal, e)
<1> DEFINE cells == journal[e]
           x == k[1]
<1>1. /\ e \in Inodes /\ 1 \in Slots /\ cells = [s \in Slots |-> cells[s]] /\ JournalType(cells, b)
      /\ x \in Cells(b) /\ x \in cells[1].may /\ FromJournal(k, cells, x) /\ DbType(db)
  <2>1. FilesOK(b, db, journal, dirent)
    BY FilesAre
  <2>2. /\ e \in Inodes /\ 1 \in Slots /\ cells = [s \in Slots |-> cells[s]] /\ JournalType(cells, b)
        /\ cells[1].may \subseteq Cells(b)
    BY <2>1, FirstSlot
  <2>3. DbType(db)
    BY DEF TInv
  <2>4. QED
    BY <2>2, <2>3
<1>2. j2[e][1] = Stable(x) /\ j2[e][1].cur = x /\ j2[e][1].may = {x} /\ IsStable(j2[e][1])
  <2>1. j2[e] = [s \in Slots |-> Stable(k[s])] /\ 1 \in Slots
    BY <1>1
  <2>2. j2[e][1] = Stable(x)
    BY ONLY <2>1
  <2>3. QED
    BY ONLY <2>2 DEF Stable, IsStable
<1>3. name.cur = e /\ name.may = {e} /\ ~Dying(j2, name)
  BY <1>2 DEF Stable, Dying
<1>4. IF IsMagic(x) THEN EmptyDb(db) \/ Revives(cells, x, i, db, mode) ELSE Quiet(db, i)
  BY <1>1 DEF FilesK, NamedK
<1>5. j2[e] = [s \in Slots |-> Stable(k[s])]
  OBVIOUS
<1> HIDE DEF cells, x
<1>6. CASE Quiet(db, i) /\ ~IsMagic(x)
  <2>1. Quiet(d2, i)
    BY <1>6, QuietLeft
  <2>2. NamedK(e, i, d2, j2, mode)
    BY <1>2, <1>6, <2>1 DEF NamedK
  <2>3. FilesK(i, d2, j2, name, mode)
    BY <1>2, <1>3, <1>6, <2>1, <2>2 DEF FilesK
  <2>4. QED
    BY <1>3, <2>3
<1>7. CASE EmptyDb(db)
  <2>1. Len(i) = 0
    <3>1. FilesOK(b, db, journal, dirent)
      BY FilesAre
    <3>2. QED
      BY <1>7, <3>1, EmptyIs
  <2>2. EmptyDb(d2) /\ Quiet(d2, i)
    BY <1>7, <2>1 DEF EmptyDb, Quiet
  <2>3. NamedK(e, i, d2, j2, mode)
    BY <2>2 DEF NamedK
  <2>4. FilesK(i, d2, j2, name, mode)
    BY <1>2, <1>3, <2>1, <2>2, <2>3 DEF FilesK
  <2>5. QED
    BY <1>3, <2>4
<1>8. CASE IsMagic(x) /\ Revives(cells, x, i, db, mode)
  <2>1. PICK v, n : IsImage(v) /\ Covered(cells, x, v, db, n)
    BY <1>8 DEF Revives
  <2>1a. b \in Nat
    OBVIOUS
  <2>1b. /\ cells = [s \in Slots |-> cells[s]] /\ JournalType(cells, b) /\ x \in Cells(b)
         /\ IsImage(v) /\ Covered(cells, x, v, db, n) /\ FromJournal(k, cells, x)
         /\ \A p \in Pages : d2[p] = Stable(f[p])
         /\ From(f, db) /\ \A p \in Pages : \A y : db[p] = Stable(y) /\ y # NoPage => f[p] = y
    BY <1>1, <2>1
  <2>1c. j2[e] = [s \in Slots |-> j2[e][s]] /\ \A s \in Slots : j2[e][s] = Stable(k[s])
    BY <1>5
  <2>2a. Covered(j2[e], x, v, d2, n)
    BY ONLY <2>1a, <2>1b, <2>1c, CoveredLeft
  <2>3. FilesK(v, d2, j2, name, mode)
    BY <1>2, <1>3, <1>8, <2>1, <2>2a, CoveredFiles
  <2>4. v \in Results(db, journal, e)
    <3>1. Result(Cur(db), With(cells, x)) = v
      BY <1>1, <2>1, CoveredBrings, CurIsFrom, WithIsFrom
    <3>2. With(cells, x) \in JournalsOf(journal, e)
      BY <1>1 DEF JournalsOf, cells
    <3>3. QED
      BY <3>1, <3>2 DEF Results
  <2>5. QED
    BY <1>3, <2>1, <2>3, <2>4
<1>9. QED
  BY <1>4, <1>6, <1>7, <1>8

\* The power fails: the image is the one that was committed, or one that a
\* power loss could bring back.
LEMMA PowerLossKept ==
  ASSUME IInv, NEW b \in Nat, TInv(b), NEW i, PInv(i), PowerLoss
  PROVE  \E u : PInv(u)' /\ (u = i \/ \E e \in dirent.may : u \in Results(db, journal, e))
<1>1. pager' = [c \in Conns |-> Fresh] /\ mode' = mode /\ reserver' = {}
  BY DEF PowerLoss, Vanish, IInv, LockTypeOK
<1>2. PICK s \in Survivors(db) : db' = [p \in Pages |-> Stable(Filled(s)[p])]
  BY DEF PowerLoss
<1>3. PICK e \in dirent.may :
        /\ dirent' = Stable(e)
        /\ IF e = 0 THEN journal' = [k \in Inodes |-> NoJournal]
           ELSE \E j \in Survivors(journal[e]) :
                  journal' = [k \in Inodes |->
                    IF k = e THEN [t \in Slots |-> Stable(j[t])] ELSE NoJournal]
  BY DEF PowerLoss
<1> DEFINE f == Filled(s)
<1>4. IsImage(i) /\ FilesK(i, db, journal, dirent, mode) /\ DbType(db) /\ 1 \in Pages
  BY Bounds DEF PInv, TInv, Pages
<1>5. /\ From(f, db)
      /\ \A p \in Pages : \A y : db[p] = Stable(y) /\ y # NoPage => f[p] = y
      /\ EmptyDb(db) => \A p \in Pages : f[p] = NoPage
      /\ f[1] = NoPage => \A p \in Pages : f[p] = NoPage
  BY <1>2, <1>4, FilledIs
<1>6. \A p \in Pages : db'[p] = Stable(f[p]) /\ db'[p].cur = f[p]
  BY <1>2 DEF Stable
<1> HIDE DEF f
<1>7. db'[1].cur = NoPage => EmptyDb(db')
  BY <1>4, <1>5, <1>6 DEF EmptyDb
<1>8. CASE e = 0
  <2>1. Quiet(db, i)
    BY <1>3, <1>4, <1>8 DEF FilesK, NamedK
  <2>2. Quiet(db', i)
    BY <1>4, <1>5, <1>6, <2>1, QuietLeft
  <2>3. dirent'.cur = 0 /\ dirent'.may = {0}
    BY <1>3, <1>8 DEF Stable
  <2>4. FilesK(i, db', journal', dirent', mode') /\ ~Dying(journal', dirent')
    BY <2>2, <2>3 DEF FilesK, NamedK, Dying
  <2>5. PInv(i)'
    BY <1>1, <1>4, <1>7, <2>4, AloneAreFiles
  <2>6. QED
    BY <2>5
<1>9. CASE e # 0
  <2>1. PICK j \in Survivors(journal[e]) :
          journal' = [k \in Inodes |-> IF k = e THEN [t \in Slots |-> Stable(j[t])] ELSE NoJournal]
    BY <1>3, <1>9
  <2>2. /\ e \in Inodes /\ journal[e] = [t \in Slots |-> journal[e][t]]
        /\ 1 \in Slots /\ e \in 0..MaxInode
    <3>1. e \in 0..MaxInode /\ 1 \in Slots
      BY <1>3, Bounds DEF IInv, FilesInv, Slots
    <3>2. QED
      BY <1>9, <3>1, JournalOf
  <2>3. Len(journal[e]) = MaxSlot /\ MaxSlot \in Nat
    <3>1. journal[e] \in [1..MaxSlot -> {journal[e][t] : t \in Slots}]
      BY <2>2 DEF Slots
    <3>2. QED
      BY <3>1, Bounds
  <2>4. \A t \in Slots : j[t] \in journal[e][t].may
    BY <2>3, SurvivorsAre DEF Slots
  <2> DEFINE k == [t \in Slots |-> j[t]]
  <2>5. FromJournal(k, journal[e], k[1]) /\ k[1] \in journal[e][1].may
    BY <2>2, <2>4 DEF FromJournal
  <2>6. journal'[e] = [t \in Slots |-> Stable(k[t])]
    BY <2>1, <2>2
  <2> HIDE DEF k
  <2>7. PICK u : /\ IsImage(u) /\ FilesK(u, db', journal', dirent', mode) /\ ~Dying(journal', dirent')
                 /\ u = i \/ u \in Results(db, journal, e)
    BY <1>3, <1>4, <1>5, <1>6, <1>9, <2>5, <2>6, FilesLeft
  <2>8. PInv(u)'
    BY <1>1, <1>7, <2>7, AloneAreFiles
  <2>9. QED
    BY <2>7, <2>8
<1>10. QED
  BY <1>8, <1>9

\* At first the image is what the database file holds.
LEMMA InitPromises ==
  ASSUME Init
  PROVE  \E i : PInv(i) /\ UndoneNow(db, journal, dirent) = {}
<1>1. PICK x \in Scenarios, v \in Values :
        /\ mode = x.mode
        /\ db = [p \in Pages |->
                  Stable(IF p > x.size THEN NoPage
                         ELSE IF p = 1 THEN FirstPage(x.size) ELSE v)]
  BY DEF Init
<1>2. /\ journal = [i \in Inodes |-> NoJournal] /\ dirent = Stable(0)
      /\ pager = [c \in Conns |-> Fresh] /\ reserver = {}
  BY DEF Init, LockInit
<1>3. x.size \in 0..MaxPage
  BY PagerAssumption DEF PagerAssumption
<1> DEFINE i == [p \in 1..x.size |-> IF p = 1 THEN FirstPage(x.size) ELSE v]
<1>4. x.size \in Nat /\ Len(i) = x.size /\ i = [p \in 1..x.size |-> i[p]] /\ MaxPage \in Nat \ {0}
  BY <1>3, Bounds
<1>5. \A p \in 1..x.size : i[p] = IF p = 1 THEN FirstPage(x.size) ELSE v
  OBVIOUS
<1> HIDE DEF i
<1>6. x.size # 0 => FirstPage(x.size) \in HeaderPages /\ FirstPage(x.size) \in PageContents
                    /\ FirstPage(x.size).nPage = x.size
  BY <1>3, <1>4 DEF FirstPage, HeaderPages, PageContents, Pages
<1>7. IsImage(i)
  <2>1. i \in [1..x.size -> PageContents]
    <3>1. \A p \in 1..x.size : i[p] \in PageContents
      <4>1. v \in PageContents
        BY DEF PageContents
      <4>2. \A p \in 1..x.size : x.size # 0
        BY <1>4
      <4>3. QED
        BY <1>5, <1>6, <4>1, <4>2
    <3>2. QED
      BY <1>4, <3>1
  <2>2. x.size > 0 => i[1] \in HeaderPages /\ i[1].nPage = x.size
    BY <1>4, <1>5, <1>6
  <2>3. QED
    BY <1>3, <2>1, <2>2 DEF IsImage
<1>8. Quiet(db, i)
  <2>1. CASE x.size = 0
    <3>1. \A p \in Pages : p > x.size
      BY <2>1 DEF Pages
    <3>2. QED
      BY <1>1, <1>4, <2>1, <3>1 DEF Quiet, EmptyDb
  <2>2. CASE x.size # 0
    <3>1. \A p \in 1..x.size : p \in Pages /\ ~(p > x.size)
      BY <1>3, <1>4 DEF Pages
    <3>2. \A p \in 1..x.size : db[p] = Stable(i[p])
      BY <1>1, <1>5, <3>1
    <3>3. QED
      BY <1>4, <2>2, <3>2 DEF Quiet
  <2>3. QED
    BY <2>1, <2>2
<1>9. dirent.cur = 0 /\ dirent.may = {0}
  BY <1>2 DEF Stable
<1>10. FilesK(i, db, journal, dirent, mode) /\ ~Dying(journal, dirent)
  BY <1>8, <1>9 DEF FilesK, NamedK, Dying
<1>11. db[1].cur = NoPage => EmptyDb(db)
  <2>1. CASE Len(i) = 0
    BY <1>8, <2>1 DEF Quiet
  <2>2. CASE Len(i) # 0
    <3>1. 1 \in 1..Len(i) /\ i[1] # NoPage
      BY <1>7, <2>2, FirstIs
    <3>2. db[1] = Stable(i[1])
      BY <1>8, <2>2, <3>1 DEF Quiet
    <3>3. QED
      BY <3>1, <3>2 DEF Stable
  <2>3. QED
    BY <2>1, <2>2
<1>12. \A c \in Conns : ConnK(pager[c], lock[c], i, db, journal, dirent, mode)
  BY <1>2, FreshRelies
<1>13. PInv(i)
  BY <1>2, <1>7, <1>10, <1>11, <1>12 DEF PInv
<1>14. UndoneNow(db, journal, dirent) = {}
  BY <1>9, OneOutcome
<1>15. QED
  BY <1>13, <1>14

-----------------------------------------------------------------------------
\* Every step

\* The committed image stays what it is, unless a journal is finalized or the
\* power fails.
LEMMA ReadingKept ==
  ASSUME IInv, NEW b \in Nat, TInv(b), NEW i, PInv(i), NEW c \in Conns, Reading(c)
  PROVE  PInv(i)'
<1>1. ASSUME NEW p \in Pages, Read(c, p) PROVE PInv(i)'
  BY <1>1, ReadKept
<1>2. CASE SharedLock(c)
  BY <1>2, SharedLockKept
<1>3. CASE JournalExists(c)
  BY <1>3, JournalExistsKept
<1>4. CASE CheckReserved(c)
  BY <1>4, CheckReservedKept
<1>5. CASE EmptyReserve(c)
  BY <1>5, EmptyReserveKept
<1>6. CASE EmptyDelete(c)
  BY <1>6, EmptyDeleteKept
<1>7. CASE FirstByte(c)
  BY <1>7, FirstByteKept
<1>8. CASE HotLock(c)
  BY <1>8, HotLockKept
<1>9. CASE HotOpen(c)
  BY <1>9, HotOpenKept
<1>10. CASE HotSync(c)
  BY <1>10, HotSyncKept
<1>11. CASE Validate(c)
  BY <1>11, ValidateKept
<1>12. CASE EndRead(c)
  BY <1>12, EndReadKept
<1>13. QED
  BY <1>1, <1>2, <1>3, <1>4, <1>5, <1>6, <1>7, <1>8, <1>9, <1>10, <1>11, <1>12 DEF Reading

\* The same of the steps of a write-transaction, where none may
\* shrink the database in the mode that deletes the journal;
LEMMA WritingKept ==
  ASSUME "delete" \notin ShrinkModes,
         IInv, NEW b \in Nat, TInv(b), NEW i, PInv(i), NEW c \in Conns, Writing(c)
  PROVE  PInv(i)'
<1>1. ASSUME NEW p \in Pages, NEW x \in Values \cup {FirstPage(1)}, Write(c, p, x) PROVE PInv(i)'
  BY <1>1, WriteKept
<1>2. ASSUME NEW n \in Pages, Commit(c, n) PROVE PInv(i)'
  BY <1>2, CommitKept
<1>3. ASSUME NEW p \in Pages, Spill(c, p) PROVE PInv(i)'
  BY <1>3, SpillKept
<1>4. CASE BeginWrite(c)
  BY <1>4, BeginWriteKept
<1>5. CASE BeginCommit(c)
  BY <1>5, BeginCommitKept
<1>6. CASE CommitNothing(c)
  BY <1>6, CommitNothingKept
<1>7. CASE Pending(c)
  BY <1>7, PendingKept
<1>8. CASE Exclusive(c)
  BY <1>8, ExclusiveKept
<1>9. CASE Busy(c)
  BY <1>9, BusyKept
<1>10. CASE JSync(c)
  BY <1>10, JSyncKept
<1>11. CASE JHeader(c)
  BY <1>11, JHeaderKept
<1>12. CASE JSync2(c)
  BY <1>12, JSync2Kept
<1>13. CASE WritePage(c)
  BY <1>13, WritePageKept
<1>14. CASE WriteSpilled(c)
  BY <1>14, WriteSpilledKept
<1>15. CASE Grow(c)
  BY <1>15, GrowKept
<1>16. CASE DbSync(c)
  BY <1>16, DbSyncKept
<1>17. QED
  BY <1>1, <1>2, <1>3, <1>4, <1>5, <1>6, <1>7, <1>8, <1>9, <1>10, <1>11, <1>12, <1>13,
     <1>14, <1>15, <1>16 DEF Writing

\* of the steps with which it ends;
LEMMA EndingKept ==
  ASSUME IInv, NEW b \in Nat, TInv(b), NEW i, PInv(i), NEW c \in Conns, Ending(c), ~Finalize(c)
  PROVE  PInv(i)'
<1>1. CASE Rollback(c)
  BY <1>1, RollbackKept
<1>2. CASE PlayHeader(c)
  BY <1>2, PlayHeaderKept
<1>3. CASE PlayRecord(c)
  BY <1>3, PlayRecordKept
<1>4. CASE PlayEnd(c)
  BY <1>4, PlayEndKept
<1>5. CASE FinSync(c)
  BY <1>5, FinSyncKept
<1>6. CASE Conclude(c)
  BY <1>6, ConcludeKept
<1>7. QED
  BY <1>1, <1>2, <1>3, <1>4, <1>5, <1>6 DEF Ending

\* and of errors and killed processes, outside of the places in Exposed.
LEMMA FaultKept ==
  ASSUME ~DoubleFault,
         IInv, NEW b \in Nat, TInv(b), NEW i, PInv(i), NEW c \in Conns, Fault(c)
  PROVE  PInv(i)'
<1>1. CASE IoError(c)
  BY <1>1, IoErrorKept
<1>2. CASE ErrorUnlock(c)
  BY <1>2, ErrorUnlockKept
<1>3. CASE Crash(c)
  BY <1>3, CrashKept
<1>4. QED
  BY <1>1, <1>2, <1>3 DEF Fault

Promise == \E i : PInv(i)

\* After every step there is a committed image again.
LEMMA StepPromises ==
  ASSUME ~DoubleFault, "delete" \notin ShrinkModes, IInv, Typed, Promise, [Next]_vars
  PROVE  Promise'
<1>1. PICK b \in Nat : TInv(b)
  BY DEF Typed
<1>2. PICK i : PInv(i)
  BY DEF Promise
<1>3. ASSUME NEW c \in Conns, Reading(c) \/ Writing(c) \/ Ending(c) \/ Fault(c)
      PROVE  Promise'
  <2>1. CASE Finalize(c)
    <3>1. \E u : PInv(u)'
      BY <1>1, <1>2, <2>1, FinalizeKept
    <3>2. QED
      BY <3>1 DEF Promise
  <2>2. CASE ~Finalize(c)
    <3>1. PInv(i)'
      BY <1>1, <1>2, <1>3, <2>2, ReadingKept, WritingKept, EndingKept, FaultKept
    <3>2. QED
      BY <3>1 DEF Promise
  <2>3. QED
    BY <2>1, <2>2
<1>4. CASE PowerLoss
  <2>1. \E u : PInv(u)'
    BY <1>1, <1>2, <1>4, PowerLossKept
  <2>2. QED
    BY <2>1 DEF Promise
<1>5. CASE UNCHANGED vars
  <2>1. PInv(i)'
    BY <1>2, <1>5 DEF vars, PInv
  <2>2. QED
    BY <2>1 DEF Promise
<1>6. QED
  BY <1>3, <1>4, <1>5 DEF Next

\* What the files and the pagers amount to at any time is one committed image.
THEOREM CommittedImageKept ==
  ASSUME ~DoubleFault, "delete" \notin ShrinkModes
  PROVE  Spec => [](IInv /\ Typed /\ Promise)
<1>1. Init => IInv /\ Typed /\ Promise
  BY InitInv, InitTyped, InitPromises DEF Typed, Promise
<1>2. IInv /\ Typed /\ Promise /\ [Next]_vars => (IInv /\ Typed /\ Promise)'
  BY StepInv, StepTyped, StepPromises
<1>3. QED
  BY <1>1, <1>2, PTL DEF Spec

-----------------------------------------------------------------------------
\* Rule (1): the journal is written ahead of the file

\* A record of page p is on disk, with the content x.
Brought(cells, p, x) ==
  \E s \in Slots : /\ cells[s] = Stable(cells[s].cur) /\ cells[s].cur.kind = "record"
                  /\ cells[s].cur.pgno = p /\ cells[s].cur.data = x

\* What is on record of a journal that covers an image is there for good, in a
\* segment whose header counts it.
LEMMA RecsOnRecord ==
  ASSUME NEW b \in Nat, NEW cells, cells = [s \in Slots |-> cells[s]], JournalType(cells, b),
         \A s \in Slots : cells[s].cur \in Cells(b),
         IsStable(cells[1]), NEW i, IsImage(i), NEW d, NEW n, Covered(cells, cells[1].cur, i, d, n),
         NEW p \in 1..Len(i), Recs(cells, p, 2, n - 1)
  PROVE  OnRecord(cells, MaxSlot + 1, p) /\ Brought(cells, p, i[p])
<1>1. MaxSlot \in Nat \ {0} /\ 1 \in Slots /\ Slots = 1..MaxSlot
  BY PagerAssumption DEF Slots
<1>2. /\ n \in 2..MaxSlot + 1 /\ Chain(With(cells, cells[1].cur), 1, n)
      /\ \A s \in 2..n - 1 : IsStable(cells[s]) /\ Good(cells[s].cur, i, cells[1].cur.orig)
  BY DEF Covered
<1>3. With(cells, cells[1].cur) = Cur(cells) /\ \A s \in Slots : Cur(cells)[s] = cells[s].cur
  BY WithCur, WithIs
<1>4. PICK H \in SUBSET Slots : ChainOf(Cur(cells), H, 1, n)
  BY <1>2, <1>3 DEF Chain
<1>5. PICK s \in 2..n - 1 : cells[s].cur.kind = "record" /\ cells[s].cur.pgno = p
  BY DEF Recs
<1>6. n \in Nat /\ s \in Nat /\ s \in Slots /\ 2 <= s /\ s < n /\ s <= MaxSlot
  BY <1>1, <1>2, <1>5
<1>7. H \subseteq 1..n - 1 /\ 1 \in H
  BY <1>2, <1>4 DEF ChainOf
<1>8. \A h \in H : /\ h \in Slots /\ h \in 1..n - 1
                   /\ IsMagic(cells[h].cur) /\ Segment(Cur(cells), h)
                   /\ h + cells[h].cur.nRec + 1 \in H \cup {n} /\ cells[h].cur.nRec \in Nat
  <2>1. ASSUME NEW h \in H
        PROVE  /\ h \in Slots /\ h \in 1..n - 1
               /\ IsMagic(cells[h].cur) /\ Segment(Cur(cells), h)
               /\ h + cells[h].cur.nRec + 1 \in H \cup {n} /\ cells[h].cur.nRec \in Nat
    <3>1. h \in Slots /\ h \in 1..n - 1 /\ Cur(cells)[h] = cells[h].cur
      BY <1>3, <1>7
    <3>2. IsMagic(cells[h].cur) /\ Segment(Cur(cells), h) /\ h + cells[h].cur.nRec + 1 \in H \cup {n}
      BY <1>4, <3>1 DEF ChainOf
    <3>3. Counts([k \in Slots |-> cells[k].cur])
      <4>1. \A k \in Slots : [q \in Slots |-> cells[q].cur][k] \in Cells(b)
        OBVIOUS
      <4>2. QED
        BY <4>1, CellsCount
    <3>4. QED
      BY <3>1, <3>2, <3>3 DEF Counts
  <2>2. QED
    BY <2>1
<1> DEFINE before == {h \in H : h <= s}
           h == Max(before)
<1>9. before \in SUBSET (0..s) /\ before # {}
  BY <1>6, <1>7
<1>10. h \in before /\ \A y \in before : y <= h
  BY <1>6, <1>9, MaxOfUpTo
<1> HIDE DEF h
<1>11. /\ h \in H /\ h <= s /\ h \in Slots /\ h \in 1..n - 1 /\ IsMagic(cells[h].cur)
       /\ Segment(Cur(cells), h) /\ cells[h].cur.nRec \in Nat
       /\ h + cells[h].cur.nRec + 1 \in H \cup {n}
  BY <1>8, <1>10
<1>12. h # s
  BY <1>5, <1>11 DEF IsMagic
<1>13. s <= h + cells[h].cur.nRec
  <2>1. SUFFICES ASSUME h + cells[h].cur.nRec + 1 <= s PROVE FALSE
    BY <1>6, <1>11
  <2>2. h + cells[h].cur.nRec + 1 \in before
    BY <1>6, <1>11, <2>1
  <2>3. h + cells[h].cur.nRec + 1 <= h
    BY <1>10, <2>2
  <2>4. QED
    BY <1>11, <2>3
<1>14. s \in h + 1..h + cells[h].cur.nRec
  BY <1>6, <1>11, <1>12, <1>13
<1>15. cells[s].cur.nonce = cells[h].cur.nonce
  BY <1>3, <1>6, <1>11, <1>14 DEF Segment
<1>16. IsStable(cells[h]) /\ IsStable(cells[s])
  <2>1. h = 1 \/ h \in 2..n - 1
    BY <1>2, <1>11
  <2>2. QED
    BY <1>2, <1>5, <2>1
<1>17. cells[s].cur.data = i[p]
  <2>1. Good(cells[s].cur, i, cells[1].cur.orig)
    BY <1>2, <1>5
  <2>2. p <= Len(i)
    BY ImageIs
  <2>3. QED
    BY <1>5, <2>1, <2>2 DEF Good
<1>18. OnRecord(cells, MaxSlot + 1, p)
  <2>1. h \in 1..(MaxSlot + 1) - 1 /\ s \in 1..(MaxSlot + 1) - 1 /\ h < s
    BY <1>1, <1>6, <1>11, <1>12
  <2>2. cells[h].cur.kind = "header" /\ cells[h].cur.magic
    BY <1>11 DEF IsMagic
  <2>3. QED
    BY <1>5, <1>6, <1>11, <1>13, <1>15, <1>16, <2>1, <2>2 DEF OnRecord, IsStable, IsRecordOf
<1>19. QED
  BY <1>5, <1>6, <1>16, <1>17, <1>18 DEF IsStable, Brought

\* The journal stays as it is while the file is written.
LEMMA FileAlone ==
  ASSUME NEW c \in Conns, Reading(c) \/ Writing(c) \/ Ending(c) \/ Fault(c), db' # db
  PROVE  journal' = journal /\ dirent' = dirent /\ ~Finalize(c)
<1>1. \/ WritePage(c) \/ WriteSpilled(c) \/ Grow(c) \/ DbSync(c)
      \/ PlayHeader(c) \/ PlayRecord(c) \/ Conclude(c) \/ IoError(c)
  <2>1. CASE Reading(c)
    BY <2>1 DEF Reading, SharedLock, JournalExists, CheckReserved, EmptyReserve,
       EmptyDelete, FirstByte, HotLock, HotOpen, HotSync, Validate, EndRead, Read, files
  <2>2. CASE Writing(c)
    BY <2>2 DEF Writing, BeginWrite, BeginCommit, CommitNothing, Write, Commit, Spill,
       Pending, Exclusive, Busy, JSync, JHeader, JSync2, files
  <2>3. CASE Ending(c)
    BY <2>3 DEF Ending, Rollback, PlayEnd, Finalize, FinSync, files
  <2>4. CASE Fault(c)
    BY <2>4 DEF Fault, ErrorUnlock, Crash, files
  <2>5. QED
    BY <2>1, <2>2, <2>3, <2>4
<1>2. ~Finalize(c)
  BY DEF Finalize
<1>3. QED
  BY <1>1, <1>2 DEF WritePage, WriteSpilled, Grow, DbSync, PlayHeader, PlayRecord, Conclude, IoError

\* The page was on record already, or it would have been changed on disk while
\* nothing brings it back.
LEMMA WrittenOnRecord ==
  ASSUME ~DoubleFault, "delete" \notin ShrinkModes, IInv, NEW b \in Nat, TInv(b), NEW i, PInv(i),
         Next, NEW c \in Conns, pager[c].pc = "wdb",
         NEW p \in 1..Len(i), db'[p] # db[p]
  PROVE  LET cells == journal[pager[c].jfd]
         IN OnRecord(cells, MaxSlot + 1, p) /\ Brought(cells, p, i[p])
<1> DEFINE g == pager[c]
           cells == journal[g.jfd]
<1>1. g.eState = "dbmod"
  BY DEF IInv, PagerInv, StateInv, PlayPcs, CommitPcs, ReadPcs
<1>2. Active(g)
  BY <1>1 DEF Active, LoggingPcs
<1>3. /\ g.jfd # 0 /\ g.jfd \in Inodes /\ dirent.cur = g.jfd /\ IsImage(i) /\ DbType(db)
      /\ cells = [s \in Slots |-> cells[s]] /\ JournalType(cells, b)
      /\ LogK(g, i, db, cells)
  BY <1>1, <1>2, ActiveHas
<1>4. /\ IsStable(cells[1]) /\ IsMagic(cells[1].cur)
      /\ Covered(cells, cells[1].cur, i, db, g.hdr)
  BY <1>1, <1>3 DEF LogK
<1>5. \A s \in Slots : cells[s].cur \in Cells(b)
  <2>1. \A s \in Slots : cells[s].cur \in cells[s].may /\ cells[s].may \subseteq Cells(b)
    <3>1. g.jfd \in 0..MaxInode
      BY <1>3, PagerAssumption DEF Inodes
    <3>2. QED
      BY <1>3, <3>1, JournalOf DEF JournalType, CellOf
  <2>2. QED
    BY <2>1
<1>6. Len(i) # 0 /\ p \in Pages /\ i[p] # NoPage
  BY <1>3, ImageIs, Contents
<1>7. ASSUME NEW d, NEW n, Covered(cells, cells[1].cur, i, d, n), d[p] # Stable(i[p])
      PROVE  OnRecord(cells, MaxSlot + 1, p) /\ Brought(cells, p, i[p])
  <2>1. Recs(cells, p, 2, n - 1)
    BY <1>7 DEF Covered
  <2>2. b \in Nat
    OBVIOUS
  <2>3. p \in 1..Len(i)
    OBVIOUS
  <2> HIDE DEF cells, g
  <2>4. QED
    BY ONLY <1>3, <1>4, <1>5, <1>7, <2>1, <2>2, <2>3, RecsOnRecord
<1>8. CASE db[p] # Stable(i[p])
  BY <1>4, <1>7, <1>8
<1>9. CASE db[p] = Stable(i[p])
  <2>1. CASE PowerLoss
    <3>1. PICK s \in Survivors(db) : db' = [q \in Pages |-> Stable(Filled(s)[q])]
      BY <2>1 DEF PowerLoss
    <3>2. Filled(s)[p] = i[p]
      BY <1>3, <1>6, <1>9, FilledIs
    <3>3. QED
      BY <1>6, <1>9, <3>1, <3>2
  <2>2. ASSUME NEW a \in Conns, Reading(a) \/ Writing(a) \/ Ending(a) \/ Fault(a)
        PROVE  \E n : Covered(cells, cells[1].cur, i, db', n) /\ db'[p] # Stable(i[p])
    <3>1. journal' = journal /\ dirent' = dirent /\ ~Finalize(a)
      BY <2>2, FileAlone
    <3>2. PInv(i)'
      BY <2>2, <3>1, ReadingKept, WritingKept, EndingKept, FaultKept
    <3>3. FilesK(i, db', journal, dirent, mode')
      BY <3>1, <3>2 DEF PInv
    <3>4. \E n : Covered(cells, cells[1].cur, i, db', n)
      BY <1>3, <1>4, <1>6, <3>3 DEF FilesK
    <3>5. QED
      BY <1>9, <3>4
  <2>3. QED
    BY <1>7, <2>1, <2>2 DEF Next
<1>10. QED
  BY <1>8, <1>9

\* What the variables of MCPager keep.
LEMMA OfFilesHolds == MCSpec => [](ofFiles = PromiseOfFiles /\ ofPagers = PromiseOfPagers)
<1>1. MCInit => ofFiles = PromiseOfFiles /\ ofPagers = PromiseOfPagers
  BY DEF MCInit
<1>2. /\ ofFiles = PromiseOfFiles /\ ofPagers = PromiseOfPagers
      /\ [MCNext]_<<vars, ofFiles, ofPagers>>
      => (ofFiles = PromiseOfFiles /\ ofPagers = PromiseOfPagers)'
  <2>1. files' = files => PromiseOfFiles' = PromiseOfFiles
    BY ImageNowIs, UndoneNowIs DEF PromiseOfFiles, files
  <2>2. UNCHANGED vars => files' = files /\ PromiseOfPagers' = PromiseOfPagers
    BY DEF vars, files, PromiseOfPagers, View, Content, Writers
  <2>3. QED
    BY <2>1, <2>2 DEF MCNext
<1>3. QED
  BY <1>1, <1>2, PTL DEF MCSpec

\* A step of MCPager is one of Pager.
LEMMA McIsPager == MCSpec => Spec
<1>1. MCInit => Init
  BY DEF MCInit
<1>2. [MCNext]_<<vars, ofFiles, ofPagers>> => [Next]_vars
  BY DEF MCNext
<1>3. QED
  BY <1>1, <1>2, PTL DEF MCSpec, Spec

\* The image that MCPager keeps is the one that the invariant says.
LEMMA KeptImage ==
  ASSUME IInv, NEW b \in Nat, TInv(b), NEW i, PInv(i), ofFiles = PromiseOfFiles
  PROVE  ofFiles.image = i /\ IsImage(i) /\ ofFiles.undone = UndoneNow(db, journal, dirent)
<1>1. IsImage(i) /\ FilesK(i, db, journal, dirent, mode)
  BY DEF PInv
<1>2. FilesOK(b, db, journal, dirent)
  BY FilesAre
<1>3. b \in Nat
  OBVIOUS
<1>4. ImageNow(db, journal, dirent) = i
  BY ONLY <1>1, <1>2, <1>3, FilesBring
<1>5. QED
  BY <1>1, <1>4, ImageNowIs, UndoneNowIs DEF PromiseOfFiles

\* Rule (1) at the head of pager.c.
THEOREM PagesAreOnRecord ==
  ASSUME ~DoubleFault, "delete" \notin ShrinkModes
  PROVE  MCSpec => WriteAhead
<1>1. ASSUME IInv, Typed, Promise, ofFiles = PromiseOfFiles, [Next]_vars,
             NEW c \in Conns, pager[c].pc = "wdb", db' # db,
             NEW p \in DOMAIN ofFiles.image, db'[p] # db[p]
      PROVE  /\ OnRecord(journal[pager[c].jfd], MaxSlot + 1, p)
             /\ \E s \in Slots :
                  LET cell == journal[pager[c].jfd][s]
                  IN /\ cell = Stable(cell.cur) /\ cell.cur.kind = "record"
                     /\ cell.cur.pgno = p /\ cell.cur.data = ofFiles.image[p]
  <2>1. PICK b \in Nat : TInv(b)
    BY <1>1 DEF Typed
  <2>2. PICK i : PInv(i)
    BY <1>1 DEF Promise
  <2>3. ofFiles.image = i /\ IsImage(i)
    BY <1>1, <2>1, <2>2, KeptImage
  <2>4. p \in 1..Len(i)
    BY <1>1, <2>3, ImageIs
  <2>5. Next
    BY <1>1 DEF vars
  <2>6. QED
    BY <1>1, <2>1, <2>2, <2>3, <2>4, <2>5, WrittenOnRecord DEF Brought
<1>2. IInv /\ Typed /\ Promise /\ ofFiles = PromiseOfFiles /\ [Next]_vars =>
        [\A c \in Conns : pager[c].pc = "wdb" /\ db' # db =>
           \A p \in DOMAIN ofFiles.image :
             p <= pager[c].orig /\ db'[p] # db[p] =>
               /\ OnRecord(journal[pager[c].jfd], MaxSlot + 1, p)
               /\ \E s \in Slots :
                    LET cell == journal[pager[c].jfd][s]
                    IN /\ cell = Stable(cell.cur) /\ cell.cur.kind = "record"
                       /\ cell.cur.pgno = p /\ cell.cur.data = ofFiles.image[p]]_vars
  BY <1>1
<1>3. MCSpec => [](IInv /\ Typed /\ Promise)
  BY McIsPager, CommittedImageKept
<1>4. QED
  BY <1>2, <1>3, OfFilesHolds, McIsPager, PTL DEF WriteAhead, Spec
=============================================================================
