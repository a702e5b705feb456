------------------------- MODULE PagerPromiseProofs -------------------------
(***************************************************************************)
(* The committed image, for any number of connections, pages and journal   *)
(* slots: what the files amount to at any time, what each connection       *)
(* relies on, and that the steps of a transaction leave it so, from        *)
(* the first lock to the last page that is written.                        *)
(***************************************************************************)
EXTENDS MCPager, PagerProofs, SequenceTheorems

\* A database file without pages, and one that is on disk as image i.
EmptyDb(d) == \A p \in Pages : d[p] = Stable(NoPage)
Quiet(d, i) ==
  IF Len(i) = 0 THEN EmptyDb(d) ELSE \A p \in 1..Len(i) : d[p] = Stable(i[p])

\* The contents of a database: page 1 has their number.
IsImage(i) ==
  \E n \in 0..MaxPage :
    /\ i \in [1..n -> PageContents]
    /\ n > 0 => i[1] \in HeaderPages /\ i[1].nPage = n

\* The journal j has from slot m to before slot n complete segments.
Segment(j, h) ==
  /\ h + j[h].nRec <= MaxSlot
  /\ \A s \in h + 1..h + j[h].nRec : j[s].kind = "record" /\ j[s].nonce = j[h].nonce
ChainOf(j, H, m, n) ==
  /\ H \subseteq m..n - 1 /\ m \in H \cup {n} /\ n <= MaxSlot + 1
  /\ \A h \in H : /\ IsMagic(j[h]) /\ Segment(j, h)
                  /\ h + j[h].nRec + 1 \in H \cup {n}
Chain(j, m, n) == \E H \in SUBSET Slots : ChainOf(j, H, m, n)

\* The journal with x for its first header, as a read sees the rest.
With(cells, x) == [Cur(cells) EXCEPT ![1] = x]

IsStable(cell) == cell = Stable(cell.cur)
NoMagic(cells, s) == s <= MaxSlot => \A x \in cells[s].may : ~IsMagic(x)
Recs(cells, p, m, n) ==
  \E s \in m..n : cells[s].cur.kind = "record" /\ cells[s].cur.pgno = p

\* A record does no harm to image i, of a database of this size.
Good(x, i, orig) ==
  x.kind = "record" =>
    x.pgno \in 1..orig /\ (x.pgno <= Len(i) => x.data = i[x.pgno])

\* If there may be a header in slot n, a segment without fault follows it.
After(cells, n, i, orig) ==
  n <= MaxSlot => \A y \in cells[n].may : IsMagic(y) =>
    /\ n + y.nRec <= MaxSlot
    /\ \A s \in n + 1..n + y.nRec :
         /\ IsStable(cells[s]) /\ cells[s].cur.kind = "record"
         /\ cells[s].cur.nonce = y.nonce /\ Good(cells[s].cur, i, orig)
    /\ NoMagic(cells, n + y.nRec + 1)

\* With this header the journal brings back image i: what is not on disk in
\* the database file is on record before slot n.
Covered(cells, x, i, d, n) ==
  /\ Len(i) <= x.orig /\ (Len(i) = 0 <=> x.orig = 0)
  /\ Len(i) # 0 => NoPage \notin d[1].may
  /\ n \in 2..MaxSlot + 1 /\ Chain(With(cells, x), 1, n)
  /\ \A s \in 2..n - 1 : IsStable(cells[s]) /\ Good(cells[s].cur, i, x.orig)
  /\ After(cells, n, i, x.orig)
  /\ \A p \in 1..Len(i) : d[p] = Stable(i[p]) \/ Recs(cells, p, 2, n - 1)

\* It brings back some image; where a journal is deleted, one no longer than
\* the committed one.
Revives(cells, x, i, d, m) ==
  \E u, n : /\ IsImage(u) /\ (m = "delete" => Len(u) <= Len(i))
            /\ Covered(cells, x, u, d, n)

-----------------------------------------------------------------------------
\* What the files amount to: the committed image is i.

NamedK(e, i, d, j, m) ==
  IF e = 0 THEN Quiet(d, i)
  ELSE \A x \in j[e][1].may :
         IF IsMagic(x) THEN EmptyDb(d) \/ Revives(j[e], x, i, d, m) ELSE Quiet(d, i)

FilesK(i, d, j, name, m) ==
  /\ \A e \in name.may : NamedK(e, i, d, j, m)
  /\ name.cur # 0 =>
       /\ (\E x \in j[name.cur][1].may : IsMagic(x)) => name.may = {name.cur}
       /\ IsMagic(j[name.cur][1].cur) =>
            \/ Len(i) = 0 /\ EmptyDb(d)
            \/ \E n : Covered(j[name.cur], j[name.cur][1].cur, i, d, n)
  /\ \/ Quiet(d, i)
     \/ name.cur # 0 /\ IsStable(j[name.cur][1]) /\ IsMagic(j[name.cur][1].cur)

Cutting(g, l) ==
  /\ g.pc \in {"play", "record", "playend", "dbsync"} /\ ~g.commit /\ g.dbSize = 0
  /\ l = EXCLUSIVE_LOCK
Dying(j, name) ==
  /\ name.cur # 0 /\ ~IsMagic(j[name.cur][1].cur)
  /\ \E x \in j[name.cur][1].may : IsMagic(x)

-----------------------------------------------------------------------------
\* What a connection relies on.

\* Places where the file is as it should be, and where no journal is hot.
Trusts(g, l) ==
  \/ g.eState = "open" /\ g.pc \in {"validate", "empty", "delete"}
  \/ g.eState \in {"reader", "locked", "cachemod"}
  \/ g.eState = "error" /\ RESERVED_LOCK <= l /\ l < EXCLUSIVE_LOCK
  \/ (g.hot \/ g.eState = "dbmod") /\ g.pc \in {"final", "finsync", "end"}
  \/ g.eState = "finished" /\ g.pc \in {"finsync", "end"}
Cools(g, l) ==
  \/ g.eState = "open" /\ g.pc \in {"validate", "empty", "delete"}
  \/ g.eState \in {"reader", "locked"}
  \/ g.eState \in {"cachemod", "error"} /\ RESERVED_LOCK <= l /\ l < EXCLUSIVE_LOCK
  \/ g.pc \in {"finsync", "end"}
Cold(d, j, name) ==
  name.cur = 0 \/ ~IsMagic(j[name.cur][1].cur) \/ EmptyDb(d)
TrustK(g, l, i, d, j, name) ==
  /\ Trusts(g, l) => Quiet(d, i)
  /\ Cools(g, l) => Cold(d, j, name)
  /\ g.pc \in {"empty", "delete"} => Len(i) = 0
  /\ g.pc \in {"first", "hot", "open", "hotsync"} => d[1].cur # NoPage

\* What is in a cache is of image i.
NothingCached(g) == \A p \in Pages : g.cache[p] = NoPage
Coherent(g, i) == \A p \in 1..Len(i) : g.cache[p] # NoPage => g.cache[p] = i[p]

\* The cache of an earlier transaction: of image i, or older than that.
CacheK(g, i) ==
  g.eState = "open" /\ ~NothingCached(g) =>
    /\ Len(i) # 0 /\ g.vers.ver <= i[1].ver
    /\ g.vers.ver = i[1].ver => g.vers = i[1] /\ Coherent(g, i)

Agrees(g, i) ==
  /\ (g.dbSize = 0 <=> Len(i) = 0) /\ Len(i) <= g.dbSize /\ Coherent(g, i)
  /\ Len(i) # 0 => g.cache[1] = i[1] /\ g.vers = i[1]
Reads(g, i) == Agrees(g, i) /\ (Len(i) = 0 => NothingCached(g))
ReadK(g, i) ==
  /\ \/ g.eState \in {"reader", "locked"}
     \/ g.eState = "finished" /\ g.pc \in {"finsync", "end"}
     => Reads(g, i) /\ g.nPage = Len(i)
  /\ g.eState = "finished" => g.commit /\ g.dbSize = g.nPage
  /\ g.eState = "locked" /\ g.commit => g.pc \in {"final", "finsync", "end"}

\* The journal that a connection has open has the name of the journal.
JfdK(g, i, name, m) ==
  /\ \/ g.eState \in {"reader", "locked"}
     \/ g.eState = "open" /\ ~g.hot /\ g.pc # "hotsync"
     \/ g.pc = "end"
     => /\ m = "delete" => g.jfd = 0
        /\ g.jfd # 0 /\ Len(i) # 0 => name.cur = g.jfd
  /\ g.eState = "locked" => g.jfd = 0 \/ g.dbSize > 0
  /\ (g.eState \in {"cachemod", "dbmod", "finished"} \/ g.hot) /\ g.pc # "end" =>
       name.cur = g.jfd
  /\ g.pc = "hotsync" => name.cur = g.jfd
  /\ g.eState = "open" /\ g.pc = "idle" => g.jfd = 0
  /\ g.eState = "finished" /\ g.pc = "end" /\ m # "delete" => name.may = {name.cur}
  /\ g.pc = "finsync" => m # "delete"

-----------------------------------------------------------------------------
\* The journal of a transaction of connection g.

Active(g) ==
  \/ g.eState \in {"cachemod", "dbmod"} /\ g.pc \in LoggingPcs \cup {"failed"}
  \/ g.eState = "dbmod" /\ g.pc = "dbsync" /\ g.commit
  \/ g.eState = "finished" /\ g.pc = "final"
Playing(g) == g.eState \in {"cachemod", "dbmod"} /\ g.pc \in {"play", "record"}
Undoes(g) ==
  /\ g.eState \in {"cachemod", "dbmod"} /\ ~g.commit
  /\ g.pc \in {"playend", "dbsync", "final", "finsync", "end"}

\* The last slot that it has written.
End(g) == IF g.header THEN g.hdr + g.nRec ELSE g.hdr - 1

OpenSegment(g, i, cells) ==
  LET h == cells[g.hdr].cur
  IN /\ h.kind = "header"
     /\ \A s \in g.hdr + 1..End(g) :
          /\ cells[s].cur.kind = "record" /\ cells[s].cur.nonce = h.nonce
          /\ Good(cells[s].cur, i, g.orig)
     /\ \A s \in End(g) + 1..MaxSlot :
          cells[s].cur.kind \in {"header", "record"} => cells[s].cur.nonce # h.nonce
     /\ \/ h.nRec = 0
        \/ h.magic /\ h.nRec = g.nRec /\ (End(g) < MaxSlot => ~IsMagic(cells[End(g) + 1].cur))

LogK(g, i, d, cells) ==
  /\ g.nRec \in Nat /\ g.hdr \in 1..MaxSlot + 1 /\ g.hdr <= End(g) + 1 /\ End(g) <= MaxSlot
  /\ Len(i) <= g.orig /\ (Len(i) = 0 <=> g.orig = 0)
  /\ cells[1].cur.kind = "header" /\ cells[1].cur.orig = g.orig
  /\ IF g.eState = "cachemod" THEN g.hdr = 1 /\ g.header
     ELSE /\ IsStable(cells[1]) /\ IsMagic(cells[1].cur)
          /\ Covered(cells, cells[1].cur, i, d, g.hdr)
  /\ IF g.header THEN OpenSegment(g, i, cells) ELSE NoMagic(cells, g.hdr)

\* What it has in its cache, in the file, and on record.
WriteK(g, i, d, cells, m) ==
  /\ g.off = End(g) /\ g.off >= 1
  /\ g.header => g.nonce = cells[g.hdr].cur.nonce
  /\ 0 < g.nPage /\ g.nPage <= g.dbSize
  /\ m = "delete" \/ ~g.commit => Len(i) <= g.nPage
  /\ \A p \in 1..Len(i) : p \notin g.inJournal =>
       d[p] = Stable(i[p]) /\ (g.cache[p] # NoPage => g.cache[p] = i[p])
  /\ \A p \in g.inJournal : Recs(cells, p, 2, g.off)
  /\ \A p \in 1..g.nPage :
       /\ g.cache[p] # NoPage => g.cache[p] \in PageContents
       /\ p \notin g.dirty => d[p].cur \in PageContents /\ g.cache[p] \in {NoPage, d[p].cur}
  /\ g.cache[1] # NoPage
  /\ ~g.commit => /\ \A p \in g.dirty : p <= g.dbSize
                  /\ Len(i) # 0 => g.vers = i[1]
  /\ g.commit =>
       /\ g.cache[1] \in HeaderPages /\ g.cache[1].nPage = g.nPage /\ g.nPage = g.dbSize
       /\ Len(i) # 0 => g.cache[1].ver > i[1].ver
       /\ g.pc # "failed" /\ 1 \notin g.dirty => g.vers = g.cache[1]

\* How far the syncs of a commit or of a spill are.
SyncK(g, i, d, cells, name) ==
  /\ g.header /\ g.pc \notin {"jsync2", "failed"} =>
       \/ NoMagic(cells, g.hdr)
       \/ g.hdr = 1 /\ g.pc # "jhdr" /\ EmptyDb(d) /\ ~IsMagic(cells[1].cur)
  /\ g.pc \in {"jhdr", "jsync2"} =>
       /\ g.header /\ name.may = {name.cur}
       /\ \A s \in Slots : s = g.hdr \/ IsStable(cells[s])
       /\ NoMagic(cells, g.off + 1)
  /\ g.pc = "jsync2" =>
       \A y \in cells[g.hdr].may : IsMagic(y) => y = Header(TRUE, g.nRec, g.nonce, g.orig)
  /\ g.pc \in {"jsync", "jhdr", "jsync2", "wdb"} /\ g.spill = 0 => g.commit
  /\ g.commit => g.spill = 0 /\ g.pc \notin {"idle", "excl", "phase1"}
  /\ g.spill # 1
  /\ g.pc \in {"dbsync", "final"} => \A p \in 1..g.nPage : p \notin g.dirty
  /\ g.pc = "final" => \A p \in 1..g.nPage : IsStable(d[p])

\* How far a rollback of its own is.
InSegment(g, cells, n) ==
  /\ g.left \in Nat \ {0} /\ g.off + g.left + 1 <= n
  /\ Chain(Cur(cells), g.off + g.left + 1, n)
  /\ \A s \in g.off + 1..g.off + g.left :
       cells[s].cur.kind = "record" /\ cells[s].cur.nonce = g.nonce
PlaceK(g, cells) ==
  /\ g.off = 0 => g.pc = "play"
  /\ g.pc = "play" =>
       \/ g.off + 1 <= g.hdr /\ Chain(Cur(cells), g.off + 1, g.hdr)
       \/ /\ g.off >= End(g) /\ ~(g.header /\ g.off + 1 = g.hdr)
          /\ g.off < SlotsUsed(cells) => ~IsMagic(cells[g.off + 1].cur)
  /\ g.pc = "record" =>
       \/ InSegment(g, cells, g.hdr)
       \/ /\ g.header /\ g.hdr <= g.off /\ g.left \in Nat \ {0}
          /\ g.nonce = cells[g.hdr].cur.nonce
          /\ g.off + g.left = IF cells[g.hdr].cur.nRec = 0 THEN SlotsUsed(cells) ELSE End(g)
PlayK(g, i, d, cells) ==
  /\ PlaceK(g, cells)
  /\ g.off # 0 => /\ g.dbSize = g.orig
                  /\ Len(i) = 0 /\ g.eState = "dbmod" => \A p \in Pages : d[p].cur = NoPage
  /\ \A p \in 1..Len(i) :
       /\ (g.cache[p] # NoPage => g.cache[p] = i[p]) \/ Recs(cells, p, g.off + 1, End(g))
       /\ d[p].cur = i[p] \/ Recs(cells, p, g.off + 1, g.hdr - 1)
  /\ Len(i) # 0 => g.cache[1] # NoPage /\ (g.vers = i[1] \/ Recs(cells, 1, g.off + 1, End(g)))

\* It is done.
UndoK(g, i, d) ==
  /\ Agrees(g, i) /\ g.off >= 1
  /\ IF Len(i) = 0 THEN \A p \in Pages : d[p].cur = NoPage
     ELSE \A p \in 1..Len(i) : d[p].cur = i[p]

OwnK(g, i, d, cells, name, m) ==
  /\ Active(g) => /\ LogK(g, i, d, cells) /\ WriteK(g, i, d, cells, m)
                  /\ SyncK(g, i, d, cells, name)
  /\ Playing(g) => LogK(g, i, d, cells) /\ PlayK(g, i, d, cells)
  /\ Undoes(g) => UndoK(g, i, d)

\* A hot journal is played back.
HotAt(g, i, d, cells, n) ==
  /\ Covered(cells, cells[1].cur, i, d, n) /\ NoMagic(cells, n)
  /\ g.off = 0 => g.pc = "play"
  /\ g.pc = "play" => g.off + 1 <= n /\ Chain(Cur(cells), g.off + 1, n)
  /\ g.pc = "record" => InSegment(g, cells, n)
  /\ g.pc \in {"playend", "dbsync"} => g.off = n - 1
  /\ g.off # 0 => /\ g.dbSize = cells[1].cur.orig
                  /\ Len(i) = 0 => \A p \in Pages : d[p].cur = NoPage
  /\ \A p \in 1..Len(i) : d[p].cur = i[p] \/ Recs(cells, p, g.off + 1, n - 1)
HotK(g, i, d, cells) ==
  /\ g.hot /\ g.pc \in {"play", "record", "playend", "dbsync"} =>
       /\ \A s \in Slots : IsStable(cells[s])
       /\ g.hdr = SlotsUsed(cells) + 1
       /\ IF IsMagic(cells[1].cur) THEN \E n : HotAt(g, i, d, cells, n)
          ELSE g.off = 0 /\ g.pc # "record" /\ Quiet(d, i)
  /\ g.hot /\ g.pc = "final" /\ IsMagic(cells[1].cur) => g.off >= 1

ConnK(g, l, i, d, j, name, m) ==
  /\ TrustK(g, l, i, d, j, name) /\ CacheK(g, i) /\ ReadK(g, i) /\ JfdK(g, i, name, m)
  /\ OwnK(g, i, d, j[g.jfd], name, m) /\ HotK(g, i, d, j[g.jfd])

PInv(i) ==
  /\ IsImage(i) /\ FilesK(i, db, journal, dirent, mode)
  /\ db[1].cur = NoPage => EmptyDb(db) \/ \E c \in Conns : Cutting(pager[c], lock[c])
  /\ Dying(journal, dirent) => EmptyDb(db) \/ \E c \in Conns : pager[c].pc = "finsync"
  /\ \A c \in reserver : lock[c] >= RESERVED_LOCK
  /\ \A c \in Conns : ConnK(pager[c], lock[c], i, db, journal, dirent, mode)

-----------------------------------------------------------------------------
\* What a rollback with the journal k makes of the contents d of the file.
Result(d, k) == ImageOf(RolledBack(d, Played(k)))

\* An image is a sequence of pages.
LEMMA ImageIs ==
  ASSUME NEW i, IsImage(i)
  PROVE  /\ i \in Seq(PageContents) /\ Len(i) \in 0..MaxPage /\ DOMAIN i = 1..Len(i)
         /\ \A p \in 1..Len(i) : p \in Pages /\ i[p] \in PageContents
         /\ Len(i) # 0 => 1 \in 1..Len(i) /\ i[1] \in HeaderPages /\ i[1].nPage = Len(i)
         /\ Len(i) = 0 => i = <<>>
<1>1. PICK n \in 0..MaxPage : /\ i \in [1..n -> PageContents]
                              /\ n > 0 => i[1] \in HeaderPages /\ i[1].nPage = n
  BY DEF IsImage
<1>2. n \in Nat /\ MaxPage \in Nat
  BY Bounds
<1>3. i \in Seq(PageContents) /\ Len(i) = n /\ DOMAIN i = 1..n
  BY <1>1, <1>2
<1>4. \A p \in 1..n : p \in Pages /\ i[p] \in PageContents
  BY <1>1, <1>2 DEF Pages
<1>5. n = 0 => i = <<>>
  BY <1>3
<1>6. QED
  BY <1>1, <1>2, <1>3, <1>4, <1>5

\* Played() by its table of ends: end[h] is the last slot that is read of a
\* journal with a header in slot h.
EndTable(j, end) ==
  end = [h \in 1..MaxSlot + 1 |->
        IF h > MaxSlot \/ ~IsMagic(j[h]) THEN h - 1
        ELSE LET next == h + j[h].nRec + 1
                 bad == {s \in h + 1..next - 1 :
                           \/ s > MaxSlot
                           \/ j[s].kind # "record" \/ j[s].nonce # j[h].nonce}
             IN IF bad = {} THEN end[next] ELSE Min(bad) - 1]

Following(j, h) == h + j[h].nRec + 1
Bad(j, h) ==
  {s \in h + 1..Following(j, h) - 1 :
     \/ s > MaxSlot
     \/ j[s].kind # "record" \/ j[s].nonce # j[h].nonce}
EndBody(j, end, h) ==
  IF h > MaxSlot \/ ~IsMagic(j[h]) THEN h - 1
  ELSE IF Bad(j, h) = {} THEN end[Following(j, h)] ELSE Min(Bad(j, h)) - 1

Ends(j, end) == \A h \in 1..MaxSlot + 1 : end[h] = EndBody(j, end, h)

\* The numbers in its headers are numbers.
Counts(j) == \A s \in Slots : IsMagic(j[s]) => j[s].nRec \in Nat

\* From a header whose records are all there the next place is in the journal.
LEMMA FollowingIs ==
  ASSUME NEW j, Counts(j), NEW h \in Slots, IsMagic(j[h]), Bad(j, h) = {}
  PROVE  Following(j, h) \in h + 1..MaxSlot + 1
<1>1. h \in Nat /\ j[h].nRec \in Nat /\ MaxSlot \in Nat /\ h <= MaxSlot
  BY Bounds DEF Counts, Slots
<1>2. Following(j, h) \in Nat /\ Following(j, h) >= h + 1
  BY <1>1 DEF Following
<1>3. ASSUME ~(Following(j, h) <= MaxSlot + 1)
      PROVE  FALSE
  <2>1. MaxSlot + 1 \in h + 1..Following(j, h) - 1 /\ MaxSlot + 1 > MaxSlot
    BY <1>1, <1>2, <1>3
  <2>2. MaxSlot + 1 \in Bad(j, h)
    BY <2>1 DEF Bad
  <2>3. QED
    BY <2>2
<1>4. QED
  BY <1>1, <1>2, <1>3

PartOf(j, end, a) == end = [h \in a..MaxSlot + 1 |-> EndBody(j, end, h)]

\* There is such a table, of the places from any one on: of the last place
\* from which there is none the next has one.
LEMMA EndExists ==
  ASSUME NEW j, Counts(j)
  PROVE  \E end : PartOf(j, end, 1)
<1> DEFINE Fails == {k \in Nat : k <= MaxSlot /\ ~\E end : PartOf(j, end, MaxSlot + 1 - k)}
<1>0. MaxSlot \in Nat \ {0}
  BY Bounds
<1>1. Fails = {}
  <2> SUFFICES ASSUME Fails # {}
               PROVE  FALSE
    OBVIOUS
  <2>1. PICK m \in Fails : \A k \in Fails : m <= k
    <3>1. Fails \in SUBSET Nat
      OBVIOUS
    <3> HIDE DEF Fails
    <3>2. QED
      BY <3>1, MinOfNat
  <2> DEFINE a == MaxSlot + 1 - m
  <2>2. m \in Nat /\ m <= MaxSlot /\ ~\E end : PartOf(j, end, a)
    OBVIOUS
  <2>3. a \in 1..MaxSlot + 1
    BY <1>0, <2>2
  <2>4. \E g : PartOf(j, g, a + 1) \/ a = MaxSlot + 1
    <3>1. CASE m = 0
      BY <1>0, <3>1
    <3>2. CASE m # 0
      <4>1. m - 1 \in Nat /\ m - 1 <= MaxSlot /\ ~(m <= m - 1)
        BY <2>2, <3>2, <1>0
      <4>2. m - 1 \notin Fails
        BY <2>1, <4>1
      <4>3. MaxSlot + 1 - (m - 1) = a + 1
        BY <1>0, <2>2
      <4>4. QED
        BY <4>1, <4>2, <4>3
    <3>3. QED
      BY <3>1, <3>2
  <2> HIDE DEF a, Fails
  <2>5. PICK g : PartOf(j, g, a + 1) \/ a = MaxSlot + 1
    BY <2>4
  <2> DEFINE e == [h \in a..MaxSlot + 1 |-> IF h = a THEN EndBody(j, g, a) ELSE g[h]]
  <2>6. e = [h \in a..MaxSlot + 1 |-> e[h]]
    OBVIOUS
  <2>7. e[a] = EndBody(j, g, a) /\ \A h \in a + 1..MaxSlot + 1 : e[h] = g[h]
    BY <1>0, <2>3
  <2> HIDE DEF e
  <2>8. ASSUME NEW h \in a..MaxSlot + 1
        PROVE  EndBody(j, e, h) = EndBody(j, g, h)
    <3>1. CASE h > MaxSlot \/ ~IsMagic(j[h]) \/ Bad(j, h) # {}
      BY <3>1 DEF EndBody
    <3>2. CASE h <= MaxSlot /\ IsMagic(j[h]) /\ Bad(j, h) = {}
      <4>1. h \in Slots
        BY <1>0, <2>3, <3>2 DEF Slots
      <4>2. Following(j, h) \in h + 1..MaxSlot + 1
        BY <3>2, <4>1, FollowingIs
      <4>3. Following(j, h) \in a + 1..MaxSlot + 1
        BY <4>2, <1>0, <2>3
      <4>4. e[Following(j, h)] = g[Following(j, h)]
        BY <4>3, <2>7
      <4>5. QED
        BY <3>2, <4>4 DEF EndBody
    <3>3. QED
      BY <3>1, <3>2, <1>0, <2>3
  <2>9. \A h \in a..MaxSlot + 1 : e[h] = EndBody(j, e, h)
    <3> TAKE h \in a..MaxSlot + 1
    <3>1. CASE h = a
      BY <3>1, <2>7, <2>8
    <3>2. CASE h # a
      <4>1. h \in a + 1..MaxSlot + 1 /\ a # MaxSlot + 1
        BY <3>2, <1>0, <2>3
      <4>2. g[h] = EndBody(j, g, h)
        BY <4>1, <2>5 DEF PartOf
      <4>3. QED
        BY <4>1, <4>2, <2>7, <2>8
    <3>3. QED
      BY <3>1, <3>2
  <2>10. PartOf(j, e, a)
    BY <2>6, <2>9 DEF PartOf
  <2>11. QED
    BY <2>2, <2>10 DEF a
<1>2. MaxSlot \in Nat /\ MaxSlot <= MaxSlot /\ MaxSlot + 1 - MaxSlot = 1
  BY <1>0
<1>3. MaxSlot \notin Fails
  BY <1>1
<1>4. QED
  BY <1>2, <1>3

\* What is read of a journal.
LEMMA PlayedIs ==
  ASSUME NEW j, Counts(j)
  PROVE  \E end : Played(j) = SubSeq(j, 1, end[1]) /\ Ends(j, end)
<1> DEFINE end == CHOOSE g : EndTable(j, g)
<1>1. \A g : PartOf(j, g, 1) => EndTable(j, g)
  BY DEF PartOf, EndTable, EndBody, Bad, Following
<1>2. \E g : EndTable(j, g)
  BY <1>1, EndExists
<1>3. EndTable(j, end)
  BY <1>2
<1>4. Played(j) = SubSeq(j, 1, end[1])
  BY DEF Played, EndTable
<1> HIDE DEF end
<1>5. Ends(j, end)
  BY <1>3 DEF EndTable, Ends, EndBody, Bad, Following
<1>6. QED
  BY <1>4, <1>5

-----------------------------------------------------------------------------
\* Chains of segments

\* What the slots of a journal hold has numbers where it should.
LEMMA CellsCount ==
  ASSUME NEW b \in Nat, NEW j, \A s \in Slots : j[s] \in Cells(b)
  PROVE  /\ Counts(j)
         /\ \A s \in Slots : IsMagic(j[s]) => j[s] \in HeaderCells(b)
         /\ \A s \in Slots : j[s].kind = "record" => j[s] \in RecordCells(b)
         /\ \A s \in Slots : j[s].kind = "header" => j[s] \in HeaderCells(b)
BY DEF Cells, HeaderCells, RecordCells, NoCell, Junk, Counts, IsMagic

\* A journal with another first header, as a read sees the rest.
LEMMA WithIs ==
  ASSUME NEW cells, cells = [s \in Slots |-> cells[s]], NEW x
  PROVE  /\ With(cells, x) = [s \in Slots |-> With(cells, x)[s]]
         /\ With(cells, x)[1] = x
         /\ \A s \in Slots \ {1} : With(cells, x)[s] = cells[s].cur
         /\ Cur(cells) = [s \in Slots |-> Cur(cells)[s]]
         /\ \A s \in Slots : Cur(cells)[s] = cells[s].cur
BY SMTT(60), Bounds DEF With, Cur, Slots

\* Segments are chained in the same way in a journal that has the same slots.
LEMMA ChainSame ==
  ASSUME NEW j, NEW k, NEW m \in Nat \ {0}, NEW n \in Nat, NEW H, ChainOf(j, H, m, n),
         \A s \in m..n - 1 : k[s] = j[s], \A h \in H : j[h].nRec \in Nat
  PROVE  ChainOf(k, H, m, n)
<1>1. \A h \in H : h \in Nat /\ m <= h /\ h <= n - 1 /\ k[h] = j[h]
  BY DEF ChainOf
<1>2. ASSUME NEW h \in H
      PROVE  IsMagic(k[h]) /\ Segment(k, h) /\ h + k[h].nRec + 1 \in H \cup {n}
  <2>1. IsMagic(j[h]) /\ Segment(j, h) /\ h + j[h].nRec + 1 \in H \cup {n}
    BY DEF ChainOf
  <2>2. h + j[h].nRec + 1 <= n
    BY <1>1, <2>1
  <2>3. \A s \in h + 1..h + j[h].nRec : s \in m..n - 1
    BY <1>1, <2>2
  <2>4. QED
    BY <1>1, <2>1, <2>3 DEF Segment
<1>3. QED
  BY <1>2 DEF ChainOf

\* A read that begins with one of the segments comes to the end of the chain.
LEMMA ChainReach ==
  ASSUME NEW j, Counts(j), NEW m \in Nat \ {0}, NEW n \in Nat, NEW H, ChainOf(j, H, m, n),
         NEW end, Ends(j, end)
  PROVE  \A h \in H \cup {n} : end[h] = end[n]
<1>0. MaxSlot \in Nat
  BY Bounds
<1>1. \A h \in H : /\ h \in Slots /\ h \in Nat /\ h <= n - 1 /\ IsMagic(j[h]) /\ j[h].nRec \in Nat
                   /\ Segment(j, h) /\ h + j[h].nRec + 1 \in H \cup {n}
  BY <1>0 DEF ChainOf, Slots, Counts
<1> DEFINE Fails == {k \in Nat : \E h \in H : h = n - k /\ end[h] # end[n]}
<1>2. Fails = {}
  <2> SUFFICES ASSUME Fails # {}
               PROVE  FALSE
    OBVIOUS
  <2>1. PICK k \in Fails : \A l \in Fails : k <= l
    <3>1. Fails \in SUBSET Nat
      OBVIOUS
    <3> HIDE DEF Fails
    <3>2. QED
      BY <3>1, MinOfNat
  <2>2. k \in Nat /\ \E h \in H : h = n - k /\ end[h] # end[n]
    OBVIOUS
  <2> DEFINE h == n - k
             g == h + j[h].nRec + 1
  <2>3. h \in H /\ end[h] # end[n]
    BY <2>2
  <2>4. /\ h \in Slots /\ h \in Nat /\ h <= n - 1 /\ IsMagic(j[h]) /\ j[h].nRec \in Nat
        /\ Segment(j, h) /\ g \in H \cup {n}
    BY <1>1, <2>3
  <2>5. Bad(j, h) = {}
    <3>1. \A s \in h + 1..h + j[h].nRec :
            s <= MaxSlot /\ j[s].kind = "record" /\ j[s].nonce = j[h].nonce
      BY <1>0, <2>4 DEF Segment
    <3> HIDE DEF h
    <3>2. Following(j, h) - 1 = h + j[h].nRec
      BY <2>4 DEF Following
    <3>3. QED
      BY <1>0, <2>4, <3>1, <3>2 DEF Bad
  <2>6. end[h] = end[g]
    <3> HIDE DEF h, Fails
    <3>1. h \in 1..MaxSlot + 1 /\ ~(h > MaxSlot)
      BY <1>0, <2>4 DEF Slots
    <3>2. QED
      BY <2>4, <2>5, <3>1 DEF Ends, EndBody, Following
  <2>7. end[g] = end[n]
    <3>1. CASE g = n
      BY <3>1
    <3>2. CASE g # n
      <4>1. g \in H /\ g \in Nat /\ g <= n - 1 /\ g > h
        BY <1>1, <2>4, <3>2
      <4>2. n - g \in Nat /\ ~(k <= n - g) /\ g = n - (n - g)
        BY <2>2, <4>1
      <4> HIDE DEF g, h
      <4>3. n - g \notin Fails
        <5> HIDE DEF Fails
        <5>1. QED
          BY <2>1, <4>2
      <4>4. QED
        BY <4>1, <4>2, <4>3
    <3>3. QED
      BY <3>1, <3>2
  <2>8. QED
    BY <2>3, <2>6, <2>7
<1>3. ASSUME NEW h \in H
      PROVE  end[h] = end[n]
  <2>1. n - h \in Nat /\ h = n - (n - h)
    BY <1>1
  <2>2. n - h \notin Fails
    <3> HIDE DEF Fails
    <3>1. QED
      BY <1>2
  <2>3. QED
    BY <2>1, <2>2
<1>4. QED
  BY <1>3

\* The same from the first slot.
LEMMA ChainRead ==
  ASSUME NEW k, Counts(k), NEW n \in Nat, NEW H, ChainOf(k, H, 1, n), 1 \in H,
         NEW end, Ends(k, end)
  PROVE  end[1] = end[n]
<1>1. 1 \in Nat \ {0}
  OBVIOUS
<1>2. \A h \in H \cup {n} : end[h] = end[n]
  BY <1>1, ChainReach
<1>3. QED
  BY <1>2

-----------------------------------------------------------------------------
\* What a journal brings back

\* The contents f of the file d, as they are or as a power loss leaves them.
From(f, d) ==
  /\ f = [p \in Pages |-> f[p]]
  /\ \A p \in Pages : f[p] \in d[p].may \/ (f[p] = Zero /\ NoPage \in d[p].may /\ ~EmptyDb(d))

\* The contents k of the journal with x for its first header.
FromJournal(k, cells, x) ==
  /\ k = [s \in Slots |-> k[s]] /\ k[1] = x
  /\ \A s \in Slots \ {1} : k[s] \in cells[s].may

\* What may be in a slot of a journal file has the type of a slot.
LEMMA FromTyped ==
  ASSUME NEW b \in Nat, NEW cells, JournalType(cells, b), NEW x \in Cells(b),
         NEW k, FromJournal(k, cells, x)
  PROVE  \A s \in Slots : k[s] \in Cells(b)
BY DEF FromJournal, JournalType, CellOf

\* What is on disk is one thing.
LEMMA StableIs ==
  ASSUME NEW cell, IsStable(cell)
  PROVE  cell.may = {cell.cur}
BY DEF IsStable, Stable

\* A read of the journal comes to the end of what covers the image, or of a
\* segment that follows, and finds nothing there that does harm.
LEMMA CoveredPlayed ==
  ASSUME NEW b \in Nat, NEW cells, cells = [s \in Slots |-> cells[s]], JournalType(cells, b),
         NEW x \in Cells(b), NEW i, NEW d, NEW n, Covered(cells, x, i, d, n),
         NEW k, FromJournal(k, cells, x)
  PROVE  /\ IsMagic(x) /\ n \in 2..MaxSlot + 1
         /\ \A s \in 2..n - 1 : k[s] = cells[s].cur
         /\ \E e \in n - 1..MaxSlot : /\ Played(k) = SubSeq(k, 1, e)
                                      /\ \A s \in 2..e : Good(k[s], i, x.orig)
<1> DEFINE w == With(cells, x)
<1>0. MaxSlot \in Nat \ {0} /\ n \in 2..MaxSlot + 1 /\ n \in Nat /\ 1 \in Nat \ {0}
  BY Bounds DEF Covered
<1>1. PICK H \in SUBSET Slots : ChainOf(w, H, 1, n)
  BY DEF Covered, Chain
<1>2. \A s \in Slots : k[s] \in Cells(b)
  BY FromTyped
<1>3. Counts(k)
  BY <1>2, CellsCount
<1>4. w[1] = x /\ \A s \in Slots \ {1} : w[s] = cells[s].cur
  BY WithIs
<1> HIDE DEF w
<1>5. \A s \in 2..n - 1 : k[s] = cells[s].cur
  <2> TAKE s \in 2..n - 1
  <2>1. s \in Slots \ {1}
    BY <1>0 DEF Slots
  <2>2. cells[s].may = {cells[s].cur}
    BY StableIs DEF Covered
  <2>3. QED
    BY <2>1, <2>2 DEF FromJournal
<1>6. \A s \in 1..n - 1 : k[s] = w[s]
  <2> TAKE s \in 1..n - 1
  <2>1. CASE s = 1
    BY <2>1, <1>4 DEF FromJournal
  <2>2. CASE s # 1
    <3>1. s \in 2..n - 1 /\ s \in Slots \ {1}
      BY <2>2, <1>0 DEF Slots
    <3>2. QED
      BY <3>1, <1>4, <1>5
  <2>3. QED
    BY <2>1, <2>2
<1>7. 1 \in H /\ IsMagic(x)
  BY <1>0, <1>1, <1>4 DEF ChainOf
<1>8. \A h \in H : w[h].nRec \in Nat
  <2> TAKE h \in H
  <2>1. h \in 1..n - 1 /\ IsMagic(w[h])
    BY <1>1 DEF ChainOf
  <2>2. QED
    BY <2>1, <1>3, <1>6 DEF Counts
<1>9. ChainOf(k, H, 1, n)
  BY <1>0, <1>1, <1>6, <1>8, ChainSame
<1>10. PICK end : Played(k) = SubSeq(k, 1, end[1]) /\ Ends(k, end)
  BY <1>3, PlayedIs
<1>11. end[1] = end[n]
  <2>1. n \in Nat /\ 1 \in H /\ Ends(k, end)
    BY <1>0, <1>7, <1>10
  <2>2. QED
    BY <1>3, <1>9, <2>1, ChainRead
<1>12. \A s \in 2..n - 1 : Good(k[s], i, x.orig)
  BY <1>5 DEF Covered
<1>13. CASE n = MaxSlot + 1 \/ ~IsMagic(k[n])
  <2>1. end[n] = n - 1
    BY <1>0, <1>10, <1>13 DEF Ends, EndBody
  <2>2. n - 1 \in n - 1..MaxSlot
    BY <1>0
  <2>3. QED
    BY <1>0, <1>5, <1>7, <1>10, <1>11, <1>12, <2>1, <2>2
<1>14. CASE n # MaxSlot + 1 /\ IsMagic(k[n])
  <2> DEFINE m == n + k[n].nRec
  <2>1. n \in Slots \ {1} /\ n <= MaxSlot /\ k[n] \in cells[n].may
    BY <1>0, <1>14 DEF Slots, FromJournal
  <2>2. k[n].nRec \in Nat /\ m <= MaxSlot /\ NoMagic(cells, m + 1)
        /\ \A s \in n + 1..m : /\ IsStable(cells[s]) /\ cells[s].cur.kind = "record"
                               /\ cells[s].cur.nonce = k[n].nonce
                               /\ Good(cells[s].cur, i, x.orig)
    BY <1>3, <1>14, <2>1 DEF Covered, After, Counts
  <2>3. \A s \in n + 1..m : s \in Slots \ {1} /\ k[s] = cells[s].cur
    <3> TAKE s \in n + 1..m
    <3>1. s \in Slots \ {1}
      BY <1>0, <2>2 DEF Slots
    <3>2. cells[s].may = {cells[s].cur}
      BY <2>2, StableIs
    <3>3. QED
      BY <3>1, <3>2 DEF FromJournal
  <2>4. Bad(k, n) = {} /\ Following(k, n) = m + 1
    <3>1. Following(k, n) = m + 1
      BY <1>0, <2>2 DEF Following
    <3>2. \A s \in n + 1..m : s <= MaxSlot /\ k[s].kind = "record" /\ k[s].nonce = k[n].nonce
      BY <1>0, <2>2, <2>3
    <3>3. Following(k, n) - 1 = m /\ n + 1 \in Nat /\ m \in Nat
      BY <1>0, <2>2, <3>1
    <3> HIDE DEF m
    <3>4. Bad(k, n) = {s \in n + 1..m : s > MaxSlot \/ k[s].kind # "record"
                                                  \/ k[s].nonce # k[n].nonce}
      BY <3>3 DEF Bad
    <3>5. \A s \in n + 1..m : ~(s > MaxSlot \/ k[s].kind # "record" \/ k[s].nonce # k[n].nonce)
      BY <3>2, <3>3, <1>0
    <3>6. QED
      BY <3>1, <3>4, <3>5
  <2>5. end[n] = end[m + 1]
    BY <1>0, <1>10, <1>14, <2>1, <2>4 DEF Ends, EndBody
  <2>6. end[m + 1] = m
    <3>1. m \in Nat /\ m + 1 \in 1..MaxSlot + 1
      BY <1>0, <2>2
    <3>2. CASE m + 1 > MaxSlot
      BY <1>10, <3>1, <3>2, <1>0 DEF Ends, EndBody
    <3>3. CASE m + 1 <= MaxSlot
      <4>1. m + 1 \in Slots \ {1}
        BY SMTT(60), <1>0, <2>2, <3>3 DEF Slots
      <4>2. ~IsMagic(k[m + 1])
        BY <2>2, <3>3, <4>1 DEF NoMagic, FromJournal
      <4>3. QED
        BY <1>10, <3>1, <3>3, <4>2, <1>0 DEF Ends, EndBody
    <3>4. QED
      BY <3>1, <3>2, <3>3, <1>0
  <2>7. m \in n - 1..MaxSlot
    BY <1>0, <2>2
  <2>8. \A s \in 2..m : Good(k[s], i, x.orig)
    <3> TAKE s \in 2..m
    <3>1. CASE s <= n - 1
      BY <1>12, <3>1
    <3>2. CASE s = n
      BY <1>14, <3>2 DEF Good, IsMagic
    <3>3. CASE s >= n + 1
      BY <2>2, <2>3, <3>3
    <3>4. s \in Nat
      BY <2>2, <1>0
    <3>5. QED
      BY <3>1, <3>2, <3>3, <3>4, <1>0
  <2> HIDE DEF m
  <2>9. QED
    BY <1>0, <1>5, <1>7, <1>10, <1>11, <2>5, <2>6, <2>7, <2>8
<1>15. QED
  BY <1>0, <1>13, <1>14

\* A file whose page 1 is the header of the image and that has its pages.
LEMMA ImageIn ==
  ASSUME NEW i, IsImage(i), NEW r,
         IF Len(i) = 0 THEN r[1] = NoPage ELSE \A p \in 1..Len(i) : r[p] = i[p]
  PROVE  ImageOf(r) = i
<1>1. CASE Len(i) = 0
  BY <1>1, ImageIs DEF ImageOf
<1>2. CASE Len(i) # 0
  <2>1. i[1] \in HeaderPages /\ i[1].nPage = Len(i) /\ r[1] = i[1] /\ Len(i) \in Nat
    BY <1>2, ImageIs
  <2>2. r[1] \notin {NoPage, Zero, Torn}
    <3>1. HeaderPages \subseteq [ver : Nat, nPage : Nat]
      BY Bounds DEF HeaderPages, Pages
    <3>2. QED
      BY <2>1, <3>1, PagerAssumption DEF PagerAssumption
  <2>3. ImageOf(r) = SubSeq(r, 1, Len(i))
    BY <2>1, <2>2 DEF ImageOf
  <2>4. i \in Seq(PageContents) /\ \A p \in 1..Len(i) : r[p] \in PageContents
    BY <1>2, ImageIs
  <2>5. /\ SubSeq(r, 1, Len(i)) \in Seq(PageContents)
        /\ Len(SubSeq(r, 1, Len(i))) = IF 1 <= Len(i) THEN Len(i) - 1 + 1 ELSE 0
        /\ \A p \in 1..Len(i) - 1 + 1 : SubSeq(r, 1, Len(i))[p] = r[1 + p - 1]
    BY <2>1, <2>4, SubSeqProperties
  <2> DEFINE q == SubSeq(r, 1, Len(i))
  <2>6. q \in Seq(PageContents) /\ Len(q) = Len(i)
    BY <1>2, <2>1, <2>5
  <2>7. \A p \in 1..Len(i) : q[p] = i[p]
    <3> TAKE p \in 1..Len(i)
    <3>1. p \in 1..Len(i) - 1 + 1 /\ 1 + p - 1 = p
      BY <2>1
    <3>2. q[p] = r[p]
      BY <2>5, <3>1
    <3>3. QED
      BY <1>2, <3>2
  <2> HIDE DEF q
  <2>8. q = i
    BY <2>4, <2>6, <2>7
  <2>9. QED
    BY <2>3, <2>8 DEF q
<1>3. QED
  BY <1>1, <1>2

\* What a journal that covers an image brings back, with the file and the
\* journal as they are or as a power loss leaves them, is that image.
LEMMA CoveredBrings ==
  ASSUME NEW b \in Nat, NEW cells, cells = [s \in Slots |-> cells[s]], JournalType(cells, b),
         NEW x \in Cells(b), NEW i, IsImage(i), NEW d, NEW n, Covered(cells, x, i, d, n),
         NEW k, FromJournal(k, cells, x), NEW f, From(f, d)
  PROVE  Result(f, k) = i
<1>0. MaxSlot \in Nat \ {0} /\ n \in 2..MaxSlot + 1 /\ n \in Nat
  BY Bounds DEF Covered
<1>1. IsMagic(x) /\ \A s \in 2..n - 1 : k[s] = cells[s].cur
  BY CoveredPlayed
<1>2. PICK e \in n - 1..MaxSlot : /\ Played(k) = SubSeq(k, 1, e)
                                  /\ \A s \in 2..e : Good(k[s], i, x.orig)
  BY CoveredPlayed
<1>3. e \in Nat /\ 1 <= e /\ e <= MaxSlot
  BY <1>0, <1>2
<1> DEFINE played == Played(k)
<1>4. DOMAIN played = 1..e /\ played # <<>> /\ \A s \in 1..e : s \in Slots /\ played[s] = k[s]
  <2>1. \A s \in 1..e : s \in Slots /\ k[s] \in Cells(b)
    BY <1>0, <1>3, FromTyped DEF Slots
  <2>2. /\ SubSeq(k, 1, e) \in Seq(Cells(b))
        /\ Len(SubSeq(k, 1, e)) = IF 1 <= e THEN e - 1 + 1 ELSE 0
        /\ \A s \in 1..e - 1 + 1 : SubSeq(k, 1, e)[s] = k[1 + s - 1]
    BY <1>3, <2>1, SubSeqProperties
  <2>3. Len(played) = e /\ played \in Seq(Cells(b))
    BY <1>2, <1>3, <2>2
  <2>4. \A s \in 1..e : s \in 1..e - 1 + 1 /\ 1 + s - 1 = s
    BY <1>3
  <2>5. \A s \in 1..e : played[s] = k[s]
    BY <1>2, <2>2, <2>4
  <2> HIDE DEF played
  <2>6. QED
    BY <1>3, <2>1, <2>3, <2>5
<1>5. k[1] = x /\ x.kind = "header"
  BY <1>1 DEF IsMagic, FromJournal
<1>6. Len(i) <= x.orig /\ (Len(i) = 0 <=> x.orig = 0) /\ (Len(i) # 0 => NoPage \notin d[1].may)
      /\ \A p \in 1..Len(i) : d[p] = Stable(i[p]) \/ Recs(cells, p, 2, n - 1)
  BY DEF Covered
<1>7. Len(i) \in Nat /\ \A p \in 1..Len(i) : p \in Pages /\ i[p] # NoPage
  BY ImageIs, Contents
<1>8. 1 \in Pages
  BY Bounds DEF Pages
<1> DEFINE of(p) == {s \in DOMAIN played : played[s].kind = "record" /\ played[s].pgno = p}
           r == RolledBack(f, played)
<1>9. f[1] = NoPage => r = f
  BY DEF RolledBack
<1>10. f[1] # NoPage =>
         \A p \in Pages : r[p] = IF p > x.orig THEN NoPage
                                 ELSE IF of(p) # {} THEN played[Max(of(p))].data
                                 ELSE IF f[p] = NoPage THEN Zero ELSE f[p]
  <2>1. played[1] = x
    BY <1>3, <1>4, <1>5
  <2> HIDE DEF played
  <2>2. QED
    BY <1>4, <2>1 DEF RolledBack
<1>11. IF Len(i) = 0 THEN r[1] = NoPage ELSE \A p \in 1..Len(i) : r[p] = i[p]
  <2> HIDE DEF r
  <2>1. CASE Len(i) = 0
    <3>1. x.orig = 0
      BY <1>6, <2>1
    <3>2. CASE f[1] = NoPage
      BY <1>9, <2>1, <3>2
    <3>3. CASE f[1] # NoPage
      <4>1. 1 > x.orig
        BY <3>1
      <4>2. QED
        BY <1>8, <1>10, <2>1, <3>3, <4>1
    <3>4. QED
      BY <3>2, <3>3
  <2>2. ASSUME Len(i) # 0, NEW p \in 1..Len(i)
        PROVE  r[p] = i[p]
    <3>1. f[1] # NoPage
      BY <1>6, <1>8, <2>2, Contents DEF From
    <3>2. p \in Pages /\ i[p] # NoPage /\ ~(p > x.orig)
      <4>1. x.orig \in Nat
        BY <1>1, Bounds DEF Cells, HeaderCells, RecordCells, NoCell, Junk, IsMagic
      <4>2. QED
        BY <1>6, <1>7, <4>1
    <3>3. CASE of(p) # {}
      <4> DEFINE s == Max(of(p))
      <4>1. of(p) \in SUBSET (0..MaxSlot)
        BY <1>0, <1>3, <1>4
      <4>2. s \in of(p)
        BY <1>0, <3>3, <4>1, MaxOfUpTo
      <4>3. s \in 1..e /\ k[s].kind = "record" /\ k[s].pgno = p /\ played[s] = k[s]
        BY <1>4, <4>2
      <4> HIDE DEF s, played
      <4>4. s # 1
        BY <1>5, <4>3
      <4>5. s \in 2..e
        BY <1>3, <4>3, <4>4
      <4>6. k[s].data = i[p]
        BY <1>2, <1>7, <4>3, <4>5 DEF Good
      <4>7. r[p] = k[s].data
        BY <1>10, <3>1, <3>2, <3>3, <4>3 DEF s
      <4>8. QED
        BY <4>6, <4>7
    <3>4. CASE of(p) = {}
      <4>1. ~Recs(cells, p, 2, n - 1)
        <5> SUFFICES ASSUME NEW s \in 2..n - 1, cells[s].cur.kind = "record",
                            cells[s].cur.pgno = p
                     PROVE  FALSE
          BY DEF Recs
        <5>1. s \in 1..e
          BY <1>0, <1>2, <1>3
        <5>2. s \in of(p)
          BY <1>1, <1>4, <5>1
        <5>3. QED
          BY <3>4, <5>2
      <4>2. d[p] = Stable(i[p])
        BY <1>6, <4>1
      <4>3. d[p].may = {i[p]}
        BY <4>2 DEF Stable
      <4>4. f[p] = i[p]
        BY <3>2, <4>3 DEF From
      <4>5. QED
        BY <1>10, <3>1, <3>2, <3>4, <4>4
    <3>5. QED
      BY <3>3, <3>4
  <2>3. QED
    BY <2>1, <2>2
<1>12. QED
  BY <1>11, ImageIn DEF Result

\* A journal without a header that can be read brings nothing back.
LEMMA NothingPlayed ==
  ASSUME NEW k, ~IsMagic(k[1]), Counts(k), NEW f
  PROVE  Result(f, k) = ImageOf(f)
<1>1. PICK end : Played(k) = SubSeq(k, 1, end[1]) /\ Ends(k, end)
  BY PlayedIs
<1>2. end[1] = 0
  BY <1>1, Bounds DEF Ends, EndBody
<1>3. Played(k) = <<>>
  BY <1>1, <1>2, SubSeqEmpty
<1>4. QED
  BY <1>3 DEF Result, RolledBack

\* A file without pages is one whatever the journal holds.
LEMMA EmptyBrings ==
  ASSUME NEW d, EmptyDb(d), NEW f, From(f, d), NEW k
  PROVE  Result(f, k) = <<>>
<1>1. 1 \in Pages /\ d[1].may = {NoPage}
  BY Bounds DEF EmptyDb, Stable, Pages
<1>2. f[1] = NoPage
  BY <1>1 DEF From
<1>3. QED
  BY <1>2 DEF Result, RolledBack, ImageOf

\* A file that is on disk as an image is read as that image.
LEMMA QuietBrings ==
  ASSUME NEW i, IsImage(i), NEW d, Quiet(d, i), NEW f, From(f, d)
  PROVE  ImageOf(f) = i
<1>1. CASE Len(i) = 0
  <2>1. 1 \in Pages /\ EmptyDb(d)
    BY <1>1, Bounds DEF Quiet, Pages
  <2>4. d[1].may = {NoPage}
    BY <2>1 DEF EmptyDb, Stable
  <2>2. f[1] = NoPage
    BY <2>1, <2>4 DEF From
  <2>3. QED
    BY <1>1, <2>2, ImageIn
<1>2. CASE Len(i) # 0
  <2>1. ASSUME NEW p \in 1..Len(i)
        PROVE  f[p] = i[p]
    <3>1. p \in Pages /\ i[p] # NoPage
      BY ImageIs, Contents
    <3>2. d[p] = Stable(i[p])
      BY <1>2 DEF Quiet
    <3>3. d[p].may = {i[p]}
      BY <3>2 DEF Stable
    <3>4. QED
      BY <3>1, <3>3 DEF From
  <2>2. QED
    BY <1>2, <2>1, ImageIn
<1>3. QED
  BY <1>1, <1>2

-----------------------------------------------------------------------------
\* The state of AtomicFile that the files stand for

FilesOK(b, d, j, name) ==
  /\ DbType(d) /\ j = [e \in Inodes |-> j[e]]
  /\ \A e \in Inodes : j[e] = [s \in Slots |-> j[e][s]] /\ JournalType(j[e], b)
  /\ name = [cur |-> name.cur, may |-> name.may]
  /\ name.cur \in name.may /\ name.may \subseteq 0..MaxInode

JournalIn(j, name) == IF name.cur = 0 THEN Cur(NoJournal) ELSE Cur(j[name.cur])
ImageNow(d, j, name) == Result(Cur(d), JournalIn(j, name))

\* What may come of the journal file e after a power loss.
JournalsOf(j, e) ==
  IF e = 0 THEN {Cur(NoJournal)} ELSE {With(j[e], x) : x \in j[e][1].may}
Results(d, j, e) == {Result(Cur(d), k) : k \in JournalsOf(j, e)}
UndoneNow(d, j, name) ==
  (UNION {Results(d, j, e) : e \in name.may}) \ {ImageNow(d, j, name)}

\* The files, before a step and after it, are as they should be.
LEMMA FilesAre ==
  ASSUME NEW b
  PROVE  /\ IInv /\ TInv(b) => FilesOK(b, db, journal, dirent)
         /\ IInv' /\ TInv(b)' => FilesOK(b, db', journal', dirent')
BY DEF IInv, FilesInv, TInv, FilesOK

\* Image and Undone, and what they are after a step.
OutcomesOf(f, S) ==
  {ImageOf(d) : d \in {RolledBack(h, j) : h \in {f}, j \in {Played(k) : k \in S}}}

\* Outcomes(), journal by journal.
LEMMA OutcomesAre ==
  ASSUME NEW f, NEW S
  PROVE  OutcomesOf(f, S) = {Result(f, k) : k \in S}
BY DEF Result, OutcomesOf

\* Image, before a step and after it, as a function of the files.
LEMMA ImageNowIs ==
  /\ Image = ImageNow(db, journal, dirent)
  /\ Image' = ImageNow(db', journal', dirent')
<1>1. ASSUME NEW f, NEW k
      PROVE  (CHOOSE x \in OutcomesOf(f, {k}) : TRUE) = Result(f, k)
  <2>1. OutcomesOf(f, {k}) = {Result(f, l) : l \in {k}}
    BY OutcomesAre
  <2>2. OutcomesOf(f, {k}) = {Result(f, k)}
    BY <2>1
  <2>3. QED
    BY <2>2
<1>2. Image = CHOOSE x \in OutcomesOf(Cur(db), {JournalNow}) : TRUE
  BY DEF Image, Outcomes, OutcomesOf
<1>3. Image' = CHOOSE x \in OutcomesOf(Cur(db'), {JournalNow'}) : TRUE
  BY DEF Image, Outcomes, OutcomesOf
<1>4. JournalNow = JournalIn(journal, dirent) /\ JournalNow' = JournalIn(journal', dirent')
  BY DEF JournalNow, JournalIn
<1>5. QED
  BY <1>1, <1>2, <1>3, <1>4 DEF ImageNow

\* The same of Undone.
LEMMA UndoneNowIs ==
  /\ Undone = UndoneNow(db, journal, dirent)
  /\ Undone' = UndoneNow(db', journal', dirent')
<1> DEFINE All(j, name) == UNION {JournalsOf(j, e) : e \in name.may}
<1>1. ASSUME NEW d, NEW j, NEW name
      PROVE  OutcomesOf(Cur(d), All(j, name)) = UNION {Results(d, j, e) : e \in name.may}
  <2>1. {Result(Cur(d), k) : k \in All(j, name)} = UNION {Results(d, j, e) : e \in name.may}
    BY DEF Results
  <2>2. QED
    BY <2>1, OutcomesAre
<1>2. Undone = OutcomesOf(Cur(db), All(journal, dirent)) \ {Image}
  BY DEF Undone, Outcomes, OutcomesOf, JournalsOf, With
<1>3. Undone' = OutcomesOf(Cur(db'), All(journal', dirent')) \ {Image'}
  BY DEF Undone, Outcomes, OutcomesOf, JournalsOf, With
<1> HIDE DEF All
<1>4. ASSUME NEW d, NEW j, NEW name
      PROVE  UndoneNow(d, j, name) = OutcomesOf(Cur(d), All(j, name)) \ {ImageNow(d, j, name)}
  BY <1>1 DEF UndoneNow
<1>5. Undone = UndoneNow(db, journal, dirent)
  BY <1>2, <1>4, ImageNowIs
<1>6. Undone' = UndoneNow(db', journal', dirent')
  BY <1>3, <1>4, ImageNowIs
<1>7. QED
  BY <1>5, <1>6

-----------------------------------------------------------------------------
\* The files as a read sees them are one of the contents that they may have.
LEMMA CurIsFrom ==
  ASSUME NEW d, DbType(d)
  PROVE  From(Cur(d), d)
<1>1. Cur(d) = [p \in Pages |-> Cur(d)[p]] /\ \A p \in Pages : Cur(d)[p] = d[p].cur
  BY DEF DbType, Cur
<1>2. \A p \in Pages : d[p].cur \in d[p].may
  BY DEF DbType, CellOf
<1>3. QED
  BY <1>1, <1>2 DEF From

\* A first header and what a read sees of the rest: one of the contents
\* that the journal may have.
LEMMA WithIsFrom ==
  ASSUME NEW b, NEW cells, cells = [s \in Slots |-> cells[s]], JournalType(cells, b), NEW x
  PROVE  FromJournal(With(cells, x), cells, x)
<1>1. \A s \in Slots : cells[s].cur \in cells[s].may
  BY DEF JournalType, CellOf
<1>2. QED
  BY <1>1, WithIs DEF FromJournal

\* With the first header that a read sees it is what a read sees.
LEMMA WithCur ==
  ASSUME NEW cells, cells = [s \in Slots |-> cells[s]]
  PROVE  With(cells, cells[1].cur) = Cur(cells)
<1>1. 1 \in Slots
  BY Bounds DEF Slots
<1>2. \A s \in Slots : With(cells, cells[1].cur)[s] = Cur(cells)[s]
  BY <1>1, WithIs
<1>3. QED
  BY <1>2, WithIs

\* The first header of a journal file, as it may be.
LEMMA FirstSlot ==
  ASSUME NEW b, NEW d, NEW j, NEW name, FilesOK(b, d, j, name), NEW e \in name.may, e # 0
  PROVE  /\ e \in Inodes /\ 1 \in Slots /\ j[e] = [s \in Slots |-> j[e][s]] /\ JournalType(j[e], b)
         /\ j[e][1].may \subseteq Cells(b) /\ j[e][1].cur \in j[e][1].may
<1>1. e \in Inodes /\ 1 \in Slots
  BY Bounds DEF FilesOK, Inodes, Slots
<1>2. QED
  BY <1>1 DEF FilesOK, JournalType, CellOf

\* A journal that is not there has nothing in it.
LEMMA NoJournalIs == ~IsMagic(Cur(NoJournal)[1]) /\ Counts(Cur(NoJournal))
<1>1. \A s \in Slots : Cur(NoJournal)[s] = NoCell
  BY DEF Cur, NoJournal, Stable
<1>2. 1 \in Slots
  BY Bounds DEF Slots
<1>3. QED
  BY <1>1, <1>2 DEF IsMagic, NoCell, Counts

\* A journal that brings nothing back.
LEMMA ColdBrings ==
  ASSUME NEW b \in Nat, NEW d, DbType(d), NEW i, IsImage(i), Quiet(d, i),
         NEW k, \A s \in Slots : k[s] \in Cells(b), ~IsMagic(k[1]), NEW f, From(f, d)
  PROVE  Result(f, k) = i
<1>1. Counts(k)
  BY CellsCount
<1>2. QED
  BY <1>1, NothingPlayed, QuietBrings

\* Without pages there is no image but the empty one.
LEMMA EmptyIs ==
  ASSUME NEW b, NEW i, IsImage(i), NEW d, NEW j, NEW name, NEW m, FilesK(i, d, j, name, m),
         FilesOK(b, d, j, name), EmptyDb(d)
  PROVE  Len(i) = 0 /\ i = <<>>
<1>1. 1 \in Pages /\ d[1].may = {NoPage}
  BY Bounds DEF EmptyDb, Stable, Pages
<1>2. ASSUME Len(i) # 0
      PROVE  FALSE
  <2>1. 1 \in 1..Len(i) /\ i[1] # NoPage
    BY <1>2, ImageIs, Contents
  <2>2. CASE Quiet(d, i)
    <3>1. d[1] = Stable(i[1])
      BY <1>2, <2>1, <2>2 DEF Quiet
    <3>2. QED
      BY <1>1, <2>1, <3>1 DEF Stable
  <2>3. CASE ~Quiet(d, i)
    <3>1. name.cur # 0 /\ IsMagic(j[name.cur][1].cur)
      BY <2>3 DEF FilesK
    <3>2. PICK n : Covered(j[name.cur], j[name.cur][1].cur, i, d, n)
      BY <1>2, <3>1 DEF FilesK
    <3>3. QED
      BY <1>1, <1>2, <3>2 DEF Covered
  <2>4. QED
    BY <2>2, <2>3
<1>3. QED
  BY <1>2, ImageIs

\* A journal file brings back what its first header promises.
LEMMA NamedBrings ==
  ASSUME NEW b \in Nat, NEW i, IsImage(i), NEW d, NEW j, NEW name, NEW m,
         FilesK(i, d, j, name, m), FilesOK(b, d, j, name), NEW e \in name.may,
         e = 0 \/ \A x \in j[e][1].may : IsMagic(x) => EmptyDb(d)
  PROVE  Results(d, j, e) = {i}
<1>0. DbType(d) /\ From(Cur(d), d) /\ NamedK(e, i, d, j, m)
  BY CurIsFrom DEF FilesOK, FilesK
<1>1. CASE e = 0
  <2>1. Quiet(d, i)
    BY <1>0, <1>1 DEF NamedK
  <2>2. Result(Cur(d), Cur(NoJournal)) = i
    BY <1>0, <2>1, NoJournalIs, NothingPlayed, QuietBrings
  <2>3. QED
    BY <1>1, <2>2 DEF Results, JournalsOf
<1>2. CASE e # 0
  <2>1. /\ e \in Inodes /\ 1 \in Slots /\ j[e] = [s \in Slots |-> j[e][s]] /\ JournalType(j[e], b)
        /\ j[e][1].may \subseteq Cells(b) /\ j[e][1].cur \in j[e][1].may
    BY <1>2, FirstSlot
  <2>2. ASSUME NEW x \in j[e][1].may
        PROVE  Result(Cur(d), With(j[e], x)) = i
    <3>1. FromJournal(With(j[e], x), j[e], x)
      BY <2>1, WithIsFrom
    <3>2. CASE IsMagic(x)
      <4>1. EmptyDb(d)
        BY <1>2, <3>2
      <4>2. QED
        BY <1>0, <4>1, EmptyBrings, EmptyIs
    <3>3. CASE ~IsMagic(x)
      <4>1. Quiet(d, i)
        BY <1>0, <1>2, <3>3 DEF NamedK
      <4>2. \A s \in Slots : With(j[e], x)[s] \in Cells(b)
        BY <2>1, <3>1, FromTyped
      <4>3. ~IsMagic(With(j[e], x)[1])
        BY <3>1, <3>3 DEF FromJournal
      <4>4. QED
        BY <1>0, <4>1, <4>2, <4>3, ColdBrings
    <3>4. QED
      BY <3>2, <3>3
  <2>3. Results(d, j, e) = {Result(Cur(d), With(j[e], x)) : x \in j[e][1].may}
    BY <1>2 DEF Results, JournalsOf
  <2>4. QED
    BY <2>1, <2>2, <2>3
<1>3. QED
  BY <1>1, <1>2

\* The files stand for the image that the invariant says.
LEMMA FilesBring ==
  ASSUME NEW b \in Nat, NEW i, IsImage(i), NEW d, NEW j, NEW name, NEW m,
         FilesK(i, d, j, name, m), FilesOK(b, d, j, name)
  PROVE  ImageNow(d, j, name) = i
<1>0. DbType(d) /\ From(Cur(d), d) /\ name.cur \in name.may
  BY CurIsFrom DEF FilesOK
<1>1. CASE name.cur = 0
  <2>1. Results(d, j, name.cur) = {i}
    BY <1>0, <1>1, NamedBrings
  <2>2. QED
    BY <1>1, <2>1 DEF Results, JournalsOf, ImageNow, JournalIn
<1>2. CASE name.cur # 0
  <2> DEFINE cells == j[name.cur]
  <2>1. /\ 1 \in Slots /\ cells = [s \in Slots |-> cells[s]] /\ JournalType(cells, b)
        /\ cells[1].may \subseteq Cells(b) /\ cells[1].cur \in cells[1].may
    BY <1>0, <1>2, FirstSlot
  <2>2. ImageNow(d, j, name) = Result(Cur(d), Cur(cells))
    BY <1>2 DEF ImageNow, JournalIn
  <2>3. FromJournal(Cur(cells), cells, cells[1].cur)
    BY <2>1, WithIsFrom, WithCur
  <2>4. \/ ~IsMagic(cells[1].cur) /\ Quiet(d, i)
        \/ Len(i) = 0 /\ EmptyDb(d)
        \/ \E n : Covered(cells, cells[1].cur, i, d, n)
    BY <1>2 DEF FilesK
  <2> HIDE DEF cells
  <2>5. CASE ~IsMagic(cells[1].cur) /\ Quiet(d, i)
    <3>1. \A s \in Slots : Cur(cells)[s] \in Cells(b)
      BY <2>1, <2>3, FromTyped
    <3>2. ~IsMagic(Cur(cells)[1])
      BY <2>3, <2>5 DEF FromJournal
    <3>3. QED
      BY <1>0, <2>2, <2>5, <3>1, <3>2, ColdBrings
  <2>6. CASE Len(i) = 0 /\ EmptyDb(d)
    BY <1>0, <2>2, <2>6, EmptyBrings, ImageIs
  <2>7. CASE \E n : Covered(cells, cells[1].cur, i, d, n)
    <3>1. PICK n : Covered(cells, cells[1].cur, i, d, n)
      BY <2>7
    <3>2. cells[1].cur \in Cells(b)
      BY <2>1
    <3>3. QED
      BY <1>0, <2>1, <2>2, <2>3, <3>1, <3>2, CoveredBrings
  <2>8. QED
    BY <2>4, <2>5, <2>6, <2>7
<1>3. QED
  BY <1>1, <1>2

\* What a power loss may bring back is the same before and after a step if
\* the files are that it changed bring back the image.
LEMMA UndoneSame ==
  ASSUME NEW d, NEW j, NEW name, NEW d2, NEW j2, NEW name2, NEW i,
         ImageNow(d, j, name) = i, ImageNow(d2, j2, name2) = i,
         \A e \in name.may : \/ e \in name2.may /\ Results(d2, j2, e) = Results(d, j, e)
                             \/ Results(d, j, e) = {i},
         \A e \in name2.may : \/ e \in name.may /\ Results(d2, j2, e) = Results(d, j, e)
                              \/ Results(d2, j2, e) = {i}
  PROVE  UndoneNow(d2, j2, name2) = UndoneNow(d, j, name)
<1> DEFINE A == UNION {Results(d, j, e) : e \in name.may}
           B == UNION {Results(d2, j2, e) : e \in name2.may}
<1>1. ASSUME NEW x \in A, x # i
      PROVE  x \in B
  <2>1. PICK e \in name.may : x \in Results(d, j, e)
    OBVIOUS
  <2>2. e \in name2.may /\ x \in Results(d2, j2, e)
    BY <1>1, <2>1
  <2>3. QED
    BY <2>2
<1>2. ASSUME NEW x \in B, x # i
      PROVE  x \in A
  <2>1. PICK e \in name2.may : x \in Results(d2, j2, e)
    OBVIOUS
  <2>2. e \in name.may /\ x \in Results(d, j, e)
    BY <1>2, <2>1
  <2>3. QED
    BY <2>2
<1> HIDE DEF A, B
<1>3. A \ {i} = B \ {i}
  BY <1>1, <1>2
<1>4. QED
  BY <1>3 DEF UndoneNow, A, B

\* The same journal brings the same back if page 1 and the rest are the same.
LEMMA SameResults ==
  ASSUME NEW d, NEW j, NEW d2, NEW j2, NEW e, Cur(d2) = Cur(d), e # 0 => j2[e] = j[e]
  PROVE  Results(d2, j2, e) = Results(d, j, e)
BY DEF Results, JournalsOf

\* Once the name and the first header are on disk nothing else can come back.
LEMMA OneOutcome ==
  ASSUME NEW d, NEW j, NEW name, name.may = {name.cur},
         name.cur # 0 => /\ j[name.cur] = [s \in Slots |-> j[name.cur][s]]
                         /\ j[name.cur][1].may = {j[name.cur][1].cur}
  PROVE  UndoneNow(d, j, name) = {}
<1>1. Results(d, j, name.cur) = {ImageNow(d, j, name)}
  <2>1. CASE name.cur = 0
    BY <2>1 DEF Results, JournalsOf, ImageNow, JournalIn
  <2>2. CASE name.cur # 0
    <3>1. With(j[name.cur], j[name.cur][1].cur) = Cur(j[name.cur])
      BY <2>2, WithCur
    <3>2. JournalsOf(j, name.cur) = {Cur(j[name.cur])}
      BY <2>2, <3>1 DEF JournalsOf
    <3>3. QED
      BY <2>2, <3>2 DEF Results, ImageNow, JournalIn
  <2>3. QED
    BY <2>1, <2>2
<1>2. UNION {Results(d, j, e) : e \in name.may} = {ImageNow(d, j, name)}
  BY <1>1
<1>3. QED
  BY <1>2 DEF UndoneNow

-----------------------------------------------------------------------------
\* What a step of one connection leaves of the promise

\* Whoever has the reserved byte went through RESERVED.
LEMMA ReserverStep ==
  ASSUME LockTypeOK, [LockNext]_lockVars, \A c \in reserver : lock[c] >= RESERVED_LOCK
  PROVE  \A c \in reserver' : lock'[c] >= RESERVED_LOCK
<1> USE DEF LockTypeOK, Levels, NO_LOCK, SHARED_LOCK, RESERVED_LOCK, PENDING_LOCK, EXCLUSIVE_LOCK
<1>1. ASSUME NEW c \in Conns, LockShared(c) \/ LockPending(c) \/ LockExclusive(c) \/ LeaveReserved(c)
      PROVE  \A d \in reserver' : lock'[d] >= RESERVED_LOCK
  BY <1>1 DEF LockShared, LockPending, LockExclusive, LeaveReserved
<1>2. ASSUME NEW c \in Conns, LockReserved(c)
      PROVE  \A d \in reserver' : lock'[d] >= RESERVED_LOCK
  BY <1>2 DEF LockReserved
<1>3. ASSUME NEW c \in Conns, NEW l, Unlock(c, l)
      PROVE  \A d \in reserver' : lock'[d] >= RESERVED_LOCK
  BY <1>3 DEF Unlock
<1>4. ASSUME NEW gone \in SUBSET Conns, Vanish(gone)
      PROVE  \A d \in reserver' : lock'[d] >= RESERVED_LOCK
  BY <1>4 DEF Vanish
<1>5. CASE UNCHANGED lockVars
  BY <1>5 DEF lockVars
<1>6. QED
  BY <1>1, <1>2, <1>3, <1>4, <1>5 DEF LockNext

\* What the whole of the connections has to say of an empty file, and of a
\* journal that is being ended.
EmptyK(d, j, name, g, l) ==
  /\ d[1].cur = NoPage => EmptyDb(d) \/ \E c \in Conns : Cutting(g[c], l[c])
  /\ Dying(j, name) => EmptyDb(d) \/ \E c \in Conns : g[c].pc = "finsync"

\* One connection moves: the files and the connections stay as they should.
LEMMA OnePromises ==
  ASSUME IInv, NEW i, PInv(i), NEW c \in Conns, NEW g, Set(c, g), mode' = mode,
         [LockNext]_lockVars, \A d \in Others(c) : lock'[d] = lock[d],
         NEW u, IsImage(u), FilesK(u, db', journal', dirent', mode),
         EmptyK(db', journal', dirent', pager', lock'),
         ConnK(g, lock'[c], u, db', journal', dirent', mode),
         \A d \in Others(c) : ConnK(pager[d], lock[d], u, db', journal', dirent', mode)
  PROVE  PInv(u)'
<1>1. pager' = [pager EXCEPT ![c] = g] /\ pager = [d \in Conns |-> pager[d]]
  BY DEF Set, IInv
<1>2. \A d \in Conns : pager'[d] = IF d = c THEN g ELSE pager[d]
  BY <1>1
<1>3. \A d \in Conns : ConnK(pager'[d], lock'[d], u, db', journal', dirent', mode)
  BY <1>2 DEF Others
<1>4. \A d \in reserver' : lock'[d] >= RESERVED_LOCK
  BY ReserverStep DEF IInv, PInv
<1>5. QED
  BY <1>3, <1>4 DEF PInv, EmptyK

\* A connection is open, but not to play back a hot journal.
LEMMA OpenIs ==
  ASSUME NEW g, g.eState = "open", ~g.hot, NEW l, NEW i, NEW d, NEW j, NEW name, NEW m
  PROVE  ConnK(g, l, i, d, j, name, m) <=>
           TrustK(g, l, i, d, j, name) /\ CacheK(g, i) /\ JfdK(g, i, name, m)
BY DEF ConnK, ReadK, OwnK, Active, Playing, Undoes, HotK

\* A connection without a lock relies on its cache alone; no journal is open.
IdleK(g, i) == CacheK(g, i) /\ g.jfd = 0

\* Without a lock a connection is between transactions.
LEMMA UnlockedIs ==
  ASSUME NEW g, NEW l, PagerInv(g, l), l = NO_LOCK
  PROVE  g.eState = "open" /\ g.pc = "idle" /\ g.hot = FALSE
<1>1. g.eState = "open" /\ g.pc = "idle"
  BY DEF PagerInv, StateInv, NO_LOCK, SHARED_LOCK, RESERVED_LOCK, EXCLUSIVE_LOCK, PENDING_LOCK
<1>2. QED
  BY <1>1 DEF PagerInv, HotInv, PlayPcs

\* A connection between transactions relies on its cache alone.
LEMMA IdleIs ==
  ASSUME NEW g, g.eState = "open", g.pc = "idle", g.hot = FALSE,
         NEW l, NEW i, NEW d, NEW j, NEW name, NEW m
  PROVE  ConnK(g, l, i, d, j, name, m) <=> IdleK(g, i)
<1>1. TrustK(g, l, i, d, j, name)
  BY DEF TrustK, Trusts, Cools
<1>2. JfdK(g, i, name, m) <=> g.jfd = 0
  BY DEF JfdK
<1>3. QED
  BY <1>1, <1>2, OpenIs DEF IdleK

\* The others of one that has EXCLUSIVE.
LEMMA OthersIdle ==
  ASSUME IInv, NEW i, PInv(i), NEW c \in Conns, lock[c] = EXCLUSIVE_LOCK,
         NEW u, NEW d, NEW j, NEW name,
         \A b \in Others(c) : IdleK(pager[b], i) => IdleK(pager[b], u)
  PROVE  \A b \in Others(c) : ConnK(pager[b], lock[b], u, d, j, name, mode)
<1> TAKE b \in Others(c)
<1>1. b \in Conns /\ PagerInv(pager[b], lock[b]) /\ lock[b] = NO_LOCK
  BY DEF IInv, Exclusion, Others
<1>2. pager[b].eState = "open" /\ pager[b].pc = "idle" /\ pager[b].hot = FALSE
  BY <1>1, UnlockedIs
<1>3. ConnK(pager[b], lock[b], i, db, journal, dirent, mode)
  BY <1>1 DEF PInv
<1>4. QED
  BY <1>2, <1>3, IdleIs

\* The others of one that has RESERVED at least, while the file stays as it is.
LEMMA SharedIs ==
  ASSUME NEW g, NEW l, PagerInv(g, l), l \in Levels, l <= SHARED_LOCK
  PROVE  /\ ~g.hot /\ g.pc \notin {"hotsync", "delete", "open", "end", "finsync"}
         /\ g.eState \in {"open", "reader", "error"}
<1> USE DEF Levels, NO_LOCK, SHARED_LOCK, RESERVED_LOCK, EXCLUSIVE_LOCK, PENDING_LOCK
<1>1. /\ g.pc \notin {"hotsync", "delete", "open", "end", "finsync"}
      /\ g.eState \in {"open", "reader", "error"}
      /\ g.eState = "open" => g.pc \in {"idle"} \cup ReadPcs
  BY DEF PagerInv, StateInv, ReadPcs
<1>2. QED
  BY <1>1 DEF PagerInv, HotInv, PlayPcs, ReadPcs

\* So they rely on the file that stays, and on a journal that is not hot.
LEMMA OthersShared ==
  ASSUME IInv, NEW i, PInv(i), NEW c \in Conns, lock[c] >= RESERVED_LOCK,
         NEW j, NEW name,
         \A b \in Others(c) : Cools(pager[b], lock[b]) => Cold(db, j, name),
         \A b \in Others(c) :
           /\ pager[b].eState # "error" /\ pager[b].jfd # 0 /\ Len(i) # 0
           /\ dirent.cur = pager[b].jfd
           => name.cur = pager[b].jfd
  PROVE  \A b \in Others(c) : ConnK(pager[b], lock[b], i, db, j, name, mode)
<1> TAKE b \in Others(c)
<1> DEFINE g == pager[b]
           l == lock[b]
<1>1. PagerInv(g, l) /\ l \in Levels /\ l <= SHARED_LOCK
  <2>1. PagerInv(g, l) /\ l \in Levels /\ lock[c] \in Levels
    BY DEF IInv, Others, LockTypeOK
  <2>2. lock[c] > SHARED_LOCK
    BY <2>1 DEF Levels, NO_LOCK, EXCLUSIVE_LOCK, SHARED_LOCK, RESERVED_LOCK
  <2>3. QED
    BY <2>1, <2>2 DEF IInv, Exclusion, Others
<1>2. ConnK(g, l, i, db, journal, dirent, mode)
  BY DEF PInv, Others
<1>3. Cools(g, l) => Cold(db, j, name)
  OBVIOUS
<1>4. g.eState # "error" /\ g.jfd # 0 /\ Len(i) # 0 /\ dirent.cur = g.jfd => name.cur = g.jfd
  OBVIOUS
<1> HIDE DEF g, l
<1>5. /\ ~g.hot /\ g.pc \notin {"hotsync", "delete", "open", "end", "finsync"}
      /\ g.eState \in {"open", "reader", "error"}
  BY <1>1, SharedIs
<1>6. TrustK(g, l, i, db, journal, dirent) /\ CacheK(g, i) /\ ReadK(g, i) /\ JfdK(g, i, dirent, mode)
  BY <1>2 DEF ConnK
<1>7. TrustK(g, l, i, db, j, name)
  BY <1>3, <1>6 DEF TrustK
<1>8. JfdK(g, i, name, mode)
  BY <1>4, <1>5, <1>6 DEF JfdK
<1>9. OwnK(g, i, db, j[g.jfd], name, mode) /\ HotK(g, i, db, j[g.jfd])
  BY <1>5 DEF OwnK, HotK, Active, Playing, Undoes
<1>10. QED
  BY <1>6, <1>7, <1>8, <1>9 DEF ConnK, g, l

\* Only the pager of one connection and its lock change.
LEMMA PagerPromises ==
  ASSUME IInv, NEW i, PInv(i), NEW c \in Conns, NEW g, Set(c, g),
         UNCHANGED <<mode, db, journal, dirent>>,
         [LockNext]_lockVars, \A d \in Others(c) : lock'[d] = lock[d],
         ConnK(g, lock'[c], i, db, journal, dirent, mode),
         Cutting(pager[c], lock[c]) =>
           Cutting(g, lock'[c]) \/ EmptyDb(db) \/ db[1].cur # NoPage,
         pager[c].pc = "finsync" => EmptyDb(db) \/ ~Dying(journal, dirent)
  PROVE  PInv(i)'
<1>1. pager' = [pager EXCEPT ![c] = g] /\ pager = [d \in Conns |-> pager[d]]
  BY DEF Set, IInv
<1>2. \A d \in Conns : /\ pager'[d] = IF d = c THEN g ELSE pager[d]
                       /\ d # c => lock'[d] = lock[d]
  BY <1>1 DEF Others
<1>3. EmptyK(db, journal, dirent, pager, lock)
  BY DEF PInv, EmptyK
<1>4. EmptyK(db', journal', dirent', pager', lock')
  BY <1>2, <1>3 DEF EmptyK
<1>5. IsImage(i) /\ FilesK(i, db', journal', dirent', mode)
  BY DEF PInv
<1>6. \A d \in Others(c) : ConnK(pager[d], lock[d], i, db', journal', dirent', mode)
  BY DEF PInv, Others
<1>7. ConnK(g, lock'[c], i, db', journal', dirent', mode)
  OBVIOUS
<1>8. QED
  BY <1>4, <1>5, <1>6, <1>7, OnePromises

-----------------------------------------------------------------------------
\* Beginning to read

\* The call of a connection that begins to read goes on.
LEMMA OpenGoes ==
  ASSUME IInv, NEW i, PInv(i), NEW c \in Conns, NEW pc, Goto(c, pc),
         pager[c].eState = "open", ~pager[c].hot, pager[c].pc # "hotsync", pc # "hotsync",
         pager[c].pc # "finsync", pager[c].pc \notin {"play", "record", "playend", "dbsync"},
         UNCHANGED <<mode, files>>,
         [LockNext]_lockVars, \A d \in Others(c) : lock'[d] = lock[d],
         pc \in {"validate", "empty", "delete"} =>
           Quiet(db, i) /\ Cold(db, journal, dirent),
         pc \in {"empty", "delete"} => Len(i) = 0,
         pc \in {"first", "hot", "open"} => db[1].cur # NoPage,
         pc \notin {"idle", "end", "finsync"}
  PROVE  PInv(i)'
<1> DEFINE g == pager[c]
           h == [g EXCEPT !.pc = pc]
<1>1. Set(c, h) /\ UNCHANGED <<mode, db, journal, dirent>>
  BY DEF Goto, files
<1>2. g = [f \in Fields |-> g[f]]
  BY DEF IInv, PagerInv
<1>3. /\ h.eState = "open" /\ h.hot = g.hot /\ h.pc = pc /\ h.cache = g.cache /\ h.vers = g.vers
      /\ h.jfd = g.jfd
  BY <1>2 DEF Fields
<1>4. ConnK(g, lock[c], i, db, journal, dirent, mode)
  BY DEF PInv
<1>5. TrustK(g, lock[c], i, db, journal, dirent) /\ CacheK(g, i) /\ JfdK(g, i, dirent, mode)
  BY <1>4, OpenIs
<1>6. TrustK(h, lock'[c], i, db, journal, dirent)
  BY <1>3 DEF TrustK, Trusts, Cools
<1>7. CacheK(h, i)
  BY <1>3, <1>5 DEF CacheK, NothingCached, Coherent
<1>8. JfdK(h, i, dirent, mode)
  BY <1>3, <1>5 DEF JfdK
<1>9. ConnK(h, lock'[c], i, db, journal, dirent, mode)
  BY <1>3, <1>6, <1>7, <1>8, OpenIs
<1>10. ~Cutting(g, lock[c]) /\ g.pc # "finsync"
  BY DEF Cutting
<1> HIDE DEF g, h
<1>11. QED
  BY <1>1, <1>9, <1>10, PagerPromises DEF g

\* Where a connection is at that has read nothing yet.
LEMMA OpenAt ==
  ASSUME IInv, NEW c \in Conns,
         pager[c].pc \in {"exists", "reserved", "empty", "delete", "first", "hot", "open",
                          "hotsync", "validate"}
  PROVE  /\ PagerInv(pager[c], lock[c])
         /\ pager[c].eState = "open" /\ pager[c].hot = FALSE /\ lock[c] # NO_LOCK
         /\ pager[c].pc \notin {"open", "hotsync"} => lock[c] < EXCLUSIVE_LOCK
         /\ pager[c].pc \in ReadPcs => lock[c] = SHARED_LOCK
         /\ pager[c].pc \in {"open", "hotsync"} => lock[c] = EXCLUSIVE_LOCK
<1> USE DEF NO_LOCK, SHARED_LOCK, RESERVED_LOCK, EXCLUSIVE_LOCK, PENDING_LOCK
<1>1. PagerInv(pager[c], lock[c])
  BY DEF IInv
<1>2. /\ pager[c].eState = "open" /\ lock[c] # NO_LOCK
      /\ pager[c].pc \notin {"open", "hotsync"} => lock[c] < EXCLUSIVE_LOCK
      /\ pager[c].pc \in ReadPcs => lock[c] = SHARED_LOCK
      /\ pager[c].pc \in {"open", "hotsync"} => lock[c] = EXCLUSIVE_LOCK
  BY SMTT(60), <1>1 DEF PagerInv, StateInv, ReadPcs, PlayPcs, CommitPcs
<1>3. pager[c].hot = FALSE
  BY <1>1, <1>2 DEF PagerInv, HotInv, PlayPcs
<1>4. QED
  BY <1>1, <1>2, <1>3

\* The lock of no connection but one changes.
LEMMA SameLocks ==
  ASSUME UNCHANGED lockVars
  PROVE  [LockNext]_lockVars /\ \A d \in Conns : lock'[d] = lock[d]
BY DEF lockVars

\* An empty file, seen by one that keeps others from having EXCLUSIVE.
LEMMA EmptySeen ==
  ASSUME IInv, NEW b \in Nat, TInv(b), NEW i, PInv(i), NEW c \in Conns,
         lock[c] # NO_LOCK, lock[c] < EXCLUSIVE_LOCK, db[1].cur = NoPage
  PROVE  EmptyDb(db) /\ Len(i) = 0 /\ i = <<>> /\ Quiet(db, i) /\ Cold(db, journal, dirent)
<1>1. ASSUME NEW d \in Conns, lock[d] = EXCLUSIVE_LOCK
      PROVE  FALSE
  <2>1. CASE d = c
    BY <1>1, <2>1 DEF EXCLUSIVE_LOCK
  <2>2. CASE d # c
    BY <1>1, <2>2 DEF IInv, Exclusion, Others
  <2>3. QED
    BY <2>1, <2>2
<1>2. \A d \in Conns : ~Cutting(pager[d], lock[d])
  BY <1>1 DEF Cutting
<1>3. EmptyDb(db)
  BY <1>2 DEF PInv
<1>4. FilesOK(b, db, journal, dirent) /\ IsImage(i) /\ FilesK(i, db, journal, dirent, mode)
  BY FilesAre DEF PInv
<1>5. Len(i) = 0 /\ i = <<>>
  BY <1>3, <1>4, EmptyIs
<1>6. QED
  BY <1>3, <1>5 DEF Quiet, Cold

\* sqlite3PagerSharedLock() takes SHARED.
LEMMA SharedLockKept ==
  ASSUME IInv, NEW i, PInv(i), NEW c \in Conns, SharedLock(c)
  PROVE  PInv(i)'
<1>1. /\ pager[c].eState = "open" /\ pager[c].pc = "idle" /\ Goto(c, "exists")
      /\ UNCHANGED <<mode, files>> /\ LockShared(c)
  BY DEF SharedLock
<1>2. ~pager[c].hot
  BY <1>1 DEF IInv, PagerInv, HotInv, PlayPcs
<1>3. [LockNext]_lockVars /\ \A d \in Others(c) : lock'[d] = lock[d]
  BY <1>1, LockGiven DEF IInv
<1>4. QED
  BY <1>1, <1>2, <1>3, OpenGoes

\* hasHotJournal() looks for the journal,
LEMMA JournalExistsKept ==
  ASSUME IInv, NEW i, PInv(i), NEW c \in Conns, JournalExists(c)
  PROVE  PInv(i)'
<1> DEFINE pc == IF dirent.cur = 0 THEN "validate" ELSE "reserved"
<1>1. pager[c].pc = "exists" /\ Goto(c, pc) /\ UNCHANGED <<mode, files>> /\ UNCHANGED lockVars
  BY DEF JournalExists, lockVars
<1>2. pager[c].eState = "open" /\ ~pager[c].hot
  BY <1>1, OpenAt
<1>3. [LockNext]_lockVars /\ \A d \in Others(c) : lock'[d] = lock[d]
  BY <1>1, SameLocks DEF Others
<1>4. dirent.cur = 0 => Quiet(db, i) /\ Cold(db, journal, dirent)
  BY DEF PInv, FilesK, Cold
<1>5. pc \in {"validate", "reserved"} /\ (pc = "validate" => dirent.cur = 0)
  OBVIOUS
<1> HIDE DEF pc
<1>6. QED
  BY <1>1, <1>2, <1>3, <1>4, <1>5, OpenGoes

\* Who may have RESERVED besides a reader relies on the file itself.
LEMMA ReservedTrusts ==
  ASSUME IInv, NEW i, PInv(i), NEW c \in Conns, lock[c] = SHARED_LOCK,
         NEW d \in Others(c), lock[d] >= RESERVED_LOCK
  PROVE  Quiet(db, i) /\ Cold(db, journal, dirent)
<1> USE DEF NO_LOCK, SHARED_LOCK, RESERVED_LOCK, EXCLUSIVE_LOCK, PENDING_LOCK
<1>1. d \in Conns /\ PagerInv(pager[d], lock[d]) /\ lock[d] \in Levels
  BY DEF IInv, Others, LockTypeOK
<1>2. lock[d] # EXCLUSIVE_LOCK
  <2>1. c \in Others(d)
    BY <1>1 DEF Others
  <2>2. QED
    BY <1>1, <2>1 DEF IInv, Exclusion
<1>3. lock[d] < EXCLUSIVE_LOCK
  BY <1>1, <1>2 DEF Levels
<1>4. Trusts(pager[d], lock[d]) /\ Cools(pager[d], lock[d])
  BY SMTT(60), <1>1, <1>3 DEF PagerInv, StateInv, Trusts, Cools, ReadPcs, PlayPcs, CommitPcs
<1>5. TrustK(pager[d], lock[d], i, db, journal, dirent)
  BY <1>1 DEF PInv, ConnK
<1>6. QED
  BY <1>4, <1>5 DEF TrustK

\* then whether somebody has RESERVED, and whether the file has pages;
LEMMA CheckReservedKept ==
  ASSUME IInv, NEW b \in Nat, TInv(b), NEW i, PInv(i), NEW c \in Conns, CheckReserved(c)
  PROVE  PInv(i)'
<1> DEFINE pc == IF ReservedSeen(c) THEN "validate" ELSE IF DbSize = 0 THEN "empty" ELSE "first"
<1>1. pager[c].pc = "reserved" /\ Goto(c, pc) /\ UNCHANGED <<mode, files>> /\ UNCHANGED lockVars
  BY DEF CheckReserved, lockVars
<1>2. /\ pager[c].eState = "open" /\ ~pager[c].hot
      /\ lock[c] = SHARED_LOCK /\ lock[c] # NO_LOCK /\ lock[c] < EXCLUSIVE_LOCK
  BY <1>1, OpenAt DEF ReadPcs
<1>3. [LockNext]_lockVars /\ \A d \in Others(c) : lock'[d] = lock[d]
  BY <1>1, SameLocks DEF Others
<1>4. ASSUME ReservedSeen(c)
      PROVE  Quiet(db, i) /\ Cold(db, journal, dirent)
  <2>1. PICK d \in reserver : d # c
    BY <1>4 DEF ReservedSeen
  <2>2. d \in Others(c) /\ lock[d] >= RESERVED_LOCK
    BY <2>1 DEF IInv, LockTypeOK, Others, PInv
  <2>3. QED
    BY <1>2, <2>2, ReservedTrusts
<1>5. DbType(db) /\ 1 \in Pages
  BY Bounds DEF TInv, Pages
<1>6. DbSize = 0 => db[1].cur = NoPage
  BY <1>5, SizeIs
<1>7. DbSize # 0 => db[1].cur # NoPage
  BY <1>5, SizeIs DEF Present
<1>8. DbSize = 0 => Quiet(db, i) /\ Cold(db, journal, dirent) /\ Len(i) = 0
  BY <1>2, <1>6, EmptySeen
<1>9. /\ pc \in {"validate", "empty", "first"}
      /\ pc = "validate" => ReservedSeen(c)
      /\ pc = "empty" => DbSize = 0
      /\ pc = "first" => DbSize # 0
  OBVIOUS
<1> HIDE DEF pc
<1>10. QED
  BY <1>1, <1>2, <1>3, <1>4, <1>7, <1>8, <1>9, OpenGoes

\* What a connection relies on where it is.
LEMMA OpenTrusts ==
  ASSUME IInv, NEW i, PInv(i), NEW c \in Conns
  PROVE  /\ pager[c].eState = "open" /\ pager[c].pc \in {"validate", "empty", "delete"} =>
              Quiet(db, i) /\ Cold(db, journal, dirent)
         /\ pager[c].pc \in {"empty", "delete"} => Len(i) = 0
         /\ pager[c].pc \in {"first", "hot", "open", "hotsync"} => db[1].cur # NoPage
<1>1. TrustK(pager[c], lock[c], i, db, journal, dirent)
  BY DEF PInv, ConnK
<1>2. QED
  BY <1>1 DEF TrustK, Trusts, Cools

\* it takes RESERVED to delete the journal of a file without pages,
LEMMA EmptyReserveKept ==
  ASSUME IInv, NEW i, PInv(i), NEW c \in Conns, EmptyReserve(c)
  PROVE  PInv(i)'
<1>1. pager[c].pc = "empty" /\ UNCHANGED <<mode, files>>
  BY DEF EmptyReserve
<1>2. pager[c].eState = "open" /\ ~pager[c].hot
  BY <1>1, OpenAt
<1>3. Quiet(db, i) /\ Cold(db, journal, dirent) /\ Len(i) = 0
  BY <1>1, <1>2, OpenTrusts
<1>4. CASE LockReserved(c) /\ Goto(c, "delete")
  <2>1. [LockNext]_lockVars /\ \A d \in Others(c) : lock'[d] = lock[d]
    BY <1>4, LockGiven DEF IInv
  <2>2. QED
    BY <1>1, <1>2, <1>3, <1>4, <2>1, OpenGoes
<1>5. CASE Goto(c, "validate") /\ UNCHANGED <<lock, reserver>>
  <2>1. [LockNext]_lockVars /\ \A d \in Others(c) : lock'[d] = lock[d]
    BY <1>5, SameLocks DEF Others, lockVars
  <2>2. QED
    BY <1>1, <1>2, <1>3, <1>5, <2>1, OpenGoes
<1>6. QED
  BY <1>4, <1>5 DEF EmptyReserve

\* or reads the first byte of the journal.
LEMMA FirstByteKept ==
  ASSUME IInv, NEW b \in Nat, TInv(b), NEW i, PInv(i), NEW c \in Conns, FirstByte(c)
  PROVE  PInv(i)'
<1> DEFINE seen == dirent.cur = 0 \/ IsMagic(JournalNow[1])
           pc == IF seen THEN "hot" ELSE "validate"
<1>1. pager[c].pc = "first" /\ Goto(c, pc) /\ UNCHANGED <<mode, files>> /\ UNCHANGED lockVars
  BY DEF FirstByte, lockVars
<1>2. pager[c].eState = "open" /\ ~pager[c].hot
  BY <1>1, OpenAt
<1>3. [LockNext]_lockVars /\ \A d \in Others(c) : lock'[d] = lock[d]
  BY <1>1, SameLocks DEF Others
<1>4. db[1].cur # NoPage
  BY <1>1, OpenTrusts
<1>5. ASSUME ~seen
      PROVE  Quiet(db, i) /\ Cold(db, journal, dirent)
  <2>1. dirent.cur # 0 /\ dirent.cur \in Inodes
    BY <1>5, Bounds DEF IInv, FilesInv, Inodes
  <2>2. journal[dirent.cur] = [s \in Slots |-> journal[dirent.cur][s]] /\ 1 \in Slots
    BY <2>1, Bounds DEF IInv, FilesInv, Slots
  <2>3. JournalNow = Cur(journal[dirent.cur])
    BY <2>1 DEF JournalNow
  <2>4. JournalNow[1] = journal[dirent.cur][1].cur
    BY <2>2, <2>3, WithIs
  <2>5. ~IsMagic(journal[dirent.cur][1].cur)
    BY <1>5, <2>4
  <2>6. QED
    BY <2>5 DEF PInv, FilesK, Cold
<1>6. pc \in {"hot", "validate"} /\ (pc = "validate" => ~seen)
  OBVIOUS
<1> HIDE DEF pc, seen
<1>7. QED
  BY <1>1, <1>2, <1>3, <1>4, <1>5, <1>6, OpenGoes

-----------------------------------------------------------------------------
\* Transactions of readers

\* A lock is given back or lost, with what the connection knew.
LEMMA UnlockKept ==
  ASSUME IInv, NEW i, PInv(i), NEW c \in Conns, NEW g, Set(c, g),
         g.eState = "open", g.pc = "idle", g.hot = FALSE, g.jfd = 0,
         UNCHANGED <<mode, files>>,
         [LockNext]_lockVars, \A d \in Others(c) : lock'[d] = lock[d],
         ~Exposed(pager[c]),
         CacheK(g, i)
  PROVE  PInv(i)'
<1>1. UNCHANGED <<mode, db, journal, dirent>>
  BY DEF files
<1>2. IdleK(g, i)
  BY DEF IdleK
<1>3. ConnK(g, lock'[c], i, db, journal, dirent, mode)
  BY <1>2, IdleIs
<1>4. ~Cutting(pager[c], lock[c]) /\ pager[c].pc # "finsync"
  BY DEF Cutting, Exposed
<1>5. QED
  BY <1>1, <1>3, <1>4, PagerPromises

\* pager_unlock(), field by field.
LEMMA UnlockedFields ==
  ASSUME NEW g, g = [f \in Fields |-> g[f]], NEW error
  PROVE  LET h == Unlocked(g, error)
         IN /\ h.eState = "open" /\ h.pc = "idle" /\ h.hot = FALSE /\ h.jfd = 0
            /\ h.vers = g.vers /\ h.cache = IF error THEN NoCache ELSE g.cache
BY DEF Unlocked, Ended, Fields

\* A cache that holds nothing is one of any image.
LEMMA NothingIsKept ==
  ASSUME NEW g, g.cache = NoCache
  PROVE  \A i : CacheK(g, i)
BY DEF CacheK, NothingCached, NoCache

\* EXCLUSIVE is taken for a hot journal, or the call gives up.
LEMMA HotLockKept ==
  ASSUME IInv, NEW i, PInv(i), NEW c \in Conns, HotLock(c)
  PROVE  PInv(i)'
<1>1. pager[c].pc = "hot" /\ UNCHANGED <<mode, files>>
  BY DEF HotLock
<1>2. pager[c].eState = "open" /\ ~pager[c].hot /\ pager[c] = [f \in Fields |-> pager[c][f]]
  BY <1>1, OpenAt DEF PagerInv
<1>3. db[1].cur # NoPage
  BY <1>1, OpenTrusts
<1>4. CASE LockExclusive(c) /\ Goto(c, "open")
  <2>1. [LockNext]_lockVars /\ \A d \in Others(c) : lock'[d] = lock[d]
    BY <1>4, LockGiven DEF IInv
  <2>2. QED
    BY <1>1, <1>2, <1>3, <1>4, <2>1, OpenGoes
<1>5. CASE Unlock(c, NO_LOCK) /\ Set(c, Unlocked(pager[c], FALSE))
  <2> DEFINE h == Unlocked(pager[c], FALSE)
  <2>1. [LockNext]_lockVars /\ \A d \in Others(c) : lock'[d] = lock[d]
    BY <1>5, LockGiven DEF IInv
  <2>2. /\ h.eState = "open" /\ h.pc = "idle" /\ h.hot = FALSE /\ h.jfd = 0
        /\ h.vers = pager[c].vers /\ h.cache = pager[c].cache
    BY <1>2 DEF Unlocked, Ended, Fields
  <2> HIDE DEF h
  <2>3. CacheK(pager[c], i)
    BY DEF PInv, ConnK
  <2>4. CacheK(h, i)
    BY <1>2, <2>2, <2>3 DEF CacheK, NothingCached, Coherent
  <2>5. ~Exposed(pager[c])
    BY <1>1 DEF Exposed
  <2>6. Set(c, h)
    BY <1>5 DEF h
  <2>7. QED
    BY <1>1, <2>1, <2>2, <2>4, <2>5, <2>6, UnlockKept
<1>6. QED
  BY <1>4, <1>5 DEF HotLock

\* The hot journal is opened, or is there no more.
LEMMA HotOpenKept ==
  ASSUME IInv, NEW i, PInv(i), NEW c \in Conns, HotOpen(c)
  PROVE  PInv(i)'
<1>1. pager[c].pc = "open" /\ UNCHANGED <<mode, files>>
  BY DEF HotOpen
<1>2. pager[c].eState = "open" /\ ~pager[c].hot /\ pager[c] = [f \in Fields |-> pager[c][f]]
  BY <1>1, OpenAt DEF PagerInv
<1>3. db[1].cur # NoPage
  BY <1>1, OpenTrusts
<1>4. CASE dirent.cur = 0
  <2>1. Unlock(c, SHARED_LOCK) /\ Goto(c, "validate")
    BY <1>4 DEF HotOpen
  <2>2. [LockNext]_lockVars /\ \A d \in Others(c) : lock'[d] = lock[d]
    BY <2>1, LockGiven DEF IInv
  <2>3. Quiet(db, i) /\ Cold(db, journal, dirent)
    BY <1>4 DEF PInv, FilesK, Cold
  <2>4. QED
    BY <1>1, <1>2, <2>1, <2>2, <2>3, OpenGoes
<1>5. CASE dirent.cur # 0
  <2> DEFINE h == [pager[c] EXCEPT !.jfd = dirent.cur, !.pc = "hotsync"]
  <2>1. Set(c, h) /\ UNCHANGED lockVars
    BY <1>5 DEF HotOpen, lockVars
  <2>2. /\ h.eState = "open" /\ h.hot = pager[c].hot /\ h.pc = "hotsync" /\ h.jfd = dirent.cur
        /\ h.vers = pager[c].vers /\ h.cache = pager[c].cache
    BY <1>2 DEF Fields
  <2> HIDE DEF h
  <2>3. TrustK(h, lock'[c], i, db, journal, dirent)
    BY <1>3, <2>2 DEF TrustK, Trusts, Cools
  <2>4. CacheK(pager[c], i)
    BY DEF PInv, ConnK
  <2>5. CacheK(h, i)
    BY <1>2, <2>2, <2>4 DEF CacheK, NothingCached, Coherent
  <2>6. JfdK(h, i, dirent, mode)
    BY <1>2, <2>2 DEF JfdK
  <2>7. ConnK(h, lock'[c], i, db, journal, dirent, mode)
    BY <1>2, <2>2, <2>3, <2>5, <2>6, OpenIs
  <2>8. [LockNext]_lockVars /\ \A d \in Others(c) : lock'[d] = lock[d]
    BY <2>1, SameLocks DEF Others
  <2>9. ~Cutting(pager[c], lock[c]) /\ pager[c].pc # "finsync"
    BY <1>1 DEF Cutting
  <2>10. UNCHANGED <<mode, db, journal, dirent>>
    BY <1>1 DEF files
  <2>11. QED
    BY <2>1, <2>7, <2>8, <2>9, <2>10, PagerPromises
<1>6. QED
  BY <1>4, <1>5

\* A reader with a cache of the image.
LEMMA ReaderIs ==
  ASSUME NEW g, g.eState = "reader" \/ (g.eState = "locked" /\ g.pc \in {"idle", "excl", "phase1"}),
         g.hot = FALSE,
         NEW l, NEW i, NEW d, NEW j, NEW name, NEW m
  PROVE  ConnK(g, l, i, d, j, name, m) <=>
           /\ TrustK(g, l, i, d, j, name) /\ JfdK(g, i, name, m)
           /\ Reads(g, i) /\ g.nPage = Len(i)
           /\ g.eState = "locked" => ~g.commit
BY DEF ConnK, CacheK, ReadK, OwnK, Active, Playing, Undoes, HotK

\* A read-transaction ends.
LEMMA EndReadKept ==
  ASSUME IInv, NEW i, PInv(i), NEW c \in Conns, EndRead(c)
  PROVE  PInv(i)'
<1> DEFINE h == Unlocked(pager[c], FALSE)
<1>1. /\ pager[c].eState = "reader" /\ pager[c].pc = "idle" /\ Unlock(c, NO_LOCK)
      /\ Set(c, h) /\ UNCHANGED <<mode, files>>
  BY DEF EndRead
<1>2. pager[c] = [f \in Fields |-> pager[c][f]] /\ ~Exposed(pager[c])
  BY <1>1 DEF IInv, PagerInv, Exposed
<1>3. [LockNext]_lockVars /\ \A d \in Others(c) : lock'[d] = lock[d]
  BY <1>1, LockGiven DEF IInv
<1>4. /\ h.eState = "open" /\ h.pc = "idle" /\ h.hot = FALSE /\ h.jfd = 0
      /\ h.vers = pager[c].vers /\ h.cache = pager[c].cache
  BY <1>2 DEF Unlocked, Ended, Fields
<1>5. Reads(pager[c], i)
  BY <1>1 DEF PInv, ConnK, ReadK
<1>6. IsImage(i) /\ (Len(i) # 0 => i[1].ver \in Nat)
  BY ImageIs DEF PInv, HeaderPages
<1> HIDE DEF h
<1>7. CacheK(h, i)
  BY <1>4, <1>5, <1>6 DEF CacheK, Reads, Agrees, NothingCached, Coherent
<1>8. QED
  BY <1>1, <1>2, <1>3, <1>4, <1>7, UnlockKept

\* A write-transaction begins.
LEMMA BeginWriteKept ==
  ASSUME IInv, NEW i, PInv(i), NEW c \in Conns, BeginWrite(c)
  PROVE  PInv(i)'
<1> DEFINE g == pager[c]
           h == [g EXCEPT !.eState = "locked", !.orig = g.dbSize]
<1>1. /\ g.eState = "reader" /\ g.pc = "idle" /\ (g.jfd = 0 \/ g.dbSize > 0)
      /\ LockReserved(c) /\ Set(c, h) /\ UNCHANGED <<mode, files>>
  BY DEF BeginWrite
<1>2. g = [f \in Fields |-> g[f]] /\ g.hot = FALSE
  BY <1>1 DEF IInv, PagerInv, HotInv
<1>3. [LockNext]_lockVars /\ \A d \in Others(c) : lock'[d] = lock[d]
  BY <1>1, LockGiven DEF IInv
<1>4. /\ h.eState = "locked" /\ h.pc = "idle" /\ h.hot = FALSE /\ h.cache = g.cache /\ h.vers = g.vers
      /\ h.dbSize = g.dbSize /\ h.nPage = g.nPage /\ h.jfd = g.jfd
  BY <1>1, <1>2 DEF Fields
<1>15. ~h.commit
  <2>1. g.commit = FALSE
    BY <1>1 DEF IInv, PagerInv, CommitInv
  <2>2. QED
    BY <1>2, <2>1 DEF Fields
<1>5. ConnK(g, lock[c], i, db, journal, dirent, mode)
  BY DEF PInv
<1> HIDE DEF g, h
<1>6. /\ TrustK(g, lock[c], i, db, journal, dirent) /\ JfdK(g, i, dirent, mode)
      /\ Reads(g, i) /\ g.nPage = Len(i)
  BY <1>1, <1>2, <1>5, ReaderIs
<1>7. Quiet(db, i) /\ Cold(db, journal, dirent)
  BY <1>1, <1>6 DEF TrustK, Trusts, Cools
<1>8. TrustK(h, lock'[c], i, db, journal, dirent)
  BY <1>4, <1>7 DEF TrustK
<1>9. JfdK(h, i, dirent, mode)
  BY <1>1, <1>4, <1>6 DEF JfdK
<1>10. Reads(h, i) /\ h.nPage = Len(i)
  BY <1>4, <1>6 DEF Reads, Agrees, NothingCached, Coherent
<1>11. ConnK(h, lock'[c], i, db, journal, dirent, mode)
  BY <1>4, <1>8, <1>9, <1>10, <1>15, ReaderIs
<1>12. ~Cutting(g, lock[c]) /\ g.pc # "finsync"
  BY <1>1 DEF Cutting
<1>13. UNCHANGED <<mode, db, journal, dirent>>
  BY <1>1 DEF files
<1>14. QED
  BY <1>1, <1>3, <1>11, <1>12, <1>13, PagerPromises DEF g

\* A page that a pager has in its cache, or reads.
IsPager(g) == g = [f \in Fields |-> g[f]]

\* A page that is read into the cache is one of the image.
LEMMA PageLoaded ==
  ASSUME NEW g, IsPager(g), NEW p, NEW h, h = Loaded(g, p)
  PROVE  /\ IsPager(h) /\ h.eState = g.eState /\ h.pc = g.pc /\ h.hot = g.hot /\ h.jfd = g.jfd
         /\ h.dbSize = g.dbSize /\ h.nPage = g.nPage /\ h.orig = g.orig /\ h.off = g.off
         /\ h.hdr = g.hdr /\ h.header = g.header /\ h.nRec = g.nRec /\ h.nonce = g.nonce
         /\ h.dirty = g.dirty /\ h.needSync = g.needSync /\ h.inJournal = g.inJournal
         /\ h.left = g.left /\ h.commit = g.commit /\ h.spill = g.spill
         /\ h.cache = [g.cache EXCEPT ![p] = Content(g, p)]
         /\ h.vers = IF p = 1 /\ g.cache[1] = NoPage /\ g.dbSize > 0
                     THEN Version(db[1].cur) ELSE g.vers
<1>1. g = [f \in Fields |-> g[f]]
  BY DEF IsPager
<1>2. h = [f \in Fields |-> h[f]] /\ \A f \in Fields \ {"cache", "vers"} : h[f] = g[f]
  <2>1. /\ Loaded(g, p) = [f \in Fields |-> Loaded(g, p)[f]]
        /\ \A f \in Fields \ {"cache", "vers"} : Loaded(g, p)[f] = g[f]
    BY <1>1, LoadedIs, Zenon
  <2>2. QED
    BY <2>1
<1>3. h.cache = [g.cache EXCEPT ![p] = Content(g, p)]
  BY <1>1, LoadedFields
<1>4. h.vers = IF p = 1 /\ g.cache[1] = NoPage /\ g.dbSize > 0
               THEN Version(db[1].cur) ELSE g.vers
  BY <1>1, LoadedFields
<1>5. QED
  BY <1>2, <1>3, <1>4 DEF Fields, IsPager

\* The header page of an image is a version.
LEMMA FirstIs ==
  ASSUME NEW i, IsImage(i), Len(i) # 0
  PROVE  /\ i[1] \notin {NoPage, Zero, Torn} /\ Version(i[1]) = i[1] /\ i[1].nPage = Len(i)
         /\ i[1].ver \in Nat /\ i[1] \in HeaderPages /\ 1 \in 1..Len(i) /\ 1 \in Pages
<1>1. i[1] \in HeaderPages /\ i[1].nPage = Len(i) /\ 1 \in 1..Len(i) /\ 1 \in Pages
  BY ImageIs
<1>2. HeaderPages \subseteq [ver : Nat, nPage : Nat]
  BY Bounds DEF HeaderPages, Pages
<1>3. i[1] \notin {NoPage, Zero, Torn}
  BY <1>1, <1>2, PagerAssumption DEF PagerAssumption
<1>4. QED
  BY <1>1, <1>2, <1>3 DEF Version

\* A file that holds the image has its pages.
LEMMA QuietSize ==
  ASSUME DbType(db), NEW i, IsImage(i), Quiet(db, i)
  PROVE  /\ Len(i) = 0 => DbSize = 0 /\ db[1].cur = NoPage
         /\ Len(i) # 0 => DbSize # 0 /\ Len(i) <= DbSize
         /\ \A p \in 1..Len(i) : db[p].cur = i[p]
         /\ DbSize \in 0..MaxPage /\ Len(i) \in Nat
<1>1. 1 \in Pages /\ Len(i) \in Nat /\ MaxPage \in Nat
  BY Bounds, ImageIs DEF Pages
<1>2. /\ DbSize \in 0..MaxPage
      /\ \A p \in Pages : p <= DbSize => db[p].cur # NoPage
      /\ \A p \in Pages : p > DbSize => db[p].cur = NoPage
  BY SizeIs DEF Present
<1>3. CASE Len(i) = 0
  <2>1. db[1].cur = NoPage
    BY <1>1, <1>3 DEF Quiet, EmptyDb, Stable
  <2>2. ~(1 <= DbSize)
    BY <1>1, <1>2, <2>1
  <2>3. QED
    BY <1>1, <1>2, <1>3, <2>1, <2>2
<1>4. CASE Len(i) # 0
  <2>1. \A p \in 1..Len(i) : db[p].cur = i[p] /\ i[p] # NoPage /\ p \in Pages
    <3> TAKE p \in 1..Len(i)
    <3>1. p \in Pages /\ i[p] # NoPage
      BY ImageIs, Contents
    <3>2. db[p] = Stable(i[p])
      BY <1>4 DEF Quiet
    <3>3. QED
      BY <3>1, <3>2 DEF Stable
  <2>2. Len(i) \in 1..Len(i)
    BY <1>1, <1>4
  <2>3. ~(Len(i) > DbSize)
    BY <1>2, <2>1, <2>2
  <2>4. QED
    BY <1>1, <1>2, <1>4, <2>1, <2>3
<1>5. QED
  BY <1>3, <1>4

\* The cache of an earlier transaction is kept, or thrown away.
LEMMA ValidateKept ==
  ASSUME IInv, NEW b \in Nat, TInv(b), NEW i, PInv(i), NEW c \in Conns, Validate(c)
  PROVE  PInv(i)'
<1> DEFINE g == pager[c]
           stale == g.vers # (IF DbSize = 0 THEN NoVersion ELSE Version(db[1].cur))
           h == [g EXCEPT !.cache = IF stale THEN NoCache ELSE @,
                          !.dbSize = DbSize, !.eState = "reader", !.pc = "idle"]
           k == IF DbSize = 0 THEN h ELSE Loaded(h, 1)
           r == [k EXCEPT !.nPage = Version(k.cache[1]).nPage]
<1>1. g.pc = "validate" /\ Set(c, r) /\ UNCHANGED lockVars /\ UNCHANGED <<mode, db, journal, dirent>>
  BY DEF Validate, lockVars, files
<1>2. g = [f \in Fields |-> g[f]] /\ g.hot = FALSE /\ g.eState = "open" /\ DbType(db)
      /\ g.cache \in [Pages -> OnDisk]
  BY <1>1, OpenAt DEF PagerInv, TInv, DataType
<1>3. /\ h = [f \in Fields |-> h[f]] /\ h.eState = "reader" /\ h.pc = "idle" /\ h.hot = FALSE
      /\ h.jfd = g.jfd /\ h.dbSize = DbSize /\ h.vers = g.vers
      /\ h.cache = IF stale THEN NoCache ELSE g.cache
  BY <1>2 DEF Fields
<1>4. IsImage(i) /\ Quiet(db, i) /\ Cold(db, journal, dirent) /\ CacheK(g, i) /\ JfdK(g, i, dirent, mode)
  BY <1>1, <1>2, OpenTrusts DEF PInv, ConnK
<1> HIDE DEF h, stale
<1>5. /\ k = [f \in Fields |-> k[f]] /\ k.eState = "reader" /\ k.pc = "idle" /\ k.hot = FALSE
      /\ k.jfd = g.jfd /\ k.dbSize = DbSize
      /\ k.cache = IF DbSize = 0 THEN h.cache ELSE [h.cache EXCEPT ![1] = Content(h, 1)]
      /\ k.vers = IF DbSize # 0 /\ h.cache[1] = NoPage /\ h.dbSize > 0 THEN Version(db[1].cur) ELSE g.vers
  <2>1. CASE DbSize = 0
    BY <1>3, <2>1
  <2>2. CASE DbSize # 0
    <3>1. IsPager(h) /\ k = Loaded(h, 1)
      BY <1>3, <2>2 DEF IsPager
    <3> HIDE DEF k
    <3>2. IsPager(k) /\ k.eState = h.eState /\ k.pc = h.pc /\ k.hot = h.hot
          /\ k.jfd = h.jfd /\ k.dbSize = h.dbSize
          /\ k.cache = [h.cache EXCEPT ![1] = Content(h, 1)]
          /\ k.vers = IF 1 = 1 /\ h.cache[1] = NoPage /\ h.dbSize > 0 THEN Version(db[1].cur) ELSE h.vers
      BY <3>1, PageLoaded
    <3>3. QED
      BY <1>3, <2>2, <3>2 DEF IsPager
  <2>3. QED
    BY <2>1, <2>2
<1> HIDE DEF k
<1>6. /\ r.eState = "reader" /\ r.pc = "idle" /\ r.hot = FALSE
      /\ r.jfd = g.jfd /\ r.dbSize = DbSize /\ r.cache = k.cache /\ r.vers = k.vers
      /\ r.nPage = Version(k.cache[1]).nPage
  BY <1>5 DEF Fields
<1> HIDE DEF r
<1>7. /\ Len(i) = 0 => DbSize = 0 /\ db[1].cur = NoPage
      /\ Len(i) # 0 => DbSize # 0 /\ Len(i) <= DbSize
      /\ \A p \in 1..Len(i) : db[p].cur = i[p]
      /\ DbSize \in 0..MaxPage /\ Len(i) \in Nat
  BY <1>2, <1>4, QuietSize
<1>8. Reads(r, i) /\ r.nPage = Len(i)
  <2>1. CASE Len(i) = 0
    <3>1. NothingCached(h) /\ 1 \in Pages
      <4>1. ~stale => NothingCached(g)
        BY <1>2, <1>4, <2>1 DEF CacheK
      <4>2. QED
        BY <1>3, <4>1, Bounds DEF NothingCached, NoCache, Pages
    <3>2. r.cache = h.cache /\ r.cache[1] = NoPage
      BY <1>5, <1>6, <1>7, <2>1, <3>1 DEF NothingCached
    <3>3. r.nPage = 0
      BY <1>6, <3>2 DEF Version, NoVersion
    <3>4. NothingCached(r)
      BY <3>1, <3>2 DEF NothingCached
    <3>5. Agrees(r, i)
      BY <1>6, <1>7, <2>1 DEF Agrees, Coherent
    <3>6. QED
      BY <2>1, <3>3, <3>4, <3>5 DEF Reads
  <2>2. CASE Len(i) # 0
    <3>1. /\ i[1] \notin {NoPage, Zero, Torn} /\ Version(i[1]) = i[1] /\ i[1].nPage = Len(i)
          /\ i[1].ver \in Nat /\ 1 \in 1..Len(i) /\ 1 \in Pages
      BY <1>4, <2>2, FirstIs
    <3>2. db[1].cur = i[1] /\ DbSize # 0 /\ DbSize > 0
      BY <1>7, <2>2, <3>1
    <3>3. h.cache \in [Pages -> OnDisk]
      BY <1>2, <1>3, NoCacheTyped
    <3>4. Coherent(h, i) /\ (h.cache[1] # NoPage => h.vers = i[1])
      <4>1. CASE stale
        <5>1. \A p \in Pages : h.cache[p] = NoPage
          BY <1>3, <4>1 DEF NoCache
        <5>2. QED
          BY <3>1, <5>1, <1>4, ImageIs DEF Coherent
      <4>2. CASE ~stale
        <5>1. g.vers = i[1]
          BY <3>1, <3>2, <4>2 DEF stale
        <5>2. Coherent(g, i)
          <6>1. CASE NothingCached(g)
            BY <6>1, <1>4, ImageIs DEF NothingCached, Coherent
          <6>2. CASE ~NothingCached(g)
            BY <6>2, <5>1, <1>2, <1>4 DEF CacheK
          <6>3. QED
            BY <6>1, <6>2
        <5>3. QED
          BY <1>3, <4>2, <5>1, <5>2 DEF Coherent
      <4>3. QED
        BY <4>1, <4>2
    <3>5. Content(h, 1) = i[1]
      <4>1. h.dbSize = DbSize /\ ~(1 > h.dbSize)
        BY <1>3, <1>7, <3>2
      <4>2. h.cache[1] # NoPage => h.cache[1] = i[1]
        BY <3>1, <3>4 DEF Coherent
      <4>3. QED
        BY <3>2, <4>1, <4>2 DEF Content
    <3>6. r.cache = [h.cache EXCEPT ![1] = i[1]]
      BY <1>5, <1>6, <3>2, <3>5
    <3>7. r.cache[1] = i[1] /\ \A p \in Pages : p # 1 => r.cache[p] = h.cache[p]
      BY <3>1, <3>3, <3>6
    <3>8. r.vers = i[1]
      BY <1>3, <1>5, <1>6, <3>1, <3>2, <3>4
    <3>9. Coherent(r, i)
      BY <3>4, <3>7, <1>4, ImageIs DEF Coherent
    <3>10. r.nPage = Len(i)
      BY <1>5, <1>6, <3>1, <3>7
    <3>11. Agrees(r, i)
      BY <1>6, <1>7, <2>2, <3>7, <3>8, <3>9 DEF Agrees
    <3>12. QED
      BY <2>2, <3>10, <3>11 DEF Reads
  <2>3. QED
    BY <2>1, <2>2
<1>9. TrustK(r, lock'[c], i, db, journal, dirent)
  BY <1>4, <1>6 DEF TrustK
<1>10. JfdK(r, i, dirent, mode)
  BY <1>1, <1>2, <1>4, <1>6 DEF JfdK
<1>11. ConnK(r, lock'[c], i, db, journal, dirent, mode)
  BY <1>6, <1>8, <1>9, <1>10, ReaderIs
<1>12. ~Cutting(g, lock[c]) /\ g.pc # "finsync"
  BY <1>1 DEF Cutting
<1>13. [LockNext]_lockVars /\ \A d \in Others(c) : lock'[d] = lock[d]
  BY <1>1, SameLocks DEF Others
<1>14. QED
  BY <1>1, <1>11, <1>12, <1>13, PagerPromises DEF g

\* A page is read.
LEMMA ReadKept ==
  ASSUME IInv, NEW b \in Nat, TInv(b), NEW i, PInv(i), NEW c \in Conns, NEW p, Read(c, p)
  PROVE  PInv(i)'
<1> DEFINE g == pager[c]
           r == Loaded(g, p)
<1>1. /\ g.eState = "reader" /\ g.pc = "idle" /\ p \in 1..g.nPage /\ Set(c, r)
      /\ UNCHANGED lockVars /\ UNCHANGED <<mode, db, journal, dirent>>
  BY DEF Read, lockVars, files
<1>2. g = [f \in Fields |-> g[f]] /\ g.hot = FALSE /\ DbType(db) /\ g.cache \in [Pages -> OnDisk]
  BY <1>1 DEF IInv, PagerInv, HotInv, TInv, DataType
<1>3. ConnK(g, lock[c], i, db, journal, dirent, mode) /\ IsImage(i)
  BY DEF PInv
<1>4. /\ r.eState = "reader" /\ r.pc = "idle" /\ r.hot = FALSE /\ r.jfd = g.jfd
      /\ r.dbSize = g.dbSize /\ r.nPage = g.nPage
      /\ r.cache = [g.cache EXCEPT ![p] = Content(g, p)]
      /\ r.vers = IF p = 1 /\ g.cache[1] = NoPage /\ g.dbSize > 0 THEN Version(db[1].cur) ELSE g.vers
  <2>1. IsPager(g) /\ r = Loaded(g, p)
    BY <1>2 DEF IsPager
  <2> HIDE DEF r, g
  <2>2. /\ r.eState = g.eState /\ r.pc = g.pc /\ r.hot = g.hot /\ r.jfd = g.jfd
        /\ r.dbSize = g.dbSize /\ r.nPage = g.nPage
        /\ r.cache = [g.cache EXCEPT ![p] = Content(g, p)]
        /\ r.vers = IF p = 1 /\ g.cache[1] = NoPage /\ g.dbSize > 0 THEN Version(db[1].cur) ELSE g.vers
    BY <2>1, PageLoaded
  <2>3. QED
    BY <1>1, <1>2, <2>2
<1> HIDE DEF r, g
<1>5. /\ TrustK(g, lock[c], i, db, journal, dirent) /\ JfdK(g, i, dirent, mode)
      /\ Reads(g, i) /\ g.nPage = Len(i)
  BY <1>1, <1>2, <1>3, ReaderIs
<1>6. Quiet(db, i) /\ Cold(db, journal, dirent)
  BY <1>1, <1>5 DEF TrustK, Trusts, Cools
<1>7. /\ Len(i) # 0 /\ p \in 1..Len(i) /\ p \in Pages /\ Len(i) <= g.dbSize
      /\ g.cache[1] = i[1] /\ g.vers = i[1] /\ Coherent(g, i)
      /\ Len(i) \in Nat /\ i[1] # NoPage
  BY <1>1, <1>3, <1>5, ImageIs, FirstIs DEF Reads, Agrees
<1>8. g.dbSize \in Nat
  BY <1>2, Bounds DEF TInv, DataType, g
<1>9. Content(g, p) = i[p]
  <2>1. db[p].cur = i[p]
    BY <1>2, <1>3, <1>6, <1>7, QuietSize
  <2>2. ~(p > g.dbSize)
    BY <1>7, <1>8
  <2>3. QED
    BY <1>7, <2>1, <2>2 DEF Content, Coherent
<1>10. r.vers = i[1]
  BY <1>4, <1>7
<1>11. \A q \in Pages : r.cache[q] = IF q = p THEN i[p] ELSE g.cache[q]
  BY <1>2, <1>4, <1>7, <1>9
<1>12. Coherent(r, i) /\ r.cache[1] = i[1]
  <2>1. \A q \in 1..Len(i) : q \in Pages
    BY <1>3, ImageIs
  <2>2. 1 \in Pages /\ 1 \in 1..Len(i)
    BY <1>3, <1>7, FirstIs
  <2>3. QED
    BY <1>7, <1>11, <2>1, <2>2 DEF Coherent
<1>13. Reads(r, i) /\ r.nPage = Len(i)
  BY <1>4, <1>5, <1>7, <1>10, <1>12 DEF Reads, Agrees
<1>14. TrustK(r, lock'[c], i, db, journal, dirent)
  BY <1>4, <1>6 DEF TrustK
<1>15. JfdK(r, i, dirent, mode)
  BY <1>1, <1>4, <1>5 DEF JfdK
<1>16. ConnK(r, lock'[c], i, db, journal, dirent, mode)
  BY <1>4, <1>13, <1>14, <1>15, ReaderIs
<1>17. ~Cutting(g, lock[c]) /\ g.pc # "finsync"
  BY <1>1 DEF Cutting
<1>18. [LockNext]_lockVars /\ \A d \in Others(c) : lock'[d] = lock[d]
  BY <1>1, SameLocks DEF Others
<1>19. QED
  BY <1>1, <1>16, <1>17, <1>18, PagerPromises DEF g

-----------------------------------------------------------------------------
\* A transaction goes on

\* What does not depend on where a call is.
SameJournal(g, h) ==
  /\ h.eState = g.eState /\ h.orig = g.orig /\ h.hdr = g.hdr /\ h.header = g.header
  /\ h.nRec = g.nRec

\* The journal of a transaction, after a step that leaves it alone.
LEMMA LogSame ==
  ASSUME NEW g, NEW h, SameJournal(g, h), NEW i, NEW d, NEW cells
  PROVE  /\ End(h) = End(g)
         /\ LogK(g, i, d, cells) => LogK(h, i, d, cells)
<1>1. h.eState = g.eState /\ h.orig = g.orig /\ h.hdr = g.hdr /\ h.header = g.header /\ h.nRec = g.nRec
  BY DEF SameJournal
<1>2. End(h) = End(g)
  BY <1>1 DEF End
<1>3. OpenSegment(g, i, cells) => OpenSegment(h, i, cells)
  BY <1>1, <1>2 DEF OpenSegment
<1>4. QED
  BY <1>1, <1>2, <1>3 DEF LogK

SameWrites(g, h) ==
  /\ SameJournal(g, h) /\ h.off = g.off /\ h.nonce = g.nonce /\ h.nPage = g.nPage /\ h.dbSize = g.dbSize
  /\ h.cache = g.cache /\ h.vers = g.vers /\ h.dirty = g.dirty /\ h.inJournal = g.inJournal
  /\ h.commit = g.commit

\* The same of what is in the cache, in the file, and on record.
LEMMA WriteSame ==
  ASSUME NEW g, NEW h, SameWrites(g, h), NEW i, NEW d, NEW cells, NEW m, g.pc = "failed" => h.pc = "failed"
  PROVE  WriteK(g, i, d, cells, m) => WriteK(h, i, d, cells, m)
<1>1. End(h) = End(g)
  BY LogSame DEF SameWrites
<1>2. /\ h.header = g.header /\ h.hdr = g.hdr /\ h.eState = g.eState
      /\ h.off = g.off /\ h.nonce = g.nonce /\ h.nPage = g.nPage /\ h.dbSize = g.dbSize
      /\ h.cache = g.cache /\ h.vers = g.vers /\ h.dirty = g.dirty /\ h.inJournal = g.inJournal
      /\ h.commit = g.commit
  BY DEF SameWrites, SameJournal
<1>3. QED
  BY <1>1, <1>2 DEF WriteK

\* A connection that is in a transaction: what it relies on, by its state.
WriterK(g, l, i, d, j, name, m) ==
  /\ TrustK(g, l, i, d, j, name)
  /\ IF g.pc = "end"
     THEN (m = "delete" => g.jfd = 0) /\ (g.jfd # 0 /\ Len(i) # 0 => name.cur = g.jfd)
     ELSE name.cur = g.jfd
  /\ g.pc = "finsync" => m # "delete"
  /\ OwnK(g, i, d, j[g.jfd], name, m)

\* What a connection relies on whose transaction has changed pages.
LEMMA WriterIs ==
  ASSUME NEW g, g.eState = "cachemod" \/ g.eState = "dbmod", g.hot = FALSE, g.pc # "hotsync",
         NEW l, NEW i, NEW d, NEW j, NEW name, NEW m
  PROVE  ConnK(g, l, i, d, j, name, m) <=> WriterK(g, l, i, d, j, name, m)
BY DEF ConnK, CacheK, ReadK, JfdK, HotK, WriterK

\* The call of such a connection goes on.
LEMMA LoggingGoes ==
  ASSUME IInv, NEW i, PInv(i), NEW c \in Conns, NEW h, Set(c, h),
         UNCHANGED <<mode, files>>,
         [LockNext]_lockVars, \A d \in Others(c) : lock'[d] = lock[d],
         pager[c].eState \in {"locked", "cachemod", "dbmod"},
         pager[c].pc \in {"idle", "excl", "phase1"},
         h.pc \in {"idle", "excl", "phase1", "jsync", "wdb"},
         pager[c].eState = "locked" => h.pc \in {"idle", "excl", "phase1"},
         \A f \in Fields \ {"pc", "spill"} : h[f] = pager[c][f],
         h.pc = "wdb" \/ h.pc = "jsync" => h.spill # 0,
         h.spill = 1 => pager[c].spill = 1,
         Cools(h, lock'[c]) => Cools(pager[c], lock[c])
  PROVE  PInv(i)'
<1> DEFINE g == pager[c]
<1>1. UNCHANGED <<mode, db, journal, dirent>>
  BY DEF files
<1>2. g.hot = FALSE /\ ConnK(g, lock[c], i, db, journal, dirent, mode)
  <2>1. PagerInv(g, lock[c])
    BY DEF IInv
  <2>2. QED
    BY <2>1 DEF PagerInv, HotInv, PInv
<1>3. /\ h.eState = g.eState /\ h.hot = g.hot /\ h.jfd = g.jfd
      /\ h.cache = g.cache /\ h.vers = g.vers /\ h.dbSize = g.dbSize /\ h.nPage = g.nPage
      /\ SameWrites(g, h) /\ h.commit = g.commit
  BY DEF Fields, SameWrites, SameJournal
<1>4. ~Cutting(g, lock[c]) /\ g.pc # "finsync"
  BY DEF Cutting
<1>5. /\ g.eState \in {"locked", "cachemod", "dbmod"} /\ g.pc \in {"idle", "excl", "phase1"}
      /\ Cools(h, lock'[c]) => Cools(g, lock[c])
      /\ g.eState = "locked" => h.pc \in {"idle", "excl", "phase1"}
      /\ h.pc \in {"idle", "excl", "phase1", "jsync", "wdb"}
      /\ h.pc = "wdb" \/ h.pc = "jsync" => h.spill # 0
      /\ h.spill = 1 => g.spill = 1
  OBVIOUS
<1>6. TrustK(h, lock'[c], i, db, journal, dirent)
  <2> HIDE DEF g
  <2>1. TrustK(g, lock[c], i, db, journal, dirent)
    BY <1>2 DEF ConnK
  <2>2. Trusts(h, lock'[c]) => Trusts(g, lock[c])
    BY <1>2, <1>3, <1>5 DEF Trusts
  <2>3. QED
    BY <1>5, <2>1, <2>2 DEF TrustK
<1> HIDE DEF g
<1>7. CASE g.eState = "locked"
  <2>1. JfdK(g, i, dirent, mode) /\ Reads(g, i) /\ g.nPage = Len(i) /\ ~g.commit
    <3>1. /\ g.eState = "reader" \/ (g.eState = "locked" /\ g.pc \in {"idle", "excl", "phase1"})
          /\ g.hot = FALSE /\ g.eState = "locked"
      BY <1>2, <1>5, <1>7
    <3>2. ConnK(g, lock[c], i, db, journal, dirent, mode) <=>
            /\ TrustK(g, lock[c], i, db, journal, dirent) /\ JfdK(g, i, dirent, mode)
            /\ Reads(g, i) /\ g.nPage = Len(i)
            /\ g.eState = "locked" => ~g.commit
      BY ONLY <3>1, ReaderIs
    <3>3. QED
      BY <1>2, <3>1, <3>2
  <2>2. Reads(h, i) /\ h.nPage = Len(i)
    BY <1>3, <2>1 DEF Reads, Agrees, NothingCached, Coherent
  <2>3. JfdK(h, i, dirent, mode)
    BY <1>2, <1>3, <1>7, <2>1 DEF JfdK
  <2>4. ConnK(h, lock'[c], i, db, journal, dirent, mode)
    BY <1>2, <1>3, <1>5, <1>6, <1>7, <2>1, <2>2, <2>3, ReaderIs
  <2>5. QED
    BY <1>1, <1>4, <2>4, PagerPromises DEF g
<1>8. CASE g.eState \in {"cachemod", "dbmod"}
  <2> DEFINE cells == journal[g.jfd]
  <2>1. dirent.cur = g.jfd /\ OwnK(g, i, db, cells, dirent, mode)
    <3>1. WriterK(g, lock[c], i, db, journal, dirent, mode)
      BY <1>2, <1>5, <1>8, WriterIs
    <3>2. QED
      BY <1>5, <3>1 DEF WriterK
  <2> HIDE DEF cells
  <2>2. LogK(g, i, db, cells) /\ WriteK(g, i, db, cells, mode) /\ SyncK(g, i, db, cells, dirent)
    BY <1>5, <1>8, <2>1 DEF OwnK, Active, LoggingPcs
  <2>3. LogK(h, i, db, cells) /\ WriteK(h, i, db, cells, mode)
    BY <1>3, <1>5, <2>2, LogSame, WriteSame DEF SameWrites
  <2>4. SyncK(h, i, db, cells, dirent)
    BY <1>3, <1>5, <2>2 DEF SyncK, SameWrites, SameJournal
  <2>5. OwnK(h, i, db, cells, dirent, mode)
    BY <2>3, <2>4 DEF OwnK, Playing, Undoes
  <2>6. ConnK(h, lock'[c], i, db, journal, dirent, mode)
    <3>1. WriterK(h, lock'[c], i, db, journal, dirent, mode)
      BY <1>3, <1>6, <2>1, <2>5 DEF WriterK, cells
    <3>2. h.pc # "hotsync" /\ h.hot = FALSE /\ h.eState \in {"cachemod", "dbmod"}
      BY <1>2, <1>3, <1>8
    <3>3. QED
      BY <3>1, <3>2, WriterIs
  <2>7. QED
    BY <1>1, <1>4, <2>6, PagerPromises DEF g
<1>9. QED
  BY <1>5, <1>7, <1>8

\* A commit begins,
LEMMA BeginCommitKept ==
  ASSUME IInv, NEW i, PInv(i), NEW c \in Conns, BeginCommit(c)
  PROVE  PInv(i)'
<1> DEFINE h == [pager[c] EXCEPT !.pc = "excl"]
<1>1. /\ pager[c].eState \in {"locked", "cachemod", "dbmod"} /\ pager[c].pc = "idle"
      /\ Set(c, h) /\ UNCHANGED <<mode, files>> /\ UNCHANGED lockVars
  BY DEF BeginCommit, InWrite, Goto, lockVars
<1>2. [LockNext]_lockVars /\ (\A d \in Others(c) : lock'[d] = lock[d]) /\ lock'[c] = lock[c]
  BY <1>1, SameLocks DEF Others
<1>3. h.pc = "excl" /\ h.spill = pager[c].spill /\ \A f \in Fields \ {"pc", "spill"} : h[f] = pager[c][f]
  BY DEF IInv, PagerInv, Fields
<1>4. h.eState = pager[c].eState
  BY DEF IInv, PagerInv, Fields
<1> HIDE DEF h
<1>5. Cools(h, lock'[c]) => Cools(pager[c], lock[c])
  BY <1>1, <1>2, <1>3, <1>4 DEF Cools
<1>6. QED
  BY <1>1, <1>2, <1>3, <1>5, LoggingGoes

\* or the write of a page for which there is no room in the cache.
LEMMA SpillKept ==
  ASSUME IInv, NEW i, PInv(i), NEW c \in Conns, NEW p \in Pages, Spill(c, p)
  PROVE  PInv(i)'
<1> DEFINE h == [pager[c] EXCEPT !.spill = p,
                         !.pc = IF p \in pager[c].needSync \/ pager[c].eState = "cachemod"
                                THEN "excl" ELSE "wdb"]
<1>1. /\ pager[c].eState \in {"locked", "cachemod", "dbmod"} /\ pager[c].pc = "idle"
      /\ p \in pager[c].dirty /\ p # 1
      /\ Set(c, h) /\ UNCHANGED <<mode, files>> /\ UNCHANGED lockVars
  BY DEF Spill, InWrite, lockVars
<1>2. [LockNext]_lockVars /\ (\A d \in Others(c) : lock'[d] = lock[d]) /\ lock'[c] = lock[c]
  BY <1>1, SameLocks DEF Others
<1>3. h.pc \in {"excl", "wdb"} /\ h.spill = p /\ \A f \in Fields \ {"pc", "spill"} : h[f] = pager[c][f]
  BY DEF IInv, PagerInv, Fields
<1>4. h.eState = pager[c].eState
  BY DEF IInv, PagerInv, Fields
<1>5. pager[c].eState # "locked"
  BY <1>1 DEF IInv, PagerInv, CleanInv, HotInv
<1> HIDE DEF h
<1>6. Cools(h, lock'[c]) => Cools(pager[c], lock[c])
  BY <1>1, <1>2, <1>3, <1>4 DEF Cools
<1>7. p # 0
  BY DEF Pages
<1>8. QED
  BY <1>1, <1>2, <1>3, <1>5, <1>6, <1>7, LoggingGoes

\* What there is when EXCLUSIVE is asked for.
LEMMA AtExcl ==
  ASSUME IInv, NEW c \in Conns, pager[c].pc = "excl"
  PROVE  pager[c].eState \in {"locked", "cachemod", "dbmod"}
         /\ (pager[c].spill # 0 => pager[c].eState # "locked")
<1>1. PagerInv(pager[c], lock[c])
  BY DEF IInv
<1>2. pager[c].eState \in {"locked", "cachemod", "dbmod"}
  BY <1>1 DEF PagerInv, StateInv, ReadPcs, PlayPcs
<1>3. QED
  BY <1>1, <1>2 DEF PagerInv, CleanInv, HotInv

\* PENDING is taken on the way to EXCLUSIVE.
LEMMA PendingKept ==
  ASSUME IInv, NEW i, PInv(i), NEW c \in Conns, Pending(c)
  PROVE  PInv(i)'
<1>1. /\ pager[c].pc = "excl" /\ UNCHANGED <<mode, files>> /\ LockPending(c) /\ pager' = pager
  BY DEF Pending
<1>2. pager = [d \in Conns |-> pager[d]] /\ Set(c, pager[c])
  BY <1>1 DEF IInv, Set
<1>3. pager[c].eState \in {"locked", "cachemod", "dbmod"}
  BY <1>1, AtExcl
<1>4. [LockNext]_lockVars /\ (\A d \in Others(c) : lock'[d] = lock[d]) /\ lock'[c] = PENDING_LOCK
  BY <1>1, LockGiven DEF IInv
<1>5. Cools(pager[c], lock'[c]) => Cools(pager[c], lock[c])
  BY <1>1, <1>3, <1>4 DEF Cools, LockPending, RESERVED_LOCK, EXCLUSIVE_LOCK, PENDING_LOCK
<1>6. QED
  BY <1>1, <1>2, <1>3, <1>4, <1>5, LoggingGoes

\* EXCLUSIVE is there when no reader is left.
LEMMA ExclusiveKept ==
  ASSUME IInv, NEW i, PInv(i), NEW c \in Conns, Exclusive(c)
  PROVE  PInv(i)'
<1> DEFINE h == [pager[c] EXCEPT !.pc = IF pager[c].spill = 0 THEN "phase1" ELSE "jsync"]
<1>1. /\ pager[c].pc = "excl" /\ Set(c, h) /\ UNCHANGED <<mode, files>>
      /\ LockExclusive(c) \/ (lock[c] = EXCLUSIVE_LOCK /\ UNCHANGED lockVars)
  BY DEF Exclusive, Goto
<1>2. [LockNext]_lockVars /\ (\A d \in Others(c) : lock'[d] = lock[d]) /\ lock'[c] = EXCLUSIVE_LOCK
  BY <1>1, LockGiven DEF IInv, lockVars
<1>3. /\ h.pc \in {"phase1", "jsync"} /\ (pager[c].spill = 0 => h.pc = "phase1")
      /\ h.spill = pager[c].spill /\ \A f \in Fields \ {"pc", "spill"} : h[f] = pager[c][f]
  BY DEF IInv, PagerInv, Fields
<1>4. h.eState = pager[c].eState
  BY DEF IInv, PagerInv, Fields
<1>5. pager[c].eState \in {"locked", "cachemod", "dbmod"} /\ (pager[c].eState = "locked" => h.pc = "phase1")
  BY <1>1, <1>3, AtExcl
<1> HIDE DEF h
<1>6. Cools(h, lock'[c]) => Cools(pager[c], lock[c])
  BY <1>2, <1>3, <1>4, <1>5 DEF Cools, RESERVED_LOCK, EXCLUSIVE_LOCK
<1>7. QED
  BY <1>1, <1>2, <1>3, <1>5, <1>6, LoggingGoes

\* Or the commit or the spill gives up for now.
LEMMA BusyKept ==
  ASSUME IInv, NEW i, PInv(i), NEW c \in Conns, Busy(c)
  PROVE  PInv(i)'
<1> DEFINE h == [pager[c] EXCEPT !.spill = 0, !.pc = "idle"]
<1>1. /\ pager[c].pc = "excl" /\ Set(c, h) /\ UNCHANGED <<mode, files>> /\ UNCHANGED lockVars
  BY DEF Busy, lockVars
<1>2. [LockNext]_lockVars /\ (\A d \in Others(c) : lock'[d] = lock[d]) /\ lock'[c] = lock[c]
  BY <1>1, SameLocks DEF Others
<1>3. h.pc = "idle" /\ h.spill = 0 /\ \A f \in Fields \ {"pc", "spill"} : h[f] = pager[c][f]
  BY DEF IInv, PagerInv, Fields
<1>4. h.eState = pager[c].eState
  BY DEF IInv, PagerInv, Fields
<1>5. pager[c].eState \in {"locked", "cachemod", "dbmod"}
  BY <1>1, AtExcl
<1> HIDE DEF h
<1>6. Cools(h, lock'[c]) => Cools(pager[c], lock[c])
  BY <1>1, <1>2, <1>3, <1>4, <1>5 DEF Cools
<1>7. QED
  BY <1>1, <1>2, <1>3, <1>5, <1>6, LoggingGoes

\* A transaction that changed nothing ends, or is rolled back.
LEMMA LockedGoes ==
  ASSUME NEW g, NEW h, g.eState = "locked", h.eState = "locked", g.hot = FALSE, h.hot = FALSE,
         h.cache = g.cache, h.vers = g.vers, h.dbSize = g.dbSize, h.nPage = g.nPage, h.jfd = g.jfd,
         g.pc # "hotsync", h.pc = "final" \/ h.pc = "end",
         NEW l, NEW k, NEW i, NEW d, NEW j, NEW name, NEW m, ConnK(g, l, i, d, j, name, m)
  PROVE  ConnK(h, k, i, d, j, name, m)
<1>1. /\ TrustK(g, l, i, d, j, name) /\ JfdK(g, i, name, m)
      /\ Reads(g, i) /\ g.nPage = Len(i)
  BY DEF ConnK, ReadK
<1>2. TrustK(h, k, i, d, j, name)
  BY <1>1 DEF TrustK, Trusts, Cools
<1>3. JfdK(h, i, name, m)
  BY <1>1 DEF JfdK
<1>4. Reads(h, i) /\ h.nPage = Len(i)
  BY <1>1 DEF Reads, Agrees, NothingCached, Coherent
<1>5. ReadK(h, i) /\ CacheK(h, i) /\ OwnK(h, i, d, j[h.jfd], name, m) /\ HotK(h, i, d, j[h.jfd])
  BY <1>4 DEF ReadK, CacheK, OwnK, Active, Playing, Undoes, HotK
<1>6. QED
  BY <1>2, <1>3, <1>5 DEF ConnK

\* A transaction that changed nothing ends.
LEMMA CommitNothingKept ==
  ASSUME IInv, NEW i, PInv(i), NEW c \in Conns, CommitNothing(c)
  PROVE  PInv(i)'
<1> DEFINE g == pager[c]
           h == [g EXCEPT !.commit = TRUE, !.pc = "final"]
<1>1. /\ g.pc = "phase1" /\ g.eState = "locked" /\ Set(c, h)
      /\ UNCHANGED <<mode, db, journal, dirent>> /\ UNCHANGED lockVars
  BY DEF CommitNothing, lockVars, files
<1>2. g = [f \in Fields |-> g[f]] /\ g.hot = FALSE
  BY <1>1 DEF IInv, PagerInv, HotInv
<1>3. /\ h.eState = "locked" /\ h.pc = "final" /\ h.hot = FALSE /\ h.cache = g.cache /\ h.vers = g.vers
      /\ h.dbSize = g.dbSize /\ h.nPage = g.nPage /\ h.jfd = g.jfd
  BY <1>1, <1>2 DEF Fields
<1>4. [LockNext]_lockVars /\ (\A d \in Others(c) : lock'[d] = lock[d]) /\ lock'[c] = lock[c]
  BY <1>1, SameLocks DEF Others
<1>5. ConnK(g, lock[c], i, db, journal, dirent, mode)
  BY DEF PInv
<1> HIDE DEF g, h
<1>6. ConnK(h, lock'[c], i, db, journal, dirent, mode)
  BY <1>1, <1>2, <1>3, <1>4, <1>5, LockedGoes
<1>7. ~Cutting(g, lock[c]) /\ g.pc # "finsync"
  BY <1>1 DEF Cutting
<1>8. QED
  BY <1>1, <1>4, <1>6, <1>7, PagerPromises DEF g

-----------------------------------------------------------------------------
\* Rollbacks and errors, while the file stays as it is

\* Records of a longer part of the journal.
LEMMA RecsMore ==
  ASSUME NEW cells, NEW p, NEW m \in Nat, NEW n \in Int, NEW k \in Nat, NEW l \in Int,
         k <= m, n <= l, Recs(cells, p, m, n)
  PROVE  Recs(cells, p, k, l)
<1>1. PICK s \in m..n : cells[s].cur.kind = "record" /\ cells[s].cur.pgno = p
  BY DEF Recs
<1>2. s \in k..l
  BY <1>1
<1>3. QED
  BY <1>1, <1>2 DEF Recs

\* No segments, or one more.
LEMMA ChainNone ==
  ASSUME NEW j, NEW n \in 1..MaxSlot + 1
  PROVE  Chain(j, n, n)
<1>1. {} \in SUBSET Slots /\ n <= MaxSlot + 1
  BY Bounds
<1>2. ChainOf(j, {}, n, n)
  BY <1>1 DEF ChainOf
<1>3. QED
  BY <1>1, <1>2 DEF Chain

\* A journal file is as it should be.
LEMMA JournalOf ==
  ASSUME IInv, NEW b \in Nat, TInv(b), NEW e \in 0..MaxInode, e # 0
  PROVE  /\ e \in Inodes /\ journal[e] = [s \in Slots |-> journal[e][s]] /\ JournalType(journal[e], b)
         /\ \A s \in Slots : journal[e][s].cur \in journal[e][s].may
<1>1. e \in Inodes
  BY Bounds DEF Inodes
<1>2. QED
  BY <1>1 DEF IInv, FilesInv, TInv, JournalType, CellOf

\* A rollback begins.
LEMMA RollbackKept ==
  ASSUME IInv, NEW b \in Nat, TInv(b), NEW i, PInv(i), NEW c \in Conns, Rollback(c)
  PROVE  PInv(i)'
<1> DEFINE g == pager[c]
           h == [g EXCEPT !.commit = FALSE, !.spill = 0, !.off = 0,
                          !.pc = IF g.eState = "locked" THEN "final" ELSE "play"]
<1>1. /\ InWrite(g) \/ g.pc = "failed"
      /\ Set(c, h) /\ UNCHANGED <<mode, db, journal, dirent>> /\ UNCHANGED lockVars
  BY DEF Rollback, lockVars, files
<1>2. /\ g = [f \in Fields |-> g[f]] /\ g.hot = FALSE
      /\ g.eState \in {"locked", "cachemod", "dbmod"} /\ g.pc \in {"idle", "failed"}
      /\ g.eState = "locked" => g.pc = "idle"
      /\ g.jfd \in 0..MaxInode /\ (g.eState # "locked" => g.jfd # 0)
      /\ DataType(g, b)
  <2>1. PagerInv(g, lock[c]) /\ DataType(g, b)
    BY DEF IInv, TInv
  <2>2. /\ g.eState \in {"locked", "cachemod", "dbmod"} /\ g.pc \in {"idle", "failed"}
        /\ g.eState = "locked" => g.pc = "idle"
    BY <1>1, <2>1 DEF InWrite, PagerInv, StateInv, ReadPcs, PlayPcs
  <2>3. QED
    BY <2>1, <2>2 DEF PagerInv, HotInv, JournalInv
<1>3. /\ h.eState = g.eState /\ h.pc = (IF g.eState = "locked" THEN "final" ELSE "play")
      /\ h.hot = FALSE /\ h.cache = g.cache /\ h.vers = g.vers
      /\ h.dbSize = g.dbSize /\ h.nPage = g.nPage /\ h.jfd = g.jfd /\ h.commit = FALSE /\ h.off = 0
      /\ SameJournal(g, h)
  BY <1>2 DEF Fields, SameJournal
<1>4. [LockNext]_lockVars /\ (\A d \in Others(c) : lock'[d] = lock[d]) /\ lock'[c] = lock[c]
  BY <1>1, SameLocks DEF Others
<1>5. ConnK(g, lock[c], i, db, journal, dirent, mode) /\ IsImage(i)
  BY DEF PInv
<1>6. ~Cutting(g, lock[c]) /\ g.pc # "finsync"
  BY <1>2 DEF Cutting
<1> HIDE DEF g, h
<1>7. CASE g.eState = "locked"
  <2>1. ConnK(h, lock'[c], i, db, journal, dirent, mode)
    BY <1>2, <1>3, <1>4, <1>5, <1>7, LockedGoes
  <2>2. QED
    BY <1>1, <1>4, <1>6, <2>1, PagerPromises DEF g
<1>8. CASE g.eState \in {"cachemod", "dbmod"}
  <2> DEFINE cells == journal[g.jfd]
  <2>1. WriterK(g, lock[c], i, db, journal, dirent, mode)
    BY <1>2, <1>5, <1>8, WriterIs
  <2>2. dirent.cur = g.jfd /\ TrustK(g, lock[c], i, db, journal, dirent)
    BY <1>2, <2>1 DEF WriterK
  <2>3. LogK(g, i, db, cells) /\ WriteK(g, i, db, cells, mode)
    BY <1>2, <1>8, <2>1 DEF WriterK, OwnK, Active, LoggingPcs
  <2>4. /\ cells = [s \in Slots |-> cells[s]] /\ JournalType(cells, b)
        /\ MaxSlot \in Nat \ {0} /\ 1 \in Slots /\ Len(i) \in Nat
    <3>1. g.jfd \in 0..MaxInode /\ g.jfd # 0
      BY <1>2, <1>8
    <3>2. cells = [s \in Slots |-> cells[s]] /\ JournalType(cells, b)
      BY <3>1, JournalOf
    <3>3. QED
      BY <1>5, <3>2, ImageIs, Bounds DEF Slots
  <2> HIDE DEF cells
  <2>5. LogK(h, i, db, cells) /\ End(h) = End(g)
    BY <1>3, <2>3, LogSame
  <2>6. /\ g.hdr \in 1..MaxSlot + 1 /\ g.hdr <= End(g) + 1 /\ End(g) <= MaxSlot
        /\ End(g) = g.off /\ g.off \in 0..MaxSlot
        /\ g.eState = "cachemod" => g.hdr = 1
        /\ g.eState = "dbmod" => Covered(cells, cells[1].cur, i, db, g.hdr)
    BY <1>2, <1>8, <2>3 DEF LogK, WriteK, DataType
  <2>7. Chain(Cur(cells), 1, g.hdr)
    <3>1. CASE g.eState = "cachemod"
      BY <2>4, <2>6, <3>1, ChainNone
    <3>2. CASE g.eState = "dbmod"
      <4>1. With(cells, cells[1].cur) = Cur(cells)
        BY <2>4, WithCur
      <4>2. QED
        BY <2>6, <3>2, <4>1 DEF Covered
    <3>3. QED
      BY <1>8, <3>1, <3>2
  <2>8. PlaceK(h, cells)
    <3>1. h.off + 1 = 1 /\ h.hdr = g.hdr /\ h.pc = "play" /\ 1 <= g.hdr /\ h.off = 0
      BY <1>3, <1>8, <2>6 DEF SameJournal
    <3>2. QED
      BY <2>7, <3>1 DEF PlaceK
  <2>9. ASSUME NEW p \in 1..Len(i)
        PROVE  /\ (g.cache[p] # NoPage => g.cache[p] = i[p]) \/ Recs(cells, p, 1, End(g))
               /\ db[p].cur = i[p] \/ Recs(cells, p, 1, g.hdr - 1)
    <3>1. p \notin g.inJournal => (g.cache[p] # NoPage => g.cache[p] = i[p])
      BY <2>3 DEF WriteK
    <3>2. p \in g.inJournal => Recs(cells, p, 1, End(g))
      <4>1. p \in g.inJournal => Recs(cells, p, 2, g.off)
        BY <2>3 DEF WriteK
      <4>2. QED
        BY <2>6, <4>1, RecsMore
    <3>3. CASE g.eState = "cachemod"
      <4>1. Quiet(db, i)
        BY <2>2, <3>3 DEF TrustK, Trusts
      <4>2. Len(i) # 0
        BY <2>4
      <4>3. db[p] = Stable(i[p])
        BY <4>1, <4>2 DEF Quiet
      <4>4. db[p].cur = i[p]
        BY <4>3 DEF Stable
      <4>5. QED
        BY <3>1, <3>2, <4>4
    <3>4. CASE g.eState = "dbmod"
      <4>1. db[p] = Stable(i[p]) \/ Recs(cells, p, 2, g.hdr - 1)
        BY <2>6, <3>4 DEF Covered
      <4>2. Recs(cells, p, 2, g.hdr - 1) => Recs(cells, p, 1, g.hdr - 1)
        BY <2>6, RecsMore
      <4>3. db[p] = Stable(i[p]) => db[p].cur = i[p]
        BY DEF Stable
      <4>4. QED
        BY <3>1, <3>2, <4>1, <4>2, <4>3
    <3>5. QED
      BY <1>8, <3>3, <3>4
  <2>10. Len(i) # 0 => g.cache[1] # NoPage /\ (g.vers = i[1] \/ Recs(cells, 1, 1, End(g)))
    <3> SUFFICES ASSUME Len(i) # 0
                 PROVE  g.cache[1] # NoPage /\ (g.vers = i[1] \/ Recs(cells, 1, 1, End(g)))
      OBVIOUS
    <3>1. g.cache[1] # NoPage
      BY <2>3 DEF WriteK
    <3>2. 1 \in 1..Len(i) /\ i[1].ver \in Nat
      BY <1>5, FirstIs
    <3>3. CASE ~g.commit
      BY <2>3, <3>1, <3>3 DEF WriteK
    <3>4. CASE g.commit
      <4>1. g.cache[1].ver > i[1].ver
        BY <2>3, <3>4 DEF WriteK
      <4>2. g.cache[1] # i[1]
        BY <3>2, <4>1
      <4>3. QED
        BY <2>9, <3>1, <3>2, <4>2
    <3>5. QED
      BY <3>3, <3>4
  <2>11. PlayK(h, i, db, cells)
    <3>1. h.off + 1 = 1 /\ h.hdr = g.hdr /\ End(h) = End(g) /\ h.off = 0
          /\ h.cache = g.cache /\ h.vers = g.vers
      BY <1>3, <2>5 DEF SameJournal
    <3>2. QED
      BY <2>8, <2>9, <2>10, <3>1 DEF PlayK
  <2>12. OwnK(h, i, db, cells, dirent, mode)
    <3>1. h.pc = "play"
      BY <1>3, <1>8
    <3>2. ~Active(h) /\ ~Undoes(h)
      BY <1>3, <1>8, <3>1 DEF Active, Undoes, LoggingPcs
    <3>3. QED
      BY <2>5, <2>11, <3>2 DEF OwnK
  <2>13. TrustK(h, lock'[c], i, db, journal, dirent)
    <3>1. h.pc = "play" /\ h.eState = g.eState /\ h.hot = FALSE /\ g.pc \in {"idle", "failed"}
      BY <1>2, <1>3, <1>8
    <3>2. /\ Trusts(h, lock'[c]) => Trusts(g, lock[c])
          /\ Cools(h, lock'[c]) => Cools(g, lock[c])
      BY <1>4, <1>8, <3>1 DEF Trusts, Cools
    <3>3. QED
      BY <2>2, <3>1, <3>2 DEF TrustK
  <2>14. ConnK(h, lock'[c], i, db, journal, dirent, mode)
    <3>1. h.pc = "play" /\ h.hot = FALSE /\ h.eState \in {"cachemod", "dbmod"} /\ h.jfd = g.jfd
      BY <1>3, <1>8
    <3>2. WriterK(h, lock'[c], i, db, journal, dirent, mode)
      BY <2>2, <2>12, <2>13, <3>1 DEF WriterK, cells
    <3>3. QED
      BY <3>1, <3>2, WriterIs
  <2>15. QED
    BY <1>1, <1>4, <1>6, <2>14, PagerPromises DEF g
<1>9. QED
  BY <1>2, <1>7, <1>8

-----------------------------------------------------------------------------
\* Calls that end, while the files stay as they are

\* A file that is as it should be has a page 1 or no page.
LEMMA QuietFirst ==
  ASSUME NEW i, IsImage(i), NEW d, Quiet(d, i)
  PROVE  EmptyDb(d) \/ d[1].cur # NoPage
<1>1. CASE Len(i) = 0
  BY <1>1 DEF Quiet
<1>2. CASE Len(i) # 0
  <2>1. 1 \in 1..Len(i) /\ i[1] # NoPage
    BY <1>2, ImageIs, Contents
  <2>2. d[1] = Stable(i[1])
    BY <1>2, <2>1 DEF Quiet
  <2>3. QED
    BY <2>1, <2>2 DEF Stable
<1>3. QED
  BY <1>1, <1>2

\* A connection that plays back a hot journal.
LEMMA HotIs ==
  ASSUME NEW g, g.eState = "open", g.hot = TRUE,
         NEW l, NEW i, NEW d, NEW j, NEW name, NEW m
  PROVE  ConnK(g, l, i, d, j, name, m) <=>
           /\ TrustK(g, l, i, d, j, name) /\ CacheK(g, i) /\ JfdK(g, i, name, m)
           /\ HotK(g, i, d, j[g.jfd])
BY DEF ConnK, ReadK, OwnK, Active, Playing, Undoes

\* The playback is done.
LEMMA PlayEndKept ==
  ASSUME IInv, NEW b \in Nat, TInv(b), NEW i, PInv(i), NEW c \in Conns, PlayEnd(c)
  PROVE  PInv(i)'
<1> DEFINE g == pager[c]
           h == [g EXCEPT !.pc = IF DbInPlay(g) THEN "dbsync" ELSE "final"]
<1>1. /\ g.pc = "playend" /\ Set(c, h)
      /\ UNCHANGED <<mode, db, journal, dirent>> /\ UNCHANGED lockVars
  BY DEF PlayEnd, files, lockVars
<1>2. g = [f \in Fields |-> g[f]] /\ PagerInv(g, lock[c])
  BY DEF IInv, PagerInv
<1>3. /\ h.eState = g.eState /\ h.hot = g.hot /\ h.cache = g.cache /\ h.vers = g.vers
      /\ h.dbSize = g.dbSize /\ h.nPage = g.nPage /\ h.jfd = g.jfd /\ h.commit = g.commit
      /\ h.off = g.off /\ h.hdr = g.hdr
      /\ h.pc = IF g.eState \in {"dbmod", "open"} THEN "dbsync" ELSE "final"
  BY <1>2 DEF Fields, DbInPlay
<1>4. [LockNext]_lockVars /\ (\A d \in Others(c) : lock'[d] = lock[d]) /\ lock'[c] = lock[c]
  BY <1>1, SameLocks DEF Others
<1>5. ConnK(g, lock[c], i, db, journal, dirent, mode) /\ IsImage(i)
  BY DEF PInv
<1> HIDE DEF g, h
<1>6. /\ g.eState \in {"open", "cachemod", "dbmod"} /\ g.hot \in BOOLEAN
      /\ g.hot <=> g.eState = "open"
  BY <1>1, <1>2 DEF PagerInv, StateInv, HotInv, ReadPcs, PlayPcs, CommitPcs
<1>7. /\ TrustK(g, lock[c], i, db, journal, dirent) /\ CacheK(g, i) /\ JfdK(g, i, dirent, mode)
      /\ OwnK(g, i, db, journal[g.jfd], dirent, mode) /\ HotK(g, i, db, journal[g.jfd])
  BY <1>5 DEF ConnK
<1>8. TrustK(h, lock'[c], i, db, journal, dirent)
  <2>1. /\ Trusts(h, lock'[c]) => Trusts(g, lock[c])
        /\ Cools(h, lock'[c]) => Cools(g, lock[c])
        /\ h.pc \in {"dbsync", "final"}
    BY <1>1, <1>3, <1>4, <1>6 DEF Trusts, Cools
  <2>2. QED
    BY <1>7, <2>1 DEF TrustK
<1>9. CacheK(h, i) /\ ReadK(h, i)
  BY <1>3, <1>6, <1>7 DEF CacheK, NothingCached, Coherent, ReadK
<1>10. JfdK(h, i, dirent, mode)
  <2>1. h.pc \in {"dbsync", "final"} /\ h.hot = g.hot /\ h.eState = g.eState /\ h.jfd = g.jfd
    BY <1>3
  <2>2. dirent.cur = g.jfd
    BY <1>1, <1>6, <1>7 DEF JfdK
  <2>3. QED
    BY <1>6, <2>1, <2>2 DEF JfdK
<1>11. OwnK(h, i, db, journal[h.jfd], dirent, mode)
  <2>1. CASE g.eState = "open"
    BY <1>3, <2>1 DEF OwnK, Active, Playing, Undoes
  <2>2. CASE g.eState # "open"
    <3>1. ~g.commit
      <4>1. HeaderType(g, journal[g.jfd], b)
        BY DEF TInv, g
      <4>2. QED
        BY <1>1, <1>6, <2>2, <4>1 DEF HeaderType, InUndo
    <3>2. Undoes(h) => UndoK(g, i, db)
      BY <1>1, <1>3, <1>6, <1>7, <2>2 DEF OwnK, Undoes
    <3>3. Undoes(h) => UndoK(h, i, db)
      BY <1>3, <3>2 DEF UndoK, Agrees, Coherent
    <3>4. h.eState = g.eState /\ (h.eState = "cachemod" => h.pc = "final") /\ (h.eState = "dbmod" => h.pc = "dbsync")
      BY <1>3
    <3>5. ~Playing(h)
      BY <1>3 DEF Playing
    <3>6. ~Active(h)
      BY <1>3, <1>6, <2>2, <3>1 DEF Active, LoggingPcs
    <3>7. QED
      BY <3>3, <3>5, <3>6 DEF OwnK
  <2>3. QED
    BY <2>1, <2>2
<1>12. HotK(h, i, db, journal[h.jfd])
  <2>1. CASE ~g.hot
    BY <1>3, <2>1 DEF HotK
  <2>2. CASE g.hot
    <3>1. h.pc = "dbsync" /\ h.hot = TRUE /\ h.off = g.off /\ h.hdr = g.hdr /\ h.dbSize = g.dbSize
          /\ h.jfd = g.jfd
      BY <1>3, <1>6, <2>2
    <3>2. \A d, cells, n : HotAt(g, i, d, cells, n) => HotAt(h, i, d, cells, n)
      BY <1>1, <3>1 DEF HotAt
    <3>3. QED
      BY <1>1, <1>7, <2>2, <3>1, <3>2 DEF HotK
  <2>3. QED
    BY <1>6, <2>1, <2>2
<1>13. ConnK(h, lock'[c], i, db, journal, dirent, mode)
  BY <1>8, <1>9, <1>10, <1>11, <1>12 DEF ConnK
<1>14. Cutting(g, lock[c]) => Cutting(h, lock'[c]) \/ EmptyDb(db) \/ db[1].cur # NoPage
  <2>1. CASE g.eState = "cachemod"
    BY <1>5, <1>7, <2>1, QuietFirst DEF TrustK, Trusts
  <2>2. CASE g.eState # "cachemod"
    <3>1. h.pc = "dbsync" /\ h.commit = g.commit /\ h.dbSize = g.dbSize /\ lock'[c] = lock[c]
      BY <1>3, <1>4, <1>6, <2>2
    <3>2. QED
      BY <3>1 DEF Cutting
  <2>3. QED
    BY <2>1, <2>2
<1>15. QED
  BY <1>1, <1>4, <1>13, <1>14, PagerPromises DEF g

\* pager_unlock() after an error.
LEMMA ErrorUnlockKept ==
  ASSUME IInv, NEW i, PInv(i), NEW c \in Conns, ErrorUnlock(c)
  PROVE  PInv(i)'
<1> DEFINE h == Unlocked(pager[c], TRUE)
<1>1. pager[c].eState = "error" /\ Unlock(c, NO_LOCK) /\ Set(c, h) /\ UNCHANGED <<mode, files>>
  BY DEF ErrorUnlock
<1>2. PagerInv(pager[c], lock[c]) /\ pager[c] = [f \in Fields |-> pager[c][f]]
  BY DEF IInv, PagerInv
<1>3. ~Exposed(pager[c])
  BY <1>1, <1>2 DEF PagerInv, StateInv, Exposed
<1>4. [LockNext]_lockVars /\ \A d \in Others(c) : lock'[d] = lock[d]
  BY <1>1, LockGiven DEF IInv
<1>5. /\ h.eState = "open" /\ h.pc = "idle" /\ h.hot = FALSE /\ h.jfd = 0
      /\ h.cache = NoCache
  BY <1>2, UnlockedFields
<1> HIDE DEF h
<1>6. CacheK(h, i)
  BY <1>5, NothingIsKept
<1>7. QED
  BY <1>1, <1>3, <1>4, <1>5, <1>6, UnlockKept

\* The process of a connection is killed.
LEMMA CrashKept ==
  ASSUME ~DoubleFault, IInv, NEW i, PInv(i), NEW c \in Conns, Crash(c)
  PROVE  PInv(i)'
<1>1. Vanish({c}) /\ Set(c, Fresh) /\ UNCHANGED <<mode, files>> /\ ~Exposed(pager[c])
  BY DEF Crash
<1>2. [LockNext]_lockVars /\ \A d \in Others(c) : lock'[d] = lock[d]
  BY <1>1 DEF LockNext, Vanish, Others
<1>3. /\ Fresh.eState = "open" /\ Fresh.pc = "idle" /\ Fresh.hot = FALSE /\ Fresh.jfd = 0
      /\ Fresh.cache = NoCache
  BY DEF Fresh
<1>4. CacheK(Fresh, i)
  BY <1>3, NothingIsKept
<1>5. QED
  BY <1>1, <1>2, <1>3, <1>4, UnlockKept

-----------------------------------------------------------------------------
\* The database file is written

\* A journal that covers an image does so while pages are written whose
\* records it has.
LEMMA CoveredWrite ==
  ASSUME DbType(db), NEW i, IsImage(i), NEW cells, NEW x, NEW n, Covered(cells, x, i, db, n),
         NEW p \in Pages, NEW y, y # NoPage,
         p <= Len(i) => Recs(cells, p, 2, n - 1)
  PROVE  Covered(cells, x, i, WriteDb(p, y), n)
<1> DEFINE d == WriteDb(p, y)
<1>1. \A q \in Pages : d[q] = IF q = p THEN WrittenPage(db[q], y, Torn)
                              ELSE IF q < p /\ db[q].cur = NoPage THEN Written(db[q], Zero)
                              ELSE db[q]
  BY WriteIs
<1> HIDE DEF d
<1>2. ASSUME NEW q \in 1..Len(i)
      PROVE  d[q] = Stable(i[q]) \/ Recs(cells, q, 2, n - 1)
  <2>1. q \in Pages /\ i[q] # NoPage /\ q <= Len(i)
    BY ImageIs, Contents
  <2>2. db[q] = Stable(i[q]) \/ Recs(cells, q, 2, n - 1)
    BY DEF Covered
  <2>3. CASE db[q] = Stable(i[q]) /\ q # p
    <3>1. db[q].cur # NoPage
      BY <2>1, <2>3 DEF Stable
    <3>2. QED
      BY <1>1, <2>1, <2>3, <3>1
  <2>4. QED
    BY <2>1, <2>2, <2>3
<1>3. ASSUME Len(i) # 0
      PROVE  NoPage \notin d[1].may
  <2>1. NoPage \notin db[1].may /\ 1 \in Pages
    BY <1>3, FirstCell DEF Covered
  <2>2. \A cell, z : NoPage \notin cell.may /\ z # NoPage => NoPage \notin Written(cell, z).may
                     /\ NoPage \notin WrittenPage(cell, z, Torn).may
    BY Contents DEF Written, WrittenPage
  <2>3. Zero # NoPage
    BY Contents
  <2>4. QED
    BY <1>1, <2>1, <2>2, <2>3
<1>4. QED
  BY <1>2, <1>3 DEF Covered, d

\* A page that a transaction writes is on record before the open segment.
LEMMA DirtyIsRecorded ==
  ASSUME NEW g, Logging(g), NEW cells, LogInv(g, cells), NEW p \in g.dirty, p <= g.orig,
         p \notin g.needSync
  PROVE  Recs(cells, p, 2, g.hdr - 1)
<1>1. OnRecord(cells, g.hdr, p) /\ g.hdr \in Nat
  BY DEF LogInv
<1>2. PICK h \in 1..g.hdr - 1, s \in 1..g.hdr - 1 :
           h < s /\ IsRecordOf(cells[s].cur, p, cells[h].cur.nonce)
  BY <1>1 DEF OnRecord
<1>3. s \in 2..g.hdr - 1
  BY <1>1, <1>2
<1>4. QED
  BY <1>2, <1>3 DEF Recs, IsRecordOf

\* The files, once a header that is on disk covers the image.
LEMMA CoveredFiles ==
  ASSUME NEW i, IsImage(i), NEW d, NEW j, NEW name, NEW m, name.cur # 0, name.may = {name.cur},
         IsStable(j[name.cur][1]), IsMagic(j[name.cur][1].cur),
         NEW n, Covered(j[name.cur], j[name.cur][1].cur, i, d, n)
  PROVE  FilesK(i, d, j, name, m)
<1>1. j[name.cur][1].may = {j[name.cur][1].cur}
  BY StableIs
<1>2. Len(i) <= Len(i)
  BY ImageIs
<1>3. NamedK(name.cur, i, d, j, m)
  BY <1>1, <1>2 DEF NamedK, Revives
<1>4. QED
  BY <1>1, <1>3 DEF FilesK

\* A transaction that writes the file: the journal that covers it has the name.
LEMMA NameIsSure ==
  ASSUME NEW i, NEW d, NEW j, NEW name, NEW m, FilesK(i, d, j, name, m), name.cur # 0,
         IsStable(j[name.cur][1]), IsMagic(j[name.cur][1].cur)
  PROVE  name.may = {name.cur}
BY DEF FilesK, IsStable, Stable

\* A connection that has EXCLUSIVE writes the file, which the journal covers.
LEMMA WriterPromises ==
  ASSUME IInv, NEW i, PInv(i), NEW c \in Conns, lock[c] = EXCLUSIVE_LOCK,
         NEW h, Set(c, h), UNCHANGED lockVars, mode' = mode,
         NEW e, dirent'.cur = e, dirent'.may = {e}, e # 0,
         IsStable(journal'[e][1]), IsMagic(journal'[e][1].cur),
         NEW n, Covered(journal'[e], journal'[e][1].cur, i, db', n),
         db'[1].cur = NoPage => EmptyDb(db') \/ Cutting(h, lock[c]),
         ConnK(h, lock[c], i, db', journal', dirent', mode)
  PROVE  PInv(i)'
<1>1. [LockNext]_lockVars /\ (\A d \in Others(c) : lock'[d] = lock[d]) /\ lock'[c] = lock[c]
  BY SameLocks DEF Others
<1>2. IsImage(i)
  BY DEF PInv
<1>3. FilesK(i, db', journal', dirent', mode)
  BY <1>2, CoveredFiles
<1>4. EmptyK(db', journal', dirent', pager', lock')
  <2>1. pager'[c] = h
    BY DEF Set, IInv
  <2>2. QED
    BY <1>1, <2>1 DEF EmptyK, Dying
<1>5. \A d \in Others(c) : ConnK(pager[d], lock[d], i, db', journal', dirent', mode)
  BY OthersIdle
<1>6. QED
  BY <1>1, <1>2, <1>3, <1>4, <1>5, OnePromises

-----------------------------------------------------------------------------
\* One that has EXCLUSIVE goes on, or its call fails

\* Of a step of a connection that has EXCLUSIVE it is enough to look at the
\* files and at its own pager; what the others have in their caches remains.
LEMMA AlonePromises ==
  ASSUME IInv, NEW i, PInv(i), NEW c \in Conns, lock[c] = EXCLUSIVE_LOCK,
         NEW h, Set(c, h), UNCHANGED lockVars, mode' = mode,
         NEW u, IsImage(u), FilesK(u, db', journal', dirent', mode),
         db'[1].cur = NoPage => EmptyDb(db') \/ Cutting(h, lock[c]),
         Dying(journal', dirent') => EmptyDb(db') \/ h.pc = "finsync",
         ConnK(h, lock[c], u, db', journal', dirent', mode),
         \A d \in Others(c) : IdleK(pager[d], i) => IdleK(pager[d], u)
  PROVE  PInv(u)'
<1>1. [LockNext]_lockVars /\ (\A d \in Others(c) : lock'[d] = lock[d]) /\ lock'[c] = lock[c]
  BY SameLocks DEF Others
<1>4. EmptyK(db', journal', dirent', pager', lock')
  <2>1. pager'[c] = h
    BY DEF Set, IInv
  <2>2. QED
    BY <1>1, <2>1 DEF EmptyK
<1>5. \A d \in Others(c) : ConnK(pager[d], lock[d], u, db', journal', dirent', mode)
  BY OthersIdle
<1>6. QED
  BY <1>1, <1>4, <1>5, OnePromises

\* A file of which a page was written has a page 1.
LEMMA WrittenFirst ==
  ASSUME NEW p \in Pages, NEW y, y # NoPage
  PROVE  WriteDb(p, y)[1].cur # NoPage
<1>1. 1 \in Pages /\ p \in Nat /\ p >= 1 /\ Zero # NoPage
  BY FirstIs, Bounds, Contents DEF Pages
<1>2. WriteDb(p, y)[1] = IF 1 = p THEN WrittenPage(db[1], y, Torn)
                         ELSE IF 1 < p /\ db[1].cur = NoPage THEN Written(db[1], Zero)
                         ELSE db[1]
  BY <1>1, WriteIs
<1>3. QED
  BY <1>1, <1>2 DEF WrittenPage, Written

\* A page of which the journal has what it was is written, but in part.
LEMMA WriteTorn ==
  ASSUME NEW i, IsImage(i), NEW g, g.nPage \in 0..MaxPage, NEW cells, NEW m, WriteK(g, i, db, cells, m),
         NEW p \in Pages, p \in g.dirty, p <= Len(i) => p \in g.inJournal, NEW y
  PROVE  WriteK(g, i, WriteDb(p, y), cells, m)
<1> DEFINE d == WriteDb(p, y)
<1>1. \A q \in Pages : d[q] = IF q = p THEN WrittenPage(db[q], y, Torn)
                              ELSE IF q < p /\ db[q].cur = NoPage THEN Written(db[q], Zero)
                              ELSE db[q]
  BY WriteIs
<1> HIDE DEF d
<1>2. ASSUME NEW q \in 1..Len(i), q \notin g.inJournal
      PROVE  d[q] = Stable(i[q]) /\ (g.cache[q] # NoPage => g.cache[q] = i[q])
  <2>1. q \in Pages /\ i[q] # NoPage /\ q <= Len(i)
    BY ImageIs, Contents
  <2>2. db[q] = Stable(i[q]) /\ (g.cache[q] # NoPage => g.cache[q] = i[q]) /\ q # p
    BY <1>2, <2>1 DEF WriteK
  <2>3. db[q].cur # NoPage
    BY <2>1, <2>2 DEF Stable
  <2>4. QED
    BY <1>1, <2>1, <2>2, <2>3
<1>3. ASSUME NEW q \in 1..g.nPage, q \notin g.dirty
      PROVE  d[q].cur \in PageContents /\ g.cache[q] \in {NoPage, d[q].cur}
  <2>1. q \in Pages /\ q # p
    BY <1>3, Bounds DEF Pages
  <2>2. db[q].cur \in PageContents /\ g.cache[q] \in {NoPage, db[q].cur}
    BY <1>3 DEF WriteK
  <2>3. db[q].cur # NoPage
    BY <2>2, Contents
  <2>4. QED
    BY <1>1, <2>1, <2>2, <2>3
<1>4. QED
  BY <1>2, <1>3 DEF WriteK, d

\* The same, and the page is what it is in the cache.
LEMMA WriteStored ==
  ASSUME NEW i, IsImage(i), NEW g, IsPager(g), g.nPage \in 0..MaxPage, g.cache \in [Pages -> OnDisk],
         NEW cells, NEW m, WriteK(g, i, db, cells, m),
         NEW p \in Pages, p \in g.dirty, p <= Len(i) => p \in g.inJournal,
         NEW h, SameJournal(g, h), h.off = g.off, h.nonce = g.nonce, h.nPage = g.nPage,
         h.dbSize = g.dbSize, h.inJournal = g.inJournal, h.commit = g.commit,
         h.dirty = g.dirty \ {p}, h.vers = IF p = 1 THEN g.cache[1] ELSE g.vers,
         p = 1 => g.commit, g.cache[p] # NoPage,
         h.cache = g.cache \/ (h.cache = [g.cache EXCEPT ![p] = NoPage] /\ p # 1),
         g.pc # "failed" /\ h.pc # "failed"
  PROVE  WriteK(h, i, WriteDb(p, g.cache[p]), cells, m)
<1> DEFINE d == WriteDb(p, g.cache[p])
<1>0. d[p] = WrittenPage(db[p], g.cache[p], Torn)
  BY WriteIs
<1>1. d[p].cur = g.cache[p] /\ 1 \in Pages
  <2>1. 1 \in Pages
    BY Bounds DEF Pages
  <2>2. QED
    BY <1>0, <2>1 DEF WrittenPage
<1>2. WriteK(g, i, d, cells, m)
  BY WriteTorn
<1> HIDE DEF d
<1>3. End(h) = End(g)
  BY LogSame
<1>4. ASSUME NEW q \in Pages
      PROVE  h.cache[q] # NoPage => h.cache[q] = g.cache[q]
  OBVIOUS
<1>5. h.cache[1] = g.cache[1] /\ g.cache[1] # NoPage
  BY <1>1, <1>2 DEF WriteK
<1>6. Len(i) \in 0..MaxPage /\ \A q : q \in 1..Len(i) \/ q \in 1..g.nPage => q \in Pages
  BY ImageIs, Bounds DEF Pages
<1>7. \A q \in 1..Len(i) : q \notin h.inJournal =>
        d[q] = Stable(i[q]) /\ (h.cache[q] # NoPage => h.cache[q] = i[q])
  BY <1>2, <1>4, <1>6 DEF WriteK
<1>8. ASSUME NEW q \in 1..h.nPage
      PROVE  /\ h.cache[q] # NoPage => h.cache[q] \in PageContents
             /\ q \notin h.dirty => d[q].cur \in PageContents /\ h.cache[q] \in {NoPage, d[q].cur}
  <2>1. q \in Pages /\ q \in 1..g.nPage
    BY <1>6, <1>8
  <2>2. /\ g.cache[q] # NoPage => g.cache[q] \in PageContents
        /\ q \notin g.dirty => d[q].cur \in PageContents /\ g.cache[q] \in {NoPage, d[q].cur}
    BY <1>2, <2>1 DEF WriteK
  <2>3. p \in 1..g.nPage /\ g.cache[p] # NoPage => g.cache[p] \in PageContents
    BY <1>2 DEF WriteK
  <2>4. h.cache[q] # NoPage => h.cache[q] = g.cache[q]
    BY <1>4, <2>1
  <2>5. CASE q = p
    BY <1>1, <2>1, <2>2, <2>3, <2>4, <2>5
  <2>6. QED
    BY <2>1, <2>2, <2>4, <2>5
<1>9. h.commit =>
        /\ h.cache[1] \in HeaderPages /\ h.cache[1].nPage = h.nPage /\ h.nPage = h.dbSize
        /\ Len(i) # 0 => h.cache[1].ver > i[1].ver
        /\ h.pc # "failed" /\ 1 \notin h.dirty => h.vers = h.cache[1]
  BY <1>2, <1>5 DEF WriteK
<1>10. ~h.commit => /\ \A q \in h.dirty : q <= h.dbSize
                    /\ Len(i) # 0 => h.vers = i[1]
  BY <1>2 DEF WriteK
<1>11. /\ h.off = End(h) /\ h.off >= 1
       /\ h.header => h.nonce = cells[h.hdr].cur.nonce
       /\ 0 < h.nPage /\ h.nPage <= h.dbSize
       /\ m = "delete" \/ ~h.commit => Len(i) <= h.nPage
       /\ \A q \in h.inJournal : Recs(cells, q, 2, h.off)
  BY <1>2, <1>3 DEF WriteK, SameJournal
<1>12. QED
  BY <1>5, <1>7, <1>8, <1>9, <1>10, <1>11 DEF WriteK, d

\* The next page, or the one that is spilled, while pages are written.
Paging(g, l, i, b, cells, p, y) ==
  /\ IsPager(g) /\ PagerInv(g, l) /\ l = EXCLUSIVE_LOCK /\ g.eState = "dbmod"
  /\ g.hot = FALSE /\ g.jfd # 0 /\ dirent.cur = g.jfd /\ dirent.may = {g.jfd}
  /\ IsImage(i) /\ DbType(db) /\ DataType(g, b) /\ p \in Pages
  /\ p <= Len(i) => p \in g.inJournal
  /\ IsStable(cells[1]) /\ IsMagic(cells[1].cur)
  /\ Covered(cells, cells[1].cur, i, WriteDb(p, y), g.hdr)
  /\ LogK(g, i, WriteDb(p, y), cells)
  /\ WriteK(g, i, db, cells, mode) /\ SyncK(g, i, db, cells, dirent)
  /\ WriteDb(p, y)[1].cur # NoPage

\* A page of the cache was written to the file, and what it was is on record.
LEMMA PageGoes ==
  ASSUME IInv, NEW b \in Nat, TInv(b), NEW i, PInv(i), NEW c \in Conns, pager[c].pc = "wdb",
         NEW p, p \in pager[c].dirty, p \notin pager[c].needSync, NEW y, y # NoPage
  PROVE  Paging(pager[c], lock[c], i, b, journal[pager[c].jfd], p, y)
<1> DEFINE g == pager[c]
           cells == journal[g.jfd]
<1>1. PagerInv(g, lock[c]) /\ g.eState = "dbmod" /\ lock[c] = EXCLUSIVE_LOCK /\ LogInv(g, cells)
  BY WritingLogs
<1>2. IsPager(g) /\ Logging(g) /\ g.hot = FALSE /\ g.jfd # 0
  BY <1>1 DEF IsPager, PagerInv, Logging, HotInv, JournalInv
<1>3. DbType(db) /\ DataType(g, b)
  BY DEF TInv
<1>4. IsImage(i) /\ ConnK(g, lock[c], i, db, journal, dirent, mode) /\ FilesK(i, db, journal, dirent, mode)
  BY DEF PInv
<1>5. WriterK(g, lock[c], i, db, journal, dirent, mode)
  <2> HIDE DEF g
  <2>1. g.pc # "hotsync"
    BY DEF g
  <2>2. QED
    BY <1>1, <1>2, <1>4, <2>1, WriterIs
<1> HIDE DEF g, cells
<1>6. g.pc = "wdb" /\ p \in g.dirty /\ p \notin g.needSync
  BY DEF g
<1>7. Active(g)
  BY <1>1, <1>6 DEF Active, LoggingPcs
<1>8. dirent.cur = g.jfd /\ LogK(g, i, db, cells) /\ WriteK(g, i, db, cells, mode)
      /\ SyncK(g, i, db, cells, dirent)
  BY <1>5, <1>6, <1>7 DEF WriterK, OwnK, cells
<1>9. IsStable(cells[1]) /\ IsMagic(cells[1].cur) /\ Covered(cells, cells[1].cur, i, db, g.hdr)
  BY <1>1, <1>8 DEF LogK
<1>10. dirent.may = {g.jfd}
  BY <1>2, <1>4, <1>8, <1>9, NameIsSure DEF cells
<1>11. p \in Pages /\ (p <= g.orig => p \in g.inJournal)
  BY <1>1, <1>6 DEF LogInv
<1>12. Len(i) <= g.orig /\ Len(i) \in Nat /\ g.orig \in Nat
  BY <1>3, <1>4, <1>8, ImageIs, Bounds DEF LogK, DataType
<1>13. p <= Len(i) => p <= g.orig
  BY <1>11, <1>12 DEF Pages
<1>14. p <= Len(i) => Recs(cells, p, 2, g.hdr - 1)
  BY <1>1, <1>2, <1>6, <1>13, DirtyIsRecorded
<1>15. Covered(cells, cells[1].cur, i, WriteDb(p, y), g.hdr)
  BY <1>3, <1>4, <1>9, <1>11, <1>14, CoveredWrite
<1>16. LogK(g, i, WriteDb(p, y), cells)
  BY <1>1, <1>8, <1>15 DEF LogK
<1>17. WriteDb(p, y)[1].cur # NoPage
  BY <1>11, WrittenFirst
<1>19. Paging(g, lock[c], i, b, cells, p, y)
  BY <1>1, <1>2, <1>3, <1>4, <1>8, <1>9, <1>10, <1>11, <1>13, <1>15, <1>16, <1>17 DEF Paging
<1>20. QED
  BY <1>19 DEF g, cells

-----------------------------------------------------------------------------
\* A transaction that has written to the file goes on.
LEMMA DbmodGoes ==
  ASSUME NEW h, h.eState = "dbmod", h.hot = FALSE,
         h.pc = "wdb" \/ h.pc = "idle" \/ h.pc = "failed" \/ (h.pc = "dbsync" /\ h.commit),
         NEW i, NEW d, NEW j, NEW name, NEW m, name.cur = h.jfd,
         LogK(h, i, d, j[h.jfd]), WriteK(h, i, d, j[h.jfd], m), SyncK(h, i, d, j[h.jfd], name)
  PROVE  ConnK(h, EXCLUSIVE_LOCK, i, d, j, name, m)
<1>1. TrustK(h, EXCLUSIVE_LOCK, i, d, j, name)
  BY DEF TrustK, Trusts, Cools
<1>2. ~Playing(h) /\ ~Undoes(h)
  BY DEF Playing, Undoes
<1>3. OwnK(h, i, d, j[h.jfd], name, m)
  BY <1>2 DEF OwnK
<1>4. h.pc # "hotsync" /\ h.pc # "end"
  OBVIOUS
<1>5. WriterK(h, EXCLUSIVE_LOCK, i, d, j, name, m)
  BY <1>1, <1>3, <1>4 DEF WriterK
<1>6. QED
  BY <1>4, <1>5, WriterIs

\* How far the syncs are while pages are written.
LEMMA SyncGoes ==
  ASSUME NEW g, NEW h, SameJournal(g, h), g.eState = "dbmod", g.pc = "wdb", h.commit = g.commit,
         NEW i, NEW d, NEW d2, NEW cells, NEW name, IsMagic(cells[1].cur), SyncK(g, i, d, cells, name),
         \/ h.pc = "wdb" /\ h.spill = 0 /\ g.spill = 0
         \/ h.pc = "idle" /\ h.spill = 0 /\ g.spill # 0
         \/ h.pc = "failed" /\ h.spill = g.spill
         \/ h.pc = "dbsync" /\ h.spill = 0 /\ h.dirty = {}
  PROVE  SyncK(h, i, d2, cells, name)
<1>2. g.header => NoMagic(cells, g.hdr)
  BY DEF SyncK
<1>3. h.header = g.header /\ h.hdr = g.hdr
  BY DEF SameJournal
<1>4. /\ g.pc \in {"jsync", "jhdr", "jsync2", "wdb"} /\ g.spill = 0 => g.commit
      /\ g.commit => g.spill = 0
      /\ g.spill # 1
  BY DEF SyncK
<1>5. h.pc \notin {"jhdr", "jsync2", "final"}
  OBVIOUS
<1>6. h.pc \in {"jsync", "jhdr", "jsync2", "wdb"} /\ h.spill = 0 => h.commit
  BY <1>4
<1>7. h.commit => h.spill = 0 /\ h.pc \notin {"idle", "excl", "phase1"}
  BY <1>4
<1>8. h.spill # 1 /\ (h.pc \in {"dbsync", "final"} => \A p \in 1..h.nPage : p \notin h.dirty)
  BY <1>4
<1>9. QED
  BY <1>2, <1>3, <1>5, <1>6, <1>7, <1>8 DEF SyncK

\* pager_write_pagelist() writes a page of a commit,
LEMMA WritePageKept ==
  ASSUME IInv, NEW b \in Nat, TInv(b), NEW i, PInv(i), NEW c \in Conns, WritePage(c)
  PROVE  PInv(i)'
<1> DEFINE g == pager[c]
           left == {q \in g.dirty : q <= g.dbSize}
           p == Min(left)
           h == Stored(g, p)
           cells == journal[g.jfd]
<1>1. /\ g.pc = "wdb" /\ g.spill = 0 /\ left # {} /\ db' = WriteDb(p, g.cache[p]) /\ Set(c, h)
      /\ UNCHANGED lockVars /\ mode' = mode /\ journal' = journal /\ dirent' = dirent
  BY DEF WritePage, lockVars
<1>2. PagerInv(g, lock[c]) /\ LogInv(g, cells) /\ g.eState = "dbmod"
  BY <1>1, WritingLogs
<1>3. g.dirty \subseteq Pages /\ g.needSync = {}
  BY <1>1, <1>2 DEF LogInv
<1>4. p \in g.dirty
  <2>1. left \subseteq Nat
    BY <1>3 DEF Pages
  <2> HIDE DEF left
  <2>2. Min(left) \in left
    BY <1>1, <2>1, MinOfNat
  <2>3. QED
    BY <2>2 DEF left
<1>5. g.cache[p] # NoPage /\ p \in Pages
  BY <1>1, <1>4, DirtyPage
<1> HIDE DEF p
<1> DEFINE y == g.cache[p]
<1>5a. y # NoPage /\ p \notin g.needSync
  BY <1>3, <1>5
<1> HIDE DEF y
<1>6. Paging(g, lock[c], i, b, cells, p, y)
  BY <1>1, <1>4, <1>5a, PageGoes
<1>6a. db' = WriteDb(p, y)
  BY <1>1 DEF y
<1>7. /\ h.eState = "dbmod" /\ h.pc = "wdb" /\ h.hot = FALSE /\ h.jfd = g.jfd /\ h.spill = 0
      /\ SameJournal(g, h) /\ h.off = g.off /\ h.nonce = g.nonce /\ h.nPage = g.nPage
      /\ h.dbSize = g.dbSize /\ h.inJournal = g.inJournal /\ h.commit = g.commit
      /\ h.dirty = g.dirty \ {p} /\ h.vers = IF p = 1 THEN g.cache[1] ELSE g.vers
      /\ h.cache = g.cache
  BY <1>1, <1>2, <1>6 DEF Stored, SameJournal, IsPager, Fields, Paging
<1>7a. y = g.cache[p]
  BY DEF y
<1> HIDE DEF g, h, cells
<1>8. g.commit
  BY <1>1, <1>6 DEF SyncK, Paging
<1>9. WriteK(h, i, db', cells, mode)
  <2>1. g.nPage \in 0..MaxPage /\ g.cache \in [Pages -> OnDisk] /\ g.pc # "failed" /\ h.pc # "failed"
    BY <1>1, <1>6, <1>7 DEF Paging, DataType
  <2>2. WriteK(h, i, WriteDb(p, g.cache[p]), cells, mode)
    BY <1>4, <1>5, <1>6, <1>7, <1>8, <2>1, WriteStored DEF Paging
  <2>3. QED
    BY <1>6a, <1>7a, <2>2
<1>10. LogK(h, i, db', cells)
  BY <1>6, <1>6a, <1>7, LogSame DEF Paging
<1>11. SyncK(h, i, db', cells, dirent)
  <2>1. h.pc = "wdb" /\ h.spill = 0 /\ g.spill = 0 /\ g.pc = "wdb" /\ SameJournal(g, h)
        /\ g.eState = "dbmod" /\ h.commit = g.commit
    BY <1>1, <1>2, <1>7
  <2> DEFINE d == WriteDb(p, y)
  <2>2. LogK(g, i, d, cells) /\ SyncK(g, i, db, cells, dirent)
    BY <1>6 DEF Paging
  <2> HIDE DEF d
  <2>3. IsMagic(cells[1].cur)
    BY <1>6 DEF Paging
  <2>4. QED
    BY <2>1, <2>2, <2>3, SyncGoes
<1>12. ConnK(h, lock[c], i, db', journal', dirent', mode)
  BY <1>1, <1>6, <1>7, <1>9, <1>10, <1>11, DbmodGoes DEF Paging, cells
<1>13. QED
  BY <1>1, <1>6, <1>6a, <1>12, WriterPromises DEF Paging, cells

\* or the one that leaves the cache;
LEMMA WriteSpilledKept ==
  ASSUME IInv, NEW b \in Nat, TInv(b), NEW i, PInv(i), NEW c \in Conns, WriteSpilled(c)
  PROVE  PInv(i)'
<1> DEFINE g == pager[c]
           p == g.spill
           h == [Stored(g, p) EXCEPT !.cache[p] = NoPage, !.spill = 0, !.pc = "idle"]
           cells == journal[g.jfd]
           y == g.cache[p]
<1>1. /\ g.pc = "wdb" /\ g.spill # 0 /\ db' = WriteDb(p, g.cache[p]) /\ Set(c, h)
      /\ UNCHANGED lockVars /\ mode' = mode /\ journal' = journal /\ dirent' = dirent
  BY DEF WriteSpilled, lockVars
<1>2. PagerInv(g, lock[c]) /\ LogInv(g, cells) /\ g.eState = "dbmod"
  BY <1>1, WritingLogs
<1>3. g.dirty \subseteq Pages /\ p \notin g.needSync /\ p \in g.dirty
  BY <1>1, <1>2 DEF LogInv
<1>5. g.cache[p] # NoPage /\ p \in Pages
  BY <1>1, <1>3, DirtyPage
<1> HIDE DEF y
<1>5a. y # NoPage
  BY <1>5 DEF y
<1>6. Paging(g, lock[c], i, b, cells, p, y)
  BY <1>1, <1>3, <1>5a, PageGoes
<1>6a. db' = WriteDb(p, y)
  BY <1>1 DEF y
<1>6b. Stored(g, p) = [g EXCEPT !.dirty = @ \ {p}, !.vers = IF p = 1 THEN g.cache[1] ELSE @]
  BY DEF Stored
<1>7. /\ h.eState = "dbmod" /\ h.pc = "idle" /\ h.hot = FALSE /\ h.jfd = g.jfd /\ h.spill = 0
      /\ SameJournal(g, h) /\ h.off = g.off /\ h.nonce = g.nonce /\ h.nPage = g.nPage
      /\ h.dbSize = g.dbSize /\ h.inJournal = g.inJournal /\ h.commit = g.commit
      /\ h.dirty = g.dirty \ {p} /\ h.vers = (IF p = 1 THEN g.cache[1] ELSE g.vers)
      /\ h.cache = [g.cache EXCEPT ![p] = NoPage]
  BY ZenonT(60), <1>1, <1>2, <1>6, <1>6b DEF SameJournal, IsPager, Fields, Paging
<1>7a. y = g.cache[p]
  BY DEF y
<1>7b. p = g.spill
  OBVIOUS
<1> HIDE DEF g, h, cells, p
<1>8. ~g.commit /\ p # 1
  BY <1>1, <1>6, <1>7b DEF SyncK, Paging
<1>9. WriteK(h, i, db', cells, mode)
  <2>1. g.nPage \in 0..MaxPage /\ g.cache \in [Pages -> OnDisk] /\ g.pc # "failed" /\ h.pc # "failed"
    BY <1>1, <1>6, <1>7 DEF Paging, DataType
  <2>2. WriteK(h, i, WriteDb(p, g.cache[p]), cells, mode)
    BY <1>3, <1>5, <1>6, <1>7, <1>8, <2>1, WriteStored DEF Paging
  <2>3. QED
    BY <1>6a, <1>7a, <2>2
<1>10. LogK(h, i, db', cells)
  BY <1>6, <1>6a, <1>7, LogSame DEF Paging
<1>11. SyncK(h, i, db', cells, dirent)
  <2>1. h.pc = "idle" /\ h.spill = 0 /\ g.spill # 0 /\ g.pc = "wdb" /\ SameJournal(g, h)
        /\ g.eState = "dbmod" /\ h.commit = g.commit
    BY <1>1, <1>2, <1>7
  <2> DEFINE d == WriteDb(p, y)
  <2>2. LogK(g, i, d, cells) /\ SyncK(g, i, db, cells, dirent)
    BY <1>6 DEF Paging
  <2> HIDE DEF d
  <2>3. IsMagic(cells[1].cur)
    BY <1>6 DEF Paging
  <2>4. QED
    BY <2>1, <2>2, <2>3, SyncGoes
<1>12. ConnK(h, lock[c], i, db', journal', dirent', mode)
  BY <1>1, <1>6, <1>7, <1>9, <1>10, <1>11, DbmodGoes DEF Paging, cells
<1>13. QED
  BY <1>1, <1>6, <1>6a, <1>12, WriterPromises DEF Paging, cells

\* What the pager of a transaction relies on while it changes pages.
LEMMA ActiveHas ==
  ASSUME IInv, NEW b \in Nat, TInv(b), NEW i, PInv(i), NEW c \in Conns,
         pager[c].eState = "cachemod" \/ pager[c].eState = "dbmod", Active(pager[c])
  PROVE  LET g == pager[c]
             cells == journal[g.jfd]
         IN /\ IsPager(g) /\ PagerInv(g, lock[c]) /\ g.hot = FALSE /\ g.jfd # 0 /\ g.jfd \in Inodes
            /\ dirent.cur = g.jfd /\ IsImage(i) /\ DbType(db) /\ DataType(g, b)
            /\ cells = [s \in Slots |-> cells[s]] /\ JournalType(cells, b)
            /\ LogK(g, i, db, cells) /\ WriteK(g, i, db, cells, mode) /\ SyncK(g, i, db, cells, dirent)
            /\ TrustK(g, lock[c], i, db, journal, dirent)
            /\ FilesK(i, db, journal, dirent, mode)
<1> DEFINE g == pager[c]
           cells == journal[g.jfd]
<1>1. PagerInv(g, lock[c])
  BY DEF IInv
<1>3. DbType(db) /\ DataType(g, b)
  BY DEF TInv
<1>4. IsImage(i) /\ ConnK(g, lock[c], i, db, journal, dirent, mode) /\ FilesK(i, db, journal, dirent, mode)
  BY DEF PInv
<1> HIDE DEF g, cells
<1>5. Active(g) /\ (g.eState = "cachemod" \/ g.eState = "dbmod")
  BY DEF g
<1>6. g.pc # "end" /\ g.pc # "hotsync"
  BY <1>5 DEF Active, LoggingPcs
<1>2. IsPager(g) /\ g.hot = FALSE /\ g.jfd # 0 /\ g.jfd \in 0..MaxInode
  BY <1>1, <1>5, <1>6 DEF IsPager, PagerInv, HotInv, JournalInv
<1>7. WriterK(g, lock[c], i, db, journal, dirent, mode)
  BY <1>2, <1>4, <1>5, <1>6, WriterIs
<1>8. dirent.cur = g.jfd /\ LogK(g, i, db, cells) /\ WriteK(g, i, db, cells, mode)
      /\ SyncK(g, i, db, cells, dirent) /\ TrustK(g, lock[c], i, db, journal, dirent)
  BY <1>5, <1>6, <1>7 DEF WriterK, OwnK, cells
<1>9. g.jfd \in Inodes /\ cells = [s \in Slots |-> cells[s]] /\ JournalType(cells, b)
  BY <1>2, JournalOf DEF cells
<1>10. QED
  BY <1>1, <1>2, <1>3, <1>4, <1>8, <1>9 DEF g, cells

\* after the pages of a commit the file is as long as the image.
LEMMA GrowKept ==
  ASSUME IInv, NEW b \in Nat, TInv(b), NEW i, PInv(i), NEW c \in Conns, Grow(c)
  PROVE  PInv(i)'
<1> DEFINE g == pager[c]
           left == {q \in g.dirty : q <= g.dbSize}
           h == [g EXCEPT !.dirty = {}, !.pc = "dbsync"]
           cells == journal[g.jfd]
<1>1. /\ g.pc = "wdb" /\ g.spill = 0 /\ left = {} /\ Set(c, h)
      /\ db' = (IF g.dbSize > DbSize THEN TruncateDb(g.dbSize) ELSE db)
      /\ UNCHANGED lockVars /\ mode' = mode /\ journal' = journal /\ dirent' = dirent
  BY DEF Grow, lockVars
<1>2. PagerInv(g, lock[c]) /\ LogInv(g, cells) /\ g.eState = "dbmod" /\ lock[c] = EXCLUSIVE_LOCK
  BY <1>1, WritingLogs
<1>3. Active(g)
  BY <1>1, <1>2 DEF Active, LoggingPcs
<1>4. /\ IsPager(g) /\ g.hot = FALSE /\ g.jfd # 0 /\ dirent.cur = g.jfd
      /\ IsImage(i) /\ DbType(db) /\ DataType(g, b)
      /\ LogK(g, i, db, cells) /\ WriteK(g, i, db, cells, mode) /\ SyncK(g, i, db, cells, dirent)
  BY <1>2, <1>3, ActiveHas
<1>5. g.commit /\ g.nPage = g.dbSize /\ g.nPage > 0 /\ g.nPage \in 0..MaxPage
  BY <1>1, <1>4 DEF SyncK, WriteK, DataType
<1>6. \A q \in 1..g.nPage : q \notin g.dirty /\ q \in Pages
  BY <1>1, <1>5, Bounds DEF Pages
<1>7. g.nPage \in Pages /\ db[g.nPage].cur # NoPage
  <2>1. g.nPage \in 1..g.nPage
    BY <1>5
  <2>2. db[g.nPage].cur \in PageContents
    BY <1>4, <1>6, <2>1 DEF WriteK
  <2>3. QED
    BY <1>6, <2>1, <2>2, Contents
<1>8. ~(g.dbSize > DbSize)
  BY <1>4, <1>5, <1>7, SizeIs DEF Pages
<1>9. db' = db
  BY <1>1, <1>8
<1>10. /\ h.eState = "dbmod" /\ h.pc = "dbsync" /\ h.hot = FALSE /\ h.jfd = g.jfd /\ h.spill = 0
       /\ SameJournal(g, h) /\ h.off = g.off /\ h.nonce = g.nonce /\ h.nPage = g.nPage
       /\ h.dbSize = g.dbSize /\ h.inJournal = g.inJournal /\ h.commit = g.commit
       /\ h.dirty = {} /\ h.vers = g.vers /\ h.cache = g.cache
  BY <1>1, <1>2, <1>4 DEF SameJournal, IsPager, Fields
<1> HIDE DEF g, h, cells, left
<1>11. WriteK(h, i, db, cells, mode)
  <2>1. End(h) = End(g)
    BY <1>10, LogSame
  <2>2. 1 \notin g.dirty
    BY <1>5, <1>6
  <2>3. \A q \in 1..h.nPage :
          /\ h.cache[q] # NoPage => h.cache[q] \in PageContents
          /\ q \notin h.dirty => db[q].cur \in PageContents /\ h.cache[q] \in {NoPage, db[q].cur}
    BY <1>4, <1>6, <1>10 DEF WriteK
  <2>4. h.commit =>
         /\ h.cache[1] \in HeaderPages /\ h.cache[1].nPage = h.nPage /\ h.nPage = h.dbSize
         /\ Len(i) # 0 => h.cache[1].ver > i[1].ver
         /\ h.pc # "failed" /\ 1 \notin h.dirty => h.vers = h.cache[1]
    BY <1>1, <1>4, <1>10, <2>2 DEF WriteK
  <2>5. h.commit = TRUE
    BY <1>2, <1>5, <1>10 DEF PagerInv, CommitInv
  <2>6. QED
    BY <1>4, <1>10, <2>1, <2>3, <2>4, <2>5 DEF WriteK, SameJournal
<1>12. LogK(h, i, db, cells)
  BY <1>4, <1>10, LogSame
<1>13. SyncK(h, i, db, cells, dirent)
  <2>1. IsMagic(cells[1].cur)
    BY <1>2, <1>4 DEF LogK
  <2>2. QED
    BY <1>1, <1>2, <1>4, <1>10, <2>1, SyncGoes
<1>14. ConnK(h, lock[c], i, db, journal, dirent, mode)
  BY <1>2, <1>4, <1>5, <1>10, <1>11, <1>12, <1>13, DbmodGoes DEF cells
<1>15. [LockNext]_lockVars /\ (\A d \in Others(c) : lock'[d] = lock[d]) /\ lock'[c] = lock[c]
  BY <1>1, SameLocks DEF Others
<1>16. QED
  BY <1>1, <1>5, <1>9, <1>14, <1>15, PagerPromises DEF g, Cutting

USE DEF NO_LOCK, SHARED_LOCK, RESERVED_LOCK, PENDING_LOCK, EXCLUSIVE_LOCK

\* A connection in the error state.
LEMMA ErrorIs ==
  ASSUME NEW h, h.eState = "error", h.pc = "idle", h.hot = FALSE,
         NEW l, NEW i, NEW d, NEW j, NEW name, NEW m,
         RESERVED_LOCK <= l /\ l < EXCLUSIVE_LOCK => Quiet(d, i) /\ Cold(d, j, name)
  PROVE  ConnK(h, l, i, d, j, name, m)
<1>1. TrustK(h, l, i, d, j, name)
  BY DEF TrustK, Trusts, Cools
<1>2. CacheK(h, i) /\ ReadK(h, i) /\ JfdK(h, i, name, m)
  BY DEF CacheK, ReadK, JfdK
<1>3. OwnK(h, i, d, j[h.jfd], name, m) /\ HotK(h, i, d, j[h.jfd])
  BY DEF OwnK, Active, Playing, Undoes, HotK
<1>4. QED
  BY <1>1, <1>2, <1>3 DEF ConnK

\* A commit has failed and is to be rolled back.
LEMMA FailedGoes ==
  ASSUME NEW g, NEW h, IsPager(g), h = [g EXCEPT !.pc = "failed"],
         g.eState = "cachemod" \/ g.eState = "dbmod", g.hot = FALSE,
         NEW l, NEW i, NEW d, NEW d2, NEW j, NEW name, NEW m,
         name.cur = g.jfd, LogK(g, i, d, j[g.jfd]), WriteK(g, i, d, j[g.jfd], m),
         SyncK(g, i, d2, j[g.jfd], name),
         (RESERVED_LOCK <= l /\ l < EXCLUSIVE_LOCK) \/ g.eState = "cachemod" =>
           TrustK(g, l, i, d, j, name) /\ g.eState = "cachemod"
  PROVE  ConnK(h, l, i, d, j, name, m)
<1>1. /\ h.eState = g.eState /\ h.pc = "failed" /\ h.hot = FALSE /\ h.jfd = g.jfd
      /\ SameWrites(g, h) /\ h.spill = g.spill /\ h.commit = g.commit
  BY DEF SameWrites, SameJournal, IsPager, Fields
<1>2. TrustK(h, l, i, d, j, name)
  BY <1>1 DEF TrustK, Trusts, Cools
<1>3. LogK(h, i, d, j[g.jfd]) /\ WriteK(h, i, d, j[g.jfd], m)
  BY <1>1, LogSame, WriteSame DEF SameWrites
<1>4. SyncK(h, i, d, j[g.jfd], name)
  BY <1>1 DEF SyncK
<1>5. ~Playing(h) /\ ~Undoes(h)
  BY <1>1 DEF Playing, Undoes
<1>6. OwnK(h, i, d, j[h.jfd], name, m)
  BY <1>1, <1>3, <1>4, <1>5 DEF OwnK
<1>7. WriterK(h, l, i, d, j, name, m)
  BY <1>1, <1>2, <1>6 DEF WriterK
<1>8. QED
  BY <1>1, <1>7, WriterIs

\* A write of a page fails that may have been done in part.
LEMMA TornKept ==
  ASSUME IInv, NEW b \in Nat, TInv(b), NEW i, PInv(i), NEW c \in Conns, pager[c].pc = "wdb",
         NEW p, p \in pager[c].dirty, p \notin pager[c].needSync, db' = WriteDb(p, Torn),
         UNCHANGED <<mode, journal, dirent>>, UNCHANGED lockVars,
         NEW h, Set(c, h),
         IF pager[c].commit THEN h = [pager[c] EXCEPT !.pc = "failed"]
         ELSE h = [pager[c] EXCEPT !.eState = "error", !.pc = "idle"]
  PROVE  PInv(i)'
<1> DEFINE g == pager[c]
           cells == journal[g.jfd]
           d == WriteDb(p, Torn)
<1>1. Torn # NoPage
  BY Contents
<1>2. Paging(g, lock[c], i, b, cells, p, Torn)
  BY <1>1, PageGoes
<1>3. /\ IsPager(g) /\ PagerInv(g, lock[c]) /\ lock[c] = EXCLUSIVE_LOCK /\ g.eState = "dbmod"
      /\ g.hot = FALSE /\ g.jfd # 0 /\ dirent.cur = g.jfd /\ dirent.may = {g.jfd}
      /\ IsImage(i) /\ DbType(db) /\ DataType(g, b) /\ p \in Pages
      /\ p <= Len(i) => p \in g.inJournal
      /\ IsStable(cells[1]) /\ IsMagic(cells[1].cur)
      /\ Covered(cells, cells[1].cur, i, d, g.hdr)
      /\ LogK(g, i, d, cells)
      /\ WriteK(g, i, db, cells, mode) /\ SyncK(g, i, db, cells, dirent)
      /\ d[1].cur # NoPage
  BY <1>2 DEF Paging
<1>4. g.commit \in BOOLEAN /\ p \in g.dirty
  BY <1>3 DEF PagerInv, CommitInv
<1>5. /\ g.commit => h = [g EXCEPT !.pc = "failed"]
      /\ ~g.commit => h = [g EXCEPT !.eState = "error", !.pc = "idle"]
  OBVIOUS
<1>6. db' = d
  OBVIOUS
<1> HIDE DEF g, cells, d
<1>7. ConnK(h, lock[c], i, d, journal, dirent, mode)
  <2>1. CASE g.commit
    <3>1. g.nPage \in 0..MaxPage
      BY <1>3 DEF DataType
    <3>2. WriteK(g, i, d, cells, mode)
      BY <1>3, <1>4, <3>1, WriteTorn DEF d
    <3>3. ~((RESERVED_LOCK <= lock[c] /\ lock[c] < EXCLUSIVE_LOCK) \/ g.eState = "cachemod")
      BY <1>3
    <3>4. QED
      BY <1>3, <1>5, <2>1, <3>2, <3>3, FailedGoes DEF cells
  <2>2. CASE ~g.commit
    <3>1. h.eState = "error" /\ h.pc = "idle" /\ h.hot = FALSE
      BY <1>3, <1>5, <2>2 DEF IsPager, Fields
    <3>2. ~(lock[c] < EXCLUSIVE_LOCK)
      BY <1>3
    <3>3. QED
      BY <3>1, <3>2, ErrorIs
  <2>3. QED
    BY <2>1, <2>2
<1>8. QED
  BY <1>3, <1>6, <1>7, WriterPromises DEF cells

\* A call fails in the middle of a transaction; the files stay as they are.
LEMMA FailKept ==
  ASSUME IInv, NEW b \in Nat, TInv(b), NEW i, PInv(i), NEW c \in Conns,
         pager[c].pc \in {"jsync", "jhdr", "jsync2", "wdb", "dbsync", "play", "record", "final"},
         pager[c].eState # "locked", ~Exposed(pager[c]), ~pager[c].hot,
         UNCHANGED <<mode, db, journal, dirent>>, NEW h, Set(c, h),
         \/ /\ pager[c].commit /\ pager[c].eState \in {"cachemod", "dbmod"}
            /\ h = [pager[c] EXCEPT !.pc = "failed"] /\ UNCHANGED lockVars
         \/ /\ ~(pager[c].commit /\ pager[c].eState \in {"cachemod", "dbmod"})
            /\ h = [pager[c] EXCEPT !.eState = "error", !.pc = "idle"]
            /\ IF pager[c].pc = "final" THEN Unlock(c, SHARED_LOCK) ELSE UNCHANGED lockVars
  PROVE  PInv(i)'
<1> DEFINE g == pager[c]
           cells == journal[g.jfd]
<1>1. PagerInv(g, lock[c]) /\ IsPager(g) /\ LockTypeOK
  BY DEF IInv, PagerInv, IsPager
<1>2. /\ g.pc \in {"jsync", "jhdr", "jsync2", "wdb", "dbsync", "play", "record", "final"}
      /\ g.eState # "locked" /\ ~Exposed(g) /\ ~g.hot
  OBVIOUS
<1>3. IsImage(i) /\ ConnK(g, lock[c], i, db, journal, dirent, mode)
  BY DEF PInv
<1>4. \/ /\ g.commit /\ g.eState \in {"cachemod", "dbmod"}
         /\ h = [g EXCEPT !.pc = "failed"] /\ UNCHANGED lockVars
      \/ /\ ~(g.commit /\ g.eState \in {"cachemod", "dbmod"})
         /\ h = [g EXCEPT !.eState = "error", !.pc = "idle"]
         /\ IF g.pc = "final" THEN Unlock(c, SHARED_LOCK) ELSE UNCHANGED lockVars
  OBVIOUS
<1>5. HeaderType(g, cells, b)
  BY DEF TInv
<1>6. ASSUME g.commit, g.eState = "cachemod" \/ g.eState = "dbmod"
      PROVE  Active(g)
  <2>1. g.pc # "play" /\ g.pc # "record" /\ g.pc # "final"
    BY <1>5, <1>6 DEF HeaderType, InUndo
  <2>2. g.pc = "dbsync" => g.eState = "dbmod"
    BY <1>1, <1>6 DEF PagerInv, StateInv, CommitPcs, PlayPcs
  <2>3. QED
    BY <1>2, <1>6, <2>1, <2>2 DEF Active, LoggingPcs
<1>7. g.eState = "cachemod" \/ g.eState = "dbmod" \/ (g.eState = "finished" /\ g.pc = "final")
  BY <1>1, <1>2 DEF PagerInv, StateInv, HotInv, ReadPcs, PlayPcs
<1>8. [LockNext]_lockVars /\ (\A d \in Others(c) : lock'[d] = lock[d])
      /\ (lock'[c] = lock[c] \/ (lock'[c] = SHARED_LOCK /\ g.pc = "final"))
  <2>1. CASE UNCHANGED lockVars
    BY <2>1, SameLocks DEF Others
  <2>2. CASE Unlock(c, SHARED_LOCK) /\ g.pc = "final"
    BY <1>1, <2>2, LockGiven
  <2>3. QED
    BY <1>4, <2>1, <2>2
<1>9. ~Cutting(g, lock[c]) /\ g.pc # "finsync"
  BY <1>2 DEF Cutting, Exposed
<1>10. ConnK(h, lock'[c], i, db, journal, dirent, mode)
  <2>1. CASE g.commit /\ (g.eState = "cachemod" \/ g.eState = "dbmod")
    <3>1. /\ g.hot = FALSE /\ g.jfd # 0 /\ dirent.cur = g.jfd
          /\ LogK(g, i, db, cells) /\ WriteK(g, i, db, cells, mode) /\ SyncK(g, i, db, cells, dirent)
          /\ TrustK(g, lock[c], i, db, journal, dirent)
      BY <1>6, <2>1, ActiveHas
    <3>2. h = [g EXCEPT !.pc = "failed"] /\ lock'[c] = lock[c]
      BY <1>4, <2>1 DEF lockVars
    <3>3. RESERVED_LOCK <= lock[c] /\ lock[c] < EXCLUSIVE_LOCK => g.eState = "cachemod"
      BY SMTT(60), <1>1, <1>7, <2>1 DEF PagerInv, StateInv
    <3> HIDE DEF g
    <3>4. QED
      BY <1>1, <2>1, <3>1, <3>2, <3>3, FailedGoes DEF cells
  <2>2. CASE ~(g.commit /\ (g.eState = "cachemod" \/ g.eState = "dbmod"))
    <3>1. h.eState = "error" /\ h.pc = "idle" /\ h.hot = FALSE
      BY <1>1, <1>2, <1>4, <2>2 DEF IsPager, Fields, PagerInv, HotInv
    <3>2. RESERVED_LOCK <= lock'[c] /\ lock'[c] < EXCLUSIVE_LOCK =>
            lock'[c] = lock[c] /\ g.eState = "cachemod"
      BY <1>1, <1>7, <1>8 DEF PagerInv, StateInv
    <3>3. RESERVED_LOCK <= lock'[c] /\ lock'[c] < EXCLUSIVE_LOCK =>
            Quiet(db, i) /\ Cold(db, journal, dirent)
      <4> HIDE DEF g
      <4>1. TrustK(g, lock[c], i, db, journal, dirent)
        BY <1>3 DEF ConnK
      <4>2. QED
        BY <3>2, <4>1 DEF TrustK, Trusts, Cools
    <3>4. QED
      BY <3>1, <3>3, ErrorIs
  <2>3. QED
    BY <2>1, <2>2
<1>11. QED
  BY <1>8, <1>9, <1>10, PagerPromises

\* A system call fails.
LEMMA IoErrorKept ==
  ASSUME ~DoubleFault, IInv, NEW b \in Nat, TInv(b), NEW i, PInv(i), NEW c \in Conns, IoError(c)
  PROVE  PInv(i)'
<1> DEFINE g == pager[c]
           committing == g.commit /\ g.eState \in {"cachemod", "dbmod"}
           left == {p \in g.dirty : p <= g.dbSize}
           target == IF g.spill # 0 THEN g.spill ELSE Min(left)
<1>0. ~(g.hot /\ committing)
  BY DEF IInv, PagerInv, HotInv
<1>1. /\ g.pc \in {"jsync", "jhdr", "jsync2", "wdb", "dbsync", "play", "record", "final", "finsync"}
      /\ g.eState # "locked" /\ ~Exposed(g)
      /\ UNCHANGED <<mode, journal, dirent>>
      /\ db' = db \/ (g.pc = "wdb" /\ left # {} /\ db' = WriteDb(target, Torn))
      /\ \/ g.hot /\ Unlock(c, NO_LOCK) /\ Set(c, Unlocked(g, TRUE))
         \/ /\ ~g.hot /\ committing /\ Set(c, [g EXCEPT !.pc = "failed"]) /\ UNCHANGED lockVars
         \/ /\ ~g.hot /\ ~committing /\ Set(c, [g EXCEPT !.eState = "error", !.pc = "idle"])
            /\ IF g.pc \in {"final", "finsync"} THEN Unlock(c, SHARED_LOCK) ELSE UNCHANGED lockVars
  <2>1. /\ g.pc \in {"jsync", "jhdr", "jsync2", "wdb", "dbsync", "play", "record", "final", "finsync"}
        /\ g.eState # "locked" /\ (DoubleFault \/ ~Exposed(g))
        /\ UNCHANGED <<mode, journal, dirent>>
        /\ db' = db \/ (g.pc = "wdb" /\ left # {} /\ db' = WriteDb(target, Torn))
    BY DEF IoError
  <2>2. (CASE g.hot -> Unlock(c, NO_LOCK) /\ Set(c, Unlocked(g, TRUE))
          [] committing -> Set(c, [g EXCEPT !.pc = "failed"]) /\ UNCHANGED lockVars
          [] OTHER -> /\ Set(c, [g EXCEPT !.eState = "error", !.pc = "idle"])
                      /\ IF g.pc \in {"final", "finsync"} THEN Unlock(c, SHARED_LOCK) ELSE UNCHANGED lockVars)
    BY DEF IoError, Goto
  <2> HIDE DEF committing
  <2>3. QED
    BY <1>0, <2>1, <2>2
<1>2. g.pc # "finsync"
  BY <1>1 DEF Exposed
<1>3. PagerInv(g, lock[c]) /\ IsPager(g) /\ LockTypeOK
  BY DEF IInv, PagerInv, IsPager
<1>4. CASE g.hot
  <2>1. g.pc # "wdb"
    BY <1>3, <1>4 DEF PagerInv, HotInv, PlayPcs
  <2>2. db' = db
    BY <1>1, <2>1
  <2>3. Unlock(c, NO_LOCK) /\ Set(c, Unlocked(g, TRUE))
    BY <1>1, <1>4
  <2>4. [LockNext]_lockVars /\ \A d \in Others(c) : lock'[d] = lock[d]
    BY <1>3, <2>3, LockGiven
  <2> DEFINE h == Unlocked(g, TRUE)
  <2>5. h.eState = "open" /\ h.pc = "idle" /\ h.hot = FALSE /\ h.jfd = 0 /\ h.cache = NoCache
    BY <1>3, UnlockedFields DEF IsPager
  <2> HIDE DEF h
  <2>6. CacheK(h, i)
    BY <2>5, NothingIsKept
  <2>7. UNCHANGED <<mode, files>>
    BY <1>1, <2>2 DEF files
  <2>8. Set(c, h)
    BY <2>3 DEF h
  <2>9. QED
    BY <1>1, <2>4, <2>5, <2>6, <2>7, <2>8, UnlockKept
<1>5. CASE ~g.hot /\ db' = db
  <2>1. PICK h : /\ Set(c, h)
                 /\ \/ committing /\ h = [g EXCEPT !.pc = "failed"] /\ UNCHANGED lockVars
                    \/ /\ ~committing /\ h = [g EXCEPT !.eState = "error", !.pc = "idle"]
                       /\ IF g.pc = "final" THEN Unlock(c, SHARED_LOCK) ELSE UNCHANGED lockVars
    BY <1>1, <1>2, <1>5
  <2>2. g.pc \in {"jsync", "jhdr", "jsync2", "wdb", "dbsync", "play", "record", "final"}
    BY <1>1, <1>2
  <2>3. QED
    BY <1>1, <1>5, <2>1, <2>2, FailKept
<1>6. CASE ~g.hot /\ db' # db
  <2>1. g.pc = "wdb" /\ left # {} /\ db' = WriteDb(target, Torn)
    BY <1>1, <1>6
  <2>2. LogInv(g, journal[g.jfd]) /\ g.eState = "dbmod"
    BY <2>1, WritingLogs
  <2>3. target \in g.dirty /\ target \notin g.needSync
    <3>1. CASE g.spill # 0
      BY <2>1, <2>2, <3>1 DEF LogInv
    <3>2. CASE g.spill = 0
      <4>1. left \subseteq Nat /\ g.needSync = {}
        BY <2>1, <2>2, <3>2 DEF LogInv, Pages
      <4> HIDE DEF left
      <4>2. Min(left) \in left
        BY <2>1, <4>1, MinOfNat
      <4>3. QED
        BY <3>2, <4>1, <4>2 DEF left
    <3>3. QED
      BY <3>1, <3>2
  <2>4. PICK h : /\ Set(c, h) /\ UNCHANGED lockVars
                 /\ IF g.commit THEN h = [g EXCEPT !.pc = "failed"]
                    ELSE h = [g EXCEPT !.eState = "error", !.pc = "idle"]
    BY <1>1, <1>6, <2>1, <2>2
  <2> HIDE DEF target
  <2>5. QED
    BY <1>1, <2>1, <2>3, <2>4, TornKept
<1>7. QED
  BY <1>4, <1>5, <1>6

-----------------------------------------------------------------------------
\* The database file is synced.
LEMMA SyncedPages ==
  ASSUME NEW d, DbType(d)
  PROVE  /\ \A p \in Pages : Sync(d)[p] = Stable(d[p].cur) /\ Sync(d)[p].cur = d[p].cur
         /\ \A p \in Pages : \A x : d[p] = Stable(x) => Sync(d)[p] = Stable(x)
         /\ NoPage \notin d[1].may => NoPage \notin Sync(d)[1].may
<1>1. d = [p \in Pages |-> d[p]] /\ 1 \in Pages
  BY Bounds DEF DbType, Pages
<1>2. \A p \in Pages : Sync(d)[p] = Stable(d[p].cur)
  BY <1>1 DEF Sync
<1>3. d[1].cur \in d[1].may
  BY <1>1 DEF DbType, CellOf
<1>7. \A x : Stable(x).cur = x /\ Stable(x).may = {x}
  BY DEF Stable
<1>4. \A p \in Pages : Sync(d)[p].cur = d[p].cur
  BY <1>2, <1>7
<1>5. \A p \in Pages : \A x : d[p] = Stable(x) => Sync(d)[p] = Stable(x)
  <2> TAKE p \in Pages
  <2> TAKE x
  <2>1. Sync(d)[p] = Stable(d[p].cur)
    BY <1>2
  <2>2. d[p] = Stable(x) => d[p].cur = x
    BY DEF Stable
  <2>3. QED
    BY <2>1, <2>2
<1>6. NoPage \notin d[1].may => NoPage \notin Sync(d)[1].may
  <2>1. Sync(d)[1].may = {d[1].cur}
    BY <1>1, <1>2, <1>7
  <2>2. QED
    BY <1>3, <2>1
<1>8. QED
  BY <1>2, <1>4, <1>5, <1>6

\* What covered an image, or held it, does so.
LEMMA CoveredSync ==
  ASSUME NEW d, DbType(d), NEW i, IsImage(i)
  PROVE  /\ \A cells, x, n : Covered(cells, x, i, d, n) => Covered(cells, x, i, Sync(d), n)
         /\ Quiet(d, i) => Quiet(Sync(d), i)
         /\ EmptyDb(d) => EmptyDb(Sync(d))
<1> DEFINE e == Sync(d)
<1>1. /\ \A p \in Pages : \A x : d[p] = Stable(x) => e[p] = Stable(x)
      /\ NoPage \notin d[1].may => NoPage \notin e[1].may
  BY SyncedPages
<1> HIDE DEF e
<1>2. \A p \in 1..Len(i) : p \in Pages
  BY ImageIs
<1>3. EmptyDb(d) => EmptyDb(e)
  BY <1>1 DEF EmptyDb
<1>4. Quiet(d, i) => Quiet(e, i)
  BY <1>1, <1>2, <1>3 DEF Quiet
<1>5. ASSUME NEW cells, NEW x, NEW n, Covered(cells, x, i, d, n)
      PROVE  Covered(cells, x, i, e, n)
  <2>1. \A p \in 1..Len(i) : e[p] = Stable(i[p]) \/ Recs(cells, p, 2, n - 1)
    BY <1>1, <1>2, <1>5 DEF Covered
  <2>2. Len(i) # 0 => NoPage \notin e[1].may
    BY <1>1, <1>5 DEF Covered
  <2>3. QED
    BY <1>5, <2>1, <2>2 DEF Covered
<1>6. QED
  BY <1>3, <1>4, <1>5 DEF e

\* The files after a sync of the journal.
LEMMA FilesSync ==
  ASSUME NEW d, DbType(d), NEW i, IsImage(i), NEW j, NEW name, NEW m, FilesK(i, d, j, name, m)
  PROVE  FilesK(i, Sync(d), j, name, m)
<1> DEFINE e == Sync(d)
<1>1. /\ \A u, cells, x, n : IsImage(u) /\ Covered(cells, x, u, d, n) => Covered(cells, x, u, e, n)
      /\ Quiet(d, i) => Quiet(e, i)
      /\ EmptyDb(d) => EmptyDb(e)
  BY CoveredSync
<1> HIDE DEF e
<1>2. \A cells, x : Revives(cells, x, i, d, m) => Revives(cells, x, i, e, m)
  BY <1>1 DEF Revives
<1>3. \A k : NamedK(k, i, d, j, m) => NamedK(k, i, e, j, m)
  BY <1>1, <1>2 DEF NamedK
<1>4. FilesK(i, e, j, name, m)
  <2>1. \A k \in name.may : NamedK(k, i, e, j, m)
    BY <1>3 DEF FilesK
  <2>2. name.cur # 0 =>
          /\ (\E x \in j[name.cur][1].may : IsMagic(x)) => name.may = {name.cur}
          /\ IsMagic(j[name.cur][1].cur) =>
               \/ Len(i) = 0 /\ EmptyDb(e)
               \/ \E n : Covered(j[name.cur], j[name.cur][1].cur, i, e, n)
    BY <1>1 DEF FilesK
  <2>3. \/ Quiet(e, i)
        \/ name.cur # 0 /\ IsStable(j[name.cur][1]) /\ IsMagic(j[name.cur][1].cur)
    BY <1>1 DEF FilesK
  <2>4. QED
    BY <2>1, <2>2, <2>3 DEF FilesK
<1>5. QED
  BY <1>4 DEF e

\* The open segment of a pager that writes behind the same header.
LEMMA SegmentSame ==
  ASSUME NEW g, NEW h, h.orig = g.orig, h.hdr = g.hdr, h.header = g.header, h.nRec = g.nRec,
         NEW i, NEW cells, OpenSegment(g, i, cells)
  PROVE  OpenSegment(h, i, cells)
<1>1. End(h) = End(g)
  BY DEF End
<1>2. QED
  BY <1>1 DEF OpenSegment

\* The file is synced after a commit has written it.
LEMMA CommitSynced ==
  ASSUME NEW g, NEW h, IsPager(g), h = [g EXCEPT !.eState = "finished", !.pc = "final"],
         g.eState = "dbmod", g.pc = "dbsync", g.commit = TRUE, g.hot = FALSE, g.nPage \in 0..MaxPage,
         NEW i, IsImage(i), NEW d, DbType(d), NEW j, NEW name, NEW m, name.cur = g.jfd,
         LogK(g, i, d, j[g.jfd]), WriteK(g, i, d, j[g.jfd], m), SyncK(g, i, d, j[g.jfd], name)
  PROVE  ConnK(h, EXCLUSIVE_LOCK, i, Sync(d), j, name, m)
<1> DEFINE e == Sync(d)
<1>0. /\ h.eState = "finished" /\ h.pc = "final" /\ h.hot = FALSE /\ h.jfd = g.jfd /\ h.commit = TRUE
      /\ h.spill = g.spill /\ h.orig = g.orig /\ h.hdr = g.hdr /\ h.header = g.header /\ h.nRec = g.nRec
      /\ h.off = g.off /\ h.nonce = g.nonce /\ h.nPage = g.nPage /\ h.dbSize = g.dbSize
      /\ h.cache = g.cache /\ h.vers = g.vers /\ h.dirty = g.dirty /\ h.inJournal = g.inJournal
  BY DEF IsPager, Fields
<1>1. /\ \A p \in Pages : e[p] = Stable(d[p].cur) /\ e[p].cur = d[p].cur
      /\ \A p \in Pages : \A x : d[p] = Stable(x) => e[p] = Stable(x)
  BY SyncedPages
<1>2. \A cells, x, n : Covered(cells, x, i, d, n) => Covered(cells, x, i, e, n)
  BY CoveredSync
<1> HIDE DEF e
<1>3. End(h) = End(g)
  BY <1>0 DEF End
<1> DEFINE cells == j[g.jfd]
<1>4. LogK(h, i, e, cells)
  <2>1. IsStable(cells[1]) /\ IsMagic(cells[1].cur) /\ Covered(cells, cells[1].cur, i, e, h.hdr)
    BY <1>0, <1>2 DEF LogK
  <2>2. IF h.header THEN OpenSegment(h, i, cells) ELSE NoMagic(cells, h.hdr)
    <3>0. h.orig = g.orig /\ h.hdr = g.hdr /\ h.header = g.header /\ h.nRec = g.nRec
      BY <1>0
    <3> HIDE DEF cells
    <3>1. ASSUME OpenSegment(g, i, cells)
          PROVE  OpenSegment(h, i, cells)
      BY <3>0, <3>1, SegmentSame
    <3>2. IF g.header THEN OpenSegment(g, i, cells) ELSE NoMagic(cells, g.hdr)
      BY DEF LogK, cells
    <3>3. QED
      BY <1>0, <3>1, <3>2
  <2>3. QED
    BY <1>0, <1>3, <2>1, <2>2 DEF LogK
<1>5. \A p : p \in 1..Len(i) \/ p \in 1..g.nPage => p \in Pages
  BY ImageIs, Bounds DEF Pages
<1>6. WriteK(h, i, e, cells, m)
  <2>1. \A p \in 1..Len(i) : p \notin h.inJournal =>
          e[p] = Stable(i[p]) /\ (h.cache[p] # NoPage => h.cache[p] = i[p])
    BY <1>0, <1>1, <1>5 DEF WriteK
  <2>2. \A p \in 1..h.nPage :
          /\ h.cache[p] # NoPage => h.cache[p] \in PageContents
          /\ p \notin h.dirty => e[p].cur \in PageContents /\ h.cache[p] \in {NoPage, e[p].cur}
    BY <1>0, <1>1, <1>5 DEF WriteK
  <2>3. h.commit =>
       /\ h.cache[1] \in HeaderPages /\ h.cache[1].nPage = h.nPage /\ h.nPage = h.dbSize
       /\ Len(i) # 0 => h.cache[1].ver > i[1].ver
       /\ h.pc # "failed" /\ 1 \notin h.dirty => h.vers = h.cache[1]
    BY <1>0 DEF WriteK
  <2>4. QED
    BY <1>0, <1>3, <2>1, <2>2, <2>3 DEF WriteK
<1>7. SyncK(h, i, e, cells, name)
  <2>1. IsMagic(cells[1].cur)
    BY DEF LogK
  <2>2. h.header => NoMagic(cells, h.hdr)
    BY <1>0, <2>1 DEF SyncK
  <2>3. \A p \in 1..h.nPage : p \notin h.dirty /\ IsStable(e[p])
    BY <1>0, <1>1, <1>5 DEF SyncK, IsStable
  <2>4. h.spill = 0 /\ h.spill # 1
    BY <1>0 DEF SyncK
  <2>5. QED
    BY <1>0, <2>2, <2>3, <2>4 DEF SyncK
<1>8. OwnK(h, i, e, j[h.jfd], name, m)
  BY <1>0, <1>4, <1>6, <1>7 DEF OwnK, Playing, Undoes
<1>9. TrustK(h, EXCLUSIVE_LOCK, i, e, j, name) /\ CacheK(h, i) /\ HotK(h, i, e, j[h.jfd])
  BY <1>0 DEF TrustK, Trusts, Cools, CacheK, HotK
<1>10. ReadK(h, i) /\ JfdK(h, i, name, m)
  <2>1. g.dbSize = g.nPage
    BY DEF WriteK
  <2>2. QED
    BY <1>0, <2>1 DEF ReadK, JfdK
<1>11. QED
  BY <1>8, <1>9, <1>10 DEF ConnK, e

\* The file is synced at the end of a rollback.
LEMMA UndoneSynced ==
  ASSUME NEW g, NEW h, IsPager(g), h = [g EXCEPT !.pc = "final"],
         g.eState = "dbmod", g.commit = FALSE, g.hot = FALSE,
         NEW i, IsImage(i), NEW d, DbType(d), NEW j, NEW name, NEW m, name.cur = g.jfd,
         UndoK(g, i, d)
  PROVE  ConnK(h, EXCLUSIVE_LOCK, i, Sync(d), j, name, m) /\ Quiet(Sync(d), i)
<1> DEFINE e == Sync(d)
<1>0. /\ h.eState = "dbmod" /\ h.pc = "final" /\ h.hot = FALSE /\ h.jfd = g.jfd /\ h.commit = FALSE
      /\ h.off = g.off /\ h.dbSize = g.dbSize /\ h.cache = g.cache /\ h.vers = g.vers
  BY DEF IsPager, Fields
<1>1. \A p \in Pages : e[p] = Stable(d[p].cur) /\ e[p].cur = d[p].cur
  BY SyncedPages
<1> HIDE DEF e
<1>2. \A p \in 1..Len(i) : p \in Pages
  BY ImageIs
<1>3. Quiet(e, i)
  BY <1>1, <1>2 DEF Quiet, EmptyDb, UndoK
<1>4. UndoK(h, i, e)
  <2>1. Agrees(h, i)
    BY <1>0 DEF UndoK, Agrees, Coherent
  <2>2. QED
    BY <1>0, <1>1, <1>2, <2>1 DEF UndoK
<1>5. OwnK(h, i, e, j[h.jfd], name, m)
  BY <1>0, <1>4 DEF OwnK, Active, Playing, LoggingPcs
<1>6. TrustK(h, EXCLUSIVE_LOCK, i, e, j, name)
  BY <1>0, <1>3 DEF TrustK, Cools
<1>7. CacheK(h, i) /\ HotK(h, i, e, j[h.jfd]) /\ ReadK(h, i) /\ JfdK(h, i, name, m)
  BY <1>0 DEF CacheK, HotK, ReadK, JfdK
<1>8. QED
  BY <1>3, <1>5, <1>6, <1>7 DEF ConnK, e

\* The file is synced after a hot journal was played back.
LEMMA HotSynced ==
  ASSUME NEW g, NEW h, IsPager(g), h = [g EXCEPT !.pc = "final"],
         g.eState = "open", g.hot = TRUE, g.pc = "dbsync",
         NEW i, IsImage(i), NEW d, DbType(d), NEW j, NEW name, NEW m,
         NEW b \in Nat, JournalType(j[g.jfd], b), g.off \in Nat,
         ConnK(g, EXCLUSIVE_LOCK, i, d, j, name, m)
  PROVE  ConnK(h, EXCLUSIVE_LOCK, i, Sync(d), j, name, m) /\ Quiet(Sync(d), i)
<1> DEFINE e == Sync(d)
           cells == j[g.jfd]
<1>0. /\ h.eState = "open" /\ h.pc = "final" /\ h.hot = TRUE /\ h.jfd = g.jfd /\ h.commit = g.commit
      /\ h.off = g.off /\ h.dbSize = g.dbSize /\ h.cache = g.cache /\ h.vers = g.vers
  BY DEF IsPager, Fields
<1>1. /\ \A p \in Pages : e[p] = Stable(d[p].cur) /\ e[p].cur = d[p].cur
      /\ \A p \in Pages : \A x : d[p] = Stable(x) => e[p] = Stable(x)
  BY SyncedPages
<1> HIDE DEF e
<1>2. \A p \in 1..Len(i) : p \in Pages
  BY ImageIs
<1>3. HotK(g, i, d, cells) /\ CacheK(g, i) /\ JfdK(g, i, name, m)
  BY HotIs
<1>4. Quiet(e, i) /\ (IsMagic(cells[1].cur) => g.off >= 1)
  <2>1. CASE ~IsMagic(cells[1].cur)
    <3>1. Quiet(d, i)
      BY <1>3, <2>1 DEF HotK
    <3>2. QED
      BY <1>1, <1>2, <2>1, <3>1 DEF Quiet, EmptyDb
  <2>2. CASE IsMagic(cells[1].cur)
    <3>1. PICK n : HotAt(g, i, d, cells, n)
      BY <1>3, <2>2 DEF HotK
    <3>2. n \in 2..MaxSlot + 1 /\ MaxSlot \in Nat /\ g.off = n - 1
      BY <3>1, Bounds DEF HotAt, Covered
    <3>3. \A p \in 1..Len(i) : ~Recs(cells, p, g.off + 1, n - 1)
      BY <3>2 DEF Recs
    <3>4. \A p \in 1..Len(i) : d[p].cur = i[p]
      BY <3>1, <3>3 DEF HotAt
    <3>5. g.off >= 1 /\ (Len(i) = 0 => \A p \in Pages : d[p].cur = NoPage)
      BY <3>1, <3>2 DEF HotAt
    <3>6. QED
      BY <1>1, <1>2, <3>4, <3>5 DEF Quiet, EmptyDb
  <2>3. QED
    BY <2>1, <2>2
<1>5. HotK(h, i, e, j[h.jfd])
  BY <1>0, <1>4 DEF HotK
<1>6. TrustK(h, EXCLUSIVE_LOCK, i, e, j, name)
  BY <1>0, <1>4 DEF TrustK, Cools
<1>7. CacheK(h, i) /\ JfdK(h, i, name, m)
  BY <1>0, <1>3 DEF CacheK, JfdK, NothingCached, Coherent
<1>8. QED
  BY <1>0, <1>4, <1>5, <1>6, <1>7, HotIs DEF e

\* sqlite3PagerSync(), of a commit and of a rollback.
LEMMA DbSyncKept ==
  ASSUME IInv, NEW b \in Nat, TInv(b), NEW i, PInv(i), NEW c \in Conns, DbSync(c)
  PROVE  PInv(i)'
<1> DEFINE g == pager[c]
           cells == journal[g.jfd]
           h == [g EXCEPT !.eState = IF g.commit THEN "finished" ELSE @, !.pc = "final"]
           e == Sync(db)
<1>1. /\ g.pc = "dbsync" /\ db' = e /\ Set(c, h)
      /\ UNCHANGED lockVars /\ mode' = mode /\ journal' = journal /\ dirent' = dirent
  BY DEF DbSync, lockVars
<1>2. PagerInv(g, lock[c]) /\ IsPager(g) /\ DbType(db) /\ DataType(g, b)
  BY DEF IInv, TInv, PagerInv, IsPager
<1>3. lock[c] = EXCLUSIVE_LOCK /\ (g.eState = "dbmod" \/ (g.eState = "open" /\ g.hot = TRUE))
  BY <1>1, <1>2 DEF PagerInv, StateInv, HotInv, ReadPcs, PlayPcs, CommitPcs
<1>4. IsImage(i) /\ ConnK(g, lock[c], i, db, journal, dirent, mode) /\ FilesK(i, db, journal, dirent, mode)
  BY DEF PInv
<1>5. g.commit \in BOOLEAN /\ (g.eState = "open" => g.commit = FALSE) /\ (g.eState = "dbmod" => g.hot = FALSE)
      /\ g.off \in Nat /\ g.nPage \in 0..MaxPage
  BY <1>2, Bounds DEF PagerInv, CommitInv, HotInv, DataType
<1>6. FilesK(i, e, journal, dirent, mode)
  BY <1>2, <1>4, FilesSync
<1>7. Dying(journal', dirent') => EmptyDb(e) \/ h.pc = "finsync"
  <2>1. \A d \in Others(c) : pager[d].pc # "finsync"
    <3> SUFFICES ASSUME NEW d \in Others(c)
                 PROVE  pager[d].pc # "finsync"
      OBVIOUS
    <3>1. lock[d] = NO_LOCK /\ PagerInv(pager[d], lock[d])
      BY <1>3 DEF IInv, Exclusion, Others
    <3>2. QED
      BY <3>1, UnlockedIs
  <2>2. Dying(journal, dirent) => EmptyDb(db)
    BY <1>1, <2>1 DEF PInv, Others
  <2>3. QED
    BY <1>1, <1>2, <1>4, <2>2, CoveredSync
<1> HIDE DEF e
<1>8. /\ ConnK(h, lock[c], i, e, journal, dirent, mode)
      /\ e[1].cur = NoPage => EmptyDb(e)
  <2>1. CASE g.commit = TRUE
    <3>1. g.eState = "dbmod" /\ Active(g)
      BY <1>1, <1>3, <1>5, <2>1 DEF Active
    <3>2. /\ dirent.cur = g.jfd /\ LogK(g, i, db, cells) /\ WriteK(g, i, db, cells, mode)
          /\ SyncK(g, i, db, cells, dirent)
      BY <3>1, ActiveHas
    <3>3. h = [g EXCEPT !.eState = "finished", !.pc = "final"]
      BY <2>1
    <3>4. e[1].cur # NoPage
      <4>1. 1 \in 1..g.nPage /\ 1 \in Pages /\ 1 \notin g.dirty
        BY <1>1, <1>5, <3>2, Bounds DEF WriteK, SyncK, Pages
      <4>2. db[1].cur \in PageContents
        BY <3>2, <4>1 DEF WriteK
      <4>3. QED
        BY <1>2, <4>1, <4>2, Contents, SyncedPages DEF e
    <3> HIDE DEF g, h
    <3>5. QED
      BY <1>1, <1>2, <1>3, <1>4, <1>5, <2>1, <3>1, <3>2, <3>3, <3>4, CommitSynced DEF cells, e
  <2>2. CASE g.commit = FALSE /\ g.eState = "dbmod"
    <3>1. h = [g EXCEPT !.pc = "final"]
      BY <1>2, <2>2 DEF IsPager, Fields
    <3> HIDE DEF g, h
    <3>2. dirent.cur = g.jfd /\ UndoK(g, i, db)
      BY <1>1, <1>4, <2>2 DEF ConnK, JfdK, OwnK, Undoes
    <3>3. ConnK(h, lock[c], i, e, journal, dirent, mode) /\ Quiet(e, i)
      BY <1>2, <1>3, <1>4, <1>5, <2>2, <3>1, <3>2, UndoneSynced DEF e
    <3>4. QED
      BY <1>4, <3>3, QuietFirst
  <2>3. CASE g.commit = FALSE /\ g.eState = "open"
    <3>1. h = [g EXCEPT !.pc = "final"]
      BY <1>2, <2>3 DEF IsPager, Fields
    <3>2. g.jfd \in 0..MaxInode /\ g.jfd # 0 /\ g.hot = TRUE
      BY <1>1, <1>2, <1>3, <2>3 DEF PagerInv, JournalInv
    <3>3. JournalType(journal[g.jfd], b)
      BY <3>2, JournalOf
    <3> HIDE DEF g, h
    <3>4. ConnK(h, lock[c], i, e, journal, dirent, mode) /\ Quiet(e, i)
      BY <1>1, <1>2, <1>3, <1>4, <1>5, <2>3, <3>1, <3>2, <3>3, HotSynced DEF e
    <3>5. QED
      BY <1>4, <3>4, QuietFirst
  <2>4. QED
    BY <1>3, <1>5, <2>1, <2>2, <2>3
<1>9. QED
  BY <1>1, <1>3, <1>4, <1>6, <1>7, <1>8, AlonePromises

-----------------------------------------------------------------------------
\* The journal of a database without pages; a hot journal
LEMMA EmptyDeleteKept ==
  ASSUME IInv, NEW i, PInv(i), NEW c \in Conns, EmptyDelete(c)
  PROVE  PInv(i)'
<1> DEFINE g == pager[c]
           h == [g EXCEPT !.pc = "validate"]
           name == [cur |-> 0, may |-> MayBe(dirent.may \cup {0})]
<1>1. /\ g.pc = "delete" /\ Set(c, h) /\ dirent' = name /\ Unlock(c, SHARED_LOCK)
      /\ mode' = mode /\ db' = db /\ journal' = journal
  BY DEF EmptyDelete, Goto
<1>2. PagerInv(g, lock[c]) /\ g.eState = "open" /\ g.hot = FALSE
  BY <1>1, OpenAt
<1>3. lock[c] >= RESERVED_LOCK /\ lock[c] # EXCLUSIVE_LOCK
  BY <1>1, <1>2 DEF PagerInv, StateInv, ReadPcs, PlayPcs
<1>4. IsImage(i) /\ ConnK(g, lock[c], i, db, journal, dirent, mode)
  BY DEF PInv
<1>5. Quiet(db, i) /\ Len(i) = 0
  BY <1>1, <1>2, OpenTrusts
<1>6. EmptyDb(db)
  BY <1>5 DEF Quiet
<1>7. name.cur = 0
  OBVIOUS
<1>8. FilesK(i, db, journal, name, mode)
  <2>1. \A e \in name.may : NamedK(e, i, db, journal, mode)
    BY <1>5, <1>6 DEF NamedK
  <2>2. QED
    BY <1>5, <1>7, <2>1 DEF FilesK
<1>9. /\ h.eState = "open" /\ h.pc = "validate" /\ h.hot = FALSE /\ h.jfd = g.jfd
      /\ h.cache = g.cache /\ h.vers = g.vers
  BY <1>2 DEF PagerInv, Fields
<1> HIDE DEF g, h, name
<1>10. CacheK(g, i) /\ JfdK(g, i, dirent, mode)
  BY <1>2, <1>4, OpenIs
<1>11. \A l : ConnK(h, l, i, db, journal, name, mode)
  <2> TAKE l
  <2>1. TrustK(h, l, i, db, journal, name)
    BY <1>5, <1>7, <1>9 DEF TrustK, Cold
  <2>2. CacheK(h, i)
    BY <1>2, <1>9, <1>10 DEF CacheK, NothingCached, Coherent
  <2>3. JfdK(h, i, name, mode)
    BY <1>1, <1>2, <1>5, <1>9, <1>10 DEF JfdK
  <2>4. QED
    BY <1>9, <2>1, <2>2, <2>3, OpenIs
<1>12. \A d \in Others(c) : ConnK(pager[d], lock[d], i, db, journal, name, mode)
  BY <1>3, <1>5, <1>7, OthersShared DEF Cold
<1>13. LockTypeOK
  BY DEF IInv
<1>14. [LockNext]_lockVars /\ \A d \in Others(c) : lock'[d] = lock[d]
  BY <1>1, <1>13, LockGiven
<1>15. EmptyK(db', journal', dirent', pager', lock')
  BY <1>1, <1>6, <1>7 DEF EmptyK, Dying
<1>16. QED
  BY <1>1, <1>4, <1>8, <1>11, <1>12, <1>14, <1>15, OnePromises

\* A segment is added to a chain.
LEMMA ChainAppend ==
  ASSUME NEW j, NEW m \in Nat \ {0}, NEW n \in Slots, Chain(j, m, n),
         IsMagic(j[n]), j[n].nRec \in Nat, Segment(j, n)
  PROVE  Chain(j, m, n + j[n].nRec + 1)
<1>1. PICK H \in SUBSET Slots : ChainOf(j, H, m, n)
  BY DEF Chain
<1> DEFINE G == H \cup {n}
           k == n + j[n].nRec + 1
<1>2. G \in SUBSET Slots
  OBVIOUS
<1>3. n \in Nat /\ MaxSlot \in Nat /\ k \in Nat /\ n < k /\ k <= MaxSlot + 1 /\ m <= n
  <2>1. n \in Nat /\ MaxSlot \in Nat /\ k \in Nat /\ n < k
    BY Bounds DEF Slots
  <2>2. k <= MaxSlot + 1
    BY <2>1 DEF Segment
  <2>3. m <= n
    BY <1>1, <2>1 DEF ChainOf
  <2>4. QED
    BY <2>1, <2>2, <2>3
<1>4. G \subseteq m..k - 1 /\ m \in G
  BY <1>1, <1>3 DEF ChainOf
<1>5. \A h \in G : IsMagic(j[h]) /\ Segment(j, h) /\ h + j[h].nRec + 1 \in G \cup {k}
  BY <1>1 DEF ChainOf
<1>6. ChainOf(j, G, m, k)
  BY <1>3, <1>4, <1>5 DEF ChainOf
<1>7. QED
  BY <1>2, <1>6 DEF Chain

\* A journal covers an image also with a segment that follows.
LEMMA CoveredNext ==
  ASSUME NEW b \in Nat, NEW cells, cells = [s \in Slots |-> cells[s]], JournalType(cells, b),
         NEW x, NEW i, NEW d, NEW n, Covered(cells, x, i, d, n), n <= MaxSlot,
         IsStable(cells[n]), IsMagic(cells[n].cur)
  PROVE  LET k == n + cells[n].cur.nRec + 1
         IN Covered(cells, x, i, d, k) /\ NoMagic(cells, k) /\ n < k /\ k \in Nat
<1> DEFINE y == cells[n].cur
           k == n + y.nRec + 1
           w == With(cells, x)
<1>1. n \in Slots \ {1} /\ n \in Nat /\ MaxSlot \in Nat /\ n \in 2..MaxSlot + 1
  BY Bounds DEF Covered, Slots
<1>2. y \in HeaderCells(b) /\ y.nRec \in Nat
  <2>1. y \in Cells(b)
    BY <1>1 DEF JournalType, CellOf
  <2>2. QED
    BY <2>1 DEF Cells, HeaderCells, RecordCells, NoCell, Junk, IsMagic
<1>3. y \in cells[n].may
  BY StableIs
<1>4. /\ n + y.nRec <= MaxSlot
      /\ \A s \in n + 1..n + y.nRec :
           /\ IsStable(cells[s]) /\ cells[s].cur.kind = "record"
           /\ cells[s].cur.nonce = y.nonce /\ Good(cells[s].cur, i, x.orig)
      /\ NoMagic(cells, k)
  BY <1>1, <1>3 DEF Covered, After
<1>5. w[n] = y /\ \A s \in Slots \ {1} : w[s] = cells[s].cur
  BY <1>1, WithIs
<1> HIDE DEF w, y
<1>6. k \in Nat /\ n < k /\ k \in 2..MaxSlot + 1
  BY <1>1, <1>2, <1>4
<1>7. Chain(w, 1, k)
  <2>1. Chain(w, 1, n)
    BY DEF Covered, w
  <2>2. Segment(w, n)
    <3>1. \A s \in n + 1..n + y.nRec : w[s] = cells[s].cur
      BY <1>1, <1>2, <1>4, <1>5 DEF Slots
    <3>2. QED
      BY <1>4, <1>5, <3>1 DEF Segment
  <2>3. IsMagic(w[n]) /\ w[n].nRec \in Nat
    BY <1>2, <1>5 DEF y
  <2>4. Chain(w, 1, n + w[n].nRec + 1)
    <3>1. 1 \in Nat \ {0} /\ n \in Slots
      BY <1>1
    <3>2. QED
      BY <2>1, <2>2, <2>3, <3>1, ChainAppend
  <2>5. QED
    BY <1>5, <2>4
<1>8. \A s \in 2..k - 1 : IsStable(cells[s]) /\ Good(cells[s].cur, i, x.orig)
  <2> TAKE s \in 2..k - 1
  <2>1. CASE s < n
    <3>1. s \in 2..n - 1
      BY <1>1, <1>6, <2>1
    <3>2. QED
      BY <3>1 DEF Covered
  <2>2. CASE s = n
    BY <2>2 DEF Good, IsMagic
  <2>3. CASE s > n
    BY <1>1, <1>2, <1>4, <2>3
  <2>4. QED
    BY <1>1, <1>6, <2>1, <2>2, <2>3
<1>9. After(cells, k, i, x.orig)
  BY <1>4 DEF After, NoMagic
<1>10. \A p \in 1..Len(i) : d[p] = Stable(i[p]) \/ Recs(cells, p, 2, k - 1)
  <2> TAKE p \in 1..Len(i)
  <2>1. d[p] = Stable(i[p]) \/ Recs(cells, p, 2, n - 1)
    BY DEF Covered
  <2>2. QED
    BY SMTT(60), <1>1, <1>6, <2>1, RecsMore
<1>11. Covered(cells, x, i, d, k)
  BY <1>6, <1>7, <1>8, <1>9, <1>10 DEF Covered, w
<1>12. QED
  BY <1>4, <1>6, <1>11 DEF y

\* The journal is synced.
LEMMA CoveredJournalSync ==
  ASSUME NEW b \in Nat, NEW cells, cells = [s \in Slots |-> cells[s]], JournalType(cells, b),
         NEW x \in Cells(b), NEW i, NEW d, NEW n, Covered(cells, x, i, d, n)
  PROVE  Covered(Sync(cells), x, i, d, n)
<1> DEFINE new == Sync(cells)
           w == With(cells, x)
           v == With(new, x)
<1>0. n \in 2..MaxSlot + 1 /\ MaxSlot \in Nat /\ n \in Nat /\ 1 \in Nat \ {0}
  BY Bounds DEF Covered
<1>1. /\ new = [s \in Slots |-> new[s]] /\ JournalType(new, b)
      /\ \A s \in Slots : new[s] = Stable(cells[s].cur) /\ new[s].cur = cells[s].cur
  BY SyncedCells
<1>2. \A s \in Slots : IsStable(new[s]) /\ new[s].may \subseteq cells[s].may
  <2> TAKE s \in Slots
  <2>1. cells[s].cur \in cells[s].may
    BY DEF JournalType, CellOf
  <2>2. new[s] = Stable(cells[s].cur)
    BY <1>1
  <2>3. \A y : Stable(y).cur = y /\ Stable(y).may = {y}
    BY DEF Stable
  <2> HIDE DEF new
  <2>4. new[s].cur = cells[s].cur /\ new[s].may = {cells[s].cur}
    BY <2>2, <2>3
  <2>5. QED
    BY <2>1, <2>2, <2>4 DEF IsStable
<1> HIDE DEF new
<1>3. \A s \in Slots : v[s] = w[s]
  <2>1. w[1] = x /\ \A s \in Slots \ {1} : w[s] = cells[s].cur
    BY WithIs
  <2>2. v[1] = x /\ \A s \in Slots \ {1} : v[s] = new[s].cur
    <3>1. new = [s \in Slots |-> new[s]]
      BY <1>1
    <3>2. QED
      BY ONLY <3>1, WithIs
  <2> HIDE DEF v, w
  <2>3. QED
    BY <1>1, <2>1, <2>2
<1>4. \A s \in 1..MaxSlot + 1 - 1 : s \in Slots
  BY <1>0 DEF Slots
<1>5. Chain(v, 1, n)
  <2>1. PICK H \in SUBSET Slots : ChainOf(w, H, 1, n)
    BY DEF Covered, Chain
  <2>2. \A h \in H : w[h].nRec \in Nat
    <3> TAKE h \in H
    <3>1. IsMagic(w[h]) /\ h \in Slots /\ h + w[h].nRec + 1 \in H \cup {n} /\ Segment(w, h)
      BY <2>1 DEF ChainOf
    <3>2. CASE h # 1
      <4>1. w[h] = cells[h].cur /\ cells[h].cur \in Cells(b)
        BY <3>1, <3>2, WithIs DEF JournalType, CellOf
      <4>2. QED
        BY <3>1, <4>1 DEF Cells, HeaderCells, RecordCells, NoCell, Junk, IsMagic
    <3>3. CASE h = 1
      <4>1. w[h] = x /\ x \in Cells(b)
        BY <3>3, WithIs
      <4>2. QED
        BY <3>1, <4>1 DEF Cells, HeaderCells, RecordCells, NoCell, Junk, IsMagic
    <3>4. QED
      BY <3>2, <3>3
  <2>3. \A s \in 1..n - 1 : v[s] = w[s]
    BY <1>0, <1>3 DEF Slots
  <2> HIDE DEF v, w
  <2>4. ChainOf(v, H, 1, n)
    BY <1>0, <2>1, <2>2, <2>3, ChainSame
  <2>5. QED
    BY <2>4 DEF Chain
<1>6. \A s \in 2..n - 1 : IsStable(new[s]) /\ Good(new[s].cur, i, x.orig)
  <2> TAKE s \in 2..n - 1
  <2>1. s \in Slots
    BY <1>0 DEF Slots
  <2>2. Good(cells[s].cur, i, x.orig)
    BY DEF Covered
  <2>3. QED
    BY <1>1, <1>2, <2>1, <2>2
<1>7. After(new, n, i, x.orig)
  <2> SUFFICES ASSUME n <= MaxSlot, NEW y \in new[n].may, IsMagic(y)
               PROVE  /\ n + y.nRec <= MaxSlot
                      /\ \A s \in n + 1..n + y.nRec :
                           /\ IsStable(new[s]) /\ new[s].cur.kind = "record"
                           /\ new[s].cur.nonce = y.nonce /\ Good(new[s].cur, i, x.orig)
                      /\ NoMagic(new, n + y.nRec + 1)
    BY DEF After
  <2>1. n \in Slots /\ y \in cells[n].may
    BY <1>0, <1>2 DEF Slots
  <2>2. /\ n + y.nRec <= MaxSlot
        /\ \A s \in n + 1..n + y.nRec :
             /\ cells[s].cur.kind = "record"
             /\ cells[s].cur.nonce = y.nonce /\ Good(cells[s].cur, i, x.orig)
        /\ NoMagic(cells, n + y.nRec + 1)
    BY <2>1 DEF Covered, After
  <2>3. y.nRec \in Nat
    <3>1. y \in Cells(b)
      BY <2>1 DEF JournalType, CellOf
    <3>2. QED
      BY <3>1 DEF Cells, HeaderCells, RecordCells, NoCell, Junk, IsMagic
  <2>4. \A s \in n + 1..n + y.nRec : s \in Slots
    BY <1>0, <2>2, <2>3 DEF Slots
  <2>5. n + y.nRec + 1 <= MaxSlot => n + y.nRec + 1 \in Slots
    BY <1>0, <2>3 DEF Slots
  <2>6. NoMagic(new, n + y.nRec + 1)
    BY <1>2, <2>2, <2>5 DEF NoMagic
  <2>7. QED
    BY <1>1, <1>2, <2>2, <2>4, <2>6
<1>8. \A p \in 1..Len(i) : d[p] = Stable(i[p]) \/ Recs(new, p, 2, n - 1)
  <2> TAKE p \in 1..Len(i)
  <2>1. d[p] = Stable(i[p]) \/ Recs(cells, p, 2, n - 1)
    BY DEF Covered
  <2>2. \A s \in 2..n - 1 : new[s].cur = cells[s].cur
    BY <1>0, <1>1 DEF Slots
  <2>3. QED
    BY <2>1, <2>2 DEF Recs
<1>9. QED
  BY <1>5, <1>6, <1>7, <1>8 DEF Covered, new, v

\* What is in use of a journal is not changed by a sync.
LEMMA SyncedUse ==
  ASSUME NEW b, NEW cells, cells = [s \in Slots |-> cells[s]], JournalType(cells, b)
  PROVE  SlotsUsed(Sync(cells)) = SlotsUsed(cells)
<1>1. \A s \in Slots : Sync(cells)[s].cur = cells[s].cur
  BY SyncedCells
<1>2. {s \in Slots : Sync(cells)[s].cur.kind # "none"} = {s \in Slots : cells[s].cur.kind # "none"}
  BY <1>1
<1>3. QED
  BY <1>2 DEF SlotsUsed

\* A journal on disk that covers an image has a place where it ends.
LEMMA CoveredEnds ==
  ASSUME NEW b \in Nat, NEW cells, cells = [s \in Slots |-> cells[s]], JournalType(cells, b),
         \A s \in Slots : IsStable(cells[s]),
         NEW x, NEW i, NEW d, NEW n, Covered(cells, x, i, d, n)
  PROVE  \E k : Covered(cells, x, i, d, k) /\ NoMagic(cells, k)
<1>1. CASE NoMagic(cells, n)
  BY <1>1
<1>2. CASE ~NoMagic(cells, n)
  <2>1. n <= MaxSlot /\ \E y \in cells[n].may : IsMagic(y)
    BY <1>2 DEF NoMagic
  <2>2. n \in Slots
    BY <2>1, Bounds DEF Covered, Slots
  <2>3. IsStable(cells[n]) /\ cells[n].may = {cells[n].cur}
    BY <2>2, StableIs
  <2>4. IsMagic(cells[n].cur)
    BY <2>1, <2>3
  <2>5. QED
    BY <2>1, <2>3, <2>4, CoveredNext
<1>3. QED
  BY <1>1, <1>2

\* The hot journal is synced, and the playback begins.
LEMMA HotSyncKept ==
  ASSUME IInv, NEW b \in Nat, TInv(b), NEW i, PInv(i), NEW c \in Conns, HotSync(c)
  PROVE  PInv(i)'
<1> DEFINE g == pager[c]
           cells == journal[g.jfd]
           h == [g EXCEPT !.hdr = SlotsUsed(cells) + 1, !.hot = TRUE, !.off = 0, !.pc = "play"]
           new == Sync(cells)
           j == [journal EXCEPT ![g.jfd] = new]
           x == cells[1].cur
<1>1. /\ g.pc = "hotsync" /\ journal' = j /\ Set(c, h)
      /\ UNCHANGED lockVars /\ mode' = mode /\ db' = db /\ dirent' = dirent
  BY DEF HotSync, lockVars
<1>2. PagerInv(g, lock[c]) /\ g.eState = "open" /\ g.hot = FALSE /\ lock[c] = EXCLUSIVE_LOCK
  BY <1>1, OpenAt
<1>3. g.jfd \in 0..MaxInode /\ g.jfd # 0
  BY <1>1, <1>2 DEF PagerInv, JournalInv
<1>4. g.jfd \in Inodes /\ cells = [s \in Slots |-> cells[s]] /\ JournalType(cells, b)
      /\ \A s \in Slots : cells[s].cur \in cells[s].may
  BY <1>3, JournalOf
<1>5. IsImage(i) /\ ConnK(g, lock[c], i, db, journal, dirent, mode) /\ FilesK(i, db, journal, dirent, mode)
  BY DEF PInv
<1>6. db[1].cur # NoPage /\ dirent.cur = g.jfd /\ CacheK(g, i)
  BY <1>1, <1>5 DEF ConnK, TrustK, JfdK
<1>7. ~EmptyDb(db)
  <2>1. 1 \in Pages /\ Stable(NoPage).cur = NoPage
    BY Bounds DEF Pages, Stable
  <2>2. QED
    BY <1>6, <2>1 DEF EmptyDb
<1>8. 1 \in Slots /\ x \in Cells(b) /\ x \in cells[1].may
  <2>1. 1 \in Slots
    BY Bounds DEF Slots
  <2>2. x \in cells[1].may
    BY <1>4, <2>1
  <2>3. cells[1].may \subseteq Cells(b)
    BY <1>4, <2>1 DEF JournalType, CellOf
  <2>4. QED
    BY <2>1, <2>2, <2>3
<1>9. /\ new = [s \in Slots |-> new[s]] /\ JournalType(new, b)
      /\ \A s \in Slots : new[s] = Stable(cells[s].cur) /\ new[s].cur = cells[s].cur
  BY <1>4, SyncedCells
<1>10. SlotsUsed(new) = SlotsUsed(cells)
  BY <1>4, SyncedUse
<1>11. journal = [e \in Inodes |-> journal[e]]
  BY DEF IInv, FilesInv
<1>12. j[g.jfd] = new /\ \A e : e # g.jfd => j[e] = journal[e]
  BY <1>4, <1>11
<1>13. /\ h.eState = "open" /\ h.pc = "play" /\ h.hot = TRUE /\ h.jfd = g.jfd
       /\ h.cache = g.cache /\ h.vers = g.vers /\ h.off = 0 /\ h.hdr = SlotsUsed(new) + 1
  BY <1>2, <1>10 DEF PagerInv, Fields
<1> HIDE DEF g, cells, h, new, j, x
<1>14. \A s \in Slots : IsStable(new[s]) /\ new[s].may = {cells[s].cur}
  <2>1. \A y : Stable(y).cur = y /\ Stable(y).may = {y}
    BY DEF Stable
  <2>2. QED
    BY <1>9, <2>1 DEF IsStable
<1>15. new[1].may = {x} /\ new[1].cur = x /\ IsStable(new[1])
  BY <1>8, <1>9, <1>14 DEF x
<1>16. \A u, d, n : Covered(cells, x, u, d, n) => Covered(new, x, u, d, n)
  BY <1>4, <1>8, CoveredJournalSync DEF new
<1>17. IsMagic(x) => \E n : Covered(new, x, i, db, n)
  <2>1. IsMagic(x) => \E n : Covered(cells, x, i, db, n)
    BY <1>3, <1>5, <1>6, <1>7 DEF FilesK, cells, x
  <2>2. QED
    BY <1>16, <2>1
<1>18. ~IsMagic(x) => Quiet(db, i)
  BY <1>3, <1>5, <1>6 DEF FilesK, cells, x
<1>19. FilesK(i, db, j, dirent, mode)
  <2>1. ASSUME NEW e \in dirent.may
        PROVE  NamedK(e, i, db, j, mode)
    <3>1. NamedK(e, i, db, journal, mode)
      BY <1>5 DEF FilesK
    <3>2. CASE e # g.jfd
      BY <1>12, <3>1, <3>2 DEF NamedK
    <3>3. CASE e = g.jfd
      <4>1. IsMagic(x) => Revives(cells, x, i, db, mode)
        BY <1>3, <1>7, <1>8, <3>1, <3>3 DEF NamedK, cells
      <4>2. IsMagic(x) => Revives(new, x, i, db, mode)
        BY <1>16, <4>1 DEF Revives
      <4>3. QED
        BY <1>3, <1>12, <1>15, <1>18, <3>3, <4>2 DEF NamedK
    <3>4. QED
      BY <3>2, <3>3
  <2>2. (\E y \in j[dirent.cur][1].may : IsMagic(y)) => dirent.may = {dirent.cur}
    <3>1. IsMagic(x) => dirent.may = {dirent.cur}
      BY <1>3, <1>5, <1>6, <1>8 DEF FilesK, cells
    <3>2. QED
      BY <1>6, <1>12, <1>15, <3>1
  <2>3. j[dirent.cur][1].cur = x /\ IsStable(j[dirent.cur][1])
    BY <1>6, <1>12, <1>15
  <2>4. QED
    BY <1>3, <1>6, <1>12, <1>17, <1>18, <2>1, <2>2, <2>3 DEF FilesK
<1>20. ~Dying(j, dirent)
  BY <1>6, <1>12, <1>15 DEF Dying
<1>21. HotK(h, i, db, new)
  <2>1. IsMagic(x) => \E n : HotAt(h, i, db, new, n)
    <3> SUFFICES ASSUME IsMagic(x)
                 PROVE  \E n : HotAt(h, i, db, new, n)
      OBVIOUS
    <3>1. PICK m : Covered(new, x, i, db, m)
      BY <1>17
    <3>2. PICK n : Covered(new, x, i, db, n) /\ NoMagic(new, n)
      BY <1>9, <1>14, <3>1, CoveredEnds
    <3>3. With(new, x) = Cur(new)
      BY <1>9, <1>15, WithCur
    <3>4. n \in 2..MaxSlot + 1 /\ Chain(Cur(new), 1, n) /\ MaxSlot \in Nat
      BY <3>2, <3>3, Bounds DEF Covered
    <3>5. \A p \in 1..Len(i) : db[p].cur = i[p] \/ Recs(new, p, 1, n - 1)
      <4> TAKE p \in 1..Len(i)
      <4>1. db[p] = Stable(i[p]) \/ Recs(new, p, 2, n - 1)
        BY <3>2 DEF Covered
      <4>2. Recs(new, p, 2, n - 1) => Recs(new, p, 1, n - 1)
        BY <3>4, RecsMore
      <4>3. Stable(i[p]).cur = i[p]
        BY DEF Stable
      <4>4. QED
        BY <4>1, <4>2, <4>3
    <3>6. HotAt(h, i, db, new, n)
      BY <1>13, <1>15, <3>2, <3>4, <3>5 DEF HotAt
    <3>7. QED
      BY <3>6
  <2>2. QED
    BY <1>13, <1>14, <1>15, <1>18, <2>1 DEF HotK
<1>22. ConnK(h, lock[c], i, db, j, dirent, mode)
  <2>1. TrustK(h, lock[c], i, db, j, dirent)
    BY <1>2, <1>13 DEF TrustK, Trusts, Cools
  <2>2. CacheK(h, i)
    BY <1>2, <1>6, <1>13 DEF CacheK, NothingCached, Coherent
  <2>3. JfdK(h, i, dirent, mode)
    BY <1>6, <1>13 DEF JfdK
  <2>4. QED
    BY <1>12, <1>13, <1>21, <2>1, <2>2, <2>3, HotIs
<1>23. QED
  BY <1>1, <1>2, <1>5, <1>6, <1>19, <1>20, <1>22, AlonePromises

-----------------------------------------------------------------------------
\* The syncs of the journal
\* Of a file without page 1 only a rollback that cuts it knows.
LEMMA AloneFirst ==
  ASSUME IInv, NEW i, PInv(i), NEW c \in Conns, lock[c] = EXCLUSIVE_LOCK,
         pager[c].pc \notin {"play", "record", "playend", "dbsync"}
  PROVE  db[1].cur = NoPage => EmptyDb(db)
<1> SUFFICES ASSUME db[1].cur = NoPage, NEW d \in Conns, Cutting(pager[d], lock[d])
             PROVE  FALSE
  BY DEF PInv
<1>1. lock[d] = EXCLUSIVE_LOCK /\ pager[d].pc \in {"play", "record", "playend", "dbsync"}
  BY DEF Cutting
<1>2. d # c
  BY <1>1
<1>3. lock[d] = NO_LOCK
  BY <1>2 DEF IInv, Exclusion, Others
<1>4. QED
  BY <1>1, <1>3

\* What covers an image does so while the slots before its end stay.
LEMMA CoveredSame ==
  ASSUME NEW b \in Nat, NEW cells, cells = [s \in Slots |-> cells[s]], JournalType(cells, b),
         NEW new, new = [s \in Slots |-> new[s]],
         NEW x \in Cells(b), NEW i, NEW d, NEW n, Covered(cells, x, i, d, n),
         \A s \in 2..n - 1 : new[s] = cells[s], After(new, n, i, x.orig)
  PROVE  Covered(new, x, i, d, n)
<1> DEFINE w == With(cells, x)
           v == With(new, x)
<1>0. n \in 2..MaxSlot + 1 /\ MaxSlot \in Nat /\ n \in Nat /\ 1 \in Nat \ {0} /\ 1 \in Slots
  BY Bounds DEF Covered, Slots
<1>1. w[1] = x /\ \A s \in Slots \ {1} : w[s] = cells[s].cur
  <2>1. cells = [s \in Slots |-> cells[s]]
    OBVIOUS
  <2>2. QED
    BY ONLY <2>1, WithIs
<1>2. v[1] = x /\ \A s \in Slots \ {1} : v[s] = new[s].cur
  <2>1. new = [s \in Slots |-> new[s]]
    OBVIOUS
  <2>2. QED
    BY ONLY <2>1, WithIs
<1>3. PICK H \in SUBSET Slots : ChainOf(w, H, 1, n)
  BY DEF Covered, Chain
<1> HIDE DEF v, w
<1>4. \A s \in 1..n - 1 : v[s] = w[s]
  <2> TAKE s \in 1..n - 1
  <2>1. s = 1 \/ (s \in 2..n - 1 /\ s \in Slots \ {1})
    BY <1>0 DEF Slots
  <2>2. QED
    BY <1>1, <1>2, <2>1
<1>5. \A h \in H : w[h].nRec \in Nat
  <2> TAKE h \in H
  <2>1. IsMagic(w[h]) /\ h \in Slots
    BY <1>3 DEF ChainOf
  <2>2. w[h] \in Cells(b)
    BY <1>1, <2>1 DEF JournalType, CellOf
  <2>3. QED
    BY <2>1, <2>2 DEF Cells, HeaderCells, RecordCells, NoCell, Junk, IsMagic
<1>6. ChainOf(v, H, 1, n)
  BY <1>0, <1>3, <1>4, <1>5, ChainSame
<1>7. Chain(v, 1, n)
  BY <1>6 DEF Chain
<1>8. \A s \in 2..n - 1 : IsStable(new[s]) /\ Good(new[s].cur, i, x.orig)
  BY DEF Covered
<1>9. \A p \in 1..Len(i) : d[p] = Stable(i[p]) \/ Recs(new, p, 2, n - 1)
  BY DEF Covered, Recs
<1>10. QED
  BY <1>7, <1>8, <1>9 DEF Covered, v

\* The first segment of a journal covers the image that the file has.
LEMMA FirstSegment ==
  ASSUME NEW new, new = [s \in Slots |-> new[s]],
         NEW x, IsMagic(x), NEW k \in Nat, x.nRec = k, 1 + k <= MaxSlot,
         \A s \in 2..k + 1 :
           /\ IsStable(new[s]) /\ new[s].cur.kind = "record" /\ new[s].cur.nonce = x.nonce,
         NEW i, IsImage(i), \A s \in 2..k + 1 : Good(new[s].cur, i, x.orig),
         NoMagic(new, k + 2), Len(i) <= x.orig, Len(i) = 0 <=> x.orig = 0,
         NEW d, Quiet(d, i)
  PROVE  Covered(new, x, i, d, k + 2)
<1> DEFINE v == With(new, x)
           n == k + 2
<1>0. n \in 2..MaxSlot + 1 /\ MaxSlot \in Nat /\ 1 \in Slots /\ 1 \in 1..MaxSlot + 1
  BY Bounds DEF Slots
<1>1. v[1] = x /\ \A s \in Slots \ {1} : v[s] = new[s].cur
  BY WithIs
<1> HIDE DEF v
<1>2. Segment(v, 1)
  <2>1. \A s \in 2..k + 1 : s \in Slots \ {1}
    BY <1>0 DEF Slots
  <2>2. v[1].nRec = k /\ v[1].nonce = x.nonce
    BY <1>1
  <2>3. 1 + 1..1 + v[1].nRec = 2..k + 1 /\ 1 + v[1].nRec <= MaxSlot
    BY <1>0, <2>2
  <2>4. \A s \in 2..k + 1 : v[s].kind = "record" /\ v[s].nonce = x.nonce
    BY <1>1, <2>1
  <2>5. QED
    BY <2>2, <2>3, <2>4 DEF Segment
<1>3. Chain(v, 1, n)
  <2>1. Chain(v, 1, 1)
    BY <1>0, ChainNone
  <2>2. v[1].nRec \in Nat /\ IsMagic(v[1])
    BY <1>1
  <2>3. Chain(v, 1, 1 + v[1].nRec + 1)
    <3>1. 1 \in Nat \ {0} /\ 1 \in Slots
      BY <1>0
    <3>2. QED
      BY ONLY <1>2, <2>1, <2>2, <3>1, ChainAppend
  <2>4. 1 + v[1].nRec + 1 = n
    BY <1>1
  <2>5. QED
    BY <2>3, <2>4
<1>4. After(new, n, i, x.orig)
  BY DEF After, NoMagic
<1>5. Len(i) # 0 => NoPage \notin d[1].may
  <2> SUFFICES ASSUME Len(i) # 0
               PROVE  NoPage \notin d[1].may
    OBVIOUS
  <2>1. i[1] # NoPage /\ 1 \in 1..Len(i)
    BY FirstIs
  <2>2. d[1] = Stable(i[1])
    BY <2>1 DEF Quiet
  <2>3. Stable(i[1]).may = {i[1]}
    BY DEF Stable
  <2>4. QED
    BY <2>1, <2>2, <2>3
<1>6. \A p \in 1..Len(i) : d[p] = Stable(i[p])
  <2>1. Len(i) = 0 => 1..Len(i) = {}
    BY SMT
  <2>2. QED
    BY <2>1 DEF Quiet
<1>7. n - 1 = k + 1
  OBVIOUS
<1>8. QED
  BY <1>0, <1>3, <1>4, <1>5, <1>6, <1>7 DEF Covered, v

\* The open segment where a sync leaves what a read returns.
LEMMA SegmentCur ==
  ASSUME NEW g, NEW i, NEW cells, OpenSegment(g, i, cells), g.hdr \in Slots, End(g) \in g.hdr..MaxSlot,
         NEW new, \A s \in Slots : s <= End(g) => new[s].cur = cells[s].cur,
         \A s \in Slots : s > End(g) /\ new[s].cur.kind \in {"header", "record"} =>
           cells[s].cur.kind \in {"header", "record"} /\ new[s].cur.nonce = cells[s].cur.nonce,
         End(g) < MaxSlot => ~IsMagic(new[End(g) + 1].cur)
  PROVE  OpenSegment(g, i, new)
<1> DEFINE x == cells[g.hdr].cur
           y == new[g.hdr].cur
           e == End(g)
<1>0. MaxSlot \in Nat /\ g.hdr \in 1..MaxSlot /\ e \in g.hdr..MaxSlot
  BY Bounds DEF Slots
<1>1. /\ x.kind = "header"
      /\ \A s \in g.hdr + 1..e :
          /\ cells[s].cur.kind = "record" /\ cells[s].cur.nonce = x.nonce
          /\ Good(cells[s].cur, i, g.orig)
      /\ \A s \in e + 1..MaxSlot :
          cells[s].cur.kind \in {"header", "record"} => cells[s].cur.nonce # x.nonce
      /\ \/ x.nRec = 0
         \/ x.magic /\ x.nRec = g.nRec
  BY DEF OpenSegment
<1> HIDE DEF e
<1>2. y = x
  BY <1>0 DEF Slots, e
<1> HIDE DEF x, y
<1>3. \A s \in g.hdr + 1..e : s \in Slots /\ new[s].cur = cells[s].cur
  BY <1>0 DEF Slots, e
<1>4. \A s \in e + 1..MaxSlot :
          new[s].cur.kind \in {"header", "record"} => new[s].cur.nonce # y.nonce
  <2> TAKE s \in e + 1..MaxSlot
  <2>1. s \in Slots /\ s > e
    BY <1>0 DEF Slots
  <2>2. QED
    BY <1>1, <1>2, <2>1 DEF e
<1>5. /\ y.kind = "header"
      /\ \A s \in g.hdr + 1..e :
          /\ new[s].cur.kind = "record" /\ new[s].cur.nonce = y.nonce
          /\ Good(new[s].cur, i, g.orig)
  BY <1>1, <1>2, <1>3
<1>6. \/ y.nRec = 0
      \/ y.magic /\ y.nRec = g.nRec /\ (e < MaxSlot => ~IsMagic(new[e + 1].cur))
  BY <1>1, <1>2 DEF e
<1>7. QED
  BY <1>4, <1>5, <1>6 DEF OpenSegment, y, e

\* A transaction whose journal is being synced.
Syncing(g, l, i, b, cells) ==
  /\ IsPager(g) /\ PagerInv(g, l) /\ l = EXCLUSIVE_LOCK /\ g.hot = FALSE
  /\ g.eState = "cachemod" \/ g.eState = "dbmod"
  /\ g.jfd # 0 /\ g.jfd \in Inodes /\ dirent.cur = g.jfd
  /\ IsImage(i) /\ DbType(db) /\ DataType(g, b)
  /\ cells = [s \in Slots |-> cells[s]] /\ JournalType(cells, b)
  /\ \A s \in Slots : cells[s].cur \in cells[s].may
  /\ LogInv(g, cells) /\ LogK(g, i, db, cells) /\ WriteK(g, i, db, cells, mode)
  /\ SyncK(g, i, db, cells, dirent)
  /\ g.eState = "cachemod" => Quiet(db, i)
  /\ FilesK(i, db, journal, dirent, mode)
  /\ db[1].cur = NoPage => EmptyDb(db)
  /\ journal = [e \in Inodes |-> journal[e]]
  /\ g.header = TRUE /\ g.hdr \in Slots /\ g.nRec \in Nat /\ g.off \in g.hdr..MaxSlot
  /\ g.off = g.hdr + g.nRec /\ End(g) = g.off
  /\ OpenSegment(g, i, cells)
  /\ g.hdr = 1 <=> g.eState = "cachemod"

\* What there is at the syncs of a journal.
LEMMA SyncingHas ==
  ASSUME IInv, NEW b \in Nat, TInv(b), NEW i, PInv(i), NEW c \in Conns,
         pager[c].pc = "jsync" \/ pager[c].pc = "jhdr" \/ pager[c].pc = "jsync2"
  PROVE  Syncing(pager[c], lock[c], i, b, journal[pager[c].jfd])
<1> DEFINE g == pager[c]
           cells == journal[g.jfd]
<1>1. /\ PagerInv(g, lock[c]) /\ lock[c] = EXCLUSIVE_LOCK /\ g.jfd \in Inodes
      /\ g.eState = "cachemod" \/ g.eState = "dbmod"
      /\ LogInv(g, cells)
  BY SyncingLogs
<1>2. Active(g)
  BY <1>1 DEF Active, LoggingPcs
<1>3. /\ IsPager(g) /\ g.hot = FALSE /\ g.jfd # 0
      /\ dirent.cur = g.jfd /\ IsImage(i) /\ DbType(db) /\ DataType(g, b)
      /\ cells = [s \in Slots |-> cells[s]] /\ JournalType(cells, b)
      /\ LogK(g, i, db, cells) /\ WriteK(g, i, db, cells, mode) /\ SyncK(g, i, db, cells, dirent)
      /\ TrustK(g, lock[c], i, db, journal, dirent)
      /\ FilesK(i, db, journal, dirent, mode)
  BY <1>1, <1>2, ActiveHas
<1>4. db[1].cur = NoPage => EmptyDb(db)
  BY <1>1, AloneFirst
<1>5. journal = [e \in Inodes |-> journal[e]]
  BY DEF IInv, FilesInv
<1>6. \A s \in Slots : cells[s].cur \in cells[s].may
  BY <1>3 DEF JournalType, CellOf
<1> HIDE DEF g, cells
<1>7. g.eState = "cachemod" => Quiet(db, i)
  BY <1>3 DEF TrustK, Trusts
<1>8. /\ g.off \in 0..MaxSlot /\ g.hdr \in Nat \ {0} /\ g.nRec \in Nat /\ MaxSlot \in Nat
      /\ g.off = g.hdr + g.nRec /\ g.off = End(g)
  BY <1>1, <1>3, Bounds DEF LogInv, WriteK, g
<1>9. g.header
  BY <1>8 DEF End
<1>10. g.header = TRUE
  <2>1. g.header \in BOOLEAN \/ g.header = TRUE
    BY <1>9
  <2>2. QED
    BY <1>9, <2>1
<1>11. g.hdr \in Slots /\ g.off \in g.hdr..MaxSlot
  BY <1>8 DEF Slots
<1>12. OpenSegment(g, i, cells)
  BY <1>3, <1>9 DEF LogK
<1>13. g.hdr = 1 <=> g.eState = "cachemod"
  <2>1. g.eState = "cachemod" => g.hdr = 1
    BY <1>3 DEF LogK
  <2>2. g.eState # "cachemod" => g.hdr \in 2..MaxSlot + 1
    BY <1>3 DEF LogK, Covered
  <2>3. QED
    BY <1>8, <2>1, <2>2
<1>14. QED
  BY <1>1, <1>3, <1>4, <1>5, <1>6, <1>7, <1>8, <1>10, <1>11, <1>12, <1>13 DEF Syncing, g, cells

\* A pager under EXCLUSIVE between the first sync of its journal and the
\* second.
LEMMA SyncingGoes ==
  ASSUME NEW h, h.eState = "cachemod" \/ h.eState = "dbmod", h.hot = FALSE,
         h.pc = "jhdr" \/ h.pc = "jsync2",
         NEW i, NEW d, NEW j, NEW name, NEW m, name.cur = h.jfd,
         h.eState = "cachemod" => Quiet(d, i),
         LogK(h, i, d, j[h.jfd]), WriteK(h, i, d, j[h.jfd], m), SyncK(h, i, d, j[h.jfd], name)
  PROVE  ConnK(h, EXCLUSIVE_LOCK, i, d, j, name, m)
<1>1. TrustK(h, EXCLUSIVE_LOCK, i, d, j, name)
  BY DEF TrustK, Trusts, Cools
<1>2. OwnK(h, i, d, j[h.jfd], name, m)
  BY DEF OwnK, Playing, Undoes
<1>3. h.pc # "hotsync" /\ h.pc # "end"
  OBVIOUS
<1>4. QED
  BY <1>1, <1>2, <1>3, WriterIs DEF WriterK

\* The header of an earlier transaction that may follow is cleared.
Cleared(cells, n) ==
  IF n <= MaxSlot /\ IsMagic(cells[n].cur)
  THEN [cells EXCEPT ![n] = Written(@, [cells[n].cur EXCEPT !.magic = FALSE])]
  ELSE cells

\* The slot after the last record is cleared.
LEMMA ClearedIs ==
  ASSUME NEW b \in Nat, NEW cells, cells = [s \in Slots |-> cells[s]], JournalType(cells, b),
         NEW n \in Nat \ {0}
  PROVE  LET new == Cleared(cells, n)
         IN /\ new = [s \in Slots |-> new[s]] /\ JournalType(new, b)
            /\ \A s \in Slots : s # n => new[s] = cells[s]
            /\ n <= MaxSlot => /\ ~IsMagic(new[n].cur)
                               /\ new[n].cur.kind = cells[n].cur.kind
                               /\ cells[n].cur.kind \in {"header", "record"} =>
                                    new[n].cur.nonce = cells[n].cur.nonce
<1> DEFINE new == Cleared(cells, n)
           x == [cells[n].cur EXCEPT !.magic = FALSE]
<1>1. CASE n <= MaxSlot /\ IsMagic(cells[n].cur)
  <2>1. new = [cells EXCEPT ![n] = Written(cells[n], x)]
    BY <1>1 DEF Cleared
  <2>2. n \in Slots
    BY <1>1, Bounds DEF Slots
  <2>3. cells[n].cur \in HeaderCells(b) /\ CellOf(cells[n], Cells(b))
    <3>1. cells[n].cur \in Cells(b) /\ CellOf(cells[n], Cells(b))
      BY <2>2 DEF JournalType, CellOf
    <3>2. QED
      BY <1>1, <3>1 DEF Cells, HeaderCells, RecordCells, NoCell, Junk, IsMagic
  <2>4. /\ x \in HeaderCells(b) /\ ~IsMagic(x) /\ x.kind = cells[n].cur.kind
        /\ x.nonce = cells[n].cur.nonce
    BY <2>3 DEF HeaderCells, IsMagic
  <2>5. x \in Cells(b)
    BY <2>4 DEF Cells
  <2> HIDE DEF x, new
  <2>6. CellOf(Written(cells[n], x), Cells(b)) /\ Written(cells[n], x).cur = x
    BY <2>3, <2>5, WrittenCell DEF Written
  <2>7. new = [s \in Slots |-> new[s]] /\ new[n] = Written(cells[n], x)
        /\ \A s \in Slots : s # n => new[s] = cells[s]
    BY <2>1, <2>2
  <2>8. JournalType(new, b)
    BY <2>6, <2>7 DEF JournalType
  <2>9. QED
    BY <2>4, <2>6, <2>7, <2>8 DEF new
<1>2. CASE ~(n <= MaxSlot /\ IsMagic(cells[n].cur))
  <2>1. new = cells
    BY <1>2 DEF Cleared
  <2>2. QED
    BY <1>2, <2>1
<1>3. QED
  BY <1>1, <1>2

\* The journal as the first sync leaves it.
LEMMA JSyncCells ==
  ASSUME NEW b \in Nat, NEW cells, cells = [s \in Slots |-> cells[s]], JournalType(cells, b),
         NEW n \in Nat \ {0}
  PROVE  LET new == Sync(Cleared(cells, n))
         IN /\ new = [s \in Slots |-> new[s]] /\ JournalType(new, b)
            /\ \A s \in Slots : IsStable(new[s]) /\ new[s].may = {new[s].cur}
            /\ \A s \in Slots : s # n => new[s] = Stable(cells[s].cur) /\ new[s].cur = cells[s].cur
            /\ n <= MaxSlot => /\ ~IsMagic(new[n].cur)
                               /\ new[n].cur.kind = cells[n].cur.kind
                               /\ cells[n].cur.kind \in {"header", "record"} =>
                                    new[n].cur.nonce = cells[n].cur.nonce
<1> DEFINE old == Cleared(cells, n)
           new == Sync(old)
<1>1. /\ old = [s \in Slots |-> old[s]] /\ JournalType(old, b)
      /\ \A s \in Slots : s # n => old[s] = cells[s]
      /\ n <= MaxSlot => /\ ~IsMagic(old[n].cur)
                         /\ old[n].cur.kind = cells[n].cur.kind
                         /\ cells[n].cur.kind \in {"header", "record"} =>
                              old[n].cur.nonce = cells[n].cur.nonce
  BY ClearedIs
<1> HIDE DEF old
<1>2. /\ new = [s \in Slots |-> new[s]] /\ JournalType(new, b)
      /\ \A s \in Slots : new[s] = Stable(old[s].cur) /\ new[s].cur = old[s].cur
  BY <1>1, SyncedCells
<1> HIDE DEF new
<1>3. \A s \in Slots : IsStable(new[s]) /\ new[s].may = {new[s].cur}
  <2>1. \A y : Stable(y).cur = y /\ Stable(y).may = {y}
    BY DEF Stable
  <2>2. QED
    BY <1>2, <2>1 DEF IsStable
<1>4. n <= MaxSlot => n \in Slots
  BY Bounds DEF Slots
<1>5. \A s \in Slots : s # n => new[s] = Stable(cells[s].cur) /\ new[s].cur = cells[s].cur
  BY <1>1, <1>2
<1>6. n <= MaxSlot => new[n].cur = old[n].cur
  BY <1>2, <1>4
<1>7. QED
  BY <1>1, <1>2, <1>3, <1>5, <1>6 DEF new, old

\* The first sync of the journal.
LEMMA JSyncKept ==
  ASSUME IInv, NEW b \in Nat, TInv(b), NEW i, PInv(i), NEW c \in Conns, JSync(c)
  PROVE  PInv(i)'
<1> DEFINE g == pager[c]
           cells == journal[g.jfd]
           n == g.off + 1
           old == Cleared(cells, n)
           new == Sync(old)
           j == [e \in Inodes |->
                   IF e = g.jfd THEN new
                   ELSE IF \E d \in Conns : pager[d].jfd = e THEN journal[e]
                   ELSE NoJournal]
           name == [dirent EXCEPT !.may = {dirent.cur}]
           h == [g EXCEPT !.pc = "jhdr"]
           x == cells[1].cur
<1>1. /\ g.pc = "jsync" /\ journal' = j /\ dirent' = name /\ Set(c, h)
      /\ UNCHANGED lockVars /\ mode' = mode /\ db' = db
  BY DEF JSync, SyncJournalFile, Cleared, Goto, lockVars
<1>2. Syncing(g, lock[c], i, b, cells)
  BY <1>1, SyncingHas
<1>3. name.cur = dirent.cur /\ name.may = {dirent.cur}
  BY DEF IInv, FilesInv
<1>4. /\ \A f \in Fields \ {"pc"} : h[f] = g[f]
      /\ h.pc = "jhdr" /\ IsPager(h)
  BY <1>2 DEF Syncing, IsPager, Fields
<1>5. g.jfd \in Inodes => j[g.jfd] = new
  OBVIOUS
<1> HIDE DEF g, cells, h, j, name, n, x
<1>6. n \in Nat \ {0} /\ n = g.off + 1 /\ n \in 2..MaxSlot + 1 /\ MaxSlot \in Nat /\ g.off \in Nat /\ g.hdr \in Nat
      /\ g.hdr < n /\ g.hdr >= 1
  <2>1. g.hdr \in Slots /\ g.off \in g.hdr..MaxSlot
    BY <1>2 DEF Syncing
  <2>2. MaxSlot \in Nat
    BY Bounds
  <2>3. g.hdr \in Nat /\ g.hdr >= 1
    BY <2>1, <2>2 DEF Slots
  <2>4. g.off \in Nat /\ g.off >= g.hdr /\ g.off <= MaxSlot
    BY <2>1, <2>2, <2>3
  <2>5. QED
    BY <2>2, <2>3, <2>4 DEF n
<1>7. /\ new = [s \in Slots |-> new[s]] /\ JournalType(new, b)
      /\ \A s \in Slots : IsStable(new[s]) /\ new[s].may = {new[s].cur}
      /\ \A s \in Slots : s # n => new[s] = Stable(cells[s].cur) /\ new[s].cur = cells[s].cur
      /\ n <= MaxSlot => /\ ~IsMagic(new[n].cur)
                         /\ new[n].cur.kind = cells[n].cur.kind
                         /\ cells[n].cur.kind \in {"header", "record"} =>
                              new[n].cur.nonce = cells[n].cur.nonce
  BY SMTT(60), <1>2, <1>6, JSyncCells DEF Syncing
<1>8. /\ old = [s \in Slots |-> old[s]] /\ JournalType(old, b)
      /\ \A s \in Slots : s # n => old[s] = cells[s]
  BY <1>2, <1>6, ClearedIs DEF Syncing
<1>9. Covered(cells, x, i, db, g.hdr) /\ NoMagic(cells, g.hdr) => Covered(new, x, i, db, g.hdr)
  <2> SUFFICES ASSUME Covered(cells, x, i, db, g.hdr), NoMagic(cells, g.hdr)
               PROVE  Covered(new, x, i, db, g.hdr)
    OBVIOUS
  <2>1. x \in Cells(b)
    <3>1. 1 \in Slots
      BY <1>6 DEF Slots
    <3>2. QED
      BY <1>2, <3>1 DEF Syncing, JournalType, CellOf, x
  <2>2. \A s \in 2..g.hdr - 1 : old[s] = cells[s]
    BY <1>6, <1>8 DEF Slots
  <2>3. After(old, g.hdr, i, x.orig)
    <3>1. g.hdr \in Slots /\ g.hdr # n
      BY <1>2, <1>6 DEF Syncing
    <3>2. old[g.hdr] = cells[g.hdr]
      BY <1>8, <3>1
    <3>3. QED
      BY <3>2 DEF After, NoMagic
  <2> HIDE DEF old, new
  <2>4. cells = [s \in Slots |-> cells[s]] /\ JournalType(cells, b)
    BY <1>2 DEF Syncing
  <2>5. Covered(old, x, i, db, g.hdr)
    BY <1>8, <2>1, <2>2, <2>3, <2>4, CoveredSame
  <2>6. QED
    BY <1>8, <2>1, <2>5, CoveredJournalSync DEF new
<1> HIDE DEF old, new
<1>10. 1 \in Slots /\ new[1].cur = x /\ IsStable(new[1]) /\ new[1].may = {x}
  BY <1>6, <1>7 DEF Slots, x
<1>11. /\ h.hdr = g.hdr /\ h.header = TRUE /\ h.nRec = g.nRec /\ h.off = g.off /\ h.orig = g.orig
       /\ h.eState = g.eState /\ h.jfd = g.jfd /\ h.nonce = g.nonce /\ h.commit = g.commit
       /\ h.spill = g.spill /\ h.hot = FALSE
  BY <1>2, <1>4 DEF Fields, Syncing
<1>12. SameWrites(g, h)
  BY <1>2, <1>4 DEF Fields, SameWrites, SameJournal
<1>13. ~IsMagic(cells[g.hdr].cur)
  BY <1>1, <1>2 DEF Syncing, SyncK, NoMagic, Slots
<1>14. NoMagic(cells, g.hdr) \/ g.eState = "cachemod"
  BY <1>1, <1>2 DEF Syncing, SyncK
<1>15. End(h) = g.off /\ LogK(h, i, db, new)
  <2>1. End(h) = End(g) /\ End(g) = g.off
    BY <1>2, <1>12, LogSame DEF SameWrites, Syncing
  <2>2. OpenSegment(g, i, new)
    <3>1. \A s \in Slots : s <= End(g) => new[s].cur = cells[s].cur
      BY <1>6, <1>7, <2>1 DEF Slots
    <3>2. \A s \in Slots : s > End(g) /\ new[s].cur.kind \in {"header", "record"} =>
           cells[s].cur.kind \in {"header", "record"} /\ new[s].cur.nonce = cells[s].cur.nonce
      BY <1>7 DEF Slots
    <3>3. End(g) < MaxSlot => ~IsMagic(new[End(g) + 1].cur)
      BY <1>6, <1>7, <2>1
    <3>4. g.hdr \in Slots /\ End(g) \in g.hdr..MaxSlot /\ OpenSegment(g, i, cells)
      BY <1>2 DEF Syncing
    <3>5. QED
      BY <3>1, <3>2, <3>3, <3>4, SegmentCur
  <2>3. OpenSegment(h, i, new)
    BY <1>2, <1>11, <2>2, SegmentSame DEF Syncing
  <2>4. g.eState # "cachemod" => IsMagic(x) /\ Covered(new, x, i, db, g.hdr)
    <3> SUFFICES ASSUME g.eState # "cachemod"
                 PROVE  IsMagic(x) /\ Covered(new, x, i, db, g.hdr)
      OBVIOUS
    <3>1. IsMagic(x) /\ Covered(cells, x, i, db, g.hdr)
      BY <1>2 DEF Syncing, LogK, x
    <3>2. QED
      BY <1>9, <1>14, <3>1
  <2>5. x.kind = "header" /\ x.orig = g.orig /\ Len(i) <= g.orig /\ (Len(i) = 0 <=> g.orig = 0)
        /\ (g.eState = "cachemod" => g.hdr = 1)
    BY <1>2 DEF Syncing, LogK, x
  <2>6. g.hdr \in 1..MaxSlot + 1 /\ g.hdr <= g.off + 1 /\ g.off <= MaxSlot
    BY <1>6
  <2>7. h.nRec \in Nat
    BY <1>2, <1>11 DEF Syncing, SameJournal
  <2>8. QED
    BY <1>10, <1>11, <2>1, <2>3, <2>4, <2>5, <2>6, <2>7 DEF LogK
<1>16. WriteK(h, i, db, new, mode)
  <2>1. WriteK(h, i, db, cells, mode)
    BY <1>1, <1>2, <1>12, WriteSame DEF Syncing
  <2>2. \A p : Recs(cells, p, 2, h.off) => Recs(new, p, 2, h.off)
    <3>1. \A s \in 2..g.off : s \in Slots /\ s # n
      BY <1>6 DEF Slots
    <3>2. \A s \in 2..g.off : new[s].cur = cells[s].cur
      BY <1>7, <3>1
    <3>3. QED
      BY <1>11, <3>2 DEF Recs
  <2>3. new[h.hdr].cur = cells[h.hdr].cur
    <3>1. g.hdr \in Slots /\ g.hdr # n
      BY <1>2, <1>6 DEF Syncing
    <3>2. QED
      BY <1>7, <1>11, <3>1
  <2>4. QED
    BY <2>1, <2>2, <2>3 DEF WriteK
<1>17. SyncK(h, i, db, new, name)
  <2>1. NoMagic(new, g.hdr)
    <3>1. g.hdr \in Slots /\ g.hdr # n
      BY <1>2, <1>6 DEF Syncing
    <3>2. QED
      BY <1>7, <1>13, <3>1 DEF NoMagic
  <2>2. NoMagic(new, g.off + 1)
    <3>1. n <= MaxSlot => n \in Slots
      BY <1>6 DEF Slots
    <3>2. QED
      BY <1>6, <1>7, <3>1 DEF NoMagic
  <2>3. SyncK(g, i, db, cells, dirent)
    BY <1>2 DEF Syncing
  <2>4. (g.spill = 0 => g.commit) /\ (g.commit => g.spill = 0) /\ g.spill # 1
    BY <1>1, <2>3 DEF SyncK
  <2>5. QED
    BY <1>3, <1>4, <1>7, <1>11, <2>1, <2>2, <2>4 DEF SyncK
<1>18. j[g.jfd] = new /\ dirent.cur = g.jfd /\ g.jfd # 0
  BY <1>2, <1>5 DEF Syncing
<1>19. ConnK(h, lock[c], i, db, j, name, mode)
  <2>1. g.eState = "cachemod" => Quiet(db, i)
    BY <1>2 DEF Syncing
  <2>2. (g.eState = "cachemod" \/ g.eState = "dbmod") /\ lock[c] = EXCLUSIVE_LOCK
    BY <1>2 DEF Syncing
  <2>3. QED
    BY <1>3, <1>4, <1>11, <1>15, <1>16, <1>17, <1>18, <2>1, <2>2, SyncingGoes
<1>20. FilesK(i, db, j, name, mode)
  <2>1. CASE g.eState = "cachemod"
    <3>1. Quiet(db, i) /\ ~IsMagic(x)
      BY <1>2, <1>13, <2>1 DEF Syncing, x
    <3>2. \A e \in name.may : NamedK(e, i, db, j, mode)
      BY <1>3, <1>10, <1>18, <3>1 DEF NamedK
    <3>3. QED
      BY <1>3, <1>10, <1>18, <3>1, <3>2 DEF FilesK
  <2>2. CASE g.eState # "cachemod"
    <3>1. IsMagic(x) /\ Covered(new, x, i, db, g.hdr)
      BY <1>10, <1>11, <1>15, <2>2 DEF LogK
    <3>2. IsImage(i)
      BY <1>2 DEF Syncing
    <3>3. QED
      BY <1>3, <1>10, <1>18, <3>1, <3>2, CoveredFiles
  <2>3. QED
    BY <2>1, <2>2
<1>21. ~Dying(j, name)
  BY <1>3, <1>10, <1>18 DEF Dying
<1>22. lock[c] = EXCLUSIVE_LOCK /\ IsImage(i) /\ (db[1].cur = NoPage => EmptyDb(db))
  BY <1>2 DEF Syncing
<1>23. QED
  BY <1>1, <1>19, <1>20, <1>21, <1>22, AlonePromises

\* With its header in place the open segment covers what the ones before it do not.
HeadCovers(g, i, cells, new, H) ==
  IF g.eState = "cachemod" THEN Covered(new, H, i, db, g.off + 1)
  ELSE Covered(new, cells[1].cur, i, db, g.hdr)

\* The records of the open segment, as the rest of the journal, are on disk: the
\* journal covers the image as soon as its header is there.
LEMMA HeaderCovers ==
  ASSUME NEW g, NEW l, NEW i, NEW b \in Nat, NEW cells, Syncing(g, l, i, b, cells),
         NEW new, new = [s \in Slots |-> new[s]],
         \A s \in Slots : s # g.hdr => new[s] = cells[s] /\ IsStable(new[s]),
         NoMagic(new, g.off + 1),
         NEW H, H = Header(TRUE, g.nRec, g.nonce, g.orig),
         \A y \in new[g.hdr].may : IsMagic(y) => y = H
  PROVE  HeadCovers(g, i, cells, new, H)
<1>1. /\ IsImage(i) /\ cells = [s \in Slots |-> cells[s]] /\ JournalType(cells, b)
      /\ g.hdr \in Slots /\ g.nRec \in Nat /\ g.off \in g.hdr..MaxSlot /\ g.off = g.hdr + g.nRec
      /\ OpenSegment(g, i, cells) /\ End(g) = g.off /\ g.nonce = cells[g.hdr].cur.nonce
      /\ MaxSlot \in Nat /\ g.hdr \in Nat \ {0} /\ LogK(g, i, db, cells)
      /\ (g.eState = "cachemod" => Quiet(db, i)) /\ (g.hdr = 1 <=> g.eState = "cachemod")
  BY Bounds DEF Syncing, WriteK, Slots
<1>2. Len(i) <= g.orig /\ (Len(i) = 0 <=> g.orig = 0) /\ cells[1].cur.orig = g.orig
  BY <1>1 DEF LogK
<1>3. /\ H.kind = "header" /\ IsMagic(H) /\ H.nRec = g.nRec /\ H.nonce = g.nonce /\ H.orig = g.orig
  BY DEF Header, IsMagic
<1>4. \A s \in g.hdr + 1..g.off :
        /\ IsStable(new[s]) /\ new[s].cur.kind = "record" /\ new[s].cur.nonce = g.nonce
        /\ Good(new[s].cur, i, g.orig)
  <2> TAKE s \in g.hdr + 1..g.off
  <2>1. s \in Slots /\ s # g.hdr
    BY <1>1 DEF Slots
  <2>2. new[s] = cells[s] /\ IsStable(new[s])
    BY <2>1
  <2>3. cells[s].cur.kind = "record" /\ cells[s].cur.nonce = g.nonce /\ Good(cells[s].cur, i, g.orig)
    BY <1>1 DEF OpenSegment
  <2>4. QED
    BY <2>2, <2>3
<1>5. CASE g.eState = "cachemod"
  <2>1. g.hdr = 1 /\ g.off = 1 + g.nRec /\ g.nRec + 2 = g.off + 1 /\ 1 + g.nRec <= MaxSlot
    BY <1>1, <1>5
  <2>2. \A s \in 2..g.nRec + 1 :
          /\ IsStable(new[s]) /\ new[s].cur.kind = "record" /\ new[s].cur.nonce = H.nonce
          /\ Good(new[s].cur, i, H.orig)
    <3>1. 2..g.nRec + 1 = g.hdr + 1..g.off
      BY <1>1, <2>1
    <3>2. QED
      BY <1>3, <1>4, <3>1
  <2>3. Quiet(db, i)
    BY <1>1, <1>5
  <2>4. NoMagic(new, g.nRec + 2)
    BY <2>1
  <2>5. Covered(new, H, i, db, g.nRec + 2)
    BY <1>1, <1>2, <1>3, <2>1, <2>2, <2>3, <2>4, FirstSegment
  <2>6. QED
    BY <1>5, <2>1, <2>5 DEF HeadCovers
<1>6. CASE g.eState # "cachemod"
  <2> DEFINE x == cells[1].cur
  <2>1. Covered(cells, x, i, db, g.hdr)
    BY <1>1, <1>6 DEF LogK
  <2>2. g.hdr \in 2..MaxSlot + 1 /\ 1 \in Slots
    BY <1>1, <2>1 DEF Covered, Slots
  <2>3. x \in Cells(b)
    BY <1>1, <2>2 DEF JournalType, CellOf
  <2>4. \A s \in 2..g.hdr - 1 : new[s] = cells[s]
    <3>1. \A s \in 2..g.hdr - 1 : s \in Slots /\ s # g.hdr
      BY <1>1 DEF Slots
    <3>2. QED
      BY <3>1
  <2>5. After(new, g.hdr, i, x.orig)
    <3> SUFFICES ASSUME NEW y \in new[g.hdr].may, IsMagic(y)
                 PROVE  /\ g.hdr + y.nRec <= MaxSlot
                        /\ \A s \in g.hdr + 1..g.hdr + y.nRec :
                             /\ IsStable(new[s]) /\ new[s].cur.kind = "record"
                             /\ new[s].cur.nonce = y.nonce /\ Good(new[s].cur, i, x.orig)
                        /\ NoMagic(new, g.hdr + y.nRec + 1)
      BY DEF After
    <3>1. y = H
      OBVIOUS
    <3>2. g.hdr + y.nRec = g.off /\ y.nonce = g.nonce /\ x.orig = g.orig
      BY <1>1, <1>2, <1>3, <3>1
    <3>3. QED
      BY SMTT(60), <1>1, <1>4, <3>2
  <2> HIDE DEF x
  <2>6. Covered(new, x, i, db, g.hdr)
    BY <1>1, <2>1, <2>3, <2>4, <2>5, CoveredSame
  <2>7. QED
    BY <1>6, <2>6 DEF x, HeadCovers
<1>7. QED
  BY <1>5, <1>6

\* The header gets its magic and its count.
LEMMA JHeaderKept ==
  ASSUME IInv, NEW b \in Nat, TInv(b), NEW i, PInv(i), NEW c \in Conns, JHeader(c)
  PROVE  PInv(i)'
<1> DEFINE g == pager[c]
           cells == journal[g.jfd]
           H == Header(TRUE, g.nRec, g.nonce, g.orig)
           new == [cells EXCEPT ![g.hdr] = Written(cells[g.hdr], H)]
           j == [journal EXCEPT ![g.jfd] = new]
           h == [g EXCEPT !.pc = "jsync2"]
           x == cells[1].cur
<1>1. /\ g.pc = "jhdr" /\ Set(c, h) /\ journal' = [journal EXCEPT ![g.jfd][g.hdr] = Written(@, H)]
      /\ UNCHANGED lockVars /\ mode' = mode /\ db' = db /\ dirent' = dirent
  BY DEF JHeader, PutCell, Goto, lockVars
<1>2. Syncing(g, lock[c], i, b, cells)
  BY <1>1, SyncingHas
<1>3. journal' = j
  BY <1>1
<1>4. /\ \A f \in Fields \ {"pc"} : h[f] = g[f]
      /\ h.pc = "jsync2" /\ IsPager(h)
  BY <1>2 DEF Syncing, IsPager, Fields
<1>5. j[g.jfd] = new
  BY <1>2 DEF Syncing
<1>6. /\ H.kind = "header" /\ IsMagic(H) /\ H.nRec = g.nRec /\ H.nonce = g.nonce /\ H.orig = g.orig
      /\ H.magic = TRUE
  BY DEF Header, IsMagic
<1>7. H = Header(TRUE, g.nRec, g.nonce, g.orig)
  OBVIOUS
<1> HIDE DEF g, cells, h, j, x, H
<1>8. /\ new = [s \in Slots |-> new[s]] /\ \A s \in Slots : s # g.hdr => new[s] = cells[s]
      /\ new[g.hdr] = Written(cells[g.hdr], H)
  BY <1>2 DEF Syncing
<1>9. new[g.hdr].cur = H /\ new[g.hdr].may = cells[g.hdr].may \cup {H}
  BY <1>8 DEF Written
<1> HIDE DEF new
<1>10. SyncK(g, i, db, cells, dirent) /\ g.hdr \in Slots /\ g.off \in g.hdr..MaxSlot /\ g.off = g.hdr + g.nRec
       /\ MaxSlot \in Nat /\ g.hdr \in Nat \ {0} /\ g.off \in Nat /\ g.nRec \in Nat /\ 1 \in Slots
       /\ End(g) = g.off /\ g.header = TRUE
  BY <1>2, Bounds DEF Syncing, Slots
<1>11. /\ dirent.may = {dirent.cur} /\ NoMagic(cells, g.off + 1) /\ NoMagic(cells, g.hdr)
       /\ \A s \in Slots : s = g.hdr \/ IsStable(cells[s])
       /\ g.spill = 0 => g.commit
       /\ g.commit => g.spill = 0
       /\ g.spill # 1
  BY <1>1, <1>10 DEF SyncK
<1>12. \A s \in Slots : s # g.hdr => new[s] = cells[s] /\ IsStable(new[s])
  BY <1>8, <1>11
<1>13. NoMagic(new, g.off + 1)
  <2>1. g.off + 1 <= MaxSlot => g.off + 1 \in Slots /\ g.off + 1 # g.hdr
    BY <1>10 DEF Slots
  <2>2. QED
    BY <1>8, <1>11, <2>1 DEF NoMagic
<1>14. \A y \in new[g.hdr].may : IsMagic(y) => y = H
  <2>1. g.hdr <= MaxSlot
    BY <1>10
  <2>2. QED
    BY <1>9, <1>11, <2>1 DEF NoMagic
<1>15. HeadCovers(g, i, cells, new, H)
  BY <1>2, <1>7, <1>8, <1>12, <1>13, <1>14, HeaderCovers
<1>16. /\ h.hdr = g.hdr /\ h.header = TRUE /\ h.nRec = g.nRec /\ h.off = g.off /\ h.orig = g.orig
       /\ h.eState = g.eState /\ h.jfd = g.jfd /\ h.nonce = g.nonce /\ h.commit = g.commit
       /\ h.spill = g.spill /\ h.hot = FALSE
  BY <1>2, <1>4 DEF Fields, Syncing
<1>17. SameWrites(g, h)
  BY <1>2, <1>4 DEF Fields, SameWrites, SameJournal
<1>18. (g.eState = "cachemod" <=> g.hdr = 1) /\ (g.eState = "cachemod" \/ g.eState = "dbmod")
       /\ IsImage(i) /\ lock[c] = EXCLUSIVE_LOCK /\ (g.eState = "cachemod" => Quiet(db, i))
       /\ (db[1].cur = NoPage => EmptyDb(db))
  BY <1>2 DEF Syncing
<1>19. g.eState # "cachemod" => new[1] = cells[1] /\ IsStable(new[1]) /\ new[1].cur = x
  BY <1>10, <1>12, <1>18 DEF x
<1>20. g.eState = "cachemod" => new[1].cur = H
  BY <1>9, <1>18
<1>21. End(h) = g.off /\ LogK(h, i, db, new)
  <2>1. End(h) = End(g) /\ End(g) = g.off
    BY <1>10, <1>17, LogSame DEF SameWrites
  <2>2. OpenSegment(g, i, cells) /\ g.nonce = cells[g.hdr].cur.nonce
    BY <1>2, <1>10 DEF Syncing, WriteK
  <2>3. \A s \in g.hdr + 1..g.off :
          /\ new[s].cur.kind = "record" /\ new[s].cur.nonce = g.nonce
          /\ Good(new[s].cur, i, g.orig)
    <3> TAKE s \in g.hdr + 1..g.off
    <3>1. s \in Slots /\ s # g.hdr
      BY <1>10 DEF Slots
    <3>2. cells[s].cur.kind = "record" /\ cells[s].cur.nonce = g.nonce /\ Good(cells[s].cur, i, g.orig)
      BY <2>1, <2>2 DEF OpenSegment
    <3>3. QED
      BY <1>12, <3>1, <3>2
  <2>4. \A s \in g.off + 1..MaxSlot :
          new[s].cur.kind \in {"header", "record"} => new[s].cur.nonce # g.nonce
    <3> TAKE s \in g.off + 1..MaxSlot
    <3>1. s \in Slots /\ s # g.hdr
      BY <1>10 DEF Slots
    <3>2. cells[s].cur.kind \in {"header", "record"} => cells[s].cur.nonce # g.nonce
      BY <2>1, <2>2 DEF OpenSegment
    <3>3. QED
      BY <1>12, <3>1, <3>2
  <2>5. g.off < MaxSlot => ~IsMagic(new[g.off + 1].cur)
    <3> SUFFICES ASSUME g.off < MaxSlot
                 PROVE  ~IsMagic(new[g.off + 1].cur)
      OBVIOUS
    <3>1. g.off + 1 \in Slots /\ g.off + 1 # g.hdr /\ g.off + 1 <= MaxSlot
      BY <1>10 DEF Slots
    <3>2. cells[g.off + 1].cur \in cells[g.off + 1].may
      BY <1>2, <3>1 DEF Syncing
    <3>3. QED
      BY <1>11, <1>12, <3>1, <3>2 DEF NoMagic
  <2>6. OpenSegment(g, i, new)
    BY <1>6, <1>9, <2>1, <2>3, <2>4, <2>5 DEF OpenSegment
  <2>7. OpenSegment(h, i, new)
    BY <1>10, <1>16, <2>6, SegmentSame
  <2>8. x.kind = "header" /\ x.orig = g.orig /\ Len(i) <= g.orig /\ (Len(i) = 0 <=> g.orig = 0)
        /\ (g.eState # "cachemod" => IsMagic(x))
    BY <1>2 DEF Syncing, LogK, x
  <2>9. new[1].cur.kind = "header" /\ new[1].cur.orig = g.orig
    BY <1>6, <1>19, <1>20, <2>8
  <2>10. g.hdr \in 1..MaxSlot + 1 /\ g.hdr <= g.off + 1 /\ g.off <= MaxSlot
    BY <1>10
  <2>11. g.eState # "cachemod" =>
           IsStable(new[1]) /\ IsMagic(new[1].cur) /\ Covered(new, new[1].cur, i, db, g.hdr)
    BY <1>15, <1>19, <2>8 DEF x, HeadCovers
  <2>12. h.nRec \in Nat
    BY <1>2, <1>16 DEF Syncing, SameJournal
  <2>13. QED
    BY <1>16, <1>18, <2>1, <2>7, <2>8, <2>9, <2>10, <2>11, <2>12 DEF LogK
<1>22. WriteK(h, i, db, new, mode)
  <2>1. WriteK(h, i, db, cells, mode)
    BY <1>1, <1>2, <1>17, WriteSame DEF Syncing
  <2>2. \A p : Recs(cells, p, 2, h.off) => Recs(new, p, 2, h.off)
    <3> SUFFICES ASSUME NEW p, NEW s \in 2..g.off, cells[s].cur.kind = "record", cells[s].cur.pgno = p
                 PROVE  Recs(new, p, 2, g.off)
      BY <1>16 DEF Recs
    <3>1. cells[g.hdr].cur.kind = "header"
      BY <1>2 DEF Syncing, OpenSegment
    <3>2. s \in Slots /\ s # g.hdr
      BY <1>10, <3>1 DEF Slots
    <3>3. new[s] = cells[s]
      BY <1>8, <3>2
    <3>4. QED
      BY <3>3 DEF Recs
  <2>3. g.nonce = new[g.hdr].cur.nonce
    BY <1>6, <1>9
  <2>4. QED
    BY <1>16, <2>1, <2>2, <2>3 DEF WriteK
<1>23. SyncK(h, i, db, new, dirent)
  <2>1. \A s \in Slots : s = g.hdr \/ IsStable(new[s])
    BY <1>12
  <2>2. QED
    BY <1>4, <1>7, <1>11, <1>13, <1>14, <1>16, <2>1 DEF SyncK
<1>24. dirent.cur = g.jfd /\ g.jfd # 0
  BY <1>2 DEF Syncing
<1>25. ConnK(h, lock[c], i, db, j, dirent, mode)
  BY <1>4, <1>5, <1>16, <1>18, <1>21, <1>22, <1>23, <1>24, SyncingGoes
<1>26. FilesK(i, db, j, dirent, mode)
  <2>1. CASE g.eState = "cachemod"
    <3>1. Quiet(db, i)
      BY <1>18, <2>1
    <3>2. Covered(new, H, i, db, g.off + 1) /\ new[1].cur = H
      BY <1>15, <1>20, <2>1 DEF HeadCovers
    <3>3. Revives(new, H, i, db, mode)
      <4>1. Len(i) <= Len(i)
        BY ImageIs, <1>18
      <4>2. QED
        BY <1>18, <3>2, <4>1 DEF Revives
    <3>4. \A y \in new[1].may : IsMagic(y) => y = H
      BY <1>14, <1>18, <2>1
    <3>5. \A e \in dirent.may : NamedK(e, i, db, j, mode)
      BY <1>5, <1>11, <1>24, <3>1, <3>3, <3>4 DEF NamedK
    <3>6. QED
      BY <1>5, <1>11, <1>24, <3>1, <3>2, <3>5 DEF FilesK
  <2>2. CASE g.eState # "cachemod"
    <3>1. IsMagic(new[1].cur) /\ IsStable(new[1]) /\ Covered(new, new[1].cur, i, db, g.hdr)
      BY <1>16, <1>21, <2>2 DEF LogK
    <3>2. QED
      BY <1>5, <1>11, <1>18, <1>24, <3>1, CoveredFiles
  <2>3. QED
    BY <2>1, <2>2
<1>27. ~Dying(j, dirent)
  <2>1. IsMagic(new[1].cur)
    <3>1. CASE g.eState = "cachemod"
      BY <1>6, <1>20, <3>1
    <3>2. CASE g.eState # "cachemod"
      BY <1>16, <1>21, <3>2 DEF LogK
    <3>3. QED
      BY <3>1, <3>2
  <2>2. QED
    BY <1>5, <1>24, <2>1 DEF Dying
<1>28. QED
  BY <1>1, <1>3, <1>18, <1>25, <1>26, <1>27, AlonePromises

\* After the second sync the journal covers the image up to its end.
Covers(g, i, b, cells, new) ==
  /\ new = [s \in Slots |-> new[s]] /\ JournalType(new, b)
  /\ \A s \in Slots : IsStable(new[s]) /\ new[s].cur = cells[s].cur /\ new[s].may = {cells[s].cur}
  /\ NoMagic(new, g.off + 1) /\ IsMagic(new[1].cur)
  /\ Covered(new, new[1].cur, i, db, g.off + 1)
  /\ cells[g.hdr].cur = Header(TRUE, g.nRec, g.nonce, g.orig)

\* When the header that counts the records is on disk they cover more.
LEMMA JSync2Covers ==
  ASSUME NEW g, NEW l, NEW i, NEW b \in Nat, NEW cells, Syncing(g, l, i, b, cells), g.pc = "jsync2"
  PROVE  Covers(g, i, b, cells, Sync(cells))
<1> DEFINE new == Sync(cells)
           H == Header(TRUE, g.nRec, g.nonce, g.orig)
<1>0. new = Sync(cells)
  OBVIOUS
<1> HIDE DEF new
<1>1. /\ cells = [s \in Slots |-> cells[s]] /\ JournalType(cells, b)
      /\ \A s \in Slots : cells[s].cur \in cells[s].may
      /\ g.hdr \in Slots /\ g.nRec \in Nat /\ g.off \in g.hdr..MaxSlot /\ g.off = g.hdr + g.nRec
      /\ SyncK(g, i, db, cells, dirent) /\ LogK(g, i, db, cells)
      /\ (g.hdr = 1 <=> g.eState = "cachemod") /\ g.hdr \in Nat /\ g.off \in Nat /\ MaxSlot \in Nat
      /\ 1 \in Slots
  BY Bounds DEF Syncing, Slots
<1>2. cells[g.hdr].cur = H
  BY DEF Syncing, LogInv
<1>3. /\ IsMagic(H) /\ H.nRec = g.nRec
  BY DEF Header, IsMagic
<1>4. H = Header(TRUE, g.nRec, g.nonce, g.orig)
  OBVIOUS
<1> HIDE DEF H
<1>5. /\ new = [s \in Slots |-> new[s]] /\ JournalType(new, b)
      /\ \A s \in Slots : new[s] = Stable(cells[s].cur) /\ new[s].cur = cells[s].cur
  <2>1. /\ JournalType(Sync(cells), b) /\ Sync(cells) = [s \in Slots |-> Sync(cells)[s]]
        /\ \A s \in Slots : Sync(cells)[s] = Stable(cells[s].cur) /\ Sync(cells)[s].cur = cells[s].cur
    BY ONLY <1>1, SyncedCells
  <2>2. QED
    BY <1>0, <2>1
<1>6. \A s \in Slots : IsStable(new[s]) /\ new[s].may = {cells[s].cur}
  <2>1. \A y : Stable(y).cur = y /\ Stable(y).may = {y}
    BY DEF Stable
  <2>2. QED
    BY <1>5, <2>1 DEF IsStable
<1>7. \A s \in Slots : s # g.hdr => new[s] = cells[s] /\ IsStable(new[s])
  <2>1. \A s \in Slots : s = g.hdr \/ IsStable(cells[s])
    BY <1>1 DEF SyncK
  <2>2. QED
    BY <1>5, <1>6, <2>1 DEF IsStable
<1>8. NoMagic(new, g.off + 1)
  <2>1. NoMagic(cells, g.off + 1)
    BY <1>1 DEF SyncK
  <2>2. g.off + 1 <= MaxSlot => g.off + 1 \in Slots
    BY <1>1 DEF Slots
  <2>3. QED
    BY <1>1, <1>6, <2>1, <2>2 DEF NoMagic
<1>9. \A y \in new[g.hdr].may : IsMagic(y) => y = H
  BY <1>1, <1>2, <1>6
<1>10. HeadCovers(g, i, cells, new, H)
  BY <1>4, <1>5, <1>7, <1>8, <1>9, HeaderCovers
<1>11. IsMagic(new[1].cur) /\ Covered(new, new[1].cur, i, db, g.off + 1)
  <2>1. CASE g.eState = "cachemod"
    <3>1. Covered(new, H, i, db, g.off + 1) /\ new[1].cur = H
      BY <1>1, <1>2, <1>5, <1>10, <2>1 DEF HeadCovers
    <3>2. QED
      BY <1>3, <3>1
  <2>2. CASE g.eState # "cachemod"
    <3> DEFINE x == cells[1].cur
    <3>1. Covered(new, x, i, db, g.hdr) /\ new[1].cur = x /\ IsMagic(x)
      BY <1>1, <1>5, <1>10, <2>2 DEF HeadCovers, LogK
    <3>2. g.hdr <= MaxSlot /\ IsStable(new[g.hdr]) /\ new[g.hdr].cur = H
      <4>1. g.hdr <= MaxSlot
        BY <1>1 DEF Slots
      <4>2. QED
        BY <1>1, <1>2, <1>5, <1>6, <4>1
    <3>3. g.hdr + new[g.hdr].cur.nRec + 1 = g.off + 1
      BY <1>1, <1>3, <3>2
    <3> HIDE DEF x
    <3>4. Covered(new, x, i, db, g.hdr + new[g.hdr].cur.nRec + 1)
      BY <1>3, <1>5, <3>1, <3>2, CoveredNext
    <3>5. QED
      BY <3>1, <3>3, <3>4
  <2>3. QED
    BY <2>1, <2>2
<1>12. Covers(g, i, b, cells, new)
  BY <1>2, <1>4, <1>5, <1>6, <1>8, <1>11 DEF Covers
<1>13. QED
  BY <1>0, <1>12

\* The pager after the second sync, and the journal it writes to.
NextSegment(g, n, nonce) ==
  IF g.spill = 0
  THEN [g EXCEPT !.needSync = {}, !.eState = "dbmod", !.pc = "wdb", !.hdr = n, !.header = FALSE]
  ELSE [g EXCEPT !.needSync = {}, !.eState = "dbmod", !.pc = "wdb", !.hdr = n, !.header = TRUE,
                 !.off = n, !.nRec = 0, !.nonce = nonce]

\* The pager at the beginning of the next segment, field by field.
LEMMA NextSegmentIs ==
  ASSUME NEW g, IsPager(g), NEW n, NEW nonce
  PROVE  LET h == NextSegment(g, n, nonce)
         IN /\ h.eState = "dbmod" /\ h.pc = "wdb" /\ h.hdr = n /\ h.header = (g.spill # 0)
            /\ h.off = (IF g.spill = 0 THEN g.off ELSE n)
            /\ h.nRec = (IF g.spill = 0 THEN g.nRec ELSE 0)
            /\ h.nonce = (IF g.spill = 0 THEN g.nonce ELSE nonce)
            /\ h.jfd = g.jfd /\ h.orig = g.orig /\ h.nPage = g.nPage /\ h.dbSize = g.dbSize
            /\ h.cache = g.cache /\ h.vers = g.vers /\ h.dirty = g.dirty
            /\ h.inJournal = g.inJournal /\ h.commit = g.commit /\ h.spill = g.spill
            /\ h.hot = g.hot
BY DEF NextSegment, IsPager, Fields

\* The second sync, in the terms of the journal.
LEMMA JSync2Is ==
  ASSUME NEW c, JSync2(c)
  PROVE  LET g == pager[c]
             n == g.off + 1
             S == Sync(journal[g.jfd])
             new == IF g.spill = 0 THEN S
                    ELSE [S EXCEPT ![n] = Written(@, Header(FALSE, 0, NewNonce(S), g.orig))]
         IN /\ g.pc = "jsync2" /\ (g.spill # 0 => n <= MaxSlot)
            /\ journal' = [journal EXCEPT ![g.jfd] = new]
            /\ Set(c, NextSegment(g, n, NewNonce(S)))
            /\ UNCHANGED lockVars /\ mode' = mode /\ db' = db /\ dirent' = dirent
<1> DEFINE g == pager[c]
           h == [g EXCEPT !.needSync = {}, !.eState = "dbmod", !.pc = "wdb",
                     !.hdr = g.off + 1, !.header = FALSE]
           S == Sync(journal[g.jfd])
<1>1. /\ g.pc = "jsync2"
      /\ UNCHANGED lockVars /\ mode' = mode /\ db' = db /\ dirent' = dirent
  BY DEF JSync2, lockVars
<1>2. CASE g.spill = 0
  BY <1>1, <1>2 DEF JSync2, NextSegment
<1>3. CASE g.spill # 0
  <2>1. /\ g.off + 1 <= MaxSlot
        /\ journal' = [journal EXCEPT ![g.jfd] =
                  [S EXCEPT ![g.off + 1] =
                     Written(@, Header(FALSE, 0, NewNonce(S), g.orig))]]
        /\ Set(c, [h EXCEPT !.header = TRUE, !.off = @ + 1,
                            !.nRec = 0, !.nonce = NewNonce(S)])
    BY <1>3 DEF JSync2
  <2>2. [h EXCEPT !.header = TRUE, !.off = @ + 1, !.nRec = 0, !.nonce = NewNonce(S)]
          = NextSegment(g, g.off + 1, NewNonce(S))
    BY <1>3 DEF NextSegment
  <2>3. QED
    BY <1>1, <1>3, <2>1, <2>2
<1>4. QED
  BY <1>2, <1>3

\* A new header without magic begins an empty segment.
LEMMA EmptySegment ==
  ASSUME NEW b \in Nat, NEW S, S = [s \in Slots |-> S[s]], JournalType(S, b),
         NEW n \in Slots, NEW orig, NEW new,
         new = [S EXCEPT ![n] = Written(S[n], Header(FALSE, 0, NewNonce(S), orig))],
         NEW h, h.hdr = n, h.header = TRUE, h.nRec = 0, NEW i
  PROVE  OpenSegment(h, i, new)
<1> DEFINE x == Header(FALSE, 0, NewNonce(S), orig)
<1>1. x.kind = "header" /\ x.nonce = NewNonce(S) /\ x.nRec = 0
  BY DEF Header
<1> HIDE DEF x
<1>2. new[n].cur = x
  BY DEF Written, x
<1>3. \A s \in Slots : s # n => new[s] = S[s]
  OBVIOUS
<1>4. End(h) = n /\ n \in Nat /\ MaxSlot \in Nat
  BY Bounds DEF End, Slots
<1>5. \A s \in n + 1..MaxSlot :
        new[s].cur.kind \in {"header", "record"} => new[s].cur.nonce # x.nonce
  <2> SUFFICES ASSUME NEW s \in n + 1..MaxSlot, new[s].cur.kind \in {"header", "record"}
               PROVE  new[s].cur.nonce # x.nonce
    OBVIOUS
  <2>1. s \in Slots /\ s # n
    BY <1>4 DEF Slots
  <2>2. new[s] = S[s] /\ S[s].cur \in S[s].may
    BY <1>3, <2>1 DEF JournalType, CellOf
  <2>3. S[s].cur.nonce \in Nonces(S)
    BY <2>1, <2>2 DEF Nonces
  <2>4. QED
    BY <1>1, <2>2, <2>3, NonceIsNew
<1>6. \A s \in n + 1..n : FALSE
  BY <1>4
<1>7. QED
  BY <1>1, <1>2, <1>4, <1>5, <1>6 DEF OpenSegment

\* The second sync of the journal.
LEMMA JSync2Kept ==
  ASSUME IInv, NEW b \in Nat, TInv(b), NEW i, PInv(i), NEW c \in Conns, JSync2(c)
  PROVE  PInv(i)'
<1> DEFINE g == pager[c]
           cells == journal[g.jfd]
           n == g.off + 1
           S == Sync(cells)
           nn == NewNonce(S)
           X == Header(FALSE, 0, nn, g.orig)
           new == IF g.spill = 0 THEN S ELSE [S EXCEPT ![n] = Written(S[n], X)]
           j == [journal EXCEPT ![g.jfd] = new]
           h == NextSegment(g, n, nn)
<1>1. /\ g.pc = "jsync2" /\ (g.spill # 0 => n <= MaxSlot) /\ journal' = j /\ Set(c, h)
      /\ UNCHANGED lockVars /\ mode' = mode /\ db' = db /\ dirent' = dirent
  BY JSync2Is
<1>2. Syncing(g, lock[c], i, b, cells)
  BY <1>1, SyncingHas
<1>3. /\ h.eState = "dbmod" /\ h.pc = "wdb" /\ h.hdr = n /\ h.header = (g.spill # 0)
      /\ h.off = (IF g.spill = 0 THEN g.off ELSE n)
      /\ h.nRec = (IF g.spill = 0 THEN g.nRec ELSE 0)
      /\ h.nonce = (IF g.spill = 0 THEN g.nonce ELSE nn)
      /\ h.jfd = g.jfd /\ h.orig = g.orig /\ h.nPage = g.nPage /\ h.dbSize = g.dbSize
      /\ h.cache = g.cache /\ h.vers = g.vers /\ h.dirty = g.dirty
      /\ h.inJournal = g.inJournal /\ h.commit = g.commit /\ h.spill = g.spill
      /\ h.hot = FALSE
  <2> HIDE DEF g, n, nn
  <2>1. IsPager(g) /\ g.hot = FALSE
    BY <1>2 DEF Syncing
  <2>2. QED
    BY ONLY <2>1, NextSegmentIs
<1>4. j[g.jfd] = new
  BY <1>2 DEF Syncing
<1> HIDE DEF g, cells, n, h, j
<1>5. /\ S = [s \in Slots |-> S[s]] /\ JournalType(S, b)
      /\ \A s \in Slots : IsStable(S[s]) /\ S[s].cur = cells[s].cur /\ S[s].may = {cells[s].cur}
      /\ NoMagic(S, n) /\ IsMagic(S[1].cur)
      /\ Covered(S, S[1].cur, i, db, n)
      /\ cells[g.hdr].cur = Header(TRUE, g.nRec, g.nonce, g.orig)
  <2>1. g.pc = "jsync2" /\ n = g.off + 1
    BY <1>1 DEF n
  <2>2. Covers(g, i, b, cells, S)
    BY <2>1, <1>2, JSync2Covers
  <2> HIDE DEF S
  <2>3. QED
    BY <2>1, <2>2 DEF Covers
<1> HIDE DEF S
<1>6. /\ n = g.off + 1 /\ g.off \in Nat /\ n \in 2..MaxSlot + 1 /\ MaxSlot \in Nat /\ g.hdr \in Slots
      /\ g.hdr \in Nat /\ g.hdr < n /\ 1 \in Slots /\ End(g) = g.off
      /\ g.off = g.hdr + g.nRec /\ g.hdr >= 1 /\ g.nRec \in Nat
  BY <1>2, Bounds DEF Syncing, Slots, n
<1>7. g.spill # 0 => n \in Slots
  BY <1>1, <1>6 DEF Slots
<1>8. X.kind = "header" /\ ~IsMagic(X) /\ X.nonce = nn
  BY DEF Header, IsMagic
<1>9. /\ new = [s \in Slots |-> new[s]]
      /\ \A s \in Slots : s # n => new[s] = S[s]
      /\ g.spill = 0 => new = S
      /\ g.spill # 0 => new[n] = Written(S[n], X)
  BY <1>5, <1>7
<1>10. g.spill # 0 => new = [S EXCEPT ![n] = Written(S[n], Header(FALSE, 0, NewNonce(S), g.orig))]
  OBVIOUS
<1> HIDE DEF new, X, nn
<1>11. NoMagic(new, n)
  <2>1. CASE g.spill = 0
    BY <1>5, <1>9, <2>1
  <2>2. CASE g.spill # 0
    <3>1. new[n].may = S[n].may \cup {X}
      BY <1>9, <2>2 DEF Written
    <3>2. QED
      BY <1>5, <1>8, <3>1 DEF NoMagic
  <2>3. QED
    BY <2>1, <2>2
<1>12. new[1] = S[1] /\ IsStable(new[1]) /\ IsMagic(new[1].cur)
  BY <1>5, <1>6, <1>9
<1>13. Covered(new, new[1].cur, i, db, n)
  <2> DEFINE x == S[1].cur
  <2>1. x \in Cells(b)
    BY <1>5, <1>6 DEF JournalType, CellOf
  <2>2. \A s \in 2..n - 1 : new[s] = S[s]
    <3>1. \A s \in 2..n - 1 : s \in Slots /\ s # n
      BY <1>6 DEF Slots
    <3>2. QED
      BY <1>9, <3>1
  <2>3. After(new, n, i, x.orig)
    BY <1>11 DEF After, NoMagic
  <2>4. Covered(S, x, i, db, n) /\ new[1].cur = x
    BY <1>5, <1>12
  <2> HIDE DEF x
  <2>5. Covered(new, x, i, db, n)
    BY <1>5, <1>9, <2>1, <2>2, <2>3, <2>4, CoveredSame
  <2>6. QED
    BY <2>4, <2>5
<1>14. End(h) = (IF g.spill = 0 THEN g.off ELSE n) /\ End(h) = h.off
  <2>1. CASE g.spill = 0
    <3>1. ~h.header /\ h.hdr = n /\ h.off = g.off
      BY <1>3, <2>1
    <3>2. n - 1 = g.off
      BY <1>6
    <3>3. End(h) = h.hdr - 1
      BY <3>1 DEF End
    <3>4. QED
      BY <2>1, <3>1, <3>2, <3>3
  <2>2. CASE g.spill # 0
    <3>1. h.header = TRUE /\ h.hdr = n /\ h.nRec = 0 /\ h.off = n
      BY <1>3, <2>2
    <3>2. QED
      BY <1>6, <2>2, <3>1 DEF End
  <2>3. QED
    BY <2>1, <2>2
<1>15. LogK(h, i, db, new)
  <2>1. /\ Len(i) <= g.orig /\ (Len(i) = 0 <=> g.orig = 0)
        /\ cells[1].cur.kind = "header" /\ cells[1].cur.orig = g.orig
    BY <1>2 DEF Syncing, LogK
  <2>2. new[1].cur = cells[1].cur
    BY <1>5, <1>6, <1>12
  <2>3. n \in 1..MaxSlot + 1 /\ n <= End(h) + 1 /\ End(h) <= MaxSlot
    BY <1>1, <1>6, <1>14
  <2>4. g.spill # 0 => OpenSegment(h, i, new)
    <3> SUFFICES ASSUME g.spill # 0
                 PROVE  OpenSegment(h, i, new)
      OBVIOUS
    <3>1. h.hdr = n /\ h.header = TRUE /\ h.nRec = 0
      BY <1>3
    <3>2. QED
      BY <1>5, <1>7, <1>10, <3>1, EmptySegment
  <2>5. h.nRec \in Nat
    BY <1>2, <1>3 DEF Syncing
  <2>6. QED
    BY <1>3, <1>11, <1>12, <1>13, <2>1, <2>2, <2>3, <2>4, <2>5 DEF LogK
<1>16. WriteK(h, i, db, new, mode)
  <2>1. WriteK(g, i, db, cells, mode)
    BY <1>2 DEF Syncing
  <2>2. \A p : Recs(cells, p, 2, g.off) => Recs(new, p, 2, h.off)
    <3> SUFFICES ASSUME NEW p, NEW s \in 2..g.off, cells[s].cur.kind = "record", cells[s].cur.pgno = p
                 PROVE  Recs(new, p, 2, h.off)
      BY DEF Recs
    <3>1. s \in Slots /\ s # n /\ s \in 2..h.off
      BY <1>3, <1>6 DEF Slots
    <3>2. new[s].cur = cells[s].cur
      BY <1>5, <1>9, <3>1
    <3>3. QED
      BY <3>1, <3>2 DEF Recs
  <2>3. h.header => h.nonce = new[h.hdr].cur.nonce
    <3>1. g.spill # 0 => new[n].cur = X
      BY <1>9 DEF Written
    <3>2. QED
      BY <1>3, <1>8, <3>1
  <2>4. h.off = End(h) /\ h.off >= 1
    BY <1>3, <1>6, <1>14
  <2>5. g.pc # "failed"
    BY <1>1
  <2>6. QED
    BY <1>3, <2>1, <2>2, <2>3, <2>4, <2>5 DEF WriteK
<1>17. SyncK(g, i, db, cells, dirent) /\ dirent.may = {dirent.cur}
  BY <1>1, <1>2 DEF Syncing, SyncK
<1>18. SyncK(h, i, db, new, dirent)
  <2>1. (g.spill = 0 => g.commit) /\ (g.commit => g.spill = 0) /\ g.spill # 1
    BY <1>1, <1>17 DEF SyncK
  <2>2. QED
    BY <1>3, <1>11, <2>1 DEF SyncK
<1>19. dirent.cur = g.jfd /\ g.jfd # 0 /\ lock[c] = EXCLUSIVE_LOCK /\ (db[1].cur = NoPage => EmptyDb(db))
  BY <1>2 DEF Syncing
<1>20. ConnK(h, lock[c], i, db, j, dirent, mode)
  BY <1>3, <1>4, <1>15, <1>16, <1>18, <1>19, DbmodGoes
<1>21. QED
  BY <1>1, <1>4, <1>12, <1>13, <1>17, <1>19, <1>20, WriterPromises

-----------------------------------------------------------------------------
\* Changes of pages
\* The files while the database file has not been written: the journal has no
\* header that can be read.
LEMMA UnsealedFiles ==
  ASSUME NEW i, IsImage(i), NEW d, Quiet(d, i), NEW j, NEW name, NEW m, FilesK(i, d, j, name, m),
         NEW k, NEW e, e # 0, \A f : f # e => k[f] = j[f],
         NEW name2, name2.cur = e, \A f \in name2.may : f = e \/ f \in name.may,
         ~IsMagic(k[e][1].cur),
         (\E x \in k[e][1].may : IsMagic(x)) => EmptyDb(d) /\ name2.may = {e}
  PROVE  FilesK(i, d, k, name2, m)
<1>1. \A f \in name2.may : NamedK(f, i, d, k, m)
  <2> SUFFICES ASSUME NEW f \in name2.may
               PROVE  NamedK(f, i, d, k, m)
    OBVIOUS
  <2>1. CASE f = e
    BY <2>1 DEF NamedK
  <2>2. CASE f # e
    <3>1. NamedK(f, i, d, j, m) /\ k[f] = j[f]
      BY <2>2 DEF FilesK
    <3>2. QED
      BY <3>1 DEF NamedK
  <2>3. QED
    BY <2>1, <2>2
<1>2. QED
  BY <1>1 DEF FilesK

\* A page was changed, and its record written to the journal.
LEMMA StoreKept ==
  ASSUME IInv, NEW i, PInv(i), NEW c \in Conns, lock[c] >= RESERVED_LOCK,
         NEW h, NEW new, NEW e, h.jfd = e, e # 0, e \in Inodes,
         Set(c, h), journal' = [journal EXCEPT ![e] = new],
         IF dirent.cur = 0 THEN dirent' = [cur |-> e, may |-> dirent.may \cup {e}]
         ELSE dirent.cur = e /\ dirent' = dirent,
         UNCHANGED <<lock, reserver, mode, db>>,
         h.eState = "cachemod" \/ h.eState = "dbmod", h.hot = FALSE,
         h.pc = "idle" \/ (h.pc = "jsync" /\ lock[c] = EXCLUSIVE_LOCK),
         LogK(h, i, db, new), WriteK(h, i, db, new, mode), SyncK(h, i, db, new, dirent'),
         h.eState = "cachemod" =>
           /\ Quiet(db, i) /\ ~IsMagic(new[1].cur)
           /\ (\E x \in new[1].may : IsMagic(x)) =>
                EmptyDb(db) /\ dirent.cur = e /\ dirent.may = {e},
         h.eState = "dbmod" => lock[c] = EXCLUSIVE_LOCK /\ dirent.cur = e /\ dirent.may = {e},
         pager[c].pc = "idle" \/ pager[c].pc = "phase1"
  PROVE  PInv(i)'
<1>1. dirent'.cur = e /\ (\A f \in dirent'.may : f = e \/ f \in dirent.may) /\ (dirent.cur = e => dirent' = dirent)
  BY DEF IInv
<1>2. journal'[e] = new /\ \A f : f # e => journal'[f] = journal[f]
  <2>1. journal = [f \in Inodes |-> journal[f]]
    BY DEF IInv, FilesInv
  <2>2. QED
    BY <2>1
<1>3. IsImage(i) /\ FilesK(i, db, journal, dirent, mode)
  BY DEF PInv
<1>4. OwnK(h, i, db, journal'[h.jfd], dirent', mode)
  BY <1>2 DEF OwnK, Active, Playing, Undoes
<1>5. db' = db /\ mode' = mode /\ UNCHANGED lockVars
  BY DEF lockVars
<1>6. CASE h.eState = "dbmod"
  <2>1. IsStable(new[1]) /\ IsMagic(new[1].cur) /\ Covered(new, new[1].cur, i, db, h.hdr)
    BY <1>6 DEF LogK
  <2>2. lock[c] = EXCLUSIVE_LOCK /\ dirent'.may = {e}
    BY <1>1, <1>6
  <2>3. db'[1].cur = NoPage => EmptyDb(db')
    BY <1>5, <2>2, AloneFirst
  <2>4. ConnK(h, EXCLUSIVE_LOCK, i, db, journal', dirent', mode)
    <3>1. TrustK(h, EXCLUSIVE_LOCK, i, db, journal', dirent')
      BY <1>6 DEF TrustK, Trusts, Cools
    <3>2. h.pc # "hotsync" /\ h.pc # "end"
      OBVIOUS
    <3>3. QED
      BY <1>1, <1>4, <1>6, <3>1, <3>2, WriterIs DEF WriterK
  <2>5. /\ IsStable(journal'[e][1]) /\ IsMagic(journal'[e][1].cur)
        /\ Covered(journal'[e], journal'[e][1].cur, i, db', h.hdr)
        /\ ConnK(h, lock[c], i, db', journal', dirent', mode)
    BY <1>2, <1>5, <2>1, <2>2, <2>4
  <2>6. QED
    BY <1>1, <1>5, <2>2, <2>3, <2>5, WriterPromises
<1>7. CASE h.eState = "cachemod"
  <2>1. Quiet(db, i) /\ ~IsMagic(new[1].cur)
        /\ ((\E x \in new[1].may : IsMagic(x)) => EmptyDb(db) /\ dirent'.may = {e})
    BY <1>1, <1>7
  <2>2. FilesK(i, db', journal', dirent', mode)
    <3>1. /\ ~IsMagic(journal'[e][1].cur)
          /\ (\E x \in journal'[e][1].may : IsMagic(x)) => EmptyDb(db) /\ dirent'.may = {e}
      BY <1>2, <2>1
    <3>2. IsImage(i) /\ Quiet(db, i) /\ e # 0
      BY <1>3, <2>1
    <3>3. FilesK(i, db, journal', dirent', mode)
      BY ONLY <1>1, <1>2, <1>3, <3>1, <3>2, UnsealedFiles
    <3>4. QED
      BY <1>5, <3>3
  <2>3. Cold(db, journal', dirent')
    BY <1>1, <1>2, <2>1 DEF Cold
  <2>4. EmptyK(db', journal', dirent', pager', lock')
    <3>1. db[1].cur = NoPage => EmptyDb(db)
      BY <1>3, <2>1, QuietFirst
    <3>2. Dying(journal', dirent') => EmptyDb(db)
      BY <1>1, <1>2, <2>1 DEF Dying
    <3>3. QED
      BY <1>5, <3>1, <3>2 DEF EmptyK
  <2>5. ConnK(h, lock[c], i, db, journal', dirent', mode)
    <3>1. TrustK(h, lock[c], i, db, journal', dirent')
      BY <1>7, <2>1, <2>3 DEF TrustK
    <3>2. h.pc # "hotsync" /\ h.pc # "end"
      OBVIOUS
    <3>3. QED
      BY <1>1, <1>4, <1>7, <3>1, <3>2, WriterIs DEF WriterK
  <2>6. \A d \in Others(c) : pager[d].jfd # 0 /\ dirent.cur = pager[d].jfd => dirent'.cur = pager[d].jfd
    BY <1>1
  <2>7. \A d \in Others(c) : ConnK(pager[d], lock[d], i, db, journal', dirent', mode)
    BY <2>3, <2>6, OthersShared
  <2>8. [LockNext]_lockVars /\ (\A d \in Conns : lock'[d] = lock[d]) /\ lock'[c] = lock[c]
    BY <1>5, SameLocks
  <2>9. \A d \in Others(c) : lock'[d] = lock[d]
    BY <2>8 DEF Others
  <2>10. ConnK(h, lock'[c], i, db', journal', dirent', mode)
         /\ \A d \in Others(c) : ConnK(pager[d], lock[d], i, db', journal', dirent', mode)
    BY <1>5, <2>5, <2>7, <2>8
  <2>11. QED
    BY <1>3, <1>5, <2>2, <2>4, <2>8, <2>9, <2>10, OnePromises
<1>8. QED
  BY <1>6, <1>7

\* A pager that is about to change a page, with the journal it writes to.
ReadyLog(k, i, cells) ==
  /\ IsPager(k) /\ cells = [s \in Slots |-> cells[s]]
  /\ k.eState = "cachemod" \/ k.eState = "dbmod"
  /\ k.pc = "idle" \/ k.pc = "phase1"
  /\ k.header = TRUE /\ k.hdr \in Slots /\ k.nRec \in Nat /\ k.off \in k.hdr..MaxSlot
  /\ k.off = k.hdr + k.nRec /\ k.hot = FALSE
  /\ cells[k.hdr].cur.nRec = 0 /\ k.nonce = cells[k.hdr].cur.nonce
  /\ LogK(k, i, db, cells)
  /\ NoMagic(cells, k.hdr) \/ (k.hdr = 1 /\ EmptyDb(db) /\ ~IsMagic(cells[1].cur))
ReadyPages(k, i, cells) ==
  /\ k.commit = FALSE /\ k.spill = 0
  /\ k.nPage \in 0..MaxPage /\ k.dbSize \in 0..MaxPage /\ k.nPage <= k.dbSize /\ Len(i) <= k.nPage
  /\ Len(i) # 0 => k.vers = i[1]
  /\ k.nPage # 0 => k.cache[1] # NoPage
  /\ k.cache \in [Pages -> OnDisk]
  /\ k.dirty \subseteq Pages /\ \A p \in k.dirty : p <= k.dbSize
  /\ \A p \in 1..Len(i) : p \notin k.inJournal =>
       db[p] = Stable(i[p]) /\ (k.cache[p] # NoPage => k.cache[p] = i[p])
  /\ \A p \in k.inJournal : Recs(cells, p, 2, k.off)
  /\ \A p \in 1..k.nPage :
       /\ k.cache[p] # NoPage => k.cache[p] \in PageContents
       /\ p \notin k.dirty => db[p].cur \in PageContents /\ k.cache[p] \in {NoPage, db[p].cur}
Ready(k, i, cells) == ReadyLog(k, i, cells) /\ ReadyPages(k, i, cells)
Recorded(k, m, i, p, cells, new) ==
  /\ ReadyLog(m, i, new)
  /\ \A q : Recs(cells, q, 2, k.off) => Recs(new, q, 2, m.off)
  /\ Recs(new, p, 2, m.off)
  /\ new[1] = cells[1]

\* The journal gets a record of page p.
LEMMA RecordGoes ==
  ASSUME NEW b \in Nat, NEW i, IsImage(i), NEW k, NEW cells, ReadyLog(k, i, cells), JournalType(cells, b),
         NEW p \in Pages, p <= k.orig, NEW x, p <= Len(i) => x = i[p], k.off < MaxSlot,
         NEW m, IsPager(m), m.eState = k.eState, m.pc = k.pc, m.orig = k.orig, m.hdr = k.hdr,
         m.header = k.header, m.nonce = k.nonce, m.hot = k.hot,
         m.off = k.off + 1, m.nRec = k.nRec + 1
  PROVE  Recorded(k, m, i, p, cells, PutRecord(cells, k.off + 1, Record(p, x, k.nonce)))
<1> DEFINE n == k.off + 1
           r == Record(p, x, k.nonce)
           new == PutRecord(cells, k.off + 1, Record(p, x, k.nonce))
<1>1. /\ k.hdr \in Slots /\ k.hdr \in Nat /\ k.hdr >= 1 /\ k.nRec \in Nat /\ k.off \in Nat
      /\ MaxSlot \in Nat /\ k.off = k.hdr + k.nRec /\ n \in Slots /\ n > k.hdr /\ n \in Nat
      /\ k.off <= MaxSlot /\ n <= MaxSlot /\ n >= 2 /\ 1 \in Slots /\ n = k.off + 1
  BY SMTT(60), Bounds DEF ReadyLog, Slots
<1>2. cells = [s \in Slots |-> cells[s]] /\ LogK(k, i, db, cells)
  BY DEF ReadyLog
<1>3. /\ r.kind = "record" /\ r.pgno = p /\ r.data = x /\ r.nonce = k.nonce
  BY DEF Record
<1> HIDE DEF n, r
<1>4. /\ new = [s \in Slots |-> new[s]]
      /\ \A s \in Slots : s # n => new[s] = cells[s]
      /\ new[n].cur = r
  <2>1. new = [cells EXCEPT ![n] = WrittenPage(cells[n], r, Junk)]
    BY DEF PutRecord, n, r
  <2>2. new[n] = WrittenPage(cells[n], r, Junk)
    BY <1>1, <1>2, <2>1
  <2>3. new[n].cur = r
    BY <2>2 DEF WrittenPage
  <2> HIDE DEF new
  <2>4. QED
    BY <1>1, <1>2, <2>1, <2>3
<1> HIDE DEF r, new
<1>5. k.hdr # n /\ new[k.hdr] = cells[k.hdr] /\ new[1] = cells[1] /\ m.off = n /\ End(m) = n /\ End(k) = k.off
  <2>1. k.header = TRUE /\ m.header = TRUE
    BY DEF ReadyLog
  <2>2. End(m) = k.hdr + (k.nRec + 1) /\ End(k) = k.hdr + k.nRec
    BY <2>1 DEF End
  <2>3. QED
    BY <1>1, <1>4, <2>2
<1>6. Good(r, i, k.orig)
  BY <1>3 DEF Good, Pages
<1>7. OpenSegment(m, i, new)
  <2>1. OpenSegment(k, i, cells) /\ cells[k.hdr].cur.nRec = 0 /\ k.nonce = cells[k.hdr].cur.nonce
    BY <1>2 DEF ReadyLog, LogK
  <2> DEFINE h == cells[k.hdr].cur
  <2>2. /\ h.kind = "header" /\ h.nRec = 0 /\ h.nonce = k.nonce
        /\ \A s \in k.hdr + 1..k.off :
             /\ cells[s].cur.kind = "record" /\ cells[s].cur.nonce = h.nonce
             /\ Good(cells[s].cur, i, k.orig)
        /\ \A s \in k.off + 1..MaxSlot :
             cells[s].cur.kind \in {"header", "record"} => cells[s].cur.nonce # h.nonce
    BY <1>5, <2>1 DEF OpenSegment
  <2> HIDE DEF h
  <2>3. new[m.hdr].cur = h
    BY <1>5 DEF h
  <2>4. \A s \in m.hdr + 1..n : /\ new[s].cur.kind = "record" /\ new[s].cur.nonce = h.nonce
                                /\ Good(new[s].cur, i, m.orig)
    <3> SUFFICES ASSUME NEW s \in m.hdr + 1..n
                 PROVE  /\ new[s].cur.kind = "record" /\ new[s].cur.nonce = h.nonce
                        /\ Good(new[s].cur, i, m.orig)
      OBVIOUS
    <3>1. CASE s = n
      BY <1>3, <1>4, <1>6, <2>2, <3>1
    <3>2. CASE s # n
      <4>1. s \in k.hdr + 1..k.off /\ s \in Slots
        BY SMTT(60), <1>1, <3>2 DEF Slots
      <4>2. QED
        BY <1>4, <2>2, <3>2, <4>1
    <3>3. QED
      BY <3>1, <3>2
  <2>5. \A s \in n + 1..MaxSlot :
          new[s].cur.kind \in {"header", "record"} => new[s].cur.nonce # h.nonce
    <3>1. \A s \in n + 1..MaxSlot : s \in k.off + 1..MaxSlot /\ s \in Slots /\ s # n
      BY <1>1 DEF Slots
    <3>2. QED
      BY <1>4, <2>2, <3>1
  <2>6. QED
    BY <1>5, <2>2, <2>3, <2>4, <2>5 DEF OpenSegment
<1>8. NoMagic(cells, k.hdr) => NoMagic(new, k.hdr)
  BY <1>5 DEF NoMagic
<1>9. LogK(m, i, db, new)
  <2>1. m.nRec \in Nat /\ m.hdr \in 1..MaxSlot + 1 /\ m.hdr <= End(m) + 1 /\ End(m) <= MaxSlot
    BY SMTT(60), <1>1, <1>5
  <2>2. /\ Len(i) <= m.orig /\ (Len(i) = 0 <=> m.orig = 0)
        /\ new[1].cur.kind = "header" /\ new[1].cur.orig = m.orig
    BY <1>2, <1>5 DEF LogK
  <2>3. CASE m.eState = "cachemod"
    <3>1. m.hdr = 1 /\ m.header
      BY <1>2, <2>3 DEF LogK
    <3>2. QED
      BY <1>7, <2>1, <2>2, <2>3, <3>1 DEF LogK
  <2>4. CASE m.eState # "cachemod"
    <3> DEFINE y == cells[1].cur
    <3>1. IsStable(cells[1]) /\ IsMagic(y) /\ Covered(cells, y, i, db, k.hdr) /\ k.header
      BY <1>2, <2>4 DEF LogK, ReadyLog
    <3>2. k.hdr # 1
      BY <3>1 DEF Covered
    <3>3. NoMagic(new, k.hdr)
      BY <1>8, <3>2 DEF ReadyLog
    <3>4. After(new, k.hdr, i, y.orig)
      BY <3>3 DEF After, NoMagic
    <3>5. \A s \in 2..k.hdr - 1 : new[s] = cells[s]
      <4>1. \A s \in 2..k.hdr - 1 : s \in Slots /\ s # n
        BY <1>1 DEF Slots
      <4>2. QED
        BY <1>4, <4>1
    <3>6. y \in Cells(b)
      BY <1>1 DEF JournalType, CellOf
    <3>7. new[1].cur = y
      BY <1>5
    <3> HIDE DEF y
    <3>8. Covered(new, y, i, db, k.hdr)
      BY <1>2, <1>4, <3>1, <3>4, <3>5, <3>6, CoveredSame
    <3>9. IsStable(new[1]) /\ IsMagic(new[1].cur) /\ Covered(new, new[1].cur, i, db, m.hdr) /\ m.header
      BY <1>5, <3>1, <3>7, <3>8
    <3>10. QED
      BY <1>7, <2>1, <2>2, <2>4, <3>9 DEF LogK
  <2>5. QED
    BY <2>3, <2>4
<1>10. \A q : Recs(cells, q, 2, k.off) => Recs(new, q, 2, m.off)
  <2> SUFFICES ASSUME NEW q, NEW s \in 2..k.off, cells[s].cur.kind = "record", cells[s].cur.pgno = q
               PROVE  Recs(new, q, 2, m.off)
    BY DEF Recs
  <2>1. s \in Slots /\ s # n /\ s \in 2..m.off
    BY <1>1, <1>5 DEF Slots
  <2>2. new[s].cur = cells[s].cur
    BY <1>4, <2>1
  <2>3. QED
    BY <2>1, <2>2 DEF Recs
<1>11. Recs(new, p, 2, m.off)
  <2>1. n \in 2..m.off
    BY <1>1, <1>5
  <2>2. QED
    BY <1>3, <1>4, <2>1 DEF Recs
<1>12. ReadyLog(m, i, new)
  <2>1. new[m.hdr].cur.nRec = 0 /\ m.nonce = new[m.hdr].cur.nonce
    <3>1. cells[k.hdr].cur.nRec = 0 /\ k.nonce = cells[k.hdr].cur.nonce
      BY DEF ReadyLog
    <3>2. new[m.hdr] = cells[k.hdr]
      BY <1>5
    <3>3. QED
      BY <3>1, <3>2
  <2>2. m.nRec \in Nat /\ m.off \in m.hdr..MaxSlot /\ m.off = m.hdr + m.nRec
    BY <1>1, <1>5
  <2>3. NoMagic(new, m.hdr) \/ (m.hdr = 1 /\ EmptyDb(db) /\ ~IsMagic(new[1].cur))
    BY <1>5, <1>8 DEF ReadyLog
  <2>4. /\ m.eState = "cachemod" \/ m.eState = "dbmod"
        /\ m.pc = "idle" \/ m.pc = "phase1"
        /\ m.header = TRUE /\ m.hdr \in Slots /\ m.hot = FALSE
    BY DEF ReadyLog
  <2>5. QED
    BY <1>4, <1>9, <2>1, <2>2, <2>3, <2>4 DEF ReadyLog
<1>13. QED
  BY <1>5, <1>10, <1>11, <1>12 DEF Recorded, new

\* pager_write(): page p goes on record unless it is there, or is new.
LEMMA JournalledReady ==
  ASSUME NEW b \in Nat, NEW i, IsImage(i), NEW o, Ready(o.pager, i, o.cells),
         JournalType(o.cells, b), NEW p \in Pages, p <= o.pager.orig => o.pager.cache[p] # NoPage,
         o.pager.orig \in 0..MaxPage,
         o.pager.off < MaxSlot, NEW q, JournalledIs(o, p, q)
  PROVE  /\ Ready(q.pager, i, q.cells) /\ p \in q.pager.dirty /\ p <= q.pager.dbSize
         /\ p <= q.pager.orig => p \in q.pager.inJournal
         /\ q.pager.nPage = o.pager.nPage /\ q.pager.cache = o.pager.cache
         /\ q.pager.vers = o.pager.vers /\ q.pager.orig = o.pager.orig
         /\ q.pager.jfd = o.pager.jfd /\ q.pager.eState = o.pager.eState /\ q.pager.pc = o.pager.pc
         /\ q.cells[1] = o.cells[1]
<1> DEFINE k == o.pager
           cells == o.cells
           m == q.pager
           new == q.cells
<1>1. /\ IsPager(m) /\ m.eState = k.eState /\ m.pc = k.pc /\ m.orig = k.orig /\ m.hdr = k.hdr
      /\ m.header = k.header /\ m.nonce = k.nonce /\ m.hot = k.hot /\ m.jfd = k.jfd
      /\ m.nPage = k.nPage /\ m.cache = k.cache /\ m.vers = k.vers /\ m.commit = k.commit
      /\ m.spill = k.spill
      /\ m.dirty = k.dirty \cup {p} /\ m.dbSize = Max({k.dbSize, p})
  BY DEF JournalledIs, IsPager, Fields
<1>2. \/ /\ p \in k.inJournal \/ p > k.orig
         /\ new = cells /\ m.off = k.off /\ m.nRec = k.nRec /\ m.inJournal = k.inJournal
      \/ /\ p \notin k.inJournal /\ p <= k.orig
         /\ m.off = k.off + 1 /\ m.nRec = k.nRec + 1
         /\ m.inJournal = k.inJournal \cup {p}
         /\ new = PutRecord(cells, k.off + 1, Record(p, Content(k, p), k.nonce))
  BY DEF JournalledIs
<1>3. ReadyLog(k, i, cells) /\ ReadyPages(k, i, cells) /\ JournalType(cells, b)
      /\ (p <= k.orig => k.cache[p] # NoPage) /\ k.off < MaxSlot /\ k.orig \in 0..MaxPage
  BY DEF Ready
<1> HIDE DEF k, cells, m, new
<1>4. /\ m.dbSize \in 0..MaxPage /\ k.dbSize <= m.dbSize /\ p <= m.dbSize
      /\ p \in Nat /\ k.dbSize \in Nat /\ m.dbSize \in Nat /\ p >= 1
  <2>1. k.dbSize \in 0..MaxPage /\ p \in 0..MaxPage /\ p \in Nat /\ p >= 1 /\ MaxPage \in Nat
    BY <1>3, Bounds DEF ReadyPages, Pages
  <2>2. m.dbSize = IF k.dbSize <= p THEN p ELSE k.dbSize
    BY <1>1, <2>1, MaxOfTwo
  <2>3. QED
    BY <2>1, <2>2
<1>5. Len(i) <= k.orig /\ Len(i) \in Nat
  BY <1>3, ImageIs DEF ReadyLog, LogK
<1>6. ReadyLog(m, i, new) /\ (\A r : Recs(cells, r, 2, k.off) => Recs(new, r, 2, m.off))
      /\ (\A r \in m.inJournal \ k.inJournal : Recs(new, r, 2, m.off))
      /\ (p <= m.orig => p \in m.inJournal) /\ k.inJournal \subseteq m.inJournal
      /\ new[1] = cells[1]
  <2>1. CASE p \in k.inJournal \/ p > k.orig
    <3>1. new = cells /\ m.off = k.off /\ m.nRec = k.nRec /\ m.inJournal = k.inJournal
      BY <1>2, <1>4, <2>1, <1>3, Bounds
    <3>2. LogK(m, i, db, cells)
      BY <1>1, <1>3, <3>1, LogSame DEF SameJournal, ReadyLog
    <3>3. ReadyLog(m, i, cells)
      BY <1>1, <1>3, <3>1, <3>2 DEF ReadyLog
    <3>4. p <= m.orig => p \in m.inJournal
      BY <1>1, <1>3, <1>4, <2>1, <3>1, Bounds
    <3>5. QED
      BY <3>1, <3>3, <3>4
  <2>2. CASE ~(p \in k.inJournal \/ p > k.orig)
    <3>1. /\ p \notin k.inJournal /\ p <= k.orig
          /\ m.off = k.off + 1 /\ m.nRec = k.nRec + 1 /\ m.inJournal = k.inJournal \cup {p}
          /\ new = PutRecord(cells, k.off + 1, Record(p, Content(k, p), k.nonce))
      BY <1>2, <2>2
    <3>2. Content(k, p) = k.cache[p]
      BY <1>3, <3>1 DEF Content
    <3>3. p <= Len(i) => Content(k, p) = i[p]
      <4>1. p <= Len(i) => p \in 1..Len(i)
        BY <1>4, <1>5
      <4>2. QED
        BY <1>3, <3>1, <3>2, <4>1 DEF ReadyPages
    <3> DEFINE x == Content(k, p)
    <3>4. new = PutRecord(cells, k.off + 1, Record(p, x, k.nonce)) /\ (p <= Len(i) => x = i[p])
      BY <3>1, <3>3
    <3> HIDE DEF x
    <3>a. /\ b \in Nat /\ IsImage(i) /\ ReadyLog(k, i, cells) /\ JournalType(cells, b)
          /\ p \in Pages /\ p <= k.orig /\ k.off < MaxSlot /\ IsPager(m)
          /\ m.eState = k.eState /\ m.pc = k.pc /\ m.orig = k.orig /\ m.hdr = k.hdr
          /\ m.header = k.header /\ m.nonce = k.nonce /\ m.hot = k.hot
          /\ m.off = k.off + 1 /\ m.nRec = k.nRec + 1
      BY <1>1, <1>3, <3>1
    <3>b. p <= Len(i) => x = i[p]
      BY <3>4
    <3>c. Recorded(k, m, i, p, cells, PutRecord(cells, k.off + 1, Record(p, x, k.nonce)))
      BY ONLY <3>a, <3>b, RecordGoes
    <3>5. Recorded(k, m, i, p, cells, new)
      BY <3>4, <3>c
    <3>6. QED
      BY <3>1, <3>5 DEF Recorded
  <2>3. QED
    BY <2>1, <2>2
<1>7. \A r \in m.inJournal : Recs(new, r, 2, m.off)
  <2>1. \A r \in k.inJournal : Recs(cells, r, 2, k.off)
    BY <1>3 DEF ReadyPages
  <2>2. QED
    BY <1>6, <2>1
<1>8. \A r \in m.dirty : r <= m.dbSize
  <2>1. \A r \in k.dirty : r <= k.dbSize
    BY <1>3 DEF ReadyPages
  <2> SUFFICES ASSUME NEW r \in m.dirty
               PROVE  r <= m.dbSize
    OBVIOUS
  <2>2. CASE r = p
    BY <1>4, <2>2
  <2>3. CASE r # p
    <3>1. r <= k.dbSize /\ r \in Pages
      BY <1>1, <1>3, <2>1, <2>3 DEF ReadyPages
    <3>2. QED
      BY <1>4, <3>1, Bounds DEF Pages
  <2>4. QED
    BY <2>2, <2>3
<1>9. ReadyPages(m, i, new)
  <2>1. m.nPage <= m.dbSize
    BY <1>1, <1>3, <1>4, Bounds DEF ReadyPages
  <2>a. m.dirty \subseteq Pages
    BY <1>1, <1>3 DEF ReadyPages
  <2>2. QED
    BY ZenonT(60), <1>1, <1>3, <1>4, <1>6, <1>7, <1>8, <2>1, <2>a DEF ReadyPages
<1>10. QED
  BY <1>1, <1>4, <1>6, <1>9 DEF Ready, k, cells, m, new

\* What a change of a page begins with: the pager with its journal open.
Opening(v, i, b, c) ==
  /\ v = [pager |-> v.pager, cells |-> v.cells]
  /\ Ready(v.pager, i, v.cells) /\ JournalType(v.cells, b)
  /\ v.pager.nPage = pager[c].nPage /\ v.pager.pc = pager[c].pc
  /\ v.pager.jfd \in Inodes /\ v.pager.jfd # 0
  /\ dirent.cur # 0 => dirent.cur = v.pager.jfd
  /\ pager[c].jfd # 0 => dirent.cur = pager[c].jfd
  /\ v.pager.eState = "cachemod" =>
       /\ Quiet(db, i) /\ v.pager.hdr = 1 /\ ~IsMagic(v.cells[1].cur)
       /\ (\E x \in v.cells[1].may : IsMagic(x)) =>
            EmptyDb(db) /\ dirent.cur = v.pager.jfd /\ dirent.may = {v.pager.jfd}
  /\ v.pager.eState = "dbmod" =>
       lock[c] = EXCLUSIVE_LOCK /\ dirent.cur = v.pager.jfd /\ dirent.may = {v.pager.jfd}

\* A file whose journal is being ended, but not by this connection.
LEMMA NobodyEnds ==
  ASSUME IInv, NEW i, PInv(i), NEW c \in Conns, lock[c] >= RESERVED_LOCK, pager[c].pc # "finsync"
  PROVE  Dying(journal, dirent) => EmptyDb(db)
<1> SUFFICES ASSUME NEW d \in Conns, pager[d].pc = "finsync"
             PROVE  FALSE
  BY DEF PInv
<1>1. lock[d] >= RESERVED_LOCK
  BY EndingIsAlone
<1>2. d \in Others(c)
  BY DEF Others
<1>3. QED
  BY <1>1, <1>2 DEF IInv, Exclusion, LockTypeOK, Levels

\* The cache of a transaction that has changed nothing, with a page more.
LEMMA LockedPages ==
  ASSUME NEW i, IsImage(i), DbType(db), Quiet(db, i),
         NEW g, IsPager(g), Reads(g, i), g.nPage = Len(i), g.dbSize \in 0..MaxPage,
         g.cache \in [Pages -> OnDisk], NEW p \in Pages,
         NEW k, k.commit = FALSE, k.spill = 0, k.nPage = g.nPage, k.dbSize = g.dbSize,
         k.dirty = {}, k.inJournal = {}, k.cache = Loaded(g, p).cache, k.vers = Loaded(g, p).vers,
         k.cache \in [Pages -> OnDisk], NEW cells
  PROVE  ReadyPages(k, i, cells)
<1>1. /\ k.cache = [g.cache EXCEPT ![p] = Content(g, p)]
      /\ k.vers = IF p = 1 /\ g.cache[1] = NoPage /\ g.dbSize > 0
                  THEN Version(db[1].cur) ELSE g.vers
  BY PageLoaded
<1>2. Agrees(g, i) /\ Len(i) \in Nat /\ Len(i) <= g.dbSize /\ (\A q \in 1..Len(i) : q \in Pages)
  BY ImageIs DEF Reads, Agrees
<1>3. \A q \in 1..Len(i) : g.cache[q] # NoPage => g.cache[q] = i[q]
  BY <1>2 DEF Agrees, Coherent
<1>4. \A q \in 1..Len(i) : db[q] = Stable(i[q]) /\ db[q].cur = i[q] /\ i[q] \in PageContents
                           /\ i[q] # NoPage
  BY <1>2, ImageIs, Contents DEF Quiet, Stable
<1>5. \A q \in 1..Len(i) : k.cache[q] # NoPage => k.cache[q] = i[q]
  <2> SUFFICES ASSUME NEW q \in 1..Len(i), k.cache[q] # NoPage
               PROVE  k.cache[q] = i[q]
    OBVIOUS
  <2>1. CASE q = p
    <3>1. k.cache[q] = Content(g, q) /\ ~(q > g.dbSize)
      BY <1>1, <1>2, <2>1
    <3>2. QED
      BY <1>3, <1>4, <3>1 DEF Content
  <2>2. CASE q # p
    <3>1. k.cache[q] = g.cache[q]
      BY <1>1, <1>2, <2>2
    <3>2. QED
      BY <1>3, <3>1
  <2>3. QED
    BY <2>1, <2>2
<1>6. Len(i) # 0 => g.cache[1] = i[1] /\ g.vers = i[1] /\ 1 \in 1..Len(i)
  BY <1>2, ImageIs DEF Agrees
<1>7. Len(i) # 0 => k.vers = i[1] /\ k.cache[1] # NoPage
  <2> SUFFICES ASSUME Len(i) # 0
               PROVE  k.vers = i[1] /\ k.cache[1] # NoPage
    OBVIOUS
  <2>1. g.cache[1] # NoPage /\ k.vers = i[1]
    BY <1>1, <1>4, <1>6
  <2>2. k.cache[1] = g.cache[1]
    BY <1>1, <1>2, <1>6, <2>1 DEF Content
  <2>3. QED
    BY <2>1, <2>2
<1>8. k.nPage \in 0..MaxPage /\ k.nPage = Len(i) /\ k.nPage <= k.dbSize
  BY <1>2, ImageIs
<1>9. QED
  BY <1>2, <1>4, <1>5, <1>7, <1>8 DEF ReadyPages

\* The same of a transaction that has changed pages.
LEMMA ChangedPages ==
  ASSUME NEW i, IsImage(i), DbType(db), NEW g, IsPager(g), NEW cells, NEW m,
         WriteK(g, i, db, cells, m), g.commit = FALSE, g.spill = 0,
         g.nPage \in 0..MaxPage, g.dbSize \in 0..MaxPage, g.cache \in [Pages -> OnDisk],
         g.dirty \subseteq {p \in Pages : g.cache[p] # NoPage},
         NEW p \in Pages, NEW k, k = Loaded(g, p), k.cache \in [Pages -> OnDisk]
  PROVE  ReadyPages(k, i, cells)
<1>1. /\ k.commit = FALSE /\ k.spill = 0 /\ k.nPage = g.nPage /\ k.dbSize = g.dbSize
      /\ k.dirty = g.dirty /\ k.inJournal = g.inJournal /\ k.off = g.off
      /\ k.cache = [g.cache EXCEPT ![p] = Content(g, p)]
      /\ k.vers = IF p = 1 /\ g.cache[1] = NoPage /\ g.dbSize > 0
                  THEN Version(db[1].cur) ELSE g.vers
  BY PageLoaded
<1> HIDE DEF Loaded
<1>2. Len(i) \in Nat /\ (\A q \in 1..Len(i) : q \in Pages /\ i[q] \in PageContents) /\ NoPage \notin PageContents
  BY ImageIs, Contents
<1>3. /\ g.nPage <= g.dbSize /\ Len(i) <= g.nPage /\ g.cache[1] # NoPage
      /\ Len(i) # 0 => g.vers = i[1]
      /\ \A q \in g.dirty : q <= g.dbSize
      /\ \A q \in 1..Len(i) : q \notin g.inJournal =>
           db[q] = Stable(i[q]) /\ (g.cache[q] # NoPage => g.cache[q] = i[q])
      /\ \A q \in g.inJournal : Recs(cells, q, 2, g.off)
      /\ \A q \in 1..g.nPage :
           /\ g.cache[q] # NoPage => g.cache[q] \in PageContents
           /\ q \notin g.dirty => db[q].cur \in PageContents /\ g.cache[q] \in {NoPage, db[q].cur}
  BY DEF WriteK
<1>4. \A q \in Pages : q # p \/ g.cache[q] # NoPage => k.cache[q] = g.cache[q]
  BY <1>1 DEF Content
<1>5. g.cache[p] = NoPage /\ p <= g.nPage => k.cache[p] = db[p].cur /\ p \notin g.dirty
  <2> SUFFICES ASSUME g.cache[p] = NoPage, p <= g.nPage
               PROVE  k.cache[p] = db[p].cur /\ p \notin g.dirty
    OBVIOUS
  <2>1. ~(p > g.dbSize)
    BY <1>3, Bounds DEF Pages
  <2>2. QED
    BY <1>1, <2>1 DEF Content
<1>6. \A q \in 1..g.nPage : q \in Pages
  BY Bounds DEF Pages
<1>7. \A q \in 1..g.nPage :
        /\ k.cache[q] # NoPage => k.cache[q] \in PageContents
        /\ q \notin k.dirty => db[q].cur \in PageContents /\ k.cache[q] \in {NoPage, db[q].cur}
  <2> SUFFICES ASSUME NEW q \in 1..g.nPage
               PROVE  /\ k.cache[q] # NoPage => k.cache[q] \in PageContents
                      /\ q \notin k.dirty => db[q].cur \in PageContents /\ k.cache[q] \in {NoPage, db[q].cur}
    OBVIOUS
  <2>1. CASE q = p /\ g.cache[q] = NoPage
    BY <1>1, <1>3, <1>5, <2>1
  <2>2. CASE ~(q = p /\ g.cache[q] = NoPage)
    <3>1. k.cache[q] = g.cache[q]
      BY <1>4, <1>6, <2>2
    <3>2. QED
      BY <1>1, <1>3, <3>1
  <2>3. QED
    BY <2>1, <2>2
<1>8. \A q \in 1..Len(i) : q \notin k.inJournal =>
        db[q] = Stable(i[q]) /\ (k.cache[q] # NoPage => k.cache[q] = i[q])
  <2> SUFFICES ASSUME NEW q \in 1..Len(i), q \notin g.inJournal
               PROVE  db[q] = Stable(i[q]) /\ (k.cache[q] # NoPage => k.cache[q] = i[q])
    BY <1>1
  <2>1. db[q] = Stable(i[q]) /\ db[q].cur = i[q]
    BY <1>3 DEF Stable
  <2>2. CASE q = p /\ g.cache[q] = NoPage
    <3>1. p <= g.nPage
      BY <1>2, <1>3, <2>2
    <3>2. QED
      BY <1>5, <2>1, <2>2, <3>1
  <2>3. CASE ~(q = p /\ g.cache[q] = NoPage)
    <3>1. k.cache[q] = g.cache[q]
      BY <1>2, <1>4, <2>3
    <3>2. QED
      BY <1>3, <2>1, <3>1
  <2>4. QED
    BY <2>2, <2>3
<1>9. k.cache[1] # NoPage /\ (Len(i) # 0 => k.vers = i[1])
  <2>1. 1 \in Pages
    BY Bounds DEF Pages
  <2>2. QED
    BY <1>1, <1>3, <1>4, <2>1
<1>10. k.dirty \subseteq Pages /\ (\A q \in k.dirty : q <= k.dbSize) /\ (\A q \in k.inJournal : Recs(cells, q, 2, k.off))
  BY <1>1, <1>3
<1>11. QED
  BY <1>1, <1>3, <1>7, <1>8, <1>9, <1>10 DEF ReadyPages

\* The pager with a page more in its cache is what it was.
SamePager(g, h) ==
  /\ IsPager(h) /\ h.eState = g.eState /\ h.pc = g.pc /\ h.hot = g.hot /\ h.jfd = g.jfd
  /\ h.dbSize = g.dbSize /\ h.nPage = g.nPage /\ h.orig = g.orig /\ h.off = g.off
  /\ h.hdr = g.hdr /\ h.header = g.header /\ h.nRec = g.nRec /\ h.nonce = g.nonce
  /\ h.dirty = g.dirty /\ h.needSync = g.needSync /\ h.inJournal = g.inJournal
  /\ h.left = g.left /\ h.commit = g.commit /\ h.spill = g.spill

\* The pager with a page more in its cache.
LEMMA LoadedSame ==
  ASSUME NEW g, IsPager(g), NEW p
  PROVE  SamePager(g, Loaded(g, p))
<1> DEFINE h == Loaded(g, p)
<1>1. h = Loaded(g, p)
  OBVIOUS
<1> HIDE DEF h
<1>2. /\ IsPager(h) /\ h.eState = g.eState /\ h.pc = g.pc /\ h.hot = g.hot /\ h.jfd = g.jfd
      /\ h.dbSize = g.dbSize /\ h.nPage = g.nPage /\ h.orig = g.orig /\ h.off = g.off
      /\ h.hdr = g.hdr /\ h.header = g.header /\ h.nRec = g.nRec /\ h.nonce = g.nonce
      /\ h.dirty = g.dirty /\ h.needSync = g.needSync /\ h.inJournal = g.inJournal
      /\ h.left = g.left /\ h.commit = g.commit /\ h.spill = g.spill
      /\ h.cache = [g.cache EXCEPT ![p] = Content(g, p)]
      /\ h.vers = IF p = 1 /\ g.cache[1] = NoPage /\ g.dbSize > 0
                  THEN Version(db[1].cur) ELSE g.vers
  BY SMTT(60), <1>1, PageLoaded
<1>2a. SamePager(g, h)
  BY <1>2 DEF SamePager
<1>3. QED
  BY <1>2a DEF h

\* The first change of a transaction opens the journal.
LEMMA OpenedReady ==
  ASSUME IInv, NEW b \in Nat, TInv(b), NEW i, PInv(i), NEW c \in Conns, NEW p \in Pages,
         pager[c].eState = "locked", pager[c].pc = "idle",
         pager[c].jfd = 0 /\ dirent.cur = 0 => FreeInodes # {}
  PROVE  Opening(Writable(Loaded(pager[c], p)), i, b + 1, c)
<1> DEFINE r == pager[c]
           g == Loaded(r, p)
           v == Opened(g)
           k == v.pager
           cells == v.cells
           old == Found(g)
<1>1. /\ PagerInv(r, lock[c]) /\ FilesInv /\ DataType(r, b) /\ DbType(db) /\ lock[c] \in Levels
      /\ \A e \in Inodes : JournalType(journal[e], b)
      /\ IsImage(i) /\ FilesK(i, db, journal, dirent, mode)
      /\ ConnK(r, lock[c], i, db, journal, dirent, mode)
  BY DEF IInv, TInv, PInv, LockTypeOK
<1>2. /\ IsPager(r) /\ r.hot = FALSE /\ r.dirty = {} /\ r.inJournal = {} /\ r.spill = 0 /\ r.dbSize = r.orig
      /\ lock[c] >= RESERVED_LOCK /\ r.jfd \in 0..MaxInode /\ r.commit \in BOOLEAN
  BY <1>1 DEF PagerInv, IsPager, HotInv, CleanInv, StateInv, JournalInv, CommitInv
<1>3. /\ TrustK(r, lock[c], i, db, journal, dirent) /\ JfdK(r, i, dirent, mode)
      /\ Reads(r, i) /\ r.nPage = Len(i) /\ ~r.commit
  BY <1>1, <1>2, ReaderIs
<1>4. Quiet(db, i) /\ Cold(db, journal, dirent)
  BY <1>3 DEF TrustK, Trusts, Cools
<1>5. /\ (r.jfd # 0 => Len(i) # 0) /\ (r.jfd # 0 => dirent.cur = r.jfd)
  <2>1. r.jfd = 0 \/ r.dbSize > 0
    BY <1>3 DEF JfdK
  <2>2. r.dbSize = 0 <=> Len(i) = 0
    BY <1>3 DEF Reads, Agrees
  <2>3. r.dbSize \in Nat
    BY <1>1 DEF DataType
  <2>4. r.jfd # 0 => Len(i) # 0
    BY <2>1, <2>2, <2>3
  <2>5. QED
    BY <1>3, <2>4 DEF JfdK
<1>6. /\ IsPager(g) /\ g.eState = "locked" /\ g.pc = "idle" /\ g.hot = FALSE /\ g.jfd = r.jfd
      /\ g.dbSize = r.dbSize /\ g.nPage = r.nPage /\ g.orig = r.orig /\ g.dirty = {}
      /\ g.inJournal = {} /\ g.commit = r.commit /\ g.spill = 0
  <2>1. SamePager(r, g)
    BY <1>2, LoadedSame
  <2>2. r.eState = "locked" /\ r.pc = "idle"
    OBVIOUS
  <2> HIDE DEF r, g
  <2>3. QED
    BY <1>2, <2>1, <2>2 DEF SamePager
<1>7. OpenTyped(Writable(g), p, b + 1) /\ Writable(g) = v
  BY <1>6, WritableTyped DEF Writable
<1>8. /\ v = [pager |-> k, cells |-> cells] /\ ToOpen(g) \in Inodes
      /\ (g.jfd = 0 /\ dirent.cur = 0 => ToOpen(g) \in FreeInodes)
      /\ k = [f \in Fields |-> k[f]]
      /\ \A f \in Fields \ {"eState", "jfd", "off", "hdr", "header", "nRec", "nonce"} : k[f] = g[f]
      /\ k.eState = "cachemod" /\ k.jfd = ToOpen(g) /\ k.off = 1 /\ k.hdr = 1
      /\ k.header = TRUE /\ k.nRec = 0 /\ k.nonce = NewNonce(old)
      /\ old = [s \in Slots |-> old[s]]
      /\ cells = [old EXCEPT ![1] = Written(@, Header(FALSE, 0, k.nonce, g.orig))]
  <2> HIDE DEF g, r
  <2>1. FilesInv /\ g = [f \in Fields |-> g[f]] /\ g.jfd \in 0..MaxInode
        /\ (g.jfd = 0 /\ dirent.cur = 0 => FreeInodes # {})
    BY <1>1, <1>2, <1>6 DEF IsPager, r
  <2>2. QED
    BY ZenonT(30), <2>1, OpenedIs
<1> DEFINE e == ToOpen(g)
<1>9. /\ e = IF r.jfd # 0 THEN r.jfd ELSE IF dirent.cur # 0 THEN dirent.cur ELSE NewInode
      /\ old = IF dirent.cur = 0 /\ r.jfd = 0 THEN NoJournal ELSE journal[e]
  BY <1>6 DEF ToOpen, Found
<1> HIDE DEF g, r, v, k, cells, old, e
<1>10. /\ k.cache = g.cache /\ k.vers = g.vers /\ k.dbSize = g.dbSize /\ k.nPage = g.nPage
       /\ k.orig = g.orig /\ k.dirty = g.dirty /\ k.inJournal = g.inJournal /\ k.hot = g.hot
       /\ k.pc = g.pc /\ k.commit = g.commit /\ k.spill = g.spill
  BY <1>8 DEF Fields
<1>11. dirent.cur # 0 => dirent.cur = e
  BY <1>5, <1>9
<1>12. /\ 1 \in Slots /\ MaxSlot \in Nat /\ MaxSlot >= 1
  BY Bounds DEF Slots
<1>13. JournalType(old, b)
  <2>1. CASE old = NoJournal
    BY <2>1, CutTyped DEF JournalType, NoJournal, CellOf, Stable
  <2>2. CASE old = journal[e]
    BY <1>1, <1>8, <2>2 DEF e
  <2>3. QED
    BY <1>9, <2>1, <2>2
<1>14. /\ cells = [s \in Slots |-> cells[s]]
       /\ cells[1] = Written(old[1], Header(FALSE, 0, k.nonce, g.orig))
  BY <1>8, <1>12
<1> DEFINE x == Header(FALSE, 0, k.nonce, g.orig)
<1>15. x.kind = "header" /\ ~IsMagic(x) /\ x.nRec = 0 /\ x.nonce = k.nonce /\ x.orig = g.orig
  BY DEF Header, IsMagic
<1>16. cells[1].cur = x /\ cells[1].may = old[1].may \cup {x}
  <2>1. cells[1] = Written(old[1], x)
    BY <1>14
  <2> HIDE DEF x
  <2>2. QED
    BY <2>1 DEF Written
<1> HIDE DEF x
<1>17. (\E y \in cells[1].may : IsMagic(y)) => EmptyDb(db) /\ dirent.cur = e /\ dirent.may = {e}
  <2> SUFFICES ASSUME NEW y \in cells[1].may, IsMagic(y)
               PROVE  EmptyDb(db) /\ dirent.cur = e /\ dirent.may = {e}
    OBVIOUS
  <2>1. y \in old[1].may
    BY <1>15, <1>16
  <2>2. old # NoJournal
    BY <1>12, <2>1 DEF NoJournal, Stable, NoCell, IsMagic
  <2>3. old = journal[e] /\ dirent.cur = e /\ e # 0
    BY <1>5, <1>9, <2>2
  <2>4. dirent.may = {e}
    BY <1>1, <2>1, <2>3 DEF FilesK
  <2>5. r.pc # "finsync"
    BY DEF r
  <2>6. EmptyDb(db)
    <3>1. CASE IsMagic(journal[e][1].cur)
      BY <1>4, <2>3, <3>1 DEF Cold
    <3>2. CASE ~IsMagic(journal[e][1].cur)
      <4>1. Dying(journal, dirent)
        BY <2>1, <2>3, <3>2 DEF Dying
      <4>2. QED
        BY <1>2, <4>1, NobodyEnds
    <3>3. QED
      BY <3>1, <3>2
  <2>7. QED
    BY <2>3, <2>4, <2>6
<1>18. OpenSegment(k, i, cells)
  <2>1. cells = [old EXCEPT ![1] = Written(old[1], Header(FALSE, 0, NewNonce(old), g.orig))]
    BY <1>8
  <2>2. k.hdr = 1 /\ k.header = TRUE /\ k.nRec = 0 /\ old = [s \in Slots |-> old[s]]
    BY <1>8
  <2>3. Cells(b) = Cells(b)
    OBVIOUS
  <2>4. QED
    BY <1>12, <1>13, <2>1, <2>2, EmptySegment
<1>19. LogK(k, i, db, cells)
  <2>1. End(k) = 1
    BY <1>8 DEF End
  <2>2. Len(i) <= g.orig /\ (Len(i) = 0 <=> g.orig = 0)
    BY <1>2, <1>3, <1>6 DEF Reads, Agrees
  <2>3. 1 \in 1..MaxSlot + 1
    BY <1>12
  <2>4. k.hdr \in 1..MaxSlot + 1 /\ k.hdr <= End(k) + 1 /\ End(k) <= MaxSlot
    BY <1>8, <1>12, <2>1, <2>3
  <2>5. Len(i) <= k.orig /\ (Len(i) = 0 <=> k.orig = 0)
    BY <1>10, <2>2
  <2>6. cells[1].cur.kind = "header" /\ cells[1].cur.orig = k.orig
    BY <1>10, <1>15, <1>16
  <2>7. k.eState = "cachemod" /\ k.hdr = 1 /\ k.header
    BY <1>8
  <2>8. k.nRec \in Nat
    BY <1>8
  <2>9. QED
    BY <1>18, <2>4, <2>5, <2>6, <2>7, <2>8 DEF LogK
<1>20. NoMagic(cells, 1) \/ (EmptyDb(db) /\ ~IsMagic(cells[1].cur))
  BY <1>15, <1>16, <1>17 DEF NoMagic
<1>21. ReadyLog(k, i, cells)
  <2>1. 0 \in Nat /\ 1 \in 1..MaxSlot /\ 1 = 1 + 0
    BY <1>12
  <2>2. QED
    BY ZenonT(60), <1>6, <1>8, <1>10, <1>12, <1>14, <1>15, <1>16, <1>19, <1>20, <2>1 DEF ReadyLog, IsPager
<1>22. ReadyPages(k, i, cells)
  <2>1. r.commit = FALSE
    BY <1>2, <1>3
  <2>2. DataType(k, b + 1)
    BY <1>7 DEF OpenTyped, k
  <2>3. r.dbSize \in 0..MaxPage /\ r.cache \in [Pages -> OnDisk] /\ k.cache \in [Pages -> OnDisk]
    BY <1>1, <2>2 DEF DataType, r
  <2>4. k.cache = Loaded(r, p).cache /\ k.vers = Loaded(r, p).vers
    BY <1>10 DEF g
  <2>5. /\ k.commit = FALSE /\ k.spill = 0 /\ k.nPage = r.nPage /\ k.dbSize = r.dbSize
        /\ k.dirty = {} /\ k.inJournal = {}
    BY <1>6, <1>10, <2>1
  <2>6. IsImage(i) /\ DbType(db) /\ Quiet(db, i) /\ IsPager(r) /\ Reads(r, i) /\ r.nPage = Len(i) /\ p \in Pages
    BY <1>1, <1>2, <1>3, <1>4
  <2>7. QED
    BY ONLY <2>3, <2>4, <2>5, <2>6, LockedPages
<1>23. JournalType(cells, b + 1)
  BY <1>7 DEF OpenTyped, cells
<1>24. e # 0 /\ e \in Inodes /\ k.jfd = e
  BY <1>8, Bounds DEF e, Inodes
<1>25. Opening(v, i, b + 1, c)
  <2>1. k.nPage = pager[c].nPage /\ k.pc = pager[c].pc
    BY <1>6, <1>10 DEF r
  <2>2. pager[c].jfd # 0 => dirent.cur = pager[c].jfd
    BY <1>5 DEF r
  <2>3. v.pager = k /\ v.cells = cells
    BY DEF k, cells
  <2>4. k.eState = "cachemod" /\ k.hdr = 1 /\ ~IsMagic(cells[1].cur)
    BY <1>8, <1>15, <1>16
  <2>5. v = [pager |-> v.pager, cells |-> v.cells]
    BY <1>8, <2>3
  <2>6. Ready(k, i, cells)
    BY <1>21, <1>22 DEF Ready
  <2>7. QED
    BY <1>4, <1>11, <1>17, <1>23, <1>24, <2>1, <2>2, <2>3, <2>4, <2>5, <2>6 DEF Opening
<1>26. QED
  BY <1>7, <1>25 DEF g, r

\* A later change goes on with the journal as it is.
LEMMA ChangedReady ==
  ASSUME IInv, NEW b \in Nat, TInv(b), NEW i, PInv(i), NEW c \in Conns, NEW p \in Pages,
         pager[c].eState = "cachemod" \/ pager[c].eState = "dbmod",
         pager[c].pc = "idle" \/ pager[c].pc = "phase1"
  PROVE  Opening(Writable(Loaded(pager[c], p)), i, b + 1, c)
<1> DEFINE r == pager[c]
           g == Loaded(r, p)
           cells == journal[r.jfd]
<1>1. Active(r) /\ Logging(r)
  BY DEF Active, Logging, LoggingPcs
<1>2. /\ IsPager(r) /\ PagerInv(r, lock[c]) /\ r.hot = FALSE /\ r.jfd # 0 /\ r.jfd \in Inodes
      /\ dirent.cur = r.jfd /\ IsImage(i) /\ DbType(db) /\ DataType(r, b)
      /\ cells = [s \in Slots |-> cells[s]] /\ JournalType(cells, b)
      /\ LogK(r, i, db, cells) /\ WriteK(r, i, db, cells, mode) /\ SyncK(r, i, db, cells, dirent)
      /\ TrustK(r, lock[c], i, db, journal, dirent)
      /\ FilesK(i, db, journal, dirent, mode)
  BY <1>1, ActiveHas
<1>3. LogInv(r, cells)
  BY <1>1 DEF IInv
<1>4. OpenTyped(Writable(g), p, b + 1)
  BY WritableTyped
<1> HIDE DEF r, cells
<1>5. /\ IsPager(g) /\ g.eState = r.eState /\ g.pc = r.pc /\ g.hot = r.hot /\ g.jfd = r.jfd
      /\ g.dbSize = r.dbSize /\ g.nPage = r.nPage /\ g.orig = r.orig /\ g.off = r.off
      /\ g.hdr = r.hdr /\ g.header = r.header /\ g.nRec = r.nRec /\ g.nonce = r.nonce
      /\ g.commit = r.commit /\ g.spill = r.spill
  <2>1. SamePager(r, g)
    BY <1>2, LoadedSame
  <2> HIDE DEF g
  <2>2. QED
    BY <2>1 DEF SamePager
<1> HIDE DEF g
<1>6. Writable(g) = [pager |-> g, cells |-> cells]
  BY <1>5 DEF Writable, cells, r
<1>7. r.pc = "idle" \/ r.pc = "phase1"
  BY DEF r
<1>8. r.commit = FALSE /\ r.spill = 0
  <2>1. r.eState # "error"
    BY DEF r
  <2>2. CommitInv(r, lock[c])
    BY <1>2 DEF PagerInv
  <2>3. SyncK(r, i, db, cells, dirent)
    BY <1>2
  <2>4. QED
    BY <1>7, <2>1, <2>2, <2>3 DEF CommitInv, SyncK
<1>9. /\ r.off \in 0..MaxSlot /\ r.hdr \in Nat \ {0} /\ r.nRec \in Nat /\ MaxSlot \in Nat
      /\ r.off = r.hdr + r.nRec /\ r.off = End(r)
  BY <1>2, <1>3, <1>7, Bounds DEF LogInv, WriteK
<1>10. r.header
  BY <1>9 DEF End
<1>11. g.header = TRUE /\ r.hdr \in Slots /\ r.off \in r.hdr..MaxSlot
  <2>1. r.header \in BOOLEAN \/ r.header = TRUE
    BY <1>10
  <2>2. QED
    BY <1>5, <1>9, <1>10, <2>1 DEF Slots
<1>12. NoMagic(cells, r.hdr) \/ (r.hdr = 1 /\ EmptyDb(db) /\ ~IsMagic(cells[1].cur))
  BY <1>2, <1>7, <1>10 DEF SyncK
<1>13. \A s \in Slots : cells[s].cur \in cells[s].may
  BY <1>2 DEF JournalType, CellOf
<1>14. cells[r.hdr].cur.nRec = 0 /\ r.nonce = cells[r.hdr].cur.nonce
  <2>1. OpenSegment(r, i, cells) /\ r.nonce = cells[r.hdr].cur.nonce
    BY <1>2, <1>10 DEF LogK, WriteK
  <2>2. ~IsMagic(cells[r.hdr].cur)
    BY <1>11, <1>12, <1>13 DEF NoMagic, Slots
  <2>3. QED
    BY <2>1, <2>2 DEF OpenSegment, IsMagic
<1>15. LogK(g, i, db, cells)
  BY <1>2, <1>5, LogSame DEF SameJournal
<1>16. ReadyLog(g, i, cells)
  <2>1. g.eState = "cachemod" \/ g.eState = "dbmod"
    BY <1>5 DEF r
  <2>2. QED
    BY <1>2, <1>5, <1>7, <1>9, <1>11, <1>12, <1>14, <1>15, <2>1 DEF ReadyLog
<1>17. ReadyPages(g, i, cells)
  <2>1. DataType(g, b + 1)
    BY <1>4, <1>6 DEF OpenTyped
  <2>2. /\ r.nPage \in 0..MaxPage /\ r.dbSize \in 0..MaxPage /\ r.cache \in [Pages -> OnDisk]
        /\ r.dirty \subseteq {q \in Pages : r.cache[q] # NoPage} /\ g.cache \in [Pages -> OnDisk]
    BY <1>2, <2>1 DEF DataType
  <2>3. /\ IsImage(i) /\ DbType(db) /\ IsPager(r) /\ WriteK(r, i, db, cells, mode) /\ p \in Pages
        /\ g = Loaded(r, p)
    BY <1>2 DEF g
  <2>4. QED
    BY ONLY <1>8, <2>2, <2>3, ChangedPages
<1>18. JournalType(cells, b + 1)
  BY <1>4, <1>6 DEF OpenTyped
<1>19. r.eState = "cachemod" => /\ Quiet(db, i) /\ r.hdr = 1 /\ ~IsMagic(cells[1].cur)
                                /\ (\E x \in cells[1].may : IsMagic(x)) =>
                                     EmptyDb(db) /\ dirent.may = {r.jfd}
  <2> SUFFICES ASSUME r.eState = "cachemod"
               PROVE  /\ Quiet(db, i) /\ r.hdr = 1 /\ ~IsMagic(cells[1].cur)
                      /\ (\E x \in cells[1].may : IsMagic(x)) =>
                           EmptyDb(db) /\ dirent.may = {r.jfd}
    OBVIOUS
  <2>1. Quiet(db, i) /\ r.hdr = 1
    BY <1>2 DEF TrustK, Trusts, LogK
  <2>2. ~IsMagic(cells[1].cur) /\ ((\E x \in cells[1].may : IsMagic(x)) => EmptyDb(db))
    BY <1>11, <1>12, <1>13, <2>1 DEF NoMagic, Slots
  <2>3. (\E x \in cells[1].may : IsMagic(x)) => dirent.may = {r.jfd}
    BY <1>2 DEF FilesK, cells
  <2>4. QED
    BY <2>1, <2>2, <2>3
<1>20. r.eState = "dbmod" => lock[c] = EXCLUSIVE_LOCK /\ dirent.may = {r.jfd}
  <2> SUFFICES ASSUME r.eState = "dbmod"
               PROVE  lock[c] = EXCLUSIVE_LOCK /\ dirent.may = {r.jfd}
    OBVIOUS
  <2>1. lock[c] = EXCLUSIVE_LOCK
    BY <1>2 DEF PagerInv, StateInv
  <2>2. IsStable(cells[1]) /\ IsMagic(cells[1].cur)
    BY <1>2 DEF LogK
  <2>3. dirent.may = {dirent.cur}
    BY <1>2, <2>2, NameIsSure DEF cells
  <2>4. QED
    BY <1>2, <2>1, <2>3
<1>21. Opening(Writable(g), i, b + 1, c)
  <2> DEFINE v == Writable(g)
  <2>1. v.pager = g /\ v.cells = cells /\ v = [pager |-> v.pager, cells |-> v.cells]
    BY <1>6
  <2>2. g.nPage = pager[c].nPage /\ g.pc = pager[c].pc /\ pager[c].jfd = r.jfd
    BY <1>5 DEF r
  <2>3. Ready(g, i, cells)
    BY <1>16, <1>17 DEF Ready
  <2> HIDE DEF v
  <2>4. Opening(v, i, b + 1, c)
    BY <1>2, <1>5, <1>18, <1>19, <1>20, <2>1, <2>2, <2>3 DEF Opening
  <2>5. QED
    BY <2>4 DEF v
<1>22. QED
  BY <1>21 DEF g, r
=============================================================================
