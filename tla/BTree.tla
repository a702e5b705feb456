------------------------------- MODULE BTree --------------------------------
(***************************************************************************)
(* A b-tree of the library (btree.c): insertion, deletion and the          *)
(* balancing that repairs the tree afterwards, on a file with a freelist.  *)
(* A statement seeks its key, edits one page (a deletion from an interior  *)
(* page: two) and then calls balance(), whose loop walks up the cursor's   *)
(* path one page per step.  One connection writes at a time, so a step is  *)
(* one call of a balancing routine.                                        *)
(*                                                                         *)
(* A cell is kept as its key, its payload, the child page on its left (0   *)
(* on a leaf) and its chain of overflow pages; of its bytes only their     *)
(* number counts, and where on the page they lie is left out.  Indexes of  *)
(* cells (ix, aiOvfl[], iParentIdx) count from 0 as in the source.         *)
(***************************************************************************)
EXTENDS Freelist, CellCuts, FiniteSets

CONSTANTS
  IntKey,      \* TRUE: a table (rowid keys); FALSE: an index
  UsableSize,  \* bytes of a page
  Root,        \* the root page; page 1 for the schema table
  HdrOffset,   \* bytes of the file header on page 1 (100)
  Bulk,        \* TRUE if the cursor has the hint BTREE_BULKLOAD
  Keys,
  Payloads,
  Bytes,       \* Bytes[p]: what a cell with payload p takes on a leaf
  ChainLen     \* ChainLen[p]: overflow pages that payload p needs

BTCURSOR_MAX_DEPTH == 20
NB == 3                  \* siblings that a balance brings together
Slot == 2                \* bytes of an entry of the cell pointer array
RowidDivider == 5        \* a divider of a table: child pointer and rowid
NoPayload == "none"      \* what such a divider has for a payload

ASSUME BTreeAssumption ==
  /\ IntKey \in BOOLEAN /\ Bulk \in BOOLEAN
  /\ Keys \subseteq Int
  /\ UsableSize \in Nat /\ HdrOffset \in Nat
  /\ Root \in 1..MaxPgno /\ MaxPgno \in Nat /\ TrunkCap \in Nat
  /\ NoPayload \notin Payloads
  /\ Bytes \in [Payloads -> Nat \ 0..2] /\ ChainLen \in [Payloads -> Nat]
  /\ Root = 1 => IntKey
  \* a leaf of a table takes any cell; of the cells of an index and of
  \* the dividers of a table four go on a page
  /\ LET header == IF Root = 1 THEN HdrOffset ELSE 0
     IN /\ \A p \in Payloads :
             IF IntKey THEN Bytes[p] + Slot + header <= UsableSize - 8
                       ELSE 4 * (Bytes[p] + 4 + Slot) <= UsableSize - 12
        /\ 4 * (RowidDivider + Slot) + header <= UsableSize - 12

VARIABLES
  node,   \* the pages of the tree: a function from page numbers
  file,   \* freelist and length of the file
  pc,     \* "idle", in "balance", "failed" (SQLITE_FULL), "corrupt"
  cur,    \* the cursor: <<page, index>> from the root down
  call,   \* the running statement, see Call
  saved   \* the tree and the file before the running statement

vars == <<node, file, pc, cur, call, saved>>

\* climbTo: length of the path to the page a deletion started from (none for
\* an insertion); quick, deeper: calls of balance_quick() and
\* balance_deeper() within the running call of balance().
Call == [climbTo : 1..BTCURSOR_MAX_DEPTH, quick : 0..2, deeper : 0..2]
NewCall(climbTo) == [climbTo |-> climbTo, quick |-> 0, deeper |-> 0]

-----------------------------------------------------------------------------
(* Pages and cells. *)

Larger(a, b) == IF a < b THEN b ELSE a

Cell == [key : Keys, val : Payloads \cup {NoPayload}, child : 0..MaxPgno,
         chain : Seq(1..MaxPgno)]

\* lost: bytes that nFree counts as used although no cell has them.
Node == [leaf : BOOLEAN, cells : Seq(Cell), right : 0..MaxPgno,
         ovfl : Seq([ix : Nat, cell : Cell]), lost : Nat]

Divider(k) == [key |-> k, val |-> NoPayload, child |-> 0, chain |-> <<>>]

\* xCellSize(): no cell has less than 4 bytes.
CellSize(leaf, c) ==
  IF leaf THEN Larger(4, Bytes[c.val])
  ELSE IF IntKey THEN RowidDivider ELSE Bytes[c.val] + 4

\* Running total of the cells' space, slots included.
Totals(leaf, cells) ==
  LET P[j \in 0..Len(cells)] ==
        IF j = 0 THEN 0 ELSE P[j - 1] + CellSize(leaf, cells[j]) + Slot
  IN P

Space(pg, leaf) ==
  UsableSize - (IF leaf THEN 8 ELSE 12) - (IF pg = 1 THEN HdrOffset ELSE 0)

nFree(pg, n) ==
  Space(pg, n.leaf) - Totals(n.leaf, n.cells)[Len(n.cells)] - n.lost

\* The cells of a page with its overflow cells where they belong.
AllCells(n) ==
  IF n.ovfl = <<>> THEN n.cells
  ELSE LET ix == Head(n.ovfl).ix
       IN SubSeq(n.cells, 1, ix) \o [x \in DOMAIN n.ovfl |-> n.ovfl[x].cell]
            \o SubSeq(n.cells, ix + 1, Len(n.cells))

Children(n) ==
  IF n.leaf THEN <<>>
  ELSE [x \in DOMAIN AllCells(n) |-> AllCells(n)[x].child] \o <<n.right>>

\* (Slip... : plausible slips of the definition that follows, see the README;
\* nothing uses them.)

\* insertCell(): the cell goes on the page, or among the overflow cells once
\* it or a cell before it does not fit.
InsertCell(pg, n, i, c, sz) ==
  IF n.ovfl # <<>> \/ sz + Slot > nFree(pg, n)
  THEN [n EXCEPT !.ovfl = Append(@, [ix |-> i, cell |-> c])]
  ELSE [n EXCEPT !.cells = InsertAt(@, i + 1, c),
                 !.lost = @ + sz - CellSize(n.leaf, c)]

\* A page without cells starts afresh.
LostWith(cells, lost) == IF cells = <<>> THEN 0 ELSE lost

\* dropCell()
DropCell(n, i) ==
  LET cells == RemoveAt(n.cells, i + 1)
  IN [n EXCEPT !.cells = cells, !.lost = LostWith(cells, @)]

-----------------------------------------------------------------------------
(* Seeking a key (sqlite3BtreeTableMoveto(), sqlite3BtreeIndexMoveto()). *)

\* On a page: past the smaller keys.
Place(pg, k) ==
  [pg |-> pg,
   ix |-> Cardinality({x \in DOMAIN node[pg].cells : node[pg].cells[x].key < k})]

HasKey(at, k) ==
  LET cells == node[at.pg].cells
  IN at.ix < Len(cells) /\ cells[at.ix + 1].key = k

ChildAt(at) ==
  LET n == node[at.pg]
  IN IF at.ix < Len(n.cells) THEN n.cells[at.ix + 1].child ELSE n.right

\* moveToChild() reports corruption for a child without cells, moveToRoot()
\* for a root without cells that is not a leaf, page 1 excepted.
BadChild(pg) == pg \notin DOMAIN node \/ node[pg].cells = <<>>
SlipBadRoot == node[Root].cells = <<>> /\ ~node[Root].leaf

BadRoot == node[Root].cells = <<>> /\ ~node[Root].leaf /\ Root # 1

\* The descent ends on a leaf, on an equal key of an index, or at a bad page.
Ends(at, k) ==
  \/ node[at.pg].leaf
  \/ ~IntKey /\ HasKey(at, k)
  \/ BadRoot
  \/ BadChild(ChildAt(at))

Seek(k) ==
  LET path[d \in 1..BTCURSOR_MAX_DEPTH] ==
        IF d = 1 THEN <<Place(Root, k)>>
        ELSE LET above == path[d - 1]
             IN IF Ends(Last(above), k) THEN above
                ELSE Append(above, Place(ChildAt(Last(above)), k))
  IN path[BTCURSOR_MAX_DEPTH]

\* The seek ended on a page of the tree and not at corruption.
Sound(at, k) == node[at.pg].leaf \/ (~IntKey /\ HasKey(at, k))

-----------------------------------------------------------------------------
Init ==
  /\ node = Root :> [leaf |-> TRUE, cells |-> <<>>, right |-> 0,
                     ovfl |-> <<>>, lost |-> 0]
  /\ file = [trunks |-> <<>>, nPage |-> Root]
  /\ pc = "idle" /\ cur = <<>> /\ saved = <<>>
  /\ call = NewCall(BTCURSOR_MAX_DEPTH)

\* How a call begins: the page edited and the pages of the file are given.
\* Without overflow and without too much free space balance() returns at once.
Begin(path, nodes, f, climbTo) ==
  /\ node' = nodes /\ file' = f
  /\ cur' = path /\ call' = NewCall(climbTo)
  /\ pc' = "balance" /\ saved' = [node |-> node, file |-> file]

Quiet(nodes, f) ==
  node' = nodes /\ file' = f /\ UNCHANGED <<pc, cur, call, saved>>

Give(up) ==
  /\ pc' = up /\ saved' = [node |-> node, file |-> file]
  /\ UNCHANGED <<node, file, cur, call>>

-----------------------------------------------------------------------------
(* The statements. *)

SameSize(p, q) == Bytes[p] = Bytes[q] /\ ChainLen[p] = ChainLen[q]

\* sqlite3BtreeInsert() on an entry with a payload of the same size: the
\* content is overwritten where it is (btreeOverwriteCell()).
OverwriteAt(path, k, v) ==
  /\ pc = "idle"
  /\ LET at == Last(path)
     IN /\ Sound(at, k) /\ HasKey(at, k)
        /\ SameSize(node[at.pg].cells[at.ix + 1].val, v)
        /\ Quiet([node EXCEPT ![at.pg].cells[at.ix + 1].val = v], file)

\* sqlite3BtreeInsert() in general: fillInCell() writes the overflow chain,
\* the old cell of the key goes if one was found, the new one comes in its
\* place.  (For a table the overwriting above needs a cursor that has parsed
\* the entry.)
PutAt(path, found, k, v) ==
  /\ pc = "idle"
  /\ LET at    == Last(path)
         n     == node[at.pg]
         old   == n.cells[at.ix + 1]
         got   == AllocMany(file, ChainLen[v], 0, FALSE)
         new   == [key |-> k, val |-> v, chain |-> got.pgnos,
                   child |-> IF found THEN old.child ELSE 0]
         f     == IF found THEN FreeAll(got.file, old.chain) ELSE got.file
         size  == CellSize(n.leaf, new)
         n1    == IF found /\ old.chain = <<>> /\ CellSize(n.leaf, old) = size
                  THEN [n EXCEPT !.cells[at.ix + 1] = new]
                  ELSE InsertCell(at.pg, IF found THEN DropCell(n, at.ix) ELSE n,
                                  at.ix, new, size)
         nodes == [node EXCEPT ![at.pg] = n1]
     IN /\ found /\ ~IntKey => ~SameSize(old.val, v)
        /\ IF ~Sound(at, k) THEN Give("corrupt")
           ELSE IF Full(got) THEN Give("failed")
           ELSE IF n1.ovfl = <<>> THEN Quiet(nodes, f)
           ELSE Begin(path, nodes, f, BTCURSOR_MAX_DEPTH)

SlipAtRest(pg, n) ==
  (n.leaf => n.ovfl = <<>>) /\ nFree(pg, n) * 3 <= UsableSize * 2

\* balance() leaves a page alone unless it overflows or more than two thirds
\* of it are free.
AtRest(pg, n) == n.ovfl = <<>> /\ nFree(pg, n) * 3 <= UsableSize * 2

\* The path extended to the largest entry below the cell it points to
\* (sqlite3BtreePrevious() from an interior cell).
ToPredecessor(path) ==
  LET deeper[d \in Len(path)..BTCURSOR_MAX_DEPTH] ==
        IF d = Len(path) THEN path
        ELSE LET above == deeper[d - 1]
                 n     == node[ChildAt(Last(above))]
             IN IF d > Len(path) + 1 /\ node[Last(above).pg].leaf THEN above
                ELSE Append(above, [pg |-> ChildAt(Last(above)),
                                    ix |-> Len(n.cells) - IF n.leaf THEN 1 ELSE 0])
  IN deeper[BTCURSOR_MAX_DEPTH]

\* sqlite3BtreeDelete() of an entry on a leaf.
DeleteFromLeaf(path) ==
  /\ pc = "idle"
  /\ LET at == Last(path)
         n  == node[at.pg]
         n1 == DropCell(n, at.ix)
         f  == FreeAll(file, n.cells[at.ix + 1].chain)
     IN /\ n.leaf
        /\ IF AtRest(at.pg, n1)
           THEN Quiet([node EXCEPT ![at.pg] = n1], f)
           ELSE Begin(path, [node EXCEPT ![at.pg] = n1], f, Len(path))

\* The size that a leaf cell is given when it moves to the interior page.
MovedSize(c) == CellSize(TRUE, c) + 4

\* sqlite3BtreeDelete() of an entry on an interior page (of an index): the
\* largest smaller entry, the last of a leaf, takes its place.
DeleteFromInterior(path) ==
  /\ pc = "idle"
  /\ LET at    == Last(path)
         n     == node[at.pg]
         down  == ToPredecessor(path)
         lf    == Last(down)
         moved == Last(node[lf.pg].cells)
         n1    == InsertCell(at.pg, DropCell(n, at.ix), at.ix,
                             [moved EXCEPT !.child = down[Len(path) + 1].pg],
                             MovedSize(moved))
     IN /\ ~n.leaf
        /\ Begin(down,
                 [node EXCEPT ![at.pg] = n1, ![lf.pg] = DropCell(@, lf.ix)],
                 FreeAll(file, n.cells[at.ix + 1].chain), Len(path))

\* The statements of a cursor that seeks its key from the root.
Overwrite(k, v) == OverwriteAt(Seek(k), k, v)
Insert(k, v) == LET path == Seek(k) IN PutAt(path, HasKey(Last(path), k), k, v)
Delete(k) ==
  LET path == Seek(k)
  IN /\ HasKey(Last(path), k)
     /\ DeleteFromLeaf(path) \/ DeleteFromInterior(path)

-----------------------------------------------------------------------------
(* The loop of balance().  Its page is the last one of the cursor's path. *)

PageNow == Last(cur).pg
Now == node[PageNow]
ParentAt == cur[Len(cur) - 1]

SlipBalanceDone ==
  /\ pc = "balance"
  /\ AtRest(PageNow, Now) \/ (Len(cur) = 1 /\ Now.ovfl = <<>>)
  /\ pc' = "idle" /\ cur' = <<>> /\ saved' = <<>>
  /\ call' = NewCall(BTCURSOR_MAX_DEPTH)
  /\ UNCHANGED <<node, file>>

\* The loop ends.  A deletion from an interior page balances that page too.
BalanceDone ==
  /\ pc = "balance"
  /\ AtRest(PageNow, Now) \/ (Len(cur) = 1 /\ Now.ovfl = <<>>)
  /\ IF Len(cur) > call.climbTo
     THEN /\ cur' = SubSeq(cur, 1, call.climbTo)
          /\ call' = NewCall(call.climbTo)
          /\ UNCHANGED <<pc, saved>>
     ELSE /\ pc' = "idle" /\ cur' = <<>> /\ saved' = <<>>
          /\ call' = NewCall(BTCURSOR_MAX_DEPTH)
  /\ UNCHANGED <<node, file>>

Stop(why) == pc' = why /\ UNCHANGED <<node, file, cur, call, saved>>

\* balance_deeper(): the root overflows; its cells go to a new child.
BalanceDeeper ==
  /\ pc = "balance" /\ Len(cur) = 1 /\ Now.ovfl # <<>>
  /\ LET got == Alloc(file, Root)
     IN IF got.pgno = 0 THEN Stop("failed")
        ELSE /\ node' = (got.pgno :> Now) @@
                        [node EXCEPT ![Root] =
                           [leaf |-> FALSE, cells |-> <<>>, right |-> got.pgno,
                            ovfl |-> <<>>, lost |-> 0]]
             /\ file' = got.file
             /\ cur' = <<[pg |-> Root, ix |-> 0], [pg |-> got.pgno, ix |-> 0]>>
             /\ call' = [call EXCEPT !.deeper = @ + 1]
             /\ UNCHANGED <<pc, saved>>

SlipQuick ==
  /\ IntKey
  /\ Len(Now.ovfl) = 1 /\ Now.ovfl[1].ix = Len(Now.cells)
  /\ ParentAt.pg # 1
  /\ Len(node[ParentAt.pg].cells) = ParentAt.ix

\* When balance() takes the short cut.
Quick ==
  /\ IntKey /\ Now.leaf
  /\ Len(Now.ovfl) = 1 /\ Now.ovfl[1].ix = Len(Now.cells)
  /\ ParentAt.pg # 1
  /\ Len(node[ParentAt.pg].cells) = ParentAt.ix

\* balance_quick(): the overflow cell gets a page of its own on the right.
BalanceQuick ==
  /\ pc = "balance" /\ Len(cur) > 1 /\ ~AtRest(PageNow, Now) /\ Quick
  /\ LET got    == Alloc(file, 0)
         pp     == ParentAt.pg
         parent == InsertCell(pp, node[pp], Len(node[pp].cells),
                              [Divider(Last(Now.cells).key) EXCEPT !.child = PageNow],
                              RowidDivider)
     IN IF Now.cells = <<>> THEN Stop("corrupt")
        ELSE IF got.pgno = 0 THEN Stop("failed")
        ELSE /\ node' = (got.pgno :> [Now EXCEPT !.cells = <<Now.ovfl[1].cell>>,
                                                 !.ovfl = <<>>, !.lost = 0]) @@
                        [node EXCEPT ![PageNow].ovfl = <<>>,
                                     ![pp] = [parent EXCEPT !.right = got.pgno]]
             /\ file' = got.file
             /\ cur' = Front(cur)
             /\ call' = [call EXCEPT !.quick = @ + 1]
             /\ UNCHANGED <<pc, saved>>

-----------------------------------------------------------------------------
(* balance_nonroot(), in the stages of the routine. *)

SlipSiblings(parent, idx) ==
  LET last  == Len(AllCells(parent))
      nOld  == IF last < NB THEN last + 1 ELSE NB + 1
      nxDiv == IF last < NB \/ idx = 0 THEN 0
               ELSE IF idx - 1 > last - NB THEN last - NB
               ELSE idx - 1
  IN [nxDiv |-> nxDiv,
      pgs |-> SubSeq(Children(parent), nxDiv + 1, nxDiv + nOld)]

\* The siblings: up to NB children of the parent around child number idx.
Siblings(parent, idx) ==
  LET last == Len(AllCells(parent))
      bulk == IF Bulk THEN 1 ELSE 0
      nOld == IF last < 2 THEN last + 1 ELSE NB - bulk
      nxDiv == IF last < 2 \/ idx = 0 THEN 0
               ELSE IF idx = last THEN last - (NB - 1) + bulk
               ELSE idx - 1
  IN [nxDiv |-> nxDiv,
      pgs |-> SubSeq(Children(parent), nxDiv + 1, nxDiv + nOld)]

\* b.apCell[]: the cells of the siblings, with the dividers of the parent
\* between them unless the siblings are leaves of a table.
Gathered(parent, sib) ==
  FlattenSeq([j \in DOMAIN sib.pgs |->
    LET old == node[sib.pgs[j]]
    IN AllCells(old) \o
       IF j = Len(sib.pgs) \/ (IntKey /\ old.leaf) THEN <<>>
       ELSE <<[AllCells(parent)[sib.nxDiv + j] EXCEPT !.child = old.right]>>])

SlipDealFewer(leaf, cells) ==
  LET n   == Len(cells)
      P   == Listed(Totals(leaf, cells), n)
      div == IF IntKey /\ leaf THEN 0 ELSE 1
      g   == GreedyCuts(P, n, Space(0, leaf), div, NB)
      all == {j \in 0..NB - 1 : g[j] = n}
      k   == 1 + CHOOSE j \in all : \A x \in all : j <= x
  IN IF all = {} THEN [k |-> 0, cut |-> g, div |-> div, bad |-> TRUE]
     ELSE [k |-> k, cut |-> LeveledCuts(P, n, div, Bulk, g, k), div |-> div, bad |-> FALSE]

\* How many pages the cells take and where they are cut; "bad" where the
\* routine reports SQLITE_CORRUPT.
Deal(leaf, cells) ==
  LET n   == Len(cells)
      P   == Listed(Totals(leaf, cells), n)
      div == IF IntKey /\ leaf THEN 0 ELSE 1
      g   == GreedyCuts(P, n, Space(0, leaf), div, NB + 2)
      all == {j \in 0..NB + 1 : g[j] = n}
      k   == 1 + CHOOSE j \in all : \A x \in all : j <= x
      cut == LeveledCuts(P, n, div, Bulk, g, k)
      before(j) == IF j = 0 THEN 0 ELSE g[j - 1]
  IN IF all = {} THEN [k |-> 0, cut |-> g, div |-> div, bad |-> TRUE]
     ELSE [k |-> k, cut |-> cut, div |-> div,
           bad |-> \E j \in 0..k - 2 : g[j] <= before(j) \/ cut[j] <= before(j)]

SlipNewNodes(leaf, cells, deal, lastRight) ==
  [j \in 0..deal.k - 1 |->
     [leaf  |-> leaf,
      cells |-> SubSeq(cells, Start(deal.cut, j, Len(cells), 1) + 1, deal.cut[j]),
      right |-> IF leaf THEN 0
                ELSE IF j < deal.k - 1 THEN cells[deal.cut[j] + 1].child
                ELSE lastRight,
      ovfl  |-> <<>>,
      lost  |-> 0]]

\* The content of the k new pages, counted from 0.  The last one keeps the
\* right child of the last sibling.
NewNodes(leaf, cells, deal, lastRight) ==
  [j \in 0..deal.k - 1 |->
     [leaf  |-> leaf,
      cells |-> SubSeq(cells, Start(deal.cut, j, Len(cells), deal.div) + 1,
                       deal.cut[j]),
      right |-> IF leaf THEN 0
                ELSE IF j < deal.k - 1 THEN cells[deal.cut[j] + 1].child
                ELSE lastRight,
      ovfl  |-> <<>>,
      lost  |-> 0]]

SlipDividerNext(leaf, cells, cut) ==
  IF IntKey /\ leaf THEN Divider(cells[cut + 1].key) ELSE cells[cut + 1]

SlipDividerLast(leaf, cells, cut) ==
  IF IntKey /\ leaf THEN Divider(cells[cut].key) ELSE cells[cut]

\* The divider after new page j: the key of the page's last cell for leaves
\* of a table, otherwise the cell at the cut itself.
NewDivider(leaf, cells, cut) ==
  IF IntKey /\ leaf THEN Divider(cells[cut].key) ELSE cells[cut + 1]

SlipNewParent(pp, parent, sib, leaf, cells, deal, pgs) ==
  LET all  == AllCells(parent)
      kept == SubSeq(all, 1, sib.nxDiv)
                \o SubSeq(all, sib.nxDiv + Len(sib.pgs), Len(all))
      with[j \in 0..deal.k - 1] ==
        IF j = 0 THEN [parent EXCEPT !.cells = kept, !.ovfl = <<>>]
        ELSE LET prev == with[j - 1]
                 c    == [NewDivider(leaf, cells, deal.cut[j - 1]) EXCEPT !.child = pgs[j]]
             IN InsertCell(pp, prev, sib.nxDiv + j - 1, c, CellSize(FALSE, c))
  IN with[deal.k - 1]

\* The parent without the old dividers, the pointer after them set to the
\* last new page, then with the new dividers.
NewParent(pp, parent, sib, leaf, cells, deal, pgs) ==
  LET all  == AllCells(parent)
      kept == SubSeq(all, 1, sib.nxDiv)
                \o SubSeq(all, sib.nxDiv + Len(sib.pgs), Len(all))
      bare == [parent EXCEPT
                 !.cells = IF sib.nxDiv = Len(kept) THEN kept
                           ELSE [kept EXCEPT ![sib.nxDiv + 1].child = Last(pgs)],
                 !.right = IF sib.nxDiv = Len(kept) THEN Last(pgs) ELSE @,
                 !.ovfl  = <<>>,
                 !.lost  = LostWith(kept, @)]
      with[j \in 0..deal.k - 1] ==
        IF j = 0 THEN bare
        ELSE LET prev == with[j - 1]
                 c    == [NewDivider(leaf, cells, deal.cut[j - 1]) EXCEPT !.child = pgs[j]]
             IN InsertCell(pp, prev, sib.nxDiv + j - 1, c, CellSize(FALSE, c))
  IN with[deal.k - 1]

SlipShallower(pp, parent, new0) == Len(cur) = 2 /\ parent.cells = <<>>

\* The root is left without cells and its child fits on it.
Shallower(pp, parent, new0) ==
  /\ Len(cur) = 2 /\ parent.cells = <<>>
  /\ (IF pp = 1 THEN HdrOffset ELSE 0) <= nFree(0, new0)

NeedsNonroot == pc = "balance" /\ Len(cur) > 1 /\ ~AtRest(PageNow, Now) /\ ~Quick

BalanceNonroot ==
  /\ NeedsNonroot
  /\ LET pp      == ParentAt.pg
         sib     == Siblings(node[pp], ParentAt.ix)
         nOld    == Len(sib.pgs)
         leaf    == node[sib.pgs[1]].leaf
         cells   == Gathered(node[pp], sib)
         deal    == Deal(leaf, cells)
         k       == deal.k
         got     == AllocMany(file, Larger(0, k - nOld),
                              IF Bulk THEN 1 ELSE sib.pgs[1], Bulk)
         kept    == SubSeq(sib.pgs, 1, IF k < nOld THEN k ELSE nOld)
         surplus == SubSeq(sib.pgs, k + 1, nOld)
         pgs     == SortSeq(kept \o got.pgnos, <)
         new     == NewNodes(leaf, cells, deal, node[Last(sib.pgs)].right)
         parent  == NewParent(pp, node[pp], sib, leaf, cells, deal, pgs)
         up      == Shallower(pp, parent, new[0])
         gone    == (IF up THEN <<pgs[1]>> ELSE <<>>) \o surplus
     IN IF deal.bad THEN Stop("corrupt")
        ELSE IF Full(got) THEN Stop("failed")
        ELSE /\ node' =
                  [pg \in (DOMAIN node \cup ToSet(pgs)) \ ToSet(gone) |->
                     IF pg = pp THEN IF up THEN new[0] ELSE parent
                     ELSE IF pg \in ToSet(pgs)
                          THEN new[(CHOOSE j \in DOMAIN pgs : pgs[j] = pg) - 1]
                          ELSE node[pg]]
             /\ file' = FreeAll(got.file, gone)
             /\ cur' = Front(cur)
             /\ UNCHANGED <<pc, call, saved>>

SlipRetry ==
  /\ pc = "failed" /\ pc' = IF cur = <<>> THEN "idle" ELSE "balance"
  /\ UNCHANGED <<node, file, cur, call, saved>>

\* After SQLITE_FULL the statement is rolled back.
Rollback ==
  /\ pc = "failed"
  /\ node' = saved.node /\ file' = saved.file
  /\ pc' = "idle" /\ cur' = <<>> /\ saved' = <<>>
  /\ call' = NewCall(BTCURSOR_MAX_DEPTH)

Balance == \/ BalanceDone \/ BalanceDeeper \/ BalanceQuick \/ BalanceNonroot

Statement ==
  \E k \in Keys : \/ \E v \in Payloads : Insert(k, v) \/ Overwrite(k, v)
                  \/ Delete(k)

Next == Statement \/ Balance \/ Rollback

\* A statement that has begun runs to its end: weak fairness of its steps,
\* with their enabledness written out (one is enabled while a call runs).
Running == pc \in {"balance", "failed"}
Fairness == []<>(~Running) \/ []<><<Balance \/ Rollback>>_vars

Spec == Init /\ [][Next]_vars /\ Fairness

-----------------------------------------------------------------------------
(* Properties. *)

TypeOK ==
  /\ DOMAIN node \subseteq 1..MaxPgno /\ Root \in DOMAIN node
  /\ \A pg \in DOMAIN node : node[pg] \in Node
  /\ file.nPage \in 1..MaxPgno
  /\ ToSet(FreePages(file)) \subseteq 1..MaxPgno
  /\ pc \in {"idle", "balance", "failed", "corrupt"}
  /\ cur \in Seq([pg : 1..MaxPgno, ix : Nat])
  /\ call \in Call

\* No sequence of legal statements makes a routine report SQLITE_CORRUPT:
\* no seek meets a page without cells or outside the tree, every gathering
\* of cells can be dealt out.
NeverCorrupt == pc # "corrupt"

\* Between statements no page overflows and none is fuller than it can be.
PagesInBounds ==
  /\ \A pg \in DOMAIN node : nFree(pg, node[pg]) >= 0
  /\ pc = "idle" => \A pg \in DOMAIN node : node[pg].ovfl = <<>>

\* The pages on each level of the tree.
Level ==
  LET level[d \in 1..BTCURSOR_MAX_DEPTH] ==
        IF d = 1 THEN {Root}
        ELSE UNION {ToSet(Children(node[pg])) : pg \in level[d - 1] \cap DOMAIN node}
  IN level

\* Between statements all leaves are equally deep, keys ascend on every page,
\* and from the root each entry is found exactly where it is.
Searchable ==
  pc = "idle" =>
    /\ \A d \in DOMAIN Level : \A p, q \in Level[d] \cap DOMAIN node :
         node[p].leaf = node[q].leaf
    /\ \A pg \in DOMAIN node :
         LET n == node[pg]
         IN /\ \A x \in 2..Len(n.cells) : n.cells[x - 1].key < n.cells[x].key
            /\ n.leaf \/ ~IntKey =>
                 \A x \in DOMAIN n.cells :
                   Last(Seek(n.cells[x].key)) = [pg |-> pg, ix |-> x - 1]

\* Every mention of a page and where it stands: as the root, as a child of
\* page q, in an overflow chain of a cell of page q, on the freelist.
Mentions ==
  LET use(pg, place) == [pg |-> pg, at |-> place]
      tree == UNION {LET kids == Children(node[q])
                     IN {use(kids[x], <<q, x>>) : x \in DOMAIN kids} : q \in DOMAIN node}
      chains == UNION {LET cells == AllCells(node[q])
                       IN UNION {{use(cells[x].chain[y], <<q, x, y>>) :
                                    y \in DOMAIN cells[x].chain} : x \in DOMAIN cells} :
                         q \in DOMAIN node}
      free == FreePages(file)
  IN {use(Root, <<>>)} \cup tree \cup chains
       \cup {use(free[x], <<x>>) : x \in DOMAIN free}

\* Every page of the file has exactly one use, also while the tree is being
\* balanced: none is lost, none is used twice.  (The pages before the root
\* belong to others.)
PagesAccounted ==
  pc \in {"idle", "balance"} =>
    LET used == {m.pg : m \in Mentions}
    IN /\ Cardinality(Mentions) = Cardinality(used)
       /\ used = Root..file.nPage
       /\ DOMAIN node \subseteq used

\* The assertions on overflow cells: at most 3 on a page, adjacent and in
\* order (insertCell()); the parent of a page being balanced has at most
\* one, the divider of that page (balance_nonroot()).
OverflowAsserts ==
  /\ \A pg \in DOMAIN node :
       LET ovfl == node[pg].ovfl
       IN /\ Len(ovfl) <= 3
          /\ \A x \in 2..Len(ovfl) : ovfl[x].ix = ovfl[x - 1].ix + 1
  /\ NeedsNonroot =>
       LET ovfl == node[ParentAt.pg].ovfl
       IN Len(ovfl) <= 1 /\ (ovfl # <<>> => ovfl[1].ix = ParentAt.ix)

\* What CellPacking assumes of the cells it deals out.
LeafPacking == INSTANCE CellPacking WITH
  UsableSpace <- Space(0, TRUE), LeafData <- IntKey, Loads <- {},
  load <- 0, cnt <- 0, sz <- 0, k <- 0, i <- 0, pc <- 0, done <- 0
InnerPacking == INSTANCE CellPacking WITH
  UsableSpace <- Space(0, FALSE), LeafData <- FALSE, Loads <- {},
  load <- 0, cnt <- 0, sz <- 0, k <- 0, i <- 0, pc <- 0, done <- 0

\* Whatever the statements before, the cells that a balance gathers are a
\* load of CellPacking: its theorems (no false corruption, every page within
\* its space) hold for the balances of a tree.
GatheringsValid ==
  NeedsNonroot =>
    LET parent == node[ParentAt.pg]
        sib    == Siblings(parent, ParentAt.ix)
        leaf   == node[sib.pgs[1]].leaf
        cells  == Gathered(parent, sib)
        n      == Len(cells)
        P      == Listed(Totals(leaf, cells), n)
        div    == IF IntKey /\ leaf THEN 0 ELSE 1
        old[j \in 0..NB + 1] ==
          IF j + 1 >= Len(sib.pgs) THEN n
          ELSE Len(AllCells(node[sib.pgs[j + 1]]))
                 + (IF j = 0 THEN 0 ELSE old[j - 1] + div)
        load == [n |-> n, P |-> P, nOld |-> Len(sib.pgs), bulk |-> Bulk,
                 old |-> Listed(old, NB + 1),
                 fit |-> GreedyCuts(P, n, Space(0, leaf), div, NB + 2)]
    IN IF leaf THEN LeafPacking!ValidLoad(load) ELSE InnerPacking!ValidLoad(load)

\* Within one call of balance(), balance_quick() and balance_deeper() are
\* called at most once: balance_quick()'s divider lies in a buffer that a
\* second call would overwrite.
OnceEach == call.quick <= 1 /\ call.deeper <= 1

\* The bytes that a page counts as used are the bytes its cells have: cells
\* are passed to insertCell() with their size (assert there).
ExactSizes == \A pg \in DOMAIN node : node[pg].lost = 0

\* Entries of a tree, from its leaves if it is a table.
Entries(nodes) ==
  UNION {{[key |-> c.key, val |-> c.val] : c \in ToSet(AllCells(nodes[pg]))} :
           pg \in {p \in DOMAIN nodes : nodes[p].leaf \/ ~IntKey}}

\* The tree implements the store of entries: a statement takes effect as a
\* whole when it ends, or not at all.
Store == INSTANCE KeyStore WITH
           store <- Entries(IF pc = "idle" THEN node ELSE saved.node)
Refinement == Store!Spec

\* Every statement comes to its end.
StatementsEnd == []<>(pc = "idle")
=============================================================================
