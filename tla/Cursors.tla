------------------------------ MODULE Cursors ------------------------------
(***************************************************************************)
(* The cursors open on one b-tree (BtCursor of btree.c): how they move,    *)
(* how a write through one of them saves the positions of the others, how  *)
(* a saved position is sought again, what a deletion leaves for the cursor *)
(* that made it, and the two short cuts of a seek.  A write is one of the  *)
(* statements of BTree on the path the cursor has.                         *)
(*                                                                         *)
(* The cursors are of one connection (or share its cache and its mutex): a *)
(* call is a step, but other cursors may be used between any two calls.    *)
(* Their caller keeps to the rules of btree.h: it steps and deletes from   *)
(* where a call has put the cursor, and places it anew after a write that  *)
(* did not ask for BTREE_SAVEPOSITION.                                     *)
(***************************************************************************)
EXTENDS BTree

CONSTANTS
  Scanners,  \* the cursors that go through the tree entry by entry
  Editors,   \* the cursors that seek
  Careful,   \* TRUE: no update in place by a cursor with an old skipNext
  NoKey

Cursors == Scanners \cup Editors

ASSUME CursorAssumption == NoKey \notin Keys /\ Root # 1 /\ Careful \in BOOLEAN

VARIABLES
  csr,   \* the cursors
  busy,  \* the write that is being balanced, Idle if there is none
  at,    \* the key that a cursor showed last, see ScanStore
  stay   \* the entries that have been there since then

cvars == <<vars, csr, busy, at, stay>>

\* path: apPage[] and aiIdx[], empty when the pages are released.  key: what
\* saveCursorKey() saved.  nKey: info.nKey while BTCF_ValidNKey is set.
BtCursor ==
  [open : BOOLEAN, eState : {"INVALID", "VALID", "SKIPNEXT", "REQUIRESEEK"},
   path : Seq([pg : 1..MaxPgno, ix : Nat]), skipNext : {-1, 0, 1},
   key : Keys \cup {NoKey}, nKey : Keys \cup {NoKey},
   atLast : BOOLEAN, multiple : BOOLEAN]

Closed ==
  [open |-> FALSE, eState |-> "INVALID", path |-> <<>>, skipNext |-> 0,
   key |-> NoKey, nKey |-> NoKey, atLast |-> FALSE, multiple |-> FALSE]

\* The write of a cursor: what it does and whether its place is to be kept.
Write == [by : Cursors, saves : BOOLEAN, deletes : BOOLEAN]
Idle == [by |-> NoKey]

CInit ==
  /\ Init
  /\ csr = [c \in Cursors |-> Closed] /\ busy = Idle
  /\ at = [c \in Cursors |-> NoKey] /\ stay = [c \in Cursors |-> {}]

-----------------------------------------------------------------------------
(* Ways through the tree. *)

NumCells(pg) == Len(node[pg].cells)
IsLeaf(path) == node[Last(path).pg].leaf
KeyAt(path) == node[Last(path).pg].cells[Last(path).ix + 1].key
Shift(path, by) == [path EXCEPT ![Len(path)].ix = @ + by]
Empty == node[Root].cells = <<>>

\* moveToLeftmost()
Leftmost(path) ==
  LET deeper[d \in Len(path)..BTCURSOR_MAX_DEPTH] ==
        IF d = Len(path) THEN path
        ELSE LET above == deeper[d - 1]
             IN IF IsLeaf(above) THEN above
                ELSE Append(above, [pg |-> ChildAt(Last(above)), ix |-> 0])
  IN deeper[BTCURSOR_MAX_DEPTH]

FirstPath == Leftmost(<<[pg |-> Root, ix |-> 0]>>)

\* moveToRightmost()
LastPath ==
  IF node[Root].leaf THEN <<[pg |-> Root, ix |-> NumCells(Root) - 1]>>
  ELSE ToPredecessor(<<[pg |-> Root, ix |-> NumCells(Root)]>>)

\* Up to the lowest of the levels on which a step leads on.
Climb(path, levels) ==
  IF levels = {} THEN <<>>
  ELSE SubSeq(path, 1, CHOOSE d \in levels : \A e \in levels : e <= d)

\* btreeNext(): the way to the next entry, empty after the last one.
Following(path) ==
  LET up == Climb(path, {d \in 1..Len(path) - 1 : path[d].ix < NumCells(path[d].pg)})
  IN IF ~IsLeaf(path) THEN Leftmost(Shift(path, 1))
     ELSE IF Last(path).ix + 1 < NumCells(Last(path).pg) THEN Shift(path, 1)
     ELSE IF up = <<>> \/ ~IntKey THEN up
     ELSE Leftmost(Shift(up, 1))

\* btreePrevious(): the way to the previous entry, empty before the first.
Preceding(path) ==
  LET up == Climb(path, {d \in 1..Len(path) - 1 : path[d].ix > 0})
  IN IF ~IsLeaf(path) THEN ToPredecessor(path)
     ELSE IF Last(path).ix > 0 THEN Shift(path, -1)
     ELSE IF up = <<>> THEN up
     ELSE IF IntKey THEN ToPredecessor(Shift(up, -1))
     ELSE Shift(up, -1)

-----------------------------------------------------------------------------
(* What the routines make of a cursor p. *)

\* A cursor placed by a way from the root; moveToRoot() clears the flags.
On(p, path) ==
  [p EXCEPT !.eState = IF path = <<>> THEN "INVALID" ELSE "VALID",
            !.path = path, !.key = NoKey, !.nKey = NoKey, !.atLast = FALSE]

\* moveToRoot()
AtRoot(p, empty) == On(p, IF empty THEN <<>> ELSE <<[pg |-> Root, ix |-> 0]>>)

SlipSaved(p) ==
  IF p.eState = "VALID"
  THEN [p EXCEPT !.eState = "REQUIRESEEK", !.skipNext = 0, !.key = KeyAt(p.path),
                 !.path = <<>>, !.nKey = NoKey, !.atLast = FALSE]
  ELSE p

\* saveCursorPosition()
Saved(p) ==
  IF p.eState \in {"VALID", "SKIPNEXT"}
  THEN [p EXCEPT !.eState = "REQUIRESEEK", !.key = KeyAt(p.path), !.path = <<>>,
                 !.skipNext = IF p.eState = "VALID" THEN 0 ELSE @,
                 !.nKey = NoKey, !.atLast = FALSE]
  ELSE p

Others(c) == {d \in Cursors \ {c} : csr[d].open}

\* saveAllCursors(), called by a cursor that is about to write.
SaveAll(c) ==
  IF ~csr[c].multiple THEN csr
  ELSE IF Others(c) = {} THEN [csr EXCEPT ![c].multiple = FALSE]
  ELSE [d \in Cursors |-> IF d \in Others(c) THEN Saved(csr[d]) ELSE csr[d]]

\* Where a seek for k ends whose way down is path (its last index is the
\* number of smaller keys): on the entry (res 0) or on a neighbour of its
\* place, below (-1) or above it (1); which one the binary search compares
\* last is left open.
Landings(p, path, k) ==
  LET it    == Last(path)
      sides == {r \in {-1, 1} : IF r = 1 THEN it.ix < NumCells(it.pg) ELSE it.ix > 0}
  IN IF Empty THEN {[p |-> On(p, <<>>), res |-> -1]}
     ELSE IF HasKey(it, k)
     THEN {[p |-> [On(p, path) EXCEPT !.nKey = IF IntKey THEN k ELSE NoKey],
            res |-> 0]}
     ELSE {[p |-> On(p, IF r = 1 THEN path ELSE Shift(path, -1)), res |-> r] : r \in sides}

SlipTableShortcut(p, k) ==
  IF p.eState # "VALID" THEN {}
  ELSE IF p.nKey = k THEN {[p |-> p, res |-> 0]}
  ELSE IF p.atLast THEN {[p |-> p, res |-> -1]}
  ELSE {}

\* sqlite3BtreeTableMoveto() of a cursor that knows its key: it is there,
\* or past the last entry, or one step away.
TableShortcut(p, k) ==
  LET next == Following(p.path)
  IN IF p.eState # "VALID" \/ p.nKey = NoKey THEN {}
     ELSE IF p.nKey = k THEN {[p |-> p, res |-> 0]}
     ELSE IF p.nKey < k /\ p.atLast THEN {[p |-> p, res |-> -1]}
     ELSE IF p.nKey + 1 = k /\ next # <<>> /\ KeyAt(next) = k
     THEN {[p |-> [p EXCEPT !.path = next, !.nKey = k], res |-> 0]}
     ELSE {}

\* cursorOnLastPage()
OnLastPage(path) ==
  \A d \in 1..Len(path) - 1 : path[d].ix = NumCells(path[d].pg)

\* sqlite3BtreeIndexMoveto() of a cursor on the last leaf: it is on the last
\* entry and that is not larger, or the search begins on this page.
IndexShortcut(p, k) ==
  IF p.eState # "VALID" \/ ~IsLeaf(p.path) \/ ~OnLastPage(p.path) THEN {}
  ELSE LET pg == Last(p.path).pg
       IN IF Last(p.path).ix + 1 = NumCells(pg) /\ KeyAt(p.path) <= k
          THEN {[p |-> p, res |-> IF KeyAt(p.path) = k THEN 0 ELSE -1]}
          ELSE IF Len(p.path) > 1 /\ node[pg].cells[1].key <= k
          THEN Landings(p, Append(Front(p.path), Place(pg, k)), k)
          ELSE {}

\* The seek as a whole.
Moveto(p, k) ==
  LET short == IF IntKey THEN TableShortcut(p, k) ELSE IndexShortcut(p, k)
  IN IF short # {} THEN short ELSE Landings(p, Seek(k), k)

SlipRestored(p) ==
  {[l.p EXCEPT !.skipNext = IF l.res # 0 THEN l.res ELSE @] : l \in Landings(p, Seek(p.key), p.key)}

\* btreeRestoreCursorPosition() of a saved position.
Restored(p) ==
  {LET q == [l.p EXCEPT !.skipNext = IF l.res # 0 THEN l.res ELSE @]
   IN IF q.eState = "VALID" /\ q.skipNext # 0 THEN [q EXCEPT !.eState = "SKIPNEXT"]
      ELSE q : l \in Landings(p, Seek(p.key), p.key)}

Restoring(p) == IF p.eState = "REQUIRESEEK" THEN Restored(p) ELSE {p}

-----------------------------------------------------------------------------
(* Calls that move a cursor. *)

\* The keys of the entries; a write that is not finished has not happened.
KeysNow == {e.key : e \in Entries(IF pc = "idle" THEN node ELSE saved.node)}

Ready(c) == pc = "idle" /\ csr[c].open

\* The cursor is left as p, and shows the entry it is on (none if shows is
\* FALSE).
Stands(c, p, shows) ==
  LET k == IF shows /\ p.path # <<>> THEN KeyAt(p.path) ELSE NoKey
  IN /\ csr' = [csr EXCEPT ![c] = p]
     /\ at' = [at EXCEPT ![c] = k]
     /\ stay' = [stay EXCEPT ![c] = IF k = NoKey THEN {} ELSE KeysNow]
     /\ UNCHANGED <<vars, busy>>

\* btreeCursor(): if there are two or more, all of them know.
Open(c) ==
  /\ pc = "idle" /\ ~csr[c].open
  /\ csr' = [d \in Cursors |->
       IF d = c THEN [Closed EXCEPT !.open = TRUE, !.multiple = Others(c) # {}]
       ELSE [csr[d] EXCEPT !.multiple = csr[d].open]]
  /\ UNCHANGED <<vars, busy, at, stay>>

\* sqlite3BtreeCloseCursor()
Close(c) == Ready(c) /\ Stands(c, Closed, FALSE)

\* sqlite3BtreeFirst()
BtreeFirst(c) ==
  /\ Ready(c)
  /\ Stands(c, On(csr[c], IF Empty THEN <<>> ELSE FirstPath), TRUE)

\* sqlite3BtreeLast()
BtreeLast(c) ==
  /\ Ready(c)
  /\ IF csr[c].eState = "VALID" /\ csr[c].atLast THEN Stands(c, csr[c], TRUE)
     ELSE IF Empty THEN Stands(c, On(csr[c], <<>>), TRUE)
     ELSE Stands(c, [On(csr[c], LastPath) EXCEPT !.atLast = TRUE], TRUE)

\* sqlite3BtreeTableMoveto(), sqlite3BtreeIndexMoveto()
SeekTo(c, k) ==
  /\ Ready(c)
  /\ \E l \in Moveto(csr[c], k) : Stands(c, l.p, TRUE)

\* getCellInfo(): the caller of a cursor on a table asks for the key.
GetKey(c) ==
  /\ Ready(c) /\ IntKey /\ csr[c].eState = "VALID" /\ at[c] # NoKey
  /\ csr' = [csr EXCEPT ![c].nKey = KeyAt(csr[c].path)]
  /\ UNCHANGED <<vars, busy, at, stay>>

\* sqlite3BtreeCursorRestore(): the caller looks whether its row is there.
Look(c) ==
  /\ Ready(c) /\ csr[c].eState = "REQUIRESEEK" /\ at[c] # NoKey
  /\ \E p \in Restored(csr[c]) : csr' = [csr EXCEPT ![c] = p]
  /\ UNCHANGED <<vars, busy, at, stay>>

\* A cursor that has stepped along way; going to another page clears what it
\* knew of its key, which a restore has set.
Stepped(p, way) ==
  [p EXCEPT !.path = way,
            !.eState = IF way = <<>> THEN "INVALID" ELSE "VALID",
            !.nKey = IF way # <<>> /\ Last(way).pg = Last(p.path).pg THEN @ ELSE NoKey]

\* A step with what is left to do of it: after a position was restored, or
\* its entry deleted, the cursor may already be where the step leads (toward
\* is 1 for the next, -1 for the previous entry, and the skipNext that says so).
Step(c, p0, toward) ==
  \E p \in Restoring(p0) :
    IF p.eState = "INVALID" THEN Stands(c, p, TRUE)
    ELSE IF p.eState = "SKIPNEXT" /\ p.skipNext = toward
    THEN Stands(c, [p EXCEPT !.eState = "VALID"], TRUE)
    ELSE Stands(c, Stepped(p, IF toward = 1 THEN Following(p.path) ELSE Preceding(p.path)), TRUE)

\* sqlite3BtreeNext()
BtreeNext(c) ==
  /\ Ready(c) /\ at[c] # NoKey
  /\ Step(c, [csr[c] EXCEPT !.nKey = NoKey], 1)

\* sqlite3BtreePrevious()
BtreePrevious(c) ==
  /\ Ready(c) /\ at[c] # NoKey
  /\ Step(c, [csr[c] EXCEPT !.nKey = NoKey, !.atLast = FALSE], -1)

-----------------------------------------------------------------------------
(* Calls that write. *)

\* A write is over: its cursor shows the same key as before if it was to
\* save its place, and none otherwise.
Finished(c, saves) ==
  /\ at' = [at EXCEPT ![c] = IF saves THEN @ ELSE NoKey]
  /\ stay' = [d \in Cursors |-> IF at'[d] = NoKey THEN {} ELSE stay[d] \cap KeysNow']

\* The write w leaves its cursor as p, unless balance() has work to do.
Writes(w, p) ==
  /\ csr' = [SaveAll(w.by) EXCEPT ![w.by] = [p EXCEPT !.multiple = SaveAll(w.by)[w.by].multiple]]
  /\ IF pc' = "idle" THEN busy' = Idle /\ Finished(w.by, w.saves)
     ELSE busy' = w /\ UNCHANGED <<at, stay>>

\* sqlite3BtreeInsert().  With BTREE_SAVEPOSITION the cursor is already on
\* the entry.  After a balance it points nowhere, or its key is saved; then
\* skipNext keeps what an earlier restore or deletion has left there.
BtreeInsert(c, k, v, saves) ==
  LET p0 == IF csr[c].eState = "REQUIRESEEK" THEN AtRoot(csr[c], Empty) ELSE csr[c]
  IN /\ Ready(c)
     /\ saves => at[c] = k /\ csr[c].eState = "VALID" /\ (IntKey => p0.nKey = k)
     /\ saves /\ Careful => p0.skipNext = 0
     /\ \E l \in IF saves THEN {[p |-> p0, res |-> 0]} ELSE Moveto(p0, k) :
          LET path == IF l.p.path = <<>> THEN <<[pg |-> Root, ix |-> 0]>>
                      ELSE IF l.res < 0 THEN Shift(l.p.path, 1)
                      ELSE l.p.path
          IN /\ PutAt(path, l.res = 0, k, v) \/ (l.res = 0 /\ OverwriteAt(path, k, v))
             /\ Writes([by |-> c, saves |-> saves, deletes |-> FALSE],
                       IF pc' = "idle"
                       THEN [l.p EXCEPT !.path = IF @ = <<>> THEN @ ELSE path,
                                        !.nKey = IF l.res < 0 THEN NoKey ELSE @]
                       ELSE [l.p EXCEPT !.eState = IF saves THEN "REQUIRESEEK" ELSE "INVALID",
                                        !.key = IF saves THEN k ELSE @,
                                        !.path = <<>>, !.nKey = NoKey])

SlipWillBalance(n, pg, c) ==
  nFree(pg, n) + CellSize(n.leaf, c) + Slot > UsableSize

\* Whether a deletion is expected to lead to a balance.
WillBalance(n, pg, c) ==
  \/ ~n.leaf \/ Len(n.cells) = 1
  \/ nFree(pg, n) + CellSize(n.leaf, c) + Slot > (2 * UsableSize) \div 3

\* What sqlite3BtreeDelete() does with its cursor at last.
AfterDelete(p, empty) ==
  IF p.eState = "SKIPNEXT" THEN p
  ELSE IF p.key = NoKey THEN AtRoot(p, empty)
  ELSE [AtRoot(p, empty) EXCEPT !.eState = "REQUIRESEEK", !.path = <<>>, !.key = p.key]

\* sqlite3BtreeDelete() of the entry the cursor is on.  To save its place it
\* stays beside the gap, or keeps the key if a balance is expected.
BtreeDelete(c, saves) ==
  /\ Ready(c) /\ at[c] # NoKey
  /\ \E p \in Restoring(csr[c]) :
       LET it   == Last(p.path)
           n    == node[it.pg]
           old  == n.cells[it.ix + 1]
           last == it.ix = Len(n.cells) - 1
           q    == IF ~saves THEN p
                   ELSE IF WillBalance(n, it.pg, old) THEN [p EXCEPT !.key = old.key]
                   ELSE [p EXCEPT !.eState = "SKIPNEXT",
                                  !.skipNext = IF last THEN -1 ELSE 1,
                                  !.path = IF last THEN Shift(@, -1) ELSE @]
       IN /\ p.eState = "VALID"
          /\ DeleteFromLeaf(p.path) \/ DeleteFromInterior(p.path)
          /\ Writes([by |-> c, saves |-> saves, deletes |-> TRUE],
                    IF pc' = "idle" THEN AfterDelete(q, Empty') ELSE q)

\* A step of balance(); the last one ends the write.
Rebalance ==
  /\ Balance
  /\ IF pc' = "idle"
     THEN /\ csr' = IF busy.deletes
                    THEN [csr EXCEPT ![busy.by] = AfterDelete(@, Empty')] ELSE csr
          /\ busy' = Idle /\ Finished(busy.by, busy.saves)
     ELSE UNCHANGED <<csr, busy, at, stay>>

\* A cursor that scans may change and delete what it meets.
Scan(c) ==
  \/ BtreeFirst(c) \/ BtreeNext(c) \/ BtreePrevious(c) \/ Look(c)
  \/ BtreeDelete(c, TRUE)
  \/ \E k \in Keys, v \in Payloads : BtreeInsert(c, k, v, TRUE)

Edit(c) ==
  \/ BtreeLast(c) \/ BtreeDelete(c, FALSE)
  \/ \E k \in Keys : SeekTo(c, k) \/ \E v \in Payloads : BtreeInsert(c, k, v, FALSE)

Calls ==
  \/ \E c \in Cursors : Open(c) \/ Close(c) \/ GetKey(c)
  \/ \E c \in Scanners : Scan(c)
  \/ \E c \in Editors : Edit(c)

CNext == Calls \/ Rebalance

CSpec == CInit /\ [][CNext]_cvars

-----------------------------------------------------------------------------
(* Properties. *)

CursorTypeOK ==
  /\ csr \in [Cursors -> BtCursor]
  /\ busy = Idle \/ busy \in Write
  /\ at \in [Cursors -> Keys \cup {NoKey}]
  /\ stay \in [Cursors -> SUBSET Keys]

\* A way from the root to an entry of the tree as it is now.
OnTree(path) ==
  /\ path # <<>> /\ path[1].pg = Root
  /\ \A d \in 1..Len(path) - 1 : path[d + 1].pg = ChildAt(path[d])
  /\ Last(path).pg \in DOMAIN node /\ Last(path).ix \in 0..NumCells(Last(path).pg) - 1

\* No write moves a cell under a cursor: one that need not be restored has a
\* way to an entry of the tree as it is, and a cursor that says it is valid
\* is on the entry it showed; one whose position is saved, or that was put
\* beside it, has lost that entry only if it was deleted.
PositionHolds ==
  pc = "idle" =>
    \A c \in Cursors :
      LET p == csr[c]
      IN /\ p.eState \in {"VALID", "SKIPNEXT"} => OnTree(p.path)
         /\ at[c] # NoKey =>
              \/ p.eState = "VALID" /\ KeyAt(p.path) = at[c]
              \/ p.eState = "REQUIRESEEK" /\ p.key = at[c]
              \/ p.eState # "VALID" /\ at[c] \notin stay[c]

\* A seek that is skipped because the cursor knows its key, or that it is
\* the last one, ends where the seek from the root would have ended.
SeeksAgree ==
  pc = "idle" =>
    \A c \in Editors, k \in Keys :
      \A l \in Moveto(csr[c], k) :
        \E m \in Landings(csr[c], Seek(k), k) : m.res = l.res /\ m.p.path = l.p.path

\* The cursors keep the promise of ScanStore.
Scans == INSTANCE ScanStore WITH keys <- KeysNow
ScanRefinement == Scans!Spec
=============================================================================
