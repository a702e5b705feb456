---------------------------- MODULE CellPacking ----------------------------
(***************************************************************************)
(* How balance_nonroot() (btree.c) deals the cells of up to NB sibling     *)
(* pages out again over up to NB+2 pages, and in which order it then       *)
(* rewrites those pages.  The three loops of the routine are followed one  *)
(* iteration per step:                                                     *)
(*                                                                         *)
(*   "pack"   the first pass: fill the pages from the left, greedily;      *)
(*   "level"  the rebalancing pass: move cells to the right again;         *)
(*   "edit"   the two-pass rewriting of the pages, down and then up.       *)
(*                                                                         *)
(* The cells lie in one array (CellArray, with the parent's dividers       *)
(* between the siblings unless the siblings are table leaves).  All the    *)
(* loops need of a cell is the space it takes, so the array is held as its *)
(* running total: P[j] bytes for the cells 0..j-1, cell slots included.    *)
(***************************************************************************)
EXTENDS CellCuts

CONSTANTS
  NB,            \* siblings that take part in a balance (3 in the code)
  UsableSpace,   \* bytes for cells and their slots on a sibling page
  LeafData,      \* TRUE for the leaves of a table b-tree (leafData)
  Loads          \* the gatherings of cells a balance may start from

\* 1 if the cell between two pages leaves the siblings for the parent.
Divider == IF LeafData THEN 0 ELSE 1

Least(a, b) == IF a <= b THEN a ELSE b

\* The first cell of the page to the right of a cut, in an array of n cells.
After(cut, n) == Least(cut + Divider, n)

(***************************************************************************)
(* A load is what the siblings hold when they have been gathered: n cells, *)
(* their running total P, the number nOld of siblings, the old cuts        *)
(* (cntOld), whether the hint for bulk loading is given (bBulk), and       *)
(* "fit", a way to deal the same cells over NB+2 pages.  Only the          *)
(* existence of "fit" matters: it says the siblings were within their      *)
(* pages before the cells that made one of them overflow came in.          *)
(***************************************************************************)
ValidLoad(l) ==
  /\ l.n \in Nat
  /\ l.P \in [0..l.n -> Nat]
  /\ l.P[0] = 0
  \* a cell has at least 4 bytes and a slot of 2
  /\ \A a, b \in 0..l.n : a < b => l.P[a] + 6 <= l.P[b]
  \* a cell fits a page; a cell of an index or of an interior page, whose
  \* local payload is at most maxLocal, takes at most 64/255 of one
  /\ \A j \in 1..l.n :
       IF LeafData THEN l.P[j] - l.P[j - 1] <= UsableSpace
                   ELSE 255 * (l.P[j] - l.P[j - 1]) <= 64 * UsableSpace
  /\ l.nOld \in 1..NB
  /\ l.bulk \in BOOLEAN
  /\ l.old \in [0..NB + 1 -> 0..l.n]
  /\ \A j \in l.nOld - 1..NB + 1 : l.old[j] = l.n
  /\ \A a, b \in 0..l.nOld - 1 : a < b => l.old[a] + Divider <= l.old[b]
  /\ l.fit \in [0..NB + 1 -> 0..l.n]
  /\ l.fit[NB + 1] = l.n
  /\ \A j \in 0..NB + 1 :
       l.P[l.fit[j]] <=
         UsableSpace + (IF j = 0 THEN 0 ELSE l.P[After(l.fit[j - 1], l.n)])

ASSUME PackingAssumption ==
  /\ NB \in Nat \ {0}
  /\ UsableSpace \in Nat \ {0}
  /\ LeafData \in BOOLEAN
  /\ \A l \in Loads : ValidLoad(l)

VARIABLES
  load,   \* the cells being balanced
  cnt,    \* cntNew[]: the first cell to the right of each page
  sz,     \* szNew[]: the space used on each page
  k,      \* number of pages after the balance
  i,      \* loop counter
  pc,     \* which loop; "corrupt" once SQLITE_CORRUPT is returned
  done    \* abDone[]: the pages already rewritten

vars == <<load, cnt, sz, k, i, pc, done>>

Pages == 0..NB + 1

\* The first cell of page j under the cuts c.
First(c, j) == IF j = 0 THEN 0 ELSE After(c[j - 1], load.n)

\* (Definitions named Slip... are plausible slips of the definition that
\* follows them; nothing uses them but the experiments that show that the
\* properties notice such a slip.)

SlipSizeNoSlot(j) == load.P[j + 1] - load.P[j] - 2

\* The space of cell j and its slot.
Size(j) == load.P[j + 1] - load.P[j]

Init ==
  /\ load \in Loads
  /\ cnt = load.old
  /\ sz = [j \in Pages |-> IF j < load.nOld
                             THEN load.P[load.old[j]] - load.P[First(load.old, j)]
                             ELSE 0]
  /\ k = load.nOld
  /\ i = 0
  /\ pc = "pack"
  /\ done = {}

-----------------------------------------------------------------------------
(* The first pass. *)

\* The divider that a change of cut number c brings to the next page.
\* At the end of the array there is none.
DividerSize(c) == IF c < load.n THEN Size(c) ELSE 0

\* Page i is too full: its last cell goes, to the next page or, where a
\* divider stands between two pages, to the parent; the old divider goes to
\* the next page.  A new page is begun when there is none to the right.
Shrink ==
  /\ pc = "pack" /\ sz[i] > UsableSpace
  /\ LET grown == i + 1 >= k
         sz0   == IF grown THEN [sz EXCEPT ![i + 1] = 0] ELSE sz
         cnt0  == IF grown THEN [cnt EXCEPT ![i + 1] = load.n] ELSE cnt
         last  == Size(cnt[i] - 1)
         moved == IF LeafData THEN last ELSE DividerSize(cnt[i])
     IN IF grown /\ i + 2 > NB + 2
        THEN pc' = "corrupt" /\ UNCHANGED <<cnt, sz, k>>
        ELSE /\ k' = IF grown THEN i + 2 ELSE k
             /\ sz' = [sz0 EXCEPT ![i] = @ - last, ![i + 1] = @ + moved]
             /\ cnt' = [cnt0 EXCEPT ![i] = @ - 1]
             /\ UNCHANGED pc
  /\ UNCHANGED <<load, i, done>>

CanGrow == cnt[i] < load.n /\ sz[i] + Size(cnt[i]) <= UsableSpace

\* Page i has room for the first cell to its right.
Grow ==
  /\ pc = "pack" /\ sz[i] <= UsableSpace /\ CanGrow
  /\ LET first == Size(cnt[i])
         taken == IF LeafData THEN first ELSE DividerSize(cnt[i] + 1)
     IN sz' = [sz EXCEPT ![i] = @ + first, ![i + 1] = @ - taken]
  /\ cnt' = [cnt EXCEPT ![i] = @ + 1]
  /\ UNCHANGED <<load, k, i, pc, done>>

\* Page i is as full as it can be: on to the next page, or to the second
\* pass when no cell is left.
Settle ==
  /\ pc = "pack" /\ sz[i] <= UsableSpace /\ ~CanGrow
  /\ \/ /\ cnt[i] >= load.n
        /\ k' = i + 1 /\ i' = i /\ pc' = "level"
     \/ /\ cnt[i] < load.n
        /\ cnt[i] > (IF i > 0 THEN cnt[i - 1] ELSE 0)
        /\ i' = i + 1 /\ UNCHANGED <<k, pc>>
     \/ /\ cnt[i] < load.n
        /\ cnt[i] <= (IF i > 0 THEN cnt[i - 1] ELSE 0)
        /\ pc' = "corrupt" /\ UNCHANGED <<k, i>>
  /\ UNCHANGED <<load, cnt, sz, done>>

-----------------------------------------------------------------------------
(* The rebalancing pass: pages i-1 and i, for i from k-1 down to 1. *)

SlipBreakLater == sz[i] # 0 /\ (load.bulk \/ sz[i] > sz[i - 1])

SlipBreakSlot ==
  LET szR == Size(cnt[i - 1] - 1) - 2
      szD == Size(cnt[i - 1] - (1 - Divider)) - 2
  IN /\ sz[i] # 0
     /\ \/ load.bulk
        \/ sz[i] + szD + 2 > sz[i - 1] - (szR + IF i = k - 1 THEN 2 ELSE 0)

\* The break of the loop: page i is not empty and taking one more cell
\* would make it the fuller one.
LevelBreak ==
  LET szR == Size(cnt[i - 1] - 1) - 2
      szD == Size(cnt[i - 1] - (1 - Divider)) - 2
  IN /\ sz[i] # 0
     /\ \/ load.bulk
        \/ sz[i] + szD + 2 > sz[i - 1] - (szR + IF i = k - 1 THEN 0 ELSE 2)

MoveRight ==
  /\ pc = "level" /\ i > 0
  /\ cnt[i - 1] > 0 /\ ~LevelBreak
  /\ sz' = [sz EXCEPT ![i] = @ + Size(cnt[i - 1] - (1 - Divider)),
                      ![i - 1] = @ - Size(cnt[i - 1] - 1)]
  /\ cnt' = [cnt EXCEPT ![i - 1] = @ - 1]
  /\ UNCHANGED <<load, k, i, pc, done>>

NextPair ==
  /\ pc = "level" /\ i > 0
  /\ cnt[i - 1] <= 0 \/ LevelBreak
  /\ IF cnt[i - 1] <= (IF i > 1 THEN cnt[i - 2] ELSE 0)
     THEN pc' = "corrupt" /\ i' = i
     ELSE pc' = pc /\ i' = i - 1
  /\ UNCHANGED <<load, cnt, sz, k, done>>

SlipLeveled ==
  /\ pc = "level" /\ i = 0
  /\ pc' = "edit" /\ i' = -k
  /\ UNCHANGED <<load, cnt, sz, k, done>>

Leveled ==
  /\ pc = "level" /\ i = 0
  /\ pc' = "edit" /\ i' = 1 - k
  /\ UNCHANGED <<load, cnt, sz, k, done>>

-----------------------------------------------------------------------------
(* The pages are rewritten: i runs from 1-k up to k-1, page |i|. *)

Page == IF i < 0 THEN -i ELSE i

\* No cell moves left, from the page to its left neighbour.
Cond1 == load.old[Page - 1] >= cnt[Page - 1]

SlipMayEdit == Page \notin done

MayEdit == Page \notin done /\ (i < 0 => Cond1)

EditPage ==
  /\ pc = "edit" /\ i < k /\ MayEdit
  /\ done' = done \cup {Page}
  /\ i' = i + 1
  /\ UNCHANGED <<load, cnt, sz, k, pc>>

SlipSkipPage ==
  /\ pc = "edit" /\ i < k /\ ~MayEdit
  /\ UNCHANGED vars

SkipPage ==
  /\ pc = "edit" /\ i < k /\ ~MayEdit
  /\ i' = i + 1
  /\ UNCHANGED <<load, cnt, sz, k, pc, done>>

SlipEdited ==
  /\ pc = "edit" /\ i = k - 1
  /\ pc' = "done"
  /\ UNCHANGED <<load, cnt, sz, k, i, done>>

Edited ==
  /\ pc = "edit" /\ i = k
  /\ pc' = "done"
  /\ UNCHANGED <<load, cnt, sz, k, i, done>>

Next == \/ Shrink \/ Grow \/ Settle
        \/ MoveRight \/ NextPair \/ Leveled
        \/ EditPage \/ SkipPage \/ Edited

\* One call of the routine runs to its end.
Spec == Init /\ [][Next]_vars /\ WF_vars(Next)

-----------------------------------------------------------------------------
(* Properties. *)

\* Every variable has its type; the counters stay in their ranges, so no
\* array of the routine is indexed out of bounds.
TypeOK ==
  /\ ValidLoad(load)
  /\ cnt \in [Pages -> 0..load.n]
  /\ sz \in [Pages -> Int]
  /\ k \in 1..NB + 2
  /\ i \in Int /\ -k < i /\ i <= k
  /\ pc \in {"pack", "level", "edit", "done", "corrupt"}
  /\ done \subseteq Pages

\* The space that page j uses under the current cuts.
Used(j) == load.P[cnt[j]] - load.P[First(cnt, j)]

\* szNew[] is kept up to date cell by cell by both passes and is what nFree
\* of the rewritten page is set from: it always is the space of the cells
\* between the cuts, dividers excluded.
SizesMatchCuts == pc # "corrupt" => \A j \in 0..k - 1 : sz[j] = Used(j)

\* No gathering of cells that came from well-formed siblings makes the
\* routine report SQLITE_CORRUPT: not for a sixth page, not for two equal
\* cuts after either pass.
NeverCorrupt == pc # "corrupt"

\* When the pages are written no cell is left over, every page holds what
\* is dealt to it, and no page is empty unless there is no cell at all (an
\* empty page is corruption to moveToChild()).
PagesFit ==
  pc \in {"edit", "done"} =>
    /\ cnt[k - 1] = load.n
    /\ \A j \in 0..k - 1 :
         /\ Used(j) <= UsableSpace
         /\ load.n > 0 => First(cnt, j) < cnt[j]

\* Cells that page p takes over from another old sibling q are read from q's
\* page image (a divider was copied aside): q must not have been rewritten.
TakesFrom(p) ==
  { q \in 0..load.nOld - 1 :
      /\ q # p
      /\ \E c \in 0..load.n - 1 :
           /\ First(load.old, q) <= c /\ c < load.old[q]
           /\ First(cnt, p) <= c /\ c < cnt[p] }

\* The order of rewriting never destroys a cell that is still to be read.
ReadBeforeOverwrite ==
  [][\A p \in done' \ done : TakesFrom(p) \cap done = {}]_vars

\* Every page is rewritten: the two passes leave none out.
AllEdited == pc = "done" => done = 0..k - 1

\* What the two loops have computed when the pages are to be written is what
\* the definitions of CellCuts say, which the B-tree model uses.
CutsMatchReference ==
  pc = "edit" =>
    LET g == GreedyCuts(load.P, load.n, UsableSpace, Divider, NB + 2)
        r == LeveledCuts(load.P, load.n, Divider, load.bulk, g, k)
    IN /\ g[k - 1] = load.n
       /\ \A j \in 0..k - 1 : cnt[j] = r[j]

\* A balance comes to an end.
Terminates == <>(pc = "done")
=============================================================================
