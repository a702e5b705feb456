------------------------------ MODULE Freelist ------------------------------
(***************************************************************************)
(* The free pages of the database file and its length, as allocation and   *)
(* release see them (allocateBtreePage() and freePage2() of btree.c, in a  *)
(* database without auto-vacuum, so eMode is BTALLOC_ANY).                 *)
(*                                                                         *)
(* A file is a record: "trunks", the freelist from its first trunk page,   *)
(* each trunk with the array of its leaves, and "nPage", the number of     *)
(* pages of the file.                                                      *)
(***************************************************************************)
EXTENDS Integers, SequencesExt

CONSTANTS
  MaxPgno,   \* pages the file may grow to (max_page_count)
  TrunkCap   \* leaves freePage2() puts on a trunk (usableSize/4 - 8)

LOCAL Distance(a, b) == IF a < b THEN b - a ELSE a - b

\* The leaf that is taken: the first of the nearest ones, or simply the
\* first when no place is asked for.
Closest(leaves, nearby) ==
  IF nearby = 0 THEN 1
  ELSE CHOOSE x \in 1..Len(leaves) :
         \A y \in 1..Len(leaves) :
           \/ Distance(leaves[x], nearby) < Distance(leaves[y], nearby)
           \/ Distance(leaves[x], nearby) = Distance(leaves[y], nearby) /\ x <= y

\* The last leaf of the array fills the gap.
TakeLeaf(leaves, x) ==
  IF x = Len(leaves) THEN Front(leaves)
  ELSE [Front(leaves) EXCEPT ![x] = Last(leaves)]

\* (Slip... : plausible slips of the definition that follows, see the README;
\* nothing uses them.)

SlipAlloc(f, nearby) ==
  IF f.trunks # <<>>
  THEN LET trunk == Head(f.trunks)
       IN IF trunk.leaves = <<>>
          THEN [pgno |-> trunk.pgno, file |-> f]
          ELSE LET x == Closest(trunk.leaves, nearby)
               IN [pgno |-> trunk.leaves[x],
                   file |-> [f EXCEPT !.trunks[1].leaves = TakeLeaf(@, x)]]
  ELSE IF f.nPage < MaxPgno
       THEN [pgno |-> f.nPage + 1, file |-> [f EXCEPT !.nPage = @ + 1]]
       ELSE [pgno |-> 0, file |-> f]

SlipGrow(f, nearby) ==
  IF f.trunks # <<>>
  THEN LET trunk == Head(f.trunks)
       IN IF trunk.leaves = <<>>
          THEN [pgno |-> trunk.pgno, file |-> [f EXCEPT !.trunks = Tail(@)]]
          ELSE LET x == Closest(trunk.leaves, nearby)
               IN [pgno |-> trunk.leaves[x],
                   file |-> [f EXCEPT !.trunks[1].leaves = TakeLeaf(@, x)]]
  ELSE IF f.nPage <= MaxPgno
       THEN [pgno |-> f.nPage + 1, file |-> [f EXCEPT !.nPage = @ + 1]]
       ELSE [pgno |-> 0, file |-> f]

\* One page for the caller: page number 0 stands for SQLITE_FULL.
Alloc(f, nearby) ==
  IF f.trunks # <<>>
  THEN LET trunk == Head(f.trunks)
       IN IF trunk.leaves = <<>>
          THEN [pgno |-> trunk.pgno, file |-> [f EXCEPT !.trunks = Tail(@)]]
          ELSE LET x == Closest(trunk.leaves, nearby)
               IN [pgno |-> trunk.leaves[x],
                   file |-> [f EXCEPT !.trunks[1].leaves = TakeLeaf(@, x)]]
  ELSE IF f.nPage < MaxPgno
       THEN [pgno |-> f.nPage + 1, file |-> [f EXCEPT !.nPage = @ + 1]]
       ELSE [pgno |-> 0, file |-> f]

\* n pages one after the other; the second and later ones near the one
\* before, unless the caller insists on its first wish.
AllocMany(f, n, nearby, insist) ==
  LET got[j \in 0..n] ==
        IF j = 0 THEN [pgnos |-> <<>>, file |-> f]
        ELSE LET prev == got[j - 1]
                 near == IF j = 1 \/ insist THEN nearby ELSE Last(prev.pgnos)
                 new  == Alloc(prev.file, near)
             IN [pgnos |-> Append(prev.pgnos, new.pgno), file |-> new.file]
  IN got[n]

\* Some page of an AllocMany could not be had.
Full(got) == 0 \in ToSet(got.pgnos)

\* A page comes back: a leaf of the first trunk, or a new first trunk.
Free(f, pgno) ==
  IF f.trunks # <<>> /\ Len(Head(f.trunks).leaves) < TrunkCap
  THEN [f EXCEPT !.trunks[1].leaves = Append(@, pgno)]
  ELSE [f EXCEPT !.trunks = <<[pgno |-> pgno, leaves |-> <<>>]>> \o @]

FreeAll(f, pgnos) == FoldLeft(Free, f, pgnos)

\* Every page of the freelist, one entry per mention.
FreePages(f) ==
  FlattenSeq([t \in DOMAIN f.trunks |->
                <<f.trunks[t].pgno>> \o f.trunks[t].leaves])
=============================================================================
