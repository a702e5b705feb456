--------------------------- MODULE MCCellPacking ---------------------------
(***************************************************************************)
(* CellPacking on small pages.  The loads are built the way they arise:    *)
(* one to NB siblings that fit their pages, one of them "hot": new cells   *)
(* came in there (one for a leaf, up to three dividers for an interior     *)
(* page), or cells were deleted from it, possibly all.                     *)
(***************************************************************************)
EXTENDS CellPacking, SequencesExt, TLC

CONSTANTS
  PageShapes,  \* space of the cells of a sibling, per page, from left to right
  HotShapes,   \* the same for the part of the hot sibling on either side of
               \* the place where cells came in
  Inserts,     \* the cells that came in
  Dividers     \* the space of a divider cell

Total(s) == FoldLeft(LAMBDA a, b : a + b, 0, s)

\* A gathering: siblings left of the hot one, the hot one in three parts,
\* siblings right of it, the size of the dividers, and the bulk-load hint,
\* which makes the siblings one fewer (nOld = 3 - bBulk).
MaxOld(bulk) == IF bulk THEN NB - 1 ELSE NB

Sides == UNION {[1..m -> PageShapes] : m \in 0..NB - 1}

Gatherings ==
  UNION {
  { [left |-> sides[1], right |-> sides[2], bulk |-> bulk,
     before |-> hot[1], in |-> new, after |-> hot[2], div |-> d] :
      sides \in { p \in Sides \X Sides :
                     Len(p[1]) + Len(p[2]) + 1 <= MaxOld(bulk) },
      hot   \in { p \in HotShapes \X HotShapes :
                     Total(p[1]) + Total(p[2]) <= UsableSpace },
      new   \in Inserts,
      d     \in Dividers } : bulk \in BOOLEAN }

\* The siblings of a gathering, from left to right.
Siblings(g) == g.left \o << g.before \o g.in \o g.after >> \o g.right

\* The cells of pages ps with a divider of size d after each but the last.
RECURSIVE Join(_, _)
Join(ps, d) ==
  IF Len(ps) = 1 THEN ps[1]
  ELSE ps[1] \o (IF LeafData THEN << >> ELSE <<d>>) \o Join(Tail(ps), d)

\* The cuts between the pages ps, padded to NB+2 of them.
CutsOf(ps, d, n) ==
  [j \in Pages |-> IF j + 1 < Len(ps) THEN Len(Join(SubSeq(ps, 1, j + 1), d)) ELSE n]

\* The cuts that show the cells fit NB+2 pages: the hot page is cut where
\* the cells came in.
FitOf(g, n) ==
  LET at    == IF g.left = << >> THEN Len(g.before)
               ELSE Len(Join(g.left, g.div)) + Divider + Len(g.before)
      m     == Len(g.in)
      left  == [j \in 1..Len(g.left) |-> Len(Join(SubSeq(g.left, 1, j), g.div))]
      hot   == IF m = 0 THEN << >>
               ELSE IF LeafData THEN <<at, at + m>>
               ELSE IF m = 1 THEN <<at>> ELSE <<at, at + m - 1>>
      hotEnd == at + m + Len(g.after)
      right == [j \in 1..Len(g.right) |->
                  hotEnd + Divider + Len(Join(SubSeq(g.right, 1, j), g.div))]
      cuts  == left \o hot \o <<hotEnd>> \o right
  IN [j \in Pages |-> IF j + 1 <= Len(cuts) THEN cuts[j + 1] ELSE n]

LoadOf(g) ==
  LET ps == Siblings(g)
      c  == Join(ps, g.div)
      n  == Len(c)
  IN [n |-> n, P |-> [j \in 0..n |-> Total(SubSeq(c, 1, j))],
      nOld |-> Len(ps), bulk |-> g.bulk, old |-> CutsOf(ps, g.div, n), fit |-> FitOf(g, n)]

MCLoads == { LoadOf(g) : g \in Gatherings }

-----------------------------------------------------------------------------
LeafPages == { <<20>>, <<6, 14>>, <<10, 10>>, <<6, 6, 6>>, <<8>> }
LeafHot   == { << >>, <<6>>, <<6, 6>>, <<10>>, <<14>>, <<20>>, <<6, 14>>, <<10, 10>> }
LeafNew   == { << >>, <<6>>, <<11>>, <<20>> }

=============================================================================
