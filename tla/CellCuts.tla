------------------------------ MODULE CellCuts ------------------------------
(***************************************************************************)
(* What the two passes of balance_nonroot() (btree.c) compute, without     *)
(* their loops: the cuts that deal n cells over pages of u bytes.  P is    *)
(* the running total of the cells' space, div is 1 if the cell at a cut    *)
(* moves to the parent and 0 if it stays, bulk is the bulk-load flag.      *)
(* Pages and cells are numbered from 0; cut j is the first cell that is    *)
(* not on the pages 0..j.                                                  *)
(***************************************************************************)
EXTENDS Integers, Sequences

Highest(S) == CHOOSE x \in S : \A y \in S : y <= x

\* The function f on 0..n, its values listed (so that TLC computes each once).
Listed(f, n) ==
  LET values == SubSeq([x \in 1..n + 1 |-> f[x - 1]], 1, n + 1)
  IN [j \in 0..n |-> values[j + 1]]

\* The first cell to the right of a cut.
Beyond(cut, n, div) == IF cut + div <= n THEN cut + div ELSE n

\* Where page j starts, given the cut before it.
Start(cuts, j, n, div) == IF j = 0 THEN 0 ELSE Beyond(cuts[j - 1], n, div)

\* First pass: every page in its turn takes all it can hold.
GreedyCuts(P, n, u, div, pages) ==
  LET g[j \in 0..pages - 1] ==
        LET start == IF j = 0 THEN 0 ELSE Beyond(g[j - 1], n, div)
        IN Highest({c \in 0..n : P[c] - P[start] <= u})
  IN Listed(g, pages - 1)

\* Whether cut j may stay at c when the next one is at right; g are the
\* greedy cuts of k pages.
Rests(P, n, div, bulk, g, k, c, right, j) ==
  LET Size(x) == P[x + 1] - P[x]
      szRight == P[right] - P[Beyond(c, n, div)]
      szLeft  == P[c] - P[Start(g, j, n, div)]
  IN /\ szRight # 0
     /\ \/ bulk
        \/ szRight + Size(c - 1 + div) >
             szLeft - Size(c - 1) + (IF j = k - 2 THEN 2 ELSE 0)

\* Second pass over pages 0..k-1 cut by g: from the right, each cut moves
\* left to the first place where the right page is not empty and one more
\* cell would make it fuller than its neighbour.
LeveledCuts(P, n, div, bulk, g, k) ==
  LET h[m \in 0..k - 1] ==   \* the cut of page k-1-m
        IF m = 0 THEN n
        ELSE Highest({c \in 0..g[k - 1 - m] :
                        c = 0 \/ Rests(P, n, div, bulk, g, k, c, h[m - 1], k - 1 - m)})
      fromRight == Listed(h, k - 1)
  IN [j \in 0..k - 1 |-> fromRight[k - 1 - j]]
=============================================================================
