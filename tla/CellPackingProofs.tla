------------------------- MODULE CellPackingProofs -------------------------
(***************************************************************************)
(* For every page size, every number of siblings and every gathering of    *)
(* cells: the redistribution of balance_nonroot() never reports corruption *)
(* by itself, deals every cell, overfills no page, leaves no page empty,   *)
(* and rewrites the pages in an order that destroys no cell still needed.  *)
(***************************************************************************)
EXTENDS CellPacking, FiniteSetsExt, TLAPS, WellFoundedInduction
-----------------------------------------------------------------------------
\* The least and the greatest number of a set: Min and Max of FiniteSetsExt.

\* A set of natural numbers that is not empty has a least member.  Cited
\* wherever an induction over numbers is needed: as the least number for
\* which something fails.
LEMMA MinOfNat ==
  ASSUME NEW S \in SUBSET Nat, S # {}
  PROVE  Min(S) \in S /\ \A y \in S : Min(S) <= y
<1> DEFINE R == {ss \in Nat \X Nat : ss[1] < ss[2]}
<1>1. IsWellFoundedOn(R, Nat)
  BY NatLessThanWellFounded, Zenon DEF OpToRel
<1> HIDE DEF R
<1>2. \E x \in S : \A y \in S : <<y, x>> \notin R
  BY <1>1, WFMin, Zenon
<1>3. ASSUME NEW x \in S, NEW y \in S, <<y, x>> \notin R
      PROVE  x <= y
  BY <1>3 DEF R
<1>4. \E x \in S : \A y \in S : x <= y
  BY <1>2, <1>3
<1>5. QED
  BY <1>4 DEF Min

\* A set of natural numbers up to n that is not empty has a greatest member.
LEMMA MaxOfUpTo ==
  ASSUME NEW n \in Nat, NEW S \in SUBSET (0..n), S # {}
  PROVE  Max(S) \in S /\ \A y \in S : y <= Max(S)
<1> DEFINE T == {n - s : s \in S}
<1>1. \A s \in S : s \in 0..n
  OBVIOUS
<1>2. T \in SUBSET Nat /\ T # {}
  BY <1>1
<1>3. Min(T) \in T /\ \A y \in T : Min(T) <= y
  BY <1>2, MinOfNat
<1>4. PICK x \in S : Min(T) = n - x
  BY <1>3
<1>5. \A y \in S : x >= y
  <2> TAKE y \in S
  <2>1. n - x <= n - y
    BY <1>3, <1>4
  <2>2. QED
    BY <2>1
<1>6. QED
  BY <1>5 DEF Max

-----------------------------------------------------------------------------

\* The first cell to the right of page j would not have fitted on it.
Full(j) == load.P[cnt[j] + 1] - load.P[First(cnt, j)] > UsableSpace

\* What is known of a page the first pass has finished.  The last conjunct
\* is the heart of the argument: greedy packing is never behind any other.
Settled(j) ==
  /\ cnt[j] < load.n
  /\ First(cnt, j) < cnt[j]
  /\ Used(j) <= UsableSpace
  /\ Full(j)
  /\ load.fit[j] <= cnt[j]

Increasing(m) == \A a, b \in 0..m : a < b => cnt[a] < cnt[b]

PackInv ==
  pc = "pack" =>
    /\ i \in 0..k - 1
    /\ \A j \in 0..i - 1 : Settled(j)
    /\ Increasing(i - 1)

\* Only the last page can still be empty, and only before it is looked at.
LevelInv ==
  pc = "level" =>
    /\ i \in 0..k - 1
    /\ \A j \in 0..k - 1 : Used(j) <= UsableSpace
    /\ \A j \in 0..k - 2 : First(cnt, j) < cnt[j] /\ cnt[j] < load.n
    /\ Increasing(k - 1)
    /\ k > 1 /\ First(cnt, k - 1) = load.n => i = k - 1 /\ Full(k - 2)

\* The pages rewritten when the counter stands at i.
DoneAt ==
  { p \in 0..k - 1 :
      \/ p < i
      \/ p >= 1 /\ -p < i /\ load.old[p - 1] >= cnt[p - 1] }

EditInv ==
  pc \in {"edit", "done"} =>
    /\ i \in 1 - k..k
    /\ pc = "done" => i = k
    /\ \A j \in 0..k - 1 : Used(j) <= UsableSpace
    /\ \A j \in 0..k - 1 : load.n > 0 => First(cnt, j) < cnt[j]
    /\ Increasing(k - 1)
    /\ done = DoneAt

IInv ==
  /\ TypeOK
  /\ SizesMatchCuts
  /\ NeverCorrupt
  /\ cnt[k - 1] = load.n
  /\ pc \in {"pack", "level"} => done = {}
  /\ PackInv
  /\ LevelInv
  /\ EditInv

-----------------------------------------------------------------------------
\* A running total does not decrease, and grows with every cell.
LEMMA Monotone ==
  ASSUME NEW l, ValidLoad(l), NEW a \in 0..l.n, NEW b \in 0..l.n
  PROVE  /\ l.n \in Nat /\ l.P[a] \in Nat /\ l.P[b] \in Nat
         /\ a <= b => l.P[a] <= l.P[b]
         /\ a < b => l.P[a] + 6 <= l.P[b]
<1>1. l.n \in Nat /\ l.P \in [0..l.n -> Nat]
  BY DEF ValidLoad
<1>2. \A x, y \in 0..l.n : x < y => l.P[x] + 6 <= l.P[y]
  BY DEF ValidLoad
<1>3. l.P[a] \in Nat /\ l.P[b] \in Nat
  BY <1>1
<1>4. a < b => l.P[a] + 6 <= l.P[b]
  BY <1>2
<1> QED BY <1>1, <1>3, <1>4

\* The cell after a cut lies between the cut and the end of the array.
LEMMA AfterRange ==
  ASSUME NEW n \in Nat, NEW c \in 0..n
  PROVE  /\ After(c, n) \in 0..n
         /\ c <= After(c, n)
         /\ c < n => After(c, n) = c + Divider
         /\ \A d \in 0..n : c <= d => After(c, n) <= After(d, n)
BY DEF After, Least, Divider

\* Where a page starts depends only on the cut before it.
LEMMA FirstRange ==
  ASSUME TypeOK, NEW j \in Pages
  PROVE  /\ First(cnt, j) \in 0..load.n
         /\ j = 0 => First(cnt, j) = 0
         /\ j > 0 => /\ First(cnt, j) = After(cnt[j - 1], load.n)
                     /\ cnt[j - 1] \in 0..load.n
                     /\ cnt[j - 1] <= First(cnt, j)
<1>1. load.n \in Nat /\ NB \in Nat /\ cnt \in [Pages -> 0..load.n]
  BY PackingAssumption DEF TypeOK, ValidLoad
<1>2. CASE j = 0
  BY <1>1, <1>2 DEF First
<1>3. CASE j > 0
  <2>1. j - 1 \in Pages
    BY <1>1, <1>3 DEF Pages
  <2>2. cnt[j - 1] \in 0..load.n
    BY <1>1, <2>1
  <2>3. /\ After(cnt[j - 1], load.n) \in 0..load.n
        /\ cnt[j - 1] <= After(cnt[j - 1], load.n)
    BY <1>1, <2>2, AfterRange
  <2>4. First(cnt, j) = After(cnt[j - 1], load.n)
    BY <1>3 DEF First, Pages
  <2> QED BY <1>3, <2>2, <2>3, <2>4
<1> QED BY <1>1, <1>2, <1>3 DEF Pages

\* The types, taken apart once.
LEMMA Types ==
  ASSUME TypeOK
  PROVE  /\ NB \in Nat /\ NB > 0 /\ UsableSpace \in Nat /\ UsableSpace > 0
         /\ Divider \in {0, 1} /\ (LeafData <=> Divider = 0)
         /\ load.n \in Nat
         /\ cnt \in [Pages -> 0..load.n] /\ sz \in [Pages -> Int]
         /\ k \in 1..NB + 2 /\ i \in Int /\ -k < i /\ i <= k
         /\ 0..k - 1 \subseteq Pages
<1>1. /\ NB \in Nat /\ NB > 0 /\ UsableSpace \in Nat /\ UsableSpace > 0
      /\ LeafData \in BOOLEAN
  BY PackingAssumption
<1>2. Divider \in {0, 1} /\ (LeafData <=> Divider = 0)
  BY <1>1 DEF Divider
<1>3. load.n \in Nat
  BY DEF TypeOK, ValidLoad
<1>4. /\ cnt \in [Pages -> 0..load.n] /\ sz \in [Pages -> Int]
      /\ k \in 1..NB + 2 /\ i \in Int /\ -k < i /\ i <= k
  BY DEF TypeOK
<1>5. 0..k - 1 \subseteq Pages
  BY <1>1, <1>4 DEF Pages
<1> QED BY <1>1, <1>2, <1>3, <1>4, <1>5

\* Space used is a difference of two places in the running total.
LEMMA UsedRange ==
  ASSUME TypeOK, NEW j \in Pages
  PROVE  /\ load.P[cnt[j]] \in Nat /\ load.P[First(cnt, j)] \in Nat
         /\ Used(j) \in Int
         /\ Used(j) > 0 <=> First(cnt, j) < cnt[j]
         /\ Used(j) = 0 <=> First(cnt, j) = cnt[j]
<1>1. ValidLoad(load) /\ load.n \in Nat /\ cnt[j] \in 0..load.n
  BY Types DEF TypeOK
<1>2. First(cnt, j) \in 0..load.n
  BY FirstRange
<1>3. /\ load.P[cnt[j]] \in Nat /\ load.P[First(cnt, j)] \in Nat
      /\ cnt[j] < First(cnt, j) => load.P[cnt[j]] + 6 <= load.P[First(cnt, j)]
      /\ First(cnt, j) < cnt[j] => load.P[First(cnt, j)] + 6 <= load.P[cnt[j]]
  BY <1>1, <1>2, Monotone
<1> QED BY <1>1, <1>2, <1>3 DEF Used

\* The size of a cell, from the place where it starts.
LEMMA SizeRange ==
  ASSUME TypeOK, NEW c \in 0..load.n, c < load.n
  PROVE  /\ Size(c) = load.P[c + 1] - load.P[c]
         /\ load.P[c] \in Nat /\ load.P[c + 1] \in Nat
         /\ Size(c) \in Int /\ Size(c) >= 6 /\ Size(c) <= UsableSpace
<1>1. ValidLoad(load) /\ load.n \in Nat /\ UsableSpace \in Nat
  BY Types DEF TypeOK
<1>2. c + 1 \in 1..load.n /\ c + 1 \in 0..load.n
  BY <1>1
<1>3. /\ load.P[c] \in Nat /\ load.P[c + 1] \in Nat
      /\ load.P[c] + 6 <= load.P[c + 1]
  BY <1>1, <1>2, Monotone
<1>4. \A j \in 1..load.n :
        IF LeafData THEN load.P[j] - load.P[j - 1] <= UsableSpace
                    ELSE 255 * (load.P[j] - load.P[j - 1]) <= 64 * UsableSpace
  BY <1>1 DEF ValidLoad
<1>5. load.P[c + 1] - load.P[c] <= UsableSpace
  <2>1. IF LeafData THEN load.P[c + 1] - load.P[c] <= UsableSpace
                    ELSE 255 * (load.P[c + 1] - load.P[c]) <= 64 * UsableSpace
    BY <1>1, <1>2, <1>4
  <2> QED BY <1>1, <1>3, <2>1
<1> QED BY <1>3, <1>5 DEF Size

\* Moving a cut by one cell moves one cell's space across it: the cell
\* itself between table leaves, the divider otherwise.
LEMMA Crossing ==
  ASSUME TypeOK, NEW c \in 1..load.n
  PROVE  /\ Size(c - 1) = load.P[c] - load.P[c - 1]
         /\ Size(c - 1) \in Int /\ Size(c - 1) >= 6 /\ Size(c - 1) <= UsableSpace
         /\ load.P[c] \in Nat /\ load.P[c - 1] \in Nat
         /\ load.P[After(c, load.n)] \in Nat
         /\ load.P[After(c - 1, load.n)] \in Nat
         /\ (IF LeafData THEN Size(c - 1) ELSE DividerSize(c))
              = load.P[After(c, load.n)] - load.P[After(c - 1, load.n)]
         /\ c < load.n => Size(c - (1 - Divider))
              = load.P[After(c, load.n)] - load.P[After(c - 1, load.n)]
         /\ ~LeafData => 255 * Size(c - 1) <= 64 * UsableSpace
<1>1. ValidLoad(load) /\ load.n \in Nat
  BY Types DEF TypeOK
<1>2. c \in 0..load.n /\ c - 1 \in 0..load.n
  BY <1>1
<1>3. /\ load.P[c] \in Nat /\ load.P[c - 1] \in Nat
      /\ load.P[c - 1] + 6 <= load.P[c]
  BY <1>1, <1>2, Monotone
<1>4. Size(c - 1) = load.P[c] - load.P[c - 1]
  BY <1>1 DEF Size
<1>5. IF LeafData THEN load.P[c] - load.P[c - 1] <= UsableSpace
                  ELSE 255 * (load.P[c] - load.P[c - 1]) <= 64 * UsableSpace
  BY <1>1 DEF ValidLoad
<1>6. /\ After(c, load.n) \in 0..load.n /\ After(c - 1, load.n) \in 0..load.n
      /\ After(c - 1, load.n) = c - 1 + Divider
      /\ c < load.n => After(c, load.n) = c + Divider
  BY <1>1, <1>2, AfterRange
<1>7. /\ load.P[After(c, load.n)] \in Nat
      /\ load.P[After(c - 1, load.n)] \in Nat
  BY <1>1, <1>6, Monotone
<1>8. CASE LeafData
  <2>1. Divider = 0 /\ After(c, load.n) = c /\ After(c - 1, load.n) = c - 1
    BY <1>1, <1>8 DEF Divider, After, Least
  <2> QED BY <1>1, <1>3, <1>4, <1>5, <1>7, <1>8, <2>1, Types
<1>9. CASE ~LeafData
  <2>1. Divider = 1 /\ After(c - 1, load.n) = c
    BY <1>1, <1>9 DEF Divider, After, Least
  <2>2. CASE c < load.n
    <3>1. After(c, load.n) = c + 1 /\ DividerSize(c) = Size(c)
      BY <2>1, <2>2, <1>6 DEF DividerSize
    <3> QED BY <1>1, <1>3, <1>4, <1>5, <1>7, <1>9, <2>1, <2>2, <3>1, Types DEF Size
  <2>3. CASE c = load.n
    <3>1. After(c, load.n) = c /\ DividerSize(c) = 0
      BY <2>1, <2>3, <1>6 DEF DividerSize, After, Least
    <3> QED BY <1>1, <1>3, <1>4, <1>5, <1>7, <1>9, <2>1, <2>3, <3>1, Types
  <2> QED BY <1>1, <2>2, <2>3
<1> QED BY <1>8, <1>9

-----------------------------------------------------------------------------
\* Other siblings never lose their place: where page j starts and the space
\* it uses depend on two cuts only.
LEMMA Untouched ==
  ASSUME TypeOK, NEW j \in Pages, load' = load,
         cnt'[j] = cnt[j], j > 0 => cnt'[j - 1] = cnt[j - 1]
  PROVE  First(cnt, j)' = First(cnt, j) /\ Used(j)' = Used(j)
<1>1. j = 0 \/ j > 0
  BY Types DEF Pages
<1>2. First(cnt, j)' = First(cnt, j)
  BY <1>1 DEF First
<1> QED BY <1>2 DEF Used

\* Before the distribution of balance_nonroot() the arrays are empty and the
\* invariant of its first loop holds.
THEOREM InitInv == Init => IInv
<1> SUFFICES ASSUME Init PROVE IInv
  OBVIOUS
<1>1. /\ ValidLoad(load) /\ cnt = load.old /\ k = load.nOld /\ i = 0
      /\ pc = "pack" /\ done = {}
      /\ NB \in Nat \ {0}
  BY PackingAssumption DEF Init
<1>2. /\ load.n \in Nat /\ load.nOld \in 1..NB
      /\ load.old \in [0..NB + 1 -> 0..load.n]
      /\ \A j \in load.nOld - 1..NB + 1 : load.old[j] = load.n
  BY <1>1 DEF ValidLoad
<1>3. cnt \in [Pages -> 0..load.n]
  BY <1>1, <1>2 DEF Pages
<1>4. \A j \in Pages : load.P[cnt[j]] \in Nat /\ load.P[First(cnt, j)] \in Nat
  <2> SUFFICES ASSUME NEW j \in Pages
               PROVE  load.P[cnt[j]] \in Nat /\ load.P[First(cnt, j)] \in Nat
    OBVIOUS
  <2>1. cnt[j] \in 0..load.n
    BY <1>3
  <2>2. First(cnt, j) \in 0..load.n
    <3>1. CASE j = 0
      BY <1>2, <3>1 DEF First
    <3>2. CASE j # 0
      <4>1. cnt[j - 1] \in 0..load.n
        BY <1>1, <1>3, <3>2 DEF Pages
      <4> QED BY <1>2, <3>2, <4>1, AfterRange DEF First
    <3> QED BY <3>1, <3>2
  <2> QED BY <1>1, <2>1, <2>2, Monotone
<1>5. sz = [j \in Pages |-> IF j < load.nOld THEN Used(j) ELSE 0]
  BY <1>1 DEF Init, Used
<1>6. sz \in [Pages -> Int]
  BY <1>4, <1>5 DEF Used
<1>7. TypeOK
  BY <1>1, <1>2, <1>3, <1>6 DEF TypeOK
<1>8. SizesMatchCuts
  BY <1>1, <1>2, <1>5 DEF SizesMatchCuts, Pages
<1>9. cnt[k - 1] = load.n
  <2>1. load.nOld - 1 \in load.nOld - 1..NB + 1
    BY <1>1, <1>2
  <2>2. load.old[load.nOld - 1] = load.n
    BY <1>2, <2>1
  <2> QED BY <1>1, <2>2
<1>10. PackInv
  BY <1>1, <1>2 DEF PackInv, Increasing
<1> QED BY <1>1, <1>7, <1>8, <1>9, <1>10
        DEF IInv, NeverCorrupt, LevelInv, EditInv

\* First pass: a cell that leaves a page that is too full, for a page that may be
\* new, keeps the invariant.
LEMMA ShrinkStep ==
  ASSUME IInv, Shrink
  PROVE  IInv'
<1>1. /\ TypeOK /\ SizesMatchCuts /\ cnt[k - 1] = load.n /\ done = {}
      /\ pc = "pack" /\ i \in 0..k - 1 /\ sz[i] > UsableSpace
      /\ \A j \in 0..i - 1 : Settled(j)
      /\ Increasing(i - 1)
  BY DEF IInv, Shrink, PackInv
<1>2. /\ NB \in Nat /\ UsableSpace \in Nat /\ load.n \in Nat
      /\ cnt \in [Pages -> 0..load.n] /\ sz \in [Pages -> Int]
      /\ k \in 1..NB + 2 /\ 0..k - 1 \subseteq Pages /\ i \in Pages
      /\ ValidLoad(load)
  BY <1>1, Types DEF TypeOK
<1>3. sz[i] = Used(i) /\ First(cnt, i) < cnt[i] /\ First(cnt, i) \in 0..load.n
  BY <1>1, <1>2, UsedRange, FirstRange DEF SizesMatchCuts
<1> DEFINE c == cnt[i]
<1>4. c \in 1..load.n
  BY <1>2, <1>3
\* greedy packing cannot need another page: "fit" would need one too
<1>5. ~(i + 1 >= k /\ i + 2 > NB + 2)
  <2> SUFFICES ASSUME i + 1 >= k, i + 2 > NB + 2 PROVE FALSE
    OBVIOUS
  <2>1. i = NB + 1 /\ i = k - 1 /\ i > 0 /\ cnt[i] = load.n
    BY <1>1, <1>2, PackingAssumption
  <2>2. Settled(i - 1) /\ load.fit[i - 1] <= cnt[i - 1]
    BY <1>1, <2>1 DEF Settled
  <2>3. /\ load.fit[i - 1] \in 0..load.n /\ load.fit[i] = load.n
        /\ load.P[load.fit[i]] <= UsableSpace + load.P[After(load.fit[i - 1], load.n)]
    <3>1. /\ load.fit \in [0..NB + 1 -> 0..load.n]
          /\ load.fit[NB + 1] = load.n
          /\ \A j \in 0..NB + 1 :
               load.P[load.fit[j]] <=
                 UsableSpace + (IF j = 0 THEN 0
                                ELSE load.P[After(load.fit[j - 1], load.n)])
      BY <1>2 DEF ValidLoad
    <3>2. i - 1 \in 0..NB + 1 /\ i \in 0..NB + 1 /\ i # 0
      BY <1>2, <2>1
    <3> QED BY <2>1, <3>1, <3>2
  <2>4. /\ cnt[i - 1] \in 0..load.n
        /\ First(cnt, i) = After(cnt[i - 1], load.n)
    BY <1>1, <1>2, <2>1, FirstRange
  <2>5. /\ After(load.fit[i - 1], load.n) \in 0..load.n
        /\ After(load.fit[i - 1], load.n) <= First(cnt, i)
    BY <1>2, <2>2, <2>3, <2>4, AfterRange
  <2>6. /\ load.P[After(load.fit[i - 1], load.n)] <= load.P[First(cnt, i)]
        /\ load.P[After(load.fit[i - 1], load.n)] \in Nat
        /\ load.P[First(cnt, i)] \in Nat /\ load.P[load.n] \in Nat
    BY <1>2, <1>3, <2>5, Monotone
  <2>7. Used(i) <= UsableSpace
    BY <1>2, <2>1, <2>3, <2>6 DEF Used
  <2> QED BY <1>1, <1>2, <1>3, <2>7, UsedRange
<1>6. /\ load' = load /\ i' = i /\ done' = done /\ pc' = pc
      /\ k' = (IF i + 1 >= k THEN i + 2 ELSE k)
  BY <1>5 DEF Shrink
<1>7. i + 1 \in Pages /\ k' \in 1..NB + 2 /\ k' > i + 1
  BY <1>1, <1>2, <1>5, <1>6 DEF Pages
<1> DEFINE moved == IF LeafData THEN Size(c - 1) ELSE DividerSize(c)
<1>8. /\ cnt' \in [Pages -> 0..load.n]
      /\ cnt'[i] = c - 1
      /\ cnt'[i + 1] = (IF i + 1 >= k THEN load.n ELSE cnt[i + 1])
      /\ \A j \in Pages \ {i, i + 1} : cnt'[j] = cnt[j]
  <2>1. cnt' = [(IF i + 1 >= k THEN [cnt EXCEPT ![i + 1] = load.n] ELSE cnt)
                  EXCEPT ![i] = @ - 1]
    BY <1>5 DEF Shrink
  <2>2. i # i + 1 /\ c - 1 \in 0..load.n
    BY <1>2, <1>4, <1>1
  <2>3. CASE i + 1 >= k
    <3>1. cnt' = [[cnt EXCEPT ![i + 1] = load.n] EXCEPT ![i] = c - 1]
      BY <2>1, <2>2, <2>3
    <3> QED BY <3>1, <2>2, <2>3, <1>2, <1>7
  <2>4. CASE ~(i + 1 >= k)
    <3>1. cnt' = [cnt EXCEPT ![i] = c - 1]
      BY <2>1, <2>4
    <3> QED BY <3>1, <2>2, <2>4, <1>2, <1>7
  <2> QED BY <2>3, <2>4
<1>9. /\ moved \in Int /\ Size(c - 1) \in Int
      /\ moved = load.P[After(c, load.n)] - load.P[After(c - 1, load.n)]
      /\ Size(c - 1) = load.P[c] - load.P[c - 1]
      /\ load.P[After(c, load.n)] \in Nat /\ load.P[After(c - 1, load.n)] \in Nat
      /\ load.P[c] \in Nat /\ load.P[c - 1] \in Nat
  BY <1>1, <1>4, Crossing
<1>10. /\ sz' \in [Pages -> Int]
       /\ sz'[i] = sz[i] - Size(c - 1)
       /\ sz'[i + 1] = (IF i + 1 >= k THEN 0 ELSE sz[i + 1]) + moved
       /\ \A j \in Pages \ {i, i + 1} : sz'[j] = sz[j]
  <2>1. sz' = [(IF i + 1 >= k THEN [sz EXCEPT ![i + 1] = 0] ELSE sz)
                 EXCEPT ![i] = @ - Size(c - 1), ![i + 1] = @ + moved]
    BY <1>5 DEF Shrink
  <2>2. i # i + 1
    BY <1>1
  <2>3. CASE i + 1 >= k
    <3> DEFINE s0 == [sz EXCEPT ![i + 1] = 0]
    <3>2. sz' = [s0 EXCEPT ![i] = s0[i] - Size(c - 1), ![i + 1] = s0[i + 1] + moved]
      BY <2>1, <2>3
    <3>3. /\ s0 \in [Pages -> Int] /\ s0[i] = sz[i] /\ s0[i + 1] = 0
          /\ \A j \in Pages \ {i, i + 1} : s0[j] = sz[j]
      BY <2>2, <1>2, <1>7
    <3> HIDE DEF s0, moved
    <3>1. /\ sz' \in [Pages -> Int]
          /\ sz'[i] = sz[i] - Size(c - 1) /\ sz'[i + 1] = 0 + moved
          /\ \A j \in Pages \ {i, i + 1} : sz'[j] = s0[j]
      BY <2>2, <3>2, <3>3, <1>2, <1>7, <1>9
    <3> QED BY <3>1, <3>3, <2>3, <1>9
  <2>4. CASE ~(i + 1 >= k)
    <3>1. sz' = [sz EXCEPT ![i] = sz[i] - Size(c - 1), ![i + 1] = sz[i + 1] + moved]
      BY <2>1, <2>2, <2>4, <1>2, <1>7
    <3> QED BY <3>1, <2>2, <2>4, <1>2, <1>7, <1>9
  <2> QED BY <2>3, <2>4
<1>11. TypeOK'
  BY <1>1, <1>2, <1>6, <1>7, <1>8, <1>10 DEF TypeOK
<1>12. \A j \in 0..i - 1 : First(cnt, j)' = First(cnt, j) /\ Used(j)' = Used(j)
  BY <1>1, <1>2, <1>6, <1>8, Untouched
<1>13. First(cnt, i)' = First(cnt, i)
  BY <1>1, <1>2, <1>6, <1>8 DEF First
<1>14. SizesMatchCuts'
  <2> SUFFICES ASSUME NEW j \in 0..k' - 1 PROVE sz'[j] = Used(j)'
    BY DEF SizesMatchCuts
  <2>1. j \in Pages
    BY <1>2, <1>6, <1>7 DEF Pages
  <2>2. CASE j < i
    BY <1>1, <1>2, <1>10, <1>12, <2>2 DEF SizesMatchCuts
  <2>3. CASE j = i
    <3>1. load.P[First(cnt, i)] \in Nat /\ load.P[c] \in Nat
      BY <1>1, <1>2, UsedRange
    <3> QED BY <1>3, <1>6, <1>8, <1>9, <1>10, <1>13, <2>3, <3>1 DEF Used
  <2>4. CASE j = i + 1
    <3>1. /\ First(cnt, j) = After(c, load.n)
          /\ First(cnt, j)' = After(c - 1, load.n)
      BY <1>1, <1>2, <1>6, <1>8, <2>4 DEF First
    <3>2. CASE i + 1 >= k
      <4>1. c = load.n /\ cnt'[j] = load.n /\ After(c, load.n) = load.n
        <5>1. i = k - 1 /\ c = load.n /\ cnt'[j] = load.n
          BY <1>1, <1>2, <1>8, <2>4, <3>2
        <5>2. After(c, load.n) = load.n
          BY <1>1, <1>2, <5>1, Types DEF After, Least
        <5> QED BY <5>1, <5>2
      <4> QED BY <1>6, <1>9, <1>10, <2>4, <3>1, <3>2, <4>1 DEF Used
    <3>3. CASE i + 1 < k
      <4>1. sz[j] = load.P[cnt[j]] - load.P[After(c, load.n)] /\ load.P[cnt[j]] \in Nat
        <5>1. j \in 0..k - 1
          BY <1>1, <1>2, <2>4, <3>3
        <5>2. sz[j] = Used(j)
          BY <1>1, <5>1 DEF SizesMatchCuts
        <5> QED BY <1>1, <2>1, <3>1, <5>2, UsedRange DEF Used
      <4>2. /\ cnt'[j] = cnt[j] /\ sz'[j] = sz[j] + moved
            /\ Used(j)' = load.P[cnt[j]] - load.P[After(c - 1, load.n)]
        BY <1>1, <1>2, <1>6, <1>8, <1>10, <2>4, <3>1, <3>3 DEF Used
      <4> QED BY <1>9, <4>1, <4>2
    <3> QED BY <1>1, <1>2, <3>2, <3>3
  <2>5. CASE j > i + 1
    <3>1. i + 1 < k /\ j \in 0..k - 1
      BY <1>1, <1>2, <1>6, <2>5
    <3>2. cnt'[j] = cnt[j]
      BY <1>1, <1>8, <2>1, <2>5
    <3>4. cnt'[j - 1] = cnt[j - 1]
      <4>1. CASE j = i + 2
        <5>1. j - 1 = i + 1 /\ ~(i + 1 >= k)
          BY <1>1, <1>2, <3>1, <4>1
        <5> QED BY <1>8, <5>1
      <4>2. CASE j # i + 2
        <5>1. j - 1 \in Pages \ {i, i + 1}
          BY <1>1, <1>2, <2>1, <2>5, <4>2 DEF Pages
        <5> QED BY <1>8, <5>1
      <4> QED BY <4>1, <4>2
    <3>3. Used(j)' = Used(j)
      BY <1>1, <1>6, <2>1, <3>2, <3>4, Untouched
    <3> QED BY <1>1, <1>10, <2>1, <2>5, <3>1, <3>3 DEF SizesMatchCuts
  <2> QED BY <1>1, <2>2, <2>3, <2>4, <2>5
<1>15. cnt'[k' - 1] = load'.n
  <2>1. CASE i + 1 >= k
    <3>1. k' - 1 = i + 1
      BY <1>1, <1>6, <2>1
    <3> QED BY <1>6, <1>8, <2>1, <3>1
  <2>2. CASE ~(i + 1 >= k)
    <3>1. k' = k /\ k - 1 >= i + 1 /\ k - 1 \in Pages
      BY <1>1, <1>2, <1>6, <2>2
    <3> QED BY <1>1, <1>6, <1>8, <2>2, <3>1
  <2> QED BY <2>1, <2>2
<1>16. PackInv'
  <2>1. i' \in 0..k' - 1
    BY <1>1, <1>2, <1>6, <1>7
  <2>2. \A j \in 0..i' - 1 : Settled(j)'
    <3> SUFFICES ASSUME NEW j \in 0..i - 1 PROVE Settled(j)'
      BY <1>6
    <3>1. Settled(j) /\ cnt'[j] = cnt[j]
      BY <1>1, <1>2, <1>8
    <3> QED BY <1>6, <1>12, <3>1 DEF Settled, Full
  <2>3. Increasing(i - 1)'
    BY <1>1, <1>2, <1>6, <1>8 DEF Increasing
  <2> QED BY <1>6, <2>1, <2>2, <2>3 DEF PackInv
<1> QED BY <1>1, <1>6, <1>11, <1>14, <1>15, <1>16
        DEF IInv, NeverCorrupt, LevelInv, EditInv

\* One cut moves by one cell between two pages that both exist: the sizes
\* follow, and only page m+1 starts elsewhere.
LEMMA CutMoves ==
  ASSUME TypeOK, \A j \in 0..k - 1 : sz[j] = Used(j),
         NEW m \in 0..k - 2, NEW c \in 0..load.n,
         load' = load, k' = k,
         cnt' = [cnt EXCEPT ![m] = c],
         sz' = [sz EXCEPT
                  ![m] = sz[m] + (load.P[c] - load.P[cnt[m]]),
                  ![m + 1] = sz[m + 1] - (load.P[After(c, load.n)]
                                            - load.P[After(cnt[m], load.n)])]
  PROVE  /\ cnt' \in [Pages -> 0..load.n] /\ sz' \in [Pages -> Int]
         /\ cnt'[m] = c /\ \A j \in Pages \ {m} : cnt'[j] = cnt[j]
         /\ \A j \in Pages \ {m, m + 1} : sz'[j] = sz[j]
         /\ \A j \in 0..k - 1 : sz'[j] = Used(j)'
         /\ \A j \in Pages \ {m + 1} : First(cnt, j)' = First(cnt, j)
         /\ First(cnt, m + 1)' = After(c, load.n)
<1>1. /\ m \in Pages /\ m + 1 \in Pages /\ m # m + 1 /\ load.n \in Nat
      /\ cnt \in [Pages -> 0..load.n] /\ sz \in [Pages -> Int]
      /\ k \in Nat /\ 0..k - 1 \subseteq Pages /\ NB \in Nat
      /\ ValidLoad(load)
  BY Types DEF Pages, TypeOK
<1>2. /\ cnt' \in [Pages -> 0..load.n] /\ cnt'[m] = c
      /\ \A j \in Pages \ {m} : cnt'[j] = cnt[j]
  BY <1>1
<1>6. /\ load.P[After(c, load.n)] \in Nat /\ load.P[After(cnt[m], load.n)] \in Nat
      /\ load.P[c] \in Nat /\ load.P[cnt[m]] \in Nat
  <2>1. After(c, load.n) \in 0..load.n /\ After(cnt[m], load.n) \in 0..load.n
    BY <1>1, AfterRange
  <2> QED BY <1>1, <2>1, Monotone
<1> DEFINE gain == load.P[c] - load.P[cnt[m]]
           loss == load.P[After(c, load.n)] - load.P[After(cnt[m], load.n)]
<1>8. gain \in Int /\ loss \in Int
  BY <1>6
<1>3. /\ sz' \in [Pages -> Int]
      /\ sz'[m] = sz[m] + gain /\ sz'[m + 1] = sz[m + 1] - loss
      /\ \A j \in Pages \ {m, m + 1} : sz'[j] = sz[j]
  <2> HIDE DEF gain, loss
  <2>1. sz' = [sz EXCEPT ![m] = sz[m] + gain, ![m + 1] = sz[m + 1] - loss]
    BY DEF gain, loss
  <2> QED BY <1>1, <1>8, <2>1
<1>4. \A j \in Pages \ {m + 1} : First(cnt, j)' = First(cnt, j)
  <2> SUFFICES ASSUME NEW j \in Pages \ {m + 1}
               PROVE  First(cnt, j)' = First(cnt, j)
    OBVIOUS
  <2>1. CASE j = 0
    BY <2>1 DEF First
  <2>2. CASE j # 0
    <3>1. j - 1 \in Pages \ {m}
      BY <1>1, <2>2 DEF Pages
    <3> QED BY <1>2, <2>2, <3>1 DEF First
  <2> QED BY <2>1, <2>2
<1>5. /\ First(cnt, m + 1)' = After(c, load.n)
      /\ First(cnt, m + 1) = After(cnt[m], load.n)
  BY <1>1, <1>2 DEF First
<1>7. ASSUME NEW j \in 0..k - 1 PROVE sz'[j] = Used(j)'
  <2>1. j \in Pages /\ sz[j] = Used(j)
        /\ load.P[cnt[j]] \in Nat /\ load.P[First(cnt, j)] \in Nat
    BY <1>1, UsedRange
  <2>2. CASE j = m
    <3>1. First(cnt, j)' = First(cnt, j)
      BY <1>1, <1>4, <2>2
    <3>2. Used(j)' = load.P[c] - load.P[First(cnt, j)]
      BY <1>2, <2>2, <3>1 DEF Used
    <3> QED BY <1>3, <1>6, <2>1, <2>2, <3>2 DEF Used
  <2>3. CASE j = m + 1
    <3>1. Used(j)' = load.P[cnt[j]] - load.P[After(c, load.n)]
      BY <1>1, <1>2, <1>5, <2>3 DEF Used
    <3>2. Used(j) = load.P[cnt[j]] - load.P[After(cnt[m], load.n)]
      BY <1>5, <2>3 DEF Used
    <3> QED BY <1>3, <1>6, <2>1, <2>3, <3>1, <3>2
  <2>4. CASE j # m /\ j # m + 1
    <3>1. cnt'[j] = cnt[j] /\ First(cnt, j)' = First(cnt, j) /\ sz'[j] = sz[j]
      BY <1>2, <1>3, <1>4, <2>1, <2>4
    <3> QED BY <2>1, <3>1 DEF Used
  <2> QED BY <2>2, <2>3, <2>4
<1> QED BY <1>2, <1>3, <1>4, <1>5, <1>7

\* First pass: a cell that a page takes from the next one keeps the invariant.
LEMMA GrowStep ==
  ASSUME IInv, Grow
  PROVE  IInv'
<1>1. /\ TypeOK /\ cnt[k - 1] = load.n /\ done = {}
      /\ \A j \in 0..k - 1 : sz[j] = Used(j)
      /\ pc = "pack" /\ i \in 0..k - 1 /\ cnt[i] < load.n
      /\ \A j \in 0..i - 1 : Settled(j)
      /\ Increasing(i - 1)
      /\ load' = load /\ k' = k /\ i' = i /\ pc' = pc /\ done' = done
  BY DEF IInv, Grow, CanGrow, PackInv, SizesMatchCuts
<1>2. /\ NB \in Nat /\ load.n \in Nat /\ k \in 1..NB + 2
      /\ cnt \in [Pages -> 0..load.n] /\ sz \in [Pages -> Int]
      /\ 0..k - 1 \subseteq Pages /\ ValidLoad(load)
  BY <1>1, Types DEF TypeOK
<1>3. i \in 0..k - 2 /\ i \in Pages /\ i + 1 \in Pages
  BY <1>1, <1>2
<1> DEFINE c == cnt[i] + 1
           gain == Size(cnt[i])
           loss == IF LeafData THEN Size(cnt[i]) ELSE DividerSize(cnt[i] + 1)
<1>4. c \in 1..load.n /\ c \in 0..load.n /\ c - 1 = cnt[i]
  BY <1>1, <1>2, <1>3
<1>5. /\ gain \in Int /\ gain = load.P[c] - load.P[cnt[i]]
      /\ loss = load.P[After(c, load.n)] - load.P[After(cnt[i], load.n)]
      /\ loss \in Int
  BY <1>1, <1>4, Crossing
<1>6. /\ cnt' = [cnt EXCEPT ![i] = c]
      /\ sz' = [sz EXCEPT
                  ![i] = sz[i] + (load.P[c] - load.P[cnt[i]]),
                  ![i + 1] = sz[i + 1] - (load.P[After(c, load.n)]
                                            - load.P[After(cnt[i], load.n)])]
  <2>1. sz' = [sz EXCEPT ![i] = sz[i] + gain, ![i + 1] = sz[i + 1] - loss]
    BY <1>2, <1>3 DEF Grow
  <2> HIDE DEF gain, loss
  <2>2. cnt' = [cnt EXCEPT ![i] = c]
    BY <1>2, <1>3 DEF Grow
  <2> QED BY <1>5, <2>1, <2>2
<1> HIDE DEF gain, loss, c
<1>7. /\ cnt' \in [Pages -> 0..load.n] /\ sz' \in [Pages -> Int]
      /\ \A j \in Pages \ {i} : cnt'[j] = cnt[j]
      /\ \A j \in 0..k - 1 : sz'[j] = Used(j)'
      /\ \A j \in Pages \ {i + 1} : First(cnt, j)' = First(cnt, j)
  BY <1>1, <1>3, <1>4, <1>5, <1>6, CutMoves
<1>8. TypeOK' /\ SizesMatchCuts'
  BY <1>1, <1>7 DEF TypeOK, SizesMatchCuts, Pages
<1>9. cnt'[k' - 1] = load'.n
  BY <1>1, <1>2, <1>3, <1>7
<1>10. PackInv'
  <2>1. \A j \in 0..i - 1 : Settled(j)'
    <3> SUFFICES ASSUME NEW j \in 0..i - 1 PROVE Settled(j)'
      OBVIOUS
    <3>1. /\ Settled(j) /\ cnt'[j] = cnt[j]
          /\ First(cnt, j)' = First(cnt, j)
      BY <1>1, <1>2, <1>7
    <3> QED BY <1>1, <3>1 DEF Settled, Full, Used
  <2>2. Increasing(i - 1)'
    BY <1>1, <1>2, <1>7 DEF Increasing
  <2> QED BY <1>1, <2>1, <2>2 DEF PackInv
<1> QED BY <1>1, <1>8, <1>9, <1>10 DEF IInv, NeverCorrupt, LevelInv, EditInv

\* A page the first pass leaves is settled: it is full up to the next cell,
\* so it has taken at least what "fit" gives to it and its predecessors.
LEMMA PageSettles ==
  ASSUME IInv, Settle, cnt[i] < load.n
  PROVE  Settled(i)
<1>1. /\ TypeOK /\ pc = "pack" /\ i \in 0..k - 1 /\ sz[i] = Used(i)
      /\ sz[i] <= UsableSpace /\ sz[i] + Size(cnt[i]) > UsableSpace
      /\ \A j \in 0..i - 1 : Settled(j)
  <2>1. /\ TypeOK /\ pc = "pack" /\ i \in 0..k - 1 /\ sz[i] = Used(i)
        /\ sz[i] <= UsableSpace /\ ~(sz[i] + Size(cnt[i]) <= UsableSpace)
        /\ \A j \in 0..i - 1 : Settled(j)
    BY DEF IInv, Settle, CanGrow, PackInv, SizesMatchCuts
  <2>2. i \in Pages /\ UsableSpace \in Nat
    BY <2>1, Types
  <2>3. Used(i) \in Int /\ cnt[i] \in 0..load.n
    BY <2>1, <2>2, UsedRange, Types
  <2>4. Size(cnt[i]) \in Int
    BY <2>1, <2>3, SizeRange
  <2> QED BY <2>1, <2>2, <2>3, <2>4
<1>2. /\ i \in Pages /\ UsableSpace \in Nat /\ load.n \in Nat
      /\ cnt[i] \in 0..load.n /\ ValidLoad(load) /\ NB \in Nat
  BY <1>1, Types DEF TypeOK
<1>3. /\ cnt[i] + 1 \in 0..load.n
      /\ load.P[cnt[i]] \in Nat /\ load.P[cnt[i] + 1] \in Nat
      /\ Size(cnt[i]) = load.P[cnt[i] + 1] - load.P[cnt[i]]
      /\ Size(cnt[i]) <= UsableSpace
  BY <1>1, <1>2, SizeRange
<1>4. /\ First(cnt, i) \in 0..load.n /\ load.P[First(cnt, i)] \in Nat
  BY <1>1, <1>2, FirstRange, UsedRange
<1>5. Full(i)
  BY <1>1, <1>3, <1>4 DEF Full, Used
<1>6. First(cnt, i) < cnt[i]
  <2> SUFFICES ASSUME cnt[i] <= First(cnt, i) PROVE FALSE
    BY <1>2, <1>4
  <2>1. load.P[cnt[i]] <= load.P[First(cnt, i)]
    BY <1>2, <1>4, Monotone
  <2> QED BY <1>2, <1>3, <1>4, <1>5, <2>1 DEF Full
<1>7. load.fit[i] <= cnt[i]
  <2>1. /\ load.fit \in [0..NB + 1 -> 0..load.n]
        /\ \A j \in 0..NB + 1 :
             load.P[load.fit[j]] <=
               UsableSpace + (IF j = 0 THEN 0
                              ELSE load.P[After(load.fit[j - 1], load.n)])
        /\ load.P[0] = 0
    BY <1>2 DEF ValidLoad
  <2>2. i \in 0..NB + 1 /\ load.fit[i] \in 0..load.n
    BY <1>2, <2>1 DEF Pages
  <2>3. load.P[load.fit[i]] <= UsableSpace + load.P[First(cnt, i)]
    <3>1. CASE i = 0
      BY <1>1, <1>2, <2>1, <2>2, <3>1 DEF First
    <3>2. CASE i > 0
      <4>1. /\ i - 1 \in 0..NB + 1 /\ i - 1 \in 0..i - 1
            /\ load.fit[i - 1] \in 0..load.n
        BY <1>2, <2>1, <2>2, <3>2
      <4>2. load.fit[i - 1] <= cnt[i - 1] /\ cnt[i - 1] \in 0..load.n
            /\ First(cnt, i) = After(cnt[i - 1], load.n)
        BY <1>1, <1>2, <3>2, <4>1, FirstRange DEF Settled
      <4>3. /\ After(load.fit[i - 1], load.n) \in 0..load.n
            /\ After(load.fit[i - 1], load.n) <= First(cnt, i)
        BY <1>2, <4>1, <4>2, AfterRange
      <4>4. /\ load.P[After(load.fit[i - 1], load.n)] <= load.P[First(cnt, i)]
            /\ load.P[After(load.fit[i - 1], load.n)] \in Nat
        BY <1>2, <1>4, <4>3, Monotone
      <4>5. load.P[load.fit[i]] \in Nat
        BY <1>2, <2>2, Monotone
      <4>6. load.P[load.fit[i]] <= UsableSpace + load.P[After(load.fit[i - 1], load.n)]
        BY <2>1, <2>2, <3>2
      <4> QED BY <1>2, <1>4, <4>4, <4>5, <4>6
    <3> QED BY <1>1, <3>1, <3>2
  <2> SUFFICES ASSUME cnt[i] + 1 <= load.fit[i] PROVE FALSE
    BY <1>2, <2>2
  <2>4. load.P[cnt[i] + 1] <= load.P[load.fit[i]] /\ load.P[load.fit[i]] \in Nat
    BY <1>2, <1>3, <2>2, Monotone
  <2> QED BY <1>2, <1>3, <1>4, <1>5, <2>3, <2>4 DEF Full
<1> QED BY <1>1, <1>2, <1>5, <1>6, <1>7 DEF Settled

\* First pass: a page that is as full as it can be keeps the invariant, and is
\* left for the next page or the second pass.
LEMMA SettleStep ==
  ASSUME IInv, Settle
  PROVE  IInv'
<1>1. /\ TypeOK /\ SizesMatchCuts /\ cnt[k - 1] = load.n /\ done = {}
      /\ pc = "pack" /\ i \in 0..k - 1
      /\ sz[i] <= UsableSpace /\ sz[i] = Used(i)
      /\ \A j \in 0..i - 1 : Settled(j)
      /\ Increasing(i - 1)
      /\ load' = load /\ cnt' = cnt /\ sz' = sz /\ done' = done
  BY DEF IInv, Settle, PackInv, SizesMatchCuts
<1>2. /\ NB \in Nat /\ load.n \in Nat /\ k \in 1..NB + 2
      /\ cnt \in [Pages -> 0..load.n] /\ 0..k - 1 \subseteq Pages
      /\ i \in Pages
  BY <1>1, Types
<1>3. \A j \in 0..k - 1 : First(cnt, j)' = First(cnt, j) /\ Used(j)' = Used(j)
  BY <1>1 DEF First, Used
<1>4. CASE cnt[i] >= load.n
  <2>1. k' = i + 1 /\ i' = i /\ pc' = "level"
    BY <1>1, <1>2, <1>4 DEF Settle
  <2>2. cnt[i] = load.n /\ k' \in 1..NB + 2 /\ k' - 1 = i
    BY <1>1, <1>2, <1>4, <2>1
  <2>3. TypeOK' /\ SizesMatchCuts' /\ cnt'[k' - 1] = load'.n
    BY <1>1, <1>2, <1>3, <2>1, <2>2 DEF TypeOK, SizesMatchCuts
  <2>4. \A j \in 0..k' - 1 : Used(j)' <= UsableSpace
    BY <1>1, <1>2, <1>3, <2>1 DEF Settled
  <2>5. \A j \in 0..k' - 2 : First(cnt, j)' < cnt'[j] /\ cnt'[j] < load'.n
    BY <1>1, <1>2, <1>3, <2>1 DEF Settled
  <2>6. Increasing(k - 1)'
    <3> SUFFICES ASSUME NEW a \in 0..i, NEW b \in 0..i, a < b
                 PROVE  cnt[a] < cnt[b]
      BY <1>1, <2>2 DEF Increasing
    <3>1. CASE b = i
      <4>1. a \in 0..i - 1
        BY <1>1, <3>1
      <4> QED BY <1>1, <2>2, <3>1, <4>1 DEF Settled
    <3>2. CASE b # i
      BY <1>1, <3>2 DEF Increasing
    <3> QED BY <3>1, <3>2
  <2>7. k' > 1 => Full(k - 2)'
    <3> SUFFICES ASSUME i > 0 PROVE Full(k - 2)'
      BY <2>1, <1>1
    <3>1. i - 1 \in 0..i - 1 /\ k' - 2 = i - 1
      BY <1>1, <2>1
    <3>2. Full(i - 1)
      BY <1>1, <3>1 DEF Settled
    <3> QED BY <1>1, <3>1, <3>2 DEF Full, First
  <2>8. LevelInv'
    BY <1>1, <2>1, <2>2, <2>4, <2>5, <2>6, <2>7 DEF LevelInv
  <2> QED BY <1>1, <2>1, <2>3, <2>8 DEF IInv, NeverCorrupt, PackInv, EditInv
<1>5. CASE cnt[i] < load.n
  <2>1. Settled(i)
    BY <1>5, PageSettles
  <2>2. i < k - 1
    BY <1>1, <1>2, <1>5
  \* neither the cut before nor 0 is reached again
  <2>3. cnt[i] > (IF i > 0 THEN cnt[i - 1] ELSE 0)
    BY <1>1, <1>2, <2>1, FirstRange DEF Settled
  <2>4. i' = i + 1 /\ k' = k /\ pc' = pc
    <3>1. ~(cnt[i] >= load.n) /\ ~(cnt[i] <= (IF i > 0 THEN cnt[i - 1] ELSE 0))
      <4>1. CASE i = 0
        BY <1>2, <1>5, <2>3, <4>1
      <4>2. CASE i > 0
        <5>1. cnt[i - 1] \in 0..load.n
          BY <1>1, <1>2, <4>2, FirstRange
        <5> QED BY <1>2, <1>5, <2>3, <4>2, <5>1
      <4> QED BY <1>1, <4>1, <4>2
    <3> QED BY <3>1 DEF Settle
  <2>5. TypeOK' /\ SizesMatchCuts' /\ cnt'[k' - 1] = load'.n
    BY <1>1, <1>2, <1>3, <2>2, <2>4 DEF TypeOK, SizesMatchCuts
  <2>6. \A j \in 0..i : Settled(j)'
    <3> SUFFICES ASSUME NEW j \in 0..i PROVE Settled(j)'
      OBVIOUS
    <3>1. Settled(j)
      <4>1. CASE j = i
        BY <2>1, <4>1
      <4>2. CASE j # i
        <5>1. j \in 0..i - 1
          BY <1>1, <4>2
        <5> QED BY <1>1, <5>1
      <4> QED BY <4>1, <4>2
    <3>2. j \in 0..k - 1
      BY <1>1, <1>2
    <3> QED BY <1>1, <1>3, <3>1, <3>2 DEF Settled, Full
  <2>7. \A a, b \in 0..i : a < b => cnt[a] < cnt[b]
    <3> SUFFICES ASSUME NEW a \in 0..i, NEW b \in 0..i, a < b
                 PROVE  cnt[a] < cnt[b]
      OBVIOUS
    <3>1. CASE b = i
      <4>1. i > 0 /\ cnt[i - 1] < cnt[i] /\ cnt[i - 1] \in 0..load.n
        BY <1>1, <1>2, <2>3, <3>1, FirstRange
      <4>2. CASE a = i - 1
        BY <3>1, <4>1, <4>2
      <4>3. CASE a # i - 1
        <5>1. a \in 0..i - 1 /\ i - 1 \in 0..i - 1 /\ a < i - 1 /\ a \in Pages
          BY <1>1, <1>2, <3>1, <4>1, <4>3
        <5>2. cnt[a] < cnt[i - 1] /\ cnt[a] \in 0..load.n /\ cnt[i] \in 0..load.n
          BY <1>1, <1>2, <5>1 DEF Increasing
        <5> QED BY <1>2, <3>1, <4>1, <5>2
      <4> QED BY <4>2, <4>3
    <3>2. CASE b # i
      BY <1>1, <3>2 DEF Increasing
    <3> QED BY <3>1, <3>2
  <2>8. PackInv'
    <3>1. i' - 1 = i /\ i' \in 0..k' - 1
      BY <1>1, <1>2, <2>2, <2>4
    <3>2. Increasing(i - 1)'
      BY <1>1, <2>7, <3>1 DEF Increasing
    <3> QED BY <1>1, <2>4, <2>6, <3>1, <3>2 DEF PackInv
  <2> QED BY <1>1, <2>4, <2>5, <2>8 DEF IInv, NeverCorrupt, LevelInv, EditInv
<1> QED BY <1>1, <1>2, <1>4, <1>5

-----------------------------------------------------------------------------
\* What the rebalancing pass knows when it looks at pages i-1 and i.
LEMMA PairFacts ==
  ASSUME IInv, pc = "level", i > 0
  PROVE  /\ i \in 0..k - 1 /\ i - 1 \in 0..k - 2 /\ i \in Pages /\ i - 1 \in Pages
         /\ cnt[i - 1] \in 1..load.n /\ cnt[i - 1] < load.n
         /\ First(cnt, i - 1) \in 0..load.n /\ First(cnt, i - 1) < cnt[i - 1]
         /\ First(cnt, i) = After(cnt[i - 1], load.n)
         /\ sz[i] = Used(i) /\ sz[i - 1] = Used(i - 1)
         /\ Used(i) \in Nat /\ Used(i - 1) \in Nat
         /\ Used(i) <= UsableSpace /\ Used(i - 1) <= UsableSpace
         /\ Used(i) = 0 => ~LeafData /\ i = k - 1 /\ Full(k - 2)
<1>1. /\ TypeOK /\ \A j \in 0..k - 1 : sz[j] = Used(j)
      /\ i \in 0..k - 1 /\ cnt[k - 1] = load.n
      /\ \A j \in 0..k - 1 : Used(j) <= UsableSpace
      /\ \A j \in 0..k - 2 : First(cnt, j) < cnt[j] /\ cnt[j] < load.n
      /\ k > 1 /\ First(cnt, k - 1) = load.n => i = k - 1 /\ Full(k - 2)
  BY DEF IInv, LevelInv, SizesMatchCuts
<1>2. /\ k \in 1..NB + 2 /\ NB \in Nat /\ 0..k - 1 \subseteq Pages
      /\ load.n \in Nat /\ cnt \in [Pages -> 0..load.n]
  BY <1>1, Types
<1>3. i - 1 \in 0..k - 2 /\ i - 1 \in 0..k - 1 /\ i \in Pages /\ i - 1 \in Pages
  BY <1>1, <1>2
<1>4. /\ First(cnt, i - 1) \in 0..load.n /\ First(cnt, i - 1) < cnt[i - 1]
      /\ cnt[i - 1] \in 1..load.n /\ cnt[i - 1] < load.n
      /\ First(cnt, i) = After(cnt[i - 1], load.n)
  <2>1. /\ First(cnt, i - 1) \in 0..load.n /\ First(cnt, i - 1) < cnt[i - 1]
        /\ cnt[i - 1] < load.n /\ cnt[i - 1] \in 0..load.n
    BY <1>1, <1>2, <1>3, FirstRange
  <2>2. First(cnt, i) = After(cnt[i - 1], load.n)
    BY <1>1, <1>3, FirstRange
  <2> QED BY <1>2, <2>1, <2>2
<1>5. /\ Used(i - 1) \in Int /\ Used(i - 1) > 0
      /\ Used(i) \in Int
      /\ Used(i) > 0 <=> First(cnt, i) < cnt[i]
      /\ Used(i) = 0 <=> First(cnt, i) = cnt[i]
      /\ First(cnt, i) \in 0..load.n
  BY <1>1, <1>3, <1>4, UsedRange, FirstRange
<1>6. CASE i = k - 1
  <2>1. cnt[i] = load.n
    BY <1>1, <1>6
  <2>2. Used(i) \in Nat
    BY <1>2, <1>5, <2>1
  <2>3. ASSUME Used(i) = 0 PROVE ~LeafData /\ i = k - 1 /\ Full(k - 2)
    <3>1. First(cnt, k - 1) = load.n /\ k > 1
      BY <1>1, <1>2, <1>5, <1>6, <2>1, <2>3
    <3>2. ~LeafData
      BY <1>2, <1>4, <1>5, <2>1, <2>3 DEF After, Least, Divider
    <3> QED BY <1>1, <1>6, <3>1, <3>2
  <2> QED BY <1>1, <1>3, <1>4, <1>5, <2>2, <2>3
<1>7. CASE i # k - 1
  <2>1. First(cnt, i) < cnt[i]
    BY <1>1, <1>2, <1>7
  <2> QED BY <1>1, <1>3, <1>4, <1>5, <2>1
<1> QED BY <1>6, <1>7

\* Second pass: a cell that moves to the right keeps the invariant.
LEMMA MoveRightStep ==
  ASSUME IInv, MoveRight
  PROVE  IInv'
<1>1. /\ TypeOK /\ cnt[k - 1] = load.n /\ done = {}
      /\ \A j \in 0..k - 1 : sz[j] = Used(j)
      /\ pc = "level" /\ i > 0 /\ ~LevelBreak
      /\ \A j \in 0..k - 1 : Used(j) <= UsableSpace
      /\ \A j \in 0..k - 2 : First(cnt, j) < cnt[j] /\ cnt[j] < load.n
      /\ Increasing(k - 1)
      /\ load' = load /\ k' = k /\ i' = i /\ pc' = pc /\ done' = done
  BY DEF IInv, MoveRight, LevelInv, SizesMatchCuts
<1>2. /\ NB \in Nat /\ load.n \in Nat /\ k \in 1..NB + 2 /\ UsableSpace \in Nat
      /\ cnt \in [Pages -> 0..load.n] /\ sz \in [Pages -> Int]
      /\ 0..k - 1 \subseteq Pages /\ ValidLoad(load)
  BY <1>1, Types DEF TypeOK
<1>17. i \in Int /\ cnt[i - 1] \in Int
  BY <1>1, <1>2, PairFacts
<1>18. PICK m \in Int : m = i - 1
  BY <1>17
<1>19. PICK q \in Int : q = i
  BY <1>17
<1>20. PICK c \in Int : c = cnt[i - 1] - 1
  BY <1>17
<1>3. /\ i \in 0..k - 1 /\ m \in 0..k - 2 /\ i \in Pages /\ m \in Pages /\ m + 1 = i
      /\ cnt[m] \in 1..load.n /\ cnt[m] < load.n
      /\ First(cnt, m) \in 0..load.n /\ First(cnt, m) < cnt[m]
      /\ First(cnt, i) = After(cnt[m], load.n)
      /\ sz[i] = Used(i) /\ sz[m] = Used(m)
      /\ Used(i) \in Nat /\ Used(m) \in Nat
      /\ Used(i) <= UsableSpace /\ Used(m) <= UsableSpace
      /\ Used(i) = 0 => ~LeafData /\ i = k - 1 /\ Full(k - 2)
  BY <1>1, <1>17, <1>18, PairFacts
<1> DEFINE szR == Size(cnt[i - 1] - 1)
           szD == Size(cnt[i - 1] - (1 - Divider))
<1>4. /\ c \in 0..load.n
      /\ szR \in Int /\ szR >= 6 /\ szR <= UsableSpace
      /\ szR = load.P[cnt[m]] - load.P[c]
      /\ szD = load.P[After(cnt[m], load.n)] - load.P[After(c, load.n)]
      /\ ~LeafData => 255 * szR <= 64 * UsableSpace
      /\ load.P[After(cnt[m], load.n)] \in Nat /\ load.P[After(c, load.n)] \in Nat
      /\ load.P[cnt[m]] \in Nat /\ load.P[c] \in Nat
  BY <1>1, <1>2, <1>3, <1>18, <1>20, Crossing
<1>5. /\ szD \in Int /\ szD >= 6 /\ szD <= UsableSpace
      /\ ~LeafData => 255 * szD <= 64 * UsableSpace
  <2>1. CASE LeafData
    <3>1. szD = szR
      BY <1>3, <1>18, <2>1 DEF Divider
    <3> QED BY <1>4, <2>1, <3>1
  <2>2. CASE ~LeafData
    <3>1. cnt[i - 1] - (1 - Divider) = cnt[m]
      BY <1>3, <1>18, <2>2 DEF Divider
    <3>2. szD = load.P[cnt[m] + 1] - load.P[cnt[m]]
          /\ szD \in Int /\ szD >= 6 /\ szD <= UsableSpace
      BY <1>1, <1>2, <1>3, <3>1, SizeRange
    <3>3. cnt[m] + 1 \in 1..load.n
      BY <1>2, <1>3
    <3>4. \A j \in 1..load.n : 255 * (load.P[j] - load.P[j - 1]) <= 64 * UsableSpace
      BY <1>2, <2>2 DEF ValidLoad
    <3>5. 255 * (load.P[cnt[m] + 1] - load.P[cnt[m]]) <= 64 * UsableSpace
      BY <1>3, <3>3, <3>4
    <3> QED BY <3>2, <3>5
  <2> QED BY <2>1, <2>2
<1>6. /\ cnt' = [cnt EXCEPT ![m] = c]
      /\ sz' = [sz EXCEPT ![m] = sz[m] + (-szR), ![m + 1] = sz[m + 1] - (-szD)]
  <2>1. sz' = [sz EXCEPT ![i] = sz[i] + szD, ![i - 1] = sz[i - 1] - szR]
        /\ cnt' = [cnt EXCEPT ![i - 1] = cnt[i - 1] - 1]
    BY <1>2, <1>3, <1>17, <1>18 DEF MoveRight
  <2>2. /\ sz[m] + (-szR) = sz[i - 1] - szR /\ sz[m + 1] - (-szD) = sz[i] + szD
        /\ i # i - 1
    BY <1>3, <1>4, <1>5, <1>18
  <2> QED BY <1>2, <1>3, <1>18, <1>20, <2>1, <2>2
<1>7. /\ cnt' \in [Pages -> 0..load.n] /\ sz' \in [Pages -> Int]
      /\ cnt'[m] = c /\ \A j \in Pages \ {m} : cnt'[j] = cnt[j]
      /\ sz'[m] = sz[m] - szR /\ sz'[i] = sz[i] + szD
      /\ \A j \in Pages \ {m, i} : sz'[j] = sz[j]
      /\ \A j \in 0..k - 1 : sz'[j] = Used(j)'
      /\ \A j \in Pages \ {q} : First(cnt, j)' = First(cnt, j)
      /\ First(cnt, q)' = After(c, load.n)
  <2>1. /\ -szR = load.P[c] - load.P[cnt[m]]
        /\ -szD = load.P[After(c, load.n)] - load.P[After(cnt[m], load.n)]
    BY <1>4, <1>5
  <2>2. sz' = [sz EXCEPT
                 ![m] = sz[m] + (load.P[c] - load.P[cnt[m]]),
                 ![m + 1] = sz[m + 1] - (load.P[After(c, load.n)]
                                           - load.P[After(cnt[m], load.n)])]
    BY <1>6, <2>1
  <2>3. /\ sz' = [sz EXCEPT ![m] = sz[m] - szR, ![i] = sz[i] + szD] /\ m # i
    <3> HIDE DEF szR, szD
    <3>1. /\ m + 1 = i /\ m # i
          /\ sz[m] + (-szR) = sz[m] - szR
          /\ sz[m + 1] - (-szD) = sz[i] + szD
      BY <1>3, <1>4, <1>5, <1>18
    <3>2. sz' = [sz EXCEPT ![m] = sz[m] - szR, ![m + 1] = sz[i] + szD]
      BY <1>6, <3>1
    <3> QED BY <3>1, <3>2
  <2> HIDE DEF szR, szD
  <2>4. /\ cnt' \in [Pages -> 0..load.n] /\ sz' \in [Pages -> Int]
        /\ cnt'[m] = c /\ \A j \in Pages \ {m} : cnt'[j] = cnt[j]
        /\ \A j \in Pages \ {m, m + 1} : sz'[j] = sz[j]
        /\ \A j \in 0..k - 1 : sz'[j] = Used(j)'
        /\ \A j \in Pages \ {m + 1} : First(cnt, j)' = First(cnt, j)
    <3>1. m \in 0..k - 2 /\ c \in 0..load.n /\ cnt' = [cnt EXCEPT ![m] = c]
      BY <1>3, <1>4, <1>6
    <3> QED BY <1>1, <2>2, <3>1, CutMoves
  <2>5. m + 1 = q
    BY <1>3, <1>19
  <2>8. First(cnt, q)' = After(c, load.n)
    BY <1>1, <1>3, <1>19, <2>4, <2>5 DEF First
  <2>9. sz'[m] = sz[m] - szR /\ sz'[i] = sz[i] + szD
    BY <1>2, <1>3, <2>3
  <2> QED BY <1>3, <1>19, <2>4, <2>5, <2>8, <2>9
\* the left page stays the fuller one, or gives up one of three cells
<1>8. sz[m] - szR > 0 /\ sz[i] + szD <= UsableSpace
  <2>1. CASE sz[i] # 0
    <3>1. ~(sz[i] + (szD - 2) + 2 > sz[i - 1] - ((szR - 2) + IF i = k - 1 THEN 0 ELSE 2))
      BY <1>1, <2>1 DEF LevelBreak
    <3> QED BY <1>2, <1>3, <1>4, <1>5, <1>18, <2>1, <3>1
  <2>2. CASE sz[i] = 0
    <3>1. ~LeafData /\ Full(k - 2) /\ k - 2 = m
      BY <1>2, <1>3, <2>2
    <3>2. szD = load.P[cnt[m] + 1] - load.P[cnt[m]] /\ load.P[cnt[m] + 1] \in Nat
      <4>1. cnt[i - 1] - (1 - Divider) = cnt[m]
        BY <1>3, <1>18, <3>1 DEF Divider
      <4> QED BY <1>1, <1>2, <1>3, <4>1, SizeRange
    <3>3. load.P[First(cnt, m)] \in Nat
      BY <1>1, <1>3, UsedRange
    <3>4. load.P[cnt[m] + 1] - load.P[First(cnt, m)] > UsableSpace
      BY <3>1 DEF Full
    <3> QED BY <1>2, <1>3, <1>4, <1>5, <2>2, <3>1, <3>2, <3>3, <3>4 DEF Used
  <2> QED BY <2>1, <2>2
<1> HIDE DEF szR, szD
<1>9. TypeOK'
  BY <1>1, <1>7 DEF TypeOK, Pages
<1>10. SizesMatchCuts' /\ cnt'[k' - 1] = load'.n
  BY <1>1, <1>2, <1>3, <1>7 DEF SizesMatchCuts
<1>11. \A j \in 0..k - 1 : Used(j)' <= UsableSpace
  BY <1>1, <1>2, <1>3, <1>4, <1>5, <1>7, <1>8
<1>12. First(cnt, m)' < c
  <2>1. First(cnt, m)' = First(cnt, m) /\ m \in 0..k - 1
    BY <1>2, <1>3, <1>7, <1>18, <1>19
  <2>2. Used(m)' = load.P[c] - load.P[First(cnt, m)] /\ Used(m)' > 0
    BY <1>1, <1>3, <1>7, <1>8, <2>1 DEF Used
  <2>3. /\ load.P[First(cnt, m)] \in Nat
        /\ c <= First(cnt, m) => load.P[c] <= load.P[First(cnt, m)]
    BY <1>2, <1>3, <1>4, Monotone
  <2> QED BY <1>3, <1>4, <2>1, <2>2, <2>3
<1>13. \A j \in 0..k - 2 : First(cnt, j)' < cnt'[j] /\ cnt'[j] < load.n
  <2> SUFFICES ASSUME NEW j \in 0..k - 2
               PROVE  First(cnt, j)' < cnt'[j] /\ cnt'[j] < load.n
    OBVIOUS
  <2>1. CASE j = m
    BY <1>2, <1>3, <1>7, <1>12, <1>18, <1>20, <2>1
  <2>2. CASE j = q
    <3>1. After(c, load.n) \in 0..load.n /\ After(c, load.n) <= After(cnt[m], load.n)
      <4>1. c \in 0..load.n /\ cnt[m] \in 0..load.n /\ c <= cnt[m]
        BY <1>2, <1>3, <1>4, <1>18, <1>20
      <4>2. load.n \in Nat
        BY <1>2, <1>3
      <4> QED BY <4>1, <4>2, AfterRange
    <3>2. cnt'[j] = cnt[j] /\ First(cnt, j) < cnt[j] /\ cnt[j] < load.n
      BY <1>1, <1>2, <1>3, <1>7, <1>19, <2>2
    <3>3. First(cnt, j) = After(cnt[m], load.n) /\ First(cnt, j)' = After(c, load.n)
      BY <1>3, <1>7, <1>19, <2>2
    <3>4. cnt[j] \in 0..load.n /\ After(cnt[m], load.n) \in 0..load.n
      <4>1. cnt[m] \in 0..load.n
        BY <1>2, <1>3
      <4> QED BY <1>2, <1>3, <1>19, <2>2, <4>1, AfterRange
    <3> QED BY <1>2, <3>1, <3>2, <3>3, <3>4
  <2>3. CASE j # m /\ j # q
    <3>1. cnt'[j] = cnt[j] /\ First(cnt, j)' = First(cnt, j)
      BY <1>2, <1>7, <2>3
    <3> QED BY <1>1, <3>1
  <2> QED BY <2>1, <2>2, <2>3
<1>14. Increasing(k - 1)'
  <2> SUFFICES ASSUME NEW a \in 0..k - 1, NEW b \in 0..k - 1, a < b
               PROVE  cnt'[a] < cnt'[b]
    BY <1>1 DEF Increasing
  <2>1. /\ cnt[a] < cnt[b] /\ cnt[a] \in 0..load.n /\ cnt[b] \in 0..load.n
        /\ a \in Pages /\ b \in Pages
    BY <1>1, <1>2 DEF Increasing
  <2>2. CASE a = m
    BY <1>3, <1>7, <1>18, <1>20, <2>1, <2>2
  <2>3. CASE b = m
    <3>1. m > 0 /\ m - 1 \in 0..k - 1 /\ m - 1 \in Pages /\ a <= m - 1
      BY <1>2, <1>3, <2>3
    <3>2. cnt[m - 1] \in 0..load.n /\ cnt[m - 1] <= First(cnt, m)
      BY <1>1, <1>3, <3>1, FirstRange
    <3>3. cnt[a] <= cnt[m - 1]
      BY <1>1, <2>1, <3>1, <3>2 DEF Increasing
    <3>4. First(cnt, m) < c /\ First(cnt, m) \in 0..load.n
      BY <1>3, <1>7, <1>12, <1>19, <1>18
    <3> QED BY <1>2, <1>4, <1>7, <2>1, <2>3, <3>2, <3>3, <3>4
  <2>4. CASE a # m /\ b # m
    BY <1>7, <2>1, <2>4
  <2> QED BY <2>2, <2>3, <2>4
<1>15. First(cnt', k - 1) # load.n
  <2>1. CASE i = k - 1
    <3>1. Used(q)' > 0 /\ q \in Pages
      BY <1>2, <1>3, <1>5, <1>7, <1>19
    <3>2. After(c, load.n) \in 0..load.n /\ After(c, load.n) # load.n
      <4>1. cnt'[q] = load.n
        BY <1>1, <1>3, <1>7, <1>18, <1>19, <2>1
      <4>2. Used(q)' = load.P[load.n] - load.P[After(c, load.n)]
        BY <1>1, <1>7, <4>1 DEF Used
      <4>3. After(c, load.n) \in 0..load.n
        BY <1>2, <1>4, AfterRange
      <4> QED BY <1>4, <3>1, <4>2, <4>3
    <3>3. First(cnt, q)' = First(cnt', k - 1)
      BY <1>1, <1>19, <2>1 DEF First
    <3> QED BY <1>2, <1>7, <3>2, <3>3
  <2>2. CASE i # k - 1
    <3>1. k - 1 \in Pages /\ k - 1 # q /\ k > 1
      BY <1>2, <1>3, <1>19, <2>2
    <3>2. First(cnt, k - 1) # load.n
      BY <1>1, <2>2, <3>1 DEF IInv, LevelInv
    <3>3. k - 2 \in Pages /\ k - 2 # m
      BY <1>2, <1>3, <1>18, <2>2, <3>1
    <3>4. cnt'[k - 2] = cnt[k - 2]
      BY <1>7, <3>3
    <3>5. k - 1 # 0 /\ k - 1 - 1 = k - 2
      BY <1>2, <3>1
    <3> QED BY <1>1, <3>2, <3>4, <3>5 DEF First
  <2> QED BY <2>1, <2>2
<1>16. LevelInv'
  <2>1. First(cnt, k - 1)' = First(cnt', k' - 1)
    BY <1>1 DEF First
  <2> QED BY <1>1, <1>3, <1>11, <1>13, <1>14, <1>15, <2>1 DEF LevelInv
<1> QED BY <1>1, <1>9, <1>10, <1>16 DEF IInv, NeverCorrupt, PackInv, EditInv

\* Second pass: the invariant carries over to the pair of pages to the left.
LEMMA NextPairStep ==
  ASSUME IInv, NextPair
  PROVE  IInv'
<1>1. /\ TypeOK /\ SizesMatchCuts /\ cnt[k - 1] = load.n /\ done = {}
      /\ pc = "level" /\ i > 0 /\ (cnt[i - 1] <= 0 \/ LevelBreak)
      /\ \A j \in 0..k - 1 : Used(j) <= UsableSpace
      /\ \A j \in 0..k - 2 : First(cnt, j) < cnt[j] /\ cnt[j] < load.n
      /\ Increasing(k - 1)
      /\ k > 1 /\ First(cnt, k - 1) = load.n => i = k - 1 /\ Full(k - 2)
      /\ load' = load /\ cnt' = cnt /\ sz' = sz /\ k' = k /\ done' = done
  BY DEF IInv, NextPair, LevelInv
<1>2. /\ NB \in Nat /\ load.n \in Nat /\ k \in 1..NB + 2
      /\ cnt \in [Pages -> 0..load.n]
  BY <1>1, Types
<1>3. /\ i \in 0..k - 1 /\ i - 1 \in 0..k - 2 /\ i \in Pages /\ i - 1 \in Pages
      /\ cnt[i - 1] \in 1..load.n /\ cnt[i - 1] < load.n
      /\ sz[i] = Used(i) /\ First(cnt, i) = After(cnt[i - 1], load.n)
      /\ First(cnt, i - 1) < cnt[i - 1] /\ First(cnt, i - 1) \in 0..load.n
  BY <1>1, PairFacts
\* the right page has got a cell if it had none
<1>4. sz[i] # 0
  BY <1>1, <1>3 DEF LevelBreak
<1>5. k > 1 => First(cnt, k - 1) # load.n
  <2> SUFFICES ASSUME k > 1, First(cnt, k - 1) = load.n PROVE FALSE
    OBVIOUS
  <2>1. i = k - 1 /\ cnt[i] = load.n /\ First(cnt, i) = cnt[i]
    BY <1>1
  <2> QED BY <1>1, <1>3, <1>4, <2>1, UsedRange
<1>6. cnt[i - 1] > (IF i > 1 THEN cnt[i - 2] ELSE 0)
  <2>1. CASE i > 1
    <3>1. i - 1 > 0 /\ i - 1 - 1 = i - 2
      BY <1>3, <2>1
    <3>2. cnt[i - 2] \in 0..load.n /\ cnt[i - 2] <= First(cnt, i - 1)
      BY <1>1, <1>3, <3>1, FirstRange
    <3> QED BY <1>2, <1>3, <2>1, <3>2
  <2>2. CASE ~(i > 1)
    BY <1>3, <2>2
  <2> QED BY <2>1, <2>2
<1>7. pc' = pc /\ i' = i - 1
  <2>1. ~(cnt[i - 1] <= (IF i > 1 THEN cnt[i - 2] ELSE 0))
    <3>1. CASE i > 1
      <4>1. i - 2 \in Pages
        BY <1>2, <1>3, <3>1 DEF Pages
      <4> QED BY <1>2, <1>3, <1>6, <3>1, <4>1
    <3>2. CASE ~(i > 1)
      BY <1>3, <1>6, <3>2
    <3> QED BY <3>1, <3>2
  <2> QED BY <2>1 DEF NextPair
<1>8. TypeOK'
  BY <1>1, <1>2, <1>3, <1>7 DEF TypeOK
<1>9. SizesMatchCuts'
  BY <1>1, <1>7 DEF SizesMatchCuts, Used, First
<1>10. LevelInv'
  <2>1. \A j \in 0..k - 1 : Used(j)' <= UsableSpace
    BY <1>1 DEF Used, First
  <2>2. \A j \in 0..k - 2 : First(cnt, j)' < cnt'[j] /\ cnt'[j] < load'.n
    BY <1>1 DEF First
  <2>3. Increasing(k - 1)'
    BY <1>1 DEF Increasing
  <2>4. k' > 1 => First(cnt', k' - 1) # load.n
    BY <1>1, <1>5
  <2>5. First(cnt, k - 1)' = First(cnt, k - 1)
    BY <1>1 DEF First
  <2>6. i' \in 0..k' - 1
    BY <1>1, <1>2, <1>3, <1>7
  <2> QED BY <1>1, <1>5, <1>7, <2>1, <2>2, <2>3, <2>5, <2>6 DEF LevelInv
<1> QED BY <1>1, <1>7, <1>8, <1>9, <1>10 DEF IInv, NeverCorrupt, PackInv, EditInv

\* The cuts are final, the rewriting of the pages begins, and the invariant holds.
LEMMA LeveledStep ==
  ASSUME IInv, Leveled
  PROVE  IInv'
<1>1. /\ TypeOK /\ SizesMatchCuts /\ cnt[k - 1] = load.n /\ done = {}
      /\ i = 0 /\ pc' = "edit" /\ i' = 1 - k
      /\ \A j \in 0..k - 1 : Used(j) <= UsableSpace
      /\ \A j \in 0..k - 2 : First(cnt, j) < cnt[j] /\ cnt[j] < load.n
      /\ Increasing(k - 1)
      /\ k > 1 /\ First(cnt, k - 1) = load.n => i = k - 1 /\ Full(k - 2)
      /\ load' = load /\ cnt' = cnt /\ sz' = sz /\ k' = k /\ done' = done
      /\ pc = "level"
  BY DEF IInv, Leveled, LevelInv
<1>2. /\ NB \in Nat /\ load.n \in Nat /\ k \in 1..NB + 2
      /\ cnt \in [Pages -> 0..load.n] /\ 0..k - 1 \subseteq Pages
  BY <1>1, Types
<1>3. TypeOK' /\ SizesMatchCuts'
  BY <1>1, <1>2 DEF TypeOK, SizesMatchCuts, Used, First
<1>4. \A j \in 0..k - 1 : load.n > 0 => First(cnt, j) < cnt[j]
  <2> SUFFICES ASSUME NEW j \in 0..k - 1, load.n > 0 PROVE First(cnt, j) < cnt[j]
    OBVIOUS
  <2>1. CASE j < k - 1
    BY <1>1, <1>2, <2>1
  <2>2. CASE j = k - 1 /\ k > 1
    <3>1. First(cnt, k - 1) # load.n /\ cnt[k - 1] = load.n
      BY <1>1, <1>2, <2>2
    <3>2. First(cnt, k - 1) \in 0..load.n
      BY <1>1, <1>2, <2>2, FirstRange
    <3> QED BY <1>2, <2>2, <3>1, <3>2
  <2>3. CASE j = k - 1 /\ k = 1
    BY <1>1, <1>2, <2>3 DEF First
  <2> QED BY <1>2, <2>1, <2>2, <2>3
<1>5. EditInv'
  <2>1. DoneAt' = {}
    BY <1>1, <1>2 DEF DoneAt
  <2>2. \A j \in 0..k - 1 : Used(j)' <= UsableSpace
    BY <1>1 DEF Used, First
  <2>3. \A j \in 0..k - 1 : load'.n > 0 => First(cnt, j)' < cnt'[j]
    BY <1>1, <1>4 DEF First
  <2>4. Increasing(k - 1)'
    BY <1>1 DEF Increasing
  <2>5. i' \in 1 - k'..k'
    BY <1>1, <1>2
  <2> QED BY <1>1, <2>1, <2>2, <2>3, <2>4, <2>5 DEF EditInv
<1> QED BY <1>1, <1>3, <1>5 DEF IInv, NeverCorrupt, PackInv, LevelInv

\* Rewriting a page and passing over one: DoneAt says which it was.
LEMMA EditStep ==
  ASSUME IInv, EditPage \/ SkipPage \/ Edited
  PROVE  IInv'
<1>1. /\ TypeOK /\ SizesMatchCuts /\ cnt[k - 1] = load.n
      /\ pc = "edit" /\ pc' \in {"edit", "done"}
      /\ \A j \in 0..k - 1 : Used(j) <= UsableSpace
      /\ \A j \in 0..k - 1 : load.n > 0 => First(cnt, j) < cnt[j]
      /\ Increasing(k - 1)
      /\ done = DoneAt /\ i \in 1 - k..k
      /\ load' = load /\ cnt' = cnt /\ sz' = sz /\ k' = k
  BY DEF IInv, EditPage, SkipPage, Edited, EditInv
<1>2. /\ NB \in Nat /\ load.n \in Nat /\ k \in 1..NB + 2
      /\ cnt \in [Pages -> 0..load.n] /\ 0..k - 1 \subseteq Pages /\ i \in Int
  BY <1>1, Types
<1>3. /\ \A j \in 0..k - 1 : Used(j)' <= UsableSpace
      /\ \A j \in 0..k - 1 : load'.n > 0 => First(cnt, j)' < cnt'[j]
      /\ Increasing(k - 1)'
      /\ SizesMatchCuts'
  <2>1. \A j \in 0..k - 1 : First(cnt, j)' = First(cnt, j) /\ Used(j)' = Used(j)
    BY <1>1 DEF Used, First
  <2>2. Increasing(k - 1)'
    BY <1>1 DEF Increasing
  <2> QED BY <1>1, <2>1, <2>2 DEF SizesMatchCuts
<1>4. CASE Edited
  <2>1. i' = i /\ done' = done /\ i = k /\ pc' = "done"
    BY <1>4 DEF Edited
  <2>2. DoneAt' = DoneAt
    BY <1>1, <2>1 DEF DoneAt
  <2>3. TypeOK'
    BY <1>1, <2>1 DEF TypeOK
  <2> QED BY <1>1, <1>2, <1>3, <2>1, <2>2, <2>3
          DEF IInv, NeverCorrupt, PackInv, LevelInv, EditInv
<1>5. CASE EditPage \/ SkipPage
  <2>1. i' = i + 1 /\ i < k /\ pc' = "edit"
    BY <1>1, <1>5 DEF EditPage, SkipPage
  <2>2. Page \in 0..k - 1 /\ Page = (IF i < 0 THEN -i ELSE i) /\ (i < 0 => Page >= 1)
    BY <1>1, <1>2, <2>1 DEF Page
  <2>3. done' = IF MayEdit THEN done \cup {Page} ELSE done
    BY <1>5 DEF EditPage, SkipPage
  <2>4. ASSUME NEW p \in 0..k - 1
        PROVE  p \in done' <=> p \in DoneAt'
    <3>1. p \in DoneAt <=> \/ p < i
                           \/ p >= 1 /\ -p < i /\ load.old[p - 1] >= cnt[p - 1]
      BY DEF DoneAt
    <3>2. p \in DoneAt' <=> \/ p < i + 1
                            \/ p >= 1 /\ -p < i + 1 /\ load.old[p - 1] >= cnt[p - 1]
      BY <1>1, <2>1 DEF DoneAt
    <3>3. CASE p # Page
      <4>1. p # i /\ p # -i
        BY <1>2, <2>2, <3>3, <1>1
      <4> QED BY <1>1, <1>2, <2>3, <3>1, <3>2, <3>3, <4>1
    <3>4. CASE p = Page /\ i >= 0
      BY <1>1, <1>2, <2>2, <2>3, <3>1, <3>2, <3>4 DEF MayEdit
    <3>5. CASE p = Page /\ i < 0
      <4>1. p = -i /\ p >= 1 /\ p \notin DoneAt
        BY <1>2, <2>2, <3>1, <3>5
      <4>2. p \in done' <=> load.old[p - 1] >= cnt[p - 1]
        BY <1>1, <2>3, <3>5, <4>1 DEF MayEdit, Cond1
      <4> QED BY <1>2, <3>2, <4>1, <4>2
    <3> QED BY <1>2, <3>3, <3>4, <3>5
  <2>5. done' \subseteq 0..k - 1 /\ DoneAt' \subseteq 0..k - 1
    <3>1. DoneAt \subseteq 0..k - 1 /\ DoneAt' \subseteq 0..k - 1
      BY <1>1 DEF DoneAt
    <3> QED BY <1>1, <2>2, <2>3, <3>1
  <2>6. done' = DoneAt'
    BY <2>4, <2>5
  <2>7. TypeOK'
    BY <1>1, <1>2, <2>1, <2>5 DEF TypeOK
  <2>8. i' \in 1 - k'..k'
    BY <1>1, <1>2, <2>1
  <2> QED BY <1>1, <1>3, <2>1, <2>6, <2>7, <2>8
          DEF IInv, NeverCorrupt, PackInv, LevelInv, EditInv
<1> QED BY <1>4, <1>5

\* The invariant is one of the state: a step that changes nothing keeps it.
LEMMA StutterStep ==
  ASSUME IInv, UNCHANGED vars
  PROVE  IInv'
BY DEF vars, IInv, TypeOK, SizesMatchCuts, NeverCorrupt, PackInv, LevelInv, EditInv,
       Used, First, Settled, Full, Increasing, DoneAt

\* The inductive invariant holds in every state of the routine: what the
\* theorems below are read off from.
THEOREM Invariance == Spec => []IInv
<1>1. IInv /\ [Next]_vars => IInv'
  <2> SUFFICES ASSUME IInv, [Next]_vars PROVE IInv'
    OBVIOUS
  <2>1. CASE Shrink          BY <2>1, ShrinkStep
  <2>2. CASE Grow            BY <2>2, GrowStep
  <2>3. CASE Settle          BY <2>3, SettleStep
  <2>4. CASE MoveRight       BY <2>4, MoveRightStep
  <2>5. CASE NextPair        BY <2>5, NextPairStep
  <2>6. CASE Leveled         BY <2>6, LeveledStep
  <2>7. CASE EditPage \/ SkipPage \/ Edited
    BY <2>7, EditStep
  <2>8. CASE UNCHANGED vars  BY <2>8, StutterStep
  <2> QED BY <2>1, <2>2, <2>3, <2>4, <2>5, <2>6, <2>7, <2>8 DEF Next
<1> QED BY InitInv, <1>1, PTL DEF Spec

-----------------------------------------------------------------------------
\* The variables keep their types, so no array of balance_nonroot() is
\* indexed out of its bounds.
THEOREM TypeCorrect == Spec => []TypeOK
<1>1. IInv => TypeOK
  BY DEF IInv
<1> QED BY Invariance, <1>1, PTL

\* szNew[], kept up to date incrementally, is the space really used: the
\* nFree that the rewritten pages get from it is right.
THEOREM SizesAreExact == Spec => []SizesMatchCuts
<1>1. IInv => SizesMatchCuts
  BY DEF IInv
<1> QED BY Invariance, <1>1, PTL

\* The redistribution of well-formed siblings is never taken for corruption:
\* NB+2 pages are enough and every cut lies to the right of the one before.
THEOREM NoFalseCorruption == Spec => []NeverCorrupt
<1>1. IInv => NeverCorrupt
  BY DEF IInv
<1> QED BY Invariance, <1>1, PTL

\* Every cell is dealt, no page is overfull and none is empty.
THEOREM EveryPageFits == Spec => []PagesFit
<1>1. IInv => PagesFit
  BY DEF IInv, EditInv, PagesFit
<1> QED BY Invariance, <1>1, PTL

\* The two passes over the pages rewrite all of them.
THEOREM EveryPageEdited == Spec => []AllEdited
<1> SUFFICES IInv => AllEdited
  BY Invariance, PTL
<1>1. SUFFICES ASSUME IInv, pc = "done" PROVE done = 0..k - 1
  BY DEF AllEdited
<1>2. i = k /\ done = DoneAt /\ k \in Nat
  BY <1>1, Types DEF IInv, EditInv
<1> QED BY <1>2 DEF DoneAt

\* The order of rewriting: a cell that page p takes over from the old page q
\* keeps q from being rewritten first.  If q lies to the left, cells move
\* right across the cut before p, and p was rewritten on the way down; if q
\* lies to the right, cells move left across the cut before q, and q has to
\* wait for the way up.
THEOREM CellsAreReadFirst == Spec => ReadBeforeOverwrite
<1>1. ASSUME IInv, [Next]_vars
      PROVE  [\A p \in done' \ done : TakesFrom(p) \cap done = {}]_vars
  <2> SUFFICES ASSUME Next, NEW p \in done' \ done, NEW q \in TakesFrom(p), q \in done
               PROVE  FALSE
    BY <1>1 DEF vars
  <2>1. EditPage
    BY <1>1 DEF Next, Shrink, Grow, Settle, MoveRight, NextPair, Leveled, SkipPage,
                Edited, IInv
  <2>2. /\ p = Page /\ Page \notin done /\ (i < 0 => Cond1)
        /\ i < k /\ pc = "edit"
    BY <2>1 DEF EditPage, MayEdit
  <2>3. /\ TypeOK /\ i \in 1 - k..k /\ done = DoneAt /\ Increasing(k - 1)
        /\ cnt[k - 1] = load.n
    BY <1>1, <2>2 DEF IInv, EditInv
  <2>4. /\ NB \in Nat /\ load.n \in Nat /\ k \in 1..NB + 2 /\ i \in Int
        /\ cnt \in [Pages -> 0..load.n] /\ 0..k - 1 \subseteq Pages
        /\ ValidLoad(load) /\ Divider \in {0, 1}
    BY <2>3, Types DEF TypeOK
  <2>5. /\ load.nOld \in 1..NB /\ load.old \in [0..NB + 1 -> 0..load.n]
        /\ \A a, b \in 0..load.nOld - 1 : a < b => load.old[a] + Divider <= load.old[b]
        /\ \A j \in load.nOld - 1..NB + 1 : load.old[j] = load.n
    BY <2>4 DEF ValidLoad
  <2>6. p \in 0..k - 1 /\ p = (IF i < 0 THEN -i ELSE i) /\ (i < 0 => p >= 1)
    BY <2>2, <2>3, <2>4 DEF Page
  <2>7. /\ q \in 0..load.nOld - 1 /\ q # p /\ q \in 0..k - 1
        /\ \/ q < i
           \/ q >= 1 /\ -q < i /\ load.old[q - 1] >= cnt[q - 1]
    BY <2>3 DEF TakesFrom, DoneAt
  <2>11. \A j \in 0..NB + 1 : load.old[j] \in 0..load.n /\ load.old[j] \in Int
    BY <2>4, <2>5
  <2>12. load.nOld \in Int /\ NB \in Int /\ q \in 0..NB + 1 /\ q \in Int
    BY <2>4, <2>5, <2>7
  <2>8. PICK c \in 0..load.n - 1 :
          /\ First(load.old, q) <= c /\ c < load.old[q]
          /\ First(cnt, p) <= c /\ c < cnt[p]
    BY DEF TakesFrom
  <2>9. CASE q < p
    <3>1. p >= 1 /\ p - 1 \in 0..k - 1 /\ p - 1 \in 0..NB + 1 /\ q <= p - 1
      BY <2>4, <2>6, <2>7, <2>9
    <3>2. cnt[p - 1] <= c
      <4>1. cnt[p - 1] \in 0..load.n /\ cnt[p - 1] <= First(cnt, p)
            /\ First(cnt, p) \in 0..load.n
        BY <2>3, <2>4, <2>6, <3>1, FirstRange
      <4> QED BY <2>4, <2>8, <4>1
    <3>3. load.old[q] <= load.old[p - 1]
      <4>1. CASE p - 1 <= load.nOld - 1
        <5>1. CASE q = p - 1
          BY <2>11, <3>1, <5>1
        <5>2. CASE q # p - 1
          <6>1. p - 1 \in 0..load.nOld - 1 /\ q < p - 1
            BY <2>12, <3>1, <4>1, <5>2
          <6>2. load.old[q] + Divider <= load.old[p - 1]
            BY <2>5, <2>7, <6>1
          <6> QED BY <2>4, <2>11, <2>12, <3>1, <6>2
        <5> QED BY <5>1, <5>2
      <4>2. CASE p - 1 > load.nOld - 1
        <5>1. load.old[p - 1] = load.n /\ load.old[q] \in 0..load.n
          <6>1. p - 1 \in load.nOld - 1..NB + 1
            BY <2>12, <3>1, <4>2
          <6> QED BY <2>5, <2>11, <2>12, <6>1
        <5> QED BY <2>4, <5>1
      <4> QED BY <2>12, <3>1, <4>1, <4>2
    <3>4. load.old[p - 1] > cnt[p - 1]
      <4>1. load.old[q] \in 0..load.n /\ load.old[p - 1] \in 0..load.n
            /\ cnt[p - 1] \in 0..load.n
        <5>1. p - 1 \in Pages
          BY <2>4, <3>1
        <5> QED BY <2>4, <2>11, <2>12, <3>1, <5>1
      <4> QED BY <2>8, <3>2, <3>3, <4>1
    <3>5. i >= 0 /\ i = p
      BY <2>4, <2>6, <2>7, <2>9
    \* on the way up p would be among the pages already done
    <3>6. p \in DoneAt
      <4>1. cnt[p - 1] \in 0..load.n /\ load.old[p - 1] \in 0..load.n
        <5>1. p - 1 \in Pages
          BY <2>4, <3>1
        <5> QED BY <2>4, <2>11, <3>1, <5>1
      <4>2. -p < i /\ load.old[p - 1] >= cnt[p - 1]
        BY <3>1, <3>4, <3>5, <2>6, <4>1
      <4> QED BY <2>6, <3>1, <4>2 DEF DoneAt
    <3> QED BY <2>2, <2>3, <3>6
  <2>10. CASE q > p
    <3>1. ~(q < i) /\ q >= 1 /\ load.old[q - 1] >= cnt[q - 1]
          /\ q - 1 \in 0..k - 1 /\ q - 1 \in 0..NB + 1 /\ p <= q - 1
      BY <2>4, <2>6, <2>7, <2>10
    <3>2. cnt[p] <= cnt[q - 1] /\ cnt[p] \in 0..load.n /\ cnt[q - 1] \in 0..load.n
      <4>1. p \in Pages /\ q - 1 \in Pages
        BY <2>4, <2>6, <3>1
      <4>2. cnt[p] \in 0..load.n /\ cnt[q - 1] \in 0..load.n
        BY <2>4, <4>1
      <4>3. p = q - 1 \/ cnt[p] < cnt[q - 1]
        BY <2>3, <2>4, <2>6, <3>1 DEF Increasing
      <4> QED BY <4>2, <4>3
    <3>3. First(load.old, q) = After(load.old[q - 1], load.n)
          /\ load.old[q - 1] \in 0..load.n
      BY <2>11, <2>12, <3>1 DEF First
    <3>4. load.old[q - 1] <= c
      <4>1. load.old[q - 1] <= After(load.old[q - 1], load.n)
            /\ After(load.old[q - 1], load.n) \in 0..load.n
        BY <2>4, <3>3, AfterRange
      <4> QED BY <2>8, <3>3, <4>1
    <3> QED BY <2>8, <3>1, <3>2, <3>3, <3>4
  <2> QED BY <2>6, <2>7, <2>9, <2>10
<1> QED BY Invariance, <1>1, PTL DEF Spec, ReadBeforeOverwrite

-----------------------------------------------------------------------------
(* The loops compute what CellCuts defines. *)

\* The highest place of a set of cuts is one of them, and none is higher.
LEMMA HighestIs ==
  ASSUME NEW n \in Nat, NEW S \in SUBSET (0..n), S # {}
  PROVE  Highest(S) \in S /\ \A y \in S : y <= Highest(S)
<1>1. Max(S) \in S /\ \A y \in S : y <= Max(S)
  BY MaxOfUpTo
<1>2. QED
  BY <1>1 DEF Highest

\* A list of the values of a function is that function.
LEMMA ListedIs ==
  ASSUME NEW n \in Nat, NEW V, NEW f \in [0..n -> V]
  PROVE  Listed(f, n) = f
<1> DEFINE w == [x \in 1..n + 1 |-> f[x - 1]]
<1>1. w \in Seq(V) /\ Len(w) = n + 1 /\ \A x \in 1..n + 1 : w[x] = f[x - 1]
  OBVIOUS
<1> HIDE DEF w
<1>2. /\ Len(SubSeq(w, 1, n + 1)) = n + 1
      /\ \A x \in 1..n + 1 : SubSeq(w, 1, n + 1)[x] = w[x]
  BY <1>1
<1>3. \A j \in 0..n : SubSeq(w, 1, n + 1)[j + 1] = f[j]
  BY <1>1, <1>2
<1>4. Listed(f, n) = [j \in 0..n |-> SubSeq(w, 1, n + 1)[j + 1]]
  BY DEF Listed, w
<1>5. QED
  BY <1>3, <1>4

\* The cuts of the first pass, page by page.
GreedyTable(g, P, n, u, div, m) ==
  g = [j \in 0..m |->
         LET start == IF j = 0 THEN 0 ELSE Beyond(g[j - 1], n, div)
         IN Highest({c \in 0..n : P[c] - P[start] <= u})]

\* There are such cuts for every number of pages: the smallest for which there were
\* none would follow one for which there are.
LEMMA GreedyTableExists ==
  ASSUME NEW P, NEW n \in Nat, NEW u, NEW div, NEW m \in Nat
  PROVE  \E g : GreedyTable(g, P, n, u, div, m)
<1> DEFINE Cut(s) == Highest({c \in 0..n : P[c] - P[s] <= u})
           Fails == {q \in Nat : ~\E g : GreedyTable(g, P, n, u, div, q)}
<1> SUFFICES ASSUME Fails # {}
             PROVE  FALSE
  BY DEF Fails
<1>1. PICK q \in Fails : \A x \in Fails : q <= x
  <2>1. Fails \in SUBSET Nat
    OBVIOUS
  <2> HIDE DEF Fails
  <2>2. QED
    BY <2>1, MinOfNat
<1>2. GreedyTable([j \in 0..0 |-> Cut(0)], P, n, u, div, 0)
  BY DEF GreedyTable
<1>3. q \in Nat \ {0}
  BY <1>2
<1>4. q - 1 \in Nat /\ q - 1 \notin Fails
  BY <1>1, <1>3
<1>5. PICK g : GreedyTable(g, P, n, u, div, q - 1)
  BY <1>4
<1> DEFINE of(f, j) == Cut(IF j = 0 THEN 0 ELSE Beyond(f[j - 1], n, div))
           h == [j \in 0..q |-> IF j = q THEN of(g, q) ELSE g[j]]
<1>6. GreedyTable(h, P, n, u, div, q)
  <2> HIDE DEF Cut
  <2>1. \A j \in 0..q - 1 : g[j] = of(g, j)
    BY <1>5 DEF GreedyTable, Cut
  <2>2. h[q] = of(h, q)
    BY <1>3
  <2>3. \A j \in 0..q - 1 : h[j] = of(h, j)
    BY <2>1, <1>3
  <2>4. h = [j \in 0..q |-> h[j]]
    OBVIOUS
  <2> HIDE DEF h, of
  <2>5. \A j \in 0..q : h[j] = of(h, j)
    BY <2>2, <2>3, <1>3
  <2>6. h = [j \in 0..q |-> of(h, j)]
    BY <2>4, <2>5
  <2>7. QED
    BY <2>6 DEF GreedyTable, of, Cut
<1>7. QED
  BY <1>1, <1>6

\* The cuts of the first pass are a list of such a table.
LEMMA GreedyUnfolds ==
  ASSUME NEW P, NEW n \in Nat, NEW u, NEW div, NEW pages, pages - 1 \in Nat
  PROVE  \E g : /\ GreedyTable(g, P, n, u, div, pages - 1)
               /\ GreedyCuts(P, n, u, div, pages) = Listed(g, pages - 1)
<1> DEFINE G == CHOOSE g : GreedyTable(g, P, n, u, div, pages - 1)
<1>1. GreedyTable(G, P, n, u, div, pages - 1)
  BY GreedyTableExists
<1>2. GreedyCuts(P, n, u, div, pages) = Listed(G, pages - 1)
  BY DEF GreedyCuts, GreedyTable
<1>3. QED
  BY <1>1, <1>2

\* What the first pass should compute.
Greedy == GreedyCuts(load.P, load.n, UsableSpace, Divider, NB + 2)

\* Beyond and After are one: the divider at a cut is left out.
LEMMA BeyondIs ==
  ASSUME NEW n \in Nat, NEW c \in 0..n
  PROVE  Beyond(c, n, Divider) = After(c, n)
BY DEF Beyond, After, Least, Divider

\* Every page in its turn takes all it can hold.
LEMMA GreedyIs ==
  ASSUME TypeOK
  PROVE  \A j \in Pages :
           /\ Greedy[j] \in 0..load.n
           /\ First(Greedy, j) \in 0..load.n
           /\ Greedy[j] = Highest({c \in 0..load.n :
                            load.P[c] - load.P[First(Greedy, j)] <= UsableSpace})
<1> DEFINE n == load.n
<1>1. n \in Nat /\ NB \in Nat /\ UsableSpace \in Nat /\ ValidLoad(load) /\ Divider \in {0, 1}
  BY Types DEF TypeOK
<1>2. NB + 2 - 1 = NB + 1 /\ NB + 1 \in Nat
  BY <1>1
<1>3. PICK G : /\ GreedyTable(G, load.P, n, UsableSpace, Divider, NB + 1)
               /\ Greedy = Listed(G, NB + 1)
  BY <1>1, <1>2, GreedyUnfolds DEF Greedy
<1> DEFINE from(j) == IF j = 0 THEN 0 ELSE Beyond(G[j - 1], n, Divider)
           fit(s) == {c \in 0..n : load.P[c] - load.P[s] <= UsableSpace}
<1>4. Greedy = G
  <2>1. G = [j \in 0..NB + 1 |-> Highest(fit(from(j)))]
    BY <1>3 DEF GreedyTable
  <2> HIDE DEF fit, from
  <2>2. G \in [0..NB + 1 -> {Highest(fit(from(j))) : j \in 0..NB + 1}]
    BY <2>1
  <2> DEFINE V == {Highest(fit(from(j))) : j \in 0..NB + 1}
  <2> HIDE DEF V
  <2>3. G \in [0..NB + 1 -> V] /\ NB + 1 \in Nat
    BY <2>2, <1>1 DEF V
  <2>4. QED
    BY <2>3, <1>3, ListedIs
<1>5. \A j \in 0..NB + 1 : G[j] = Highest(fit(from(j)))
  BY <1>3 DEF GreedyTable
<1>6. ASSUME NEW s \in 0..n
      PROVE  Highest(fit(s)) \in 0..n
  <2>1. load.P[s] \in Nat
    BY <1>1, Monotone
  <2>2. s \in fit(s) /\ fit(s) \in SUBSET (0..n)
    BY <2>1, <1>1
  <2> HIDE DEF fit
  <2>3. QED
    BY <2>2, <1>1, HighestIs
<1> HIDE DEF n
<1> DEFINE Bad == {j \in 0..NB + 1 : from(j) \notin 0..n}
<1>7. Bad = {}
  <2> SUFFICES ASSUME Bad # {}
               PROVE  FALSE
    OBVIOUS
  <2>1. PICK j \in Bad : \A x \in Bad : j <= x
    <3>1. Bad \in SUBSET Nat
      BY <1>1
    <3> HIDE DEF Bad
    <3>2. QED
      BY <3>1, MinOfNat
  <2>2. j # 0 /\ j - 1 \in 0..NB + 1 /\ j - 1 \notin Bad
    BY <2>1, <1>1
  <2>3. G[j - 1] \in 0..n
    <3>1. from(j - 1) \in 0..n
      BY <2>2
    <3> HIDE DEF from, fit
    <3>2. QED
      BY <3>1, <2>2, <1>5, <1>6
  <2>4. from(j) \in 0..n
    BY <2>2, <2>3, <1>1 DEF Beyond
  <2>5. QED
    BY <2>4
<1>8. ASSUME NEW j \in Pages
      PROVE  /\ Greedy[j] \in 0..n /\ First(Greedy, j) \in 0..n
             /\ Greedy[j] = Highest(fit(First(Greedy, j)))
  <2>1. j \in 0..NB + 1
    BY DEF Pages
  <2>2. from(j) \in 0..n /\ G[j] = Highest(fit(from(j)))
    BY <2>1, <1>5, <1>7
  <2>3. G[j] \in 0..n
    <3> HIDE DEF from, fit
    <3>1. QED
      BY <2>2, <1>6
  <2>4. First(G, j) = from(j)
    <3>1. CASE j = 0
      BY <3>1 DEF First
    <3>2. CASE j # 0
      <4>1. j - 1 \in 0..NB + 1
        BY <2>1, <3>2, <1>1
      <4>5. from(j - 1) \in 0..n /\ G[j - 1] = Highest(fit(from(j - 1)))
        <5> HIDE DEF from, fit
        <5>1. QED
          BY <4>1, <1>5, <1>7
      <4>2. G[j - 1] \in 0..n
        <5> HIDE DEF from, fit
        <5>1. QED
          BY <4>5, <1>6
      <4>3. Beyond(G[j - 1], n, Divider) = After(G[j - 1], n)
        BY <4>2, <1>1, BeyondIs
      <4>4. QED
        BY <3>2, <4>3 DEF First, n
    <3>3. QED
      BY <3>1, <3>2
  <2> HIDE DEF from, fit
  <2>5. QED
    BY <2>2, <2>3, <2>4, <1>4
<1>9. QED
  BY <1>8 DEF n

\* A cut that is in a set of cuts and has none of them above it is the highest.
LEMMA HighestOne ==
  ASSUME NEW n \in Nat, NEW S \in SUBSET (0..n), NEW c \in S, \A y \in S : y <= c
  PROVE  Highest(S) = c
<1>1. Highest(S) \in S /\ \A y \in S : y <= Highest(S)
  BY HighestIs
<1>2. Highest(S) <= c /\ c <= Highest(S)
  BY <1>1
<1>4. Highest(S) \in 0..n /\ c \in 0..n
  BY <1>1
<1>3. QED
  BY <1>2, <1>4

\* The second pass from the right, m pages before the last.
LevelTable(h, P, n, div, bulk, g, kk, m) ==
  h = [x \in 0..m |->
         IF x = 0 THEN n
         ELSE Highest({c \in 0..g[kk - 1 - x] :
                c = 0 \/ Rests(P, n, div, bulk, g, kk, c, h[x - 1], kk - 1 - x)})]

\* There is such a table for every number of pages.
LEMMA LevelTableExists ==
  ASSUME NEW P, NEW n, NEW div, NEW bulk, NEW g, NEW kk, NEW m \in Nat
  PROVE  \E h : LevelTable(h, P, n, div, bulk, g, kk, m)
<1> DEFINE Cut(x, right) ==
             Highest({c \in 0..g[kk - 1 - x] :
                c = 0 \/ Rests(P, n, div, bulk, g, kk, c, right, kk - 1 - x)})
           Fails == {q \in Nat : ~\E h : LevelTable(h, P, n, div, bulk, g, kk, q)}
<1> SUFFICES ASSUME Fails # {}
             PROVE  FALSE
  BY DEF Fails
<1>1. PICK q \in Fails : \A x \in Fails : q <= x
  <2>1. Fails \in SUBSET Nat
    OBVIOUS
  <2> HIDE DEF Fails
  <2>2. QED
    BY <2>1, MinOfNat
<1>2. LevelTable([x \in 0..0 |-> n], P, n, div, bulk, g, kk, 0)
  BY DEF LevelTable
<1>3. q \in Nat \ {0}
  BY <1>2
<1>4. q - 1 \in Nat /\ q - 1 \notin Fails
  BY <1>1, <1>3
<1>5. PICK f : LevelTable(f, P, n, div, bulk, g, kk, q - 1)
  BY <1>4
<1> DEFINE of(t, x) == IF x = 0 THEN n ELSE Cut(x, t[x - 1])
           h == [x \in 0..q |-> IF x = q THEN of(f, q) ELSE f[x]]
<1>6. LevelTable(h, P, n, div, bulk, g, kk, q)
  <2> HIDE DEF Cut
  <2>1. \A x \in 0..q - 1 : f[x] = of(f, x)
    BY <1>5 DEF LevelTable, Cut
  <2>2. h[q] = of(h, q)
    BY <1>3
  <2>3. \A x \in 0..q - 1 : h[x] = of(h, x)
    BY <2>1, <1>3
  <2>4. h = [x \in 0..q |-> h[x]]
    OBVIOUS
  <2> HIDE DEF h, of
  <2>5. \A x \in 0..q : h[x] = of(h, x)
    BY <2>2, <2>3, <1>3
  <2>6. h = [x \in 0..q |-> of(h, x)]
    BY <2>4, <2>5
  <2>7. QED
    BY <2>6 DEF LevelTable, of, Cut
<1>7. QED
  BY <1>1, <1>6

\* The table h that the second pass is, read from the right.
LevelList(h, P, n, div, bulk, g, kk) ==
  /\ LevelTable(h, P, n, div, bulk, g, kk, kk - 1)
  /\ \A j \in 0..kk - 1 :
       LeveledCuts(P, n, div, bulk, g, kk)[j] = Listed(h, kk - 1)[kk - 1 - j]

\* The cuts of the second pass are such a table.
LEMMA LeveledUnfolds ==
  ASSUME NEW P, NEW n, NEW div, NEW bulk, NEW g, NEW kk, kk - 1 \in Nat
  PROVE  \E h : LevelList(h, P, n, div, bulk, g, kk)
<1> DEFINE H == CHOOSE h : LevelTable(h, P, n, div, bulk, g, kk, kk - 1)
<1>1. LevelTable(H, P, n, div, bulk, g, kk, kk - 1)
  BY LevelTableExists
<1>2. LeveledCuts(P, n, div, bulk, g, kk) =
        [j \in 0..kk - 1 |-> Listed(H, kk - 1)[kk - 1 - j]]
  BY DEF LeveledCuts, LevelTable
<1>3. QED
  BY <1>1, <1>2 DEF LevelList

\* What the second pass should compute.
Level(kk) == LeveledCuts(load.P, load.n, Divider, load.bulk, Greedy, kk)

\* Whether cut j may stay at c when the next one is at right.
Stays(kk, c, right, j) ==
  Rests(load.P, load.n, Divider, load.bulk, Greedy, kk, c, right, j)

\* Each cut is the highest place, not above the one of the first pass, at which
\* it may stay.
LEMMA LevelIs ==
  ASSUME TypeOK, NEW q \in Nat \ {0}
  PROVE  /\ Level(q)[q - 1] = load.n
         /\ \A j \in 0..q - 2 :
              Level(q)[j] = Highest({c \in 0..Greedy[j] : c = 0 \/ Stays(q, c, Level(q)[j + 1], j)})
<1>1. q \in Nat /\ q - 1 \in Nat
  OBVIOUS
<1>2. PICK h : /\ LevelTable(h, load.P, load.n, Divider, load.bulk, Greedy, q, q - 1)
               /\ \A j \in 0..q - 1 : Level(q)[j] = Listed(h, q - 1)[q - 1 - j]
  <2>1. \E h : LevelList(h, load.P, load.n, Divider, load.bulk, Greedy, q)
    BY <1>1, LeveledUnfolds
  <2>2. QED
    BY <2>1 DEF Level, LevelList
<1> DEFINE of(x) == IF x = 0 THEN load.n
                    ELSE Highest({c \in 0..Greedy[q - 1 - x] : c = 0 \/ Stays(q, c, h[x - 1], q - 1 - x)})
<1>3. \A x \in 0..q - 1 : h[x] = of(x)
  BY <1>2 DEF LevelTable, Stays
<1>4. Listed(h, q - 1) = h
  <2>1. h = [x \in 0..q - 1 |-> h[x]]
    BY <1>2 DEF LevelTable
  <2> DEFINE V == {h[x] : x \in 0..q - 1}
  <2>2. h \in [0..q - 1 -> V]
    BY <2>1
  <2> HIDE DEF V
  <2>3. QED
    BY <2>2, <1>1, ListedIs
<1> HIDE DEF of
<1>5. \A j \in 0..q - 1 : Level(q)[j] = h[q - 1 - j]
  BY <1>2, <1>4
<1>6. Level(q)[q - 1] = load.n
  <2>1. q - 1 - (q - 1) = 0 /\ 0 \in 0..q - 1 /\ q - 1 \in 0..q - 1
    BY <1>1
  <2>2. h[0] = load.n
    BY <2>1, <1>3 DEF of
  <2>3. QED
    BY <2>1, <2>2, <1>5
<1>7. ASSUME NEW j \in 0..q - 2
      PROVE  Level(q)[j] = Highest({c \in 0..Greedy[j] : c = 0 \/ Stays(q, c, Level(q)[j + 1], j)})
  <2>1. PICK x \in 1..q - 1 : x = q - 1 - j
    BY <1>1
  <2>2. q - 1 - x = j /\ x # 0 /\ x \in 0..q - 1 /\ q - 1 - (j + 1) = x - 1
        /\ j \in 0..q - 1 /\ j + 1 \in 0..q - 1
    BY <2>1, <1>1
  <2>3. Level(q)[j] = h[x] /\ Level(q)[j + 1] = h[x - 1]
    BY <2>1, <2>2, <1>5
  <2>4. h[x] = Highest({c \in 0..Greedy[j] : c = 0 \/ Stays(q, c, h[x - 1], j)})
    BY <2>2, <1>3 DEF of
  <2>5. QED
    BY <2>3, <2>4
<1>8. QED
  BY <1>6, <1>7

\* A page that holds all it can ends where the first pass puts the cut.
LEMMA FullPage ==
  ASSUME TypeOK, NEW j \in Pages, First(cnt, j) = First(Greedy, j),
         Used(j) <= UsableSpace, cnt[j] = load.n \/ Full(j)
  PROVE  cnt[j] = Greedy[j]
<1> DEFINE S == {c \in 0..load.n : load.P[c] - load.P[First(cnt, j)] <= UsableSpace}
<1>1. /\ load.n \in Nat /\ cnt[j] \in 0..load.n /\ ValidLoad(load)
      /\ UsableSpace \in Nat /\ load.P[First(cnt, j)] \in Nat
  BY Types, UsedRange DEF TypeOK
<1>2. cnt[j] \in S
  BY <1>1 DEF Used
<1>3. ASSUME NEW y \in S
      PROVE  y <= cnt[j]
  <2> SUFFICES ASSUME cnt[j] + 1 <= y
               PROVE  FALSE
    BY <1>1
  <2>1. cnt[j] < load.n /\ cnt[j] + 1 \in 0..load.n
    BY <1>1
  <2>2. load.P[cnt[j] + 1] <= load.P[y] /\ load.P[cnt[j] + 1] \in Nat /\ load.P[y] \in Nat
    BY <1>1, <2>1, Monotone
  <2>3. load.P[cnt[j] + 1] - load.P[First(cnt, j)] > UsableSpace
    BY <2>1, <1>1 DEF Full
  <2>4. QED
    BY <1>1, <2>2, <2>3
<1>4. S \in SUBSET (0..load.n)
  OBVIOUS
<1> HIDE DEF S
<1>5. Highest(S) = cnt[j]
  BY <1>1, <1>2, <1>3, <1>4, HighestOne
<1>6. Greedy[j] = Highest(S)
  BY GreedyIs DEF S
<1>7. QED
  BY <1>5, <1>6

\* The pages that the first pass has left are cut where they should be.
LEMMA SettledPages ==
  ASSUME TypeOK, NEW m \in 0..NB + 1, \A j \in 0..m - 1 : Settled(j)
  PROVE  \A j \in 0..m - 1 : cnt[j] = Greedy[j]
<1> DEFINE Bad == {j \in 0..m - 1 : cnt[j] # Greedy[j]}
<1> SUFFICES ASSUME Bad # {}
             PROVE  FALSE
  OBVIOUS
<1>1. NB \in Nat
  BY Types
<1>2. PICK j \in Bad : \A x \in Bad : j <= x
  <2>1. Bad \in SUBSET Nat
    OBVIOUS
  <2> HIDE DEF Bad
  <2>2. QED
    BY <2>1, MinOfNat
<1>3. j \in 0..m - 1 /\ j \in Pages /\ Settled(j)
  BY <1>1 DEF Pages
<1>4. First(cnt, j) = First(Greedy, j)
  <2>1. CASE j = 0
    BY <2>1 DEF First
  <2>2. CASE j # 0
    <3>1. j - 1 \in 0..m - 1 /\ j - 1 \notin Bad
      BY <1>2, <1>3, <2>2
    <3>2. QED
      BY <3>1, <2>2 DEF First
  <2>3. QED
    BY <2>1, <2>2
<1>5. cnt[j] = Greedy[j]
  BY <1>3, <1>4, FullPage DEF Settled
<1>6. QED
  BY <1>5

\* The cuts in the middle of the second pass, and after it.
CutsInv ==
  /\ pc = "level" =>
       /\ Greedy[k - 1] = load.n
       /\ \A j \in 0..i - 2 : cnt[j] = Greedy[j]
       /\ \A j \in i..k - 1 : cnt[j] = Level(k)[j]
       /\ i > 0 => /\ cnt[i - 1] <= Greedy[i - 1]
                  /\ \A c \in cnt[i - 1] + 1..Greedy[i - 1] : ~Stays(k, c, cnt[i], i - 1)
  /\ pc \in {"edit", "done"} =>
       /\ Greedy[k - 1] = load.n
       /\ \A j \in 0..k - 1 : cnt[j] = Level(k)[j]

\* The loop asks whether the cut may stay where it is.
LEMMA BreakIsStay ==
  ASSUME IInv, CutsInv, pc = "level", i > 0
  PROVE  LevelBreak <=> Stays(k, cnt[i - 1], cnt[i], i - 1)
<1>1. TypeOK /\ \A j \in 0..i - 2 : cnt[j] = Greedy[j]
  BY DEF IInv, CutsInv
<1>2. /\ i \in 0..k - 1 /\ i - 1 \in 0..k - 2 /\ i \in Pages /\ i - 1 \in Pages
      /\ cnt[i - 1] \in 1..load.n /\ cnt[i - 1] < load.n
      /\ First(cnt, i) = After(cnt[i - 1], load.n)
      /\ sz[i] = Used(i) /\ sz[i - 1] = Used(i - 1)
      /\ Used(i) \in Nat /\ Used(i - 1) \in Nat
  BY PairFacts
<1>3. load.n \in Nat /\ Divider \in {0, 1} /\ k \in Nat
  BY <1>1, Types
<1> DEFINE m == i - 1
           c == cnt[m]
           szR == Size(c - 1)
           szD == Size(c - (1 - Divider))
<1>4. szR \in Int
  BY <1>1, <1>2, Crossing
<1>5. szD \in Int /\ szD = Size(c - 1 + Divider)
  <2>1. c - (1 - Divider) = c - 1 + Divider /\ c - 1 + Divider \in 0..load.n /\ c - 1 + Divider < load.n
    BY <1>2, <1>3
  <2>2. Size(c - 1 + Divider) \in Int
    BY <2>1, <1>1, SizeRange
  <2>3. QED
    BY <2>1, <2>2
<1>6. Start(Greedy, m, load.n, Divider) = First(cnt, m)
  <2>1. CASE m = 0
    BY <2>1 DEF Start, First
  <2>2. CASE m # 0
    <3>1. m - 1 \in 0..i - 2 /\ m - 1 \in Pages
      <4>1. k \in 1..NB + 2 /\ NB \in Nat
        BY <1>1, Types
      <4>2. QED
        BY <4>1, <1>2, <2>2 DEF Pages
    <3>2. cnt[m - 1] = Greedy[m - 1] /\ cnt[m - 1] \in 0..load.n
      BY <3>1, <1>1, Types
    <3>3. QED
      BY <3>2, <2>2, <1>3, BeyondIs DEF Start, First
  <2>3. QED
    BY <2>1, <2>2
<1>7. Beyond(c, load.n, Divider) = First(cnt, i)
  BY <1>2, <1>3, BeyondIs
<1>8. /\ sz[i] = load.P[cnt[i]] - load.P[Beyond(c, load.n, Divider)]
      /\ sz[m] = load.P[c] - load.P[Start(Greedy, m, load.n, Divider)]
  BY <1>2, <1>6, <1>7 DEF Used
<1>9. Stays(k, c, cnt[i], m) <=>
        /\ sz[i] # 0
        /\ load.bulk \/ sz[i] + Size(c - 1 + Divider) > sz[m] - Size(c - 1) + (IF m = k - 2 THEN 2 ELSE 0)
  <2> DEFINE st == load.P[Start(Greedy, m, load.n, Divider)]
             be == load.P[Beyond(c, load.n, Divider)]
  <2>1. Stays(k, c, cnt[i], m) <=>
          /\ load.P[cnt[i]] - be # 0
          /\ load.bulk \/ (load.P[cnt[i]] - be) + Size(c - 1 + Divider) >
                 (load.P[c] - st) - Size(c - 1) + (IF m = k - 2 THEN 2 ELSE 0)
    BY DEF Stays, Rests, Size
  <2>2. QED
    BY <2>1, <1>8
<1>10. LevelBreak <=>
        /\ sz[i] # 0
        /\ load.bulk \/ sz[i] + (szD - 2) + 2 > sz[m] - ((szR - 2) + IF i = k - 1 THEN 0 ELSE 2)
  BY DEF LevelBreak
<1>11. (m = k - 2) <=> (i = k - 1)
  BY <1>2, <1>3
<1>12. sz[i] \in Int /\ sz[m] \in Int
  BY <1>2
<1> HIDE DEF szR, szD, m, c
<1>13. sz[i] + (szD - 2) + 2 > sz[m] - ((szR - 2) + IF i = k - 1 THEN 0 ELSE 2)
         <=> sz[i] + szD > sz[m] - szR + (IF m = k - 2 THEN 2 ELSE 0)
  BY <1>4, <1>5, <1>11, <1>12
<1>14. QED
  BY <1>5, <1>9, <1>10, <1>13 DEF szR, m, c

\* The first pass ends: the pages before the last are full, and the last one holds
\* the rest.
LEMMA SettleCuts ==
  ASSUME IInv, Settle
  PROVE  CutsInv'
<1>1. /\ TypeOK /\ TypeOK' /\ pc = "pack" /\ i \in 0..k - 1 /\ k \in 1..NB + 2 /\ NB \in Nat
      /\ sz[i] = Used(i) /\ sz[i] <= UsableSpace
      /\ \A j \in 0..i - 1 : Settled(j)
      /\ load' = load /\ cnt' = cnt
  <2>1. IInv'
    BY SettleStep
  <2>2. k \in 1..NB + 2 /\ NB \in Nat
    BY Types DEF IInv
  <2>3. QED
    BY <2>1, <2>2 DEF IInv, Settle, PackInv, SizesMatchCuts
<1>2. CASE pc' = "pack" \/ pc' = "corrupt"
  BY <1>2 DEF CutsInv
<1>3. CASE cnt[i] >= load.n /\ k' = i + 1 /\ i' = i /\ pc' = "level"
  <2>1. cnt[i] = load.n /\ i \in Pages /\ i \in 0..NB + 1 /\ load.n \in Nat
    <3>1. cnt \in [Pages -> 0..load.n] /\ load.n \in Nat
      BY <1>1, Types
    <3>2. i \in Pages /\ i \in 0..NB + 1
      BY <1>1 DEF Pages
    <3>3. QED
      BY <3>1, <3>2, <1>3
  <2>2. \A j \in 0..i - 1 : cnt[j] = Greedy[j]
    BY <1>1, <2>1, SettledPages
  <2>3. First(cnt, i) = First(Greedy, i)
    BY <2>1, <2>2 DEF First
  <2>4. cnt[i] = Greedy[i]
    BY <1>1, <2>1, <2>3, FullPage
  <2>5. PICK q \in Nat \ {0} : q = k'
    BY <1>3, <2>1
  <2>6. Level(q)[q - 1] = load.n
    BY <1>1, LevelIs
  <2>7. Greedy' = Greedy /\ Level(k)' = Level(q)
    BY <1>1, <2>5 DEF Greedy, Level
  <2>8. k' - 1 = i /\ q - 1 = i
    BY <1>3, <2>1, <2>5
  <2>9. /\ Greedy'[k' - 1] = load'.n
        /\ \A j \in 0..i' - 2 : cnt'[j] = Greedy'[j]
        /\ \A j \in i'..k' - 1 : cnt'[j] = Level(k)'[j]
    <3>1. Greedy[i] = load.n /\ Level(q)[i] = load.n
      BY <2>1, <2>4, <2>6, <2>8
    <3>2. \A j \in 0..i - 2 : j \in 0..i - 1
      BY <2>1
    <3>3. \A j \in i..i : j = i
      BY <2>1
    <3>4. QED
      BY <1>1, <1>3, <2>1, <2>2, <2>7, <2>8, <3>1, <3>2, <3>3
  <2>10. i > 0 => cnt[i - 1] = Greedy[i - 1] /\ cnt[i - 1] + 1..Greedy[i - 1] = {}
    <3> SUFFICES ASSUME i > 0
                 PROVE  cnt[i - 1] = Greedy[i - 1] /\ cnt[i - 1] + 1..Greedy[i - 1] = {}
      OBVIOUS
    <3>1. i - 1 \in 0..i - 1 /\ i - 1 \in Pages
      BY <2>1, <1>1 DEF Pages
    <3>2. cnt[i - 1] \in 0..load.n
      BY <3>1, <1>1, Types
    <3>3. QED
      BY <2>1, <2>2, <3>1, <3>2
  <2>11. i' > 0 => /\ cnt'[i' - 1] <= Greedy'[i' - 1]
                   /\ cnt'[i' - 1] + 1..Greedy'[i' - 1] = {}
    <3>1. i > 0 => Greedy[i - 1] \in 0..load.n
      <4>1. i > 0 => i - 1 \in Pages
        BY <2>1, <1>1 DEF Pages
      <4>2. QED
        BY <4>1, <1>1, GreedyIs
    <3>2. QED
      BY <1>1, <1>3, <2>1, <2>7, <2>10, <3>1
  <2>12. QED
    BY <1>3, <2>9, <2>11 DEF CutsInv
<1>4. QED
  BY <1>1, <1>2, <1>3 DEF Settle

\* A cell moves to the right: its place was not one for the cut to stay.
LEMMA MoveRightCuts ==
  ASSUME IInv, CutsInv, MoveRight
  PROVE  CutsInv'
<1>1. /\ TypeOK /\ pc = "level" /\ i > 0 /\ ~LevelBreak
      /\ load' = load /\ k' = k /\ i' = i /\ pc' = pc
      /\ cnt' = [cnt EXCEPT ![i - 1] = cnt[i - 1] - 1]
      /\ Greedy[k - 1] = load.n
      /\ \A j \in 0..i - 2 : cnt[j] = Greedy[j]
      /\ \A j \in i..k - 1 : cnt[j] = Level(k)[j]
      /\ cnt[i - 1] <= Greedy[i - 1]
      /\ \A c \in cnt[i - 1] + 1..Greedy[i - 1] : ~Stays(k, c, cnt[i], i - 1)
  BY DEF IInv, CutsInv, MoveRight
<1>2. /\ i \in 0..k - 1 /\ i - 1 \in 0..k - 2 /\ i - 1 \in Pages
      /\ cnt[i - 1] \in 1..load.n
      /\ cnt \in [Pages -> 0..load.n] /\ k \in 1..NB + 2 /\ NB \in Nat /\ load.n \in Nat
  BY <1>1, PairFacts, Types
<1>3. Greedy' = Greedy /\ Level(k)' = Level(k)
      /\ \A c, right, j : Stays(k, c, right, j)' = Stays(k, c, right, j)
  BY <1>1 DEF Greedy, Level, Stays
<1>4. /\ cnt'[i - 1] = cnt[i - 1] - 1
      /\ \A j \in Pages : j # i - 1 => cnt'[j] = cnt[j]
  BY <1>1, <1>2
<1>5. ~Stays(k, cnt[i - 1], cnt[i], i - 1)
  BY <1>1, BreakIsStay
<1>6. Greedy[i - 1] \in 0..load.n
  BY <1>1, <1>2, GreedyIs
<1>7. /\ \A j \in 0..i - 2 : cnt'[j] = Greedy[j]
      /\ \A j \in i..k - 1 : cnt'[j] = Level(k)[j]
      /\ cnt'[i] = cnt[i]
  <2>1. /\ \A j \in 0..i - 2 : j \in Pages /\ j # i - 1
        /\ \A j \in i..k - 1 : j \in Pages /\ j # i - 1
        /\ i \in i..k - 1
    BY <1>2 DEF Pages
  <2>2. QED
    BY <2>1, <1>1, <1>4
<1>8. /\ cnt'[i - 1] <= Greedy[i - 1]
      /\ \A c \in cnt'[i - 1] + 1..Greedy[i - 1] : ~Stays(k, c, cnt'[i], i - 1)
  <2>1. cnt'[i - 1] <= Greedy[i - 1]
    BY <1>1, <1>2, <1>4, <1>6
  <2>2. ASSUME NEW c \in cnt'[i - 1] + 1..Greedy[i - 1]
        PROVE  ~Stays(k, c, cnt'[i], i - 1)
    <3>1. c = cnt[i - 1] \/ c \in cnt[i - 1] + 1..Greedy[i - 1]
      BY <1>2, <1>4, <1>6
    <3>2. QED
      BY <3>1, <1>1, <1>5, <1>7
  <2>3. QED
    BY <2>1, <2>2
<1>9. QED
  BY <1>1, <1>3, <1>7, <1>8 DEF CutsInv

\* A cut stays: it is the highest place at which it may.
LEMMA NextPairCuts ==
  ASSUME IInv, CutsInv, NextPair
  PROVE  CutsInv'
<1>1. /\ TypeOK /\ pc = "level" /\ i > 0 /\ (cnt[i - 1] <= 0 \/ LevelBreak)
      /\ load' = load /\ k' = k /\ cnt' = cnt
      /\ Greedy[k - 1] = load.n
      /\ \A j \in 0..i - 2 : cnt[j] = Greedy[j]
      /\ \A j \in i..k - 1 : cnt[j] = Level(k)[j]
      /\ cnt[i - 1] <= Greedy[i - 1]
      /\ \A c \in cnt[i - 1] + 1..Greedy[i - 1] : ~Stays(k, c, cnt[i], i - 1)
  BY DEF IInv, CutsInv, NextPair
<1>2. CASE pc' = "corrupt"
  BY <1>2 DEF CutsInv
<1>3. CASE pc' = pc /\ i' = i - 1
  <2>1. /\ i \in 0..k - 1 /\ i - 1 \in 0..k - 2 /\ i - 1 \in Pages
        /\ cnt[i - 1] \in 1..load.n
        /\ cnt \in [Pages -> 0..load.n] /\ k \in 1..NB + 2 /\ NB \in Nat /\ load.n \in Nat
    BY <1>1, PairFacts, Types
  <2>2. Greedy' = Greedy /\ Level(k)' = Level(k)
        /\ \A c, right, j : Stays(k, c, right, j)' = Stays(k, c, right, j)
    BY <1>1 DEF Greedy, Level, Stays
  <2>3. Stays(k, cnt[i - 1], cnt[i], i - 1)
    BY <1>1, <2>1, BreakIsStay
  <2>4. Greedy[i - 1] \in 0..load.n
    BY <1>1, <2>1, GreedyIs
  <2> DEFINE S == {c \in 0..Greedy[i - 1] : c = 0 \/ Stays(k, c, cnt[i], i - 1)}
  <2>5. cnt[i - 1] \in S
    BY <1>1, <2>1, <2>3, <2>4
  <2>6. ASSUME NEW y \in S
        PROVE  y <= cnt[i - 1]
    <3>1. y \in 0..Greedy[i - 1] /\ (y = 0 \/ Stays(k, y, cnt[i], i - 1))
      OBVIOUS
    <3>2. y \notin cnt[i - 1] + 1..Greedy[i - 1]
      BY <3>1, <1>1, <2>1
    <3>3. QED
      BY <3>1, <3>2, <2>1, <2>4
  <2>7. S \in SUBSET (0..Greedy[i - 1]) /\ Greedy[i - 1] \in Nat
    BY <2>4
  <2>8. S = {c \in 0..Greedy[i - 1] : c = 0 \/ Stays(k, c, Level(k)[i], i - 1)}
    BY <1>1, <2>1
  <2>9. Level(k)[i - 1] = Highest({c \in 0..Greedy[i - 1] : c = 0 \/ Stays(k, c, Level(k)[i - 1 + 1], i - 1)})
    BY <1>1, <2>1, LevelIs
  <2>10. Level(k)[i - 1] = Highest(S)
    <3>1. i - 1 + 1 = i
      BY <2>1
    <3> HIDE DEF S
    <3>2. QED
      BY <2>8, <2>9, <3>1
  <2> HIDE DEF S
  <2>11. Level(k)[i - 1] = cnt[i - 1]
    BY <2>5, <2>6, <2>7, <2>10, HighestOne
  <2>12. \A j \in i - 1..k - 1 : cnt[j] = Level(k)[j]
    <3>1. \A j \in i - 1..k - 1 : j = i - 1 \/ j \in i..k - 1
      BY <2>1
    <3>2. QED
      BY <3>1, <1>1, <2>11
  <2>13. \A j \in 0..i - 1 - 2 : cnt[j] = Greedy[j]
    <3>1. \A j \in 0..i - 1 - 2 : j \in 0..i - 2
      BY <2>1
    <3>2. QED
      BY <3>1, <1>1
  <2>14. i - 1 > 0 => /\ cnt[i - 1 - 1] <= Greedy[i - 1 - 1]
                      /\ cnt[i - 1 - 1] + 1..Greedy[i - 1 - 1] = {}
    <3> SUFFICES ASSUME i - 1 > 0
                 PROVE  /\ cnt[i - 1 - 1] <= Greedy[i - 1 - 1]
                        /\ cnt[i - 1 - 1] + 1..Greedy[i - 1 - 1] = {}
      OBVIOUS
    <3>1. i - 1 - 1 \in 0..i - 2 /\ i - 1 - 1 \in Pages
      BY <2>1 DEF Pages
    <3>2. cnt[i - 1 - 1] = Greedy[i - 1 - 1] /\ cnt[i - 1 - 1] \in 0..load.n
      BY <3>1, <2>1, <1>1
    <3>3. QED
      BY <3>2, <2>1
  <2>15. QED
    BY <1>1, <1>3, <2>2, <2>12, <2>13, <2>14 DEF CutsInv
<1>4. QED
  BY <1>2, <1>3 DEF NextPair

\* The other steps leave the cuts alone.
LEMMA OtherCuts ==
  ASSUME IInv, CutsInv, Shrink \/ Grow \/ Leveled \/ EditPage \/ SkipPage \/ Edited \/ UNCHANGED vars
  PROVE  CutsInv'
<1>1. CASE pc' = "pack" \/ pc' = "corrupt"
  BY <1>1 DEF CutsInv
<1>2. ASSUME load' = load, cnt' = cnt, k' = k
      PROVE  Greedy' = Greedy /\ Level(k)' = Level(k)
             /\ \A c, right, j : Stays(k, c, right, j)' = Stays(k, c, right, j)
  BY <1>2 DEF Greedy, Level, Stays
<1>3. CASE Leveled
  <2>1. /\ load' = load /\ cnt' = cnt /\ k' = k /\ pc = "level" /\ i = 0 /\ pc' = "edit"
    BY <1>3 DEF Leveled
  <2>2. QED
    BY <1>2, <2>1 DEF CutsInv
<1>4. CASE EditPage \/ SkipPage \/ Edited
  <2>1. /\ load' = load /\ cnt' = cnt /\ k' = k /\ pc = "edit" /\ pc' \in {"edit", "done"}
    BY <1>4 DEF EditPage, SkipPage, Edited
  <2>2. QED
    BY <1>2, <2>1 DEF CutsInv
<1>5. CASE UNCHANGED vars
  <2>1. /\ load' = load /\ cnt' = cnt /\ k' = k /\ pc' = pc /\ i' = i
    BY <1>5 DEF vars
  <2>2. QED
    BY <1>2, <2>1 DEF CutsInv
<1>6. QED
  BY <1>1, <1>3, <1>4, <1>5 DEF Shrink, Grow

\* The two loops compute what the definitions of CellCuts say: the model of the
\* b-tree may use these for balance_nonroot().
THEOREM CutsAreThose == Spec => []CutsMatchReference
<1>1. Init => CutsInv
  BY DEF Init, CutsInv
<1>2. IInv /\ CutsInv /\ [Next]_vars => CutsInv'
  BY SettleCuts, MoveRightCuts, NextPairCuts, OtherCuts DEF Next
<1>3. CutsInv => CutsMatchReference
  BY DEF CutsInv, CutsMatchReference, Greedy, Level
<1>4. QED
  BY Invariance, <1>1, <1>2, <1>3, PTL DEF Spec

=============================================================================
