--------------------------- MODULE MCBTreeScript ---------------------------
(***************************************************************************)
(* A tree with several levels is far from the empty one, so a run of this  *)
(* module begins with a fixed script:                                      *)
(*   fill     the even keys up to 2*Fill are inserted in ascending order   *)
(*            (the odd keys are the gaps between them);                    *)
(*   enlarge  the last entry of each leaf gets a big payload;              *)
(*   thin     entries go until no leaf has more than Thin cells            *)
(* (the last two unless Thin is 0).  Then MaxOps statements are free: any  *)
(* statement on any key.                                                   *)
(***************************************************************************)
EXTENDS MCBTree

CONSTANTS Fill, FillWith, Thin, MaxOps

VARIABLES
  stage,  \* "fill", "enlarge", "thin" or "free"
  todo,   \* entries still to fill in
  ops     \* free statements left

mcvars == <<vars, stage, todo, ops>>

MCInit ==
  /\ Init
  /\ stage = IF Fill = 0 THEN "free" ELSE "fill"
  /\ todo = Fill /\ ops = MaxOps

Leaves == {pg \in DOMAIN node : node[pg].leaf}
LeastKey(S) == CHOOSE k \in S : \A j \in S : k <= j

Filling ==
  /\ stage = "fill" /\ todo > 0 /\ todo' = todo - 1
  /\ Insert(2 * (Fill - todo + 1), FillWith)
  /\ UNCHANGED <<stage, ops>>

\* The last keys of the leaves with another payload than "big".
ToEnlarge ==
  {c.key : c \in {d \in {Last(node[pg].cells) : pg \in Leaves} : d.val # big}}

Enlarging ==
  /\ stage = "enlarge" /\ pc = "idle" /\ ToEnlarge # {}
  /\ Insert(LeastKey(ToEnlarge), big)
  /\ UNCHANGED <<stage, todo, ops>>

\* The first keys of the leaves with too many cells.
ToThin ==
  {node[pg].cells[1].key : pg \in {q \in Leaves : Len(node[q].cells) > Thin}}

Thinning ==
  /\ stage = "thin" /\ pc = "idle" /\ ToThin # {}
  /\ Delete(LeastKey(ToThin))
  /\ UNCHANGED <<stage, todo, ops>>

NextStage ==
  /\ pc = "idle"
  /\ \/ stage = "fill" /\ todo = 0 /\ stage' = IF Thin = 0 THEN "free" ELSE "enlarge"
     \/ stage = "enlarge" /\ ToEnlarge = {} /\ stage' = "thin"
     \/ stage = "thin" /\ ToThin = {} /\ stage' = "free"
  /\ UNCHANGED <<vars, todo, ops>>

FreeStatement ==
  /\ pc = "idle" /\ stage = "free" /\ ops > 0 /\ ops' = ops - 1
  /\ Statement
  /\ UNCHANGED <<stage, todo>>

GoOn == (Balance \/ Rollback) /\ UNCHANGED <<stage, todo, ops>>

\* The run is over; any other standstill is a deadlock.
Over ==
  /\ stage = "free" /\ pc = "idle" /\ ops = 0
  /\ UNCHANGED mcvars

MCNext == Filling \/ Enlarging \/ Thinning \/ NextStage \/ FreeStatement \/ GoOn \/ Over

MCSpec == MCInit /\ [][MCNext]_mcvars /\ Fairness
=============================================================================
