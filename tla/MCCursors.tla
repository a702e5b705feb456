----------------------------- MODULE MCCursors -----------------------------
(***************************************************************************)
(* An instance of Cursors for TLC: the tree is filled with all keys before *)
(* the first cursor opens, and at most MaxWrites calls change it then.     *)
(* Calls that move a cursor are not bounded.                               *)
(***************************************************************************)
EXTENDS Cursors, MCBTree

CONSTANTS
  Filler,     \* the payload of the first entries
  MaxWrites

VARIABLES
  filling,  \* the tree is being filled
  writes    \* writing calls left

mccvars == <<cvars, filling, writes>>

MCCInit == CInit /\ filling = TRUE /\ writes = MaxWrites

Missing == Keys \ KeysNow

Filling ==
  /\ filling /\ Missing # {} /\ filling' = filling
  /\ \/ Balance
     \/ Insert(CHOOSE k \in Missing : \A j \in Missing : k <= j, Filler)
  /\ UNCHANGED <<csr, busy, at, stay, writes>>

Filled ==
  /\ filling /\ Missing = {} /\ filling' = FALSE
  /\ UNCHANGED <<cvars, writes>>

Use ==
  /\ ~filling /\ Calls
  /\ IF vars' = vars THEN writes' = writes ELSE writes > 0 /\ writes' = writes - 1
  /\ UNCHANGED filling

Work == ~filling /\ Rebalance /\ UNCHANGED <<filling, writes>>

MCCNext == Filling \/ Filled \/ Use \/ Work
MCCSpec == MCCInit /\ [][MCCNext]_mccvars
=============================================================================
