----------------------------- MODULE ScanStore -----------------------------
(***************************************************************************)
(* What cursors promise to those who move them over a set of keys that     *)
(* changes under them (the comments on sqlite3BtreeNext(),                 *)
(* sqlite3BtreeCursorRestore() and sqlite3BtreeDelete() in btree.c).       *)
(*                                                                         *)
(* A cursor stands at the key that it showed last, whether the entry is    *)
(* still there or not.  A step from there passes over no entry that has    *)
(* been there all the time, and goes back to none.  Entries that came, or  *)
(* that went and came again, since the cursor moved last may be met or     *)
(* missed.                                                                 *)
(***************************************************************************)
EXTENDS Integers

CONSTANTS Cursors, Keys, NoKey

VARIABLES
  keys,  \* the keys of the entries
  at,    \* where each cursor stands; NoKey: nowhere
  stay   \* the entries that have been there since it moved there

vars == <<keys, at, stay>>

Init ==
  /\ keys = {}
  /\ at = [c \in Cursors |-> NoKey]
  /\ stay = [c \in Cursors |-> {}]

Stand(c, k) ==
  /\ at' = [at EXCEPT ![c] = k]
  /\ stay' = [stay EXCEPT ![c] = IF k = NoKey THEN {} ELSE keys]
  /\ UNCHANGED keys

\* To the ends of the set, or to where a key is or would be.
First(c) ==
  \E k \in keys : Stand(c, k) /\ \A j \in keys : k <= j
Last(c) ==
  \E k \in keys : Stand(c, k) /\ \A j \in keys : j <= k
Seek(c, k) ==
  \/ k \in keys /\ Stand(c, k)
  \/ k \notin keys /\ \E j \in keys :
       /\ Stand(c, j)
       /\ \A i \in keys : ~(j < i /\ i < k) /\ ~(k < i /\ i < j)
Leave(c) == Stand(c, NoKey)

\* One step up or down, NoKey past the last.
Ahead(up, j, k) == IF up THEN j < k ELSE k < j
Step(c, up) ==
  /\ at[c] # NoKey
  /\ \E k \in keys \cup {NoKey} :
       /\ Stand(c, k)
       /\ k # NoKey => Ahead(up, at[c], k) \/ k \notin stay[c]
       /\ \A s \in stay[c] : Ahead(up, at[c], s) => k # NoKey /\ ~Ahead(up, s, k)
Next(c) == Step(c, TRUE)
Previous(c) == Step(c, FALSE)

\* A write puts every cursor but the writer in no other place.
Write(c, new, keeps) ==
  /\ keys' = new
  /\ at' = [at EXCEPT ![c] = IF keeps THEN @ ELSE NoKey]
  /\ stay' = [d \in Cursors |-> IF at'[d] = NoKey THEN {} ELSE stay[d] \cap new]
Insert(c, k, keeps) ==
  /\ keeps => at[c] = k
  /\ Write(c, keys \cup {k}, keeps)
\* What is deleted is the entry the cursor stands at.
Delete(c, keeps) ==
  /\ at[c] \in keys
  /\ Write(c, keys \ {at[c]}, keeps)

Moves ==
  \E c \in Cursors :
    \/ First(c) \/ Last(c) \/ Next(c) \/ Previous(c) \/ Leave(c)
    \/ \E k \in Keys : Seek(c, k)
    \/ \E keeps \in BOOLEAN : Delete(c, keeps) \/ \E k \in Keys : Insert(c, k, keeps)

Spec == Init /\ [][Moves]_vars
=============================================================================
