------------------------------ MODULE KeyStore ------------------------------
(***************************************************************************)
(* What a b-tree promises its caller: a set of entries, at most one for a  *)
(* key.  Put() is sqlite3BtreeInsert(), which replaces the entry of an     *)
(* existing key; Remove() is sqlite3BtreeDelete().  A failed call changes  *)
(* nothing.                                                                *)
(***************************************************************************)
CONSTANTS Keys, Payloads

VARIABLE store   \* the entries

Entry == [key : Keys, val : Payloads]

Init == store = {}

Without(k) == {e \in store : e.key # k}

Put(k, v) == store' = Without(k) \cup {[key |-> k, val |-> v]}

Remove(k) ==
  /\ \E e \in store : e.key = k
  /\ store' = Without(k)

Next == \E k \in Keys : Remove(k) \/ \E v \in Payloads : Put(k, v)

Spec == Init /\ [][Next]_store

\* No key has two entries.
Functional == \A d, e \in store : d.key = e.key => d = e
=============================================================================
