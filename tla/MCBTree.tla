------------------------------ MODULE MCBTree ------------------------------
(***************************************************************************)
(* Instances of BTree for TLC: the payloads and their sizes.               *)
(***************************************************************************)
EXTENDS BTree

CONSTANTS
  small, big, long,   \* payloads, and what a cell with each takes
  SmallBytes, BigBytes, LongBytes,
  LongChain           \* overflow pages of a long payload

MCBytes == [p \in Payloads |-> IF p = small THEN SmallBytes
                               ELSE IF p = big THEN BigBytes ELSE LongBytes]
MCChainLen == [p \in Payloads |-> IF p = long THEN LongChain ELSE 0]

ThreeKeys == 1..3
FourKeys == 1..4
EightKeys == 1..8
ElevenKeys == 1..11
TwentyKeys == 1..20
EvenKeysAndTwo == {2 * x : x \in 1..50} \cup {1, 41}

\* The steps of BTree, as a statement and the work on it.
Begins == pc = "idle" /\ Statement
Works == Running /\ (Balance \/ Rollback)

AnySpec == Init /\ [][Begins \/ Works]_vars /\ Fairness
=============================================================================
