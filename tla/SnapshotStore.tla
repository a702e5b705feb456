--------------------------- MODULE SnapshotStore ----------------------------
(***************************************************************************)
(* What the write-ahead log promises: readers that keep the snapshot they  *)
(* began with, one writer, transactions that are there as a whole or not   *)
(* at all, and of what was committed nothing lost beyond what was not      *)
(* synced.  Wal is shown to implement this module.                         *)
(***************************************************************************)
CONSTANTS Conns, NoView

VARIABLES
  image,    \* what is committed
  kept,     \* what a power loss may bring back
  doubt,    \* commits that were cut off: the next recovery decides
  view,     \* view[c]: the snapshot of c, with its own changes
  writer,   \* the connections in a write-transaction: at most one
  asked     \* ... that asked for the commit

vars == <<image, kept, doubt, view, writer, asked>>

Init ==
  /\ kept = {image} /\ doubt = {}
  /\ view = [c \in Conns |-> NoView]
  /\ writer = {} /\ asked = {}

\* A transaction begins with what is committed then.
Begin(c) ==
  /\ view[c] = NoView
  /\ view' = [view EXCEPT ![c] = image]
  /\ UNCHANGED <<image, kept, doubt, writer, asked>>

\* Nobody writes on top of a snapshot that is not the last one.
BeginWrite(c) ==
  /\ view[c] = image /\ writer = {}
  /\ writer' = {c}
  /\ UNCHANGED <<image, kept, doubt, view, asked>>

Write(c) ==
  /\ writer = {c} /\ asked = {}
  /\ view'[c] # NoView
  /\ view' = [view EXCEPT ![c] = view'[c]]
  /\ UNCHANGED <<image, kept, doubt, writer, asked>>

Ask(c) ==
  /\ writer = {c} /\ asked = {}
  /\ asked' = {c}
  /\ view'[c] # NoView
  /\ view' = [view EXCEPT ![c] = view'[c]]
  /\ UNCHANGED <<image, kept, doubt, writer>>

\* Readers go on with theirs.  Commits that were cut off are over, unless a
\* power loss takes this one back.
Commit(c) ==
  /\ asked = {c}
  /\ image' = view[c]
  /\ kept' \in {{view[c]}, kept \cup doubt \cup {view[c]}}
  /\ doubt' = {} /\ asked' = {}
  /\ UNCHANGED <<view, writer>>

\* Everything committed is on disk.
Settle ==
  /\ kept' = {image}
  /\ UNCHANGED <<image, doubt, view, writer, asked>>

\* After its commit, or by a rollback.
EndWrite(c) ==
  /\ writer = {c} /\ asked = {}
  /\ writer' = {}
  /\ view' = [view EXCEPT ![c] = image]
  /\ UNCHANGED <<image, kept, doubt, asked>>

End(c) ==
  /\ c \notin writer
  /\ view' = [view EXCEPT ![c] = NoView]
  /\ UNCHANGED <<image, kept, doubt, writer, asked>>

Kill(c) ==
  /\ view' = [view EXCEPT ![c] = NoView]
  /\ writer' = writer \ {c} /\ asked' = asked \ {c}
  /\ doubt' = doubt \cup (IF c \in asked THEN {view[c]} ELSE {})
  /\ UNCHANGED <<image, kept>>

Recover ==
  /\ image' \in doubt
  /\ kept' = kept \cup {image'} /\ doubt' = {}
  /\ UNCHANGED <<view, writer, asked>>

PowerLoss ==
  /\ image' \in kept \cup doubt \cup {image} \cup {view[c] : c \in asked}
  /\ kept' = {image'} /\ doubt' = {}
  /\ view' = [c \in Conns |-> NoView]
  /\ writer' = {} /\ asked' = {}

Next ==
  \/ \E c \in Conns :
       \/ Begin(c) \/ BeginWrite(c) \/ Write(c) \/ Ask(c) \/ Commit(c)
       \/ EndWrite(c) \/ End(c) \/ Kill(c)
  \/ Settle \/ Recover \/ PowerLoss

Spec == Init /\ [][Next]_vars
=============================================================================
