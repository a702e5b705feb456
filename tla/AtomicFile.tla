----------------------------- MODULE AtomicFile -----------------------------
(***************************************************************************)
(* What the pager promises of a database file: transactions that are       *)
(* atomic, isolated and durable (the comment at the head of pager.c).      *)
(* Pager is shown to implement this module.                                *)
(***************************************************************************)
CONSTANTS Conns, Images, NoView

VARIABLES
  image,   \* the committed database
  undone,  \* the database before the last commit while a power loss may
           \* still take that commit back (journal_mode=DELETE does not sync
           \* the directory when the journal is deleted), else empty
  view,    \* view[c]: the database as connection c sees it in a transaction
  writer   \* the connections in a write-transaction: at most one

vars == <<image, undone, view, writer>>

Init ==
  /\ image \in Images
  /\ undone = {}
  /\ view = [c \in Conns |-> NoView]
  /\ writer = {}

\* A read-transaction begins: it sees what is committed.
Begin(c) ==
  /\ view[c] = NoView
  /\ view' = [view EXCEPT ![c] = image]
  /\ UNCHANGED <<image, undone, writer>>

BeginWrite(c) ==
  /\ view[c] = image /\ writer = {}
  /\ writer' = {c}
  /\ UNCHANGED <<image, undone, view>>

\* The writer changes its own view and no other.
Write(c) ==
  /\ writer = {c}
  /\ view'[c] \in Images
  /\ view' = [view EXCEPT ![c] = view'[c]]
  /\ UNCHANGED <<image, undone, writer>>

\* All of it at once, and nobody reads meanwhile.
Commit(c) ==
  /\ writer = {c}
  /\ \A d \in Conns \ {c} : view[d] = NoView
  /\ image' = view[c]
  /\ undone' \in {{}, {image}}
  /\ UNCHANGED <<view, writer>>

\* The commit is on disk for good.
Settle ==
  /\ undone' = {}
  /\ UNCHANGED <<image, view, writer>>

\* A transaction ends, by itself, by an error or with its process; what the
\* writer had not committed is gone.
End(gone) ==
  /\ view' = [c \in Conns |-> IF c \in gone THEN NoView ELSE view[c]]
  /\ writer' = writer \ gone
  /\ UNCHANGED <<image, undone>>

\* The writer goes on reading after its transaction.
EndWrite(c) ==
  /\ writer = {c} /\ view[c] = image
  /\ writer' = {}
  /\ UNCHANGED <<image, undone, view>>

PowerLoss ==
  /\ image' \in {image} \cup undone
  /\ undone' = {}
  /\ view' = [c \in Conns |-> NoView]
  /\ writer' = {}

Next ==
  \/ \E c \in Conns :
       Begin(c) \/ BeginWrite(c) \/ Write(c) \/ Commit(c) \/ EndWrite(c)
  \/ \E gone \in SUBSET Conns : End(gone)
  \/ Settle \/ PowerLoss

Spec == Init /\ [][Next]_vars
=============================================================================
