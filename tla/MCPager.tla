------------------------------ MODULE MCPager -------------------------------
(***************************************************************************)
(* Instances of Pager for TLC.  Connections are alike, and so are the      *)
(* contents of pages.  What a state stands for in AtomicFile is kept in    *)
(* variables, so that TLC works it out once for each step.                 *)
(***************************************************************************)
EXTENDS Pager

CONSTANTS c1, c2, v1, v2

MCSymmetry == Permutations(Conns) \cup Permutations(Values)

\* A database that is empty or has two pages, in each mode, with two
\* transactions, two crashes or an error; and one of three pages, so that a
\* transaction that spilled one page spills another.
MCScenarios ==
  [mode : AllModes, size : {0, 2}, most : {2}, trans : {2}, crashes : {1}, errors : {0}]
    \cup
  [mode : AllModes, size : {0, 2}, most : {2}, trans : {1}, crashes : {2}, errors : {0}]
    \cup
  [mode : AllModes, size : {0, 2}, most : {2}, trans : {1}, crashes : {1}, errors : {1}]
    \cup
  [mode : {"truncate"}, size : {3}, most : {3}, trans : {1}, crashes : {1}, errors : {0}]

\* The last of three pages is given up, in the mode that deletes the journal.
ShrinkScenarios ==
  [mode : {"delete"}, size : {3}, most : {3}, trans : {1}, crashes : {0}, errors : {0}]

VARIABLES ofFiles, ofPagers

MCInit == Init /\ ofFiles = PromiseOfFiles /\ ofPagers = PromiseOfPagers
MCNext ==
  /\ Next
  /\ ofFiles' = IF files' = files THEN ofFiles ELSE PromiseOfFiles'
  /\ ofPagers' = PromiseOfPagers'
MCSpec == MCInit /\ [][MCNext]_<<vars, ofFiles, ofPagers>>

Abstract == INSTANCE AtomicFile WITH
  image <- ofFiles.image, undone <- ofFiles.undone,
  view <- ofPagers.view, writer <- ofPagers.writer

\* No page of the database file is overwritten by a transaction before the
\* journal has what it was when the transaction began, on disk, in a segment
\* whose header is on disk and counts it: rule (1) at the head of pager.c.  A
\* spill in the middle of a transaction is where it could be missed.
WriteAhead ==
  [][\A c \in Conns : pager[c].pc = "wdb" /\ db' # db =>
       \A p \in DOMAIN ofFiles.image :
         p <= pager[c].orig /\ db'[p] # db[p] =>
           /\ OnRecord(journal[pager[c].jfd], MaxSlot + 1, p)
           /\ \E s \in Slots :
                LET cell == journal[pager[c].jfd][s]
                IN /\ cell = Stable(cell.cur) /\ cell.cur.kind = "record"
                   /\ cell.cur.pgno = p /\ cell.cur.data = ofFiles.image[p]]_vars

\* "At this point the journal has been finalized and the transaction
\* successfully committed [...] So it is safe to truncate the database file"
\* (pager_end_transaction()): the images that a power loss may bring back are
\* still those that were committed.
TruncationIsSafe ==
  [][\A c \in Conns :
       pager[c].pc = "end" => ofFiles'.undone \subseteq ofFiles.undone]_vars

\* Transactions are atomic, isolated and durable, with crashes anywhere and
\* errors in the calls of IoError (the promise at the head of pager.c).
Refinement == Abstract!Spec
=============================================================================
