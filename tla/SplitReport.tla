---------------------------- MODULE SplitReport ----------------------------
(***************************************************************************)
(* The split counter that this repository adds to btree.c and the report   *)
(* that its shell prints after every command: the pages of the file before *)
(* and after, and the count of splits.  A command is one statement here.   *)
(***************************************************************************)
EXTENDS MCBTree

VARIABLES
  split_count,   \* the counter
  before_pages,  \* "Pages before"; "Pages after" is file.nPage
  quicks         \* calls of balance_quick() in the command

reportVars == <<vars, split_count, before_pages, quicks>>

ReportInit == Init /\ split_count = 0 /\ before_pages = file.nPage /\ quicks = 0

\* shell_exec() notes the pages and resets the counter before it runs the
\* statement.
Reset == split_count' = 0 /\ before_pages' = file.nPage /\ quicks' = 0

ShellExec == Statement /\ Reset

CountDeeper ==
  /\ BalanceDeeper
  /\ split_count' = split_count + 1
  /\ UNCHANGED <<before_pages, quicks>>

\* The siblings of the running balance that overflow.
Overflowing ==
  LET sib == Siblings(node[ParentAt.pg], ParentAt.ix)
  IN {x \in DOMAIN sib.pgs : node[sib.pgs[x]].ovfl # <<>>}

SlipCountNonroot ==
  /\ BalanceNonroot
  /\ split_count' = 1 + Cardinality(Overflowing)
  /\ UNCHANGED <<before_pages, quicks>>

\* balance_nonroot() counts the call, and again each sibling that overflows.
CountNonroot ==
  /\ BalanceNonroot
  /\ split_count' = split_count + 1 + Cardinality(Overflowing)
  /\ UNCHANGED <<before_pages, quicks>>

CountQuick ==
  /\ BalanceQuick
  /\ quicks' = quicks + 1
  /\ UNCHANGED <<split_count, before_pages>>

CountNothing ==
  (BalanceDone \/ Rollback) /\ UNCHANGED <<split_count, before_pages, quicks>>

ReportNext ==
  ShellExec \/ CountDeeper \/ CountNonroot \/ CountQuick \/ CountNothing

ReportSpec == ReportInit /\ [][ReportNext]_reportVars

-----------------------------------------------------------------------------
\* The pages that a command adds to the file are explained by what was
\* counted and by the calls of balance_quick(), which is not counted: a split
\* into three pages is counted often enough.  (Payloads without overflow
\* pages.)
GrowthIsCounted == file.nPage - before_pages <= split_count + quicks
=============================================================================
