--------------------------- MODULE MCSplitReport ----------------------------
(***************************************************************************)
(* SplitReport on the tree that the script of MCBTreeScript has built; each*)
(* statement of the script is a command, too.                              *)
(***************************************************************************)
EXTENDS SplitReport, MCBTreeScript

mcReportVars == <<reportVars, stage, todo, ops>>

MCReportInit == MCInit /\ ReportInit

MCReportNext ==
  \/ (Filling \/ Enlarging \/ Thinning \/ FreeStatement) /\ Reset
  \/ (NextStage \/ Over) /\ UNCHANGED <<split_count, before_pages, quicks>>
  \/ /\ CountDeeper \/ CountNonroot \/ CountQuick \/ CountNothing
     /\ UNCHANGED <<stage, todo, ops>>

MCReportSpec == MCReportInit /\ [][MCReportNext]_mcReportVars
=============================================================================
