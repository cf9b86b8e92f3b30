---------------------------- MODULE MCBriefingRun ---------------------------
(***************************************************************************)
(* Two runs: one that is replaced while it is at any stage, and the one    *)
(* that replaces it.  One transport retry and one repair.                  *)
(***************************************************************************)
EXTENDS BriefingRun

MCRuns == 1..LastRun

=============================================================================
