---------------------------- MODULE MCMissedBlocks ----------------------------
(* MissedBlocks with an update schedule of two intervals.                  *)
EXTENDS MissedBlocks

MCSchedule == <<1, 2>>

=============================================================================
