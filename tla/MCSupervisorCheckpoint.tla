------------------------ MODULE MCSupervisorCheckpoint ------------------------
(***************************************************************************)
(* A small instance of SupervisorCheckpoint: two savers that overlap, two  *)
(* sequences, and restarts with the clock in between.                      *)
(***************************************************************************)
EXTENDS SupervisorCheckpoint, TLC

MCStamps == {}
SaverSymmetry == Permutations(Savers)

=============================================================================
