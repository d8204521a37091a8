----------------------------- MODULE MCCommandGate -----------------------------
(***************************************************************************)
(* A small instance of CommandGate: two gates on one file, and a           *)
(* controller whose leases expire while commands are under way.            *)
(***************************************************************************)
EXTENDS CommandGate, TLC

GateSymmetry == Permutations(Gates)

=============================================================================
