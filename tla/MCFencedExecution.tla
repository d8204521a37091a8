--------------------------- MODULE MCFencedExecution ---------------------------
(***************************************************************************)
(* A small instance of FencedExecution: two requests, of two transactions  *)
(* or of the same one, and two handoffs of one resource between two        *)
(* controllers.                                                            *)
(***************************************************************************)
EXTENDS FencedExecution, TLC

MCClients == Calls \cup Handoffs

\* Requests are interchangeable.
CallSymmetry == Permutations(Calls)

=============================================================================
