------------------------- MODULE MCProtectionEvidence -------------------------
(***************************************************************************)
(* A small instance of ProtectionEvidence: two threads, a wall clock that  *)
(* is set back once, and native capture times up to one instant ahead.     *)
(***************************************************************************)
EXTENDS ProtectionEvidence

MCWallOf == [i \in Instants |-> IF i < 2 THEN i + 1 ELSE i]

MCStamps == {}

=============================================================================
