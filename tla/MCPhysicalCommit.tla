--------------------------- MODULE MCPhysicalCommit ---------------------------
(***************************************************************************)
(* Small instances of PhysicalCommit, with a wall clock that advances with *)
(* the monotonic clock.                                                    *)
(***************************************************************************)
EXTENDS PhysicalCommit, TLC

MCWallOf == [i \in Instants |-> i + 1]

MCStamps == {}

\* Bound: of the commits and recoveries of an instance, three have begun.
ThreeCalls ==
  Cardinality({c \in Commits : job[c].pc # "idle"})
    + Cardinality({q \in Queries : recovery[q].pc # "idle"}) <= 3

MCSpec == CommitInit /\ [][CommitNext /\ ThreeCalls']_allVars

\* Commits are interchangeable, and so are recoveries.
CommitSymmetry == Permutations(Commits) \cup Permutations(Queries)

=============================================================================
