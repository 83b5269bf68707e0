---------------------------- MODULE MCRunControl ----------------------------
EXTENDS RunControl, TLC

CONSTANTS f1, f2, a1, a2, d1, d2, p1, p2

NoAsks == << >>
OneAsk == <<a1>>
TwoAsks == <<a1, a2>>

\* Follow-ups, dispatchers and passes are interchangeable.
Symmetry ==
    Permutations(Followups) \cup Permutations(Dispatchers) \cup Permutations(Passes)

=============================================================================
