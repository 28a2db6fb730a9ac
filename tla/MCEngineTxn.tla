----------------------------- MODULE MCEngineTxn -----------------------------
(* Small instances of EngineTxn for TLC.                                   *)
EXTENDS EngineTxn, TLC

CONSTANTS s1, h1, h2, b1, w1, w2, w3, p1, p2

MCSeats == {s1}

\* Two legs on sale; leg 3 has no inventory.
MCLegs == {1, 2, 3}
MCRows == {<<s1, 1>>, <<s1, 2>>}
TwoLegs == [legs |-> {1, 2}, len |-> 2]
\* A request the completeness check refuses.
Unseeded == [legs |-> {2, 3}, len |-> 2]
MCTwoLegs == {TwoLegs}
MCWithUnseeded == {TwoLegs, Unseeded}

\* Three legs on sale: journeys that overlap in the middle one, and one
\* that shares the seat with the first without sharing a leg.
MCThreeRows == {<<s1, 1>>, <<s1, 2>>, <<s1, 3>>}
MCOverlapping == {[legs |-> {1, 2}, len |-> 2], [legs |-> {2, 3}, len |-> 2],
                  [legs |-> {3}, len |-> 1]}

MCRefs == {h1, h2}
MCBookings == {b1}
MCWorkers == {w1, w2}
MCThreeWorkers == {w1, w2, w3}
MCReapers == {p1}
MCTwoReapers == {p1, p2}

MCTtls == {1}
MCSkews == {0}
MCWithoutCancel == AllKinds \ {"cancel"}

Symmetry == Permutations(Refs) \cup Permutations(Bookings)
            \cup Permutations(Workers) \cup Permutations(Reapers)
=============================================================================
