---------------------------- MODULE MCSignedApi ----------------------------
(* Small instances of SignedApi for TLC.                                   *)
EXTENDS SignedApi, TLC

CONSTANTS s1, h1, h2, b1, k1, w1, w2, terminal, console

\* Leg 1 is on sale; leg 2 was never seeded.
MCSeats == {s1}
MCLegs == {1, 2}
MCRows == {<<s1, 1>>}
Seat(legs) == [seat |-> s1, legs |-> legs]
MCSeatBodies == {Seat({1}), Seat({}), Seat({1, 2})}

MCRefs == {h1, h2}
MCBookings == {b1}
MCKeys == {k1}
MCServices == {terminal, console}
MCAllowed == {}
MCWorkers == {w1, w2}
MCTtls == {1}
MCSkews == {0}
\* One clock, and no skew accepted: what a request can be late by is the tick
\* between the check of its timestamp and its lookup.
MCClientSkews == {0}

Symmetry == Permutations(Refs) \cup Permutations(Workers) \cup Permutations(Services)
=============================================================================
