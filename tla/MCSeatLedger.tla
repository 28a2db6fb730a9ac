---------------------------- MODULE MCSeatLedger ----------------------------
(* Small instances of SeatLedger for TLC.                                  *)
EXTENDS SeatLedger, TLC

CONSTANTS s1, s2, h1, h2, b1, b2

\* Two seats; leg 2 of seat s2 was never seeded, so it cannot be sold.
MCSeats == {s1, s2}
MCLegs == {1, 2}
MCRows == {<<s1, 1>>, <<s1, 2>>, <<s2, 1>>}

MCRefs == {h1, h2}
MCBookings == {b1, b2}

\* A lifetime that the slowest lock wait can outlive, and a longer one.
MCTtls == {1, 2}
\* The engine's clock agrees with the database's, or is one tick behind.
MCSkews == {-1, 0}

Symmetry == Permutations(MCRefs) \cup Permutations(MCBookings)
=============================================================================
