--------------------------- MODULE MCIdempotentApi ---------------------------
(* Small instances of IdempotentApi for TLC.                               *)
EXTENDS IdempotentApi, TLC

CONSTANTS s1, h1, h2, b1, b2, k1, w1, w2, terminal

\* Leg 1 is on sale; leg 2 was never seeded.
MCSeats == {s1}
MCLegs == {1, 2}
MCRows == {<<s1, 1>>}
Seat(legs) == [seat |-> s1, legs |-> legs]
MCSeatBodies == {Seat({1})}

\* Both legs on sale, each on its own.
MCTwoRows == {<<s1, 1>>, <<s1, 2>>}
MCTwoSeatBodies == {Seat({1}), Seat({2})}

MCRefs == {h1, h2}
MCBookings == {b1}
MCTwoBookings == {b1, b2}
MCServices == {terminal}
MCKeys == {k1}
MCWorkers == {w1, w2}
MCOneWorker == {w1}
MCTtls == {1}
MCSkews == {0}
MCHoldKinds == {"hold"}
MCConfirmKinds == {"hold", "confirm"}
=============================================================================
