------------------------------ MODULE MCEvents ------------------------------
(* Small instances of Events for TLC.                                      *)
EXTENDS Events

CONSTANTS s1, s2, h1, h2, b1, w1, p1

\* Two seats, one of them with two legs.
MCSeats == {s1, s2}
MCLegs == {1, 2}
MCRows == {<<s1, 1>>, <<s1, 2>>, <<s2, 1>>}

MCRefs == {h1, h2}
MCBookings == {b1}
MCOneWorker == {w1}
MCReapers == {p1}
MCTtls == {1}
MCSkews == {0}
MCWithoutCancel == AllKinds \ {"cancel"}
=============================================================================
