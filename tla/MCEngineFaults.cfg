SPECIFICATION Spec
CONSTANTS
  s1 = s1
  h1 = h1
  h2 = h2
  b1 = b1
  w1 = w1
  w2 = w2
  w3 = w3
  p1 = p1
  p2 = p2
  NoRef = NoRef
  NoBooking = NoBooking
  NoProc = NoProc
  Stale = Stale
  Seats <- MCSeats
  Legs <- MCLegs
  Rows <- MCRows
  Refs <- MCRefs
  Bookings <- MCBookings
  Workers <- MCWorkers
  Reapers <- MCTwoReapers
  LegLists <- MCWithUnseeded
  Ttls <- MCTtls
  Skews <- MCSkews
  Kinds <- AllKinds
  Retention = 1
  BatchLimit = 1
  MaxFaults = 1
  MaxTime = 1
SYMMETRY Symmetry
INVARIANTS
  TypeOK
  CheckedStillTrue
  NeverStuck
  SingleReaper
PROPERTIES
  RefinesLedger
