SPECIFICATION Spec
CONSTANTS
  s1 = s1
  h1 = h1
  h2 = h2
  b1 = b1
  w1 = w1
  w2 = w2
  w3 = w3
  p1 = p1
  p2 = p2
  NoRef = NoRef
  NoBooking = NoBooking
  NoProc = NoProc
  Stale = Stale
  Seats <- MCSeats
  Legs <- MCLegs
  Rows <- MCThreeRows
  Refs <- MCRefs
  Bookings <- MCBookings
  Workers <- MCThreeWorkers
  Reapers <- MCReapers
  LegLists <- MCOverlapping
  Ttls <- MCTtls
  Skews <- MCSkews
  Kinds <- MCWithoutCancel
  Retention = 1
  BatchLimit = 1
  MaxFaults = 1
  MaxTime = 1
SYMMETRY Symmetry
INVARIANTS
  HoldsNeverDeadlock
  NoDoubleSale
  SnapshotShowsHolds
PROPERTIES
  ConfirmsBookSeats
