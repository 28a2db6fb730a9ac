SPECIFICATION Spec
CONSTANTS
  s1 = s1
  s2 = s2
  h1 = h1
  h2 = h2
  b1 = b1
  w1 = w1
  p1 = p1
  NoRef = NoRef
  NoBooking = NoBooking
  Seats <- MCSeats
  Legs <- MCLegs
  Rows <- MCRows
  Refs <- MCRefs
  Bookings <- MCBookings
  Workers <- MCOneWorker
  Reapers <- MCReapers
  Ttls <- MCTtls
  Skews <- MCSkews
  Kinds <- MCWithoutCancel
  Retention = 1
  BatchLimit = 2
  MaxInFlight = 2
  MaxFaults = 0
  MaxTime = 1
PROPERTIES
  UpdateBeforeReleased
