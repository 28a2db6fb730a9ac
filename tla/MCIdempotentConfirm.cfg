SPECIFICATION Spec
CONSTANTS
  s1 = s1
  h1 = h1
  h2 = h2
  b1 = b1
  b2 = b2
  k1 = k1
  terminal = terminal
  w1 = w1
  w2 = w2
  NoRef = NoRef
  NoBooking = NoBooking
  NoKey = NoKey
  NoBody = NoBody
  Seats <- MCSeats
  Legs <- MCLegs
  Rows <- MCRows
  Refs <- MCRefs
  Bookings <- MCBookings
  Keys <- MCKeys
  SeatBodies <- MCSeatBodies
  Services <- MCServices
  Workers <- MCOneWorker
  Ttls <- MCTtls
  Skews <- MCSkews
  Kinds <- MCConfirmKinds
  Retention = 1
  BatchLimit = 1
  CacheTtl = 3
  MaxRuns = 3
  MaxFaults = 1
  MaxTime = 2
INVARIANTS
  ConfirmIdempotent
