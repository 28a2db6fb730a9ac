SPECIFICATION SignedSpec
CONSTANTS
  s1 = s1
  h1 = h1
  h2 = h2
  b1 = b1
  k1 = k1
  w1 = w1
  w2 = w2
  terminal = terminal
  console = console
  NoRef = NoRef
  NoBooking = NoBooking
  NoKey = NoKey
  NoBody = NoBody
  Seats <- MCSeats
  Legs <- MCLegs
  Rows <- MCRows
  Refs <- MCRefs
  Bookings <- MCBookings
  Services <- MCServices
  Keys <- MCKeys
  SeatBodies <- MCSeatBodies
  Workers <- MCWorkers
  Ttls <- MCTtls
  Skews <- MCSkews
  ClientSkews <- MCClientSkews
  Allowed <- MCAllowed
  Kinds <- AllKinds
  Retention = 1
  BatchLimit = 1
  CacheTtl = 2
  HmacSkew = 0
  LookupTime = 1
  MaxRuns = 2
  MaxFaults = 1
  MaxTime = 2
SYMMETRY Symmetry
INVARIANTS
  TypeOK
  OneRunPerKey
  AtMostOnce
  AnswersStand
PROPERTIES
  ReplayIsOwnResponse
  LiveEntryKept
  StoredIsFound
