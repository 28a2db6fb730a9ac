SPECIFICATION Spec
CONSTANTS
  s1 = s1
  s2 = s2
  h1 = h1
  h2 = h2
  b1 = b1
  b2 = b2
  NoRef = NoRef
  NoBooking = NoBooking
  Seats <- MCSeats
  Legs <- MCLegs
  Rows <- MCRows
  Refs <- MCRefs
  Bookings <- MCBookings
  Ttls <- MCTtls
  Skews <- MCSkews
  Retention = 1
  BatchLimit = 1
  MaxTime = 3
  Kinds <- AllKinds
SYMMETRY Symmetry
INVARIANTS
  TypeOK
  NoOrphanHoldRef
  BookedNeverHeld
PROPERTIES
  AuditTrailKept
  RowsFollowTheirHold
  ImplementsSale
