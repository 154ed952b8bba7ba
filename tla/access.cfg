SPECIFICATION MCSpec
CONSTANTS
  None = None
  u1 = u1  u2 = u2  u3 = u3
  k1 = k1  k2 = k2
  m1 = m1  m2 = m2  m3 = m3
  p1 = p1  p2 = p2  p3 = p3
  Users = {u1, u2, u3}
  Tokens = {k1, k2}
  Requests = {r1, r2}
  Addresses = {m1, m2, m3}
  Properties = {p1, p2, p3}
  Details = {1, 2, 3}
  Calls <- SomeCalls
  Second = 2
  Life = 2
  MaxTime = 4
SYMMETRY Alike
INVARIANTS TypeOK NoStandingNoEffect SomeAdmin AddressesIdentify PagesPartition
PROPERTIES RevokedStaysOut OthersStayIn OnlyRequestedChanges WithinScope ReassignmentStands OwnersMayServe
CHECK_DEADLOCK FALSE
