SPECIFICATION RoleSpec
CONSTANTS
  None = None
  r1 = r1  r2 = r2  r3 = r3  r4 = r4
  c1 = c1  c2 = c2
  a1 = a1
  p1 = p1
  s1 = s1  s2 = s2
  b1 = b1  b2 = b2
  Requests = {r1, r2, r3, r4}
  Agents = {a1}
  Properties = {p1}
  Slots = {s1, s2}
  SlotAgent <- OneAgent
  SlotProperty <- OneProperty
  SlotTime <- TwoTimes
  Times <- OneOrTwo
  Listings <- AlwaysActive
  MaxNow = 0
  Seeded = {b1}
  Clients = {c1, c2}
  Role <- TwoCreatesTwoCancels
SYMMETRY SameRole
INVARIANT NoDoubleBooking
CHECK_DEADLOCK FALSE
