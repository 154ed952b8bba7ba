SPECIFICATION Spec
CONSTANTS
  None = None
  r1 = r1  r2 = r2  r3 = r3
  c1 = c1  c2 = c2
  a1 = a1  a2 = a2
  p1 = p1
  s1 = s1  s2 = s2  s3 = s3
  b1 = b1  b2 = b2
  Requests = {r1, r2, r3}
  Clients = {c1, c2}
  Agents = {a1}
  Properties = {p1}
  Slots = {s1, s2}
  SlotAgent <- OneAgent
  SlotProperty <- OneProperty
  SlotTime <- TwoTimes
  Times <- OneOrTwo
  Seeded = {b1}
  Listings <- AlwaysActive
  MaxNow = 0
SYMMETRY Alike
INVARIANT CancelNotifiedOnce
CHECK_DEADLOCK FALSE
