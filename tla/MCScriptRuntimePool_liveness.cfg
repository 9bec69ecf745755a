SPECIFICATION FairSpec
CONSTANTS
  p1 = p1
  p2 = p2
  p3 = p3
  r1 = r1
  r2 = r2
  Paid = {p1, p2}
  Plain = {r1}
  Slots = {s1}
  PermitCap = 1
  WaiterLimit = 1
  RequestLimit = 1
  RequestRoom = 2
  Envelope = 2
  Size <- Sizes
  None = None
CHECK_DEADLOCK FALSE
PROPERTY EverythingReturns
