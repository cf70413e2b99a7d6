CONSTANTS
  v1 = v1
  d1 = d1
  d2 = d2
  p1 = p1
  p2 = p2
  p3 = p3
  p4 = p4
  m1 = m1
  Idle = Idle
  Unhandled = Unhandled
  Vcpus = {v1}
  Resources <- MCResourcesSmall
  ResType <- MCResType
  Base <- MCBase
  Length <- MCLength
  Owner <- MCOwner
  Addrs = {0, 1, 3, 4}
  MaxCount = 2
SPECIFICATION Spec
INVARIANT UnhandledPioReadAllOnes
