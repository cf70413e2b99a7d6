CONSTANTS
  t1 = t1
  t2 = t2
  e1 = e1
  e2 = e2
  e3 = e3
  k1 = k1
  k2 = k2
  NoEvent = NoEvent
  Threads <- MCThreadsOne
  Events <- MCEventsOne
  Key <- MCKey
  MaxWrites = 0
SPECIFICATION MCSpec
INVARIANT EventFdsClosed
