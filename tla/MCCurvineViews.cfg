\* Three readers, one of a worker endpoint; an early close, a release and a
\* write at any moment.
CONSTANTS
  p = p
  q = q
  r = r
  o1 = o1
  o2 = o2
  x = x
  y = y
  Op = {o1, o2}
  Native = {o1}
  Proc = {p, q, r}
  OpOf <- MCOpOf
  Output = {x, y}
  OutputOf <- MCOutputOf
  Lengths <- MCLengths
  Faults = {"lost", "drop", "crash", "user"}
  Budget = 1
  None = None
SPECIFICATION Spec
INVARIANTS ReadIsExact PinsFollowReads
PROPERTIES OutputsAreKept
CHECK_DEADLOCK FALSE
