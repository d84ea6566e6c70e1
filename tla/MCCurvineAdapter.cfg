\* A life cycle under two faults: replies lost, unreadable, late or meant for another
\* question, servers replaced, a process that dies.
CONSTANTS
  file = file
  other = other
  k1 = k1
  a = a
  r = r
  c = c
  Entity = {file, other}
  Op = {a, r, c}
  Action <- MCAction
  Target <- MCTarget
  Key = {k1}
  KeyOf <- MCKeyOf
  Offers <- MCOffers
  None = None
  Faults = {"lost", "garbled", "version", "misroute", "code", "refuse", "late", "offer", "crash"}
  Budget = 2
SPECIFICATION FairSpec
INVARIANTS AdapterInv DefiniteErrorIsFinal
PROPERTIES EffectIsLearnt ReleasedComesBack
CHECK_DEADLOCK FALSE
