\* Three attempts at once of two imports of one path, with one fault.
CONSTANTS
  file = file
  i = i
  j = j
  p = p
  q = q
  r = r
  Op = {i, j}
  Path = {file}
  PathOf <- MCPathOf
  Proc = {p, q, r}
  OpOf <- MCOpOf
  Inputs <- MCInputs
  Faults = {"lost", "garbled", "drop", "late", "crash", "forget"}
  Budget = 1
  None = None
SPECIFICATION FairSpec
INVARIANTS UploadsInv OkPublishedThis AppliedIsNotRefused
PROPERTIES RepeatedImportEnds
