\* Files of up to three chunks and three changes at any moment.
CONSTANTS
  MaxLen = 3
  MaxChanges = 3
SPECIFICATION Spec
INVARIANT CopyIsOneVersion
CHECK_DEADLOCK FALSE
