CONSTANTS
  e1 = e1
  e2 = e2
  a = a
  b = b
  Entry = {e1, e2}
  Blob = {a, b}
  Needs <- MCTwo
  Cap = 1
  Archiving = FALSE
SPECIFICATION Spec
INVARIANT CommittedRowsAreWhole
