CONSTANTS
  q1 = q1
  q2 = q2
  q3 = q3
  Request = {q1, q2, q3}
  Named = {q1, q2}
  Records = 2
  Polls = 1
  Clearing = FALSE
  NoOne = NoOne
SPECIFICATION Spec
INVARIANT ReleaseExcludesGeneration
CHECK_DEADLOCK FALSE
