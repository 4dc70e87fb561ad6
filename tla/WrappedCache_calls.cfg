SPECIFICATION Spec
CONSTANTS
  Threads = {t1, t2, t3}
  Keys = {k1, k2}
  Unset = Unset
  MaxCalls = 2
  Capacity = 1
INVARIANTS
  AnswerIsForItsKey
  HitsAreFindsMinusInserts
