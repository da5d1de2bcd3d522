SPECIFICATION Spec
CONSTANTS
  Tids = {t1, t2}
  Workers = {w1, w2}
  MaxTraces = 1
  MaxDecoded = 2
  NoTid = NoTid
  NoTrace = NoTrace
INVARIANT TotalWithinLimit
