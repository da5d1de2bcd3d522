SPECIFICATION Spec
CONSTANTS
  Tids = {t1, t2}
  Workers = {w1, w2}
  MaxTraces = 0
  MaxDecoded = 2
  NoTid = NoTid
  NoTrace = NoTrace
INVARIANTS
  SuccessMeansExported
PROPERTY Exits
