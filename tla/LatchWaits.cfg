SPECIFICATION Spec
CONSTANTS
  Workers = {w1, w2}
  Trippers = {t1}
INVARIANT WaitsForInflight
CHECK_DEADLOCK FALSE
