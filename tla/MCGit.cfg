SPECIFICATION MCSpec
CONSTANTS
  s1 = s1
  s2 = s2
  k1 = k1
  k2 = k2
  t1 = t1
  t2 = t2
  t3 = t3
  Segments = {s1, s2}
  Compactors = {k1, k2}
  Sweepers = {w1}
  MaxPushes = 3
  MaxSpan = 3
  Inline = inline
  Requests = {t1, t2, t3}
  MaxHead = 2
SYMMETRY Symmetry
INVARIANTS
  MainIsCovered
  SegmentsAreKept
  HandlesAreSound
CHECK_DEADLOCK FALSE
