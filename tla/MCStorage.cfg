SPECIFICATION MCSpec
CONSTANTS
  c1 = c1
  c2 = c2
  d1 = d1
  d2 = d2
  s1 = s1
  k1 = k1
  w1 = w1
  inline = inline
  i1 = i1
  o1 = o1
  Nobody = Nobody
  Objects = {bundle}
  Runs = {r1, r2}
  Publishers = {p1, p2}
  Drains = {d1, d2}
  Grace = 2
  ClaimTime = 1
  MaxAttempts = 2
  Creators = {c1, c2}
  Requests = {q1}
  Incarnations = 2
  NameClaimTime = 1
  NameRetryDelay = 1
  RetryDelays <- ShortRetries
INVARIANTS
  ReferencedIsStored
  BytesAreTracked
PROPERTIES
  CleanupsEnd
CHECK_DEADLOCK FALSE
