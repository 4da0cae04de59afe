SPECIFICATION MCSpec
CONSTANTS
  i1 = i1
  i2 = i2
  i3 = i3
  o1 = o1
  o2 = o2
  o3 = o3
  c1 = c1
  c2 = c2
  c3 = c3
  w1 = w1
  w2 = w2
  w3 = w3
  Identities = {i1, i2, i3}
  Objects = {o1, o2, o3}
  Clients = {c1, c2, c3}
  Reconcilers = {w1, w2, w3}
  ReferenceTTL = 1
  LeaseTerm = 1
  Grace = 1
  UrlTTL = 1
  RetryAfter = 1
  Budget = 1
  BatchSize = 1
  MaxLag = 0
  MaxUploads = 1
  Horizon = 2
SYMMETRY Symmetry
INVARIANT
  UnreferencedIsQueued
CHECK_DEADLOCK FALSE
