SPECIFICATION FairSpec
CONSTANTS
  a = a
  b = b
  c = c
  d = d
  h = h
  Router = {a, b, c, d}
  Host = h
  Links <- MCLinks
  Latency <- MCLatency
  INFINITY = 16
  MaxAge = 4
  StillOnWire = 0
  Failing <- MCFailing
  MaxChanges = 2
INVARIANTS
  CostsReal
PROPERTIES
  StaleRoutesDie
  RoutesFound
