\* Two overlapping requests, one URL in two representations, bodies of 1 and 2
\* chunks around a limit of 1.
CONSTANTS
  Request = {r1, r2}
  Nobody = Nobody
  Asks <- MCAsks
  Responses <- MCResponses
  LookupTimeout = 1
  MaxBody = 1
  MaxTtl = 2
  DefaultTtl = 0
  WriteDelay = 1
  Horizon = 3
SPECIFICATION Spec
SYMMETRY Symmetry
INVARIANTS TypeOK SharedEntriesArePublic StoredBodiesAreWhole EntriesDie
PROPERTIES ImplementsSharedCache
