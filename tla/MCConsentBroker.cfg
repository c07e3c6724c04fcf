\* A turn and a helper that can ask and one branch that cannot; an ordinary topic and one that always asks.
SPECIFICATION BrokerSpec
CONSTANTS
  b1 = b1
  b2 = b2
  r1 = r1
  library = library
  write = write
  Branches = {b1, b2, r1}
  Topics = {library, write}
  AlwaysAsk = {write}
  Attended = {b1, b2}
  Requested <- SomeMatrices
INVARIANTS
  GrantsAreConsents
  ActsByConsent
PROPERTY
  NoTurnHangs
