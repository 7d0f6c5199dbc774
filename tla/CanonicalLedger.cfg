SPECIFICATION Spec
CONSTANTS
  t1 = t1
  t2 = t2
  s1 = s1
  s2 = s2
  s3 = s3
  s4 = s4
  s5 = s5
  s6 = s6
  f1 = f1
  f2 = f2
  c1 = c1
  c2 = c2
  g1 = g1
  none = none
  noEvent = noEvent
  Tenants <- MCTenants
  SourceIds <- MCSourceIds
  Files <- MCFiles
  Lines = {2, 3, 4, 5}
  Contents <- MCContents
  Diagnostics = {"EXCEEDS"}
  EventIds <- MCEventIds
  IdempotencyKeys <- MCIdem
  Accounts = {"acc"}
  BusinessKeys = {"sale", "ret", "ret2"}
  Goods = {g1}
  NoDiagnostics <- none
  NoId <- none
  NoEvent <- noEvent
  Offers <- MCOffers
  MaxBatch = 2
INVARIANTS
  TypeOK
  IndexesAgree
  Traceable
  RevisionsFormChains
  ReversalsWithinOriginal
  TracedSourceStays
PROPERTIES
  AppendOnly
  ImplementsContract
