CONSTANTS
  r1 = r1
  r2 = r2
  r3 = r3
  m1 = m1
  m2 = m2
  Requests = {r1, r2, r3}
  Ids = {"the-movie"}
  NoId = ""
  Metadata = {m1, m2}
  NoMetadata = NoMetadata
  MaxFaults = 2
SPECIFICATION FairSpec
INVARIANTS TypeOK CacheMatchesDatabase AcknowledgedPutIsStored LoadsBoundedByLostLocks
PROPERTIES ImplementsStore LiveCallReturns
