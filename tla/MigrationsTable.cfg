CONSTANTS
  auth = auth
  metadata1 = metadata1
  metadata2 = metadata2
  rating = rating
  Processes <- Services
  Version <- EmbeddedVersion
  References <- ForeignKeys
  MaxFaults = 2
SPECIFICATION Spec
INVARIANT ServingHasTable
