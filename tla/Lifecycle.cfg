CONSTANTS
  metadata1 = metadata1
  metadata2 = metadata2
  rating = rating
  auth = auth
  Nobody = Nobody
  Instances <- Processes
  Service <- ServiceOf
  Port <- PortOf
  Callers = {caller}
  MaxAttempts <- Attempts
  MaxFaults = 2
SPECIFICATION MCSpec
INVARIANTS TypeOK CutOnlyByFault DeregisteredAtEnd
PROPERTIES EndedIsForgotten SignalledEnds CallsEnd
CHECK_DEADLOCK FALSE
