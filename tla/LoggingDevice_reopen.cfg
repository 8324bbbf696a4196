SPECIFICATION FairSpec
CONSTANTS
  Callers = {worker, mgmt}
  Management = mgmt
  Flusher = flusher
  Nobody = nobody
  MaxEntries = 1
PROPERTY
  AssertionsAbort
