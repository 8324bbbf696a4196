SPECIFICATION FairSpec
CONSTANTS
  Callers = {worker, mgmt}
  Management = mgmt
  Flusher = flusher
  Nobody = nobody
  MaxEntries = 2
INVARIANTS
  WrittenInOrder
  NothingVanishes
  FlushWritesEarlier
  StopWritesAll
PROPERTIES
  EventuallyWritten
  CallsReturn
