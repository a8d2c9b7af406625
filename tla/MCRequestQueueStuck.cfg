\* One request more than the buffer and the worker hold together.
CONSTANTS
  Requests = {r1, r2, r3}
  Capacity = 1
  MaxRetries = 3
  None = None
SPECIFICATION FairSpec
PROPERTIES
  RescheduledIsAttempted
