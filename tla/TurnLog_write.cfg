SPECIFICATION Spec
CONSTANTS
  Calls = {list, write}
  Writes = {write}
  Contents = {listed, wrote, wrote2}
  Errors = {}
  Returns <- OfItsOwn
  Slots = {s1, s2}
  MaxRuns = 1
  MaxReports = 0
  PROGRESS_LIMIT = 2
  FAILED_RETRIES = 1
  list = list
  write = write
  listed = listed
  wrote = wrote
  wrote2 = wrote2
PROPERTY WriteSeenByRead
CHECK_DEADLOCK FALSE
