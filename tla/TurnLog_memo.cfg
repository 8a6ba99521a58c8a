SPECIFICATION Spec
CONSTANTS
  Calls = {c1, c2}
  Writes = {}
  Contents = {d1, d2}
  Errors = {e1}
  Returns <- SameTool
  Slots = {s1, s2}
  MaxRuns = 2
  MaxReports = 1
  PROGRESS_LIMIT = 1
  FAILED_RETRIES = 1
  list = list
  write = write
  listed = listed
  wrote = wrote
  wrote2 = wrote2
INVARIANTS ProgressPaysForSteps
PROPERTIES ServedOnlyWhenQuiet RerunsJustified EveryRunEnds
CHECK_DEADLOCK FALSE
