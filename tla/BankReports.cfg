SPECIFICATION Spec
CONSTANTS
  Worker = {w1, w2}
  NULL = NULL
  MAX_NUM_REPORTS = 3
  MAX_LOG_ENTRIES = 1
  Periods = 2
INVARIANT
  ReportsTogether
CHECK_DEADLOCK FALSE
