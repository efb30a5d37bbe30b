\* A shutdown with requests in progress, a second SIGTERM, an SDK that fails.
SPECIFICATION FairSpec
CONSTANTS
  r1 = r1
  r2 = r2
  Requests = {r1, r2}
  MaxSignals = 2
\* The process ends.
CHECK_DEADLOCK FALSE
INVARIANTS
  ShimTypeOK
  EndsOnlyWhenTold
  FinishedSpansAreFlushed
PROPERTIES
  EndsAfterSigterm
