\* One caller, so that no symmetry is needed; liveness.
SPECIFICATION FairSpec
CONSTANTS
  timer = timer  admin = admin
  Callers = {timer}
  MaxKey = 2
  PageSize = 1
  Evidence = {TRUE}
  TxTimeout = 1
  MaxClock = 1
  MaxFaults = 1
PROPERTIES SubmissionHeals
