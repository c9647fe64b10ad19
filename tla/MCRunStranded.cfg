SPECIFICATION FairSpec
CONSTANTS
  Worker = {w1}
  Sweep = {s1}
  Canceller = {k1}
  Outcome = {"SUCCESS"}
  MaxSpend = 0
CHECK_DEADLOCK FALSE
PROPERTY StrandedRunsEnd
