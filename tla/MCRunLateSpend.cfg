SPECIFICATION Spec
CONSTANTS
  Worker = {w1}
  Sweep = {s1}
  Canceller = {k1}
  Outcome = {"SUCCESS"}
  MaxSpend = 1
CHECK_DEADLOCK FALSE
INVARIANT StoppingSpendIsBilled
