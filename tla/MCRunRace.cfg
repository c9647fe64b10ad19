SPECIFICATION Spec
CONSTANTS
  Worker = {w1}
  Sweep = {s1}
  Canceller = {k1, k2}
  Outcome = {"SUCCESS"}
  MaxSpend = 1
CHECK_DEADLOCK FALSE
SYMMETRY AttemptsAreAlike
INVARIANTS BilledExactlyOnce ReturnedMeansEnded SuccessIsEarned ReportedAtMostOnce CancelledIsStopped AcceptedCancelSticks
PROPERTY EndingIsFinal
