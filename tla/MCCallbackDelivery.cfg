CONSTANTS Sweep = {s1, s2}
          Manager = {m1, m2}
          Pruner = {p1}
SPECIFICATION FairSpec
INVARIANTS LatestAttemptDecides
PROPERTIES DeliveredIsFinal OwedIsNeverPruned EveryDeliverySettles
CHECK_DEADLOCK FALSE
