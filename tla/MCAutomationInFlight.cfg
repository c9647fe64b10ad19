CONSTANTS Delivery = {d1, d2}
          Occurrence = {o1, o2}
          Subject = {s1, s2}
          MaxRunsPerDay = 2
          HasCooldown = FALSE
          StartAttempts = 3
SPECIFICATION Spec
INVARIANTS ScopeRunsOneAtATime
CHECK_DEADLOCK FALSE
