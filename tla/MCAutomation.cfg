CONSTANTS Delivery = {d1, d2, d3}
          Occurrence = {o1, o2}
          Subject = {s1, s2}
          MaxRunsPerDay = 1
          HasCooldown = TRUE
          StartAttempts = 2
SPECIFICATION Spec
SYMMETRY Alike
INVARIANTS StartsWithinLimits SubjectRunsOnce TakenOnce DecisionStands
CHECK_DEADLOCK FALSE
