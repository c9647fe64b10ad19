CONSTANTS Attempt = {a1, a2, a3}
          MaxPass = 2
          MaxDecision = 3
SPECIFICATION Spec
SYMMETRY AttemptsAreAlike
INVARIANTS OwedApprovalHolds FreeKeyIsSafe
PROPERTIES ImplementsEffectOnce
CHECK_DEADLOCK FALSE
