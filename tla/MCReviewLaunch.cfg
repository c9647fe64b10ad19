CONSTANTS Dispatcher = {d1, d2, d3}
          MaxAttempts = 3
SPECIFICATION FairSpec
INVARIANTS OneReviewPerIntent AttemptsAreClaimed StartedRan
PROPERTIES EveryIntentSettles
CHECK_DEADLOCK FALSE
