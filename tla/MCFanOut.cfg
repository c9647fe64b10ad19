CONSTANTS N = 3
          Concurrency = 2
          Nested = TRUE
          Policy = {"warn", "retry", "continue"}
          Retries = 1
          Cap = 5
SPECIFICATION FairSpec
INVARIANTS StopInterruptsAll JoinIsComplete OutcomeIsHonest
PROPERTIES NothingStartsOnceDecided CancellationPassesPolicies OneDeliveryOneLiveConsumer FanOutEnds
CHECK_DEADLOCK FALSE
