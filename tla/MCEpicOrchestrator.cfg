CONSTANT Repo = {r1, r2, r3}
SPECIFICATION FairSpec
INVARIANTS RanIsNeverSkipped ResultIsHonest
PROPERTIES NothingStartsAfterCancel ImplementsDependencyRun EpicEnds CancelEnds
CHECK_DEADLOCK FALSE
