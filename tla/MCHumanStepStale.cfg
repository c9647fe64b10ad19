CONSTANTS User = {u1}
          Required = 1
          Action = {"approve", "request_changes"}
          LoopEdge = {"onRequestChanges"}
          MaxVisit = 2
          MaxRow = 2
SPECIFICATION Spec
INVARIANTS VisitAnsweredByItsOwnStep
CHECK_DEADLOCK FALSE
