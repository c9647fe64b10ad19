CONSTANTS User = {u1, u2}
          Required = 2
          Action = {"approve", "request_changes"}
          LoopEdge = {"onRequestChanges", "onTimeout"}
          MaxVisit = 2
          MaxRow = 2
SPECIFICATION Spec
SYMMETRY Symmetry
INVARIANTS AcknowledgedIsRecorded ApprovalIsBacked NeverStranded
PROPERTIES ClosedStaysClosed
CHECK_DEADLOCK FALSE
