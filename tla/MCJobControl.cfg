SPECIFICATION Spec
CONSTANTS
  Jobs = {j1}
  OtherRequests = {o1}
  NodeCapacity = 1
INVARIANTS
  StartedAtMostOnce
  StopIntentPersisted
  OutcomeAgrees
  LossExplained
  NoProtocolError
PROPERTIES
  TerminalStable
