\* One call after another, handlers proposing everything.
SPECIFICATION Spec
CONSTANTS
  Nodes <- MCNodes
  StartNode = "start"
  EndNodes <- MCEndNodes
  Outcomes <- MCOutcomes
  Route <- MCRoute
  Actors <- MCActors
  States <- MCStates
  CommandNames <- MCCommandNames
  MaxVersion = 4
  NoInstance = NoInstance
  Initiators = {"ann"}
  Operators = {"bob"}
  Clients = {c1}
  ActivateResults <- MCActivate
  HandleResults <- MCHandle
INVARIANTS
  IInv
  AuditTellsThePath
  TransfersHappened
PROPERTIES
  ImplementsContract
  ReturnKeepsState
