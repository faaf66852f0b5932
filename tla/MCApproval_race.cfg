\* Two calls racing on the approval workflow.
SPECIFICATION Spec
CONSTANTS
  Nodes <- MCNodes
  StartNode = "start"
  EndNodes <- MCEndNodes
  Outcomes <- MCOutcomes
  Route <- MCRoute
  Actors <- MCActors
  States = {}
  CommandNames <- MCCommandNames
  MaxVersion = 5
  NoInstance = NoInstance
  Initiators = {"ann"}
  Operators = {"bob"}
  Clients = {c1, c2}
  ActivateResults <- MCActivate
  HandleResults <- MCHandle
  Configs <- MCConfigs
  Directory <- MCDirectory
SYMMETRY Symmetric
INVARIANTS
  NoStrandedWork
  SnapshotIsCurrent
  DecisionsAreOnRecord
  ClosedForAReason
  OrSignDecidesOnce
PROPERTY ImplementsContract
