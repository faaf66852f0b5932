\* One call after another, transfers to anybody: who decides how often.
SPECIFICATION Spec
CONSTANTS
  Nodes <- MCNodes
  StartNode = "start"
  EndNodes <- MCEndNodes
  Outcomes <- MCOutcomes
  Route <- MCRoute
  Actors <- MCActors
  States = {}
  CommandNames <- MCCommandNames
  MaxVersion = 4
  NoInstance = NoInstance
  Initiators = {"ann"}
  Operators = {"bob"}
  Clients = {c1}
  ActivateResults <- MCActivate
  HandleResults <- MCHandle
  Configs <- MCConfigs
  Directory <- SmallDirectory
INVARIANT OneDecisionPerPerson
