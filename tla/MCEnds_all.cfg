\* Small instances of each, under the fairness of its scheduling.
SPECIFICATION Spec
CONSTANTS
  Clients = {c1, c2}
  Nothing = Nothing
PROPERTIES
  EveryCallReturns
  CanceledCallReturns
  EveryReadEnds
