\* A commit whose acknowledgement is lost.
SPECIFICATION Spec
CONSTANTS
  Clients = {c1}
  Dialect = "postgres"
  Faults = {"ack"}
  Absent = Absent
  MaxVersion = 2
INVARIANT FailurePreservesAggregate
