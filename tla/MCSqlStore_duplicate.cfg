\* Two creates of an identity that exists, on MySQL, nothing else failing.
SPECIFICATION Spec
CONSTANTS
  Clients = {c1, c2}
  Dialect = "mysql"
  Faults = {}
  Absent = Absent
  MaxVersion = 1
INVARIANT DuplicateIsReported
