\* Hosts of both adapters beside the migration, which fails and runs again.
SPECIFICATION Spec
CONSTANTS
  Instances = {i1, i2}
  Savers = {s1, s2}
  Absent = Absent
  MaxVersion = 3
SYMMETRY Symmetry
INVARIANTS
  QueryRowsNeverLead
  LagIsExplained
  WorklistsAreRight
