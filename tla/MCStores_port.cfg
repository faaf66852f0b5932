\* Every adapter under the same two clients.
SPECIFICATION Spec
CONSTANTS
  Clients = {c1, c2}
  Absent = Absent
  Contents = {b0, b1}
  Content0 = b0
  Objects = {1, 2, 3, 4, 5}
  MemoryVersions = 2
  SqlVersions = 3
SYMMETRY Symmetric
INVARIANTS
  HeapInv
  SqlInv
  ProjectionIsCurrent
PROPERTY ImplementsPort
