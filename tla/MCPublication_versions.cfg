\* Two goroutines that publish, load, start and edit, while kinds register.
SPECIFICATION Spec
CONSTANTS
  Clients = {c1, c2}
  Kinds <- MCKinds
  Plans <- MCPlans
  NoObject = NoObject
  MaxVersions = 2
SYMMETRY Symmetric
INVARIANTS
  OwnershipInv
  PublishedStaysExecutable
  StartedAsAsked
PROPERTY VersionsAreImmutable
