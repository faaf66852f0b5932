\* Saves of either instance between pages of one row or two.
SPECIFICATION Spec
CONSTANTS
  Instances <- TwoInstances
  Tasks <- TwoTasks
  Times <- TwoTimes
  Limits = {1, 2}
  Unpageable = {}
  NoRow = NoRow
  MaxSaves = 1
INVARIANTS
  QuietRowsAreListed
  ListedOnceUnlessTurned
PROPERTY EndsExactly
