\* One instance is enough: the migration runs, the earlier adapter saves, and it
\* runs again.
SPECIFICATION Spec
CONSTANTS
  Instances = {i1}
  Savers = {s1}
  Absent = Absent
  MaxVersion = 2
INVARIANT ResumedTasksAreCurrent
