\* The program is stopped and the disk fails at any step.
SPECIFICATION Spec
CONSTANTS
  Programs = {"dm", "e2"}
  Garbage = {0, 3}
  MaxId = 5
  Absent = Absent
  Empty = Empty
INVARIANTS
  TypeOK
  IdsUnique
  FileIsCurrent
CHECK_DEADLOCK FALSE
