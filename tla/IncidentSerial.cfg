\* One request at a time: the service implements the workflow.
SPECIFICATION Spec
CONSTANTS
  r1 = r1  r2 = r2  r3 = r3  r4 = r4  r5 = r5  u1 = u1  u2 = u2
  Requests = {r1, r2, r3, r4, r5}
  Pool = 1
  Users = {u1, u2}
  None = None
SYMMETRY RequestSymmetry
INVARIANTS
  AssigneeMatchesTimeline
PROPERTIES
  ImplementsWorkflow
CHECK_DEADLOCK FALSE
