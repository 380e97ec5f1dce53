\* Two requests at a time: an incident leaves CLOSED.
SPECIFICATION Spec
CONSTANTS
  r1 = r1  r2 = r2  r3 = r3  r4 = r4  r5 = r5  u1 = u1  u2 = u2
  Requests = {r1, r2, r3, r4, r5}
  Pool = 2
  Users = {}
  None = None
SYMMETRY RequestSymmetry
PROPERTIES
  ClosedIsTerminal
CHECK_DEADLOCK FALSE
