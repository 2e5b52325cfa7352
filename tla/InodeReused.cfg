SPECIFICATION Spec
CONSTANTS
  p1 = p1
  p2 = p2
  Procs = {p1, p2}
  Names = {"b"}
  Inums = {root, i2, i3}
  ROOTINO = root
  None = None
  Nobody = Nobody
  Calls <- FileCalls
SYMMETRY Symmetry
INVARIANTS NoLostInodes
