SPECIFICATION Spec
CONSTANTS
  a = a
  b = b
  c = c
  Spaces <- MCSpaces2
  Parallel = 1
  NPages = 1
  NFrames = 6
  Libc = {}
  MaxRef = 3
  Values = {0, 1}
  Zero = 0
  MmapProts = {"rw"}
  Prots = {"ro", "rw"}
INVARIANTS WritableIsPrivate
VIEW StateView
SYMMETRY SpaceSymmetry
