SPECIFICATION Spec
CONSTANTS
  a = a
  b = b
  c = c
  Spaces <- MCSpaces
  Parallel = 2
  NPages = 1
  NFrames = 8
  Libc = {}
  MaxRef = 3
  Values = {0, 1}
  Zero = 0
  MmapProts = {"rw"}
  Prots = {"rw"}
INVARIANTS WritableIsPrivate
PROPERTIES MemoryIsPrivate
VIEW StateView
SYMMETRY SpaceSymmetry
