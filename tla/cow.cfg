SPECIFICATION Spec
CONSTANTS
  a = a
  b = b
  c = c
  Spaces <- MCSpaces2
  Parallel = 2
  NPages = 2
  NFrames = 7
  Libc = {1}
  MaxRef = 3
  Values = {0}
  Zero = 0
  MmapProts = {"rw"}
  Prots = {"ro", "rw"}
INVARIANTS TypeOK CountsExact LibcIntact
VIEW StateView
SYMMETRY SpaceSymmetry
