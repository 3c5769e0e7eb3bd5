SPECIFICATION Spec
CONSTANTS
  a = a
  b = b
  c = c
  Spaces <- MCSpaces2
  Parallel = 2
  NPages = 1
  NFrames = 6
  Libc = {1}
  MaxRef = 3
  Values = {0, 1}
  Zero = 0
  MmapProts = {"rw"}
  Prots = {"ro", "rw"}
INVARIANT LibcUnpatched
VIEW StateView
SYMMETRY SpaceSymmetry
