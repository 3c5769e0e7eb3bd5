SPECIFICATION Spec
CONSTANTS
  a = a
  b = b
  c = c
  shell = shell
  Users <- MCUsers
  Shell = shell
  Nil = Nil
  Aps = {}
  MaxSlots = 4
  Weight <- MCWeightOne
  Sigs = {}
  ShellDoes = {"spawn"}
  Preemptible = FALSE
INVARIANTS TableExact KnowsItself NoLostWakeup
PROPERTIES ExitStatusKept
SYMMETRY UserSymmetry
