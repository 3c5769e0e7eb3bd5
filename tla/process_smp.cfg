SPECIFICATION Spec
CONSTANTS
  a = a
  b = b
  c = c
  shell = shell
  Users <- MCUsers2
  Shell = shell
  Nil = Nil
  Aps = {1}
  MaxSlots = 4
  Weight <- MCWeightOne
  Sigs = {"KILL"}
  ShellDoes = {"spawn", "killzombie", "wait", "waitall", "sleep"}
  Preemptible = TRUE
INVARIANTS OneCoreEach
