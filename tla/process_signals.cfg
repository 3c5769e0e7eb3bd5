SPECIFICATION Spec
CONSTANTS
  a = a
  b = b
  c = c
  shell = shell
  Users <- MCUsers2
  Shell = shell
  Nil = Nil
  Aps = {}
  MaxSlots = 3
  Weight <- MCWeightOne
  Sigs = {"STOP", "CONT"}
  ShellDoes = {"spawn", "signal", "kill"}
  Preemptible = FALSE
INVARIANTS TypeOK NoLostWakeup RingThreeRuns
PROPERTIES DeadStayDead
