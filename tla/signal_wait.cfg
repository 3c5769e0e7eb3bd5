SPECIFICATION FairSpec
CONSTANTS
  a = a
  b = b
  c = c
  shell = shell
  Users <- MCUsers2
  Shell = shell
  Nil = Nil
  Aps = {}
  MaxSlots = 3
  Weight <- MCWeightOne
  Sigs = {"KILL"}
  ShellDoes = {"spawn"}
  Preemptible = FALSE
PROPERTIES SignalEndsWait
