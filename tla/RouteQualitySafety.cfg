SPECIFICATION Spec
CONSTANTS
  N = 2
  Window = 2
  FailLimit = 1
  NormalLimit = 2
  Margin = 1
  Cooldown = 1
  Policies = {"priority", "quality"}
  MaxRebuilds = 1
INVARIANTS SamplesOfOneInstance
PROPERTIES NoFlapping SwitchToWorking
