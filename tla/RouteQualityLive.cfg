SPECIFICATION FairSpec
CONSTANTS
  N = 2
  Window = 1
  FailLimit = 2
  NormalLimit = 2
  Margin = 1
  Cooldown = 1
  Policies = {"priority", "quality"}
  MaxRebuilds = 0
PROPERTIES Converges
