SPECIFICATION FairSpec
CONSTANTS
  Names = {n1}
  UUIDs = {u1}
  Ports = {p1}
  MuxModes = {TRUE}
  Null = Null
  Admins = {a1, a2}
  Loader = Loader
  Insts = {i1, i2, i3, i4, i5}
  Outsider = Outsider
  Squatting = FALSE
  Faults = FALSE
  Hanging = TRUE
  Crashes = TRUE
INVARIANT ListenersAccounted
PROPERTIES RequestReturns BootEnds
CHECK_DEADLOCK FALSE
