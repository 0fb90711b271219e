SPECIFICATION Spec
CONSTANTS
  Names = {n1}
  UUIDs = {u1}
  Ports = {p1}
  MuxModes = {TRUE}
  Null = Null
  Admins = {a1}
  Loader = Loader
  Insts = {i1, i2, i3, i4}
  Outsider = Outsider
  Squatting = FALSE
  Faults = FALSE
  Hanging = FALSE
  Crashes = FALSE
INVARIANT DisabledDoesNotListen
CHECK_DEADLOCK FALSE
