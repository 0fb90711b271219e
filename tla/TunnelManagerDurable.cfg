SPECIFICATION Spec
CONSTANTS
  Names = {n1, n2}
  UUIDs = {u1}
  Ports = {p1}
  MuxModes = {FALSE}
  Null = Null
  Admins = {a1, a2}
  Loader = Loader
  Insts = {i1, i2, i3, i4, i5}
  Outsider = Outsider
  Squatting = TRUE
  Faults = TRUE
  Hanging = TRUE
  Crashes = TRUE
INVARIANTS TypeOK SavedUnlessBusy
PROPERTIES DurableRequests
SYMMETRY Interchangeable
CHECK_DEADLOCK FALSE
