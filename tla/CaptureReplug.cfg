\* One pointer that may be unplugged and come back; safety.
CONSTANTS
  kbd = kbd
  mouse = mouse
  f1 = f1
  f2 = f2
  Paths = {mouse}
  Targets = {mouse}
  Files = {f1, f2}
  Poll = poll
  Main = main
  NoFile = NoFile
  NoPath = NoPath
  Nobody = Nobody
  X11Ready = TRUE
  MaxPlugs = 1
SPECIFICATION Spec
INVARIANTS TypeOK StoppedClean LocalInputFree NoLocalLeak GrabsTracked
PROPERTIES NoBounceBack NoBounceOut KeepsOwnership
SYMMETRY Descriptors
