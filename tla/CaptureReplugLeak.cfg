\* What architecture.md says of replugged devices; violated.
CONSTANTS
  kbd = kbd
  mouse = mouse
  f1 = f1
  f2 = f2
  Paths = {mouse}
  Targets = {mouse}
  Files = {f1, f2}
  Poll = poll
  Main = main
  NoFile = NoFile
  NoPath = NoPath
  Nobody = Nobody
  X11Ready = TRUE
  MaxPlugs = 1
SPECIFICATION Spec
INVARIANT RefreshedSetIsLive
