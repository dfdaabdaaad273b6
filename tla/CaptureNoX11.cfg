\* Stop after a Run that could not reach X11; violated.
CONSTANTS
  kbd = kbd
  mouse = mouse
  f1 = f1
  f2 = f2
  Paths = {mouse}
  Targets = {mouse}
  Files = {f1}
  Poll = poll
  Main = main
  NoFile = NoFile
  NoPath = NoPath
  Nobody = Nobody
  X11Ready = FALSE
  MaxPlugs = 0
SPECIFICATION FairSpec
PROPERTY StopDrains
