\* One pointer, fair goroutines; liveness.
CONSTANTS
  kbd = kbd
  mouse = mouse
  f1 = f1
  f2 = f2
  Paths = {mouse}
  Targets = {mouse}
  Files = {f1}
  Poll = poll
  Main = main
  NoFile = NoFile
  NoPath = NoPath
  Nobody = Nobody
  X11Ready = TRUE
  MaxPlugs = 0
SPECIFICATION FairSpec
PROPERTIES InputReturns SuppressionCompletes StopDrains
