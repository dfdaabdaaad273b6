\* 50 and 20 pixels scaled to 3 and 2, eight per cent of the remote width to a
\* quarter of it, 32 pixels to 2; widths from the narrowest on.
CONSTANTS
  LocalWidths = {2, 3, 8}
  RemoteWidths = {2, 5, 8}
  EntryClearance = 3
  RearmDistance = 2
  RemoteReturnMargin = 2
  FracNum = 1
  FracDen = 4
  MaxDelta = 2
SPECIFICATION Spec
INVARIANTS NoBounce KeysFollow
