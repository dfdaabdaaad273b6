\* 65535 scaled to 4, the jump threshold to 2, a gain of three halves.
CONSTANTS
  Far = 4
  Jump = 2
  GainNum = 3
  GainDen = 2
SPECIFICATION Spec
INVARIANTS TypeOK NoStuckKeys AltGrIsNotCtrl
PROPERTIES ShortcutHasCtrl EntrySnaps
