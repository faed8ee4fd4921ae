SPECIFICATION Spec
CONSTANTS
  Views = {v1, v2}
  Popups = {p1}
  None = None
  Left = left
  Buttons = {left}
  Width = 1
  InitialWidth = 2
  MinWidth = 2
  TableSize = 2
  MaxEvents = 2
  MaxGrabs = 1
  MaxToggles = 1
SYMMETRY ViewSymmetry
INVARIANTS TypeOK NoLeakedButtons
PROPERTY GrabMovesOnlyItsView
CHECK_DEADLOCK FALSE
