SPECIFICATION Spec
CONSTANTS
  Views = {v1}
  Popups = {}
  None = None
  Left = left
  Buttons = {left, right}
  Width = 1
  InitialWidth = 2
  MinWidth = 2
  TableSize = 2
  MaxEvents = 4
  MaxGrabs = 1
  MaxToggles = 1
INVARIANTS ButtonsConverge ScrollAtMostOnce
CHECK_DEADLOCK FALSE
