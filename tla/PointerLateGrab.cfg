SPECIFICATION Spec
CONSTANTS
  Views = {v1}
  Popups = {}
  None = None
  Left = left
  Buttons = {left}
  Width = 1
  InitialWidth = 2
  MinWidth = 2
  TableSize = 2
  MaxEvents = 2
  MaxGrabs = 1
  MaxToggles = 0
INVARIANT ButtonStateTracked
CHECK_DEADLOCK FALSE
