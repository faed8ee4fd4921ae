SPECIFICATION TurnsSpec
CONSTANTS
  Views = {v1, v2, v3}
  Keyboards = {k1, k2}
  Dart = dart
  Keys = {alt, shift, tab, logo, up}
  DartKeys = {tab}
  Alt = alt
  Shift = shift
  Logo = logo
  Tab = tab
  Arrows = {up}
  ShiftTabs = {k2}
  None = None
  Chords = {{alt}, {shift}, {tab}, {alt, shift}, {alt, tab}, {alt, shift, tab}, {logo}, {logo, up}, {logo, tab}}
  Shared = {alt, tab}
  MaxShared = 2
SYMMETRY Symmetry
INVARIANTS TypeOK AltTabReachesAll
PROPERTIES OnlyGrabsAndClearsSplit RefinesSeat
CHECK_DEADLOCK FALSE
