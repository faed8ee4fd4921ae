SPECIFICATION Spec
CONSTANTS
    Toplevels = {t1}
    Subsurfaces = {}
    Popups = {p1}
    Sizes = {small}
    Places = {here, there}
    None = None
    MaxRequests = 7
    MaxQueued = 2
INVARIANT PopupPositionFollows
CHECK_DEADLOCK FALSE
