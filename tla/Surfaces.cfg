SPECIFICATION Spec
CONSTANTS
    Toplevels = {t1, t2}
    Subsurfaces = {s1}
    Popups = {p1, p2}
    Sizes = {small, large}
    Places = {here}
    None = None
    MaxRequests = 8
    MaxQueued = 2
SYMMETRY SurfaceSymmetry
INVARIANTS TypeOK UnmapFindsSurface MirrorConverges TextureLifetime ListsHoldOwnChildren
CHECK_DEADLOCK FALSE
