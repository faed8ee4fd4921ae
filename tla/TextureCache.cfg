SPECIFICATION Spec
CONSTANTS
    Addresses = {a1, a2}
    Images = {e1, e2, e3}
    Sizes = {small, large}
    None = None
    SlotCount = 2
    MaxBuffers = 3
    MaxCommits = 3
SYMMETRY CacheSymmetry
INVARIANTS TypeOK ImagesOwned CurrentImageExists OneSize
CHECK_DEADLOCK FALSE
