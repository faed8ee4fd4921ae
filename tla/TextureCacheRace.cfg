SPECIFICATION Spec
CONSTANTS
    Addresses = {a1, a2}
    Images = {e1, e2, e3}
    Sizes = {small, large}
    None = None
    SlotCount = 2
    MaxBuffers = 2
    MaxCommits = 2
INVARIANT SameSequenceSameContent
CHECK_DEADLOCK FALSE
