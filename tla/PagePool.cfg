SPECIFICATION Spec
CONSTANTS
  Textures = {x1, x2, x3, x4, x5, x6}
  Sizes = {small, large}
  MaxStores = 2
  MaxFrames = 4
SYMMETRY TextureSymmetry
INVARIANTS TypeOK SceneIntact ListsDisjoint NothingOutlivesTwoFrames RenderedFrameComplete
CHECK_DEADLOCK FALSE
