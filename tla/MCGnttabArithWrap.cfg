CONSTANTS
    PageSize = 4
    MaxPages = 4
    Width = 4

SPECIFICATION Spec

INVARIANT
    BufferHoldsPages
