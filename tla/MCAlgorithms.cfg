SPECIFICATION Spec
CONSTANTS
    MaxName = 3
    mWidth = 5
    mHeight = 6
    Fg = 7
    Bg = 0
INVARIANT InputsUnderstood
INVARIANT TextLands
