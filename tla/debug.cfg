SPECIFICATION Spec
CONSTANTS
    BufferSize = 80
    Lengths <- SomeLengths
INVARIANT LineFits
