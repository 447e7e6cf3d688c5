CONSTANTS
    PAGE = 4
    ALIGN = 2
    NPages = 4
    BYTE = 4
    Kernel = 1
    Default = 4
    Maps <- SmallMaps
    Sizes = {1, 3}
    MaxFrees = 1
SPECIFICATION Spec
INVARIANT KernelImageSafe
\* The model stops where the code would index past the end of the bitmap.
CHECK_DEADLOCK FALSE
