CONSTANTS
    PAGE = 6
    ALIGN = 2
    NPages = 6
    BYTE = 8
    Kernel = 1
    Default = 5
    Maps <- HoleMaps
    Sizes = {0, 1, 4, 6, 7}
    MaxFrees = 0
SPECIFICATION Spec
PROPERTY FirstFit
