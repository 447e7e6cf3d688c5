CONSTANTS
    PAGE = 6
    ALIGN = 2
    NPages = 5
    BYTE = 8
    Kernel = 1
    Default = 4
    Maps <- FirmwareMaps
    Sizes = {0, 1, 4, 6, 7}
    MaxFrees = 0
SPECIFICATION Spec
INVARIANTS NoOverlap InUsableMemory BlocksAligned
