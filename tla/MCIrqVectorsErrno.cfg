CONSTANTS
    N = 2
    NR = 12
    xhci = xhci
    gpu = gpu
    nic = nic
    nic2 = nic2
    old = old
    Dev = {xhci, gpu, nic, nic2, old}
    Timer = Timer
    msi <- MsiOf
    msix <- MsixOf
SPECIFICATION Spec
INVARIANT MsixEntriesValid
CHECK_DEADLOCK FALSE
