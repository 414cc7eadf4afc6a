\* Every handler; the device of the GPT and eMMC slots gets blocks in any order.
CONSTANTS
    Kinds <- AllKinds
    v1 = v1
    v2 = v2
    Images <- TwoImages
    Cached <- OwnSync
SPECIFICATION Spec
INVARIANTS
    BootTypeOK
    AlwaysBootable
    InstalledBoots
    ActiveReadOnly
