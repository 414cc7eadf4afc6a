\* The eMMC handler on a kernel that loses writes of the register.
CONSTANTS
    Kinds <- EmmcOnly
    v1 = v1
    v2 = v2
    Images <- TwoImages
    Cached <- EmmcOnly
SPECIFICATION Spec
INVARIANT Toggled
