SPECIFICATION Spec
CONSTANTS
    Chunks = {0, 1}
    Zero = 0
    slot = slot
    booted = booted
    Devices = {slot, booted}
    NoDevice = NoDevice
    Target = slot
    Booted = booted
    Types = {"raw", "ext4", "ubifs", "nand"}
    d1 = d1
    d2 = d2
    d3 = d3
    d4 = d4
    d5 = d5
    Images <- MCImages
    Mixed <- MCMixed
    Blank <- MCBlank
    NoDigest = NoDigest
    None = None
INVARIANTS
    Copied
    OkIsWhole
    Answered
