SPECIFICATION Spec
CONSTANTS
    s1 = s1
    s2 = s2
    s3 = s3
    Slots = {s1, s2, s3}
    PresetOrder <- MCOrder
    NoSlot = NoSlot
    NoCall = NoCall
    Foreign = Foreign
    Configured <- MCAttempts
    Loaders = {"efi"}
INVARIANT FailuresAreAnswered
