SPECIFICATION FairSpec
CONSTANTS
    A = A
    B = B
    v1 = v1
    v2 = v2
    root = root
    app = app
    Broken = Broken
    NoDigest = NoDigest
    NoSlot = NoSlot
    Slots = {A, B}
    PresetOrder <- MCOrder
    Parts = {root}
    RootPart = root
    Images <- MCImages
    Factory <- MCFactory
    Bundles <- OneUpdate
    Bootable <- AllBoot
    InstallSame <- AlwaysWrite
    ActivateInstalled = TRUE
    PostInstallHandler = TRUE
    MarkRequests <- GoodOnly
    ConfirmBeforeInstall = FALSE
PROPERTIES
    Recovers
    InstallEnds
