SPECIFICATION Spec
CONSTANTS
    A = A
    B = B
    v1 = v1
    v2 = v2
    root = root
    app = app
    Broken = Broken
    NoDigest = NoDigest
    NoSlot = NoSlot
    Slots = {A, B}
    PresetOrder <- MCOrder
    Parts = {root, app}
    RootPart = root
    Images <- MCImages
    Factory <- MCFactory
    Bundles <- FullOnly
    Bootable <- GoodReleases
    InstallSame <- SkipChildOnly
    ActivateInstalled = TRUE
    PostInstallHandler = TRUE
    MarkRequests <- GoodOnly
    ConfirmBeforeInstall = TRUE
PROPERTY RollsBack
