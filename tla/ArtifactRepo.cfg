CONSTANTS
  boot = boot
  app = app
  d1 = d1
  d2 = d2
  Names = {boot, app}
  Digests = {d1, d2}
  None = None
  Manifests <- MCManifests
SPECIFICATION Spec
INVARIANTS
  LinksWhole
  InUseStays
  AssertsHold
  InstalledIsBundle
