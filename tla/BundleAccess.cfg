SPECIFICATION Spec
CONSTANTS
    Files <- MCFiles
    Configs <- MCConfigs
    MaxSig = 4
    Trailer = 1
    Block = 4
INVARIANTS
    ServedIsSigned
    Released
PROPERTIES
    OutputsWhole
    CommandEnds
