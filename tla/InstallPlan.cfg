CONSTANTS
    None = None
    RealPath <- MCRealPath
    Confs <- MCConfs
    CmdLines <- MCCmdLines
    Devices = {"sda3"}
    Inputs <- MCInputs
    Foreign <- MCForeign
SPECIFICATION Spec
INVARIANTS
    TargetsIdle
    ImagesFit
    CreatedInstalls
    NeverOlder
