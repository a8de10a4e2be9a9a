CONSTANTS
    Users = {u1}
    Names = {a, b}
    MaxSize = 1
    Modes = {"r", "w", "wa", "x"}
    Configurations <- MCConfigurations
    NoConfiguration <- MCNoConfiguration
    Options = {noSMB1}
    Defaults = {noSMB1}
SPECIFICATION Spec
SYMMETRY Symmetry
INVARIANTS TypeOK MemoryIsSafe TruncationIsTold OffsetsAgree LoadedIsFile Smb1IsAChoice
CHECK_DEADLOCK FALSE
