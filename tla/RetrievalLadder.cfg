CONSTANTS
    Main = main
    Diagnostics = {shadow}
    Runners = {r1, r2}
    Rungs = 2
    MaxAttempts = 2
    Outcomes = {"promote", "hold"}
    MaxWindows = 3
SPECIFICATION Spec
SYMMETRY Symmetry
INVARIANTS
    ReviewsAreWhole
PROPERTIES
    HeadsOnlyExtend
