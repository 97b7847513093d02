SPECIFICATION Spec
CONSTANTS
    Opt = "Speed"
    Kept <- ZigpakBenchmarks
    Targets <- ZigpakOnly
    Workers = 2
    NoStep = NoStep
INVARIANTS
    ZigpakFindsData

