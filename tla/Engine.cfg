SPECIFICATION MCSpec
CONSTANTS
    Requests = 2
    Rates = {44, 48}
    OddRates = {32}
    DefaultRate = 48
    StartupRaces = TRUE
    EarlyStops = FALSE
    ArmsFail = TRUE
    RateSetFails = FALSE
    WordBytes = 2
    Lanes = 2
    PhaseWidth = 4
    Lengths = {0, 1, 3, 4}
    Pool = 1
    Packets = 2
    SampleRates = {22, 24, 48}
    Micro = 4
    MostFrames = 12
    MaxBytes = 16
    MaxMicros = 6
INVARIANTS InFlightIsExact DrainHasCallback FramesAreWhole PlaybackFollowsRate
PROPERTIES SwitchSpec RingRateIsFollowed StopReleasesDevice
