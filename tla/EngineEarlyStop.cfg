SPECIFICATION FairSpec
CONSTANTS
    Requests = 1
    Rates = {44, 48}
    OddRates = {32}
    DefaultRate = 48
    StartupRaces = FALSE
    EarlyStops = TRUE
    ArmsFail = FALSE
    RateSetFails = FALSE
PROPERTY StopReleasesDevice
