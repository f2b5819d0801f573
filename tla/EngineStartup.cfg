SPECIFICATION FairSpec
CONSTANTS
    Requests = 1
    Rates = {44, 48}
    OddRates = {32}
    DefaultRate = 48
    StartupRaces = TRUE
    EarlyStops = FALSE
    ArmsFail = FALSE
    RateSetFails = FALSE
PROPERTY CoreRateIsFollowed
