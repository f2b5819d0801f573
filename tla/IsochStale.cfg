SPECIFICATION Spec
CONSTANTS
    PerDirection = 1
    SupportedRates = {48}
    DefaultRate = 48
    OtherRates = {}
    ClockArguments = {2}
    Faults = FALSE
    HostAborts = TRUE
    MaxOutstanding = 2
PROPERTY NoStaleSamples
