SPECIFICATION MCSpec
CONSTANTS
    PerDirection = 1
    SupportedRates = {44, 48}
    DefaultRate = 48
    OtherRates = {32}
    ClockArguments = {1, 2, 257}
    Faults = FALSE
    HostAborts = TRUE
    MaxOutstanding = 2
INVARIANTS TypeOK PipesFollowIO RatesAgree PendingMatchesRequest
PROPERTIES RequestsConserved TransportRecovers UnlockedIsSilenced CoreAudioFollows RateIsFollowed
