CONSTANTS
    Rates = {44, 48}
    DefaultRate = 48
    OtherRates = {32}
    ExternalSources = {2}
SPECIFICATION FairSpec
PROPERTIES Reconnects NoticesUnplug IdleRateFollowed
