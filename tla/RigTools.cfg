SPECIFICATION MCSpec
CONSTANTS
    RigCount = 2
    Contents <- SmallRigs
    Lost = {0, 2, 5, 9}
    Rests <- SmallRests
    Width = 2
    MaxSymbols = 7
    Values <- SelectorValues
    Cables = {0, 1}
    Strays = {2}
    Room = 4
    Lists <- WholeLists
    Sayings <- RackSayings
    MaxLine = 2
INVARIANTS RowsAreTheCaptures SummaryShowsTheRig
INVARIANTS CatalogDescribesDisplay SiblingsAlike UnpackIsBitStream
INVARIANTS CablesCarryTheirMessages LifetimesNest
PROPERTY BridgeStops
