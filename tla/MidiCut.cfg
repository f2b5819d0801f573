SPECIFICATION Spec
CONSTANTS
    Cables = {0, 1}
    Strays = {}
    Room = 2
    Lists <- CutLists
    Sayings = {}
    MaxLine = 1
INVARIANT CablesCarryTheirMessages
