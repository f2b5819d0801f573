SPECIFICATION MCSpec
CONSTANTS
    Frames = 4
    Target = 1
    Requests = {0, 1, 3, 5}
    Word = 16
    MaxWrite = 9
    Clients = {plugin, tool}
    MaxObjects = 3
INVARIANTS ClientsShareTheRing FillBound CopiedIntact ReadWithinAvailable NoSharedCell
PROPERTIES BacklogBounded StreamSpec FullRingDrains ClientAttaches
