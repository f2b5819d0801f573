SPECIFICATION RestartSpec
CONSTANTS
    Frames = 4
    Target = 1
    Requests = {1, 3}
    Word = 16
    MaxWrite = 5
INVARIANT ReadsOnlyAvailable
