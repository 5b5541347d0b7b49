\* One job that has printed something, and one page.
CONSTANTS
    Caps = {3}
    MarkerBytes = 1
    Chunk = 2
    BufferBytes = 1
    MaxOutput = 2
    MaxPatches = 0
    MaxFaults = 0
SPECIFICATION LogSpec
INVARIANTS
    SentIsShown
