CONSTANTS
    Tasks = {a, b}
    ProfileIds <- MCIds
    MaxVersion = 2
    Requests <- MCRequests
    File <- MCFile
    MaxCatalogue = 2
    ModelOutput <- MCModelOutput
    LevelOutput <- MCLevelOutput
    Lower <- MCLower
    WithLetter <- MCWithLetter
    LevelWords <- MCLevelWords
    DefaultLevels <- MCDefaultLevels
    Candidates = 1
    Ttl = 2
SPECIFICATION AllSpec
INVARIANTS
    FreshUnlessMissing
    ConfigIsLayered
    DiscoveredIsRecent
SYMMETRY Symmetry
