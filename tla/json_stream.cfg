SPECIFICATION Spec
CONSTANTS
    Words <- MCWords
    HexLen = 2
    RuneLen = 2
    SubRejects <- MCRejects
    Profiles <- MCProfiles
    MaxChunk = 3
INVARIANTS
    ChunkIndependent
    TextPreserved
    StringsDecoded
    EventsNest
