\* Two patches, an intermission graphic, one the status bar shares and a texture,
\* in an arena that must be purged, and that grows once.
CONSTANTS
    p1 = p1
    p2 = p2
    w = w
    s = s
    t1 = t1
    Lump = {p1, p2, w, s}
    Texture = {t1}
    Pointer = {p1, p2, w, s, t1}
    NoUser = NoUser
    Size <- MCSize
    Patches <- MCPatches
    DrawnLumps = {p1}
    MapLumps = {p1}
    WiLumps = {w, s}
    StaticLump = s
    LevelSize = 1
    MaxLevel = 2
    MinRam = 4
    DefaultRam = 4
    MaxZones = 2
SPECIFICATION FairSpec
INVARIANTS
    TypeOK
    HeapIntact
    OwnersExact
    CursorsLive
    HeldKept
PROPERTIES
    HeapSpec
    CallReturns
CHECK_DEADLOCK FALSE
