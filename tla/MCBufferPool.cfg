\* Two frames for three pages, two outstanding Page*, two page contents.
SPECIFICATION Spec
CONSTANTS
    PoolSize = 2
    MaxPages = 3
    Data = {Zero, a}
    Zero = Zero
    Handles = {h1, h2}
    NoPin = NoPin
    NoPage = NoPage
    CleanNewPages = FALSE
SYMMETRY Symmetry
INVARIANTS
    TableMatchesFrames
    FreeFramesAreFree
    PinnedPageStays
    PinCountIsExact
    ReplacerMatchesPins
    IdsAreAllocated
    NoFrameIsLost
    CleanPageIsOnDisk
    NonResidentIsInFile
PROPERTIES
    ImplementsPageStore
