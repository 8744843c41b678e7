CONSTANTS
    Keys = {1, 2, 3, 4, 5, 6}
    RIDs = {1}
    CtorArgs <- MCCtorArgs
    PageSize = 4096
    MaxSlot = 4
    MaxPages = 8
    RemoveDepth <- FewRemoves
SPECIFICATION Spec
CHECK_DEADLOCK FALSE
INVARIANTS ScanMatchesLookups ParentsRight KeysInOrder LeafMovesKeepLookups
PROPERTIES RefinesIndex
