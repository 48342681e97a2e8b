SPECIFICATION FairSpec
CONSTANTS
    Requests = {r1, r2}
    Shapes <- MCShapes
    Start <- MCStart
    Metas <- MCMetas
    MaxDocs = 2
    MaxWrites = 1
    Primary = 1
    Extra = 1
    Selected = 1
    IdentityLimit = 2
    MaxEntries = 1
    MaxBuilding = 1
INVARIANTS TypeOK CachedIsCurrent BuildingIsOwned RetrievalIsBounded
PROPERTY RequestsEnd
CHECK_DEADLOCK TRUE
