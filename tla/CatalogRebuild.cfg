SPECIFICATION LifeSpec
CONSTANTS
    Objects = {"a"}
    Clusters = {{0}, {0, 1}}
    Volatile = {1}
    NoCatalog = NoCatalog
    TornFile = TornFile
    MaxStops = 1
    MaxFailures = 0
CHECK_DEADLOCK FALSE
INVARIANT CatalogRebuilt
