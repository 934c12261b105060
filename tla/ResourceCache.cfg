CONSTANTS
    Kinds <- AllKinds
    Empty = Empty
    MaxVersion = 5
    MaxFailures = 1
SPECIFICATION CacheSpec
PROPERTIES ReloadShowsTheWrite PolledListConverges
