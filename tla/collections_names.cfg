CONSTANTS
    Walk <- NamesWithManifests
    Configured <- Off
    SaveableSettings <- OnOrOff
    DefaultInterval = 2
    UploadTTL = 2
    MaxAge = 1
    MaxFaults = 0
    MaxRestarts = 0
    None = None
SPECIFICATION FairSpec
PROPERTIES EveryRepositoryIsCollected
