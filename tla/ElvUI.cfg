CONSTANTS
    MaxVersion = 2
    MaxCount = 2
SPECIFICATION FairSpec
INVARIANTS
    TypeOK
    AnnouncedOnce
    SeenMeansAnnounced
PROPERTY NewVersionAnnounced
