\* Two calls while the platform is updated twice, comes and goes.
CONSTANTS
    Calls = {c1, c2}
    Asks <- SomeAsks
    Platforms <- SomePlatforms
    MaxVersion = 2
SPECIFICATION Spec
INVARIANTS
    TypeOK
    AnnouncedIsAccepted
    ReadDuringCall
    EvidenceReadsBack
PROPERTIES
    ImplementsPlugin
