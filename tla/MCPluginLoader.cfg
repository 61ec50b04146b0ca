\* Three executables with every configuration, failure and crash.
CONSTANTS
    Paths <- ThreePaths
    MixedCase <- OneMixedCase
    Elsewhere <- OneElsewhere
    Names <- ThreeNames
SPECIFICATION FairSpec
INVARIANTS
    TypeOK
    OnlyVerifiedRun
    RunningIsKnown
    NothingRunsAfterClose
    ServesWholeDirectory
PROPERTIES
    NamesAreNotReused
    StartupEnds
CHECK_DEADLOCK FALSE
