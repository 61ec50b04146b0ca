\* The daemon from its start: two executables and two requests.
CONSTANTS
    Paths <- TwoPaths
    MixedCase = {}
    Elsewhere = {}
    PluginNames = {"tee", "cpu"}
    Configs <- SomeConfigs
    AuthConfigs <- SomeAuthConfigs
    UserNames = {"Ann", "ann", "bob"}
    Fold <- Folded
    Passwords = {"pw1", "pw2"}
    Asked <- SomeAsked
    Clients = {c1, c2}
    Names = {"tee", "cpu"}
    Challenges <- SomeChallenges
    ContentTypes = {"t"}
    FormatLists <- OneFormatList
    FailureCodes = {}
    CmwRefuses = {}
    OptionLists <- Lists
SPECIFICATION FairSpec
INVARIANTS
    ServedIsAuthorised
    OneAnswer
    TokenCoversDirectory
    ListIsComplete
PROPERTIES
    SharedMapsAreFixed
    ImplementsService
    EveryRequestEnds
CHECK_DEADLOCK FALSE
