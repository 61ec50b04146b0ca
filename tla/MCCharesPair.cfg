\* Two requests at once over two plugins that may crash or hang.
CONSTANTS
    Requests = {r1, r2}
    Names <- PairNames
    Challenges <- PairChallenges
    LoadedSets <- PairLoaded
    ContentTypes <- PairTypes
    FormatLists <- PairFormatLists
    FailureCodes = {400}
    CmwRefuses = {}
SPECIFICATION FairSpec
INVARIANTS
    VerifierCanRecompute
    HandlerInv
PROPERTIES
    QuietAfterResponse
    EveryRequestSettles
    ImplementsChallengeResponse
