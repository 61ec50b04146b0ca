\* A plugin may put any status code on a failed GetEvidence, 200 among them.
CONSTANTS
    Requests = {r1}
    Names <- PairNames
    Challenges <- PairChallenges
    LoadedSets <- PairLoaded
    ContentTypes <- PairTypes
    FormatLists <- PairFormatLists
    FailureCodes = {200, 400, 500}
    CmwRefuses = {}
SPECIFICATION Spec
INVARIANT OkCarriesEvidence
