\* One request, with every kind of challenge, plugin answer and failure.
CONSTANTS
    Requests = {r1}
    Names <- RichNames
    Challenges <- RichChallenges
    LoadedSets <- RichLoaded
    ContentTypes <- RichTypes
    FormatLists <- RichFormatLists
    FailureCodes = {400, 500, 503}
    CmwRefuses = {"__cmwc_t"}
SPECIFICATION Spec
INVARIANTS
    TypeOK
    OneResponse
    TokenIsComplete
    OnlyWantedAttesters
    SelectionIsLoop
