\* All the setters, with values at the boundary of what is valid, and tokens of
\* other encoders with one thing wrong in each.
CONSTANTS
    Objects = {o1}
    Keys = {}
    AlgOf <- KeyAlgs
    Algs = {"EdDSA", "ES256"}
    Certs = {"leaf", "ca"}
    Names = {"", "tee", "__ratsd", "0xff"}
    CmwRefuses = {}
    CmwReads <- Text
    Utf8 <- Text
    Nonces <- OddNonces
    OEMIDs = {0, 48482}
    Texts = {"", "ratsd"}
    Sizes = {16}
    ClaimsIn <- OddClaims
    RecordsIn <- OddRecords
    CollectionsIn <- OddCollections
    CertLists <- TwoLists
    Foreign <- OddOthers
    MaxTokens = 0
SPECIFICATION Spec
INVARIANTS RoundTrip
PROPERTY SettersKeepClaimsValid
