\* Claims with an adjust function and no map, as the setters leave them.
CONSTANTS
    Objects = {o1}
    Keys = {"here", "there"}
    AlgOf <- KeyAlgs
    Algs = {"EdDSA", "ES256"}
    Certs = {"leaf", "ca"}
    Names = {"tee"}
    CmwRefuses = {}
    CmwReads <- Text
    Utf8 <- Text
    Nonces <- OddNonces
    OEMIDs = {}
    Texts = {}
    Sizes = {}
    ClaimsIn = {}
    RecordsIn <- FewRecords
    CollectionsIn = {}
    CertLists <- OneList
    Foreign = {}
    MaxTokens = 1
SPECIFICATION Spec
INVARIANT AdjustClaimsOfCddl
