\* A genuine token whose encoder writes the claims in another order.
CONSTANTS
    Objects = {o1}
    Keys = {"here", "there"}
    AlgOf <- KeyAlgs
    Algs = {"EdDSA", "ES256"}
    Certs = {"leaf", "ca"}
    Names = {"tee"}
    CmwRefuses = {}
    CmwReads <- Text
    Utf8 <- Text
    Nonces = {}
    OEMIDs = {}
    Texts = {}
    Sizes = {}
    ClaimsIn <- FewClaims
    RecordsIn <- FewRecords
    CollectionsIn = {}
    CertLists <- OneList
    Foreign <- Uncanonical
    MaxTokens = 1
SPECIFICATION Spec
INVARIANT StoredSignatureVerifies
