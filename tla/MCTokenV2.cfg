\* One object that is filled, signed, encoded, changed and decoded into, in any
\* order, with signatures that are moved about.
CONSTANTS
    Objects = {o1}
    Keys = {"here", "there"}
    AlgOf <- KeyAlgs
    Algs = {"EdDSA", "ES256"}
    Certs = {"leaf", "ca"}
    Names = {"tee"}
    CmwRefuses = {}
    CmwReads <- Text
    Utf8 <- Text
    Nonces = {}
    OEMIDs = {}
    Texts = {}
    Sizes = {}
    ClaimsIn <- SizedClaims
    RecordsIn <- TextRecords
    CollectionsIn = {}
    CertLists <- OneList
    Foreign <- Others
    MaxTokens = 2
SPECIFICATION Spec
INVARIANTS TypeOK VerifiedIsSigned TokensDecode
