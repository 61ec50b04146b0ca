\* An object and a caller that set, copy and change each other's claims, with
\* claims that are valid, lack something or are at the boundary.
CONSTANTS
    Objects = {o1}
    Slots = {s1}
    Maps = {m1, m2, m3}
    Names = {"", "tee"}
    Nonces = {7, 8}
    Sizes = {16}
    CmwValues = {"c", "odd", "none"}
    CmwTexts = {"Yw", "bw"}
    TextOf <- Texts
    Decodable = {"Yw"}
    FieldsIn <- SomeFields
    Foreign <- Others
    MaxTokens = 1
SPECIFICATION Spec
SYMMETRY MapsAreAlike
INVARIANTS TypeOK TokensDecode
PROPERTY OnlySetClaimsShares
