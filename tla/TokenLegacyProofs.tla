-------------------------- MODULE TokenLegacyProofs --------------------------
(***************************************************************************)
(* Theorems about the legacy token, for every set of objects, callers,     *)
(* claims and foreign tokens.                                              *)
(***************************************************************************)
EXTENDS TokenLegacy, TLAPS

-----------------------------------------------------------------------------
(* Types *)

\* Claims that a holder may be given: with its own map, a new one, or none.
Own(h) == {c \in Claims : /\ c.map \subseteq claims[h].map \cup Unused
                          /\ \A r, q \in c.map : r = q}

LEMMA SetFieldsOwn ==
    ASSUME TypeOK, NEW h \in Holders, NEW f \in Fields
    PROVE  [claims[h] EXCEPT !.fields = f] \in Own(h)
    BY DEF TypeOK, Own, Claims

\* Every call on a holder but SetClaims stores claims of its own.
LEMMA ClaimsChanged ==
    ASSUME TypeOK, NEW h \in Holders, ChangeClaims(h)
    PROVE  \E c \in Own(h), maps \in [Maps -> SizeMap] : Store(h, c, maps)
<1> USE InputsAssumption, CmwAssumption
<1>1. claims[h] \in Claims /\ FieldsOf(h) \in Fields /\ heap \in [Maps -> SizeMap]
    BY DEF TypeOK, Claims, FieldsOf
<1>2. ASSUME NEW f \in Fields, SetFields(h, f)
      PROVE  \E c \in Own(h), maps \in [Maps -> SizeMap] : Store(h, c, maps)
    BY <1>1, <1>2, SetFieldsOwn DEF SetFields
<1>3. CASE SetNonce(h)
    <2>1. PICK length \in Nonces : SetFields(h, [FieldsOf(h) EXCEPT !.nonces = <<length>>])
        BY <1>3 DEF SetNonce
    <2>2. <<length>> \in Seq(Nat)
        BY <2>1
    <2>3. QED
        BY <1>1, <1>2, <2>1, <2>2 DEF Fields
<1>4. CASE SetNonceAdjustFn(h)
    <2>1. PICK f \in NonceAdjustFns : SetFields(h, [FieldsOf(h) EXCEPT !.fn = {f}])
        BY <1>4 DEF SetNonceAdjustFn
    <2>2. f \in STRING
        BY LiteralAssumption
    <2>3. QED
        BY <1>1, <1>2, <2>1, <2>2 DEF Fields
<1>5. CASE SetKeyandNonceSz(h)
    <2>1. PICK n \in Names, size \in Sizes,
               r \in IF claims[h].map = {} THEN Unused ELSE claims[h].map :
            Store(h, [claims[h] EXCEPT !.map = {r}], [heap EXCEPT ![r][n] = {size}])
        BY <1>5 DEF SetKeyandNonceSz
    <2>2. r \in Maps /\ r \in claims[h].map \cup Unused
        BY <1>1, <2>1 DEF Claims, Unused
    <2>3. [claims[h] EXCEPT !.map = {r}] \in Own(h)
        BY <1>1, <2>2 DEF Own, Claims
    <2>4. [heap EXCEPT ![r][n] = {size}] \in [Maps -> SizeMap]
        BY <1>1, <2>2 DEF SizeMap
    <2>5. QED
        BY <2>1, <2>3, <2>4
<1>6. CASE SetCMW(h)
    <2>1. PICK v \in CmwValues : \E text \in TextOf[v] :
            SetFields(h, [FieldsOf(h) EXCEPT !.cmw = {text}])
        BY <1>6 DEF SetCMW
    <2>2. QED
        BY <1>1, <1>2, <2>1 DEF Fields
<1>7. CASE WriteFields(h)
    BY <1>2, <1>7 DEF WriteFields
<1>8. QED
    BY <1>3, <1>4, <1>5, <1>6, <1>7 DEF ChangeClaims

LEMMA Copied ==
    ASSUME TypeOK, NEW h \in Holders, NEW v \in Token, StoreCopy(h, v)
    PROVE  \E c \in Own(h), maps \in [Maps -> SizeMap] : Store(h, c, maps)
<1> DEFINE sizes == [n \in Names |-> UNION {m[n] : m \in v.sizes}]
<1>1. PICK r \in Unused :
        Store(h, [fields |-> v.fields, map |-> {r : m \in v.sizes}], [heap EXCEPT ![r] = sizes])
    BY DEF StoreCopy
<1>2. v.fields \in Fields /\ v.sizes \subseteq SizeMap
    BY DEF Token
<1>3. sizes \in SizeMap
    BY <1>2 DEF SizeMap
<1>4. [heap EXCEPT ![r] = sizes] \in [Maps -> SizeMap]
    BY <1>3 DEF TypeOK
<1>5. {r : m \in v.sizes} \subseteq {r}
    OBVIOUS
<1>6. [fields |-> v.fields, map |-> {r : m \in v.sizes}] \in Own(h)
    BY <1>1, <1>2, <1>5 DEF Own, Claims, Unused
<1>7. QED
    BY <1>1, <1>4, <1>6

LEMMA ContentType ==
    ASSUME TypeOK, NEW h \in Holders
    PROVE  Content(h) \in Token
    BY DEF TypeOK, Content, Said, Claims, Token

LEMMA NewFieldsType == NewFields \in Fields /\ ZeroFields \in Fields
<1>1. LegacyProfile \in STRING
    BY LiteralAssumption
<1>2. {LegacyProfile} \in SUBSET STRING
    BY <1>1
<1>3. QED
    BY <1>2 DEF NewFields, ZeroFields, Fields

\* Every step that writes claims, but for SetClaims, gives one holder claims of
\* its own; SetClaims gives an object those of its caller.
LEMMA Steps ==
    ASSUME TypeOK, Next
    PROVE  \/ \E h \in Holders : \E c \in Own(h), maps \in [Maps -> SizeMap] : Store(h, c, maps)
           \/ \E o \in Objects, h \in Holders : SetClaims(o, h)
           \/ \E o \in Objects : MarshalJSON(o)
<1>1. ASSUME NEW h \in Holders, ChangeClaims(h)
      PROVE  \E c \in Own(h), maps \in [Maps -> SizeMap] : Store(h, c, maps)
    BY <1>1, ClaimsChanged
<1>2. ASSUME NEW o \in Objects, NewEvidence(o)
      PROVE  \E c \in Own(o), maps \in [Maps -> SizeMap] : Store(o, c, maps)
    BY <1>2, NewFieldsType DEF NewEvidence, Own, Claims, TypeOK
<1>3. ASSUME NEW o \in Objects, UnmarshalJSON(o)
      PROVE  \E c \in Own(o), maps \in [Maps -> SizeMap] : Store(o, c, maps)
    BY <1>3, Copied, InputsAssumption DEF UnmarshalJSON, TypeOK, Holders
<1>4. ASSUME NEW o \in Objects, NEW s \in Slots, GetClaims(o, s)
      PROVE  \E c \in Own(s), maps \in [Maps -> SizeMap] : Store(s, c, maps)
    BY <1>4, Copied, ContentType DEF GetClaims, Holders
<1>5. Objects \subseteq Holders /\ Slots \subseteq Holders
    BY DEF Holders
<1>6. QED
    BY <1>1, <1>2, <1>3, <1>4, <1>5 DEF Next

\* Every holder, map and token is of its type in every state.
THEOREM TypeCorrect == Spec => []TypeOK
<1>1. Init => TypeOK
    BY NewFieldsType DEF Init, TypeOK, Claims, EmptyMap, SizeMap
<1>2. TypeOK /\ [Next]_vars => TypeOK'
    <2> SUFFICES ASSUME TypeOK, [Next]_vars PROVE TypeOK'
        OBVIOUS
    <2>1. ASSUME NEW h \in Holders, NEW c \in Claims, NEW maps \in [Maps -> SizeMap],
                 Store(h, c, maps), \A r, q \in c.map : r = q
          PROVE  TypeOK'
        <3>1. claims' = [claims EXCEPT ![h] = c] /\ wire' = wire
            BY <2>1 DEF Store
        <3>2. EmptyMap \in SizeMap
            BY DEF EmptyMap, SizeMap
        <3>3. heap' \in [Maps -> SizeMap]
            BY <2>1, <3>2 DEF Store
        <3>4. QED
            BY <2>1, <3>1, <3>3 DEF TypeOK
    <2>2. ASSUME NEW o \in Objects, NEW h \in Holders, SetClaims(o, h)
          PROVE  TypeOK'
        BY <2>1, <2>2 DEF SetClaims, TypeOK, Holders
    <2>3. ASSUME NEW o \in Objects, MarshalJSON(o)
          PROVE  TypeOK'
        <3>1. Content(o) \in Token
            BY ContentType DEF Holders
        <3>2. Encoded(Content(o)) \in Token
            BY <3>1 DEF Encoded, Token
        <3>3. QED
            BY <2>3, <3>2 DEF MarshalJSON, Emit, TypeOK
    <2>4. CASE UNCHANGED vars
        BY <2>4 DEF vars, TypeOK
    <2>5. CASE Next
        BY <2>1, <2>2, <2>3, <2>5, Steps DEF Own
    <2>6. QED
        BY <2>4, <2>5
<1>3. QED
    BY <1>1, <1>2, PTL DEF Spec

-----------------------------------------------------------------------------
(* Sharing *)

LEMMA SharingStep ==
    ASSUME TypeOK, [Next]_vars, NEW g \in Holders, NEW h \in Holders, Shared(g, h)', g # h
    PROVE  \/ Shared(g, h)
           \/ \E o \in Objects, s \in Holders : o \in {g, h} /\ SetClaims(o, s)
<1>1. ASSUME NEW x \in Holders, NEW c, NEW maps, Store(x, c, maps), x # g, x # h
      PROVE  Shared(g, h)
    BY <1>1 DEF Store, Shared, TypeOK
<1>2. ASSUME NEW x \in Holders, NEW y \in Holders, x # y,
             NEW c \in Own(x), NEW maps, Store(x, c, maps), Shared(x, y)'
      PROVE  Shared(x, y)
    <2>1. claims'[x].map = c.map /\ claims'[y].map = claims[y].map
        BY <1>2 DEF Store, TypeOK
    <2>2. PICK r : r \in c.map /\ r \in claims[y].map
        BY <1>2, <2>1 DEF Shared
    <2>3. r \in Held
        BY <2>2 DEF Held
    <2>4. r \in claims[x].map
        BY <2>2, <2>3 DEF Own, Unused
    <2>5. QED
        BY <2>2, <2>4 DEF Shared
<1>3. ASSUME NEW x \in Holders, NEW c \in Own(x), NEW maps, Store(x, c, maps)
      PROVE  Shared(g, h)
    <2>1. Shared(h, g)' /\ (Shared(h, g) => Shared(g, h))
        BY DEF Shared
    <2>2. QED
        BY <1>1, <1>2, <1>3, <2>1
<1>4. ASSUME NEW o \in Objects, NEW s \in Holders, SetClaims(o, s), o \notin {g, h}
      PROVE  Shared(g, h)
    BY <1>1, <1>4 DEF SetClaims, Holders
<1>5. ASSUME NEW o \in Objects, MarshalJSON(o)
      PROVE  Shared(g, h)
    BY <1>5 DEF MarshalJSON, Emit, Shared
<1>6. CASE UNCHANGED vars
    BY <1>6 DEF vars, Shared
<1>7. CASE Next
    BY <1>3, <1>4, <1>5, <1>7, Steps
<1>8. QED
    BY <1>6, <1>7

\* Claims come to share a map by SetClaims alone, so that copies are copies.
THEOREM CopiesAreCopies == Spec => OnlySetClaimsShares
<1>1. TypeOK /\ [Next]_vars =>
        [\A g, h \in Holders :
            Shared(g, h)' => \/ g = h
                             \/ Shared(g, h)
                             \/ \E o \in Objects, s \in Holders :
                                   o \in {g, h} /\ SetClaims(o, s)]_vars
    BY SharingStep
<1>2. QED
    BY <1>1, TypeCorrect, PTL DEF Spec, OnlySetClaimsShares

-----------------------------------------------------------------------------
(* Encoding *)

LEMMA EncodedDecodes ==
    ASSUME NEW v \in Token, Valid(v)
    PROVE  Valid(Encoded(v)) /\ Encoded(Encoded(v)) = Encoded(v)
<1>1. Encoded(v).fields = v.fields /\ Encoded(v).sizes = v.sizes \ {EmptyMap}
    BY DEF Encoded, Token
<1>2. Encoded(v) \in Token
    BY DEF Encoded, Token
<1>3. Encoded(Encoded(v)) = Encoded(v)
    BY <1>1, <1>2 DEF Encoded, Token
<1>4. Valid(Encoded(v))
    BY <1>1, Zenon DEF Valid
<1>5. QED
    BY <1>3, <1>4

\* Every token made here is decoded, and encodes to itself.
THEOREM EncoderDecoderAgree == Spec => []TokensDecode
<1>1. Init => TokensDecode
    BY DEF Init, TokensDecode
<1>2. TypeOK /\ TokensDecode /\ [Next]_vars => TokensDecode'
    <2> SUFFICES ASSUME TypeOK, TokensDecode, [Next]_vars
                 PROVE  \A t \in wire' : Valid(t) /\ Encoded(t) = t
        BY DEF TokensDecode
    <2>1. ASSUME NEW o \in Objects, MarshalJSON(o)
          PROVE  \A t \in wire' : Valid(t) /\ Encoded(t) = t
        <3>1. Content(o) \in Token
            BY ContentType DEF Holders
        <3>2. QED
            BY <2>1, <3>1, EncodedDecodes DEF MarshalJSON, Emit, TokensDecode
    <2>2. ASSUME UNCHANGED wire
          PROVE  \A t \in wire' : Valid(t) /\ Encoded(t) = t
        BY <2>2 DEF TokensDecode
    <2>3. CASE Next
        BY <2>1, <2>2, <2>3, Steps DEF SetClaims, Store
    <2>4. QED
        BY <2>2, <2>3 DEF vars
<1>3. QED
    BY <1>1, <1>2, TypeCorrect, PTL DEF Spec

=============================================================================
