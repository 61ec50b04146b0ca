---------------------------- MODULE TokenV2Proofs ----------------------------
(***************************************************************************)
(* Theorems about the token v2, for every set of objects, keys, claims,    *)
(* records, certificates and foreign tokens.                               *)
(***************************************************************************)
EXTENDS TokenV2, SequenceTheorems, TLAPS

-----------------------------------------------------------------------------
(* Encoding *)

LEMMA TailOfChain ==
    ASSUME NEW S, NEW c \in S, NEW s \in Seq(S)
    PROVE  /\ <<c>> \o s \in Seq(S) \ {<<>>}
           /\ (<<c>> \o s)[1] = c
           /\ Tail(<<c>> \o s) = s
           /\ Len(<<c>> \o s) = Len(s) + 1
    OBVIOUS

\* The header of a chain says which certificate is the leaf and which follow.
LEMMA ChainContent ==
    ASSUME NEW e \in Evidence
    PROVE  /\ \A h \in X5Chain(e) : h \in Chain /\ Tail(h.certs) = e.inter
           /\ {h.certs[1] : h \in X5Chain(e)} = e.cert
           /\ X5Chain(e) = {} <=> e.cert = {}
<1>1. e.cert \subseteq Certs /\ e.inter \in Seq(Certs)
    BY DEF Evidence
<1>2. ASSUME NEW c \in e.cert
      PROVE  /\ <<c>> \o e.inter \in Seq(Certs) \ {<<>>}
             /\ (<<c>> \o e.inter)[1] = c
             /\ Tail(<<c>> \o e.inter) = e.inter
    BY <1>1, TailOfChain
<1> DEFINE header(c) == [array |-> e.inter # <<>>, certs |-> <<c>> \o e.inter]
<1>3. ASSUME NEW c \in e.cert
      PROVE  header(c) \in Chain /\ Tail(header(c).certs) = e.inter /\ header(c).certs[1] = c
    <2>1. header(c).certs = <<c>> \o e.inter /\ header(c).array = (e.inter # <<>>)
        OBVIOUS
    <2>2. header(c) \in Chain
        BY <1>2 DEF Chain
    <2>3. QED
        BY <1>2, <2>1, <2>2
<1>4. X5Chain(e) = {header(c) : c \in e.cert}
    BY DEF X5Chain
<1> HIDE DEF header
<1>5. \A h \in X5Chain(e) : h \in Chain /\ Tail(h.certs) = e.inter
    BY <1>3, <1>4
<1>6. {h.certs[1] : h \in X5Chain(e)} = e.cert
    BY <1>3, <1>4
<1>7. X5Chain(e) = {} <=> e.cert = {}
    BY <1>4
<1>8. QED
    BY <1>5, <1>6, <1>7

\* What is signed has exactly the content of the object.
LEMMA SignedContent ==
    ASSUME NEW e \in Evidence, CertificatesValid(e), NEW alg
    PROVE  ContentsOf(ToSign(e, alg)) = {Content(e)}
<1> DEFINE tbs == ToSign(e, alg)
           inters == IF tbs.chain = {} THEN {<<>>} ELSE {Tail(h.certs) : h \in tbs.chain}
<1>1. /\ tbs.chain = X5Chain(e)
      /\ tbs.payload.claims = {e.claims}
      /\ tbs.payload.items = e.items
    BY DEF ToSign, PayloadOf
<1>2. inters = {e.inter}
    <2>1. CASE e.cert = {}
        BY <1>1, <2>1, ChainContent DEF CertificatesValid
    <2>2. CASE e.cert # {}
        <3>1. tbs.chain # {} /\ \A h \in tbs.chain : Tail(h.certs) = e.inter
            BY <1>1, <2>2, ChainContent
        <3>2. {Tail(h.certs) : h \in tbs.chain} = {e.inter}
            BY <3>1
        <3>3. QED
            BY <3>1, <3>2
    <2>3. QED
        BY <2>1, <2>2
<1>3. {h.certs[1] : h \in tbs.chain} = e.cert
    BY <1>1, ChainContent
<1> HIDE DEF tbs
<1> DEFINE leaf == {h.certs[1] : h \in tbs.chain}
           content(c, inter) == [cert |-> leaf, inter |-> inter, claims |-> c,
                                 items |-> tbs.payload.items]
<1>4. content(e.claims, e.inter) = Content(e)
    BY <1>1, <1>3 DEF Content
<1>5. ContentsOf(tbs) = {content(c, inter) : c \in tbs.payload.claims, inter \in inters}
    BY DEF ContentsOf
<1> HIDE DEF inters, content
<1>6. {content(c, inter) : c \in {e.claims}, inter \in {e.inter}} = {content(e.claims, e.inter)}
    OBVIOUS
<1>7. QED
    BY <1>1, <1>2, <1>4, <1>5, <1>6 DEF tbs

LEMMA EncodedType ==
    ASSUME NEW e \in Evidence, NEW alg \in SUBSET Algs
    PROVE  ToSign(e, alg) \in ToBeSigned
<1>1. X5Chain(e) \subseteq Chain
    BY ChainContent
<1>2. PayloadOf(e) \in Payload
    BY DEF PayloadOf, Payload, Evidence, Items
<1>3. QED
    BY <1>1, <1>2 DEF ToSign, ToBeSigned

LEMMA ContentType ==
    ASSUME NEW tbs \in ToBeSigned
    PROVE  ContentsOf(tbs) \subseteq Contents
<1>1. tbs.chain \subseteq Chain /\ tbs.payload \in Payload
    BY DEF ToBeSigned
<1>2. \A h \in tbs.chain : h.certs \in Seq(Certs) /\ h.certs # <<>>
    BY <1>1 DEF Chain
<1>3. \A h \in tbs.chain : Tail(h.certs) \in Seq(Certs) /\ h.certs[1] \in Certs
    BY <1>2
<1>4. {h.certs[1] : h \in tbs.chain} \in SUBSET Certs
    BY <1>3
<1>5. <<>> \in Seq(Certs)
    OBVIOUS
<1>6. \A inter \in IF tbs.chain = {} THEN {<<>>} ELSE {Tail(h.certs) : h \in tbs.chain} :
         inter \in Seq(Certs)
    BY <1>3, <1>5
<1>7. tbs.payload.claims \subseteq Claims /\ tbs.payload.items \in MapTo(Record)
    BY <1>1 DEF Payload
<1>8. QED
    BY <1>4, <1>6, <1>7 DEF ContentsOf, Contents

LEMMA DecodingType ==
    ASSUME NEW t \in Token, NEW e \in Decodings(t)
    PROVE  e \in Evidence /\ e.sig = t.sig
<1>1. t.tbs \in ToBeSigned /\ t.sig \in SUBSET Signature
    BY DEF Token
<1>2. t.tbs.alg \in SUBSET Algs
    BY <1>1 DEF ToBeSigned
<1>3. PICK x \in ContentsOf(t.tbs) :
         /\ x.items \in Items
         /\ e = [cert |-> x.cert, inter |-> x.inter, claims |-> x.claims, typed |-> TRUE,
                 items |-> x.items, alg |-> t.tbs.alg, sig |-> t.sig]
    BY DEF Decodings
<1>4. x \in Contents
    BY <1>1, ContentType
<1>5. QED
    BY <1>1, <1>2, <1>3, <1>4 DEF Contents, Evidence

\* The encoder makes an array exactly when the decoder wants one.
LEMMA ChainDecoded ==
    ASSUME NEW e \in Evidence, NEW h \in X5Chain(e)
    PROVE  ChainDecodes(h)
<1>1. PICK c \in e.cert : h = [array |-> e.inter # <<>>, certs |-> <<c>> \o e.inter]
    BY DEF X5Chain
<1>2. h.certs = <<c>> \o e.inter
    BY <1>1
<1>3. h.array <=> e.inter # <<>>
    BY <1>1, Zenon
<1>4. e.inter \in Seq(Certs) /\ c \in Certs
    BY DEF Evidence
<1>5. Len(h.certs) = Len(e.inter) + 1
    BY <1>2, <1>4, TailOfChain
<1>6. (e.inter # <<>> => Len(h.certs) >= 2) /\ (e.inter = <<>> => Len(h.certs) = 1)
    BY <1>4, <1>5
<1>7. CASE h.array
    BY <1>3, <1>6, <1>7, Zenon DEF ChainDecodes
<1>8. CASE ~h.array
    BY <1>3, <1>6, <1>8, Zenon DEF ChainDecodes
<1>9. QED
    BY <1>7, <1>8

\* An object that can be encoded, has a signature and UTF-8 claims decodes to itself.
LEMMA DecodedToItself ==
    ASSUME NEW e \in Evidence, Encodable(e), e.sig # {}, ClaimsAreText(e.claims)
    PROVE  Decodings(Encoded(e)) = {e}
<1> DEFINE t == Encoded(e)
<1>1. t.tbs = ToSign(e, e.alg) /\ t.sig = e.sig /\ ~t.stray
    BY DEF Encoded
<1>2. t.tbs.chain = X5Chain(e) /\ t.tbs.payload.typed /\ t.tbs.alg = e.alg
    BY <1>1 DEF ToSign, PayloadOf
<1>3. ContentsOf(t.tbs) = {Content(e)}
    BY <1>1, SignedContent DEF Encodable, Valid
<1>4. \A h \in t.tbs.chain : ChainDecodes(h)
    BY <1>2, ChainDecoded
<1>5. /\ ClaimsAreText(Content(e).claims) /\ ClaimsValid(Content(e).claims)
      /\ Content(e).items \in Items /\ Clones(Content(e).items)
      /\ ItemsValid(Content(e).items) /\ Content(e).items # EmptyMap
    BY DEF Content, Encodable, Valid, UserCollection, CollectionForToken, Evidence
<1> HIDE DEF t
<1>6. Decodings(t) =
        {[cert |-> x.cert, inter |-> x.inter, claims |-> x.claims, typed |-> TRUE,
          items |-> x.items, alg |-> e.alg, sig |-> e.sig] : x \in {Content(e)}}
    BY <1>1, <1>2, <1>3, <1>4, <1>5 DEF Decodings
<1>7. e = [cert |-> e.cert, inter |-> e.inter, claims |-> e.claims, typed |-> TRUE,
           items |-> e.items, alg |-> e.alg, sig |-> e.sig]
    BY DEF Evidence, Encodable, Valid, UserCollection, CollectionForToken
<1>8. QED
    BY <1>6, <1>7 DEF Content, t

-----------------------------------------------------------------------------
(* Types *)

LEMMA ClaimsChangeType ==
    ASSUME NEW e \in Evidence, NEW c \in Claims
    PROVE  [e EXCEPT !.claims = c] \in Evidence
    BY DEF Evidence

\* A call that is not Sign or ToCBOR writes one object, and gives it no signature
\* that did not exist.
LEMMA ObjectChanged ==
    ASSUME TypeOK, NEW o \in Objects, ChangeObject(o)
    PROVE  \E e \in Evidence : Change(o, e) /\ e.sig \subseteq Known \cup {Placeholder}
<1> USE InputsAssumption, CmwAssumption, CertsAssumption
<1>1. ev[o] \in Evidence
    BY DEF TypeOK
<1>2. ev[o].sig \subseteq Known
    BY DEF Known
<1>3. ev[o].claims \in Claims
    BY <1>1 DEF Evidence
<1>4. ASSUME NEW c \in Claims, ChangeClaims(o, c)
      PROVE  \E e \in Evidence : Change(o, e) /\ e.sig \subseteq Known \cup {Placeholder}
    <2> DEFINE e == [ev[o] EXCEPT !.claims = c]
    <2>1. e \in Evidence
        BY <1>1, ClaimsChangeType
    <2>2. e.sig = ev[o].sig
        BY <1>1 DEF Evidence
    <2>3. Change(o, e)
        BY <1>4 DEF ChangeClaims
    <2>4. QED
        BY <1>2, <2>1, <2>2, <2>3
<1>5. CASE ClaimSetter(o)
    <2> SUFFICES \E c \in Claims : ChangeClaims(o, c)
        BY <1>4
    <2> USE <1>3
    <2>1. CASE SetNonce(o)
        BY <2>1 DEF SetNonce, ClaimsAt, Claims
    <2>2. CASE SetOEMID(o)
        BY <2>2 DEF SetOEMID, ClaimsAt, Claims
    <2>3. CASE SetSWName(o)
        BY <2>3 DEF SetSWName, ClaimsAt, Claims
    <2>4. CASE SetSWVersion(o)
        BY <2>4 DEF SetSWVersion, ClaimsAt, Claims
    <2>5. CASE SetNonceAdjustFn(o)
        <3>1. PICK f \in NonceAdjustFns : ChangeClaims(o, [ClaimsAt(o) EXCEPT !.fn = {f}])
            BY <2>5 DEF SetNonceAdjustFn
        <3>2. f \in STRING
            BY LiteralAssumption
        <3>3. QED
            BY <3>1, <3>2 DEF ClaimsAt, Claims
    <2>6. CASE SetKeyandNonceSz(o)
        <3>1. PICK n \in Names, size \in Sizes,
                   m \in IF ClaimsAt(o).sizes = {} THEN {EmptyMap} ELSE ClaimsAt(o).sizes :
                ChangeClaims(o, [ClaimsAt(o) EXCEPT !.sizes = {[m EXCEPT ![n] = {size}]}])
            BY <2>6 DEF SetKeyandNonceSz
        <3>2. m \in MapTo(Nat)
            BY <3>1 DEF ClaimsAt, Claims, EmptyMap, MapTo
        <3>3. [m EXCEPT ![n] = {size}] \in MapTo(Nat)
            BY <3>2 DEF MapTo
        <3>4. QED
            BY <3>1, <3>3 DEF ClaimsAt, Claims
    <2>7. QED
        BY <1>5, <2>1, <2>2, <2>3, <2>4, <2>5, <2>6 DEF ClaimSetter
<1>6. CASE SetClaims(o) \/ WriteClaims(o)
    BY <1>4, <1>6 DEF SetClaims, WriteClaims
<1>7. CASE SetCollection(o)
    <2>1. PICK c \in CollectionsIn :
            Change(o, [ev[o] EXCEPT !.typed = TRUE, !.items = c.items])
        BY <1>7 DEF SetCollection
    <2>2. c.items \in Items
        BY <2>1 DEF Collection
    <2> DEFINE e == [ev[o] EXCEPT !.typed = TRUE, !.items = c.items]
    <2>3. e \in Evidence /\ e.sig = ev[o].sig
        BY <1>1, <2>2 DEF Evidence
    <2>4. QED
        BY <1>2, <2>1, <2>3
<1>8. CASE SetToken(o)
    <2>1. PICK n \in Names \ CmwRefuses, i \in RecordsIn :
            Change(o, [ev[o] EXCEPT !.items[n] = {i}])
        BY <1>8 DEF SetToken
    <2>2. [ev[o].items EXCEPT ![n] = {i}] \in Items
        <3>1. ev[o].items \in Items
            BY <1>1 DEF Evidence
        <3>2. QED
            BY <3>1 DEF Items, MapTo
    <2> DEFINE e == [ev[o] EXCEPT !.items[n] = {i}]
    <2>3. e = [ev[o] EXCEPT !.items = [ev[o].items EXCEPT ![n] = {i}]]
        BY <1>1 DEF Evidence
    <2>4. e \in Evidence /\ e.sig = ev[o].sig
        BY <1>1, <2>2, <2>3 DEF Evidence
    <2>5. QED
        BY <1>2, <2>1, <2>4
<1>9. CASE AddSigningCert(o)
    BY <1>1, <1>2, <1>9 DEF AddSigningCert, Evidence
<1>10. CASE AddIntermediateCerts(o)
    BY <1>1, <1>2, <1>10 DEF AddIntermediateCerts, Evidence
<1>11. Known \cup {Placeholder} \subseteq Signature
    BY ForeignAssumption DEF TypeOK, Known, Placeholder, Signature, Token, Evidence
<1>12. CASE SetSignature(o)
    BY <1>1, <1>11, <1>12 DEF SetSignature, Evidence
<1>13. CASE FromCBOR(o)
    <2>1. PICK t \in wire \cup Foreign : \E e \in Decodings(t) : Change(o, e)
        BY <1>13 DEF FromCBOR
    <2> PICK e \in Decodings(t) : Change(o, e)
        BY <2>1
    <2>2. t \in Token
        BY <2>1, ForeignAssumption DEF TypeOK
    <2>3. e \in Evidence /\ e.sig = t.sig
        BY <2>2, DecodingType
    <2>4. t.sig \subseteq Known
        BY <2>1 DEF Known
    <2>5. QED
        BY <2>3, <2>4
<1>14. QED
    BY <1>5, <1>6, <1>7, <1>8, <1>9, <1>10, <1>12, <1>13 DEF ChangeObject

\* What Sign leaves in the object and in the world.
LEMMA Signing ==
    ASSUME TypeOK, NEW o \in Objects, Sign(o)
    PROVE  \E k \in Keys, s \in Signature, e \in Evidence :
             /\ s = [by |-> {k}, over |-> {ToSign(ev[o], {AlgOf[k]})}]
             /\ e.sig = {s}
             /\ Encodable(ev[o]) /\ Encodable(e)
             /\ ev' = [ev EXCEPT ![o] = e]
             /\ signed' = signed \cup {[by |-> k, what |-> Content(ev[o])]}
             /\ wire' = wire \cup {Encoded(e)}
<1>1. ev[o] \in Evidence
    BY DEF TypeOK
<1>2. PICK k \in Keys :
        LET s == [by |-> {k}, over |-> {ToSign(ev[o], {AlgOf[k]})}]
            e == [ev[o] EXCEPT !.alg = {AlgOf[k]}, !.sig = {s}]
        IN  /\ Encodable(ev[o])
            /\ ev' = [ev EXCEPT ![o] = e]
            /\ signed' = signed \cup {[by |-> k, what |-> Content(ev[o])]}
            /\ wire' = wire \cup {Encoded(e)}
    BY DEF Sign, Emit
<1> DEFINE s == [by |-> {k}, over |-> {ToSign(ev[o], {AlgOf[k]})}]
           e == [ev[o] EXCEPT !.alg = {AlgOf[k]}, !.sig = {s}]
<1>3. {AlgOf[k]} \in SUBSET Algs
    BY KeysAssumption
<1>4. s \in Signature
    BY <1>1, <1>3, EncodedType DEF Signature
<1> HIDE DEF s
<1>5. e \in Evidence
    BY <1>1, <1>3, <1>4 DEF Evidence
<1>6. Encodable(e)
    <2>1. /\ e.cert = ev[o].cert /\ e.inter = ev[o].inter /\ e.claims = ev[o].claims
          /\ e.typed = ev[o].typed /\ e.items = ev[o].items
        BY <1>1 DEF Evidence
    <2>2. QED
        BY <1>2, <2>1 DEF Encodable, Valid, CertificatesValid, UserCollection, CollectionForToken
<1>7. e.sig = {s}
    BY <1>1 DEF Evidence
<1>8. QED
    BY <1>2, <1>4, <1>5, <1>6, <1>7 DEF s

LEMMA EncodedIsToken ==
    ASSUME NEW e \in Evidence
    PROVE  Encoded(e) \in Token
<1>1. e.alg \in SUBSET Algs /\ e.sig \in SUBSET Signature
    BY DEF Evidence
<1>2. ToSign(e, e.alg) \in ToBeSigned
    BY <1>1, EncodedType
<1>3. QED
    BY <1>1, <1>2 DEF Encoded, Token

\* Every object, token and recorded content is of its type in every state.
THEOREM TypeCorrect == Spec => []TypeOK
<1>1. Init => TypeOK
    <2> SUFFICES ASSUME Init PROVE TypeOK
        OBVIOUS
    <2>1. ZeroClaims \in Claims /\ DefaultClaims \in Claims
        <3>1. "" \in STRING /\ Profile \in STRING /\ "ratsd" \in STRING /\ "1.0.0" \in STRING
            BY LiteralAssumption
        <3>2. ASSUME NEW p \in STRING, NEW v \in Int, NEW n \in STRING, NEW w \in STRING
              PROVE  BareClaims(p, v, n, w) \in Claims
            BY DEF BareClaims, Claims
        <3>3. 0 \in Int /\ DefaultOEMID \in Int
            BY DEF DefaultOEMID
        <3>4. BareClaims("", 0, "", "") \in Claims
            BY <3>1, <3>2, <3>3, Zenon
        <3>5. BareClaims(Profile, DefaultOEMID, "ratsd", "1.0.0") \in Claims
            BY <3>1, <3>2, <3>3, Zenon
        <3>6. QED
            BY <3>4, <3>5, Zenon DEF ZeroClaims, DefaultClaims
    <2>2. EmptyMap \in Items
        BY DEF EmptyMap, Items, MapTo
    <2>3. \A c \in Claims, typed \in BOOLEAN : EvidenceWith(c, typed) \in Evidence
        BY <2>2 DEF EvidenceWith, Evidence
    <2>4. ev \in [Objects -> Evidence]
        BY <2>1, <2>3 DEF Init
    <2>5. ForeignSigned \subseteq ToBeSigned
        BY ForeignAssumption DEF ForeignSigned, Token, Signature
    <2>6. UNION {ContentsOf(tbs) : tbs \in ForeignSigned} \subseteq Contents
        BY <2>5, ContentType
    <2>7. signed \subseteq [by : Keys, what : Contents]
        BY <2>6 DEF Init
    <2>8. QED
        BY <2>4, <2>7 DEF Init, TypeOK
<1>2. TypeOK /\ [Next]_vars => TypeOK'
    <2> SUFFICES ASSUME TypeOK, [Next]_vars PROVE TypeOK'
        OBVIOUS
    <2>1. ASSUME NEW o \in Objects, ChangeObject(o)
          PROVE  TypeOK'
        BY <2>1, ObjectChanged DEF TypeOK, Change
    <2>2. ASSUME NEW o \in Objects, Sign(o)
          PROVE  TypeOK'
        <3>1. PICK k \in Keys, s \in Signature, e \in Evidence :
                /\ ev' = [ev EXCEPT ![o] = e]
                /\ signed' = signed \cup {[by |-> k, what |-> Content(ev[o])]}
                /\ wire' = wire \cup {Encoded(e)}
            BY <2>2, Signing
        <3>2. Encoded(e) \in Token
            BY EncodedIsToken
        <3>3. Content(ev[o]) \in Contents
            BY DEF TypeOK, Content, Contents, Evidence, Items
        <3>4. QED
            BY <3>1, <3>2, <3>3 DEF TypeOK
    <2>3. ASSUME NEW o \in Objects, ToCBOR(o)
          PROVE  TypeOK'
        BY <2>3, EncodedIsToken DEF ToCBOR, Emit, TypeOK
    <2>4. CASE UNCHANGED vars
        BY <2>4 DEF vars, TypeOK
    <2>5. QED
        BY <2>1, <2>2, <2>3, <2>4 DEF Next
<1>3. QED
    BY <1>1, <1>2, PTL DEF Spec

-----------------------------------------------------------------------------
(* Nothing is lost between the encoder and the decoder *)

\* An object that can be encoded, and whose claims are UTF-8, is decoded to itself.
THEOREM NothingIsLost == Spec => []RoundTrip
<1>1. TypeOK => RoundTrip
    BY DecodedToItself DEF TypeOK, RoundTrip
<1>2. QED
    BY <1>1, TypeCorrect, PTL

\* Every token made here whose claims are UTF-8 is decoded, to an object that encodes to
\* it again.
THEOREM EncoderDecoderAgree == Spec => []TokensDecode
<1> DEFINE Decoded(t) == (\A c \in t.tbs.payload.claims : ClaimsAreText(c))
                            => \E d \in Decodings(t) : Valid(d) /\ Encoded(d) = t
<1>1. Init => TokensDecode
    BY DEF Init, TokensDecode
<1>2. ASSUME NEW e \in Evidence, Encodable(e), e.sig # {}
      PROVE  Decoded(Encoded(e))
    <2>1. Encoded(e).tbs.payload.claims = {e.claims}
        BY DEF Encoded, ToSign, PayloadOf
    <2>2. CASE ClaimsAreText(e.claims)
        BY <1>2, <2>2, DecodedToItself DEF Encodable
    <2>3. CASE ~ClaimsAreText(e.claims)
        BY <2>1, <2>3
    <2>4. QED
        BY <2>2, <2>3
<1>3. TypeOK /\ TokensDecode /\ [Next]_vars => TokensDecode'
    <2> SUFFICES ASSUME TypeOK, TokensDecode, [Next]_vars, NEW t \in wire'
                 PROVE  Decoded(t)
        BY DEF TokensDecode
    <2> HIDE DEF Decoded
    <2>1. \A s \in wire : Decoded(s)
        BY DEF TokensDecode, Decoded
    <2>2. ASSUME NEW o \in Objects, ChangeObject(o)
          PROVE  wire' = wire
        BY <2>2, ObjectChanged DEF Change
    <2>3. ASSUME NEW o \in Objects, Sign(o)
          PROVE  \E e \in Evidence : Encodable(e) /\ e.sig # {} /\ wire' = wire \cup {Encoded(e)}
        <3>1. PICK k \in Keys, s \in Signature, e \in Evidence :
                /\ e.sig = {s}
                /\ Encodable(e)
                /\ wire' = wire \cup {Encoded(e)}
            BY <2>3, Signing
        <3>2. QED
            BY <3>1
    <2>4. ASSUME NEW o \in Objects, ToCBOR(o)
          PROVE  \E e \in Evidence : Encodable(e) /\ e.sig # {} /\ wire' = wire \cup {Encoded(e)}
        BY <2>4 DEF ToCBOR, Emit, TypeOK
    <2>5. CASE UNCHANGED vars
        BY <2>1, <2>5 DEF vars
    <2>6. QED
        BY <1>2, <2>1, <2>2, <2>3, <2>4, <2>5 DEF Next
<1>4. QED
    BY <1>1, <1>3, TypeCorrect, PTL DEF Spec

-----------------------------------------------------------------------------
(* What verifies was signed *)

\* A signature that is recorded stays recorded, since what is signed only grows.
LEMMA StaysRecorded ==
    ASSUME NEW s, SignatureRecorded(s), signed \subseteq signed'
    PROVE  SignatureRecorded(s)'
    BY DEF SignatureRecorded

LEMMA PlaceholderRecorded == SignatureRecorded(Placeholder)
    BY DEF SignatureRecorded, Placeholder

LEMMA InitiallyRecorded ==
    ASSUME Init
    PROVE  SignaturesRecorded
<1>1. \A o \in Objects : ev[o].sig = {}
    BY DEF Init, EvidenceWith
<1>2. Known = UNION {t.sig : t \in Foreign}
    BY <1>1 DEF Known, Init
<1>3. SUFFICES ASSUME NEW t \in Foreign, NEW s \in t.sig, NEW k \in s.by, NEW tbs \in s.over,
                      NEW x \in ContentsOf(tbs)
               PROVE  [by |-> k, what |-> x] \in signed
    BY <1>2 DEF SignaturesRecorded, SignatureRecorded
<1>4. s \in Signature
    BY ForeignAssumption DEF Token
<1>5. k \in Keys
    BY <1>4 DEF Signature
<1>6. tbs \in ForeignSigned
    BY DEF ForeignSigned
<1>7. x \in UNION {ContentsOf(b) : b \in ForeignSigned}
    BY <1>6
<1> DEFINE r == [by |-> k, what |-> x]
<1>8. r \in [by : Keys, what : UNION {ContentsOf(b) : b \in ForeignSigned}]
    BY <1>5, <1>7
<1>9. r.by \in s.by /\ r.what \in ContentsOf(tbs)
    OBVIOUS
<1>10. QED
    BY <1>8, <1>9 DEF Init

LEMMA RecordedStep ==
    ASSUME TypeOK, SignaturesRecorded, [Next]_vars
    PROVE  SignaturesRecorded'
<1>1. ASSUME NEW o \in Objects, ChangeObject(o)
      PROVE  SignaturesRecorded'
    <2>1. PICK e \in Evidence : Change(o, e) /\ e.sig \subseteq Known \cup {Placeholder}
        BY <1>1, ObjectChanged
    <2>2. Known' \subseteq Known \cup {Placeholder}
        BY <2>1 DEF Known, Change, TypeOK
    <2>3. signed \subseteq signed'
        BY <2>1 DEF Change
    <2>4. QED
        BY <2>2, <2>3, StaysRecorded, PlaceholderRecorded DEF SignaturesRecorded
<1>2. ASSUME NEW o \in Objects, Sign(o)
      PROVE  SignaturesRecorded'
    <2>1. PICK k \in Keys, s \in Signature, e \in Evidence :
            /\ s = [by |-> {k}, over |-> {ToSign(ev[o], {AlgOf[k]})}]
            /\ e.sig = {s}
            /\ Encodable(ev[o]) /\ Encodable(e)
            /\ ev' = [ev EXCEPT ![o] = e]
            /\ signed' = signed \cup {[by |-> k, what |-> Content(ev[o])]}
            /\ wire' = wire \cup {Encoded(e)}
        BY <1>2, Signing, Zenon
    <2>2. ContentsOf(ToSign(ev[o], {AlgOf[k]})) = {Content(ev[o])}
        BY <2>1, SignedContent DEF TypeOK, Encodable, Valid
    <2>3. SignatureRecorded(s)'
        <3>1. s.by = {k} /\ s.over = {ToSign(ev[o], {AlgOf[k]})}
            BY <2>1
        <3>2. SUFFICES ASSUME NEW j \in s.by, NEW tbs \in s.over, NEW x \in ContentsOf(tbs)
                       PROVE  [by |-> j, what |-> x] \in signed'
            BY DEF SignatureRecorded
        <3>3. j = k /\ x = Content(ev[o])
            BY <2>2, <3>1
        <3>4. QED
            BY <2>1, <3>3
    <2>4. Encoded(e).sig = {s}
        BY <2>1 DEF Encoded
    <2>5. Known' \subseteq Known \cup {s}
        <3>1. ASSUME NEW t \in wire' \cup Foreign PROVE t.sig \subseteq Known \cup {s}
            BY <2>1, <2>4 DEF Known
        <3>2. ASSUME NEW p \in Objects PROVE ev'[p].sig \subseteq Known \cup {s}
            <4>1. ev'[p] = IF p = o THEN e ELSE ev[p]
                BY <2>1 DEF TypeOK
            <4>2. QED
                BY <2>1, <4>1 DEF Known
        <3>3. QED
            BY <3>1, <3>2 DEF Known
    <2>6. QED
        BY <2>1, <2>3, <2>5, StaysRecorded DEF SignaturesRecorded
<1>3. ASSUME NEW o \in Objects, ToCBOR(o)
      PROVE  SignaturesRecorded'
    <2>1. Encoded(ev[o]).sig = ev[o].sig
        BY DEF Encoded
    <2>2. Known' = Known /\ signed' = signed
        BY <1>3, <2>1 DEF ToCBOR, Emit, Known
    <2>3. QED
        BY <2>2, StaysRecorded DEF SignaturesRecorded
<1>4. CASE UNCHANGED vars
    BY <1>4 DEF vars, SignaturesRecorded, SignatureRecorded, Known
<1>5. QED
    BY <1>1, <1>2, <1>3, <1>4 DEF Next

\* What Verify accepts is what somebody signed with that key, whatever was changed,
\* decoded or moved since.
THEOREM VerifiedWasSigned == Spec => []VerifiedIsSigned
<1>1. Spec => []SignaturesRecorded
    BY InitiallyRecorded, RecordedStep, TypeCorrect, PTL DEF Spec
<1>2. TypeOK /\ SignaturesRecorded => VerifiedIsSigned
    <2> SUFFICES ASSUME TypeOK, SignaturesRecorded,
                        NEW o \in Objects, NEW k \in Keys, Verifies(ev[o], k)
                 PROVE  [by |-> k, what |-> Content(ev[o])] \in signed
        BY DEF VerifiedIsSigned
    <2> DEFINE s == [by |-> {k}, over |-> {ToSign(ev[o], ev[o].alg)}]
    <2>1. s \in ev[o].sig
        BY DEF Verifies
    <2>2. SignatureRecorded(s)
        BY <2>1 DEF Known, SignaturesRecorded
    <2>3. ContentsOf(ToSign(ev[o], ev[o].alg)) = {Content(ev[o])}
        BY SignedContent DEF TypeOK, Verifies, Encodable, Valid
    <2>4. QED
        BY <2>2, <2>3 DEF SignatureRecorded
<1>3. QED
    BY <1>1, <1>2, TypeCorrect, PTL

-----------------------------------------------------------------------------
(* Setters and Valid *)

LEMMA SetterStep ==
    ASSUME TypeOK, NEW o \in Objects, ClaimSetter(o), ClaimsValid(ev[o].claims)
    PROVE  ClaimsValid(ev'[o].claims) \/ ev[o].claims.fn = {}
<1>1. ev[o] \in Evidence /\ ev[o].claims \in Claims
    BY DEF TypeOK, Evidence
<1>2. ASSUME NEW c, ChangeClaims(o, c)
      PROVE  ev'[o].claims = c
    BY <1>1, <1>2 DEF ChangeClaims, Change, TypeOK, Evidence
<1> DEFINE d == ev[o].claims
<1>3. CASE SetNonce(o)
    <2>1. PICK n \in Nonces : NonceOK(n) /\ ChangeClaims(o, [d EXCEPT !.nonce = {n}])
        BY <1>3 DEF SetNonce, ClaimsAt
    <2>2. ev'[o].claims = [d EXCEPT !.nonce = {n}]
        BY <1>2, <2>1
    <2> HIDE DEF d
    <2>3. /\ ev'[o].claims.nonce = {n} /\ ev'[o].claims.profile = d.profile
          /\ ev'[o].claims.oemid = d.oemid /\ ev'[o].claims.swname = d.swname
          /\ ev'[o].claims.swversion = d.swversion /\ ev'[o].claims.fn = d.fn
          /\ ev'[o].claims.sizes = d.sizes
        BY <1>1, <2>2 DEF Claims, d
    <2>4. ClaimsValid(d)
        BY DEF d
    <2>5. QED
        BY <2>1, <2>3, <2>4 DEF ClaimsValid
<1>4. CASE SetOEMID(o)
    BY <1>1, <1>2, <1>4 DEF SetOEMID, ClaimsAt, ClaimsValid, Claims
<1>5. CASE SetSWName(o)
    BY <1>1, <1>2, <1>5 DEF SetSWName, ClaimsAt, ClaimsValid, Claims
<1>6. CASE SetSWVersion(o)
    BY <1>1, <1>2, <1>6 DEF SetSWVersion, ClaimsAt, ClaimsValid, Claims
<1>7. CASE SetNonceAdjustFn(o)
    <2>1. PICK f \in NonceAdjustFns : ChangeClaims(o, [d EXCEPT !.fn = {f}])
        BY <1>7 DEF SetNonceAdjustFn, ClaimsAt
    <2>2. ev'[o].claims = [d EXCEPT !.fn = {f}]
        BY <1>2, <2>1
    <2> HIDE DEF d
    <2>3. /\ ev'[o].claims.nonce = d.nonce /\ ev'[o].claims.profile = d.profile
          /\ ev'[o].claims.oemid = d.oemid /\ ev'[o].claims.swname = d.swname
          /\ ev'[o].claims.swversion = d.swversion /\ ev'[o].claims.fn = {f}
          /\ ev'[o].claims.sizes = d.sizes
        BY <1>1, <2>2 DEF Claims, d
    <2>4. ClaimsValid(d)
        BY DEF d
    <2>5. QED
        BY <2>1, <2>3, <2>4 DEF ClaimsValid
<1>8. CASE SetKeyandNonceSz(o)
    <2>1. PICK n \in Names \ {""}, size \in Sizes,
               m \in IF d.sizes = {} THEN {EmptyMap} ELSE d.sizes :
            ChangeClaims(o, [d EXCEPT !.sizes = {[m EXCEPT ![n] = {size}]}])
        BY <1>8 DEF SetKeyandNonceSz, ClaimsAt
    <2> DEFINE new == [m EXCEPT ![n] = {size}]
    <2>2. m \in MapTo(Nat) /\ \A x \in Names : m[x] # {} => x # ""
        BY <1>1, <2>1 DEF Claims, EmptyMap, MapTo, ClaimsValid
    <2>3. \A x \in Names : new[x] # {} => x # ""
        BY <2>2 DEF MapTo
    <2> HIDE DEF new
    <2>4. ev'[o].claims = [d EXCEPT !.sizes = {new}]
        BY <1>2, <2>1 DEF new
    <2>5. CASE d.fn = {}
        BY <2>5
    <2>6. CASE d.fn # {}
        <3> HIDE DEF d
        <3>1. /\ ev'[o].claims.nonce = d.nonce /\ ev'[o].claims.profile = d.profile
              /\ ev'[o].claims.oemid = d.oemid /\ ev'[o].claims.swname = d.swname
              /\ ev'[o].claims.swversion = d.swversion /\ ev'[o].claims.fn = d.fn
              /\ ev'[o].claims.sizes = {new}
            BY <1>1, <2>4 DEF Claims, d
        <3>2. ClaimsValid(d)
            BY DEF d
        <3>3. QED
            BY <2>3, <2>6, <3>1, <3>2 DEF ClaimsValid
    <2>7. QED
        BY <2>5, <2>6
<1>9. QED
    BY <1>3, <1>4, <1>5, <1>6, <1>7, <1>8 DEF ClaimSetter

\* A setter that succeeds leaves valid claims valid once there is an adjust function.
THEOREM SettersAreSafe == Spec => SettersKeepClaimsValid
<1>1. TypeOK /\ [Next]_vars =>
        [\A o \in Objects : ClaimSetter(o) /\ ClaimsValid(ev[o].claims)
            => ClaimsValid(ev'[o].claims) \/ ev[o].claims.fn = {}]_vars
    BY SetterStep
<1>2. QED
    BY <1>1, TypeCorrect, PTL DEF Spec, SettersKeepClaimsValid

=============================================================================
