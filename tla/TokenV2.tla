------------------------------- MODULE TokenV2 -------------------------------
(***************************************************************************)
(* The RATSD token v2 (package ratsdtokenv2): evidence objects that their  *)
(* users fill, sign, encode, decode and verify, and the COSE_Sign1 tokens  *)
(* that pass between them.                                                 *)
(*                                                                         *)
(* The users call the operations in any order, and may write the exported  *)
(* field Claims.  A call that returns an error changes nothing, so it is   *)
(* no step. A signature is what go-cose makes it: a key and the protected  *)
(* header and payload that the key signed; nobody makes one without the    *)
(* key. A value that may be nil or missing is a set of at most one         *)
(* element, and "" stands for empty text and empty bytes.                  *)
(***************************************************************************)
EXTENDS Integers, Sequences, FiniteSets

CONSTANTS
    Objects,        \* the Evidence objects of the users
    Keys, AlgOf,    \* signing keys, with the algorithm of each
    Algs,           \* COSE algorithms
    Certs,          \* DER-encoded certificates
    Names,          \* keys of CMW records and of the nonce-adjust map
    CmwRefuses,     \* keys the CMW library does not accept in a collection
    CmwReads,       \* text of keys and media types that it decodes again
    Utf8,           \* text that is UTF-8
    Nonces, OEMIDs, Texts, Sizes,  \* what is passed to the setters
    ClaimsIn,       \* claims that are passed to SetClaims or written
    RecordsIn,      \* CMW records that are passed to SetToken
    CollectionsIn,  \* CMW collections that are passed to SetCollection
    CertLists,      \* contents of the DER passed to AddIntermediateCerts
    Foreign,        \* tokens that other encoders made
    MaxTokens       \* bound on the tokens made here

Profile == "v2"
NonceAdjustFns == {"shake-128", "shake-256"}
DefaultOEMID == 48482
MinNonceSize == 8
MaxNonceSize == 64
Reserved == {"__cmwc_t", "__ratsd"}

MapTo(T) == [Names -> SUBSET T]
EmptyMap == [n \in Names |-> {}]

Nonce == [id : Nat, len : Nat]
Claims == [profile : STRING, nonce : SUBSET Nonce, oemid : Int, swname : STRING,
           swversion : STRING, fn : SUBSET STRING, sizes : SUBSET MapTo(Nat)]

\* A CMW value in a collection: a record or another collection, in CBOR or not.
Record == [record : BOOLEAN, cbor : BOOLEAN, type : STRING, value : STRING]
Items == {m \in MapTo(Record) : \A n \in CmwRefuses \cap Names : m[n] = {}}
Collection == [typed : BOOLEAN, items : Items]

\* The x5chain header has one certificate or an array.
Chain == [array : BOOLEAN, certs : Seq(Certs) \ {<<>>}]

\* What a signature is over. The encoding of a payload need not be the one that
\* this package gives it.
Payload == [canonical : BOOLEAN, typed : BOOLEAN, claims : SUBSET Claims,
            items : MapTo(Record)]
ToBeSigned == [alg : SUBSET Algs, chain : SUBSET Chain, payload : Payload]

Signature == [by : SUBSET Keys, over : SUBSET ToBeSigned]
Placeholder == [by |-> {}, over |-> {}]

\* A stray token has unprotected headers, or protected ones that are not known.
Token == [tbs : ToBeSigned, stray : BOOLEAN, sig : SUBSET Signature]

\* The signature and the algorithm are those of the embedded COSE_Sign1 message.
Evidence == [cert : SUBSET Certs, inter : Seq(Certs), claims : Claims,
             typed : BOOLEAN, items : Items,
             alg : SUBSET Algs, sig : SUBSET Signature]

\* The provers do not know it of literals.
ASSUME LiteralAssumption == NonceAdjustFns \cup {"", Profile, "ratsd", "1.0.0"} \subseteq STRING

ASSUME KeysAssumption    == AlgOf \in [Keys -> Algs]
ASSUME InputsAssumption  == /\ Nonces \subseteq Nonce /\ OEMIDs \subseteq Int
                            /\ Texts \subseteq STRING /\ Sizes \subseteq Nat
                            /\ ClaimsIn \subseteq Claims
ASSUME CmwAssumption     == /\ RecordsIn \subseteq Record
                            /\ CollectionsIn \subseteq Collection
ASSUME CertsAssumption   == CertLists \subseteq Seq(Certs) \ {<<>>}
ASSUME ForeignAssumption == Foreign \subseteq Token

VARIABLES
    ev,     \* the Evidence objects
    wire,   \* the tokens made here so far
    signed  \* which contents each key has signed

vars == <<ev, wire, signed>>

-----------------------------------------------------------------------------
(* What is valid *)

NonceOK(n) == n.len \in MinNonceSize..MaxNonceSize

ClaimsValid(c) ==
    /\ c.profile = Profile
    /\ c.nonce # {} /\ \A n \in c.nonce : NonceOK(n)
    /\ c.oemid > 0
    /\ c.swname # "" /\ c.swversion # ""
    /\ c.fn \subseteq NonceAdjustFns
    /\ c.sizes # {} => c.fn # {}
    /\ \A m \in c.sizes : \A n \in Names : m[n] # {} => n # ""

RecordValid(i) == i.record /\ i.cbor /\ i.type # "" /\ i.value # ""
KeyValid(n) == n # "" /\ n \notin Reserved

ItemsValid(items) ==
    \A n \in Names : \A i \in items[n] : KeyValid(n) /\ RecordValid(i)

CollectionForToken(c) == c.typed /\ ItemsValid(c.items)
UserCollection(c) == CollectionForToken(c) /\ c.items # EmptyMap

\* cloneCMW copies a collection by encoding and decoding it.
Clones(items) ==
    \A n \in Names : \A i \in items[n] : {n, i.type} \subseteq CmwReads

CertificatesValid(e) == e.cert = {} => e.inter = <<>>

Valid(e) == CertificatesValid(e) /\ ClaimsValid(e.claims) /\ UserCollection(e)

\* The objects that payloadCBOR encodes.
Encodable(e) == Valid(e) /\ Clones(e.items)

\* The encoder writes any Go string as text, and the decoder of the claims takes
\* UTF-8 alone.
ClaimsAreText(c) ==
    /\ {c.swname, c.swversion} \subseteq Utf8
    /\ \A m \in c.sizes : \A n \in Names : m[n] # {} => n \in Utf8

-----------------------------------------------------------------------------
(* Encoding and decoding *)

\* Mutated form: the leaf is left out of the chain.
X5ChainNoLeaf(e) == {[array |-> e.inter # <<>>, certs |-> e.inter] : c \in e.cert}

\* Mutated form: the chain is an array even if it has one certificate.
X5ChainAsArray(e) == {[array |-> TRUE, certs |-> <<c>> \o e.inter] : c \in e.cert}

X5Chain(e) == {[array |-> e.inter # <<>>, certs |-> <<c>> \o e.inter] : c \in e.cert}

PayloadOf(e) == [canonical |-> TRUE, typed |-> TRUE, claims |-> {e.claims}, items |-> e.items]
ToSign(e, alg) == [alg |-> alg, chain |-> X5Chain(e), payload |-> PayloadOf(e)]
Encoded(e) == [tbs |-> ToSign(e, e.alg), stray |-> FALSE, sig |-> e.sig]

\* What Valid checks and a token carries.
Contents == [cert : SUBSET Certs, inter : Seq(Certs), claims : Claims, items : MapTo(Record)]
Content(e) == [cert |-> e.cert, inter |-> e.inter, claims |-> e.claims, items |-> e.items]
ContentsOf(tbs) ==
    {[cert |-> {h.certs[1] : h \in tbs.chain}, inter |-> inter, claims |-> c,
      items |-> tbs.payload.items] :
        c \in tbs.payload.claims,
        inter \in IF tbs.chain = {} THEN {<<>>} ELSE {Tail(h.certs) : h \in tbs.chain}}

ChainDecodes(h) == IF h.array THEN Len(h.certs) >= 2 ELSE Len(h.certs) = 1

\* The objects that a token decodes to: one, or none when it is refused.
Decodings(t) ==
    {[cert |-> x.cert, inter |-> x.inter, claims |-> x.claims, typed |-> TRUE,
      items |-> x.items, alg |-> t.tbs.alg, sig |-> t.sig] :
        x \in {y \in ContentsOf(t.tbs) :
                 /\ t.sig # {} /\ ~t.stray
                 /\ \A h \in t.tbs.chain : ChainDecodes(h)
                 /\ t.tbs.payload.typed
                 /\ ClaimsAreText(y.claims) /\ ClaimsValid(y.claims)
                 /\ y.items \in Items /\ Clones(y.items)
                 /\ ItemsValid(y.items) /\ y.items # EmptyMap}}

\* Mutated form: the stored message is verified and not the content.
VerifiesStored(e, k) == Encodable(e) /\ e.alg = {AlgOf[k]} /\ \E s \in e.sig : s.by = {k}

\* Verify encodes the object again and checks the stored signature against that.
Verifies(e, k) ==
    /\ Encodable(e)
    /\ e.alg = {AlgOf[k]}
    /\ e.sig = {[by |-> {k}, over |-> {ToSign(e, e.alg)}]}

-----------------------------------------------------------------------------
(* Operations *)

Change(o, e) == ev' = [ev EXCEPT ![o] = e] /\ UNCHANGED <<wire, signed>>
ChangeClaims(o, c) == Change(o, [ev[o] EXCEPT !.claims = c])
ClaimsAt(o) == ev[o].claims

SetNonce(o) ==
    \E n \in Nonces : NonceOK(n) /\ ChangeClaims(o, [ClaimsAt(o) EXCEPT !.nonce = {n}])

SetOEMID(o) ==
    \E v \in OEMIDs : v > 0 /\ ChangeClaims(o, [ClaimsAt(o) EXCEPT !.oemid = v])

SetSWName(o) ==
    \E s \in Texts : s # "" /\ ChangeClaims(o, [ClaimsAt(o) EXCEPT !.swname = s])

SetSWVersion(o) ==
    \E s \in Texts : s # "" /\ ChangeClaims(o, [ClaimsAt(o) EXCEPT !.swversion = s])

SetNonceAdjustFn(o) ==
    \E f \in NonceAdjustFns : ChangeClaims(o, [ClaimsAt(o) EXCEPT !.fn = {f}])

\* Mutated form: the name of the attester is not looked at.
SetAnyKeyandNonceSz(o) ==
    \E n \in Names, size \in Sizes :
      \E m \in IF ClaimsAt(o).sizes = {} THEN {EmptyMap} ELSE ClaimsAt(o).sizes :
        ChangeClaims(o, [ClaimsAt(o) EXCEPT !.sizes = {[m EXCEPT ![n] = {size}]}])

SetKeyandNonceSz(o) ==
    \E n \in Names \ {""}, size \in Sizes :
      \E m \in IF ClaimsAt(o).sizes = {} THEN {EmptyMap} ELSE ClaimsAt(o).sizes :
        ChangeClaims(o, [ClaimsAt(o) EXCEPT !.sizes = {[m EXCEPT ![n] = {size}]}])

SetClaims(o) == \E c \in ClaimsIn : ClaimsValid(c) /\ ChangeClaims(o, c)

\* The field Claims is exported.
WriteClaims(o) == \E c \in ClaimsIn : ChangeClaims(o, c)

SetCollection(o) ==
    \E c \in CollectionsIn :
        /\ UserCollection(c) /\ Clones(c.items)
        /\ Change(o, [ev[o] EXCEPT !.typed = TRUE, !.items = c.items])

SetToken(o) ==
    \E n \in Names \ CmwRefuses, i \in RecordsIn :
        /\ CollectionForToken(ev[o])
        /\ KeyValid(n) /\ RecordValid(i)
        /\ Change(o, [ev[o] EXCEPT !.items[n] = {i}])

AddSigningCert(o) == \E c \in Certs : Change(o, [ev[o] EXCEPT !.cert = {c}])

\* The certificates of an earlier call are replaced.
AddIntermediateCerts(o) == \E cs \in CertLists : Change(o, [ev[o] EXCEPT !.inter = cs])

\* Signatures that someone can have: of a token or of an object.
Known == (UNION {t.sig : t \in wire \cup Foreign}) \cup (UNION {ev[o].sig : o \in Objects})

\* Any bytes may be set as the signature, none too.
SetSignature(o) ==
    \E sig \in {{}, {Placeholder}} \cup {{s} : s \in Known} :
        Change(o, [ev[o] EXCEPT !.sig = sig])

Emit(t) == Cardinality(wire) < MaxTokens /\ wire' = wire \cup {t}

Sign(o) ==
    \E k \in Keys :
        LET sig == [by |-> {k}, over |-> {ToSign(ev[o], {AlgOf[k]})}]
            e == [ev[o] EXCEPT !.alg = {AlgOf[k]}, !.sig = {sig}]
        IN  /\ Encodable(ev[o])
            /\ ev' = [ev EXCEPT ![o] = e]
            /\ signed' = signed \cup {[by |-> k, what |-> Content(ev[o])]}
            /\ Emit(Encoded(e))

\* Mutated form: what is encoded is not checked first.
EncodeUnchecked(o) ==
    /\ ev[o].sig # {}
    /\ Emit(Encoded(ev[o]))
    /\ UNCHANGED <<ev, signed>>

\* go-cose encodes no message that has no signature.
ToCBOR(o) ==
    /\ Encodable(ev[o])
    /\ ev[o].sig # {}
    /\ Emit(Encoded(ev[o]))
    /\ UNCHANGED <<ev, signed>>

FromCBOR(o) == \E t \in wire \cup Foreign : \E e \in Decodings(t) : Change(o, e)

-----------------------------------------------------------------------------

BareClaims(profile, oemid, swname, swversion) ==
    [profile |-> profile, nonce |-> {}, oemid |-> oemid, swname |-> swname,
     swversion |-> swversion, fn |-> {}, sizes |-> {}]

ZeroClaims == BareClaims("", 0, "", "")
DefaultClaims == BareClaims(Profile, DefaultOEMID, "ratsd", "1.0.0")

EvidenceWith(claims, typed) ==
    [cert |-> {}, inter |-> <<>>, claims |-> claims, typed |-> typed,
     items |-> EmptyMap, alg |-> {}, sig |-> {}]

\* What the signatures of the tokens made elsewhere are over.
ForeignSigned == UNION {s.over : s \in UNION {t.sig : t \in Foreign}}

\* An object comes from NewEvidence, or is the zero value that one decodes into.
Init ==
    /\ ev \in [Objects -> {EvidenceWith(DefaultClaims, TRUE), EvidenceWith(ZeroClaims, FALSE)}]
    /\ wire = {}
    /\ signed = {x \in [by : Keys, what : UNION {ContentsOf(tbs) : tbs \in ForeignSigned}] :
                   \E t \in Foreign : \E s \in t.sig : \E tbs \in s.over :
                       x.by \in s.by /\ x.what \in ContentsOf(tbs)}

ClaimSetter(o) ==
    \/ SetNonce(o) \/ SetOEMID(o) \/ SetSWName(o) \/ SetSWVersion(o)
    \/ SetNonceAdjustFn(o) \/ SetKeyandNonceSz(o)

ChangeObject(o) ==
    \/ ClaimSetter(o)
    \/ SetClaims(o) \/ WriteClaims(o)
    \/ SetCollection(o) \/ SetToken(o)
    \/ AddSigningCert(o) \/ AddIntermediateCerts(o)
    \/ SetSignature(o)
    \/ FromCBOR(o)

Next == \E o \in Objects : ChangeObject(o) \/ Sign(o) \/ ToCBOR(o)

Spec == Init /\ [][Next]_vars

-----------------------------------------------------------------------------
(* Properties *)

\* Types of the objects, the tokens and the signed contents.
TypeOK ==
    /\ ev \in [Objects -> Evidence]
    /\ wire \subseteq Token
    /\ signed \subseteq [by : Keys, what : Contents]

\* If Verify passes for an object, its claims, records and certificates are, all
\* together, what someone signed with that key: a change after signing, a token
\* that was decoded, or a signature that was moved to another object included.
VerifiedIsSigned ==
    \A o \in Objects, k \in Keys :
        Verifies(ev[o], k) => [by |-> k, what |-> Content(ev[o])] \in signed

\* Every signature there is was made with its key over a content that is recorded.
SignatureRecorded(s) ==
    \A k \in s.by, tbs \in s.over : \A x \in ContentsOf(tbs) : [by |-> k, what |-> x] \in signed

SignaturesRecorded == \A s \in Known : SignatureRecorded(s)

\* Every token made here whose claims are UTF-8 is accepted by FromCBOR, and the object
\* it gives encodes to that token again: but for text, what the encoder checks is
\* enough for the decoder, for invalid claims, one certificate or several, a nonce map
\* without function, and records that the CMW library cannot decode.
TokensDecode ==
    \A t \in wire :
        (\A c \in t.tbs.payload.claims : ClaimsAreText(c))
            => \E e \in Decodings(t) : Valid(e) /\ Encoded(e) = t

\* An object that can be encoded is decoded to itself if its claims are UTF-8: nothing
\* is lost.
RoundTrip ==
    \A o \in Objects :
        Encodable(ev[o]) /\ ev[o].sig # {} /\ ClaimsAreText(ev[o].claims)
            => Decodings(Encoded(ev[o])) = {ev[o]}

\* What the setters let in, Valid lets through: a setter makes valid claims invalid
\* only by recording a size before there is an adjust function.
SettersKeepClaimsValid ==
    [][\A o \in Objects :
          ClaimSetter(o) /\ ClaimsValid(ev[o].claims)
              => ClaimsValid(ev'[o].claims) \/ ev[o].claims.fn = {}]_vars

\* What docs/ratsd-token.cddl says of the adjust claims: both, with an attester at
\* least in the map, or neither.
AdjustClaimsOfCddl ==
    \A t \in wire : \A c \in t.tbs.payload.claims :
        c.fn # {} <=> \E m \in c.sizes : m # EmptyMap

\* What the comment on Verify says: it verifies the signature that is stored. A
\* token that was signed with a key verifies with it once it is decoded.
StoredSignatureVerifies ==
    \A t \in wire \cup Foreign, o \in Objects, k \in Keys :
        /\ ev[o] \in Decodings(t)
        /\ t.tbs.alg = {AlgOf[k]}
        /\ t.sig = {[by |-> {k}, over |-> {t.tbs}]}
        => Verifies(ev[o], k)

=============================================================================
