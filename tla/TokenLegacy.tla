----------------------------- MODULE TokenLegacy -----------------------------
(***************************************************************************)
(* The legacy RATSD token (package ratsdtoken): claims that evidence       *)
(* objects and their callers hold, and the JSON tokens made of them.       *)
(*                                                                         *)
(* The nonce-adjust map of claims is a Go map, which SetClaims shares      *)
(* between the object and its caller, so that claims hold a reference to   *)
(* one in a heap.  The other fields are replaced and never written into.   *)
(* The users call the operations in any order; a call that returns an      *)
(* error changes nothing and is no step.  A value that may be nil or       *)
(* missing is a set of at most one element.                                *)
(***************************************************************************)
EXTENDS Integers, Sequences, FiniteSets

CONSTANTS
    Objects,     \* the Evidence objects, each with its claims
    Slots,       \* the variables of callers that have claims
    Maps,        \* references to nonce-adjust maps
    Names,       \* keys of these maps
    Nonces,      \* nonces passed to SetNonce, by their lengths
    Sizes,       \* sizes passed to SetKeyandNonceSz
    CmwValues,   \* CMW values passed to SetCMW
    CmwTexts,    \* base64 texts of the CMW claim
    TextOf,      \* the text of each CMW value, none if it cannot be encoded
    Decodable,   \* the texts that decode to a CMW value
    FieldsIn,    \* claims without map, written to the exported fields
    Foreign,     \* tokens that other encoders made
    MaxTokens    \* bound on the tokens made here

LegacyProfile == "v1"
NonceAdjustFns == {"shake-128", "shake-256"}
MinNonceSize == 8
MaxNonceSize == 64

Holders == Objects \cup Slots

SizeMap == [Names -> SUBSET Nat]
EmptyMap == [n \in Names |-> {}]

Fields == [profile : SUBSET STRING, nonces : Seq(Nat), cmw : SUBSET CmwTexts,
           fn : SUBSET STRING]
Claims == [fields : Fields, map : SUBSET Maps]

\* What claims say, and what a JSON token has.
Token == [fields : Fields, sizes : SUBSET SizeMap]

\* The provers do not know it of literals.
ASSUME LiteralAssumption == NonceAdjustFns \cup {LegacyProfile} \subseteq STRING

ASSUME HoldersAssumption ==
    /\ Objects \cap Slots = {}
    /\ IsFiniteSet(Holders) /\ IsFiniteSet(Maps) /\ Cardinality(Maps) > Cardinality(Holders)
ASSUME InputsAssumption ==
    /\ Nonces \subseteq Nat /\ Sizes \subseteq Nat
    /\ FieldsIn \subseteq Fields /\ Foreign \subseteq Token
ASSUME CmwAssumption ==
    /\ TextOf \in [CmwValues -> SUBSET CmwTexts]
    /\ Decodable \subseteq CmwTexts

VARIABLES
    claims,  \* the claims of each object and of each caller
    heap,    \* the content of each map; of one that nobody holds, nothing
    wire     \* the tokens made here so far

vars == <<claims, heap, wire>>

-----------------------------------------------------------------------------

Said(c, maps) == [fields |-> c.fields, sizes |-> {maps[r] : r \in c.map}]
Content(h) == Said(claims[h], heap)

NonceOK(length) == length \in MinNonceSize..MaxNonceSize

Valid(v) ==
    /\ v.fields.profile = {LegacyProfile}
    /\ v.fields.nonces # <<>>
    /\ \A i \in DOMAIN v.fields.nonces : NonceOK(v.fields.nonces[i])
    /\ v.fields.cmw # {} /\ v.fields.cmw \subseteq Decodable
    /\ v.fields.fn \subseteq NonceAdjustFns
    /\ v.sizes # {} => v.fields.fn # {}

\* JSON has no member for a map that is empty.
Encoded(v) == [v EXCEPT !.sizes = @ \ {EmptyMap}]

-----------------------------------------------------------------------------
(* Operations *)

\* Write the claims of a holder; a map that nobody holds any more is gone.
Store(h, c, maps) ==
    LET after == [claims EXCEPT ![h] = c]
        held == UNION {after[g].map : g \in Holders}
    IN  /\ claims' = after
        /\ heap' = [r \in Maps |-> IF r \in held THEN maps[r] ELSE EmptyMap]
        /\ UNCHANGED wire

Held == UNION {claims[h].map : h \in Holders}
Unused == Maps \ Held

\* Give a holder claims with a map of their own.
StoreCopy(h, v) ==
    \E r \in Unused :
        Store(h, [fields |-> v.fields, map |-> {r : m \in v.sizes}],
              [heap EXCEPT ![r] = [n \in Names |-> UNION {m[n] : m \in v.sizes}]])

SetFields(h, f) == Store(h, [claims[h] EXCEPT !.fields = f], heap)
FieldsOf(h) == claims[h].fields

SetNonce(h) ==
    \E length \in Nonces :
        NonceOK(length) /\ SetFields(h, [FieldsOf(h) EXCEPT !.nonces = <<length>>])

SetNonceAdjustFn(h) ==
    \E f \in NonceAdjustFns : SetFields(h, [FieldsOf(h) EXCEPT !.fn = {f}])

\* Mutated form: the value is stored as it is.
SetCMWRaw(h) ==
    \E v \in CmwValues : SetFields(h, [FieldsOf(h) EXCEPT !.cmw = {v}])

SetCMW(h) ==
    \E v \in CmwValues : \E text \in TextOf[v] :
        SetFields(h, [FieldsOf(h) EXCEPT !.cmw = {text}])

SetKeyandNonceSz(h) ==
    \E n \in Names \ {""}, size \in Sizes :
      \E r \in IF claims[h].map = {} THEN Unused ELSE claims[h].map :
        Store(h, [claims[h] EXCEPT !.map = {r}], [heap EXCEPT ![r][n] = {size}])

\* The fields of Claims are exported.
WriteFields(h) == \E f \in FieldsIn : SetFields(h, f)

\* The object keeps the claims themselves, with the map of its caller.
SetClaims(o, h) == Valid(Content(h)) /\ Store(o, claims[h], heap)

\* Mutated form: what is returned is no copy.
GetClaimsShared(o, s) == Valid(Content(o)) /\ Store(s, claims[o], heap)

GetClaims(o, s) == Valid(Content(o)) /\ StoreCopy(s, Content(o))

NewFields == [profile |-> {LegacyProfile}, nonces |-> <<>>, cmw |-> {}, fn |-> {}]
NewEvidence(o) == Store(o, [fields |-> NewFields, map |-> {}], heap)

Emit(v) ==
    /\ Cardinality(wire) < MaxTokens
    /\ wire' = wire \cup {Encoded(v)}
    /\ UNCHANGED <<claims, heap>>

\* Mutated form: what is encoded is not checked first.
MarshalUnchecked(o) == Emit(Content(o))

MarshalJSON(o) == Valid(Content(o)) /\ Emit(Content(o))

UnmarshalJSON(o) == \E t \in wire \cup Foreign : Valid(t) /\ StoreCopy(o, t)

-----------------------------------------------------------------------------

ZeroFields == [profile |-> {}, nonces |-> <<>>, cmw |-> {}, fn |-> {}]

Init ==
    /\ claims = [h \in Holders |-> [fields |-> ZeroFields, map |-> {}]]
    /\ heap = [r \in Maps |-> EmptyMap]
    /\ wire = {}

ChangeClaims(h) ==
    \/ SetNonce(h) \/ SetNonceAdjustFn(h) \/ SetKeyandNonceSz(h) \/ SetCMW(h)
    \/ WriteFields(h)

Next ==
    \/ \E h \in Holders : ChangeClaims(h)
    \/ \E o \in Objects :
          \/ NewEvidence(o) \/ MarshalJSON(o) \/ UnmarshalJSON(o)
          \/ \E h \in Holders : SetClaims(o, h)
          \/ \E s \in Slots : GetClaims(o, s)

Spec == Init /\ [][Next]_vars

-----------------------------------------------------------------------------
(* Properties *)

\* Types of the claims, the maps and the tokens; claims hold at most one map.
TypeOK ==
    /\ claims \in [Holders -> Claims]
    /\ \A h \in Holders : \A r, q \in claims[h].map : r = q
    /\ heap \in [Maps -> SizeMap]
    /\ wire \subseteq Token

Shared(g, h) == claims[g].map \cap claims[h].map # {}

\* Claims come to share a map by SetClaims alone: whoever has a copy, from
\* GetClaims or from a token, can change it and no object changes with it.
OnlySetClaimsShares ==
    [][\A g, h \in Holders :
          Shared(g, h)' => \/ g = h
                           \/ Shared(g, h)
                           \/ \E o \in Objects, s \in Holders : o \in {g, h} /\ SetClaims(o, s)]_vars

\* Every token made here is accepted by UnmarshalJSON and encodes to itself, also
\* when its claims were changed by the caller who passed them to SetClaims.
TokensDecode == \A t \in wire : Valid(t) /\ Encoded(t) = t

=============================================================================
