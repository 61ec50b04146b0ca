------------------------------ MODULE Attester ------------------------------
(***************************************************************************)
(* The two sub-attesters of the repository: tsm, which reads a report of   *)
(* the platform from configfs, and mocktsm, which reads one from a fake.   *)
(* Each call is a goroutine of the plugin's gRPC server; what calls share  *)
(* is the platform.                                                        *)
(*                                                                         *)
(* A platform may be updated between two reads (firmware, and with it the  *)
(* certificates of its key): its version goes up.  A report says what it   *)
(* was made for and at which version; the auxiliary blob is the            *)
(* certificates of a version.  One read (report.Get) has a configfs entry  *)
(* of its own and is atomic; the two reads of a call are not.              *)
(*                                                                         *)
(* A field of a report that is missing or empty is the empty set.          *)
(***************************************************************************)
EXTENDS Naturals, FiniteSets

CONSTANTS
    Calls,       \* calls to a plugin: GetSupportedFormats, then GetEvidence
    Asks,        \* what callers may ask of GetEvidence
    Platforms,   \* the platforms that tsm may run on
    MaxVersion   \* bound on the updates of the platform

Media == {"json", "cbor"}

\* tsmNonceSize, and nonceSize of mocktsm.
NonceSize == 64

\* The type "other" stands for all that the attester does not know.  The options
\* parse when they are a JSON object of strings.
Ask == [to : {"tsm", "mock"},
        nonce : [id : Nat, len : Nat],
        type : Media \cup {"other"},
        parses : BOOLEAN,
        level : {"absent", "invalid", "zero", "one"}]

\* The provider, as the file gives it, may end in a newline.
Provider == [name : {"sev_guest", "tdx_guest", "fake"}, newline : BOOLEAN]

\* The provider may be missing; the host may have no certificates to give.
Platform == [provider : SUBSET Provider, certs : BOOLEAN]

Format == [type : Media, size : Nat]
Blob   == [nonce : [id : Nat, len : Nat], level : {"absent", "zero", "one"}, version : Nat]

ASSUME AsksAssumption == Asks \subseteq Ask
ASSUME PlatformsAssumption ==
    /\ Platforms \subseteq Platform
    /\ \A p \in Platforms : \A x, y \in p.provider : x = y
ASSUME MaxVersionAssumption == MaxVersion \in Nat

VARIABLES
    platform,    \* what tsm runs on
    available,   \* configfs-tsm is there
    version,     \* the platform's version
    ask,         \* what each GetEvidence call asks for
    pc,          \* where each call is
    offered,     \* the formats that GetSupportedFormats announced to the caller
    since,       \* the version when GetEvidence was called
    out,         \* the TSMReport that the call fills
    answer       \* the EvidenceOut: status code and evidence

env == <<platform, available, version, ask>>
vars == <<env, pc, offered, since, out, answer>>

-----------------------------------------------------------------------------
(* tokens.TSMReport *)

Report == [provider : SUBSET Provider, outblob : SUBSET Blob, auxblob : SUBSET Nat,
           manifestblob : SUBSET Nat, service_provider : SUBSET Nat]

NoReport == [provider |-> {}, outblob |-> {}, auxblob |-> {},
             manifestblob |-> {}, service_provider |-> {}]

Valid(report) ==
    /\ report.outblob # {}
    /\ report.provider # {}
    /\ report.manifestblob # {} => report.service_provider # {}

Present(report) == {f \in DOMAIN NoReport : report[f] # {}}

\* Mutated form: the auxiliary blob is left out of JSON.
EncodeWithoutAux(report, media) ==
    [type |-> media,
     fields |-> [f \in Present(report) \ (IF media = "json" THEN {"auxblob"} ELSE {}) |->
                    CHOOSE v \in report[f] : TRUE]]

\* A document has the fields that are not empty: the three optional ones are left
\* out when they are, and Valid does not let the other two be.
Encode(report, media) ==
    [type |-> media, fields |-> [f \in Present(report) |-> CHOOSE v \in report[f] : TRUE]]

\* FromJSON and FromCBOR write the fields of the document over the object and leave
\* the others as they were; an error of Valid leaves the object changed.
Decoded(object, document) ==
    [f \in DOMAIN NoReport |->
        IF f \in DOMAIN document.fields THEN {document.fields[f]} ELSE object[f]]

-----------------------------------------------------------------------------
(* GetSupportedFormats *)

Types(attester) == IF attester = "tsm" THEN Media ELSE {"json"}
SupportedFormats(attester) == {[type |-> t, size |-> NonceSize] : t \in Types(attester)}

GetSupportedFormats(c) ==
    /\ pc[c] = "new"
    /\ offered' = [offered EXCEPT ![c] =
         IF ask[c].to = "tsm" /\ ~available THEN {} ELSE SupportedFormats(ask[c].to)]
    /\ pc' = [pc EXCEPT ![c] = "offered"]
    /\ UNCHANGED <<env, since, out, answer>>

-----------------------------------------------------------------------------
(* GetEvidence *)

Unanswered == [status |-> 0, evidence |-> {}]

Answer(c, status, evidence) ==
    /\ answer' = [answer EXCEPT ![c] = [status |-> status, evidence |-> evidence]]
    /\ pc' = [pc EXCEPT ![c] = "done"]

\* Mutated form: the size of a digest is asked for.
MalformedOfDigest(a) ==
    \/ a.nonce.len # 32
    \/ a.type \notin Types(a.to)
    \/ ~a.parses
    \/ a.level = "invalid"

\* What a caller is told is its own fault.
Malformed(a) ==
    \/ a.nonce.len # NonceSize
    \/ a.type \notin Types(a.to)
    \/ ~a.parses
    \/ a.level = "invalid"

Refuse(c) ==
    /\ pc[c] \in {"new", "offered"}
    /\ Malformed(ask[c])
    /\ Answer(c, 400, {})
    /\ UNCHANGED <<env, offered, since, out>>

Begin(c) ==
    /\ pc[c] \in {"new", "offered"}
    /\ ~Malformed(ask[c])
    /\ pc' = [pc EXCEPT ![c] = "first"]
    /\ since' = [since EXCEPT ![c] = version]
    /\ UNCHANGED <<env, offered, out, answer>>

\* Mutated form: the configfs client is made before the request is looked at.
ClientFailsFirst(c) ==
    /\ pc[c] \in {"new", "offered", "first"}
    /\ ask[c].to = "tsm"
    /\ ~available
    /\ Answer(c, 500, {})
    /\ UNCHANGED <<env, offered, since, out>>

\* linuxtsm.MakeClient: there is no configfs-tsm.  The fake is always there.
ClientFails(c) ==
    /\ pc[c] = "first"
    /\ ask[c].to = "tsm"
    /\ ~available
    /\ Answer(c, 500, {})
    /\ UNCHANGED <<env, offered, since, out>>

\* What one read gives: the fake is no part of the platform.
ReadBlob(c) ==
    [nonce |-> ask[c].nonce, level |-> ask[c].level,
     version |-> IF ask[c].to = "tsm" THEN version ELSE 0]
ReadProvider(c) ==
    IF ask[c].to = "tsm" THEN platform.provider ELSE {[name |-> "fake", newline |-> TRUE]}
ReadAux(c) ==
    IF ask[c].to = "mock" THEN {0} ELSE IF platform.certs THEN {version} ELSE {}

Readable(c) == ask[c].to = "tsm" => available

\* report.Get fails.
ReadFails(c) ==
    /\ pc[c] \in {"first", "second"}
    /\ Answer(c, 500, {})
    /\ UNCHANGED <<env, offered, since, out>>

\* strings.TrimSpace(resp.Provider) == "sev_guest"
IsSEV(provider) == \E p \in provider : p.name = "sev_guest"

\* mocktsm asks for the auxiliary blob at once, tsm does not.
FirstRead(c) ==
    /\ pc[c] = "first"
    /\ Readable(c)
    /\ out' = [out EXCEPT ![c] =
         [provider |-> ReadProvider(c), outblob |-> {ReadBlob(c)},
          auxblob |-> IF ask[c].to = "mock" THEN ReadAux(c) ELSE {},
          manifestblob |-> {}, service_provider |-> {}]]
    /\ pc' = [pc EXCEPT ![c] =
         IF ask[c].to = "tsm" /\ IsSEV(ReadProvider(c)) THEN "second" ELSE "read"]
    /\ UNCHANGED <<env, offered, since, answer>>

\* Mutated form: the certificates are those that an earlier call has read.
SecondReadCached(c) ==
    /\ pc[c] = "second"
    /\ Readable(c)
    /\ \E aux \in {ReadAux(c)} \cup {out[d].auxblob : d \in {e \in Calls : pc[e] = "done"}} :
         out' = [out EXCEPT ![c].auxblob = aux]
    /\ pc' = [pc EXCEPT ![c] = "read"]
    /\ UNCHANGED <<env, offered, since, answer>>

\* The same request again, for the certificates only.
SecondRead(c) ==
    /\ pc[c] = "second"
    /\ Readable(c)
    /\ out' = [out EXCEPT ![c].auxblob = ReadAux(c)]
    /\ pc' = [pc EXCEPT ![c] = "read"]
    /\ UNCHANGED <<env, offered, since, answer>>

Return(c) ==
    /\ pc[c] = "read"
    /\ Valid(out[c])
    /\ Answer(c, 200, {Encode(out[c], ask[c].type)})
    /\ UNCHANGED <<env, offered, since, out>>

\* Mutated form: the error of the encoder is not looked at.
EncodeErrorIgnored(c) ==
    /\ pc[c] = "read"
    /\ ~Valid(out[c])
    /\ Answer(c, 200, {})
    /\ UNCHANGED <<env, offered, since, out>>

CannotEncode(c) ==
    /\ pc[c] = "read"
    /\ ~Valid(out[c])
    /\ Answer(c, 500, {})
    /\ UNCHANGED <<env, offered, since, out>>

-----------------------------------------------------------------------------
(* The platform *)

Update ==
    /\ version < MaxVersion
    /\ version' = version + 1
    /\ UNCHANGED <<platform, available, ask, pc, offered, since, out, answer>>

ComeOrGo ==
    /\ available' = ~available
    /\ UNCHANGED <<platform, version, ask, pc, offered, since, out, answer>>

-----------------------------------------------------------------------------

Init ==
    /\ platform \in Platforms
    /\ available \in BOOLEAN
    /\ version = 0
    /\ ask \in [Calls -> Asks]
    /\ pc = [c \in Calls |-> "new"]
    /\ offered = [c \in Calls |-> {}]
    /\ since = [c \in Calls |-> 0]
    /\ out = [c \in Calls |-> NoReport]
    /\ answer = [c \in Calls |-> Unanswered]

GetEvidence(c) ==
    \/ Refuse(c)
    \/ Begin(c)
    \/ ClientFails(c)
    \/ ReadFails(c)
    \/ FirstRead(c)
    \/ SecondRead(c)
    \/ Return(c)
    \/ CannotEncode(c)

Next ==
    \/ \E c \in Calls : GetSupportedFormats(c) \/ GetEvidence(c)
    \/ Update
    \/ ComeOrGo

Spec == Init /\ [][Next]_vars

-----------------------------------------------------------------------------
(* Properties *)

Documents == UNION {answer[c].evidence : c \in Calls}

\* Types of the attesters' state.
TypeOK ==
    /\ platform \in Platforms
    /\ available \in BOOLEAN
    /\ version \in 0..MaxVersion
    /\ ask \in [Calls -> Asks]
    /\ pc \in [Calls -> {"new", "offered", "first", "second", "read", "done"}]
    /\ offered \in [Calls -> SUBSET Format]
    /\ since \in [Calls -> 0..MaxVersion]
    /\ out \in [Calls -> Report]
    /\ DOMAIN answer = Calls
    /\ \A c \in Calls :
         /\ answer[c].status \in {0, 200, 400, 500}
         /\ answer[c].status = 200 <=> answer[c].evidence # {}
    /\ \A d \in Documents : d.type \in Media /\ DOMAIN d.fields \subseteq DOMAIN NoReport

\* A caller that asks for a format that was announced to it, with a nonce of the
\* announced size and sound options, is not told that it made a mistake, although the
\* two calls look at different lists and the platform may have gone in between.
AnnouncedIsAccepted ==
    \A c \in Calls :
        /\ [type |-> ask[c].type, size |-> ask[c].nonce.len] \in offered[c]
        /\ ask[c].parses
        /\ ask[c].level # "invalid"
        => answer[c].status # 400

\* What tsm reports is read during the call, never kept from an earlier one.  The
\* certificates are not older than the report they come with; they may be newer, since
\* the platform can be updated between the two reads.  And an SEV guest's evidence has
\* certificates if the host has any to give, whether or not the provider's name ends in
\* a newline.
ReadDuringCall ==
    \A c \in Calls : ask[c].to = "tsm" =>
        /\ \A b \in out[c].outblob : b.version \in since[c]..version
        /\ \A b \in out[c].outblob, v \in out[c].auxblob : v \in b.version..version
        /\ \A d \in answer[c].evidence :
             platform.certs /\ (\E p \in platform.provider : p.name = "sev_guest")
                 => "auxblob" \in DOMAIN d.fields

\* Whatever evidence is returned, in CBOR or in JSON, a reader gets the report back
\* that was read from the platform, and it is valid.  A reader that uses an object
\* again gets this call's provider and outblob, but the certificates of an earlier
\* report stay where this one has none.
EvidenceReadsBack ==
    \A c \in Calls : \A d \in answer[c].evidence :
        /\ Decoded(NoReport, d) = out[c]
        /\ Valid(Decoded(NoReport, d))
        /\ \A e \in Documents :
             LET again == Decoded(Decoded(NoReport, e), d)
             IN  /\ Valid(again)
                 /\ again.provider = out[c].provider
                 /\ again.outblob = out[c].outblob
                 /\ out[c].auxblob # {} => again.auxblob = out[c].auxblob

\* What a caller can tell evidence is for: the nonce and level in the report, at the
\* attester it asked, in the type of the document.
MadeFor(to, d) ==
    [to |-> to, nonce |-> d.fields["outblob"].nonce, type |-> d.type,
     parses |-> TRUE, level |-> d.fields["outblob"].level]

\* The answer of the attester of this name, as the contract has it.
ReplyOf(to, given) ==
    CASE given.status = 0   -> [kind |-> "none"]
      [] given.status = 400 -> [kind |-> "refused"]
      [] given.status = 500 -> [kind |-> "failed"]
      [] OTHER -> [kind |-> "evidence",
                   for |-> MadeFor(to, CHOOSE d \in given.evidence : TRUE)]

Contract == INSTANCE Plugin WITH
    MalformedAsks <- {a \in Asks : Malformed(a)},
    asks <- ask,
    reply <- [c \in Calls |-> ReplyOf(ask[c].to, answer[c])]

\* The attesters keep what ratsd counts on.
ImplementsPlugin == Contract!Spec

=============================================================================
