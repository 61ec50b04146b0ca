------------------------------- MODULE Chares -------------------------------
(***************************************************************************)
(* The challenge-response handler of ratsd (api.Server.RatsdChares) served *)
(* to several requests at once, over the sub-attester plugins that were    *)
(* loaded at start-up.                                                     *)
(*                                                                         *)
(* Each request is a goroutine. It shares nothing with the others but the  *)
(* plugin processes, so it is broken into steps at its gRPC calls: a step  *)
(* runs from the return of one call to the sending of the next.  A call    *)
(* has no deadline: it returns when the plugin replies or when the plugin  *)
(* process dies, and a call that does neither is stuck.                    *)
(*                                                                         *)
(* A nonce is a number standing for its bytes, with their count; evidence  *)
(* is the call it answers.  A value that may be missing is a set of at     *)
(* most one element.                                                       *)
(***************************************************************************)
EXTENDS Naturals, Sequences, FiniteSets, Functions, Selection

CONSTANTS
    Requests,      \* HTTP requests: each is one goroutine of net/http
    Names,         \* attester names a client or a plugin may use
    Challenges,    \* request bodies and headers clients may send
    LoadedSets,    \* the sets of plugins that discovery may have loaded
    ContentTypes,  \* content types of evidence
    FormatLists,   \* what a plugin may answer to GetSupportedFormats
    FailureCodes,  \* status codes a plugin may put on a failed GetEvidence
    CmwRefuses     \* keys the CMW library does not accept in a collection

NonceAdjustFns == {"shake-128", "shake-256"}
MinNonceSize == 8
MaxNonceSize == 64

\* Keys that the v2 token keeps for itself.
ReservedKeys == {"", "__cmwc_t", "__ratsd"}

Nonce  == [readable : BOOLEAN, id : Nat, len : Nat]
Option == [parses : BOOLEAN, type : SUBSET ContentTypes]
Format == [type : ContentTypes, size : Nat]

Challenge == [charesJson : BOOLEAN,
              accept     : {"legacy", "v2", "none"},
              object     : BOOLEAN,
              nonce      : Nonce,
              selection  : [given : BOOLEAN, parses : BOOLEAN, names : Seq(Names)],
              options    : [Names -> Option]]

ASSUME ChallengesAssumption == Challenges \subseteq Challenge
ASSUME LoadedAssumption     == /\ IsFiniteSet(Names)
                               /\ LoadedSets \subseteq SUBSET Names
ASSUME FormatsAssumption    == FormatLists \subseteq Seq(Format)
ASSUME CodesAssumption      == FailureCodes \subseteq Nat
ASSUME CmwAssumption        == CmwRefuses \subseteq Names

VARIABLES
    listOptions,  \* Server.options: "all" or "selected"
    loaded,       \* names with a handle in the plugin manager
    alive,        \* plugins whose process runs
    stuck,        \* requests whose outstanding gRPC call never returns
    challenge,    \* what each request carries
    pc,           \* where each handler is
    order,        \* attestersToQuery
    at,           \* index in order of the attester being queried
    claims,       \* evidence.Claims: nonce, adjust function, nonce_adjust_map
    collection,   \* the CMW collection: evidence by attester name
    calls,        \* the GetEvidence calls issued so far
    responses     \* what was written to the http.ResponseWriter

config == <<listOptions, loaded>>
vars == <<config, alive, stuck, challenge, pc, order, at, claims, collection,
          calls, responses>>

-----------------------------------------------------------------------------
(* Data *)

\* A Go map keyed by attester name, and the keys it holds.
MapTo(T) == [Names -> SUBSET T]
EmptyMap == [n \in Names |-> {}]
Keys(m) == {n \in Names : m[n] # {}}

\* Mutated form of nonceAdjustFunction: another function than the one claimed.
Shake128 == "shake-128"

\* The function the server uses to shrink or stretch a nonce.
NonceAdjustFunction == "shake-256"

Adjusted == [of : Nonce, size : Nat, fn : NonceAdjustFns]
AdjustNonceWith(nonce, size, fn) == [of |-> nonce, size |-> size, fn |-> fn]

\* Mutated form: the nonce is hashed with a function that is not claimed.
AdjustNonceUnclaimed(nonce, size) == AdjustNonceWith(nonce, size, Shake128)

AdjustNonce(nonce, size) == AdjustNonceWith(nonce, size, NonceAdjustFunction)

EvidenceIn == [to : Names, type : ContentTypes, nonce : Adjusted]
Evidence   == [call : EvidenceIn, empty : BOOLEAN]

Claims == [nonce : SUBSET Nonce, fn : SUBSET NonceAdjustFns,
           sizes : MapTo(Nat)]
Token  == [claims : Claims, collection : MapTo(Evidence)]

Statuses == {200, 400, 406, 500}
Response == [status : Statuses, token : SUBSET Token]

-----------------------------------------------------------------------------
(* What the handler reads from the request *)

\* attestersToQuery: the selection, or the plugin list in the order in which Go
\* happens to range over the map.
QueryOrders(c) ==
    IF c.selection.given THEN SelectionOrders(c.selection.names) ELSE Enumerations(loaded)

\* The attesters a challenge asks for.
Wanted(c) == IF c.selection.given THEN Range(c.selection.names) ELSE loaded

SelectedNames(c) == IF c.selection.given THEN c.selection.names ELSE <<>>

BadRequest(c) ==
    \/ ~c.object
    \/ ~c.nonce.readable
    \/ c.selection.given /\ ~c.selection.parses
    \/ listOptions = "selected" /\ SelectedNames(c) = <<>>
    \/ c.nonce.len \notin MinNonceSize..MaxNonceSize

\* The problem a challenge is answered with before any plugin is called.
Rejected(c, status) ==
    \/ ~c.charesJson /\ status = 400
    \/ c.charesJson /\ c.accept = "none" /\ status = 406
    \/ c.charesJson /\ c.accept # "none" /\ BadRequest(c) /\ status = 400
    \/ c.charesJson /\ c.accept # "none" /\ ~BadRequest(c) /\ loaded = {}
         /\ status = 500

\* The format named by the content-type option (the first one that has it), or
\* the first format when there is no such option.
Chosen(formats, option) ==
    IF option.type = {}
    THEN {formats[1]}
    ELSE {formats[i] : i \in {k \in DOMAIN formats :
                                /\ formats[k].type \in option.type
                                /\ \A j \in 1..(k - 1) : formats[j].type \notin option.type}}

\* Mutated form: the plugin's code is used as it comes.
PluginCode(code) == code

ResponseCodeToHTTP(code) == IF code \in {200, 400} THEN code ELSE 500

-----------------------------------------------------------------------------
(* Steps of a handler *)

Target(r) == order[r][at[r]]
AwaitsPlugin(r) == pc[r] \in {"formats", "evidence"}

\* The outstanding call of r can return a failure: the plugin says so, or it is
\* dead and gRPC says so.  It can return anything else only from a live plugin.
CallFails(r)   == r \notin stuck
CallReturns(r) == r \notin stuck /\ Target(r) \in alive

Respond(r, status, token) ==
    /\ responses' = [responses EXCEPT ![r] = Append(@, [status |-> status, token |-> token])]
    /\ pc' = [pc EXCEPT ![r] = "done"]

\* Mutated form: the caller goes on after it reported a problem.
ProblemWithoutReturn(r, status) ==
    /\ responses' = [responses EXCEPT ![r] = Append(@, [status |-> status, token |-> {}])]
    /\ pc' = [pc EXCEPT ![r] = IF @ = "idle" THEN "done" ELSE "next"]

Problem(r, status) == Respond(r, status, {})

RejectRequest(r) ==
    /\ pc[r] = "idle"
    /\ \E status \in Statuses :
         /\ Rejected(challenge[r], status)
         /\ Problem(r, status)
    /\ UNCHANGED <<config, alive, stuck, challenge, order, at, claims, collection, calls>>

AcceptRequest(r) ==
    /\ pc[r] = "idle"
    /\ \A status \in Statuses : ~Rejected(challenge[r], status)
    /\ pc' = [pc EXCEPT ![r] = "next"]
    /\ \E s \in QueryOrders(challenge[r]) : order' = [order EXCEPT ![r] = s]
    /\ claims' = [claims EXCEPT ![r] =
         [nonce |-> {challenge[r].nonce}, fn |-> @.fn, sizes |-> @.sizes]]
    /\ UNCHANGED <<config, alive, stuck, challenge, at, collection, calls, responses>>

HasNext(r) == pc[r] = "next" /\ at[r] <= Len(order[r])

LookupFails(r) ==
    /\ HasNext(r)
    /\ Target(r) \notin loaded
    /\ Problem(r, 500)
    /\ UNCHANGED <<config, alive, stuck, challenge, order, at, claims, collection, calls>>

\* Mutated form: one request at a time may have a call outstanding.
AskFormatsUnderLock(r) ==
    /\ HasNext(r)
    /\ Target(r) \in loaded
    /\ \A q \in Requests \ {r} : ~AwaitsPlugin(q)
    /\ pc' = [pc EXCEPT ![r] = "formats"]
    /\ UNCHANGED <<config, alive, stuck, challenge, order, at, claims, collection,
                   calls, responses>>

AskFormats(r) ==
    /\ HasNext(r)
    /\ Target(r) \in loaded
    /\ pc' = [pc EXCEPT ![r] = "formats"]
    /\ UNCHANGED <<config, alive, stuck, challenge, order, at, claims, collection,
                   calls, responses>>

\* GetSupportedFormats failed, or returned an empty list.
NoFormats(r) ==
    /\ pc[r] = "formats"
    /\ CallFails(r)
    /\ Problem(r, 500)
    /\ UNCHANGED <<config, alive, stuck, challenge, order, at, claims, collection, calls>>

OptionOf(r) == challenge[r].options[Target(r)]

\* The options do not parse, or name a content type that the plugin lacks.
BadOptions(r) ==
    /\ pc[r] = "formats"
    /\ CallReturns(r)
    /\ \E formats \in FormatLists \ {<<>>} :
         ~OptionOf(r).parses \/ Chosen(formats, OptionOf(r)) = {}
    /\ Problem(r, 400)
    /\ UNCHANGED <<config, alive, stuck, challenge, order, at, claims, collection, calls>>

Usable(r, format) == format.size > 0 /\ Target(r) # ""

\* No nonce can be made for the format, or the map refuses the attester's name.
UnusableFormat(r) ==
    /\ pc[r] = "formats"
    /\ CallReturns(r)
    /\ OptionOf(r).parses
    /\ \E formats \in FormatLists \ {<<>>} :
         \E format \in Chosen(formats, OptionOf(r)) : ~Usable(r, format)
    /\ Problem(r, 500)
    /\ UNCHANGED <<config, alive, stuck, challenge, order, at, claims, collection, calls>>

AskEvidence(r) ==
    /\ pc[r] = "formats"
    /\ CallReturns(r)
    /\ OptionOf(r).parses
    /\ \E formats \in FormatLists \ {<<>>} :
         \E format \in Chosen(formats, OptionOf(r)) :
           /\ Usable(r, format)
           /\ claims' = [claims EXCEPT ![r] =
                [nonce |-> @.nonce, fn |-> {NonceAdjustFunction},
                 sizes |-> [@.sizes EXCEPT ![Target(r)] = {format.size}]]]
           /\ calls' = [calls EXCEPT ![r] = Append(@,
                [to |-> Target(r), type |-> format.type,
                 nonce |-> AdjustNonce(challenge[r].nonce, format.size)])]
    /\ pc' = [pc EXCEPT ![r] = "evidence"]
    /\ UNCHANGED <<config, alive, stuck, challenge, order, at, collection, responses>>

\* Mutated form: an attester that fails is left out and the loop goes on.
SkipFailedAttester(r) ==
    /\ pc[r] = "evidence"
    /\ CallFails(r)
    /\ pc' = [pc EXCEPT ![r] = "next"]
    /\ at' = [at EXCEPT ![r] = @ + 1]
    /\ UNCHANGED <<config, alive, stuck, challenge, order, claims, collection, calls, responses>>

\* GetEvidence failed: the plugin's code, or 0 when gRPC reports the failure.
EvidenceFails(r) ==
    /\ pc[r] = "evidence"
    /\ CallFails(r)
    /\ \E code \in (IF CallReturns(r) THEN FailureCodes ELSE {}) \cup {0} :
         Problem(r, ResponseCodeToHTTP(code))
    /\ UNCHANGED <<config, alive, stuck, challenge, order, at, claims, collection, calls>>

\* What SetToken of the v2 token refuses.
TokenRefuses(e) ==
    e.call.to \in ReservedKeys \cup CmwRefuses \/ e.call.type = "" \/ e.empty

EvidenceReply(r, empty) == [call |-> calls[r][Len(calls[r])], empty |-> empty]

RefuseEvidence(r) ==
    /\ pc[r] = "evidence"
    /\ CallReturns(r)
    /\ challenge[r].accept = "v2"
    /\ \E empty \in BOOLEAN : TokenRefuses(EvidenceReply(r, empty))
    /\ Problem(r, 500)
    /\ UNCHANGED <<config, alive, stuck, challenge, order, at, claims, collection, calls>>

\* The legacy path drops the error of AddCollectionItem, and with it the evidence.
StoreEvidence(r) ==
    /\ pc[r] = "evidence"
    /\ CallReturns(r)
    /\ \E empty \in BOOLEAN :
         LET e == EvidenceReply(r, empty) IN
         /\ challenge[r].accept = "v2" => ~TokenRefuses(e)
         /\ collection' = IF e.call.to \in CmwRefuses
                          THEN collection
                          ELSE [collection EXCEPT ![r][e.call.to] = {e}]
    /\ at' = [at EXCEPT ![r] = @ + 1]
    /\ pc' = [pc EXCEPT ![r] = "next"]
    /\ UNCHANGED <<config, alive, stuck, challenge, order, claims, calls, responses>>

\* A reply without a Status makes the handler panic on a nil pointer; net/http
\* recovers and drops the connection.
Panic(r) ==
    /\ AwaitsPlugin(r)
    /\ CallReturns(r)
    /\ pc' = [pc EXCEPT ![r] = "aborted"]
    /\ UNCHANGED <<config, alive, stuck, challenge, order, at, claims, collection,
                   calls, responses>>

\* The CMW library decides whether an odd legacy collection can be serialised.
OddCollection(r) ==
    \/ Keys(collection[r]) = {}
    \/ \E n \in Names : \E e \in collection[r][n] : e.empty \/ e.call.type = ""

LoopEnds(r) == pc[r] = "next" /\ at[r] > Len(order[r])

Serialise(r) ==
    /\ LoopEnds(r)
    /\ challenge[r].accept = "v2" => Keys(collection[r]) # {}
    /\ Respond(r, 200, {[claims |-> claims[r], collection |-> collection[r]]})
    /\ UNCHANGED <<config, alive, stuck, challenge, order, at, claims, collection, calls>>

CannotSerialise(r) ==
    /\ LoopEnds(r)
    /\ IF challenge[r].accept = "v2" THEN Keys(collection[r]) = {} ELSE OddCollection(r)
    /\ Problem(r, 500)
    /\ UNCHANGED <<config, alive, stuck, challenge, order, at, claims, collection, calls>>

-----------------------------------------------------------------------------
(* Steps of the plugins *)

\* The plugin process dies. Nothing restarts it; its calls fail.
Crash(p) ==
    /\ p \in alive
    /\ alive' = alive \ {p}
    /\ stuck' = {r \in stuck : Target(r) # p}
    /\ UNCHANGED <<config, challenge, pc, order, at, claims, collection, calls, responses>>

\* The plugin never replies to the call that r waits for.
CallHangs(r) ==
    /\ AwaitsPlugin(r)
    /\ CallReturns(r)
    /\ stuck' = stuck \cup {r}
    /\ UNCHANGED <<config, alive, challenge, pc, order, at, claims, collection,
                   calls, responses>>

-----------------------------------------------------------------------------

Init ==
    /\ listOptions \in {"all", "selected"}
    /\ loaded \in LoadedSets
    /\ alive = loaded
    /\ stuck = {}
    /\ challenge \in [Requests -> Challenges]
    /\ pc = [r \in Requests |-> "idle"]
    /\ order = [r \in Requests |-> <<>>]
    /\ at = [r \in Requests |-> 1]
    /\ claims = [r \in Requests |-> [nonce |-> {}, fn |-> {}, sizes |-> EmptyMap]]
    /\ collection = [r \in Requests |-> EmptyMap]
    /\ calls = [r \in Requests |-> <<>>]
    /\ responses = [r \in Requests |-> <<>>]

\* What the goroutine of r does once the request has arrived.
Handle(r) ==
    \/ LookupFails(r)
    \/ AskFormats(r)
    \/ NoFormats(r)
    \/ BadOptions(r)
    \/ UnusableFormat(r)
    \/ AskEvidence(r)
    \/ EvidenceFails(r)
    \/ RefuseEvidence(r)
    \/ StoreEvidence(r)
    \/ Panic(r)
    \/ Serialise(r)
    \/ CannotSerialise(r)

Settled(r) == pc[r] \in {"done", "aborted"} \/ r \in stuck

\* Every request has been dealt with: nothing is left to do.
Quiescent == (\A r \in Requests : Settled(r)) /\ UNCHANGED vars

Next ==
    \/ \E r \in Requests : RejectRequest(r) \/ AcceptRequest(r) \/ Handle(r) \/ CallHangs(r)
    \/ \E p \in Names : Crash(p)
    \/ Quiescent

\* The Go scheduler runs every goroutine that can run, and a call that is not
\* stuck returns.  Requests need not arrive; plugins need neither crash nor hang.
Fairness == \A r \in Requests : WF_vars(Handle(r))

Spec == Init /\ [][Next]_vars
FairSpec == Spec /\ Fairness

-----------------------------------------------------------------------------
(* Properties *)

\* Types of the handler's state.
TypeOK ==
    /\ listOptions \in {"all", "selected"}
    /\ loaded \in LoadedSets
    /\ alive \subseteq loaded
    /\ stuck \subseteq {r \in Requests : AwaitsPlugin(r)}
    /\ challenge \in [Requests -> Challenges]
    /\ pc \in [Requests -> {"idle", "next", "formats", "evidence", "done", "aborted"}]
    /\ order \in [Requests -> Seq(Names)]
    /\ at \in [Requests -> Nat \ {0}]
    /\ claims \in [Requests -> Claims]
    /\ collection \in [Requests -> MapTo(Evidence)]
    /\ calls \in [Requests -> Seq(EvidenceIn)]
    /\ responses \in [Requests -> Seq(Response)]

\* A request gets one response: none while its handler runs or after a panic, one
\* when the handler returns, whichever of its early returns was taken.
OneResponse ==
    \A r \in Requests : Len(responses[r]) = IF pc[r] = "done" THEN 1 ELSE 0

Tokens(r) == UNION {responses[r][i].token : i \in DOMAIN responses[r]}

\* A token carries evidence from every attester the challenge asks for and from no
\* other, and a size in nonce_adjust_map for each of them.  A failed, refused, dead
\* or unknown attester costs the whole response.  Only the legacy path can lose
\* evidence: that of a name which the CMW library refuses as a key.
TokenIsComplete ==
    \A r \in Requests : \A t \in Tokens(r) :
        LET wanted == Wanted(challenge[r])
            lost == IF challenge[r].accept = "v2" THEN {} ELSE CmwRefuses
        IN  /\ Keys(t.claims.sizes) = wanted
            /\ Keys(t.collection) = wanted \ lost
            /\ challenge[r].accept = "v2" =>
                 \A n \in wanted : \A e \in t.collection[n] : ~TokenRefuses(e)

\* From the claims of a token alone (nonce, function, size by attester) a verifier
\* recomputes the nonce that each piece of evidence in it was made for, and that
\* nonce is the one of this request and not of a concurrent one.
VerifierCanRecompute ==
    \A r \in Requests : \A t \in Tokens(r) :
        /\ t.claims.nonce = {challenge[r].nonce}
        /\ \A n \in Names : \A e \in t.collection[n] :
             /\ e.call.to = n
             /\ \E size \in t.claims.sizes[n], fn \in t.claims.fn :
                  e.call.nonce = AdjustNonceWith(challenge[r].nonce, size, fn)

\* A nonce that a plugin may be given: made of a nonce of 8 to 64 bytes, and not empty.
UsableNonce(nonce) == nonce.of.len \in 8..64 /\ nonce.size # 0

\* Evidence is taken from an attester at most once per request, only from those
\* the challenge asks for, in the order of the selection, and for a usable nonce: a
\* nonce or a format that is out of bounds costs the request before the plugin is called.
OnlyWantedAttesters ==
    \A r \in Requests :
        LET asked == [i \in DOMAIN calls[r] |-> calls[r][i].to]
        IN  /\ \A i \in DOMAIN calls[r] : UsableNonce(calls[r][i].nonce)
            /\ IsInjective(asked)
            /\ Range(asked) \subseteq Wanted(challenge[r])
            /\ challenge[r].selection.given =>
                 \A i, j \in DOMAIN asked : i < j =>
                    FirstAt(challenge[r].selection.names, asked[i])
                      < FirstAt(challenge[r].selection.names, asked[j])

\* The attesters a handler has been through up to an index of its order.
Served(r, upto) == {order[r][i] : i \in 1..upto}

\* Evidence made for this request's nonce, at a size that the map records.
ForThisRequest(r, call) ==
    \E size \in claims[r].sizes[call.to] :
        call.nonce = AdjustNonce(challenge[r].nonce, size)

NothingCollected(r) ==
    /\ at[r] = 1
    /\ claims[r].fn = {}
    /\ claims[r].sizes = EmptyMap
    /\ collection[r] = EmptyMap

\* The attesters before "at" have been served and nothing else has been kept.
PartlyCollected(r) ==
    /\ order[r] \in QueryOrders(challenge[r])
    /\ at[r] <= Len(order[r]) + (IF pc[r] = "next" THEN 1 ELSE 0)
    /\ claims[r].nonce = {challenge[r].nonce}
    /\ Keys(claims[r].sizes) = Served(r, IF pc[r] = "evidence" THEN at[r] ELSE at[r] - 1)
    /\ Keys(claims[r].sizes) # {} => claims[r].fn = {NonceAdjustFunction}
    /\ Keys(collection[r]) = Served(r, at[r] - 1) \ CmwRefuses
    /\ challenge[r].accept = "v2" => Served(r, at[r] - 1) \cap CmwRefuses = {}
    /\ \A n \in Names : \A e \in collection[r][n] :
         /\ e.call.to = n
         /\ ForThisRequest(r, e.call)
         /\ challenge[r].accept = "v2" => ~TokenRefuses(e)

\* The outstanding GetEvidence call is the one that was made last.
CallOutstanding(r) ==
    /\ calls[r] # <<>>
    /\ calls[r][Len(calls[r])].to = Target(r)
    /\ ForThisRequest(r, calls[r][Len(calls[r])])

InProgress(r) == pc[r] \in {"next", "formats", "evidence"}

HandlerInvAt(r) ==
    /\ pc[r] = "idle" => NothingCollected(r)
    /\ InProgress(r) => PartlyCollected(r)
    /\ pc[r] = "evidence" => CallOutstanding(r)

\* What a handler holds between two of its steps, whatever the plugins answered and
\* whichever of them died: the inductive invariant behind the two properties above.
HandlerInv == \A r \in Requests : HandlerInvAt(r)

\* What the handler goes through is the list that the loop builds from the selection:
\* each name once, where it is first named.
SelectionIsLoop ==
    \A r \in Requests :
        challenge[r].selection.given /\ InProgress(r) =>
            order[r] = Dedup(challenge[r].selection.names)

\* Once a request has its response, no plugin is called for it any more and the
\* response stands.
QuietAfterResponse ==
    [][\A r \in Requests :
          responses[r] # <<>> => responses'[r] = responses[r] /\ calls'[r] = calls[r]]_vars

\* Every request that was accepted is settled: answered, dropped by a panic, or
\* waiting for a plugin that never replies.  One request that waits for ever does
\* not keep another from its answer.
EveryRequestSettles ==
    \A r \in Requests : (pc[r] = "next") ~> Settled(r)

\* What docs/api/ratsd.yaml says of the status: a 200 carries evidence.
OkCarriesEvidence ==
    \A r \in Requests : \A i \in DOMAIN responses[r] :
        responses[r][i].status = 200 => responses[r][i].token # {}

=============================================================================
