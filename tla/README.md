# TLA+ specifications of ratsd

ratsd is a daemon that answers a verifier's challenge with evidence from the
attesters of the machine it runs on. A client posts a nonce to
`/ratsd/chares`; ratsd adjusts the nonce to the size each *sub-attester* wants,
asks each sub-attester (a plugin: a child process reached by gRPC) for
evidence, and puts all the evidence and the claims a verifier needs into one
RATSD token. These modules specify that program: TLC checks them on small
instances and TLAPS proves what matters most for every instance.

## The system

| Part | Source | State | Operations | Module |
| --- | --- | --- | --- | --- |
| Challenge-response handler | `api/server.go` `RatsdChares` | per request: nonce, claims, collection, position in the loop | reject, accept, look up, ask formats, ask evidence, store, serialise, report a problem | `Chares`, `Selection`, `AcceptHeader` |
| Sub-attester list | `api/server.go` `RatsdSubattesters` | per request: the list so far | ask for options, add an entry, answer | `Subattesters` |
| HTTP wrapper | `api/api.gen.go` | none | route, bind parameters, apply middleware | `Gateway` |
| Authorisation | `auth/` | users, read at start-up | choose a backend, let a request through or not | `Gateway` |
| Plugin loader and manager | `plugin/goplugin_{loader,context,manager}.go` | checksums, map from name to handle, child processes | set checksums, register, discover, look up, close | `PluginLoader` |
| Plugin RPC | `plugin/goplugin_rpc.go` | none | a call returns the reply, or a failure when gRPC fails | in `Chares`, `Subattesters` and `PluginLoader` |
| Start-up | `cmd/main.go` | where it is | configure, make the authoriser, discover, serve, exit | `PluginLoader`, `Ratsd` |
| Token v2 | `ratsd-token-v2/` | claims, collection, signature | set, validate, sign, verify, encode, decode | `TokenV2`; the handler's use of it in `Chares` |
| Legacy token | `ratsd-token/` | claims | the same, without signature | `TokenLegacy`; the handler's use of it in `Chares` |
| TSM report | `tokens/` | report | encode, decode, validate | in `Attester` |
| Attesters | `attesters/tsm`, `attesters/mocktsm` | none (the configfs entry) | formats, evidence | `Attester`, `Plugin` |
| Generated code and mocks | `proto/`, `api/mocks/` | none | | not modelled |

How they meet (`Ratsd` composes them): `main` makes the authoriser, sets the
checksums and builds the plugin manager, which discovers the plugins *before* the server listens; the map of handles is never
written again. `net/http` then runs one goroutine per request. A goroutine's
claims and collection are local to it. What requests share is the plugin
processes, by way of the handles, and nothing else. No call to a plugin has a
deadline (`context.Background()`), nothing restarts a plugin that dies, and
nothing stops the plugins when `main` ends in `log.Fatal`.

What is hard in it:

- the loop over the attesters is all-or-nothing: any of nine early returns in
  a closure must end the request, after other attesters gave their evidence;
- the claims must say, for each attester, the size of the nonce that was
  really sent to it, or no verifier can check the evidence;
- requests run at the same time over the same plugins;
- plugins die or hang between any two calls, or reply without a status;
- discovery launches processes one by one and can fail after any of them;
- the two token formats do not fail alike: v2 refuses, legacy drops;
- a v2 token object is filled, signed, changed, encoded and decoded into in any
  order, and keeps its signature all the while;
- claims of the legacy token share a Go map with the caller who set them;
- handlers read the map of plugins and the users with no lock, which is sound
  only because start-up is over before the first request;
- the platform may be updated, or go, between the two reads of a TSM report.

Per component, what makes it correct: *handler*: one response for each
request, complete evidence or none, the nonce recomputable from the claims,
each wanted attester asked once and no other, no request starved by another.
*Accept header*: a comma in a profile does not split a range; the first known
range wins. *Loader*: only verified executables run, all of the directory is
served or nothing, a name keeps its plugin, every process is known. *Token*:
what verifies was signed as it is, and what is encoded can be decoded. *Gateway*:
no handler runs for a request that is not authorised, and between them wrapper,
authoriser and handlers give one answer. *List*: all of the directory, each
name once. *Attesters*: what was announced is accepted, evidence is of this call
and a reader gets it back.

## Modules

`Chares.tla` is the handler. Each request `r` has a `pc`: `idle` until it
arrives, `next` at the head of the loop, `formats` and `evidence` while a call
to a plugin is outstanding, `done` once the handler returned, `aborted` when
it panicked. A step runs from the return of one gRPC call to the sending of
the next, because all that lies between is local to the goroutine. The
variables are the handler's own: `order` is `attestersToQuery`, `at` the index
in it, `claims` the nonce, adjust function and `nonce_adjust_map`, `collection`
the CMW collection. `calls` and `responses` record what left the handler. Every
early return is an action that reports a `Problem`; those of the request
itself (content type, Accept, JSON, selection, nonce, no plugin) are the one
action `RejectRequest`, since no call comes between them. `AcceptRequest`
makes the claims and the order. `AskEvidence` is the whole stretch from the
reply with the formats to the sending of GetEvidence: choice of the format,
both setters of the claims, the adjusted nonce. `Crash` and `CallHangs` are the
plugins'. A nonce stands for its bytes, with their count; an adjusted nonce is
the triple (nonce, size, function) that a hash is determined by; evidence is
the call it answers and whether it is empty. A value that may be missing is a
set of at most one element.

`Selection.tla` is the order in which a selection is queried, said twice: by
what it is (`SelectionOrders`) and as the loop of the code builds it (`Dedup`), so
that `SelectionIsLoop` can compare the two.

`ChallengeResponse.tla` is the abstract specification: a request is answered
in one step, with all the evidence or with none. `CharesRefinement.tla` maps
the handler to it (`ImplementsChallengeResponse`); `Losable` evidence is what
the legacy path may drop.

`AcceptHeader.tla` is `splitAcceptHeader` and `negotiateCharesResponse`: one
action per case of the loop over the runes, then one per case of the loop over
the ranges. `Chares` takes the result as the field `accept` of a challenge. `Header`
joins the ranges that a client offers; a range is well formed when, read as RFC 9110
says (`After`, `Readings`), no comma in it stands outside a quoted string and it ends
outside of one (`IsClosed`). `WellFormedAssumption` says so of the constant
`WellFormed`.

`PluginLoader.tla` is `main` from the checksums to serving, and discovery: one
action for each way `createPluginContext` and the loop around it can go on.
`running` are the child processes; only `Kill`, `Close` or a `Crash` takes one
out, so that what an exit leaves behind stays in it. Its configuration says of
each executable whether its entry is missing, is not hexadecimal, or is right
or wrong for the file that is there. viper gives keys in lower case, so an
executable with an upper-case letter in its name is never found in the
checksums (`ChecksumOf`).

`Gateway.tla` is the way of a request to its handler: the router, the generated
wrapper that binds the Accept header, the middleware, in the order in which they
are wrapped around each other (`gate`), and `NewAuthorizer` at start-up. viper's
folding of keys is in `Registered`: of two users whose names fold to one either
may be left. A hash is the password it was made from.

`Subattesters.tla` is `RatsdSubattesters`, cut at its calls of GetOptions as
`Chares` is at its own. `ListFailed` stands for a plugin that answers with an
error status and for one that is dead: the handler looks at neither.

`Ratsd.tla` composes `PluginLoader`, `Gateway`, `Chares` and `Subattesters` as
instances over one state. What the handlers take as a parameter, the loaded
plugins and the live ones, is read from the loader's map and processes
(`LoadedNames`, `AliveNames`); a `Crash` of a process fails the calls that it was
asked, in both handlers. `main` is `MakeAuthorizer` and the loader's steps; a
request moves only while ratsd serves, since its goroutine ends with the
process.

`RatsdService.tla` is what the daemon as a whole promises: sub-attesters are
found while nobody has asked (`Discover`), a request is let in if it is allowed
(`Admit`) or not (`Refuse`), a challenge is answered with all the evidence or
with none (`Attest`, `Decline`) and a list with all the sub-attesters (`Tell`).
Whether a request is allowed is what the administrator wrote, not what the
authoriser holds. `RatsdRefinement.tla` maps `Ratsd` to it
(`ImplementsService`).

`Attester.tla` is `tsm` and `mocktsm` with the TSM report of `tokens/`. The state is
the platform (`platform`, `available`, `version`), which calls share, and for
each call where it is, the report that it fills (`out`) and its answer. Each
report.Get makes a configfs entry of its own and is one step; SEV needs two, and
`Update` and `ComeOrGo` may fall between them. `Valid`, `Encode` and `Decoded` are
those of the report. `Plugin.tla` is the contract that ratsd counts on; it is
implemented by `Attester` with `ReplyOf`, the answer of a call as a caller sees it.

`TokenV2.tla` is the package `ratsdtokenv2`: its users hold Evidence objects
(`ev`) and call the exported operations in any order, one action for each;
`wire` are the tokens that were made. A call that returns an error changes
nothing and is no step. The package writes no part of an object before it has
checked it, which is why that holds; Sign alone assigns and then encodes, and
go-cose encodes whatever it has just signed. `ClaimsValid`, `ItemsValid`,
`CertificatesValid` are the validators. The encoding of an object is a record
with what is signed (`ToSign`: algorithm, chain, payload) and the signature;
`Decodings` is the set of objects that a token decodes to, one or none. Text is
modelled as far as encoder and decoder part over it. The encoder of the claims
writes any Go string as text and their decoder takes UTF-8 alone, so `Decodings`
asks `ClaimsAreText` (the constant `Utf8`), which `Valid` does not. The records
are safe from that: `payloadCBOR` copies a collection by encoding and decoding
it (`Clones`; the constant `CmwReads` is the text that the CMW library reads
again), so `Encodable` is less than `Valid`, and both sides ask the same. A
signature is the key and what it is over, because go-cose and the keys are
external; `signed` records what each key has signed so far, and is no variable
of the code. `Verifies` encodes the object again, as `Verify` does. Tokens of
other encoders are the constant `Foreign`: they may have unprotected headers,
another order of the claims, no claims, an array of one certificate. The
exported field Claims can be written (`WriteClaims`); writing the fields
Collection, SigningCert and IntermediateCerts is left out, as are certificates
without DER, which only such a write can make.

`TokenLegacy.tla` is the package `ratsdtoken`: `Objects` are Evidence objects
and `Slots` the variables of callers that have claims. Go's value semantics
makes the fields of claims independent but for the nonce-adjust map, so `claims`
has a reference into `heap` for it: `SetClaims` stores the caller's reference,
`GetClaims` and `UnmarshalJSON` a new one (`StoreCopy`), and `SetKeyandNonceSz`
writes through it. A map that nobody holds is empty, as if collected. JSON has
the fields and the map, and no member for an empty map.

`CharesProofs.tla`, `AcceptHeaderProofs.tla`, `PluginLoaderProofs.tla`,
`RatsdProofs.tla`, `TokenV2Proofs.tla`, `TokenLegacyProofs.tla` and
`AttesterProofs.tla` hold the theorems about the modules that they are named
for, and `Induction.tla` what the proofs about loops rest on. The `MC*` modules
give the constants for TLC. Definitions
commented "Mutated form" are plausible faults that the properties were tried
against; no specification uses them.

## Runs

| Run | Configuration | Shows |
| --- | --- | --- |
| `chares` | `MCChares.cfg` | one request against every kind of challenge, answer and failure |
| `chares_pair` | `MCCharesPair.cfg` | two requests at once, plugins that crash and hang, with fairness |
| `chares_ok` | `MCCharesOk.cfg` | violation: a 200 without evidence |
| `accept_header` | `MCAcceptHeader.cfg` | headers of up to three of nine ranges |
| `plugin_loader` | `MCPluginLoader.cfg` | discovery of three executables |
| `token_v2` | `MCTokenV2.cfg` | one object, two tokens, signatures that are moved about |
| `token_v2_claims` | `MCTokenV2Claims.cfg` | all setters and the decoder at the boundary of what is valid |
| `token_v2_adjust` | `MCTokenV2CddlAdjust.cfg` | violation: an adjust function without a map |
| `token_v2_stored` | `MCTokenV2Stored.cfg` | violation: a genuine signature that does not verify |
| `token_legacy` | `MCTokenLegacy.cfg` | an object and a caller that share a map |
| `attester` | `MCAttester.cfg` | two calls to tsm or mocktsm on a platform that changes |
| `ratsd` | `MCRatsd.cfg` | the daemon from start-up to the answers of two requests |

`chares` checks `OneResponse` (each request one response, and none after a
panic), `TokenIsComplete` (a token has evidence from, and a nonce size for,
exactly the wanted attesters), `OnlyWantedAttesters` (asked once each, in the
order of the selection, and for a nonce that is usable: made of 8 to 64 bytes,
and of a format whose size is not 0) and `SelectionIsLoop` (that order is the one that the
loop over the selection builds). Its 456 initial states take in
every early return, both boundaries of the nonce (7, 8, 64 and 65 bytes), a
name that is selected twice, one that no plugin has, one that CMW keeps for
itself, an empty name, formats that are empty, of size 0, without a type, or
twice of the same type. One request is enough there: requests share no state
that these properties read.

`chares_pair` checks what needs two: `VerifierCanRecompute` (the nonce in each
piece of evidence is this request's, and follows from the claims),
`HandlerInv` (the inductive invariant of the proofs), `QuietAfterResponse`,
`EveryRequestSettles` and `ImplementsChallengeResponse`, the refinement. Two plugins and two requests
give every overlap of two handlers on one plugin and the death or hang of it at
each step; a third request would add no kind of overlap, as the proofs confirm
for the safety part.

`chares_ok` lets a plugin put 200 on a failed GetEvidence. The handler passes
it on (`server.go:432`), and the client gets a 200 with a problem document;
`docs/api/ratsd.yaml` gives 200 to the two evidence types only.

`plugin_loader` has three executables, of which one has an upper-case letter,
three names and one checksum entry for an executable that is not there: enough
for a duplicate after a good plugin, an unknown one between two good ones and
a failure after either, under all configurations. `OnlyVerifiedRun`,
`RunningIsKnown` (what runs is in the map or is being identified),
`NothingRunsAfterClose`, `ServesWholeDirectory`, `NamesAreNotReused`,
`StartupEnds`; the last allows start-up to wait for a plugin that never gives its
name, which is what the code does.

`accept_header` checks `NothingIsLost` for all headers, also for one with a
quote that is never closed; `RangesAreRecovered` and `FirstKnownWins` for
headers that a client wrote as ranges. The set of ranges has quoted strings with a comma,
an escaped quote and an escaped escape, a stray backslash and an empty range;
three of them put each before and after each other.

`token_v2` has one object, two certificates, two records and two claims (one
of each is valid), the key of ratsd and one of another encoder, whose tokens are known from
the start; at most two tokens are made (`MaxTokens`). One object is enough
because objects share nothing but tokens and signatures, and the same object
takes both of its own earlier states and the foreign ones.
`VerifiedIsSigned`: if Verify passes, the certificates, claims and records of
the object are, together, what someone signed with that key. `TokensDecode`:
each token that was made is accepted by the decoder if its claims are UTF-8, and
the result encodes to the same token. What is passed to the setters and must not
be encoded are claims with a map and no function, and a record whose media type
is not UTF-8 (`"0xff"` stands for such bytes).

`token_v2_claims` signs nothing (it has no keys) and varies the content: nonces
of 7, 8, 64 and 65 bytes, each claim missing, an empty map and an empty key in
it, reserved keys, a name, a version, a key and a media type that are not UTF-8,
records without type or value, chains of one to three, and a foreign token with
each of these faults. `RoundTrip`: an object that can be encoded and has a
signature is decoded to itself if its claims are UTF-8.
`SettersKeepClaimsValid`: a setter that succeeds leaves valid claims valid, except that a size may be recorded before
there is a function. The exception is real: `SetKeyandNonceSz` then leaves
claims that are invalid until `SetNonceAdjustFn` is called.

Two runs of the v2 token show where code and documents part. `token_v2_adjust`:
the CDDL has adjust function and map both or neither, and `Claims.Valid` accepts
the function alone, or with an empty map. `token_v2_stored`: `Verify` is said to
verify the stored signature, and verifies it against a new encoding, so a token
whose signer orders the claims in another way, which the decoder accepts, does
not verify. Two more are in the model and not runs of their own. A claim that is
not UTF-8, such as a software name `"\xff"`, passes the setters and `Valid`, is
signed and encoded, and `FromCBOR` refuses the token: the case that the condition
in `TokensDecode` and `RoundTrip` leaves out. And the CDDL
allows x5chain alone in the protected header, and Sign adds the algorithm that
COSE needs.

`token_legacy` has one object and one caller, who can pass their claims to each
other, so that the caller changes the map of the object through its own claims,
or a copy of it. Nonces of 7, 8, 32, 64 and 65 bytes, one and two of them, a
missing or wrong profile, a function that is unknown, CMW values that cannot be
encoded or whose text does not decode, empty maps, an empty key; one token is
made, and there is one map more than there are holders, so that a new one is
always there. `OnlySetClaimsShares`: two holders come to share a map only by
SetClaims, so what GetClaims gives is the copy its comment promises; that this
holds for more holders is proved. `TokensDecode`: a token that is made is valid
and encodes to itself, the ones included that were decoded with an empty map.
`MapsAreAlike`, the symmetry of the run, is sound: nothing but equality is asked
of a reference. Two differences from the CDDL that the legacy token has as well
are modelled and not runs of their own: `Valid` takes a function without a map,
and several nonces.

`attester` has two calls, each to either attester, well formed or with one thing
wrong (a nonce of 63 or 65 bytes, a type that is not announced, options that do
not parse, a level that is no number), on platforms with an SEV or another
provider, with a newline after its name or not, with certificates or none, and
without a provider. The platform is updated up to twice (`MaxVersion`): before
and between the two reads of a call, or within each of two calls.
`AnnouncedIsAccepted`: formats are announced by one list and checked by other
code. `ReadDuringCall`: certificates are never older than the report they come
with, and an SEV guest has them where there are any. They may be newer, which the
property says, because the code does not read the two at once.
`EvidenceReadsBack`: what is encoded reads back as what was read from the
platform; into an object that was used before, its certificates stay where the
new report has none, which the property leaves open. `ImplementsPlugin` is the
contract.

`ratsd` has two executables, of which the second has a checksum or none, so that
start-up ends in service, in an exit, in a skipped plugin or in a duplicate name;
no backend, basic, basic with an entry that cannot be used, and unknown; a
user whose name has an upper-case letter and one that it folds to; and two
requests, each a challenge, a list, one that the wrapper refuses or one that is
not routed. `ServedIsAuthorised` speaks of the configuration as its author wrote it, not
of what the authoriser has read from it. `TokenCoversDirectory` and
`ListIsComplete` relate an answer to the directory at start-up, over whatever
died since; a plugin that died fails a challenge and stays on the list.
`SharedMapsAreFixed` is why the handlers may read without a lock.
`ImplementsService` puts them together: seen by its clients, all of it is
`RatsdService`, so that no interleaving of start-up, gates, handlers and dying
plugins gives an answer that the service would not.
`EveryRequestEnds` is liveness of both handlers behind both gates. Two requests
are enough for the overlaps because requests share only plugins and the maps,
and the run is the largest that ends in minutes; the safety
properties are proved for any number.

Bounds: the numbers of requests, plugins, names and formats are constants of
the instances; no counter grows without bound. Deadlock is checked for
`Chares`, whose only end is `Quiescent`. It is not checked where the program
stops: `PluginLoader` and `Ratsd` after an exit, `AcceptHeader` after its answer. `TokenV2` and
`TokenLegacy` need no exception: a certificate or a new object can always be set; in `Attester`
the platform can always come or go.

Fairness: `Chares` has weak fairness of each handler, because the Go scheduler
runs each goroutine that can run and a call that is not stuck returns. There
is none for the arrival of requests, for crashes or for hangs, and none that
makes a stuck call return: a request may wait for ever, and `Settled` says so.
`PluginLoader` has weak fairness of `Start`, the one thread of `main`; a
plugin that hangs while it is identified disables it. `Ratsd` has the same two:
of `Main`, and of each request once it has arrived (`gate` is not `new`), since a
client may never ask. The listener may fail at any time, which ends all requests;
nothing says that it does. `Attester` has no liveness property: whether a read
returns is up to the kernel.

## Proofs

All theorems hold for every set of requests, names, challenges and plugin
answers, under named assumptions on the constants that TLC checks on the
constants of the runs: those on the types of what is put in
(`ChallengesAssumption`, `FormatsAssumption`, `CodesAssumption`,
`CmwAssumption`, `MixedCaseAssumption`, `WellFormedAssumption`, `AskedAssumption`,
`AuthConfigsAssumption`, `AsksAssumption`, `PlatformsAssumption`, and those of the
two token modules); `LoadedAssumption` and `NamesFinite` (the names are
finitely many); `PathsAssumption` (Discover lists no file twice);
`PluginNamesAssumption` (a plugin can be asked for by its name);
`FoldAssumption` (a folded name folds to itself); `PasswordsAssumption` (a
password is none of the marks for a missing or unusable one).
`LiteralAssumption` says that a few literals are strings, which the provers do
not know.

`CharesProofs`:

- `TypeCorrect`, `HandlerInvariant`: types, and the inductive invariant
  `HandlerInv`. The properties of the response are not inductive, since a
  token is made from claims and collection in the last step of the loop:
  `HandlerInv` says what they hold before it. `PartlyCollected` states that
  the map of sizes and the collection have exactly the attesters before `at`
  (the map also has the one whose call is outstanding), each for this
  request's nonce at the recorded size; `CallOutstanding` that the last call
  is the one waited for. The proof has one lemma for each action that moves
  the acting request (`AcceptKeepsInv`, `AskFormatsKeepsInv`,
  `AskEvidenceKeepsInv`, `StoreEvidenceKeepsInv`), `Returned` for those that
  end it, and `Frame` with `OthersUnmoved` for the other requests, which is
  where concurrency is dealt with. `NotServedBefore` rests on the order being
  injective (`EnumerationsAreSequences`): without it the size of an earlier
  attester could be overwritten.
- `OneResponseTheorem`, `QuietAfterResponseTheorem`: from `RespondsOnce`, which
  says of every step what it may write, and `FirstResponse`.
- `TokenCompleteness`, `NonceIsRecomputable`: from `NewTokens` (a token appears
  only at the end of the loop), `AllServed` (there, the attesters before `at`
  are the wanted ones) and `HandlerInv`.
- `OnlyWantedAreAsked`: from the invariant `AskedInOrder`, that the calls so far
  go to the first attesters of the order, and the fact that every order
  enumerates the wanted attesters (`QueryOrdersEnumerate`); and from `AskedUsably`,
  that a request that is worked on has passed the bounds of the nonce.

- `SelectionHasOneOrder`: for every selection, of any length, there is one order
  that names each attester once by its first occurrence, and the loop builds it.
  `OneOrder` is that there are not two (the first place where they differed would
  have a name that comes too early in one of them), `DedupListsFirst` that the
  loop's list is one, by induction over its turns. From it
  `SelectionIsLoopTheorem`.
- `HandlerImplementsChallengeResponse`. `NextIsSeen` says what a client sees of a
  step: nothing, or that its request was `Declined` or `Attested`. A step that
  responds without a token, or panics, is `Decline` of its request (`Declines`);
  the step that serialises is `Attest`, losing what the CMW library refuses
  (`Attests`, with `WhatTheTokenHolds` from `HandlerInv`); the rest are stutters
  (`StutterImplements`). `AbortsByPanic` and `RespondsOnce` say that no step
  does more than one of these.

`AcceptHeaderProofs`: `TypeCorrect` (with `LoopInv`, the position of the loop),
`NothingIsLostTheorem`, `RangesAreRecoveredTheorem` and
`FirstKnownWinsTheorem`, for every header, with any number of ranges of any
length. Which ranges have been cut out says nothing yet of where the loop is in
the next one: `RecoverInv` is that the ranges before it are those of the client,
that the loop started where the client's next range does and is not past its end, and
that its flags are those of a reader (`Readings`) of that range. A comma then ends the range
just when the client ended it, since a well-formed range has none outside a quoted
string (`IsClosed`). `ChoiceInv` is that none of the ranges already passed over is
known.

`Induction`: `LeastNumber`, `InductionInSets` and `RecursionInSets`. The induction
theorems of the library have an operator for a parameter, which the provers
cannot instantiate; these say the same of sets and functions, from the fact that `<` on the
naturals is well founded, and can be cited. A recursive function of the model
is then unfolded with `RecursionInSets`, which gives that it exists.

`PluginLoaderProofs`: `LoaderTypeCorrect`; `OnlyVerifiedPluginsRun`, with
`NothingRunsYet` because the checksums change while nothing runs;
`CloseStopsEverything`, by way of `RunningIsKnown`; `WholeDirectoryIsServed`,
with `LoadedIsBehind` (the map holds the paths gone through that were not
skipped); `NamesKeepTheirPlugin`; `EveryProcessIsKnown` (`RunningIsKnown`).

`RatsdProofs`: `DaemonInvariant`, the inductive invariant `DaemonInv`. What is
served was authorised is not inductive, because the authoriser looks at `users`
and the property at the configuration: `AuthInv` says that each hash in `users`
comes from an entry whose name folds to that user (`RegisteredUsers`), and
`RequestInv` that a request beyond the gate was let through, that one before it
is untouched, and that a handler has answered exactly when it is done. The proof
has one lemma for each part of Next (`AuthorizerStep`, `MainStep`, `ApproachStep`,
`AnswerChallengeStep`, `ListPluginsStep`, `CrashStep`, `HangStep`), with `QuietStep`
for those that touch no request and `OneRequestStep` for those that touch one.
From it `ServedIsAuthorisedTheorem`, `OneAnswerTheorem` and
`SharedMapsAreFixedTheorem`: once a request has arrived, ratsd serves or has
exited, and no step of start-up is left (`NothingSharedIsWritten`).

On the directory: `ListIsCompleteTheorem`. The loader in the daemon takes the
steps of `PluginLoader` or exits (`LoaderSteps`), so its invariants, proved in
`PluginLoaderProofs`, are instantiated (`Discovery`) and hold here
(`LoaderInv`); requests find discovery at its end (`ArrivalsFindTheEnd`), hence a map of
the whole directory (`MapCoversDirectory`). `ListsInv` says that the entries so far
have the first names of an order that enumerates the map, which stays true
while others work because the map is fixed (`ListFrame`).
`TokenCoversDirectoryTheorem`: a step of the handler in the daemon is one of
`Chares` (`HandlerStepsAreAnswers`), so the lemmas of `CharesProofs` hold of it,
instantiated as `Answers`; of the other steps, those before the first request
may load plugins and those after it only kill them (`RestKeepsAnswers`).
`LaunchedInv` carries over that what is in the map was verified
(`LoadedIsVerified`), `AnswersInv` that evidence is from what is in the map
(`FromLoaded`).

On the service: `DaemonImplementsService`. `View` is what a client sees. A step of
the gateway is `Admit`, `Refuse` or a stutter (`ApproachIsService`, with
`PassIsAuthorised`, and `Routed`: what is bound was routed). A step of a
challenge's handler shows what `NextIsSeen` says, and only of a request that the
gateway let in, since any other is untouched (`AnsweredByHandler`,
`ChallengeIsService`). The step that writes a list is `Tell`, because `ListsInv`
has made it name the map (`ListIsService`). A step of discovery only adds to the map
(`MapGrows`), and no request has arrived (`StartIsService`): `Discover`. What is
left changes nothing that shows (`RestIsService`): the end of ratsd too, and
plugins that die or hang.

`TokenV2Proofs`:

- `SignedContent`: what is signed for an object has exactly its content, from
  `ChainContent`, that the x5chain header says which certificate is the leaf
  and which follow. `ChainDecoded`: it is an array exactly when the decoder
  wants one. `DecodedToItself` follows, and with it `NothingIsLost`
  (`RoundTrip`) and `EncoderDecoderAgree` (`TokensDecode`), for any `Utf8` and
  `CmwReads`: both theorems have the condition that the claims are UTF-8, and
  neither needs one on the records.
- `VerifiedWasSigned`: `VerifiedIsSigned` is not inductive, since a signature
  that is moved to an object was not made for it. `SignaturesRecorded` is: what
  any existing signature is over is recorded as signed. `ObjectChanged` says
  that all calls but Sign and ToCBOR change one object and give it only a
  signature that exists, `Signing` what Sign adds, and `RecordedStep` combines
  them.
- `SettersAreSafe`: setter by setter (`SetterStep`). `TypeCorrect`.

`TokenLegacyProofs`: `Steps` says that every step gives one holder claims of its
own (its map, a new one or none, `Own`), or is SetClaims or MarshalJSON; from it
`TypeCorrect`, and `CopiesAreCopies` (`OnlySetClaimsShares`) with
`SharingStep`, because a new map is one that nobody holds. `EncoderDecoderAgree`
(`TokensDecode`) rests on `EncodedDecodes`: leaving out an empty map keeps
claims valid.

`AttesterProofs`: `TypeCorrect` and `CallInvariant` (`AttesterInv`): a report
that a call holds between two steps was made for that call (`Filled`), has
certificates where the code must have fetched them (`Fetched`), and evidence is the
encoding of it (`Answered`). From it `AnnouncedIsAcceptedTheorem`;
`ReadDuringCallTheorem`, with `VersionsFit` for the order of the versions;
`EvidenceReadsBackTheorem`, with `ReadBack`: decoding a document into an object
leaves the object's own field only where the report has none; and
`ImplementsPluginTheorem`, step by step (`StepContract`): the step that answers
is the one step of the contract, and the others are stutters.

Every invariant and every action property that the runs check is proved, and so are
the three refinements. Only model-checked: the liveness properties
`EveryRequestSettles`, `StartupEnds` and `EveryRequestEnds`, since fairness and
`ENABLED` are out of the prover's reach. The findings are what the violating
runs show.

## Not modelled

- Text of messages and logs, HTTP framing, TLS, the bytes of JSON, CBOR, COSE,
  X.509 and CMW. The exception is text that is not UTF-8, where the v2 encoder
  and decoder part (`Utf8`, `CmwReads`). In the other modules text is UTF-8: `Chares` gets names and types from
  JSON and protobuf, which give no other, and in `TokenLegacy` the encoder of JSON, which
  would replace other bytes in a key of the map or a software name, is taken to
  meet none. The limits of the CBOR libraries on size and nesting are left out. What the CMW library makes of an
  odd legacy collection is a choice (`OddCollection`).
- Options of an attester other than `content-type` in `Chares`, which the handler
  passes through; `Attester` has the one that the attesters read.
- Generated code (`proto/compositor`, the types and the embedded description of
  `api/api.gen.go`, mocks): it has no behaviour of its own beyond the wrapper,
  which is in `Gateway`. `ChaResRequest.UnmarshalJSON` is not reached: the
  handler reads a map of raw values.
- The server side of the plugin RPC, which runs in the plugin and hands the call
  on, and the rest of go-plugin, whose outcomes are choices in `PluginLoader`.
- Pointers in the legacy claims other than the map (profile, nonce, adjust
  function): `SetClaims` shares them too, and the package writes through none.
- That a reply of gRPC belongs to the call it answers: it does by construction.
- What becomes of plugins after `log.Fatalf`: they stay in `running` once `stage`
  is `exited`, and no document says that they stop, so no property is stated.
- A platform that loses its certificates while it runs, and configfs entries that
  other programs write.
