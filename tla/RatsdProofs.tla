------------------------------ MODULE RatsdProofs ------------------------------
(***************************************************************************)
(* Theorems about the daemon as a whole: what is done for a request was    *)
(* authorised, a request has one answer, what request goroutines share     *)
(* without a lock is not written any more, and clients are told of all the *)
(* plugin directory.                                                       *)
(***************************************************************************)
EXTENDS RatsdRefinement, FiniteSetTheorems, TLAPS

\* The functions have the requests for their domain.
Shape ==
    /\ request \in [Clients -> Asked]
    /\ gate \in [Clients -> {"new", "bound", "refused", "handler"}]
    /\ DOMAIN refusals = Clients
    /\ pc \in [Clients -> {"idle", "next", "formats", "evidence", "done", "aborted"}]
    /\ DOMAIN calls = Clients
    /\ DOMAIN responses = Clients
    /\ listPc \in [Clients -> {"idle", "next", "options", "done"}]
    /\ DOMAIN list = Clients
    /\ DOMAIN answers = Clients

\* The authoriser that serves is the one of the configuration.
AuthInv ==
    /\ stage \notin {"created", "exited"} => authorizer \in {"passthrough", "basic"}
    /\ authorizer = "passthrough" => authCfg.backend \in {"absent", "none", "passthrough"}
    /\ authorizer = "basic" =>
         /\ authCfg.backend = "basic"
         /\ \A u \in UserNames : \A p \in users[u] :
              \E v \in UserNames : Fold[v] = u /\ authCfg.users[v] = p

ChallengeUntouched(r) == pc[r] = "idle" /\ calls[r] = <<>> /\ responses[r] = <<>>
ListUntouched(r) == listPc[r] = "idle" /\ list[r] = <<>> /\ answers[r] = <<>>

\* A request that was not let through is untouched, and a handler has answered exactly
\* when it is done.
RequestInv(r) ==
    /\ gate[r] # "new" => stage \in {"serving", "exited"}
    /\ gate[r] = "handler" => Authorised(r)
    /\ ~(gate[r] = "handler" /\ request[r].operation = "chares") => ChallengeUntouched(r)
    /\ ~(gate[r] = "handler" /\ request[r].operation = "subattesters") => ListUntouched(r)
    /\ Len(refusals[r]) = IF gate[r] = "refused" THEN 1 ELSE 0
    /\ gate[r] # "refused" => refusals[r] = <<>>
    /\ Len(responses[r]) = IF pc[r] = "done" THEN 1 ELSE 0
    /\ pc[r] # "done" => responses[r] = <<>>
    /\ Len(answers[r]) = IF listPc[r] = "done" THEN 1 ELSE 0
    /\ listPc[r] # "done" => answers[r] = <<>>

DaemonInv == Shape /\ AuthInv /\ \A r \in Clients : RequestInv(r)

-----------------------------------------------------------------------------
(* Initially *)

LEMMA InitDaemonInv == Init => DaemonInv
<1> SUFFICES ASSUME Init PROVE DaemonInv
    OBVIOUS
<1>1. /\ request \in [Clients -> Asked]
      /\ gate = [r \in Clients |-> "new"] /\ refusals = [r \in Clients |-> <<>>]
      /\ authorizer = "unset"
    BY DEF Init, Gate!Init
<1>2. /\ pc = [r \in Clients |-> "idle"] /\ calls = [r \in Clients |-> <<>>]
      /\ responses = [r \in Clients |-> <<>>]
    BY DEF Init, Handler!Init
<1>3. /\ listPc = [r \in Clients |-> "idle"] /\ list = [r \in Clients |-> <<>>]
      /\ answers = [r \in Clients |-> <<>>]
    BY DEF Init, Lister!Init
<1>4. stage = "created"
    BY DEF Init, Loader!Init
<1>5. Shape
    BY <1>1, <1>2, <1>3 DEF Shape
<1>6. AuthInv
    BY <1>1, <1>4 DEF AuthInv
<1>7. Len(<<>>) = 0
    OBVIOUS
<1>8. ASSUME NEW r \in Clients PROVE RequestInv(r)
    BY <1>1, <1>2, <1>3, <1>7 DEF RequestInv, ChallengeUntouched, ListUntouched
<1>9. QED
    BY <1>5, <1>6, <1>8 DEF DaemonInv

-----------------------------------------------------------------------------
(* Frames *)

\* What is said of one request reads only this.
LEMMA RequestFrame ==
    ASSUME NEW r \in Clients, RequestInv(r), UNCHANGED <<authCfg, request>>,
           stage \in {"serving", "exited"} => stage' \in {"serving", "exited"},
           gate'[r] = gate[r], refusals'[r] = refusals[r],
           pc'[r] = pc[r], calls'[r] = calls[r], responses'[r] = responses[r],
           listPc'[r] = listPc[r], list'[r] = list[r], answers'[r] = answers[r]
    PROVE  RequestInv(r)'
<1>1. Authorised(r) => Authorised(r)'
    BY Zenon DEF Authorised
<1>2. QED
    BY <1>1 DEF RequestInv, ChallengeUntouched, ListUntouched

\* A step that touches no request, and not the authoriser either.
LEMMA QuietStep ==
    ASSUME DaemonInv, UNCHANGED gatewayVars,
           UNCHANGED <<pc, calls, responses, listPc, list, answers>>,
           \/ stage' = stage
           \/ stage' = "exited"
           \/ stage \notin {"exited", "serving"} /\ authorizer \in {"passthrough", "basic"}
    PROVE  DaemonInv'
<1>1. UNCHANGED <<authCfg, authorizer, users, request, gate, refusals>>
    BY DEF gatewayVars
<1>2. Shape'
    BY <1>1 DEF DaemonInv, Shape
<1>3. AuthInv'
  <2>1. stage' \notin {"created", "exited"} => authorizer' \in {"passthrough", "basic"}
    BY <1>1 DEF DaemonInv, AuthInv
  <2>2. QED
    BY <1>1, <2>1 DEF DaemonInv, AuthInv
<1>4. ASSUME NEW r \in Clients PROVE RequestInv(r)'
  <2>1. stage \in {"serving", "exited"} => stage' \in {"serving", "exited"}
    OBVIOUS
  <2>2. RequestInv(r)
    BY DEF DaemonInv
  <2>3. QED
    BY <1>1, <2>1, <2>2, RequestFrame
<1>5. QED
    BY <1>2, <1>3, <1>4 DEF DaemonInv

\* A step of one request.
LEMMA OneRequestStep ==
    ASSUME DaemonInv, NEW r \in Clients, UNCHANGED <<authCfg, authorizer, users, request, stage>>,
           Shape', RequestInv(r)',
           \A q \in Clients \ {r} :
              /\ gate'[q] = gate[q] /\ refusals'[q] = refusals[q]
              /\ pc'[q] = pc[q] /\ calls'[q] = calls[q] /\ responses'[q] = responses[q]
              /\ listPc'[q] = listPc[q] /\ list'[q] = list[q] /\ answers'[q] = answers[q]
    PROVE  DaemonInv'
<1>1. AuthInv'
    BY DEF DaemonInv, AuthInv
<1>2. ASSUME NEW q \in Clients \ {r} PROVE RequestInv(q)'
    BY RequestFrame DEF DaemonInv
<1>3. QED
    BY <1>1, <1>2 DEF DaemonInv

-----------------------------------------------------------------------------
(* main, the plugins, and calls that hang *)

\* The users that are registered are those of the configuration.
LEMMA RegisteredUsers ==
    ASSUME Gate!MakeBasic
    PROVE  \A u \in UserNames : \A p \in users'[u] :
              \E v \in UserNames : Fold[v] = u /\ authCfg.users[v] = p
<1>1. PICK m \in Gate!Registered :
        users' = [u \in UserNames |-> IF m[u] = "absent" THEN {} ELSE {m[u]}]
    BY DEF Gate!MakeBasic
<1>2. SUFFICES ASSUME NEW u \in UserNames, NEW p \in users'[u]
               PROVE  \E v \in UserNames : Fold[v] = u /\ authCfg.users[v] = p
    OBVIOUS
<1>3. p = m[u] /\ m[u] # "absent"
    BY <1>1, <1>2
<1> DEFINE spelled == {authCfg.users[v] : v \in {w \in UserNames : Fold[w] = u}} \ {"absent"}
<1>4. m[u] \in (IF spelled = {} THEN {"absent"} ELSE spelled)
    BY Zenon DEF Gate!Registered
<1>5. m[u] \in spelled
    BY <1>3, <1>4
<1>6. QED
    BY <1>3, <1>5

LEMMA AuthorizerStep == DaemonInv /\ MakeAuthorizer => DaemonInv'
<1> SUFFICES ASSUME DaemonInv, MakeAuthorizer PROVE DaemonInv'
    OBVIOUS
<1>1. /\ stage = "created" /\ Gate!NewAuthorizer
      /\ stage' = IF authorizer' = "failed" THEN "exited" ELSE stage
      /\ UNCHANGED <<pc, calls, responses, listPc, list, answers>>
    BY DEF MakeAuthorizer, charesVars, listVars
<1>2. UNCHANGED <<authCfg, request, gate, refusals>>
    BY <1>1 DEF Gate!NewAuthorizer, Gate!AuthorizerFails, Gate!MakePassthrough, Gate!MakeBasic
<1>3. Shape'
    BY <1>1, <1>2 DEF DaemonInv, Shape
<1>4. AuthInv'
  <2>1. stage' \in {"created", "exited"}
    BY <1>1
  <2>2. CASE Gate!AuthorizerFails
    BY <2>1, <2>2 DEF AuthInv, Gate!AuthorizerFails
  <2>3. CASE Gate!MakePassthrough
    BY <2>1, <2>3 DEF AuthInv, Gate!MakePassthrough
  <2>4. CASE Gate!MakeBasic
    <3>1. authorizer' = "basic" /\ authCfg.backend = "basic" /\ authCfg' = authCfg
      BY <2>4 DEF Gate!MakeBasic, Gate!Basic
    <3>2. QED
      BY <2>1, <2>4, <3>1, RegisteredUsers DEF AuthInv
  <2>5. QED
    BY <1>1, <2>2, <2>3, <2>4 DEF Gate!NewAuthorizer
<1>5. ASSUME NEW r \in Clients PROVE RequestInv(r)'
    BY <1>1, <1>2, RequestFrame DEF DaemonInv
<1>6. QED
    BY <1>3, <1>4, <1>5 DEF DaemonInv

\* Start-up is over when requests are read.
LEMMA StartStages ==
    ASSUME Loader!Start
    PROVE  stage \notin {"exited", "serving"}
    BY DEF Loader!Start, Loader!SetChecksumFails, Loader!SetChecksum, Loader!BeginDiscovery,
           Loader!NoChecksum, Loader!ClientFails, Loader!Client, Loader!SkipUnknown,
           Loader!DispenseFails, Loader!Dispense, Loader!IdentifyFails, Loader!Duplicate,
           Loader!Load, Loader!DiscoveryEnds, Loader!Launches, Loader!Identified

LEMMA MainStep ==
    DaemonInv /\ (LoadPlugins \/ ConfigFails \/ StopServing \/ IdentificationHangs)
        => DaemonInv'
<1> SUFFICES ASSUME DaemonInv,
                    LoadPlugins \/ ConfigFails \/ StopServing \/ IdentificationHangs
             PROVE  DaemonInv'
    OBVIOUS
<1>1. UNCHANGED gatewayVars /\ UNCHANGED <<pc, calls, responses, listPc, list, answers>>
    BY DEF LoadPlugins, ConfigFails, StopServing, IdentificationHangs, charesVars, listVars
<1>2. \/ stage' = stage
      \/ stage' = "exited"
      \/ stage \notin {"exited", "serving"} /\ authorizer \in {"passthrough", "basic"}
  <2>1. CASE LoadPlugins
    BY <2>1, StartStages DEF LoadPlugins, Gate!Ready
  <2>2. CASE ConfigFails \/ StopServing
    BY <2>2 DEF ConfigFails, StopServing, Loader!StopServing, Loader!Exit
  <2>3. CASE IdentificationHangs
    BY <2>3 DEF IdentificationHangs, Loader!Hang
  <2>4. QED
    BY <2>1, <2>2, <2>3
<1>3. QED
    BY <1>1, <1>2, QuietStep

LEMMA CrashStep ==
    ASSUME DaemonInv, NEW f, Crash(f)
    PROVE  DaemonInv'
<1>1. /\ UNCHANGED gatewayVars
      /\ UNCHANGED <<pc, calls, responses, listPc, list, answers, stage>>
    BY DEF Crash, Loader!Crash, gatewayVars
<1>2. QED
    BY <1>1, QuietStep

LEMMA HangStep ==
    ASSUME DaemonInv, NEW r \in Clients, ChallengeHangs(r) \/ ListHangs(r)
    PROVE  DaemonInv'
<1>1. /\ UNCHANGED gatewayVars
      /\ UNCHANGED <<pc, calls, responses, listPc, list, answers, stage>>
    BY DEF ChallengeHangs, ListHangs, Handler!CallHangs, Lister!CallHangs, loaderVars,
           charesVars, listVars
<1>2. QED
    BY <1>1, QuietStep

-----------------------------------------------------------------------------
(* On the way to the handler *)

LEMMA OneOfThree ==
    ASSUME NEW a \in {0, 1}, NEW b \in {0, 1}, NEW c \in {0, 1},
           a = 0 \/ (b = 0 /\ c = 0), b = 0 \/ c = 0
    PROVE  a + b + c <= 1
    OBVIOUS

LEMMA AppendToNone ==
    ASSUME NEW s, s = <<>>, NEW x
    PROVE  Len(Append(s, x)) = 1
    OBVIOUS

\* A user that is registered with the password of a request is in the configuration.
LEMMA MatchIsAuthorised ==
    ASSUME DaemonInv, NEW r \in Clients, authorizer = "basic",
           Gate!Matches(request[r].credentials)
    PROVE  Authorised(r)
<1>1. PICK c \in request[r].credentials : c.password \in users[c.user]
    BY DEF Gate!Matches
<1>2. request[r] \in Gate!Request
    BY AskedAssumption DEF DaemonInv, Shape
<1>3. c.user \in UserNames
    BY <1>1, <1>2 DEF Gate!Request
<1>4. /\ authCfg.backend = "basic"
      /\ \E u \in UserNames : Fold[u] = c.user /\ authCfg.users[u] = c.password
    BY <1>1, <1>3 DEF DaemonInv, AuthInv
<1>5. QED
    BY <1>1, <1>4 DEF Authorised

LEMMA ServingIsReady ==
    ASSUME DaemonInv, Serving
    PROVE  authorizer \in {"passthrough", "basic"}
    BY DEF DaemonInv, AuthInv, Serving

\* A request that gets through was authorised by the configuration.
LEMMA PassIsAuthorised ==
    ASSUME DaemonInv, Serving, NEW r \in Clients, Gate!Pass(r)
    PROVE  Authorised(r)
<1>1. CASE authorizer = "basic"
    BY <1>1, MatchIsAuthorised DEF Gate!Pass
<1>2. CASE authorizer = "passthrough"
    BY <1>2 DEF DaemonInv, AuthInv, Authorised
<1>3. QED
    BY <1>1, <1>2, ServingIsReady

LEMMA ApproachStep ==
    ASSUME DaemonInv, NEW r \in Clients, Approach(r)
    PROVE  DaemonInv'
<1>1. /\ Serving /\ Gate!Approach(r)
      /\ UNCHANGED <<pc, calls, responses, listPc, list, answers, stage>>
    BY DEF Approach, loaderVars, charesVars, listVars
<1>2. RequestInv(r) /\ Shape
    BY DEF DaemonInv
<1>3. UNCHANGED <<authCfg, authorizer, users, request>>
    BY <1>1 DEF Gate!Approach, Gate!NotRouted, Gate!TooManyValues, Gate!Bind,
                Gate!Unauthorized, Gate!Pass
<1>4. CASE \E status \in {400, 401, 404} : gate[r] \in {"new", "bound"} /\ Gate!Refuse(r, status)
  <2>1. PICK status \in {400, 401, 404} :
            gate[r] \in {"new", "bound"} /\ Gate!Refuse(r, status)
    BY <1>4
  <2>2. /\ refusals' = [refusals EXCEPT ![r] = Append(refusals[r], status)]
        /\ gate' = [gate EXCEPT ![r] = "refused"]
    BY <2>1 DEF Gate!Refuse, Gate!MoveTo
  <2>3. /\ refusals'[r] = Append(refusals[r], status) /\ gate'[r] = "refused"
        /\ \A q \in Clients \ {r} : refusals'[q] = refusals[q] /\ gate'[q] = gate[q]
    BY <1>2, <2>2 DEF Shape
  <2>4. Len(refusals'[r]) = 1
    <3>1. refusals[r] = <<>>
      BY <1>2, <2>1 DEF RequestInv
    <3>2. QED
      BY <2>3, <3>1, AppendToNone
  <2>5. RequestInv(r)'
    BY <1>1, <1>2, <1>3, <2>1, <2>3, <2>4
       DEF RequestInv, ChallengeUntouched, ListUntouched, Serving
  <2>6. Shape'
    BY <1>1, <1>2, <1>3, <2>2 DEF Shape
  <2>7. QED
    BY <1>1, <1>3, <2>3, <2>5, <2>6, OneRequestStep
<1>5. CASE Gate!Bind(r) \/ Gate!Pass(r)
  <2>1. PICK where \in {"bound", "handler"} :
            /\ gate' = [gate EXCEPT ![r] = where]
            /\ where = "handler" => Gate!Pass(r)
    BY <1>5 DEF Gate!Bind, Gate!Pass, Gate!MoveTo
  <2>2. refusals' = refusals /\ gate[r] \in {"new", "bound"}
    BY <1>5 DEF Gate!Bind, Gate!Pass
  <2>3. gate'[r] = where /\ \A q \in Clients \ {r} : gate'[q] = gate[q]
    BY <1>2, <2>1 DEF Shape
  <2>4. gate'[r] = "handler" => Authorised(r)
    BY <1>1, <2>1, <2>3, PassIsAuthorised
  <2>5. Authorised(r) => Authorised(r)'
    BY <1>3, Zenon DEF Authorised
  <2>6. RequestInv(r)'
    BY <1>1, <1>2, <1>3, <2>2, <2>3, <2>4, <2>5
       DEF RequestInv, ChallengeUntouched, ListUntouched, Serving
  <2>7. Shape'
    BY <1>1, <1>2, <1>3, <2>1, <2>2 DEF Shape
  <2>8. QED
    BY <1>1, <1>3, <2>2, <2>3, <2>6, <2>7, OneRequestStep
<1>6. QED
    BY <1>1, <1>4, <1>5 DEF Gate!Approach, Gate!NotRouted, Gate!TooManyValues, Gate!Unauthorized

-----------------------------------------------------------------------------
(* The handlers *)

\* What a step of a challenge's handler may do: it goes on, or answers and is done.
LEMMA ChallengeHandlerSteps ==
    ASSUME NEW r, Handler!RejectRequest(r) \/ Handler!AcceptRequest(r) \/ Handler!Handle(r)
    PROVE  /\ pc[r] # "done"
           /\ \/ /\ \E x : responses' = [responses EXCEPT ![r] = Append(responses[r], x)]
                 /\ pc' = [pc EXCEPT ![r] = "done"]
              \/ /\ responses' = responses
                 /\ \E p \in {"next", "formats", "evidence", "aborted"} :
                      pc' = [pc EXCEPT ![r] = p]
           /\ \/ calls' = calls
              \/ \E x : calls' = [calls EXCEPT ![r] = x]
<1>1. ASSUME NEW status, NEW token, Handler!Respond(r, status, token)
      PROVE  /\ \E x : responses' = [responses EXCEPT ![r] = Append(responses[r], x)]
             /\ pc' = [pc EXCEPT ![r] = "done"]
    BY <1>1 DEF Handler!Respond
<1>2. CASE Handler!RejectRequest(r)
  <2>1. pc[r] # "done" /\ calls' = calls /\ \E status : Handler!Respond(r, status, {})
    BY <1>2 DEF Handler!RejectRequest, Handler!Problem
  <2>2. QED
    BY <1>1, <2>1
<1>3. CASE Handler!AcceptRequest(r)
    BY <1>3 DEF Handler!AcceptRequest
<1>4. CASE Handler!LookupFails(r) \/ Handler!NoFormats(r) \/ Handler!BadOptions(r)
           \/ Handler!UnusableFormat(r) \/ Handler!RefuseEvidence(r)
           \/ Handler!CannotSerialise(r)
  <2>1. /\ pc[r] # "done" /\ calls' = calls
        /\ \E status \in {400, 500} : Handler!Respond(r, status, {})
    BY <1>4 DEF Handler!LookupFails, Handler!NoFormats, Handler!BadOptions,
                Handler!UnusableFormat, Handler!RefuseEvidence,
                Handler!CannotSerialise, Handler!Problem, Handler!HasNext, Handler!LoopEnds
  <2>2. PICK status \in {400, 500} : Handler!Respond(r, status, {})
    BY <2>1
  <2>3. QED
    BY <1>1, <2>1, <2>2
<1>5. CASE Handler!EvidenceFails(r)
  <2>1. pc[r] # "done" /\ calls' = calls /\ \E status : Handler!Respond(r, status, {})
    BY <1>5 DEF Handler!EvidenceFails, Handler!Problem
  <2>2. QED
    BY <1>1, <2>1
<1>6. CASE Handler!Serialise(r)
  <2>1. /\ pc[r] # "done" /\ calls' = calls
        /\ \E token : Handler!Respond(r, 200, token)
    BY <1>6 DEF Handler!Serialise, Handler!LoopEnds
  <2>2. QED
    BY <1>1, <2>1
<1>7. CASE Handler!AskFormats(r) \/ Handler!StoreEvidence(r) \/ Handler!Panic(r)
  <2>1. /\ pc[r] # "done" /\ calls' = calls /\ responses' = responses
        /\ \E p \in {"next", "formats", "aborted"} : pc' = [pc EXCEPT ![r] = p]
    BY <1>7 DEF Handler!AskFormats, Handler!StoreEvidence, Handler!Panic, Handler!HasNext,
                Handler!AwaitsPlugin
  <2>2. QED
    BY <2>1
<1>8. CASE Handler!AskEvidence(r)
  <2>1. /\ pc[r] # "done" /\ responses' = responses /\ pc' = [pc EXCEPT ![r] = "evidence"]
        /\ \E x : calls' = [calls EXCEPT ![r] = x]
    BY <1>8 DEF Handler!AskEvidence
  <2>2. QED
    BY <2>1
<1>9. QED
    BY <1>2, <1>3, <1>4, <1>5, <1>6, <1>7, <1>8 DEF Handler!Handle

LEMMA ListHandlerSteps ==
    ASSUME NEW r, Lister!Handle(r)
    PROVE  /\ listPc[r] # "done"
           /\ \/ /\ \E x : answers' = [answers EXCEPT ![r] = Append(answers[r], x)]
                 /\ listPc' = [listPc EXCEPT ![r] = "done"]
              \/ /\ answers' = answers
                 /\ \E p \in {"next", "options"} : listPc' = [listPc EXCEPT ![r] = p]
           /\ \/ list' = list
              \/ \E x : list' = [list EXCEPT ![r] = x]
<1>1. CASE Lister!Begin(r) \/ Lister!AskOptions(r)
    BY <1>1 DEF Lister!Begin, Lister!AskOptions, Lister!HasNext
<1>2. CASE Lister!ListPlugin(r) \/ Lister!ListFailed(r)
  <2>1. listPc[r] = "options" /\ \E options : Lister!AddEntry(r, options)
    BY <1>2 DEF Lister!ListPlugin, Lister!ListFailed, Lister!CallReturns
  <2>2. QED
    BY <2>1 DEF Lister!AddEntry
<1>3. CASE Lister!Answer(r)
    BY <1>3 DEF Lister!Answer
<1>4. QED
    BY <1>1, <1>2, <1>3 DEF Lister!Handle

LEMMA AnswerChallengeStep ==
    ASSUME DaemonInv, NEW r \in Clients, AnswerChallenge(r)
    PROVE  DaemonInv'
<1>1. /\ Serving /\ gate[r] = "handler" /\ request[r].operation = "chares"
      /\ UNCHANGED <<authCfg, authorizer, users, request, gate, refusals, stage>>
      /\ UNCHANGED <<listPc, list, answers>>
    BY DEF AnswerChallenge, Admitted, loaderVars, gatewayVars, listVars
<1>2. Shape /\ RequestInv(r)
    BY DEF DaemonInv
<1>3. Authorised(r)'
  <2>1. Authorised(r)
    BY <1>1, <1>2 DEF RequestInv
  <2>2. QED
    BY <1>1, <2>1, Zenon DEF Authorised
<1>4. pc[r] # "done" /\ responses[r] = <<>>
    BY <1>2, ChallengeHandlerSteps DEF AnswerChallenge, RequestInv
<1>5. /\ DOMAIN calls' = Clients
      /\ \A q \in Clients \ {r} : calls'[q] = calls[q]
  <2>1. calls' = calls \/ \E x : calls' = [calls EXCEPT ![r] = x]
    BY ChallengeHandlerSteps DEF AnswerChallenge
  <2>2. QED
    BY <1>2, <2>1 DEF Shape
<1>6. CASE /\ \E x : responses' = [responses EXCEPT ![r] = Append(responses[r], x)]
           /\ pc' = [pc EXCEPT ![r] = "done"]
  <2>1. PICK x : responses' = [responses EXCEPT ![r] = Append(responses[r], x)]
    BY <1>6
  <2>2. /\ responses'[r] = Append(responses[r], x) /\ pc'[r] = "done"
        /\ \A q \in Clients \ {r} : responses'[q] = responses[q] /\ pc'[q] = pc[q]
    BY <1>2, <1>6, <2>1 DEF Shape
  <2>3. Len(responses'[r]) = 1
    BY <1>4, <2>2, AppendToNone
  <2>4. RequestInv(r)'
    BY <1>1, <1>2, <1>3, <2>2, <2>3
       DEF RequestInv, ChallengeUntouched, ListUntouched, Serving
  <2>5. Shape'
    BY <1>1, <1>2, <1>5, <1>6, <2>1 DEF Shape
  <2>6. QED
    BY <1>1, <1>5, <2>2, <2>4, <2>5, OneRequestStep
<1>7. CASE /\ responses' = responses
           /\ \E p \in {"next", "formats", "evidence", "aborted"} : pc' = [pc EXCEPT ![r] = p]
  <2>1. PICK p \in {"next", "formats", "evidence", "aborted"} : pc' = [pc EXCEPT ![r] = p]
    BY <1>7
  <2>2. pc'[r] = p /\ \A q \in Clients \ {r} : pc'[q] = pc[q]
    BY <1>2, <2>1 DEF Shape
  <2>3. Len(responses'[r]) = 0
    BY <1>4, <1>7
  <2>4. RequestInv(r)'
    BY <1>1, <1>2, <1>3, <1>4, <1>7, <2>2, <2>3
       DEF RequestInv, ChallengeUntouched, ListUntouched, Serving
  <2>5. Shape'
    BY <1>1, <1>2, <1>5, <1>7, <2>1 DEF Shape
  <2>6. QED
    BY <1>1, <1>5, <1>7, <2>2, <2>4, <2>5, OneRequestStep
<1>8. QED
    BY <1>6, <1>7, ChallengeHandlerSteps DEF AnswerChallenge

LEMMA ListPluginsStep ==
    ASSUME DaemonInv, NEW r \in Clients, ListPlugins(r)
    PROVE  DaemonInv'
<1>1. /\ Serving /\ gate[r] = "handler" /\ request[r].operation = "subattesters"
      /\ UNCHANGED <<authCfg, authorizer, users, request, gate, refusals, stage>>
      /\ UNCHANGED <<pc, calls, responses>>
    BY DEF ListPlugins, Admitted, loaderVars, gatewayVars, charesVars
<1>2. Shape /\ RequestInv(r)
    BY DEF DaemonInv
<1>3. Authorised(r)'
  <2>1. Authorised(r)
    BY <1>1, <1>2 DEF RequestInv
  <2>2. QED
    BY <1>1, <2>1, Zenon DEF Authorised
<1>4. listPc[r] # "done" /\ answers[r] = <<>>
    BY <1>2, ListHandlerSteps DEF ListPlugins, RequestInv
<1>5. /\ DOMAIN list' = Clients
      /\ \A q \in Clients \ {r} : list'[q] = list[q]
  <2>1. list' = list \/ \E x : list' = [list EXCEPT ![r] = x]
    BY ListHandlerSteps DEF ListPlugins
  <2>2. QED
    BY <1>2, <2>1 DEF Shape
<1>6. CASE /\ \E x : answers' = [answers EXCEPT ![r] = Append(answers[r], x)]
           /\ listPc' = [listPc EXCEPT ![r] = "done"]
  <2>1. PICK x : answers' = [answers EXCEPT ![r] = Append(answers[r], x)]
    BY <1>6
  <2>2. /\ answers'[r] = Append(answers[r], x) /\ listPc'[r] = "done"
        /\ \A q \in Clients \ {r} : answers'[q] = answers[q] /\ listPc'[q] = listPc[q]
    BY <1>2, <1>6, <2>1 DEF Shape
  <2>3. Len(answers'[r]) = 1
    BY <1>4, <2>2, AppendToNone
  <2>4. RequestInv(r)'
    BY <1>1, <1>2, <1>3, <2>2, <2>3
       DEF RequestInv, ChallengeUntouched, ListUntouched, Serving
  <2>5. Shape'
    BY <1>1, <1>2, <1>5, <1>6, <2>1 DEF Shape
  <2>6. QED
    BY <1>1, <1>5, <2>2, <2>4, <2>5, OneRequestStep
<1>7. CASE /\ answers' = answers
           /\ \E p \in {"next", "options"} : listPc' = [listPc EXCEPT ![r] = p]
  <2>1. PICK p \in {"next", "options"} : listPc' = [listPc EXCEPT ![r] = p]
    BY <1>7
  <2>2. listPc'[r] = p /\ \A q \in Clients \ {r} : listPc'[q] = listPc[q]
    BY <1>2, <2>1 DEF Shape
  <2>3. Len(answers'[r]) = 0
    BY <1>4, <1>7
  <2>4. RequestInv(r)'
    BY <1>1, <1>2, <1>3, <1>4, <1>7, <2>2, <2>3
       DEF RequestInv, ChallengeUntouched, ListUntouched, Serving
  <2>5. Shape'
    BY <1>1, <1>2, <1>5, <1>7, <2>1 DEF Shape
  <2>6. QED
    BY <1>1, <1>5, <1>7, <2>2, <2>4, <2>5, OneRequestStep
<1>8. QED
    BY <1>6, <1>7, ListHandlerSteps DEF ListPlugins

-----------------------------------------------------------------------------
(* The theorems *)

LEMMA NextDaemonInv == DaemonInv /\ [Next]_vars => DaemonInv'
<1> SUFFICES ASSUME DaemonInv, [Next]_vars PROVE DaemonInv'
    OBVIOUS
<1>1. CASE UNCHANGED vars
  <2>1. /\ UNCHANGED gatewayVars
        /\ UNCHANGED <<pc, calls, responses, listPc, list, answers, stage>>
    BY <1>1 DEF vars, loaderVars, charesVars, listVars
  <2>2. QED
    BY <2>1, QuietStep
<1>2. CASE Main \/ ConfigFails \/ StopServing \/ IdentificationHangs
    BY <1>2, AuthorizerStep, MainStep DEF Main
<1>3. ASSUME NEW r \in Clients, Serve(r) \/ ChallengeHangs(r) \/ ListHangs(r)
      PROVE  DaemonInv'
    BY <1>3, ApproachStep, AnswerChallengeStep, ListPluginsStep, HangStep DEF Serve
<1>4. ASSUME NEW f \in Range(Paths), Crash(f) PROVE DaemonInv'
    BY <1>4, CrashStep
<1>5. QED
    BY <1>1, <1>2, <1>3, <1>4 DEF Next

\* The inductive invariant of the daemon.
THEOREM DaemonInvariant == Spec => []DaemonInv
    BY InitDaemonInv, NextDaemonInv, PTL DEF Spec

\* No plugin is called for a request that the configuration does not authorise, and
\* nothing is said of the plugins in answer to one.
THEOREM ServedIsAuthorisedTheorem == Spec => []ServedIsAuthorised
<1>1. DaemonInv => ServedIsAuthorised
  <2> SUFFICES ASSUME DaemonInv, NEW r \in Clients, ~Untouched(r) PROVE Authorised(r)
    BY DEF ServedIsAuthorised
  <2>1. RequestInv(r)
    BY DEF DaemonInv
  <2>2. ~ChallengeUntouched(r) \/ ~ListUntouched(r)
    BY DEF Untouched, ChallengeUntouched, ListUntouched
  <2>3. gate[r] = "handler"
    BY <2>1, <2>2 DEF RequestInv
  <2>4. QED
    BY <2>1, <2>3 DEF RequestInv
<1>2. QED
    BY <1>1, DaemonInvariant, PTL

\* Router, wrapper, authoriser and handlers write one answer between them at most.
THEOREM OneAnswerTheorem == Spec => []OneAnswer
<1>1. DaemonInv => OneAnswer
  <2> SUFFICES ASSUME DaemonInv, NEW r \in Clients
               PROVE  /\ Len(refusals[r]) + Len(responses[r]) + Len(answers[r]) <= 1
                      /\ refusals[r] # <<>> => Untouched(r)
    BY DEF OneAnswer
  <2>1. RequestInv(r)
    BY DEF DaemonInv
  <2>2. CASE gate[r] # "handler"
    <3>1. ChallengeUntouched(r) /\ ListUntouched(r)
      BY <2>1, <2>2 DEF RequestInv
    <3>2. Len(responses[r]) = 0 /\ Len(answers[r]) = 0
      BY <2>1, <3>1 DEF RequestInv, ChallengeUntouched, ListUntouched
    <3>3. Len(refusals[r]) \in {0, 1}
      BY <2>1 DEF RequestInv
    <3>4. Untouched(r)
      BY <3>1 DEF Untouched, ChallengeUntouched, ListUntouched
    <3>5. QED
      BY <3>2, <3>3, <3>4, OneOfThree, Zenon
  <2>3. CASE gate[r] = "handler"
    <3>1. refusals[r] = <<>>
      BY <2>1, <2>3 DEF RequestInv
    <3> DEFINE a == Len(refusals[r])
               b == Len(responses[r])
               c == Len(answers[r])
    <3>2. ChallengeUntouched(r) \/ ListUntouched(r)
      BY <2>1 DEF RequestInv
    <3>3. a = 0 /\ (ChallengeUntouched(r) => b = 0) /\ (ListUntouched(r) => c = 0)
      BY <2>1, <2>3 DEF RequestInv, ChallengeUntouched, ListUntouched
    <3>4. b \in {0, 1} /\ c \in {0, 1}
      BY <2>1 DEF RequestInv
    <3> HIDE DEF a, b, c
    <3>5. a \in {0, 1} /\ (b = 0 \/ c = 0)
      BY <3>2, <3>3
    <3>6. a + b + c <= 1
      BY <3>3, <3>4, <3>5, OneOfThree
    <3>7. QED
      BY <3>1, <3>6, Zenon DEF a, b, c
  <2>4. QED
    BY <2>2, <2>3
<1>2. QED
    BY <1>1, DaemonInvariant, PTL

LEMMA NothingSharedIsWritten ==
    ASSUME DaemonInv, [Next]_vars, NEW r \in Clients, Arrived(r)
    PROVE  UNCHANGED loadedByName /\ UNCHANGED <<authorizer, users>>
<1>1. stage \in {"serving", "exited"}
    BY DEF DaemonInv, RequestInv, Arrived
<1>2. CASE Main \/ ConfigFails \/ StopServing \/ IdentificationHangs
    BY <1>1, <1>2, StartStages
       DEF Main, MakeAuthorizer, LoadPlugins, ConfigFails, StopServing, IdentificationHangs,
           Loader!StopServing, Loader!Hang, gatewayVars
<1>3. CASE \E q \in Clients : Serve(q) \/ ChallengeHangs(q) \/ ListHangs(q)
    BY <1>3 DEF Serve, Approach, AnswerChallenge, ListPlugins, ChallengeHangs, ListHangs,
                Gate!Approach, Gate!NotRouted, Gate!TooManyValues, Gate!Bind,
                Gate!Unauthorized, Gate!Pass, loaderVars, gatewayVars
<1>4. CASE \E f \in Range(Paths) : Crash(f)
    BY <1>4 DEF Crash, Loader!Crash, gatewayVars
<1>5. CASE UNCHANGED vars
    BY <1>5 DEF vars, loaderVars, gatewayVars
<1>6. QED
    BY <1>2, <1>3, <1>4, <1>5 DEF Next

\* From the first request on the map of plugins and the users are not written.
THEOREM SharedMapsAreFixedTheorem == Spec => SharedMapsAreFixed
<1>1. DaemonInv /\ [Next]_vars =>
        [(\E r \in Clients : Arrived(r)) =>
            UNCHANGED loadedByName /\ UNCHANGED <<authorizer, users>>]_vars
    BY NothingSharedIsWritten
<1>2. QED
    BY <1>1, InitDaemonInv, NextDaemonInv, PTL DEF Spec, SharedMapsAreFixed

-----------------------------------------------------------------------------
(* What clients are told of the plugin directory: what discovery left in the    *)
(* map, by the theorems about the loader; what the list handlers make of it;    *)
(* and what tokens hold, by the theorems about the handler of challenges; while *)
(* other requests run and plugins die.                                          *)

Discovery == INSTANCE PluginLoaderProofs WITH Names <- PluginNames
Answers == INSTANCE CharesProofs WITH Requests <- Clients, LoadedSets <- SUBSET PluginNames,
                                      loaded <- LoadedNames, alive <- AliveNames

\* Requests come when discovery has gone through all of the directory.
LoaderInv ==
    /\ Discovery!TypeOK
    /\ Discovery!LoadedIsBehind
    /\ Discovery!OneFilePerName
    /\ \A r \in Clients : gate[r] # "new" => next = Len(Paths) + 1

\* Executables that run, or are in the map, were verified where they had to be.
LaunchedInv ==
    /\ Discovery!NothingRunsYet
    /\ Discovery!OnlyVerifiedRun
    /\ Discovery!LoadedIsVerified

\* The invariants of the handler, whose plugins are those of the daemon.
AnswersInv ==
    /\ Answers!TypeOK
    /\ Answers!HandlerInv
    /\ Answers!OneResponse
    /\ Answers!TokenIsComplete
    /\ Answers!FromLoaded

\* The list has the first names of the handler's order, which are the loaded ones.
Ordered(r) ==
    /\ listOrder[r] \in Seq(LoadedNames)
    /\ IsInjective(listOrder[r])
    /\ Range(listOrder[r]) = LoadedNames

Entered(r) ==
    /\ list[r] \in Seq(Lister!Entry)
    /\ Len(list[r]) <= Len(listOrder[r])
    /\ \A i \in DOMAIN list[r] : list[r][i].name = listOrder[r][i]

ListInv(r) ==
    /\ listPc[r] # "idle" => gate[r] # "new" /\ Ordered(r) /\ Entered(r)
    /\ listPc[r] = "idle" => list[r] = <<>>
    /\ listPc[r] = "options" => Len(list[r]) < Len(listOrder[r])
    /\ \A i \in DOMAIN answers[r] :
         listPc[r] = "done" /\ answers[r][i] = list[r] /\ Len(list[r]) = Len(listOrder[r])

ListsInv == DOMAIN listOrder = Clients /\ \A r \in Clients : ListInv(r)

-----------------------------------------------------------------------------
(* The loader in the daemon *)

LEMMA DirectoryAssumed ==
    /\ Paths \in Seq(Discovery!Files) /\ IsInjective(Paths)
    /\ MixedCase \subseteq Discovery!Files
    BY PathsAssumption, MixedCaseAssumption DEF Discovery!Files, Discovery!Range, Range

\* main's steps after the authoriser are the loader's.
LEMMA StartIsDiscovery == Loader!Start => Discovery!Start
<1> USE DEF Loader!Exit, Discovery!Exit, Loader!Launches, Discovery!Launches,
            Loader!Path, Discovery!Path, Loader!Kill, Discovery!Kill,
            Loader!Identified, Discovery!Identified, Loader!Listed, Discovery!Listed,
            Loader!Files, Discovery!Files, Loader!Range, Discovery!Range,
            Loader!ChecksumOf, Discovery!ChecksumOf, Loader!Secure, Discovery!Secure,
            Loader!Configured, Discovery!Configured
<1>1. Loader!SetChecksumFails => Discovery!SetChecksumFails
    BY Zenon DEF Loader!SetChecksumFails, Discovery!SetChecksumFails
<1>2. Loader!SetChecksum => Discovery!SetChecksum
    BY Zenon DEF Loader!SetChecksum, Discovery!SetChecksum
<1>3. Loader!BeginDiscovery => Discovery!BeginDiscovery
    BY Zenon DEF Loader!BeginDiscovery, Discovery!BeginDiscovery
<1>4. Loader!NoChecksum => Discovery!NoChecksum
    BY Zenon DEF Loader!NoChecksum, Discovery!NoChecksum
<1>5. Loader!ClientFails => Discovery!ClientFails
    BY Zenon DEF Loader!ClientFails, Discovery!ClientFails
<1>6. Loader!Client => Discovery!Client
    BY Zenon DEF Loader!Client, Discovery!Client
<1>7. Loader!SkipUnknown => Discovery!SkipUnknown
    BY Zenon DEF Loader!SkipUnknown, Discovery!SkipUnknown
<1>8. Loader!DispenseFails => Discovery!DispenseFails
    BY Zenon DEF Loader!DispenseFails, Discovery!DispenseFails
<1>9. Loader!Dispense => Discovery!Dispense
    BY Zenon DEF Loader!Dispense, Discovery!Dispense
<1>10. Loader!IdentifyFails => Discovery!IdentifyFails
    BY Zenon DEF Loader!IdentifyFails, Discovery!IdentifyFails
<1>11. Loader!Duplicate => Discovery!Duplicate
    BY Zenon DEF Loader!Duplicate, Discovery!Duplicate
<1>12. Loader!Load => Discovery!Load
    BY Zenon DEF Loader!Load, Discovery!Load
<1>13. Loader!DiscoveryEnds => Discovery!DiscoveryEnds
    BY Zenon DEF Loader!DiscoveryEnds, Discovery!DiscoveryEnds
<1>14. QED
    BY <1>1, <1>2, <1>3, <1>4, <1>5, <1>6, <1>7, <1>8, <1>9, <1>10, <1>11, <1>12, <1>13
       DEF Loader!Start, Discovery!Start

\* Nothing but discovery writes the loader's state, except that main may exit.
LEMMA LoaderSteps ==
    ASSUME [Next]_vars
    PROVE  \/ [Discovery!Next]_(Discovery!vars)
           \/ /\ UNCHANGED <<cfg, pluginChecksum, next, running, hung, loadedByName, skipped>>
              /\ stage' = "exited"
<1>1. ASSUME UNCHANGED loaderVars PROVE UNCHANGED Discovery!vars
    BY <1>1 DEF loaderVars, Discovery!vars
<1>2. CASE MakeAuthorizer
  <2>1. /\ UNCHANGED <<cfg, pluginChecksum, next, running, hung, loadedByName, skipped>>
        /\ stage' = stage \/ stage' = "exited"
    BY <1>2 DEF MakeAuthorizer
  <2>2. QED
    BY <2>1 DEF Discovery!vars
<1>3. CASE LoadPlugins
    BY <1>3, StartIsDiscovery DEF LoadPlugins, Discovery!Next
<1>4. CASE ConfigFails \/ StopServing
    BY <1>4 DEF ConfigFails, StopServing, Loader!StopServing, Loader!Exit
<1>5. CASE IdentificationHangs
    BY <1>5, Zenon DEF IdentificationHangs, Loader!Hang, Discovery!Hang, Loader!Identified,
           Discovery!Identified, Loader!Path, Discovery!Path, Discovery!Next
<1>6. ASSUME NEW r \in Clients, Serve(r) \/ ChallengeHangs(r) \/ ListHangs(r)
      PROVE  UNCHANGED loaderVars
    BY <1>6 DEF Serve, Approach, AnswerChallenge, ListPlugins, ChallengeHangs, ListHangs
<1>7. ASSUME NEW f \in Range(Paths), Crash(f) PROVE Discovery!Next
  <2>1. f \in Discovery!Files
    BY DEF Discovery!Files, Discovery!Range, Range
  <2>2. Discovery!Crash(f)
    BY <1>7, Zenon DEF Crash, Loader!Crash, Discovery!Crash, Loader!Path, Discovery!Path
  <2>3. QED
    BY <2>1, <2>2, Zenon DEF Discovery!Next
<1>8. CASE UNCHANGED vars
    BY <1>1, <1>8 DEF vars
<1>9. QED
    BY <1>1, <1>2, <1>3, <1>4, <1>5, <1>6, <1>7, <1>8 DEF Next, Main

\* A request arrives only at a server, and then discovery has ended.
LEMMA ArrivalsFindTheEnd ==
    ASSUME DaemonInv, LoaderInv, [Next]_vars, Discovery!LoadedIsBehind', NEW r \in Clients,
           gate'[r] # "new"
    PROVE  next' = Len(Paths) + 1
<1>1. CASE gate[r] # "new"
  <2>1. stage \in {"serving", "exited"} /\ next = Len(Paths) + 1
    BY <1>1 DEF DaemonInv, RequestInv, LoaderInv
  <2>2. next' = next
    BY <2>1, StartStages
       DEF Next, Main, MakeAuthorizer, LoadPlugins, ConfigFails, StopServing, Loader!StopServing,
           IdentificationHangs, Loader!Hang, Serve, Approach, AnswerChallenge, ListPlugins,
           ChallengeHangs, ListHangs, Crash, Loader!Crash, loaderVars, vars
  <2>3. QED
    BY <2>1, <2>2
<1>2. CASE gate[r] = "new"
  <2>1. gate' # gate
    BY <1>2
  <2>2. \E q \in Clients : Approach(q)
    BY <2>1 DEF Next, Main, MakeAuthorizer, Gate!NewAuthorizer, Gate!AuthorizerFails,
           Gate!MakePassthrough, Gate!MakeBasic, LoadPlugins, ConfigFails, StopServing,
           IdentificationHangs, Serve, AnswerChallenge, ListPlugins, ChallengeHangs,
           ListHangs, Crash, gatewayVars, vars
  <2>3. stage = "serving" /\ next' = next
    BY <2>2 DEF Approach, Serving, loaderVars
  <2>4. QED
    BY <2>3 DEF LoaderInv, Discovery!LoadedIsBehind
<1>3. QED
    BY <1>1, <1>2

LEMMA InitLoaderInv == Init => LoaderInv
<1> SUFFICES ASSUME Init PROVE LoaderInv
    OBVIOUS
<1>1. Discovery!Init
  <2>1. Loader!Init
    BY DEF Init
  <2>2. QED
    BY <2>1, Zenon DEF Loader!Init, Discovery!Init, Loader!Config, Discovery!Config,
       Loader!Listed, Discovery!Listed, Loader!Files, Discovery!Files, Loader!Range,
       Discovery!Range, Loader!Entries, Discovery!Entries
<1>2. Discovery!TypeOK
    BY <1>1, DirectoryAssumed, Discovery!InitTypeOK DEF Discovery!IsInjective, IsInjective
<1>3. Discovery!LoadedIsBehind /\ Discovery!OneFilePerName
    BY <1>1, DirectoryAssumed, Discovery!InitLoadedIsBehind
       DEF Discovery!IsInjective, IsInjective
<1>4. \A r \in Clients : gate[r] = "new"
    BY DEF Init, Gate!Init
<1>5. QED
    BY <1>2, <1>3, <1>4 DEF LoaderInv

LEMMA NextLoaderInv == DaemonInv /\ LoaderInv /\ [Next]_vars => LoaderInv'
<1> SUFFICES ASSUME DaemonInv, LoaderInv, [Next]_vars PROVE LoaderInv'
    OBVIOUS
<1>1. Discovery!TypeOK' /\ Discovery!LoadedIsBehind' /\ Discovery!OneFilePerName'
  <2>1. CASE [Discovery!Next]_(Discovery!vars)
    <3>1. Discovery!TypeOK'
      BY <2>1, DirectoryAssumed, Discovery!NextTypeOK
         DEF LoaderInv, Discovery!IsInjective, IsInjective
    <3>2. Discovery!LoadedIsBehind' /\ Discovery!OneFilePerName'
      BY <2>1, DirectoryAssumed, Discovery!NextLoadedIsBehind
         DEF LoaderInv, Discovery!IsInjective, IsInjective
    <3>3. QED
      BY <3>1, <3>2
  <2>2. CASE /\ UNCHANGED <<cfg, pluginChecksum, next, running, hung, loadedByName, skipped>>
             /\ stage' = "exited"
    <3>1. Discovery!LoadedIsBehind' /\ Discovery!OneFilePerName'
      BY <2>2 DEF LoaderInv, Discovery!LoadedIsBehind, Discovery!OneFilePerName,
              Discovery!Loaded, Discovery!Behind
    <3>2. hung' \in BOOLEAN
      BY <2>2, Zenon DEF LoaderInv, Discovery!TypeOK
    <3>3. Discovery!TypeOK'
      BY <2>2, <3>2 DEF LoaderInv, Discovery!TypeOK, Discovery!Stages
    <3>4. QED
      BY <3>1, <3>3
  <2>3. QED
    BY <2>1, <2>2, LoaderSteps
<1>2. ASSUME NEW r \in Clients, gate'[r] # "new" PROVE next' = Len(Paths) + 1
    BY <1>1, <1>2, ArrivalsFindTheEnd
<1>3. QED
    BY <1>1, <1>2 DEF LoaderInv

-----------------------------------------------------------------------------
(* The list handlers *)

LEMMA LoadedNamesFinite ==
    /\ IsFiniteSet(LoadedNames)
    /\ LoadedNames \subseteq PluginNames
    /\ LoadedNames \subseteq Names
<1>1. LoadedNames \subseteq PluginNames
    BY DEF LoadedNames
<1>2. QED
    BY <1>1, FS_Subset, NamesFinite, PluginNamesAssumption

LEMMA EnumerationsAreSequences ==
    ASSUME NEW s \in Lister!Enumerations(LoadedNames)
    PROVE  s \in Seq(LoadedNames) /\ IsInjective(s) /\ Range(s) = LoadedNames
<1>1. Cardinality(LoadedNames) \in Nat
    BY LoadedNamesFinite, FS_CardinalityType
<1>2. Lister!Cardinality(LoadedNames) = Cardinality(LoadedNames)
    BY Zenon DEF Lister!Cardinality, Cardinality
<1>3. s \in Lister!Bijection(1..Cardinality(LoadedNames), LoadedNames)
    BY <1>2 DEF Lister!Enumerations
<1>4. /\ s \in [1..Cardinality(LoadedNames) -> LoadedNames]
      /\ IsInjective(s)
      /\ \A t \in LoadedNames : \E i \in 1..Cardinality(LoadedNames) : s[i] = t
    BY <1>3 DEF Lister!Bijection, Lister!Injection, Lister!Surjection,
           Lister!IsInjective, IsInjective
<1>5. s \in Seq(LoadedNames)
    BY <1>1, <1>4
<1>6. Range(s) = LoadedNames
    BY <1>4 DEF Range
<1>7. QED
    BY <1>4, <1>5, <1>6

\* A request that has arrived stays so.
LEMMA ArrivedForGood ==
    ASSUME DaemonInv, [Next]_vars, NEW r \in Clients, gate[r] # "new"
    PROVE  gate'[r] # "new"
<1>1. CASE gate' = gate
    BY <1>1
<1>2. CASE \E q \in Clients : Approach(q)
  <2>1. PICK q \in Clients : Approach(q)
    BY <1>2
  <2>2. PICK where \in {"refused", "bound", "handler"} : gate' = [gate EXCEPT ![q] = where]
    BY <2>1 DEF Approach, Gate!Approach, Gate!NotRouted, Gate!TooManyValues, Gate!Bind,
                Gate!Unauthorized, Gate!Pass, Gate!Refuse, Gate!MoveTo
  <2>3. QED
    BY <2>2 DEF DaemonInv, Shape
<1>3. gate' = gate \/ \E q \in Clients : Approach(q)
    BY DEF Next, Main, MakeAuthorizer, Gate!NewAuthorizer, Gate!AuthorizerFails,
           Gate!MakePassthrough, Gate!MakeBasic, LoadPlugins, ConfigFails, StopServing,
           IdentificationHangs, Serve, AnswerChallenge, ListPlugins, ChallengeHangs,
           ListHangs, Crash, gatewayVars, vars
<1>4. QED
    BY <1>1, <1>2, <1>3

\* Whatever else goes on, a list that is being made stays as it is: its names are still
\* those of the map.
LEMMA ListFrame ==
    ASSUME DaemonInv, [Next]_vars, NEW r \in Clients, ListInv(r),
           listPc'[r] = listPc[r], list'[r] = list[r], listOrder'[r] = listOrder[r],
           answers'[r] = answers[r]
    PROVE  ListInv(r)'
<1>1. CASE listPc[r] = "idle"
    BY <1>1 DEF ListInv
<1>2. CASE listPc[r] # "idle"
  <2>1. gate[r] # "new" /\ Ordered(r) /\ Entered(r)
    BY <1>2 DEF ListInv
  <2>2. gate'[r] # "new" /\ loadedByName' = loadedByName
    BY <2>1, ArrivedForGood, NothingSharedIsWritten DEF Arrived
  <2>3. LoadedNames' = LoadedNames
    BY <2>2 DEF LoadedNames
  <2>4. Ordered(r)' /\ Entered(r)'
    BY <2>1, <2>3 DEF Ordered, Entered
  <2>5. QED
    BY <1>2, <2>2, <2>4 DEF ListInv
<1>3. QED
    BY <1>1, <1>2

LEMMA AppendEntry ==
    ASSUME NEW S, NEW s \in Seq(S), NEW x \in S
    PROVE  /\ Append(s, x) \in Seq(S)
           /\ Len(Append(s, x)) = Len(s) + 1
           /\ \A i \in 1..Len(s) : Append(s, x)[i] = s[i]
           /\ Append(s, x)[Len(s) + 1] = x
           /\ DOMAIN s = 1..Len(s)
           /\ DOMAIN Append(s, x) = 1..(Len(s) + 1)
    OBVIOUS

\* A step of a list handler, on its own request.
LEMMA ListStep ==
    ASSUME DaemonInv, ListsInv, [Next]_vars, NEW r \in Clients, ListPlugins(r)
    PROVE  ListInv(r)' /\ DOMAIN listOrder' = Clients
<1>1. /\ gate[r] = "handler" /\ Lister!Handle(r)
      /\ UNCHANGED <<gate, loadedByName>>
    BY DEF ListPlugins, Admitted, loaderVars, gatewayVars
<1>2. Shape /\ RequestInv(r) /\ ListInv(r) /\ DOMAIN listOrder = Clients
    BY DEF DaemonInv, ListsInv
<1>3. LoadedNames' = LoadedNames
    BY <1>1 DEF LoadedNames
<1>4. gate'[r] # "new"
    BY <1>1
<1>5. CASE Lister!Begin(r)
  <2>1. PICK s \in Lister!Enumerations(LoadedNames) : listOrder' = [listOrder EXCEPT ![r] = s]
    BY <1>5 DEF Lister!Begin
  <2>2. /\ listPc' = [listPc EXCEPT ![r] = "next"] /\ listPc[r] = "idle"
        /\ UNCHANGED <<list, answers>>
    BY <1>5 DEF Lister!Begin
  <2>3. listPc'[r] = "next" /\ listOrder'[r] = s /\ DOMAIN listOrder' = Clients
    BY <1>2, <2>1, <2>2 DEF Shape
  <2>4. list'[r] = <<>> /\ answers'[r] = <<>>
    BY <1>2, <2>2 DEF ListInv, RequestInv
  <2>5. Ordered(r)'
    BY <1>3, <2>3, EnumerationsAreSequences DEF Ordered
  <2>6. Entered(r)'
    <3>1. s \in Seq(LoadedNames)
      BY EnumerationsAreSequences
    <3>2. Len(s) \in Nat
      BY <3>1
    <3>3. QED
      BY <2>3, <2>4, <3>2 DEF Entered
  <2>7. QED
    BY <1>4, <2>3, <2>4, <2>5, <2>6 DEF ListInv
<1>6. CASE Lister!AskOptions(r)
  <2>1. /\ listPc' = [listPc EXCEPT ![r] = "options"] /\ listPc[r] = "next"
        /\ Len(list[r]) < Len(listOrder[r])
        /\ UNCHANGED <<listOrder, list, answers>>
    BY <1>6 DEF Lister!AskOptions, Lister!HasNext
  <2>2. listPc'[r] = "options"
    BY <1>2, <2>1 DEF Shape
  <2>3. Ordered(r)' /\ Entered(r)'
    BY <1>2, <1>3, <2>1 DEF ListInv, Ordered, Entered
  <2>4. QED
    BY <1>2, <1>4, <2>1, <2>2, <2>3 DEF ListInv
<1>7. CASE Lister!ListPlugin(r) \/ Lister!ListFailed(r)
  <2>1. PICK options \in OptionLists \cup {Lister!NoOptions} : Lister!AddEntry(r, options)
    BY <1>7 DEF Lister!ListPlugin, Lister!ListFailed
  <2> DEFINE entry == [name |-> Lister!Target(r), options |-> options]
  <2>2. listPc[r] = "options"
    BY <1>7 DEF Lister!ListPlugin, Lister!ListFailed, Lister!CallReturns
  <2>3. /\ list' = [list EXCEPT ![r] = Append(list[r], entry)]
        /\ listPc' = [listPc EXCEPT ![r] = "next"]
        /\ UNCHANGED <<listOrder, answers>>
    BY <2>1 DEF Lister!AddEntry
  <2>4. Ordered(r) /\ Entered(r) /\ Len(list[r]) < Len(listOrder[r])
    BY <1>2, <2>2 DEF ListInv
  <2>5. Lister!Target(r) = listOrder[r][Len(list[r]) + 1]
    BY DEF Lister!Target
  <2>6. Lister!Target(r) \in Names
    BY <2>4, <2>5, LoadedNamesFinite DEF Ordered, Entered
  <2>7. entry \in Lister!Entry /\ entry.name = Lister!Target(r)
    BY <2>6 DEF Lister!Entry
  <2> HIDE DEF entry
  <2>8. list'[r] = Append(list[r], entry) /\ listPc'[r] = "next"
    BY <1>2, <2>3 DEF Shape
  <2>9. Entered(r)'
    <3>1. /\ list'[r] \in Seq(Lister!Entry)
          /\ Len(list'[r]) = Len(list[r]) + 1
          /\ \A i \in 1..Len(list[r]) : list'[r][i] = list[r][i]
          /\ list'[r][Len(list[r]) + 1] = entry
          /\ DOMAIN list[r] = 1..Len(list[r])
          /\ DOMAIN list'[r] = 1..(Len(list[r]) + 1)
      BY <2>4, <2>7, <2>8, AppendEntry DEF Entered
    <3>2. Len(list[r]) \in Nat /\ Len(listOrder[r]) \in Nat
      BY <2>4 DEF Entered, Ordered
    <3>3. \A i \in DOMAIN list'[r] : list'[r][i].name = listOrder[r][i]
      BY <2>4, <2>5, <2>7, <3>1, <3>2 DEF Entered
    <3>4. QED
      BY <2>3, <2>4, <3>1, <3>2, <3>3 DEF Entered
  <2>10. Ordered(r)'
    BY <1>3, <2>3, <2>4 DEF Ordered
  <2>11. answers'[r] = <<>>
    BY <1>2, <2>2, <2>3 DEF RequestInv
  <2>12. QED
    BY <1>2, <1>4, <2>3, <2>8, <2>9, <2>10, <2>11 DEF ListInv
<1>8. CASE Lister!Answer(r)
  <2>1. /\ listPc[r] = "next" /\ Len(list[r]) = Len(listOrder[r])
        /\ answers' = [answers EXCEPT ![r] = Append(answers[r], list[r])]
        /\ listPc' = [listPc EXCEPT ![r] = "done"]
        /\ UNCHANGED <<listOrder, list>>
    BY <1>8 DEF Lister!Answer
  <2>2. answers[r] = <<>> /\ Ordered(r) /\ Entered(r)
    BY <1>2, <2>1 DEF RequestInv, ListInv
  <2>3. answers'[r] = Append(<<>>, list[r]) /\ listPc'[r] = "done"
    BY <1>2, <2>1, <2>2 DEF Shape
  <2>4. \A i \in DOMAIN answers'[r] : answers'[r][i] = list[r]
    BY <2>3
  <2>5. Ordered(r)' /\ Entered(r)'
    BY <1>3, <2>1, <2>2 DEF Ordered, Entered
  <2>6. QED
    BY <1>2, <1>4, <2>1, <2>3, <2>4, <2>5 DEF ListInv
<1>9. QED
    BY <1>1, <1>5, <1>6, <1>7, <1>8 DEF Lister!Handle

LEMMA InitListsInv == Init => ListsInv
<1> SUFFICES ASSUME Init PROVE ListsInv
    OBVIOUS
<1>1. /\ DOMAIN listOrder = Clients
      /\ \A r \in Clients : listPc[r] = "idle" /\ list[r] = <<>> /\ answers[r] = <<>>
    BY DEF Init, Lister!Init
<1>2. QED
    BY <1>1 DEF ListsInv, ListInv

LEMMA NextListsInv == DaemonInv /\ ListsInv /\ [Next]_vars => ListsInv'
<1> SUFFICES ASSUME DaemonInv, ListsInv, [Next]_vars PROVE ListsInv'
    OBVIOUS
<1>1. CASE \E r \in Clients : ListPlugins(r)
  <2>1. PICK r \in Clients : ListPlugins(r)
    BY <1>1
  <2>2. ListInv(r)' /\ DOMAIN listOrder' = Clients
    BY <2>1, ListStep
  <2>3. ASSUME NEW q \in Clients \ {r} PROVE ListInv(q)'
    <3>1. /\ listPc'[q] = listPc[q] /\ list'[q] = list[q]
          /\ listOrder'[q] = listOrder[q] /\ answers'[q] = answers[q]
      BY <2>1 DEF ListPlugins, Lister!Handle, Lister!Begin, Lister!AskOptions,
              Lister!ListPlugin, Lister!ListFailed, Lister!AddEntry, Lister!Answer,
              DaemonInv, ListsInv, Shape
    <3>2. QED
      BY <3>1, ListFrame DEF ListsInv
  <2>4. QED
    BY <2>2, <2>3 DEF ListsInv
<1>2. CASE UNCHANGED <<listPc, list, listOrder, answers>>
    BY <1>2, ListFrame DEF ListsInv
<1>3. (\E r \in Clients : ListPlugins(r)) \/ UNCHANGED <<listPc, list, listOrder, answers>>
    BY DEF Next, Main, MakeAuthorizer, LoadPlugins, ConfigFails, StopServing,
           IdentificationHangs, Serve, Approach, AnswerChallenge, ChallengeHangs, ListHangs,
           Lister!CallHangs, Crash, listVars, vars
<1>4. QED
    BY <1>1, <1>2, <1>3

\* Discovery went through the directory before there was a request, so the map has all
\* of it, each name once.
LEMMA MapCoversDirectory ==
    ASSUME LoaderInv, NEW r \in Clients, gate[r] # "new"
    PROVE  \A f \in Loader!Files \ skipped : \E n \in LoadedNames : f \in loadedByName[n]
<1>1. next = Len(Paths) + 1
    BY DEF LoaderInv
<1>2. Discovery!Behind = Discovery!Files
  <2>1. Len(Paths) \in Nat /\ DOMAIN Paths = 1..Len(Paths)
    BY DirectoryAssumed
  <2>2. QED
    BY <1>1, <2>1 DEF Discovery!Behind, Discovery!Files, Discovery!Range
<1>3. Discovery!Loaded = Discovery!Files \ skipped
    BY <1>2 DEF LoaderInv, Discovery!LoadedIsBehind
<1>4. Loader!Files = Discovery!Files
    BY DEF Loader!Files, Discovery!Files, Loader!Range, Discovery!Range
<1>5. QED
    BY <1>3, <1>4 DEF Discovery!Loaded, LoadedNames

\* Each list of sub-attesters names all of the directory but what was skipped, each name
\* once, and only names that are good for a challenge: whichever plugins have died, and
\* however late the request came.
THEOREM ListIsCompleteTheorem == Spec => []ListIsComplete
<1>1. LoaderInv /\ ListsInv => ListIsComplete
  <2> SUFFICES ASSUME LoaderInv, ListsInv, NEW r \in Clients, NEW i \in DOMAIN answers[r]
               PROVE  LET a == answers[r][i]
                      IN  /\ \A f \in Loader!Files \ skipped :
                               \E j \in DOMAIN a : f \in loadedByName[a[j].name]
                          /\ \A j \in DOMAIN a : a[j].name \in LoadedNames
                          /\ \A j, k \in DOMAIN a : j # k => a[j].name # a[k].name
    BY DEF ListIsComplete
  <2> DEFINE a == answers[r][i]
  <2>1. /\ listPc[r] = "done" /\ a = list[r] /\ Len(list[r]) = Len(listOrder[r])
    BY DEF ListsInv, ListInv
  <2>2. gate[r] # "new" /\ Ordered(r) /\ Entered(r)
    BY <2>1 DEF ListsInv, ListInv
  <2> HIDE DEF a
  <2>3. DOMAIN a = DOMAIN listOrder[r]
    BY <2>1, <2>2 DEF Ordered, Entered
  <2>4. \A j \in DOMAIN a : a[j].name = listOrder[r][j]
    BY <2>1, <2>2 DEF Entered
  <2>5. \A n \in LoadedNames : \E j \in DOMAIN a : a[j].name = n
    BY <2>2, <2>3, <2>4 DEF Ordered, Range
  <2>6. \A f \in Loader!Files \ skipped : \E j \in DOMAIN a : f \in loadedByName[a[j].name]
    BY <2>2, <2>5, MapCoversDirectory
  <2>7. \A j \in DOMAIN a : a[j].name \in LoadedNames
    BY <2>2, <2>3, <2>4 DEF Ordered, Range
  <2>8. \A j, k \in DOMAIN a : j # k => a[j].name # a[k].name
    BY <2>2, <2>3, <2>4 DEF Ordered, IsInjective
  <2>9. QED
    BY <2>6, <2>7, <2>8 DEF a
<1>2. Init => DaemonInv /\ LoaderInv /\ ListsInv
    BY InitDaemonInv, InitLoaderInv, InitListsInv
<1>3. QED
    BY <1>1, <1>2, NextDaemonInv, NextLoaderInv, NextListsInv, PTL DEF Spec

-----------------------------------------------------------------------------
(* The handler of challenges in the daemon *)

LEMMA HandlerAssumed ==
    /\ Challenges \subseteq Answers!Challenge
    /\ Answers!IsFiniteSet(Names)
    /\ SUBSET PluginNames \subseteq SUBSET Names
    /\ FormatLists \subseteq Seq(Answers!Format)
    /\ FailureCodes \subseteq Nat
    /\ CmwRefuses \subseteq Names
<1>1. Challenges \subseteq Answers!Challenge
    BY ChallengesAssumption, Zenon DEF Handler!Challenge, Answers!Challenge, Handler!Nonce,
       Answers!Nonce, Handler!Option, Answers!Option
<1>2. FormatLists \subseteq Seq(Answers!Format)
    BY FormatsAssumption, Zenon DEF Handler!Format, Answers!Format
<1>3. Answers!IsFiniteSet(Names)
    BY NamesFinite, Zenon DEF IsFiniteSet, Answers!IsFiniteSet
<1>4. QED
    BY <1>1, <1>2, <1>3, PluginNamesAssumption, CodesAssumption, CmwAssumption

\* A step of the handler in the daemon is one of the handler by itself.
LEMMA HandlerStepsAreAnswers ==
    ASSUME NEW r \in Clients,
           \/ Handler!RejectRequest(r) \/ Handler!AcceptRequest(r)
           \/ Handler!Handle(r) \/ Handler!CallHangs(r)
    PROVE  Answers!Next
<1> USE DEF Handler!config, Answers!config, Handler!Problem, Answers!Problem,
            Handler!Respond, Answers!Respond, Handler!HasNext, Answers!HasNext,
            Handler!Target, Answers!Target, Handler!CallFails, Answers!CallFails,
            Handler!CallReturns, Answers!CallReturns, Handler!OptionOf, Answers!OptionOf,
            Handler!Chosen, Answers!Chosen, Handler!Usable, Answers!Usable,
            Handler!TokenRefuses, Answers!TokenRefuses, Handler!ReservedKeys,
            Answers!ReservedKeys, Handler!EvidenceReply, Answers!EvidenceReply,
            Handler!LoopEnds, Answers!LoopEnds, Handler!Keys, Answers!Keys,
            Handler!AwaitsPlugin, Answers!AwaitsPlugin
<1>1. \A c, status : Handler!Rejected(c, status) <=> Answers!Rejected(c, status)
    BY Zenon DEF Handler!Rejected, Answers!Rejected, Handler!BadRequest, Answers!BadRequest,
           Handler!SelectedNames, Answers!SelectedNames, Handler!MinNonceSize,
           Answers!MinNonceSize, Handler!MaxNonceSize, Answers!MaxNonceSize
<1>2. \A c : Handler!QueryOrders(c) = Answers!QueryOrders(c)
    BY Zenon DEF Handler!QueryOrders, Answers!QueryOrders, Handler!SelectionOrders,
           Answers!SelectionOrders, Handler!Enumerations, Answers!Enumerations,
           Handler!Bijection, Answers!Bijection, Handler!Injection, Answers!Injection,
           Handler!Surjection, Answers!Surjection, Handler!IsInjective, Answers!IsInjective,
           Handler!Cardinality, Answers!Cardinality, Handler!Range, Answers!Range,
           Handler!FirstAt, Answers!FirstAt
<1>3. Handler!Statuses = Answers!Statuses
    BY Zenon DEF Handler!Statuses, Answers!Statuses
<1>4. Handler!RejectRequest(r) => Answers!RejectRequest(r)
    BY <1>1, <1>3, Zenon DEF Handler!RejectRequest, Answers!RejectRequest
<1>5. Handler!AcceptRequest(r) => Answers!AcceptRequest(r)
    BY <1>1, <1>2, <1>3, Zenon DEF Handler!AcceptRequest, Answers!AcceptRequest
<1>6. Handler!LookupFails(r) => Answers!LookupFails(r)
    BY Zenon DEF Handler!LookupFails, Answers!LookupFails
<1>7. Handler!AskFormats(r) => Answers!AskFormats(r)
    BY Zenon DEF Handler!AskFormats, Answers!AskFormats
<1>8. Handler!NoFormats(r) => Answers!NoFormats(r)
    BY Zenon DEF Handler!NoFormats, Answers!NoFormats
<1>9. Handler!BadOptions(r) => Answers!BadOptions(r)
    BY Zenon DEF Handler!BadOptions, Answers!BadOptions
<1>10. Handler!UnusableFormat(r) => Answers!UnusableFormat(r)
    BY Zenon DEF Handler!UnusableFormat, Answers!UnusableFormat
<1>11. Handler!AskEvidence(r) => Answers!AskEvidence(r)
    BY Zenon DEF Handler!AskEvidence, Answers!AskEvidence, Handler!AdjustNonce,
           Answers!AdjustNonce, Handler!AdjustNonceWith, Answers!AdjustNonceWith,
           Handler!NonceAdjustFunction, Answers!NonceAdjustFunction
<1>12. Handler!EvidenceFails(r) => Answers!EvidenceFails(r)
    BY Zenon DEF Handler!EvidenceFails, Answers!EvidenceFails, Handler!ResponseCodeToHTTP,
           Answers!ResponseCodeToHTTP
<1>13. Handler!RefuseEvidence(r) => Answers!RefuseEvidence(r)
    BY Zenon DEF Handler!RefuseEvidence, Answers!RefuseEvidence
<1>14. Handler!StoreEvidence(r) => Answers!StoreEvidence(r)
    BY Zenon DEF Handler!StoreEvidence, Answers!StoreEvidence
<1>15. Handler!Panic(r) => Answers!Panic(r)
    BY Zenon DEF Handler!Panic, Answers!Panic
<1>16. Handler!Serialise(r) => Answers!Serialise(r)
    BY Zenon DEF Handler!Serialise, Answers!Serialise
<1>17. Handler!CannotSerialise(r) => Answers!CannotSerialise(r)
    BY Zenon DEF Handler!CannotSerialise, Answers!CannotSerialise, Handler!OddCollection,
           Answers!OddCollection
<1>18. Handler!CallHangs(r) => Answers!CallHangs(r)
    BY Zenon DEF Handler!CallHangs, Answers!CallHangs
<1>19. QED
    BY <1>4, <1>5, <1>6, <1>7, <1>8, <1>9, <1>10, <1>11, <1>12, <1>13, <1>14, <1>15, <1>16,
       <1>17, <1>18, Zenon DEF Handler!Handle, Answers!Handle, Answers!Next

LEMMA InitAnswersInv == Init => AnswersInv
<1> SUFFICES ASSUME Init PROVE AnswersInv
    OBVIOUS
<1>1. LoadedNames = {} /\ AliveNames = {}
    BY DEF Init, Loader!Init, LoadedNames, AliveNames
<1>2. Answers!Init
    BY <1>1, Zenon DEF Init, Handler!Init, Answers!Init, Handler!EmptyMap, Answers!EmptyMap
<1>3. Answers!TypeOK /\ Answers!HandlerInv /\ Answers!OneResponse
    BY <1>2, HandlerAssumed, Answers!InitTypeOK, Answers!InitHandlerInv, Answers!InitOneResponse
<1>4. Answers!TokenIsComplete /\ Answers!FromLoaded
    BY <1>2 DEF Answers!Init, Answers!TokenIsComplete, Answers!FromLoaded, Answers!Tokens,
           Answers!EmptyMap
<1>5. QED
    BY <1>3, <1>4 DEF AnswersInv

\* What a step that is none of the handler's leaves as it was.
HandlersRest ==
    /\ UNCHANGED <<listOptions, challenge, pc, order, at, claims, collection, calls, responses>>
    /\ stuck' \subseteq stuck

LEMMA HandlerStepsOrRest ==
    ASSUME [Next]_vars
    PROVE  HandlersRest \/ (Answers!Next /\ UNCHANGED loaderVars)
<1>1. ASSUME NEW r \in Clients, AnswerChallenge(r) \/ ChallengeHangs(r)
      PROVE  Answers!Next /\ UNCHANGED loaderVars
    BY <1>1, HandlerStepsAreAnswers DEF AnswerChallenge, ChallengeHangs
<1>2. CASE Main \/ ConfigFails \/ StopServing \/ IdentificationHangs
    BY <1>2 DEF Main, MakeAuthorizer, LoadPlugins, ConfigFails, StopServing,
           IdentificationHangs, charesVars, HandlersRest
<1>3. ASSUME NEW r \in Clients, Approach(r) \/ ListPlugins(r) \/ ListHangs(r)
      PROVE  HandlersRest
    BY <1>3 DEF Approach, ListPlugins, ListHangs, charesVars, HandlersRest
<1>4. ASSUME NEW f, Crash(f) PROVE HandlersRest
    BY <1>4 DEF Crash, HandlersRest
<1>5. CASE UNCHANGED vars
    BY <1>5 DEF vars, charesVars, HandlersRest
<1>6. QED
    BY <1>1, <1>2, <1>3, <1>4, <1>5 DEF Next, Serve

\* While the handlers rest, plugins may die, and before the first request they may
\* also be loaded.
LEMMA RestKeepsAnswers ==
    ASSUME DaemonInv, AnswersInv, [Next]_vars, HandlersRest
    PROVE  AnswersInv'
<1>1. /\ LoadedNames' \in SUBSET PluginNames /\ AliveNames' \subseteq LoadedNames'
    BY DEF LoadedNames, AliveNames
<1>2. Answers!TypeOK'
  <2>1. Answers!TypeOK
    BY DEF AnswersInv
  <2>2. QED
    BY <1>1, <2>1 DEF HandlersRest, Answers!TypeOK, Answers!AwaitsPlugin
<1>3. Answers!OneResponse'
    BY DEF AnswersInv, HandlersRest, Answers!OneResponse
<1>4. CASE \A r \in Clients : gate[r] = "new"
  <2>1. \A r \in Clients : pc[r] = "idle" /\ responses[r] = <<>>
    BY <1>4 DEF DaemonInv, RequestInv, ChallengeUntouched
  <2>2. ASSUME NEW r \in Clients PROVE Answers!NothingCollected(r)
    BY <2>1 DEF AnswersInv, Answers!HandlerInv, Answers!HandlerInvAt
  <2>3. ASSUME NEW r \in Clients PROVE Answers!HandlerInvAt(r)'
    BY <2>1, <2>2 DEF HandlersRest, Answers!HandlerInvAt, Answers!NothingCollected,
           Answers!InProgress
  <2>4. ASSUME NEW r \in Clients PROVE Answers!Tokens(r)' = {}
    BY <2>1 DEF HandlersRest, Answers!Tokens
  <2>5. Answers!TokenIsComplete'
    BY <2>4 DEF Answers!TokenIsComplete
  <2>6. Answers!FromLoaded'
    BY <2>2, <2>4 DEF HandlersRest, Answers!FromLoaded, Answers!NothingCollected,
           Answers!EmptyMap
  <2>7. QED
    BY <1>2, <1>3, <2>3, <2>5, <2>6 DEF AnswersInv, Answers!HandlerInv
<1>5. CASE \E r \in Clients : gate[r] # "new"
  <2>1. LoadedNames' = LoadedNames
    BY <1>5, NothingSharedIsWritten DEF Arrived, LoadedNames
  <2>2. ASSUME NEW r \in Clients PROVE Answers!HandlerInvAt(r)'
    BY <2>1, HandlerAssumed, Answers!Frame DEF HandlersRest, AnswersInv, Answers!HandlerInv
  <2>3. ASSUME NEW r \in Clients
        PROVE  /\ Answers!Tokens(r)' = Answers!Tokens(r)
               /\ Answers!Wanted(challenge[r])' = Answers!Wanted(challenge[r])
    BY <2>1 DEF HandlersRest, Answers!Tokens, Answers!Wanted
  <2>4. Answers!TokenIsComplete'
    BY <2>3 DEF AnswersInv, HandlersRest, Answers!TokenIsComplete
  <2>5. Answers!FromLoaded'
    BY <2>1, <2>3 DEF AnswersInv, HandlersRest, Answers!FromLoaded
  <2>6. QED
    BY <1>2, <1>3, <2>2, <2>4, <2>5 DEF AnswersInv, Answers!HandlerInv
<1>6. QED
    BY <1>4, <1>5

LEMMA NextAnswersInv == DaemonInv /\ AnswersInv /\ [Next]_vars => AnswersInv'
<1> SUFFICES ASSUME DaemonInv, AnswersInv, [Next]_vars PROVE AnswersInv'
    OBVIOUS
<1>1. CASE Answers!Next
  <2>1. Answers!TypeOK' /\ Answers!HandlerInv' /\ Answers!OneResponse'
    BY <1>1, HandlerAssumed, Answers!NextTypeOK, Answers!NextHandlerInv,
       Answers!NextOneResponse DEF AnswersInv
  <2>2. Answers!TokenIsComplete' /\ Answers!FromLoaded'
    BY <1>1, HandlerAssumed, Answers!NextTokenIsComplete, Answers!NextFromLoaded
       DEF AnswersInv
  <2>3. QED
    BY <2>1, <2>2 DEF AnswersInv
<1>2. CASE HandlersRest
    BY <1>2, RestKeepsAnswers
<1>3. QED
    BY <1>1, <1>2, HandlerStepsOrRest

LEMMA InitLaunchedInv == Init => LaunchedInv
    BY DEF Init, Loader!Init, LaunchedInv, Discovery!NothingRunsYet,
           Discovery!OnlyVerifiedRun, Discovery!LoadedIsVerified

LEMMA NextLaunchedInv == LoaderInv /\ LaunchedInv /\ [Next]_vars => LaunchedInv'
<1> SUFFICES ASSUME LoaderInv, LaunchedInv, [Next]_vars PROVE LaunchedInv'
    OBVIOUS
<1>1. CASE [Discovery!Next]_(Discovery!vars)
  <2>1. /\ Discovery!TypeOK /\ Discovery!NothingRunsYet /\ Discovery!OnlyVerifiedRun
        /\ Discovery!LoadedIsVerified
    BY DEF LoaderInv, LaunchedInv
  <2>2. Discovery!NothingRunsYet' /\ Discovery!OnlyVerifiedRun'
    BY <1>1, <2>1, DirectoryAssumed, Discovery!NextOnlyVerified
       DEF Discovery!IsInjective, IsInjective
  <2>3. Discovery!LoadedIsVerified'
    BY <1>1, <2>1, DirectoryAssumed, Discovery!NextLoadedIsVerified
       DEF Discovery!IsInjective, IsInjective
  <2>4. QED
    BY <2>2, <2>3 DEF LaunchedInv
<1>2. CASE /\ UNCHANGED <<cfg, pluginChecksum, next, running, hung, loadedByName, skipped>>
           /\ stage' = "exited"
    BY <1>2 DEF LaunchedInv, Discovery!NothingRunsYet, Discovery!OnlyVerifiedRun,
           Discovery!LoadedIsVerified, Discovery!Secure
<1>3. QED
    BY <1>1, <1>2, LoaderSteps

\* A token for all attesters has evidence from all of the directory but what was skipped,
\* and no token has any from an executable that was not verified where it had to be:
\* whichever plugins have died, and however late the request came.
THEOREM TokenCoversDirectoryTheorem == Spec => []TokenCoversDirectory
<1>1. DaemonInv /\ LoaderInv /\ LaunchedInv /\ AnswersInv => TokenCoversDirectory
  <2> SUFFICES ASSUME DaemonInv, LoaderInv, LaunchedInv, AnswersInv, NEW r \in Clients,
                      NEW i \in DOMAIN responses[r], NEW t \in responses[r][i].token
               PROVE  /\ ~challenge[r].selection.given =>
                           \A f \in Loader!Files \ skipped : \E n \in PluginNames :
                              f \in loadedByName[n] /\ (t.collection[n] # {} \/ n \in CmwRefuses)
                      /\ \A n \in Names : t.collection[n] # {} =>
                           /\ n \in LoadedNames
                           /\ Loader!Secure =>
                                \A f \in loadedByName[n] : pluginChecksum[f] = {"right"}
    BY DEF TokenCoversDirectory
  <2>1. t \in Answers!Tokens(r)
    BY DEF Answers!Tokens
  <2>2. gate[r] # "new"
  <3>1. responses[r] # <<>>
    OBVIOUS
  <3>2. QED
    BY <3>1 DEF DaemonInv, RequestInv, ChallengeUntouched
  <2>3. \A f \in Loader!Files \ skipped : \E n \in LoadedNames : f \in loadedByName[n]
    BY <2>2, MapCoversDirectory
  <2>4. LoadedNames \subseteq PluginNames /\ LoadedNames \subseteq Names
    BY LoadedNamesFinite
  <2>5. ASSUME ~challenge[r].selection.given, NEW n \in LoadedNames
        PROVE  t.collection[n] # {} \/ n \in CmwRefuses
    <3>1. Answers!Wanted(challenge[r]) = LoadedNames
      BY <2>5 DEF Answers!Wanted
    <3>2. Answers!Keys(t.collection) = LoadedNames
             \ (IF challenge[r].accept = "v2" THEN {} ELSE CmwRefuses)
      BY <2>1, <3>1 DEF AnswersInv, Answers!TokenIsComplete
    <3>3. QED
      BY <3>2 DEF Answers!Keys
  <2>6. ASSUME NEW n \in Names, t.collection[n] # {}
        PROVE  n \in LoadedNames
    BY <2>1, <2>6 DEF AnswersInv, Answers!FromLoaded
  <2>7. ASSUME NEW n \in LoadedNames, Loader!Secure, NEW f \in loadedByName[n]
        PROVE  pluginChecksum[f] = {"right"}
    <3>1. Discovery!Secure
      BY <2>7 DEF Loader!Secure, Discovery!Secure, Loader!Listed, Discovery!Listed,
             Loader!Files, Discovery!Files, Loader!Range, Discovery!Range
    <3>2. QED
      BY <2>4, <2>7, <3>1 DEF LaunchedInv, Discovery!LoadedIsVerified
  <2>8. QED
    BY <2>3, <2>4, <2>5, <2>6, <2>7
<1>2. Init => DaemonInv /\ LoaderInv /\ LaunchedInv /\ AnswersInv
    BY InitDaemonInv, InitLoaderInv, InitLaunchedInv, InitAnswersInv
<1>3. DaemonInv /\ LoaderInv /\ LaunchedInv /\ AnswersInv /\ [Next]_vars
        => (DaemonInv /\ LoaderInv /\ LaunchedInv /\ AnswersInv)'
    BY NextDaemonInv, NextLoaderInv, NextLaunchedInv, NextAnswersInv
<1>4. QED
    BY <1>1, <1>2, <1>3, PTL DEF Spec

-----------------------------------------------------------------------------
(* The service that the daemon implements *)

\* Only a request for one of the two operations gets past the wrapper.
Routed ==
    \A r \in Clients : gate[r] \in {"bound", "handler"} => request[r].operation # "other"

LEMMA InitRouted == Init => Routed
    BY DEF Init, Gate!Init, Routed

LEMMA NextRouted == DaemonInv /\ Routed /\ [Next]_vars => Routed'
<1> SUFFICES ASSUME DaemonInv, Routed, [Next]_vars PROVE Routed'
    OBVIOUS
<1>1. CASE UNCHANGED <<request, gate>>
    BY <1>1 DEF Routed
<1>2. CASE \E q \in Clients : Approach(q)
  <2>1. PICK q \in Clients : Approach(q)
    BY <1>2
  <2>2. /\ request' = request
        /\ \/ gate' = [gate EXCEPT ![q] = "refused"]
           \/ /\ \E where \in {"bound", "handler"} : gate' = [gate EXCEPT ![q] = where]
              /\ gate[q] = "bound" \/ request[q].operation # "other"
    BY <2>1 DEF Approach, Gate!Approach, Gate!NotRouted, Gate!TooManyValues, Gate!Bind,
                Gate!Unauthorized, Gate!Pass, Gate!Refuse, Gate!MoveTo
  <2>3. QED
    BY <2>2 DEF Routed, DaemonInv, Shape
<1>3. UNCHANGED <<request, gate>> \/ \E q \in Clients : Approach(q)
    BY DEF Next, Main, MakeAuthorizer, Gate!NewAuthorizer, Gate!AuthorizerFails,
           Gate!MakePassthrough, Gate!MakeBasic, LoadPlugins, ConfigFails, StopServing,
           IdentificationHangs, Serve, AnswerChallenge, ListPlugins, ChallengeHangs,
           ListHangs, Crash, gatewayVars, vars
<1>4. QED
    BY <1>1, <1>2, <1>3

\* What a client sees.
View(r) == <<Outcome(r), Handler!Received(r), Told(r)>>

Asks == <<authCfg, request, challenge>>

\* What the handler in the daemon shows is what the handler by itself shows.
LEMMA HandlerShowsAnswers ==
    ASSUME NEW r \in Clients
    PROVE  /\ Handler!Outcome(r) = Answers!Outcome(r)
           /\ Handler!Outcome(r)' = Answers!Outcome(r)'
           /\ Handler!Received(r) = Answers!Received(r)
           /\ Handler!Received(r)' = Answers!Received(r)'
<1> USE DEF Handler!Tokens, Answers!Tokens
<1>1. Handler!Outcome(r) = Answers!Outcome(r) /\ Handler!Outcome(r)' = Answers!Outcome(r)'
    BY Zenon DEF Handler!Outcome, Answers!Outcome
<1>2. /\ Handler!Received(r) = Answers!Received(r)
      /\ Handler!Received(r)' = Answers!Received(r)'
    BY Zenon DEF Handler!Received, Answers!Received, Handler!ChallengeNonces,
                 Answers!ChallengeNonces
<1>3. QED
    BY <1>1, <1>2

LEMMA ReceivedFrame ==
    ASSUME NEW r \in Clients, responses'[r] = responses[r]
    PROVE  Handler!Received(r)' = Handler!Received(r)
    BY DEF Handler!Received, Handler!Tokens, Handler!ChallengeNonces

LEMMA ToldFrame ==
    ASSUME NEW r \in Clients, answers'[r] = answers[r]
    PROVE  Told(r)' = Told(r)
    BY DEF Told

LEMMA ViewFrame ==
    ASSUME NEW r \in Clients, gate'[r] = gate[r], pc'[r] = pc[r],
           responses'[r] = responses[r], answers'[r] = answers[r]
    PROVE  View(r)' = View(r)
<1>1. Handler!Outcome(r)' = Handler!Outcome(r)
    BY DEF Handler!Outcome, Handler!Tokens
<1>2. Outcome(r)' = Outcome(r)
    BY <1>1 DEF Outcome
<1>3. QED
    BY <1>2, ReceivedFrame, ToldFrame DEF View

\* The questions are the same while the configuration and the requests are.
LEMMA SameQuestions ==
    ASSUME UNCHANGED Asks
    PROVE  UNCHANGED Service!questions
<1>1. \A r \in Clients : Authorised(r)' = Authorised(r)
    BY Zenon DEF Authorised, Asks
<1>2. [r \in Clients |-> Authorised(r)]' = [r \in Clients |-> Authorised(r)]
    BY <1>1, Zenon
<1>3. /\ [r \in Clients |-> request[r].operation]' = [r \in Clients |-> request[r].operation]
      /\ [r \in Clients |-> challenge[r].nonce]' = [r \in Clients |-> challenge[r].nonce]
    BY DEF Asks
<1>4. [r \in Clients |-> Selected(r)]' = [r \in Clients |-> Selected(r)]
    BY DEF Asks, Selected
<1>5. QED
    BY <1>2, <1>3, <1>4 DEF Service!questions

\* The views of all the requests, as the variables of the service.
LEMMA SameViews ==
    ASSUME \A q \in Clients : View(q)' = View(q)
    PROVE  /\ [q \in Clients |-> Outcome(q)]' = [q \in Clients |-> Outcome(q)]
           /\ [q \in Clients |-> Handler!Received(q)]' = [q \in Clients |-> Handler!Received(q)]
           /\ [q \in Clients |-> Told(q)]' = [q \in Clients |-> Told(q)]
    BY DEF View

LEMMA ViewStutters ==
    ASSUME UNCHANGED Asks, LoadedNames' = LoadedNames, \A q \in Clients : View(q)' = View(q)
    PROVE  UNCHANGED Service!vars
    BY SameQuestions, SameViews DEF Service!vars

LEMMA ViewDiscovers ==
    ASSUME UNCHANGED Asks, LoadedNames \subseteq LoadedNames', LoadedNames' \subseteq Names,
           \A q \in Clients : View(q)' = View(q) /\ Outcome(q) = "unasked"
    PROVE  Service!Discover
    BY SameQuestions, SameViews DEF Service!Discover

\* One request gets on.
LEMMA ViewAdvances ==
    ASSUME NEW r \in Clients, \A q \in Clients \ {r} : View(q)' = View(q), NEW o,
           Outcome(r)' = o
    PROVE  /\ [q \in Clients |-> Outcome(q)]' = [[q \in Clients |-> Outcome(q)] EXCEPT ![r] = o]
           /\ Handler!Received(r)' = Handler!Received(r) =>
                [q \in Clients |-> Handler!Received(q)]' = [q \in Clients |-> Handler!Received(q)]
           /\ Told(r)' = Told(r) =>
                [q \in Clients |-> Told(q)]' = [q \in Clients |-> Told(q)]
<1>1. \A q \in Clients \ {r} : /\ Outcome(q)' = Outcome(q) /\ Told(q)' = Told(q)
                                /\ Handler!Received(q)' = Handler!Received(q)
    BY DEF View
<1>2. QED
    BY <1>1

LEMMA ViewBecomes ==
    ASSUME NEW r \in Clients, \A q \in Clients \ {r} : View(q)' = View(q), NEW o, NEW p,
           Outcome(r) = o, Outcome(r)' = p
    PROVE  Service!Becomes(r, o, p)
    BY ViewAdvances DEF Service!Becomes

LEMMA ViewRefuses ==
    ASSUME NEW r \in Clients, UNCHANGED Asks, LoadedNames' = LoadedNames,
           \A q \in Clients \ {r} : View(q)' = View(q),
           Outcome(r) = "unasked", Outcome(r)' = "problem",
           Handler!Received(r)' = Handler!Received(r), Told(r)' = Told(r)
    PROVE  Service!Refuse(r)
    BY SameQuestions, ViewBecomes, ViewAdvances DEF Service!Refuse

LEMMA ViewAdmits ==
    ASSUME NEW r \in Clients, UNCHANGED Asks, LoadedNames' = LoadedNames,
           \A q \in Clients \ {r} : View(q)' = View(q),
           Authorised(r), request[r].operation # "other",
           Outcome(r) = "unasked", Outcome(r)' = "open",
           Handler!Received(r)' = Handler!Received(r), Told(r)' = Told(r)
    PROVE  Service!Admit(r)
<1>1. [q \in Clients |-> Authorised(q)][r]
    BY Zenon
<1>2. [q \in Clients |-> request[q].operation][r] # "other"
    OBVIOUS
<1>3. QED
    BY <1>1, <1>2, SameQuestions, ViewBecomes, ViewAdvances DEF Service!Admit

LEMMA ViewDeclines ==
    ASSUME NEW r \in Clients, UNCHANGED Asks, LoadedNames' = LoadedNames,
           \A q \in Clients \ {r} : View(q)' = View(q), request[r].operation = "chares",
           Outcome(r) = "open", Outcome(r)' \in {"problem", "dropped"},
           Handler!Received(r)' = Handler!Received(r), Told(r)' = Told(r)
    PROVE  Service!Decline(r)
<1>1. [q \in Clients |-> request[q].operation][r] = "chares"
    OBVIOUS
<1>2. PICK o \in {"problem", "dropped"} : Outcome(r)' = o
    OBVIOUS
<1>3. Service!Becomes(r, "open", o)
    BY <1>2, ViewBecomes
<1>4. QED
    BY <1>1, <1>2, <1>3, SameQuestions, ViewAdvances DEF Service!Decline

LEMMA ViewTells ==
    ASSUME NEW r \in Clients, UNCHANGED Asks, LoadedNames' = LoadedNames,
           \A q \in Clients \ {r} : View(q)' = View(q), request[r].operation = "subattesters",
           Outcome(r) = "open", Outcome(r)' = "list",
           Handler!Received(r)' = Handler!Received(r), Told(r)' = LoadedNames
    PROVE  Service!Tell(r)
<1>1. [q \in Clients |-> request[q].operation][r] = "subattesters"
    OBVIOUS
<1>2. [q \in Clients |-> Told(q)]' = [[q \in Clients |-> Told(q)] EXCEPT ![r] = LoadedNames]
    BY DEF View
<1>3. QED
    BY <1>1, <1>2, SameQuestions, ViewBecomes, ViewAdvances DEF Service!Tell

LEMMA ViewAttests ==
    ASSUME NEW r \in Clients, UNCHANGED Asks, LoadedNames' = LoadedNames,
           \A q \in Clients \ {r} : View(q)' = View(q), request[r].operation = "chares",
           Outcome(r) = "open", Outcome(r)' = "token",
           Handler!Received(r)' = {[from |-> n, nonce |-> challenge[r].nonce] :
                                      n \in Answers!Wanted(challenge[r]) \ CmwRefuses},
           Told(r)' = Told(r)
    PROVE  Service!Attest(r)
<1> DEFINE all == {[from |-> n, nonce |-> challenge[r].nonce] :
                      n \in Answers!Wanted(challenge[r]) \ CmwRefuses}
<1>1. [q \in Clients |-> request[q].operation][r] = "chares"
    OBVIOUS
<1>2. Service!Wanted(r) = Answers!Wanted(challenge[r])
  <2>1. [q \in Clients |-> Selected(q)][r] = Selected(r)
    OBVIOUS
  <2>2. Selected(r) = IF challenge[r].selection.given
                      THEN {Answers!Range(challenge[r].selection.names)} ELSE {}
    BY DEF Selected, Range, Answers!Range
  <2>3. QED
    BY <2>1, <2>2 DEF Service!Wanted, Answers!Wanted
<1>3. {[from |-> n, nonce |-> [q \in Clients |-> challenge[q].nonce][r]] :
          n \in Service!Wanted(r) \ CmwRefuses} = all
    BY <1>2
<1>4. [q \in Clients |-> Handler!Received(q)]' =
        [[q \in Clients |-> Handler!Received(q)] EXCEPT ![r] = all]
    BY DEF View
<1> HIDE DEF all
<1>5. \E lost \in SUBSET CmwRefuses :
         [q \in Clients |-> Handler!Received(q)]' =
            [[q \in Clients |-> Handler!Received(q)] EXCEPT ![r] =
               {[from |-> n, nonce |-> [q \in Clients |-> challenge[q].nonce][r]] :
                   n \in Service!Wanted(r) \ lost}]
    BY <1>3, <1>4
<1>6. QED
    BY <1>1, <1>5, SameQuestions, ViewBecomes, ViewAdvances DEF Service!Attest

\* A request that is not with a handler shows nothing of one.
LEMMA UntouchedIsOpen ==
    ASSUME NEW r \in Clients, ChallengeUntouched(r), ListUntouched(r)
    PROVE  Outcome(r) = IF gate[r] = "refused" THEN "problem"
                        ELSE IF gate[r] = "handler" THEN "open"
                        ELSE "unasked"
    BY DEF ChallengeUntouched, ListUntouched, Outcome, Handler!Outcome

LEMMA ApproachIsService ==
    ASSUME DaemonInv, Routed, NEW r \in Clients, Approach(r)
    PROVE  [Service!Next]_(Service!vars)
<1>1. /\ Serving /\ Gate!Approach(r)
      /\ UNCHANGED <<pc, calls, responses, listPc, list, answers, challenge, loadedByName>>
    BY DEF Approach, loaderVars, charesVars, listVars
<1>2. UNCHANGED Asks /\ LoadedNames' = LoadedNames
    BY <1>1 DEF Gate!Approach, Gate!NotRouted, Gate!TooManyValues, Gate!Bind,
                Gate!Unauthorized, Gate!Pass, Asks, LoadedNames
<1>3. gate[r] \in {"new", "bound"}
    BY <1>1 DEF Gate!Approach, Gate!NotRouted, Gate!TooManyValues, Gate!Bind,
                Gate!Unauthorized, Gate!Pass
<1>4. ChallengeUntouched(r) /\ ListUntouched(r) /\ Outcome(r) = "unasked"
  <2>1. ChallengeUntouched(r) /\ ListUntouched(r)
    BY <1>3 DEF DaemonInv, RequestInv
  <2>2. QED
    BY <1>3, <2>1, UntouchedIsOpen
<1>5. PICK where \in {"refused", "bound", "handler"} :
        /\ gate' = [gate EXCEPT ![r] = where]
        /\ where = "handler" => Gate!Pass(r)
    BY <1>1 DEF Gate!Approach, Gate!NotRouted, Gate!TooManyValues, Gate!Bind,
                Gate!Unauthorized, Gate!Pass, Gate!Refuse, Gate!MoveTo
<1>6. gate'[r] = where /\ \A q \in Clients \ {r} : gate'[q] = gate[q]
    BY <1>5 DEF DaemonInv, Shape
<1>7. \A q \in Clients \ {r} : View(q)' = View(q)
    BY <1>1, <1>6, ViewFrame
<1>8. Handler!Received(r)' = Handler!Received(r) /\ Told(r)' = Told(r)
    BY <1>1, ReceivedFrame, ToldFrame
<1>9. Outcome(r)' = IF where = "refused" THEN "problem"
                    ELSE IF where = "handler" THEN "open" ELSE "unasked"
    BY <1>1, <1>4, <1>6 DEF ChallengeUntouched, ListUntouched, Outcome, Handler!Outcome
<1>10. CASE where = "refused"
    BY <1>2, <1>4, <1>7, <1>8, <1>9, <1>10, ViewRefuses DEF Service!Next
<1>11. CASE where = "bound"
  <2>1. View(r)' = View(r)
    BY <1>4, <1>8, <1>9, <1>11 DEF View
  <2>2. QED
    BY <1>2, <1>7, <2>1, ViewStutters
<1>12. CASE where = "handler"
  <2>1. Authorised(r)
    BY <1>1, <1>5, <1>12, PassIsAuthorised
  <2>2. request[r].operation # "other"
    BY <1>5, <1>12 DEF Gate!Pass, Routed
  <2>3. QED
    BY <1>2, <1>4, <1>7, <1>8, <1>9, <1>12, <2>1, <2>2, ViewAdmits DEF Service!Next
<1>13. QED
    BY <1>10, <1>11, <1>12

\* What a list names is what it was made of.
LEMMA ListNamesAll ==
    ASSUME NEW r \in Clients, Ordered(r), Entered(r), Len(list[r]) = Len(listOrder[r])
    PROVE  {list[r][j].name : j \in DOMAIN list[r]} = LoadedNames
<1>1. DOMAIN list[r] = DOMAIN listOrder[r]
    BY DEF Ordered, Entered
<1>2. {list[r][j].name : j \in DOMAIN list[r]} = Range(listOrder[r])
    BY <1>1 DEF Entered, Range
<1>3. QED
    BY <1>2 DEF Ordered

LEMMA ListIsService ==
    ASSUME DaemonInv, ListsInv, NEW r \in Clients, ListPlugins(r)
    PROVE  [Service!Next]_(Service!vars)
<1>1. /\ gate[r] = "handler" /\ request[r].operation = "subattesters" /\ Lister!Handle(r)
      /\ UNCHANGED <<authCfg, request, challenge, loadedByName, gate, pc, calls, responses>>
    BY DEF ListPlugins, Admitted, loaderVars, gatewayVars, charesVars
<1>2. UNCHANGED Asks /\ LoadedNames' = LoadedNames
    BY <1>1 DEF Asks, LoadedNames
<1>3. Shape /\ RequestInv(r) /\ ListInv(r)
    BY DEF DaemonInv, ListsInv
<1>4. CASE answers' = answers
    BY <1>1, <1>2, <1>4, ViewFrame, ViewStutters
<1>5. CASE Lister!Answer(r)
  <2>1. /\ listPc[r] = "next" /\ Len(list[r]) = Len(listOrder[r])
        /\ answers' = [answers EXCEPT ![r] = Append(answers[r], list[r])]
    BY <1>5 DEF Lister!Answer
  <2>2. answers[r] = <<>> /\ Ordered(r) /\ Entered(r)
    BY <1>3, <2>1 DEF RequestInv, ListInv
  <2>3. /\ answers'[r] = <<list[r]>>
        /\ \A q \in Clients \ {r} : answers'[q] = answers[q]
    BY <1>3, <2>1, <2>2 DEF Shape
  <2>4. \A q \in Clients \ {r} : View(q)' = View(q)
    BY <1>1, <2>3, ViewFrame
  <2>5. ChallengeUntouched(r)
    BY <1>1, <1>3 DEF RequestInv
  <2>6. Outcome(r) = "open"
    BY <1>1, <2>2, <2>5 DEF ChallengeUntouched, Outcome, Handler!Outcome
  <2>7. Outcome(r)' = "list"
    BY <1>1, <2>3 DEF Outcome
  <2>8. Told(r)' = LoadedNames
    <3>1. Told(r)' = {list[r][j].name : j \in DOMAIN list[r]}
      BY <2>3 DEF Told
    <3>2. QED
      BY <2>1, <2>2, <3>1, ListNamesAll
  <2>9. Handler!Received(r)' = Handler!Received(r)
    BY <1>1, ReceivedFrame
  <2>10. QED
    BY <1>1, <1>2, <2>4, <2>6, <2>7, <2>8, <2>9, ViewTells DEF Service!Next
<1>6. QED
    BY <1>1, <1>4, <1>5 DEF Lister!Handle, Lister!Begin, Lister!AskOptions,
        Lister!ListPlugin, Lister!ListFailed, Lister!AddEntry

\* A request whose challenge is answered is with its handler.
LEMMA AnsweredByHandler ==
    ASSUME DaemonInv', NEW r \in Clients, UNCHANGED <<gate, request>>,
           Answers!Outcome(r)' # "open"
    PROVE  gate[r] = "handler" /\ request[r].operation = "chares"
<1>1. ~ChallengeUntouched(r)'
    BY DEF ChallengeUntouched, Answers!Outcome
<1>2. QED
    BY <1>1 DEF DaemonInv, RequestInv

LEMMA ChallengeIsService ==
    ASSUME DaemonInv, DaemonInv', AnswersInv, NEW r \in Clients,
           AnswerChallenge(r) \/ ChallengeHangs(r)
    PROVE  [Service!Next]_(Service!vars)
<1>1. /\ UNCHANGED <<authCfg, request, gate, answers, listPc, list>>
      /\ Answers!Next
    BY HandlerStepsAreAnswers DEF AnswerChallenge, ChallengeHangs, gatewayVars, listVars
<1>2. /\ UNCHANGED <<LoadedNames, challenge>>
      /\ \/ \A q \in Clients : Answers!Seen(q)' = Answers!Seen(q)
         \/ \E q \in Clients : Answers!Declined(q) \/ Answers!Attested(q)
    BY <1>1, HandlerAssumed, Answers!NextIsSeen DEF AnswersInv
<1>3. UNCHANGED Asks /\ LoadedNames' = LoadedNames
    BY <1>1, <1>2 DEF Asks
<1>4. ASSUME NEW q \in Clients, Answers!Seen(q)' = Answers!Seen(q)
      PROVE  View(q)' = View(q)
  <2>1. /\ Answers!Outcome(q)' = Answers!Outcome(q)
        /\ Answers!Received(q)' = Answers!Received(q)
    BY <1>4 DEF Answers!Seen
  <2>2. /\ Handler!Outcome(q)' = Handler!Outcome(q)
        /\ Handler!Received(q)' = Handler!Received(q)
    BY <2>1, HandlerShowsAnswers
  <2>3. Outcome(q)' = Outcome(q)
    BY <1>1, <2>2 DEF Outcome
  <2>4. QED
    BY <1>1, <2>2, <2>3, ToldFrame DEF View
<1>5. CASE \A q \in Clients : Answers!Seen(q)' = Answers!Seen(q)
    BY <1>3, <1>4, <1>5, ViewStutters
<1>6. ASSUME NEW q \in Clients, Answers!Declined(q) \/ Answers!Attested(q)
      PROVE  Service!Next
  <2>1. /\ Answers!Outcome(q) = "open"
        /\ Answers!Outcome(q)' \in {"problem", "dropped", "token"}
        /\ \A p \in Clients \ {q} : Answers!Seen(p)' = Answers!Seen(p)
    BY <1>6 DEF Answers!Declined, Answers!Attested
  <2>2. gate[q] = "handler" /\ request[q].operation = "chares"
    BY <1>1, <2>1, AnsweredByHandler
  <2>3. answers[q] = <<>>
    BY <2>2 DEF DaemonInv, RequestInv, ListUntouched
  <2>4. Outcome(q) = "open" /\ Outcome(q)' = Answers!Outcome(q)'
    BY <1>1, <2>1, <2>2, <2>3, HandlerShowsAnswers DEF Outcome
  <2>5. \A p \in Clients \ {q} : View(p)' = View(p)
    BY <1>4, <2>1
  <2>6. Told(q)' = Told(q)
    BY <1>1, ToldFrame
  <2>7. CASE Answers!Declined(q)
    <3>1. Handler!Received(q)' = Handler!Received(q)
      BY <2>7, HandlerShowsAnswers DEF Answers!Declined
    <3>2. Outcome(q)' \in {"problem", "dropped"}
      BY <2>4, <2>7 DEF Answers!Declined
    <3>3. QED
      BY <1>3, <2>2, <2>4, <2>5, <2>6, <3>1, <3>2, ViewDeclines DEF Service!Next
  <2>8. CASE Answers!Attested(q)
    <3>1. Handler!Received(q)' = {[from |-> n, nonce |-> challenge[q].nonce] :
                                     n \in Answers!Wanted(challenge[q]) \ CmwRefuses}
      BY <2>8, HandlerShowsAnswers DEF Answers!Attested
    <3>2. Outcome(q)' = "token"
      BY <2>4, <2>8 DEF Answers!Attested
    <3>3. QED
      BY <1>3, <2>2, <2>4, <2>5, <2>6, <3>1, <3>2, ViewAttests DEF Service!Next
  <2>9. QED
    BY <1>6, <2>7, <2>8
<1>7. QED
    BY <1>2, <1>5, <1>6

\* Discovery adds to the map of plugins, and nothing takes from it.
LEMMA MapGrows ==
    ASSUME LoaderInv, LoadPlugins
    PROVE  LoadedNames \subseteq LoadedNames'
<1>1. CASE loadedByName' = loadedByName
    BY <1>1 DEF LoadedNames
<1>2. CASE Loader!Load
    BY <1>2 DEF Loader!Load, LoaderInv, Discovery!TypeOK, LoadedNames
<1>3. QED
    BY <1>1, <1>2
       DEF LoadPlugins, Loader!Start, Loader!SetChecksumFails, Loader!SetChecksum,
           Loader!BeginDiscovery, Loader!NoChecksum, Loader!ClientFails, Loader!Client,
           Loader!SkipUnknown, Loader!DispenseFails, Loader!Dispense, Loader!IdentifyFails,
           Loader!Duplicate, Loader!DiscoveryEnds, Loader!Exit

LEMMA StartIsService ==
    ASSUME DaemonInv, LoaderInv, LoadPlugins
    PROVE  [Service!Next]_(Service!vars)
<1>1. UNCHANGED <<authCfg, request, challenge, gate, pc, responses, answers>>
    BY DEF LoadPlugins, gatewayVars, charesVars, listVars
<1>2. UNCHANGED Asks
    BY <1>1 DEF Asks
<1>3. \A q \in Clients : View(q)' = View(q)
    BY <1>1, ViewFrame
<1>4. \A q \in Clients : gate[q] = "new"
    BY StartStages DEF LoadPlugins, DaemonInv, RequestInv
<1>5. \A q \in Clients : Outcome(q) = "unasked"
    BY <1>4 DEF Outcome
<1>6. LoadedNames' \subseteq Names
    BY PluginNamesAssumption DEF LoadedNames
<1>7. QED
    BY <1>2, <1>3, <1>5, <1>6, MapGrows, ViewDiscovers DEF Service!Next

\* The other steps do not show.
LEMMA RestIsService ==
    ASSUME UNCHANGED <<authCfg, request, challenge, gate, pc, responses, answers, loadedByName>>
    PROVE  [Service!Next]_(Service!vars)
<1>1. UNCHANGED Asks /\ LoadedNames' = LoadedNames
    BY DEF Asks, LoadedNames
<1>2. \A q \in Clients : View(q)' = View(q)
    BY ViewFrame
<1>3. QED
    BY <1>1, <1>2, ViewStutters

LEMMA NextIsService ==
    ASSUME DaemonInv, DaemonInv', Routed, LoaderInv, ListsInv, AnswersInv, [Next]_vars
    PROVE  [Service!Next]_(Service!vars)
<1>1. CASE LoadPlugins
    BY <1>1, StartIsService
<1>2. CASE MakeAuthorizer \/ ConfigFails \/ StopServing \/ IdentificationHangs
    BY <1>2, RestIsService DEF MakeAuthorizer, Gate!NewAuthorizer, Gate!AuthorizerFails,
           Gate!MakePassthrough, Gate!MakeBasic, ConfigFails, StopServing,
           Loader!StopServing, IdentificationHangs, Loader!Hang, gatewayVars, charesVars,
           listVars
<1>3. ASSUME NEW r \in Clients, Serve(r) \/ ChallengeHangs(r)
      PROVE  [Service!Next]_(Service!vars)
    BY <1>3, ApproachIsService, ChallengeIsService, ListIsService DEF Serve
<1>4. ASSUME NEW r \in Clients, ListHangs(r)
      PROVE  [Service!Next]_(Service!vars)
    BY <1>4, RestIsService DEF ListHangs, Lister!CallHangs, loaderVars, gatewayVars, charesVars
<1>5. ASSUME NEW f \in Range(Paths), Crash(f)
      PROVE  [Service!Next]_(Service!vars)
    BY <1>5, RestIsService DEF Crash, Loader!Crash, gatewayVars
<1>6. CASE UNCHANGED vars
    BY <1>6, RestIsService DEF vars, loaderVars, gatewayVars, charesVars, listVars
<1>7. QED
    BY <1>1, <1>2, <1>3, <1>4, <1>5, <1>6 DEF Next, Main

LEMMA InitIsService == Init => Service!Init
<1> SUFFICES ASSUME Init PROVE Service!Init
    OBVIOUS
<1>1. LoadedNames = {}
    BY DEF Init, Loader!Init, LoadedNames
<1>2. [r \in Clients |-> Authorised(r)] \in [Clients -> BOOLEAN]
  <2>1. \A r \in Clients : Authorised(r) \in BOOLEAN
    BY Zenon DEF Authorised
  <2>2. QED
    BY <2>1, Zenon
<1>3. [r \in Clients |-> request[r].operation]
        \in [Clients -> {"chares", "subattesters", "other"}]
  <2>1. \A r \in Clients : request[r] \in Gate!Request
    BY AskedAssumption DEF Init, Gate!Init
  <2>2. QED
    BY <2>1 DEF Gate!Request, Gate!Operations
<1>4. challenge \in [Clients -> Challenges]
    BY DEF Init, Handler!Init
<1>5. [r \in Clients |-> challenge[r].nonce] \in [Clients -> Handler!ChallengeNonces]
    BY <1>4 DEF Handler!ChallengeNonces
<1>6. ASSUME NEW r \in Clients
      PROVE  Selected(r) \in {{}} \cup {{S} : S \in SUBSET Names}
  <2>1. challenge[r].selection.names \in Seq(Names)
    BY <1>4, ChallengesAssumption DEF Handler!Challenge
  <2>2. Range(challenge[r].selection.names) \in SUBSET Names
    BY <2>1 DEF Range
  <2>3. QED
    BY <2>2 DEF Selected
<1>7. ASSUME NEW r \in Clients
      PROVE  Outcome(r) = "unasked" /\ Handler!Received(r) = {} /\ Told(r) = {}
  <2>1. gate[r] = "new" /\ responses[r] = <<>> /\ answers[r] = <<>>
    BY DEF Init, Gate!Init, Handler!Init, Lister!Init
  <2>2. QED
    BY <2>1 DEF Outcome, Handler!Received, Handler!Tokens, Told
<1>8. QED
    BY <1>1, <1>2, <1>3, <1>5, <1>6, <1>7 DEF Service!Init

\* The daemon implements RatsdService: however requests, plugins and start-up interleave,
\* a client sees one atomic answer, which only a request that is allowed gets from a
\* handler, and which tells of all the sub-attesters or has evidence from all of them.
THEOREM DaemonImplementsService == Spec => ImplementsService
<1>1. Init => /\ DaemonInv /\ Routed /\ LoaderInv /\ ListsInv /\ AnswersInv
              /\ Service!Init
    BY InitDaemonInv, InitRouted, InitLoaderInv, InitListsInv, InitAnswersInv, InitIsService
<1>2. DaemonInv /\ Routed /\ LoaderInv /\ ListsInv /\ AnswersInv /\ [Next]_vars
        => /\ (DaemonInv /\ Routed /\ LoaderInv /\ ListsInv /\ AnswersInv)'
           /\ [Service!Next]_(Service!vars)
    BY NextDaemonInv, NextRouted, NextLoaderInv, NextListsInv, NextAnswersInv, NextIsService
<1>3. QED
    BY <1>1, <1>2, PTL DEF Spec, ImplementsService, Service!Spec

=============================================================================
