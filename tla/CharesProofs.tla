---------------------------- MODULE CharesProofs ----------------------------
(***************************************************************************)
(* Theorems about the challenge-response handler, for every set of         *)
(* requests, names, challenges, plugins and plugin answers: its invariants *)
(* first, and then that it implements ChallengeResponse.                   *)
(***************************************************************************)
EXTENDS CharesRefinement, Induction, FiniteSetTheorems, SequenceTheorems

\* The queried names are a sequence of names: an enumeration of a finite set of
\* names, whether it comes from the selection or from the plugin list.
LEMMA EnumerationsAreSequences ==
    ASSUME NEW S \in SUBSET Names, NEW s \in Enumerations(S)
    PROVE  /\ s \in Seq(Names)
           /\ Range(s) = S
           /\ IsInjective(s)
<1>1. IsFiniteSet(S)
    BY FS_Subset, LoadedAssumption
<1>2. Cardinality(S) \in Nat
    BY <1>1, FS_CardinalityType
<1>3. s \in [1..Cardinality(S) -> S] /\ IsInjective(s) /\ \A t \in S : \E i \in 1..Cardinality(S) : s[i] = t
    BY DEF Enumerations, Bijection, Injection, Surjection
<1>4. s \in Seq(Names)
    BY <1>2, <1>3
<1>5. Range(s) = S
    BY <1>3 DEF Range
<1>6. QED
    BY <1>3, <1>4, <1>5

LEMMA QueryOrdersEnumerate ==
    ASSUME NEW c \in Challenges, loaded \in LoadedSets, NEW s \in QueryOrders(c)
    PROVE  /\ s \in Enumerations(Wanted(c))
           /\ Wanted(c) \in SUBSET Names
<1>1. c.selection.names \in Seq(Names)
    BY ChallengesAssumption DEF Challenge
<1>2. Range(c.selection.names) \subseteq Names
    BY <1>1 DEF Range
<1>3. QED
    BY <1>2, LoadedAssumption DEF QueryOrders, SelectionOrders, Wanted

-----------------------------------------------------------------------------
(* Type correctness *)

LEMMA InitTypeOK == Init => TypeOK
<1> SUFFICES ASSUME Init PROVE TypeOK
    OBVIOUS
<1>1. EmptyMap \in MapTo(Nat) /\ EmptyMap \in MapTo(Evidence)
    BY DEF EmptyMap, MapTo
<1>2. [nonce |-> {}, fn |-> {}, sizes |-> EmptyMap] \in Claims
    BY <1>1 DEF Claims
<1>3. QED
    BY <1>1, <1>2 DEF Init, TypeOK

\* A problem is a response, and no handler waits for a plugin after one.
LEMMA ProblemTyped ==
    ASSUME TypeOK, NEW r \in Requests, NEW status \in Statuses, Problem(r, status),
           stuck' = stuck, r \notin stuck
    PROVE  /\ responses' \in [Requests -> Seq(Response)]
           /\ pc' \in [Requests -> {"idle", "next", "formats", "evidence", "done", "aborted"}]
           /\ stuck' \subseteq {q \in Requests : pc'[q] \in {"formats", "evidence"}}
<1>1. [status |-> status, token |-> {}] \in Response
    BY DEF Response
<1>2. responses' \in [Requests -> Seq(Response)]
    BY <1>1 DEF Problem, Respond, TypeOK
<1>3. QED
    BY <1>2 DEF Problem, Respond, TypeOK, AwaitsPlugin

\* Only a handler that waits for a plugin is stuck.
LEMMA NextIsNotStuck ==
    ASSUME TypeOK, NEW r \in Requests, pc[r] = "next"
    PROVE  r \notin stuck
    BY DEF TypeOK, AwaitsPlugin

LEMMA NextTypeOK == TypeOK /\ HandlerInv /\ [Next]_vars => TypeOK'
<1> SUFFICES ASSUME TypeOK, HandlerInv, [Next]_vars PROVE TypeOK'
    OBVIOUS
<1> USE DEF TypeOK, config, AwaitsPlugin
<1>1. ASSUME NEW r \in Requests, RejectRequest(r) PROVE TypeOK'
    <2>1. PICK status \in Statuses : Problem(r, status)
        BY <1>1 DEF RejectRequest
    <2>2. r \notin stuck
        BY <1>1 DEF RejectRequest
    <2>3. stuck' = stuck
        BY <1>1 DEF RejectRequest
    <2>4. QED
        BY <1>1, <2>1, <2>2, <2>3, ProblemTyped DEF RejectRequest
<1>2. ASSUME NEW r \in Requests, AcceptRequest(r) PROVE TypeOK'
    <2>1. PICK s \in QueryOrders(challenge[r]) : order' = [order EXCEPT ![r] = s]
        BY <1>2 DEF AcceptRequest
    <2>2. s \in Seq(Names)
        BY <2>1, QueryOrdersEnumerate, EnumerationsAreSequences
    <2>3. challenge[r].nonce \in Nonce
        BY ChallengesAssumption DEF Challenge
    <2>4. claims' \in [Requests -> Claims]
        BY <1>2, <2>3 DEF AcceptRequest, Claims
    <2>5. order' \in [Requests -> Seq(Names)]
        BY <2>1, <2>2
    <2>6. /\ pc[r] = "idle" /\ pc' = [pc EXCEPT ![r] = "next"]
          /\ UNCHANGED <<config, alive, stuck, challenge, at, collection, calls, responses>>
        BY <1>2 DEF AcceptRequest
    <2>7. QED
        BY <2>4, <2>5, <2>6
<1>3. ASSUME NEW r \in Requests, LookupFails(r) PROVE TypeOK'
    <2>1. r \notin stuck /\ 500 \in Statuses
        BY <1>3, NextIsNotStuck DEF LookupFails, HasNext, Statuses
    <2>2. QED
        BY <1>3, <2>1, ProblemTyped DEF LookupFails
<1>4. ASSUME NEW r \in Requests, AskFormats(r) PROVE TypeOK'
    BY <1>4 DEF AskFormats, HasNext
<1>5. ASSUME NEW r \in Requests, NoFormats(r) PROVE TypeOK'
    <2>1. r \notin stuck /\ 500 \in Statuses
        BY <1>5 DEF NoFormats, CallFails, Statuses
    <2>2. QED
        BY <1>5, <2>1, ProblemTyped DEF NoFormats
<1>6. ASSUME NEW r \in Requests, BadOptions(r) PROVE TypeOK'
    <2>1. r \notin stuck /\ 400 \in Statuses
        BY <1>6 DEF BadOptions, CallReturns, Statuses
    <2>2. QED
        BY <1>6, <2>1, ProblemTyped DEF BadOptions
<1>7. ASSUME NEW r \in Requests, UnusableFormat(r) PROVE TypeOK'
    <2>1. r \notin stuck /\ 500 \in Statuses
        BY <1>7 DEF UnusableFormat, CallReturns, Statuses
    <2>2. QED
        BY <1>7, <2>1, ProblemTyped DEF UnusableFormat
<1>8. ASSUME NEW r \in Requests, AskEvidence(r) PROVE TypeOK'
    <2> PICK formats \in FormatLists \ {<<>>} :
             \E format \in Chosen(formats, OptionOf(r)) :
                /\ claims' = [claims EXCEPT ![r] =
                       [nonce |-> @.nonce, fn |-> {NonceAdjustFunction},
                        sizes |-> [@.sizes EXCEPT ![Target(r)] = {format.size}]]]
                /\ calls' = [calls EXCEPT ![r] = Append(@,
                       [to |-> Target(r), type |-> format.type,
                        nonce |-> AdjustNonce(challenge[r].nonce, format.size)])]
        BY <1>8 DEF AskEvidence
    <2>1. PICK format \in Chosen(formats, OptionOf(r)) :
             /\ claims' = [claims EXCEPT ![r] =
                    [nonce |-> @.nonce, fn |-> {NonceAdjustFunction},
                     sizes |-> [@.sizes EXCEPT ![Target(r)] = {format.size}]]]
             /\ calls' = [calls EXCEPT ![r] = Append(@,
                    [to |-> Target(r), type |-> format.type,
                     nonce |-> AdjustNonce(challenge[r].nonce, format.size)])]
        OBVIOUS
    <2>2. format \in Format
        BY FormatsAssumption DEF Chosen
    <2>3. Target(r) \in Names
        BY <1>8, LoadedAssumption DEF AskEvidence, CallReturns
    <2>4. AdjustNonce(challenge[r].nonce, format.size) \in Adjusted
        BY <2>2, ChallengesAssumption
           DEF AdjustNonce, AdjustNonceWith, Adjusted, Challenge, Format,
               NonceAdjustFunction, NonceAdjustFns
    <2>5. calls' \in [Requests -> Seq(EvidenceIn)]
        <3>1. [to |-> Target(r), type |-> format.type,
               nonce |-> AdjustNonce(challenge[r].nonce, format.size)] \in EvidenceIn
            BY <2>2, <2>3, <2>4 DEF EvidenceIn, Format
        <3>2. QED
            BY <2>1, <3>1
    <2>6. claims' \in [Requests -> Claims]
        <3>1. format.size \in Nat /\ claims[r] \in Claims
            BY <2>2 DEF Format
        <3>2. [claims[r].sizes EXCEPT ![Target(r)] = {format.size}] \in MapTo(Nat)
            BY <2>3, <3>1 DEF Claims, MapTo
        <3>3. {NonceAdjustFunction} \in SUBSET NonceAdjustFns
            BY DEF NonceAdjustFunction, NonceAdjustFns
        <3>4. claims[r].nonce \in SUBSET Nonce
            BY <3>1 DEF Claims
        <3>5. [nonce |-> claims[r].nonce, fn |-> {NonceAdjustFunction},
               sizes |-> [claims[r].sizes EXCEPT ![Target(r)] = {format.size}]] \in Claims
            BY <3>2, <3>3, <3>4 DEF Claims
        <3>6. QED
            BY <2>1, <3>5
    <2>7. QED
        BY <1>8, <2>5, <2>6 DEF AskEvidence
<1>9. ASSUME NEW r \in Requests, EvidenceFails(r) PROVE TypeOK'
    <2>1. PICK code : Problem(r, ResponseCodeToHTTP(code))
        BY <1>9 DEF EvidenceFails
    <2>2. r \notin stuck /\ ResponseCodeToHTTP(code) \in Statuses
        BY <1>9 DEF EvidenceFails, CallFails, ResponseCodeToHTTP, Statuses
    <2>3. QED
        BY <1>9, <2>1, <2>2, ProblemTyped DEF EvidenceFails
<1>10. ASSUME NEW r \in Requests, RefuseEvidence(r) PROVE TypeOK'
    <2>1. r \notin stuck /\ 500 \in Statuses
        BY <1>10 DEF RefuseEvidence, CallReturns, Statuses
    <2>2. QED
        BY <1>10, <2>1, ProblemTyped DEF RefuseEvidence
<1>11. ASSUME NEW r \in Requests, StoreEvidence(r) PROVE TypeOK'
    <2>1. calls[r] # <<>>
        BY <1>11 DEF StoreEvidence, HandlerInv, HandlerInvAt, CallOutstanding
    <2>2. PICK empty \in BOOLEAN :
             collection' = IF EvidenceReply(r, empty).call.to \in CmwRefuses
                           THEN collection
                           ELSE [collection EXCEPT ![r][EvidenceReply(r, empty).call.to]
                                    = {EvidenceReply(r, empty)}]
        BY <1>11 DEF StoreEvidence
    <2>3. EvidenceReply(r, empty) \in Evidence
        BY <2>1 DEF EvidenceReply, Evidence
    <2>4. collection' \in [Requests -> MapTo(Evidence)]
        BY <2>2, <2>3 DEF MapTo
    <2>5. QED
        BY <1>11, <2>4 DEF StoreEvidence, CallReturns
<1>12. ASSUME NEW r \in Requests, Panic(r) PROVE TypeOK'
    BY <1>12 DEF Panic, CallReturns
<1>13. ASSUME NEW r \in Requests, Serialise(r) PROVE TypeOK'
    <2>1. [claims |-> claims[r], collection |-> collection[r]] \in Token
        BY DEF Token
    <2>2. [status |-> 200, token |-> {[claims |-> claims[r], collection |-> collection[r]]}] \in Response
        BY <2>1 DEF Response, Statuses
    <2>3. responses' \in [Requests -> Seq(Response)]
        BY <1>13, <2>2 DEF Serialise, Respond
    <2>4. /\ pc[r] = "next" /\ pc' = [pc EXCEPT ![r] = "done"]
          /\ UNCHANGED <<config, alive, stuck, challenge, order, at, claims, collection, calls>>
        BY <1>13 DEF Serialise, LoopEnds, Respond
    <2>5. /\ pc' \in [Requests -> {"idle", "next", "formats", "evidence", "done", "aborted"}]
          /\ \A q \in Requests : pc[q] \in {"formats", "evidence"} => pc'[q] = pc[q]
        BY <2>4
    <2>6. stuck' \subseteq {q \in Requests : pc'[q] \in {"formats", "evidence"}}
        BY <2>4, <2>5
    <2>7. QED
        BY <2>3, <2>4, <2>5, <2>6
<1>14. ASSUME NEW r \in Requests, CannotSerialise(r) PROVE TypeOK'
    <2>1. r \notin stuck /\ 500 \in Statuses
        BY <1>14, NextIsNotStuck DEF CannotSerialise, LoopEnds, Statuses
    <2>2. QED
        BY <1>14, <2>1, ProblemTyped DEF CannotSerialise
<1>15. ASSUME NEW r \in Requests, CallHangs(r) PROVE TypeOK'
    BY <1>15 DEF CallHangs
<1>16. ASSUME NEW p \in Names, Crash(p) PROVE TypeOK'
    BY <1>16 DEF Crash
<1>17. CASE UNCHANGED vars
    BY <1>17 DEF vars
<1>18. QED
    BY <1>1, <1>2, <1>3, <1>4, <1>5, <1>6, <1>7, <1>8, <1>9, <1>10, <1>11, <1>12,
       <1>13, <1>14, <1>15, <1>16, <1>17
       DEF Next, Handle, Quiescent

-----------------------------------------------------------------------------
(* The inductive invariant *)

LEMMA InitHandlerInv == Init => HandlerInv
    BY DEF Init, HandlerInv, HandlerInvAt, NothingCollected, InProgress

\* A request whose own state does not move keeps its part of the invariant.
LEMMA Frame ==
    ASSUME NEW q \in Requests, HandlerInvAt(q), UNCHANGED <<loaded, challenge>>,
           pc'[q] = pc[q], order'[q] = order[q], at'[q] = at[q], claims'[q] = claims[q],
           collection'[q] = collection[q], calls'[q] = calls[q]
    PROVE  HandlerInvAt(q)'
<1>1. NothingCollected(q)' = NothingCollected(q)
    BY DEF NothingCollected
<1>2. PartlyCollected(q)' = PartlyCollected(q)
    BY DEF PartlyCollected, QueryOrders, Served, ForThisRequest
<1>3. CallOutstanding(q)' = CallOutstanding(q)
    BY DEF CallOutstanding, ForThisRequest, Target
<1>4. QED
    BY <1>1, <1>2, <1>3 DEF HandlerInvAt, InProgress

\* A handler that has returned, or panicked, has no more to maintain.
LEMMA Returned ==
    ASSUME NEW r \in Requests, pc'[r] \in {"done", "aborted"}
    PROVE  HandlerInvAt(r)'
    BY DEF HandlerInvAt, InProgress

LEMMA ServedNext ==
    ASSUME NEW r \in Requests, NEW k \in Nat \ {0}
    PROVE  Served(r, k) = Served(r, k - 1) \cup {order[r][k]}
    BY DEF Served

\* An attester is served once: its name is not among those served before.
LEMMA NotServedBefore ==
    ASSUME TypeOK, NEW r \in Requests, PartlyCollected(r), at[r] <= Len(order[r])
    PROVE  Target(r) \notin Served(r, at[r] - 1)
<1>1. IsInjective(order[r]) /\ order[r] \in Seq(Names)
    BY QueryOrdersEnumerate, EnumerationsAreSequences DEF PartlyCollected, TypeOK
<1>2. QED
    BY <1>1 DEF Served, Target, IsInjective, TypeOK

LEMMA AcceptKeepsInv ==
    ASSUME TypeOK, NEW r \in Requests, HandlerInvAt(r), AcceptRequest(r)
    PROVE  HandlerInvAt(r)'
<1> USE DEF AcceptRequest, TypeOK, config
<1>1. NothingCollected(r)
    BY DEF HandlerInvAt
<1>2. pc'[r] = "next" /\ at'[r] = 1 /\ collection'[r] = EmptyMap
    BY <1>1 DEF NothingCollected
<1>3. order'[r] \in QueryOrders(challenge[r]) /\ order'[r] \in Seq(Names)
    BY QueryOrdersEnumerate, EnumerationsAreSequences
<1>4. claims'[r].nonce = {challenge[r].nonce} /\ claims'[r].sizes = EmptyMap
    BY <1>1 DEF NothingCollected
<1>5. PartlyCollected(r)'
    <2>1. QueryOrders(challenge[r])' = QueryOrders(challenge[r])
        BY DEF QueryOrders
    <2>2. Served(r, at[r] - 1)' = {}
        BY <1>2 DEF Served
    <2>3. Keys(EmptyMap) = {}
        BY DEF Keys, EmptyMap
    <2>4. \A n \in Names : collection'[r][n] = {}
        BY <1>2 DEF EmptyMap
    <2>5. (at[r] <= Len(order[r]) + (IF pc[r] = "next" THEN 1 ELSE 0))'
        BY <1>2, <1>3
    <2>6. (Keys(claims[r].sizes) =
             Served(r, IF pc[r] = "evidence" THEN at[r] ELSE at[r] - 1))'
        BY <1>2, <1>4, <2>2, <2>3
    <2>7. Keys(claims[r].sizes)' = {} /\ Keys(collection[r])' = {}
        BY <1>2, <1>4, <2>3
    <2>8. QED
        BY <1>2, <1>3, <1>4, <2>1, <2>2, <2>4, <2>5, <2>6, <2>7 DEF PartlyCollected
<1>6. QED
    BY <1>2, <1>5 DEF HandlerInvAt, InProgress

LEMMA AskFormatsKeepsInv ==
    ASSUME TypeOK, NEW r \in Requests, HandlerInvAt(r), AskFormats(r)
    PROVE  HandlerInvAt(r)'
<1> USE DEF AskFormats, HasNext, TypeOK, config
<1>1. PartlyCollected(r)
    BY DEF HandlerInvAt, InProgress
<1>2. pc'[r] = "formats"
    OBVIOUS
<1>3. Len(order[r]) \in Nat
    OBVIOUS
<1>4. PartlyCollected(r)'
    <2>1. QueryOrders(challenge[r])' = QueryOrders(challenge[r])
        BY DEF QueryOrders
    <2>2. Served(r, at[r] - 1)' = Served(r, at[r] - 1)
        BY DEF Served
    <2>3. \A call : ForThisRequest(r, call)' = ForThisRequest(r, call)
        BY DEF ForThisRequest
    <2>4. Keys(claims[r].sizes) = Served(r, at[r] - 1)
        BY <1>1 DEF PartlyCollected
    <2>5. QED
        BY <1>1, <1>2, <1>3, <2>1, <2>2, <2>3, <2>4 DEF PartlyCollected
<1>5. QED
    BY <1>2, <1>4 DEF HandlerInvAt, InProgress

LEMMA LastOfAppend ==
    ASSUME NEW S, NEW s \in Seq(S), NEW e
    PROVE  Append(s, e) # <<>> /\ Append(s, e)[Len(Append(s, e))] = e
<1>1. s \in Seq(S \cup {e})
    OBVIOUS
<1>2. QED
    BY <1>1, AppendProperties

LEMMA AskEvidenceKeepsInv ==
    ASSUME TypeOK, NEW r \in Requests, HandlerInvAt(r), AskEvidence(r)
    PROVE  HandlerInvAt(r)'
<1> USE DEF TypeOK, config
<1>1. PartlyCollected(r) /\ at[r] <= Len(order[r]) /\ at[r] \in Nat \ {0}
      /\ Keys(claims[r].sizes) = Served(r, at[r] - 1)
    BY DEF AskEvidence, HandlerInvAt, InProgress, PartlyCollected
<1>2. /\ pc'[r] = "evidence" /\ at'[r] = at[r] /\ order'[r] = order[r]
      /\ collection'[r] = collection[r] /\ UNCHANGED <<loaded, challenge>>
    BY DEF AskEvidence
<1>3. Target(r) \in Names
    BY LoadedAssumption DEF AskEvidence, CallReturns
<1>4. PICK size, type :
        /\ claims'[r] = [nonce |-> claims[r].nonce, fn |-> {NonceAdjustFunction},
                         sizes |-> [claims[r].sizes EXCEPT ![Target(r)] = {size}]]
        /\ calls'[r] = Append(calls[r],
              [to |-> Target(r), type |-> type, nonce |-> AdjustNonce(challenge[r].nonce, size)])
    BY DEF AskEvidence
<1>5. claims[r].sizes \in [Names -> SUBSET Nat]
    BY DEF Claims, MapTo
<1>6. /\ claims'[r].sizes[Target(r)] = {size}
      /\ \A n \in Names \ {Target(r)} : claims'[r].sizes[n] = claims[r].sizes[n]
    BY <1>3, <1>4, <1>5
<1>7. Keys(claims'[r].sizes) = Keys(claims[r].sizes) \cup {Target(r)}
    BY <1>3, <1>6 DEF Keys
<1>8. Served(r, at[r])' = Served(r, at[r] - 1) \cup {Target(r)}
    BY <1>1, <1>2, ServedNext DEF Served, Target
<1>9. Target(r) \notin Keys(collection[r])
    BY <1>1, NotServedBefore DEF PartlyCollected
<1>10. PartlyCollected(r)'
    <2>1. QueryOrders(challenge[r])' = QueryOrders(challenge[r])
        BY <1>2 DEF QueryOrders
    <2>2. Served(r, at[r] - 1)' = Served(r, at[r] - 1)
        BY <1>2 DEF Served
    <2>3. ASSUME NEW n \in Names, NEW e \in collection[r][n]
          PROVE  ForThisRequest(r, e.call)'
        <3>1. n # Target(r) /\ e.call.to = n /\ ForThisRequest(r, e.call)
            BY <1>1, <1>9, <2>3 DEF PartlyCollected, Keys
        <3>2. QED
            BY <1>2, <1>6, <3>1 DEF ForThisRequest
    <2>4. Keys(claims[r].sizes)' = Served(r, at[r])'
        BY <1>1, <1>7, <1>8
    <2>5. claims'[r].fn = {NonceAdjustFunction} /\ claims'[r].nonce = claims[r].nonce
        BY <1>4
    <2>6. QED
        BY <1>1, <1>2, <2>1, <2>2, <2>3, <2>4, <2>5 DEF PartlyCollected
<1>11. CallOutstanding(r)'
    <2> DEFINE call == [to |-> Target(r), type |-> type,
                        nonce |-> AdjustNonce(challenge[r].nonce, size)]
    <2>1. calls[r] \in Seq(EvidenceIn)
        OBVIOUS
    <2>2. calls'[r] # <<>> /\ calls'[r][Len(calls'[r])] = call
        <3>1. calls'[r] = Append(calls[r], call)
            BY <1>4
        <3> HIDE DEF call
        <3>2. Append(calls[r], call) # <<>>
              /\ Append(calls[r], call)[Len(Append(calls[r], call))] = call
            BY <2>1, LastOfAppend
        <3>3. QED
            BY <3>1, <3>2
    <2>3. Target(r)' = Target(r)
        BY <1>2 DEF Target
    <2>4. calls'[r][Len(calls'[r])].to = Target(r)
        BY <2>2
    <2>5. calls'[r][Len(calls'[r])].nonce = AdjustNonce(challenge[r].nonce, size)
        BY <2>2
    <2>6. ForThisRequest(r, calls[r][Len(calls[r])])'
        BY <1>2, <1>6, <2>4, <2>5 DEF ForThisRequest, AdjustNonce, AdjustNonceWith
    <2>7. QED
        BY <2>2, <2>3, <2>4, <2>6 DEF CallOutstanding
<1>12. QED
    BY <1>2, <1>10, <1>11 DEF HandlerInvAt, InProgress

LEMMA StoreEvidenceKeepsInv ==
    ASSUME TypeOK, NEW r \in Requests, HandlerInvAt(r), StoreEvidence(r)
    PROVE  HandlerInvAt(r)'
<1> USE DEF TypeOK, config
<1>1. /\ PartlyCollected(r) /\ at[r] <= Len(order[r]) /\ at[r] \in Nat \ {0}
      /\ Keys(claims[r].sizes) = Served(r, at[r])
      /\ CallOutstanding(r)
    BY DEF StoreEvidence, HandlerInvAt, InProgress, PartlyCollected
<1>2. /\ pc'[r] = "next" /\ at'[r] = at[r] + 1 /\ order'[r] = order[r]
      /\ claims' = claims /\ UNCHANGED <<loaded, challenge>>
    BY DEF StoreEvidence
<1>3. PICK empty \in BOOLEAN :
        /\ challenge[r].accept = "v2" => ~TokenRefuses(EvidenceReply(r, empty))
        /\ collection' = IF EvidenceReply(r, empty).call.to \in CmwRefuses
                         THEN collection
                         ELSE [collection EXCEPT ![r][EvidenceReply(r, empty).call.to]
                                  = {EvidenceReply(r, empty)}]
    BY DEF StoreEvidence
<1> DEFINE e == EvidenceReply(r, empty)
<1>4. e.call.to = Target(r) /\ ForThisRequest(r, e.call)
    BY <1>1 DEF CallOutstanding, EvidenceReply
<1>5. Target(r) \in Names
    BY LoadedAssumption DEF StoreEvidence, CallReturns
<1>6. /\ Target(r) \in CmwRefuses => collection'[r] = collection[r]
      /\ Target(r) \notin CmwRefuses =>
            /\ collection'[r][Target(r)] = {e}
            /\ \A n \in Names \ {Target(r)} : collection'[r][n] = collection[r][n]
    BY <1>3, <1>4, <1>5 DEF MapTo
<1>7. Served(r, at[r] - 1)' = Served(r, at[r] - 1) \cup {Target(r)}
    BY <1>1, <1>2, ServedNext DEF Served, Target
<1>8. Keys(collection'[r]) = Served(r, at[r] - 1)' \ CmwRefuses
    <2>1. Keys(collection[r]) = Served(r, at[r] - 1) \ CmwRefuses
        BY <1>1 DEF PartlyCollected
    <2>2. CASE Target(r) \in CmwRefuses
        BY <1>6, <1>7, <2>1, <2>2
    <2>3. CASE Target(r) \notin CmwRefuses
        <3>1. Keys(collection'[r]) = Keys(collection[r]) \cup {Target(r)}
            BY <1>5, <1>6, <2>3 DEF Keys
        <3>2. QED
            BY <1>7, <2>1, <2>3, <3>1
    <2>4. QED
        BY <2>2, <2>3
<1>9. PartlyCollected(r)'
    <2>1. QueryOrders(challenge[r])' = QueryOrders(challenge[r])
        BY <1>2 DEF QueryOrders
    <2>2. \A call : ForThisRequest(r, call)' = ForThisRequest(r, call)
        BY <1>2 DEF ForThisRequest
    <2>3. challenge[r].accept = "v2" => Target(r) \notin CmwRefuses
        BY <1>3, <1>4 DEF TokenRefuses
    <2>4. challenge[r].accept = "v2" => Served(r, at[r] - 1)' \cap CmwRefuses = {}
        BY <1>1, <1>7, <2>3 DEF PartlyCollected
    <2>5. ASSUME NEW n \in Names, NEW f \in collection'[r][n]
          PROVE  /\ f.call.to = n
                 /\ ForThisRequest(r, f.call)
                 /\ challenge[r].accept = "v2" => ~TokenRefuses(f)
        <3>1. CASE f \in collection[r][n]
            BY <1>1, <3>1 DEF PartlyCollected
        <3>2. CASE f \notin collection[r][n]
            <4>1. n = Target(r) /\ f = e
                BY <1>6, <2>5, <3>2
            <4>2. QED
                BY <1>3, <1>4, <4>1
        <3>3. QED
            BY <3>1, <3>2
    <2>6. Served(r, at[r])  = Served(r, at[r] - 1)'
        BY <1>2 DEF Served
    <2>7. at'[r] <= Len(order'[r]) + 1
        BY <1>1, <1>2
    <2>8. \A f : TokenRefuses(f)' = TokenRefuses(f)
        BY DEF TokenRefuses
    <2>9. QED
        BY <1>1, <1>2, <1>8, <2>1, <2>2, <2>4, <2>5, <2>6, <2>7, <2>8 DEF PartlyCollected
<1>10. QED
    BY <1>2, <1>9 DEF HandlerInvAt, InProgress

\* The state of a handler is its own: the step of another leaves it where it was.
LEMMA OthersUnmoved ==
    ASSUME NEW r \in Requests, TypeOK,
           RejectRequest(r) \/ AcceptRequest(r) \/ Handle(r) \/ CallHangs(r),
           NEW q \in Requests \ {r}
    PROVE  /\ UNCHANGED <<loaded, challenge>>
           /\ pc'[q] = pc[q] /\ order'[q] = order[q] /\ at'[q] = at[q]
           /\ claims'[q] = claims[q] /\ collection'[q] = collection[q] /\ calls'[q] = calls[q]
<1> USE DEF config, TypeOK
<1>1. CASE RejectRequest(r)
    BY <1>1 DEF RejectRequest, Problem, Respond
<1>2. CASE AcceptRequest(r)
    BY <1>2 DEF AcceptRequest
<1>3. CASE AskFormats(r) \/ Panic(r) \/ CallHangs(r)
    BY <1>3 DEF AskFormats, Panic, CallHangs
<1>4. CASE LookupFails(r) \/ NoFormats(r) \/ BadOptions(r) \/ UnusableFormat(r)
    BY <1>4 DEF LookupFails, NoFormats, BadOptions, UnusableFormat, Problem, Respond
<1>5. CASE EvidenceFails(r)
    BY <1>5 DEF EvidenceFails, Problem, Respond
<1>6. CASE RefuseEvidence(r)
    BY <1>6 DEF RefuseEvidence, Problem, Respond
<1>7. CASE Serialise(r) \/ CannotSerialise(r)
    BY <1>7 DEF Serialise, CannotSerialise, Problem, Respond
<1>8. CASE AskEvidence(r)
    BY <1>8 DEF AskEvidence
<1>9. CASE StoreEvidence(r)
    BY <1>9 DEF StoreEvidence, MapTo
<1>10. QED
    BY <1>1, <1>2, <1>3, <1>4, <1>5, <1>6, <1>7, <1>8, <1>9 DEF Handle

LEMMA ActingKeepsInv ==
    ASSUME NEW r \in Requests, TypeOK, HandlerInvAt(r),
           RejectRequest(r) \/ AcceptRequest(r) \/ Handle(r) \/ CallHangs(r)
    PROVE  HandlerInvAt(r)'
<1> USE DEF config, TypeOK
<1>1. CASE RejectRequest(r)
    BY <1>1, Returned DEF RejectRequest, Problem, Respond
<1>2. CASE AcceptRequest(r)
    BY <1>2, AcceptKeepsInv
<1>3. CASE AskFormats(r)
    BY <1>3, AskFormatsKeepsInv
<1>4. CASE AskEvidence(r)
    BY <1>4, AskEvidenceKeepsInv
<1>5. CASE StoreEvidence(r)
    BY <1>5, StoreEvidenceKeepsInv
<1>6. CASE LookupFails(r) \/ NoFormats(r) \/ BadOptions(r) \/ UnusableFormat(r)
    BY <1>6, Returned
       DEF LookupFails, NoFormats, BadOptions, UnusableFormat, Problem, Respond
<1>7. CASE EvidenceFails(r) \/ RefuseEvidence(r) \/ Serialise(r) \/ CannotSerialise(r)
    BY <1>7, Returned
       DEF EvidenceFails, RefuseEvidence, Serialise, CannotSerialise, Problem, Respond
<1>8. CASE Panic(r)
    BY <1>8, Returned DEF Panic
<1>9. CASE CallHangs(r)
    BY <1>9, Frame DEF CallHangs
<1>10. QED
    BY <1>1, <1>2, <1>3, <1>4, <1>5, <1>6, <1>7, <1>8, <1>9 DEF Handle

LEMMA NextHandlerInv == TypeOK /\ HandlerInv /\ [Next]_vars => HandlerInv'
<1> SUFFICES ASSUME TypeOK, HandlerInv, [Next]_vars, NEW q \in Requests
             PROVE  HandlerInvAt(q)'
    BY DEF HandlerInv
<1>1. HandlerInvAt(q)
    BY DEF HandlerInv
<1>2. ASSUME NEW r \in Requests,
             RejectRequest(r) \/ AcceptRequest(r) \/ Handle(r) \/ CallHangs(r)
      PROVE  HandlerInvAt(q)'
    <2>1. CASE q = r
        BY <1>1, <1>2, <2>1, ActingKeepsInv
    <2>2. CASE q # r
        <3>1. /\ UNCHANGED <<loaded, challenge>>
              /\ pc'[q] = pc[q] /\ order'[q] = order[q] /\ at'[q] = at[q]
              /\ claims'[q] = claims[q] /\ collection'[q] = collection[q]
              /\ calls'[q] = calls[q]
            BY <1>2, <2>2, OthersUnmoved
        <3>2. QED
            BY <1>1, <3>1, Frame
    <2>3. QED
        BY <2>1, <2>2
<1>3. ASSUME NEW p \in Names, Crash(p) PROVE HandlerInvAt(q)'
    BY <1>1, <1>3, Frame DEF Crash, config
<1>4. CASE UNCHANGED vars
    BY <1>1, <1>4, Frame DEF vars, config
<1>5. QED
    BY <1>2, <1>3, <1>4 DEF Next, Quiescent

\* The state of the handlers has the types it is declared with: the plugins'
\* answers and deaths can never leave a handler waiting for an attester that was
\* not loaded, nor a call outstanding for one that has returned.
THEOREM TypeCorrect == Spec => []TypeOK
<1>1. Init => TypeOK /\ HandlerInv
    BY InitTypeOK, InitHandlerInv
<1>2. TypeOK /\ HandlerInv /\ [Next]_vars => (TypeOK /\ HandlerInv)'
    BY NextTypeOK, NextHandlerInv
<1>3. QED
    BY <1>1, <1>2, PTL DEF Spec

\* Between two of its steps a handler holds the claims and the evidence of exactly
\* the attesters before its index, each for the nonce of its own request.
THEOREM HandlerInvariant == Spec => []HandlerInv
<1>1. Init => TypeOK /\ HandlerInv
    BY InitTypeOK, InitHandlerInv
<1>2. TypeOK /\ HandlerInv /\ [Next]_vars => (TypeOK /\ HandlerInv)'
    BY NextTypeOK, NextHandlerInv
<1>3. QED
    BY <1>1, <1>2, PTL DEF Spec

-----------------------------------------------------------------------------
(* What is answered *)

TokenOf(r) == [claims |-> claims[r], collection |-> collection[r]]

\* Which steps write what: the plugins and the challenges are fixed, one action calls
\* for evidence and one stores it.
LEMMA Writers ==
    ASSUME [Next]_vars
    PROVE  /\ UNCHANGED <<loaded, challenge>>
           /\ calls' = calls \/ \E r \in Requests : AskEvidence(r)
           /\ collection' = collection \/ \E r \in Requests : StoreEvidence(r)
<1> DEFINE Fixed == UNCHANGED <<loaded, challenge>>
           Quiet == UNCHANGED <<loaded, challenge, calls, collection>>
<1>1. ASSUME NEW r \in Requests,
             \/ RejectRequest(r) \/ AcceptRequest(r) \/ LookupFails(r) \/ AskFormats(r)
             \/ NoFormats(r) \/ BadOptions(r) \/ UnusableFormat(r)
      PROVE  Quiet
    BY <1>1 DEF config, RejectRequest, AcceptRequest, LookupFails, AskFormats, NoFormats,
                BadOptions, UnusableFormat
<1>2. ASSUME NEW r \in Requests,
             \/ EvidenceFails(r) \/ RefuseEvidence(r) \/ Panic(r) \/ Serialise(r)
             \/ CannotSerialise(r) \/ CallHangs(r)
      PROVE  Quiet
    BY <1>2 DEF config, EvidenceFails, RefuseEvidence, Panic, Serialise, CannotSerialise,
                CallHangs
<1>3. ASSUME NEW p, Crash(p) PROVE Quiet
    BY <1>3 DEF config, Crash
<1>4. ASSUME UNCHANGED vars PROVE Quiet
    BY <1>4 DEF config, vars
<1>5. ASSUME NEW r \in Requests, AskEvidence(r) PROVE Fixed /\ collection' = collection
    BY <1>5 DEF config, AskEvidence
<1>6. ASSUME NEW r \in Requests, StoreEvidence(r) PROVE Fixed /\ calls' = calls
    BY <1>6 DEF config, StoreEvidence
<1>7. Quiet => Fixed /\ calls' = calls /\ collection' = collection
    OBVIOUS
<1> HIDE DEF Fixed, Quiet
<1>8. Quiet \/ (\E r \in Requests : AskEvidence(r)) \/ (\E r \in Requests : StoreEvidence(r))
    BY <1>1, <1>2, <1>3, <1>4 DEF Next, Handle, Quiescent
<1>9. QED
    BY <1>5, <1>6, <1>7, <1>8 DEF Fixed

\* A response is written by the one handler that returns: without a token, or at the
\* end of the loop with what has been collected.
LEMMA RespondsOnce ==
    ASSUME TypeOK, [Next]_vars
    PROVE  /\ UNCHANGED <<loaded, challenge>>
           /\ \/ /\ UNCHANGED responses
                 /\ \A q \in Requests : pc'[q] = "done" <=> pc[q] = "done"
              \/ \E r \in Requests, status \in Statuses :
                    /\ pc[r] # "done"
                    /\ Respond(r, status, {}) \/ (LoopEnds(r) /\ Respond(r, status, {TokenOf(r)}))
<1> USE DEF TypeOK, config
<1>1. ASSUME NEW r \in Requests, RejectRequest(r) \/ EvidenceFails(r)
      PROVE  \E status \in Statuses : pc[r] # "done" /\ Respond(r, status, {})
    <2>1. \A code : ResponseCodeToHTTP(code) \in Statuses
        BY DEF ResponseCodeToHTTP, Statuses
    <2>2. QED
        BY <1>1, <2>1 DEF RejectRequest, EvidenceFails, Problem
<1>2. ASSUME NEW r \in Requests,
             \/ LookupFails(r) \/ NoFormats(r) \/ BadOptions(r) \/ UnusableFormat(r)
             \/ RefuseEvidence(r) \/ CannotSerialise(r)
      PROVE  \E status \in Statuses : pc[r] # "done" /\ Respond(r, status, {})
    BY <1>2 DEF LookupFails, NoFormats, BadOptions, UnusableFormat, RefuseEvidence,
                CannotSerialise, Problem, HasNext, LoopEnds, Statuses
<1>3. ASSUME NEW r \in Requests, Serialise(r)
      PROVE  \E status \in Statuses : /\ pc[r] # "done" /\ LoopEnds(r)
                                     /\ Respond(r, status, {TokenOf(r)})
    BY <1>3 DEF Serialise, LoopEnds, TokenOf, Statuses
<1>4. ASSUME NEW r \in Requests,
             AcceptRequest(r) \/ AskFormats(r) \/ AskEvidence(r) \/ StoreEvidence(r)
      PROVE  UNCHANGED responses /\ \A q \in Requests : pc'[q] = "done" <=> pc[q] = "done"
    BY <1>4 DEF AcceptRequest, AskFormats, AskEvidence, StoreEvidence, HasNext
<1>5. ASSUME NEW r \in Requests, Panic(r) \/ CallHangs(r)
      PROVE  UNCHANGED responses /\ \A q \in Requests : pc'[q] = "done" <=> pc[q] = "done"
    BY <1>5 DEF Panic, CallHangs, AwaitsPlugin
<1>6. ASSUME NEW p \in Names, Crash(p)
      PROVE  UNCHANGED responses /\ \A q \in Requests : pc'[q] = "done" <=> pc[q] = "done"
    BY <1>6 DEF Crash
<1>7. ASSUME UNCHANGED vars
      PROVE  UNCHANGED responses /\ \A q \in Requests : pc'[q] = "done" <=> pc[q] = "done"
    BY <1>7 DEF vars
<1>8. UNCHANGED <<loaded, challenge>>
    BY Writers
<1> HIDE DEF TypeOK
<1> DEFINE Silent == UNCHANGED responses /\ \A q \in Requests : pc'[q] = "done" <=> pc[q] = "done"
           Answers(r) == \E status \in Statuses :
                             /\ pc[r] # "done"
                             /\ \/ Respond(r, status, {})
                                \/ LoopEnds(r) /\ Respond(r, status, {TokenOf(r)})
<1>9. ASSUME NEW r \in Requests,
             RejectRequest(r) \/ AcceptRequest(r) \/ Handle(r) \/ CallHangs(r)
      PROVE  Silent \/ Answers(r)
    <2>1. CASE RejectRequest(r) \/ EvidenceFails(r)
        BY <1>1, <2>1
    <2>2. CASE \/ LookupFails(r) \/ NoFormats(r) \/ BadOptions(r) \/ UnusableFormat(r)
               \/ RefuseEvidence(r) \/ CannotSerialise(r)
        BY <1>2, <2>2
    <2>3. CASE Serialise(r)
        BY <1>3, <2>3
    <2>4. CASE \/ AcceptRequest(r) \/ AskFormats(r) \/ AskEvidence(r) \/ StoreEvidence(r)
               \/ Panic(r) \/ CallHangs(r)
        BY <1>4, <1>5, <2>4
    <2> HIDE DEF Silent, Answers
    <2>5. QED
        BY <1>9, <2>1, <2>2, <2>3, <2>4 DEF Handle
<1>10. Silent \/ \E r \in Requests : Answers(r)
    <2>1. ASSUME NEW p \in Names, Crash(p) PROVE Silent
        BY <1>6, <2>1
    <2>2. CASE UNCHANGED vars
        BY <1>7, <2>2
    <2> HIDE DEF Silent, Answers
    <2>3. QED
        BY <1>9, <2>1, <2>2 DEF Next, Quiescent
<1>11. QED
    BY <1>8, <1>10

\* The first response of a request is its only one.
LEMMA FirstResponse ==
    ASSUME TypeOK, OneResponse, NEW r \in Requests, pc[r] # "done",
           NEW status, NEW token, Respond(r, status, token)
    PROVE  /\ responses'[r] = <<[status |-> status, token |-> token]>>
           /\ pc'[r] = "done"
           /\ \A q \in Requests \ {r} : responses'[q] = responses[q] /\ pc'[q] = pc[q]
<1> USE DEF TypeOK, Respond
<1>1. responses[r] = <<>>
    BY DEF OneResponse
<1>2. QED
    BY <1>1

LEMMA NextOneResponse == TypeOK /\ OneResponse /\ [Next]_vars => OneResponse'
<1> SUFFICES ASSUME TypeOK, OneResponse, [Next]_vars PROVE OneResponse'
    OBVIOUS
<1>1. CASE UNCHANGED responses /\ \A q \in Requests : pc'[q] = "done" <=> pc[q] = "done"
    BY <1>1 DEF OneResponse
<1>2. ASSUME NEW r \in Requests, NEW status, NEW token, pc[r] # "done",
             Respond(r, status, token)
      PROVE  OneResponse'
    <2>1. /\ responses'[r] = <<[status |-> status, token |-> token]>>
          /\ pc'[r] = "done"
          /\ \A q \in Requests \ {r} : responses'[q] = responses[q] /\ pc'[q] = pc[q]
        BY <1>2, FirstResponse
    <2>2. Len(responses'[r]) = 1
        BY <2>1
    <2>3. QED
        BY <2>1, <2>2 DEF OneResponse
<1>3. QED
    BY <1>1, <1>2, RespondsOnce

LEMMA InitOneResponse == Init => OneResponse
    BY DEF Init, OneResponse

\* Each request gets at most one response, whichever early return its handler takes.
THEOREM OneResponseTheorem == Spec => []OneResponse
<1>1. TypeOK /\ OneResponse /\ [Next]_vars => OneResponse'
    BY NextOneResponse
<1>2. QED
    BY <1>1, InitOneResponse, TypeCorrect, PTL DEF Spec

\* The tokens of the next state are those of this one, but for the one that a
\* handler makes at the end of its loop.
LEMMA NewTokens ==
    ASSUME TypeOK, OneResponse, [Next]_vars, NEW q \in Requests
    PROVE  \/ Tokens(q)' \subseteq Tokens(q)
           \/ LoopEnds(q) /\ Tokens(q)' = {TokenOf(q)}
<1>1. CASE UNCHANGED responses
    BY <1>1 DEF Tokens
<1>2. ASSUME NEW r \in Requests, NEW status, NEW token, pc[r] # "done",
             Respond(r, status, token)
      PROVE  Tokens(q)' = IF q = r THEN token ELSE Tokens(q)
    <2>1. CASE q = r
        <3>1. responses'[q] = <<[status |-> status, token |-> token]>>
            BY <1>2, <2>1, FirstResponse
        <3>2. QED
            BY <2>1, <3>1 DEF Tokens
    <2>2. CASE q # r
        <3>1. responses'[q] = responses[q]
            BY <1>2, <2>2, FirstResponse
        <3>2. QED
            BY <2>2, <3>1 DEF Tokens
    <2>3. QED
        BY <2>1, <2>2
<1>3. ASSUME NEW r \in Requests, NEW status \in Statuses, pc[r] # "done",
             Respond(r, status, {}) \/ (LoopEnds(r) /\ Respond(r, status, {TokenOf(r)}))
      PROVE  \/ Tokens(q)' \subseteq Tokens(q)
             \/ LoopEnds(q) /\ Tokens(q)' = {TokenOf(q)}
    <2>1. CASE Respond(r, status, {})
        BY <1>2, <1>3, <2>1
    <2>2. CASE LoopEnds(r) /\ Respond(r, status, {TokenOf(r)})
        BY <1>2, <1>3, <2>2
    <2>3. QED
        BY <1>3, <2>1, <2>2
<1>4. QED
    BY <1>1, <1>3, RespondsOnce

\* At the end of its loop a handler has served all the attesters it was to query.
LEMMA AllServed ==
    ASSUME TypeOK, HandlerInv, NEW r \in Requests, LoopEnds(r)
    PROVE  /\ PartlyCollected(r)
           /\ Served(r, at[r] - 1) = Wanted(challenge[r])
           /\ Keys(claims[r].sizes) = Wanted(challenge[r])
<1> USE DEF TypeOK, LoopEnds
<1>1. PartlyCollected(r)
    BY DEF HandlerInv, HandlerInvAt, InProgress
<1>2. /\ order[r] \in Seq(Names)
      /\ Range(order[r]) = Wanted(challenge[r])
    BY <1>1, QueryOrdersEnumerate, EnumerationsAreSequences DEF PartlyCollected
<1>3. at[r] = Len(order[r]) + 1
    BY <1>1, <1>2 DEF PartlyCollected
<1>4. Served(r, at[r] - 1) = Range(order[r])
    <2>1. at[r] - 1 = Len(order[r]) /\ DOMAIN order[r] = 1..Len(order[r])
        BY <1>2, <1>3
    <2>2. QED
        BY <2>1 DEF Served, Range
<1>5. QED
    BY <1>1, <1>2, <1>4 DEF PartlyCollected

LEMMA NewTokenComplete ==
    ASSUME TypeOK, HandlerInv, NEW r \in Requests, LoopEnds(r),
           NEW wanted, wanted = Wanted(challenge[r])
    PROVE  /\ Keys(TokenOf(r).claims.sizes) = wanted
           /\ Keys(TokenOf(r).collection) =
                  wanted \ (IF challenge[r].accept = "v2" THEN {} ELSE CmwRefuses)
           /\ challenge[r].accept = "v2" =>
                  \A n \in wanted : \A e \in TokenOf(r).collection[n] : ~TokenRefuses(e)
<1>1. /\ Keys(claims[r].sizes) = wanted
      /\ Keys(collection[r]) = wanted \ CmwRefuses
      /\ challenge[r].accept = "v2" => wanted \cap CmwRefuses = {}
    BY AllServed DEF PartlyCollected
<1>2. challenge[r].accept = "v2" =>
          \A n \in Names : \A e \in collection[r][n] : ~TokenRefuses(e)
    BY AllServed DEF PartlyCollected
<1>3. wanted \subseteq Names
    BY <1>1 DEF Keys
<1>4. QED
    BY <1>1, <1>2, <1>3 DEF TokenOf

LEMMA NextTokenIsComplete ==
    TypeOK /\ HandlerInv /\ OneResponse /\ TokenIsComplete /\ [Next]_vars => TokenIsComplete'
<1> SUFFICES ASSUME TypeOK, HandlerInv, OneResponse, TokenIsComplete, [Next]_vars,
                    NEW r \in Requests, NEW t \in Tokens(r)'
             PROVE  /\ Keys(t.claims.sizes) = Wanted(challenge[r])'
                    /\ Keys(t.collection) = Wanted(challenge[r])'
                          \ (IF challenge'[r].accept = "v2" THEN {} ELSE CmwRefuses)
                    /\ challenge'[r].accept = "v2" =>
                          \A n \in Wanted(challenge[r])' :
                             \A e \in t.collection[n] : ~TokenRefuses(e)
    BY DEF TokenIsComplete, Keys, TokenRefuses
<1>1. challenge'[r] = challenge[r] /\ Wanted(challenge[r])' = Wanted(challenge[r])
    BY RespondsOnce DEF Wanted
<1>2. CASE t \in Tokens(r)
    BY <1>1, <1>2 DEF TokenIsComplete
<1>3. CASE LoopEnds(r) /\ t = TokenOf(r)
    BY <1>1, <1>3, NewTokenComplete
<1>4. QED
    BY <1>2, <1>3, NewTokens

\* Every token has evidence from all the attesters its challenge asks for, or there
\* is no token; only the legacy path can lose some, and only to the CMW library.
THEOREM TokenCompleteness == Spec => []TokenIsComplete
<1>1. Init => TokenIsComplete
    BY DEF Init, TokenIsComplete, Tokens
<1>2. TypeOK /\ HandlerInv /\ OneResponse /\ TokenIsComplete /\ [Next]_vars => TokenIsComplete'
    BY NextTokenIsComplete
<1>3. QED
    BY <1>1, <1>2, TypeCorrect, HandlerInvariant, OneResponseTheorem, PTL DEF Spec

LEMMA NextVerifierCanRecompute ==
    TypeOK /\ HandlerInv /\ OneResponse /\ VerifierCanRecompute /\ [Next]_vars
        => VerifierCanRecompute'
<1> SUFFICES ASSUME TypeOK, HandlerInv, OneResponse, VerifierCanRecompute, [Next]_vars,
                    NEW r \in Requests, NEW t \in Tokens(r)'
             PROVE  /\ t.claims.nonce = {challenge'[r].nonce}
                    /\ \A n \in Names : \A e \in t.collection[n] :
                         /\ e.call.to = n
                         /\ \E size \in t.claims.sizes[n], fn \in t.claims.fn :
                              e.call.nonce = AdjustNonceWith(challenge'[r].nonce, size, fn)
    BY DEF VerifierCanRecompute, AdjustNonceWith
<1>1. challenge'[r] = challenge[r]
    BY RespondsOnce
<1>2. CASE t \in Tokens(r)
    BY <1>1, <1>2 DEF VerifierCanRecompute
<1>3. CASE LoopEnds(r) /\ t = TokenOf(r)
    <2>1. PartlyCollected(r)
        BY <1>3, AllServed
    <2>2. t.claims = claims[r] /\ t.collection = collection[r]
        BY <1>3 DEF TokenOf
    <2>3. t.claims.nonce = {challenge'[r].nonce}
        BY <1>1, <2>1, <2>2 DEF PartlyCollected
    <2>4. ASSUME NEW n \in Names, NEW e \in t.collection[n]
          PROVE  /\ e.call.to = n
                 /\ \E size \in t.claims.sizes[n], fn \in t.claims.fn :
                       e.call.nonce = AdjustNonceWith(challenge'[r].nonce, size, fn)
        <3>1. e.call.to = n /\ ForThisRequest(r, e.call)
            BY <2>1, <2>2, <2>4 DEF PartlyCollected
        <3>2. PICK size \in claims[r].sizes[n] :
                 e.call.nonce = AdjustNonceWith(challenge[r].nonce, size, NonceAdjustFunction)
            BY <3>1 DEF ForThisRequest, AdjustNonce
        <3>3. claims[r].fn = {NonceAdjustFunction}
            BY <2>1, <3>2 DEF PartlyCollected, Keys
        <3>4. QED
            BY <1>1, <2>2, <3>1, <3>2, <3>3
    <2>5. QED
        BY <2>3, <2>4
<1>4. QED
    BY <1>2, <1>3, NewTokens

\* The claims of a token are enough to recompute the nonce of each piece of evidence
\* in it, and it is the nonce of the challenge that the token answers.
THEOREM NonceIsRecomputable == Spec => []VerifierCanRecompute
<1>1. Init => VerifierCanRecompute
    BY DEF Init, VerifierCanRecompute, Tokens
<1>2. TypeOK /\ HandlerInv /\ OneResponse /\ VerifierCanRecompute /\ [Next]_vars
          => VerifierCanRecompute'
    BY NextVerifierCanRecompute
<1>3. QED
    BY <1>1, <1>2, TypeCorrect, HandlerInvariant, OneResponseTheorem, PTL DEF Spec

LEMMA NextQuiet ==
    ASSUME TypeOK, OneResponse, [Next]_vars, NEW q \in Requests, responses[q] # <<>>
    PROVE  responses'[q] = responses[q] /\ calls'[q] = calls[q]
<1> USE DEF TypeOK
<1>1. pc[q] = "done"
    BY DEF OneResponse
<1>2. responses'[q] = responses[q]
    BY <1>1, RespondsOnce, FirstResponse
<1>3. ASSUME NEW r \in Requests, AskEvidence(r) PROVE calls'[q] = calls[q]
    BY <1>1, <1>3 DEF AskEvidence
<1>4. calls' = calls \/ \E r \in Requests : AskEvidence(r)
    BY Writers
<1>5. QED
    BY <1>2, <1>3, <1>4

\* A handler that has written its response calls no plugin and writes no more.
THEOREM QuietAfterResponseTheorem == Spec => QuietAfterResponse
<1>1. TypeOK /\ OneResponse /\ [Next]_vars =>
          [\A r \in Requests :
              responses[r] # <<>> => responses'[r] = responses[r] /\ calls'[r] = calls[r]]_vars
    BY NextQuiet
<1>2. QED
    BY <1>1, TypeCorrect, OneResponseTheorem, PTL DEF Spec, QuietAfterResponse

\* What is collected, and what tokens hold, comes from plugins in the manager's map.
FromLoaded ==
    \A r \in Requests :
        /\ \A n \in Names : collection[r][n] # {} => n \in loaded
        /\ \A t \in Tokens(r) : \A n \in Names : t.collection[n] # {} => n \in loaded

LEMMA StoredFromLoaded ==
    ASSUME TypeOK, HandlerInv, NEW q \in Requests, StoreEvidence(q)
    PROVE  \A r \in Requests : \A n \in Names :
              collection'[r][n] # collection[r][n] => n \in loaded
<1>1. /\ pc[q] = "evidence" /\ Target(q) \in loaded /\ calls[q][Len(calls[q])].to = Target(q)
    BY DEF StoreEvidence, CallReturns, TypeOK, HandlerInv, HandlerInvAt, CallOutstanding
<1>2. PICK empty \in BOOLEAN :
        collection' = IF EvidenceReply(q, empty).call.to \in CmwRefuses
                      THEN collection
                      ELSE [collection EXCEPT ![q][EvidenceReply(q, empty).call.to]
                                = {EvidenceReply(q, empty)}]
    BY DEF StoreEvidence
<1>3. EvidenceReply(q, empty).call.to = Target(q)
    BY <1>1 DEF EvidenceReply
<1>4. \A r \in Requests : DOMAIN collection[r] = Names
    BY DEF TypeOK, MapTo
<1>5. QED
    BY <1>1, <1>2, <1>3, <1>4 DEF TypeOK

LEMMA NextFromLoaded ==
    TypeOK /\ HandlerInv /\ OneResponse /\ FromLoaded /\ [Next]_vars => FromLoaded'
<1> SUFFICES ASSUME TypeOK, HandlerInv, OneResponse, FromLoaded, [Next]_vars, NEW r \in Requests
             PROVE  /\ \A n \in Names : collection'[r][n] # {} => n \in loaded
                    /\ \A t \in Tokens(r)' : \A n \in Names : t.collection[n] # {} => n \in loaded
    BY RespondsOnce DEF FromLoaded
<1>1. collection' = collection \/ \E q \in Requests : StoreEvidence(q)
    BY Writers
<1>2. ASSUME NEW n \in Names, collection'[r][n] # {} PROVE n \in loaded
    BY <1>1, <1>2, StoredFromLoaded DEF FromLoaded
<1>3. ASSUME NEW t \in Tokens(r)', NEW n \in Names, t.collection[n] # {} PROVE n \in loaded
    <2>1. t \in Tokens(r) \/ t = TokenOf(r)
        BY <1>3, NewTokens
    <2>2. QED
        BY <1>3, <2>1 DEF FromLoaded, TokenOf
<1>4. QED
    BY <1>2, <1>3

-----------------------------------------------------------------------------
(* Who is asked *)

\* The attesters asked so far are the first ones of the order.
AskedInOrder(r) ==
    /\ calls[r] # <<>> => order[r] \in QueryOrders(challenge[r])
    /\ Len(calls[r]) <= Len(order[r])
    /\ \A i \in 1..Len(calls[r]) : calls[r][i].to = order[r][i]
    /\ pc[r] = "idle" => calls[r] = <<>>
    /\ pc[r] \in {"next", "formats"} => Len(calls[r]) = at[r] - 1
    /\ pc[r] = "evidence" => Len(calls[r]) = at[r]

\* A request that is worked on has passed the bounds of the nonce, and its calls so far
\* were for usable nonces.
AskedUsably(r) ==
    /\ InProgress(r) => challenge[r].nonce.len \in MinNonceSize..MaxNonceSize
    /\ \A i \in 1..Len(calls[r]) : UsableNonce(calls[r][i].nonce)

AllAskedUsably == \A r \in Requests : AskedUsably(r)

AllAskedInOrder == \A r \in Requests : AskedInOrder(r)

LEMMA AskedFrame ==
    ASSUME NEW q \in Requests, AskedInOrder(q), UNCHANGED <<loaded, challenge>>,
           order'[q] = order[q], calls'[q] = calls[q],
           pc'[q] \in {"done", "aborted"} \/ (pc'[q] = pc[q] /\ at'[q] = at[q])
    PROVE  AskedInOrder(q)'
<1>1. QueryOrders(challenge[q])' = QueryOrders(challenge[q])
    BY DEF QueryOrders
<1>2. QED
    BY <1>1 DEF AskedInOrder

LEMMA AskEvidenceInOrder ==
    ASSUME TypeOK, NEW r \in Requests, HandlerInvAt(r), AskedInOrder(r), AskEvidence(r)
    PROVE  AskedInOrder(r)'
<1> USE DEF TypeOK, config
<1>1. /\ pc[r] = "formats" /\ pc'[r] = "evidence" /\ at'[r] = at[r] /\ order'[r] = order[r]
      /\ UNCHANGED <<loaded, challenge>>
    BY DEF AskEvidence
<1>2. order[r] \in QueryOrders(challenge[r]) /\ at[r] <= Len(order[r])
    BY <1>1 DEF HandlerInvAt, InProgress, PartlyCollected
<1>3. QueryOrders(challenge[r])' = QueryOrders(challenge[r])
    BY <1>1 DEF QueryOrders
<1>4. PICK call : call.to = Target(r) /\ calls'[r] = Append(calls[r], call)
    BY DEF AskEvidence
<1>5. calls[r] \in Seq(EvidenceIn) /\ order[r] \in Seq(Names) /\ at[r] \in Nat \ {0}
    OBVIOUS
<1>6. Len(calls[r]) = at[r] - 1
    BY <1>1 DEF AskedInOrder
<1>7. calls[r] \in Seq(EvidenceIn \cup {call})
    BY <1>5
<1>8. /\ Len(calls'[r]) = at[r]
      /\ \A i \in 1..(at[r] - 1) : calls'[r][i] = calls[r][i]
      /\ calls'[r][at[r]] = call
    BY <1>4, <1>5, <1>6, <1>7, AppendProperties
<1>9. \A i \in 1..Len(calls'[r]) : calls'[r][i].to = order'[r][i]
    BY <1>1, <1>4, <1>5, <1>6, <1>8 DEF AskedInOrder, Target
<1>10. QED
    BY <1>1, <1>2, <1>3, <1>8, <1>9 DEF AskedInOrder

LEMMA ActingInOrder ==
    ASSUME NEW r \in Requests, TypeOK, HandlerInvAt(r), AskedInOrder(r),
           RejectRequest(r) \/ AcceptRequest(r) \/ Handle(r) \/ CallHangs(r)
    PROVE  AskedInOrder(r)'
<1> USE DEF config, TypeOK
<1>1. CASE AcceptRequest(r)
    <2>1. calls'[r] = <<>> /\ pc'[r] = "next" /\ at'[r] = 1
        BY <1>1 DEF AcceptRequest, AskedInOrder, HandlerInvAt, NothingCollected
    <2>2. PICK s \in QueryOrders(challenge[r]) : order'[r] = s
        BY <1>1 DEF AcceptRequest
    <2>3. s \in Seq(Names)
        BY <2>2, QueryOrdersEnumerate, EnumerationsAreSequences
    <2>4. QueryOrders(challenge[r])' = QueryOrders(challenge[r])
        BY <1>1 DEF AcceptRequest, QueryOrders
    <2>5. Len(calls'[r]) = 0 /\ Len(order'[r]) \in Nat
        BY <2>1, <2>2, <2>3
    <2>6. QED
        BY <2>1, <2>2, <2>4, <2>5 DEF AskedInOrder
<1>2. CASE AskEvidence(r)
    BY <1>2, AskEvidenceInOrder
<1>3. CASE AskFormats(r) \/ StoreEvidence(r)
    <2>1. /\ UNCHANGED <<loaded, challenge>> /\ calls'[r] = calls[r] /\ order'[r] = order[r]
          /\ \/ pc[r] = "next" /\ pc'[r] = "formats" /\ at'[r] = at[r]
             \/ pc[r] = "evidence" /\ pc'[r] = "next" /\ at'[r] = at[r] + 1
        <3>1. CASE AskFormats(r)
            BY <3>1 DEF AskFormats, HasNext
        <3>2. CASE StoreEvidence(r)
            BY <3>2 DEF StoreEvidence
        <3>3. QED
            BY <1>3, <3>1, <3>2
    <2>2. QueryOrders(challenge[r])' = QueryOrders(challenge[r])
        BY <2>1 DEF QueryOrders
    <2>3. at[r] \in Nat
        OBVIOUS
    <2>4. QED
        BY <2>1, <2>2, <2>3 DEF AskedInOrder
<1>4. CASE RejectRequest(r) \/ LookupFails(r) \/ NoFormats(r) \/ BadOptions(r)
    BY <1>4, AskedFrame DEF RejectRequest, LookupFails, NoFormats, BadOptions, Problem, Respond
<1>5. CASE UnusableFormat(r) \/ EvidenceFails(r) \/ RefuseEvidence(r)
    BY <1>5, AskedFrame DEF UnusableFormat, EvidenceFails, RefuseEvidence, Problem, Respond
<1>6. CASE Serialise(r) \/ CannotSerialise(r) \/ Panic(r) \/ CallHangs(r)
    BY <1>6, AskedFrame DEF Serialise, CannotSerialise, Panic, CallHangs, Problem, Respond
<1>7. QED
    BY <1>1, <1>2, <1>3, <1>4, <1>5, <1>6 DEF Handle

LEMMA NextAllAskedInOrder ==
    TypeOK /\ HandlerInv /\ AllAskedInOrder /\ [Next]_vars => AllAskedInOrder'
<1> SUFFICES ASSUME TypeOK, HandlerInv, AllAskedInOrder, [Next]_vars, NEW q \in Requests
             PROVE  AskedInOrder(q)'
    BY DEF AllAskedInOrder
<1>1. AskedInOrder(q) /\ HandlerInvAt(q)
    BY DEF AllAskedInOrder, HandlerInv
<1>2. ASSUME NEW r \in Requests,
             RejectRequest(r) \/ AcceptRequest(r) \/ Handle(r) \/ CallHangs(r)
      PROVE  AskedInOrder(q)'
    <2>1. CASE q = r
        BY <1>1, <1>2, <2>1, ActingInOrder
    <2>2. CASE q # r
        <3>1. /\ UNCHANGED <<loaded, challenge>>
              /\ pc'[q] = pc[q] /\ order'[q] = order[q] /\ at'[q] = at[q]
              /\ claims'[q] = claims[q] /\ collection'[q] = collection[q]
              /\ calls'[q] = calls[q]
            BY <1>2, <2>2, OthersUnmoved
        <3>2. QED
            BY <1>1, <3>1, AskedFrame
    <2>3. QED
        BY <2>1, <2>2
<1>3. ASSUME NEW p \in Names, Crash(p) PROVE AskedInOrder(q)'
    BY <1>1, <1>3, AskedFrame DEF Crash, config
<1>4. CASE UNCHANGED vars
    BY <1>1, <1>4, AskedFrame DEF vars, config
<1>5. QED
    BY <1>2, <1>3, <1>4 DEF Next, Quiescent

LEMMA ChosenAreFormats ==
    \A formats \in FormatLists \ {<<>>}, option \in Option :
        Chosen(formats, option) \subseteq Format
    BY FormatsAssumption DEF Chosen

LEMMA NextAllAskedUsably == TypeOK /\ AllAskedUsably /\ [Next]_vars => AllAskedUsably'
<1> SUFFICES ASSUME TypeOK, AllAskedUsably, [Next]_vars, NEW q \in Requests
             PROVE  AskedUsably(q)'
    BY DEF AllAskedUsably
<1> USE DEF TypeOK, config
<1>1. AskedUsably(q)
    BY DEF AllAskedUsably
<1>2. CASE AcceptRequest(q)
    <2>1. calls' = calls /\ challenge' = challenge
        BY <1>2 DEF AcceptRequest
    <2>2. \A status \in Statuses : ~Rejected(challenge[q], status)
        BY <1>2 DEF AcceptRequest
    <2>3. ~BadRequest(challenge[q])
        BY <2>2 DEF Rejected, Statuses
    <2>4. QED
        BY <1>1, <2>1, <2>3 DEF BadRequest, AskedUsably
<1>3. CASE AskEvidence(q)
    <2>1. pc[q] = "formats" /\ challenge' = challenge
        BY <1>3 DEF AskEvidence
    <2>2. challenge[q].nonce.len \in MinNonceSize..MaxNonceSize
        BY <1>1, <2>1 DEF AskedUsably, InProgress
    <2>3. PICK format :
            /\ format \in Format
            /\ Usable(q, format)
            /\ calls'[q] = Append(calls[q],
                 [to |-> Target(q), type |-> format.type,
                  nonce |-> AdjustNonce(challenge[q].nonce, format.size)])
        <3>1. OptionOf(q) \in Option
            BY <1>3, LoadedAssumption, ChallengesAssumption
               DEF AskEvidence, CallReturns, OptionOf, Challenge
        <3>2. QED
            BY <1>3, <3>1, ChosenAreFormats DEF AskEvidence
    <2> DEFINE call == [to |-> Target(q), type |-> format.type,
                        nonce |-> AdjustNonce(challenge[q].nonce, format.size)]
    <2>4. UsableNonce(call.nonce)
        <3>1. format.size # 0
            <4>1. format.size \in Nat /\ format.size > 0
                BY <2>3 DEF Usable, Format
            <4>2. QED
                BY <4>1
        <3>2. call.nonce.of = challenge[q].nonce /\ call.nonce.size = format.size
            BY DEF AdjustNonce, AdjustNonceWith
        <3>3. QED
            BY <2>2, <3>1, <3>2 DEF UsableNonce, MinNonceSize, MaxNonceSize
    <2>5. calls[q] \in Seq(EvidenceIn)
        OBVIOUS
    <2> HIDE DEF call
    <2>6. calls'[q] = Append(calls[q], call)
        BY <2>3 DEF call
    <2>7. calls[q] \in Seq(EvidenceIn \cup {call})
        BY <2>5
    <2>8. /\ Len(calls'[q]) = Len(calls[q]) + 1
          /\ \A i \in 1..Len(calls[q]) : calls'[q][i] = calls[q][i]
          /\ calls'[q][Len(calls[q]) + 1] = call
        BY <2>6, <2>7, AppendProperties
    <2>9. Len(calls[q]) \in Nat
        BY <2>5
    <2>10. ASSUME NEW i \in 1..Len(calls'[q]) PROVE UsableNonce(calls'[q][i].nonce)
        <3>1. i \in 1..Len(calls[q]) \/ i = Len(calls[q]) + 1
            BY <2>8, <2>9
        <3>2. \A j \in 1..Len(calls[q]) : UsableNonce(calls[q][j].nonce)
            BY <1>1 DEF AskedUsably
        <3> HIDE DEF TypeOK
        <3>3. QED
            BY <2>4, <2>8, <3>1, <3>2, Zenon
    <2>11. QED
        BY <2>1, <2>2, <2>10 DEF AskedUsably
<1>4. ASSUME ~AcceptRequest(q), ~AskEvidence(q)
      PROVE  calls'[q] = calls[q] /\ challenge' = challenge /\ (InProgress(q)' => InProgress(q))
    <2>1. ASSUME NEW r \in Requests,
                 RejectRequest(r) \/ AcceptRequest(r) \/ Handle(r) \/ CallHangs(r)
          PROVE  calls'[q] = calls[q] /\ challenge' = challenge /\ (InProgress(q)' => InProgress(q))
        <3>1. CASE q # r
            BY <2>1, <3>1, OthersUnmoved DEF InProgress
        <3>2. CASE q = r
            <4>1. CASE RejectRequest(q) \/ LookupFails(q) \/ NoFormats(q) \/ BadOptions(q)
                BY <4>1 DEF RejectRequest, LookupFails, NoFormats, BadOptions, Problem, Respond,
                            InProgress
            <4>2. CASE UnusableFormat(q) \/ EvidenceFails(q) \/ RefuseEvidence(q)
                BY <4>2 DEF UnusableFormat, EvidenceFails, RefuseEvidence, Problem, Respond,
                            InProgress
            <4>3. CASE Serialise(q) \/ CannotSerialise(q) \/ Panic(q) \/ CallHangs(q)
                BY <4>3 DEF Serialise, CannotSerialise, Panic, CallHangs, Problem, Respond,
                            InProgress
            <4>4. CASE AskFormats(q) \/ StoreEvidence(q)
                BY <4>4 DEF AskFormats, HasNext, StoreEvidence, InProgress
            <4>5. QED
                BY <1>4, <2>1, <3>2, <4>1, <4>2, <4>3, <4>4 DEF Handle
        <3>3. QED
            BY <3>1, <3>2
    <2>2. ASSUME NEW p \in Names, Crash(p)
          PROVE  calls' = calls /\ challenge' = challenge /\ pc' = pc
        BY <2>2 DEF Crash
    <2>3. CASE UNCHANGED vars
        BY <2>3 DEF vars, InProgress
    <2>4. QED
        BY <2>1, <2>2, <2>3 DEF Next, Quiescent, InProgress
<1>5. CASE ~AcceptRequest(q) /\ ~AskEvidence(q)
    BY <1>1, <1>4, <1>5 DEF AskedUsably
<1>6. QED
    BY <1>2, <1>3, <1>5

LEMMA SelectionIsOrdered ==
    ASSUME NEW names, NEW s \in SelectionOrders(names),
           NEW i \in DOMAIN s, NEW j \in DOMAIN s, i < j
    PROVE  FirstAt(names, s[i]) < FirstAt(names, s[j])
    BY DEF SelectionOrders

LEMMA AskedAreWanted == TypeOK /\ AllAskedInOrder /\ AllAskedUsably => OnlyWantedAttesters
<1> SUFFICES ASSUME TypeOK, AllAskedInOrder, AllAskedUsably, NEW r \in Requests, NEW asked,
                    asked = [i \in DOMAIN calls[r] |-> calls[r][i].to]
             PROVE  /\ \A i \in DOMAIN calls[r] : UsableNonce(calls[r][i].nonce)
                    /\ IsInjective(asked)
                    /\ Range(asked) \subseteq Wanted(challenge[r])
                    /\ challenge[r].selection.given =>
                         \A i, j \in DOMAIN asked : i < j =>
                            FirstAt(challenge[r].selection.names, asked[i])
                              < FirstAt(challenge[r].selection.names, asked[j])
    BY DEF OnlyWantedAttesters
<1> USE DEF TypeOK
<1>1. AskedInOrder(r)
    BY DEF AllAskedInOrder
<1>2. calls[r] \in Seq(EvidenceIn) /\ order[r] \in Seq(Names)
    OBVIOUS
<1>3. DOMAIN asked = 1..Len(calls[r]) /\ DOMAIN order[r] = 1..Len(order[r])
    BY <1>2
<1>4. \A i \in DOMAIN asked : i \in DOMAIN order[r] /\ asked[i] = order[r][i]
    BY <1>1, <1>2, <1>3 DEF AskedInOrder
<1>5. \A i \in DOMAIN calls[r] : UsableNonce(calls[r][i].nonce)
    <2>1. AskedUsably(r)
        BY DEF AllAskedUsably
    <2>2. DOMAIN calls[r] = 1..Len(calls[r])
        BY <1>2
    <2> HIDE DEF TypeOK
    <2>3. QED
        BY <2>1, <2>2, Zenon DEF AskedUsably
<1>6. CASE calls[r] = <<>>
    BY <1>3, <1>5, <1>6 DEF IsInjective, Range
<1>7. CASE calls[r] # <<>>
    <2>1. order[r] \in QueryOrders(challenge[r])
        BY <1>1, <1>7 DEF AskedInOrder
    <2>2. IsInjective(order[r]) /\ Range(order[r]) = Wanted(challenge[r])
        <3>1. challenge[r] \in Challenges /\ loaded \in LoadedSets
            OBVIOUS
        <3>2. /\ order[r] \in Enumerations(Wanted(challenge[r]))
              /\ Wanted(challenge[r]) \in SUBSET Names
            BY <2>1, <3>1, QueryOrdersEnumerate
        <3>3. QED
            BY <3>2, EnumerationsAreSequences
    <2>3. IsInjective(asked)
        BY <1>4, <2>2 DEF IsInjective
    <2>4. Range(asked) \subseteq Wanted(challenge[r])
        <3>1. Range(asked) = {asked[i] : i \in DOMAIN asked}
            BY DEF Range
        <3>2. \A i \in DOMAIN asked : asked[i] \in Range(order[r])
            BY <1>4 DEF Range
        <3>3. QED
            BY <2>2, <3>1, <3>2
    <2>5. ASSUME challenge[r].selection.given,
                 NEW i \in DOMAIN asked, NEW j \in DOMAIN asked, i < j
          PROVE  FirstAt(challenge[r].selection.names, asked[i])
                   < FirstAt(challenge[r].selection.names, asked[j])
        <3>1. order[r] \in SelectionOrders(challenge[r].selection.names)
            BY <2>1, <2>5 DEF QueryOrders
        <3>2. QED
            BY <1>4, <2>5, <3>1, SelectionIsOrdered
    <2>6. QED
        BY <1>5, <2>3, <2>4, <2>5
<1>8. QED
    BY <1>6, <1>7

\* Only the attesters that a challenge asks for are asked for evidence, each once, in
\* the order of the selection and for a usable nonce.
THEOREM OnlyWantedAreAsked == Spec => []OnlyWantedAttesters
<1>1. Init => AllAskedInOrder /\ AllAskedUsably
    BY DEF Init, AllAskedInOrder, AskedInOrder, AllAskedUsably, AskedUsably, InProgress
<1>2. QED
    BY <1>1, NextAllAskedInOrder, NextAllAskedUsably, AskedAreWanted, TypeCorrect,
       HandlerInvariant, PTL DEF Spec

-----------------------------------------------------------------------------
(* The list of names that the loop builds from the selection *)

\* The loop over the selection, name by name.
SeenAfter(names, query, n) ==
    /\ query[0] = <<>>
    /\ \A l \in 1..n :
         query[l] = IF names[l] \in Range(query[l - 1]) THEN query[l - 1]
                    ELSE Append(query[l - 1], names[l])

\* Dedup is what its recursive definition says.
LEMMA DedupDef ==
    ASSUME NEW names \in Seq(Names)
    PROVE  \E query \in [0..Len(names) -> Seq(Names)] :
             SeenAfter(names, query, Len(names)) /\ Dedup(names) = query[Len(names)]
<1> DEFINE m == Len(names)
           Value(f, n) == IF n = 0 THEN <<>>
                          ELSE IF names[n] \in Range(f[n - 1]) THEN f[n - 1]
                          ELSE Append(f[n - 1], names[n])
           Solves(f) == f = [n \in 0..m |-> Value(f, n)]
           step == [n \in 1..m |-> [s \in Seq(Names) |->
                IF names[n] \in Range(s) THEN s ELSE Append(s, names[n])]]
<1>1. m \in Nat /\ <<>> \in Seq(Names) /\ \A n \in 1..m : names[n] \in Names
    OBVIOUS
<1>2. step \in [1..m -> [Seq(Names) -> Seq(Names)]]
  <2>1. ASSUME NEW n \in 1..m, NEW s \in Seq(Names)
        PROVE  (IF names[n] \in Range(s) THEN s ELSE Append(s, names[n])) \in Seq(Names)
    BY <1>1
  <2>2. QED
    BY <2>1
<1>3. \E f \in [0..m -> Seq(Names)] : f[0] = <<>> /\ \A n \in 1..m : f[n] = step[n][f[n - 1]]
  <2>1. m \in Nat /\ <<>> \in Seq(Names)
    BY <1>1
  <2> HIDE DEF step, m
  <2>2. CanIterate(Seq(Names), <<>>, m, step)
    BY <1>2, <2>1, RecursionInSets
  <2>3. QED
    BY <2>2, Zenon DEF CanIterate
<1>4. PICK f \in [0..m -> Seq(Names)] : f[0] = <<>> /\ \A n \in 1..m : f[n] = step[n][f[n - 1]]
    BY <1>3
<1>5. ASSUME NEW n \in 1..m
      PROVE  f[n] = IF names[n] \in Range(f[n - 1]) THEN f[n - 1] ELSE Append(f[n - 1], names[n])
  <2>1. f[n - 1] \in Seq(Names)
    <3> HIDE DEF m, step
    <3>1. n - 1 \in 0..m
      BY <1>1
    <3>2. QED
      BY <1>4, <3>1, Zenon
  <2>2. QED
    BY <1>4, <2>1
<1>6. Solves(f)
  <2> HIDE DEF m, step
  <2>1. \A n \in 0..m : n = 0 \/ n \in 1..m
    BY <1>1
  <2>2. \A n \in 1..m : n # 0
    BY <1>1
  <2>3. ASSUME NEW n \in 0..m PROVE f[n] = Value(f, n)
    <3>1. CASE n = 0
      BY <1>4, <3>1
    <3>2. CASE n \in 1..m
      BY <1>5, <2>2, <3>2, Zenon
    <3>3. QED
      BY <2>1, <3>1, <3>2
  <2>4. f = [n \in 0..m |-> f[n]]
    BY <1>4
  <2> HIDE DEF Value
  <2>5. QED
    BY <2>3, <2>4, Zenon
<1>7. Dedup(names) = (CHOOSE g : Solves(g))[m]
    BY DEF Dedup
<1> DEFINE g == CHOOSE h : Solves(h)
<1> HIDE DEF Solves
<1>8. Solves(g)
    BY <1>6
<1> HIDE DEF g
<1>9. DOMAIN g = 0..m /\ \A n \in 0..m : g[n] = Value(g, n)
  <2> HIDE DEF Value
  <2>1. QED
    BY <1>8 DEF Solves
<1>10. g[0] = <<>>
    BY <1>1, <1>9
<1>11. SeenAfter(names, g, m)
  <2>1. ASSUME NEW l \in 1..m
        PROVE  g[l] = IF names[l] \in Range(g[l - 1]) THEN g[l - 1]
                      ELSE Append(g[l - 1], names[l])
    <3>1. l \in 0..m /\ l # 0
      BY <1>1
    <3>2. g[l] = Value(g, l)
      <4> HIDE DEF Value
      <4>1. QED
        BY <1>9, <3>1
    <3>3. QED
      BY <3>1, <3>2, Zenon DEF Value
  <2> HIDE DEF Value
  <2>2. QED
    BY <1>10, <2>1, Zenon DEF SeenAfter
<1>12. g \in [0..m -> Seq(Names)]
  <2> DEFINE T == {n \in Nat : n <= m => g[n] \in Seq(Names)}
  <2>1. 0 \in T
    BY <1>1, <1>10
  <2>2. ASSUME NEW n \in Nat, n \in T PROVE n + 1 \in T
    <3>1. ASSUME n + 1 <= m PROVE g[n + 1] \in Seq(Names)
      <4>1. n + 1 \in 1..m /\ (n + 1) - 1 = n /\ g[n] \in Seq(Names)
        BY <1>1, <2>2, <3>1
      <4>2. g[n + 1] = IF names[n + 1] \in Range(g[n]) THEN g[n]
                       ELSE Append(g[n], names[n + 1])
        BY <1>11, <4>1 DEF SeenAfter
      <4>3. QED
        BY <1>1, <4>1, <4>2
    <3>2. QED
      BY <3>1
  <2> HIDE DEF T
  <2>3. Nat \subseteq T
    BY <2>1, <2>2, InductionInSets
  <2>4. \A n \in 0..m : g[n] \in Seq(Names)
    BY <1>1, <2>3 DEF T
  <2>5. g = [n \in 0..m |-> g[n]]
    BY <1>8, <1>9 DEF Solves
  <2>6. QED
    BY <2>4, <2>5
<1>13. QED
    BY <1>7, <1>11, <1>12 DEF g

\* A name that is in the selection has a first place there.
LEMMA FirstAtIsFirst ==
    ASSUME NEW names \in Seq(Names), NEW n \in Range(names)
    PROVE  /\ FirstAt(names, n) \in 1..Len(names)
           /\ names[FirstAt(names, n)] = n
           /\ \A j \in 1..Len(names) : names[j] = n => FirstAt(names, n) <= j
<1> DEFINE T == {i \in 1..Len(names) : names[i] = n}
<1>1. DOMAIN names = 1..Len(names) /\ Len(names) \in Nat
    OBVIOUS
<1>2. T \subseteq Nat /\ T # {}
    BY <1>1 DEF Range
<1>3. PICK i \in T : \A j \in T : i <= j
    BY <1>2, LeastNumber, Zenon
<1> DEFINE First(l) == names[l] = n /\ \A j \in 1..(l - 1) : names[j] # n
<1>4. First(i)
  <2>1. \A j \in 1..(i - 1) : j \in 1..Len(names) /\ ~ (i <= j)
    BY <1>1
  <2>2. QED
    BY <1>3, <2>1
<1>5. \E l \in DOMAIN names : First(l)
    BY <1>1, <1>4
<1>6. FirstAt(names, n) = CHOOSE l \in DOMAIN names : First(l)
    BY DEF FirstAt
<1> HIDE DEF First
<1>7. FirstAt(names, n) \in DOMAIN names /\ First(FirstAt(names, n))
    BY <1>5, <1>6
<1>8. FirstAt(names, n) \in 1..Len(names)
    BY <1>1, <1>7
<1>9. \A j \in 1..Len(names) : names[j] = n => FirstAt(names, n) <= j
  <2>1. ASSUME NEW j \in 1..Len(names), names[j] = n, ~ (FirstAt(names, n) <= j) PROVE FALSE
    <3>1. j \in 1..(FirstAt(names, n) - 1)
      BY <1>1, <1>8, <2>1
    <3>2. QED
      BY <1>7, <2>1, <3>1 DEF First
  <2>2. QED
    BY <2>1
<1>10. QED
    BY <1>7, <1>8, <1>9 DEF First

\* A list of the names that the first n of a selection are, each once, where it is
\* first named.
ListsFirst(names, n, query) ==
    /\ query \in Seq(Names)
    /\ IsInjective(query)
    /\ Range(query) = {names[l] : l \in 1..n}
    /\ \A i, j \in DOMAIN query : i < j => FirstAt(names, query[i]) < FirstAt(names, query[j])

LEMMA AppendNew ==
    ASSUME NEW names \in Seq(Names), NEW n \in Nat, n + 1 <= Len(names),
           NEW query, ListsFirst(names, n, query), names[n + 1] \notin Range(query)
    PROVE  ListsFirst(names, n + 1, Append(query, names[n + 1]))
<1> DEFINE x == names[n + 1]
           longer == Append(query, x)
           l == Len(query)
<1>1. /\ query \in Seq(Names) /\ l \in Nat /\ DOMAIN query = 1..l
      /\ IsInjective(query) /\ Len(names) \in Nat /\ DOMAIN names = 1..Len(names)
      /\ n + 1 \in 1..Len(names) /\ x \in Names
    BY DEF ListsFirst
<1>2. /\ longer \in Seq(Names) /\ Len(longer) = l + 1 /\ DOMAIN longer = 1..(l + 1)
      /\ \A i \in 1..l : longer[i] = query[i]
      /\ longer[l + 1] = x
  <2> HIDE DEF x
  <2>1. QED
    BY <1>1
<1> HIDE DEF longer, l
<1>3. \A i \in 1..(l + 1) : i \in 1..l \/ i = l + 1
    BY <1>1
<1>4. \A i \in 1..l : query[i] # x
    BY <1>1 DEF Range, x
<1>5. IsInjective(longer)
    BY <1>1, <1>2, <1>3, <1>4 DEF IsInjective
<1>6. Range(longer) = Range(query) \cup {x}
  <2>1. l + 1 \in 1..(l + 1) /\ \A i \in 1..l : i \in 1..(l + 1)
    BY <1>1
  <2>2. QED
    BY <1>1, <1>2, <1>3, <2>1, Zenon DEF Range
<1>7. Range(longer) = {names[i] : i \in 1..(n + 1)}
  <2>1. \A i \in 1..(n + 1) : i \in 1..n \/ i = n + 1
    OBVIOUS
  <2>2. n + 1 \in 1..(n + 1) /\ \A i \in 1..n : i \in 1..(n + 1)
    OBVIOUS
  <2>3. Range(query) = {names[i] : i \in 1..n}
    BY DEF ListsFirst
  <2>4. QED
    BY <1>6, <2>1, <2>2, <2>3 DEF x
<1>8. FirstAt(names, x) = n + 1
  <2>1. x \in Range(names)
    BY <1>1 DEF Range, x
  <2>2. /\ FirstAt(names, x) \in 1..Len(names) /\ names[FirstAt(names, x)] = x
        /\ FirstAt(names, x) <= n + 1
    BY <1>1, <2>1, FirstAtIsFirst DEF x
  <2>3. FirstAt(names, x) \notin 1..n
    BY <2>2 DEF ListsFirst, x
  <2>4. QED
    BY <1>1, <2>2, <2>3
<1>9. ASSUME NEW i \in 1..l PROVE FirstAt(names, query[i]) < n + 1
  <2>1. query[i] \in Range(query)
    BY <1>1 DEF Range
  <2>2. PICK j \in 1..n : names[j] = query[i]
    BY <2>1 DEF ListsFirst
  <2>3. j \in 1..Len(names) /\ query[i] \in Range(names)
    BY <1>1, <2>2 DEF Range
  <2>4. FirstAt(names, query[i]) <= j /\ FirstAt(names, query[i]) \in Nat
    BY <2>2, <2>3, FirstAtIsFirst
  <2>5. QED
    BY <2>4
<1>10. ASSUME NEW i \in DOMAIN longer, NEW j \in DOMAIN longer, i < j
       PROVE  FirstAt(names, longer[i]) < FirstAt(names, longer[j])
  <2>1. i \in 1..l /\ longer[i] = query[i]
    BY <1>1, <1>2, <1>10
  <2>2. CASE j \in 1..l
    BY <1>1, <1>2, <1>10, <2>1, <2>2 DEF ListsFirst
  <2>3. CASE j = l + 1
    BY <1>2, <1>8, <1>9, <2>1, <2>3
  <2>4. QED
    BY <1>2, <1>3, <2>2, <2>3
<1>11. QED
    BY <1>2, <1>5, <1>7, <1>10 DEF ListsFirst, longer, x

LEMMA DedupListsFirst ==
    ASSUME NEW names \in Seq(Names)
    PROVE  ListsFirst(names, Len(names), Dedup(names))
<1> DEFINE m == Len(names)
<1>1. PICK query \in [0..m -> Seq(Names)] :
        SeenAfter(names, query, m) /\ Dedup(names) = query[m]
    BY DedupDef
<1>2. m \in Nat
    OBVIOUS
<1> DEFINE T == {n \in Nat : n <= m => ListsFirst(names, n, query[n])}
<1>3. 0 \in T
  <2>1. query[0] = <<>> /\ <<>> \in Seq(Names) /\ DOMAIN <<>> = {}
    BY <1>1 DEF SeenAfter
  <2>2. ListsFirst(names, 0, <<>>)
    BY DEF ListsFirst, IsInjective, Range
  <2>3. QED
    BY <2>1, <2>2
<1>4. ASSUME NEW n \in Nat, n \in T PROVE n + 1 \in T
  <2> SUFFICES ASSUME n + 1 <= m PROVE ListsFirst(names, n + 1, query[n + 1])
    OBVIOUS
  <2>1. n + 1 \in 1..m /\ (n + 1) - 1 = n /\ ListsFirst(names, n, query[n])
    BY <1>2, <1>4
  <2>2. query[n + 1] = IF names[n + 1] \in Range(query[n]) THEN query[n]
                       ELSE Append(query[n], names[n + 1])
    BY <1>1, <2>1 DEF SeenAfter
  <2>3. CASE names[n + 1] \in Range(query[n])
    <3>1. {names[l] : l \in 1..(n + 1)} = {names[l] : l \in 1..n} \cup {names[n + 1]}
      <4>1. \A l \in 1..(n + 1) : l \in 1..n \/ l = n + 1
        OBVIOUS
      <4>2. n + 1 \in 1..(n + 1) /\ \A l \in 1..n : l \in 1..(n + 1)
        OBVIOUS
      <4>3. QED
        BY <4>1, <4>2
    <3>2. QED
      BY <2>1, <2>2, <2>3, <3>1 DEF ListsFirst
  <2>4. CASE names[n + 1] \notin Range(query[n])
    BY <2>1, <2>2, <2>4, AppendNew
  <2>5. QED
    BY <2>3, <2>4
<1> HIDE DEF T
<1>5. m \in T
    BY <1>2, <1>3, <1>4, InductionInSets
<1>6. QED
    BY <1>1, <1>2, <1>5 DEF T

\* Two lists of the same names in the order of the selection are the same list: where
\* they first differ, each would have the name of the other further on.
LEMMA OneOrder ==
    ASSUME NEW names \in Seq(Names), NEW c \in Nat, NEW R, R \subseteq Range(names),
           NEW s \in Surjection(1..c, R), NEW t \in Surjection(1..c, R),
           IsInjective(s), IsInjective(t),
           \A i, j \in 1..c : i < j => FirstAt(names, s[i]) < FirstAt(names, s[j]),
           \A i, j \in 1..c : i < j => FirstAt(names, t[i]) < FirstAt(names, t[j])
    PROVE  s = t
<1> DEFINE Differ == {i \in 1..c : s[i] # t[i]}
<1>1. s \in [1..c -> R] /\ t \in [1..c -> R]
    BY DEF Surjection
<1>2. ASSUME Differ # {} PROVE FALSE
  <2>1. Differ \subseteq Nat
    OBVIOUS
  <2>2. PICK n \in Differ : \A i \in Differ : n <= i
    <3> HIDE DEF Differ
    <3>1. QED
      BY <1>2, <2>1, LeastNumber, Zenon
  <2>3. n \in 1..c /\ s[n] # t[n] /\ s[n] \in R /\ t[n] \in R
    BY <1>1, <2>2
  <2>4. \A i \in 1..c : i < n => s[i] = t[i]
    <3>1. ASSUME NEW i \in 1..c, i < n, s[i] # t[i] PROVE FALSE
      <4>1. i \in Differ
        BY <3>1
      <4>2. QED
        BY <2>2, <2>3, <3>1, <4>1
    <3>2. QED
      BY <3>1
  <2>5. PICK i \in 1..c : t[i] = s[n]
    BY <2>3 DEF Surjection
  <2>6. PICK j \in 1..c : s[j] = t[n]
    BY <2>3 DEF Surjection
  <2>7. n < i
    <3>1. i # n
      BY <2>3, <2>5
    <3>2. ASSUME i < n PROVE FALSE
      <4>1. s[i] = s[n]
        BY <2>4, <2>5, <3>2
      <4>2. i = n
        BY <1>1, <2>3, <4>1 DEF IsInjective
      <4>3. QED
        BY <3>1, <4>2
    <3>3. QED
      BY <2>3, <3>1, <3>2
  <2>8. n < j
    <3>1. j # n
      BY <2>3, <2>6
    <3>2. ASSUME j < n PROVE FALSE
      <4>1. t[j] = t[n]
        BY <2>4, <2>6, <3>2
      <4>2. j = n
        BY <1>1, <2>3, <4>1 DEF IsInjective
      <4>3. QED
        BY <3>1, <4>2
    <3>3. QED
      BY <2>3, <3>1, <3>2
  <2>9. FirstAt(names, s[n]) < FirstAt(names, t[n])
    BY <2>3, <2>6, <2>8
  <2>10. FirstAt(names, t[n]) < FirstAt(names, s[n])
    BY <2>3, <2>5, <2>7
  <2>11. FirstAt(names, s[n]) \in Nat /\ FirstAt(names, t[n]) \in Nat
    <3>1. s[n] \in Range(names) /\ t[n] \in Range(names)
      BY <2>3
    <3>2. FirstAt(names, s[n]) \in 1..Len(names) /\ FirstAt(names, t[n]) \in 1..Len(names)
      BY <3>1, FirstAtIsFirst
    <3>3. QED
      BY <3>2
  <2>12. QED
    BY <2>9, <2>10, <2>11
<1>3. QED
    BY <1>1, <1>2

\* The loop builds the list of the names of the selection, each once, where it is first
\* named: there is such a list, and only one.
THEOREM SelectionHasOneOrder ==
    ASSUME NEW names \in Seq(Names)
    PROVE  SelectionOrders(names) = {Dedup(names)}
<1> DEFINE R == Range(names)
           c == Cardinality(R)
           t == Dedup(names)
<1>1. DOMAIN names = 1..Len(names) /\ Len(names) \in Nat
    OBVIOUS
<1>2. ListsFirst(names, Len(names), t)
    BY DedupListsFirst
<1>3. /\ t \in Seq(Names) /\ IsInjective(t) /\ Range(t) = R
      /\ \A i, j \in DOMAIN t : i < j => FirstAt(names, t[i]) < FirstAt(names, t[j])
    BY <1>1, <1>2 DEF ListsFirst, Range
<1> HIDE DEF t, R
<1>4. t \in Bijection(1..Len(t), R) /\ Len(t) \in Nat
  <2>1. DOMAIN t = 1..Len(t) /\ Len(t) \in Nat /\ t = [i \in 1..Len(t) |-> t[i]]
    BY <1>3
  <2>2. \A i \in 1..Len(t) : t[i] \in R
    BY <1>3, <2>1 DEF Range
  <2>3. t \in [1..Len(t) -> R]
    BY <2>1, <2>2
  <2>4. \A x \in R : \E i \in 1..Len(t) : t[i] = x
    BY <1>3, <2>1 DEF Range
  <2>5. QED
    BY <1>3, <2>1, <2>3, <2>4 DEF Bijection, Injection, Surjection
<1>5. c = Len(t)
    BY <1>4, FS_CountingElements DEF ExistsBijection
<1> HIDE DEF c
<1>6. t \in SelectionOrders(names)
    BY <1>3, <1>4, <1>5 DEF SelectionOrders, Enumerations, c, R
<1>7. ASSUME NEW s \in SelectionOrders(names) PROVE s = t
  <2>1. /\ s \in Bijection(1..c, R)
        /\ \A i, j \in DOMAIN s : i < j => FirstAt(names, s[i]) < FirstAt(names, s[j])
    BY DEF SelectionOrders, Enumerations, c, R
  <2>2. s \in Surjection(1..c, R) /\ IsInjective(s) /\ DOMAIN s = 1..c
    BY <2>1 DEF Bijection, Injection, Surjection
  <2>3. t \in Surjection(1..c, R) /\ DOMAIN t = 1..c
    BY <1>4, <1>5 DEF Bijection, Surjection
  <2>4. c \in Nat /\ R \subseteq Range(names)
    BY <1>4, <1>5 DEF R
  <2>5. QED
    BY <1>3, <2>1, <2>2, <2>3, <2>4, OneOrder
<1>8. QED
    BY <1>6, <1>7 DEF t

\* The handler goes through the list that the loop builds, for selections of any length.
THEOREM SelectionIsLoopTheorem == Spec => []SelectionIsLoop
<1>1. TypeOK /\ HandlerInv => SelectionIsLoop
  <2> SUFFICES ASSUME TypeOK, HandlerInv, NEW r \in Requests,
                      challenge[r].selection.given, InProgress(r)
               PROVE  order[r] = Dedup(challenge[r].selection.names)
    BY DEF SelectionIsLoop
  <2>1. order[r] \in QueryOrders(challenge[r])
    BY DEF HandlerInv, HandlerInvAt, PartlyCollected
  <2>2. challenge[r].selection.names \in Seq(Names)
    BY ChallengesAssumption DEF TypeOK, Challenge
  <2>3. order[r] \in SelectionOrders(challenge[r].selection.names)
    BY <2>1 DEF QueryOrders
  <2>4. QED
    BY <2>2, <2>3, SelectionHasOneOrder
<1>2. QED
    BY <1>1, TypeCorrect, HandlerInvariant, PTL

-----------------------------------------------------------------------------
(* The handler implements ChallengeResponse: a step that responds is Attest or  *)
(* Decline of its request, a panic is Decline, and every other step a stutter.  *)

\* What a client sees of a request.
Seen(r) == <<Outcome(r), Received(r)>>

LEMMA AbortsByPanic ==
    ASSUME TypeOK, [Next]_vars
    PROVE  \/ \E r \in Requests : Panic(r)
           \/ \A q \in Requests : pc'[q] = "aborted" <=> pc[q] = "aborted"
<1> DEFINE Same == \A q \in Requests : pc'[q] = "aborted" <=> pc[q] = "aborted"
<1> USE DEF TypeOK
<1>1. ASSUME NEW r \in Requests,
             RejectRequest(r) \/ AcceptRequest(r) \/ AskFormats(r) \/ AskEvidence(r)
      PROVE  Same
    BY <1>1 DEF RejectRequest, AcceptRequest, AskFormats, AskEvidence, Problem, Respond, HasNext
<1>2. ASSUME NEW r \in Requests,
             LookupFails(r) \/ NoFormats(r) \/ BadOptions(r) \/ UnusableFormat(r)
      PROVE  Same
    BY <1>2 DEF LookupFails, NoFormats, BadOptions, UnusableFormat, Problem, Respond, HasNext
<1>3. ASSUME NEW r \in Requests, RefuseEvidence(r) \/ StoreEvidence(r)
      PROVE  Same
    BY <1>3 DEF RefuseEvidence, StoreEvidence, Problem, Respond
<1>4. ASSUME NEW r \in Requests, EvidenceFails(r)
      PROVE  Same
    BY <1>4 DEF EvidenceFails, Problem, Respond
<1>5. ASSUME NEW r \in Requests, Serialise(r) \/ CannotSerialise(r) \/ CallHangs(r)
      PROVE  Same
    BY <1>5 DEF Serialise, CannotSerialise, CallHangs, Problem, Respond, LoopEnds
<1>6. ASSUME NEW p \in Names, Crash(p) PROVE Same
    BY <1>6 DEF Crash
<1>7. CASE UNCHANGED vars
    BY <1>7 DEF vars
<1> HIDE DEF Same
<1>8. QED
    BY <1>1, <1>2, <1>3, <1>4, <1>5, <1>6, <1>7 DEF Next, Handle, Quiescent, Same

\* The outcome and the evidence of a request are those of its responses and its panic.
LEMMA SeenFrame ==
    ASSUME NEW q \in Requests, responses'[q] = responses[q],
           pc'[q] = "aborted" <=> pc[q] = "aborted"
    PROVE  Seen(q)' = Seen(q)
<1>1. Tokens(q)' = Tokens(q)
    BY DEF Tokens
<1>2. Outcome(q)' = Outcome(q)
    BY <1>1 DEF Outcome
<1>3. Received(q)' = Received(q)
    BY <1>1 DEF Received, ChallengeNonces
<1>4. QED
    BY <1>2, <1>3 DEF Seen

\* A request whose handler runs has no outcome yet.
LEMMA RunningIsOpen ==
    ASSUME TypeOK, OneResponse, NEW r \in Requests, pc[r] \notin {"done", "aborted"}
    PROVE  Outcome(r) = "open" /\ Received(r) = {}
<1>1. responses[r] = <<>>
    BY DEF TypeOK, OneResponse
<1>2. Tokens(r) = {}
    BY <1>1 DEF Tokens
<1>3. QED
    BY <1>1, <1>2 DEF Outcome, Received

\* The token of a handler at the end of its loop has evidence for this very challenge
\* from the attesters asked for.
LEMMA WhatTheTokenHolds ==
    ASSUME TypeOK, HandlerInv, NEW r \in Requests, LoopEnds(r)
    PROVE  {x \in [from : Names, nonce : ChallengeNonces] :
               \E e \in TokenOf(r).collection[x.from] : e.call.nonce.of = x.nonce}
             = {[from |-> n, nonce |-> challenge[r].nonce] :
                   n \in Wanted(challenge[r]) \ CmwRefuses}
<1> DEFINE Held == {x \in [from : Names, nonce : ChallengeNonces] :
                      \E e \in TokenOf(r).collection[x.from] : e.call.nonce.of = x.nonce}
           Promised == {[from |-> n, nonce |-> challenge[r].nonce] :
                          n \in Wanted(challenge[r]) \ CmwRefuses}
<1>1. TokenOf(r).collection = collection[r]
    BY DEF TokenOf
<1>2. \A n \in Names : \A e \in collection[r][n] : e.call.nonce.of = challenge[r].nonce
    <2>1. ASSUME NEW n \in Names, NEW e \in collection[r][n]
          PROVE  e.call.nonce.of = challenge[r].nonce
        <3>1. PartlyCollected(r)
            BY AllServed
        <3>2. ForThisRequest(r, e.call)
            BY <2>1, <3>1 DEF PartlyCollected
        <3>3. PICK size : e.call.nonce = AdjustNonce(challenge[r].nonce, size)
            BY <3>2 DEF ForThisRequest
        <3>4. QED
            BY <3>3 DEF AdjustNonce, AdjustNonceWith
    <2>2. QED
        BY <2>1
<1>3. Keys(collection[r]) = Wanted(challenge[r]) \ CmwRefuses
    BY AllServed DEF PartlyCollected
<1>4. challenge[r].nonce \in ChallengeNonces
    BY DEF TypeOK, ChallengeNonces
<1>5. ASSUME NEW x \in Held PROVE x \in Promised
    <2>1. /\ x \in [from : Names, nonce : ChallengeNonces]
          /\ \E e \in collection[r][x.from] : e.call.nonce.of = x.nonce
        BY <1>1, <1>5
    <2>2. x.nonce = challenge[r].nonce /\ x.from \in Keys(collection[r])
        BY <1>2, <2>1 DEF Keys
    <2>3. x = [from |-> x.from, nonce |-> challenge[r].nonce]
        BY <2>1, <2>2
    <2>4. QED
        BY <1>3, <2>2, <2>3
<1>6. ASSUME NEW x \in Promised PROVE x \in Held
    <2>1. PICK n \in Keys(collection[r]) : x = [from |-> n, nonce |-> challenge[r].nonce]
        BY <1>3, <1>6
    <2>2. n \in Names /\ \E e \in collection[r][n] : e.call.nonce.of = challenge[r].nonce
        BY <1>2, <2>1 DEF Keys
    <2>3. QED
        BY <1>1, <1>4, <2>1, <2>2
<1>7. QED
    BY <1>5, <1>6

-----------------------------------------------------------------------------

LEMMA SameQuestions ==
    ASSUME UNCHANGED <<loaded, challenge>>
    PROVE  /\ [r \in Requests |-> challenge[r].nonce]' = [r \in Requests |-> challenge[r].nonce]
           /\ [r \in Requests |-> Wanted(challenge[r])]' = [r \in Requests |-> Wanted(challenge[r])]
<1>1. \A r \in Requests : Wanted(challenge[r])' = Wanted(challenge[r])
    BY DEF Wanted
<1>2. QED
    BY <1>1

\* What a step may make of one request, as its client sees it: no evidence,
Declined(r) ==
    /\ Outcome(r) = "open" /\ Outcome(r)' \in {"problem", "dropped"}
    /\ Received(r)' = Received(r)
    /\ \A q \in Requests \ {r} : Seen(q)' = Seen(q)

\* or all the evidence that it asks for.
Attested(r) ==
    /\ Outcome(r) = "open" /\ Outcome(r)' = "token"
    /\ Received(r)' = {[from |-> n, nonce |-> challenge[r].nonce] :
                          n \in Wanted(challenge[r]) \ CmwRefuses}
    /\ \A q \in Requests \ {r} : Seen(q)' = Seen(q)

LEMMA Declines ==
    ASSUME NEW r \in Requests, Declined(r), UNCHANGED <<loaded, challenge>>
    PROVE  Abstract!Next
<1>1. \A q \in Requests \ {r} : Outcome(q)' = Outcome(q) /\ Received(q)' = Received(q)
    BY DEF Declined, Seen
<1>2. PICK o \in {"problem", "dropped"} :
        [q \in Requests |-> Outcome(q)]' = [[q \in Requests |-> Outcome(q)] EXCEPT ![r] = o]
    BY <1>1 DEF Declined
<1>3. [q \in Requests |-> Received(q)]' = [q \in Requests |-> Received(q)]
    BY <1>1 DEF Declined
<1>4. Abstract!Decline(r)
    BY <1>2, <1>3, SameQuestions DEF Declined, Abstract!Decline
<1>5. QED
    BY <1>4 DEF Abstract!Next

LEMMA Attests ==
    ASSUME NEW r \in Requests, Attested(r), UNCHANGED <<loaded, challenge>>
    PROVE  Abstract!Next
<1> DEFINE all == {[from |-> n, nonce |-> challenge[r].nonce] :
                      n \in Wanted(challenge[r]) \ CmwRefuses}
<1>1. \A q \in Requests \ {r} : Outcome(q)' = Outcome(q) /\ Received(q)' = Received(q)
    BY DEF Attested, Seen
<1>2. [q \in Requests |-> Outcome(q)]' = [[q \in Requests |-> Outcome(q)] EXCEPT ![r] = "token"]
    BY <1>1 DEF Attested
<1>3. [q \in Requests |-> Received(q)]' = [[q \in Requests |-> Received(q)] EXCEPT ![r] = all]
    BY <1>1 DEF Attested
<1>4. {[from |-> n, nonce |-> [q \in Requests |-> challenge[q].nonce][r]] :
          n \in [q \in Requests |-> Wanted(challenge[q])][r] \ CmwRefuses} = all
    OBVIOUS
<1> HIDE DEF all
<1>5. Abstract!Attest(r)
    <2>1. [q \in Requests |-> Outcome(q)][r] = "open"
        BY DEF Attested
    <2>2. \E lost \in SUBSET CmwRefuses :
             [q \in Requests |-> Received(q)]' =
                [[q \in Requests |-> Received(q)] EXCEPT ![r] =
                   {[from |-> n, nonce |-> [q \in Requests |-> challenge[q].nonce][r]] :
                       n \in [q \in Requests |-> Wanted(challenge[q])][r] \ lost}]
        BY <1>3, <1>4
    <2>3. QED
        BY <1>2, <2>1, <2>2, SameQuestions DEF Abstract!Attest
<1>6. QED
    BY <1>5 DEF Abstract!Next

LEMMA AnswerIsSeen ==
    ASSUME TypeOK, HandlerInv, OneResponse, UNCHANGED challenge,
           NEW r \in Requests, pc[r] \notin {"done", "aborted"},
           NEW status, NEW token, Respond(r, status, token),
           token = {} \/ (LoopEnds(r) /\ token = {TokenOf(r)})
    PROVE  Declined(r) \/ Attested(r)
<1>1. /\ responses'[r] = <<[status |-> status, token |-> token]>>
      /\ pc'[r] = "done"
      /\ \A q \in Requests \ {r} : responses'[q] = responses[q] /\ pc'[q] = pc[q]
    BY FirstResponse
<1>2. \A q \in Requests \ {r} : Seen(q)' = Seen(q)
    BY <1>1, SeenFrame
<1>3. Outcome(r) = "open" /\ Received(r) = {}
    BY RunningIsOpen
<1>4. Tokens(r)' = token /\ responses'[r] # <<>>
    BY <1>1 DEF Tokens
<1>5. Outcome(r)' = IF token = {} THEN "problem" ELSE "token"
    BY <1>1, <1>4 DEF Outcome
<1>6. Received(r)' = {x \in [from : Names, nonce : ChallengeNonces] :
                         \E t \in token : \E e \in t.collection[x.from] :
                            e.call.nonce.of = x.nonce}
    BY <1>4 DEF Received, ChallengeNonces
<1>7. CASE token = {}
    <2>1. Received(r)' = Received(r)
        BY <1>3, <1>6, <1>7
    <2>2. QED
        BY <1>2, <1>3, <1>5, <1>7, <2>1 DEF Declined
<1>8. CASE LoopEnds(r) /\ token = {TokenOf(r)}
    <2>1. Received(r)' = {[from |-> n, nonce |-> challenge[r].nonce] :
                             n \in Wanted(challenge[r]) \ CmwRefuses}
        BY <1>6, <1>8, WhatTheTokenHolds
    <2>2. Outcome(r)' = "token"
        BY <1>5, <1>8
    <2>3. QED
        BY <1>2, <1>3, <2>1, <2>2 DEF Attested
<1>9. QED
    BY <1>7, <1>8

LEMMA PanicIsSeen ==
    ASSUME TypeOK, OneResponse, NEW r \in Requests, Panic(r)
    PROVE  Declined(r)
<1> USE DEF TypeOK
<1>1. /\ UNCHANGED <<loaded, challenge, responses>>
      /\ pc'[r] = "aborted" /\ pc[r] \notin {"done", "aborted"}
      /\ \A q \in Requests \ {r} : pc'[q] = pc[q]
    BY DEF Panic, AwaitsPlugin, config
<1>2. \A q \in Requests \ {r} : Seen(q)' = Seen(q)
    BY <1>1, SeenFrame
<1>3. Outcome(r) = "open" /\ Outcome(r)' = "dropped"
    BY <1>1, RunningIsOpen DEF Outcome
<1>4. Received(r)' = Received(r)
    BY <1>1 DEF Received, Tokens, ChallengeNonces
<1>5. QED
    BY <1>1, <1>2, <1>3, <1>4 DEF Declined

LEMMA StutterImplements ==
    ASSUME UNCHANGED <<loaded, challenge>>, \A q \in Requests : Seen(q)' = Seen(q)
    PROVE  UNCHANGED Abstract!vars
<1>1. \A q \in Requests : Outcome(q)' = Outcome(q) /\ Received(q)' = Received(q)
    BY DEF Seen
<1>2. /\ [q \in Requests |-> Outcome(q)]' = [q \in Requests |-> Outcome(q)]
      /\ [q \in Requests |-> Received(q)]' = [q \in Requests |-> Received(q)]
    BY <1>1
<1>3. QED
    BY <1>2, SameQuestions DEF Abstract!vars

\* A client sees nothing of a step, or its atomic answer.
LEMMA NextIsSeen ==
    ASSUME TypeOK, HandlerInv, OneResponse, [Next]_vars
    PROVE  /\ UNCHANGED <<loaded, challenge>>
           /\ \/ \A q \in Requests : Seen(q)' = Seen(q)
              \/ \E r \in Requests : Declined(r) \/ Attested(r)
<1>1. UNCHANGED <<loaded, challenge>>
    BY RespondsOnce
<1>2. CASE \E r \in Requests : Panic(r)
    BY <1>1, <1>2, PanicIsSeen
<1>3. CASE \A q \in Requests : pc'[q] = "aborted" <=> pc[q] = "aborted"
    <2>1. CASE UNCHANGED responses
        BY <1>1, <1>3, <2>1, SeenFrame
    <2>2. ASSUME NEW r \in Requests, NEW status \in Statuses, pc[r] # "done",
                 Respond(r, status, {}) \/ (LoopEnds(r) /\ Respond(r, status, {TokenOf(r)}))
          PROVE  Declined(r) \/ Attested(r)
        <3>1. PICK token : /\ Respond(r, status, token)
                           /\ token = {} \/ (LoopEnds(r) /\ token = {TokenOf(r)})
            BY <2>2
        <3>2. pc'[r] = "done"
            BY <2>2, <3>1, FirstResponse
        <3>3. pc[r] \notin {"done", "aborted"}
            BY <1>3, <2>2, <3>2
        <3>4. QED
            BY <1>1, <3>1, <3>3, AnswerIsSeen
    <2>3. QED
        BY <1>1, <2>1, <2>2, RespondsOnce
<1>4. QED
    BY <1>2, <1>3, AbortsByPanic

LEMMA NextImplements ==
    TypeOK /\ HandlerInv /\ OneResponse /\ [Next]_vars => [Abstract!Next]_(Abstract!vars)
    BY NextIsSeen, StutterImplements, Declines, Attests

LEMMA InitImplements == Init => Abstract!Init
<1> SUFFICES ASSUME Init PROVE Abstract!Init
    OBVIOUS
<1> USE DEF Init
<1>1. [r \in Requests |-> challenge[r].nonce] \in [Requests -> ChallengeNonces]
    BY DEF ChallengeNonces
<1>2. ASSUME NEW r \in Requests PROVE Wanted(challenge[r]) \in SUBSET Names
    <2>1. challenge[r].selection.names \in Seq(Names)
        BY ChallengesAssumption DEF Challenge
    <2>2. Range(challenge[r].selection.names) \subseteq Names
        BY <2>1 DEF Range
    <2>3. QED
        BY <2>2, LoadedAssumption DEF Wanted
<1>3. \A r \in Requests : Outcome(r) = "open" /\ Received(r) = {}
    BY DEF Outcome, Received, Tokens
<1>4. QED
    BY <1>1, <1>2, <1>3 DEF Abstract!Init

\* The handler implements ChallengeResponse: whatever the plugins answer, hang or die,
\* and however the handlers interleave, a client sees one atomic answer to its request,
\* all the evidence made for its own nonce or none.
THEOREM HandlerImplementsChallengeResponse == Spec => ImplementsChallengeResponse
<1>1. Init => Abstract!Init
    BY InitImplements
<1>2. TypeOK /\ HandlerInv /\ OneResponse /\ [Next]_vars => [Abstract!Next]_(Abstract!vars)
    BY NextImplements
<1>3. QED
    BY <1>1, <1>2, TypeCorrect, HandlerInvariant, OneResponseTheorem, PTL
       DEF Spec, ImplementsChallengeResponse, Abstract!Spec

=============================================================================
