----------------------------- MODULE RatsdService -----------------------------
(***************************************************************************)
(* What ratsd promises to its administrator and its clients, with main,    *)
(* the gateway, the plugins and the steps of handlers left out: the        *)
(* sub-attesters are found before there is a request and stay what they    *)
(* are; only requests that are allowed are served; a challenge is answered *)
(* with all the evidence or with none, and a list names all there is.      *)
(***************************************************************************)
CONSTANTS
    Requests,  \* the requests
    Names,     \* attester names
    Nonces,    \* nonces
    Losable    \* names whose evidence a response may lack

VARIABLES
    attesters, \* the sub-attesters of the service
    allowed,   \* whether the administrator allows each request
    operation, \* what each request is for
    nonce,     \* the nonce of each request
    selected,  \* the set of attesters that it selects, if it does select
    outcome,   \* "unasked", "open" while it is served, then how it went
    evidence,  \* what the client got: attesters with the nonce they attested
    listed     \* the sub-attesters that the client was told of

questions == <<allowed, operation, nonce, selected>>
vars == <<attesters, questions, outcome, evidence, listed>>

Init ==
    /\ attesters = {}
    /\ allowed \in [Requests -> BOOLEAN]
    /\ operation \in [Requests -> {"chares", "subattesters", "other"}]
    /\ nonce \in [Requests -> Nonces]
    /\ selected \in [Requests -> {{}} \cup {{S} : S \in SUBSET Names}]
    /\ outcome = [r \in Requests |-> "unasked"]
    /\ evidence = [r \in Requests |-> {}]
    /\ listed = [r \in Requests |-> {}]

\* More sub-attesters are found, while nobody has asked.
Discover ==
    /\ \A r \in Requests : outcome[r] = "unasked"
    /\ attesters \subseteq attesters' /\ attesters' \subseteq Names
    /\ UNCHANGED <<questions, outcome, evidence, listed>>

Becomes(r, before, after) == outcome[r] = before /\ outcome' = [outcome EXCEPT ![r] = after]

\* The request is let in.
Admit(r) ==
    /\ Becomes(r, "unasked", "open")
    /\ allowed[r] /\ operation[r] # "other"
    /\ UNCHANGED <<attesters, questions, evidence, listed>>

Refuse(r) ==
    /\ Becomes(r, "unasked", "problem")
    /\ UNCHANGED <<attesters, questions, evidence, listed>>

Wanted(r) == IF selected[r] = {} THEN attesters ELSE UNION selected[r]

\* All of the evidence, at once.
Attest(r) ==
    /\ operation[r] = "chares"
    /\ Becomes(r, "open", "token")
    /\ \E lost \in SUBSET Losable :
         evidence' = [evidence EXCEPT ![r] =
            {[from |-> n, nonce |-> nonce[r]] : n \in Wanted(r) \ lost}]
    /\ UNCHANGED <<attesters, questions, listed>>

\* None of it.
Decline(r) ==
    /\ operation[r] = "chares"
    /\ \E o \in {"problem", "dropped"} : Becomes(r, "open", o)
    /\ UNCHANGED <<attesters, questions, evidence, listed>>

\* The sub-attesters, all of them.
Tell(r) ==
    /\ operation[r] = "subattesters"
    /\ Becomes(r, "open", "list")
    /\ listed' = [listed EXCEPT ![r] = attesters]
    /\ UNCHANGED <<attesters, questions, evidence>>

Next ==
    \/ Discover
    \/ \E r \in Requests : Admit(r) \/ Refuse(r) \/ Attest(r) \/ Decline(r) \/ Tell(r)

Spec == Init /\ [][Next]_vars

=============================================================================
