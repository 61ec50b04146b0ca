-------------------------- MODULE ChallengeResponse --------------------------
(***************************************************************************)
(* What ratsd promises for a challenge, with its plugins and its steps     *)
(* left out: a request is answered once, either with evidence from all the *)
(* attesters it asks for, each made for the nonce of this very challenge,  *)
(* or with no evidence at all.                                             *)
(***************************************************************************)
CONSTANTS
    Requests,  \* the requests
    Names,     \* attester names
    Nonces,    \* nonces
    Losable    \* names whose evidence a response may lack

VARIABLES
    nonce,     \* the nonce of each request
    wanted,    \* the attesters each request asks for
    outcome,   \* how it went: "open", "token", "problem" or "dropped"
    evidence   \* what the client got: attesters with the nonce they attested

vars == <<nonce, wanted, outcome, evidence>>

Init ==
    /\ nonce \in [Requests -> Nonces]
    /\ wanted \in [Requests -> SUBSET Names]
    /\ outcome = [r \in Requests |-> "open"]
    /\ evidence = [r \in Requests |-> {}]

\* All of the evidence, at once.
Attest(r) ==
    /\ outcome[r] = "open"
    /\ outcome' = [outcome EXCEPT ![r] = "token"]
    /\ \E lost \in SUBSET Losable :
         evidence' = [evidence EXCEPT ![r] =
            {[from |-> n, nonce |-> nonce[r]] : n \in wanted[r] \ lost}]
    /\ UNCHANGED <<nonce, wanted>>

\* None of it: an error response, or a connection that is dropped.
Decline(r) ==
    /\ outcome[r] = "open"
    /\ \E o \in {"problem", "dropped"} : outcome' = [outcome EXCEPT ![r] = o]
    /\ UNCHANGED <<nonce, wanted, evidence>>

Next == \E r \in Requests : Attest(r) \/ Decline(r)

Spec == Init /\ [][Next]_vars

=============================================================================
