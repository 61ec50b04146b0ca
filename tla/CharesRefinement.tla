-------------------------- MODULE CharesRefinement --------------------------
(***************************************************************************)
(* The handler implements ChallengeResponse: many steps, calls and partial *)
(* results, of which a client sees one atomic answer.                      *)
(***************************************************************************)
EXTENDS Chares

Outcome(r) ==
    IF pc[r] = "aborted" THEN "dropped"
    ELSE IF responses[r] = <<>> THEN "open"
    ELSE IF Tokens(r) # {} THEN "token"
    ELSE "problem"

ChallengeNonces == {c.nonce : c \in Challenges}

\* The evidence in the tokens that r was answered with.
Received(r) ==
    {x \in [from : Names, nonce : ChallengeNonces] :
        \E t \in Tokens(r) : \E e \in t.collection[x.from] : e.call.nonce.of = x.nonce}

Abstract == INSTANCE ChallengeResponse WITH
    Nonces   <- ChallengeNonces,
    Losable  <- CmwRefuses,
    nonce    <- [r \in Requests |-> challenge[r].nonce],
    wanted   <- [r \in Requests |-> Wanted(challenge[r])],
    outcome  <- [r \in Requests |-> Outcome(r)],
    evidence <- [r \in Requests |-> Received(r)]

\* The steps of concurrent handlers amount to one atomic answer for each request:
\* all the evidence for its own nonce, or none.
ImplementsChallengeResponse == Abstract!Spec

=============================================================================
