--------------------------- MODULE RatsdRefinement ---------------------------
(***************************************************************************)
(* The daemon implements RatsdService: start-up, gates, calls and partial  *)
(* results, of which a client sees one atomic answer.                      *)
(***************************************************************************)
EXTENDS Ratsd

\* A request is asked when it has got through to its handler.
Outcome(r) ==
    IF gate[r] = "refused" THEN "problem"
    ELSE IF gate[r] # "handler" THEN "unasked"
    ELSE IF answers[r] # <<>> THEN "list"
    ELSE Handler!Outcome(r)

\* The names on the list that it was answered with.
Told(r) ==
    UNION {{answers[r][i][j].name : j \in DOMAIN answers[r][i]} : i \in DOMAIN answers[r]}

Selected(r) ==
    IF challenge[r].selection.given THEN {Range(challenge[r].selection.names)} ELSE {}

Service == INSTANCE RatsdService WITH
    Requests  <- Clients,
    Nonces    <- Handler!ChallengeNonces,
    Losable   <- CmwRefuses,
    attesters <- LoadedNames,
    allowed   <- [r \in Clients |-> Authorised(r)],
    operation <- [r \in Clients |-> request[r].operation],
    nonce     <- [r \in Clients |-> challenge[r].nonce],
    selected  <- [r \in Clients |-> Selected(r)],
    outcome   <- [r \in Clients |-> Outcome(r)],
    evidence  <- [r \in Clients |-> Handler!Received(r)],
    listed    <- [r \in Clients |-> Told(r)]

\* From its start on, the daemon is the service that ratsd is to be: no request is
\* served that is not allowed, or before the directory was gone through; each has one
\* atomic answer; and nothing that happens to plugins shows but as a problem.
ImplementsService == Service!Spec

=============================================================================
