------------------------------- MODULE Plugin -------------------------------
(***************************************************************************)
(* What ratsd counts on when it calls GetEvidence of a sub-attester: each  *)
(* call is answered at most once; a call that makes no sense is refused as *)
(* the caller's fault, whatever state the platform is in; any other gets   *)
(* evidence for its own nonce, at its own privilege level and in the type  *)
(* it asks for, or is told that the platform failed.                       *)
(***************************************************************************)
CONSTANTS
    Calls,         \* GetEvidence calls
    Asks,          \* what a call may ask for
    MalformedAsks  \* those that make no sense

VARIABLES
    asks,       \* what each call asks for
    reply       \* "none", "refused", "failed", or the evidence, as what it is for

Init ==
    /\ asks \in [Calls -> Asks]
    /\ reply = [c \in Calls |-> [kind |-> "none"]]

Replies(c, r) ==
    /\ reply[c].kind = "none"
    /\ reply' = [reply EXCEPT ![c] = r]
    /\ UNCHANGED asks

Refuse(c) == asks[c] \in MalformedAsks /\ Replies(c, [kind |-> "refused"])
Fail(c)   == asks[c] \notin MalformedAsks /\ Replies(c, [kind |-> "failed"])
Attest(c) == asks[c] \notin MalformedAsks /\ Replies(c, [kind |-> "evidence", for |-> asks[c]])

Next == \E c \in Calls : Refuse(c) \/ Fail(c) \/ Attest(c)

Spec == Init /\ [][Next]_<<asks, reply>>

=============================================================================
