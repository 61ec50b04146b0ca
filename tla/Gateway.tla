------------------------------- MODULE Gateway -------------------------------
(***************************************************************************)
(* The way of a request to its handler.  The router picks the operation;   *)
(* the generated wrapper binds the Accept header; then the authoriser that *)
(* was made at start-up lets the request through or answers 401.           *)
(*                                                                         *)
(* viper folds the keys of the configuration to lower case, so a user is   *)
(* registered under the folded name, and of two users whose names fold to  *)
(* one either may be left.  bcrypt and the password files are external: a  *)
(* hash is the password it was made from.                                  *)
(***************************************************************************)
EXTENDS Naturals, Sequences

CONSTANTS
    Clients,      \* requests, one goroutine each
    Asked,        \* what requests may look like to the gateway
    AuthConfigs,  \* the "auth" section of the configuration
    UserNames,    \* names in the configuration and in requests
    Fold,         \* a name in lower case
    Passwords     \* passwords

Operations == {"chares", "subattesters", "other"}

\* credentials: of a Basic Authorization header, if there is one.
Request == [operation : Operations,
            accepts : Nat,
            credentials : SUBSET [user : UserNames, password : Passwords]]

\* What the configuration may say of a user: nothing, no map, a map without a
\* password, a password that is no string, a string that is no hash, or the hash of
\* a password.
BadEntries == {"noMap", "noPassword", "noString"}
Entries == {"absent", "noHash"} \cup BadEntries \cup Passwords

AuthConfig == [backend : {"absent", "none", "passthrough", "basic", "unknown"},
               users : [UserNames -> Entries]]

VARIABLES
    authCfg,     \* the configuration
    authorizer,  \* the kind of authoriser: "unset" before it is made, "failed"
    users,       \* BasicAuthorizer.users: the hash by name
    request,     \* what each request looks like
    gate,        \* where each request is on its way to the handler
    refusals     \* status codes that were written on the way

vars == <<authCfg, authorizer, users, request, gate, refusals>>

-----------------------------------------------------------------------------
(* NewAuthorizer *)

\* The entries of the users as viper gives them: one by each folded name.
Registered ==
    {m \in [UserNames -> Entries] : \A u \in UserNames :
        LET spelled == {authCfg.users[v] : v \in {w \in UserNames : Fold[w] = u}} \ {"absent"}
        IN  m[u] \in (IF spelled = {} THEN {"absent"} ELSE spelled)}

Basic == authCfg.backend = "basic"

AuthorizerFails ==
    /\ authorizer = "unset"
    /\ \/ authCfg.backend = "unknown"
       \/ Basic /\ \E m \in Registered : \E u \in UserNames : m[u] \in BadEntries
    /\ authorizer' = "failed"
    /\ UNCHANGED <<authCfg, users, request, gate, refusals>>

MakePassthrough ==
    /\ authorizer = "unset"
    /\ authCfg.backend \in {"absent", "none", "passthrough"}
    /\ authorizer' = "passthrough"
    /\ UNCHANGED <<authCfg, users, request, gate, refusals>>

MakeBasic ==
    /\ authorizer = "unset"
    /\ Basic
    /\ \E m \in Registered :
         /\ \A u \in UserNames : m[u] \notin BadEntries
         /\ users' = [u \in UserNames |-> IF m[u] = "absent" THEN {} ELSE {m[u]}]
    /\ authorizer' = "basic"
    /\ UNCHANGED <<authCfg, request, gate, refusals>>

-----------------------------------------------------------------------------
(* A request on its way *)

MoveTo(r, where) == gate' = [gate EXCEPT ![r] = where]
Refuse(r, status) ==
    /\ refusals' = [refusals EXCEPT ![r] = Append(@, status)]
    /\ MoveTo(r, "refused")

\* The router of net/http: no such path, or another method (its 405 goes as 404).
NotRouted(r) ==
    /\ gate[r] = "new"
    /\ request[r].operation = "other"
    /\ Refuse(r, 404)
    /\ UNCHANGED <<authCfg, authorizer, users, request>>

\* More than one Accept header: the wrapper's own 400, before the authoriser.  (A
\* single value is a string and always binds.)
TooManyValues(r) ==
    /\ gate[r] = "new"
    /\ request[r].operation = "chares"
    /\ request[r].accepts > 1
    /\ Refuse(r, 400)
    /\ UNCHANGED <<authCfg, authorizer, users, request>>

Bind(r) ==
    /\ gate[r] = "new"
    /\ \/ request[r].operation = "chares" /\ request[r].accepts <= 1
       \/ request[r].operation = "subattesters"
    /\ MoveTo(r, "bound")
    /\ UNCHANGED <<authCfg, authorizer, users, request, refusals>>

\* The password is the one of the user that is registered by this very name.
Matches(credentials) ==
    \E c \in credentials : c.password \in users[c.user]

\* Mutated form: the problem is reported and the request goes on.
UnauthorizedWithoutReturn(r) ==
    /\ gate[r] = "bound"
    /\ authorizer = "basic"
    /\ ~Matches(request[r].credentials)
    /\ refusals' = [refusals EXCEPT ![r] = Append(@, 401)]
    /\ MoveTo(r, "handler")
    /\ UNCHANGED <<authCfg, authorizer, users, request>>

\* No credentials, no such user, or not its password.
Unauthorized(r) ==
    /\ gate[r] = "bound"
    /\ authorizer = "basic"
    /\ ~Matches(request[r].credentials)
    /\ Refuse(r, 401)
    /\ UNCHANGED <<authCfg, authorizer, users, request>>

Pass(r) ==
    /\ gate[r] = "bound"
    /\ authorizer = "basic" => Matches(request[r].credentials)
    /\ MoveTo(r, "handler")
    /\ UNCHANGED <<authCfg, authorizer, users, request, refusals>>

-----------------------------------------------------------------------------

Init ==
    /\ authCfg \in AuthConfigs
    /\ authorizer = "unset"
    /\ users = [u \in UserNames |-> {}]
    /\ request \in [Clients -> Asked]
    /\ gate = [r \in Clients |-> "new"]
    /\ refusals = [r \in Clients |-> <<>>]

NewAuthorizer == AuthorizerFails \/ MakePassthrough \/ MakeBasic

Approach(r) ==
    \/ NotRouted(r)
    \/ TooManyValues(r)
    \/ Bind(r)
    \/ Unauthorized(r)
    \/ Pass(r)

Ready == authorizer \in {"passthrough", "basic"}

Next == NewAuthorizer \/ (Ready /\ \E r \in Clients : Approach(r))

Spec == Init /\ [][Next]_vars

=============================================================================
