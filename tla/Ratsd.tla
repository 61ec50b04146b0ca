-------------------------------- MODULE Ratsd --------------------------------
(***************************************************************************)
(* The daemon: main makes the authoriser, loads the plugins and serves;    *)
(* each request goes by way of the gateway to one of the two handlers,     *)
(* which call the plugins that discovery launched.                         *)
(*                                                                         *)
(* The parts are instances over the variables below.  What the handlers    *)
(* see of the plugins is the loader's map and its processes: the plugin    *)
(* manager has no state of its own.                                        *)
(***************************************************************************)
EXTENDS Naturals, Sequences, FiniteSets, Functions

CONSTANTS
    Paths, MixedCase, Elsewhere, PluginNames,         \* see PluginLoader
    Configs,                                          \* the configurations of the loader
    AuthConfigs, UserNames, Fold, Passwords, Asked,   \* see Gateway
    Clients,                                          \* requests, of either operation
    Names, Challenges, ContentTypes, FormatLists, FailureCodes, CmwRefuses, \* see Chares
    OptionLists                                       \* see Subattesters

ASSUME PluginNamesAssumption == PluginNames \subseteq Names

VARIABLES cfg, stage, pluginChecksum, next, running, hung, loadedByName, skipped
loaderVars == <<cfg, stage, pluginChecksum, next, running, hung, loadedByName, skipped>>

VARIABLES authCfg, authorizer, users, request, gate, refusals
gatewayVars == <<authCfg, authorizer, users, request, gate, refusals>>

VARIABLES listOptions, stuck, challenge, pc, order, at, claims, collection, calls, responses
charesVars == <<listOptions, stuck, challenge, pc, order, at, claims, collection,
                calls, responses>>

\* The state of the list handlers; their stuck, pc and order.
VARIABLES listStuck, listPc, listOrder, list, answers
listVars == <<listStuck, listPc, listOrder, list, answers>>

vars == <<loaderVars, gatewayVars, charesVars, listVars>>

\* GetPluginList, and those of the list whose process runs.
LoadedNames == {n \in PluginNames : loadedByName[n] # {}}
AliveNames  == {n \in PluginNames : loadedByName[n] \cap running # {}}

Loader  == INSTANCE PluginLoader WITH Names <- PluginNames
Gate    == INSTANCE Gateway
Handler == INSTANCE CharesRefinement WITH Requests <- Clients, LoadedSets <- SUBSET PluginNames,
                                loaded <- LoadedNames, alive <- AliveNames
Lister  == INSTANCE Subattesters WITH Requests <- Clients, loaded <- LoadedNames,
                                      alive <- AliveNames, stuck <- listStuck,
                                      pc <- listPc, order <- listOrder

ASSUME PathsAssumption == Paths \in Seq(Range(Paths)) /\ IsInjective(Paths)
ASSUME MixedCaseAssumption == MixedCase \subseteq Range(Paths)
ASSUME NamesFinite == IsFiniteSet(Names)
ASSUME FoldAssumption == /\ Fold \in [UserNames -> UserNames]
                         /\ \A u \in UserNames : Fold[Fold[u]] = Fold[u]
ASSUME PasswordsAssumption == Passwords \cap ({"absent", "noHash"} \cup Gate!BadEntries) = {}
ASSUME AskedAssumption == Asked \subseteq Gate!Request
ASSUME AuthConfigsAssumption == AuthConfigs \subseteq Gate!AuthConfig
ASSUME ChallengesAssumption == Challenges \subseteq Handler!Challenge
ASSUME FormatsAssumption == FormatLists \subseteq Seq(Handler!Format)
ASSUME CodesAssumption == FailureCodes \subseteq Nat
ASSUME CmwAssumption == CmwRefuses \subseteq Names

-----------------------------------------------------------------------------
(* main *)

MakeAuthorizer ==
    /\ stage = "created"
    /\ Gate!NewAuthorizer
    /\ stage' = IF authorizer' = "failed" THEN "exited" ELSE stage
    /\ UNCHANGED <<cfg, pluginChecksum, next, running, hung, loadedByName, skipped>>
    /\ UNCHANGED <<charesVars, listVars>>

\* The file cannot be read, or a section does not load or does not validate.
ConfigFails ==
    /\ stage = "created"
    /\ Loader!Exit
    /\ UNCHANGED <<cfg, pluginChecksum, next, running, hung, loadedByName, skipped>>
    /\ UNCHANGED <<gatewayVars, charesVars, listVars>>

LoadPlugins ==
    /\ Gate!Ready
    /\ Loader!Start
    /\ UNCHANGED <<gatewayVars, charesVars, listVars>>

\* The listener fails.  Handlers that run end with the process.
StopServing ==
    /\ Loader!StopServing
    /\ UNCHANGED <<gatewayVars, charesVars, listVars>>

-----------------------------------------------------------------------------
(* Requests *)

\* Mutated form: the server is started before discovery has ended.
ServingEarly == stage \in {"discovering", "serving"}

\* Requests are read, and their goroutines run, from ListenAndServe on.
Serving == stage = "serving"

\* Mutated form: the authoriser is not put between the wrapper and the handler.
AdmittedOnceBound(r, operation) ==
    gate[r] \in {"bound", "handler"} /\ request[r].operation = operation

Admitted(r, operation) == gate[r] = "handler" /\ request[r].operation = operation

Approach(r) ==
    /\ Serving
    /\ Gate!Approach(r)
    /\ UNCHANGED <<loaderVars, charesVars, listVars>>

AnswerChallenge(r) ==
    /\ Serving
    /\ Admitted(r, "chares")
    /\ UNCHANGED <<loaderVars, gatewayVars, listVars>>
    /\ Handler!RejectRequest(r) \/ Handler!AcceptRequest(r) \/ Handler!Handle(r)

ListPlugins(r) ==
    /\ Serving
    /\ Admitted(r, "subattesters")
    /\ UNCHANGED <<loaderVars, gatewayVars, charesVars>>
    /\ Lister!Handle(r)

-----------------------------------------------------------------------------
(* Plugin processes *)

\* What a plugin was asked fails when its process dies.
Crash(f) ==
    /\ Loader!Crash(f)
    /\ stuck' = {r \in stuck : Handler!Target(r) \in AliveNames'}
    /\ listStuck' = {r \in listStuck : Lister!Target(r) \in AliveNames'}
    /\ UNCHANGED <<gatewayVars, listOptions, challenge, pc, order, at, claims, collection,
                   calls, responses, listPc, listOrder, list, answers>>

IdentificationHangs == Loader!Hang /\ UNCHANGED <<gatewayVars, charesVars, listVars>>

ChallengeHangs(r) ==
    /\ Serving
    /\ UNCHANGED <<loaderVars, gatewayVars, listVars>>
    /\ Handler!CallHangs(r)

ListHangs(r) ==
    /\ Serving
    /\ UNCHANGED <<loaderVars, gatewayVars, charesVars>>
    /\ Lister!CallHangs(r)

-----------------------------------------------------------------------------

\* A request without an Accept header is one for the default response.  A challenge
\* that cannot get to its handler, whatever the authoriser says, is as good as none.
Init ==
    /\ Loader!Init
    /\ cfg \in Configs
    /\ Gate!Init
    /\ Handler!Init
    /\ Lister!Init
    /\ \A r \in Clients :
         IF request[r].operation = "chares" /\ request[r].accepts <= 1
         THEN request[r].accepts = 0 => challenge[r].accept = "legacy"
         ELSE ~challenge[r].charesJson

Main == MakeAuthorizer \/ LoadPlugins
Serve(r) == Approach(r) \/ AnswerChallenge(r) \/ ListPlugins(r)

Next ==
    \/ Main \/ ConfigFails \/ StopServing \/ IdentificationHangs
    \/ \E r \in Clients : Serve(r) \/ ChallengeHangs(r) \/ ListHangs(r)
    \/ \E f \in Range(Paths) : Crash(f)

Spec == Init /\ [][Next]_vars

\* The goroutines of main and of the requests that have arrived run when they can.
FairSpec ==
    /\ Spec
    /\ WF_vars(Main)
    /\ \A r \in Clients : WF_vars(gate[r] # "new" /\ Serve(r))

-----------------------------------------------------------------------------
(* Properties *)

Arrived(r) == gate[r] # "new"

\* Nothing has been done for the request beyond the gateway.
Untouched(r) ==
    /\ pc[r] = "idle" /\ calls[r] = <<>> /\ responses[r] = <<>>
    /\ listPc[r] = "idle" /\ list[r] = <<>> /\ answers[r] = <<>>

\* What the administrator's configuration says of a request, whatever viper made of
\* it: there is no authorisation, or a user is listed, in some spelling of the name,
\* with the password that the request brings.
Authorised(r) ==
    \/ authCfg.backend \in {"absent", "none", "passthrough"}
    \/ /\ authCfg.backend = "basic"
       /\ \E c \in request[r].credentials : \E u \in UserNames :
            Fold[u] = c.user /\ authCfg.users[u] = c.password

\* No plugin is called for a request, and nothing is said of the plugins in answer to
\* it, unless the configuration authorises it; whatever else is wrong with it.
ServedIsAuthorised == \A r \in Clients : ~Untouched(r) => Authorised(r)

\* Router, wrapper, authoriser and the two handlers write at most one answer between
\* them, and none of them touches a request that another one has refused.
OneAnswer ==
    \A r \in Clients :
        /\ Len(refusals[r]) + Len(responses[r]) + Len(answers[r]) <= 1
        /\ refusals[r] # <<>> => Untouched(r)

\* A token for all attesters has evidence from every executable of the directory that
\* is a sub-attester, however late the client asked and whichever plugin died: else
\* the request fails.  Only a name that the CMW library refuses may be missing from a
\* legacy token.  And nothing in a token comes from an executable that was not
\* verified, when checksums are asked for.
TokenCoversDirectory ==
    \A r \in Clients : \A i \in DOMAIN responses[r] : \A t \in responses[r][i].token :
        /\ ~challenge[r].selection.given =>
             \A f \in Loader!Files \ skipped : \E n \in PluginNames :
                f \in loadedByName[n] /\ (t.collection[n] # {} \/ n \in CmwRefuses)
        /\ \A n \in Names : t.collection[n] # {} =>
             /\ n \in LoadedNames
             /\ Loader!Secure => \A f \in loadedByName[n] : pluginChecksum[f] = {"right"}

\* The list of sub-attesters names each executable of the directory that is one, once:
\* a plugin that died is on it too.  A name from the list stays good for a challenge.
ListIsComplete ==
    \A r \in Clients : \A i \in DOMAIN answers[r] :
        /\ \A f \in Loader!Files \ skipped :
             \E j \in DOMAIN answers[r][i] : f \in loadedByName[answers[r][i][j].name]
        /\ \A j \in DOMAIN answers[r][i] : answers[r][i][j].name \in LoadedNames
        /\ \A j, k \in DOMAIN answers[r][i] :
             j # k => answers[r][i][j].name # answers[r][i][k].name

\* From the first request on, what the request goroutines read with no lock, the map of
\* plugins and the users, is never written.
SharedMapsAreFixed ==
    [][(\E r \in Clients : Arrived(r)) =>
          /\ UNCHANGED loadedByName
          /\ UNCHANGED <<authorizer, users>>]_vars

\* The request has been answered, or its connection dropped by a panic; or it waits
\* for a plugin that never replies; or ratsd has exited.
Ended(r) ==
    \/ gate[r] = "refused"
    \/ pc[r] \in {"done", "aborted"} \/ listPc[r] = "done"
    \/ r \in stuck \cup listStuck
    \/ stage = "exited"

\* Each request that arrives ends, along either operation and at each gate; one that
\* waits for a plugin for ever does not keep the others from their answers, and the
\* death of that plugin ends it too.
EveryRequestEnds == \A r \in Clients : Arrived(r) ~> Ended(r)

=============================================================================
