----------------------------- MODULE Subattesters -----------------------------
(***************************************************************************)
(* The list of sub-attesters (api.Server.RatsdSubattesters): every plugin  *)
(* of the manager is asked for its options, one after the other, and the   *)
(* answer has an entry for each.  The status of GetOptions is not looked   *)
(* at: a plugin that fails is listed without options.                      *)
(*                                                                         *)
(* As in Chares, a step runs from the return of one gRPC call to the       *)
(* sending of the next, and a call that hangs is stuck.  The lookup of a   *)
(* name from the list cannot fail, since nothing is ever taken out of the  *)
(* manager's map; its early return is left out.                            *)
(***************************************************************************)
EXTENDS Naturals, Sequences, Functions, Selection

CONSTANTS
    Requests,     \* GET requests, one goroutine each
    Names,        \* attester names
    OptionLists   \* what plugins may answer to GetOptions

VARIABLES
    loaded,   \* names with a handle in the plugin manager
    alive,    \* plugins whose process runs
    stuck,    \* requests whose outstanding call never returns
    pc,       \* where each handler is
    order,    \* the plugin list, in the order of Go's range over the map
    list,     \* the entries so far
    answers   \* the lists that were written: none or one

plugins == <<loaded, alive>>
vars == <<plugins, stuck, pc, order, list, answers>>

NoOptions == <<>>
Entry == [name : Names, options : OptionLists \cup {NoOptions}]

Target(r) == order[r][Len(list[r]) + 1]
HasNext(r) == pc[r] = "next" /\ Len(list[r]) < Len(order[r])

Begin(r) ==
    /\ pc[r] = "idle"
    /\ pc' = [pc EXCEPT ![r] = "next"]
    /\ \E s \in Enumerations(loaded) : order' = [order EXCEPT ![r] = s]
    /\ UNCHANGED <<plugins, stuck, list, answers>>

\* Mutated form: a plugin is asked only while its process runs.
AskTheLiving(r) ==
    /\ HasNext(r)
    /\ Target(r) \in alive
    /\ pc' = [pc EXCEPT ![r] = "options"]
    /\ UNCHANGED <<plugins, stuck, order, list, answers>>

AskOptions(r) ==
    /\ HasNext(r)
    /\ pc' = [pc EXCEPT ![r] = "options"]
    /\ UNCHANGED <<plugins, stuck, order, list, answers>>

AddEntry(r, options) ==
    /\ list' = [list EXCEPT ![r] = Append(@, [name |-> Target(r), options |-> options])]
    /\ pc' = [pc EXCEPT ![r] = "next"]
    /\ UNCHANGED <<plugins, stuck, order, answers>>

CallReturns(r) == pc[r] = "options" /\ r \notin stuck /\ Target(r) \in alive

ListPlugin(r) ==
    /\ CallReturns(r)
    /\ \E options \in OptionLists : AddEntry(r, options)

\* Mutated form: the list ends at the plugin that fails.
EndAtFailure(r) ==
    /\ pc[r] = "options"
    /\ r \notin stuck
    /\ answers' = [answers EXCEPT ![r] = Append(@, list[r])]
    /\ pc' = [pc EXCEPT ![r] = "done"]
    /\ UNCHANGED <<plugins, stuck, order, list>>

\* The plugin says that it failed, or is dead and gRPC says so.
ListFailed(r) ==
    /\ pc[r] = "options"
    /\ r \notin stuck
    /\ AddEntry(r, NoOptions)

Answer(r) ==
    /\ pc[r] = "next"
    /\ Len(list[r]) = Len(order[r])
    /\ answers' = [answers EXCEPT ![r] = Append(@, list[r])]
    /\ pc' = [pc EXCEPT ![r] = "done"]
    /\ UNCHANGED <<plugins, stuck, order, list>>

\* The plugin never replies to GetOptions, which has no deadline.
CallHangs(r) ==
    /\ CallReturns(r)
    /\ stuck' = stuck \cup {r}
    /\ UNCHANGED <<plugins, pc, order, list, answers>>

Init ==
    /\ stuck = {}
    /\ pc = [r \in Requests |-> "idle"]
    /\ order = [r \in Requests |-> <<>>]
    /\ list = [r \in Requests |-> <<>>]
    /\ answers = [r \in Requests |-> <<>>]

Handle(r) ==
    \/ Begin(r)
    \/ AskOptions(r)
    \/ ListPlugin(r)
    \/ ListFailed(r)
    \/ Answer(r)

=============================================================================
