------------------------------- MODULE MCRatsd -------------------------------
(***************************************************************************)
(* Instance of Ratsd for TLC: two requests of either operation, two        *)
(* executables, and configurations that are right, wrong or incomplete.    *)
(***************************************************************************)
EXTENDS RatsdRefinement

TwoPaths == <<"a.plugin", "b.plugin">>

Checked(a, b) ==
    [pluginDir |-> TRUE, secureLoader |-> TRUE, section |-> TRUE,
     entry |-> [f \in Range(TwoPaths) |-> IF f = "a.plugin" THEN a ELSE b]]

SomeConfigs == {Checked("right", "right"), Checked("right", "absent")}

Folded == [u \in {"Ann", "ann", "bob"} |-> IF u = "Ann" THEN "ann" ELSE u]

Users(mixed, lower) ==
    [u \in DOMAIN Folded |-> CASE u = "Ann" -> mixed [] u = "ann" -> lower [] OTHER -> "absent"]
Backend(name, mixed, lower) == [backend |-> name, users |-> Users(mixed, lower)]

SomeAuthConfigs ==
    {Backend("absent", "absent", "absent"), Backend("basic", "pw1", "pw2"),
     Backend("basic", "noString", "absent"), Backend("unknown", "absent", "absent")}

Ask(operation, accepts, credentials) ==
    [operation |-> operation, accepts |-> accepts, credentials |-> credentials]
By(user, password) == {[user |-> user, password |-> password]}

SomeAsked ==
    {Ask("chares", 1, By("ann", "pw1")), Ask("chares", 2, {}),
     Ask("subattesters", 0, By("bob", "pw2")), Ask("other", 0, {})}

Whole == [charesJson |-> TRUE, accept |-> "v2", object |-> TRUE,
          nonce |-> [readable |-> TRUE, id |-> 1, len |-> 32],
          selection |-> [given |-> FALSE, parses |-> TRUE, names |-> <<>>],
          options |-> [n \in Names |-> [parses |-> TRUE, type |-> {}]]]

NoBody == [Whole EXCEPT !.charesJson = FALSE]
One == [Whole EXCEPT !.accept = "legacy",
                       !.selection = [given |-> TRUE, parses |-> TRUE, names |-> <<"tee">>]]

SomeChallenges == {Whole, NoBody, One}

OneFormatList == {<<[type |-> "t", size |-> 32]>>}
Lists == {<<"privilege_level">>}

=============================================================================
