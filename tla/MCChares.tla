------------------------------ MODULE MCChares ------------------------------
(***************************************************************************)
(* Instances of Chares for TLC.  "cpu" and "tee" are ordinary attesters,   *)
(* "ghost" is a name no plugin has, "__cmwc_t" a key that the CMW library   *)
(* keeps for itself, "" the name of a plugin that gives none.              *)
(***************************************************************************)
EXTENDS CharesRefinement

NoOptions == [n \in Names |-> [parses |-> TRUE, type |-> {}]]
OptionFor(n, o) == [NoOptions EXCEPT ![n] = o]
Wants(type) == [parses |-> TRUE, type |-> {type}]

NoSelection == [given |-> FALSE, parses |-> TRUE, names |-> <<>>]
Selects(names) == [given |-> TRUE, parses |-> TRUE, names |-> names]

Plain == [charesJson |-> TRUE, accept |-> "v2", object |-> TRUE,
          nonce |-> [readable |-> TRUE, id |-> 1, len |-> 32],
          selection |-> NoSelection, options |-> NoOptions]

\* Requests that are turned down before a plugin is called, or stand at the
\* boundary of being so.
EdgeChallenges ==
    {[Plain EXCEPT !.charesJson = FALSE], [Plain EXCEPT !.accept = "none"],
     [Plain EXCEPT !.object = FALSE], [Plain EXCEPT !.nonce.readable = FALSE],
     [Plain EXCEPT !.selection = [given |-> TRUE, parses |-> FALSE, names |-> <<>>]]}
    \cup {[Plain EXCEPT !.nonce.len = n] : n \in {7, 8, 64, 65}}

RichSelections ==
    {NoSelection} \cup
    {Selects(s) : s \in {<<>>, <<"tee", "cpu">>, <<"cpu", "tee", "cpu">>, <<"tee", "ghost">>,
                         <<"__cmwc_t", "cpu">>, <<"cpu", "cpu", "tee", "cpu", "ghost">>,
                         <<"ghost", "tee", "cpu", "ghost", "tee">>}}

RichOptions ==
    {NoOptions, OptionFor("cpu", Wants("cbor")), OptionFor("tee", Wants("text")),
     OptionFor("tee", [parses |-> FALSE, type |-> {}])}

RichChallenges ==
    EdgeChallenges \cup
    {[Plain EXCEPT !.accept = a, !.selection = s, !.options = o] :
        a \in {"legacy", "v2"}, s \in RichSelections, o \in RichOptions}

RichNames == {"cpu", "tee", "ghost", "__cmwc_t", ""}
RichLoaded == {{}, {"cpu", "tee"}, {"cpu", "tee", "__cmwc_t"}, {"cpu", ""}}
RichTypes == {"json", "cbor", "text", ""}

F(type, size) == [type |-> type, size |-> size]
RichFormatLists == {<<>>, <<F("json", 64), F("cbor", 32), F("cbor", 16)>>,
                    <<F("json", 0)>>, <<F("", 32)>>}

\* Two requests with nonces of their own, one of which wants only "tee".
PairChallenges ==
    {[Plain EXCEPT !.accept = "legacy"],
     [Plain EXCEPT !.nonce.id = 2, !.selection = Selects(<<"tee", "tee", "cpu">>),
                   !.options = OptionFor("tee", Wants("cbor"))],
     [Plain EXCEPT !.nonce.id = 3, !.selection = Selects(<<"tee">>)]}
PairNames == {"cpu", "tee"}
PairLoaded == {{"cpu", "tee"}}
PairTypes == {"json", "cbor"}
PairFormatLists == {<<F("json", 64), F("cbor", 32)>>}

=============================================================================
