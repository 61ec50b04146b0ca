------------------------------ MODULE MCTokenV2 ------------------------------
(***************************************************************************)
(* Instances of TokenV2 for TLC.  "here" signs with the key of ratsd and   *)
(* "there" with the key of another encoder.                                *)
(***************************************************************************)
EXTENDS TokenV2

KeyAlgs == [k \in Keys |-> IF k = "here" THEN "EdDSA" ELSE "ES256"]

Good == [id |-> 1, len |-> 32]
SomeClaims == [DefaultClaims EXCEPT !.nonce = {Good}]
Only(n, x) == [m \in Names |-> IF m = n THEN {x} ELSE {}]
Sized(n, size) == Only(n, size)
Adjusted == [SomeClaims EXCEPT !.fn = {"shake-256"}, !.sizes = {Sized("tee", 32)}]

\* A Go string that is not UTF-8, and the text that is.
Bytes == "0xff"
Text == (Names \cup {"ratsd", "1.0.0", "report", "quote", ""}) \ {Bytes}
OtherText ==
    {[SomeClaims EXCEPT !.swname = Bytes], [SomeClaims EXCEPT !.swversion = Bytes]}
    \cup {[Adjusted EXCEPT !.sizes = {Sized(n, 32)}] : n \in Names \ Text}

\* Claims that lack something, or are at the boundary of being invalid.
OddClaims ==
    {SomeClaims, Adjusted,
     [SomeClaims EXCEPT !.profile = ""], [SomeClaims EXCEPT !.profile = "v1"],
     [SomeClaims EXCEPT !.oemid = 0], [SomeClaims EXCEPT !.oemid = -1],
     [SomeClaims EXCEPT !.swname = ""], [SomeClaims EXCEPT !.swversion = ""],
     [SomeClaims EXCEPT !.fn = {"md5"}], [SomeClaims EXCEPT !.sizes = {EmptyMap}],
     [Adjusted EXCEPT !.sizes = {EmptyMap}], [Adjusted EXCEPT !.sizes = {Sized("", 32)}]}
    \cup {[SomeClaims EXCEPT !.nonce = {[id |-> 1, len |-> l]}] : l \in {7, 8, 64, 65}}
    \cup OtherText

FewClaims == {Adjusted}

\* Claims with sizes, and a function or none.
SizedClaims == {Adjusted, [Adjusted EXCEPT !.fn = {}]}

OddNonces == {Good, [id |-> 2, len |-> 7]}

R(type, value) == [record |-> TRUE, cbor |-> TRUE, type |-> type, value |-> value]
Report == R("report", "1")
OddRecords == {Report, R("", "1"), R("report", "")}
FewRecords == {Report}
TextRecords == {Report, R(Bytes, "1")}

C(n, i) == [typed |-> TRUE, items |-> Only(n, i)]
OddCollections ==
    {C("tee", R("quote", "1")), C("__ratsd", Report), C("", Report),
     [typed |-> TRUE, items |-> EmptyMap], [C("tee", Report) EXCEPT !.typed = FALSE],
     C("tee", R(Bytes, "1")),
     C("tee", [Report EXCEPT !.record = FALSE]), C("tee", [Report EXCEPT !.cbor = FALSE])}

OneList == {<<"ca">>}
TwoLists == {<<"ca">>, <<"ca", "leaf">>}

\* A token of another encoder, with its signature, and what may be wrong with one.
Bare == [alg |-> {"ES256"}, chain |-> {},
         payload |-> [canonical |-> TRUE, typed |-> TRUE, claims |-> {Adjusted},
                      items |-> Only("tee", Report)]]
SignedThere(tbs) == [tbs |-> tbs, stray |-> FALSE,
                     sig |-> {[by |-> {"there"}, over |-> {tbs}]}]
ChainOf(array, certs) == {[array |-> array, certs |-> certs]}

Others ==
    {SignedThere(Bare),
     [SignedThere([Bare EXCEPT !.payload.items["tee"] = {R("report", "3")}]) EXCEPT !.stray = TRUE]}

OddOthers ==
    {[tbs |-> tbs, stray |-> FALSE, sig |-> {Placeholder}] :
        tbs \in {Bare, [Bare EXCEPT !.alg = {}],
                 [Bare EXCEPT !.chain = ChainOf(TRUE, <<"leaf">>)],
                 [Bare EXCEPT !.chain = ChainOf(FALSE, <<"leaf", "ca">>)],
                 [Bare EXCEPT !.chain = ChainOf(TRUE, <<"leaf", "ca", "leaf">>)],
                 [Bare EXCEPT !.payload.typed = FALSE],
                 [Bare EXCEPT !.payload.claims = {}],
                 [Bare EXCEPT !.payload.items = EmptyMap],
                 [Bare EXCEPT !.payload.items = Only("", Report)],
                 [Bare EXCEPT !.payload.items = Only("tee", R(Bytes, "1"))],
                 [Bare EXCEPT !.payload.items["tee"] = {[Report EXCEPT !.record = FALSE]}]}}
    \cup {[tbs |-> [Bare EXCEPT !.payload.claims = {c}], stray |-> FALSE, sig |-> {Placeholder}] :
             c \in OddClaims}
    \cup {[tbs |-> Bare, stray |-> FALSE, sig |-> {}]}

\* A genuine token whose encoder orders the claims in another way.
Uncanonical == {SignedThere([Bare EXCEPT !.payload.canonical = FALSE])}

=============================================================================
