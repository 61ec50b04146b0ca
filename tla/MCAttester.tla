------------------------------ MODULE MCAttester ------------------------------
(***************************************************************************)
(* Instance of Attester for TLC: two calls, to the same plugin or one to   *)
(* each, on platforms with and without certificates, a newline, a provider.*)
(***************************************************************************)
EXTENDS Attester

Well == [to |-> "tsm", nonce |-> [id |-> 1, len |-> 64], type |-> "cbor",
         parses |-> TRUE, level |-> "absent"]

SomeAsks ==
    {Well, [Well EXCEPT !.nonce.id = 2, !.type = "json", !.level = "one"],
     [Well EXCEPT !.nonce.len = 63], [Well EXCEPT !.nonce.len = 65],
     [Well EXCEPT !.type = "other"], [Well EXCEPT !.parses = FALSE],
     [Well EXCEPT !.level = "invalid"],
     [Well EXCEPT !.to = "mock", !.type = "json", !.level = "zero"],
     [Well EXCEPT !.to = "mock"]}

Named(name, newline) == {[name |-> name, newline |-> newline]}

SomePlatforms ==
    {[provider |-> p, certs |-> c] :
        p \in {{}, Named("sev_guest", FALSE), Named("sev_guest", TRUE), Named("tdx_guest", TRUE)},
        c \in BOOLEAN}

=============================================================================
