---------------------------- MODULE MCAcceptHeader ----------------------------
(***************************************************************************)
(* Instance of AcceptHeader for TLC: up to three ranges, with and without  *)
(* quoted strings that hold commas, escaped quotes and escaped escapes,    *)
(* and one with a quote that is never closed.                              *)
(***************************************************************************)
EXTENDS AcceptHeader, SequencesExt, TLC

Plain == {"any", "eat", "cmw", "json", "tag", "2024", "2026"}
AllRunes == Plain \cup {"quote", "backslash", "comma"}

\* A quoted string that stands for the given runes.
Quoted(runes) ==
    <<"quote">>
      \o FoldLeft(LAMBDA s, rune :
                    IF rune \in {"quote", "backslash"} THEN s \o <<"backslash", rune>>
                    ELSE Append(s, rune), <<>>, runes)
      \o <<"quote">>

AnyRange == <<"any">>
Legacy   == <<"eat">> \o Quoted(<<"tag", "comma", "2024">>)
V2       == <<"cmw">> \o Quoted(<<"tag", "comma", "2026">>)

Closed ==
    {AnyRange, Legacy, V2, <<>>, <<"json">>, <<"json", "backslash">>,
     <<"cmw">> \o Quoted(<<"tag", "quote", "comma">>),
     <<"cmw">> \o Quoted(<<"comma", "backslash">>)}
Unclosed == {<<"eat", "quote">>}

UpToThree == BoundedSeq(Closed \cup Unclosed, 3)

Meanings == (AnyRange :> "legacy") @@ (Legacy :> "legacy") @@ (V2 :> "v2")

=============================================================================
