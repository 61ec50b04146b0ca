---------------------------- MODULE MCTokenLegacy ----------------------------
(***************************************************************************)
(* Instances of TokenLegacy for TLC: the CMW value "c" is a collection,    *)
(* "odd" is one whose text does not decode, "none" cannot be encoded.      *)
(***************************************************************************)
EXTENDS TokenLegacy, TLC

Texts == [v \in CmwValues |-> CASE v = "c" -> {"Yw"} [] v = "odd" -> {"bw"} [] OTHER -> {}]
MapsAreAlike == Permutations(Maps)

Good == [profile |-> {LegacyProfile}, nonces |-> <<32>>, cmw |-> {"Yw"}, fn |-> {"shake-256"}]
SomeFields ==
    {Good, [Good EXCEPT !.profile = {}], [Good EXCEPT !.nonces = <<32, 65>>],
     [Good EXCEPT !.fn = {"md5"}]}

Sized(size) == {[n \in Names |-> IF n = "" THEN {} ELSE {size}]}
Others == {[fields |-> Good, sizes |-> Sized(48)], [fields |-> Good, sizes |-> {EmptyMap}],
           [fields |-> [Good EXCEPT !.nonces = <<32, 64>>], sizes |-> {}],
           [fields |-> [Good EXCEPT !.profile = {"v2"}], sizes |-> {}],
           [fields |-> [Good EXCEPT !.fn = {}], sizes |-> {EmptyMap}]}

=============================================================================
