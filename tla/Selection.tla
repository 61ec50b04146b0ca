------------------------------ MODULE Selection ------------------------------
(***************************************************************************)
(* The attesters that a request names in "attester-selection", as the      *)
(* handler queries them: without repetitions, in the order of the request. *)
(***************************************************************************)
EXTENDS Naturals, Sequences, FiniteSets, Functions

\* The ways to put the elements of a finite set in a sequence.
Enumerations(S) == Bijection(1..Cardinality(S), S)

FirstAt(names, n) ==
    CHOOSE i \in DOMAIN names :
        names[i] = n /\ \A j \in 1..(i - 1) : names[j] # n

\* attestersToQuery as the loop builds it: a name that was seen is not appended again.
Dedup(names) ==
    LET query[n \in 0..Len(names)] ==
            IF n = 0 THEN <<>>
            ELSE IF names[n] \in Range(query[n - 1]) THEN query[n - 1]
            ELSE Append(query[n - 1], names[n])
    IN  query[Len(names)]

\* Mutated form: a name selected twice is queried twice.
SelectionAsListed(names) == {names}

\* The selection without its repetitions (a set of one sequence).
SelectionOrders(names) ==
    {s \in Enumerations(Range(names)) :
        \A i, j \in DOMAIN s : i < j => FirstAt(names, s[i]) < FirstAt(names, s[j])}

=============================================================================
