----------------------------- MODULE AcceptHeader -----------------------------
(***************************************************************************)
(* How a request chooses the format of its answer.  splitAcceptHeader cuts *)
(* the Accept header into media ranges, at the commas that are not in a    *)
(* quoted string (the profiles that ratsd knows have a comma in theirs),   *)
(* and negotiateCharesResponse takes the first range that it knows.        *)
(*                                                                         *)
(* A header is a sequence of runes.  mime.ParseMediaType and the           *)
(* comparison of its result with the two response types are the function   *)
(* Known, from the text of a range to what it asks for; a range that is    *)
(* not in its domain does not parse or asks for something else.  White     *)
(* space around a range is trimmed and is left out.                        *)
(***************************************************************************)
EXTENDS Naturals, Sequences

CONSTANTS
    Runes,       \* the runes of a header
    WellFormed,  \* media ranges with their quoted strings closed
    Offers,      \* what clients write: sequences of media ranges
    Known        \* what a range means: "legacy" (a range of all types too) or "v2"

ASSUME RunesAssumption == {"quote", "backslash", "comma"} \subseteq Runes
ASSUME OffersAssumption == Offers \subseteq Seq(Seq(Runes)) /\ WellFormed \subseteq Seq(Runes)
ASSUME KnownAssumption == Known \in [DOMAIN Known -> {"legacy", "v2"}]

\* Where each rune of a range leaves its reader, from outside of a quoted string: RFC
\* 9110 has an escape in quoted strings only, for any one rune.
After(mode, rune) ==
    IF mode = "escaped" THEN "quoted"
    ELSE IF rune = "quote" THEN IF mode = "plain" THEN "quoted" ELSE "plain"
    ELSE IF rune = "backslash" /\ mode = "quoted" THEN "escaped"
    ELSE mode

Follows(mode, range) ==
    /\ mode[0] = "plain"
    /\ \A j \in DOMAIN range : mode[j] = After(mode[j - 1], range[j])

\* Its commas are in quoted strings, and it ends outside of one.
IsClosed(mode, range) ==
    /\ \A j \in DOMAIN range : range[j] = "comma" => mode[j - 1] # "plain"
    /\ mode[Len(range)] = "plain"

Readings(range) ==
    {mode \in [0..Len(range) -> {"plain", "quoted", "escaped"}] :
        Follows(mode, range) /\ IsClosed(mode, range)}

ASSUME WellFormedAssumption == \A range \in WellFormed : Readings(range) # {}

VARIABLES
    offer,    \* the ranges as the client wrote them
    accept,   \* the header: the ranges with commas between them
    i,        \* the rune that the loop of splitAcceptHeader has come to
    start,    \* where the current range starts
    inQuotes, \* the loop is in a quoted string
    escaped,  \* the last rune was an escape
    values,   \* the ranges found so far
    k,        \* the range that negotiation has come to, 0 before it starts
    answer    \* "open", then the format, or "error" for a 406

vars == <<offer, accept, i, start, inQuotes, escaped, values, k, answer>>

\* The header up to the end of each of its ranges.
Joined(ranges) ==
    LET joined[n \in 0..Len(ranges)] ==
            IF n = 0 THEN <<>>
            ELSE IF n = 1 THEN ranges[1]
            ELSE joined[n - 1] \o <<"comma">> \o ranges[n]
    IN  joined

\* The header that carries the ranges.
Header(ranges) == Joined(ranges)[Len(ranges)]

-----------------------------------------------------------------------------
(* splitAcceptHeader, one rune at a time *)

Reads(rune) == answer = "open" /\ i <= Len(accept) /\ accept[i] = rune
Advance == i' = i + 1 /\ UNCHANGED <<offer, accept, k, answer>>

AfterEscape ==
    /\ \E rune \in Runes : Reads(rune)
    /\ escaped
    /\ escaped' = FALSE
    /\ Advance
    /\ UNCHANGED <<start, inQuotes, values>>

\* Mutated form: an escaped quote closes the string.
EscapeIgnored ==
    /\ Reads("backslash") /\ ~escaped /\ inQuotes
    /\ Advance
    /\ UNCHANGED <<start, inQuotes, escaped, values>>

Escape ==
    /\ Reads("backslash") /\ ~escaped /\ inQuotes
    /\ escaped' = TRUE
    /\ Advance
    /\ UNCHANGED <<start, inQuotes, values>>

Quote ==
    /\ Reads("quote") /\ ~escaped
    /\ inQuotes' = ~inQuotes
    /\ Advance
    /\ UNCHANGED <<start, escaped, values>>

Comma ==
    /\ Reads("comma") /\ ~escaped /\ ~inQuotes
    /\ values' = Append(values, SubSeq(accept, start, i - 1))
    /\ start' = i + 1
    /\ Advance
    /\ UNCHANGED <<inQuotes, escaped>>

OtherRune ==
    /\ \E rune \in Runes \ {"quote"} :
         /\ Reads(rune) /\ ~escaped
         /\ rune = "backslash" => ~inQuotes
         /\ rune = "comma" => inQuotes
    /\ Advance
    /\ UNCHANGED <<start, inQuotes, escaped, values>>

\* Mutated form: what is after the last comma is dropped.
DropRest ==
    /\ answer = "open" /\ k = 0 /\ accept # <<>> /\ i > Len(accept)
    /\ k' = 1
    /\ UNCHANGED <<offer, accept, i, start, inQuotes, escaped, values, answer>>

\* The loop is over: what is after the last comma is a range too.
LastRange ==
    /\ answer = "open" /\ k = 0 /\ accept # <<>> /\ i > Len(accept)
    /\ values' = Append(values, SubSeq(accept, start, Len(accept)))
    /\ k' = 1
    /\ UNCHANGED <<offer, accept, i, start, inQuotes, escaped, answer>>

-----------------------------------------------------------------------------
(* negotiateCharesResponse *)

Answer(a) == answer' = a /\ UNCHANGED <<offer, accept, i, start, inQuotes, escaped, values>>

\* There is no header, or nothing in it.
Default == answer = "open" /\ accept = <<>> /\ Answer("legacy") /\ UNCHANGED k

Negotiates == answer = "open" /\ k \in 1..Len(values)

TakeRange == Negotiates /\ values[k] \in DOMAIN Known /\ Answer(Known[values[k]]) /\ UNCHANGED k

\* Mutated form: a range that ratsd does not know ends the search.
GiveUpOnRange == Negotiates /\ values[k] \notin DOMAIN Known /\ Answer("error") /\ UNCHANGED k

PassRange == Negotiates /\ values[k] \notin DOMAIN Known /\ Answer("open") /\ k' = k + 1

NotAcceptable == answer = "open" /\ k > Len(values) /\ k > 0 /\ Answer("error") /\ UNCHANGED k

-----------------------------------------------------------------------------

Init ==
    /\ offer \in Offers
    /\ accept = Header(offer)
    /\ i = 1
    /\ start = 1
    /\ inQuotes = FALSE
    /\ escaped = FALSE
    /\ values = <<>>
    /\ k = 0
    /\ answer = "open"

Next ==
    \/ AfterEscape \/ Escape \/ Quote \/ Comma \/ OtherRune \/ LastRange
    \/ Default \/ TakeRange \/ PassRange \/ NotAcceptable

Spec == Init /\ [][Next]_vars

-----------------------------------------------------------------------------
(* Properties *)

\* Types of the state of the two loops.
TypeOK ==
    /\ offer \in Offers
    /\ accept \in Seq(Runes)
    /\ i \in 1..(Len(accept) + 1)
    /\ start \in 1..(Len(accept) + 1)
    /\ inQuotes \in BOOLEAN
    /\ escaped \in BOOLEAN
    /\ values \in Seq(Seq(Runes))
    /\ k \in 0..(Len(values) + 1)
    /\ answer \in {"open", "legacy", "v2", "error"}

\* Whatever the header is, no rune of it is lost or read twice: put together again,
\* the ranges and the rest give the header.
NothingIsLost ==
    Header(IF k = 0 THEN Append(values, SubSeq(accept, start, Len(accept))) ELSE values)
        = accept

AsWritten == accept # <<>> /\ \A n \in DOMAIN offer : offer[n] \in WellFormed

\* The header is cut where the client put its ranges together: a comma in a quoted
\* string, after an escaped quote or not, cuts nothing.
RangesAreRecovered == AsWritten /\ k > 0 => values = offer

\* The format that a header with these ranges asks for.
FirstKnown(ranges) ==
    LET known == {n \in DOMAIN ranges : ranges[n] \in DOMAIN Known}
    IN  IF known = {} THEN "error"
        ELSE Known[ranges[CHOOSE n \in known : \A m \in known : n <= m]]

\* The client gets the format of the first of its ranges that ratsd knows, and the
\* legacy format when it wrote none.
FirstKnownWins ==
    answer # "open" =>
        /\ AsWritten => answer = FirstKnown(offer)
        /\ accept = <<>> => answer = "legacy"

=============================================================================
