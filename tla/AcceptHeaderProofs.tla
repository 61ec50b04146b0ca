-------------------------- MODULE AcceptHeaderProofs --------------------------
(***************************************************************************)
(* Theorems about the choice of the format: for headers of any length, what *)
(* the loop over the runes cuts out is what the client put together, and    *)
(* the loop over the ranges finds the first one that ratsd knows.           *)
(***************************************************************************)
EXTENDS AcceptHeader, Induction, SequenceTheorems

Text == Seq(Runes)

-----------------------------------------------------------------------------
(* Headers *)

LEMMA CommaIsText == <<"comma">> \in Text /\ Len(<<"comma">>) = 1 /\ <<"comma">>[1] = "comma"
    BY RunesAssumption DEF Text

LEMMA Regroup ==
    \A a, b, c \in Seq(Runes) : (a \o b) \o c = a \o (b \o c)
    BY ConcatAssociative

\* A text and a range after it, with a comma between them.
LEMMA Appended ==
    ASSUME NEW s \in Text, NEW t \in Text
    PROVE  /\ s \o <<"comma">> \o t \in Text
           /\ Len(s \o <<"comma">> \o t) = Len(s) + 1 + Len(t)
           /\ \A j \in 1..Len(s) : (s \o <<"comma">> \o t)[j] = s[j]
           /\ (s \o <<"comma">> \o t)[Len(s) + 1] = "comma"
           /\ \A j \in 1..Len(t) : (s \o <<"comma">> \o t)[Len(s) + 1 + j] = t[j]
<1> USE DEF Text
<1>1. s \o <<"comma">> \in Text /\ Len(s \o <<"comma">>) = Len(s) + 1
    BY CommaIsText
<1>2. \A j \in 1..(Len(s) + 1) : (s \o <<"comma">>)[j] = IF j <= Len(s) THEN s[j] ELSE "comma"
    BY CommaIsText
<1>3. Len(s) \in Nat /\ Len(t) \in Nat
    OBVIOUS
<1> DEFINE u == s \o <<"comma">>
<1>4. u \in Seq(Runes) /\ Len(u) = Len(s) + 1
    BY <1>1
<1>5. \A j \in 1..(Len(s) + 1) : u[j] = IF j <= Len(s) THEN s[j] ELSE "comma"
    BY <1>2
<1> HIDE DEF u
<1>6. /\ u \o t \in Seq(Runes)
      /\ Len(u \o t) = Len(u) + Len(t)
      /\ \A j \in 1..(Len(u) + Len(t)) : (u \o t)[j] = IF j <= Len(u) THEN u[j] ELSE t[j - Len(u)]
    BY <1>4
<1>7. \A j \in 1..Len(s) : (u \o t)[j] = s[j]
    BY <1>3, <1>4, <1>5, <1>6
<1>8. (u \o t)[Len(s) + 1] = "comma"
    BY <1>3, <1>4, <1>5, <1>6
<1>9. \A j \in 1..Len(t) : (u \o t)[Len(s) + 1 + j] = t[j]
    BY <1>3, <1>4, <1>6
<1>10. QED
    BY <1>3, <1>4, <1>6, <1>7, <1>8, <1>9 DEF u

\* Joined is what its recursive definition says.
LEMMA JoinedDef ==
    ASSUME NEW ranges \in Seq(Text)
    PROVE  /\ Joined(ranges) \in [0..Len(ranges) -> Text]
           /\ Joined(ranges)[0] = <<>>
           /\ Len(ranges) > 0 => Joined(ranges)[1] = ranges[1]
           /\ \A n \in 2..Len(ranges) :
                Joined(ranges)[n] = Joined(ranges)[n - 1] \o <<"comma">> \o ranges[n]
<1> DEFINE m == Len(ranges)
           Value(f, n) == IF n = 0 THEN <<>>
                          ELSE IF n = 1 THEN ranges[1]
                          ELSE f[n - 1] \o <<"comma">> \o ranges[n]
           Solves(f) == f = [n \in 0..m |-> Value(f, n)]
           step == [n \in 1..m |-> [s \in Text |->
                IF n = 1 THEN ranges[1] ELSE s \o <<"comma">> \o ranges[n]]]
<1>1. m \in Nat /\ <<>> \in Text /\ \A n \in 1..m : ranges[n] \in Text
    BY DEF Text
<1>2. step \in [1..m -> [Text -> Text]]
  <2>1. ASSUME NEW n \in 1..m, NEW s \in Text
        PROVE  (IF n = 1 THEN ranges[1] ELSE s \o <<"comma">> \o ranges[n]) \in Text
    BY <1>1, Appended
  <2>2. QED
    BY <2>1
<1>3. \E f \in [0..m -> Text] : f[0] = <<>> /\ \A n \in 1..m : f[n] = step[n][f[n - 1]]
  <2>1. m \in Nat /\ <<>> \in Text
    BY <1>1
  <2> HIDE DEF step, m
  <2>2. CanIterate(Text, <<>>, m, step)
    BY <1>2, <2>1, RecursionInSets
  <2>3. QED
    BY <2>2, Zenon DEF CanIterate
<1>4. PICK f \in [0..m -> Text] : f[0] = <<>> /\ \A n \in 1..m : f[n] = step[n][f[n - 1]]
    BY <1>3
<1>5. ASSUME NEW n \in 1..m
      PROVE  f[n] = IF n = 1 THEN ranges[1] ELSE f[n - 1] \o <<"comma">> \o ranges[n]
  <2>1. f[n - 1] \in Text
    BY <1>1, <1>4
  <2>2. QED
    BY <1>4, <2>1
<1>6. Solves(f)
  <2>1. \A n \in 0..m : n = 0 \/ n \in 1..m
    BY <1>1
  <2>2. \A n \in 0..m : f[n] = Value(f, n)
    BY <1>4, <1>5, <2>1
  <2>3. QED
    BY <1>4, <2>2
<1>7. Joined(ranges) = CHOOSE g : Solves(g)
    BY DEF Joined
<1> HIDE DEF Solves
<1>8. Solves(Joined(ranges))
    BY <1>6, <1>7
<1>9. \A n \in 0..m : Joined(ranges)[n] = Value(Joined(ranges), n)
  <2> HIDE DEF Value
  <2>1. QED
    BY <1>8 DEF Solves
<1>10. /\ Joined(ranges)[0] = <<>>
       /\ m > 0 => Joined(ranges)[1] = ranges[1]
       /\ \A n \in 2..m :
            Joined(ranges)[n] = Joined(ranges)[n - 1] \o <<"comma">> \o ranges[n]
  <2> HIDE DEF Value
  <2>1. Joined(ranges)[0] = Value(Joined(ranges), 0)
    BY <1>1, <1>9
  <2>2. m > 0 => Joined(ranges)[1] = Value(Joined(ranges), 1)
    BY <1>1, <1>9
  <2>3. \A n \in 2..m : Joined(ranges)[n] = Value(Joined(ranges), n)
    BY <1>1, <1>9
  <2>4. Joined(ranges)[0] = <<>>
    BY <2>1 DEF Value
  <2>5. m > 0 => Joined(ranges)[1] = ranges[1]
    BY <2>2 DEF Value
  <2>6. ASSUME NEW n \in 2..m
        PROVE  Joined(ranges)[n] = Joined(ranges)[n - 1] \o <<"comma">> \o ranges[n]
    <3>1. n # 0 /\ n # 1
      OBVIOUS
    <3>2. QED
      BY <2>3, <3>1, Zenon DEF Value
  <2>7. QED
    BY <2>4, <2>5, <2>6
<1> DEFINE T == {n \in Nat : n <= m => Joined(ranges)[n] \in Text}
<1>11. 0 \in T
    BY <1>1, <1>10
<1>12. ASSUME NEW n \in Nat, n \in T PROVE n + 1 \in T
  <2>1. ASSUME n + 1 <= m PROVE Joined(ranges)[n + 1] \in Text
    <3>1. CASE n = 0
      BY <1>1, <1>10, <2>1, <3>1
    <3>2. CASE n # 0
      <4>1. /\ Joined(ranges)[n] \in Text /\ ranges[n + 1] \in Text
            /\ Joined(ranges)[n + 1] = Joined(ranges)[n] \o <<"comma">> \o ranges[n + 1]
        <5> HIDE DEF m, T, Value, step
        <5>1. n + 1 \in 2..m /\ n + 1 \in 1..m /\ (n + 1) - 1 = n /\ n <= m
          BY <1>1, <2>1, <3>2
        <5>2. Joined(ranges)[n + 1]
                = Joined(ranges)[(n + 1) - 1] \o <<"comma">> \o ranges[n + 1]
          BY <1>10, <5>1, Zenon
        <5>3. ranges[n + 1] \in Text
          BY <1>1, <5>1, Zenon
        <5>4. Joined(ranges)[n] \in Text
          BY <1>12, <5>1, Zenon DEF T
        <5>5. QED
          BY <5>1, <5>2, <5>3, <5>4, Zenon
      <4>2. QED
        BY <4>1, Appended
    <3>3. QED
      BY <3>1, <3>2
  <2>2. QED
    BY <2>1
<1>13. \A n \in 0..m : Joined(ranges)[n] \in Text
  <2> HIDE DEF T
  <2>1. Nat \subseteq T
    BY <1>11, <1>12, InductionInSets
  <2>2. QED
    BY <1>1, <2>1 DEF T
<1>14. Joined(ranges) = [n \in 0..m |-> Joined(ranges)[n]]
    BY <1>8 DEF Solves
<1>15. Joined(ranges) \in [0..m -> Text]
    BY <1>13, <1>14
<1>16. QED
    BY <1>10, <1>15

\* A header does not change up to a range when there is one more after it.
LEMMA JoinedOfMore ==
    ASSUME NEW ranges \in Seq(Text), NEW t \in Text, NEW n \in 0..Len(ranges)
    PROVE  Joined(Append(ranges, t))[n] = Joined(ranges)[n]
<1> DEFINE more == Append(ranges, t)
<1>1. /\ more \in Seq(Text) /\ Len(more) = Len(ranges) + 1 /\ Len(ranges) \in Nat
      /\ \A j \in 1..Len(ranges) : more[j] = ranges[j]
    OBVIOUS
<1> HIDE DEF more
<1> DEFINE T == {j \in Nat : j <= Len(ranges) => Joined(more)[j] = Joined(ranges)[j]}
<1>2. 0 \in T
    BY <1>1, JoinedDef
<1>3. ASSUME NEW j \in Nat, j \in T PROVE j + 1 \in T
  <2>1. ASSUME j + 1 <= Len(ranges) PROVE Joined(more)[j + 1] = Joined(ranges)[j + 1]
    <3>1. CASE j = 0
      <4>1. Joined(more)[1] = more[1] /\ Joined(ranges)[1] = ranges[1]
        <5>1. Len(more) > 0 /\ Len(ranges) > 0
          BY <1>1, <2>1, <3>1
        <5>2. (Len(more) > 0 => Joined(more)[1] = more[1])
              /\ (Len(ranges) > 0 => Joined(ranges)[1] = ranges[1])
          BY <1>1, JoinedDef
        <5>3. QED
          BY <5>1, <5>2
      <4>2. QED
        BY <1>1, <2>1, <3>1, <4>1
    <3>2. CASE j # 0
      <4>1. j + 1 \in 2..Len(ranges) /\ j + 1 \in 2..Len(more) /\ (j + 1) - 1 = j
        BY <1>1, <2>1, <3>2
      <4>2. /\ Joined(more)[j + 1] = Joined(more)[j] \o <<"comma">> \o more[j + 1]
            /\ Joined(ranges)[j + 1] = Joined(ranges)[j] \o <<"comma">> \o ranges[j + 1]
        <5>1. \A i_ \in 2..Len(more) :
                Joined(more)[i_] = Joined(more)[i_ - 1] \o <<"comma">> \o more[i_]
          BY <1>1, JoinedDef
        <5>2. \A i_ \in 2..Len(ranges) :
                Joined(ranges)[i_] = Joined(ranges)[i_ - 1] \o <<"comma">> \o ranges[i_]
          BY JoinedDef
        <5>3. QED
          BY <4>1, <5>1, <5>2
      <4>3. Joined(more)[j] = Joined(ranges)[j] /\ more[j + 1] = ranges[j + 1]
        BY <1>1, <1>3, <2>1
      <4>4. QED
        BY <4>2, <4>3, Zenon
    <3>3. QED
      BY <3>1, <3>2
  <2>2. QED
    BY <2>1
<1> HIDE DEF T
<1>4. Nat \subseteq T
    BY <1>2, <1>3, InductionInSets
<1>5. QED
    BY <1>1, <1>4 DEF T, more

LEMMA HeaderOfOne ==
    ASSUME NEW t \in Text
    PROVE  Header(<<t>>) = t
<1>1. <<t>> \in Seq(Text) /\ Len(<<t>>) = 1 /\ <<t>>[1] = t
    OBVIOUS
<1>2. Len(<<t>>) > 0 => Joined(<<t>>)[1] = <<t>>[1]
    BY <1>1, JoinedDef, Zenon
<1>3. QED
    BY <1>1, <1>2 DEF Header

LEMMA HeaderOfMore ==
    ASSUME NEW ranges \in Seq(Text), ranges # <<>>, NEW t \in Text
    PROVE  Header(Append(ranges, t)) = Header(ranges) \o <<"comma">> \o t
<1> DEFINE more == Append(ranges, t)
<1>1. /\ more \in Seq(Text) /\ Len(more) = Len(ranges) + 1 /\ more[Len(more)] = t
      /\ Len(ranges) \in Nat /\ Len(ranges) > 0
    OBVIOUS
<1>2. Joined(more)[Len(ranges)] = Joined(ranges)[Len(ranges)]
    BY <1>1, JoinedOfMore
<1> HIDE DEF more
<1>3. Joined(more)[Len(more)] = Joined(more)[Len(more) - 1] \o <<"comma">> \o more[Len(more)]
  <2>1. Len(more) \in 2..Len(more)
    BY <1>1
  <2>2. QED
    BY <1>1, <2>1, JoinedDef
<1>4. Len(more) - 1 = Len(ranges)
    BY <1>1
<1>5. Header(more) = Header(ranges) \o <<"comma">> \o t
    BY <1>1, <1>2, <1>3, <1>4 DEF Header
<1>6. QED
    BY <1>5 DEF more

LEMMA HeaderIsText ==
    ASSUME NEW ranges \in Seq(Text)
    PROVE  Header(ranges) \in Text
<1>1. Len(ranges) \in 0..Len(ranges)
    OBVIOUS
<1>2. Joined(ranges) \in [0..Len(ranges) -> Text]
    BY JoinedDef
<1>3. QED
    BY <1>1, <1>2 DEF Header

-----------------------------------------------------------------------------
(* The loop over the runes *)

\* The loop is over before negotiation starts, and reads the header that the client sent.
LoopInv ==
    /\ start <= i
    /\ k > 0 => i > Len(accept) /\ accept # <<>>
    /\ answer # "open" => k > 0 \/ accept = <<>>
    /\ accept = Header(offer)

LEMMA OffersAreTexts == Offers \subseteq Seq(Text)
    BY OffersAssumption DEF Text

LEMMA InitTypeOK == Init => TypeOK /\ LoopInv
<1> SUFFICES ASSUME Init PROVE TypeOK /\ LoopInv
    OBVIOUS
<1>1. accept \in Seq(Runes)
  <2>1. offer \in Seq(Text)
    BY OffersAreTexts DEF Init
  <2>2. QED
    BY <2>1, HeaderIsText DEF Init, Text
<1>2. Len(accept) \in Nat
    BY <1>1
<1>3. <<>> \in Seq(Seq(Runes)) /\ Len(<<>>) = 0
    OBVIOUS
<1>4. LoopInv
    BY DEF Init, LoopInv
<1>5. values \in Seq(Seq(Runes)) /\ k \in 0..(Len(values) + 1)
    BY <1>3 DEF Init
<1>6. i \in 1..(Len(accept) + 1) /\ start \in 1..(Len(accept) + 1)
    BY <1>2 DEF Init
<1>7. TypeOK
    BY <1>1, <1>5, <1>6 DEF Init, TypeOK
<1>8. QED
    BY <1>4, <1>7

\* A piece of the header is a range.
LEMMA PieceIsText ==
    ASSUME accept \in Text, NEW m \in Nat \ {0}, NEW n \in 0..Len(accept)
    PROVE  SubSeq(accept, m, n) \in Text
    BY DEF Text

\* What one more range makes of the ranges.
LEMMA OneMore ==
    ASSUME NEW S, NEW s \in Seq(S), NEW x \in S
    PROVE  /\ Append(s, x) \in Seq(S)
           /\ Len(Append(s, x)) = Len(s) + 1
           /\ Len(s) \in Nat
           /\ \A j \in 1..Len(s) : Append(s, x)[j] = s[j]
           /\ Append(s, x)[Len(s) + 1] = x
    OBVIOUS

\* The runes between commas, read one by one.
WithinRange == AfterEscape \/ Escape \/ Quote \/ OtherRune

LEMMA WithinRangeStep ==
    ASSUME WithinRange
    PROVE  /\ answer = "open" /\ i <= Len(accept) /\ i' = i + 1
           /\ UNCHANGED <<offer, accept, start, values, k, answer>>
    BY DEF WithinRange, AfterEscape, Escape, Quote, OtherRune, Reads, Advance

Negotiation == Default \/ TakeRange \/ PassRange \/ NotAcceptable

LEMMA NextTypeOK == TypeOK /\ LoopInv /\ [Next]_vars => TypeOK' /\ LoopInv'
<1> SUFFICES ASSUME TypeOK, LoopInv, [Next]_vars PROVE TypeOK' /\ LoopInv'
    OBVIOUS
<1>1. /\ Len(accept) \in Nat /\ i \in Nat /\ start \in Nat /\ accept \in Text
      /\ values \in Seq(Text) /\ Len(values) \in Nat /\ k \in Nat
    BY DEF TypeOK, Text
<1>2. CASE WithinRange
  <2>1. inQuotes' \in BOOLEAN /\ escaped' \in BOOLEAN
    BY <1>2, Zenon DEF TypeOK, WithinRange, AfterEscape, Escape, Quote, OtherRune
  <2>2. QED
    BY <1>1, <1>2, <2>1, WithinRangeStep DEF TypeOK, LoopInv
<1>3. CASE Comma
  <2>1. /\ answer = "open" /\ i <= Len(accept) /\ i' = i + 1 /\ start' = i + 1
        /\ values' = Append(values, SubSeq(accept, start, i - 1))
        /\ UNCHANGED <<offer, accept, inQuotes, escaped, k, answer>>
    BY <1>3 DEF Comma, Reads, Advance
  <2>2. SubSeq(accept, start, i - 1) \in Text
    BY <1>1, <2>1, PieceIsText DEF TypeOK
  <2>3. values' \in Seq(Text) /\ Len(values') = Len(values) + 1
    BY <1>1, <2>1, <2>2, OneMore
  <2>4. QED
    BY <1>1, <2>1, <2>3 DEF TypeOK, LoopInv, Text
<1>4. CASE LastRange
  <2>1. /\ answer = "open" /\ i > Len(accept) /\ k' = 1 /\ accept # <<>>
        /\ values' = Append(values, SubSeq(accept, start, Len(accept)))
        /\ UNCHANGED <<offer, accept, i, start, inQuotes, escaped, answer>>
    BY <1>4 DEF LastRange
  <2>2. SubSeq(accept, start, Len(accept)) \in Text
    BY <1>1, PieceIsText DEF TypeOK
  <2>3. values' \in Seq(Text) /\ Len(values') = Len(values) + 1
    BY <1>1, <2>1, <2>2, OneMore
  <2>4. QED
    BY <1>1, <2>1, <2>3 DEF TypeOK, LoopInv, Text
<1>5. CASE Negotiation
  <2>1. /\ UNCHANGED <<offer, accept, i, start, inQuotes, escaped, values>>
        /\ k' = k \/ (k \in 1..Len(values) /\ k' = k + 1)
        /\ answer' = "open" \/ k > 0 \/ accept = <<>>
    BY <1>5 DEF Negotiation, Default, TakeRange, PassRange, NotAcceptable, Negotiates, Answer
  <2>2. answer' \in {"open", "legacy", "v2", "error"}
    BY <1>5, KnownAssumption
       DEF TypeOK, Negotiation, Default, TakeRange, PassRange, NotAcceptable, Negotiates, Answer
  <2>3. QED
    BY <1>1, <2>1, <2>2 DEF TypeOK, LoopInv
<1>6. CASE UNCHANGED vars
    BY <1>6 DEF vars, TypeOK, LoopInv
<1>7. QED
    BY <1>2, <1>3, <1>4, <1>5, <1>6 DEF Next, WithinRange, Negotiation

\* The types of the two loops: the index and the start of a range are in the header, or
\* just after it, and the range that negotiation looks at is one of those found, or just
\* after them.
THEOREM TypeCorrect == Spec => []TypeOK
<1>1. QED
    BY InitTypeOK, NextTypeOK, PTL DEF Spec

-----------------------------------------------------------------------------
(* Nothing is lost *)

\* The ranges found so far, and the rest as one more.
Pieces == IF k = 0 THEN Append(values, SubSeq(accept, start, Len(accept))) ELSE values

\* Cutting the last range of a header at a comma does not change the header.
LEMMA Cut ==
    ASSUME NEW ranges \in Seq(Text), NEW t \in Text, NEW u \in Text
    PROVE  Header(Append(Append(ranges, t), u)) = Header(Append(ranges, t \o <<"comma">> \o u))
<1> DEFINE tu == t \o <<"comma">> \o u
<1>1. tu \in Text
    BY Appended
<1>2. Append(ranges, t) \in Seq(Text) /\ Append(ranges, t) # <<>>
  <2>1. Append(ranges, t) \in Seq(Text) /\ Len(Append(ranges, t)) = Len(ranges) + 1
    BY OneMore
  <2>2. Len(ranges) \in Nat /\ Len(<<>>) = 0
    OBVIOUS
  <2>3. QED
    BY <2>1, <2>2
<1>3. Header(Append(Append(ranges, t), u)) = Header(Append(ranges, t)) \o <<"comma">> \o u
    BY <1>2, HeaderOfMore
<1>4. CASE ranges = <<>>
  <2>1. Append(ranges, t) = <<t>>
    BY <1>4
  <2>2. Append(ranges, tu) = <<tu>>
    BY <1>4
  <2> HIDE DEF tu
  <2>3. Header(<<t>>) = t /\ Header(<<tu>>) = tu
    BY <1>1, HeaderOfOne
  <2> USE DEF tu
  <2>4. QED
    BY <1>3, <2>1, <2>2, <2>3, Zenon
<1>5. CASE ranges # <<>>
  <2> DEFINE h == Header(ranges)
  <2>1. h \in Text
    BY HeaderIsText
  <2>2. Header(Append(ranges, t)) = h \o <<"comma">> \o t
    BY <1>5, HeaderOfMore
  <2>3. Header(Append(ranges, tu)) = h \o <<"comma">> \o tu
    <3> HIDE DEF tu
    <3>1. QED
      BY <1>1, <1>5, HeaderOfMore
  <2> HIDE DEF h
  <2>4. h \o <<"comma">> \o t \o <<"comma">> \o u = h \o <<"comma">> \o tu
    <3> DEFINE c == <<"comma">>
               hc == h \o c
               tc == t \o c
    <3>1. c \in Seq(Runes) /\ hc \in Seq(Runes) /\ tc \in Seq(Runes)
      BY <2>1, CommaIsText DEF Text
    <3>2. hc \o tc = (hc \o t) \o c
      <4> HIDE DEF c, hc
      <4>1. t \in Seq(Runes)
        BY DEF Text
      <4>2. (hc \o t) \o c = hc \o (t \o c)
        BY <3>1, <4>1, Regroup, Zenon
      <4>3. QED
        BY <4>2
    <3>3. (hc \o tc) \o u = hc \o (tc \o u)
      <4> HIDE DEF c, hc, tc
      <4>1. u \in Seq(Runes)
        BY DEF Text
      <4>2. QED
        BY <3>1, <4>1, Regroup, Zenon
    <3>4. ((hc \o t) \o c) \o u = hc \o (tc \o u)
      <4> HIDE DEF c, hc, tc
      <4>1. QED
        BY <3>2, <3>3
    <3>5. QED
      BY <3>4
  <2>5. QED
    BY <1>3, <2>2, <2>3, <2>4, Zenon
<1>6. QED
    BY <1>4, <1>5

\* The rest of the header from a comma on.
LEMMA RestAtComma ==
    ASSUME accept \in Text, NEW m \in Nat \ {0}, NEW n \in m..Len(accept), accept[n] = "comma"
    PROVE  SubSeq(accept, m, Len(accept))
             = SubSeq(accept, m, n - 1) \o <<"comma">> \o SubSeq(accept, n + 1, Len(accept))
<1> DEFINE t == SubSeq(accept, m, n - 1)
           u == SubSeq(accept, n + 1, Len(accept))
           w == SubSeq(accept, m, Len(accept))
<1>1. Len(accept) \in Nat
    BY DEF Text
<1>2. /\ t \in Text /\ Len(t) = n - m
      /\ \A j \in 1..(n - m) : t[j] = accept[m + j - 1]
    BY <1>1 DEF Text
<1>3. /\ u \in Text /\ Len(u) = Len(accept) - n
      /\ \A j \in 1..(Len(accept) - n) : u[j] = accept[n + j]
    BY <1>1 DEF Text
<1>4. /\ w \in Text /\ Len(w) = Len(accept) - m + 1
      /\ \A j \in 1..(Len(accept) - m + 1) : w[j] = accept[m + j - 1]
    BY <1>1 DEF Text
<1> HIDE DEF t, u, w
<1> DEFINE x == t \o <<"comma">> \o u
<1>5. /\ x \in Text /\ Len(x) = Len(t) + 1 + Len(u)
      /\ \A j \in 1..Len(t) : x[j] = t[j]
      /\ x[Len(t) + 1] = "comma"
      /\ \A j \in 1..Len(u) : x[Len(t) + 1 + j] = u[j]
    BY <1>2, <1>3, Appended
<1> HIDE DEF x
<1>6. ASSUME NEW j \in 1..(Len(accept) - m + 1) PROVE x[j] = accept[m + j - 1]
  <2>1. CASE j <= n - m
    BY <1>1, <1>2, <1>5, <2>1
  <2>2. CASE j = n - m + 1
    BY <1>1, <1>2, <1>5, <2>2
  <2>3. CASE j > n - m + 1
    <3>1. PICK l \in 1..(Len(accept) - n) : l = j - (n - m + 1)
      BY <1>1, <2>3
    <3>2. x[Len(t) + 1 + l] = u[l] /\ u[l] = accept[n + l]
      BY <1>3, <1>5, <3>1
    <3>3. Len(t) + 1 + l = j /\ n + l = m + j - 1
      BY <1>1, <1>2, <3>1
    <3>4. QED
      BY <3>2, <3>3
  <2>4. QED
    BY <1>1, <2>1, <2>2, <2>3
<1>7. x = w
  <2>1. Len(x) = Len(w)
    BY <1>1, <1>2, <1>3, <1>4, <1>5
  <2>2. \A j \in 1..Len(w) : x[j] = w[j]
    BY <1>1, <1>4, <1>6
  <2>3. x \in Seq(Runes) /\ w \in Seq(Runes)
    BY <1>4, <1>5 DEF Text
  <2>4. QED
    BY <2>1, <2>2, <2>3, SeqEqual
<1>8. QED
    BY <1>7 DEF t, u, w, x

LEMMA InitNothingIsLost == Init => NothingIsLost
<1> SUFFICES ASSUME Init PROVE NothingIsLost
    OBVIOUS
<1>1. accept \in Text
    BY InitTypeOK DEF TypeOK, Text
<1>2. SubSeq(accept, 1, Len(accept)) = accept
    BY <1>1 DEF Text
<1>3. Append(<<>>, accept) = <<accept>>
    BY <1>1
<1>4. Header(<<accept>>) = accept
    BY <1>1, HeaderOfOne
<1>5. QED
    BY <1>2, <1>3, <1>4 DEF Init, NothingIsLost

LEMMA NextNothingIsLost ==
    TypeOK /\ LoopInv /\ NothingIsLost /\ [Next]_vars => NothingIsLost'
<1> SUFFICES ASSUME TypeOK, LoopInv, NothingIsLost, [Next]_vars PROVE Header(Pieces') = accept'
    BY DEF NothingIsLost, Pieces
<1>1. Header(Pieces) = accept
    BY DEF NothingIsLost, Pieces
<1>2. /\ Len(accept) \in Nat /\ i \in Nat \ {0} /\ start \in Nat \ {0} /\ accept \in Text
      /\ values \in Seq(Text) /\ k \in Nat
    BY DEF TypeOK, Text
<1>3. CASE WithinRange
    BY <1>1, <1>3, WithinRangeStep DEF Pieces
<1>4. CASE Comma
  <2>1. /\ i \in start..Len(accept) /\ accept[i] = "comma" /\ k = 0
        /\ values' = Append(values, SubSeq(accept, start, i - 1))
        /\ start' = i + 1 /\ accept' = accept /\ k' = k
    BY <1>2, <1>4 DEF Comma, Reads, Advance, LoopInv
  <2> DEFINE t == SubSeq(accept, start, i - 1)
             u == SubSeq(accept, i + 1, Len(accept))
  <2>2. t \in Text /\ u \in Text
    BY <1>2, <2>1, PieceIsText
  <2>3. SubSeq(accept, start, Len(accept)) = t \o <<"comma">> \o u
    BY <1>2, <2>1, RestAtComma
  <2>4. Pieces = Append(values, t \o <<"comma">> \o u)
    BY <2>1, <2>3 DEF Pieces
  <2>5. Pieces' = Append(Append(values, t), u)
    BY <2>1 DEF Pieces
  <2> HIDE DEF t, u
  <2>6. QED
    BY <1>1, <1>2, <2>1, <2>2, <2>4, <2>5, Cut
<1>5. CASE LastRange
    BY <1>1, <1>5 DEF LastRange, Pieces
<1>6. CASE Negotiation
  <2>1. /\ UNCHANGED <<accept, start, values>>
        /\ k' = k \/ (k # 0 /\ k' # 0)
    BY <1>2, <1>6 DEF Negotiation, Default, TakeRange, PassRange, NotAcceptable, Negotiates, Answer
  <2>2. QED
    BY <1>1, <2>1 DEF Pieces
<1>7. CASE UNCHANGED vars
    BY <1>1, <1>7 DEF vars, Pieces
<1>8. QED
    BY <1>3, <1>4, <1>5, <1>6, <1>7 DEF Next, WithinRange, Negotiation

\* For every header, one with a quoted string that is never closed too: what
\* splitAcceptHeader has cut out, and the rest, are the header again.
THEOREM NothingIsLostTheorem == Spec => []NothingIsLost
<1>1. QED
    BY InitTypeOK, NextTypeOK, InitNothingIsLost, NextNothingIsLost, PTL DEF Spec

-----------------------------------------------------------------------------
(* The ranges of the client *)

\* The header begins with the text.
Begins(s, t) == Len(s) <= Len(t) /\ \A j \in 1..Len(s) : t[j] = s[j]

\* Where in its header a range ends, and where it begins (after the rune of that index).
End(ranges, n) == Len(Joined(ranges)[n])
Begin(ranges, n) == End(ranges, n) - Len(ranges[n])

LEMMA JoinedIsText ==
    ASSUME NEW ranges \in Seq(Text), NEW n \in 0..Len(ranges)
    PROVE  Joined(ranges)[n] \in Text /\ End(ranges, n) \in Nat
<1>1. Joined(ranges)[n] \in Text
    BY JoinedDef
<1>2. QED
    BY <1>1 DEF Text, End

\* Each range comes after a comma and the ranges before it.
LEMMA NextRange ==
    ASSUME NEW ranges \in Seq(Text), NEW n \in 1..Len(ranges), n < Len(ranges)
    PROVE  /\ Begins(Joined(ranges)[n], Joined(ranges)[n + 1])
           /\ Joined(ranges)[n + 1][End(ranges, n) + 1] = "comma"
           /\ End(ranges, n) + 1 <= End(ranges, n + 1)
           /\ Begin(ranges, n + 1) = End(ranges, n) + 1
           /\ \A j \in 1..Len(ranges[n + 1]) :
                Joined(ranges)[n + 1][Begin(ranges, n + 1) + j] = ranges[n + 1][j]
<1> DEFINE s == Joined(ranges)[n]
           t == ranges[n + 1]
           st == s \o <<"comma">> \o t
<1>1. n + 1 \in 2..Len(ranges) /\ (n + 1) - 1 = n
    OBVIOUS
<1>2. Joined(ranges)[n + 1] = st
  <2>1. \A l \in 2..Len(ranges) :
            Joined(ranges)[l] = Joined(ranges)[l - 1] \o <<"comma">> \o ranges[l]
    BY JoinedDef
  <2>2. QED
    BY <1>1, <2>1
<1>3. s \in Text /\ t \in Text
    BY JoinedIsText
<1>4. Len(s) \in Nat /\ Len(t) \in Nat /\ End(ranges, n) = Len(s)
    BY <1>3 DEF Text, End
<1>5. /\ Len(st) = Len(s) + 1 + Len(t)
      /\ \A j \in 1..Len(s) : st[j] = s[j]
      /\ st[Len(s) + 1] = "comma"
      /\ \A j \in 1..Len(t) : st[Len(s) + 1 + j] = t[j]
  <2> HIDE DEF s, t
  <2>1. QED
    BY <1>3, Appended
<1>6. End(ranges, n + 1) = Len(st) /\ Begin(ranges, n + 1) = Len(st) - Len(t)
    BY <1>2 DEF End, Begin
<1> HIDE DEF st
<1>7. Begin(ranges, n + 1) = Len(s) + 1 /\ Len(s) + 1 <= Len(st)
  <2> HIDE DEF s, t
  <2>1. QED
    BY <1>4, <1>5, <1>6
<1>8. Begins(s, st)
  <2> HIDE DEF s, t
  <2>1. QED
    BY <1>4, <1>5, <1>7 DEF Begins
<1>9. \A j \in 1..Len(t) : st[Begin(ranges, n + 1) + j] = t[j]
  <2> HIDE DEF s, t
  <2>1. QED
    BY <1>4, <1>5, <1>7
<1>10. st[End(ranges, n) + 1] = "comma"
  <2> HIDE DEF s, t
  <2>1. QED
    BY <1>4, <1>5
<1>11. QED
    BY <1>2, <1>4, <1>6, <1>7, <1>8, <1>9, <1>10, Zenon

LEMMA FirstRange ==
    ASSUME NEW ranges \in Seq(Text), Len(ranges) > 0
    PROVE  /\ Joined(ranges)[1] = ranges[1]
           /\ Begin(ranges, 1) = 0
<1>1. Joined(ranges)[1] = ranges[1]
    BY JoinedDef
<1>2. Len(ranges[1]) \in Nat
    BY DEF Text
<1>3. QED
    BY <1>1, <1>2 DEF Begin, End

\* A range is in its place, at the end of the header up to it.
LEMMA RangeInJoined ==
    ASSUME NEW ranges \in Seq(Text), NEW n \in 1..Len(ranges)
    PROVE  /\ Begin(ranges, n) \in Nat
           /\ End(ranges, n) = Begin(ranges, n) + Len(ranges[n])
           /\ \A j \in 1..Len(ranges[n]) :
                Joined(ranges)[n][Begin(ranges, n) + j] = ranges[n][j]
<1>1. Len(ranges[n]) \in Nat /\ End(ranges, n) \in Nat
    BY JoinedIsText DEF Text
<1>2. End(ranges, n) = Begin(ranges, n) + Len(ranges[n])
    BY <1>1 DEF Begin
<1>3. CASE n = 1
  <2>1. Begin(ranges, 1) = 0 /\ Joined(ranges)[1] = ranges[1]
    BY FirstRange
  <2>2. QED
    BY <1>1, <1>2, <1>3, <2>1
<1>4. CASE n # 1
  <2>1. PICK l \in 1..Len(ranges) : l + 1 = n /\ l < Len(ranges)
    BY <1>4
  <2>2. End(ranges, l) \in Nat
    BY JoinedIsText
  <2>3. /\ Begin(ranges, n) = End(ranges, l) + 1
        /\ \A j \in 1..Len(ranges[n]) :
             Joined(ranges)[n][Begin(ranges, n) + j] = ranges[n][j]
    BY <2>1, NextRange
  <2>4. QED
    BY <1>2, <2>2, <2>3
<1>5. QED
    BY <1>3, <1>4

\* A header begins with the header up to any of its ranges.
LEMMA HeaderBegins ==
    ASSUME NEW ranges \in Seq(Text), NEW n \in 1..Len(ranges)
    PROVE  Begins(Joined(ranges)[n], Header(ranges))
<1> DEFINE T == {d \in Nat : n + d <= Len(ranges) =>
                               Begins(Joined(ranges)[n], Joined(ranges)[n + d])}
<1>1. 0 \in T
    BY JoinedIsText DEF Begins, End
<1>2. ASSUME NEW d \in Nat, d \in T PROVE d + 1 \in T
  <2>1. ASSUME n + (d + 1) <= Len(ranges)
        PROVE  Begins(Joined(ranges)[n], Joined(ranges)[n + (d + 1)])
    <3>1. PICK l \in 1..Len(ranges) : l = n + d /\ l < Len(ranges) /\ l + 1 = n + (d + 1)
      BY <2>1
    <3>2. Begins(Joined(ranges)[n], Joined(ranges)[l])
      BY <1>2, <3>1
    <3>3. Begins(Joined(ranges)[l], Joined(ranges)[l + 1])
      BY <3>1, NextRange
    <3>4. /\ Len(Joined(ranges)[n]) \in Nat /\ Len(Joined(ranges)[l]) \in Nat
          /\ Len(Joined(ranges)[l + 1]) \in Nat
      BY <3>1, JoinedIsText DEF End
    <3>5. Begins(Joined(ranges)[n], Joined(ranges)[l + 1])
      BY <3>2, <3>3, <3>4 DEF Begins
    <3>6. QED
      BY <3>1, <3>5
  <2>2. QED
    BY <2>1
<1>3. PICK d \in Nat : n + d = Len(ranges)
    BY Len(ranges) - n \in Nat
<1> HIDE DEF T
<1>4. d \in T
    BY <1>1, <1>2, InductionInSets
<1>5. QED
    BY <1>3, <1>4 DEF T, Header

-----------------------------------------------------------------------------
(* The ranges are recovered *)

\* The loop is in the range of the client that comes after those found so far: it
\* started where that range does, has not come further than its end, and has read its
\* quoted strings as the client did.
Recovering ==
    LET n == Len(values) + 1
    IN  /\ n <= Len(offer)
        /\ \A l \in 1..Len(values) : values[l] = offer[l]
        /\ start = Begin(offer, n) + 1
        /\ i <= End(offer, n) + 1
        /\ \E mode \in Readings(offer[n]) :
             /\ inQuotes = (mode[i - start] # "plain")
             /\ escaped = (mode[i - start] = "escaped")

RangesInv ==
    AsWritten => IF k = 0 THEN Recovering ELSE values = offer

RecoverInv == TypeOK /\ LoopInv /\ RangesInv

LEMMA InitRangesInv == Init => RangesInv
<1> SUFFICES ASSUME Init, AsWritten PROVE Recovering
    BY DEF Init, RangesInv
<1>1. offer \in Seq(Text) /\ accept = Header(offer)
    BY OffersAreTexts DEF Init
<1>2. Len(offer) > 0
  <2>1. ASSUME Len(offer) = 0 PROVE FALSE
    <3>1. Header(offer) = <<>>
      BY <1>1, <2>1, JoinedDef DEF Header
    <3>2. QED
      BY <1>1, <3>1 DEF AsWritten
  <2>2. QED
    BY <1>1, <2>1
<1>3. Len(values) = 0 /\ Begin(offer, 1) = 0 /\ End(offer, 1) \in Nat
    BY <1>1, <1>2, FirstRange, JoinedIsText DEF Init
<1>4. PICK mode \in Readings(offer[1]) : TRUE
    BY <1>1, <1>2, WellFormedAssumption DEF AsWritten
<1>5. mode[0] = "plain"
    BY <1>4 DEF Readings, Follows
<1>6. i - start = 0
    BY DEF Init
<1>7. inQuotes = (mode[i - start] # "plain") /\ escaped = (mode[i - start] = "escaped")
    BY <1>5, <1>6 DEF Init
<1>8. QED
    BY <1>1, <1>2, <1>3, <1>4, <1>7 DEF Init, Recovering

\* Where the range is in the header that the loop reads.
LEMMA RangeInHeader ==
    ASSUME RecoverInv, AsWritten, k = 0, NEW n, n = Len(values) + 1
    PROVE  /\ n \in 1..Len(offer) /\ offer \in Seq(Text) /\ offer[n] \in Text
           /\ Len(offer[n]) \in Nat /\ Begin(offer, n) \in Nat
           /\ End(offer, n) = Begin(offer, n) + Len(offer[n])
           /\ End(offer, n) <= Len(accept)
           /\ \A j \in 1..Len(offer[n]) : accept[Begin(offer, n) + j] = offer[n][j]
<1>1. n \in 1..Len(offer) /\ offer \in Seq(Text)
    BY OffersAreTexts DEF RecoverInv, RangesInv, Recovering, TypeOK
<1>2. accept = Header(offer)
    BY DEF RecoverInv, LoopInv
<1>3. offer[n] \in Text /\ Len(offer[n]) \in Nat
    BY <1>1 DEF Text
<1>4. /\ Begin(offer, n) \in Nat
      /\ End(offer, n) = Begin(offer, n) + Len(offer[n])
      /\ \A j \in 1..Len(offer[n]) : Joined(offer)[n][Begin(offer, n) + j] = offer[n][j]
    BY <1>1, RangeInJoined
<1>5. Begins(Joined(offer)[n], accept)
    BY <1>1, <1>2, HeaderBegins
<1>6. /\ End(offer, n) <= Len(accept)
      /\ \A j \in 1..End(offer, n) : accept[j] = Joined(offer)[n][j]
    BY <1>5 DEF Begins, End
<1>7. ASSUME NEW j \in 1..Len(offer[n])
      PROVE  accept[Begin(offer, n) + j] = offer[n][j]
  <2>1. Begin(offer, n) + j \in 1..End(offer, n)
    BY <1>3, <1>4
  <2>2. QED
    BY <1>4, <1>6, <2>1
<1>8. QED
    BY <1>1, <1>3, <1>4, <1>6, <1>7

\* After the range there is a comma and another one, or the end of the header.
LEMMA AfterRange ==
    ASSUME RecoverInv, AsWritten, k = 0, NEW n, n = Len(values) + 1
    PROVE  \/ n = Len(offer) /\ End(offer, n) = Len(accept)
           \/ /\ n < Len(offer) /\ End(offer, n) < Len(accept)
              /\ accept[End(offer, n) + 1] = "comma"
              /\ Begin(offer, n + 1) = End(offer, n) + 1
              /\ End(offer, n + 1) \in Nat
              /\ Begin(offer, n + 1) <= End(offer, n + 1)
<1>1. n \in 1..Len(offer) /\ offer \in Seq(Text) /\ accept = Header(offer)
    BY RangeInHeader DEF RecoverInv, LoopInv
<1>2. CASE n = Len(offer)
    BY <1>2, <1>1 DEF Header, End
<1>3. CASE n # Len(offer)
  <2>1. n < Len(offer) /\ n + 1 \in 1..Len(offer)
    BY <1>1, <1>3
  <2>2. /\ Joined(offer)[n + 1][End(offer, n) + 1] = "comma"
        /\ End(offer, n) + 1 <= End(offer, n + 1)
        /\ Begin(offer, n + 1) = End(offer, n) + 1
    BY <1>1, <2>1, NextRange
  <2>3. Begins(Joined(offer)[n + 1], accept)
    BY <1>1, <2>1, HeaderBegins
  <2>4. /\ End(offer, n + 1) \in Nat /\ End(offer, n) \in Nat /\ Len(accept) \in Nat
    BY <1>1, <2>1, JoinedIsText DEF RecoverInv, TypeOK
  <2>5. /\ End(offer, n + 1) <= Len(accept)
        /\ \A j \in 1..End(offer, n + 1) : accept[j] = Joined(offer)[n + 1][j]
    BY <2>3 DEF Begins, End
  <2>6. QED
    BY <2>1, <2>2, <2>4, <2>5
<1>4. QED
    BY <1>2, <1>3

\* A step between commas stays in the range, and reads a quoted string as the client did.
LEMMA WithinRangeRecovers ==
    ASSUME RecoverInv, AsWritten, k = 0, WithinRange
    PROVE  Recovering'
<1> DEFINE n == Len(values) + 1
<1>1. /\ i \in Nat /\ start \in Nat /\ Len(accept) \in Nat /\ start <= i
      /\ inQuotes \in BOOLEAN /\ escaped \in BOOLEAN
    BY DEF RecoverInv, TypeOK, LoopInv
<1>2. PICK mode \in Readings(offer[n]) :
        /\ inQuotes = (mode[i - start] # "plain")
        /\ escaped = (mode[i - start] = "escaped")
    BY DEF RecoverInv, RangesInv, Recovering
<1>3. start = Begin(offer, n) + 1 /\ i <= End(offer, n) + 1
    BY DEF RecoverInv, RangesInv, Recovering
<1>4. /\ offer[n] \in Text /\ Len(offer[n]) \in Nat /\ Begin(offer, n) \in Nat
      /\ End(offer, n) = Begin(offer, n) + Len(offer[n])
      /\ \A j \in 1..Len(offer[n]) : accept[Begin(offer, n) + j] = offer[n][j]
    BY RangeInHeader
<1>5. /\ i <= Len(accept) /\ i' = i + 1
      /\ UNCHANGED <<offer, accept, start, values>>
    BY WithinRangeStep
<1>6. /\ mode \in [0..Len(offer[n]) -> {"plain", "quoted", "escaped"}]
      /\ mode[Len(offer[n])] = "plain"
      /\ \A j \in 1..Len(offer[n]) : mode[j] = After(mode[j - 1], offer[n][j])
  <2>1. /\ mode \in [0..Len(offer[n]) -> {"plain", "quoted", "escaped"}]
        /\ Follows(mode, offer[n]) /\ IsClosed(mode, offer[n])
    BY <1>2, Zenon DEF Readings
  <2>2. DOMAIN offer[n] = 1..Len(offer[n])
    BY <1>4 DEF Text
  <2>3. QED
    BY <2>1, <2>2, Zenon DEF Follows, IsClosed
<1>7. i # End(offer, n) + 1
  <2> SUFFICES ASSUME i = End(offer, n) + 1 PROVE FALSE
    OBVIOUS
  <2>1. accept[i] = "comma"
    BY <1>1, <1>5, AfterRange
  <2>2. mode[i - start] = "plain"
    BY <1>3, <1>4, <1>6
  <2>3. ~inQuotes /\ ~escaped
    BY <1>2, <2>2
  <2>4. QED
    BY <2>1, <2>3 DEF WithinRange, AfterEscape, Escape, Quote, OtherRune, Reads
<1> DEFINE j == i' - start
<1>8. /\ j \in 1..Len(offer[n]) /\ j - 1 = i - start
      /\ accept[i] = offer[n][j] /\ i' <= End(offer, n) + 1
  <2> HIDE DEF n
  <2>1. j = i - Begin(offer, n) /\ j \in 1..Len(offer[n]) /\ j - 1 = i - start
    <3>1. /\ Len(offer[n]) \in Nat /\ Begin(offer, n) \in Nat
          /\ End(offer, n) = Begin(offer, n) + Len(offer[n])
      BY <1>4
    <3>2. i \in Nat /\ start \in Nat /\ start <= i
      BY <1>1
    <3>3. start = Begin(offer, n) + 1 /\ i < End(offer, n) + 1
      BY <1>3, <1>7, <3>1, <3>2
    <3>4. i' = i + 1 /\ start' = start
      BY <1>5
    <3>5. QED
      BY <3>1, <3>2, <3>3, <3>4
  <2>2. Begin(offer, n) + j = i
    BY <1>1, <1>4, <2>1
  <2>3. accept[i] = offer[n][j]
    <3> HIDE DEF j
    <3>1. QED
      BY <1>4, <2>1, <2>2
  <2>4. i' <= End(offer, n) + 1
    <3> HIDE DEF j
    <3>1. End(offer, n) \in Nat
      BY <1>4
    <3>2. i \in Nat /\ i <= End(offer, n) + 1 /\ i # End(offer, n) + 1 /\ i' = i + 1
      BY <1>1, <1>3, <1>5, <1>7
    <3>3. QED
      BY <3>1, <3>2
  <2>5. QED
    BY <2>1, <2>3, <2>4
<1>9. mode[j] = After(mode[i - start], accept[i])
    BY <1>6, <1>8
<1>10. mode[i - start] \in {"plain", "quoted", "escaped"}
    BY <1>6, <1>8
<1>11. /\ inQuotes' = (mode[j] # "plain")
       /\ escaped' = (mode[j] = "escaped")
  <2> HIDE DEF j, n
  <2>1. CASE AfterEscape
    BY <1>1, <1>2, <1>9, <1>10, <2>1 DEF AfterEscape, After
  <2>2. CASE Escape
    BY <1>1, <1>2, <1>9, <1>10, <2>2 DEF Escape, Reads, After
  <2>3. CASE Quote
    BY <1>1, <1>2, <1>9, <1>10, <2>3 DEF Quote, Reads, After
  <2>4. CASE OtherRune
    BY <1>1, <1>2, <1>9, <1>10, <2>4 DEF OtherRune, Reads, After
  <2>5. QED
    BY <2>1, <2>2, <2>3, <2>4 DEF WithinRange
<1>12. QED
    BY <1>2, <1>3, <1>5, <1>8, <1>11 DEF RecoverInv, RangesInv, Recovering, Begin, End

\* The piece of the header that is cut is the range.
LEMMA PieceIsRange ==
    ASSUME RecoverInv, AsWritten, k = 0, NEW n, n = Len(values) + 1
    PROVE  SubSeq(accept, start, End(offer, n)) = offer[n]
<1> DEFINE t == SubSeq(accept, start, End(offer, n))
<1>1. start = Begin(offer, n) + 1
    BY DEF RecoverInv, RangesInv, Recovering
<1>2. /\ offer[n] \in Text /\ Len(offer[n]) \in Nat /\ Begin(offer, n) \in Nat
      /\ End(offer, n) = Begin(offer, n) + Len(offer[n])
      /\ End(offer, n) <= Len(accept)
      /\ \A j \in 1..Len(offer[n]) : accept[Begin(offer, n) + j] = offer[n][j]
    BY RangeInHeader
<1>3. accept \in Seq(Runes) /\ Len(accept) \in Nat
    BY DEF RecoverInv, TypeOK
<1>4. /\ t \in Seq(Runes)
      /\ Len(t) = Len(offer[n])
      /\ \A j \in 1..Len(offer[n]) : t[j] = accept[Begin(offer, n) + j]
  <2> DEFINE b == Begin(offer, n)
             e == End(offer, n)
             l == Len(offer[n])
  <2>1. b \in Nat /\ l \in Nat /\ e = b + l /\ e <= Len(accept) /\ start = b + 1
    BY <1>1, <1>2
  <2>2. t = SubSeq(accept, b + 1, e)
    BY <2>1
  <2> HIDE DEF b, e, l, t
  <2>3. \A j \in (b + 1)..e : accept[j] \in Runes
    BY <1>3, <2>1
  <2>4. /\ t \in Seq(Runes)
        /\ Len(t) = IF b + 1 <= e THEN e - (b + 1) + 1 ELSE 0
        /\ \A j \in 1..(e - (b + 1) + 1) : t[j] = accept[b + 1 + j - 1]
    <3>1. b + 1 \in Int /\ e \in Int
      BY <2>1
    <3>2. /\ SubSeq(accept, b + 1, e) \in Seq(Runes)
          /\ Len(SubSeq(accept, b + 1, e)) = IF b + 1 <= e THEN e - (b + 1) + 1 ELSE 0
          /\ \A j \in 1..(e - (b + 1) + 1) :
                SubSeq(accept, b + 1, e)[j] = accept[b + 1 + j - 1]
      BY <2>3, <3>1, SubSeqProperties
    <3>3. QED
      BY <2>2, <3>2, Zenon
  <2>5. Len(t) = l
    BY <2>1, <2>4
  <2>6. \A j \in 1..l : t[j] = accept[b + j]
    <3>1. e - (b + 1) + 1 = l
      BY <2>1
    <3>2. \A j \in 1..l : b + 1 + j - 1 = b + j
      BY <2>1
    <3>3. QED
      BY <2>4, <3>1, <3>2
  <2>7. QED
    BY <2>4, <2>5, <2>6 DEF b, l
<1> HIDE DEF t
<1>5. \A j \in 1..Len(t) : t[j] = offer[n][j]
    BY <1>2, <1>4
<1>6. t = offer[n]
    BY <1>2, <1>4, <1>5, SeqEqual DEF Text
<1>7. QED
    BY <1>6 DEF t

\* A comma that is read outside of a quoted string is the end of a range.
LEMMA CommaRecovers ==
    ASSUME RecoverInv, AsWritten, k = 0, Comma
    PROVE  Recovering'
<1> DEFINE n == Len(values) + 1
<1>1. /\ i \in Nat /\ start \in Nat /\ Len(accept) \in Nat /\ start <= i
      /\ values \in Seq(Text) /\ Len(values) \in Nat
    BY DEF RecoverInv, TypeOK, LoopInv, Text
<1>2. PICK mode \in Readings(offer[n]) :
        /\ inQuotes = (mode[i - start] # "plain")
        /\ escaped = (mode[i - start] = "escaped")
    BY DEF RecoverInv, RangesInv, Recovering
<1>3. /\ start = Begin(offer, n) + 1 /\ i <= End(offer, n) + 1
      /\ \A l \in 1..Len(values) : values[l] = offer[l]
    BY DEF RecoverInv, RangesInv, Recovering
<1>4. /\ n \in 1..Len(offer) /\ offer \in Seq(Text)
      /\ offer[n] \in Text /\ Len(offer[n]) \in Nat /\ Begin(offer, n) \in Nat
      /\ End(offer, n) = Begin(offer, n) + Len(offer[n])
      /\ \A j \in 1..Len(offer[n]) : accept[Begin(offer, n) + j] = offer[n][j]
    BY RangeInHeader
<1>5. /\ accept[i] = "comma" /\ ~escaped /\ ~inQuotes /\ i <= Len(accept)
      /\ i' = i + 1 /\ start' = i + 1
      /\ values' = Append(values, SubSeq(accept, start, i - 1))
      /\ UNCHANGED <<offer, accept, inQuotes, escaped>>
    BY DEF Comma, Reads, Advance
<1>6. i = End(offer, n) + 1
  <2> SUFFICES ASSUME i # End(offer, n) + 1 PROVE FALSE
    OBVIOUS
  <2> DEFINE j == i - Begin(offer, n)
  <2>1. j \in 1..Len(offer[n]) /\ j - 1 = i - start /\ Begin(offer, n) + j = i
    <3> HIDE DEF n
    <3>1. /\ Len(offer[n]) \in Nat /\ Begin(offer, n) \in Nat
          /\ End(offer, n) = Begin(offer, n) + Len(offer[n])
      BY <1>4
    <3>2. start = Begin(offer, n) + 1 /\ i < End(offer, n) + 1
      BY <1>1, <1>3, <3>1
    <3>3. i \in Nat /\ start \in Nat /\ start <= i
      BY <1>1
    <3>4. QED
      BY <3>1, <3>2, <3>3
  <2>2. offer[n][j] = "comma"
    BY <1>4, <1>5, <2>1
  <2>3. DOMAIN offer[n] = 1..Len(offer[n])
    BY <1>4 DEF Text
  <2>4. IsClosed(mode, offer[n])
    BY <1>2, Zenon DEF Readings
  <2>5. mode[j - 1] # "plain"
    <3> HIDE DEF j, n
    <3>1. QED
      BY <2>1, <2>2, <2>3, <2>4 DEF IsClosed
  <2>6. QED
    BY <1>2, <1>5, <2>1, <2>5
<1>7. /\ n < Len(offer)
      /\ Begin(offer, n + 1) = i
      /\ End(offer, n + 1) \in Nat /\ i <= End(offer, n + 1)
  <2> HIDE DEF n
  <2>1. n = Len(values) + 1
    BY DEF n
  <2>2. \/ n = Len(offer) /\ End(offer, n) = Len(accept)
        \/ /\ n < Len(offer)
           /\ Begin(offer, n + 1) = End(offer, n) + 1
           /\ End(offer, n + 1) \in Nat
           /\ Begin(offer, n + 1) <= End(offer, n + 1)
    BY <2>1, AfterRange
  <2>3. End(offer, n) # Len(accept)
    BY <1>1, <1>4, <1>5, <1>6
  <2>4. QED
    BY <1>6, <2>2, <2>3
<1>8. SubSeq(accept, start, i - 1) = offer[n]
  <2>1. i - 1 = End(offer, n)
    BY <1>4, <1>6
  <2>2. QED
    BY <2>1, PieceIsRange
<1>9. /\ Len(values') = n /\ Len(values') + 1 = n + 1
      /\ \A l \in 1..Len(values') : values'[l] = offer'[l]
  <2>1. /\ Len(values') = Len(values) + 1
        /\ \A l \in 1..Len(values) : values'[l] = values[l]
        /\ values'[Len(values) + 1] = offer[n]
    <3> HIDE DEF n
    <3>1. values' = Append(values, offer[n]) /\ offer[n] \in Text /\ values \in Seq(Text)
      BY <1>1, <1>4, <1>5, <1>8
    <3>2. QED
      BY <3>1, OneMore
  <2>2. QED
    BY <1>1, <1>3, <1>5, <2>1
<1>10. n + 1 \in 1..Len(offer) /\ offer[n + 1] \in WellFormed
  <2>1. n + 1 \in 1..Len(offer) /\ DOMAIN offer = 1..Len(offer)
    BY <1>4, <1>7
  <2>2. QED
    BY <2>1 DEF AsWritten
<1>11. PICK next \in Readings(offer[n + 1]) : TRUE
    BY <1>10, WellFormedAssumption
<1>12. next[0] = "plain"
    BY <1>11 DEF Readings, Follows
<1>13. /\ i' - start' = 0
       /\ inQuotes' = (next[i' - start'] # "plain")
       /\ escaped' = (next[i' - start'] = "escaped")
    BY <1>1, <1>5, <1>12 DEF RecoverInv, TypeOK
<1>14. /\ start' = Begin(offer', n + 1) + 1
       /\ i' <= End(offer', n + 1) + 1
    BY <1>1, <1>5, <1>7
<1>15. QED
  <2> HIDE DEF n
  <2>1. n + 1 <= Len(offer')
    BY <1>4, <1>5, <1>7
  <2>2. next \in Readings(offer'[n + 1])
    BY <1>5, <1>11
  <2>3. QED
    BY <1>9, <1>13, <1>14, <2>1, <2>2 DEF Recovering, Begin, End

\* The last range is what is after the last comma.
LEMMA LastRangeRecovers ==
    ASSUME RecoverInv, AsWritten, LastRange
    PROVE  values' = offer
<1> DEFINE n == Len(values) + 1
<1>1. /\ k = 0 /\ i > Len(accept)
      /\ values' = Append(values, SubSeq(accept, start, Len(accept)))
    BY DEF LastRange
<1>2. i <= End(offer, n) + 1 /\ \A l \in 1..Len(values) : values[l] = offer[l]
    BY <1>1 DEF RecoverInv, RangesInv, Recovering
<1>3. /\ n \in 1..Len(offer) /\ offer \in Seq(Text) /\ offer[n] \in Text
      /\ End(offer, n) <= Len(accept)
    BY <1>1, RangeInHeader
<1>4. /\ i \in Nat /\ Len(accept) \in Nat /\ values \in Seq(Text) /\ Len(values) \in Nat
    BY DEF RecoverInv, TypeOK, Text
<1>5. n = Len(offer) /\ End(offer, n) = Len(accept)
  <2>1. ~ (End(offer, n) < Len(accept))
    <3>1. End(offer, n) \in Nat
      BY <1>3, JoinedIsText
    <3>2. QED
      BY <1>1, <1>2, <1>4, <3>1
  <2>2. QED
    BY <1>1, <2>1, AfterRange
<1>6. SubSeq(accept, start, Len(accept)) = offer[n]
    BY <1>1, <1>5, PieceIsRange
<1>7. /\ values' \in Seq(Text) /\ Len(values') = n
      /\ \A l \in 1..Len(values) : values'[l] = values[l]
      /\ values'[n] = offer[n]
    BY <1>1, <1>3, <1>4, <1>6, OneMore
<1>8. \A l \in 1..Len(values') : values'[l] = offer[l]
    BY <1>2, <1>4, <1>7
<1>9. Len(values') = Len(offer)
    BY <1>5, <1>7
<1>10. QED
  <2> HIDE DEF n
  <2>1. QED
    BY <1>3, <1>7, <1>8, <1>9, SeqEqual

LEMMA NextRangesInv == RecoverInv /\ [Next]_vars => RangesInv'
<1> SUFFICES ASSUME RecoverInv, [Next]_vars, AsWritten'
             PROVE  IF k' = 0 THEN Recovering' ELSE values' = offer'
    BY DEF RangesInv
<1>1. UNCHANGED <<offer, accept>>
    BY DEF Next, AfterEscape, Escape, Quote, Comma, OtherRune, LastRange, Default, TakeRange,
           PassRange, NotAcceptable, Advance, Answer, vars
<1>2. AsWritten
    BY <1>1 DEF AsWritten
<1>3. CASE WithinRange
  <2>1. k = 0 /\ k' = 0
    BY <1>3, WithinRangeStep DEF RecoverInv, TypeOK, LoopInv
  <2>2. QED
    BY <1>2, <1>3, <2>1, WithinRangeRecovers
<1>4. CASE Comma
  <2>1. k = 0 /\ k' = 0
    BY <1>4 DEF Comma, Reads, Advance, RecoverInv, TypeOK, LoopInv
  <2>2. QED
    BY <1>2, <1>4, <2>1, CommaRecovers
<1>5. CASE LastRange
  <2>1. k' = 1
    BY <1>5 DEF LastRange
  <2>2. QED
    BY <1>1, <1>2, <1>5, <2>1, LastRangeRecovers
<1>6. CASE Negotiation
  <2>1. /\ UNCHANGED <<i, start, inQuotes, escaped, values>>
        /\ k' = k \/ (k # 0 /\ k' # 0)
    BY <1>6 DEF Negotiation, Default, TakeRange, PassRange, NotAcceptable, Negotiates, Answer,
                RecoverInv, TypeOK
  <2>2. Recovering => Recovering'
    BY <1>1, <2>1 DEF Recovering, Begin, End
  <2>3. QED
    BY <1>1, <1>2, <2>1, <2>2 DEF RecoverInv, RangesInv
<1>7. CASE UNCHANGED vars
  <2>1. Recovering => Recovering'
    BY <1>7 DEF vars, Recovering, Begin, End
  <2>2. QED
    BY <1>2, <1>7, <2>1 DEF vars, RecoverInv, RangesInv
<1>8. QED
    BY <1>3, <1>4, <1>5, <1>6, <1>7 DEF Next, WithinRange, Negotiation

LEMMA RecoverInvariant == Spec => []RecoverInv
<1>1. Init => RecoverInv
    BY InitTypeOK, InitRangesInv DEF RecoverInv
<1>2. RecoverInv /\ [Next]_vars => RecoverInv'
    BY NextTypeOK, NextRangesInv DEF RecoverInv
<1>3. QED
    BY <1>1, <1>2, PTL DEF Spec

\* The header is cut where the client put its ranges together, whatever quoted strings,
\* commas and escapes there are in them and however many there are.
THEOREM RangesAreRecoveredTheorem == Spec => []RangesAreRecovered
<1>1. RecoverInv => RangesAreRecovered
    BY DEF RecoverInv, TypeOK, RangesInv, RangesAreRecovered
<1>2. QED
    BY <1>1, RecoverInvariant, PTL

-----------------------------------------------------------------------------
(* The first range that ratsd knows wins *)

\* The search has passed ranges that ratsd does not know only, and the answer is what it
\* found: the default when there is no header, the range it stopped at, or nothing.
ChoiceInv ==
    /\ \A n \in 1..(k - 1) : values[n] \notin DOMAIN Known
    /\ k = 0 => answer \in {"open", "legacy"}
    /\ k > 0 /\ answer # "open" =>
         IF k <= Len(values) THEN values[k] \in DOMAIN Known /\ answer = Known[values[k]]
         ELSE answer = "error"

ChooseInv == RecoverInv /\ ChoiceInv

LEMMA InitChoiceInv == Init => ChoiceInv
    BY DEF Init, ChoiceInv

LEMMA NextChoiceInv == RecoverInv /\ ChoiceInv /\ [Next]_vars => ChoiceInv'
<1> SUFFICES ASSUME RecoverInv, ChoiceInv, [Next]_vars PROVE ChoiceInv'
    OBVIOUS
<1>1. /\ Len(values) \in Nat /\ Len(accept) \in Nat /\ k \in Nat /\ k <= Len(values) + 1
      /\ i \in Nat /\ (k > 0 => i > Len(accept))
      /\ (answer # "open" => k > 0 \/ accept = <<>>)
    BY DEF RecoverInv, TypeOK, LoopInv
<1>2. CASE WithinRange
    BY <1>1, <1>2, WithinRangeStep DEF ChoiceInv
<1>3. CASE Comma
  <2>1. k = 0 /\ k' = 0 /\ answer = "open" /\ answer' = "open"
    BY <1>1, <1>3 DEF Comma, Reads, Advance
  <2>2. QED
    BY <2>1 DEF ChoiceInv
<1>4. CASE LastRange
  <2>1. k' = 1 /\ answer = "open" /\ answer' = "open"
    BY <1>4 DEF LastRange
  <2>2. QED
    BY <2>1 DEF ChoiceInv
<1>5. CASE Default
  <2>1. k = 0 /\ k' = 0 /\ answer' = "legacy"
    BY <1>1, <1>5 DEF Default, Answer, RecoverInv, LoopInv
  <2>2. QED
    BY <2>1 DEF ChoiceInv
<1>6. CASE TakeRange
  <2>1. /\ k \in 1..Len(values) /\ values[k] \in DOMAIN Known
        /\ answer' = Known[values[k]] /\ UNCHANGED <<values, k>>
    BY <1>6 DEF TakeRange, Negotiates, Answer
  <2>2. QED
    BY <1>1, <2>1 DEF ChoiceInv
<1>7. CASE PassRange
  <2>1. /\ k \in 1..Len(values) /\ values[k] \notin DOMAIN Known
        /\ k' = k + 1 /\ answer' = "open" /\ UNCHANGED values
    BY <1>7 DEF PassRange, Negotiates, Answer
  <2>2. \A n \in 1..(k' - 1) : n = k \/ n \in 1..(k - 1)
    BY <1>1, <2>1
  <2>3. \A n \in 1..(k' - 1) : values'[n] \notin DOMAIN Known
    BY <2>1, <2>2 DEF ChoiceInv
  <2>4. QED
    BY <1>1, <2>1, <2>3 DEF ChoiceInv
<1>8. CASE NotAcceptable
  <2>1. k > Len(values) /\ k > 0 /\ answer' = "error" /\ UNCHANGED <<values, k>>
    BY <1>8 DEF NotAcceptable, Answer
  <2>2. QED
    BY <1>1, <2>1 DEF ChoiceInv
<1>9. CASE UNCHANGED vars
    BY <1>9 DEF vars, ChoiceInv
<1>10. QED
    BY <1>2, <1>3, <1>4, <1>5, <1>6, <1>7, <1>8, <1>9 DEF Next, WithinRange

\* What the search over the ranges finds is the first of them that is known.
LEMMA FirstKnownIs ==
    ASSUME NEW ranges \in Seq(Text), NEW n \in 1..Len(ranges), ranges[n] \in DOMAIN Known,
           \A m \in 1..(n - 1) : ranges[m] \notin DOMAIN Known
    PROVE  FirstKnown(ranges) = Known[ranges[n]]
<1> DEFINE known == {m \in DOMAIN ranges : ranges[m] \in DOMAIN Known}
           Least(m) == \A l \in known : m <= l
<1>1. DOMAIN ranges = 1..Len(ranges) /\ Len(ranges) \in Nat
    OBVIOUS
<1>2. n \in known
    BY <1>1
<1>3. Least(n)
  <2>1. \A l \in known : l \in Nat /\ l >= 1 /\ ~ (l < n)
    BY <1>1
  <2>2. QED
    BY <1>1, <2>1
<1>4. known # {} /\ \A m \in known : m \in Nat
    BY <1>1, <1>2
<1> HIDE DEF known
<1>5. \A m \in known : Least(m) => m = n
    BY <1>2, <1>3, <1>4
<1> HIDE DEF Least
<1>6. (CHOOSE m \in known : Least(m)) = n
    BY <1>2, <1>3, <1>5
<1>7. FirstKnown(ranges) = Known[ranges[CHOOSE m \in known : Least(m)]]
    BY <1>4 DEF FirstKnown, known, Least
<1>8. QED
    BY <1>6, <1>7

LEMMA NoneKnown ==
    ASSUME NEW ranges \in Seq(Text), \A m \in 1..Len(ranges) : ranges[m] \notin DOMAIN Known
    PROVE  FirstKnown(ranges) = "error"
    BY DEF FirstKnown

LEMMA ChooseInvariant == Spec => []ChooseInv
<1>1. Init => ChooseInv
    BY InitTypeOK, InitRangesInv, InitChoiceInv DEF ChooseInv, RecoverInv
<1>2. ChooseInv /\ [Next]_vars => ChooseInv'
    BY NextTypeOK, NextRangesInv, NextChoiceInv DEF ChooseInv, RecoverInv
<1>3. QED
    BY <1>1, <1>2, PTL DEF Spec

\* The client gets the format of the first of its ranges that ratsd knows, a 406 when it
\* knows none, and the legacy format when there is no header.
THEOREM FirstKnownWinsTheorem == Spec => []FirstKnownWins
<1>1. ASSUME ChooseInv, answer # "open", AsWritten PROVE answer = FirstKnown(offer)
  <2>1. /\ k \in Nat /\ Len(values) \in Nat /\ k <= Len(values) + 1 /\ k > 0
        /\ values = offer /\ offer \in Seq(Text)
    BY <1>1, OffersAreTexts DEF ChooseInv, RecoverInv, TypeOK, LoopInv, RangesInv, AsWritten
  <2>2. CASE k <= Len(values)
    <3>1. /\ k \in 1..Len(offer) /\ offer[k] \in DOMAIN Known /\ answer = Known[offer[k]]
          /\ \A m \in 1..(k - 1) : offer[m] \notin DOMAIN Known
      BY <1>1, <2>1, <2>2 DEF ChooseInv, ChoiceInv
    <3>2. QED
      BY <2>1, <3>1, FirstKnownIs
  <2>3. CASE k > Len(values)
    <3>1. k - 1 = Len(offer) /\ answer = "error"
      BY <1>1, <2>1, <2>3 DEF ChooseInv, ChoiceInv
    <3>2. \A m \in 1..Len(offer) : offer[m] \notin DOMAIN Known
      BY <1>1, <2>1, <3>1 DEF ChooseInv, ChoiceInv
    <3>3. QED
      BY <2>1, <3>1, <3>2, NoneKnown
  <2>4. QED
    BY <2>1, <2>2, <2>3
<1>2. ASSUME ChooseInv, answer # "open", accept = <<>> PROVE answer = "legacy"
    BY <1>2 DEF ChooseInv, RecoverInv, TypeOK, LoopInv, ChoiceInv
<1>3. ChooseInv => FirstKnownWins
    BY <1>1, <1>2 DEF FirstKnownWins
<1>4. QED
    BY <1>3, ChooseInvariant, PTL

=============================================================================
