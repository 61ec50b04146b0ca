---------------------------- MODULE AttesterProofs ----------------------------
(***************************************************************************)
(* Theorems about the two sub-attesters, for any calls, any platforms and  *)
(* any number of updates.                                                  *)
(***************************************************************************)
EXTENDS Attester, TLAPS

\* A report as it is filled: a field has one value or none, and the fields for a
\* service provider, which the attesters never set, have none.
Single(report) == \A f \in DOMAIN NoReport : \A x, y \in report[f] : x = y
Unserved(report) == report.manifestblob = {} /\ report.service_provider = {}

\* The report is one that was made for the call.
Filled(c) ==
    /\ out[c].outblob # {}
    /\ \A b \in out[c].outblob : b.nonce = ask[c].nonce /\ b.level = ask[c].level

\* Certificates have been fetched where they have to be.
Fetched(c) ==
    ask[c].to = "tsm" /\ platform.certs /\ IsSEV(platform.provider) => out[c].auxblob # {}

Answered(c) ==
    \A d \in answer[c].evidence :
        /\ d = Encode(out[c], ask[c].type)
        /\ Valid(out[c])
        /\ Filled(c)
        /\ Fetched(c)
        /\ ~Malformed(ask[c])

\* What holds of a call between two of its steps.
CallInv(c) ==
    /\ Single(out[c]) /\ Unserved(out[c])
    /\ offered[c] \subseteq SupportedFormats(ask[c].to)
    /\ pc[c] # "done" => answer[c] = Unanswered
    /\ answer[c].status = 400 => Malformed(ask[c])
    /\ pc[c] \in {"first", "second", "read"} => ~Malformed(ask[c])
    /\ pc[c] = "second" => ask[c].to = "tsm"
    /\ pc[c] \in {"second", "read"} => Filled(c)
    /\ pc[c] = "read" => Fetched(c)
    /\ Answered(c)

AttesterInv == \A c \in Calls : CallInv(c)

-----------------------------------------------------------------------------
(* Types *)

LEMMA NoReportTyped == NoReport \in Report /\ Single(NoReport) /\ Unserved(NoReport)
    BY DEF NoReport, Report, Single, Unserved

\* What one read gives has the types of a report's fields.
LEMMA ReadsTyped ==
    ASSUME NEW c \in Calls, TypeOK, ~Malformed(ask[c])
    PROVE  /\ ReadBlob(c) \in Blob
           /\ ReadProvider(c) \subseteq Provider
           /\ \A x, y \in ReadProvider(c) : x = y
           /\ ReadAux(c) \subseteq Nat
           /\ \A x, y \in ReadAux(c) : x = y
           /\ ask[c].type \in Media
<1>1. ask[c] \in Ask /\ platform \in Platform /\ version \in Nat
    BY AsksAssumption, PlatformsAssumption, MaxVersionAssumption DEF TypeOK
<1>2. ask[c].type \in Media
    BY DEF Malformed, Types, Media
<1>3. ask[c].level \in {"absent", "zero", "one"}
    BY <1>1 DEF Malformed, Ask
<1>4. ReadBlob(c) \in Blob
    BY <1>1, <1>3 DEF ReadBlob, Blob, Ask
<1>5. platform.provider \subseteq Provider /\ \A x, y \in platform.provider : x = y
    BY <1>1, PlatformsAssumption DEF TypeOK, Platform
<1>6. [name |-> "fake", newline |-> TRUE] \in Provider
    BY DEF Provider
<1>7. ReadProvider(c) \subseteq Provider /\ \A x, y \in ReadProvider(c) : x = y
    BY <1>5, <1>6 DEF ReadProvider
<1>8. ReadAux(c) \subseteq Nat /\ \A x, y \in ReadAux(c) : x = y
    BY <1>1 DEF ReadAux
<1>9. QED
    BY <1>2, <1>4, <1>7, <1>8

\* A record that FirstRead makes has the types of a report.
LEMMA FirstReport ==
    ASSUME NEW provider \in SUBSET Provider, NEW outblob \in SUBSET Blob, NEW aux \in SUBSET Nat,
           \A x, y \in provider : x = y, \A x, y \in outblob : x = y, \A x, y \in aux : x = y
    PROVE  LET report == [provider |-> provider, outblob |-> outblob, auxblob |-> aux,
                          manifestblob |-> {}, service_provider |-> {}]
           IN  report \in Report /\ Single(report) /\ Unserved(report)
<1> DEFINE report == [provider |-> provider, outblob |-> outblob, auxblob |-> aux,
                      manifestblob |-> {}, service_provider |-> {}]
<1>1. report \in Report
    BY DEF Report
<1>2. /\ report["provider"] = provider /\ report["outblob"] = outblob
      /\ report["auxblob"] = aux /\ report["manifestblob"] = {}
      /\ report["service_provider"] = {}
    OBVIOUS
<1>3. DOMAIN NoReport = {"provider", "outblob", "auxblob", "manifestblob", "service_provider"}
    BY DEF NoReport
<1>4. Unserved(report)
    BY <1>2 DEF Unserved
<1> HIDE DEF report
<1>5. Single(report)
    BY <1>2, <1>3 DEF Single
<1>6. QED
    BY <1>1, <1>4, <1>5 DEF report

\* The fields of what SecondRead makes.
LEMMA SecondReport ==
    ASSUME NEW old \in Report, Single(old), Unserved(old), NEW aux \in SUBSET Nat,
           \A x, y \in aux : x = y,
           NEW report, report = [old EXCEPT !.auxblob = aux]
    PROVE  /\ report \in Report /\ Single(report) /\ Unserved(report)
           /\ report.provider = old.provider /\ report.outblob = old.outblob
           /\ report.auxblob = aux
<1>1. report = [provider |-> old.provider, outblob |-> old.outblob, auxblob |-> aux,
                manifestblob |-> old.manifestblob, service_provider |-> old.service_provider]
    BY DEF Report
<1>2. report \in Report
    BY <1>1 DEF Report
<1>3. Single(report) /\ Unserved(report)
    BY <1>1 DEF Single, Unserved, NoReport, Report
<1>4. QED
    BY <1>1, <1>2, <1>3

\* A document has the type that was asked for and fields of a report.
LEMMA DocumentTyped ==
    ASSUME NEW report \in Report, NEW media \in Media
    PROVE  LET d == Encode(report, media)
           IN  d.type \in Media /\ DOMAIN d.fields \subseteq DOMAIN NoReport
    BY DEF Encode, Present

LEMMA InitTypeOK == Init => TypeOK
<1> SUFFICES ASSUME Init PROVE TypeOK
    OBVIOUS
<1>1. available \in BOOLEAN
    BY Zenon DEF Init
<1>2. version \in 0..MaxVersion /\ since \in [Calls -> 0..MaxVersion]
    BY MaxVersionAssumption DEF Init
<1>3. out \in [Calls -> Report]
    BY NoReportTyped DEF Init
<1>4. \A c \in Calls : answer[c].status = 0 /\ answer[c].evidence = {}
    BY DEF Init, Unanswered
<1>5. Documents = {}
    BY <1>4 DEF Documents
<1>6. offered \in [Calls -> SUBSET Format]
    BY DEF Init
<1>7. QED
    BY <1>1, <1>2, <1>3, <1>4, <1>5, <1>6 DEF Init, TypeOK

LEMMA FormatsTyped ==
    ASSUME NEW attester
    PROVE  SupportedFormats(attester) \subseteq Format
<1>1. Types(attester) \subseteq Media
    BY DEF Types, Media
<1>2. NonceSize \in Nat
    BY DEF NonceSize
<1>3. \A t \in Types(attester) : [type |-> t, size |-> NonceSize] \in Format
    BY <1>1, <1>2 DEF Format
<1>4. QED
    BY <1>3 DEF SupportedFormats

\* What an answer does to the types.
LEMMA AnswerTyped ==
    ASSUME TypeOK, NEW c \in Calls, NEW status \in {200, 400, 500}, NEW evidence,
           status = 200 <=> evidence # {},
           \A d \in evidence : d.type \in Media /\ DOMAIN d.fields \subseteq DOMAIN NoReport,
           Answer(c, status, evidence)
    PROVE  /\ pc' \in [Calls -> {"new", "offered", "first", "second", "read", "done"}]
           /\ DOMAIN answer' = Calls
           /\ \A e \in Calls : /\ answer'[e].status \in {0, 200, 400, 500}
                               /\ answer'[e].status = 200 <=> answer'[e].evidence # {}
           /\ \A d \in Documents' : d.type \in Media /\ DOMAIN d.fields \subseteq DOMAIN NoReport
<1>1. /\ answer' = [answer EXCEPT ![c] = [status |-> status, evidence |-> evidence]]
      /\ pc' = [pc EXCEPT ![c] = "done"]
    BY DEF Answer
<1>2. DOMAIN answer' = Calls /\ answer'[c] = [status |-> status, evidence |-> evidence]
      /\ \A e \in Calls \ {c} : answer'[e] = answer[e]
    BY <1>1 DEF TypeOK
<1>3. \A e \in Calls : /\ answer'[e].status \in {0, 200, 400, 500}
                       /\ answer'[e].status = 200 <=> answer'[e].evidence # {}
    BY <1>2 DEF TypeOK
<1>4. \A d \in Documents' : d \in evidence \/ d \in Documents
    BY <1>2 DEF Documents
<1>5. \A d \in Documents' : d.type \in Media /\ DOMAIN d.fields \subseteq DOMAIN NoReport
    BY <1>4 DEF TypeOK
<1>6. pc' \in [Calls -> {"new", "offered", "first", "second", "read", "done"}]
    BY <1>1 DEF TypeOK
<1>7. QED
    BY <1>2, <1>3, <1>5, <1>6

\* A step that answers nobody leaves the answers' types as they are.
LEMMA SameAnswersTyped ==
    ASSUME TypeOK, UNCHANGED answer
    PROVE  /\ DOMAIN answer' = Calls
           /\ \A e \in Calls : /\ answer'[e].status \in {0, 200, 400, 500}
                               /\ answer'[e].status = 200 <=> answer'[e].evidence # {}
           /\ \A d \in Documents' : d.type \in Media /\ DOMAIN d.fields \subseteq DOMAIN NoReport
    BY DEF TypeOK, Documents

\* No step of a call changes the environment, and only the environment's do.
LEMMA EnvTyped ==
    ASSUME TypeOK, UNCHANGED env
    PROVE  /\ platform' \in Platforms /\ available' \in BOOLEAN
           /\ version' \in 0..MaxVersion /\ ask' \in [Calls -> Asks]
<1>1. platform' = platform /\ available' = available /\ version' = version /\ ask' = ask
    BY DEF env
<1>2. available' \in BOOLEAN
    BY <1>1, Zenon DEF TypeOK
<1>3. QED
    BY <1>1, <1>2 DEF TypeOK

\* What a call is filled with keeps the types of reports.
LEMMA FirstReadFills ==
    ASSUME TypeOK, NEW c \in Calls, ~Malformed(ask[c]), FirstRead(c)
    PROVE  /\ out' \in [Calls -> Report] /\ Single(out'[c]) /\ Unserved(out'[c])
           /\ out'[c].provider = ReadProvider(c) /\ out'[c].outblob = {ReadBlob(c)}
           /\ ask[c].to = "tsm" => out'[c].auxblob = {}
           /\ \A d \in Calls \ {c} : out'[d] = out[d]
<1> DEFINE aux == IF ask[c].to = "mock" THEN ReadAux(c) ELSE {}
           report == [provider |-> ReadProvider(c), outblob |-> {ReadBlob(c)}, auxblob |-> aux,
                      manifestblob |-> {}, service_provider |-> {}]
<1>1. out' = [out EXCEPT ![c] = report]
    BY DEF FirstRead
<1>2. /\ ReadProvider(c) \in SUBSET Provider /\ {ReadBlob(c)} \in SUBSET Blob
      /\ aux \in SUBSET Nat
      /\ \A x, y \in ReadProvider(c) : x = y
      /\ \A x, y \in {ReadBlob(c)} : x = y
      /\ \A x, y \in aux : x = y
    BY ReadsTyped
<1>3. /\ report \in Report /\ Single(report) /\ Unserved(report)
      /\ report.provider = ReadProvider(c) /\ report.outblob = {ReadBlob(c)}
      /\ report.auxblob = aux
  <2> HIDE DEF aux
  <2>1. report \in Report /\ Single(report) /\ Unserved(report)
    BY <1>2, FirstReport
  <2>2. QED
    BY <2>1
<1>4. out'[c] = report /\ out' \in [Calls -> Report] /\ \A d \in Calls \ {c} : out'[d] = out[d]
  <2> HIDE DEF report
  <2>1. QED
    BY <1>1, <1>3 DEF TypeOK
<1>5. ask[c].to = "tsm" => aux = {}
    OBVIOUS
<1> HIDE DEF report, aux
<1>6. QED
    BY <1>3, <1>4, <1>5

LEMMA SecondReadFills ==
    ASSUME TypeOK, AttesterInv, NEW c \in Calls, SecondRead(c)
    PROVE  /\ out' \in [Calls -> Report] /\ Single(out'[c]) /\ Unserved(out'[c])
           /\ out'[c].provider = out[c].provider /\ out'[c].outblob = out[c].outblob
           /\ out'[c].auxblob = ReadAux(c)
           /\ \A d \in Calls \ {c} : out'[d] = out[d]
<1> DEFINE report == [out[c] EXCEPT !.auxblob = ReadAux(c)]
<1>1. out' = [out EXCEPT ![c] = report]
    BY DEF SecondRead
<1>2. ~Malformed(ask[c]) /\ Single(out[c]) /\ Unserved(out[c])
    BY DEF AttesterInv, CallInv, SecondRead
<1>3. ReadAux(c) \in SUBSET Nat /\ \A x, y \in ReadAux(c) : x = y
    BY <1>2, ReadsTyped
<1>4. out[c] \in Report
    BY DEF TypeOK
<1>5. /\ report \in Report /\ Single(report) /\ Unserved(report)
      /\ report.provider = out[c].provider /\ report.outblob = out[c].outblob
      /\ report.auxblob = ReadAux(c)
    BY <1>2, <1>3, <1>4, SecondReport
<1> HIDE DEF report
<1>6. out'[c] = report /\ out' \in [Calls -> Report] /\ \A d \in Calls \ {c} : out'[d] = out[d]
    BY <1>1, <1>5 DEF TypeOK
<1>7. QED
    BY <1>5, <1>6

LEMMA NextTypeOK == TypeOK /\ AttesterInv /\ [Next]_vars => TypeOK'
<1> SUFFICES ASSUME TypeOK, AttesterInv, [Next]_vars PROVE TypeOK'
    OBVIOUS
<1> DEFINE PCs == {"new", "offered", "first", "second", "read", "done"}
<1>1. ASSUME NEW c \in Calls, GetSupportedFormats(c) PROVE TypeOK'
  <2>1. UNCHANGED env /\ UNCHANGED <<since, out, answer>>
    BY <1>1 DEF GetSupportedFormats
  <2>2. pc' \in [Calls -> PCs]
    BY <1>1 DEF GetSupportedFormats, TypeOK
  <2>3. offered' \in [Calls -> SUBSET Format]
    BY <1>1, FormatsTyped DEF GetSupportedFormats, TypeOK
  <2>4. since' \in [Calls -> 0..MaxVersion] /\ out' \in [Calls -> Report]
    BY <2>1 DEF TypeOK
  <2>5. QED
    BY <2>1, <2>2, <2>3, <2>4, EnvTyped, SameAnswersTyped DEF TypeOK
<1>2. ASSUME NEW c \in Calls, Begin(c) PROVE TypeOK'
  <2>1. UNCHANGED env /\ UNCHANGED <<offered, out, answer>>
    BY <1>2 DEF Begin
  <2>2. pc' \in [Calls -> PCs]
    BY <1>2 DEF Begin, TypeOK
  <2>3. since' \in [Calls -> 0..MaxVersion]
    BY <1>2 DEF Begin, TypeOK
  <2>4. offered' \in [Calls -> SUBSET Format] /\ out' \in [Calls -> Report]
    BY <2>1 DEF TypeOK
  <2>5. QED
    BY <2>1, <2>2, <2>3, <2>4, EnvTyped, SameAnswersTyped DEF TypeOK
<1>3. ASSUME NEW c \in Calls, FirstRead(c) \/ SecondRead(c) PROVE TypeOK'
  <2>1. UNCHANGED env /\ UNCHANGED <<offered, since, answer>>
    BY <1>3 DEF FirstRead, SecondRead
  <2>2. pc' \in [Calls -> PCs]
    BY <1>3 DEF FirstRead, SecondRead, TypeOK
  <2>3. pc[c] \in {"first", "second"}
    BY <1>3 DEF FirstRead, SecondRead
  <2>4. ~Malformed(ask[c])
    BY <2>3 DEF AttesterInv, CallInv
  <2>5. out' \in [Calls -> Report]
    BY <1>3, <2>4, FirstReadFills, SecondReadFills
  <2>6. offered' \in [Calls -> SUBSET Format] /\ since' \in [Calls -> 0..MaxVersion]
    BY <2>1 DEF TypeOK
  <2>7. QED
    BY <2>1, <2>2, <2>5, <2>6, EnvTyped, SameAnswersTyped DEF TypeOK
<1>4. ASSUME NEW c \in Calls, NEW status \in {200, 400, 500}, NEW evidence,
             status = 200 <=> evidence # {},
             \A d \in evidence : d.type \in Media /\ DOMAIN d.fields \subseteq DOMAIN NoReport,
             Answer(c, status, evidence), UNCHANGED <<env, offered, since, out>>
      PROVE  TypeOK'
  <2>1. UNCHANGED env
    BY <1>4
  <2>2. /\ offered' \in [Calls -> SUBSET Format] /\ since' \in [Calls -> 0..MaxVersion]
        /\ out' \in [Calls -> Report]
    BY <1>4 DEF TypeOK
  <2>3. QED
    BY <1>4, <2>1, <2>2, EnvTyped, AnswerTyped DEF TypeOK
<1>5. ASSUME NEW c \in Calls,
             Refuse(c) \/ ClientFails(c) \/ ReadFails(c) \/ CannotEncode(c)
      PROVE  TypeOK'
  <2>1. PICK status \in {400, 500} : Answer(c, status, {})
    BY <1>5 DEF Refuse, ClientFails, ReadFails, CannotEncode
  <2>2. UNCHANGED <<env, offered, since, out>>
    BY <1>5 DEF Refuse, ClientFails, ReadFails, CannotEncode
  <2>3. QED
    BY <1>4, <2>1, <2>2
<1>6. ASSUME NEW c \in Calls, Return(c) PROVE TypeOK'
  <2>1. /\ Answer(c, 200, {Encode(out[c], ask[c].type)})
        /\ UNCHANGED <<env, offered, since, out>>
    BY <1>6 DEF Return
  <2>2. ~Malformed(ask[c])
    BY <1>6 DEF Return, AttesterInv, CallInv
  <2>3. out[c] \in Report /\ ask[c].type \in Media
    BY <2>2, ReadsTyped DEF TypeOK
  <2>4. \A d \in {Encode(out[c], ask[c].type)} :
            d.type \in Media /\ DOMAIN d.fields \subseteq DOMAIN NoReport
    BY <2>3, DocumentTyped
  <2>5. QED
    BY <1>4, <2>1, <2>4
<1>7. ASSUME Update \/ ComeOrGo \/ UNCHANGED vars PROVE TypeOK'
  <2>1. UNCHANGED <<platform, ask, pc, offered, since, out, answer>>
    BY <1>7 DEF Update, ComeOrGo, vars, env
  <2>2. version' \in 0..MaxVersion
    BY <1>7, MaxVersionAssumption DEF Update, ComeOrGo, vars, env, TypeOK
  <2>3. available' = available \/ available' = ~available
    BY <1>7 DEF Update, ComeOrGo, vars, env
  <2>4. available' \in BOOLEAN
    <3>1. available \in BOOLEAN
      BY DEF TypeOK
    <3>2. QED
      BY <2>3, <3>1
  <2>5. /\ pc' \in [Calls -> PCs] /\ offered' \in [Calls -> SUBSET Format]
        /\ since' \in [Calls -> 0..MaxVersion] /\ out' \in [Calls -> Report]
        /\ platform' \in Platforms /\ ask' \in [Calls -> Asks]
    BY <2>1 DEF TypeOK
  <2>6. QED
    BY <2>1, <2>2, <2>4, <2>5, SameAnswersTyped DEF TypeOK
<1>8. QED
    BY <1>1, <1>2, <1>3, <1>5, <1>6, <1>7 DEF Next, GetEvidence

-----------------------------------------------------------------------------
(* The inductive invariant *)

LEMMA InitAttesterInv == Init => AttesterInv
<1> SUFFICES ASSUME Init, NEW c \in Calls PROVE CallInv(c)
    BY DEF AttesterInv
<1>1. /\ pc[c] = "new" /\ out[c] = NoReport /\ offered[c] = {} /\ answer[c] = Unanswered
    BY DEF Init
<1>2. answer[c].status = 0 /\ answer[c].evidence = {}
    BY <1>1 DEF Unanswered
<1>3. QED
    BY <1>1, <1>2, NoReportTyped DEF CallInv, Answered

\* What is said of certificates does not change with the rest.
LEMMA FetchedFrame ==
    ASSUME NEW c \in Calls, UNCHANGED <<platform, ask>>, out'[c].auxblob = out[c].auxblob
    PROVE  Fetched(c) => Fetched(c)'
    BY Zenon DEF Fetched

\* A step that leaves the call alone.
LEMMA CallFrame ==
    ASSUME NEW c \in Calls, CallInv(c), UNCHANGED <<platform, ask>>,
           pc'[c] = pc[c], offered'[c] = offered[c], out'[c] = out[c], answer'[c] = answer[c]
    PROVE  CallInv(c)'
<1>1. Fetched(c) => Fetched(c)'
    BY FetchedFrame
<1>2. Filled(c) => Filled(c)'
    BY DEF Filled
<1>3. Answered(c)'
    BY <1>1, <1>2 DEF CallInv, Answered
<1>4. QED
    BY <1>1, <1>2, <1>3 DEF CallInv

LEMMA AnsweringKeepsInv ==
    ASSUME TypeOK, NEW c \in Calls, CallInv(c), NEW status, NEW evidence,
           Answer(c, status, evidence), UNCHANGED <<env, offered, since, out>>,
           status = 400 => Malformed(ask[c]),
           \A d \in evidence : /\ d = Encode(out[c], ask[c].type)
                               /\ Valid(out[c]) /\ Filled(c) /\ Fetched(c)
                               /\ ~Malformed(ask[c])
    PROVE  /\ CallInv(c)'
           /\ \A d \in Calls \ {c} : pc'[d] = pc[d] /\ answer'[d] = answer[d]
<1>1. /\ answer' = [answer EXCEPT ![c] = [status |-> status, evidence |-> evidence]]
      /\ pc' = [pc EXCEPT ![c] = "done"]
    BY DEF Answer
<1>2. /\ answer'[c] = [status |-> status, evidence |-> evidence] /\ pc'[c] = "done"
      /\ \A d \in Calls \ {c} : pc'[d] = pc[d] /\ answer'[d] = answer[d]
    BY <1>1 DEF TypeOK
<1>3. answer'[c].status = status /\ answer'[c].evidence = evidence
    BY <1>2
<1>4. platform' = platform /\ ask' = ask /\ out' = out /\ offered' = offered
    BY DEF env
<1>5. (Fetched(c) => Fetched(c)') /\ (Filled(c) => Filled(c)')
    BY <1>4, FetchedFrame DEF Filled
<1>6. Answered(c)'
    BY <1>3, <1>4, <1>5 DEF Answered
<1>7. CallInv(c)'
    BY <1>2, <1>3, <1>4, <1>6 DEF CallInv
<1>8. QED
    BY <1>2, <1>7

\* Certificates need no second read, or have been fetched by it.
LEMMA FirstReadFetches ==
    ASSUME TypeOK, NEW c \in Calls, FirstRead(c), pc'[c] = "read"
    PROVE  Fetched(c)'
<1>1. platform' = platform /\ ask' = ask
    BY DEF FirstRead, env
<1>2. ~(ask[c].to = "tsm" /\ IsSEV(ReadProvider(c)))
  <2>1. pc' = [pc EXCEPT ![c] =
          IF ask[c].to = "tsm" /\ IsSEV(ReadProvider(c)) THEN "second" ELSE "read"]
    BY DEF FirstRead
  <2>2. pc'[c] = IF ask[c].to = "tsm" /\ IsSEV(ReadProvider(c)) THEN "second" ELSE "read"
    BY <2>1 DEF TypeOK
  <2>3. QED
    BY <2>2
<1>3. ask[c].to = "tsm" => ReadProvider(c) = platform.provider
    BY DEF ReadProvider
<1>4. QED
    BY <1>1, <1>2, <1>3, Zenon DEF Fetched

\* What a step of one call does not touch.
Leaves(d) ==
    /\ UNCHANGED <<platform, ask>>
    /\ pc'[d] = pc[d] /\ offered'[d] = offered[d]
    /\ out'[d] = out[d] /\ answer'[d] = answer[d]

LEMMA ReadingKeepsInv ==
    ASSUME TypeOK, AttesterInv, NEW c \in Calls, FirstRead(c) \/ SecondRead(c)
    PROVE  CallInv(c)' /\ \A d \in Calls \ {c} : Leaves(d)
<1>1. /\ platform' = platform /\ ask' = ask /\ offered' = offered /\ answer' = answer
      /\ pc[c] \in {"first", "second"}
    BY DEF FirstRead, SecondRead, env
<1>2. CallInv(c)
    BY DEF AttesterInv
<1>3. ~Malformed(ask[c]) /\ answer[c] = Unanswered
    BY <1>1, <1>2 DEF CallInv
<1>4. answer[c].evidence = {} /\ answer[c].status = 0
    BY <1>3 DEF Unanswered
<1>5. CASE FirstRead(c)
  <2>1. /\ Single(out'[c]) /\ Unserved(out'[c]) /\ out'[c].outblob = {ReadBlob(c)}
        /\ \A d \in Calls \ {c} : out'[d] = out[d]
    BY <1>3, <1>5, FirstReadFills
  <2>2. ReadBlob(c).nonce = ask[c].nonce /\ ReadBlob(c).level = ask[c].level
    BY DEF ReadBlob
  <2>3. Filled(c)'
    BY <1>1, <2>1, <2>2 DEF Filled
  <2>4. pc'[c] = (IF ask[c].to = "tsm" /\ IsSEV(ReadProvider(c)) THEN "second" ELSE "read")
        /\ \A d \in Calls \ {c} : pc'[d] = pc[d]
    BY <1>5 DEF FirstRead, TypeOK
  <2>5. pc'[c] = "read" => Fetched(c)'
    BY <1>5, FirstReadFetches
  <2>6. Answered(c)'
    BY <1>1, <1>4 DEF Answered
  <2>7. CallInv(c)'
    BY <1>1, <1>2, <1>3, <1>4, <2>1, <2>3, <2>4, <2>5, <2>6 DEF CallInv
  <2>8. QED
    BY <1>1, <2>1, <2>4, <2>7 DEF Leaves
<1>6. CASE SecondRead(c)
  <2>1. /\ Single(out'[c]) /\ Unserved(out'[c]) /\ out'[c].outblob = out[c].outblob
        /\ out'[c].auxblob = ReadAux(c)
        /\ \A d \in Calls \ {c} : out'[d] = out[d]
    BY <1>6, SecondReadFills
  <2>2. ask[c].to = "tsm" /\ Filled(c)
    BY <1>2, <1>6 DEF CallInv, SecondRead
  <2>3. Filled(c)'
    BY <1>1, <2>1, <2>2 DEF Filled
  <2>4. pc'[c] = "read" /\ \A d \in Calls \ {c} : pc'[d] = pc[d]
    BY <1>6 DEF SecondRead, TypeOK
  <2>5. platform.certs => ReadAux(c) # {}
    BY <2>2, Zenon DEF ReadAux
  <2>6. Fetched(c)'
    BY <1>1, <2>1, <2>5, Zenon DEF Fetched
  <2>7. Answered(c)'
    BY <1>1, <1>4 DEF Answered
  <2>8. CallInv(c)'
    BY <1>1, <1>2, <1>3, <1>4, <2>1, <2>3, <2>4, <2>6, <2>7 DEF CallInv
  <2>9. QED
    BY <1>1, <2>1, <2>4, <2>8 DEF Leaves
<1>7. QED
    BY <1>5, <1>6

LEMMA StartingKeepsInv ==
    ASSUME TypeOK, AttesterInv, NEW c \in Calls, GetSupportedFormats(c) \/ Begin(c)
    PROVE  CallInv(c)' /\ \A d \in Calls \ {c} : Leaves(d)
<1>1. /\ platform' = platform /\ ask' = ask /\ out' = out /\ answer' = answer
      /\ pc[c] \in {"new", "offered"}
    BY DEF GetSupportedFormats, Begin, env
<1>2. CallInv(c)
    BY DEF AttesterInv
<1>3. answer[c] = Unanswered
    BY <1>1, <1>2 DEF CallInv
<1>4. answer[c].evidence = {} /\ answer[c].status = 0
    BY <1>3 DEF Unanswered
<1>5. Answered(c)'
    BY <1>1, <1>4 DEF Answered
<1>6. CASE GetSupportedFormats(c)
  <2>1. /\ pc'[c] = "offered"
        /\ offered'[c] \subseteq SupportedFormats(ask[c].to)
        /\ \A d \in Calls \ {c} : pc'[d] = pc[d] /\ offered'[d] = offered[d]
    BY <1>6 DEF GetSupportedFormats, TypeOK
  <2>2. CallInv(c)'
    BY <1>1, <1>2, <1>3, <1>4, <1>5, <2>1 DEF CallInv
  <2>3. QED
    BY <1>1, <2>1, <2>2 DEF Leaves
<1>7. CASE Begin(c)
  <2>1. /\ pc'[c] = "first" /\ offered' = offered /\ ~Malformed(ask[c])
        /\ \A d \in Calls \ {c} : pc'[d] = pc[d]
    BY <1>7 DEF Begin, TypeOK
  <2>2. CallInv(c)'
    BY <1>1, <1>2, <1>3, <1>4, <1>5, <2>1 DEF CallInv
  <2>3. QED
    BY <1>1, <2>1, <2>2 DEF Leaves
<1>8. QED
    BY <1>6, <1>7

LEMMA FinishingKeepsInv ==
    ASSUME TypeOK, AttesterInv, NEW c \in Calls,
           \/ Refuse(c) \/ ClientFails(c) \/ ReadFails(c) \/ CannotEncode(c) \/ Return(c)
    PROVE  CallInv(c)' /\ \A d \in Calls \ {c} : Leaves(d)
<1>1. UNCHANGED <<env, offered, since, out>>
    BY DEF Refuse, ClientFails, ReadFails, CannotEncode, Return
<1>2. CallInv(c)
    BY DEF AttesterInv
<1>3. ASSUME NEW status, NEW evidence, Answer(c, status, evidence),
             status = 400 => Malformed(ask[c]),
             \A d \in evidence : /\ d = Encode(out[c], ask[c].type)
                                 /\ Valid(out[c]) /\ Filled(c) /\ Fetched(c)
                                 /\ ~Malformed(ask[c])
      PROVE  CallInv(c)' /\ \A d \in Calls \ {c} : Leaves(d)
    BY <1>1, <1>2, <1>3, AnsweringKeepsInv DEF Leaves, env
<1>4. CASE Return(c)
  <2>1. Answer(c, 200, {Encode(out[c], ask[c].type)}) /\ Valid(out[c]) /\ pc[c] = "read"
    BY <1>4 DEF Return
  <2>2. Filled(c) /\ Fetched(c) /\ ~Malformed(ask[c])
    BY <1>2, <2>1 DEF CallInv
  <2>3. QED
    BY <1>3, <2>1, <2>2
<1>5. CASE Refuse(c)
  <2>1. Answer(c, 400, {}) /\ Malformed(ask[c])
    BY <1>5 DEF Refuse
  <2>2. QED
    BY <1>3, <2>1
<1>6. CASE ClientFails(c) \/ ReadFails(c) \/ CannotEncode(c)
  <2>1. Answer(c, 500, {})
    BY <1>6 DEF ClientFails, ReadFails, CannotEncode
  <2>2. QED
    BY <1>3, <2>1
<1>7. QED
    BY <1>4, <1>5, <1>6

LEMMA NextAttesterInv == TypeOK /\ AttesterInv /\ [Next]_vars => AttesterInv'
<1> SUFFICES ASSUME TypeOK, AttesterInv, [Next]_vars PROVE AttesterInv'
    OBVIOUS
<1>1. ASSUME NEW d \in Calls, Leaves(d) PROVE CallInv(d)'
    BY <1>1, CallFrame DEF Leaves, AttesterInv
<1>2. ASSUME NEW c \in Calls, GetSupportedFormats(c) \/ GetEvidence(c) PROVE AttesterInv'
  <2>1. CallInv(c)' /\ \A d \in Calls \ {c} : Leaves(d)
    BY <1>2, ReadingKeepsInv, StartingKeepsInv, FinishingKeepsInv DEF GetEvidence
  <2>2. QED
    BY <1>1, <2>1 DEF AttesterInv
<1>3. CASE Update \/ ComeOrGo \/ UNCHANGED vars
  <2>1. \A d \in Calls : Leaves(d)
    BY <1>3 DEF Update, ComeOrGo, vars, env, Leaves
  <2>2. QED
    BY <1>1, <2>1 DEF AttesterInv
<1>4. QED
    BY <1>2, <1>3 DEF Next

\* The state of the attesters keeps its types.
THEOREM TypeCorrect == Spec => []TypeOK
<1>1. Init => TypeOK /\ AttesterInv
    BY InitTypeOK, InitAttesterInv
<1>2. QED
    BY <1>1, NextTypeOK, NextAttesterInv, PTL DEF Spec

\* The inductive invariant: what a call holds between two of its steps was made for it.
THEOREM CallInvariant == Spec => []AttesterInv
<1>1. Init => TypeOK /\ AttesterInv
    BY InitTypeOK, InitAttesterInv
<1>2. QED
    BY <1>1, NextTypeOK, NextAttesterInv, PTL DEF Spec

-----------------------------------------------------------------------------
(* What is announced is accepted *)

LEMMA AnnouncedIsWellFormed ==
    ASSUME NEW a \in Ask, [type |-> a.type, size |-> a.nonce.len] \in SupportedFormats(a.to),
           a.parses, a.level # "invalid"
    PROVE  ~Malformed(a)
<1>1. PICK t \in Types(a.to) : [type |-> a.type, size |-> a.nonce.len]
                                 = [type |-> t, size |-> NonceSize]
    BY DEF SupportedFormats
<1>2. a.type = t /\ a.nonce.len = NonceSize
  <2>1. /\ [type |-> a.type, size |-> a.nonce.len].type = a.type
        /\ [type |-> a.type, size |-> a.nonce.len].size = a.nonce.len
        /\ [type |-> t, size |-> NonceSize].type = t
        /\ [type |-> t, size |-> NonceSize].size = NonceSize
    OBVIOUS
  <2>2. QED
    BY <1>1, <2>1
<1>3. QED
    BY <1>1, <1>2, Zenon DEF Malformed

\* A caller that keeps to what was announced is never told that it made a mistake.
THEOREM AnnouncedIsAcceptedTheorem == Spec => []AnnouncedIsAccepted
<1>1. TypeOK /\ AttesterInv => AnnouncedIsAccepted
  <2> SUFFICES ASSUME TypeOK, AttesterInv, NEW c \in Calls,
                      [type |-> ask[c].type, size |-> ask[c].nonce.len] \in offered[c],
                      ask[c].parses, ask[c].level # "invalid"
               PROVE  answer[c].status # 400
    BY DEF AnnouncedIsAccepted
  <2>1. CallInv(c)
    BY DEF AttesterInv
  <2>2. offered[c] \subseteq SupportedFormats(ask[c].to)
        /\ (answer[c].status = 400 => Malformed(ask[c]))
    BY <2>1 DEF CallInv
  <2>3. ask[c] \in Ask
    BY AsksAssumption DEF TypeOK
  <2>4. ~Malformed(ask[c])
    BY <2>2, <2>3, AnnouncedIsWellFormed
  <2>5. QED
    BY <2>2, <2>4
<1>2. QED
    BY <1>1, TypeCorrect, CallInvariant, PTL

-----------------------------------------------------------------------------
(* Reports are of this call *)

\* The versions in a report are of the time of the call.
VersionsFitAt(c) ==
    /\ since[c] <= version
    /\ pc[c] \in {"new", "offered", "first"} => out[c].outblob = {}
    /\ ask[c].to = "tsm" =>
         /\ \A b \in out[c].outblob : b.version \in since[c]..version
         /\ \A b \in out[c].outblob, v \in out[c].auxblob : v \in b.version..version

VersionsFit == \A c \in Calls : VersionsFitAt(c)

LEMMA InitVersionsFit == Init => VersionsFit
    BY DEF Init, VersionsFit, VersionsFitAt, NoReport

LEMMA NaturalVersions ==
    ASSUME TypeOK, NEW c \in Calls
    PROVE  /\ version \in Nat /\ since[c] \in Nat
           /\ \A b \in out[c].outblob : b.version \in Nat
           /\ out[c].auxblob \subseteq Nat
    BY MaxVersionAssumption DEF TypeOK, Report, Blob

LEMMA NextVersionsFit == TypeOK /\ AttesterInv /\ VersionsFit /\ [Next]_vars => VersionsFit'
<1> SUFFICES ASSUME TypeOK, AttesterInv, VersionsFit, [Next]_vars PROVE VersionsFit'
    OBVIOUS
<1>1. ASSUME NEW c \in Calls, UNCHANGED <<version, ask>>, since'[c] = since[c], out'[c] = out[c],
             pc'[c] = pc[c] \/ pc'[c] \notin {"new", "offered", "first"}
      PROVE  VersionsFitAt(c)'
    BY <1>1 DEF VersionsFit, VersionsFitAt
<1>2. ASSUME NEW c \in Calls, GetSupportedFormats(c) PROVE VersionsFit'
  <2>1. UNCHANGED <<version, ask, since, out>> /\ pc[c] = "new"
    BY <1>2 DEF GetSupportedFormats, env
  <2>2. pc'[c] = "offered" /\ \A d \in Calls \ {c} : pc'[d] = pc[d]
    BY <1>2 DEF GetSupportedFormats, TypeOK
  <2>3. VersionsFitAt(c)'
    BY <2>1, <2>2 DEF VersionsFit, VersionsFitAt
  <2>4. QED
    BY <1>1, <2>1, <2>2, <2>3 DEF VersionsFit
<1>3. ASSUME NEW c \in Calls, Begin(c) PROVE VersionsFit'
  <2>1. UNCHANGED <<version, ask, out>> /\ pc[c] \in {"new", "offered"}
    BY <1>3 DEF Begin, env
  <2>2. /\ pc'[c] = "first" /\ since'[c] = version
        /\ \A d \in Calls \ {c} : pc'[d] = pc[d] /\ since'[d] = since[d]
    BY <1>3 DEF Begin, TypeOK
  <2>3. VersionsFitAt(c)'
    BY <2>1, <2>2, NaturalVersions DEF VersionsFit, VersionsFitAt
  <2>4. QED
    BY <1>1, <2>1, <2>2, <2>3 DEF VersionsFit
<1>4. ASSUME NEW c \in Calls, FirstRead(c) PROVE VersionsFit'
  <2>1. UNCHANGED <<version, ask, since>> /\ pc[c] = "first"
    BY <1>4 DEF FirstRead, env
  <2>2. ~Malformed(ask[c])
    BY <2>1 DEF AttesterInv, CallInv
  <2>3. /\ out'[c].outblob = {ReadBlob(c)} /\ (ask[c].to = "tsm" => out'[c].auxblob = {})
        /\ \A d \in Calls \ {c} : out'[d] = out[d]
    BY <1>4, <2>2, FirstReadFills
  <2>4. pc'[c] \in {"second", "read"} /\ \A d \in Calls \ {c} : pc'[d] = pc[d]
    BY <1>4 DEF FirstRead, TypeOK
  <2>5. ask[c].to = "tsm" => ReadBlob(c).version = version
    BY DEF ReadBlob
  <2>6. VersionsFitAt(c)'
    BY <2>1, <2>3, <2>4, <2>5, NaturalVersions DEF VersionsFit, VersionsFitAt
  <2>7. QED
    BY <1>1, <2>1, <2>3, <2>4, <2>6 DEF VersionsFit
<1>5. ASSUME NEW c \in Calls, SecondRead(c) PROVE VersionsFit'
  <2>1. UNCHANGED <<version, ask, since>>
    BY <1>5 DEF SecondRead, env
  <2>2. /\ out'[c].outblob = out[c].outblob /\ out'[c].auxblob = ReadAux(c)
        /\ \A d \in Calls \ {c} : out'[d] = out[d]
    BY <1>5, SecondReadFills
  <2>3. pc'[c] = "read" /\ \A d \in Calls \ {c} : pc'[d] = pc[d]
    BY <1>5 DEF SecondRead, TypeOK
  <2>4. ask[c].to = "tsm" => ReadAux(c) \subseteq {version}
    BY DEF ReadAux
  <2>5. VersionsFitAt(c)'
    BY <2>1, <2>2, <2>3, <2>4, NaturalVersions DEF VersionsFit, VersionsFitAt
  <2>6. QED
    BY <1>1, <2>1, <2>2, <2>3, <2>5 DEF VersionsFit
<1>6. ASSUME NEW c \in Calls,
             Refuse(c) \/ ClientFails(c) \/ ReadFails(c) \/ CannotEncode(c) \/ Return(c)
      PROVE  VersionsFit'
  <2>1. UNCHANGED <<version, ask, since, out>>
    BY <1>6 DEF Refuse, ClientFails, ReadFails, CannotEncode, Return, env
  <2>2. pc' = [pc EXCEPT ![c] = "done"]
    BY <1>6 DEF Refuse, ClientFails, ReadFails, CannotEncode, Return, Answer
  <2>3. \A d \in Calls : pc'[d] = pc[d] \/ pc'[d] = "done"
    BY <2>2 DEF TypeOK
  <2>4. QED
    BY <1>1, <2>1, <2>3 DEF VersionsFit
<1>7. CASE Update \/ ComeOrGo \/ UNCHANGED vars
  <2>1. UNCHANGED <<ask, pc, since, out>>
    BY <1>7 DEF Update, ComeOrGo, vars, env
  <2>2. version' = version \/ version' = version + 1
    BY <1>7 DEF Update, ComeOrGo, vars, env
  <2>3. ASSUME NEW c \in Calls PROVE VersionsFitAt(c)'
    BY <2>1, <2>2, NaturalVersions DEF VersionsFit, VersionsFitAt
  <2>4. QED
    BY <2>3 DEF VersionsFit
<1>8. QED
    BY <1>2, <1>3, <1>4, <1>5, <1>6, <1>7 DEF Next, GetEvidence

\* Reports are read during the call, certificates are not older than their report, and
\* an SEV guest has them where there are any.
THEOREM ReadDuringCallTheorem == Spec => []ReadDuringCall
<1>1. AttesterInv /\ VersionsFit => ReadDuringCall
  <2> SUFFICES ASSUME AttesterInv, VersionsFit, NEW c \in Calls, ask[c].to = "tsm"
               PROVE  /\ \A b \in out[c].outblob : b.version \in since[c]..version
                      /\ \A b \in out[c].outblob, v \in out[c].auxblob :
                           v \in b.version..version
                      /\ \A d \in answer[c].evidence :
                           platform.certs /\ (\E p \in platform.provider : p.name = "sev_guest")
                               => "auxblob" \in DOMAIN d.fields
    BY Zenon DEF ReadDuringCall
  <2>1. /\ \A b \in out[c].outblob : b.version \in since[c]..version
        /\ \A b \in out[c].outblob, v \in out[c].auxblob : v \in b.version..version
    BY DEF VersionsFit, VersionsFitAt
  <2>2. ASSUME NEW d \in answer[c].evidence, platform.certs,
               \E p \in platform.provider : p.name = "sev_guest"
        PROVE  "auxblob" \in DOMAIN d.fields
    <3>1. d = Encode(out[c], ask[c].type) /\ Fetched(c)
      BY DEF AttesterInv, CallInv, Answered
    <3>2. out[c].auxblob # {}
      BY <2>2, <3>1, Zenon DEF Fetched, IsSEV
    <3>3. DOMAIN d.fields = Present(out[c])
      BY <3>1 DEF Encode
    <3>4. QED
      BY <3>2, <3>3 DEF Present, NoReport
  <2>3. QED
    BY <2>1, <2>2, Zenon
<1>2. Init => TypeOK /\ AttesterInv /\ VersionsFit
    BY InitTypeOK, InitAttesterInv, InitVersionsFit
<1>3. QED
    BY <1>1, <1>2, NextTypeOK, NextAttesterInv, NextVersionsFit, PTL DEF Spec

-----------------------------------------------------------------------------
(* Evidence reads back *)

\* Decoding a valid report's document into an object leaves the object's field only
\* where the report has none.
LEMMA ReadBack ==
    ASSUME NEW report \in Report, Single(report), NEW media, NEW object
    PROVE  Decoded(object, Encode(report, media))
             = [f \in DOMAIN NoReport |-> IF report[f] # {} THEN report[f] ELSE object[f]]
<1> DEFINE d == Encode(report, media)
<1>1. d.fields = [f \in Present(report) |-> CHOOSE v \in report[f] : TRUE]
    BY DEF Encode
<1>2. ASSUME NEW f \in DOMAIN NoReport
      PROVE  (IF f \in DOMAIN d.fields THEN {d.fields[f]} ELSE object[f])
               = (IF report[f] # {} THEN report[f] ELSE object[f])
  <2>1. f \in DOMAIN d.fields <=> report[f] # {}
    BY <1>1 DEF Present
  <2>2. CASE report[f] # {}
    <3>1. d.fields[f] = CHOOSE v \in report[f] : TRUE
      BY <1>1, <2>2 DEF Present
    <3>2. d.fields[f] \in report[f]
      BY <2>2, <3>1
    <3>3. report[f] = {d.fields[f]}
      BY <3>2 DEF Single
    <3>4. QED
      BY <2>1, <2>2, <3>3
  <2>3. QED
    BY <2>1, <2>2
<1> HIDE DEF d
<1>3. QED
    BY <1>2, Zenon DEF Decoded, d

LEMMA ReadBackFresh ==
    ASSUME NEW report \in Report, Single(report), NEW media
    PROVE  Decoded(NoReport, Encode(report, media)) = report
<1>1. Decoded(NoReport, Encode(report, media))
        = [f \in DOMAIN NoReport |-> IF report[f] # {} THEN report[f] ELSE NoReport[f]]
    BY ReadBack
<1>2. \A f \in DOMAIN NoReport : NoReport[f] = {}
    BY DEF NoReport
<1>3. report = [f \in DOMAIN NoReport |-> report[f]]
    BY DEF Report, NoReport
<1>4. QED
    BY <1>1, <1>2, <1>3

\* Whatever evidence is returned, a reader gets the report back that was read, also one
\* that uses an object again, but for what this report does not have.
THEOREM EvidenceReadsBackTheorem == Spec => []EvidenceReadsBack
<1>1. TypeOK /\ AttesterInv => EvidenceReadsBack
  <2> SUFFICES ASSUME TypeOK, AttesterInv, NEW c \in Calls, NEW d \in answer[c].evidence
               PROVE  /\ Decoded(NoReport, d) = out[c]
                      /\ Valid(Decoded(NoReport, d))
                      /\ \A e \in Documents :
                           LET again == Decoded(Decoded(NoReport, e), d)
                           IN  /\ Valid(again)
                               /\ again.provider = out[c].provider
                               /\ again.outblob = out[c].outblob
                               /\ out[c].auxblob # {} => again.auxblob = out[c].auxblob
    BY DEF EvidenceReadsBack
  <2>1. \A x \in Calls : out[x] \in Report /\ Single(out[x]) /\ Unserved(out[x])
    BY DEF TypeOK, AttesterInv, CallInv
  <2>2. \A x \in Calls : \A e \in answer[x].evidence : e = Encode(out[x], ask[x].type)
    BY DEF AttesterInv, CallInv, Answered
  <2>3. Valid(out[c])
    BY DEF AttesterInv, CallInv, Answered
  <2>4. \A x \in Calls : \A e \in answer[x].evidence : Decoded(NoReport, e) = out[x]
    BY <2>1, <2>2, ReadBackFresh
  <2>5. ASSUME NEW e \in Documents
        PROVE  LET again == Decoded(Decoded(NoReport, e), d)
               IN  /\ Valid(again)
                   /\ again.provider = out[c].provider
                   /\ again.outblob = out[c].outblob
                   /\ out[c].auxblob # {} => again.auxblob = out[c].auxblob
    <3>1. PICK x \in Calls : e \in answer[x].evidence
      BY DEF Documents
    <3> DEFINE again == Decoded(out[x], d)
    <3>2. again = [f \in DOMAIN NoReport |->
                     IF out[c][f] # {} THEN out[c][f] ELSE out[x][f]]
      BY <2>1, <2>2, ReadBack
    <3> HIDE DEF again
    <3>3. DOMAIN NoReport
            = {"provider", "outblob", "auxblob", "manifestblob", "service_provider"}
      BY DEF NoReport
    <3>4. /\ again.provider = out[c].provider
          /\ again.outblob = out[c].outblob
          /\ again.manifestblob = {}
          /\ out[c].auxblob # {} => again.auxblob = out[c].auxblob
      BY <2>1, <2>3, <3>2, <3>3 DEF Valid, Unserved
    <3>5. Valid(again)
      BY <2>3, <3>4 DEF Valid
    <3>6. Decoded(Decoded(NoReport, e), d) = again
      BY <2>4, <3>1 DEF again
    <3>7. QED
      BY <3>4, <3>5, <3>6
  <2>6. QED
    BY <2>3, <2>4, <2>5
<1>2. QED
    BY <1>1, TypeCorrect, CallInvariant, PTL

-----------------------------------------------------------------------------
(* The attesters implement Plugin *)

reply == [c \in Calls |-> ReplyOf(ask[c].to, answer[c])]

LEMMA ReplyKinds ==
    ASSUME NEW to, NEW given
    PROVE  /\ given.status = 0 => ReplyOf(to, given) = [kind |-> "none"]
           /\ given.status = 400 => ReplyOf(to, given) = [kind |-> "refused"]
           /\ given.status = 500 => ReplyOf(to, given) = [kind |-> "failed"]
           /\ given.status = 200 =>
                ReplyOf(to, given) = [kind |-> "evidence",
                                      for |-> MadeFor(to, CHOOSE d \in given.evidence : TRUE)]
<1> DEFINE ok  == 200
           bad == 400
           bug == 500
           none     == [kind |-> "none"]
           refused  == [kind |-> "refused"]
           failed   == [kind |-> "failed"]
           evidence == [kind |-> "evidence",
                        for |-> MadeFor(to, CHOOSE d \in given.evidence : TRUE)]
<1>1. 0 # bad /\ 0 # bug /\ 0 # ok /\ bad # bug /\ bad # ok /\ bug # ok
    OBVIOUS
<1>2. ReplyOf(to, given) = CASE given.status = 0   -> none
                             [] given.status = bad -> refused
                             [] given.status = bug -> failed
                             [] OTHER -> evidence
    BY Zenon DEF ReplyOf
<1> SUFFICES /\ given.status = 0 => ReplyOf(to, given) = none
             /\ given.status = bad => ReplyOf(to, given) = refused
             /\ given.status = bug => ReplyOf(to, given) = failed
             /\ given.status = ok => ReplyOf(to, given) = evidence
    OBVIOUS
<1> HIDE DEF ok, bad, bug, none, refused, failed, evidence
<1>3. QED
    BY <1>1, <1>2

LEMMA InitContract == Init => Contract!Init
<1> SUFFICES ASSUME Init PROVE Contract!Init
    OBVIOUS
<1>1. \A c \in Calls : answer[c].status = 0
    BY DEF Init, Unanswered
<1>2. \A c \in Calls : ReplyOf(ask[c].to, answer[c]) = [kind |-> "none"]
    BY <1>1, ReplyKinds
<1>3. ask \in [Calls -> Asks]
    BY DEF Init
<1>4. QED
    BY <1>2, <1>3 DEF Contract!Init

\* One answer more is one reply more.
LEMMA AnswerReplies ==
    ASSUME TypeOK, AttesterInv, NEW c \in Calls, pc[c] # "done", UNCHANGED ask,
           NEW status, NEW evidence, Answer(c, status, evidence)
    PROVE  LET given == [status |-> status, evidence |-> evidence]
           IN  Contract!Replies(c, ReplyOf(ask[c].to, given))
<1> DEFINE given == [status |-> status, evidence |-> evidence]
<1> HIDE DEF given
<1>1. answer' = [answer EXCEPT ![c] = given]
    BY DEF Answer, given
<1>2. answer'[c] = given /\ \A d \in Calls \ {c} : answer'[d] = answer[d]
    BY <1>1 DEF TypeOK
<1>3. reply' = [d \in Calls |-> ReplyOf(ask[d].to, answer'[d])]
    BY DEF reply
<1>4. reply' = [reply EXCEPT ![c] = ReplyOf(ask[c].to, given)]
    BY <1>2, <1>3 DEF reply
<1>5. answer[c] = Unanswered
    BY DEF AttesterInv, CallInv
<1>6. answer[c].status = 0
    BY <1>5 DEF Unanswered
<1>7. reply[c] = [kind |-> "none"]
    BY <1>6, ReplyKinds DEF reply
<1>8. QED
    BY <1>4, <1>7 DEF Contract!Replies, reply, given

\* Evidence is for what was asked.
LEMMA EvidenceIsForTheAsk ==
    ASSUME TypeOK, NEW c \in Calls, Filled(c), ~Malformed(ask[c]), NEW d,
           d = Encode(out[c], ask[c].type)
    PROVE  MadeFor(ask[c].to, d) = ask[c]
<1>1. /\ d.type = ask[c].type
      /\ d.fields = [f \in Present(out[c]) |-> CHOOSE v \in out[c][f] : TRUE]
    BY DEF Encode
<1>2. "outblob" \in Present(out[c])
    BY DEF Filled, Present, NoReport
<1>3. d.fields["outblob"] \in out[c].outblob
    BY <1>1, <1>2 DEF Filled
<1>4. d.fields["outblob"].nonce = ask[c].nonce /\ d.fields["outblob"].level = ask[c].level
    BY <1>3 DEF Filled
<1>5. ask[c] \in Ask
    BY AsksAssumption DEF TypeOK
<1>6. ask[c].parses \in BOOLEAN
    BY <1>5 DEF Ask
<1>7. ask[c].parses = TRUE
    BY <1>6, Zenon DEF Malformed
<1>8. ask[c] = [to |-> ask[c].to, nonce |-> ask[c].nonce, type |-> ask[c].type,
                parses |-> ask[c].parses, level |-> ask[c].level]
    BY <1>5 DEF Ask
<1>9. QED
    BY <1>1, <1>4, <1>7, <1>8 DEF MadeFor

LEMMA StepContract ==
    TypeOK /\ AttesterInv /\ [Next]_vars => [Contract!Next]_<<ask, reply>>
<1> SUFFICES ASSUME TypeOK, AttesterInv, [Next]_vars PROVE [Contract!Next]_<<ask, reply>>
    OBVIOUS
<1>1. ASSUME UNCHANGED <<ask, answer>> PROVE UNCHANGED <<ask, reply>>
    BY <1>1 DEF reply
<1>2. ASSUME NEW c \in Calls, Refuse(c) PROVE Contract!Next
  <2>1. Answer(c, 400, {}) /\ ask' = ask /\ pc[c] # "done" /\ Malformed(ask[c])
    BY <1>2 DEF Refuse, env
  <2>2. ReplyOf(ask[c].to, [status |-> 400, evidence |-> {}]) = [kind |-> "refused"]
    BY ReplyKinds
  <2>3. Contract!Replies(c, [kind |-> "refused"])
    BY <2>1, <2>2, AnswerReplies
  <2>4. ask[c] \in {a \in Asks : Malformed(a)}
    BY <2>1 DEF TypeOK
  <2>5. QED
    BY <2>3, <2>4 DEF Contract!Next, Contract!Refuse
<1>3. ASSUME NEW c \in Calls, ClientFails(c) \/ ReadFails(c) \/ CannotEncode(c)
      PROVE  Contract!Next
  <2>1. Answer(c, 500, {}) /\ ask' = ask /\ pc[c] \in {"first", "second", "read"}
    BY <1>3 DEF ClientFails, ReadFails, CannotEncode, env
  <2>2. ReplyOf(ask[c].to, [status |-> 500, evidence |-> {}]) = [kind |-> "failed"]
    BY ReplyKinds
  <2>3. Contract!Replies(c, [kind |-> "failed"])
    BY <2>1, <2>2, AnswerReplies
  <2>4. ask[c] \notin {a \in Asks : Malformed(a)}
    BY <2>1 DEF AttesterInv, CallInv
  <2>5. QED
    BY <2>3, <2>4 DEF Contract!Next, Contract!Fail
<1>4. ASSUME NEW c \in Calls, Return(c) PROVE Contract!Next
  <2> DEFINE d == Encode(out[c], ask[c].type)
             given == [status |-> 200, evidence |-> {d}]
  <2>1. Answer(c, 200, {d}) /\ ask' = ask /\ pc[c] = "read"
    BY <1>4 DEF Return, env
  <2>2. Filled(c) /\ ~Malformed(ask[c])
    BY <2>1 DEF AttesterInv, CallInv
  <2>3. MadeFor(ask[c].to, d) = ask[c]
    BY <2>2, EvidenceIsForTheAsk
  <2> HIDE DEF d
  <2>4. given.status = 200 /\ (CHOOSE e \in given.evidence : TRUE) = d
    OBVIOUS
  <2>5. ReplyOf(ask[c].to, given) = [kind |-> "evidence", for |-> ask[c]]
    <3> HIDE DEF given
    <3>1. QED
      BY <2>3, <2>4, ReplyKinds
  <2>6. Contract!Replies(c, [kind |-> "evidence", for |-> ask[c]])
    BY <2>1, <2>5, AnswerReplies
  <2>7. ask[c] \notin {a \in Asks : Malformed(a)}
    BY <2>2
  <2>8. QED
    BY <2>6, <2>7 DEF Contract!Next, Contract!Attest
<1>5. ASSUME NEW c \in Calls,
             GetSupportedFormats(c) \/ Begin(c) \/ FirstRead(c) \/ SecondRead(c)
      PROVE  UNCHANGED <<ask, answer>>
    BY <1>5 DEF GetSupportedFormats, Begin, FirstRead, SecondRead, env
<1>6. ASSUME Update \/ ComeOrGo \/ UNCHANGED vars PROVE UNCHANGED <<ask, answer>>
    BY <1>6 DEF Update, ComeOrGo, vars, env
<1>7. QED
    BY <1>1, <1>2, <1>3, <1>4, <1>5, <1>6 DEF Next, GetEvidence

\* The attesters implement the contract that ratsd counts on: each GetEvidence call is
\* answered once, with a refusal just when it is malformed, or with evidence for it.
THEOREM ImplementsPluginTheorem == Spec => ImplementsPlugin
<1>1. Init => TypeOK /\ AttesterInv /\ Contract!Init
    BY InitTypeOK, InitAttesterInv, InitContract
<1>2. QED
    BY <1>1, NextTypeOK, NextAttesterInv, StepContract, PTL
       DEF Spec, ImplementsPlugin, Contract!Spec, reply

=============================================================================
