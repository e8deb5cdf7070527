-------------------------- MODULE ChangeLedgerProofs --------------------------
(* What a batch of change actions promises, for every resume and letter.      *)
EXTENDS ChangeLedger, SequenceFolds

\* A batch disposes of recorded ids only, and of no other record.
LEMMA DisposedOthers ==
    ASSUME NEW batch \in Batches
    PROVE  /\ DOMAIN batch \subseteq DOMAIN ledger
           /\ DOMAIN Disposed(batch) = DOMAIN ledger
           /\ \A id \in DOMAIN ledger \ DOMAIN batch : Disposed(batch)[id] = ledger[id]
<1>1. DOMAIN batch \subseteq DOMAIN ledger
  <2>1. PICK S \in SUBSET DOMAIN ledger : batch \in [S -> Actions]
    BY DEF Batches
  <2> QED BY <2>1
<1> QED BY <1>1 DEF Disposed

\* Records of paragraphs belong to the letter.
LEMMA ParagraphArtifact ==
    \A p \in Paragraphs : ArtifactOf(ParagraphId(p)) = "cover_letter"
BY DEF ArtifactOf, ParagraphId

(***************************************************************************)
(* A kit under review                                                      *)
(***************************************************************************)
\* services.py:305-314: while the input of a kit waits for a review, no batch
\* touches the record of an artifact that was withheld.
THEOREM FrozenRecords == Spec => WithheldRecordsFrozen
<1> DEFINE Frozen == RollUp(reports) = "needs_input_review" =>
                       \A id \in DOMAIN ledger :
                         reports[ArtifactOf(id)] \notin Delivered => ledger'[id] = ledger[id]
<1>1. ASSUME NEW batch \in Batches, ApplyBatch(batch) PROVE Frozen
  <2>1. ledger' = Disposed(batch)
    BY <1>1 DEF ApplyBatch
  <2>2. MayChange(reports, {ArtifactOf(id) : id \in DOMAIN batch})
    BY <1>1 DEF ApplyBatch
  <2>3. SUFFICES ASSUME RollUp(reports) = "needs_input_review",
                        NEW id \in DOMAIN ledger, reports[ArtifactOf(id)] \notin Delivered
                 PROVE  ledger'[id] = ledger[id]
    OBVIOUS
  <2>4. id \notin DOMAIN batch
    BY <2>2, <2>3 DEF MayChange
  <2> QED BY <2>1, <2>4, DisposedOthers
<1>2. [Next]_vars => Frozen
  <2>1. CASE UNCHANGED vars
    BY <2>1 DEF vars
  <2>2. CASE Next
    BY <1>1, <2>2 DEF Next
  <2> QED BY <2>1, <2>2
<1>3. [Next]_vars => [Frozen]_vars
  BY <1>2
<1> QED BY <1>3, PTL DEF Spec, WithheldRecordsFrozen

(***************************************************************************)
(* The cover letter                                                        *)
(***************************************************************************)
\* Every paragraph of a letter that was delivered has its record, for good.
Ledgered ==
    page.has.cover_letter => \A p \in Paragraphs : ParagraphId(p) \in DOMAIN ledger

LetterInv == Ledgered /\ LetterFollowsLedger

\* The first ledger and the first letter agree ...
LEMMA LetterInit == Init => LetterInv
<1> SUFFICES ASSUME Init PROVE LetterInv
  OBVIOUS
<1>1. PICK preferred \in Delivered \cup {"needs_input_review"}, document \in [Primary -> BOOLEAN] :
        /\ ledger = [id \in Recorded(plan, health, document) |->
                       NewRecord(plan, id, document.resume)]
        /\ page.letter = (IF document.cover_letter THEN Paragraphs ELSE {})
        /\ page.has = document
  BY DEF Init
<1>2. ASSUME page.has.cover_letter, NEW p \in Paragraphs
      PROVE  /\ ParagraphId(p) \in DOMAIN ledger
             /\ ledger[ParagraphId(p)].status = "proposed"
  <2>1. ParagraphId(p) \in Ids /\ ParagraphId(p)[1] = "paragraph"
    BY DEF Ids, ParagraphId
  <2>2. ParagraphId(p) \in Recorded(plan, health, document)
    BY <1>1, <1>2, <2>1 DEF Recorded
  <2>3. NewRecord(plan, ParagraphId(p), document.resume) = Record("added", Blank, Blank)
    BY <2>1 DEF NewRecord
  <2> QED BY <1>1, <2>2, <2>3 DEF Record
<1>3. Ledgered
  BY <1>2 DEF Ledgered
<1>4. LetterFollowsLedger
  BY <1>1, <1>2 DEF LetterFollowsLedger, IsRejected
<1> QED BY <1>3, <1>4 DEF LetterInv

\* ... and a batch keeps them in agreement.
LEMMA LetterBatch ==
    ASSUME LetterInv, NEW batch \in Batches, ApplyBatch(batch)
    PROVE  LetterInv'
<1> DEFINE targets == {ArtifactOf(id) : id \in DOMAIN batch}
<1>1. /\ ledger' = Disposed(batch)
      /\ page'.has = page.has
      /\ page'.letter = IF "cover_letter" \in targets /\ page.has["cover_letter"]
                        THEN Letter(Disposed(batch)) ELSE page.letter
      /\ "cover_letter" \in targets /\ page.has["cover_letter"]
           => Usable(Letter(Disposed(batch)))
  BY DEF ApplyBatch
<1>2. DOMAIN ledger' = DOMAIN ledger
  BY <1>1, DisposedOthers
<1>3. Ledgered'
  BY <1>1, <1>2 DEF LetterInv, Ledgered
<1>4. ASSUME page'.has.cover_letter
      PROVE  /\ page'.letter = {p \in Paragraphs : ~IsRejected(ParagraphId(p))'}
             /\ page'.letter # Paragraphs => EnoughWords(page'.letter)
  <2>1. page.has.cover_letter /\ \A p \in Paragraphs : ParagraphId(p) \in DOMAIN ledger
    BY <1>1, <1>4 DEF LetterInv, Ledgered
  <2>2. CASE "cover_letter" \in targets
    BY <1>1, <1>2, <2>1, <2>2 DEF Letter, Usable, IsRejected
  <2>3. CASE "cover_letter" \notin targets
    <3>1. \A p \in Paragraphs : ParagraphId(p) \notin DOMAIN batch
      BY <2>3, ParagraphArtifact
    <3>2. \A p \in Paragraphs : ledger'[ParagraphId(p)] = ledger[ParagraphId(p)]
      BY <1>1, <2>1, <3>1, DisposedOthers
    <3> QED BY <1>1, <1>2, <2>1, <2>3, <3>2 DEF LetterInv, LetterFollowsLedger, IsRejected
  <2> QED BY <2>2, <2>3
<1> QED BY <1>3, <1>4 DEF LetterInv, LetterFollowsLedger

\* change_actions.py:461-463: whatever batches were applied, the letter holds
\* exactly the paragraphs that are not rejected, and one that lost a paragraph
\* keeps the usable number of words.
THEOREM LetterNeverDrifts == Spec => []LetterFollowsLedger
<1>1. LetterInv /\ [Next]_vars => LetterInv'
  <2> SUFFICES ASSUME LetterInv, [Next]_vars PROVE LetterInv'
    OBVIOUS
  <2>1. CASE UNCHANGED vars
    BY <2>1 DEF vars, LetterInv, Ledgered, LetterFollowsLedger, IsRejected
  <2>2. CASE Next
    BY <2>2, LetterBatch DEF Next
  <2> QED BY <2>1, <2>2
<1>2. LetterInv => LetterFollowsLedger
  BY DEF LetterInv
<1> QED BY LetterInit, <1>1, <1>2, PTL DEF Spec

(***************************************************************************)
(* What may be exported                                                    *)
(***************************************************************************)
LEMMA DocumentsInit == Init => DeliveredDocuments
<1> SUFFICES ASSUME Init PROVE DeliveredDocuments
  OBVIOUS
<1>1. PICK preferred \in Delivered \cup {"needs_input_review"}, document \in [Primary -> BOOLEAN] :
        /\ health \in [Primary -> ArtifactStatuses]
        /\ \A a \in Primary :
             document[a] <=> /\ health[a] \in {"generated", "repaired"}
                             /\ a = "resume" => preferred # "needs_input_review"
        /\ page.letter = (IF document["cover_letter"] THEN Paragraphs ELSE {})
        /\ page.has = document
        /\ reports = [k \in Kinds |->
                        IF k = "resume" THEN Report(health[k] # "none", health[k], preferred)
                        ELSE IF k = "cover_letter"
                        THEN Report(health[k] # "none", health[k], "generated")
                        ELSE "not_requested"]
  BY DEF Init
<1>2. ASSUME NEW a \in Primary, reports[a] \in Delivered
      PROVE  page.has[a] /\ health[a] \in {"generated", "repaired"}
  <2>1. CASE a = "resume"
    <3>1. reports[a] = Report(health[a] # "none", health[a], preferred)
      BY <1>1, <2>1 DEF Kinds, Primary
    <3>2. health[a] \in {"generated", "repaired"} /\ preferred \in Delivered
      BY <1>1, <1>2, <3>1 DEF Report, Delivered, ArtifactStatuses
    <3> QED BY <1>1, <2>1, <3>2 DEF Delivered
  <2>2. CASE a = "cover_letter"
    <3>1. reports[a] = Report(health[a] # "none", health[a], "generated")
      BY <1>1, <2>2 DEF Kinds, Primary
    <3>2. health[a] \in {"generated", "repaired"}
      BY <1>1, <1>2, <3>1 DEF Report, Delivered, ArtifactStatuses
    <3> QED BY <1>1, <2>2, <3>2
  <2> QED BY <2>1, <2>2 DEF Primary
<1>3. Paragraphs # {}
  <2>1. Words \in Seq(Nat) /\ Words # <<>>
    BY LedgerAssumption
  <2>2. Len(Words) \in Nat /\ Len(Words) # 0 /\ DOMAIN Words = 1..Len(Words)
    BY <2>1
  <2>3. 1 \in DOMAIN Words
    BY <2>2
  <2> QED BY <2>3 DEF Paragraphs
<1> QED BY <1>1, <1>2, <1>3 DEF DeliveredDocuments, MayExport

\* A batch leaves the delivered artifacts valid.
LEMMA DocumentsBatch ==
    ASSUME DeliveredDocuments, NEW batch \in Batches, ApplyBatch(batch)
    PROVE  DeliveredDocuments'
<1> DEFINE rebuilt == {a \in {ArtifactOf(id) : id \in DOMAIN batch} : page.has[a]}
<1>1. /\ reports' = reports
      /\ page'.has = page.has
      /\ page'.letter = IF "cover_letter" \in rebuilt THEN Letter(Disposed(batch)) ELSE page.letter
      /\ "cover_letter" \in rebuilt => Usable(Letter(Disposed(batch)))
      /\ \E repaired \in BOOLEAN :
           health' = [a \in Primary |->
                        IF a \notin rebuilt THEN health[a]
                        ELSE ValidationStatus(FALSE, a = "resume" /\ repaired)]
  BY DEF ApplyBatch
<1> HIDE DEF rebuilt
<1> SUFFICES ASSUME NEW a \in Primary, reports'[a] \in Delivered
             PROVE  /\ MayExport(reports, a, page.has[a])'
                    /\ health'[a] \in {"generated", "repaired"}
                    /\ a = "cover_letter" => page'.letter # {}
  BY DEF DeliveredDocuments
<1>2. MayExport(reports, a, page.has[a])'
  BY <1>1 DEF DeliveredDocuments, MayExport
<1>3. health'[a] \in {"generated", "repaired"}
  BY <1>1 DEF DeliveredDocuments, ValidationStatus
<1>4. a = "cover_letter" => page'.letter # {}
  BY <1>1 DEF DeliveredDocuments, Usable
<1> QED BY <1>2, <1>3, <1>4

(***************************************************************************)
(* Texts taken out of a sequence                                           *)
(***************************************************************************)
\* One turn of the fold of Without.
Unless(rest, t, text) == IF t = text THEN rest ELSE Append(rest, t)

\* What Without leaves of the first k texts, for every k.
Trace(trace, n, X, texts, text) ==
    /\ trace \in [0..n -> Seq(X)]
    /\ trace[0] = <<>>
    /\ \A k \in 1..n : trace[k] = Unless(trace[k - 1], texts[k], text)
    /\ Without(texts, text) = trace[n]

\* Without looks at one text after the other.
LEMMA WithoutStepwise ==
    ASSUME NEW X, NEW texts \in Seq(X), NEW text
    PROVE  \E trace : Trace(trace, Len(texts), X, texts, text)
<1> DEFINE n == Len(texts)
           S == Seq(X)
           F == [p \in S \X (1..n) |-> Unless(p[1], texts[p[2]], text)]
           Rec(it) == [s \in SUBSET (1..n) |->
                         IF s = {} THEN <<>>
                         ELSE Unless(it[s \ {Max(s)}], texts[Max(s)], text)]
           it == CHOOSE i : i = Rec(i)
<1>1. n \in Nat /\ DOMAIN texts = 1..n /\ <<>> \in S OBVIOUS
<1>2. \A a \in S, i \in 1..n : F[<<a, i>>] = Unless(a, texts[i], text) /\ F[<<a, i>>] \in S
  BY DEF Unless
<1>3. Without(texts, text) = it[1..n]
  BY <1>1 DEF Without, FoldLeft, MapThenFoldSet, Unless
<1> HIDE DEF n, S, F
<1>4. PICK w : Solves(w, n, S, <<>>, F) BY <1>1, <1>2, FoldExists DEF S
<1>5. w = Rec(w)
  <2>1. ASSUME NEW s \in SUBSET (1..n)
        PROVE  w[s] = IF s = {} THEN <<>> ELSE Unless(w[s \ {Max(s)}], texts[Max(s)], text)
    <3>1. CASE s = {} BY <1>4, <3>1 DEF Solves
    <3>2. CASE s # {}
      <4>1. Max(s) \in 1..n /\ w[s \ {Max(s)}] \in S BY <1>1, <1>4, <3>2, SolvesTyped
      <4>2. w[s] = F[<<w[s \ {Max(s)}], Max(s)>>] BY <1>4, <3>2 DEF Solves
      <4> QED BY <1>2, <3>2, <4>1, <4>2
    <3> QED BY <3>1, <3>2
  <2>2. w = [s \in SUBSET (1..n) |-> w[s]] BY <1>4 DEF Solves
  <2> QED BY <2>1, <2>2
<1>6. it = Rec(it) BY <1>5
<1> HIDE DEF it
<1> DEFINE trace == [k \in 0..n |-> it[1..k]]
<1>7. trace[0] = <<>> BY <1>1, <1>6, IntervalPrefixes
<1>8. ASSUME NEW k \in 1..n
      PROVE  trace[k] = Unless(trace[k - 1], texts[k], text)
  <2>1. 1..k \in SUBSET (1..n) /\ 1..k # {} /\ Max(1..k) = k /\ (1..k) \ {k} = 1..(k - 1)
    BY <1>1, IntervalPrefixes
  <2>2. it[1..k] = Unless(it[(1..k) \ {Max(1..k)}], texts[Max(1..k)], text)
    BY <1>6, <2>1
  <2>3. k \in 0..n /\ k - 1 \in 0..n BY <1>1
  <2> QED BY <2>1, <2>2, <2>3
<1>9. n \in 0..n /\ DOMAIN trace = 0..n BY <1>1
<1>10. Without(texts, text) = trace[n] BY <1>3, <1>9
<1> HIDE DEF trace
<1>11. trace \in [0..n -> S]
  <2> DEFINE T == {k \in 0..n : trace[k] \in S}
  <2>1. 0 \in T BY <1>1, <1>7
  <2>2. ASSUME NEW k \in 1..n, k - 1 \in T PROVE k \in T
    <3>1. k \in 0..n /\ trace[k - 1] \in S BY <1>1, <2>2
    <3>2. trace[k] \in S BY <1>2, <1>8, <3>1
    <3> QED BY <3>1, <3>2
  <2> HIDE DEF T
  <2>3. 0..n \subseteq T BY <1>1, <2>1, <2>2, BoundedInduction
  <2>4. \A k \in 0..n : trace[k] \in S BY <2>3 DEF T
  <2>5. trace = [k \in 0..n |-> trace[k]] BY DEF trace
  <2> QED BY <2>4, <2>5
<1>12. Trace(trace, n, X, texts, text) BY <1>7, <1>8, <1>10, <1>11 DEF S, Trace
<1> QED BY ONLY <1>12 DEF n

\* What is left are texts of the sequence.
LEMMA WithoutTyped ==
    ASSUME NEW X, NEW texts \in Seq(X), NEW text
    PROVE  Without(texts, text) \in Seq(X)
<1>1. Len(texts) \in 0..Len(texts) OBVIOUS
<1>2. PICK trace : Trace(trace, Len(texts), X, texts, text) BY WithoutStepwise
<1> QED BY <1>1, <1>2 DEF Trace

\* A text that is nowhere cannot be taken out.
LEMMA WithoutNothing ==
    ASSUME NEW X, NEW texts \in Seq(X), NEW text, \A i \in 1..Len(texts) : texts[i] # text
    PROVE  Without(texts, text) = texts
<1> DEFINE n == Len(texts)
<1>1. n \in Nat OBVIOUS
<1>t. PICK trace : Trace(trace, n, X, texts, text) BY WithoutStepwise
<1>2. /\ trace \in [0..n -> Seq(X)]
      /\ trace[0] = <<>>
      /\ \A k \in 1..n : trace[k] = Unless(trace[k - 1], texts[k], text)
      /\ Without(texts, text) = trace[n]
  BY <1>t DEF Trace
<1> HIDE DEF n
<1> DEFINE T == {k \in 0..n : Len(trace[k]) = k /\ \A j \in 1..k : trace[k][j] = texts[j]}
<1>3. 0 \in T BY <1>1, <1>2
<1>4. ASSUME NEW k \in 1..n, k - 1 \in T PROVE k \in T
  <2>1. k \in 0..n /\ k - 1 \in 0..n /\ texts[k] \in X BY <1>1 DEF n
  <2>2. trace[k - 1] \in Seq(X) /\ trace[k] = Append(trace[k - 1], texts[k])
    BY <1>2, <2>1 DEF Unless, n
  <2>3. Len(trace[k - 1]) = k - 1 /\ \A j \in 1..(k - 1) : trace[k - 1][j] = texts[j] BY <1>4
  <2>4. Len(trace[k]) = k BY <2>1, <2>2, <2>3, AppendProperties
  <2>5. \A j \in 1..(k - 1) : trace[k][j] = texts[j] BY <2>1, <2>2, <2>3, AppendProperties
  <2>6. trace[k][k] = texts[k] BY <2>1, <2>2, <2>3, AppendProperties
  <2>7. \A j \in 1..k : j \in 1..(k - 1) \/ j = k BY <2>1
  <2> QED BY <2>1, <2>4, <2>5, <2>6, <2>7
<1> HIDE DEF T
<1>5. n \in T
  <2>1. 0..n \subseteq T BY <1>1, <1>3, <1>4, BoundedInduction
  <2> QED BY <1>1, <2>1
<1>6. Len(trace[n]) = n /\ \A j \in 1..n : trace[n][j] = texts[j] BY <1>5 DEF T
<1>7. trace[n] \in Seq(X) BY <1>1, <1>2
<1> QED BY <1>2, <1>6, <1>7, SeqEqual DEF n

\* A text that is in one place leaves the others in order.
LEMMA WithoutOne ==
    ASSUME NEW X, NEW texts \in Seq(X), NEW p \in 1..Len(texts),
           \A i \in 1..Len(texts) : i # p => texts[i] # texts[p]
    PROVE  /\ Len(Without(texts, texts[p])) = Len(texts) - 1
           /\ \A j \in 1..(p - 1) : Without(texts, texts[p])[j] = texts[j]
           /\ \A j \in p..(Len(texts) - 1) : Without(texts, texts[p])[j] = texts[j + 1]
<1> DEFINE n == Len(texts)
<1>1. n \in Nat /\ p \in 1..n OBVIOUS
<1>t. PICK trace : Trace(trace, n, X, texts, texts[p])
  <2>1. \A x : \E trace : Trace(trace, Len(texts), X, texts, x) BY WithoutStepwise
  <2> QED BY <2>1
<1>2. /\ trace \in [0..n -> Seq(X)]
      /\ trace[0] = <<>>
      /\ \A k \in 1..n : trace[k] = Unless(trace[k - 1], texts[k], texts[p])
      /\ Without(texts, texts[p]) = trace[n]
  BY <1>t DEF Trace
<1> HIDE DEF n
<1> DEFINE Left(k) == IF k < p THEN k ELSE k - 1
           T == {k \in 0..n : /\ Len(trace[k]) = Left(k)
                              /\ \A j \in 1..Left(k) : trace[k][j] = IF j < p THEN texts[j] ELSE texts[j + 1]}
<1>3. 0 \in T BY <1>1, <1>2
<1>4. ASSUME NEW k \in 1..n, k - 1 \in T PROVE k \in T
  <2>1. k \in 0..n /\ k - 1 \in 0..n /\ texts[k] \in X /\ trace[k - 1] \in Seq(X) BY <1>1, <1>2 DEF n
  <2>2. /\ Len(trace[k - 1]) = Left(k - 1)
        /\ \A j \in 1..Left(k - 1) : trace[k - 1][j] = IF j < p THEN texts[j] ELSE texts[j + 1]
    BY <1>4
  <2>3. CASE k = p
    <3>1. trace[k] = trace[k - 1] /\ Left(k) = Left(k - 1) BY <1>1, <1>2, <2>3 DEF Unless
    <3> QED BY <2>1, <2>2, <3>1
  <2>4. CASE k # p
    <3>1. trace[k] = Append(trace[k - 1], texts[k]) BY <1>2, <2>4 DEF Unless, n
    <3>2. Left(k) = Left(k - 1) + 1 /\ Left(k - 1) \in Nat BY <1>1, <2>1, <2>4
    <3>3. texts[k] = IF Left(k) < p THEN texts[Left(k)] ELSE texts[Left(k) + 1]
      BY <1>1, <2>1, <2>4
    <3> HIDE DEF Left
    <3>4. /\ Len(trace[k]) = Left(k) /\ trace[k][Left(k)] = texts[k]
          /\ \A j \in 1..Left(k - 1) : trace[k][j] = trace[k - 1][j]
      BY <2>1, <2>2, <3>1, <3>2, AppendProperties
    <3>5. \A j \in 1..Left(k) : j \in 1..Left(k - 1) \/ j = Left(k) BY <3>2
    <3> QED BY <2>1, <2>2, <3>3, <3>4, <3>5
  <2> QED BY <2>3, <2>4
<1> HIDE DEF T
<1>5. n \in T
  <2>1. 0..n \subseteq T BY <1>1, <1>3, <1>4, BoundedInduction
  <2> QED BY <1>1, <2>1
<1>6. Left(n) = n - 1 BY <1>1
<1>7. Len(trace[n]) = n - 1 /\ \A j \in 1..(n - 1) : trace[n][j] = IF j < p THEN texts[j] ELSE texts[j + 1]
  BY <1>5, <1>6 DEF T
<1>8. \A j \in 1..(p - 1) : j \in 1..(n - 1) /\ j < p BY <1>1
<1>9. \A j \in p..(n - 1) : j \in 1..(n - 1) /\ ~(j < p) BY <1>1
<1> DEFINE w == Without(texts, texts[p])
<1>10. w = trace[n] BY <1>2
<1> HIDE DEF w
<1>11. /\ Len(w) = n - 1 /\ \A j \in 1..(p - 1) : w[j] = texts[j]
       /\ \A j \in p..(n - 1) : w[j] = texts[j + 1]
  BY <1>7, <1>8, <1>9, <1>10
<1> QED BY <1>11 DEF n, w

(***************************************************************************)
(* What records and documents are made of                                  *)
(***************************************************************************)
Texts == [of : Nat, form : {"source", "tailored", "redacted", "blank"}]
Changes ==
    [op : Decisions \cup {"added", "removed"}, original : Texts, tailored : Texts,
     status : {"proposed", "accepted", "rejected"}]

\* What a record says besides its status was settled with the plan, and a resume
\* that was delivered has the record of everything the plan changed.
Drawn ==
    /\ plan \in Plans /\ page.bullets \in Seq(Texts) /\ page.has \in [Primary -> BOOLEAN]
    /\ \A id \in DOMAIN ledger : ledger[id] \in Changes
    /\ \A i \in Bullets : BulletId(i) \in DOMAIN ledger =>
          /\ ledger[BulletId(i)].op = plan.bullet[i] /\ ledger[BulletId(i)].original = Source(i)
          /\ ledger[BulletId(i)].tailored = TailoredText(plan, i, page.has["resume"])
    /\ SummaryId \in DOMAIN ledger =>
          ledger[SummaryId].op = "rewritten" /\ ledger[SummaryId].original = Source(0)
          /\ ledger[SummaryId].tailored = Tailored(0)
    /\ page.has["resume"] =>
          /\ \A i \in Bullets : BulletId(i) \in DOMAIN ledger <=> plan.bullet[i] # "kept"
          /\ SummaryId \in DOMAIN ledger <=> plan.summary # "kept"

\* The bullets of a role are numbered.
LEMMA BulletsNumbered ==
    /\ BulletCount \in Nat /\ Bullets = 1..BulletCount /\ Bullets \subseteq Nat
    /\ Misread \subseteq Bullets
BY LedgerAssumption DEF Bullets

\* The texts of a plan.
LEMMA TextsTyped ==
    /\ Blank \in Texts /\ \A u \in Nat : Source(u) \in Texts /\ Tailored(u) \in Texts
    /\ \A t \in Texts : Ground(t) \in Texts
BY DEF Texts, Blank, Source, Tailored, Ground

\* What a plan decides of a bullet.
LEMMA DecidedTyped ==
    ASSUME NEW p \in Plans, NEW i \in Bullets
    PROVE  /\ Decided(p, i) \in Texts
           /\ p.bullet[i] = "kept" => Decided(p, i) = Source(i)
           /\ p.bullet[i] = "rewritten" => Decided(p, i) = Tailored(i)
           /\ p.bullet[i] = "omitted" => Decided(p, i) = Blank
           /\ p.bullet[i] # "omitted" => Decided(p, i).of = i /\ Decided(p, i) # Blank
           /\ p.bullet[i] \in Decisions
<1>1. p.bullet[i] \in Decisions BY DEF Plans
<1>2. i \in Nat BY BulletsNumbered
<1>3. /\ p.bullet[i] = "kept" => Decided(p, i) = Source(i)
      /\ p.bullet[i] = "rewritten" => Decided(p, i) = Tailored(i)
      /\ p.bullet[i] = "omitted" => Decided(p, i) = Blank
  BY DEF Decided
<1>4. Source(i).of = i /\ Tailored(i).of = i /\ Source(i) # Blank /\ Tailored(i) # Blank
  BY DEF Source, Tailored, Blank
<1> QED BY <1>1, <1>2, <1>3, <1>4, TextsTyped DEF Decisions

\* The delivered document.
LEMMA DocumentTyped ==
    ASSUME NEW p \in Plans
    PROVE  /\ [i \in Bullets |-> Decided(p, i)] \in Seq(Texts)
           /\ Len([i \in Bullets |-> Decided(p, i)]) = BulletCount
           /\ DocumentBullets(p) \in Seq(Texts)
<1> DEFINE d == [i \in Bullets |-> Decided(p, i)]
<1>1. d \in [1..BulletCount -> Texts] BY DecidedTyped, BulletsNumbered
<1>2. d \in Seq(Texts) /\ Len(d) = BulletCount
  BY <1>1, BulletsNumbered
<1> HIDE DEF d
<1>3. Without(d, Blank) \in Seq(Texts) BY <1>2, WithoutTyped
<1> QED BY <1>2, <1>3 DEF DocumentBullets, d

\* What the ledger says a rewrite delivered.
LEMMA TailoredTyped ==
    ASSUME NEW p \in Plans, NEW i \in Bullets, NEW h \in BOOLEAN
    PROVE  TailoredText(p, i, h) \in Texts
<1>1. CASE h /\ i <= Len(DocumentBullets(p))
  <2>1. i \in 1..Len(DocumentBullets(p)) BY <1>1, BulletsNumbered
  <2>2. DocumentBullets(p)[i] \in Texts BY <2>1, DocumentTyped, ElementOfSeq
  <2> QED BY <1>1, <2>2 DEF TailoredText
<1>2. CASE ~(h /\ i <= Len(DocumentBullets(p))) BY <1>2, DecidedTyped DEF TailoredText
<1> QED BY <1>1, <1>2

\* The kinds of records do not overlap.
LEMMA IdsApart ==
    /\ \A i \in Bullets : BulletId(i) \in Ids /\ BulletId(i)[1] = "bullet" /\ BulletId(i)[2] = i
    /\ \A p \in Paragraphs : ParagraphId(p)[1] = "paragraph"
    /\ SummaryId \in Ids /\ SummaryId[1] = "summary" /\ RemovalId[1] = "removal"
    /\ \A id \in Ids : \/ id = SummaryId \/ id = RemovalId
                       \/ \E i \in Bullets : id = BulletId(i)
                       \/ \E p \in Paragraphs : id = ParagraphId(p)
    /\ \A i, j \in Bullets : BulletId(i) = BulletId(j) => i = j
    /\ \A i \in Bullets : BulletId(i) # SummaryId
BY DEF Ids, BulletId, SummaryId, RemovalId, ParagraphId

\* The first records.
LEMMA NewRecordTyped ==
    ASSUME NEW p \in Plans, NEW h \in BOOLEAN
    PROVE  /\ \A id \in Ids : NewRecord(p, id, h) \in Changes
           /\ \A i \in Bullets :
                NewRecord(p, BulletId(i), h) = Record(p.bullet[i], Source(i), TailoredText(p, i, h))
           /\ NewRecord(p, SummaryId, h) = Record("rewritten", Source(0), Tailored(0))
<1>1. \A i \in Bullets :
        NewRecord(p, BulletId(i), h) = Record(p.bullet[i], Source(i), TailoredText(p, i, h))
  BY IdsApart DEF NewRecord
<1>2. NewRecord(p, SummaryId, h) = Record("rewritten", Source(0), Tailored(0))
  BY IdsApart DEF NewRecord
<1>3. \A q \in Paragraphs : NewRecord(p, ParagraphId(q), h) = Record("added", Blank, Blank)
  BY IdsApart DEF NewRecord
<1>4. NewRecord(p, RemovalId, h) = Record("removed", Blank, Blank)
  BY IdsApart DEF NewRecord
<1>5. \A op \in Decisions \cup {"added", "removed"}, o, t \in Texts : Record(op, o, t) \in Changes
  BY DEF Record, Changes
<1>6. \A i \in Bullets : NewRecord(p, BulletId(i), h) \in Changes
  <2> TAKE i \in Bullets
  <2>1. i \in Nat /\ p.bullet[i] \in Decisions /\ Source(i) \in Texts /\ TailoredText(p, i, h) \in Texts
    BY BulletsNumbered, DecidedTyped, TextsTyped, TailoredTyped
  <2> QED BY <1>1, <1>5, <2>1
<1>7. 0 \in Nat /\ "rewritten" \in Decisions BY DEF Decisions
<1> QED BY <1>1, <1>2, <1>3, <1>4, <1>5, <1>6, <1>7, TextsTyped, IdsApart

\* Generation draws up the ledger.
LEMMA DrawnInit == Init => Drawn
<1> SUFFICES ASSUME Init PROVE Drawn OBVIOUS
<1>1. PICK document \in [Primary -> BOOLEAN] :
        /\ plan \in Plans /\ health \in [Primary -> ArtifactStatuses]
        /\ document["resume"] => health["resume"] \in {"generated", "repaired"}
        /\ ledger = [id \in Recorded(plan, health, document) |->
                       NewRecord(plan, id, document["resume"])]
        /\ page.bullets = (IF document["resume"] THEN DocumentBullets(plan) ELSE <<>>)
        /\ page.has = document
  BY DEF Init, Primary
<1>2. document["resume"] \in BOOLEAN BY <1>1 DEF Primary
<1>3. page.bullets \in Seq(Texts)
  <2>1. DocumentBullets(plan) \in Seq(Texts) BY <1>1, DocumentTyped
  <2>2. <<>> \in Seq(Texts) OBVIOUS
  <2> QED BY <1>1, <1>2, <2>1, <2>2
<1>4. Recorded(plan, health, document) \subseteq Ids BY DEF Recorded
<1>5. \A id \in DOMAIN ledger : ledger[id] \in Changes BY <1>1, <1>2, <1>4, NewRecordTyped
<1>6. \A i \in Bullets : BulletId(i) \in DOMAIN ledger =>
          /\ ledger[BulletId(i)].op = plan.bullet[i] /\ ledger[BulletId(i)].original = Source(i)
          /\ ledger[BulletId(i)].tailored = TailoredText(plan, i, page.has["resume"])
  BY <1>1, <1>2, NewRecordTyped DEF Record
<1>7. SummaryId \in DOMAIN ledger =>
          ledger[SummaryId].op = "rewritten" /\ ledger[SummaryId].original = Source(0)
          /\ ledger[SummaryId].tailored = Tailored(0)
  BY <1>1, <1>2, NewRecordTyped DEF Record
<1>8. ASSUME page.has["resume"]
      PROVE  /\ \A i \in Bullets : BulletId(i) \in DOMAIN ledger <=> plan.bullet[i] # "kept"
             /\ SummaryId \in DOMAIN ledger <=> plan.summary # "kept"
  <2>1. health["resume"] # "none" BY <1>1, <1>8
  <2>2. \A i \in Bullets : BulletId(i) \in Recorded(plan, health, document) <=> plan.bullet[i] # "kept"
    BY <2>1, IdsApart DEF Recorded
  <2>3. SummaryId \in Recorded(plan, health, document) <=> plan.summary # "kept"
    BY <2>1, IdsApart DEF Recorded
  <2> QED BY <1>1, <2>2, <2>3
<1> QED BY <1>1, <1>3, <1>5, <1>6, <1>7, <1>8 DEF Drawn

(***************************************************************************)
(* A batch replayed                                                        *)
(***************************************************************************)
\* The text a record stands for.
LEMMA EffectiveTyped ==
    ASSUME NEW r \in Changes
    PROVE  Effective(r) \in Texts
BY TextsTyped DEF Effective, Changes

\* A record of a removal made true of the page.
LEMMA OmissionTyped ==
    ASSUME NEW bullets \in Seq(Texts), NEW i \in Bullets, NEW r \in Changes
    PROVE  ApplyOmission(bullets, i, r) \in Seq(Texts)
<1>1. r.original \in Texts BY DEF Changes
<1>2. Without(bullets, r.original) \in Seq(Texts) BY WithoutTyped
<1>3. InsertAt(bullets, Min({i, Len(bullets) + 1}), r.original) \in Seq(Texts)
  <2>1. i \in Nat /\ i >= 1 /\ Len(bullets) \in Nat BY BulletsNumbered
  <2>2. Min({i, Len(bullets) + 1}) \in 1..(Len(bullets) + 1)
    <3>1. {i, Len(bullets) + 1} \in SUBSET Nat /\ {i, Len(bullets) + 1} # {} BY <2>1
    <3> QED BY <2>1, <3>1, MinIsLeast
  <2> QED BY <1>1, <2>2, InsertedElement
<1> QED BY <1>2, <1>3 DEF ApplyOmission

\* A record of a rewrite written into its slot.
LEMMA SetTyped ==
    ASSUME NEW bullets \in Seq(Texts), NEW i \in Bullets, NEW r \in Changes
    PROVE  SetBullet(bullets, i, r) \in Seq(Texts)
<1> DEFINE slots == {j \in DOMAIN bullets : bullets[j] = r.tailored}
           at == IF r.tailored # Blank /\ Cardinality(slots) = 1
                 THEN CHOOSE j \in slots : TRUE ELSE i
<1>1. DOMAIN bullets = 1..Len(bullets) /\ Len(bullets) \in Nat OBVIOUS
<1>2. at \in Nat /\ at >= 1
  <2>1. Cardinality(slots) = 1 => slots # {}
    <3>1. slots = {} => Cardinality(slots) = 0 BY FS_EmptySet
    <3> HIDE DEF slots
    <3> QED BY <3>1
  <2>2. slots # {} => (CHOOSE j \in slots : TRUE) \in slots BY Zenon
  <2>3. i \in Nat /\ i >= 1 BY BulletsNumbered
  <2> QED BY <1>1, <2>1, <2>2, <2>3
<1>3. SetBullet(bullets, i, r) =
        IF at > Len(bullets) THEN bullets ELSE [bullets EXCEPT ![at] = Effective(r)]
  BY DEF SetBullet, ReplaceAt
<1> HIDE DEF at
<1>4. ~(at > Len(bullets)) => at \in 1..Len(bullets) BY <1>1, <1>2
<1>5. ~(at > Len(bullets)) => [bullets EXCEPT ![at] = Effective(r)] \in Seq(Texts)
  BY <1>4, EffectiveTyped, ExceptSeq
<1> QED BY <1>3, <1>5

\* One record.
LEMMA ReplayTyped ==
    ASSUME NEW records, \A id \in DOMAIN records : records[id] \in Changes,
           NEW bullets \in Seq(Texts), NEW i \in Bullets
    PROVE  ReplayRecord(bullets, i, records) \in Seq(Texts)
BY OmissionTyped, SetTyped DEF ReplayRecord

\* All records, one after the other.
LEMMA ReplayStepwise ==
    ASSUME NEW records, \A id \in DOMAIN records : records[id] \in Changes,
           NEW bullets \in Seq(Texts)
    PROVE  \E trace \in [0..BulletCount -> Seq(Texts)] :
              /\ trace[0] = bullets
              /\ \A k \in 1..BulletCount : trace[k] = ReplayRecord(trace[k - 1], k, records)
              /\ Replay(bullets, records) = trace[BulletCount]
<1> DEFINE n == BulletCount
           S == Seq(Texts)
           order == [i \in Bullets |-> i]
           F == [p \in S \X (1..n) |-> ReplayRecord(p[1], order[p[2]], records)]
           Rec(it) == [s \in SUBSET (1..n) |->
                         IF s = {} THEN bullets
                         ELSE ReplayRecord(it[s \ {Max(s)}], order[Max(s)], records)]
           it == CHOOSE i : i = Rec(i)
<1>1. n \in Nat /\ DOMAIN order = 1..n /\ Bullets = 1..n BY BulletsNumbered
<1>0. \A k \in 1..n : order[k] = k BY <1>1
<1>2. \A a \in S, i \in 1..n : F[<<a, i>>] = ReplayRecord(a, order[i], records) /\ F[<<a, i>>] \in S
  BY <1>0, <1>1, ReplayTyped
<1>3. Replay(bullets, records) = it[1..n]
  BY <1>1 DEF Replay, FoldLeft, MapThenFoldSet
<1> HIDE DEF n, S, F, order
<1>4. PICK w : Solves(w, n, S, bullets, F)
  <2>1. bullets \in S BY DEF S
  <2> QED BY <1>1, <1>2, <2>1, FoldExists
<1>5. w = Rec(w)
  <2>1. ASSUME NEW s \in SUBSET (1..n)
        PROVE  w[s] = IF s = {} THEN bullets ELSE ReplayRecord(w[s \ {Max(s)}], order[Max(s)], records)
    <3>1. CASE s = {} BY <1>4, <3>1 DEF Solves
    <3>2. CASE s # {}
      <4>1. Max(s) \in 1..n /\ w[s \ {Max(s)}] \in S BY <1>1, <1>4, <3>2, SolvesTyped
      <4>2. w[s] = F[<<w[s \ {Max(s)}], Max(s)>>] BY <1>4, <3>2 DEF Solves
      <4> QED BY <1>2, <3>2, <4>1, <4>2
    <3> QED BY <3>1, <3>2
  <2>2. w = [s \in SUBSET (1..n) |-> w[s]] BY <1>4 DEF Solves
  <2> QED BY <2>1, <2>2
<1>6. it = Rec(it) BY <1>5
<1> HIDE DEF it
<1> DEFINE trace == [k \in 0..n |-> it[1..k]]
<1>7. trace[0] = bullets BY <1>1, <1>6, IntervalPrefixes
<1>8. ASSUME NEW k \in 1..n
      PROVE  trace[k] = ReplayRecord(trace[k - 1], k, records)
  <2>1. 1..k \in SUBSET (1..n) /\ 1..k # {} /\ Max(1..k) = k /\ (1..k) \ {k} = 1..(k - 1)
    BY <1>1, IntervalPrefixes
  <2>2. it[1..k] = ReplayRecord(it[(1..k) \ {Max(1..k)}], order[Max(1..k)], records)
    BY <1>6, <2>1
  <2>3. k \in 0..n /\ k - 1 \in 0..n BY <1>1
  <2> QED BY <1>0, <2>1, <2>2, <2>3
<1>9. n \in 0..n /\ DOMAIN trace = 0..n BY <1>1
<1>10. Replay(bullets, records) = trace[n] BY <1>3, <1>9
<1> HIDE DEF trace
<1>11. trace \in [0..n -> S]
  <2> DEFINE T == {k \in 0..n : trace[k] \in S}
  <2>1. 0 \in T BY <1>1, <1>7 DEF S
  <2>2. ASSUME NEW k \in 1..n, k - 1 \in T PROVE k \in T
    <3>1. k \in 0..n /\ trace[k - 1] \in S /\ k \in Bullets BY <1>1, <2>2
    <3>2. trace[k] \in S BY <1>8, <3>1, ReplayTyped DEF S
    <3> QED BY <3>1, <3>2
  <2> HIDE DEF T
  <2>3. 0..n \subseteq T BY <1>1, <2>1, <2>2, BoundedInduction
  <2>4. \A k \in 0..n : trace[k] \in S BY <2>3 DEF T
  <2>5. trace = [k \in 0..n |-> trace[k]] BY DEF trace
  <2> QED BY <2>4, <2>5
<1> QED BY <1>7, <1>8, <1>10, <1>11 DEF n, S

\* The page that is made of what a batch left.
LEMMA ReplayedPage ==
    ASSUME NEW records, \A id \in DOMAIN records : records[id] \in Changes,
           NEW bullets \in Seq(Texts)
    PROVE  /\ Replay(bullets, records) \in Seq(Texts)
           /\ [j \in DOMAIN Replay(bullets, records) |-> Ground(Replay(bullets, records)[j])] \in Seq(Texts)
<1> DEFINE new == Replay(bullets, records)
<1>1. new \in Seq(Texts)
  <2>1. BulletCount \in 0..BulletCount BY BulletsNumbered
  <2>2. PICK trace \in [0..BulletCount -> Seq(Texts)] : new = trace[BulletCount] BY ReplayStepwise
  <2> HIDE DEF new
  <2> QED BY <2>1, <2>2
<1> HIDE DEF new
<1>2. Len(new) \in Nat /\ DOMAIN new = 1..Len(new) /\ \A j \in 1..Len(new) : new[j] \in Texts BY <1>1
<1>3. [j \in DOMAIN new |-> Ground(new[j])] \in [1..Len(new) -> Texts] BY <1>2, TextsTyped
<1>4. [j \in DOMAIN new |-> Ground(new[j])] \in Seq(Texts) BY <1>2, <1>3
<1> QED BY <1>1, <1>4 DEF new

\* What a batch does to the ledger.
LEMMA DisposedRecords ==
    ASSUME Drawn, NEW batch \in Batches
    PROVE  /\ DOMAIN Disposed(batch) = DOMAIN ledger
           /\ \A id \in DOMAIN ledger :
                /\ Disposed(batch)[id] \in Changes
                /\ Disposed(batch)[id].op = ledger[id].op
                /\ Disposed(batch)[id].original = ledger[id].original
                /\ Disposed(batch)[id].tailored = ledger[id].tailored
<1>1. PICK ids \in SUBSET DOMAIN ledger : batch \in [ids -> Actions] BY DEF Batches
<1>2. \A id \in DOMAIN batch : StatusAfter(batch[id]) \in {"proposed", "accepted", "rejected"}
  BY <1>1 DEF StatusAfter, Actions
<1>3. \A id \in DOMAIN ledger : ledger[id] \in Changes BY DEF Drawn
<1>4. \A id \in DOMAIN ledger :
        Disposed(batch)[id] = IF id \in DOMAIN batch THEN [ledger[id] EXCEPT !.status = StatusAfter(batch[id])]
                              ELSE ledger[id]
  BY DEF Disposed
<1>5. DOMAIN Disposed(batch) = DOMAIN ledger BY DEF Disposed
<1> QED BY <1>2, <1>3, <1>4, <1>5 DEF Changes

\* A batch rules on records and rewords nothing in them.
LEMMA DrawnBatch ==
    ASSUME Drawn, NEW batch \in Batches, ApplyBatch(batch)
    PROVE  Drawn'
<1> DEFINE records == Disposed(batch)
           new == Replay(page.bullets, records)
<1>1. /\ ledger' = records /\ plan' = plan /\ page'.has = page.has
      /\ page'.bullets \in {page.bullets, [j \in DOMAIN new |-> Ground(new[j])]}
  BY DEF ApplyBatch
<1>2. page'.bullets \in Seq(Texts)
  <2>1. page.bullets \in Seq(Texts) BY DEF Drawn
  <2>2. \A id \in DOMAIN records : records[id] \in Changes BY DisposedRecords
  <2> HIDE DEF records
  <2>3. [j \in DOMAIN new |-> Ground(new[j])] \in Seq(Texts) BY <2>1, <2>2, ReplayedPage
  <2> QED BY <1>1, <2>1, <2>3
<1> HIDE DEF new
<1>3. \A i \in Bullets : BulletId(i) \in DOMAIN records =>
          /\ records[BulletId(i)].op = plan.bullet[i] /\ records[BulletId(i)].original = Source(i)
          /\ records[BulletId(i)].tailored = TailoredText(plan, i, page.has["resume"])
  BY DisposedRecords DEF Drawn
<1>4. SummaryId \in DOMAIN records =>
          records[SummaryId].op = "rewritten" /\ records[SummaryId].original = Source(0)
          /\ records[SummaryId].tailored = Tailored(0)
  BY DisposedRecords DEF Drawn
<1>5. \A id \in DOMAIN records : records[id] \in Changes BY DisposedRecords
<1>6. page.has["resume"] =>
          /\ \A i \in Bullets : BulletId(i) \in DOMAIN records <=> plan.bullet[i] # "kept"
          /\ SummaryId \in DOMAIN records <=> plan.summary # "kept"
  BY DisposedRecords DEF Drawn
<1>7. plan \in Plans BY DEF Drawn
<1> HIDE DEF records
<1> QED BY <1>1, <1>2, <1>3, <1>4, <1>5, <1>6, <1>7 DEF Drawn, TailoredText

(***************************************************************************)
(* Nothing disappears                                                      *)
(***************************************************************************)
\* The bullets a plan prunes.
PrunedBy(p) == {i \in Bullets : p.bullet[i] = "omitted"}

\* The delivered document has every other bullet, and each of them once.
LEMMA DocumentCounted ==
    ASSUME NEW p \in Plans
    PROVE  /\ IsFiniteSet(PrunedBy(p)) /\ IsFiniteSet(ToSet(DocumentBullets(p)))
           /\ Len(DocumentBullets(p)) + Cardinality(PrunedBy(p)) = BulletCount
           /\ Cardinality(ToSet(DocumentBullets(p)) \ {Blank}) = Len(DocumentBullets(p))
<1> DEFINE d == [i \in Bullets |-> Decided(p, i)]
           n == BulletCount
<1>1. /\ n \in Nat /\ d \in Seq(Texts) /\ Len(d) = n /\ DocumentBullets(p) = Without(d, Blank)
      /\ Bullets = 1..n /\ \A k \in 1..n : d[k] = Decided(p, k)
  BY BulletsNumbered, DocumentTyped DEF DocumentBullets
<1> HIDE DEF d
<1>t. PICK trace : Trace(trace, n, Texts, d, Blank)
  <2>1. d \in Seq(Texts) /\ Len(d) = n BY <1>1
  <2> QED BY ONLY <2>1, WithoutStepwise
<1>2. /\ trace \in [0..n -> Seq(Texts)]
      /\ trace[0] = <<>>
      /\ \A k \in 1..n : trace[k] = Unless(trace[k - 1], d[k], Blank)
      /\ Without(d, Blank) = trace[n]
  BY <1>t DEF Trace
<1> HIDE DEF n
<1> DEFINE gone(k) == PrunedBy(p) \cap 1..k
           T == {k \in 0..n : /\ IsFiniteSet(gone(k)) /\ IsFiniteSet(ToSet(trace[k]))
                              /\ Len(trace[k]) + Cardinality(gone(k)) = k
                              /\ Cardinality(ToSet(trace[k])) = Len(trace[k])
                              /\ \A t \in ToSet(trace[k]) : t # Blank /\ t.of \in 1..k}
<1>3. 0 \in T
  <2>1. gone(0) = {} /\ ToSet(trace[0]) = {} BY <1>2 DEF ToSet
  <2>2. Len(trace[0]) = 0 /\ 0 \in 0..n BY <1>1, <1>2
  <2>3. /\ IsFiniteSet(gone(0)) /\ Cardinality(gone(0)) = 0
        /\ IsFiniteSet(ToSet(trace[0])) /\ Cardinality(ToSet(trace[0])) = 0
    BY <2>1, FS_EmptySet
  <2>4. \A t \in ToSet(trace[0]) : t # Blank /\ t.of \in 1..0 BY <2>1
  <2> HIDE DEF gone
  <2> QED BY <2>2, <2>3, <2>4
<1>4. ASSUME NEW k \in 1..n, k - 1 \in T PROVE k \in T
  <2>1. k \in 0..n /\ k - 1 \in 0..n /\ k \in Nat /\ k \in Bullets /\ trace[k - 1] \in Seq(Texts) BY <1>1, <1>2
  <2>2. /\ IsFiniteSet(gone(k - 1)) /\ IsFiniteSet(ToSet(trace[k - 1]))
        /\ Len(trace[k - 1]) + Cardinality(gone(k - 1)) = k - 1
        /\ Cardinality(ToSet(trace[k - 1])) = Len(trace[k - 1])
        /\ \A t \in ToSet(trace[k - 1]) : t # Blank /\ t.of \in 1..(k - 1)
    BY <1>4
  <2>3. 1..k = (1..(k - 1)) \cup {k} /\ k \notin 1..(k - 1) BY <2>1
  <2>4. Cardinality(gone(k - 1)) \in Nat /\ Len(trace[k - 1]) \in Nat BY <2>1, <2>2, FS_CardinalityType
  <2>5. CASE p.bullet[k] = "omitted"
    <3>1. trace[k] = trace[k - 1]
      <4>1. d[k] = Blank
        <5>1. d[k] = Decided(p, k) /\ k \in Bullets BY <1>1, <2>1
        <5> QED BY <2>5, <5>1, DecidedTyped
      <4>2. trace[k] = Unless(trace[k - 1], d[k], Blank) BY <1>2
      <4> QED BY <4>1, <4>2 DEF Unless
    <3>2. gone(k) = gone(k - 1) \cup {k} /\ k \notin gone(k - 1) BY <2>1, <2>3, <2>5 DEF PrunedBy
    <3>4. \A t \in ToSet(trace[k]) : t # Blank /\ t.of \in 1..k BY <2>2, <2>3, <3>1
    <3> HIDE DEF gone
    <3>3. IsFiniteSet(gone(k)) /\ Cardinality(gone(k)) = Cardinality(gone(k - 1)) + 1
      <4> DEFINE before == gone(k - 1)
      <4>1. IsFiniteSet(before) /\ k \notin before /\ gone(k) = before \cup {k} BY <2>2, <3>2
      <4> HIDE DEF before
      <4>2. IsFiniteSet(gone(k)) /\ Cardinality(gone(k)) = Cardinality(before) + 1
        BY ONLY <4>1, FS_AddElement
      <4> QED BY <4>2 DEF before
    <3>5. Len(trace[k]) + Cardinality(gone(k)) = k BY <2>1, <2>2, <2>4, <3>1, <3>3
    <3> QED BY <2>1, <2>2, <3>1, <3>3, <3>4, <3>5
  <2>6. CASE p.bullet[k] # "omitted"
    <3>1. d[k] \in Texts /\ d[k] # Blank /\ d[k].of = k BY <1>1, <2>1, <2>6, DecidedTyped
    <3>2. trace[k] = Append(trace[k - 1], d[k]) BY <1>2, <3>1 DEF Unless
    <3>3. ToSet(trace[k]) = ToSet(trace[k - 1]) \cup {d[k]} BY <2>1, <3>1, <3>2, ElementsOfAppend
    <3>4. Len(trace[k]) = Len(trace[k - 1]) + 1 BY <2>1, <3>1, <3>2, AppendProperties
    <3>5. gone(k) = gone(k - 1) BY <2>1, <2>3, <2>6 DEF PrunedBy
    <3>6. d[k] \notin ToSet(trace[k - 1]) BY <2>2, <2>3, <3>1
    <3>7. IsFiniteSet(ToSet(trace[k])) /\ Cardinality(ToSet(trace[k])) = Cardinality(ToSet(trace[k - 1])) + 1
      <4> DEFINE old == ToSet(trace[k - 1])
                 added == d[k]
      <4>1. IsFiniteSet(old) /\ added \notin old /\ ToSet(trace[k]) = old \cup {added} BY <2>2, <3>3, <3>6
      <4> HIDE DEF old, added
      <4>2. IsFiniteSet(ToSet(trace[k])) /\ Cardinality(ToSet(trace[k])) = Cardinality(old) + 1
        BY <4>1, FS_AddElement
      <4> QED BY <4>2 DEF old
    <3>8. \A t \in ToSet(trace[k]) : t # Blank /\ t.of \in 1..k BY <2>1, <2>2, <2>3, <3>1, <3>3
    <3> HIDE DEF gone
    <3>9. Len(trace[k]) + Cardinality(gone(k)) = k BY <2>1, <2>2, <2>4, <3>4, <3>5
    <3>10. Cardinality(ToSet(trace[k])) = Len(trace[k]) BY <2>2, <3>4, <3>7
    <3> QED BY <2>1, <2>2, <3>5, <3>7, <3>8, <3>9, <3>10
  <2> QED BY <2>5, <2>6
<1> HIDE DEF T
<1>5. n \in T
  <2>1. 0..n \subseteq T BY <1>1, <1>3, <1>4, BoundedInduction
  <2> QED BY <1>1, <2>1
<1>6. gone(n) = PrunedBy(p) BY <1>1 DEF PrunedBy
<1> HIDE DEF gone
<1>7. /\ IsFiniteSet(PrunedBy(p)) /\ IsFiniteSet(ToSet(trace[n]))
      /\ Len(trace[n]) + Cardinality(PrunedBy(p)) = n
      /\ Cardinality(ToSet(trace[n])) = Len(trace[n])
      /\ \A t \in ToSet(trace[n]) : t # Blank
  BY <1>5, <1>6 DEF T
<1>8. ToSet(trace[n]) \ {Blank} = ToSet(trace[n]) BY <1>7
<1> QED BY <1>1, <1>2, <1>7, <1>8 DEF n

\* A delivered resume has as many bullets as the plan left.
FullResume ==
    reports["resume"] \in Delivered =>
        Cardinality(ToSet(page.bullets) \ {Blank}) >= Len(DocumentBullets(plan))

ExportInv == Drawn /\ DeliveredDocuments /\ FullResume

\* Generation delivers the document of the plan.
LEMMA FullInit == Init => FullResume
<1> SUFFICES ASSUME Init, reports["resume"] \in Delivered
             PROVE  Cardinality(ToSet(page.bullets) \ {Blank}) >= Len(DocumentBullets(plan))
  BY DEF FullResume
<1>1. PICK document \in [Primary -> BOOLEAN] :
        /\ plan \in Plans
        /\ page.bullets = (IF document["resume"] THEN DocumentBullets(plan) ELSE <<>>)
        /\ page.has = document
  BY DEF Init
<1>2. page.has["resume"] BY DocumentsInit DEF DeliveredDocuments, MayExport, Primary
<1>3. page.bullets = DocumentBullets(plan) BY <1>1, <1>2
<1>4. Len(DocumentBullets(plan)) \in Nat
  <2>1. DocumentBullets(plan) \in Seq(Texts) BY <1>1, DocumentTyped
  <2> QED BY <2>1
<1>5. Cardinality(ToSet(DocumentBullets(plan)) \ {Blank}) = Len(DocumentBullets(plan))
  BY <1>1, DocumentCounted
<1> QED BY <1>3, <1>4, <1>5

\* The gate of a batch counts what is on the page and what pruning accounts for.
LEMMA FullBatch ==
    ASSUME ExportInv, NEW batch \in Batches, ApplyBatch(batch)
    PROVE  FullResume'
<1> DEFINE records == Disposed(batch)
           new == Replay(page.bullets, records)
           grounded == [j \in DOMAIN new |-> Ground(new[j])]
<1>1. /\ plan' = plan /\ reports' = reports
      /\ \/ page'.bullets = page.bullets
         \/ page'.bullets = grounded /\ Complete(grounded, records)
  BY DEF ApplyBatch
<1>2. CASE page'.bullets = page.bullets
  BY <1>1, <1>2 DEF ExportInv, FullResume
<1>3. CASE page'.bullets = grounded /\ Complete(grounded, records)
  <2>1. grounded \in Seq(Texts)
    <3>1. page.bullets \in Seq(Texts) BY DEF ExportInv, Drawn
    <3>2. \A id \in DOMAIN records : records[id] \in Changes BY DisposedRecords DEF ExportInv
    <3> HIDE DEF records
    <3> QED BY <3>1, <3>2, ReplayedPage
  <2> HIDE DEF grounded
  <2>2. Cardinality(ToSet(grounded) \ {Blank}) + Cardinality(Removed(records)) >= BulletCount
    BY <1>3 DEF Complete
  <2>3. Removed(records) \subseteq PrunedBy(plan)
    <3>1. \A i \in Bullets : BulletId(i) \in DOMAIN records => records[BulletId(i)].op = plan.bullet[i]
      BY DisposedRecords DEF ExportInv, Drawn
    <3> QED BY <3>1 DEF Removed, PrunedBy
  <2>4. plan \in Plans BY DEF ExportInv, Drawn
  <2>5. /\ IsFiniteSet(PrunedBy(plan))
        /\ Len(DocumentBullets(plan)) + Cardinality(PrunedBy(plan)) = BulletCount
    BY <2>4, DocumentCounted
  <2>6. Cardinality(Removed(records)) <= Cardinality(PrunedBy(plan)) /\ IsFiniteSet(Removed(records))
    BY <2>3, <2>5, FS_Subset
  <2>7. IsFiniteSet(ToSet(grounded) \ {Blank}) BY <2>1, FinitelyManyElements, FS_RemoveElement
  <2>8. /\ Cardinality(ToSet(grounded) \ {Blank}) \in Nat /\ Cardinality(Removed(records)) \in Nat
        /\ Cardinality(PrunedBy(plan)) \in Nat /\ BulletCount \in Nat
    BY <2>5, <2>6, <2>7, FS_CardinalityType, BulletsNumbered
  <2>9. Len(DocumentBullets(plan)) \in Nat
    <3>1. DocumentBullets(plan) \in Seq(Texts) BY <2>4, DocumentTyped
    <3> QED BY <3>1
  <2>10. Cardinality(ToSet(grounded) \ {Blank}) >= Len(DocumentBullets(plan))
    BY <2>2, <2>5, <2>6, <2>8, <2>9
  <2> QED BY <1>1, <1>3, <2>10 DEF FullResume
<1> QED BY <1>1, <1>2, <1>3

\* change_actions.py:117-253, completeness.py:72-195: whatever batches were applied,
\* what a report calls delivered can be exported, passed its validation, and has
\* its text: the letter a body, the resume no fewer distinct bullets than the
\* pruning delivered.
THEOREM ExportsValid == Spec => []ExportsStayValid
<1>1. Init => ExportInv BY DrawnInit, DocumentsInit, FullInit DEF ExportInv
<1>2. ExportInv /\ [Next]_vars => ExportInv'
  <2> SUFFICES ASSUME ExportInv, [Next]_vars PROVE ExportInv' OBVIOUS
  <2>1. CASE UNCHANGED vars
    BY <2>1 DEF vars, ExportInv, Drawn, FullResume, DeliveredDocuments, MayExport
  <2>2. CASE Next
    <3>1. PICK batch \in Batches : ApplyBatch(batch) BY <2>2 DEF Next
    <3> QED BY <3>1, DrawnBatch, DocumentsBatch, FullBatch DEF ExportInv
  <2> QED BY <2>1, <2>2
<1>3. ExportInv => ExportsStayValid BY DEF ExportInv, FullResume, ExportsStayValid
<1> QED BY <1>1, <1>2, <1>3, PTL DEF Spec

(***************************************************************************)
(* The resume is a function of the ledger                                  *)
(***************************************************************************)
\* The first m bullets stay on the page; at most two below them are pruned.
Keeps(p, m) ==
    /\ m \in 0..BulletCount /\ BulletCount <= m + 2
    /\ \A i \in Bullets : p.bullet[i] = "omitted" <=> i > m

\* What a ledger promises of a bullet.
Refused(records, i) == BulletId(i) \in DOMAIN records /\ records[BulletId(i)].status = "rejected"
Held(p, records, i) ==
    IF p.bullet[i] = "kept" \/ Refused(records, i) THEN Source(i) ELSE Decided(p, i)
HeldBullets(p, records) == Without([i \in Bullets |-> Held(p, records, i)], Blank)

\* The pruned bullets that are back.
Back(records, m) == {i \in Bullets : i > m /\ Refused(records, i)}

\* A page: the bullets of head, and below them those of back, in order.
Page(b, head, back, m) ==
    /\ b \in Seq(Texts) /\ back \subseteq {m + 1, m + 2}
    /\ Len(b) = m + (IF m + 1 \in back THEN 1 ELSE 0) + (IF m + 2 \in back THEN 1 ELSE 0)
    /\ \A j \in 1..m : b[j] = head[j]
    /\ m + 1 \in back => b[m + 1] = Source(m + 1)
    /\ m + 2 \in back => b[Len(b)] = Source(m + 2)

\* Such a page is determined by them.
LEMMA PageDetermined ==
    ASSUME NEW m \in Nat, NEW head, NEW back, NEW b, NEW c, Page(b, head, back, m), Page(c, head, back, m)
    PROVE  b = c
<1>1. b \in Seq(Texts) /\ c \in Seq(Texts) /\ Len(b) = Len(c) BY DEF Page
<1>2. ASSUME NEW j \in 1..Len(b) PROVE b[j] = c[j]
  <2>1. CASE j \in 1..m BY <2>1 DEF Page
  <2>2. CASE j = m + 1 /\ m + 1 \in back BY <2>2 DEF Page
  <2>3. CASE j > m /\ ~(j = m + 1 /\ m + 1 \in back)
    <3>1. m + 2 \in back /\ j = Len(b) BY <1>2, <2>3 DEF Page
    <3> QED BY <1>1, <3>1 DEF Page
  <2> QED BY <1>2, <2>1, <2>2, <2>3
<1> QED BY <1>1, <1>2, SeqEqual

\* A kit in order keeps its first bullets.
LEMMA OrderlyKeeps ==
    ASSUME Orderly, plan \in Plans
    PROVE  \E m \in Nat : Keeps(plan, m)
<1>1. Pruned \subseteq Bullets /\ Pruned = PrunedBy(plan) BY DEF Pruned, PrunedBy
<1>2. CASE Pruned = {}
  <2>1. Keeps(plan, BulletCount) BY <1>2, BulletsNumbered DEF Pruned, Keeps
  <2> QED BY <2>1, BulletsNumbered
<1>3. CASE Pruned # {}
  <2>1. Pruned \in SUBSET Nat BY <1>1, BulletsNumbered
  <2>2. PICK x \in Pruned : \A y \in Pruned : x <= y BY <1>3, <2>1, LeastElement
  <2>3. x \in 1..BulletCount /\ BulletCount \in Nat BY <1>1, <2>2, BulletsNumbered
  <2>4. \A i \in Bullets : i > x => i \in Pruned BY <2>2 DEF Orderly, Pruned
  <2>5. Pruned = x..BulletCount
    <3>1. \A i \in Bullets : i \in Pruned <=> i >= x
      <4> TAKE i \in Bullets
      <4>1. i \in Nat /\ x \in Nat BY <2>3, BulletsNumbered
      <4>2. CASE i = x BY <2>2, <4>1, <4>2
      <4>3. CASE i > x BY <2>4, <4>1, <4>3
      <4>4. CASE i < x BY <2>2, <4>1, <4>4
      <4> QED BY <4>1, <4>2, <4>3, <4>4
    <3>2. Pruned \subseteq 1..BulletCount BY <1>1, BulletsNumbered
    <3>3. \A i : i \in Pruned <=> i \in x..BulletCount
      <4>1. Bullets = 1..BulletCount BY BulletsNumbered
      <4>2. ASSUME NEW i \in Pruned PROVE i \in x..BulletCount
        <5>1. i \in 1..BulletCount /\ i >= x BY <3>1, <3>2, <4>1
        <5> QED BY <2>3, <5>1
      <4>3. ASSUME NEW i \in x..BulletCount PROVE i \in Pruned
        <5>1. i \in 1..BulletCount /\ i >= x BY <2>3
        <5> QED BY <3>1, <4>1, <5>1
      <4> QED BY <4>2, <4>3
    <3> QED BY <3>3
  <2>6. Cardinality(x..BulletCount) = BulletCount - x + 1 BY <2>3, FS_Interval
  <2>7. BulletCount - x + 1 <= 2 BY <2>5, <2>6 DEF Orderly
  <2>8. \A i \in Bullets : plan.bullet[i] = "omitted" <=> i > x - 1
    BY <2>3, <2>5, BulletsNumbered DEF Pruned
  <2>9. x - 1 \in 0..BulletCount /\ BulletCount <= (x - 1) + 2 BY <2>3, <2>7
  <2> QED BY <2>8, <2>9 DEF Keeps
<1> QED BY <1>2, <1>3

\* Blanks taken out of the texts of a kit in order leave a page.
LEMMA BlanksTakenOut ==
    ASSUME NEW m \in 0..BulletCount, BulletCount <= m + 2,
           NEW texts \in [Bullets -> Texts],
           \A i \in Bullets : IF i <= m THEN texts[i] # Blank ELSE texts[i] \in {Source(i), Blank}
    PROVE  Page(Without(texts, Blank), texts, {i \in Bullets : i > m /\ texts[i] # Blank}, m)
<1> DEFINE n == BulletCount
           back == {i \in Bullets : i > m /\ texts[i] # Blank}
<1>1. n \in Nat /\ m \in 0..n /\ n <= m + 2 /\ Bullets = 1..n /\ m \in Nat BY BulletsNumbered
<1>2. texts \in Seq(Texts) /\ Len(texts) = n BY <1>1
<1>t. PICK trace : Trace(trace, n, Texts, texts, Blank)
  <2>1. texts \in Seq(Texts) /\ Len(texts) = n BY <1>2
  <2> QED BY ONLY <2>1, WithoutStepwise
<1>3. /\ trace \in [0..n -> Seq(Texts)]
      /\ trace[0] = <<>>
      /\ \A k \in 1..n : trace[k] = Unless(trace[k - 1], texts[k], Blank)
      /\ Without(texts, Blank) = trace[n]
  BY <1>t DEF Trace
<1> HIDE DEF n
<1> DEFINE T == {k \in 0..m : Len(trace[k]) = k /\ \A j \in 1..k : trace[k][j] = texts[j]}
<1>4. 0 \in T BY <1>1, <1>3
<1>5. ASSUME NEW k \in 1..m, k - 1 \in T PROVE k \in T
  <2>1. /\ k \in 0..m /\ k \in 1..n /\ k - 1 \in 0..n /\ texts[k] \in Texts /\ texts[k] # Blank
        /\ k <= m /\ k \in Bullets
    BY <1>1
  <2>2. trace[k - 1] \in Seq(Texts) /\ trace[k] = Append(trace[k - 1], texts[k]) BY <1>3, <2>1 DEF Unless
  <2>3. Len(trace[k - 1]) = k - 1 /\ \A j \in 1..(k - 1) : trace[k - 1][j] = texts[j] BY <1>5
  <2>4. Len(trace[k]) = k BY <2>1, <2>2, <2>3, AppendProperties
  <2>5. \A j \in 1..(k - 1) : trace[k][j] = texts[j] BY <2>1, <2>2, <2>3, AppendProperties
  <2>6. trace[k][k] = texts[k] BY <2>1, <2>2, <2>3, AppendProperties
  <2>7. \A j \in 1..k : j \in 1..(k - 1) \/ j = k BY <2>1
  <2> QED BY <2>1, <2>4, <2>5, <2>6, <2>7
<1> HIDE DEF T
<1>6. m \in T
  <2>1. 0..m \subseteq T BY <1>1, <1>4, <1>5, BoundedInduction
  <2> QED BY <1>1, <2>1
<1>7. /\ trace[m] \in Seq(Texts) /\ Len(trace[m]) = m /\ \A j \in 1..m : trace[m][j] = texts[j]
      /\ \A i \in 1..n : i > m => texts[i] \in Texts /\ texts[i] \in {Source(i), Blank}
      /\ Source(m + 1) # Blank /\ Source(m + 2) # Blank
  <2>1. m \in 0..n BY <1>1
  <2>2. trace[m] \in Seq(Texts) BY <1>3, <2>1
  <2>3. Len(trace[m]) = m /\ \A j \in 1..m : trace[m][j] = texts[j] BY <1>6 DEF T
  <2>4. ASSUME NEW i \in 1..n, i > m PROVE texts[i] \in Texts /\ texts[i] \in {Source(i), Blank}
    <3>1. i \in Bullets /\ ~(i <= m) BY <1>1, <2>4
    <3> QED BY <3>1
  <2>5. \A i : Source(i) # Blank BY DEF Source, Blank
  <2> QED BY <2>2, <2>3, <2>4, <2>5
<1> DEFINE Grown(k) == Page(trace[k], texts, {i \in 1..k : i > m /\ texts[i] # Blank}, m)
<1>8. Grown(m)
  <2>1. {i \in 1..m : i > m /\ texts[i] # Blank} = {} BY <1>1
  <2> QED BY <1>1, <1>7, <2>1 DEF Page
<1>9. m + 1 \in 1..n => Grown(m + 1)
  <2> SUFFICES ASSUME m + 1 \in 1..n PROVE Grown(m + 1) OBVIOUS
  <2>1. trace[m + 1] = Unless(trace[m], texts[m + 1], Blank) BY <1>1, <1>3
  <2>2. CASE texts[m + 1] = Blank
    <3>1. \A i \in 1..(m + 1) : i > m => i = m + 1 BY <1>1
    <3>2. {i \in 1..(m + 1) : i > m /\ texts[i] # Blank} = {} BY <2>2, <3>1
    <3>3. trace[m + 1] = trace[m] BY <2>1, <2>2 DEF Unless
    <3>4. Page(trace[m + 1], texts, {}, m) BY <1>1, <1>7, <3>3 DEF Page
    <3> QED BY <3>2, <3>4
  <2>3. CASE texts[m + 1] # Blank
    <3>0. m + 1 \in 1..(m + 1) /\ m + 1 > m /\ \A i \in 1..(m + 1) : i > m => i = m + 1 BY <1>1
    <3>1. {i \in 1..(m + 1) : i > m /\ texts[i] # Blank} = {m + 1} BY <2>3, <3>0
    <3>2. trace[m + 1] = Append(trace[m], Source(m + 1)) /\ Source(m + 1) \in Texts
      BY <1>1, <1>7, <2>1, <2>3 DEF Unless
    <3>3. /\ trace[m + 1] \in Seq(Texts) /\ Len(trace[m + 1]) = m + 1
          /\ \A j \in 1..m : trace[m + 1][j] = texts[j]
          /\ trace[m + 1][m + 1] = Source(m + 1)
      BY <1>7, <3>2, AppendProperties
    <3>4. m + 1 # m + 2 BY <1>1
    <3>5. Page(trace[m + 1], texts, {m + 1}, m) BY <1>1, <3>3, <3>4 DEF Page
    <3> QED BY <3>1, <3>5
  <2> QED BY <2>2, <2>3
<1>10. m + 2 \in 1..n => Grown(m + 2)
  <2> SUFFICES ASSUME m + 2 \in 1..n PROVE Grown(m + 2) OBVIOUS
  <2>0. m + 1 \in 1..n /\ (m + 2) - 1 = m + 1 /\ m + 1 # m + 2 BY <1>1
  <2>1. trace[m + 2] = Unless(trace[m + 1], texts[m + 2], Blank) BY <1>3, <2>0
  <2> DEFINE low == {i \in 1..(m + 1) : i > m /\ texts[i] # Blank}
             high == {i \in 1..(m + 2) : i > m /\ texts[i] # Blank}
  <2>2. Page(trace[m + 1], texts, low, m) BY <1>9, <2>0
  <2>3. low \subseteq {m + 1} /\ high = IF texts[m + 2] = Blank THEN low ELSE low \cup {m + 2} BY <1>1
  <2> HIDE DEF low, high
  <2>4. CASE texts[m + 2] = Blank
    <3>1. trace[m + 2] = trace[m + 1] BY <2>1, <2>4 DEF Unless
    <3>2. Page(trace[m + 2], texts, high, m) BY <2>2, <2>3, <2>4, <3>1
    <3> QED BY <3>2 DEF high
  <2>5. CASE texts[m + 2] # Blank
    <3>1. trace[m + 2] = Append(trace[m + 1], Source(m + 2)) /\ Source(m + 2) \in Texts
      BY <1>1, <1>7, <2>1, <2>5 DEF Unless
    <3>2. /\ trace[m + 1] \in Seq(Texts) /\ Len(trace[m + 1]) = m + (IF m + 1 \in low THEN 1 ELSE 0)
          /\ \A j \in 1..m : trace[m + 1][j] = texts[j]
          /\ m + 1 \in low => trace[m + 1][m + 1] = Source(m + 1)
      BY <2>0, <2>2, <2>3 DEF Page
    <3>3. /\ trace[m + 2] \in Seq(Texts) /\ Len(trace[m + 2]) = Len(trace[m + 1]) + 1
          /\ \A j \in 1..Len(trace[m + 1]) : trace[m + 2][j] = trace[m + 1][j]
          /\ trace[m + 2][Len(trace[m + 1]) + 1] = Source(m + 2)
      BY <3>1, <3>2, AppendProperties
    <3>4. high = low \cup {m + 2} BY <2>3, <2>5
    <3>5. Page(trace[m + 2], texts, high, m) BY <1>1, <2>0, <2>3, <3>2, <3>3, <3>4 DEF Page
    <3> QED BY <3>5 DEF high
  <2> QED BY <2>4, <2>5
<1>11. n = m \/ n = m + 1 \/ n = m + 2 BY <1>1
<1>12. Grown(n)
  <2>1. m + 1 \in 1..(m + 1) /\ m + 2 \in 1..(m + 2) BY <1>1
  <2> HIDE DEF Grown
  <2> QED BY <1>8, <1>9, <1>10, <1>11, <2>1
<1> QED BY <1>1, <1>3, <1>12

\* The texts of the bullets of a kit, each one the source or what the plan made of it.
Wordings(p) == {texts \in [Bullets -> Texts] : \A i \in Bullets : texts[i] \in {Source(i), Decided(p, i)}}
PageOf(b, texts, m) == Page(b, texts, {i \in Bullets : i > m /\ texts[i] # Blank}, m)

\* The records of a kit in order: one for every bullet that the plan changed.
DrawnFrom(p, records) ==
    \A i \in Bullets :
        /\ BulletId(i) \in DOMAIN records <=> p.bullet[i] # "kept"
        /\ BulletId(i) \in DOMAIN records =>
             LET r == records[BulletId(i)]
             IN  /\ r \in Changes /\ r.op = p.bullet[i]
                 /\ r.original = Source(i) /\ r.tailored = Decided(p, i)

\* A record in effect is what the ledger promises.
LEMMA EffectiveHeld ==
    ASSUME NEW p \in Plans, NEW records, DrawnFrom(p, records), NEW i \in Bullets,
           BulletId(i) \in DOMAIN records
    PROVE  Effective(records[BulletId(i)]) = Held(p, records, i)
<1>1. p.bullet[i] \in Decisions BY DEF Plans
<1> QED BY <1>1 DEF DrawnFrom, Effective, Held, Refused, Decisions

\* The pruned bullets of a page that shows some texts.
LEMMA PageBelow ==
    ASSUME NEW m \in Nat, BulletCount <= m + 2, NEW b, NEW texts, PageOf(b, texts, m)
    PROVE  \A i \in Bullets : i > m /\ texts[i] # Blank =>
             \/ i = m + 1 /\ Len(b) >= m + 1 /\ b[m + 1] = Source(i)
             \/ i = m + 2 /\ Len(b) >= m + 1 /\ b[Len(b)] = Source(i)
BY BulletsNumbered DEF PageOf, Page

\* A rewritten bullet is in its place and nowhere else.
LEMMA SetPage ==
    ASSUME NEW p \in Plans, NEW m, Keeps(p, m), NEW texts \in Wordings(p), NEW b, PageOf(b, texts, m),
           NEW i \in Bullets, p.bullet[i] = "rewritten",
           NEW r \in Changes, r.tailored = Decided(p, i)
    PROVE  SetBullet(b, i, r) = [b EXCEPT ![i] = Effective(r)] /\ i \in 1..m
<1>1. i \in 1..m /\ m \in Nat /\ i \in Nat BY BulletsNumbered DEF Keeps
<1>2. Decided(p, i) = Tailored(i) /\ Tailored(i) # Blank BY DEF Decided, Tailored, Blank
<1>3. b \in Seq(Texts) /\ Len(b) \in Nat /\ m <= Len(b) /\ DOMAIN b = 1..Len(b) BY <1>1 DEF PageOf, Page
<1>8. \A j : Tailored(i) # Source(j) /\ (Tailored(i) = Tailored(j) => i = j) /\ Tailored(i) # Blank
  BY DEF Source, Tailored, Blank
<1>4. \A j \in 1..Len(b) : b[j] = Tailored(i) => j = i
  <2> SUFFICES ASSUME NEW j \in 1..Len(b), b[j] = Tailored(i) PROVE j = i OBVIOUS
  <2>1. CASE j <= m
    <3>1. j \in 1..m /\ j \in Bullets BY <1>1, <2>1, BulletsNumbered DEF Keeps
    <3>2. b[j] = texts[j] /\ texts[j] \in {Source(j), Decided(p, j)} BY <3>1 DEF PageOf, Page, Wordings
    <3>3. p.bullet[j] \in Decisions BY <3>1 DEF Plans
    <3>4. Decided(p, j) \in {Source(j), Tailored(j), Blank} BY <3>3 DEF Decided, Decisions
    <3>5. texts[j] \in {Source(j), Tailored(j), Blank} BY <3>2, <3>4
    <3> QED BY <2>1, <3>2, <3>5, <1>8
  <2>2. CASE j > m
    <3>1. b[j] = Source(m + 1) \/ b[j] = Source(m + 2) BY <1>1, <1>3, <2>2 DEF PageOf, Page
    <3> QED BY <3>1 DEF Source, Tailored
  <2> QED BY <1>1, <1>3, <2>1, <2>2
<1> DEFINE slots == {j \in DOMAIN b : b[j] = r.tailored}
           at == IF r.tailored # Blank /\ Cardinality(slots) = 1
                 THEN CHOOSE j \in slots : TRUE ELSE i
<1>5. slots \subseteq {i} BY <1>2, <1>3, <1>4
<1>6. at = i
  <2>1. Cardinality(slots) = 1 => slots # {}
    <3>1. slots = {} => Cardinality(slots) = 0 BY FS_EmptySet
    <3> HIDE DEF slots
    <3> QED BY <3>1
  <2>2. slots # {} => (CHOOSE j \in slots : TRUE) \in slots BY Zenon
  <2> HIDE DEF slots
  <2> QED BY <1>5, <2>1, <2>2
<1>7. SetBullet(b, i, r) =
        IF at > Len(b) THEN b ELSE [b EXCEPT ![at] = Effective(r)]
  BY DEF SetBullet, ReplaceAt
<1> HIDE DEF at
<1> QED BY <1>1, <1>3, <1>6, <1>7

\* Where page b shows bullet i of the two that may be back.
PlaceOn(b, m, i) == IF i = m + 1 THEN m + 1 ELSE Len(b)

\* A pruned bullet is in one place of a page if it is back, and in none if it is not.
LEMMA PageShows ==
    ASSUME NEW m \in Nat, NEW head, NEW back, NEW b, Page(b, head, back, m),
           NEW i \in {m + 1, m + 2}, \A j \in 1..m : head[j] # Source(i)
    PROVE  /\ \A j \in 1..Len(b) : b[j] = Source(i) =>
                 i \in back /\ j = PlaceOn(b, m, i)
           /\ i \in back => PlaceOn(b, m, i) \in 1..Len(b) /\ b[PlaceOn(b, m, i)] = Source(i)
<1>1. b \in Seq(Texts) /\ Len(b) \in Nat BY DEF Page
<1>2. Source(m + 1) # Source(m + 2) BY DEF Source
<1>3. ASSUME NEW j \in 1..Len(b), b[j] = Source(i)
      PROVE  i \in back /\ j = IF i = m + 1 THEN m + 1 ELSE Len(b)
  <2>1. j > m
    <3>1. j \in 1..m => b[j] = head[j] BY DEF Page
    <3> QED BY <1>3, <3>1
  <2>2. CASE j = m + 1 /\ m + 1 \in back
    <3>1. b[j] = Source(m + 1) BY <2>2 DEF Page
    <3> QED BY <1>2, <1>3, <2>2, <3>1
  <2>3. CASE ~(j = m + 1 /\ m + 1 \in back)
    <3>1. m + 2 \in back /\ j = Len(b) BY <1>1, <1>3, <2>1, <2>3 DEF Page
    <3>2. b[j] = Source(m + 2) BY <3>1 DEF Page
    <3>3. i = m + 2 /\ i # m + 1 BY <1>2, <1>3, <3>2
    <3> QED BY <3>1, <3>3
  <2> QED BY <2>2, <2>3
<1>4. ASSUME i \in back
      PROVE  PlaceOn(b, m, i) \in 1..Len(b) /\ b[PlaceOn(b, m, i)] = Source(i)
  <2>1. CASE i = m + 1 BY <1>1, <1>4, <2>1 DEF Page, PlaceOn
  <2>2. CASE i = m + 2 /\ i # m + 1 BY <1>1, <1>4, <2>2 DEF Page, PlaceOn
  <2> QED BY <2>1, <2>2
<1>5. ASSUME NEW j \in 1..Len(b), b[j] = Source(i) PROVE i \in back /\ j = PlaceOn(b, m, i)
  BY <1>3, <1>5 DEF PlaceOn
<1> QED BY <1>4, <1>5

\* It can be taken off the page.
LEMMA PageLoses ==
    ASSUME NEW m \in Nat, NEW head, NEW back, NEW b, Page(b, head, back, m),
           NEW i \in {m + 1, m + 2}, \A j \in 1..m : head[j] # Source(i)
    PROVE  Page(Without(b, Source(i)), head, back \ {i}, m)
<1> DEFINE at == PlaceOn(b, m, i)
           c == Without(b, Source(i))
<1>1. b \in Seq(Texts) /\ Len(b) \in Nat /\ m + 1 # m + 2 BY DEF Page
<1>2. CASE i \notin back
  <2>1. \A j \in 1..Len(b) : b[j] # Source(i)
    <3>1. \A j \in 1..Len(b) : b[j] = Source(i) => i \in back
      BY PageShows
    <3> QED BY <1>2, <3>1
  <2>2. c = b BY <1>1, <2>1, WithoutNothing
  <2>3. back \ {i} = back BY <1>2
  <2> QED BY <2>2, <2>3
<1>3. CASE i \in back
  <2>1. at \in 1..Len(b) /\ b[at] = Source(i) /\ \A j \in 1..Len(b) : j # at => b[j] # Source(i)
    <3>1. \A j \in 1..Len(b) : b[j] = Source(i) => j = at BY PageShows
    <3>2. at \in 1..Len(b) /\ b[at] = Source(i) BY <1>3, PageShows
    <3> HIDE DEF at
    <3> QED BY <3>1, <3>2
  <2> HIDE DEF at, c
  <2>2. /\ Len(Without(b, b[at])) = Len(b) - 1
        /\ \A j \in 1..(at - 1) : Without(b, b[at])[j] = b[j]
        /\ \A j \in at..(Len(b) - 1) : Without(b, b[at])[j] = b[j + 1]
    BY ONLY <1>1, <2>1, WithoutOne
  <2>3. /\ Len(c) = Len(b) - 1 /\ \A j \in 1..(at - 1) : c[j] = b[j]
        /\ \A j \in at..(Len(b) - 1) : c[j] = b[j + 1]
    BY <2>1, <2>2 DEF c
  <2>4. c \in Seq(Texts) BY <1>1, WithoutTyped DEF c
  <2>5. CASE i = m + 1
    <3>1. at = m + 1 BY <2>5 DEF at, PlaceOn
    <3>2. \A j \in 1..m : c[j] = head[j] BY <2>3, <3>1 DEF Page
    <3>3. Len(c) = m + (IF m + 2 \in back THEN 1 ELSE 0) BY <1>1, <1>3, <2>3, <2>5 DEF Page
    <3>4. m + 2 \in back => c[Len(c)] = Source(m + 2)
      <4> SUFFICES ASSUME m + 2 \in back PROVE c[Len(c)] = Source(m + 2) OBVIOUS
      <4>1. Len(c) = m + 1 /\ Len(b) = m + 2 /\ m + 1 \in at..(Len(b) - 1)
        BY <1>1, <1>3, <2>3, <2>5, <3>1, <3>3
      <4>2. c[m + 1] = b[(m + 1) + 1] BY <2>3, <4>1
      <4>3. (m + 1) + 1 = Len(b) BY <4>1
      <4> QED BY <4>1, <4>2, <4>3 DEF Page
    <3>5. back \ {i} \subseteq {m + 1, m + 2} /\ m + 1 \notin back \ {i}
          /\ (m + 2 \in back \ {i} <=> m + 2 \in back)
      BY <1>1, <2>5 DEF Page
    <3> HIDE DEF c
    <3> QED BY <2>4, <3>2, <3>3, <3>4, <3>5 DEF Page, c
  <2>6. CASE i = m + 2
    <3>1. at = Len(b) BY <1>1, <2>6 DEF at, PlaceOn
    <3>2. Len(c) = m + (IF m + 1 \in back THEN 1 ELSE 0) BY <1>1, <1>3, <2>3, <2>6 DEF Page
    <3>3. \A j \in 1..m : c[j] = head[j]
      <4> TAKE j \in 1..m
      <4>1. j \in 1..(at - 1) BY <1>1, <1>3, <2>6, <3>1 DEF Page
      <4> QED BY <2>3, <4>1 DEF Page
    <3>4. m + 1 \in back => c[m + 1] = Source(m + 1)
      <4> SUFFICES ASSUME m + 1 \in back PROVE c[m + 1] = Source(m + 1) OBVIOUS
      <4>1. m + 1 \in 1..(at - 1) BY <1>1, <1>3, <2>6, <3>1 DEF Page
      <4> QED BY <2>3, <4>1 DEF Page
    <3>5. back \ {i} \subseteq {m + 1, m + 2} /\ m + 2 \notin back \ {i}
          /\ (m + 1 \in back \ {i} <=> m + 1 \in back)
      BY <1>1, <2>6 DEF Page
    <3> QED BY <2>4, <3>2, <3>3, <3>4, <3>5 DEF Page, c
  <2> QED BY <2>5, <2>6
<1> QED BY <1>2, <1>3

\* It comes back to where it was.
LEMMA PageGains ==
    ASSUME NEW m \in Nat, NEW head, NEW back, NEW b, Page(b, head, back, m),
           NEW i \in {m + 1, m + 2}, i \notin back
    PROVE  Page(InsertAt(b, Min({i, Len(b) + 1}), Source(i)), head, back \cup {i}, m)
<1> DEFINE at == Min({i, Len(b) + 1})
           c == InsertAt(b, at, Source(i))
<1>1. b \in Seq(Texts) /\ Len(b) \in Nat /\ m + 1 # m + 2 /\ i \in Nat BY DEF Page
<1>2. at \in {i, Len(b) + 1} /\ at <= i /\ at <= Len(b) + 1
  <2>1. {i, Len(b) + 1} \in SUBSET Nat /\ {i, Len(b) + 1} # {} BY <1>1
  <2> QED BY <2>1, MinIsLeast
<1> HIDE DEF at
<1>3. at = IF i = m + 1 THEN m + 1 ELSE Len(b) + 1
  <2>1. CASE i = m + 1
    <3>1. Len(b) >= m BY <1>1 DEF Page
    <3> QED BY <1>1, <1>2, <2>1, <3>1
  <2>2. CASE i = m + 2
    <3>1. Len(b) <= m + 1 BY <1>1, <2>2 DEF Page
    <3> QED BY <1>1, <1>2, <2>2, <3>1
  <2> QED BY <2>1, <2>2
<1>4. at \in 1..(Len(b) + 1) /\ Len(b) >= m BY <1>1, <1>2, <1>3 DEF Page
<1>5. /\ c \in Seq(Texts) /\ Len(c) = Len(b) + 1 /\ \A j \in 1..(at - 1) : c[j] = b[j]
      /\ c[at] = Source(i) /\ \A j \in (at + 1)..(Len(b) + 1) : c[j] = b[j - 1]
  <2>1. Source(i) \in Texts BY <1>1, TextsTyped
  <2> QED BY <1>1, <1>4, <2>1, InsertedElement
<1> HIDE DEF c
<1>6. \A j \in 1..m : c[j] = head[j]
  <2> TAKE j \in 1..m
  <2>1. j \in 1..(at - 1) BY <1>1, <1>3, <1>4
  <2> QED BY <1>5, <2>1 DEF Page
<1>7. CASE i = m + 1
  <2>1. back \cup {i} \subseteq {m + 1, m + 2} /\ m + 1 \in back \cup {i}
        /\ (m + 2 \in back \cup {i} <=> m + 2 \in back)
    BY <1>1, <1>7 DEF Page
  <2>2. Len(c) = m + 1 + (IF m + 2 \in back THEN 1 ELSE 0) BY <1>1, <1>5, <1>7 DEF Page
  <2>3. m + 2 \in back => c[Len(c)] = Source(m + 2)
    <3> SUFFICES ASSUME m + 2 \in back PROVE c[Len(c)] = Source(m + 2) OBVIOUS
    <3>1. Len(c) \in (at + 1)..(Len(b) + 1) /\ Len(c) - 1 = Len(b) BY <1>1, <1>3, <1>5, <1>7, <2>2
    <3> QED BY <1>5, <3>1 DEF Page
  <2>4. c[m + 1] = Source(m + 1) BY <1>3, <1>5, <1>7
  <2>5. Page(c, head, back \cup {i}, m) BY <1>1, <1>5, <1>6, <2>1, <2>2, <2>3, <2>4 DEF Page
  <2> QED BY <2>5 DEF c, at
<1>8. CASE i = m + 2
  <2>1. back \cup {i} \subseteq {m + 1, m + 2} /\ m + 2 \in back \cup {i}
        /\ (m + 1 \in back \cup {i} <=> m + 1 \in back)
    BY <1>1, <1>8 DEF Page
  <2>2. Len(c) = m + (IF m + 1 \in back THEN 1 ELSE 0) + 1 BY <1>1, <1>5, <1>8 DEF Page
  <2>3. m + 1 \in back => c[m + 1] = Source(m + 1)
    <3> SUFFICES ASSUME m + 1 \in back PROVE c[m + 1] = Source(m + 1) OBVIOUS
    <3>1. m + 1 \in 1..(at - 1) BY <1>1, <1>3, <1>5, <1>8, <2>2
    <3> QED BY <1>5, <3>1 DEF Page
  <2>4. c[Len(c)] = Source(m + 2) BY <1>1, <1>3, <1>5, <1>8
  <2>5. Page(c, head, back \cup {i}, m) BY <1>1, <1>5, <1>6, <2>1, <2>2, <2>3, <2>4 DEF Page
  <2> QED BY <2>5 DEF c, at
<1> QED BY <1>7, <1>8 DEF c, at

\* What wording can be where.
LEMMA WordingPlaces ==
    ASSUME NEW p \in Plans, NEW m, Keeps(p, m), NEW texts \in Wordings(p)
    PROVE  /\ m \in Nat /\ BulletCount <= m + 2 /\ 1..m \subseteq Bullets
           /\ \A i \in Bullets : IF i <= m THEN texts[i] # Blank ELSE texts[i] \in {Source(i), Blank}
           /\ \A i \in Bullets : i > m => i \in {m + 1, m + 2} /\ \A j \in 1..m : texts[j] # Source(i)
<1>1. /\ m \in 0..BulletCount /\ BulletCount \in Nat /\ BulletCount <= m + 2 /\ Bullets = 1..BulletCount
      /\ \A i \in Bullets : p.bullet[i] = "omitted" <=> i > m
  BY BulletsNumbered DEF Keeps
<1>2. m \in Nat /\ 1..m \subseteq Bullets BY <1>1
<1>3. \A i \in Bullets : texts[i] \in {Source(i), Decided(p, i)} /\ Source(i) # Blank /\ Source(i).of = i
  BY DEF Wordings, Source, Blank
<1>4. ASSUME NEW i \in Bullets
      PROVE  IF i <= m THEN texts[i] # Blank /\ texts[i].of = i ELSE texts[i] \in {Source(i), Blank}
  <2>1. CASE i <= m
    <3>1. p.bullet[i] # "omitted" BY <1>1, <2>1
    <3>2. Decided(p, i) # Blank /\ Decided(p, i).of = i BY <3>1, DecidedTyped
    <3> QED BY <1>3, <2>1, <3>2
  <2>2. CASE ~(i <= m)
    <3>1. p.bullet[i] = "omitted" BY <1>1, <2>2
    <3>2. Decided(p, i) = Blank BY <3>1, DecidedTyped
    <3> QED BY <1>3, <2>2, <3>2
  <2> QED BY <2>1, <2>2
<1>5. ASSUME NEW i \in Bullets, i > m
      PROVE  i \in {m + 1, m + 2} /\ \A j \in 1..m : texts[j] # Source(i)
  <2>1. i \in {m + 1, m + 2} BY <1>1, <1>5
  <2>2. ASSUME NEW j \in 1..m PROVE texts[j] # Source(i)
    <3>1. j \in Bullets /\ j <= m /\ j # i BY <1>1, <1>2, <1>5
    <3>2. texts[j].of = j /\ Source(i).of = i BY <1>3, <1>4, <3>1
    <3> QED BY <3>1, <3>2
  <2> QED BY <2>1, <2>2
<1> QED BY <1>1, <1>2, <1>4, <1>5

\* The texts after the turn of one bullet.
LEMMA WordingTurn ==
    ASSUME NEW p \in Plans, NEW records, NEW texts \in Wordings(p), NEW i \in Bullets
    PROVE  /\ Held(p, records, i) \in {Source(i), Decided(p, i)} /\ Held(p, records, i) \in Texts
           /\ [texts EXCEPT ![i] = Held(p, records, i)] \in Wordings(p)
<1>1. i \in Nat /\ Source(i) \in Texts /\ Decided(p, i) \in Texts
  BY BulletsNumbered, TextsTyped, DecidedTyped
<1>2. Held(p, records, i) \in {Source(i), Decided(p, i)} BY DEF Held
<1>3. Held(p, records, i) \in Texts BY <1>1, <1>2
<1>4. [texts EXCEPT ![i] = Held(p, records, i)] \in Wordings(p) BY <1>2, <1>3 DEF Wordings
<1> QED BY <1>2, <1>3, <1>4

\* A bullet that stays on the page.
LEMMA TurnAbove ==
    ASSUME NEW p \in Plans, NEW m, Keeps(p, m), NEW texts \in Wordings(p), NEW b, PageOf(b, texts, m),
           NEW records, DrawnFrom(p, records), NEW i \in Bullets, p.bullet[i] # "omitted"
    PROVE  PageOf(ReplayRecord(b, i, records), [texts EXCEPT ![i] = Held(p, records, i)], m)
<1> DEFINE new == [texts EXCEPT ![i] = Held(p, records, i)]
           c == ReplayRecord(b, i, records)
<1>1. m \in Nat /\ 1..m \subseteq Bullets /\ texts \in [Bullets -> Texts] BY WordingPlaces DEF Wordings
<1>2. CASE p.bullet[i] = "kept"
  <2>1. BulletId(i) \notin DOMAIN records BY <1>2 DEF DrawnFrom
  <2>2. c = b BY <2>1 DEF ReplayRecord
  <2>3. Held(p, records, i) = Source(i) BY <1>2 DEF Held
  <2>4. texts[i] = Source(i) BY <1>2, DecidedTyped DEF Wordings
  <2>5. new = texts BY <1>1, <2>3, <2>4
  <2> QED BY <2>2, <2>5
<1>3. CASE p.bullet[i] = "rewritten"
  <2> DEFINE r == records[BulletId(i)]
  <2>1. BulletId(i) \in DOMAIN records BY <1>3 DEF DrawnFrom
  <2>2. r \in Changes /\ r.op = "rewritten" /\ r.tailored = Decided(p, i) BY <1>3, <2>1 DEF DrawnFrom
  <2>3. Effective(r) = Held(p, records, i) BY <2>1, EffectiveHeld
  <2>4. c = SetBullet(b, i, r) BY <2>1, <2>2 DEF ReplayRecord
  <2> HIDE DEF r, c
  <2>5. c = [b EXCEPT ![i] = Held(p, records, i)] /\ i \in 1..m BY <1>3, <2>2, <2>3, <2>4, SetPage
  <2>6. /\ b \in Seq(Texts) /\ Len(b) \in Nat /\ Len(b) >= m /\ \A j \in 1..m : b[j] = texts[j]
    BY <1>1 DEF PageOf, Page
  <2>7. Held(p, records, i) \in Texts BY WordingTurn
  <2>8. i \in 1..Len(b) BY <1>1, <2>5, <2>6
  <2>9. /\ c \in Seq(Texts) /\ Len(c) = Len(b) /\ c[i] = Held(p, records, i)
        /\ \A j \in 1..Len(b) : j # i => c[j] = b[j]
    BY <2>5, <2>6, <2>7, <2>8, ExceptSeq
  <2>10. \A j \in 1..m : c[j] = new[j]
    <3> TAKE j \in 1..m
    <3>1. j \in 1..Len(b) /\ j \in Bullets BY <1>1, <2>6
    <3> QED BY <1>1, <2>6, <2>9, <3>1
  <2>11. {j \in Bullets : j > m /\ new[j] # Blank} = {j \in Bullets : j > m /\ texts[j] # Blank}
    <3>1. ~(i > m) BY <1>1, <2>5
    <3> QED BY <1>1, <3>1
  <2> DEFINE back == {j \in Bullets : j > m /\ texts[j] # Blank}
  <2> HIDE DEF new
  <2>12. Page(b, texts, back, m) BY DEF PageOf
  <2> HIDE DEF back
  <2>13. Page(c, new, back, m)
    <3>1. /\ back \subseteq {m + 1, m + 2}
          /\ Len(b) = m + (IF m + 1 \in back THEN 1 ELSE 0) + (IF m + 2 \in back THEN 1 ELSE 0)
          /\ m + 1 \in back => b[m + 1] = Source(m + 1) /\ m + 1 \in 1..Len(b)
          /\ m + 2 \in back => b[Len(b)] = Source(m + 2) /\ Len(b) \in 1..Len(b) /\ Len(b) # i
      BY <1>1, <2>5, <2>6, <2>12 DEF Page
    <3>2. m + 1 # i BY <1>1, <2>5
    <3> QED BY <2>9, <2>10, <3>1, <3>2 DEF Page
  <2> QED BY <2>11, <2>13 DEF PageOf, back, c, new
<1>4. p.bullet[i] \in Decisions BY DecidedTyped
<1> QED BY <1>2, <1>3, <1>4 DEF Decisions

\* A pruned bullet.
LEMMA TurnBelow ==
    ASSUME NEW p \in Plans, NEW m, Keeps(p, m), NEW texts \in Wordings(p), NEW b, PageOf(b, texts, m),
           NEW records, DrawnFrom(p, records), NEW i \in Bullets, p.bullet[i] = "omitted"
    PROVE  PageOf(ReplayRecord(b, i, records), [texts EXCEPT ![i] = Held(p, records, i)], m)
<1> DEFINE held == Held(p, records, i)
           new == [texts EXCEPT ![i] = held]
           c == ReplayRecord(b, i, records)
           r == records[BulletId(i)]
           back == {j \in Bullets : j > m /\ texts[j] # Blank}
           after == {j \in Bullets : j > m /\ new[j] # Blank}
<1>1. m \in Nat /\ 1..m \subseteq Bullets /\ texts \in [Bullets -> Texts] BY WordingPlaces DEF Wordings
<1>2. i > m BY DEF Keeps
<1>3. i \in {m + 1, m + 2} /\ \A j \in 1..m : texts[j] # Source(i) BY <1>2, WordingPlaces
<1>4. BulletId(i) \in DOMAIN records BY DEF DrawnFrom
<1>5. r.op = "omitted" /\ r.original = Source(i) BY <1>4 DEF DrawnFrom
<1>6. Effective(r) = held BY <1>4, EffectiveHeld
<1>7. c = ApplyOmission(b, i, r) BY <1>4, <1>5 DEF ReplayRecord
<1>8. held = Blank \/ (held = Source(i) /\ Source(i) # Blank)
  <2>1. Decided(p, i) = Blank BY DecidedTyped
  <2> QED BY <2>1, WordingTurn DEF Source, Blank
<1>9. Page(b, texts, back, m) BY DEF PageOf
<1>10. \A j \in 1..m : new[j] = texts[j]
  <2> TAKE j \in 1..m
  <2>1. j # i BY <1>1, <1>2
  <2> QED BY <2>1
<1>11. after = IF held = Blank THEN back \ {i} ELSE back \cup {i}
  <2>1. \A j \in Bullets : new[j] = IF j = i THEN held ELSE texts[j] BY <1>1
  <2> HIDE DEF held, new
  <2> QED BY <1>2, <2>1
<1> HIDE DEF r, c, back, held
<1>12. Page(c, texts, IF held = Blank THEN back \ {i} ELSE back \cup {i}, m)
  <2>1. CASE held = Blank
    <3>1. c = Without(b, Source(i)) BY <1>5, <1>6, <1>7, <2>1 DEF ApplyOmission
    <3> QED BY <1>1, <1>3, <1>9, <2>1, <3>1, PageLoses
  <2>2. CASE held # Blank /\ i \in back
    <3>1. \E j \in 1..Len(b) : b[j] = Source(i) BY <1>1, <1>3, <1>9, <2>2, PageShows
    <3>2. b \in Seq(Texts) /\ DOMAIN b = 1..Len(b) BY <1>9 DEF Page
    <3>3. Source(i) \in ToSet(b) BY <3>1, <3>2 DEF ToSet
    <3>4. c = b BY <1>5, <1>6, <1>7, <2>2, <3>3 DEF ApplyOmission
    <3>5. back \cup {i} = back BY <2>2
    <3> QED BY <1>9, <2>2, <3>4, <3>5
  <2>3. CASE held # Blank /\ i \notin back
    <3>1. \A j \in 1..Len(b) : b[j] = Source(i) => i \in back
      BY <1>1, <1>3, <1>9, PageShows
    <3>2. b \in Seq(Texts) /\ DOMAIN b = 1..Len(b) BY <1>9 DEF Page
    <3>3. Source(i) \notin ToSet(b) BY <2>3, <3>1, <3>2 DEF ToSet
    <3>4. c = InsertAt(b, Min({i, Len(b) + 1}), Source(i)) BY <1>5, <1>6, <1>7, <2>3, <3>3 DEF ApplyOmission
    <3>5. Page(InsertAt(b, Min({i, Len(b) + 1}), Source(i)), texts, back \cup {i}, m)
      BY <1>1, <1>3, <1>9, <2>3, PageGains
    <3> QED BY <2>3, <3>4, <3>5
  <2> QED BY <2>1, <2>2, <2>3
<1> HIDE DEF new, after
<1>13. Page(c, new, after, m) BY <1>10, <1>11, <1>12 DEF Page
<1> QED BY <1>13 DEF PageOf, c, new, after, held

\* Texts of a kit in order, the blanks taken out, make a page.
LEMMA WordedPage ==
    ASSUME NEW p \in Plans, NEW m, Keeps(p, m), NEW texts \in Wordings(p)
    PROVE  PageOf(Without(texts, Blank), texts, m)
<1>1. /\ m \in 0..BulletCount /\ BulletCount <= m + 2 /\ texts \in [Bullets -> Texts]
      /\ \A i \in Bullets : IF i <= m THEN texts[i] # Blank ELSE texts[i] \in {Source(i), Blank}
  BY WordingPlaces DEF Keeps, Wordings
<1> QED BY <1>1, BlanksTakenOut DEF PageOf

\* Replaying a ledger on any page of the kit gives what the ledger promises: what
\* the bullets were before makes no difference.
LEMMA ReplayPromised ==
    ASSUME NEW p \in Plans, NEW m, Keeps(p, m), NEW texts \in Wordings(p), NEW b, PageOf(b, texts, m),
           NEW records, DrawnFrom(p, records), \A id \in DOMAIN records : records[id] \in Changes
    PROVE  Replay(b, records) = HeldBullets(p, records)
<1> DEFINE n == BulletCount
           mixed(k) == [i \in Bullets |-> IF i <= k THEN Held(p, records, i) ELSE texts[i]]
<1>1. n \in Nat /\ Bullets = 1..n /\ m \in Nat BY WordingPlaces, BulletsNumbered
<1>2. b \in Seq(Texts) BY DEF PageOf, Page
<1>3. PICK trace \in [0..n -> Seq(Texts)] :
        /\ trace[0] = b
        /\ \A k \in 1..n : trace[k] = ReplayRecord(trace[k - 1], k, records)
        /\ Replay(b, records) = trace[n]
  BY <1>2, ReplayStepwise
<1> HIDE DEF n
<1> DEFINE T == {k \in 0..n : mixed(k) \in Wordings(p) /\ PageOf(trace[k], mixed(k), m)}
<1>4. 0 \in T
  <2>1. mixed(0) = texts
    <3>1. texts \in [Bullets -> Texts] BY DEF Wordings
    <3>2. \A i \in Bullets : ~(i <= 0) BY <1>1
    <3> QED BY <3>1, <3>2
  <2> HIDE DEF mixed
  <2> QED BY <1>1, <1>3, <2>1
<1>5. ASSUME NEW k \in 1..n, k - 1 \in T PROVE k \in T
  <2>1. k \in 0..n /\ k \in Bullets /\ k \in Nat BY <1>1
  <2>2. mixed(k - 1) \in Wordings(p) /\ PageOf(trace[k - 1], mixed(k - 1), m) BY <1>5
  <2>3. mixed(k) = [mixed(k - 1) EXCEPT ![k] = Held(p, records, k)]
    <3>1. \A i \in Bullets : i # k => (i <= k <=> i <= k - 1) BY <1>1
    <3>2. ~(k <= k - 1) /\ k <= k BY <2>1
    <3> QED BY <2>1, <3>1, <3>2
  <2>4. trace[k] = ReplayRecord(trace[k - 1], k, records) BY <1>3
  <2> HIDE DEF mixed
  <2>5. \A t \in Wordings(p) : \A c : PageOf(c, t, m) =>
          /\ [t EXCEPT ![k] = Held(p, records, k)] \in Wordings(p)
          /\ PageOf(ReplayRecord(c, k, records), [t EXCEPT ![k] = Held(p, records, k)], m)
    BY <2>1, WordingTurn, TurnAbove, TurnBelow
  <2>6. mixed(k) \in Wordings(p) /\ PageOf(trace[k], mixed(k), m) BY <2>2, <2>3, <2>4, <2>5
  <2> QED BY <2>1, <2>6
<1> HIDE DEF T
<1>6. n \in T
  <2>1. 0..n \subseteq T BY <1>1, <1>4, <1>5, BoundedInduction
  <2> QED BY <1>1, <2>1
<1>7. mixed(n) \in Wordings(p) /\ PageOf(trace[n], mixed(n), m) BY <1>6 DEF T
<1>8. mixed(n) = [i \in Bullets |-> Held(p, records, i)]
  <2>1. \A i \in Bullets : i <= n BY <1>1
  <2> QED BY <2>1
<1> HIDE DEF mixed
<1>9. \A t \in Wordings(p) : PageOf(Without(t, Blank), t, m) BY WordedPage
<1>10. PageOf(Without(mixed(n), Blank), mixed(n), m) BY <1>7, <1>9
<1>11. trace[n] = Without(mixed(n), Blank) BY <1>1, <1>7, <1>10, PageDetermined DEF PageOf
<1> QED BY <1>3, <1>8, <1>11 DEF HeldBullets

\* The texts that a ledger promises.
LEMMA HeldWordings ==
    ASSUME NEW p \in Plans, NEW records
    PROVE  /\ [i \in Bullets |-> Held(p, records, i)] \in Wordings(p)
           /\ [i \in Bullets |-> Decided(p, i)] \in Wordings(p)
<1>1. \A i \in Bullets : Source(i) \in Texts /\ Decided(p, i) \in Texts
  BY BulletsNumbered, TextsTyped, DecidedTyped
<1>2. \A i \in Bullets : Held(p, records, i) \in {Source(i), Decided(p, i)} BY DEF Held
<1> QED BY <1>1, <1>2 DEF Wordings

\* In a kit in order a bullet's index in the source is its place in the document.
LEMMA TailoredInPlace ==
    ASSUME NEW p \in Plans, NEW m, Keeps(p, m), NEW i \in Bullets
    PROVE  TailoredText(p, i, TRUE) = Decided(p, i)
<1> DEFINE d == [j \in Bullets |-> Decided(p, j)]
<1>1. d \in Wordings(p) BY HeldWordings
<1>2. \A j \in Bullets : d[j] = Decided(p, j) OBVIOUS
<1>3. DocumentBullets(p) = Without(d, Blank) BY DEF DocumentBullets
<1> HIDE DEF d
<1>4. PageOf(DocumentBullets(p), d, m) BY <1>1, <1>3, WordedPage
<1>5. {j \in Bullets : j > m /\ d[j] # Blank} = {}
  <2>1. ASSUME NEW j \in Bullets, j > m PROVE d[j] = Blank
    <3>1. p.bullet[j] = "omitted" BY <2>1 DEF Keeps
    <3> QED BY <1>2, <3>1, DecidedTyped
  <2> QED BY <2>1
<1>6. m \in Nat /\ Len(DocumentBullets(p)) = m /\ \A j \in 1..m : DocumentBullets(p)[j] = d[j]
  BY <1>1, <1>4, <1>5, WordingPlaces DEF PageOf, Page
<1>7. i \in Nat /\ i >= 1 BY BulletsNumbered
<1>8. CASE i <= m
  <2>1. i \in 1..m BY <1>6, <1>7, <1>8
  <2> QED BY <1>2, <1>6, <1>8, <2>1 DEF TailoredText
<1>9. CASE ~(i <= m) BY <1>6, <1>9 DEF TailoredText
<1> QED BY <1>8, <1>9

\* The records of a delivered resume are those of a kit in order.
LEMMA DrawnInOrder ==
    ASSUME Drawn, page.has["resume"], NEW m, Keeps(plan, m)
    PROVE  DrawnFrom(plan, ledger)
<1>1. plan \in Plans /\ page.has["resume"] = TRUE BY DEF Drawn, Primary
<1>2. \A i \in Bullets : TailoredText(plan, i, TRUE) = Decided(plan, i) BY <1>1, TailoredInPlace
<1> QED BY <1>2 DEF Drawn, DrawnFrom

\* The resume shows what the ledger promises.
Promised == page.bullets = HeldBullets(plan, ledger) /\ page.summary = PromisedSummary
OrderlyInv == Drawn /\ (Orderly /\ page.has["resume"] => Promised)

\* HeldBullets is the promise of the model.
LEMMA PromiseHeld == PromisedBullets = HeldBullets(plan, ledger)
<1>1. \A i \in Bullets : PromisedText(i) = Held(plan, ledger, i)
  BY DEF PromisedText, Held, IsRejected, Refused
<1>2. [i \in Bullets |-> PromisedText(i)] = [i \in Bullets |-> Held(plan, ledger, i)] BY <1>1
<1> QED BY <1>2 DEF PromisedBullets, HeldBullets

\* Nothing is rejected in a new kit: the document of the plan is the promise.
LEMMA PromisedInit == Init => OrderlyInv
<1> SUFFICES ASSUME Init, Orderly, page.has["resume"] PROVE Promised
  BY DrawnInit DEF OrderlyInv
<1>1. PICK document \in [Primary -> BOOLEAN] :
        /\ plan \in Plans
        /\ ledger = [id \in Recorded(plan, health, document) |->
                       NewRecord(plan, id, document["resume"])]
        /\ page.bullets = (IF document["resume"] THEN DocumentBullets(plan) ELSE <<>>)
        /\ page.summary = (IF ~document["resume"] THEN Blank
                           ELSE IF plan.summary = "kept" THEN Source(0) ELSE Tailored(0))
        /\ page.has = document
  BY DEF Init
<1>2. document["resume"] \in BOOLEAN /\ Recorded(plan, health, document) \subseteq Ids
  BY <1>1 DEF Primary, Recorded
<1>3. \A id \in DOMAIN ledger : ledger[id].status = "proposed"
  <2>1. \A id \in Ids : NewRecord(plan, id, document["resume"]).status = "proposed"
    <3>1. \A i \in Bullets : NewRecord(plan, BulletId(i), document["resume"]).status = "proposed"
      BY <1>1, <1>2, NewRecordTyped DEF Record
    <3>2. NewRecord(plan, SummaryId, document["resume"]).status = "proposed"
      BY <1>1, <1>2, NewRecordTyped DEF Record
    <3>3. \A q \in Paragraphs : NewRecord(plan, ParagraphId(q), document["resume"]).status = "proposed"
      BY IdsApart DEF NewRecord, Record
    <3>4. NewRecord(plan, RemovalId, document["resume"]).status = "proposed"
      BY IdsApart DEF NewRecord, Record
    <3> QED BY <3>1, <3>2, <3>3, <3>4, IdsApart
  <2> QED BY <1>1, <1>2, <2>1
<1>4. \A i \in Bullets : Held(plan, ledger, i) = Decided(plan, i)
  <2> TAKE i \in Bullets
  <2>1. ~Refused(ledger, i) BY <1>3 DEF Refused
  <2> QED BY <1>1, <2>1, DecidedTyped DEF Held
<1>5. [i \in Bullets |-> Held(plan, ledger, i)] = [i \in Bullets |-> Decided(plan, i)] BY <1>4
<1>6. page.bullets = HeldBullets(plan, ledger) BY <1>1, <1>5 DEF HeldBullets, DocumentBullets
<1>7. ~IsRejected(SummaryId) BY <1>3 DEF IsRejected
<1>8. page.summary = PromisedSummary BY <1>1, <1>7 DEF PromisedSummary
<1> QED BY <1>6, <1>8 DEF Promised

\* A batch that does not touch the resume leaves its records.
LEMMA OtherRecords ==
    ASSUME Drawn, NEW batch \in Batches, "resume" \notin {ArtifactOf(id) : id \in DOMAIN batch}
    PROVE  /\ \A i \in Bullets : Refused(Disposed(batch), i) <=> Refused(ledger, i)
           /\ SummaryId \in DOMAIN ledger => Disposed(batch)[SummaryId] = ledger[SummaryId]
<1>1. DOMAIN Disposed(batch) = DOMAIN ledger BY DisposedRecords
<1>2. \A id \in DOMAIN ledger : id \notin DOMAIN batch => Disposed(batch)[id] = ledger[id] BY DEF Disposed
<1>3. \A i \in Bullets : BulletId(i) \notin DOMAIN batch
  <2>1. \A i \in Bullets : ArtifactOf(BulletId(i)) = "resume" BY IdsApart DEF ArtifactOf
  <2> QED BY <2>1
<1>4. SummaryId \notin DOMAIN batch
  <2>1. ArtifactOf(SummaryId) = "resume" BY IdsApart DEF ArtifactOf
  <2> QED BY <2>1
<1> QED BY <1>1, <1>2, <1>3, <1>4 DEF Refused

\* A batch rebuilds the resume to the promise of the new ledger, or changes neither.
LEMMA PromisedBatch ==
    ASSUME OrderlyInv, NEW batch \in Batches, ApplyBatch(batch)
    PROVE  OrderlyInv'
<1> DEFINE records == Disposed(batch)
           new == Replay(page.bullets, records)
           targets == {ArtifactOf(id) : id \in DOMAIN batch}
<1>0. Drawn /\ Drawn' BY DrawnBatch DEF OrderlyInv
<1>1. plan' = plan /\ ledger' = records /\ page'.has = page.has BY DEF ApplyBatch
<1> SUFFICES ASSUME Orderly, page.has["resume"] PROVE Promised'
  BY <1>0, <1>1 DEF OrderlyInv, Orderly, Pruned
<1>2. plan \in Plans /\ Promised BY <1>0 DEF OrderlyInv, Drawn
<1>3. PICK m \in Nat : Keeps(plan, m) BY <1>2, OrderlyKeeps
<1>4. SummaryId \in DOMAIN ledger /\ plan.summary = "rewritten" BY <1>0 DEF Drawn, Orderly
<1>5. CASE "resume" \notin targets
  <2>1. page'.bullets = page.bullets /\ page'.summary = page.summary BY <1>5 DEF ApplyBatch
  <2>2. /\ \A i \in Bullets : Refused(records, i) <=> Refused(ledger, i)
        /\ records[SummaryId] = ledger[SummaryId]
    BY <1>0, <1>4, <1>5, OtherRecords
  <2>3. DOMAIN records = DOMAIN ledger BY <1>0, DisposedRecords
  <2> HIDE DEF records
  <2>4. \A i \in Bullets : Held(plan, records, i) = Held(plan, ledger, i) BY <2>2 DEF Held
  <2>5. [i \in Bullets |-> Held(plan, records, i)] = [i \in Bullets |-> Held(plan, ledger, i)] BY <2>4
  <2>6. HeldBullets(plan, records) = HeldBullets(plan, ledger) BY <2>5 DEF HeldBullets
  <2>7. page'.bullets = HeldBullets(plan, records) BY <1>2, <2>1, <2>6 DEF Promised
  <2>8. PromisedSummary' = PromisedSummary BY <1>1, <2>2, <2>3 DEF PromisedSummary, IsRejected
  <2> QED BY <1>1, <1>2, <2>1, <2>7, <2>8 DEF Promised
<1>6. CASE "resume" \in targets
  <2>1. /\ page'.bullets = [j \in DOMAIN new |-> Ground(new[j])]
        /\ page'.summary = Ground(SummaryText(records))
    BY <1>6 DEF ApplyBatch
  <2>2. \A t : Ground(t) = t BY DEF Ground, Orderly
  <2>3. DrawnFrom(plan, records) /\ \A id \in DOMAIN records : records[id] \in Changes
    <3>1. DrawnFrom(plan, ledger) BY <1>0, <1>3, DrawnInOrder
    <3>2. /\ DOMAIN records = DOMAIN ledger
          /\ \A id \in DOMAIN ledger :
               /\ records[id] \in Changes /\ records[id].op = ledger[id].op
               /\ records[id].original = ledger[id].original
               /\ records[id].tailored = ledger[id].tailored
      BY <1>0, DisposedRecords
    <3> HIDE DEF records
    <3> QED BY <3>1, <3>2 DEF DrawnFrom
  <2>4. new = HeldBullets(plan, records)
    <3> DEFINE texts == [i \in Bullets |-> Held(plan, ledger, i)]
    <3>1. texts \in Wordings(plan) BY <1>2, HeldWordings
    <3>2. page.bullets = Without(texts, Blank) BY <1>2 DEF Promised, HeldBullets
    <3> HIDE DEF texts
    <3>3. PageOf(page.bullets, texts, m) BY <1>2, <1>3, <3>1, <3>2, WordedPage
    <3> HIDE DEF records
    <3> QED BY <1>2, <1>3, <2>3, <3>1, <3>3, ReplayPromised
  <2>5. page'.bullets = new
    <3>1. new \in Seq(Texts)
      <4>1. page.bullets \in Seq(Texts) BY <1>0 DEF Drawn
      <4> HIDE DEF records
      <4> QED BY <2>3, <4>1, ReplayedPage
    <3> HIDE DEF new
    <3>2. new = [j \in DOMAIN new |-> new[j]] BY <3>1
    <3> QED BY <2>1, <2>2, <3>2
  <2>6. /\ SummaryId \in DOMAIN records /\ records[SummaryId].op = "rewritten"
        /\ records[SummaryId].original = Source(0) /\ records[SummaryId].tailored = Tailored(0)
    BY <1>0, <1>4, DisposedRecords DEF Drawn
  <2> HIDE DEF records, new
  <2>7. page'.summary = PromisedSummary'
    <3>1. page'.summary = Effective(records[SummaryId]) BY <2>1, <2>2, <2>6 DEF SummaryText
    <3> QED BY <1>1, <1>4, <2>6, <3>1 DEF Effective, PromisedSummary, IsRejected
  <2> QED BY <1>1, <2>4, <2>5, <2>7 DEF Promised
<1> QED BY <1>5, <1>6

\* The promise is kept by every batch.
LEMMA OrderlyKept == Spec => []OrderlyInv
<1>1. Init => OrderlyInv BY PromisedInit
<1>2. OrderlyInv /\ [Next]_vars => OrderlyInv'
  <2> SUFFICES ASSUME OrderlyInv, [Next]_vars PROVE OrderlyInv' OBVIOUS
  <2>1. CASE UNCHANGED vars
    BY <2>1 DEF vars, OrderlyInv, Drawn, Orderly, Pruned, Promised, PromisedSummary, IsRejected
  <2>2. CASE Next
    <3>1. PICK batch \in Batches : ApplyBatch(batch) BY <2>2 DEF Next
    <3> QED BY <3>1, PromisedBatch
  <2> QED BY <2>1, <2>2
<1> QED BY <1>1, <1>2, PTL DEF Spec

\* change_actions.py:64-68, 357-367: whatever batches were applied, the resume of
\* a kit in order is what the statuses of its ledger say, text by text and in the
\* order of the source. Nothing of an earlier batch is left in it.
THEOREM OrderlyNeverDrifts == Spec => []OrderlyDriftFree
<1>1. OrderlyInv => OrderlyDriftFree BY PromiseHeld DEF OrderlyInv, Promised, OrderlyDriftFree
<1> QED BY <1>1, OrderlyKept, PTL

\* A rebuild from the delivered document gives the bullets that are there.
RebuiltFromBaseline == page.has["resume"] => page.bullets = Replay(DocumentBullets(plan), ledger)

\* The promise is what the ledger makes of the delivered document.
LEMMA PromiseRebuilt ==
    ASSUME OrderlyInv, Orderly, page.has["resume"]
    PROVE  page.bullets = Replay(DocumentBullets(plan), ledger)
<1> DEFINE d == [j \in Bullets |-> Decided(plan, j)]
<1>1. plan \in Plans /\ Drawn /\ Promised /\ \A id \in DOMAIN ledger : ledger[id] \in Changes
  BY DEF OrderlyInv, Drawn
<1>2. PICK m \in Nat : Keeps(plan, m) BY <1>1, OrderlyKeeps
<1>3. DrawnFrom(plan, ledger) BY <1>1, <1>2, DrawnInOrder
<1>4. d \in Wordings(plan) /\ DocumentBullets(plan) = Without(d, Blank) BY <1>1, HeldWordings DEF DocumentBullets
<1> HIDE DEF d
<1>5. PageOf(DocumentBullets(plan), d, m) BY <1>1, <1>2, <1>4, WordedPage
<1>6. Replay(DocumentBullets(plan), ledger) = HeldBullets(plan, ledger)
  BY <1>1, <1>2, <1>3, <1>4, <1>5, ReplayPromised
<1> QED BY <1>1, <1>6 DEF Promised

\* change_actions.py:64-68: in a kit in order the document is the one a rebuild
\* from the delivered baseline would give, although the code starts from what the
\* last batch left. With three pruned bullets this fails: they come back in the order
\* of the batches.
THEOREM OrderlyRebuilds == Spec => [](Orderly => RebuiltFromBaseline)
<1>1. OrderlyInv => (Orderly => RebuiltFromBaseline) BY PromiseRebuilt DEF RebuiltFromBaseline
<1> QED BY <1>1, OrderlyKept, PTL
=============================================================================
