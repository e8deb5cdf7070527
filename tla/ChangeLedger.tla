---------------------------- MODULE ChangeLedger ----------------------------
(* The documents of a generated kit and the ledger of their changes: how the *)
(* orchestrator attaches one to the other, and what a batch of accept,       *)
(* reject and restore actions does to both.                                  *)
(*                                                                           *)
(* One role of the resume, its summary and the cover letter. A text is the   *)
(* unit it words and the form of the wording; equality of texts is equality  *)
(* of their normalized keys. A refused batch changes nothing and is no step: *)
(* the score, LaTeX, echo and fidelity gates can only refuse, and are left   *)
(* out, as are the records of skills, headline and order. The revision of    *)
(* the kit is modelled in KitLifecycle.                                      *)
EXTENDS KitDelivery, Naturals, FiniteSets, Sequences, SequencesExt

CONSTANTS
    BulletCount,     \* bullets of the role in the uploaded resume
    MinBullets,      \* how many of them pruning leaves
    Words,           \* words of each paragraph of the cover letter
    MinUsableWords,  \* MIN_USABLE_COVER_WORDS
    Misread,         \* bullets whose source text the claim heuristic redacts
    MaxBatch,        \* bound: actions of one batch
    MaxLines         \* bound: bullets on the page

ASSUME LedgerAssumption ==
    /\ BulletCount \in Nat /\ MinBullets \in Nat /\ MaxBatch \in Nat /\ MaxLines \in Nat
    /\ MinUsableWords \in Nat /\ Words \in Seq(Nat) \ {<<>>} /\ Misread \subseteq 1..BulletCount

Bullets == 1..BulletCount
Paragraphs == DOMAIN Words

\* Unit 0 is the summary.
\* A text is a unit in one of its forms: source, tailored, redacted, blank.
Blank == [of |-> 0, form |-> "blank"]
Source(u) == [of |-> u, form |-> "source"]
Tailored(u) == [of |-> u, form |-> "tailored"]

\* Records are named by what they change. "removal" stands for the records that
\* are not reversible: the removals of the truth gate and the skills.
BulletId(i) == <<"bullet", i>>
SummaryId == <<"summary", 0>>
ParagraphId(p) == <<"paragraph", p>>
RemovalId == <<"removal", 0>>
Ids == {BulletId(i) : i \in Bullets} \cup {ParagraphId(p) : p \in Paragraphs}
           \cup {SummaryId, RemovalId}
ArtifactOf(id) == IF id[1] = "paragraph" THEN "cover_letter" ELSE "resume"
Reversible(id) == id # RemovalId

\* A record has an operation (rewritten, omitted, added, removed), an original and
\* a tailored text, and a status (proposed, accepted, rejected).

VARIABLES
    plan,     \* what the optimizer decided for every bullet and for the summary
    ledger,   \* the change records by id
    page,     \* the documents: bullets, summary, paragraphs of the letter
    health,   \* the validation status of resume and cover letter
    reports   \* the delivery reports
vars == <<plan, ledger, page, health, reports>>

(***************************************************************************)
(* Generation                                                              *)
(***************************************************************************)
Decisions == {"kept", "rewritten", "omitted"}
Plans == {p \in [bullet : [Bullets -> Decisions], summary : {"kept", "rewritten"}] :
             Cardinality({i \in Bullets : p.bullet[i] # "omitted"}) >= MinBullets}

Decided(p, i) == CASE p.bullet[i] = "kept" -> Source(i)
                   [] p.bullet[i] = "rewritten" -> Tailored(i)
                   [] p.bullet[i] = "omitted" -> Blank

\* The texts without one of them.
Without(texts, text) ==
    FoldLeft(LAMBDA rest, t : IF t = text THEN rest ELSE Append(rest, t), <<>>, texts)

\* _resume_document: the slots a prune has emptied are not in the document.
DocumentBullets(p) == Without([i \in Bullets |-> Decided(p, i)], Blank)

\* _document_bullet: the text found in the document at the bullet's index in the
\* source; the text of the decision if there is none.
TailoredText(p, i, hasDocument) ==
    IF hasDocument /\ i <= Len(DocumentBullets(p)) THEN DocumentBullets(p)[i]
    ELSE Decided(p, i)

Record(op, original, tailored) ==
    [op |-> op, original |-> original, tailored |-> tailored, status |-> "proposed"]

\* The record of an id that has one.
NewRecord(p, id, hasDocument) ==
    CASE id[1] = "bullet" -> Record(p.bullet[id[2]], Source(id[2]),
                                    TailoredText(p, id[2], hasDocument))
      [] id[1] = "summary" -> Record("rewritten", Source(0), Tailored(0))
      [] id[1] = "paragraph" -> Record("added", Blank, Blank)
      [] id[1] = "removal" -> Record("removed", Blank, Blank)

\* What is in the ledger of a kit: material changes of a resume, every paragraph
\* of a letter that was delivered, and what the truth gate took out.
Recorded(p, status, document) ==
    {id \in Ids :
       CASE id[1] = "bullet" -> status.resume # "none" /\ p.bullet[id[2]] # "kept"
         [] id[1] = "summary" -> status.resume # "none" /\ p.summary # "kept"
         [] id[1] = "paragraph" -> document.cover_letter
         [] id[1] = "removal" -> status.resume \in {"repaired", "rejected"}}

\* generate_application_kit, from the assembly of the artifacts on. A fatal
\* artifact has no document, nor has a resume whose source needs a review.
Init ==
    \E preferred \in Delivered \cup {"needs_input_review"} :
    \E document \in [Primary -> BOOLEAN] :
      /\ plan \in Plans
      /\ health \in [Primary -> ArtifactStatuses]
      /\ \A a \in Primary :
           document[a] <=> /\ health[a] \in {"generated", "repaired"}
                           /\ a = "resume" => preferred # "needs_input_review"
      /\ ledger = [id \in Recorded(plan, health, document) |->
                     NewRecord(plan, id, document.resume)]
      /\ page = [bullets |-> IF document.resume THEN DocumentBullets(plan) ELSE <<>>,
                 summary |-> IF ~document.resume THEN Blank
                             ELSE IF plan.summary = "kept" THEN Source(0) ELSE Tailored(0),
                 letter |-> IF document.cover_letter THEN Paragraphs ELSE {},
                 has |-> document]
      /\ reports = [k \in Kinds |->
                      IF k = "resume" THEN Report(health[k] # "none", health[k], preferred)
                      ELSE IF k = "cover_letter"
                      THEN Report(health[k] # "none", health[k], "generated")
                      ELSE "not_requested"]

(***************************************************************************)
(* A batch of change actions                                               *)
(***************************************************************************)
Actions == {"accept", "reject", "restore"}
Batches == UNION {[S -> Actions] : S \in {T \in SUBSET DOMAIN ledger :
                                            Cardinality(T) \in 1..MaxBatch}}

StatusAfter(action) == CASE action = "accept" -> "accepted"
                         [] action = "reject" -> "rejected"
                         [] action = "restore" -> "proposed"

Disposed(batch) ==
    [id \in DOMAIN ledger |->
       IF id \in DOMAIN batch THEN [ledger[id] EXCEPT !.status = StatusAfter(batch[id])]
       ELSE ledger[id]]

\* Mutated form of Effective: a rejected removal has no original to return to.
EffectiveRewritten(r) == IF r.status # "rejected" THEN r.tailored
                         ELSE IF r.op = "rewritten" THEN r.original
                         ELSE Blank

\* _effective_record
Effective(r) == IF r.status # "rejected" THEN r.tailored
                ELSE IF r.op \in {"rewritten", "omitted"} THEN r.original
                ELSE Blank

\* _apply_omission: put the original back at its index in the source, or take
\* every bullet with its text off the page.
ApplyOmission(bullets, i, r) ==
    IF Effective(r) = Blank THEN Without(bullets, r.original)
    ELSE IF r.original \in ToSet(bullets) THEN bullets
    ELSE InsertAt(bullets, Min({i, Len(bullets) + 1}), r.original)

\* _set_bullet: write into the slot that holds what the record delivered, or, if
\* that is not exactly one, into the slot at the index in the source.
SetBullet(bullets, i, r) ==
    LET slots == {j \in DOMAIN bullets : bullets[j] = r.tailored}
        at == IF r.tailored # Blank /\ Cardinality(slots) = 1
              THEN CHOOSE j \in slots : TRUE ELSE i
    IN  IF at > Len(bullets) THEN bullets ELSE ReplaceAt(bullets, at, Effective(r))

\* One turn of the loop of _rebuild_resume over the records.
ReplayRecord(bullets, i, records) ==
    IF BulletId(i) \notin DOMAIN records THEN bullets
    ELSE IF records[BulletId(i)].op = "omitted" THEN ApplyOmission(bullets, i, records[BulletId(i)])
    ELSE SetBullet(bullets, i, records[BulletId(i)])

\* The whole loop, in the order of the ledger.
Replay(bullets, records) ==
    FoldLeft(LAMBDA after, i : ReplayRecord(after, i, records), bullets, [i \in Bullets |-> i])

\* ground_text on a text of the page: redacts what the heuristic misreads.
Ground(t) == IF t.form = "source" /\ t.of \in Misread
             THEN [t EXCEPT !.form = "redacted"] ELSE t
Needed(t) == Ground(t) # t

\* resume_completeness_errors: distinct bullets are counted, less the removals
\* the ledger proves, and a proven removal must not be on the page.
Removed(records) ==
    {i \in Bullets : /\ BulletId(i) \in DOMAIN records
                     /\ records[BulletId(i)].op = "omitted"
                     /\ Effective(records[BulletId(i)]) = Blank}
Complete(bullets, records) ==
    /\ \A i \in Removed(records) : Source(i) \notin ToSet(bullets)
    /\ Cardinality(ToSet(bullets) \ {Blank}) + Cardinality(Removed(records)) >= BulletCount

SummaryText(records) ==
    IF SummaryId \in DOMAIN records THEN Effective(records[SummaryId]) ELSE Blank

\* _rebuild_cover_letter: the paragraphs that are not rejected.
Letter(records) ==
    {p \in Paragraphs : records[ParagraphId(p)].status # "rejected"}
EnoughWords(letter) == MapThenSumSet(LAMBDA p : Words[p], letter) >= MinUsableWords

\* Mutated form of Usable: the minimum only holds for a letter with a body.
UsableIfAny(letter) == letter # {} => EnoughWords(letter)
Usable(letter) == letter # {} /\ EnoughWords(letter)

\* apply_change_actions: all of it or nothing. Only the documents a record of
\* the batch belongs to are rebuilt, and only if they were delivered.
ApplyBatch(batch) ==
    LET targets == {ArtifactOf(id) : id \in DOMAIN batch}
        rebuilt == {a \in targets : page.has[a]}
        records == Disposed(batch)
        bullets == Replay(page.bullets, records)
        repaired == \E t \in ToSet(bullets) \cup {SummaryText(records)} : Needed(t)
    IN  /\ MayChange(reports, targets)
        /\ \A id \in DOMAIN batch : Reversible(id) \/ batch[id] = "accept"
        /\ "resume" \in rebuilt => /\ Len(bullets) <= MaxLines
                                   /\ Complete([j \in DOMAIN bullets |-> Ground(bullets[j])],
                                               records)
        /\ "cover_letter" \in rebuilt => Usable(Letter(records))
        /\ ledger' = records
        /\ page' = [bullets |-> IF "resume" \in rebuilt
                                THEN [j \in DOMAIN bullets |-> Ground(bullets[j])]
                                ELSE page.bullets,
                    summary |-> IF "resume" \in rebuilt THEN Ground(SummaryText(records))
                                ELSE page.summary,
                    letter |-> IF "cover_letter" \in rebuilt THEN Letter(records)
                               ELSE page.letter,
                    has |-> page.has]
        /\ health' = [a \in Primary |->
                        IF a \notin rebuilt THEN health[a]
                        ELSE ValidationStatus(FALSE, a = "resume" /\ repaired)]
        /\ UNCHANGED <<plan, reports>>

Next == \E batch \in Batches : ApplyBatch(batch)
Spec == Init /\ [][Next]_vars
(***************************************************************************)
(* Properties                                                              *)
(***************************************************************************)
IsRejected(id) == id \in DOMAIN ledger /\ ledger[id].status = "rejected"

\* What the ledger promises of a bullet: its text on the page, or no text.
PromisedText(i) ==
    IF plan.bullet[i] = "kept" \/ IsRejected(BulletId(i)) THEN Source(i) ELSE Decided(plan, i)
PromisedBullets == Without([i \in Bullets |-> PromisedText(i)], Blank)
PromisedSummary ==
    IF plan.summary = "kept" \/ IsRejected(SummaryId) THEN Source(0) ELSE Tailored(0)

\* The kits whose rebuild can rely on positions: nothing is pruned above a bullet
\* that stays, nothing of the source is misread, the summary has a record. At most
\* two bullets are pruned: a third one, put back before the others, would not find
\* its place.
Pruned == {i \in Bullets : plan.bullet[i] = "omitted"}
Orderly ==
    /\ Misread = {} /\ plan.summary = "rewritten" /\ Cardinality(Pruned) <= 2
    /\ \A i, j \in Bullets : i < j /\ plan.bullet[i] = "omitted" => plan.bullet[j] = "omitted"

\* change_actions.py:64-68: reject and restore are drift-free. In an orderly kit
\* the resume is a function of the statuses in the ledger, whatever batches led
\* there: every rejected change shows the original, every other the tailored
\* text, in the order of the source.
OrderlyDriftFree ==
    Orderly /\ page.has.resume =>
        page.bullets = PromisedBullets /\ page.summary = PromisedSummary

\* change_actions.py:461-463: the letter never drifts. Whatever batches led there
\* it holds exactly the paragraphs that are not rejected, and a letter that lost
\* one still has the usable number of words.
LetterFollowsLedger ==
    page.has.cover_letter =>
        /\ page.letter = {p \in Paragraphs : ~IsRejected(ParagraphId(p))}
        /\ page.letter # Paragraphs => EnoughWords(page.letter)

\* The delivery reports are written once and no batch refreshes them: what they
\* call delivered must stay there to be exported, validated, the letter with a
\* body, the resume with no fewer distinct bullets than the pruning delivered.
DeliveredDocuments ==
    \A a \in Primary : reports[a] \in Delivered =>
        /\ MayExport(reports, a, page.has[a])
        /\ health[a] \in {"generated", "repaired"}
        /\ a = "cover_letter" => page.letter # {}
ExportsStayValid ==
    /\ DeliveredDocuments
    /\ reports["resume"] \in Delivered =>
           Cardinality(ToSet(page.bullets) \ {Blank}) >= Len(DocumentBullets(plan))

\* While the input of a kit waits for a review, no batch touches the ledger of an
\* artifact that was withheld.
WithheldRecordsFrozen ==
    [][RollUp(reports) = "needs_input_review" =>
         \A id \in DOMAIN ledger :
           reports[ArtifactOf(id)] \notin Delivered => ledger'[id] = ledger[id]]_vars

\* change_actions.py:399-400: a lossy resume must never persist. Every bullet of
\* the source that no pruning in effect removed is on the page, in full.
NothingLost ==
    page.has.resume =>
        \A i \in Bullets : PromisedText(i) # Blank =>
            \E t \in ToSet(page.bullets) : t.of = i /\ t.form \in {"source", "tailored"}
=============================================================================
