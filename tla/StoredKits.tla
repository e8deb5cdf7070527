----------------------------- MODULE StoredKits -----------------------------
(***************************************************************************)
(* A kit's result as JSON in its row: written when the kit is generated,   *)
(* read by seven versions of the program's schema, and read, changed and   *)
(* written again by every batch of change actions (kit/serialization.py,   *)
(* services.py, document_export.py).  What a batch touches goes through    *)
(* the truth gate again (ClaimGrounding).                                  *)
(*                                                                         *)
(* A JSON object is a record with optional keys; a key whose value is null *)
(* is not there.  An artifact has one unit of text and one change record;  *)
(* a score is who computed it and, for the tailored one, from which text.  *)
(***************************************************************************)
EXTENDS ClaimGrounding, KitDelivery

CONSTANTS
    Alphabets,     \* sets of tokens; a draft is written with one of them
    Originals,     \* what the candidate's own resume says in place of a draft
    MaxTokens,     \* length of a draft (bound)
    OldVersions    \* the schemas of the rows to start from

\* A claim is not found in the stop a repair adds, and what the candidate's own
\* resume says is evidence (build_evidence_context): a claim found in it is
\* vouched for wherever it is made, or refused there as well (a tenure of no years).
ASSUME GroundingAssumption ==
    /\ \A token \in UNION Alphabets :
        token.sort \in Claimed =>
            /\ ~Inside(token.value, Stop.value)
            /\ \A original \in Originals :
                StillPresent(token, original) =>
                    \/ \A employed, titled \in BOOLEAN : Vouched(token, employed, titled)
                    \/ \E i \in Unsupported(original) : original[i].value = token.value
    /\ \A original \in Originals : original \in Seq(ToSet(original))

\* Version 7 is what the program writes today; 8 stands for a schema it does not know.
ASSUME VersionsAssumption == OldVersions \subseteq (0..8) \ {7}

VARIABLES
    alphabet,      \* the tokens of the draft
    granularity,   \* of the unit: "span" in a bullet, else "prose"
    draft,         \* what the provider wrote for the resume
    row            \* the stored result; NoResult before there is one

vars == <<alphabet, granularity, draft, row>>

NoResult == [schema |-> -1]

Get(json, key, default) == IF key \in DOMAIN json THEN json[key] ELSE default
\* json, and the defaults for the keys it does not have.
With(json, defaults) ==
    [key \in DOMAIN json \cup DOMAIN defaults |->
        IF key \in DOMAIN json THEN json[key] ELSE defaults[key]]
Drop(json, keys) == [key \in DOMAIN json \ keys |-> json[key]]

-----------------------------------------------------------------------------
(* What was asked for *)

Selectable == Primary \cup {"answers"}

\* The wording of a request; a kit may also say explicitly what to include.
Wordings == {"", "resume", "cover letter", "both", "resume and cover letter"}

\* detect_mode, for a kit with a job description.
Mode(wording, questions) ==
    CASE questions -> {"resume", "answers"}
      [] ~questions /\ wording \in {"both", "resume and cover letter"} -> Primary
      [] ~questions /\ wording = "cover letter" -> {"cover_letter"}
      [] OTHER -> {"resume"}

\* resolve_artifact_selection
Selection(mode, explicit) ==
    {kind \in Selectable : Get(explicit, kind, kind \in mode)}

\* The letters R, C and Q of a wording.
Letters(wording) ==
    CASE wording \in {"", "both"} -> {}
      [] wording = "resume" -> {"R"}
      [] OTHER -> {"R", "C"}
Letter == [resume |-> "R", cover_letter |-> "C", answers |-> "Q"]

\* Mutated form of RequestedKinds: the code of the selection is not looked at.
RequestedByWording(json) == {kind \in Selectable : Letter[kind] \in Letters(Get(json, "requested_mode", ""))}

\* _legacy_requested_kinds: the code of the selection and the wording, spelled.
RequestedKinds(json) ==
    Get(json, "resolved_mode", {}) \cup RequestedByWording(json)

-----------------------------------------------------------------------------
(* Reading *)

\* Mutated form of LegacyState: what was rejected is there after all.
LegacyStateOfPresent(json, kind) ==
    IF kind \in DOMAIN json THEN "generated"
    ELSE IF kind \in RequestedKinds(json) THEN "failed" ELSE "not_requested"

\* _legacy_document_state, for artifacts stored without a delivery report.
LegacyState(json, kind) ==
    IF kind \notin DOMAIN json
    THEN IF kind \in RequestedKinds(json) THEN "failed" ELSE "not_requested"
    ELSE IF Get(json[kind], "withheld", FALSE) \/ json[kind].fatal \/ json[kind].status = "rejected"
    THEN "failed" ELSE "generated"

\* _delivery_reports_from_dict
Reports(json) ==
    [kind \in Kinds |-> Get(Get(json, "delivery_reports", <<>>), kind, LegacyState(json, kind))]

\* _kit_state_from_dict; _infer_kit_state is the roll-up of KitDelivery.
StateOf(json) == Get(json, "state", RollUp(Reports(json)))

\* _with_delivery_projection: a state that was stored is not trusted.
Projected(json) ==
    [json EXCEPT !.delivery_reports = Reports(json), !.state = RollUp(Reports(json))]
Projection(json) == Projected(With(json, [delivery_reports |-> <<>>, state |-> "failed"]))

\* adapt_legacy_result: the flat result of Phase 1.
AdaptLegacy(json) ==
    With([schema |-> 0, state |-> IF json.fatal THEN "failed" ELSE "completed", delivery_reports |-> <<>>,
          validation |-> [fatal |-> json.fatal]],
         [kind \in Selectable \cap DOMAIN json |->
            [status |-> "generated", fatal |-> json.fatal, text |-> json[kind]]])

Unrecognized == [schema |-> 8, state |-> "failed", delivery_reports |-> <<>>]

\* A version 5 report says how it was scored and how it was optimized.
WithBasis(report) == With(report, [score_basis |-> "legacy_v1", trace |-> "fallback"])

\* normalize_persisted_result
Normalized(json) ==
    CASE json.schema = 7 -> json
      [] json.schema \in {1, 2, 3, 4, 6} -> Projection(json)
      [] json.schema = 5 /\ "match_report" \in DOMAIN json ->
            Projection([json EXCEPT !.match_report = WithBasis(@)])
      [] json.schema = 5 /\ "match_report" \notin DOMAIN json -> Projection(json)
      [] json.schema = 0 -> Projection(AdaptLegacy(json))
      [] OTHER -> Unrecognized

-----------------------------------------------------------------------------
(* The typed kit *)

\* _resume_from_dict, _cover_letter_from_dict: a ledger came with version 5.
ReadDocument(json) == With(json, [change_ledger |-> <<>>])
\* _answers_from_dict
ReadAnswers(json) == json
\* _job_fit_from_dict, _interview_prep_from_dict, _linkedin_outreach_from_dict
ReadNarrative(json) == With(json, [withheld |-> FALSE])
\* Mutated form of ReadReport: scores count as those of the current scorer.
ReadReportRescored(json) == With([score_basis |-> "ats_v2", trace |-> "fallback"], json)

\* _match_report_from_dict
ReadReport(json) == With(json, [score_basis |-> "ats_v2", trace |-> "fallback"])

Read(key, json) ==
    CASE key \in Primary -> ReadDocument(json)
      [] key = "answers" -> ReadAnswers(json)
      [] key \in Kinds \ Selectable -> ReadNarrative(json)
      [] key = "match_report" -> ReadReport(json)

\* application_kit_from_dict
FromDict(json) ==
    With([schema |-> json.schema, requested_mode |-> Get(json, "requested_mode", ""),
          resolved_mode |-> Get(json, "resolved_mode", {}),
          target_confidence |-> Get(json, "target_confidence", 0),
          validation |-> Get(json, "validation", [fatal |-> FALSE]),
          state |-> StateOf(json), delivery_reports |-> Reports(json)],
         [key \in (Kinds \cup {"match_report"}) \cap DOMAIN json |-> Read(key, json[key])])

\* Writing names every field: what is not named is lost.
Fields(part, names) == [key \in names \cap DOMAIN part |-> part[key]]
Validated == {"text", "status", "fatal"}

\* _resume_to_dict, _cover_letter_to_dict and their documents
WriteDocument(part) == Fields(part, Validated \cup {"document", "change_ledger"})
\* _answers_to_dict: its items are the document
WriteAnswers(part) == Fields(part, Validated \cup {"document"})
\* _job_fit_to_dict, _interview_prep_to_dict
WriteNarrative(part) == Fields(part, Validated \cup {"document", "withheld"})
\* _match_report_to_dict: the removals of the run are not written
WriteReport(part) ==
    Fields(part, {"score_basis", "trace", "original_ats_match", "tailored_ats_match"})

\* application_kit_to_dict
ToDict(kit) ==
    [key \in DOMAIN kit |->
        CASE key \in Primary -> WriteDocument(kit[key])
          [] key = "answers" -> WriteAnswers(kit[key])
          [] key \in Kinds \ Selectable -> WriteNarrative(kit[key])
          [] key = "match_report" -> WriteReport(kit[key])
          [] OTHER -> kit[key]]

-----------------------------------------------------------------------------
(* Scores *)

\* A score, with the keyword coverage and the summary that are made from it.
Score(scorer, text) == [scorer |-> scorer, text |-> text]

\* Mutated form of Rescored: only the original resume is scored again.
RescoredOriginal(report, text, typed) ==
    IF typed THEN With([original_ats_match |-> "pramana"], report) ELSE report

\* _recompute_match_report: PRAMANA scores the new text, and the original one again
\* if the posting has typed requirements; the basis that is on record stays.
Rescored(report, text, typed) ==
    With([tailored_ats_match |-> Score("pramana", text)],
         IF typed THEN With([original_ats_match |-> "pramana"], report) ELSE report)

\* _recompute_kit_validation
Validation(kit) == [fatal |-> \E kind \in Kinds \cap DOMAIN kit : kit[kind].fatal]

-----------------------------------------------------------------------------
(* Generation *)

\* _artifact_validation, _build_resume_artifact: no document of a rejected text.
Artifact(outcome) ==
    With([status |-> ValidationStatus(outcome.fatal, outcome.repaired > 0), fatal |-> outcome.fatal,
          text |-> IF outcome.fatal THEN <<>> ELSE outcome.clean],
         IF outcome.fatal THEN <<>> ELSE [document |-> TRUE])
Plain == <<[sort |-> "word", value |-> "word"], Stop>>
Good == [status |-> "generated", fatal |-> FALSE, text |-> Plain, document |-> TRUE]
Bad == [status |-> "rejected", fatal |-> TRUE, text |-> <<>>]

\* One record of the ledger: the candidate's text and the tailored one.
Ledger(original, tailored) ==
    [change_ledger |-> <<[original |-> original, tailored |-> tailored, status |-> "proposed"]>>]

\* The unit the change actions rebuild is kept grounded from the start.
Write ==
    /\ row = NoResult /\ Len(draft) < MaxTokens
    /\ \E token \in alphabet :
        /\ token.sort \in Breaks => draft # <<>> /\ Last(draft).sort \notin Breaks
        /\ draft' = Append(draft, token)
    /\ UNCHANGED <<alphabet, granularity, row>>

\* process_kit stores a kit of the current schema: a resume with the draft in it
\* and a cover letter.
Generate(original) ==
    LET outcome == Ground(granularity, draft)
        resume == With(Artifact(outcome), Ledger(original, outcome.clean))
        reports == [kind \in Kinds |->
            CASE kind = "resume" -> Report(TRUE, resume.status, "generated")
              [] kind = "cover_letter" -> "generated"
              [] OTHER -> "not_requested"]
        scored == IF outcome.fatal THEN <<>> ELSE [tailored_ats_match |-> Score("pramana", outcome.clean)]
        report == With([score_basis |-> "pramana", trace |-> "run", removals |-> TRUE,
                        original_ats_match |-> "pramana"], scored)
    IN  /\ row = NoResult /\ draft # <<>>
        /\ row' = ToDict([schema |-> 7, requested_mode |-> "both", resolved_mode |-> Primary,
                          target_confidence |-> 1, validation |-> [fatal |-> outcome.fatal],
                          state |-> RollUp(reports), delivery_reports |-> reports,
                          resume |-> resume, cover_letter |-> With(Good, [change_ledger |-> <<>>]),
                          match_report |-> report])
        /\ UNCHANGED <<alphabet, granularity, draft>>

-----------------------------------------------------------------------------
(* Change actions *)

Dispositions == {"accepted", "rejected", "proposed"}
Effective(record) == IF record.status = "rejected" THEN record.original ELSE record.tailored

\* apply_change_actions on a copy of the kit: if there is a document, its unit is
\* made from the record and grounded again; a resume made again is scored again.
Changed(kit, kind, status, typed) ==
    LET record == [kit[kind].change_ledger[1] EXCEPT !.status = status]
        outcome == Ground(granularity, Effective(record))
        rebuilt == "document" \in DOMAIN kit[kind]
        artifact == With([change_ledger |-> <<record>>], IF rebuilt THEN Artifact(outcome) ELSE kit[kind])
        report == IF kind = "resume" /\ rebuilt /\ "match_report" \in DOMAIN kit
                  THEN [match_report |-> Rescored(kit.match_report, outcome.clean, typed)] ELSE <<>>
        done == With([key \in {kind} |-> artifact], With(report, kit))
    IN  [refused |-> rebuilt /\ outcome.fatal, kit |-> With([validation |-> Validation(done)], done)]

\* apply_kit_change_actions: the row is read, changed as a typed kit and written
\* again; the posting, with typed requirements or without, is parsed anew.  What
\* else may refuse a batch (a score below the original one among it) leaves the
\* row as it is; for the rest of it see ChangeLedger and KitLifecycle.
Edit(kind, status, typed) ==
    /\ row.schema \in 5..7
    /\ LET kit == FromDict(Normalized(row))
           changed == Changed(kit, kind, status, typed)
       IN  /\ kit.state \in ActionableStates
           /\ kit.state = "needs_input_review" => kit.delivery_reports[kind] \in Delivered
           /\ kind \in DOMAIN kit /\ kit[kind].change_ledger # <<>>
           /\ ~changed.refused
           /\ row' = ToDict(changed.kit)
    /\ UNCHANGED <<alphabet, granularity, draft>>

-----------------------------------------------------------------------------
(* Rows of earlier versions: what came with which version *)

Requests == {[requested_mode |-> wording, resolved_mode |-> Selection(Mode(wording, questions), explicit)] :
                wording \in Wordings, questions \in BOOLEAN,
                explicit \in {<<>>, [resume |-> FALSE], [cover_letter |-> TRUE]}}

\* The artifacts of a request; one that was asked for may be missing.
Documents(selected, version) ==
    LET made(kind) == IF kind = "answers" THEN {Good, Bad}
                      ELSE {With(artifact, IF version < 5 THEN <<>> ELSE Ledger(Plain, Plain)) : artifact \in {Good, Bad}}
        Kept(kind) == {<<>>} \cup {[key \in {kind} |-> artifact] : artifact \in made(kind)}
    IN  {With(With(resume, letter), answers) :
            resume \in IF "resume" \in selected THEN Kept("resume") ELSE {<<>>},
            letter \in IF "cover_letter" \in selected THEN Kept("cover_letter") ELSE {<<>>},
            answers \in IF "answers" \in selected THEN Kept("answers") ELSE {<<>>}}

Narratives(version) ==
    IF version < 2 THEN {<<>>}
    ELSE {<<>>, [job_fit |-> With(Good, [withheld |-> FALSE])], [job_fit |-> With(Bad, [withheld |-> TRUE])]}

\* The scores of a kit; a resume that was withheld has none.
MatchReports(version, documents) ==
    LET scorer == IF version = 5 THEN "legacy" ELSE "ats_v2"
        basis == IF version = 5 THEN <<>> ELSE [score_basis |-> "ats_v2", trace |-> "run"]
        tailored == IF "resume" \in DOMAIN documents /\ ~documents["resume"].fatal
                    THEN [tailored_ats_match |-> Score(scorer, documents["resume"].text)] ELSE <<>>
    IN  IF version < 5 THEN {<<>>}
        ELSE {<<>>, [match_report |-> With([original_ats_match |-> scorer], With(tailored, basis))]}

\* The flat results of Phase 1.
FirstRows ==
    {With([schema |-> 0, fatal |-> fatal], texts) :
        fatal \in BOOLEAN,
        texts \in {[resume |-> Plain], [cover_letter |-> Plain], [resume |-> Plain, answers |-> Plain]}}

LaterRows(version) ==
    UNION {UNION {
        {With([schema |-> version, validation |-> Validation(With(documents, narratives))],
              With(request, With(documents, With(narratives, report)))) :
            narratives \in Narratives(version), report \in MatchReports(version, documents)} :
        documents \in Documents(request.resolved_mode, version)} :
     request \in Requests}

OldRows(version) ==
    IF version = 0 THEN FirstRows
    ELSE IF version = 8 THEN {[schema |-> 8, resume |-> Good]} ELSE LaterRows(version)

Init ==
    /\ draft = <<>>
    /\ \/ granularity \in {"prose", "span"} /\ alphabet \in Alphabets /\ row = NoResult
       \/ granularity = "prose" /\ alphabet = {} /\ \E version \in OldVersions : row \in OldRows(version)

Next ==
    \/ Write
    \/ \E original \in Originals : Generate(original)
    \/ \E kind \in Primary, status \in Dispositions, typed \in BOOLEAN : Edit(kind, status, typed)

Spec == Init /\ [][Next]_vars

-----------------------------------------------------------------------------
(* Properties *)

Stored == row.schema # -1
Shown == Normalized(row)

\* A fabricated value is absent from what a kit says, whatever else the text says
\* and however often its changes are accepted, rejected and restored
\* (grounding.py:19-21).
FabricationsAbsent ==
    Stored /\ draft # <<>> => \A i \in Unsupported(draft) : ~StillPresent(draft[i], row.resume.text)

\* A text without what separates its clauses.
Wording(t) == Picked(t, {i \in DOMAIN t : t[i].sort \notin Breaks})

\* Repair costs the clauses that carry an unsupported claim and no other: in a
\* new kit every other clause is there, whole and in order (grounding.py:1037-1047).
TruthIsKept ==
    [][row = NoResult /\ row' # NoResult /\ granularity = "prose" /\ ~row'.resume.fatal =>
        LET hit == {Clause(draft, i) : i \in Unsupported(draft)}
            rest == {i \in DOMAIN draft : Clause(draft, i) \notin hit /\ draft[i].sort \notin Breaks}
        IN  Wording(row'.resume.text) = Picked(draft, rest)]_vars

\* Two JSON objects have the same keys, but for some, and the same under them.
Same(one, other, besides) ==
    \A key \in (DOMAIN one \cup DOMAIN other) \ besides :
        key \in DOMAIN one /\ key \in DOMAIN other /\ one[key] = other[key]

\* What is the same in a kit before and after a batch on one artifact.
OnlyTouched(kind, before, after) ==
    LET parts == Kinds \cup {"match_report"}
        scores == IF kind = "resume" /\ "document" \in DOMAIN before[kind]
                  THEN {"original_ats_match", "tailored_ats_match"} ELSE {}
    IN  /\ Same(after, before, parts \cup {"validation", "target_confidence"})
        /\ "target_confidence" \in DOMAIN before => after["target_confidence"] = before["target_confidence"]
        /\ parts \cap DOMAIN after = parts \cap DOMAIN before
        /\ \A part \in (parts \ {kind}) \cap DOMAIN before :
                Same(after[part], before[part], IF part = "match_report" THEN scores ELSE {})

\* A batch changes the artifact it names, the roll-up of the kit's validation and,
\* if it makes the resume again, the scores of the resume.  Nothing else that a
\* reader was shown changes, is lost or is added, whichever version wrote the kit:
\* not its state or its reports, not another artifact, not the basis and the trace
\* of its scores (services.py:293-340, change_actions.py:234-252).  The exception
\* is a confidence that was null: it is a number from then on.
EditKeepsTheRest ==
    [][\A before \in {Shown}, after \in {Normalized(row')} :
        Stored => \E kind \in Primary \cap DOMAIN before : OnlyTouched(kind, before, after)]_vars

\* The score a reader is shown beside a resume is that of the very text they are
\* shown, however often its changes were accepted, rejected and restored, and
\* whichever version wrote the kit (change_actions.py:82-84, 234-246).
ScoresFollowTheText ==
    Stored => LET shown == Shown
                  report == Get(shown, "match_report", <<>>)
              IN  "tailored_ats_match" \in DOMAIN report =>
                    "resume" \in DOMAIN shown /\ report["tailored_ats_match"].text = shown["resume"].text

\* However old a kit is, it is not shown as completed while a document it was
\* asked for is missing or was rejected (serialization.py:971-973, 1573-1575).
HonestHistory ==
    Stored /\ Shown.state = "completed" =>
        \A kind \in Get(row, "resolved_mode", {}) :
            kind \in DOMAIN Shown /\ ~Shown[kind].fatal
=============================================================================
