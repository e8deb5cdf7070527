----------------------------- MODULE KitDelivery -----------------------------
(* How a generated kit says what it delivers: the validation of an artifact, *)
(* its delivery report, the state of the kit, and the gates the API derives  *)
(* from them. Pure; wording, findings and scores are left out.               *)

DocumentStates == {"generated", "generated_with_fallback", "needs_input_review",
                   "failed", "not_requested"}
KitStates == {"completed", "partially_completed", "needs_input_review", "failed"}
Delivered == {"generated", "generated_with_fallback"}

Primary == {"resume", "cover_letter"}
Kinds == Primary \cup {"answers", "job_fit", "interview_prep", "linkedin_outreach"}

\* "none": the artifact was not built. "rejected" is the only fatal status.
ArtifactStatuses == {"none", "generated", "repaired", "rejected"}
ValidationStatus(fatal, repairs) ==
    IF fatal THEN "rejected" ELSE IF repairs THEN "repaired" ELSE "generated"

\* Mutated form of Report: a fatal artifact is reported like any other.
ReportIgnoringFatal(requested, artifact, preferred) ==
    CASE ~requested -> "not_requested"
      [] requested /\ preferred = "needs_input_review" -> "needs_input_review"
      [] requested /\ preferred # "needs_input_review" /\ artifact = "none" -> "failed"
      [] OTHER -> IF preferred = "generated_with_fallback" \/ artifact = "repaired"
                  THEN "generated_with_fallback" ELSE "generated"

\* _document_delivery_report. Only the resume has a preferred state other than
\* "generated": what the optimizer reports of its plan.
Report(requested, artifact, preferred) ==
    IF ~requested THEN "not_requested"
    ELSE IF preferred = "needs_input_review" THEN "needs_input_review"
    ELSE IF artifact \in {"none", "rejected"} THEN "failed"
    ELSE IF preferred = "generated_with_fallback" \/ artifact = "repaired"
    THEN "generated_with_fallback"
    ELSE "generated"

Requested(reports) == {k \in DOMAIN reports : reports[k] # "not_requested"}

\* The part of the roll-up that looks at one group of artifacts.
GroupState(reports, group) ==
    IF \E k \in group : reports[k] = "needs_input_review" THEN "needs_input_review"
    ELSE IF \A k \in group : reports[k] \in Delivered THEN "completed"
    ELSE IF \E k \in group : reports[k] \in Delivered THEN "partially_completed"
    ELSE "failed"

\* _roll_up_kit_state, and _infer_kit_state for kits stored before version 7.
RollUp(reports) ==
    LET primary == Requested(reports) \cap Primary
        secondary == Requested(reports) \ Primary
        state == GroupState(reports, primary)
    IN  IF primary = {} THEN GroupState(reports, secondary)
        ELSE IF state = "completed" /\ \E k \in secondary : reports[k] \notin Delivered
        THEN "partially_completed"
        ELSE state

\* A kit whose documents may be changed (services.py, _ACTIONABLE_STATES).
ActionableStates == {"completed", "partially_completed", "needs_input_review"}

\* Mutated form of MayChange: nothing more is asked of a kit under review.
MayChangeUnderReview(reports, kinds) == RollUp(reports) \in ActionableStates

\* apply_kit_change_actions: while the kit waits for a review of its input, only
\* the records of a delivered artifact may be acted on.
MayChange(reports, kinds) ==
    /\ RollUp(reports) \in ActionableStates
    /\ RollUp(reports) = "needs_input_review" => \A k \in kinds : reports[k] \in Delivered

\* _require_delivered_report, and the refusal of an artifact without text.
MayExport(reports, kind, hasText) == reports[kind] \in Delivered /\ hasText
=============================================================================
