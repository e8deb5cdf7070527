-------------------------- MODULE OptionalArtifacts --------------------------
(***************************************************************************)
(* How the engine decides on the texts a provider wrote: what the planner  *)
(* refuses, what grounding removes, and when an artifact is withheld.      *)
(* Pure.  A text is the set of its defects.                                *)
(***************************************************************************)
EXTENDS FiniteSets

\* garbage: empty, or not the JSON asked for.  shape, style, length: wording the
\* planner can refuse.  number: a metric without evidence; claim: another claim
\* without evidence; stuck: one that is still there after its removal.  thin:
\* too little is left after the removal.  clash: contradicts the evidence matrix.
Defects == {"garbage", "shape", "style", "length", "number", "claim", "stuck", "thin", "clash"}

Removable == {"number", "claim"}
Unsupported == Removable \cup {"stuck", "clash"}

-----------------------------------------------------------------------------
(* What the validators of the planner refuse (generation/planning.py) *)

\* The headline has to be the expected text, word for word.
HeadlineRefuses == Defects
SummaryRefuses == {"garbage", "shape", "style", "length", "number"}
\* An item that fails is replaced by its original, the rest is kept.
BulletsRefuse == {"garbage", "shape"}
BulletRefuses == {"style", "length", "number"}
CoverLetterRefuses == {"garbage", "shape", "style", "length", "number"}
AnswerRefuses == {"garbage", "style", "length"}

-----------------------------------------------------------------------------
(* What grounding leaves of a text *)

Grounded(text) == text \ (Removable \cup {"thin"})
GroundFatal(text) == "stuck" \in text
Repaired(text) == text \cap Removable # {}

\* An artifact: whether it is withheld, was repaired, and what it delivers.
Artifact(fatal, repaired, text) ==
    [fatal |-> fatal, repaired |-> repaired, text |-> IF fatal THEN {} ELSE text]

\* _ground_resume: the summary and the bullets are grounded, the headline is not.
\* A summary the optimizer dropped can be repaired, but withholds nothing.
Resume(headline, summary, bullets, dropped) ==
    Artifact(GroundFatal(summary \cup bullets), Repaired(summary \cup bullets \cup dropped),
             headline \cup Grounded(summary \cup bullets))

\* _ground_cover_letter
CoverLetter(body) ==
    Artifact(GroundFatal(body) \/ (Repaired(body) /\ "thin" \in body), Repaired(body), Grounded(body))

\* _ground_answers
Answers(text) == Artifact(GroundFatal(text), Repaired(text), Grounded(text))

\* Mutated form of JobFit: the narrative that replaces another is not grounded.
JobFitTrusting(prose, own) ==
    LET errors == "clash" \in prose
        final == IF errors THEN own ELSE Grounded(prose)
    IN  Artifact(GroundFatal(prose) \/ "clash" \in final, errors \/ Repaired(prose), final)

\* build_job_fit_artifact: prose that contradicts the assessment is replaced by
\* the deterministic narrative, own.  A claim that sticks withholds it for good.
JobFit(prose, own) ==
    LET errors == "clash" \in prose
        final == IF errors THEN own ELSE prose
    IN  Artifact(\/ GroundFatal(prose)
                 \/ "clash" \in final
                 \/ errors /\ GroundFatal(own),
                 errors \/ Repaired(prose) \/ (errors /\ Repaired(own)),
                 Grounded(final))

\* Mutated form of InterviewPrep: a claim that sticks withholds the artifact.
InterviewPrepHarsh(prose, own, structure) ==
    Artifact(GroundFatal(prose \cup structure) \/ "clash" \in (prose \cup structure),
             Repaired(prose \cup structure), Grounded(prose \cup structure))

\* build_interview_prep_artifact: either reason leads to the deterministic
\* strategy.  structure: the questions, guides and stories, always grounded.
InterviewPrep(prose, own, structure) ==
    LET errors == "clash" \in prose \cup structure
        replaced == errors \/ GroundFatal(prose)
        final == IF replaced THEN own ELSE prose
    IN  Artifact(\/ GroundFatal(structure)
                 \/ "clash" \in final \cup structure
                 \/ replaced /\ GroundFatal(own),
                 \/ Repaired(prose \cup structure) \/ errors
                 \/ replaced /\ Repaired(own),
                 Grounded(final \cup structure))

\* build_linkedin_outreach_artifact: structure is its drafts, which may also be
\* left without text; the strategy has a length limit.
LinkedInOutreach(prose, own, structure) ==
    LET errors == "clash" \in prose \cup structure \/ "length" \in prose
        replaced == errors \/ GroundFatal(prose)
        final == IF replaced THEN own ELSE prose
    IN  Artifact(\/ GroundFatal(structure) \/ (Repaired(structure) /\ "thin" \in structure)
                 \/ "clash" \in final \cup structure \/ "length" \in final
                 \/ replaced /\ GroundFatal(own),
                 \/ Repaired(prose \cup structure) \/ errors
                 \/ replaced /\ Repaired(own),
                 Grounded(final \cup structure))

\* One artifact of those with a deterministic narrative of their own.
Narratives == {"job_fit", "interview_prep", "linkedin_outreach"}
Narrative(kind, prose, own, structure) ==
    CASE kind = "job_fit" -> JobFit(prose, own)
      [] kind = "interview_prep" -> InterviewPrep(prose, own, structure)
      [] kind = "linkedin_outreach" -> LinkedInOutreach(prose, own, structure)
=============================================================================
