---------------------------- MODULE KitGeneration ----------------------------
(***************************************************************************)
(* Kits generated by workers from one resume and one posting, with a       *)
(* provider, an optional fallback provider, and the cache all workers      *)
(* share on disk (generate_application_kit, run_pipeline, generate_json,   *)
(* generate_text, CountingProvider, FallbackProvider, ContentHashCache).   *)
(*                                                                         *)
(* A kit goes through stages; the provider calls of a stage run in threads *)
(* of their own.  Each ends with a text of the provider or with the one    *)
(* the engine makes itself.  A text is who wrote it, in a call of which    *)
(* kit, and its defects (OptionalArtifacts); the profile that comes from   *)
(* the extraction is computed (ProfileFloor).                              *)
(***************************************************************************)
EXTENDS ProfileFloor, OptionalArtifacts

Delivery == INSTANCE KitDelivery

CONSTANTS
    Kits, Nobody,
    Scenarios    \* a sequence: resumes, provider behaviours and requests to look at

VARIABLES
    setting,     \* which of the scenarios it is
    job,         \* job[k]: the generation of kit k
    disk,        \* the cache: a function from prompts to texts
    upsets       \* provider failures, bad answers and evictions so far (bound)

scenario == Scenarios[setting]
vars == <<setting, job, disk, upsets>>

-----------------------------------------------------------------------------
(* Tasks *)

Extraction == {"profile", "jd"}
PlanTasks == {"headline", "summary", "bullets"}

\* The stages of run_pipeline and of the optional artifacts after it.
Stages == <<Extraction, PlanTasks, {"cover_letter"}, {"answers"},
            {"job_fit"}, {"interview_prep"}, {"linkedin_outreach"}>>
PipelineStages == 4
Tasks == UNION Range(Stages)

\* Tasks that ask for JSON; the others ask for text.
Json == Extraction \cup PlanTasks

\* Further attempts: of generate_json when the answer does not parse, of
\* _llm_generate when it is empty or refused, of the optional artifacts none.
Retries(t) == IF t \in Extraction THEN 2 ELSE IF t \in PlanTasks \cup {"cover_letter", "answers"} THEN 1 ELSE 0

Refused(t) ==
    CASE t = "headline" -> HeadlineRefuses
      [] t = "summary" -> SummaryRefuses
      [] t = "bullets" -> BulletsRefuse
      [] t = "cover_letter" -> CoverLetterRefuses
      [] t = "answers" -> AnswerRefuses
      [] OTHER -> {"garbage", "shape"} \cap (IF t \in Extraction THEN Defects ELSE {"garbage"})

\* Parses are lists of records, and only a narrative has an assessment to clash
\* with.
ASSUME ScenarioAssumption ==
    /\ Nobody \notin Kits
    /\ \A n \in DOMAIN Scenarios :
        LET s == Scenarios[n]
        IN  /\ s.kits \subseteq Kits /\ s.tasks \subseteq Tasks /\ s.asked \subseteq Delivery!Kinds
            /\ {s.own, s.structure} \subseteq [Delivery!Kinds -> SUBSET Defects]
            /\ ReadInOrder(s.resume)
            /\ \A w \in {"primary", "fallback"} : s.reading[w].records \in Seq(Records)
            /\ \A t \in s.tasks : \A defects \in s.answers[t] :
                  defects \subseteq IF t \in Narratives THEN Defects ELSE Defects \ {"clash"}

\* A generation is running, delivered, or ends as suspect or late_suspect.
Writers == {"engine", "primary", "fallback"}
EngineText == [from |-> "engine", by |-> Nobody, defects |-> {}]

\* at: not asked, with the primary provider, with the fallback, settled.
NewTask == [at |-> "todo", attempt |-> 0, text |-> EngineText]
NoReports == [kind \in scenario.asked |-> [report |-> "not_requested", text |-> {}]]
NewJob == [stage |-> 0, end |-> "running", calls |-> 0, fallbackUsed |-> FALSE,
           task |-> [t \in scenario.tasks |-> NewTask], reports |-> NoReports]

\* The text of a task; what nobody was asked for is the engine's.
Text(k, t) == IF t \in scenario.tasks THEN job[k].task[t].text ELSE EngineText

\* The profiles of every scenario, one for each writer of the extraction.
Profiles ==
    [n \in DOMAIN Scenarios |-> [w \in Writers |->
        IF w = "engine" THEN HeuristicProfile(Scenarios[n].resume)
        ELSE ProviderProfile(Scenarios[n].resume, Scenarios[n].reading[w])]]

\* The profile a kit works with: build_profile of the pipeline.
Profile(k) == Profiles[setting][Text(k, "profile").from]
Floor == Profiles[setting]["engine"]

\* What a prompt of a task says: prompts that say the same share a cache entry.
\* The repair prompt of a further attempt is another prompt.
Prompt(k, t) ==
    [task |-> t, attempt |-> job[k].task[t].attempt,
     evidence |-> IF t \in Extraction THEN <<>> ELSE <<Profile(k), Text(k, "jd").from>>,
     plan |-> IF t \in {"cover_letter", "answers"}
              THEN <<Text(k, "summary"), Text(k, "bullets")>> ELSE <<>>]
ProfileKey == [task |-> "parsed profile", attempt |-> 0, evidence |-> <<>>, plan |-> <<>>]

\* The tasks of the stage kit k is in that are at one of the given places.
TasksAt(k, places) ==
    IF k \in scenario.kits /\ job[k].end = "running" /\ job[k].stage \in DOMAIN Stages
    THEN {t \in Stages[job[k].stage] \cap scenario.tasks : job[k].task[t].at \in places}
    ELSE {}

Upset == upsets < scenario.upsets /\ upsets' = upsets + 1

-----------------------------------------------------------------------------
(* One provider call *)

\* The task as it goes on: a settled text, or another attempt.
Settled(task, text) == [task EXCEPT !.at = "done", !.text = text]
\* Mutated form of Again: the same prompt once more.
AgainSame(task) == [task EXCEPT !.at = "todo"]
Again(task) == [task EXCEPT !.at = "todo", !.attempt = @ + 1]

\* What becomes of a task with an answer, fresh or cached.
AfterAnswer(t, task, text) ==
    IF text.defects \cap Refused(t) = {}
    THEN Settled(task, IF t = "bullets" THEN [text EXCEPT !.defects = @ \ BulletRefuses] ELSE text)
    ELSE IF task.attempt < Retries(t) /\ (t \in Json => "garbage" \in text.defects) THEN Again(task)
    ELSE Settled(task, EngineText)

\* The call raised: generate_json gives up, _llm_generate sees an empty text.
AfterFailure(t, task) ==
    IF t \notin Json /\ task.attempt < Retries(t) THEN Again(task) ELSE Settled(task, EngineText)

\* generate_json and generate_text store an answer that parses before anybody
\* has looked at it; build_profile stores its profile, however it came about.
Stored(t, prompt, text, task) ==
    LET answered == "garbage" \notin text.defects /\ text # EngineText
        settled == t = "profile" /\ task.at = "done" /\ ~Suspect(scenario.resume, Floor)
        new == IF scenario.cached THEN {key \in {prompt, ProfileKey} :
                                            IF key = ProfileKey THEN settled ELSE answered}
               ELSE {}
    IN  [key \in DOMAIN disk \cup new |->
            IF key \notin new THEN disk[key] ELSE IF key = ProfileKey THEN task.text ELSE text]

\* Without a provider the engine writes all texts.
AskNobody(k) ==
    /\ scenario.provider = "none"
    /\ \E t \in TasksAt(k, {"todo"}) : job' = [job EXCEPT ![k].task[t] = Settled(@, EngineText)]
    /\ UNCHANGED <<setting, disk, upsets>>

\* The profile itself, or the answer to the prompt, is on disk.
Key(k, t) == IF t = "profile" /\ ProfileKey \in DOMAIN disk THEN ProfileKey ELSE Prompt(k, t)

Reuse(k) ==
    /\ scenario.provider # "none"
    /\ \E t \in TasksAt(k, {"todo"}) :
        LET key == Key(k, t)
            task == job[k].task[t]
            new == IF key = ProfileKey THEN Settled(task, disk[key]) ELSE AfterAnswer(t, task, disk[key])
        IN  /\ key \in DOMAIN disk
            /\ job' = [job EXCEPT ![k].task[t] = new]
            /\ disk' = IF key = ProfileKey THEN disk ELSE Stored(t, key, disk[key], new)
    /\ UNCHANGED <<setting, upsets>>

\* CountingProvider.complete: the call is counted, then made.
Ask(k) ==
    /\ scenario.provider # "none"
    /\ \E t \in TasksAt(k, {"todo"}) :
        /\ Key(k, t) \notin DOMAIN disk
        /\ job' = [job EXCEPT ![k].task[t].at = "primary", ![k].calls = @ + 1]
    /\ UNCHANGED <<setting, disk, upsets>>

\* A provider answers; a good answer is not an upset.
Answer(k) ==
    /\ \E t \in TasksAt(k, {"primary", "fallback"}) : \E defects \in scenario.answers[t] :
        LET task == job[k].task[t]
            text == [from |-> task.at, by |-> k, defects |-> defects]
            new == AfterAnswer(t, task, text)
        IN  /\ IF defects = {} THEN UNCHANGED upsets ELSE Upset
            /\ job' = [job EXCEPT ![k].task[t] = new]
            /\ disk' = Stored(t, Prompt(k, t), text, new)
    /\ UNCHANGED setting

\* The task ends without an answer, or is asked again.
Fail(k, t) ==
    LET new == AfterFailure(t, job[k].task[t])
    IN  /\ job' = [job EXCEPT ![k].task[t] = new]
        /\ disk' = Stored(t, Prompt(k, t), EngineText, new)

\* Mutated form of PrimaryRaises: the use of the fallback is not recorded.
PrimaryRaisesSilently(k) ==
    /\ Upset
    /\ \E t \in TasksAt(k, {"primary"}) :
        IF scenario.provider = "backed"
        THEN job' = [job EXCEPT ![k].task[t].at = "fallback"] /\ UNCHANGED disk
        ELSE Fail(k, t)
    /\ UNCHANGED setting

\* FallbackProvider.complete: the primary provider raises or times out.
PrimaryRaises(k) ==
    /\ Upset
    /\ \E t \in TasksAt(k, {"primary"}) :
        IF scenario.provider = "backed"
        THEN /\ job' = [job EXCEPT ![k].task[t].at = "fallback", ![k].fallbackUsed = TRUE]
             /\ UNCHANGED disk
        ELSE Fail(k, t)
    /\ UNCHANGED setting

FallbackRaises(k) ==
    /\ Upset
    /\ \E t \in TasksAt(k, {"fallback"}) : Fail(k, t)
    /\ UNCHANGED setting

-----------------------------------------------------------------------------
(* One kit *)

Begin(k) ==
    /\ k \in scenario.kits /\ job[k].stage = 0
    /\ job' = [job EXCEPT ![k].stage = 1]
    /\ UNCHANGED <<setting, disk, upsets>>

\* The next stage that has a task, or the end.
After(stage) ==
    Min({n \in (stage + 1)..Len(Stages) : Stages[n] \cap scenario.tasks # {}} \cup {Len(Stages) + 1})

\* run_concurrently waits for every task of its stage.  A profile that is suspect
\* ends the generation after the first stage; the orchestrator parses the resume
\* once more when run_pipeline has returned.
EndStage(k) ==
    /\ k \in scenario.kits /\ job[k].end = "running" /\ job[k].stage \in DOMAIN Stages
    /\ \A t \in Stages[job[k].stage] \cap scenario.tasks : job[k].task[t].at = "done"
    /\ LET next == After(job[k].stage)
           returns == job[k].stage <= PipelineStages /\ next > PipelineStages
       IN  job' = IF job[k].stage = 1 /\ Suspect(scenario.resume, Profile(k))
                  THEN [job EXCEPT ![k].end = "suspect"]
                  ELSE IF returns /\ Suspect(scenario.resume, Floor)
                  THEN [job EXCEPT ![k].end = "late_suspect"]
                  ELSE [job EXCEPT ![k].stage = next]
    /\ UNCHANGED <<setting, disk, upsets>>

\* The narrative of an optional artifact: prose of the provider, or its own.
Prose(k, kind) == IF Text(k, kind).from = "engine" THEN scenario.own[kind] ELSE Text(k, kind).defects

\* The artifacts of a kit, with the plan texts the optimizer kept.
Built(k, kind, kept) ==
    CASE kind = "resume" ->
            Resume(Text(k, "headline").defects,
                   IF "summary" \in kept THEN Text(k, "summary").defects ELSE {},
                   IF "bullets" \in kept THEN Text(k, "bullets").defects ELSE {},
                   IF "summary" \in kept THEN {} ELSE Text(k, "summary").defects)
      [] kind = "cover_letter" -> CoverLetter(Text(k, "cover_letter").defects)
      [] kind = "answers" -> Answers(Text(k, "answers").defects)
      [] OTHER -> Narrative(kind, Prose(k, kind), scenario.own[kind], scenario.structure[kind])

\* The artifacts and their reports.
Assemble(k) ==
    /\ k \in scenario.kits /\ job[k].end = "running" /\ job[k].stage > Len(Stages)
    /\ \E kept \in SUBSET {t \in {"summary", "bullets"} : Text(k, t).from # "engine"} :
        LET built == [kind \in scenario.asked |-> Built(k, kind, kept)]
            status(kind) == Delivery!ValidationStatus(built[kind].fatal, built[kind].repaired)
        IN  job' = [job EXCEPT ![k].end = "delivered",
                        ![k].reports = [kind \in scenario.asked |->
                            [report |-> Delivery!Report(TRUE, status(kind), "generated"),
                             text |-> built[kind].text]]]
    /\ UNCHANGED <<setting, disk, upsets>>

\* An entry expires or is evicted by diskcache.
Evict ==
    /\ Upset
    /\ \E key \in DOMAIN disk : disk' = [other \in DOMAIN disk \ {key} |-> disk[other]]
    /\ UNCHANGED <<setting, job>>

-----------------------------------------------------------------------------
(* Specification *)

Init ==
    /\ setting \in DOMAIN Scenarios
    /\ job = [k \in scenario.kits |-> NewJob]
    /\ disk = <<>>
    /\ upsets = 0

Step(k) ==
    \/ AskNobody(k) \/ Reuse(k) \/ Ask(k)
    \/ Answer(k) \/ PrimaryRaises(k) \/ FallbackRaises(k)
    \/ EndStage(k) \/ Assemble(k)

Next == Evict \/ \E k \in Kits : Begin(k) \/ Step(k)

Spec == Init /\ [][Next]_vars

\* The worker's threads run, and a provider answers or times out.
Fairness == \A k \in Kits : WF_vars(Step(k))
FairSpec == Spec /\ Fairness

-----------------------------------------------------------------------------
(* Properties *)

Running(k) == k \in scenario.kits /\ job[k].stage > 0 /\ job[k].end = "running"
DeliveredKits == {k \in DOMAIN job : job[k].end = "delivered"}

\* Nothing a provider wrote is used behind the back of the metadata (kit/routing.py:
\* the counters belong to one kit, the cache to all): the kit that paid for a text
\* counted a call for it, and disclosed the fallback provider if that one wrote it.
ProseIsAccounted ==
    \A k \in DOMAIN job :
        /\ Cardinality({t \in scenario.tasks : Text(k, t).by = k}) <= job[k].calls
        /\ \A t \in scenario.tasks :
            LET text == Text(k, t)
            IN  text.from # "engine" =>
                    /\ job[text.by].calls > 0
                    /\ text.from = "fallback" => job[text.by].fallbackUsed
                    /\ text.by # k => scenario.cached

\* The orchestrator grounds, validates and records changes against a parse of its
\* own (orchestrator.py:153) while the plan was made from the parse of the
\* provider: a position has to name the same record and bullet in both.
FloorStands ==
    \A k \in DOMAIN job : OnFloor(Profile(k), Floor)

\* What a provider adds to a record stands in the text of that record, whatever
\* it attributes to whom, if the names of a record do not occur in the text of
\* the record above it (_entry_source_contexts).
AddedInPlace ==
    NamesInHeadings(scenario.resume)
        => \A k \in DOMAIN job : GainedInPlace(scenario.resume, Profile(k))

\* A resume that has to be reviewed is refused before anything is written from
\* it, not by the second parse after run_pipeline (resume.py:76-111).
SuspectRefusedEarly ==
    \A k \in DOMAIN job :
        /\ job[k].end # "late_suspect"
        /\ job[k].stage > 1 => ~Suspect(scenario.resume, Floor)

\* A claim without evidence does not get past planner, grounding and fallback
\* into a delivered artifact, also when the prose was cached by another kit.
DeliveredSupported ==
    \A k \in DeliveredKits, kind \in scenario.asked :
        job[k].reports[kind].report \in Delivery!Delivered
            => job[k].reports[kind].text \cap Unsupported = {}

\* Bad prose costs no artifact the engine could have written alone: what is
\* withheld would be withheld without a provider too.  The narrative of the job
\* fit is the exception when a claim in it cannot be removed.
NarrativeSurvives ==
    \A k \in DeliveredKits, kind \in scenario.asked \cap Narratives :
        job[k].reports[kind].report = "failed" =>
            \/ Narrative(kind, scenario.own[kind], scenario.own[kind], scenario.structure[kind]).fatal
            \/ kind = "job_fit" /\ GroundFatal(Prose(k, kind))

\* Providers that fail, answer badly or late delay a kit and do not stop it.
GenerationEnds ==
    \A k \in Kits : Running(k) ~> ~Running(k)
=============================================================================
