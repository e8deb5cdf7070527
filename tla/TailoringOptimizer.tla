------------------------- MODULE TailoringOptimizer -------------------------
(***************************************************************************)
(* optimize() of generation/optimizer.py: from the source projection of a  *)
(* resume to the document that is delivered.  Quality proposals first, one *)
(* by one; then the placement actions in batches, each bisected down to    *)
(* its safe actions and judged as a whole; then removals, one by one, and  *)
(* the order of the skills; last the gates of the delivered document, and  *)
(* a rollback to the source projection when one fails.                     *)
(*                                                                         *)
(* One action per candidate document the code builds.  The recursion of    *)
(* _accept_safe_actions is a stack of batches still to try, left half      *)
(* first.  The run is a pure function of its case; a case is one resume,   *)
(* one posting and what the resolver, the provider and the validators make *)
(* of them.                                                                *)
(***************************************************************************)
EXTENDS TailoredDocument

CONSTANTS
    Cases,           \* the runs to consider
    BatchSize,       \* _BATCH_SIZE
    LegacyRounds,    \* _MAX_ITERATIONS
    ParetoRounds,    \* _PARETO_MAX_ITERATIONS
    WordBudget,      \* resume_word_budget
    DensityRatio,    \* _PRUNE_MIN_DENSITY_GAIN_RATIO, in thousandths
    Strictness       \* _AT_BUDGET_STRICTNESS

ASSUME OptimizerAssumption ==
    /\ BatchSize \in Nat \ {0} /\ LegacyRounds \in Nat \ {0} /\ ParetoRounds \in Nat \ {0}
    /\ WordBudget \in Nat /\ DensityRatio \in Nat /\ Strictness \in Nat \ {0}

\* The source projection changes nothing, the provider's rewrites are tried
\* bullet by bullet, and _dedupe_actions leaves every planned action once.
ASSUME CasesAssumption ==
    \A c \in Cases :
        /\ DOMAIN c.source = PlanFields /\ c.source.changes = {} /\ c.source.removed = <<>>
        /\ c.rewritten \in Seq(Slots) /\ IsInjective(c.rewritten)
        /\ LET planned == PlanPlacements(c) IN planned \in Seq(Placements) /\ IsInjective(planned)

\* Bullet b can stand in slot s: it is not empty, and whatever is worded like
\* a bullet of the source is the bullet of that slot, with its facts and names.
Stands(c, b, s) ==
    /\ DOMAIN b = DOMAIN Blank /\ b.id \in Nat \ {0}
    /\ (\E u \in Slots : b.id = c.source.bullets[u].id) =>
            /\ b.id = c.source.bullets[s].id
            /\ b.fact = c.source.bullets[s].fact /\ b.names = c.source.bullets[s].names

\* No rewrite is empty or takes the words of another source bullet. The code
\* undoes a rewrite worded like a bullet before it in the plan
\* (_reject_generated_duplicates) and refuses an empty one (_bullet_is_valid);
\* a provider that words one bullet exactly as another that it also rewrites
\* is outside this model, and so outside EveryRemovalAccounted.
ASSUME BulletsAssumption ==
    \A c \in Cases :
        /\ DOMAIN c.source.bullets = Slots
        /\ \A s \in Slots : Stands(c, c.source.bullets[s], s)
        /\ \A i \in DOMAIN c.rewritten : Stands(c, c.rewrites[c.rewritten[i]], c.rewritten[i])

VARIABLES
    cv,          \* the case
    stage,       \* where the run stands
    plan,        \* current_plan
    accepted,    \* the placement actions in it
    score,       \* current_score
    objectives,  \* current_objectives, the baseline of the verdicts
    credited,    \* current_credited
    path,        \* trace.score_path
    gain,        \* density gain a removal must bring, in thousandths
    next,        \* offset of the next batch, or index of the next proposal
    iteration,   \* trace.iterations
    work,        \* halves of the batch still to try, first on top
    trial,       \* the plan and the actions kept of the batch so far
    status,      \* the recorder: status of every planned action
    rejected,    \* labels in trace.rejected_actions
    quality,     \* accepted_quality
    queue,       \* removals still to consider
    delivered, state

vars == <<cv, stage, plan, accepted, score, objectives, credited, path, gain, next, iteration,
          work, trial, status, rejected, quality, queue, delivered, state>>
search == <<score, objectives, credited, path, gain, next, iteration>>
batching == <<work, trial>>
result == <<delivered, state>>

Stages == {"project", "quality", "batches", "bisect", "judge", "prune", "reorder", "final", "done"}
\* "concluded" is the code's rejected with RUN_CONCLUDED_BEFORE_EVALUATION.
Statuses == {"not_evaluated", "accepted", "rejected", "rolled_back", "no_op", "concluded"}
DocumentStates == {"GENERATED", "GENERATED_WITH_FALLBACK", "NEEDS_INPUT_REVIEW"}

Planned == PlanPlacements(cv)
Rounds == IF cv.policy = "pareto" THEN ParetoRounds ELSE LegacyRounds

(***************************************************************************)
(* Quality proposals: headline, summary, then the provider's prose         *)
(***************************************************************************)
Qualities ==
    <<Label("quality", 0, Headline), Label("quality", 0, Summary)>> \o
    (IF cv.prose THEN <<Label("ai", 0, Summary)>>
                        \o [i \in DOMAIN cv.rewritten |-> Label("ai", 0, cv.rewritten[i])]
     ELSE <<>>)

Proposed(q) ==
    LET changed == plan.changes \cup {q}
    IN  CASE q.at = Headline -> [plan EXCEPT !.headline = cv.newHeadline, !.changes = changed]
          [] q.at = Summary ->
                [plan EXCEPT !.summary = IF q.op = "ai" THEN cv.aiSummary ELSE cv.newSummary,
                             !.cited = FALSE, !.changes = changed]
          [] OTHER -> [plan EXCEPT !.bullets[q.at] = cv.rewrites[q.at], !.changes = changed]

\* ground_text must find nothing to repair in a summary.
Truthful(q) == q.at # Summary \/ q \in cv.truthful

(***************************************************************************)
(* States of the record                                                    *)
(***************************************************************************)
Evaluation(p, actions) == Evaluate(cv, p, actions)

Record(actions, st) ==
    [a \in DOMAIN status |->
        IF a \in ToSet(actions) /\ status[a] = "not_evaluated" THEN st ELSE status[a]]

\* finalize_unevaluated, then reclassify_no_ops.
Closed(record) ==
    [a \in DOMAIN record |->
        CASE record[a] = "not_evaluated" -> "concluded"
          [] record[a] = "accepted" /\ a.op = "weave_bullet" -> "no_op"
          [] OTHER -> record[a]]

\* Mutated forms of RolledBack: it forgets the record, or rewrites verdicts.
RolledBackNot(record) == record
RolledBackAll(record) == [a \in DOMAIN record |-> "rolled_back"]

RolledBack(record) ==
    [a \in DOMAIN record |-> IF record[a] = "accepted" THEN "rolled_back" ELSE record[a]]

Init ==
    /\ cv \in Cases
    /\ stage = "project" /\ plan = cv.source /\ accepted = <<>>
    /\ score = 0 /\ path = <<OriginalScore(cv)>> /\ gain = 0 /\ next = 1 /\ iteration = 0
    /\ objectives = Evaluate(cv, cv.source, <<>>) /\ credited = {}
    /\ work = <<>> /\ trial = [plan |-> cv.source, kept |-> <<>>]
    /\ status = [a \in ToSet(PlanPlacements(cv)) |-> "not_evaluated"]
    /\ rejected = {} /\ quality = <<>> /\ queue = <<>>
    /\ delivered = cv.source /\ state = "GENERATED_WITH_FALLBACK"

Finish(p, st, record) ==
    /\ stage' = "done" /\ delivered' = p /\ state' = st /\ status' = Closed(record)

\* The projection lost a protected fact, or scores below the raw resume.
ProjectSource ==
    /\ stage = "project"
    /\ UNCHANGED <<cv, plan, accepted, path, gain, next, iteration, batching, rejected, quality, queue>>
    /\ LET source == Evaluation(plan, <<>>)
       IN  /\ score' = source.score /\ objectives' = source /\ credited' = source.credited
           /\ IF cv.fatal \/ source.score < OriginalScore(cv)
              THEN Finish(cv.source, "NEEDS_INPUT_REVIEW", status)
              ELSE stage' = "quality" /\ UNCHANGED <<status, result>>

(***************************************************************************)
(* Quality                                                                 *)
(***************************************************************************)
TryQuality ==
    /\ stage = "quality" /\ next <= Len(Qualities)
    /\ LET q == Qualities[next]
           candidate == Proposed(q)
           better == Evaluation(candidate, <<>>).score
       IN  CASE Text(candidate) = Text(plan) ->
                    UNCHANGED <<plan, score, quality, rejected, path>>
             [] Text(candidate) # Text(plan)
                    /\ (~Truthful(q) \/ Blocked(cv, candidate) \/ better < score) ->
                    /\ rejected' = rejected \cup {q}
                    /\ UNCHANGED <<plan, score, quality, path>>
             [] OTHER ->
                    /\ plan' = candidate /\ score' = better /\ quality' = Append(quality, q)
                    /\ path' = IF better = score THEN path ELSE Append(path, better)
                    /\ UNCHANGED rejected
    /\ next' = next + 1
    /\ UNCHANGED <<cv, stage, accepted, objectives, credited, gain, iteration, batching, status, queue, result>>

EndQuality ==
    /\ stage = "quality" /\ next > Len(Qualities)
    /\ stage' = "batches" /\ next' = 1
    /\ UNCHANGED <<cv, plan, accepted, score, objectives, credited, path, gain, iteration, batching,
                   status, rejected, quality, queue, result>>

(***************************************************************************)
(* Placements                                                              *)
(***************************************************************************)
Batch == SubSeq(Planned, next, Least(next + BatchSize - 1, Len(Planned)))
LegacyStalled ==
    /\ cv.policy = "legacy" /\ iteration > 0 /\ Len(path) >= 2
    /\ 2 * (path[Len(path)] - path[Len(path) - 1]) < FullCredit

\* Mutated form of StartBatch: no cap on the rounds.
StartBatchUncapped ==
    /\ stage = "batches" /\ next <= Len(Planned) /\ ~LegacyStalled
    /\ iteration' = iteration + 1 /\ stage' = "bisect"
    /\ work' = <<Batch>> /\ trial' = [plan |-> plan, kept |-> <<>>]
    /\ UNCHANGED <<cv, plan, accepted, score, objectives, credited, path, gain, next,
                   status, rejected, quality, queue, result>>

StartBatch ==
    /\ stage = "batches" /\ next <= Len(Planned) /\ iteration < Rounds /\ ~LegacyStalled
    /\ iteration' = iteration + 1 /\ stage' = "bisect"
    /\ work' = <<Batch>> /\ trial' = [plan |-> plan, kept |-> <<>>]
    /\ UNCHANGED <<cv, plan, accepted, score, objectives, credited, path, gain, next,
                   status, rejected, quality, queue, result>>

\* The hard gates of a batch: its findings, the guard, a failed substitution.
Safe(p, actions) ==
    LET candidate == ApplyActions(cv, p, actions)
    IN  /\ ~Blocked(cv, candidate) /\ Preserves(cv, candidate)
        /\ VariantFailures(cv, p, actions) = {}

Keep(pending) ==
    /\ Safe(trial.plan, pending)
    /\ trial' = [plan |-> ApplyActions(cv, trial.plan, pending), kept |-> trial.kept \o pending]
    /\ work' = Tail(work)
    /\ UNCHANGED <<status, rejected>>

\* Mutated form of Drop: what is dropped stays in the candidate.
DropApplied(pending) ==
    /\ ~Safe(trial.plan, pending)
    /\ work' = Tail(work)
    /\ status' = Record(pending, "rejected") /\ rejected' = rejected \cup ToSet(pending)
    /\ trial' = [trial EXCEPT !.plan = ApplyActions(cv, @, pending)]

Drop(pending) ==
    /\ ~Safe(trial.plan, pending)
    /\ work' = Tail(work)
    /\ status' = Record(pending, "rejected") /\ rejected' = rejected \cup ToSet(pending)
    /\ UNCHANGED trial

Halve(pending, left, right) ==
    /\ ~Safe(trial.plan, pending) /\ Len(pending) > 1
    /\ work' = <<SubSeq(pending, 1, left), SubSeq(pending, right, Len(pending))>> \o Tail(work)
    /\ UNCHANGED <<trial, status, rejected>>

\* Mutated forms of TryHalf: a failing batch goes as a whole, and the halves
\* share their middle.
TryHalfWhole ==
    /\ stage = "bisect" /\ work # <<>>
    /\ Keep(Head(work)) \/ Drop(Head(work))
    /\ UNCHANGED <<cv, stage, plan, accepted, search, quality, queue, result>>

TryHalfOverlapping ==
    /\ stage = "bisect" /\ work # <<>>
    /\ LET pending == Head(work)
           middle == Len(pending) \div 2
       IN  Keep(pending) \/ (Len(pending) = 1 /\ Drop(pending)) \/ Halve(pending, middle + 1, middle + 1)
    /\ UNCHANGED <<cv, stage, plan, accepted, search, quality, queue, result>>

\* One call of _accept_safe_actions.
TryHalf ==
    /\ stage = "bisect" /\ work # <<>>
    /\ LET pending == Head(work)
           middle == Len(pending) \div 2
       IN  Keep(pending) \/ (Len(pending) = 1 /\ Drop(pending)) \/ Halve(pending, middle, middle + 1)
    /\ UNCHANGED <<cv, stage, plan, accepted, search, quality, queue, result>>

EndBisection ==
    /\ stage = "bisect" /\ work = <<>>
    /\ stage' = "judge"
    /\ UNCHANGED <<cv, plan, accepted, search, batching, status, rejected, quality, queue, result>>

Verdict(after) ==
    IF cv.policy = "pareto" THEN ParetoVerdict(objectives, after) ELSE after.score > score

\* What survived the bisection is taken or left as a whole.
JudgeBatch ==
    /\ stage = "judge"
    /\ LET candidate == Evaluation(trial.plan, accepted \o trial.kept)
       IN  \/ /\ Verdict(candidate)
              /\ plan' = trial.plan /\ accepted' = accepted \o trial.kept
              /\ score' = candidate.score /\ objectives' = candidate /\ credited' = candidate.credited
              /\ path' = Append(path, candidate.score)
              /\ status' = Record(trial.kept, "accepted")
              /\ UNCHANGED rejected
           \/ /\ ~Verdict(candidate)
              /\ status' = Record(trial.kept, "rejected") /\ rejected' = rejected \cup ToSet(trial.kept)
              /\ UNCHANGED <<plan, accepted, score, objectives, credited, path>>
    /\ stage' = "batches" /\ next' = next + BatchSize
    /\ UNCHANGED <<cv, gain, iteration, batching, quality, queue, result>>

\* Within the word budget a removal must concentrate much more.
MinGain(words) == IF words > WordBudget THEN DensityRatio ELSE Strictness * DensityRatio

EndBatches ==
    /\ stage = "batches"
    /\ next > Len(Planned) \/ iteration = Rounds \/ LegacyStalled
    /\ IF cv.policy = "pareto"
       THEN stage' = "prune" /\ queue' = PruneProposals(cv, plan) /\ gain' = MinGain(objectives.words)
       ELSE stage' = "final" /\ UNCHANGED <<queue, gain>>
    /\ UNCHANGED <<cv, plan, accepted, score, objectives, credited, path, next, iteration,
                   batching, status, rejected, quality, result>>

(***************************************************************************)
(* Removals and order                                                      *)
(***************************************************************************)
TryPrune ==
    /\ stage = "prune" /\ queue # <<>>
    /\ LET s == Head(queue)
           candidate == Prune(plan, s)
           after == Evaluation(candidate, accepted)
       IN  IF /\ CheckPrune(cv, plan, credited, s)
              /\ PruneVerdict(objectives, after, gain)
              /\ Preserves(cv, candidate) /\ Complete(cv, candidate, candidate.removed)
              /\ ~Blocked(cv, candidate)
           THEN plan' = candidate /\ objectives' = after /\ UNCHANGED rejected
           ELSE rejected' = rejected \cup {Label("prune", 0, s)} /\ UNCHANGED <<plan, objectives>>
    /\ queue' = Tail(queue)
    /\ UNCHANGED <<cv, stage, accepted, score, credited, path, gain, next, iteration, batching,
                   status, quality, result>>

EndPrune ==
    /\ stage = "prune" /\ queue = <<>>
    /\ stage' = "reorder"
    /\ UNCHANGED <<cv, plan, accepted, search, batching, status, rejected, quality, queue, result>>

ReorderSkills ==
    /\ stage = "reorder"
    /\ LET candidate == Reorder(plan)
       IN  IF candidate = plan \/ (Preserves(cv, candidate) /\ ~Blocked(cv, candidate))
           THEN plan' = candidate /\ UNCHANGED rejected
           ELSE rejected' = rejected \cup {Label("skill_reorder", 0, Skills)} /\ UNCHANGED plan
    /\ stage' = "final"
    /\ UNCHANGED <<cv, accepted, search, batching, status, quality, queue, result>>

(***************************************************************************)
(* The delivered document                                                  *)
(***************************************************************************)
\* trace.accepted_actions: the edits a reader is told of.
Reported ==
    ToSet(quality) \cup {a \in ToSet(accepted) : a.op # "weave_bullet"}
        \cup {l \in plan.changes : l.op \in {"prune", "skill_reorder"}}

Deliver ==
    /\ stage = "final"
    /\ LET last == Evaluation(plan, accepted).score
       IN  IF last < OriginalScore(cv) \/ ~Preserves(cv, plan) \/ Blocked(cv, plan)
           THEN Finish(cv.source, "GENERATED_WITH_FALLBACK", RolledBack(status))
           ELSE Finish(plan, IF Reported # {} \/ last > OriginalScore(cv)
                             THEN "GENERATED" ELSE "GENERATED_WITH_FALLBACK", status)
    /\ UNCHANGED <<cv, plan, accepted, search, batching, rejected, quality, queue>>

Done == stage = "done" /\ UNCHANGED vars

Next ==
    \/ ProjectSource \/ TryQuality \/ EndQuality
    \/ StartBatch \/ TryHalf \/ EndBisection \/ JudgeBatch \/ EndBatches
    \/ TryPrune \/ EndPrune \/ ReorderSkills \/ Deliver \/ Done

Spec == Init /\ [][Next]_vars

-----------------------------------------------------------------------------
(* Properties *)

TypeOK ==
    /\ stage \in Stages /\ state \in DocumentStates
    /\ status \in [ToSet(Planned) -> Statuses]
    /\ ToSet(accepted) \subseteq ToSet(Planned) /\ ToSet(trial.kept) \subseteq ToSet(Planned)
    /\ next \in Nat /\ iteration \in 0..Rounds /\ gain \in Nat
    /\ rejected \cup ToSet(quality) \cup plan.changes \subseteq Labels
    /\ \A i \in DOMAIN work : ToSet(work[i]) \subseteq ToSet(Batch) /\ work[i] # <<>>

\* What the record tells is what the reader receives: an action is recorded
\* accepted exactly when it is in the delivered document and edits it, and
\* rejected exactly when the trace lists it so, every proposal is settled, and
\* after a rollback nothing is recorded accepted and nothing was changed.
VerdictsMatchDelivery ==
    stage = "done" =>
        /\ \A a \in DOMAIN status :
            /\ status[a] # "not_evaluated"
            /\ (status[a] = "accepted") <=> (a \in delivered.changes /\ a.op # "weave_bullet")
            /\ (status[a] = "rejected") <=> (a \in rejected)
        /\ (\E a \in DOMAIN status : status[a] = "rolled_back") => Text(delivered) = Text(cv.source)

\* No change the trace lists as rejected is in the document, whichever round
\* proposed it.
RejectedStayOut == rejected \cap (plan.changes \cup delivered.changes) = {}

\* Along a whole sequence of removals, each screened on the document before the
\* first of them: every role keeps its floor and every entity its source
\* named, no checkable fact went, and the ledger holds each removed bullet
\* once, at the place and in the wording of the source.
RemovalsAccounted ==
    /\ \A s \in Slots : plan.bullets[s] = Blank <=>
            Cardinality({i \in DOMAIN plan.removed : plan.removed[i].at = s}) = 1
    /\ \A i \in DOMAIN plan.removed :
        LET gone == plan.removed[i].at
        IN  /\ plan.removed[i].id = cv.source.bullets[gone].id /\ ~cv.source.bullets[gone].fact
            /\ Cardinality({s \in Live(plan) : s[1] = gone[1]}) >= RoleFloor(gone[1])
            /\ cv.source.bullets[gone].names \subseteq
                 UNION {plan.bullets[s].names : s \in {u \in Live(plan) : u[1] = gone[1]}}

\* Whatever was accepted, removed or rolled back, the reader gets a document
\* that states no requirement less often and scores no lower than the resume
\* that was uploaded - or the projection itself, unchanged.
NeverWeakerThanSource ==
    stage = "done" =>
        \/ Text(delivered) = Text(cv.source) /\ delivered.removed = <<>>
        \/ /\ \A t \in Term : Mentions(cv, delivered, t) >= RawMentions(cv, t)
           /\ ~(Evaluation(delivered, accepted).score < OriginalScore(cv))

\* One unsafe proposal never discards the safe ones beside it: an action that
\* the bisection rejects fails the gates by itself, on top of what the batch
\* had kept when its turn came.
OnlyUnsafeActionsDropped ==
    [][\A a \in DOMAIN status :
        stage = "bisect" /\ status'[a] # status[a] =>
            /\ status'[a] = "rejected" /\ ~Safe(trial.plan, <<a>>)
            /\ a \notin ToSet(trial'.kept)]_vars

\* A proposal gets its verdict once: the enclosing batch never overwrites the
\* finding that bisected it out, and only a rollback or the closing of the
\* record touches an accepted one.
VerdictsAreFinal ==
    [][\A a \in DOMAIN status :
        status'[a] # status[a] =>
            \/ status[a] = "not_evaluated"
            \/ status[a] = "accepted" /\ stage = "final" /\ status'[a] \in {"rolled_back", "no_op"}]_vars

\* The call returns, whatever is rejected on the way: no loop of it can repeat
\* a step, and the bisection of a batch always shrinks what it has to try.
Phase(st) == CASE st = "project" -> 0 [] st = "quality" -> 1
               [] st \in {"batches", "bisect", "judge"} -> 2 [] st = "prune" -> 3
               [] st = "reorder" -> 4 [] st = "final" -> 5 [] OTHER -> 6
Cost(batch) == Max({1, 2 * Len(batch) - 1})
Effort(batches) == FoldLeft(LAMBDA n, batch : n + Cost(batch), 0, batches)

AlwaysAdvances ==
    [][\/ Phase(stage') > Phase(stage)
       \/ /\ Phase(stage') = Phase(stage)
          /\ \/ next' > next /\ next <= Len(Planned) + Len(Qualities)
             \/ next' = next /\ <<stage, stage'>> \in {<<"batches", "bisect">>, <<"bisect", "judge">>}
             \/ next' = next /\ stage' = stage /\ Effort(work') < Effort(work)
             \/ next' = next /\ stage' = stage /\ Len(queue') < Len(queue)]_vars

\* The bullet that is the sole evidence left of a requirement the resume earns
\* credit for is never removed (rachana/pruning.py).
CreditedEvidenceStays ==
    stage = "done" =>
        \A t \in Evaluation(delivered, accepted).credited :
            LET was == EvidenceLocations(cv, t) \cap Slots
            IN  was # {} /\ was = EvidenceLocations(cv, t) => was \cap Live(delivered) # {}

==============================================================================
