# ATS-Ninja V2: TLA+ specifications

Formal models of the ATS-Ninja application: TLA+ modules translated from the
source, TLC configurations that check them on small instances, and TLAPS proofs
that hold for every instance. Line references are to this repository.

## The system

A user submits a resume and a job description in the browser (`apps/web`,
Next.js). The API (`apps/api`, FastAPI) stores a *kit* row in PostgreSQL and
publishes a Celery task over Redis. A worker process loads the row, runs the
engine (`packages/engine`, a synchronous library) in a thread and stores the
result. The browser polls the kit, shows it, and lets the user accept, reject or
restore single changes (a *change batch*), regenerate the kit or delete it.

Inside the engine a kit is made in this order: both inputs are parsed, with an
optional provider completing the deterministic reading; the posting becomes typed
requirements, the resume is resolved against them; the planner asks the provider
for prose; the optimizer tries placements, removals and an order of skills and
keeps what its gates allow; every text is grounded in the resume; artifacts are
validated, reported and rolled up to the state of the kit; the result is
serialized into the row.

| component | state | operations | hard behaviour | what makes it correct |
|---|---|---|---|---|
| kit service (`app/services.py`, `models.py`) | rows of `kits`: status, result, error, revision, parent | create, process, change actions, delete, regenerate, mark failed | read - long computation - write without locks; optimistic revision; hard deletes | one winner per revision, applied batches stay, finished kits do not change by themselves |
| worker (`app/tasks.py`) | retries of the delivery, session snapshot | classify failures, retry, fail the kit | crash between commits, commit applied but reported as failed, the failure path needs the database that failed | every accepted kit settles once |
| broker (`app/queue.py`, `celery_app.py`) | messages and their acknowledgement | publish, redeliver, requeue | late acknowledgement, at-least-once, visibility timeout, publish failure after the row was committed | an open kit has a delivery or a reported failure |
| browser kit provider (`kit-context.tsx`) | kit on screen, loading flag, in-flight flag, abort controller | load, poll, navigate, retry | stale closures, aborted requests, answers after navigation | one request at a time, no step back, the outcome arrives |
| change ledger view (`change-ledger.tsx`) | pending choices, message | apply a batch, refresh | conflict with another tab | the batch is applied to the revision on screen |
| wizard (`new-kit-wizard.tsx`) | mode, text, extraction request id | upload, cancel, submit | superseded extraction | the shown text is the user's last choice |
| orchestrator (`kit/orchestrator.py`) | none; builds the kit | ground, validate, report, roll up | partial failure of artifacts, fallback, two parses of one resume | a withheld artifact is never delivered, the state reflects the reports |
| change actions (`kit/change_actions.py`, `change_ledger.py`) | ledger records, rebuilt artifacts | accept, reject, restore, rebuild | order of batches, locked records, positional mapping | accept after reject returns the original; a withheld record is never touched |
| optimizer (`generation/optimizer.py`, `rachana/`) | plan, record of verdicts, removals | quality, placement, removal and reorder rounds, rollback | rounds that undo each other, one unsafe action of several, stale evidence links | the record tells what was delivered; the result is no weaker than the source |
| provider routing and cache (`kit/routing.py`, `caching/`, `providers/`) | counters of a kit, entries of a shared cache | ask, retry, fall back | failed primary, cached fallback, cached bad answers | every text is accounted for; a generation ends |
| planner and narratives (`generation/`, `job_fit/`, `interview_prep/`, `outreach/`) | none | refuse, repair, replace | bad prose | no unsupported claim is delivered, bad prose withholds nothing |
| grounding (`kit/grounding.py`) | none | extract, repair, reject | repair that leaves the claim or takes the truth | fabrications are absent, supported clauses stay |
| serialization (`kit/serialization.py`, `kit/contract.py`) | the result as JSON | read every schema version, write | defaults of old versions, round trips | a batch leaves the rest of a kit as it was |
| parsing (`parsing/`) | none | read, merge a provider's reading | wrong positions, invented records | the deterministic reading is a floor |
| requirements (`pramana/`, `parsing/job_description.py`) | none | clean, cut, rank, merge | the order of lines and mentions | what the role states is demanded, and nothing else |
| evidence (`evidence/`) | none | resolve each demand | tiers, first rung wins | a rung is earned, more evidence never hurts |

`PROJECT.json` lists the components with their status and the hazards with the
properties that would catch them.

## Modules

| module | models |
|---|---|
| `KitLifecycle`, `MCKitLifecycle` | rows, HTTP handlers that change a row, broker deliveries, the worker; one action per stretch between two awaits |
| `KitContract` | what the API promises a client: a kit opens, settles once, gains batches one revision each, is deleted |
| `KitProvider` | the browser's copy of a kit, against `KitContract` as the server |
| `KitDelivery` | validation status, delivery reports, roll-up of the kit state, the gates of change batches and exports |
| `ChangeLedger`, `MCChangeLedger` | the documents of a kit, their ledger of changes, and what a batch does to both |
| `TailoredDocument` | a resume as the optimizer sees it: plans, scores, gates, screening of removals |
| `TailoringOptimizer`, `MCTailoringOptimizer` | `optimize()`: its rounds, record, rollback |
| `OptionalArtifacts` | what planner, grounding and fallback decide about a provider's text |
| `ProfileFloor` | the merge of a provider's reading of a resume onto the deterministic one |
| `KitGeneration`, `MCKitGeneration` | kits generated concurrently over providers and a shared cache; uses the two above and `KitDelivery` |
| `ClaimGrounding` | the truth gate: claims, support, repair, rejection |
| `StoredKits`, `MCStoredKits` | the result as JSON: written, read by every version, changed and written again; uses `ClaimGrounding` and `KitDelivery` |
| `Lists` | filters and sorts of lists; used by the two merges, of a resume and of a posting |
| `JobPosting` | cleaning, sections, candidates, precedence, lists and provider merge of a posting |
| `EvidenceLadder` | tiers, both ladders, coverage, gaps, category of fit |
| `JobMatch`, `MCJobMatch` | a posting and a resume that grow line by line; uses the two above |
| `KitLifecycleProofs` | the lifecycle under every fault; then, without overlapping deliveries, its refinement of `KitContract` |
| `KitProviderProofs` | the browser's copy, for any kits, requests and lost answers |
| `StoredKitsProofs` | what holds for every combination of reports, every draft, and every row of every schema version |
| `ChangeLedgerProofs` | what holds for every resume and every letter, whatever batches came |
| `TailoringProofs` | what holds for every resume, posting and set of findings of the validators |
| `KitGenerationProofs` | any number of concurrent kits, any readings and answers of the providers |
| `JobMatchProofs` | every posting, answer of a provider and resume, every table of terms, tools and signals |
| `SequenceFolds` | what the other proofs need of folds, filters, sorts, sums, insertions and first elements |

### KitLifecycle

A *job* is a delivery of a task, from the broker's queue to its acknowledgement.
`Load` (session.get and the early returns), `MarkProcessing` and `Finish` are the
three round trips of `process_kit`; `Flush` writes only the attributes the session saw
changing, as SQLAlchemy's unit of work does, and `Save` raises (moves to the failure
path) when the row is gone. Generation is abstracted to its outcome: a result with one
of the four kit states, the review request of `ExtractionSuspectError`, or an engine
failure. `Unexpected` is an exception outside the handler of engine failures
(serialization). A *client* is one HTTP request: `SubmitKit` / `RegenerateKit` commit
the row, `Enqueue*` is the publish and its failures; `OpenEdit` is
`apply_kit_change_actions` up to the engine call, `CommitEdit` its conditional UPDATE;
the API does not die between that commit and the reply, which would leave the same row
and a client without an answer. A result is abstracted to its state and the set of
batches in it: the batch is computed from the result as read (`seen`), which is what
makes a lost update visible.

Faults are drawn from `FaultKinds`, at most `MaxFaults` of them:

* `worker_lost`: the worker process dies; `task_reject_on_worker_lost` requeues;
* `db`: a transient database error, before or after the commit was applied;
* `broker_submit`: the publish of a handler fails, with or without the message;
* `api_lost`: the API process dies, or a handler answers 500, between two awaits;
* `broker_retry`: the publish of a retry fails (Celery rejects the task);
* `fail_db`: the database is down for `mark_kit_failed` too;
* `overlap`: two deliveries of one kit live at once (visibility timeout, or a
  worker lost after it published its retry and before it acknowledged).

Celery, Redis and SQLAlchemy are modelled from how the code configures and calls
them; those definitions are marked external in `PROJECT.json`.

### KitProvider

`Load(k, gets)` is `load()` of a closure captured with `kitId = k`. `Navigate` is
a change of `kitId`: the cleanup aborts the request under way, the effect resets
the state and calls the new closure, in one flush. `Deliver` is the continuation
of `load()`: an answer that was aborted is dropped, in both cases the in-flight
flag is cleared. `Poll` is the interval, `Refresh` a retry button, `OnApplied` the
refresh after a batch, with the closure of the page the batch was sent from.
`Answer` is the server reading the row, so an answer may be old when delivered.
The server is `KitContract`: other tabs and the worker act at any time.

### KitDelivery and ChangeLedger

`KitDelivery` holds operators, no state: `Report` is
`_document_delivery_report`, `RollUp` is `_roll_up_kit_state` (and
`_infer_kit_state`, which repeats it for stored kits), `MayChange` the check of
`apply_kit_change_actions`, `MayExport` that of the export endpoint.

`ChangeLedger` starts with any kit that `generate_application_kit` can build:
`plan` is what the optimizer decided for each bullet of one role and for the
summary, `DocumentBullets` the page (pruned bullets leave no gap), and the
ledger has a record for each change, whose text `TailoredText` looks up on the
page by the index of the bullet in the source, as the code does. The only action
is a batch. `ApplyBatch` sets the statuses, replays all records onto the page as
earlier batches left it (`Replay`, with `ApplyOmission` and `SetBullet`), grounds
the result, and is enabled only if the gates of the code accept it; a refused
batch changes nothing, so it is no step. A text is a unit (bullet or summary) and
a form: `source`, `tailored`, or `redacted` for what the claim heuristic leaves of
a source bullet it misreads (`Misread`).

Left out: records of headline, targeting clause, skills and order; more than one
role (a record only reaches its own role); the gates that can only refuse
(LaTeX, echo of the job description, fidelity, match score). The construction of
the ledger is assumed not to fail; if it does, the kit is delivered without a
ledger and no batch can touch it.

### TailoredDocument and TailoringOptimizer

A resume is a set of bullets (`Slots`), a summary, a title, a skills list and a
headline; a text is the set of requirements it states, each in the employer's
spelling or in the candidate's own registered alias. `Evaluate` is one call of
the closure that assembles, validates and scores a candidate plan: truth and
preservation guard, integrity, score and the requirements stated. Every float of
the code is scaled to an integer; none is rounded.

The run is a function of its case `cv` (the candidate, the posting, what the
provider proposes, which combinations of changes the validators refuse, the
policy). One action per candidate document the code builds: `ProjectSource` is
the projection of the uploaded resume, `TryQuality` / `EndQuality` the provider's
prose, `StartBatch` a batch of placements, `TryHalf` / `EndBisection` the
recursion of `_accept_safe_actions` as a stack of batches to try, `JudgeBatch`
the comparison with the baseline, `EndBatches`, `TryPrune` / `EndPrune` the
removals, `ReorderSkills` the order round, `Deliver` the last gate, with the
rollback to the projection. `record` is the trace of verdicts a kit carries.

Abstractions: the employer's surface form is also the canonical one; bullets have
equal length, those of one resume distinct wordings; the validators are sets of refused
combinations of changes; a verdict of a proposal no round came to is `concluded`
(`REJECTED` with reason `RUN_CONCLUDED_BEFORE_EVALUATION`). The final gate that
blocks the delivery of the projection itself is not reachable: the projection has
passed the same gate before, so it is defence in depth.

### OptionalArtifacts, ProfileFloor and KitGeneration

`KitGeneration` runs the stages of a generation: extraction of resume and posting
by the provider, the three planning tasks, the cover letter, the answers, then
the narratives after the pipeline. The tasks of a stage run concurrently where
the code uses a thread pool; several kits run concurrently and share the cache
on disk. For each task `Reuse` is a hit in memory or on disk, `Ask` the call,
`Answer` what comes back, `Fail` a timeout or an error, `PrimaryRaises` the
fallback of `FallbackProvider`, `FallbackRaises` its end. `AfterAnswer` and
`AfterFailure` are the retries of JSON and text tasks. `EndStage` joins,
`Assemble` grounds, decides and reports. `Evict` is the expiry of an entry.

A text is who wrote it, for which kit, and its set of defects; `OptionalArtifacts`
says which defects the planner refuses, which grounding takes out, and when the
deterministic text takes over. Repair prompts with different garbage are not told
apart. One task `answers` stands for one open question. What the engine would
have written alone is a parameter of the scenario.

`ProfileFloor` is the merge of a reading: `Starts` and `Contexts` find the text of a
record by its names, `Match` pairs an entry with a record, `Fill` and `AddBullets`
take from the entry what stands in that text, `LessComplete` refuses a reading with
fewer records or bullets, or one that is short of the schools, certificates or skills
(`restKept`). A normalized text is a phrase, a line the set of phrases in it.

### ClaimGrounding and StoredKits

A text is a sequence of tokens; the sort of a token is the extractor that matches
it (the regular expressions are that parameter), `Within` the substring relation.
`IsClaim` and `Supported` say which claims need evidence and have it,
`RepairProse` and `RepairSpans` are the two repairs, `Ground` repairs once,
extracts again and rejects what is still unsupported.

`StoredKits` holds one row. `Write` adds a token to the draft and `Generate` makes
a kit of it, or the row starts as any result an older schema version can have
left. `Normalized` is what any reader sees: adaptation of old shapes, requested
kinds out of the wording of the request, legacy state, defaults. `Edit`, a batch
on one document, reads the typed kit, disposes of a record, grounds the unit
again and writes the whole kit back (`ToDict`, one writer per artifact). A JSON object is a record
whose keys are optional; null is the same as absent. An artifact has one unit and
one ledger record. A batch that makes the resume again scores it again: `Rescored` is
`_recompute_match_report`, `Validation` is `_recompute_kit_validation`. A score is who
scored which text; keyword coverage, missing keywords and the summary are made from it
and go with it. The posting is parsed anew for each batch, so whether it has typed
requirements then is an input of the step. That a batch is refused for a lower score
leaves the row as it is, like the refusals left to `ChangeLedger`; the revision is
left to `KitLifecycle`. One thing is not told apart: a generation scores the text in
the layout it will be delivered in (`render_delivered_resume_text`,
`kit/orchestrator.py`), a batch the plain text of the document; the layout is not in
the model.
`HonestHistory` says nothing of rows of version 0, which name no request.

### JobPosting, EvidenceLadder and JobMatch

A line is what the patterns of the code find in it (`Lines`): heading, cue, terms,
names of the employer, closing wording. `JobPosting` is then the control:
`sanitize_jd_for_parsing` with the boundary of the closing part, the sections,
the candidates, precedence and weights, the soft cap, projection to the lists of
a `JDProfile`, and the merge of a provider's lists. `EvidenceLadder` is the
resolver: tiers of listed skills, the rungs from a bullet down to adjacency,
certificates, transfers, the older ladder for keywords, coverage and the category
of fit. `JobMatch` composes them: `Read` adds a line, `Parse`, `Ask` merges a
provider's three lists of lines, its keywords, title and company, `Match` makes the
matrix, `Add` adds a fact to the resume and resolves everything again, as the code does.

An answer names lines by number, or retypes them; a retyped text is a line of the
posting, since one that is not in its scored part is dropped. Keywords that are not in
the vocabulary are discovered as the code does it: said twice, not a word of the title or
of the employer, not inside a keyword already found. Whether a word is generic is a
parameter (`single`), and so is what makes the name of a company valid. A sentence does
not run over a line. A heading with its content on the same line is one text here
and two in the code, where the two lists can hold one each. `ListLimit` is 8 in the code,
`KeywordLimit` 30, `AnswerLimit` 18. Left out: the parent of a term in a structured
list, and the cut of discovery at the 20 most frequent words.

In the older ladder `Matching` is the loose comparison of `_term_matches`: a skill
stands for a plain keyword that contains it, or that it contains. For this a listed
skill that is one word or phrase has an `entry`, the whole, beside the words it
affirms, and `parts` of a term are the words inside it: "Azure Functions" affirms
azure, and react is a part of "react native".

## Runs

| run | shows | bounds |
|---|---|---|
| `lifecycle_any_order` | type correctness, an owner for every open kit, and that an accepted kit settles, with overlapping deliveries | 1 kit, 3 deliveries, 2 requests, 1 retry, 2 faults, no symmetry |
| `lifecycle_single_copy` | row consistency, no lost batch, one winner per revision, finished kits stay, refinement of the contract, every fault but overlap | 2 kits, 3 deliveries, 3 requests, 1 retry, 2 faults |
| `stuck_processing` | counterexample: a kit stays in processing | the database fails four times and then for the failure path |
| `duplicate_clobbers` | counterexample: a late copy overwrites a finished kit | 1 overlap |
| `kit_provider` | one request at a time, late answers dropped, no step back, the outcome arrives | 2 kits, 2 batches, 2 request slots, 1 lost answer |
| `change_ledger` | no drift of the letter, none of an orderly resume; delivered documents stay deliverable; withheld records stay frozen | 2 bullets, 2 paragraphs, batches of 2 |
| `lossy_revision` | counterexample: a batch loses a bullet | 3 bullets, batches of 1 |
| `tailoring` | the record tells what was delivered, verdicts are final, rejected changes and removals stay accounted for, the result is no weaker than the source, only unsafe actions are dropped, the call ends | 3 requirements, a recent role of 2 bullets and an older one of 3, batches of 4 |
| `pruned_evidence` | counterexample: two removals take all evidence of a credited requirement | as `tailoring` |
| `kit_generation` | every text is paid for and disclosed, positions agree between parses, additions stand in the text of their record, nothing unsupported is delivered, bad prose withholds nothing, a generation ends | 265 scenarios |
| `stored_kits` | fabrications are absent, true clauses stay, old kits are not shown as completed wrongly, a batch leaves the rest alone, scores are those of the text shown | texts of 4 tokens, rows of 8 old versions |
| `job_match` | nothing after the closing part, every stated demand is kept, a provider only completes, rungs are earned, more evidence never hurts | postings of 4 lines, resumes of 3 facts |

### Bounds

*Lifecycle.* Deliveries, requests and batches are symmetric and used once; three
deliveries hold an original, its retry and a duplicate, three requests hold a
submission and two competing batches, or a batch, a regeneration and a deletion.
Two kits are needed only where one kit's request could disturb another.
`MaxRetries` is 1 instead of 3: the boundary is the same, and `stuck_processing`
runs with 3. Two faults are needed for a retry that is lost again, or a crash
followed by a failing database; more repeat the same states because every fault
returns the job to a state it had before. `lifecycle_any_order` has two clients
and no symmetry because it checks liveness; one winner per revision under
overlapping deliveries is the theorem `OneWinnerPerRevision`.

*Ledger.* `change_ledger` enumerates every plan, validation status and report of
both documents (512 initial kits) and all batches from there until nothing new is
found, so the number of batches is not bounded. Two bullets show every
interaction of two records; a batch of two is the smallest that mixes documents
or actions. One paragraph of 110 and one of 60 words stand on both sides of the
minimum of 100. `lossy_revision` needs a third bullet, below a pruned and a
rewritten one. `MaxLines` is never reached while `Misread` is empty.
Deadlock is not checked there, since a kit without delivered documents is at rest.

*Tailoring.* About 4,600 cases, chosen so that each of these happens: a reorder,
two removals, a rollback, a regression of the guard and of the score, a partial
bisection, a rejected batch, a failing variant, a proposal never reached. Batches
of 4 and at most 2 rounds of the older policy or 3 of the newer one stand for 8,
4 and 8: a case has at most a dozen placements, so that the last round of each
policy is reached and some proposals come to no round. Five bullets in two roles stand on both sides of the floors 2 and 1.

*Generation.* 196 readings of four resumes by two providers, 49 of one whose first
bullets have no header, 60 cases of one
fault, 6 of two kits sharing the cache, 3 with every task. The faults, expiries
and bad answers of a scenario are bounded by its `upsets`: one, and three in one
scenario. A bad answer of a task has the same effect on the other tasks whichever
task it is, so most scenarios have the tasks of one stage. The end
`late_suspect` (the second parse refuses the resume) is in the model because it
is in the code; the theorem `SuspectEndsEarly` says that it is not reached.
Deadlock is not checked: delivered kits are at rest.

*Stored kits.* Four alphabets of tokens, each with a stop, a link, a plain word
and five more: employers and their history; ranks, titles and management; numbers,
tenure and degrees; employers, certificates and clients. Four tokens hold a claim, what makes it
one, a link and a second claim; `Reach` 1 stands for the windows of the code.
The old versions are every one the code reads, and one it does not know.
Deadlock is not checked: a kit that failed cannot be edited.

*Job match.* Six sets of 5 to 7 lines, four answers of a provider, 23 facts in
three resumes of eight and one of six. Four lines hold a heading that opens the role, a
closing one, and a line of each kind below. Two entries of a list stand for eight,
three values of an answer for eighteen, four keywords for thirty: every limit is passed
by some posting or answer. The fourth resume has the words inside other words: azure
and "Azure Functions", react and "React Native". The
parser of the model was compared with the real `parse_jd` on random postings of
these lines. Deadlock is not checked: it stops when the resume is full.

### Fairness

`FairSpec` of `KitLifecycle` assumes that handlers and workers keep running
(Celery workers loop, the event loop resumes coroutines); requests and faults are
never forced. `FairSpec` of `KitProvider` assumes the interval fires, a fetch is
answered or fails, and continuations run; navigation and clicks are never forced.
`FairSpec` of `KitGeneration` is weak fairness of `Step(k)`: the thread of a kit
runs, and a request to a provider returns or fails, since every one has a timeout
(`urlopen`, `providers/ollama.py:49-69`). The submission of a kit and the expiry of
cache entries are not forced. The other specifications state none: batches are
the user's choice, and the optimizer's termination is shown by a measure
(`AlwaysAdvances`) together with the check for deadlock.

## What the counterexamples say

* `stuck_processing`: `_fail` (`tasks.py:120`, `:125`) runs outside any handler.
  If the database is still down the exception leaves the task; Celery
  acknowledges failed tasks, so the kit stays `processing`. ADR-0006 says that
  it is never left there. The theorem `NobodyForgotten` names exactly the two
  faults that have to be excluded.
* `duplicate_clobbers`: the terminal guard is evaluated once, before the
  generation (`services.py:221`). A second copy that passed it overwrites the
  result at the end, whatever happened to the kit meanwhile, batches of users
  included. ADR-0006 (lines 79-81) and `services.py:161-162` say redelivery cannot
  clobber a finished kit. `FinishedKitsStay` proves that it cannot when copies do
  not overlap.
* `lossy_revision`: bullet 1 pruned, 2 rewritten, 3 kept. The record of bullet 2
  carries the text of bullet 3 (`change_ledger.py:146`). Rejecting it finds that
  text on the page and overwrites it with the original of bullet 2. Completeness
  counts distinct lines; the bullet that came back makes up for the lost one, and
  the revision persists although `change_actions.py:399-400` says a lossy one must
  not.
* `pruned_evidence`: two bullets evidence one credited requirement. Each removal
  is screened against links computed before the first (`rachana/pruning.py:246`),
  so each sees the other bullet, and both go. `rachana/pruning.py:21-23` says sole
  evidence is never removed.

`OrderlyDriftFree` names the kits `lossy_revision` does not touch: nothing is
pruned above a bullet that stays, the summary has a record, no source bullet is
misread, and at most two bullets are pruned (see the first of the change actions
below).

## Where code and comments part, without a run

Met while modelling; the model does what the code does, and where a property has
an exception it is for one of these.

*Browser.*
* Navigating while a request is under way: the new page's `load()` returns because
  the aborted request has not cleared the in-flight flag yet
  (`kit-context.tsx:59`), and nothing calls it again until the user retries.
  `apps/web/README.md:133-135` describes the flag as only preventing overlap.
* A batch answered after a navigation refreshes through the old page's closure
  (`change-ledger.tsx:104`) and puts the old kit under the new route.
  `LateAnswerNotShown` excepts it.

*Change actions and stored kits.*
* A restored bullet is inserted at its index in the source, or at the end if the page
  is shorter (`change_actions.py:664`). Bullets 3, 4 and 5 of a role pruned (the floor
  of an older role is 2): rejecting the removal of 5 gives 1, 2, 5; rejecting that of
  4 in a later batch puts it behind, 1, 2, 5, 4, while both in one batch give
  1, 2, 4, 5. `change_actions.py:64-68` says that a batch rebuilds from an immutable
  baseline and never from already-mutated state, but `_rebuild_resume` starts from the
  document of the last batch (`:345`). The proof of `OrderlyNeverDrifts` found this.
* A batch on the resume rebuilds the summary from its records
  (`change_actions.py:349-351`). A summary left as in the source has none, and the
  batch erases it, though `change_actions.py:209-210` says accept leaves the content
  unchanged. A pruned bullet above a kept one carries the text of the bullet below
  it, is therefore not empty, and accepting it puts the pruned bullet back.
* The positions of rendered bullets shift after a removal.
* `target_confidence` of `None` becomes 0.0 when a batch writes a kit of version 5
  or 6 (`serialization.py:672`), though `:1568-1570` says that the null keeps an absent signal from being read as a
  real low score. `EditKeepsTheRest` excepts it.
* `_legacy_requested_kinds` reads the letters R, C and Q from free wording.
* After a batch on a version-5 resume the new scores are those of PRAMANA and the
  basis on record stays `legacy_v1` (`change_actions.py:771`), while `contract.py:484-489`
  says that such a basis is accurate, of kits scored before. Without typed requirements
  the original keeps the old formula, so that the two scores a reader compares come
  from different ones. `EditKeepsTheRest` holds the basis and the trace, and
  excepts the two scores of a resume made again.
* `RunDiagnostics.removals` is never serialized. A row of the first phase with
  fatal errors and no text would show as completed.

*Optimizer.*
* `_pareto_verdict` compares with the baseline before the round
  (`optimizer.py:512`); the comment at `:1950` promises the current one.
* `_apply_headline` runs for every batch, quality candidates are not guarded, and
  the compatibility path labels actions that were bisected out differently.
* `_v2_plan_decisions` compares the headline with the role identity.

*Generation.*
* The job fit is withheld when the provider's narrative has a claim that cannot be
  removed, although the deterministic one exists; the cache repeats it for a week.
* A fallback's text is cached under the primary's identity and shown later with
  `fallback_used` false; a recovery inside the provider counts as one call
  (ADR-0010:30-32). `ProseIsAccounted` therefore speaks of the kit that paid.
* A provider's bullet may be attached to a later record whose name occurs in a
  bullet of an earlier one (`parsing/resume.py:371-407`, comment at 236-237).
  `AddedInPlace` excepts resumes whose names do so.
* The heuristic profile that replaces a failed extraction is cached for seven days
  under the provider's identity.

*Grounding.*
* Support of a number is a substring test: "5%" is supported by "25%".
* A supported mention of a value whose other mention is unsupported is fatal.
* After one repair the name of the target company can come within reach of a
  career word, so `kit/policy.py:57-58` does not hold; the next grounding, in a
  later batch, can refuse the text.

*Posting and evidence.*
* A line under "Nice to have:" that says "experience with" becomes a required one
  (`_infer_line_section`, `_segment_sections` in `pramana/requirements.py`), while
  `evidence/matrix.py:46-48` says that an explicit "preferred" call-out is never
  promoted.
* The closing boundary does not engage when the only headings are of the kind
  "Technical Skills:" (`requirements.py:504-513`). A repeated heading line is dropped
  as a duplicate, so the lines below fall in the section above.
* A posting of soft skills only has no requirements. With a provider the required
  list is cut at eight and a preferred line the provider calls required moves;
  without one a line may be in both lists.
* Occurrences are counted over the raw posting, closing part included. An employer
  named only by "Client Name:", in the equal opportunity text or by a domain can
  become a requirement. A term followed by a full stop is not found by
  `_extract_keywords`.
* Listing a skill can lower the coverage: rung C is tried before adjacency, which
  earns more. Naming dashboards in any bullet earns adjacency; "Reviewed
  dashboards" moves a listed skill between tiers and its rung from B to C
  (`resolver.py:86-92`). `MoreEvidenceNeverHurts` excepts both.
* `_find_signal` (`transfer.py:317`) accepts a listed skill in a denied clause
  (excepted in `RungsAreEarned`).
* Plain keywords are matched loosely (`_term_matches`, `matrix.py:399-407`): a listed
  "React" that a bullet shows earns "react native" rung A, although no fact affirms
  it and `matrix.py:367-370` says that the exact term must be present. `Carrying`
  counts such parts, so `RungsAreEarned` says that a bullet affirms the keyword or a part of it.
* The skills are searched before the bullets (`matrix.py:361-373`). A bullet says
  azure and the summary "Azure Functions"; listing "Azure Functions" lowers the keyword
  azure from A to B. `MoreEvidenceNeverHurts` excepts exactly this (`Outranked`), for
  facts that are not bullets.
* With two gaps in must-haves the category is
  "stretch" whatever the alignment, so closing a gap can lower it.
* `_drop_standard_prefixes` mentions wcag as part of the vocabulary; it is not.

## Proofs

With four exceptions the assumptions say what kind of value a constant is, and no
more: `ConstantsAssumption` (`KitLifecycle`), `ProviderAssumption` (`KitProvider`),
`LedgerAssumption` (`ChangeLedger`), `DocumentAssumption`, `OptimizerAssumption` and
`CasesAssumption` (the optimizer), `ScenarioAssumption` (`KitGeneration`),
`VersionsAssumption` (`StoredKits`), `LadderAssumption` (`EvidenceLadder`),
`PostingAssumption` (`JobPosting`) and `AnswersAssumption` (`JobMatch`). Everything
else is arbitrary: kits, deliveries, requests, retries and faults; resumes, letters
and batches; postings, proposals and findings of the validators; readings and answers
of providers, which may number lines that are not there. The first exception is
`BulletsAssumption` (`TailoringOptimizer`): no rewrite of a provider is empty or
worded exactly like another bullet of the source. The ledger of removals identifies
bullets by their words (`_ledgered_bullet_removals`, `completeness.py`), so the
assumption is needed. The code refuses an empty rewrite (`_bullet_is_valid`) and takes
back one worded like an earlier bullet of the plan (`_reject_generated_duplicates`);
it does not see one worded like a source bullet that is rewritten as well, or that
comes later. There the theorems are silent: a removal could be entered under the other
bullet's words. The second is `GroundingAssumption` (`StoredKits`): a claim found in
the candidate's own text is vouched for, or refused there too. The code makes the
resume part of the evidence (`build_evidence_context`) and looks for a claim in the
evidence the way it looks for it in a repaired text (`_still_present`: words at word
boundaries, figures as substrings), so what is found in one is found in the other; a
tenure of no years is what is refused in spite of being there. Without it a batch that
puts the candidate's text back could bring back a value the gate took out. The third
is `ReadInOrder` (in `ScenarioAssumption`): the records of the deterministic parse
stand one below the other in the text, each begins on a line with one of its names,
and only the first may have none. That is what `_heuristic_entries` does: it reads the
lines once, an entry is opened by a line with dates, which it keeps as they are
written, or by bullets above every such line. The fourth is in `LadderAssumption`:
whoever says an entry or a term says the words inside it. The code looks for a word at
word boundaries, so it finds "react" wherever it finds "react native".

`KitLifecycleProofs` proves `TypeCorrect`, `OneWinnerPerRevision` and
`NobodyForgotten`. `RevisionHistory` is not inductive: that a batch wins only the
current revision needs that expected revisions of applied batches are below it
and that a row which does not exist yet has no applied batch (`HistoryInv`).
`OpenKitHasOwner` needs the job part of the type invariant; it excludes the
faults `broker_retry` and `fail_db`, without which it is false.

The second part of the module assumes `"overlap" \notin FaultKinds`. Its inductive
invariant `SingleInv` has four parts: the history of revisions; `SoleCopy`, at most one
delivery or publishing request of a kit is active; `SnapshotCurrent`, a worker's
snapshot is what the row holds now, because nobody else may write it while it is
open; and `RowsInv`, the rows are consistent and contain exactly batches whose
clients were told so. From it follow `RowsStayConsistent`, `AppliedBatchesStay`,
`FinishedKitsStay` and, with one lemma that names what a step may do to a kit
(`KitStep`), `ContractImplemented`.

`KitProviderProofs` proves `NoOverlappingRequests`, `LateAnswerNotShown` and
`ViewNeverGoesBack`. What is shown is a race between answers, so the invariant
has to speak of requests that are still out: `SoleRequest`, a request under way is
the one the controller can abort; `LoadsExcused`, unless aborted it is for the
page, or for the page a batch was sent from; `ViewsArePast`, an answer that has
been computed is a view of the past of its row, and not older than what is shown.

`StoredKitsProofs` first proves what the reports mean: `DeliveredIsSound`,
`CompletedIffAllDelivered` and `PrimaryDecides`, from a lemma on the state of one
group of artifacts. Then all five properties of its run, from two invariants.
`Drafted` says what a row made of a draft is: its resume has one record, of the
candidate's text and of what the gate left of the draft, and a document only if the
draft passed. So a batch gates one of two texts again (`RegatedClean`): what the
gate left has nothing new in it (`NothingNew`), and a claim found in the candidate's
text is evidence, or refused again. That gives `FabricationsStayOut`. `Kept` says
what a row is, whichever version wrote it (`Shaped`): it has the fields its schema
writes and no others, it has a state exactly if it has reports, the state is their
roll-up, and a document that was asked for is not reported delivered without being
there. Reading keeps this (`NormalizedShaped`), and so does the way through the typed
kit (`Rewritten`, `RoundTrip`), where every writer names the fields of its artifact
and a field it did not name would be lost; `OldRowShaped` has the rows of versions 1
to 6. `HistoryHonest` and `EditKeepsAllElse` follow: the first with
`CompletedIffAllDelivered`, the second because a row that has been normalized once
is not changed by the next reading. `ScoresFollow` is part of `Kept`: whoever writes a
text that is shown scores it in the same step, and reading changes neither.
`RepairSparesTheRest` is shown along the fold
that picks the tokens to keep (`WordingOfPicked`).

`ChangeLedgerProofs` proves `FrozenRecords` (an action property,
from the guard of a batch and the fact that a batch disposes of its own records
only), `LetterNeverDrifts` (the invariant adds that every paragraph of a delivered
letter keeps its record), `ExportsValid` and `OrderlyNeverDrifts`. Both of the last
rest on `Drawn`: apart from its status a record says what the plan said, whatever
batches came, and a delivered resume has a record of everything the plan changed.
`ExportsValid` then counts. The delivered document has as many distinct bullets as
the plan left (`DocumentCounted`), the gate of a batch asks that bullets and removals
in effect make up the source (`Complete`), and removals in effect are among the
pruned. `OrderlyNeverDrifts` shows that the rebuild, which starts from the page of
the last batch, does not depend on it: a page of a kit in order is one of
`Wordings`, each bullet the source or what the plan made of it, and one turn of the
loop of `_rebuild_resume` moves exactly one bullet to what the ledger promises
(`TurnAbove` for a bullet that stays, `TurnBelow` for a pruned one), so after the loop
all are there (`ReplayPromised`). For pruned bullets this is where two is the limit:
with at most two below the others, the clamped index of a restored bullet is always
its place. `OrderlyRebuilds` adds that a rebuild from the delivered document would
give the same page.

`TailoringProofs` proves `RecordIsHonest`, `VerdictsGivenOnce`, `OnlyUnsafeDropped`
and `FloorHolds`, for every resume, posting and set of findings. What the record says
is not inductive. The invariant `Inv` (theorem `InvariantHolds`) is `Typed /\ Verdicts
/\ Untried /\ Bisecting /\ VerdictsMatchDelivery`: an accepted verdict is exactly
an applied change; a batch not reached has no verdict; and while a batch is being
bisected the pieces still to try and what was kept are apart and without a
verdict. The last is what makes a verdict final, because the enclosing batch only
judges what the bisection left open. `FloorHolds` adds to it that a document is
only delivered behind the last gate, or is the projection.

Four more theorems take in the rest of the run. `EveryRemovalAccounted`
(`RemovalsAccounted`) rests on `Accounts`: before the first removal no bullet is
missing from the plan or from the trial (`Intact`); afterwards the ledger has one
record for each empty slot, and what stands in a slot has the facts and names of its
source bullet (`Ledgered`); what was removed left its role on its floor and its names
behind (`Covered`); and the removals still to try are distinct bullets that stand
(`Queued`). `Covered` is where the order of removals could do harm, because the
screening looks at the document before the first of them. The step lemma `RemovalKept`
shows why it does not: each removal is checked again on the document it leaves, its
names go to a bullet that stays, and the names of earlier removals that this bullet
carried are carried further. `NothingRejectedDelivered` (`RejectedStayOut`) needs that
every label is proposed once: by the projection, a rewrite of one bullet, an action of
one batch or the order round (`Settled`, with `RankedOnce`, `ProposedOnce` and
`QualityOnce`). `TypesHold` (`TypeOK`) adds only that nothing is left to try outside a
bisection (`Sound`). `RunAdvances` (`AlwaysAdvances`) gives the bound behind
termination: no step repeats without a later phase, a shorter list or less `Effort` in
the bisection; halving a batch costs at least one less than trying it whole
(`TrialsShrink`, with `EffortSplit`).

`KitGenerationProofs` proves six invariants from one (`Inv`, theorem `InvHolds`):
`ProseIsAccounted`, `FloorStands`, `SuspectRefusedEarly` (proved only: a resume that reads as
suspect is refused before anything is written from it), `DeliveredSupported`,
`NarrativeSurvives` (excepting a job fit with a claim that cannot be removed) and
that the scenario stays. `Counted` bounds the tasks a kit spent a call on by its
calls; that needs `Shared` and `Consumed`, because a text taken from the cache costs
nothing: only a cache shares texts, and a kit is past the prompts of the texts it
put there, so it cannot be served its own for free. `Disclosed` follows every text
to the kit that paid for it, also through the cache; `Filtered` says what planner
and readers let through. `FloorStands` is about the merge alone: adding bullets,
cleaning and merging entries each keep a prefix of what they are given, shown
step by step along the fold. `AdditionsStayInPlace` (`AddedInPlace`) is about the
search for the text of a record: where the names of records stand in their headings
only, the search finds each record at its heading (`StartsAtHeadings`), because the
one above it was found at its own; so the text it cuts out is the record's own
(`ContextsAreOwn`), and the merge takes from nowhere else. The first form of the
property compared positions of the profile with positions of the text. That is wrong
when the text begins with bullets above every header, since `_clean_experiences` drops
a record without a name; the property now names the record, and the run has such a
resume.

`JobMatchProofs` proves all five properties of its run. Its first half is about the
posting. What was parsed is a function of the lines read (`ParsedInv`): requirements
and lists are those of the view of the posting, and once a provider was asked, the
merge of one of its answers into them, so each property is a statement about that
function. `NothingReadAfterClosing` follows a posting line by line: the view is
stopped exactly if a role was opened and closed (`ViewInRole`), everything the parser
finds (`Found`) stands in the view, and so does what a merge adds (`GivenIsScored`),
for all three lists. `ProviderOnlyCompletes` needs of the merge that repetitions do
not push a line of the parser over the limit (`FirstListStays`). `DemandStands` needs
that the mention chosen for a term exists and is one: precedence orders all mentions
and has no cycle (`PrecedesOrders`), there are finitely many (`CandidatesFinite`), and
no two stand in the same place (`CandidateByPlace`). What could still drop a chosen
soft skill is the cap; `CapCutsNothing` shows that it never does, because the share it
allows is measured on the same skills. The note on `_cap_soft_weight`
(`requirements.py:1414`) says so; the fractions of the code are exact sums of halves
and rounded monotonically, so they compare like the products of the model.

The second half is about the resume. For `EveryRungEarned` each rung of both ladders is
shown to be carried by facts that affirm the term, a part of it or what stands for it; a
skill on the highest tier leads to the bullet that shows it (`SkillsEarned`). For
`MoreEvidenceStandsNoLower`, tiers are compared before and after a fact: a skill leaves a
tier only upwards (`TierLeft`); a plain keyword that falls behind does so to a skill
the summary says, while a bullet shows the keyword (`OnlyOutranked`), and a
new bullet cannot cause that (`BulletLowersNothing`); a typed term a new bullet shows
reaches A, or adjacency where a bridge decides; so no demand loses rank beyond the
exception, no gap opens, and with one more bullet coverage, a quotient of two sums over the
demands, does not drop. That these are sums at all needs finitely many demands
(`DemandsAreFinite`, from the first half).

Induction over data is out of reach as a rule, because the induction theorems of
the library take an operator. `SequenceFolds` goes around it where it can: a set of
counterexamples takes the place of the operator (`SetInduction`), a fold over a
sequence is the last of a list of intermediate results (`FoldExists`), and a fold
over a finite set is one value per subset (`SetFoldExists`, for sums and sorts). So
filters and sorts are folds in the models as well (`Lists`).

Only model-checked:
* liveness (`AcceptedKitSettles`, `OutcomeReachesBrowser`, `GenerationEnds`) and
  ENABLED, which the prover does not reach.

## Not modelled

* The compatibility path of the optimizer (`_optimize_pr21_compat`), an older
  algorithm behind a switch (`delivery_first`) that is on by default; plan
  decisions and diagnostics counters, which describe a run and decide nothing.
* The wording of the planner, prompts, the fidelity validators and renderers: pure
  functions of text. Which texts they refuse is a parameter of the models.
* The recognition of headings, dates, contacts and list parents in parsing:
  regular expressions, likewise a parameter (what a line says).
* Job priorities, the quality report, the wording of score confidence, the PRAMANA
  weights and calibration: presentation or constants.
* The resume extraction endpoint, configuration, transport schemas and migrations:
  no state that a step could leave wrong. Schema validation by Pydantic.
* The new kit wizard, whose form state lives on one page (its hazard is listed),
  the evidence panel and the rest of the presentation in the browser.
* The message of a refused batch, the back-off delay of retries, and
  `InlineJobQueue`, which serves tests.
* The evaluation and benchmark harness: offline tools.
