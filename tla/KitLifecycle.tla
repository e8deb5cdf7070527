---------------------------- MODULE KitLifecycle ----------------------------
(***************************************************************************)
(* The life of an application kit in apps/api: the rows of the `kits`      *)
(* table, the HTTP handlers that create, edit, regenerate and delete them, *)
(* the Celery/Redis broker that carries `generate_kit` tasks, and the      *)
(* worker that executes one.                                               *)
(*                                                                         *)
(* A job is one delivery of a task: it waits in the broker ("queued"), is  *)
(* executed by a worker one database round trip at a time, and is          *)
(* acknowledged late (celery_app.py, task_acks_late).  Every step between  *)
(* two awaits of the source is one action, so a step of another worker or  *)
(* of a request may fall between a read and the write that uses it.        *)
(*                                                                         *)
(* The engine is abstracted to the state of the kit it returns and, for a  *)
(* change batch, to the set of batches a result contains.                  *)
(***************************************************************************)
EXTENDS Naturals

CONSTANTS
    Kits,        \* ids a row can get (uuid4: never reused)
    Jobs,        \* identities of simultaneous task deliveries (bound)
    Clients,     \* HTTP requests that change a row, one operation each (bound)
    NoKit,       \* "no id"
    MaxRetries,  \* tasks.MAX_RETRIES
    FaultKinds,  \* the faults the environment may inject
    MaxFaults    \* how many it injects (bound)

AllFaults == {"worker_lost", "db", "broker_submit", "api_lost",
              "broker_retry", "fail_db", "overlap"}

ASSUME ConstantsAssumption ==
    /\ NoKit \notin Kits
    /\ MaxRetries \in Nat
    /\ MaxFaults \in Nat
    /\ FaultKinds \subseteq AllFaults

VARIABLES
    row,     \* row[k]: the persisted kit, or the marker of a missing row
    job,     \* job[j]: a task delivery and the worker state executing it
    client,  \* client[c]: a request handler
    faults   \* faults injected so far

vars == <<row, job, client, faults>>

-----------------------------------------------------------------------------
(* Values *)

KitStates == {"completed", "partially_completed", "needs_input_review", "failed"}
TerminalStatuses == KitStates
OpenStatuses == {"pending", "processing"}
MissingStatuses == {"unborn", "deleted"}
ActionableStates == KitStates \ {"failed"}
Errors == {"none", "suspect", "engine", "worker"}

Results == [state : KitStates \cup {"none"}, edits : SUBSET Clients]
NoResult == [state |-> "none", edits |-> {}]
FreshResult(s) == [state |-> s, edits |-> {}]

\* The attributes of a row that a worker reads and writes.
Views == [status : OpenStatuses \cup TerminalStatuses \cup MissingStatuses,
          result : Results, error : Errors]
View(r) == [status |-> r.status, result |-> r.result, error |-> r.error]
NoView == [status |-> "unborn", result |-> NoResult, error |-> "none"]

Rows == [status : OpenStatuses \cup TerminalStatuses \cup MissingStatuses,
         result : Results, error : Errors, revision : Nat,
         parent : Kits \cup {NoKit}]
Missing(s) == [status |-> s, result |-> NoResult, error |-> "none",
               revision |-> 0, parent |-> NoKit]
NewRow(parent) == [status |-> "pending", result |-> NoResult, error |-> "none",
                   revision |-> 0, parent |-> parent]

Exists(k) == row[k].status \notin MissingStatuses
IsOpen(k) == row[k].status \in OpenStatuses
IsTerminal(k) == row[k].status \in TerminalStatuses

JobStates == {"free", "queued", "loaded", "generating", "transient", "retried",
              "failing", "fail_loaded", "acking"}
JobRecords == [pc : JobStates, kit : Kits \cup {NoKit}, retries : 0..MaxRetries,
               loaded : Views]
FreeJob == [pc |-> "free", kit |-> NoKit, retries |-> 0, loaded |-> NoView]
Queued(k, n) == [pc |-> "queued", kit |-> k, retries |-> n, loaded |-> NoView]
\* A worker is executing the body of the task.
Executing(j) == job[j].pc \in {"loaded", "generating", "transient", "failing",
                               "fail_loaded"}
\* The delivery still has work to do for its kit.
Owning(j) == job[j].pc = "queued" \/ Executing(j)

ClientStates == {"idle", "publishing", "editing", "accepted", "unavailable",
                 "crashed", "aborted", "applied", "conflict", "refused", "deleted"}
ClientRecords == [pc : ClientStates, kit : Kits \cup {NoKit}, expected : Nat,
                  seen : Results]
NewClient == [pc |-> "idle", kit |-> NoKit, expected |-> 0, seen |-> NoResult]

Fault(kind) == /\ kind \in FaultKinds
               /\ faults < MaxFaults
               /\ faults' = faults + 1

Init == /\ row = [k \in Kits |-> Missing("unborn")]
        /\ job = [j \in Jobs |-> FreeJob]
        /\ client = [c \in Clients |-> NewClient]
        /\ faults = 0

-----------------------------------------------------------------------------
(* HTTP handlers *)

Reply(c, pc) == client' = [client EXCEPT ![c].pc = pc]

\* POST /kits: the pending row is committed before the task is published.
SubmitKit(c, k) ==
    /\ client[c].pc = "idle" /\ row[k].status = "unborn"
    /\ row' = [row EXCEPT ![k] = NewRow(NoKit)]
    /\ client' = [client EXCEPT ![c].pc = "publishing", ![c].kit = k]
    /\ UNCHANGED <<job, faults>>

\* POST /kits/{source}/regenerate: a new pending row linked to its source.
RegenerateKit(c, source, k) ==
    /\ client[c].pc = "idle" /\ Exists(source) /\ row[k].status = "unborn"
    /\ row' = [row EXCEPT ![k] = NewRow(source)]
    /\ client' = [client EXCEPT ![c].pc = "publishing", ![c].kit = k]
    /\ UNCHANGED <<job, faults>>

\* The publish of either handler; 202 once the broker has the message.
Enqueue(c, j) ==
    /\ client[c].pc = "publishing" /\ job[j].pc = "free"
    /\ job' = [job EXCEPT ![j] = Queued(client[c].kit, 0)]
    /\ Reply(c, "accepted")
    /\ UNCHANGED <<row, faults>>

\* The publish raises QueueUnavailableError (503); the row stays pending.
EnqueueUnavailable(c) ==
    /\ client[c].pc = "publishing" /\ Fault("broker_submit")
    /\ Reply(c, "unavailable")
    /\ UNCHANGED <<row, job>>

\* The publish raises after the broker took the message: a 503 and a job.
EnqueueUnconfirmed(c, j) ==
    /\ client[c].pc = "publishing" /\ Fault("broker_submit") /\ job[j].pc = "free"
    /\ job' = [job EXCEPT ![j] = Queued(client[c].kit, 0)]
    /\ Reply(c, "unavailable")
    /\ UNCHANGED row

\* POST /kits/{k}/change-actions up to the call of the engine: the checks on
\* the row as read, for a revision e the client has seen.
OpenEdit(c, k, e) ==
    /\ client[c].pc = "idle" /\ Exists(k) /\ e \in 0..row[k].revision
    /\ LET ask(pc) == client' = [client EXCEPT
                ![c] = [pc |-> pc, kit |-> k, expected |-> e,
                        seen |-> IF pc = "editing" THEN row[k].result ELSE NoResult]]
           actionable == row[k].result.state \in ActionableStates
       IN  \/ row[k].result.state = "none" /\ ask("refused")
           \/ row[k].result.state # "none" /\ row[k].revision # e /\ ask("conflict")
           \/ row[k].revision = e /\ ~actionable /\ ask("refused")
           \/ row[k].revision = e /\ actionable /\ ask("editing")
           \* a record of an artifact that was not delivered
           \/ row[k].revision = e /\ row[k].result.state = "needs_input_review"
              /\ ask("refused")
    /\ UNCHANGED <<row, job, faults>>

\* The engine refuses the batch (conflict or invalid action): nothing written.
RefuseEdit(c) ==
    /\ client[c].pc = "editing"
    /\ client' = [client EXCEPT ![c].pc = "refused", ![c].seen = NoResult]
    /\ UNCHANGED <<row, job, faults>>

\* Mutated form of CommitEdit: the UPDATE lost its revision guard.
CommitEditUnguarded(c) ==
    LET k == client[c].kit
    IN  /\ client[c].pc = "editing" /\ Exists(k)
        /\ row' = [row EXCEPT ![k].result.edits = client[c].seen.edits \cup {c},
                              ![k].revision = client[c].expected + 1]
        /\ client' = [client EXCEPT ![c].pc = "applied", ![c].seen = NoResult]
        /\ UNCHANGED <<job, faults>>

\* Mutated form of CommitEdit: the new revision is not written.
CommitEditSameRevision(c) ==
    LET k == client[c].kit
    IN  /\ client[c].pc = "editing" /\ Exists(k) /\ row[k].revision = client[c].expected
        /\ row' = [row EXCEPT ![k].result.edits = client[c].seen.edits \cup {c}]
        /\ client' = [client EXCEPT ![c].pc = "applied", ![c].seen = NoResult]
        /\ UNCHANGED <<job, faults>>

\* UPDATE kits SET result, revision WHERE id = k AND revision = expected.
CommitEdit(c) ==
    LET k == client[c].kit
        e == client[c].expected
        wins == Exists(k) /\ row[k].revision = e
    IN  /\ client[c].pc = "editing"
        /\ row' = IF ~wins THEN row ELSE
                  [row EXCEPT ![k].result = [state |-> client[c].seen.state,
                                             edits |-> client[c].seen.edits \cup {c}],
                              ![k].revision = e + 1]
        /\ client' = [client EXCEPT ![c].pc = IF wins THEN "applied" ELSE "conflict",
                                    ![c].seen = NoResult]
        /\ UNCHANGED <<job, faults>>

\* DELETE /kits/{k}: a hard delete.
DeleteKit(c, k) ==
    /\ client[c].pc = "idle" /\ Exists(k)
    /\ row' = [row EXCEPT ![k] = Missing("deleted")]
    /\ client' = [client EXCEPT ![c].pc = "deleted", ![c].kit = k]
    /\ UNCHANGED <<job, faults>>

\* Regenerate, edit or delete of a row that is gone: 404.
NotFound(c, k) ==
    /\ client[c].pc = "idle" /\ row[k].status = "deleted"
    /\ client' = [client EXCEPT ![c].pc = "refused", ![c].kit = k]
    /\ UNCHANGED <<row, job, faults>>

\* The API process dies, or a database error becomes a 500, in a handler.
LoseApi(c) ==
    /\ client[c].pc \in {"publishing", "editing"} /\ Fault("api_lost")
    /\ client' = [client EXCEPT
            ![c].pc = IF client[c].pc = "publishing" THEN "crashed" ELSE "aborted",
            ![c].seen = NoResult]
    /\ UNCHANGED <<row, job>>

-----------------------------------------------------------------------------
(* The worker: process_kit *)

Goto(j, pc) == job' = [job EXCEPT ![j].pc = pc, ![j].loaded = NoView]
Keep(j, pc, v) == job' = [job EXCEPT ![j].pc = pc, ![j].loaded = v]

\* The session emits an UPDATE of the attributes whose value differs from the
\* one it loaded; the others keep whatever the row holds now.
Flush(r, old, new) ==
    [r EXCEPT !.status = IF new.status = old.status THEN r.status ELSE new.status,
              !.result = IF new.result = old.result THEN r.result ELSE new.result,
              !.error  = IF new.error = old.error THEN r.error ELSE new.error]

\* A commit of `new` by job j that leaves it at pc `after`; an UPDATE that
\* matches no row raises StaleDataError, which leaves it at `stale`.
Save(j, new, after, stale) ==
    LET k == job[j].kit
        old == job[j].loaded
        kept == IF after = "generating" THEN new ELSE NoView
    IN  IF new = old \/ Exists(k)
        THEN /\ row' = [row EXCEPT ![k] = Flush(row[k], old, new)]
             /\ Keep(j, after, kept)
        ELSE /\ Goto(j, stale)
             /\ UNCHANGED row

\* Mutated form of Load: no early return on a terminal kit.
LoadUnguarded(j) ==
    LET k == job[j].kit IN
    /\ job[j].pc = "queued"
    /\ IF ~Exists(k) THEN Goto(j, "acking") ELSE Keep(j, "loaded", View(row[k]))
    /\ UNCHANGED <<row, client, faults>>

\* session.get and the missing / already-terminal early returns.
Load(j) ==
    LET k == job[j].kit IN
    /\ job[j].pc = "queued"
    /\ IF ~Exists(k) \/ IsTerminal(k)
       THEN Goto(j, "acking")
       ELSE Keep(j, "loaded", View(row[k]))
    /\ UNCHANGED <<row, client, faults>>

SaveProcessing(j, after) ==
    /\ job[j].pc = "loaded"
    /\ Save(j, [job[j].loaded EXCEPT !.status = "processing"], after, "failing")
    /\ UNCHANGED client

\* status = PROCESSING; commit.
MarkProcessing(j) == SaveProcessing(j, "generating") /\ UNCHANGED faults

\* What generation leaves in the session: a result and the status its state
\* maps to, a review request (ExtractionSuspectError), or a failure.
Outcomes(v) ==
    {[status |-> s, result |-> FreshResult(s), error |-> "none"] : s \in KitStates}
        \cup {[v EXCEPT !.status = "needs_input_review", !.error = "suspect"],
              [v EXCEPT !.status = "failed", !.error = "engine"]}

SaveOutcome(j, after) ==
    /\ job[j].pc = "generating"
    /\ \E new \in Outcomes(job[j].loaded) : Save(j, new, after, "failing")
    /\ UNCHANGED client

\* generate_application_kit, then the commit of its outcome.
Finish(j) == SaveOutcome(j, "acking") /\ UNCHANGED faults

\* Serialization raises outside the handler of engine failures.
Unexpected(j) ==
    /\ job[j].pc = "generating"
    /\ Goto(j, "failing")
    /\ UNCHANGED <<row, client, faults>>

-----------------------------------------------------------------------------
(* The worker: retries, mark_kit_failed, acknowledgement *)

\* task.retry publishes a new task before the old one is acknowledged.
Retry(j, fresh) ==
    /\ job[j].pc = "transient" /\ job[j].retries < MaxRetries
    /\ job[fresh].pc = "free"
    /\ job' = [job EXCEPT ![j].pc = "retried",
                          ![fresh] = Queued(job[j].kit, job[j].retries + 1)]
    /\ UNCHANGED <<row, client, faults>>

\* The publish of the retry fails: Celery rejects the task without requeue.
RetryLost(j) ==
    /\ job[j].pc = "transient" /\ job[j].retries < MaxRetries /\ Fault("broker_retry")
    /\ Goto(j, "acking")
    /\ UNCHANGED <<row, client>>

\* Mutated form of Exhausted: the last failure is logged and not persisted.
ExhaustedSilently(j) ==
    /\ job[j].pc = "transient" /\ job[j].retries = MaxRetries
    /\ Goto(j, "acking")
    /\ UNCHANGED <<row, client, faults>>

\* The last transient failure goes to mark_kit_failed instead of a retry.
Exhausted(j) ==
    /\ job[j].pc = "transient" /\ job[j].retries = MaxRetries
    /\ Goto(j, "failing")
    /\ UNCHANGED <<row, client, faults>>

\* Mutated form of LoadForFail: mark_kit_failed fails terminal kits too.
LoadForFailUnguarded(j) ==
    LET k == job[j].kit IN
    /\ job[j].pc = "failing"
    /\ IF ~Exists(k) THEN Goto(j, "acking") ELSE Keep(j, "fail_loaded", View(row[k]))
    /\ UNCHANGED <<row, client, faults>>

\* mark_kit_failed: its own session.get and early returns.
LoadForFail(j) ==
    LET k == job[j].kit IN
    /\ job[j].pc = "failing"
    /\ IF ~Exists(k) \/ IsTerminal(k)
       THEN Goto(j, "acking")
       ELSE Keep(j, "fail_loaded", View(row[k]))
    /\ UNCHANGED <<row, client, faults>>

\* status = FAILED, error; commit.
MarkFailed(j) ==
    /\ job[j].pc = "fail_loaded"
    /\ Save(j, [job[j].loaded EXCEPT !.status = "failed", !.error = "worker"],
            "acking", "acking")
    /\ UNCHANGED <<client, faults>>

\* Late acknowledgement: the task body has returned or raised.
Ack(j) ==
    /\ job[j].pc \in {"acking", "retried"}
    /\ job' = [job EXCEPT ![j] = FreeJob]
    /\ UNCHANGED <<row, client, faults>>

-----------------------------------------------------------------------------
(* Faults of the worker, the database and the broker *)

\* A transient database error escapes process_kit before its commit applies.
DbError(j) ==
    /\ job[j].pc \in {"queued", "loaded", "generating"} /\ Fault("db")
    /\ Goto(j, "transient")
    /\ UNCHANGED <<row, client>>

\* The connection drops after the server applied the commit.
DbErrorAfterCommit(j) ==
    /\ Fault("db")
    /\ SaveProcessing(j, "transient") \/ SaveOutcome(j, "transient")

\* The database is also down for mark_kit_failed: the exception leaves the
\* task, and a failed task is acknowledged.
FailDbError(j) ==
    /\ job[j].pc \in {"failing", "fail_loaded"} /\ Fault("fail_db")
    /\ Goto(j, "acking")
    /\ UNCHANGED <<row, client>>

\* Mutated form of WorkerLost: early acknowledgement, the message is gone.
WorkerLostUnqueued(j) ==
    /\ Executing(j) \/ job[j].pc = "acking"
    /\ Fault("worker_lost")
    /\ job' = [job EXCEPT ![j] = FreeJob]
    /\ UNCHANGED <<row, client>>

\* task_reject_on_worker_lost: the message of a dead worker is requeued.
WorkerLost(j) ==
    /\ Executing(j) \/ job[j].pc = "acking"
    /\ Fault("worker_lost")
    /\ job' = [job EXCEPT ![j] = Queued(job[j].kit, job[j].retries)]
    /\ UNCHANGED <<row, client>>

\* A worker lost between publishing its retry and acknowledging: both live.
WorkerLostAfterRetry(j) ==
    /\ job[j].pc = "retried" /\ Fault("overlap")
    /\ job' = [job EXCEPT ![j] = Queued(job[j].kit, job[j].retries)]
    /\ UNCHANGED <<row, client>>

\* The visibility timeout expires while a worker still executes the task.
VisibilityTimeout(j, fresh) ==
    /\ Executing(j) /\ job[fresh].pc = "free" /\ Fault("overlap")
    /\ job' = [job EXCEPT ![fresh] = Queued(job[j].kit, job[j].retries)]
    /\ UNCHANGED <<row, client>>

-----------------------------------------------------------------------------
(* Specification *)

Request(c) ==
    \/ \E k \in Kits : SubmitKit(c, k) \/ DeleteKit(c, k) \/ NotFound(c, k)
    \/ \E source, k \in Kits : RegenerateKit(c, source, k)
    \/ \E k \in Kits : \E e \in 0..row[k].revision : OpenEdit(c, k, e)

Handle(c) == RefuseEdit(c) \/ CommitEdit(c) \/ \E j \in Jobs : Enqueue(c, j)

Work(j) == \/ Load(j) \/ MarkProcessing(j) \/ Finish(j) \/ Unexpected(j)
           \/ \E fresh \in Jobs : Retry(j, fresh)
           \/ Exhausted(j) \/ LoadForFail(j) \/ MarkFailed(j) \/ Ack(j)

ApiFault(c) == \/ EnqueueUnavailable(c) \/ LoseApi(c)
               \/ \E j \in Jobs : EnqueueUnconfirmed(c, j)

JobFault(j) == \/ DbError(j) \/ DbErrorAfterCommit(j) \/ RetryLost(j)
               \/ FailDbError(j) \/ WorkerLost(j) \/ WorkerLostAfterRetry(j)
               \/ \E fresh \in Jobs : VisibilityTimeout(j, fresh)

\* Every request of the bounded workload is answered and the broker is empty.
Quiescent == /\ \A c \in Clients : client[c].pc \notin {"idle", "publishing", "editing"}
             /\ \A j \in Jobs : job[j].pc = "free"
             /\ UNCHANGED vars

Next == \/ \E c \in Clients : Request(c) \/ Handle(c) \/ ApiFault(c)
        \/ \E j \in Jobs : Work(j) \/ JobFault(j)
        \/ Quiescent

Spec == Init /\ [][Next]_vars

\* Handlers and workers keep running; requests and faults may never come.
Fairness == /\ \A c \in Clients : WF_vars(Handle(c))
            /\ \A j \in Jobs : WF_vars(Work(j))

FairSpec == Spec /\ Fairness

-----------------------------------------------------------------------------
(* Properties *)

\* Every variable stays in its type; a worker that holds a snapshot holds one
\* of an open row, because process_kit and mark_kit_failed return early on a
\* terminal one.
TypeOK ==
    /\ row \in [Kits -> Rows]
    /\ job \in [Jobs -> JobRecords]
    /\ client \in [Clients -> ClientRecords]
    /\ faults \in 0..MaxFaults
    /\ \A j \in Jobs : job[j].pc # "free" => job[j].kit \in Kits
    /\ \A c \in Clients : client[c].pc # "idle" => client[c].kit \in Kits
    /\ \A j \in Jobs : job[j].pc \in {"loaded", "generating", "fail_loaded"}
                           => job[j].loaded.status \in OpenStatuses

Applied(c, k) == client[c].pc = "applied" /\ client[c].kit = k

\* The compare-and-set of change batches (services.py, apply_kit_change_actions)
\* lets exactly one batch win each revision: two applied batches never expected
\* the same revision of a kit, and every revision below the current one was won
\* by some batch - also with duplicated workers writing the same row.
RevisionHistory ==
    \A k \in Kits : Exists(k) =>
        /\ \A c, d \in Clients :
               Applied(c, k) /\ Applied(d, k) /\ c # d
                   => client[c].expected # client[d].expected
        /\ \A r \in 0..row[k].revision : r < row[k].revision
               => \E c \in Clients : Applied(c, k) /\ client[c].expected = r

\* The publish of this kit's task may not have reached the broker.
PublishFailed(k) ==
    \E c \in Clients : client[c].kit = k /\ client[c].pc \in {"unavailable", "crashed"}

\* A kit that is not terminal has someone who will still work on it: its request
\* handler before the publish, or a delivery not yet done with it.  Only a kit
\* whose publish failed may be without one (late acknowledgement, requeue of
\* lost workers and publish-before-acknowledge of retries together).
OpenKitHasOwner ==
    \A k \in Kits : IsOpen(k) =>
        \/ \E j \in Jobs : job[j].kit = k /\ Owning(j)
        \/ \E c \in Clients : client[c].kit = k /\ client[c].pc = "publishing"
        \/ PublishFailed(k)

\* The columns of a row tell one story: an open kit has neither result nor
\* error, and a terminal one has either the result its status was taken from or
\* an error and no result (the order of writes in process_kit and
\* mark_kit_failed).
RowConsistent ==
    \A k \in Kits : Exists(k) =>
        /\ IsOpen(k) => row[k].result = NoResult /\ row[k].error = "none"
        /\ IsTerminal(k) /\ row[k].error = "none" => row[k].result.state = row[k].status
        /\ IsTerminal(k) /\ row[k].error # "none" => row[k].result = NoResult

\* A batch its client was told is applied is in the kit for as long as the kit
\* exists: neither a later batch nor a late worker writes a result without it.
NoEditLost ==
    \A c \in Clients, k \in Kits :
        Applied(c, k) /\ Exists(k) => c \in row[k].result.edits

\* A finished kit is not reprocessed or clobbered: its status and error never
\* change again, and its result changes only together with its revision.
FinishedKitNotClobbered ==
    [][\A k \in Kits :
         IsTerminal(k) /\ row'[k].status # "deleted" =>
            /\ row'[k].status = row[k].status
            /\ row'[k].error = row[k].error
            /\ row'[k].result # row[k].result => row'[k].revision > row[k].revision]_vars

\* Rows, workers and broker together implement the contract of the API.
Contract == INSTANCE KitContract WITH
    Batches <- Clients,
    Settled <- TerminalStatuses,
    Editable <- ActionableStates,
    phase <- [k \in Kits |-> IF IsOpen(k) THEN "open" ELSE row[k].status],
    revision <- [k \in Kits |-> row[k].revision],
    batches <- [k \in Kits |-> row[k].result.edits]

ImplementsContract == Contract!Spec

\* A kit whose submission was accepted (202) does not stay pending or
\* processing: a worker finishes it, fails it, or a client deletes it.
AcceptedKitSettles ==
    \A c \in Clients :
        client[c].pc = "accepted" ~> client[c].pc = "accepted" /\ ~IsOpen(client[c].kit)

\* ADR-0006 and the docstrings of tasks.py and mark_kit_failed: retry exhaustion
\* or an unexpected error marks the kit failed, so that it is never left stuck
\* in `processing`.
NeverStuckInProcessing ==
    \A k \in Kits : row[k].status = "processing" ~> row[k].status # "processing"
=============================================================================
