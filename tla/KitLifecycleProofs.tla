------------------------- MODULE KitLifecycleProofs -------------------------
(***************************************************************************)
(* Proofs about KitLifecycle, for every set of kits, task deliveries and   *)
(* requests, every retry limit and every number of faults.                 *)
(***************************************************************************)
EXTENDS KitLifecycle, TLAPS

USE ConstantsAssumption

-----------------------------------------------------------------------------
(* The values rows, jobs and clients are built from. *)

\* The named values of the model belong to their sets.
LEMMA Values ==
    /\ NoResult \in Results
    /\ NoView \in Views
    /\ \A s \in KitStates : FreshResult(s) \in Results
    /\ \A s \in MissingStatuses : Missing(s) \in Rows
    /\ \A p \in Kits \cup {NoKit} : NewRow(p) \in Rows
    /\ \A r \in Rows : View(r) \in Views
    /\ FreeJob \in JobRecords
    /\ \A k \in Kits, n \in 0..MaxRetries : Queued(k, n) \in JobRecords
    /\ NewClient \in ClientRecords
BY DEF NoResult, Results, NoView, Views, FreshResult, KitStates, Missing, NewRow,
       Rows, View, FreeJob, Queued, JobRecords, JobStates, NewClient, ClientRecords,
       ClientStates, MissingStatuses, OpenStatuses, TerminalStatuses, Errors

\* A flush yields a row, whatever the row became since it was loaded.
LEMMA FlushType ==
    ASSUME NEW r \in Rows, NEW old \in Views, NEW new \in Views
    PROVE  /\ Flush(r, old, new) \in Rows
           /\ Flush(r, old, new).revision = r.revision
           /\ Flush(r, old, new).status \in {r.status, new.status}
           /\ Flush(r, old, new).result \in {r.result, new.result}
BY DEF Flush, Rows, Views

\* Every outcome of a generation is a terminal view.
LEMMA OutcomesType ==
    ASSUME NEW v \in Views, NEW new \in Outcomes(v)
    PROVE  new \in Views /\ new.status \in TerminalStatuses
<1>1. CASE new \in {[status |-> s, result |-> FreshResult(s), error |-> "none"] : s \in KitStates}
  BY <1>1, Values DEF Views, TerminalStatuses, Errors
<1>2. CASE new \in {[v EXCEPT !.status = "needs_input_review", !.error = "suspect"],
                    [v EXCEPT !.status = "failed", !.error = "engine"]}
  BY <1>2 DEF Views, TerminalStatuses, KitStates, Errors
<1>3. QED BY <1>1, <1>2 DEF Outcomes

-----------------------------------------------------------------------------
(* Type correctness *)

\* The job part of TypeOK.
JobsOK == /\ job \in [Jobs -> JobRecords]
          /\ \A j \in Jobs : job[j].pc # "free" => job[j].kit \in Kits
          /\ \A j \in Jobs : job[j].pc \in {"loaded", "generating", "fail_loaded"}
                                 => job[j].loaded.status \in OpenStatuses

\* The client part of TypeOK.
ClientsOK == /\ client \in [Clients -> ClientRecords]
             /\ \A c \in Clients : client[c].pc # "idle" => client[c].kit \in Kits

\* TypeOK is the conjunction of its parts.
LEMMA TypeParts ==
    TypeOK <=> row \in [Kits -> Rows] /\ JobsOK /\ ClientsOK /\ faults \in 0..MaxFaults
BY DEF TypeOK, JobsOK, ClientsOK

\* A goto without a snapshot keeps the job types.
LEMMA GotoType ==
    ASSUME JobsOK, NEW j \in Jobs, job[j].pc # "free",
           NEW pc \in JobStates \ {"loaded", "generating", "fail_loaded"}, Goto(j, pc)
    PROVE  JobsOK'
BY Values DEF JobsOK, Goto, JobRecords

\* So does keeping a snapshot of an open row.
LEMMA KeepType ==
    ASSUME JobsOK, NEW j \in Jobs, job[j].pc # "free",
           NEW pc \in JobStates, NEW v \in Views, Keep(j, pc, v),
           pc \in {"loaded", "generating", "fail_loaded"} => v.status \in OpenStatuses
    PROVE  JobsOK'
BY DEF JobsOK, Keep, JobRecords

\* A delivery put in a slot keeps them.
LEMMA QueuedType ==
    ASSUME JobsOK, NEW j \in Jobs, NEW k \in Kits, NEW n \in 0..MaxRetries,
           job' = [job EXCEPT ![j] = Queued(k, n)]
    PROVE  JobsOK'
<1>1. Queued(k, n) \in JobRecords BY Values
<1>2. Queued(k, n).pc = "queued" /\ Queued(k, n).kit = k BY DEF Queued
<1>3. QED BY <1>1, <1>2 DEF JobsOK

\* A commit keeps the types of rows and jobs.
LEMMA SaveType ==
    ASSUME row \in [Kits -> Rows], JobsOK, NEW j \in Jobs, job[j].pc # "free",
           NEW new \in Views,
           NEW after \in {"generating", "transient", "acking"},
           NEW stale \in {"failing", "acking"}, Save(j, new, after, stale),
           after = "generating" => new.status \in OpenStatuses
    PROVE  row' \in [Kits -> Rows] /\ JobsOK'
<1> DEFINE k == job[j].kit
           old == job[j].loaded
           kept == IF after = "generating" THEN new ELSE NoView
<1>1. k \in Kits /\ old \in Views BY DEF JobsOK, JobRecords
<1>2. CASE new = old \/ Exists(k)
  <2>1. row' = [row EXCEPT ![k] = Flush(row[k], old, new)] /\ Keep(j, after, kept)
    BY <1>2 DEF Save
  <2>2. Flush(row[k], old, new) \in Rows BY <1>1, FlushType
  <2>3. kept \in Views /\ after \in JobStates BY Values DEF JobStates
  <2>4. JobsOK' BY <2>1, <2>3, KeepType
  <2>5. QED BY <1>1, <2>1, <2>2, <2>4
<1>3. CASE ~(new = old \/ Exists(k))
  <2>1. Goto(j, stale) /\ UNCHANGED row BY <1>3 DEF Save
  <2>2. stale \in JobStates \ {"loaded", "generating", "fail_loaded"} BY DEF JobStates
  <2>3. QED BY <2>1, <2>2, GotoType
<1>4. QED BY <1>2, <1>3

\* The two commits of process_kit are such commits.
LEMMA SaveProcessingType ==
    ASSUME TypeOK, NEW j \in Jobs, NEW after \in {"generating", "transient"},
           SaveProcessing(j, after)
    PROVE  row' \in [Kits -> Rows] /\ JobsOK' /\ ClientsOK'
<1> DEFINE new == [job[j].loaded EXCEPT !.status = "processing"]
<1>1. job[j].pc # "free" /\ Save(j, new, after, "failing") BY DEF SaveProcessing
<1>2. new \in Views /\ new.status \in OpenStatuses
  BY DEF TypeOK, JobRecords, Views, OpenStatuses
<1>3. row' \in [Kits -> Rows] /\ JobsOK' BY <1>1, <1>2, SaveType, TypeParts
<1>4. ClientsOK' BY DEF SaveProcessing, TypeOK, ClientsOK
<1>5. QED BY <1>3, <1>4

\* The commit of an outcome.
LEMMA SaveOutcomeType ==
    ASSUME TypeOK, NEW j \in Jobs, NEW after \in {"acking", "transient"},
           SaveOutcome(j, after)
    PROVE  row' \in [Kits -> Rows] /\ JobsOK' /\ ClientsOK'
<1>1. PICK new \in Outcomes(job[j].loaded) : Save(j, new, after, "failing")
  BY DEF SaveOutcome
<1>2. job[j].pc # "free" BY DEF SaveOutcome
<1>3. new \in Views BY OutcomesType DEF TypeOK, JobRecords
<1>4. row' \in [Kits -> Rows] /\ JobsOK' BY <1>1, <1>2, <1>3, SaveType, TypeParts
<1>5. ClientsOK' BY DEF SaveOutcome, TypeOK, ClientsOK
<1>6. QED BY <1>4, <1>5

\* Requests keep the types.
LEMMA RequestType ==
    ASSUME TypeOK, NEW c \in Clients, Request(c)
    PROVE  TypeOK'
<1>0. /\ row \in [Kits -> Rows] /\ JobsOK /\ ClientsOK /\ faults \in 0..MaxFaults
  BY TypeParts
<1>1. ASSUME NEW k \in Kits, SubmitKit(c, k) PROVE TypeOK'
  <2>1. row' \in [Kits -> Rows] BY <1>0, <1>1, Values DEF SubmitKit
  <2>2. ClientsOK' BY <1>0, <1>1, ZenonT(30) DEF SubmitKit, ClientsOK, ClientRecords, ClientStates
  <2>3. JobsOK' /\ faults' \in 0..MaxFaults BY <1>0, <1>1 DEF SubmitKit, JobsOK
  <2>4. QED BY <2>1, <2>2, <2>3 DEF TypeOK, JobsOK, ClientsOK
<1>2. ASSUME NEW source \in Kits, NEW k \in Kits, RegenerateKit(c, source, k) PROVE TypeOK'
  <2>1. row' \in [Kits -> Rows] BY <1>0, <1>2, Values DEF RegenerateKit
  <2>2. ClientsOK' BY <1>0, <1>2, ZenonT(30) DEF RegenerateKit, ClientsOK, ClientRecords, ClientStates
  <2>3. JobsOK' /\ faults' \in 0..MaxFaults BY <1>0, <1>2 DEF RegenerateKit, JobsOK
  <2>4. QED BY <2>1, <2>2, <2>3 DEF TypeOK, JobsOK, ClientsOK
<1>3. ASSUME NEW k \in Kits, DeleteKit(c, k) PROVE TypeOK'
  <2>1. row' \in [Kits -> Rows] BY <1>0, <1>3, Values DEF DeleteKit, MissingStatuses
  <2>2. ClientsOK' BY <1>0, <1>3, ZenonT(30) DEF DeleteKit, ClientsOK, ClientRecords, ClientStates
  <2>3. JobsOK' /\ faults' \in 0..MaxFaults BY <1>0, <1>3 DEF DeleteKit, JobsOK
  <2>4. QED BY <2>1, <2>2, <2>3 DEF TypeOK, JobsOK, ClientsOK
<1>4. ASSUME NEW k \in Kits, NotFound(c, k) PROVE TypeOK'
  <2>1. ClientsOK' BY <1>0, <1>4, ZenonT(30) DEF NotFound, ClientsOK, ClientRecords, ClientStates
  <2>2. QED BY <1>0, <1>4, <2>1 DEF NotFound, TypeOK, JobsOK, ClientsOK
<1>5. ASSUME NEW k \in Kits, NEW e \in 0..row[k].revision, OpenEdit(c, k, e) PROVE TypeOK'
  <2>1. PICK pc \in {"refused", "conflict", "editing"} :
            client' = [client EXCEPT
                ![c] = [pc |-> pc, kit |-> k, expected |-> e,
                        seen |-> IF pc = "editing" THEN row[k].result ELSE NoResult]]
    BY <1>5 DEF OpenEdit
  <2>2. e \in Nat /\ row[k].result \in Results BY <1>0 DEF Rows
  <2>3. ClientsOK' BY <1>0, <2>1, <2>2, Values DEF ClientsOK, ClientRecords, ClientStates
  <2>4. QED BY <1>0, <1>5, <2>3 DEF OpenEdit, TypeOK, JobsOK, ClientsOK
<1>6. QED BY <1>1, <1>2, <1>3, <1>4, <1>5 DEF Request

\* Handlers, and the faults of the API, keep the types.
LEMMA HandleType ==
    ASSUME TypeOK, NEW c \in Clients, Handle(c) \/ ApiFault(c)
    PROVE  TypeOK'
<1>0. /\ row \in [Kits -> Rows] /\ JobsOK /\ ClientsOK /\ faults \in 0..MaxFaults
  BY TypeParts
<1>1. CASE RefuseEdit(c)
  <2>1. ClientsOK' BY <1>0, <1>1, Values DEF RefuseEdit, ClientsOK, ClientRecords, ClientStates
  <2>2. QED BY <1>0, <1>1, <2>1 DEF RefuseEdit, TypeOK, JobsOK, ClientsOK
<1>2. CASE CommitEdit(c)
  <2> DEFINE k == client[c].kit
             e == client[c].expected
  <2>1. k \in Kits /\ e \in Nat /\ client[c].seen \in Results
    BY <1>0, <1>2 DEF CommitEdit, ClientsOK, ClientRecords
  <2>2. row' \in [Kits -> Rows]
    <3>1. [state |-> client[c].seen.state, edits |-> client[c].seen.edits \cup {c}] \in Results
      BY <2>1 DEF Results
    <3>2. \A r \in Results :
            [row EXCEPT ![k].result = r, ![k].revision = e + 1] \in [Kits -> Rows]
      BY <1>0, <2>1 DEF Rows
    <3>3. QED BY <1>0, <1>2, <3>1, <3>2 DEF CommitEdit
  <2>3. ClientsOK' BY <1>0, <1>2, Values, ZenonT(30) DEF CommitEdit, ClientsOK, ClientRecords, ClientStates
  <2>4. QED BY <1>0, <1>2, <2>2, <2>3 DEF CommitEdit, TypeOK, JobsOK, ClientsOK
<1>3. ASSUME NEW j \in Jobs, Enqueue(c, j) \/ EnqueueUnconfirmed(c, j) PROVE TypeOK'
  <2>1. client[c].kit \in Kits BY <1>0, <1>3 DEF Enqueue, EnqueueUnconfirmed, ClientsOK
  <2>2. JobsOK'
    BY <1>0, <1>3, <2>1, QueuedType DEF Enqueue, EnqueueUnconfirmed
  <2>3. ClientsOK'
    BY <1>0, <1>3 DEF Enqueue, EnqueueUnconfirmed, Reply, ClientsOK, ClientRecords, ClientStates
  <2>4. faults' \in 0..MaxFaults
    BY <1>0, <1>3 DEF Enqueue, EnqueueUnconfirmed, Fault
  <2>5. QED BY <1>0, <1>3, <2>2, <2>3, <2>4
            DEF Enqueue, EnqueueUnconfirmed, TypeOK, JobsOK, ClientsOK
<1>4. CASE EnqueueUnavailable(c) \/ LoseApi(c)
  <2>1. ClientsOK'
    BY <1>0, <1>4, Values
    DEF EnqueueUnavailable, LoseApi, Reply, ClientsOK, ClientRecords, ClientStates
  <2>2. faults' \in 0..MaxFaults BY <1>0, <1>4 DEF EnqueueUnavailable, LoseApi, Fault
  <2>3. QED BY <1>0, <1>4, <2>1, <2>2
            DEF EnqueueUnavailable, LoseApi, TypeOK, JobsOK, ClientsOK
<1>5. QED BY <1>1, <1>2, <1>3, <1>4 DEF Handle, ApiFault

\* Workers keep the types.
LEMMA WorkType ==
    ASSUME TypeOK, NEW j \in Jobs, Work(j)
    PROVE  TypeOK'
<1>0. /\ row \in [Kits -> Rows] /\ JobsOK /\ ClientsOK /\ faults \in 0..MaxFaults
  BY TypeParts
<1> DEFINE k == job[j].kit
<1>1. CASE Load(j) \/ LoadForFail(j)
  <2>1. k \in Kits /\ job[j].pc # "free" BY <1>0, <1>1 DEF Load, LoadForFail, JobsOK
  <2>2. row[k].status \in OpenStatuses \/ ~Exists(k) \/ IsTerminal(k)
    BY <1>0, <2>1 DEF Rows, Exists, IsTerminal
  <2>3. View(row[k]) \in Views /\ View(row[k]).status = row[k].status
    BY <1>0, <2>1, Values DEF View
  <2>4. JobsOK'
    <3>1. CASE ~Exists(k) \/ IsTerminal(k)
      BY <1>0, <1>1, <2>1, <3>1, GotoType DEF Load, LoadForFail, JobStates
    <3>2. CASE ~(~Exists(k) \/ IsTerminal(k))
      <4>1. \E pc \in {"loaded", "fail_loaded"} : Keep(j, pc, View(row[k]))
        BY <1>1, <3>2 DEF Load, LoadForFail
      <4>2. QED BY <1>0, <2>1, <2>2, <2>3, <3>2, <4>1, KeepType DEF JobStates
    <3>3. QED BY <3>1, <3>2
  <2>5. QED BY <1>0, <1>1, <2>4 DEF Load, LoadForFail, TypeOK, JobsOK, ClientsOK
<1>2. CASE MarkProcessing(j)
  BY <1>0, <1>2, SaveProcessingType DEF MarkProcessing, TypeOK, JobsOK, ClientsOK
<1>3. CASE Finish(j)
  BY <1>0, <1>3, SaveOutcomeType DEF Finish, TypeOK, JobsOK, ClientsOK
<1>4. CASE Unexpected(j) \/ Exhausted(j)
  <2>1. JobsOK' BY <1>0, <1>4, GotoType DEF Unexpected, Exhausted, JobStates
  <2>2. QED BY <1>0, <1>4, <2>1 DEF Unexpected, Exhausted, TypeOK, JobsOK, ClientsOK
<1>5. ASSUME NEW fresh \in Jobs, Retry(j, fresh) PROVE TypeOK'
  <2>1. Queued(k, job[j].retries + 1) \in JobRecords
    BY <1>0, <1>5, Values DEF Retry, JobsOK, JobRecords
  <2>2. Queued(k, job[j].retries + 1).pc = "queued" /\ Queued(k, job[j].retries + 1).kit = k
    BY DEF Queued
  <2>3. JobsOK'
    BY <1>0, <1>5, <2>1, <2>2 DEF Retry, JobsOK, JobRecords, JobStates
  <2>4. QED BY <1>0, <1>5, <2>3 DEF Retry, TypeOK, JobsOK, ClientsOK
<1>6. CASE MarkFailed(j)
  <2> DEFINE new == [job[j].loaded EXCEPT !.status = "failed", !.error = "worker"]
  <2>1. new \in Views
    BY <1>0, ZenonT(30) DEF JobsOK, JobRecords, Views, TerminalStatuses, KitStates, Errors
  <2>2. Save(j, new, "acking", "acking") /\ job[j].pc # "free" BY <1>6 DEF MarkFailed
  <2>3. row' \in [Kits -> Rows] /\ JobsOK' BY <1>0, <2>1, <2>2, SaveType
  <2>4. QED BY <1>0, <1>6, <2>3 DEF MarkFailed, TypeOK, JobsOK, ClientsOK
<1>7. CASE Ack(j)
  <2>1. FreeJob.pc = "free" BY DEF FreeJob
  <2>2. JobsOK' BY <1>0, <1>7, <2>1, Values DEF Ack, JobsOK
  <2>3. QED BY <1>0, <1>7, <2>2 DEF Ack, TypeOK, JobsOK, ClientsOK
<1>8. QED BY <1>1, <1>2, <1>3, <1>4, <1>5, <1>6, <1>7 DEF Work

\* So do the faults of workers, database and broker.
LEMMA JobFaultType ==
    ASSUME TypeOK, NEW j \in Jobs, JobFault(j)
    PROVE  TypeOK'
<1>0. /\ row \in [Kits -> Rows] /\ JobsOK /\ ClientsOK /\ faults \in 0..MaxFaults
  BY TypeParts
<1>1. faults' \in 0..MaxFaults
  BY <1>0 DEF JobFault, DbError, DbErrorAfterCommit, RetryLost, FailDbError, WorkerLost,
              WorkerLostAfterRetry, VisibilityTimeout, Fault
<1>2. CASE DbErrorAfterCommit(j)
  BY <1>0, <1>1, <1>2, SaveProcessingType, SaveOutcomeType
  DEF DbErrorAfterCommit, TypeOK, JobsOK, ClientsOK
<1>3. CASE DbError(j) \/ RetryLost(j) \/ FailDbError(j)
  <2>1. JobsOK' BY <1>0, <1>3, GotoType DEF DbError, RetryLost, FailDbError, JobStates
  <2>2. QED BY <1>0, <1>1, <1>3, <2>1
            DEF DbError, RetryLost, FailDbError, TypeOK, JobsOK, ClientsOK
<1>4. ASSUME NEW i \in Jobs, job' = [job EXCEPT ![i] = Queued(job[j].kit, job[j].retries)],
             job[j].pc # "free", UNCHANGED <<row, client>>
      PROVE  TypeOK'
  <2>1. job[j].kit \in Kits /\ job[j].retries \in 0..MaxRetries
    BY <1>0, <1>4 DEF JobsOK, JobRecords
  <2>2. JobsOK' BY <1>0, <1>4, <2>1, QueuedType
  <2>3. QED BY <1>0, <1>1, <1>4, <2>2 DEF TypeOK, JobsOK, ClientsOK
<1>5. CASE WorkerLost(j) \/ WorkerLostAfterRetry(j)
  BY <1>4, <1>5 DEF WorkerLost, WorkerLostAfterRetry, Executing
<1>6. ASSUME NEW fresh \in Jobs, VisibilityTimeout(j, fresh) PROVE TypeOK'
  BY <1>4, <1>6 DEF VisibilityTimeout, Executing
<1>7. QED BY <1>2, <1>3, <1>5, <1>6 DEF JobFault

\* Every variable keeps its type and every worker snapshot is of an open row.
THEOREM TypeCorrect == Spec => []TypeOK
<1>1. Init => TypeOK
  <2> SUFFICES ASSUME Init PROVE TypeOK OBVIOUS
  <2>1. row \in [Kits -> Rows] BY Values DEF Init, MissingStatuses
  <2>2. JobsOK BY Values DEF Init, JobsOK, FreeJob
  <2>3. ClientsOK BY Values DEF Init, ClientsOK, NewClient
  <2>4. QED BY <2>1, <2>2, <2>3, TypeParts DEF Init
<1>2. TypeOK /\ [Next]_vars => TypeOK'
  <2> SUFFICES ASSUME TypeOK, [Next]_vars PROVE TypeOK' OBVIOUS
  <2>1. CASE UNCHANGED vars BY <2>1 DEF vars, TypeOK
  <2>2. CASE Next
    BY <2>1, <2>2, RequestType, HandleType, WorkType, JobFaultType DEF Next, Quiescent
  <2>3. QED BY <2>1, <2>2
<1>3. QED BY <1>1, <1>2, PTL DEF Spec

-----------------------------------------------------------------------------
(* Steps of workers, seen from the rows *)

\* A flush of an unchanged view writes nothing.
LEMMA FlushNothing ==
    ASSUME NEW r \in Rows, NEW v \in Views
    PROVE  Flush(r, v, v) = r
BY DEF Flush, Rows, Views

\* What a worker step leaves alone: requests, revisions, and which rows exist.
RowsKept == /\ row' \in [Kits -> Rows]
            /\ UNCHANGED client
            /\ \A k \in Kits : /\ row'[k].revision = row[k].revision
                               /\ Exists(k)' <=> Exists(k)
                               /\ ~Exists(k) => row'[k] = row[k]

\* A commit of process_kit or mark_kit_failed is such a step.
LEMMA SaveKeepsRows ==
    ASSUME TypeOK, NEW j \in Jobs, job[j].pc # "free", NEW new \in Views,
           new.status \notin MissingStatuses, NEW after, NEW stale,
           Save(j, new, after, stale), UNCHANGED client, row' \in [Kits -> Rows]
    PROVE  RowsKept
<1> DEFINE k == job[j].kit
           old == job[j].loaded
<1>1. k \in Kits /\ old \in Views /\ row \in [Kits -> Rows] BY DEF TypeOK, JobRecords
<1>2. CASE row' = [row EXCEPT ![k] = Flush(row[k], old, new)] /\ Exists(k)
  <2>1. /\ row'[k].revision = row[k].revision
        /\ row'[k].status \in {row[k].status, new.status}
    BY <1>1, <1>2, FlushType
  <2>2. row'[k].status \notin MissingStatuses BY <1>2, <2>1 DEF Exists
  <2>3. \A i \in Kits : i # k => row'[i] = row[i] BY <1>1, <1>2
  <2>4. \A i \in Kits : i # k => (Exists(i)' <=> Exists(i)) BY <2>3 DEF Exists
  <2>5. QED BY <1>2, <2>1, <2>2, <2>3, <2>4 DEF RowsKept, Exists
<1>3. CASE row' = [row EXCEPT ![k] = Flush(row[k], old, new)] /\ new = old
  <2>1. Flush(row[k], old, new) = row[k] BY <1>1, <1>3, FlushNothing
  <2>2. row' = row BY <1>1, <1>3, <2>1
  <2>3. QED BY <2>2 DEF RowsKept, Exists
<1>4. CASE UNCHANGED row BY <1>4 DEF RowsKept, Exists
<1>5. QED BY <1>2, <1>3, <1>4 DEF Save

\* The views a worker commits are of existing rows.
LEMMA SavedViews ==
    ASSUME TypeOK, NEW j \in Jobs
    PROVE  /\ [job[j].loaded EXCEPT !.status = "processing"] \in Views
           /\ [job[j].loaded EXCEPT !.status = "processing"].status = "processing"
           /\ [job[j].loaded EXCEPT !.status = "failed", !.error = "worker"] \in Views
           /\ [job[j].loaded EXCEPT !.status = "failed", !.error = "worker"].status = "failed"
           /\ \A new \in Outcomes(job[j].loaded) :
                  new \in Views /\ new.status \in TerminalStatuses
<1>1. job[j].loaded \in Views BY DEF TypeOK, JobRecords
<1>2. QED BY <1>1, OutcomesType DEF Views, OpenStatuses, TerminalStatuses, KitStates, Errors

\* Every step of a worker, its faults included, keeps the rows in that sense.
LEMMA JobKeepsRows ==
    ASSUME TypeOK, NEW j \in Jobs, Work(j) \/ JobFault(j)
    PROVE  RowsKept
<1>0. row' \in [Kits -> Rows] BY WorkType, JobFaultType DEF TypeOK
<1>1. ASSUME NEW after, SaveProcessing(j, after) PROVE RowsKept
  <2>1. "processing" \notin MissingStatuses BY DEF MissingStatuses
  <2>2. QED BY <1>0, <1>1, <2>1, SavedViews, SaveKeepsRows DEF SaveProcessing
<1>2. ASSUME NEW after, SaveOutcome(j, after) PROVE RowsKept
  <2>1. PICK new \in Outcomes(job[j].loaded) : Save(j, new, after, "failing")
    BY <1>2 DEF SaveOutcome
  <2>2. new \in Views /\ new.status \notin MissingStatuses
    BY SavedViews DEF MissingStatuses, TerminalStatuses, KitStates
  <2>3. QED BY <1>0, <1>2, <2>1, <2>2, SaveKeepsRows DEF SaveOutcome
<1>3. CASE MarkFailed(j)
  <2>1. "failed" \notin MissingStatuses BY DEF MissingStatuses
  <2>2. QED BY <1>0, <1>3, <2>1, SavedViews, SaveKeepsRows DEF MarkFailed
<1>4. CASE UNCHANGED <<row, client>> BY <1>0, <1>4 DEF RowsKept, Exists
<1>5. QED BY <1>1, <1>2, <1>3, <1>4
  DEF Work, JobFault, Load, MarkProcessing, Finish, Unexpected, Retry, Exhausted,
      LoadForFail, MarkFailed, Ack, DbError, DbErrorAfterCommit, RetryLost, FailDbError,
      WorkerLost, WorkerLostAfterRetry, VisibilityTimeout

-----------------------------------------------------------------------------
(* One winner per revision *)

\* RevisionHistory is inductive once an applied batch is known to have expected
\* a revision below the current one, and a row not yet created to have had no
\* request: nobody has applied anything to a kit that is about to be born.
HistoryInv ==
    /\ RevisionHistory
    /\ \A c \in Clients, k \in Kits :
           Applied(c, k) /\ Exists(k) => client[c].expected < row[k].revision
    /\ \A c \in Clients, k \in Kits : client[c].kit = k => row[k].status # "unborn"

\* Steps that change no revision and apply no batch preserve it.
LEMMA HistoryKept ==
    ASSUME TypeOK, TypeOK', HistoryInv,
           \A k \in Kits : Exists(k)' => row'[k].revision = row[k].revision /\ Exists(k),
           \A c \in Clients, k \in Kits : Applied(c, k)' <=> Applied(c, k),
           \A c \in Clients, k \in Kits :
               Applied(c, k) => client'[c].expected = client[c].expected,
           \A c \in Clients, k \in Kits : client'[c].kit = k => row'[k].status # "unborn"
    PROVE  HistoryInv'
<1>1. RevisionHistory' BY DEF HistoryInv, RevisionHistory
<1>2. QED BY <1>1 DEF HistoryInv

\* Every step preserves it.
LEMMA HistoryStep ==
    ASSUME TypeOK, TypeOK', HistoryInv, Next
    PROVE  HistoryInv'
<1>0. row \in [Kits -> Rows] /\ client \in [Clients -> ClientRecords] BY DEF TypeOK
<1>1. ASSUME NEW c \in Clients, NEW k \in Kits, NEW p \in Kits \cup {NoKit},
             client[c].pc = "idle", row[k].status = "unborn",
             row' = [row EXCEPT ![k] = NewRow(p)],
             client' = [client EXCEPT ![c].pc = "publishing", ![c].kit = k]
      PROVE  HistoryInv'
  <2>1. row'[k].revision = 0 /\ row'[k].status = "pending" BY <1>0, <1>1 DEF NewRow
  <2>2. \A i \in Kits : i # k => row'[i] = row[i] BY <1>0, <1>1
  <2>3. \A d \in Clients : d # c => client'[d] = client[d] BY <1>0, <1>1
  <2>4. client'[c].pc = "publishing" /\ client'[c].kit = k BY <1>0, <1>1 DEF ClientRecords
  <2>5. \A d \in Clients : ~Applied(d, k)'
    BY <1>1, <2>3, <2>4 DEF Applied, HistoryInv
  <2>6. \A d \in Clients, i \in Kits : i # k => (Applied(d, i)' <=> Applied(d, i))
    BY <1>1, <2>3, <2>4 DEF Applied
  <2>7. \A i \in Kits : i # k => (Exists(i)' <=> Exists(i)) BY <2>2 DEF Exists
  <2>8. \A d \in Clients, i \in Kits : i # k /\ Applied(d, i)' => client'[d] = client[d]
    BY <2>3, <2>4 DEF Applied
  <2>9. RevisionHistory'
    <3> SUFFICES ASSUME NEW i \in Kits, Exists(i)'
                 PROVE  /\ \A a, b \in Clients :
                             Applied(a, i)' /\ Applied(b, i)' /\ a # b
                                 => client'[a].expected # client'[b].expected
                        /\ \A r \in 0..row'[i].revision : r < row'[i].revision
                             => \E a \in Clients : Applied(a, i)' /\ client'[a].expected = r
      BY DEF RevisionHistory
    <3>1. CASE i = k BY <2>1, <2>5, <3>1
    <3>2. CASE i # k
      BY <2>2, <2>6, <2>7, <2>8, <3>2 DEF HistoryInv, RevisionHistory
    <3>3. QED BY <3>1, <3>2
  <2>10. QED BY <2>1, <2>2, <2>3, <2>4, <2>5, <2>6, <2>7, <2>8, <2>9 DEF HistoryInv
<1>2. ASSUME NEW c \in Clients, CommitEdit(c) PROVE HistoryInv'
  <2> DEFINE k == client[c].kit
             e == client[c].expected
  <2>1. k \in Kits /\ e \in Nat BY <1>0, <1>2 DEF CommitEdit, TypeOK, ClientRecords
  <2>2. CASE Exists(k) /\ row[k].revision = e
    <3>1. /\ row'[k].revision = e + 1
          /\ row'[k].status = row[k].status
          /\ \A i \in Kits : i # k => row'[i] = row[i]
      BY <1>0, <1>2, <2>1, <2>2 DEF CommitEdit, Rows
    <3>2. /\ client'[c].pc = "applied" /\ client'[c].kit = k /\ client'[c].expected = e
          /\ \A d \in Clients : d # c => client'[d] = client[d]
      BY <1>0, <1>2, <2>1, <2>2 DEF CommitEdit, ClientRecords
    <3>3. Applied(c, k)' /\ \A i \in Kits : i # k => ~Applied(c, i)'
      BY <3>2 DEF Applied
    <3>4. \A d \in Clients, i \in Kits : d # c => (Applied(d, i)' <=> Applied(d, i))
      BY <3>2 DEF Applied
    <3>5. \A i \in Kits : Exists(i)' <=> Exists(i) BY <3>1 DEF Exists
    <3>6. \A d \in Clients : Applied(d, k) => client[d].expected < e
      BY <2>1, <2>2 DEF HistoryInv
    <3>7. \A i \in Kits : ~Applied(c, i) BY <1>2 DEF CommitEdit, Applied
    <3>8. RevisionHistory'
      <4> SUFFICES ASSUME NEW i \in Kits, Exists(i)'
                   PROVE  /\ \A a, b \in Clients :
                               Applied(a, i)' /\ Applied(b, i)' /\ a # b
                                   => client'[a].expected # client'[b].expected
                          /\ \A r \in 0..row'[i].revision : r < row'[i].revision
                               => \E a \in Clients : Applied(a, i)' /\ client'[a].expected = r
        BY DEF RevisionHistory
      <4>1. CASE i # k
        BY <3>1, <3>2, <3>3, <3>4, <3>5, <3>7, <4>1 DEF HistoryInv, RevisionHistory
      <4>2. CASE i = k
        <5>1. \A a, b \in Clients : Applied(a, k) /\ Applied(b, k) /\ a # b
                                       => client[a].expected # client[b].expected
          BY <2>1, <2>2 DEF HistoryInv, RevisionHistory
        <5>2. \A r \in 0..e : r < e
                 => \E a \in Clients : Applied(a, k) /\ client[a].expected = r
          BY <2>1, <2>2 DEF HistoryInv, RevisionHistory
        <5>3. \A a, b \in Clients : Applied(a, k)' /\ Applied(b, k)' /\ a # b
                                       => client'[a].expected # client'[b].expected
          BY <2>1, <3>2, <3>4, <3>6, <5>1
        <5>4. ASSUME NEW r \in 0..(e + 1), r < e + 1
              PROVE  \E a \in Clients : Applied(a, k)' /\ client'[a].expected = r
          <6>1. CASE r = e BY <3>2, <3>3, <6>1
          <6>2. CASE r # e
            <7>1. r \in 0..e /\ r < e BY <2>1, <5>4, <6>2
            <7>2. PICK a \in Clients : Applied(a, k) /\ client[a].expected = r
              BY <5>2, <7>1
            <7>3. QED BY <3>2, <3>4, <3>7, <2>1, <7>2
          <6>3. QED BY <6>1, <6>2
        <5>5. QED BY <3>1, <3>2, <4>2, <5>3, <5>4
      <4>3. QED BY <4>1, <4>2
    <3>9. \A d \in Clients, i \in Kits :
             Applied(d, i)' /\ Exists(i)' => client'[d].expected < row'[i].revision
      <4> SUFFICES ASSUME NEW d \in Clients, NEW i \in Kits, Applied(d, i)', Exists(i)'
                   PROVE  client'[d].expected < row'[i].revision
        OBVIOUS
      <4>1. CASE d = c BY <2>1, <3>1, <3>2, <3>3, <4>1
      <4>2. CASE d # c /\ i = k
        <5>1. client[d].expected < e /\ client'[d] = client[d] BY <3>2, <3>4, <3>6, <4>2
        <5>2. client[d].expected \in Nat BY <1>0 DEF ClientRecords
        <5>3. QED BY <2>1, <3>1, <4>2, <5>1, <5>2
      <4>3. CASE d # c /\ i # k BY <3>1, <3>2, <3>4, <3>5, <4>3 DEF HistoryInv
      <4>4. QED BY <4>1, <4>2, <4>3
    <3>10. QED BY <2>1, <2>2, <3>1, <3>2, <3>8, <3>9 DEF HistoryInv
  <2>3. CASE ~(Exists(k) /\ row[k].revision = e)
    <3>1. row' = row BY <1>2, <2>3 DEF CommitEdit
    <3>2. \A d \in Clients : /\ client'[d].kit = client[d].kit
                             /\ client'[d].expected = client[d].expected
                             /\ client'[d].pc = "applied" <=> client[d].pc = "applied"
      BY <1>0, <1>2, <2>3 DEF CommitEdit, ClientRecords
    <3>3. QED BY <3>1, <3>2, HistoryKept DEF HistoryInv, Applied, Exists
  <2>4. QED BY <2>2, <2>3
<1>3. ASSUME NEW c \in Clients, NEW k \in Kits, DeleteKit(c, k) PROVE HistoryInv'
  <2>1. /\ row'[k].status = "deleted"
        /\ \A i \in Kits : i # k => row'[i] = row[i]
    BY <1>0, <1>3 DEF DeleteKit, Missing
  <2>2. /\ client'[c].pc = "deleted" /\ client'[c].kit = k /\ client[c].pc = "idle"
        /\ \A d \in Clients : d # c => client'[d] = client[d]
    BY <1>0, <1>3 DEF DeleteKit, ClientRecords
  <2>3. \A i \in Kits : Exists(i)' => row'[i].revision = row[i].revision /\ Exists(i)
    BY <2>1 DEF Exists, MissingStatuses
  <2>4. QED BY <2>1, <2>2, <2>3, HistoryKept DEF HistoryInv, Applied
<1>4. ASSUME NEW c \in Clients, NEW k \in Kits,
             NotFound(c, k) \/ \E e \in 0..row[k].revision : OpenEdit(c, k, e)
      PROVE  HistoryInv'
  <2>1. /\ row' = row /\ client[c].pc = "idle" /\ row[k].status # "unborn"
        /\ client'[c].kit = k /\ client'[c].pc # "applied"
        /\ \A d \in Clients : d # c => client'[d] = client[d]
    BY <1>0, <1>4 DEF NotFound, OpenEdit, ClientRecords, Exists, MissingStatuses
  <2>2. QED BY <2>1, HistoryKept DEF HistoryInv, Applied, Exists
<1>5. ASSUME NEW c \in Clients,
             RefuseEdit(c) \/ ApiFault(c) \/ \E j \in Jobs : Enqueue(c, j)
      PROVE  HistoryInv'
  <2>1. /\ row' = row
        /\ \A d \in Clients : /\ client'[d].kit = client[d].kit
                              /\ client'[d].expected = client[d].expected
                              /\ client'[d].pc = "applied" <=> client[d].pc = "applied"
    BY <1>0, <1>5 DEF RefuseEdit, ApiFault, Enqueue, EnqueueUnavailable, EnqueueUnconfirmed,
                      LoseApi, Reply, ClientRecords
  <2>2. QED BY <2>1, HistoryKept DEF HistoryInv, Applied, Exists
<1>6. ASSUME NEW j \in Jobs, Work(j) \/ JobFault(j) PROVE HistoryInv'
  <2>1. RowsKept BY <1>6, JobKeepsRows
  <2>2. \A k \in Kits : row'[k].status = "unborn" => row[k].status = "unborn"
    BY <2>1 DEF RowsKept, Exists, MissingStatuses
  <2>3. QED BY <2>1, <2>2, HistoryKept DEF RowsKept, HistoryInv, Applied
<1>7. CASE Quiescent BY <1>7, HistoryKept DEF Quiescent, vars, HistoryInv, Applied, Exists
<1>8. ASSUME NEW c \in Clients, Request(c) PROVE HistoryInv'
  BY <1>1, <1>3, <1>4, <1>8 DEF Request, SubmitKit, RegenerateKit
<1>9. QED BY <1>2, <1>5, <1>6, <1>7, <1>8 DEF Next, Handle

\* Exactly one change batch wins each revision of a kit, with duplicated
\* deliveries, worker crashes and every other fault allowed.
THEOREM OneWinnerPerRevision == Spec => []RevisionHistory
<1>1. Init => HistoryInv
  <2> SUFFICES ASSUME Init PROVE HistoryInv OBVIOUS
  <2>1. \A c \in Clients, k \in Kits : ~Applied(c, k) /\ client[c].kit # k
    BY DEF Init, NewClient, Applied
  <2>2. \A k \in Kits : ~Exists(k) BY DEF Init, Missing, Exists, MissingStatuses
  <2>3. QED BY <2>1, <2>2 DEF HistoryInv, RevisionHistory
<1>2. TypeOK /\ TypeOK' /\ HistoryInv /\ [Next]_vars => HistoryInv'
  <2> SUFFICES ASSUME TypeOK, TypeOK', HistoryInv, [Next]_vars PROVE HistoryInv' OBVIOUS
  <2>1. CASE UNCHANGED vars
    BY <2>1, HistoryKept DEF vars, HistoryInv, Applied, Exists
  <2>2. QED BY <2>1, HistoryStep
<1>3. HistoryInv => RevisionHistory BY DEF HistoryInv
<1>4. QED BY <1>1, <1>2, <1>3, TypeCorrect, PTL DEF Spec

-----------------------------------------------------------------------------
(* Nobody is forgotten *)

\* A worker step preserves OpenKitHasOwner when it disturbs no other delivery
\* and either keeps an owner for its own kit or leaves that kit closed.
LEMMA OwnerKeptByJob ==
    ASSUME TypeOK, OpenKitHasOwner, UNCHANGED client, NEW j \in Jobs, NEW k \in Kits,
           k = job[j].kit,
           \A i \in Jobs : i # j /\ Owning(i) => job'[i] = job[i],
           \A i \in Kits : i # k /\ IsOpen(i)' => IsOpen(i),
           \/ \E i \in Jobs : Owning(i)' /\ job'[i].kit = k
           \/ row'[k].status \notin OpenStatuses
           \/ ~Owning(j) /\ row' = row
    PROVE  OpenKitHasOwner'
<1> SUFFICES ASSUME NEW i \in Kits, IsOpen(i)'
             PROVE  \/ \E d \in Jobs : job'[d].kit = i /\ Owning(d)'
                    \/ \E c \in Clients : client'[c].kit = i /\ client'[c].pc = "publishing"
                    \/ PublishFailed(i)'
  BY DEF OpenKitHasOwner
<1>1. PublishFailed(i)' <=> PublishFailed(i) BY DEF PublishFailed
<1>2. \A d \in Jobs : d # j /\ Owning(d) => Owning(d)' /\ job'[d].kit = job[d].kit
  BY DEF Owning, Executing
<1>3. CASE i # k
  <2>1. IsOpen(i) BY <1>3
  <2>2. QED BY <1>1, <1>2, <1>3, <2>1 DEF OpenKitHasOwner
<1>4. CASE i = k /\ row' = row /\ ~Owning(j)
  <2>1. IsOpen(i) BY <1>4 DEF IsOpen
  <2>2. QED BY <1>1, <1>2, <1>4, <2>1 DEF OpenKitHasOwner
<1>5. CASE i = k /\ \E d \in Jobs : Owning(d)' /\ job'[d].kit = k BY <1>5
<1>6. CASE i = k /\ row'[k].status \notin OpenStatuses BY <1>6 DEF IsOpen
<1>7. QED BY <1>3, <1>4, <1>5, <1>6

\* A commit either leaves its delivery owning the kit or leaves the kit closed.
LEMMA OwnerKeptBySave ==
    ASSUME TypeOK, OpenKitHasOwner, UNCHANGED client, NEW j \in Jobs, Owning(j),
           NEW new \in Views, NEW after \in {"generating", "transient", "acking"},
           NEW stale \in {"failing", "acking"}, Save(j, new, after, stale),
           job[j].loaded.status \in OpenStatuses,
           after = "acking" => new.status \in TerminalStatuses
    PROVE  OpenKitHasOwner'
<1> DEFINE k == job[j].kit
           old == job[j].loaded
<1>1. k \in Kits /\ old \in Views /\ row \in [Kits -> Rows] /\ job \in [Jobs -> JobRecords]
  BY DEF TypeOK, JobRecords, Owning, Executing
<1>2. \A i \in Jobs : i # j => job'[i] = job[i] BY <1>1 DEF Save, Keep, Goto
<1>3. job'[j].kit = k /\ job'[j].pc \in {after, stale}
  BY <1>1 DEF Save, Keep, Goto, JobRecords
<1>4. \A i \in Kits : i # k => row'[i] = row[i] BY <1>1 DEF Save
<1>5. \A i \in Kits : i # k /\ IsOpen(i)' => IsOpen(i) BY <1>4 DEF IsOpen
<1>6. job'[j].pc # "acking" => Owning(j)' BY <1>3 DEF Owning, Executing
<1>7. job'[j].pc = "acking" => row'[k].status \notin OpenStatuses
  <2>1. CASE new = old \/ Exists(k)
    <3>1. row'[k] = Flush(row[k], old, new) /\ job'[j].pc = after
      BY <1>1, <2>1 DEF Save, Keep, JobRecords
    <3>2. after = "acking" => row'[k].status = new.status
      BY <1>1, <3>1 DEF Flush, Rows, TerminalStatuses, OpenStatuses, KitStates
    <3>3. QED BY <3>1, <3>2 DEF TerminalStatuses, OpenStatuses, KitStates
  <2>2. CASE ~(new = old \/ Exists(k))
    BY <2>2 DEF Save, Exists, MissingStatuses, OpenStatuses
  <2>3. QED BY <2>1, <2>2
<1>8. QED
  <2>1. \/ Owning(j)' /\ job'[j].kit = k
        \/ row'[k].status \notin OpenStatuses
    BY <1>3, <1>6, <1>7
  <2>2. QED BY <1>1, <1>2, <1>5, <2>1, OwnerKeptByJob

\* Workers preserve it, and so do the faults that strand no kit.
LEMMA OwnerKeptByWork ==
    ASSUME TypeOK, OpenKitHasOwner, NEW j \in Jobs,
           FaultKinds \cap {"broker_retry", "fail_db"} = {},
           Work(j) \/ JobFault(j)
    PROVE  OpenKitHasOwner'
<1> DEFINE k == job[j].kit
<1>0. job \in [Jobs -> JobRecords] BY DEF TypeOK
<1>1. CASE Load(j) \/ LoadForFail(j)
  <2>1. k \in Kits BY <1>1 DEF TypeOK, Load, LoadForFail
  <2>2. CASE ~Exists(k) \/ IsTerminal(k)
    <3>1. row'[k].status \notin OpenStatuses
      BY <1>1, <2>2 DEF Load, LoadForFail, Exists, IsTerminal, MissingStatuses,
                        OpenStatuses, TerminalStatuses, KitStates
    <3>2. QED BY <1>0, <1>1, <2>1, <2>2, <3>1, OwnerKeptByJob
              DEF Load, LoadForFail, Goto, IsOpen
  <2>3. CASE ~(~Exists(k) \/ IsTerminal(k))
    <3>1. Owning(j)' /\ job'[j].kit = k
      BY <1>0, <1>1, <2>3 DEF Load, LoadForFail, Keep, Owning, Executing, JobRecords
    <3>2. QED BY <1>0, <1>1, <2>1, <2>3, <3>1, OwnerKeptByJob
              DEF Load, LoadForFail, Keep, IsOpen
  <2>4. QED BY <2>2, <2>3
<1>2. ASSUME NEW after \in {"generating", "transient"}, SaveProcessing(j, after)
      PROVE  OpenKitHasOwner'
  <2>1. Owning(j) /\ job[j].loaded.status \in OpenStatuses
    BY <1>2 DEF SaveProcessing, Owning, Executing, TypeOK
  <2>2. QED BY <1>2, <2>1, SavedViews, OwnerKeptBySave DEF SaveProcessing
<1>3. ASSUME NEW after \in {"acking", "transient"}, SaveOutcome(j, after)
      PROVE  OpenKitHasOwner'
  <2>1. Owning(j) /\ job[j].loaded.status \in OpenStatuses
    BY <1>3 DEF SaveOutcome, Owning, Executing, TypeOK
  <2>2. PICK new \in Outcomes(job[j].loaded) : Save(j, new, after, "failing")
    BY <1>3 DEF SaveOutcome
  <2>3. new \in Views /\ new.status \in TerminalStatuses BY SavedViews
  <2>4. QED BY <1>3, <2>1, <2>2, <2>3, OwnerKeptBySave DEF SaveOutcome
<1>4. CASE MarkFailed(j)
  <2> DEFINE new == [job[j].loaded EXCEPT !.status = "failed", !.error = "worker"]
  <2>1. Owning(j) /\ job[j].loaded.status \in OpenStatuses
    BY <1>4 DEF MarkFailed, Owning, Executing, TypeOK
  <2>2. new \in Views /\ new.status \in TerminalStatuses
    BY SavedViews DEF TerminalStatuses, KitStates
  <2>3. Save(j, new, "acking", "acking") /\ UNCHANGED client BY <1>4 DEF MarkFailed
  <2>4. QED BY <2>1, <2>2, <2>3, OwnerKeptBySave
<1>5. CASE Unexpected(j) \/ Exhausted(j) \/ DbError(j)
  <2>1. k \in Kits /\ Owning(j)' /\ job'[j].kit = k
    BY <1>0, <1>5 DEF Unexpected, Exhausted, DbError, Goto, Owning, Executing, JobRecords, TypeOK
  <2>2. QED BY <1>0, <1>5, <2>1, OwnerKeptByJob DEF Unexpected, Exhausted, DbError, Goto, IsOpen
<1>6. ASSUME NEW fresh \in Jobs, Retry(j, fresh) PROVE OpenKitHasOwner'
  <2>1. k \in Kits /\ j # fresh BY <1>6 DEF Retry, TypeOK
  <2>2. Owning(fresh)' /\ job'[fresh].kit = k
    BY <1>0, <1>6, <2>1 DEF Retry, Queued, Owning
  <2>3. \A i \in Jobs : i # j /\ Owning(i) => job'[i] = job[i]
    BY <1>0, <1>6 DEF Retry, Owning, Executing
  <2>4. QED BY <1>6, <2>1, <2>2, <2>3, OwnerKeptByJob DEF Retry, IsOpen
<1>7. CASE Ack(j)
  <2>1. k \in Kits /\ ~Owning(j) BY <1>7 DEF Ack, TypeOK, Owning, Executing
  <2>2. QED BY <1>0, <1>7, <2>1, OwnerKeptByJob DEF Ack, IsOpen
<1>8. CASE WorkerLost(j) \/ WorkerLostAfterRetry(j)
  <2>1. k \in Kits BY <1>8 DEF WorkerLost, WorkerLostAfterRetry, Executing, TypeOK
  <2>2. Owning(j)' /\ job'[j].kit = k
    BY <1>0, <1>8 DEF WorkerLost, WorkerLostAfterRetry, Queued, Owning
  <2>3. QED BY <1>0, <1>8, <2>1, <2>2, OwnerKeptByJob
            DEF WorkerLost, WorkerLostAfterRetry, IsOpen
<1>9. ASSUME NEW fresh \in Jobs, VisibilityTimeout(j, fresh) PROVE OpenKitHasOwner'
  <2>1. k \in Kits /\ j # fresh BY <1>9 DEF VisibilityTimeout, Executing, TypeOK
  <2>2. Owning(fresh)' /\ job'[fresh].kit = k
    BY <1>0, <1>9 DEF VisibilityTimeout, Queued, Owning
  <2>3. \A i \in Jobs : i # j /\ Owning(i) => job'[i] = job[i]
    BY <1>0, <1>9 DEF VisibilityTimeout, Owning, Executing
  <2>4. QED BY <1>9, <2>1, <2>2, <2>3, OwnerKeptByJob DEF VisibilityTimeout, IsOpen
<1>10. ~RetryLost(j) /\ ~FailDbError(j) BY DEF RetryLost, FailDbError, Fault
<1>11. QED BY <1>1, <1>2, <1>3, <1>4, <1>5, <1>6, <1>7, <1>8, <1>9, <1>10
  DEF Work, JobFault, MarkProcessing, Finish, DbErrorAfterCommit

\* A request step preserves it when it closes no publish without a trace.
LEMMA OwnerKeptByClient ==
    ASSUME TypeOK, OpenKitHasOwner, NEW c \in Clients,
           \A d \in Clients : d # c => client'[d] = client[d],
           client[c].pc \notin {"unavailable", "crashed"},
           \A i \in Jobs : Owning(i) => job'[i] = job[i],
           \A k \in Kits : IsOpen(k)' =>
               IsOpen(k) \/ (client'[c].kit = k /\ client'[c].pc = "publishing"),
           client[c].pc = "publishing" =>
               \/ client'[c].kit = client[c].kit /\ client'[c].pc \in {"unavailable", "crashed"}
               \/ \E j \in Jobs : Owning(j)' /\ job'[j].kit = client[c].kit
    PROVE  OpenKitHasOwner'
<1> SUFFICES ASSUME NEW k \in Kits, IsOpen(k)'
             PROVE  \/ \E j \in Jobs : job'[j].kit = k /\ Owning(j)'
                    \/ \E d \in Clients : client'[d].kit = k /\ client'[d].pc = "publishing"
                    \/ PublishFailed(k)'
  BY DEF OpenKitHasOwner
<1>1. CASE client'[c].kit = k /\ client'[c].pc = "publishing" BY <1>1
<1>2. CASE IsOpen(k)
  <2>1. CASE \E j \in Jobs : job[j].kit = k /\ Owning(j)
    BY <2>1 DEF Owning, Executing
  <2>2. CASE PublishFailed(k) BY <2>2 DEF PublishFailed
  <2>3. CASE \E d \in Clients : client[d].kit = k /\ client[d].pc = "publishing"
    <3>1. PICK d \in Clients : client[d].kit = k /\ client[d].pc = "publishing" BY <2>3
    <3>2. CASE d # c BY <3>1, <3>2
    <3>3. CASE d = c BY <3>1, <3>3 DEF PublishFailed
    <3>4. QED BY <3>2, <3>3
  <2>4. QED BY <1>2, <2>1, <2>2, <2>3 DEF OpenKitHasOwner
<1>3. QED BY <1>1, <1>2

\* Requests, handlers and the faults of the API preserve it.
LEMMA OwnerKeptByApi ==
    ASSUME TypeOK, OpenKitHasOwner, NEW c \in Clients,
           Request(c) \/ Handle(c) \/ ApiFault(c)
    PROVE  OpenKitHasOwner'
<1>0. /\ row \in [Kits -> Rows] /\ client \in [Clients -> ClientRecords]
      /\ job \in [Jobs -> JobRecords]
  BY DEF TypeOK
<1>1. ASSUME NEW k \in Kits, NEW p \in Kits \cup {NoKit}, client[c].pc = "idle",
             row' = [row EXCEPT ![k] = NewRow(p)], UNCHANGED job,
             client' = [client EXCEPT ![c].pc = "publishing", ![c].kit = k]
      PROVE  OpenKitHasOwner'
  <2>1. client'[c].kit = k /\ client'[c].pc = "publishing" BY <1>0, <1>1 DEF ClientRecords
  <2>2. \A i \in Kits : i # k => row'[i] = row[i] BY <1>0, <1>1
  <2>3. QED BY <1>0, <1>1, <2>1, <2>2, OwnerKeptByClient DEF IsOpen
<1>2. ASSUME NEW k \in Kits,
             DeleteKit(c, k) \/ NotFound(c, k)
                 \/ \E e \in 0..row[k].revision : OpenEdit(c, k, e)
      PROVE  OpenKitHasOwner'
  <2>1. \A i \in Kits : IsOpen(i)' => IsOpen(i)
    BY <1>0, <1>2 DEF DeleteKit, NotFound, OpenEdit, Missing, IsOpen, OpenStatuses
  <2>2. QED BY <1>0, <1>2, <2>1, OwnerKeptByClient DEF DeleteKit, NotFound, OpenEdit
<1>3. CASE RefuseEdit(c) \/ CommitEdit(c)
  <2>1. row' \in [Kits -> Rows] BY <1>3, HandleType DEF Handle, TypeOK
  <2>2. \A i \in Kits : row'[i].status = row[i].status
    BY <1>0, <1>3 DEF RefuseEdit, CommitEdit, Rows
  <2>3. QED BY <1>0, <1>3, <2>2, OwnerKeptByClient DEF RefuseEdit, CommitEdit, IsOpen
<1>4. ASSUME NEW j \in Jobs, Enqueue(c, j) \/ EnqueueUnconfirmed(c, j)
      PROVE  OpenKitHasOwner'
  <2>1. Owning(j)' /\ job'[j].kit = client[c].kit
    BY <1>0, <1>4 DEF Enqueue, EnqueueUnconfirmed, Queued, Owning
  <2>2. \A i \in Jobs : Owning(i) => job'[i] = job[i]
    BY <1>0, <1>4 DEF Enqueue, EnqueueUnconfirmed, Owning, Executing
  <2>3. QED BY <1>0, <1>4, <2>1, <2>2, OwnerKeptByClient
            DEF Enqueue, EnqueueUnconfirmed, Reply, IsOpen
<1>5. CASE EnqueueUnavailable(c) \/ LoseApi(c)
  <2>1. client[c].pc = "publishing" =>
            client'[c].kit = client[c].kit /\ client'[c].pc \in {"unavailable", "crashed"}
    BY <1>0, <1>5 DEF EnqueueUnavailable, LoseApi, Reply, ClientRecords
  <2>2. QED BY <1>0, <1>5, <2>1, OwnerKeptByClient
            DEF EnqueueUnavailable, LoseApi, Reply, IsOpen
<1>6. CASE Request(c) BY <1>1, <1>2, <1>6 DEF Request, SubmitKit, RegenerateKit
<1>7. QED BY <1>3, <1>4, <1>5, <1>6 DEF Handle, ApiFault

\* Unless a retry cannot be published or a failure cannot be recorded, an open
\* kit always has somebody who will still work on it, or its publish failed.
THEOREM NobodyForgotten ==
    ASSUME FaultKinds \cap {"broker_retry", "fail_db"} = {}
    PROVE  Spec => []OpenKitHasOwner
<1>1. Init => OpenKitHasOwner
  BY DEF Init, OpenKitHasOwner, IsOpen, Missing, OpenStatuses
<1>2. TypeOK /\ OpenKitHasOwner /\ [Next]_vars => OpenKitHasOwner'
  <2> SUFFICES ASSUME TypeOK, OpenKitHasOwner, [Next]_vars PROVE OpenKitHasOwner'
    OBVIOUS
  <2>1. CASE UNCHANGED vars
    BY <2>1 DEF vars, OpenKitHasOwner, IsOpen, Owning, Executing, PublishFailed
  <2>2. CASE Next
    BY <2>1, <2>2, OwnerKeptByApi, OwnerKeptByWork DEF Next, Quiescent
  <2>3. QED BY <2>1, <2>2
<1>3. QED BY <1>1, <1>2, TypeCorrect, PTL DEF Spec

-----------------------------------------------------------------------------
(***************************************************************************)
(* The rest assumes that no two deliveries of one task are ever alive at   *)
(* once ("overlap" is not among the faults): then a finished kit is never  *)
(* reprocessed, no applied change batch is lost, and KitLifecycle          *)
(* implements KitContract.                                                 *)
(***************************************************************************)

(* The inductive invariant *)

\* A delivery that will still act, or be requeued if its worker dies.
Active(j) == Owning(j) \/ job[j].pc = "acking"
\* A worker that holds a snapshot of its kit.
Holding(j) == job[j].pc \in {"loaded", "generating", "fail_loaded"}

\* A kit has one publisher or one active delivery, never two of them.
SoleCopy ==
    /\ \A i, j \in Jobs : i # j /\ Active(i) /\ Active(j) => job[i].kit # job[j].kit
    /\ \A c \in Clients, j \in Jobs :
           client[c].pc = "publishing" /\ Active(j) => client[c].kit # job[j].kit
    /\ \A c, d \in Clients :
           c # d /\ client[c].pc = "publishing" /\ client[d].pc = "publishing"
               => client[c].kit # client[d].kit
    /\ \A j \in Jobs : Active(j) => row[job[j].kit].status # "unborn"

\* So a snapshot is never stale.
SnapshotCurrent ==
    \A j \in Jobs : Holding(j) /\ Exists(job[j].kit) => View(row[job[j].kit]) = job[j].loaded

\* A request between its checks and its UPDATE saw the result it will replace,
\* unless the revision moved on.
EditsHonest ==
    \A c \in Clients, k \in Kits :
        client[c].pc = "editing" /\ client[c].kit = k /\ Exists(k) =>
            /\ IsTerminal(k) /\ row[k].error = "none"
            /\ row[k].result.state \in ActionableStates
            /\ client[c].seen.state = row[k].result.state
            /\ client[c].expected <= row[k].revision
            /\ client[c].expected = row[k].revision => client[c].seen = row[k].result

\* A result contains applied batches only.
EditsApplied == \A k \in Kits : \A c \in row[k].result.edits : Applied(c, k)

MissingRows == \A k \in Kits : ~Exists(k) => row[k] = Missing(row[k].status)

\* RowConsistent, of a view.
Consistent(v) ==
    /\ v.status \in OpenStatuses => v.result = NoResult /\ v.error = "none"
    /\ v.status \in TerminalStatuses /\ v.error = "none" => v.result.state = v.status
    /\ v.status \in TerminalStatuses /\ v.error # "none" => v.result = NoResult

ViewsConsistent == \A k \in Kits : Exists(k) => Consistent(View(row[k]))

RowsInv == EditsHonest /\ EditsApplied /\ MissingRows /\ ViewsConsistent /\ NoEditLost
SingleInv == HistoryInv /\ SoleCopy /\ SnapshotCurrent /\ RowsInv

\* RowConsistent is ViewsConsistent.
LEMMA RowsAreConsistent == ViewsConsistent => RowConsistent
BY DEF ViewsConsistent, Consistent, RowConsistent, View, IsOpen, IsTerminal

\* A flush of a current snapshot writes exactly the new view.
LEMMA FlushCurrent ==
    ASSUME NEW r \in Rows, NEW new \in Views
    PROVE  LET f == Flush(r, View(r), new)
           IN  /\ View(f) = new /\ f.revision = r.revision /\ f.parent = r.parent
               /\ f.status = new.status /\ f.result = new.result /\ f.error = new.error
BY DEF Flush, View, Rows, Views

\* What a worker writes over a consistent open view is consistent and contains
\* no batch.
LEMMA SavedConsistent ==
    ASSUME NEW v \in Views, v.status \in OpenStatuses, Consistent(v)
    PROVE  /\ Consistent([v EXCEPT !.status = "processing"])
           /\ [v EXCEPT !.status = "processing"].result.edits = {}
           /\ Consistent([v EXCEPT !.status = "failed", !.error = "worker"])
           /\ [v EXCEPT !.status = "failed", !.error = "worker"].result.edits = {}
           /\ \A new \in Outcomes(v) : Consistent(new) /\ new.result.edits = {}
<1>1. v.result = NoResult /\ v.error = "none" BY DEF Consistent
<1>2. NoResult.edits = {} BY DEF NoResult
<1>3. /\ Consistent([v EXCEPT !.status = "processing"])
      /\ [v EXCEPT !.status = "processing"].result.edits = {}
  BY <1>1, <1>2 DEF Consistent, Views, OpenStatuses, TerminalStatuses, KitStates
<1>4. /\ Consistent([v EXCEPT !.status = "failed", !.error = "worker"])
      /\ [v EXCEPT !.status = "failed", !.error = "worker"].result.edits = {}
  BY <1>1, <1>2 DEF Consistent, Views, OpenStatuses, TerminalStatuses, KitStates
<1>5. ASSUME NEW new \in Outcomes(v) PROVE Consistent(new) /\ new.result.edits = {}
  <2>1. CASE \E s \in KitStates :
               new = [status |-> s, result |-> FreshResult(s), error |-> "none"]
    BY <2>1 DEF Consistent, FreshResult, OpenStatuses, KitStates
  <2>2. CASE new = [v EXCEPT !.status = "needs_input_review", !.error = "suspect"]
    BY <1>1, <1>2, <2>2 DEF Consistent, Views, OpenStatuses, KitStates
  <2>3. CASE new = [v EXCEPT !.status = "failed", !.error = "engine"]
    BY <1>1, <1>2, <2>3 DEF Consistent, Views, OpenStatuses, KitStates
  <2>4. QED BY <1>5, <2>1, <2>2, <2>3 DEF Outcomes
<1>6. QED BY <1>3, <1>4, <1>5

-----------------------------------------------------------------------------
(* Workers *)

\* Two deliveries of one kit cannot arise from a step of delivery j that
\* activates at most one delivery for its kit, itself or a successor.
LEMMA SoleKept ==
    ASSUME TypeOK, SoleCopy, NEW j \in Jobs, job[j].pc # "free", UNCHANGED client,
           \A k \in Kits : row'[k].status = "unborn" => row[k].status = "unborn",
           NEW i \in Jobs,
           \A d \in Jobs : d # i => (Active(d)' => Active(d) /\ job'[d] = job[d] /\ d # j),
           Active(i)' => Active(j) /\ job'[i].kit = job[j].kit
    PROVE  SoleCopy'
<1>1. job[j].kit \in Kits BY DEF TypeOK
<1>2. \A d \in Jobs : Active(d) => job[d].kit \in Kits
  BY DEF TypeOK, Active, Owning, Executing
<1>3. QED BY <1>1, <1>2 DEF SoleCopy

\* Steps of a worker that write no row, and the faults other than overlap.
LEMMA ControlStep ==
    ASSUME TypeOK, SingleInv, "overlap" \notin FaultKinds, NEW j \in Jobs,
           \/ Load(j) \/ LoadForFail(j) \/ Unexpected(j) \/ Exhausted(j) \/ Ack(j)
           \/ DbError(j) \/ RetryLost(j) \/ FailDbError(j)
           \/ WorkerLost(j) \/ WorkerLostAfterRetry(j)
           \/ \E fresh \in Jobs : Retry(j, fresh) \/ VisibilityTimeout(j, fresh)
    PROVE  UNCHANGED <<row, client>> /\ SoleCopy' /\ SnapshotCurrent'
<1>0. /\ job \in [Jobs -> JobRecords] /\ SoleCopy /\ SnapshotCurrent
  BY DEF TypeOK, SingleInv
<1>1. UNCHANGED <<row, client>>
  BY DEF Load, LoadForFail, Unexpected, Exhausted, Ack, DbError, RetryLost, FailDbError,
         WorkerLost, WorkerLostAfterRetry, Retry, VisibilityTimeout
<1>2. ASSUME NEW pc \in JobStates \ {"loaded", "generating", "fail_loaded"}, Goto(j, pc),
             Active(j)
      PROVE  SoleCopy' /\ SnapshotCurrent'
  <2>1. /\ job'[j].kit = job[j].kit /\ job'[j].pc = pc
        /\ \A d \in Jobs : d # j => job'[d] = job[d]
    BY <1>0, <1>2 DEF Goto, JobRecords
  <2>2. SoleCopy'
    BY <1>0, <1>1, <1>2, <2>1, SoleKept DEF Active, Owning, Executing
  <2>3. SnapshotCurrent'
    BY <1>0, <1>1, <1>2, <2>1 DEF SnapshotCurrent, Holding, Exists, View
  <2>4. QED BY <2>2, <2>3
<1>3. ASSUME NEW pc \in {"loaded", "fail_loaded"}, Keep(j, pc, View(row[job[j].kit])),
             Active(j)
      PROVE  SoleCopy' /\ SnapshotCurrent'
  <2>1. /\ job'[j].kit = job[j].kit /\ job'[j].pc = pc
        /\ job'[j].loaded = View(row[job[j].kit])
        /\ \A d \in Jobs : d # j => job'[d] = job[d]
    BY <1>0, <1>3 DEF Keep, JobRecords
  <2>2. SoleCopy'
    BY <1>0, <1>1, <1>3, <2>1, SoleKept DEF Active, Owning, Executing
  <2>3. SnapshotCurrent'
    BY <1>0, <1>1, <1>3, <2>1 DEF SnapshotCurrent, Holding, Exists, View
  <2>4. QED BY <2>2, <2>3
<1>4. CASE Load(j) \/ LoadForFail(j)
  <2>1. Active(j) BY <1>4 DEF Load, LoadForFail, Active, Owning, Executing
  <2>2. CASE Goto(j, "acking") BY <1>1, <1>2, <2>1, <2>2 DEF JobStates
  <2>3. CASE ~Goto(j, "acking") BY <1>1, <1>3, <1>4, <2>1, <2>3 DEF Load, LoadForFail
  <2>4. QED BY <2>2, <2>3
<1>5. CASE Unexpected(j) \/ Exhausted(j) \/ DbError(j) \/ RetryLost(j) \/ FailDbError(j)
  <2>1. Active(j)
    BY <1>5 DEF Unexpected, Exhausted, DbError, RetryLost, FailDbError, Active, Owning, Executing
  <2>2. QED BY <1>1, <1>2, <1>5, <2>1
            DEF Unexpected, Exhausted, DbError, RetryLost, FailDbError, JobStates
<1>6. CASE Ack(j)
  <2>1. /\ job'[j].pc = "free"
        /\ \A d \in Jobs : d # j => job'[d] = job[d]
    BY <1>0, <1>6 DEF Ack, FreeJob
  <2>2. job[j].pc # "free" BY <1>6 DEF Ack
  <2>3. SoleCopy' BY <1>0, <1>1, <2>1, <2>2, SoleKept DEF Active, Owning, Executing
  <2>4. SnapshotCurrent' BY <1>0, <1>1, <2>1 DEF SnapshotCurrent, Holding, Exists, View
  <2>5. QED BY <1>1, <2>3, <2>4
<1>7. CASE WorkerLost(j)
  <2>1. /\ job'[j].pc = "queued" /\ job'[j].kit = job[j].kit /\ Active(j)
        /\ \A d \in Jobs : d # j => job'[d] = job[d]
    BY <1>0, <1>7 DEF WorkerLost, Queued, Active, Owning
  <2>2. job[j].pc # "free" BY <1>7 DEF WorkerLost, Executing
  <2>3. SoleCopy' BY <1>0, <1>1, <2>1, <2>2, SoleKept DEF Active, Owning, Executing
  <2>4. SnapshotCurrent' BY <1>0, <1>1, <2>1 DEF SnapshotCurrent, Holding, Exists, View
  <2>5. QED BY <1>1, <2>3, <2>4
<1>8. ASSUME NEW fresh \in Jobs, Retry(j, fresh) PROVE SoleCopy' /\ SnapshotCurrent'
  <2>1. /\ job'[fresh].pc = "queued" /\ job'[fresh].kit = job[j].kit /\ Active(j)
        /\ job'[j].pc = "retried" /\ j # fresh /\ job[j].pc # "free"
        /\ \A d \in Jobs : d \notin {j, fresh} => job'[d] = job[d]
    BY <1>0, <1>8 DEF Retry, Queued, Active, Owning, Executing, JobRecords
  <2>2. SoleCopy' BY <1>0, <1>1, <2>1, SoleKept DEF Active, Owning, Executing
  <2>3. SnapshotCurrent' BY <1>0, <1>1, <2>1 DEF SnapshotCurrent, Holding, Exists, View
  <2>4. QED BY <2>2, <2>3
<1>9. ~WorkerLostAfterRetry(j) /\ \A fresh \in Jobs : ~VisibilityTimeout(j, fresh)
  BY DEF WorkerLostAfterRetry, VisibilityTimeout, Fault
<1>10. QED BY <1>1, <1>4, <1>5, <1>6, <1>7, <1>8, <1>9

\* A commit by a worker whose snapshot is current writes its own kit, which was
\* open, or nothing at all.
LEMMA CommitLands ==
    ASSUME TypeOK, SingleInv, NEW j \in Jobs, Holding(j), NEW new \in Views,
           NEW after \in {"generating", "transient", "acking"},
           NEW stale \in {"failing", "acking"}, Save(j, new, after, stale),
           after = "generating" => new.status \in OpenStatuses
    PROVE  LET k == job[j].kit IN
           /\ k \in Kits
           /\ \A i \in Kits : i # k => row'[i] = row[i]
           /\ Exists(k) => /\ row[k].status \in OpenStatuses
                           /\ View(row[k]) = job[j].loaded
                           /\ View(row'[k]) = new
                           /\ row'[k].status = new.status /\ row'[k].error = new.error
                           /\ row'[k].result = new.result
                           /\ row'[k].revision = row[k].revision
           /\ ~Exists(k) => row' = row
           /\ job'[j].kit = k /\ job'[j].pc \in {after, stale}
           /\ job'[j].pc = "generating" /\ Exists(k)' => View(row'[k]) = job'[j].loaded
           /\ \A d \in Jobs : d # j => job'[d] = job[d]
<1> DEFINE k == job[j].kit
           old == job[j].loaded
           f == Flush(row[k], old, new)
<1>1. /\ k \in Kits /\ old \in Views /\ row \in [Kits -> Rows] /\ row[k] \in Rows
      /\ job \in [Jobs -> JobRecords] /\ old.status \in OpenStatuses
  BY DEF TypeOK, JobRecords, Holding
<1>2. Exists(k) => View(row[k]) = old /\ row[k].status \in OpenStatuses
  <2>1. Exists(k) => View(row[k]) = old BY <1>1 DEF SingleInv, SnapshotCurrent
  <2>2. View(row[k]).status = row[k].status BY DEF View
  <2>3. QED BY <1>1, <2>1, <2>2
<1>3. /\ \A i \in Kits : i # k => row'[i] = row[i]
      /\ job'[j].kit = k /\ job'[j].pc \in {after, stale}
      /\ \A d \in Jobs : d # j => job'[d] = job[d]
  BY <1>1 DEF Save, Keep, Goto, JobRecords
<1>4. Exists(k) => /\ View(row'[k]) = new
                   /\ row'[k].status = new.status /\ row'[k].error = new.error
                   /\ row'[k].result = new.result /\ row'[k].revision = row[k].revision
  <2> SUFFICES ASSUME Exists(k)
               PROVE  /\ View(row'[k]) = new
                      /\ row'[k].status = new.status /\ row'[k].error = new.error
                      /\ row'[k].result = new.result /\ row'[k].revision = row[k].revision
    OBVIOUS
  <2>1. row'[k] = f BY <1>1 DEF Save
  <2>2. f = Flush(row[k], View(row[k]), new) BY <1>2
  <2>3. QED BY <1>1, <2>1, <2>2, FlushCurrent
<1>5. ~Exists(k) => row' = row
  <2> SUFFICES ASSUME ~Exists(k) PROVE row' = row OBVIOUS
  <2>1. CASE new = old
    <3>1. f = row[k] BY <1>1, <2>1, FlushNothing
    <3>2. QED BY <1>1, <2>1, <3>1 DEF Save
  <2>2. CASE new # old BY <2>2 DEF Save
  <2>3. QED BY <2>1, <2>2
<1>6. job'[j].pc = "generating" /\ row'[k].status \notin MissingStatuses
            => View(row'[k]) = job'[j].loaded
  <2>1. CASE Exists(k)
    <3>1. job'[j].pc = after /\ (after = "generating" => job'[j].loaded = new)
      BY <1>1, <2>1 DEF Save, Keep, JobRecords
    <3>2. QED BY <1>4, <2>1, <3>1
  <2>2. CASE ~Exists(k) BY <1>5, <2>2 DEF Exists
  <2>3. QED BY <2>1, <2>2
<1>7. QED BY <1>1, <1>2, <1>3, <1>4, <1>5, <1>6 DEF Exists

\* Such a commit preserves the invariant.
LEMMA CommitStep ==
    ASSUME TypeOK, SingleInv, NEW j \in Jobs, Holding(j), UNCHANGED client,
           NEW new \in Views, new.status \notin MissingStatuses,
           Consistent(job[j].loaded) => Consistent(new) /\ new.result.edits = {},
           NEW after \in {"generating", "transient", "acking"},
           NEW stale \in {"failing", "acking"}, Save(j, new, after, stale),
           after = "generating" => new.status \in OpenStatuses
    PROVE  SoleCopy' /\ SnapshotCurrent' /\ RowsInv'
<1>1. PICK k \in Kits :
        /\ k = job[j].kit
        /\ \A i \in Kits : i # k => row'[i] = row[i]
        /\ Exists(k) => /\ row[k].status \in OpenStatuses
                        /\ View(row[k]) = job[j].loaded
                        /\ View(row'[k]) = new
                        /\ row'[k].status = new.status /\ row'[k].error = new.error
                        /\ row'[k].result = new.result
                        /\ row'[k].revision = row[k].revision
        /\ ~Exists(k) => row' = row
        /\ job'[j].kit = k /\ job'[j].pc \in {after, stale}
        /\ job'[j].pc = "generating" /\ row'[k].status \notin MissingStatuses
               => View(row'[k]) = job'[j].loaded
        /\ \A d \in Jobs : d # j => job'[d] = job[d]
  BY CommitLands DEF Exists
<1>2. \A i \in Kits : row'[i].status \in MissingStatuses <=> row[i].status \in MissingStatuses
  BY <1>1 DEF Exists
<1>3. \A i \in Kits : row'[i].status = "unborn" => row[i].status = "unborn"
  BY <1>1, <1>2 DEF Exists, MissingStatuses
<1>4. Active(j) /\ job[j].pc # "free" BY DEF Holding, Active, Owning, Executing
<1>5. SoleCopy'
  <2>1. Active(j)' => job'[j].kit = job[j].kit BY <1>1
  <2>2. \A d \in Jobs : d # j => (Active(d)' => Active(d) /\ job'[d] = job[d] /\ d # j)
    BY <1>1 DEF Active, Owning, Executing
  <2>3. QED BY <1>3, <1>4, <2>1, <2>2, SoleKept DEF SingleInv
<1>6. SnapshotCurrent'
  <2> SUFFICES ASSUME NEW d \in Jobs, Holding(d)', row'[job'[d].kit].status \notin MissingStatuses
               PROVE  View(row'[job'[d].kit]) = job'[d].loaded
    BY DEF SnapshotCurrent, Exists
  <2>1. CASE d = j BY <1>1, <2>1 DEF Holding
  <2>2. CASE d # j
    <3>1. Holding(d) /\ job'[d] = job[d] BY <1>1, <2>2 DEF Holding
    <3>2. job[d].kit \in Kits /\ job[d].kit # k
      BY <1>1, <1>4, <2>2, <3>1 DEF TypeOK, SingleInv, SoleCopy, Active, Owning, Executing, Holding
    <3>3. QED BY <1>1, <3>1, <3>2 DEF SingleInv, SnapshotCurrent, Exists
  <2>3. QED BY <2>1, <2>2
<1>7. CASE ~Exists(k)
  <2>1. row' = row BY <1>1, <1>7
  <2>2. QED BY <1>5, <1>6, <2>1
    DEF SingleInv, RowsInv, EditsHonest, EditsApplied, MissingRows, ViewsConsistent,
        NoEditLost, Exists, IsTerminal, View, Applied
<1>8. CASE Exists(k)
  <2>1. Consistent(View(row[k])) BY <1>8 DEF SingleInv, RowsInv, ViewsConsistent
  <2>2. Consistent(new) /\ new.result.edits = {} BY <1>1, <1>8, <2>1
  <2>3. row[k].result.edits = {}
    <3>1. row[k].status \in OpenStatuses BY <1>1, <1>8
    <3>2. row[k].result = NoResult BY <2>1, <3>1 DEF Consistent, View
    <3> QED BY <3>2 DEF NoResult
  <2>4. \A c \in Clients : ~Applied(c, k)
    BY <1>8, <2>3 DEF SingleInv, RowsInv, NoEditLost
  <2>5. \A c \in Clients : ~(client[c].pc = "editing" /\ client[c].kit = k)
    BY <1>1, <1>8 DEF SingleInv, RowsInv, EditsHonest, IsTerminal, OpenStatuses,
                      TerminalStatuses, KitStates
  <2>6. EditsHonest'
    BY <1>1, <2>5 DEF SingleInv, RowsInv, EditsHonest, Exists, IsTerminal
  <2>7. EditsApplied'
    <3>1. ASSUME NEW i \in Kits, NEW c \in row'[i].result.edits PROVE Applied(c, i)'
      <4>1. i # k BY <1>1, <1>8, <2>2, <3>1
      <4>2. QED BY <1>1, <3>1, <4>1 DEF SingleInv, RowsInv, EditsApplied, Applied
    <3>2. QED BY <3>1 DEF EditsApplied
  <2>8. MissingRows'
    BY <1>1, <1>2, <1>8 DEF SingleInv, RowsInv, MissingRows, Exists
  <2>9. ViewsConsistent'
    <3>1. ASSUME NEW i \in Kits, row'[i].status \notin MissingStatuses
          PROVE  Consistent(View(row'[i]))
      <4>1. CASE i = k BY <1>1, <1>8, <2>2, <4>1
      <4>2. CASE i # k BY <1>1, <3>1, <4>2 DEF SingleInv, RowsInv, ViewsConsistent, Exists
      <4>3. QED BY <4>1, <4>2
    <3>2. QED BY <3>1 DEF ViewsConsistent, Exists, Consistent, View
  <2>10. NoEditLost'
    BY <1>1, <2>4 DEF SingleInv, RowsInv, NoEditLost, Applied, Exists
  <2>11. QED BY <1>5, <1>6, <2>6, <2>7, <2>8, <2>9, <2>10 DEF RowsInv
<1>9. QED BY <1>7, <1>8

\* Every step of a worker preserves the invariant.
LEMMA JobSingle ==
    ASSUME TypeOK, SingleInv, "overlap" \notin FaultKinds, NEW j \in Jobs,
           Work(j) \/ JobFault(j)
    PROVE  SoleCopy' /\ SnapshotCurrent' /\ RowsInv'
<1>0. job[j].loaded \in Views BY DEF TypeOK, JobRecords
<1>1. ASSUME NEW after \in {"generating", "transient"}, SaveProcessing(j, after)
      PROVE  SoleCopy' /\ SnapshotCurrent' /\ RowsInv'
  <2> DEFINE new == [job[j].loaded EXCEPT !.status = "processing"]
  <2>1. /\ Holding(j) /\ job[j].loaded.status \in OpenStatuses
        /\ Save(j, new, after, "failing") /\ UNCHANGED client
    BY <1>1 DEF SaveProcessing, Holding, TypeOK
  <2>2. new \in Views /\ new.status \notin MissingStatuses /\ new.status \in OpenStatuses
    BY SavedViews DEF MissingStatuses, OpenStatuses
  <2>3. Consistent(job[j].loaded) => Consistent(new) /\ new.result.edits = {}
    BY <1>0, <2>1, SavedConsistent
  <2> HIDE DEF new
  <2>4. QED BY <2>1, <2>2, <2>3, CommitStep
<1>2. ASSUME NEW after \in {"acking", "transient"}, SaveOutcome(j, after)
      PROVE  SoleCopy' /\ SnapshotCurrent' /\ RowsInv'
  <2>1. Holding(j) /\ job[j].loaded.status \in OpenStatuses /\ UNCHANGED client
    BY <1>2 DEF SaveOutcome, Holding, TypeOK
  <2>2. PICK new \in Outcomes(job[j].loaded) : Save(j, new, after, "failing")
    BY <1>2 DEF SaveOutcome
  <2>3. new \in Views /\ new.status \notin MissingStatuses
    BY SavedViews DEF MissingStatuses, TerminalStatuses, KitStates
  <2>4. Consistent(job[j].loaded) => Consistent(new) /\ new.result.edits = {}
    BY <1>0, <2>1, SavedConsistent
  <2>5. QED BY <2>1, <2>2, <2>3, <2>4, CommitStep
<1>3. CASE MarkFailed(j)
  <2> DEFINE new == [job[j].loaded EXCEPT !.status = "failed", !.error = "worker"]
  <2>1. /\ Holding(j) /\ job[j].loaded.status \in OpenStatuses
        /\ Save(j, new, "acking", "acking") /\ UNCHANGED client
    BY <1>3 DEF MarkFailed, Holding, TypeOK
  <2>2. new \in Views /\ new.status \notin MissingStatuses
    BY SavedViews DEF MissingStatuses
  <2>3. Consistent(job[j].loaded) => Consistent(new) /\ new.result.edits = {}
    BY <1>0, <2>1, SavedConsistent
  <2> HIDE DEF new
  <2>4. QED BY <2>1, <2>2, <2>3, CommitStep
<1>4. ASSUME UNCHANGED <<row, client>>, SoleCopy', SnapshotCurrent'
      PROVE  SoleCopy' /\ SnapshotCurrent' /\ RowsInv'
  BY <1>4 DEF SingleInv, RowsInv, EditsHonest, EditsApplied, MissingRows, ViewsConsistent,
              NoEditLost, Exists, IsTerminal, View, Applied
<1>5. QED BY <1>1, <1>2, <1>3, <1>4, ControlStep
          DEF Work, JobFault, MarkProcessing, Finish, DbErrorAfterCommit

-----------------------------------------------------------------------------
(* Requests *)

\* A request that creates a row.
LEMMA CreateSingle ==
    ASSUME TypeOK, SingleInv, NEW c \in Clients, NEW k \in Kits, NEW p \in Kits \cup {NoKit},
           client[c].pc = "idle", row[k].status = "unborn", UNCHANGED job,
           row' = [row EXCEPT ![k] = NewRow(p)],
           client' = [client EXCEPT ![c].pc = "publishing", ![c].kit = k]
    PROVE  SoleCopy' /\ SnapshotCurrent' /\ RowsInv'
<1>0. /\ row \in [Kits -> Rows] /\ client \in [Clients -> ClientRecords]
      /\ \A i \in Jobs : Active(i) => job[i].kit \in Kits
  BY DEF TypeOK, Active, Owning, Executing
<1>1. /\ row'[k] = NewRow(p) /\ \A i \in Kits : i # k => row'[i] = row[i]
      /\ client'[c].pc = "publishing" /\ client'[c].kit = k
      /\ \A d \in Clients : d # c => client'[d] = client[d]
  BY <1>0 DEF ClientRecords
<1>2. /\ NewRow(p).status = "pending" /\ NewRow(p).result = NoResult
      /\ NewRow(p).error = "none" /\ NoResult.edits = {}
  BY DEF NewRow, NoResult
<1>3. \A d \in Clients : client[d].kit # k BY DEF SingleInv, HistoryInv
<1>4. \A i \in Jobs : Active(i) => job[i].kit # k BY <1>0 DEF SingleInv, SoleCopy
<1>5. \A i \in Jobs : Holding(i) => job[i].kit \in Kits /\ job[i].kit # k
  BY <1>0, <1>4 DEF Holding, Active, Owning, Executing
<1>6. \A i \in Jobs : Active(i)' <=> Active(i) BY DEF Active, Owning, Executing
<1>7. SoleCopy'
  BY <1>0, <1>1, <1>2, <1>3, <1>4, <1>6 DEF SingleInv, SoleCopy
<1>8. SnapshotCurrent'
  BY <1>1, <1>5 DEF SingleInv, SnapshotCurrent, Holding, Exists
<1>9. EditsHonest'
  <2> SUFFICES ASSUME NEW d \in Clients, NEW i \in Kits, client'[d].pc = "editing",
                      client'[d].kit = i, Exists(i)'
               PROVE  /\ IsTerminal(i)' /\ row'[i].error = "none"
                      /\ row'[i].result.state \in ActionableStates
                      /\ client'[d].seen.state = row'[i].result.state
                      /\ client'[d].expected <= row'[i].revision
                      /\ client'[d].expected = row'[i].revision
                             => client'[d].seen = row'[i].result
    BY DEF EditsHonest
  <2>1. d # c /\ client'[d] = client[d] BY <1>1
  <2>2. i # k BY <1>3, <2>1
  <2>3. row'[i] = row[i] /\ Exists(i) BY <1>1, <2>2 DEF Exists
  <2>4. QED BY <2>1, <2>3 DEF SingleInv, RowsInv, EditsHonest, IsTerminal
<1>10. EditsApplied'
  <2>1. ASSUME NEW i \in Kits, NEW d \in row'[i].result.edits PROVE Applied(d, i)'
    <3>1. i # k BY <1>1, <1>2, <2>1
    <3>2. Applied(d, i) /\ d \in Clients
      BY <1>0, <1>1, <2>1, <3>1 DEF SingleInv, RowsInv, EditsApplied, Rows, Results
    <3>3. QED BY <1>1, <3>2 DEF Applied
  <2>2. QED BY <2>1 DEF EditsApplied
<1>11. MissingRows'
  BY <1>1, <1>2 DEF SingleInv, RowsInv, MissingRows, Exists, MissingStatuses
<1>12. ViewsConsistent'
  <2>1. Consistent(View(NewRow(p)))
    BY <1>2 DEF Consistent, View, OpenStatuses, TerminalStatuses, KitStates
  <2>2. QED BY <1>1, <2>1 DEF SingleInv, RowsInv, ViewsConsistent, Exists, Consistent, View
<1>13. NoEditLost'
  <2>1. \A d \in Clients : ~Applied(d, k)' BY <1>1, <1>3 DEF Applied
  <2>2. \A d \in Clients, i \in Kits : i # k /\ Applied(d, i)' => Applied(d, i)
    BY <1>1 DEF Applied
  <2>3. QED BY <1>1, <2>1, <2>2 DEF SingleInv, RowsInv, NoEditLost, Exists
<1>14. QED BY <1>7, <1>8, <1>9, <1>10, <1>11, <1>12, <1>13 DEF RowsInv

\* A step of a request that writes no row, publishes nothing and is not the
\* UPDATE of a change batch.
LEMMA QuietSingle ==
    ASSUME TypeOK, SingleInv, NEW c \in Clients, UNCHANGED <<row, job>>,
           \A d \in Clients : d # c => client'[d] = client[d],
           client[c].pc # "applied", client'[c].pc \notin {"applied", "publishing"},
           client'[c].pc = "editing" =>
               \A k \in Kits : client'[c].kit = k /\ Exists(k) =>
                   /\ row[k].result.state \in ActionableStates
                   /\ client'[c].expected = row[k].revision
                   /\ client'[c].seen = row[k].result
    PROVE  SoleCopy' /\ SnapshotCurrent' /\ RowsInv'
<1>1. SoleCopy' BY DEF SingleInv, SoleCopy, Active, Owning, Executing
<1>2. SnapshotCurrent' BY DEF SingleInv, SnapshotCurrent, Holding, Exists, View
<1>3. \A d \in Clients, k \in Kits : Applied(d, k)' <=> Applied(d, k) BY DEF Applied
<1>4. EditsHonest'
  <2> SUFFICES ASSUME NEW d \in Clients, NEW k \in Kits, client'[d].pc = "editing",
                      client'[d].kit = k, Exists(k)
               PROVE  /\ IsTerminal(k) /\ row[k].error = "none"
                      /\ row[k].result.state \in ActionableStates
                      /\ client'[d].seen.state = row[k].result.state
                      /\ client'[d].expected <= row[k].revision
                      /\ client'[d].expected = row[k].revision => client'[d].seen = row[k].result
    BY DEF EditsHonest, Exists, IsTerminal
  <2>1. CASE d # c BY <2>1 DEF SingleInv, RowsInv, EditsHonest
  <2>2. CASE d = c
    <3>1. /\ row[k].result.state \in ActionableStates
          /\ client'[d].expected = row[k].revision /\ client'[d].seen = row[k].result
      BY <2>2
    <3>2. row[k] \in Rows /\ Consistent(View(row[k]))
      BY DEF TypeOK, SingleInv, RowsInv, ViewsConsistent
    <3>3. row[k].result # NoResult
      BY <3>1 DEF NoResult, ActionableStates, KitStates
    <3>4. row[k].status \in TerminalStatuses /\ row[k].error = "none"
      BY <3>2, <3>3 DEF Consistent, View, Rows, Exists
    <3>5. row[k].revision <= row[k].revision BY <3>2 DEF Rows
    <3>6. QED BY <3>1, <3>4, <3>5 DEF IsTerminal
  <2>3. QED BY <2>1, <2>2
<1>5. EditsApplied' /\ MissingRows' /\ ViewsConsistent' /\ NoEditLost'
  <2>1. EditsApplied'
    <3>1. \A k \in Kits : \A d \in row[k].result.edits : d \in Clients
      BY DEF TypeOK, Rows, Results
    <3>2. QED BY <1>3, <3>1 DEF SingleInv, RowsInv, EditsApplied
  <2>2. QED BY <1>3, <2>1 DEF SingleInv, RowsInv, MissingRows, ViewsConsistent,
                              NoEditLost, Exists, Consistent, View
<1>6. QED BY <1>1, <1>2, <1>4, <1>5 DEF RowsInv

\* The UPDATE of a change batch: the result it writes is the one the row holds,
\* plus the batch.
LEMMA UpdateSingle ==
    ASSUME TypeOK, SingleInv, NEW c \in Clients, CommitEdit(c),
           Exists(client[c].kit), row[client[c].kit].revision = client[c].expected
    PROVE  SoleCopy' /\ SnapshotCurrent' /\ RowsInv'
<1>1. PICK k \in Kits : k = client[c].kit /\ row[k] \in Rows /\ row[k].revision \in Nat
  BY DEF TypeOK, CommitEdit, ClientRecords, Rows
<1>0. /\ row \in [Kits -> Rows] /\ client \in [Clients -> ClientRecords]
      /\ \A i \in Jobs : Active(i) => job[i].kit \in Kits
      /\ \A i \in Jobs : Holding(i) => job[i].loaded.status \in OpenStatuses
  BY DEF TypeOK, Active, Owning, Executing, Holding
<1>2. /\ IsTerminal(k) /\ row[k].error = "none"
      /\ row[k].result.state \in ActionableStates /\ client[c].seen = row[k].result
      /\ client[c].pc = "editing"
  BY <1>1 DEF CommitEdit, SingleInv, RowsInv, EditsHonest
<1>3. /\ row'[k].status = row[k].status /\ row'[k].error = row[k].error
      /\ row'[k].result.state = row[k].result.state
      /\ row'[k].result.edits = row[k].result.edits \cup {c}
      /\ row'[k].revision = row[k].revision + 1
      /\ \A i \in Kits : i # k => row'[i] = row[i]
  BY <1>0, <1>1, <1>2 DEF CommitEdit, Rows, Results
<1>4. /\ client'[c].pc = "applied" /\ client'[c].kit = k
      /\ \A d \in Clients : d # c => client'[d] = client[d]
      /\ UNCHANGED job
  BY <1>0, <1>1 DEF CommitEdit, ClientRecords
<1>5. \A i \in Kits : Exists(i)' <=> Exists(i) BY <1>3 DEF Exists
<1>6. SoleCopy'
  BY <1>0, <1>3, <1>4 DEF SingleInv, SoleCopy, Active, Owning, Executing
<1>7. SnapshotCurrent'
  <2>1. \A i \in Jobs : Holding(i) => job[i].kit \in Kits
    BY <1>0 DEF Holding, Active, Owning, Executing
  <2>2. \A i \in Jobs : Holding(i) => job[i].kit # k
    <3> SUFFICES ASSUME NEW i \in Jobs, Holding(i), job[i].kit = k PROVE FALSE OBVIOUS
    <3>1. View(row[k]) = job[i].loaded BY <1>1 DEF SingleInv, SnapshotCurrent
    <3>2. View(row[k]).status = row[k].status BY DEF View
    <3>3. QED BY <1>0, <1>2, <3>1, <3>2
              DEF IsTerminal, OpenStatuses, TerminalStatuses, KitStates
  <2>3. QED BY <1>3, <1>4, <1>5, <2>1, <2>2 DEF SingleInv, SnapshotCurrent, Holding
<1>8. EditsHonest'
  <2> SUFFICES ASSUME NEW d \in Clients, NEW i \in Kits, client'[d].pc = "editing",
                      client'[d].kit = i, Exists(i)'
               PROVE  /\ IsTerminal(i)' /\ row'[i].error = "none"
                      /\ row'[i].result.state \in ActionableStates
                      /\ client'[d].seen.state = row'[i].result.state
                      /\ client'[d].expected <= row'[i].revision
                      /\ client'[d].expected = row'[i].revision
                             => client'[d].seen = row'[i].result
    BY DEF EditsHonest
  <2>1. d # c /\ client'[d] = client[d] /\ client[d].expected \in Nat
    BY <1>0, <1>4 DEF ClientRecords
  <2>2. /\ IsTerminal(i) /\ row[i].error = "none"
        /\ row[i].result.state \in ActionableStates
        /\ client[d].seen.state = row[i].result.state
        /\ client[d].expected <= row[i].revision
        /\ client[d].expected = row[i].revision => client[d].seen = row[i].result
    BY <1>5, <2>1 DEF SingleInv, RowsInv, EditsHonest
  <2>3. CASE i # k BY <1>3, <2>1, <2>2, <2>3 DEF IsTerminal
  <2>4. CASE i = k
    <3>1. client[d].expected <= row[k].revision + 1 /\ client[d].expected # row[k].revision + 1
      BY <1>1, <2>1, <2>2, <2>4
    <3>2. QED BY <1>3, <2>1, <2>2, <2>4, <3>1 DEF IsTerminal
  <2>5. QED BY <2>3, <2>4
<1>9. Applied(c, k)' /\ \A d \in Clients, i \in Kits : d # c => (Applied(d, i)' <=> Applied(d, i))
  BY <1>4 DEF Applied
<1>10. EditsApplied'
  <2>1. ASSUME NEW i \in Kits, NEW d \in row'[i].result.edits PROVE Applied(d, i)'
    <3>1. \A b \in row[i].result.edits : b \in Clients /\ Applied(b, i) /\ b # c
      BY <1>0, <1>2 DEF Rows, Results, SingleInv, RowsInv, EditsApplied, Applied
    <3>2. CASE i = k BY <1>3, <1>9, <2>1, <3>1, <3>2
    <3>3. CASE i # k BY <1>3, <1>9, <2>1, <3>1, <3>3
    <3>4. QED BY <3>2, <3>3
  <2>2. QED BY <2>1 DEF EditsApplied
<1>11. MissingRows' BY <1>1, <1>3, <1>5 DEF SingleInv, RowsInv, MissingRows
<1>12. ViewsConsistent'
  <2>1. Consistent(View(row[k])) BY <1>1 DEF SingleInv, RowsInv, ViewsConsistent
  <2>2. Consistent(View(row'[k]))
    BY <1>2, <1>3, <2>1 DEF Consistent, View, IsTerminal, OpenStatuses, TerminalStatuses, KitStates
  <2>3. QED BY <1>3, <1>5, <2>2 DEF SingleInv, RowsInv, ViewsConsistent, Consistent, View
<1>13. NoEditLost'
  <2> SUFFICES ASSUME NEW d \in Clients, NEW i \in Kits, Applied(d, i)', Exists(i)'
               PROVE  d \in row'[i].result.edits
    BY DEF NoEditLost
  <2>1. CASE d = c BY <1>3, <1>4, <2>1 DEF Applied
  <2>2. CASE d # c
    <3>1. d \in row[i].result.edits
      BY <1>5, <1>9, <2>2 DEF SingleInv, RowsInv, NoEditLost
    <3>2. QED BY <1>3, <3>1
  <2>3. QED BY <2>1, <2>2
<1>14. QED BY <1>6, <1>7, <1>8, <1>10, <1>11, <1>12, <1>13 DEF RowsInv

\* A delete.
LEMMA DeleteSingle ==
    ASSUME TypeOK, SingleInv, NEW c \in Clients, NEW k \in Kits, DeleteKit(c, k)
    PROVE  SoleCopy' /\ SnapshotCurrent' /\ RowsInv'
<1>0. row \in [Kits -> Rows] /\ client \in [Clients -> ClientRecords] BY DEF TypeOK
<1>1. /\ row'[k] = Missing("deleted") /\ \A i \in Kits : i # k => row'[i] = row[i]
      /\ client'[c].pc = "deleted" /\ client[c].pc = "idle" /\ UNCHANGED job
      /\ \A d \in Clients : d # c => client'[d] = client[d]
  BY <1>0 DEF DeleteKit, ClientRecords
<1>2. /\ Missing("deleted").status = "deleted" /\ Missing("deleted").result.edits = {}
  BY DEF Missing, NoResult
<1>3. ~Exists(k)' BY <1>1, <1>2 DEF Exists, MissingStatuses
<1>4. \A i \in Kits : Exists(i)' => i # k /\ Exists(i) /\ row'[i] = row[i]
  BY <1>1, <1>3 DEF Exists
<1>5. SoleCopy'
  <2>1. \A i \in Jobs : Active(i) => job[i].kit \in Kits
    BY DEF TypeOK, Active, Owning, Executing
  <2>2. QED BY <1>1, <1>2, <2>1 DEF SingleInv, SoleCopy, Active, Owning, Executing
<1>6. SnapshotCurrent'
  <2>1. \A i \in Jobs : Holding(i) => job[i].kit \in Kits BY DEF TypeOK, Holding
  <2>2. QED BY <1>1, <1>4, <2>1 DEF SingleInv, SnapshotCurrent, Holding
<1>7. \A d \in Clients, i \in Kits : Applied(d, i)' <=> Applied(d, i) BY <1>1 DEF Applied
<1>8. EditsHonest'
  <2>1. EditsHonest BY DEF SingleInv, RowsInv
  <2>2. QED BY <1>1, <1>4, <2>1 DEF EditsHonest, IsTerminal
<1>9. EditsApplied'
  <2>1. \A i \in Kits : \A d \in row[i].result.edits : d \in Clients
    BY <1>0 DEF Rows, Results
  <2>2. QED BY <1>1, <1>2, <1>7, <2>1 DEF SingleInv, RowsInv, EditsApplied
<1>10. MissingRows' BY <1>1, <1>2 DEF SingleInv, RowsInv, MissingRows, Exists
<1>11. ViewsConsistent'
  BY <1>4 DEF SingleInv, RowsInv, ViewsConsistent, Consistent, View
<1>12. NoEditLost' BY <1>4, <1>7 DEF SingleInv, RowsInv, NoEditLost
<1>13. QED BY <1>5, <1>6, <1>8, <1>9, <1>10, <1>11, <1>12 DEF RowsInv

\* A publish: the one publisher of a kit becomes its one delivery.
LEMMA PublishSingle ==
    ASSUME TypeOK, SingleInv, NEW c \in Clients, NEW j \in Jobs,
           client[c].pc = "publishing", job[j].pc = "free", UNCHANGED row,
           job' = [job EXCEPT ![j] = Queued(client[c].kit, 0)],
           NEW pc \in {"accepted", "unavailable"}, Reply(c, pc)
    PROVE  SoleCopy' /\ SnapshotCurrent' /\ RowsInv'
<1>0. /\ job \in [Jobs -> JobRecords] /\ client \in [Clients -> ClientRecords]
      /\ client[c].kit \in Kits
  BY DEF TypeOK
<1>1. /\ job'[j].pc = "queued" /\ job'[j].kit = client[c].kit
      /\ \A i \in Jobs : i # j => job'[i] = job[i]
      /\ client'[c].pc = pc /\ \A d \in Clients : d # c => client'[d] = client[d]
      /\ \A d \in Clients : client'[d].kit = client[d].kit
  BY <1>0 DEF Queued, Reply, ClientRecords
<1>2. \A i \in Jobs : i # j => (Active(i)' <=> Active(i)) BY <1>1 DEF Active, Owning, Executing
<1>3. row[client[c].kit].status # "unborn" BY <1>0 DEF SingleInv, HistoryInv
<1>4. SoleCopy' BY <1>0, <1>1, <1>2, <1>3 DEF SingleInv, SoleCopy
<1>5. SnapshotCurrent' BY <1>1 DEF SingleInv, SnapshotCurrent, Holding, Exists, View
<1>6. \A d \in Clients, k \in Kits : Applied(d, k)' <=> Applied(d, k) BY <1>1 DEF Applied
<1>7. EditsHonest'
  <2>1. \A d \in Clients : client'[d].pc = "editing" => client'[d] = client[d] BY <1>1
  <2>2. EditsHonest BY DEF SingleInv, RowsInv
  <2>3. QED BY <2>1, <2>2 DEF EditsHonest, Exists, IsTerminal
<1>8. EditsApplied'
  <2>1. \A k \in Kits : \A d \in row[k].result.edits : d \in Clients
    BY DEF TypeOK, Rows, Results
  <2>2. QED BY <1>6, <2>1 DEF SingleInv, RowsInv, EditsApplied
<1>9. MissingRows' /\ ViewsConsistent' /\ NoEditLost'
  BY <1>6 DEF SingleInv, RowsInv, MissingRows, ViewsConsistent, NoEditLost, Exists,
              Consistent, View
<1>10. QED BY <1>4, <1>5, <1>7, <1>8, <1>9 DEF RowsInv

\* Every step of a request preserves the invariant.
LEMMA ApiSingle ==
    ASSUME TypeOK, SingleInv, NEW c \in Clients, Request(c) \/ Handle(c) \/ ApiFault(c)
    PROVE  SoleCopy' /\ SnapshotCurrent' /\ RowsInv'
<1>0. /\ client \in [Clients -> ClientRecords] /\ row \in [Kits -> Rows] BY DEF TypeOK
<1>1. ASSUME NEW k \in Kits, SubmitKit(c, k) \/ \E source \in Kits : RegenerateKit(c, source, k)
      PROVE  SoleCopy' /\ SnapshotCurrent' /\ RowsInv'
  BY <1>1, CreateSingle DEF SubmitKit, RegenerateKit
<1>2. ASSUME NEW k \in Kits, DeleteKit(c, k)
      PROVE  SoleCopy' /\ SnapshotCurrent' /\ RowsInv'
  BY <1>2, DeleteSingle
<1>3. ASSUME NEW k \in Kits, NEW e \in 0..row[k].revision, OpenEdit(c, k, e)
      PROVE  SoleCopy' /\ SnapshotCurrent' /\ RowsInv'
  <2>1. /\ client'[c].pc \in {"refused", "conflict", "editing"} /\ client[c].pc = "idle"
        /\ UNCHANGED <<row, job>>
        /\ \A d \in Clients : d # c => client'[d] = client[d]
        /\ client'[c].pc = "editing" =>
              /\ client'[c].kit = k /\ client'[c].expected = row[k].revision
              /\ client'[c].seen = row[k].result
              /\ row[k].result.state \in ActionableStates
    BY <1>0, <1>3 DEF OpenEdit
  <2>2. QED BY <2>1, QuietSingle
<1>4. ASSUME NEW k \in Kits, NotFound(c, k) PROVE SoleCopy' /\ SnapshotCurrent' /\ RowsInv'
  <2>1. /\ client'[c].pc = "refused" /\ client[c].pc = "idle" /\ UNCHANGED <<row, job>>
        /\ \A d \in Clients : d # c => client'[d] = client[d]
    BY <1>0, <1>4 DEF NotFound, ClientRecords
  <2>2. QED BY <2>1, QuietSingle
<1>5. CASE RefuseEdit(c) \/ EnqueueUnavailable(c) \/ LoseApi(c)
  <2>1. /\ client'[c].pc \in {"refused", "unavailable", "crashed", "aborted"}
        /\ client[c].pc # "applied" /\ UNCHANGED <<row, job>>
        /\ \A d \in Clients : d # c => client'[d] = client[d]
    BY <1>0, <1>5 DEF RefuseEdit, EnqueueUnavailable, LoseApi, Reply, ClientRecords
  <2>2. QED BY <2>1, QuietSingle
<1>6. CASE CommitEdit(c)
  <2>1. CASE Exists(client[c].kit) /\ row[client[c].kit].revision = client[c].expected
    BY <1>6, <2>1, UpdateSingle
  <2>2. CASE ~(Exists(client[c].kit) /\ row[client[c].kit].revision = client[c].expected)
    <3>1. /\ client'[c].pc = "conflict" /\ client[c].pc = "editing" /\ UNCHANGED <<row, job>>
          /\ \A d \in Clients : d # c => client'[d] = client[d]
      BY <1>0, <1>6, <2>2 DEF CommitEdit, ClientRecords
    <3>2. QED BY <3>1, QuietSingle
  <2>3. QED BY <2>1, <2>2
<1>7. ASSUME NEW j \in Jobs, Enqueue(c, j) \/ EnqueueUnconfirmed(c, j)
      PROVE  SoleCopy' /\ SnapshotCurrent' /\ RowsInv'
  BY <1>7, PublishSingle DEF Enqueue, EnqueueUnconfirmed
<1>8. CASE Request(c) BY <1>1, <1>2, <1>3, <1>4, <1>8 DEF Request
<1>9. QED BY <1>5, <1>6, <1>7, <1>8 DEF Handle, ApiFault

-----------------------------------------------------------------------------
(* The invariant of the specification *)

\* The initial state satisfies it.
LEMMA SingleInit == Init => SingleInv
<1> SUFFICES ASSUME Init PROVE SingleInv OBVIOUS
<1>1. /\ \A k \in Kits : row[k] = Missing("unborn") /\ ~Exists(k)
      /\ \A j \in Jobs : job[j].pc = "free"
      /\ \A c \in Clients : client[c].pc = "idle" /\ client[c].kit = NoKit
  BY DEF Init, Missing, Exists, MissingStatuses, FreeJob, NewClient
<1>2. \A c \in Clients, k \in Kits : ~Applied(c, k) /\ client[c].kit # k
  BY <1>1, ConstantsAssumption DEF Applied
<1>3. HistoryInv BY <1>1, <1>2 DEF HistoryInv, RevisionHistory
<1>4. SoleCopy /\ SnapshotCurrent
  BY <1>1 DEF SoleCopy, SnapshotCurrent, Active, Owning, Executing, Holding
<1>5. RowsInv
  <2>1. \A k \in Kits : row[k].status = "unborn" /\ row[k].result.edits = {}
    <3>1. Missing("unborn").status = "unborn" /\ Missing("unborn").result.edits = {}
      BY DEF Missing, NoResult
    <3>2. QED BY <1>1, <3>1
  <2>2. MissingRows BY <1>1, <2>1 DEF MissingRows
  <2>3. QED BY <1>1, <1>2, <2>1, <2>2
            DEF RowsInv, EditsHonest, EditsApplied, ViewsConsistent, NoEditLost
<1>6. QED BY <1>3, <1>4, <1>5 DEF SingleInv

\* Every step preserves it.
LEMMA SingleStep ==
    ASSUME "overlap" \notin FaultKinds, TypeOK, TypeOK', SingleInv, [Next]_vars
    PROVE  SingleInv'
<1>1. CASE UNCHANGED vars
  BY <1>1 DEF vars, SingleInv, HistoryInv, RevisionHistory, SoleCopy, SnapshotCurrent,
      RowsInv, EditsHonest, EditsApplied, MissingRows, ViewsConsistent, NoEditLost,
      Exists, IsTerminal, View, Applied, Active, Owning, Executing, Holding
<1>2. CASE Next /\ ~UNCHANGED vars
  <2>1. HistoryInv' BY <1>2, HistoryStep DEF SingleInv
  <2>2. SoleCopy' /\ SnapshotCurrent' /\ RowsInv'
    BY <1>2, ApiSingle, JobSingle DEF Next, Quiescent
  <2>3. QED BY <2>1, <2>2 DEF SingleInv
<1>3. QED BY <1>1, <1>2

\* So it is an invariant.
LEMMA SingleInvariant ==
    ASSUME "overlap" \notin FaultKinds
    PROVE  Spec => [](TypeOK /\ SingleInv)
<1>1. Spec => []TypeOK BY TypeCorrect
<1>2. Init => SingleInv BY SingleInit
<1>3. TypeOK /\ TypeOK' /\ SingleInv /\ [Next]_vars => SingleInv' BY SingleStep
<1>4. QED BY <1>1, <1>2, <1>3, PTL DEF Spec

\* The columns of every row tell one story, when deliveries do not overlap.
THEOREM RowsStayConsistent ==
    ASSUME "overlap" \notin FaultKinds
    PROVE  Spec => []RowConsistent
<1>1. Spec => [](TypeOK /\ SingleInv) BY SingleInvariant
<1>2. SingleInv => RowConsistent BY RowsAreConsistent DEF SingleInv, RowsInv
<1>3. QED BY <1>1, <1>2, PTL

\* Every batch a client was told is applied stays in the kit, when deliveries do
\* not overlap.
THEOREM AppliedBatchesStay ==
    ASSUME "overlap" \notin FaultKinds
    PROVE  Spec => []NoEditLost
<1>1. Spec => [](TypeOK /\ SingleInv) BY SingleInvariant
<1>2. SingleInv => NoEditLost BY DEF SingleInv, RowsInv
<1>3. QED BY <1>1, <1>2, PTL

-----------------------------------------------------------------------------
(* What a step does to a kit *)

Born(k) == /\ row[k].status = "unborn" /\ row'[k].status = "pending"
           /\ row'[k].revision = 0 /\ row'[k].result.edits = {}
           /\ row[k].revision = 0 /\ row[k].result.edits = {}
Worked(k) == /\ IsOpen(k) /\ row'[k].status \in OpenStatuses \cup TerminalStatuses
             /\ row'[k].revision = row[k].revision
             /\ row[k].result.edits = {} /\ row'[k].result.edits = {}
Changed(k) == /\ row[k].status \in ActionableStates
              /\ row'[k].status = row[k].status /\ row'[k].error = row[k].error
              /\ row'[k].revision = row[k].revision + 1
              /\ \E c \in Clients \ row[k].result.edits :
                     row'[k].result.edits = row[k].result.edits \cup {c}
Removed(k) == /\ Exists(k) /\ row'[k].status = "deleted"
              /\ row'[k].revision = 0 /\ row'[k].result.edits = {}

\* One kit changes in one of four ways, and the others do not.
KitStep == \/ \A k \in Kits : row'[k] = row[k]
           \/ \E k \in Kits : /\ Born(k) \/ Worked(k) \/ Changed(k) \/ Removed(k)
                             /\ \A i \in Kits : i # k => row'[i] = row[i]

\* A commit of a worker works on an open kit.
LEMMA CommitShape ==
    ASSUME TypeOK, SingleInv, NEW j \in Jobs, Holding(j),
           NEW new \in Views, new.status \notin MissingStatuses,
           Consistent(job[j].loaded) => Consistent(new) /\ new.result.edits = {},
           NEW after \in {"generating", "transient", "acking"},
           NEW stale \in {"failing", "acking"}, Save(j, new, after, stale),
           after = "generating" => new.status \in OpenStatuses
    PROVE  KitStep
<1>1. PICK k \in Kits :
        /\ k = job[j].kit
        /\ \A i \in Kits : i # k => row'[i] = row[i]
        /\ Exists(k) => /\ row[k].status \in OpenStatuses
                        /\ View(row[k]) = job[j].loaded
                        /\ row'[k].status = new.status /\ row'[k].result = new.result
                        /\ row'[k].revision = row[k].revision
        /\ ~Exists(k) => row' = row
  BY CommitLands
<1>2. CASE ~Exists(k) BY <1>1, <1>2 DEF KitStep
<1>3. CASE Exists(k)
  <2>1. Consistent(View(row[k])) BY <1>3 DEF SingleInv, RowsInv, ViewsConsistent
  <2>2. row[k].result.edits = {} BY <1>1, <1>3, <2>1 DEF Consistent, View, NoResult
  <2>3. new.result.edits = {} BY <1>1, <1>3, <2>1
  <2>4. Worked(k) BY <1>1, <1>3, <2>2, <2>3 DEF Worked, IsOpen, Views
  <2>5. QED BY <1>1, <2>4 DEF KitStep
<1>4. QED BY <1>2, <1>3

\* The steps of a worker are such steps.
LEMMA JobShape ==
    ASSUME TypeOK, SingleInv, NEW j \in Jobs, Work(j) \/ JobFault(j)
    PROVE  KitStep
<1>0. job[j].loaded \in Views BY DEF TypeOK, JobRecords
<1>1. ASSUME NEW after \in {"generating", "transient"}, SaveProcessing(j, after)
      PROVE  KitStep
  <2> DEFINE new == [job[j].loaded EXCEPT !.status = "processing"]
  <2>1. /\ Holding(j) /\ job[j].loaded.status \in OpenStatuses
        /\ Save(j, new, after, "failing")
    BY <1>1 DEF SaveProcessing, Holding, TypeOK
  <2>2. new \in Views /\ new.status \notin MissingStatuses /\ new.status \in OpenStatuses
    BY SavedViews DEF MissingStatuses, OpenStatuses
  <2>3. Consistent(job[j].loaded) => Consistent(new) /\ new.result.edits = {}
    BY <1>0, <2>1, SavedConsistent
  <2> HIDE DEF new
  <2>4. QED BY <2>1, <2>2, <2>3, CommitShape
<1>2. ASSUME NEW after \in {"acking", "transient"}, SaveOutcome(j, after)
      PROVE  KitStep
  <2>1. Holding(j) /\ job[j].loaded.status \in OpenStatuses
    BY <1>2 DEF SaveOutcome, Holding, TypeOK
  <2>2. PICK new \in Outcomes(job[j].loaded) : Save(j, new, after, "failing")
    BY <1>2 DEF SaveOutcome
  <2>3. new \in Views /\ new.status \notin MissingStatuses
    BY SavedViews DEF MissingStatuses, TerminalStatuses, KitStates
  <2>4. Consistent(job[j].loaded) => Consistent(new) /\ new.result.edits = {}
    BY <1>0, <2>1, SavedConsistent
  <2>5. QED BY <2>1, <2>2, <2>3, <2>4, CommitShape
<1>3. CASE MarkFailed(j)
  <2> DEFINE new == [job[j].loaded EXCEPT !.status = "failed", !.error = "worker"]
  <2>1. /\ Holding(j) /\ job[j].loaded.status \in OpenStatuses
        /\ Save(j, new, "acking", "acking")
    BY <1>3 DEF MarkFailed, Holding, TypeOK
  <2>2. new \in Views /\ new.status \notin MissingStatuses
    BY SavedViews DEF MissingStatuses
  <2>3. Consistent(job[j].loaded) => Consistent(new) /\ new.result.edits = {}
    BY <1>0, <2>1, SavedConsistent
  <2> HIDE DEF new
  <2>4. QED BY <2>1, <2>2, <2>3, CommitShape
<1>4. ASSUME UNCHANGED row PROVE KitStep BY <1>4 DEF KitStep
<1>5. QED BY <1>1, <1>2, <1>3, <1>4
          DEF Work, JobFault, MarkProcessing, Finish, DbErrorAfterCommit, Load, LoadForFail,
              Unexpected, Exhausted, Ack, DbError, RetryLost, FailDbError, WorkerLost,
              WorkerLostAfterRetry, Retry, VisibilityTimeout

\* So are the steps of a request.
LEMMA ApiShape ==
    ASSUME TypeOK, SingleInv, NEW c \in Clients, Request(c) \/ Handle(c) \/ ApiFault(c)
    PROVE  KitStep
<1>0. row \in [Kits -> Rows] /\ client \in [Clients -> ClientRecords] BY DEF TypeOK
<1>1. ASSUME NEW k \in Kits, NEW p, row[k].status = "unborn",
             row' = [row EXCEPT ![k] = NewRow(p)]
      PROVE  KitStep
  <2>1. row[k] = Missing("unborn")
    BY <1>1 DEF SingleInv, RowsInv, MissingRows, Exists, MissingStatuses
  <2>2. row[k].revision = 0 /\ row[k].result.edits = {} BY <2>1 DEF Missing, NoResult
  <2>3. Born(k) BY <1>0, <1>1, <2>2 DEF Born, NewRow, NoResult
  <2>4. QED BY <1>0, <1>1, <2>3 DEF KitStep
<1>2. ASSUME NEW k \in Kits, DeleteKit(c, k) PROVE KitStep
  <2>1. Removed(k) BY <1>0, <1>2 DEF Removed, DeleteKit, Missing, NoResult
  <2>2. QED BY <1>0, <1>2, <2>1 DEF KitStep, DeleteKit
<1>3. ASSUME CommitEdit(c) PROVE KitStep
  <2>1. PICK k \in Kits : k = client[c].kit BY <1>0, <1>3 DEF TypeOK, CommitEdit
  <2>2. CASE Exists(k) /\ row[k].revision = client[c].expected
    <3>1. client[c].pc = "editing" BY <1>3 DEF CommitEdit
    <3>2. /\ IsTerminal(k) /\ row[k].error = "none"
          /\ row[k].result.state \in ActionableStates /\ client[c].seen = row[k].result
      BY <2>1, <2>2, <3>1 DEF SingleInv, RowsInv, EditsHonest
    <3>3. row[k].status = row[k].result.state
      BY <2>2, <3>2 DEF SingleInv, RowsInv, ViewsConsistent, Consistent, View, IsTerminal
    <3>4. c \notin row[k].result.edits
      BY <3>1 DEF SingleInv, RowsInv, EditsApplied, Applied
    <3>5. /\ row'[k].status = row[k].status /\ row'[k].error = row[k].error
          /\ row'[k].result.edits = row[k].result.edits \cup {c}
          /\ row'[k].revision = row[k].revision + 1
          /\ \A i \in Kits : i # k => row'[i] = row[i]
      <4>1. row' = [row EXCEPT ![k].result = [state |-> row[k].result.state,
                                              edits |-> row[k].result.edits \cup {c}],
                               ![k].revision = row[k].revision + 1]
        BY <1>3, <2>1, <2>2, <3>2 DEF CommitEdit
      <4>2. row[k] \in Rows BY <1>0
      <4>3. QED BY <1>0, <4>1, <4>2 DEF Rows
    <3>6. Changed(k) BY <3>2, <3>3, <3>4, <3>5 DEF Changed
    <3>7. QED BY <3>5, <3>6 DEF KitStep
  <2>3. CASE ~(Exists(k) /\ row[k].revision = client[c].expected)
    BY <1>3, <2>1, <2>3 DEF CommitEdit, KitStep
  <2>4. QED BY <2>2, <2>3
<1>4. ASSUME UNCHANGED row PROVE KitStep BY <1>4 DEF KitStep
<1>5. CASE Request(c)
  BY <1>1, <1>2, <1>4, <1>5 DEF Request, SubmitKit, RegenerateKit, NotFound, OpenEdit
<1>6. QED BY <1>3, <1>4, <1>5 DEF Handle, ApiFault, RefuseEdit, Enqueue,
                                  EnqueueUnavailable, EnqueueUnconfirmed, LoseApi

\* So is every step of the specification.
LEMMA StepShape ==
    ASSUME TypeOK, SingleInv, [Next]_vars
    PROVE  KitStep
<1>1. CASE row' = row BY <1>1 DEF KitStep
<1>2. QED BY <1>1, JobShape, ApiShape DEF Next, Quiescent, vars

\* At-least-once redelivery never reprocesses or clobbers a finished kit, as
\* long as no two deliveries of its task are alive at once.
THEOREM FinishedKitsStay ==
    ASSUME "overlap" \notin FaultKinds
    PROVE  Spec => FinishedKitNotClobbered
<1> DEFINE Kept == \A k \in Kits :
         IsTerminal(k) /\ row'[k].status # "deleted" =>
            /\ row'[k].status = row[k].status
            /\ row'[k].error = row[k].error
            /\ row'[k].result # row[k].result => row'[k].revision > row[k].revision
<1>1. Spec => [](TypeOK /\ SingleInv) BY SingleInvariant
<1>2. TypeOK /\ SingleInv /\ [Next]_vars => [Kept]_vars
  <2> SUFFICES ASSUME TypeOK, SingleInv, KitStep, NEW k \in Kits, IsTerminal(k),
                      row'[k].status # "deleted"
               PROVE  /\ row'[k].status = row[k].status
                      /\ row'[k].error = row[k].error
                      /\ row'[k].result # row[k].result => row'[k].revision > row[k].revision
    BY StepShape
  <2>1. CASE row'[k] = row[k] BY <2>1
  <2>2. CASE Changed(k)
    <3>1. row[k].revision \in Nat BY DEF TypeOK, Rows
    <3>2. QED BY <2>2, <3>1 DEF Changed
  <2>3. ~Born(k) /\ ~Worked(k) /\ ~Removed(k)
    BY DEF Born, Worked, Removed, IsTerminal, IsOpen, TerminalStatuses, OpenStatuses, KitStates
  <2>4. QED BY <2>1, <2>2, <2>3 DEF KitStep
<1>3. QED BY <1>1, <1>2, PTL DEF Spec, FinishedKitNotClobbered

\* Rows, workers and broker together implement the contract of the API, as long
\* as no two deliveries of one task are alive at once.
THEOREM ContractImplemented ==
    ASSUME "overlap" \notin FaultKinds
    PROVE  Spec => ImplementsContract
<1>1. Spec => [](TypeOK /\ SingleInv) BY SingleInvariant
<1>2. Init => Contract!Init
  BY DEF Init, Contract!Init, Missing, NoResult, IsOpen, OpenStatuses
<1>3. TypeOK /\ SingleInv /\ [Next]_vars => [Contract!Next]_Contract!vars
  <2> SUFFICES ASSUME TypeOK, SingleInv, KitStep PROVE [Contract!Next]_Contract!vars
    BY StepShape
  <2> DEFINE phase(k) == IF IsOpen(k) THEN "open" ELSE row[k].status
  <2>1. CASE \A k \in Kits : row'[k] = row[k]
    BY <2>1 DEF Contract!vars, IsOpen
  <2>2. ASSUME NEW k \in Kits, \A i \in Kits : i # k => row'[i] = row[i],
               Born(k) \/ Worked(k) \/ Changed(k) \/ Removed(k)
        PROVE  [Contract!Next]_Contract!vars
    <3>1. CASE Born(k)
      <4>1. Contract!Open(k)
        BY <2>2, <3>1 DEF Contract!Open, Born, IsOpen, OpenStatuses
      <4>2. QED BY <4>1 DEF Contract!Next
    <3>2. CASE Worked(k) /\ row'[k].status \in OpenStatuses
      BY <2>2, <3>2 DEF Contract!vars, Worked, IsOpen
    <3>3. CASE Worked(k) /\ row'[k].status \in TerminalStatuses
      <4>1. Contract!Settle(k)
        BY <2>2, <3>3 DEF Contract!Settle, Worked, IsOpen, OpenStatuses, TerminalStatuses, KitStates
      <4>2. QED BY <4>1 DEF Contract!Next
    <3>4. CASE Changed(k)
      <4>1. PICK c \in Clients : /\ c \notin row[k].result.edits
                                 /\ row'[k].result.edits = row[k].result.edits \cup {c}
        BY <3>4 DEF Changed
      <4>2. Contract!Apply(k, c)
        BY <2>2, <3>4, <4>1 DEF Contract!Apply, Changed, IsOpen, OpenStatuses,
                                ActionableStates, KitStates
      <4>3. QED BY <4>2 DEF Contract!Next
    <3>5. CASE Removed(k)
      <4>1. row[k].status \in OpenStatuses \cup TerminalStatuses
        BY <3>5 DEF Removed, Exists, TypeOK, Rows
      <4>2. Contract!Remove(k)
        BY <2>2, <3>5, <4>1 DEF Contract!Remove, Removed, IsOpen, OpenStatuses
      <4>3. QED BY <4>2 DEF Contract!Next
    <3>6. QED BY <2>2, <3>1, <3>2, <3>3, <3>4, <3>5 DEF Worked
  <2>3. QED BY <2>1, <2>2 DEF KitStep
<1>4. QED BY <1>1, <1>2, <1>3, PTL DEF Spec, ImplementsContract, Contract!Spec
=============================================================================
