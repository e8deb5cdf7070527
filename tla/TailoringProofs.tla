--------------------------- MODULE TailoringProofs ---------------------------
(* The optimizer, for every resume, posting and set of findings: its record,   *)
(* the removals, what is refused, and that it ends.                            *)
EXTENDS TailoringOptimizer, SequenceFolds

(***************************************************************************)
(* Sequences                                                               *)
(***************************************************************************)
LEMMA ConcatSet ==
    ASSUME NEW S, NEW s \in Seq(S), NEW t \in Seq(S)
    PROVE  /\ s \o t \in Seq(S)
           /\ ToSet(s \o t) = ToSet(s) \cup ToSet(t)
<1>1. ASSUME NEW i \in DOMAIN t PROVE t[i] \in ToSet(s \o t)
  <2>1. Len(s) + i \in DOMAIN (s \o t) /\ (s \o t)[Len(s) + i] = t[i]
    OBVIOUS
  <2> QED BY <2>1 DEF ToSet
<1>2. ASSUME NEW i \in DOMAIN s PROVE s[i] \in ToSet(s \o t)
  <2>1. i \in DOMAIN (s \o t) /\ (s \o t)[i] = s[i]
    OBVIOUS
  <2> QED BY <2>1 DEF ToSet
<1>3. ASSUME NEW i \in DOMAIN (s \o t) PROVE (s \o t)[i] \in ToSet(s) \cup ToSet(t)
  <2>1. CASE i <= Len(s)
    BY <2>1 DEF ToSet
  <2>2. CASE i > Len(s)
    <3>1. i - Len(s) \in DOMAIN t /\ (s \o t)[i] = t[i - Len(s)]
      BY <2>2
    <3> QED BY <3>1 DEF ToSet
  <2> QED BY <2>1, <2>2
<1>4. s \o t \in Seq(S)
  OBVIOUS
<1>5. ToSet(s \o t) \subseteq ToSet(s) \cup ToSet(t)
  BY <1>3, Zenon DEF ToSet
<1>6. ToSet(s) \subseteq ToSet(s \o t) /\ ToSet(t) \subseteq ToSet(s \o t)
  BY <1>1, <1>2, Zenon DEF ToSet
<1> QED BY <1>4, <1>5, <1>6

\* The halves of a batch share no action and leave none out.
LEMMA HalfSets ==
    ASSUME NEW S, NEW s \in Seq(S), IsInjective(s), NEW m \in 1..(Len(s) - 1)
    PROVE  LET l == SubSeq(s, 1, m)
               r == SubSeq(s, m + 1, Len(s))
           IN  /\ l \in Seq(S) /\ IsInjective(l) /\ ToSet(l) \subseteq ToSet(s)
               /\ r \in Seq(S) /\ IsInjective(r) /\ ToSet(r) \subseteq ToSet(s)
               /\ ToSet(l) \cap ToSet(r) = {}
<1> DEFINE l == SubSeq(s, 1, m)
           r == SubSeq(s, m + 1, Len(s))
<1>1. l \in Seq(S) /\ Len(l) = m /\ \A i \in DOMAIN l : i \in DOMAIN s /\ i <= m /\ l[i] = s[i]
  OBVIOUS
<1>2. /\ r \in Seq(S) /\ Len(r) = Len(s) - m
      /\ \A i \in DOMAIN r : m + i \in DOMAIN s /\ i >= 1 /\ r[i] = s[m + i]
  OBVIOUS
<1> HIDE DEF l, r
<1>3. IsInjective(l) /\ ToSet(l) \subseteq ToSet(s)
  BY <1>1 DEF IsInjective, ToSet
<1>4. IsInjective(r) /\ ToSet(r) \subseteq ToSet(s)
  BY <1>2 DEF IsInjective, ToSet
<1>5. ToSet(l) \cap ToSet(r) = {}
  <2> SUFFICES ASSUME NEW i \in DOMAIN l, NEW j \in DOMAIN r, l[i] = r[j] PROVE FALSE
    BY DEF ToSet
  <2>1. i \in DOMAIN s /\ m + j \in DOMAIN s /\ i # m + j
    BY <1>1, <1>2
  <2>2. s[i] = s[m + j]
    BY <1>1, <1>2
  <2> QED BY <2>1, <2>2 DEF IsInjective
<1> QED BY <1>1, <1>2, <1>3, <1>4, <1>5 DEF l, r

\* A batch is a part of the planned actions.
LEMMA BatchPart ==
    ASSUME NEW S, NEW s \in Seq(S), IsInjective(s), NEW n \in Nat \ {0}, NEW k \in Nat,
           n <= Len(s), k <= Len(s)
    PROVE  LET b == SubSeq(s, n, k)
           IN  /\ b \in Seq(S) /\ IsInjective(b)
               /\ \A a \in ToSet(b) : \E i \in DOMAIN s : n <= i /\ i <= k /\ a = s[i]
<1> DEFINE b == SubSeq(s, n, k)
<1>1. b \in Seq(S) /\ \A i \in DOMAIN b : n + i - 1 \in DOMAIN s /\ i >= 1 /\ n + i - 1 <= k /\ b[i] = s[n + i - 1]
  OBVIOUS
<1> HIDE DEF b
<1>2. \A i, j \in DOMAIN b : b[i] = b[j] => i = j
  <2> SUFFICES ASSUME NEW i \in DOMAIN b, NEW j \in DOMAIN b, b[i] = b[j] PROVE i = j
    OBVIOUS
  <2>1. n + i - 1 = n + j - 1
    BY <1>1 DEF IsInjective
  <2>2. i \in Nat /\ j \in Nat
    BY <1>1
  <2> QED BY <2>1, <2>2
<1>3. ASSUME NEW a \in ToSet(b) PROVE \E i \in DOMAIN s : n <= i /\ i <= k /\ a = s[i]
  <2>1. PICK i \in DOMAIN b : a = b[i]
    BY DEF ToSet
  <2>2. i \in Nat
    BY <1>1
  <2> QED BY <1>1, <2>1, <2>2
<1> QED BY <1>1, <1>2, <1>3 DEF b, IsInjective

(***************************************************************************)
(* The inductive invariant                                                 *)
(***************************************************************************)
Typed ==
    /\ cv \in Cases /\ next \in Nat \ {0}
    /\ DOMAIN plan = PlanFields /\ DOMAIN status = ToSet(Planned)
    /\ accepted \in Seq(Placements)

\* Until the record is closed, an action is recorded as what became of it.
Verdicts ==
    stage # "done" =>
        \A a \in DOMAIN status :
            /\ status[a] \in {"not_evaluated", "accepted", "rejected"}
            /\ (status[a] = "accepted") <=> (a \in ToSet(accepted))
            /\ (status[a] = "accepted") <=> (a \in plan.changes)
            /\ (status[a] = "rejected") <=> (a \in rejected)

OpenFrom(n) == \A i \in DOMAIN Planned : i >= n => status[Planned[i]] = "not_evaluated"

\* Nothing has a verdict before its batch is tried.
Untried ==
    /\ stage \in {"project", "quality"} => OpenFrom(1)
    /\ stage = "batches" => OpenFrom(next)
    /\ stage \in {"bisect", "judge"} => OpenFrom(next + BatchSize)

Undecided(actions) == \A a \in actions : a \in ToSet(Batch) /\ status[a] = "not_evaluated"

\* What the bisection has kept and what it still has to try are apart, and
\* without a verdict.
Bisecting ==
    /\ stage \in {"bisect", "judge"} =>
        /\ next <= Len(Planned)
        /\ trial.kept \in Seq(Placements) /\ Undecided(ToSet(trial.kept))
        /\ DOMAIN trial.plan = PlanFields
        /\ trial.plan.changes = plan.changes \cup ToSet(trial.kept)
    /\ stage = "bisect" =>
        /\ work \in Seq(Seq(Placements))
        /\ \A i \in DOMAIN work :
            /\ work[i] # <<>> /\ IsInjective(work[i])
            /\ Undecided(ToSet(work[i])) /\ ToSet(work[i]) \cap ToSet(trial.kept) = {}
            /\ \A j \in DOMAIN work : i # j => ToSet(work[i]) \cap ToSet(work[j]) = {}

Inv == Typed /\ Verdicts /\ Untried /\ Bisecting /\ VerdictsMatchDelivery

\* What is known of the proposals and the source of a case.
LEMMA PlannedFacts ==
    ASSUME Typed
    PROVE  /\ Planned \in Seq(Placements) /\ IsInjective(Planned)
           /\ DOMAIN cv.source = PlanFields /\ cv.source.changes = {} /\ cv.source.removed = <<>>
           /\ \A a \in DOMAIN status : a.op \in Operations
<1>1. /\ Planned \in Seq(Placements) /\ IsInjective(Planned)
      /\ DOMAIN cv.source = PlanFields /\ cv.source.changes = {} /\ cv.source.removed = <<>>
  BY CasesAssumption DEF Typed, Planned
<1>2. \A a \in DOMAIN status : a \in Placements
  BY <1>1 DEF Typed, ToSet
<1> QED BY <1>1, <1>2 DEF Placements

\* The invariant holds before the first proposal.
LEMMA InitInv == Init => Inv
<1> SUFFICES ASSUME Init PROVE Inv
  OBVIOUS
<1>1. Typed
  BY CasesAssumption DEF Init, Typed, Planned
<1>2. \A a \in DOMAIN status : status[a] = "not_evaluated"
  BY DEF Init
<1>3. plan.changes = {} /\ rejected = {} /\ ToSet(accepted) = {}
  BY CasesAssumption DEF Init, ToSet
<1>4. Verdicts
  BY <1>2, <1>3 DEF Verdicts
<1>5. OpenFrom(1)
  BY <1>1, <1>2, PlannedFacts DEF OpenFrom, Typed, ToSet
<1> QED BY <1>1, <1>4, <1>5 DEF Init, Inv, Untried, Bisecting, VerdictsMatchDelivery

(***************************************************************************)
(* The rounds that give no placement a verdict                             *)
(***************************************************************************)
\* Labels of the other rounds are no placements.
Foreign(l) == l.op \notin Operations

\* A quality proposal is none of the planned ones.
LEMMA QualityForeign ==
    ASSUME Typed, next <= Len(Qualities)
    PROVE  Foreign(Qualities[next])
<1>1. cv.rewritten \in Seq(Slots)
  BY CasesAssumption DEF Typed
<1> DEFINE S == [op : {"quality", "ai"}, term : {0}, at : Locations]
<1>0. /\ Headline \in Locations /\ Summary \in Locations
      /\ \A at \in Locations : Label("quality", 0, at) \in S /\ Label("ai", 0, at) \in S
  BY DEF Label, Locations
<1> HIDE DEF S
<1>2. <<Label("quality", 0, Headline), Label("quality", 0, Summary)>> \in Seq(S)
  BY <1>0
<1>3. <<Label("ai", 0, Summary)>> \in Seq(S)
  BY <1>0
<1>4. [i \in DOMAIN cv.rewritten |-> Label("ai", 0, cv.rewritten[i])] \in Seq(S)
  <2>1. \A i \in DOMAIN cv.rewritten : cv.rewritten[i] \in Locations
    BY <1>1 DEF Locations
  <2> QED BY <1>0, <1>1, <2>1
<1>5. Qualities \in Seq(S)
  BY <1>2, <1>3, <1>4 DEF Qualities
<1>6. Qualities[next] \in S
  BY <1>5 DEF Typed
<1> QED BY <1>6 DEF Foreign, Operations, S

\* A step outside the batches that changes the plan by foreign labels only.
LEMMA QuietStep ==
    ASSUME Inv, stage \in Stages \ {"bisect", "judge", "done"},
           stage' \in {"batches", "prune", "reorder", "final"} \/ (stage' = "quality" /\ stage \in {"project", "quality"}),
           stage' = "batches" => stage = "quality" /\ next' = 1,
           UNCHANGED <<cv, accepted, status, delivered>>,
           next' \in Nat \ {0}, DOMAIN plan' = PlanFields,
           \A l : l.op \in Operations => (l \in plan'.changes <=> l \in plan.changes)
                                         /\ (l \in rejected' <=> l \in rejected)
    PROVE  Inv'
<1>1. Planned' = Planned
  BY DEF Planned
<1>2. Typed'
  BY <1>1 DEF Inv, Typed
<1>3. Verdicts'
  BY PlannedFacts DEF Inv, Verdicts, Stages
<1>4. Untried'
  BY <1>1 DEF Inv, Untried, OpenFrom
<1>5. Bisecting' /\ VerdictsMatchDelivery'
  BY DEF Bisecting, VerdictsMatchDelivery
<1> QED BY <1>2, <1>3, <1>4, <1>5 DEF Inv

\* One quality proposal tried.
LEMMA QualityKeepsInv == Inv /\ TryQuality => Inv'
<1> SUFFICES ASSUME Inv, TryQuality PROVE Inv'
  OBVIOUS
<1> DEFINE q == Qualities[next]
<1>1. Foreign(q)
  BY QualityForeign DEF Inv, TryQuality
<1>2. \/ UNCHANGED <<plan, rejected>>
      \/ plan' = plan /\ rejected' = rejected \cup {q}
      \/ plan' = Proposed(q) /\ rejected' = rejected
  BY Zenon DEF TryQuality
<1> HIDE DEF q
<1>3. DOMAIN Proposed(q) = PlanFields /\ Proposed(q).changes = plan.changes \cup {q}
  BY DEF Proposed, Inv, Typed, PlanFields
<1>4. /\ DOMAIN plan' = PlanFields
      /\ \A l : l.op \in Operations => (l \in plan'.changes <=> l \in plan.changes)
                                       /\ (l \in rejected' <=> l \in rejected)
  BY <1>1, <1>2, <1>3 DEF Foreign, Inv, Typed
<1>5. stage = "quality" /\ stage' = stage /\ next' = next + 1 /\ UNCHANGED <<cv, accepted, status, delivered>>
  BY DEF TryQuality, result
<1>6. next' \in Nat \ {0}
  BY <1>5 DEF Inv, Typed
<1> QED BY <1>4, <1>5, <1>6, QuietStep DEF Stages

\* The quality proposals are over.
LEMMA EndQualityKeepsInv == Inv /\ EndQuality => Inv'
<1> SUFFICES ASSUME Inv, EndQuality PROVE Inv'
  OBVIOUS
<1>1. /\ stage = "quality" /\ stage' = "batches" /\ next' = 1
      /\ UNCHANGED <<cv, plan, accepted, status, rejected, delivered>>
  BY DEF EndQuality, result
<1>2. DOMAIN plan' = PlanFields
  BY <1>1 DEF Inv, Typed
<1> QED BY <1>1, <1>2, QuietStep DEF Stages

\* The batches are over.
LEMMA EndBatchesKeepsInv == Inv /\ EndBatches => Inv'
<1> SUFFICES ASSUME Inv, EndBatches PROVE Inv'
  OBVIOUS
<1>1. /\ stage = "batches" /\ stage' \in {"prune", "final"}
      /\ UNCHANGED <<cv, plan, accepted, status, rejected, delivered, next>>
  BY DEF EndBatches, result
<1>2. DOMAIN plan' = PlanFields /\ next' \in Nat \ {0}
  BY <1>1 DEF Inv, Typed
<1> QED BY <1>1, <1>2, QuietStep DEF Stages

\* One removal tried.
LEMMA PruneKeepsInv == Inv /\ TryPrune => Inv'
<1> SUFFICES ASSUME Inv, TryPrune PROVE Inv'
  OBVIOUS
<1> DEFINE l0 == Label("prune", 0, Head(queue))
<1>1. Foreign(l0)
  BY DEF Foreign, Label, Operations
<1>2. \/ plan' = plan /\ rejected' = rejected \cup {l0}
      \/ plan' = Prune(plan, Head(queue)) /\ rejected' = rejected
  BY Zenon DEF TryPrune
<1>3. /\ DOMAIN Prune(plan, Head(queue)) = PlanFields
      /\ Prune(plan, Head(queue)).changes = plan.changes \cup {l0}
  BY DEF Prune, Inv, Typed, PlanFields
<1> HIDE DEF l0
<1>4. /\ DOMAIN plan' = PlanFields
      /\ \A l : l.op \in Operations => (l \in plan'.changes <=> l \in plan.changes)
                                       /\ (l \in rejected' <=> l \in rejected)
  BY <1>1, <1>2, <1>3 DEF Foreign, Inv, Typed
<1>5. /\ stage = "prune" /\ stage' = stage
      /\ UNCHANGED <<cv, accepted, status, delivered, next>>
  BY DEF TryPrune, result
<1>6. next' \in Nat \ {0}
  BY <1>5 DEF Inv, Typed
<1> QED BY <1>4, <1>5, <1>6, QuietStep DEF Stages

\* The removals are over.
LEMMA EndPruneKeepsInv == Inv /\ EndPrune => Inv'
<1> SUFFICES ASSUME Inv, EndPrune PROVE Inv'
  OBVIOUS
<1>1. /\ stage = "prune" /\ stage' = "reorder"
      /\ UNCHANGED <<cv, plan, accepted, status, rejected, delivered, next>>
  BY DEF EndPrune, result, search
<1>2. DOMAIN plan' = PlanFields /\ next' \in Nat \ {0}
  BY <1>1 DEF Inv, Typed
<1> QED BY <1>1, <1>2, QuietStep DEF Stages

\* The skills reordered.
LEMMA ReorderKeepsInv == Inv /\ ReorderSkills => Inv'
<1> SUFFICES ASSUME Inv, ReorderSkills PROVE Inv'
  OBVIOUS
<1> DEFINE l0 == Label("skill_reorder", 0, Skills)
<1>1. Foreign(l0)
  BY DEF Foreign, Label, Operations
<1>2. \/ plan' = plan /\ rejected' = rejected \cup {l0}
      \/ plan' = Reorder(plan) /\ rejected' = rejected
  BY Zenon DEF ReorderSkills
<1>3. /\ DOMAIN Reorder(plan) = PlanFields
      /\ Reorder(plan).changes \in {plan.changes, plan.changes \cup {l0}}
  BY DEF Reorder, Inv, Typed, PlanFields
<1> HIDE DEF l0
<1>4. /\ DOMAIN plan' = PlanFields
      /\ \A l : l.op \in Operations => (l \in plan'.changes <=> l \in plan.changes)
                                       /\ (l \in rejected' <=> l \in rejected)
  BY <1>1, <1>2, <1>3 DEF Foreign, Inv, Typed
<1>5. /\ stage = "reorder" /\ stage' = "final"
      /\ UNCHANGED <<cv, accepted, status, delivered, next>>
  BY DEF ReorderSkills, result, search
<1>6. next' \in Nat \ {0}
  BY <1>5 DEF Inv, Typed
<1> QED BY <1>4, <1>5, <1>6, QuietStep DEF Stages

(***************************************************************************)
(* The end of the run                                                      *)
(***************************************************************************)
LEMMA ClosedRecord ==
    ASSUME NEW record
    PROVE  /\ DOMAIN Closed(record) = DOMAIN record
           /\ \A a \in DOMAIN record :
                /\ record[a] = "not_evaluated" => Closed(record)[a] = "concluded"
                /\ record[a] = "accepted" =>
                     Closed(record)[a] = IF a.op = "weave_bullet" THEN "no_op" ELSE "accepted"
                /\ record[a] \notin {"not_evaluated", "accepted"} => Closed(record)[a] = record[a]
BY DEF Closed

\* Closing a run keeps what is not about the delivered document.
LEMMA FinishKeepsTyped ==
    ASSUME Inv, NEW p, NEW st, NEW record, DOMAIN record = DOMAIN status, Finish(p, st, record),
           UNCHANGED <<cv, plan, accepted, next>>
    PROVE  Typed' /\ Verdicts' /\ Untried' /\ Bisecting'
<1>1. Typed'
  BY ClosedRecord DEF Inv, Typed, Finish, Planned
<1> QED BY <1>1 DEF Verdicts, Untried, Bisecting, Finish

\* The document goes out as planned.
LEMMA FinishPlan ==
    ASSUME Inv, stage # "done", NEW st, Finish(plan, st, status),
           UNCHANGED <<cv, plan, accepted, rejected, next>>
    PROVE  Inv'
<1>1. \A a \in DOMAIN status :
        /\ status[a] \in {"not_evaluated", "accepted", "rejected"}
        /\ (status[a] = "accepted") <=> (a \in plan.changes)
        /\ (status[a] = "rejected") <=> (a \in rejected)
  BY DEF Inv, Verdicts
<1>2. status' = Closed(status) /\ delivered' = plan /\ rejected' = rejected
  BY DEF Finish
<1>3. ASSUME NEW a \in DOMAIN status'
      PROVE  /\ status'[a] \notin {"not_evaluated", "rolled_back"}
             /\ (status'[a] = "accepted") <=> (a \in delivered'.changes /\ a.op # "weave_bullet")
             /\ (status'[a] = "rejected") <=> (a \in rejected')
  <2>1. a \in DOMAIN status
    BY <1>2, <1>3, ClosedRecord
  <2> QED BY <1>1, <1>2, <2>1, ClosedRecord
<1>4. VerdictsMatchDelivery'
  BY <1>3 DEF VerdictsMatchDelivery
<1> QED BY <1>4, FinishKeepsTyped DEF Inv

\* The source projection goes out, and nothing is recorded accepted.
LEMMA FinishSource ==
    ASSUME Inv, stage # "done", NEW st, NEW record,
           record = RolledBack(status) \/ (record = status /\ stage = "project"),
           Finish(cv.source, st, record),
           UNCHANGED <<cv, plan, accepted, rejected, next>>
    PROVE  Inv'
<1>1. \A a \in DOMAIN status :
        /\ status[a] \in {"not_evaluated", "accepted", "rejected"}
        /\ (status[a] = "rejected") <=> (a \in rejected)
  BY DEF Inv, Verdicts
<1>2. stage = "project" => \A a \in DOMAIN status : status[a] = "not_evaluated"
  BY PlannedFacts DEF Inv, Typed, Untried, OpenFrom, ToSet
<1>3. /\ DOMAIN record = DOMAIN status
      /\ \A a \in DOMAIN status :
           /\ record[a] \in {"not_evaluated", "rolled_back", "rejected"}
           /\ (record[a] = "rejected") <=> (a \in rejected)
  BY <1>1, <1>2 DEF RolledBack
<1>4. status' = Closed(record) /\ delivered' = cv.source /\ cv' = cv /\ rejected' = rejected
  BY DEF Finish
<1>5. delivered'.changes = {}
  BY <1>4, PlannedFacts DEF Inv
<1>6. ASSUME NEW a \in DOMAIN status'
      PROVE  /\ status'[a] \notin {"not_evaluated", "accepted"}
             /\ (status'[a] = "rejected") <=> (a \in rejected')
  <2>1. a \in DOMAIN record
    BY <1>4, <1>6, ClosedRecord
  <2> QED BY <1>3, <1>4, <2>1, ClosedRecord
<1>7. VerdictsMatchDelivery'
  BY <1>4, <1>5, <1>6 DEF VerdictsMatchDelivery, Text
<1> QED BY <1>3, <1>7, FinishKeepsTyped DEF Inv

\* The document rolled back to the projected source.
LEMMA ProjectKeepsInv == Inv /\ ProjectSource => Inv'
<1> SUFFICES ASSUME Inv, ProjectSource PROVE Inv'
  OBVIOUS
<1>1. /\ stage = "project"
      /\ UNCHANGED <<cv, plan, accepted, next, rejected>>
      /\ Finish(cv.source, "NEEDS_INPUT_REVIEW", status)
         \/ (stage' = "quality" /\ UNCHANGED <<status, delivered>>)
  BY Zenon DEF ProjectSource, result
<1>2. CASE Finish(cv.source, "NEEDS_INPUT_REVIEW", status)
  BY <1>1, <1>2, FinishSource
<1>3. CASE stage' = "quality" /\ UNCHANGED <<status, delivered>>
  <2>1. DOMAIN plan' = PlanFields /\ next' \in Nat \ {0}
    BY <1>1 DEF Inv, Typed
  <2> QED BY <1>1, <1>3, <2>1, QuietStep DEF Stages
<1> QED BY <1>1, <1>2, <1>3

\* The document delivered.
LEMMA DeliverKeepsInv == Inv /\ Deliver => Inv'
<1> SUFFICES ASSUME Inv, Deliver PROVE Inv'
  OBVIOUS
<1>1. /\ stage = "final"
      /\ UNCHANGED <<cv, plan, accepted, next, rejected>>
      /\ Finish(cv.source, "GENERATED_WITH_FALLBACK", RolledBack(status))
         \/ \E st : Finish(plan, st, status)
  BY Zenon DEF Deliver, search
<1> QED BY <1>1, FinishSource, FinishPlan

(***************************************************************************)
(* The batches                                                             *)
(***************************************************************************)
LEMMA BatchFacts ==
    ASSUME Typed, next <= Len(Planned)
    PROVE  /\ Batch \in Seq(Placements) /\ Batch # <<>> /\ IsInjective(Batch)
           /\ \A a \in ToSet(Batch) : a \in DOMAIN status
                /\ \E i \in DOMAIN Planned : next <= i /\ a = Planned[i]
           /\ \A i \in DOMAIN Planned : i >= next + BatchSize => Planned[i] \notin ToSet(Batch)
<1> DEFINE last == Least(next + BatchSize - 1, Len(Planned))
<1>1. Planned \in Seq(Placements) /\ IsInjective(Planned) /\ DOMAIN status = ToSet(Planned)
  BY PlannedFacts DEF Typed
<1>2. next \in Nat \ {0} /\ BatchSize \in Nat \ {0}
  BY OptimizerAssumption DEF Typed
<1>3. last \in Nat /\ next <= last /\ last <= Len(Planned) /\ last < next + BatchSize
  BY <1>1, <1>2 DEF Least
<1> HIDE DEF last
<1>4. Batch = SubSeq(Planned, next, last)
  BY DEF Batch, last
<1>5. /\ Batch \in Seq(Placements) /\ IsInjective(Batch)
      /\ \A a \in ToSet(Batch) : \E i \in DOMAIN Planned : next <= i /\ i <= last /\ a = Planned[i]
  BY <1>1, <1>2, <1>3, <1>4, BatchPart
<1>6. Batch # <<>>
  BY <1>1, <1>2, <1>3, <1>4
<1>7. ASSUME NEW i \in DOMAIN Planned, i >= next + BatchSize, Planned[i] \in ToSet(Batch) PROVE FALSE
  <2>1. PICK j \in DOMAIN Planned : j <= last /\ Planned[i] = Planned[j]
    BY <1>5, <1>7
  <2>2. i = j
    BY <1>1, <2>1 DEF IsInjective
  <2>3. i \in Nat
    BY <1>1
  <2> QED BY <1>2, <1>3, <1>7, <2>1, <2>2, <2>3
<1>8. \A a \in ToSet(Batch) : a \in DOMAIN status
  BY <1>1, <1>5 DEF ToSet
<1> QED BY <1>5, <1>6, <1>7, <1>8

\* A verdict is recorded where there was none.
LEMMA RecordFacts ==
    ASSUME NEW actions, NEW st
    PROVE  /\ DOMAIN Record(actions, st) = DOMAIN status
           /\ \A a \in DOMAIN status :
                Record(actions, st)[a] =
                  IF a \in ToSet(actions) /\ status[a] = "not_evaluated" THEN st ELSE status[a]
BY DEF Record

\* A batch opened.
LEMMA StartKeepsInv == Inv /\ StartBatch => Inv'
<1> SUFFICES ASSUME Inv, StartBatch PROVE Inv'
  OBVIOUS
<1>1. /\ stage = "batches" /\ stage' = "bisect" /\ next <= Len(Planned)
      /\ work' = <<Batch>> /\ trial' = [plan |-> plan, kept |-> <<>>]
      /\ UNCHANGED <<cv, plan, accepted, next, status, rejected>>
  BY DEF StartBatch
<1>2. Planned' = Planned /\ Batch' = Batch
  BY <1>1 DEF Planned, Batch
<1>3. Batch \in Seq(Placements) /\ Batch # <<>> /\ IsInjective(Batch) /\ Undecided(ToSet(Batch))
  BY <1>1, BatchFacts DEF Inv, Untried, OpenFrom, Undecided
<1>4. Typed' /\ Verdicts' /\ VerdictsMatchDelivery'
  BY <1>1, <1>2 DEF Inv, Typed, Verdicts, VerdictsMatchDelivery
<1>5. Untried'
  <2>1. next \in Nat /\ BatchSize \in Nat /\ Planned \in Seq(Placements)
    BY OptimizerAssumption, PlannedFacts DEF Inv, Typed
  <2> QED BY <1>1, <1>2, <2>1 DEF Inv, Untried, OpenFrom
<1>6. ToSet(<<>>) = {} /\ trial'.kept = <<>> /\ trial'.plan = plan
  BY <1>1 DEF ToSet
<1>7. work' \in Seq(Seq(Placements)) /\ DOMAIN work' = {1} /\ work'[1] = Batch
  BY <1>1, <1>3
<1>8. Undecided(ToSet(Batch))'
  BY <1>1, <1>2, <1>3 DEF Undecided
<1>9. Bisecting'
  BY <1>1, <1>2, <1>3, <1>6, <1>7, <1>8 DEF Bisecting, Inv, Typed, Undecided
<1> QED BY <1>4, <1>5, <1>9 DEF Inv

\* A bisection ended.
LEMMA EndBisectionKeepsInv == Inv /\ EndBisection => Inv'
<1> SUFFICES ASSUME Inv, EndBisection PROVE Inv'
  OBVIOUS
<1>1. /\ stage = "bisect" /\ stage' = "judge"
      /\ UNCHANGED <<cv, plan, accepted, next, status, rejected, trial>>
  BY DEF EndBisection, search, batching
<1>2. Planned' = Planned /\ Batch' = Batch
  BY <1>1 DEF Planned, Batch
<1>3. Typed' /\ Verdicts' /\ Untried' /\ VerdictsMatchDelivery'
  BY <1>1, <1>2 DEF Inv, Typed, Verdicts, Untried, OpenFrom, VerdictsMatchDelivery
<1>4. Bisecting'
  BY <1>1, <1>2 DEF Inv, Bisecting, Undecided
<1> QED BY <1>3, <1>4 DEF Inv

\* What is common to every step of the bisection.
LEMMA PendingFacts ==
    ASSUME Inv, stage = "bisect", work # <<>>
    PROVE  /\ Head(work) \in Seq(Placements) /\ Head(work) # <<>> /\ IsInjective(Head(work))
           /\ Undecided(ToSet(Head(work))) /\ ToSet(Head(work)) \cap ToSet(trial.kept) = {}
           /\ Tail(work) \in Seq(Seq(Placements))
           /\ \A i \in DOMAIN Tail(work) :
                /\ i + 1 \in DOMAIN work /\ Tail(work)[i] = work[i + 1]
                /\ ToSet(Tail(work)[i]) \cap ToSet(Head(work)) = {}
                /\ \A j \in DOMAIN Tail(work) :
                     i # j => ToSet(Tail(work)[i]) \cap ToSet(Tail(work)[j]) = {}
<1>1. work \in Seq(Seq(Placements))
  BY DEF Inv, Bisecting
<1>2. 1 \in DOMAIN work /\ Head(work) = work[1]
  BY <1>1
<1>3. /\ Tail(work) \in Seq(Seq(Placements))
      /\ \A i \in DOMAIN Tail(work) : i \in Nat \ {0} /\ i + 1 \in DOMAIN work /\ Tail(work)[i] = work[i + 1]
  BY <1>1
<1>4. /\ Head(work) \in Seq(Placements) /\ Head(work) # <<>> /\ IsInjective(Head(work))
      /\ Undecided(ToSet(Head(work))) /\ ToSet(Head(work)) \cap ToSet(trial.kept) = {}
  BY <1>1, <1>2 DEF Inv, Bisecting
<1>5. ASSUME NEW i \in DOMAIN Tail(work)
      PROVE  ToSet(Tail(work)[i]) \cap ToSet(Head(work)) = {}
  <2>1. i + 1 \in DOMAIN work /\ i + 1 # 1 /\ Tail(work)[i] = work[i + 1]
    BY <1>3, <1>5
  <2> QED BY <1>2, <2>1 DEF Inv, Bisecting
<1>6. ASSUME NEW i \in DOMAIN Tail(work), NEW j \in DOMAIN Tail(work), i # j
      PROVE  ToSet(Tail(work)[i]) \cap ToSet(Tail(work)[j]) = {}
  <2>1. /\ i + 1 \in DOMAIN work /\ Tail(work)[i] = work[i + 1]
        /\ j + 1 \in DOMAIN work /\ Tail(work)[j] = work[j + 1] /\ i + 1 # j + 1
    BY <1>3, <1>6
  <2> QED BY <2>1 DEF Inv, Bisecting
<1> QED BY <1>3, <1>4, <1>5, <1>6

\* What a trial does, and what it leaves alone.
LEMMA TryFrame ==
    ASSUME Inv, TryHalf
    PROVE  /\ stage = "bisect" /\ stage' = "bisect" /\ work # <<>>
           /\ UNCHANGED <<cv, plan, accepted, next>> /\ Planned' = Planned /\ Batch' = Batch
           /\ \/ Keep(Head(work))
              \/ Len(Head(work)) = 1 /\ Drop(Head(work))
              \/ Halve(Head(work), Len(Head(work)) \div 2, Len(Head(work)) \div 2 + 1)
<1>1. /\ stage = "bisect" /\ stage' = "bisect" /\ work # <<>>
      /\ UNCHANGED <<cv, plan, accepted, next>>
      /\ \/ Keep(Head(work))
         \/ Len(Head(work)) = 1 /\ Drop(Head(work))
         \/ Halve(Head(work), Len(Head(work)) \div 2, Len(Head(work)) \div 2 + 1)
  BY Zenon DEF TryHalf, search
<1> QED BY <1>1 DEF Planned, Batch

\* Applying proposals adds them to the changes of a plan.
LEMMA AppliedFacts ==
    ASSUME NEW p, NEW actions
    PROVE  /\ DOMAIN ApplyActions(cv, p, actions) = PlanFields
           /\ ApplyActions(cv, p, actions).changes = p.changes \cup ToSet(actions)
BY Zenon DEF ApplyActions, PlanFields

\* A half kept.
LEMMA KeepKeepsInv == Inv /\ TryHalf /\ Keep(Head(work)) => Inv'
<1> SUFFICES ASSUME Inv, TryHalf, Keep(Head(work)) PROVE Inv'
  OBVIOUS
<1> DEFINE b == Head(work)
<1>1. /\ stage = "bisect" /\ stage' = "bisect" /\ work # <<>>
      /\ UNCHANGED <<cv, plan, accepted, next>> /\ Planned' = Planned /\ Batch' = Batch
  BY TryFrame
<1>2. /\ trial' = [plan |-> ApplyActions(cv, trial.plan, b), kept |-> trial.kept \o b]
      /\ work' = Tail(work) /\ UNCHANGED <<status, rejected>>
  BY DEF Keep
<1>3. Typed' /\ Verdicts' /\ Untried' /\ VerdictsMatchDelivery'
  BY <1>1, <1>2 DEF Inv, Typed, Verdicts, Untried, OpenFrom, VerdictsMatchDelivery
<1>4. /\ b \in Seq(Placements) /\ Undecided(ToSet(b)) /\ work' \in Seq(Seq(Placements))
  BY <1>1, <1>2, PendingFacts
<1>5. /\ trial.kept \in Seq(Placements) /\ Undecided(ToSet(trial.kept))
      /\ next <= Len(Planned) /\ trial.plan.changes = plan.changes \cup ToSet(trial.kept)
  BY <1>1 DEF Inv, Bisecting
<1>6. /\ trial'.plan = ApplyActions(cv, trial.plan, b) /\ trial'.kept = trial.kept \o b
  BY <1>2
<1>7. trial'.kept \in Seq(Placements) /\ ToSet(trial'.kept) = ToSet(trial.kept) \cup ToSet(b)
  BY <1>4, <1>5, <1>6, ConcatSet
<1>8. /\ DOMAIN trial'.plan = PlanFields
      /\ trial'.plan.changes = plan'.changes \cup ToSet(trial'.kept)
  <2>1. /\ DOMAIN trial'.plan = PlanFields
        /\ trial'.plan.changes = trial.plan.changes \cup ToSet(b)
    BY <1>6, AppliedFacts, Zenon
  <2> QED BY <1>1, <1>5, <1>7, <2>1
<1>9. Undecided(ToSet(trial.kept))'
  BY <1>1, <1>2, <1>4, <1>5, <1>7 DEF Undecided
<1>10. ASSUME NEW i \in DOMAIN work'
       PROVE  /\ work'[i] # <<>> /\ IsInjective(work'[i])
              /\ Undecided(ToSet(work[i]))' /\ ToSet(work'[i]) \cap ToSet(trial'.kept) = {}
              /\ \A j \in DOMAIN work' : i # j => ToSet(work'[i]) \cap ToSet(work'[j]) = {}
  <2>1. /\ i + 1 \in DOMAIN work /\ work'[i] = work[i + 1]
        /\ ToSet(work'[i]) \cap ToSet(b) = {}
        /\ \A j \in DOMAIN work' : i # j => ToSet(work'[i]) \cap ToSet(work'[j]) = {}
    BY <1>1, <1>2, PendingFacts
  <2>2. /\ work[i + 1] # <<>> /\ IsInjective(work[i + 1])
        /\ Undecided(ToSet(work[i + 1])) /\ ToSet(work[i + 1]) \cap ToSet(trial.kept) = {}
    BY <1>1, <2>1 DEF Inv, Bisecting
  <2>3. Undecided(ToSet(work[i]))'
    BY <1>1, <1>2, <2>1, <2>2 DEF Undecided
  <2> QED BY <1>7, <2>1, <2>2, <2>3
<1>11. Bisecting'
  BY <1>1, <1>4, <1>5, <1>7, <1>8, <1>9, <1>10 DEF Bisecting
<1> QED BY <1>3, <1>11 DEF Inv

\* A single proposal dropped.
LEMMA DropKeepsInv == Inv /\ TryHalf /\ Len(Head(work)) = 1 /\ Drop(Head(work)) => Inv'
<1> SUFFICES ASSUME Inv, TryHalf, Len(Head(work)) = 1, Drop(Head(work)) PROVE Inv'
  OBVIOUS
<1> DEFINE b == Head(work)
<1>1. /\ stage = "bisect" /\ stage' = "bisect" /\ work # <<>>
      /\ UNCHANGED <<cv, plan, accepted, next>> /\ Planned' = Planned /\ Batch' = Batch
  BY TryFrame
<1>2. /\ work' = Tail(work) /\ trial' = trial
      /\ status' = Record(b, "rejected") /\ rejected' = rejected \cup ToSet(b)
  BY DEF Drop
<1>3. Undecided(ToSet(b)) /\ ToSet(b) \cap ToSet(trial.kept) = {} /\ work' \in Seq(Seq(Placements))
  BY <1>1, <1>2, PendingFacts
<1>4. /\ DOMAIN status' = DOMAIN status
      /\ \A a \in DOMAIN status : status'[a] = IF a \in ToSet(b) THEN "rejected" ELSE status[a]
  BY <1>2, <1>3, RecordFacts DEF Undecided
<1>5. Typed' /\ VerdictsMatchDelivery'
  BY <1>1, <1>4 DEF Inv, Typed, VerdictsMatchDelivery
<1>6. Verdicts'
  <2> SUFFICES ASSUME NEW a \in DOMAIN status
               PROVE  /\ status'[a] \in {"not_evaluated", "accepted", "rejected"}
                      /\ (status'[a] = "accepted") <=> (a \in ToSet(accepted))
                      /\ (status'[a] = "accepted") <=> (a \in plan.changes)
                      /\ (status'[a] = "rejected") <=> (a \in rejected')
    BY <1>1, <1>4 DEF Verdicts
  <2>1. /\ status[a] \in {"not_evaluated", "accepted", "rejected"}
        /\ (status[a] = "accepted") <=> (a \in ToSet(accepted))
        /\ (status[a] = "accepted") <=> (a \in plan.changes)
        /\ (status[a] = "rejected") <=> (a \in rejected)
    BY <1>1 DEF Inv, Verdicts
  <2>2. CASE a \in ToSet(b)
    BY <1>2, <1>3, <1>4, <2>1, <2>2 DEF Undecided
  <2>3. CASE a \notin ToSet(b)
    BY <1>2, <1>4, <2>1, <2>3
  <2> QED BY <2>2, <2>3
<1>7. next <= Len(Planned) /\ Typed
  BY <1>1 DEF Inv, Bisecting
<1>8. Untried'
  <2>1. \A i \in DOMAIN Planned : i >= next + BatchSize =>
           /\ Planned[i] \in DOMAIN status /\ Planned[i] \notin ToSet(b)
           /\ status[Planned[i]] = "not_evaluated"
    BY <1>1, <1>3, <1>7, BatchFacts DEF Inv, Typed, Untried, OpenFrom, Undecided, ToSet
  <2> QED BY <1>1, <1>4, <2>1 DEF Untried, OpenFrom
<1>9. ASSUME NEW A, Undecided(A), A \cap ToSet(b) = {}
      PROVE  \A a \in A : a \in ToSet(Batch') /\ status'[a] = "not_evaluated"
  <2>1. \A a \in A : a \in ToSet(Batch) /\ status[a] = "not_evaluated" /\ a \in DOMAIN status
    BY <1>7, <1>9, BatchFacts DEF Undecided
  <2> QED BY <1>1, <1>4, <1>9, <2>1
<1>10. Undecided(ToSet(trial.kept))'
  <2>1. Undecided(ToSet(trial.kept)) /\ ToSet(trial.kept) \cap ToSet(b) = {}
    BY <1>1, <1>3 DEF Inv, Bisecting
  <2> QED BY <1>2, <1>9, <2>1 DEF Undecided
<1>11. ASSUME NEW i \in DOMAIN work'
       PROVE  /\ work'[i] # <<>> /\ IsInjective(work'[i])
              /\ Undecided(ToSet(work[i]))' /\ ToSet(work'[i]) \cap ToSet(trial.kept) = {}
              /\ \A j \in DOMAIN work' : i # j => ToSet(work'[i]) \cap ToSet(work'[j]) = {}
  <2>1. /\ i + 1 \in DOMAIN work /\ work'[i] = work[i + 1]
        /\ ToSet(work'[i]) \cap ToSet(b) = {}
        /\ \A j \in DOMAIN work' : i # j => ToSet(work'[i]) \cap ToSet(work'[j]) = {}
    BY <1>1, <1>2, PendingFacts
  <2>2. /\ work[i + 1] # <<>> /\ IsInjective(work[i + 1])
        /\ Undecided(ToSet(work[i + 1])) /\ ToSet(work[i + 1]) \cap ToSet(trial.kept) = {}
    BY <1>1, <2>1 DEF Inv, Bisecting
  <2>3. Undecided(ToSet(work[i]))'
    BY <1>9, <2>1, <2>2 DEF Undecided
  <2> QED BY <2>1, <2>2, <2>3
<1>12. Bisecting'
  BY <1>1, <1>2, <1>3, <1>10, <1>11 DEF Inv, Bisecting
<1> QED BY <1>5, <1>6, <1>8, <1>12 DEF Inv

\* A half split again.
LEMMA HalveKeepsInv ==
    Inv /\ TryHalf /\ Halve(Head(work), Len(Head(work)) \div 2, Len(Head(work)) \div 2 + 1) => Inv'
<1> DEFINE b == Head(work)
           m == Len(b) \div 2
           l == SubSeq(b, 1, m)
           r == SubSeq(b, m + 1, Len(b))
<1> SUFFICES ASSUME Inv, TryHalf, Halve(b, m, m + 1) PROVE Inv'
  OBVIOUS
<1>1. /\ stage = "bisect" /\ stage' = "bisect" /\ work # <<>>
      /\ UNCHANGED <<cv, plan, accepted, next>> /\ Planned' = Planned /\ Batch' = Batch
  BY TryFrame
<1>2. /\ work' = <<l, r>> \o Tail(work) /\ UNCHANGED <<trial, status, rejected>> /\ Len(b) > 1
  BY DEF Halve
<1>3. Typed' /\ Verdicts' /\ Untried' /\ VerdictsMatchDelivery'
  BY <1>1, <1>2 DEF Inv, Typed, Verdicts, Untried, OpenFrom, VerdictsMatchDelivery
<1>4. /\ b \in Seq(Placements) /\ IsInjective(b) /\ Undecided(ToSet(b))
      /\ ToSet(b) \cap ToSet(trial.kept) = {} /\ Tail(work) \in Seq(Seq(Placements))
  BY <1>1, PendingFacts
<1>5. m \in 1..(Len(b) - 1)
  <2>1. \A n \in Nat : n > 1 => n \div 2 \in 1..(n - 1)
    OBVIOUS
  <2>2. Len(b) \in Nat
    BY <1>4
  <2> QED BY <1>2, <2>1, <2>2
<1>6. /\ l \in Seq(Placements) /\ IsInjective(l) /\ ToSet(l) \subseteq ToSet(b)
      /\ r \in Seq(Placements) /\ IsInjective(r) /\ ToSet(r) \subseteq ToSet(b)
      /\ ToSet(l) \cap ToSet(r) = {}
  BY <1>4, <1>5, HalfSets
<1> HIDE DEF b, m
<1>7. l # <<>> /\ r # <<>>
  <2>1. Len(l) = m /\ Len(r) = Len(b) - m /\ Len(b) \in Nat
    BY <1>4, <1>5
  <2> HIDE DEF l, r
  <2>2. Len(l) # 0 /\ Len(r) # 0
    <3>1. m \in Int /\ m >= 1 /\ m <= Len(b) - 1
      BY <1>5, <2>1
    <3> QED BY <2>1, <3>1
  <2>3. Len(<<>>) = 0
    OBVIOUS
  <2> QED BY <2>2, <2>3
<1> HIDE DEF l, r
<1>8. /\ work' \in Seq(Seq(Placements))
      /\ \A i \in DOMAIN work' :
           \/ i = 1 /\ work'[i] = l
           \/ i = 2 /\ work'[i] = r
           \/ i - 2 \in DOMAIN Tail(work) /\ i \notin {1, 2} /\ i \in Nat /\ work'[i] = Tail(work)[i - 2]
  <2> DEFINE t == Tail(work)
  <2>1. t \in Seq(Seq(Placements)) /\ work' = <<l, r>> \o t
    BY <1>2, <1>4
  <2> HIDE DEF t
  <2>2. <<l, r>> \in Seq(Seq(Placements)) /\ Len(<<l, r>>) = 2
    BY <1>6
  <2>3. work' \in Seq(Seq(Placements)) /\ Len(work') = 2 + Len(t)
    BY <2>1, <2>2
  <2>4. \A i \in DOMAIN work' : work'[i] = IF i <= 2 THEN <<l, r>>[i] ELSE t[i - 2]
    BY <2>1, <2>2, <2>3
  <2>5. ASSUME NEW i \in DOMAIN work'
        PROVE  \/ i = 1 /\ work'[i] = l
               \/ i = 2 /\ work'[i] = r
               \/ i - 2 \in DOMAIN t /\ i \notin {1, 2} /\ i \in Nat /\ work'[i] = t[i - 2]
    BY <2>1, <2>3, <2>4
  <2> QED BY <2>3, <2>5 DEF t
<1>9. \A k \in DOMAIN Tail(work) :
        /\ Tail(work)[k] # <<>> /\ IsInjective(Tail(work)[k])
        /\ Undecided(ToSet(Tail(work)[k])) /\ ToSet(Tail(work)[k]) \cap ToSet(trial.kept) = {}
        /\ ToSet(Tail(work)[k]) \cap ToSet(b) = {}
  <2> SUFFICES ASSUME NEW k \in DOMAIN Tail(work)
               PROVE  /\ Tail(work)[k] # <<>> /\ IsInjective(Tail(work)[k])
                      /\ Undecided(ToSet(Tail(work)[k])) /\ ToSet(Tail(work)[k]) \cap ToSet(trial.kept) = {}
                      /\ ToSet(Tail(work)[k]) \cap ToSet(b) = {}
    OBVIOUS
  <2>1. /\ k + 1 \in DOMAIN work /\ Tail(work)[k] = work[k + 1]
        /\ ToSet(Tail(work)[k]) \cap ToSet(b) = {}
    BY <1>1, PendingFacts DEF b
  <2> QED BY <1>1, <2>1 DEF Inv, Bisecting
<1>10. ASSUME NEW i \in DOMAIN work'
       PROVE  /\ work'[i] # <<>> /\ IsInjective(work'[i])
              /\ Undecided(ToSet(work'[i])) /\ ToSet(work'[i]) \cap ToSet(trial.kept) = {}
  <2>1. ASSUME NEW h, ToSet(h) \subseteq ToSet(b)
        PROVE  Undecided(ToSet(h)) /\ ToSet(h) \cap ToSet(trial.kept) = {}
    BY <1>4, <2>1, Zenon DEF Undecided
  <2>2. CASE work'[i] = l
    BY <1>6, <1>7, <2>1, <2>2, Zenon
  <2>3. CASE work'[i] = r
    BY <1>6, <1>7, <2>1, <2>3, Zenon
  <2>4. CASE i - 2 \in DOMAIN Tail(work) /\ work'[i] = Tail(work)[i - 2]
    BY <1>9, <2>4, Zenon
  <2> QED BY <1>8, <2>2, <2>3, <2>4, Zenon
<1>11. ASSUME NEW i \in DOMAIN work', NEW j \in DOMAIN work', i # j
       PROVE  ToSet(work'[i]) \cap ToSet(work'[j]) = {}
  <2>1. CASE i \in {1, 2} /\ j \in {1, 2}
    BY <1>6, <1>8, <1>11, <2>1
  <2>2. CASE i \in {1, 2} /\ j \notin {1, 2}
    BY <1>6, <1>8, <1>9, <2>2
  <2>3. CASE i \notin {1, 2} /\ j \in {1, 2}
    BY <1>6, <1>8, <1>9, <2>3
  <2>4. CASE i \notin {1, 2} /\ j \notin {1, 2}
    <3>1. /\ i - 2 \in DOMAIN Tail(work) /\ work'[i] = Tail(work)[i - 2]
          /\ j - 2 \in DOMAIN Tail(work) /\ work'[j] = Tail(work)[j - 2]
      BY <1>8, <2>4
    <3>2. i - 2 # j - 2
      BY <1>8, <1>11
    <3> QED BY <1>1, <3>1, <3>2, PendingFacts
  <2> QED BY <2>1, <2>2, <2>3, <2>4
<1>12. Bisecting'
  <2>1. \A i \in DOMAIN work' : Undecided(ToSet(work[i]))'
    BY <1>1, <1>2, <1>10 DEF Undecided
  <2> QED BY <1>1, <1>2, <1>8, <1>10, <1>11, <2>1 DEF Inv, Bisecting, Undecided
<1> QED BY <1>3, <1>12 DEF Inv

\* So any trial keeps the invariant.
LEMMA TryKeepsInv == Inv /\ TryHalf => Inv'
BY TryFrame, KeepKeepsInv, DropKeepsInv, HalveKeepsInv

\* A batch judged.
LEMMA JudgeKeepsInv == Inv /\ JudgeBatch => Inv'
<1> SUFFICES ASSUME Inv, JudgeBatch PROVE Inv'
  OBVIOUS
<1> DEFINE k == trial.kept
<1>1. /\ stage = "judge" /\ stage' = "batches" /\ next' = next + BatchSize /\ cv' = cv /\ Planned' = Planned
      /\ \/ /\ plan' = trial.plan /\ accepted' = accepted \o k
            /\ status' = Record(k, "accepted") /\ rejected' = rejected
         \/ /\ status' = Record(k, "rejected") /\ rejected' = rejected \cup ToSet(k)
            /\ UNCHANGED <<plan, accepted>>
  BY Zenon DEF JudgeBatch, Planned
<1>2. /\ Typed /\ next <= Len(Planned) /\ k \in Seq(Placements) /\ Undecided(ToSet(k))
      /\ DOMAIN trial.plan = PlanFields /\ trial.plan.changes = plan.changes \cup ToSet(k)
  BY <1>1 DEF Inv, Bisecting
<1>3. accepted \in Seq(Placements) /\ next \in Nat \ {0} /\ next' \in Nat \ {0}
  BY <1>1, <1>2, OptimizerAssumption DEF Typed
<1>4. accepted \o k \in Seq(Placements) /\ ToSet(accepted \o k) = ToSet(accepted) \cup ToSet(k)
  BY <1>2, <1>3, ConcatSet
<1>5. PICK st \in {"accepted", "rejected"} :
        /\ status' = Record(k, st)
        /\ st = "accepted" => plan' = trial.plan /\ accepted' = accepted \o k /\ rejected' = rejected
        /\ st = "rejected" => UNCHANGED <<plan, accepted>> /\ rejected' = rejected \cup ToSet(k)
  BY <1>1
<1>6. /\ DOMAIN status' = DOMAIN status
      /\ \A a \in DOMAIN status : status'[a] = IF a \in ToSet(k) THEN st ELSE status[a]
  BY <1>2, <1>5, RecordFacts DEF Undecided
<1>7. Typed'
  BY <1>1, <1>2, <1>3, <1>4, <1>5, <1>6 DEF Typed
<1>8. Verdicts'
  <2> SUFFICES ASSUME NEW a \in DOMAIN status
               PROVE  /\ status'[a] \in {"not_evaluated", "accepted", "rejected"}
                      /\ (status'[a] = "accepted") <=> (a \in ToSet(accepted'))
                      /\ (status'[a] = "accepted") <=> (a \in plan'.changes)
                      /\ (status'[a] = "rejected") <=> (a \in rejected')
    BY <1>6 DEF Verdicts
  <2>1. /\ status[a] \in {"not_evaluated", "accepted", "rejected"}
        /\ (status[a] = "accepted") <=> (a \in ToSet(accepted))
        /\ (status[a] = "accepted") <=> (a \in plan.changes)
        /\ (status[a] = "rejected") <=> (a \in rejected)
    BY <1>1 DEF Inv, Verdicts
  <2>2. CASE a \in ToSet(k)
    BY <1>2, <1>4, <1>5, <1>6, <2>1, <2>2 DEF Undecided
  <2>3. CASE a \notin ToSet(k)
    BY <1>2, <1>4, <1>5, <1>6, <2>1, <2>3
  <2> QED BY <2>2, <2>3
<1>9. Untried'
  <2>1. \A i \in DOMAIN Planned : i >= next + BatchSize =>
           /\ Planned[i] \in DOMAIN status /\ Planned[i] \notin ToSet(k)
           /\ status[Planned[i]] = "not_evaluated"
    BY <1>1, <1>2, BatchFacts DEF Inv, Typed, Untried, OpenFrom, Undecided, ToSet
  <2> QED BY <1>1, <1>6, <2>1 DEF Untried, OpenFrom
<1>10. Bisecting' /\ VerdictsMatchDelivery'
  BY <1>1 DEF Bisecting, VerdictsMatchDelivery
<1> QED BY <1>7, <1>8, <1>9, <1>10 DEF Inv

\* Nothing changes, nothing breaks.
LEMMA StutterKeepsInv == Inv /\ UNCHANGED vars => Inv'
BY DEF Inv, Typed, Verdicts, Untried, Bisecting, OpenFrom, Undecided, VerdictsMatchDelivery,
       Planned, Batch, vars

\* Every step keeps the invariant.
LEMMA NextInv == Inv /\ [Next]_vars => Inv'
BY ProjectKeepsInv, QualityKeepsInv, EndQualityKeepsInv, StartKeepsInv, TryKeepsInv,
   EndBisectionKeepsInv, JudgeKeepsInv, EndBatchesKeepsInv, PruneKeepsInv, EndPruneKeepsInv,
   ReorderKeepsInv, DeliverKeepsInv, StutterKeepsInv, Zenon DEF Next, Done

\* The bookkeeping of a run: verdicts, plan, trace and halves agree at every step.
THEOREM InvariantHolds == Spec => []Inv
BY InitInv, NextInv, PTL DEF Spec

\* Whatever is planned and whatever the validators find, a proposal is recorded
\* accepted, rejected or rolled back exactly as the delivered document has it.
THEOREM RecordIsHonest == Spec => []VerdictsMatchDelivery
<1>1. Inv => VerdictsMatchDelivery
  BY DEF Inv
<1> QED BY <1>1, InvariantHolds, PTL

(***************************************************************************)
(* Steps                                                                   *)
(***************************************************************************)
\* The verdict of a proposal is never overwritten: only a rollback or the
\* closing of the record touches an accepted one.
THEOREM VerdictsGivenOnce == Spec => VerdictsAreFinal
<1> DEFINE Once(a) == status'[a] # status[a] =>
                 \/ status[a] = "not_evaluated"
                 \/ status[a] = "accepted" /\ stage = "final" /\ status'[a] \in {"rolled_back", "no_op"}
<1>1. Inv /\ [Next]_vars => \A a \in DOMAIN status : Once(a)
  <2> SUFFICES ASSUME Inv, [Next]_vars, NEW a \in DOMAIN status, status'[a] # status[a]
               PROVE  Once(a)
    OBVIOUS
  <2>1. stage # "done" => status[a] \in {"not_evaluated", "accepted", "rejected"}
    BY DEF Inv, Verdicts
  <2>2. CASE ProjectSource
    <3>1. stage = "project"
      BY <2>2 DEF ProjectSource
    <3>2. status[a] = "not_evaluated"
      BY <3>1, PlannedFacts DEF Inv, Typed, Untried, OpenFrom, ToSet
    <3> QED BY <3>2
  <2>3. CASE TryHalf
    <3>1. \/ UNCHANGED status
          \/ Drop(Head(work))
      BY <2>3, TryFrame DEF Keep, Halve
    <3>2. ASSUME Drop(Head(work)) PROVE status' = Record(Head(work), "rejected")
      BY <3>2 DEF Drop
    <3> QED BY <3>1, <3>2, RecordFacts
  <2>4. CASE JudgeBatch
    <3>1. \E st : status' = Record(trial.kept, st)
      BY <2>4, Zenon DEF JudgeBatch
    <3> QED BY <3>1, RecordFacts
  <2>5. CASE Deliver
    <3>1. /\ stage = "final"
          /\ status' = Closed(RolledBack(status)) \/ status' = Closed(status)
      BY <2>5, Zenon DEF Deliver, Finish
    <3>2. /\ DOMAIN RolledBack(status) = DOMAIN status
          /\ RolledBack(status)[a] = IF status[a] = "accepted" THEN "rolled_back" ELSE status[a]
      BY DEF RolledBack
    <3> QED BY <2>1, <3>1, <3>2, ClosedRecord
  <2>6. CASE UNCHANGED status
    BY <2>6
  <2> QED BY <2>2, <2>3, <2>4, <2>5, <2>6, Zenon
           DEF Next, Done, vars, TryQuality, EndQuality, StartBatch, EndBisection, EndBatches,
               TryPrune, EndPrune, ReorderSkills
<1> QED BY <1>1, InvariantHolds, PTL DEF VerdictsAreFinal, Spec

\* The bisection drops an action only for what it does by itself, on top of
\* what it had kept by then.
THEOREM OnlyUnsafeDropped == Spec => OnlyUnsafeActionsDropped
<1> DEFINE Alone == \A a \in DOMAIN status :
        stage = "bisect" /\ status'[a] # status[a] =>
            /\ status'[a] = "rejected" /\ ~Safe(trial.plan, <<a>>)
            /\ a \notin ToSet(trial'.kept)
<1>1. Inv /\ [Next]_vars => Alone
  <2> SUFFICES ASSUME Inv, [Next]_vars, NEW a \in DOMAIN status,
                      stage = "bisect", status'[a] # status[a]
               PROVE  /\ status'[a] = "rejected" /\ ~Safe(trial.plan, <<a>>)
                      /\ a \notin ToSet(trial'.kept)
    OBVIOUS
  <2>1. TryHalf
    BY Zenon DEF Next, Done, vars, ProjectSource, TryQuality, EndQuality, StartBatch, EndBisection,
        JudgeBatch, EndBatches, TryPrune, EndPrune, ReorderSkills, Deliver
  <2>2. Len(Head(work)) = 1 /\ Drop(Head(work)) /\ work # <<>>
    BY <2>1, TryFrame DEF Keep, Halve
  <2>3. /\ status' = Record(Head(work), "rejected") /\ trial' = trial
        /\ ~Safe(trial.plan, Head(work))
    BY <2>2 DEF Drop
  <2>4. a \in ToSet(Head(work)) /\ status'[a] = "rejected"
    BY <2>3, RecordFacts
  <2>5. Head(work) \in Seq(Placements) /\ ToSet(Head(work)) \cap ToSet(trial.kept) = {}
    BY <2>2, PendingFacts
  <2>6. Head(work) = <<a>>
    BY <2>2, <2>4, <2>5 DEF ToSet
  <2> QED BY <2>3, <2>4, <2>5, <2>6
<1> QED BY <1>1, InvariantHolds, PTL DEF OnlyUnsafeActionsDropped, Spec

\* A reader never gets a document that states a requirement less often, or
\* scores lower, than the resume that was uploaded.
THEOREM FloorHolds == Spec => []NeverWeakerThanSource
<1>1. Init => NeverWeakerThanSource
  BY DEF Init, NeverWeakerThanSource
<1>2. Inv /\ NeverWeakerThanSource /\ [Next]_vars => NeverWeakerThanSource'
  <2> SUFFICES ASSUME Inv, NeverWeakerThanSource, [Next]_vars, stage' = "done"
               PROVE  NeverWeakerThanSource'
    BY DEF NeverWeakerThanSource
  <2>1. CASE ProjectSource \/ Deliver
    <3>1. /\ cv' = cv /\ accepted' = accepted
          /\ \/ delivered' = cv.source
             \/ /\ delivered' = plan /\ Preserves(cv, plan)
                /\ ~(Evaluation(plan, accepted).score < OriginalScore(cv))
      <4>1. CASE ProjectSource
        BY <4>1, Zenon DEF ProjectSource, Finish
      <4>2. CASE Deliver
        BY <4>2, Zenon DEF Deliver, Finish, search
      <4> QED BY <2>1, <4>1, <4>2
    <3>2. cv.source.removed = <<>>
      BY PlannedFacts DEF Inv
    <3>3. CASE delivered' = cv.source
      BY <3>1, <3>2, <3>3, Zenon DEF NeverWeakerThanSource
    <3>4. CASE delivered' = plan /\ Preserves(cv, plan)
                 /\ ~(Evaluation(plan, accepted).score < OriginalScore(cv))
      BY <3>1, <3>4, Zenon DEF NeverWeakerThanSource, Preserves, Evaluation
    <3> QED BY <3>1, <3>3, <3>4
  <2>2. CASE UNCHANGED vars
    BY <2>2, Zenon DEF vars, NeverWeakerThanSource, Evaluation
  <2>3. CASE TryHalf
    BY <2>3, TryFrame
  <2> QED BY <2>1, <2>2, <2>3, Zenon
           DEF Next, Done, TryQuality, EndQuality, StartBatch, EndBisection, JudgeBatch, EndBatches,
               TryPrune, EndPrune, ReorderSkills
<1> QED BY <1>1, <1>2, InvariantHolds, PTL DEF Spec

(***************************************************************************)
(* The removals to try                                                     *)
(***************************************************************************)
LEMMA EarlierOrder ==
    /\ \A s \in Slots : ~Earlier(s, s)
    /\ \A s, u \in Slots : s # u => Earlier(s, u) \/ Earlier(u, s)
    /\ \A s, u, w \in Slots : Earlier(s, u) /\ Earlier(u, w) => Earlier(s, w)
<1>1. \A s \in Slots : s[1] \in Nat /\ s[2] \in Nat /\ s = <<s[1], s[2]>>
  BY DocumentAssumption
<1>2. \A s \in Slots : ~Earlier(s, s)
  BY <1>1 DEF Earlier
<1>3. ASSUME NEW s \in Slots, NEW u \in Slots, s # u PROVE Earlier(s, u) \/ Earlier(u, s)
  <2>1. s[1] # u[1] \/ s[2] # u[2]
    BY <1>1, <1>3
  <2> QED BY <1>1, <2>1 DEF Earlier
<1>4. \A s, u, w \in Slots : Earlier(s, u) /\ Earlier(u, w) => Earlier(s, w)
  BY <1>1 DEF Earlier
<1> QED BY <1>2, <1>3, <1>4

\* Screened bullets are proposed once each.
LEMMA RankedOnce ==
    ASSUME NEW S \in SUBSET Slots
    PROVE  LET rank == [s \in S |-> Cardinality({u \in S : Earlier(u, s)})]
               q == [i \in 1..Cardinality(S) |-> CHOOSE s \in S : rank[s] = i - 1]
           IN  q \in Seq(S) /\ IsInjective(q)
<1> DEFINE n == Cardinality(S)
           Before(s) == {u \in S : Earlier(u, s)}
           rank == [s \in S |-> Cardinality(Before(s))]
           q == [i \in 1..n |-> CHOOSE s \in S : rank[s] = i - 1]
<1>1. IsFiniteSet(S) /\ n \in Nat
  BY DocumentAssumption, FS_Subset, FS_CardinalityType
<1> HIDE DEF n
<1>2. ASSUME NEW s \in S
      PROVE  IsFiniteSet(Before(s)) /\ rank[s] \in Nat /\ s \notin Before(s) /\ Before(s) \subseteq S
  <2>1. Before(s) \in SUBSET S /\ s \notin Before(s)
    BY EarlierOrder
  <2>2. IsFiniteSet(Before(s))
    BY <1>1, <2>1, FS_Subset
  <2>3. Cardinality(Before(s)) \in Nat
    BY <2>2, FS_CardinalityType
  <2> QED BY <2>1, <2>2, <2>3
<1>3. ASSUME NEW s \in S, NEW T \in SUBSET S, Before(s) \cup {s} \subseteq T PROVE rank[s] < Cardinality(T)
  <2> DEFINE B == Before(s)
             C == B \cup {s}
  <2>1. IsFiniteSet(B) /\ s \notin B /\ Cardinality(B) \in Nat /\ rank[s] = Cardinality(B)
    BY <1>2
  <2>2. IsFiniteSet(T) /\ C \in SUBSET T
    BY <1>1, <1>3, FS_Subset
  <2> HIDE DEF B
  <2>3. IsFiniteSet(C) /\ Cardinality(C) = Cardinality(B) + 1
    BY <2>1, FS_AddElement
  <2> HIDE DEF C
  <2>4. Cardinality(C) <= Cardinality(T) /\ Cardinality(T) \in Nat
    BY <2>2, FS_Subset, FS_CardinalityType
  <2> QED BY <2>1, <2>3, <2>4
<1>4. \A s \in S : rank[s] \in 0..(n - 1)
  <2> SUFFICES ASSUME NEW s \in S PROVE rank[s] \in 0..(n - 1)
    OBVIOUS
  <2>1. Before(s) \cup {s} \subseteq S
    OBVIOUS
  <2>2. rank[s] < Cardinality(S)
    BY <1>3, <2>1
  <2>3. rank[s] \in Nat /\ rank[s] < n
    BY <1>2, <2>2 DEF n
  <2> HIDE DEF rank
  <2> QED BY <1>1, <2>3
<1>5. ASSUME NEW s \in S, NEW t \in S, Earlier(s, t) PROVE rank[s] < rank[t]
  <2>1. Before(t) \in SUBSET S /\ Before(s) \cup {s} \subseteq Before(t)
    BY <1>5, EarlierOrder
  <2>2. rank[s] < Cardinality(Before(t))
    BY <1>3, <2>1
  <2> QED BY <2>2
<1>6. \A s, t \in S : s # t => rank[s] # rank[t]
  <2> SUFFICES ASSUME NEW s \in S, NEW t \in S, s # t PROVE rank[s] # rank[t]
    OBVIOUS
  <2>1. rank[s] < rank[t] \/ rank[t] < rank[s]
    BY <1>5, EarlierOrder
  <2>2. rank[s] \in Nat /\ rank[t] \in Nat
    BY <1>2
  <2> HIDE DEF rank
  <2> QED BY <2>1, <2>2
<1>7. rank \in Injection(S, 0..(n - 1))
  <2>1. rank \in [S -> 0..(n - 1)]
    BY <1>4
  <2>2. IsInjective(rank)
    <3>1. DOMAIN rank = S
      OBVIOUS
    <3> HIDE DEF rank
    <3> QED BY <1>6, <3>1 DEF IsInjective
  <2> HIDE DEF rank
  <2> QED BY <2>1, <2>2 DEF Injection
<1>8. IsFiniteSet(0..(n - 1)) /\ Cardinality(0..(n - 1)) = n
  BY <1>1, FS_Interval
<1> HIDE DEF rank
<1>9. rank \in Surjection(S, 0..(n - 1))
  <2> DEFINE T == 0..(n - 1)
  <2>1. IsFiniteSet(T) /\ rank \in Injection(S, T) /\ Cardinality(S) = Cardinality(T)
    BY <1>7, <1>8 DEF n
  <2> HIDE DEF T
  <2>2. rank \in Surjection(S, T)
    BY <2>1, FS_Injection
  <2> QED BY <2>2 DEF T
<1>10. \A i \in 1..n : \E s \in S : rank[s] = i - 1
  <2> SUFFICES ASSUME NEW i \in 1..n PROVE \E s \in S : rank[s] = i - 1
    OBVIOUS
  <2>1. i - 1 \in 0..(n - 1)
    BY <1>1
  <2> QED BY <1>9, <2>1 DEF Surjection
<1>11. \A i \in 1..n : q[i] \in S /\ rank[q[i]] = i - 1
  BY <1>10
<1>12. q \in Seq(S)
  BY <1>1, <1>11
<1>13. IsInjective(q)
  <2>1. DOMAIN q = 1..n
    OBVIOUS
  <2> HIDE DEF q
  <2>2. \A i, j \in 1..n : q[i] = q[j] => i = j
    <3> SUFFICES ASSUME NEW i \in 1..n, NEW j \in 1..n, q[i] = q[j] PROVE i = j
      OBVIOUS
    <3>1. i - 1 = j - 1
      BY <1>11
    <3> QED BY <1>1, <3>1
  <2> QED BY <2>1, <2>2 DEF IsInjective
<1> QED BY <1>12, <1>13 DEF q, rank, n

LEMMA ProposedOnce ==
    ASSUME NEW c, NEW p
    PROVE  /\ PruneProposals(c, p) \in Seq(Slots) /\ IsInjective(PruneProposals(c, p))
           /\ \A i \in DOMAIN PruneProposals(c, p) : p.bullets[PruneProposals(c, p)[i]] # Blank
<1> DEFINE S == {s \in Slots : Screened(c, p, s)}
           q == PruneProposals(c, p)
<1>1. S \in SUBSET Slots /\ \A s \in S : p.bullets[s] # Blank
  BY DEF Screened
<1>2. q = [i \in 1..Cardinality(S) |-> CHOOSE s \in S : Cardinality({u \in S : Earlier(u, s)}) = i - 1]
  BY DEF PruneProposals
<1> HIDE DEF S, q
<1> DEFINE rank == [s \in S |-> Cardinality({u \in S : Earlier(u, s)})]
           r == [i \in 1..Cardinality(S) |-> CHOOSE s \in S : rank[s] = i - 1]
<1>3. r \in Seq(S) /\ IsInjective(r)
  BY <1>1, RankedOnce
<1>4. \A s \in S : rank[s] = Cardinality({u \in S : Earlier(u, s)})
  OBVIOUS
<1>5. \A i \in 1..Cardinality(S) :
         (CHOOSE s \in S : rank[s] = i - 1) = CHOOSE s \in S : Cardinality({u \in S : Earlier(u, s)}) = i - 1
  BY <1>4
<1>6. q = r
  BY <1>2, <1>5
<1> HIDE DEF r
<1>7. q \in Seq(Slots) /\ \A i \in DOMAIN q : q[i] \in S
  BY <1>1, <1>3, <1>6
<1> QED BY <1>1, <1>3, <1>6, <1>7 DEF q

(***************************************************************************)
(* The bullets of a plan                                                   *)
(***************************************************************************)
Early == {"project", "quality", "batches", "bisect", "judge"}

\* No bullet of the plan is gone.
Whole(c, p) ==
    /\ p.removed = <<>> /\ DOMAIN p.bullets = Slots
    /\ \A s \in Slots : Stands(c, p.bullets[s], s)

\* Nothing is removed before the placements are settled.
Intact ==
    /\ stage \in Early => Whole(cv, plan)
    /\ stage \in {"bisect", "judge"} => Whole(cv, trial.plan)

\* The ledger holds what is gone, and the rest stands.
Ledgered(c, p) ==
    /\ DOMAIN p.bullets = Slots
    /\ \A s \in Slots : p.bullets[s] = Blank \/ Stands(c, p.bullets[s], s)
    /\ p.removed \in Seq([at : Slots, id : Nat])
    /\ \A i, j \in DOMAIN p.removed : p.removed[i].at = p.removed[j].at => i = j
    /\ \A s \in Slots : p.bullets[s] = Blank <=> \E i \in DOMAIN p.removed : p.removed[i].at = s

\* What a removal leaves behind in its role.
InRole(p, role) == {s \in Live(p) : s[1] = role}
Covered(c, p) ==
    \A i \in DOMAIN p.removed :
        LET gone == p.removed[i].at
        IN  /\ p.removed[i].id = c.source.bullets[gone].id /\ ~c.source.bullets[gone].fact
            /\ Cardinality(InRole(p, gone[1])) >= RoleFloor(gone[1])
            /\ c.source.bullets[gone].names \subseteq UNION {p.bullets[s].names : s \in InRole(p, gone[1])}

\* A removal is tried once.
Queued ==
    stage = "prune" =>
        /\ queue \in Seq(Slots) /\ IsInjective(queue)
        /\ \A i \in DOMAIN queue : plan.bullets[queue[i]] # Blank

Accounts == Intact /\ Ledgered(cv, plan) /\ Covered(cv, plan) /\ Queued

\* A bullet that stands is not an empty slot.
LEMMA StandsNotBlank == ASSUME NEW c, NEW b, NEW s, Stands(c, b, s) PROVE b # Blank
BY DEF Stands, Blank

\* A whole plan owes the ledger nothing.
LEMMA WholeLedger ==
    ASSUME NEW c, NEW p, Whole(c, p)
    PROVE  Ledgered(c, p) /\ Covered(c, p)
<1>1. p.removed \in Seq([at : Slots, id : Nat]) /\ DOMAIN p.removed = {}
  BY DEF Whole
<1>2. \A s \in Slots : p.bullets[s] # Blank /\ Stands(c, p.bullets[s], s)
  BY StandsNotBlank, Zenon DEF Whole
<1> QED BY <1>1, <1>2 DEF Whole, Ledgered, Covered

\* The source projection is whole.
LEMMA InitAccounts == Init => Accounts
<1> SUFFICES ASSUME Init PROVE Accounts
  OBVIOUS
<1>1. cv \in Cases /\ plan = cv.source /\ stage = "project"
  BY DEF Init
<1>2. Whole(cv, plan)
  BY <1>1, CasesAssumption, BulletsAssumption DEF Whole
<1> QED BY <1>1, <1>2, WholeLedger DEF Accounts, Intact, Queued

\* A substitution keeps what a bullet is.
LEMMA RespelledStands ==
    ASSUME NEW c, NEW b, NEW s, NEW terms, Stands(c, b, s)
    PROVE  Stands(c, RespellBullet(b, terms), s)
<1>1. /\ DOMAIN RespellBullet(b, terms) = DOMAIN b
      /\ RespellBullet(b, terms).id = b.id /\ RespellBullet(b, terms).fact = b.fact
      /\ RespellBullet(b, terms).names = b.names
  BY DEF RespellBullet, Stands, Blank
<1> HIDE DEF RespellBullet
<1> QED BY <1>1 DEF Stands

LEMMA AppliedWhole ==
    ASSUME NEW c, NEW p, NEW actions, Whole(c, p)
    PROVE  Whole(c, ApplyActions(c, p, actions))
<1> DEFINE a == ApplyActions(c, p, actions)
<1>1. a.removed = p.removed /\ \E f : a.bullets = [s \in Slots |-> RespellBullet(p.bullets[s], f[s])]
  <2> DEFINE safe == SelectSeq(Respelling(actions), LAMBDA x : ~VariantFails(c, Placed(c, p, actions), x))
             f == [s \in Slots |-> ToSet(TermsAt(safe, s))]
  <2>1. a.removed = p.removed /\ a.bullets = [s \in Slots |-> RespellBullet(p.bullets[s], ToSet(TermsAt(safe, s)))]
    BY Zenon DEF ApplyActions
  <2>2. \A s \in Slots : f[s] = ToSet(TermsAt(safe, s))
    OBVIOUS
  <2> HIDE DEF f, safe, a
  <2>3. a.bullets = [s \in Slots |-> RespellBullet(p.bullets[s], f[s])]
    BY <2>1, <2>2
  <2> QED BY <2>1, <2>3
<1> HIDE DEF a
<1>2. PICK f : a.bullets = [s \in Slots |-> RespellBullet(p.bullets[s], f[s])]
  BY <1>1
<1>3. \A s \in Slots : Stands(c, a.bullets[s], s)
  BY <1>2, RespelledStands DEF Whole
<1> QED BY <1>1, <1>2, <1>3 DEF Whole, a

LEMMA ThreeThen ==
    ASSUME NEW S, NEW a \in S, NEW b \in S, NEW c \in S, NEW t \in Seq(S)
    PROVE  LET q == <<a, b>> \o (<<c>> \o t)
           IN  /\ q \in Seq(S) /\ Len(q) = 3 + Len(t) /\ q[1] = a /\ q[2] = b /\ q[3] = c
               /\ \A i \in DOMAIN q : i > 3 => i - 3 \in DOMAIN t /\ q[i] = t[i - 3]
<1> DEFINE r == <<c>> \o t
           q == <<a, b>> \o r
<1>1. r \in Seq(S) /\ Len(r) = 1 + Len(t) /\ r[1] = c /\ \A i \in 1..Len(t) : r[1 + i] = t[i]
  OBVIOUS
<1> HIDE DEF r
<1>2. /\ q \in Seq(S) /\ Len(q) = 2 + Len(r) /\ q[1] = a /\ q[2] = b
      /\ \A i \in 1..Len(r) : q[2 + i] = r[i]
  BY <1>1
<1> HIDE DEF q
<1>3. q[3] = c
  <2>1. q[2 + 1] = r[1]
    BY <1>1, <1>2
  <2> QED BY <1>1, <2>1
<1>4. ASSUME NEW i \in DOMAIN q, i > 3 PROVE i - 3 \in DOMAIN t /\ q[i] = t[i - 3]
  <2>1. i \in Nat /\ i - 3 \in 1..Len(t) /\ i - 2 \in 1..Len(r)
    BY <1>1, <1>2, <1>4
  <2>2. q[2 + (i - 2)] = r[i - 2] /\ r[1 + (i - 3)] = t[i - 3]
    BY <1>1, <1>2, <2>1
  <2>3. 2 + (i - 2) = i /\ 1 + (i - 3) = i - 2
    BY <2>1
  <2> QED BY <2>1, <2>2, <2>3
<1> QED BY <1>1, <1>2, <1>3, <1>4 DEF q, r

\* The quality proposals, in order.
LEMMA QualityShape ==
    ASSUME Typed
    PROVE  /\ Qualities \in Seq(Labels)
           /\ Qualities[1] = Label("quality", 0, Headline) /\ Qualities[2] = Label("quality", 0, Summary)
           /\ \A i \in DOMAIN Qualities :
                /\ i = 3 => Qualities[i] = Label("ai", 0, Summary)
                /\ i > 3 => /\ i - 3 \in DOMAIN cv.rewritten
                            /\ Qualities[i] = Label("ai", 0, cv.rewritten[i - 3])
<1> DEFINE ai == [i \in DOMAIN cv.rewritten |-> Label("ai", 0, cv.rewritten[i])]
           a == Label("quality", 0, Headline)
           b == Label("quality", 0, Summary)
           c == Label("ai", 0, Summary)
<1>1. cv.rewritten \in Seq(Slots)
  BY CasesAssumption DEF Typed
<1>2. \A at \in Locations : Label("quality", 0, at) \in Labels /\ Label("ai", 0, at) \in Labels
  BY DocumentAssumption DEF Label, Labels
<1>3. a \in Labels /\ b \in Labels /\ c \in Labels
  BY <1>2 DEF Locations
<1>4. ai \in Seq(Labels) /\ DOMAIN ai = DOMAIN cv.rewritten
  <2>1. \A i \in DOMAIN cv.rewritten : cv.rewritten[i] \in Locations
    BY <1>1 DEF Locations
  <2>2. \A i \in DOMAIN cv.rewritten : Label("ai", 0, cv.rewritten[i]) \in Labels
    BY <1>2, <2>1
  <2> QED BY <1>1, <2>2
<1>5. \A i \in DOMAIN cv.rewritten : ai[i] = Label("ai", 0, cv.rewritten[i])
  OBVIOUS
<1>6. Qualities = <<a, b>> \o (IF cv.prose THEN <<c>> \o ai ELSE <<>>)
  BY DEF Qualities
<1> HIDE DEF ai, a, b, c
<1>7. CASE cv.prose
  <2>1. Qualities = <<a, b>> \o (<<c>> \o ai)
    BY <1>6, <1>7
  <2>2. /\ Qualities \in Seq(Labels) /\ Qualities[1] = a /\ Qualities[2] = b /\ Qualities[3] = c
        /\ \A i \in DOMAIN Qualities : i > 3 => i - 3 \in DOMAIN ai /\ Qualities[i] = ai[i - 3]
    BY <1>3, <1>4, <2>1, ThreeThen
  <2> QED BY <1>4, <1>5, <2>2 DEF a, b, c
<1>8. CASE ~cv.prose
  <2>1. Qualities = <<a, b>>
    BY <1>3, <1>6, <1>8
  <2>2. Qualities \in Seq(Labels) /\ DOMAIN Qualities = 1..2 /\ Qualities[1] = a /\ Qualities[2] = b
    BY <1>3, <2>1
  <2> QED BY <2>2 DEF a, b
<1> QED BY <1>7, <1>8

\* No quality proposal is made twice.
LEMMA QualityOnce ==
    ASSUME Typed
    PROVE  IsInjective(Qualities)
<1>1. cv.rewritten \in Seq(Slots) /\ IsInjective(cv.rewritten)
  BY CasesAssumption DEF Typed
<1>2. Headline \notin Slots /\ Summary \notin Slots /\ Headline # Summary
  BY DocumentAssumption DEF Headline, Summary
<1>3. \A op1, op2, at1, at2 : Label(op1, 0, at1) = Label(op2, 0, at2) => op1 = op2 /\ at1 = at2
  BY DEF Label
<1>4. \A i \in DOMAIN Qualities : i \in Nat \ {0}
  BY QualityShape
<1>5. ASSUME NEW i \in DOMAIN Qualities, NEW j \in DOMAIN Qualities, i < j PROVE Qualities[i] # Qualities[j]
  <2>1. CASE j = 2
    <3>1. i = 1
      BY <1>4, <1>5, <2>1
    <3> QED BY <1>2, <1>3, <2>1, <3>1, QualityShape
  <2>2. CASE j = 3
    <3>1. i = 1 \/ i = 2
      BY <1>4, <1>5, <2>2
    <3>2. Qualities[j] = Label("ai", 0, Summary)
      BY <2>2, QualityShape
    <3> QED BY <1>3, <3>1, <3>2, QualityShape
  <2>3. CASE j > 3
    <3>1. j - 3 \in DOMAIN cv.rewritten /\ Qualities[j] = Label("ai", 0, cv.rewritten[j - 3])
          /\ cv.rewritten[j - 3] \in Slots
      BY <1>1, <2>3, QualityShape
    <3>2. CASE i <= 2
      <4>1. i = 1 \/ i = 2
        BY <1>4, <3>2
      <4> QED BY <1>3, <3>1, <4>1, QualityShape
    <3>3. CASE i = 3
      <4>1. Qualities[i] = Label("ai", 0, Summary)
        BY <3>3, QualityShape
      <4> QED BY <1>2, <1>3, <3>1, <4>1
    <3>4. CASE i > 3
      <4>1. i - 3 \in DOMAIN cv.rewritten /\ Qualities[i] = Label("ai", 0, cv.rewritten[i - 3])
        BY <3>4, QualityShape
      <4>2. i - 3 # j - 3
        BY <1>4, <1>5
      <4>3. cv.rewritten[i - 3] # cv.rewritten[j - 3]
        BY <1>1, <3>1, <4>1, <4>2 DEF IsInjective
      <4> QED BY <1>3, <3>1, <4>1, <4>3
    <3> QED BY <1>4, <3>2, <3>3, <3>4
  <2> QED BY <1>4, <1>5, <2>1, <2>2, <2>3
<1>6. \A i, j \in DOMAIN Qualities : i # j => i < j \/ j < i
  BY <1>4
<1> QED BY <1>5, <1>6 DEF IsInjective

\* A quality proposal leaves every bullet standing.
LEMMA ProposedWhole ==
    ASSUME Typed, Whole(cv, plan), next <= Len(Qualities)
    PROVE  Whole(cv, Proposed(Qualities[next]))
<1> DEFINE q == Qualities[next]
<1>1. cv.rewritten \in Seq(Slots) /\ \A i \in DOMAIN cv.rewritten : Stands(cv, cv.rewrites[cv.rewritten[i]], cv.rewritten[i])
  BY CasesAssumption, BulletsAssumption DEF Typed
<1>2. q.at \in {Headline, Summary} \/ \E i \in DOMAIN cv.rewritten : q.at = cv.rewritten[i]
  <2>1. next \in DOMAIN Qualities /\ next \in Nat \ {0}
    BY QualityShape DEF Typed
  <2>2. \A op, at : Label(op, 0, at).at = at
    BY DEF Label
  <2>3. next = 1 \/ next = 2 \/ next = 3 \/ next > 3
    BY <2>1
  <2> QED BY <2>1, <2>2, <2>3, QualityShape
<1> HIDE DEF q
<1>3. Headline \notin Slots /\ Summary \notin Slots
  BY DocumentAssumption DEF Headline, Summary
<1>4. CASE q.at \in {Headline, Summary}
  <2>1. CASE q.at = Headline
    <3>0. Headline # Summary
      BY DEF Headline, Summary
    <3>1. Proposed(q) = [plan EXCEPT !.headline = cv.newHeadline, !.changes = plan.changes \cup {q}]
      BY <2>1, <3>0 DEF Proposed
    <3>2. Proposed(q).removed = plan.removed /\ Proposed(q).bullets = plan.bullets
      BY <3>1 DEF Typed, PlanFields
    <3> QED BY <3>2 DEF Whole, q
  <2>2. CASE q.at = Summary
    <3> DEFINE sm == IF q.op = "ai" THEN cv.aiSummary ELSE cv.newSummary
    <3>0. Headline # Summary
      BY DEF Headline, Summary
    <3>1. Proposed(q) = [plan EXCEPT !.summary = sm, !.cited = FALSE, !.changes = plan.changes \cup {q}]
      BY <2>2, <3>0 DEF Proposed
    <3> HIDE DEF sm
    <3>2. Proposed(q).removed = plan.removed /\ Proposed(q).bullets = plan.bullets
      BY <3>1 DEF Typed, PlanFields
    <3> QED BY <3>2 DEF Whole, q
  <2> QED BY <1>4, <2>1, <2>2
<1>5. ASSUME NEW i \in DOMAIN cv.rewritten, q.at = cv.rewritten[i] PROVE Whole(cv, Proposed(q))
  <2>1. q.at \in Slots /\ q.at # Headline /\ q.at # Summary /\ Stands(cv, cv.rewrites[q.at], q.at)
    BY <1>1, <1>3, <1>5
  <2>2. Proposed(q) = [plan EXCEPT !.bullets[q.at] = cv.rewrites[q.at], !.changes = plan.changes \cup {q}]
    BY <2>1 DEF Proposed
  <2>3. /\ Proposed(q).removed = plan.removed
        /\ Proposed(q).bullets = [plan.bullets EXCEPT ![q.at] = cv.rewrites[q.at]]
    BY <2>2 DEF Typed, PlanFields
  <2>4. \A s \in Slots : Proposed(q).bullets[s] = IF s = q.at THEN cv.rewrites[q.at] ELSE plan.bullets[s]
    BY <2>3 DEF Whole
  <2>5. \A s \in Slots : Stands(cv, Proposed(q).bullets[s], s)
    BY <2>1, <2>4, Zenon DEF Whole
  <2> QED BY <2>3, <2>5 DEF Whole
<1> QED BY <1>2, <1>4, <1>5 DEF q

(***************************************************************************)
(* Removals                                                                *)
(***************************************************************************)
\* The number of entries of a ledger for one slot.
LEMMA OneEntry ==
    ASSUME NEW c, NEW p, Ledgered(c, p), NEW s \in Slots
    PROVE  p.bullets[s] = Blank <=> Cardinality({i \in DOMAIN p.removed : p.removed[i].at = s}) = 1
<1> DEFINE E == {i \in DOMAIN p.removed : p.removed[i].at = s}
<1>1. E = {} \/ \E i \in DOMAIN p.removed : E = {i}
  BY DEF Ledgered
<1>2. p.bullets[s] = Blank <=> E # {}
  BY DEF Ledgered
<1> HIDE DEF E
<1>3. Cardinality({}) = 0 /\ \A i : Cardinality({i}) = 1
  BY FS_EmptySet, FS_Singleton
<1> QED BY <1>1, <1>2, <1>3 DEF E

\* A removal that passes the screen and the completeness check.
LEMMA RemovalKept ==
    ASSUME NEW c, NEW p, NEW h \in Slots, NEW cr, DOMAIN p = PlanFields,
           Ledgered(c, p), Covered(c, p), p.bullets[h] # Blank,
           CheckPrune(c, p, cr, h), Complete(c, Prune(p, h), Prune(p, h).removed)
    PROVE  Ledgered(c, Prune(p, h)) /\ Covered(c, Prune(p, h))
<1> DEFINE q == Prune(p, h)
           n == Len(p.removed)
           new == [at |-> h, id |-> p.bullets[h].id]
<1>1. /\ q.bullets = [p.bullets EXCEPT ![h] = Blank]
      /\ q.removed = Append(p.removed, new)
  BY DEF Prune, PlanFields
<1>2. /\ DOMAIN p.bullets = Slots /\ p.removed \in Seq([at : Slots, id : Nat]) /\ n \in Nat
      /\ DOMAIN p.removed = 1..n
  BY DEF Ledgered
<1>3. Stands(c, p.bullets[h], h) /\ p.bullets[h].id \in Nat
  BY DEF Ledgered, Stands
<1>4. new \in [at : Slots, id : Nat] /\ new.at = h /\ new.id = p.bullets[h].id
  BY <1>3
<1> HIDE DEF new, q
<1>5. /\ q.removed \in Seq([at : Slots, id : Nat]) /\ DOMAIN q.removed = 1..(n + 1)
      /\ q.removed[n + 1] = new /\ \A i \in 1..n : q.removed[i] = p.removed[i]
  BY <1>1, <1>2, <1>4
<1>6. /\ DOMAIN q.bullets = Slots
      /\ \A s \in Slots : q.bullets[s] = IF s = h THEN Blank ELSE p.bullets[s]
  BY <1>1, <1>2
<1>7. \A i \in 1..n : p.removed[i].at \in Slots /\ p.removed[i].at # h /\ p.bullets[p.removed[i].at] = Blank
  <2> SUFFICES ASSUME NEW i \in 1..n
               PROVE  p.removed[i].at \in Slots /\ p.bullets[p.removed[i].at] = Blank
    OBVIOUS
  <2>0. \A S : p.removed \in Seq(S) => \A j \in DOMAIN p.removed : p.removed[j] \in S
    OBVIOUS
  <2>1. p.removed[i] \in [at : Slots, id : Nat] /\ i \in DOMAIN p.removed
    BY <1>2, <2>0, Zenon
  <2>2. p.removed[i].at \in Slots
    BY <2>1
  <2> QED BY <2>1, <2>2 DEF Ledgered
<1>8. Ledgered(c, q)
  <2>1. \A s \in Slots : q.bullets[s] = Blank \/ Stands(c, q.bullets[s], s)
    BY <1>6 DEF Ledgered
  <2>2. \A i, j \in DOMAIN q.removed : q.removed[i].at = q.removed[j].at => i = j
    <3> SUFFICES ASSUME NEW i \in 1..(n + 1), NEW j \in 1..(n + 1), q.removed[i].at = q.removed[j].at
                 PROVE  i = j
      BY <1>5
    <3>1. CASE i \in 1..n /\ j \in 1..n
      <4>1. q.removed[i] = p.removed[i] /\ q.removed[j] = p.removed[j]
        BY ONLY <1>5, <3>1
      <4>2. p.removed[i].at = p.removed[j].at /\ i \in DOMAIN p.removed /\ j \in DOMAIN p.removed
        BY ONLY <1>2, <3>1, <4>1, q.removed[i].at = q.removed[j].at
      <4>3. \A k, l \in DOMAIN p.removed : p.removed[k].at = p.removed[l].at => k = l
        BY Zenon DEF Ledgered
      <4> QED BY ONLY <4>2, <4>3
    <3>2. CASE i = n + 1 /\ j \in 1..n
      BY <1>4, <1>5, <1>7, <3>2
    <3>3. CASE j = n + 1 /\ i \in 1..n
      BY <1>4, <1>5, <1>7, <3>3
    <3>4. CASE i = n + 1 /\ j = n + 1
      BY <3>4
    <3>5. \A k \in 1..(n + 1) : k \in 1..n \/ k = n + 1
      BY <1>2
    <3> QED BY <3>1, <3>2, <3>3, <3>4, <3>5
  <2>3. ASSUME NEW s \in Slots
        PROVE  q.bullets[s] = Blank <=> \E i \in DOMAIN q.removed : q.removed[i].at = s
    <3>1. 1..n \subseteq 1..(n + 1) /\ n + 1 \in 1..(n + 1) /\ \A k \in 1..(n + 1) : k \in 1..n \/ k = n + 1
      BY <1>2
    <3>2. CASE s = h
      BY <1>4, <1>5, <1>6, <3>1, <3>2
    <3>3. CASE s # h
      <4>1. q.bullets[s] = Blank <=> \E i \in 1..n : p.removed[i].at = s
        BY <1>2, <1>6, <3>3 DEF Ledgered
      <4> QED BY <1>4, <1>5, <3>1, <3>3, <4>1
    <3> QED BY <3>2, <3>3
  <2> QED BY <1>5, <1>6, <2>1, <2>2, <2>3 DEF Ledgered
<1>9. Live(q) = Live(p) \ {h} /\ h \in Live(p)
  BY <1>6 DEF Live
<1>10. \A role : InRole(q, role) = InRole(p, role) \ {h}
  BY <1>9 DEF InRole
<1>11. /\ ~p.bullets[h].fact
       /\ Cardinality(InRole(p, h[1])) - 1 >= RoleFloor(h[1])
       /\ p.bullets[h].names \subseteq UNION {p.bullets[s].names : s \in InRole(q, h[1])}
  <2>1. InRole(q, h[1]) = {w \in Live(p) : w[1] = h[1] /\ w # h}
    BY <1>9 DEF InRole
  <2> QED BY <2>1 DEF CheckPrune, NamedElsewhere, InRole
<1>12. \A role, s : s \in InRole(q, role) => q.bullets[s] = p.bullets[s]
  BY <1>6, <1>9 DEF InRole, Live
<1>13. ASSUME NEW role
       PROVE  UNION {p.bullets[s].names : s \in InRole(p, role)}
                \subseteq UNION {q.bullets[s].names : s \in InRole(q, role)}
  <2> SUFFICES ASSUME NEW s \in InRole(p, role), NEW x \in p.bullets[s].names
               PROVE  \E u \in InRole(q, role) : x \in q.bullets[u].names
    OBVIOUS
  <2>1. CASE s # h
    BY <1>10, <1>12, <2>1
  <2>2. CASE s = h
    <3>1. h[1] = role
      BY <2>2 DEF InRole
    <3>2. PICK u \in InRole(q, role) : x \in p.bullets[u].names
      BY <1>11, <2>2, <3>1
    <3> QED BY <1>12, <3>2
  <2> QED BY <2>1, <2>2
<1>14. ASSUME NEW role, Cardinality(InRole(p, role)) >= RoleFloor(role)
       PROVE  Cardinality(InRole(q, role)) >= RoleFloor(role)
  <2> DEFINE R == InRole(p, role)
  <2>1. IsFiniteSet(R)
    <3>1. R \in SUBSET Slots
      BY DEF InRole, Live
    <3> QED BY <3>1, DocumentAssumption, FS_Subset
  <2>2. CASE role = h[1]
    <3>1. h \in R
      BY <1>9, <2>2 DEF InRole
    <3>2. Cardinality(R) - 1 >= RoleFloor(role)
      BY <1>11, <2>2
    <3> HIDE DEF R
    <3>3. Cardinality(R \ {h}) = Cardinality(R) - 1
      BY <2>1, <3>1, FS_RemoveElement
    <3>4. InRole(q, role) = R \ {h}
      BY <1>10 DEF R
    <3> QED BY <3>2, <3>3, <3>4
  <2>3. CASE role # h[1]
    <3>1. InRole(q, role) = R
      BY <1>10, <2>3 DEF InRole
    <3> QED BY <1>14, <3>1
  <2> QED BY <2>2, <2>3
<1>15. /\ new.id = c.source.bullets[h].id /\ ~c.source.bullets[h].fact
       /\ c.source.bullets[h].names = p.bullets[h].names
  <2>1. n + 1 \in DOMAIN q.removed
    BY <1>2, <1>5
  <2>2. new.id \in {c.source.bullets[s].id : s \in Slots}
    BY <1>5, <2>1 DEF Complete, q
  <2>3. \E u \in Slots : p.bullets[h].id = c.source.bullets[u].id
    BY <1>4, <2>2
  <2> QED BY <1>3, <1>4, <1>11, <2>3 DEF Stands
<1>16. Covered(c, q)
  <2> SUFFICES ASSUME NEW i \in 1..(n + 1)
               PROVE  LET gone == q.removed[i].at
                      IN  /\ q.removed[i].id = c.source.bullets[gone].id /\ ~c.source.bullets[gone].fact
                          /\ Cardinality(InRole(q, gone[1])) >= RoleFloor(gone[1])
                          /\ c.source.bullets[gone].names \subseteq
                               UNION {q.bullets[s].names : s \in InRole(q, gone[1])}
    BY <1>5 DEF Covered
  <2>1. CASE i = n + 1
    <3>1. q.removed[i].at = h /\ q.removed[i].id = new.id
      BY <1>4, <1>5, <2>1
    <3>2. Cardinality(InRole(p, h[1])) >= RoleFloor(h[1])
      <4>1. InRole(p, h[1]) \in SUBSET Slots
        BY DEF InRole, Live
      <4>2. Cardinality(InRole(p, h[1])) \in Nat
        BY <4>1, DocumentAssumption, FS_Subset, FS_CardinalityType
      <4>3. RoleFloor(h[1]) \in Nat
        BY DocumentAssumption DEF RoleFloor
      <4> QED BY <1>11, <4>2, <4>3
    <3>3. Cardinality(InRole(q, h[1])) >= RoleFloor(h[1])
      BY <1>14, <3>2
    <3>4. c.source.bullets[h].names \subseteq UNION {q.bullets[s].names : s \in InRole(q, h[1])}
      <4>1. h \in InRole(p, h[1])
        BY <1>9 DEF InRole
      <4>2. p.bullets[h].names \subseteq UNION {p.bullets[s].names : s \in InRole(p, h[1])}
        BY <4>1
      <4> QED BY <1>13, <1>15, <4>2
    <3> QED BY <1>15, <3>1, <3>3, <3>4
  <2>2. CASE i \in 1..n
    <3> DEFINE gone == p.removed[i].at
    <3>1. /\ q.removed[i] = p.removed[i] /\ p.removed[i].id = c.source.bullets[gone].id
          /\ ~c.source.bullets[gone].fact
          /\ Cardinality(InRole(p, gone[1])) >= RoleFloor(gone[1])
          /\ c.source.bullets[gone].names \subseteq UNION {p.bullets[s].names : s \in InRole(p, gone[1])}
      BY <1>2, <1>5, <2>2 DEF Covered
    <3> HIDE DEF gone
    <3>2. Cardinality(InRole(q, gone[1])) >= RoleFloor(gone[1])
      BY <1>14, <3>1
    <3>3. c.source.bullets[gone].names \subseteq UNION {q.bullets[s].names : s \in InRole(q, gone[1])}
      BY <1>13, <3>1
    <3> QED BY <3>1, <3>2, <3>3 DEF gone
  <2>3. i \in 1..n \/ i = n + 1
    BY <1>2
  <2> QED BY ONLY <2>1, <2>2, <2>3
<1> QED BY <1>8, <1>16 DEF q

(***************************************************************************)
(* The accounts of a run                                                   *)
(***************************************************************************)
\* Only the bullets and the ledger matter.
LEMMA SameBullets ==
    ASSUME NEW c, NEW p, NEW q, q.bullets = p.bullets, q.removed = p.removed,
           Ledgered(c, p), Covered(c, p)
    PROVE  Ledgered(c, q) /\ Covered(c, q)
<1>1. Ledgered(c, q)
  BY DEF Ledgered
<1>2. \A role : InRole(q, role) = InRole(p, role)
  BY DEF InRole, Live
<1>3. \A role : {q.bullets[s].names : s \in InRole(q, role)} = {p.bullets[s].names : s \in InRole(p, role)}
  BY <1>2
<1> HIDE DEF InRole
<1>4. Covered(c, q)
  BY <1>2, <1>3 DEF Covered
<1> QED BY <1>1, <1>4

\* Rounds after the placements that remove nothing.
LEMMA StillAccounts ==
    ASSUME Accounts, UNCHANGED cv, stage' \notin Early \cup {"prune"},
           UNCHANGED <<plan.bullets, plan.removed>>
    PROVE  Accounts'
<1>1. Ledgered(cv', plan') /\ Covered(cv', plan')
  BY SameBullets DEF Accounts
<1> QED BY <1>1 DEF Accounts, Intact, Queued, Early

\* Rounds before the removals.
LEMMA EarlyAccounts ==
    ASSUME stage' # "prune", Whole(cv', plan'),
           stage' \in {"bisect", "judge"} => Whole(cv', trial'.plan)
    PROVE  Accounts'
<1>1. Ledgered(cv', plan') /\ Covered(cv', plan')
  BY WholeLedger
<1> QED BY <1>1 DEF Accounts, Intact, Queued

\* Every round up to the last verdict on a batch.
LEMMA EarlyKeepsAccounts ==
    Inv /\ Accounts /\ (ProjectSource \/ TryQuality \/ EndQuality \/ StartBatch \/ EndBisection
                          \/ TryHalf \/ JudgeBatch) => Accounts'
<1>1. ASSUME Inv, Accounts, ProjectSource PROVE Accounts'
  <2>1. /\ stage = "project" /\ UNCHANGED <<cv, plan>> /\ stage' \in {"done", "quality"}
    BY <1>1, Zenon DEF ProjectSource, Finish
  <2> QED BY <1>1, <2>1, EarlyAccounts DEF Accounts, Intact, Early
<1>2. ASSUME Inv, Accounts, TryQuality PROVE Accounts'
  <2>1. /\ stage = "quality" /\ stage' = stage /\ UNCHANGED cv /\ next <= Len(Qualities)
        /\ plan' \in {plan, Proposed(Qualities[next])}
    BY <1>2, Zenon DEF TryQuality
  <2>2. Typed /\ Whole(cv, plan)
    BY <1>2, <2>1 DEF Inv, Accounts, Intact, Early
  <2>3. Whole(cv, Proposed(Qualities[next]))
    BY <2>1, <2>2, ProposedWhole
  <2> QED BY <2>1, <2>2, <2>3, EarlyAccounts
<1>3. ASSUME Inv, Accounts, EndQuality PROVE Accounts'
  <2>1. stage = "quality" /\ stage' = "batches" /\ UNCHANGED <<cv, plan>>
    BY <1>3 DEF EndQuality
  <2> QED BY <1>3, <2>1, EarlyAccounts DEF Accounts, Intact, Early
<1>4. ASSUME Inv, Accounts, StartBatch PROVE Accounts'
  <2>1. stage = "batches" /\ stage' = "bisect" /\ UNCHANGED <<cv, plan>> /\ trial'.plan = plan
    BY <1>4 DEF StartBatch
  <2> QED BY <1>4, <2>1, EarlyAccounts DEF Accounts, Intact, Early
<1>5. ASSUME Inv, Accounts, EndBisection PROVE Accounts'
  <2>1. stage = "bisect" /\ stage' = "judge" /\ UNCHANGED <<cv, plan, trial>>
    BY <1>5 DEF EndBisection, batching
  <2> QED BY <1>5, <2>1, EarlyAccounts DEF Accounts, Intact, Early
<1>6. ASSUME Inv, Accounts, TryHalf PROVE Accounts'
  <2>1. stage = "bisect" /\ stage' = stage /\ UNCHANGED <<cv, plan>>
    BY <1>6, TryFrame
  <2>2. \/ trial' = trial
        \/ trial'.plan = ApplyActions(cv, trial.plan, Head(work))
    <3>1. Keep(Head(work)) => trial'.plan = ApplyActions(cv, trial.plan, Head(work))
      BY DEF Keep
    <3>2. Drop(Head(work)) \/ Halve(Head(work), Len(Head(work)) \div 2, Len(Head(work)) \div 2 + 1) => trial' = trial
      BY DEF Drop, Halve
    <3> QED BY <1>6, <3>1, <3>2, TryFrame
  <2>3. Whole(cv, plan) /\ Whole(cv, trial.plan)
    BY <1>6, <2>1 DEF Accounts, Intact, Early
  <2>4. Whole(cv, ApplyActions(cv, trial.plan, Head(work)))
    BY <2>3, AppliedWhole
  <2> QED BY <2>1, <2>2, <2>3, <2>4, EarlyAccounts
<1>7. ASSUME Inv, Accounts, JudgeBatch PROVE Accounts'
  <2>1. stage = "judge" /\ stage' = "batches" /\ UNCHANGED cv /\ plan' \in {plan, trial.plan}
    BY <1>7, Zenon DEF JudgeBatch
  <2> QED BY <1>7, <2>1, EarlyAccounts DEF Accounts, Intact, Early
<1> QED BY <1>1, <1>2, <1>3, <1>4, <1>5, <1>6, <1>7, Zenon

\* The removals proposed, or the search over.
LEMMA EndBatchesKeepsAccounts == Inv /\ Accounts /\ EndBatches => Accounts'
<1> SUFFICES ASSUME Inv, Accounts, EndBatches PROVE Accounts'
  OBVIOUS
<1>1. /\ stage = "batches" /\ UNCHANGED <<cv, plan>>
      /\ stage' = "final" \/ (stage' = "prune" /\ queue' = PruneProposals(cv, plan))
  BY Zenon DEF EndBatches
<1>2. Whole(cv, plan)
  BY <1>1 DEF Accounts, Intact, Early
<1>3. Ledgered(cv', plan') /\ Covered(cv', plan')
  BY <1>1, <1>2, WholeLedger
<1>4. Queued'
  BY <1>1, ProposedOnce DEF Queued
<1> QED BY <1>1, <1>3, <1>4 DEF Accounts, Intact, Early

\* One removal tried.
LEMMA TryPruneKeepsAccounts == Inv /\ Accounts /\ TryPrune => Accounts'
<1> SUFFICES ASSUME Inv, Accounts, TryPrune PROVE Accounts'
  OBVIOUS
<1> DEFINE h == Head(queue)
<1>1. /\ stage = "prune" /\ stage' = "prune" /\ queue # <<>> /\ queue' = Tail(queue) /\ UNCHANGED cv
      /\ \/ plan' = plan
         \/ /\ plan' = Prune(plan, h) /\ CheckPrune(cv, plan, credited, h)
            /\ Complete(cv, Prune(plan, h), Prune(plan, h).removed)
  BY Zenon DEF TryPrune
<1>2. /\ queue \in Seq(Slots) /\ IsInjective(queue)
      /\ \A i \in DOMAIN queue : plan.bullets[queue[i]] # Blank
  BY <1>1 DEF Accounts, Queued
<1>3. /\ h \in Slots /\ h = queue[1] /\ 1 \in DOMAIN queue /\ queue' \in Seq(Slots)
      /\ \A i \in DOMAIN queue' : i \in Nat \ {0} /\ i + 1 \in DOMAIN queue /\ queue'[i] = queue[i + 1]
  BY <1>1, <1>2
<1>4. IsInjective(queue') /\ \A i \in DOMAIN queue' : queue'[i] # h
  BY <1>2, <1>3 DEF IsInjective
<1> HIDE DEF h
<1>5. DOMAIN plan = PlanFields /\ Ledgered(cv, plan) /\ Covered(cv, plan)
  BY DEF Inv, Typed, Accounts
<1>6. CASE plan' = plan
  <2>1. Queued'
    BY <1>1, <1>2, <1>3, <1>4, <1>6 DEF Queued
  <2> QED BY <1>1, <1>5, <1>6, <2>1 DEF Accounts, Intact, Early
<1>7. CASE /\ plan' = Prune(plan, h) /\ CheckPrune(cv, plan, credited, h)
           /\ Complete(cv, Prune(plan, h), Prune(plan, h).removed)
  <2>1. plan.bullets[h] # Blank
    BY <1>2, <1>3
  <2>2. Ledgered(cv', plan') /\ Covered(cv', plan')
    BY <1>1, <1>3, <1>5, <1>7, <2>1, RemovalKept
  <2>3. plan'.bullets = [plan.bullets EXCEPT ![h] = Blank]
    BY <1>5, <1>7 DEF Prune, PlanFields
  <2>4. \A i \in DOMAIN queue' : plan'.bullets[queue'[i]] # Blank
    BY <1>2, <1>3, <1>4, <2>3, <1>5 DEF Ledgered
  <2>5. Queued'
    BY <1>3, <1>4, <2>4 DEF Queued
  <2> QED BY <1>1, <2>2, <2>5 DEF Accounts, Intact, Early
<1> QED BY <1>1, <1>6, <1>7 DEF h

\* The removals are over.
LEMMA LateKeepsAccounts == Inv /\ Accounts /\ (EndPrune \/ ReorderSkills \/ Deliver) => Accounts'
<1> SUFFICES ASSUME Inv, Accounts, EndPrune \/ ReorderSkills \/ Deliver PROVE Accounts'
  OBVIOUS
<1>1. /\ UNCHANGED cv /\ stage' \in {"reorder", "final", "done"}
      /\ plan' = plan \/ plan' = Reorder(plan)
  BY Zenon DEF EndPrune, ReorderSkills, Deliver, Finish
<1>2. UNCHANGED <<plan.bullets, plan.removed>>
  <2>1. Reorder(plan).bullets = plan.bullets /\ Reorder(plan).removed = plan.removed
    BY DEF Reorder, Inv, Typed, PlanFields
  <2> QED BY <1>1, <2>1
<1> QED BY <1>1, <1>2, StillAccounts DEF Early

\* The ledger follows the document at every step.
LEMMA NextAccounts == Inv /\ Accounts /\ [Next]_vars => Accounts'
<1>1. ASSUME Accounts, UNCHANGED vars PROVE Accounts'
  <2>1. UNCHANGED <<cv, stage, plan, trial, queue>>
    BY <1>1 DEF vars
  <2>2. Ledgered(cv', plan') /\ Covered(cv', plan')
    BY <1>1, <2>1 DEF Accounts
  <2>3. Intact' /\ Queued'
    BY <1>1, <2>1 DEF Accounts, Intact, Queued
  <2> QED BY <2>2, <2>3 DEF Accounts
<1> QED BY <1>1, EarlyKeepsAccounts, EndBatchesKeepsAccounts, TryPruneKeepsAccounts, LateKeepsAccounts,
           Zenon DEF Next, Done

LEMMA AccountsHold == Spec => []Accounts
BY InitAccounts, NextAccounts, InvariantHolds, PTL DEF Spec

\* Along any sequence of removals, each screened on the document before the
\* first of them, every role keeps its floor and every entity its source named,
\* no checkable fact goes, and the ledger holds each removed bullet once, in
\* the wording of the source.
THEOREM EveryRemovalAccounted == Spec => []RemovalsAccounted
<1>1. Accounts => RemovalsAccounted
  <2> SUFFICES ASSUME Accounts PROVE RemovalsAccounted
    OBVIOUS
  <2>1. \A s \in Slots : plan.bullets[s] = Blank <=>
            Cardinality({i \in DOMAIN plan.removed : plan.removed[i].at = s}) = 1
    BY OneEntry DEF Accounts
  <2>2. \A role : /\ {s \in Live(plan) : s[1] = role} = InRole(plan, role)
                  /\ {plan.bullets[s].names : s \in {u \in Live(plan) : u[1] = role}}
                       = {plan.bullets[s].names : s \in InRole(plan, role)}
    BY DEF InRole
  <2>3. Covered(cv, plan)
    BY DEF Accounts
  <2> QED BY <2>1, <2>3 DEF RemovalsAccounted, Covered, InRole
<1> QED BY <1>1, AccountsHold, PTL

(***************************************************************************)
(* What is taken and what is refused                                       *)
(***************************************************************************)
Mentioned == rejected \cup plan.changes

\* Which rounds have put their labels into the plan or the trace.
Rounded ==
    /\ stage = "project" => Mentioned = {}
    /\ stage = "quality" => \A l \in Mentioned : \E i \in DOMAIN Qualities : i < next /\ l = Qualities[i]
    /\ \A l \in Mentioned :
        /\ l.op \in Operations => l \in DOMAIN status
        /\ l.op = "prune" => stage \in {"prune", "reorder", "final", "done"}
        /\ l.op = "skill_reorder" => stage \in {"final", "done"}
    /\ stage = "prune" => \A i \in DOMAIN queue : Label("prune", 0, queue[i]) \notin Mentioned

Settled == Rounded /\ rejected \cap plan.changes = {} /\ delivered.changes \subseteq plan.changes

LEMMA InitSettled == Init => Settled
<1> SUFFICES ASSUME Init PROVE Settled
  OBVIOUS
<1>1. plan.changes = {} /\ rejected = {} /\ delivered.changes = {} /\ stage = "project"
  BY CasesAssumption DEF Init
<1> QED BY <1>1 DEF Settled, Rounded, Mentioned

\* A step that names nothing new.
LEMMA NothingNew ==
    ASSUME Settled, DOMAIN status' = DOMAIN status, UNCHANGED <<plan, rejected>>,
           delivered'.changes \subseteq plan.changes,
           \/ stage = "project" /\ stage' \in {"quality", "done"}
           \/ stage = "quality" /\ stage' = "batches"
           \/ stage \in {"batches", "bisect", "judge"} /\ stage' \in {"batches", "bisect", "judge", "final"}
           \/ stage \in {"prune", "reorder"} /\ stage' \in {"reorder", "final"}
           \/ stage \in {"final", "done"} /\ stage' = "done"
    PROVE  Settled'
BY DEF Settled, Rounded, Mentioned

\* A step that names one more label, on one side.
LEMMA OneMore ==
    ASSUME Settled, NEW l, l \notin Mentioned, DOMAIN status' = DOMAIN status,
           \/ rejected' = rejected \cup {l} /\ plan'.changes = plan.changes
           \/ rejected' = rejected /\ plan'.changes \subseteq plan.changes \cup {l}
              /\ plan.changes \subseteq plan'.changes,
           delivered' = delivered
    PROVE  /\ rejected' \cap plan'.changes = {} /\ delivered'.changes \subseteq plan'.changes
           /\ Mentioned' \subseteq Mentioned \cup {l}
BY DEF Settled, Mentioned

\* A quality proposal settled.
LEMMA QualitySettles == Inv /\ Settled /\ TryQuality => Settled'
<1> SUFFICES ASSUME Inv, Settled, TryQuality PROVE Settled'
  OBVIOUS
<1> DEFINE q == Qualities[next]
<1>1. Typed /\ next \in Nat \ {0} /\ next \in DOMAIN Qualities
  BY QualityShape DEF Inv, Typed, TryQuality
<1>2. /\ stage = "quality" /\ stage' = stage /\ next' = next + 1 /\ UNCHANGED <<cv, delivered, status>>
      /\ \/ UNCHANGED <<plan, rejected>>
         \/ plan' = plan /\ rejected' = rejected \cup {q}
         \/ plan' = Proposed(q) /\ rejected' = rejected
  BY Zenon DEF TryQuality, result
<1>3. Qualities' = Qualities
  BY <1>2 DEF Qualities
<1>4. Proposed(q).changes = plan.changes \cup {q}
  BY DEF Proposed, Inv, Typed, PlanFields
<1>5. q \notin Mentioned
  <2>1. \A i \in DOMAIN Qualities : i < next => Qualities[i] # q
    BY <1>1, QualityOnce DEF IsInjective
  <2> QED BY <1>2, <2>1 DEF Settled, Rounded
<1>6. q.op \in {"quality", "ai"}
  <2>1. \A op, at : Label(op, 0, at).op = op
    BY DEF Label
  <2>2. next = 1 \/ next = 2 \/ next = 3 \/ next > 3
    BY <1>1
  <2> QED BY <1>1, <2>1, <2>2, QualityShape
<1>7. q = Qualities[next]
  OBVIOUS
<1> HIDE DEF q
<1>8. /\ rejected' \cap plan'.changes = {} /\ delivered'.changes \subseteq plan'.changes
      /\ Mentioned' \subseteq Mentioned \cup {q}
  BY <1>2, <1>4, <1>5, OneMore
<1>9. \A l \in Mentioned' : \E i \in DOMAIN Qualities : i < next' /\ l = Qualities[i]
  <2> SUFFICES ASSUME NEW l \in Mentioned' PROVE \E i \in DOMAIN Qualities : i < next' /\ l = Qualities[i]
    OBVIOUS
  <2>1. CASE l = q
    BY <1>1, <1>2, <1>7, <2>1
  <2>2. CASE l \in Mentioned
    <3>1. PICK i \in DOMAIN Qualities : i < next /\ l = Qualities[i]
      BY <1>2, <2>2 DEF Settled, Rounded
    <3>2. i < next + 1
      BY <1>1, <3>1, QualityShape
    <3> QED BY <1>2, <3>1, <3>2
  <2> QED BY <1>8, <2>1, <2>2
<1>10. \A l \in Mentioned' :
        /\ l.op \in Operations => l \in DOMAIN status'
        /\ l.op # "prune" /\ l.op # "skill_reorder"
  BY <1>2, <1>6, <1>8 DEF Settled, Rounded, Operations
<1> QED BY <1>2, <1>3, <1>8, <1>9, <1>10 DEF Settled, Rounded

\* Placements dropped, taken or refused.
LEMMA PlacementsSettle ==
    ASSUME Inv, Settled, stage \in {"bisect", "judge"}, stage' \in {"batches", "bisect", "judge"},
           NEW b, Undecided(ToSet(b)), DOMAIN status' = DOMAIN status, delivered' = delivered,
           \/ rejected' = rejected \cup ToSet(b) /\ plan' = plan
           \/ rejected' = rejected /\ plan'.changes = plan.changes \cup ToSet(b)
    PROVE  Settled'
<1>1. Typed /\ next <= Len(Planned)
  BY DEF Inv, Bisecting
<1>2. \A a \in ToSet(b) : a \in DOMAIN status /\ status[a] = "not_evaluated"
  BY <1>1, BatchFacts DEF Undecided
<1>3. \A a \in ToSet(b) : a \notin plan.changes /\ a \notin rejected /\ a.op \in Operations
  BY <1>1, <1>2, PlannedFacts DEF Inv, Verdicts
<1>4. rejected' \cap plan'.changes = {} /\ delivered'.changes \subseteq plan'.changes
  BY <1>3 DEF Settled
<1>5. Mentioned' = Mentioned \cup ToSet(b)
  BY DEF Mentioned
<1>6. ASSUME NEW l \in Mentioned'
      PROVE  /\ l.op \in Operations => l \in DOMAIN status'
             /\ l.op # "prune" /\ l.op # "skill_reorder"
  <2>1. CASE l \in ToSet(b)
    BY <1>2, <1>3, <2>1 DEF Operations
  <2>2. CASE l \in Mentioned
    BY <2>2 DEF Settled, Rounded
  <2> QED BY <1>5, <2>1, <2>2
<1> QED BY <1>4, <1>6 DEF Settled, Rounded

\* One removal settled.
LEMMA RemovalSettles == Inv /\ Accounts /\ Settled /\ TryPrune => Settled'
<1> SUFFICES ASSUME Inv, Accounts, Settled, TryPrune PROVE Settled'
  OBVIOUS
<1> DEFINE h == Head(queue)
           l == Label("prune", 0, h)
<1>1. /\ stage = "prune" /\ stage' = "prune" /\ queue # <<>> /\ queue' = Tail(queue)
      /\ UNCHANGED <<cv, status, delivered>>
      /\ \/ plan' = Prune(plan, h) /\ rejected' = rejected
         \/ plan' = plan /\ rejected' = rejected \cup {l}
  BY Zenon DEF TryPrune, result
<1>2. queue \in Seq(Slots) /\ IsInjective(queue)
  BY <1>1 DEF Accounts, Queued
<1>3. /\ h = queue[1] /\ 1 \in DOMAIN queue
      /\ \A i \in DOMAIN queue' : i \in Nat \ {0} /\ i + 1 \in DOMAIN queue /\ queue'[i] = queue[i + 1]
  BY <1>1, <1>2
<1>4. \A i \in DOMAIN queue' : queue'[i] # h
  BY <1>2, <1>3 DEF IsInjective
<1>5. Prune(plan, h).changes = plan.changes \cup {l}
  BY DEF Prune, Inv, Typed, PlanFields
<1>6. l \notin Mentioned /\ \A i \in DOMAIN queue : Label("prune", 0, queue[i]) \notin Mentioned
  BY <1>1, <1>3 DEF Settled, Rounded
<1>7. l.op = "prune" /\ \A s : Label("prune", 0, s) = l => s = h
  BY DEF Label
<1> HIDE DEF h, l
<1>8. /\ rejected' \cap plan'.changes = {} /\ delivered'.changes \subseteq plan'.changes
      /\ Mentioned' \subseteq Mentioned \cup {l}
  BY <1>1, <1>5, <1>6, OneMore
<1>9. \A i \in DOMAIN queue' : Label("prune", 0, queue'[i]) \notin Mentioned'
  BY <1>3, <1>4, <1>6, <1>7, <1>8
<1>10. \A x \in Mentioned' :
        /\ x.op \in Operations => x \in DOMAIN status'
        /\ x.op # "skill_reorder"
  BY <1>1, <1>7, <1>8 DEF Settled, Rounded, Operations
<1> QED BY <1>1, <1>8, <1>9, <1>10 DEF Settled, Rounded

\* The order of the skills settled.
LEMMA OrderSettles == Inv /\ Settled /\ ReorderSkills => Settled'
<1> SUFFICES ASSUME Inv, Settled, ReorderSkills PROVE Settled'
  OBVIOUS
<1> DEFINE l == Label("skill_reorder", 0, Skills)
<1>1. /\ stage = "reorder" /\ stage' = "final" /\ UNCHANGED <<cv, status, delivered>>
      /\ \/ plan' = Reorder(plan) /\ rejected' = rejected
         \/ plan' = plan /\ rejected' = rejected \cup {l}
  BY Zenon DEF ReorderSkills, result
<1>2. Reorder(plan).changes \in {plan.changes, plan.changes \cup {l}}
  BY DEF Reorder, Inv, Typed, PlanFields
<1>3. l.op = "skill_reorder"
  BY DEF Label
<1> HIDE DEF l
<1>4. l \notin Mentioned
  BY <1>1, <1>3 DEF Settled, Rounded
<1>5. /\ rejected' \cap plan'.changes = {} /\ delivered'.changes \subseteq plan'.changes
      /\ Mentioned' \subseteq Mentioned \cup {l}
  <2>1. plan.changes \subseteq Reorder(plan).changes /\ Reorder(plan).changes \subseteq plan.changes \cup {l}
    BY <1>2
  <2> QED BY <1>1, <1>4, <2>1, OneMore
<1>6. \A x \in Mentioned' : x.op \in Operations => x \in DOMAIN status'
  BY <1>1, <1>3, <1>5 DEF Settled, Rounded, Operations
<1> QED BY <1>1, <1>5, <1>6 DEF Settled, Rounded

\* The removals proposed, or the search over.
LEMMA EndBatchesSettles == Inv /\ Settled /\ EndBatches => Settled'
<1> SUFFICES ASSUME Inv, Settled, EndBatches PROVE Settled'
  OBVIOUS
<1>1. /\ stage = "batches" /\ stage' \in {"prune", "final"} /\ UNCHANGED <<cv, plan, rejected, status, delivered>>
  BY Zenon DEF EndBatches, result
<1>2. \A l \in Mentioned : l.op # "prune" /\ l.op # "skill_reorder"
  BY <1>1 DEF Settled, Rounded
<1>3. \A s : Label("prune", 0, s) \notin Mentioned
  BY <1>2 DEF Label
<1>4. Mentioned' = Mentioned
  BY <1>1 DEF Mentioned
<1> QED BY <1>1, <1>2, <1>3, <1>4 DEF Settled, Rounded

\* Every label is settled once, on one side.
LEMMA NextSettled == Inv /\ Accounts /\ Settled /\ [Next]_vars => Settled'
<1> SUFFICES ASSUME Inv, Accounts, Settled, [Next]_vars PROVE Settled'
  OBVIOUS
<1>0. DOMAIN cv.source = PlanFields /\ cv.source.changes = {} /\ Inv' /\ delivered.changes \subseteq plan.changes
  BY PlannedFacts, NextInv DEF Inv, Settled
<1>1. CASE ProjectSource
  <2>1. /\ stage = "project" /\ stage' \in {"quality", "done"} /\ UNCHANGED <<cv, plan, rejected>>
        /\ delivered' \in {delivered, cv.source}
    BY <1>1, Zenon DEF ProjectSource, Finish, result
  <2>2. DOMAIN status' = DOMAIN status
    BY <1>0, <2>1 DEF Inv, Typed, Planned
  <2> QED BY <1>0, <2>1, <2>2, NothingNew
<1>2. CASE TryQuality
  BY <1>2, QualitySettles
<1>3. CASE EndQuality \/ StartBatch \/ EndBisection \/ EndPrune
  <2>1. /\ UNCHANGED <<plan, rejected, status, delivered>>
        /\ \/ stage = "quality" /\ stage' = "batches"
           \/ stage \in {"batches", "bisect"} /\ stage' \in {"bisect", "judge"}
           \/ stage = "prune" /\ stage' = "reorder"
    BY <1>3 DEF EndQuality, StartBatch, EndBisection, EndPrune, result
  <2> QED BY <1>0, <2>1, NothingNew
<1>4. CASE TryHalf
  <2>1. /\ stage = "bisect" /\ stage' = "bisect" /\ work # <<>> /\ UNCHANGED <<cv, plan, delivered>>
    BY <1>4, TryFrame, Zenon DEF TryHalf, result
  <2>2. DOMAIN status' = DOMAIN status
    BY <1>0, <2>1 DEF Inv, Typed, Planned
  <2>3. Undecided(ToSet(Head(work)))
    BY <2>1, PendingFacts
  <2>4. CASE Drop(Head(work))
    <3>1. rejected' = rejected \cup ToSet(Head(work))
      BY <2>4 DEF Drop
    <3> QED BY <2>1, <2>2, <2>3, <3>1, PlacementsSettle
  <2>5. CASE ~Drop(Head(work))
    <3>1. rejected' = rejected
      BY <1>4, <2>5, TryFrame DEF Keep, Halve
    <3> QED BY <1>0, <2>1, <2>2, <3>1, NothingNew
  <2> QED BY <2>4, <2>5
<1>5. CASE JudgeBatch
  <2>1. /\ stage = "judge" /\ stage' = "batches" /\ UNCHANGED <<cv, delivered>>
        /\ \/ plan' = trial.plan /\ rejected' = rejected
           \/ plan' = plan /\ rejected' = rejected \cup ToSet(trial.kept)
    BY <1>5, Zenon DEF JudgeBatch, result
  <2>2. DOMAIN status' = DOMAIN status
    BY <1>0, <2>1 DEF Inv, Typed, Planned
  <2>3. Undecided(ToSet(trial.kept)) /\ trial.plan.changes = plan.changes \cup ToSet(trial.kept)
    BY <2>1 DEF Inv, Bisecting
  <2> QED BY <2>1, <2>2, <2>3, PlacementsSettle
<1>6. CASE EndBatches
  BY <1>6, EndBatchesSettles
<1>7. CASE TryPrune
  BY <1>7, RemovalSettles
<1>8. CASE ReorderSkills
  BY <1>8, OrderSettles
<1>9. CASE Deliver
  <2>1. /\ stage = "final" /\ stage' = "done" /\ UNCHANGED <<cv, plan, rejected>>
        /\ delivered' \in {plan, cv.source}
    BY <1>9, Zenon DEF Deliver, Finish
  <2>2. DOMAIN status' = DOMAIN status
    BY <1>0, <2>1 DEF Inv, Typed, Planned
  <2> QED BY <1>0, <2>1, <2>2, NothingNew
<1>10. CASE UNCHANGED vars
  BY <1>10 DEF Settled, Rounded, Mentioned, Qualities, vars
<1> QED BY <1>1, <1>2, <1>3, <1>4, <1>5, <1>6, <1>7, <1>8, <1>9, <1>10, Zenon DEF Next, Done

\* No change the trace lists as rejected is in the document, whichever round
\* proposed it.
THEOREM NothingRejectedDelivered == Spec => []RejectedStayOut
<1>1. Settled => RejectedStayOut
  BY DEF Settled, RejectedStayOut
<1> QED BY <1>1, InitSettled, NextSettled, InvariantHolds, AccountsHold, PTL DEF Spec

(***************************************************************************)
(* Types                                                                   *)
(***************************************************************************)
Idle == stage # "bisect" => work = <<>>
Sound == TypeOK /\ Idle

LEMMA Policies == Rounds \in Nat \ {0} /\ \A words : MinGain(words) \in Nat
BY OptimizerAssumption DEF Rounds, MinGain

\* The labels of the rounds.
LEMMA LabelTypes ==
    /\ Placements \subseteq Labels
    /\ \A s \in Slots : Label("prune", 0, s) \in Labels
    /\ Label("skill_reorder", 0, Skills) \in Labels
BY DocumentAssumption DEF Placements, Labels, Label, Locations, Term

LEMMA InitSound == Init => Sound
<1> SUFFICES ASSUME Init PROVE Sound
  OBVIOUS
<1>1. Rounds \in Nat \ {0}
  BY Policies
<1>2. plan.changes = {} /\ rejected = {} /\ quality = <<>> /\ accepted = <<>> /\ trial.kept = <<>> /\ work = <<>>
  BY CasesAssumption DEF Init
<1>3. ToSet(<<>>) = {}
  BY DEF ToSet
<1>4. status \in [ToSet(Planned) -> Statuses]
  BY DEF Init, Planned, Statuses
<1> QED BY <1>1, <1>2, <1>3, <1>4 DEF Init, Sound, TypeOK, Idle, Stages, DocumentStates

\* What a record becomes.
LEMMA RecordTypes ==
    ASSUME NEW D, NEW r \in [D -> Statuses]
    PROVE  /\ Closed(r) \in [D -> Statuses] /\ RolledBack(r) \in [D -> Statuses]
           /\ status = r => \A b, st : st \in Statuses => Record(b, st) \in [D -> Statuses]
<1>1. Closed(r) \in [D -> Statuses]
  BY DEF Closed, Statuses
<1>2. RolledBack(r) \in [D -> Statuses]
  BY DEF RolledBack, Statuses
<1>3. status = r => \A b, st : st \in Statuses => Record(b, st) \in [D -> Statuses]
  BY DEF Record
<1> QED BY <1>1, <1>2, <1>3

\* The labels a plan mentions after a step.
LEMMA MentionedTypes ==
    ASSUME Inv, Accounts, Sound, Next
    PROVE  (rejected \cup ToSet(quality) \cup plan.changes)' \subseteq Labels
<1>0. rejected \cup ToSet(quality) \cup plan.changes \subseteq Labels
  BY DEF Sound, TypeOK
<1>1. CASE TryQuality
  <2> DEFINE q == Qualities[next]
  <2>1. Typed /\ next \in DOMAIN Qualities /\ q \in Labels
    BY <1>1, QualityShape DEF Inv, Typed, TryQuality
  <2>2. Proposed(q).changes = plan.changes \cup {q}
    BY DEF Proposed, Inv, Typed, PlanFields
  <2>3. /\ plan' \in {plan, Proposed(q)} /\ rejected' \in {rejected, rejected \cup {q}}
        /\ quality' \in {quality, Append(quality, q)}
    BY <1>1, Zenon DEF TryQuality
  <2> HIDE DEF q
  <2>4. ToSet(quality') \subseteq Labels
    BY <1>0, <2>1, <2>3 DEF ToSet
  <2> QED BY <1>0, <2>1, <2>2, <2>3, <2>4
<1>2. CASE TryHalf
  <2>1. UNCHANGED <<plan, quality>> /\ stage = "bisect" /\ work # <<>>
        /\ rejected' \in {rejected, rejected \cup ToSet(Head(work))}
    BY <1>2, TryFrame, Zenon DEF TryHalf, Keep, Drop, Halve
  <2>2. Head(work) \in Seq(Placements)
    BY <2>1, PendingFacts
  <2>3. ToSet(Head(work)) \subseteq Labels
    BY <2>2, LabelTypes DEF ToSet
  <2> QED BY <1>0, <2>1, <2>3
<1>3. CASE JudgeBatch
  <2>1. /\ stage = "judge" /\ UNCHANGED quality
        /\ plan' \in {plan, trial.plan} /\ rejected' \in {rejected, rejected \cup ToSet(trial.kept)}
    BY <1>3, Zenon DEF JudgeBatch
  <2>2. trial.kept \in Seq(Placements) /\ trial.plan.changes = plan.changes \cup ToSet(trial.kept)
    BY <2>1 DEF Inv, Bisecting
  <2>3. ToSet(trial.kept) \subseteq Labels
    BY <2>2, LabelTypes DEF ToSet
  <2> QED BY <1>0, <2>1, <2>2, <2>3
<1>4. CASE TryPrune
  <2> DEFINE h == Head(queue)
  <2>1. /\ stage = "prune" /\ queue # <<>> /\ UNCHANGED quality /\ plan' \in {plan, Prune(plan, h)}
        /\ rejected' \in {rejected, rejected \cup {Label("prune", 0, h)}}
    BY <1>4, Zenon DEF TryPrune
  <2>2. h \in Slots
    BY <2>1 DEF Accounts, Queued
  <2>3. Prune(plan, h).changes = plan.changes \cup {Label("prune", 0, h)}
    BY DEF Prune, Inv, Typed, PlanFields
  <2> HIDE DEF h
  <2> QED BY <1>0, <2>1, <2>2, <2>3, LabelTypes
<1>5. CASE ReorderSkills
  <2> DEFINE l == Label("skill_reorder", 0, Skills)
  <2>1. UNCHANGED quality /\ plan' \in {plan, Reorder(plan)} /\ rejected' \in {rejected, rejected \cup {l}}
    BY <1>5, Zenon DEF ReorderSkills
  <2>2. Reorder(plan).changes \in {plan.changes, plan.changes \cup {l}}
    BY DEF Reorder, Inv, Typed, PlanFields
  <2>3. l \in Labels
    BY LabelTypes
  <2> HIDE DEF l
  <2> QED BY <1>0, <2>1, <2>2, <2>3
<1>6. CASE UNCHANGED <<plan, rejected, quality>>
  BY <1>0, <1>6
<1> QED BY <1>1, <1>2, <1>3, <1>4, <1>5, <1>6, Zenon
         DEF Next, Done, vars, ProjectSource, EndQuality, StartBatch, EndBisection, EndBatches, EndPrune, Deliver

\* The record keeps its shape.
LEMMA StatusTypes ==
    ASSUME Sound, Next, cv' = cv
    PROVE  status' \in [ToSet(Planned) -> Statuses]
<1>1. status \in [ToSet(Planned) -> Statuses]
  BY DEF Sound, TypeOK
<1>2. Closed(status) \in [ToSet(Planned) -> Statuses] /\ Closed(RolledBack(status)) \in [ToSet(Planned) -> Statuses]
      /\ \A b, st : st \in Statuses => Record(b, st) \in [ToSet(Planned) -> Statuses]
  BY <1>1, RecordTypes
<1>3. \/ status' \in {status, Closed(status), Closed(RolledBack(status))}
      \/ \E b : status' = Record(b, "rejected") \/ status' = Record(b, "accepted")
  <2>1. CASE ProjectSource \/ Deliver
    BY <2>1, Zenon DEF ProjectSource, Deliver, Finish
  <2>2. CASE TryHalf
    <3>1. Drop(Head(work)) => status' = Record(Head(work), "rejected")
      BY DEF Drop
    <3>2. ~Drop(Head(work)) => status' = status
      BY <2>2, Zenon DEF TryHalf, Keep, Halve
    <3> QED BY <3>1, <3>2
  <2>3. CASE JudgeBatch
    BY <2>3, Zenon DEF JudgeBatch
  <2>4. CASE UNCHANGED status
    BY <2>4
  <2> QED BY <2>1, <2>2, <2>3, <2>4, Zenon
           DEF Next, Done, vars, TryQuality, EndQuality, StartBatch, EndBisection, EndBatches,
               TryPrune, EndPrune, ReorderSkills
<1> QED BY <1>1, <1>2, <1>3 DEF Statuses

\* Only planned actions are kept.
LEMMA KeptTypes ==
    ASSUME Inv, Sound, Next, cv' = cv
    PROVE  ToSet(accepted') \subseteq ToSet(Planned) /\ ToSet(trial'.kept) \subseteq ToSet(Planned)
<1>0. ToSet(accepted) \subseteq ToSet(Planned) /\ ToSet(trial.kept) \subseteq ToSet(Planned)
  BY DEF Sound, TypeOK
<1>1. CASE StartBatch
  <2>1. accepted' = accepted /\ trial'.kept = <<>>
    BY <1>1 DEF StartBatch
  <2>2. ToSet(<<>>) = {}
    BY DEF ToSet
  <2> QED BY <1>0, <2>1, <2>2
<1>2. CASE TryHalf
  <2>1. /\ stage = "bisect" /\ work # <<>> /\ UNCHANGED accepted
        /\ Head(work) \in Seq(Placements) /\ Undecided(ToSet(Head(work)))
    BY <1>2, TryFrame, PendingFacts
  <2>2. trial.kept \in Seq(Placements) /\ Typed /\ next <= Len(Planned)
    BY <2>1 DEF Inv, Bisecting
  <2>3. ToSet(Head(work)) \subseteq ToSet(Planned)
    BY <2>1, <2>2, BatchFacts DEF Undecided, Typed
  <2>4. trial'.kept = trial.kept \/ trial'.kept = trial.kept \o Head(work)
    <3>1. ASSUME Keep(Head(work)) PROVE trial'.kept = trial.kept \o Head(work)
      <4>1. trial' = [plan |-> ApplyActions(cv, trial.plan, Head(work)), kept |-> trial.kept \o Head(work)]
        BY <3>1 DEF Keep
      <4> QED BY <4>1
    <3>2. Drop(Head(work)) \/ Halve(Head(work), Len(Head(work)) \div 2, Len(Head(work)) \div 2 + 1) => trial' = trial
      BY DEF Drop, Halve
    <3> QED BY <1>2, <3>1, <3>2, TryFrame
  <2>5. ToSet(trial.kept \o Head(work)) = ToSet(trial.kept) \cup ToSet(Head(work))
    BY <2>1, <2>2, ConcatSet
  <2> QED BY <1>0, <2>1, <2>3, <2>4, <2>5
<1>3. CASE JudgeBatch
  <2>1. stage = "judge" /\ UNCHANGED trial /\ accepted' \in {accepted, accepted \o trial.kept}
    BY <1>3, Zenon DEF JudgeBatch, batching
  <2>2. trial.kept \in Seq(Placements) /\ accepted \in Seq(Placements)
    BY <2>1 DEF Inv, Bisecting, Typed
  <2>3. ToSet(accepted \o trial.kept) = ToSet(accepted) \cup ToSet(trial.kept)
    BY <2>2, ConcatSet
  <2> QED BY <1>0, <2>1, <2>3
<1>4. CASE UNCHANGED <<accepted, trial>>
  BY <1>0, <1>4
<1> QED BY <1>1, <1>2, <1>3, <1>4, Zenon
         DEF Next, Done, vars, ProjectSource, TryQuality, EndQuality, EndBisection, EndBatches,
             TryPrune, EndPrune, ReorderSkills, Deliver, batching

\* The counters and the state of the document.
LEMMA CounterTypes ==
    ASSUME Sound, Next
    PROVE  /\ stage' \in Stages /\ state' \in DocumentStates /\ iteration' \in 0..Rounds /\ gain' \in Nat
           /\ Idle'
<1>0. stage \in Stages /\ state \in DocumentStates /\ iteration \in 0..Rounds /\ gain \in Nat /\ Rounds \in Nat
  BY Policies DEF Sound, TypeOK
<1>1. stage' \in Stages
  BY <1>0, Zenon DEF Next, Done, vars, ProjectSource, Finish, TryQuality, EndQuality, StartBatch, TryHalf, EndBisection,
      JudgeBatch, EndBatches, TryPrune, EndPrune, ReorderSkills, Deliver, Stages
<1>2. state' \in DocumentStates
  BY <1>0, Zenon DEF Next, Done, vars, result, ProjectSource, Finish, TryQuality, EndQuality, StartBatch, TryHalf,
      EndBisection, JudgeBatch, EndBatches, TryPrune, EndPrune, ReorderSkills, Deliver, DocumentStates
<1>3. iteration' \in 0..Rounds
  <2>1. CASE StartBatch
    <3>1. iteration < Rounds /\ iteration' = iteration + 1
      BY <2>1 DEF StartBatch
    <3> QED BY <1>0, <3>1
  <2>2. CASE UNCHANGED iteration
    BY <1>0, <2>2
  <2> QED BY <2>1, <2>2, Zenon DEF Next, Done, vars, search, ProjectSource, TryQuality, EndQuality, TryHalf,
      EndBisection, JudgeBatch, EndBatches, TryPrune, EndPrune, ReorderSkills, Deliver
<1>4. gain' \in Nat
  <2>1. CASE EndBatches
    <3>1. gain' \in {gain, MinGain(objectives.words)}
      BY <2>1, Zenon DEF EndBatches
    <3> QED BY <1>0, <3>1, Policies
  <2>2. CASE UNCHANGED gain
    BY <1>0, <2>2
  <2> QED BY <2>1, <2>2, Zenon DEF Next, Done, vars, search, ProjectSource, TryQuality, EndQuality, StartBatch,
      TryHalf, EndBisection, JudgeBatch, TryPrune, EndPrune, ReorderSkills, Deliver
<1>5. Idle'
  <2>1. CASE StartBatch \/ TryHalf
    <3>1. stage' = "bisect"
      BY <2>1, Zenon DEF StartBatch, TryHalf
    <3> QED BY <3>1 DEF Idle
  <2>2. CASE EndBisection
    BY <2>2, Zenon DEF EndBisection, batching, Idle
  <2>3. CASE work' = work /\ stage # "bisect"
    BY <2>3 DEF Sound, Idle
  <2>4. CASE UNCHANGED vars
    BY <2>4 DEF vars, Sound, Idle
  <2> QED BY <2>1, <2>2, <2>3, <2>4, Zenon DEF Next, Done, batching, ProjectSource, TryQuality, EndQuality,
      JudgeBatch, EndBatches, TryPrune, EndPrune, ReorderSkills, Deliver
<1> QED BY <1>1, <1>2, <1>3, <1>4, <1>5

LEMMA NextSound == Inv /\ Accounts /\ Sound /\ [Next]_vars => Sound'
<1>1. ASSUME Sound, UNCHANGED vars PROVE Sound'
  BY <1>1 DEF Sound, TypeOK, Idle, Planned, Batch, Rounds, vars
<1>2. ASSUME Inv, Accounts, Sound, Next PROVE Sound'
  <2>1. Inv' /\ cv' = cv /\ Planned' = Planned /\ Rounds' = Rounds
    <3>1. cv' = cv
      BY <1>2, Zenon DEF Next, Done, vars, ProjectSource, TryQuality, EndQuality, StartBatch, TryHalf, EndBisection,
         JudgeBatch, EndBatches, TryPrune, EndPrune, ReorderSkills, Deliver
    <3> QED BY <1>2, <3>1, NextInv DEF Planned, Rounds
  <2>2. next' \in Nat
    BY <2>1 DEF Inv, Typed
  <2>3. /\ stage' \in Stages /\ state' \in DocumentStates /\ iteration' \in 0..Rounds /\ gain' \in Nat /\ Idle'
    BY <1>2, CounterTypes
  <2>4. \A i \in DOMAIN work' : ToSet(work'[i]) \subseteq ToSet(Batch') /\ work'[i] # <<>>
    <3>1. CASE stage' = "bisect"
      BY <2>1, <3>1 DEF Inv, Bisecting, Undecided
    <3>2. CASE stage' # "bisect"
      BY <2>3, <3>2 DEF Idle
    <3> QED BY <3>1, <3>2
  <2>5. (rejected \cup ToSet(quality) \cup plan.changes)' \subseteq Labels
    BY <1>2, MentionedTypes
  <2>6. status' \in [ToSet(Planned) -> Statuses]
    BY <1>2, <2>1, StatusTypes
  <2>7. ToSet(accepted') \subseteq ToSet(Planned) /\ ToSet(trial'.kept) \subseteq ToSet(Planned)
    BY <1>2, <2>1, KeptTypes
  <2> QED BY <2>1, <2>2, <2>3, <2>4, <2>5, <2>6, <2>7 DEF Sound, TypeOK
<1> QED BY <1>1, <1>2

\* Every variable keeps its type: the plan and the trace name only labels the
\* rounds can make, and the halves to try are parts of the batch of the round.
THEOREM TypesHold == Spec => []TypeOK
<1>1. Sound => TypeOK
  BY DEF Sound
<1> QED BY <1>1, InitSound, NextSound, InvariantHolds, AccountsHold, PTL DEF Spec

(***************************************************************************)
(* Progress                                                                *)
(***************************************************************************)
\* A batch costs a trial for itself and two for every action beyond the first.
LEMMA CostOf ==
    ASSUME NEW X, NEW b \in Seq(X), b # <<>>
    PROVE  Cost(b) = 2 * Len(b) - 1 /\ Cost(b) \in Nat /\ Cost(b) >= 1
<1> DEFINE k == 2 * Len(b) - 1
<1>1. k \in Nat /\ k >= 1
  <2>1. Len(b) \in Nat /\ Len(b) # 0
    OBVIOUS
  <2> QED BY <2>1
<1> HIDE DEF k
<1>2. Max({1, k}) = k
  <2>1. k \in {1, k} /\ \A y \in {1, k} : k >= y
    BY <1>1
  <2>2. \A x \in {1, k} : (\A y \in {1, k} : x >= y) => x = k
    BY <1>1
  <2> QED BY <2>1, <2>2 DEF Max
<1> QED BY <1>1, <1>2 DEF Cost, k

\* What the first k halves cost, for every k.
Costs(sums, n, w) ==
    /\ sums \in [0..n -> Nat] /\ sums[0] = 0
    /\ \A k \in 1..n : sums[k] = sums[k - 1] + Cost(w[k])
    /\ Effort(w) = sums[n]

LEMMA EffortStepwise ==
    ASSUME NEW X, NEW w \in Seq(X), \A i \in DOMAIN w : Cost(w[i]) \in Nat
    PROVE  \E sums : Costs(sums, Len(w), w)
<1> DEFINE n == Len(w)
           F == [p \in Nat \X (1..n) |-> p[1] + Cost(w[p[2]])]
           Rec(it) == [s \in SUBSET (1..n) |->
                         IF s = {} THEN 0 ELSE it[s \ {Max(s)}] + Cost(w[Max(s)])]
           it == CHOOSE i : i = Rec(i)
<1>1. n \in Nat /\ DOMAIN w = 1..n
  OBVIOUS
<1>2. \A a \in Nat, i \in 1..n : F[<<a, i>>] = a + Cost(w[i]) /\ F[<<a, i>>] \in Nat
  BY <1>1
<1>3. Effort(w) = it[1..n]
  BY <1>1 DEF Effort, FoldLeft, MapThenFoldSet
<1> HIDE DEF n, F
<1>4. PICK u : Solves(u, n, Nat, 0, F)
  BY <1>1, <1>2, FoldExists
<1>5. u = Rec(u)
  <2>1. ASSUME NEW s \in SUBSET (1..n)
        PROVE  u[s] = IF s = {} THEN 0 ELSE u[s \ {Max(s)}] + Cost(w[Max(s)])
    <3>1. CASE s = {}
      BY <1>4, <3>1 DEF Solves
    <3>2. CASE s # {}
      <4>1. Max(s) \in 1..n /\ u[s \ {Max(s)}] \in Nat
        BY <1>1, <1>4, <3>2, SolvesTyped
      <4>2. u[s] = F[<<u[s \ {Max(s)}], Max(s)>>]
        BY <1>4, <3>2 DEF Solves
      <4> QED BY <1>2, <3>2, <4>1, <4>2
    <3> QED BY <3>1, <3>2
  <2>2. u = [s \in SUBSET (1..n) |-> u[s]]
    BY <1>4 DEF Solves
  <2> QED BY <2>1, <2>2
<1>6. it = Rec(it)
  BY <1>5
<1> HIDE DEF it
<1> DEFINE sums == [k \in 0..n |-> it[1..k]]
<1>7. sums[0] = 0
  BY <1>1, <1>6, IntervalPrefixes
<1>8. ASSUME NEW k \in 1..n
      PROVE  sums[k] = sums[k - 1] + Cost(w[k])
  <2>1. 1..k \in SUBSET (1..n) /\ 1..k # {} /\ Max(1..k) = k /\ (1..k) \ {k} = 1..(k - 1)
    BY <1>1, IntervalPrefixes
  <2>2. it[1..k] = it[(1..k) \ {Max(1..k)}] + Cost(w[Max(1..k)])
    BY <1>6, <2>1
  <2>3. k \in 0..n /\ k - 1 \in 0..n
    BY <1>1
  <2> QED BY <2>1, <2>2, <2>3
<1>9. n \in 0..n /\ DOMAIN sums = 0..n
  BY <1>1
<1>10. Effort(w) = sums[n]
  BY <1>3, <1>9
<1> HIDE DEF sums
<1>11. sums \in [0..n -> Nat]
  <2> DEFINE T == {k \in 0..n : sums[k] \in Nat}
  <2>1. 0 \in T
    BY <1>1, <1>7
  <2>2. ASSUME NEW k \in 1..n, k - 1 \in T PROVE k \in T
    <3>1. k \in 0..n /\ sums[k - 1] \in Nat /\ Cost(w[k]) \in Nat
      BY <1>1, <2>2
    <3>2. sums[k] \in Nat
      BY <1>8, <3>1
    <3> QED BY <3>1, <3>2
  <2> HIDE DEF T
  <2>3. 0..n \subseteq T
    BY <1>1, <2>1, <2>2, BoundedInduction
  <2>4. \A k \in 0..n : sums[k] \in Nat
    BY <2>3 DEF T
  <2>5. sums = [k \in 0..n |-> sums[k]]
    BY DEF sums
  <2> QED BY <2>4, <2>5
<1>12. Costs(sums, n, w)
  BY <1>7, <1>8, <1>10, <1>11 DEF Costs
<1> QED BY ONLY <1>12 DEF n

\* The first of the halves, and the others.
LEMMA EffortSplit ==
    ASSUME NEW X, NEW w \in Seq(X), w # <<>>, \A i \in DOMAIN w : Cost(w[i]) \in Nat
    PROVE  Effort(w) = Cost(Head(w)) + Effort(Tail(w)) /\ Effort(Tail(w)) \in Nat
<1> DEFINE t == Tail(w)
           n == Len(t)
<1>1. /\ t \in Seq(X) /\ n \in Nat /\ Len(w) = n + 1 /\ Head(w) = w[1]
      /\ \A i \in 1..n : t[i] = w[i + 1] /\ i + 1 \in DOMAIN w
  OBVIOUS
<1>2. 1 \in DOMAIN w /\ DOMAIN t = 1..n /\ DOMAIN w = 1..(n + 1)
  BY <1>1
<1> HIDE DEF t, n
<1>3. \A i \in DOMAIN t : Cost(t[i]) \in Nat
  BY <1>1, <1>2
<1>4. PICK a : Costs(a, n + 1, w)
  BY <1>1, EffortStepwise
<1>5. PICK b : Costs(b, n, t)
  <2>1. \E b : Costs(b, Len(t), t)
    BY <1>1, <1>3, EffortStepwise
  <2> QED BY <2>1 DEF n
<1> DEFINE T == {k \in 0..n : a[k + 1] = Cost(w[1]) + b[k]}
<1>6. Cost(w[1]) \in Nat
  BY <1>2
<1>7. 0 \in T
  <2>1. a[1] = a[0] + Cost(w[1]) /\ a[0] = 0 /\ b[0] = 0
    <3>1. 1 \in 1..(n + 1) /\ 1 - 1 = 0
      BY <1>1
    <3>2. a[1] = a[1 - 1] + Cost(w[1])
      BY <1>4, <3>1 DEF Costs
    <3> QED BY <1>4, <1>5, <3>1, <3>2 DEF Costs
  <2> QED BY <1>1, <1>6, <2>1
<1>8. ASSUME NEW k \in 1..n, k - 1 \in T PROVE k \in T
  <2>1. k + 1 \in 1..(n + 1) /\ k \in 0..n /\ (k + 1) - 1 = k /\ (k - 1) + 1 = k /\ k - 1 \in 0..n
    BY <1>1
  <2>2. a[k + 1] = a[(k + 1) - 1] + Cost(w[k + 1])
    BY <1>4, <2>1 DEF Costs
  <2>3. b[k] = b[k - 1] + Cost(t[k]) /\ t[k] = w[k + 1] /\ b[k - 1] \in Nat
    BY <1>1, <1>5, <2>1 DEF Costs
  <2>4. a[(k - 1) + 1] = Cost(w[1]) + b[k - 1]
    BY <1>8
  <2>5. Cost(w[k + 1]) \in Nat
    BY <1>1
  <2>6. a[k + 1] = Cost(w[1]) + b[k]
    BY <1>6, <2>1, <2>2, <2>3, <2>4, <2>5
  <2> QED BY <2>1, <2>6
<1> HIDE DEF T
<1>9. 0..n \subseteq T
  BY <1>1, <1>7, <1>8, BoundedInduction
<1>10. n \in 0..n
  BY <1>1
<1>11. n \in T
  BY <1>9, <1>10
<1>12. a[n + 1] = Cost(w[1]) + b[n]
  BY <1>11 DEF T
<1>13. Effort(w) = a[n + 1] /\ Effort(t) = b[n] /\ b[n] \in Nat
  BY <1>4, <1>5, <1>10 DEF Costs
<1> QED BY <1>1, <1>12, <1>13 DEF t

\* The halves to try, and what they cost.
LEMMA WorkCosts ==
    ASSUME NEW X, NEW w \in Seq(Seq(X)), \A i \in DOMAIN w : w[i] # <<>>
    PROVE  \A i \in DOMAIN w : Cost(w[i]) \in Nat
<1>1. \A i \in DOMAIN w : w[i] \in Seq(X) /\ w[i] # <<>>
  OBVIOUS
<1> QED BY <1>1, CostOf

\* A trial leaves less to try.
LEMMA TrialsShrink ==
    ASSUME Inv, TryHalf
    PROVE  Effort(work') < Effort(work)
<1> DEFINE b == Head(work)
           t == Tail(work)
           m == Len(b) \div 2
           l == SubSeq(b, 1, m)
           r == SubSeq(b, m + 1, Len(b))
<1>1. /\ stage = "bisect" /\ work # <<>> /\ work \in Seq(Seq(Placements)) /\ Inv'
      /\ \A i \in DOMAIN work : work[i] # <<>>
      /\ \/ Keep(b) \/ Drop(b)
         \/ Halve(b, m, m + 1)
  BY TryFrame, TryKeepsInv DEF Inv, Bisecting
<1>2. b \in Seq(Placements) /\ b # <<>>
  BY <1>1, PendingFacts
<1>3. /\ Effort(work) = Cost(b) + Effort(t) /\ Effort(t) \in Nat
  <2>1. \A i \in DOMAIN work : Cost(work[i]) \in Nat
    BY <1>1, WorkCosts
  <2> QED BY <1>1, <2>1, EffortSplit
<1>4. Cost(b) = 2 * Len(b) - 1 /\ Cost(b) \in Nat /\ Cost(b) >= 1
  BY <1>2, CostOf
<1>5. CASE Keep(b) \/ Drop(b)
  <2>1. work' = t
    BY <1>5 DEF Keep, Drop
  <2> HIDE DEF b, t
  <2> QED BY <1>3, <1>4, <2>1
<1>6. CASE Halve(b, m, m + 1)
  <2>1. work' = <<l, r>> \o t /\ Len(b) > 1 /\ stage' = "bisect"
    BY <1>6, TryFrame DEF Halve
  <2>2. work' \in Seq(Seq(Placements)) /\ \A i \in DOMAIN work' : work'[i] # <<>>
    BY <1>1, <2>1 DEF Inv, Bisecting
  <2>3. Len(b) \in Nat /\ m \in 1..(Len(b) - 1)
    <3>1. \A n \in Nat : n > 1 => n \div 2 \in 1..(n - 1)
      OBVIOUS
    <3>2. Len(b) \in Nat
      BY <1>2
    <3> QED BY <2>1, <3>1, <3>2
  <2>4. l \in Seq(Placements) /\ Len(l) = m /\ r \in Seq(Placements) /\ Len(r) = Len(b) - m
    <3> HIDE DEF b, m
    <3> QED BY <1>2, <2>3
  <2>5. t \in Seq(Seq(Placements))
    BY <1>1
  <2> HIDE DEF b, m, l, r, t
  <2>6. l # <<>> /\ r # <<>>
    <3>1. Len(l) # 0 /\ Len(r) # 0 /\ Len(<<>>) = 0
      BY <2>3, <2>4
    <3> QED BY <3>1
  <2>7. work' # <<>> /\ Head(work') = l /\ Tail(work') = <<r>> \o t
    BY <2>1, <2>4, <2>5
  <2>8. <<r>> \o t \in Seq(Seq(Placements)) /\ <<r>> \o t # <<>> /\ Head(<<r>> \o t) = r /\ Tail(<<r>> \o t) = t
    BY <2>4, <2>5
  <2>9. Effort(work') = Cost(l) + Effort(<<r>> \o t) /\ Effort(<<r>> \o t) \in Nat
    <3>1. \A i \in DOMAIN work' : Cost(work'[i]) \in Nat
      BY <2>2, WorkCosts
    <3> QED BY <2>2, <2>7, <3>1, EffortSplit
  <2>10. Effort(<<r>> \o t) = Cost(r) + Effort(t)
    <3> DEFINE u == <<r>> \o t
    <3>1. \A i \in DOMAIN u : u[i] # <<>>
      <4>1. DOMAIN u = 1..(1 + Len(t)) /\ Len(t) \in Nat /\ u[1] = r
        BY <2>4, <2>5
      <4>2. DOMAIN work' = 1..(2 + Len(t)) /\ \A i \in 2..(1 + Len(t)) : u[i] = work'[i + 1]
        BY <2>1, <2>4, <2>5
      <4> HIDE DEF u
      <4>3. \A i \in 1..(1 + Len(t)) : i = 1 \/ (i \in 2..(1 + Len(t)) /\ i + 1 \in 1..(2 + Len(t)))
        BY <4>1
      <4> QED BY <2>2, <2>6, <4>1, <4>2, <4>3
    <3>2. u \in Seq(Seq(Placements)) /\ u # <<>> /\ Head(u) = r /\ Tail(u) = t
      BY <2>8
    <3> HIDE DEF u
    <3>3. \A i \in DOMAIN u : Cost(u[i]) \in Nat
      BY <3>1, <3>2, WorkCosts
    <3>4. Effort(u) = Cost(Head(u)) + Effort(Tail(u))
      BY <3>2, <3>3, EffortSplit
    <3> QED BY <3>2, <3>4 DEF u
  <2>11. Cost(l) = 2 * m - 1 /\ Cost(r) = 2 * (Len(b) - m) - 1
    BY <2>4, <2>6, CostOf
  <2> QED BY <1>3, <1>4, <2>3, <2>9, <2>10, <2>11
<1> QED BY <1>1, <1>5, <1>6

\* The call returns, whatever is rejected on the way: no loop repeats a step.
THEOREM RunAdvances == Spec => AlwaysAdvances
<1> DEFINE Further ==
        \/ Phase(stage') > Phase(stage)
        \/ /\ Phase(stage') = Phase(stage)
           /\ \/ next' > next /\ next <= Len(Planned) + Len(Qualities)
              \/ next' = next /\ <<stage, stage'>> \in {<<"batches", "bisect">>, <<"bisect", "judge">>}
              \/ next' = next /\ stage' = stage /\ Effort(work') < Effort(work)
              \/ next' = next /\ stage' = stage /\ Len(queue') < Len(queue)
<1>1. Inv /\ Accounts /\ [Next]_vars => Further \/ UNCHANGED vars
  <2> SUFFICES ASSUME Inv, Accounts, Next PROVE Further \/ UNCHANGED vars
    OBVIOUS
  <2>0. /\ next \in Nat \ {0} /\ Planned \in Seq(Placements) /\ Qualities \in Seq(Labels)
        /\ Len(Planned) \in Nat /\ Len(Qualities) \in Nat
    BY PlannedFacts, QualityShape DEF Inv, Typed
  <2>1. CASE ProjectSource
    <3>1. stage = "project" /\ stage' \in {"quality", "done"}
      BY <2>1, Zenon DEF ProjectSource, Finish
    <3> QED BY <3>1 DEF Phase
  <2>2. CASE TryQuality
    <3>1. stage = "quality" /\ stage' = stage /\ next' = next + 1 /\ next <= Len(Qualities)
      BY <2>2, Zenon DEF TryQuality
    <3>2. next' > next /\ next <= Len(Planned) + Len(Qualities)
      BY <2>0, <3>1
    <3> QED BY <3>1, <3>2
  <2>3. CASE EndQuality \/ EndBatches \/ EndPrune \/ ReorderSkills \/ Deliver
    <3>1. \/ stage = "quality" /\ stage' = "batches"
          \/ stage = "batches" /\ stage' \in {"prune", "final"}
          \/ stage = "prune" /\ stage' = "reorder"
          \/ stage = "reorder" /\ stage' = "final"
          \/ stage = "final" /\ stage' = "done"
      BY <2>3, Zenon DEF EndQuality, EndBatches, EndPrune, ReorderSkills, Deliver, Finish
    <3> QED BY <3>1 DEF Phase
  <2>4. CASE StartBatch \/ EndBisection
    <3>1. /\ next' = next
          /\ <<stage, stage'>> = <<"batches", "bisect">> \/ <<stage, stage'>> = <<"bisect", "judge">>
      BY <2>4 DEF StartBatch, EndBisection, search
    <3> QED BY <3>1 DEF Phase
  <2>5. CASE TryHalf
    <3>1. stage' = stage /\ next' = next /\ Effort(work') < Effort(work)
      BY <2>5, TryFrame, TrialsShrink
    <3> QED BY <3>1
  <2>6. CASE JudgeBatch
    <3>1. stage = "judge" /\ stage' = "batches" /\ next' = next + BatchSize
      BY <2>6 DEF JudgeBatch
    <3>2. next <= Len(Planned)
      BY <3>1 DEF Inv, Bisecting
    <3>3. next' > next /\ next <= Len(Planned) + Len(Qualities)
      BY <2>0, <3>1, <3>2, OptimizerAssumption
    <3> QED BY <3>1, <3>3 DEF Phase
  <2>7. CASE TryPrune
    <3>1. stage = "prune" /\ stage' = stage /\ next' = next /\ queue # <<>> /\ queue' = Tail(queue)
      BY <2>7 DEF TryPrune
    <3>2. queue \in Seq(Slots)
      BY <3>1 DEF Accounts, Queued
    <3>3. Len(queue') < Len(queue)
      BY <3>1, <3>2
    <3> QED BY <3>1, <3>3
  <2>8. CASE Done
    BY <2>8 DEF Done
  <2> HIDE DEF Further
  <2> QED BY <2>1, <2>2, <2>3, <2>4, <2>5, <2>6, <2>7, <2>8 DEF Next
<1> QED BY <1>1, InvariantHolds, AccountsHold, PTL DEF Spec, AlwaysAdvances
==============================================================================
