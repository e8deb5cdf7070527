-------------------------- MODULE StoredKitsProofs --------------------------
(***************************************************************************)
(* Proofs about stored kits: what the delivery of a kit promises, what the *)
(* truth gate leaves of a draft, that no batch of change actions brings    *)
(* back a fabrication or touches what it is not about, and that a kit      *)
(* reads the same however old its row is.                                  *)
(*                                                                         *)
(* Two invariants carry the argument.  Drafted: a new kit's resume is kept *)
(* with the candidate's own text and what the gate left of the draft, so   *)
(* that a batch can only gate one of the two again.  Kept: every row has   *)
(* the fields its schema writes, its state is the roll-up of its reports,  *)
(* and a report of a delivered document does not stand without it.         *)
(***************************************************************************)
EXTENDS StoredKits, SequenceFolds

-----------------------------------------------------------------------------
(* Delivery, for every combination of reports *)

\* _document_delivery_report: an artifact is only reported delivered if it was
\* requested and built, no fatal gate rejected it, and nothing asked for a review
\* of its input.
THEOREM DeliveredIsSound ==
    ASSUME NEW requested \in BOOLEAN, NEW artifact \in ArtifactStatuses,
           NEW preferred \in Delivered \cup {"needs_input_review"},
           Report(requested, artifact, preferred) \in Delivered
    PROVE  /\ requested /\ artifact \in {"generated", "repaired"}
           /\ preferred \in Delivered
BY DEF Report, Delivered, ArtifactStatuses

\* Every report has a state of the enumeration.
LEMMA ReportType ==
    ASSUME NEW requested \in BOOLEAN, NEW artifact \in ArtifactStatuses,
           NEW preferred \in Delivered \cup {"needs_input_review"}
    PROVE  Report(requested, artifact, preferred) \in DocumentStates
BY DEF Report, Delivered, DocumentStates, ArtifactStatuses

\* The states of one group tell apart who was delivered and who waits.
LEMMA GroupStateCases ==
    ASSUME NEW reports, NEW group
    PROVE  /\ GroupState(reports, group) \in KitStates
           /\ GroupState(reports, group) = "completed"
                => \A k \in group : reports[k] \in Delivered
           /\ GroupState(reports, group) = "failed"
                => \A k \in group : reports[k] \notin Delivered
           /\ (\A k \in group : reports[k] \in Delivered)
                => GroupState(reports, group) = "completed"
           /\ (\E k \in group : reports[k] = "needs_input_review")
                <=> GroupState(reports, group) = "needs_input_review"
<1>1. CASE \E k \in group : reports[k] = "needs_input_review"
  <2>1. GroupState(reports, group) = "needs_input_review"
    BY <1>1 DEF GroupState
  <2>2. ~(\A k \in group : reports[k] \in Delivered)
    BY <1>1 DEF Delivered
  <2> QED BY <1>1, <2>1, <2>2 DEF KitStates
<1>2. CASE /\ ~(\E k \in group : reports[k] = "needs_input_review")
           /\ \A k \in group : reports[k] \in Delivered
  <2>1. GroupState(reports, group) = "completed"
    BY <1>2 DEF GroupState
  <2> QED BY <1>2, <2>1 DEF KitStates
<1>3. CASE /\ ~(\E k \in group : reports[k] = "needs_input_review")
           /\ ~(\A k \in group : reports[k] \in Delivered)
  <2>1. CASE \E k \in group : reports[k] \in Delivered
    <3>1. GroupState(reports, group) = "partially_completed"
      BY <1>3, <2>1 DEF GroupState
    <3> QED BY <1>3, <2>1, <3>1 DEF KitStates
  <2>2. CASE ~(\E k \in group : reports[k] \in Delivered)
    <3>1. GroupState(reports, group) = "failed"
      BY <1>3, <2>2 DEF GroupState
    <3> QED BY <1>3, <2>2, <3>1 DEF KitStates
  <2> QED BY <2>1, <2>2
<1> QED BY <1>1, <1>2, <1>3

\* _roll_up_kit_state: a kit is completed exactly when everything that was
\* requested was delivered.
THEOREM CompletedIffAllDelivered ==
    ASSUME NEW reports \in [Kinds -> DocumentStates]
    PROVE  RollUp(reports) = "completed"
             <=> \A k \in Kinds : reports[k] \in Delivered \cup {"not_requested"}
<1> DEFINE primary == Requested(reports) \cap Primary
           secondary == Requested(reports) \ Primary
<1>1. Requested(reports) = {k \in Kinds : reports[k] # "not_requested"}
  BY DEF Requested
<1>2. (\A k \in Kinds : reports[k] \in Delivered \cup {"not_requested"})
        <=> /\ \A k \in primary : reports[k] \in Delivered
            /\ \A k \in secondary : reports[k] \in Delivered
  BY <1>1 DEF Delivered
<1>3. GroupState(reports, primary) = "completed"
        <=> \A k \in primary : reports[k] \in Delivered
  BY GroupStateCases
<1>4. GroupState(reports, secondary) = "completed"
        <=> \A k \in secondary : reports[k] \in Delivered
  BY GroupStateCases
<1>5. CASE primary = {}
  <2>1. RollUp(reports) = GroupState(reports, secondary)
    BY <1>5 DEF RollUp
  <2> QED BY <1>2, <1>4, <1>5, <2>1
<1>6. CASE primary # {}
  <2>1. RollUp(reports) =
          IF /\ GroupState(reports, primary) = "completed"
             /\ \E k \in secondary : reports[k] \notin Delivered
          THEN "partially_completed" ELSE GroupState(reports, primary)
    BY <1>6 DEF RollUp
  <2> HIDE DEF primary, secondary
  <2> QED BY <1>2, <1>3, <2>1
<1> QED BY <1>5, <1>6

\* The kit waits for a review of its input whenever a primary document does, and
\* a kit that is reported failed delivered neither resume nor letter.
THEOREM PrimaryDecides ==
    ASSUME NEW reports \in [Kinds -> DocumentStates], NEW k \in Primary
    PROVE  /\ reports[k] = "needs_input_review" => RollUp(reports) = "needs_input_review"
           /\ reports[k] \in Delivered => RollUp(reports) \in ActionableStates
<1> DEFINE primary == Requested(reports) \cap Primary
           secondary == Requested(reports) \ Primary
<1>1. SUFFICES ASSUME reports[k] \in Delivered \cup {"needs_input_review"}
               PROVE  /\ reports[k] = "needs_input_review"
                           => RollUp(reports) = "needs_input_review"
                      /\ reports[k] \in Delivered => RollUp(reports) \in ActionableStates
  OBVIOUS
<1>2. k \in primary
  BY <1>1 DEF Requested, Primary, Kinds, Delivered
<1>3. RollUp(reports) =
        IF /\ GroupState(reports, primary) = "completed"
           /\ \E j \in secondary : reports[j] \notin Delivered
        THEN "partially_completed" ELSE GroupState(reports, primary)
  BY <1>2 DEF RollUp
<1> HIDE DEF primary, secondary
<1>4. reports[k] = "needs_input_review"
        => GroupState(reports, primary) = "needs_input_review"
  BY <1>2, GroupStateCases
<1>5. reports[k] \in Delivered => GroupState(reports, primary) \in KitStates \ {"failed"}
  BY <1>2, GroupStateCases
<1> QED BY <1>3, <1>4, <1>5 DEF KitStates, ActionableStates

-----------------------------------------------------------------------------
(* Repair *)

\* One step of Picked.
Pick(kept, t, i, places) == IF i \in places THEN Append(kept, t[i]) ELSE kept

\* The intermediate texts of Picked.
Picks(trace, n, X, t, places) ==
    /\ trace \in [0..n -> Seq(X)]
    /\ trace[0] = <<>>
    /\ \A k \in 1..n : trace[k] = Pick(trace[k - 1], t, k, places)
    /\ Picked(t, places) = trace[n]

\* Picked looks at one token after the other.
LEMMA PickedStepwise ==
    ASSUME NEW X, NEW t \in Seq(X), NEW places
    PROVE  \E trace : Picks(trace, Len(t), X, t, places)
<1> DEFINE n == Len(t)
           S == Seq(X)
           F == [p \in S \X (1..n) |-> Pick(p[1], t, p[2], places)]
           at == [i \in DOMAIN t |-> i]
           Rec(it) == [s \in SUBSET (DOMAIN at) |->
                         IF s = {} THEN <<>>
                         ELSE Pick(it[s \ {Max(s)}], t, at[Max(s)], places)]
           Walk(it) == [s \in SUBSET (1..n) |->
                          IF s = {} THEN <<>>
                          ELSE Pick(it[s \ {Max(s)}], t, Max(s), places)]
           it == CHOOSE i : i = Rec(i)
<1>1. n \in Nat /\ DOMAIN t = 1..n /\ <<>> \in S /\ \A i \in 1..n : t[i] \in X
  OBVIOUS
<1>2. \A a \in S, i \in 1..n : F[<<a, i>>] = Pick(a, t, i, places) /\ F[<<a, i>>] \in S
  BY <1>1 DEF Pick
<1>3. Picked(t, places) = it[DOMAIN at]
  BY DEF Picked, FoldLeftDomain, FoldLeft, MapThenFoldSet, Pick
<1>4. DOMAIN at = 1..n /\ \A i \in 1..n : at[i] = i
  BY <1>1
<1> HIDE DEF n, S, F, at
<1>5. PICK w : Solves(w, n, S, <<>>, F)
  BY <1>1, <1>2, FoldExists DEF S
<1>6. ASSUME NEW s \in SUBSET (1..n), s # {}
      PROVE  at[Max(s)] = Max(s)
  BY <1>1, <1>4, <1>6, MaxIsGreatest
<1>7. w = Walk(w)
  <2>1. ASSUME NEW s \in SUBSET (1..n)
        PROVE  w[s] = IF s = {} THEN <<>> ELSE Pick(w[s \ {Max(s)}], t, Max(s), places)
    <3>1. CASE s = {}
      BY <1>5, <3>1 DEF Solves
    <3>2. CASE s # {}
      <4>1. Max(s) \in 1..n /\ w[s \ {Max(s)}] \in S
        BY <1>1, <1>5, <3>2, SolvesTyped
      <4>2. w[s] = F[<<w[s \ {Max(s)}], Max(s)>>]
        BY <1>5, <3>2 DEF Solves
      <4> QED BY <1>2, <3>2, <4>1, <4>2
    <3> QED BY <3>1, <3>2
  <2>2. w = [s \in SUBSET (1..n) |-> w[s]]
    BY <1>5 DEF Solves
  <2> QED BY <2>1, <2>2
<1>8. Rec(w) = Walk(w)
  BY <1>4, <1>6
<1>9. it = Rec(it)
  BY <1>7, <1>8
<1> HIDE DEF it
<1>10. \A s \in SUBSET (1..n) :
         it[s] = IF s = {} THEN <<>> ELSE Pick(it[s \ {Max(s)}], t, Max(s), places)
  BY <1>4, <1>6, <1>9
<1> HIDE DEF Rec, Walk
<1> DEFINE trace == [k \in 0..n |-> it[1..k]]
<1>11. trace[0] = <<>>
  <2>1. it[{}] = <<>>
    BY <1>10
  <2>2. 0 \in 0..n /\ 1..0 = {}
    BY <1>1
  <2> QED BY <2>1, <2>2
<1>12. ASSUME NEW k \in 1..n
       PROVE  trace[k] = Pick(trace[k - 1], t, k, places)
  <2>1. 1..k \in SUBSET (1..n) /\ 1..k # {} /\ Max(1..k) = k /\ (1..k) \ {k} = 1..(k - 1)
    BY <1>1, IntervalPrefixes
  <2>2. it[1..k] = Pick(it[(1..k) \ {Max(1..k)}], t, Max(1..k), places)
    BY <1>10, <2>1
  <2>3. k \in 0..n /\ k - 1 \in 0..n
    BY <1>1
  <2> QED BY <2>1, <2>2, <2>3
<1>13. n \in 0..n /\ DOMAIN trace = 0..n
  BY <1>1
<1>14. Picked(t, places) = trace[n]
  BY <1>3, <1>4, <1>13
<1> HIDE DEF trace
<1>15. trace \in [0..n -> Seq(X)]
  <2> DEFINE T == {k \in 0..n : trace[k] \in Seq(X)}
  <2>1. 0 \in T
    <3>1. 0 \in 0..n
      BY <1>1
    <3>2. <<>> \in Seq(X)
      OBVIOUS
    <3> QED BY ONLY <1>11, <3>1, <3>2
  <2>2. ASSUME NEW k \in 1..n, k - 1 \in T PROVE k \in T
    <3>1. k \in 0..n /\ trace[k - 1] \in Seq(X) /\ t[k] \in X
      BY <1>1, <2>2
    <3>2. trace[k] = Append(trace[k - 1], t[k]) \/ trace[k] = trace[k - 1]
      BY <1>12 DEF Pick
    <3>3. Append(trace[k - 1], t[k]) \in Seq(X)
      BY <3>1
    <3>4. trace[k] \in Seq(X)
      BY ONLY <3>1, <3>2, <3>3
    <3> QED BY <3>1, <3>4
  <2> HIDE DEF T
  <2>3. 0..n \subseteq T
    BY <1>1, <2>1, <2>2, BoundedInduction
  <2>4. \A k \in 0..n : trace[k] \in Seq(X)
    BY <2>3 DEF T
  <2>5. trace = [k \in 0..n |-> trace[k]]
    BY DEF trace
  <2> QED BY <2>4, <2>5
<1>16. Picks(trace, n, X, t, places)
  BY <1>11, <1>12, <1>14, <1>15 DEF Picks
<1> QED BY ONLY <1>16 DEF n

\* What is picked comes from the places.
LEMMA PickedFrom ==
    ASSUME NEW X, NEW t \in Seq(X), NEW places
    PROVE  /\ Picked(t, places) \in Seq(X)
           /\ \A j \in DOMAIN Picked(t, places) :
                \E i \in DOMAIN t : i \in places /\ Picked(t, places)[j] = t[i]
<1> DEFINE n == Len(t)
           From(x) == \E i \in 1..n : i \in places /\ x = t[i]
<1>1. n \in Nat /\ DOMAIN t = 1..n /\ \A i \in 1..n : t[i] \in X
  OBVIOUS
<1>2. PICK trace : Picks(trace, n, X, t, places)
  BY PickedStepwise
<1> HIDE DEF n
<1> DEFINE T == {k \in 0..n : \A j \in DOMAIN trace[k] : From(trace[k][j])}
<1>3. 0 \in T
  BY <1>1, <1>2 DEF Picks
<1>4. ASSUME NEW k \in 1..n, k - 1 \in T PROVE k \in T
  <2>1. k \in 0..n /\ k - 1 \in 0..n /\ trace[k - 1] \in Seq(X) /\ trace[k] = Pick(trace[k - 1], t, k, places)
    <3>1. k \in 0..n /\ k - 1 \in 0..n
      BY <1>1
    <3>2. trace[k - 1] \in Seq(X)
      BY <1>2, <3>1 DEF Picks
    <3>3. trace[k] = Pick(trace[k - 1], t, k, places)
      BY <1>2 DEF Picks
    <3> QED BY <3>1, <3>2, <3>3
  <2>2. CASE k \in places
    <3> DEFINE s == trace[k - 1]
    <3>1. trace[k] = Append(s, t[k]) /\ s \in Seq(X) /\ t[k] \in X
      BY <1>1, <2>1, <2>2 DEF Pick
    <3>2. \A j \in DOMAIN s : From(s[j])
      BY <1>4
    <3>3. From(t[k])
      BY <2>2
    <3> HIDE DEF s, From
    <3>4. ASSUME NEW j \in DOMAIN trace[k] PROVE From(trace[k][j])
      <4>1. (j \in DOMAIN s /\ trace[k][j] = s[j]) \/ trace[k][j] = t[k]
        BY <3>1
      <4> QED BY <3>2, <3>3, <4>1
    <3> QED BY <2>1, <3>4
  <2>3. CASE k \notin places
    BY <1>4, <2>1, <2>3 DEF Pick
  <2> QED BY <2>2, <2>3
<1> HIDE DEF T
<1>5. 0..n \subseteq T
  BY <1>1, <1>3, <1>4, BoundedInduction
<1>6. n \in T
  BY <1>1, <1>5
<1>7. Picked(t, places) = trace[n] /\ trace[n] \in Seq(X)
  BY <1>1, <1>2 DEF Picks
<1> QED BY <1>1, <1>6, <1>7 DEF T

\* A repair leaves tokens of the text, and may end it with a stop.
LEMMA RepairedFrom ==
    ASSUME NEW X, Stop \in X, NEW t \in Seq(X), NEW bad, NEW g
    PROVE  /\ Repair(g, t, bad) \in Seq(X)
           /\ \A j \in DOMAIN Repair(g, t, bad) :
                Repair(g, t, bad)[j] = Stop \/ \E i \in DOMAIN t : Repair(g, t, bad)[j] = t[i]
<1> DEFINE Comes(u) == u \in Seq(X) /\ \A j \in DOMAIN u : u[j] = Stop \/ \E i \in DOMAIN t : u[j] = t[i]
<1>1. \A places : Comes(Picked(t, places))
  BY PickedFrom
<1>2. ASSUME NEW u, Comes(u) PROVE Comes(Ended(u))
  <2>1. CASE Ended(u) = u
    BY <1>2, <2>1
  <2>2. CASE Ended(u) = Append(u, Stop)
    <3>1. u \in Seq(X) /\ Stop \in X
      BY <1>2
    <3>2. ASSUME NEW j \in DOMAIN Append(u, Stop)
          PROVE  Append(u, Stop)[j] = Stop \/ \E i \in DOMAIN t : Append(u, Stop)[j] = t[i]
      <4>1. (j \in DOMAIN u /\ Append(u, Stop)[j] = u[j]) \/ Append(u, Stop)[j] = Stop
        BY <3>1
      <4> QED BY <1>2, <4>1
    <3>3. Append(u, Stop) \in Seq(X)
      BY <3>1
    <3> QED BY <2>2, <3>2, <3>3
  <2> QED BY <2>1, <2>2 DEF Ended
<1>3. Comes(t)
  OBVIOUS
<1> HIDE DEF Comes
<1>4. Comes(RepairProse(t, bad)) /\ Comes(RepairSpans(t, bad))
  BY <1>1, <1>2, <1>3 DEF RepairProse, RepairSpans
<1>5. Comes(Repair(g, t, bad))
  BY <1>4 DEF Repair
<1> QED BY <1>5 DEF Comes

\* A gated text says nothing the text before did not say.
LEMMA NothingNew ==
    ASSUME NEW X, Stop \in X, NEW t \in Seq(X), NEW g, NEW claim,
           ~Inside(claim.value, Stop.value), StillPresent(claim, Ground(g, t).clean)
    PROVE  StillPresent(claim, t)
<1>1. Ground(g, t).clean = Repair(g, t, Unsupported(t))
  BY DEF Ground
<1>2. PICK j \in DOMAIN Repair(g, t, Unsupported(t)) : Inside(claim.value, Repair(g, t, Unsupported(t))[j].value)
  BY <1>1 DEF StillPresent
<1>3. Repair(g, t, Unsupported(t))[j] = Stop
      \/ \E i \in DOMAIN t : Repair(g, t, Unsupported(t))[j] = t[i]
  BY RepairedFrom
<1> QED BY <1>2, <1>3 DEF StillPresent

\* A text that passes the gate says nothing of what was wrong with it.
LEMMA GateHolds ==
    ASSUME NEW t, NEW g, ~Ground(g, t).fatal, NEW i \in Unsupported(t)
    PROVE  ~StillPresent(t[i], Ground(g, t).clean)
BY DEF Ground

-----------------------------------------------------------------------------
(* Records *)

Base == {"schema", "requested_mode", "resolved_mode", "target_confidence", "validation", "state", "delivery_reports"}
Parts == Kinds \cup {"match_report"}
Written == Validated \cup {"document", "change_ledger"}

LEMMA WithFields ==
    ASSUME NEW json, NEW defaults
    PROVE  /\ DOMAIN With(json, defaults) = DOMAIN json \cup DOMAIN defaults
           /\ \A key \in DOMAIN json : With(json, defaults)[key] = json[key]
           /\ \A key \in DOMAIN defaults \ DOMAIN json : With(json, defaults)[key] = defaults[key]
BY DEF With

LEMMA FieldsKept ==
    ASSUME NEW part, NEW names
    PROVE  /\ DOMAIN Fields(part, names) = names \cap DOMAIN part
           /\ \A key \in names \cap DOMAIN part : Fields(part, names)[key] = part[key]
BY DEF Fields

\* What is in an artifact that comes out of the gate.
LEMMA ArtifactRefused ==
    ASSUME NEW o, o.fatal = TRUE
    PROVE  DOMAIN Artifact(o) = Validated /\ Artifact(o).fatal = TRUE /\ Artifact(o).text = <<>>
<1> DEFINE a == [status |-> ValidationStatus(o.fatal, o.repaired > 0), fatal |-> o.fatal,
                 text |-> IF o.fatal THEN <<>> ELSE o.clean]
<1>1. DOMAIN a = Validated /\ a.fatal = TRUE /\ a.text = <<>>
  BY DEF Validated
<1>2. Artifact(o) = With(a, <<>>)
  BY DEF Artifact
<1> HIDE DEF a
<1>3. DOMAIN <<>> = {}
  OBVIOUS
<1> QED BY <1>1, <1>2, <1>3 DEF With, Validated

LEMMA ArtifactPassed ==
    ASSUME NEW o, o.fatal = FALSE
    PROVE  /\ DOMAIN Artifact(o) = Validated \cup {"document"}
           /\ Artifact(o).fatal = FALSE /\ Artifact(o).text = o.clean
<1> DEFINE a == [status |-> ValidationStatus(o.fatal, o.repaired > 0), fatal |-> o.fatal,
                 text |-> IF o.fatal THEN <<>> ELSE o.clean]
<1>1. DOMAIN a = Validated /\ a.fatal = FALSE /\ a.text = o.clean
  BY DEF Validated
<1>2. Artifact(o) = With(a, [document |-> TRUE])
  BY DEF Artifact
<1> HIDE DEF a
<1> QED BY <1>1, <1>2 DEF With, Validated

LEMMA GroundFatal == \A g, t : Ground(g, t).fatal \in BOOLEAN
BY DEF Ground

\* Writing keeps what it does not read.
LEMMA ToDictParts ==
    ASSUME NEW kit
    PROVE  /\ DOMAIN ToDict(kit) = DOMAIN kit
           /\ \A key \in DOMAIN kit \cap Primary : ToDict(kit)[key] = WriteDocument(kit[key])
           /\ "answers" \in DOMAIN kit => ToDict(kit)["answers"] = WriteAnswers(kit["answers"])
           /\ \A key \in DOMAIN kit \cap (Kinds \ Selectable) : ToDict(kit)[key] = WriteNarrative(kit[key])
           /\ "match_report" \in DOMAIN kit => ToDict(kit)["match_report"] = WriteReport(kit["match_report"])
           /\ \A key \in DOMAIN kit \ Parts : ToDict(kit)[key] = kit[key]
<1>1. DOMAIN ToDict(kit) = DOMAIN kit
  BY DEF ToDict
<1>2. \A key \in DOMAIN kit \cap Primary : ToDict(kit)[key] = WriteDocument(kit[key])
  BY DEF ToDict, Primary, Kinds, Selectable
<1>3. \A key \in DOMAIN kit \cap {"answers"} : ToDict(kit)[key] = WriteAnswers(kit[key])
  BY DEF ToDict, Primary, Kinds, Selectable
<1>4. \A key \in DOMAIN kit \cap (Kinds \ Selectable) : ToDict(kit)[key] = WriteNarrative(kit[key])
  BY DEF ToDict, Primary, Kinds, Selectable
<1>5. \A key \in DOMAIN kit \cap {"match_report"} : ToDict(kit)[key] = WriteReport(kit[key])
  BY DEF ToDict, Primary, Kinds, Selectable
<1>6. \A key \in DOMAIN kit \ Parts : ToDict(kit)[key] = kit[key]
  BY DEF ToDict, Primary, Kinds, Selectable, Parts
<1> QED BY ONLY <1>1, <1>2, <1>3, <1>4, <1>5, <1>6

\* Reading fills the fields of a kit.
LEMMA FromDictParts ==
    ASSUME NEW json
    PROVE  /\ DOMAIN FromDict(json) = Base \cup (Parts \cap DOMAIN json)
           /\ FromDict(json).schema = json.schema
           /\ FromDict(json).requested_mode = Get(json, "requested_mode", "")
           /\ FromDict(json).resolved_mode = Get(json, "resolved_mode", {})
           /\ FromDict(json).target_confidence = Get(json, "target_confidence", 0)
           /\ FromDict(json).validation = Get(json, "validation", [fatal |-> FALSE])
           /\ FromDict(json).state = StateOf(json)
           /\ FromDict(json).delivery_reports = Reports(json)
           /\ \A key \in Parts \cap DOMAIN json : FromDict(json)[key] = Read(key, json[key])
<1> DEFINE b == [schema |-> json.schema, requested_mode |-> Get(json, "requested_mode", ""),
                 resolved_mode |-> Get(json, "resolved_mode", {}),
                 target_confidence |-> Get(json, "target_confidence", 0),
                 validation |-> Get(json, "validation", [fatal |-> FALSE]),
                 state |-> StateOf(json), delivery_reports |-> Reports(json)]
           d == [key \in Parts \cap DOMAIN json |-> Read(key, json[key])]
<1>1. /\ DOMAIN b = Base /\ b.schema = json.schema
      /\ b.requested_mode = Get(json, "requested_mode", "")
      /\ b.resolved_mode = Get(json, "resolved_mode", {})
      /\ b.target_confidence = Get(json, "target_confidence", 0)
      /\ b.validation = Get(json, "validation", [fatal |-> FALSE])
      /\ b.state = StateOf(json) /\ b.delivery_reports = Reports(json)
  BY DEF Base
<1>2. DOMAIN d = Parts \cap DOMAIN json /\ \A key \in Parts \cap DOMAIN json : d[key] = Read(key, json[key])
  OBVIOUS
<1>3. FromDict(json) = With(b, d)
  BY DEF FromDict, Parts
<1> HIDE DEF b, d
<1>4. Base \cap Parts = {}
  BY DEF Base, Parts, Kinds, Primary
<1>5. /\ DOMAIN With(b, d) = Base \cup (Parts \cap DOMAIN json)
      /\ \A key \in Base : With(b, d)[key] = b[key]
      /\ \A key \in Parts \cap DOMAIN json : With(b, d)[key] = d[key]
  BY <1>1, <1>2, <1>4 DEF With
<1> HIDE DEF FromDict
<1> QED BY <1>1, <1>2, <1>3, <1>5 DEF Base

\* What a batch makes of the artifact it names.
Rebuilt(part, status) ==
    LET record == [part.change_ledger[1] EXCEPT !.status = status]
        outcome == Ground(granularity, Effective(record))
    IN  With([change_ledger |-> <<record>>], IF "document" \in DOMAIN part THEN Artifact(outcome) ELSE part)

\* The text that is scored again.
Again(part, status) == Ground(granularity, Effective([part.change_ledger[1] EXCEPT !.status = status])).clean

\* What a batch on one artifact makes of a kit.
ChangedTo(kit, kind, status, typed, done) ==
    /\ DOMAIN done = DOMAIN kit
    /\ \A key \in DOMAIN kit \ {kind, "validation", "match_report"} : done[key] = kit[key]
    /\ done[kind] = Rebuilt(kit[kind], status)
    /\ "match_report" \in DOMAIN kit =>
            done["match_report"] =
                IF kind = "resume" /\ "document" \in DOMAIN kit[kind]
                THEN Rescored(kit.match_report, Again(kit[kind], status), typed) ELSE kit["match_report"]

LEMMA ChangedParts ==
    ASSUME NEW kit, NEW kind \in Primary \cap DOMAIN kit, "validation" \in DOMAIN kit, NEW status, NEW typed
    PROVE  ChangedTo(kit, kind, status, typed, Changed(kit, kind, status, typed).kit)
<1> DEFINE artifact == Rebuilt(kit[kind], status)
           report == IF kind = "resume" /\ "document" \in DOMAIN kit[kind] /\ "match_report" \in DOMAIN kit
                     THEN [match_report |-> Rescored(kit.match_report, Again(kit[kind], status), typed)] ELSE <<>>
           alone == [key \in {kind} |-> artifact]
           most == With(report, kit)
           done == With(alone, most)
           roll == [validation |-> Validation(done)]
<1>1. Changed(kit, kind, status, typed).kit = With(roll, done)
  BY DEF Changed, Rebuilt, Again
<1>2. DOMAIN <<>> = {}
  OBVIOUS
<1>3. /\ DOMAIN report \subseteq {"match_report"} \cap DOMAIN kit
      /\ "match_report" \in DOMAIN report <=>
            kind = "resume" /\ "document" \in DOMAIN kit[kind] /\ "match_report" \in DOMAIN kit
      /\ "match_report" \in DOMAIN report =>
            report["match_report"] = Rescored(kit.match_report, Again(kit[kind], status), typed)
  BY <1>2
<1>4. DOMAIN alone = {kind} /\ alone[kind] = artifact /\ DOMAIN roll = {"validation"} /\ kind # "match_report"
  BY DEF Primary
<1> HIDE DEF report, alone, artifact, roll
<1>5. /\ DOMAIN most = DOMAIN report \cup DOMAIN kit
      /\ \A key \in DOMAIN report : most[key] = report[key]
      /\ \A key \in DOMAIN kit \ DOMAIN report : most[key] = kit[key]
  BY WithFields
<1> HIDE DEF most
<1>6. /\ DOMAIN done = DOMAIN alone \cup DOMAIN most
      /\ \A key \in DOMAIN alone : done[key] = alone[key]
      /\ \A key \in DOMAIN most \ DOMAIN alone : done[key] = most[key]
  BY WithFields
<1> HIDE DEF done
<1> DEFINE last == With(roll, done)
<1>7. /\ DOMAIN last = DOMAIN roll \cup DOMAIN done
      /\ \A key \in DOMAIN done \ DOMAIN roll : last[key] = done[key]
  BY WithFields
<1> HIDE DEF last
<1>8. kind # "validation" /\ "match_report" # "validation"
  BY DEF Primary
<1>9. DOMAIN last = DOMAIN kit
  BY <1>3, <1>4, <1>5, <1>6, <1>7
<1>10. \A key \in DOMAIN kit \ {kind, "validation", "match_report"} : last[key] = kit[key]
  BY <1>3, <1>4, <1>5, <1>6, <1>7
<1>11. last[kind] = artifact
  BY <1>4, <1>5, <1>6, <1>7, <1>8
<1>12. "match_report" \in DOMAIN kit => last["match_report"] = most["match_report"]
  BY <1>3, <1>4, <1>5, <1>6, <1>7, <1>8
<1>13. "match_report" \in DOMAIN kit =>
         last["match_report"] =
            IF kind = "resume" /\ "document" \in DOMAIN kit[kind]
            THEN Rescored(kit.match_report, Again(kit[kind], status), typed) ELSE kit["match_report"]
  BY <1>3, <1>5, <1>12
<1>14. ChangedTo(kit, kind, status, typed, last)
  BY <1>9, <1>10, <1>11, <1>13 DEF ChangedTo, artifact
<1> QED BY <1>1, <1>14 DEF last

-----------------------------------------------------------------------------
(* No fabrication comes back *)

\* The resume of a generated kit: its record holds the candidate's own text and
\* what the gate left of the draft, and it has a document only if the draft passed.
Recorded(part) ==
    /\ Written \ {"document"} \subseteq DOMAIN part /\ DOMAIN part \subseteq Written
    /\ "document" \in DOMAIN part => ~Ground(granularity, draft).fatal
    /\ \E original \in Originals, status \in Dispositions :
        part.change_ledger = <<[original |-> original, tailored |-> Ground(granularity, draft).clean, status |-> status]>>
    /\ \A i \in Unsupported(draft) : ~StillPresent(draft[i], part.text)

Drafted ==
    /\ alphabet \in Alphabets \cup {{}} /\ draft \in Seq(alphabet)
    /\ Stored /\ draft # <<>> =>
        /\ row.schema = 7 /\ Primary \subseteq DOMAIN row
        /\ Recorded(row.resume)
        /\ row.cover_letter.change_ledger = <<>> /\ "change_ledger" \in DOMAIN row.cover_letter

\* A claim of the draft that nothing supports.
LEMMA DraftedClaim ==
    ASSUME alphabet \in Alphabets \cup {{}}, draft \in Seq(alphabet), NEW i \in Unsupported(draft)
    PROVE  /\ draft[i] \in UNION Alphabets /\ draft[i].sort \in Claimed
           /\ \E employed, titled \in BOOLEAN : ~Vouched(draft[i], employed, titled)
<1>1. i \in DOMAIN draft /\ IsClaim(draft, i) /\ ~Supported(draft, i)
  BY DEF Unsupported
<1>2. draft[i] \in alphabet
  BY <1>1
<1>3. draft[i].sort \in Claimed
  BY <1>1 DEF IsClaim
<1>4. EmployedNear(draft, i) \in BOOLEAN /\ TitledNear(draft, i) \in BOOLEAN
  BY DEF EmployedNear, TitledNear, HistoryNear
<1>5. ~Vouched(draft[i], EmployedNear(draft, i), TitledNear(draft, i))
  BY <1>1 DEF Supported
<1> QED BY <1>2, <1>3, <1>4, <1>5

\* Whichever text of the record is gated again, nothing fabricated is in it.
LEMMA RegatedClean ==
    ASSUME alphabet \in Alphabets \cup {{}}, draft \in Seq(alphabet),
           NEW original \in Originals, NEW t, NEW i \in Unsupported(draft),
           ~Ground(granularity, draft).fatal, ~Ground(granularity, t).fatal,
           t = original \/ t = Ground(granularity, draft).clean
    PROVE  ~StillPresent(draft[i], Ground(granularity, t).clean)
<1> DEFINE claim == draft[i]
           clean == Ground(granularity, t).clean
           X == alphabet \cup ToSet(original) \cup {Stop}
<1>1. /\ claim \in UNION Alphabets /\ claim.sort \in Claimed /\ ~Inside(claim.value, Stop.value)
      /\ \E employed, titled \in BOOLEAN : ~Vouched(claim, employed, titled)
  BY DraftedClaim, GroundingAssumption
<1>2. Stop \in X /\ draft \in Seq(X)
  OBVIOUS
<1>3. original \in Seq(X)
  <2>1. original \in Seq(ToSet(original))
    BY GroundingAssumption
  <2> QED BY <2>1
<1>4. Ground(granularity, draft).clean \in Seq(X)
  BY <1>2, RepairedFrom DEF Ground
<1>5. t \in Seq(X)
  BY <1>3, <1>4
<1> HIDE DEF X
<1> SUFFICES ASSUME StillPresent(claim, clean) PROVE FALSE
  OBVIOUS
<1>6. StillPresent(claim, t)
  <2> HIDE DEF claim
  <2> QED BY <1>1, <1>2, <1>5, NothingNew
<1>7. CASE t = Ground(granularity, draft).clean
  BY <1>6, <1>7, GateHolds
<1>8. CASE t = original
  <2>1. PICK k \in Unsupported(original) : original[k].value = claim.value
    BY <1>1, <1>6, <1>8, GroundingAssumption
  <2>2. ~StillPresent(original[k], clean)
    BY <1>8, <2>1, GateHolds
  <2> QED BY <2>1, <2>2 DEF StillPresent
<1> QED BY <1>7, <1>8

LEMMA InitDrafted == Init => Drafted
<1> SUFFICES ASSUME Init PROVE Drafted
  OBVIOUS
<1>1. draft = <<>> /\ alphabet \in Alphabets \cup {{}}
  BY DEF Init
<1> QED BY <1>1 DEF Drafted

LEMMA DispositionNames == Dispositions = {"accepted", "rejected", "proposed"}
BY DEF Dispositions

\* What a batch makes of a resume on record is on record.
LEMMA RebuiltRecorded ==
    ASSUME Drafted, NEW part, Recorded(part), NEW status \in Dispositions,
           "document" \in DOMAIN part =>
                ~Ground(granularity, Effective([part.change_ledger[1] EXCEPT !.status = status])).fatal
    PROVE  Recorded(WriteDocument(Rebuilt(ReadDocument(part), status)))
<1>1. PICK original \in Originals, old \in Dispositions :
        part.change_ledger = <<[original |-> original, tailored |-> Ground(granularity, draft).clean, status |-> old]>>
  BY DEF Recorded
<1> DEFINE record == [original |-> original, tailored |-> Ground(granularity, draft).clean, status |-> status]
           t == Effective(record)
           o == Ground(granularity, t)
           built == "document" \in DOMAIN part
           r == ReadDocument(part)
<1>2. DOMAIN r = DOMAIN part /\ \A key \in DOMAIN part : r[key] = part[key]
  BY DEF ReadDocument, With, Recorded, Written
<1>3. r.change_ledger = part.change_ledger /\ Written \ {"document"} \subseteq DOMAIN r /\ DOMAIN r \subseteq Written
  BY <1>2 DEF Recorded, Written
<1>4. [part.change_ledger[1] EXCEPT !.status = status] = record
  BY <1>1
<1>5. [r.change_ledger[1] EXCEPT !.status = status] = record
  BY <1>3, <1>4
<1>6. t = original \/ t = Ground(granularity, draft).clean
  BY DEF Effective
<1>7. built => ~o.fatal
  BY <1>4
<1>8. o.fatal \in BOOLEAN
  BY GroundFatal
<1> DEFINE l == [change_ledger |-> <<record>>]
           rest == IF built THEN Artifact(o) ELSE r
           new == With(l, rest)
           out == WriteDocument(new)
<1>9. Rebuilt(r, status) = new
  BY <1>2, <1>5 DEF Rebuilt
<1>10. /\ Validated \subseteq DOMAIN rest /\ DOMAIN rest \subseteq Written
       /\ built <=> "document" \in DOMAIN rest
       /\ rest.text = IF built THEN o.clean ELSE part.text
  <2> HIDE DEF record, t, o, r
  <2>1. CASE built
    <3>1. rest = Artifact(o) /\ o.fatal = FALSE
      BY <1>7, <1>8, <2>1
    <3> HIDE DEF rest
    <3> QED BY <2>1, <3>1, ArtifactPassed DEF Written, Validated
  <2>2. CASE ~built
    <3>1. rest = r
      BY <2>2
    <3> HIDE DEF rest
    <3> QED BY <1>2, <1>3, <2>2, <3>1 DEF Written, Validated, Recorded
  <2> QED BY <2>1, <2>2
<1>11. DOMAIN l = {"change_ledger"} /\ l.change_ledger = <<record>>
  OBVIOUS
<1> HIDE DEF l, rest, record, t, o, r
<1>12. /\ DOMAIN new = DOMAIN rest \cup {"change_ledger"} /\ new.change_ledger = <<record>>
       /\ \A key \in Validated : new[key] = rest[key]
  BY <1>10, <1>11 DEF With, Validated
<1> HIDE DEF new
<1>13. /\ DOMAIN out = DOMAIN rest \cup {"change_ledger"} /\ out.change_ledger = <<record>>
       /\ out.text = rest.text
  <2>1. DOMAIN new \subseteq Written /\ DOMAIN new = DOMAIN out /\ \A key \in DOMAIN new : out[key] = new[key]
    BY <1>10, <1>12 DEF WriteDocument, Fields, Written, Validated
  <2> QED BY <1>10, <1>12, <2>1 DEF Validated
<1> HIDE DEF out
<1>14. /\ Written \ {"document"} \subseteq DOMAIN out /\ DOMAIN out \subseteq Written
       /\ "document" \in DOMAIN out <=> built
  BY <1>10, <1>13 DEF Written, Validated
<1>16. "document" \in DOMAIN out => ~Ground(granularity, draft).fatal
  BY <1>14 DEF Recorded
<1>17. \A i \in Unsupported(draft) : ~StillPresent(draft[i], out.text)
  <2>1. CASE built
    <3>1. out.text = o.clean /\ ~o.fatal /\ ~Ground(granularity, draft).fatal
      BY <1>7, <1>10, <1>13, <2>1 DEF Recorded
    <3> QED BY <1>6, <3>1, RegatedClean DEF o, Drafted
  <2>2. CASE ~built
    BY <1>10, <1>13, <2>2 DEF Recorded
  <2> QED BY <2>1, <2>2
<1>18. \E first \in Originals, now \in Dispositions :
         out.change_ledger = <<[original |-> first, tailored |-> Ground(granularity, draft).clean, status |-> now]>>
  BY <1>13 DEF record
<1>19. Recorded(out)
  BY <1>14, <1>16, <1>17, <1>18 DEF Recorded
<1> QED BY <1>9, <1>19 DEF out, r

\* A new kit's resume is on record.
LEMMA GeneratedRecorded ==
    ASSUME Drafted, NEW original \in Originals
    PROVE  LET o == Ground(granularity, draft)
           IN  Recorded(WriteDocument(With(Artifact(o), Ledger(original, o.clean))))
<1> DEFINE o == Ground(granularity, draft)
           a == Artifact(o)
           record == [original |-> original, tailored |-> o.clean, status |-> "proposed"]
           l == Ledger(original, o.clean)
           new == With(a, l)
           out == WriteDocument(new)
<1>1. o.fatal \in BOOLEAN
  BY GroundFatal
<1>2. DOMAIN l = {"change_ledger"} /\ l.change_ledger = <<record>>
  BY DEF Ledger
<1>3. \/ o.fatal = TRUE /\ DOMAIN a = Validated /\ a.text = <<>>
      \/ o.fatal = FALSE /\ DOMAIN a = Validated \cup {"document"} /\ a.text = o.clean
  BY <1>1, ArtifactRefused, ArtifactPassed
<1> HIDE DEF a, l, record
<1>4. /\ DOMAIN new = DOMAIN a \cup {"change_ledger"} /\ new.change_ledger = <<record>>
      /\ new.text = a.text
  BY <1>2, <1>3 DEF With, Validated
<1> HIDE DEF new
<1>5. /\ DOMAIN out = DOMAIN new /\ out.change_ledger = <<record>> /\ out.text = a.text
  BY <1>3, <1>4 DEF WriteDocument, Fields, Validated
<1> HIDE DEF out
<1>6. Written \ {"document"} \subseteq DOMAIN out /\ DOMAIN out \subseteq Written
  BY <1>3, <1>4, <1>5 DEF Written, Validated
<1>7. "document" \in DOMAIN out <=> ~o.fatal
  BY <1>3, <1>4, <1>5 DEF Validated
<1>8. \E first \in Originals, now \in Dispositions :
        out.change_ledger = <<[original |-> first, tailored |-> Ground(granularity, draft).clean, status |-> now]>>
  BY <1>5 DEF record, Dispositions
<1>9. \A i \in Unsupported(draft) : ~StillPresent(draft[i], out.text)
  <2>1. CASE o.fatal
    BY <1>3, <1>5, <2>1 DEF StillPresent
  <2>2. CASE ~o.fatal
    BY <1>3, <1>5, <2>2, GateHolds
  <2> QED BY <2>1, <2>2
<1>11. Recorded(out)
  BY <1>6, <1>7, <1>8, <1>9 DEF Recorded
<1> QED BY <1>11 DEF out, new, a, l

\* The scores of a kit a generation makes.
Scores(outcome) ==
    With([score_basis |-> "pramana", trace |-> "run", removals |-> TRUE, original_ats_match |-> "pramana"],
         IF outcome.fatal THEN <<>> ELSE [tailored_ats_match |-> Score("pramana", outcome.clean)])

\* The kit a generation stores.
LEMMA GeneratedRow ==
    ASSUME NEW original, Generate(original)
    PROVE  /\ row'.schema = 7 /\ Primary \subseteq DOMAIN row'
           /\ row'.resume = WriteDocument(With(Artifact(Ground(granularity, draft)),
                                               Ledger(original, Ground(granularity, draft).clean)))
           /\ row'.cover_letter = WriteDocument(With(Good, [change_ledger |-> <<>>]))
           /\ DOMAIN row' = Base \cup Primary \cup {"match_report"}
           /\ row'.match_report = WriteReport(Scores(Ground(granularity, draft)))
<1> DEFINE outcome == Ground(granularity, draft)
           resume == With(Artifact(outcome), Ledger(original, outcome.clean))
           reports == [kind \in Kinds |->
               CASE kind = "resume" -> Report(TRUE, resume.status, "generated")
                 [] kind = "cover_letter" -> "generated"
                 [] OTHER -> "not_requested"]
           letter == With(Good, [change_ledger |-> <<>>])
           kit == [schema |-> 7, requested_mode |-> "both", resolved_mode |-> Primary,
                   target_confidence |-> 1, validation |-> [fatal |-> outcome.fatal],
                   state |-> RollUp(reports), delivery_reports |-> reports,
                   resume |-> resume, cover_letter |-> letter, match_report |-> Scores(outcome)]
<1>1. row' = ToDict(kit)
  BY DEF Generate, Scores
<1> HIDE DEF resume, letter, reports
<1>2. /\ DOMAIN kit = Base \cup Primary \cup {"match_report"}
      /\ kit.schema = 7 /\ kit.resume = resume /\ kit.cover_letter = letter
      /\ kit.match_report = Scores(outcome)
  BY DEF Base, Primary
<1> HIDE DEF kit
<1>3. "resume" \in DOMAIN kit \cap Primary /\ "cover_letter" \in DOMAIN kit \cap Primary /\ "schema" \in DOMAIN kit \ Parts
  BY <1>2 DEF Base, Primary, Parts, Kinds
<1>4. /\ DOMAIN ToDict(kit) = DOMAIN kit /\ ToDict(kit)["match_report"] = WriteReport(Scores(outcome))
  BY <1>2, ToDictParts
<1> HIDE DEF outcome
<1>5. /\ ToDict(kit).resume = WriteDocument(resume) /\ ToDict(kit).cover_letter = WriteDocument(letter)
      /\ ToDict(kit).schema = 7
  BY <1>2, <1>3, ToDictParts
<1> QED BY <1>1, <1>2, <1>4, <1>5 DEF resume, letter, outcome, Primary

LEMMA LetterWritten ==
    LET letter == WriteDocument(With(Good, [change_ledger |-> <<>>]))
    IN  /\ DOMAIN letter = Written /\ letter.change_ledger = <<>>
        /\ letter.fatal = FALSE
BY DEF WriteDocument, With, Good, Fields, Written, Validated

\* A batch on a kit with a draft is on its resume.
LEMMA NextDrafted == Drafted /\ [Next]_vars => Drafted'
<1> SUFFICES ASSUME Drafted, [Next]_vars PROVE Drafted'
  OBVIOUS
<1>1. CASE Write
  <2>1. PICK token \in alphabet : draft' = Append(draft, token)
    BY <1>1 DEF Write
  <2>2. row = NoResult /\ row' = row /\ alphabet' = alphabet
    BY <1>1 DEF Write
  <2>3. ~Stored'
    BY <2>2 DEF Stored, NoResult
  <2>4. draft' \in Seq(alphabet)
    BY <2>1 DEF Drafted
  <2> QED BY <2>2, <2>3, <2>4 DEF Drafted
<1>2. ASSUME NEW original \in Originals, Generate(original) PROVE Drafted'
  <2>1. UNCHANGED <<alphabet, granularity, draft>>
    BY <1>2 DEF Generate
  <2>2. Recorded(row'.resume)
    BY <1>2, GeneratedRow, GeneratedRecorded
  <2>3. Recorded(row.resume)'
    BY <2>1, <2>2 DEF Recorded
  <2>4. row'.schema = 7 /\ Primary \subseteq DOMAIN row' /\ row'.cover_letter.change_ledger = <<>>
        /\ "change_ledger" \in DOMAIN row'.cover_letter
    BY <1>2, GeneratedRow, LetterWritten DEF Written
  <2> QED BY <2>1, <2>3, <2>4 DEF Drafted
<1>3. ASSUME NEW kind \in Primary, NEW status \in Dispositions, NEW typed \in BOOLEAN, Edit(kind, status, typed) PROVE Drafted'
  <2>1. UNCHANGED <<alphabet, granularity, draft>>
    BY <1>3 DEF Edit
  <2>2. CASE draft = <<>>
    BY <2>1, <2>2 DEF Drafted
  <2>3. CASE draft # <<>>
    <3> DEFINE kit == FromDict(row)
               done == Changed(kit, kind, status, typed).kit
    <3>1. Stored
      BY <1>3 DEF Edit, Stored
    <3>2. /\ row.schema = 7 /\ Primary \subseteq DOMAIN row /\ Recorded(row.resume)
          /\ row.cover_letter.change_ledger = <<>> /\ "change_ledger" \in DOMAIN row.cover_letter
      BY <2>3, <3>1 DEF Drafted
    <3>3. Normalized(row) = row
      BY <3>2 DEF Normalized
    <3>4. kit[kind].change_ledger # <<>> /\ ~Changed(kit, kind, status, typed).refused /\ row' = ToDict(done)
      BY <1>3, <3>3 DEF Edit
    <3>5. /\ Primary \subseteq DOMAIN kit /\ kit.schema = 7 /\ "schema" \in DOMAIN kit
          /\ \A key \in Primary : kit[key] = ReadDocument(row[key])
      <4>1. \A key \in Primary : Read(key, row[key]) = ReadDocument(row[key])
        BY DEF Read, Primary, Kinds, Selectable
      <4>2. Primary \subseteq Parts /\ "schema" \in Base
        BY DEF Parts, Kinds, Base
      <4> HIDE DEF kit
      <4> QED BY <3>2, <4>1, <4>2, FromDictParts DEF kit
    <3>6. kind = "resume"
      <4>1. kit["cover_letter"].change_ledger = <<>>
        BY <3>2, <3>5 DEF ReadDocument, With, Primary
      <4> QED BY <3>4, <4>1 DEF Primary
    <3> HIDE DEF kit
    <3>13. ChangedTo(kit, kind, status, typed, done)
      <4>1. "validation" \in DOMAIN kit
        BY FromDictParts DEF kit, Base
      <4> QED BY <3>5, <4>1, ChangedParts
    <3> HIDE DEF done
    <3>7. /\ DOMAIN done = DOMAIN kit
          /\ done.schema = 7 /\ done.cover_letter = kit.cover_letter
          /\ done.resume = Rebuilt(kit.resume, status)
      BY <3>5, <3>6, <3>13 DEF ChangedTo, Primary
    <3>8. /\ row'.schema = 7 /\ Primary \subseteq DOMAIN row'
          /\ row'.resume = WriteDocument(Rebuilt(ReadDocument(row.resume), status))
          /\ row'.cover_letter = WriteDocument(ReadDocument(row.cover_letter))
      <4>1. "schema" \notin Parts
        BY DEF Parts, Kinds, Primary
      <4> QED BY <3>4, <3>5, <3>7, <4>1, ToDictParts DEF Primary
    <3>9. "document" \in DOMAIN row.resume =>
             ~Ground(granularity, Effective([row.resume.change_ledger[1] EXCEPT !.status = status])).fatal
      <4>1. "document" \in DOMAIN kit.resume <=> "document" \in DOMAIN row.resume
        BY <3>5 DEF ReadDocument, With, Primary
      <4>2. kit.resume.change_ledger = row.resume.change_ledger
        BY <3>2, <3>5 DEF ReadDocument, With, Primary, Recorded, Written
      <4> QED BY <3>4, <3>6, <4>1, <4>2 DEF Changed
    <3>10. Recorded(row'.resume)
      BY <3>2, <3>8, <3>9, RebuiltRecorded
    <3>11. Recorded(row.resume)'
      BY <2>1, <3>10 DEF Recorded
    <3>12. row'.cover_letter.change_ledger = <<>> /\ "change_ledger" \in DOMAIN row'.cover_letter
      BY <3>2, <3>8 DEF WriteDocument, ReadDocument, With, Fields
    <3> QED BY <2>1, <3>8, <3>11, <3>12 DEF Drafted
  <2> QED BY <2>2, <2>3
<1>4. CASE UNCHANGED vars
  BY <1>4 DEF Drafted, Recorded, Stored, vars
<1> QED BY <1>1, <1>2, <1>3, <1>4 DEF Next

\* A fabricated value is absent from what a kit says, whatever else the text says
\* and however often its changes are accepted, rejected and restored.
THEOREM FabricationsStayOut == Spec => []FabricationsAbsent
<1>1. Drafted => FabricationsAbsent
  BY DEF Drafted, Recorded, FabricationsAbsent
<1> QED BY <1>1, InitDrafted, NextDrafted, PTL DEF Spec

-----------------------------------------------------------------------------
(* What a row is, whichever version wrote it *)

Basis == {"score_basis", "trace"}
Figures == {"original_ats_match", "tailored_ats_match"}

\* A part of a kit has the fields its writer names, and no other.
Fine(key, part) ==
    IF key = "match_report" THEN DOMAIN part \subseteq Basis \cup Figures
    ELSE /\ Validated \subseteq DOMAIN part /\ part.fatal \in BOOLEAN
         /\ DOMAIN part \subseteq IF key \in Primary THEN Written
                                 ELSE IF key = "answers" THEN Validated \cup {"document"}
                                 ELSE Validated \cup {"document", "withheld"}

\* A row that can be read: its state, if it has one, is the roll-up of its reports,
\* and an artifact it was asked for is not reported delivered unless it is there.
Shaped(json) ==
    /\ DOMAIN json \subseteq Base \cup Parts /\ "schema" \in DOMAIN json
    /\ \A key \in Parts \cap DOMAIN json : Fine(key, json[key])
    /\ "delivery_reports" \in DOMAIN json <=> "state" \in DOMAIN json
    /\ "delivery_reports" \in DOMAIN json =>
            json.delivery_reports \in [Kinds -> DocumentStates] /\ json.state = RollUp(json.delivery_reports)
    /\ json.schema = 7 => "delivery_reports" \in DOMAIN json
    /\ \A kind \in Get(json, "resolved_mode", {}) :
            /\ kind \in Kinds /\ Reports(json)[kind] # "not_requested"
            /\ Reports(json)[kind] \in Delivered => kind \in DOMAIN json /\ json[kind].fatal = FALSE

\* A part has what its reader would fill in.
Complete(key, part) ==
    /\ key \in Primary => "change_ledger" \in DOMAIN part
    /\ key \in Kinds \ Selectable => "withheld" \in DOMAIN part
    /\ key = "match_report" => Basis \subseteq DOMAIN part

\* A row of version 5 or later says all that a batch writes again; what it misses
\* is told it as it is read.
Told(json) ==
    /\ {"requested_mode", "resolved_mode", "validation"} \subseteq DOMAIN json
    /\ \A key \in Parts \cap DOMAIN json :
            key # "match_report" \/ json.schema # 5 => Complete(key, json[key])

\* The score of the tailored resume is that of the one in the kit.
Scored(json) ==
    "match_report" \in DOMAIN json /\ "tailored_ats_match" \in DOMAIN json["match_report"] =>
        "resume" \in DOMAIN json /\ json["match_report"]["tailored_ats_match"].text = json["resume"].text

Kept ==
    Stored => /\ row.schema \in 0..8
              /\ row.schema = 0 => "resolved_mode" \notin DOMAIN row
              /\ row.schema \in 1..7 => Shaped(row) /\ Scored(row)
              /\ row.schema \in 5..7 => Told(row)

\* What a report says of an artifact stored without one.
LEMMA LegacyCases ==
    ASSUME NEW json, NEW kind
    PROVE  /\ LegacyState(json, kind) \in DocumentStates
           /\ kind \in Get(json, "resolved_mode", {}) => LegacyState(json, kind) # "not_requested"
           /\ LegacyState(json, kind) \in Delivered => kind \in DOMAIN json /\ ~json[kind].fatal
<1>1. LegacyState(json, kind) \in {"failed", "not_requested", "generated"}
  BY DEF LegacyState
<1>2. kind \in Get(json, "resolved_mode", {}) => kind \in RequestedKinds(json)
  BY DEF RequestedKinds
<1>3. kind \in Get(json, "resolved_mode", {}) => LegacyState(json, kind) # "not_requested"
  BY <1>2 DEF LegacyState
<1>4. LegacyState(json, kind) = "generated" => kind \in DOMAIN json /\ ~json[kind].fatal
  BY DEF LegacyState
<1> QED BY <1>1, <1>3, <1>4 DEF Delivered, DocumentStates

\* Reports of a row that has none come from its artifacts.
LEMMA ReportsCases ==
    ASSUME NEW json
    PROVE  /\ "delivery_reports" \notin DOMAIN json =>
                Reports(json) = [kind \in Kinds |-> LegacyState(json, kind)]
           /\ "delivery_reports" \in DOMAIN json /\ json.delivery_reports \in [Kinds -> DocumentStates] =>
                Reports(json) = json.delivery_reports
<1>1. ASSUME "delivery_reports" \notin DOMAIN json
      PROVE  \A kind \in Kinds : Get(Get(json, "delivery_reports", <<>>), kind, LegacyState(json, kind)) = LegacyState(json, kind)
  <2>1. Get(json, "delivery_reports", <<>>) = <<>>
    BY <1>1 DEF Get
  <2>2. DOMAIN <<>> = {}
    OBVIOUS
  <2> QED BY <2>1, <2>2 DEF Get
<1>2. ASSUME "delivery_reports" \in DOMAIN json, json.delivery_reports \in [Kinds -> DocumentStates]
      PROVE  Reports(json) = json.delivery_reports
  <2>1. Get(json, "delivery_reports", <<>>) = json.delivery_reports
    BY <1>2 DEF Get
  <2>2. \A kind \in Kinds : Get(json.delivery_reports, kind, LegacyState(json, kind)) = json.delivery_reports[kind]
    BY <1>2 DEF Get
  <2>3. Reports(json) = [kind \in Kinds |-> json.delivery_reports[kind]]
    BY <2>1, <2>2 DEF Reports
  <2> QED BY <1>2, <2>3
<1> QED BY <1>1, <1>2 DEF Reports

LEMMA ReportsTyped ==
    ASSUME NEW json, Shaped(json)
    PROVE  Reports(json) \in [Kinds -> DocumentStates]
<1>1. CASE "delivery_reports" \in DOMAIN json
  BY <1>1, ReportsCases DEF Shaped
<1>2. CASE "delivery_reports" \notin DOMAIN json
  BY <1>2, ReportsCases, LegacyCases
<1> QED BY <1>1, <1>2

\* What the projection touches.
LEMMA ProjectionFields ==
    ASSUME NEW json, Shaped(json)
    PROVE  /\ DOMAIN Projection(json) = DOMAIN json \cup {"delivery_reports", "state"}
           /\ Projection(json).delivery_reports = Reports(json)
           /\ Projection(json).state = RollUp(Reports(json))
           /\ \A key \in DOMAIN json \ {"delivery_reports", "state"} : Projection(json)[key] = json[key]
<1> DEFINE d == [delivery_reports |-> <<>>, state |-> "failed"]
           j == With(json, d)
<1>1. DOMAIN d = {"delivery_reports", "state"} /\ d.delivery_reports = <<>>
  OBVIOUS
<1> HIDE DEF d
<1>2. /\ DOMAIN j = DOMAIN json \cup {"delivery_reports", "state"}
      /\ \A key \in DOMAIN json : j[key] = json[key]
      /\ "delivery_reports" \notin DOMAIN json => j.delivery_reports = <<>>
  BY <1>1 DEF With
<1> HIDE DEF j
<1>3. Reports(j) = Reports(json)
  <2>1. ASSUME NEW kind \in Kinds PROVE LegacyState(j, kind) = LegacyState(json, kind)
    <3>1. kind \in DOMAIN j <=> kind \in DOMAIN json
      BY <1>2 DEF Kinds, Primary
    <3>2. kind \in DOMAIN json => j[kind] = json[kind]
      BY <1>2
    <3>3. RequestedKinds(j) = RequestedKinds(json)
      <4>1. \A x : Get(j, "resolved_mode", x) = Get(json, "resolved_mode", x)
        BY <1>2 DEF Get
      <4>2. \A x : Get(j, "requested_mode", x) = Get(json, "requested_mode", x)
        BY <1>2 DEF Get
      <4> QED BY <4>1, <4>2 DEF RequestedKinds, RequestedByWording
    <3> QED BY <3>1, <3>2, <3>3 DEF LegacyState
  <2>2. Get(j, "delivery_reports", <<>>) = Get(json, "delivery_reports", <<>>)
    BY <1>2 DEF Get
  <2> QED BY <2>1, <2>2 DEF Reports
<1>4. Projection(json) = [j EXCEPT !.delivery_reports = Reports(j), !.state = RollUp(Reports(j))]
  BY DEF Projection, Projected, j, d
<1> QED BY <1>2, <1>3, <1>4

\* Whatever is read shows the reports, their roll-up, and the parts as stored; only
\* a report of version 5 is told how it was scored.
LEMMA NormalizedFields ==
    ASSUME NEW json, Shaped(json), json.schema \in 1..7
    PROVE  /\ DOMAIN Normalized(json) = DOMAIN json \cup {"delivery_reports", "state"}
           /\ Normalized(json).delivery_reports = Reports(json)
           /\ Normalized(json).state = RollUp(Reports(json))
           /\ \A key \in DOMAIN json \ {"delivery_reports", "state", "match_report"} :
                Normalized(json)[key] = json[key]
           /\ "match_report" \in DOMAIN json =>
                Normalized(json)["match_report"] \in {json["match_report"], WithBasis(json["match_report"])}
           /\ "match_report" \in DOMAIN json /\ json.schema # 5 => Normalized(json)["match_report"] = json["match_report"]
<1>1. CASE json.schema = 7
  <2>1. Normalized(json) = json
    BY <1>1 DEF Normalized
  <2>2. "delivery_reports" \in DOMAIN json /\ "state" \in DOMAIN json /\ Reports(json) = json.delivery_reports
        /\ json.state = RollUp(json.delivery_reports)
    BY <1>1, ReportsCases DEF Shaped
  <2>3. DOMAIN json \cup {"delivery_reports", "state"} = DOMAIN json
    BY <2>2
  <2>5. json.delivery_reports = Reports(json) /\ json.state = RollUp(Reports(json))
    BY <2>2
  <2>6. Normalized(json).delivery_reports = Reports(json) /\ Normalized(json).state = RollUp(Reports(json))
    BY <2>1, <2>5
  <2>7. DOMAIN Normalized(json) = DOMAIN json \cup {"delivery_reports", "state"}
    BY <2>1, <2>3
  <2>8. \A key \in DOMAIN json \ {"delivery_reports", "state", "match_report"} : Normalized(json)[key] = json[key]
    BY <2>1
  <2>9. "match_report" \in DOMAIN json => Normalized(json)["match_report"] = json["match_report"]
    BY <2>1
  <2> HIDE DEF Normalized
  <2> QED BY <2>6, <2>7, <2>8, <2>9
<1>2. CASE json.schema \in {1, 2, 3, 4, 6}
  <2>1. Normalized(json) = Projection(json)
    BY <1>2 DEF Normalized
  <2>2. "match_report" \in DOMAIN json => Projection(json)["match_report"] = json["match_report"]
    BY ProjectionFields
  <2>3. \A key \in DOMAIN json \ {"delivery_reports", "state", "match_report"} : Projection(json)[key] = json[key]
    BY ProjectionFields
  <2>4. /\ DOMAIN Projection(json) = DOMAIN json \cup {"delivery_reports", "state"}
        /\ Projection(json).delivery_reports = Reports(json)
        /\ Projection(json).state = RollUp(Reports(json))
    BY ProjectionFields
  <2> QED BY <2>1, <2>2, <2>3, <2>4
<1>3. CASE json.schema = 5 /\ "match_report" \notin DOMAIN json
  <2>1. Normalized(json) = Projection(json)
    BY <1>3 DEF Normalized
  <2>2. \A key \in DOMAIN json \ {"delivery_reports", "state", "match_report"} : Projection(json)[key] = json[key]
    BY ProjectionFields
  <2>3. /\ DOMAIN Projection(json) = DOMAIN json \cup {"delivery_reports", "state"}
        /\ Projection(json).delivery_reports = Reports(json)
        /\ Projection(json).state = RollUp(Reports(json))
    BY ProjectionFields
  <2> QED BY <1>3, <2>1, <2>2, <2>3
<1>4. CASE json.schema = 5 /\ "match_report" \in DOMAIN json
  <2> DEFINE j == [json EXCEPT !.match_report = WithBasis(@)]
  <2>1. Normalized(json) = Projection(j)
    BY <1>4 DEF Normalized
  <2>2. /\ DOMAIN j = DOMAIN json /\ j.match_report = WithBasis(json.match_report)
        /\ \A key \in DOMAIN json \ {"match_report"} : j[key] = json[key]
    BY <1>4
  <2> HIDE DEF j
  <2>3. \A x : /\ Get(j, "resolved_mode", x) = Get(json, "resolved_mode", x)
               /\ Get(j, "requested_mode", x) = Get(json, "requested_mode", x)
               /\ Get(j, "delivery_reports", x) = Get(json, "delivery_reports", x)
    BY <2>2 DEF Get
  <2>4. \A kind \in Kinds : LegacyState(j, kind) = LegacyState(json, kind)
    <3> SUFFICES ASSUME NEW kind \in Kinds PROVE LegacyState(j, kind) = LegacyState(json, kind)
      OBVIOUS
    <3>1. RequestedKinds(j) = RequestedKinds(json)
      BY <2>3 DEF RequestedKinds, RequestedByWording
    <3>2. kind \in DOMAIN json => j[kind] = json[kind]
      BY <2>2 DEF Kinds, Primary
    <3> QED BY <2>2, <3>1, <3>2 DEF LegacyState
  <2>5. Reports(j) = Reports(json)
    BY <2>3, <2>4 DEF Reports
  <2>6. Shaped(j)
    <3>1. DOMAIN WithBasis(json.match_report) \subseteq Basis \cup Figures
      BY <1>4 DEF Shaped, Fine, Parts, WithBasis, With, Basis, Figures
    <3>2. \A key \in Parts \cap DOMAIN j : Fine(key, j[key])
      <4> SUFFICES ASSUME NEW key \in Parts \cap DOMAIN j PROVE Fine(key, j[key])
        OBVIOUS
      <4>1. CASE key = "match_report"
        BY <2>2, <3>1, <4>1 DEF Fine
      <4>2. CASE key # "match_report"
        BY <2>2, <4>2 DEF Shaped
      <4> QED BY <4>1, <4>2
    <3>3. \A kind \in Kinds \cap DOMAIN json : j[kind] = json[kind]
      BY <2>2 DEF Kinds, Primary
    <3>4. \A kind \in Get(j, "resolved_mode", {}) :
            /\ kind \in Kinds /\ Reports(j)[kind] # "not_requested"
            /\ Reports(j)[kind] \in Delivered => kind \in DOMAIN j /\ j[kind].fatal = FALSE
      BY <2>2, <2>3, <2>5, <3>3 DEF Shaped
    <3>5. DOMAIN j \subseteq Base \cup Parts /\ "schema" \in DOMAIN j /\ j.schema = json.schema
      BY <2>2 DEF Shaped
    <3>6. /\ "delivery_reports" \in DOMAIN j <=> "state" \in DOMAIN j
          /\ "delivery_reports" \in DOMAIN j =>
                j.delivery_reports \in [Kinds -> DocumentStates] /\ j.state = RollUp(j.delivery_reports)
      BY <2>2 DEF Shaped
    <3> QED BY <1>4, <3>2, <3>4, <3>5, <3>6 DEF Shaped
  <2> QED BY <1>4, <2>1, <2>2, <2>5, <2>6, ProjectionFields
<1> QED BY <1>1, <1>2, <1>3, <1>4

-----------------------------------------------------------------------------
(* Reading, changing and writing *)

\* A part that is read and written again.
Round(key, part) ==
    CASE key \in Primary -> WriteDocument(ReadDocument(part))
      [] key = "answers" -> WriteAnswers(ReadAnswers(part))
      [] key \in Kinds \ Selectable -> WriteNarrative(ReadNarrative(part))
      [] key = "match_report" -> WriteReport(ReadReport(part))

\* What was there is there unchanged.
Extends(after, before) ==
    \A key \in DOMAIN before : key \in DOMAIN after /\ after[key] = before[key]

\* Filling in what is missing and writing the fields of a part loses none of it, and
\* adds nothing to a part that misses nothing.
LEMMA Filled ==
    ASSUME NEW part, NEW defaults, NEW names, DOMAIN part \subseteq names, DOMAIN defaults \subseteq names
    PROVE  LET out == Fields(With(part, defaults), names)
           IN  Extends(out, part) /\ DOMAIN out = DOMAIN part \cup DOMAIN defaults
<1> DEFINE w == With(part, defaults)
<1>1. DOMAIN w = DOMAIN part \cup DOMAIN defaults /\ \A key \in DOMAIN part : w[key] = part[key]
  BY WithFields
<1> HIDE DEF w
<1>2. /\ DOMAIN Fields(w, names) = names \cap DOMAIN w
      /\ \A key \in names \cap DOMAIN w : Fields(w, names)[key] = w[key]
  BY FieldsKept
<1>3. Extends(Fields(w, names), part) /\ DOMAIN Fields(w, names) = DOMAIN part \cup DOMAIN defaults
  BY <1>1, <1>2 DEF Extends
<1> QED BY <1>3 DEF w

\* No part loses or changes a field on the way through a typed kit, and only one
\* that misses something gets one.
LEMMA RoundTrip ==
    ASSUME NEW key \in Parts, NEW part, Fine(key, part)
    PROVE  /\ Fine(key, Round(key, part)) /\ Complete(key, Round(key, part))
           /\ Extends(Round(key, part), part)
           /\ DOMAIN Round(key, part) \subseteq DOMAIN part \cup {"change_ledger", "withheld"} \cup Basis
           /\ Complete(key, part) => DOMAIN Round(key, part) = DOMAIN part
<1>1. CASE key \in Primary
  <2> DEFINE d == [change_ledger |-> <<>>]
             out == Fields(With(part, d), Written)
  <2>1. Round(key, part) = out
    BY <1>1 DEF Round, WriteDocument, ReadDocument, Written, Primary, Kinds, Selectable
  <2>2. DOMAIN part \subseteq Written /\ Validated \subseteq DOMAIN part /\ part.fatal \in BOOLEAN
    BY <1>1 DEF Fine, Primary
  <2>3. DOMAIN d = {"change_ledger"} /\ "change_ledger" \in Written
    BY DEF Written
  <2> HIDE DEF d
  <2>9. DOMAIN d \subseteq Written /\ DOMAIN part \subseteq Written
    BY <2>2, <2>3
  <2>10. Extends(out, part) /\ DOMAIN out = DOMAIN part \cup DOMAIN d
    BY <2>9, Filled DEF Extends
  <2>4. Extends(out, part) /\ DOMAIN out = DOMAIN part \cup {"change_ledger"}
    BY <2>3, <2>10
  <2> HIDE DEF out
  <2>5. out.fatal = part.fatal
    BY <2>2, <2>4 DEF Extends, Validated
  <2>6. key # "match_report" /\ key \notin Kinds \ Selectable
    BY <1>1 DEF Primary, Selectable
  <2>7. Fine(key, out)
    BY <1>1, <2>2, <2>3, <2>4, <2>5, <2>6 DEF Fine
  <2>8. Complete(key, out) /\ (Complete(key, part) => DOMAIN out = DOMAIN part)
    BY <1>1, <2>4, <2>6 DEF Complete
  <2> QED BY <2>1, <2>4, <2>7, <2>8
<1>2. CASE key = "answers"
  <2> DEFINE names == Validated \cup {"document"}
             out == Fields(part, names)
  <2>1. Round(key, part) = out
    BY <1>2 DEF Round, WriteAnswers, ReadAnswers, Primary, Kinds, Selectable
  <2>2. DOMAIN part \subseteq names /\ Validated \subseteq DOMAIN part /\ part.fatal \in BOOLEAN
    BY <1>2 DEF Fine, Primary
  <2> HIDE DEF names
  <2>3. /\ DOMAIN out = names \cap DOMAIN part
        /\ \A field \in names \cap DOMAIN part : out[field] = part[field]
    BY FieldsKept
  <2> HIDE DEF out
  <2>4. Extends(out, part) /\ DOMAIN out = DOMAIN part
    BY <2>2, <2>3 DEF Extends
  <2>5. out.fatal = part.fatal
    BY <2>2, <2>4 DEF Extends, Validated
  <2>6. key # "match_report" /\ key \notin Kinds \ Selectable /\ key \notin Primary
    BY <1>2 DEF Primary, Selectable
  <2>7. Fine(key, out)
    BY <1>2, <2>2, <2>4, <2>5, <2>6 DEF Fine, names
  <2>8. Complete(key, out)
    BY <2>6 DEF Complete
  <2> QED BY <2>1, <2>4, <2>7, <2>8
<1>3. CASE key \in Kinds \ Selectable
  <2> DEFINE d == [withheld |-> FALSE]
             names == Validated \cup {"document", "withheld"}
             out == Fields(With(part, d), names)
  <2>1. Round(key, part) = out
    BY <1>3 DEF Round, WriteNarrative, ReadNarrative, Primary, Kinds, Selectable
  <2>2. DOMAIN part \subseteq names /\ Validated \subseteq DOMAIN part /\ part.fatal \in BOOLEAN
    BY <1>3 DEF Fine, Primary, Kinds, Selectable
  <2>3. DOMAIN d = {"withheld"} /\ "withheld" \in names
    OBVIOUS
  <2> HIDE DEF d, names
  <2>9. DOMAIN d \subseteq names /\ DOMAIN part \subseteq names
    BY <2>2, <2>3
  <2>10. Extends(out, part) /\ DOMAIN out = DOMAIN part \cup DOMAIN d
    BY <2>9, Filled DEF Extends
  <2>4. Extends(out, part) /\ DOMAIN out = DOMAIN part \cup {"withheld"}
    BY <2>3, <2>10
  <2> HIDE DEF out
  <2>5. out.fatal = part.fatal
    BY <2>2, <2>4 DEF Extends, Validated
  <2>6. key # "match_report" /\ key \notin Primary /\ key # "answers"
    BY <1>3 DEF Primary, Kinds, Selectable
  <2>7. Fine(key, out)
    BY <2>2, <2>3, <2>4, <2>5, <2>6 DEF Fine, names
  <2>8. Complete(key, out) /\ (Complete(key, part) => DOMAIN out = DOMAIN part)
    BY <1>3, <2>4, <2>6 DEF Complete
  <2> QED BY <2>1, <2>4, <2>7, <2>8
<1>4. CASE key = "match_report"
  <2> DEFINE d == [score_basis |-> "ats_v2", trace |-> "fallback"]
             names == Basis \cup Figures
             out == Fields(With(part, d), names)
  <2>1. Round(key, part) = out
    <3>1. Round(key, part) = WriteReport(ReadReport(part))
      BY <1>4 DEF Round, Primary, Kinds, Selectable
    <3>2. names = {"score_basis", "trace", "original_ats_match", "tailored_ats_match"}
      BY DEF Basis, Figures
    <3> QED BY <3>1, <3>2 DEF WriteReport, ReadReport
  <2>2. DOMAIN part \subseteq names
    BY <1>4 DEF Fine
  <2>3. DOMAIN d = Basis /\ Basis \subseteq names
    BY DEF Basis
  <2> HIDE DEF d, names
  <2>4. Extends(out, part) /\ DOMAIN out = DOMAIN part \cup Basis
    BY <2>2, <2>3, Filled
  <2> HIDE DEF out
  <2>6. key \notin Primary /\ key \notin Kinds \ Selectable
    BY <1>4 DEF Primary, Kinds
  <2>7. Fine(key, out)
    BY <1>4, <2>2, <2>3, <2>4 DEF Fine, names
  <2>8. Complete(key, out) /\ (Complete(key, part) => DOMAIN out = DOMAIN part)
    BY <1>4, <2>4, <2>6 DEF Complete
  <2> QED BY <2>1, <2>4, <2>7, <2>8
<1> QED BY <1>1, <1>2, <1>3, <1>4 DEF Parts, Selectable

\* A report that is scored again has its basis as it was, and the score of the text.
LEMMA RescoredReport ==
    ASSUME NEW report, DOMAIN report \subseteq Basis \cup Figures, NEW text, NEW typed \in BOOLEAN
    PROVE  LET new == WriteReport(Rescored(ReadReport(report), text, typed))
           IN  /\ Basis \subseteq DOMAIN new /\ DOMAIN new \subseteq Basis \cup Figures
               /\ \A field \in Basis \cap DOMAIN report : new[field] = report[field]
               /\ new["tailored_ats_match"].text = text
<1> DEFINE d == [score_basis |-> "ats_v2", trace |-> "fallback"]
           r == With(report, d)
           o == IF typed THEN With([original_ats_match |-> "pramana"], r) ELSE r
           t == [tailored_ats_match |-> Score("pramana", text)]
           all == With(t, o)
           new == Fields(all, Basis \cup Figures)
<1>1. DOMAIN d = Basis
  BY DEF Basis
<1>2. DOMAIN t = {"tailored_ats_match"} /\ t["tailored_ats_match"].text = text
  BY DEF Score
<1>3. WriteReport(Rescored(ReadReport(report), text, typed)) = new
  <2>1. Basis \cup Figures = {"score_basis", "trace", "original_ats_match", "tailored_ats_match"}
    BY DEF Basis, Figures
  <2> QED BY <2>1 DEF WriteReport, Rescored, ReadReport
<1> HIDE DEF d, t
<1>4. DOMAIN r = DOMAIN report \cup Basis /\ \A key \in DOMAIN report : r[key] = report[key]
  BY <1>1, WithFields
<1> HIDE DEF r
<1>5. /\ DOMAIN r \subseteq DOMAIN o /\ DOMAIN o \subseteq DOMAIN r \cup {"original_ats_match"}
      /\ \A key \in Basis : o[key] = r[key]
  <2>1. CASE typed
    <3> DEFINE p == [original_ats_match |-> "pramana"]
    <3>1. DOMAIN p = {"original_ats_match"} /\ o = With(p, r)
      BY <2>1
    <3> HIDE DEF p, o
    <3>2. /\ DOMAIN With(p, r) = DOMAIN p \cup DOMAIN r
          /\ \A key \in DOMAIN r \ DOMAIN p : With(p, r)[key] = r[key]
      BY WithFields
    <3> QED BY <1>4, <3>1, <3>2 DEF Basis
  <2>2. CASE ~typed
    <3>1. o = r
      BY <2>2
    <3> HIDE DEF o
    <3> QED BY <3>1
  <2> QED BY <2>1, <2>2
<1> HIDE DEF o
<1>6. /\ DOMAIN all = DOMAIN t \cup DOMAIN o
      /\ \A key \in DOMAIN t : all[key] = t[key]
      /\ \A key \in DOMAIN o \ DOMAIN t : all[key] = o[key]
  BY WithFields
<1> HIDE DEF all
<1>7. /\ DOMAIN new = (Basis \cup Figures) \cap DOMAIN all
      /\ \A key \in (Basis \cup Figures) \cap DOMAIN all : new[key] = all[key]
  BY FieldsKept
<1> HIDE DEF new
<1>8. /\ Basis \subseteq DOMAIN all /\ "tailored_ats_match" \in (Basis \cup Figures) \cap DOMAIN all
      /\ "tailored_ats_match" \notin Basis
  BY <1>2, <1>4, <1>5, <1>6 DEF Basis, Figures
<1>9. \A field \in Basis \cap DOMAIN report : new[field] = report[field]
  BY <1>2, <1>4, <1>5, <1>6, <1>7, <1>8
<1>10. new["tailored_ats_match"].text = text
  BY <1>2, <1>6, <1>7, <1>8
<1> QED BY <1>3, <1>7, <1>8, <1>9, <1>10

\* The artifact a batch rebuilt is whole, and not a rejected one if it was not.
LEMMA RebuiltFine ==
    ASSUME NEW kind \in Primary, NEW part, Fine(kind, part), NEW status,
           "document" \in DOMAIN part =>
                Ground(granularity, Effective([ReadDocument(part).change_ledger[1] EXCEPT !.status = status])).fatal = FALSE
    PROVE  LET new == WriteDocument(Rebuilt(ReadDocument(part), status))
           IN  /\ Fine(kind, new) /\ Complete(kind, new) /\ new.fatal \in {FALSE, part.fatal}
               /\ new.text = IF "document" \in DOMAIN part THEN Again(ReadDocument(part), status) ELSE part.text
<1> DEFINE r == ReadDocument(part)
           record == [r.change_ledger[1] EXCEPT !.status = status]
           o == Ground(granularity, Effective(record))
           l == [change_ledger |-> <<record>>]
           rest == IF "document" \in DOMAIN r THEN Artifact(o) ELSE r
           new == With(l, rest)
           out == WriteDocument(new)
<1>1. Validated \subseteq DOMAIN part /\ DOMAIN part \subseteq Written /\ part.fatal \in BOOLEAN
  BY DEF Fine, Primary
<1>2. DOMAIN [change_ledger |-> <<>>] = {"change_ledger"}
  OBVIOUS
<1>3. DOMAIN r = DOMAIN part \cup {"change_ledger"} /\ \A key \in DOMAIN part : r[key] = part[key]
  BY <1>2, WithFields DEF ReadDocument
<1>4. "document" \in DOMAIN r <=> "document" \in DOMAIN part
  BY <1>3
<1>5. "document" \in DOMAIN part => o.fatal = FALSE
  OBVIOUS
<1>6. Rebuilt(r, status) = new
  BY DEF Rebuilt
<1> HIDE DEF record, o, r
<1>7. /\ Validated \subseteq DOMAIN rest /\ DOMAIN rest \subseteq Written
      /\ rest.fatal \in BOOLEAN /\ rest.fatal \in {FALSE, part.fatal}
      /\ rest.text = IF "document" \in DOMAIN part THEN o.clean ELSE part.text
  <2>1. CASE "document" \in DOMAIN r
    <3>1. rest = Artifact(o) /\ o.fatal = FALSE
      BY <1>4, <1>5, <2>1
    <3>2. DOMAIN Artifact(o) = Validated \cup {"document"} /\ Artifact(o).fatal = FALSE /\ Artifact(o).text = o.clean
      BY <3>1, ArtifactPassed
    <3> HIDE DEF rest
    <3> QED BY <1>4, <2>1, <3>1, <3>2 DEF Written
  <2>2. CASE "document" \notin DOMAIN r
    <3>1. rest = r
      BY <2>2
    <3>2. r.fatal = part.fatal /\ r.text = part.text
      BY <1>1, <1>3 DEF Validated
    <3> HIDE DEF rest
    <3> QED BY <1>1, <1>3, <1>4, <2>2, <3>1, <3>2 DEF Written
  <2> QED BY <2>1, <2>2
<1>8. DOMAIN l = {"change_ledger"}
  OBVIOUS
<1> HIDE DEF rest, l
<1>14. /\ DOMAIN new = DOMAIN l \cup DOMAIN rest
       /\ \A key \in DOMAIN rest \ DOMAIN l : new[key] = rest[key]
  BY WithFields
<1>9. /\ DOMAIN new = {"change_ledger"} \cup DOMAIN rest
      /\ \A key \in Validated : new[key] = rest[key]
  <2> HIDE DEF new
  <2> QED BY <1>7, <1>8, <1>14 DEF Validated
<1> HIDE DEF new
<1>10. out = Fields(new, Written)
  BY DEF WriteDocument, Written
<1> HIDE DEF out
<1>15. /\ DOMAIN Fields(new, Written) = Written \cap DOMAIN new
       /\ \A key \in Written \cap DOMAIN new : Fields(new, Written)[key] = new[key]
  BY FieldsKept
<1>11. /\ DOMAIN out = DOMAIN new
       /\ \A key \in DOMAIN new : out[key] = new[key]
  BY <1>7, <1>9, <1>10, <1>15 DEF Written
<1>12. /\ Validated \subseteq DOMAIN out /\ DOMAIN out \subseteq Written /\ out.fatal = rest.fatal
       /\ out.text = rest.text /\ "change_ledger" \in DOMAIN out
  BY <1>7, <1>9, <1>11 DEF Written, Validated
<1>13. Fine(kind, out) /\ out.fatal \in {FALSE, part.fatal}
  BY <1>7, <1>12 DEF Fine, Primary
<1>16. Complete(kind, out)
  BY <1>12 DEF Complete, Primary, Kinds, Selectable
<1>17. o.clean = Again(r, status)
  BY DEF o, record, Again
<1> QED BY <1>6, <1>7, <1>12, <1>13, <1>16, <1>17 DEF out, r

\* What telling a report how it was scored changes in it.
LEMMA BasisAdded ==
    ASSUME NEW report
    PROVE  /\ DOMAIN WithBasis(report) = DOMAIN report \cup Basis
           /\ \A key \in DOMAIN report : WithBasis(report)[key] = report[key]
<1> DEFINE d == [score_basis |-> "legacy_v1", trace |-> "fallback"]
<1>1. DOMAIN d = Basis
  BY DEF Basis
<1>2. WithBasis(report) = With(report, d)
  BY DEF WithBasis
<1> HIDE DEF d
<1>3. /\ DOMAIN With(report, d) = DOMAIN report \cup DOMAIN d
      /\ \A key \in DOMAIN report : With(report, d)[key] = report[key]
  BY WithFields
<1> QED BY <1>1, <1>2, <1>3

\* A row as it is read is whole, says what it is and carries its reports.
LEMMA NormalizedShaped ==
    ASSUME NEW json, Shaped(json), json.schema \in 1..7
    PROVE  LET shown == Normalized(json)
           IN  /\ Shaped(shown) /\ shown.schema = json.schema
               /\ "delivery_reports" \in DOMAIN shown /\ "state" \in DOMAIN shown
               /\ Reports(shown) = shown.delivery_reports /\ shown.state = RollUp(shown.delivery_reports)
<1> DEFINE shown == Normalized(json)
<1>1. /\ DOMAIN shown = DOMAIN json \cup {"delivery_reports", "state"}
      /\ shown.delivery_reports = Reports(json)
      /\ shown.state = RollUp(Reports(json))
      /\ \A key \in DOMAIN json \ {"delivery_reports", "state", "match_report"} : shown[key] = json[key]
      /\ "match_report" \in DOMAIN json =>
            shown["match_report"] \in {json["match_report"], WithBasis(json["match_report"])}
  BY NormalizedFields
<1> HIDE DEF shown
<1>2. Reports(json) \in [Kinds -> DocumentStates]
  BY ReportsTyped
<1>3. Reports(shown) = Reports(json)
  BY <1>1, <1>2, ReportsCases
<1>4. "schema" \in DOMAIN json /\ shown.schema = json.schema /\ DOMAIN shown \subseteq Base \cup Parts
  BY <1>1 DEF Shaped, Base
<1>5. ASSUME NEW key \in Parts \cap DOMAIN shown PROVE Fine(key, shown[key])
  <2>1. key \notin {"delivery_reports", "state"}
    BY DEF Parts, Kinds, Primary
  <2>2. key \in DOMAIN json /\ Fine(key, json[key])
    BY <1>1, <2>1 DEF Shaped
  <2>3. CASE key = "match_report"
    <3>1. DOMAIN json["match_report"] \subseteq Basis \cup Figures
      BY <2>2, <2>3 DEF Fine
    <3>2. DOMAIN shown["match_report"] \subseteq Basis \cup Figures
      BY <1>1, <2>2, <2>3, <3>1, BasisAdded
    <3> QED BY <2>3, <3>2 DEF Fine
  <2>4. CASE key # "match_report"
    BY <1>1, <2>1, <2>2, <2>4
  <2> QED BY <2>3, <2>4
<1>6. Get(shown, "resolved_mode", {}) = Get(json, "resolved_mode", {})
  BY <1>1 DEF Get
<1>7. ASSUME NEW kind \in Kinds \cap DOMAIN json PROVE shown[kind] = json[kind]
  BY <1>1, <1>7 DEF Kinds, Primary
<1>8. ASSUME NEW kind \in Get(shown, "resolved_mode", {})
      PROVE  /\ kind \in Kinds /\ Reports(shown)[kind] # "not_requested"
             /\ Reports(shown)[kind] \in Delivered => kind \in DOMAIN shown /\ shown[kind].fatal = FALSE
  <2>1. /\ kind \in Kinds /\ Reports(json)[kind] # "not_requested"
        /\ Reports(json)[kind] \in Delivered => kind \in DOMAIN json /\ json[kind].fatal = FALSE
    BY <1>6 DEF Shaped
  <2> QED BY <1>1, <1>3, <1>7, <2>1
<1>9. Shaped(shown)
  BY <1>1, <1>2, <1>4, <1>5, <1>8 DEF Shaped
<1> QED BY <1>1, <1>3, <1>4, <1>9 DEF shown

\* A reader is shown a score of the text they are shown.
LEMMA NormalizedScored ==
    ASSUME NEW json, Shaped(json), json.schema \in 1..7, Scored(json)
    PROVE  Scored(Normalized(json))
<1> DEFINE shown == Normalized(json)
<1>1. /\ DOMAIN shown = DOMAIN json \cup {"delivery_reports", "state"}
      /\ \A key \in DOMAIN json \ {"delivery_reports", "state", "match_report"} : shown[key] = json[key]
      /\ "match_report" \in DOMAIN json =>
            shown["match_report"] \in {json["match_report"], WithBasis(json["match_report"])}
  BY NormalizedFields
<1> HIDE DEF shown
<1> SUFFICES ASSUME "match_report" \in DOMAIN shown, "tailored_ats_match" \in DOMAIN shown["match_report"]
             PROVE  "resume" \in DOMAIN shown
                    /\ shown["match_report"]["tailored_ats_match"].text = shown["resume"].text
  BY DEF Scored, shown
<1>2. "match_report" \in DOMAIN json
  BY <1>1
<1>3. /\ "tailored_ats_match" \in DOMAIN json["match_report"]
      /\ shown["match_report"]["tailored_ats_match"] = json["match_report"]["tailored_ats_match"]
  <2>1. "tailored_ats_match" \notin Basis
    BY DEF Basis
  <2> QED BY <1>1, <1>2, <2>1, BasisAdded
<1>4. "resume" \in DOMAIN json /\ json["match_report"]["tailored_ats_match"].text = json["resume"].text
  BY <1>2, <1>3 DEF Scored
<1> QED BY <1>1, <1>3, <1>4

\* Nothing is missing in what a reader is shown of a row of version 5 or later.
LEMMA NormalizedTold ==
    ASSUME NEW json, Shaped(json), json.schema \in 5..7, Told(json)
    PROVE  LET shown == Normalized(json)
           IN  /\ {"requested_mode", "resolved_mode", "validation"} \subseteq DOMAIN shown
               /\ \A key \in Parts \cap DOMAIN shown : Complete(key, shown[key])
<1> DEFINE shown == Normalized(json)
<1>1. json.schema \in 1..7
  OBVIOUS
<1>2. /\ DOMAIN shown = DOMAIN json \cup {"delivery_reports", "state"}
      /\ \A key \in DOMAIN json \ {"delivery_reports", "state", "match_report"} : shown[key] = json[key]
      /\ "match_report" \in DOMAIN json /\ json.schema # 5 => shown["match_report"] = json["match_report"]
  BY <1>1, NormalizedFields
<1>3. "match_report" \in DOMAIN json /\ json.schema = 5 => shown["match_report"] = WithBasis(json["match_report"])
  <2> SUFFICES ASSUME "match_report" \in DOMAIN json, json.schema = 5
               PROVE  shown["match_report"] = WithBasis(json["match_report"])
    OBVIOUS
  <2> DEFINE j == [json EXCEPT !.match_report = WithBasis(@)]
             d == [delivery_reports |-> <<>>, state |-> "failed"]
             w == With(j, d)
  <2>1. shown = [w EXCEPT !.delivery_reports = Reports(w), !.state = RollUp(Reports(w))]
    BY DEF Normalized, Projection, Projected
  <2>2. "match_report" \in DOMAIN j /\ j["match_report"] = WithBasis(json["match_report"])
    OBVIOUS
  <2> HIDE DEF j, d
  <2>3. "match_report" \in DOMAIN w /\ w["match_report"] = WithBasis(json["match_report"])
    BY <2>2, WithFields
  <2> HIDE DEF w, shown
  <2> QED BY <2>1, <2>3
<1> HIDE DEF shown
<1>4. {"requested_mode", "resolved_mode", "validation"} \subseteq DOMAIN shown
  BY <1>2 DEF Told
<1>5. ASSUME NEW key \in Parts \cap DOMAIN shown PROVE Complete(key, shown[key])
  <2>1. key \notin {"delivery_reports", "state"} /\ key \in DOMAIN json
    BY <1>2 DEF Parts, Kinds, Primary
  <2>2. CASE key # "match_report"
    BY <1>2, <2>1, <2>2 DEF Told
  <2>3. CASE key = "match_report" /\ json.schema # 5
    BY <1>2, <2>1, <2>3 DEF Told
  <2>4. CASE key = "match_report" /\ json.schema = 5
    <3>1. Basis \subseteq DOMAIN shown[key]
      BY <1>3, <2>1, <2>4, BasisAdded
    <3> QED BY <2>4, <3>1 DEF Complete, Primary, Kinds
  <2> QED BY <2>2, <2>3, <2>4
<1> QED BY <1>4, <1>5 DEF shown

\* What a batch writes: the fields of a kit, the parts it leaves alone as they were,
\* and the artifact it names, whole; a resume made again with the score of its text.
Wrote(shown, kind, typed, new) ==
    /\ DOMAIN new = Base \cup (Parts \cap DOMAIN shown)
    /\ new.schema = shown.schema
    /\ new.requested_mode = Get(shown, "requested_mode", "")
    /\ new.resolved_mode = Get(shown, "resolved_mode", {})
    /\ new.target_confidence = Get(shown, "target_confidence", 0)
    /\ new.state = shown.state /\ new.delivery_reports = shown.delivery_reports
    /\ \A key \in (Parts \cap DOMAIN shown) \ {kind, "match_report"} : new[key] = Round(key, shown[key])
    /\ "match_report" \in DOMAIN shown =>
            new["match_report"] =
                IF kind = "resume" /\ "document" \in DOMAIN shown[kind]
                THEN WriteReport(Rescored(ReadReport(shown["match_report"]), new[kind].text, typed))
                ELSE Round("match_report", shown["match_report"])
    /\ Fine(kind, new[kind]) /\ Complete(kind, new[kind])
    /\ new[kind].fatal \in {FALSE, shown[kind].fatal}
    /\ "document" \notin DOMAIN shown[kind] => new[kind].text = shown[kind].text

LEMMA Rewritten ==
    ASSUME NEW shown, Shaped(shown), "delivery_reports" \in DOMAIN shown,
           NEW kind \in Primary \cap DOMAIN shown, NEW status, NEW typed \in BOOLEAN,
           Changed(FromDict(shown), kind, status, typed).refused = FALSE
    PROVE  Wrote(shown, kind, typed, ToDict(Changed(FromDict(shown), kind, status, typed).kit))
<1> DEFINE kit == FromDict(shown)
           done == Changed(kit, kind, status, typed).kit
           new == ToDict(done)
<1>1. "state" \in DOMAIN shown /\ Reports(shown) = shown.delivery_reports
  BY ReportsCases DEF Shaped
<1>2. StateOf(shown) = shown.state
  BY <1>1 DEF StateOf, Get
<1>3. /\ Base \cap Parts = {} /\ Primary \subseteq Parts /\ kind \in Parts
      /\ kind # "match_report" /\ "match_report" \in Parts /\ "validation" \in Base
  BY DEF Base, Parts, Kinds, Primary
<1>4. /\ DOMAIN kit = Base \cup (Parts \cap DOMAIN shown)
      /\ \A key \in Parts \cap DOMAIN shown : kit[key] = Read(key, shown[key])
      /\ kit.schema = shown.schema
      /\ kit.requested_mode = Get(shown, "requested_mode", "")
      /\ kit.resolved_mode = Get(shown, "resolved_mode", {})
      /\ kit.target_confidence = Get(shown, "target_confidence", 0)
      /\ kit.state = shown.state /\ kit.delivery_reports = shown.delivery_reports
  BY <1>1, <1>2, FromDictParts
<1>5. kind \in DOMAIN kit
  BY <1>3, <1>4
<1>6. kit[kind] = ReadDocument(shown[kind])
  <2>1. Read(kind, shown[kind]) = ReadDocument(shown[kind])
    BY DEF Read, Primary, Kinds, Selectable
  <2> QED BY <1>3, <1>4, <2>1
<1>7. Fine(kind, shown[kind])
  BY <1>3 DEF Shaped
<1>8. "document" \in DOMAIN shown[kind] =>
        Ground(granularity, Effective([ReadDocument(shown[kind]).change_ledger[1] EXCEPT !.status = status])).fatal = FALSE
  <2> DEFINE o == Ground(granularity, Effective([kit[kind].change_ledger[1] EXCEPT !.status = status]))
  <2>1. ~("document" \in DOMAIN kit[kind] /\ o.fatal)
    BY DEF Changed
  <2>2. o.fatal \in BOOLEAN
    BY GroundFatal
  <2>3. "document" \in DOMAIN shown[kind] => "document" \in DOMAIN kit[kind]
    BY <1>6 DEF ReadDocument, With
  <2>4. "document" \in DOMAIN shown[kind] => o.fatal = FALSE
    BY <2>1, <2>2, <2>3
  <2> QED BY <1>6, <2>4
<1> HIDE DEF kit
<1>20. ChangedTo(kit, kind, status, typed, done)
  <2>1. "validation" \in DOMAIN kit
    BY <1>3, <1>4
  <2> QED BY <1>5, <2>1, ChangedParts
<1> HIDE DEF done
<1>9. /\ DOMAIN done = DOMAIN kit
      /\ \A key \in DOMAIN kit \ {kind, "validation", "match_report"} : done[key] = kit[key]
      /\ done[kind] = Rebuilt(kit[kind], status)
      /\ "match_report" \in DOMAIN kit =>
            done["match_report"] =
                IF kind = "resume" /\ "document" \in DOMAIN kit[kind]
                THEN Rescored(kit["match_report"], Again(kit[kind], status), typed) ELSE kit["match_report"]
  BY <1>20 DEF ChangedTo
<1>10. /\ DOMAIN new = DOMAIN done
       /\ \A key \in DOMAIN done \cap Primary : new[key] = WriteDocument(done[key])
       /\ "answers" \in DOMAIN done => new["answers"] = WriteAnswers(done["answers"])
       /\ \A key \in DOMAIN done \cap (Kinds \ Selectable) : new[key] = WriteNarrative(done[key])
       /\ "match_report" \in DOMAIN done => new["match_report"] = WriteReport(done["match_report"])
       /\ \A key \in DOMAIN done \ Parts : new[key] = done[key]
  BY ToDictParts
<1> HIDE DEF new
<1>11. \A key \in Base \ {"validation"} : key \in DOMAIN kit \ {kind} /\ new[key] = kit[key]
  BY <1>3, <1>4, <1>9, <1>10
<1>12. /\ new.schema = shown.schema
       /\ new.requested_mode = Get(shown, "requested_mode", "")
       /\ new.resolved_mode = Get(shown, "resolved_mode", {})
       /\ new.target_confidence = Get(shown, "target_confidence", 0)
       /\ new.state = shown.state /\ new.delivery_reports = shown.delivery_reports
  BY <1>4, <1>11 DEF Base
<1>13. ASSUME NEW key \in (Parts \cap DOMAIN shown) \ {kind, "match_report"}
       PROVE  new[key] = Round(key, shown[key])
  <2>1. key \in DOMAIN done /\ done[key] = Read(key, shown[key])
    BY <1>3, <1>4, <1>9
  <2>2. CASE key \in Primary
    <3>1. Read(key, shown[key]) = ReadDocument(shown[key])
      BY <2>2 DEF Read, Primary, Kinds, Selectable
    <3>2. Round(key, shown[key]) = WriteDocument(ReadDocument(shown[key]))
      BY <2>2 DEF Round, Primary, Kinds, Selectable
    <3> QED BY <1>10, <2>1, <2>2, <3>1, <3>2
  <2>3. CASE key = "answers"
    <3>1. Read(key, shown[key]) = ReadAnswers(shown[key])
      BY <2>3 DEF Read, Primary, Kinds, Selectable
    <3>2. Round(key, shown[key]) = WriteAnswers(ReadAnswers(shown[key]))
      BY <2>3 DEF Round, Primary, Kinds, Selectable
    <3> QED BY <1>10, <2>1, <2>3, <3>1, <3>2
  <2>4. CASE key \in Kinds \ Selectable
    <3>1. Read(key, shown[key]) = ReadNarrative(shown[key])
      BY <2>4 DEF Read, Primary, Kinds, Selectable
    <3>2. Round(key, shown[key]) = WriteNarrative(ReadNarrative(shown[key]))
      BY <2>4 DEF Round, Primary, Kinds, Selectable
    <3> QED BY <1>10, <2>1, <2>4, <3>1, <3>2
  <2> QED BY <2>2, <2>3, <2>4 DEF Parts, Selectable
<1>14. new[kind] = WriteDocument(Rebuilt(ReadDocument(shown[kind]), status))
  BY <1>5, <1>6, <1>9, <1>10
<1>15. /\ Fine(kind, new[kind]) /\ Complete(kind, new[kind]) /\ new[kind].fatal \in {FALSE, shown[kind].fatal}
       /\ new[kind].text = IF "document" \in DOMAIN shown[kind] THEN Again(ReadDocument(shown[kind]), status)
                          ELSE shown[kind].text
  <2> DEFINE made == WriteDocument(Rebuilt(ReadDocument(shown[kind]), status))
  <2>1. Fine(kind, made)
    BY <1>7, <1>8, RebuiltFine
  <2>2. Complete(kind, made)
    BY <1>7, <1>8, RebuiltFine
  <2>3. made.fatal \in {FALSE, shown[kind].fatal}
    BY <1>7, <1>8, RebuiltFine
  <2>4. made.text = IF "document" \in DOMAIN shown[kind] THEN Again(ReadDocument(shown[kind]), status)
                    ELSE shown[kind].text
    BY <1>7, <1>8, RebuiltFine
  <2>5. new[kind] = made
    BY <1>14
  <2> HIDE DEF made
  <2> QED BY <2>1, <2>2, <2>3, <2>4, <2>5
<1>16. DOMAIN new = Base \cup (Parts \cap DOMAIN shown)
  BY <1>4, <1>9, <1>10
<1>17. ASSUME "match_report" \in DOMAIN shown
       PROVE  new["match_report"] =
                IF kind = "resume" /\ "document" \in DOMAIN shown[kind]
                THEN WriteReport(Rescored(ReadReport(shown["match_report"]), new[kind].text, typed))
                ELSE Round("match_report", shown["match_report"])
  <2>1. "match_report" \in DOMAIN done /\ kit["match_report"] = ReadReport(shown["match_report"])
    <3>1. Read("match_report", shown["match_report"]) = ReadReport(shown["match_report"])
      BY DEF Read, Primary, Kinds, Selectable
    <3> QED BY <1>3, <1>4, <1>9, <1>17, <3>1
  <2>2. Round("match_report", shown["match_report"]) = WriteReport(ReadReport(shown["match_report"]))
    BY DEF Round, Primary, Kinds, Selectable
  <2>3. "document" \in DOMAIN kit[kind] <=> "document" \in DOMAIN shown[kind]
    BY <1>6 DEF ReadDocument, With
  <2>4. new["match_report"] = WriteReport(done["match_report"])
    BY <1>10, <2>1
  <2>5. "match_report" \in DOMAIN kit
    BY <1>9, <2>1
  <2>6. CASE kind = "resume" /\ "document" \in DOMAIN shown[kind]
    <3>1. done["match_report"] = Rescored(ReadReport(shown["match_report"]), Again(kit[kind], status), typed)
      BY <1>9, <2>1, <2>3, <2>5, <2>6
    <3>2. new[kind].text = Again(kit[kind], status)
      BY <1>6, <1>15, <2>6
    <3> QED BY <2>4, <2>6, <3>1, <3>2
  <2>7. CASE ~(kind = "resume" /\ "document" \in DOMAIN shown[kind])
    <3>1. done["match_report"] = kit["match_report"]
      BY <1>9, <2>3, <2>5, <2>7
    <3> QED BY <2>1, <2>2, <2>4, <2>7, <3>1
  <2> QED BY <2>6, <2>7
<1>18. "document" \notin DOMAIN shown[kind] => new[kind].text = shown[kind].text
  BY <1>15
<1>19. "match_report" \in DOMAIN shown =>
           new["match_report"] =
                IF kind = "resume" /\ "document" \in DOMAIN shown[kind]
                THEN WriteReport(Rescored(ReadReport(shown["match_report"]), new[kind].text, typed))
                ELSE Round("match_report", shown["match_report"])
  BY <1>17
<1>21. Wrote(shown, kind, typed, new)
  BY <1>12, <1>13, <1>15, <1>16, <1>18, <1>19 DEF Wrote
<1> QED BY <1>21 DEF new, done, kit

\* The scores after a batch: its basis as it was, and the figures too unless the
\* resume was made again; the tailored score is that of the resume it writes.
RightlyScored(shown, kind, new) ==
    LET before == shown["match_report"]
        after == new["match_report"]
        again == kind = "resume" /\ "document" \in DOMAIN shown[kind]
    IN  /\ Fine("match_report", after) /\ Complete("match_report", after)
        /\ \A field \in Basis \cap DOMAIN before : after[field] = before[field]
        /\ ~again => Extends(after, before)
        /\ ~again /\ Complete("match_report", before) => DOMAIN after = DOMAIN before
        /\ Scored(shown) => Scored(new)

LEMMA ReportRewritten ==
    ASSUME NEW shown, Shaped(shown), "delivery_reports" \in DOMAIN shown,
           NEW kind \in Primary \cap DOMAIN shown, NEW status, NEW typed \in BOOLEAN,
           Changed(FromDict(shown), kind, status, typed).refused = FALSE,
           "match_report" \in DOMAIN shown
    PROVE  RightlyScored(shown, kind, ToDict(Changed(FromDict(shown), kind, status, typed).kit))
<1> DEFINE new == ToDict(Changed(FromDict(shown), kind, status, typed).kit)
           before == shown["match_report"]
           after == new["match_report"]
           again == kind = "resume" /\ "document" \in DOMAIN shown[kind]
<1>0. Wrote(shown, kind, typed, new)
  BY Rewritten
<1> HIDE DEF new
<1>1. /\ DOMAIN new = Base \cup (Parts \cap DOMAIN shown)
      /\ \A key \in (Parts \cap DOMAIN shown) \ {kind, "match_report"} : new[key] = Round(key, shown[key])
      /\ "document" \notin DOMAIN shown[kind] => new[kind].text = shown[kind].text
  BY <1>0 DEF Wrote
<1>2. after = IF again THEN WriteReport(Rescored(ReadReport(before), new[kind].text, typed))
              ELSE Round("match_report", before)
  BY <1>0 DEF Wrote
<1>3. /\ "match_report" \in Parts /\ "resume" \in Parts /\ "match_report" # "resume" /\ Base \cap Parts = {}
      /\ "match_report" \notin Primary /\ "match_report" \notin Kinds \ Selectable /\ kind \in Parts
  BY DEF Parts, Kinds, Primary, Base
<1>4. Fine("match_report", before)
  BY <1>3 DEF Shaped
<1>5. DOMAIN before \subseteq Basis \cup Figures
  BY <1>4 DEF Fine
<1> HIDE DEF before, after
<1>6. ASSUME again PROVE RightlyScored(shown, kind, new)
  <2>1. after = WriteReport(Rescored(ReadReport(before), new[kind].text, typed))
    BY <1>2, <1>6
  <2>2. /\ Basis \subseteq DOMAIN after /\ DOMAIN after \subseteq Basis \cup Figures
        /\ \A field \in Basis \cap DOMAIN before : after[field] = before[field]
        /\ after["tailored_ats_match"].text = new[kind].text
    BY <1>5, <2>1, RescoredReport
  <2>3. Fine("match_report", after) /\ Complete("match_report", after)
    BY <1>3, <2>2 DEF Fine, Complete
  <2>4. Scored(new)
    <3>1. kind = "resume" /\ kind \in DOMAIN new
      BY <1>1, <1>3, <1>6
    <3> QED BY <2>2, <3>1 DEF Scored, after
  <2> QED BY <1>6, <2>2, <2>3, <2>4 DEF RightlyScored, after, before
<1>7. ASSUME ~again PROVE RightlyScored(shown, kind, new)
  <2>1. after = Round("match_report", before)
    BY <1>2, <1>7
  <2>2. /\ Fine("match_report", after) /\ Complete("match_report", after) /\ Extends(after, before)
        /\ Complete("match_report", before) => DOMAIN after = DOMAIN before
    BY <1>3, <1>4, <2>1, RoundTrip
  <2>3. \A field \in Basis \cap DOMAIN before : after[field] = before[field]
    BY <2>2 DEF Extends
  <2>4. ASSUME Scored(shown), "tailored_ats_match" \in DOMAIN after
        PROVE  "resume" \in DOMAIN new /\ after["tailored_ats_match"].text = new["resume"].text
    <3>1. /\ "tailored_ats_match" \in DOMAIN before
          /\ after["tailored_ats_match"] = before["tailored_ats_match"]
      <4>1. DOMAIN after \subseteq DOMAIN before \cup {"change_ledger", "withheld"} \cup Basis
        BY <1>3, <1>4, <2>1, RoundTrip
      <4> QED BY <2>2, <2>4, <4>1 DEF Extends, Basis
    <3>2. "resume" \in DOMAIN shown /\ before["tailored_ats_match"].text = shown["resume"].text
      BY <2>4, <3>1 DEF Scored, before
    <3>3. "resume" \in DOMAIN new
      BY <1>1, <1>3, <3>2
    <3>4. new["resume"].text = shown["resume"].text
      <4>1. CASE kind = "resume"
        BY <1>1, <1>7, <4>1
      <4>2. CASE kind # "resume"
        <5>1. new["resume"] = Round("resume", shown["resume"])
          BY <1>1, <1>3, <3>2, <4>2
        <5>2. Fine("resume", shown["resume"])
          BY <1>3, <3>2 DEF Shaped
        <5>3. "text" \in DOMAIN shown["resume"]
          BY <1>3, <5>2 DEF Fine, Validated
        <5>4. Extends(Round("resume", shown["resume"]), shown["resume"])
          BY <1>3, <5>2, RoundTrip
        <5> QED BY <5>1, <5>3, <5>4 DEF Extends
      <4> QED BY <4>1, <4>2
    <3> QED BY <3>1, <3>2, <3>3, <3>4
  <2>5. Scored(shown) => Scored(new)
    BY <2>4 DEF Scored, after
  <2> QED BY <1>7, <2>2, <2>3, <2>5 DEF RightlyScored, after, before
<1>8. RightlyScored(shown, kind, new)
  BY <1>6, <1>7
<1> QED BY <1>8 DEF new

\* What a batch writes can be read again, and says the same of what was asked for.
LEMMA RewrittenShaped ==
    ASSUME NEW shown, Shaped(shown), "delivery_reports" \in DOMAIN shown,
           NEW kind \in Primary \cap DOMAIN shown, NEW status, NEW typed \in BOOLEAN,
           Changed(FromDict(shown), kind, status, typed).refused = FALSE
    PROVE  Shaped(ToDict(Changed(FromDict(shown), kind, status, typed).kit))
<1> DEFINE new == ToDict(Changed(FromDict(shown), kind, status, typed).kit)
<1>0. Wrote(shown, kind, typed, new)
  BY Rewritten
<1>9. "match_report" \in DOMAIN shown => RightlyScored(shown, kind, new)
  BY ReportRewritten
<1> HIDE DEF new
<1>1. /\ DOMAIN new = Base \cup (Parts \cap DOMAIN shown)
      /\ new.resolved_mode = Get(shown, "resolved_mode", {})
      /\ new.state = shown.state /\ new.delivery_reports = shown.delivery_reports
      /\ \A key \in (Parts \cap DOMAIN shown) \ {kind, "match_report"} : new[key] = Round(key, shown[key])
      /\ Fine(kind, new[kind])
      /\ new[kind].fatal \in {FALSE, shown[kind].fatal}
  BY <1>0 DEF Wrote
<1>10. "match_report" \in DOMAIN shown => Fine("match_report", new["match_report"])
  BY <1>9 DEF RightlyScored
<1>2. /\ "state" \in DOMAIN shown /\ Reports(shown) = shown.delivery_reports
      /\ shown.delivery_reports \in [Kinds -> DocumentStates]
      /\ shown.state = RollUp(shown.delivery_reports)
  BY ReportsCases DEF Shaped
<1>3. Base \cap Parts = {} /\ "schema" \in Base /\ "state" \in Base /\ "delivery_reports" \in Base
      /\ "resolved_mode" \in Base
  BY DEF Base, Parts, Kinds, Primary
<1>4. Reports(new) = shown.delivery_reports
  BY <1>1, <1>2, <1>3, ReportsCases
<1>5. ASSUME NEW key \in Parts \cap DOMAIN new PROVE Fine(key, new[key])
  <2>1. key \in DOMAIN shown /\ Fine(key, shown[key])
    BY <1>1, <1>3 DEF Shaped
  <2>2. CASE key = kind
    BY <1>1, <2>2
  <2>3. CASE key # kind /\ key # "match_report"
    BY <1>1, <2>1, <2>3, RoundTrip
  <2>4. CASE key = "match_report"
    BY <1>10, <2>1, <2>4
  <2> QED BY <2>2, <2>3, <2>4
<1>6. Get(new, "resolved_mode", {}) = Get(shown, "resolved_mode", {})
  BY <1>1, <1>3 DEF Get
<1>7. ASSUME NEW one \in Get(shown, "resolved_mode", {})
      PROVE  /\ one \in Kinds /\ Reports(new)[one] # "not_requested"
             /\ Reports(new)[one] \in Delivered => one \in DOMAIN new /\ new[one].fatal = FALSE
  <2>1. /\ one \in Kinds /\ shown.delivery_reports[one] # "not_requested"
        /\ shown.delivery_reports[one] \in Delivered => one \in DOMAIN shown /\ shown[one].fatal = FALSE
    BY <1>2, <1>7 DEF Shaped
  <2>2. one \in Parts /\ one # "match_report"
    BY <2>1 DEF Parts, Kinds, Primary
  <2>3. ASSUME one \in DOMAIN shown, shown[one].fatal = FALSE
        PROVE  one \in DOMAIN new /\ new[one].fatal = FALSE
    <3>1. CASE one = kind
      BY <1>1, <2>2, <2>3, <3>1
    <3>2. CASE one # kind
      <4>1. Fine(one, shown[one])
        BY <2>2, <2>3 DEF Shaped
      <4>2. "fatal" \in DOMAIN shown[one]
        BY <2>2, <4>1 DEF Fine, Validated
      <4>3. new[one] = Round(one, shown[one]) /\ one \in DOMAIN new
        BY <1>1, <2>2, <2>3, <3>2
      <4>4. \A field \in DOMAIN shown[one] : Round(one, shown[one])[field] = shown[one][field]
        BY <2>2, <4>1, RoundTrip DEF Extends
      <4> QED BY <2>3, <4>2, <4>3, <4>4
    <3> QED BY <3>1, <3>2
  <2> QED BY <1>4, <2>1, <2>3
<1>8. Shaped(new)
  BY <1>1, <1>2, <1>3, <1>4, <1>5, <1>6, <1>7 DEF Shaped
<1> QED BY <1>8 DEF new

\* It says all there is to say, and scores the resume that is in it.
LEMMA RewrittenTold ==
    ASSUME NEW shown, Shaped(shown), "delivery_reports" \in DOMAIN shown, Scored(shown),
           NEW kind \in Primary \cap DOMAIN shown, NEW status, NEW typed \in BOOLEAN,
           Changed(FromDict(shown), kind, status, typed).refused = FALSE
    PROVE  LET new == ToDict(Changed(FromDict(shown), kind, status, typed).kit)
           IN  Told(new) /\ Scored(new)
<1> DEFINE new == ToDict(Changed(FromDict(shown), kind, status, typed).kit)
<1>0. Wrote(shown, kind, typed, new)
  BY Rewritten
<1>7. "match_report" \in DOMAIN shown => RightlyScored(shown, kind, new)
  BY ReportRewritten
<1> HIDE DEF new
<1>1. /\ DOMAIN new = Base \cup (Parts \cap DOMAIN shown)
      /\ \A key \in (Parts \cap DOMAIN shown) \ {kind, "match_report"} : new[key] = Round(key, shown[key])
      /\ Complete(kind, new[kind])
  BY <1>0 DEF Wrote
<1>2. "match_report" \in DOMAIN shown => Complete("match_report", new["match_report"]) /\ Scored(new)
  BY <1>7 DEF RightlyScored
<1>3. Base \cap Parts = {}
  BY DEF Base, Parts, Kinds, Primary
<1>4. Scored(new)
  <2>1. "match_report" \in DOMAIN new => "match_report" \in DOMAIN shown
    BY <1>1, <1>3 DEF Parts
  <2> QED BY <1>2, <2>1 DEF Scored
<1>5. ASSUME NEW key \in Parts \cap DOMAIN new PROVE Complete(key, new[key])
  <2>1. key \in DOMAIN shown /\ Fine(key, shown[key])
    BY <1>1, <1>3 DEF Shaped
  <2>2. CASE key = kind
    BY <1>1, <2>2
  <2>3. CASE key = "match_report"
    BY <1>2, <2>1, <2>3
  <2>4. CASE key \notin {kind, "match_report"}
    BY <1>1, <2>1, <2>4, RoundTrip
  <2> QED BY <2>2, <2>3, <2>4
<1>6. Told(new)
  BY <1>1, <1>5 DEF Told, Base
<1> QED BY <1>4, <1>6 DEF new

-----------------------------------------------------------------------------
(* Rows of earlier versions *)

LEMMA StoredArtifact ==
    ASSUME NEW artifact \in {Good, Bad}
    PROVE  /\ Validated \subseteq DOMAIN artifact /\ DOMAIN artifact \subseteq Validated \cup {"document"}
           /\ artifact.fatal \in BOOLEAN
<1>1. DOMAIN Good = Validated \cup {"document"} /\ Good.fatal = FALSE
  BY DEF Good, Validated
<1>2. DOMAIN Bad = Validated /\ Bad.fatal = TRUE
  BY DEF Bad, Validated
<1>3. CASE artifact = Good
  BY <1>1, <1>3
<1>4. CASE artifact = Bad
  BY <1>2, <1>4
<1> QED BY <1>3, <1>4

\* The artifacts a version could have stored.
LEMMA ArtifactsFine ==
    ASSUME NEW artifact \in {Good, Bad}
    PROVE  /\ Fine("answers", artifact)
           /\ \A kind \in Primary, ledger \in {<<>>, Ledger(Plain, Plain)} :
                Fine(kind, With(artifact, ledger))
<1>1. /\ Validated \subseteq DOMAIN artifact /\ DOMAIN artifact \subseteq Validated \cup {"document"}
      /\ artifact.fatal \in BOOLEAN
  BY StoredArtifact
<1>2. Fine("answers", artifact)
  BY <1>1 DEF Fine, Primary
<1>3. ASSUME NEW kind \in Primary, NEW ledger \in {<<>>, Ledger(Plain, Plain)}
      PROVE  Fine(kind, With(artifact, ledger))
  <2>1. DOMAIN ledger \subseteq {"change_ledger"}
    BY DEF Ledger
  <2>2. /\ DOMAIN With(artifact, ledger) = DOMAIN artifact \cup DOMAIN ledger
        /\ \A key \in DOMAIN artifact : With(artifact, ledger)[key] = artifact[key]
    BY WithFields
  <2>3. With(artifact, ledger).fatal \in BOOLEAN
    BY <1>1, <2>2 DEF Validated
  <2>4. Validated \subseteq DOMAIN With(artifact, ledger) /\ DOMAIN With(artifact, ledger) \subseteq Written
    BY <1>1, <2>1, <2>2 DEF Written
  <2> QED BY <2>3, <2>4 DEF Fine, Primary
<1> QED BY <1>2, <1>3

\* One artifact, or none.
LEMMA KeptAlone ==
    ASSUME NEW kind, NEW made, NEW one \in {<<>>} \cup {[key \in {kind} |-> artifact] : artifact \in made}
    PROVE  /\ DOMAIN one \subseteq {kind}
           /\ \A key \in DOMAIN one : one[key] \in made
<1>1. DOMAIN <<>> = {}
  OBVIOUS
<1> QED BY <1>1

\* The artifacts of a request.
LEMMA DocumentsFine ==
    ASSUME NEW selected, NEW version, NEW documents \in Documents(selected, version)
    PROVE  /\ DOMAIN documents \subseteq Selectable
           /\ \A key \in DOMAIN documents :
                Fine(key, documents[key]) /\ (version \in 5..7 => Complete(key, documents[key]))
<1> DEFINE Right(key, part) == Fine(key, part) /\ (version \in 5..7 => Complete(key, part))
           made(kind) == IF kind = "answers" THEN {Good, Bad}
                         ELSE {With(artifact, IF version < 5 THEN <<>> ELSE Ledger(Plain, Plain)) : artifact \in {Good, Bad}}
           kept(kind) == {<<>>} \cup {[key \in {kind} |-> artifact] : artifact \in made(kind)}
<1>1. PICK resume \in IF "resume" \in selected THEN kept("resume") ELSE {<<>>},
           letter \in IF "cover_letter" \in selected THEN kept("cover_letter") ELSE {<<>>},
           answers \in IF "answers" \in selected THEN kept("answers") ELSE {<<>>} :
        documents = With(With(resume, letter), answers)
  BY DEF Documents
<1>2. ASSUME NEW kind \in Primary, NEW artifact \in made(kind) PROVE Right(kind, artifact)
  <2>1. kind # "answers" /\ kind # "match_report" /\ kind \notin Kinds \ Selectable
    BY DEF Primary, Selectable
  <2>2. PICK one \in {Good, Bad} : artifact = With(one, IF version < 5 THEN <<>> ELSE Ledger(Plain, Plain))
    BY <2>1
  <2>3. Fine(kind, artifact)
    BY <2>2, ArtifactsFine
  <2>4. ASSUME version \in 5..7 PROVE "change_ledger" \in DOMAIN artifact
    <3>1. artifact = With(one, Ledger(Plain, Plain))
      BY <2>2, <2>4
    <3>2. "change_ledger" \in DOMAIN Ledger(Plain, Plain)
      BY DEF Ledger
    <3>3. DOMAIN With(one, Ledger(Plain, Plain)) = DOMAIN one \cup DOMAIN Ledger(Plain, Plain)
      BY WithFields
    <3> QED BY <3>1, <3>2, <3>3
  <2> QED BY <2>1, <2>3, <2>4 DEF Complete
<1>3. ASSUME NEW artifact \in made("answers") PROVE Right("answers", artifact)
  <2>1. Fine("answers", artifact)
    BY ArtifactsFine
  <2> QED BY <2>1 DEF Complete, Primary, Kinds, Selectable
<1>4. ASSUME NEW kind PROVE <<>> \in kept(kind)
  OBVIOUS
<1> HIDE DEF made
<1>5. /\ DOMAIN resume \subseteq {"resume"} /\ \A key \in DOMAIN resume : resume[key] \in made("resume")
  <2>1. resume \in kept("resume")
    BY <1>4
  <2> QED BY <2>1, KeptAlone
<1>6. /\ DOMAIN letter \subseteq {"cover_letter"} /\ \A key \in DOMAIN letter : letter[key] \in made("cover_letter")
  <2>1. letter \in kept("cover_letter")
    BY <1>4
  <2> QED BY <2>1, KeptAlone
<1>7. /\ DOMAIN answers \subseteq {"answers"} /\ \A key \in DOMAIN answers : answers[key] \in made("answers")
  <2>1. answers \in kept("answers")
    BY <1>4
  <2> QED BY <2>1, KeptAlone
<1> HIDE DEF kept
<1> DEFINE both == With(resume, letter)
<1>8. /\ DOMAIN both = DOMAIN resume \cup DOMAIN letter
      /\ \A key \in DOMAIN resume : both[key] = resume[key]
      /\ \A key \in DOMAIN letter \ DOMAIN resume : both[key] = letter[key]
  BY WithFields
<1> HIDE DEF both
<1> HIDE DEF Right
<1>9. \A key \in DOMAIN both : key \in Primary /\ Right(key, both[key])
  BY <1>2, <1>5, <1>6, <1>8 DEF Primary
<1>10. /\ DOMAIN With(both, answers) = DOMAIN both \cup DOMAIN answers
       /\ \A key \in DOMAIN both : With(both, answers)[key] = both[key]
       /\ \A key \in DOMAIN answers \ DOMAIN both : With(both, answers)[key] = answers[key]
  BY WithFields
<1>11. \A key \in DOMAIN With(both, answers) : key \in Selectable /\ Right(key, With(both, answers)[key])
  BY <1>3, <1>7, <1>9, <1>10 DEF Selectable
<1> QED BY <1>1, <1>11 DEF both, Right

LEMMA NarrativesFine ==
    ASSUME NEW version, NEW narratives \in Narratives(version)
    PROVE  /\ DOMAIN narratives \subseteq {"job_fit"}
           /\ \A key \in DOMAIN narratives : Fine(key, narratives[key]) /\ Complete(key, narratives[key])
<1>1. ASSUME NEW artifact \in {Good, Bad}, NEW withheld \in BOOLEAN
      PROVE  /\ Fine("job_fit", With(artifact, [withheld |-> withheld]))
             /\ Complete("job_fit", With(artifact, [withheld |-> withheld]))
  <2> DEFINE d == [withheld |-> withheld]
             w == With(artifact, d)
  <2>1. /\ Validated \subseteq DOMAIN artifact /\ DOMAIN artifact \subseteq Validated \cup {"document"}
        /\ artifact.fatal \in BOOLEAN
    BY StoredArtifact
  <2>2. DOMAIN d = {"withheld"}
    OBVIOUS
  <2>3. DOMAIN w = DOMAIN artifact \cup DOMAIN d /\ \A key \in DOMAIN artifact : w[key] = artifact[key]
    BY WithFields
  <2> HIDE DEF d, w
  <2>4. Validated \subseteq DOMAIN w /\ w.fatal \in BOOLEAN /\ DOMAIN w \subseteq Validated \cup {"document", "withheld"}
    BY <2>1, <2>2, <2>3 DEF Validated
  <2>5. Fine("job_fit", w)
    BY <2>4 DEF Fine, Primary
  <2>6. Complete("job_fit", w)
    BY <2>2, <2>3 DEF Complete, Primary
  <2> QED BY <2>5, <2>6 DEF w, d
<1>2. /\ Fine("job_fit", With(Good, [withheld |-> FALSE])) /\ Fine("job_fit", With(Bad, [withheld |-> TRUE]))
      /\ Complete("job_fit", With(Good, [withheld |-> FALSE])) /\ Complete("job_fit", With(Bad, [withheld |-> TRUE]))
  BY <1>1
<1>3. narratives \in {<<>>, [job_fit |-> With(Good, [withheld |-> FALSE])], [job_fit |-> With(Bad, [withheld |-> TRUE])]}
  BY DEF Narratives
<1> QED BY <1>2, <1>3

LEMMA MatchReportsFine ==
    ASSUME NEW version \in 1..6, NEW documents, NEW report \in MatchReports(version, documents)
    PROVE  /\ DOMAIN report \subseteq {"match_report"}
           /\ "match_report" \in DOMAIN report =>
                /\ Fine("match_report", report["match_report"])
                /\ version # 5 => Complete("match_report", report["match_report"])
                /\ "tailored_ats_match" \in DOMAIN report["match_report"] =>
                        /\ "resume" \in DOMAIN documents
                        /\ report["match_report"]["tailored_ats_match"].text = documents["resume"].text
<1> DEFINE scorer == IF version = 5 THEN "legacy" ELSE "ats_v2"
           basis == IF version = 5 THEN <<>> ELSE [score_basis |-> "ats_v2", trace |-> "run"]
           whole == "resume" \in DOMAIN documents /\ ~documents["resume"].fatal
           tailored == IF whole THEN [tailored_ats_match |-> Score(scorer, documents["resume"].text)] ELSE <<>>
           first == [original_ats_match |-> scorer]
           rest == With(tailored, basis)
           all == With(first, rest)
           one == [match_report |-> all]
<1>1. report \in {<<>>, one}
  BY DEF MatchReports
<1>2. DOMAIN <<>> = {}
  OBVIOUS
<1>3. DOMAIN one = {"match_report"} /\ one["match_report"] = all
  OBVIOUS
<1> HIDE DEF one
<1>4. DOMAIN first = {"original_ats_match"}
  OBVIOUS
<1>5. DOMAIN basis \subseteq Basis /\ (version # 5 => DOMAIN basis = Basis)
  BY <1>2 DEF Basis
<1>6. /\ DOMAIN tailored \subseteq {"tailored_ats_match"}
      /\ "tailored_ats_match" \in DOMAIN tailored =>
            whole /\ tailored["tailored_ats_match"] = Score(scorer, documents["resume"].text)
  BY <1>2
<1>7. Score(scorer, documents["resume"].text).text = documents["resume"].text
  BY DEF Score
<1> HIDE DEF first, basis, tailored, scorer
<1>8. /\ DOMAIN rest = DOMAIN tailored \cup DOMAIN basis
      /\ \A key \in DOMAIN tailored : rest[key] = tailored[key]
  BY WithFields
<1> HIDE DEF rest
<1>9. /\ DOMAIN all = DOMAIN first \cup DOMAIN rest
      /\ \A key \in DOMAIN rest \ DOMAIN first : all[key] = rest[key]
  BY WithFields
<1> HIDE DEF all
<1>10. DOMAIN all \subseteq Basis \cup Figures
  BY <1>4, <1>5, <1>6, <1>8, <1>9 DEF Figures
<1>11. version # 5 => Basis \subseteq DOMAIN all
  BY <1>5, <1>8, <1>9
<1>12. "tailored_ats_match" \in DOMAIN all =>
            "resume" \in DOMAIN documents /\ all["tailored_ats_match"].text = documents["resume"].text
  <2>1. "tailored_ats_match" \notin DOMAIN first /\ "tailored_ats_match" \notin DOMAIN basis
    BY <1>4, <1>5 DEF Basis
  <2> QED BY <1>6, <1>7, <1>8, <1>9, <2>1
<1>13. Fine("match_report", all) /\ (version # 5 => Complete("match_report", all))
  BY <1>10, <1>11 DEF Fine, Complete, Primary, Kinds
<1> QED BY <1>1, <1>2, <1>3, <1>12, <1>13

\* A row of an earlier version can be read.
LEMMA OldRowShaped ==
    ASSUME NEW version \in 1..6, NEW json \in OldRows(version)
    PROVE  json.schema = version /\ Shaped(json) /\ Scored(json) /\ (version \in 5..7 => Told(json))
<1> DEFINE Start(documents, narratives) ==
                [schema |-> version, validation |-> Validation(With(documents, narratives))]
           Whole(request, documents, narratives, report) ==
                With(Start(documents, narratives), With(request, With(documents, With(narratives, report))))
<1>1. PICK request \in Requests :
        json \in UNION {{Whole(request, documents, narratives, report) :
                            narratives \in Narratives(version), report \in MatchReports(version, documents)} :
                         documents \in Documents(request.resolved_mode, version)}
  <2>1. json \in LaterRows(version)
    BY DEF OldRows
  <2> QED BY <2>1 DEF LaterRows
<1>2. PICK documents \in Documents(request.resolved_mode, version) :
        json \in {Whole(request, documents, narratives, report) :
                    narratives \in Narratives(version), report \in MatchReports(version, documents)}
  BY <1>1
<1>19. PICK narratives \in Narratives(version), report \in MatchReports(version, documents) :
        json = Whole(request, documents, narratives, report)
  BY <1>2
<1> DEFINE s == Start(documents, narratives)
           rest == With(narratives, report)
           parts == With(documents, rest)
           body == With(request, parts)
<1>3. /\ DOMAIN request = {"requested_mode", "resolved_mode"}
      /\ request.resolved_mode \subseteq Selectable
  BY DEF Requests, Selection
<1>4. DOMAIN s = {"schema", "validation"} /\ s.schema = version
  OBVIOUS
<1>20. json = With(s, body)
  BY <1>19
<1> DEFINE Right(key, part) == Fine(key, part) /\ (version \in 5..7 /\ (key # "match_report" \/ version # 5) => Complete(key, part))
<1> HIDE DEF Start, Whole, s
<1>5. /\ DOMAIN rest \subseteq {"job_fit", "match_report"}
      /\ \A key \in DOMAIN rest : Right(key, rest[key])
      /\ "match_report" \in DOMAIN rest /\ "tailored_ats_match" \in DOMAIN rest["match_report"] =>
            "resume" \in DOMAIN documents /\ rest["match_report"]["tailored_ats_match"].text = documents["resume"].text
  <2>1. /\ DOMAIN rest = DOMAIN narratives \cup DOMAIN report
        /\ \A key \in DOMAIN narratives : rest[key] = narratives[key]
        /\ \A key \in DOMAIN report \ DOMAIN narratives : rest[key] = report[key]
    BY WithFields
  <2>2. /\ DOMAIN narratives \subseteq {"job_fit"}
        /\ \A key \in DOMAIN narratives : Right(key, narratives[key])
    BY NarrativesFine
  <2>3. /\ DOMAIN report \subseteq {"match_report"}
        /\ \A key \in DOMAIN report : Right(key, report[key])
        /\ "match_report" \in DOMAIN report /\ "tailored_ats_match" \in DOMAIN report["match_report"] =>
              "resume" \in DOMAIN documents /\ report["match_report"]["tailored_ats_match"].text = documents["resume"].text
    BY MatchReportsFine
  <2> HIDE DEF rest, Right
  <2>4. "match_report" \in DOMAIN rest => "match_report" \in DOMAIN report /\ rest["match_report"] = report["match_report"]
    BY <2>1, <2>2
  <2> QED BY <2>1, <2>2, <2>3, <2>4
<1> HIDE DEF rest
<1>6. /\ DOMAIN parts \subseteq Parts
      /\ \A key \in DOMAIN parts : Right(key, parts[key])
      /\ "match_report" \in DOMAIN parts => "match_report" \in DOMAIN rest /\ parts["match_report"] = rest["match_report"]
      /\ "resume" \in DOMAIN documents => "resume" \in DOMAIN parts /\ parts["resume"] = documents["resume"]
  <2>1. /\ DOMAIN parts = DOMAIN documents \cup DOMAIN rest
        /\ \A key \in DOMAIN documents : parts[key] = documents[key]
        /\ \A key \in DOMAIN rest \ DOMAIN documents : parts[key] = rest[key]
    BY WithFields
  <2>2. DOMAIN documents \subseteq Selectable /\ \A key \in DOMAIN documents : Right(key, documents[key])
    BY DocumentsFine
  <2> HIDE DEF parts, Right
  <2>3. "match_report" \notin Selectable /\ Selectable \subseteq Parts /\ {"job_fit", "match_report"} \subseteq Parts
    BY DEF Parts, Kinds, Selectable, Primary
  <2>4. DOMAIN parts \subseteq Parts
    BY <1>5, <2>1, <2>2, <2>3
  <2>5. \A key \in DOMAIN parts : Right(key, parts[key])
    BY <1>5, <2>1, <2>2
  <2>6. "match_report" \in DOMAIN parts => "match_report" \in DOMAIN rest /\ parts["match_report"] = rest["match_report"]
    BY <2>1, <2>2, <2>3
  <2> QED BY <2>1, <2>4, <2>5, <2>6
<1> HIDE DEF parts
<1>7. /\ DOMAIN body = DOMAIN request \cup DOMAIN parts
      /\ \A key \in DOMAIN request : body[key] = request[key]
      /\ \A key \in DOMAIN parts \ DOMAIN request : body[key] = parts[key]
  BY WithFields
<1> HIDE DEF body
<1>8. /\ DOMAIN json = DOMAIN s \cup DOMAIN body
      /\ \A key \in DOMAIN s : json[key] = s[key]
      /\ \A key \in DOMAIN body \ DOMAIN s : json[key] = body[key]
  <2>1. json = With(s, body)
    BY <1>20 DEF body, parts, rest
  <2>2. /\ DOMAIN With(s, body) = DOMAIN s \cup DOMAIN body
        /\ \A key \in DOMAIN s : With(s, body)[key] = s[key]
        /\ \A key \in DOMAIN body \ DOMAIN s : With(s, body)[key] = body[key]
    BY WithFields
  <2> HIDE DEF s
  <2> QED BY <2>1, <2>2
<1> HIDE DEF s
<1>9. Base \cap Parts = {} /\ {"schema", "validation", "requested_mode", "resolved_mode"} \subseteq Base
  BY DEF Base, Parts, Kinds, Primary
<1>10. DOMAIN json = {"schema", "validation", "requested_mode", "resolved_mode"} \cup DOMAIN parts
  BY <1>3, <1>4, <1>7, <1>8
<1>11. json.schema = version /\ json.resolved_mode = request.resolved_mode
  BY <1>3, <1>4, <1>7, <1>8
<1>21. ASSUME NEW key \in Parts \cap DOMAIN json PROVE key \in DOMAIN parts /\ json[key] = parts[key]
  <2>1. key \in DOMAIN parts /\ key \notin DOMAIN request /\ key \notin DOMAIN s
    BY <1>3, <1>4, <1>9, <1>10
  <2>2. json[key] = parts[key]
    BY <1>7, <1>8, <2>1
  <2> QED BY <2>1, <2>2
<1>22. ASSUME NEW key \in Parts \cap DOMAIN json PROVE Right(key, json[key])
  <2> HIDE DEF Right
  <2> QED BY <1>6, <1>21
<1>12. ASSUME NEW key \in Parts \cap DOMAIN json PROVE Fine(key, json[key])
  BY <1>22
<1>23. Scored(json)
  <2>1. "match_report" \in Parts /\ "resume" \in Parts
    BY DEF Parts, Kinds, Primary
  <2>2. "match_report" \in DOMAIN json => "match_report" \in DOMAIN parts /\ json["match_report"] = parts["match_report"]
    BY <1>21, <2>1
  <2>3. "resume" \in DOMAIN parts => "resume" \in DOMAIN json /\ json["resume"] = parts["resume"]
    BY <1>10, <1>21, <2>1
  <2> QED BY <1>5, <1>6, <2>2, <2>3 DEF Scored
<1>24. version \in 5..7 => Told(json)
  BY <1>10, <1>11, <1>22 DEF Told
<1>13. "delivery_reports" \notin DOMAIN json /\ "state" \notin DOMAIN json
  BY <1>6, <1>10 DEF Parts, Kinds, Primary
<1>14. Get(json, "resolved_mode", {}) = request.resolved_mode
  BY <1>10, <1>11 DEF Get
<1>15. Reports(json) = [kind \in Kinds |-> LegacyState(json, kind)]
  BY <1>13, ReportsCases
<1>16. ASSUME NEW kind \in Get(json, "resolved_mode", {})
       PROVE  /\ kind \in Kinds /\ Reports(json)[kind] # "not_requested"
              /\ Reports(json)[kind] \in Delivered => kind \in DOMAIN json /\ json[kind].fatal = FALSE
  <2>1. kind \in Kinds /\ kind \in Parts /\ kind # "match_report"
    BY <1>3, <1>14 DEF Selectable, Kinds, Parts, Primary
  <2>2. Reports(json)[kind] = LegacyState(json, kind)
    BY <1>15, <2>1
  <2>3. LegacyState(json, kind) # "not_requested"
    BY LegacyCases
  <2>4. LegacyState(json, kind) \in Delivered => kind \in DOMAIN json /\ ~json[kind].fatal
    BY LegacyCases
  <2>5. kind \in DOMAIN json => json[kind].fatal \in BOOLEAN
    BY <1>12, <2>1 DEF Fine
  <2> QED BY <2>1, <2>2, <2>3, <2>4, <2>5
<1>17. json.schema # 7
  BY <1>11
<1>18. DOMAIN json \subseteq Base \cup Parts /\ "schema" \in DOMAIN json
  BY <1>6, <1>9, <1>10
<1> QED BY <1>11, <1>12, <1>13, <1>16, <1>17, <1>18, <1>23, <1>24 DEF Shaped

\* Nor does a row of the first version, or of an unknown one, say what it was asked for.
LEMMA OddRows ==
    /\ \A json \in OldRows(0) : json.schema = 0 /\ "resolved_mode" \notin DOMAIN json
    /\ \A json \in OldRows(8) : json.schema = 8
<1>1. ASSUME NEW json \in OldRows(0) PROVE json.schema = 0 /\ "resolved_mode" \notin DOMAIN json
  <2>1. PICK fatal \in BOOLEAN,
             texts \in {[resume |-> Plain], [cover_letter |-> Plain], [resume |-> Plain, answers |-> Plain]} :
                json = With([schema |-> 0, fatal |-> fatal], texts)
    <3>1. json \in FirstRows
      BY DEF OldRows
    <3> QED BY <3>1 DEF FirstRows
  <2> DEFINE s == [schema |-> 0, fatal |-> fatal]
  <2>2. DOMAIN s = {"schema", "fatal"} /\ s.schema = 0
    OBVIOUS
  <2>3. "resolved_mode" \notin DOMAIN texts
    OBVIOUS
  <2> HIDE DEF s
  <2>4. /\ DOMAIN With(s, texts) = DOMAIN s \cup DOMAIN texts
        /\ \A key \in DOMAIN s : With(s, texts)[key] = s[key]
    BY WithFields
  <2>5. With(s, texts).schema = 0 /\ "resolved_mode" \notin DOMAIN With(s, texts)
    BY <2>2, <2>3, <2>4
  <2> QED BY <2>1, <2>5 DEF s
<1>2. ASSUME NEW json \in OldRows(8) PROVE json.schema = 8
  BY DEF OldRows
<1> QED BY <1>1, <1>2

LEMMA InitKept == Init => Kept
<1> SUFFICES ASSUME Init, Stored PROVE Kept
  BY DEF Kept
<1>1. PICK version \in OldVersions : row \in OldRows(version)
  BY DEF Init, Stored, NoResult
<1>2. version \in {0, 8} \cup 1..6
  BY VersionsAssumption
<1>3. CASE version \in 1..6
  <2>1. row.schema = version /\ Shaped(row) /\ Scored(row) /\ (version \in 5..7 => Told(row))
    BY <1>1, <1>3, OldRowShaped
  <2> QED BY <1>3, <2>1 DEF Kept
<1>4. CASE version = 0
  <2>1. row.schema = 0 /\ "resolved_mode" \notin DOMAIN row
    BY <1>1, <1>4, OddRows
  <2> QED BY <2>1 DEF Kept
<1>5. CASE version = 8
  <2>1. row.schema = 8
    BY <1>1, <1>5, OddRows
  <2> QED BY <2>1 DEF Kept
<1> QED BY <1>2, <1>3, <1>4, <1>5

\* The artifact a generation writes, and what is reported of it.
LEMMA GeneratedFine ==
    ASSUME NEW original
    PROVE  LET o == Ground(granularity, draft)
               resume == With(Artifact(o), Ledger(original, o.clean))
               report == Report(TRUE, resume.status, "generated")
           IN  /\ Fine("resume", WriteDocument(resume)) /\ Complete("resume", WriteDocument(resume))
               /\ ~o.fatal => WriteDocument(resume).text = o.clean
               /\ report \in DocumentStates \ {"not_requested"}
               /\ report \in Delivered => WriteDocument(resume).fatal \in {FALSE}
<1> DEFINE o == Ground(granularity, draft)
           base == [status |-> ValidationStatus(o.fatal, o.repaired > 0), fatal |-> o.fatal,
                    text |-> IF o.fatal THEN <<>> ELSE o.clean]
           extra == IF o.fatal THEN <<>> ELSE [document |-> TRUE]
           a == Artifact(o)
           l == Ledger(original, o.clean)
           resume == With(a, l)
           out == WriteDocument(resume)
<1>0. o.fatal \in BOOLEAN
  BY GroundFatal
<1> HIDE DEF o
<1>1. /\ DOMAIN base = Validated /\ base.fatal = o.fatal /\ (~o.fatal => base.text = o.clean)
      /\ base.status = ValidationStatus(o.fatal, o.repaired > 0)
  BY DEF Validated
<1>2. DOMAIN extra \subseteq {"document"}
  OBVIOUS
<1>3. a = With(base, extra)
  BY DEF Artifact
<1> HIDE DEF base, extra, a
<1>4. /\ DOMAIN With(base, extra) = DOMAIN base \cup DOMAIN extra
      /\ \A key \in DOMAIN base : With(base, extra)[key] = base[key]
  BY WithFields
<1>5. /\ Validated \subseteq DOMAIN a /\ DOMAIN a \subseteq Validated \cup {"document"}
      /\ a.fatal = o.fatal /\ a.status = ValidationStatus(o.fatal, o.repaired > 0)
      /\ ~o.fatal => a.text = o.clean
  BY <1>1, <1>2, <1>3, <1>4 DEF Validated
<1>6. DOMAIN l = {"change_ledger"}
  BY DEF Ledger
<1> HIDE DEF l
<1>7. /\ DOMAIN resume = DOMAIN a \cup DOMAIN l
      /\ \A key \in DOMAIN a : resume[key] = a[key]
  BY WithFields
<1> HIDE DEF resume
<1>8. /\ Validated \subseteq DOMAIN resume /\ DOMAIN resume \subseteq Written
      /\ resume.fatal = o.fatal /\ resume.status = ValidationStatus(o.fatal, o.repaired > 0)
      /\ "change_ledger" \in DOMAIN resume /\ (~o.fatal => resume.text = o.clean)
  BY <1>5, <1>6, <1>7 DEF Validated, Written
<1>9. out = Fields(resume, Written)
  BY DEF WriteDocument, Written
<1> HIDE DEF out
<1>10. /\ DOMAIN Fields(resume, Written) = Written \cap DOMAIN resume
       /\ \A key \in Written \cap DOMAIN resume : Fields(resume, Written)[key] = resume[key]
  BY FieldsKept
<1>11. /\ Validated \subseteq DOMAIN out /\ DOMAIN out \subseteq Written /\ out.fatal = o.fatal
       /\ "change_ledger" \in DOMAIN out /\ (~o.fatal => out.text = o.clean)
  BY <1>0, <1>8, <1>9, <1>10 DEF Validated, Written
<1>12. Fine("resume", out) /\ Complete("resume", out)
  BY <1>0, <1>11 DEF Fine, Complete, Primary, Kinds, Selectable
<1>13. /\ Report(TRUE, resume.status, "generated") \in DocumentStates \ {"not_requested"}
       /\ Report(TRUE, resume.status, "generated") \in Delivered => out.fatal \in {FALSE}
  BY <1>0, <1>8, <1>11 DEF Report, ValidationStatus, Delivered, DocumentStates
<1> QED BY <1>11, <1>12, <1>13 DEF out, resume, a, l, o

\* The scores a generation writes are complete, and of what the gate left.
LEMMA ScoresWritten ==
    ASSUME NEW o, o.fatal \in BOOLEAN
    PROVE  LET out == WriteReport(Scores(o))
           IN  /\ Fine("match_report", out) /\ Complete("match_report", out)
               /\ "tailored_ats_match" \in DOMAIN out =>
                        ~o.fatal /\ out["tailored_ats_match"].text = o.clean
<1> DEFINE first == [score_basis |-> "pramana", trace |-> "run", removals |-> TRUE, original_ats_match |-> "pramana"]
           rest == IF o.fatal THEN <<>> ELSE [tailored_ats_match |-> Score("pramana", o.clean)]
           all == With(first, rest)
           out == Fields(all, Basis \cup Figures)
<1>1. WriteReport(Scores(o)) = out
  <2>1. Basis \cup Figures = {"score_basis", "trace", "original_ats_match", "tailored_ats_match"}
    BY DEF Basis, Figures
  <2> QED BY <2>1 DEF WriteReport, Scores
<1>2. DOMAIN first = Basis \cup {"removals", "original_ats_match"}
  BY DEF Basis
<1>3. DOMAIN <<>> = {}
  OBVIOUS
<1>4. "tailored_ats_match" \in DOMAIN rest => ~o.fatal /\ rest["tailored_ats_match"].text = o.clean
  BY <1>3 DEF Score
<1> HIDE DEF first, rest
<1>5. /\ DOMAIN all = DOMAIN first \cup DOMAIN rest
      /\ \A key \in DOMAIN rest \ DOMAIN first : all[key] = rest[key]
  BY WithFields
<1> HIDE DEF all
<1>6. /\ DOMAIN out = (Basis \cup Figures) \cap DOMAIN all
      /\ \A key \in (Basis \cup Figures) \cap DOMAIN all : out[key] = all[key]
  BY FieldsKept
<1> HIDE DEF out
<1>7. Fine("match_report", out) /\ Complete("match_report", out)
  BY <1>2, <1>5, <1>6 DEF Fine, Complete, Primary, Kinds
<1>8. "tailored_ats_match" \in DOMAIN out => ~o.fatal /\ out["tailored_ats_match"].text = o.clean
  BY <1>2, <1>4, <1>5, <1>6 DEF Basis
<1> QED BY <1>1, <1>7, <1>8

\* What a generation stores can be read again.
LEMMA GeneratedShaped ==
    ASSUME NEW original, Generate(original)
    PROVE  row'.schema = 7 /\ Shaped(row') /\ Told(row') /\ Scored(row')
<1> DEFINE outcome == Ground(granularity, draft)
           resume == With(Artifact(outcome), Ledger(original, outcome.clean))
           report == Report(TRUE, resume.status, "generated")
           reports == [kind \in Kinds |->
               CASE kind = "resume" -> report
                 [] kind = "cover_letter" -> "generated"
                 [] OTHER -> "not_requested"]
           letter == With(Good, [change_ledger |-> <<>>])
           scores == Scores(outcome)
           kit == [schema |-> 7, requested_mode |-> "both", resolved_mode |-> Primary,
                   target_confidence |-> 1, validation |-> [fatal |-> outcome.fatal],
                   state |-> RollUp(reports), delivery_reports |-> reports,
                   resume |-> resume, cover_letter |-> letter, match_report |-> scores]
           new == ToDict(kit)
<1>1. row' = new
  BY DEF Generate, Scores
<1>3. /\ Fine("resume", WriteDocument(resume)) /\ Complete("resume", WriteDocument(resume))
      /\ ~outcome.fatal => WriteDocument(resume).text = outcome.clean
      /\ report \in DocumentStates \ {"not_requested"}
      /\ report \in Delivered => WriteDocument(resume).fatal \in {FALSE}
  BY GeneratedFine
<1> HIDE DEF resume, report
<1>4. /\ reports \in [Kinds -> DocumentStates]
      /\ reports["resume"] = report /\ reports["cover_letter"] = "generated"
  BY <1>3 DEF Kinds, Primary, DocumentStates
<1> HIDE DEF reports
<1>5. /\ Fine("match_report", WriteReport(scores)) /\ Complete("match_report", WriteReport(scores))
      /\ "tailored_ats_match" \in DOMAIN WriteReport(scores) =>
            ~outcome.fatal /\ WriteReport(scores)["tailored_ats_match"].text = outcome.clean
  BY GroundFatal, ScoresWritten
<1>6. /\ Fine("cover_letter", WriteDocument(letter)) /\ WriteDocument(letter).fatal = FALSE
      /\ Complete("cover_letter", WriteDocument(letter))
  BY LetterWritten DEF Fine, Complete, Written, Primary, Kinds, Selectable
<1> HIDE DEF letter, scores, outcome
<1>7. /\ DOMAIN kit = Base \cup {"resume", "cover_letter", "match_report"}
      /\ kit.schema = 7 /\ kit.resolved_mode = Primary
      /\ kit.state = RollUp(reports) /\ kit.delivery_reports = reports
      /\ kit.resume = resume /\ kit.cover_letter = letter /\ kit.match_report = scores
  BY DEF Base
<1> HIDE DEF kit
<1>8. /\ DOMAIN new = DOMAIN kit
      /\ \A key \in DOMAIN kit \cap Primary : new[key] = WriteDocument(kit[key])
      /\ "match_report" \in DOMAIN kit => new["match_report"] = WriteReport(kit["match_report"])
      /\ \A key \in DOMAIN kit \ Parts : new[key] = kit[key]
  BY ToDictParts
<1> HIDE DEF new
<1>9. Base \cap Parts = {} /\ {"resume", "cover_letter", "match_report"} \subseteq Parts
      /\ {"schema", "requested_mode", "resolved_mode", "validation", "state", "delivery_reports"} \subseteq Base
  BY DEF Base, Parts, Kinds, Primary
<1>10. /\ new.schema = 7 /\ new.resolved_mode = Primary
       /\ new.state = RollUp(reports) /\ new.delivery_reports = reports
  BY <1>7, <1>8, <1>9
<1>11. /\ new.resume = WriteDocument(resume) /\ new.cover_letter = WriteDocument(letter)
       /\ new.match_report = WriteReport(scores)
  BY <1>7, <1>8 DEF Primary
<1>12. ASSUME NEW key \in Parts \cap DOMAIN new PROVE Fine(key, new[key]) /\ Complete(key, new[key])
  <2>1. key \in {"resume", "cover_letter", "match_report"}
    BY <1>7, <1>8, <1>9
  <2>2. CASE key = "resume"
    BY <1>3, <1>11, <2>2
  <2>3. CASE key = "cover_letter"
    BY <1>6, <1>11, <2>3
  <2>4. CASE key = "match_report"
    BY <1>5, <1>11, <2>4
  <2> QED BY <2>1, <2>2, <2>3, <2>4
<1>13. "delivery_reports" \in DOMAIN new /\ "state" \in DOMAIN new /\ "schema" \in DOMAIN new
       /\ {"requested_mode", "resolved_mode", "validation"} \subseteq DOMAIN new /\ DOMAIN new \subseteq Base \cup Parts
  BY <1>7, <1>8, <1>9
<1>14. Reports(new) = reports
  BY <1>4, <1>10, <1>13, ReportsCases
<1>15. ASSUME NEW kind \in Get(new, "resolved_mode", {})
       PROVE  /\ kind \in Kinds /\ Reports(new)[kind] # "not_requested"
              /\ Reports(new)[kind] \in Delivered => kind \in DOMAIN new /\ new[kind].fatal = FALSE
  <2>1. kind \in {"resume", "cover_letter"}
    BY <1>10, <1>13 DEF Get, Primary
  <2>2. kind \in Kinds /\ kind \in DOMAIN new
    BY <1>7, <1>8, <2>1 DEF Kinds, Primary
  <2>3. CASE kind = "resume"
    BY <1>3, <1>4, <1>11, <1>14, <2>2, <2>3
  <2>4. CASE kind = "cover_letter"
    BY <1>4, <1>6, <1>11, <1>14, <2>2, <2>4
  <2> QED BY <2>1, <2>3, <2>4
<1>16. Shaped(new)
  BY <1>4, <1>10, <1>12, <1>13, <1>15 DEF Shaped
<1>17. Told(new)
  BY <1>12, <1>13 DEF Told
<1>18. Scored(new)
  <2>1. "resume" \in DOMAIN new
    BY <1>7, <1>8
  <2> QED BY <1>3, <1>5, <1>11, <2>1 DEF Scored
<1> QED BY <1>1, <1>10, <1>16, <1>17, <1>18

\* A batch on a row that can be read leaves one that can be.
LEMMA EditedRow ==
    ASSUME Kept, NEW kind \in Primary, NEW status, NEW typed \in BOOLEAN, Edit(kind, status, typed)
    PROVE  LET shown == Normalized(row)
           IN  /\ row.schema \in 5..7 /\ Shaped(row) /\ Shaped(shown) /\ shown.schema = row.schema
               /\ Scored(shown) /\ {"requested_mode", "resolved_mode", "validation"} \subseteq DOMAIN shown
               /\ \A key \in Parts \cap DOMAIN shown : Complete(key, shown[key])
               /\ "delivery_reports" \in DOMAIN shown /\ kind \in DOMAIN shown
               /\ Changed(FromDict(shown), kind, status, typed).refused = FALSE
               /\ row' = ToDict(Changed(FromDict(shown), kind, status, typed).kit)
<1> DEFINE shown == Normalized(row)
<1>1. row.schema \in 5..7
  BY DEF Edit
<1>2. row.schema \in 1..7 /\ Stored
  BY <1>1 DEF Stored
<1>3. Shaped(row) /\ Scored(row) /\ Told(row)
  BY <1>1, <1>2 DEF Kept
<1>4. Shaped(shown) /\ shown.schema = row.schema /\ "delivery_reports" \in DOMAIN shown
  BY <1>2, <1>3, NormalizedShaped
<1>9. /\ Scored(shown) /\ {"requested_mode", "resolved_mode", "validation"} \subseteq DOMAIN shown
      /\ \A key \in Parts \cap DOMAIN shown : Complete(key, shown[key])
  BY <1>1, <1>2, <1>3, NormalizedScored, NormalizedTold
<1>5. /\ kind \in DOMAIN FromDict(shown) /\ ~Changed(FromDict(shown), kind, status, typed).refused
      /\ row' = ToDict(Changed(FromDict(shown), kind, status, typed).kit)
  BY DEF Edit
<1> HIDE DEF shown
<1>6. kind \in DOMAIN shown
  <2>1. DOMAIN FromDict(shown) = Base \cup (Parts \cap DOMAIN shown)
    BY FromDictParts
  <2> QED BY <1>5, <2>1 DEF Base, Primary
<1>7. Changed(FromDict(shown), kind, status, typed).refused \in BOOLEAN
  BY DEF Changed
<1>8. Changed(FromDict(shown), kind, status, typed).refused = FALSE
  BY <1>5, <1>7
<1> QED BY <1>1, <1>3, <1>4, <1>5, <1>6, <1>8, <1>9 DEF shown

LEMMA KeptNext ==
    ASSUME row'.schema \in 5..7, Shaped(row'), Told(row'), Scored(row')
    PROVE  Kept'
<1>1. Shaped(row)'
  BY DEF Shaped, Fine, Reports, LegacyState, RequestedKinds, RequestedByWording
<1>2. Told(row)' /\ Scored(row)'
  BY DEF Told, Scored, Complete
<1> QED BY <1>1, <1>2 DEF Kept

\* Every row there is can be read.
LEMMA NextKept == Kept /\ [Next]_vars => Kept'
<1> SUFFICES ASSUME Kept, [Next]_vars PROVE Kept'
  OBVIOUS
<1>1. CASE Write
  BY <1>1 DEF Write, Kept, Stored, NoResult
<1>2. ASSUME NEW original \in Originals, Generate(original) PROVE Kept'
  <2>1. row'.schema = 7 /\ Shaped(row') /\ Told(row') /\ Scored(row')
    BY <1>2, GeneratedShaped
  <2> QED BY <2>1, KeptNext
<1>3. ASSUME NEW kind \in Primary, NEW status \in Dispositions, NEW typed \in BOOLEAN, Edit(kind, status, typed) PROVE Kept'
  <2> DEFINE shown == Normalized(row)
             new == ToDict(Changed(FromDict(shown), kind, status, typed).kit)
  <2>1. /\ row.schema \in 5..7 /\ Shaped(shown) /\ shown.schema = row.schema
        /\ "delivery_reports" \in DOMAIN shown /\ kind \in Primary \cap DOMAIN shown
        /\ Changed(FromDict(shown), kind, status, typed).refused = FALSE
        /\ row' = new /\ Scored(shown)
    BY <1>3, EditedRow
  <2> HIDE DEF shown
  <2>2. Shaped(new)
    BY <2>1, RewrittenShaped
  <2>6. Wrote(shown, kind, typed, new)
    BY <2>1, Rewritten
  <2>5. Told(new) /\ Scored(new)
    BY <2>1, RewrittenTold
  <2> HIDE DEF new
  <2>3. new.schema = shown.schema
    BY <2>6 DEF Wrote
  <2>4. row'.schema \in 5..7 /\ Shaped(row') /\ Told(row') /\ Scored(row')
    BY <2>1, <2>2, <2>3, <2>5
  <2> QED BY <2>4, KeptNext
<1>4. CASE UNCHANGED vars
  BY <1>4 DEF Kept, Stored, vars
<1> QED BY <1>1, <1>2, <1>3, <1>4 DEF Next

\* However old a kit is, it is not shown as completed while a document it was
\* asked for is missing or was rejected.
THEOREM HistoryHonest == Spec => []HonestHistory
<1>1. Kept => HonestHistory
  <2> SUFFICES ASSUME Kept, Stored, Shown.state = "completed",
                      NEW kind \in Get(row, "resolved_mode", {})
               PROVE  kind \in DOMAIN Shown /\ ~Shown[kind].fatal
    BY DEF HonestHistory
  <2>1. row.schema \in 0..8
    BY DEF Kept
  <2>2. row.schema # 0
    BY DEF Kept, Get
  <2>3. row.schema # 8
    <3>1. row.schema = 8 => Shown.state = "failed"
      BY DEF Shown, Normalized, Unrecognized
    <3> QED BY <3>1
  <2>4. row.schema \in 1..7 /\ Shaped(row)
    BY <2>1, <2>2, <2>3 DEF Kept
  <2>5. /\ DOMAIN Shown = DOMAIN row \cup {"delivery_reports", "state"}
        /\ Shown.state = RollUp(Reports(row))
        /\ \A key \in DOMAIN row \ {"delivery_reports", "state", "match_report"} : Shown[key] = row[key]
    BY <2>4, NormalizedFields DEF Shown
  <2>6. /\ kind \in Kinds /\ Reports(row)[kind] # "not_requested"
        /\ Reports(row)[kind] \in Delivered => kind \in DOMAIN row /\ row[kind].fatal = FALSE
    BY <2>4 DEF Shaped
  <2>7. \A k \in Kinds : Reports(row)[k] \in Delivered \cup {"not_requested"}
    <3>1. Reports(row) \in [Kinds -> DocumentStates] /\ RollUp(Reports(row)) = "completed"
      BY <2>4, <2>5, ReportsTyped
    <3> QED BY <3>1, CompletedIffAllDelivered
  <2>8. kind \in DOMAIN row /\ row[kind].fatal = FALSE
    BY <2>6, <2>7
  <2>9. Shown[kind] = row[kind]
    BY <2>5, <2>6, <2>8 DEF Kinds, Primary
  <2> QED BY <2>5, <2>8, <2>9
<1> QED BY <1>1, InitKept, NextKept, PTL DEF Spec

\* A reader of a row that a batch wrote finds what there was, but for what the batch
\* was about.
LEMMA EditKeeps ==
    ASSUME Kept, NEW kind \in Primary, NEW status, NEW typed \in BOOLEAN, Edit(kind, status, typed)
    PROVE  kind \in DOMAIN Shown /\ OnlyTouched(kind, Shown, Normalized(row'))
<1> DEFINE shown == Normalized(row)
           new == ToDict(Changed(FromDict(shown), kind, status, typed).kit)
           after == Normalized(new)
           again == kind = "resume" /\ "document" \in DOMAIN shown[kind]
<1>1. /\ row.schema \in 5..7 /\ Shaped(shown) /\ shown.schema = row.schema
      /\ "delivery_reports" \in DOMAIN shown /\ kind \in Primary \cap DOMAIN shown
      /\ Changed(FromDict(shown), kind, status, typed).refused = FALSE
      /\ row' = new
      /\ {"requested_mode", "resolved_mode", "validation"} \subseteq DOMAIN shown
      /\ \A key \in Parts \cap DOMAIN shown : Complete(key, shown[key])
  BY EditedRow
<1> HIDE DEF shown
<1>0. /\ Shaped(shown) /\ "delivery_reports" \in DOMAIN shown /\ kind \in Primary \cap DOMAIN shown
      /\ Changed(FromDict(shown), kind, status, typed).refused = FALSE
  BY <1>1
<1>2. /\ DOMAIN new = Base \cup (Parts \cap DOMAIN shown)
      /\ new.schema = shown.schema
      /\ new.requested_mode = Get(shown, "requested_mode", "")
      /\ new.resolved_mode = Get(shown, "resolved_mode", {})
      /\ new.target_confidence = Get(shown, "target_confidence", 0)
      /\ new.state = shown.state /\ new.delivery_reports = shown.delivery_reports
      /\ \A key \in (Parts \cap DOMAIN shown) \ {kind, "match_report"} : new[key] = Round(key, shown[key])
  <2>1. Wrote(shown, kind, typed, new)
    BY <1>0, Rewritten
  <2> HIDE DEF new
  <2> QED BY <2>1 DEF Wrote
<1>3. Shaped(new)
  BY <1>0, RewrittenShaped
<1>13. ASSUME "match_report" \in DOMAIN shown
       PROVE  /\ Complete("match_report", new["match_report"])
              /\ \A field \in Basis \cap DOMAIN shown["match_report"] :
                    new["match_report"][field] = shown["match_report"][field]
              /\ ~again => Extends(new["match_report"], shown["match_report"])
              /\ ~again /\ Complete("match_report", shown["match_report"]) =>
                    DOMAIN new["match_report"] = DOMAIN shown["match_report"]
              /\ Fine("match_report", new["match_report"])
  <2>1. RightlyScored(shown, kind, new)
    BY <1>0, <1>13, ReportRewritten
  <2> HIDE DEF new, again
  <2> QED BY <2>1 DEF RightlyScored, again
<1> HIDE DEF new
<1>4. /\ DOMAIN after = DOMAIN new \cup {"delivery_reports", "state"}
      /\ after.delivery_reports = Reports(new)
      /\ after.state = RollUp(Reports(new))
      /\ \A key \in DOMAIN new \ {"delivery_reports", "state", "match_report"} : after[key] = new[key]
      /\ "match_report" \in DOMAIN new =>
            after["match_report"] \in {new["match_report"], WithBasis(new["match_report"])}
  <2>1. new.schema \in 1..7
    <3>1. new.schema = row.schema
      BY <1>1, <1>2
    <3> QED BY <1>1, <3>1
  <2> QED BY <1>3, <2>1, NormalizedFields
<1> HIDE DEF after
<1>5. Base \cap Parts = {} /\ {"delivery_reports", "state"} \subseteq Base /\ "match_report" \in Parts
      /\ kind \in Parts /\ kind # "match_report"
  BY DEF Base, Parts, Kinds, Primary
<1>6. DOMAIN after = Base \cup (Parts \cap DOMAIN shown) /\ DOMAIN after = DOMAIN new
  BY <1>2, <1>4, <1>5
<1>7. after.delivery_reports = shown.delivery_reports /\ after.state = shown.state
  <2>1. /\ shown.delivery_reports \in [Kinds -> DocumentStates]
        /\ shown.state = RollUp(shown.delivery_reports)
    BY <1>1 DEF Shaped
  <2>2. Reports(new) = new.delivery_reports
    BY <1>2, <1>5, <2>1, ReportsCases
  <2> QED BY <1>2, <1>4, <2>1, <2>2
<1>8. ASSUME NEW key \in DOMAIN shown \ (Parts \cup {"validation"})
      PROVE  key \in DOMAIN after /\ after[key] = shown[key]
  <2>1. key \in Base
    BY <1>1 DEF Shaped
  <2>2. CASE key \in {"delivery_reports", "state"}
    BY <1>6, <1>7, <2>1, <2>2
  <2>3. CASE key \in {"schema", "requested_mode", "resolved_mode", "target_confidence"}
    <3>1. new[key] = shown[key]
      BY <1>2, <2>3 DEF Get
    <3>2. after[key] = new[key]
      BY <1>2, <1>4, <2>1, <2>3
    <3> QED BY <1>6, <2>1, <3>1, <3>2
  <2> QED BY <2>1, <2>2, <2>3 DEF Base
<1>9. Same(after, shown, Parts \cup {"validation", "target_confidence"})
  <2>1. Base \subseteq DOMAIN shown \cup {"target_confidence"}
    <3>1. "state" \in DOMAIN shown /\ "schema" \in DOMAIN shown
      BY <1>1 DEF Shaped
    <3> QED BY <1>1, <3>1 DEF Base
  <2> QED BY <1>6, <1>8, <2>1 DEF Same
<1>14. "target_confidence" \in DOMAIN shown => after["target_confidence"] = shown["target_confidence"]
  BY <1>8 DEF Parts, Kinds, Primary
<1>10. ASSUME NEW key \in (Parts \ {kind, "match_report"}) \cap DOMAIN shown
       PROVE  Same(after[key], shown[key], {})
  <2>1. Fine(key, shown[key]) /\ Complete(key, shown[key])
    BY <1>1 DEF Shaped
  <2>2. /\ Extends(Round(key, shown[key]), shown[key])
        /\ DOMAIN Round(key, shown[key]) = DOMAIN shown[key]
    BY <2>1, RoundTrip
  <2>3. new[key] = Round(key, shown[key])
    BY <1>2
  <2>4. after[key] = new[key]
    <3>1. key \in DOMAIN new /\ key \notin {"delivery_reports", "state"}
      BY <1>2, <1>5
    <3> QED BY <1>4, <3>1
  <2> QED BY <2>2, <2>3, <2>4 DEF Same, Extends
<1>15. ASSUME "match_report" \in DOMAIN shown
       PROVE  Same(after["match_report"], shown["match_report"], IF again THEN Figures ELSE {})
  <2> DEFINE one == new["match_report"]
             old == shown["match_report"]
             last == after["match_report"]
  <2>1. /\ Complete("match_report", one) /\ Fine("match_report", one)
        /\ \A field \in Basis \cap DOMAIN old : one[field] = old[field]
        /\ ~again => Extends(one, old)
        /\ ~again /\ Complete("match_report", old) => DOMAIN one = DOMAIN old
    BY <1>13, <1>15
  <2>2. Complete("match_report", old) /\ Fine("match_report", old)
    BY <1>1, <1>5, <1>15 DEF Shaped
  <2>3. last \in {one, WithBasis(one)}
    BY <1>2, <1>4, <1>5, <1>15
  <2> HIDE DEF one, old, last
  <2>4. Basis \subseteq DOMAIN one /\ Basis \subseteq DOMAIN old
    BY <2>1, <2>2 DEF Complete
  <2>5. DOMAIN last = DOMAIN one /\ \A field \in DOMAIN one : last[field] = one[field]
    BY <2>3, <2>4, BasisAdded
  <2>6. DOMAIN one \subseteq Basis \cup Figures /\ DOMAIN old \subseteq Basis \cup Figures
    BY <2>1, <2>2 DEF Fine
  <2>7. CASE again
    <3>1. \A field \in (DOMAIN last \cup DOMAIN old) \ Figures :
            field \in DOMAIN last /\ field \in DOMAIN old /\ last[field] = old[field]
      BY <2>1, <2>4, <2>5, <2>6
    <3> QED BY <2>7, <3>1 DEF Same, last, old
  <2>8. CASE ~again
    <3>1. DOMAIN last = DOMAIN old /\ \A field \in DOMAIN old : last[field] = old[field]
      BY <2>1, <2>2, <2>5, <2>8 DEF Extends
    <3> QED BY <2>8, <3>1 DEF Same, last, old
  <2> QED BY <2>7, <2>8
<1>11. Parts \cap DOMAIN after = Parts \cap DOMAIN shown
  BY <1>5, <1>6
<1>16. ASSUME NEW key \in (Parts \ {kind}) \cap DOMAIN shown
       PROVE  Same(after[key], shown[key],
                   IF key = "match_report" THEN (IF again THEN Figures ELSE {}) ELSE {})
  BY <1>10, <1>15
<1> HIDE DEF again
<1>17. OnlyTouched(kind, shown, after)
  BY <1>9, <1>11, <1>14, <1>16 DEF OnlyTouched, Parts, Figures, again
<1>12. after = Normalized(row') /\ shown = Shown
  BY <1>1 DEF after, shown, Shown
<1> QED BY <1>1, <1>12, <1>17

\* A batch changes the artifact it names, the roll-up of the kit's validation and, if
\* it makes the resume again, the scores of the resume: nothing else a reader was
\* shown changes, is lost or is added, whichever version wrote the kit, but for a
\* confidence that was null.
THEOREM EditKeepsAllElse == Spec => EditKeepsTheRest
<1> DEFINE Rest ==
        \A before \in {Shown}, after \in {Normalized(row')} :
            Stored => \E kind \in Primary \cap DOMAIN before : OnlyTouched(kind, before, after)
<1>1. ASSUME Kept, [Next]_vars PROVE [Rest]_vars
  <2>1. CASE Write
    BY <2>1 DEF Write, Stored, NoResult
  <2>2. ASSUME NEW original \in Originals, Generate(original) PROVE [Rest]_vars
    BY <2>2 DEF Generate, Stored, NoResult
  <2>3. ASSUME NEW kind \in Primary, NEW status \in Dispositions, NEW typed \in BOOLEAN, Edit(kind, status, typed) PROVE Rest
    BY <1>1, <2>3, EditKeeps
  <2>4. CASE UNCHANGED vars
    BY <2>4
  <2> QED BY <1>1, <2>1, <2>2, <2>3, <2>4 DEF Next
<1>2. Kept /\ [Next]_vars => [Rest]_vars
  BY <1>1
<1> HIDE DEF Rest
<1>3. Spec => [][Rest]_vars
  BY <1>2, InitKept, NextKept, PTL DEF Spec
<1> QED BY <1>3 DEF Rest, EditKeepsTheRest

\* The flat result of the first version has no scores.
LEMMA FirstUnscored ==
    ASSUME NEW json, json.schema = 0
    PROVE  "match_report" \notin DOMAIN Normalized(json)
<1> DEFINE first == [schema |-> 0, state |-> IF json.fatal THEN "failed" ELSE "completed", delivery_reports |-> <<>>,
                     validation |-> [fatal |-> json.fatal]]
           made == [kind \in Selectable \cap DOMAIN json |->
                        [status |-> "generated", fatal |-> json.fatal, text |-> json[kind]]]
           j == With(first, made)
           d == [delivery_reports |-> <<>>, state |-> "failed"]
           w == With(j, d)
<1>1. Normalized(json) = [w EXCEPT !.delivery_reports = Reports(w), !.state = RollUp(Reports(w))]
  BY DEF Normalized, Projection, Projected, AdaptLegacy
<1>2. "match_report" \notin DOMAIN first /\ "match_report" \notin DOMAIN d /\ "match_report" \notin DOMAIN made
  BY DEF Selectable, Primary
<1> HIDE DEF first, made, d
<1>3. DOMAIN j = DOMAIN first \cup DOMAIN made
  BY WithFields
<1> HIDE DEF j
<1>4. DOMAIN w = DOMAIN j \cup DOMAIN d
  BY WithFields
<1> HIDE DEF w
<1> QED BY <1>1, <1>2, <1>3, <1>4

\* The score a reader is shown beside a resume is that of the very text they are
\* shown, after any number of batches and whichever version wrote the kit.
THEOREM ScoresFollow == Spec => []ScoresFollowTheText
<1>1. Kept => ScoresFollowTheText
  <2> SUFFICES ASSUME Kept, Stored, "tailored_ats_match" \in DOMAIN Get(Shown, "match_report", <<>>)
               PROVE  /\ "resume" \in DOMAIN Shown
                      /\ Get(Shown, "match_report", <<>>)["tailored_ats_match"].text = Shown["resume"].text
    BY DEF ScoresFollowTheText
  <2>1. "match_report" \in DOMAIN Shown
    <3>1. DOMAIN <<>> = {}
      OBVIOUS
    <3> QED BY <3>1 DEF Get
  <2>2. Get(Shown, "match_report", <<>>) = Shown["match_report"]
    BY <2>1 DEF Get
  <2>3. row.schema \in 0..8
    BY DEF Kept
  <2>4. row.schema # 8
    <3>1. row.schema = 8 => "match_report" \notin DOMAIN Shown
      BY DEF Shown, Normalized, Unrecognized
    <3> QED BY <2>1, <3>1
  <2>5. row.schema # 0
    BY <2>1, FirstUnscored DEF Shown
  <2>6. Scored(Shown)
    <3>1. row.schema \in 1..7 /\ Shaped(row) /\ Scored(row)
      BY <2>3, <2>4, <2>5 DEF Kept
    <3> QED BY <3>1, NormalizedScored DEF Shown
  <2> QED BY <2>1, <2>2, <2>6 DEF Scored
<1> QED BY <1>1, InitKept, NextKept, PTL DEF Spec

-----------------------------------------------------------------------------
(* Repair costs nothing else *)

\* The same tokens, picked alike, leave the same.
LEMMA PickedSame ==
    ASSUME NEW X, NEW t \in Seq(X), NEW p, NEW q, \A k \in DOMAIN t : k \in p <=> k \in q
    PROVE  Picked(t, p) = Picked(t, q)
<1>1. Len(t) \in Nat /\ DOMAIN t = 1..Len(t) /\ Len(t) \in 0..Len(t)
  OBVIOUS
<1>2. PICK a : Picks(a, Len(t), X, t, p)
  BY PickedStepwise
<1>3. PICK b : Picks(b, Len(t), X, t, q)
  BY PickedStepwise
<1>4. \A k \in 0..Len(t) : a[k] = b[k]
  <2>1. a[0] = b[0]
    BY <1>2, <1>3 DEF Picks
  <2>2. ASSUME NEW k \in 1..Len(t), a[k - 1] = b[k - 1] PROVE a[k] = b[k]
    <3>1. a[k] = Pick(a[k - 1], t, k, p) /\ b[k] = Pick(b[k - 1], t, k, q)
      BY <1>2, <1>3 DEF Picks
    <3>2. k \in p <=> k \in q
      BY <1>1
    <3> QED BY <2>2, <3>1, <3>2 DEF Pick
  <2> DEFINE T == {k \in 0..Len(t) : a[k] = b[k]}
  <2>3. 0 \in T
    BY <1>1, <2>1
  <2>4. ASSUME NEW k \in 1..Len(t), k - 1 \in T PROVE k \in T
    <3>1. k \in 0..Len(t) /\ a[k - 1] = b[k - 1]
      BY <1>1, <2>4
    <3> QED BY <2>2, <3>1
  <2> HIDE DEF T
  <2>5. 0..Len(t) \subseteq T
    BY <1>1, <2>3, <2>4, BoundedInduction
  <2> QED BY <2>5 DEF T
<1>5. Picked(t, p) = a[Len(t)] /\ Picked(t, q) = b[Len(t)]
  BY <1>2, <1>3 DEF Picks
<1> QED BY <1>1, <1>4, <1>5

\* One more token is one more word, if it is none that separates clauses.
LEMMA WordingAppend ==
    ASSUME NEW X, NEW t \in Seq(X), NEW token \in X
    PROVE  Wording(Append(t, token)) = IF token.sort \in Breaks THEN Wording(t) ELSE Append(Wording(t), token)
<1> DEFINE u == Append(t, token)
           n == Len(t)
           p == {i \in DOMAIN t : t[i].sort \notin Breaks}
           q == {i \in DOMAIN u : u[i].sort \notin Breaks}
<1>1. /\ n \in Nat /\ u \in Seq(X) /\ Len(u) = n + 1 /\ u[n + 1] = token
      /\ \A k \in 1..n : u[k] = t[k]
      /\ DOMAIN t = 1..n /\ DOMAIN u = 1..(n + 1)
  OBVIOUS
<1>2. \A k \in 1..n : k \in p <=> k \in q
  BY <1>1
<1>3. n + 1 \in q <=> token.sort \notin Breaks
  BY <1>1
<1>4. Wording(t) = Picked(t, p) /\ Wording(u) = Picked(u, q)
  BY DEF Wording
<1> HIDE DEF u, p, q
<1>5. PICK a : Picks(a, n, X, t, p)
  BY PickedStepwise
<1>6. PICK b : Picks(b, Len(u), X, u, q)
  BY <1>1, PickedStepwise
<1> HIDE DEF n
<1>7. \A k \in 0..n : a[k] = b[k]
  <2>1. a[0] = b[0]
    BY <1>5, <1>6 DEF Picks
  <2>2. ASSUME NEW k \in 1..n, a[k - 1] = b[k - 1] PROVE a[k] = b[k]
    <3>1. k \in 1..Len(u)
      BY <1>1
    <3>2. a[k] = Pick(a[k - 1], t, k, p) /\ b[k] = Pick(b[k - 1], u, k, q)
      BY <1>5, <1>6, <3>1 DEF Picks
    <3>3. t[k] = u[k] /\ (k \in p <=> k \in q)
      BY <1>1, <1>2
    <3> QED BY <2>2, <3>2, <3>3 DEF Pick
  <2> DEFINE T == {k \in 0..n : a[k] = b[k]}
  <2>3. 0 \in T
    BY <1>1, <2>1
  <2>4. ASSUME NEW k \in 1..n, k - 1 \in T PROVE k \in T
    <3>1. k \in 0..n /\ a[k - 1] = b[k - 1]
      BY <1>1, <2>4
    <3> QED BY <2>2, <3>1
  <2> HIDE DEF T
  <2>5. 0..n \subseteq T
    BY <1>1, <2>3, <2>4, BoundedInduction
  <2> QED BY <2>5 DEF T
<1>8. b[n + 1] = Pick(b[n], u, n + 1, q)
  <2>1. n + 1 \in 1..Len(u) /\ (n + 1) - 1 = n
    BY <1>1
  <2> QED BY <1>6, <2>1 DEF Picks
<1>9. Wording(t) = b[n] /\ Wording(u) = b[n + 1]
  <2>1. n \in 0..n
    BY <1>1
  <2> QED BY <1>1, <1>4, <1>5, <1>6, <1>7, <2>1 DEF Picks
<1>10. Wording(u) = IF token.sort \in Breaks THEN Wording(t) ELSE Append(Wording(t), token)
  BY <1>1, <1>3, <1>8, <1>9 DEF Pick
<1> QED BY <1>10 DEF u

\* The words of what is picked are the words picked.
LEMMA WordingOfPicked ==
    ASSUME NEW X, NEW t \in Seq(X), NEW places, NEW rest,
           \A i \in DOMAIN t : i \in rest <=> i \in places /\ t[i].sort \notin Breaks
    PROVE  Wording(Picked(t, places)) = Picked(t, rest)
<1> DEFINE n == Len(t)
<1>1. n \in Nat /\ DOMAIN t = 1..n /\ \A i \in 1..n : t[i] \in X
  OBVIOUS
<1>2. PICK a : Picks(a, n, X, t, places)
  BY PickedStepwise
<1>3. PICK b : Picks(b, n, X, t, rest)
  BY PickedStepwise
<1> HIDE DEF n
<1> DEFINE T == {k \in 0..n : Wording(a[k]) = b[k]}
<1>4. 0 \in T
  <2>1. a[0] = <<>> /\ b[0] = <<>> /\ 0 \in 0..n
    BY <1>1, <1>2, <1>3 DEF Picks
  <2>2. Wording(<<>>) = <<>>
    <3> DEFINE none == {i \in DOMAIN <<>> : <<>>[i].sort \notin Breaks}
    <3>1. <<>> \in Seq(X) /\ Len(<<>>) = 0
      OBVIOUS
    <3>2. PICK c : Picks(c, Len(<<>>), X, <<>>, none)
      BY <3>1, PickedStepwise
    <3>3. Wording(<<>>) = Picked(<<>>, none)
      BY DEF Wording
    <3> HIDE DEF none
    <3> QED BY <3>1, <3>2, <3>3 DEF Picks
  <2> QED BY <2>1, <2>2
<1>5. ASSUME NEW k \in 1..n, k - 1 \in T PROVE k \in T
  <2>1. /\ k \in 0..n /\ k - 1 \in 0..n /\ a[k - 1] \in Seq(X) /\ t[k] \in X
        /\ a[k] = Pick(a[k - 1], t, k, places) /\ b[k] = Pick(b[k - 1], t, k, rest)
    <3>1. k \in 0..n /\ k - 1 \in 0..n /\ t[k] \in X
      BY <1>1
    <3>2. a[k - 1] \in Seq(X)
      BY <1>2, <3>1 DEF Picks
    <3>3. a[k] = Pick(a[k - 1], t, k, places)
      BY <1>2 DEF Picks
    <3>4. b[k] = Pick(b[k - 1], t, k, rest)
      BY <1>3 DEF Picks
    <3> QED BY <3>1, <3>2, <3>3, <3>4
  <2>2. Wording(a[k - 1]) = b[k - 1]
    BY <1>5
  <2>3. k \in rest <=> k \in places /\ t[k].sort \notin Breaks
    BY <1>1
  <2>4. Wording(Append(a[k - 1], t[k])) =
            IF t[k].sort \in Breaks THEN Wording(a[k - 1]) ELSE Append(Wording(a[k - 1]), t[k])
    BY <2>1, WordingAppend
  <2>5. Wording(a[k]) = b[k]
    BY <2>1, <2>2, <2>3, <2>4 DEF Pick
  <2> QED BY <2>1, <2>5
<1> HIDE DEF T
<1>6. 0..n \subseteq T
  BY <1>1, <1>4, <1>5, BoundedInduction
<1>7. n \in T
  BY <1>1, <1>6
<1> QED BY <1>2, <1>3, <1>7 DEF T, Picks, n

\* A repaired text has the words of the clauses nothing is wrong with.
LEMMA RepairedWording ==
    ASSUME NEW X, Stop \in X, NEW t \in Seq(X), NEW bad
    PROVE  LET hit == {Clause(t, i) : i \in bad}
           IN  Wording(RepairProse(t, bad)) =
                    Picked(t, {i \in DOMAIN t : Clause(t, i) \notin hit /\ t[i].sort \notin Breaks})
<1> DEFINE hit == {Clause(t, i) : i \in bad}
           rest == {i \in DOMAIN t : Clause(t, i) \notin hit /\ t[i].sort \notin Breaks}
           places == {i \in DOMAIN t : t[i].sort # "link" /\ Clause(t, i) \notin hit}
           left == Picked(t, places)
<1>1. CASE bad = {}
  <2>1. RepairProse(t, bad) = t
    BY <1>1 DEF RepairProse
  <2>2. \A k \in DOMAIN t : k \in {i \in DOMAIN t : t[i].sort \notin Breaks} <=> k \in rest
    BY <1>1
  <2> HIDE DEF rest
  <2> QED BY <2>1, <2>2, PickedSame DEF Wording, rest
<1>2. CASE bad # {}
  <2>1. RepairProse(t, bad) = Ended(left)
    BY <1>2 DEF RepairProse
  <2>2. left \in Seq(X)
    BY PickedFrom
  <2>3. \A i \in DOMAIN t : i \in rest <=> i \in places /\ t[i].sort \notin Breaks
    BY DEF Breaks
  <2> HIDE DEF rest, places
  <2>4. Wording(left) = Picked(t, rest)
    BY <2>3, WordingOfPicked
  <2>5. Wording(Append(left, Stop)) = Wording(left)
    <3>1. Stop.sort \in Breaks
      BY DEF Stop, Breaks
    <3> HIDE DEF left
    <3> QED BY <2>2, <3>1, WordingAppend
  <2>6. Ended(left) = left \/ Ended(left) = Append(left, Stop)
    BY DEF Ended
  <2>7. Wording(Ended(left)) = Picked(t, rest)
    BY <2>4, <2>5, <2>6
  <2> QED BY <2>1, <2>7 DEF rest
<1> QED BY <1>1, <1>2

\* The text of a new kit is the repaired draft.
LEMMA GeneratedText ==
    ASSUME NEW original, Generate(original), ~row'.resume.fatal
    PROVE  row'.resume.text = Repair(granularity, draft, Unsupported(draft))
<1> DEFINE o == Ground(granularity, draft)
           a == Artifact(o)
           l == Ledger(original, o.clean)
           resume == With(a, l)
<1>1. row'.resume = WriteDocument(resume)
  BY GeneratedRow
<1>2. o.fatal \in BOOLEAN /\ o.clean = Repair(granularity, draft, Unsupported(draft))
  BY DEF Ground
<1>3. \/ o.fatal = TRUE /\ DOMAIN a = Validated /\ a.fatal = TRUE
      \/ o.fatal = FALSE /\ DOMAIN a = Validated \cup {"document"} /\ a.text = o.clean /\ a.fatal = FALSE
  BY <1>2, ArtifactRefused, ArtifactPassed
<1> HIDE DEF o, a, l
<1>4. /\ DOMAIN resume = DOMAIN a \cup DOMAIN l
      /\ \A key \in DOMAIN a : resume[key] = a[key]
  BY WithFields
<1> HIDE DEF resume
<1>5. /\ DOMAIN Fields(resume, Written) = Written \cap DOMAIN resume
      /\ \A key \in Written \cap DOMAIN resume : Fields(resume, Written)[key] = resume[key]
  BY FieldsKept
<1>6. row'.resume = Fields(resume, Written)
  BY <1>1 DEF WriteDocument, Written
<1>7. row'.resume.fatal = a.fatal /\ row'.resume.text = a.text
  BY <1>3, <1>4, <1>5, <1>6 DEF Validated, Written
<1> QED BY <1>2, <1>3, <1>7

\* Repair costs the clauses that carry an unsupported claim and no other: in a
\* new kit every other clause is there, whole and in order.
THEOREM RepairSparesTheRest == Spec => TruthIsKept
<1> DEFINE Spared ==
        row = NoResult /\ row' # NoResult /\ granularity = "prose" /\ ~row'.resume.fatal =>
            LET hit == {Clause(draft, i) : i \in Unsupported(draft)}
                rest == {i \in DOMAIN draft : Clause(draft, i) \notin hit /\ draft[i].sort \notin Breaks}
            IN  Wording(row'.resume.text) = Picked(draft, rest)
<1>1. ASSUME Drafted, [Next]_vars PROVE [Spared]_vars
  <2>1. CASE Write
    BY <2>1 DEF Write
  <2>2. ASSUME NEW original \in Originals, Generate(original) PROVE Spared
    <3> SUFFICES ASSUME granularity = "prose", ~row'.resume.fatal
                 PROVE  LET hit == {Clause(draft, i) : i \in Unsupported(draft)}
                            rest == {i \in DOMAIN draft : Clause(draft, i) \notin hit /\ draft[i].sort \notin Breaks}
                        IN  Wording(row'.resume.text) = Picked(draft, rest)
      OBVIOUS
    <3>1. row'.resume.text = RepairProse(draft, Unsupported(draft))
      BY <2>2, GeneratedText DEF Repair
    <3>2. draft \in Seq(alphabet \cup {Stop})
      BY <1>1 DEF Drafted
    <3> QED BY <3>1, <3>2, RepairedWording
  <2>3. ASSUME NEW kind \in Primary, NEW status \in Dispositions, NEW typed \in BOOLEAN, Edit(kind, status, typed) PROVE Spared
    BY <2>3 DEF Edit, NoResult
  <2>4. CASE UNCHANGED vars
    BY <2>4
  <2> QED BY <1>1, <2>1, <2>2, <2>3, <2>4 DEF Next
<1> QED BY <1>1, InitDrafted, NextDrafted, PTL DEF Spec, TruthIsKept
=============================================================================
