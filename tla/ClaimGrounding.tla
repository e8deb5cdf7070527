--------------------------- MODULE ClaimGrounding ---------------------------
(***************************************************************************)
(* The truth gate for generated prose (kit/grounding.py): which claims of  *)
(* a text the candidate's evidence supports, what is cut out when it does  *)
(* not, and when the text is withheld.  Pure.                              *)
(*                                                                         *)
(* A text is a sequence of tokens.  A token has a sort, the extractor that *)
(* matches it, and a value, its normalized text; tokens of the sorts stop  *)
(* and link separate clauses.  Distances are counted in tokens.            *)
(***************************************************************************)
EXTENDS Integers, FiniteSets, SequencesExt

CONSTANTS
    Evidence,      \* the candidate's evidence (EvidenceContext)
    Within,        \* pairs of a value and a longer one that contains it
    Reach          \* how far the words about a career are looked for

-----------------------------------------------------------------------------
(* Claims *)

Numeric == {"metric", "money", "team", "tenure"}
Claimed == Numeric \cup {"employer", "title", "rank", "skill", "certification", "degree",
                         "management", "client", "credential"}
Breaks == {"stop", "link"}
Sorts == Claimed \cup Breaks \cup {"word", "history", "self"}

Stop == [sort |-> "stop", value |-> "."]

\* value occurs in other, as a part of it or as all of it.
Inside(value, other) == value = other \/ <<value, other>> \in Within
InsideAny(value, values) == \E other \in values : Inside(value, other)

\* _candidate_history_near: a word about a career within reach.  A management
\* claim starts with one; "I am" counts where titles are concerned.
HistoryNear(t, i, sorts) ==
    \E j \in DOMAIN t : j # i /\ j >= i - Reach /\ j <= i + Reach /\ t[j].sort \in sorts
CareerWords == {"history", "management"}
EmployedNear(t, i) == HistoryNear(t, i, CareerWords)
TitledNear(t, i) == HistoryNear(t, i, CareerWords \cup {"self"})

\* _extract_employers: a capitalized name is a claim if it is known, looks like an
\* organization, or the talk is of a career.
NamesEmployer(t, i) == t[i].value \in Evidence.organizations \/ EmployedNear(t, i)

\* _extract_titles: a rank such as director is one right after "I am" or "as".
NamesRank(t, i) == i > 1 /\ t[i - 1].sort = "self"

IsClaim(t, i) ==
    /\ t[i].sort \in Claimed
    /\ t[i].sort = "employer" => NamesEmployer(t, i)
    /\ t[i].sort = "rank" => NamesRank(t, i)

\* _extract_metrics: a figure is looked for in the evidence as a piece of text.
MetricAllowed(value) == InsideAny(value, Evidence.metrics)

\* _org_allowed: the target company may be named, but not as a part of the career.
OrgAllowed(org, history) ==
    \/ org \in Evidence.terms
    \/ \E allowed \in Evidence.employers : Inside(org, allowed) \/ Inside(allowed, org)
    \/ ~history /\ (Inside(org, Evidence.target) \/ Inside(Evidence.target, org))

\* _title_claim; the value of a title is its head.
TitleAllowed(head, history) ==
    \/ head \in Evidence.titles \cup Evidence.terms
    \/ ~history /\ head \in Evidence.targetTitles

\* _extract_tenure: up to the length of the career, rounded up.
TenureAllowed(value) ==
    LET years == Evidence.years[value]
    IN  years > 0 /\ (MetricAllowed(value)
                        \/ (Evidence.career > 0 /\ years <= Evidence.career + 1))

\* _extract_skills
SkillAllowed(value) == value \in Evidence.skills \cup Evidence.terms

\* _extract_degrees
DegreeAllowed(value) ==
    value \in Evidence.terms \/ Evidence.level[value] \in 1..Evidence.degree

\* What vouches for a token, in talk of a career as an employee or of a title.
Vouched(token, employed, titled) ==
    LET value == token.value
    IN  CASE token.sort \in {"metric", "money", "team"} -> MetricAllowed(value)
          [] token.sort = "tenure" -> TenureAllowed(value)
          [] token.sort = "employer" -> OrgAllowed(value, employed)
          [] token.sort \in {"title", "rank"} -> TitleAllowed(value, titled)
          [] token.sort = "skill" -> SkillAllowed(value)
          [] token.sort = "degree" -> DegreeAllowed(value)
          [] token.sort \in {"certification", "management", "client", "credential"} ->
                value \in Evidence.terms

Supported(t, i) == Vouched(t[i], EmployedNear(t, i), TitledNear(t, i))

\* _extract_claims: where the claims are that nothing supports.
Unsupported(t) == {i \in DOMAIN t : IsClaim(t, i) /\ ~Supported(t, i)}

-----------------------------------------------------------------------------
(* Repair *)

Picked(t, places) ==
    FoldLeftDomain(LAMBDA kept, i : IF i \in places THEN Append(kept, t[i]) ELSE kept, <<>>, t)

\* _segment_spans: the clause a token belongs to.  What links two clauses opens
\* the second; a stop closes its own.
Clause(t, i) ==
    Cardinality({j \in DOMAIN t : \/ t[j].sort = "link" /\ j <= i
                                  \/ t[j].sort = "stop" /\ j < i})

\* The result of a repair ends like a sentence.
Ended(t) == IF t # <<>> /\ Last(t).sort # "stop" THEN Append(t, Stop) ELSE t

\* Mutated form of RepairProse: the clause after an unsupported one goes with it.
RepairProseGreedy(t, bad) ==
    LET hit == {Clause(t, i) : i \in bad}
    IN  Ended(Picked(t, {i \in DOMAIN t : /\ t[i].sort # "link" /\ Clause(t, i) \notin hit
                                          /\ Clause(t, i) - 1 \notin hit}))

\* _repair_prose: the clauses with an unsupported claim go, what linked them too.
RepairProse(t, bad) ==
    LET hit == {Clause(t, i) : i \in bad}
    IN  IF bad = {} THEN t
        ELSE Ended(Picked(t, {i \in DOMAIN t : t[i].sort # "link" /\ Clause(t, i) \notin hit}))

\* _repair_spans: the claims themselves go.
RepairSpans(t, bad) == Picked(t, DOMAIN t \ bad)

Repair(granularity, t, bad) ==
    IF granularity = "span" THEN RepairSpans(t, bad) ELSE RepairProse(t, bad)

\* _still_present: the text of a claim, wherever it is left.
StillPresent(claim, t) == \E i \in DOMAIN t : Inside(claim.value, t[i].value)

\* Mutated form of Ground: what the repair left is not looked at again.
GroundUnchecked(granularity, t) ==
    LET bad == Unsupported(t)
        clean == Repair(granularity, t, bad)
    IN  [clean |-> clean, fatal |-> clean = <<>>, repaired |-> Cardinality(bad), rejected |-> 0]

\* ground_text: one repair, of clauses ("prose") or of the claims themselves
\* ("span"), then a look at what it left.
Ground(granularity, t) ==
    LET bad == Unsupported(t)
        clean == Repair(granularity, t, bad)
        rejected == {i \in bad : StillPresent(t[i], clean)}
    IN  [clean |-> clean, fatal |-> rejected # {},
         repaired |-> Cardinality(bad \ rejected), rejected |-> Cardinality(rejected)]
=============================================================================
