--------------------------- MODULE TailoredDocument ---------------------------
(* A resume as the optimizer sees it: what a plan states, what the placement *)
(* actions change in it, how PRAMANA scores it and which gates it must pass. *)
(* Pure: every operator takes the case cv (the candidate, the posting and    *)
(* the proposals of one run) and a plan.                                     *)
(*                                                                           *)
(* The requirements are 1..Terms, by falling weight.  A text is what it       *)
(* states: pairs of a requirement and a spelling, the employer's surface "jd" *)
(* (which is also the canonical form) or the candidate's own registered      *)
(* alias.  A bullet and a title are sets of such mentions, the summary, the   *)
(* skills and the headline's tail are sequences.                             *)
(* Scores are integers: every float of the code is scaled, never rounded.    *)
EXTENDS Integers, FiniteSets, Sequences, FiniteSetsExt, SequencesExt, Functions

CONSTANTS
    Terms,          \* number of requirements
    Slots,          \* bullets of the uploaded resume, as <<role, bullet>>
    BaseWords,      \* words of a resume outside its bullets and placements
    BulletWords,    \* words of a bullet
    OlderRoleFrom,  \* OLDER_ROLE_FROM: first role whose redundant bullets may go
    RecentFloor,    \* MIN_BULLETS_MOST_RECENT_ROLE
    OlderFloor      \* MIN_BULLETS_OLDER_ROLE

ASSUME DocumentAssumption ==
    /\ Terms \in Nat \ {0} /\ BaseWords \in Nat \ {0} /\ BulletWords \in Nat \ {0} /\ OlderRoleFrom \in Nat
    /\ RecentFloor \in Nat \ {0} /\ OlderFloor \in Nat \ {0}
    /\ Slots \subseteq (Nat \ {0}) \X (Nat \ {0}) /\ IsFiniteSet(Slots)

Term == 1..Terms
Spellings == {"jd", "own"}

\* Where a term can be placed or evidenced; roles and bullets count from 1.
Headline == <<0, 1>>
Summary == <<0, 2>>
Skills == <<0, 3>>
Certificate == <<0, 4>>
Locations == Slots \cup {Headline, Summary, Skills, Certificate}

\* id: the wording; says: its mentions; fact: it states a metric, a team size,
\* a credential or a fact of the fact set; names: the entities it names.
Blank == [id |-> 0, says |-> {}, fact |-> FALSE, names |-> {}]

Tiers == {"A", "B", "C", "cert", "adjacency", "missing"}
Grounded == {"A", "B", "C", "cert"}
Weight(t) == Terms + 1 - t

Operations == {"mention_summary", "append_skill", "headline_mention",
               "weave_bullet", "surface_variant"}
Labels == [op : Operations \cup {"quality", "ai", "prune", "skill_reorder"},
           term : 0..Terms, at : Locations]
Placements == [op : Operations, term : Term, at : Locations]
PlanFields == {"headline", "summary", "cited", "skills", "bullets", "removed", "changes"}
Label(op, t, at) == [op |-> op, term |-> t, at |-> at]

(***************************************************************************)
(* What a plan states                                                      *)
(***************************************************************************)
Live(plan) == {s \in Slots : plan.bullets[s] # Blank}

\* The b-th bullet the renderer emits for a role: emptied slots are skipped,
\* so after a removal an address names another bullet than it did.
Rendered(plan, at) ==
    {s \in Live(plan) : s[1] = at[1] /\
        Cardinality({u \in Live(plan) : u[1] = s[1] /\ u[2] <= s[2]}) = at[2]}

CountIn(items, t, sp) == Cardinality({i \in DOMAIN items : items[i] = <<t, sp>>})

Title(cv, plan) == IF plan.headline.role = "identity" THEN cv.identity ELSE cv.ownTitle

HeadlineCount(cv, plan, t, sp) ==
    (IF <<t, sp>> \in Title(cv, plan).says THEN 1 ELSE 0) + CountIn(plan.headline.tail, t, sp)

Bulleted(plan, t, sp) == {s \in Slots : <<t, sp>> \in plan.bullets[s].says}

\* Mentions in the delivered document of one spelling of a requirement.
Count(cv, plan, t, sp) ==
    HeadlineCount(cv, plan, t, sp) + CountIn(plan.summary, t, sp)
        + CountIn(plan.skills, t, sp) + Cardinality(Bulleted(plan, t, sp))

\* _requirement_frequency: the canonical spelling if there is one at all, an
\* alias otherwise; never both.
Either(jd, own) == IF jd > 0 THEN jd ELSE own
Frequency(cv, plan, t) == Either(Count(cv, plan, t, "jd"), Count(cv, plan, t, "own"))

\* _canonical_occurrence_counts: every registered spelling, merged.
Mentions(cv, plan, t) == Count(cv, plan, t, "jd") + Count(cv, plan, t, "own")

WordCount(cv, plan) ==
    BaseWords + BulletWords * Cardinality(Live(plan)) + Len(plan.summary) + Len(plan.skills)
        + Title(cv, plan).words + Len(plan.headline.tail)

\* The untailored source also holds lines the parser made nothing of.
RawMentions(cv, t) == Mentions(cv, cv.source, t) + (IF t \in cv.unparsed THEN 1 ELSE 0)
RawFrequency(cv, t) ==
    Either(Count(cv, cv.source, t, "jd") + (IF t \in cv.unparsed THEN 1 ELSE 0),
           Count(cv, cv.source, t, "own"))

\* Whether the declared region of a placement states its term.
Resolves(cv, plan, a) ==
    \E sp \in Spellings :
        CASE a.at = Headline -> HeadlineCount(cv, plan, a.term, sp) > 0
          [] a.at = Summary -> CountIn(plan.summary, a.term, sp) > 0
          [] a.at = Skills -> CountIn(plan.skills, a.term, sp) > 0
          [] OTHER -> \E s \in Rendered(plan, a.at) : <<a.term, sp>> \in plan.bullets[s].says

(***************************************************************************)
(* The planner: one action per supported requirement and place             *)
(***************************************************************************)
Supported(cv) == SelectSeq([t \in Term |-> t], LAMBDA t : cv.tier[t] \in Grounded)
FirstOf(n, s) == SubSeq(s, 1, IF Len(s) < n THEN Len(s) ELSE n)
Place(op, at, terms) == [i \in DOMAIN terms |-> Label(op, terms[i], at)]

HeadlineTerms(cv) ==
    LET eligible == SelectSeq(Supported(cv), LAMBDA t : t \in cv.titled)
        direct == FirstOf(3, SelectSeq(eligible, LAMBDA t : cv.tier[t] # "cert"))
        others == SelectSeq(eligible, LAMBDA t : t \notin ToSet(direct))
    IN  IF Len(direct) < 2 THEN FirstOf(3, direct \o others) ELSE direct

\* At most two weave_bullet actions per bullet, by falling weight.
Woven(cv) ==
    SelectSeq(Supported(cv), LAMBDA t :
        /\ cv.tier[t] = "A" /\ cv.at[t] \in Slots
        /\ Cardinality({u \in 1..(t - 1) : cv.tier[u] = "A" /\ cv.at[u] = cv.at[t]}) < 2)

Respelled(cv) == SelectSeq(Supported(cv), LAMBDA t : t \in cv.variant /\ cv.tier[t] # "cert")

PlanPlacements(cv) ==
    Place("mention_summary", Summary, FirstOf(4, Supported(cv)))
        \o Place("append_skill", Skills, FirstOf(6, Supported(cv)))
        \o Place("headline_mention", Headline, HeadlineTerms(cv))
        \o [i \in DOMAIN Woven(cv) |-> Label("weave_bullet", Woven(cv)[i], cv.at[Woven(cv)[i]])]
        \o [i \in DOMAIN Respelled(cv) |->
                Label("surface_variant", Respelled(cv)[i], cv.at[Respelled(cv)[i]])]

(***************************************************************************)
(* Applying a batch of placements                                          *)
(***************************************************************************)
At(actions, at) == SelectSeq(actions, LAMBDA a : a.at = at)
TermsAt(actions, at) == [i \in DOMAIN At(actions, at) |-> At(actions, at)[i].term]

\* Terms of tier C are planned for the summary and never added to it; those a
\* certificate supports are added only while the certificate is not named yet.
ApplySummary(cv, plan, actions) ==
    LET asked == ToSet(FirstOf(4, TermsAt(actions, Summary)))
        missing == {t \in asked : CountIn(plan.summary, t, "jd") = 0}
        certified == IF plan.cited THEN {} ELSE {t \in missing : cv.tier[t] = "cert"}
        added == {t \in missing : cv.tier[t] \in {"A", "B"}} \cup certified
    IN  [plan EXCEPT !.summary = @ \o SetToSeq({<<t, "jd">> : t \in added}),
                     !.cited = @ \/ certified # {}]

Unique(items) == FoldLeft(LAMBDA kept, x : IF x \in ToSet(kept) THEN kept ELSE Append(kept, x), <<>>, items)

\* An equivalent entry takes the employer's spelling; else the term is appended.
AddSkill(skills, t) ==
    LET same == {i \in DOMAIN skills : skills[i][1] = t}
    IN  IF same = {} THEN Append(skills, <<t, "jd">>)
        ELSE ReplaceAt(skills, Min(same), <<t, "jd">>)

\* A respelling names the entry it found, not the section: it is no addition.
ApplySkills(plan, actions) ==
    LET asked == TermsAt(SelectSeq(actions, LAMBDA a : a.op # "surface_variant"), Skills)
    IN  [plan EXCEPT !.skills = Unique(FoldLeft(AddSkill, @, FirstOf(6, asked)))]

\* Runs for every batch, whether or not an action names the headline.
ApplyHeadline(plan, actions) ==
    LET asked == TermsAt(actions, Headline)
    IN  [plan EXCEPT !.headline =
            [role |-> "identity",
             tail |-> FirstOf(3, Unique(@.tail \o [i \in DOMAIN asked |-> <<asked[i], "jd">>]))]]

Respelling(actions) == SelectSeq(actions, LAMBDA a : a.op = "surface_variant")

\* The own spelling is gone: an earlier change took it (text_drifted).
Drifted(plan, a) ==
    \A sp \in Spellings :
        CASE a.at = Summary -> CountIn(plan.summary, a.term, sp) = 0
          [] a.at = Skills -> CountIn(plan.skills, a.term, sp) = 0
          [] a.at \in Slots -> <<a.term, sp>> \notin plan.bullets[a.at].says
          [] OTHER -> FALSE

Respell(items, t) ==
    LET own == {i \in DOMAIN items : items[i] = <<t, "own">>}
    IN  IF own = {} THEN items ELSE ReplaceAt(items, Min(own), <<t, "jd">>)

\* In a bullet, every own spelling of the terms.
RespellBullet(bullet, terms) ==
    [bullet EXCEPT !.says = {<<m[1], IF m[1] \in terms THEN "jd" ELSE m[2]>> : m \in @}]

\* Substitutions that fail closed: a substring hazard, a fact at risk, a drift.
VariantFails(cv, plan, a) == Drifted(plan, a) \/ a.term \in cv.risky

Placed(cv, plan, actions) ==
    ApplyHeadline(ApplySkills(ApplySummary(cv, plan, actions), actions), actions)

\* A substitution touches the field its action names and no other.
ApplyActions(cv, plan, actions) ==
    LET placed == Placed(cv, plan, actions)
        safe == SelectSeq(Respelling(actions), LAMBDA a : ~VariantFails(cv, placed, a))
    IN  [headline |-> placed.headline, cited |-> placed.cited,
         summary |-> FoldLeft(Respell, placed.summary, TermsAt(safe, Summary)),
         skills |-> FoldLeft(Respell, placed.skills, TermsAt(safe, Skills)),
         bullets |-> [s \in Slots |-> RespellBullet(plan.bullets[s], ToSet(TermsAt(safe, s)))],
         removed |-> plan.removed, changes |-> plan.changes \cup ToSet(actions)]

VariantFailures(cv, plan, actions) ==
    {a \in ToSet(Respelling(actions)) : VariantFails(cv, Placed(cv, plan, actions), a)}

(***************************************************************************)
(* PRAMANA and the objectives                                              *)
(***************************************************************************)
Least(m, n) == IF m < n THEN m ELSE n

\* A phrase placed by an action must resolve in its declared region, any other
\* must come from the source.
ProvenanceOk(cv, plan, actions, t) ==
    LET own == {a \in ToSet(actions) : a.term = t}
    IN  IF own = {} THEN RawFrequency(cv, t) > 0 ELSE \E a \in own : Resolves(cv, plan, a)

\* Sixths of the credit of a requirement: fractional and saturating.
CreditOf(cv, t, frequency, provenance) ==
    IF provenance /\ cv.tier[t] \in Grounded
    THEN (6 * Least(frequency, cv.target[t])) \div cv.target[t] ELSE 0

SumOf(f) == LET sum[n \in 0..Terms] == IF n = 0 THEN 0 ELSE sum[n - 1] + f[n] IN sum[Terms]
FullCredit == 3 * Terms * (Terms + 1)

\* Terms credited that stand both in the skills and in a bullet.
Reinforced(plan, credited) ==
    Least(4, Cardinality({t \in credited :
        /\ \E sp \in Spellings : CountIn(plan.skills, t, sp) > 0
        /\ \E sp \in Spellings : Bulleted(plan, t, sp) # {}}))

Overused(cv, t, frequency, words) ==
    (IF frequency > 4 * cv.target[t] THEN 2 * (frequency - 4 * cv.target[t]) ELSE 0)
        + (IF 100 * frequency > 6 * words THEN 2 ELSE 0)

\* 0..100, scaled by FullCredit so that no quotient is taken.
Total(coverage, bonus, penalty) ==
    LET raw == 100 * coverage + FullCredit * (bonus - Least(10, penalty))
    IN  IF raw < 0 THEN 0 ELSE Least(raw, 100 * FullCredit)

\* One PRAMANA pass over the delivered text, with the objectives it yields.
Evaluate(cv, plan, actions) ==
    LET frequency == [t \in Term |-> Frequency(cv, plan, t)]
        credit == [t \in Term |-> CreditOf(cv, t, frequency[t], ProvenanceOk(cv, plan, actions, t))]
        credited == {t \in Term : credit[t] > 0}
        coverage == SumOf([t \in Term |-> Weight(t) * credit[t]])
        words == WordCount(cv, plan)
        literal == {t \in Term : Count(cv, plan, t, "jd") > 0}
        bonus == Reinforced(plan, credited)
        penalty == SumOf([t \in Term |-> Overused(cv, t, frequency[t], words)])
    IN  [score |-> Total(coverage, bonus, penalty), credited |-> credited, coverage |-> coverage,
         adopted |-> Cardinality(credited \cap literal),
         visible |-> Cardinality(literal), words |-> words, placement |-> bonus]

\* The raw resume, scored as nobody's tailoring.
OriginalScore(cv) ==
    LET credit == [t \in Term |-> CreditOf(cv, t, RawFrequency(cv, t), TRUE)]
        credited == {t \in Term : credit[t] > 0}
        words == WordCount(cv, cv.source) + Cardinality(cv.unparsed)
    IN  Total(SumOf([t \in Term |-> Weight(t) * credit[t]]), Reinforced(cv.source, credited),
              SumOf([t \in Term |-> Overused(cv, t, RawFrequency(cv, t), words)]))

\* m1/n1 exceeds m2/n2 by more than a part in scale.
Exceeds(m1, n1, m2, n2, scale) == scale * (m1 * n2 - m2 * n1) > n1 * n2

Adoption(v) == IF v.credited = {} THEN <<1, 1>> ELSE <<v.adopted, Cardinality(v.credited)>>
Gains(u, v) ==
    \/ 100 * (v.coverage - u.coverage) > FullCredit
    \/ Exceeds(Adoption(v)[1], Adoption(v)[2], Adoption(u)[1], Adoption(u)[2], 100)
    \/ Exceeds(v.visible, v.words, u.visible, u.words, 5000)
    \/ v.placement > u.placement

\* after is no worse than before on any objective, and better on one.
ParetoVerdict(before, after) == ~Gains(after, before) /\ Gains(before, after)

\* A removal must concentrate: density up by ratio thousandths, nothing lost.
PruneVerdict(before, after, ratio) ==
    /\ after.coverage >= before.coverage
    /\ ~Exceeds(Adoption(before)[1], Adoption(before)[2], Adoption(after)[1], Adoption(after)[2], 100)
    /\ after.placement >= before.placement
    /\ after.words < before.words
    /\ 1000 * after.visible * before.words >= (1000 + ratio) * before.visible * after.words

(***************************************************************************)
(* The gates                                                               *)
(***************************************************************************)
\* The fidelity and stuffing validators: a finding that blocks names changes
\* that are in the plan together.
Blocked(cv, plan) == \E findings \in cv.refused : findings \subseteq plan.changes

\* Mutated form of Preserves: a requirement only has to stay in the document.
PreservesPresence(cv, plan) ==
    \A t \in Term : RawMentions(cv, t) > 0 => Mentions(cv, plan, t) > 0

\* PreservationGuard: no requirement is stated less often than in the source.
Preserves(cv, plan) == \A t \in Term : Mentions(cv, plan, t) >= RawMentions(cv, t)

\* resume_completeness_errors: a ledgered removal names a source bullet that is
\* no longer rendered, nothing else went, and no skill went.
Complete(cv, plan, removed) ==
    LET rendered == {plan.bullets[s].id : s \in Live(plan)}
        source == {cv.source.bullets[s].id : s \in Slots}
    IN  /\ \A i \in DOMAIN removed : removed[i].id \in source \ rendered
        /\ Cardinality(rendered) >= Cardinality(source) - Len(removed)
        /\ Len(plan.skills) >= Len(cv.source.skills)

(***************************************************************************)
(* Pruning                                                                 *)
(***************************************************************************)
Hits(bullet) == {t \in Term : <<t, "jd">> \in bullet.says}

\* Irrelevant in any role, or redundant in an older one; roles count from 1.
Screened(cv, plan, s) ==
    /\ plan.bullets[s] # Blank
    /\ \/ Hits(plan.bullets[s]) = {}
       \/ /\ s[1] > OlderRoleFrom
          /\ \A t \in Hits(plan.bullets[s]) : Count(cv, plan, t, "jd") > 1

\* Oldest role first, then source order.
Earlier(s, u) == s[1] > u[1] \/ (s[1] = u[1] /\ s[2] < u[2])
PruneProposals(cv, plan) ==
    LET screened == {s \in Slots : Screened(cv, plan, s)}
    IN  [i \in 1..Cardinality(screened) |->
            CHOOSE s \in screened : Cardinality({u \in screened : Earlier(u, s)}) = i - 1]

\* Every place the evidence graph lists for a requirement; the graph is built
\* once from the source and never follows the removals.
EvidenceLocations(cv, t) == IF cv.tier[t] = "missing" THEN {} ELSE cv.evidence[t]

SoleEvidence(cv, credited, s) == \E t \in credited : EvidenceLocations(cv, t) = {s}

NamedElsewhere(plan, s) ==
    UNION {plan.bullets[u].names : u \in {w \in Live(plan) : w[1] = s[1] /\ w # s}}

RoleFloor(role) == IF role = 1 THEN RecentFloor ELSE OlderFloor

\* Mutated form of CheckPrune: entities are looked up in the source role.
CheckPruneInSource(cv, plan, credited, s) ==
    /\ ~SoleEvidence(cv, credited, s)
    /\ ~plan.bullets[s].fact
    /\ plan.bullets[s].names \subseteq NamedElsewhere(cv.source, s)
    /\ Cardinality({u \in Live(plan) : u[1] = s[1]}) - 1 >= RoleFloor(s[1])

CheckPrune(cv, plan, credited, s) ==
    /\ ~SoleEvidence(cv, credited, s)
    /\ ~plan.bullets[s].fact
    /\ plan.bullets[s].names \subseteq NamedElsewhere(plan, s)
    /\ Cardinality({u \in Live(plan) : u[1] = s[1]}) - 1 >= RoleFloor(s[1])

Prune(plan, s) ==
    [plan EXCEPT !.bullets[s] = Blank,
                 !.removed = Append(@, [at |-> s, id |-> plan.bullets[s].id]),
                 !.changes = @ \cup {Label("prune", 0, s)}]

(***************************************************************************)
(* Reordering of the skills, and the review record                         *)
(***************************************************************************)
\* Only the employer's spelling counts as relevance; equal items stay put.
Relevance(item) == IF item[2] = "jd" THEN Weight(item[1]) ELSE 0
Reorder(plan) ==
    LET order == SetToSortSeq(DOMAIN plan.skills, LAMBDA i, j :
                     \/ Relevance(plan.skills[i]) > Relevance(plan.skills[j])
                     \/ Relevance(plan.skills[i]) = Relevance(plan.skills[j]) /\ i < j)
        ranked == [i \in DOMAIN plan.skills |-> plan.skills[order[i]]]
    IN  IF ranked = plan.skills THEN plan
        ELSE [plan EXCEPT !.skills = ranked, !.changes = @ \cup {Label("skill_reorder", 0, Skills)}]

\* The text a reader receives.
Text(plan) == <<plan.headline, plan.summary, plan.cited, plan.skills,
                [s \in Slots |-> plan.bullets[s]]>>
==============================================================================
