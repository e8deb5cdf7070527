--------------------------- MODULE EvidenceLadder ---------------------------
(***************************************************************************)
(* How far a resume supports what a posting demands: the rungs of the      *)
(* resolver of typed requirements (evidence/resolver.py), those of the     *)
(* older ladder for plain keywords (evidence/matrix.py, transfer.py), and  *)
(* the coverage, gaps and category of fit computed from them.              *)
(*                                                                         *)
(* A resume is a set of facts, numbered in the order they are written.  A  *)
(* fact affirms some words and names others only in a clause that denies   *)
(* or hopes ("no Kubernetes", "learning Rust").  A listed skill that is one *)
(* word or phrase is that entry as a whole: "Azure Functions" is the entry *)
(* azure_functions, and affirms azure as well.                             *)
(***************************************************************************)
EXTENDS Integers, FiniteSets, FiniteSetsExt, Sequences, SequencesExt

CONSTANTS
    Facts,       \* fact -> [place, entry, affirms, denies]
    Knowledge    \* term -> [tools, signals, specific, reporting, parts]

FactPlaces == {"bullet", "summary", "skill", "certificate"}

\* tools: the category of tools the term belongs to, in the order of the table;
\* signals: other wording that shows the capability; specific: a named tool,
\* which nothing but itself shows; reporting: the category is bi_analytics;
\* parts: words inside a term ("react" in "react native").  Whoever says an entry
\* or a term says the words inside it.
ASSUME LadderAssumption ==
    /\ DOMAIN Facts \subseteq Nat
    /\ \A f \in DOMAIN Facts :
          /\ Facts[f].place \in FactPlaces
          /\ Facts[f].entry \subseteq Facts[f].affirms
          /\ \A g \in DOMAIN Facts :
                Facts[g].entry \cap Facts[f].affirms # {} => Facts[g].affirms \subseteq Facts[f].affirms
          /\ \A t \in DOMAIN Knowledge \cap Facts[f].affirms : Knowledge[t].parts \subseteq Facts[f].affirms
    /\ \A t \in DOMAIN Knowledge :
          /\ DOMAIN Knowledge[t].tools \subseteq Nat
          /\ {Knowledge[t].specific, Knowledge[t].reporting} \subseteq BOOLEAN

-----------------------------------------------------------------------------
(* What a resume says *)

In(resume, places) == {f \in resume : Facts[f].place \in places}
Bullets(resume) == In(resume, {"bullet"})
Skills(resume) == In(resume, {"skill"})

\* Mutated form of Affirming: a mention is taken for evidence.
Mentioning(facts, word) == {f \in facts : word \in Facts[f].affirms \cup Facts[f].denies}

\* term_in_text_affirmative
Affirming(facts, word) == {f \in facts : word \in Facts[f].affirms}

FirstOf(facts) == IF facts = {} THEN {} ELSE {CHOOSE f \in facts : \A g \in facts : f <= g}

\* _tier_skills: a listed skill is shown by a bullet, else said in the summary,
\* else only listed; it is looked for as a whole.
Said(f, facts) == \E w \in Facts[f].entry : Affirming(facts, w) # {}
TierA(resume) == {f \in Skills(resume) : Said(f, Bullets(resume))}
TierB(resume) == {f \in Skills(resume) \ TierA(resume) : Said(f, In(resume, {"summary"}))}
TierC(resume) == Skills(resume) \ (TierA(resume) \cup TierB(resume))

\* Listed skills that are a word as a whole.
Entries(facts, word) == {f \in facts : word \in Facts[f].entry}

\* find_category; the rules of a transfer; FORBIDDEN_SPECIFICS: a term may be in
\* none of the tables.
Known(t) == IF t \in DOMAIN Knowledge THEN Knowledge[t]
            ELSE [tools |-> <<>>, signals |-> {}, specific |-> FALSE, reporting |-> FALSE, parts |-> {}]
ToolsOf(t) == Known(t).tools
SignalsOf(t) == Known(t).signals
Specific(t) == Known(t).specific
PartsOf(t) == Known(t).parts

-----------------------------------------------------------------------------
(* Rungs of a typed requirement *)

SourceSystems == {"salesforce", "sql_server", "csv"}

\* Words that together, in one bullet, stand for a requirement.
Bridges == [version_control |-> {"git"},
            data_ingestion |-> {"ingest"},
            dashboards |-> {"dashboards", "tableau", "built"}]

\* _etl_evidence
EtlEvidence(resume) ==
    IF Affirming(Bullets(resume), "etl") # {} THEN FirstOf(Affirming(Bullets(resume), "etl"))
    ELSE FirstOf(Affirming(Skills(resume), "etl"))

\* _bridge_from_experience
BridgedBullet(t, resume) ==
    IF t = "data_pipelines"
    THEN LET sourced == FirstOf({f \in Bullets(resume) :
                                    /\ Cardinality(Facts[f].affirms \cap SourceSystems) >= 2
                                    /\ "pipeline" \in Facts[f].affirms})
         IN  IF sourced = {} \/ EtlEvidence(resume) = {} THEN {} ELSE EtlEvidence(resume) \cup sourced
    ELSE IF t \in DOMAIN Bridges
    THEN FirstOf({f \in Bullets(resume) : Bridges[t] \subseteq Facts[f].affirms})
    ELSE {}

\* A bullet with the term itself; a dashboard has to have been built.
DirectBullet(t, resume) ==
    FirstOf({f \in Affirming(Bullets(resume), t) : t = "dashboards" => "built" \in Facts[f].affirms})

InSummary(t, resume) == FirstOf(Affirming(TierB(resume), t))

\* _bridge_from_skills
BridgedSkill(t, resume) ==
    IF t = "version_control" THEN FirstOf(Affirming(Skills(resume), "git")) ELSE {}

InSkills(t, resume) == FirstOf(Affirming(Skills(resume), t))

\* The certificates that imply a term.
Implying(resume, t) == Affirming(In(resume, {"certificate"}), t)

\* What a certificate implies, and the two concepts its service contains.
Certified(t, resume) ==
    LET child == t \in {"workspaces", "refresh_cycles"} /\ Known(t).reporting
        inherited == IF child THEN Implying(resume, "power_bi_service") ELSE {}
    IN  IF inherited # {} THEN FirstOf(inherited) ELSE FirstOf(Implying(resume, t))

\* Mutated form of Adjacent: only tools no bullet shows yet are looked up.
AdjacentListedOnly(t, resume) ==
    FirstOf(UNION {Entries(TierC(resume), tool) : tool \in ToSet(ToolsOf(t))})

\* The first tool of the category, but for some, that is listed here or that a
\* bullet affirms.
FirstTool(t, without, listed, resume) ==
    LET shown(tool) == IF Entries(listed, tool) # {} THEN Entries(listed, tool)
                       ELSE Affirming(Bullets(resume), tool)
        known == {i \in DOMAIN ToolsOf(t) : ToolsOf(t)[i] \notin without /\ shown(ToolsOf(t)[i]) # {}}
    IN  IF known = {} THEN {} ELSE FirstOf(shown(ToolsOf(t)[Min(known)]))

\* _adjacent_evidence: the term is a tool of its own category.
Adjacent(t, resume) == FirstTool(t, {}, Skills(resume), resume)

\* The first rung with evidence, and that evidence.
Standing(ladder) ==
    LET held == {i \in DOMAIN ladder : ladder[i].shown # {}}
    IN  IF held = {} THEN [rung |-> "missing", shown |-> {}] ELSE ladder[Min(held)]

Rung(name, shown) == [rung |-> name, shown |-> shown]

\* _resolve_one
Resolve(t, resume) ==
    Standing(<<Rung("A", BridgedBullet(t, resume)),
               Rung("A", DirectBullet(t, resume)),
               Rung("B", InSummary(t, resume)),
               Rung("C", BridgedSkill(t, resume)),
               Rung("C", InSkills(t, resume)),
               Rung("cert", Certified(t, resume)),
               Rung("adjacency", Adjacent(t, resume))>>)

-----------------------------------------------------------------------------
(* Rungs of a plain keyword, for a posting without typed requirements *)

\* _term_matches: the skill is the keyword, contains it, or is contained in it.
Matching(listed, t) == {f \in listed : t \in Facts[f].affirms \/ Facts[f].entry \cap PartsOf(t) # {}}

\* _adjacency_lookup: another tool of the category, used and not only listed.
OtherTool(t, resume) ==
    FirstTool(t, {t}, TierA(resume) \cup TierB(resume), resume)

\* transfer_match: a signal that a bullet affirms, or that the skills section
\* names in whatever clause.
Transferred(t, resume) ==
    IF Specific(t) THEN {}
    ELSE LET signalled(facts) == {f \in facts : Facts[f].affirms \cap SignalsOf(t) # {}}
             named == {f \in Skills(resume) : Facts[f].denies \cap SignalsOf(t) # {}}
         IN  FirstOf(signalled(Bullets(resume) \cup Skills(resume)) \cup named)

\* classify_keyword
Classify(t, resume) ==
    Standing(<<Rung("A", FirstOf(Matching(TierA(resume), t))),
               Rung("B", FirstOf(Matching(TierB(resume), t))),
               Rung("A", FirstOf(Affirming(Bullets(resume), t))),
               Rung("adjacency", OtherTool(t, resume)),
               Rung("adjacency", Transferred(t, resume)),
               Rung("C", FirstOf(Entries(TierC(resume), t)))>>)

-----------------------------------------------------------------------------
(* What follows from the rungs *)

\* A demand is a term that is required or preferred, typed or a plain keyword.
Linked(demand, resume) ==
    IF demand.typed THEN Resolve(demand.term, resume) ELSE Classify(demand.term, resume)

\* The matrix knows no certificates: they count as listed.
Projected(rung) == IF rung = "cert" THEN "C" ELSE rung

Credit == [A |-> 100, B |-> 80, adjacency |-> 55, C |-> 35, missing |-> 0]

\* requirement_coverage_score
Coverage(demands, links) ==
    LET weight(d) == IF d.required THEN 2 ELSE 1
        earned(d) == weight(d) * Credit[Projected(links[d].rung)]
    IN  IF demands = {} THEN 0 ELSE MapThenSumSet(earned, demands) \div MapThenSumSet(weight, demands)

MustHaveGaps(demands, links) == {d \in demands : d.required /\ links[d].rung = "missing"}

\* fit_category
FitCategory(alignment, gaps) ==
    IF alignment >= 85 /\ gaps = 0 THEN "strong_fit"
    ELSE IF alignment >= 70 /\ gaps <= 1 THEN "good_fit"
    ELSE IF gaps >= 2 THEN "stretch_role"
    ELSE IF alignment >= 50 THEN "partial_fit"
    ELSE IF alignment >= 35 THEN "stretch_role"
    ELSE "low_alignment"

\* interview_probability
InterviewChance(demands, links) ==
    LET preferred == {d \in demands : ~d.required}
        wanted == IF preferred = demands THEN demands ELSE demands \ preferred
        on(set, rung) == {d \in set : Projected(links[d].rung) = rung}
    IN  IF Cardinality(on(wanted, "missing")) >= 2 THEN 52
        ELSE IF on(wanted, "missing") \cup on(wanted, "C") # {} THEN 68
        ELSE IF on(wanted, "adjacency") # {} \/ on(preferred, "missing") # {} THEN 82
        ELSE 91
=============================================================================
