------------------------------ MODULE JobMatch ------------------------------
(***************************************************************************)
(* A posting is read, parsed, possibly completed by a provider, and        *)
(* matched with a resume (parse_jd, build_evidence_matrix and the scores   *)
(* of the match report).  The posting and the resume grow line by line:    *)
(* the code parses and resolves each of them from nothing, so a step       *)
(* relates the results for two inputs that differ by one line.             *)
(***************************************************************************)
EXTENDS JobPosting, EvidenceLadder

CONSTANTS
    Openings,    \* sets of lines; a posting is made of lines of one of them
    MaxLines,    \* lines of a posting
    Answers,     \* what a provider may extract from a posting
    Resumes,     \* sets of facts; a resume is made of facts of one of them
    MaxFacts     \* facts of a resume

AnswerLists == {"required", "preferred", "responsibilities"}

\* The terms of answers and the lines of openings are known; the numbers of an
\* answer may be those of no line.
ASSUME AnswersAssumption ==
    /\ UNION Openings \subseteq DOMAIN Lines
    /\ \A answer \in Answers :
          /\ \A list \in AnswerLists : answer[list] \in Seq(Int) /\ answer.retyped[list] \in Seq(DOMAIN Lines)
          /\ answer.keywords \in Seq(DOMAIN Terms)

VARIABLES
    opening,       \* the set of lines in use
    posting,       \* the lines read
    stage,         \* "reading", "parsed", "asked" or "matching"
    requirements,  \* the typed requirements
    profile,       \* the lists of the JDProfile
    demands,       \* what the matrix has a row for
    resume,        \* the facts of the resume
    links          \* demand -> the rung it stands on, and the facts that show it

vars == <<opening, posting, stage, requirements, profile, demands, resume, links>>

-----------------------------------------------------------------------------
ViewOf(lines) == FoldLeft(ViewWith, EmptyView, lines)

EmptyProfile ==
    [title |-> 0, company |-> None, required |-> <<>>, preferred |-> <<>>,
     responsibilities |-> <<>>, keywords |-> <<>>]

Demand(t, required, typed) == [term |-> t, required |-> required, typed |-> typed]

\* Keywords that a list of lines names.
Named(keywords, lines) == Only(keywords, {t \in ToSet(keywords) : \E n \in ToSet(lines) : Names(n, t)})

\* build_evidence_matrix: typed requirements, else the keywords of the lists; a
\* keyword that no list names is required only when none is.
Matrix(reqs, jd) ==
    IF reqs # <<>>
    THEN {Demand(r.term, r.section # "preferred", TRUE) : r \in ToSet(reqs)}
    ELSE LET stated == ToSet(Named(jd.keywords, jd.required))
             preferred == ToSet(Named(jd.keywords, jd.preferred))
             duties == ToSet(Named(jd.keywords, jd.responsibilities)) \ (stated \cup preferred)
             required == IF stated \cup duties # {} THEN stated \cup duties
                         ELSE ToSet(Limited(jd.keywords, ListLimit)) \ preferred
         IN  {Demand(t, TRUE, FALSE) : t \in required}
             \cup {Demand(t, FALSE, FALSE) : t \in preferred \ required}

Init ==
    /\ opening \in Openings
    /\ posting = <<>> /\ stage = "reading"
    /\ requirements = <<>> /\ profile = EmptyProfile
    /\ demands = {} /\ resume = {} /\ links = <<>>

\* The posting has one more line.
Read(n) ==
    /\ stage = "reading" /\ Len(posting) < MaxLines
    /\ posting' = Append(posting, n)
    /\ UNCHANGED <<opening, stage, requirements, profile, demands, resume, links>>

\* parse_jd without a provider
Parse ==
    /\ stage = "reading"
    /\ LET view == ViewOf(posting)
           found == Requirements(view)
       IN  requirements' = found /\ profile' = Profile(posting, view, found)
    /\ stage' = "parsed"
    /\ UNCHANGED <<opening, posting, demands, resume, links>>

\* parse_jd with the answer of a provider
Ask(answer) ==
    /\ stage = "parsed"
    /\ profile' = MergedProfile(profile, answer, ViewOf(posting))
    /\ stage' = "asked"
    /\ UNCHANGED <<opening, posting, requirements, demands, resume, links>>

\* build_evidence_matrix for a resume without a fact; the posting is not used
\* again.
Match ==
    /\ stage \in {"parsed", "asked"}
    /\ demands' = Matrix(requirements, profile)
    /\ links' = [d \in demands' |-> Linked(d, {})]
    /\ stage' = "matching"
    /\ opening' = {} /\ posting' = <<>> /\ requirements' = <<>> /\ profile' = EmptyProfile
    /\ UNCHANGED resume

\* The same posting, and a resume with one more fact.
Add(f) ==
    /\ stage = "matching" /\ demands # {}
    /\ f \notin resume /\ Cardinality(resume) < MaxFacts
    /\ \E facts \in Resumes : resume \cup {f} \subseteq facts
    /\ resume' = resume \cup {f}
    /\ links' = [d \in demands |-> Linked(d, resume')]
    /\ UNCHANGED <<opening, posting, stage, requirements, profile, demands>>

Next ==
    \/ \E n \in opening : Read(n)
    \/ Parse
    \/ \E answer \in Answers : Ask(answer)
    \/ Match
    \/ \E f \in DOMAIN Facts : Add(f)

Spec == Init /\ [][Next]_vars

-----------------------------------------------------------------------------
(* What a posting may contribute *)

Parsed == stage \in {"parsed", "asked"}

\* The lines before the role is closed: once a heading has opened it, the first
\* line about applying, pay or equal opportunity ends it for good.
RoleLines ==
    {n \in ToSet(posting) : \E i \in DOMAIN posting :
        /\ posting[i] = n
        /\ ~\E j, k \in 1..i : k <= j /\ OpensRole(Lines[posting[k]]) /\ ClosesRole(Lines[posting[j]])}

\* Nothing below the end of the role becomes a requirement, a line of a list, a
\* keyword or the title: how to apply and what is paid are not skills.
NothingAfterClosing ==
    Parsed =>
        LET role == RoleLines
        IN  /\ \A r \in ToSet(requirements) : r.line \in role
            /\ \A list \in {profile.required, profile.preferred, profile.responsibilities} :
                  ToSet(list) \subseteq role
            /\ \A t \in ToSet(profile.keywords) : \E n \in role : Names(n, t)
            /\ profile.title \in role \cup {0}

\* The weights with which sections state a term of the vocabulary or a standard.
StatedWeights(sections, t) ==
    {IF Kind(t) = "soft" THEN 1 ELSE Weight[s.section] :
        s \in {x \in ToSet(sections) : \E m \in ToSet(Lines[x.line].says) :
                   m.term = t /\ (m.at # "announced" \/ Kind(t) = "standard")}}

\* Every term the sections state is demanded once, with the weight of its
\* strongest mention wherever that stands, unless a listed standard covers it
\* or nothing but soft skills is asked for.
DemandIsKept ==
    stage = "parsed" =>
        LET sections == Sections(ViewOf(posting))
            demanded(t, weights) == \E r \in ToSet(requirements) :
                                       r.term = t /\ \A w \in weights : r.weight >= w
        IN  /\ \A t \in {u \in DOMAIN Terms : Kind(u) \in Vocabulary \cup {"standard"}} :
                  LET weights == StatedWeights(sections, t)
                  IN  weights # {} =>
                        \/ demanded(t, weights)
                        \/ \E r \in ToSet(requirements) : Covers(r.term, t)
                        \/ requirements = <<>> /\ Kind(t) = "soft"
            /\ \A i, j \in DOMAIN requirements : requirements[i].term = requirements[j].term => i = j

\* A provider only completes: every line it adds to a list stands in the part of
\* the posting that is scored, what the parser found required or a duty stays up
\* to the limit of the list, so do its keywords, the title and the company, and
\* no line is both required and preferred.
ProviderAddsFromSource ==
    [][stage = "parsed" /\ stage' = "asked" =>
        /\ \A list \in AnswerLists : ToSet(profile'[list]) \subseteq ToSet(ViewOf(posting).scoring)
        /\ \A list \in AnswerLists \ {"preferred"} :
              ToSet(Limited(profile[list], ListLimit)) \subseteq ToSet(profile'[list])
        /\ ToSet(profile'.required) \cap ToSet(profile'.preferred) = {}
        /\ ToSet(profile.keywords) \subseteq ToSet(profile'.keywords)
        /\ profile.title # 0 => profile'.title = profile.title
        /\ profile.company # None => profile'.company = profile.company]_vars

-----------------------------------------------------------------------------
(* What a resume may earn *)

\* Words that can carry a demand up a rung.  A plain keyword is matched loosely:
\* a skill that is a part of it ("react" of "react native") stands for it.
Carrying(d) ==
    {d.term} \cup ToSet(ToolsOf(d.term)) \cup SignalsOf(d.term)
        \cup (IF ~d.typed THEN PartsOf(d.term) ELSE {})
        \cup (IF d.term \in DOMAIN Bridges THEN Bridges[d.term] ELSE {})
        \cup (IF d.term = "data_pipelines" THEN SourceSystems \cup {"etl", "pipeline"} ELSE {})
        \cup (IF d.term \in {"workspaces", "refresh_cycles"} THEN {"power_bi_service"} ELSE {})

RungPlace == [A |-> {"bullet", "skill"}, B |-> {"skill"}, C |-> {"skill"}, cert |-> {"certificate"}]

\* A rung is held only by facts that affirm the term or what stands for it, in
\* the place the rung is named for: a denied or hoped-for skill earns nothing,
\* but for a signal the skills section names.  The highest rung takes a bullet
\* that affirms one of these words, for a plain keyword maybe only a part of it.
RungsAreEarned ==
    \A d \in DOMAIN links :
        LET link == links[d]
        IN  /\ link.rung # "missing" => link.shown # {} /\ link.shown \subseteq resume
            /\ \A f \in link.shown :
                  \/ Facts[f].affirms \cap Carrying(d) # {}
                  \/ /\ ~d.typed /\ link.rung = "adjacency" /\ Facts[f].place = "skill"
                     /\ Facts[f].denies \cap SignalsOf(d.term) # {}
            /\ link.rung \in DOMAIN RungPlace =>
                  \A f \in link.shown : Facts[f].place \in RungPlace[link.rung]
            /\ link.rung = "A" => \E f \in Bullets(resume) : Facts[f].affirms \cap Carrying(d) # {}

Rank(d, rung) ==
    LET order == IF d.typed THEN <<"missing", "adjacency", "cert", "C", "B", "A">>
                 ELSE <<"missing", "C", "adjacency", "B", "A">>
    IN  CHOOSE i \in DOMAIN order : order[i] = rung

\* Looking at a dashboard is not building one: such a bullet takes the listed
\* skill out of the summary's rung without lifting it to its own.
OnlyLookedAt(d, f) ==
    d.term = "dashboards" /\ d.typed /\ Facts[f].place = "bullet"
    /\ "dashboards" \in Facts[f].affirms /\ "built" \notin Facts[f].affirms

\* A plain keyword inside a longer skill that the summary says as a whole: the
\* skills are searched before the bullets, and the longer one decides.
Outranked(d, facts) ==
    /\ ~d.typed /\ Affirming(Bullets(facts), d.term) # {}
    /\ \E g \in TierB(facts) : d.term \in Facts[g].affirms \ Facts[g].entry

Fit(facts, shown) == FitCategory(Coverage(demands, shown), Cardinality(MustHaveGaps(demands, shown)))

\* A resume with one more fact stands no lower for any demand, unless a longer
\* skill takes a keyword that a bullet shows to the summary's rung, and has no
\* new gap; one more bullet lowers nothing, neither the coverage nor the chance,
\* and loses no good or strong fit.
MoreEvidenceNeverHurts ==
    [][\A f \in resume' \ resume :
          (\A d \in demands : ~OnlyLookedAt(d, f)) =>
              /\ \A d \in demands :
                    \/ Rank(d, links'[d].rung) >= Rank(d, links[d].rung)
                    \/ Facts[f].place # "bullet" /\ Outranked(d, resume') /\ links'[d].rung = "B"
              /\ MustHaveGaps(demands, links') \subseteq MustHaveGaps(demands, links)
              /\ Facts[f].place = "bullet" =>
                    /\ Coverage(demands, links') >= Coverage(demands, links)
                    /\ InterviewChance(demands, links') >= InterviewChance(demands, links)
                    /\ Fit(resume, links) = "strong_fit" => Fit(resume', links') = "strong_fit"
                    /\ Fit(resume, links) = "good_fit" => Fit(resume', links') \in {"good_fit", "strong_fit"}]_vars
=============================================================================
