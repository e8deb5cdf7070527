----------------------------- MODULE JobPosting -----------------------------
(***************************************************************************)
(* What a job posting demands.  The posting is cleaned line by line        *)
(* (sanitize_jd_for_parsing), cut into sections, mined for terms, and the  *)
(* strongest mention of each term becomes a requirement with a weight      *)
(* (pramana/requirements.py).  The requirements are projected on the lists *)
(* of a JDProfile, to which a provider may add (job_description.py).       *)
(*                                                                         *)
(* A line is a number; Lines[n] says what the patterns of the code find in *)
(* it.  Weights are doubled: a soft skill counts 1, not 0.5.               *)
(***************************************************************************)
EXTENDS Integers, FiniteSets, FiniteSetsExt, Sequences, SequencesExt, Lists

CONSTANTS
    Lines,         \* what the patterns find in a line
    Terms,         \* the kind of a term, and what it is a part of
    ListLimit,     \* lines kept of a list (8 in the code)
    KeywordLimit,  \* keywords kept (30)
    AnswerLimit    \* values taken of a list in the answer of a provider (18)

None == "none"

-----------------------------------------------------------------------------
(* What the patterns tell apart *)

\* Headings that open a section of the posting; "label" is any other.
Headings == {None, "required", "skills", "preferred", "responsibility", "overview", "label"}

\* Wording that decides the section of the line it stands in.
Cues == {"required", "preferred", "responsibility"}

\* What a line says of the employer, and of the title of the vacancy.
CompanyMarks == {None, "company", "client", "about", "equal", "domain", "seeking"}
TitleMarks == {None, "label", "heading", "announced"}

\* Hard and soft skills are in the vocabulary; a standard ("sql 2019"), a
\* phrase, a product and the name of a company are found by their shape.
Vocabulary == {"hard", "soft"}
Kinds == Vocabulary \cup {"standard", "phrase", "product", "name"}

\* A term is said in the text of a line, in the label before its colon, or in
\* the announcement of the vacancy ("seeking a Data Analyst to ...").
Places == {"text", "label", "announced"}

\* A standard owns its bare form, a name belongs to a company.  The keyword scan
\* looks for known terms, and counts those of a single, not generic word; such a
\* word may stand inside the writing of other terms.
ASSUME PostingAssumption ==
    /\ {ListLimit, KeywordLimit, AnswerLimit} \subseteq Nat /\ IsFiniteSet(DOMAIN Terms)
    /\ \A t \in DOMAIN Terms :
          /\ Terms[t].kind \in Kinds /\ Terms[t].size \in Nat
          /\ {Terms[t].known, Terms[t].single} \subseteq BOOLEAN
    /\ \A n \in DOMAIN Lines :
          /\ Lines[n].heading \in Headings
          /\ Lines[n].cues \subseteq Cues
          /\ {Lines[n].inline, Lines[n].closing, Lines[n].contact, Lines[n].context,
              Lines[n].boilerplate, Lines[n].listed, Lines[n].shaped} \subseteq BOOLEAN
          /\ Lines[n].company \in CompanyMarks /\ Lines[n].title \in TitleMarks
          /\ Lines[n].rank \in Nat
          /\ Lines[n].says \in Seq([term : DOMAIN Terms, at : Places])

-----------------------------------------------------------------------------
(* The view of the posting that may be read *)

\* Headings after which the role itself is being described; "skills" (such as
\* "Technical skills:") opens a section below but is not one of these.
RoleHeadings == {"required", "preferred", "responsibility", "overview"}

OpensRole(l) == l.heading \in RoleHeadings

\* How to apply, who may, what is paid: markers of sections and of sentences.
ClosesRole(l) == l.closing

\* About the employer, when its subject is not the role.
OnlyContext(l) == l.context

AddNew(seq, x) == IF x \in ToSet(seq) THEN seq ELSE Append(seq, x)
Merge(one, two) == FoldLeft(AddNew, one, two)

EmptyView ==
    [roleSeen |-> FALSE, stopped |-> FALSE, target |-> <<>>, scoring |-> <<>>, domain |-> None]

\* Mutated form of ViewWith: the end of the role is not remembered.
ViewForgetting(view, n) ==
    LET l == Lines[n]
        seen == view.roleSeen \/ OpensRole(l)
        open == ~l.contact /\ ~(seen /\ ClosesRole(l))
    IN  [roleSeen |-> seen,
         stopped |-> seen /\ ClosesRole(l),
         target |-> IF open THEN AddNew(view.target, n) ELSE view.target,
         scoring |-> IF open /\ ~OnlyContext(l) THEN AddNew(view.scoring, n) ELSE view.scoring,
         domain |-> IF view.domain = None /\ l.company = "domain" THEN l.name ELSE view.domain]

\* One turn of the loop of sanitize_jd_for_parsing.
ViewWith(view, n) ==
    LET l == Lines[n]
        seen == view.roleSeen \/ OpensRole(l)
        stop == view.stopped \/ (seen /\ ClosesRole(l))
        open == ~l.contact /\ ~stop
    IN  [roleSeen |-> seen,
         stopped |-> stop,
         target |-> IF open THEN AddNew(view.target, n) ELSE view.target,
         scoring |-> IF open /\ ~OnlyContext(l) THEN AddNew(view.scoring, n) ELSE view.scoring,
         domain |-> IF view.domain = None /\ l.company = "domain" THEN l.name ELSE view.domain]

-----------------------------------------------------------------------------
(* Who is hiring, and for what *)

First(seq) == IF seq = <<>> THEN 0 ELSE Head(seq)

\* Names that the cleaned posting gives the employer.
Organizations(view) ==
    {Lines[n].name : n \in {m \in ToSet(view.target) : Lines[m].company \in {"company", "about", "seeking"}}}

\* The line with the title: a label, else the best role-shaped heading, else an
\* announcement ("seeking a ... to lead"); 0 without one.
TitleLine(view) ==
    LET named(how) == Only(view.target, {n \in ToSet(view.target) : Lines[n].title = how})
        headings == named("heading")
        rank == Min({Lines[n].rank : n \in ToSet(headings)})
    IN  IF named("label") # <<>> THEN First(named("label"))
        ELSE IF headings # <<>> THEN First(Only(headings, {n \in ToSet(headings) : Lines[n].rank = rank}))
        ELSE First(named("announced"))

\* The sources of the employer's name, strongest first.  The equal opportunity
\* clause and the address to apply at are looked up in the whole posting.
CompanyOf(posting, view) ==
    LET named(seq, hows) == Only(seq, {n \in ToSet(seq) : Lines[n].company \in hows})
        labels == named(view.target, {"company", "client"})
        about == named(view.target, {"about"})
        equal == named(posting, {"equal"})
        seeking == named(view.target, {"seeking"})
    IN  IF labels # <<>> THEN Lines[Head(labels)].name
        ELSE IF about # <<>> THEN Lines[Head(about)].name
        ELSE IF equal # <<>> THEN Lines[Head(equal)].name
        ELSE IF view.domain # None THEN view.domain
        ELSE IF seeking # <<>> THEN Lines[Head(seeking)].name
        ELSE None

-----------------------------------------------------------------------------
(* Sections *)

SectionOf ==
    [required |-> "required", skills |-> "required", preferred |-> "preferred",
     responsibility |-> "responsibility"]

Mined == {"required", "preferred", "responsibility"}

\* The wording of a line decides its section before the heading above it does.
Inferred(l, active) ==
    IF "preferred" \in l.cues THEN "preferred"
    ELSE IF "required" \in l.cues THEN "required"
    ELSE IF "responsibility" \in l.cues THEN "responsibility"
    ELSE active

\* One turn of the loop of _segment_sections.
Segment(acc, n) ==
    LET l == Lines[n]
        found(section) == Append(acc.found, [line |-> n, section |-> section])
    IN  IF l.heading \in DOMAIN SectionOf
        THEN [active |-> SectionOf[l.heading],
              found |-> IF l.inline THEN found(SectionOf[l.heading]) ELSE acc.found]
        ELSE IF l.boilerplate THEN [acc EXCEPT !.active = "boilerplate"]
        ELSE IF l.heading # None THEN [acc EXCEPT !.active = "other"]
        ELSE [acc EXCEPT !.found = found(Inferred(l, acc.active))]

\* The lines that can state a requirement, with the section of each.
Sections(view) ==
    LET found == FoldLeft(Segment, [active |-> "other", found |-> <<>>], view.scoring).found
    IN  Only(found, {s \in ToSet(found) : s.section \in Mined})

-----------------------------------------------------------------------------
(* Mentions *)

Kind(t) == Terms[t].kind

\* The bare term that a versioned standard covers ("sql" in "sql 2019").
Covers(standard, t) == Kind(standard) = "standard" /\ Kind(t) # "standard" /\ Terms[standard].owner = t

\* Lines of the sections that show a term, as often as a product has to repeat.
Count(sections, t) ==
    Cardinality({i \in DOMAIN sections : \E m \in ToSet(Lines[sections[i].line].says) : m.term = t})

\* is_org_role_reference: the name of the employer, as far as it was found.
NamesEmployer(t, names) == Kind(t) = "name" /\ Terms[t].owner \in names

\* What is not in the vocabulary counts as a requirement when it is shaped like
\* one: a product that the posting repeats, a phrase of a list or with a cue.
Admissible(t, l, sections, names) ==
    /\ ~NamesEmployer(t, names)
    /\ IF Kind(t) = "product" THEN Count(sections, t) >= 2
       ELSE l.listed \/ l.cues \cap {"preferred", "required"} # {}

\* A mention by the vocabulary, a standard, or mined; "at" tells the label of
\* the line and the announcement of a vacancy from its text.
Counts(m, l, sections, names) ==
    CASE Kind(m.term) \in Vocabulary -> m.at # "announced"
      [] Kind(m.term) = "standard" -> TRUE
      [] OTHER -> m.at = "text" /\ Admissible(m.term, l, sections, names)

Weight == [required |-> 6, responsibility |-> 4, preferred |-> 2]

Candidate(t, section, weight, line, index, start) ==
    [term |-> t, section |-> section, weight |-> weight, line |-> line, index |-> index, start |-> start]

LineCandidates(sections, i, names) ==
    LET s == sections[i]
        l == Lines[s.line]
    IN  {Candidate(l.says[k].term, s.section, IF Kind(l.says[k].term) = "soft" THEN 1 ELSE Weight[s.section],
                   s.line, i, k) :
            k \in {j \in DOMAIN l.says : Counts(l.says[j], l, sections, names)}}

\* What an announcement says beside the title is not the title.
InTitle(title, m) == Lines[title].title = "announced" => m.at = "announced"

\* Demand of the resolved title: whatever the vocabulary knows, and a product
\* that a section names as well.
TitleCandidates(title, sections) ==
    LET l == Lines[title]
        counts(m) == /\ InTitle(title, m)
                     /\ \/ Kind(m.term) \in Vocabulary
                        \/ Kind(m.term) = "product" /\ Count(sections, m.term) >= 1
    IN  IF title = 0 THEN {}
        ELSE {Candidate(l.says[k].term, "title", 4, title, 0, k) : k \in {j \in DOMAIN l.says : counts(l.says[j])}}

\* All that may be a requirement: the title, and the lines of the sections.
Candidates(view) ==
    LET sections == Sections(view)
    IN  TitleCandidates(TitleLine(view), sections)
            \cup UNION {LineCandidates(sections, i, Organizations(view)) : i \in DOMAIN sections}

-----------------------------------------------------------------------------
(* Requirements *)

SectionRank == [required |-> 4, responsibility |-> 3, title |-> 2, preferred |-> 1]

Earlier(c, d) == c.index < d.index \/ (c.index = d.index /\ c.start < d.start)

\* Mutated form of Precedes: the mention that comes first in the posting counts.
PrecedesInOrder(c, d) == Earlier(c, d)

\* _candidate_precedes
Precedes(c, d) ==
    IF c.weight # d.weight THEN c.weight > d.weight
    ELSE IF SectionRank[c.section] # SectionRank[d.section] THEN SectionRank[c.section] > SectionRank[d.section]
    ELSE Earlier(c, d)

\* Of every term, the mention that precedes all others.
Chosen(candidates) ==
    {c \in candidates : \A d \in candidates : d.term = c.term => d = c \/ Precedes(c, d)}

Ordered(set) ==
    Sorted(set, {p \in set \X set : \/ p[1].weight > p[2].weight
                                    \/ p[1].weight = p[2].weight /\ Earlier(p[1], p[2])})

DropStandardPrefixes(set) == {c \in set : ~\E d \in set : Covers(d.term, c.term)}

WeightOf(set) == MapThenSumSet(LAMBDA c : c.weight, set)

\* A soft skill is taken while the share of the soft weight stays within a
\* quarter, or within the share this posting has itself.
CapSoftWeight(set) ==
    LET soft == {c \in set : Kind(c.term) = "soft"}
        hard == WeightOf(set \ soft)
        total == WeightOf(soft)
        within(w) == w * (hard + total) <= total * (hard + w) \/ 4 * w <= hard + w
        take(acc, c) == IF within(acc.weight + c.weight)
                        THEN [weight |-> acc.weight + c.weight, taken |-> acc.taken \cup {c}]
                        ELSE acc
    IN  IF soft = set THEN {}
        ELSE (set \ soft) \cup FoldLeft(take, [weight |-> 0, taken |-> {}], Ordered(soft)).taken

ToRequirements(candidates) == Ordered(CapSoftWeight(DropStandardPrefixes(Chosen(candidates))))

\* _extract_requirements_cached
Requirements(view) == ToRequirements(Candidates(view))

-----------------------------------------------------------------------------
(* The lists of a JDProfile *)

Limited(seq, limit) == SubSeq(seq, 1, IF Len(seq) < limit THEN Len(seq) ELSE limit)

\* _extract_section_items: the lines below a heading that starts like one of
\* "starts", up to the next line shaped like a heading.
SectionItems(scoring, starts, stops) ==
    LET step(acc, n) ==
            LET l == Lines[n]
            IN  IF acc.state = "done" THEN acc
                ELSE IF acc.state = "on" /\ l.heading \in stops THEN [acc EXCEPT !.state = "off"]
                ELSE IF l.heading \in starts THEN [acc EXCEPT !.state = "on"]
                ELSE IF acc.state = "on" /\ l.shaped THEN [acc EXCEPT !.state = "done"]
                ELSE IF acc.state = "on" THEN [acc EXCEPT !.items = Append(acc.items, n)]
                ELSE acc
    IN  FoldLeft(step, [state |-> "off", items |-> <<>>], scoring).items

Names(n, t) == \E m \in ToSet(Lines[n].says) : m.term = t

\* The words of the title, and of the employer's names.
WordsOfHiring(title, names) ==
    {t \in DOMAIN Terms :
        \/ NamesEmployer(t, names)
        \/ title # 0 /\ \E m \in ToSet(Lines[title].says) : m.term = t /\ InTitle(title, m)}

TimesSaid(scoring, t) ==
    Cardinality(UNION {{n} \X {k \in DOMAIN Lines[n].says : Lines[n].says[k].term = t} : n \in ToSet(scoring)})

\* One turn of the second loop of _extract_keywords: a word inside a keyword
\* that was found is no keyword of its own.
Discovered(found, t) == IF ToSet(found) \cap Terms[t].inside = {} THEN Append(found, t) ELSE found

\* _extract_keywords: known tools anywhere in the scoring lines, longest first,
\* then other words said twice, most frequent first.
KnownTools(scoring, excluded) ==
    LET said == [t \in DOMAIN Terms |-> TimesSaid(scoring, t)]
        tools == {t \in DOMAIN Terms : Terms[t].known /\ said[t] > 0}
        words == {t \in DOMAIN Terms \ excluded : Terms[t].single /\ ~Terms[t].known /\ said[t] > 1}
        longest == Sorted(tools, {p \in tools \X tools : Terms[p[1]].size > Terms[p[2]].size})
        commonest == Sorted(words, {p \in words \X words : said[p[1]] > said[p[2]]})
    IN  FoldLeft(Discovered, longest, commonest)

\* _prioritize_required_keywords
Prioritized(terms, required) ==
    LET named == {t \in ToSet(terms) : \E n \in ToSet(required) : Names(n, t)}
    IN  Only(terms, named) \o Only(terms, ToSet(terms) \ named)

\* _sentences_with_keywords, where each line ends a sentence; taken when no list
\* has a heading.
WithKeywords(scoring, terms) ==
    Only(scoring, {n \in ToSet(scoring) : \E t \in ToSet(terms) : Names(n, t)})

OrElse(seq, other) == IF seq # <<>> THEN seq ELSE other

LinesOf(requirements, section) ==
    LET stating == Only(requirements, {r \in ToSet(requirements) : r.section = section})
    IN  Merge(<<>>, [i \in DOMAIN stating |-> stating[i].line])

TermsOf(requirements) == [i \in DOMAIN requirements |-> requirements[i].term]

\* _parse_jd_heuristic, then _apply_v2_requirements.
Profile(posting, view, requirements) ==
    LET title == TitleLine(view)
        company == CompanyOf(posting, view)
        tools == KnownTools(view.scoring, WordsOfHiring(title, Organizations(view) \cup {company}))
        stated == OrElse(SectionItems(view.scoring, {"required"}, {"preferred"}),
                         WithKeywords(view.scoring, Limited(tools, 6)))
        wished == SectionItems(view.scoring, {"preferred"}, {})
        duties == OrElse(SectionItems(view.scoring, {"responsibility", "overview"}, {}),
                         WithKeywords(view.scoring, Limited(tools, 5)))
    IN  [title |-> title,
         company |-> company,
         required |-> OrElse(LinesOf(requirements, "required"), Limited(stated, ListLimit)),
         preferred |-> OrElse(LinesOf(requirements, "preferred"), Limited(wished, ListLimit)),
         responsibilities |-> OrElse(LinesOf(requirements, "responsibility"), Limited(duties, ListLimit)),
         keywords |-> Limited(OrElse(TermsOf(requirements), Prioritized(tools, stated)), KeywordLimit)]

-----------------------------------------------------------------------------
(* What a provider may add *)

\* resolve_line_numbers: a number that no line has is skipped.
Resolved(numbers, lines) ==
    LET known == Only(numbers, DOMAIN lines)
    IN  [i \in DOMAIN known |-> lines[known[i]]]

\* filter_hygienic_jd_values, for lines: nothing to contact, nothing that closes
\* the role, nothing that the scoring lines do not say.
Hygienic(view, lines) ==
    Only(lines, {n \in ToSet(view.scoring) : ~Lines[n].contact /\ ~ClosesRole(Lines[n])})

\* ... and for terms: not the employer, and in the text of the scoring lines.
HygienicTerms(view, company, terms) ==
    Only(terms, {t \in ToSet(terms) :
        /\ ~NamesEmployer(t, Organizations(view) \cup {company})
        /\ \E n \in ToSet(view.scoring) : Names(n, t)})

\* Mutated form of MergedList: what the provider found comes first.
ProviderFirst(authoritative, added, limit) == Limited(Merge(Merge(<<>>, added), authoritative), limit)

\* merged_list: what the parser found comes first.
MergedList(authoritative, added, limit) == Limited(Merge(Merge(<<>>, authoritative), added), limit)

\* list_field: what survives, without repetitions, up to a limit.
Accepted(values) == Limited(Merge(<<>>, values), AnswerLimit)

\* An answer gives numbers of lines for a list, or against its instruction the
\* lines (_resolve_line_list_fields).
Given(answer, field, view) ==
    Accepted(Hygienic(view, IF answer.retyped[field] # <<>> THEN answer.retyped[field]
                            ELSE Resolved(answer[field], view.scoring)))

\* _safe_llm_title: a line of the posting that may be a title.
SafeTitle(n, view) == n \in ToSet(view.target) /\ Lines[n].title # None

\* _safe_llm_company: a name that the posting says, of an employer or not.
SafeCompany(name, view) == \E n \in ToSet(view.target) : Lines[n].name = name

\* _merge_jd_profile
MergedProfile(profile, answer, view) ==
    LET required == MergedList(profile.required, Given(answer, "required", view), ListLimit)
        preferred == MergedList(profile.preferred, Given(answer, "preferred", view), 2 * ListLimit)
        keywords == Accepted(HygienicTerms(view, profile.company, answer.keywords))
    IN  [profile EXCEPT
            !.title = IF profile.title = 0 /\ SafeTitle(answer.title, view) THEN answer.title ELSE profile.title,
            !.company = IF profile.company = None /\ SafeCompany(answer.company, view)
                        THEN answer.company ELSE profile.company,
            !.required = required,
            !.preferred = Limited(Only(preferred, ToSet(preferred) \ ToSet(required)), ListLimit),
            !.responsibilities =
                MergedList(profile.responsibilities, Given(answer, "responsibilities", view), ListLimit),
            !.keywords = MergedList(profile.keywords, keywords, KeywordLimit)]
=============================================================================
