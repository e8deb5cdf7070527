---------------------------- MODULE ProfileFloor ----------------------------
(***************************************************************************)
(* How a provider's structured reading of a resume is merged onto the      *)
(* deterministic one (parsing/resume.py).  Pure: operators on resumes.     *)
(*                                                                         *)
(* A phrase stands for a normalized text.  A line of the resume is the set *)
(* of phrases it contains, so that a name can also occur in a bullet; the  *)
(* substring test of the code is membership.  A record is an entry of the  *)
(* experience section; education and certifications go through the same    *)
(* functions with other field names.                                       *)
(***************************************************************************)
EXTENDS Integers, FiniteSets, SequencesExt, Lists

Blank == ""
IdentityFields == {"company", "title", "dates"}

\* A record: its identity, and what is told of it.
Records ==
    [company : STRING, title : STRING, dates : STRING, location : STRING, bullets : Seq(STRING)]

\* The names by which a record is found in the text.
Anchors(record) == {record[f] : f \in IdentityFields} \ {Blank}

BulletCount(records) == FoldLeft(LAMBDA n, r : n + Len(r.bullets), 0, records)

\* _is_materially_less_complete, which also covers _looks_usable.  What a provider
\* invents counts here too.  restKept: no fewer schools and certificates, and four
\* fifths of the skills.
LessComplete(reading, baseline) ==
    \/ Len(reading.records) < Len(baseline)
    \/ BulletCount(reading.records) < BulletCount(baseline)
    \/ ~reading.restKept

-----------------------------------------------------------------------------
(* Where the text of a record is *)

\* _entry_source_contexts: the first line after the start of the records above
\* that contains a name of the record; 0 when there is none.
Starts(lines, records) ==
    LET start[i \in DOMAIN records] ==
            LET from == {n \in DOMAIN lines :
                            /\ \A j \in 1..(i - 1) : n > start[j]
                            /\ Anchors(records[i]) \cap lines[n] # {}}
            IN  IF from = {} THEN 0 ELSE Min(from)
    IN  start

\* Its lines, up to the start of the next record that was found.
ContextLines(lines, starts, i) ==
    {n \in DOMAIN lines :
        /\ starts[i] # 0 /\ n >= starts[i]
        /\ \A j \in DOMAIN starts : j > i /\ starts[j] # 0 => n < starts[j]}

Contexts(lines, records) ==
    LET starts == Starts(lines, records)
    IN  [i \in DOMAIN records |-> UNION {lines[n] : n \in ContextLines(lines, starts, i)}]

-----------------------------------------------------------------------------
(* Which record a provider's record is about *)

\* _same_source_fact; resume.within holds the pairs of a phrase and a longer one.
SameFact(resume, a, b) == a = b \/ <<a, b>> \in resume.within \/ <<b, a>> \in resume.within

Score(resume, entry, record, context) ==
    Cardinality({f \in IdentityFields :
        /\ entry[f] \in context \ {Blank} /\ record[f] # Blank
        /\ SameFact(resume, entry[f], record[f])})

\* _matching_source_entry: the first of those with the best score, 0 for none.
Match(resume, entry, records, contexts) ==
    LET score == [i \in DOMAIN records |-> Score(resume, entry, records[i], contexts[i])]
        best == {i \in DOMAIN records : score[i] > 0 /\ \A j \in DOMAIN records : score[i] >= score[j]}
    IN  IF best = {} THEN 0 ELSE Min(best)

-----------------------------------------------------------------------------
(* The merge *)

\* Bullets are added after those of the record, once, if its text has them.
AddBullets(bullets, proposed, context) ==
    FoldLeft(LAMBDA known, b : IF b \in context /\ b \notin Range(known) THEN Append(known, b) ELSE known,
             bullets, proposed)

\* _source_backed_provider_field; resume.places: the phrases that look like one.
Place(resume, value, context) == IF value \in context \cap resume.places THEN value ELSE Blank

\* Mutated form of Fill: the provider may also set the employer.
FillEmployer(resume, record, entry, context) ==
    [record EXCEPT
        !.company = IF entry.company # Blank THEN entry.company ELSE @,
        !.bullets = AddBullets(@, entry.bullets, context)]

\* Mutated form of Fill: a phrase anywhere in the proposal counts as found.
FillUnchecked(resume, record, entry, context) ==
    [record EXCEPT !.bullets = AddBullets(@, entry.bullets, Range(entry.bullets))]

\* The location is the one field of a record that is not part of its identity.
Fill(resume, record, entry, context) ==
    [record EXCEPT
        !.location = IF @ = Blank THEN Place(resume, entry.location, context) ELSE @,
        !.bullets = AddBullets(@, entry.bullets, context)]

\* One turn of the loop of _merge_provider_entries.
MergeEntry(resume, records, entry, contexts) ==
    LET i == Match(resume, entry, records, contexts)
    IN  IF i = 0 THEN records ELSE [records EXCEPT ![i] = Fill(resume, @, entry, contexts[i])]

\* _merge_provider_entries
Merge(resume, reading) ==
    LET contexts == Contexts(resume.lines, resume.baseline)
    IN  FoldLeft(LAMBDA records, entry : MergeEntry(resume, records, entry, contexts),
                 resume.baseline, reading.records)

\* _clean_experiences: records with a name, and their bullets the text contains.
Cleaned(resume, records) ==
    LET text == UNION Range(resume.lines)
        named == Only(records, {r \in Range(records) : {r.company, r.title} \ {Blank} # {}})
    IN  [i \in DOMAIN named |->
            [named[i] EXCEPT !.company = IF @ = Blank THEN named[i].title ELSE @,
                             !.bullets = Only(@, text)]]

\* extract_profile, without an answer of a provider and with one.
HeuristicProfile(resume) == Cleaned(resume, resume.baseline)
ProviderProfile(resume, reading) ==
    IF LessComplete(reading, resume.baseline) THEN HeuristicProfile(resume)
    ELSE Cleaned(resume, Merge(resume, reading))

\* The extraction warnings: an employer that reads like a sentence.
Suspect(resume, records) == \E i \in DOMAIN records : records[i].company \in resume.implausible

-----------------------------------------------------------------------------
(* What the profile of a provider owes to the deterministic one *)

\* The same records in the same places, the bullets of the deterministic parse
\* first: a position names the same record and bullet in both profiles.
OnFloor(profile, floor) ==
    /\ DOMAIN profile = DOMAIN floor
    /\ \A i \in DOMAIN floor :
        /\ \A f \in IdentityFields : profile[i][f] = floor[i][f]
        /\ IsPrefix(floor[i].bullets, profile[i].bullets)
        /\ floor[i].location # Blank => profile[i].location = floor[i].location

\* What _heuristic_entries finds in the text.  resume.heading[i] is the line on
\* which record i begins; it has one of its names.  Only the first record may have
\* none (bullets above every header): each later one begins at its dates.
ReadInOrder(resume) ==
    /\ resume.baseline \in Seq(Records) /\ resume.lines \in Seq(SUBSET STRING)
    /\ resume.heading \in [DOMAIN resume.baseline -> DOMAIN resume.lines]
    /\ \A i \in DOMAIN resume.baseline :
        LET names == Anchors(resume.baseline[i])
        IN  /\ \A j \in 1..(i - 1) : resume.heading[j] < resume.heading[i]
            /\ names \cap resume.lines[resume.heading[i]] = {} => i = 1 /\ names = {}

\* No name of a record occurs between the heading of the record above it that has
\* one and its own.
NamesInHeadings(resume) ==
    \A i \in DOMAIN resume.baseline :
        \A n \in DOMAIN resume.lines :
            /\ n < resume.heading[i]
            /\ i > 1 /\ Anchors(resume.baseline[i - 1]) # {} => n > resume.heading[i - 1]
            => Anchors(resume.baseline[i]) \cap resume.lines[n] = {}

\* The phrases of the lines that really belong to record i.
Own(resume, i) ==
    UNION {resume.lines[n] : n \in {m \in DOMAIN resume.lines :
        /\ m >= resume.heading[i]
        /\ \A j \in DOMAIN resume.heading : j > i => m < resume.heading[j]}}

\* What a record of the profile has that record i of the text did not give it
\* stands in the lines of record i.
GainedFrom(resume, record, i) ==
    LET source == resume.baseline[i]
    IN  /\ record.title = source.title /\ record.dates = source.dates
        /\ record.company = IF source.company = Blank THEN source.title ELSE source.company
        /\ record.location \in {source.location} \cup Own(resume, i)
        /\ Range(record.bullets) \subseteq Range(source.bullets) \cup Own(resume, i)

\* Records without a name are left out of the profile, so positions differ.
GainedInPlace(resume, profile) ==
    \A n \in DOMAIN profile : \E i \in DOMAIN resume.baseline : GainedFrom(resume, profile[n], i)
=============================================================================
