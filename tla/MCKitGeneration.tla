-------------------------- MODULE MCKitGeneration --------------------------
(* Values for TLC that a configuration file cannot express.                  *)
EXTENDS KitGeneration

MCRecord(company, title, location, bullets) ==
    [company |-> company, title |-> title, dates |-> Blank, location |-> location, bullets |-> bullets]

\* Two roles; the parser missed bullet "two" and the place of the second role.
MCResume(first, mention, implausible) ==
    [lines |-> <<{"Acme", "engineer", "senior engineer"}, {"one"}, {"two"} \cup mention,
                 {first, "manager", "Paris"}, {"three"}>>,
     heading |-> <<1, 4>>,
     baseline |-> <<MCRecord("Acme", "senior engineer", Blank, <<"one">>),
                    MCRecord(first, "manager", Blank, <<"three">>)>>,
     places |-> {"Paris"}, within |-> {<<"engineer", "senior engineer">>},
     implausible |-> implausible]

MCPlain == MCResume("Globex", {}, {})
\* One employer twice; the second title named in the first role; a bad employer.
MCResumes == <<MCPlain, MCResume("Acme", {}, {}), MCResume("Globex", {"manager"}, {}),
               MCResume("Globex", {}, {"Globex"})>>

MCEntries ==
    <<MCRecord("Acme", "engineer", "Paris", <<"two", "one">>),
      MCRecord("Acme", "manager", Blank, <<"one", "three", "four">>),
      MCRecord("Acme", Blank, Blank, <<"two", "three">>),
      MCRecord("Globex", "manager", "Paris", <<"three", "two">>),
      MCRecord("Globex", "engineer", "Acme", <<"one">>),
      MCRecord("Initech", "engineer", "Paris", <<"two", "four">>),
      MCRecord("Initech", Blank, Blank, <<"three", "two">>)>>

MCGood == [records |-> <<MCRecord("Acme", "engineer", Blank, <<"one", "two">>),
                         MCRecord("Globex", "manager", "Paris", <<"three">>)>>, restKept |-> TRUE]
MCReading(records, restKept) ==
    [p \in {"primary", "fallback"} |-> [records |-> records, restKept |-> restKept]]

MCAnswers ==
    [t \in Tasks |->
        IF t \in Extraction THEN {{}, {"garbage"}, {"shape"}}
        ELSE IF t \in Narratives
        THEN {{}, {"garbage"}, {"claim"}, {"stuck"}, {"clash"}, {"length"}}
        ELSE {{}, {"garbage"}, {"shape"}, {"style", "claim"}, {"number"}, {"claim"}, {"claim", "thin"}, {"stuck"}}]

MCSound == [kind \in Delivery!Kinds |-> {}]
MCBase ==
    [kits |-> {}, cached |-> TRUE, provider |-> "backed", upsets |-> 0, resume |-> MCPlain,
     reading |-> MCReading(MCGood.records, TRUE), tasks |-> Tasks, asked |-> Delivery!Kinds,
     answers |-> MCAnswers, own |-> MCSound, structure |-> MCSound]

MCOne == {CHOOSE k \in Kits : TRUE}
MCTaskSets == <<{"profile", "jd"}, {"summary", "job_fit"}, {"summary", "bullets", "cover_letter"}>>
MCFewAnswers == [t \in Tasks |-> {{}, {"garbage"}, {"claim"}}]

\* Element number n of a product of sequences, one dimension after the other.
MCPick(seq, n, before) == seq[((n \div before) % Len(seq)) + 1]

MCProviders == <<"backed", "alone", "none">>
MCOwn == <<{}, {"claim"}, {"stuck"}, {"clash"}>>
MCStructure == <<{}, {"claim"}, {"claim", "thin"}, {"stuck"}, {"clash"}>>

\* Every reading of two records of every resume, by one kit.
MCReadings ==
    [n \in 1..196 |->
        [MCBase EXCEPT !.kits = MCOne, !.tasks = {"profile"}, !.asked = {"resume"},
            !.resume = MCPick(MCResumes, n, 1),
            !.reading = MCReading(<<MCPick(MCEntries, n, 4), MCPick(MCEntries, n, 28)>>, TRUE)]]

\* The first bullets have no header, so the profile has a record less.
MCHeadless ==
    [MCPlain EXCEPT !.lines = <<{"zero", "one"}>> \o @, !.heading = <<1, 2, 5>>,
        !.baseline = <<MCRecord(Blank, Blank, Blank, <<"zero">>)>> \o @]
MCHeadlessReadings ==
    [n \in 1..49 |->
        [MCBase EXCEPT !.kits = MCOne, !.tasks = {"profile"}, !.asked = {"resume"},
            !.resume = MCHeadless,
            !.reading = MCReading(<<MCEntries[1], MCPick(MCEntries, n, 1), MCPick(MCEntries, n, 7)>>, TRUE)]]

\* One kit, and every way its narratives can be faulty.
MCFaults ==
    [n \in 1..60 |->
        [MCBase EXCEPT !.kits = MCOne, !.tasks = Narratives, !.cached = FALSE, !.upsets = 1,
            !.provider = MCPick(MCProviders, n, 1),
            !.own = [kind \in Delivery!Kinds |-> MCPick(MCOwn, n, 3)],
            !.structure = [kind \in Delivery!Kinds |-> MCPick(MCStructure, n, 12)]]]

\* Two kits that may share the cache.
MCShared ==
    [n \in 1..6 |->
        LET tasks == MCPick(MCTaskSets, n, 1)
        IN  [MCBase EXCEPT !.tasks = tasks, !.asked = {"resume"} \cup (Delivery!Kinds \cap tasks),
                !.kits = Kits, !.answers = MCFewAnswers, !.upsets = 1,
                !.cached = MCPick(<<TRUE, FALSE>>, n, 3),
                !.provider = MCPick(<<"backed", "alone">>, n, 3)]]

\* One kit with every task, one whose reading lost a certificate, and one for
\* which both providers may fail.
MCAll ==
    <<[MCBase EXCEPT !.kits = MCOne, !.upsets = 1],
      [MCBase EXCEPT !.kits = MCOne, !.tasks = {"profile"}, !.asked = {"resume"},
                     !.reading = MCReading(MCGood.records, FALSE)],
      [MCBase EXCEPT !.kits = MCOne, !.upsets = 1, !.provider = "alone"],
      [MCBase EXCEPT !.kits = MCOne, !.upsets = 3, !.tasks = {"summary", "cover_letter"}]>>

MCScenarios == MCReadings \o MCHeadlessReadings \o MCFaults \o MCShared \o MCAll
=============================================================================
