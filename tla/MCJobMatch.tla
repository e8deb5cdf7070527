----------------------------- MODULE MCJobMatch -----------------------------
EXTENDS JobMatch

Blank == [heading |-> None, inline |-> FALSE, closing |-> FALSE, contact |-> FALSE,
          context |-> FALSE, boilerplate |-> FALSE, cues |-> {}, listed |-> FALSE,
          shaped |-> FALSE, says |-> <<>>, title |-> None, rank |-> 0,
          company |-> None, name |-> None]

Saying(t) == [term |-> t, at |-> "text"]
Heading(kind) == [Blank EXCEPT !.heading = kind, !.shaped = TRUE]
Bullet(terms) == [Blank EXCEPT !.says = [i \in DOMAIN terms |-> Saying(terms[i])]]

MCLines == <<
    Heading("required"),                                               \* 1
    Heading("preferred"),                                              \* 2
    Heading("responsibility"),                                         \* 3
    Heading("skills"),                                                 \* 4
    [Heading("label") EXCEPT !.closing = TRUE],                        \* 5 how to apply:
    [Bullet(<<"terraform">>) EXCEPT !.cues = {"required"}],            \* 6 experience with
    [Bullet(<<"python", "sql", "communication">>) EXCEPT !.listed = TRUE],  \* 7
    [Bullet(<<"python">>) EXCEPT !.cues = {"preferred"}],              \* 8 is an asset
    [Bullet(<<"dashboards">>) EXCEPT !.cues = {"responsibility"}],     \* 9 build
    Bullet(<<"sql", "sql_2019">>),                                            \* 10
    Bullet(<<"sql">>),                                                 \* 11
    Bullet(<<"communication", "teamwork">>),                           \* 12
    [Bullet(<<"acme_cloud", "incident_triage">>) EXCEPT !.listed = TRUE, !.name = "acme"],  \* 13
    [Blank EXCEPT !.company = "company", !.name = "acme"],             \* 14
    [Blank EXCEPT !.company = "client", !.name = "acme"],              \* 15
    [Bullet(<<"sql">>) EXCEPT !.contact = TRUE, !.company = "domain", !.name = "acme"],  \* 16
    [Blank EXCEPT !.closing = TRUE, !.company = "equal", !.name = "acme"],  \* 17
    [Bullet(<<"python">>) EXCEPT !.title = "heading", !.rank = 1, !.shaped = TRUE],  \* 18
    [Blank EXCEPT !.title = "announced", !.company = "seeking", !.name = "acme",
                  !.says = <<[term |-> "sql", at |-> "announced"], Saying("python")>>],  \* 19
    Bullet(<<"eks">>),                                                 \* 20
    Bullet(<<"version_control", "workspaces">>),                       \* 21
    Bullet(<<"data_pipelines", "quality", "quality_checks", "quality">>),  \* 22
    [Bullet(<<"sql", "eks">>) EXCEPT !.closing = TRUE, !.boilerplate = TRUE],  \* 23 pay
    [Blank EXCEPT !.heading = "overview"],                             \* 24
    [Bullet(<<"sql">>) EXCEPT !.context = TRUE, !.company = "about", !.name = "acme"],  \* 25
    [Blank EXCEPT !.title = "label", !.rank = 0, !.says = <<Saying("eks")>>],  \* 26
    [Heading("required") EXCEPT !.inline = TRUE, !.says = <<Saying("sql")>>],  \* 27 must have: SQL
    [Blank EXCEPT !.says = <<[term |-> "sql", at |-> "label"], Saying("teamwork")>>],  \* 28
    Bullet(<<"azure", "react_native">>)                                \* 29
    >>

Term(kind, owner, size, known, single) ==
    [kind |-> kind, owner |-> owner, size |-> size, known |-> known, single |-> single, inside |-> {}]

Tool(size) == Term("hard", None, size, TRUE, TRUE)

MCTerms ==
    [python |-> Tool(6), sql |-> Tool(3), dashboards |-> Tool(10),
     terraform |-> Term("hard", None, 9, FALSE, TRUE),
     version_control |-> Term("hard", None, 15, FALSE, FALSE),
     workspaces |-> Term("hard", None, 11, FALSE, TRUE),
     data_pipelines |-> Term("hard", None, 14, FALSE, FALSE),
     quality |-> [Term("hard", None, 7, FALSE, TRUE) EXCEPT !.inside = {"quality_checks"}],
     quality_checks |-> Tool(14),
     azure |-> Tool(5), react_native |-> Tool(12),
     sql_2019 |-> Term("standard", "sql", 8, FALSE, FALSE),
     communication |-> Term("soft", None, 13, FALSE, TRUE),
     teamwork |-> Term("soft", None, 8, FALSE, TRUE),
     acme_cloud |-> Term("name", "acme", 5, FALSE, FALSE),
     incident_triage |-> Term("phrase", None, 5, FALSE, FALSE),
     eks |-> Term("product", None, 3, FALSE, TRUE)]

MCOpenings == {
    {1, 2, 5, 6, 7, 8},
    {1, 10, 11, 12, 23, 28},
    {4, 5, 9, 12, 18, 24, 26},
    {3, 13, 14, 16, 19, 20},
    {1, 13, 15, 17, 25, 27},
    {3, 9, 21, 22, 29}}

Answer(required, preferred, responsibilities, keywords, title, company) ==
    [required |-> required, preferred |-> preferred, responsibilities |-> responsibilities,
     retyped |-> [list \in AnswerLists |-> <<>>], keywords |-> keywords, title |-> title, company |-> company]

Retyped(list, lines) == [l \in AnswerLists |-> IF l = list THEN lines ELSE <<>>]

MCAnswers == {
    Answer(<<1, 2, 9>>, <<2, 3>>, <<4, 1>>, <<"sql", "acme_cloud">>, 18, "acme"),
    Answer(<<3, 4, 2>>, <<1>>, <<2, 3, 1>>, <<"python", "eks">>, 19, None),
    [Answer(<<>>, <<1, 2>>, <<>>, <<"terraform", "quality">>, 0, "acme")
        EXCEPT !.retyped = Retyped("required", <<7, 23, 16, 13>>)],
    [Answer(<<1>>, <<>>, <<3>>, <<>>, 0, None)
        EXCEPT !.retyped = Retyped("responsibilities", <<23, 9, 16, 9, 10>>)]}

Fact(place, affirms, denies) == [place |-> place, entry |-> {}, affirms |-> affirms, denies |-> denies]

\* A skill that is one word or phrase, with the words inside it.
Skill(word, inside) == [Fact("skill", {word} \cup inside, {}) EXCEPT !.entry = {word}]

MCFacts == <<
    Fact("bullet", {"git", "python"}, {"terraform"}),                  \* 1
    Fact("bullet", {"dashboards", "tableau"}, {"sql"}),                \* 2
    Fact("bullet", {"dashboards", "built"}, {}),                       \* 3
    Fact("bullet", {"pipeline", "salesforce", "csv"}, {}),             \* 4
    Fact("bullet", {"pulumi"}, {"etl", "dashboards"}),                 \* 5
    Fact("summary", {"sql", "dashboards"}, {"python"}),                \* 6
    Fact("summary", {"terraform"}, {}),                                \* 7
    Skill("sql", {}),                                        \* 8
    Skill("dashboards", {}),                                 \* 9
    Skill("etl", {}),                                        \* 10
    Fact("skill", {}, {"unit_tests"}),                                 \* 11
    Skill("pulumi", {}),                                     \* 12
    Fact("certificate", {"power_bi_service", "sql"}, {}),              \* 13
    Skill("git", {}),                                        \* 14
    Fact("bullet", {"code_review"}, {"sql", "git"}),                   \* 15
    Skill("terraform", {}),                                  \* 16
    Fact("bullet", {"dashboards", "tableau", "built"}, {}),            \* 17
    Fact("bullet", {"azure", "react"}, {}),                            \* 18
    Fact("summary", {"azure_functions", "azure"}, {}),                 \* 19
    Skill("azure_functions", {"azure"}),                               \* 20
    Skill("react", {}),                                                \* 21
    Fact("bullet", {"react_native", "react"}, {"azure"}),              \* 22
    Fact("summary", {"react"}, {})                                     \* 23
    >>

Entry(tools, signals) == [tools |-> tools, signals |-> signals, specific |-> FALSE, reporting |-> FALSE, parts |-> {}]

\* What is not listed here is in none of the tables.
MCKnowledge ==
    [terraform |-> Entry(<<"terraform", "pulumi">>, {}),
     dashboards |-> Entry(<<"tableau", "dashboards">>, {}),
     quality |-> Entry(<<>>, {"unit_tests", "code_review"}),
     python |-> [Entry(<<>>, {"git"}) EXCEPT !.specific = TRUE],
     react_native |-> [Entry(<<>>, {}) EXCEPT !.parts = {"react"}],
     workspaces |-> [Entry(<<>>, {}) EXCEPT !.reporting = TRUE]]

MCResumes == {{1, 2, 6, 7, 8, 9, 13, 16}, {3, 4, 5, 10, 12, 14, 15, 16}, {1, 5, 11, 12, 15, 16, 17, 9},
              {18, 19, 20, 21, 22, 23}}
=============================================================================
