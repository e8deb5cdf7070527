---------------------------- MODULE MCStoredKits ----------------------------
(* Values for TLC that a configuration file cannot express.                  *)
EXTENDS StoredKits

MCToken(sort, value) == [sort |-> sort, value |-> value]

\* Four years with Acme as an analyst; Globex is hiring a director.
MCEvidence ==
    [terms |-> {"aws certified", "led a team", "federal client"}, metrics |-> {"25%", "3years"},
     organizations |-> {"globex", "google"}, employers |-> {"acme labs"}, target |-> "globex",
     titles |-> {"analyst"}, targetTitles |-> {"director"}, skills |-> {"python"},
     degree |-> 2, career |-> 4,
     years |-> [v \in {"3years", "5years", "9years"} |->
                    CASE v = "3years" -> 3 [] v = "5years" -> 5 [] v = "9years" -> 9],
     level |-> [v \in {"bachelor", "phd"} |-> IF v = "bachelor" THEN 2 ELSE 4]]

MCWithin == {<<"acme", "acme labs">>, <<"5%", "25%">>, <<"5%", "45%">>}

MCCommon == {MCToken("word", "word"), MCToken("link", "and"), Stop}

MCAlphabets ==
    {MCCommon \cup {MCToken("history", "built"), MCToken("employer", "acme"), MCToken("employer", "globex"),
                    MCToken("employer", "initech"), MCToken("skill", "rust")},
     MCCommon \cup {MCToken("self", "i am"), MCToken("management", "led a team"), MCToken("rank", "director"),
                    MCToken("title", "cto"), MCToken("skill", "python")},
     MCCommon \cup {MCToken("metric", "5%"), MCToken("metric", "45%"), MCToken("tenure", "5years"),
                    MCToken("tenure", "9years"), MCToken("degree", "phd")},
     MCCommon \cup {MCToken("management", "managed staff"), MCToken("employer", "google"),
                    MCToken("certification", "aws certified"), MCToken("client", "federal client"),
                    MCToken("degree", "bachelor")}}

MCOriginals == {<<MCToken("history", "built"), MCToken("employer", "acme"), Stop>>}
=============================================================================
