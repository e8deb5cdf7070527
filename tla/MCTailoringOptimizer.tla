------------------------ MODULE MCTailoringOptimizer ------------------------
(* Three requirements, a recent role of two bullets and an older one of three. *)
EXTENDS TailoringOptimizer

MCSlots == {<<1, 1>>, <<1, 2>>, <<2, 1>>, <<2, 2>>, <<2, 3>>}

MCSays(jd, own) == (jd \X {"jd"}) \cup (own \X {"own"})
MCBullet(id, jd, own, fact, names) ==
    [id |-> id, says |-> MCSays(jd, own), fact |-> fact, names |-> names]

MCSummary(tier2) == IF tier2 = "B" THEN <<<<2, "own">>>> ELSE <<>>
MCWhere(tier2) == CASE tier2 = "B" -> Summary [] tier2 = "cert" -> Certificate [] OTHER -> Skills

\* The first requirement stands in a bullet, in the candidate's spelling when
\* respelled; the second where its tier has it; the last is inferred from two
\* older bullets together.  named: the older bullets that name the client.
MCSource(tier2, respelled, named, redundant) ==
    [headline |-> [role |-> "own", tail |-> <<>>],
     summary |-> MCSummary(tier2), cited |-> FALSE,
     skills |-> IF tier2 = "C" THEN <<<<2, "own">>>> ELSE <<>>,
     bullets |->
        (<<1, 1>> :> MCBullet(11, {1} \ respelled, {1} \cap respelled, FALSE, {})) @@
        (<<1, 2>> :> MCBullet(12, {}, {}, TRUE, {})) @@
        [s \in {<<2, 1>>, <<2, 2>>, <<2, 3>>} |->
            MCBullet(20 + s[2], IF s = <<2, 1>> /\ redundant THEN {1} ELSE {}, {}, FALSE,
                     IF s \in named THEN {"client"} ELSE {})],
     removed |-> <<>>, changes |-> {}]

MCFindings ==
    {{}, {{Label("mention_summary", 1, Summary)}},
     {{Label("mention_summary", 1, Summary), Label("append_skill", 3, Skills)}},
     {{Label("append_skill", 1, Skills)}, {Label("mention_summary", 3, Summary), Label("quality", 0, Summary)}},
     {{l} : l \in [op : {"mention_summary", "append_skill", "headline_mention", "quality"},
                   term : 0..3, at : {Headline, Summary, Skills}]},
     {{Label("prune", 0, <<2, 2>>)}, {Label("skill_reorder", 0, Skills)}}}

MCCase(policy, prose, tier2, respelled, risky, named, redundant, refused, unparsed, fatal) ==
    [source |-> MCSource(tier2, respelled, named, redundant),
     identity |-> [says |-> {}, words |-> 2],
     ownTitle |-> [says |-> IF redundant THEN MCSays({3}, {}) ELSE {}, words |-> 5],
     newHeadline |-> [role |-> "identity", tail |-> <<<<1, "jd">>>>],
     newSummary |-> Append(MCSummary(tier2), <<1, "jd">>),
     aiSummary |-> <<<<1, "jd">>, <<3, "jd">>>>,
     truthful |-> {Label("quality", 0, Summary)} \cup (IF redundant THEN {} ELSE {Label("ai", 0, Summary)}),
     rewritten |-> <<<<1, 1>>, <<2, 1>>>>,
     rewrites |-> (<<1, 1>> :> MCBullet(31, {1, 3}, {}, FALSE, {}))
                    @@ (<<2, 1>> :> MCBullet(32, {}, {}, FALSE, {})),
     tier |-> <<"A", tier2, "A">>,
     at |-> <<<<1, 1>>, MCWhere(tier2), <<2, 2>>>>,
     evidence |-> <<{<<1, 1>>}, {MCWhere(tier2)}, {<<2, 2>>, <<2, 3>>}>>,
     target |-> <<2, 1, 1>>, variant |-> respelled \cup {2}, risky |-> risky,
     titled |-> {1, 2}, policy |-> policy, prose |-> prose,
     refused |-> refused, unparsed |-> unparsed, fatal |-> fatal]

\* A resume whose parse lost a requirement, and one whose projection lost a fact.
MCUnreadable ==
    {MCCase("pareto", TRUE, "C", {}, {}, {}, FALSE, {}, {3}, FALSE),
     MCCase("pareto", TRUE, "C", {}, {}, {}, FALSE, {}, {}, TRUE)}

MCCases == MCUnreadable \cup
    {MCCase(policy, prose, tier2, respelled, risky, named, redundant, refused, unparsed, FALSE) :
        policy \in {"pareto", "legacy"}, prose \in BOOLEAN, tier2 \in {"B", "C", "cert", "missing"},
        respelled \in {{}, {1}}, risky \in {{}, {2}},
        named \in {{}, {<<2, 1>>}, {<<2, 1>>, <<2, 2>>}}, redundant \in BOOLEAN,
        refused \in MCFindings, unparsed \in {{}, {2}}}
=============================================================================
