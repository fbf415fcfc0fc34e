------------------------- MODULE MCEngagementRounds -------------------------
EXTENDS EngagementRounds

MCDims == {"D1", "D2"}
MCRoles == {"CTO", "CHRO"}
MCWeight == [D1 |-> [CTO |-> 8, CHRO |-> 3], D2 |-> [CTO |-> 2, CHRO |-> 2]]
MCNames == {"Ann", "Bob", "Cy"}
MCPeople == {"ann", "bob", "cy"}
MCScores == {10, 37, 50}

\* Three words make a claim; the first two make one point, and the third only
\* shares a word with the first.
Lineage == {1, 2, 3}
LineageToo == {1, 2, 4}
Trust == {3, 5, 6}
MCClaims == {Lineage, LineageToo, Trust}

MCTiers == [D1 |-> "lead", D2 |-> "light"]

Answer(d1, d2, coverage, says) ==
  [scores |-> [D1 |-> d1, D2 |-> d2], coverage |-> coverage,
   tiers |-> MCTiers, says |-> says]

Untiered(d1, d2, says) == [Answer(d1, d2, Absent, says) EXCEPT !.tiers = Absent]

Held(person, name, role, by, pin, refresh, followUp, answers) ==
  [person |-> person, name |-> name, role |-> role, by |-> by, pin |-> pin,
   refresh |-> refresh, followUp |-> followUp, answers |-> answers]

MCSittings == {"first", "pinned", "follow", "refresh", "again"}
MCPlan ==
  [first |-> Held("ann", "Ann", "CTO", "link", 0, 0, FALSE,
     {Answer(10, 50, Absent, [D1 |-> Lineage]), Answer(50, 0, Absent, [D1 |-> Trust])}),
   pinned |-> Held("ann", "Ann", "CTO", "link", 3, 0, FALSE,
     {Answer(37, 0, Absent, [D1 |-> LineageToo])}),
   follow |-> Held("bob", "Bob", "CHRO", "link", 0, 0, TRUE,
     {Untiered(10, 37, [D1 |-> LineageToo])}),
   refresh |-> Held("cy", "Cy", "CTO", "page", 0, 2, FALSE,
     {Answer(50, 0, [D1 |-> 8, D2 |-> 0], [D2 |-> Trust])}),
   again |-> Held("ann", "Ann", "CTO", "page", 0, 0, FALSE,
     {Answer(37, 10, Absent, [D1 |-> Lineage])})]

ASSUME PlanAnswers == EveryoneAnswers /\ OnePersonOneKey /\ NoBridges
=============================================================================
