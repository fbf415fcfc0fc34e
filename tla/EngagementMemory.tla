-------------------------- MODULE EngagementMemory --------------------------
(***************************************************************************)
(* What the next interview is told of the earlier ones:                    *)
(* src/frontend/vyne-memory.js.  Derived from the engagement's rounds when *)
(* a round is closed, kept, and read back by the person it is about.       *)
(***************************************************************************)
EXTENDS Scoring

\* Two people who hold one role are two people.
PersonKey(iv) == <<iv.role, iv.name>>

\* The interviews, each by the position of its round and its own in it.
AllInterviews(rounds) == UNION {{<<i, k>> : k \in DOMAIN rounds[i].ivs} : i \in DOMAIN rounds}

InterviewAt(rounds, x) == rounds[x[1]].ivs[x[2]]

SatBy(rounds, key) == {x \in AllInterviews(rounds) : PersonKey(InterviewAt(rounds, x)) = key}

\* One person's sittings that addressed a dimension, with a score, a finding
\* or both, and those with a score.
ScoredBy(rounds, key, d) ==
  {x \in SatBy(rounds, key) : InterviewAt(rounds, x).scores[d] > 0}

History(rounds, key, d) ==
  ScoredBy(rounds, key, d) \cup
    {x \in SatBy(rounds, key) : d \in DOMAIN InterviewAt(rounds, x).says}

\* The first and the last of some interviews, in the order of their rounds.
Oldest(rounds, X) ==
  LET i == CHOOSE j \in {x[1] : x \in X} : \A x \in X : ~Before(rounds, x[1], j)
  IN  <<i, Min({x[2] : x \in {y \in X : y[1] = i}})>>

Newest(rounds, X) ==
  LET i == Latest(rounds, {x[1] : x \in X})
  IN  <<i, Max({x[2] : x \in {y \in X : y[1] = i}})>>

Stale(sat, measured) == Max(sat) > measured

\* A dimension of a person: the last score, where it was measured, whether
\* the person has sat a round since, the way it went, and the last words.
Dimension(rounds, key, d) ==
  LET scored == ScoredBy(rounds, key, d)
      latest == Newest(rounds, History(rounds, key, d))
      score(x) == InterviewAt(rounds, x).scores[d]
      measured == Newest(rounds, scored)
      round == rounds[measured[1]].number
      iv == InterviewAt(rounds, measured)
      said == InterviewAt(rounds, latest)
  IN  [score |-> IF scored = {} THEN Absent ELSE score(measured),
       coverage |-> IF scored = {} \/ iv.coverage = Absent THEN Absent
                    ELSE IF d \in DOMAIN iv.coverage THEN iv.coverage[d] ELSE Absent,
       lastMeasuredRound |-> IF scored = {} THEN Absent ELSE round,
       stale |-> /\ scored # {}
                 /\ Stale({rounds[x[1]].number : x \in SatBy(rounds, key)}, round),
       movement |-> IF Cardinality(scored) > 1
                      THEN score(measured) - score(Oldest(rounds, scored)) ELSE Absent,
       round |-> rounds[latest[1]].number,
       text |-> IF d \in DOMAIN said.says
                  THEN [claim |-> said.says[d], person |-> said.person] ELSE Absent]

\* build: every person with evidence on some dimension.
Build(rounds) ==
  LET keys == {PersonKey(InterviewAt(rounds, x)) : x \in AllInterviews(rounds)}
      dims(k) == {d \in Dims : History(rounds, k, d) # {}}
  IN  [k \in {j \in keys : dims(j) # {}} |->
         [d \in dims(k) |-> Dimension(rounds, k, d)]]

\* selfView: a person's own material, Absent for somebody never heard.
SelfView(memory, key) == IF key \in DOMAIN memory THEN memory[key] ELSE Absent

\* ambientView: the words of everybody else on a dimension, unattributed.
\* AMBIENT_PER_DIM keeps the two newest; all are listed here.
AmbientView(memory, key, d) ==
  {memory[k][d].text : k \in {j \in DOMAIN memory \ {key} :
                                /\ d \in DOMAIN memory[j]
                                /\ memory[j][d].text # Absent}}
=============================================================================
