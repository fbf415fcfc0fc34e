-------------------------- MODULE EngagementRounds --------------------------
(***************************************************************************)
(* One engagement's record, the rounds the consultant plans, the           *)
(* interviews that land in them by two paths, and the scores three writers *)
(* keep on every round: the server's merge of an interview answered by     *)
(* link (tenant/engagementMerge.ts), the consultant's page at the end of   *)
(* one it ran itself (writeInterviewToEngagement), and Synthesis, which    *)
(* recomputes them all when it loads.                                      *)
(*                                                                         *)
(* Each action reads and writes the record at once: what two writers that  *)
(* overlap do to each other is the subject of WorkspaceStore and of        *)
(* Interviews.  Every round has a number, as the code has written since    *)
(* rounds have them, and a record's flat list of interviews from before is *)
(* left out; so are the event marks of a round, which are a function of    *)
(* its interviews, and the archive of replaced interviews, which nothing   *)
(* reads.                                                                  *)
(***************************************************************************)
EXTENDS EngagementMemory, Findings

CONSTANTS Sittings,    \* the interviews that may be held
          Plan,        \* [Sittings -> how each one is held, see SittingType]
          MaxRound,    \* bound on the rounds the consultant plans
          Roles, Names, People, Claims, Scores

SittingType ==
  [person : People, name : Names \cup {Unnamed}, role : Roles,
   by : {"link", "page"},      \* answered by link, or run in the consultant's page
   pin : 0..MaxRound,          \* the round an invitation names, 0 for none
   refresh : 0..MaxRound,      \* the round the page refreshes, 0 for none
   followUp : BOOLEAN,
   answers : SUBSET [scores : [Dims -> {0} \cup Scores],
                     coverage : {Absent} \cup UNION {[D -> 0..10] : D \in SUBSET Dims},
                     tiers : {Absent} \cup UNION {[D -> DOMAIN TierWeight] :
                                                    D \in SUBSET Dims},
                     says : UNION {[D -> Claims] : D \in SUBSET Dims}]]

ASSUME PlanAssumption == Plan \in [Sittings -> SittingType]
ASSUME WeightAssumption == Weight \in [Dims -> [Roles -> Nat]]
ASSUME ScoreAssumption == Scores \subseteq Nat \ {0}
ASSUME DimsAssumption == IsFiniteSet(Dims)
ASSUME ClaimAssumption == \A c \in Claims : IsFiniteSet(c) /\ c # {}
ASSUME RoundBoundAssumption == MaxRound \in Nat /\ Absent \notin Sittings

VARIABLES rounds,      \* the record's rounds, in the order they were created
          current,     \* the number of the round currentRoundId names, or Absent
          memory,      \* vynora_memory_<CODE> as the last close left it, or Absent
          done         \* the sittings answered by link, which are answered once

roundVars == <<rounds, current, memory, done>>

NoRound(n) == [number |-> n, ivs |-> <<>>, scores |-> <<>>]

Position(n) == CHOOSE i \in DOMAIN rounds : rounds[i].number = n

\* The round of that number, created last in the record when there is none.
WithRound(n) ==
  IF n \in Numbers(rounds) THEN rounds ELSE Append(rounds, NoRound(n))

\* The record an interview leaves.  Coverage counts only in a refresh.
Record(s, a) ==
  LET p == Plan[s] IN
  [source |-> IF p.by = "link" THEN s ELSE Absent,
   person |-> p.person, name |-> p.name, role |-> p.role,
   followUp |-> p.followUp, refresh |-> p.by = "page" /\ p.refresh > 0,
   scores |-> a.scores, tiers |-> a.tiers, says |-> a.says,
   coverage |-> IF p.by = "page" /\ p.refresh > 0 THEN a.coverage ELSE Absent]

SameInterviewee(a, b) == a.role = b.role /\ a.name # Unnamed /\ a.name = b.name

\* The entry an interview replaces: the server's rule, and the page's.
MatchesLink(old, new) ==
  \/ old.source = new.source
  \/ ~new.followUp /\ ~old.followUp /\ SameInterviewee(old, new)

MatchesPage(old, new) ==
  IF old.source # Absent /\ new.source # Absent THEN old.source = new.source
  ELSE ~old.followUp /\ ~new.followUp /\ SameInterviewee(old, new)

Matches(by, old, new) ==
  IF by = "link" THEN MatchesLink(old, new) ELSE MatchesPage(old, new)

\* The interview put in its round, and the round scored anew.
Upserted(n, iv, by) ==
  LET R == WithRound(n)
      i == CHOOSE j \in DOMAIN R : R[j].number = n
      found == {k \in DOMAIN R[i].ivs : Matches(by, R[i].ivs[k], iv)}
      ivs == IF found = {} THEN Append(R[i].ivs, iv)
                           ELSE [R[i].ivs EXCEPT ![Min(found)] = iv]
  IN  Rescored([R EXCEPT ![i].ivs = ivs], i)

Land(n, iv, by) ==
  /\ rounds' = Upserted(n, iv, by)
  /\ current' = IF n \in Numbers(rounds) THEN current ELSE n
  /\ UNCHANGED memory

\* mergeSessionIntoEngagement: the round the invitation names, else the
\* current one, else the one created last.
LinkRound(s) ==
  IF Plan[s].pin > 0 THEN Plan[s].pin
  ELSE IF current # Absent THEN current
  ELSE IF rounds # <<>> THEN Last(rounds).number ELSE 1

Link(s) ==
  /\ Plan[s].by = "link" /\ s \notin done
  /\ \E a \in Plan[s].answers : Land(LinkRound(s), Record(s, a), "link")
  /\ done' = done \cup {s}

\* writeInterviewToEngagement: the round being refreshed, else the current
\* one, else the highest.  The page may run the same interview again.
PageRound(s) ==
  IF Plan[s].refresh > 0 THEN Plan[s].refresh
  ELSE IF current # Absent THEN current
  ELSE IF rounds # <<>> THEN Max(Numbers(rounds)) ELSE 1

Run(s) ==
  /\ Plan[s].by = "page"
  /\ \E a \in Plan[s].answers : Land(PageRound(s), Record(s, a), "page")
  /\ UNCHANGED done

\* Pre-engagement: the next round, empty, becomes the current one.
PlanRound ==
  LET n == NextRoundNumber(rounds) IN
  /\ rounds # <<>> /\ n <= MaxRound
  /\ rounds' = Append(rounds, NoRound(n))
  /\ current' = n
  /\ UNCHANGED <<memory, done>>

\* Synthesis opened on the engagement.
LoadSynthesis ==
  /\ rounds # <<>>
  /\ rounds' = RecomputeAll(rounds)
  /\ UNCHANGED <<current, memory, done>>

\* Synthesis's dashboard drawn for a round with interviews.
RenderDashboard(i) ==
  /\ rounds[i].ivs # <<>>
  /\ rounds' = Rescored(rounds, i)
  /\ UNCHANGED <<current, memory, done>>

\* Closing a round keeps what the engagement knows.
CloseRound ==
  /\ \E i \in DOMAIN rounds : rounds[i].ivs # <<>>
  /\ memory' = Build(rounds)
  /\ UNCHANGED <<rounds, current, done>>

RoundsInit == rounds = <<>> /\ current = Absent /\ memory = Absent /\ done = {}

RoundsNext ==
  \/ \E s \in Sittings : Link(s)
  \/ \E s \in Sittings : Run(s)
  \/ PlanRound
  \/ LoadSynthesis
  \/ \E i \in DOMAIN rounds : RenderDashboard(i)
  \/ CloseRound

RoundsSpec == RoundsInit /\ [][RoundsNext]_roundVars

-----------------------------------------------------------------------------
\* The findings of every round, in the order of the record.
AllFindings(R) ==
  [p \in UNION {{<<x[1], x[2], d>> : d \in DOMAIN InterviewAt(R, x).says} : x \in AllInterviews(R)} |->
     FindingOf(InterviewAt(R, <<p[1], p[2]>>), p[3])]

\* loadClientEvidence: what the solution design is told of the engagement.
ClientEvidence(R) ==
  LET shown == R[LatestScored(R)]
      overall == OverallOf(shown.scores, DimensionWeights(shown.ivs))
      confirmed == Corroborated(AllFindings(R), TRUE)
  IN  IF ScoredRounds(R) = {}
        THEN [scores |-> Absent, maturity |-> Absent, confirmed |-> confirmed]
        ELSE [scores |-> shown.scores, maturity |-> MaturityBand(overall),
              confirmed |-> confirmed]

Interviewed(R, i) == R[i].ivs # <<>>

\* A round's stored scores are what its interviews and the rounds before it
\* give.
Settled(R, i) == Rescored(R, i) = R

\* A round with no interview has no score, and every number names one round:
\* planning a round neither measures anything nor takes a number another
\* round has, whichever of the page, the server and Synthesis wrote last.
PlannedIsEmpty ==
  /\ \A i \in DOMAIN rounds : ~Interviewed(rounds, i) => DOMAIN rounds[i].scores = {}
  /\ \A i, j \in DOMAIN rounds : rounds[i].number = rounds[j].number => i = j

\* The same without a reload, which the comment at engagementMerge.ts:456 says
\* one formula brought about; it does not hold, see StaleOnlyFromBefore.
ScoresFollowAnswers ==
  \A i \in DOMAIN rounds : Interviewed(rounds, i) => Settled(rounds, i)

\* After Synthesis has loaded, every score rests on answers: scoring any one
\* round again, as the server and the page do, changes nothing, and each score
\* lies between the lowest and the highest answer given to its dimension in
\* that round or an earlier one.
ScoresRestOnAnswers ==
  LET R == RecomputeAll(rounds)
      answers(i, d) == UNION {{AnswerOf(R[j].ivs, d, k) : k \in Entries(R[j].ivs, d)} :
                                j \in {x \in DOMAIN R : R[x].number <= R[i].number}}
  IN  \A i \in DOMAIN R : Interviewed(R, i) =>
        /\ Settled(R, i)
        /\ \A d \in DOMAIN R[i].scores :
             /\ \E lo \in answers(i, d) : lo <= R[i].scores[d]
             /\ \E hi \in answers(i, d) : R[i].scores[d] <= hi

\* The stored scores of a round stop following from its answers only when
\* something is written to a round before it.
StaleOnlyFromBefore ==
  [][\A i \in DOMAIN rounds :
       /\ Settled(rounds, i) /\ Interviewed(rounds, i)
       /\ ~Settled(rounds', i)
       => \E j \in DOMAIN rounds' : /\ rounds'[j].number < rounds[i].number
                                    /\ j \in DOMAIN rounds => rounds'[j] # rounds[j]]_roundVars

\* The portfolio card never goes blank and never goes back to an earlier
\* round: planning a round, or filling an earlier one late, leaves it alone.
CardMovesForward ==
  [][\A card \in Scorecard(rounds) :
       \E next \in Scorecard(rounds') : next.round >= card.round]_roundVars

\* A score carried into a round is known as unconfirmed to the next interview
\* of everybody who sat that round: whoever has a score on it has it from
\* before.
CarriedIsFlagged ==
  \A i \in DOMAIN rounds : Interviewed(rounds, i) =>
    \A d \in DOMAIN rounds[i].scores, k \in DOMAIN rounds[i].ivs :
      LET view == SelfView(Build(rounds), PersonKey(rounds[i].ivs[k])) IN
      /\ Entries(rounds[i].ivs, d) = {} /\ view # Absent
      => \/ d \notin DOMAIN view
         \/ view[d].lastMeasuredRound = Absent
         \/ view[d].lastMeasuredRound > rounds[i].number
         \/ view[d].stale

\* Words quoted back to an interviewee as their own are their own, and none
\* of theirs are among what others are said to have told.
QuotedWordsAreTheirs ==
  memory # Absent =>
    \A s \in Sittings :
      LET key == PersonKey(Plan[s])
          view == SelfView(memory, key)
      IN  /\ view # Absent =>
               \A d \in DOMAIN view : view[d].text # Absent =>
                 view[d].text.person = Plan[s].person
          /\ \A d \in Dims : \A t \in AmbientView(memory, key, d) :
               t.person # Plan[s].person

\* The solution design is told the maturity the card shows.  What it is told
\* as agreed takes two people who made the same point, what it is told several
\* raised takes two people who raised it, and neither depends on the order the
\* interviews came in.
EvidenceHolds ==
  LET found == AllFindings(rounds)
      evidence == ClientEvidence(rounds)
  IN  /\ \A card \in Scorecard(rounds) : /\ evidence.scores = card.scores
                                          /\ evidence.maturity = card.maturity
      /\ \A c \in evidence.confirmed :
           \E e, f \in c.entries : e.person # f.person /\ SameClaim(e.claim, f.claim)
      /\ \A d \in Thematic(found, TRUE) :
           \E p, q \in DOMAIN found : /\ found[p].dim = d /\ found[q].dim = d
                                       /\ found[p].person # found[q].person
      /\ Corroborated(found, FALSE) = evidence.confirmed
      /\ Thematic(found, FALSE) = Thematic(found, TRUE)

\* Planning measures nothing, and what is shown was measured.
ScoresHold == PlannedIsEmpty /\ ScoresRestOnAnswers

\* Nothing is put into a mouth it did not come from, nor told as agreed, or as
\* confirmed, without somebody who said so.
NothingMisattributed == CarriedIsFlagged /\ QuotedWordsAreTheirs /\ EvidenceHolds

\* The card follows the answers: it never goes back, and a score is out of date
\* only behind a round that was written to late.
CardFollowsAnswers == StaleOnlyFromBefore /\ CardMovesForward

\* Nobody ends an interview without an answer that was scored.  The code does
\* not insist on it: an interview that answered nothing can replace one that
\* did, and leaves its round without a score and the card without its round.
EveryoneAnswers ==
  \A s \in Sittings : \A a \in Plan[s].answers : \E d \in Dims : a.scores[d] > 0

\* Everybody has one role and one name, and nobody else both.  The code tells
\* people apart by them: two unnamed holders of a role are one to it, and who
\* is interviewed under two roles is two.
OnePersonOneKey ==
  \A s, t \in Sittings :
    Plan[s].person = Plan[t].person <=> PersonKey(Plan[s]) = PersonKey(Plan[t])

\* No claim makes one point with each of two that do not make one with each
\* other.  With one that does, the clusters depend on who was first.
NoBridges ==
  \A a, b, c \in Claims : SameClaim(a, b) /\ SameClaim(b, c) => SameClaim(a, c)
=============================================================================
