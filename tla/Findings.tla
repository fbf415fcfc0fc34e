------------------------------ MODULE Findings ------------------------------
(***************************************************************************)
(* What counts as agreement between interviews:                            *)
(* src/backend/src/tenant/findings.ts and its browser twin                 *)
(* src/frontend/vyne-findings.js.  A finding is a claim a person made      *)
(* about a dimension; a claim is the set of its content words, which is    *)
(* all the comparison reads.  Findings are clustered greedily in the order *)
(* they are listed, and a cluster is corroborated when two attributions    *)
(* stand in it.                                                            *)
(*                                                                         *)
(* The findings of an engagement are a function from their places: the     *)
(* position of the round, that of the interview in it, the dimension.  An  *)
(* interview says at most one thing of a dimension.                        *)
(***************************************************************************)
EXTENDS Integers, FiniteSets, Sequences, SequencesExt

CONSTANT Unnamed       \* the name of an interviewee nobody named

MinSharedTokens == 2   \* MIN_SHARED_TOKENS

\* sameClaim: the same words, or two shared words that are half of the
\* shorter claim (SIMILARITY_THRESHOLD).
SameClaim(a, b) ==
  LET shared == Cardinality(a \cap b)
      shorter == IF Cardinality(a) <= Cardinality(b) THEN Cardinality(a)
                                                     ELSE Cardinality(b)
  IN  \/ a = b
      \/ shared >= MinSharedTokens /\ 2 * shared >= shorter

\* claimSimilarity, in hundredths.
Similarity(a, b) ==
  LET shorter == IF Cardinality(a) <= Cardinality(b) THEN Cardinality(a)
                                                     ELSE Cardinality(b)
  IN  (100 * Cardinality(a \cap b)) \div shorter

\* findingsOf: a finding with the role and the person of its interview.
FindingOf(iv, d) ==
  [dim |-> d, claim |-> iv.says[d], role |-> iv.role, name |-> iv.name,
   person |-> iv.person]

\* attributionLabels: the role, and the name too where several named people
\* hold it.
Label(findings, f) ==
  LET holders == {findings[p].name : p \in {q \in DOMAIN findings :
                    findings[q].role = f.role /\ findings[q].name # Unnamed}}
  IN  IF f.name # Unnamed /\ Cardinality(holders) > 1
        THEN <<f.role, f.name>> ELSE <<f.role>>

\* Any shared word is a match.
FitAny(claim, cluster) ==
  LET fits == {Similarity(claim, e.claim) : e \in cluster.entries}
  IN  CHOOSE v \in fits : \A w \in fits : w <= v

\* How well a claim fits a cluster: its best match, 0 for none.
Fit(claim, cluster) ==
  LET fits == {Similarity(claim, e.claim) : e \in {x \in cluster.entries :
                                                     SameClaim(claim, x.claim)}}
  IN  IF fits = {} THEN 0 ELSE CHOOSE v \in fits : \A w \in fits : w <= v

FitOf(f, cluster) == IF cluster.dim = f.dim THEN Fit(f.claim, cluster) ELSE 0

\* Where a finding goes: the clusters of its dimension it fits best.
Best(clusters, f) ==
  {c \in DOMAIN clusters :
     /\ FitOf(f, clusters[c]) > 0
     /\ \A k \in DOMAIN clusters : FitOf(f, clusters[k]) <= FitOf(f, clusters[c])}

Entry(findings, f) ==
  [claim |-> f.claim, label |-> Label(findings, f), person |-> f.person]

\* It joins the first of them, or starts a cluster.
Place(findings, clusters, f) ==
  LET best == Best(clusters, f)
      first == CHOOSE c \in best : \A k \in best : c <= k
  IN  IF best = {}
        THEN Append(clusters, [dim |-> f.dim, entries |-> {Entry(findings, f)}])
        ELSE [clusters EXCEPT ![first].entries = @ \cup {Entry(findings, f)}]

\* The order of the list.  What one interview says of its dimensions goes to
\* clusters of different dimensions, in whichever order.
Ahead(p, q) ==
  \/ p[1] < q[1]
  \/ p[1] = q[1] /\ p[2] < q[2]

LastListed(P) == CHOOSE p \in P : \A q \in P : ~Ahead(p, q)
FirstListed(P) == CHOOSE p \in P : \A q \in P : ~Ahead(q, p)

\* corroborateFindings' clusters, of the list or of its reverse.
Clusters(findings, listed) ==
  MapThenFoldSet(LAMBDA p, clusters : Place(findings, clusters, findings[p]),
                 <<>>, LAMBDA p : p,
                 LAMBDA P : IF listed THEN LastListed(P) ELSE FirstListed(P),
                 DOMAIN findings)

Labels(cluster) == {e.label : e \in cluster.entries}

Corroborated(findings, listed) ==
  {c \in Range(Clusters(findings, listed)) : Cardinality(Labels(c)) >= 2}

\* The dimensions several people raised without agreeing.
Thematic(findings, listed) ==
  LET rest(d) == {c \in Range(Clusters(findings, listed)) :
                    c \notin Corroborated(findings, listed) /\ c.dim = d}
  IN  {d \in {findings[p].dim : p \in DOMAIN findings} :
         Cardinality(UNION {Labels(c) : c \in rest(d)}) >= 2}
=============================================================================
