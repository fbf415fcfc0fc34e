-------------------------- MODULE SyntheticProofs --------------------------
(***************************************************************************)
(* What a committed practice engagement is: proofs about Synthetic, for    *)
(* any number of pages, clients, catalogs, generations and failures.       *)
(*                                                                         *)
(* The invariant has five parts.  TypeOK is the shape of everything.       *)
(* ServerInv is what real work and commits owe each other: a client's      *)
(* entry names its own engagement, what a commit was told of it stays      *)
(* true, commits of only one client write at a time and one of them has    *)
(* read the record.  PagesStory is what a page holds while it plays,       *)
(* commits and retries: a tale of its own roster, in which everybody was   *)
(* played, failed, or is still to be asked.  JobsTell says a commit        *)
(* carries such a tale.  TrackerInv says the rows, transcripts, record and *)
(* synthesis of a client hold one.                                         *)
(*                                                                         *)
(* The hypotheses.  NamesApart: no two spellings share a norm or a         *)
(* generated code.  PersonasApart: no catalog has a persona twice.         *)
(* InOrder: no two requests overlap that the code does not order;          *)
(* ServerInOrder asks that of the server only, and leaves a page its retry *)
(* beside a new generation.                                                *)
(***************************************************************************)
EXTENDS Synthetic, FiniteSetTheorems, TLAPS

-----------------------------------------------------------------------------
(* Clients, codes and catalogs.                                             *)

LEMMA CodesOfNames ==
  ASSUME NEW n \in Names
  PROVE  /\ Norm[n] \in Norms /\ Norm[n] \in Codes
         /\ SynCode[n] \in Codes /\ SynCode[n] \notin Norms
         /\ Norm[n] # None /\ SynCode[n] # None
BY Assumptions DEF Norms, Codes

LEMMA NormsAreOfNames ==
  ASSUME NEW c \in Norms
  PROVE  c \in Codes /\ c # None /\ \E n \in Names : c = Norm[n]
BY Assumptions DEF Norms, Codes

\* A briefing stands for a catalog, the first one if there is none.
LEMMA RosterIsACatalog ==
  ASSUME NEW b \in {None} \cup 0 .. Len(Catalogs)
  PROVE  \E k \in DOMAIN Catalogs : Roster(b) = Catalogs[k]
<1>1. DOMAIN Catalogs = 1 .. Len(Catalogs) /\ Len(Catalogs) \in Nat /\ Len(Catalogs) >= 1
  BY Assumptions
<1>2. CASE b \in {None, 0}
  BY <1>1, <1>2 DEF Roster
<1>3. CASE b \notin {None, 0}
  BY <1>1, <1>3 DEF Roster
<1>. QED
  BY <1>2, <1>3

LEMMA CatalogPlaces ==
  ASSUME NEW k \in DOMAIN Catalogs, NEW i \in DOMAIN Catalogs[k]
  PROVE  i \in Places /\ Catalogs[k][i] \in Personas
BY DEF Places, Personas

-----------------------------------------------------------------------------
(* Sittings.                                                                *)

LEMMA ToldOfIsTelling ==
  ASSUME NEW S \in SUBSET Sitting, NEW round
  PROVE  ToldOf(S, round) \subseteq Telling
BY DEF ToldOf, Told, Telling, Sitting

LEMMA MoreIsTold ==
  ASSUME NEW S, NEW T, S \subseteq T, NEW round
  PROVE  ToldOf(S, round) \subseteq ToldOf(T, round)
BY DEF ToldOf

\* What the persona route answers with.
LEMMA ServesOne ==
  ASSUME NEW n \in Names, NEW i, NEW who, NEW round \in Rounds,
         NEW after \in SUBSET Telling, NEW run \in 0 .. MaxRuns, NEW by \in {"gen", "retry"},
         Briefing(Norm[n]) \in {None} \cup 0 .. Len(Catalogs),
         NEW s \in Serves(n, i, who, round, after, <<run, by>>)
  PROVE  /\ s \in Sitting
         /\ s.who = who /\ s.round = round /\ s.after = after
         /\ round = 2 => after # {}
         /\ Serves(n, i, who, round, after, <<run, by>>) = {s}
<1> DEFINE roster == Roster(Briefing(Norm[n]))
<1>1. PICK k \in DOMAIN Catalogs : roster = Catalogs[k]
  BY RosterIsACatalog
<1>2. /\ i \in DOMAIN roster /\ roster[i] = who /\ (round > 1 => after # {})
      /\ s = [who |-> roster[i], round |-> round, run |-> run, by |-> by, after |-> after]
  BY DEF Serves
<1>3. who \in Personas
  BY <1>1, <1>2, CatalogPlaces
<1>4. Serves(n, i, who, round, after, <<run, by>>) = {s}
  BY DEF Serves
<1>. QED
  BY <1>2, <1>3, <1>4 DEF Sitting, Rounds

LEMMA ServesType ==
  ASSUME NEW n \in Names, NEW i, NEW who, NEW round \in Rounds,
         NEW after \in SUBSET Telling, NEW run \in 0 .. MaxRuns, NEW by,
         by = "gen" \/ by = "retry",
         Briefing(Norm[n]) \in {None} \cup 0 .. Len(Catalogs)
  PROVE  Serves(n, i, who, round, after, <<run, by>>) \subseteq Sitting
<1>1. by \in {"gen", "retry"}
  OBVIOUS
<1>. QED
  BY <1>1, ServesOne

-----------------------------------------------------------------------------
(* Types.                                                                   *)

Row ==
  [client : Names, code : Codes, sitting : Sitting, kind : {"initial", "follow_up"},
   login : {None} \cup (Codes \X {who.name : who \in Personas}), synthetic : {TRUE}]

Commit ==
  [pc : {"context", "index", "record"}, name : Names, sittings : SUBSET Sitting,
   code : Codes, existing : BOOLEAN, briefed : BOOLEAN,
   index : {None} \cup [Norms -> Codes \cup {None}], record : {None} \cup Record]

Round ==
  [pc : {"round"}, name : Names, rounds : Rounds, round : Rounds, queue : SUBSET Places,
   got : SUBSET Sitting, after : SUBSET Telling]

Loop == [pc : {"loop"}, pending : SUBSET Missing]

Asked ==
  [pc : {"asked"}, pending : SUBSET Missing, f : Missing, after : SUBSET Telling,
   name : Names, who : Personas, array : BOOLEAN]

Busy(t) == job[t].pc # "idle"

ServerTypes ==
  /\ index \in [Norms -> Codes \cup {None}]
  /\ records \in [Codes -> Record \cup {None}]
  /\ syntheses \in [Codes -> SUBSET Sitting]
  /\ briefings \in [Codes -> {None} \cup 0 .. Len(Catalogs)]
  /\ rows \subseteq Row
  /\ wrote \in [Norms -> {None} \cup 2 .. Len(Catalogs)]
  /\ opened \subseteq Norms /\ finished \subseteq Norms

\* A commit runs for a thread that waits for it.
JobTypes ==
  /\ DOMAIN job = Threads
  /\ \A t \in Threads :
       /\ Busy(t) => job[t] \in Commit /\ ThreadAt(t) = "commit"
       /\ Writing(t) => job[t].index \in [Norms -> Codes \cup {None}]

GenTypes(g) ==
  /\ g.pc \in {"idle", "error", "round", "commit", "shown"}
  /\ g.pc = "round" => g \in Round
  /\ g.pc = "commit" => g.name \in Names
  /\ g.pc \in {"commit", "shown"} => g.rounds \in Rounds

RetryTypes(r) ==
  /\ r.pc \in {"idle", "loop", "asked", "commit", "done"}
  /\ r.pc = "loop" => r \in Loop
  /\ r.pc = "asked" => r \in Asked

PageTypes(p) ==
  /\ GenTypes(gen[p]) /\ RetryTypes(retry[p])
  /\ collected[p] \subseteq Sitting /\ failures[p] \subseteq Missing
  /\ IF gen[p].pc = "idle" THEN failures[p] = {} /\ retry[p].pc = "idle"
     ELSE /\ context[p].name \in Names /\ context[p].run \in 0 .. MaxRuns
          /\ \E k \in DOMAIN Catalogs : context[p].roster = Catalogs[k]

PagesTypes ==
  /\ DOMAIN context = Pages /\ DOMAIN collected = Pages /\ DOMAIN failures = Pages
  /\ DOMAIN gen = Pages /\ DOMAIN retry = Pages
  /\ runs \in 0 .. MaxRuns
  /\ \A p \in Pages : PageTypes(p)

TypeOK == ServerTypes /\ JobTypes /\ PagesTypes

LEMMA BriefingType ==
  ASSUME ServerTypes, NEW c \in Norms
  PROVE  Briefing(c) \in {None} \cup 0 .. Len(Catalogs)
<1>1. c \in Codes
  BY NormsAreOfNames
<1>2. index[c] \in Codes \cup {None}
  BY DEF ServerTypes
<1>. QED
  BY <1>1, <1>2 DEF ServerTypes, Briefing

LEMMA CodeOfType ==
  ASSUME ServerTypes, NEW n \in Names
  PROVE  CodeOf(n) \in Codes
BY CodesOfNames DEF ServerTypes, CodeOf

LEMMA ThreadsOfPages ==
  /\ \A p \in Pages : <<p, "gen">> \in Threads /\ <<p, "retry">> \in Threads
  /\ \A t \in Threads : t[1] \in Pages /\ t[2] \in {"gen", "retry"} /\ t = <<t[1], t[2]>>
BY DEF Threads

\* Nothing of the server, the real work and the commits changes.
LEMMA PageStepTypes ==
  ASSUME TypeOK, UNCHANGED <<server, real, job>>, PagesTypes',
         \A t \in Threads : Busy(t) => ThreadAt(t)' = ThreadAt(t)
  PROVE  TypeOK'
<1>1. ServerTypes'
  BY DEF TypeOK, ServerTypes, server, real
<1>2. JobTypes'
  BY DEF TypeOK, JobTypes, Busy, Writing
<1>. QED
  BY <1>1, <1>2 DEF TypeOK

\* One page changes.
LEMMA PagesButOne ==
  ASSUME PagesTypes, NEW p \in Pages,
         DOMAIN context' = Pages, DOMAIN collected' = Pages, DOMAIN failures' = Pages,
         DOMAIN gen' = Pages, DOMAIN retry' = Pages, runs' \in 0 .. MaxRuns,
         \A q \in Pages \ {p} :
           /\ context'[q] = context[q] /\ collected'[q] = collected[q]
           /\ failures'[q] = failures[q] /\ gen'[q] = gen[q] /\ retry'[q] = retry[q],
         PageTypes(p)'
  PROVE  PagesTypes'
<1>1. ASSUME NEW q \in Pages, q # p PROVE PageTypes(q)'
  BY <1>1 DEF PagesTypes, PageTypes
<1>. QED
  BY <1>1 DEF PagesTypes

LEMMA MisdirectedTypes ==
  ASSUME NEW r, RetryTypes(r)
  PROVE  RetryTypes(IF r.pc = "asked" THEN [r EXCEPT !.array = FALSE]
                    ELSE IF r.pc = "done" THEN Idle ELSE r)
<1>1. RetryTypes(Idle)
  BY DEF RetryTypes, Idle
<1>2. ASSUME r.pc = "asked" PROVE RetryTypes([r EXCEPT !.array = FALSE])
  <2>1. [r EXCEPT !.array = FALSE] \in Asked
    BY <1>2 DEF RetryTypes, Asked
  <2>. QED
    BY <2>1 DEF RetryTypes, Asked
<1>. QED
  BY <1>1, <1>2

LEMMA GenerateTypes ==
  ASSUME TypeOK, NEW p \in Pages, NEW n \in Names, NEW rounds \in Rounds, Generate(p, n, rounds)
  PROVE  TypeOK'
<1> DEFINE roster == Roster(Briefing(Norm[n]))
<1>1. /\ runs < MaxRuns /\ gen[p].pc \in {"idle", "shown", "error"}
      /\ context' = [context EXCEPT ![p] = [name |-> n, roster |-> roster, run |-> runs + 1]]
      /\ gen' = [gen EXCEPT ![p] =
           [pc |-> "round", name |-> n, rounds |-> rounds, round |-> 1,
            queue |-> DOMAIN roster, got |-> {}, after |-> {}]]
      /\ collected' = [collected EXCEPT ![p] = {}] /\ failures' = [failures EXCEPT ![p] = {}]
      /\ retry' = [retry EXCEPT ![p] =
           IF @.pc = "asked" THEN [@ EXCEPT !.array = FALSE]
           ELSE IF @.pc = "done" THEN Idle ELSE @]
      /\ runs' = runs + 1 /\ UNCHANGED <<server, real, job>>
  BY DEF Generate
<1>2. PICK k \in DOMAIN Catalogs : roster = Catalogs[k]
  <2>1. Briefing(Norm[n]) \in {None} \cup 0 .. Len(Catalogs)
    BY CodesOfNames, BriefingType DEF TypeOK
  <2>. QED
    BY <2>1, RosterIsACatalog
<1>3. DOMAIN roster \subseteq Places
  BY <1>2, CatalogPlaces
<1> HIDE DEF roster
<1>4. PagesTypes /\ runs' \in 0 .. MaxRuns
  BY <1>1, Assumptions DEF TypeOK, PagesTypes
<1>5. GenTypes(gen'[p])
  BY <1>1, <1>3, <1>4 DEF PagesTypes, GenTypes, Round, Rounds
<1>6. RetryTypes(retry'[p])
  <2>1. /\ RetryTypes(retry[p])
        /\ retry'[p] = IF retry[p].pc = "asked" THEN [retry[p] EXCEPT !.array = FALSE]
                       ELSE IF retry[p].pc = "done" THEN Idle ELSE retry[p]
    BY <1>1, <1>4 DEF PagesTypes, PageTypes
  <2>. QED
    BY <2>1, MisdirectedTypes
<1>7. PageTypes(p)'
  BY <1>1, <1>2, <1>4, <1>5, <1>6 DEF PagesTypes, PageTypes
<1>8. PagesTypes'
  BY <1>1, <1>4, <1>7, PagesButOne DEF PagesTypes
<1>9. \A t \in Threads : Busy(t) => ThreadAt(t)' = ThreadAt(t)
  <2>1. ASSUME NEW t \in Threads, Busy(t) PROVE ThreadAt(t)' = ThreadAt(t)
    <3>1. ThreadAt(t) = "commit" /\ t[1] \in Pages
      BY <2>1, ThreadsOfPages DEF TypeOK, JobTypes
    <3>. QED
      BY <1>1, <1>4, <3>1 DEF ThreadAt, PagesTypes
  <2>. QED
    BY <2>1
<1>. QED
  BY <1>1, <1>8, <1>9, PageStepTypes

\* A step of a page that no commit runs for, or waits for.
LEMMA OnePageTypes ==
  ASSUME TypeOK, UNCHANGED <<server, real, job>>, NEW p \in Pages,
         DOMAIN context' = Pages, DOMAIN collected' = Pages, DOMAIN failures' = Pages,
         DOMAIN gen' = Pages, DOMAIN retry' = Pages, runs' = runs,
         \A q \in Pages \ {p} :
           /\ context'[q] = context[q] /\ collected'[q] = collected[q]
           /\ failures'[q] = failures[q] /\ gen'[q] = gen[q] /\ retry'[q] = retry[q],
         gen[p].pc = "commit" => gen'[p].pc = "commit",
         retry[p].pc = "commit" => retry'[p].pc = "commit",
         PageTypes(p)'
  PROVE  TypeOK'
<1>1. PagesTypes'
  BY PagesButOne DEF TypeOK, PagesTypes
<1>2. \A t \in Threads : Busy(t) => ThreadAt(t)' = ThreadAt(t)
  <2>1. ASSUME NEW t \in Threads, Busy(t) PROVE ThreadAt(t)' = ThreadAt(t)
    <3>1. ThreadAt(t) = "commit" /\ t[1] \in Pages
      BY <2>1, ThreadsOfPages DEF TypeOK, JobTypes
    <3>2. CASE t[1] = p
      BY <3>1, <3>2 DEF ThreadAt
    <3>3. CASE t[1] # p
      BY <3>1, <3>3 DEF ThreadAt
    <3>. QED
      BY <3>2, <3>3
  <2>. QED
    BY <2>1
<1>. QED
  BY <1>1, <1>2, PageStepTypes

\* What an answer of the persona route adds is a sitting.
LEMMA AnsweredTypes ==
  ASSUME TypeOK, NEW p \in Pages, NEW i \in Places, Answered(p, i)
  PROVE  TypeOK'
<1> DEFINE g == gen[p]
           sat == Serves(g.name, i, context[p].roster[i], g.round, g.after,
                         <<context[p].run, "gen">>)
<1>1. /\ g.pc = "round" /\ i \in g.queue
      /\ \/ /\ gen' = [gen EXCEPT ![p].queue = @ \ {i}, ![p].got = @ \cup sat]
            /\ UNCHANGED failures
         \/ /\ gen' = [gen EXCEPT ![p].queue = @ \ {i}]
            /\ failures' = [failures EXCEPT ![p] = @ \cup {[place |-> i, round |-> g.round]}]
      /\ UNCHANGED <<server, real, job, context, collected, retry, runs>>
  BY DEF Answered
<1>2. /\ PagesTypes /\ PageTypes(p) /\ g \in Round /\ g.name \in Names
      /\ context[p].run \in 0 .. MaxRuns
      /\ Briefing(Norm[g.name]) \in {None} \cup 0 .. Len(Catalogs)
  BY <1>1, BriefingType, CodesOfNames DEF TypeOK, PagesTypes, PageTypes, GenTypes, Round
<1>3. sat \subseteq Sitting
  <2>1. g.round \in Rounds /\ g.after \in SUBSET Telling
    BY <1>2 DEF Round
  <2>. QED
    BY Zenon, <1>2, <2>1, ServesType
<1> HIDE DEF sat
<1>4. [place |-> i, round |-> g.round] \in Missing
  BY <1>2 DEF Missing, Round
<1>5. /\ [g EXCEPT !.queue = @ \ {i}, !.got = @ \cup sat] \in Round
      /\ [g EXCEPT !.queue = @ \ {i}] \in Round
  BY <1>2, <1>3 DEF Round
<1>6. gen'[p] \in Round /\ failures'[p] \subseteq Missing
  <2>1. \/ gen'[p] = [g EXCEPT !.queue = @ \ {i}, !.got = @ \cup sat]
        \/ gen'[p] = [g EXCEPT !.queue = @ \ {i}]
    BY <1>1, <1>2 DEF PagesTypes
  <2>2. failures[p] \subseteq Missing
    BY <1>2 DEF PageTypes
  <2>3. failures'[p] \subseteq failures[p] \cup {[place |-> i, round |-> g.round]}
    BY <1>1, <1>2 DEF PagesTypes
  <2>. QED
    BY <1>4, <1>5, <2>1, <2>2, <2>3
<1>7. PageTypes(p)'
  BY <1>1, <1>2, <1>6 DEF PageTypes, GenTypes, Round
<1>. QED
  BY <1>1, <1>2, <1>7, OnePageTypes DEF PagesTypes

LEMMA BarredTypes ==
  ASSUME TypeOK, NEW p \in Pages, Barred(p)
  PROVE  TypeOK'
<1>1. /\ gen[p].pc = "round" /\ gen' = [gen EXCEPT ![p] = [pc |-> "error"]]
      /\ UNCHANGED <<server, real, job, context, collected, failures, retry, runs>>
  BY DEF Barred
<1>2. PagesTypes /\ PageTypes(p)
  BY DEF TypeOK, PagesTypes
<1>3. PageTypes(p)'
  BY <1>1, <1>2 DEF PagesTypes, PageTypes, GenTypes
<1>. QED
  BY <1>1, <1>2, <1>3, OnePageTypes DEF PagesTypes

LEMMA RoundEndsTypes ==
  ASSUME TypeOK, NEW p \in Pages, RoundEnds(p)
  PROVE  TypeOK'
<1> DEFINE g == gen[p]
           all == collected[p] \cup g.got
           next == [g EXCEPT !.round = @ + 1, !.queue = DOMAIN context[p].roster,
                             !.got = {}, !.after = ToldOf(g.got, g.round)]
           last == [g EXCEPT !.pc = "commit", !.got = {}]
<1>1. /\ g.pc = "round"
      /\ collected' = [collected EXCEPT ![p] = all]
      /\ gen' = [gen EXCEPT ![p] = IF g.round < g.rounds /\ g.got # {} THEN next
                                   ELSE IF all # {} THEN last ELSE [pc |-> "error"]]
      /\ retry' = [retry EXCEPT ![p] = IF @.pc = "asked" THEN [@ EXCEPT !.array = FALSE] ELSE @]
      /\ UNCHANGED <<server, real, job, context, failures, runs>>
  BY DEF RoundEnds
<1>2. PagesTypes /\ PageTypes(p) /\ g \in Round
  BY <1>1 DEF TypeOK, PagesTypes, PageTypes, GenTypes
<1>3. PICK k \in DOMAIN Catalogs : context[p].roster = Catalogs[k]
  BY <1>1, <1>2 DEF PageTypes
<1>4. DOMAIN context[p].roster \subseteq Places
  BY <1>3, CatalogPlaces
<1>5. all \subseteq Sitting /\ ToldOf(g.got, g.round) \subseteq Telling
  BY <1>2, ToldOfIsTelling DEF PageTypes, Round
<1>6. g.round < g.rounds => next \in Round
  <2>1. g.round \in Rounds /\ g.rounds \in Rounds
    BY <1>2 DEF Round
  <2>2. g.round < g.rounds => g.round + 1 \in Rounds
    BY <2>1 DEF Rounds
  <2>. QED
    BY <1>2, <1>4, <1>5, <2>2 DEF Round
<1>7. last.pc = "commit" /\ last.name \in Names /\ last.rounds \in Rounds
  BY <1>2 DEF Round
<1>8. GenTypes(gen'[p]) /\ gen'[p].pc # "idle"
  <2>1. gen'[p] = IF g.round < g.rounds /\ g.got # {} THEN next
                  ELSE IF all # {} THEN last ELSE [pc |-> "error"]
    BY <1>1, <1>2 DEF PagesTypes
  <2> HIDE DEF g, next, last, all
  <2>. QED
    BY <1>6, <1>7, <2>1 DEF GenTypes, Round
<1>9. retry'[p].pc = retry[p].pc /\ RetryTypes(retry'[p])
  <2>1. retry'[p] = IF retry[p].pc = "asked" THEN [retry[p] EXCEPT !.array = FALSE] ELSE retry[p]
    BY <1>1, <1>2 DEF PagesTypes
  <2>2. RetryTypes(retry[p])
    BY <1>2 DEF PageTypes
  <2>3. retry[p].pc = "asked" => [retry[p] EXCEPT !.array = FALSE].pc = "asked"
    BY <2>2 DEF RetryTypes, Asked
  <2>. QED
    BY <2>1, <2>2, <2>3, MisdirectedTypes
<1>10. PageTypes(p)'
  BY <1>1, <1>2, <1>3, <1>5, <1>8, <1>9 DEF PagesTypes, PageTypes
<1>. QED
  BY <1>1, <1>2, <1>9, <1>10, OnePageTypes DEF PagesTypes

LEMMA RetryStartTypes ==
  ASSUME TypeOK, NEW p \in Pages, Retry(p)
  PROVE  TypeOK'
<1>1. /\ gen[p].pc = "shown" /\ retry[p].pc = "idle"
      /\ retry' = [retry EXCEPT ![p] = [pc |-> "loop", pending |-> failures[p]]]
      /\ failures' = [failures EXCEPT ![p] = {}]
      /\ UNCHANGED <<server, real, job, context, collected, gen, runs>>
  BY DEF Retry
<1>2. PagesTypes /\ PageTypes(p)
  BY DEF TypeOK, PagesTypes
<1>3. RetryTypes(retry'[p])
  BY <1>1, <1>2 DEF PagesTypes, PageTypes, RetryTypes, Loop
<1>4. PageTypes(p)'
  BY <1>1, <1>2, <1>3 DEF PagesTypes, PageTypes
<1>. QED
  BY <1>1, <1>2, <1>4, OnePageTypes DEF PagesTypes

LEMMA RetryAsksTypes ==
  ASSUME TypeOK, NEW p \in Pages, NEW f \in Missing, RetryAsks(p, f)
  PROVE  TypeOK'
<1> DEFINE r == retry[p]
           rest == r.pending \ {f}
           after == IF f.round > 1 THEN ToldOf(collected[p], f.round - 1) ELSE {}
           asks == [pc |-> "asked", pending |-> rest, f |-> f, after |-> after,
                    name |-> context[p].name, who |-> context[p].roster[f.place],
                    array |-> TRUE]
<1>1. /\ r.pc = "loop" /\ f \in r.pending
      /\ \/ retry' = [retry EXCEPT ![p] = [pc |-> "done"]] /\ UNCHANGED failures
         \/ /\ retry' = [retry EXCEPT ![p].pending = rest]
            /\ failures' = [failures EXCEPT ![p] = @ \cup {f}]
         \/ /\ f.place \in DOMAIN context[p].roster
            /\ retry' = [retry EXCEPT ![p] = asks] /\ UNCHANGED failures
      /\ UNCHANGED <<server, real, job, context, collected, gen, runs>>
  BY DEF RetryAsks
<1>2. PagesTypes /\ PageTypes(p) /\ r \in Loop
  BY <1>1 DEF TypeOK, PagesTypes, PageTypes, RetryTypes
<1>3. context[p].name \in Names /\ gen[p].pc # "idle"
  BY <1>1, <1>2 DEF PageTypes
<1>4. PICK k \in DOMAIN Catalogs : context[p].roster = Catalogs[k]
  BY <1>2, <1>3 DEF PageTypes
<1>5. after \subseteq Telling
  BY <1>2, ToldOfIsTelling DEF PageTypes
<1> HIDE DEF after
<1>6. f.place \in DOMAIN context[p].roster => asks \in Asked
  BY <1>2, <1>3, <1>4, <1>5, CatalogPlaces DEF Loop, Asked
<1>7. [r EXCEPT !.pending = rest] \in Loop
  BY <1>2 DEF Loop
<1>8. failures'[p] \subseteq Missing
  BY <1>1, <1>2 DEF PagesTypes, PageTypes
<1>9. RetryTypes(retry'[p])
  <2>1. \/ retry'[p] = [pc |-> "done"]
        \/ retry'[p] = [r EXCEPT !.pending = rest]
        \/ f.place \in DOMAIN context[p].roster /\ retry'[p] = asks
    BY <1>1, <1>2 DEF PagesTypes
  <2> HIDE DEF r, rest, asks
  <2>. QED
    BY <1>6, <1>7, <2>1 DEF RetryTypes, Loop, Asked
<1>10. PageTypes(p)'
  BY <1>1, <1>2, <1>3, <1>8, <1>9 DEF PagesTypes, PageTypes
<1>11. DOMAIN retry' = Pages /\ \A q \in Pages \ {p} : retry'[q] = retry[q]
  BY <1>1, <1>2 DEF PagesTypes
<1>12. DOMAIN failures' = Pages /\ \A q \in Pages \ {p} : failures'[q] = failures[q]
  BY <1>1, <1>2 DEF PagesTypes
<1>. QED
  BY <1>1, <1>2, <1>10, <1>11, <1>12, OnePageTypes DEF PagesTypes

LEMMA RetryAnsweredTypes ==
  ASSUME TypeOK, NEW p \in Pages, RetryAnswered(p)
  PROVE  TypeOK'
<1> DEFINE r == retry[p]
           sat == Serves(r.name, r.f.place, r.who, r.f.round, r.after,
                         <<context[p].run, "retry">>)
<1>1. /\ r.pc = "asked"
      /\ retry' = [retry EXCEPT ![p] = [pc |-> "loop", pending |-> r.pending]]
      /\ \/ /\ collected' = [collected EXCEPT ![p] = IF r.array THEN @ \cup sat ELSE @]
            /\ UNCHANGED failures
         \/ /\ failures' = [failures EXCEPT ![p] = @ \cup {r.f}]
            /\ UNCHANGED collected
      /\ UNCHANGED <<server, real, job, context, gen, runs>>
  BY DEF RetryAnswered
<1>2. PagesTypes /\ PageTypes(p) /\ r \in Asked
  BY <1>1 DEF TypeOK, PagesTypes, PageTypes, RetryTypes
<1>3. context[p].run \in 0 .. MaxRuns /\ gen[p].pc # "idle"
  BY <1>1, <1>2 DEF PageTypes
<1>4. Briefing(Norm[r.name]) \in {None} \cup 0 .. Len(Catalogs)
  BY <1>2, BriefingType, CodesOfNames DEF TypeOK, Asked
<1>5. sat \subseteq Sitting
  <2>1. r.f.round \in Rounds /\ r.after \in SUBSET Telling /\ r.name \in Names
    BY <1>2 DEF Asked, Missing
  <2>. QED
    BY Zenon, <1>3, <1>4, <2>1, ServesType
<1> HIDE DEF sat
<1>6. RetryTypes(retry'[p])
  BY <1>1, <1>2 DEF PagesTypes, RetryTypes, Loop, Asked
<1>7. /\ DOMAIN collected' = Pages /\ DOMAIN failures' = Pages
      /\ collected'[p] \subseteq Sitting /\ failures'[p] \subseteq Missing
      /\ \A q \in Pages \ {p} : collected'[q] = collected[q] /\ failures'[q] = failures[q]
  <2>1. collected[p] \subseteq Sitting /\ failures[p] \subseteq Missing /\ r.f \in Missing
    BY <1>2 DEF PageTypes, Asked
  <2>. QED
    BY <1>1, <1>2, <1>5, <2>1 DEF PagesTypes
<1>8. PageTypes(p)'
  BY <1>1, <1>2, <1>3, <1>6, <1>7 DEF PagesTypes, PageTypes
<1>. QED
  BY <1>1, <1>2, <1>7, <1>8, OnePageTypes DEF PagesTypes

LEMMA RetryLeavesTypes ==
  ASSUME TypeOK, NEW p \in Pages, RetryBarred(p) \/ RetryEnds(p)
  PROVE  TypeOK'
<1>1. /\ retry[p].pc \in {"asked", "loop"}
      /\ \E pc \in {"done", "commit"} : retry' = [retry EXCEPT ![p] = [pc |-> pc]]
      /\ UNCHANGED <<server, real, job, context, collected, failures, gen, runs>>
  BY DEF RetryBarred, RetryEnds
<1>2. PagesTypes /\ PageTypes(p)
  BY DEF TypeOK, PagesTypes
<1>3. PageTypes(p)'
  BY <1>1, <1>2 DEF PagesTypes, PageTypes, RetryTypes
<1>. QED
  BY <1>1, <1>2, <1>3, OnePageTypes DEF PagesTypes

\* What a commit is sent and reads first.
LEMMA JobType ==
  ASSUME NEW n \in Names, NEW sittings \in SUBSET Sitting, NEW code \in Codes,
         NEW existing \in BOOLEAN, NEW briefed \in BOOLEAN
  PROVE  Job(n, sittings, code, existing, briefed) \in Commit
BY DEF Job, Commit

LEMMA ContextTypes ==
  ASSUME TypeOK, NEW t \in Threads, Context(t)
  PROVE  TypeOK'
<1> DEFINE p == t[1]
           n == IF t[2] = "gen" THEN gen[p].name ELSE context[p].name
           j == Job(n, collected[p], CodeOf(n), index[Norm[n]] # None,
                    Briefing(Norm[n]) # None)
<1>1. /\ ThreadAt(t) = "commit" /\ job[t] = Idle /\ job' = [job EXCEPT ![t] = j]
      /\ UNCHANGED <<server, real, page, runs>>
  BY DEF Context
<1>2. p \in Pages /\ PageTypes(p)
  BY ThreadsOfPages DEF TypeOK, PagesTypes
<1>3. n \in Names /\ collected[p] \in SUBSET Sitting
  BY <1>1, <1>2 DEF ThreadAt, PageTypes, GenTypes, RetryTypes
<1>4. j \in Commit /\ j.pc = "context"
  BY <1>3, CodeOfType, JobType DEF TypeOK, Job
<1> HIDE DEF j
<1>5. JobTypes'
  <2>1. DOMAIN job' = Threads /\ job'[t] = j /\ \A u \in Threads \ {t} : job'[u] = job[u]
    BY <1>1 DEF TypeOK, JobTypes
  <2>2. \A u \in Threads : ThreadAt(u)' = ThreadAt(u)
    BY <1>1 DEF ThreadAt, page
  <2>. QED
    BY <1>1, <1>4, <2>1, <2>2 DEF TypeOK, JobTypes, Busy, Writing
<1>6. ServerTypes' /\ PagesTypes'
  BY <1>1 DEF TypeOK, ServerTypes, PagesTypes, PageTypes, server, real, page
<1>. QED
  BY <1>5, <1>6 DEF TypeOK

LEMMA WholeRoundType ==
  ASSUME TypeOK, runs < MaxRuns, NEW k \in DOMAIN Catalogs, NEW round \in Rounds,
         NEW after \in SUBSET Telling
  PROVE  WholeRound(Catalogs[k], round, after) \subseteq Sitting
<1>1. runs + 1 \in 0 .. MaxRuns
  BY Assumptions DEF TypeOK, PagesTypes
<1>. QED
  BY <1>1, CatalogPlaces DEF WholeRound, Sitting

LEMMA EngagementTypes ==
  ASSUME TypeOK, NEW p \in Pages, NEW n \in Names, NEW rounds \in Rounds,
         Engagement(p, n, rounds)
  PROVE  TypeOK'
<1> DEFINE roster == Roster(briefings[Norm[n]])
           first == WholeRound(roster, 1, {})
           second == WholeRound(roster, 2, ToldOf(first, 1))
           all == IF rounds = 1 THEN first ELSE first \cup second
           j == Job(n, all, CodeOf(n), index[Norm[n]] # None, briefings[Norm[n]] # None)
           t == <<p, "gen">>
<1>1. /\ runs < MaxRuns /\ gen[p].pc \in {"idle", "shown", "error"}
      /\ retry[p].pc \in {"idle", "done"}
      /\ context' = [context EXCEPT ![p] = [name |-> n, roster |-> roster, run |-> runs + 1]]
      /\ collected' = [collected EXCEPT ![p] = all]
      /\ job' = [job EXCEPT ![t] = j]
      /\ gen' = [gen EXCEPT ![p] = [pc |-> "commit", name |-> n, rounds |-> rounds]]
      /\ failures' = [failures EXCEPT ![p] = {}]
      /\ retry' = [retry EXCEPT ![p] = Idle]
      /\ runs' = runs + 1 /\ UNCHANGED <<server, real>>
  BY DEF Engagement
<1>2. PICK k \in DOMAIN Catalogs : roster = Catalogs[k]
  BY CodesOfNames, RosterIsACatalog DEF TypeOK, ServerTypes
<1>3. first \subseteq Sitting
  BY <1>1, <1>2, WholeRoundType DEF Rounds
<1>4. second \subseteq Sitting
  BY <1>1, <1>2, <1>3, ToldOfIsTelling, WholeRoundType DEF Rounds
<1>5. j \in Commit
  <2>1. all \in SUBSET Sitting
    BY <1>3, <1>4
  <2>. QED
    BY <2>1, CodeOfType, JobType DEF TypeOK
<1>6. all \subseteq Sitting
  BY <1>3, <1>4
<1> HIDE DEF all, roster, j
<1>7. PagesTypes /\ runs' \in 0 .. MaxRuns
  BY <1>1, Assumptions DEF TypeOK, PagesTypes
<1>8. PageTypes(p)'
  BY <1>1, <1>2, <1>6, <1>7 DEF PagesTypes, PageTypes, GenTypes, RetryTypes, Idle
<1>9. PagesTypes'
  BY <1>1, <1>7, <1>8, PagesButOne DEF PagesTypes
<1>10. JobTypes'
  <2>1. DOMAIN job' = Threads
    BY <1>1 DEF TypeOK, JobTypes
  <2>2. ASSUME NEW u \in Threads, Busy(u)' PROVE job'[u] \in Commit /\ ThreadAt(u)' = "commit"
    <3>1. CASE u = t
      BY <1>1, <1>5, <1>7, <3>1, ThreadsOfPages DEF TypeOK, JobTypes, ThreadAt, PagesTypes
    <3>2. CASE u # t
      <4>1. job'[u] = job[u] /\ job[u] \in Commit /\ ThreadAt(u) = "commit"
        BY <1>1, <2>2, <3>2 DEF TypeOK, JobTypes, Busy
      <4>2. u[1] # p
        BY <1>1, <3>2, <4>1, ThreadsOfPages DEF ThreadAt
      <4>3. ThreadAt(u)' = ThreadAt(u)
        BY <1>1, <1>7, <4>2, ThreadsOfPages DEF ThreadAt, PagesTypes
      <4>. QED
        BY <4>1, <4>3
    <3>. QED
      BY <3>1, <3>2
  <2>3. ASSUME NEW u \in Threads, Writing(u)' PROVE job'[u].index \in [Norms -> Codes \cup {None}]
    <3>1. job'[t].pc = "context"
      BY <1>1, ThreadsOfPages DEF TypeOK, JobTypes, Job, j
    <3>2. u # t
      BY <2>3, <3>1 DEF Writing
    <3>. QED
      BY <1>1, <2>3, <3>2 DEF TypeOK, JobTypes, Writing
  <2>. QED
    BY <2>1, <2>2, <2>3 DEF JobTypes
<1>11. ServerTypes'
  BY <1>1 DEF TypeOK, ServerTypes, server, real
<1>. QED
  BY <1>9, <1>10, <1>11 DEF TypeOK

LEMMA ReadsTypes ==
  ASSUME TypeOK, NEW t \in Threads, IndexRead(t) \/ RecordRead(t)
  PROVE  TypeOK'
<1>1. /\ Busy(t) /\ UNCHANGED <<server, real, page, runs>>
      /\ \/ job' = [job EXCEPT ![t] = [@ EXCEPT !.pc = "index", !.index = index]]
         \/ /\ job[t].pc = "index"
            /\ job' = [job EXCEPT ![t] =
                 [@ EXCEPT !.pc = "record", !.record = records[job[t].code]]]
  BY DEF IndexRead, RecordRead, Busy
<1>2. job[t] \in Commit
  BY <1>1 DEF TypeOK, JobTypes
<1>3. records[job[t].code] \in Record \cup {None} /\ index \in [Norms -> Codes \cup {None}]
  BY <1>2 DEF TypeOK, ServerTypes, Commit
<1>4. /\ [job[t] EXCEPT !.pc = "index", !.index = index] \in Commit
      /\ [job[t] EXCEPT !.pc = "record", !.record = records[job[t].code]] \in Commit
  BY <1>2, <1>3 DEF Commit
<1>5. DOMAIN job' = Threads /\ job'[t] \in Commit /\ \A u \in Threads \ {t} : job'[u] = job[u]
  BY <1>1, <1>4 DEF TypeOK, JobTypes
<1>6. \A u \in Threads : ThreadAt(u)' = ThreadAt(u)
  BY <1>1 DEF ThreadAt, page
<1>7. JobTypes'
  <2>1. job'[t].index \in [Norms -> Codes \cup {None}]
    <3>1. job[t].pc = "index" => job[t].index \in [Norms -> Codes \cup {None}]
      BY DEF TypeOK, JobTypes, Writing
    <3>2. \/ job'[t] = [job[t] EXCEPT !.pc = "index", !.index = index]
          \/ /\ job'[t] = [job[t] EXCEPT !.pc = "record", !.record = records[job[t].code]]
             /\ job[t].pc = "index"
      BY <1>1, <1>5 DEF TypeOK, JobTypes
    <3>. QED
      BY <1>2, <1>3, <3>1, <3>2 DEF Commit
  <2>. QED
    BY <1>1, <1>5, <1>6, <2>1 DEF TypeOK, JobTypes, Busy, Writing
<1>8. ServerTypes' /\ PagesTypes'
  BY <1>1 DEF TypeOK, ServerTypes, PagesTypes, PageTypes, server, real, page
<1>. QED
  BY <1>7, <1>8 DEF TypeOK

\* The reply leaves the thread that waited for it.
LEMMA ReplyTypes ==
  ASSUME TypeOK, NEW t \in Threads, NEW ok, Busy(t), Reply(t, ok),
         job' = [job EXCEPT ![t] = Idle], UNCHANGED <<context, collected, failures, runs>>
  PROVE  JobTypes' /\ PagesTypes'
<1> DEFINE p == t[1]
<1>1. p \in Pages /\ ThreadAt(t) = "commit" /\ PagesTypes /\ PageTypes(p)
  BY ThreadsOfPages DEF TypeOK, JobTypes, PagesTypes
<1>2. /\ DOMAIN gen' = Pages /\ DOMAIN retry' = Pages
      /\ \A q \in Pages \ {p} : gen'[q] = gen[q] /\ retry'[q] = retry[q]
      /\ IF t[2] = "gen"
         THEN /\ gen'[p] = [pc |-> IF ok THEN "shown" ELSE "error", rounds |-> gen[p].rounds]
              /\ retry'[p] = retry[p] /\ gen[p].pc = "commit"
         ELSE /\ retry'[p] = [pc |-> "done"] /\ gen'[p] = gen[p]
              /\ retry[p].pc = "commit"
  BY <1>1 DEF Reply, PagesTypes, ThreadAt
<1>3. PageTypes(p)'
  <2>1. GenTypes(gen'[p])
    BY <1>1, <1>2 DEF PageTypes, GenTypes
  <2>2. RetryTypes(retry'[p])
    BY <1>1, <1>2 DEF PageTypes, RetryTypes
  <2>3. gen[p].pc # "idle" /\ gen'[p].pc # "idle"
    BY <1>1, <1>2 DEF PageTypes
  <2>. QED
    BY <1>1, <1>2, <2>1, <2>2, <2>3 DEF PageTypes
<1>4. PagesTypes'
  BY <1>1, <1>2, <1>3, PagesButOne DEF PagesTypes
<1>5. JobTypes'
  <2>1. DOMAIN job' = Threads /\ ~Busy(t)'
    BY DEF TypeOK, JobTypes, Busy, Idle
  <2>2. ASSUME NEW u \in Threads, u # t, Busy(u)'
        PROVE  job'[u] \in Commit /\ ThreadAt(u)' = "commit"
    <3>1. job'[u] = job[u] /\ job[u] \in Commit /\ ThreadAt(u) = "commit"
      BY <2>2 DEF TypeOK, JobTypes, Busy
    <3>2. u[1] \in Pages /\ (u[1] # p \/ u[2] # t[2]) /\ {u[2], t[2]} \subseteq {"gen", "retry"}
      BY <2>2, ThreadsOfPages
    <3>3. ThreadAt(u)' = ThreadAt(u)
      BY <1>2, <3>2 DEF ThreadAt
    <3>. QED
      BY <3>1, <3>3
  <2>3. ASSUME NEW u \in Threads, Writing(u)' PROVE job'[u].index \in [Norms -> Codes \cup {None}]
    BY <2>1, <2>3 DEF TypeOK, JobTypes, Writing, Idle
  <2>. QED
    BY <2>1, <2>2, <2>3 DEF JobTypes
<1>. QED
  BY <1>4, <1>5

LEMMA CurrentIsPart ==
  ASSUME NEW S PROVE Current(S) \subseteq S
BY DEF Current

LEMMA RowTypes ==
  ASSUME NEW j \in Commit, NEW s \in j.sittings
  PROVE  SittingRow(j, s) \in Row /\ FollowUp(j, s) \in Row
BY DEF Commit, SittingRow, FollowUp, Row, Login, Sitting

LEMMA CommittedTypes ==
  ASSUME TypeOK, NEW t \in Threads, Committed(t)
  PROVE  TypeOK'
<1> DEFINE j == job[t]
           c == Norm[j.name]
<1>1. Busy(t) /\ j.pc = "record"
  BY DEF Committed, Busy
<1>2. j \in Commit
  BY <1>1 DEF TypeOK, JobTypes
<1>3. PICK parent \in Current(j.sittings) :
        rows' = (rows \ Prior(j)) \cup {SittingRow(j, s) : s \in j.sittings}
                  \cup {FollowUp(j, parent)}
  BY DEF Committed
<1>4. /\ index' = [j.index EXCEPT ![c] = j.code]
      /\ records' = [records EXCEPT ![j.code] = RecordWith(j)]
      /\ briefings' = [briefings EXCEPT ![c] = IF j.briefed THEN @ ELSE 0]
      /\ syntheses' = [syntheses EXCEPT ![j.code] = Current(j.sittings)]
      /\ Reply(t, TRUE) /\ job' = [job EXCEPT ![t] = Idle]
      /\ UNCHANGED <<real, context, collected, failures, runs>>
  BY DEF Committed
<1>5. JobTypes' /\ PagesTypes'
  BY <1>1, <1>4, ReplyTypes
<1>6. c \in Norms /\ c \in Codes /\ j.code \in Codes /\ j.sittings \in SUBSET Sitting
  BY <1>2, CodesOfNames DEF Commit
<1>7. index' \in [Norms -> Codes \cup {None}]
  <2>1. j.index \in [Norms -> Codes \cup {None}]
    BY <1>1 DEF TypeOK, JobTypes, Writing
  <2>. QED
    BY <1>4, <1>6, <2>1
<1>8. RecordWith(j) \in Record
  <2>1. j.record \in Record \cup {None}
    BY <1>2 DEF Commit
  <2>2. j.record \in Record => [j.record EXCEPT !.sittings = j.sittings] \in Record
    BY <1>6 DEF Record
  <2>3. [real |-> FALSE, sittings |-> j.sittings] \in Record
    BY <1>6 DEF Record
  <2>. QED
    BY <2>1, <2>2, <2>3 DEF RecordWith
<1>9. rows' \subseteq Row
  <2>1. parent \in j.sittings
    BY <1>3, CurrentIsPart
  <2>2. SittingRow(j, parent) \in Row /\ FollowUp(j, parent) \in Row
    BY <1>2, <2>1, RowTypes
  <2>3. \A s \in j.sittings : SittingRow(j, s) \in Row
    BY <1>2, RowTypes
  <2>. QED
    BY <1>3, <2>2, <2>3 DEF TypeOK, ServerTypes
<1>10. Current(j.sittings) \in SUBSET Sitting
  BY <1>6, CurrentIsPart
<1>11. records' \in [Codes -> Record \cup {None}] /\ syntheses' \in [Codes -> SUBSET Sitting]
  BY <1>4, <1>6, <1>8, <1>10 DEF TypeOK, ServerTypes
<1>12. briefings' \in [Codes -> {None} \cup 0 .. Len(Catalogs)]
  <2>1. Len(Catalogs) \in Nat
    BY Assumptions
  <2>. QED
    BY <1>4, <1>6, <2>1 DEF TypeOK, ServerTypes
<1>. QED
  BY <1>4, <1>5, <1>7, <1>9, <1>11, <1>12 DEF TypeOK, ServerTypes, real

LEMMA CommitFailsTypes ==
  ASSUME TypeOK, NEW t \in Threads, CommitFails(t)
  PROVE  TypeOK'
<1>1. Busy(t) /\ Reply(t, FALSE) /\ job' = [job EXCEPT ![t] = Idle]
  BY DEF CommitFails, Busy
<1>2. UNCHANGED <<server, real, context, collected, failures, runs>>
  BY DEF CommitFails
<1>3. ServerTypes'
  BY <1>2 DEF TypeOK, ServerTypes, server, real
<1>. QED
  BY <1>1, <1>2, <1>3, ReplyTypes DEF TypeOK

LEMMA ServerStepTypes ==
  ASSUME TypeOK, ServerTypes', UNCHANGED <<page, job, runs>>
  PROVE  TypeOK'
<1>1. JobTypes'
  BY DEF TypeOK, JobTypes, Busy, Writing, ThreadAt, page
<1>2. PagesTypes'
  BY DEF TypeOK, PagesTypes, PageTypes, page
<1>. QED
  BY <1>1, <1>2 DEF TypeOK

LEMMA BackfillTypes ==
  ASSUME TypeOK, Backfill
  PROVE  TypeOK'
<1>1. /\ rows' = {IF r.login = None THEN Backfilled(r) ELSE r : r \in rows}
      /\ UNCHANGED <<index, records, syntheses, briefings, real, page, job, runs>>
  BY DEF Backfill
<1>2. ASSUME NEW r \in rows PROVE Backfilled(r) \in Row
  <2>1. r \in Row
    BY DEF TypeOK, ServerTypes
  <2>2. Login(r.code, r.sitting.who) \in Codes \X {who.name : who \in Personas}
    BY <2>1 DEF Row, Sitting, Login
  <2>. QED
    BY <2>1, <2>2 DEF Backfilled, Row
<1>3. ServerTypes'
  BY <1>1, <1>2 DEF TypeOK, ServerTypes, real
<1>. QED
  BY <1>1, <1>3, ServerStepTypes

LEMMA WorkTypes ==
  ASSUME TypeOK, NEW c \in Norms,
         \/ Opens(c) \/ CompletesInterview(c)
         \/ \E catalog \in 2 .. Len(Catalogs) : SavesBriefing(c, catalog)
  PROVE  TypeOK'
<1>1. c \in Codes /\ UNCHANGED <<page, job, runs>>
  BY NormsAreOfNames DEF Opens, CompletesInterview, SavesBriefing
<1>2. CASE Opens(c)
  <2>1. [real |-> FALSE, sittings |-> {}] \in Record
    BY DEF Record
  <2>. QED
    BY <1>1, <1>2, <2>1, ServerStepTypes DEF TypeOK, ServerTypes, Opens
<1>3. CASE CompletesInterview(c)
  <2>1. index[c] \in Codes /\ records[index[c]] \in Record
    BY <1>3 DEF TypeOK, ServerTypes, CompletesInterview
  <2>2. [records[index[c]] EXCEPT !.real = TRUE] \in Record
    BY <2>1 DEF Record
  <2>. QED
    BY <1>1, <1>3, <2>1, <2>2, ServerStepTypes DEF TypeOK, ServerTypes, CompletesInterview
<1>4. ASSUME NEW catalog \in 2 .. Len(Catalogs), SavesBriefing(c, catalog) PROVE TypeOK'
  <2>1. Len(Catalogs) \in Nat /\ catalog \in 0 .. Len(Catalogs)
    BY Assumptions
  <2>2. (IF index[c] # None THEN index[c] ELSE c) \in Codes
    BY <1>1 DEF TypeOK, ServerTypes
  <2>. QED
    BY <1>1, <1>4, <2>1, <2>2, ServerStepTypes DEF TypeOK, ServerTypes, SavesBriefing
<1>. QED
  BY <1>2, <1>3, <1>4

LEMMA LegacyTypes ==
  ASSUME NEW n \in Names
  PROVE  /\ LegacyOf(n) \subseteq Row
         /\ {r.sitting : r \in LegacyOf(n)} \subseteq Sitting
<1>1. 1 \in DOMAIN Catalogs /\ 1 \in DOMAIN Catalogs[1]
  <2>1. 1 \in DOMAIN Catalogs
    BY Assumptions
  <2>2. Catalogs[1] \in Seq(Personas) /\ Catalogs[1] # <<>>
    BY <2>1, Assumptions
  <2>. QED
    BY <2>1, <2>2
<1>2. Catalogs[1][1] \in Personas
  BY <1>1, CatalogPlaces
<1> DEFINE sat == [who |-> Catalogs[1][1], round |-> 1, run |-> 0, by |-> "gen", after |-> {}]
           row(kind) == [client |-> n, code |-> SynCode[n], sitting |-> sat, kind |-> kind,
                         login |-> None, synthetic |-> TRUE]
<1>3. sat \in Sitting
  <2>1. 0 \in 0 .. MaxRuns /\ 1 \in Rounds
    BY Assumptions DEF Rounds
  <2>. QED
    BY <1>2, <2>1 DEF Sitting
<1>4. LegacyOf(n) = {row("initial"), row("follow_up")}
  BY DEF LegacyOf
<1>5. \A kind \in {"initial", "follow_up"} : row(kind) \in Row /\ row(kind).sitting = sat
  BY <1>3, CodesOfNames DEF Row
<1> HIDE DEF row, sat
<1>. QED
  BY <1>3, <1>4, <1>5

LEMMA InitTypes ==
  Init => TypeOK
<1>. SUFFICES ASSUME Init PROVE TypeOK
  OBVIOUS
<1>1. PICK old \in {None} \cup IF Legacy THEN Names ELSE {} :
       LET oldRows == IF old = None THEN {} ELSE LegacyOf(old)
           sittings == {r.sitting : r \in oldRows}
           at(code, f, none) ==
             IF old # None /\ SynCode[old] = code THEN f ELSE none
       IN /\ rows = oldRows
          /\ index = [c \in Norms |->
               IF old # None /\ Norm[old] = c THEN SynCode[old] ELSE None]
          /\ records = [code \in Codes |->
               at(code, [real |-> FALSE, sittings |-> sittings], None)]
          /\ syntheses = [code \in Codes |-> at(code, sittings, {})]
          /\ briefings = [k \in Codes |->
               IF old # None /\ Norm[old] = k THEN 0 ELSE None]
  BY DEF Init
<1> DEFINE oldRows == IF old = None THEN {} ELSE LegacyOf(old)
           sittings == {r.sitting : r \in oldRows}
<1>2. /\ opened = {} /\ finished = {} /\ wrote = [c \in Norms |-> None]
      /\ context = [p \in Pages |-> None] /\ collected = [p \in Pages |-> {}]
      /\ failures = [p \in Pages |-> {}] /\ gen = [p \in Pages |-> Idle]
      /\ retry = [p \in Pages |-> Idle] /\ job = [t \in Threads |-> Idle] /\ runs = 0
  BY DEF Init
<1>3. old # None => old \in Names
  OBVIOUS
<1>4. oldRows \subseteq Row /\ sittings \subseteq Sitting
  <2>1. CASE old = None
    BY <2>1
  <2>2. CASE old # None
    BY <1>3, <2>2, LegacyTypes
  <2>. QED
    BY <2>1, <2>2
<1>5. [real |-> FALSE, sittings |-> sittings] \in Record
  BY <1>4 DEF Record
<1> HIDE DEF sittings, oldRows
<1>6. /\ rows = oldRows
      /\ index = [c \in Norms |-> IF old # None /\ Norm[old] = c THEN SynCode[old] ELSE None]
      /\ records = [code \in Codes |-> IF old # None /\ SynCode[old] = code
                                       THEN [real |-> FALSE, sittings |-> sittings] ELSE None]
      /\ syntheses = [code \in Codes |-> IF old # None /\ SynCode[old] = code
                                         THEN sittings ELSE {}]
      /\ briefings = [k \in Codes |-> IF old # None /\ Norm[old] = k THEN 0 ELSE None]
  BY <1>1 DEF oldRows, sittings
<1>7. ServerTypes
  <2>1. index \in [Norms -> Codes \cup {None}]
    BY <1>3, <1>6, CodesOfNames
  <2>2. 0 \in 0 .. Len(Catalogs)
    BY Assumptions
  <2>. QED
    BY <1>2, <1>4, <1>5, <1>6, <2>1, <2>2 DEF ServerTypes
<1>8. JobTypes
  BY <1>2 DEF JobTypes, Busy, Writing, Idle
<1>9. PagesTypes
  <2>1. 0 \in 0 .. MaxRuns
    BY Assumptions
  <2>. QED
    BY <1>2, <2>1 DEF PagesTypes, PageTypes, GenTypes, RetryTypes, Idle
<1>. QED
  BY <1>7, <1>8, <1>9 DEF TypeOK

LEMMA NextTypes ==
  TypeOK /\ [Next]_vars => TypeOK'
<1>. SUFFICES ASSUME TypeOK, [Next]_vars PROVE TypeOK'
  OBVIOUS
<1>1. ASSUME NEW p \in Pages, NEW n \in Names, NEW rounds \in Rounds,
             Generate(p, n, rounds) \/ Engagement(p, n, rounds)
      PROVE  TypeOK'
  BY <1>1, GenerateTypes, EngagementTypes
<1>2. ASSUME NEW p \in Pages, NEW i \in Places, Answered(p, i) PROVE TypeOK'
  BY <1>2, AnsweredTypes
<1>3. ASSUME NEW p \in Pages,
             \/ Barred(p) \/ RoundEnds(p)
             \/ Retry(p) \/ RetryAnswered(p) \/ RetryBarred(p) \/ RetryEnds(p)
      PROVE  TypeOK'
  BY <1>3, BarredTypes, RoundEndsTypes, RetryStartTypes, RetryAnsweredTypes, RetryLeavesTypes
<1>4. ASSUME NEW p \in Pages, NEW f \in Missing, RetryAsks(p, f) PROVE TypeOK'
  BY <1>4, RetryAsksTypes
<1>5. ASSUME NEW t \in Threads,
             Context(t) \/ IndexRead(t) \/ RecordRead(t) \/ Committed(t) \/ CommitFails(t)
      PROVE  TypeOK'
  BY <1>5, ContextTypes, ReadsTypes, CommittedTypes, CommitFailsTypes
<1>6. CASE Backfill
  BY <1>6, BackfillTypes
<1>7. ASSUME NEW c \in Norms,
             \/ Opens(c) \/ CompletesInterview(c)
             \/ \E catalog \in 2 .. Len(Catalogs) : SavesBriefing(c, catalog)
      PROVE  TypeOK'
  BY <1>7, WorkTypes
<1>8. CASE UNCHANGED vars
  <2>1. ServerTypes' /\ UNCHANGED <<page, job, runs>>
    BY <1>8 DEF TypeOK, ServerTypes, vars, server, real, page
  <2>. QED
    BY <2>1, ServerStepTypes
<1>. QED
  BY <1>1, <1>2, <1>3, <1>4, <1>5, <1>6, <1>7, <1>8 DEF Next

\* The variables of the pages, the commits and the server keep their shapes, and
\* a commit runs only for a generation or a retry that waits for it.
THEOREM PracticeTypes == Spec => []TypeOK
<1>. QED
  BY InitTypes, NextTypes, PTL DEF Spec

-----------------------------------------------------------------------------
(* Real work survives.  The hypotheses: no two clients share a norm or a    *)
(* code that a generation would make, and requests overlap as the code      *)
(* orders them.                                                             *)

\* Two clients share neither a norm nor the code a generation would make.
NamesApart ==
  \A m, n \in Names : m # n => Norm[m] # Norm[n] /\ SynCode[m] # SynCode[n]

\* The requests overlap in the orders the code leaves open on one page alone.
ServerInOrder == Overlaps \subseteq {"retry"}

\* A client's entry names the code of its own engagement, which is there.
IndexInv ==
  /\ \A n \in Names : index[Norm[n]] \in {None, Norm[n], SynCode[n]}
  /\ \A c \in Norms : index[c] # None => records[index[c]] # None

\* A generated engagement has a briefing under the norm, and one under its code
\* only once the index names it.
BriefingInv ==
  \A n \in Names :
    /\ index[Norm[n]] = SynCode[n] => briefings[Norm[n]] # None
    /\ briefings[SynCode[n]] # None => index[Norm[n]] = SynCode[n]

\* What the context told a commit stays true until it is over, and what it read
\* in its transaction is what it replaces.
Known(t) ==
  LET j == job[t]
      c == Norm[j.name] IN
  /\ j.code = CodeOf(j.name)
  /\ j.existing => index[c] # None
  /\ ~j.existing => c \notin finished
  /\ j.briefed => Briefing(c) # None
  /\ ~j.briefed => wrote[c] = None
  /\ Writing(t) => \A d \in Norms \ {c} : j.index[d] = index[d]
  /\ j.pc = "record" => j.record = records[j.code]

JobsKnow == \A t \in Threads : Busy(t) => Known(t)

OneWriter ==
  \A t, u \in Threads :
    /\ Writing(t) /\ Writing(u) => Norm[job[t].name] = Norm[job[u].name]
    /\ job[t].pc = "record" /\ job[u].pc = "record" => t = u

ServerInv == IndexInv /\ BriefingInv /\ JobsKnow /\ OneWriter /\ RealWorkSurvives

LEMMA NamesOfNorms ==
  ASSUME NamesApart, NEW m \in Names, NEW n \in Names, Norm[m] = Norm[n]
  PROVE  m = n
BY DEF NamesApart

LEMMA CodesApart ==
  ASSUME NamesApart, IndexInv, NEW m \in Names, NEW n \in Names, m # n
  PROVE  /\ CodeOf(m) # CodeOf(n) /\ Norm[m] # CodeOf(n) /\ Norm[m] # Norm[n]
         /\ index[Norm[m]] # CodeOf(n)
<1>1. /\ Norm[m] # Norm[n] /\ SynCode[m] # SynCode[n]
      /\ Norm[m] # SynCode[n] /\ SynCode[m] # Norm[n]
      /\ {Norm[m], Norm[n], SynCode[m], SynCode[n]} \cap {None} = {}
  BY CodesOfNames DEF NamesApart
<1>2. /\ CodeOf(m) \in {Norm[m], SynCode[m]} /\ CodeOf(n) \in {Norm[n], SynCode[n]}
      /\ index[Norm[m]] \in {None, CodeOf(m)}
  BY DEF IndexInv, CodeOf
<1>. QED
  BY <1>1, <1>2

\* What the invariant reads of the server, the real work and the commits is as it was.
LEMMA ServerFrame ==
  ASSUME TypeOK, ServerInv, UNCHANGED <<index, records, briefings, real>>,
         \A t \in Threads : job'[t] = job[t] \/ ~Busy(t)'
  PROVE  ServerInv'
<1>1. UNCHANGED <<opened, finished, wrote>>
  BY DEF real
<1>2. IndexInv' /\ BriefingInv'
  BY DEF ServerInv, IndexInv, BriefingInv
<1>3. RealWorkSurvives'
  BY <1>1 DEF ServerInv, RealWorkSurvives, Briefing
<1>4. ASSUME NEW t \in Threads, Busy(t)' PROVE Known(t)'
  <2>1. job'[t] = job[t] /\ Busy(t)
    BY <1>4 DEF Busy
  <2>2. Known(t)
    BY <2>1 DEF ServerInv, JobsKnow
  <2>. QED
    BY <1>1, <2>1, <2>2 DEF Known, CodeOf, Briefing, Writing
<1>5. OneWriter'
  <2>1. \A t \in Threads : (job'[t].pc \in {"index", "record"}) => job'[t] = job[t]
    BY DEF Busy
  <2>2. \A t \in Threads : Writing(t)' => Writing(t) /\ job'[t] = job[t]
    BY <2>1 DEF Writing
  <2>3. \A t \in Threads : job'[t].pc = "record" => job[t].pc = "record"
    BY <2>1
  <2>. QED
    BY <2>2, <2>3 DEF ServerInv, OneWriter
<1>. QED
  BY <1>2, <1>3, <1>4, <1>5 DEF ServerInv, JobsKnow

LEMMA ServerPageSteps ==
  ASSUME TypeOK, ServerInv, NEW p \in Pages,
         \/ \E n \in Names, rounds \in Rounds : Generate(p, n, rounds)
         \/ \E i \in Places : Answered(p, i)
         \/ Barred(p) \/ RoundEnds(p)
         \/ Retry(p) \/ RetryAnswered(p) \/ RetryBarred(p) \/ RetryEnds(p)
         \/ \E f \in Missing : RetryAsks(p, f)
  PROVE  ServerInv'
<1>1. UNCHANGED <<server, real, job>>
  BY DEF Generate, Answered, Barred, RoundEnds, Retry, RetryAnswered, RetryBarred, RetryEnds,
         RetryAsks
<1>. QED
  BY <1>1, ServerFrame DEF server

\* One commit changes, and the server does not.
LEMMA OneJob ==
  ASSUME TypeOK, ServerInv, UNCHANGED <<index, records, briefings, real>>, NEW t \in Threads,
         \A u \in Threads \ {t} : job'[u] = job[u],
         Known(t)',
         \A u \in Threads : Writing(t)' /\ Writing(u) =>
           Norm[job'[t].name] = Norm[job[u].name],
         job'[t].pc = "record" => \A u \in Threads : job[u].pc # "record"
  PROVE  ServerInv'
<1>1. UNCHANGED <<opened, finished, wrote>>
  BY DEF real
<1>2. IndexInv' /\ BriefingInv'
  BY DEF ServerInv, IndexInv, BriefingInv
<1>3. RealWorkSurvives'
  BY <1>1 DEF ServerInv, RealWorkSurvives, Briefing
<1>4. ASSUME NEW u \in Threads, Busy(u)' PROVE Known(u)'
  <2>1. CASE u = t
    BY <2>1
  <2>2. CASE u # t
    <3>1. job'[u] = job[u] /\ Known(u)
      BY <1>4, <2>2 DEF ServerInv, JobsKnow, Busy
    <3>. QED
      BY <1>1, <3>1 DEF Known, CodeOf, Briefing, Writing
  <2>. QED
    BY <2>1, <2>2
<1>5. OneWriter'
  BY DEF ServerInv, OneWriter, Writing
<1>. QED
  BY <1>2, <1>3, <1>4, <1>5 DEF ServerInv, JobsKnow

LEMMA ServerContext ==
  ASSUME TypeOK, ServerInv, NEW t \in Threads, Context(t)
  PROVE  ServerInv'
<1>1. ThreadAt(t) = "commit" /\ UNCHANGED <<server, real>>
  BY DEF Context
<1>2. PICK n \in Names :
        job' = [job EXCEPT ![t] =
          Job(n, collected[t[1]], CodeOf(n), index[Norm[n]] # None, Briefing(Norm[n]) # None)]
  <2> DEFINE n == IF t[2] = "gen" THEN gen[t[1]].name ELSE context[t[1]].name
  <2>1. t[1] \in Pages /\ PageTypes(t[1])
    BY ThreadsOfPages DEF TypeOK, PagesTypes
  <2>2. n \in Names
    BY <1>1, <2>1 DEF ThreadAt, PageTypes, GenTypes, RetryTypes
  <2>3. job' = [job EXCEPT ![t] =
          Job(n, collected[t[1]], CodeOf(n), index[Norm[n]] # None, Briefing(Norm[n]) # None)]
    BY DEF Context
  <2> HIDE DEF n
  <2>. QED
    BY <2>2, <2>3
<1> DEFINE j == Job(n, collected[t[1]], CodeOf(n), index[Norm[n]] # None,
                    Briefing(Norm[n]) # None)
<1>3. Norm[n] \in Norms
  BY CodesOfNames
<1>4. job'[t] = j /\ \A u \in Threads \ {t} : job'[u] = job[u]
  BY <1>2 DEF TypeOK, JobTypes
<1>5. Known(t)'
  <2>1. Norm[n] \in finished => index[Norm[n]] # None
    BY <1>3 DEF ServerInv, RealWorkSurvives
  <2>2. Briefing(Norm[n]) = None => wrote[Norm[n]] = None
    BY <1>3 DEF ServerInv, RealWorkSurvives
  <2>3. /\ job'[t].pc = "context" /\ job'[t].name = n /\ job'[t].code = CodeOf(n)
        /\ job'[t].existing = (index[Norm[n]] # None)
        /\ job'[t].briefed = (Briefing(Norm[n]) # None)
    BY <1>4 DEF Job
  <2>4. UNCHANGED <<index, records, briefings, finished, wrote>>
    BY <1>1 DEF server, real
  <2>5. CodeOf(n)' = CodeOf(n) /\ Briefing(Norm[n])' = Briefing(Norm[n])
    BY <2>4 DEF CodeOf, Briefing
  <2>. QED
    BY <2>1, <2>2, <2>3, <2>4, <2>5 DEF Known, Writing
<1>. QED
  BY <1>1, <1>4, <1>5, OneJob DEF Job, Writing, server

LEMMA ServerEngagement ==
  ASSUME TypeOK, ServerInv, NEW p \in Pages, NEW n \in Names, NEW rounds \in Rounds,
         Engagement(p, n, rounds)
  PROVE  ServerInv'
<1> DEFINE t == <<p, "gen">>
<1>1. PICK all : job' = [job EXCEPT ![t] =
           Job(n, all, CodeOf(n), index[Norm[n]] # None, briefings[Norm[n]] # None)]
  BY DEF Engagement
<1> DEFINE j == Job(n, all, CodeOf(n), index[Norm[n]] # None, briefings[Norm[n]] # None)
<1>2. UNCHANGED <<server, real>>
  BY DEF Engagement
<1>3. t \in Threads /\ Norm[n] \in Norms
  BY ThreadsOfPages, CodesOfNames
<1>4. job'[t] = j /\ \A u \in Threads \ {t} : job'[u] = job[u]
  BY <1>1, <1>3 DEF TypeOK, JobTypes
<1>5. Known(t)'
  <2>1. Norm[n] \in finished => index[Norm[n]] # None
    BY <1>3 DEF ServerInv, RealWorkSurvives
  <2>2. briefings[Norm[n]] = None => wrote[Norm[n]] = None
    <3>1. briefings[Norm[n]] = None => Briefing(Norm[n]) = None
      BY DEF ServerInv, IndexInv, BriefingInv, Briefing
    <3>. QED
      BY <1>3, <3>1 DEF ServerInv, RealWorkSurvives
  <2>3. briefings[Norm[n]] # None => Briefing(Norm[n]) # None
    BY DEF Briefing
  <2>4. /\ job'[t].pc = "context" /\ job'[t].name = n /\ job'[t].code = CodeOf(n)
        /\ job'[t].existing = (index[Norm[n]] # None)
        /\ job'[t].briefed = (briefings[Norm[n]] # None)
    BY <1>4 DEF Job
  <2>5. UNCHANGED <<index, records, briefings, finished, wrote>>
    BY <1>2 DEF server, real
  <2>6. CodeOf(n)' = CodeOf(n) /\ Briefing(Norm[n])' = Briefing(Norm[n])
    BY <2>5 DEF CodeOf, Briefing
  <2>. QED
    BY <2>1, <2>2, <2>3, <2>4, <2>5, <2>6 DEF Known, Writing
<1>. QED
  BY <1>2, <1>3, <1>4, <1>5, OneJob DEF Job, Writing, server

LEMMA ServerReads ==
  ASSUME TypeOK, ServerInv, ServerInOrder, NEW t \in Threads, IndexRead(t) \/ RecordRead(t)
  PROVE  ServerInv'
<1>1. /\ Busy(t) /\ UNCHANGED <<server, real>>
      /\ \/ /\ \A u \in Threads : Writing(u) => Norm[job[u].name] = Norm[job[t].name]
            /\ job' = [job EXCEPT ![t] = [@ EXCEPT !.pc = "index", !.index = index]]
         \/ /\ job[t].pc = "index" /\ \A u \in Threads : job[u].pc # "record"
            /\ job' = [job EXCEPT ![t] =
                 [@ EXCEPT !.pc = "record", !.record = records[job[t].code]]]
  BY DEF IndexRead, RecordRead, Busy, ServerInOrder, Overlap
<1>2. job[t] \in Commit /\ Known(t)
  BY <1>1 DEF TypeOK, JobTypes, ServerInv, JobsKnow
<1>3. DOMAIN job = Threads /\ \A u \in Threads \ {t} : job'[u] = job[u]
  BY <1>1 DEF TypeOK, JobTypes
<1>4. UNCHANGED <<index, records, briefings, real, finished, wrote>>
  BY <1>1 DEF server, real
<1>5. CASE /\ \A u \in Threads : Writing(u) => Norm[job[u].name] = Norm[job[t].name]
           /\ job' = [job EXCEPT ![t] = [@ EXCEPT !.pc = "index", !.index = index]]
  <2>1. job'[t] = [job[t] EXCEPT !.pc = "index", !.index = index]
    BY <1>3, <1>5
  <2>2. /\ job'[t].pc = "index" /\ job'[t].index = index /\ job'[t].name = job[t].name
        /\ job'[t].code = job[t].code /\ job'[t].existing = job[t].existing
        /\ job'[t].briefed = job[t].briefed
    BY <1>2, <2>1 DEF Commit
  <2>3. Known(t)'
    BY <1>2, <1>4, <2>2 DEF Known, CodeOf, Briefing
  <2>. QED
    BY <1>3, <1>4, <1>5, <2>2, <2>3, OneJob
<1>6. CASE /\ job[t].pc = "index" /\ \A u \in Threads : job[u].pc # "record"
           /\ job' = [job EXCEPT ![t] =
                 [@ EXCEPT !.pc = "record", !.record = records[job[t].code]]]
  <2>1. job'[t] = [job[t] EXCEPT !.pc = "record", !.record = records[job[t].code]]
    BY <1>3, <1>6
  <2>2. /\ job'[t].pc = "record" /\ job'[t].record = records[job[t].code]
        /\ job'[t].name = job[t].name /\ job'[t].index = job[t].index
        /\ job'[t].code = job[t].code /\ job'[t].existing = job[t].existing
        /\ job'[t].briefed = job[t].briefed
    BY <1>2, <2>1 DEF Commit
  <2>3. Known(t)'
    BY <1>2, <1>4, <1>6, <2>2 DEF Known, CodeOf, Briefing, Writing
  <2>4. \A u \in Threads : Writing(u) => Norm[job'[t].name] = Norm[job[u].name]
    BY <1>6, <2>2 DEF ServerInv, OneWriter, Writing
  <2>. QED
    BY <1>3, <1>4, <1>6, <2>2, <2>3, <2>4, OneJob
<1>. QED
  BY <1>1, <1>5, <1>6

\* A change of one client's entry, record and briefing leaves the others' entries,
\* records and briefings as they were.
LEMMA OthersUntouched ==
  ASSUME NamesApart, TypeOK, ServerInv, NEW n \in Names,
         \A d \in Norms \ {Norm[n]} : index'[d] = index[d],
         \A code \in Codes \ {CodeOf(n), Norm[n]} : records'[code] = records[code],
         \A code \in Codes \ {CodeOf(n), Norm[n]} : briefings'[code] = briefings[code],
         NEW m \in Names, m # n
  PROVE  /\ index'[Norm[m]] = index[Norm[m]]
         /\ CodeOf(m)' = CodeOf(m) /\ records'[CodeOf(m)] = records[CodeOf(m)]
         /\ index[Norm[m]] # None => records'[index[Norm[m]]] = records[index[Norm[m]]]
         /\ Briefing(Norm[m])' = Briefing(Norm[m])
         /\ briefings'[Norm[m]] = briefings[Norm[m]]
<1>1. /\ CodeOf(m) # CodeOf(n) /\ CodeOf(m) # Norm[n] /\ Norm[m] # CodeOf(n)
      /\ Norm[m] # Norm[n]
  BY CodesApart DEF ServerInv
<1>2. /\ Norm[m] \in Norms /\ Norm[m] \in Codes /\ CodeOf(m) \in Codes
      /\ index[Norm[m]] \in {None, CodeOf(m)}
  BY CodesOfNames, CodeOfType DEF TypeOK, ServerTypes, CodeOf
<1>3. index'[Norm[m]] = index[Norm[m]] /\ CodeOf(m)' = CodeOf(m)
  BY <1>1, <1>2 DEF CodeOf
<1>4. records'[CodeOf(m)] = records[CodeOf(m)] /\ briefings'[CodeOf(m)] = briefings[CodeOf(m)]
  BY <1>1, <1>2
<1>5. briefings'[Norm[m]] = briefings[Norm[m]]
  BY <1>1, <1>2
<1>. QED
  BY <1>2, <1>3, <1>4, <1>5 DEF Briefing

\* A commit of another client still knows what it knew.
LEMMA OthersKnow ==
  ASSUME NamesApart, TypeOK, ServerInv, NEW n \in Names,
         \A d \in Norms \ {Norm[n]} : index'[d] = index[d],
         \A code \in Codes \ {CodeOf(n), Norm[n]} : records'[code] = records[code],
         \A code \in Codes \ {CodeOf(n), Norm[n]} : briefings'[code] = briefings[code],
         finished' \subseteq finished \cup {Norm[n]},
         \A d \in Norms \ {Norm[n]} : wrote'[d] = wrote[d],
         NEW u \in Threads, Busy(u), job'[u] = job[u], job[u].name # n,
         ~Writing(u) \/ index' = index
  PROVE  Known(u)'
<1> DEFINE m == job[u].name
<1>1. m \in Names /\ Known(u) /\ job[u] \in Commit
  BY DEF TypeOK, JobTypes, ServerInv, JobsKnow, Commit
<1>2. Norm[m] \in Norms /\ Norm[m] # Norm[n]
  BY <1>1, CodesOfNames, NamesOfNorms
<1>3. /\ index'[Norm[m]] = index[Norm[m]]
      /\ CodeOf(m)' = CodeOf(m) /\ records'[CodeOf(m)] = records[CodeOf(m)]
      /\ Briefing(Norm[m])' = Briefing(Norm[m])
  <2>1. \A mm \in Names \ {n} :
          /\ index'[Norm[mm]] = index[Norm[mm]]
          /\ CodeOf(mm)' = CodeOf(mm) /\ records'[CodeOf(mm)] = records[CodeOf(mm)]
          /\ Briefing(Norm[mm])' = Briefing(Norm[mm])
    BY OthersUntouched
  <2>. QED
    BY <1>1, <2>1
<1>. QED
  BY <1>1, <1>2, <1>3 DEF Known, Writing

LEMMA ServerFails ==
  ASSUME TypeOK, ServerInv, NEW t \in Threads, CommitFails(t)
  PROVE  ServerInv'
<1>1. UNCHANGED <<server, real>> /\ job' = [job EXCEPT ![t] = Idle] /\ DOMAIN job = Threads
  BY DEF CommitFails, TypeOK, JobTypes
<1>2. \A u \in Threads : job'[u] = job[u] \/ ~Busy(u)'
  BY <1>1 DEF Busy, Idle
<1>. QED
  BY <1>1, <1>2, ServerFrame DEF server

LEMMA ServerBackfill ==
  ASSUME TypeOK, ServerInv, Backfill
  PROVE  ServerInv'
BY ServerFrame DEF Backfill

\* The invariant after a step that touches one client's entry, record, briefing
\* and real work: what remains to be shown of that client.
LEMMA OneClient ==
  ASSUME NamesApart, TypeOK, ServerInv, NEW n \in Names,
         \A d \in Norms \ {Norm[n]} : index'[d] = index[d],
         \A code \in Codes \ {CodeOf(n), Norm[n]} : records'[code] = records[code],
         \A code \in Codes \ {CodeOf(n), Norm[n]} : briefings'[code] = briefings[code],
         opened' \subseteq opened \cup {Norm[n]}, finished' \subseteq finished \cup {Norm[n]},
         \A d \in Norms \ {Norm[n]} : wrote'[d] = wrote[d],
         index'[Norm[n]] \in {None, Norm[n], SynCode[n]},
         index'[Norm[n]] # None => records'[index'[Norm[n]]] # None,
         index'[Norm[n]] = SynCode[n] => briefings'[Norm[n]] # None,
         briefings'[SynCode[n]] # None => index'[Norm[n]] = SynCode[n],
         Norm[n] \in opened' => index'[Norm[n]] = Norm[n],
         Norm[n] \in finished' =>
           index'[Norm[n]] # None /\ records'[index'[Norm[n]]].real,
         wrote'[Norm[n]] # None => Briefing(Norm[n])' = wrote'[Norm[n]]
  PROVE  IndexInv' /\ BriefingInv' /\ RealWorkSurvives'
<1>1. ASSUME NEW m \in Names, m # n
      PROVE  /\ index'[Norm[m]] = index[Norm[m]]
             /\ index[Norm[m]] # None => records'[index[Norm[m]]] = records[index[Norm[m]]]
             /\ Briefing(Norm[m])' = Briefing(Norm[m])
             /\ briefings'[Norm[m]] = briefings[Norm[m]]
             /\ Norm[m] # Norm[n] /\ SynCode[m] \in Codes \ {CodeOf(n), Norm[n]}
  <2>1. SynCode[m] \in Codes \ {CodeOf(n), Norm[n]}
    <3>1. CodeOf(n) \in {Norm[n], SynCode[n]}
      BY DEF CodeOf, ServerInv, IndexInv
    <3>. QED
      BY <1>1, <3>1, CodesOfNames DEF NamesApart
  <2>. QED
    BY <1>1, <2>1, OthersUntouched DEF NamesApart
<1>2. \A c \in Norms \ {Norm[n]} : \E m \in Names \ {n} : c = Norm[m]
  BY NormsAreOfNames
<1>3. ASSUME NEW m \in Names
      PROVE  /\ index'[Norm[m]] \in {None, Norm[m], SynCode[m]}
             /\ index'[Norm[m]] = SynCode[m] => briefings'[Norm[m]] # None
             /\ briefings'[SynCode[m]] # None => index'[Norm[m]] = SynCode[m]
  <2>1. CASE m = n
    BY <2>1
  <2>2. CASE m # n
    <3>1. briefings'[SynCode[m]] = briefings[SynCode[m]]
      BY <1>1, <2>2
    <3>. QED
      BY <1>1, <2>2, <3>1 DEF ServerInv, IndexInv, BriefingInv
  <2>. QED
    BY <2>1, <2>2
<1>4. ASSUME NEW c \in Norms
      PROVE  /\ index'[c] # None => records'[index'[c]] # None
             /\ c \in opened' => index'[c] = c
             /\ c \in finished' => index'[c] # None /\ records'[index'[c]].real
             /\ wrote'[c] # None => Briefing(c)' = wrote'[c]
  <2>1. CASE c = Norm[n]
    BY <2>1
  <2>2. CASE c # Norm[n]
    <3>1. PICK m \in Names \ {n} : c = Norm[m]
      BY <1>2, <2>2
    <3>2. /\ index'[c] = index[c]
          /\ index[c] # None => records'[index[c]] = records[index[c]]
          /\ Briefing(c)' = Briefing(c) /\ wrote'[c] = wrote[c]
      <4>1. \A mm \in Names \ {n} : Briefing(Norm[mm])' = Briefing(Norm[mm])
        BY <1>1
      <4>2. Briefing(c)' = Briefing(c)
        BY <3>1, <4>1
      <4>. QED
        BY <1>1, <2>2, <3>1, <4>2
    <3>. QED
      BY <2>2, <3>2 DEF ServerInv, IndexInv, RealWorkSurvives
  <2>. QED
    BY <2>1, <2>2
<1>. QED
  BY <1>3, <1>4 DEF IndexInv, BriefingInv, RealWorkSurvives

\* What a commit does to the server, once it is clear that the index it read is
\* still the index, but for its own client.
LEMMA CommitWrites ==
  ASSUME TypeOK, ServerInv, NEW t \in Threads, Committed(t),
         NEW j, j = job[t], NEW n, n = job[t].name
  PROVE  /\ n \in Names /\ j \in Commit /\ Known(t) /\ Writing(t) /\ Busy(t)
         /\ Norm[n] \in Norms /\ Norm[n] \in Codes /\ j.code = CodeOf(n) /\ j.code \in Codes
         /\ index' = [index EXCEPT ![Norm[n]] = j.code]
         /\ j.record = records[j.code]
         /\ records' = [records EXCEPT ![j.code] = RecordWith(j)]
         /\ briefings' = [briefings EXCEPT ![Norm[n]] = IF j.briefed THEN @ ELSE 0]
         /\ syntheses' = [syntheses EXCEPT ![j.code] = Current(j.sittings)]
         /\ UNCHANGED <<opened, finished, wrote>>
         /\ job' = [job EXCEPT ![t] = Idle]
<1>1. job[t].pc = "record" /\ Busy(t) /\ Writing(t)
  BY DEF Committed, Busy, Writing
<1>2. j \in Commit /\ Known(t)
  BY <1>1 DEF TypeOK, JobTypes, ServerInv, JobsKnow
<1>3. n \in Names /\ Norm[n] \in Norms /\ Norm[n] \in Codes /\ j.code \in Codes
  BY <1>2, CodesOfNames DEF Commit
<1>4. /\ index' = [j.index EXCEPT ![Norm[n]] = j.code]
      /\ records' = [records EXCEPT ![j.code] = RecordWith(j)]
      /\ briefings' = [briefings EXCEPT ![Norm[n]] = IF j.briefed THEN @ ELSE 0]
      /\ syntheses' = [syntheses EXCEPT ![j.code] = Current(j.sittings)]
      /\ UNCHANGED <<opened, finished, wrote>>
      /\ job' = [job EXCEPT ![t] = Idle]
  BY DEF Committed, real
<1>5. \A d \in Norms \ {Norm[n]} : j.index[d] = index[d]
  BY <1>1, <1>2 DEF Known
<1>6. j.index \in [Norms -> Codes \cup {None}] /\ index \in [Norms -> Codes \cup {None}]
  BY <1>1 DEF TypeOK, JobTypes, ServerTypes
<1>7. index' = [index EXCEPT ![Norm[n]] = j.code]
  BY <1>4, <1>5, <1>6
<1>8. j.code = CodeOf(n) /\ j.record = records[j.code]
  BY <1>1, <1>2 DEF Known
<1>. QED
  BY <1>1, <1>2, <1>3, <1>4, <1>7, <1>8

LEMMA ServerCommitted ==
  ASSUME NamesApart, TypeOK, ServerInv, NEW t \in Threads, Committed(t)
  PROVE  ServerInv'
<1>1. PICK j, n : j = job[t] /\ n = job[t].name
  OBVIOUS
<1>2. /\ n \in Names /\ j \in Commit /\ Known(t) /\ Writing(t) /\ Busy(t)
      /\ Norm[n] \in Norms /\ Norm[n] \in Codes /\ j.code = CodeOf(n) /\ j.code \in Codes
      /\ index' = [index EXCEPT ![Norm[n]] = j.code]
      /\ j.record = records[j.code]
      /\ records' = [records EXCEPT ![j.code] = RecordWith(j)]
      /\ briefings' = [briefings EXCEPT ![Norm[n]] = IF j.briefed THEN @ ELSE 0]
      /\ UNCHANGED <<opened, finished, wrote>>
      /\ job' = [job EXCEPT ![t] = Idle]
  BY <1>1, CommitWrites
<1>3. /\ \A d \in Norms \ {Norm[n]} : index'[d] = index[d]
      /\ \A code \in Codes \ {CodeOf(n), Norm[n]} : records'[code] = records[code]
      /\ \A code \in Codes \ {CodeOf(n), Norm[n]} : briefings'[code] = briefings[code]
  BY <1>2 DEF TypeOK, ServerTypes
<1>4. /\ index'[Norm[n]] = j.code /\ records'[j.code] = RecordWith(j)
      /\ briefings'[Norm[n]] = IF j.briefed THEN briefings[Norm[n]] ELSE 0
      /\ briefings'[SynCode[n]] = briefings[SynCode[n]]
  BY <1>2, CodesOfNames DEF TypeOK, ServerTypes
<1>5. /\ j.code \in {Norm[n], SynCode[n]} /\ j.code # None
      /\ index[Norm[n]] # None => j.code = index[Norm[n]]
      /\ index[Norm[n]] = None => j.code = SynCode[n]
      /\ Norm[n] # SynCode[n]
  BY <1>2, CodesOfNames DEF CodeOf, ServerInv, IndexInv
<1>6. RecordWith(j) # None
  <2>1. j.record # None => [j.record EXCEPT !.sittings = j.sittings] \in Record
    BY <1>2 DEF Commit, Record
  <2>2. [real |-> FALSE, sittings |-> j.sittings] \in Record
    BY <1>2 DEF Commit, Record
  <2>. QED
    BY <2>1, <2>2, Assumptions DEF RecordWith
<1>7. j.briefed => Briefing(Norm[n])' = Briefing(Norm[n])
  <2>1. SUFFICES ASSUME j.briefed PROVE Briefing(Norm[n])' = Briefing(Norm[n])
    OBVIOUS
  <2>2. briefings' = briefings
    BY <1>2, <2>1 DEF TypeOK, ServerTypes
  <2>3. CASE index[Norm[n]] # None
    BY <1>4, <1>5, <2>2, <2>3 DEF Briefing
  <2>4. CASE index[Norm[n]] = None
    <3>1. index'[Norm[n]] = SynCode[n] /\ briefings[SynCode[n]] = None
      BY <1>2, <1>4, <1>5, <2>4, CodesOfNames DEF ServerInv, BriefingInv
    <3>. QED
      BY <2>2, <2>4, <3>1 DEF Briefing
  <2>. QED
    BY <2>3, <2>4
<1>8. ~j.briefed => Briefing(Norm[n])' # None
  BY <1>4, Assumptions DEF Briefing
<1>9. /\ j.existing => index[Norm[n]] # None
      /\ ~j.existing => Norm[n] \notin finished
      /\ j.briefed => Briefing(Norm[n]) # None
      /\ ~j.briefed => wrote[Norm[n]] = None
  BY <1>1, <1>2 DEF Known
<1>10. IndexInv' /\ BriefingInv' /\ RealWorkSurvives'
  <2>1. index'[Norm[n]] = SynCode[n] => briefings'[Norm[n]] # None
    <3>1. CASE ~j.briefed
      BY <1>4, <3>1, Assumptions
    <3>2. CASE j.briefed
      BY <1>2, <1>4, <1>5, <1>9, <3>2 DEF ServerInv, BriefingInv, Briefing
    <3>. QED
      BY <3>1, <3>2
  <2>2. briefings'[SynCode[n]] # None => index'[Norm[n]] = SynCode[n]
    BY <1>2, <1>4, <1>5, CodesOfNames DEF ServerInv, BriefingInv
  <2>3. Norm[n] \in opened' => index'[Norm[n]] = Norm[n]
    BY <1>2, <1>4, <1>5, CodesOfNames DEF ServerInv, RealWorkSurvives
  <2>4. Norm[n] \in finished' => index'[Norm[n]] # None /\ records'[index'[Norm[n]]].real
    <3>1. SUFFICES ASSUME Norm[n] \in finished PROVE records'[index'[Norm[n]]].real
      BY <1>2, <1>4, <1>5
    <3>2. j.existing /\ index[Norm[n]] = j.code /\ records[j.code].real
      BY <1>2, <1>5, <1>9, <3>1 DEF ServerInv, RealWorkSurvives
    <3>3. j.record # None /\ j.record \in Record /\ j.record.real
      BY <1>2, <1>5, <3>2 DEF ServerInv, IndexInv, Commit
    <3>4. RecordWith(j).real
      BY <3>2, <3>3 DEF RecordWith, Record
    <3>. QED
      BY <1>4, <3>4
  <2>5. wrote'[Norm[n]] # None => Briefing(Norm[n])' = wrote'[Norm[n]]
    BY <1>2, <1>7, <1>9 DEF ServerInv, RealWorkSurvives
  <2>. QED
    BY <1>2, <1>3, <1>4, <1>5, <1>6, <2>1, <2>2, <2>3, <2>4, <2>5, OneClient
<1>11. DOMAIN job = Threads /\ ~Busy(t)' /\ \A u \in Threads \ {t} : job'[u] = job[u]
  BY <1>2 DEF TypeOK, JobTypes, Busy, Idle
<1>12. ASSUME NEW u \in Threads, Busy(u)' PROVE Known(u)'
  <2>1. u # t /\ job'[u] = job[u] /\ Busy(u)
    BY <1>11, <1>12 DEF Busy
  <2>2. Known(u) /\ job[u].pc # "record" /\ job[u] \in Commit
    BY <1>1, <1>2, <2>1 DEF ServerInv, JobsKnow, OneWriter, Committed, TypeOK, JobTypes
  <2>3. CASE job[u].name = n
    <3>1. job[u].code = CodeOf(n)' /\ index'[Norm[n]] # None
      BY <1>2, <1>4, <1>5, <2>2, <2>3 DEF Known, CodeOf
    <3>2. job[u].briefed => Briefing(Norm[n])' # None
      BY <1>7, <1>8, <1>9
    <3>3. \A d \in Norms \ {Norm[n]} : index'[d] = index[d]
      BY <1>3
    <3>. QED
      BY <1>2, <2>1, <2>2, <2>3, <3>1, <3>2, <3>3 DEF Known, Writing
  <2>4. CASE job[u].name # n
    <3>1. ~Writing(u)
      <4>1. job[u].name \in Names /\ Norm[job[u].name] # Norm[n]
        BY <1>2, <2>2, <2>4 DEF Commit, NamesApart
      <4>. QED
        BY <1>1, <1>2, <4>1 DEF ServerInv, OneWriter
    <3>. QED
      BY <1>2, <1>3, <2>1, <2>4, <3>1, OthersKnow
  <2>. QED
    BY <2>3, <2>4
<1>13. OneWriter'
  <2>1. \A u \in Threads : Busy(u)' => job'[u] = job[u]
    BY <1>11
  <2>2. \A u \in Threads : Writing(u)' => Writing(u) /\ job'[u] = job[u]
    BY <2>1 DEF Writing, Busy
  <2>3. \A u \in Threads : job'[u].pc = "record" => job[u].pc = "record"
    BY <2>1 DEF Busy
  <2>. QED
    BY <2>2, <2>3 DEF ServerInv, OneWriter
<1>. QED
  BY <1>10, <1>12, <1>13 DEF ServerInv, JobsKnow

\* Commits of the client that real work is on know what they knew; the others were
\* not touched.
LEMMA WorkKnown ==
  ASSUME NamesApart, TypeOK, ServerInv, NEW n \in Names, UNCHANGED job,
         \A d \in Norms \ {Norm[n]} : index'[d] = index[d],
         \A code \in Codes \ {CodeOf(n), Norm[n]} : records'[code] = records[code],
         \A code \in Codes \ {CodeOf(n), Norm[n]} : briefings'[code] = briefings[code],
         finished' \subseteq finished \cup {Norm[n]},
         \A d \in Norms \ {Norm[n]} : wrote'[d] = wrote[d],
         index' = index \/ \A u \in Threads : ~Writing(u),
         \A u \in Threads : Busy(u) /\ job[u].name = n => Known(u)'
  PROVE  JobsKnow' /\ OneWriter'
<1>1. ASSUME NEW u \in Threads, Busy(u)' PROVE Known(u)'
  <2>1. Busy(u)
    BY <1>1 DEF Busy
  <2>. QED
    BY <2>1, OthersKnow
<1>2. OneWriter'
  BY DEF ServerInv, OneWriter, Writing
<1>. QED
  BY <1>1, <1>2 DEF JobsKnow

LEMMA ServerOpens ==
  ASSUME NamesApart, ServerInOrder, TypeOK, ServerInv, NEW c \in Norms, Opens(c)
  PROVE  ServerInv'
<1>1. PICK n \in Names : c = Norm[n]
  BY NormsAreOfNames
<1>2. /\ index[c] = None /\ \A t \in Threads : ~Writing(t)
      /\ Holds(c) = {}
      /\ index' = [index EXCEPT ![c] = c]
      /\ records' = [records EXCEPT ![c] = [real |-> FALSE, sittings |-> {}]]
      /\ opened' = opened \cup {c} /\ UNCHANGED <<briefings, finished, wrote, job>>
  BY DEF Opens, ServerInOrder, Overlap
<1>3. c \in Codes /\ c # None /\ SynCode[n] # c
  BY <1>1, CodesOfNames
<1>4. /\ \A d \in Norms \ {Norm[n]} : index'[d] = index[d]
      /\ \A code \in Codes \ {CodeOf(n), Norm[n]} : records'[code] = records[code]
      /\ index'[c] = c /\ records'[c] = [real |-> FALSE, sittings |-> {}]
  BY <1>1, <1>2, <1>3 DEF TypeOK, ServerTypes
<1>5. [real |-> FALSE, sittings |-> {}] # None
  <2>1. [real |-> FALSE, sittings |-> {}] \in Record
    BY DEF Record
  <2>. QED
    BY <2>1, Assumptions
<1>6. briefings[SynCode[n]] = None
  BY <1>1, <1>2, CodesOfNames DEF ServerInv, BriefingInv
<1>7. c \notin finished
  BY <1>2 DEF ServerInv, RealWorkSurvives
<1>8. Briefing(c)' = Briefing(c)
  BY <1>2, <1>3, <1>4 DEF Briefing
<1>9. IndexInv' /\ BriefingInv' /\ RealWorkSurvives'
  BY <1>1, <1>2, <1>3, <1>4, <1>5, <1>6, <1>7, <1>8, OneClient DEF ServerInv, RealWorkSurvives
<1>10. \A u \in Threads : Busy(u) => job[u].name # n
  BY <1>1, <1>2 DEF Holds, Busy
<1>11. JobsKnow' /\ OneWriter'
  BY <1>2, <1>4, <1>10, WorkKnown
<1>. QED
  BY <1>9, <1>11 DEF ServerInv

LEMMA ServerSaves ==
  ASSUME NamesApart, ServerInOrder, TypeOK, ServerInv, NEW c \in Norms,
         NEW catalog \in 2 .. Len(Catalogs), SavesBriefing(c, catalog)
  PROVE  ServerInv'
<1>1. PICK n \in Names : c = Norm[n]
  BY NormsAreOfNames
<1> DEFINE key == IF index[c] # None THEN index[c] ELSE c
<1>2. /\ \A t \in Holds(c) : job[t].briefed
      /\ briefings' = [briefings EXCEPT ![key] = catalog]
      /\ wrote' = [wrote EXCEPT ![c] = catalog]
      /\ UNCHANGED <<index, records, opened, finished, job>>
  BY DEF SavesBriefing, ServerInOrder, Overlap
<1>3. c \in Codes /\ c # None /\ SynCode[n] # c /\ SynCode[n] \in Codes /\ catalog # None
      /\ catalog \in Nat
  BY <1>1, CodesOfNames, Assumptions
<1>4. key \in Codes /\ (key = c \/ key = CodeOf(n)) /\ key \in {c, SynCode[n]}
      /\ (key = SynCode[n] => index[c] = SynCode[n])
  BY <1>1, <1>3 DEF TypeOK, ServerTypes, CodeOf, ServerInv, IndexInv
<1>5. /\ briefings'[key] = catalog /\ \A code \in Codes \ {key} : briefings'[code] = briefings[code]
      /\ wrote'[c] = catalog /\ \A d \in Norms \ {c} : wrote'[d] = wrote[d]
  BY <1>2, <1>4 DEF TypeOK, ServerTypes
<1>6. Briefing(c)' = catalog
  BY <1>2, <1>3, <1>5 DEF Briefing
<1> HIDE DEF key
<1>7. index'[Norm[n]] = SynCode[n] => briefings'[Norm[n]] # None
  BY <1>1, <1>2, <1>3, <1>5 DEF ServerInv, BriefingInv
<1>8. briefings'[SynCode[n]] # None => index'[Norm[n]] = SynCode[n]
  BY <1>1, <1>2, <1>3, <1>4, <1>5 DEF ServerInv, BriefingInv
<1>9. /\ index'[Norm[n]] \in {None, Norm[n], SynCode[n]}
      /\ index'[Norm[n]] # None => records'[index'[Norm[n]]] # None
      /\ Norm[n] \in opened' => index'[Norm[n]] = Norm[n]
      /\ Norm[n] \in finished' => index'[Norm[n]] # None /\ records'[index'[Norm[n]]].real
  BY <1>1, <1>2 DEF ServerInv, IndexInv, RealWorkSurvives
<1>10. \A code \in Codes \ {CodeOf(n), Norm[n]} : briefings'[code] = briefings[code]
  BY <1>1, <1>4, <1>5
<1>11. IndexInv' /\ BriefingInv' /\ RealWorkSurvives'
  BY <1>1, <1>2, <1>5, <1>6, <1>7, <1>8, <1>9, <1>10, OneClient
<1>12. ASSUME NEW u \in Threads, Busy(u), job[u].name = n PROVE Known(u)'
  <2>1. Known(u) /\ job[u].briefed
    BY <1>1, <1>2, <1>12 DEF ServerInv, JobsKnow, Holds, Busy
  <2>. QED
    BY <1>1, <1>2, <1>3, <1>6, <1>12, <2>1 DEF Known, CodeOf, Writing
<1>13. JobsKnow' /\ OneWriter'
  BY <1>1, <1>2, <1>5, <1>10, <1>12, WorkKnown
<1>. QED
  BY <1>11, <1>13 DEF ServerInv

LEMMA ServerCompletes ==
  ASSUME NamesApart, ServerInOrder, TypeOK, ServerInv, NEW c \in Norms, CompletesInterview(c)
  PROVE  ServerInv'
<1>1. PICK n \in Names : c = Norm[n]
  BY NormsAreOfNames
<1>2. /\ index[c] # None /\ records[index[c]] # None
      /\ \A t \in Holds(c) : job[t].pc # "record" /\ job[t].existing
      /\ records' = [records EXCEPT ![index[c]].real = TRUE]
      /\ finished' = finished \cup {c}
      /\ UNCHANGED <<index, briefings, opened, wrote, job>>
  BY DEF CompletesInterview, ServerInOrder, Overlap
<1>3. index[c] = CodeOf(n) /\ index[c] \in Codes /\ records[index[c]] \in Record
  BY <1>1, <1>2 DEF CodeOf, TypeOK, ServerTypes
<1>4. [records[index[c]] EXCEPT !.real = TRUE] \in Record
      /\ [records[index[c]] EXCEPT !.real = TRUE].real
  BY <1>3 DEF Record
<1>5. /\ records'[index[c]] = [records[index[c]] EXCEPT !.real = TRUE]
      /\ \A code \in Codes \ {index[c]} : records'[code] = records[code]
  BY <1>2, <1>3 DEF TypeOK, ServerTypes
<1>6. records'[index[c]] # None /\ records'[index[c]].real
  BY <1>4, <1>5, Assumptions
<1>7. Briefing(c)' = Briefing(c)
  BY <1>2 DEF Briefing
<1>8. IndexInv' /\ BriefingInv' /\ RealWorkSurvives'
  <2>1. /\ index'[Norm[n]] \in {None, Norm[n], SynCode[n]}
        /\ index'[Norm[n]] = SynCode[n] => briefings'[Norm[n]] # None
        /\ briefings'[SynCode[n]] # None => index'[Norm[n]] = SynCode[n]
        /\ Norm[n] \in opened' => index'[Norm[n]] = Norm[n]
        /\ wrote'[Norm[n]] # None => Briefing(Norm[n])' = wrote'[Norm[n]]
    BY <1>1, <1>2, <1>7 DEF ServerInv, IndexInv, BriefingInv, RealWorkSurvives
  <2>. QED
    BY <1>1, <1>2, <1>3, <1>5, <1>6, <2>1, OneClient
<1>9. ASSUME NEW u \in Threads, Busy(u), job[u].name = n PROVE Known(u)'
  <2>1. Known(u) /\ job[u].existing /\ job[u].pc # "record"
    BY <1>1, <1>2, <1>9 DEF ServerInv, JobsKnow, Holds, Busy
  <2>. QED
    BY <1>1, <1>2, <1>7, <1>9, <2>1 DEF Known, CodeOf, Writing
<1>10. JobsKnow' /\ OneWriter'
  BY <1>1, <1>2, <1>3, <1>5, <1>9, WorkKnown
<1>. QED
  BY <1>8, <1>10 DEF ServerInv

LEMMA ServerInit ==
  ASSUME NamesApart, Init
  PROVE  ServerInv
<1>1. PICK old \in {None} \cup IF Legacy THEN Names ELSE {} :
       LET oldRows == IF old = None THEN {} ELSE LegacyOf(old)
           sittings == {r.sitting : r \in oldRows}
           at(code, f, none) ==
             IF old # None /\ SynCode[old] = code THEN f ELSE none
       IN /\ index = [c \in Norms |->
               IF old # None /\ Norm[old] = c THEN SynCode[old] ELSE None]
          /\ records = [code \in Codes |->
               at(code, [real |-> FALSE, sittings |-> sittings], None)]
          /\ briefings = [k \in Codes |->
               IF old # None /\ Norm[old] = k THEN 0 ELSE None]
  BY DEF Init
<1> DEFINE sittings == {r.sitting : r \in IF old = None THEN {} ELSE LegacyOf(old)}
<1>2. /\ opened = {} /\ finished = {} /\ wrote = [c \in Norms |-> None]
      /\ job = [t \in Threads |-> Idle]
  BY DEF Init
<1>3. old # None => old \in Names
  OBVIOUS
<1>4. /\ index = [c \in Norms |-> IF old # None /\ Norm[old] = c THEN SynCode[old] ELSE None]
      /\ records = [code \in Codes |-> IF old # None /\ SynCode[old] = code
                                       THEN [real |-> FALSE, sittings |-> sittings] ELSE None]
      /\ briefings = [k \in Codes |-> IF old # None /\ Norm[old] = k THEN 0 ELSE None]
  BY <1>1
<1>5. old # None => [real |-> FALSE, sittings |-> sittings] # None
  <2>1. SUFFICES ASSUME old # None PROVE [real |-> FALSE, sittings |-> sittings] # None
    OBVIOUS
  <2>2. sittings \subseteq Sitting
    BY <1>3, <2>1, LegacyTypes
  <2>3. [real |-> FALSE, sittings |-> sittings] \in Record
    BY <2>2 DEF Record
  <2>. QED
    BY <2>3, Assumptions
<1> HIDE DEF sittings
<1>6. IndexInv
  BY <1>3, <1>4, <1>5, CodesOfNames, NormsAreOfNames DEF IndexInv, NamesApart
<1>7. BriefingInv
  BY <1>3, <1>4, CodesOfNames, Assumptions DEF BriefingInv, NamesApart
<1>8. JobsKnow /\ OneWriter /\ RealWorkSurvives
  BY <1>2 DEF JobsKnow, OneWriter, RealWorkSurvives, Busy, Writing, Idle
<1>. QED
  BY <1>6, <1>7, <1>8 DEF ServerInv

LEMMA ServerNext ==
  ASSUME NamesApart, ServerInOrder, TypeOK, ServerInv, [Next]_vars
  PROVE  ServerInv'
<1>1. ASSUME NEW p \in Pages,
         \/ \E n \in Names, rounds \in Rounds : Generate(p, n, rounds)
         \/ \E i \in Places : Answered(p, i)
         \/ Barred(p) \/ RoundEnds(p)
         \/ Retry(p) \/ RetryAnswered(p) \/ RetryBarred(p) \/ RetryEnds(p)
         \/ \E f \in Missing : RetryAsks(p, f)
      PROVE ServerInv'
  BY <1>1, ServerPageSteps
<1>2. ASSUME NEW p \in Pages, NEW n \in Names, NEW rounds \in Rounds, Engagement(p, n, rounds)
      PROVE  ServerInv'
  BY <1>2, ServerEngagement
<1>3. ASSUME NEW t \in Threads,
             Context(t) \/ IndexRead(t) \/ RecordRead(t) \/ Committed(t) \/ CommitFails(t)
      PROVE  ServerInv'
  BY <1>3, ServerContext, ServerReads, ServerCommitted, ServerFails
<1>4. CASE Backfill
  BY <1>4, ServerBackfill
<1>5. ASSUME NEW c \in Norms,
             \/ Opens(c) \/ CompletesInterview(c)
             \/ \E catalog \in 2 .. Len(Catalogs) : SavesBriefing(c, catalog)
      PROVE  ServerInv'
  BY <1>5, ServerOpens, ServerSaves, ServerCompletes
<1>6. CASE UNCHANGED vars
  BY <1>6, ServerFrame DEF vars, server
<1>. QED
  BY <1>1, <1>2, <1>3, <1>4, <1>5, <1>6 DEF Next

\* However commits, failures and retries interleave with the work of consultants,
\* an engagement a consultant opened stays the one its client's index entry names,
\* interviews completed stay in its record, and the briefing last saved is the one
\* that is read (commitSyntheticEngagement's existing and briefed branches and the
\* row lock of the index), for clients that share no norm and no generated code and
\* requests that overlap as the code orders them.
THEOREM RealWorkIsKept ==
  ASSUME NamesApart, ServerInOrder
  PROVE  Spec => []RealWorkSurvives
<1>1. Init => TypeOK /\ ServerInv
  BY InitTypes, ServerInit
<1>2. TypeOK /\ ServerInv /\ [Next]_vars => (TypeOK /\ ServerInv)'
  BY NextTypes, ServerNext
<1>3. TypeOK /\ ServerInv => RealWorkSurvives
  BY DEF ServerInv
<1>. QED
  BY <1>1, <1>2, <1>3, PTL DEF Spec

-----------------------------------------------------------------------------
(* One story.  The hypotheses besides: no catalog has one persona twice, and *)
(* a retry and a new generation of one page do not overlap.                 *)

PersonasApart ==
  \A k \in DOMAIN Catalogs : \A i, j \in DOMAIN Catalogs[k] :
    Catalogs[k][i] = Catalogs[k][j] => i = j

\* Sittings that are a story of one roster: each of its personas once a round at
\* most, and every second round following on from a first one that is there.
Tale(S, roster) ==
  /\ S \subseteq Sitting
  /\ \A s \in S : \E i \in DOMAIN roster : s.who = roster[i]
  /\ \A s, u \in S : s.who = u.who /\ s.round = u.round => s = u
  /\ \A s \in S : s.round = 2 => s.after # {} /\ s.after \subseteq ToldOf(S, 1)

Tellable(S) == \E k \in DOMAIN Catalogs : Tale(S, Catalogs[k])

\* Was the persona at this place of the roster played?
Played(S, roster, i, round) == \E s \in S : s.who = roster[i] /\ s.round = round

\* Whom a page still has to ask for.
Wanted(r, missed) ==
  missed
    \cup (IF r.pc \in {"loop", "asked"} THEN r.pending ELSE {})
    \cup (IF r.pc = "asked" THEN {r.f} ELSE {})

\* What is collected is a tale of the roster, and nobody is in it who is wanted.
Collects(S, wanted, roster) ==
  /\ Tale(S, roster)
  /\ wanted \subseteq [place : DOMAIN roster, round : Rounds]
  /\ \A f \in wanted : ~Played(S, roster, f.place, f.round)

\* Everybody was played in every round or is wanted.
Accounts(S, wanted, roster, rounds) ==
  \A i \in DOMAIN roster, round \in 1 .. rounds :
    Played(S, roster, i, round) \/ [place |-> i, round |-> round] \in wanted

\* A round that is being played: nobody in the queue was played or missed in it,
\* and it follows on from the one before.
RoundInv(g, roster, done, missed) ==
  /\ g.round \in 1 .. g.rounds
  /\ g.queue \subseteq DOMAIN roster
  /\ \A s \in g.got :
       /\ s.round = g.round /\ s.after = g.after
       /\ \E i \in DOMAIN roster \ g.queue : s.who = roster[i]
  /\ \A s, u \in g.got : s.who = u.who => s = u
  /\ \A s \in done : s.round < g.round
  /\ g.round = 2 => g.after # {}
  /\ g.after \subseteq ToldOf(done, 1)
  /\ \A f \in missed :
       f.round < g.round \/ (f.round = g.round /\ f.place \notin g.queue)
  /\ \A i \in DOMAIN roster \ g.queue :
       Played(g.got, roster, i, g.round) <=> [place |-> i, round |-> g.round] \notin missed
  /\ g.round = 2 => \A i \in DOMAIN roster :
       Played(done, roster, i, 1) \/ [place |-> i, round |-> 1] \in missed

Distinct(roster) == \A i, j \in DOMAIN roster : roster[i] = roster[j] => i = j

LEMMA AnswerGoesIn ==
  ASSUME NEW roster, Distinct(roster), NEW g, NEW S, NEW F, RoundInv(g, roster, S, F),
         NEW i \in g.queue, NEW s, s.who = roster[i], s.round = g.round, s.after = g.after,
         NEW h, h.round = g.round, h.rounds = g.rounds, h.after = g.after,
         h.queue = g.queue \ {i}, h.got = g.got \cup {s}
  PROVE  RoundInv(h, roster, S, F)
<1>1. i \in DOMAIN roster
  BY DEF RoundInv
<1>2. \A u \in g.got : u.who # roster[i]
  BY <1>1 DEF RoundInv, Distinct
<1>3. /\ h.round \in 1 .. h.rounds /\ h.queue \subseteq DOMAIN roster
      /\ \A u \in S : u.round < h.round
      /\ h.round = 2 => h.after # {}
      /\ h.after \subseteq ToldOf(S, 1)
      /\ \A f \in F : f.round < h.round \/ (f.round = h.round /\ f.place \notin h.queue)
      /\ h.round = 2 => \A k \in DOMAIN roster :
           Played(S, roster, k, 1) \/ [place |-> k, round |-> 1] \in F
  BY DEF RoundInv
<1>4. \A u \in h.got :
        /\ u.round = h.round /\ u.after = h.after
        /\ \E k \in DOMAIN roster \ h.queue : u.who = roster[k]
  BY <1>1 DEF RoundInv
<1>5. \A u, v \in h.got : u.who = v.who => u = v
  BY <1>2 DEF RoundInv
<1>6. ASSUME NEW k \in DOMAIN roster \ h.queue
      PROVE  Played(h.got, roster, k, h.round) <=> [place |-> k, round |-> h.round] \notin F
  <2>1. CASE k = i
    <3>1. Played(h.got, roster, k, h.round)
      BY <2>1 DEF Played
    <3>2. [place |-> k, round |-> h.round] \notin F
      <4>1. \A f \in F : f.round = g.round => f.place # i
        BY DEF RoundInv
      <4>. QED
        BY <2>1, <4>1
    <3>. QED
      BY <3>1, <3>2
  <2>2. CASE k # i
    <3>1. roster[k] # roster[i]
      BY <1>1, <2>2 DEF Distinct
    <3>2. Played(h.got, roster, k, h.round) <=> Played(g.got, roster, k, g.round)
      BY <3>1 DEF Played
    <3>. QED
      BY <2>2, <3>2 DEF RoundInv
  <2>. QED
    BY <2>1, <2>2
<1>. QED
  BY <1>3, <1>4, <1>5, <1>6 DEF RoundInv

LEMMA MissGoesIn ==
  ASSUME NEW roster, Distinct(roster), NEW g, NEW S, NEW F, RoundInv(g, roster, S, F),
         g.round \in Nat, NEW i \in g.queue,
         NEW h, h.round = g.round, h.rounds = g.rounds, h.after = g.after,
         h.queue = g.queue \ {i}, h.got = g.got
  PROVE  RoundInv(h, roster, S, F \cup {[place |-> i, round |-> g.round]})
<1> DEFINE E == F \cup {[place |-> i, round |-> g.round]}
<1>1. i \in DOMAIN roster
  BY DEF RoundInv
<1>2. \A u \in g.got : u.who # roster[i]
  BY <1>1 DEF RoundInv, Distinct
<1>3. /\ h.round \in 1 .. h.rounds /\ h.queue \subseteq DOMAIN roster
      /\ \A u \in S : u.round < h.round
      /\ h.round = 2 => h.after # {}
      /\ h.after \subseteq ToldOf(S, 1)
      /\ \A f \in E : f.round < h.round \/ (f.round = h.round /\ f.place \notin h.queue)
      /\ h.round = 2 => \A k \in DOMAIN roster :
           Played(S, roster, k, 1) \/ [place |-> k, round |-> 1] \in E
  BY DEF RoundInv
<1>4. /\ \A u \in h.got :
           /\ u.round = h.round /\ u.after = h.after
           /\ \E k \in DOMAIN roster \ h.queue : u.who = roster[k]
      /\ \A u, v \in h.got : u.who = v.who => u = v
  BY DEF RoundInv
<1>5. ASSUME NEW k \in DOMAIN roster \ h.queue
      PROVE  Played(h.got, roster, k, h.round) <=> [place |-> k, round |-> h.round] \notin E
  <2>1. CASE k = i
    BY <1>2, <2>1 DEF Played
  <2>2. CASE k # i
    <3>1. [place |-> k, round |-> h.round] \in E <=> [place |-> k, round |-> h.round] \in F
      <4>1. [place |-> k, round |-> h.round] # [place |-> i, round |-> g.round]
        <5>1. [place |-> k, round |-> h.round].place # [place |-> i, round |-> g.round].place
          BY <2>2
        <5>. QED
          BY <5>1
      <4>. QED
        BY <4>1
    <3>. QED
      BY <2>2, <3>1 DEF RoundInv
  <2>. QED
    BY <2>1, <2>2
<1>. QED
  BY <1>3, <1>4, <1>5 DEF RoundInv

\* A tale with sittings of one round added, of personas it does not have in it.
LEMMA TaleGoesOn ==
  ASSUME NEW roster, NEW S, Tale(S, roster), NEW G \in SUBSET Sitting,
         \A s \in G : \E i \in DOMAIN roster : s.who = roster[i],
         \A s, u \in G : s.who = u.who /\ s.round = u.round => s = u,
         \A s \in G, u \in S : ~(s.who = u.who /\ s.round = u.round),
         \A s \in G : s.round = 2 => s.after # {} /\ s.after \subseteq ToldOf(S, 1)
  PROVE  Tale(S \cup G, roster)
<1>1. ToldOf(S, 1) \subseteq ToldOf(S \cup G, 1)
  BY MoreIsTold
<1>2. \A s, u \in S \cup G : s.who = u.who /\ s.round = u.round => s = u
  BY DEF Tale
<1>3. \A s \in S \cup G : \E i \in DOMAIN roster : s.who = roster[i]
  BY DEF Tale
<1>4. \A s \in S \cup G : s.round = 2 =>
        s.after # {} /\ s.after \subseteq ToldOf(S \cup G, 1)
  BY <1>1 DEF Tale
<1>. QED
  BY <1>2, <1>3, <1>4 DEF Tale

\* The end of a round: what it brought goes in with what was there.
LEMMA RoundGoesIn ==
  ASSUME NEW roster, NEW S, NEW F, Collects(S, F, roster), NEW g, g \in Round,
         RoundInv(g, roster, S, F), g.queue = {}
  PROVE  /\ Collects(S \cup g.got, F, roster)
         /\ \A i \in DOMAIN roster :
              \/ Played(S \cup g.got, roster, i, g.round)
              \/ [place |-> i, round |-> g.round] \in F
         /\ g.round = 2 => \A i \in DOMAIN roster :
              \/ Played(S \cup g.got, roster, i, 1)
              \/ [place |-> i, round |-> 1] \in F
<1>0. g.got \in SUBSET Sitting /\ S \subseteq Sitting
  BY DEF Round, Collects, Tale
<1>1. Tale(S \cup g.got, roster)
  <2>1. \A s \in g.got, u \in S : ~(s.who = u.who /\ s.round = u.round)
    <3>1. \A s \in g.got, u \in S : s.round = g.round /\ u.round < g.round
      BY DEF RoundInv
    <3>2. g.round \in Nat
      BY DEF Round, Rounds
    <3>. QED
      BY <3>1, <3>2
  <2>2. \A s \in g.got : s.round = 2 => s.after # {} /\ s.after \subseteq ToldOf(S, 1)
    BY DEF RoundInv
  <2>3. /\ \A s \in g.got : \E i \in DOMAIN roster : s.who = roster[i]
        /\ \A s, u \in g.got : s.who = u.who /\ s.round = u.round => s = u
    BY DEF RoundInv
  <2>. QED
    BY <1>0, <2>1, <2>2, <2>3, TaleGoesOn DEF Collects
<1>2. F \subseteq [place : DOMAIN roster, round : Rounds]
  BY DEF Collects
<1>3. ASSUME NEW f \in F PROVE ~Played(S \cup g.got, roster, f.place, f.round)
  <2>1. ~Played(S, roster, f.place, f.round)
    BY DEF Collects
  <2>2. ~Played(g.got, roster, f.place, f.round)
    <3>1. f.place \in DOMAIN roster /\ f.round \in Rounds /\ f = [place |-> f.place, round |-> f.round]
      BY <1>2
    <3>2. CASE f.round < g.round
      <4>1. g.round \in Nat /\ f.round \in Nat
        BY <3>1 DEF Round, Rounds
      <4>. QED
        BY <3>2, <4>1 DEF RoundInv, Played
    <3>3. CASE f.round = g.round
      BY <3>1, <3>3 DEF RoundInv
    <3>. QED
      BY <3>2, <3>3 DEF RoundInv
  <2>. QED
    BY <2>1, <2>2 DEF Played
<1>4. \A i, round : Played(S, roster, i, round) \/ Played(g.got, roster, i, round)
        => Played(S \cup g.got, roster, i, round)
  BY DEF Played
<1>5. /\ \A i \in DOMAIN roster :
           \/ Played(S \cup g.got, roster, i, g.round)
           \/ [place |-> i, round |-> g.round] \in F
      /\ g.round = 2 => \A i \in DOMAIN roster :
           \/ Played(S \cup g.got, roster, i, 1)
           \/ [place |-> i, round |-> 1] \in F
  BY <1>4 DEF RoundInv
<1>. QED
  BY <1>1, <1>2, <1>3, <1>5 DEF Collects

\* What a page collected, whom it misses, and where its generation and its retry are.
Story(g, r, roster, S, F) ==
  /\ r.pc # "idle" => g.pc = "shown"
  /\ g.pc # "idle" => Collects(S, Wanted(r, F), roster)
  /\ g.pc = "round" => RoundInv(g, roster, S, F)
  /\ g.pc \in {"commit", "shown"} /\ r.pc # "done" =>
       Accounts(S, Wanted(r, F), roster, g.rounds)
  /\ r.pc \in {"loop", "asked"} => r.pending \cap F = {}
  /\ r.pc = "asked" =>
       /\ r.array /\ r.f \notin r.pending \cup F /\ r.who = roster[r.f.place]
       /\ r.f.round = 2 => r.after # {}
       /\ r.after \subseteq ToldOf(S, 1)

PageStory(p) == Story(gen[p], retry[p], context[p].roster, collected[p], failures[p])

PagesStory == \A p \in Pages : PageStory(p)

\* While nothing is retried, whom the page wants is whom it missed.
LEMMA WantedAtRest ==
  ASSUME NEW r, NEW F, r.pc \notin {"loop", "asked"}
  PROVE  Wanted(r, F) = F
BY DEF Wanted

LEMMA NothingTold ==
  ASSUME NEW roster
  PROVE  Tale({}, roster)
BY DEF Tale

LEMMA StoryBegins ==
  ASSUME NEW roster, NEW n, NEW rounds \in Rounds, NEW r, r.pc = "idle"
  PROVE  Story([pc |-> "round", name |-> n, rounds |-> rounds, round |-> 1,
                queue |-> DOMAIN roster, got |-> {}, after |-> {}], r, roster, {}, {})
<1> DEFINE g == [pc |-> "round", name |-> n, rounds |-> rounds, round |-> 1,
                 queue |-> DOMAIN roster, got |-> {}, after |-> {}]
<1>1. Collects({}, {}, roster)
  BY NothingTold DEF Collects
<1>2. RoundInv(g, roster, {}, {})
  BY DEF RoundInv, Rounds
<1>3. Wanted(r, {}) = {}
  BY DEF Wanted
<1>. QED
  BY <1>1, <1>2, <1>3 DEF Story

LEMMA StoryAnswered ==
  ASSUME NEW roster, Distinct(roster), NEW g \in Round, NEW r, NEW S, NEW F,
         Story(g, r, roster, S, F),
         NEW i \in g.queue, NEW s \in Sitting,
         s.who = roster[i], s.round = g.round, s.after = g.after
  PROVE  Story([g EXCEPT !.queue = @ \ {i}, !.got = @ \cup {s}], r, roster, S, F)
<1> DEFINE h == [g EXCEPT !.queue = @ \ {i}, !.got = @ \cup {s}]
<1>1. /\ h.pc = "round" /\ h.round = g.round /\ h.rounds = g.rounds /\ h.after = g.after
      /\ h.queue = g.queue \ {i} /\ h.got = g.got \cup {s} /\ g.pc = "round"
  BY DEF Round
<1> HIDE DEF h
<1>2. RoundInv(g, roster, S, F) /\ r.pc = "idle" /\ Collects(S, Wanted(r, F), roster)
  BY <1>1 DEF Story
<1>3. RoundInv(h, roster, S, F)
  BY <1>1, <1>2, AnswerGoesIn
<1>4. Story(h, r, roster, S, F)
  BY <1>1, <1>2, <1>3 DEF Story
<1>. QED
  BY <1>4 DEF h

LEMMA StoryMissed ==
  ASSUME NEW roster, Distinct(roster), NEW g \in Round, NEW r, NEW S, NEW F,
         Story(g, r, roster, S, F),
         NEW i \in g.queue
  PROVE  Story([g EXCEPT !.queue = @ \ {i}], r, roster, S,
               F \cup {[place |-> i, round |-> g.round]})
<1> DEFINE h == [g EXCEPT !.queue = @ \ {i}]
           E == F \cup {[place |-> i, round |-> g.round]}
<1>1. /\ h.pc = "round" /\ h.round = g.round /\ h.rounds = g.rounds /\ h.after = g.after
      /\ h.queue = g.queue \ {i} /\ h.got = g.got /\ g.pc = "round" /\ g.round \in Rounds
  BY DEF Round
<1> HIDE DEF h
<1>2. RoundInv(g, roster, S, F) /\ r.pc = "idle" /\ Collects(S, F, roster)
  BY <1>1, WantedAtRest DEF Story
<1>3. RoundInv(h, roster, S, E)
  BY <1>1, <1>2, MissGoesIn DEF Rounds
<1>4. Collects(S, E, roster)
  <2>1. i \in DOMAIN roster /\ \A s \in S : s.round < g.round
    BY <1>2 DEF RoundInv
  <2>2. ~Played(S, roster, i, g.round)
    <3>1. g.round \in Nat
      BY <1>1 DEF Rounds
    <3>. QED
      BY <2>1, <3>1 DEF Played
  <2>. QED
    BY <1>1, <1>2, <2>1, <2>2 DEF Collects
<1>5. Wanted(r, E) = E
  BY <1>2, WantedAtRest
<1>6. Story(h, r, roster, S, E)
  BY <1>1, <1>2, <1>3, <1>4, <1>5 DEF Story
<1>. QED
  BY <1>6 DEF h

LEMMA StoryBarred ==
  ASSUME NEW roster, NEW g, NEW r, NEW S, NEW F, Story(g, r, roster, S, F), g.pc = "round"
  PROVE  Story([pc |-> "error"], r, roster, S, F)
BY DEF Story

\* The round is over: the next one begins, or all of it goes to be committed.
LEMMA StoryRoundEnds ==
  ASSUME NEW roster, NEW g \in Round, NEW r, NEW S, NEW F, Story(g, r, roster, S, F),
         g.queue = {},
         NEW h,
         \/ /\ g.round < g.rounds /\ g.got # {}
            /\ h = [g EXCEPT !.round = @ + 1, !.queue = DOMAIN roster, !.got = {},
                             !.after = ToldOf(g.got, g.round)]
         \/ /\ ~(g.round < g.rounds /\ g.got # {}) /\ S \cup g.got # {}
            /\ h = [g EXCEPT !.pc = "commit", !.got = {}]
         \/ h = [pc |-> "error"]
  PROVE  Story(h, r, roster, S \cup g.got, F)
<1> DEFINE all == S \cup g.got
<1>1. /\ g.pc = "round" /\ g.round \in Rounds /\ g.rounds \in Rounds /\ g.round \in Nat
      /\ g.rounds \in Nat
  BY DEF Round, Rounds
<1>2. RoundInv(g, roster, S, F) /\ r.pc = "idle" /\ Collects(S, F, roster) /\ Wanted(r, F) = F
  BY <1>1, WantedAtRest DEF Story
<1>3. /\ Collects(all, F, roster)
      /\ \A i \in DOMAIN roster : Played(all, roster, i, g.round) \/ [place |-> i, round |-> g.round] \in F
      /\ g.round = 2 => \A i \in DOMAIN roster :
           Played(all, roster, i, 1) \/ [place |-> i, round |-> 1] \in F
  BY <1>2, RoundGoesIn
<1>4. S \subseteq Sitting /\ g.got \subseteq Sitting /\ \A s \in S : s.round < g.round
  BY <1>2 DEF Collects, Tale, RoundInv, Round
<1>5. CASE /\ g.round < g.rounds /\ g.got # {}
           /\ h = [g EXCEPT !.round = @ + 1, !.queue = DOMAIN roster, !.got = {},
                            !.after = ToldOf(g.got, g.round)]
  <2>1. g.round = 1 /\ g.rounds = 2
    BY <1>1, <1>5 DEF Rounds
  <2>2. /\ h.pc = "round" /\ h.round = 2 /\ h.rounds = 2 /\ h.queue = DOMAIN roster
        /\ h.got = {} /\ h.after = ToldOf(g.got, 1)
    BY <1>5, <2>1 DEF Round
  <2>3. h.after # {}
    BY <1>2, <1>5, <2>1, <2>2 DEF RoundInv, ToldOf
  <2>4. h.after \subseteq ToldOf(all, 1)
    BY <2>2, MoreIsTold
  <2>5. \A s \in all : s.round < 2
    <3>1. \A s \in g.got : s.round = 1
      BY <1>2, <2>1 DEF RoundInv
    <3>2. \A s \in S : s.round \in 1 .. 2
      BY <1>4 DEF Sitting, Rounds
    <3>. QED
      BY <1>4, <2>1, <3>1, <3>2
  <2>6. \A f \in F : f.round < 2
    <3>1. \A f \in F : f.round \in 1 .. 2
      BY <1>2 DEF Collects, Rounds
    <3>2. \A f \in F : f.round < g.round \/ f.round = g.round
      BY <1>2 DEF RoundInv
    <3>. QED
      BY <2>1, <3>1, <3>2
  <2>7. RoundInv(h, roster, all, F)
    BY <1>3, <2>1, <2>2, <2>3, <2>4, <2>5, <2>6 DEF RoundInv
  <2>. QED
    BY <1>2, <1>3, <2>2, <2>7 DEF Story
<1>6. CASE /\ ~(g.round < g.rounds /\ g.got # {}) /\ all # {}
           /\ h = [g EXCEPT !.pc = "commit", !.got = {}]
  <2>1. h.pc = "commit" /\ h.rounds = g.rounds
    BY <1>6 DEF Round
  <2>2. g.round = g.rounds
    <3>1. ASSUME g.round < g.rounds PROVE FALSE
      <4>1. g.got = {} /\ g.round = 1 /\ S # {}
        BY <1>1, <1>6, <3>1 DEF Rounds
      <4>2. \A s \in S : s.round \in 1 .. 2
        BY <1>4 DEF Sitting, Rounds
      <4>. QED
        BY <1>4, <4>1, <4>2
    <3>2. g.round \in 1 .. g.rounds
      BY <1>2 DEF RoundInv
    <3>. QED
      BY <1>1, <3>1, <3>2
  <2>3. Accounts(all, F, roster, g.rounds)
    <3>1. \A round \in 1 .. g.rounds : round = g.round \/ (round = 1 /\ g.round = 2)
      BY <1>1, <2>2 DEF Rounds
    <3>. QED
      BY <1>3, <3>1 DEF Accounts
  <2>. QED
    BY <1>2, <1>3, <2>1, <2>3 DEF Story
<1>7. CASE h = [pc |-> "error"]
  BY <1>2, <1>3, <1>7 DEF Story
<1>. QED
  BY <1>5, <1>6, <1>7

\* A retry is started: what was missed is what it goes through.
LEMMA StoryRetried ==
  ASSUME NEW roster, NEW g, NEW r, NEW S, NEW F, Story(g, r, roster, S, F),
         g.pc = "shown", r.pc = "idle"
  PROVE  Story(g, [pc |-> "loop", pending |-> F], roster, S, {})
<1>1. Wanted(r, F) = F /\ Wanted([pc |-> "loop", pending |-> F], {}) = F
  BY DEF Wanted
<1>. QED
  BY <1>1 DEF Story

LEMMA StoryLeft ==
  ASSUME NEW roster, NEW g, NEW r, NEW S, NEW F, Story(g, r, roster, S, F),
         r.pc \in {"loop", "asked"}
  PROVE  Story(g, [pc |-> "done"], roster, S, F)
<1>1. Wanted([pc |-> "done"], F) = F /\ F \subseteq Wanted(r, F)
  BY DEF Wanted
<1>2. Collects(S, F, roster)
  BY <1>1 DEF Story, Collects
<1>. QED
  BY <1>1, <1>2 DEF Story

LEMMA StoryRetryEnds ==
  ASSUME NEW roster, NEW g, NEW r, NEW S, NEW F, Story(g, r, roster, S, F),
         r.pc = "loop", r.pending = {}
  PROVE  Story(g, [pc |-> "commit"], roster, S, F)
<1>1. Wanted([pc |-> "commit"], F) = F /\ Wanted(r, F) = F
  BY DEF Wanted
<1>. QED
  BY <1>1 DEF Story

\* One that cannot be asked for yet goes back to those that are missing.
LEMMA StoryPutBack ==
  ASSUME NEW roster, NEW g, NEW r \in Loop, NEW S, NEW F, Story(g, r, roster, S, F),
         NEW f \in r.pending
  PROVE  Story(g, [r EXCEPT !.pending = @ \ {f}], roster, S, F \cup {f})
<1> DEFINE q == [r EXCEPT !.pending = @ \ {f}]
<1>1. q.pc = "loop" /\ q.pending = r.pending \ {f} /\ r.pc = "loop"
  BY DEF Loop
<1> HIDE DEF q
<1>2. Wanted(q, F \cup {f}) = Wanted(r, F)
  BY <1>1 DEF Wanted
<1>3. Story(g, q, roster, S, F \cup {f})
  BY <1>1, <1>2 DEF Story
<1>. QED
  BY <1>3 DEF q

LEMMA StoryAsks ==
  ASSUME NEW roster, NEW g, NEW r \in Loop, NEW S, NEW F, Story(g, r, roster, S, F),
         NEW f \in r.pending, NEW name, NEW after,
         f.round \in Rounds, f.round = 2 => after # {} /\ after = ToldOf(S, 1),
         f.round = 1 => after = {}
  PROVE  Story(g, [pc |-> "asked", pending |-> r.pending \ {f}, f |-> f, after |-> after,
                   name |-> name, who |-> roster[f.place], array |-> TRUE], roster, S, F)
<1> DEFINE q == [pc |-> "asked", pending |-> r.pending \ {f}, f |-> f, after |-> after,
                 name |-> name, who |-> roster[f.place], array |-> TRUE]
<1>1. /\ q.pc = "asked" /\ q.pending = r.pending \ {f} /\ q.f = f /\ q.after = after
      /\ q.who = roster[f.place] /\ q.array = TRUE /\ r.pc = "loop"
  BY DEF Loop
<1> HIDE DEF q
<1>2. Wanted(q, F) = Wanted(r, F)
  BY <1>1 DEF Wanted
<1>3. f.round \in {1, 2}
  BY DEF Rounds
<1>4. Story(g, q, roster, S, F)
  BY <1>1, <1>2, <1>3 DEF Story
<1>. QED
  BY <1>4 DEF q

\* The answer to a retry goes in with what is there.
LEMMA StoryRetryBrings ==
  ASSUME NEW roster, Distinct(roster), NEW g, NEW r \in Asked, NEW S, NEW F,
         Story(g, r, roster, S, F), NEW s \in Sitting,
         s.who = r.who, s.round = r.f.round, s.after = r.after
  PROVE  Story(g, [pc |-> "loop", pending |-> r.pending], roster, S \cup {s}, F)
<1> DEFINE q == [pc |-> "loop", pending |-> r.pending]
<1>1. q.pc = "loop" /\ q.pending = r.pending /\ r.pc = "asked"
  BY DEF Asked
<1> HIDE DEF q
<1>2. /\ Wanted(r, F) = F \cup r.pending \cup {r.f} /\ Wanted(q, F) = F \cup r.pending
      /\ r.f \notin F \cup r.pending
  BY <1>1 DEF Wanted, Story
<1>3. /\ g.pc = "shown" /\ Collects(S, Wanted(r, F), roster)
      /\ Accounts(S, Wanted(r, F), roster, g.rounds) /\ s.who = roster[r.f.place]
      /\ r.after \subseteq ToldOf(S, 1) /\ (r.f.round = 2 => r.after # {})
  BY <1>1 DEF Story
<1>4. r.f \in [place : DOMAIN roster, round : Rounds] /\ ~Played(S, roster, r.f.place, r.f.round)
  BY <1>2, <1>3 DEF Collects
<1>5. Tale(S \cup {s}, roster)
  <2>1. \E i \in DOMAIN roster : s.who = roster[i]
    BY <1>3, <1>4
  <2>2. \A u \in S : ~(s.who = u.who /\ s.round = u.round)
    BY <1>3, <1>4 DEF Played
  <2>3. s.round = 2 => s.after # {} /\ s.after \subseteq ToldOf(S, 1)
    BY <1>3
  <2>4. Tale(S, roster)
    BY <1>3 DEF Collects
  <2>. QED
    BY <2>1, <2>2, <2>3, <2>4, TaleGoesOn
<1>6. ASSUME NEW f \in F \cup r.pending PROVE ~Played(S \cup {s}, roster, f.place, f.round)
  <2>1. ~Played(S, roster, f.place, f.round) /\ f \in [place : DOMAIN roster, round : Rounds]
    BY <1>2, <1>3 DEF Collects
  <2>2. ~(f.place = r.f.place /\ f.round = r.f.round)
    BY <1>2, <1>4, <2>1
  <2>3. ~(roster[f.place] = s.who /\ f.round = s.round)
    BY <1>3, <1>4, <2>1, <2>2 DEF Distinct
  <2>. QED
    BY <2>1, <2>3 DEF Played
<1>7. Collects(S \cup {s}, Wanted(q, F), roster)
  BY <1>2, <1>3, <1>5, <1>6 DEF Collects
<1>8. Accounts(S \cup {s}, Wanted(q, F), roster, g.rounds)
  <2>1. ASSUME NEW i \in DOMAIN roster, NEW round \in 1 .. g.rounds
        PROVE  \/ Played(S \cup {s}, roster, i, round)
               \/ [place |-> i, round |-> round] \in Wanted(q, F)
    <3>1. CASE Played(S, roster, i, round)
      BY <3>1 DEF Played
    <3>2. CASE [place |-> i, round |-> round] = r.f
      <4>1. r.f.place = i /\ r.f.round = round
        BY <3>2
      <4>. QED
        BY <1>3, <4>1 DEF Played
    <3>3. CASE [place |-> i, round |-> round] \in Wanted(r, F) \ {r.f}
      BY <1>2, <3>3
    <3>. QED
      BY <1>3, <3>1, <3>2, <3>3 DEF Accounts
  <2>. QED
    BY <2>1 DEF Accounts
<1>9. q.pending \cap F = {}
  BY <1>1 DEF Story
<1>10. Story(g, q, roster, S \cup {s}, F)
  BY <1>1, <1>3, <1>7, <1>8, <1>9 DEF Story
<1>. QED
  BY <1>10 DEF q

LEMMA StoryRetryMisses ==
  ASSUME NEW roster, NEW g, NEW r \in Asked, NEW S, NEW F, Story(g, r, roster, S, F)
  PROVE  Story(g, [pc |-> "loop", pending |-> r.pending], roster, S, F \cup {r.f})
<1> DEFINE q == [pc |-> "loop", pending |-> r.pending]
<1>1. q.pc = "loop" /\ q.pending = r.pending /\ r.pc = "asked"
  BY DEF Asked
<1> HIDE DEF q
<1>2. Wanted(q, F \cup {r.f}) = Wanted(r, F) /\ r.pending \cap (F \cup {r.f}) = {}
  BY <1>1 DEF Wanted, Story
<1>3. Story(g, q, roster, S, F \cup {r.f})
  BY <1>1, <1>2 DEF Story
<1>. QED
  BY <1>3 DEF q

LEMMA WholeRoundShape ==
  ASSUME NEW roster, NEW round, NEW after, NEW R, R = WholeRound(roster, round, after)
  PROVE  /\ \A s \in R : s.round = round /\ s.after = after
         /\ \A s \in R : \E i \in DOMAIN roster : s.who = roster[i]
         /\ \A s, u \in R : s.who = u.who => s = u
         /\ \A i \in DOMAIN roster : \E s \in R : s.who = roster[i]
<1> DEFINE sat(i) == [who |-> roster[i], round |-> round, run |-> runs + 1, by |-> "gen",
                      after |-> after]
<1>1. R = {sat(i) : i \in DOMAIN roster}
  BY DEF WholeRound
<1>2. \A i : sat(i).who = roster[i] /\ sat(i).round = round /\ sat(i).after = after
  OBVIOUS
<1>3. \A i, j : roster[i] = roster[j] => sat(i) = sat(j)
  OBVIOUS
<1> HIDE DEF sat
<1>. QED
  BY <1>1, <1>2, <1>3

\* What one request generated is a whole tale.
LEMMA WholeTale ==
  ASSUME TypeOK, runs < MaxRuns, NEW k \in DOMAIN Catalogs, NEW rounds \in Rounds,
         NEW first, first = WholeRound(Catalogs[k], 1, {}),
         NEW second, second = WholeRound(Catalogs[k], 2, ToldOf(first, 1)),
         NEW all, all = IF rounds = 1 THEN first ELSE first \cup second
  PROVE  /\ Tale(all, Catalogs[k])
         /\ Accounts(all, {}, Catalogs[k], rounds)
<1> DEFINE roster == Catalogs[k]
<1>1. first \in SUBSET Sitting
  BY WholeRoundType DEF Rounds
<1>2. second \in SUBSET Sitting
  <2>1. ToldOf(first, 1) \in SUBSET Telling
    BY <1>1, ToldOfIsTelling
  <2>. QED
    BY <2>1, WholeRoundType DEF Rounds
<1>3. /\ \A s \in first : s.round = 1 /\ s.after = {}
      /\ \A s \in first : \E i \in DOMAIN roster : s.who = roster[i]
      /\ \A s, u \in first : s.who = u.who => s = u
      /\ \A i \in DOMAIN roster : \E s \in first : s.who = roster[i]
  <2>1. first = WholeRound(roster, 1, {})
    OBVIOUS
  <2> HIDE DEF roster
  <2>. QED
    BY ONLY <2>1, WholeRoundShape
<1>4. /\ \A s \in second : s.round = 2 /\ s.after = ToldOf(first, 1)
      /\ \A s \in second : \E i \in DOMAIN roster : s.who = roster[i]
      /\ \A s, u \in second : s.who = u.who => s = u
      /\ \A i \in DOMAIN roster : \E s \in second : s.who = roster[i]
  <2>1. second = WholeRound(roster, 2, ToldOf(first, 1))
    OBVIOUS
  <2> HIDE DEF roster
  <2>. QED
    BY ONLY <2>1, WholeRoundShape
<1> HIDE DEF roster
<1>5. Tale(first, roster)
  <2>1. Tale({}, roster)
    BY NothingTold
  <2>2. Tale({} \cup first, roster)
    <3>1. /\ \A s \in first : s.round # 2
          /\ \A s, u \in first : s.who = u.who /\ s.round = u.round => s = u
          /\ \A s \in first, u \in {} : FALSE
      BY <1>3
    <3>. QED
      BY <1>1, <1>3, <2>1, <3>1, TaleGoesOn
  <2>. QED
    BY <2>2
<1>6. Tale(first \cup second, roster)
  <2>1. \A s \in second : s.after # {}
    BY <1>3, <1>4 DEF ToldOf
  <2>2. \A s \in second, u \in first : ~(s.who = u.who /\ s.round = u.round)
    BY <1>3, <1>4
  <2>3. \A s, u \in second : s.who = u.who /\ s.round = u.round => s = u
    BY <1>4
  <2>4. \A s \in second : s.after \subseteq ToldOf(first, 1)
    BY <1>4
  <2>. QED
    BY ONLY <1>2, <1>4, <1>5, <2>1, <2>2, <2>3, <2>4, TaleGoesOn
<1>7. rounds \in {1, 2}
  BY DEF Rounds
<1>8. Accounts(all, {}, roster, rounds)
  <2>1. \A round \in 1 .. rounds : round = 1 \/ (round = 2 /\ rounds = 2)
    BY <1>7
  <2>2. first \subseteq all /\ (rounds = 2 => second \subseteq all)
    OBVIOUS
  <2>. QED
    BY <1>3, <1>4, <2>1, <2>2 DEF Accounts, Played
<1>. QED
  BY <1>5, <1>6, <1>8 DEF roster

\* An answer is one sitting of the persona that was asked for, in the round and
\* after the sittings that it was asked for.
Brings(sat, who, round, after) ==
  \A s \in sat : /\ s \in Sitting /\ s.who = who /\ s.round = round /\ s.after = after
                 /\ sat = {s}

LEMMA ServesAll ==
  ASSUME NEW n \in Names, NEW i, NEW who, NEW round \in Rounds,
         NEW after \in SUBSET Telling, NEW run \in 0 .. MaxRuns, NEW by,
         by = "gen" \/ by = "retry",
         Briefing(Norm[n]) \in {None} \cup 0 .. Len(Catalogs)
  PROVE  Brings(Serves(n, i, who, round, after, <<run, by>>), who, round, after)
<1> DEFINE roster == Roster(Briefing(Norm[n]))
           sat == [who |-> who, round |-> round, run |-> run, by |-> by, after |-> after]
<1>1. PICK k \in DOMAIN Catalogs : roster = Catalogs[k]
  BY RosterIsACatalog
<1>2. CASE i \in DOMAIN roster /\ roster[i] = who /\ (round > 1 => after # {})
  <2>1. who \in Personas
    BY <1>1, <1>2, CatalogPlaces
  <2>2. sat \in Sitting /\ sat.who = who /\ sat.round = round /\ sat.after = after
    BY <2>1 DEF Sitting
  <2>3. Serves(n, i, who, round, after, <<run, by>>) = {sat}
    BY <1>2 DEF Serves
  <2> HIDE DEF sat
  <2>. QED
    BY <2>2, <2>3 DEF Brings
<1>3. CASE ~(i \in DOMAIN roster /\ roster[i] = who /\ (round > 1 => after # {}))
  BY <1>3 DEF Serves, Brings
<1>. QED
  BY <1>2, <1>3

\* The requests overlap in the orders the code waits for.
InOrder == Overlaps = {}

\* One page's story changes.
LEMMA OneStoryChanges ==
  ASSUME PagesStory, NEW p \in Pages,
         \A q \in Pages \ {p} :
           /\ context'[q] = context[q] /\ collected'[q] = collected[q]
           /\ failures'[q] = failures[q] /\ gen'[q] = gen[q] /\ retry'[q] = retry[q],
         Story(gen'[p], retry'[p], context'[p].roster, collected'[p], failures'[p])
  PROVE  PagesStory'
BY DEF PagesStory, PageStory

LEMMA RosterDistinct ==
  ASSUME PersonasApart, TypeOK, NEW p \in Pages, gen[p].pc # "idle"
  PROVE  Distinct(context[p].roster)
<1>1. PICK k \in DOMAIN Catalogs : context[p].roster = Catalogs[k]
  BY DEF TypeOK, PagesTypes, PageTypes
<1>. QED
  BY <1>1 DEF PersonasApart, Distinct

LEMMA GenerateStory ==
  ASSUME InOrder, TypeOK, PagesStory, NEW p \in Pages, NEW n \in Names, NEW rounds \in Rounds,
         Generate(p, n, rounds)
  PROVE  PagesStory'
<1>1. PICK roster :
        /\ context' = [context EXCEPT ![p] = [name |-> n, roster |-> roster, run |-> runs + 1]]
        /\ gen' = [gen EXCEPT ![p] =
             [pc |-> "round", name |-> n, rounds |-> rounds, round |-> 1,
              queue |-> DOMAIN roster, got |-> {}, after |-> {}]]
  BY DEF Generate
<1>2. /\ retry[p].pc \in {"idle", "done"}
      /\ collected' = [collected EXCEPT ![p] = {}] /\ failures' = [failures EXCEPT ![p] = {}]
      /\ retry' = [retry EXCEPT ![p] =
           IF @.pc = "asked" THEN [@ EXCEPT !.array = FALSE]
           ELSE IF @.pc = "done" THEN Idle ELSE @]
  BY DEF Generate, InOrder, Overlap
<1>3. /\ context'[p].roster = roster /\ collected'[p] = {} /\ failures'[p] = {}
      /\ gen'[p] = [pc |-> "round", name |-> n, rounds |-> rounds, round |-> 1,
                    queue |-> DOMAIN roster, got |-> {}, after |-> {}]
  BY <1>1, <1>2 DEF TypeOK, PagesTypes
<1>4. retry'[p].pc = "idle"
  BY <1>2 DEF TypeOK, PagesTypes, Idle
<1>5. Story(gen'[p], retry'[p], roster, {}, {})
  BY <1>3, <1>4, StoryBegins
<1>. QED
  BY <1>1, <1>2, <1>3, <1>5, OneStoryChanges DEF TypeOK, PagesTypes

LEMMA AnsweredStory ==
  ASSUME PersonasApart, TypeOK, PagesStory, NEW p \in Pages, NEW i \in Places, Answered(p, i)
  PROVE  PagesStory'
<1> DEFINE g == gen[p]
           roster == context[p].roster
           sat == Serves(g.name, i, roster[i], g.round, g.after, <<context[p].run, "gen">>)
<1>1. /\ g.pc = "round" /\ i \in g.queue
      /\ \/ /\ sat # {}
            /\ gen' = [gen EXCEPT ![p].queue = @ \ {i}, ![p].got = @ \cup sat]
            /\ UNCHANGED failures
         \/ /\ gen' = [gen EXCEPT ![p].queue = @ \ {i}]
            /\ failures' = [failures EXCEPT ![p] = @ \cup {[place |-> i, round |-> g.round]}]
      /\ UNCHANGED <<context, collected, retry>>
  BY DEF Answered
<1>2. /\ PagesTypes /\ g \in Round /\ context[p].run \in 0 .. MaxRuns /\ Distinct(roster)
      /\ Story(g, retry[p], roster, collected[p], failures[p])
  BY <1>1, RosterDistinct DEF TypeOK, PagesTypes, PageTypes, GenTypes, PagesStory, PageStory
<1>3. Briefing(Norm[g.name]) \in {None} \cup 0 .. Len(Catalogs)
  BY <1>2, BriefingType, CodesOfNames DEF TypeOK, Round
<1>4. Brings(sat, roster[i], g.round, g.after)
  <2>1. g.name \in Names /\ g.round \in Rounds /\ g.after \in SUBSET Telling
    BY <1>2 DEF Round
  <2>. QED
    BY Zenon, <1>2, <1>3, <2>1, ServesAll
<1> HIDE DEF sat
<1>5. Story(gen'[p], retry'[p], context'[p].roster, collected'[p], failures'[p])
  <2>1. CASE /\ sat # {}
             /\ gen' = [gen EXCEPT ![p].queue = @ \ {i}, ![p].got = @ \cup sat]
             /\ UNCHANGED failures
    <3>1. PICK s \in sat : TRUE
      BY <2>1
    <3>2. s \in Sitting /\ s.who = roster[i] /\ s.round = g.round /\ s.after = g.after /\ sat = {s}
      BY <1>4 DEF Brings
    <3>3. gen'[p] = [g EXCEPT !.queue = @ \ {i}, !.got = @ \cup {s}]
      BY <1>2, <2>1, <3>2 DEF PagesTypes
    <3>4. Story([g EXCEPT !.queue = @ \ {i}, !.got = @ \cup {s}], retry[p], roster,
                collected[p], failures[p])
      BY <1>1, <1>2, <3>2, StoryAnswered
    <3>. QED
      BY <1>1, <2>1, <3>3, <3>4
  <2>2. CASE /\ gen' = [gen EXCEPT ![p].queue = @ \ {i}]
             /\ failures' = [failures EXCEPT ![p] = @ \cup {[place |-> i, round |-> g.round]}]
    <3>1. /\ gen'[p] = [g EXCEPT !.queue = @ \ {i}]
          /\ failures'[p] = failures[p] \cup {[place |-> i, round |-> g.round]}
      BY <1>2, <2>2 DEF PagesTypes
    <3>2. Story([g EXCEPT !.queue = @ \ {i}], retry[p], roster, collected[p],
                failures[p] \cup {[place |-> i, round |-> g.round]})
      BY <1>1, <1>2, StoryMissed
    <3>. QED
      BY <1>1, <3>1, <3>2
  <2>. QED
    BY <1>1, <2>1, <2>2
<1>6. \A q \in Pages \ {p} : gen'[q] = gen[q] /\ failures'[q] = failures[q]
  BY <1>1, <1>2 DEF PagesTypes
<1>. QED
  BY <1>1, <1>5, <1>6, OneStoryChanges

LEMMA BarredStory ==
  ASSUME TypeOK, PagesStory, NEW p \in Pages, Barred(p)
  PROVE  PagesStory'
<1>1. /\ gen[p].pc = "round" /\ gen' = [gen EXCEPT ![p] = [pc |-> "error"]]
      /\ UNCHANGED <<context, collected, failures, retry>>
  BY DEF Barred
<1>2. gen'[p] = [pc |-> "error"] /\ \A q \in Pages \ {p} : gen'[q] = gen[q]
  BY <1>1 DEF TypeOK, PagesTypes
<1>3. Story(gen'[p], retry[p], context[p].roster, collected[p], failures[p])
  BY <1>1, <1>2, StoryBarred DEF PagesStory, PageStory
<1>. QED
  BY <1>1, <1>2, <1>3, OneStoryChanges

LEMMA RoundEndsStory ==
  ASSUME TypeOK, PagesStory, NEW p \in Pages, RoundEnds(p)
  PROVE  PagesStory'
<1> DEFINE g == gen[p]
           all == collected[p] \cup g.got
           h == gen'[p]
<1>1. /\ g.pc = "round" /\ g.queue = {}
      /\ collected' = [collected EXCEPT ![p] = all]
      /\ gen' = [gen EXCEPT ![p] =
           IF g.round < g.rounds /\ g.got # {}
           THEN [g EXCEPT !.round = @ + 1, !.queue = DOMAIN context[p].roster,
                          !.got = {}, !.after = ToldOf(g.got, g.round)]
           ELSE IF all # {} THEN [g EXCEPT !.pc = "commit", !.got = {}]
           ELSE [pc |-> "error"]]
      /\ retry' = [retry EXCEPT ![p] = IF @.pc = "asked" THEN [@ EXCEPT !.array = FALSE] ELSE @]
      /\ UNCHANGED <<context, failures>>
  BY DEF RoundEnds
<1>2. /\ PagesTypes /\ g \in Round
      /\ Story(g, retry[p], context[p].roster, collected[p], failures[p])
  BY <1>1 DEF TypeOK, PagesTypes, PageTypes, GenTypes, PagesStory, PageStory
<1>3. retry[p].pc = "idle"
  BY <1>1, <1>2 DEF Story
<1>4. retry'[p] = retry[p] /\ collected'[p] = all
  BY <1>1, <1>2, <1>3 DEF PagesTypes
<1>5. h = IF g.round < g.rounds /\ g.got # {}
          THEN [g EXCEPT !.round = @ + 1, !.queue = DOMAIN context[p].roster,
                         !.got = {}, !.after = ToldOf(g.got, g.round)]
          ELSE IF all # {} THEN [g EXCEPT !.pc = "commit", !.got = {}]
          ELSE [pc |-> "error"]
  BY <1>1, <1>2 DEF PagesTypes
<1> HIDE DEF g, h
<1>6. Story(h, retry[p], context[p].roster, all, failures[p])
  BY <1>1, <1>2, <1>5, StoryRoundEnds
<1>7. \A q \in Pages \ {p} :
        gen'[q] = gen[q] /\ retry'[q] = retry[q] /\ collected'[q] = collected[q]
  BY <1>1, <1>2 DEF PagesTypes
<1>. QED
  BY <1>1, <1>4, <1>6, <1>7, OneStoryChanges DEF h

LEMMA RetryStory ==
  ASSUME TypeOK, PagesStory, NEW p \in Pages, Retry(p)
  PROVE  PagesStory'
<1>1. /\ gen[p].pc = "shown" /\ retry[p].pc = "idle"
      /\ retry' = [retry EXCEPT ![p] = [pc |-> "loop", pending |-> failures[p]]]
      /\ failures' = [failures EXCEPT ![p] = {}]
      /\ UNCHANGED <<context, collected, gen>>
  BY DEF Retry
<1>2. /\ retry'[p] = [pc |-> "loop", pending |-> failures[p]] /\ failures'[p] = {}
      /\ \A q \in Pages \ {p} : retry'[q] = retry[q] /\ failures'[q] = failures[q]
  BY <1>1 DEF TypeOK, PagesTypes
<1>3. Story(gen[p], [pc |-> "loop", pending |-> failures[p]], context[p].roster, collected[p], {})
  BY <1>1, StoryRetried DEF PagesStory, PageStory
<1>. QED
  BY <1>1, <1>2, <1>3, OneStoryChanges

LEMMA RetryAsksStory ==
  ASSUME TypeOK, PagesStory, NEW p \in Pages, NEW f \in Missing, RetryAsks(p, f)
  PROVE  PagesStory'
<1> DEFINE r == retry[p]
           roster == context[p].roster
           after == IF f.round > 1 THEN ToldOf(collected[p], f.round - 1) ELSE {}
           asks == [pc |-> "asked", pending |-> r.pending \ {f}, f |-> f, after |-> after,
                    name |-> context[p].name, who |-> roster[f.place], array |-> TRUE]
<1>1. /\ r.pc = "loop" /\ f \in r.pending
      /\ \/ retry' = [retry EXCEPT ![p] = [pc |-> "done"]] /\ UNCHANGED failures
         \/ /\ retry' = [retry EXCEPT ![p].pending = r.pending \ {f}]
            /\ failures' = [failures EXCEPT ![p] = @ \cup {f}]
         \/ /\ ~(f.round > 1 /\ after = {})
            /\ retry' = [retry EXCEPT ![p] = asks] /\ UNCHANGED failures
      /\ UNCHANGED <<context, collected, gen>>
  BY DEF RetryAsks
<1>2. /\ PagesTypes /\ r \in Loop
      /\ Story(gen[p], r, roster, collected[p], failures[p])
  BY <1>1 DEF TypeOK, PagesTypes, PageTypes, RetryTypes, PagesStory, PageStory
<1>3. /\ f.round \in Rounds
      /\ f.round > 1 => f.round = 2 /\ after = ToldOf(collected[p], 1)
      /\ f.round = 1 => after = {}
  BY DEF Missing, Rounds
<1>4. \/ retry'[p] = [pc |-> "done"] /\ failures'[p] = failures[p]
      \/ /\ retry'[p] = [r EXCEPT !.pending = @ \ {f}]
         /\ failures'[p] = failures[p] \cup {f}
      \/ /\ ~(f.round > 1 /\ after = {})
         /\ retry'[p] = asks /\ failures'[p] = failures[p]
  BY <1>1, <1>2 DEF PagesTypes
<1> HIDE DEF after
<1>5. f.round = 2 /\ ~(f.round > 1 /\ after = {}) => after # {} /\ after = ToldOf(collected[p], 1)
  BY <1>3
<1>6. Story(gen[p], retry'[p], roster, collected[p], failures'[p])
  <2>1. CASE retry'[p] = [pc |-> "done"] /\ failures'[p] = failures[p]
    BY <1>1, <1>2, <2>1, StoryLeft
  <2>2. CASE /\ retry'[p] = [r EXCEPT !.pending = @ \ {f}]
             /\ failures'[p] = failures[p] \cup {f}
    BY <1>1, <1>2, <2>2, StoryPutBack
  <2>3. CASE /\ ~(f.round > 1 /\ after = {})
             /\ retry'[p] = asks /\ failures'[p] = failures[p]
    <3>1. Story(gen[p], asks, roster, collected[p], failures[p])
      BY <1>1, <1>2, <1>3, <1>5, <2>3, StoryAsks
    <3> HIDE DEF asks
    <3>. QED
      BY <2>3, <3>1
  <2> HIDE DEF asks, r
  <2>. QED
    BY <1>4, <2>1, <2>2, <2>3
<1>7. \A q \in Pages \ {p} : retry'[q] = retry[q] /\ failures'[q] = failures[q]
  BY <1>1, <1>2 DEF PagesTypes
<1>. QED
  BY <1>1, <1>6, <1>7, OneStoryChanges

LEMMA RetryAnsweredStory ==
  ASSUME PersonasApart, TypeOK, PagesStory, NEW p \in Pages, RetryAnswered(p)
  PROVE  PagesStory'
<1> DEFINE r == retry[p]
           roster == context[p].roster
           sat == Serves(r.name, r.f.place, r.who, r.f.round, r.after,
                         <<context[p].run, "retry">>)
           q == [pc |-> "loop", pending |-> r.pending]
<1>1. /\ r.pc = "asked" /\ retry' = [retry EXCEPT ![p] = q]
      /\ \/ /\ sat # {}
            /\ collected' = [collected EXCEPT ![p] = IF r.array THEN @ \cup sat ELSE @]
            /\ UNCHANGED failures
         \/ /\ failures' = [failures EXCEPT ![p] = @ \cup {r.f}]
            /\ UNCHANGED collected
      /\ UNCHANGED <<context, gen>>
  BY DEF RetryAnswered
<1>2. /\ PagesTypes /\ r \in Asked
      /\ Story(gen[p], r, roster, collected[p], failures[p])
  BY <1>1 DEF TypeOK, PagesTypes, PageTypes, RetryTypes, PagesStory, PageStory
<1>3. gen[p].pc = "shown" /\ r.array
  BY <1>1, <1>2 DEF Story
<1>4. Distinct(roster) /\ context[p].run \in 0 .. MaxRuns
  BY <1>3, RosterDistinct DEF TypeOK, PagesTypes, PageTypes
<1>5. Briefing(Norm[r.name]) \in {None} \cup 0 .. Len(Catalogs)
  BY <1>2, BriefingType, CodesOfNames DEF TypeOK, Asked
<1>6. Brings(sat, r.who, r.f.round, r.after)
  <2>1. r.name \in Names /\ r.f.round \in Rounds /\ r.after \in SUBSET Telling
    BY <1>2 DEF Asked, Missing
  <2>. QED
    BY Zenon, <1>4, <1>5, <2>1, ServesAll
<1> HIDE DEF sat
<1>7. Story(gen[p], q, roster, collected'[p], failures'[p])
  <2>1. CASE /\ sat # {}
             /\ collected' = [collected EXCEPT ![p] = IF r.array THEN @ \cup sat ELSE @]
             /\ UNCHANGED failures
    <3>1. PICK s \in sat : TRUE
      BY <2>1
    <3>2. s \in Sitting /\ s.who = r.who /\ s.round = r.f.round /\ s.after = r.after /\ sat = {s}
      BY <1>6 DEF Brings
    <3>3. collected'[p] = collected[p] \cup {s}
      BY <1>2, <1>3, <2>1, <3>2 DEF PagesTypes
    <3>4. Story(gen[p], q, roster, collected[p] \cup {s}, failures[p])
      BY <1>2, <1>4, <3>2, StoryRetryBrings
    <3> HIDE DEF q
    <3>. QED
      BY <2>1, <3>3, <3>4
  <2>2. CASE /\ failures' = [failures EXCEPT ![p] = @ \cup {r.f}]
             /\ UNCHANGED collected
    <3>1. failures'[p] = failures[p] \cup {r.f}
      BY <1>2, <2>2 DEF PagesTypes
    <3>2. Story(gen[p], q, roster, collected[p], failures[p] \cup {r.f})
      BY <1>2, StoryRetryMisses
    <3> HIDE DEF q
    <3>. QED
      BY <2>2, <3>1, <3>2
  <2>. QED
    BY <1>1, <2>1, <2>2
<1>8. /\ retry'[p] = q /\ gen'[p] = gen[p] /\ context'[p].roster = roster
      /\ \A o \in Pages \ {p} : /\ retry'[o] = retry[o] /\ failures'[o] = failures[o]
                                /\ collected'[o] = collected[o]
  BY <1>1, <1>2 DEF PagesTypes
<1>. QED
  BY <1>1, <1>7, <1>8, OneStoryChanges

LEMMA RetryLeavesStory ==
  ASSUME TypeOK, PagesStory, NEW p \in Pages, RetryBarred(p) \/ RetryEnds(p)
  PROVE  PagesStory'
<1>1. UNCHANGED <<context, collected, failures, gen>>
  BY DEF RetryBarred, RetryEnds
<1>2. \/ /\ retry[p].pc \in {"asked", "loop"}
         /\ retry' = [retry EXCEPT ![p] = [pc |-> "done"]]
      \/ /\ retry[p].pc = "loop" /\ retry[p].pending = {}
         /\ retry' = [retry EXCEPT ![p] = [pc |-> "commit"]]
  BY DEF RetryBarred, RetryEnds
<1>3. /\ \A q \in Pages \ {p} : retry'[q] = retry[q]
      /\ \/ /\ retry[p].pc \in {"asked", "loop"} /\ retry'[p] = [pc |-> "done"]
         \/ /\ retry[p].pc = "loop" /\ retry[p].pending = {} /\ retry'[p] = [pc |-> "commit"]
  BY <1>2 DEF TypeOK, PagesTypes
<1>4. Story(gen[p], retry'[p], context[p].roster, collected[p], failures[p])
  BY <1>3, StoryLeft, StoryRetryEnds DEF PagesStory, PageStory
<1>. QED
  BY <1>1, <1>3, <1>4, OneStoryChanges

\* What a commit was sent is a story.
JobsTell == \A t \in Threads : Busy(t) => Tellable(job[t].sittings)

\* Two commits of which one was changed in pc, index and record alone.
LEMMA JobsTellFrame ==
  ASSUME JobsTell,
         \A t \in Threads :
           \/ job'[t] = job[t] \/ ~Busy(t)'
           \/ Busy(t) /\ job'[t].sittings = job[t].sittings
           \/ Tellable(job'[t].sittings)
  PROVE  JobsTell'
<1>1. ASSUME NEW t \in Threads, Busy(t)' PROVE Tellable(job'[t].sittings)
  BY <1>1 DEF JobsTell, Busy
<1>2. \A t \in Threads : Busy(t)' => Tellable(job[t].sittings)'
  BY <1>1 DEF Tellable, Tale, ToldOf
<1>. QED
  BY <1>2 DEF JobsTell

LEMMA CollectedTells ==
  ASSUME TypeOK, PagesStory, NEW p \in Pages, gen[p].pc # "idle"
  PROVE  Tellable(collected[p])
BY DEF TypeOK, PagesTypes, PageTypes, PagesStory, PageStory, Story, Collects, Tellable

LEMMA ContextTells ==
  ASSUME TypeOK, PagesStory, JobsTell, NEW t \in Threads, Context(t)
  PROVE  PagesStory' /\ JobsTell'
<1>1. ThreadAt(t) = "commit" /\ UNCHANGED page
  BY DEF Context
<1>2. PICK n, code, existing, briefed :
        job' = [job EXCEPT ![t] = Job(n, collected[t[1]], code, existing, briefed)]
  BY DEF Context
<1>3. t[1] \in Pages /\ PageTypes(t[1]) /\ gen[t[1]].pc # "idle"
  <2>1. t[1] \in Pages /\ PageTypes(t[1])
    BY ThreadsOfPages DEF TypeOK, PagesTypes
  <2>. QED
    BY <1>1, <2>1 DEF ThreadAt, PageTypes
<1>4. /\ job'[t].sittings = collected[t[1]]
      /\ \A u \in Threads \ {t} : job'[u] = job[u]
  BY <1>2 DEF TypeOK, JobTypes, Job
<1>5. Tellable(job'[t].sittings)
  BY <1>3, <1>4, CollectedTells
<1>6. PagesStory'
  BY <1>1 DEF PagesStory, PageStory, page
<1>7. \A u \in Threads : job'[u] = job[u] \/ Tellable(job'[u].sittings)
  BY <1>4, <1>5
<1>. QED
  BY <1>6, <1>7, JobsTellFrame

LEMMA EngagementTells ==
  ASSUME TypeOK, PagesStory, JobsTell, NEW p \in Pages, NEW n \in Names, NEW rounds \in Rounds,
         Engagement(p, n, rounds)
  PROVE  PagesStory' /\ JobsTell'
<1> DEFINE roster == Roster(briefings[Norm[n]])
           first == WholeRound(roster, 1, {})
           second == WholeRound(roster, 2, ToldOf(first, 1))
           all == IF rounds = 1 THEN first ELSE first \cup second
           t == <<p, "gen">>
<1>1. /\ runs < MaxRuns
      /\ context' = [context EXCEPT ![p] = [name |-> n, roster |-> roster, run |-> runs + 1]]
      /\ collected' = [collected EXCEPT ![p] = all]
      /\ job' = [job EXCEPT ![t] =
           Job(n, all, CodeOf(n), index[Norm[n]] # None, briefings[Norm[n]] # None)]
      /\ gen' = [gen EXCEPT ![p] = [pc |-> "commit", name |-> n, rounds |-> rounds]]
      /\ failures' = [failures EXCEPT ![p] = {}]
      /\ retry' = [retry EXCEPT ![p] = Idle]
  BY DEF Engagement
<1>2. PICK k \in DOMAIN Catalogs : roster = Catalogs[k]
  BY CodesOfNames, RosterIsACatalog DEF TypeOK, ServerTypes
<1>3. Tale(all, Catalogs[k]) /\ Accounts(all, {}, Catalogs[k], rounds)
  BY <1>1, <1>2, WholeTale
<1> HIDE DEF all, roster
<1>4. /\ context'[p].roster = Catalogs[k] /\ collected'[p] = all /\ failures'[p] = {}
      /\ gen'[p] = [pc |-> "commit", name |-> n, rounds |-> rounds] /\ retry'[p] = Idle
  BY <1>1, <1>2 DEF TypeOK, PagesTypes
<1>5. Story(gen'[p], Idle, Catalogs[k], all, {})
  <2>1. Wanted(Idle, {}) = {} /\ Collects(all, {}, Catalogs[k])
    BY <1>3 DEF Wanted, Collects, Idle
  <2>. QED
    BY <1>3, <1>4, <2>1 DEF Story, Idle
<1>6. \A q \in Pages \ {p} :
        /\ context'[q] = context[q] /\ collected'[q] = collected[q]
        /\ failures'[q] = failures[q] /\ gen'[q] = gen[q] /\ retry'[q] = retry[q]
  BY <1>1 DEF TypeOK, PagesTypes
<1>7. PagesStory'
  BY <1>4, <1>5, <1>6, OneStoryChanges
<1>8. job'[t].sittings = all /\ \A u \in Threads \ {t} : job'[u] = job[u]
  BY <1>1, ThreadsOfPages DEF TypeOK, JobTypes, Job
<1>9. \A u \in Threads : job'[u] = job[u] \/ Tellable(job'[u].sittings)
  BY <1>3, <1>8 DEF Tellable
<1>. QED
  BY <1>7, <1>9, JobsTellFrame

LEMMA ReadsTell ==
  ASSUME TypeOK, PagesStory, JobsTell, NEW t \in Threads, IndexRead(t) \/ RecordRead(t)
  PROVE  PagesStory' /\ JobsTell'
<1>1. /\ Busy(t) /\ UNCHANGED page
      /\ \/ job' = [job EXCEPT ![t] = [@ EXCEPT !.pc = "index", !.index = index]]
         \/ job' = [job EXCEPT ![t] = [@ EXCEPT !.pc = "record", !.record = records[job[t].code]]]
  BY DEF IndexRead, RecordRead, Busy
<1>2. job[t] \in Commit /\ DOMAIN job = Threads
  BY <1>1 DEF TypeOK, JobTypes
<1>3. \/ job'[t] = [job[t] EXCEPT !.pc = "index", !.index = index]
      \/ job'[t] = [job[t] EXCEPT !.pc = "record", !.record = records[job[t].code]]
  BY <1>1, <1>2
<1>4. job'[t].sittings = job[t].sittings
  BY <1>2, <1>3 DEF Commit
<1>5. \A u \in Threads \ {t} : job'[u] = job[u]
  BY <1>1, <1>2
<1>6. PagesStory'
  BY <1>1 DEF PagesStory, PageStory, page
<1>. QED
  BY <1>1, <1>4, <1>5, <1>6, JobsTellFrame

\* The answer to a commit.
LEMMA ReplyTells ==
  ASSUME TypeOK, PagesStory, JobsTell, NEW t \in Threads, NEW ok \in BOOLEAN, Busy(t), Reply(t, ok),
         job' = [job EXCEPT ![t] = Idle], UNCHANGED <<context, collected, failures>>
  PROVE  PagesStory' /\ JobsTell'
<1> DEFINE p == t[1]
<1>1. p \in Pages /\ ThreadAt(t) = "commit" /\ PagesTypes /\ DOMAIN job = Threads
  BY ThreadsOfPages DEF TypeOK, JobTypes
<1>2. JobsTell'
  <2>1. \A u \in Threads : job'[u] = job[u] \/ ~Busy(u)'
    BY <1>1 DEF Busy, Idle
  <2>. QED
    BY <2>1, JobsTellFrame
<1>3. /\ \A q \in Pages \ {p} : gen'[q] = gen[q] /\ retry'[q] = retry[q]
      /\ IF t[2] = "gen"
         THEN /\ gen'[p] = [pc |-> IF ok THEN "shown" ELSE "error", rounds |-> gen[p].rounds]
              /\ retry'[p] = retry[p] /\ gen[p].pc = "commit"
         ELSE /\ retry'[p] = [pc |-> "done"] /\ gen'[p] = gen[p]
              /\ retry[p].pc = "commit"
  BY <1>1 DEF Reply, PagesTypes, ThreadAt
<1>4. Story(gen[p], retry[p], context[p].roster, collected[p], failures[p])
  BY <1>1 DEF PagesStory, PageStory
<1>5. Story(gen'[p], retry'[p], context[p].roster, collected[p], failures[p])
  <2>1. CASE t[2] = "gen"
    <3>1. retry[p].pc = "idle" /\ retry'[p] = retry[p] /\ gen'[p].rounds = gen[p].rounds
          /\ gen'[p].pc \in {"shown", "error"} /\ gen[p].pc = "commit"
      BY <1>3, <1>4, <2>1 DEF Story
    <3>. QED
      BY <1>4, <3>1 DEF Story
  <2>2. CASE t[2] # "gen"
    <3>1. Wanted([pc |-> "done"], failures[p]) = failures[p]
          /\ Wanted(retry[p], failures[p]) = failures[p]
      BY <1>3, <2>2 DEF Wanted
    <3>. QED
      BY <1>3, <1>4, <2>2, <3>1 DEF Story
  <2>. QED
    BY <2>1, <2>2
<1>. QED
  BY <1>1, <1>2, <1>3, <1>5, OneStoryChanges

LEMMA StoryInit ==
  ASSUME Init
  PROVE  PagesStory /\ JobsTell
<1>1. /\ gen = [p \in Pages |-> Idle] /\ retry = [p \in Pages |-> Idle]
      /\ job = [t \in Threads |-> Idle]
  BY DEF Init
<1>. QED
  BY <1>1 DEF PagesStory, PageStory, Story, JobsTell, Busy, Idle

LEMMA StoryNext ==
  ASSUME InOrder, PersonasApart, TypeOK, PagesStory, JobsTell, [Next]_vars
  PROVE  PagesStory' /\ JobsTell'
<1>1. ASSUME UNCHANGED job PROVE JobsTell'
  BY <1>1, JobsTellFrame
<1>2. ASSUME NEW p \in Pages, NEW n \in Names, NEW rounds \in Rounds, Generate(p, n, rounds)
      PROVE  PagesStory' /\ JobsTell'
  BY <1>1, <1>2, GenerateStory DEF Generate
<1>3. ASSUME NEW p \in Pages, NEW n \in Names, NEW rounds \in Rounds, Engagement(p, n, rounds)
      PROVE  PagesStory' /\ JobsTell'
  BY <1>3, EngagementTells
<1>4. ASSUME NEW p \in Pages, NEW i \in Places, Answered(p, i) PROVE PagesStory' /\ JobsTell'
  BY <1>1, <1>4, AnsweredStory DEF Answered
<1>5. ASSUME NEW p \in Pages, Barred(p) \/ RoundEnds(p) PROVE PagesStory' /\ JobsTell'
  BY <1>1, <1>5, BarredStory, RoundEndsStory DEF Barred, RoundEnds
<1>6. ASSUME NEW p \in Pages, Retry(p) \/ RetryAnswered(p) \/ RetryBarred(p) \/ RetryEnds(p)
      PROVE  PagesStory' /\ JobsTell'
  BY <1>1, <1>6, RetryStory, RetryAnsweredStory, RetryLeavesStory
     DEF Retry, RetryAnswered, RetryBarred, RetryEnds
<1>7. ASSUME NEW p \in Pages, NEW f \in Missing, RetryAsks(p, f) PROVE PagesStory' /\ JobsTell'
  BY <1>1, <1>7, RetryAsksStory DEF RetryAsks
<1>8. ASSUME NEW t \in Threads, Context(t) \/ IndexRead(t) \/ RecordRead(t)
      PROVE  PagesStory' /\ JobsTell'
  BY <1>8, ContextTells, ReadsTell
<1>9. ASSUME NEW t \in Threads, Committed(t) \/ CommitFails(t) PROVE PagesStory' /\ JobsTell'
  BY <1>9, ReplyTells DEF Committed, CommitFails, Busy
<1>10. ASSUME UNCHANGED <<page, job>> PROVE PagesStory' /\ JobsTell'
  BY <1>1, <1>10 DEF PagesStory, PageStory, page
<1>11. CASE Backfill
  BY <1>10, <1>11 DEF Backfill
<1>12. ASSUME NEW c \in Norms,
             \/ Opens(c) \/ CompletesInterview(c)
             \/ \E catalog \in 2 .. Len(Catalogs) : SavesBriefing(c, catalog)
      PROVE  PagesStory' /\ JobsTell'
  BY <1>10, <1>12 DEF Opens, CompletesInterview, SavesBriefing
<1>13. CASE UNCHANGED vars
  BY <1>10, <1>13 DEF vars
<1>. QED
  BY <1>2, <1>3, <1>4, <1>5, <1>6, <1>7, <1>8, <1>9, <1>11, <1>12, <1>13 DEF Next

-----------------------------------------------------------------------------
(* The tracker, the record and the synthesis.                               *)

SittingsOf(R) == {r.sitting : r \in {x \in R : x.kind = "initial"}}

TranscriptsOf(n) == {x \in transcripts : x.client = n}

\* One client's rows R, their transcripts T and its engagement: a story that the
\* record and the synthesis tell as well, with one follow-up.
Kept(R, T, code, record, synthesis) ==
  /\ Tellable(SittingsOf(R))
  /\ {TranscriptOf(r) : r \in R} = T
  /\ R # {} =>
       /\ \A r \in R : r.code = code
       /\ record.sittings = SittingsOf(R) /\ synthesis = Current(SittingsOf(R))
       /\ \E f \in R : {r \in R : r.kind = "follow_up"} = {f} /\ f.sitting \in SittingsOf(R)

\* One login per name, made of the code and the name, once there is one.
LoginsOf(R) == \A r \in R : r.login \in {None, Login(r.code, r.sitting.who)}

KeptFor(n) ==
  Kept(Mine(n), TranscriptsOf(n), index[Norm[n]], records[index[Norm[n]]],
       syntheses[index[Norm[n]]])

TrackerInv == LoginsOf(rows) /\ \A n \in Names : KeptFor(n)

LEMMA SittingsOfMine ==
  ASSUME NEW n
  PROVE  Sittings(n) = SittingsOf(Mine(n))
BY DEF Sittings, SittingsOf

\* A client with rows has an entry, and it names what its rows name.
LEMMA CodeOfRows ==
  ASSUME TypeOK, TrackerInv, NEW n \in Names, Mine(n) # {}
  PROVE  index[Norm[n]] # None /\ index[Norm[n]] \in Codes
<1>1. PICK r \in Mine(n) : TRUE
  OBVIOUS
<1>2. r \in Row /\ r.code = index[Norm[n]]
  BY <1>1 DEF TypeOK, ServerTypes, Mine, TrackerInv, KeptFor, Kept
<1>. QED
  BY <1>2, Assumptions DEF Row

LEMMA TrackerAgrees ==
  ASSUME TypeOK, TrackerInv
  PROVE  RecordsAgree
<1>1. SUFFICES ASSUME NEW n \in Names, Mine(n) # {}
               PROVE
    LET code == index[Norm[n]]
        sits == Sittings(n)
        followUps == {r \in Mine(n) : r.kind = "follow_up"} IN
    /\ \A r \in Mine(n) : r.code = code
    /\ records[code].sittings = sits /\ syntheses[code] = Current(sits)
    /\ \A s, u \in sits : s.who = u.who /\ s.round = u.round => s = u
    /\ Cardinality(followUps) = 1 /\ \A r \in followUps : r.sitting \in sits
    /\ {TranscriptOf(r) : r \in Mine(n)} = {x \in transcripts : x.client = n}
    /\ \A r, q \in Mine(n) : None \notin {r.login, q.login} =>
         (r.login = q.login <=> r.sitting.who.name = q.sitting.who.name)
  BY DEF RecordsAgree
<1> DEFINE code == index[Norm[n]]
           sits == Sittings(n)
           followUps == {r \in Mine(n) : r.kind = "follow_up"}
<1>2. sits = SittingsOf(Mine(n)) /\ KeptFor(n)
  BY SittingsOfMine DEF TrackerInv
<1>3. \A r \in Mine(n) : r.code = code
  BY <1>1, <1>2 DEF KeptFor, Kept
<1>4. records[code].sittings = sits /\ syntheses[code] = Current(sits)
  BY <1>1, <1>2 DEF KeptFor, Kept
<1>5. \A s, u \in sits : s.who = u.who /\ s.round = u.round => s = u
  BY <1>2 DEF KeptFor, Kept, Tellable, Tale
<1>6. Cardinality(followUps) = 1 /\ \A r \in followUps : r.sitting \in sits
  <2>1. PICK f : followUps = {f} /\ f.sitting \in sits
    BY <1>1, <1>2 DEF KeptFor, Kept
  <2> HIDE DEF followUps, sits
  <2>2. Cardinality({f}) = 1
    BY FS_Singleton
  <2>. QED
    BY <2>1, <2>2
<1>7. {TranscriptOf(r) : r \in Mine(n)} = {x \in transcripts : x.client = n}
  BY <1>2 DEF KeptFor, Kept, TranscriptsOf
<1>8. ASSUME NEW r \in Mine(n), NEW q \in Mine(n), None \notin {r.login, q.login}
      PROVE  r.login = q.login <=> r.sitting.who.name = q.sitting.who.name
  <2>1. r.login = <<code, r.sitting.who.name>> /\ q.login = <<code, q.sitting.who.name>>
    BY <1>3, <1>8 DEF TrackerInv, LoginsOf, Login, Mine
  <2>. QED
    BY <2>1
<1>. QED
  BY <1>3, <1>4, <1>5, <1>6, <1>7, <1>8

\* A step that leaves the rows, the transcripts, the syntheses, and of the index
\* and the records what the rows are kept in.
LEMMA TrackerFrame ==
  ASSUME TypeOK, TrackerInv, UNCHANGED <<rows, transcripts, syntheses>>,
         \A n \in Names : Mine(n) # {} =>
           /\ index'[Norm[n]] = index[Norm[n]]
           /\ records'[index[Norm[n]]].sittings = records[index[Norm[n]]].sittings
  PROVE  TrackerInv'
<1>1. \A n \in Names : Mine(n)' = Mine(n) /\ TranscriptsOf(n)' = TranscriptsOf(n)
  BY DEF Mine, TranscriptsOf
<1>2. LoginsOf(rows')
  BY DEF TrackerInv
<1>3. ASSUME NEW n \in Names PROVE KeptFor(n)'
  <2>1. KeptFor(n)
    BY DEF TrackerInv
  <2>2. Kept(Mine(n), TranscriptsOf(n), index'[Norm[n]], records'[index'[Norm[n]]],
             syntheses'[index'[Norm[n]]])
    BY <2>1 DEF KeptFor, Kept
  <2>. QED
    BY <1>1, <2>2 DEF KeptFor
<1>. QED
  BY <1>2, <1>3 DEF TrackerInv

\* The rows of a commit.
NewRows(j, parent) == {SittingRow(j, s) : s \in j.sittings} \cup {FollowUp(j, parent)}

LEMMA NewRowsKept ==
  ASSUME NEW j, Tellable(j.sittings), NEW parent \in Current(j.sittings),
         NEW record, record.sittings = j.sittings
  PROVE  /\ Kept(NewRows(j, parent), {TranscriptOf(r) : r \in NewRows(j, parent)}, j.code, record,
                 Current(j.sittings))
         /\ LoginsOf(NewRows(j, parent))
         /\ \A r \in NewRows(j, parent) : r.client = j.name
<1> DEFINE R == NewRows(j, parent)
<1>1. \A s : /\ SittingRow(j, s).kind = "initial" /\ SittingRow(j, s).sitting = s
             /\ SittingRow(j, s).code = j.code /\ SittingRow(j, s).client = j.name
             /\ SittingRow(j, s).login = Login(j.code, s.who)
  BY DEF SittingRow
<1>2. /\ FollowUp(j, parent).kind = "follow_up" /\ FollowUp(j, parent).sitting = parent
      /\ FollowUp(j, parent).code = j.code /\ FollowUp(j, parent).client = j.name
      /\ FollowUp(j, parent).login = Login(j.code, parent.who)
  BY DEF FollowUp
<1>3. parent \in j.sittings
  BY CurrentIsPart
<1>4. \A r \in R : \/ \E s \in j.sittings : r = SittingRow(j, s)
                   \/ r = FollowUp(j, parent)
  BY DEF NewRows
<1>5. FollowUp(j, parent) \in R /\ \A s \in j.sittings : SittingRow(j, s) \in R
  BY DEF NewRows
<1> HIDE DEF R
<1>6. SittingsOf(R) = j.sittings
  <2>1. \A s \in j.sittings : s \in SittingsOf(R)
    <3>1. ASSUME NEW s \in j.sittings PROVE s \in SittingsOf(R)
      <4>1. SittingRow(j, s) \in {x \in R : x.kind = "initial"}
        BY <1>1, <1>5
      <4>. QED
        BY <1>1, <4>1 DEF SittingsOf
    <3>. QED
      BY <3>1
  <2>2. \A s \in SittingsOf(R) : s \in j.sittings
    BY <1>1, <1>2, <1>4 DEF SittingsOf
  <2>. QED
    BY <2>1, <2>2
<1>7. {r \in R : r.kind = "follow_up"} = {FollowUp(j, parent)}
  BY <1>1, <1>2, <1>4, <1>5
<1>8. \A r \in R : r.code = j.code /\ r.client = j.name
  BY <1>1, <1>2, <1>4
<1>9. LoginsOf(R)
  BY <1>1, <1>2, <1>4 DEF LoginsOf
<1>10. Kept(R, {TranscriptOf(r) : r \in R}, j.code, record, Current(j.sittings))
  BY <1>2, <1>3, <1>5, <1>6, <1>7, <1>8 DEF Kept
<1>. QED
  BY <1>8, <1>9, <1>10 DEF R

LEMMA RecordOfCommit ==
  ASSUME NEW j \in Commit
  PROVE  RecordWith(j).sittings = j.sittings
<1>1. j.record # None => j.record \in Record
  BY DEF Commit
<1>. QED
  BY <1>1 DEF RecordWith, Record

LEMMA TrackerCommitted ==
  ASSUME NamesApart, TypeOK, ServerInv, JobsTell, TrackerInv, NEW t \in Threads, Committed(t)
  PROVE  TrackerInv'
<1>1. PICK j, n : j = job[t] /\ n = job[t].name
  OBVIOUS
<1>2. /\ n \in Names /\ j \in Commit /\ Busy(t) /\ j.code = CodeOf(n) /\ j.code \in Codes
      /\ Norm[n] \in Norms
      /\ index' = [index EXCEPT ![Norm[n]] = j.code]
      /\ records' = [records EXCEPT ![j.code] = RecordWith(j)]
      /\ syntheses' = [syntheses EXCEPT ![j.code] = Current(j.sittings)]
  BY <1>1, CommitWrites
<1>3. Prior(j) = Mine(n)
  BY <1>1 DEF Prior, Mine, TypeOK, ServerTypes, Row
<1>4. PICK parent \in Current(j.sittings) :
        /\ rows' = (rows \ Mine(n)) \cup NewRows(j, parent)
        /\ transcripts' = (transcripts \ {TranscriptOf(r) : r \in Mine(n)})
                             \cup {TranscriptOf(r) : r \in NewRows(j, parent)}
  <2>1. \E parent \in Current(job[t].sittings) :
          LET new == {SittingRow(job[t], s) : s \in job[t].sittings}
                       \cup {FollowUp(job[t], parent)} IN
          /\ rows' = (rows \ Prior(job[t])) \cup new
          /\ transcripts' = (transcripts \ {TranscriptOf(r) : r \in Prior(job[t])})
                              \cup {TranscriptOf(r) : r \in new}
    BY DEF Committed
  <2>. QED
    BY <1>1, <1>3, <2>1 DEF NewRows
<1> DEFINE R == NewRows(j, parent)
           T == {TranscriptOf(r) : r \in R}
<1>5. /\ Kept(R, T, j.code, RecordWith(j), Current(j.sittings))
      /\ LoginsOf(R) /\ \A r \in R : r.client = n
  <2>1. Tellable(j.sittings) /\ RecordWith(j).sittings = j.sittings
    BY <1>1, <1>2, RecordOfCommit DEF JobsTell
  <2>. QED
    BY <1>1, <2>1, NewRowsKept
<1>6. LoginsOf(rows')
  BY <1>4, <1>5 DEF TrackerInv, LoginsOf
<1> HIDE DEF R
<1>7. /\ index'[Norm[n]] = j.code /\ records'[j.code] = RecordWith(j)
      /\ syntheses'[j.code] = Current(j.sittings)
  BY <1>2 DEF TypeOK, ServerTypes
<1>8. KeptFor(n)'
  <2>1. Mine(n)' = R
    BY <1>4, <1>5 DEF Mine, R
  <2>2. TranscriptsOf(n)' = T
    <3>1. \A r : TranscriptOf(r).client = r.client
      BY DEF TranscriptOf
    <3>2. {TranscriptOf(r) : r \in Mine(n)} = TranscriptsOf(n)
      BY <1>2 DEF TrackerInv, KeptFor, Kept
    <3>3. transcripts' = (transcripts \ TranscriptsOf(n)) \cup T
      BY <1>4, <3>2 DEF R
    <3>4. \A x \in T : x.client = n
      BY <1>5, <3>1
    <3> HIDE DEF T
    <3>. QED
      BY <3>3, <3>4 DEF TranscriptsOf
  <2>. QED
    BY <1>5, <1>7, <2>1, <2>2 DEF KeptFor
<1>9. ASSUME NEW m \in Names, m # n PROVE KeptFor(m)'
  <2>1. Mine(m)' = Mine(m)
    BY <1>4, <1>5, <1>9 DEF Mine, R
  <2>2. TranscriptsOf(m)' = TranscriptsOf(m)
    <3>1. \A r : TranscriptOf(r).client = r.client
      BY DEF TranscriptOf
    <3>2. \A x \in T : x.client = n
      BY <1>5, <3>1
    <3>3. \A x \in {TranscriptOf(r) : r \in Mine(n)} : x.client = n
      BY <3>1 DEF Mine
    <3>4. transcripts' = (transcripts \ {TranscriptOf(r) : r \in Mine(n)}) \cup T
      BY <1>4 DEF R
    <3> HIDE DEF T
    <3>. QED
      BY <1>9, <3>2, <3>3, <3>4 DEF TranscriptsOf
  <2>3. index'[Norm[m]] = index[Norm[m]] /\ index[Norm[m]] # j.code
    <3>1. Norm[m] # Norm[n] /\ index[Norm[m]] # CodeOf(n)
      BY <1>2, <1>9, CodesApart DEF ServerInv
    <3>. QED
      BY <1>2, <3>1, CodesOfNames DEF TypeOK, ServerTypes
  <2>4. Mine(m) # {} => /\ records'[index[Norm[m]]] = records[index[Norm[m]]]
                        /\ syntheses'[index[Norm[m]]] = syntheses[index[Norm[m]]]
    BY <1>2, <2>3, CodeOfRows DEF TypeOK, ServerTypes
  <2>5. KeptFor(m)
    BY DEF TrackerInv
  <2>6. Kept(Mine(m), TranscriptsOf(m), index'[Norm[m]], records'[index'[Norm[m]]],
             syntheses'[index'[Norm[m]]])
    BY <2>3, <2>4, <2>5 DEF KeptFor, Kept
  <2>. QED
    BY <2>1, <2>2, <2>6 DEF KeptFor
<1>. QED
  BY <1>6, <1>8, <1>9 DEF TrackerInv

\* Backfilled rows differ from what they were in the login alone.
LEMMA TrackerBackfill ==
  ASSUME TypeOK, TrackerInv, Backfill
  PROVE  TrackerInv'
<1> DEFINE filled(r) == IF r.login = None THEN Backfilled(r) ELSE r
<1>1. /\ rows' = {filled(r) : r \in rows}
      /\ UNCHANGED <<index, records, syntheses, transcripts>>
  BY DEF Backfill
<1>2. ASSUME NEW r \in rows
      PROVE  /\ filled(r).client = r.client /\ filled(r).code = r.code
             /\ filled(r).sitting = r.sitting /\ filled(r).kind = r.kind
             /\ TranscriptOf(filled(r)) = TranscriptOf(r)
             /\ filled(r).login = Login(r.code, r.sitting.who)
  <2>1. r \in Row /\ r.login \in {None, Login(r.code, r.sitting.who)}
    BY DEF TypeOK, ServerTypes, TrackerInv, LoginsOf
  <2>2. /\ Backfilled(r).client = r.client /\ Backfilled(r).code = r.code
        /\ Backfilled(r).sitting = r.sitting /\ Backfilled(r).kind = r.kind
        /\ Backfilled(r).login = Login(r.code, r.sitting.who)
    BY <2>1 DEF Backfilled, Row
  <2>. QED
    BY <2>1, <2>2 DEF TranscriptOf
<1> HIDE DEF filled
<1>3. LoginsOf(rows')
  BY <1>1, <1>2 DEF LoginsOf
<1>4. ASSUME NEW n \in Names PROVE KeptFor(n)'
  <2>1. Mine(n)' = {filled(r) : r \in Mine(n)} /\ Mine(n) \subseteq rows
    BY <1>1, <1>2 DEF Mine
  <2>2. KeptFor(n) /\ TranscriptsOf(n)' = TranscriptsOf(n)
    BY <1>1 DEF TrackerInv, TranscriptsOf
  <2> DEFINE R == Mine(n)
             Q == {filled(r) : r \in R}
  <2>3. R \subseteq rows
    BY <2>1
  <2> HIDE DEF R
  <2>4. SittingsOf(Q) = SittingsOf(R)
    <3>1. \A s \in SittingsOf(R) : s \in SittingsOf(Q)
      <4>1. ASSUME NEW r \in R, r.kind = "initial" PROVE r.sitting \in SittingsOf(Q)
        <5>1. filled(r) \in {x \in Q : x.kind = "initial"} /\ filled(r).sitting = r.sitting
          BY <1>2, <2>3, <4>1
        <5>. QED
          BY <5>1 DEF SittingsOf
      <4>. QED
        BY <4>1 DEF SittingsOf
    <3>2. \A s \in SittingsOf(Q) : s \in SittingsOf(R)
      BY <1>2, <2>3 DEF SittingsOf
    <3>. QED
      BY <3>1, <3>2
  <2>5. {TranscriptOf(r) : r \in Q} = {TranscriptOf(r) : r \in R}
    BY <1>2, <2>3
  <2>6. ASSUME NEW f \in R, {r \in R : r.kind = "follow_up"} = {f}
        PROVE  {r \in Q : r.kind = "follow_up"} = {filled(f)} /\ filled(f) \in Q
               /\ filled(f).sitting = f.sitting
    <3>1. filled(f) \in Q /\ filled(f).kind = "follow_up" /\ filled(f).sitting = f.sitting
      BY <1>2, <2>3, <2>6
    <3>2. ASSUME NEW x \in Q, x.kind = "follow_up" PROVE x = filled(f)
      <4>1. PICK r \in R : x = filled(r)
        OBVIOUS
      <4>2. r.kind = "follow_up"
        BY <1>2, <2>3, <3>2, <4>1
      <4>. QED
        BY <2>6, <4>1, <4>2
    <3>. QED
      BY <3>1, <3>2
  <2>7. \A x \in Q : \E r \in R : x.code = r.code
    BY <1>2, <2>3
  <2>8. Q # {} => R # {}
    OBVIOUS
  <2>9. Kept(R, TranscriptsOf(n), index[Norm[n]], records[index[Norm[n]]],
             syntheses[index[Norm[n]]])
    BY <2>2 DEF KeptFor, R
  <2> HIDE DEF Q
  <2>10. Kept(Q, TranscriptsOf(n), index[Norm[n]], records[index[Norm[n]]],
              syntheses[index[Norm[n]]])
    BY <2>4, <2>5, <2>6, <2>7, <2>8, <2>9 DEF Kept
  <2>. QED
    BY <1>1, <2>1, <2>2, <2>10 DEF KeptFor, Q, R
<1>. QED
  BY <1>3, <1>4 DEF TrackerInv

LEMMA TrackerWork ==
  ASSUME NamesApart, TypeOK, ServerInv, TrackerInv, NEW c \in Norms,
         \/ Opens(c) \/ CompletesInterview(c)
         \/ \E catalog \in 2 .. Len(Catalogs) : SavesBriefing(c, catalog)
  PROVE  TrackerInv'
<1>0. UNCHANGED <<rows, transcripts, syntheses>>
  BY DEF Opens, CompletesInterview, SavesBriefing
<1>1. CASE Opens(c)
  <2>1. /\ index[c] = None /\ index' = [index EXCEPT ![c] = c]
        /\ records' = [records EXCEPT ![c] = [real |-> FALSE, sittings |-> {}]]
    BY <1>1 DEF Opens
  <2>2. PICK m \in Names : c = Norm[m]
    BY NormsAreOfNames
  <2>3. ASSUME NEW n \in Names, Mine(n) # {}
        PROVE  /\ index'[Norm[n]] = index[Norm[n]]
               /\ records'[index[Norm[n]]].sittings = records[index[Norm[n]]].sittings
    <3>1. index[Norm[n]] # None /\ index[Norm[n]] \in Codes /\ Norm[n] \in Norms
      BY <2>3, CodeOfRows, CodesOfNames
    <3>2. n # m
      BY <2>1, <2>2, <3>1
    <3>3. index[Norm[n]] # c /\ Norm[n] # c
      <4>1. index[Norm[n]] \in {None, Norm[n], SynCode[n]} /\ Norm[n] # c
        BY <2>2, <3>2 DEF ServerInv, IndexInv, NamesApart
      <4>. QED
        BY <3>1, <4>1, CodesOfNames
    <3>. QED
      BY <2>1, <3>1, <3>3 DEF TypeOK, ServerTypes
  <2>. QED
    BY <1>0, <2>3, TrackerFrame
<1>2. CASE CompletesInterview(c)
  <2>1. /\ index[c] # None /\ records[index[c]] # None /\ UNCHANGED index
        /\ records' = [records EXCEPT ![index[c]].real = TRUE]
    BY <1>2 DEF CompletesInterview
  <2>2. index[c] \in Codes /\ records[index[c]] \in Record
    BY <2>1 DEF TypeOK, ServerTypes
  <2>3. [records[index[c]] EXCEPT !.real = TRUE].sittings = records[index[c]].sittings
    BY <2>2 DEF Record
  <2>4. \A code : code \in Codes => records'[code].sittings = records[code].sittings
    BY <2>1, <2>2, <2>3 DEF TypeOK, ServerTypes
  <2>. QED
    BY <1>0, <2>1, <2>4, CodeOfRows, TrackerFrame
<1>3. ASSUME NEW catalog, SavesBriefing(c, catalog) PROVE TrackerInv'
  <2>1. UNCHANGED <<index, records>>
    BY <1>3 DEF SavesBriefing
  <2>. QED
    BY <1>0, <2>1, TrackerFrame
<1>. QED
  BY <1>1, <1>2, <1>3

LEMMA TrackerNext ==
  ASSUME NamesApart, TypeOK, ServerInv, JobsTell, TrackerInv, [Next]_vars
  PROVE  TrackerInv'
<1>1. ASSUME UNCHANGED server PROVE TrackerInv'
  BY <1>1, TrackerFrame DEF server
<1>2. ASSUME NEW p \in Pages,
         \/ \E n \in Names, rounds \in Rounds : Generate(p, n, rounds) \/ Engagement(p, n, rounds)
         \/ \E i \in Places : Answered(p, i)
         \/ Barred(p) \/ RoundEnds(p)
         \/ Retry(p) \/ RetryAnswered(p) \/ RetryBarred(p) \/ RetryEnds(p)
         \/ \E f \in Missing : RetryAsks(p, f)
      PROVE TrackerInv'
  <2>1. UNCHANGED server
    BY <1>2 DEF Generate, Engagement, Answered, Barred, RoundEnds, Retry, RetryAnswered,
                RetryBarred, RetryEnds, RetryAsks
  <2>. QED
    BY <1>1, <2>1
<1>3. ASSUME NEW t \in Threads, Context(t) \/ IndexRead(t) \/ RecordRead(t) \/ CommitFails(t)
      PROVE  TrackerInv'
  BY <1>1, <1>3 DEF Context, IndexRead, RecordRead, CommitFails
<1>4. ASSUME NEW t \in Threads, Committed(t) PROVE TrackerInv'
  BY <1>4, TrackerCommitted
<1>5. CASE Backfill
  BY <1>5, TrackerBackfill
<1>6. ASSUME NEW c \in Norms,
             \/ Opens(c) \/ CompletesInterview(c)
             \/ \E catalog \in 2 .. Len(Catalogs) : SavesBriefing(c, catalog)
      PROVE  TrackerInv'
  BY <1>6, TrackerWork
<1>7. CASE UNCHANGED vars
  BY <1>1, <1>7 DEF vars
<1>. QED
  BY <1>2, <1>3, <1>4, <1>5, <1>6, <1>7 DEF Next

\* A client may begin with an engagement from before there were logins.
LEMMA LegacyKept ==
  ASSUME NEW n \in Names, NEW record, NEW R, R = LegacyOf(n),
         NEW S, S = {r.sitting : r \in R}, record.sittings = S,
         NEW T, T = {TranscriptOf(r) : r \in R}
  PROVE  /\ Kept(R, T, SynCode[n], record, S)
         /\ LoginsOf(R) /\ \A r \in R : r.client = n
<1> DEFINE sat == [who |-> Catalogs[1][1], round |-> 1, run |-> 0, by |-> "gen", after |-> {}]
           row(kind) == [client |-> n, code |-> SynCode[n], sitting |-> sat, kind |-> kind,
                         login |-> None, synthetic |-> TRUE]
           a == row("initial")
           f == row("follow_up")
<1>1. R = {a, f}
  BY DEF LegacyOf
<1>2. /\ a.sitting = sat /\ f.sitting = sat /\ a.kind = "initial" /\ f.kind = "follow_up"
      /\ a.code = SynCode[n] /\ f.code = SynCode[n] /\ a.client = n /\ f.client = n
      /\ a.login = None /\ f.login = None
  OBVIOUS
<1>3. 1 \in DOMAIN Catalogs /\ 1 \in DOMAIN Catalogs[1]
  <2>1. 1 \in DOMAIN Catalogs
    BY Assumptions
  <2>2. Catalogs[1] \in Seq(Personas) /\ Catalogs[1] # <<>>
    BY <2>1, Assumptions
  <2>. QED
    BY <2>1, <2>2
<1>4. sat \in Sitting /\ sat.round = 1 /\ sat.who = Catalogs[1][1]
  <2>1. Catalogs[1][1] \in Personas /\ 0 \in 0 .. MaxRuns /\ 1 \in Rounds
    BY <1>3, CatalogPlaces, Assumptions DEF Rounds
  <2>. QED
    BY <2>1 DEF Sitting
<1> HIDE DEF sat, row
<1>5. SittingsOf(R) = {sat} /\ S = {sat}
  <2>1. {x \in R : x.kind = "initial"} = {a}
    BY <1>1, <1>2
  <2>2. {r.sitting : r \in R} = {sat}
    BY <1>1, <1>2
  <2>. QED
    BY <1>2, <2>1, <2>2 DEF SittingsOf
<1>6. Tellable({sat})
  <2>1. Tale({sat}, Catalogs[1])
    BY <1>3, <1>4 DEF Tale
  <2>. QED
    BY <1>3, <2>1 DEF Tellable
<1>7. Current({sat}) = {sat}
  BY <1>4 DEF Current
<1>8. {r \in R : r.kind = "follow_up"} = {f} /\ f \in R
  BY <1>1, <1>2
<1>9. LoginsOf(R) /\ \A r \in R : r.client = n /\ r.code = SynCode[n]
  BY <1>1, <1>2 DEF LoginsOf
<1> HIDE DEF a, f
<1>. QED
  BY <1>2, <1>5, <1>6, <1>7, <1>8, <1>9 DEF Kept

LEMMA NothingKept ==
  ASSUME NEW code, NEW record, NEW synthesis
  PROVE  Kept({}, {}, code, record, synthesis)
<1>1. SittingsOf({}) = {} /\ 1 \in DOMAIN Catalogs
  BY Assumptions DEF SittingsOf
<1>2. Tellable({})
  BY <1>1, NothingTold DEF Tellable
<1>. QED
  BY <1>1, <1>2 DEF Kept

LEMMA TrackerInit ==
  ASSUME NamesApart, Init
  PROVE  TrackerInv
<1>1. PICK old \in {None} \cup IF Legacy THEN Names ELSE {} :
       LET oldRows == IF old = None THEN {} ELSE LegacyOf(old)
           sittings == {r.sitting : r \in oldRows}
           at(code, f, none) ==
             IF old # None /\ SynCode[old] = code THEN f ELSE none
       IN /\ rows = oldRows
          /\ transcripts = {TranscriptOf(r) : r \in oldRows}
          /\ index = [c \in Norms |->
               IF old # None /\ Norm[old] = c THEN SynCode[old] ELSE None]
          /\ records = [code \in Codes |->
               at(code, [real |-> FALSE, sittings |-> sittings], None)]
          /\ syntheses = [code \in Codes |-> at(code, sittings, {})]
  BY DEF Init
<1>2. CASE old = None
  <2>1. rows = {} /\ transcripts = {}
    BY <1>1, <1>2
  <2>2. \A n \in Names : Mine(n) = {} /\ TranscriptsOf(n) = {}
    BY <2>1 DEF Mine, TranscriptsOf
  <2>3. \A n \in Names : KeptFor(n)
    BY <2>2, NothingKept DEF KeptFor
  <2>. QED
    BY <2>1, <2>3 DEF TrackerInv, LoginsOf
<1>3. CASE old # None
  <2> DEFINE R == LegacyOf(old)
             sittings == {r.sitting : r \in R}
             record == [real |-> FALSE, sittings |-> sittings]
             T == {TranscriptOf(r) : r \in R}
  <2>1. old \in Names
    BY <1>3
  <2>2. /\ rows = R /\ transcripts = T
        /\ index = [c \in Norms |-> IF Norm[old] = c THEN SynCode[old] ELSE None]
        /\ records = [code \in Codes |-> IF SynCode[old] = code THEN record ELSE None]
        /\ syntheses = [code \in Codes |-> IF SynCode[old] = code THEN sittings ELSE {}]
    BY <1>1, <1>3
  <2>3. record.sittings = sittings /\ R = LegacyOf(old) /\ sittings = {r.sitting : r \in R}
        /\ T = {TranscriptOf(r) : r \in R}
    OBVIOUS
  <2> HIDE DEF R, sittings, record, T
  <2>4. /\ Kept(R, T, SynCode[old], record, sittings)
        /\ LoginsOf(R) /\ \A r \in R : r.client = old
    BY <2>1, <2>3, LegacyKept
  <2>5. \A r : TranscriptOf(r).client = r.client
    BY DEF TranscriptOf
  <2>6. ASSUME NEW n \in Names PROVE KeptFor(n)
    <3>1. CASE n = old
      <4>1. Mine(n) = R /\ TranscriptsOf(n) = T
        BY <2>2, <2>3, <2>4, <2>5, <3>1 DEF Mine, TranscriptsOf
      <4>2. /\ index[Norm[n]] = SynCode[old] /\ records[SynCode[old]] = record
            /\ syntheses[SynCode[old]] = sittings
        BY <2>1, <2>2, <3>1, CodesOfNames
      <4>. QED
        BY <2>4, <4>1, <4>2 DEF KeptFor
    <3>2. CASE n # old
      <4>1. Mine(n) = {} /\ TranscriptsOf(n) = {}
        BY <2>2, <2>3, <2>4, <2>5, <3>2 DEF Mine, TranscriptsOf
      <4>. QED
        BY <4>1, NothingKept DEF KeptFor
    <3>. QED
      BY <3>1, <3>2
  <2>. QED
    BY <2>2, <2>4, <2>6 DEF TrackerInv
<1>. QED
  BY <1>2, <1>3

\* What a page shows accounts for everybody.
LEMMA PagesAccount ==
  ASSUME TypeOK, PagesStory
  PROVE  AccountedFor
<1>1. SUFFICES ASSUME NEW p \in Pages, gen[p].pc = "shown", retry[p].pc # "done",
                      NEW i \in DOMAIN context[p].roster, NEW round \in 1 .. gen[p].rounds
               PROVE  \/ \E s \in collected[p] :
                           s.who = context[p].roster[i] /\ s.round = round
                      \/ [place |-> i, round |-> round] \in failures[p]
                      \/ retry[p].pc \in {"loop", "asked"}
                           /\ [place |-> i, round |-> round] \in retry[p].pending
                      \/ retry[p].pc = "asked" /\ retry[p].f = [place |-> i, round |-> round]
  BY DEF AccountedFor
<1>2. Accounts(collected[p], Wanted(retry[p], failures[p]), context[p].roster, gen[p].rounds)
  BY <1>1 DEF PagesStory, PageStory, Story
<1>3. \/ Played(collected[p], context[p].roster, i, round)
      \/ [place |-> i, round |-> round] \in Wanted(retry[p], failures[p])
  BY <1>2 DEF Accounts
<1>. QED
  BY <1>3 DEF Played, Wanted

LEMMA TrackerTells ==
  ASSUME TrackerInv
  PROVE  OneStory
<1>1. ASSUME NEW n \in Names PROVE Tellable(Sittings(n))
  BY SittingsOfMine DEF TrackerInv, KeptFor, Kept
<1>. QED
  BY <1>1 DEF OneStory, Tellable, Tale

\* The invariant of the practice engagements.
PracticeInv == TypeOK /\ ServerInv /\ PagesStory /\ JobsTell /\ TrackerInv

\* However pages, commits, failures, backfills and real work interleave, all five
\* parts hold, for clients and catalogs kept apart and requests in order.
THEOREM PracticeInvariant ==
  ASSUME NamesApart, PersonasApart, InOrder
  PROVE  Spec => []PracticeInv
<1>1. ServerInOrder
  BY DEF InOrder, ServerInOrder
<1>2. Init => PracticeInv
  BY InitTypes, ServerInit, StoryInit, TrackerInit DEF PracticeInv
<1>3. PracticeInv /\ [Next]_vars => PracticeInv'
  BY <1>1, NextTypes, ServerNext, StoryNext, TrackerNext DEF PracticeInv
<1>. QED
  BY <1>2, <1>3, PTL DEF Spec

\* However many pages generate, retry and commit a client's practice engagement,
\* and whatever of it fails, the tracker, the engagement record that the index
\* entry names and the synthesis hold the same sittings, each row has its
\* transcript, and nothing of an earlier generation is left
\* (commitSyntheticEngagement, backfillLogins).
THEOREM OneEngagement ==
  ASSUME NamesApart, PersonasApart, InOrder
  PROVE  Spec => []RecordsAgree
<1>1. PracticeInv => RecordsAgree
  BY TrackerAgrees DEF PracticeInv
<1>. QED
  BY <1>1, PracticeInvariant, PTL

\* A committed second round follows on from first-round sittings that were
\* committed with it, all are of one role catalog, and a page that shows its result
\* can name every persona it has not played (synGenerateRound, retryFailedPersonas
\* and the 400 and the 409 of the persona route).
THEOREM OneWholeStory ==
  ASSUME NamesApart, PersonasApart, InOrder
  PROVE  Spec => []WholeStory
<1>1. PracticeInv => WholeStory
  BY PagesAccount, TrackerTells DEF PracticeInv, WholeStory
<1>. QED
  BY <1>1, PracticeInvariant, PTL

=============================================================================
