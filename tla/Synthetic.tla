------------------------------ MODULE Synthetic ------------------------------
(***************************************************************************)
(* Practice engagements of one tenant (routes/synthetic.ts and the page    *)
(* that drives it, interviews.html): a model plays each persona of a       *)
(* client's role catalog for one or two rounds, the page collects what     *)
(* came back and commits it, and the server writes it into the client's    *)
(* engagement record, its synthesis and the interview tracker at once.     *)
(*                                                                         *)
(* The page asks for one persona at a time, keeps what it got in variables *)
(* that a retry shares with a new generation, and sends everything with    *)
(* each commit.  The server reads the client's context in a transaction of *)
(* its own, before the one that writes; that one runs READ COMMITTED and   *)
(* holds the row of the engagement index from the first thing it writes.   *)
(* Real work goes on beside it: engagements are opened, briefings saved,   *)
(* interviews completed.                                                   *)
(*                                                                         *)
(* A sitting is who was interviewed, in which round and generation, and    *)
(* which sittings of the round before it were shown to the model.          *)
(***************************************************************************)
EXTENDS Integers, Sequences, FiniteSets, FiniteSetsExt

CONSTANTS
  Pages,        \* open interview pages
  Chunking,     \* those whose script asks for one persona at a time
  Names,        \* spellings of client names
  Norm,         \* the norm of each
  SynCode,      \* the code a generation makes of each
  Catalogs,     \* role catalogs; Catalogs[1] is what a client without one gets
  Legacy,       \* may there be sittings from before they had logins
  MaxRuns,      \* bound on generations
  MaxWork,      \* bound on what happens to real engagements
  MaxFailures,  \* bound on requests and commits that fail by themselves
  Overlaps,     \* which requests may overlap that the code does not order
  None

Norms == {Norm[n] : n \in Names}
Codes == Norms \cup {SynCode[n] : n \in Names}
Rounds == 1 .. 2

Personas == UNION {{Catalogs[k][i] : i \in DOMAIN Catalogs[k]} : k \in DOMAIN Catalogs}

\* A sitting as a later one is told of it.
Telling == Personas \X (0 .. MaxRuns) \X {"gen", "retry"}

Sitting ==
  [who : Personas, round : Rounds, run : 0 .. MaxRuns, by : {"gen", "retry"},
   after : SUBSET Telling]

Record == [real : BOOLEAN, sittings : SUBSET Sitting]

ASSUME Assumptions ==
  /\ Norm \in [Names -> Norms] /\ SynCode \in [Names -> Codes \ Norms]
  /\ Catalogs \in Seq(Seq(Personas)) /\ Len(Catalogs) >= 1 /\ Catalogs[1] # <<>>
  /\ None \notin Codes /\ None \notin Nat /\ None \notin Record
  /\ Chunking \subseteq Pages
  /\ Legacy \in BOOLEAN
  /\ {MaxRuns, MaxWork, MaxFailures} \subseteq Nat
  /\ Overlaps \subseteq {"index", "created", "briefing", "merge", "retry"}

VARIABLES
  index,        \* vynora_engagement_index
  records,      \* vynora_engagement_<code>
  syntheses,    \* vynora_synthesis_full_<code>
  briefings,    \* vynora_briefing_<norm or code>: a catalog, 0 the canned one
  rows,         \* synthetic rows of interviews
  transcripts,  \* synthetic rows of interview_transcripts
  opened,       \* clients a consultant opened an engagement for
  finished,     \* clients a real interview was completed for
  wrote,        \* the last briefing a consultant saved for a client
  context,      \* synContext of each page
  collected,    \* synCollected
  failures,     \* synFailures
  gen,          \* generateSynthetic
  retry,        \* retryFailedPersonas
  job,          \* the commit each of the two has running
  runs,
  worked,
  failed

server == <<index, records, syntheses, briefings, rows, transcripts>>
real == <<opened, finished, wrote>>
page == <<context, collected, failures, gen, retry>>
vars == <<server, real, page, job, runs, worked, failed>>

Places == UNION {DOMAIN Catalogs[k] : k \in DOMAIN Catalogs}
Missing == [place : Places, round : Rounds]

\* What may fail by itself, as often as the bound allows.
Fails == failed < MaxFailures /\ failed' = failed + 1

Threads == Pages \X {"gen", "retry"}

Overlap(o) == o \in Overlaps

Idle == [pc |-> "idle"]

-----------------------------------------------------------------------------
(* What the server knows of a client. *)

\* loadClientContext: the briefing, by code and then by norm.
Briefing(c) ==
  IF index[c] # None /\ briefings[index[c]] # None
  THEN briefings[index[c]] ELSE briefings[c]

Roster(b) == IF b \in {None, 0} THEN Catalogs[1] ELSE Catalogs[b]

CodeOf_fresh(n) == SynCode[n]

CodeOf(n) == IF index[Norm[n]] # None THEN index[Norm[n]] ELSE SynCode[n]

Serves_unasked(n, i, expect, round, after, by) ==
  LET roster == Roster(Briefing(Norm[n])) IN
  IF i \in DOMAIN roster /\ (round > 1 => after # {})
  THEN {[who |-> roster[i], round |-> round, run |-> by[1], by |-> by[2],
         after |-> after]}
  ELSE {}

\* What the persona route makes of a request: a sitting of the persona at that
\* place, if it is still who the page believes, or nothing.
Serves(n, i, expect, round, after, by) ==
  LET roster == Roster(Briefing(Norm[n])) IN
  IF i \in DOMAIN roster /\ roster[i] = expect /\ (round > 1 => after # {})
  THEN {[who |-> roster[i], round |-> round, run |-> by[1], by |-> by[2],
         after |-> after]}
  ELSE {}

\* What a later round is told of an earlier one's sitting.
Told(s) == <<s.who, s.run, s.by>>
ToldOf(sittings, round) == {Told(s) : s \in {x \in sittings : x.round = round}}

-----------------------------------------------------------------------------
(* generateSynthetic *)

\* The list of personas and the rounds wanted; while a retry is under way the
\* button that starts a generation stays enabled.
Generate(p, n, rounds) ==
  /\ runs < MaxRuns /\ p \in Chunking
  /\ gen[p].pc \in {"idle", "shown", "error"}
  /\ Overlap("retry") \/ retry[p].pc \in {"idle", "done"}
  /\ LET roster == Roster(Briefing(Norm[n])) IN
     /\ context' = [context EXCEPT ![p] =
          [name |-> n, roster |-> roster, run |-> runs + 1]]
     /\ gen' = [gen EXCEPT ![p] =
          [pc |-> "round", name |-> n, rounds |-> rounds, round |-> 1,
           queue |-> DOMAIN roster, got |-> {}, after |-> {}]]
  /\ collected' = [collected EXCEPT ![p] = {}]
  /\ failures' = [failures EXCEPT ![p] = {}]
  /\ retry' = [retry EXCEPT ![p] =
       IF @.pc = "asked" THEN [@ EXCEPT !.array = FALSE]
       ELSE IF @.pc = "done" THEN Idle ELSE @]
  /\ runs' = runs + 1
  /\ UNCHANGED <<server, real, job, worked, failed>>

\* synGenerateRound: one answer of a lane, whatever lane it is.  A failure is
\* recorded and the round carries on.
Answered(p, i) ==
  /\ gen[p].pc = "round" /\ i \in gen[p].queue
  /\ LET g == gen[p]
         who == context[p].roster[i]
         sat == Serves(g.name, i, who, g.round, g.after,
                      <<context[p].run, "gen">>)
     IN \/ /\ sat # {}
           /\ gen' = [gen EXCEPT ![p].queue = @ \ {i}, ![p].got = @ \cup sat]
           /\ UNCHANGED <<failures, failed>>
        \/ /\ gen' = [gen EXCEPT ![p].queue = @ \ {i}]
           /\ failures' = [failures EXCEPT ![p] =
                @ \cup {[place |-> i, round |-> g.round]}]
           /\ IF sat = {} THEN UNCHANGED failed ELSE Fails
  /\ UNCHANGED <<server, real, context, collected, retry, job, runs, worked>>

\* A 401 or 403 aborts the generation and what the round had brought.
Barred(p) ==
  /\ gen[p].pc = "round" /\ gen[p].queue # {}
  /\ gen' = [gen EXCEPT ![p] = [pc |-> "error"]]
  /\ Fails
  /\ UNCHANGED <<server, real, context, collected, failures, retry, job, runs,
                 worked>>

\* All lanes are done: the next round is fed this one's sittings, unless there
\* are none; then what was collected is committed, if anything was.
RoundEnds(p) ==
  /\ gen[p].pc = "round" /\ gen[p].queue = {}
  /\ LET g == gen[p]
         all == collected[p] \cup g.got
     IN /\ collected' = [collected EXCEPT ![p] = all]
        /\ gen' = [gen EXCEPT ![p] =
             IF g.round < g.rounds /\ g.got # {}
             THEN [g EXCEPT !.round = @ + 1, !.queue = DOMAIN context[p].roster,
                            !.got = {}, !.after = ToldOf(g.got, g.round)]
             ELSE IF all # {} THEN [g EXCEPT !.pc = "commit", !.got = {}]
             ELSE [pc |-> "error"]]
  /\ retry' = [retry EXCEPT ![p] =
       IF @.pc = "asked" THEN [@ EXCEPT !.array = FALSE] ELSE @]
  /\ UNCHANGED <<server, real, context, failures, job, runs, worked, failed>>

-----------------------------------------------------------------------------
(* retryFailedPersonas *)

\* The button is part of what a successful generation shows.
Retry(p) ==
  /\ gen[p].pc = "shown" /\ retry[p].pc = "idle" /\ failures[p] # {}
  /\ retry' = [retry EXCEPT ![p] = [pc |-> "loop", pending |-> failures[p]]]
  /\ failures' = [failures EXCEPT ![p] = {}]
  /\ UNCHANGED <<server, real, context, collected, gen, job, runs, worked, failed>>

\* The next of them is asked for; without a sitting of the round before there
\* is nothing to ask.  The array that will take the answer is the one that
\* synCollected names now.
RetryAsks(p, f) ==
  /\ retry[p].pc = "loop" /\ f \in retry[p].pending
  /\ LET rest == retry[p].pending \ {f}
         after == IF f.round > 1 THEN ToldOf(collected[p], f.round - 1) ELSE {}
     IN IF f.place \notin DOMAIN context[p].roster
        THEN /\ retry' = [retry EXCEPT ![p] = [pc |-> "done"]]
             /\ UNCHANGED failures
        ELSE IF f.round > 1 /\ after = {}
        THEN /\ retry' = [retry EXCEPT ![p].pending = rest]
             /\ failures' = [failures EXCEPT ![p] = @ \cup {f}]
        ELSE /\ retry' = [retry EXCEPT ![p] =
                  [pc |-> "asked", pending |-> rest, f |-> f, after |-> after,
                   name |-> context[p].name, who |-> context[p].roster[f.place],
                   array |-> TRUE]]
             /\ UNCHANGED failures
  /\ UNCHANGED <<server, real, context, collected, gen, job, runs, worked, failed>>

RetryAnswered(p) ==
  /\ retry[p].pc = "asked"
  /\ LET r == retry[p]
         sat == Serves(r.name, r.f.place, r.who, r.f.round, r.after,
                       <<context[p].run, "retry">>)
     IN /\ retry' = [retry EXCEPT ![p] = [pc |-> "loop", pending |-> r.pending]]
        /\ \/ /\ sat # {}
              /\ collected' = [collected EXCEPT ![p] =
                   IF r.array THEN @ \cup sat ELSE @]
              /\ UNCHANGED <<failures, failed>>
           \/ /\ failures' = [failures EXCEPT ![p] = @ \cup {r.f}]
              /\ IF sat = {} THEN UNCHANGED failed ELSE Fails
              /\ UNCHANGED collected
  /\ UNCHANGED <<server, real, context, gen, job, runs, worked>>

RetryBarred(p) ==
  /\ retry[p].pc = "asked"
  /\ retry' = [retry EXCEPT ![p] = [pc |-> "done"]]
  /\ Fails
  /\ UNCHANGED <<server, real, context, collected, failures, gen, job, runs,
                 worked>>

RetryEnds(p) ==
  /\ retry[p].pc = "loop" /\ retry[p].pending = {}
  /\ retry' = [retry EXCEPT ![p] =
       [pc |-> IF collected[p] = {} THEN "done" ELSE "commit"]]
  /\ UNCHANGED <<server, real, context, collected, failures, gen, job, runs,
                 worked, failed>>

-----------------------------------------------------------------------------
(* POST /api/synthetic/commit *)

ThreadAt(t) == IF t[2] = "gen" THEN gen[t[1]].pc ELSE retry[t[1]].pc

\* The answer: a generation shows what it made and a retry button, an error
\* only says so.
Reply(t, ok) ==
  IF t[2] = "gen"
  THEN /\ gen' = [gen EXCEPT ![t[1]] =
            [pc |-> IF ok THEN "shown" ELSE "error", rounds |-> @.rounds]]
       /\ UNCHANGED retry
  ELSE /\ retry' = [retry EXCEPT ![t[1]] = [pc |-> "done"]]
       /\ UNCHANGED gen

\* What the commit is sent, and the context it reads first.
Job(n, sittings, code, existing, briefed) ==
  [pc |-> "context", name |-> n, sittings |-> sittings, code |-> code,
   existing |-> existing, briefed |-> briefed, index |-> None, record |-> None]

Context(t) ==
  /\ ThreadAt(t) = "commit" /\ job[t] = Idle
  /\ LET p == t[1]
         n == IF t[2] = "gen" THEN gen[p].name ELSE context[p].name IN
     job' = [job EXCEPT ![t] =
       Job(n, collected[p], CodeOf(n), index[Norm[n]] # None,
           Briefing(Norm[n]) # None)]
  /\ UNCHANGED <<server, real, page, runs, worked, failed>>

\* generateRound: a round in which everyone is played, or nothing is committed.
WholeRound(roster, round, after) ==
  {[who |-> roster[i], round |-> round, run |-> runs + 1, by |-> "gen",
    after |-> after] : i \in DOMAIN roster}

\* POST /api/synthetic/engagement generates everything in one request, between
\* its context and its commit: all sittings or none.  It looks for the briefing
\* under the norm alone.
Engagement(p, n, rounds) ==
  /\ runs < MaxRuns /\ p \notin Chunking
  /\ gen[p].pc \in {"idle", "shown", "error"} /\ retry[p].pc \in {"idle", "done"}
  /\ LET roster == Roster(briefings[Norm[n]])
         first == WholeRound(roster, 1, {})
         second == WholeRound(roster, 2, ToldOf(first, 1))
         all == IF rounds = 1 THEN first ELSE first \cup second
     IN /\ context' = [context EXCEPT ![p] =
             [name |-> n, roster |-> roster, run |-> runs + 1]]
        /\ collected' = [collected EXCEPT ![p] = all]
        /\ job' = [job EXCEPT ![<<p, "gen">>] =
             Job(n, all, CodeOf(n), index[Norm[n]] # None,
                 briefings[Norm[n]] # None)]
        /\ gen' = [gen EXCEPT ![p] =
             [pc |-> "commit", name |-> n, rounds |-> rounds]]
  /\ failures' = [failures EXCEPT ![p] = {}]
  /\ retry' = [retry EXCEPT ![p] = Idle]
  /\ runs' = runs + 1
  /\ UNCHANGED <<server, real, worked, failed>>

Writing(t) == job[t].pc \in {"index", "record"}

\* The transaction begins with the index.
IndexRead(t) ==
  /\ job[t].pc = "context"
  /\ Overlap("index") \/ \A u \in Threads :
       Writing(u) => Norm[job[u].name] = Norm[job[t].name]
  /\ job' = [job EXCEPT ![t] = [@ EXCEPT !.pc = "index", !.index = index]]
  /\ UNCHANGED <<server, real, page, runs, worked, failed>>

\* Its entry is written: the transaction waits here for one that has written
\* the row and is not over.  Then it reads the record it will add to.
RecordRead(t) ==
  /\ job[t].pc = "index"
  /\ \A u \in Threads : job[u].pc # "record"
  /\ job' = [job EXCEPT ![t] =
       [@ EXCEPT !.pc = "record", !.record = records[job[t].code]]]
  /\ UNCHANGED <<server, real, page, runs, worked, failed>>

RecordWith_stacked(j) ==
  IF j.existing /\ j.record # None
  THEN [j.record EXCEPT !.sittings = @ \cup j.sittings]
  ELSE [real |-> FALSE, sittings |-> j.sittings]

\* The record: an engagement that the context knew keeps its real interviews.
RecordWith(j) ==
  IF j.existing /\ j.record # None THEN [j.record EXCEPT !.sittings = j.sittings]
  ELSE [real |-> FALSE, sittings |-> j.sittings]

\* syntheticLogin, from the code and the name alone.
Login(code, who) == <<code, who.name>>

SittingRow(j, s) ==
  [client |-> j.name, code |-> j.code, sitting |-> s, kind |-> "initial",
   login |-> Login(j.code, s.who), synthetic |-> TRUE]

\* One follow-up, hung off a sitting of the second round or else the last.
FollowUp(j, parent) ==
  [client |-> j.name, code |-> j.code, sitting |-> parent, kind |-> "follow_up",
   login |-> Login(j.code, parent.who), synthetic |-> TRUE]

\* turnsOf: there always is one, made from the findings if the model sent none.
TranscriptOf(r) == [client |-> r.client, sitting |-> r.sitting, kind |-> r.kind]

\* buildSynthesis: a refresh replaces the diagnostic, person by person or not.
Current(sittings) ==
  LET refreshed == {s \in sittings : s.round = 2} IN
  IF refreshed # {} THEN refreshed ELSE sittings

\* What a regeneration takes away before it inserts its own.
Prior(j) == {r \in rows : r.client = j.name /\ r.synthetic}

\* uq_interviews_tenant_state_module: the name of a follow-up's namespace is
\* made of the code alone.
Collides(j) ==
  \E r \in rows \ Prior(j) : r.kind = "follow_up" /\ r.code = j.code

Committed(t) ==
  /\ job[t].pc = "record" /\ ~Collides(job[t])
  /\ LET j == job[t]
         c == Norm[j.name] IN
     /\ index' = [j.index EXCEPT ![c] = j.code]
     /\ records' = [records EXCEPT ![j.code] = RecordWith(j)]
     /\ briefings' = [briefings EXCEPT ![c] = IF j.briefed THEN @ ELSE 0]
     /\ syntheses' = [syntheses EXCEPT ![j.code] = Current(j.sittings)]
     /\ \E parent \in Current(j.sittings) :
          LET new == {SittingRow(j, s) : s \in j.sittings}
                       \cup {FollowUp(j, parent)} IN
          /\ rows' = (rows \ Prior(j)) \cup new
          /\ transcripts' = (transcripts \ {TranscriptOf(r) : r \in Prior(j)})
                              \cup {TranscriptOf(r) : r \in new}
  /\ Reply(t, TRUE)
  /\ job' = [job EXCEPT ![t] = Idle]
  /\ UNCHANGED <<real, context, collected, failures, runs, worked, failed>>

\* commit_failed: the transaction is rolled back, on a row that is there
\* already or for a reason of the database.
CommitFails(t) ==
  /\ job[t].pc = "record"
  /\ Reply(t, FALSE)
  /\ job' = [job EXCEPT ![t] = Idle]
  /\ IF Collides(job[t]) THEN UNCHANGED failed ELSE Fails
  /\ UNCHANGED <<server, real, context, collected, failures, runs, worked>>

\* POST /api/synthetic/backfill-logins, for every client: the code is read from
\* the row's namespace.
Backfilled(r) == [r EXCEPT !.login = Login(r.code, r.sitting.who)]

Backfill ==
  /\ \E r \in rows : r.login = None
  /\ rows' = {IF r.login = None THEN Backfilled(r) ELSE r : r \in rows}
  /\ UNCHANGED <<index, records, syntheses, briefings, transcripts, real, page,
                 job, runs, worked, failed>>

-----------------------------------------------------------------------------
(* Real work on the same clients, each in one transaction: Pre-Engagement    *)
(* opens a client's engagement and saves its briefing, by code if it has     *)
(* one, and a completed interview is merged into the record (Interviews).    *)

Works == worked < MaxWork /\ worked' = worked + 1

Holds(c) == {t \in Threads : job[t].pc # "idle" /\ Norm[job[t].name] = c}

Opens(c) ==
  /\ Works /\ index[c] = None
  /\ \A t \in Threads : job[t].pc # "record"
  /\ Overlap("index") \/ \A t \in Threads : ~Writing(t)
  /\ Overlap("created") \/ Holds(c) = {}
  /\ index' = [index EXCEPT ![c] = c]
  /\ records' = [records EXCEPT ![c] = [real |-> FALSE, sittings |-> {}]]
  /\ opened' = opened \cup {c}
  /\ UNCHANGED <<syntheses, briefings, rows, transcripts, finished, wrote, page,
                 job, runs, failed>>

SavesBriefing(c, catalog) ==
  /\ Works
  /\ Overlap("briefing") \/ \A t \in Holds(c) : job[t].briefed
  /\ briefings' = [briefings EXCEPT ![IF index[c] # None THEN index[c] ELSE c] =
       catalog]
  /\ wrote' = [wrote EXCEPT ![c] = catalog]
  /\ UNCHANGED <<index, records, syntheses, rows, transcripts, opened, finished,
                 page, job, runs, failed>>

CompletesInterview(c) ==
  /\ Works /\ index[c] # None /\ records[index[c]] # None /\ c \notin finished
  /\ Overlap("merge") \/ \A t \in Holds(c) :
       job[t].pc # "record" /\ job[t].existing
  /\ records' = [records EXCEPT ![index[c]].real = TRUE]
  /\ finished' = finished \cup {c}
  /\ UNCHANGED <<index, syntheses, briefings, rows, transcripts, opened, wrote,
                 page, job, runs, failed>>

-----------------------------------------------------------------------------
\* A client may have an engagement generated before sittings had logins.
LegacyOf(n) ==
  LET who == Catalogs[1][1]
      sat == [who |-> who, round |-> 1, run |-> 0, by |-> "gen", after |-> {}] IN
  {[client |-> n, code |-> SynCode[n], sitting |-> sat, kind |-> kind,
    login |-> None, synthetic |-> TRUE] : kind \in {"initial", "follow_up"}}

Init ==
  /\ \E old \in {None} \cup IF Legacy THEN Names ELSE {} :
       LET oldRows == IF old = None THEN {} ELSE LegacyOf(old)
           sittings == {r.sitting : r \in oldRows}
           at(code, f, none) ==
             IF old # None /\ SynCode[old] = code THEN f ELSE none
       IN /\ rows = oldRows
          /\ transcripts = {TranscriptOf(r) : r \in oldRows}
          /\ index = [c \in Norms |->
               IF old # None /\ Norm[old] = c THEN SynCode[old] ELSE None]
          /\ records = [code \in Codes |->
               at(code, [real |-> FALSE, sittings |-> sittings], None)]
          /\ syntheses = [code \in Codes |-> at(code, sittings, {})]
          /\ briefings = [k \in Codes |->
               IF old # None /\ Norm[old] = k THEN 0 ELSE None]
  /\ opened = {} /\ finished = {} /\ wrote = [c \in Norms |-> None]
  /\ context = [p \in Pages |-> None]
  /\ collected = [p \in Pages |-> {}]
  /\ failures = [p \in Pages |-> {}]
  /\ gen = [p \in Pages |-> Idle]
  /\ retry = [p \in Pages |-> Idle]
  /\ job = [t \in Threads |-> Idle]
  /\ runs = 0 /\ worked = 0 /\ failed = 0

Next ==
  \/ \E p \in Pages :
       \/ \E n \in Names, rounds \in Rounds :
            Generate(p, n, rounds) \/ Engagement(p, n, rounds)
       \/ \E i \in Places : Answered(p, i)
       \/ Barred(p) \/ RoundEnds(p)
       \/ Retry(p) \/ RetryAnswered(p) \/ RetryBarred(p) \/ RetryEnds(p)
       \/ \E f \in Missing : RetryAsks(p, f)
  \/ \E t \in Threads :
       \/ Context(t) \/ IndexRead(t) \/ RecordRead(t)
       \/ Committed(t) \/ CommitFails(t)
  \/ Backfill
  \/ \E c \in Norms :
       \/ Opens(c) \/ CompletesInterview(c)
       \/ \E catalog \in 2 .. Len(Catalogs) : SavesBriefing(c, catalog)

Spec == Init /\ [][Next]_vars

-----------------------------------------------------------------------------
Mine(n) == {r \in rows : r.client = n}
Sittings(n) == {r.sitting : r \in {x \in Mine(n) : x.kind = "initial"}}

\* However often and from however many pages a client is generated, the tracker,
\* the engagement record its index entry names and the synthesis hold the same
\* sittings (the synthesis those of the last round), each persona once a round;
\* each row has its transcript, nothing else has one, there is one follow-up, and
\* one login per name
\* (commitSyntheticEngagement).
RecordsAgree ==
  \A n \in Names : Mine(n) # {} =>
    LET code == index[Norm[n]]
        sits == Sittings(n)
        followUps == {r \in Mine(n) : r.kind = "follow_up"} IN
    /\ \A r \in Mine(n) : r.code = code
    /\ records[code].sittings = sits /\ syntheses[code] = Current(sits)
    /\ \A s, u \in sits : s.who = u.who /\ s.round = u.round => s = u
    /\ Cardinality(followUps) = 1 /\ \A r \in followUps : r.sitting \in sits
    /\ {TranscriptOf(r) : r \in Mine(n)} = {x \in transcripts : x.client = n}
    /\ \A r, q \in Mine(n) : None \notin {r.login, q.login} =>
         (r.login = q.login <=> r.sitting.who.name = q.sitting.who.name)

\* No generation takes from a client what is real: the engagement a consultant
\* opened stays the one its index entry names, the interviews completed stay in
\* its record, and the briefing last saved is the one that is read.
RealWorkSurvives ==
  \A c \in Norms :
    /\ c \in opened => index[c] = c
    /\ c \in finished => index[c] # None /\ records[index[c]].real
    /\ wrote[c] # None => Briefing(c) = wrote[c]

\* What was committed is one story: every sitting of the second round follows
\* on from sittings of the first that are in the record with it, and all of them
\* are of one role catalog, whatever became of the briefing meanwhile (the 400
\* and the 409 of the persona route).
OneStory ==
  \A n \in Names :
    LET sits == Sittings(n) IN
    /\ \A s \in sits : s.round = 2 =>
         s.after # {} /\ s.after \subseteq ToldOf(sits, 1)
    /\ sits # {} => \E k \in DOMAIN Catalogs :
         \A s \in sits : \E i \in DOMAIN Catalogs[k] : s.who = Catalogs[k][i]

\* A generation that shows its result, and a retry until it ends, can say of
\* every persona and round that it is there or that it is still to be retried,
\* but for second rounds that have nothing to follow on from.
AccountedFor ==
  \A p \in Pages :
    gen[p].pc = "shown" /\ retry[p].pc # "done" =>
      \A i \in DOMAIN context[p].roster, round \in 1 .. gen[p].rounds :
        \/ \E s \in collected[p] :
             s.who = context[p].roster[i] /\ s.round = round
        \/ [place |-> i, round |-> round] \in failures[p]
        \/ retry[p].pc \in {"loop", "asked"}
             /\ [place |-> i, round |-> round] \in retry[p].pending
        \/ retry[p].pc = "asked" /\ retry[p].f = [place |-> i, round |-> round]
        \/ round = 2 /\ ToldOf(collected[p], 1) = {}

\* What is committed is one story, and what is missing from it is named.
WholeStory == OneStory /\ AccountedFor
=============================================================================
