------------------------------ MODULE Interviews ------------------------------
(***************************************************************************)
(* Distributed interviews of one tenant (routes/interviews.ts) and the     *)
(* merge of a finished one into its client's engagement record             *)
(* (tenant/engagementMerge.ts).                                            *)
(*                                                                         *)
(* A consultant invites people, drafts and approves follow-ups, edits and  *)
(* deletes interviews; an interviewee saves a session and finishes.  Each  *)
(* request is a few transactions with awaits between them, and PostgreSQL  *)
(* runs them READ COMMITTED: a transaction that reads a row and writes it  *)
(* later is two steps here, and only the rows it has written are locked.   *)
(*                                                                         *)
(* An interviewee's session is the number of saves it has seen.  Everyone  *)
(* here has one role and one name: they decide together with the source    *)
(* of an entry what a merge replaces.                                      *)
(***************************************************************************)
EXTENDS Integers, Sequences, FiniteSets, SequencesExt, FiniteSetsExt

CONSTANTS
  People,          \* interviewees, named by their login
  Clients,
  Consultants,     \* who may have a request running each
  MaxInterviews,   \* bound on interviews ever created
  MaxRound,        \* bound on round numbers
  MaxSaves,        \* bound on saves of one session
  MaxPatches,      \* bound on edits of interviews by consultants
  ArchiveMost,     \* replaced entries a round keeps (20)
  Overlaps,        \* which requests may overlap that the code does not order
  Faults,          \* what else may fail
  None

ASSUME BoundAssumption ==
  /\ {MaxInterviews, MaxRound, MaxSaves, MaxPatches} \subseteq Nat
  /\ MaxRound >= 1 /\ IsFiniteSet(Consultants)
  /\ ArchiveMost \in Nat \ {0}
  /\ Overlaps \subseteq {"merge", "save", "invite", "erase", "draft"}
  /\ Faults \subseteq {"garbled", "skipped", "aborts", "dies"}

VARIABLES
  iv,           \* rows of interviews
  born,         \* how many there have been
  saved,        \* the private namespace iv_<id> of each: saves of its session
  transcripts,  \* rows of interview_transcripts
  index,        \* vynora_engagement_index: code of a client, or None
  records,      \* vynora_engagement_<code>
  members,      \* memberships with the role interviewee
  logins,       \* accounts at the identity platform
  job,          \* the request a consultant has running
  saving,       \* PUT mine/state in progress, by person
  finishing,    \* POST mine/complete in progress, by person
  told,         \* the answer the last completion of an interview was given
  patches

vars == <<iv, born, saved, transcripts, index, records, members, logins,
          job, saving, finishing, told, patches>>

Ids == 1 .. MaxInterviews
Rounds == 1 .. MaxRound

\* Codes: of an engagement a consultant opened, or minted from a client's name
\* and an interview's id.
Codes == Clients \cup (Clients \X Ids)

\* Round 0 is NULL: whatever round is current.
Row == [who : People, client : Clients, round : 0 .. MaxRound,
        kind : {"initial", "follow_up"}, parent : Ids \cup {0},
        status : {"invited", "in_progress", "completed"},
        agenda : {"none", "draft", "approved"}]

Entry == [source : Ids, who : People, followUp : BOOLEAN, blob : Nat]

Transcript == [source : Ids, blob : Nat]

Overlap(o) == o \in Overlaps

Row0(w, c, r) ==
  [who |-> w, client |-> c, round |-> r, kind |-> "initial", parent |-> 0,
   status |-> "invited", agenda |-> "none"]

FollowUp(row, parent) ==
  [who |-> row.who, client |-> row.client, round |-> 0, kind |-> "follow_up",
   parent |-> parent, status |-> "invited", agenda |-> "draft"]

Live == {i \in Ids : iv[i] # None}

Kept == {k \in Codes : records[k] # None}

-----------------------------------------------------------------------------
(* What an interviewee is served.                                           *)

Eligible(row) == row.kind = "initial" \/ row.agenda = "approved"

Theirs(p) == {i \in Live : iv[i].who = p /\ Eligible(iv[i])}

\* ORDER BY created_at DESC LIMIT 1.
Newest(S) == IF S = {} THEN 0 ELSE Max(S)

Served(p) == Newest(Theirs(p))

\* The gate of v5.32.54: any round that is not the current one.
BeforeOwn_any(r, own) == TRUE

BeforeOwn(r, own) == own = 0 \/ r < own

\* The rounds whose scores and findings the bootstrap carries.
Settled(rec, own) ==
  {r \in Rounds : rec.rounds[r].open /\ rec.current # r /\ BeforeOwn(r, own)}

-----------------------------------------------------------------------------
(* The engagement record.                                                   *)

NoRound == [open |-> FALSE, entries |-> <<>>, superseded |-> <<>>]

NewRecord(c) == [client |-> c, rounds |-> [r \in Rounds |-> NoRound], current |-> 0]

\* A round is opened and made current.
Begun(rec, r) == [rec EXCEPT !.rounds = [@ EXCEPT ![r].open = TRUE], !.current = r]

\* The consultant's round, or the current one, or the first.
Target(rec, row) ==
  IF row.round > 0 THEN row.round ELSE IF rec.current > 0 THEN rec.current ELSE 1

SamePerson(e, f) == ~e.followUp /\ ~f.followUp /\ e.who = f.who

Replaces(e, f) == e.source = f.source \/ SamePerson(e, f)

\* Nothing is archived, before v5.32.55.
Upserted_dropping(round, f) ==
  LET at == {n \in 1 .. Len(round.entries) : Replaces(round.entries[n], f)}
  IN  IF at = {} THEN [round EXCEPT !.open = TRUE, !.entries = Append(@, f)]
      ELSE [round EXCEPT !.entries[Max(at)] = f]

\* archive.slice(-20)
Shelved(archive, e) ==
  IF Len(archive) < ArchiveMost THEN Append(archive, e) ELSE Append(Tail(archive), e)

\* The first entry the new one replaces is archived when it is of another
\* interview; without one the new entry is appended.
Upserted(round, f) ==
  LET at == {n \in 1 .. Len(round.entries) : Replaces(round.entries[n], f)}
      n == Min(at)
  IN  IF at = {} THEN [round EXCEPT !.open = TRUE, !.entries = Append(@, f)]
      ELSE [round EXCEPT
              !.entries[n] = f,
              !.superseded = IF round.entries[n].source = f.source THEN @
                             ELSE Shelved(@, round.entries[n])]

\* mergeSessionIntoEngagement
Merged(rec, row, f) ==
  LET t == Target(rec, row)
  IN  [rec EXCEPT !.rounds[t] = Upserted(@, f),
                  !.current = IF rec.rounds[t].open THEN @ ELSE t]

\* The code the index gives; failing a record there, the code of any record of
\* this client; failing that, one of its own.
CodeFor(c, i) ==
  LET named == {k \in {index[c]} \ {None} : records[k] # None}
      found == {k \in Kept : records[k].client = c}
  IN  IF named # {} THEN named
      ELSE IF found # {} THEN found
      ELSE IF index[c] # None THEN {index[c]}
      ELSE {<<c, i>>}

\* Records of this client that do not parse are skipped by the scan, unless the
\* index names one: the client then gets another.
Unmatched(c, i) ==
  IF "skipped" \in Faults /\ (index[c] = None \/ records[index[c]] = None)
  THEN {IF index[c] = None THEN <<c, i>> ELSE index[c]} ELSE {}

-----------------------------------------------------------------------------
(* What a request holds, and the shape of the documents.                    *)

Job ==
  [op : {"invite"}, who : People, client : Clients, round : 0 .. MaxRound,
   step : {"member", "guard", "row"}]
  \cup [op : {"delete"}, id : Ids, who : People, erased : SUBSET Transcript]
  \cup [op : {"revoke"}, who : People, step : {"membership", "login"}]
  \cup [op : {"draft"}, id : Ids, row : Row, onto : Ids \cup {0}]

RoundRecord ==
  {r \in [open : BOOLEAN, entries : Seq(Entry), superseded : Seq(Entry)] :
     Len(r.superseded) =< ArchiveMost}

Record == [client : Clients, rounds : [Rounds -> RoundRecord], current : 0 .. MaxRound]

Finishing ==
  [id : Ids, row : Row, blob : Nat, code : Codes, record : Record \cup {None},
   named : BOOLEAN,
   index : [Clients -> Codes \cup {None}]]

Save == [id : Ids, first : BOOLEAN]

Answered == [answer : {"ok", "failed"}, blob : Nat]

\* A minted code is no code of an engagement a consultant opened.
ASSUME NoneIsNoRecord ==
  /\ Clients \cap (Clients \X Ids) = {}
  /\ None \notin Row \cup Record \cup Job \cup Save \cup Finishing \cup Answered

-----------------------------------------------------------------------------
Init ==
  /\ iv = [i \in Ids |-> None]
  /\ born = 0
  /\ saved = [i \in Ids |-> 0]
  /\ transcripts = {}
  /\ \E opened \in SUBSET Clients : \E listed \in SUBSET opened :
       /\ index = [c \in Clients |-> IF c \in listed THEN c ELSE None]
       /\ records = [k \in Codes |->
            IF k \in opened
            THEN Begun(NewRecord(k), 1) ELSE None]
  /\ members = {}
  /\ logins = {}
  /\ job = [c \in Consultants |-> None]
  /\ saving = [p \in People |-> None]
  /\ finishing = [p \in People |-> None]
  /\ told = [i \in Ids |-> None]
  /\ patches = 0

documents == <<index, records>>
access == <<members, logins>>
sessions == <<saving, finishing, told>>

\* The UPDATE of a running completion holds the row.
Locked(i) == \E p \in People : finishing[p] # None /\ finishing[p].id = i

Running(op) == {job[c] : c \in {d \in Consultants : job[d] # None /\ job[d].op = op}}

Inserts(j) == j.op = "invite" \/ (j.op = "draft" /\ j.onto = 0)

\* Rows not yet taken by an invitation or a draft that is running.
Room == born + Cardinality({d \in Consultants : job[d] # None /\ Inserts(job[d])})
          < MaxInterviews

-----------------------------------------------------------------------------
(* POST /api/interviews: login, membership, duplicate guard, row.           *)

InviteLogin(c, w, cl, r) ==
  /\ job[c] = None
  /\ Room
  /\ Overlap("invite") \/ \A j \in Running("revoke") : j.who # w
  /\ logins' = logins \cup {w}
  /\ job' = [job EXCEPT ![c] =
       [op |-> "invite", who |-> w, client |-> cl, round |-> r, step |-> "member"]]
  /\ UNCHANGED <<iv, born, saved, transcripts, documents, members, sessions, patches>>

InviteMember(c) ==
  /\ job[c] # None /\ job[c].op = "invite" /\ job[c].step = "member"
  /\ members' = members \cup {job[c].who}
  /\ job' = [job EXCEPT ![c].step = "guard"]
  /\ UNCHANGED <<iv, born, saved, transcripts, documents, logins, sessions, patches>>

Duplicate(j) ==
  \E i \in Live : iv[i].who = j.who /\ iv[i].client = j.client /\ iv[i].round = j.round

\* 409 duplicate_interview, in a transaction of its own.
InviteGuard(c) ==
  /\ job[c] # None /\ job[c].op = "invite" /\ job[c].step = "guard"
  /\ job' = [job EXCEPT ![c] = IF Duplicate(@) THEN None ELSE [@ EXCEPT !.step = "row"]]
  /\ UNCHANGED <<iv, born, saved, transcripts, documents, access, sessions, patches>>

InviteRow(c) ==
  /\ job[c] # None /\ job[c].op = "invite" /\ job[c].step = "row"
  /\ born < MaxInterviews
  /\ born' = born + 1
  /\ iv' = [iv EXCEPT ![born + 1] = Row0(job[c].who, job[c].client, job[c].round)]
  /\ job' = [job EXCEPT ![c] = None]
  /\ UNCHANGED <<saved, transcripts, documents, access, sessions, patches>>

-----------------------------------------------------------------------------
(* DELETE /api/interviews/:id.                                              *)

OfInterview(i) == {t \in transcripts : t.source = i}

Saving(i) == \E p \in People : saving[p] # None /\ saving[p].id = i

\* Before v5.34.63 the conversation stayed.
Erased_none(i) == {}

Erased(i) == OfInterview(i)

\* Reads the row and deletes the transcripts it sees; later ones stay.
DeleteErases(c, i) ==
  /\ job[c] = None
  /\ i \in Live
  /\ Overlap("erase") \/ (~Locked(i) /\ ~Saving(i))
  /\ job' = [job EXCEPT ![c] =
       [op |-> "delete", id |-> i, who |-> iv[i].who, erased |-> Erased(i)]]
  /\ UNCHANGED <<iv, born, saved, transcripts, documents, access, sessions, patches>>

\* v5.32.56 and before: asked where row-level security shows no row.
HasOthers_blind(w, i) == FALSE

HasOthers(w, i) == \E j \in Live \ {i} : iv[j].who = w

\* Session state and row, follow-ups losing their parent, and the commit; the
\* login goes when nothing else of theirs is left.
DeleteRow(c) ==
  /\ job[c] # None /\ job[c].op = "delete"
  /\ LET i == job[c].id  w == job[c].who IN
       /\ ~Locked(i)
       /\ Overlap("invite") \/ \A j \in Running("invite") : j.who # w
       /\ transcripts' = transcripts \ job[c].erased
       /\ saved' = [saved EXCEPT ![i] = 0]
       /\ iv' = [j \in Ids |->
            IF j \notin Live \ {i} THEN None
            ELSE [iv[j] EXCEPT !.parent = IF @ = i THEN 0 ELSE @]]
       /\ job' = [job EXCEPT ![c] = IF HasOthers(w, i) THEN None
                                    ELSE [op |-> "revoke", who |-> w, step |-> "membership"]]
  /\ UNCHANGED <<born, documents, access, sessions, patches>>

RevokeMembership(c) ==
  /\ job[c] # None /\ job[c].op = "revoke" /\ job[c].step = "membership"
  /\ members' = members \ {job[c].who}
  /\ job' = [job EXCEPT ![c] =
       IF job[c].who \in members THEN [@ EXCEPT !.step = "login"] ELSE None]
  /\ UNCHANGED <<iv, born, saved, transcripts, documents, logins, sessions, patches>>

\* Best effort.
RevokeLogin(c) ==
  /\ job[c] # None /\ job[c].op = "revoke" /\ job[c].step = "login"
  /\ logins' \in {logins, logins \ {job[c].who}}
  /\ job' = [job EXCEPT ![c] = None]
  /\ UNCHANGED <<iv, born, saved, transcripts, documents, members, sessions, patches>>

\* The instance dies, or a call of the request fails.
JobDies(c) ==
  /\ "dies" \in Faults
  /\ job[c] # None
  /\ job' = [job EXCEPT ![c] = None]
  /\ UNCHANGED <<iv, born, saved, transcripts, documents, access, sessions, patches>>

-----------------------------------------------------------------------------
(* Follow-ups, edits, and the next round.                                   *)

Pending(i) == {j \in Live : iv[j].parent = i /\ iv[j].agenda # "approved"}

\* POST followup/draft reads the interview, and the follow-up of it that nobody
\* has approved.
DraftReads(c, i) ==
  /\ job[c] = None
  /\ i \in Live
  /\ iv[i].status = "completed"
  /\ Pending(i) = {} => Room
  /\ job' = [job EXCEPT ![c] =
       [op |-> "draft", id |-> i, row |-> FollowUp(iv[i], i), onto |-> Newest(Pending(i))]]
  /\ UNCHANGED <<iv, born, saved, transcripts, documents, access, sessions, patches>>

\* Writes that follow-up back to a draft, whatever became of it, or inserts one:
\* not for an interview that is deleted.
DraftWrites(c) ==
  /\ job[c] # None /\ job[c].op = "draft"
  /\ LET j == job[c] IN
       \/ /\ j.onto # 0
          /\ ~Locked(j.onto)
          /\ iv' = IF j.onto \in Live THEN [iv EXCEPT ![j.onto].agenda = "draft"] ELSE iv
          /\ UNCHANGED born
       \/ /\ j.onto = 0 /\ j.id \in Live
          /\ born < MaxInterviews
          /\ born' = born + 1
          /\ iv' = [iv EXCEPT ![born + 1] = j.row]
       \/ /\ j.onto = 0 /\ j.id \notin Live
          /\ UNCHANGED <<iv, born>>
  /\ job' = [job EXCEPT ![c] = None]
  /\ UNCHANGED <<saved, transcripts, documents, access, sessions, patches>>

\* PATCH followup.
Approve(i) ==
  /\ i \in Live
  /\ iv[i].kind = "follow_up"
  /\ iv[i].agenda = "draft"
  /\ Overlap("draft") \/ \A j \in Running("draft") : j.onto # i
  /\ iv' = [iv EXCEPT ![i].agenda = "approved"]
  /\ UNCHANGED <<born, saved, transcripts, documents, access, job, sessions, patches>>

\* PATCH /api/interviews/:id: any status, round and client.
Patch(i, status, round, client) ==
  /\ patches < MaxPatches
  /\ i \in Live
  /\ ~Locked(i)
  /\ Overlap("save") \/ ~Saving(i)
  /\ iv' = [iv EXCEPT ![i] =
       [@ EXCEPT !.status = status, !.round = round, !.client = client]]
  /\ iv' # iv
  /\ patches' = patches + 1
  /\ UNCHANGED <<born, saved, transcripts, documents, access, job, sessions>>

Opened(rec) == {r \in Rounds : rec.rounds[r].open}

\* The briefing page plans a refresh round and makes it current; one that is
\* open and empty is planned anew.
PlanRound(client) ==
  /\ index[client] # None
  /\ LET k == index[client]
         last == Newest(Opened(records[k]))
     IN  /\ records[k] # None
         /\ Overlap("merge") \/ \A p \in People : finishing[p] # None => finishing[p].code # k
         /\ last < MaxRound
         /\ last <= 1 \/ records[k].rounds[last].entries # <<>>
         /\ records' = [records EXCEPT ![k] = Begun(@, last + 1)]
  /\ UNCHANGED <<iv, born, saved, transcripts, index, access, job, sessions, patches>>

-----------------------------------------------------------------------------
(* PUT /api/interviews/mine/state.                                          *)

Erasing(i) == \E j \in Running("delete") : j.id = i

\* Before V225: whatever the status.
SaveReads_unchecked(p) ==
  /\ saving[p] = None
  /\ Served(p) # 0
  /\ saved[Served(p)] < MaxSaves
  /\ Overlap("save") \/ finishing[p] = None
  /\ Overlap("erase") \/ ~Erasing(Served(p))
  /\ saving' = [saving EXCEPT ![p] =
       [id |-> Served(p), first |-> iv[Served(p)].status = "invited"]]
  /\ UNCHANGED <<iv, born, saved, transcripts, documents, access, job, finishing, told, patches>>

\* The row is read without a lock: 409 when it is completed.
SaveReads(p) ==
  /\ saving[p] = None
  /\ LET i == Served(p) IN
       /\ i # 0
       /\ iv[i].status # "completed"
       /\ saved[i] < MaxSaves
       /\ Overlap("save") \/ finishing[p] = None
       /\ Overlap("erase") \/ ~Erasing(i)
       /\ saving' = [saving EXCEPT ![p] = [id |-> i, first |-> iv[i].status = "invited"]]
  /\ UNCHANGED <<iv, born, saved, transcripts, documents, access, job, finishing, told, patches>>

\* The first save of an invitation also starts it.
SaveCommits(p) ==
  /\ saving[p] # None
  /\ LET i == saving[p].id IN
       /\ saving[p].first => ~Locked(i)
       /\ saved' = [saved EXCEPT ![i] = @ + 1]
       /\ iv' = IF saving[p].first /\ iv[i] # None
                THEN [iv EXCEPT ![i].status = "in_progress"] ELSE iv
  /\ saving' = [saving EXCEPT ![p] = None]
  /\ UNCHANGED <<born, transcripts, documents, access, job, finishing, told, patches>>

-----------------------------------------------------------------------------
(* POST /api/interviews/mine/complete, one transaction.                     *)

Clash(i) == \E p \in People : finishing[p] # None /\ finishing[p].row.client = iv[i].client

Reading(i, k, rec) ==
  [id |-> i, row |-> iv[i], blob |-> saved[i], code |-> k, record |-> rec,
   named |-> index[iv[i].client] = k, index |-> [index EXCEPT ![iv[i].client] = k]]

\* Takes the row, then reads the session, the index and the record.
FinishReads(p) ==
  /\ finishing[p] = None
  /\ LET i == Newest({j \in Theirs(p) : iv[j].status # "completed"}) IN
       /\ i # 0
       /\ Overlap("save") \/ saving[p] = None
       /\ Overlap("erase") \/ ~Erasing(i)
       /\ Overlap("merge") \/ ~Clash(i)
       /\ \/ \E k \in CodeFor(iv[i].client, i) :
               finishing' = [finishing EXCEPT ![p] = Reading(i, k, records[k])]
          \/ \E k \in Unmatched(iv[i].client, i) :
               finishing' = [finishing EXCEPT ![p] = Reading(i, k, None)]
  /\ UNCHANGED <<iv, born, saved, transcripts, documents, access, job, saving, told, patches>>

EntryOf(f) ==
  [source |-> f.id, who |-> f.row.who, followUp |-> f.row.kind = "follow_up", blob |-> f.blob]

RecordOf(f) == IF f.record = None THEN NewRecord(f.row.client) ELSE f.record

Transcribed(f) == IF f.blob = 0 THEN {} ELSE {[source |-> f.id, blob |-> f.blob]}

Answer(p, what) ==
  /\ told' = [told EXCEPT ![finishing[p].id] =
       [answer |-> what, blob |-> IF what = "ok" THEN finishing[p].blob ELSE 0]]
  /\ finishing' = [finishing EXCEPT ![p] = None]

Stored(f) ==
  [records EXCEPT ![f.code] = Merged(RecordOf(f), f.row, EntryOf(f))]

\* Index and record are written back from what was read; without a session
\* there is nothing to merge.
FinishCommits(p) ==
  /\ finishing[p] # None
  /\ LET f == finishing[p] IN
       /\ iv' = [iv EXCEPT ![f.id].status = "completed"]
       /\ transcripts' = transcripts \cup Transcribed(f)
       /\ IF f.blob = 0 THEN UNCHANGED documents
          ELSE index' = f.index /\ records' = Stored(f)
  /\ Answer(p, "ok")
  /\ UNCHANGED <<born, saved, access, job, saving, patches>>

\* The record the index names cannot be parsed: completed, with its transcript,
\* and said so.
FinishUnmerged(p) ==
  /\ "garbled" \in Faults
  /\ finishing[p] # None
  /\ finishing[p].record # None /\ finishing[p].named
  /\ finishing[p].blob > 0
  /\ iv' = [iv EXCEPT ![finishing[p].id].status = "completed"]
  /\ transcripts' = transcripts \cup Transcribed(finishing[p])
  /\ Answer(p, "failed")
  /\ UNCHANGED <<born, saved, documents, access, job, saving, patches>>

\* A statement fails: the error is caught, but the transaction is aborted, and
\* its COMMIT rolls back what the answer says is kept.
FinishAborts(p) ==
  /\ "aborts" \in Faults
  /\ finishing[p] # None
  /\ Answer(p, "failed")
  /\ UNCHANGED <<iv, born, saved, transcripts, documents, access, job, saving, patches>>

\* The connection or the instance is lost before the commit.
RequestDies(p) ==
  /\ "dies" \in Faults
  /\ saving[p] # None \/ finishing[p] # None
  /\ saving' = [saving EXCEPT ![p] = None]
  /\ finishing' = [finishing EXCEPT ![p] = None]
  /\ UNCHANGED <<iv, born, saved, transcripts, documents, access, job, told, patches>>

-----------------------------------------------------------------------------
Next ==
  \/ \E c \in Consultants :
       \/ \E w \in People, cl \in Clients, r \in 0 .. MaxRound : InviteLogin(c, w, cl, r)
       \/ InviteMember(c)
       \/ InviteGuard(c)
       \/ InviteRow(c)
       \/ \E i \in Ids : DeleteErases(c, i)
       \/ DeleteRow(c)
       \/ RevokeMembership(c)
       \/ RevokeLogin(c)
       \/ \E i \in Ids : DraftReads(c, i)
       \/ DraftWrites(c)
       \/ JobDies(c)
  \/ \E i \in Ids :
       \/ Approve(i)
       \/ \E s \in {"invited", "in_progress", "completed"}, r \in 0 .. MaxRound, cl \in Clients :
            Patch(i, s, r, cl)
  \/ \E cl \in Clients : PlanRound(cl)
  \/ \E p \in People :
       \/ SaveReads(p)
       \/ SaveCommits(p)
       \/ FinishReads(p)
       \/ FinishCommits(p)
       \/ FinishUnmerged(p)
       \/ FinishAborts(p)
       \/ RequestDies(p)

Spec == Init /\ [][Next]_vars

-----------------------------------------------------------------------------
(* Properties.                                                              *)

\* Every handler keeps the shape of the rows and documents it writes.
TypeOK ==
  /\ iv \in [Ids -> Row \cup {None}]
  /\ born \in 0 .. MaxInterviews
  /\ saved \in [Ids -> Nat]
  /\ transcripts \subseteq Transcript
  /\ index \in [Clients -> Codes \cup {None}]
  /\ records \in [Codes -> Record \cup {None}]
  /\ members \subseteq People /\ logins \subseteq People
  /\ job \in [Consultants -> Job \cup {None}]
  /\ saving \in [People -> Save \cup {None}]
  /\ finishing \in [People -> Finishing \cup {None}]
  /\ told \in [Ids -> Answered \cup {None}]
  /\ patches \in Nat

\* Whoever has an interview left can sign in for it (interviews.ts 907-954): an
\* invitation creates the login and the membership before the row, a deletion
\* takes them only when no other interview of theirs is left.
InvitedCanSignIn ==
  \A i \in Live : iv[i].who \in members \cap logins

Counted(k, r) == Range(records[k].rounds[r].entries)

Archived(k, r) == Range(records[k].rounds[r].superseded)

Full(k, r) == Len(records[k].rounds[r].superseded) = ArchiveMost

\* An interviewee who was told that the interview is saved and merged has these
\* answers in an engagement record, counted or archived there, whatever was
\* invited, planned, merged or deleted since; or an archive is full.
AnswersReachTheRecord ==
  \A i \in Ids :
    (told[i] # None /\ told[i].answer = "ok" /\ told[i].blob > 0) =>
      \E k \in Kept, r \in Rounds :
        \/ Full(k, r)
        \/ \E e \in Counted(k, r) \cup Archived(k, r) :
             e.source = i /\ e.blob = told[i].blob

\* One client has one engagement, also when the index has lost it: two would
\* each show a part of the client's maturity (interviews.ts 1714-1769).
OneRecordPerClient ==
  \A k, l \in Kept : records[k].client = records[l].client => k = l

\* A round counts an interview once, and a person's initial interview once:
\* one that was archived gave way to a later one of the same person
\* (engagementMerge.ts 390-453).
CountedOnce ==
  \A k \in Kept, r \in Rounds :
    LET es == records[k].rounds[r].entries
        firsts(p) == {n \in 1 .. Len(es) : es[n].who = p /\ ~es[n].followUp}
    IN  /\ \A m, n \in 1 .. Len(es) : es[m].source = es[n].source => m = n
        /\ \A p \in People : \A m, n \in firsts(p) : m = n
        /\ \A a \in Archived(k, r) : firsts(a.who) # {}

\* The answers a record counts for an interview that still exists are those of
\* a stored transcript, and no transcript is of an interview that was never
\* completed (interviews.ts 1605-1621).
TranscriptsAgree ==
  /\ \A k \in Kept, r \in Rounds : \A e \in Counted(k, r) :
       iv[e.source] # None => [source |-> e.source, blob |-> e.blob] \in transcripts
  /\ \A t \in transcripts : told[t.source] # None

\* A follow-up nobody approved is neither answered nor completed by the
\* interviewee, however drafts and interviews follow each other.
DraftsUntouched ==
  \A i \in Live : iv[i].agenda = "draft" => saved[i] = 0 /\ told[i] = None

\* What an interviewee is served of an engagement never holds the scores and
\* findings of the round their own answers will go to, even when the next round
\* is planned before they are done (interviews.ts 339-373).
OwnRoundWithheld ==
  \A p \in People :
    LET i == Served(p) IN
      (i # 0 /\ iv[i].status # "completed") =>
        \A k \in Kept : records[k].client = iv[i].client =>
          Target(records[k], iv[i]) \notin Settled(records[k], iv[i].round)

\* A deleted interview leaves neither its conversation nor its session state
\* (interviews.ts 888-906).
ErasedIsGone ==
  \A i \in Ids : iv[i] = None => OfInterview(i) = {} /\ saved[i] = 0

\* An interview is completed when its interviewee is told so, and where no failed
\* statement rolls that back also when the merge failed; from then on neither its
\* status nor the answers the consultant relies on change, however a save of
\* another tab and the completion follow each other, until a consultant edits the
\* interview (interviews.ts 1474-1482, 1807).
FinishedStands ==
  [][\A i \in Ids :
       /\ (told'[i] # told[i] /\ (told'[i].answer = "ok" \/ "aborts" \notin Faults)) =>
            iv'[i].status = "completed"
       /\ (/\ told[i] # None /\ iv[i] # None /\ iv[i].status = "completed"
           /\ iv'[i] # None /\ patches' = patches) =>
            iv'[i].status = "completed" /\ saved'[i] = saved[i]]_vars

\* What an interviewee was told is saved is in the one record of the client, is
\* counted once, and is what the stored transcript says.
AnswersKept ==
  TypeOK /\ AnswersReachTheRecord /\ OneRecordPerClient /\ CountedOnce /\ TranscriptsAgree

\* Nobody is served a follow-up that was not approved, or the scores and findings
\* of the round their own answers will go to.
ServedRightly == DraftsUntouched /\ OwnRoundWithheld
============================================================================
