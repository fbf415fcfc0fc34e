---------------------------- MODULE InterviewsProofs ---------------------------
(***************************************************************************)
(* What the requests of Interviews keep, for any number of people,         *)
(* clients, consultants, interviews and rounds.  The shape of the state    *)
(* holds however the requests overlap and fail.  Every other theorem holds *)
(* as long as the overlap that its hypothesis names does not happen: of a  *)
(* draft written anew with its approval, of a save with the completion of  *)
(* the same person, of an invitation with a deletion of the same person,   *)
(* of a deletion with what the interviewee does, of two merges of one      *)
(* client.                                                                 *)
(***************************************************************************)
EXTENDS Interviews, SequenceTheorems, FiniteSetTheorems, WellFoundedInduction, TLAPS

(* An interview that is not created yet has left nothing.                  *)
Fresh ==
  \A i \in Ids : i > born => iv[i] = None /\ saved[i] = 0 /\ told[i] = None

(* What has a parent is a follow-up with an agenda.  A draft is a          *)
(* follow-up, and nobody has been served it, unless it was written anew    *)
(* across its approval.                                                    *)
Drafts ==
  \A i \in Ids : iv[i] # None =>
    /\ iv[i].parent # 0 => iv[i].kind = "follow_up" /\ iv[i].agenda # "none"
    /\ iv[i].agenda = "draft" =>
         iv[i].kind = "follow_up" /\ (Overlap("draft") \/ (saved[i] = 0 /\ told[i] = None))

(* A draft under way knows the person of its interview, and the follow-up  *)
(* it writes back is still a draft.                                        *)
DraftKnows(j) ==
  /\ j.row.kind = "follow_up" /\ j.row.agenda = "draft"
  /\ j.id <= born /\ j.onto <= born
  /\ iv[j.id] # None => iv[j.id].who = j.row.who
  /\ j.onto # 0 /\ iv[j.onto] # None =>
       iv[j.onto].kind = "follow_up" /\ (Overlap("draft") \/ iv[j.onto].agenda = "draft")

DraftsKnow == \A c \in Consultants : job[c] # None /\ job[c].op = "draft" => DraftKnows(job[c])

(* A save is of an interview that was served.                              *)
SavesHold ==
  \A p \in People :
    saving[p] # None =>
      /\ saving[p].id <= born
      /\ iv[saving[p].id] # None => Overlap("draft") \/ iv[saving[p].id].agenda # "draft"

(* A completion holds the row it read, and it is its own person's.         *)
FinishesHold ==
  \A p \in People :
    finishing[p] # None =>
      LET i == finishing[p].id  row == finishing[p].row IN
        /\ iv[i] # None
        /\ iv[i].who = row.who /\ iv[i].client = row.client /\ iv[i].kind = row.kind
        /\ iv[i].agenda # "draft"
        /\ row.who = p

(* A record with an open round has a current one.                          *)
HasCurrent(rec) == rec.current = 0 => \A r \in Rounds : ~rec.rounds[r].open

CurrentRounds ==
  /\ \A k \in Codes : records[k] # None => HasCurrent(records[k])
  /\ \A p \in People :
       finishing[p] # None /\ finishing[p].record # None => HasCurrent(finishing[p].record)

RowsInv == Fresh /\ Drafts /\ DraftsKnow /\ SavesHold /\ FinishesHold /\ CurrentRounds

(* Nobody saves what they are completing, or have completed.               *)
SavesApart ==
  \A p \in People : saving[p] # None =>
    /\ finishing[p] = None
    /\ iv[saving[p].id] # None =>
         iv[saving[p].id].who = p /\ iv[saving[p].id].status # "completed"

(* An invitation under way has given what its interview will need, and     *)
(* nothing of a person's is left or under way when their login is taken.   *)
AccessInv ==
  /\ \A i \in Ids : iv[i] # None => iv[i].who \in members /\ iv[i].who \in logins
  /\ \A c \in Consultants :
       job[c] # None /\ job[c].op = "invite" =>
         job[c].who \in logins /\ (job[c].step # "member" => job[c].who \in members)
  /\ \A c \in Consultants :
       job[c] # None /\ job[c].op = "revoke" =>
         /\ \A i \in Ids : iv[i] # None => iv[i].who # job[c].who
         /\ \A d \in Consultants :
              job[d] # None /\ job[d].op = "invite" => job[d].who # job[c].who

(* A deletion has read every transcript it must erase, and nobody saves or *)
(* finishes that interview.                                                *)
ErasureInv ==
  /\ \A i \in Ids : iv[i] = None => OfInterview(i) = {} /\ saved[i] = 0
  /\ \A p \in People : saving[p] # None => iv[saving[p].id] # None
  /\ \A c \in Consultants :
       job[c] # None /\ job[c].op = "delete" =>
         /\ OfInterview(job[c].id) \subseteq job[c].erased
         /\ \A p \in People :
              /\ saving[p] # None => saving[p].id # job[c].id
              /\ finishing[p] # None => finishing[p].id # job[c].id

(* An index names records of the clients it names them for.                *)
Names(ix, c) == ix[c] # None => records[ix[c]] # None /\ records[ix[c]].client = c

IndexInv == \A c \in Clients : Names(index, c)

MintedInv == \A c \in Clients, i \in Ids : records[<<c, i>>] # None => records[<<c, i>>].client = c

(* A completion still knows the record it read; without one its client has *)
(* none.                                                                   *)
FinishKnows(f) ==
  /\ f.record = records[f.code]
  /\ f.record # None => f.record.client = f.row.client
  /\ f.record = None =>
       /\ f.code = <<f.row.client, f.id>>
       /\ \A k \in Codes : records[k] # None => records[k].client # f.row.client
  /\ f.index[f.row.client] = f.code
  /\ \A c \in Clients \ {f.row.client} : Names(f.index, c)

FinishesKnow ==
  /\ \A p \in People : finishing[p] # None => FinishKnows(finishing[p])
  /\ \A p, q \in People :
       p # q /\ finishing[p] # None /\ finishing[q] # None =>
         finishing[p].row.client # finishing[q].row.client

(* An entry is of the person and kind of the interview it came from.       *)
OfItsRow(e) ==
  /\ e.source <= born
  /\ iv[e.source] # None =>
       e.who = iv[e.source].who /\ (e.followUp <=> iv[e.source].kind = "follow_up")

ErasesItsOwn ==
  \A c \in Consultants :
    job[c] # None /\ job[c].op = "delete" => \A t \in job[c].erased : t.source = job[c].id
--------------------------------------------------------------------------------
(* Maxima and minima of sets of numbers *)

LEMMA MinExists ==
  ASSUME NEW S \in SUBSET Nat, S # {}
  PROVE  \E x \in S : \A y \in S : x =< y
<1> DEFINE R == {ss \in Nat \X Nat : ss[1] < ss[2]}
<1>1. IsWellFoundedOn(R, Nat)
  BY NatLessThanWellFounded DEF OpToRel
<1> HIDE DEF R
<1>2. PICK x \in S : \A y \in S : ~(<<y, x>> \in R)
  BY <1>1, WFMin
<1>3. \A y \in S : <<y, x>> \in R <=> y < x
  BY DEF R
<1>4. \A y \in S : ~(y < x) => x =< y
  OBVIOUS
<1> QED BY <1>2, <1>3, <1>4

LEMMA MinIn ==
  ASSUME NEW S \in SUBSET Nat, S # {}
  PROVE  Min(S) \in S
<1> QED BY MinExists DEF Min

LEMMA NewestIn ==
  ASSUME NEW N \in Nat, NEW S \in SUBSET (1 .. N)
  PROVE  /\ S = {} => Newest(S) = 0
         /\ S # {} => Newest(S) \in S
<1>1. ASSUME S # {} PROVE \E x \in S : \A y \in S : x >= y
  <2> DEFINE T == {N - x : x \in S}
  <2>1. T \in SUBSET Nat
    BY \A x \in S : N - x \in Nat
  <2>0. T # {}
    BY <1>1
  <2>2. PICK m \in T : \A y \in T : m =< y
    BY <2>0, <2>1, MinExists
  <2>3. PICK x \in S : m = N - x
    OBVIOUS
  <2>4. \A y \in S : N - x =< N - y
    BY <2>2, <2>3
  <2> QED BY <2>4
<1> QED BY <1>1 DEF Newest, Max

--------------------------------------------------------------------------------
(* The shape of the state *)

LEMMA Bounds ==
  /\ MaxInterviews \in Nat /\ MaxRound \in Nat /\ MaxRound >= 1
  /\ MaxSaves \in Nat /\ MaxPatches \in Nat
  /\ Ids \subseteq Nat /\ 1 \in Rounds
<1> QED BY BoundAssumption DEF Ids, Rounds

LEMMA NoneDiffers ==
  /\ None \notin Row /\ None \notin Record /\ None \notin Job
  /\ None \notin Save /\ None \notin Finishing /\ None \notin Answered
<1> QED BY NoneIsNoRecord

LEMMA RoomIsLeft == Room /\ born \in Nat => born < MaxInterviews
<1> DEFINE I == {d \in Consultants : job[d] # None /\ Inserts(job[d])}
<1>1. IsFiniteSet(Consultants) /\ I \subseteq Consultants
  BY BoundAssumption
<1>2. Cardinality(I) \in Nat
  BY <1>1, FS_Subset, FS_CardinalityType
<1>3. Room <=> born + Cardinality(I) < MaxInterviews
  BY DEF Room
<1> HIDE DEF I
<1> QED BY <1>2, <1>3, Bounds

LEMMA NewRecordIs ==
  ASSUME NEW c \in Clients
  PROVE  /\ NewRecord(c) \in Record /\ NewRecord(c).client = c
         /\ \A r \in Rounds : NewRecord(c).rounds[r] = NoRound
<1>1. NoRound \in RoundRecord
  <2>1. <<>> \in Seq(Entry) /\ Len(<<>>) = 0
    OBVIOUS
  <2> QED BY <2>1, BoundAssumption DEF NoRound, RoundRecord
<1> QED BY <1>1, Bounds DEF NewRecord, Record

LEMMA EntryType ==
  ASSUME NEW f \in Finishing
  PROVE  /\ EntryOf(f) \in Entry
         /\ RecordOf(f) \in Record
         /\ Transcribed(f) \in SUBSET Transcript
<1>1. f.id \in Ids /\ f.row \in Row /\ f.blob \in Nat /\ f.record \in Record \cup {None}
  BY DEF Finishing
<1>2. EntryOf(f) \in Entry
  BY <1>1 DEF EntryOf, Entry, Row
<1>3. NewRecord(f.row.client) \in Record
  BY <1>1, NewRecordIs DEF Row
<1>4. RecordOf(f) \in Record
  BY <1>1, <1>3 DEF RecordOf
<1>5. Transcribed(f) \in SUBSET Transcript
  BY <1>1 DEF Transcribed, Transcript
<1> QED BY <1>2, <1>4, <1>5

(* An archive keeps what it has until it is full, and stays full.          *)
LEMMA ShelvedIs ==
  ASSUME NEW s \in Seq(Entry), Len(s) =< ArchiveMost, NEW e \in Entry
  PROVE  /\ Shelved(s, e) \in Seq(Entry) /\ Len(Shelved(s, e)) =< ArchiveMost
         /\ \A x \in Range(Shelved(s, e)) : x = e \/ x \in Range(s)
         /\ e \in Range(Shelved(s, e))
         /\ Len(s) < ArchiveMost => Range(s) \subseteq Range(Shelved(s, e))
         /\ Len(s) = ArchiveMost => Len(Shelved(s, e)) = ArchiveMost
<1>1. ArchiveMost \in Nat \ {0} /\ Len(s) \in Nat
  BY BoundAssumption, LenProperties
<1>2. ASSUME NEW q \in Seq(Entry)
      PROVE  /\ Append(q, e) \in Seq(Entry) /\ Len(Append(q, e)) = Len(q) + 1
             /\ Range(Append(q, e)) = Range(q) \cup {e}
  <2> DEFINE a == Append(q, e)
  <2>1. /\ a \in Seq(Entry) /\ Len(a) = Len(q) + 1 /\ Len(q) \in Nat
        /\ a[Len(q) + 1] = e /\ \A n \in 1 .. Len(q) : a[n] = q[n]
    BY AppendProperties, LenProperties
  <2>2. Range(a) = {a[n] : n \in 1 .. Len(a)} /\ Range(q) = {q[n] : n \in 1 .. Len(q)}
    BY <2>1, RangeEquality
  <2> HIDE DEF a
  <2>3. \A n \in 1 .. Len(a) : n \in 1 .. Len(q) \/ n = Len(q) + 1
    BY <2>1
  <2>4. 1 .. Len(q) \subseteq 1 .. Len(a) /\ Len(q) + 1 \in 1 .. Len(a)
    BY <2>1
  <2>5. Range(a) \subseteq Range(q) \cup {e}
    BY <2>1, <2>2, <2>3
  <2>6. Range(q) \cup {e} \subseteq Range(a)
    BY <2>1, <2>2, <2>4
  <2> QED BY <2>1, <2>5, <2>6 DEF a
<1>3. CASE Len(s) < ArchiveMost
  <2>1. Shelved(s, e) = Append(s, e)
    BY <1>3 DEF Shelved
  <2>2. Append(s, e) \in Seq(Entry) /\ Len(Append(s, e)) = Len(s) + 1
        /\ Range(Append(s, e)) = Range(s) \cup {e}
    BY <1>2
  <2> QED BY <1>1, <1>3, <2>1, <2>2
<1>4. CASE ~(Len(s) < ArchiveMost)
  <2> DEFINE q == Tail(s)
  <2>1. s # <<>> /\ Len(s) = ArchiveMost
    BY <1>1, <1>4
  <2>2. q \in Seq(Entry) /\ Len(q) = Len(s) - 1 /\ \A n \in 1 .. Len(q) : q[n] = s[n + 1]
    BY <2>1, HeadTailProperties
  <2>3. Range(q) = {q[n] : n \in 1 .. Len(q)} /\ Range(s) = {s[n] : n \in 1 .. Len(s)}
    BY <2>2, RangeEquality
  <2>4. Shelved(s, e) = Append(q, e)
    BY <1>4 DEF Shelved
  <2> HIDE DEF q
  <2>5. \A n \in 1 .. Len(q) : n + 1 \in 1 .. Len(s)
    BY <1>1, <2>2
  <2>6. Range(q) \subseteq Range(s)
    BY <2>2, <2>3, <2>5
  <2>7. Append(q, e) \in Seq(Entry) /\ Len(Append(q, e)) = Len(q) + 1
        /\ Range(Append(q, e)) = Range(q) \cup {e}
    BY <1>2, <2>2
  <2> QED BY <1>1, <2>1, <2>2, <2>4, <2>6, <2>7
<1> QED BY <1>3, <1>4

(* The entries a new one replaces, and what is left of the others.         *)
At(round, f) == {n \in 1 .. Len(round.entries) : Replaces(round.entries[n], f)}

LEMMA UpsertedIs ==
  ASSUME NEW round \in RoundRecord, NEW f \in Entry
  PROVE  /\ Upserted(round, f) \in RoundRecord
         /\ At(round, f) = {} =>
              /\ Upserted(round, f).entries = Append(round.entries, f)
              /\ Upserted(round, f).superseded = round.superseded
         /\ At(round, f) # {} =>
              \E n \in At(round, f) :
                /\ Upserted(round, f).entries = [round.entries EXCEPT ![n] = f]
                /\ Upserted(round, f).superseded =
                     IF round.entries[n].source = f.source THEN round.superseded
                     ELSE Shelved(round.superseded, round.entries[n])
<1>1. /\ round.open \in BOOLEAN /\ round.entries \in Seq(Entry)
      /\ round.superseded \in Seq(Entry) /\ Len(round.superseded) =< ArchiveMost
      /\ round = [open |-> round.open, entries |-> round.entries, superseded |-> round.superseded]
  BY DEF RoundRecord
<1>2. Len(round.entries) \in Nat
  BY <1>1, LenProperties
<1>3. CASE At(round, f) = {}
  <2>1. Upserted(round, f) = [round EXCEPT !.open = TRUE, !.entries = Append(@, f)]
    BY <1>3 DEF Upserted, At
  <2>2. Append(round.entries, f) \in Seq(Entry)
    BY <1>1, AppendProperties
  <2>3. Upserted(round, f) =
          [open |-> TRUE, entries |-> Append(round.entries, f), superseded |-> round.superseded]
    BY <1>1, <2>1
  <2> QED BY <1>1, <1>3, <2>2, <2>3 DEF RoundRecord
<1>4. CASE At(round, f) # {}
  <2> DEFINE n == Min(At(round, f))
             old == round.superseded
             new == IF round.entries[n].source = f.source THEN old
                    ELSE Shelved(old, round.entries[n])
             es == [round.entries EXCEPT ![n] = f]
  <2>0. At(round, f) \in SUBSET Nat
    BY <1>2 DEF At
  <2>1. n \in At(round, f)
    BY <2>0, <1>4, MinIn
  <2>2. n \in 1 .. Len(round.entries) /\ round.entries[n] \in Entry
    BY <1>1, <2>1, ElementOfSeq DEF At
  <2>3. es \in Seq(Entry)
    BY <1>1, <2>2, ExceptSeq
  <2>4. Upserted(round, f) = [round EXCEPT !.entries[n] = f, !.superseded = new]
    BY <1>4 DEF Upserted, At
  <2>5. Upserted(round, f) = [open |-> round.open, entries |-> es, superseded |-> new]
    <3> HIDE DEF new, n
    <3> QED BY <1>1, <2>4
  <2>6. new \in Seq(Entry) /\ Len(new) =< ArchiveMost
    BY <1>1, <2>2, ShelvedIs
  <2> HIDE DEF es, new, n
  <2>7. Upserted(round, f) \in RoundRecord
    BY <1>1, <2>3, <2>5, <2>6 DEF RoundRecord
  <2>8. Upserted(round, f).entries = es /\ Upserted(round, f).superseded = new
    BY <2>5
  <2>9. Upserted(round, f).entries = [round.entries EXCEPT ![n] = f]
    BY <2>8 DEF es
  <2>10. Upserted(round, f).superseded = IF round.entries[n].source = f.source
           THEN round.superseded ELSE Shelved(round.superseded, round.entries[n])
    BY <2>8 DEF new
  <2> QED BY <1>4, <2>1, <2>7, <2>9, <2>10
<1> QED BY <1>3, <1>4

LEMMA MergedIs ==
  ASSUME NEW rec \in Record, NEW row \in Row, NEW f \in Entry
  PROVE  LET t == Target(rec, row) IN
         /\ t \in Rounds
         /\ Merged(rec, row, f) \in Record
         /\ Merged(rec, row, f).client = rec.client
         /\ Merged(rec, row, f).rounds = [rec.rounds EXCEPT ![t] = Upserted(rec.rounds[t], f)]
         /\ Merged(rec, row, f).current = IF rec.rounds[t].open THEN rec.current ELSE t
<1> DEFINE t == Target(rec, row)
<1>1. /\ rec.client \in Clients /\ rec.rounds \in [Rounds -> RoundRecord]
      /\ rec.current \in 0 .. MaxRound
      /\ rec = [client |-> rec.client, rounds |-> rec.rounds, current |-> rec.current]
  BY DEF Record
<1>2. row.round \in 0 .. MaxRound
  BY DEF Row
<1>3. t \in Rounds
  BY <1>1, <1>2, Bounds DEF Target, Rounds
<1> DEFINE u == Upserted(rec.rounds[t], f)
           cur == IF rec.rounds[t].open THEN rec.current ELSE t
<1>4. u \in RoundRecord
  BY <1>1, <1>3, UpsertedIs
<1>5. Merged(rec, row, f) = [rec EXCEPT !.rounds[t] = u, !.current = cur]
  BY DEF Merged
<1>6. cur \in 0 .. MaxRound
  BY <1>1, <1>3 DEF Rounds
<1> HIDE DEF t, u, cur
<1>7. Merged(rec, row, f) =
        [client |-> rec.client, rounds |-> [rec.rounds EXCEPT ![t] = u], current |-> cur]
  BY <1>1, <1>5
<1>8. [rec.rounds EXCEPT ![t] = u] \in [Rounds -> RoundRecord]
  BY <1>1, <1>3, <1>4
<1>9. Merged(rec, row, f) \in Record
  BY <1>1, <1>6, <1>7, <1>8 DEF Record
<1> QED BY <1>3, <1>7, <1>9 DEF t, u, cur

LEMMA BegunIs ==
  ASSUME NEW rec \in Record, NEW r \in Rounds
  PROVE  /\ Begun(rec, r) \in Record
         /\ Begun(rec, r).client = rec.client /\ Begun(rec, r).current = r
         /\ \A q \in Rounds :
              /\ Begun(rec, r).rounds[q].entries = rec.rounds[q].entries
              /\ Begun(rec, r).rounds[q].superseded = rec.rounds[q].superseded
<1> DEFINE one == [rec.rounds[r] EXCEPT !.open = TRUE]
           rs == [rec.rounds EXCEPT ![r] = one]
<1>1. /\ rec.client \in Clients /\ rec.rounds \in [Rounds -> RoundRecord]
      /\ rec.current \in 0 .. MaxRound
      /\ rec = [client |-> rec.client, rounds |-> rec.rounds, current |-> rec.current]
  BY DEF Record
<1>2. /\ one \in RoundRecord
      /\ one.entries = rec.rounds[r].entries /\ one.superseded = rec.rounds[r].superseded
  <2>1. rec.rounds[r] \in RoundRecord
    BY <1>1
  <2> QED BY <2>1 DEF RoundRecord
<1>3. rs = [rec.rounds EXCEPT ![r].open = TRUE]
  OBVIOUS
<1> HIDE DEF one
<1>4. /\ rs \in [Rounds -> RoundRecord] /\ rs[r] = one
      /\ \A q \in Rounds \ {r} : rs[q] = rec.rounds[q]
  BY <1>1, <1>2
<1> HIDE DEF rs
<1>5. Begun(rec, r) = [rec EXCEPT !.rounds = rs, !.current = r]
  BY <1>3 DEF Begun
<1>6. Begun(rec, r) = [client |-> rec.client, rounds |-> rs, current |-> r]
  BY <1>1, <1>5
<1>7. Begun(rec, r) \in Record
  BY <1>1, <1>4, <1>6 DEF Record, Rounds
<1> QED BY <1>2, <1>4, <1>6, <1>7

LEMMA TypeInit == Init => TypeOK
<1> SUFFICES ASSUME Init PROVE TypeOK
  OBVIOUS
<1>1. PICK opened \in SUBSET Clients : \E listed \in SUBSET opened :
        /\ index = [c \in Clients |-> IF c \in listed THEN c ELSE None]
        /\ records = [k \in Codes |-> IF k \in opened THEN Begun(NewRecord(k), 1) ELSE None]
  BY DEF Init
<1>2. index \in [Clients -> Codes \cup {None}]
  BY <1>1 DEF Codes
<1>3. \A k \in opened : Begun(NewRecord(k), 1) \in Record
  BY NewRecordIs, BegunIs, Bounds
<1>4. records \in [Codes -> Record \cup {None}]
  BY <1>1, <1>3
<1> QED BY <1>2, <1>4, Bounds DEF Init, TypeOK

LEMMA CodeType ==
  ASSUME TypeOK, NEW c \in Clients, NEW i \in Ids
  PROVE  CodeFor(c, i) \cup Unmatched(c, i) \subseteq Codes
<1>1. index[c] \in Codes \cup {None}
  BY DEF TypeOK
<1>2. <<c, i>> \in Codes
  BY DEF Codes
<1> QED BY <1>1, <1>2 DEF CodeFor, Unmatched, Kept

(* One lemma for each group of actions.                                    *)
LEMMA InviteType ==
  ASSUME TypeOK, NEW c \in Consultants,
         \/ \E w \in People, cl \in Clients, r \in 0 .. MaxRound : InviteLogin(c, w, cl, r)
         \/ InviteMember(c) \/ InviteGuard(c) \/ InviteRow(c)
  PROVE  TypeOK'
<1> USE Bounds, NoneDiffers
<1>1. ASSUME NEW w \in People, NEW cl \in Clients, NEW r \in 0 .. MaxRound, InviteLogin(c, w, cl, r)
      PROVE  TypeOK'
  <2>1. [op |-> "invite", who |-> w, client |-> cl, round |-> r, step |-> "member"] \in Job
    BY DEF Job
  <2> QED BY <1>1, <2>1 DEF InviteLogin, TypeOK, documents, sessions
<1>2. ASSUME job[c] # None, job[c].op = "invite"
      PROVE  /\ job[c].who \in People /\ job[c].client \in Clients /\ job[c].round \in 0 .. MaxRound
             /\ [job[c] EXCEPT !.step = "guard"] \in Job /\ [job[c] EXCEPT !.step = "row"] \in Job
  <2>1. job[c] \in Job
    BY <1>2 DEF TypeOK
  <2> QED BY <1>2, <2>1 DEF Job
<1>3. CASE InviteMember(c)
  BY <1>2, <1>3 DEF InviteMember, TypeOK, documents, sessions
<1>4. CASE InviteGuard(c)
  BY <1>2, <1>4 DEF InviteGuard, TypeOK, documents, sessions, access
<1>5. CASE InviteRow(c)
  <2>1. Row0(job[c].who, job[c].client, job[c].round) \in Row
    BY <1>2, <1>5 DEF InviteRow, Row0, Row
  <2>2. born + 1 \in Ids /\ born + 1 \in 0 .. MaxInterviews
    BY <1>5 DEF InviteRow, TypeOK, Ids
  <2> QED BY <1>5, <2>1, <2>2 DEF InviteRow, TypeOK, documents, sessions, access
<1> QED BY <1>1, <1>3, <1>4, <1>5

LEMMA DeleteType ==
  ASSUME TypeOK, NEW c \in Consultants,
         \/ \E i \in Ids : DeleteErases(c, i)
         \/ DeleteRow(c) \/ RevokeMembership(c) \/ RevokeLogin(c) \/ JobDies(c)
  PROVE  TypeOK'
<1> USE Bounds, NoneDiffers
<1>1. ASSUME NEW i \in Ids, DeleteErases(c, i) PROVE TypeOK'
  <2>1. iv[i] \in Row
    BY <1>1 DEF DeleteErases, Live, TypeOK
  <2>2. iv[i].who \in People /\ Erased(i) \in SUBSET Transcript
    BY <2>1 DEF Row, Erased, OfInterview, TypeOK
  <2>3. [op |-> "delete", id |-> i, who |-> iv[i].who, erased |-> Erased(i)] \in Job
    BY <2>2 DEF Job
  <2> QED BY <1>1, <2>3 DEF DeleteErases, TypeOK, documents, sessions, access
<1>2. CASE DeleteRow(c)
  <2>1. job[c] \in Job
    BY <1>2 DEF DeleteRow, TypeOK
  <2>2. job[c].id \in Ids /\ job[c].who \in People /\ job[c].erased \in SUBSET Transcript
    BY <1>2, <2>1 DEF DeleteRow, Job
  <2>3. [op |-> "revoke", who |-> job[c].who, step |-> "membership"] \in Job
    BY <2>2 DEF Job
  <2>4. \A j \in Live \ {job[c].id} :
          [iv[j] EXCEPT !.parent = IF @ = job[c].id THEN 0 ELSE @] \in Row
    BY DEF Live, TypeOK, Row
  <2>5. iv' \in [Ids -> Row \cup {None}]
    BY <1>2, <2>4 DEF DeleteRow
  <2>6. job' \in [Consultants -> Job \cup {None}]
    BY <1>2, <2>3 DEF DeleteRow, TypeOK
  <2>7. saved' \in [Ids -> Nat] /\ transcripts' \subseteq Transcript
    BY <1>2, <2>2 DEF DeleteRow, TypeOK
  <2> QED BY <1>2, <2>5, <2>6, <2>7 DEF DeleteRow, TypeOK, documents, sessions, access
<1>3. ASSUME job[c] # None, job[c].op = "revoke"
      PROVE  job[c].who \in People /\ [job[c] EXCEPT !.step = "login"] \in Job
  <2>1. job[c] \in Job
    BY <1>3 DEF TypeOK
  <2> QED BY <1>3, <2>1 DEF Job
<1>4. CASE RevokeMembership(c)
  BY <1>3, <1>4 DEF RevokeMembership, TypeOK, documents, sessions
<1>5. CASE RevokeLogin(c)
  BY <1>5 DEF RevokeLogin, TypeOK, documents, sessions
<1>6. CASE JobDies(c)
  BY <1>6 DEF JobDies, TypeOK, documents, sessions, access
<1> QED BY <1>1, <1>2, <1>4, <1>5, <1>6

LEMMA DraftType ==
  ASSUME TypeOK, NEW c \in Consultants, (\E i \in Ids : DraftReads(c, i)) \/ DraftWrites(c)
  PROVE  TypeOK'
<1> USE Bounds, NoneDiffers
<1>1. ASSUME NEW i \in Ids, DraftReads(c, i) PROVE TypeOK'
  <2> DEFINE new == [op |-> "draft", id |-> i, row |-> FollowUp(iv[i], i), onto |-> Newest(Pending(i))]
  <2>1. FollowUp(iv[i], i) \in Row
    <3>1. iv[i] \in Row
      BY <1>1 DEF DraftReads, Live, TypeOK
    <3> QED BY <3>1 DEF FollowUp, Row
  <2>2. Newest(Pending(i)) \in Ids \cup {0}
    <3> DEFINE S == Pending(i)
    <3>1. S \in SUBSET (1 .. MaxInterviews)
      BY DEF Pending, Live, Ids
    <3>2. (S = {} => Newest(S) = 0) /\ (S # {} => Newest(S) \in S)
      BY <3>1, NewestIn
    <3> HIDE DEF S
    <3>3. Newest(S) \in Ids \cup {0}
      BY <3>1, <3>2 DEF Ids
    <3> QED BY <3>3 DEF S
  <2>3. new \in Job
    BY <2>1, <2>2 DEF Job
  <2>4. job' = [job EXCEPT ![c] = new]
    BY <1>1 DEF DraftReads
  <2> HIDE DEF new
  <2> QED BY <1>1, <2>3, <2>4 DEF DraftReads, TypeOK, documents, sessions, access
<1>2. CASE DraftWrites(c)
  <2>1. job[c] \in Job /\ job[c].op = "draft"
    BY <1>2 DEF DraftWrites, TypeOK
  <2>2. job[c].id \in Ids /\ job[c].row \in Row /\ job[c].onto \in Ids \cup {0}
    BY <2>1 DEF Job
  <2>3. job[c].onto \in Live => [iv[job[c].onto] EXCEPT !.agenda = "draft"] \in Row
    BY DEF Live, TypeOK, Row
  <2>4. /\ job' = [job EXCEPT ![c] = None]
        /\ UNCHANGED <<saved, transcripts, documents, access, sessions, patches>>
    BY <1>2 DEF DraftWrites
  <2>5. iv' \in [Ids -> Row \cup {None}] /\ born' \in 0 .. MaxInterviews
    <3>1. CASE iv' = (IF job[c].onto \in Live THEN [iv EXCEPT ![job[c].onto].agenda = "draft"] ELSE iv)
               /\ UNCHANGED born
      BY <2>2, <2>3, <3>1 DEF TypeOK, Live
    <3>2. CASE /\ born < MaxInterviews /\ born' = born + 1
               /\ iv' = [iv EXCEPT ![born + 1] = job[c].row]
      <4>1. born + 1 \in Ids /\ born + 1 \in 0 .. MaxInterviews
        BY <3>2 DEF TypeOK, Ids
      <4> QED BY <2>2, <3>2, <4>1 DEF TypeOK
    <3>3. CASE UNCHANGED <<iv, born>>
      BY <3>3 DEF TypeOK
    <3> QED BY <1>2, <3>1, <3>2, <3>3 DEF DraftWrites
  <2> QED BY <2>4, <2>5 DEF TypeOK, documents, sessions, access
<1> QED BY <1>1, <1>2

LEMMA ConsultantType ==
  ASSUME TypeOK,
         \/ \E i \in Ids :
              \/ Approve(i)
              \/ \E s \in {"invited", "in_progress", "completed"}, r \in 0 .. MaxRound, cl \in Clients :
                   Patch(i, s, r, cl)
         \/ \E cl \in Clients : PlanRound(cl)
  PROVE  TypeOK'
<1> USE Bounds, NoneDiffers
<1>1. ASSUME NEW i \in Live PROVE iv[i] \in Row
  BY <1>1 DEF Live, TypeOK
<1>3. ASSUME NEW i \in Ids, Approve(i) PROVE TypeOK'
  <2>1. [iv[i] EXCEPT !.agenda = "approved"] \in Row
    BY <1>1, <1>3 DEF Approve, Row
  <2> QED BY <1>3, <2>1 DEF Approve, TypeOK, documents, sessions, access
<1>4. ASSUME NEW i \in Ids, NEW s \in {"invited", "in_progress", "completed"},
             NEW r \in 0 .. MaxRound, NEW cl \in Clients, Patch(i, s, r, cl)
      PROVE TypeOK'
  <2>1. [iv[i] EXCEPT !.status = s, !.round = r, !.client = cl] \in Row
    BY <1>1, <1>4 DEF Patch, Row
  <2>2. iv' \in [Ids -> Row \cup {None}]
    BY <1>4, <2>1 DEF Patch, TypeOK
  <2>3. patches' \in Nat
    <3>1. patches \in Nat /\ patches' = patches + 1
      BY <1>4 DEF Patch, TypeOK
    <3> QED BY <3>1
  <2>4. UNCHANGED <<born, saved, transcripts, documents, access, job, sessions>>
    BY <1>4 DEF Patch
  <2> QED BY <2>2, <2>3, <2>4 DEF TypeOK, documents, sessions, access
<1>5. ASSUME NEW cl \in Clients, PlanRound(cl) PROVE TypeOK'
  <2> DEFINE k == index[cl]
             last == Newest(Opened(records[k]))
  <2>1. k \in Codes /\ records[k] \in Record
    BY <1>5 DEF PlanRound, TypeOK
  <2>2. last \in Nat
    <3>1. Opened(records[k]) \in SUBSET (1 .. MaxRound)
      BY DEF Opened, Rounds
    <3> QED BY <3>1, NewestIn
  <2>3. last + 1 \in Rounds
    <3>1. last < MaxRound
      BY <1>5 DEF PlanRound
    <3> QED BY <2>2, <3>1 DEF Rounds
  <2>4. Begun(records[k], last + 1) \in Record
    BY <2>1, <2>3, BegunIs
  <2>5. records' \in [Codes -> Record \cup {None}]
    BY <1>5, <2>1, <2>4 DEF PlanRound, TypeOK
  <2> QED BY <1>5, <2>5 DEF PlanRound, TypeOK, sessions, access
<1> QED BY <1>3, <1>4, <1>5

LEMMA SaveType ==
  ASSUME TypeOK, NEW p \in People, SaveReads(p) \/ SaveCommits(p) \/ RequestDies(p)
  PROVE  TypeOK'
<1> USE Bounds, NoneDiffers
<1>1. CASE SaveReads(p)
  <2> DEFINE i == Served(p)
  <2>1. i \in Ids
    <3>1. Theirs(p) \in SUBSET (1 .. MaxInterviews)
      BY DEF Theirs, Live, Ids
    <3>2. Theirs(p) # {}
      BY <1>1, <3>1, NewestIn DEF SaveReads, Served
    <3> QED BY <3>1, <3>2, NewestIn DEF Served, Ids
  <2>2. [id |-> i, first |-> iv[i].status = "invited"] \in Save
    BY <2>1 DEF Save
  <2>3. saving' \in [People -> Save \cup {None}]
    BY <1>1, <2>2 DEF SaveReads, TypeOK
  <2> QED BY <1>1, <2>3 DEF SaveReads, TypeOK, documents, access
<1>2. CASE SaveCommits(p)
  <2> DEFINE i == saving[p].id
  <2>1. i \in Ids
    BY <1>2 DEF SaveCommits, TypeOK, Save
  <2>2. iv[i] # None => [iv[i] EXCEPT !.status = "in_progress"] \in Row
    BY <2>1 DEF TypeOK, Row
  <2>3. iv' = IF saving[p].first /\ iv[i] # None
              THEN [iv EXCEPT ![i].status = "in_progress"] ELSE iv
    BY <1>2 DEF SaveCommits
  <2>4. iv' \in [Ids -> Row \cup {None}]
    BY <2>1, <2>2, <2>3 DEF TypeOK
  <2>5. saved' \in [Ids -> Nat]
    BY <1>2, <2>1 DEF SaveCommits, TypeOK
  <2>6. saving' \in [People -> Save \cup {None}]
    BY <1>2 DEF SaveCommits, TypeOK
  <2> QED BY <1>2, <2>4, <2>5, <2>6 DEF SaveCommits, TypeOK, documents, access
<1>3. CASE RequestDies(p)
  BY <1>3 DEF RequestDies, TypeOK, documents, access
<1> QED BY <1>1, <1>2, <1>3

(* The interview a completion takes is one of its person's.                *)
Unfinished(p) == {j \in Theirs(p) : iv[j].status # "completed"}

LEMMA FinishTakes ==
  ASSUME TypeOK, NEW p \in People, FinishReads(p)
  PROVE  LET i == Newest(Unfinished(p))  f == finishing'[p] IN
         /\ i \in Ids /\ iv[i] \in Row /\ iv[i] # None /\ iv[i].who = p /\ Eligible(iv[i])
         /\ Overlap("erase") \/ ~Erasing(i)
         /\ Overlap("merge") \/ ~Clash(i)
         /\ finishing' = [finishing EXCEPT ![p] = f]
         /\ f \in Finishing /\ f.id = i /\ f.row = iv[i] /\ f.code \in Codes
         /\ f.record \in {records[f.code], None}
         /\ f.index = [index EXCEPT ![iv[i].client] = f.code]
         /\ "skipped" \notin Faults =>
              f.code \in CodeFor(iv[i].client, i) /\ f.record = records[f.code]
<1> DEFINE i == Newest(Unfinished(p))
<1>1. Unfinished(p) \in SUBSET (1 .. MaxInterviews)
  BY DEF Unfinished, Theirs, Live, Ids
<1>2. i # 0
  BY DEF FinishReads, Unfinished
<1>3. i \in Unfinished(p)
  BY <1>1, <1>2, NewestIn, Bounds
<1>5. /\ Overlap("erase") \/ ~Erasing(i)
      /\ Overlap("merge") \/ ~Clash(i)
      /\ \/ \E k \in CodeFor(iv[i].client, i) :
              finishing' = [finishing EXCEPT ![p] = Reading(i, k, records[k])]
         \/ \E k \in Unmatched(iv[i].client, i) :
              finishing' = [finishing EXCEPT ![p] = Reading(i, k, None)]
  BY DEF FinishReads, Unfinished
<1> HIDE DEF i
<1>4. i \in Ids /\ iv[i] \in Row /\ iv[i] # None /\ iv[i].who = p /\ Eligible(iv[i])
  BY <1>3 DEF Unfinished, Theirs, Live, TypeOK
<1>6. iv[i].client \in Clients
  BY <1>4 DEF Row
<1>7. PICK k \in Codes, rec \in Record \cup {None} :
        /\ finishing' = [finishing EXCEPT ![p] = Reading(i, k, rec)]
        /\ rec \in {records[k], None}
        /\ "skipped" \notin Faults => k \in CodeFor(iv[i].client, i) /\ rec = records[k]
  <2>1. \A k \in CodeFor(iv[i].client, i) \cup Unmatched(iv[i].client, i) : k \in Codes
    BY <1>4, <1>6, CodeType
  <2>2. \A k \in Codes : records[k] \in Record \cup {None}
    BY DEF TypeOK
  <2>3. "skipped" \notin Faults => Unmatched(iv[i].client, i) = {}
    BY DEF Unmatched
  <2> QED BY <1>5, <2>1, <2>2, <2>3
<1> DEFINE f == Reading(i, k, rec)
<1>8. /\ f \in Finishing /\ f.id = i /\ f.row = iv[i] /\ f.code = k /\ f.record = rec
      /\ f.index = [index EXCEPT ![iv[i].client] = f.code]
  <2>1. saved[i] \in Nat /\ [index EXCEPT ![iv[i].client] = k] \in [Clients -> Codes \cup {None}]
        /\ (index[iv[i].client] = k) \in BOOLEAN
    BY <1>4, <1>6 DEF TypeOK
  <2> QED BY <1>4, <2>1 DEF Reading, Finishing
<1> HIDE DEF f
<1>9. finishing' = [finishing EXCEPT ![p] = f] /\ finishing'[p] = f
  BY <1>7 DEF TypeOK, f
<1> QED BY <1>4, <1>5, <1>7, <1>8, <1>9 DEF i

LEMMA FinishType ==
  ASSUME TypeOK, FinishesHold,
         NEW p \in People, FinishReads(p) \/ FinishCommits(p) \/ FinishUnmerged(p) \/ FinishAborts(p)
  PROVE  TypeOK'
<1> USE Bounds, NoneDiffers
<1>1. CASE FinishReads(p)
  <2>1. finishing' = [finishing EXCEPT ![p] = finishing'[p]] /\ finishing'[p] \in Finishing
    BY <1>1, FinishTakes
  <2>2. finishing' \in [People -> Finishing \cup {None}]
    BY <2>1 DEF TypeOK
  <2> QED BY <1>1, <2>2 DEF FinishReads, TypeOK, documents, access
<1>2. ASSUME finishing[p] # None
      PROVE  /\ finishing[p] \in Finishing /\ finishing[p].id \in Ids
             /\ [iv EXCEPT ![finishing[p].id].status = "completed"] \in [Ids -> Row \cup {None}]
             /\ transcripts \cup Transcribed(finishing[p]) \subseteq Transcript
             /\ \A what \in {"ok", "failed"} :
                  Answer(p, what) => told' \in [Ids -> Answered \cup {None}]
  <2>1. finishing[p] \in Finishing
    BY <1>2 DEF TypeOK
  <2>2. finishing[p].id \in Ids /\ finishing[p].blob \in Nat
    BY <2>1 DEF Finishing
  <2>3. iv[finishing[p].id] \in Row
    BY <1>2, <2>2 DEF FinishesHold, TypeOK
  <2>4. [iv[finishing[p].id] EXCEPT !.status = "completed"] \in Row
    BY <2>3 DEF Row
  <2>5. ASSUME NEW what \in {"ok", "failed"}, Answer(p, what)
        PROVE  told' \in [Ids -> Answered \cup {None}]
    <3>1. [answer |-> what, blob |-> IF what = "ok" THEN finishing[p].blob ELSE 0] \in Answered
      BY <2>2 DEF Answered
    <3> QED BY <2>2, <2>5, <3>1 DEF Answer, TypeOK
  <2> QED BY <2>1, <2>2, <2>4, <2>5, EntryType DEF TypeOK
<1>3. CASE FinishCommits(p)
  <2> DEFINE f == finishing[p]
  <2>1. f # None
    BY <1>3 DEF FinishCommits
  <2>2. f \in Finishing
    BY <1>2, <2>1
  <2>3. f.code \in Codes /\ f.row \in Row /\ f.index \in [Clients -> Codes \cup {None}]
    BY <2>2 DEF Finishing
  <2>4. Merged(RecordOf(f), f.row, EntryOf(f)) \in Record
    BY <2>2, <2>3, EntryType, MergedIs
  <2>5. Stored(f) \in [Codes -> Record \cup {None}]
    BY <2>3, <2>4 DEF Stored, TypeOK
  <2>6. index' \in [Clients -> Codes \cup {None}] /\ records' \in [Codes -> Record \cup {None}]
    BY <1>3, <2>3, <2>5 DEF FinishCommits, TypeOK, documents
  <2>7. /\ iv' \in [Ids -> Row \cup {None}] /\ transcripts' \subseteq Transcript
        /\ told' \in [Ids -> Answered \cup {None}]
        /\ finishing' \in [People -> Finishing \cup {None}]
    BY <1>2, <1>3, <2>1 DEF FinishCommits, Answer, TypeOK
  <2> QED BY <1>3, <2>6, <2>7 DEF FinishCommits, TypeOK, access
<1>4. CASE FinishUnmerged(p)
  <2>1. finishing[p] # None
    BY <1>4 DEF FinishUnmerged
  <2>2. /\ iv' \in [Ids -> Row \cup {None}] /\ transcripts' \subseteq Transcript
        /\ told' \in [Ids -> Answered \cup {None}]
        /\ finishing' \in [People -> Finishing \cup {None}]
    BY <1>2, <1>4, <2>1 DEF FinishUnmerged, Answer, TypeOK
  <2> QED BY <1>4, <2>2 DEF FinishUnmerged, TypeOK, documents, access
<1>5. CASE FinishAborts(p)
  <2>1. finishing[p] # None
    BY <1>5 DEF FinishAborts
  <2>2. told' \in [Ids -> Answered \cup {None}] /\ finishing' \in [People -> Finishing \cup {None}]
    BY <1>2, <1>5, <2>1 DEF FinishAborts, Answer, TypeOK
  <2> QED BY <1>5, <2>2 DEF FinishAborts, TypeOK, documents, access
<1> QED BY <1>1, <1>3, <1>4, <1>5

LEMMA TypeStep ==
  ASSUME TypeOK, FinishesHold, [Next]_vars
  PROVE  TypeOK'
<1>1. CASE Next
  <2>1. ASSUME NEW c \in Consultants,
               \/ \E w \in People, cl \in Clients, r \in 0 .. MaxRound : InviteLogin(c, w, cl, r)
               \/ InviteMember(c) \/ InviteGuard(c) \/ InviteRow(c)
        PROVE  TypeOK'
    BY <2>1, InviteType
  <2>2. ASSUME NEW c \in Consultants,
               \/ \E i \in Ids : DeleteErases(c, i)
               \/ DeleteRow(c) \/ RevokeMembership(c) \/ RevokeLogin(c) \/ JobDies(c)
        PROVE  TypeOK'
    BY <2>2, DeleteType
  <2>6. ASSUME NEW c \in Consultants, (\E i \in Ids : DraftReads(c, i)) \/ DraftWrites(c)
        PROVE  TypeOK'
    BY <2>6, DraftType
  <2>3. ASSUME \/ \E i \in Ids :
                    \/ Approve(i)
                    \/ \E s \in {"invited", "in_progress", "completed"},
                          r \in 0 .. MaxRound, cl \in Clients : Patch(i, s, r, cl)
               \/ \E cl \in Clients : PlanRound(cl)
        PROVE  TypeOK'
    BY <2>3, ConsultantType
  <2>4. ASSUME NEW p \in People, SaveReads(p) \/ SaveCommits(p) \/ RequestDies(p)
        PROVE  TypeOK'
    BY <2>4, SaveType
  <2>5. ASSUME NEW p \in People,
               FinishReads(p) \/ FinishCommits(p) \/ FinishUnmerged(p) \/ FinishAborts(p)
        PROVE  TypeOK'
    BY <2>5, FinishType
  <2> QED BY <1>1, <2>1, <2>2, <2>3, <2>4, <2>5, <2>6 DEF Next
<1>2. CASE UNCHANGED vars
  BY <1>2 DEF vars, TypeOK
<1> QED BY <1>1, <1>2

--------------------------------------------------------------------------------
(* What a step does to the rows *)

(* No draft under way is to be written over this follow-up.                *)
NotRedrafted(i) ==
  Overlap("draft") \/
    \A c \in Consultants : job[c] # None /\ job[c].op = "draft" => job[c].onto # i

(* An agenda is approved, or written anew as a draft.                      *)
AgendaMoves(i, row) ==
  \/ row.agenda = iv[i].agenda
  \/ row.agenda = "draft" /\ iv[i].kind = "follow_up" /\ Overlap("draft")
  \/ row.agenda = "approved" /\ NotRedrafted(i)

(* A row that was there keeps its person and kind; one that a completion   *)
(* holds stays, keeps its client, and becomes no draft.                    *)
RowKept(i) ==
  /\ iv[i] # None
  /\ iv'[i].who = iv[i].who /\ iv'[i].kind = iv[i].kind
  /\ iv'[i].parent \in {iv[i].parent, 0}
  /\ AgendaMoves(i, iv'[i])

IsNew(row) ==
  \/ row.parent = 0 /\ row.agenda = "none"
  \/ row.kind = "follow_up" /\ row.agenda = "draft"

RowCreated(i) == i = born + 1 /\ born' = i /\ IsNew(iv'[i])

RowMoves(i) ==
  /\ iv'[i] # None => RowKept(i) \/ RowCreated(i)
  /\ Locked(i) =>
       /\ iv'[i] # None /\ RowKept(i) /\ iv'[i].client = iv[i].client
       /\ iv'[i].agenda = "draft" => iv[i].agenda = "draft"

RowsMove ==
  /\ born' \in {born, born + 1}
  /\ \A i \in Ids : RowMoves(i)

(* The rows but one stay as they are.                                      *)
LEMMA OneRowMoves ==
  ASSUME TypeOK, RowsInv, NEW i \in Ids, NEW row \in Row,
         iv' = [iv EXCEPT ![i] = row],
         \/ /\ born' = born /\ iv[i] # None
            /\ row.who = iv[i].who /\ row.kind = iv[i].kind /\ row.parent \in {iv[i].parent, 0}
            /\ AgendaMoves(i, row)
            /\ Locked(i) =>
                 row.client = iv[i].client /\ (row.agenda = "draft" => iv[i].agenda = "draft")
         \/ i = born + 1 /\ born' = i /\ IsNew(row)
  PROVE  RowsMove
<1>1. \A j \in Ids : iv'[j] = IF j = i THEN row ELSE iv[j]
  BY DEF TypeOK
<1>2. row # None
  BY NoneDiffers
<1>3. \A j \in Ids : Locked(j) => iv[j] # None /\ j <= born
  BY DEF Locked, RowsInv, FinishesHold, Fresh, Ids, TypeOK
<1>4. ASSUME NEW j \in Ids, j # i PROVE RowMoves(j)
  BY <1>1, <1>3, <1>4 DEF RowMoves, RowKept, AgendaMoves
<1>5. RowMoves(i)
  <2>1. iv'[i] = row
    BY <1>1
  <2>2. i = born + 1 => ~Locked(i)
    BY <1>3, Bounds DEF TypeOK
  <2> QED BY <1>2, <2>1, <2>2 DEF RowMoves, RowKept, RowCreated
<1>6. born' \in {born, born + 1}
  OBVIOUS
<1> QED BY <1>4, <1>5, <1>6 DEF RowsMove

LEMMA NoRowMoves ==
  ASSUME TypeOK, RowsInv, iv' = iv, born' = born
  PROVE  RowsMove
<1>1. \A j \in Ids : Locked(j) => iv[j] # None
  BY DEF Locked, RowsInv, FinishesHold
<1> QED BY <1>1 DEF RowsMove, RowMoves, RowKept, AgendaMoves

LEMMA RowsMoveSo ==
  ASSUME TypeOK, RowsInv, [Next]_vars
  PROVE  RowsMove
<1> USE Bounds, NoneDiffers
<1>1. ASSUME NEW c \in Consultants, InviteRow(c) PROVE RowsMove
  <2>1. job[c] \in Job /\ job[c].op = "invite"
    BY <1>1 DEF InviteRow, TypeOK
  <2>2. Row0(job[c].who, job[c].client, job[c].round) \in Row
    BY <2>1 DEF Job, Row0, Row
  <2>3. IsNew(Row0(job[c].who, job[c].client, job[c].round))
    BY DEF Row0, IsNew
  <2>4. born + 1 \in Ids
    BY <1>1 DEF InviteRow, TypeOK, Ids
  <2> QED BY <1>1, <2>2, <2>3, <2>4, OneRowMoves DEF InviteRow
<1>2. ASSUME NEW c \in Consultants, DraftWrites(c) PROVE RowsMove
  <2> DEFINE o == job[c].onto
  <2>1. /\ job[c] # None /\ job[c] \in Job /\ job[c].op = "draft"
        /\ job[c].row \in Row /\ o \in Ids \cup {0}
    <3>1. job[c] # None /\ job[c] \in Job /\ job[c].op = "draft"
      BY <1>2 DEF DraftWrites, TypeOK
    <3> QED BY <3>1 DEF Job
  <2>2. DraftKnows(job[c])
    BY <2>1 DEF RowsInv, DraftsKnow
  <2>3. CASE /\ o # 0 /\ ~Locked(o) /\ UNCHANGED born
             /\ iv' = IF o \in Live THEN [iv EXCEPT ![o].agenda = "draft"] ELSE iv
    <3>1. CASE o \in Live
      <4> DEFINE row == [iv[o] EXCEPT !.agenda = "draft"]
      <4>1. iv[o] \in Row /\ iv[o] # None /\ o \in Ids
        BY <3>1 DEF Live, TypeOK
      <4>2. row \in Row /\ row.who = iv[o].who /\ row.kind = iv[o].kind /\ row.parent = iv[o].parent
            /\ row.agenda = "draft"
        BY <4>1 DEF Row
      <4>3. iv' = [iv EXCEPT ![o] = row] /\ born' = born /\ ~Locked(o)
        BY <2>3, <3>1
      <4>4. AgendaMoves(o, row)
        BY <2>2, <2>3, <4>1, <4>2 DEF DraftKnows, AgendaMoves
      <4> HIDE DEF row, o
      <4> QED BY <4>1, <4>2, <4>3, <4>4, OneRowMoves
    <3>2. CASE o \notin Live
      BY <2>3, <3>2, NoRowMoves
    <3> QED BY <3>1, <3>2
  <2>4. CASE /\ born < MaxInterviews /\ born' = born + 1
             /\ iv' = [iv EXCEPT ![born + 1] = job[c].row]
    <3>1. born + 1 \in Ids
      BY <2>4 DEF TypeOK, Ids
    <3>2. IsNew(job[c].row)
      BY <2>2 DEF DraftKnows, IsNew
    <3> QED BY <2>1, <2>4, <3>1, <3>2, OneRowMoves
  <2>5. CASE UNCHANGED <<iv, born>>
    BY <2>5, NoRowMoves
  <2> QED BY <1>2, <2>3, <2>4, <2>5 DEF DraftWrites
<1>3. ASSUME NEW i \in Ids, Approve(i) PROVE RowsMove
  <2> DEFINE row == [iv[i] EXCEPT !.agenda = "approved"]
  <2>1. iv[i] \in Row /\ iv[i] # None
    BY <1>3 DEF Approve, Live, TypeOK
  <2>2. row \in Row /\ row.who = iv[i].who /\ row.kind = iv[i].kind /\ row.client = iv[i].client
        /\ row.agenda = "approved" /\ row.parent = iv[i].parent
    BY <2>1 DEF Row
  <2>3. iv' = [iv EXCEPT ![i] = row] /\ born' = born
    BY <1>3 DEF Approve
  <2>4. NotRedrafted(i)
    BY <1>3 DEF Approve, NotRedrafted, Running
  <2>5. AgendaMoves(i, row)
    BY <2>2, <2>4 DEF AgendaMoves
  <2> HIDE DEF row
  <2> QED BY <2>1, <2>2, <2>3, <2>5, OneRowMoves
<1>4. ASSUME NEW i \in Ids, NEW s \in {"invited", "in_progress", "completed"},
             NEW r \in 0 .. MaxRound, NEW cl \in Clients, Patch(i, s, r, cl)
      PROVE RowsMove
  <2> DEFINE row == [iv[i] EXCEPT !.status = s, !.round = r, !.client = cl]
  <2>1. iv[i] \in Row /\ iv[i] # None
    BY <1>4 DEF Patch, Live, TypeOK
  <2>2. row \in Row /\ row.who = iv[i].who /\ row.kind = iv[i].kind /\ row.agenda = iv[i].agenda
        /\ row.parent = iv[i].parent
    BY <2>1 DEF Row
  <2>3. iv' = [iv EXCEPT ![i] = row] /\ born' = born /\ ~Locked(i)
    BY <1>4 DEF Patch
  <2>4. AgendaMoves(i, row)
    BY <2>2 DEF AgendaMoves
  <2> HIDE DEF row
  <2> QED BY <2>1, <2>2, <2>3, <2>4, OneRowMoves
<1>5. ASSUME NEW i \in Ids, NEW s \in {"in_progress", "completed"}, iv[i] # None, born' = born,
             iv' = [iv EXCEPT ![i].status = s]
      PROVE  RowsMove
  <2> DEFINE row == [iv[i] EXCEPT !.status = s]
  <2>1. iv[i] \in Row
    BY <1>5 DEF TypeOK
  <2>2. row \in Row /\ row.who = iv[i].who /\ row.kind = iv[i].kind /\ row.agenda = iv[i].agenda
        /\ row.client = iv[i].client /\ row.parent = iv[i].parent
    BY <2>1 DEF Row
  <2>3. iv' = [iv EXCEPT ![i] = row]
    BY <1>5
  <2>4. AgendaMoves(i, row)
    BY <2>2 DEF AgendaMoves
  <2> HIDE DEF row
  <2> QED BY <1>5, <2>1, <2>2, <2>3, <2>4, OneRowMoves
<1>6. ASSUME NEW p \in People, SaveCommits(p) PROVE RowsMove
  <2>1. saving[p].id \in Ids
    BY <1>6 DEF SaveCommits, TypeOK, Save
  <2>2. CASE saving[p].first /\ iv[saving[p].id] # None
    BY <1>5, <1>6, <2>1, <2>2 DEF SaveCommits
  <2>3. CASE ~(saving[p].first /\ iv[saving[p].id] # None)
    BY <1>6, <2>3, NoRowMoves DEF SaveCommits
  <2> QED BY <2>2, <2>3
<1>7. ASSUME NEW p \in People, FinishCommits(p) \/ FinishUnmerged(p) PROVE RowsMove
  <2>1. finishing[p] # None
    BY <1>7 DEF FinishCommits, FinishUnmerged
  <2>2. finishing[p].id \in Ids /\ iv[finishing[p].id] # None
    BY <2>1 DEF TypeOK, Finishing, RowsInv, FinishesHold
  <2>3. born' = born /\ iv' = [iv EXCEPT ![finishing[p].id].status = "completed"]
    BY <1>7 DEF FinishCommits, FinishUnmerged
  <2> QED BY <1>5, <2>2, <2>3
<1>8. ASSUME NEW c \in Consultants, DeleteRow(c) PROVE RowsMove
  <2>1. /\ ~Locked(job[c].id) /\ born' = born
        /\ iv' = [j \in Ids |->
             IF j \notin Live \ {job[c].id} THEN None
             ELSE [iv[j] EXCEPT !.parent = IF @ = job[c].id THEN 0 ELSE @]]
    BY <1>8 DEF DeleteRow
  <2>2. \A j \in Live : iv[j] \in Row
    BY DEF Live, TypeOK
  <2>3. \A j \in Live \ {job[c].id} :
          /\ iv'[j] # None /\ iv'[j].who = iv[j].who /\ iv'[j].kind = iv[j].kind
          /\ iv'[j].agenda = iv[j].agenda /\ iv'[j].client = iv[j].client
          /\ iv'[j].parent \in {iv[j].parent, 0}
    <3> TAKE j \in Live \ {job[c].id}
    <3> DEFINE row == [iv[j] EXCEPT !.parent = IF @ = job[c].id THEN 0 ELSE @]
    <3>1. iv'[j] = row
      BY <2>1 DEF Live
    <3>2. row \in Row /\ row.who = iv[j].who /\ row.kind = iv[j].kind
          /\ row.agenda = iv[j].agenda /\ row.client = iv[j].client
          /\ row.parent \in {iv[j].parent, 0}
      BY <2>2 DEF Row
    <3> QED BY <3>1, <3>2
  <2>4. \A j \in Ids : j \notin Live \ {job[c].id} => iv'[j] = None
    BY <2>1
  <2>5. \A j \in Ids : Locked(j) => j \in Live \ {job[c].id}
    BY <2>1 DEF Locked, RowsInv, FinishesHold, Live
  <2>6. \A j \in Ids : RowMoves(j)
    BY <2>3, <2>4, <2>5 DEF RowMoves, RowKept, AgendaMoves, Live
  <2> QED BY <2>1, <2>6 DEF RowsMove
<1>9. ASSUME UNCHANGED <<iv, born>> PROVE RowsMove
  BY <1>9, NoRowMoves
<1>10. CASE Next
  <2>1. CASE \E c \in Consultants :
              \/ \E w \in People, cl \in Clients, r \in 0 .. MaxRound : InviteLogin(c, w, cl, r)
              \/ InviteMember(c) \/ InviteGuard(c)
              \/ \E i \in Ids : DeleteErases(c, i) \/ DraftReads(c, i)
              \/ RevokeMembership(c) \/ RevokeLogin(c) \/ JobDies(c)
    BY <1>9, <2>1 DEF InviteLogin, InviteMember, InviteGuard, DeleteErases, DraftReads,
                      RevokeMembership, RevokeLogin, JobDies
  <2>2. CASE \E cl \in Clients : PlanRound(cl)
    BY <1>9, <2>2 DEF PlanRound
  <2>3. CASE \E p \in People : SaveReads(p) \/ FinishReads(p) \/ FinishAborts(p) \/ RequestDies(p)
    BY <1>9, <2>3 DEF SaveReads, FinishReads, FinishAborts, RequestDies
  <2> QED BY <1>1, <1>2, <1>3, <1>4, <1>6, <1>7, <1>8, <1>10, <2>1, <2>2, <2>3 DEF Next
<1>11. CASE UNCHANGED vars
  BY <1>9, <1>11 DEF vars
<1> QED BY <1>10, <1>11

(* What a step does to the rest: answers and sessions change only for an   *)
(* interview that a request holds, a request is new or as it was, and only *)
(* two actions write documents.                                            *)
SaveIsNew(p) ==
  /\ saving'[p] # None /\ UNCHANGED <<iv, born, job, finishing>>
  /\ saving'[p].id \in Ids
  /\ iv[saving'[p].id] # None /\ Eligible(iv[saving'[p].id])
  /\ iv[saving'[p].id].who = p /\ iv[saving'[p].id].status # "completed"
  /\ Overlap("save") \/ finishing[p] = None
  /\ Overlap("erase") \/ ~Erasing(saving'[p].id)

RestMoves ==
  /\ \A i \in Ids : told'[i] # told[i] => Locked(i)
  /\ \A i \in Ids : saved'[i] # saved[i] => (saved'[i] = 0 /\ iv'[i] = None) \/ Saving(i)
  /\ \A p \in People : saving'[p] \in {saving[p], None} \/ SaveIsNew(p)
  /\ \A p \in People : finishing'[p] \in {finishing[p], None} \/ FinishReads(p)
  /\ \/ UNCHANGED documents
     \/ \E cl \in Clients : PlanRound(cl)
     \/ \E p \in People : FinishCommits(p)

LEMMA RestMovesSo ==
  ASSUME TypeOK, [Next]_vars
  PROVE  RestMoves
<1>1. ASSUME UNCHANGED <<saved, documents, sessions>> PROVE RestMoves
  BY <1>1 DEF RestMoves, sessions
<1>2. ASSUME NEW c \in Consultants, DeleteRow(c) PROVE RestMoves
  <2>1. \A i \in Ids : saved'[i] # saved[i] => saved'[i] = 0 /\ iv'[i] = None
    BY <1>2 DEF DeleteRow, TypeOK
  <2> QED BY <1>2, <2>1 DEF DeleteRow, RestMoves, sessions
<1>3. ASSUME NEW cl \in Clients, PlanRound(cl) PROVE RestMoves
  <2>1. UNCHANGED <<saved, sessions>>
    BY <1>3 DEF PlanRound
  <2> QED BY <1>3, <2>1 DEF RestMoves, sessions
<1>4. ASSUME NEW p \in People, SaveReads(p) PROVE RestMoves
  <2> DEFINE i == Served(p)
  <2>1. /\ i # 0 /\ UNCHANGED <<iv, born, job, finishing, told, saved, documents>>
        /\ Overlap("erase") \/ ~Erasing(i)
        /\ Overlap("save") \/ finishing[p] = None
        /\ iv[i].status # "completed"
        /\ saving' = [saving EXCEPT ![p] = [id |-> i, first |-> iv[i].status = "invited"]]
    BY <1>4 DEF SaveReads
  <2>2. i \in Theirs(p)
    <3>1. Theirs(p) \in SUBSET (1 .. MaxInterviews)
      BY DEF Theirs, Live, Ids
    <3> QED BY <2>1, <3>1, Bounds, NewestIn DEF Served
  <2>3. i \in Ids /\ iv[i] # None /\ Eligible(iv[i]) /\ iv[i].who = p
    <3> HIDE DEF i
    <3> QED BY <2>2 DEF Theirs, Live
  <2> DEFINE s == [id |-> i, first |-> iv[i].status = "invited"]
  <2>4. s \in Save /\ s.id = i
    BY <2>3 DEF Save
  <2> HIDE DEF i, s
  <2>5. \A q \in People : saving'[q] = IF q = p THEN s ELSE saving[q]
    BY <2>1 DEF TypeOK, s
  <2>6. SaveIsNew(p)
    BY <2>1, <2>3, <2>4, <2>5, NoneDiffers DEF SaveIsNew
  <2> QED BY <2>1, <2>5, <2>6 DEF RestMoves
<1>5. ASSUME NEW p \in People, SaveCommits(p) PROVE RestMoves
  <2>1. \A i \in Ids : saved'[i] # saved[i] => Saving(i)
    BY <1>5 DEF SaveCommits, TypeOK, Saving
  <2>2. \A q \in People : saving'[q] \in {saving[q], None}
    BY <1>5 DEF SaveCommits, TypeOK
  <2> QED BY <1>5, <2>1, <2>2 DEF SaveCommits, RestMoves
<1>6. ASSUME NEW p \in People, FinishReads(p) PROVE RestMoves
  <2>1. \A q \in People : finishing'[q] = finishing[q] \/ q = p
    BY <1>6 DEF FinishReads, TypeOK
  <2>2. UNCHANGED <<saved, documents, saving, told>>
    BY <1>6 DEF FinishReads
  <2> QED BY <1>6, <2>1, <2>2 DEF RestMoves
<1>7. ASSUME NEW p \in People, FinishCommits(p) \/ FinishUnmerged(p) \/ FinishAborts(p)
      PROVE  RestMoves
  <2>1. PICK what \in {"ok", "failed"} : Answer(p, what)
    BY <1>7 DEF FinishCommits, FinishUnmerged, FinishAborts
  <2>2. finishing[p] # None
    BY <1>7 DEF FinishCommits, FinishUnmerged, FinishAborts
  <2>3. \A i \in Ids : told'[i] # told[i] => Locked(i)
    BY <2>1, <2>2 DEF Answer, Locked, TypeOK
  <2>4. \A q \in People : finishing'[q] \in {finishing[q], None}
    BY <2>1 DEF Answer, TypeOK
  <2>5. UNCHANGED <<saved, saving>>
    BY <1>7 DEF FinishCommits, FinishUnmerged, FinishAborts
  <2>6. FinishCommits(p) \/ UNCHANGED documents
    BY <1>7 DEF FinishUnmerged, FinishAborts
  <2> QED BY <2>3, <2>4, <2>5, <2>6 DEF RestMoves
<1>8. ASSUME NEW p \in People, RequestDies(p) PROVE RestMoves
  BY <1>8 DEF RequestDies, RestMoves, TypeOK
<1>9. CASE Next
  <2>1. CASE \E c \in Consultants :
              \/ \E w \in People, cl \in Clients, r \in 0 .. MaxRound : InviteLogin(c, w, cl, r)
              \/ InviteMember(c) \/ InviteGuard(c) \/ InviteRow(c)
              \/ \E i \in Ids : DeleteErases(c, i) \/ DraftReads(c, i)
              \/ DraftWrites(c)
              \/ RevokeMembership(c) \/ RevokeLogin(c) \/ JobDies(c)
    BY <1>1, <2>1 DEF InviteLogin, InviteMember, InviteGuard, InviteRow, DeleteErases, DraftReads,
                      DraftWrites, RevokeMembership, RevokeLogin, JobDies
  <2>2. CASE \E i \in Ids :
              \/ Approve(i)
              \/ \E s \in {"invited", "in_progress", "completed"}, r \in 0 .. MaxRound, cl \in Clients :
                   Patch(i, s, r, cl)
    BY <1>1, <2>2 DEF Approve, Patch
  <2> QED BY <1>2, <1>3, <1>4, <1>5, <1>6, <1>7, <1>8, <1>9, <2>1, <2>2 DEF Next
<1>10. CASE UNCHANGED vars
  BY <1>1, <1>10 DEF vars, documents, sessions
<1> QED BY <1>9, <1>10

LEMMA JobHas ==
  ASSUME TypeOK, NEW c \in Consultants, job[c] # None
  PROVE  /\ job[c].op = "invite" => job[c] \in [op : {"invite"}, who : People, client : Clients,
                                    round : 0 .. MaxRound, step : {"member", "guard", "row"}]
         /\ job[c].op = "delete" => job[c] \in [op : {"delete"}, id : Ids, who : People,
                                                erased : SUBSET Transcript]
         /\ job[c].op = "revoke" => job[c] \in [op : {"revoke"}, who : People,
                                                step : {"membership", "login"}]
         /\ job[c].op = "draft" => job[c] \in [op : {"draft"}, id : Ids, row : Row,
                                               onto : Ids \cup {0}]
<1>1. job[c] \in Job
  BY DEF TypeOK
<1> QED BY <1>1 DEF Job

(* A draft under way is as it was or has just read its interview.          *)
JobsMove ==
  \A c \in Consultants : job'[c] # None /\ job'[c].op = "draft" =>
    job'[c] = job[c] \/ \E i \in Ids : DraftReads(c, i)

LEMMA JobsMoveSo ==
  ASSUME TypeOK, [Next]_vars
  PROVE  JobsMove
<1> USE NoneDiffers
<1>1. ASSUME \A d \in Consultants : job'[d] \in {job[d], None} \/ job'[d].op # "draft" PROVE JobsMove
  BY <1>1 DEF JobsMove
<1>2. ASSUME NEW c \in Consultants,
             \/ \E w \in People, cl \in Clients, r \in 0 .. MaxRound : InviteLogin(c, w, cl, r)
             \/ \E i \in Ids : DeleteErases(c, i)
             \/ InviteRow(c) \/ DeleteRow(c) \/ RevokeLogin(c) \/ DraftWrites(c) \/ JobDies(c)
      PROVE  JobsMove
  BY <1>1, <1>2 DEF InviteLogin, InviteRow, DeleteErases, DeleteRow, RevokeLogin, DraftWrites,
                    JobDies, TypeOK
<1>3. ASSUME NEW c \in Consultants, InviteMember(c) \/ InviteGuard(c) \/ RevokeMembership(c)
      PROVE  JobsMove
  <2>1. job[c] # None /\ job[c].op \in {"invite", "revoke"}
    BY <1>3 DEF InviteMember, InviteGuard, RevokeMembership
  <2>2. \A s \in {"guard", "row", "login"} : [job[c] EXCEPT !.step = s].op = job[c].op
    BY <2>1, JobHas
  <2>3. \A d \in Consultants :
          job'[d] = job[d] \/ job'[d] = None \/ job'[d].op \in {"invite", "revoke"}
    BY <1>3, <2>1, <2>2 DEF InviteMember, InviteGuard, RevokeMembership, TypeOK
  <2> QED BY <1>1, <2>3
<1>4. ASSUME NEW c \in Consultants, NEW i \in Ids, DraftReads(c, i) PROVE JobsMove
  <2>1. \A d \in Consultants : job'[d] = job[d] \/ d = c
    BY <1>4 DEF DraftReads, TypeOK
  <2> QED BY <1>4, <2>1 DEF JobsMove
<1>5. ASSUME job' = job PROVE JobsMove
  BY <1>1, <1>5
<1>6. CASE Next
  <2>1. ASSUME NEW i \in Ids, Approve(i) PROVE JobsMove
    BY <1>5, <2>1 DEF Approve
  <2>2. ASSUME NEW i \in Ids, NEW s \in {"invited", "in_progress", "completed"},
               NEW r \in 0 .. MaxRound, NEW cl \in Clients, Patch(i, s, r, cl)
        PROVE  JobsMove
    BY <1>5, <2>2 DEF Patch
  <2>3. CASE \E cl \in Clients : PlanRound(cl)
    BY <1>5, <2>3 DEF PlanRound
  <2>4. CASE \E p \in People : SaveReads(p) \/ SaveCommits(p) \/ FinishReads(p) \/ FinishCommits(p)
                                \/ FinishUnmerged(p) \/ FinishAborts(p) \/ RequestDies(p)
    BY <1>5, <2>4 DEF SaveReads, SaveCommits, FinishReads, FinishCommits, FinishUnmerged, FinishAborts,
                      RequestDies
  <2> QED BY <1>2, <1>3, <1>4, <1>6, <2>1, <2>2, <2>3, <2>4 DEF Next
<1>7. CASE UNCHANGED vars
  BY <1>5, <1>7 DEF vars
<1> QED BY <1>6, <1>7

--------------------------------------------------------------------------------
(* What holds of the rows however requests overlap and fail *)

LEMMA RowsInit == Init => RowsInv
<1> SUFFICES ASSUME Init PROVE RowsInv
  OBVIOUS
<1>1. /\ iv = [i \in Ids |-> None] /\ saved = [i \in Ids |-> 0] /\ told = [i \in Ids |-> None]
      /\ saving = [p \in People |-> None] /\ finishing = [p \in People |-> None]
      /\ job = [c \in Consultants |-> None]
  BY DEF Init
<1>2. Fresh /\ Drafts /\ DraftsKnow /\ SavesHold /\ FinishesHold
  BY <1>1 DEF Fresh, Drafts, DraftsKnow, SavesHold, FinishesHold
<1>3. PICK opened \in SUBSET Clients :
        records = [k \in Codes |-> IF k \in opened THEN Begun(NewRecord(k), 1) ELSE None]
  BY DEF Init
<1>4. \A k \in opened : Begun(NewRecord(k), 1).current = 1
  BY NewRecordIs, BegunIs, Bounds
<1>5. CurrentRounds
  BY <1>1, <1>3, <1>4 DEF CurrentRounds, HasCurrent
<1> QED BY <1>2, <1>5 DEF RowsInv

LEMMA MergedHasCurrent ==
  ASSUME NEW rec \in Record, NEW row \in Row, NEW f \in Entry, HasCurrent(rec)
  PROVE  HasCurrent(Merged(rec, row, f))
<1> DEFINE t == Target(rec, row)
<1>1. t \in Rounds /\ Merged(rec, row, f).current = IF rec.rounds[t].open THEN rec.current ELSE t
  BY MergedIs
<1> HIDE DEF t
<1>2. Merged(rec, row, f).current # 0
  BY <1>1 DEF HasCurrent, Rounds
<1> QED BY <1>2 DEF HasCurrent

LEMMA NewHasCurrent ==
  ASSUME NEW c \in Clients
  PROVE  HasCurrent(NewRecord(c))
<1> QED BY NewRecordIs DEF HasCurrent, NoRound

LEMMA CurrentRoundsStep ==
  ASSUME TypeOK, RowsInv, [Next]_vars
  PROVE  CurrentRounds'
<1> USE NoneDiffers
<1>1. ASSUME NEW cl \in Clients, PlanRound(cl), NEW k \in Codes, records'[k] # None
      PROVE  HasCurrent(records'[k])
  <2> DEFINE last == Newest(Opened(records[k]))
  <2>1. CASE k = index[cl]
    <3>1. records[k] \in Record /\ last < MaxRound
      BY <1>1, <2>1 DEF PlanRound, TypeOK
    <3>2. Opened(records[k]) \in SUBSET (1 .. MaxRound)
      BY DEF Opened, Rounds
    <3> DEFINE S == Opened(records[k])
    <3>7. S = {} => last = 0
      BY <3>2, Bounds, NewestIn
    <3>8. S # {} => last \in S
      BY <3>2, Bounds, NewestIn
    <3>9. last \in Nat
      BY <3>2, <3>7, <3>8
    <3>3. last + 1 \in Rounds
      BY <3>1, <3>9, Bounds DEF Rounds
    <3>4. records'[k] = Begun(records[k], last + 1)
      BY <1>1, <2>1 DEF PlanRound, TypeOK
    <3>5. records'[k].current = last + 1
      BY <3>1, <3>3, <3>4, BegunIs
    <3> HIDE DEF last
    <3> QED BY <3>3, <3>5 DEF HasCurrent, Rounds
  <2>2. CASE k # index[cl]
    BY <1>1, <2>2 DEF PlanRound, TypeOK, RowsInv, CurrentRounds
  <2> QED BY <2>1, <2>2
<1>2. ASSUME NEW p \in People, FinishCommits(p), NEW k \in Codes, records'[k] # None
      PROVE  HasCurrent(records'[k])
  <2> DEFINE f == finishing[p]
  <2>1. f # None /\ f \in Finishing
    BY <1>2 DEF FinishCommits, TypeOK
  <2>2. f.row \in Row /\ f.row.client \in Clients
    BY <2>1 DEF Finishing, Row
  <2>3. HasCurrent(RecordOf(f))
    BY <2>1, <2>2, NewHasCurrent DEF RowsInv, CurrentRounds, RecordOf
  <2>4. HasCurrent(Merged(RecordOf(f), f.row, EntryOf(f)))
    BY <2>1, <2>2, <2>3, EntryType, MergedHasCurrent
  <2>5. records'[k] = records[k] \/ records'[k] = Merged(RecordOf(f), f.row, EntryOf(f))
    BY <1>2 DEF FinishCommits, documents, Stored, TypeOK
  <2> QED BY <1>2, <2>4, <2>5 DEF RowsInv, CurrentRounds
<1>3. ASSUME NEW k \in Codes, records'[k] # None PROVE HasCurrent(records'[k])
  BY <1>1, <1>2, <1>3, RestMovesSo DEF RestMoves, RowsInv, CurrentRounds, documents
<1>4. ASSUME NEW p \in People, finishing'[p] # None, finishing'[p].record # None
      PROVE  HasCurrent(finishing'[p].record)
  <2>1. CASE finishing'[p] = finishing[p]
    BY <1>4, <2>1 DEF RowsInv, CurrentRounds
  <2>2. CASE FinishReads(p)
    <3>1. finishing'[p].code \in Codes /\ finishing'[p].record \in {records[finishing'[p].code], None}
      BY <2>2, FinishTakes
    <3> QED BY <1>4, <3>1 DEF RowsInv, CurrentRounds
  <2> QED BY <1>4, <2>1, <2>2, RestMovesSo DEF RestMoves
<1> QED BY <1>3, <1>4 DEF CurrentRounds

LEMMA RowsStep ==
  ASSUME TypeOK, RowsInv, [Next]_vars
  PROVE  RowsInv'
<1> USE NoneDiffers
<1>1. RowsMove /\ RestMoves /\ JobsMove
  BY RowsMoveSo, RestMovesSo, JobsMoveSo
<1>2. born \in Nat /\ born' \in Nat /\ Ids \subseteq Nat
  BY <1>1, Bounds DEF TypeOK, RowsMove
<1>3. \A i \in Ids : Saving(i) \/ Locked(i) =>
        i <= born /\ (iv[i] # None => Overlap("draft") \/ iv[i].agenda # "draft")
  BY <1>2 DEF Saving, Locked, RowsInv, SavesHold, FinishesHold, Fresh
<1>4. ASSUME NEW i \in Ids, ~Saving(i), ~Locked(i), saved[i] = 0, told[i] = None
      PROVE  saved'[i] = 0 /\ told'[i] = None
  BY <1>1, <1>4 DEF RestMoves
<1>5. Fresh'
  <2> SUFFICES ASSUME NEW i \in Ids, i > born'
               PROVE  iv'[i] = None /\ saved'[i] = 0 /\ told'[i] = None
    BY DEF Fresh
  <2>1. i > born
    BY <1>1, <1>2 DEF RowsMove
  <2>2. iv[i] = None /\ saved[i] = 0 /\ told[i] = None /\ ~Saving(i) /\ ~Locked(i)
    BY <1>2, <1>3, <2>1 DEF RowsInv, Fresh
  <2>3. iv'[i] = None
    BY <1>1, <1>2, <2>2 DEF RowsMove, RowMoves, RowKept, RowCreated
  <2> QED BY <1>4, <2>2, <2>3
<1>6. Drafts'
  <2> SUFFICES ASSUME NEW i \in Ids, iv'[i] # None
               PROVE  /\ iv'[i].parent # 0 => iv'[i].kind = "follow_up" /\ iv'[i].agenda # "none"
                      /\ iv'[i].agenda = "draft" =>
                           /\ iv'[i].kind = "follow_up"
                           /\ Overlap("draft") \/ (saved'[i] = 0 /\ told'[i] = None)
    BY DEF Drafts, Overlap
  <2>1. CASE RowKept(i)
    <3>1. iv[i] # None /\ iv'[i].kind = iv[i].kind /\ iv'[i].parent \in {iv[i].parent, 0}
          /\ AgendaMoves(i, iv'[i])
      BY <2>1 DEF RowKept
    <3>2. /\ iv[i].parent # 0 => iv[i].kind = "follow_up" /\ iv[i].agenda # "none"
          /\ iv[i].agenda = "draft" =>
               iv[i].kind = "follow_up" /\ (Overlap("draft") \/ (saved[i] = 0 /\ told[i] = None))
      BY <3>1 DEF RowsInv, Drafts
    <3>3. iv'[i].parent # 0 => iv'[i].kind = "follow_up" /\ iv'[i].agenda # "none"
      BY <3>1, <3>2 DEF AgendaMoves
    <3>4. ASSUME iv'[i].agenda = "draft"
          PROVE  iv'[i].kind = "follow_up" /\ (Overlap("draft") \/ (saved'[i] = 0 /\ told'[i] = None))
      <4>1. CASE Overlap("draft")
        BY <3>1, <3>2, <3>4, <4>1 DEF AgendaMoves
      <4>2. CASE ~Overlap("draft")
        <5>1. iv[i].agenda = "draft"
          BY <3>1, <3>4, <4>2 DEF AgendaMoves
        <5> QED BY <1>3, <1>4, <3>1, <3>2, <4>2, <5>1
      <4> QED BY <4>1, <4>2
    <3> QED BY <3>3, <3>4
  <2>2. CASE RowCreated(i)
    <3>1. i > born /\ IsNew(iv'[i])
      BY <1>2, <2>2 DEF RowCreated
    <3>2. saved[i] = 0 /\ told[i] = None /\ ~Saving(i) /\ ~Locked(i)
      BY <1>2, <1>3, <3>1 DEF RowsInv, Fresh
    <3>3. saved'[i] = 0 /\ told'[i] = None
      BY <1>4, <3>2
    <3> QED BY <3>1, <3>3 DEF IsNew
  <2> QED BY <1>1, <2>1, <2>2 DEF RowsMove, RowMoves
<1>10. DraftsKnow'
  <2> SUFFICES ASSUME NEW c \in Consultants, job'[c] # None, job'[c].op = "draft"
               PROVE  DraftKnows(job[c])'
    BY DEF DraftsKnow
  <2>1. CASE job'[c] = job[c]
    <3> DEFINE j == job[c]
    <3>1. /\ j.id \in Ids /\ j.onto \in Ids \cup {0}
      BY <2>1, JobHas
    <3>2. DraftKnows(j)
      BY <2>1 DEF RowsInv, DraftsKnow
    <3>3. j.id <= born' /\ j.onto <= born'
      <4>1. j.id <= born /\ j.onto <= born
        BY <3>2 DEF DraftKnows
      <4>2. born' = born \/ born' = born + 1
        BY <1>1 DEF RowsMove
      <4> HIDE DEF j
      <4>3. j.id \in Nat /\ j.onto \in Nat
        <5>1. 0 \in Nat
          OBVIOUS
        <5> QED BY <1>2, <3>1, <5>1
      <4> QED BY <1>2, <4>1, <4>2, <4>3
    <3>4. \A i \in Ids : i <= born /\ iv'[i] # None => RowKept(i)
      BY <1>1, <1>2 DEF RowsMove, RowMoves, RowCreated
    <3>5. iv'[j.id] # None => iv'[j.id].who = j.row.who
      <4>1. iv'[j.id] # None => RowKept(j.id)
        BY <3>1, <3>2, <3>4 DEF DraftKnows
      <4> QED BY <3>2, <4>1 DEF DraftKnows, RowKept
    <3>6. ASSUME j.onto # 0, iv'[j.onto] # None
          PROVE  iv'[j.onto].kind = "follow_up" /\ (Overlap("draft") \/ iv'[j.onto].agenda = "draft")
      <4>1. RowKept(j.onto)
        BY <3>1, <3>2, <3>4, <3>6 DEF DraftKnows
      <4>2. iv[j.onto].kind = "follow_up" /\ (Overlap("draft") \/ iv[j.onto].agenda = "draft")
        BY <3>2, <3>6, <4>1 DEF DraftKnows, RowKept
      <4>3. ~NotRedrafted(j.onto) \/ Overlap("draft")
        BY <2>1 DEF NotRedrafted
      <4>4. iv'[j.onto].kind = "follow_up" /\ AgendaMoves(j.onto, iv'[j.onto])
        BY <4>1, <4>2 DEF RowKept
      <4> QED BY <4>2, <4>3, <4>4 DEF AgendaMoves
    <3>7. j.row.kind = "follow_up" /\ j.row.agenda = "draft"
      BY <3>2 DEF DraftKnows
    <3> HIDE DEF j
    <3>8. job'[c] = j
      BY <2>1 DEF j
    <3> QED BY <3>3, <3>5, <3>6, <3>7, <3>8 DEF DraftKnows, Overlap
  <2>2. ASSUME NEW i \in Ids, DraftReads(c, i) PROVE DraftKnows(job[c])'
    <3> DEFINE o == Newest(Pending(i))
    <3>1. /\ iv' = iv /\ born' = born /\ iv[i] # None /\ iv[i] \in Row
      BY <2>2 DEF DraftReads, Live, TypeOK
    <3>2. job'[c] = [op |-> "draft", id |-> i, row |-> FollowUp(iv[i], i), onto |-> o]
      BY <2>2 DEF DraftReads, TypeOK
    <3>3. o = 0 \/ o \in Pending(i)
      <4>1. Pending(i) \in SUBSET (1 .. MaxInterviews)
        BY DEF Pending, Live, Ids
      <4> QED BY <4>1, Bounds, NewestIn
    <3> HIDE DEF o
    <3>4. i <= born /\ 0 <= born
      BY <1>2, <3>1 DEF RowsInv, Fresh
    <3>5. o # 0 => /\ o \in Ids /\ iv[o] # None /\ iv[o] \in Row /\ o <= born
                   /\ iv[o].parent = i /\ iv[o].agenda # "approved"
      <4>1. o # 0 => /\ o \in Ids /\ iv[o] # None /\ iv[o].parent = i /\ iv[o].agenda # "approved"
        BY <3>3 DEF Pending, Live
      <4>2. o # 0 => iv[o] \in Row /\ ~(o > born)
        BY <4>1 DEF TypeOK, RowsInv, Fresh
      <4>3. o # 0 => o \in Nat
        BY <1>2, <4>1
      <4> QED BY <1>2, <4>1, <4>2, <4>3
    <3>6. i # 0
      BY DEF Ids
    <3>7. o # 0 => iv[o].kind = "follow_up" /\ iv[o].agenda = "draft"
      BY <3>5, <3>6 DEF RowsInv, Drafts, Row
    <3>8. o <= born
      BY <3>4, <3>5
    <3>9. /\ job'[c].id = i /\ job'[c].onto = o
          /\ job'[c].row.kind = "follow_up" /\ job'[c].row.agenda = "draft" /\ job'[c].row.who = iv[i].who
      BY <3>2 DEF FollowUp
    <3> QED BY <3>1, <3>4, <3>7, <3>8, <3>9 DEF DraftKnows
  <2> QED BY <1>1, <2>1, <2>2 DEF JobsMove
<1>7. SavesHold'
  <2> SUFFICES ASSUME NEW p \in People, saving'[p] # None
               PROVE  /\ saving'[p].id <= born'
                      /\ iv'[saving'[p].id] # None =>
                           Overlap("draft") \/ iv'[saving'[p].id].agenda # "draft"
    BY DEF SavesHold, Overlap
  <2>1. CASE saving'[p] = saving[p]
    <3> DEFINE i == saving[p].id
    <3>1. i \in Ids /\ i <= born /\ (iv[i] # None => Overlap("draft") \/ iv[i].agenda # "draft")
      BY <2>1 DEF TypeOK, Save, RowsInv, SavesHold
    <3> HIDE DEF i
    <3>4. i \in Nat /\ born <= born' /\ i # born + 1
      BY <1>1, <1>2, <3>1 DEF RowsMove
    <3>2. i <= born'
      BY <1>2, <3>1, <3>4
    <3>3. iv'[i] # None => Overlap("draft") \/ iv'[i].agenda # "draft"
      BY <1>1, <3>1, <3>4 DEF RowsMove, RowMoves, RowKept, RowCreated, AgendaMoves
    <3> QED BY <2>1, <3>2, <3>3 DEF i
  <2>2. CASE SaveIsNew(p)
    <3> DEFINE i == saving'[p].id
    <3>1. i \in Ids /\ iv[i] # None /\ Eligible(iv[i]) /\ iv' = iv /\ born' = born
      BY <2>2 DEF SaveIsNew
    <3> HIDE DEF i
    <3>2. i <= born
      <4>1. ~(i > born)
        BY <3>1 DEF RowsInv, Fresh
      <4>2. i \in Nat /\ born \in Nat
        BY <1>2, <3>1
      <4> QED BY <4>1, <4>2
    <3>3. iv[i].agenda # "draft"
      BY <3>1 DEF Eligible, RowsInv, Drafts
    <3> QED BY <3>1, <3>2, <3>3 DEF i
  <2> QED BY <1>1, <2>1, <2>2 DEF RestMoves
<1>8. FinishesHold'
  <2> SUFFICES ASSUME NEW p \in People, finishing'[p] # None
               PROVE  LET i == finishing'[p].id  row == finishing'[p].row IN
                      /\ iv'[i] # None
                      /\ iv'[i].who = row.who /\ iv'[i].client = row.client /\ iv'[i].kind = row.kind
                      /\ iv'[i].agenda # "draft"
                      /\ row.who = p
    BY DEF FinishesHold
  <2>1. CASE finishing'[p] = finishing[p]
    <3> DEFINE i == finishing[p].id
               row == finishing[p].row
    <3>1. i \in Ids /\ Locked(i)
      BY <2>1 DEF TypeOK, Finishing, Locked
    <3>2. /\ iv[i].who = row.who /\ iv[i].client = row.client /\ iv[i].kind = row.kind
          /\ iv[i].agenda # "draft" /\ row.who = p
      BY <2>1 DEF RowsInv, FinishesHold
    <3>3. iv'[i] # None /\ RowKept(i) /\ iv'[i].client = iv[i].client
          /\ (iv'[i].agenda = "draft" => iv[i].agenda = "draft")
      BY <1>1, <3>1 DEF RowsMove, RowMoves
    <3> HIDE DEF i, row
    <3>4. /\ iv'[i].who = row.who /\ iv'[i].client = row.client /\ iv'[i].kind = row.kind
          /\ iv'[i].agenda # "draft"
      BY <3>2, <3>3 DEF RowKept
    <3> QED BY <2>1, <3>2, <3>3, <3>4 DEF i, row
  <2>2. CASE FinishReads(p)
    <3> DEFINE i == Newest(Unfinished(p))
    <3>1. i \in Ids /\ iv[i] \in Row /\ iv[i] # None /\ iv[i].who = p /\ Eligible(iv[i])
      BY <2>2, FinishTakes
    <3>3. finishing'[p].id = i /\ finishing'[p].row = iv[i]
      BY <2>2, FinishTakes
    <3> HIDE DEF i
    <3>4. iv' = iv
      BY <2>2 DEF FinishReads
    <3>5. iv[i].agenda # "draft"
      BY <3>1 DEF Eligible, RowsInv, Drafts
    <3> QED BY <3>1, <3>3, <3>4, <3>5
  <2> QED BY <1>1, <2>1, <2>2 DEF RestMoves
<1>9. CurrentRounds'
  BY CurrentRoundsStep
<1> QED BY <1>5, <1>6, <1>7, <1>8, <1>9, <1>10 DEF RowsInv

(* Every state of the rows, the documents and the requests under way is    *)
(* well formed, whatever overlaps and fails, and the rows are as RowsInv   *)
(* says.                                                                   *)
THEOREM RowsAreKept == Spec => [](TypeOK /\ RowsInv)
<1>1. Init => TypeOK /\ RowsInv
  BY TypeInit, RowsInit
<1>2. TypeOK /\ RowsInv /\ [Next]_vars => (TypeOK /\ RowsInv)'
  BY TypeStep, RowsStep DEF RowsInv
<1> QED BY <1>1, <1>2, PTL DEF Spec

LEMMA ServedIsTheirs ==
  ASSUME TypeOK, NEW p \in People, Served(p) # 0
  PROVE  Served(p) \in Live /\ iv[Served(p)] \in Row
<1>1. Theirs(p) \in SUBSET (1 .. MaxInterviews)
  BY DEF Theirs, Live, Ids
<1>2. Served(p) \in Theirs(p)
  BY <1>1, Bounds, NewestIn DEF Served
<1> QED BY <1>2 DEF Theirs, Live, TypeOK

LEMMA TargetIsUnsettled ==
  ASSUME NEW rec \in Record, NEW row \in Row, HasCurrent(rec)
  PROVE  Target(rec, row) \notin Settled(rec, row.round)
<1>1. row.round \in Nat /\ rec.current \in Nat
  BY Bounds DEF Row, Record
<1>2. CASE row.round > 0
  BY <1>1, <1>2 DEF Target, Settled, BeforeOwn
<1>3. CASE row.round = 0 /\ rec.current > 0
  BY <1>1, <1>3 DEF Target, Settled
<1>4. CASE row.round = 0 /\ rec.current = 0
  BY <1>4 DEF Settled, HasCurrent
<1> QED BY <1>1, <1>2, <1>3, <1>4

(* Nobody is served a follow-up that was not approved, or the scores and   *)
(* findings of the round their own answers will go to, as long as none is  *)
(* approved while a draft of it is being written anew.                     *)
THEOREM ServesRightly ==
  ASSUME "draft" \notin Overlaps
  PROVE  Spec => []ServedRightly
<1>1. ASSUME TypeOK, RowsInv PROVE ServedRightly
  <2>1. DraftsUntouched
    BY <1>1 DEF DraftsUntouched, RowsInv, Drafts, Live, Overlap
  <2>2. OwnRoundWithheld
    <3> SUFFICES ASSUME NEW p \in People, Served(p) # 0, NEW k \in Kept
                 PROVE  Target(records[k], iv[Served(p)])
                          \notin Settled(records[k], iv[Served(p)].round)
      BY DEF OwnRoundWithheld
    <3>1. records[k] \in Record /\ HasCurrent(records[k])
      BY <1>1, NoneDiffers DEF Kept, TypeOK, RowsInv, CurrentRounds
    <3>2. iv[Served(p)] \in Row
      BY <1>1, ServedIsTheirs
    <3> QED BY <3>1, <3>2, TargetIsUnsettled
  <2> QED BY <2>1, <2>2 DEF ServedRightly
<1> QED BY <1>1, RowsAreKept, PTL

--------------------------------------------------------------------------------
(* What a finished interview keeps *)

(* A status becomes completed for the interview a completion holds, in     *)
(* progress for the one that is saved, and anything when it is edited.     *)
StatusMoves(i) ==
  iv[i] # None /\ iv'[i] # None =>
    \/ iv'[i].status = iv[i].status
    \/ iv'[i].status = "completed" /\ Locked(i)
    \/ iv'[i].status = "in_progress" /\ Saving(i)
    \/ patches' # patches /\ (Overlap("save") \/ ~Saving(i))

LEMMA StatusMovesSo ==
  ASSUME TypeOK, RowsInv, [Next]_vars, NEW i \in Ids
  PROVE  StatusMoves(i)
<1> USE NoneDiffers
<1>1. ASSUME iv' = iv PROVE StatusMoves(i)
  BY <1>1 DEF StatusMoves
<1>2. ASSUME NEW j \in Ids, NEW row, iv' = [iv EXCEPT ![j] = row],
             iv[j] = None \/ row.status = iv[j].status
      PROVE  StatusMoves(i)
  BY <1>2 DEF StatusMoves, TypeOK
<1>3. born < MaxInterviews => born + 1 \in Ids /\ iv[born + 1] = None
  BY Bounds DEF TypeOK, Ids, RowsInv, Fresh
<1>4. ASSUME NEW j \in Ids, NEW a \in {"draft", "approved"}, iv[j] # None,
             iv' = [iv EXCEPT ![j].agenda = a]
      PROVE  StatusMoves(i)
  <2>1. iv[j] \in Row /\ [iv[j] EXCEPT !.agenda = a].status = iv[j].status
    BY <1>4 DEF TypeOK, Row
  <2>2. iv' = [iv EXCEPT ![j] = [iv[j] EXCEPT !.agenda = a]]
    BY <1>4
  <2> QED BY <1>2, <2>1, <2>2
<1>5. ASSUME NEW j \in Ids, NEW s \in {"in_progress", "completed"}, iv[j] # None,
             iv' = [iv EXCEPT ![j].status = s],
             IF s = "completed" THEN Locked(j) ELSE Saving(j)
      PROVE  StatusMoves(i)
  <2>1. iv[j] \in Row /\ [iv[j] EXCEPT !.status = s].status = s
    BY <1>5 DEF TypeOK, Row
  <2>2. iv'[i] = IF i = j THEN [iv[j] EXCEPT !.status = s] ELSE iv[i]
    BY <1>5 DEF TypeOK
  <2> QED BY <1>5, <2>1, <2>2 DEF StatusMoves
<1>6. ASSUME NEW c \in Consultants, InviteRow(c) PROVE StatusMoves(i)
  BY <1>2, <1>3, <1>6 DEF InviteRow
<1>7. ASSUME NEW c \in Consultants, DraftWrites(c) PROVE StatusMoves(i)
  <2>1. CASE job[c].onto \in Live /\ iv' = [iv EXCEPT ![job[c].onto].agenda = "draft"]
    BY <1>4, <2>1 DEF Live
  <2>2. CASE born < MaxInterviews /\ iv' = [iv EXCEPT ![born + 1] = job[c].row]
    BY <1>2, <1>3, <2>2
  <2>3. CASE iv' = iv
    BY <1>1, <2>3
  <2> QED BY <1>7, <2>1, <2>2, <2>3 DEF DraftWrites
<1>8. ASSUME NEW c \in Consultants, DeleteRow(c) PROVE StatusMoves(i)
  <2>1. iv'[i] = IF i \notin Live \ {job[c].id} THEN None
                 ELSE [iv[i] EXCEPT !.parent = IF @ = job[c].id THEN 0 ELSE @]
    BY <1>8 DEF DeleteRow
  <2>2. iv[i] # None => iv[i] \in Row
    BY DEF TypeOK
  <2>3. ASSUME iv[i] # None, iv'[i] # None PROVE iv'[i].status = iv[i].status
    <3>1. iv'[i] = [iv[i] EXCEPT !.parent = IF @ = job[c].id THEN 0 ELSE @]
      BY <2>1, <2>3
    <3> QED BY <2>2, <2>3, <3>1 DEF Row
  <2> QED BY <2>3 DEF StatusMoves
<1>9. ASSUME NEW j \in Ids, Approve(j) PROVE StatusMoves(i)
  BY <1>4, <1>9 DEF Approve, Live
<1>10. ASSUME NEW j \in Ids, NEW s \in {"invited", "in_progress", "completed"},
              NEW r \in 0 .. MaxRound, NEW cl \in Clients, Patch(j, s, r, cl)
       PROVE  StatusMoves(i)
  <2>1. patches' # patches /\ (Overlap("save") \/ ~Saving(j))
    BY <1>10 DEF Patch, TypeOK
  <2>2. i # j => iv'[i] = iv[i]
    BY <1>10 DEF Patch, TypeOK
  <2> QED BY <2>1, <2>2 DEF StatusMoves
<1>11. ASSUME NEW p \in People, SaveCommits(p) PROVE StatusMoves(i)
  <2>1. saving[p] # None /\ saving[p].id \in Ids /\ Saving(saving[p].id)
    BY <1>11 DEF SaveCommits, TypeOK, Save, Saving
  <2>2. iv' = IF saving[p].first /\ iv[saving[p].id] # None
              THEN [iv EXCEPT ![saving[p].id].status = "in_progress"] ELSE iv
    BY <1>11 DEF SaveCommits
  <2> QED BY <1>1, <1>5, <2>1, <2>2
<1>12. ASSUME NEW p \in People, FinishCommits(p) \/ FinishUnmerged(p) PROVE StatusMoves(i)
  <2>1. finishing[p] # None /\ iv' = [iv EXCEPT ![finishing[p].id].status = "completed"]
    BY <1>12 DEF FinishCommits, FinishUnmerged
  <2>2. finishing[p].id \in Ids /\ iv[finishing[p].id] # None /\ Locked(finishing[p].id)
    BY <2>1 DEF TypeOK, Finishing, RowsInv, FinishesHold, Locked
  <2> QED BY <1>5, <2>1, <2>2
<1>13. CASE Next
  <2>1. CASE \E c \in Consultants :
              \/ \E w \in People, cl \in Clients, r \in 0 .. MaxRound : InviteLogin(c, w, cl, r)
              \/ InviteMember(c) \/ InviteGuard(c)
              \/ \E j \in Ids : DeleteErases(c, j) \/ DraftReads(c, j)
              \/ RevokeMembership(c) \/ RevokeLogin(c) \/ JobDies(c)
    BY <1>1, <2>1 DEF InviteLogin, InviteMember, InviteGuard, DeleteErases, DraftReads,
                      RevokeMembership, RevokeLogin, JobDies
  <2>2. CASE \E cl \in Clients : PlanRound(cl)
    BY <1>1, <2>2 DEF PlanRound
  <2>3. CASE \E p \in People : SaveReads(p) \/ FinishReads(p) \/ FinishAborts(p) \/ RequestDies(p)
    BY <1>1, <2>3 DEF SaveReads, FinishReads, FinishAborts, RequestDies
  <2> QED BY <1>6, <1>7, <1>8, <1>9, <1>10, <1>11, <1>12, <1>13, <2>1, <2>2, <2>3 DEF Next
<1>14. CASE UNCHANGED vars
  BY <1>1, <1>14 DEF vars
<1> QED BY <1>13, <1>14

LEMMA SavesApartStep ==
  ASSUME "save" \notin Overlaps, TypeOK, RowsInv, SavesApart, [Next]_vars
  PROVE  SavesApart'
<1> USE NoneDiffers
<1>1. RowsMove /\ RestMoves /\ \A i \in Ids : StatusMoves(i)
  BY RowsMoveSo, RestMovesSo, StatusMovesSo
<1>2. SUFFICES ASSUME NEW p \in People, saving'[p] # None
               PROVE  /\ finishing'[p] = None
                      /\ iv'[saving'[p].id] # None =>
                           iv'[saving'[p].id].who = p /\ iv'[saving'[p].id].status # "completed"
  BY DEF SavesApart
<1>3. CASE saving'[p] = saving[p]
  <2> DEFINE i == saving[p].id
  <2>1. /\ saving[p] # None /\ i \in Ids /\ i <= born /\ Saving(i) /\ finishing[p] = None
        /\ iv[i] # None => iv[i].who = p /\ iv[i].status # "completed"
    BY <1>2, <1>3 DEF TypeOK, Save, RowsInv, SavesHold, SavesApart, Saving
  <2>2. ~FinishReads(p)
    BY <2>1 DEF FinishReads, Overlap
  <2>3. finishing'[p] = None
    BY <1>1, <2>1, <2>2 DEF RestMoves
  <2> HIDE DEF i
  <2>4. iv[i] # None => ~Locked(i)
    BY <2>1 DEF Locked, RowsInv, FinishesHold
  <2>5. iv'[i] # None => RowKept(i)
    BY <1>1, <2>1, Bounds DEF RowsMove, RowMoves, RowCreated, TypeOK, Ids
  <2>6. iv'[i] # None => iv'[i].who = p /\ iv'[i].status # "completed"
    BY <1>1, <2>1, <2>4, <2>5 DEF RowKept, StatusMoves, Overlap
  <2> QED BY <1>3, <2>3, <2>6 DEF i
<1>4. CASE SaveIsNew(p)
  BY <1>4 DEF SaveIsNew, Overlap
<1> QED BY <1>1, <1>2, <1>3, <1>4 DEF RestMoves

(* Whoever is told that an interview is done has it completed, unless a    *)
(* failed statement rolls that back and the answer says the merge failed.  *)
LEMMA CompletionIsStored ==
  ASSUME TypeOK, RowsInv, [Next]_vars, NEW i \in Ids, told'[i] # told[i],
         told'[i].answer = "ok" \/ "aborts" \notin Faults
  PROVE  iv'[i].status = "completed"
<1>2. ASSUME NEW q \in People, FinishCommits(q) \/ FinishUnmerged(q)
      PROVE  iv'[i].status = "completed"
  <2>1. PICK what \in {"ok", "failed"} : Answer(q, what)
    BY <1>2 DEF FinishCommits, FinishUnmerged
  <2>2. i = finishing[q].id /\ finishing[q] # None
    BY <1>2, <2>1 DEF Answer, TypeOK, FinishCommits, FinishUnmerged
  <2>3. iv' = [iv EXCEPT ![finishing[q].id].status = "completed"]
    BY <1>2 DEF FinishCommits, FinishUnmerged
  <2>4. iv[i] \in Row
    BY <2>2 DEF TypeOK, RowsInv, FinishesHold
  <2>5. [iv[i] EXCEPT !.status = "completed"].status = "completed"
    BY <2>4 DEF Row
  <2> QED BY <2>2, <2>3, <2>5 DEF TypeOK
<1>6. ASSUME NEW q \in People, FinishAborts(q) PROVE FALSE
  <2>1. "aborts" \in Faults /\ Answer(q, "failed")
    BY <1>6 DEF FinishAborts
  <2>2. told'[i] = [answer |-> "failed", blob |-> 0]
    BY <2>1 DEF Answer, TypeOK
  <2> QED BY <2>1, <2>2
<1>3. ASSUME told' = told PROVE FALSE
  BY <1>3
<1>4. CASE Next
  <2>1. CASE \E c \in Consultants :
              \/ \E w \in People, cl \in Clients, r \in 0 .. MaxRound : InviteLogin(c, w, cl, r)
              \/ InviteMember(c) \/ InviteGuard(c) \/ InviteRow(c)
              \/ \E j \in Ids : DeleteErases(c, j) \/ DraftReads(c, j)
              \/ DraftWrites(c)
              \/ DeleteRow(c) \/ RevokeMembership(c) \/ RevokeLogin(c) \/ JobDies(c)
    BY <1>3, <2>1 DEF InviteLogin, InviteMember, InviteGuard, InviteRow, DeleteErases, DeleteRow,
                      DraftReads, DraftWrites, RevokeMembership, RevokeLogin, JobDies, sessions
  <2>2. CASE \E j \in Ids :
              \/ Approve(j)
              \/ \E s \in {"invited", "in_progress", "completed"}, r \in 0 .. MaxRound, cl \in Clients :
                   Patch(j, s, r, cl)
    BY <1>3, <2>2 DEF Approve, Patch, sessions
  <2>3. CASE \E cl \in Clients : PlanRound(cl)
    BY <1>3, <2>3 DEF PlanRound, sessions
  <2>4. CASE \E q \in People : SaveReads(q) \/ SaveCommits(q) \/ FinishReads(q) \/ RequestDies(q)
    BY <1>3, <2>4 DEF SaveReads, SaveCommits, FinishReads, RequestDies
  <2> QED BY <1>2, <1>4, <1>6, <2>1, <2>2, <2>3, <2>4 DEF Next
<1>5. CASE UNCHANGED vars
  BY <1>3, <1>5 DEF vars, sessions
<1> QED BY <1>4, <1>5

(* An interview somebody was told is done is completed, and neither its    *)
(* status nor its answers change until a consultant edits it, as long as   *)
(* no save of a person overlaps their completion or such an edit.          *)
THEOREM CompletionsStand ==
  ASSUME "save" \notin Overlaps
  PROVE  Spec => FinishedStands
<1>1. Init => SavesApart
  BY DEF Init, SavesApart
<1>2. TypeOK /\ RowsInv /\ SavesApart /\ [Next]_vars => SavesApart'
  BY SavesApartStep
<1>3. TypeOK /\ RowsInv /\ SavesApart /\ [Next]_vars =>
        \A i \in Ids :
          /\ (told'[i] # told[i] /\ (told'[i].answer = "ok" \/ "aborts" \notin Faults)) =>
               iv'[i].status = "completed"
          /\ (/\ told[i] # None /\ iv[i] # None /\ iv[i].status = "completed"
              /\ iv'[i] # None /\ patches' = patches) =>
               iv'[i].status = "completed" /\ saved'[i] = saved[i]
  <2> SUFFICES ASSUME TypeOK, RowsInv, SavesApart, [Next]_vars, NEW i \in Ids
      PROVE  /\ (told'[i] # told[i] /\ (told'[i].answer = "ok" \/ "aborts" \notin Faults)) =>
                  iv'[i].status = "completed"
             /\ (/\ told[i] # None /\ iv[i] # None /\ iv[i].status = "completed"
                 /\ iv'[i] # None /\ patches' = patches) =>
                  iv'[i].status = "completed" /\ saved'[i] = saved[i]
    OBVIOUS
  <2>1. StatusMoves(i) /\ RestMoves
    BY StatusMovesSo, RestMovesSo
  <2>2. iv[i] # None /\ iv[i].status = "completed" => ~Saving(i)
    BY DEF SavesApart, Saving
  <2>3. (/\ told[i] # None /\ iv[i] # None /\ iv[i].status = "completed"
         /\ iv'[i] # None /\ patches' = patches) =>
           iv'[i].status = "completed" /\ saved'[i] = saved[i]
    BY <2>1, <2>2 DEF StatusMoves, RestMoves
  <2> QED BY <2>3, CompletionIsStored
<1> QED BY <1>1, <1>2, <1>3, RowsAreKept, PTL DEF Spec, FinishedStands

--------------------------------------------------------------------------------
(* Who can sign in *)

LEMMA AccessInit == Init => AccessInv
<1> QED BY DEF Init, AccessInv

(* A step keeps AccessInv if it takes no access, starts no invitation and  *)
(* no revocation, and leaves every row its person.                         *)
LEMMA AccessKept ==
  ASSUME TypeOK, AccessInv, RowsInv, RowsMove,
         UNCHANGED access,
         \A c \in Consultants : job'[c] \in {job[c], None},
         born' = born
  PROVE  AccessInv'
<1>1. \A i \in Ids : iv'[i] # None => iv[i] # None /\ iv'[i].who = iv[i].who
  BY Bounds DEF RowsMove, RowMoves, RowKept, RowCreated, TypeOK
<1> QED BY <1>1 DEF AccessInv, access

LEMMA AccessStep ==
  ASSUME "invite" \notin Overlaps, TypeOK, RowsInv, AccessInv, [Next]_vars
  PROVE  AccessInv'
<1> USE NoneDiffers
<1>0. RowsMove
  BY RowsMoveSo
<1>1. ASSUME NEW c \in Consultants, NEW w \in People, NEW cl \in Clients, NEW r \in 0 .. MaxRound,
             InviteLogin(c, w, cl, r)
      PROVE  AccessInv'
  <2> DEFINE new == [op |-> "invite", who |-> w, client |-> cl, round |-> r, step |-> "member"]
  <2>1. /\ iv' = iv /\ members' = members /\ logins' = logins \cup {w}
        /\ \A d \in Consultants : job'[d] = IF d = c THEN new ELSE job[d]
    BY <1>1 DEF InviteLogin, TypeOK
  <2>2. \A d \in Consultants : job[d] # None /\ job[d].op = "revoke" => job[d].who # w
    BY <1>1 DEF InviteLogin, Overlap, Running
  <2>3. new.op = "invite" /\ new.who = w /\ new.step = "member"
    OBVIOUS
  <2> HIDE DEF new
  <2> QED BY <2>1, <2>2, <2>3 DEF AccessInv
<1>2. ASSUME NEW c \in Consultants, InviteMember(c) PROVE AccessInv'
  <2> DEFINE new == [job[c] EXCEPT !.step = "guard"]
  <2>1. /\ iv' = iv /\ members' = members \cup {job[c].who} /\ logins' = logins
        /\ \A d \in Consultants : job'[d] = IF d = c THEN new ELSE job[d]
    BY <1>2 DEF InviteMember, TypeOK
  <2>2. job[c] # None /\ job[c].op = "invite"
    BY <1>2 DEF InviteMember
  <2>3. new.op = "invite" /\ new.who = job[c].who
    BY <2>2, JobHas
  <2> HIDE DEF new
  <2> QED BY <2>1, <2>2, <2>3 DEF AccessInv
<1>3. ASSUME NEW c \in Consultants, InviteGuard(c) PROVE AccessInv'
  <2> DEFINE new == [job[c] EXCEPT !.step = "row"]
  <2>1. /\ iv' = iv /\ members' = members /\ logins' = logins
        /\ \A d \in Consultants : job'[d] = job[d] \/ (d = c /\ job'[d] \in {None, new})
    BY <1>3 DEF InviteGuard, TypeOK, access
  <2>2. job[c] # None /\ job[c].op = "invite" /\ job[c].step = "guard"
    BY <1>3 DEF InviteGuard
  <2>3. new.op = "invite" /\ new.who = job[c].who
    BY <2>2, JobHas
  <2> HIDE DEF new
  <2> QED BY <2>1, <2>2, <2>3 DEF AccessInv
<1>4. ASSUME NEW c \in Consultants, InviteRow(c) PROVE AccessInv'
  <2>1. job[c] # None /\ job[c].op = "invite" /\ job[c].step = "row"
    BY <1>4 DEF InviteRow
  <2>2. job[c].who \in members /\ job[c].who \in logins
    BY <2>1 DEF AccessInv
  <2>3. \A i \in Ids : iv'[i] = iv[i] \/ iv'[i].who = job[c].who
    BY <1>4 DEF InviteRow, Row0, TypeOK
  <2>4. \A d \in Consultants : job[d] # None /\ job[d].op = "revoke" => job[d].who # job[c].who
    BY <2>1 DEF AccessInv
  <2>5. /\ members' = members /\ logins' = logins
        /\ \A d \in Consultants : job'[d] \in {job[d], None}
    BY <1>4 DEF InviteRow, TypeOK, access
  <2> QED BY <2>2, <2>3, <2>4, <2>5 DEF AccessInv
<1>5. ASSUME NEW c \in Consultants, NEW i \in Ids, DraftReads(c, i) PROVE AccessInv'
  <2> DEFINE new == [op |-> "draft", id |-> i, row |-> FollowUp(iv[i], i), onto |-> Newest(Pending(i))]
  <2>1. /\ iv' = iv /\ members' = members /\ logins' = logins
        /\ \A d \in Consultants : job'[d] = IF d = c THEN new ELSE job[d]
    BY <1>5 DEF DraftReads, TypeOK, access
  <2>2. new.op = "draft"
    OBVIOUS
  <2> HIDE DEF new
  <2> QED BY <2>1, <2>2 DEF AccessInv
<1>13. ASSUME NEW c \in Consultants, DraftWrites(c) PROVE AccessInv'
  <2>1. /\ job[c] # None /\ job[c].op = "draft" /\ job[c].id \in Ids
        /\ DraftKnows(job[c])
    BY <1>13, JobHas DEF DraftWrites, RowsInv, DraftsKnow
  <2>2. /\ members' = members /\ logins' = logins
        /\ \A d \in Consultants : job'[d] \in {job[d], None}
    BY <1>13 DEF DraftWrites, TypeOK, access
  <2>3. CASE job[c].onto # 0
    <3>1. born' = born
      BY <1>13, <2>3 DEF DraftWrites
    <3>2. \A i \in Ids : iv'[i] # None => iv[i] # None /\ iv'[i].who = iv[i].who
      BY <1>0, <3>1, Bounds DEF RowsMove, RowMoves, RowKept, RowCreated, TypeOK
    <3> QED BY <2>2, <3>2 DEF AccessInv
  <2>4. CASE job[c].onto = 0 /\ job[c].id \in Live
    <3>1. iv[job[c].id] # None /\ job[c].row.who = iv[job[c].id].who
      BY <2>1, <2>4 DEF DraftKnows, Live
    <3>2. \A i \in Ids : iv'[i] = iv[i] \/ iv'[i].who = job[c].row.who
      BY <1>13, <2>4 DEF DraftWrites, TypeOK
    <3> QED BY <2>1, <2>2, <3>1, <3>2 DEF AccessInv
  <2>5. CASE job[c].onto = 0 /\ job[c].id \notin Live
    <3>1. iv' = iv
      BY <1>13, <2>5 DEF DraftWrites
    <3> QED BY <2>2, <3>1 DEF AccessInv
  <2> QED BY <2>3, <2>4, <2>5
<1>6. ASSUME NEW c \in Consultants, NEW i \in Ids, DeleteErases(c, i) PROVE AccessInv'
  <2> DEFINE new == [op |-> "delete", id |-> i, who |-> iv[i].who, erased |-> Erased(i)]
  <2>1. /\ iv' = iv /\ members' = members /\ logins' = logins
        /\ \A d \in Consultants : job'[d] = IF d = c THEN new ELSE job[d]
    BY <1>6 DEF DeleteErases, TypeOK, access
  <2>2. new.op = "delete"
    OBVIOUS
  <2> HIDE DEF new
  <2> QED BY <2>1, <2>2 DEF AccessInv
<1>7. ASSUME NEW c \in Consultants, DeleteRow(c) PROVE AccessInv'
  <2> DEFINE w == job[c].who
             new == [op |-> "revoke", who |-> w, step |-> "membership"]
  <2>1. /\ members' = members /\ logins' = logins
        /\ \A d \in Consultants :
             job'[d] = IF d = c THEN IF HasOthers(w, job[c].id) THEN None ELSE new ELSE job[d]
    BY <1>7 DEF DeleteRow, TypeOK, access
  <2>2. \A d \in Consultants : job[d] # None /\ job[d].op = "invite" => job[d].who # w
    BY <1>7 DEF DeleteRow, Overlap, Running
  <2>3. job[c].op = "delete" /\ job[c] # None
    BY <1>7 DEF DeleteRow
  <2>4. \A i \in Ids : iv'[i] # None => iv[i] # None /\ iv'[i].who = iv[i].who
    <3>1. born' = born
      BY <1>7 DEF DeleteRow
    <3> QED BY <1>0, <3>1, Bounds DEF RowsMove, RowMoves, RowKept, RowCreated, TypeOK
  <2>5. iv'[job[c].id] = None \/ job[c].id \notin Ids
    BY <1>7 DEF DeleteRow
  <2>6. ~HasOthers(w, job[c].id) => \A i \in Ids : iv'[i] # None => iv'[i].who # w
    BY <2>4, <2>5 DEF HasOthers, Live
  <2>7. new.op = "revoke" /\ new.who = w
    OBVIOUS
  <2> HIDE DEF new, w
  <2> QED BY <2>1, <2>2, <2>4, <2>6, <2>7 DEF AccessInv
<1>8. ASSUME NEW c \in Consultants, RevokeMembership(c) PROVE AccessInv'
  <2> DEFINE new == [job[c] EXCEPT !.step = "login"]
  <2>1. /\ iv' = iv /\ members' = members \ {job[c].who} /\ logins' = logins
        /\ \A d \in Consultants : job'[d] = job[d] \/ (d = c /\ job'[d] \in {None, new})
    BY <1>8 DEF RevokeMembership, TypeOK
  <2>2. job[c] # None /\ job[c].op = "revoke"
    BY <1>8 DEF RevokeMembership
  <2>3. new.op = "revoke" /\ new.who = job[c].who
    BY <2>2, JobHas
  <2> HIDE DEF new
  <2> QED BY <2>1, <2>2, <2>3 DEF AccessInv
<1>9. ASSUME NEW c \in Consultants, RevokeLogin(c) PROVE AccessInv'
  <2>1. /\ iv' = iv /\ members' = members /\ logins' \in {logins, logins \ {job[c].who}}
        /\ \A d \in Consultants : job'[d] \in {job[d], None}
    BY <1>9 DEF RevokeLogin, TypeOK
  <2>2. job[c] # None /\ job[c].op = "revoke"
    BY <1>9 DEF RevokeLogin
  <2> QED BY <2>1, <2>2 DEF AccessInv
<1>10. ASSUME UNCHANGED access, born' = born, \A c \in Consultants : job'[c] \in {job[c], None}
       PROVE  AccessInv'
  BY <1>0, <1>10, AccessKept
<1>11. CASE Next
  <2>1. CASE \E c \in Consultants : JobDies(c)
    <3>1. PICK c \in Consultants : JobDies(c)
      BY <2>1
    <3>2. \A d \in Consultants : job'[d] \in {job[d], None}
      BY <3>1 DEF JobDies, TypeOK
    <3> QED BY <1>10, <3>1, <3>2 DEF JobDies
  <2>2. CASE \E i \in Ids :
              \/ Approve(i)
              \/ \E s \in {"invited", "in_progress", "completed"}, r \in 0 .. MaxRound, cl \in Clients :
                   Patch(i, s, r, cl)
    BY <1>10, <2>2 DEF Approve, Patch
  <2>3. CASE \E cl \in Clients : PlanRound(cl)
    BY <1>10, <2>3 DEF PlanRound
  <2>4. CASE \E p \in People : SaveReads(p) \/ SaveCommits(p) \/ FinishReads(p) \/ FinishCommits(p)
                                \/ FinishUnmerged(p) \/ FinishAborts(p) \/ RequestDies(p)
    BY <1>10, <2>4 DEF SaveReads, SaveCommits, FinishReads, FinishCommits, FinishUnmerged, FinishAborts,
                       RequestDies
  <2> QED BY <1>1, <1>2, <1>3, <1>4, <1>5, <1>6, <1>7, <1>8, <1>9, <1>11, <1>13,
             <2>1, <2>2, <2>3, <2>4 DEF Next
<1>12. CASE UNCHANGED vars
  BY <1>10, <1>12 DEF vars, access
<1> QED BY <1>11, <1>12

(* Whoever has an interview left can sign in for it, unless an invitation  *)
(* of a person overlaps a deletion of theirs.                              *)
THEOREM EveryoneInvitedSignsIn ==
  ASSUME "invite" \notin Overlaps
  PROVE  Spec => []InvitedCanSignIn
<1>1. Init => AccessInv
  BY AccessInit
<1>2. TypeOK /\ RowsInv /\ AccessInv /\ [Next]_vars => AccessInv'
  BY AccessStep
<1>3. AccessInv => InvitedCanSignIn
  BY DEF AccessInv, InvitedCanSignIn, Live
<1> QED BY <1>1, <1>2, <1>3, RowsAreKept, PTL DEF Spec

--------------------------------------------------------------------------------
(* What a deletion leaves *)

(* A row goes only by its deletion, a transcript comes only with its       *)
(* completion, and a deletion is as it was or has just read its row.       *)
DeletionsMove ==
  /\ \A i \in Ids : iv[i] # None /\ iv'[i] = None =>
       \E c \in Consultants : DeleteRow(c) /\ job[c].id = i
  /\ \A t \in transcripts' : t \in transcripts \/ Locked(t.source)
  /\ \A c \in Consultants : job'[c] # None /\ job'[c].op = "delete" =>
       job'[c] = job[c] \/ \E i \in Ids : DeleteErases(c, i)

LEMMA DeletionsMoveSo ==
  ASSUME TypeOK, RowsInv, [Next]_vars
  PROVE  DeletionsMove
<1> USE NoneDiffers
<1>1. ASSUME UNCHANGED transcripts,
             \A i \in Ids : iv'[i] = None => iv[i] = None,
             \A c \in Consultants : job'[c] # None /\ job'[c].op = "delete" => job'[c] = job[c]
      PROVE  DeletionsMove
  BY <1>1 DEF DeletionsMove
<1>2. ASSUME NEW c \in Consultants,
             \/ \E w \in People, cl \in Clients, r \in 0 .. MaxRound : InviteLogin(c, w, cl, r)
             \/ RevokeLogin(c) \/ JobDies(c)
      PROVE  DeletionsMove
  BY <1>1, <1>2 DEF InviteLogin, RevokeLogin, JobDies, TypeOK
<1>3. ASSUME NEW c \in Consultants, InviteMember(c) \/ InviteGuard(c) \/ RevokeMembership(c)
      PROVE  DeletionsMove
  <2>1. job[c] # None /\ job[c].op \in {"invite", "revoke"}
    BY <1>3 DEF InviteMember, InviteGuard, RevokeMembership
  <2>2. \A s \in {"guard", "row", "login"} : [job[c] EXCEPT !.step = s].op = job[c].op
    BY <2>1, JobHas
  <2>3. \A d \in Consultants :
          job'[d] = job[d] \/ job'[d] = None \/ job'[d].op \in {"invite", "revoke"}
    BY <1>3, <2>1, <2>2 DEF InviteMember, InviteGuard, RevokeMembership, TypeOK
  <2> QED BY <1>1, <1>3, <2>3 DEF InviteMember, InviteGuard, RevokeMembership
<1>4. ASSUME NEW c \in Consultants, InviteRow(c) PROVE DeletionsMove
  <2>1. job[c] \in Job /\ job[c].op = "invite"
    BY <1>4 DEF InviteRow, TypeOK
  <2>2. Row0(job[c].who, job[c].client, job[c].round) \in Row
    BY <2>1 DEF Job, Row0, Row
  <2> QED BY <1>1, <1>4, <2>2 DEF InviteRow, TypeOK
<1>5. ASSUME NEW c \in Consultants, NEW i \in Ids, DeleteErases(c, i) PROVE DeletionsMove
  <2>1. \A d \in Consultants : job'[d] = job[d] \/ d = c
    BY <1>5 DEF DeleteErases, TypeOK
  <2> QED BY <1>5, <2>1 DEF DeleteErases, DeletionsMove
<1>6. ASSUME NEW c \in Consultants, DeleteRow(c) PROVE DeletionsMove
  <2>1. \A t \in transcripts' : t \in transcripts
    BY <1>6 DEF DeleteRow
  <2>2. \A d \in Consultants : job'[d] = job[d] \/ job'[d] = None \/ job'[d].op = "revoke"
    BY <1>6 DEF DeleteRow, TypeOK
  <2>3. \A i \in Ids : iv[i] # None /\ iv'[i] = None => job[c].id = i
    <3> SUFFICES ASSUME NEW i \in Ids, iv[i] # None, i # job[c].id PROVE iv'[i] # None
      OBVIOUS
    <3>1. iv'[i] = [iv[i] EXCEPT !.parent = IF @ = job[c].id THEN 0 ELSE @]
      BY <1>6 DEF DeleteRow, Live
    <3>2. [iv[i] EXCEPT !.parent = IF @ = job[c].id THEN 0 ELSE @] \in Row
      BY DEF TypeOK, Row
    <3> QED BY <3>1, <3>2
  <2> QED BY <1>6, <2>1, <2>2, <2>3 DEF DeletionsMove
<1>8. ASSUME NEW i \in Ids,
             \/ Approve(i)
             \/ \E s \in {"invited", "in_progress", "completed"}, r \in 0 .. MaxRound, cl \in Clients :
                  Patch(i, s, r, cl)
      PROVE  DeletionsMove
  <2>1. iv[i] \in Row /\ job' = job /\ transcripts' = transcripts
    BY <1>8 DEF Approve, Patch, Live, TypeOK
  <2>3. CASE Approve(i)
    <3>1. [iv[i] EXCEPT !.agenda = "approved"] \in Row
      BY <2>1 DEF Row
    <3> QED BY <1>1, <2>1, <2>3, <3>1 DEF Approve, TypeOK
  <2>4. ASSUME NEW s \in {"invited", "in_progress", "completed"}, NEW r \in 0 .. MaxRound,
               NEW cl \in Clients, Patch(i, s, r, cl)
        PROVE  DeletionsMove
    <3>1. [iv[i] EXCEPT !.status = s, !.round = r, !.client = cl] \in Row
      BY <2>1 DEF Row
    <3>2. \A j \in Ids : iv'[j] = IF j = i THEN [iv[i] EXCEPT !.status = s, !.round = r, !.client = cl]
                                  ELSE iv[j]
      BY <2>4 DEF Patch, TypeOK
    <3> QED BY <1>1, <2>1, <3>1, <3>2
  <2> QED BY <1>8, <2>3, <2>4
<1>13. ASSUME NEW c \in Consultants, NEW i \in Ids, DraftReads(c, i) PROVE DeletionsMove
  <2>1. \A d \in Consultants : job'[d] = job[d] \/ job'[d].op = "draft"
    BY <1>13 DEF DraftReads, TypeOK
  <2> QED BY <1>1, <1>13, <2>1 DEF DraftReads
<1>14. ASSUME NEW c \in Consultants, DraftWrites(c) PROVE DeletionsMove
  <2>1. job[c].row \in Row /\ job[c].onto \in Ids \cup {0}
    BY <1>14, JobHas DEF DraftWrites
  <2>2. \A i \in Live : [iv[i] EXCEPT !.agenda = "draft"] \in Row
    BY DEF Live, TypeOK, Row
  <2>3. \A j \in Ids : iv'[j] = iv[j] \/ iv'[j] \in Row
    BY <1>14, <2>1, <2>2 DEF DraftWrites, TypeOK
  <2>4. \A d \in Consultants : job'[d] \in {job[d], None}
    BY <1>14 DEF DraftWrites, TypeOK
  <2> QED BY <1>1, <1>14, <2>3, <2>4 DEF DraftWrites
<1>9. ASSUME NEW p \in People, SaveCommits(p) PROVE DeletionsMove
  <2> DEFINE i == saving[p].id
  <2>1. i \in Ids
    BY <1>9 DEF SaveCommits, TypeOK, Save
  <2>2. iv[i] # None => [iv[i] EXCEPT !.status = "in_progress"] \in Row
    BY <2>1 DEF TypeOK, Row
  <2>3. \A j \in Ids : iv'[j] = iv[j] \/ iv'[j] \in Row
    BY <1>9, <2>1, <2>2 DEF SaveCommits, TypeOK
  <2> QED BY <1>1, <1>9, <2>3 DEF SaveCommits
<1>10. ASSUME NEW p \in People, FinishCommits(p) \/ FinishUnmerged(p) PROVE DeletionsMove
  <2> DEFINE f == finishing[p]
  <2>1. f # None /\ f.id \in Ids /\ iv[f.id] \in Row
    BY <1>10 DEF FinishCommits, FinishUnmerged, TypeOK, Finishing, RowsInv, FinishesHold
  <2>2. [iv[f.id] EXCEPT !.status = "completed"] \in Row
    BY <2>1 DEF Row
  <2>3. \A j \in Ids : iv'[j] = iv[j] \/ iv'[j] \in Row
    BY <1>10, <2>1, <2>2 DEF FinishCommits, FinishUnmerged, TypeOK
  <2>4. transcripts' = transcripts \cup Transcribed(f) /\ job' = job
    BY <1>10 DEF FinishCommits, FinishUnmerged
  <2>5. \A t \in Transcribed(f) : Locked(t.source)
    BY <2>1 DEF Transcribed, Locked
  <2> QED BY <2>3, <2>4, <2>5 DEF DeletionsMove
<1>11. CASE Next
  <2>1. CASE \E cl \in Clients : PlanRound(cl)
    BY <1>1, <2>1 DEF PlanRound
  <2>2. CASE \E p \in People : SaveReads(p) \/ FinishReads(p) \/ FinishAborts(p) \/ RequestDies(p)
    BY <1>1, <2>2 DEF SaveReads, FinishReads, FinishAborts, RequestDies
  <2> QED BY <1>2, <1>3, <1>4, <1>5, <1>6, <1>8, <1>9, <1>10, <1>11, <1>13, <1>14, <2>1, <2>2 DEF Next
<1>12. CASE UNCHANGED vars
  BY <1>1, <1>12 DEF vars
<1> QED BY <1>11, <1>12

LEMMA ErasureStep ==
  ASSUME "erase" \notin Overlaps, TypeOK, RowsInv, ErasureInv, [Next]_vars
  PROVE  ErasureInv'
<1> USE NoneDiffers
<1>1. RestMoves /\ DeletionsMove /\ TypeOK'
  BY RestMovesSo, DeletionsMoveSo, TypeStep DEF RowsInv
<1>2. \A i \in Ids : Saving(i) \/ Locked(i) => iv[i] # None
  BY DEF Saving, Locked, ErasureInv, RowsInv, FinishesHold
<1>3. ASSUME NEW c \in Consultants, DeleteRow(c)
      PROVE  ~Locked(job[c].id) /\ ~Saving(job[c].id)
  BY <1>3 DEF DeleteRow, ErasureInv, Saving
<1>4. ASSUME NEW i \in Ids, iv'[i] = None
      PROVE  OfInterview(i)' = {} /\ saved'[i] = 0
  <2>1. CASE iv[i] = None
    <3>1. OfInterview(i) = {} /\ saved[i] = 0 /\ ~Locked(i) /\ ~Saving(i)
      BY <1>2, <2>1 DEF ErasureInv
    <3>2. saved'[i] = 0
      BY <1>1, <3>1 DEF RestMoves
    <3> QED BY <1>1, <3>1, <3>2 DEF DeletionsMove, OfInterview
  <2>2. CASE iv[i] # None
    <3>1. PICK c \in Consultants : DeleteRow(c) /\ job[c].id = i
      BY <1>1, <1>4, <2>2 DEF DeletionsMove
    <3>2. OfInterview(i) \subseteq job[c].erased
      BY <3>1 DEF DeleteRow, ErasureInv
    <3>3. transcripts' = transcripts \ job[c].erased /\ saved'[i] = 0
      BY <3>1 DEF DeleteRow, TypeOK
    <3> QED BY <3>2, <3>3 DEF OfInterview
  <2> QED BY <2>1, <2>2
<1>5. ASSUME NEW p \in People, saving'[p] # None
      PROVE  iv'[saving'[p].id] # None
  <2>1. CASE saving'[p] = saving[p]
    <3>1. saving[p].id \in Ids /\ iv[saving[p].id] # None /\ Saving(saving[p].id)
      BY <1>5, <2>1 DEF TypeOK, Save, ErasureInv, Saving
    <3> QED BY <1>1, <1>3, <2>1, <3>1 DEF DeletionsMove
  <2>2. CASE SaveIsNew(p)
    BY <2>2 DEF SaveIsNew
  <2> QED BY <1>1, <1>5, <2>1, <2>2 DEF RestMoves
<1>6. ASSUME NEW c \in Consultants, job'[c] # None, job'[c].op = "delete",
             NEW i \in Ids, job'[c].id = i
      PROVE  /\ \A t \in transcripts' : t.source = i => t \in job'[c].erased
             /\ \A p \in People :
                  /\ saving'[p] # None => saving'[p].id # i
                  /\ finishing'[p] # None => finishing'[p].id # i
  <2>1. ASSUME NEW j \in Ids, DeleteErases(c, j)
        PROVE  /\ \A t \in transcripts' : t.source = i => t \in job'[c].erased
               /\ \A p \in People :
                    /\ saving'[p] # None => saving'[p].id # i
                    /\ finishing'[p] # None => finishing'[p].id # i
    <3>1. /\ job'[c].id = j /\ job'[c].erased = OfInterview(j)
          /\ UNCHANGED <<transcripts, saving, finishing>>
          /\ ~Locked(j) /\ ~Saving(j)
      BY <2>1 DEF DeleteErases, TypeOK, sessions, Overlap, Erased
    <3> QED BY <1>6, <3>1 DEF OfInterview, Locked, Saving
  <2>2. CASE job'[c] = job[c]
    <3>1. /\ \A t \in transcripts : t.source = i => t \in job[c].erased
          /\ \A p \in People :
               /\ saving[p] # None => saving[p].id # i
               /\ finishing[p] # None => finishing[p].id # i
      BY <1>6, <2>2 DEF ErasureInv, OfInterview
    <3>2. Erasing(i) /\ ~Locked(i)
      <4>1. job[c] \in Running("delete")
        BY <1>6, <2>2 DEF Running
      <4>2. Erasing(i)
        BY <1>6, <2>2, <4>1 DEF Erasing
      <4> QED BY <3>1, <4>2 DEF Locked
    <3>3. \A t \in transcripts' : t.source = i => t \in job'[c].erased
      BY <1>1, <2>2, <3>1, <3>2 DEF DeletionsMove
    <3>4. ASSUME NEW p \in People, saving'[p] # None PROVE saving'[p].id # i
      <4>1. CASE saving'[p] = saving[p]
        BY <3>1, <3>4, <4>1
      <4>2. CASE SaveIsNew(p)
        <5>1. ~Erasing(saving'[p].id)
          BY <4>2 DEF SaveIsNew, Overlap
        <5> QED BY <3>2, <5>1
      <4> QED BY <1>1, <3>4, <4>1, <4>2 DEF RestMoves
    <3>5. ASSUME NEW p \in People, finishing'[p] # None PROVE finishing'[p].id # i
      <4>1. CASE FinishReads(p)
        <5> DEFINE n == Newest(Unfinished(p))
        <5>1. ~Erasing(n)
          BY <4>1, FinishTakes DEF Overlap
        <5>2. finishing'[p].id = n
          BY <4>1, FinishTakes
        <5> HIDE DEF n
        <5> QED BY <3>2, <5>1, <5>2
      <4> QED BY <1>1, <3>1, <3>5, <4>1 DEF RestMoves
    <3> QED BY <3>3, <3>4, <3>5
  <2> QED BY <1>1, <1>6, <2>1, <2>2 DEF DeletionsMove
<1>7. \A c \in Consultants : job'[c] # None /\ job'[c].op = "delete" => job'[c].id \in Ids
  BY <1>1 DEF TypeOK, Job
<1>8. \A i \in Ids : iv'[i] = None => (\A t \in transcripts' : t.source # i) /\ saved'[i] = 0
  BY <1>4 DEF OfInterview
<1> QED BY <1>5, <1>6, <1>7, <1>8 DEF ErasureInv, OfInterview

(* A deleted interview leaves neither its conversation nor its session     *)
(* state, unless the deletion overlaps what the interviewee does with it.  *)
THEOREM DeletionErases ==
  ASSUME "erase" \notin Overlaps
  PROVE  Spec => []ErasedIsGone
<1>1. Init => ErasureInv
  BY DEF Init, ErasureInv, OfInterview
<1>2. TypeOK /\ RowsInv /\ ErasureInv /\ [Next]_vars => ErasureInv'
  BY ErasureStep
<1>3. ErasureInv => ErasedIsGone
  BY DEF ErasureInv, ErasedIsGone
<1> QED BY <1>1, <1>2, <1>3, RowsAreKept, PTL DEF Spec

--------------------------------------------------------------------------------
(* What a merge does to a record *)

(* A round counts every interview and every person's first one once; what  *)
(* is archived gave way to another of the same person.                     *)
Firsts(es, p) == {n \in 1 .. Len(es) : es[n].who = p /\ ~es[n].followUp}

OnceIn(round) ==
  /\ \A m, n \in 1 .. Len(round.entries) :
       round.entries[m].source = round.entries[n].source => m = n
  /\ \A p \in People : \A m, n \in Firsts(round.entries, p) : m = n
  /\ \A a \in Range(round.superseded) : Firsts(round.entries, a.who) # {}

(* The answers of an interview that a round has, counted or archived, as   *)
(* long as its archive is not full.                                        *)
HasIn(round, i, b) ==
  \/ Len(round.superseded) = ArchiveMost
  \/ \E e \in Range(round.entries) \cup Range(round.superseded) : e.source = i /\ e.blob = b

LEMMA UpsertedCounts ==
  ASSUME NEW round \in RoundRecord, NEW f \in Entry
  PROVE  LET new == Upserted(round, f) IN
         /\ f \in Range(new.entries)
         /\ \A e \in Range(new.entries) : e = f \/ e \in Range(round.entries)
         /\ \A i, b : i # f.source /\ HasIn(round, i, b) => HasIn(new, i, b)
<1> DEFINE new == Upserted(round, f)
           es == round.entries
<1>0. es \in Seq(Entry)
  BY DEF RoundRecord
<1>1. es \in Seq(Entry) /\ Len(es) \in Nat /\ Range(es) = {es[n] : n \in 1 .. Len(es)}
  BY <1>0, RangeEquality, LenProperties
<1>2. new.entries \in Seq(Entry)
      /\ Range(new.entries) = {new.entries[n] : n \in 1 .. Len(new.entries)}
  <2>1. new.entries \in Seq(Entry)
    BY UpsertedIs DEF RoundRecord
  <2> QED BY <2>1, RangeEquality
<1>3. CASE At(round, f) = {}
  <2>1. new.entries = Append(es, f) /\ new.superseded = round.superseded
    BY <1>3, UpsertedIs
  <2> HIDE DEF new
  <2>2. /\ Len(new.entries) = Len(es) + 1 /\ new.entries[Len(es) + 1] = f
        /\ \A n \in 1 .. Len(es) : new.entries[n] = es[n]
    BY <1>1, <2>1, AppendProperties
  <2>3. f \in Range(new.entries) /\ Range(es) \subseteq Range(new.entries)
    BY <1>1, <1>2, <2>2
  <2>4. \A n \in 1 .. Len(new.entries) : new.entries[n] = f \/ n \in 1 .. Len(es)
    BY <1>1, <2>2
  <2>5. \A e \in Range(new.entries) : e = f \/ e \in Range(es)
    BY <1>1, <1>2, <2>2, <2>4
  <2>6. \A i, b : HasIn(round, i, b) => HasIn(new, i, b)
    BY <2>1, <2>3 DEF HasIn
  <2> QED BY <2>3, <2>5, <2>6 DEF new
<1>4. CASE At(round, f) # {}
  <2>1. PICK n \in At(round, f) :
          /\ new.entries = [es EXCEPT ![n] = f]
          /\ new.superseded = IF es[n].source = f.source THEN round.superseded
                              ELSE Shelved(round.superseded, es[n])
    BY <1>4, UpsertedIs
  <2> HIDE DEF new
  <2>2. n \in 1 .. Len(es)
    BY DEF At
  <2>3. /\ Len(new.entries) = Len(es) /\ new.entries[n] = f
        /\ \A m \in 1 .. Len(es) : m # n => new.entries[m] = es[m]
    BY <1>1, <2>1, <2>2, ExceptSeq
  <2>4. f \in Range(new.entries)
    BY <1>2, <2>2, <2>3
  <2>5. \A e \in Range(new.entries) : e = f \/ e \in Range(es)
    BY <1>1, <1>2, <2>3
  <2>7. es[n] \in Entry /\ round.superseded \in Seq(Entry)
        /\ Len(round.superseded) =< ArchiveMost /\ Len(round.superseded) \in Nat
    <3>1. round.superseded \in Seq(Entry) /\ Len(round.superseded) =< ArchiveMost
      BY DEF RoundRecord
    <3> QED BY <1>1, <2>2, <3>1, ElementOfSeq, LenProperties
  <2>8. /\ Len(round.superseded) = ArchiveMost => Len(new.superseded) = ArchiveMost
        /\ Len(round.superseded) < ArchiveMost =>
             /\ Range(round.superseded) \subseteq Range(new.superseded)
             /\ es[n].source # f.source => es[n] \in Range(new.superseded)
    <3>1. CASE es[n].source = f.source
      BY <2>1, <3>1
    <3>2. CASE es[n].source # f.source
      <4>1. new.superseded = Shelved(round.superseded, es[n])
        BY <2>1, <3>2
      <4> QED BY <2>7, <4>1, ShelvedIs
    <3> QED BY <3>1, <3>2
  <2>6. ASSUME NEW i, NEW b, i # f.source, HasIn(round, i, b) PROVE HasIn(new, i, b)
    <3>0. CASE Len(round.superseded) = ArchiveMost
      BY <2>8, <3>0 DEF HasIn
    <3>4. ASSUME Len(round.superseded) # ArchiveMost
          PROVE  Len(round.superseded) < ArchiveMost
      BY <2>7, <3>4, BoundAssumption
    <3> SUFFICES ASSUME Len(round.superseded) < ArchiveMost,
                        Len(round.superseded) # ArchiveMost
                 PROVE  HasIn(new, i, b)
      BY <3>0, <3>4
    <3>1. PICK e \in Range(es) \cup Range(round.superseded) : e.source = i /\ e.blob = b
      BY <2>6 DEF HasIn
    <3>2. CASE e \in Range(round.superseded)
      <4>1. e \in Range(new.superseded)
        BY <2>8, <3>2
      <4> QED BY <3>1, <4>1 DEF HasIn
    <3>3. ASSUME NEW m \in 1 .. Len(es), e = es[m] PROVE HasIn(new, i, b)
      <4>1. CASE m = n
        <5>1. e \in Range(new.superseded)
          BY <2>6, <2>8, <3>1, <3>3, <4>1
        <5> QED BY <3>1, <5>1 DEF HasIn
      <4>2. CASE m # n
        <5>1. e \in Range(new.entries)
          BY <1>2, <2>3, <3>3, <4>2
        <5> QED BY <3>1, <5>1 DEF HasIn
      <4> QED BY <4>1, <4>2
    <3> QED BY <1>1, <3>1, <3>2, <3>3
  <2> QED BY <2>4, <2>5, <2>6 DEF new
<1> QED BY <1>3, <1>4

LEMMA UpsertedOnce ==
  ASSUME NEW round \in RoundRecord, NEW f \in Entry, OnceIn(round),
         \A e \in Range(round.entries) :
           e.source = f.source => e.who = f.who /\ e.followUp = f.followUp
  PROVE  OnceIn(Upserted(round, f))
<1> DEFINE new == Upserted(round, f)
           es == round.entries
<1>0. es \in Seq(Entry)
  BY DEF RoundRecord
<1>1. es \in Seq(Entry) /\ Len(es) \in Nat /\ Range(es) = {es[n] : n \in 1 .. Len(es)}
  BY <1>0, RangeEquality, LenProperties
<1>2. \A n \in 1 .. Len(es) :
        /\ es[n].who \in People /\ es[n].followUp \in BOOLEAN
        /\ es[n].source = f.source => es[n].who = f.who /\ es[n].followUp = f.followUp
  <2>1. \A n \in 1 .. Len(es) : es[n] \in Entry /\ es[n] \in Range(es)
    BY <1>1, ElementOfSeq
  <2> QED BY <2>1 DEF Entry
<1>3. f.who \in People /\ f.followUp \in BOOLEAN
  BY DEF Entry
<1>4. \A n \in 1 .. Len(es) : n \in At(round, f) <=>
        es[n].source = f.source \/ (~es[n].followUp /\ ~f.followUp /\ es[n].who = f.who)
  BY DEF At, Replaces, SamePerson
<1>5. CASE At(round, f) = {}
  <2>1. new.entries = Append(es, f) /\ new.superseded = round.superseded
    BY <1>5, UpsertedIs
  <2> HIDE DEF new
  <2>2. /\ Len(new.entries) = Len(es) + 1 /\ new.entries[Len(es) + 1] = f
        /\ \A n \in 1 .. Len(es) : new.entries[n] = es[n]
    BY <1>1, <2>1, AppendProperties
  <2>3. \A n \in 1 .. Len(new.entries) : n = Len(es) + 1 \/ n \in 1 .. Len(es)
    BY <1>1, <2>2
  <2>4. \A m, n \in 1 .. Len(new.entries) :
          new.entries[m].source = new.entries[n].source => m = n
    <3>1. \A m, n \in 1 .. Len(es) : es[m].source = es[n].source => m = n
      BY DEF OnceIn
    <3>2. \A n \in 1 .. Len(es) : es[n].source # f.source
      BY <1>4, <1>5
    <3> HIDE DEF es
    <3> QED BY <2>2, <2>3, <3>1, <3>2
  <2>5. \A p \in People : \A m, n \in Firsts(new.entries, p) : m = n
    <3> SUFFICES ASSUME NEW p \in People, NEW m \in Firsts(new.entries, p),
                        NEW n \in Firsts(new.entries, p)
                 PROVE  m = n
      OBVIOUS
    <3>1. \A k \in Firsts(new.entries, p) : k \in Firsts(es, p) \/ k = Len(es) + 1
      BY <2>2, <2>3 DEF Firsts
    <3>2. Len(es) + 1 \in Firsts(new.entries, p) => Firsts(es, p) = {}
      BY <1>2, <1>4, <1>5, <2>2 DEF Firsts
    <3> QED BY <3>1, <3>2 DEF OnceIn
  <2>6. \A a \in Range(new.superseded) : Firsts(new.entries, a.who) # {}
    <3> SUFFICES ASSUME NEW a \in Range(round.superseded) PROVE Firsts(new.entries, a.who) # {}
      BY <2>1
    <3>1. PICK n \in Firsts(es, a.who) : TRUE
      BY DEF OnceIn
    <3>2. n \in Firsts(new.entries, a.who)
      BY <1>1, <2>2, <3>1 DEF Firsts
    <3> QED BY <3>2
  <2> QED BY <2>4, <2>5, <2>6 DEF OnceIn, new
<1>6. CASE At(round, f) # {}
  <2>1. PICK n \in At(round, f) :
          /\ new.entries = [es EXCEPT ![n] = f]
          /\ new.superseded = IF es[n].source = f.source THEN round.superseded
                              ELSE Shelved(round.superseded, es[n])
    BY <1>6, UpsertedIs
  <2> HIDE DEF new
  <2>2. n \in 1 .. Len(es)
    BY DEF At
  <2>3. /\ Len(new.entries) = Len(es) /\ new.entries[n] = f
        /\ \A m \in 1 .. Len(es) : m # n => new.entries[m] = es[m]
    BY <1>1, <2>1, <2>2, ExceptSeq
  <2>4. es[n].source = f.source \/ (~es[n].followUp /\ ~f.followUp /\ es[n].who = f.who)
    BY <1>4, <2>2
  <2>5. \A m \in 1 .. Len(es) : m # n => es[m].source # f.source
    <3> SUFFICES ASSUME NEW m \in 1 .. Len(es), es[m].source = f.source PROVE m = n
      OBVIOUS
    <3>1. CASE es[n].source = f.source
      BY <2>2, <3>1 DEF OnceIn
    <3>2. CASE es[n].source # f.source
      <4>1. {m, n} \subseteq Firsts(es, f.who)
        BY <1>2, <2>2, <2>4, <3>2 DEF Firsts
      <4> QED BY <1>3, <4>1 DEF OnceIn
    <3> QED BY <3>1, <3>2
  <2>6. ~f.followUp => \A m \in 1 .. Len(es) : m # n => m \notin Firsts(es, f.who)
    <3> SUFFICES ASSUME ~f.followUp, NEW m \in Firsts(es, f.who) PROVE m = n
      BY DEF Firsts
    <3>1. n \in Firsts(es, f.who)
      BY <1>2, <2>2, <2>4 DEF Firsts
    <3> QED BY <1>3, <3>1 DEF OnceIn
  <2>7. \A k, m \in 1 .. Len(new.entries) :
          new.entries[k].source = new.entries[m].source => k = m
    BY <2>3, <2>5 DEF OnceIn
  <2>8. \A p \in People : \A k, m \in Firsts(new.entries, p) : k = m
    <3> SUFFICES ASSUME NEW p \in People, NEW k \in Firsts(new.entries, p),
                        NEW m \in Firsts(new.entries, p)
                 PROVE  k = m
      OBVIOUS
    <3>1. /\ k \in 1 .. Len(es) /\ m \in 1 .. Len(es)
          /\ k # n => k \in Firsts(es, p)
          /\ m # n => m \in Firsts(es, p)
          /\ k = n \/ m = n => f.who = p /\ ~f.followUp
      BY <2>3 DEF Firsts
    <3> QED BY <2>6, <3>1 DEF OnceIn
  <2>10. es[n] \in Entry /\ round.superseded \in Seq(Entry) /\ Len(round.superseded) =< ArchiveMost
    BY <1>1, <2>2, ElementOfSeq DEF RoundRecord
  <2>9. \A a \in Range(new.superseded) : Firsts(new.entries, a.who) # {}
    <3> SUFFICES ASSUME NEW a \in Range(new.superseded) PROVE Firsts(new.entries, a.who) # {}
      OBVIOUS
    <3>1. CASE a \in Range(round.superseded)
      <4>1. PICK m \in Firsts(es, a.who) : TRUE
        BY <3>1 DEF OnceIn
      <4>2. CASE m # n
        <5>1. m \in Firsts(new.entries, a.who)
          BY <2>3, <4>1, <4>2 DEF Firsts
        <5> QED BY <5>1
      <4>3. CASE m = n
        <5>1. n \in Firsts(new.entries, a.who)
          BY <1>2, <2>2, <2>3, <2>4, <4>1, <4>3 DEF Firsts
        <5> QED BY <5>1
      <4> QED BY <4>2, <4>3
    <3>2. CASE a \notin Range(round.superseded)
      <4>1. a = es[n] /\ es[n].source # f.source
        BY <2>1, <2>10, <3>2, ShelvedIs
      <4>2. n \in Firsts(new.entries, a.who)
        BY <2>2, <2>3, <2>4, <4>1 DEF Firsts
      <4> QED BY <4>2
    <3> QED BY <3>1, <3>2
  <2> QED BY <2>7, <2>8, <2>9 DEF OnceIn, new
<1> QED BY <1>5, <1>6

--------------------------------------------------------------------------------
(* What a step does to the documents *)

(* The records keep their clients and what they count and archive.         *)
SameEntries ==
  /\ index' = index
  /\ \A k \in Codes :
       /\ records'[k] = None <=> records[k] = None
       /\ records[k] # None =>
            /\ records'[k].client = records[k].client
            /\ \A r \in Rounds :
                 /\ records'[k].rounds[r].entries = records[k].rounds[r].entries
                 /\ records'[k].rounds[r].superseded = records[k].rounds[r].superseded

Merges(p) == FinishCommits(p) /\ finishing[p].blob # 0

(* What a merge stores of a completion.                                    *)
StoredAs(f) ==
  LET rec == RecordOf(f)  e == EntryOf(f)  t == Target(rec, f.row)  new == records'[f.code] IN
  /\ f # None /\ f \in Finishing /\ f.code \in Codes /\ f.row.client \in Clients
  /\ index' = f.index
  /\ \A k \in Codes : k # f.code => records'[k] = records[k]
  /\ new \in Record /\ new # None /\ new.client = f.row.client
  /\ rec \in Record /\ e \in Entry /\ t \in Rounds
  /\ new.rounds[t] = Upserted(rec.rounds[t], e)
  /\ \A r \in Rounds : r # t => new.rounds[r] = rec.rounds[r]
  /\ records[f.code] # None => rec = records[f.code]
  /\ records[f.code] = None => \A r \in Rounds : rec.rounds[r] = NoRound

LEMMA MergeStores ==
  ASSUME TypeOK, FinishesKnow, NEW p \in People, Merges(p)
  PROVE  StoredAs(finishing[p])
<1> DEFINE f == finishing[p]
           rec == RecordOf(f)
           e == EntryOf(f)
           new == Merged(rec, f.row, e)
<1>1. f # None /\ f \in Finishing
  BY DEF Merges, FinishCommits, TypeOK
<1>2. f.code \in Codes /\ f.row \in Row /\ f.row.client \in Clients
  BY <1>1 DEF Finishing, Row
<1>3. rec \in Record /\ e \in Entry
  BY <1>1, EntryType
<1>4. index' = f.index /\ records' = [records EXCEPT ![f.code] = new]
  BY DEF Merges, FinishCommits, Stored
<1>5. f.record = records[f.code] /\ (f.record # None => f.record.client = f.row.client)
  BY <1>1 DEF FinishesKnow, FinishKnows
<1>6. rec.client = f.row.client
  BY <1>2, <1>5, NewRecordIs DEF RecordOf
<1>7. /\ new \in Record /\ new.client = rec.client /\ Target(rec, f.row) \in Rounds
      /\ new.rounds = [rec.rounds EXCEPT ![Target(rec, f.row)]
                         = Upserted(rec.rounds[Target(rec, f.row)], e)]
  BY <1>2, <1>3, MergedIs
<1>8. rec.rounds \in [Rounds -> RoundRecord]
  BY <1>3 DEF Record
<1>9. /\ records[f.code] # None => rec = records[f.code]
      /\ records[f.code] = None => \A r \in Rounds : rec.rounds[r] = NoRound
  BY <1>2, <1>5, NewRecordIs DEF RecordOf
<1> HIDE DEF new, rec, e
<1>10. records'[f.code] = new /\ \A k \in Codes : k # f.code => records'[k] = records[k]
  BY <1>2, <1>4 DEF TypeOK
<1>11. new # None
  BY <1>7, NoneDiffers
<1> HIDE DEF f
<1>12. /\ new.rounds[Target(rec, f.row)] = Upserted(rec.rounds[Target(rec, f.row)], e)
       /\ \A r \in Rounds : r # Target(rec, f.row) => new.rounds[r] = rec.rounds[r]
  BY <1>7, <1>8
<1>13. StoredAs(f)
  BY <1>1, <1>2, <1>3, <1>4, <1>6, <1>7, <1>9, <1>10, <1>11, <1>12 DEF StoredAs, rec, e
<1> QED BY <1>13 DEF f

LEMMA PlanKeeps ==
  ASSUME TypeOK, NEW cl \in Clients, PlanRound(cl)
  PROVE  SameEntries /\ \A k \in Codes : k # index[cl] => records'[k] = records[k]
<1> DEFINE at == index[cl]
           last == Newest(Opened(records[at]))
<1>1. at \in Codes /\ records[at] \in Record /\ records[at] # None /\ last < MaxRound /\ index' = index
  BY NoneDiffers DEF PlanRound, TypeOK
<1>2. last + 1 \in Rounds
  <2> DEFINE S == Opened(records[at])
  <2>1. S \in SUBSET (1 .. MaxRound)
    BY DEF Opened, Rounds
  <2>2. S = {} => last = 0
    BY <2>1, Bounds, NewestIn
  <2>3. S # {} => last \in S
    BY <2>1, Bounds, NewestIn
  <2>4. last \in Nat
    BY <2>1, <2>2, <2>3
  <2> QED BY <1>1, <2>4, Bounds DEF Rounds
<1>3. \A k \in Codes : records'[k] = IF k = at THEN Begun(records[at], last + 1) ELSE records[k]
  BY <1>1 DEF PlanRound, TypeOK
<1> HIDE DEF last
<1> DEFINE new == Begun(records[at], last + 1)
<1>4. /\ new \in Record /\ new # None /\ new.client = records[at].client
      /\ \A r \in Rounds :
           /\ new.rounds[r].entries = records[at].rounds[r].entries
           /\ new.rounds[r].superseded = records[at].rounds[r].superseded
  BY <1>1, <1>2, BegunIs, NoneDiffers
<1> HIDE DEF new
<1>5. \A k \in Codes : records'[k] = IF k = at THEN new ELSE records[k]
  BY <1>3 DEF new
<1> QED BY <1>1, <1>4, <1>5 DEF SameEntries

(* A completion finds the record it read as it was.                        *)
HeldStay ==
  \A p \in People : finishing[p] # None => records'[finishing[p].code] = records[finishing[p].code]

LEMMA DocumentsMove ==
  ASSUME "merge" \notin Overlaps, TypeOK, [Next]_vars
  PROVE  (SameEntries /\ HeldStay) \/ \E p \in People : Merges(p)
<1>1. ASSUME UNCHANGED documents PROVE SameEntries /\ HeldStay
  BY <1>1 DEF SameEntries, HeldStay, documents
<1>2. ASSUME NEW p \in People, FinishCommits(p), finishing[p].blob = 0 PROVE SameEntries /\ HeldStay
  <2>1. UNCHANGED documents
    BY <1>2 DEF FinishCommits
  <2> QED BY <1>1, <2>1
<1>3. ASSUME NEW cl \in Clients, PlanRound(cl) PROVE SameEntries /\ HeldStay
  <2>1. \A p \in People : finishing[p] # None => finishing[p].code \in Codes
    BY DEF TypeOK, Finishing
  <2>2. \A p \in People : finishing[p] # None => finishing[p].code # index[cl]
    BY <1>3 DEF PlanRound, Overlap
  <2>3. SameEntries /\ \A k \in Codes : k # index[cl] => records'[k] = records[k]
    BY <1>3, PlanKeeps
  <2> QED BY <2>1, <2>2, <2>3 DEF HeldStay
<1>4. \/ UNCHANGED documents
      \/ \E cl \in Clients : PlanRound(cl)
      \/ \E p \in People : FinishCommits(p)
  BY RestMovesSo DEF RestMoves
<1> QED BY <1>1, <1>2, <1>3, <1>4 DEF Merges

--------------------------------------------------------------------------------
(* Records and their clients *)

ClientsInv == IndexInv /\ MintedInv /\ FinishesKnow /\ OneRecordPerClient

LEMMA ClientsMerge ==
  ASSUME TypeOK, ClientsInv, NEW p \in People, Merges(p)
  PROVE  ClientsInv'
<1> DEFINE f == finishing[p]
<1>1. StoredAs(f) /\ FinishKnows(f)
  BY MergeStores DEF ClientsInv, FinishesKnow, Merges, FinishCommits
<1>2. /\ f # None /\ f \in Finishing /\ f.code \in Codes /\ f.row.client \in Clients
      /\ index' = f.index
      /\ \A k \in Codes : k # f.code => records'[k] = records[k]
      /\ records'[f.code] # None /\ records'[f.code].client = f.row.client
  BY <1>1 DEF StoredAs
<1>3. /\ f.record = records[f.code]
      /\ f.record # None => f.record.client = f.row.client
      /\ f.record = None =>
           /\ f.code = <<f.row.client, f.id>>
           /\ \A k \in Codes : records[k] # None => records[k].client # f.row.client
      /\ f.index[f.row.client] = f.code
      /\ \A c \in Clients \ {f.row.client} : Names(f.index, c)
      /\ f.index \in [Clients -> Codes \cup {None}]
  BY <1>1, <1>2 DEF FinishKnows, Finishing
<1>4. \A q \in People : finishing'[q] = IF q = p THEN None ELSE finishing[q]
  BY DEF Merges, FinishCommits, Answer, TypeOK
<1> HIDE DEF f
<1>5. IndexInv'
  <2> SUFFICES ASSUME NEW c \in Clients, index'[c] # None
               PROVE  records'[index'[c]] # None /\ records'[index'[c]].client = c
    BY DEF IndexInv, Names
  <2>1. CASE c = f.row.client
    BY <1>2, <1>3, <2>1
  <2>2. CASE c # f.row.client
    <3>1. f.index[c] \in Codes /\ records[f.index[c]] # None /\ records[f.index[c]].client = c
      BY <1>2, <1>3, <2>2 DEF Names
    <3> QED BY <1>2, <1>3, <2>2, <3>1
  <2> QED BY <2>1, <2>2
<1>6. MintedInv'
  <2> SUFFICES ASSUME NEW c \in Clients, NEW i \in Ids, records'[<<c, i>>] # None
               PROVE  records'[<<c, i>>].client = c
    BY DEF MintedInv
  <2>1. <<c, i>> \in Codes
    BY DEF Codes
  <2>2. records[<<c, i>>] # None => records[<<c, i>>].client = c
    BY DEF ClientsInv, MintedInv
  <2>3. CASE <<c, i>> = f.code
    BY <1>2, <1>3, <2>2, <2>3
  <2>4. CASE <<c, i>> # f.code
    BY <1>2, <2>1, <2>2, <2>4
  <2> QED BY <2>3, <2>4
<1>7. OneRecordPerClient'
  <2> SUFFICES ASSUME NEW k \in Codes, NEW l \in Codes, records'[k] # None, records'[l] # None,
                      records'[k].client = records'[l].client
               PROVE  k = l
    BY DEF OneRecordPerClient, Kept
  <2>1. \A m \in Codes : m # f.code /\ records[m] # None => records[m].client # f.row.client
    <3>1. CASE f.record = None
      BY <1>3, <3>1
    <3>2. CASE f.record # None
      BY <1>2, <1>3, <3>2 DEF ClientsInv, OneRecordPerClient, Kept
    <3> QED BY <3>1, <3>2
  <2>2. CASE k = f.code \/ l = f.code
    BY <1>2, <2>1, <2>2
  <2>3. CASE k # f.code /\ l # f.code
    BY <1>2, <2>3 DEF ClientsInv, OneRecordPerClient, Kept
  <2> QED BY <2>2, <2>3
<1>8. FinishesKnow'
  <2>1. ASSUME NEW q \in People, finishing'[q] # None PROVE FinishKnows(finishing[q])'
    <3>0. q # p /\ finishing'[q] = finishing[q] /\ finishing[q] # None
      BY <1>4, <2>1
    <3> PICK g \in Finishing : g = finishing[q]
      BY <3>0 DEF TypeOK
    <3>1. /\ g.record = records[g.code]
          /\ g.record # None => g.record.client = g.row.client
          /\ g.record = None =>
               /\ g.code = <<g.row.client, g.id>>
               /\ \A k \in Codes : records[k] # None => records[k].client # g.row.client
          /\ g.index[g.row.client] = g.code
          /\ \A c \in Clients \ {g.row.client} : Names(g.index, c)
      BY <3>0 DEF ClientsInv, FinishesKnow, FinishKnows
    <3>2. g.row.client # f.row.client
      BY <1>2, <3>0 DEF ClientsInv, FinishesKnow, f
    <3>3. g.code \in Codes /\ g.index \in [Clients -> Codes \cup {None}]
      BY DEF Finishing
    <3>4. g.code # f.code
      BY <1>2, <1>3, <3>1, <3>2
    <3>5. g.record = records'[g.code]
      BY <1>2, <3>1, <3>3, <3>4
    <3>6. g.record = None => \A k \in Codes : records'[k] # None => records'[k].client # g.row.client
      BY <1>2, <3>1, <3>2
    <3>7. ASSUME NEW c \in Clients \ {g.row.client}, g.index[c] # None
          PROVE  records'[g.index[c]] # None /\ records'[g.index[c]].client = c
      <4>1. g.index[c] \in Codes /\ records[g.index[c]] # None /\ records[g.index[c]].client = c
        BY <3>1, <3>3, <3>7 DEF Names
      <4> QED BY <1>2, <1>3, <4>1
    <3>8. finishing'[q] = g
      BY <3>0
    <3> QED BY <3>1, <3>5, <3>6, <3>7, <3>8 DEF FinishKnows, Names
  <2>2. \A q, r \in People : q # r /\ finishing'[q] # None /\ finishing'[r] # None =>
          finishing'[q].row.client # finishing'[r].row.client
    BY <1>4 DEF ClientsInv, FinishesKnow
  <2> QED BY <2>1, <2>2 DEF FinishesKnow
<1> QED BY <1>5, <1>6, <1>7, <1>8 DEF ClientsInv

(* A completion that has just read knows the record of its client.         *)
LEMMA ReadKnows ==
  ASSUME "skipped" \notin Faults, TypeOK, ClientsInv, NEW p \in People, FinishReads(p),
         UNCHANGED documents
  PROVE  FinishKnows(finishing[p])'
<1> DEFINE i == Newest(Unfinished(p))
           k == finishing'[p].code
<1>1. /\ i \in Ids /\ iv[i] \in Row /\ iv[i].client \in Clients
      /\ finishing'[p].id = i /\ finishing'[p].row = iv[i]
      /\ finishing'[p].index = [index EXCEPT ![iv[i].client] = k]
  BY FinishTakes DEF Row
<1>2. k \in CodeFor(iv[i].client, i) /\ finishing'[p].record = records[k]
  BY FinishTakes
<1> HIDE DEF i, k
<1> PICK c \in Clients : c = iv[i].client
  BY <1>1
<1> DEFINE g == [index EXCEPT ![c] = k]
<1>3. /\ finishing'[p].id = i /\ finishing'[p].row.client = c
      /\ finishing'[p].code = k /\ finishing'[p].record = records[k] /\ finishing'[p].index = g
  BY <1>1, <1>2 DEF k
<1>4. g[c] = k /\ \A d \in Clients \ {c} : g[d] = index[d]
  BY DEF TypeOK
<1>5. \/ k = index[c] /\ index[c] # None /\ records[k] # None
      \/ k \in Codes /\ records[k] # None /\ records[k].client = c
      \/ k = index[c] /\ index[c] # None /\ records[k] = None
      \/ k = <<c, i>> /\ \A l \in Codes : records[l] # None => records[l].client # c
  <2>0. k \in CodeFor(c, i)
    BY <1>2
  <2>1. CASE index[c] # None
    BY <2>0, <2>1 DEF CodeFor, Kept
  <2>2. CASE index[c] = None
    BY <2>0, <2>2 DEF CodeFor, Kept
  <2> QED BY <2>1, <2>2
<1>6. \/ records[k] # None /\ records[k].client = c
      \/ /\ records[k] = None /\ k = <<c, i>>
         /\ \A l \in Codes : records[l] # None => records[l].client # c
  <2>1. index[c] # None => records[index[c]] # None /\ records[index[c]].client = c
    BY DEF ClientsInv, IndexInv, Names
  <2>2. records[<<c, i>>] # None => records[<<c, i>>].client = c
    BY <1>1 DEF ClientsInv, MintedInv
  <2>3. <<c, i>> \in Codes
    BY <1>1 DEF Codes
  <2> QED BY <1>5, <2>1, <2>2, <2>3
<1>7. \A d \in Clients \ {c} : Names(g, d)
  BY <1>4 DEF ClientsInv, IndexInv, Names
<1>8. records' = records
  BY DEF documents
<1>9. \A d \in Clients \ {c} : g[d] # None => records'[g[d]] # None /\ records'[g[d]].client = d
  BY <1>7, <1>8 DEF Names
<1> HIDE DEF g
<1> QED BY <1>3, <1>4, <1>6, <1>8, <1>9 DEF FinishKnows, Names

LEMMA ClientsStay ==
  ASSUME "merge" \notin Overlaps, "skipped" \notin Faults, TypeOK, ClientsInv, [Next]_vars, SameEntries, HeldStay
  PROVE  ClientsInv'
<1>1. IndexInv' /\ MintedInv' /\ OneRecordPerClient'
  <2>1. IndexInv'
    <3>1. \A c \in Clients : index[c] # None => index[c] \in Codes
      BY DEF TypeOK
    <3> QED BY <3>1 DEF IndexInv, Names, ClientsInv, SameEntries
  <2>2. MintedInv'
    <3>1. \A c \in Clients, i \in Ids : <<c, i>> \in Codes
      BY DEF Codes
    <3> QED BY <3>1 DEF MintedInv, ClientsInv, SameEntries
  <2>3. OneRecordPerClient'
    BY DEF OneRecordPerClient, Kept, ClientsInv, SameEntries
  <2> QED BY <2>1, <2>2, <2>3
<1>2. ASSUME NEW q \in People, finishing'[q] # None, ~FinishReads(q) PROVE FinishKnows(finishing[q])'
  <2>1. finishing'[q] = finishing[q] /\ finishing[q] # None
    BY <1>2, RestMovesSo DEF RestMoves
  <2> PICK g \in Finishing : g = finishing[q]
    BY <2>1 DEF TypeOK
  <2>2. FinishKnows(g)
    BY <2>1 DEF ClientsInv, FinishesKnow
  <2>3. g.code \in Codes /\ g.index \in [Clients -> Codes \cup {None}]
    BY DEF Finishing
  <2>4. records'[g.code] = records[g.code]
    BY <2>1 DEF HeldStay
  <2>5. g.record = None => \A k \in Codes : records'[k] # None => records'[k].client # g.row.client
    BY <2>2 DEF FinishKnows, SameEntries
  <2>6. \A c \in Clients \ {g.row.client} :
          g.index[c] # None => records'[g.index[c]] # None /\ records'[g.index[c]].client = c
    BY <2>2, <2>3 DEF FinishKnows, Names, SameEntries
  <2>7. finishing'[q] = g
    BY <2>1
  <2>8. /\ g.record = records'[g.code]
        /\ g.record # None => g.record.client = g.row.client
        /\ g.record = None => g.code = <<g.row.client, g.id>>
        /\ g.index[g.row.client] = g.code
    BY <2>2, <2>4 DEF FinishKnows
  <2> QED BY <2>5, <2>6, <2>7, <2>8 DEF FinishKnows, Names
<1>3. ASSUME NEW q \in People, FinishReads(q) PROVE FinishKnows(finishing[q])'
  <2>1. UNCHANGED documents
    BY <1>3 DEF FinishReads
  <2> QED BY <1>3, <2>1, ReadKnows
<1>4. ASSUME NEW p \in People, NEW q \in People, p # q, finishing'[p] # None, finishing'[q] # None
      PROVE  finishing'[p].row.client # finishing'[q].row.client
  <2>1. ASSUME NEW a \in People, NEW b \in People, a # b, FinishReads(a), finishing'[b] # None
        PROVE  finishing'[a].row.client # finishing'[b].row.client
    <3> DEFINE i == Newest(Unfinished(a))
    <3>1. i \in Ids /\ ~Clash(i)
      BY <2>1, FinishTakes DEF Overlap
    <3>2. finishing'[a].row = iv[i] /\ finishing'[b] = finishing[b]
      <4>1. finishing'[a].row = iv[i]
        BY <2>1, FinishTakes
      <4>2. finishing' = [finishing EXCEPT ![a] = finishing'[a]]
        BY <2>1, FinishTakes
      <4> HIDE DEF i
      <4>3. finishing'[b] = finishing[b]
        BY <2>1, <4>2 DEF TypeOK
      <4> QED BY <4>1, <4>3
    <3> HIDE DEF i
    <3> QED BY <2>1, <3>1, <3>2 DEF Clash
  <2>2. CASE FinishReads(p) \/ FinishReads(q)
    BY <1>4, <2>1, <2>2
  <2>3. CASE ~FinishReads(p) /\ ~FinishReads(q)
    BY <1>4, <2>3, RestMovesSo DEF RestMoves, ClientsInv, FinishesKnow
  <2> QED BY <2>2, <2>3
<1>5. FinishesKnow'
  BY <1>2, <1>3, <1>4 DEF FinishesKnow
<1> QED BY <1>1, <1>5 DEF ClientsInv

--------------------------------------------------------------------------------
(* Entries, answers and transcripts *)

LEMMA EntryStays ==
  ASSUME TypeOK, RowsMove, NEW e \in Entry, OfItsRow(e)
  PROVE  OfItsRow(e)' /\ (iv'[e.source] # None => iv[e.source] # None)
<1>0. born \in Nat /\ e.source \in Ids
  BY Bounds DEF Entry, TypeOK
<1>1. e.source \in Ids /\ e.source \in Nat /\ e.source <= born /\ born \in Nat
  BY <1>0, Bounds DEF OfItsRow
<1>2. RowMoves(e.source) /\ born' >= born
  BY <1>1 DEF RowsMove
<1>3. iv'[e.source] # None => RowKept(e.source)
  BY <1>1, <1>2 DEF RowMoves, RowCreated
<1>4. e.source <= born'
  BY <1>1, <1>2 DEF RowsMove
<1> QED BY <1>3, <1>4 DEF RowKept, OfItsRow

(* What a completion enters is of the interview it holds.                  *)
LEMMA EntryIsOfItsRow ==
  ASSUME TypeOK, RowsInv, NEW p \in People, finishing[p] # None
  PROVE  EntryOf(finishing[p]) \in Entry /\ OfItsRow(EntryOf(finishing[p]))
<1> PICK f \in Finishing : f = finishing[p]
  BY DEF TypeOK
<1>1. EntryOf(f) \in Entry
  BY EntryType
<1>2. f.id \in Ids /\ iv[f.id] # None /\ iv[f.id].who = f.row.who /\ iv[f.id].kind = f.row.kind
  BY DEF RowsInv, FinishesHold, Finishing
<1>3. f.id <= born
  BY <1>2, Bounds DEF RowsInv, Fresh, TypeOK
<1>4. OfItsRow(EntryOf(f))
  BY <1>2, <1>3 DEF OfItsRow, EntryOf
<1> QED BY <1>1, <1>4

LEMMA CountedIsEntry ==
  ASSUME NEW rec \in Record, NEW r \in Rounds
  PROVE  /\ rec.rounds[r] \in RoundRecord
         /\ rec.rounds[r].entries \in Seq(Entry)
         /\ \A e \in Range(rec.rounds[r].entries) : e \in Entry
<1>1. rec.rounds[r] \in RoundRecord
  BY DEF Record
<1>2. rec.rounds[r].entries \in Seq(Entry)
  BY <1>1 DEF RoundRecord
<1> DEFINE es == rec.rounds[r].entries
<1>3. Range(es) = {es[n] : n \in 1 .. Len(es)}
  BY <1>2, RangeEquality
<1>4. \A n \in 1 .. Len(es) : es[n] \in Entry
  BY <1>2, ElementOfSeq
<1> QED BY <1>1, <1>2, <1>3, <1>4

LEMMA NothingCounted ==
  /\ Range(NoRound.entries) = {}
  /\ OnceIn(NoRound)
<1>1. NoRound.entries = <<>> /\ NoRound.superseded = <<>>
  BY DEF NoRound
<1>2. <<>> \in Seq(Entry) /\ Len(<<>>) = 0
  OBVIOUS
<1>3. 1 .. 0 = {}
  OBVIOUS
<1>4. Range(<<>>) = {}
  <2> DEFINE es == <<>>
  <2>1. Range(es) = {es[n] : n \in 1 .. Len(es)}
    BY <1>2, RangeEquality
  <2> QED BY <1>2, <1>3, <2>1
<1>5. \A p : Firsts(<<>>, p) = {}
  BY <1>2, <1>3 DEF Firsts
<1> QED BY <1>1, <1>2, <1>3, <1>4, <1>5 DEF OnceIn

CountedIn(rec) ==
  \A r \in Rounds :
    /\ OnceIn(rec.rounds[r])
    /\ \A e \in Range(rec.rounds[r].entries) : OfItsRow(e)

(* The record a merge starts from counts as the stored one does.           *)
LEMMA StartsFrom ==
  ASSUME NEW f, StoredAs(f),
         \A k \in Codes : records[k] # None => CountedIn(records[k])
  PROVE  CountedIn(RecordOf(f))
<1>1. CASE records[f.code] # None
  BY <1>1 DEF StoredAs
<1>2. CASE records[f.code] = None
  <2>1. \A r \in Rounds : RecordOf(f).rounds[r] = NoRound
    BY <1>2 DEF StoredAs
  <2> QED BY <2>1, NothingCounted DEF CountedIn
<1> QED BY <1>1, <1>2

(* Rounds of the same entries count the same.                              *)
LEMMA SameCounts ==
  ASSUME NEW a, NEW b, a.entries = b.entries, a.superseded = b.superseded
  PROVE  /\ OnceIn(a) => OnceIn(b)
         /\ \A i, v : HasIn(a, i, v) => HasIn(b, i, v)
<1> QED BY DEF OnceIn, HasIn

CountsInv == \A k \in Codes : records[k] # None => CountedIn(records[k])

LEMMA CountsStep ==
  ASSUME "merge" \notin Overlaps, TypeOK, TypeOK', RowsInv, CountsInv, FinishesKnow, [Next]_vars
  PROVE  CountsInv'
<1> USE NoneDiffers
<1>1. RowsMove
  BY RowsMoveSo
<1>2. \A k \in Codes : records[k] # None => records[k] \in Record
  BY DEF TypeOK
<1>3. ASSUME SameEntries, NEW k \in Codes, records'[k] # None, NEW r \in Rounds
      PROVE  /\ OnceIn(records'[k].rounds[r])
             /\ \A e \in Range(records'[k].rounds[r].entries) : OfItsRow(e)'
  <2>1. /\ records[k] # None
        /\ records'[k].rounds[r].entries = records[k].rounds[r].entries
        /\ records'[k].rounds[r].superseded = records[k].rounds[r].superseded
    BY <1>3 DEF SameEntries
  <2>2. OnceIn(records[k].rounds[r])
    BY <2>1 DEF CountsInv, CountedIn
  <2>3. OnceIn(records'[k].rounds[r])
    BY <2>1, <2>2, SameCounts
  <2>4. \A e \in Range(records[k].rounds[r].entries) : e \in Entry /\ OfItsRow(e)
    BY <1>2, <2>1, CountedIsEntry DEF CountsInv, CountedIn
  <2>5. \A e \in Range(records[k].rounds[r].entries) : OfItsRow(e)'
    BY <1>1, <2>4, EntryStays
  <2> QED BY <2>1, <2>3, <2>5
<1>4. ASSUME NEW p \in People, Merges(p), NEW k \in Codes, records'[k] # None, NEW r \in Rounds
      PROVE  /\ OnceIn(records'[k].rounds[r])
             /\ \A e \in Range(records'[k].rounds[r].entries) : OfItsRow(e)'
  <2>0. finishing[p] # None
    BY <1>4 DEF Merges, FinishCommits
  <2> PICK f \in Finishing : f = finishing[p]
    BY <2>0 DEF TypeOK
  <2>1. StoredAs(f)
    BY <1>4, MergeStores
  <2> DEFINE rec == RecordOf(f)
             e == EntryOf(f)
             t == Target(rec, f.row)
  <2>2. CountedIn(rec)
    BY <2>1, StartsFrom DEF CountsInv
  <2>3. /\ rec \in Record /\ e \in Entry /\ t \in Rounds
        /\ \A l \in Codes : l # f.code => records'[l] = records[l]
        /\ records'[f.code].rounds[t] = Upserted(rec.rounds[t], e)
        /\ \A q \in Rounds : q # t => records'[f.code].rounds[q] = rec.rounds[q]
    BY <2>1 DEF StoredAs
  <2>4. OfItsRow(e)
    BY <2>0, EntryIsOfItsRow
  <2>5. iv[f.id] # None /\ e.source = f.id
    BY <2>0 DEF RowsInv, FinishesHold, EntryOf
  <2> HIDE DEF rec, e, t
  <2>6. CASE k # f.code
    <3>1. records[k] # None /\ records'[k] = records[k]
      BY <1>4, <2>3, <2>6
    <3>2. OnceIn(records[k].rounds[r])
      BY <3>1 DEF CountsInv, CountedIn
    <3>3. \A d \in Range(records[k].rounds[r].entries) : d \in Entry /\ OfItsRow(d)
      BY <1>2, <3>1, CountedIsEntry DEF CountsInv, CountedIn
    <3>4. \A d \in Range(records[k].rounds[r].entries) : OfItsRow(d)'
      BY <1>1, <3>3, EntryStays
    <3> QED BY <3>1, <3>2, <3>4
  <2>7. \A d \in Range(rec.rounds[r].entries) : d \in Entry /\ OfItsRow(d) /\ OfItsRow(d)'
    <3>1. \A d \in Range(rec.rounds[r].entries) : d \in Entry /\ OfItsRow(d)
      BY <2>2, <2>3, CountedIsEntry DEF CountedIn
    <3> QED BY <1>1, <3>1, EntryStays
  <2>8. CASE k = f.code /\ r # t
    <3>1. records'[k].rounds[r] = rec.rounds[r]
      BY <2>3, <2>8
    <3> QED BY <2>2, <2>7, <3>1 DEF CountedIn
  <2>9. CASE k = f.code /\ r = t
    <3> DEFINE round == rec.rounds[t]
    <3>1. round \in RoundRecord /\ OnceIn(round)
      BY <2>2, <2>3, CountedIsEntry DEF CountedIn
    <3>2. \A d \in Range(round.entries) :
            d.source = e.source => d.who = e.who /\ d.followUp = e.followUp
      <4> SUFFICES ASSUME NEW d \in Range(round.entries), d.source = e.source
                   PROVE  d.who = e.who /\ d.followUp = e.followUp
        OBVIOUS
      <4>1. OfItsRow(d) /\ d \in Entry
        BY <2>7, <2>9
      <4>2. d.who = e.who /\ (d.followUp <=> e.followUp)
        BY <2>4, <2>5, <4>1 DEF OfItsRow
      <4>3. d.followUp \in BOOLEAN /\ e.followUp \in BOOLEAN
        BY <2>3, <4>1 DEF Entry
      <4> QED BY <4>2, <4>3
    <3>3. OnceIn(Upserted(round, e))
      BY <2>3, <3>1, <3>2, UpsertedOnce
    <3>4. \A d \in Range(Upserted(round, e).entries) : d = e \/ d \in Range(round.entries)
      BY <2>3, <3>1, UpsertedCounts
    <3>5. OfItsRow(e)'
      BY <1>1, <2>3, <2>4, EntryStays
    <3> QED BY <2>3, <2>7, <2>9, <3>3, <3>4, <3>5
  <2> QED BY <2>6, <2>8, <2>9
<1>5. SameEntries \/ \E p \in People : Merges(p)
  BY DocumentsMove
<1> QED BY <1>3, <1>4, <1>5 DEF CountsInv, CountedIn

(* Answers are given with what they are about, and stay given.             *)
LEMMA ToldMoves ==
  ASSUME TypeOK, [Next]_vars
  PROVE  \A i \in Ids :
           /\ told[i] # None => told'[i] # None
           /\ told'[i] # told[i] =>
                \/ told'[i].answer = "failed"
                \/ told'[i].blob = 0
                \/ \E p \in People : Merges(p) /\ finishing[p].id = i
<1>1. ASSUME NEW p \in People, FinishCommits(p) \/ FinishUnmerged(p) \/ FinishAborts(p),
             NEW i \in Ids, told'[i] # told[i]
      PROVE  /\ told'[i] # None
             /\ \/ told'[i].answer = "failed"
                \/ told'[i].blob = 0
                \/ Merges(p) /\ finishing[p].id = i
  <2> PICK f \in Finishing : f = finishing[p]
    BY <1>1 DEF FinishCommits, FinishUnmerged, FinishAborts, TypeOK
  <2>0. PICK what \in {"ok", "failed"} : Answer(p, what) /\ (what = "ok" => FinishCommits(p))
    BY <1>1 DEF FinishCommits, FinishUnmerged, FinishAborts
  <2> DEFINE blob == IF what = "ok" THEN f.blob ELSE 0
  <2>1. told' = [told EXCEPT ![f.id] = [answer |-> what, blob |-> blob]]
    BY <2>0 DEF Answer
  <2>5. blob \in Nat /\ (what = "ok" => blob = f.blob /\ FinishCommits(p))
    BY <2>0 DEF Finishing
  <2> HIDE DEF blob
  <2>2. i = f.id /\ told'[i] = [answer |-> what, blob |-> blob]
    BY <1>1, <2>1 DEF TypeOK
  <2>3. [answer |-> what, blob |-> blob] \in Answered
    BY <2>5 DEF Answered
  <2>4. told'[i] # None
    BY <2>2, <2>3, NoneDiffers
  <2> QED BY <2>2, <2>4, <2>5 DEF Merges
<1>2. ASSUME told' = told PROVE \A i \in Ids : told'[i] = told[i]
  BY <1>2
<1>3. CASE Next
  <2>1. CASE \E c \in Consultants :
              \/ \E w \in People, cl \in Clients, r \in 0 .. MaxRound : InviteLogin(c, w, cl, r)
              \/ InviteMember(c) \/ InviteGuard(c) \/ InviteRow(c)
              \/ \E j \in Ids : DeleteErases(c, j) \/ DraftReads(c, j)
              \/ DraftWrites(c)
              \/ DeleteRow(c) \/ RevokeMembership(c) \/ RevokeLogin(c) \/ JobDies(c)
    BY <1>2, <2>1 DEF InviteLogin, InviteMember, InviteGuard, InviteRow, DeleteErases, DeleteRow,
                      DraftReads, DraftWrites, RevokeMembership, RevokeLogin, JobDies, sessions
  <2>2. CASE \E j \in Ids :
              \/ Approve(j)
              \/ \E s \in {"invited", "in_progress", "completed"}, r \in 0 .. MaxRound, cl \in Clients :
                   Patch(j, s, r, cl)
    <3>1. ASSUME NEW j \in Ids, Approve(j) PROVE told' = told
      BY <3>1 DEF Approve, sessions
    <3>2. ASSUME NEW j \in Ids, NEW s \in {"invited", "in_progress", "completed"},
                 NEW r \in 0 .. MaxRound, NEW cl \in Clients, Patch(j, s, r, cl)
          PROVE  told' = told
      BY <3>2 DEF Patch, sessions
    <3>3. told' = told
      BY <2>2, <3>1, <3>2
    <3> QED BY <1>2, <3>3
  <2>3. CASE \E cl \in Clients : PlanRound(cl)
    BY <1>2, <2>3 DEF PlanRound, sessions
  <2>4. CASE \E q \in People : SaveReads(q) \/ SaveCommits(q) \/ FinishReads(q) \/ RequestDies(q)
    BY <1>2, <2>4 DEF SaveReads, SaveCommits, FinishReads, RequestDies
  <2>5. CASE \E q \in People : FinishCommits(q) \/ FinishUnmerged(q) \/ FinishAborts(q)
    BY <1>1, <2>5
  <2> QED BY <1>3, <2>1, <2>2, <2>3, <2>4, <2>5 DEF Next
<1>4. CASE UNCHANGED vars
  BY <1>2, <1>4 DEF vars, sessions
<1> QED BY <1>3, <1>4

(* What a merge leaves of the interview that it holds.                     *)
LEMMA MergeLeaves ==
  ASSUME TypeOK, FinishesKnow, NEW p \in People, Merges(p)
  PROVE  LET f == finishing[p] IN
         /\ f.id \in Ids /\ told'[f.id] = [answer |-> "ok", blob |-> f.blob]
         /\ [source |-> f.id, blob |-> f.blob] \in transcripts'
         /\ \E t \in Rounds : HasIn(records'[f.code].rounds[t], f.id, f.blob)
<1> PICK f \in Finishing : f = finishing[p]
  BY DEF TypeOK, Merges, FinishCommits
<1> DEFINE e == EntryOf(f)
           t == Target(RecordOf(f), f.row)
<1>1. f.id \in Ids /\ told'[f.id] = [answer |-> "ok", blob |-> f.blob]
  BY DEF Merges, FinishCommits, Answer, TypeOK, Finishing
<1>2. e.source = f.id /\ e.blob = f.blob
  BY DEF EntryOf
<1>3. [source |-> f.id, blob |-> f.blob] \in transcripts'
  BY DEF Merges, FinishCommits, Transcribed
<1>4. StoredAs(f)
  BY MergeStores
<1>5. /\ RecordOf(f) \in Record /\ e \in Entry /\ t \in Rounds
      /\ records'[f.code].rounds[t] = Upserted(RecordOf(f).rounds[t], e)
  BY <1>4 DEF StoredAs
<1>6. e \in Range(records'[f.code].rounds[t].entries)
  BY <1>5, CountedIsEntry, UpsertedCounts
<1> HIDE DEF t, e
<1>7. HasIn(records'[f.code].rounds[t], f.id, f.blob)
  BY <1>2, <1>6 DEF HasIn
<1>8. \E q \in Rounds : HasIn(records'[f.code].rounds[q], f.id, f.blob)
  BY <1>5, <1>7
<1> QED BY <1>1, <1>3, <1>8

(* Every answer that was told as saved is in a record.                     *)
ToldInv ==
  \A i \in Ids :
    told[i] # None /\ told[i].answer = "ok" /\ told[i].blob > 0 =>
      \E k \in Codes, r \in Rounds :
        records[k] # None /\ HasIn(records[k].rounds[r], i, told[i].blob)

LEMMA ToldStep ==
  ASSUME "merge" \notin Overlaps, TypeOK, ToldInv, FinishesKnow, [Next]_vars
  PROVE  ToldInv'
<1> SUFFICES ASSUME NEW i \in Ids, told'[i] # None, told'[i].answer = "ok", told'[i].blob > 0
             PROVE  \E k \in Codes, r \in Rounds :
                      records'[k] # None /\ HasIn(records'[k].rounds[r], i, told'[i].blob)
  BY DEF ToldInv, HasIn
<1>1. ASSUME NEW p \in People, Merges(p), finishing[p].id = i
      PROVE  \E k \in Codes, r \in Rounds :
               records'[k] # None /\ HasIn(records'[k].rounds[r], i, told'[i].blob)
  <2> PICK f \in Finishing : f = finishing[p]
    BY <1>1 DEF TypeOK, Merges, FinishCommits
  <2>0. f.id = i
    BY <1>1
  <2>1. /\ told'[f.id] = [answer |-> "ok", blob |-> f.blob]
        /\ \E t \in Rounds : HasIn(records'[f.code].rounds[t], f.id, f.blob)
    BY <1>1, MergeLeaves
  <2>2. f.code \in Codes /\ records'[f.code] # None
    BY <1>1, MergeStores DEF StoredAs
  <2> QED BY <2>0, <2>1, <2>2
<1>2. ASSUME ~\E p \in People : Merges(p) /\ finishing[p].id = i
      PROVE  \E k \in Codes, r \in Rounds :
               records'[k] # None /\ HasIn(records'[k].rounds[r], i, told'[i].blob)
  <2>1. told'[i] = told[i]
    <3>1. told'[i].answer # "failed" /\ told'[i].blob # 0
      OBVIOUS
    <3> QED BY <1>2, <3>1, ToldMoves
  <2> PICK k \in Codes, r \in Rounds :
        records[k] # None /\ HasIn(records[k].rounds[r], i, told[i].blob)
    BY <2>1 DEF ToldInv
  <2>2. CASE SameEntries
    <3>1. /\ records'[k] # None
          /\ records'[k].rounds[r].entries = records[k].rounds[r].entries
          /\ records'[k].rounds[r].superseded = records[k].rounds[r].superseded
      BY <2>2 DEF SameEntries
    <3>2. HasIn(records'[k].rounds[r], i, told[i].blob)
      BY <3>1, SameCounts
    <3> QED BY <2>1, <3>1, <3>2
  <2>3. ASSUME NEW p \in People, Merges(p)
        PROVE  \E l \in Codes, q \in Rounds :
                 records'[l] # None /\ HasIn(records'[l].rounds[q], i, told'[i].blob)
    <3> PICK f \in Finishing : f = finishing[p]
      BY <2>3 DEF TypeOK, Merges, FinishCommits
    <3>1. f.id # i
      BY <1>2, <2>3
    <3> DEFINE rec == RecordOf(f)
               e == EntryOf(f)
               t == Target(rec, f.row)
    <3>2. StoredAs(f)
      BY <2>3, MergeStores
    <3>3. e.source # i
      BY <3>1 DEF EntryOf
    <3>4. /\ rec \in Record /\ e \in Entry /\ t \in Rounds
          /\ \A l \in Codes : l # f.code => records'[l] = records[l]
          /\ records'[f.code] # None
          /\ records'[f.code].rounds[t] = Upserted(rec.rounds[t], e)
          /\ \A q \in Rounds : q # t => records'[f.code].rounds[q] = rec.rounds[q]
          /\ k = f.code => rec = records[k]
      BY <3>2 DEF StoredAs
    <3> HIDE DEF rec, e, t
    <3>5. CASE k # f.code
      BY <2>1, <3>4, <3>5
    <3>6. CASE k = f.code /\ r # t
      BY <2>1, <3>4, <3>6
    <3>7. CASE k = f.code /\ r = t
      <4>1. rec.rounds[t] \in RoundRecord /\ HasIn(rec.rounds[t], i, told[i].blob)
        BY <3>4, <3>7, CountedIsEntry
      <4>2. HasIn(Upserted(rec.rounds[t], e), i, told[i].blob)
        BY <3>3, <3>4, <4>1, UpsertedCounts
      <4> QED BY <2>1, <3>4, <3>7, <4>2
    <3> QED BY <3>5, <3>6, <3>7
  <2> QED BY <2>2, <2>3, DocumentsMove
<1> QED BY <1>1, <1>2

(* A transcript goes with its interview, and comes with an answer.         *)
TranscriptsMove ==
  /\ \A t \in transcripts : t \in transcripts' \/ iv'[t.source] = None
  /\ \A t \in transcripts' : t \in transcripts \/ told'[t.source] # None

LEMMA TranscriptsMoveSo ==
  ASSUME TypeOK, RowsInv, ErasesItsOwn, [Next]_vars
  PROVE  TranscriptsMove
<1>1. ASSUME transcripts' = transcripts PROVE TranscriptsMove
  BY <1>1 DEF TranscriptsMove
<1>2. ASSUME NEW c \in Consultants, DeleteRow(c) PROVE TranscriptsMove
  <2>1. job[c] # None /\ job[c].op = "delete" /\ transcripts' = transcripts \ job[c].erased
    BY <1>2 DEF DeleteRow
  <2>2. job[c].id \in Ids
    BY <2>1, JobHas
  <2>3. iv'[job[c].id] = None
    BY <1>2, <2>2 DEF DeleteRow
  <2>4. \A t \in job[c].erased : t.source = job[c].id
    BY <2>1 DEF ErasesItsOwn
  <2> QED BY <2>1, <2>3, <2>4 DEF TranscriptsMove
<1>3. ASSUME NEW p \in People, FinishCommits(p) \/ FinishUnmerged(p) PROVE TranscriptsMove
  <2> PICK f \in Finishing : f = finishing[p]
    BY <1>3 DEF FinishCommits, FinishUnmerged, TypeOK
  <2>0. PICK what \in {"ok", "failed"} : Answer(p, what)
    BY <1>3 DEF FinishCommits, FinishUnmerged
  <2> DEFINE blob == IF what = "ok" THEN f.blob ELSE 0
  <2>1. /\ told' = [told EXCEPT ![f.id] = [answer |-> what, blob |-> blob]]
        /\ transcripts' = transcripts \cup Transcribed(f)
    BY <1>3, <2>0 DEF FinishCommits, FinishUnmerged, Answer
  <2>2. [answer |-> what, blob |-> blob] \in Answered /\ f.id \in Ids
    BY DEF Answered, Finishing
  <2> HIDE DEF blob
  <2>3. told'[f.id] # None
    BY <2>1, <2>2, NoneDiffers DEF TypeOK
  <2>4. \A t \in Transcribed(f) : t.source = f.id
    BY DEF Transcribed
  <2> QED BY <2>1, <2>3, <2>4 DEF TranscriptsMove
<1>4. CASE Next
  <2>1. CASE \E c \in Consultants :
              \/ \E w \in People, cl \in Clients, r \in 0 .. MaxRound : InviteLogin(c, w, cl, r)
              \/ InviteMember(c) \/ InviteGuard(c) \/ InviteRow(c)
              \/ \E j \in Ids : DeleteErases(c, j) \/ DraftReads(c, j)
              \/ DraftWrites(c)
              \/ RevokeMembership(c) \/ RevokeLogin(c) \/ JobDies(c)
    BY <1>1, <2>1 DEF InviteLogin, InviteMember, InviteGuard, InviteRow, DeleteErases, DraftReads,
                      DraftWrites, RevokeMembership, RevokeLogin, JobDies
  <2>2. ASSUME NEW j \in Ids, Approve(j) PROVE TranscriptsMove
    BY <1>1, <2>2 DEF Approve
  <2>3. ASSUME NEW j \in Ids, NEW s \in {"invited", "in_progress", "completed"},
               NEW r \in 0 .. MaxRound, NEW cl \in Clients, Patch(j, s, r, cl)
        PROVE  TranscriptsMove
    BY <1>1, <2>3 DEF Patch
  <2>4. CASE \E cl \in Clients : PlanRound(cl)
    BY <1>1, <2>4 DEF PlanRound
  <2>5. CASE \E q \in People : SaveReads(q) \/ SaveCommits(q) \/ FinishReads(q) \/ FinishAborts(q)
                                \/ RequestDies(q)
    BY <1>1, <2>5 DEF SaveReads, SaveCommits, FinishReads, FinishAborts, RequestDies
  <2> QED BY <1>2, <1>3, <1>4, <2>1, <2>2, <2>3, <2>4, <2>5 DEF Next
<1>5. CASE UNCHANGED vars
  BY <1>1, <1>5 DEF vars
<1> QED BY <1>4, <1>5

LEMMA ErasesStep ==
  ASSUME TypeOK, RowsInv, ErasesItsOwn, [Next]_vars
  PROVE  ErasesItsOwn'
<1> SUFFICES ASSUME NEW c \in Consultants, job'[c] # None, job'[c].op = "delete"
             PROVE  \A t \in job'[c].erased : t.source = job'[c].id
  BY DEF ErasesItsOwn
<1>1. CASE job'[c] = job[c]
  BY <1>1 DEF ErasesItsOwn
<1>2. ASSUME NEW i \in Ids, DeleteErases(c, i)
      PROVE  \A t \in job'[c].erased : t.source = job'[c].id
  <2>1. job'[c].id = i /\ job'[c].erased = OfInterview(i)
    BY <1>2 DEF DeleteErases, Erased, TypeOK
  <2> QED BY <2>1 DEF OfInterview
<1> QED BY <1>1, <1>2, DeletionsMoveSo DEF DeletionsMove

(* What a record counts of an interview that still exists is transcribed.  *)
StoredInv ==
  /\ \A k \in Codes, r \in Rounds : records[k] # None =>
       \A e \in Range(records[k].rounds[r].entries) :
         iv[e.source] # None => [source |-> e.source, blob |-> e.blob] \in transcripts
  /\ \A t \in transcripts : told[t.source] # None

LEMMA StoredStep ==
  ASSUME "merge" \notin Overlaps, TypeOK, RowsInv, ErasesItsOwn, CountsInv, FinishesKnow,
         StoredInv, [Next]_vars
  PROVE  StoredInv'
<1> USE NoneDiffers
<1>1. RowsMove /\ TranscriptsMove
  BY RowsMoveSo, TranscriptsMoveSo
<1>2. \A t \in transcripts' : told'[t.source] # None
  <2>1. \A t \in transcripts : t.source \in Ids /\ told[t.source] # None
    BY DEF TypeOK, Transcript, StoredInv
  <2>2. \A t \in transcripts : told'[t.source] # None
    BY <2>1, ToldMoves
  <2> QED BY <1>1, <2>2 DEF TranscriptsMove
<1>3. ASSUME NEW k \in Codes, NEW r \in Rounds, records[k] # None,
             NEW e \in Range(records[k].rounds[r].entries), iv'[e.source] # None
      PROVE  [source |-> e.source, blob |-> e.blob] \in transcripts'
  <2>1. records[k] \in Record
    BY <1>3 DEF TypeOK
  <2>2. e \in Entry /\ OfItsRow(e)
    BY <1>3, <2>1, CountedIsEntry DEF CountsInv, CountedIn
  <2>3. iv[e.source] # None
    BY <1>1, <1>3, <2>2, EntryStays
  <2> DEFINE t == [source |-> e.source, blob |-> e.blob]
  <2>4. t \in transcripts /\ t.source = e.source
    BY <1>3, <2>3 DEF StoredInv
  <2> HIDE DEF t
  <2>5. t \in transcripts'
    BY <1>1, <1>3, <2>4 DEF TranscriptsMove
  <2> QED BY <2>5 DEF t
<1>4. ASSUME NEW k \in Codes, NEW r \in Rounds, records'[k] # None,
             NEW e \in Range(records'[k].rounds[r].entries), iv'[e.source] # None
      PROVE  [source |-> e.source, blob |-> e.blob] \in transcripts'
  <2>1. CASE SameEntries
    BY <1>3, <1>4, <2>1 DEF SameEntries
  <2>2. ASSUME NEW p \in People, Merges(p)
        PROVE  [source |-> e.source, blob |-> e.blob] \in transcripts'
    <3> PICK f \in Finishing : f = finishing[p]
      BY <2>2 DEF TypeOK, Merges, FinishCommits
    <3> DEFINE rec == RecordOf(f)
               g == EntryOf(f)
               t == Target(rec, f.row)
    <3>1. StoredAs(f)
      BY <2>2, MergeStores
    <3>2. /\ rec \in Record /\ g \in Entry /\ t \in Rounds /\ f.code \in Codes
          /\ \A l \in Codes : l # f.code => records'[l] = records[l]
          /\ records'[f.code].rounds[t] = Upserted(rec.rounds[t], g)
          /\ \A q \in Rounds : q # t => records'[f.code].rounds[q] = rec.rounds[q]
          /\ records[f.code] # None => rec = records[f.code]
          /\ records[f.code] = None => rec.rounds[r] = NoRound
      BY <3>1 DEF StoredAs
    <3>3. g.source = f.id /\ g.blob = f.blob
      BY DEF EntryOf
    <3>4. [source |-> f.id, blob |-> f.blob] \in transcripts'
      BY <2>2, MergeLeaves
    <3> HIDE DEF rec, g, t
    <3>5. CASE k # f.code
      BY <1>3, <1>4, <3>2, <3>5
    <3>6. ASSUME k = f.code, e \in Range(rec.rounds[r].entries)
          PROVE  [source |-> e.source, blob |-> e.blob] \in transcripts'
      <4>1. records[k] # None
        BY <3>2, <3>6, NothingCounted
      <4> QED BY <1>3, <1>4, <3>2, <3>6, <4>1
    <3>7. CASE k = f.code /\ r # t
      BY <1>4, <3>2, <3>6, <3>7
    <3>8. CASE k = f.code /\ r = t
      <4>1. rec.rounds[t] \in RoundRecord
        BY <3>2, CountedIsEntry
      <4>2. e = g \/ e \in Range(rec.rounds[t].entries)
        BY <1>4, <3>2, <3>8, <4>1, UpsertedCounts
      <4> QED BY <3>3, <3>4, <3>6, <3>8, <4>2
    <3> QED BY <3>5, <3>7, <3>8
  <2> QED BY <2>1, <2>2, DocumentsMove
<1> QED BY <1>2, <1>4 DEF StoredInv

--------------------------------------------------------------------------------
DocumentsInv == ClientsInv /\ CountsInv /\ ErasesItsOwn /\ StoredInv /\ ToldInv

LEMMA DocumentsInit == Init => DocumentsInv
<1> SUFFICES ASSUME Init PROVE DocumentsInv
  OBVIOUS
<1> USE NoneIsNoRecord, Bounds
<1> PICK opened \in SUBSET Clients : \E listed \in SUBSET opened :
       /\ index = [c \in Clients |-> IF c \in listed THEN c ELSE None]
       /\ records = [k \in Codes |-> IF k \in opened THEN Begun(NewRecord(k), 1) ELSE None]
  BY DEF Init
<1>0. records = [k \in Codes |-> IF k \in opened THEN Begun(NewRecord(k), 1) ELSE None]
  OBVIOUS
<1>1. \A k \in Clients :
        /\ Begun(NewRecord(k), 1) \in Record /\ Begun(NewRecord(k), 1).client = k
        /\ \A r \in Rounds :
             /\ Begun(NewRecord(k), 1).rounds[r].entries = NoRound.entries
             /\ Begun(NewRecord(k), 1).rounds[r].superseded = NoRound.superseded
  BY NewRecordIs, BegunIs
<1>2. \A k \in Codes : IF k \in opened
        THEN /\ records[k] # None /\ records[k].client = k
             /\ \A r \in Rounds :
                  /\ records[k].rounds[r].entries = NoRound.entries
                  /\ records[k].rounds[r].superseded = NoRound.superseded
        ELSE records[k] = None
  BY <1>0, <1>1
<1>3. /\ transcripts = {}
      /\ \A i \in Ids : iv[i] = None /\ told[i] = None
      /\ \A c \in Consultants : job[c] = None
      /\ \A p \in People : finishing[p] = None
  BY DEF Init
<1>4. \A c \in Clients : index[c] # None => index[c] \in opened /\ index[c] = c
  OBVIOUS
<1>5. Clients \subseteq Codes
  BY DEF Codes
<1>6. IndexInv /\ OneRecordPerClient
  BY <1>2, <1>4, <1>5 DEF IndexInv, Names, OneRecordPerClient, Kept
<1>7. MintedInv
  <2>1. \A c \in Clients, i \in Ids : <<c, i>> \in Codes /\ <<c, i>> \notin opened
    BY DEF Codes
  <2> QED BY <1>2, <2>1 DEF MintedInv
<1>8. CountsInv
  <2> SUFFICES ASSUME NEW k \in Codes, records[k] # None, NEW r \in Rounds
               PROVE  /\ OnceIn(records[k].rounds[r])
                      /\ Range(records[k].rounds[r].entries) = {}
    BY DEF CountsInv, CountedIn
  <2>1. /\ records[k].rounds[r].entries = NoRound.entries
        /\ records[k].rounds[r].superseded = NoRound.superseded
    BY <1>2
  <2> QED BY <2>1, NothingCounted, SameCounts
<1>9. StoredInv
  <2>1. \A k \in Codes, r \in Rounds : records[k] # None => Range(records[k].rounds[r].entries) = {}
    BY <1>2, NothingCounted
  <2> QED BY <1>3, <2>1 DEF StoredInv
<1>10. ToldInv /\ ErasesItsOwn /\ FinishesKnow
  BY <1>3 DEF ToldInv, ErasesItsOwn, FinishesKnow
<1> QED BY <1>6, <1>7, <1>8, <1>9, <1>10 DEF DocumentsInv, ClientsInv

LEMMA DocumentsStep ==
  ASSUME "merge" \notin Overlaps, "skipped" \notin Faults, TypeOK, TypeOK', RowsInv, DocumentsInv, [Next]_vars
  PROVE  DocumentsInv'
<1>1. ClientsInv'
  BY DocumentsMove, ClientsStay, ClientsMerge DEF DocumentsInv
<1> QED BY <1>1, CountsStep, ErasesStep, StoredStep, ToldStep DEF DocumentsInv, ClientsInv

LEMMA DocumentsAnswer == TypeOK /\ DocumentsInv => AnswersKept
<1> SUFFICES ASSUME TypeOK, DocumentsInv PROVE AnswersKept
  OBVIOUS
<1>1. AnswersReachTheRecord
  BY DEF DocumentsInv, ToldInv, AnswersReachTheRecord, HasIn, Kept, Counted, Archived, Full
<1>2. CountedOnce
  <2>1. \A k \in Kept, r \in Rounds : OnceIn(records[k].rounds[r])
    BY DEF DocumentsInv, CountsInv, CountedIn, Kept
  <2> QED BY <2>1 DEF CountedOnce, OnceIn, Firsts, Archived
<1>3. TranscriptsAgree
  BY DEF DocumentsInv, StoredInv, TranscriptsAgree, Kept, Counted
<1> QED BY <1>1, <1>2, <1>3 DEF AnswersKept, DocumentsInv, ClientsInv

(* What an interviewee was told is saved stays, counted once, in the one   *)
(* record of its client, and is what the stored transcript says, until an  *)
(* archive is full: as long as no two completions of a client read its     *)
(* record before either has written it, no round is planned in between,    *)
(* and no record is passed over because it cannot be read.                 *)
THEOREM AnswersAreKept ==
  ASSUME "merge" \notin Overlaps, "skipped" \notin Faults
  PROVE  Spec => []AnswersKept
<1>1. Init => DocumentsInv
  BY DocumentsInit
<1>2. TypeOK /\ TypeOK' /\ RowsInv /\ DocumentsInv /\ [Next]_vars => DocumentsInv'
  BY DocumentsStep
<1>3. TypeOK /\ DocumentsInv => AnswersKept
  BY DocumentsAnswer
<1> QED BY <1>1, <1>2, <1>3, RowsAreKept, PTL DEF Spec
================================================================================
