-------------------------- MODULE WorkspaceProofs --------------------------
(***************************************************************************)
(* The safety of the workspace store for any number of tabs, keys, edits,  *)
(* server jobs and troubles: its type, that a version stands for one       *)
(* value, that a save replaces the row it was built on, and, where every   *)
(* answered load can be parsed, that only a tab that was loaded saves; and *)
(* that no edit is lost where nobody else writes what it changes.          *)
(*                                                                         *)
(* After it, what is kept in one of those records: the rounds of an        *)
(* engagement, whoever writes them.  Scores rest on answers, they go out   *)
(* of date only behind a round written late, and the card moves forward.   *)
(***************************************************************************)
EXTENDS WorkspaceStore, EngagementRounds, FiniteSetTheorems, WellFoundedInduction,
        NaturalsInduction, TLAPS

(* Rows: what the writers do to them, and what that does to older ones. *)

\* A write creates the row in its next life, leaves it, or moves its version.
LEMMA UpsertRow ==
  ASSUME NEW row \in Row, NEW v \in Value
  PROVE  /\ Upsert(row, v) \in Row
         /\ \/ row.version = 0 /\ Upsert(row, v).life = row.life + 1
            \/ Upsert(row, v) = row
            \/ /\ row.version > 0 /\ Upsert(row, v).life = row.life
               /\ Upsert(row, v).version = row.version + 1
  <1>1. /\ row.version \in Nat /\ row.life \in Nat /\ row.value \in Value
        /\ row = [version |-> row.version, value |-> row.value, life |-> row.life]
    BY DEF Row
  <1>2. CASE row.version = 0
    <2>1. Upsert(row, v) = [version |-> 1, value |-> v, life |-> row.life + 1]
      BY <1>2 DEF Upsert
    <2> QED
      BY <1>1, <1>2, <2>1 DEF Row
  <1>3. CASE row.version # 0 /\ v = row.value
    <2>1. Upsert(row, v) = [row EXCEPT !.value = v, !.version = row.version]
      BY <1>3 DEF Upsert
    <2> QED
      BY <1>1, <1>3, <2>1
  <1>4. CASE row.version # 0 /\ v # row.value
    <2>1. Upsert(row, v) = [row EXCEPT !.value = v, !.version = row.version + 1]
      BY <1>4 DEF Upsert
    <2>2. Upsert(row, v) = [version |-> row.version + 1, value |-> v, life |-> row.life]
      BY <1>1, <2>1
    <2> QED
      BY <1>1, <1>4, <2>2 DEF Row
  <1> QED
    BY <1>2, <1>3, <1>4

LEMMA DeletedRow ==
  ASSUME NEW row \in Row PROVE Deleted(row) \in Row
  BY DEF Deleted, Row, Value

\* A row that was the stored one at some time still was after any write.
LEMMA WritesKeepHistory ==
  ASSUME NEW b \in Row, NEW row \in Row, NEW v \in Value, Precedes(b, row)
  PROVE  Precedes(b, Upsert(row, v)) /\ Precedes(b, Deleted(row))
  <1>1. Precedes(b, Upsert(row, v))
    BY UpsertRow DEF Precedes, Row
  <1>2. Precedes(b, Deleted(row))
    BY DEF Precedes, Deleted, Row
  <1> QED
    BY <1>1, <1>2

LEMMA RowPrecedesItself ==
  ASSUME NEW row PROVE Precedes(row, row)
  BY DEF Precedes

-----------------------------------------------------------------------------
(* Requests. *)

\* A request is one of its tab, carries what it was given, and names for each
\* key it sets the row the tab has for it.
LEMMA NewFlightFields ==
  ASSUME TypeOK, NEW t \in Tabs, NEW s \in Documents, NEW d \in SUBSET Keys,
         NEW sync \in BOOLEAN, FreeNr(t) # {}
  PROVE  LET f == NewFlight(t, s, d, sync)
         IN  /\ f \in Flight
             /\ f.tab = t /\ f.sets = s
             /\ \A k \in Keys :
                  /\ f.expected[k] = IF s[k] = None THEN None ELSE basis[t][k]
                  /\ f.conflicts[k] = None /\ f.applied[k] = None
  <1> DEFINE f == NewFlight(t, s, d, sync)
             nr == CHOOSE n \in FreeNr(t) : TRUE
             expected == [k \in Keys |-> IF s[k] = None THEN None ELSE basis[t][k]]
  <1>1. nr \in 1 .. MaxFlights
    BY DEF FreeNr
  <1>2. expected \in Rows
    BY DEF TypeOK, Rows
  <1>3. Nothing \in Rows
    BY DEF Nothing, Rows
  <1>4. f = [tab |-> t, nr |-> nr, sets |-> s, deletes |-> d, expected |-> expected,
             sync |-> sync, listening |-> TRUE, step |-> "sent",
             conflicts |-> Nothing, applied |-> Nothing]
    BY DEF NewFlight
  <1> HIDE DEF f, nr, expected
  <1>5. f \in Flight
    BY <1>1, <1>2, <1>3, <1>4 DEF Flight
  <1>6. f.tab = t /\ f.sets = s /\ f.expected = expected
        /\ f.conflicts = Nothing /\ f.applied = Nothing
    BY <1>4
  <1> QED
    BY <1>5, <1>6 DEF f, expected, Nothing

\* The row of every key after a request is what a write leaves of the row before.
LEMMA StoreAfterRow ==
  ASSUME store \in [Keys -> Row], NEW f \in Flight, NEW k \in Keys
  PROVE  /\ AfterSets(f, k) \in Row
         /\ StoreAfter(f)[k] \in Row
         /\ \A b \in Row : Precedes(b, store[k]) => Precedes(b, StoreAfter(f)[k])
         /\ Precedes(AfterSets(f, k), StoreAfter(f)[k])
  <1>1. f.sets[k] # None => f.sets[k] \in Value
    BY DEF Flight, Documents
  <1>2. AfterSets(f, k) \in Row
    BY <1>1, UpsertRow DEF AfterSets, Written
  <1>3. StoreAfter(f)[k] = IF k \in f.deletes THEN Deleted(AfterSets(f, k)) ELSE AfterSets(f, k)
    BY DEF StoreAfter
  <1>4. \A b \in Row : Precedes(b, store[k]) => Precedes(b, AfterSets(f, k))
    BY <1>1, WritesKeepHistory DEF AfterSets, Written
  <1>5. {} \in Value
    BY DEF Value
  <1>6. \A b \in Row : Precedes(b, AfterSets(f, k)) => Precedes(b, Deleted(AfterSets(f, k)))
    BY <1>2, <1>5, WritesKeepHistory
  <1> QED
    BY <1>2, <1>3, <1>4, <1>6, DeletedRow, RowPrecedesItself

\* The answer is the request with its outcome.
LEMMA AnsweredFields ==
  ASSUME store \in [Keys -> Row], NEW f \in Flight
  PROVE  /\ Answered(f) \in Flight
         /\ Answered(f).tab = f.tab /\ Answered(f).sets = f.sets
         /\ Answered(f).deletes = f.deletes
         /\ Answered(f).expected = f.expected /\ Answered(f).listening = f.listening
         /\ Answered(f).step # "sent"
         /\ Answered(f).step = "ok" => \A k \in Keys : ~Conflicts(f, k)
         /\ \A k \in Keys : Answered(f).conflicts[k] = None => ~Conflicts(f, k)
         /\ \A k \in Keys :
              /\ Answered(f).conflicts[k] \in {None, store[k]}
              /\ Answered(f).applied[k] \in {None, AfterSets(f, k)}
  <1> DEFINE step == IF \E k \in Keys : Conflicts(f, k) THEN "conflict" ELSE "ok"
             conflicts == [k \in Keys |-> IF Conflicts(f, k) THEN store[k] ELSE None]
             applied == [k \in Keys |-> IF Written(f, k) THEN AfterSets(f, k) ELSE None]
  <1>1. conflicts \in Rows
    BY DEF Rows
  <1>2. applied \in Rows
    BY StoreAfterRow DEF Rows
  <1>3. step \in {"ok", "conflict"}
    OBVIOUS
  <1>4. Answered(f) = [f EXCEPT !.step = step, !.conflicts = conflicts, !.applied = applied]
    BY DEF Answered
  <1>5. \A k \in Keys : conflicts[k] \in {None, store[k]} /\ applied[k] \in {None, AfterSets(f, k)}
    OBVIOUS
  <1>6. /\ step = "ok" => \A k \in Keys : ~Conflicts(f, k)
        /\ \A k \in Keys : conflicts[k] = None => ~Conflicts(f, k)
    BY NoneAssumption
  <1> HIDE DEF step, conflicts, applied
  <1> QED
    BY <1>1, <1>2, <1>3, <1>4, <1>5, <1>6 DEF Flight

\* A request nobody waits for any more.
LEMMA SilencedFields ==
  ASSUME NEW f \in Flight
  PROVE  LET g == [f EXCEPT !.listening = FALSE]
         IN  /\ g \in Flight /\ ~g.listening /\ g.tab = f.tab /\ g.step = f.step
             /\ g.sets = f.sets /\ g.deletes = f.deletes /\ g.expected = f.expected
             /\ g.conflicts = f.conflicts /\ g.applied = f.applied
  BY DEF Flight

\* The same of a blocking request whose answer was lost.
LEMMA ForgottenFields ==
  ASSUME NEW f \in Flight, NEW nr \in 1 .. MaxFlights
  PROVE  LET g == Unheard(f, nr)
         IN  /\ g \in Flight /\ ~g.listening /\ g.tab = f.tab /\ g.step = "sent"
             /\ g.sets = f.sets /\ g.deletes = f.deletes /\ g.expected = f.expected
             /\ \A k \in Keys : g.conflicts[k] = None /\ g.applied[k] = None
  <1>1. Nothing \in Rows /\ \A k \in Keys : Nothing[k] = None
    BY DEF Nothing, Rows
  <1> QED
    BY <1>1 DEF Flight, Unheard

\* What is left of a request its page is done with.
LEMMA LeftOver ==
  ASSUME NEW f \in Flight, NEW g \in flights',
         \/ Saved(f) \/ OnVersionConflict(f) \/ Fails(f) \/ Rejected(f) \/ Vanishes(f)
         \/ FlushNowReturns(f) \/ FlushNowFails(f)
  PROVE  \/ g \in flights
         \/ f.step = "sent" /\ g = [f EXCEPT !.listening = FALSE]
         \/ \E nr \in 1 .. MaxFlights : g = Unheard(f, nr)
  <1>1. f.nr \in 1 .. MaxFlights
    BY DEF Flight
  <1>2. CASE FlushNowFails(f)
    BY <1>1, <1>2 DEF FlushNowFails, FreeNr
  <1>3. CASE ~FlushNowFails(f)
    BY <1>3 DEF Saved, OnVersionConflict, Fails, Rejected, Vanishes, FlushNowReturns
  <1> QED
    BY <1>2, <1>3
-----------------------------------------------------------------------------
(* What the parts of the handlers do to the type invariant. *)

LEMMA EmptyTypes ==
  /\ Nothing \in Documents /\ Nothing \in Rows /\ NoRow \in Row
  /\ {} \in Value /\ [k \in Keys |-> NoRow] \in [Keys -> Row]
  BY DEF Nothing, Documents, Rows, NoRow, Row, Value

LEMMA SpendType ==
  ASSUME TypeOK, NEW x, Spend(x) PROVE used' \in Nat
  BY DEF Spend, TypeOK

LEMMA RequeueType ==
  ASSUME TypeOK, NEW t \in Tabs, NEW s \in Documents, NEW d \in SUBSET Keys, Requeue(t, s, d)
  PROVE  sets' \in [Tabs -> Documents] /\ deletes' \in [Tabs -> SUBSET Keys]
  <1>1. [k \in Keys |-> IF sets[t][k] = None THEN s[k] ELSE sets[t][k]] \in Documents
    BY DEF TypeOK, Documents
  <1> QED
    BY <1>1 DEF Requeue, TypeOK

LEMMA DrainType ==
  ASSUME TypeOK, NEW t \in Tabs, Drain(t)
  PROVE  sets' \in [Tabs -> Documents] /\ deletes' \in [Tabs -> SUBSET Keys]
  BY EmptyTypes DEF Drain, TypeOK

LEMMA WaiveType ==
  ASSUME TypeOK, NEW excused, Waive(excused)
  PROVE  edits' \in [Edits -> {"unmade", "owed", "waived"}]
  BY DEF Waive, TypeOK

LEMMA HydrateType ==
  ASSUME TypeOK, NEW t \in Tabs, NEW rows \in [Keys -> Row], Hydrate(t, rows)
  PROVE  cache' \in [Tabs -> Documents] /\ basis' \in [Tabs -> Rows]
  <1>1. [k \in Keys |-> IF rows[k].version = 0 THEN None ELSE rows[k].value] \in Documents
    BY DEF Row, Documents
  <1>2. rows \in Rows
    BY DEF Rows
  <1> QED
    BY <1>1, <1>2 DEF Hydrate, TypeOK

LEMMA FlushNowType ==
  ASSUME TypeOK, NEW t \in Tabs, NEW s \in Documents, NEW d \in SUBSET Keys, FlushNow(t, s, d)
  PROVE  /\ sets' \in [Tabs -> Documents] /\ deletes' \in [Tabs -> SUBSET Keys]
         /\ timer' \in [Tabs -> BOOLEAN] /\ flights' \subseteq Flight
  <1>1. flights' \subseteq Flight
    <2>1. flights \subseteq Flight
      BY DEF TypeOK
    <2>2. FreeNr(t) # {} => NewFlight(t, s, d, TRUE) \in Flight
      BY NewFlightFields
    <2> QED
      BY <2>1, <2>2 DEF FlushNow
  <1>2. timer' \in [Tabs -> BOOLEAN]
    BY DEF FlushNow, TypeOK
  <1> QED
    BY <1>1, <1>2, DrainType DEF FlushNow

LEMMA AbandonedType ==
  ASSUME TypeOK, NEW t \in Tabs
  PROVE  /\ Abandoned(t) \subseteq Flight
         /\ \A f \in Abandoned(t) : f \in flights
                \/ \E g \in flights : f = [g EXCEPT !.listening = FALSE]
         /\ \A f \in Abandoned(t) : f.listening => f \in flights /\ f.tab # t
  <1> SUFFICES ASSUME NEW f \in Abandoned(t)
               PROVE  /\ f \in Flight
                      /\ f \in flights \/ \E g \in flights : f = [g EXCEPT !.listening = FALSE]
                      /\ f.listening => f \in flights /\ f.tab # t
    BY DEF TypeOK
  <1>1. PICK g \in flights : f = IF g.tab = t THEN [g EXCEPT !.listening = FALSE] ELSE g
    BY DEF Abandoned
  <1>2. g \in Flight
    BY DEF TypeOK
  <1> QED
    BY <1>1, <1>2, SilencedFields

LEMMA ClosesType ==
  ASSUME TypeOK, NEW t \in Tabs, Closes(t), used' \in Nat
  PROVE  TypeOK'
  <1>1. flights' \subseteq Flight
    BY AbandonedType DEF Closes
  <1>2. sets' \in [Tabs -> Documents] /\ deletes' \in [Tabs -> SUBSET Keys]
    BY DrainType DEF Closes
  <1>3. edits' \in [Edits -> {"unmade", "owed", "waived"}]
    BY WaiveType DEF Closes
  <1>4. /\ store' = store /\ arriving' = arriving /\ job' = job
        /\ page' = [page EXCEPT ![t] = "closed"]
        /\ cache' = [cache EXCEPT ![t] = Nothing]
        /\ basis' = [basis EXCEPT ![t] = Nothing]
        /\ timer' = [timer EXCEPT ![t] = FALSE]
    BY DEF Closes
  <1> QED
    BY <1>1, <1>2, <1>3, <1>4, EmptyTypes DEF TypeOK
LEMMA InitType == Init => TypeOK
  BY EmptyTypes DEF Init, TypeOK, Row, Value

\* A conflict's rows become what the tab reads and writes on.
LEMMA ConflictType ==
  ASSUME TypeOK, NEW f \in flights, OnVersionConflict(f)
  PROVE  TypeOK'
  <1> DEFINE t == f.tab
             refused == {k \in Keys : f.conflicts[k] # None}
             adopted == [k \in Keys |-> IF k \in refused THEN f.conflicts[k]
                                        ELSE IF f.applied[k] # None THEN f.applied[k]
                                        ELSE basis[t][k]]
             shown == [k \in Keys |-> IF k \in refused THEN f.conflicts[k].value
                                      ELSE cache[t][k]]
             again == [k \in Keys |-> IF k \in refused THEN f.sets[k] ELSE None]
  <1>1. f \in Flight /\ t \in Tabs
    BY DEF TypeOK, Flight
  <1>2. f.conflicts \in Rows /\ f.applied \in Rows /\ f.sets \in Documents
    BY <1>1 DEF Flight
  <1>3. adopted \in Rows
    BY <1>1, <1>2 DEF TypeOK, Rows
  <1>4. shown \in Documents
    BY <1>1, <1>2 DEF TypeOK, Rows, Documents, Row
  <1>5. again \in Documents
    BY <1>2 DEF Documents
  <1>6. /\ basis' = [basis EXCEPT ![t] = adopted]
        /\ cache' = [cache EXCEPT ![t] = shown]
    BY <1>1 DEF OnVersionConflict, TypeOK
  <1>7. Requeue(t, again, {})
    BY DEF OnVersionConflict
  <1>8. /\ store' = store /\ page' = page /\ arriving' = arriving
        /\ job' = job /\ edits' = edits /\ used' = used /\ flights' \subseteq flights
        /\ timer' = [timer EXCEPT ![t] = TRUE]
    BY DEF OnVersionConflict, ScheduleRetry
  <1> HIDE DEF adopted, shown, again, t
  <1>9. sets' \in [Tabs -> Documents] /\ deletes' \in [Tabs -> SUBSET Keys]
    BY <1>1, <1>5, <1>7, RequeueType
  <1> QED
    BY <1>1, <1>3, <1>4, <1>6, <1>8, <1>9 DEF TypeOK

\* An edit is added to the document its tab reads.
LEMMA SetItemType ==
  ASSUME TypeOK, NEW e \in Edits, SetItem(e)
  PROVE  TypeOK'
  <1> DEFINE t == By[e]
             k == On[e]
             doc == (IF cache[t][k] = None THEN {} ELSE cache[t][k]) \cup {e}
  <1>1. t \in Tabs /\ k \in Keys
    BY EditAssumption
  <1>2. cache[t] \in Documents /\ sets[t] \in Documents /\ deletes[t] \in SUBSET Keys
    BY <1>1 DEF TypeOK
  <1>3. doc \in Value
    BY <1>1, <1>2 DEF Documents, Value
  <1>4. /\ edits' = [edits EXCEPT ![e] = "owed"]
        /\ cache' = [cache EXCEPT ![t][k] = doc]
        /\ sets' = [sets EXCEPT ![t][k] = doc]
        /\ deletes' = [deletes EXCEPT ![t] = @ \ {k}]
        /\ timer' = [timer EXCEPT ![t] = TRUE]
        /\ UNCHANGED <<store, page, basis, arriving, flights, job, used>>
    BY DEF SetItem
  <1> HIDE DEF t, k, doc
  <1>5. cache' \in [Tabs -> Documents] /\ sets' \in [Tabs -> Documents]
    BY <1>1, <1>2, <1>3, <1>4 DEF TypeOK, Documents
  <1> QED
    BY <1>1, <1>2, <1>4, <1>5 DEF TypeOK

LEMMA RemoveItemType ==
  ASSUME TypeOK, NEW t \in Tabs, NEW k \in Keys, RemoveItem(t, k)
  PROVE  TypeOK'
  <1>1. cache' \in [Tabs -> Documents] /\ sets' \in [Tabs -> Documents]
    BY DEF RemoveItem, TypeOK, Documents
  <1>2. deletes' \in [Tabs -> SUBSET Keys] /\ timer' \in [Tabs -> BOOLEAN]
    BY DEF RemoveItem, TypeOK
  <1>3. edits' \in [Edits -> {"unmade", "owed", "waived"}]
    BY WaiveType DEF RemoveItem
  <1>4. used' \in Nat
    BY SpendType DEF RemoveItem
  <1> QED
    BY <1>1, <1>2, <1>3, <1>4 DEF RemoveItem, TypeOK

LEMMA JobTypes ==
  ASSUME TypeOK, NEW j \in Jobs, JobReads(j) \/ JobWrites(j) \/ JobDeletes(j)
  PROVE  TypeOK'
  <1> DEFINE Progress == [step : {"new", "read", "done"}, key : Keys \cup {None}, value : Value]
             over == [step |-> "done", key |-> None, value |-> {}]
             k == job[j].key
  <1>1. job[j] \in Progress /\ job[j].value \cup {j} \in Value
    BY DEF TypeOK, Value
  <1>2. over \in Progress
    BY EmptyTypes
  <1>3. CASE JobReads(j)
    <2>1. PICK key \in Keys :
            job' = [job EXCEPT ![j] = [step |-> "read", key |-> key, value |-> store[key].value]]
      BY <1>3 DEF JobReads
    <2>2. [step |-> "read", key |-> key, value |-> store[key].value] \in Progress
      BY DEF TypeOK, Row
    <2> QED
      BY <1>3, <2>1, <2>2 DEF JobReads, TypeOK, tabVars
  <1>4. CASE JobWrites(j)
    <2>1. store' = [store EXCEPT ![k] = Upsert(store[k], job[j].value \cup {j})]
      BY <1>4 DEF JobWrites
    <2>2. store' \in [Keys -> Row]
      BY <1>1, <2>1, UpsertRow DEF TypeOK
    <2> QED
      BY <1>2, <1>4, <2>2 DEF JobWrites, TypeOK, tabVars
  <1>5. CASE JobDeletes(j)
    <2>1. store' = [store EXCEPT ![k] = Deleted(store[k])]
      BY <1>5 DEF JobDeletes
    <2>2. store' \in [Keys -> Row]
      BY <2>1, DeletedRow DEF TypeOK
    <2> QED
      BY <1>2, <1>5, <2>2 DEF JobDeletes, TypeOK, tabVars
  <1> QED
    BY <1>3, <1>4, <1>5
LEMMA LoadTypes ==
  ASSUME TypeOK, NEW t \in Tabs,
         \/ Load(t) \/ ServeGet(t) \/ GetArrives(t) \/ GetFails(t)
         \/ SyncHydrate(t) \/ SyncHydrateFails(t) \/ SyncHydrateGarbled(t)
  PROVE  TypeOK'
  <1>1. CASE Load(t)
    BY <1>1 DEF Load, TypeOK, tabVars
  <1>2. CASE ServeGet(t)
    BY <1>2 DEF ServeGet, TypeOK, tabVars
  <1>3. CASE GetArrives(t)
    <2>1. cache' \in [Tabs -> Documents] /\ basis' \in [Tabs -> Rows]
      BY <1>3, HydrateType DEF GetArrives, TypeOK
    <2> QED
      BY <1>3, <2>1, EmptyTypes DEF GetArrives, TypeOK
  <1>4. CASE GetFails(t)
    BY <1>4, SpendType, EmptyTypes DEF GetFails, TypeOK, tabVars
  <1>5. CASE SyncHydrate(t)
    <2>1. cache' \in [Tabs -> Documents] /\ basis' \in [Tabs -> Rows]
      BY <1>5, HydrateType DEF SyncHydrate, TypeOK
    <2> QED
      BY <1>5, <2>1, EmptyTypes DEF SyncHydrate, TypeOK
  <1>6. CASE SyncHydrateFails(t)
    BY <1>6, SpendType, EmptyTypes DEF SyncHydrateFails, TypeOK, tabVars
  <1>7. CASE SyncHydrateGarbled(t)
    BY <1>7, SpendType, EmptyTypes DEF SyncHydrateGarbled, TypeOK, tabVars
  <1> QED
    BY <1>1, <1>2, <1>3, <1>4, <1>5, <1>6, <1>7

LEMMA FlightTypes ==
  ASSUME TypeOK, NEW f \in flights,
         \/ ServePut(f) \/ Saved(f) \/ Fails(f) \/ Rejected(f) \/ Vanishes(f)
         \/ FlushNowReturns(f) \/ FlushNowFails(f)
  PROVE  TypeOK'
  <1>1. /\ f \in Flight /\ f.tab \in Tabs /\ f.sets \in Documents /\ f.deletes \in SUBSET Keys
        /\ flights \subseteq Flight
    BY DEF TypeOK, Flight
  <1>2. CASE ServePut(f)
    <2>1. flights' \subseteq Flight
      BY <1>1, <1>2, AnsweredFields DEF ServePut, TypeOK
    <2>2. store' \in [Keys -> Row]
      <3>1. store' = [k \in Keys |-> StoreAfter(f)[k]]
        BY <1>2 DEF ServePut, StoreAfter
      <3>2. \A k \in Keys : StoreAfter(f)[k] \in Row
        BY <1>1, StoreAfterRow DEF TypeOK
      <3> QED
        BY <3>1, <3>2
    <2> QED
      BY <1>2, <2>1, <2>2 DEF ServePut, TypeOK, tabVars
  <1>3. CASE Saved(f) \/ Vanishes(f)
    <2>1. flights' \subseteq Flight
      BY <1>1, <1>3 DEF Saved, Vanishes
    <2> QED
      BY <1>3, <2>1 DEF Saved, Vanishes, TypeOK, tabVars
  <1>4. CASE Fails(f)
    <2>1. flights' \subseteq Flight
      BY <1>1, <1>4, SilencedFields DEF Fails
    <2>2. sets' \in [Tabs -> Documents] /\ deletes' \in [Tabs -> SUBSET Keys]
      BY <1>1, <1>4, RequeueType DEF Fails
    <2>3. timer' \in [Tabs -> BOOLEAN]
      BY <1>1, <1>4 DEF Fails, ScheduleRetry, TypeOK
    <2> QED
      BY <1>4, <2>1, <2>2, <2>3, SpendType DEF Fails, TypeOK
  <1>5. CASE Rejected(f)
    <2>1. flights' \subseteq Flight
      BY <1>1, <1>5 DEF Rejected
    <2> QED
      BY <1>5, <2>1, SpendType, WaiveType DEF Rejected, TypeOK, tabVars
  <1>6. CASE FlushNowReturns(f)
    <2>1. flights' \subseteq Flight
      BY <1>1, <1>6 DEF FlushNowReturns
    <2>2. sets' \in [Tabs -> Documents] /\ deletes' \in [Tabs -> SUBSET Keys]
      BY <1>1, <1>6, RequeueType DEF FlushNowReturns, TypeOK
    <2> QED
      BY <1>6, <2>1, <2>2 DEF FlushNowReturns, TypeOK
  <1>7. CASE FlushNowFails(f)
    <2>1. flights' \subseteq Flight
      <3>1. \A g \in flights' : g \in flights \/ \E nr \in 1 .. MaxFlights : g = Unheard(f, nr)
        BY <1>1, <1>7 DEF FlushNowFails, FreeNr, Flight
      <3>2. \A nr \in 1 .. MaxFlights : Unheard(f, nr) \in Flight
        BY <1>1, ForgottenFields
      <3> QED
        BY <1>1, <3>1, <3>2
    <2>2. sets' \in [Tabs -> Documents] /\ deletes' \in [Tabs -> SUBSET Keys]
      BY <1>1, <1>7, RequeueType DEF FlushNowFails
    <2> QED
      BY <1>7, <2>1, <2>2, SpendType DEF FlushNowFails, TypeOK
  <1> QED
    BY <1>2, <1>3, <1>4, <1>5, <1>6, <1>7

LEMMA PageTypes ==
  ASSUME TypeOK, NEW t \in Tabs,
         \/ Flush(t) \/ Leave(t) \/ Leaves(t) \/ Stays(t) \/ Rehydrate(t)
         \/ RehydrateReads(t) \/ RehydrateGarbled(t) \/ RehydrateFails(t)
  PROVE  TypeOK'
  <1>1. CASE Flush(t)
    <2>1. flights' \subseteq Flight
      <3>1. sets[t] \in Documents /\ deletes[t] \in SUBSET Keys /\ flights \subseteq Flight
        BY DEF TypeOK
      <3>2. FreeNr(t) # {}
        BY <1>1 DEF Flush
      <3>3. NewFlight(t, sets[t], deletes[t], FALSE) \in Flight
        BY <3>1, <3>2, NewFlightFields
      <3> QED
        BY <1>1, <3>1, <3>3 DEF Flush
    <2> QED
      BY <1>1, <2>1, DrainType DEF Flush, TypeOK
  <1>2. CASE Leave(t)
    <2>1. /\ sets' \in [Tabs -> Documents] /\ deletes' \in [Tabs -> SUBSET Keys]
          /\ timer' \in [Tabs -> BOOLEAN] /\ flights' \subseteq Flight
      BY <1>2, FlushNowType DEF Leave, TypeOK
    <2> QED
      BY <1>2, <2>1, SpendType DEF Leave, TypeOK
  <1>3. CASE Leaves(t)
    BY <1>3, ClosesType DEF Leaves, TypeOK
  <1>4. CASE Stays(t)
    BY <1>4 DEF Stays, TypeOK, tabVars
  <1>5. CASE Rehydrate(t)
    <2>1. PICK dropped \in SUBSET Keys :
            /\ FlushNow(t, [k \in Keys |-> IF k \in dropped THEN None ELSE sets[t][k]],
                        deletes[t] \ dropped)
            /\ Waive({e \in Edits : On[e] \in dropped} \cap Unstored(t))
      BY <1>5 DEF Rehydrate
    <2>2. [k \in Keys |-> IF k \in dropped THEN None ELSE sets[t][k]] \in Documents
      BY DEF TypeOK, Documents
    <2>3. deletes[t] \ dropped \in SUBSET Keys
      BY DEF TypeOK
    <2>4. /\ sets' \in [Tabs -> Documents] /\ deletes' \in [Tabs -> SUBSET Keys]
          /\ timer' \in [Tabs -> BOOLEAN] /\ flights' \subseteq Flight
      BY <2>1, <2>2, <2>3, FlushNowType
    <2>5. edits' \in [Edits -> {"unmade", "owed", "waived"}]
      BY <2>1, WaiveType
    <2> QED
      BY <1>5, <2>4, <2>5, SpendType DEF Rehydrate, TypeOK
  <1>6. CASE RehydrateReads(t)
    <2>1. cache' \in [Tabs -> Documents] /\ basis' \in [Tabs -> Rows]
      BY <1>6, HydrateType DEF RehydrateReads, TypeOK
    <2> QED
      BY <1>6, <2>1, DrainType DEF RehydrateReads, TypeOK
  <1>7. CASE RehydrateGarbled(t)
    BY <1>7, DrainType, SpendType, EmptyTypes DEF RehydrateGarbled, TypeOK
  <1>8. CASE RehydrateFails(t)
    BY <1>8, SpendType DEF RehydrateFails, TypeOK, tabVars
  <1> QED
    BY <1>1, <1>2, <1>3, <1>4, <1>5, <1>6, <1>7, <1>8

\* Every action leaves the state well-typed.
LEMMA TypeStep ==
  ASSUME TypeOK, [Next]_vars PROVE TypeOK'
  <1>1. CASE \E t \in Tabs :
               \/ Load(t) \/ ServeGet(t) \/ GetArrives(t) \/ GetFails(t)
               \/ SyncHydrate(t) \/ SyncHydrateFails(t) \/ SyncHydrateGarbled(t)
    BY <1>1, LoadTypes
  <1>2. CASE \E t \in Tabs :
               \/ Flush(t) \/ Leave(t) \/ Leaves(t) \/ Stays(t) \/ Rehydrate(t)
               \/ RehydrateReads(t) \/ RehydrateGarbled(t) \/ RehydrateFails(t)
    BY <1>2, PageTypes
  <1>3. CASE \E f \in flights :
               \/ ServePut(f) \/ Saved(f) \/ Fails(f) \/ Rejected(f) \/ Vanishes(f)
               \/ FlushNowReturns(f) \/ FlushNowFails(f)
    BY <1>3, FlightTypes
  <1>4. CASE \E f \in flights : OnVersionConflict(f)
    BY <1>4, ConflictType
  <1>5. CASE \E f \in flights : AuthFails(f)
    <2>1. PICK f \in flights : AuthFails(f)
      BY <1>5
    <2>2. f.tab \in Tabs
      BY DEF TypeOK, Flight
    <2> QED
      BY <2>1, <2>2, ClosesType, SpendType DEF AuthFails
  <1>6. CASE \E e \in Edits : SetItem(e)
    BY <1>6, SetItemType
  <1>7. CASE \E t \in Tabs, k \in Keys : RemoveItem(t, k)
    BY <1>7, RemoveItemType
  <1>8. CASE \E j \in Jobs : JobReads(j) \/ JobWrites(j) \/ JobDeletes(j)
    BY <1>8, JobTypes
  <1>9. CASE UNCHANGED vars
    BY <1>9 DEF vars, tabVars, TypeOK
  <1> QED
    BY <1>1, <1>2, <1>3, <1>4, <1>5, <1>6, <1>7, <1>8, <1>9 DEF Next
-----------------------------------------------------------------------------
(* A version stands for one value. *)

\* The rows of key k that request f names, or its answer does.
Told(f, k) == {f.expected[k], f.conflicts[k], f.applied[k]}

LEMMA ToldRows ==
  ASSUME TypeOK, NEW f \in flights, NEW k \in Keys
  PROVE  \A b \in Told(f, k) : b = None \/ b \in Row
  BY DEF TypeOK, Flight, Rows, Told

LEMMA VersionsOfFlights ==
  ASSUME VersionsNameValues, NEW f \in flights, NEW k \in Keys
  PROVE  \A b \in Told(f, k) : b = None \/ Precedes(b, store[k])
  BY DEF VersionsNameValues, Told, WasRow

\* The store may be written, as long as what was the row stays a former row;
\* pages and requests may be told what others were told or what is stored.
LEMMA VersionsFrame ==
  ASSUME TypeOK, VersionsNameValues,
         \A k \in Keys, b \in Row : Precedes(b, store[k]) => Precedes(b, store'[k]),
         \A t \in Tabs, k \in Keys :
            basis'[t][k] \in {None, basis[t][k]} \/ Precedes(basis'[t][k], store'[k]),
         \A t \in Tabs, k \in Keys : page'[t] = "answered" =>
            \/ page[t] = "answered" /\ arriving'[t][k] = arriving[t][k]
            \/ Precedes(arriving'[t][k], store'[k]),
         \A f \in flights', k \in Keys : \A b \in Told(f, k) :
            b = None \/ (\E g \in flights : b \in Told(g, k)) \/ Precedes(b, store'[k])
  PROVE  VersionsNameValues'
  <1>1. ASSUME NEW t \in Tabs, NEW k \in Keys, basis'[t][k] # None
        PROVE  Precedes(basis'[t][k], store'[k])
    <2>1. basis[t][k] # None => basis[t][k] \in Row /\ Precedes(basis[t][k], store[k])
      BY DEF TypeOK, Rows, VersionsNameValues, WasRow
    <2> QED
      BY <1>1, <2>1
  <1>2. ASSUME NEW t \in Tabs, NEW k \in Keys, page'[t] = "answered"
        PROVE  Precedes(arriving'[t][k], store'[k])
    <2>1. page[t] = "answered" => arriving[t][k] \in Row /\ Precedes(arriving[t][k], store[k])
      BY DEF TypeOK, VersionsNameValues, WasRow
    <2> QED
      BY <1>2, <2>1
  <1>3. ASSUME NEW f \in flights', NEW k \in Keys, NEW b \in Told(f, k), b # None
        PROVE  Precedes(b, store'[k])
    <2>1. CASE \E g \in flights : b \in Told(g, k)
      BY <1>3, <2>1, ToldRows, VersionsOfFlights
    <2> QED
      BY <1>3, <2>1
  <1>4. \A f \in flights', k \in Keys :
          /\ f.expected[k] # None => Precedes(f.expected[k], store'[k])
          /\ f.conflicts[k] # None => Precedes(f.conflicts[k], store'[k])
          /\ f.applied[k] # None => Precedes(f.applied[k], store'[k])
    BY <1>3 DEF Told
  <1> QED
    BY <1>1, <1>2, <1>4 DEF VersionsNameValues, WasRow

\* A tab reads what is stored.
LEMMA HydrateVersions ==
  ASSUME TypeOK, VersionsNameValues, NEW t \in Tabs, NEW rows \in [Keys -> Row],
         Hydrate(t, rows), \A k \in Keys : Precedes(rows[k], store[k])
  PROVE  \A u \in Tabs, k \in Keys :
            basis'[u][k] = basis[u][k] \/ Precedes(basis'[u][k], store[k])
  BY DEF Hydrate, TypeOK

LEMMA InitVersions == Init => VersionsNameValues
  BY DEF Init, VersionsNameValues, Nothing

\* A request that is new names the rows its tab has.
LEMMA NewFlightVersions ==
  ASSUME TypeOK, VersionsNameValues, NEW t \in Tabs, NEW s \in Documents, NEW d \in SUBSET Keys,
         NEW sync \in BOOLEAN, FreeNr(t) # {}, NEW k \in Keys,
         NEW b \in Told(NewFlight(t, s, d, sync), k)
  PROVE  b = None \/ Precedes(b, store[k])
  <1> DEFINE f == NewFlight(t, s, d, sync)
  <1>0. /\ f.expected[k] = IF s[k] = None THEN None ELSE basis[t][k]
        /\ f.conflicts[k] = None /\ f.applied[k] = None
    BY NewFlightFields
  <1>1. b \in {None, basis[t][k]}
    BY <1>0 DEF Told
  <1> QED
    BY <1>1 DEF VersionsNameValues, WasRow

LEMMA FlushNowVersions ==
  ASSUME TypeOK, VersionsNameValues, NEW t \in Tabs, NEW s \in Documents, NEW d \in SUBSET Keys,
         FlushNow(t, s, d)
  PROVE  \A f \in flights', k \in Keys : \A b \in Told(f, k) :
            b = None \/ (\E g \in flights : b \in Told(g, k)) \/ Precedes(b, store[k])
  BY NewFlightVersions DEF FlushNow

LEMMA ClosesVersions ==
  ASSUME TypeOK, VersionsNameValues, NEW t \in Tabs, Closes(t)
  PROVE  VersionsNameValues'
  <1>1. \A f \in flights' : \E g \in flights : \A k \in Keys : Told(f, k) = Told(g, k)
    <2> SUFFICES ASSUME NEW f \in Abandoned(t)
                 PROVE  \E g \in flights : \A k \in Keys : Told(f, k) = Told(g, k)
      BY DEF Closes
    <2>1. CASE f \in flights
      BY <2>1
    <2>2. CASE \E g \in flights : f = [g EXCEPT !.listening = FALSE]
      BY <2>2, SilencedFields DEF Told, TypeOK
    <2> QED
      BY <2>1, <2>2, AbandonedType
  <1>2. \A u \in Tabs, k \in Keys : basis'[u][k] \in {None, basis[u][k]}
    BY DEF Closes, TypeOK, Nothing
  <1>3. /\ store' = store /\ arriving' = arriving
        /\ \A u \in Tabs : page'[u] = "answered" => page[u] = "answered"
    BY DEF Closes, TypeOK
  <1> QED
    BY <1>1, <1>2, <1>3, VersionsFrame
LEMMA LoadVersions ==
  ASSUME TypeOK, VersionsNameValues, NEW t \in Tabs,
         \/ Load(t) \/ ServeGet(t) \/ GetArrives(t) \/ GetFails(t)
         \/ SyncHydrate(t) \/ SyncHydrateFails(t) \/ SyncHydrateGarbled(t)
         \/ Stays(t) \/ RehydrateReads(t) \/ RehydrateGarbled(t) \/ RehydrateFails(t)
  PROVE  VersionsNameValues'
  <1>1. store' = store /\ flights' = flights
    BY DEF Load, ServeGet, GetArrives, GetFails, SyncHydrate, SyncHydrateFails,
       SyncHydrateGarbled, Stays, RehydrateReads, RehydrateGarbled, RehydrateFails
  <1>2. \A k \in Keys : Precedes(store[k], store[k])
    BY RowPrecedesItself
  <1>3. \A u \in Tabs, k \in Keys :
           basis'[u][k] \in {None, basis[u][k]} \/ Precedes(basis'[u][k], store'[k])
    <2>1. CASE GetArrives(t)
      <3>1. Hydrate(t, arriving[t]) /\ arriving[t] \in [Keys -> Row]
        BY <2>1 DEF GetArrives, TypeOK
      <3>2. \A k \in Keys : Precedes(arriving[t][k], store[k])
        BY <2>1 DEF GetArrives, VersionsNameValues, WasRow
      <3> QED
        BY <1>1, <3>1, <3>2, HydrateVersions
    <2>2. CASE SyncHydrate(t) \/ RehydrateReads(t)
      <3>1. Hydrate(t, store) /\ store \in [Keys -> Row]
        BY <2>2 DEF SyncHydrate, RehydrateReads, TypeOK
      <3> QED
        BY <1>1, <1>2, <3>1, HydrateVersions
    <2>3. \/ GetArrives(t) \/ SyncHydrate(t) \/ RehydrateReads(t)
          \/ basis' = basis
      BY DEF Load, ServeGet, GetFails, SyncHydrateFails,
         SyncHydrateGarbled, Stays, RehydrateGarbled, RehydrateFails, tabVars
    <2> QED
      BY <2>1, <2>2, <2>3
  <1>4. \A u \in Tabs, k \in Keys : page'[u] = "answered" =>
           \/ page[u] = "answered" /\ arriving'[u][k] = arriving[u][k]
           \/ Precedes(arriving'[u][k], store'[k])
    <2>1. CASE ServeGet(t)
      BY <1>1, <1>2, <2>1 DEF ServeGet, TypeOK
    <2>2. CASE ~ServeGet(t)
      <3>1. \A u \in Tabs : page'[u] = "answered" => u # t /\ page[u] = "answered"
        BY <2>2 DEF Load, GetArrives, GetFails, SyncHydrate, SyncHydrateFails,
           SyncHydrateGarbled, Stays, RehydrateReads, RehydrateGarbled, RehydrateFails, TypeOK
      <3>2. \A u \in Tabs : u # t => arriving'[u] = arriving[u]
        BY <2>2 DEF Load, GetArrives, GetFails, SyncHydrate, SyncHydrateFails,
           SyncHydrateGarbled, Stays, RehydrateReads, RehydrateGarbled, RehydrateFails, TypeOK
      <3> QED
        BY <3>1, <3>2
    <2> QED
      BY <2>1, <2>2
  <1> QED
    BY <1>1, <1>3, <1>4, VersionsFrame

LEMMA FlightVersions ==
  ASSUME TypeOK, VersionsNameValues, NEW f \in flights,
         \/ ServePut(f) \/ Saved(f) \/ OnVersionConflict(f) \/ Fails(f) \/ Rejected(f)
         \/ Vanishes(f) \/ FlushNowReturns(f) \/ FlushNowFails(f)
  PROVE  VersionsNameValues'
  <1>1. f \in Flight /\ f.tab \in Tabs /\ flights \subseteq Flight
    BY DEF TypeOK, Flight
  <1>2. CASE ServePut(f)
    <2>1. \A k \in Keys : /\ store'[k] = StoreAfter(f)[k]
                          /\ \A b \in Row : Precedes(b, store[k]) => Precedes(b, store'[k])
                          /\ Precedes(AfterSets(f, k), store'[k])
                          /\ Precedes(store[k], store'[k])
      BY <1>1, <1>2, StoreAfterRow, RowPrecedesItself DEF ServePut, TypeOK
    <2>2. \A g \in flights' : g \in flights \/ g = Answered(f)
      BY <1>2 DEF ServePut
    <2>3. \A k \in Keys : Told(Answered(f), k) \subseteq {f.expected[k], None, store[k], AfterSets(f, k)}
      BY <1>1, AnsweredFields DEF TypeOK, Told
    <2>4. \A g \in flights', k \in Keys : \A b \in Told(g, k) :
            b = None \/ (\E h \in flights : b \in Told(h, k)) \/ Precedes(b, store'[k])
      BY <2>1, <2>2, <2>3 DEF Told
    <2>5. basis' = basis /\ page' = page /\ arriving' = arriving
      BY <1>2 DEF ServePut, tabVars
    <2> QED
      BY <2>1, <2>4, <2>5, VersionsFrame
  <1>3. CASE OnVersionConflict(f)
    <2>1. \A u \in Tabs, k \in Keys :
             basis'[u][k] = basis[u][k] \/ basis'[u][k] = None \/ basis'[u][k] \in Told(f, k)
      BY <1>1, <1>3 DEF OnVersionConflict, TypeOK, Told
    <2>2. store' = store /\ page' = page /\ arriving' = arriving /\ flights' \subseteq flights
      BY <1>3 DEF OnVersionConflict
    <2> QED
      BY <2>1, <2>2, VersionsOfFlights, VersionsFrame
  <1>4. CASE ~ServePut(f) /\ ~OnVersionConflict(f)
    <2>1. store' = store /\ page' = page /\ arriving' = arriving /\ basis' = basis
      BY <1>4 DEF Saved, Fails, Rejected, Vanishes, FlushNowReturns, FlushNowFails, tabVars
    <2>2. \A g \in flights' : \/ g \in flights
                              \/ g = [f EXCEPT !.listening = FALSE]
                              \/ \E nr \in 1 .. MaxFlights : g = Unheard(f, nr)
      BY <1>1, <1>4, LeftOver
    <2>3. \A g \in flights', k \in Keys : \A b \in Told(g, k) :
            b = None \/ (\E h \in flights : b \in Told(h, k))
      <3>1. ASSUME NEW k \in Keys, NEW b \in Told([f EXCEPT !.listening = FALSE], k)
            PROVE  b \in Told(f, k)
        BY <1>1, <3>1, SilencedFields DEF Told
      <3>2. ASSUME NEW k \in Keys, NEW nr \in 1 .. MaxFlights, NEW b \in Told(Unheard(f, nr), k)
            PROVE  b = None \/ b \in Told(f, k)
        BY <1>1, <3>2, ForgottenFields DEF Told
      <3> QED
        BY <2>2, <3>1, <3>2
    <2> QED
      BY <2>1, <2>3, VersionsFrame
  <1> QED
    BY <1>2, <1>3, <1>4

LEMMA PageVersions ==
  ASSUME TypeOK, VersionsNameValues, NEW t \in Tabs, Flush(t) \/ Leave(t) \/ Rehydrate(t)
  PROVE  VersionsNameValues'
  <1>1. /\ store' = store /\ basis' = basis /\ arriving' = arriving
        /\ \A u \in Tabs : page'[u] = "answered" => page[u] = "answered"
    BY DEF Flush, Leave, Rehydrate, TypeOK
  <1>2. \A f \in flights', k \in Keys : \A b \in Told(f, k) :
           b = None \/ (\E g \in flights : b \in Told(g, k)) \/ Precedes(b, store[k])
    <2>1. CASE Flush(t)
      BY <2>1, NewFlightVersions DEF Flush, TypeOK
    <2>2. CASE Leave(t)
      BY <2>2, FlushNowVersions DEF Leave, TypeOK
    <2>3. CASE Rehydrate(t)
      <3>1. PICK dropped \in SUBSET Keys :
              FlushNow(t, [k \in Keys |-> IF k \in dropped THEN None ELSE sets[t][k]],
                       deletes[t] \ dropped)
        BY <2>3 DEF Rehydrate
      <3>2. [k \in Keys |-> IF k \in dropped THEN None ELSE sets[t][k]] \in Documents
        BY DEF TypeOK, Documents
      <3>3. deletes[t] \ dropped \in SUBSET Keys
        BY DEF TypeOK
      <3> QED
        BY <3>1, <3>2, <3>3, FlushNowVersions
    <2> QED
      BY <2>1, <2>2, <2>3
  <1> QED
    BY <1>1, <1>2, VersionsFrame

\* The server's own writers keep to the trigger.
LEMMA JobVersions ==
  ASSUME TypeOK, VersionsNameValues, NEW j \in Jobs, JobReads(j) \/ JobWrites(j) \/ JobDeletes(j)
  PROVE  VersionsNameValues'
  <1>1. UNCHANGED <<page, basis, arriving, flights>>
    BY DEF JobReads, JobWrites, JobDeletes, tabVars
  <1>2. job[j].value \cup {j} \in Value
    BY DEF TypeOK, Value
  <1>3. ASSUME NEW k \in Keys
        PROVE  store'[k] \in {store[k], Deleted(store[k]), Upsert(store[k], job[j].value \cup {j})}
    <2>1. store \in [Keys -> Row]
      BY DEF TypeOK
    <2>2. CASE JobReads(j)
      BY <2>2 DEF JobReads
    <2>3. CASE JobWrites(j)
      <3>1. store' = [store EXCEPT ![job[j].key] =
                        Upsert(store[job[j].key], job[j].value \cup {j})]
        BY <2>3 DEF JobWrites
      <3> QED
        BY <2>1, <3>1
    <2>4. CASE JobDeletes(j)
      <3>1. store' = [store EXCEPT ![job[j].key] = Deleted(store[job[j].key])]
        BY <2>4 DEF JobDeletes
      <3> QED
        BY <2>1, <3>1
    <2> QED
      BY <2>2, <2>3, <2>4
  <1>4. \A k \in Keys, b \in Row : Precedes(b, store[k]) => Precedes(b, store'[k])
    <2>1. ASSUME NEW k \in Keys, NEW b \in Row, Precedes(b, store[k])
          PROVE  Precedes(b, store'[k])
      <3>1. store[k] \in Row
        BY DEF TypeOK
      <3>2. /\ Precedes(b, Upsert(store[k], job[j].value \cup {j}))
            /\ Precedes(b, Deleted(store[k]))
        BY <1>2, <2>1, <3>1, WritesKeepHistory
      <3> QED
        BY <1>3, <2>1, <3>2
    <2> QED
      BY <2>1
  <1> QED
    BY <1>1, <1>4, VersionsFrame

\* Every action keeps every row a tab was told of a former row of its key.
LEMMA VersionsStep ==
  ASSUME TypeOK, VersionsNameValues, [Next]_vars PROVE VersionsNameValues'
  <1>1. CASE \E t \in Tabs :
               \/ Load(t) \/ ServeGet(t) \/ GetArrives(t) \/ GetFails(t)
               \/ SyncHydrate(t) \/ SyncHydrateFails(t) \/ SyncHydrateGarbled(t)
               \/ Stays(t) \/ RehydrateReads(t) \/ RehydrateGarbled(t) \/ RehydrateFails(t)
    BY <1>1, LoadVersions
  <1>2. CASE \E t \in Tabs : Flush(t) \/ Leave(t) \/ Rehydrate(t)
    BY <1>2, PageVersions
  <1>3. CASE \E f \in flights :
               \/ ServePut(f) \/ Saved(f) \/ OnVersionConflict(f) \/ Fails(f) \/ Rejected(f)
               \/ Vanishes(f) \/ FlushNowReturns(f) \/ FlushNowFails(f)
    BY <1>3, FlightVersions
  <1>4. CASE \E t \in Tabs : Leaves(t)
    BY <1>4, ClosesVersions DEF Leaves
  <1>5. CASE \E f \in flights : AuthFails(f)
    BY <1>5, ClosesVersions DEF AuthFails, TypeOK, Flight
  <1>6. CASE \E j \in Jobs : JobReads(j) \/ JobWrites(j) \/ JobDeletes(j)
    BY <1>6, JobVersions
  <1>7. CASE \/ \E e \in Edits : SetItem(e)
             \/ \E t \in Tabs, k \in Keys : RemoveItem(t, k)
             \/ UNCHANGED vars
    <2>1. UNCHANGED <<store, page, basis, arriving, flights>>
      BY <1>7 DEF SetItem, RemoveItem, vars, tabVars
    <2> QED
      BY <2>1, VersionsFrame
  <1> QED
    BY <1>1, <1>2, <1>3, <1>4, <1>5, <1>6, <1>7 DEF Next

-----------------------------------------------------------------------------
(* Only a tab that was loaded saves. *)

\* Pages that have been loaded, and still are.
Loaded == {"open", "leaving", "rereading"}

\* A request with the tab and contents of another, heard only if that one is.
Like(f, g) ==
  /\ f.tab = g.tab /\ f.sets = g.sets /\ f.expected = g.expected
  /\ f.listening => g.listening

\* No tab forgets a row it has, and pages open, documents queue and requests are
\* sent only over such rows.
LEMMA LoadFrame ==
  ASSUME LoadInv,
         \A t \in Tabs, k \in Keys : basis[t][k] # None => basis'[t][k] # None,
         \A t \in Tabs, k \in Keys :
            page'[t] \in Loaded => page[t] \in Loaded \/ basis'[t][k] # None,
         \A t \in Tabs, k \in Keys : sets'[t][k] # None =>
            sets[t][k] # None \/ page[t] \in Loaded \/ basis'[t][k] # None,
         \A f \in flights' :
            \/ f.tab \in Tabs /\ \E g \in flights : Like(f, g)
            \/ \A k \in Keys : f.sets[k] # None =>
                 f.expected[k] # None /\ basis'[f.tab][k] # None
  PROVE  LoadInv'
  <1>1. ASSUME NEW t \in Tabs, NEW k \in Keys, page'[t] \in Loaded \/ sets'[t][k] # None
        PROVE  basis'[t][k] # None
    BY <1>1 DEF LoadInv, Loaded
  <1>2. ASSUME NEW f \in flights', NEW k \in Keys, f.sets[k] # None
        PROVE  f.expected[k] # None /\ (f.listening => basis'[f.tab][k] # None)
    BY <1>2 DEF LoadInv, SavesFollowALoad, Like
  <1> QED
    BY <1>1, <1>2 DEF LoadInv, SavesFollowALoad, Loaded

LEMMA InitLoad == Init => LoadInv
  BY DEF Init, LoadInv, SavesFollowALoad, Nothing

LEMMA HydrateLoads ==
  ASSUME TypeOK, NEW t \in Tabs, NEW rows \in [Keys -> Row], Hydrate(t, rows)
  PROVE  \A u \in Tabs, k \in Keys :
            IF u = t THEN basis'[u][k] # None ELSE basis'[u][k] = basis[u][k]
  BY NoneAssumption DEF Hydrate, TypeOK

LEMMA NewFlightLoad ==
  ASSUME TypeOK, NEW t \in Tabs, NEW s \in Documents, NEW d \in SUBSET Keys,
         NEW sync \in BOOLEAN, FreeNr(t) # {},
         \A k \in Keys : s[k] # None => basis[t][k] # None
  PROVE  LET f == NewFlight(t, s, d, sync)
         IN  \A k \in Keys : f.sets[k] # None =>
               f.expected[k] # None /\ basis[f.tab][k] # None
  BY NewFlightFields

LEMMA FlushNowLoad ==
  ASSUME TypeOK, LoadInv, NEW t \in Tabs, NEW s \in Documents, NEW d \in SUBSET Keys,
         \A k \in Keys : s[k] # None => basis[t][k] # None,
         FlushNow(t, s, d), basis' = basis,
         \A u \in Tabs : page'[u] \in Loaded => page[u] \in Loaded
  PROVE  LoadInv'
  <1>1. \A f \in flights' : \/ f \in flights
                            \/ FreeNr(t) # {} /\ f = NewFlight(t, s, d, TRUE)
    BY DEF FlushNow
  <1>2. \A f \in flights' :
            \/ f.tab \in Tabs /\ \E g \in flights : Like(f, g)
            \/ \A k \in Keys : f.sets[k] # None =>
                 f.expected[k] # None /\ basis'[f.tab][k] # None
    <2>1. \A f \in flights : f.tab \in Tabs /\ Like(f, f)
      BY DEF TypeOK, Flight, Like
    <2>2. LET f == NewFlight(t, s, d, TRUE)
          IN  FreeNr(t) # {} => \A k \in Keys : f.sets[k] # None =>
                f.expected[k] # None /\ basis[f.tab][k] # None
      BY NewFlightLoad
    <2> QED
      BY <1>1, <2>1, <2>2
  <1>3. \A u \in Tabs, k \in Keys : sets'[u][k] # None => sets[u][k] # None
    BY DEF FlushNow, Drain, TypeOK, Nothing
  <1> QED
    BY <1>2, <1>3, LoadFrame

\* A page that closes takes its rows, its queue and the ear for its requests along.
LEMMA ClosesLoad ==
  ASSUME TypeOK, LoadInv, NEW t \in Tabs, Closes(t)
  PROVE  LoadInv'
  <1>1. ASSUME NEW u \in Tabs, NEW k \in Keys, page'[u] \in Loaded \/ sets'[u][k] # None
        PROVE  basis'[u][k] # None
    BY <1>1 DEF Closes, Drain, Nothing, TypeOK, LoadInv, Loaded
  <1>2. ASSUME NEW f \in flights', NEW k \in Keys, f.sets[k] # None
        PROVE  f.expected[k] # None /\ (f.listening => basis'[f.tab][k] # None)
    <2>1. f \in Abandoned(t)
      BY DEF Closes
    <2>2. \E g \in flights : f.sets = g.sets /\ f.expected = g.expected
      <3>1. flights \subseteq Flight
        BY DEF TypeOK
      <3>2. CASE f \in flights
        BY <3>2
      <3>3. CASE \E g \in flights : f = [g EXCEPT !.listening = FALSE]
        BY <3>1, <3>3, SilencedFields
      <3> QED
        BY <2>1, <3>2, <3>3, AbandonedType
    <2>3. f.listening => f \in flights /\ f.tab # t /\ f.tab \in Tabs
      BY <2>1, AbandonedType DEF Flight
    <2>4. \A u \in Tabs : u # t => basis'[u] = basis[u]
      BY DEF Closes, TypeOK
    <2> QED
      BY <1>2, <2>2, <2>3, <2>4 DEF LoadInv, SavesFollowALoad
  <1> QED
    BY <1>1, <1>2 DEF LoadInv, SavesFollowALoad, Loaded

LEMMA OpeningLoad ==
  ASSUME TypeOK, LoadInv, "garbled" \notin Troubles, NEW t \in Tabs,
         \/ Load(t) \/ ServeGet(t) \/ GetArrives(t) \/ GetFails(t)
         \/ SyncHydrate(t) \/ SyncHydrateFails(t) \/ SyncHydrateGarbled(t)
         \/ Stays(t) \/ RehydrateReads(t) \/ RehydrateGarbled(t) \/ RehydrateFails(t)
  PROVE  LoadInv'
  <1>1. flights' = flights
    BY DEF Load, ServeGet, GetArrives, GetFails, SyncHydrate, SyncHydrateFails,
       SyncHydrateGarbled, Stays, RehydrateReads, RehydrateGarbled, RehydrateFails
  <1>2. \A u \in Tabs, k \in Keys : sets'[u][k] # None => sets[u][k] # None
    BY DEF Load, ServeGet, GetArrives, GetFails, SyncHydrate, SyncHydrateFails,
       SyncHydrateGarbled, Stays, RehydrateReads, RehydrateGarbled, RehydrateFails,
       tabVars, Drain, TypeOK, Nothing
  <1>3. ~SyncHydrateGarbled(t) /\ ~RehydrateGarbled(t)
    BY DEF SyncHydrateGarbled, RehydrateGarbled, Spend
  <1>4. CASE GetArrives(t) \/ SyncHydrate(t) \/ RehydrateReads(t)
    <2>1. PICK rows \in [Keys -> Row] : Hydrate(t, rows)
      BY <1>4 DEF GetArrives, SyncHydrate, RehydrateReads, TypeOK
    <2>2. \A u \in Tabs : page'[u] \in Loaded => u = t \/ page[u] \in Loaded
      BY <1>4 DEF GetArrives, SyncHydrate, RehydrateReads, TypeOK
    <2> QED
      <3>1. \A u \in Tabs, k \in Keys : basis'[u][k] # None \/ (u # t /\ basis'[u][k] = basis[u][k])
        BY <2>1, HydrateLoads
      <3>2. \A u \in Tabs, k \in Keys : basis[u][k] # None => basis'[u][k] # None
        BY <3>1
      <3>3. \A u \in Tabs, k \in Keys :
              page'[u] \in Loaded => page[u] \in Loaded \/ basis'[u][k] # None
        BY <2>2, <3>1
      <3> QED
        BY <1>1, <1>2, <3>2, <3>3, LoadFrame DEF Like, TypeOK, Flight
  <1>5. CASE Load(t) \/ ServeGet(t) \/ GetFails(t) \/ SyncHydrateFails(t)
             \/ Stays(t) \/ RehydrateFails(t)
    <2>1. basis' = basis
      BY <1>5 DEF Load, ServeGet, GetFails, SyncHydrateFails, Stays, RehydrateFails, tabVars
    <2>2. \A u \in Tabs : page'[u] \in Loaded => page[u] \in Loaded
      BY <1>5 DEF Load, ServeGet, GetFails, SyncHydrateFails, Stays, RehydrateFails,
         Rereading, Loaded, TypeOK
    <2> QED
      BY <1>1, <1>2, <2>1, <2>2, LoadFrame DEF Like, TypeOK, Flight
  <1> QED
    BY <1>3, <1>4, <1>5

LEMMA FlightLoad ==
  ASSUME TypeOK, LoadInv, NEW f \in flights,
         \/ ServePut(f) \/ Saved(f) \/ OnVersionConflict(f) \/ Fails(f) \/ Rejected(f)
         \/ Vanishes(f) \/ FlushNowReturns(f) \/ FlushNowFails(f)
  PROVE  LoadInv'
  <1>1. f \in Flight /\ f.tab \in Tabs /\ flights \subseteq Flight /\ page' = page
    BY DEF TypeOK, Flight, ServePut, Saved, OnVersionConflict, Fails, Rejected, Vanishes,
       FlushNowReturns, FlushNowFails
  <1>2. \A g \in flights' : g.tab \in Tabs /\ \E h \in flights : Like(g, h)
    <2>1. \A g \in flights' : \/ g \in flights
                              \/ g = [f EXCEPT !.listening = FALSE]
                              \/ \E nr \in 1 .. MaxFlights : g = Unheard(f, nr)
                              \/ g = Answered(f)
      BY <1>1, LeftOver DEF ServePut
    <2>2. Answered(f).tab = f.tab /\ Like(Answered(f), f)
      BY <1>1, AnsweredFields DEF TypeOK, Like
    <2>3. LET g == [f EXCEPT !.listening = FALSE] IN g.tab = f.tab /\ Like(g, f)
      BY <1>1 DEF Flight, Like
    <2>4. \A nr \in 1 .. MaxFlights : LET g == Unheard(f, nr) IN g.tab = f.tab /\ Like(g, f)
      BY <1>1 DEF Unheard, Flight, Like
    <2>5. \A g \in flights : g.tab \in Tabs /\ Like(g, g)
      BY <1>1 DEF Flight, Like
    <2> QED
      BY <1>1, <2>1, <2>2, <2>3, <2>4, <2>5, Zenon
  <1>3. \A t \in Tabs, k \in Keys : basis[t][k] # None => basis'[t][k] # None
    <2>1. CASE OnVersionConflict(f)
      <3>1. basis \in [Tabs -> Rows] /\ basis[f.tab] \in Rows
        BY <1>1 DEF TypeOK
      <3> QED
        BY <1>1, <2>1, <3>1 DEF OnVersionConflict, Rows
    <2>2. CASE ~OnVersionConflict(f)
      BY <2>2 DEF ServePut, Saved, Fails, Rejected, Vanishes, FlushNowReturns,
         FlushNowFails, tabVars
    <2> QED
      BY <2>1, <2>2
  <1>4. \A t \in Tabs, k \in Keys : sets'[t][k] # None =>
           sets[t][k] # None \/ page[t] \in Loaded \/ basis[t][k] # None
    <2>1. CASE ServePut(f) \/ Saved(f) \/ Rejected(f) \/ Vanishes(f)
      BY <2>1 DEF ServePut, Saved, Rejected, Vanishes, tabVars
    <2>2. CASE OnVersionConflict(f)
      BY <1>1, <2>2 DEF OnVersionConflict, Requeue, TypeOK, Loaded
    <2>3. CASE Fails(f)
      BY <1>1, <2>3 DEF Fails, Requeue, TypeOK, Loaded
    <2>4. CASE FlushNowReturns(f) \/ FlushNowFails(f)
      <3>1. \A k \in Keys : f.sets[k] # None => basis[f.tab][k] # None
        BY <2>4 DEF FlushNowReturns, FlushNowFails, LoadInv
      <3>2. sets' = sets \/ Requeue(f.tab, f.sets, f.deletes)
        BY <2>4 DEF FlushNowReturns, FlushNowFails
      <3> QED
        BY <1>1, <3>1, <3>2 DEF Requeue, TypeOK
    <2> QED
      BY <2>1, <2>2, <2>3, <2>4
  <1> QED
    BY <1>1, <1>2, <1>3, <1>4, LoadFrame

LEMMA PageLoad ==
  ASSUME TypeOK, LoadInv, NEW t \in Tabs, Flush(t) \/ Leave(t) \/ Rehydrate(t)
  PROVE  LoadInv'
  <1>1. basis' = basis /\ \A u \in Tabs : page'[u] \in Loaded => page[u] \in Loaded
    BY DEF Flush, Leave, Rehydrate, TypeOK, Loaded
  <1>2. \A k \in Keys : sets[t][k] # None => basis[t][k] # None
    BY DEF LoadInv
  <1>3. CASE Flush(t)
    <2>1. \A f \in flights' : f \in flights \/ f = NewFlight(t, sets[t], deletes[t], FALSE)
      BY <1>3 DEF Flush
    <2>2. \A f \in flights' :
            \/ f.tab \in Tabs /\ \E g \in flights : Like(f, g)
            \/ \A k \in Keys : f.sets[k] # None =>
                 f.expected[k] # None /\ basis'[f.tab][k] # None
      <3>1. \A f \in flights : f.tab \in Tabs /\ Like(f, f)
        BY DEF TypeOK, Flight, Like
      <3>2. sets[t] \in Documents /\ deletes[t] \in SUBSET Keys /\ FreeNr(t) # {}
        BY <1>3 DEF Flush, TypeOK
      <3>3. LET f == NewFlight(t, sets[t], deletes[t], FALSE)
            IN  \A k \in Keys : f.sets[k] # None =>
                  f.expected[k] # None /\ basis[f.tab][k] # None
        BY <1>2, <3>2, NewFlightLoad
      <3> QED
        BY <1>1, <2>1, <3>1, <3>3
    <2>3. \A u \in Tabs, k \in Keys : sets'[u][k] # None => sets[u][k] # None
      BY <1>3 DEF Flush, Drain, TypeOK, Nothing
    <2> QED
      BY <1>1, <2>2, <2>3, LoadFrame
  <1>4. CASE Leave(t)
    BY <1>1, <1>2, <1>4, FlushNowLoad DEF Leave, TypeOK
  <1>5. CASE Rehydrate(t)
    <2>1. PICK dropped \in SUBSET Keys :
            FlushNow(t, [k \in Keys |-> IF k \in dropped THEN None ELSE sets[t][k]],
                     deletes[t] \ dropped)
      BY <1>5 DEF Rehydrate
    <2>2. [k \in Keys |-> IF k \in dropped THEN None ELSE sets[t][k]] \in Documents
      BY DEF TypeOK, Documents
    <2>3. deletes[t] \ dropped \in SUBSET Keys
      BY DEF TypeOK
    <2> QED
      BY <1>1, <1>2, <2>1, <2>2, <2>3, FlushNowLoad
  <1> QED
    BY <1>3, <1>4, <1>5

LEMMA EditLoad ==
  ASSUME TypeOK, LoadInv,
         \/ \E e \in Edits : SetItem(e)
         \/ \E t \in Tabs, k \in Keys : RemoveItem(t, k)
  PROVE  LoadInv'
  <1>1. PICK t \in Tabs : page[t] = "open" /\ \A u \in Tabs : u # t => sets'[u] = sets[u]
    <2>1. sets \in [Tabs -> Documents]
      BY DEF TypeOK
    <2>2. ASSUME NEW e \in Edits, SetItem(e)
          PROVE  /\ By[e] \in Tabs /\ page[By[e]] = "open"
                 /\ \A u \in Tabs : u # By[e] => sets'[u] = sets[u]
      BY <2>1, <2>2, EditAssumption DEF SetItem
    <2>3. ASSUME NEW t \in Tabs, NEW k \in Keys, RemoveItem(t, k)
          PROVE  page[t] = "open" /\ \A u \in Tabs : u # t => sets'[u] = sets[u]
      BY <2>1, <2>3 DEF RemoveItem
    <2> QED
      BY <2>2, <2>3
  <1>2. UNCHANGED <<page, basis, flights>>
    BY DEF SetItem, RemoveItem
  <1> QED
    BY <1>1, <1>2, LoadFrame DEF Loaded, Like, TypeOK, Flight

\* Where every answered load parses, every action keeps saving to the loaded.
LEMMA LoadStep ==
  ASSUME TypeOK, LoadInv, "garbled" \notin Troubles, [Next]_vars PROVE LoadInv'
  <1>1. CASE \E t \in Tabs :
               \/ Load(t) \/ ServeGet(t) \/ GetArrives(t) \/ GetFails(t)
               \/ SyncHydrate(t) \/ SyncHydrateFails(t) \/ SyncHydrateGarbled(t)
               \/ Stays(t) \/ RehydrateReads(t) \/ RehydrateGarbled(t) \/ RehydrateFails(t)
    BY <1>1, OpeningLoad
  <1>2. CASE \E t \in Tabs : Flush(t) \/ Leave(t) \/ Rehydrate(t)
    BY <1>2, PageLoad
  <1>3. CASE \E f \in flights :
               \/ ServePut(f) \/ Saved(f) \/ OnVersionConflict(f) \/ Fails(f) \/ Rejected(f)
               \/ Vanishes(f) \/ FlushNowReturns(f) \/ FlushNowFails(f)
    BY <1>3, FlightLoad
  <1>4. CASE \E t \in Tabs : Leaves(t)
    BY <1>4, ClosesLoad DEF Leaves
  <1>5. CASE \E f \in flights : AuthFails(f)
    BY <1>5, ClosesLoad DEF AuthFails, TypeOK, Flight
  <1>6. CASE \/ \E e \in Edits : SetItem(e)
             \/ \E t \in Tabs, k \in Keys : RemoveItem(t, k)
    BY <1>6, EditLoad
  <1>7. CASE UNCHANGED vars \/ \E j \in Jobs : JobReads(j) \/ JobWrites(j) \/ JobDeletes(j)
    <2>1. UNCHANGED <<page, basis, sets, flights>>
      BY <1>7 DEF JobReads, JobWrites, JobDeletes, vars, tabVars
    <2> QED
      BY <2>1, LoadFrame DEF Like, TypeOK, Flight
  <1> QED
    BY <1>1, <1>2, <1>3, <1>4, <1>5, <1>6, <1>7 DEF Next

-----------------------------------------------------------------------------
(* No edit is lost on the way. *)

\* Every document is edited once at most, nobody else writes it, and its user
\* neither removes it nor has the page read again.
Undisturbed ==
  /\ \A e, d \in Edits : On[e] = On[d] => e = d
  /\ Jobs = {} /\ "remove" \notin Troubles /\ "rehydrate" \notin Troubles

Stored(e) == e \in store[On[e]].value

\* A document of the key of an edit incorporates it.
Carries(docs) == \A e \in Edits : docs[On[e]] # None => e \in docs[On[e]]

\* What a request was answered to have written is stored.
FlightKeeps(f) ==
  /\ f.deletes = {} /\ Carries(f.sets)
  /\ \A e \in Edits :
       f.sets[On[e]] # None /\ f.step # "sent" /\ (f.step = "ok" \/ f.conflicts[On[e]] = None)
         => Stored(e)

\* An edit is stored, queued by its tab or on its way from there.
Kept(e) ==
  \/ Stored(e) \/ sets[By[e]][On[e]] # None
  \/ \E f \in flights : f.tab = By[e] /\ f.listening /\ f.sets[On[e]] # None

SurvivalInv ==
  /\ \A t \in Tabs : deletes[t] = {} /\ Carries(sets[t]) /\ page[t] \notin Rereading
  /\ \A f \in flights : FlightKeeps(f)
  /\ \A e \in Edits : edits[e] = "owed" => Kept(e)

LEMMA SurvivalMeans ==
  ASSUME SurvivalInv PROVE EditsSurvive
  <1> SUFFICES ASSUME NEW e \in Edits, edits[e] = "owed"
               PROVE  \/ e \in store[On[e]].value
                      \/ sets[By[e]][On[e]] # None /\ e \in sets[By[e]][On[e]]
                      \/ \E f \in FlightsOf(By[e]) :
                           f.listening /\ f.sets[On[e]] # None /\ e \in f.sets[On[e]]
    BY DEF EditsSurvive
  <1>1. By[e] \in Tabs
    BY EditAssumption
  <1>2. Kept(e) /\ Carries(sets[By[e]]) /\ \A f \in flights : Carries(f.sets)
    BY <1>1 DEF SurvivalInv, FlightKeeps
  <1> QED
    BY <1>2 DEF Kept, Carries, Stored, FlightsOf

LEMMA InitSurvival == Init => SurvivalInv
  <1> SUFFICES ASSUME Init PROVE SurvivalInv
    OBVIOUS
  <1>1. \A t \in Tabs : deletes[t] = {} /\ sets[t] = Nothing /\ page[t] = "closed"
    BY DEF Init
  <1>2. Carries(Nothing)
    BY EditAssumption DEF Carries, Nothing
  <1>3. flights = {} /\ \A e \in Edits : edits[e] # "owed"
    BY DEF Init
  <1> QED
    BY <1>1, <1>2, <1>3 DEF SurvivalInv, Rereading

\* A step that stores no less, drops no heard request and no queued document.
LEMMA SurvivalFrame ==
  ASSUME TypeOK, SurvivalInv,
         \A e \in Edits : Stored(e) => Stored(e)',
         \A t \in Tabs : deletes'[t] = {} /\ Carries(sets'[t]) /\ page'[t] \notin Rereading,
         \A f \in flights' : FlightKeeps(f)',
         \A e \in Edits : edits'[e] = "owed" /\ edits[e] = "owed" /\ ~Stored(e) => Kept(e)',
         \A e \in Edits : edits'[e] = "owed" => edits[e] = "owed" \/ Kept(e)'
  PROVE  SurvivalInv'
  <1>1. ASSUME NEW e \in Edits, edits'[e] = "owed" PROVE Kept(e)'
    BY <1>1 DEF Kept
  <1> QED
    BY <1>1 DEF SurvivalInv

\* What a request keeps, it keeps when no less is stored.
LEMMA FlightStillKeeps ==
  ASSUME NEW f \in flights, FlightKeeps(f), \A e \in Edits : Stored(e) => Stored(e)'
  PROVE  FlightKeeps(f)'
  BY DEF FlightKeeps, Carries

LEMMA UpsertValue ==
  ASSUME NEW row \in Row, NEW v \in Value PROVE Upsert(row, v).value = v
  BY DEF Upsert, Row

\* A request without deletes stores what it writes and leaves the rest stored.
LEMMA ServedStores ==
  ASSUME TypeOK, NEW f \in flights, FlightKeeps(f), NEW e \in Edits
  PROVE  /\ Stored(e) => e \in StoreAfter(f)[On[e]].value
         /\ Written(f, On[e]) => e \in StoreAfter(f)[On[e]].value
  <1>1. On[e] \in Keys /\ store[On[e]] \in Row /\ f \in Flight
    BY EditAssumption DEF TypeOK
  <1>2. StoreAfter(f)[On[e]] = AfterSets(f, On[e])
    BY <1>1 DEF StoreAfter, FlightKeeps
  <1>3. CASE Written(f, On[e])
    <2>1. f.sets[On[e]] \in Value /\ e \in f.sets[On[e]]
      BY <1>1, <1>3 DEF Written, FlightKeeps, Carries, Flight, Documents
    <2>2. AfterSets(f, On[e]) = Upsert(store[On[e]], f.sets[On[e]])
      BY <1>3 DEF AfterSets
    <2>3. AfterSets(f, On[e]).value = f.sets[On[e]]
      BY <1>1, <2>1, <2>2, UpsertValue
    <2> QED
      BY <1>2, <2>1, <2>3
  <1>4. CASE ~Written(f, On[e])
    BY <1>2, <1>4 DEF AfterSets, Stored
  <1> QED
    BY <1>3, <1>4

LEMMA ServePutKeeps ==
  ASSUME TypeOK, SurvivalInv, NEW f \in flights, ServePut(f)
  PROVE  SurvivalInv'
  <1>2. FlightKeeps(f) /\ f \in Flight
    BY DEF SurvivalInv, TypeOK
  <1> PICK a \in Flight :
        /\ a = Answered(f) /\ a.deletes = f.deletes /\ a.sets = f.sets /\ a.tab = f.tab
        /\ a.listening = f.listening
        /\ a.step = "ok" => \A k \in Keys : ~Conflicts(f, k)
        /\ \A k \in Keys : a.conflicts[k] = None => ~Conflicts(f, k)
    BY <1>2, AnsweredFields DEF TypeOK
  <1>1. /\ store' = StoreAfter(f) /\ UNCHANGED <<page, sets, deletes, edits>>
        /\ flights' = (flights \ {f}) \cup (IF f.listening THEN {a} ELSE {})
    BY DEF ServePut, tabVars
  <1>3. \A e \in Edits : Stored(e) => Stored(e)'
    BY <1>1, <1>2, ServedStores DEF Stored
  <1>4. FlightKeeps(a)'
    <2>1. ASSUME NEW e \in Edits, f.sets[On[e]] # None, a.step = "ok" \/ a.conflicts[On[e]] = None
          PROVE  Stored(e)'
      <3>1. On[e] \in Keys
        BY EditAssumption
      <3>2. Written(f, On[e])
        BY <2>1, <3>1 DEF Written, Conflicts
      <3> QED
        BY <1>1, <1>2, <3>2, ServedStores DEF Stored
    <2> QED
      BY <1>2, <2>1 DEF FlightKeeps, Carries
  <1>5. ASSUME NEW g \in flights' PROVE FlightKeeps(g)'
    <2>1. CASE g \in flights
      BY <1>3, <2>1, FlightStillKeeps DEF SurvivalInv
    <2>2. CASE g = a
      BY <1>4, <2>2
    <2> QED
      BY <1>1, <2>1, <2>2
  <1>6. ASSUME NEW e \in Edits, edits[e] = "owed", ~Stored(e) PROVE Kept(e)'
    <2>2. CASE sets[By[e]][On[e]] # None
      BY <1>1, <2>2 DEF Kept
    <2>3. CASE \E g \in flights : g.tab = By[e] /\ g.listening /\ g.sets[On[e]] # None
      BY <1>1, <2>3 DEF Kept
    <2> QED
      BY <1>6, <2>2, <2>3 DEF SurvivalInv, Kept
  <1> QED
    BY <1>1, <1>3, <1>5, <1>6, SurvivalFrame DEF SurvivalInv

\* A page that loads, or stays.
LEMMA PageKeeps ==
  ASSUME TypeOK, SurvivalInv, UNCHANGED <<store, sets, deletes, flights, edits>>,
         \A t \in Tabs : page'[t] \notin Rereading
  PROVE  SurvivalInv'
  BY DEF SurvivalInv, FlightKeeps, Carries, Kept, Stored

LEMMA SetItemKeeps ==
  ASSUME TypeOK, Undisturbed, SurvivalInv, NEW e \in Edits, SetItem(e)
  PROVE  SurvivalInv'
  <1> DEFINE t == By[e]
             k == On[e]
             doc == (IF cache[t][k] = None THEN {} ELSE cache[t][k]) \cup {e}
  <1>1. t \in Tabs /\ k \in Keys
    BY EditAssumption
  <1>2. doc \in Value /\ e \in doc /\ doc # None
    <2>1. cache[t] \in Documents
      BY <1>1 DEF TypeOK
    <2>2. cache[t][k] = None \/ cache[t][k] \in Value
      BY <1>1, <2>1 DEF Documents
    <2>3. doc \in Value
      BY <2>2 DEF Value
    <2> QED
      BY <2>3, NoneAssumption
  <1>3. /\ edits' = [edits EXCEPT ![e] = "owed"] /\ sets' = [sets EXCEPT ![t][k] = doc]
        /\ deletes' = [deletes EXCEPT ![t] = @ \ {k}] /\ UNCHANGED <<store, page, flights>>
    BY DEF SetItem
  <1> HIDE DEF doc, t, k
  <1>4. \A u \in Tabs, l \in Keys : sets'[u][l] = IF u = t /\ l = k THEN doc ELSE sets[u][l]
    BY <1>1, <1>3 DEF TypeOK, Documents
  <1>5. ASSUME NEW u \in Tabs PROVE deletes'[u] = {} /\ Carries(sets'[u])
    <2>1. deletes'[u] = {}
      BY <1>3 DEF TypeOK, SurvivalInv
    <2>2. ASSUME NEW d \in Edits, sets'[u][On[d]] # None PROVE d \in sets'[u][On[d]]
      <3>1. On[d] \in Keys
        BY EditAssumption
      <3>2. CASE u = t /\ On[d] = k
        BY <1>2, <1>4, <3>1, <3>2 DEF Undisturbed, k
      <3>3. CASE ~(u = t /\ On[d] = k)
        <4>1. sets'[u][On[d]] = sets[u][On[d]]
          BY <1>4, <3>1, <3>3
        <4> QED
          BY <2>2, <4>1 DEF SurvivalInv, Carries
      <3> QED
        BY <3>2, <3>3
    <2> QED
      BY <2>1, <2>2 DEF Carries
  <1>6. \A d \in Edits : Stored(d)' = Stored(d)
    BY <1>3 DEF Stored
  <1>7. \A f \in flights' : FlightKeeps(f)'
    BY <1>3, <1>6, FlightStillKeeps DEF SurvivalInv
  <1>8. Kept(e)'
    BY <1>1, <1>2, <1>4 DEF Kept, t, k
  <1>9. ASSUME NEW d \in Edits, edits[d] = "owed" PROVE Kept(d)'
    <2>1. By[d] \in Tabs /\ On[d] \in Keys
      BY EditAssumption
    <2>2. Kept(d)
      BY <1>9 DEF SurvivalInv
    <2> QED
      BY <1>2, <1>3, <1>4, <2>1, <2>2 DEF Kept, Stored
  <1>10. \A d \in Edits : d # e => edits'[d] = edits[d]
    BY <1>3 DEF TypeOK
  <1> QED
    BY <1>3, <1>5, <1>6, <1>7, <1>8, <1>9, <1>10, SurvivalFrame DEF SurvivalInv

\* The queue of a tab goes out with a request that is heard.
LEMMA SendingKeeps ==
  ASSUME TypeOK, SurvivalInv, NEW t \in Tabs, NEW n,
         n.tab = t, n.sets = sets[t], n.deletes = deletes[t], n.listening, n.step = "sent",
         UNCHANGED <<store, edits>>, Drain(t), \A u \in Tabs : page'[u] \notin Rereading,
         (sets[t] = Nothing /\ flights' = flights) \/ flights' = flights \cup {n}
  PROVE  SurvivalInv'
  <1>1. sets[t] \in Documents /\ deletes[t] \in SUBSET Keys /\ deletes[t] = {} /\ Carries(sets[t])
    BY DEF TypeOK, SurvivalInv
  <1>2. \A u \in Tabs : deletes'[u] = {} /\ sets'[u] = IF u = t THEN Nothing ELSE sets[u]
    BY DEF Drain, TypeOK, SurvivalInv
  <1>3. Carries(Nothing) /\ \A e \in Edits : Nothing[On[e]] = None
    BY EditAssumption DEF Carries, Nothing
  <1>4. \A e \in Edits : Stored(e) => Stored(e)'
    BY DEF Stored
  <1>5. \A f \in flights : FlightKeeps(f)'
    BY <1>4, FlightStillKeeps DEF SurvivalInv
  <1>6. \A u \in Tabs : Carries(sets'[u])
    BY <1>2, <1>3 DEF SurvivalInv
  <1>7. CASE sets[t] = Nothing /\ flights' = flights
    <2>1. ASSUME NEW e \in Edits, edits[e] = "owed" PROVE Kept(e)'
      <3>1. Kept(e) /\ By[e] \in Tabs
        BY <2>1, EditAssumption DEF SurvivalInv
      <3>2. sets'[By[e]] = sets[By[e]]
        BY <1>2, <1>7, <3>1
      <3> QED
        BY <1>7, <3>1, <3>2 DEF Kept, Stored
    <2> QED
      BY <1>2, <1>4, <1>5, <1>6, <1>7, <2>1, SurvivalFrame
  <1>8. CASE flights' = flights \cup {n}
    <2>3. FlightKeeps(n)'
      BY <1>1 DEF FlightKeeps, Carries
    <2>4. ASSUME NEW e \in Edits, edits[e] = "owed" PROVE Kept(e)'
      <3>1. Kept(e) /\ By[e] \in Tabs
        BY <2>4, EditAssumption DEF SurvivalInv
      <3>2. CASE By[e] = t /\ sets[t][On[e]] # None
        BY <1>8, <3>2 DEF Kept
      <3>3. CASE By[e] = t /\ sets[t][On[e]] = None
        BY <1>8, <3>1, <3>3 DEF Kept, Stored
      <3>4. CASE By[e] # t
        BY <1>2, <1>8, <3>1, <3>4 DEF Kept, Stored
      <3> QED
        BY <3>2, <3>3, <3>4
    <2> QED
      BY <1>2, <1>4, <1>5, <1>6, <1>8, <2>3, <2>4, SurvivalFrame
  <1> QED
    BY <1>7, <1>8

\* A request is forgotten by its page: what it carried is queued again where its
\* answer does not say that it is stored, and owed no more where it was refused.
LEMMA ForgettingKeeps ==
  ASSUME TypeOK, SurvivalInv, NEW f \in flights, UNCHANGED <<store, page>>,
         \A g \in flights' : g \in flights \/
            (g.sets = f.sets /\ g.deletes = {} /\ g.step = "sent" /\ ~g.listening),
         \A g \in flights : g # f => g \in flights',
         \A t \in Tabs : deletes'[t] = {},
         \A t \in Tabs, k \in Keys : sets'[t][k] = sets[t][k]
            \/ (sets[t][k] = None /\ sets'[t][k] = f.sets[k]),
         \A e \in Edits : edits'[e] = "owed" =>
            /\ edits[e] = "owed"
            /\ (f.tab = By[e] /\ f.listening /\ f.sets[On[e]] # None =>
                  Stored(e) \/ sets'[f.tab][On[e]] # None)
  PROVE  SurvivalInv'
  <1>1. \A e \in Edits : (Stored(e) => Stored(e)') /\ By[e] \in Tabs /\ On[e] \in Keys
    BY EditAssumption DEF Stored
  <1>2. FlightKeeps(f)
    BY DEF SurvivalInv
  <1>3. ASSUME NEW t \in Tabs PROVE Carries(sets'[t])
    <2>1. Carries(sets[t])
      BY DEF SurvivalInv
    <2> QED
      BY <1>1, <1>2, <2>1 DEF Carries, FlightKeeps
  <1>4. ASSUME NEW g \in flights' PROVE FlightKeeps(g)'
    <2>1. CASE g \in flights
      BY <1>1, <2>1, FlightStillKeeps DEF SurvivalInv
    <2>2. CASE g.sets = f.sets /\ g.deletes = {} /\ g.step = "sent"
      BY <1>2, <2>2 DEF FlightKeeps, Carries
    <2> QED
      BY <2>1, <2>2
  <1>5. ASSUME NEW e \in Edits, edits'[e] = "owed" PROVE Kept(e)'
    <2>1. Kept(e) /\ edits[e] = "owed"
      BY <1>5 DEF SurvivalInv
    <2>2. CASE Stored(e)
      BY <1>1, <2>2 DEF Kept
    <2>3. CASE sets[By[e]][On[e]] # None
      BY <1>1, <2>3 DEF Kept
    <2>4. CASE \E g \in flights : g.tab = By[e] /\ g.listening /\ g.sets[On[e]] # None
      <3> PICK g \in flights : g.tab = By[e] /\ g.listening /\ g.sets[On[e]] # None
        BY <2>4
      <3>1. CASE g = f
        BY <1>1, <1>5, <3>1 DEF Kept
      <3>2. CASE g # f
        BY <3>2 DEF Kept
      <3> QED
        BY <3>1, <3>2
    <2> QED
      BY <2>1, <2>2, <2>3, <2>4 DEF Kept
  <1> QED
    BY <1>1, <1>3, <1>4, <1>5, SurvivalFrame DEF SurvivalInv

LEMMA QueueKeeps ==
  ASSUME TypeOK, Undisturbed, SurvivalInv, NEW t \in Tabs, Flush(t) \/ Leave(t)
  PROVE  SurvivalInv'
  <1>1. UNCHANGED <<store, edits>> /\ Drain(t) /\ \A u \in Tabs : page'[u] \notin Rereading
    BY DEF Flush, Leave, FlushNow, TypeOK, SurvivalInv, Rereading
  <1>2. sets[t] \in Documents /\ deletes[t] \in SUBSET Keys
    BY DEF TypeOK
  <1>3. CASE Flush(t)
    <2>1. FreeNr(t) # {} /\ flights' = flights \cup {NewFlight(t, sets[t], deletes[t], FALSE)}
      BY <1>3 DEF Flush
    <2> DEFINE n == NewFlight(t, sets[t], deletes[t], FALSE)
    <2>2. n.tab = t /\ n.sets = sets[t] /\ n.deletes = deletes[t] /\ n.listening /\ n.step = "sent"
      BY DEF NewFlight
    <2> HIDE DEF n
    <2>3. flights' = flights \cup {n}
      BY <2>1 DEF n
    <2> QED
      BY <1>1, <2>2, <2>3, SendingKeeps
  <1>4. CASE Leave(t) /\ sets[t] = Nothing /\ deletes[t] = {}
    <2>1. flights' = flights
      BY <1>4 DEF Leave, FlushNow
    <2> DEFINE n == [tab |-> t, sets |-> sets[t], deletes |-> deletes[t], listening |-> TRUE,
                     step |-> "sent"]
    <2>2. n.tab = t /\ n.sets = sets[t] /\ n.deletes = deletes[t] /\ n.listening /\ n.step = "sent"
      OBVIOUS
    <2> HIDE DEF n
    <2> QED
      BY <1>1, <1>4, <2>1, <2>2, SendingKeeps
  <1>5. CASE Leave(t) /\ ~(sets[t] = Nothing /\ deletes[t] = {})
    <2>1. FreeNr(t) # {} /\ flights' = flights \cup {NewFlight(t, sets[t], deletes[t], TRUE)}
      BY <1>5 DEF Leave, FlushNow
    <2> DEFINE n == NewFlight(t, sets[t], deletes[t], TRUE)
    <2>2. n.tab = t /\ n.sets = sets[t] /\ n.deletes = deletes[t] /\ n.listening /\ n.step = "sent"
      BY DEF NewFlight
    <2> HIDE DEF n
    <2>3. flights' = flights \cup {n}
      BY <2>1 DEF n
    <2> QED
      BY <1>1, <2>2, <2>3, SendingKeeps
  <1> QED
    BY <1>3, <1>4, <1>5

\* What requeue leaves in the queues.
LEMMA Requeued ==
  ASSUME TypeOK, SurvivalInv, NEW t \in Tabs, NEW s \in Documents, Requeue(t, s, {})
  PROVE  /\ \A u \in Tabs : deletes'[u] = {}
         /\ \A u \in Tabs, k \in Keys :
              sets'[u][k] = IF u = t /\ sets[t][k] = None THEN s[k] ELSE sets[u][k]
  <1> DEFINE q == [k \in Keys |-> IF sets[t][k] = None THEN s[k] ELSE sets[t][k]]
  <1>1. sets' = [sets EXCEPT ![t] = q] /\ deletes' = [deletes EXCEPT ![t] = @ \cup {}]
    BY DEF Requeue
  <1>2. \A k \in Keys : q[k] = IF sets[t][k] = None THEN s[k] ELSE sets[t][k]
    OBVIOUS
  <1> HIDE DEF q
  <1>3. \A u \in Tabs : sets'[u] = IF u = t THEN q ELSE sets[u]
    BY <1>1 DEF TypeOK
  <1> QED
    BY <1>1, <1>2, <1>3 DEF TypeOK, SurvivalInv

LEMMA AnswerKeeps ==
  ASSUME TypeOK, SurvivalInv, NEW f \in flights,
         \/ Saved(f) \/ OnVersionConflict(f) \/ Fails(f) \/ Rejected(f) \/ Vanishes(f)
         \/ FlushNowReturns(f) \/ FlushNowFails(f)
  PROVE  SurvivalInv'
  <1>1. /\ f \in Flight /\ f.tab \in Tabs /\ f.sets \in Documents /\ f.deletes = {} /\ Carries(f.sets)
        /\ UNCHANGED <<store, page>>
    BY DEF SurvivalInv, FlightKeeps, TypeOK, Flight, Saved, OnVersionConflict, Fails, Rejected,
       Vanishes, FlushNowReturns, FlushNowFails
  <1>2. \A e \in Edits : By[e] \in Tabs /\ On[e] \in Keys
    BY EditAssumption
  <1>3. ASSUME NEW g \in flights'
        PROVE  g \in flights \/ (g.sets = f.sets /\ g.deletes = {} /\ g.step = "sent" /\ ~g.listening)
    <2>1. \/ g \in flights
          \/ f.step = "sent" /\ g = [f EXCEPT !.listening = FALSE]
          \/ \E nr \in 1 .. MaxFlights : g = Unheard(f, nr)
      BY <1>1, LeftOver
    <2>2. LET h == [f EXCEPT !.listening = FALSE]
          IN  h.sets = f.sets /\ h.deletes = f.deletes /\ h.step = f.step /\ ~h.listening
      BY <1>1, SilencedFields
    <2>3. \A nr \in 1 .. MaxFlights :
            LET h == Unheard(f, nr)
            IN  h.sets = f.sets /\ h.deletes = f.deletes /\ h.step = "sent" /\ ~h.listening
      BY <1>1, ForgottenFields
    <2> QED
      BY <1>1, <2>1, <2>2, <2>3
  <1>4. \A g \in flights : g # f => g \in flights'
    BY DEF Saved, OnVersionConflict, Fails, Rejected, Vanishes, FlushNowReturns, FlushNowFails
  <1>5. ASSUME UNCHANGED <<sets, deletes, edits>>,
               \A e \in Edits : f.tab = By[e] /\ f.listening /\ f.sets[On[e]] # None => Stored(e)
        PROVE  SurvivalInv'
    BY <1>1, <1>3, <1>4, <1>5, ForgettingKeeps DEF SurvivalInv
  <1>6. CASE Saved(f)
    <2>1. UNCHANGED <<sets, deletes, edits>> /\ f.step = "ok"
      BY <1>6 DEF Saved, tabVars
    <2> QED
      BY <1>5, <2>1 DEF SurvivalInv, FlightKeeps
  <1>7. CASE Vanishes(f)
    <2>1. UNCHANGED <<sets, deletes, edits>> /\ ~f.listening
      BY <1>7 DEF Vanishes, tabVars
    <2> QED
      BY <1>5, <2>1
  <1>8. CASE Rejected(f)
    <2>1. UNCHANGED <<sets, deletes>>
      BY <1>8 DEF Rejected, tabVars
    <2>2. ASSUME NEW e \in Edits, edits'[e] = "owed"
          PROVE  /\ edits[e] = "owed"
                 /\ f.tab = By[e] /\ f.sets[On[e]] # None => Stored(e)
      <3>1. /\ edits[e] = "owed"
            /\ e \notin {d \in Edits : f.sets[On[d]] # None /\ d \in f.sets[On[d]]} \cap Unstored(f.tab)
        BY <1>8, <2>2 DEF Rejected, Waive
      <3> QED
        BY <1>1, <3>1 DEF Carries, Unstored, Stored
    <2> QED
      BY <1>1, <1>3, <1>4, <2>1, <2>2, ForgettingKeeps DEF SurvivalInv
  <1>9. CASE OnVersionConflict(f)
    <2> DEFINE s == [k \in Keys |-> IF k \in {l \in Keys : f.conflicts[l] # None}
                                    THEN f.sets[k] ELSE None]
    <2>1. edits' = edits /\ f.step = "conflict" /\ Requeue(f.tab, s, {})
      BY <1>9 DEF OnVersionConflict
    <2>2. s \in Documents /\ \A k \in Keys : s[k] = IF f.conflicts[k] # None THEN f.sets[k] ELSE None
      BY <1>1 DEF Documents
    <2> HIDE DEF s
    <2>3. /\ \A u \in Tabs : deletes'[u] = {}
          /\ \A u \in Tabs, k \in Keys :
               sets'[u][k] = IF u = f.tab /\ sets[f.tab][k] = None THEN s[k] ELSE sets[u][k]
      BY <1>1, <2>1, <2>2, Requeued
    <2>4. \A u \in Tabs, k \in Keys : sets'[u][k] = sets[u][k]
             \/ (sets[u][k] = None /\ sets'[u][k] = f.sets[k])
      BY <1>1, <2>2, <2>3
    <2>5. \A e \in Edits : f.sets[On[e]] # None => Stored(e) \/ sets'[f.tab][On[e]] # None
      <3> SUFFICES ASSUME NEW e \in Edits, f.sets[On[e]] # None, ~Stored(e)
                   PROVE  sets'[f.tab][On[e]] # None
        OBVIOUS
      <3>1. f.conflicts[On[e]] # None
        BY <2>1 DEF SurvivalInv, FlightKeeps
      <3> QED
        BY <1>1, <1>2, <2>2, <2>3, <3>1
    <2> QED
      BY <1>1, <1>3, <1>4, <2>1, <2>3, <2>4, <2>5, ForgettingKeeps
  <1>10. ASSUME edits' = edits, Requeue(f.tab, f.sets, f.deletes) PROVE SurvivalInv'
    <2>1. /\ \A u \in Tabs : deletes'[u] = {}
          /\ \A u \in Tabs, k \in Keys :
               sets'[u][k] = IF u = f.tab /\ sets[f.tab][k] = None THEN f.sets[k] ELSE sets[u][k]
      BY <1>1, <1>10, Requeued
    <2>2. \A u \in Tabs, k \in Keys : sets'[u][k] = sets[u][k]
             \/ (sets[u][k] = None /\ sets'[u][k] = f.sets[k])
      BY <1>1, <2>1
    <2>3. \A e \in Edits : f.sets[On[e]] # None => sets'[f.tab][On[e]] # None
      BY <1>1, <1>2, <2>1
    <2> QED
      BY <1>1, <1>3, <1>4, <1>10, <2>1, <2>2, <2>3, ForgettingKeeps
  <1>11. CASE Fails(f) \/ FlushNowFails(f)
    BY <1>10, <1>11 DEF Fails, FlushNowFails
  <1>12. CASE FlushNowReturns(f)
    <2>1. CASE f.step = "ok"
      <3>1. UNCHANGED <<sets, deletes, edits>>
        BY <1>12, <2>1 DEF FlushNowReturns
      <3> QED
        BY <1>5, <2>1, <3>1 DEF SurvivalInv, FlightKeeps
    <2>2. CASE f.step # "ok"
      BY <1>10, <1>12, <2>2 DEF FlushNowReturns
    <2> QED
      BY <2>1, <2>2
  <1> QED
    BY <1>6, <1>7, <1>8, <1>9, <1>11, <1>12

\* The edits of a page that closes are stored, or it is owed no more.
LEMMA ClosesKeeps ==
  ASSUME TypeOK, SurvivalInv, NEW t \in Tabs, Closes(t)
  PROVE  SurvivalInv'
  <1>1. /\ store' = store /\ flights' = Abandoned(t) /\ Waive(Unstored(t))
        /\ page' = [page EXCEPT ![t] = "closed"]
    BY DEF Closes
  <1>2. \A u \in Tabs : deletes'[u] = {} /\ sets'[u] = IF u = t THEN Nothing ELSE sets[u]
    BY DEF Closes, Drain, TypeOK, SurvivalInv
  <1>3. Carries(Nothing)
    BY EditAssumption DEF Carries, Nothing
  <1>4. \A e \in Edits : Stored(e) => Stored(e)'
    BY <1>1 DEF Stored
  <1>5. ASSUME NEW u \in Tabs PROVE Carries(sets'[u]) /\ page'[u] \notin Rereading
    BY <1>1, <1>2, <1>3 DEF SurvivalInv, TypeOK, Rereading
  <1>6. ASSUME NEW f \in flights' PROVE FlightKeeps(f)'
    <2>1. CASE f \in flights
      BY <1>4, <2>1, FlightStillKeeps DEF SurvivalInv
    <2>2. ASSUME NEW g \in flights, f = [g EXCEPT !.listening = FALSE] PROVE FlightKeeps(f)'
      <3>1. g \in Flight /\ FlightKeeps(g)
        BY DEF TypeOK, SurvivalInv
      <3>2. f.sets = g.sets /\ f.deletes = g.deletes /\ f.step = g.step /\ f.conflicts = g.conflicts
        BY <2>2, <3>1, SilencedFields
      <3> QED
        BY <1>4, <3>1, <3>2 DEF FlightKeeps, Carries
    <2> QED
      BY <1>1, <2>1, <2>2, AbandonedType
  <1>7. ASSUME NEW e \in Edits, edits'[e] = "owed" PROVE Kept(e)' /\ edits[e] = "owed"
    <2>1. edits[e] = "owed" /\ e \notin Unstored(t)
      BY <1>1, <1>7 DEF Waive
    <2>2. Kept(e) /\ By[e] \in Tabs
      BY <2>1, EditAssumption DEF SurvivalInv
    <2>3. CASE Stored(e)
      BY <1>4, <2>1, <2>3 DEF Kept
    <2>4. CASE By[e] # t /\ sets[By[e]][On[e]] # None
      BY <1>2, <2>1, <2>2, <2>4 DEF Kept
    <2>5. ASSUME By[e] # t, NEW g \in flights, g.tab = By[e], g.listening, g.sets[On[e]] # None
          PROVE  Kept(e)'
      <3>1. g \in Abandoned(t)
        BY <2>5 DEF Abandoned
      <3> QED
        BY <1>1, <2>5, <3>1 DEF Kept
    <2> QED
      BY <2>1, <2>2, <2>3, <2>4, <2>5 DEF Kept, Unstored, Stored
  <1> QED
    BY <1>2, <1>4, <1>5, <1>6, <1>7, SurvivalFrame

LEMMA SurvivalStep ==
  ASSUME TypeOK, Undisturbed, SurvivalInv, [Next]_vars PROVE SurvivalInv'
  <1>1. ASSUME NEW t \in Tabs,
               \/ Load(t) \/ ServeGet(t) \/ GetArrives(t) \/ GetFails(t) \/ SyncHydrate(t)
               \/ SyncHydrateFails(t) \/ SyncHydrateGarbled(t) \/ Stays(t)
        PROVE  SurvivalInv'
    <2>1. UNCHANGED <<store, sets, deletes, flights, edits>>
      BY <1>1 DEF Load, ServeGet, GetArrives, GetFails, SyncHydrate, SyncHydrateFails,
         SyncHydrateGarbled, Stays, tabVars
    <2>2. \A u \in Tabs : page'[u] \notin Rereading
      BY <1>1 DEF Load, ServeGet, GetArrives, GetFails, SyncHydrate, SyncHydrateFails,
         SyncHydrateGarbled, Stays, TypeOK, SurvivalInv, Rereading
    <2> QED
      BY <2>1, <2>2, PageKeeps
  <1>2. ASSUME NEW t \in Tabs,
               Rehydrate(t) \/ RehydrateReads(t) \/ RehydrateGarbled(t) \/ RehydrateFails(t)
        PROVE  FALSE
    BY <1>2 DEF Rehydrate, RehydrateReads, RehydrateGarbled, RehydrateFails, Spend, Undisturbed,
       SurvivalInv
  <1>3. ASSUME NEW t \in Tabs, NEW k \in Keys, RemoveItem(t, k) PROVE FALSE
    BY <1>3 DEF RemoveItem, Spend, Undisturbed
  <1>4. ASSUME NEW j \in Jobs PROVE FALSE
    BY DEF Undisturbed
  <1>5. ASSUME NEW e \in Edits, SetItem(e) PROVE SurvivalInv'
    BY <1>5, SetItemKeeps
  <1>6. ASSUME NEW t \in Tabs, Flush(t) \/ Leave(t) PROVE SurvivalInv'
    BY <1>6, QueueKeeps
  <1>7. ASSUME NEW t \in Tabs, Leaves(t) PROVE SurvivalInv'
    BY <1>7, ClosesKeeps DEF Leaves
  <1>8. ASSUME NEW f \in flights, AuthFails(f) PROVE SurvivalInv'
    BY <1>8, ClosesKeeps DEF AuthFails, TypeOK, Flight
  <1>9. ASSUME NEW f \in flights, ServePut(f) PROVE SurvivalInv'
    BY <1>9, ServePutKeeps
  <1>10. ASSUME NEW f \in flights,
                \/ Saved(f) \/ OnVersionConflict(f) \/ Fails(f) \/ Rejected(f) \/ Vanishes(f)
                \/ FlushNowReturns(f) \/ FlushNowFails(f)
         PROVE  SurvivalInv'
    BY <1>10, AnswerKeeps
  <1>11. CASE UNCHANGED vars
    <2>1. UNCHANGED <<store, sets, deletes, flights, edits, page>>
      BY <1>11 DEF vars, tabVars
    <2> QED
      BY <2>1, PageKeeps DEF SurvivalInv
  <1> QED
    BY <1>1, <1>2, <1>3, <1>4, <1>5, <1>6, <1>7, <1>8, <1>9, <1>10, <1>11 DEF Next

-----------------------------------------------------------------------------
(* The theorems. *)

\* The state keeps its shape: whatever handlers, unloads and answers do, the
\* store holds rows and the tabs documents, versions and requests of theirs.
THEOREM WorkspaceTypeCorrect == Spec => []TypeOK
  <1>1. Init => TypeOK
    BY InitType
  <1>2. TypeOK /\ [Next]_vars => TypeOK'
    BY TypeStep
  <1> QED
    BY <1>1, <1>2, PTL DEF Spec

\* Whoever rewrites a row, every row a tab was told of is the stored one or one
\* its key has left for good (module_state_bump_version, migration 022).
THEOREM VersionsStandForValues == Spec => []VersionsNameValues
  <1>1. Init => TypeOK /\ VersionsNameValues
    BY InitType, InitVersions
  <1>2. TypeOK /\ VersionsNameValues /\ [Next]_vars => (TypeOK /\ VersionsNameValues)'
    BY TypeStep, VersionsStep
  <1> QED
    BY <1>1, <1>2, PTL DEF Spec

\* A conditional save the server accepts replaces exactly the row its tab had
\* read, unless the key was created again since.
THEOREM AcceptedSavesReplaceTheirRow == Spec => []SavesReplaceWhatWasRead
  <1>1. TypeOK /\ VersionsNameValues => SavesReplaceWhatWasRead
    <2> SUFFICES ASSUME TypeOK, VersionsNameValues, NEW f \in flights, NEW k \in Keys,
                        store[k].version > 0, f.expected[k] # None, Written(f, k)
                 PROVE  f.expected[k].life < store[k].life \/ f.expected[k] = store[k]
      BY DEF SavesReplaceWhatWasRead
    <2>1. f.expected[k] \in Row /\ store[k] \in Row
      BY DEF TypeOK, Flight, Rows
    <2>2. f.expected[k].version = 0 \/ f.expected[k].version = store[k].version
      BY <2>1 DEF Written, Accepts, Unconditional, Row
    <2>3. Precedes(f.expected[k], store[k])
      BY DEF VersionsNameValues, WasRow
    <2> QED
      BY <2>1, <2>2, <2>3 DEF Precedes, Row
  <1> QED
    BY <1>1, WorkspaceTypeCorrect, VersionsStandForValues, PTL

\* If every load answered 200 can be parsed, only a tab that was told the firm's
\* state saves: each key it sends rests on a row it read (hydrateSyncFallback).
THEOREM OnlyLoadedTabsSave ==
  ASSUME "garbled" \notin Troubles PROVE Spec => []LoadInv
  <1>1. Init => TypeOK /\ LoadInv
    BY InitType, InitLoad
  <1>2. TypeOK /\ LoadInv /\ [Next]_vars => (TypeOK /\ LoadInv)'
    BY TypeStep, LoadStep
  <1> QED
    BY <1>1, <1>2, PTL DEF Spec


\* Where every document is edited once at most, nobody else writes it, and its user
\* neither removes it nor has the page read again, no edit is lost: through lost
\* requests and answers, refusals, conflicts and pages left and come back to,
\* it stays stored, on its way or queued until its user is told or gone.
THEOREM EditsAreNotLost ==
  ASSUME Undisturbed, "garbled" \notin Troubles PROVE Spec => []NoEditLost
  <1>1. Init => TypeOK /\ LoadInv /\ SurvivalInv
    BY InitType, InitLoad, InitSurvival
  <1>2. TypeOK /\ LoadInv /\ SurvivalInv /\ [Next]_vars => (TypeOK /\ LoadInv /\ SurvivalInv)'
    BY TypeStep, LoadStep, SurvivalStep
  <1>3. LoadInv /\ SurvivalInv => NoEditLost
    BY SurvivalMeans DEF NoEditLost
  <1> QED
    BY <1>1, <1>2, <1>3, PTL DEF Spec

(* ------------------------------------------------------------------------ *)
(* The rounds of one engagement, which are one record of that store.        *)

LEMMA DivBounds ==
  ASSUME NEW x \in Int, NEW y \in Nat \ {0}
  PROVE  /\ x \div y \in Int
         /\ y * (x \div y) <= x
         /\ x < y * (x \div y) + y
OBVIOUS

LEMMA RoundedLow ==
  ASSUME NEW a \in Int, NEW b \in Nat \ {0}, NEW lo \in Int, lo * b <= a
  PROVE  Rounded(a, b) \in Int /\ lo <= Rounded(a, b)
<1> DEFINE q == Rounded(a, b)
<1>1. q \in Int /\ 2 * a + b < (2 * b) * q + 2 * b
  <2>1. 2 * a + b \in Int /\ 2 * b \in Nat \ {0}
    OBVIOUS
  <2>. QED
    BY <2>1, DivBounds DEF Rounded
<1>2. ASSUME q < lo PROVE FALSE
  <2>1. q + 1 <= lo
    BY <1>1, <1>2
  <2>2. (q + 1) * b <= lo * b
    BY <1>1, <2>1
  <2>. QED
    BY <1>1, <2>2
<1>. QED
  BY <1>1, <1>2

LEMMA RoundedHigh ==
  ASSUME NEW a \in Int, NEW b \in Nat \ {0}, NEW hi \in Int, a <= hi * b
  PROVE  Rounded(a, b) \in Int /\ Rounded(a, b) <= hi
<1> DEFINE q == Rounded(a, b)
<1>1. q \in Int /\ (2 * b) * q <= 2 * a + b
  <2>1. 2 * a + b \in Int /\ 2 * b \in Nat \ {0}
    OBVIOUS
  <2>. QED
    BY <2>1, DivBounds DEF Rounded
<1>2. ASSUME hi < q PROVE FALSE
  <2>1. hi + 1 <= q
    BY <1>1, <1>2
  <2>2. (hi + 1) * b <= q * b
    BY <1>1, <2>1
  <2>. QED
    BY <1>1, <2>2
<1>. QED
  BY <1>1, <1>2

\* prior * (den - num) * rden + rnum * num lies where both are.
LEMMA BlendedLow ==
  ASSUME NEW p \in Int, NEW raw, raw.num \in Int, raw.den \in Nat \ {0},
         NEW w, w.num \in Nat, w.den \in Nat \ {0}, w.num <= w.den,
         NEW lo \in Int, lo <= p, lo * raw.den <= raw.num
  PROVE  Blended(p, raw, w) \in Int /\ lo <= Blended(p, raw, w)
<1> DEFINE n == raw.num
           r == raw.den
           u == w.num
           v == w.den
<1>1. /\ n \in Int /\ r \in Nat \ {0} /\ u \in Nat /\ v \in Nat \ {0} /\ v - u \in Nat
      /\ lo * r <= n
  OBVIOUS
<1> HIDE DEF n, r, u, v
<1>2. lo * (v - u) <= p * (v - u)
  BY <1>1
<1>3. lo * (v - u) * r <= p * (v - u) * r
  BY <1>1, <1>2
<1>4. lo * r * u <= n * u
  BY <1>1
<1>5. lo * (v * r) = lo * (v - u) * r + lo * r * u
  BY <1>1
<1>6. v * r \in Nat \ {0}
  BY <1>1
<1>7. p * (v - u) * r \in Int /\ n * u \in Int /\ lo * (v - u) * r \in Int /\ lo * r * u \in Int
  BY <1>1
<1>8. lo * (v * r) <= p * (v - u) * r + n * u
  BY <1>3, <1>4, <1>5, <1>7
<1>9. Rounded(p * (v - u) * r + n * u, v * r) \in Int /\ lo <= Rounded(p * (v - u) * r + n * u, v * r)
  BY <1>6, <1>7, <1>8, RoundedLow
<1>. QED
  BY <1>9 DEF Blended, n, r, u, v
LEMMA BlendedHigh ==
  ASSUME NEW p \in Int, NEW raw, raw.num \in Int, raw.den \in Nat \ {0},
         NEW w, w.num \in Nat, w.den \in Nat \ {0}, w.num <= w.den,
         NEW hi \in Int, p <= hi, raw.num <= hi * raw.den
  PROVE  Blended(p, raw, w) \in Int /\ Blended(p, raw, w) <= hi
<1> DEFINE n == raw.num
           r == raw.den
           u == w.num
           v == w.den
<1>1. /\ n \in Int /\ r \in Nat \ {0} /\ u \in Nat /\ v \in Nat \ {0} /\ v - u \in Nat
      /\ n <= hi * r
  OBVIOUS
<1> HIDE DEF n, r, u, v
<1>2. p * (v - u) <= hi * (v - u)
  BY <1>1
<1>3. p * (v - u) * r <= hi * (v - u) * r
  BY <1>1, <1>2
<1>4. n * u <= hi * r * u
  BY <1>1
<1>5. hi * (v * r) = hi * (v - u) * r + hi * r * u
  BY <1>1
<1>6. v * r \in Nat \ {0}
  BY <1>1
<1>7. p * (v - u) * r \in Int /\ n * u \in Int /\ hi * (v - u) * r \in Int /\ hi * r * u \in Int
  BY <1>1
<1>8. p * (v - u) * r + n * u <= hi * (v * r)
  BY <1>3, <1>4, <1>5, <1>7
<1>9. Rounded(p * (v - u) * r + n * u, v * r) \in Int /\ Rounded(p * (v - u) * r + n * u, v * r) <= hi
  BY <1>6, <1>7, <1>8, RoundedHigh
<1>. QED
  BY <1>9 DEF Blended, n, r, u, v

-----------------------------------------------------------------------------
(* Folds.  Those of the module are sums of a function over a set, the       *)
(* scoring of rounds R in an order o, and the clustering of findings F.     *)

SumOf(f) == [sum |-> TRUE, f |-> f]
ScoringOf(R, o) == [sum |-> FALSE, place |-> FALSE, R |-> R, o |-> o]
Placing(F, listed) == [sum |-> FALSE, place |-> TRUE, F |-> F, listed |-> listed]

FoldBase(t) ==
  IF t.sum THEN 0 ELSE IF t.place THEN <<>> ELSE [rounds |-> t.R, running |-> <<>>]

FoldStep(t, x, acc) ==
  IF t.sum THEN t.f[x] + acc
  ELSE IF t.place THEN Place(t.F, acc, t.F[x])
  ELSE ScoreStep(t.R, acc, t.o[x])

\* The member a fold takes next: any, or the last in its order.
One(s) == CHOOSE x \in s : TRUE

Final(listed, s) == IF listed THEN LastListed(s) ELSE FirstListed(s)

FoldPick(t, s) == IF t.sum THEN One(s) ELSE IF t.place THEN Final(t.listed, s) ELSE Max(s)

Fold(t, S) ==
  MapThenFoldSet(LAMBDA x, acc : FoldStep(t, x, acc), FoldBase(t), LAMBDA x : x,
                 LAMBDA s : FoldPick(t, s), S)

\* g is the fold over the subsets of S.
Folds(t, S, g) ==
  g = [s \in SUBSET S |->
         IF s = {} THEN FoldBase(t) ELSE FoldStep(t, FoldPick(t, s), g[s \ {FoldPick(t, s)}])]

\* The folds over S pick members.
Picks(t, S) == \A s \in SUBSET S : s # {} => FoldPick(t, s) \in s

LEMMA FoldIsChosen ==
  ASSUME NEW t, NEW S
  PROVE  Fold(t, S) = (CHOOSE g : Folds(t, S, g))[S]
BY Zenon DEF Fold, MapThenFoldSet, Folds

\* Among sets of subsets of a finite set one has no member strictly inside it.
LEMMA Least ==
  ASSUME NEW S, IsFiniteSet(S), NEW Bad \in SUBSET SUBSET S, Bad # {}
  PROVE  \E T \in Bad : \A U \in Bad : U \subseteq T => U = T
<1>1. /\ IsWellFoundedOn(StrictSubsetOrdering(S), FiniteSubsetsOf(S))
      /\ FiniteSubsetsOf(S) = SUBSET S
  BY FS_StrictSubsetOrderingWellFounded, FS_FiniteSubsetsOfFinite
<1>2. PICK T \in Bad : \A U \in Bad : ~(<<U, T>> \in StrictSubsetOrdering(S))
  BY <1>1, WFMin
<1>. QED
  BY <1>2 DEF StrictSubsetOrdering

\* A fold over T exists, and any of them gives each part of T its fold.
FoldsWell(t, T) ==
  /\ \E g : Folds(t, T, g)
  /\ \A g : Folds(t, T, g) => \A V \in SUBSET T : g[V] = Fold(t, V)

LEMMA FoldsWellStep ==
  ASSUME NEW t, NEW T, Picks(t, T), \A U \in SUBSET T : U # T => FoldsWell(t, U)
  PROVE  FoldsWell(t, T)
<1> DEFINE p(s) == FoldPick(t, s)
           h == [s \in SUBSET T |->
                   IF s = {} THEN FoldBase(t) ELSE FoldStep(t, p(s), Fold(t, s \ {p(s)}))]
<1>1. \A V \in SUBSET T : V # {} => V \ {p(V)} \in SUBSET T /\ V \ {p(V)} # T
  BY DEF Picks
<1>2. ASSUME NEW U \in SUBSET T, U # T
      PROVE  Fold(t, U) = IF U = {} THEN FoldBase(t) ELSE FoldStep(t, p(U), Fold(t, U \ {p(U)}))
  <2>1. PICK g : Folds(t, U, g)
    BY <1>2 DEF FoldsWell
  <2>2. \A V \in SUBSET U : g[V] = Fold(t, V)
    BY <1>2, <2>1 DEF FoldsWell
  <2>3. g[U] = IF U = {} THEN FoldBase(t) ELSE FoldStep(t, p(U), g[U \ {p(U)}])
    BY <2>1 DEF Folds
  <2>4. U \ {p(U)} \in SUBSET U /\ U \in SUBSET U
    OBVIOUS
  <2>. QED
    BY <2>2, <2>3, <2>4
<1>3. \A U \in SUBSET T : U # T => h[U] = Fold(t, U)
  BY <1>2
<1>4. Folds(t, T, h)
  <2>1. \A V \in SUBSET T : V # {} => h[V \ {p(V)}] = Fold(t, V \ {p(V)})
    BY <1>1, <1>3
  <2>2. h = [s \in SUBSET T |-> IF s = {} THEN FoldBase(t) ELSE FoldStep(t, p(s), h[s \ {p(s)}])]
    BY <2>1
  <2>. QED
    BY <2>2 DEF Folds
<1>5. ASSUME NEW g, Folds(t, T, g), NEW V \in SUBSET T, V # T
      PROVE  g[V] = Fold(t, V)
  <2> DEFINE k == [s \in SUBSET V |-> g[s]]
  <2>1. ASSUME NEW s \in SUBSET V
        PROVE  g[s] = IF s = {} THEN FoldBase(t) ELSE FoldStep(t, p(s), k[s \ {p(s)}])
    <3>1. s \in SUBSET T /\ s \ {p(s)} \in SUBSET V
      OBVIOUS
    <3>2. g[s] = IF s = {} THEN FoldBase(t) ELSE FoldStep(t, p(s), g[s \ {p(s)}])
      BY <1>5, <3>1 DEF Folds
    <3>. QED
      BY <3>1, <3>2
  <2>2. k = [s \in SUBSET V |-> IF s = {} THEN FoldBase(t) ELSE FoldStep(t, p(s), k[s \ {p(s)}])]
    BY <2>1
  <2>3. Folds(t, V, k)
    BY <2>2 DEF Folds
  <2>4. k[V] = Fold(t, V)
    <3> HIDE DEF k
    <3>. QED
      BY <1>5, <2>3 DEF FoldsWell
  <2>. QED
    BY <2>4
<1>6. ASSUME NEW g, Folds(t, T, g)
      PROVE  g[T] = IF T = {} THEN FoldBase(t) ELSE FoldStep(t, p(T), Fold(t, T \ {p(T)}))
  <2>1. g[T] = IF T = {} THEN FoldBase(t) ELSE FoldStep(t, p(T), g[T \ {p(T)}])
    BY <1>6 DEF Folds
  <2>. QED
    BY <1>1, <1>5, <1>6, <2>1
<1>7. Fold(t, T) = IF T = {} THEN FoldBase(t) ELSE FoldStep(t, p(T), Fold(t, T \ {p(T)}))
  <2>1. Folds(t, T, CHOOSE g : Folds(t, T, g))
    <3> HIDE DEF h
    <3>. QED BY <1>4
  <2>. QED
    BY <1>6, <2>1, FoldIsChosen
<1>8. \A g : Folds(t, T, g) => \A V \in SUBSET T : g[V] = Fold(t, V)
  BY <1>5, <1>6, <1>7
<1> HIDE DEF h
<1>. QED
  BY <1>4, <1>8 DEF FoldsWell

LEMMA AllFoldWell ==
  ASSUME NEW t, NEW S, IsFiniteSet(S), Picks(t, S)
  PROVE  FoldsWell(t, S)
<1> DEFINE Bad == {T \in SUBSET S : ~FoldsWell(t, T)}
<1>1. CASE Bad # {}
  <2>1. Bad \in SUBSET SUBSET S
    OBVIOUS
  <2>2. PICK T \in Bad : \A U \in Bad : U \subseteq T => U = T
    <3> HIDE DEF Bad
    <3>. QED
      BY <1>1, <2>1, Least
  <2>3. \A U \in SUBSET T : U # T => FoldsWell(t, U)
    BY <2>2
  <2>4. Picks(t, T)
    BY <2>2 DEF Picks
  <2>. QED
    BY <2>2, <2>3, <2>4, FoldsWellStep
<1>. QED
  BY <1>1

\* A fold takes its next member and folds the rest.
LEMMA FoldUnfolds ==
  ASSUME NEW t, NEW S, IsFiniteSet(S), Picks(t, S)
  PROVE  Fold(t, S) =
           IF S = {} THEN FoldBase(t) ELSE FoldStep(t, FoldPick(t, S), Fold(t, S \ {FoldPick(t, S)}))
<1>1. FoldsWell(t, S)
  BY AllFoldWell
<1>2. PICK g : Folds(t, S, g)
  BY <1>1 DEF FoldsWell
<1>3. \A V \in SUBSET S : g[V] = Fold(t, V)
  BY <1>1, <1>2 DEF FoldsWell
<1>4. g[S] = IF S = {} THEN FoldBase(t) ELSE FoldStep(t, FoldPick(t, S), g[S \ {FoldPick(t, S)}])
  BY <1>2 DEF Folds
<1>5. S \ {FoldPick(t, S)} \in SUBSET S /\ S \in SUBSET S
  OBVIOUS
<1>. QED
  BY <1>3, <1>4, <1>5

\* Whatever satisfies the fold's equation gives the fold.
LEMMA FoldIs ==
  ASSUME NEW t, NEW S, IsFiniteSet(S), Picks(t, S), NEW g, Folds(t, S, g)
  PROVE  g[S] = Fold(t, S)
BY AllFoldWell DEF FoldsWell

LEMMA FoldExists ==
  ASSUME NEW t, NEW S, IsFiniteSet(S), Picks(t, S)
  PROVE  \E g : Folds(t, S, g)
BY AllFoldWell DEF FoldsWell

-----------------------------------------------------------------------------
(* Sums.                                                                    *)

Total(f, S) == Fold(SumOf(f), S)

LEMMA SumFold ==
  ASSUME NEW f, NEW S, NEW t, t = SumOf(f)
  PROVE  /\ Picks(t, S) /\ FoldBase(t) = 0
         /\ \A s : FoldPick(t, s) = One(s)
         /\ \A x, acc : FoldStep(t, x, acc) = f[x] + acc
<1>1. t.sum = TRUE /\ t.f = f
  BY DEF SumOf
<1>2. \A s : s # {} => One(s) \in s
  BY DEF One
<1>. QED
  BY <1>1, <1>2 DEF Picks, FoldPick, FoldBase, FoldStep

LEMMA TotalOfNone ==
  ASSUME NEW f PROVE Total(f, {}) = 0
<1>1. PICK t : t = SumOf(f)
  OBVIOUS
<1>2. Picks(t, {}) /\ FoldBase(t) = 0 /\ IsFiniteSet({})
  BY <1>1, SumFold, FS_EmptySet
<1>3. Fold(t, {}) = FoldBase(t)
  BY <1>2, FoldUnfolds
<1>. QED
  BY <1>1, <1>2, <1>3 DEF Total

LEMMA TotalTakes ==
  ASSUME NEW f, NEW S, IsFiniteSet(S), S # {}, NEW x, x = One(S)
  PROVE  /\ x \in S /\ IsFiniteSet(S \ {x})
         /\ Total(f, S) = f[x] + Total(f, S \ {x})
<1>1. PICK t : t = SumOf(f)
  OBVIOUS
<1>2. /\ Picks(t, S) /\ FoldPick(t, S) = x
      /\ \A acc : FoldStep(t, x, acc) = f[x] + acc
  BY <1>1, SumFold
<1>3. Fold(t, S) = FoldStep(t, x, Fold(t, S \ {x}))
  BY <1>2, FoldUnfolds
<1>4. x \in S /\ IsFiniteSet(S \ {x})
  BY <1>2, FS_Subset DEF Picks
<1>. QED
  BY <1>1, <1>2, <1>3, <1>4 DEF Total

\* A sum of products is at least, or at most, the sum of the weights times
\* what every value is at least, or at most.
Weighs(v, w, f, S) ==
  /\ IsFiniteSet(S)
  /\ \A i \in S : v[i] \in Int /\ w[i] \in Nat /\ f[i] = v[i] * w[i]

Weighed(w, f, S, lo, hi) ==
  /\ Total(w, S) \in Nat /\ Total(f, S) \in Int
  /\ lo * Total(w, S) <= Total(f, S) /\ Total(f, S) <= hi * Total(w, S)

LEMMA WeighedStep ==
  ASSUME NEW v, NEW w, NEW f, NEW T, Weighs(v, w, f, T), NEW lo \in Int, NEW hi \in Int,
         \A i \in T : lo <= v[i] /\ v[i] <= hi,
         \A U \in SUBSET T : U # T => Weighed(w, f, U, lo, hi)
  PROVE  Weighed(w, f, T, lo, hi)
<1>1. CASE T = {}
  <2>1. Total(w, T) = 0 /\ Total(f, T) = 0
    BY <1>1, TotalOfNone
  <2>. QED
    BY <2>1 DEF Weighed
<1>2. CASE T # {}
  <2>1. PICK x : x = One(T)
    OBVIOUS
  <2>2. /\ x \in T
        /\ Total(w, T) = w[x] + Total(w, T \ {x})
        /\ Total(f, T) = f[x] + Total(f, T \ {x})
    BY <1>2, <2>1, TotalTakes DEF Weighs
  <2>3. PICK W, F : W = Total(w, T \ {x}) /\ F = Total(f, T \ {x})
    OBVIOUS
  <2>4. W \in Nat /\ F \in Int /\ lo * W <= F /\ F <= hi * W
    <3>1. T \ {x} \in SUBSET T /\ T \ {x} # T
      BY <2>2
    <3>. QED
      BY <3>1, <2>3 DEF Weighed
  <2>5. PICK a, b : a = v[x] /\ b = w[x]
    OBVIOUS
  <2>6. a \in Int /\ b \in Nat /\ lo <= a /\ a <= hi /\ f[x] = a * b
    BY <2>2, <2>5 DEF Weighs
  <2>7. lo * b <= a * b /\ a * b <= hi * b
    BY <2>6
  <2>8. /\ b + W \in Nat /\ a * b + F \in Int
        /\ lo * (b + W) <= a * b + F /\ a * b + F <= hi * (b + W)
    BY <2>4, <2>6, <2>7
  <2>. QED
    BY <2>2, <2>3, <2>5, <2>6, <2>8 DEF Weighed
<1>. QED
  BY <1>1, <1>2

LEMMA WeighedSum ==
  ASSUME NEW v, NEW w, NEW f, NEW S, Weighs(v, w, f, S), NEW lo \in Int, NEW hi \in Int,
         \A i \in S : lo <= v[i] /\ v[i] <= hi
  PROVE  Weighed(w, f, S, lo, hi)
<1> DEFINE Bad == {T \in SUBSET S : ~Weighed(w, f, T, lo, hi)}
<1>1. CASE Bad # {}
  <2>1. Bad \in SUBSET SUBSET S /\ IsFiniteSet(S)
    BY DEF Weighs
  <2>2. PICK T \in Bad : \A U \in Bad : U \subseteq T => U = T
    <3> HIDE DEF Bad
    <3>. QED
      BY <1>1, <2>1, Least
  <2>3. \A U \in SUBSET T : U # T => Weighed(w, f, U, lo, hi)
    BY <2>2
  <2>4. Weighs(v, w, f, T) /\ \A i \in T : lo <= v[i] /\ v[i] <= hi
    BY <2>2, FS_Subset DEF Weighs
  <2>. QED
    BY <2>2, <2>3, <2>4, WeighedStep
<1>. QED
  BY <1>1

\* Ones sum up to the number of members.
LEMMA TotalOfOnes ==
  ASSUME NEW w, NEW S, IsFiniteSet(S), \A i \in S : w[i] = 1
  PROVE  Total(w, S) = Cardinality(S)
<1> DEFINE Bad == {T \in SUBSET S : Total(w, T) # Cardinality(T)}
<1>1. CASE Bad # {}
  <2>1. Bad \in SUBSET SUBSET S
    OBVIOUS
  <2>2. PICK T \in Bad : \A U \in Bad : U \subseteq T => U = T
    <3> HIDE DEF Bad
    <3>. QED
      BY <1>1, <2>1, Least
  <2>3. T # {}
    BY <2>2, TotalOfNone, FS_EmptySet
  <2>4. PICK x : x = One(T)
    OBVIOUS
  <2>5. IsFiniteSet(T)
    BY <2>2, FS_Subset
  <2>6. x \in T /\ Total(w, T) = w[x] + Total(w, T \ {x}) /\ IsFiniteSet(T \ {x})
    BY <2>3, <2>4, <2>5, TotalTakes
  <2>7. Total(w, T \ {x}) = Cardinality(T \ {x})
    BY <2>2, <2>6
  <2>8. Cardinality(T \ {x}) = Cardinality(T) - 1 /\ Cardinality(T) \in Nat
    BY <2>5, <2>6, FS_RemoveElement, FS_CardinalityType
  <2>9. w[x] = 1
    BY <2>2, <2>6
  <2>. QED
    BY <2>2, <2>6, <2>7, <2>8, <2>9
<1>. QED
  BY <1>1

-----------------------------------------------------------------------------
(* The sums of the module.                                                  *)

LEMMA WeightTotal ==
  ASSUME NEW ivs, NEW d, NEW S, IsFiniteSet(S)
  PROVE  MapThenSumSet(LAMBDA i : RoleWeightOf(ivs, d, i), S)
           = Total([i \in S |-> RoleWeightOf(ivs, d, i)], S)
<1> DEFINE f == [i \in S |-> RoleWeightOf(ivs, d, i)]
           Q(g) == g = [s \in SUBSET S |->
                          IF s = {} THEN 0 ELSE RoleWeightOf(ivs, d, One(s)) + g[s \ {One(s)}]]
<1>1. MapThenSumSet(LAMBDA i : RoleWeightOf(ivs, d, i), S) = (CHOOSE g : Q(g))[S]
  BY Zenon DEF MapThenSumSet, MapThenFoldSet, One
<1>2. PICK t : t = SumOf(f)
  OBVIOUS
<1>3. /\ Picks(t, S) /\ FoldBase(t) = 0 /\ \A s : FoldPick(t, s) = One(s)
      /\ \A x, acc : FoldStep(t, x, acc) = f[x] + acc
  BY <1>2, SumFold
<1>4. \A s \in SUBSET S : s # {} => f[One(s)] = RoleWeightOf(ivs, d, One(s))
  BY <1>3 DEF Picks
<1> HIDE DEF f
<1>5. ASSUME NEW g PROVE Q(g) <=> Folds(t, S, g)
  BY <1>3, <1>4 DEF Folds
<1>6. \E g : Q(g)
  BY <1>3, <1>5, FoldExists
<1>7. Q(CHOOSE g : Q(g))
  <2> HIDE DEF Q
  <2>. QED
    BY <1>6
<1> HIDE DEF Q
<1>8. PICK h : h = CHOOSE g : Q(g)
  OBVIOUS
<1>9. h[S] = Fold(t, S)
  BY <1>3, <1>5, <1>7, <1>8, FoldIs
<1>. QED
  BY <1>1, <1>2, <1>8, <1>9 DEF f, Total

LEMMA ScoreTotal ==
  ASSUME NEW ivs, NEW d, NEW S, IsFiniteSet(S)
  PROVE  MapThenSumSet(LAMBDA i : AnswerOf(ivs, d, i), S)
           = Total([i \in S |-> AnswerOf(ivs, d, i)], S)
<1> DEFINE f == [i \in S |-> AnswerOf(ivs, d, i)]
           Q(g) == g = [s \in SUBSET S |->
                          IF s = {} THEN 0 ELSE AnswerOf(ivs, d, One(s)) + g[s \ {One(s)}]]
<1>1. MapThenSumSet(LAMBDA i : AnswerOf(ivs, d, i), S) = (CHOOSE g : Q(g))[S]
  BY Zenon DEF MapThenSumSet, MapThenFoldSet, One
<1>2. PICK t : t = SumOf(f)
  OBVIOUS
<1>3. /\ Picks(t, S) /\ FoldBase(t) = 0 /\ \A s : FoldPick(t, s) = One(s)
      /\ \A x, acc : FoldStep(t, x, acc) = f[x] + acc
  BY <1>2, SumFold
<1>4. \A s \in SUBSET S : s # {} => f[One(s)] = AnswerOf(ivs, d, One(s))
  BY <1>3 DEF Picks
<1> HIDE DEF f
<1>5. ASSUME NEW g PROVE Q(g) <=> Folds(t, S, g)
  BY <1>3, <1>4 DEF Folds
<1>6. \E g : Q(g)
  BY <1>3, <1>5, FoldExists
<1>7. Q(CHOOSE g : Q(g))
  <2> HIDE DEF Q
  <2>. QED
    BY <1>6
<1> HIDE DEF Q
<1>8. PICK h : h = CHOOSE g : Q(g)
  OBVIOUS
<1>9. h[S] = Fold(t, S)
  BY <1>3, <1>5, <1>7, <1>8, FoldIs
<1>. QED
  BY <1>1, <1>2, <1>8, <1>9 DEF f, Total

LEMMA ScoreWeightTotal ==
  ASSUME NEW ivs, NEW d, NEW S, IsFiniteSet(S)
  PROVE  MapThenSumSet(LAMBDA i : AnswerOf(ivs, d, i) * RoleWeightOf(ivs, d, i), S)
           = Total([i \in S |-> AnswerOf(ivs, d, i) * RoleWeightOf(ivs, d, i)], S)
<1> DEFINE f == [i \in S |-> AnswerOf(ivs, d, i) * RoleWeightOf(ivs, d, i)]
           Q(g) == g = [s \in SUBSET S |->
                          IF s = {} THEN 0 ELSE (AnswerOf(ivs, d, One(s)) * RoleWeightOf(ivs, d, One(s))) + g[s \ {One(s)}]]
<1>1. MapThenSumSet(LAMBDA i : AnswerOf(ivs, d, i) * RoleWeightOf(ivs, d, i), S) = (CHOOSE g : Q(g))[S]
  BY Zenon DEF MapThenSumSet, MapThenFoldSet, One
<1>2. PICK t : t = SumOf(f)
  OBVIOUS
<1>3. /\ Picks(t, S) /\ FoldBase(t) = 0 /\ \A s : FoldPick(t, s) = One(s)
      /\ \A x, acc : FoldStep(t, x, acc) = f[x] + acc
  BY <1>2, SumFold
<1>4. \A s \in SUBSET S : s # {} => f[One(s)] = (AnswerOf(ivs, d, One(s)) * RoleWeightOf(ivs, d, One(s)))
  BY <1>3 DEF Picks
<1> HIDE DEF f
<1>5. ASSUME NEW g PROVE Q(g) <=> Folds(t, S, g)
  BY <1>3, <1>4 DEF Folds
<1>6. \E g : Q(g)
  BY <1>3, <1>5, FoldExists
<1>7. Q(CHOOSE g : Q(g))
  <2> HIDE DEF Q
  <2>. QED
    BY <1>6
<1> HIDE DEF Q
<1>8. PICK h : h = CHOOSE g : Q(g)
  OBVIOUS
<1>9. h[S] = Fold(t, S)
  BY <1>3, <1>5, <1>7, <1>8, FoldIs
<1>. QED
  BY <1>1, <1>2, <1>8, <1>9 DEF f, Total

LEMMA CoverageTotal ==
  ASSUME NEW ivs, NEW d, NEW S, IsFiniteSet(S)
  PROVE  MapThenSumSet(LAMBDA i : CoverageOf(ivs, d, i) * RoleWeightOf(ivs, d, i), S)
           = Total([i \in S |-> CoverageOf(ivs, d, i) * RoleWeightOf(ivs, d, i)], S)
<1> DEFINE f == [i \in S |-> CoverageOf(ivs, d, i) * RoleWeightOf(ivs, d, i)]
           Q(g) == g = [s \in SUBSET S |->
                          IF s = {} THEN 0 ELSE (CoverageOf(ivs, d, One(s)) * RoleWeightOf(ivs, d, One(s))) + g[s \ {One(s)}]]
<1>1. MapThenSumSet(LAMBDA i : CoverageOf(ivs, d, i) * RoleWeightOf(ivs, d, i), S) = (CHOOSE g : Q(g))[S]
  BY Zenon DEF MapThenSumSet, MapThenFoldSet, One
<1>2. PICK t : t = SumOf(f)
  OBVIOUS
<1>3. /\ Picks(t, S) /\ FoldBase(t) = 0 /\ \A s : FoldPick(t, s) = One(s)
      /\ \A x, acc : FoldStep(t, x, acc) = f[x] + acc
  BY <1>2, SumFold
<1>4. \A s \in SUBSET S : s # {} => f[One(s)] = (CoverageOf(ivs, d, One(s)) * RoleWeightOf(ivs, d, One(s)))
  BY <1>3 DEF Picks
<1> HIDE DEF f
<1>5. ASSUME NEW g PROVE Q(g) <=> Folds(t, S, g)
  BY <1>3, <1>4 DEF Folds
<1>6. \E g : Q(g)
  BY <1>3, <1>5, FoldExists
<1>7. Q(CHOOSE g : Q(g))
  <2> HIDE DEF Q
  <2>. QED
    BY <1>6
<1> HIDE DEF Q
<1>8. PICK h : h = CHOOSE g : Q(g)
  OBVIOUS
<1>9. h[S] = Fold(t, S)
  BY <1>3, <1>5, <1>7, <1>8, FoldIs
<1>. QED
  BY <1>1, <1>2, <1>8, <1>9 DEF f, Total

-----------------------------------------------------------------------------
(* Interviews and scores.                                                   *)

\* What has a value for some dimensions.
Partial(T) == UNION {[D -> T] : D \in SUBSET Dims}

InterviewType ==
  [source : Sittings \cup {Absent}, person : People, name : Names \cup {Unnamed}, role : Roles,
   followUp : BOOLEAN, refresh : BOOLEAN, scores : [Dims -> {0} \cup Scores],
   tiers : {Absent} \cup Partial(DOMAIN TierWeight), says : Partial(Claims),
   coverage : {Absent} \cup Partial(0 .. 10)]

\* An interview somebody who was to be interviewed gave.
Theirs(iv, s) == iv.person = Plan[s].person /\ PersonKey(iv) = PersonKey(Plan[s])

Interview == {iv \in InterviewType : \E s \in Sittings : Theirs(iv, s)}

LEMMA PartialIs ==
  ASSUME NEW T, NEW f
  PROVE  f \in Partial(T) <=> /\ DOMAIN f \subseteq Dims
                              /\ f = [d \in DOMAIN f |-> f[d]]
                              /\ \A d \in DOMAIN f : f[d] \in T
<1>1. ASSUME f \in Partial(T)
      PROVE  /\ DOMAIN f \subseteq Dims /\ f = [d \in DOMAIN f |-> f[d]]
             /\ \A d \in DOMAIN f : f[d] \in T
  <2>1. PICK D \in SUBSET Dims : f \in [D -> T]
    BY <1>1 DEF Partial
  <2>. QED
    BY <2>1
<1>2. ASSUME /\ DOMAIN f \subseteq Dims /\ f = [d \in DOMAIN f |-> f[d]]
             /\ \A d \in DOMAIN f : f[d] \in T
      PROVE  f \in Partial(T)
  <2>1. f \in [DOMAIN f -> T]
    BY <1>2
  <2>. QED
    BY <1>2, <2>1 DEF Partial
<1>. QED
  BY <1>1, <1>2

\* The answers to one dimension.
LEMMA EntriesType ==
  ASSUME NEW ivs \in Seq(Interview), NEW d \in Dims
  PROVE  /\ Entries(ivs, d) \subseteq DOMAIN ivs /\ IsFiniteSet(Entries(ivs, d))
         /\ \A i \in Entries(ivs, d) :
              ivs[i] \in Interview /\ AnswerOf(ivs, d, i) \in Nat /\ RoleWeightOf(ivs, d, i) \in Nat
<1>1. IsFiniteSet(DOMAIN ivs)
  <2>1. DOMAIN ivs = 1 .. Len(ivs) /\ Len(ivs) \in Nat
    OBVIOUS
  <2>. QED
    BY <2>1, FS_Interval
<1>2. \A i \in DOMAIN ivs : ivs[i] \in Interview
  OBVIOUS
<1>3. ASSUME NEW iv \in Interview PROVE iv.scores[d] \in Nat /\ iv.role \in Roles
  <2>1. iv.scores \in [Dims -> {0} \cup Scores] /\ iv.role \in Roles
    BY DEF Interview, InterviewType
  <2>2. iv.scores[d] \in {0} \cup Scores
    BY <2>1
  <2>3. \A x \in {0} \cup Scores : x \in Nat
    BY ScoreAssumption
  <2>. QED
    BY <2>1, <2>2, <2>3
<1>4. \A r \in Roles : Weight[d][r] \in Nat
  BY WeightAssumption
<1>. QED
  BY <1>1, <1>2, <1>3, <1>4, FS_Subset DEF Entries, AnswerOf, RoleWeightOf

\* A mean lies where everything it is the mean of does.
Mean(q, lo, hi) ==
  /\ q.num \in Int /\ q.den \in Nat \ {0}
  /\ lo * q.den <= q.num /\ q.num <= hi * q.den

LEMMA RawIsMean ==
  ASSUME NEW ivs \in Seq(Interview), NEW d \in Dims, Entries(ivs, d) # {},
         NEW lo \in Int, NEW hi \in Int,
         \A i \in Entries(ivs, d) : lo <= AnswerOf(ivs, d, i) /\ AnswerOf(ivs, d, i) <= hi
  PROVE  Mean(Raw(ivs, d), lo, hi)
<1>1. PICK S : S = Entries(ivs, d)
  OBVIOUS
<1> DEFINE v == [i \in S |-> AnswerOf(ivs, d, i)]
           w == [i \in S |-> RoleWeightOf(ivs, d, i)]
           f == [i \in S |-> AnswerOf(ivs, d, i) * RoleWeightOf(ivs, d, i)]
           one == [i \in S |-> 1]
<1>2. IsFiniteSet(S) /\ S # {}
  BY <1>1, EntriesType
<1>3. Weighs(v, w, f, S) /\ Weighs(v, one, v, S) /\ \A i \in S : lo <= v[i] /\ v[i] <= hi
  BY <1>1, <1>2, EntriesType DEF Weighs
<1>4. \A i \in S : one[i] = 1
  OBVIOUS
<1>5. /\ Raw(ivs, d) = IF Total(w, S) > 0 THEN [num |-> Total(f, S), den |-> Total(w, S)]
                       ELSE [num |-> Total(v, S), den |-> Cardinality(S)]
  <2>1. MapThenSumSet(LAMBDA i : RoleWeightOf(ivs, d, i), S) = Total(w, S)
    BY <1>2, WeightTotal, Zenon
  <2>2. MapThenSumSet(LAMBDA i : AnswerOf(ivs, d, i), S) = Total(v, S)
    BY <1>2, ScoreTotal, Zenon
  <2>3. MapThenSumSet(LAMBDA i : AnswerOf(ivs, d, i) * RoleWeightOf(ivs, d, i), S) = Total(f, S)
    BY <1>2, ScoreWeightTotal, Zenon
  <2> HIDE DEF v, w, f
  <2>. QED
    BY <1>1, <2>1, <2>2, <2>3, Zenon DEF Raw
<1> HIDE DEF v, w, f, one
<1>6. Weighed(w, f, S, lo, hi) /\ Weighed(one, v, S, lo, hi)
  BY <1>3, WeighedSum
<1>7. Total(one, S) = Cardinality(S) /\ Cardinality(S) \in Nat /\ Cardinality(S) # 0
  BY <1>2, <1>4, TotalOfOnes, FS_CardinalityType, FS_EmptySet
<1>. QED
  BY <1>5, <1>6, <1>7 DEF Weighed, Mean

LEMMA CoverageIsShare ==
  ASSUME NEW ivs \in Seq(Interview), NEW d \in Dims, NEW w, w = CoverageWeight(ivs, d)
  PROVE  w.num \in Nat /\ w.den \in Nat \ {0} /\ w.num <= w.den
<1>1. PICK S : S = {i \in Entries(ivs, d) : ivs[i].coverage # Absent /\ d \in DOMAIN ivs[i].coverage}
  OBVIOUS
<1> DEFINE c == [i \in S |-> CoverageOf(ivs, d, i)]
           u == [i \in S |-> RoleWeightOf(ivs, d, i)]
           f == [i \in S |-> CoverageOf(ivs, d, i) * RoleWeightOf(ivs, d, i)]
<1>2. IsFiniteSet(S)
  BY <1>1, EntriesType, FS_Subset
<1>3. ASSUME NEW i \in S PROVE c[i] \in 0 .. 10 /\ u[i] \in Nat
  <2>1. ivs[i] \in Interview /\ RoleWeightOf(ivs, d, i) \in Nat
    BY <1>1, EntriesType
  <2>2. ivs[i].coverage \in {Absent} \cup Partial(0 .. 10)
    BY <2>1 DEF Interview, InterviewType
  <2>3. ivs[i].coverage \in Partial(0 .. 10) /\ d \in DOMAIN ivs[i].coverage
    BY <1>1, <2>2
  <2>4. CoverageOf(ivs, d, i) \in 0 .. 10
    BY <2>3, PartialIs DEF CoverageOf
  <2>. QED
    BY <2>1, <2>4
<1>4. Weighs(c, u, f, S) /\ \A i \in S : 0 <= c[i] /\ c[i] <= 10
  BY <1>2, <1>3 DEF Weighs
<1>5. CoverageWeight(ivs, d) = IF Total(u, S) > 0 THEN [num |-> Total(f, S), den |-> 10 * Total(u, S)]
                               ELSE [num |-> DefaultCoverage, den |-> 10]
  <2>1. MapThenSumSet(LAMBDA i : RoleWeightOf(ivs, d, i), S) = Total(u, S)
    BY <1>2, WeightTotal, Zenon
  <2>2. MapThenSumSet(LAMBDA i : CoverageOf(ivs, d, i) * RoleWeightOf(ivs, d, i), S) = Total(f, S)
    BY <1>2, CoverageTotal, Zenon
  <2> HIDE DEF u, f
  <2>. QED
    BY <1>1, <2>1, <2>2, Zenon DEF CoverageWeight
<1> HIDE DEF c, u, f
<1>6. Weighed(u, f, S, 0, 10)
  BY <1>4, WeighedSum
<1>. QED
  BY <1>5, <1>6 DEF Weighed, DefaultCoverage

-----------------------------------------------------------------------------
(* The scores of one round.                                                 *)

\* An answer to d in some interview.
HasAnswer(ivs, d) == Entries(ivs, d) # {}

\* Every answer to d lies between lo and hi.
Within(ivs, d, lo, hi) ==
  \A i \in Entries(ivs, d) : lo <= AnswerOf(ivs, d, i) /\ AnswerOf(ivs, d, i) <= hi

\* What there is of the answers' bounds without knowing them.
LEMMA SomeBounds ==
  ASSUME NEW ivs \in Seq(Interview), NEW d \in Dims
  PROVE  \E lo, hi \in Int : Within(ivs, d, lo, hi)
<1> DEFINE S == Entries(ivs, d)
           Bound(T) == \E lo, hi \in Int : \A i \in T : lo <= AnswerOf(ivs, d, i) /\ AnswerOf(ivs, d, i) <= hi
           Bad == {T \in SUBSET S : ~Bound(T)}
<1>1. IsFiniteSet(S) /\ \A i \in S : AnswerOf(ivs, d, i) \in Nat
  BY EntriesType
<1>2. SUFFICES Bad = {}
  BY DEF Within
<1>3. SUFFICES ASSUME Bad # {} PROVE FALSE
  OBVIOUS
<1>4. PICK T \in Bad : \A U \in Bad : U \subseteq T => U = T
  <2> HIDE DEF S
  <2>1. Bad \in SUBSET SUBSET S
    OBVIOUS
  <2> HIDE DEF Bad
  <2>. QED
    BY <1>1, <1>3, <2>1, Least
<1>5. CASE T = {}
  <2>1. Bound({})
    BY 0 \in Int
  <2>. QED
    BY <1>4, <1>5, <2>1
<1>6. CASE T # {}
  <2>1. PICK x : x \in T
    BY <1>6
  <2>2. Bound(T \ {x})
    <3>1. T \ {x} \subseteq T /\ T \ {x} # T /\ T \ {x} \in SUBSET S
      BY <1>4, <2>1
    <3> HIDE DEF Bound
    <3>. QED
      BY <1>4, <3>1
  <2>3. PICK lo \in Int, hi \in Int : \A i \in T \ {x} : lo <= AnswerOf(ivs, d, i) /\ AnswerOf(ivs, d, i) <= hi
    BY <2>2
  <2>4. PICK a : a = AnswerOf(ivs, d, x) /\ a \in Int
    BY <1>1, <1>4, <2>1
  <2>5. PICK l \in Int : l <= lo /\ l <= a
    BY <2>4
  <2>6. PICK h \in Int : hi <= h /\ a <= h
    BY <2>4
  <2>7. ASSUME NEW i \in T PROVE l <= AnswerOf(ivs, d, i) /\ AnswerOf(ivs, d, i) <= h
    <3>1. AnswerOf(ivs, d, i) \in Int
      BY <1>1, <1>4
    <3>. QED
      BY <2>3, <2>4, <2>5, <2>6, <3>1
  <2>8. Bound(T)
    BY <2>7
  <2>. QED
    BY <1>4, <2>8
<1>. QED
  BY <1>5, <1>6

\* Scores s lie between whatever bounds the answers and the prior value respect.
Bounded(ivs, prior, s) ==
  \A d \in DOMAIN s, lo \in Int, hi \in Int :
    /\ Within(ivs, d, lo, hi)
    /\ d \in DOMAIN prior => lo <= prior[d] /\ prior[d] <= hi
    => lo <= s[d] /\ s[d] <= hi

\* Scoring a round gives a number to every dimension with an answer or a prior
\* value.
LEMMA ComputeIs ==
  ASSUME NEW ivs \in Seq(Interview), NEW prior \in Partial(Int), NEW refresh \in BOOLEAN,
         NEW s, s = ComputeRoundScores(ivs, prior, refresh)
  PROVE  /\ s \in Partial(Int)
         /\ DOMAIN s = {d \in Dims : HasAnswer(ivs, d)} \cup DOMAIN prior
         /\ Bounded(ivs, prior, s)
<1> DEFINE M == {d \in Dims : HasAnswer(ivs, d)}
           S(d) == IF d \notin M THEN prior[d]
                   ELSE IF refresh /\ d \in DOMAIN prior
                          THEN Blended(prior[d], Raw(ivs, d), CoverageWeight(ivs, d))
                   ELSE Rounded(Raw(ivs, d).num, Raw(ivs, d).den)
<1>1. s = [d \in M \cup DOMAIN prior |-> S(d)]
  BY DEF ComputeRoundScores, HasAnswer
<1>2. DOMAIN prior \subseteq Dims /\ \A d \in DOMAIN prior : prior[d] \in Int
  BY PartialIs
<1>3. ASSUME NEW d \in M \cup DOMAIN prior, NEW lo \in Int, NEW hi \in Int,
             Within(ivs, d, lo, hi), d \in DOMAIN prior => lo <= prior[d] /\ prior[d] <= hi
      PROVE  S(d) \in Int /\ lo <= S(d) /\ S(d) <= hi
  <2>1. CASE d \notin M
    BY <1>2, <1>3, <2>1
  <2>2. CASE d \in M
    <3>1. PICK raw : raw = Raw(ivs, d)
      OBVIOUS
    <3>2. d \in Dims /\ Mean(raw, lo, hi)
      BY <1>3, <2>2, <3>1, RawIsMean DEF HasAnswer, Within
    <3>3. Rounded(raw.num, raw.den) \in Int /\ lo <= Rounded(raw.num, raw.den) /\ Rounded(raw.num, raw.den) <= hi
      BY <3>2, RoundedLow, RoundedHigh DEF Mean
    <3>4. CASE refresh /\ d \in DOMAIN prior
      <4>1. PICK w : w = CoverageWeight(ivs, d)
        OBVIOUS
      <4>2. w.num \in Nat /\ w.den \in Nat \ {0} /\ w.num <= w.den
        BY <3>2, <4>1, CoverageIsShare
      <4>3. PICK p : p = prior[d] /\ p \in Int /\ lo <= p /\ p <= hi
        BY <1>2, <1>3, <3>4
      <4>4. Blended(p, raw, w) \in Int /\ lo <= Blended(p, raw, w)
        BY <3>2, <4>2, <4>3, BlendedLow DEF Mean
      <4>5. Blended(p, raw, w) <= hi
        BY <3>2, <4>2, <4>3, BlendedHigh DEF Mean
      <4>6. S(d) = Blended(p, raw, w)
        BY <2>2, <3>1, <3>4, <4>1, <4>3
      <4>. QED
        BY <4>4, <4>5, <4>6
    <3>5. CASE ~(refresh /\ d \in DOMAIN prior)
      <4>1. S(d) = Rounded(raw.num, raw.den)
        BY <2>2, <3>1, <3>5
      <4>. QED
        BY <3>3, <4>1
    <3>. QED
      BY <3>4, <3>5
  <2>. QED
    BY <2>1, <2>2
<1>4. ASSUME NEW d \in M \cup DOMAIN prior PROVE S(d) \in Int
  <2>1. d \in Dims
    BY <1>2
  <2>2. PICK l \in Int, h \in Int : Within(ivs, d, l, h)
    BY <2>1, SomeBounds
  <2>3. PICK p \in Int : d \in DOMAIN prior => p = prior[d]
    BY <1>2, 0 \in Int
  <2>4. PICK lo \in Int : lo <= l /\ lo <= p
    BY <2>2, <2>3
  <2>5. PICK hi \in Int : h <= hi /\ p <= hi
    BY <2>2, <2>3
  <2>6. Within(ivs, d, lo, hi)
    <3>1. \A i \in Entries(ivs, d) : AnswerOf(ivs, d, i) \in Int
      BY <2>1, EntriesType
    <3>. QED
      BY <2>2, <2>4, <2>5, <3>1 DEF Within
  <2>7. d \in DOMAIN prior => lo <= prior[d] /\ prior[d] <= hi
    BY <2>3, <2>4, <2>5
  <2> HIDE DEF S, M
  <2>. QED
    BY <2>6, <2>7, <1>3
<1> HIDE DEF S
<1>5. DOMAIN s = M \cup DOMAIN prior /\ \A d \in DOMAIN s : s[d] = S(d)
  BY <1>1
<1>6. s \in Partial(Int)
  <2>1. s = [d \in DOMAIN s |-> s[d]] /\ DOMAIN s \subseteq Dims /\ \A d \in DOMAIN s : s[d] \in Int
    BY <1>1, <1>2, <1>4, <1>5
  <2>. QED
    BY <2>1, PartialIs
<1>. QED
  BY <1>3, <1>5, <1>6 DEF Bounded

-----------------------------------------------------------------------------
(* The rounds in order.                                                     *)

Round == [number : Nat \ {0}, ivs : Seq(Interview), scores : Partial(Int)]

\* Every number names one round.
Distinct(R) == \A i, j \in DOMAIN R : R[i].number = R[j].number => i = j

\* A function into a set of its own size that tells its arguments apart hits
\* every value.
LEMMA HitsAll ==
  ASSUME NEW n \in Nat, NEW r \in [1 .. n -> 1 .. n],
         \A i, j \in 1 .. n : r[i] = r[j] => i = j, NEW k \in 1 .. n
  PROVE  \E i \in 1 .. n : r[i] = k
<1>1. SUFFICES ASSUME \A i \in 1 .. n : r[i] # k PROVE FALSE
  OBVIOUS
<1> DEFINE T == (1 .. n) \ {k}
<1>2. IsFiniteSet(1 .. n) /\ Cardinality(1 .. n) = n
  BY FS_Interval
<1>3. IsFiniteSet(T) /\ Cardinality(T) = n - 1
  BY <1>2, FS_RemoveElement
<1>4. r \in [1 .. n -> T]
  BY <1>1
<1> HIDE DEF T
<1>5. PICK i, j \in 1 .. n : i # j /\ r[i] = r[j]
  <2>1. Cardinality(T) < Cardinality(1 .. n)
    BY <1>2, <1>3
  <2>. QED
    BY <1>2, <1>3, <1>4, <2>1, FS_PigeonHole
<1>. QED
  BY <1>5

\* o lists the positions by ascending number.
Lists(R, o, n) ==
  /\ n \in Nat /\ DOMAIN R = 1 .. n
  /\ o \in [1 .. n -> 1 .. n]
  /\ \A i \in 1 .. n : \E k \in 1 .. n : o[k] = i
  /\ \A k, l \in 1 .. n : k < l => R[o[k]].number < R[o[l]].number

\* Ordered lists the positions, each once, by ascending number.
LEMMA OrderedIs ==
  ASSUME NEW R \in Seq(Round), Distinct(R), NEW n, n = Len(R), NEW o, o = Ordered(R)
  PROVE  n \in Nat /\ DOMAIN o = 1 .. n /\ Lists(R, o, n)
<1> DEFINE B(i) == {j \in 1 .. n : Before(R, j, i)}
           r == [i \in 1 .. n |-> Cardinality(B(i)) + 1]
<1>1. n \in Nat /\ DOMAIN R = 1 .. n /\ \A i \in 1 .. n : R[i] \in Round /\ R[i].number \in Nat
  <2>1. \A x \in Round : x.number \in Nat
    BY DEF Round
  <2>2. n \in Nat /\ DOMAIN R = 1 .. n /\ \A i \in 1 .. n : R[i] \in Round
    OBVIOUS
  <2>. QED
    BY <2>1, <2>2
<1>2. \A i, j \in 1 .. n : Before(R, i, j) <=> R[i].number < R[j].number
  BY <1>1 DEF Before, Distinct
<1>3. IsFiniteSet(1 .. n) /\ Cardinality(1 .. n) = n
  <2>1. n \in Int /\ 1 \in Int /\ (IF 1 > n THEN 0 ELSE n - 1 + 1) = n
    BY <1>1
  <2> HIDE DEF B, r
  <2>. QED
    BY <2>1, FS_Interval
<1>4. ASSUME NEW i \in 1 .. n
      PROVE  IsFiniteSet(B(i)) /\ Cardinality(B(i)) \in Nat /\ Cardinality(B(i)) < n /\ i \notin B(i)
  <2>1. i \notin B(i) /\ B(i) \in SUBSET (1 .. n) /\ B(i) # 1 .. n
    BY <1>1, <1>2
  <2> HIDE DEF B
  <2>2. IsFiniteSet(B(i)) /\ Cardinality(B(i)) <= n /\ Cardinality(B(i)) # n
    BY <1>3, <2>1, FS_Subset
  <2>3. Cardinality(B(i)) \in Nat
    BY <2>2, FS_CardinalityType
  <2>. QED
    BY <1>1, <2>1, <2>2, <2>3
<1>5. ASSUME NEW i \in 1 .. n, NEW j \in 1 .. n, R[i].number < R[j].number
      PROVE  Cardinality(B(i)) < Cardinality(B(j))
  <2>1. B(i) \in SUBSET B(j) /\ i \in B(j)
    BY <1>1, <1>2, <1>5
  <2> HIDE DEF B
  <2>2. B(i) # B(j)
    BY <1>4, <2>1
  <2>3. Cardinality(B(i)) <= Cardinality(B(j)) /\ Cardinality(B(i)) # Cardinality(B(j))
    BY <1>4, <2>1, <2>2, FS_Subset
  <2>. QED
    BY <1>4, <2>3
<1> HIDE DEF B
<1>6. r \in [1 .. n -> 1 .. n] /\ \A i \in 1 .. n : r[i] = Cardinality(B(i)) + 1
  BY <1>1, <1>4
<1>7. ASSUME NEW i \in 1 .. n, NEW j \in 1 .. n
      PROVE  /\ R[i].number < R[j].number <=> r[i] < r[j]
             /\ r[i] = r[j] => i = j
  <2>1. CASE R[i].number < R[j].number
    BY <1>1, <1>4, <1>5, <1>6, <2>1
  <2>2. CASE R[j].number < R[i].number
    BY <1>1, <1>4, <1>5, <1>6, <2>2
  <2>3. CASE R[i].number = R[j].number
    <3>1. i = j
      BY <1>1, <2>3 DEF Distinct
    <3>. QED
      BY <1>1, <1>6, <3>1
  <2>. QED
    BY <1>1, <2>1, <2>2, <2>3
<1> HIDE DEF r
<1>8. ASSUME NEW k \in 1 .. n PROVE o[k] \in 1 .. n /\ r[o[k]] = k
  <2>1. PICK i \in 1 .. n : r[i] = k
    <3>1. \A l, j \in 1 .. n : r[l] = r[j] => l = j
      BY <1>7
    <3>. QED
      BY <1>1, <1>6, <1>8, <3>1, HitsAll
  <2>2. o[k] = CHOOSE j \in 1 .. n : Cardinality(B(j)) = k - 1
    BY <1>1, <1>8 DEF Ordered, B
  <2>3. Cardinality(B(i)) = k - 1
    BY <1>4, <1>6, <2>1
  <2>4. o[k] \in 1 .. n /\ Cardinality(B(o[k])) = k - 1
    BY <2>2, <2>3
  <2>. QED
    BY <1>6, <2>4
<1>9. o = [k \in 1 .. n |-> o[k]]
  <2>1. o = [k \in 1 .. n |-> CHOOSE i \in 1 .. n : Cardinality({j \in 1 .. n : Before(R, j, i)}) = k - 1]
    BY <1>1 DEF Ordered
  <2>. QED
    BY <2>1, Zenon
<1>10. \A i \in 1 .. n : \E k \in 1 .. n : o[k] = i
  <2> TAKE i \in 1 .. n
  <2>1. r[i] \in 1 .. n /\ o[r[i]] \in 1 .. n /\ r[o[r[i]]] = r[i]
    BY <1>6, <1>8
  <2>2. o[r[i]] = i
    BY <1>7, <2>1
  <2>. QED
    BY <2>1, <2>2
<1>11. ASSUME NEW k \in 1 .. n, NEW l \in 1 .. n, k < l
       PROVE  R[o[k]].number < R[o[l]].number
  BY <1>7, <1>8, <1>11
<1>12. o \in [1 .. n -> 1 .. n] /\ DOMAIN o = 1 .. n
  BY <1>8, <1>9
<1>. QED
  BY <1>1, <1>10, <1>11, <1>12 DEF Lists

-----------------------------------------------------------------------------
(* The nearest scores before a round.                                       *)

LEMMA Greatest ==
  ASSUME NEW S, IsFiniteSet(S), S # {}, NEW f, \A x \in S : f[x] \in Int
  PROVE  \E x \in S : \A y \in S : f[y] <= f[x]
<1> DEFINE G(T) == \E x \in T : \A y \in T : f[y] <= f[x]
           Bad == {T \in SUBSET S : T # {} /\ ~G(T)}
<1>1. SUFFICES ASSUME Bad # {} PROVE FALSE
  OBVIOUS
<1>2. PICK T \in Bad : \A U \in Bad : U \subseteq T => U = T
  <2>1. Bad \in SUBSET SUBSET S
    OBVIOUS
  <2> HIDE DEF Bad
  <2>. QED
    BY <1>1, <2>1, Least
<1>3. T \in SUBSET S /\ T # {} /\ ~G(T)
  BY <1>2
<1>4. PICK x : x \in T
  BY <1>3
<1>5. f[x] \in Int
  BY <1>3, <1>4
<1>6. CASE T \ {x} = {}
  <2>1. \A y \in T : f[y] <= f[x]
    BY <1>4, <1>5, <1>6
  <2>. QED
    BY <1>3, <1>4, <2>1
<1>7. CASE T \ {x} # {}
  <2>1. G(T \ {x})
    <3>1. T \ {x} \in SUBSET S /\ T \ {x} \subseteq T /\ T \ {x} # T
      BY <1>3, <1>4
    <3> HIDE DEF G
    <3>. QED
      BY <1>2, <1>7, <3>1
  <2>2. PICK z \in T \ {x} : \A y \in T \ {x} : f[y] <= f[z]
    BY <2>1
  <2>3. f[z] \in Int
    BY <1>3, <2>2
  <2>4. CASE f[x] <= f[z]
    <3>1. \A y \in T : f[y] <= f[z]
      BY <2>2, <2>4
    <3>. QED
      BY <1>3, <2>2, <3>1
  <2>5. CASE f[z] <= f[x]
    <3>1. ASSUME NEW y \in T PROVE f[y] <= f[x]
      <4>1. f[y] \in Int /\ (y = x \/ f[y] <= f[z])
        BY <1>3, <2>2
      <4>. QED
        BY <1>5, <2>3, <2>5, <4>1
    <3>. QED
      BY <1>3, <1>4, <3>1
  <2>. QED
    BY <1>5, <2>3, <2>4, <2>5
<1>. QED
  BY <1>6, <1>7

LEMMA MaxIs ==
  ASSUME NEW S, IsFiniteSet(S), S # {}, \A x \in S : x \in Int
  PROVE  Max(S) \in S /\ \A y \in S : y <= Max(S)
<1>1. PICK f : f = [x \in S |-> x]
  OBVIOUS
<1>2. PICK x \in S : \A y \in S : f[y] <= f[x]
  BY <1>1, Greatest
<1>3. \A y \in S : x >= y
  BY <1>1, <1>2
<1>4. Max(S) \in S /\ \A y \in S : Max(S) >= y
  BY <1>3 DEF Max
<1>. QED
  BY <1>4

LEMMA RoundIs ==
  ASSUME NEW r \in Round
  PROVE  /\ r.number \in Nat \ {0} /\ r.ivs \in Seq(Interview) /\ r.scores \in Partial(Int)
         /\ DOMAIN r.scores \subseteq Dims
         /\ \A d \in DOMAIN r.scores : r.scores[d] \in Int
<1>1. r.number \in Nat \ {0} /\ r.ivs \in Seq(Interview) /\ r.scores \in Partial(Int)
  BY DEF Round
<1>. QED
  BY <1>1, PartialIs

ScoreAt(R, i, d) == R[i].scores[d]
Taken(p, R, i, d) == p[d] = R[i].scores[d]

\* The rounds before n with a score for d.
Earlier(R, n, d) == {i \in DOMAIN R : R[i].number < n /\ d \in DOMAIN R[i].scores}

\* The last of them.
Nearest(R, n, d, i) ==
  /\ i \in Earlier(R, n, d)
  /\ \A j \in Earlier(R, n, d) : R[j].number <= R[i].number

LEMMA PriorIs ==
  ASSUME NEW R \in Seq(Round), Distinct(R), NEW n \in Nat, NEW p, p = PriorScoresFor(R, n)
  PROVE  /\ p \in Partial(Int)
         /\ DOMAIN p = {d \in Dims : Earlier(R, n, d) # {}}
         /\ \A d \in DOMAIN p : \E i : Nearest(R, n, d, i)
         /\ \A d \in DOMAIN p : \A i : Nearest(R, n, d, i) => Taken(p, R, i, d)
<1> DEFINE nearest(e) == CHOOSE i \in Earlier(R, n, e) :
                           \A j \in Earlier(R, n, e) : R[j].number <= R[i].number
<1>1. p = [d \in {e \in Dims : Earlier(R, n, e) # {}} |-> ScoreAt(R, nearest(d), d)]
  BY DEF PriorScoresFor, Earlier, ScoreAt
<1>2. \A i \in DOMAIN R : R[i] \in Round
  OBVIOUS
<1>3. ASSUME NEW d, Earlier(R, n, d) # {} PROVE Nearest(R, n, d, nearest(d))
  <2>1. IsFiniteSet(Earlier(R, n, d))
    <3>1. IsFiniteSet(DOMAIN R)
      <4>1. Len(R) \in Nat /\ DOMAIN R = 1 .. Len(R)
        OBVIOUS
      <4>. QED
        BY <4>1, FS_Interval
    <3>. QED
      BY <3>1, FS_Subset DEF Earlier
  <2>2. PICK f : f = [i \in Earlier(R, n, d) |-> R[i].number]
    OBVIOUS
  <2>3. \A i \in Earlier(R, n, d) : f[i] \in Int
    BY <1>2, <2>2, RoundIs DEF Earlier
  <2>4. PICK i \in Earlier(R, n, d) : \A j \in Earlier(R, n, d) : f[j] <= f[i]
    BY <1>3, <2>1, <2>3, Greatest
  <2>5. \A j \in Earlier(R, n, d) : R[j].number <= R[i].number
    BY <2>2, <2>4
  <2>. QED
    BY <2>5 DEF Nearest
<1> HIDE DEF nearest
<1>4. ASSUME NEW d, NEW i, NEW k, Nearest(R, n, d, i), Nearest(R, n, d, k)
      PROVE  i = k
  <2>1. i \in DOMAIN R /\ k \in DOMAIN R /\ R[i].number <= R[k].number /\ R[k].number <= R[i].number
    BY <1>4 DEF Nearest, Earlier
  <2>2. R[i].number \in Nat /\ R[k].number \in Nat
    BY <1>2, <2>1, RoundIs
  <2>3. R[i].number = R[k].number
    BY <2>1, <2>2
  <2>. QED
    BY <2>1, <2>3 DEF Distinct
<1>5. DOMAIN p = {e \in Dims : Earlier(R, n, e) # {}} /\ \A d \in DOMAIN p : p[d] = ScoreAt(R, nearest(d), d)
  BY <1>1
<1>6. ASSUME NEW d \in DOMAIN p PROVE p[d] \in Int
  <2>1. nearest(d) \in DOMAIN R /\ d \in DOMAIN R[nearest(d)].scores
    BY <1>3, <1>5, <1>6 DEF Nearest, Earlier
  <2>. QED
    BY <1>2, <1>5, <1>6, <2>1, RoundIs DEF ScoreAt
<1>7. p \in Partial(Int)
  BY <1>1, <1>5, <1>6, PartialIs
<1>8. ASSUME NEW d \in DOMAIN p PROVE Nearest(R, n, d, nearest(d))
  BY <1>3, <1>5, <1>8
<1>9. ASSUME NEW d \in DOMAIN p, NEW i, Nearest(R, n, d, i) PROVE Taken(p, R, i, d)
  BY <1>4, <1>5, <1>8, <1>9 DEF Taken, ScoreAt
<1>. QED
  BY <1>5, <1>7, <1>8, <1>9

\* They depend on the scored rounds before alone.
LEMMA SamePrior ==
  ASSUME NEW R \in Seq(Round), NEW A \in Seq(Round), Distinct(R), Distinct(A),
         NEW n \in Nat, NEW m \in Nat,
         \A i \in DOMAIN R : A[i].number = R[i].number,
         \A d : Earlier(A, m, d) = Earlier(R, n, d),
         \A i \in DOMAIN R : R[i].number < n => A[i].scores = R[i].scores
  PROVE  PriorScoresFor(A, m) = PriorScoresFor(R, n)
<1>1. PICK p : p = PriorScoresFor(R, n)
  OBVIOUS
<1>2. PICK q : q = PriorScoresFor(A, m)
  OBVIOUS
<1>3. ASSUME NEW d PROVE Earlier(A, m, d) = Earlier(R, n, d)
  OBVIOUS
<1>4. p \in Partial(Int) /\ q \in Partial(Int) /\ DOMAIN p = DOMAIN q
  <2>1. p \in Partial(Int) /\ DOMAIN p = {d \in Dims : Earlier(R, n, d) # {}}
    BY <1>1, PriorIs
  <2>2. q \in Partial(Int) /\ DOMAIN q = {d \in Dims : Earlier(A, m, d) # {}}
    BY <1>2, PriorIs
  <2>. QED
    BY <1>3, <2>1, <2>2
<1>5. \A d \in DOMAIN p : \E i : Nearest(R, n, d, i)
  BY <1>1, PriorIs
<1>6. \A d \in DOMAIN p : \A i : Nearest(R, n, d, i) => Taken(p, R, i, d)
  BY <1>1, PriorIs
<1>7. \A d \in DOMAIN q : \A i : Nearest(A, m, d, i) => Taken(q, A, i, d)
  BY <1>2, PriorIs
<1>8. ASSUME NEW d \in DOMAIN p PROVE p[d] = q[d]
  <2>1. PICK i : Nearest(R, n, d, i)
    BY <1>5, <1>8
  <2>2. Nearest(A, m, d, i)
    BY <1>3, <2>1 DEF Earlier, Nearest
  <2>3. Taken(p, R, i, d) /\ Taken(q, A, i, d)
    BY <1>4, <1>6, <1>7, <1>8, <2>1, <2>2
  <2>4. A[i].scores = R[i].scores
    BY <2>1 DEF Earlier, Nearest
  <2>. QED
    BY <2>3, <2>4 DEF Taken
<1>9. p = [d \in DOMAIN p |-> p[d]] /\ q = [d \in DOMAIN q |-> q[d]]
  BY <1>4, PartialIs
<1>10. p = q
  BY <1>4, <1>8, <1>9
<1>. QED
  BY <1>1, <1>2, <1>10

-----------------------------------------------------------------------------
(* Recomputing as a fold.                                                   *)

LEMMA RecomputeFolds ==
  ASSUME NEW R, NEW n \in Nat, NEW o, o = Ordered(R), DOMAIN o = 1 .. n, NEW t, t = ScoringOf(R, o)
  PROVE  RecomputeAll(R) = Fold(t, 1 .. n).rounds
<1> DEFINE S == 1 .. n
           b == [rounds |-> R, running |-> <<>>]
           Q(g) == g = [s \in SUBSET S |-> IF s = {} THEN b
                                           ELSE ScoreStep(R, g[s \ {Max(s)}], o[Max(s)])]
<1>1. RecomputeAll(R) = (CHOOSE g : Q(g))[S].rounds
  <2> DEFINE P(D, q, g) == g = [s \in SUBSET D |-> IF s = {} THEN b
                                              ELSE ScoreStep(R, g[s \ {Max(s)}], q[Max(s)])]
  <2>1. RecomputeAll(R) = FoldLeft(LAMBDA acc, i : ScoreStep(R, acc, i), b, Ordered(R)).rounds
    BY Zenon DEF RecomputeAll
  <2>2. FoldLeft(LAMBDA acc, i : ScoreStep(R, acc, i), b, Ordered(R))
          = (CHOOSE g : P(DOMAIN Ordered(R), Ordered(R), g))[DOMAIN Ordered(R)]
    BY Zenon DEF FoldLeft, MapThenFoldSet
  <2> HIDE DEF P
  <2>3. RecomputeAll(R) = (CHOOSE g : P(S, o, g))[S].rounds
    BY <2>1, <2>2, Zenon
  <2>. QED
    BY <2>3, Zenon DEF P
<1>2. /\ FoldBase(t) = b /\ \A s : FoldPick(t, s) = Max(s)
      /\ \A x, acc : FoldStep(t, x, acc) = ScoreStep(R, acc, o[x])
  BY DEF ScoringOf, FoldBase, FoldPick, FoldStep
<1>3. IsFiniteSet(S) /\ Picks(t, S)
  <2>1. IsFiniteSet(S)
    BY FS_Interval
  <2>2. ASSUME NEW s \in SUBSET S, s # {} PROVE Max(s) \in s
    <3>1. IsFiniteSet(s)
      BY <2>1, <2>2, FS_Subset
    <3>2. \A x \in s : x \in Int
      BY <2>2
    <3>. QED
      BY <2>2, <3>1, <3>2, MaxIs
  <2>. QED
    BY <1>2, <2>1, <2>2 DEF Picks
<1> HIDE DEF b, S
<1>4. ASSUME NEW g PROVE Q(g) <=> Folds(t, S, g)
  BY <1>2 DEF Folds
<1>5. \E g : Q(g)
  BY <1>3, <1>4, FoldExists
<1>6. Q(CHOOSE g : Q(g))
  <2> HIDE DEF Q
  <2>. QED
    BY <1>5
<1> HIDE DEF Q
<1>7. PICK h : h = CHOOSE g : Q(g)
  OBVIOUS
<1>8. h[S] = Fold(t, S)
  BY <1>3, <1>4, <1>6, <1>7, FoldIs
<1>. QED
  BY <1>1, <1>7, <1>8 DEF S

StepsTo(t, R, o, k) == Fold(t, 1 .. k) = ScoreStep(R, Fold(t, 1 .. (k - 1)), o[k])

LEMMA RecomputeSteps ==
  ASSUME NEW R, NEW n \in Nat, NEW o, NEW t, t = ScoringOf(R, o), NEW k \in 1 .. n
  PROVE  /\ Fold(t, 1 .. 0) = [rounds |-> R, running |-> <<>>]
         /\ StepsTo(t, R, o, k)
<1>1. /\ FoldBase(t) = [rounds |-> R, running |-> <<>>] /\ \A s : FoldPick(t, s) = Max(s)
      /\ \A x, acc : FoldStep(t, x, acc) = ScoreStep(R, acc, o[x])
  BY DEF ScoringOf, FoldBase, FoldPick, FoldStep
<1>2. ASSUME NEW m \in Nat PROVE IsFiniteSet(1 .. m) /\ Picks(t, 1 .. m)
  <2>1. IsFiniteSet(1 .. m)
    BY <1>2, FS_Interval
  <2>2. ASSUME NEW s \in SUBSET (1 .. m), s # {} PROVE Max(s) \in s
    <3>1. IsFiniteSet(s)
      BY <2>1, <2>2, FS_Subset
    <3>2. \A x \in s : x \in Int
      BY <1>2, <2>2
    <3>. QED
      BY <2>2, <3>1, <3>2, MaxIs
  <2>. QED
    BY <1>1, <2>1, <2>2 DEF Picks
<1>3. Fold(t, 1 .. 0) = [rounds |-> R, running |-> <<>>]
  <2>1. 1 .. 0 = {}
    OBVIOUS
  <2>2. Fold(t, 1 .. 0) = FoldBase(t)
    BY <1>2, <2>1, FoldUnfolds
  <2>. QED
    BY <1>1, <2>2
<1>4. Max(1 .. k) = k
  <2>1. IsFiniteSet(1 .. k) /\ k \in 1 .. k /\ \A x \in 1 .. k : x \in Int
    BY <1>2
  <2>2. Max(1 .. k) \in 1 .. k /\ k <= Max(1 .. k)
    BY <2>1, MaxIs
  <2>. QED
    BY <2>2
<1>5. (1 .. k) \ {k} = 1 .. (k - 1) /\ 1 .. k # {}
  OBVIOUS
<1>6. Fold(t, 1 .. k) = FoldStep(t, k, Fold(t, 1 .. (k - 1)))
  <2>1. k \in Nat
    OBVIOUS
  <2>2. Fold(t, 1 .. k) = FoldStep(t, FoldPick(t, 1 .. k), Fold(t, (1 .. k) \ {FoldPick(t, 1 .. k)}))
    BY <1>2, <1>5, <2>1, FoldUnfolds
  <2>. QED
    BY <1>1, <1>4, <1>5, <2>2
<1>. QED
  BY <1>1, <1>3, <1>6 DEF StepsTo

-----------------------------------------------------------------------------
(* What recomputing leaves.                                                 *)

\* The same rounds but for the scores of those with interviews.
SameRounds(R, A) ==
  /\ A \in Seq(Round) /\ DOMAIN A = DOMAIN R
  /\ \A i \in DOMAIN R : /\ A[i].number = R[i].number /\ A[i].ivs = R[i].ivs
                         /\ R[i].ivs = <<>> => A[i].scores = R[i].scores

Refreshes(R, i) == IsRefreshRound(R[i], LowestRoundNumber(R))

\* Scored anew, a round keeps its scores.
Scored(R, A, i) ==
  A[i].scores = ComputeRoundScores(R[i].ivs, PriorScoresFor(A, R[i].number), Refreshes(R, i))

\* Up to round i.
UpTo(R, i) == {j \in DOMAIN R : R[j].number <= R[i].number}

\* The scores of a round rest on the answers up to it.
Rests(R, A, i) ==
  \A d \in DOMAIN A[i].scores : \A lo, hi \in Int :
    (\A j \in UpTo(R, i) : Within(R[j].ivs, d, lo, hi))
      => lo <= ScoreAt(A, i, d) /\ ScoreAt(A, i, d) <= hi

LEMMA SameRoundsIs ==
  ASSUME NEW R \in Seq(Round), Distinct(R), NEW A, SameRounds(R, A)
  PROVE  /\ Distinct(A) /\ A \in Seq(Round)
         /\ \A i \in DOMAIN R :
              /\ R[i] \in Round /\ A[i] \in Round
              /\ A[i].number = R[i].number /\ A[i].ivs = R[i].ivs
              /\ R[i].number \in Nat \ {0} /\ R[i].ivs \in Seq(Interview)
<1>1. \A i \in DOMAIN R : R[i] \in Round
  OBVIOUS
<1>2. A \in Seq(Round) /\ DOMAIN A = DOMAIN R
  BY DEF SameRounds
<1>3. \A i \in DOMAIN R : A[i] \in Round /\ A[i].number = R[i].number /\ A[i].ivs = R[i].ivs
  BY <1>2 DEF SameRounds
<1>4. Distinct(A)
  BY <1>2, <1>3 DEF Distinct
<1>. QED
  BY <1>1, <1>2, <1>3, <1>4, RoundIs

LEMMA RefreshesType ==
  ASSUME NEW R, NEW i PROVE Refreshes(R, i) \in BOOLEAN
BY DEF Refreshes, IsRefreshRound

WithScores(A, i, s) == [A EXCEPT ![i].scores = s]

\* A round scored: the scores of one position replaced.
LEMMA ReplacedIs ==
  ASSUME NEW R \in Seq(Round), Distinct(R), NEW A, SameRounds(R, A), NEW i \in DOMAIN R,
         NEW s \in Partial(Int), R[i].ivs # <<>>, NEW B, B = WithScores(A, i, s)
  PROVE  /\ SameRounds(R, B) /\ B[i].scores = s
         /\ \A j \in DOMAIN R : j # i => B[j] = A[j]
<1>1. A \in Seq(Round) /\ DOMAIN A = DOMAIN R /\ A[i] \in Round
  BY SameRoundsIs DEF SameRounds
<1>2. [A[i] EXCEPT !.scores = s] \in Round
  BY <1>1 DEF Round
<1>3. B[i] = [A[i] EXCEPT !.scores = s] /\ DOMAIN B = DOMAIN A /\ Len(B) = Len(A)
  BY <1>1 DEF WithScores
<1>4. \A j \in DOMAIN R : j # i => B[j] = A[j]
  BY <1>1 DEF WithScores
<1>5. B \in Seq(Round)
  BY <1>1, <1>2 DEF WithScores
<1>6. B[i].scores = s /\ B[i].number = A[i].number /\ B[i].ivs = A[i].ivs
  BY <1>1, <1>3 DEF Round
<1>. QED
  BY <1>1, <1>3, <1>4, <1>5, <1>6 DEF SameRounds

\* What a later round takes once a round is scored.
LEMMA PriorAfter ==
  ASSUME NEW A \in Seq(Round), Distinct(A), NEW i \in DOMAIN A, NEW m \in Nat, NEW n \in Nat,
         n = A[i].number, n < m, \A j \in DOMAIN A : A[j].number < m => A[j].number <= n,
         \A d \in Dims : Earlier(A, n, d) # {} => d \in DOMAIN A[i].scores
  PROVE  PriorScoresFor(A, m) = A[i].scores
<1>1. PICK q : q = PriorScoresFor(A, m)
  OBVIOUS
<1>2. PICK s : s = A[i].scores
  OBVIOUS
<1>3. A[i] \in Round /\ \A j \in DOMAIN A : A[j].number \in Nat
  BY RoundIs
<1>4. s \in Partial(Int) /\ DOMAIN s \subseteq Dims
  BY <1>2, <1>3, RoundIs
<1>5. q \in Partial(Int) /\ DOMAIN q = {d \in Dims : Earlier(A, m, d) # {}}
  BY <1>1, PriorIs
<1>6. \A d \in DOMAIN q : \A j : Nearest(A, m, d, j) => Taken(q, A, j, d)
  BY <1>1, PriorIs
<1>7. ASSUME NEW d \in DOMAIN s PROVE d \in DOMAIN q /\ Nearest(A, m, d, i)
  <2>1. i \in Earlier(A, m, d)
    BY <1>2, <1>7 DEF Earlier
  <2>2. Nearest(A, m, d, i)
    BY <2>1 DEF Nearest, Earlier
  <2>. QED
    BY <1>4, <1>5, <2>1, <2>2
<1>8. ASSUME NEW d \in DOMAIN q PROVE d \in DOMAIN s
  <2>1. PICK j : j \in Earlier(A, m, d)
    BY <1>5, <1>8
  <2>2. CASE A[j].number = n
    <3>1. j = i
      BY <2>1, <2>2 DEF Earlier, Distinct
    <3>. QED
      BY <1>2, <2>1, <3>1 DEF Earlier
  <2>3. CASE A[j].number # n
    <3>1. A[j].number < n
      BY <1>3, <2>1, <2>3 DEF Earlier
    <3>2. j \in Earlier(A, n, d)
      BY <2>1, <3>1 DEF Earlier
    <3>. QED
      BY <1>2, <1>5, <1>8, <3>2
  <2>. QED
    BY <2>2, <2>3
<1>9. DOMAIN s = DOMAIN q
  BY <1>7, <1>8
<1>10. ASSUME NEW d \in DOMAIN s PROVE q[d] = s[d]
  <2>1. Taken(q, A, i, d)
    BY <1>6, <1>7, <1>10
  <2>. QED
    BY <1>2, <2>1 DEF Taken
<1>11. s = [d \in DOMAIN s |-> s[d]] /\ q = [d \in DOMAIN q |-> q[d]]
  BY <1>4, <1>5, PartialIs
<1>12. s = q
  BY <1>9, <1>10, <1>11
<1>. QED
  BY <1>1, <1>2, <1>12

SamePriors(A, B, n) == PriorScoresFor(B, n) = PriorScoresFor(A, n)

\* B is A with round i scored, over the scores before it.
ScoredOver(R, A, B, i, prior, s) ==
  /\ SameRounds(R, B) /\ s \in Partial(Int) /\ B[i].scores = s
  /\ DOMAIN prior \subseteq DOMAIN s
  /\ Scored(R, B, i) /\ Rests(R, B, i)
  /\ \A j \in DOMAIN R : R[j].number < R[i].number =>
       /\ Rests(R, B, j)
       /\ Scored(R, A, j) => Scored(R, B, j)
  /\ \A n \in Nat : n <= R[i].number => SamePriors(A, B, n)

\* One round scored over rounds whose earlier scores rest on answers.
LEMMA ScoreOne ==
  ASSUME NEW R \in Seq(Round), Distinct(R), NEW A, SameRounds(R, A), NEW i \in DOMAIN R,
         R[i].ivs # <<>>, \A j \in DOMAIN R : R[j].number < R[i].number => Rests(R, A, j),
         NEW prior, prior = PriorScoresFor(A, R[i].number),
         NEW s, s = ComputeRoundScores(R[i].ivs, prior, Refreshes(R, i)),
         NEW B, B = WithScores(A, i, s)
  PROVE  ScoredOver(R, A, B, i, prior, s)
<1>1. /\ Distinct(A) /\ A \in Seq(Round) /\ DOMAIN A = DOMAIN R
      /\ \A j \in DOMAIN R : A[j] \in Round /\ A[j].number = R[j].number /\ R[j].number \in Nat
      /\ R[i].ivs \in Seq(Interview)
  BY SameRoundsIs DEF SameRounds
<1>2. prior \in Partial(Int) /\ DOMAIN prior = {d \in Dims : Earlier(A, R[i].number, d) # {}}
  BY <1>1, PriorIs
<1>3. \A d \in DOMAIN prior : \E j : Nearest(A, R[i].number, d, j)
  BY <1>1, PriorIs
<1>4. \A d \in DOMAIN prior : \A j : Nearest(A, R[i].number, d, j) => Taken(prior, A, j, d)
  BY <1>1, PriorIs
<1>5. /\ s \in Partial(Int)
      /\ DOMAIN s = {d \in Dims : HasAnswer(R[i].ivs, d)} \cup DOMAIN prior
      /\ Bounded(R[i].ivs, prior, s)
  <2>1. PICK ivs \in Seq(Interview) : ivs = R[i].ivs
    BY <1>1
  <2>2. PICK r \in BOOLEAN : r = Refreshes(R, i)
    BY RefreshesType
  <2>3. s = ComputeRoundScores(ivs, prior, r)
    BY <2>1, <2>2
  <2>. QED
    BY <1>2, <2>1, <2>3, ComputeIs
<1>6. /\ SameRounds(R, B) /\ B[i].scores = s
      /\ \A j \in DOMAIN R : j # i => B[j] = A[j]
  BY <1>5, ReplacedIs
<1>7. Distinct(B) /\ B \in Seq(Round) /\ DOMAIN B = DOMAIN R
      /\ \A j \in DOMAIN R : B[j].number = R[j].number
  BY <1>6, SameRoundsIs DEF SameRounds
<1>8. ASSUME NEW n \in Nat, n <= R[i].number PROVE SamePriors(A, B, n)
  <2>1. \A j \in DOMAIN A : A[j].number < n => B[j] = A[j] /\ B[j].scores = A[j].scores
    BY <1>1, <1>6, <1>8
  <2>2. \A d : Earlier(B, n, d) = Earlier(A, n, d)
    BY <1>1, <1>7, <2>1 DEF Earlier
  <2>3. \A j \in DOMAIN A : B[j].number = A[j].number
    BY <1>1, <1>7
  <2>. QED
    BY <1>1, <1>7, <2>1, <2>2, <2>3, SamePrior DEF SamePriors
<1>9. Scored(R, B, i)
  <2>1. SamePriors(A, B, R[i].number)
    BY <1>1, <1>8
  <2>. QED
    BY <1>6, <2>1 DEF Scored, SamePriors
<1>10. ASSUME NEW j \in DOMAIN R, R[j].number < R[i].number
       PROVE  Rests(R, B, j) /\ (Scored(R, A, j) => Scored(R, B, j))
  <2>1. B[j] = A[j]
    BY <1>1, <1>6, <1>10
  <2>2. SamePriors(A, B, R[j].number)
    BY <1>1, <1>8, <1>10
  <2>3. Rests(R, A, j)
    BY <1>10
  <2>. QED
    BY <2>1, <2>2, <2>3 DEF Rests, Scored, ScoreAt, SamePriors
<1>11. ASSUME NEW d \in DOMAIN prior
       PROVE  \E j \in DOMAIN R : /\ R[j].number < R[i].number /\ d \in DOMAIN A[j].scores
                                  /\ Taken(prior, A, j, d)
  BY <1>1, <1>3, <1>4, <1>11 DEF Nearest, Earlier
<1>12. Rests(R, B, i)
  <2>1. SUFFICES ASSUME NEW d \in DOMAIN s, NEW lo \in Int, NEW hi \in Int,
                        \A j \in UpTo(R, i) : Within(R[j].ivs, d, lo, hi)
                 PROVE  lo <= s[d] /\ s[d] <= hi
    BY <1>6 DEF Rests, ScoreAt
  <2>2. i \in UpTo(R, i)
    BY <1>1 DEF UpTo
  <2>3. ASSUME d \in DOMAIN prior PROVE lo <= prior[d] /\ prior[d] <= hi
    <3>1. PICK j \in DOMAIN R : /\ R[j].number < R[i].number /\ d \in DOMAIN A[j].scores
                                /\ Taken(prior, A, j, d)
      BY <1>11, <2>3
    <3>2. UpTo(R, j) \subseteq UpTo(R, i)
      BY <1>1, <3>1 DEF UpTo
    <3>3. Rests(R, A, j)
      BY <3>1
    <3>4. lo <= ScoreAt(A, j, d) /\ ScoreAt(A, j, d) <= hi
      BY <2>1, <3>1, <3>2, <3>3 DEF Rests
    <3>. QED
      BY <3>1, <3>4 DEF Taken, ScoreAt
  <2>. QED
    BY <1>5, <2>1, <2>2, <2>3 DEF Bounded
<1>. QED
  BY <1>5, <1>6, <1>8, <1>9, <1>10, <1>12 DEF ScoredOver

-----------------------------------------------------------------------------
(* Recomputing, round by round.                                             *)

\* A round with no interview has no score.
EmptyUnscored(R) ==
  \A i \in DOMAIN R : R[i].ivs = <<>> => DOMAIN R[i].scores = {}

\* The running scores are the ones the next round takes.
Running(R, o, k, acc) == acc.running = PriorScoresFor(acc.rounds, R[o[k + 1]].number)

Recomputed(R, o, n, k, acc) ==
  /\ SameRounds(R, acc.rounds)
  /\ k < n => Running(R, o, k, acc)
  /\ \A l \in 1 .. k : /\ Rests(R, acc.rounds, o[l])
                       /\ R[o[l]].ivs # <<>> => Scored(R, acc.rounds, o[l])

LEMMA ListsIs ==
  ASSUME NEW R \in Seq(Round), NEW n, NEW o, Lists(R, o, n), NEW k \in 1 .. n
  PROVE  /\ o[k] \in DOMAIN R
         /\ \A i \in DOMAIN R : R[i].number < R[o[k]].number <=> \E l \in 1 .. (k - 1) : i = o[l]
         /\ k < n => \A i \in DOMAIN R : /\ R[i].number < R[o[k + 1]].number
                                           <=> R[i].number <= R[o[k]].number
                                         /\ R[i].number < R[o[k + 1]].number
                                           <=> R[i].number < R[o[k]].number \/ i = o[k]
                                         /\ o[k + 1] \in DOMAIN R
<1>1. n \in Nat /\ DOMAIN R = 1 .. n /\ o[k] \in 1 .. n
  BY DEF Lists
<1>2. \A i \in 1 .. n : R[i].number \in Nat
  BY <1>1, RoundIs
<1>3. \A j, l \in 1 .. n : o[j] \in 1 .. n /\ (j < l => R[o[j]].number < R[o[l]].number)
  BY DEF Lists
<1>4. ASSUME NEW j \in 1 .. n, NEW l \in 1 .. n
      PROVE  /\ R[o[j]].number < R[o[l]].number <=> j < l
             /\ R[o[j]].number = R[o[l]].number <=> j = l
  <2>1. R[o[j]].number \in Nat /\ R[o[l]].number \in Nat
    BY <1>2, <1>3
  <2>2. j < l => R[o[j]].number < R[o[l]].number
    BY <1>3
  <2>3. l < j => R[o[l]].number < R[o[j]].number
    BY <1>3
  <2>4. j < l \/ l < j \/ j = l
    BY <1>1
  <2>. QED
    BY <1>1, <2>1, <2>2, <2>3, <2>4
<1>5. ASSUME NEW i \in DOMAIN R
      PROVE  R[i].number < R[o[k]].number <=> \E l \in 1 .. (k - 1) : i = o[l]
  <2>1. PICK l \in 1 .. n : o[l] = i
    BY <1>1 DEF Lists
  <2>2. R[i].number < R[o[k]].number <=> l < k
    BY <1>4, <2>1
  <2>3. \A x \in 1 .. n : o[x] = i => x = l
    BY <1>4, <2>1
  <2>. QED
    BY <1>1, <2>1, <2>2, <2>3
<1>6. ASSUME k < n, NEW i \in DOMAIN R
      PROVE  /\ R[i].number < R[o[k + 1]].number <=> R[i].number <= R[o[k]].number
             /\ R[i].number < R[o[k + 1]].number <=> R[i].number < R[o[k]].number \/ i = o[k]
             /\ o[k + 1] \in DOMAIN R
  <2>1. PICK l \in 1 .. n : o[l] = i
    BY <1>1 DEF Lists
  <2>2. k + 1 \in 1 .. n
    BY <1>1, <1>6
  <2>3. R[i].number < R[o[k + 1]].number <=> l < k + 1
    BY <1>4, <2>1, <2>2
  <2>4. R[i].number < R[o[k]].number <=> l < k
    BY <1>4, <2>1
  <2>5. R[i].number = R[o[k]].number <=> l = k
    BY <1>4, <2>1
  <2>6. R[i].number \in Nat /\ R[o[k]].number \in Nat
    BY <1>1, <1>2
  <2>7. i = o[k] <=> l = k
    BY <1>4, <2>1
  <2>8. R[i].number <= R[o[k]].number <=> R[i].number < R[o[k]].number \/ R[i].number = R[o[k]].number
    BY <2>6
  <2>9. l < k + 1 <=> l < k \/ l = k
    OBVIOUS
  <2>. QED
    BY <1>1, <1>3, <2>2, <2>3, <2>4, <2>5, <2>7, <2>8, <2>9
<1>. QED
  BY <1>1, <1>5, <1>6

LEMMA RecomputedStarts ==
  ASSUME NEW R \in Seq(Round), Distinct(R), NEW n, NEW o, Lists(R, o, n),
         NEW acc, acc = [rounds |-> R, running |-> <<>>]
  PROVE  Recomputed(R, o, n, 0, acc)
<1>1. acc.rounds = R /\ acc.running = <<>>
  OBVIOUS
<1>2. SameRounds(R, R)
  BY DEF SameRounds
<1>3. ASSUME 0 < n PROVE Running(R, o, 0, acc)
  <2>1. n \in Nat /\ 1 \in 1 .. n
    BY <1>3 DEF Lists
  <2>2. PICK m : m = R[o[1]].number
    OBVIOUS
  <2>3. m \in Nat /\ \A i \in DOMAIN R : ~(R[i].number < m)
    BY <2>1, <2>2, ListsIs, RoundIs
  <2>4. \A d : Earlier(R, m, d) = {}
    BY <2>3 DEF Earlier
  <2>5. PICK p : p = PriorScoresFor(R, m)
    OBVIOUS
  <2>6. p \in Partial(Int) /\ DOMAIN p = {d \in Dims : Earlier(R, m, d) # {}}
    BY <2>3, <2>5, PriorIs
  <2>7. DOMAIN p = {} /\ p = [d \in DOMAIN p |-> p[d]]
    BY <2>4, <2>6, PartialIs
  <2>8. p = <<>>
    BY <2>7
  <2>. QED
    <3>1. 0 + 1 = 1
      OBVIOUS
    <3>. QED
      BY <1>1, <2>2, <2>5, <2>8, <3>1, Zenon DEF Running
<1>. QED
  BY <1>1, <1>2, <1>3 DEF Recomputed

LEMMA RecomputedSteps ==
  ASSUME NEW R \in Seq(Round), Distinct(R), EmptyUnscored(R), NEW n, NEW o, Lists(R, o, n),
         NEW k \in 1 .. n, NEW acc, Recomputed(R, o, n, k - 1, acc)
  PROVE  Recomputed(R, o, n, k, ScoreStep(R, acc, o[k]))
<1>1. PICK i : i = o[k]
  OBVIOUS
<1>2. PICK A : A = acc.rounds
  OBVIOUS
<1>3. n \in Nat /\ DOMAIN R = 1 .. n /\ i \in DOMAIN R /\ \A l \in 1 .. n : o[l] \in DOMAIN R
  BY <1>1 DEF Lists
<1>4. /\ SameRounds(R, A) /\ Distinct(A) /\ A \in Seq(Round) /\ DOMAIN A = DOMAIN R
      /\ \A j \in DOMAIN R : A[j] \in Round /\ A[j].number = R[j].number /\ R[j].number \in Nat
  BY <1>2, SameRoundsIs DEF Recomputed, SameRounds
<1>5. k - 1 < n /\ (k - 1) + 1 = k
  BY <1>3
<1>6. acc.running = PriorScoresFor(A, R[i].number)
  BY <1>1, <1>2, <1>5, Zenon DEF Recomputed, Running
<1>7. \A l \in 1 .. (k - 1) : /\ Rests(R, A, o[l])
                              /\ R[o[l]].ivs # <<>> => Scored(R, A, o[l])
  BY <1>2 DEF Recomputed
<1>8. \A j \in DOMAIN R : R[j].number < R[i].number <=> \E l \in 1 .. (k - 1) : j = o[l]
  BY <1>1, ListsIs
<1>9. ASSUME k < n
      PROVE  /\ k + 1 \in 1 .. n /\ o[k + 1] \in DOMAIN R
             /\ \A j \in DOMAIN R : /\ R[j].number < R[o[k + 1]].number <=> R[j].number <= R[i].number
                                    /\ R[j].number < R[o[k + 1]].number
                                         <=> R[j].number < R[i].number \/ j = i
  <2>1. \A j \in DOMAIN R : /\ R[j].number < R[o[k + 1]].number <=> R[j].number <= R[o[k]].number
                            /\ R[j].number < R[o[k + 1]].number
                                 <=> R[j].number < R[o[k]].number \/ j = o[k]
                            /\ o[k + 1] \in DOMAIN R
    BY <1>9, ListsIs
  <2>2. k + 1 \in 1 .. n
    BY <1>3, <1>9
  <2>. QED
    BY <1>1, <1>3, <2>1, <2>2
<1>10. CASE R[i].ivs = <<>>
  <2>1. ScoreStep(R, acc, o[k]) = acc
    BY <1>1, <1>10 DEF ScoreStep
  <2>2. DOMAIN A[i].scores = {}
    BY <1>3, <1>4, <1>10 DEF EmptyUnscored, SameRounds
  <2>3. Rests(R, A, i)
    BY <2>2 DEF Rests
  <2>4. ASSUME k < n PROVE Running(R, o, k, acc)
    <3>1. PICK m : m = R[o[k + 1]].number
      OBVIOUS
    <3>2. m \in Nat
      BY <1>4, <1>9, <2>4, <3>1
    <3>3. ASSUME NEW d PROVE Earlier(A, m, d) = Earlier(A, R[i].number, d)
      BY <1>4, <1>9, <2>2, <2>4, <3>1 DEF Earlier
    <3>4. PriorScoresFor(A, m) = PriorScoresFor(A, R[i].number)
      BY <1>3, <1>4, <3>2, <3>3, SamePrior
    <3>. QED
      BY <1>2, <1>6, <3>1, <3>4, Zenon DEF Running
  <2>5. ASSUME NEW l \in 1 .. k
        PROVE  Rests(R, A, o[l]) /\ (R[o[l]].ivs # <<>> => Scored(R, A, o[l]))
    <3>1. l \in 1 .. (k - 1) \/ l = k
      BY <1>3
    <3>. QED
      BY <1>1, <1>7, <1>10, <2>3, <3>1
  <2>. QED
    BY <1>2, <1>4, <2>1, <2>4, <2>5 DEF Recomputed
<1>11. CASE R[i].ivs # <<>>
  <2>1. PICK prior : prior = PriorScoresFor(A, R[i].number)
    OBVIOUS
  <2>2. PICK s : s = ComputeRoundScores(R[i].ivs, prior, Refreshes(R, i))
    OBVIOUS
  <2>3. PICK B : B = WithScores(A, i, s)
    OBVIOUS
  <2>4. \A j \in DOMAIN R : R[j].number < R[i].number => Rests(R, A, j)
    BY <1>7, <1>8
  <2>5. ScoredOver(R, A, B, i, prior, s)
    BY <1>3, <1>4, <1>11, <2>1, <2>2, <2>3, <2>4, ScoreOne
  <2>6. prior \in Partial(Int)
    BY <1>3, <1>4, <2>1, PriorIs
  <2>7. PICK next : next = ScoreStep(R, acc, o[k])
    OBVIOUS
  <2>8. next.rounds = B /\ next.running = s
    <3>1. acc.running = prior
      BY <1>6, <2>1
    <3>2. next = [rounds |-> WithScores(A, i, s),
                  running |-> [d \in DOMAIN prior \cup DOMAIN s |->
                                 IF d \in DOMAIN s THEN s[d] ELSE prior[d]]]
      BY <1>1, <1>2, <1>11, <2>2, <2>7, <3>1 DEF ScoreStep, Refreshes, WithScores
    <3>3. s = [d \in DOMAIN s |-> s[d]]
      BY <2>5, PartialIs DEF ScoredOver
    <3>4. [d \in DOMAIN prior \cup DOMAIN s |-> IF d \in DOMAIN s THEN s[d] ELSE prior[d]] = s
      BY <2>5, <3>3 DEF ScoredOver
    <3>. QED
      BY <2>3, <3>2, <3>4
  <2>9. ASSUME k < n PROVE Running(R, o, k, next)
    <3>1. PICK m : m = R[o[k + 1]].number
      OBVIOUS
    <3>2. PICK c : c = R[i].number
      OBVIOUS
    <3>3. /\ Distinct(B) /\ B \in Seq(Round) /\ DOMAIN B = DOMAIN R
          /\ \A j \in DOMAIN R : B[j].number = R[j].number
      BY <2>5, SameRoundsIs DEF SameRounds, ScoredOver
    <3>4. m \in Nat /\ c \in Nat /\ c = B[i].number /\ c < m
          /\ \A j \in DOMAIN B : B[j].number < m => B[j].number <= c
      BY <1>3, <1>4, <1>9, <2>9, <3>1, <3>2, <3>3
    <3>5. SamePriors(A, B, c)
      BY <2>5, <3>2, <3>4 DEF ScoredOver
    <3>6. prior = PriorScoresFor(B, c)
      BY <2>1, <3>2, <3>5 DEF SamePriors
    <3>7. DOMAIN prior = {d \in Dims : Earlier(B, c, d) # {}}
      BY <3>3, <3>4, <3>6, PriorIs
    <3>8. \A d \in Dims : Earlier(B, c, d) # {} => d \in DOMAIN B[i].scores
      BY <2>5, <3>7 DEF ScoredOver
    <3>9. PriorScoresFor(B, m) = B[i].scores
      BY <1>3, <3>3, <3>4, <3>8, PriorAfter
    <3>. QED
      BY <2>5, <2>8, <3>1, <3>9, Zenon DEF Running, ScoredOver
  <2>10. ASSUME NEW l \in 1 .. k
         PROVE  Rests(R, B, o[l]) /\ (R[o[l]].ivs # <<>> => Scored(R, B, o[l]))
    <3>1. CASE l = k
      BY <1>1, <2>5, <3>1 DEF ScoredOver
    <3>2. CASE l \in 1 .. (k - 1)
      <4>1. o[l] \in DOMAIN R /\ R[o[l]].number < R[i].number
        BY <1>3, <1>8, <3>2
      <4>. QED
        BY <1>7, <2>5, <3>2, <4>1 DEF ScoredOver
    <3>. QED
      BY <1>3, <3>1, <3>2
  <2>11. Recomputed(R, o, n, k, next)
    BY <2>5, <2>8, <2>9, <2>10 DEF Recomputed, ScoredOver
  <2>. QED
    BY <2>7, <2>11
<1>. QED
  BY <1>10, <1>11

\* Recomputing keeps the rounds and their interviews, and leaves every round
\* as scoring it anew would, from answers up to it.
LEMMA RecomputeAllIs ==
  ASSUME NEW R \in Seq(Round), Distinct(R), EmptyUnscored(R), NEW A, A = RecomputeAll(R)
  PROVE  /\ SameRounds(R, A)
         /\ \A i \in DOMAIN R : /\ Rests(R, A, i)
                                /\ R[i].ivs # <<>> => Scored(R, A, i)
<1>1. PICK n : n = Len(R)
  OBVIOUS
<1>2. PICK o : o = Ordered(R)
  OBVIOUS
<1>3. Lists(R, o, n) /\ DOMAIN o = 1 .. n /\ n \in Nat
  BY <1>1, <1>2, OrderedIs
<1>4. PICK t : t = ScoringOf(R, o)
  OBVIOUS
<1> DEFINE Good(k) == Recomputed(R, o, n, k, Fold(t, 1 .. k))
           Bad == {k \in 0 .. n : ~Good(k)}
<1>5. Good(0)
  <2>1. 1 .. 0 = {}
    OBVIOUS
  <2>2. IsFiniteSet({}) /\ Picks(t, {})
    BY FS_EmptySet DEF Picks
  <2>3. Fold(t, 1 .. 0) = FoldBase(t)
    BY <2>1, <2>2, FoldUnfolds
  <2>4. FoldBase(t) = [rounds |-> R, running |-> <<>>]
    BY <1>4 DEF FoldBase, ScoringOf
  <2>. QED
    BY <1>3, <2>3, <2>4, RecomputedStarts
<1>6. ASSUME NEW k \in 1 .. n, Good(k - 1) PROVE Good(k)
  <2>1. Fold(t, 1 .. k) = ScoreStep(R, Fold(t, 1 .. (k - 1)), o[k])
    <3>1. StepsTo(t, R, o, k)
      BY <1>3, <1>4, RecomputeSteps
    <3>. QED
      BY <3>1, Zenon DEF StepsTo
  <2>. QED
    BY <1>3, <1>6, <2>1, RecomputedSteps
<1> HIDE DEF Good
<1>7. Good(n)
  <2>1. SUFFICES ASSUME Bad # {} PROVE FALSE
    BY <1>3
  <2>2. IsFiniteSet(Bad)
    <3>1. IsFiniteSet(0 .. n) /\ Bad \in SUBSET (0 .. n)
      BY <1>3, FS_Interval
    <3> HIDE DEF Bad
    <3>. QED
      BY <3>1, FS_Subset
  <2>3. PICK f : f = [k \in Bad |-> -k]
    OBVIOUS
  <2>4. \A k \in Bad : f[k] \in Int
    BY <1>3, <2>3
  <2>5. PICK k \in Bad : \A l \in Bad : f[l] <= f[k]
    <3> HIDE DEF Bad
    <3>. QED
      BY <2>1, <2>2, <2>4, Greatest
  <2>6. k \in 0 .. n /\ ~Good(k) /\ \A l \in Bad : -l <= -k
    BY <2>3, <2>5
  <2>7. k \in 1 .. n
    BY <1>3, <1>5, <2>6
  <2>8. k - 1 \notin Bad /\ k - 1 \in 0 .. n
    BY <1>3, <2>6, <2>7
  <2>9. Good(k - 1)
    BY <2>8
  <2>. QED
    BY <1>6, <2>6, <2>7, <2>9
<1>8. A = Fold(t, 1 .. n).rounds
  BY <1>2, <1>3, <1>4, RecomputeFolds
<1>9. SameRounds(R, A) /\ \A l \in 1 .. n : /\ Rests(R, A, o[l])
                                            /\ R[o[l]].ivs # <<>> => Scored(R, A, o[l])
  BY <1>7, <1>8 DEF Good, Recomputed
<1>10. \A i \in DOMAIN R : \E l \in 1 .. n : o[l] = i
  BY <1>3 DEF Lists
<1>. QED
  BY <1>9, <1>10

-----------------------------------------------------------------------------
(* The rounds of a record.                                                  *)

LEMMA MinIs ==
  ASSUME NEW S, IsFiniteSet(S), S # {}, \A x \in S : x \in Int
  PROVE  Min(S) \in S /\ \A y \in S : Min(S) <= y
<1>1. PICK f : f = [x \in S |-> -x]
  OBVIOUS
<1>2. \A x \in S : f[x] \in Int
  BY <1>1
<1>3. PICK x \in S : \A y \in S : f[y] <= f[x]
  BY <1>2, Greatest
<1>4. \A y \in S : x <= y
  BY <1>1, <1>3
<1>. QED
  BY <1>4 DEF Min

LEMMA PositionsFinite ==
  ASSUME NEW T, NEW s \in Seq(T)
  PROVE  IsFiniteSet(DOMAIN s) /\ \A i \in DOMAIN s : i \in Nat
<1>1. Len(s) \in Nat /\ DOMAIN s = 1 .. Len(s)
  OBVIOUS
<1>. QED
  BY <1>1, FS_Interval

LEMMA NumbersIs ==
  ASSUME NEW R \in Seq(Round)
  PROVE  IsFiniteSet(Numbers(R)) /\ \A n \in Numbers(R) : n \in Nat \ {0}
<1>1. PICK f : f = [i \in DOMAIN R |-> R[i].number]
  OBVIOUS
<1>2. f \in Surjection(DOMAIN R, Numbers(R))
  BY <1>1 DEF Surjection, Numbers
<1>3. IsFiniteSet(Numbers(R))
  BY <1>2, PositionsFinite, FS_Surjection
<1>4. \A i \in DOMAIN R : R[i].number \in Nat \ {0}
  BY RoundIs
<1>. QED
  BY <1>3, <1>4 DEF Numbers

WellFormed(R) == R \in Seq(Round) /\ Distinct(R) /\ EmptyUnscored(R)

\* Rescoring a round with an interview keeps a record well formed.
LEMMA RescoredIs ==
  ASSUME NEW R, WellFormed(R), NEW i \in DOMAIN R, R[i].ivs # <<>>
  PROVE  WellFormed(Rescored(R, i))
<1>1. /\ R \in Seq(Round) /\ Distinct(R) /\ EmptyUnscored(R)
      /\ R[i].number \in Nat /\ R[i].ivs \in Seq(Interview)
  BY RoundIs DEF WellFormed
<1>2. PICK p : p = PriorScoresFor(R, R[i].number)
  OBVIOUS
<1>3. p \in Partial(Int)
  BY <1>1, <1>2, PriorIs
<1>4. PICK r \in BOOLEAN : r = Refreshes(R, i)
  BY RefreshesType
<1>5. PICK ivs \in Seq(Interview) : ivs = R[i].ivs
  BY <1>1
<1>6. PICK s : s = ComputeRoundScores(ivs, p, r)
  OBVIOUS
<1>7. s \in Partial(Int)
  BY <1>3, <1>6, ComputeIs
<1>8. SameRounds(R, R)
  BY <1>1 DEF SameRounds
<1>9. PICK B : B = WithScores(R, i, s)
  OBVIOUS
<1>10. SameRounds(R, B)
  BY <1>1, <1>7, <1>8, <1>9, ReplacedIs
<1>11. WellFormed(B)
  BY <1>1, <1>10, SameRoundsIs DEF SameRounds, WellFormed, EmptyUnscored
<1>12. Rescored(R, i) = B
  BY <1>2, <1>4, <1>5, <1>6, <1>9 DEF Rescored, WithScores, Refreshes
<1>. QED
  BY <1>11, <1>12

\* So does a new round under a number no round has.
LEMMA AppendedIs ==
  ASSUME NEW R, WellFormed(R), NEW n \in Nat \ {0}, n \notin Numbers(R)
  PROVE  WellFormed(Append(R, NoRound(n)))
<1>1. PICK e : e = NoRound(n)
  OBVIOUS
<1>2. e.scores = <<>> /\ DOMAIN e.scores = {} /\ e.ivs = <<>> /\ e.number = n
  BY <1>1 DEF NoRound
<1>3. e.scores \in Partial(Int)
  <2>1. e.scores = [d \in DOMAIN e.scores |-> e.scores[d]]
    BY <1>2
  <2>. QED
    BY <1>2, <2>1, PartialIs
<1>4. e \in Round
  BY <1>1, <1>2, <1>3 DEF Round, NoRound
<1>5. PICK B : B = Append(R, e)
  OBVIOUS
<1>6. R \in Seq(Round) /\ Distinct(R) /\ EmptyUnscored(R)
  BY DEF WellFormed
<1>7. /\ Len(R) \in Nat /\ DOMAIN R = 1 .. Len(R) /\ DOMAIN B = 1 .. (Len(R) + 1)
      /\ B[Len(R) + 1] = e /\ \A i \in DOMAIN R : B[i] = R[i]
      /\ B \in Seq(Round)
  BY <1>4, <1>5, <1>6
<1>8. \A i \in DOMAIN B : i \in DOMAIN R \/ i = Len(R) + 1
  BY <1>7
<1>9. \A i \in DOMAIN R : R[i].number # n
  BY DEF Numbers
<1>10. Distinct(B)
  BY <1>2, <1>6, <1>7, <1>8, <1>9 DEF Distinct
<1>11. EmptyUnscored(B)
  BY <1>2, <1>6, <1>7, <1>8 DEF EmptyUnscored
<1>. QED
  BY <1>1, <1>5, <1>7, <1>10, <1>11 DEF WellFormed

LEMMA RecomputedIs ==
  ASSUME NEW R, WellFormed(R)
  PROVE  WellFormed(RecomputeAll(R))
<1>1. PICK A : A = RecomputeAll(R)
  OBVIOUS
<1>2. R \in Seq(Round) /\ Distinct(R) /\ EmptyUnscored(R)
  BY DEF WellFormed
<1>3. SameRounds(R, A)
  BY <1>1, <1>2, RecomputeAllIs
<1>4. WellFormed(A)
  BY <1>2, <1>3, SameRoundsIs DEF SameRounds, WellFormed, EmptyUnscored
<1>. QED
  BY <1>1, <1>4

\* An interview put in a round of a record.
LEMMA LandedIs ==
  ASSUME NEW R, WellFormed(R), NEW i \in DOMAIN R, NEW ivs \in Seq(Interview), ivs # <<>>
  PROVE  WellFormed(Rescored([R EXCEPT ![i].ivs = ivs], i))
<1>1. PICK B : B = [R EXCEPT ![i].ivs = ivs]
  OBVIOUS
<1>2. R \in Seq(Round) /\ Distinct(R) /\ EmptyUnscored(R) /\ R[i] \in Round
  BY DEF WellFormed
<1>3. [R[i] EXCEPT !.ivs = ivs] \in Round
  BY <1>2 DEF Round
<1>4. /\ B \in Seq(Round) /\ DOMAIN B = DOMAIN R /\ B[i] = [R[i] EXCEPT !.ivs = ivs]
      /\ \A j \in DOMAIN R : j # i => B[j] = R[j]
  BY <1>1, <1>2, <1>3
<1>5. B[i].ivs = ivs /\ B[i].number = R[i].number
  BY <1>2, <1>4 DEF Round
<1>6. Distinct(B)
  BY <1>2, <1>4, <1>5 DEF Distinct
<1>7. EmptyUnscored(B)
  BY <1>2, <1>4, <1>5 DEF EmptyUnscored
<1>8. WellFormed(Rescored(B, i))
  BY <1>4, <1>5, <1>6, <1>7, RescoredIs DEF WellFormed
<1>. QED
  BY <1>1, <1>8

LEMMA UpsertedIs ==
  ASSUME WellFormed(rounds), NEW n \in Nat \ {0}, NEW iv \in Interview, NEW by
  PROVE  WellFormed(Upserted(n, iv, by))
<1>1. PICK R : R = WithRound(n)
  OBVIOUS
<1>2. WellFormed(R) /\ \E j \in DOMAIN R : R[j].number = n
  <2>1. CASE n \in Numbers(rounds)
    BY <1>1, <2>1 DEF WithRound, Numbers
  <2>2. CASE n \notin Numbers(rounds)
    <3>1. R = Append(rounds, NoRound(n))
      BY <1>1, <2>2 DEF WithRound
    <3>2. WellFormed(R)
      BY <2>2, <3>1, AppendedIs
    <3>3. rounds \in Seq(Round) /\ Len(rounds) \in Nat
      BY DEF WellFormed
    <3>4. DOMAIN R = 1 .. (Len(rounds) + 1) /\ R[Len(rounds) + 1] = NoRound(n)
      BY <3>1, <3>3
    <3>5. NoRound(n).number = n /\ Len(rounds) + 1 \in DOMAIN R
      BY <3>3, <3>4 DEF NoRound
    <3>. QED
      BY <3>2, <3>4, <3>5
  <2>. QED
    BY <2>1, <2>2
<1>3. PICK i : i = CHOOSE j \in DOMAIN R : R[j].number = n
  OBVIOUS
<1>4. i \in DOMAIN R
  BY <1>2, <1>3
<1>5. PICK old : old = R[i].ivs
  OBVIOUS
<1>6. old \in Seq(Interview)
  BY <1>2, <1>4, <1>5, RoundIs DEF WellFormed
<1>7. PICK found : found = {k \in DOMAIN old : Matches(by, old[k], iv)}
  OBVIOUS
<1>8. PICK ivs : ivs = IF found = {} THEN Append(old, iv) ELSE [old EXCEPT ![Min(found)] = iv]
  OBVIOUS
<1>9. ivs \in Seq(Interview) /\ ivs # <<>>
  <2>1. CASE found = {}
    BY <1>6, <1>8, <2>1
  <2>2. CASE found # {}
    <3>1. IsFiniteSet(found) /\ \A k \in found : k \in Int
      BY <1>6, <1>7, PositionsFinite, FS_Subset
    <3>2. Min(found) \in found
      BY <2>2, <3>1, MinIs
    <3>3. PICK k \in DOMAIN old : k = Min(found)
      BY <1>7, <3>2
    <3>4. ivs = [old EXCEPT ![k] = iv]
      BY <1>8, <2>2, <3>3
    <3>. QED
      BY <1>6, <3>3, <3>4
  <2>. QED
    BY <2>1, <2>2
<1>10. Upserted(n, iv, by) = Rescored([R EXCEPT ![i].ivs = ivs], i)
  BY <1>1, <1>3, <1>5, <1>7, <1>8 DEF Upserted
<1>. QED
  BY <1>2, <1>4, <1>9, <1>10, LandedIs

-----------------------------------------------------------------------------
(* What is shown was measured.                                              *)

LEMMA Wider ==
  ASSUME NEW lo \in Int, NEW hi \in Int, NEW a \in Int, NEW b \in Int
  PROVE  \E l, h \in Int : l <= lo /\ l <= a /\ hi <= h /\ b <= h
<1>1. \E l \in Int : l <= lo /\ l <= a
  OBVIOUS
<1>2. \E h \in Int : hi <= h /\ b <= h
  OBVIOUS
<1>. QED
  BY <1>1, <1>2

LEMMA WithinWider ==
  ASSUME NEW ivs \in Seq(Interview), NEW d \in Dims, NEW lo \in Int, NEW hi \in Int,
         Within(ivs, d, lo, hi), NEW l \in Int, NEW h \in Int, l <= lo, hi <= h
  PROVE  Within(ivs, d, l, h)
<1>1. ASSUME NEW k \in Entries(ivs, d) PROVE l <= AnswerOf(ivs, d, k) /\ AnswerOf(ivs, d, k) <= h
  <2>1. PICK v \in Int : v = AnswerOf(ivs, d, k)
    BY EntriesType
  <2>2. lo <= v /\ v <= hi
    BY <2>1 DEF Within
  <2>3. l <= v /\ v <= h
    BY <2>2
  <2>. QED
    BY <2>1, <2>3
<1>. QED
  BY <1>1 DEF Within

LEMMA AllBounds ==
  ASSUME NEW R \in Seq(Round), NEW S \in SUBSET DOMAIN R, NEW d \in Dims
  PROVE  \E lo, hi \in Int : \A j \in S : Within(R[j].ivs, d, lo, hi)
<1> DEFINE Bound(T) == \E lo, hi \in Int : \A j \in T : Within(R[j].ivs, d, lo, hi)
           Bad == {T \in SUBSET S : ~Bound(T)}
<1>1. IsFiniteSet(S) /\ \A j \in S : R[j].ivs \in Seq(Interview)
  <2>1. IsFiniteSet(DOMAIN R)
    BY PositionsFinite
  <2>2. \A j \in DOMAIN R : R[j].ivs \in Seq(Interview)
    BY RoundIs
  <2>. QED
    BY <2>1, <2>2, FS_Subset
<1>2. SUFFICES ASSUME Bad # {} PROVE FALSE
  OBVIOUS
<1>3. PICK T \in Bad : \A U \in Bad : U \subseteq T => U = T
  <2>1. Bad \in SUBSET SUBSET S
    OBVIOUS
  <2> HIDE DEF Bad
  <2>. QED
    BY <1>1, <1>2, <2>1, Least
<1>4. T \in SUBSET S /\ ~Bound(T)
  BY <1>3
<1>5. CASE T = {}
  <2>1. Bound({})
    BY 0 \in Int
  <2>. QED
    BY <1>4, <1>5, <2>1
<1>6. CASE T # {}
  <2>1. PICK x : x \in T
    BY <1>6
  <2>2. Bound(T \ {x})
    <3>1. T \ {x} \subseteq T /\ T \ {x} # T /\ T \ {x} \in SUBSET S
      BY <1>4, <2>1
    <3> HIDE DEF Bound
    <3>. QED
      BY <1>3, <3>1
  <2>3. PICK lo \in Int, hi \in Int : \A j \in T \ {x} : Within(R[j].ivs, d, lo, hi)
    BY <2>2
  <2>4. PICK a \in Int, b \in Int : Within(R[x].ivs, d, a, b)
    BY <1>1, <1>4, <2>1, SomeBounds
  <2>5. PICK l \in Int, h \in Int : l <= lo /\ l <= a /\ hi <= h /\ b <= h
    BY Wider
  <2>6. ASSUME NEW j \in T PROVE Within(R[j].ivs, d, l, h)
    <3>1. R[j].ivs \in Seq(Interview)
      BY <1>1, <1>4
    <3>2. Within(R[j].ivs, d, lo, hi) \/ Within(R[j].ivs, d, a, b)
      BY <2>3, <2>4
    <3>. QED
      BY <2>5, <3>1, <3>2, WithinWider
  <2>7. Bound(T)
    BY <2>6
  <2>. QED
    BY <1>4, <2>7
<1>. QED
  BY <1>5, <1>6

AnswersTo(ivs, d) == {AnswerOf(ivs, d, k) : k \in Entries(ivs, d)}

\* The answers to d up to round i.
AnswersUpTo(R, i, d) ==
  UNION {AnswersTo(R[j].ivs, d) : j \in UpTo(R, i)}

LEMMA RestsIs ==
  ASSUME NEW R \in Seq(Round), Distinct(R), NEW A, SameRounds(R, A), NEW i \in DOMAIN R, Rests(R, A, i),
         NEW d \in DOMAIN A[i].scores
  PROVE  /\ \E lo \in AnswersUpTo(R, i, d) : lo <= ScoreAt(A, i, d)
         /\ \E hi \in AnswersUpTo(R, i, d) : ScoreAt(A, i, d) <= hi
<1>1. PICK s \in Int : s = ScoreAt(A, i, d)
  <2>1. A[i] \in Round
    BY SameRoundsIs
  <2>. QED
    BY <2>1, RoundIs DEF ScoreAt
<1>2. d \in Dims
  <2>1. A[i] \in Round
    BY SameRoundsIs
  <2>. QED
    BY <2>1, RoundIs
<1>3. PICK lo \in Int, hi \in Int : \A j \in UpTo(R, i) : Within(R[j].ivs, d, lo, hi)
  BY <1>2, AllBounds DEF UpTo
<1>4. ASSUME NEW j \in UpTo(R, i), NEW k \in Entries(R[j].ivs, d)
      PROVE  /\ AnswerOf(R[j].ivs, d, k) \in AnswersUpTo(R, i, d)
             /\ AnswerOf(R[j].ivs, d, k) \in Int
             /\ lo <= AnswerOf(R[j].ivs, d, k) /\ AnswerOf(R[j].ivs, d, k) <= hi
  <2>1. AnswerOf(R[j].ivs, d, k) \in AnswersUpTo(R, i, d)
    <3>1. AnswerOf(R[j].ivs, d, k) \in AnswersTo(R[j].ivs, d)
      BY DEF AnswersTo
    <3>. QED
      BY <3>1 DEF AnswersUpTo
  <2>2. R[j].ivs \in Seq(Interview)
    BY RoundIs DEF UpTo
  <2>3. AnswerOf(R[j].ivs, d, k) \in Int
    BY <1>2, <2>2, EntriesType
  <2>. QED
    BY <1>3, <2>1, <2>3 DEF Within
<1>5. ASSUME \A a \in AnswersUpTo(R, i, d) : ~(a <= s) PROVE FALSE
  <2>1. \A j \in UpTo(R, i) : Within(R[j].ivs, d, s + 1, hi)
    <3>1. ASSUME NEW j \in UpTo(R, i), NEW k \in Entries(R[j].ivs, d)
          PROVE  s + 1 <= AnswerOf(R[j].ivs, d, k) /\ AnswerOf(R[j].ivs, d, k) <= hi
      <4>1. PICK v \in Int : v = AnswerOf(R[j].ivs, d, k)
        BY <1>4
      <4>2. ~(v <= s) /\ v <= hi
        BY <1>4, <1>5, <4>1
      <4>. QED
        BY <1>1, <4>1, <4>2
    <3>. QED
      BY <3>1 DEF Within
  <2>2. s + 1 <= s
    BY <1>1, <2>1 DEF Rests
  <2>. QED
    BY <1>1, <2>2
<1>6. ASSUME \A a \in AnswersUpTo(R, i, d) : ~(s <= a) PROVE FALSE
  <2>1. \A j \in UpTo(R, i) : Within(R[j].ivs, d, lo, s - 1)
    <3>1. ASSUME NEW j \in UpTo(R, i), NEW k \in Entries(R[j].ivs, d)
          PROVE  lo <= AnswerOf(R[j].ivs, d, k) /\ AnswerOf(R[j].ivs, d, k) <= s - 1
      <4>1. PICK v \in Int : v = AnswerOf(R[j].ivs, d, k)
        BY <1>4
      <4>2. ~(s <= v) /\ lo <= v
        BY <1>4, <1>6, <4>1
      <4>. QED
        BY <1>1, <4>1, <4>2
    <3>. QED
      BY <3>1 DEF Within
  <2>2. s <= s - 1
    BY <1>1, <2>1 DEF Rests
  <2>. QED
    BY <1>1, <2>2
<1>. QED
  BY <1>1, <1>5, <1>6

LEMMA SettledIs ==
  ASSUME NEW R \in Seq(Round), Distinct(R), NEW A, SameRounds(R, A), NEW i \in DOMAIN R, Scored(R, A, i)
  PROVE  Settled(A, i)
<1>1. /\ A \in Seq(Round) /\ DOMAIN A = DOMAIN R /\ A[i] \in Round
      /\ \A j \in DOMAIN R : A[j].number = R[j].number /\ A[j].ivs = R[j].ivs
  BY SameRoundsIs DEF SameRounds
<1>2. Numbers(A) = Numbers(R) /\ A # <<>> /\ R # <<>>
  BY <1>1 DEF Numbers
<1>3. LowestRoundNumber(A) = LowestRoundNumber(R)
  BY <1>2 DEF LowestRoundNumber
<1>4. Refreshes(A, i) = Refreshes(R, i)
  BY <1>1, <1>3 DEF Refreshes, IsRefreshRound
<1>5. PICK s : s = ComputeRoundScores(A[i].ivs, PriorScoresFor(A, A[i].number), Refreshes(A, i))
  OBVIOUS
<1>6. A[i].scores = s
  BY <1>1, <1>4, <1>5 DEF Scored
<1>7. Rescored(A, i) = [A EXCEPT ![i].scores = s]
  BY <1>5 DEF Rescored, Refreshes
<1>8. [A EXCEPT ![i].scores = s] = A
  BY <1>1, <1>6 DEF Round
<1>. QED
  BY <1>7, <1>8 DEF Settled

LEMMA ScoresRest ==
  ASSUME WellFormed(rounds)
  PROVE  ScoresHold
<1>1. PICK R : R = rounds
  OBVIOUS
<1>2. R \in Seq(Round) /\ Distinct(R) /\ EmptyUnscored(R)
  BY <1>1 DEF WellFormed
<1>3. PlannedIsEmpty
  BY <1>1, <1>2 DEF PlannedIsEmpty, Interviewed, Distinct, EmptyUnscored
<1>4. PICK A : A = RecomputeAll(R)
  OBVIOUS
<1>5. /\ SameRounds(R, A)
      /\ \A i \in DOMAIN R : Rests(R, A, i) /\ (R[i].ivs # <<>> => Scored(R, A, i))
  BY <1>2, <1>4, RecomputeAllIs
<1>6. /\ DOMAIN A = DOMAIN R
      /\ \A j \in DOMAIN R : A[j].number = R[j].number /\ A[j].ivs = R[j].ivs
  BY <1>2, <1>5, SameRoundsIs DEF SameRounds
<1>7. ASSUME NEW i \in DOMAIN A, Interviewed(A, i)
      PROVE  /\ Settled(A, i)
             /\ \A d \in DOMAIN A[i].scores :
                  /\ \E lo \in AnswersUpTo(A, i, d) : lo <= ScoreAt(A, i, d)
                  /\ \E hi \in AnswersUpTo(A, i, d) : ScoreAt(A, i, d) <= hi
  <2>1. i \in DOMAIN R /\ R[i].ivs # <<>>
    BY <1>6, <1>7 DEF Interviewed
  <2>2. Settled(A, i)
    BY <1>2, <1>5, <2>1, SettledIs
  <2>3. UpTo(A, i) = UpTo(R, i)
    BY <1>6, <2>1 DEF UpTo
  <2>4. ASSUME NEW d PROVE AnswersUpTo(A, i, d) = AnswersUpTo(R, i, d)
    <3>1. \A j \in UpTo(R, i) : A[j].ivs = R[j].ivs
      BY <1>6 DEF UpTo
    <3>. QED
      BY <2>3, <3>1 DEF AnswersUpTo
  <2>5. ASSUME NEW d \in DOMAIN A[i].scores
        PROVE  /\ \E lo \in AnswersUpTo(A, i, d) : lo <= ScoreAt(A, i, d)
               /\ \E hi \in AnswersUpTo(A, i, d) : ScoreAt(A, i, d) <= hi
    BY <1>2, <1>5, <2>1, <2>4, RestsIs
  <2>. QED
    BY <2>2, <2>5
<1>8. ScoresRestOnAnswers
  BY <1>1, <1>4, <1>7 DEF ScoresRestOnAnswers, AnswersUpTo, AnswersTo, UpTo, ScoreAt, AnswerOf
<1>. QED
  BY <1>3, <1>8 DEF ScoresHold

-----------------------------------------------------------------------------
(* The record stays well formed.                                            *)

RoundsInv == WellFormed(rounds) /\ current \in (Nat \ {0}) \cup {Absent}

LEMMA RecordIs ==
  ASSUME NEW s \in Sittings, NEW a \in Plan[s].answers
  PROVE  Record(s, a) \in Interview
<1>1. Plan[s] \in SittingType
  BY PlanAssumption
<1>2. /\ Plan[s].person \in People /\ Plan[s].name \in Names \cup {Unnamed} /\ Plan[s].role \in Roles
      /\ Plan[s].followUp \in BOOLEAN /\ Plan[s].refresh \in 0 .. MaxRound
  BY <1>1 DEF SittingType
<1>3. /\ a.scores \in [Dims -> {0} \cup Scores]
      /\ a.coverage \in {Absent} \cup Partial(0 .. 10)
      /\ a.tiers \in {Absent} \cup Partial(DOMAIN TierWeight)
      /\ a.says \in Partial(Claims)
  BY <1>1 DEF SittingType, Partial
<1>4. (Plan[s].by = "page" /\ Plan[s].refresh > 0) \in BOOLEAN
  OBVIOUS
<1>5. Record(s, a) \in InterviewType
  BY <1>2, <1>3, <1>4 DEF Record, InterviewType
<1>6. Theirs(Record(s, a), s)
  BY DEF Record, Theirs, PersonKey
<1>. QED
  BY <1>5, <1>6 DEF Interview

LEMMA LastIs ==
  ASSUME NEW R \in Seq(Round), R # <<>>
  PROVE  /\ Last(R).number \in Nat \ {0}
         /\ Max(Numbers(R)) \in Nat \ {0}
<1>1. Len(R) \in DOMAIN R
  OBVIOUS
<1>2. Last(R).number \in Nat \ {0}
  BY <1>1, RoundIs DEF Last
<1>3. Numbers(R) # {}
  BY <1>1 DEF Numbers
<1>4. Max(Numbers(R)) \in Numbers(R)
  BY <1>3, NumbersIs, MaxIs
<1>. QED
  BY <1>2, <1>4, NumbersIs

LEMMA TargetsAre ==
  ASSUME RoundsInv, NEW s \in Sittings
  PROVE  LinkRound(s) \in Nat \ {0} /\ PageRound(s) \in Nat \ {0}
<1>1. Plan[s].pin \in 0 .. MaxRound /\ Plan[s].refresh \in 0 .. MaxRound /\ MaxRound \in Nat
  BY PlanAssumption, RoundBoundAssumption DEF SittingType
<1>2. rounds # <<>> => Last(rounds).number \in Nat \ {0} /\ Max(Numbers(rounds)) \in Nat \ {0}
  BY LastIs DEF RoundsInv, WellFormed
<1>3. current # Absent => current \in Nat \ {0}
  BY DEF RoundsInv
<1>. QED
  BY <1>1, <1>2, <1>3 DEF LinkRound, PageRound

LEMMA Landing ==
  ASSUME RoundsInv, NEW n \in Nat \ {0}, NEW iv \in Interview, NEW by, Land(n, iv, by)
  PROVE  RoundsInv'
<1>1. rounds' = Upserted(n, iv, by) /\ current' = IF n \in Numbers(rounds) THEN current ELSE n
  BY DEF Land
<1>2. WellFormed(Upserted(n, iv, by))
  BY UpsertedIs DEF RoundsInv
<1>. QED
  BY <1>1, <1>2 DEF RoundsInv, WellFormed, Distinct, EmptyUnscored

\* The next round's number is no round's yet.
LEMMA NextIsNew ==
  ASSUME NEW R \in Seq(Round), NEW n, n = NextRoundNumber(R)
  PROVE  n \in Nat \ {0} /\ n \notin Numbers(R)
<1>1. PICK S : S = Numbers(R) \cup {0}
  OBVIOUS
<1>2. IsFiniteSet(S) /\ S # {} /\ \A x \in S : x \in Nat
  <2>1. IsFiniteSet(Numbers(R)) /\ \A x \in Numbers(R) : x \in Nat \ {0}
    BY NumbersIs
  <2>2. IsFiniteSet(S)
    BY <1>1, <2>1, FS_AddElement
  <2>. QED
    BY <1>1, <2>1, <2>2
<1>3. Max(S) \in S /\ \A y \in S : y <= Max(S)
  BY <1>2, MaxIs
<1>4. n = Max(S) + 1
  BY <1>1 DEF NextRoundNumber
<1>5. PICK m \in Nat : m = Max(S)
  BY <1>2, <1>3
<1>6. n = m + 1 /\ \A y \in Numbers(R) : y \in Nat /\ y <= m
  BY <1>1, <1>2, <1>3, <1>4, <1>5
<1>. QED
  BY <1>6

LEMMA RoundsStep ==
  ASSUME RoundsInv, [RoundsNext]_roundVars
  PROVE  RoundsInv'
<1>1. WellFormed(rounds) /\ rounds \in Seq(Round)
  BY DEF RoundsInv, WellFormed
<1>2. ASSUME NEW s \in Sittings, Link(s) PROVE RoundsInv'
  <2>1. PICK a \in Plan[s].answers : Land(LinkRound(s), Record(s, a), "link")
    BY <1>2 DEF Link
  <2>. QED
    BY <2>1, RecordIs, TargetsAre, Landing
<1>3. ASSUME NEW s \in Sittings, Run(s) PROVE RoundsInv'
  <2>1. PICK a \in Plan[s].answers : Land(PageRound(s), Record(s, a), "page")
    BY <1>3 DEF Run
  <2>. QED
    BY <2>1, RecordIs, TargetsAre, Landing
<1>4. CASE PlanRound
  <2>1. PICK n : n = NextRoundNumber(rounds)
    OBVIOUS
  <2>2. rounds' = Append(rounds, NoRound(n)) /\ current' = n
    BY <1>4, <2>1 DEF PlanRound
  <2>3. n \in Nat \ {0} /\ n \notin Numbers(rounds)
    BY <1>1, <2>1, NextIsNew
  <2>4. WellFormed(Append(rounds, NoRound(n)))
    BY <1>1, <2>3, AppendedIs
  <2>. QED
    BY <2>2, <2>3, <2>4 DEF RoundsInv, WellFormed, Distinct, EmptyUnscored
<1>5. CASE LoadSynthesis
  <2>1. rounds' = RecomputeAll(rounds) /\ current' = current
    BY <1>5 DEF LoadSynthesis
  <2>2. WellFormed(RecomputeAll(rounds))
    BY <1>1, RecomputedIs
  <2>. QED
    BY <2>1, <2>2 DEF RoundsInv, WellFormed, Distinct, EmptyUnscored
<1>6. ASSUME NEW i \in DOMAIN rounds, RenderDashboard(i) PROVE RoundsInv'
  <2>1. rounds' = Rescored(rounds, i) /\ current' = current /\ rounds[i].ivs # <<>>
    BY <1>6 DEF RenderDashboard
  <2>2. WellFormed(Rescored(rounds, i))
    BY <1>1, <2>1, RescoredIs
  <2>. QED
    BY <2>1, <2>2 DEF RoundsInv, WellFormed, Distinct, EmptyUnscored
<1>7. CASE CloseRound
  BY <1>7 DEF CloseRound, RoundsInv, WellFormed, Distinct, EmptyUnscored
<1>8. CASE UNCHANGED roundVars
  BY <1>8 DEF roundVars, RoundsInv, WellFormed, Distinct, EmptyUnscored
<1>. QED
  BY <1>2, <1>3, <1>4, <1>5, <1>6, <1>7, <1>8 DEF RoundsNext

LEMMA RoundsStart == RoundsInit => RoundsInv
<1>1. SUFFICES ASSUME rounds = <<>>, current = Absent PROVE RoundsInv
  BY DEF RoundsInit
<1>2. rounds \in Seq(Round) /\ DOMAIN rounds = {}
  BY <1>1
<1>. QED
  BY <1>1, <1>2 DEF RoundsInv, WellFormed, Distinct, EmptyUnscored

\* Whatever lands where and in whatever order, by whichever of the server, the
\* consultant's page and Synthesis, a round nobody sat has no score, no number
\* names two rounds, and once Synthesis has loaded every score is what scoring
\* that round again would give and lies between answers given up to it.
THEOREM MeasuredScores == RoundsSpec => []ScoresHold
<1>1. RoundsInv => ScoresHold
  BY ScoresRest DEF RoundsInv
<1>. QED
  BY RoundsStart, RoundsStep, <1>1, PTL DEF RoundsSpec

-----------------------------------------------------------------------------
(* What a step does to scores and interviews.                               *)

Fresh(R, i) == ComputeRoundScores(R[i].ivs, PriorScoresFor(R, R[i].number), Refreshes(R, i))

\* The scores of round i in R2 are what R gives.
FreshFrom(R, R2, i) == R2[i].scores = Fresh(R, i)

SameFresh(R, R2, i) == Fresh(R2, i) = Fresh(R, i)

\* R2 has the rounds of R and maybe more.
Extends(R, R2) ==
  /\ WellFormed(R) /\ WellFormed(R2)
  /\ DOMAIN R \subseteq DOMAIN R2
  /\ \A i \in DOMAIN R : R2[i].number = R[i].number

\* The rounds before i are those of R.
SameBefore(R, R2, i) ==
  \A j \in DOMAIN R2 : R2[j].number < R[i].number => j \in DOMAIN R /\ R2[j] = R[j]

LEMMA SettledMeans ==
  ASSUME NEW R, WellFormed(R), NEW i \in DOMAIN R
  PROVE  Settled(R, i) <=> FreshFrom(R, R, i)
<1>1. PICK s : s = Fresh(R, i)
  OBVIOUS
<1>2. R \in Seq(Round) /\ R[i] \in Round
  BY DEF WellFormed
<1>3. Rescored(R, i) = [R EXCEPT ![i].scores = s]
  BY <1>1 DEF Rescored, Fresh, Refreshes
<1>4. [R EXCEPT ![i].scores = s] = R <=> R[i].scores = s
  <2>1. [R EXCEPT ![i].scores = s][i].scores = s
    BY <1>2 DEF Round
  <2>2. ASSUME R[i].scores = s PROVE [R EXCEPT ![i].scores = s] = R
    BY <1>2, <2>2 DEF Round
  <2>. QED
    BY <2>1, <2>2
<1>. QED
  BY <1>1, <1>3, <1>4 DEF Settled, FreshFrom

LEMMA FreshSame ==
  ASSUME NEW R, NEW R2, Extends(R, R2), NEW i \in DOMAIN R, R2[i].ivs = R[i].ivs,
         SameBefore(R, R2, i)
  PROVE  SameFresh(R, R2, i)
<1>1. PICK n : n = R[i].number
  OBVIOUS
<1>2. /\ R \in Seq(Round) /\ R2 \in Seq(Round) /\ Distinct(R) /\ Distinct(R2)
      /\ DOMAIN R \subseteq DOMAIN R2 /\ n \in Nat /\ R2[i].number = n
      /\ \A j \in DOMAIN R : R2[j].number = R[j].number
  BY <1>1, RoundIs DEF Extends, WellFormed
<1>3. \A j \in DOMAIN R2 : R2[j].number < n => j \in DOMAIN R /\ R2[j] = R[j]
  BY <1>1 DEF SameBefore
<1>4. PriorScoresFor(R2, n) = PriorScoresFor(R, n)
  <2>1. \A d : Earlier(R2, n, d) = Earlier(R, n, d)
    BY <1>2, <1>3 DEF Earlier
  <2>2. \A j \in DOMAIN R : R[j].number < n => R2[j].scores = R[j].scores
    BY <1>2, <1>3
  <2>. QED
    BY <1>2, <2>1, <2>2, SamePrior
<1>5. ASSUME NEW Q \in Seq(Round), i \in DOMAIN Q, NEW l, l = LowestRoundNumber(Q)
      PROVE  l < n <=> \E j \in DOMAIN Q : Q[j].number < n
  <2>1. Q # <<>> /\ Numbers(Q) # {}
    BY <1>5 DEF Numbers
  <2>2. IsFiniteSet(Numbers(Q)) /\ \A x \in Numbers(Q) : x \in Nat
    BY NumbersIs
  <2>3. l = Min(Numbers(Q))
    BY <1>5, <2>1 DEF LowestRoundNumber
  <2>4. l \in Numbers(Q) /\ \A x \in Numbers(Q) : l <= x
    BY <2>1, <2>2, <2>3, MinIs
  <2>5. ASSUME NEW j \in DOMAIN Q, Q[j].number < n PROVE l < n
    <3>1. Q[j].number \in Numbers(Q)
      BY DEF Numbers
    <3>. QED
      BY <1>2, <2>2, <2>4, <2>5, <3>1
  <2>6. \E j \in DOMAIN Q : Q[j].number = l
    BY <2>4 DEF Numbers
  <2>. QED
    BY <2>5, <2>6
<1>6. LowestRoundNumber(R) < n <=> LowestRoundNumber(R2) < n
  <2>1. LowestRoundNumber(R) < n <=> \E j \in DOMAIN R : R[j].number < n
    BY <1>2, <1>5
  <2>2. LowestRoundNumber(R2) < n <=> \E j \in DOMAIN R2 : R2[j].number < n
    BY <1>2, <1>5
  <2>3. (\E j \in DOMAIN R : R[j].number < n) <=> \E j \in DOMAIN R2 : R2[j].number < n
    BY <1>2, <1>3
  <2>. QED
    BY <2>1, <2>2, <2>3
<1>7. ASSUME NEW Q \in Seq(Round), i \in DOMAIN Q PROVE LowestRoundNumber(Q) \in Nat
  <2>1. Q # <<>> /\ Numbers(Q) # {}
    BY <1>7 DEF Numbers
  <2>. QED
    BY <2>1, NumbersIs, MinIs DEF LowestRoundNumber
<1>8. Refreshes(R2, i) = Refreshes(R, i)
  <2>1. n > LowestRoundNumber(R) <=> n > LowestRoundNumber(R2)
    <3>1. LowestRoundNumber(R) \in Nat /\ LowestRoundNumber(R2) \in Nat
      BY <1>2, <1>7
    <3>. QED
      BY <1>2, <1>6, <3>1
  <2>. QED
    BY <1>1, <1>2, <2>1 DEF Refreshes, IsRefreshRound
<1>. QED
  BY <1>1, <1>2, <1>4, <1>8, Zenon DEF SameFresh, Fresh

\* A round with an interview is left as it was, or as scoring it gives.
Moves(R, R2) ==
  /\ Extends(R, R2)
  /\ \A i \in DOMAIN R : R[i].ivs # <<>> =>
       /\ R2[i].ivs # <<>>
       /\ R2[i] = R[i] \/ Settled(R2, i)

\* Scores go out of date only behind a round written to late.
StaleOnly(R, R2) ==
  \A i \in DOMAIN R :
    Settled(R, i) /\ Interviewed(R, i) /\ ~Settled(R2, i)
      => \E j \in DOMAIN R2 : R2[j].number < R[i].number /\ (j \in DOMAIN R => R2[j] # R[j])

LEMMA MovesStale ==
  ASSUME NEW R, NEW R2, Moves(R, R2)
  PROVE  StaleOnly(R, R2)
<1>1. SUFFICES ASSUME NEW i \in DOMAIN R, Settled(R, i), Interviewed(R, i), SameBefore(R, R2, i)
               PROVE  Settled(R2, i)
  BY DEF StaleOnly, SameBefore
<1>2. Extends(R, R2) /\ (R2[i] = R[i] \/ Settled(R2, i))
  BY <1>1 DEF Moves, Interviewed
<1>3. CASE R2[i] = R[i]
  <2>1. R2[i].ivs = R[i].ivs /\ R2[i].scores = R[i].scores
    BY <1>3
  <2>2. SameFresh(R, R2, i)
    BY <1>1, <1>2, <2>1, FreshSame
  <2>3. FreshFrom(R, R, i)
    BY <1>1, <1>2, SettledMeans DEF Extends
  <2>4. FreshFrom(R2, R2, i)
    BY <2>1, <2>2, <2>3, Zenon DEF FreshFrom, SameFresh
  <2>. QED
    BY <1>2, <2>4, SettledMeans DEF Extends
<1>. QED
  BY <1>2, <1>3

\* Everyone interviewed said something, and it was scored.
Telling(ivs) == \A k \in DOMAIN ivs : \E d \in Dims : AnswerOf(ivs, d, k) > 0

AllTold(R) == \A i \in DOMAIN R : R[i].ivs # <<>> => Telling(R[i].ivs)

Carded(R) == AllTold(R) /\ \A i \in DOMAIN R : R[i].ivs # <<>> => DOMAIN R[i].scores # {}

LEMMA FreshIs ==
  ASSUME NEW R, WellFormed(R), NEW i \in DOMAIN R
  PROVE  /\ Fresh(R, i) \in Partial(Int)
         /\ R[i].ivs # <<>> /\ Telling(R[i].ivs) => DOMAIN Fresh(R, i) # {}
<1>1. /\ R \in Seq(Round) /\ Distinct(R) /\ R[i].number \in Nat /\ R[i].ivs \in Seq(Interview)
  BY RoundIs DEF WellFormed
<1>2. PICK p : p = PriorScoresFor(R, R[i].number)
  OBVIOUS
<1>3. p \in Partial(Int)
  BY <1>1, <1>2, PriorIs
<1>4. PICK r \in BOOLEAN : r = Refreshes(R, i)
  BY RefreshesType
<1>5. PICK ivs \in Seq(Interview) : ivs = R[i].ivs
  BY <1>1
<1>6. PICK s : s = ComputeRoundScores(ivs, p, r)
  OBVIOUS
<1>7. s \in Partial(Int) /\ DOMAIN s = {d \in Dims : HasAnswer(ivs, d)} \cup DOMAIN p
  BY <1>3, <1>6, ComputeIs
<1>8. s = Fresh(R, i)
  BY <1>2, <1>4, <1>5, <1>6, Zenon DEF Fresh
<1>9. ASSUME ivs # <<>>, Telling(ivs) PROVE DOMAIN s # {}
  <2>1. 1 \in DOMAIN ivs
    BY <1>9
  <2>2. PICK d \in Dims : AnswerOf(ivs, d, 1) > 0
    BY <1>9, <2>1 DEF Telling
  <2>3. HasAnswer(ivs, d)
    BY <2>1, <2>2 DEF HasAnswer, Entries
  <2>. QED
    BY <1>7, <2>3
<1>. QED
  BY <1>5, <1>7, <1>8, <1>9

\* B is R with round i scored.
Rescoring(R, i, B) ==
  /\ Moves(R, B) /\ Settled(B, i) /\ B[i].ivs = R[i].ivs
  /\ DOMAIN B = DOMAIN R /\ B[i].number = R[i].number
  /\ \A j \in DOMAIN R : j # i => B[j] = R[j]
  /\ AllTold(R) => DOMAIN B[i].scores # {}

LEMMA RescoredMoves ==
  ASSUME NEW R, WellFormed(R), NEW i \in DOMAIN R, R[i].ivs # <<>>
  PROVE  Rescoring(R, i, Rescored(R, i))
<1> SUFFICES ASSUME NEW B, B = Rescored(R, i) PROVE Rescoring(R, i, B)
  BY Zenon
<1>1. PICK s : s = Fresh(R, i)
  OBVIOUS
<1>2. s \in Partial(Int) /\ (AllTold(R) => DOMAIN s # {})
  BY <1>1, FreshIs DEF AllTold
<1>3. B = WithScores(R, i, s)
  BY <1>1 DEF Rescored, Fresh, Refreshes, WithScores
<1>4. R \in Seq(Round) /\ Distinct(R) /\ SameRounds(R, R)
  BY DEF WellFormed, SameRounds
<1>5. SameRounds(R, B) /\ B[i].scores = s /\ \A j \in DOMAIN R : j # i => B[j] = R[j]
  BY <1>2, <1>3, <1>4, ReplacedIs
<1>6. WellFormed(B)
  <2>1. WellFormed(Rescored(R, i))
    BY RescoredIs
  <2>. QED
    BY <2>1, Zenon
<1>7. DOMAIN B = DOMAIN R /\ \A j \in DOMAIN R : B[j].number = R[j].number /\ B[j].ivs = R[j].ivs
  BY <1>4, <1>5, SameRoundsIs DEF SameRounds
<1>8. Extends(R, B)
  BY <1>6, <1>7 DEF Extends
<1>9. SameBefore(R, B, i)
  <2>1. R[i].number \in Nat
    BY <1>4, RoundIs
  <2>. QED
    BY <1>5, <1>7, <2>1 DEF SameBefore
<1>10. SameFresh(R, B, i)
  BY <1>7, <1>8, <1>9, FreshSame
<1>11. Settled(B, i)
  <2>1. FreshFrom(B, B, i)
    BY <1>1, <1>5, <1>10, Zenon DEF FreshFrom, SameFresh
  <2>. QED
    BY <1>6, <1>7, <2>1, SettledMeans
<1>12. Moves(R, B)
  BY <1>5, <1>7, <1>8, <1>11 DEF Moves
<1>. QED
  BY <1>2, <1>5, <1>7, <1>11, <1>12 DEF Rescoring

\* B is R with a round that has no interview.
Appending(R, B) ==
  /\ Moves(R, B) /\ \A i \in DOMAIN R : B[i] = R[i]
  /\ \A i \in DOMAIN B : i \in DOMAIN R \/ B[i].ivs = <<>>

LEMMA AppendedMoves ==
  ASSUME NEW R, WellFormed(R), NEW n \in Nat \ {0}, n \notin Numbers(R)
  PROVE  Appending(R, Append(R, NoRound(n)))
<1> SUFFICES ASSUME NEW B, B = Append(R, NoRound(n)) PROVE Appending(R, B)
  BY Zenon
<1>1. R \in Seq(Round) /\ Len(R) \in Nat
  BY DEF WellFormed
<1>2. /\ DOMAIN R = 1 .. Len(R) /\ DOMAIN B = 1 .. (Len(R) + 1)
      /\ B[Len(R) + 1] = NoRound(n) /\ \A i \in DOMAIN R : B[i] = R[i]
  BY <1>1
<1>3. WellFormed(B)
  <2>1. WellFormed(Append(R, NoRound(n)))
    BY AppendedIs
  <2>. QED
    BY <2>1, Zenon
<1>4. \A i \in DOMAIN B : i \in DOMAIN R \/ i = Len(R) + 1
  BY <1>1, <1>2
<1>5. NoRound(n).ivs = <<>>
  BY DEF NoRound
<1>6. Extends(R, B)
  BY <1>1, <1>2, <1>3 DEF Extends
<1>. QED
  BY <1>2, <1>4, <1>5, <1>6 DEF Moves, Appending

LEMMA RecomputedMoves ==
  ASSUME NEW R, WellFormed(R)
  PROVE  Moves(R, RecomputeAll(R)) /\ (AllTold(R) => Carded(RecomputeAll(R)))
<1> SUFFICES ASSUME NEW B, B = RecomputeAll(R) PROVE Moves(R, B) /\ (AllTold(R) => Carded(B))
  BY Zenon
<1>1. R \in Seq(Round) /\ Distinct(R) /\ EmptyUnscored(R)
  BY DEF WellFormed
<1>2. SameRounds(R, B) /\ \A i \in DOMAIN R : R[i].ivs # <<>> => Scored(R, B, i)
  <2>1. /\ SameRounds(R, RecomputeAll(R))
        /\ \A i \in DOMAIN R : R[i].ivs # <<>> => Scored(R, RecomputeAll(R), i)
    BY <1>1, RecomputeAllIs
  <2>. QED
    BY <2>1, Zenon
<1>3. WellFormed(B)
  <2>1. WellFormed(RecomputeAll(R))
    BY RecomputedIs
  <2>. QED
    BY <2>1, Zenon
<1>4. DOMAIN B = DOMAIN R /\ \A j \in DOMAIN R : B[j].number = R[j].number /\ B[j].ivs = R[j].ivs
  BY <1>1, <1>2, SameRoundsIs DEF SameRounds
<1>5. ASSUME NEW i \in DOMAIN R, R[i].ivs # <<>> PROVE Settled(B, i)
  BY <1>1, <1>2, <1>5, SettledIs
<1>6. Moves(R, B)
  BY <1>3, <1>4, <1>5 DEF Moves, Extends
<1>7. ASSUME AllTold(R) PROVE Carded(B)
  <2>1. AllTold(B)
    BY <1>4, <1>7 DEF AllTold
  <2>2. ASSUME NEW i \in DOMAIN B, B[i].ivs # <<>> PROVE DOMAIN B[i].scores # {}
    <3>1. Settled(B, i)
      BY <1>4, <1>5, <2>2
    <3>2. FreshFrom(B, B, i)
      BY <1>3, <2>2, <3>1, SettledMeans
    <3>3. DOMAIN Fresh(B, i) # {}
      BY <1>3, <2>1, <2>2, FreshIs DEF AllTold
    <3>. QED
      BY <3>2, <3>3 DEF FreshFrom
  <2>. QED
    BY <2>1, <2>2 DEF Carded
<1>. QED
  BY <1>6, <1>7

-----------------------------------------------------------------------------
(* The card follows the answers.                                            *)

LEMMA MovesAfter ==
  ASSUME NEW R, NEW C, NEW B, Extends(R, C), \A i \in DOMAIN R : C[i] = R[i], Moves(C, B)
  PROVE  Moves(R, B)
<1>1. Extends(C, B)
  BY DEF Moves
<1>2. Extends(R, B)
  BY <1>1 DEF Extends
<1>3. ASSUME NEW i \in DOMAIN R, R[i].ivs # <<>>
      PROVE  B[i].ivs # <<>> /\ (B[i] = R[i] \/ Settled(B, i))
  <2>1. i \in DOMAIN C /\ C[i] = R[i]
    BY DEF Extends
  <2>. QED
    BY <1>3, <2>1 DEF Moves
<1>. QED
  BY <1>2, <1>3 DEF Moves

LEMMA SameMoves ==
  ASSUME NEW R, WellFormed(R)
  PROVE  Moves(R, R)
BY DEF Moves, Extends

\* An interview put in a round of a record, and the round scored.
LEMMA LandedMoves ==
  ASSUME NEW R, WellFormed(R), NEW i \in DOMAIN R, NEW ivs \in Seq(Interview), ivs # <<>>,
         NEW B, B = Rescored([R EXCEPT ![i].ivs = ivs], i)
  PROVE  /\ Moves(R, B)
         /\ Carded(R) /\ Telling(ivs) => Carded(B)
<1>1. PICK C : C = [R EXCEPT ![i].ivs = ivs]
  OBVIOUS
<1>2. R \in Seq(Round) /\ Distinct(R) /\ EmptyUnscored(R) /\ R[i] \in Round
  BY DEF WellFormed
<1>3. [R[i] EXCEPT !.ivs = ivs] \in Round
  BY <1>2 DEF Round
<1>4. /\ C \in Seq(Round) /\ DOMAIN C = DOMAIN R /\ C[i] = [R[i] EXCEPT !.ivs = ivs]
      /\ \A j \in DOMAIN R : j # i => C[j] = R[j]
  BY <1>1, <1>2, <1>3
<1>5. C[i].ivs = ivs /\ C[i].number = R[i].number
  BY <1>2, <1>4 DEF Round
<1>6. WellFormed(C)
  <2>1. Distinct(C)
    BY <1>2, <1>4, <1>5 DEF Distinct
  <2>2. EmptyUnscored(C)
    BY <1>2, <1>4, <1>5 DEF EmptyUnscored
  <2>. QED
    BY <1>4, <2>1, <2>2 DEF WellFormed
<1>7. /\ Moves(C, B) /\ Settled(B, i) /\ B[i].ivs = ivs
      /\ DOMAIN B = DOMAIN C /\ B[i].number = C[i].number
      /\ \A j \in DOMAIN C : j # i => B[j] = C[j]
      /\ AllTold(C) => DOMAIN B[i].scores # {}
  <2>1. B = Rescored(C, i) /\ i \in DOMAIN C /\ C[i].ivs # <<>>
    BY <1>1, <1>4, <1>5
  <2>2. /\ Moves(C, B) /\ Settled(B, i) /\ B[i].ivs = C[i].ivs
        /\ DOMAIN B = DOMAIN C /\ B[i].number = C[i].number
        /\ \A j \in DOMAIN C : j # i => B[j] = C[j]
        /\ AllTold(C) => DOMAIN B[i].scores # {}
    <3>1. Rescoring(C, i, Rescored(C, i))
      BY <1>6, <2>1, RescoredMoves
    <3>2. Rescoring(C, i, B)
      BY <2>1, <3>1, Zenon
    <3>. QED
      BY <3>2 DEF Rescoring
  <2>. QED
    BY <1>5, <2>2
<1>8. WellFormed(B)
  BY <1>7 DEF Moves, Extends
<1>9. /\ DOMAIN B = DOMAIN R /\ B[i].number = R[i].number
      /\ \A j \in DOMAIN R : j # i => B[j] = R[j]
  BY <1>4, <1>5, <1>7
<1>10. Extends(R, B)
  <2>1. \A j \in DOMAIN R : B[j].number = R[j].number
    BY <1>9
  <2>. QED
    BY <1>8, <1>9, <2>1 DEF Extends
<1>11. Moves(R, B)
  <2>1. \A j \in DOMAIN R : R[j].ivs # <<>> => B[j].ivs # <<>> /\ (B[j] = R[j] \/ Settled(B, j))
    BY <1>7, <1>9
  <2>. QED
    BY <1>10, <2>1 DEF Moves
<1>12. ASSUME Carded(R), Telling(ivs) PROVE Carded(B)
  <2>1. AllTold(C)
    <3>1. ASSUME NEW j \in DOMAIN C, C[j].ivs # <<>> PROVE Telling(C[j].ivs)
      <4>1. CASE j = i
        BY <1>5, <1>12, <4>1
      <4>2. CASE j # i
        <5>1. j \in DOMAIN R /\ C[j] = R[j]
          BY <1>4, <4>2
        <5>. QED
          BY <1>12, <3>1, <5>1 DEF Carded, AllTold
      <4>. QED
        BY <4>1, <4>2
    <3>. QED
      BY <3>1 DEF AllTold
  <2>2. ASSUME NEW j \in DOMAIN B, B[j].ivs # <<>>
        PROVE  Telling(B[j].ivs) /\ DOMAIN B[j].scores # {}
    <3>1. CASE j = i
      BY <1>7, <1>12, <2>1, <3>1
    <3>2. CASE j # i
      <4>1. j \in DOMAIN R /\ B[j] = R[j]
        BY <1>9, <3>2
      <4>. QED
        BY <1>12, <2>2, <4>1 DEF Carded, AllTold
    <3>. QED
      BY <3>1, <3>2
  <2>. QED
    BY <2>2 DEF Carded, AllTold
<1>. QED
  BY <1>11, <1>12

\* An interview that answered something.
Speaks(iv) == \E d \in Dims : iv.scores[d] > 0

LEMMA SpeaksAt ==
  ASSUME NEW ivs, NEW k, NEW iv, ivs[k] = iv, Speaks(iv)
  PROVE  \E d \in Dims : AnswerOf(ivs, d, k) > 0
<1>1. PICK d \in Dims : iv.scores[d] > 0
  BY DEF Speaks
<1>2. AnswerOf(ivs, d, k) = iv.scores[d]
  BY DEF AnswerOf
<1>. QED
  BY <1>1, <1>2

LEMMA SaidAt ==
  ASSUME NEW ivs, NEW k, NEW old, ivs[k] = old[k], \E d \in Dims : AnswerOf(old, d, k) > 0
  PROVE  \E d \in Dims : AnswerOf(ivs, d, k) > 0
<1>1. PICK d \in Dims : AnswerOf(old, d, k) > 0
  OBVIOUS
<1>2. AnswerOf(ivs, d, k) = AnswerOf(old, d, k)
  BY DEF AnswerOf
<1>. QED
  BY <1>1, <1>2

LEMMA UpsertedMoves ==
  ASSUME WellFormed(rounds), NEW n \in Nat \ {0}, NEW iv \in Interview, NEW by
  PROVE  /\ Moves(rounds, Upserted(n, iv, by))
         /\ Carded(rounds) /\ Speaks(iv) => Carded(Upserted(n, iv, by))
<1>1. PICK R : R = WithRound(n)
  OBVIOUS
<1>2. /\ WellFormed(R) /\ \E j \in DOMAIN R : R[j].number = n
      /\ Extends(rounds, R) /\ \A j \in DOMAIN rounds : R[j] = rounds[j]
      /\ \A j \in DOMAIN R : j \in DOMAIN rounds \/ R[j].ivs = <<>>
  <2>1. CASE n \in Numbers(rounds)
    BY <1>1, <2>1 DEF WithRound, Numbers, Extends
  <2>2. CASE n \notin Numbers(rounds)
    <3>1. R = Append(rounds, NoRound(n))
      BY <1>1, <2>2 DEF WithRound
    <3>2. /\ Moves(rounds, R) /\ \A j \in DOMAIN rounds : R[j] = rounds[j]
          /\ \A j \in DOMAIN R : j \in DOMAIN rounds \/ R[j].ivs = <<>>
      <4>1. WellFormed(rounds) /\ n \in Nat \ {0} /\ n \notin Numbers(rounds)
        BY <2>2
      <4>. QED
        <5>1. Appending(rounds, Append(rounds, NoRound(n)))
          BY <4>1, AppendedMoves
        <5>2. Appending(rounds, R)
          BY <3>1, <5>1, Zenon
        <5>. QED
          BY <5>2 DEF Appending
    <3>3. rounds \in Seq(Round) /\ Len(rounds) \in Nat
      BY DEF WellFormed
    <3>4. DOMAIN R = 1 .. (Len(rounds) + 1) /\ R[Len(rounds) + 1] = NoRound(n)
      BY <3>1, <3>3
    <3>5. NoRound(n).number = n /\ Len(rounds) + 1 \in DOMAIN R
      BY <3>3, <3>4 DEF NoRound
    <3>6. Extends(rounds, R) /\ WellFormed(R)
      BY <3>2 DEF Moves, Extends
    <3>. QED
      BY <3>2, <3>4, <3>5, <3>6
  <2>. QED
    BY <2>1, <2>2
<1>3. PICK i : i = CHOOSE j \in DOMAIN R : R[j].number = n
  OBVIOUS
<1>4. i \in DOMAIN R
  BY <1>2, <1>3
<1>5. PICK old : old = R[i].ivs
  OBVIOUS
<1>6. old \in Seq(Interview)
  BY <1>2, <1>4, <1>5, RoundIs DEF WellFormed
<1>7. PICK found : found = {k \in DOMAIN old : Matches(by, old[k], iv)}
  OBVIOUS
<1>8. PICK ivs : ivs = IF found = {} THEN Append(old, iv) ELSE [old EXCEPT ![Min(found)] = iv]
  OBVIOUS
<1>9. /\ ivs \in Seq(Interview) /\ ivs # <<>>
      /\ \A k \in DOMAIN ivs : ivs[k] = iv \/ (k \in DOMAIN old /\ ivs[k] = old[k])
  <2>1. CASE found = {}
    <3>1. ivs = Append(old, iv)
      BY <1>8, <2>1
    <3>2. /\ Len(old) \in Nat /\ DOMAIN old = 1 .. Len(old) /\ DOMAIN ivs = 1 .. (Len(old) + 1)
          /\ ivs[Len(old) + 1] = iv /\ \A k \in DOMAIN old : ivs[k] = old[k]
          /\ ivs \in Seq(Interview) /\ ivs # <<>>
      BY <1>6, <3>1
    <3>3. \A k \in DOMAIN ivs : k \in DOMAIN old \/ k = Len(old) + 1
      BY <3>2
    <3>. QED
      BY <3>2, <3>3
  <2>2. CASE found # {}
    <3>1. IsFiniteSet(found) /\ \A k \in found : k \in Int
      BY <1>6, <1>7, PositionsFinite, FS_Subset
    <3>2. Min(found) \in found
      BY <2>2, <3>1, MinIs
    <3>3. PICK k \in DOMAIN old : k = Min(found)
      BY <1>7, <3>2
    <3>4. ivs = [old EXCEPT ![k] = iv]
      BY <1>8, <2>2, <3>3
    <3>5. /\ ivs \in Seq(Interview) /\ ivs # <<>> /\ DOMAIN ivs = DOMAIN old /\ ivs[k] = iv
          /\ \A l \in DOMAIN old : l # k => ivs[l] = old[l]
      BY <1>6, <3>3, <3>4
    <3>. QED
      BY <3>5
  <2>. QED
    BY <2>1, <2>2
<1>10. PICK B : B = Rescored([R EXCEPT ![i].ivs = ivs], i)
  OBVIOUS
<1>11. Upserted(n, iv, by) = B
  <2>1. Upserted(n, iv, by) = Rescored([R EXCEPT ![i].ivs = ivs], i)
    BY <1>1, <1>3, <1>5, <1>7, <1>8 DEF Upserted
  <2>. QED
    BY <1>10, <2>1, Zenon
<1>12. Moves(R, B) /\ (Carded(R) /\ Telling(ivs) => Carded(B))
  BY <1>2, <1>4, <1>9, <1>10, LandedMoves
<1>13. Moves(rounds, B)
  BY <1>2, <1>12, MovesAfter
<1>14. ASSUME Carded(rounds), Speaks(iv) PROVE Carded(B)
  <2>1. ASSUME NEW j \in DOMAIN R, R[j].ivs # <<>> PROVE Telling(R[j].ivs) /\ DOMAIN R[j].scores # {}
    <3>1. j \in DOMAIN rounds /\ R[j] = rounds[j]
      BY <1>2, <2>1
    <3>. QED
      BY <1>14, <2>1, <3>1 DEF Carded, AllTold
  <2>2. Carded(R)
    BY <2>1 DEF Carded, AllTold
  <2>3. ASSUME NEW k \in DOMAIN ivs PROVE \E d \in Dims : AnswerOf(ivs, d, k) > 0
    <3>1. CASE ivs[k] = iv
      BY <1>14, <3>1, SpeaksAt
    <3>2. CASE k \in DOMAIN old /\ ivs[k] = old[k]
      <4>1. old # <<>>
        BY <1>6, <3>2
      <4>2. Telling(old)
        BY <1>4, <1>5, <2>1, <4>1
      <4>. QED
        BY <3>2, <4>2, SaidAt DEF Telling
    <3>. QED
      BY <1>9, <3>1, <3>2
  <2>4. Telling(ivs)
    BY <2>3 DEF Telling
  <2>. QED
    BY <1>12, <2>2, <2>4
<1>. QED
  BY <1>11, <1>13, <1>14

-----------------------------------------------------------------------------
(* Every step moves the record, and the card with it.                       *)

LEMMA RecordSpeaks ==
  ASSUME EveryoneAnswers, NEW s \in Sittings, NEW a \in Plan[s].answers
  PROVE  Speaks(Record(s, a))
<1>1. PICK d \in Dims : a.scores[d] > 0
  BY DEF EveryoneAnswers
<1>2. Record(s, a).scores[d] = a.scores[d]
  BY DEF Record
<1>. QED
  BY <1>1, <1>2 DEF Speaks

LEMMA AppendedCarded ==
  ASSUME NEW R, NEW B, Appending(R, B), Carded(R)
  PROVE  Carded(B)
<1>1. ASSUME NEW j \in DOMAIN B, B[j].ivs # <<>>
      PROVE  Telling(B[j].ivs) /\ DOMAIN B[j].scores # {}
  <2>1. j \in DOMAIN R /\ B[j] = R[j]
    BY <1>1 DEF Appending
  <2>. QED
    BY <1>1, <2>1 DEF Carded, AllTold
<1>. QED
  BY <1>1 DEF Carded, AllTold

LEMMA RescoredCarded ==
  ASSUME NEW R, NEW i \in DOMAIN R, R[i].ivs # <<>>, NEW B, Rescoring(R, i, B), Carded(R)
  PROVE  Carded(B)
<1>1. ASSUME NEW j \in DOMAIN B, B[j].ivs # <<>>
      PROVE  Telling(B[j].ivs) /\ DOMAIN B[j].scores # {}
  <2>1. j \in DOMAIN R
    BY DEF Rescoring
  <2>2. CASE j = i
    BY <2>2 DEF Rescoring, Carded, AllTold
  <2>3. CASE j # i
    <3>1. B[j] = R[j]
      BY <2>1, <2>3 DEF Rescoring
    <3>. QED
      BY <1>1, <2>1, <3>1 DEF Carded, AllTold
  <2>. QED
    BY <2>2, <2>3
<1>. QED
  BY <1>1 DEF Carded, AllTold

\* A step moves R to B, and keeps the card when everyone answers.
Advances(R, B) == Moves(R, B) /\ (EveryoneAnswers /\ Carded(R) => Carded(B))

LEMMA RoundsAdvance ==
  ASSUME RoundsInv, [RoundsNext]_roundVars
  PROVE  Advances(rounds, rounds')
<1>1. WellFormed(rounds) /\ rounds \in Seq(Round)
  BY DEF RoundsInv, WellFormed
<1>2. ASSUME NEW s \in Sittings, NEW a \in Plan[s].answers, NEW n \in Nat \ {0}, NEW by,
             Land(n, Record(s, a), by)
      PROVE  Advances(rounds, rounds')
  <2>1. PICK iv \in Interview : iv = Record(s, a)
    BY RecordIs
  <2>2. EveryoneAnswers => Speaks(iv)
    BY <2>1, RecordSpeaks, Zenon
  <2>3. Advances(rounds, Upserted(n, iv, by))
    BY <1>1, <2>2, UpsertedMoves DEF Advances
  <2>4. rounds' = Upserted(n, iv, by)
    BY <1>2, <2>1, Zenon DEF Land
  <2>. QED
    BY <2>3, <2>4, Zenon
<1>3. ASSUME NEW s \in Sittings, Link(s) PROVE Advances(rounds, rounds')
  <2>1. PICK a \in Plan[s].answers : Land(LinkRound(s), Record(s, a), "link")
    BY <1>3 DEF Link
  <2>. QED
    BY <1>2, <2>1, TargetsAre
<1>4. ASSUME NEW s \in Sittings, Run(s) PROVE Advances(rounds, rounds')
  <2>1. PICK a \in Plan[s].answers : Land(PageRound(s), Record(s, a), "page")
    BY <1>4 DEF Run
  <2>. QED
    BY <1>2, <2>1, TargetsAre
<1>5. CASE PlanRound
  <2>1. PICK n : n = NextRoundNumber(rounds)
    OBVIOUS
  <2>2. rounds' = Append(rounds, NoRound(n))
    BY <1>5, <2>1 DEF PlanRound
  <2>3. n \in Nat \ {0} /\ n \notin Numbers(rounds)
    BY <1>1, <2>1, NextIsNew
  <2>4. Appending(rounds, Append(rounds, NoRound(n)))
    BY <1>1, <2>3, AppendedMoves
  <2>5. Appending(rounds, rounds')
    BY <2>2, <2>4, Zenon
  <2>. QED
    BY <2>5, AppendedCarded DEF Advances, Appending
<1>6. CASE LoadSynthesis
  <2>1. rounds' = RecomputeAll(rounds)
    BY <1>6 DEF LoadSynthesis
  <2>2. Advances(rounds, RecomputeAll(rounds))
    BY <1>1, RecomputedMoves DEF Advances, Carded
  <2>. QED
    BY <2>1, <2>2, Zenon
<1>7. ASSUME NEW i \in DOMAIN rounds, RenderDashboard(i) PROVE Advances(rounds, rounds')
  <2>1. rounds' = Rescored(rounds, i) /\ rounds[i].ivs # <<>>
    BY <1>7 DEF RenderDashboard
  <2>2. Rescoring(rounds, i, Rescored(rounds, i))
    BY <1>1, <2>1, RescoredMoves
  <2>3. Rescoring(rounds, i, rounds')
    BY <2>1, <2>2, Zenon
  <2>. QED
    BY <2>1, <2>3, RescoredCarded DEF Advances, Rescoring
<1>8. CASE rounds' = rounds
  <2>1. Advances(rounds, rounds)
    BY <1>1, SameMoves DEF Advances
  <2>. QED
    BY <1>8, <2>1, Zenon
<1>9. CASE CloseRound
  BY <1>8, <1>9 DEF CloseRound
<1>10. CASE UNCHANGED roundVars
  BY <1>8, <1>10 DEF roundVars
<1>. QED
  BY <1>3, <1>4, <1>5, <1>6, <1>7, <1>9, <1>10 DEF RoundsNext

\* The latest of some rounds is one of them, and the one of the highest number.
LEMMA LatestIs ==
  ASSUME NEW R \in Seq(Round), Distinct(R), NEW S \in SUBSET DOMAIN R, S # {}
  PROVE  /\ Latest(R, S) \in S
         /\ \A j \in S : R[j].number <= R[Latest(R, S)].number
<1>1. PICK f : f = [i \in S |-> R[i].number]
  OBVIOUS
<1>2. IsFiniteSet(S)
  BY PositionsFinite, FS_Subset
<1>3. \A j \in S : f[j] = R[j].number /\ R[j].number \in Nat /\ j \in Nat
  BY <1>1, RoundIs, PositionsFinite
<1>4. PICK x \in S : \A y \in S : f[y] <= f[x]
  <2>1. \A x \in S : f[x] \in Int
    BY <1>3
  <2>. QED
    BY <1>2, <2>1, Greatest
<1>5. \A j \in S : ~Before(R, x, j)
  BY <1>3, <1>4 DEF Before, Distinct
<1>6. PICK l : l = Latest(R, S)
  OBVIOUS
<1>7. l \in S /\ \A j \in S : ~Before(R, l, j)
  BY <1>5, <1>6 DEF Latest
<1>8. \A j \in S : R[j].number <= R[l].number
  BY <1>3, <1>7 DEF Before
<1>. QED
  BY <1>6, <1>7, <1>8

\* The round the card shows.
CardRound(R) == R[Latest(R, ScoredRounds(R))].number

LEMMA CardIs ==
  ASSUME NEW R
  PROVE  /\ \A card \in Scorecard(R) : ScoredRounds(R) # {} /\ card.round = CardRound(R)
         /\ ScoredRounds(R) # {} => \E card \in Scorecard(R) : card.round = CardRound(R)
<1>1. CardOf(R).round = CardRound(R)
  BY DEF CardOf, CardRound
<1>. QED
  BY <1>1 DEF Scorecard

LEMMA CardAdvances ==
  ASSUME NEW R, NEW B, Moves(R, B), Carded(B), NEW card \in Scorecard(R)
  PROVE  \E next \in Scorecard(B) : next.round >= card.round
<1>1. /\ R \in Seq(Round) /\ Distinct(R) /\ EmptyUnscored(R) /\ B \in Seq(Round) /\ Distinct(B)
      /\ Extends(R, B)
  BY DEF Moves, Extends, WellFormed
<1>2. ScoredRounds(R) # {} /\ card.round = CardRound(R)
  BY CardIs
<1>3. PICK l : l = Latest(R, ScoredRounds(R))
  OBVIOUS
<1>4. l \in DOMAIN R /\ DOMAIN R[l].scores # {} /\ CardRound(R) = R[l].number
  <2>1. ScoredRounds(R) \in SUBSET DOMAIN R
    BY DEF ScoredRounds
  <2>2. l \in ScoredRounds(R)
    BY <1>1, <1>2, <1>3, <2>1, LatestIs
  <2>. QED
    BY <1>3, <2>2 DEF ScoredRounds, CardRound
<1>5. l \in DOMAIN B /\ B[l].ivs # <<>> /\ B[l].number = R[l].number
  BY <1>1, <1>4 DEF EmptyUnscored, Moves, Extends
<1>6. l \in ScoredRounds(B)
  BY <1>5 DEF Carded, ScoredRounds
<1>7. B[l].number <= CardRound(B)
  <2>1. ScoredRounds(B) \in SUBSET DOMAIN B
    BY DEF ScoredRounds
  <2>. QED
    BY <1>1, <1>6, <2>1, LatestIs DEF CardRound
<1>8. CardRound(B) \in Nat /\ B[l].number \in Nat
  <2>1. ScoredRounds(B) \in SUBSET DOMAIN B
    BY DEF ScoredRounds
  <2>2. Latest(B, ScoredRounds(B)) \in DOMAIN B
    BY <1>1, <1>6, <2>1, LatestIs
  <2>. QED
    BY <1>1, <1>5, <2>2, RoundIs DEF CardRound
<1>9. PICK next \in Scorecard(B) : next.round = CardRound(B)
  BY <1>6, CardIs
<1>. QED
  BY <1>2, <1>4, <1>5, <1>7, <1>8, <1>9

LEMMA CardStart == RoundsInit => Carded(rounds)
<1>1. SUFFICES ASSUME rounds = <<>> PROVE Carded(rounds)
  BY DEF RoundsInit
<1>2. DOMAIN rounds = {}
  BY <1>1
<1>. QED
  BY <1>2 DEF Carded, AllTold

\* A round's stored scores stop following from its answers only where a round
\* before it was written to: the merge scores one round, Synthesis all of them.
THEOREM StaleScores == RoundsSpec => StaleOnlyFromBefore
<1>1. ASSUME RoundsInv, [RoundsNext]_roundVars
      PROVE  \A i \in DOMAIN rounds :
               /\ Settled(rounds, i) /\ Interviewed(rounds, i)
               /\ ~Settled(rounds', i)
               => \E j \in DOMAIN rounds' :
                    /\ rounds'[j].number < rounds[i].number
                    /\ j \in DOMAIN rounds => rounds'[j] # rounds[j]
  <2>1. StaleOnly(rounds, rounds')
    BY <1>1, RoundsAdvance, MovesStale DEF Advances
  <2>. QED
    BY <2>1 DEF StaleOnly
<1>. QED
  BY RoundsStart, RoundsStep, <1>1, PTL DEF RoundsSpec, StaleOnlyFromBefore

\* Where nobody ends an interview without a scored answer, the portfolio card
\* never goes blank and never back to an earlier round.  See EveryoneAnswers.
THEOREM CardFollows == ASSUME EveryoneAnswers PROVE RoundsSpec => CardFollowsAnswers
<1> DEFINE Shown == RoundsInv /\ Carded(rounds)
<1>1. RoundsInit => Shown
  BY RoundsStart, CardStart
<1>2. ASSUME Shown, [RoundsNext]_roundVars PROVE Shown'
  <2>1. Carded(rounds')
    BY <1>2, RoundsAdvance DEF Advances
  <2>2. Carded(rounds)'
    BY <2>1 DEF Carded, AllTold
  <2>. QED
    BY <1>2, <2>2, RoundsStep
<1>3. ASSUME Shown, [RoundsNext]_roundVars
      PROVE  \A card \in Scorecard(rounds) :
               \E next \in Scorecard(rounds') : next.round >= card.round
  BY <1>3, RoundsAdvance, CardAdvances DEF Advances
<1>4. RoundsSpec => CardMovesForward
  BY <1>1, <1>2, <1>3, PTL DEF RoundsSpec, CardMovesForward
<1>. QED
  BY <1>4, StaleScores DEF CardFollowsAnswers

-----------------------------------------------------------------------------
(* What an engagement remembers of a person.                                *)

LEMMA InterviewIs ==
  ASSUME NEW R, WellFormed(R), NEW x \in AllInterviews(R)
  PROVE  /\ x = <<x[1], x[2]>> /\ x[1] \in DOMAIN R /\ x[2] \in DOMAIN R[x[1]].ivs
         /\ R[x[1]].ivs \in Seq(Interview) /\ InterviewAt(R, x) = R[x[1]].ivs[x[2]]
         /\ InterviewAt(R, x) \in Interview
         /\ R[x[1]].number \in Nat
<1>1. PICK i \in DOMAIN R : x \in {<<i, k>> : k \in DOMAIN R[i].ivs}
  BY DEF AllInterviews
<1>2. PICK k \in DOMAIN R[i].ivs : x = <<i, k>>
  BY <1>1
<1>3. x[1] = i /\ x[2] = k
  BY <1>2
<1>4. R[i].ivs \in Seq(Interview) /\ R[i].number \in Nat
  BY RoundIs DEF WellFormed
<1>5. R[i].ivs[k] \in Interview
  BY <1>4
<1>. QED
  BY <1>2, <1>3, <1>4, <1>5 DEF InterviewAt

LEMMA IsAnInterview ==
  ASSUME NEW R, NEW i \in DOMAIN R, NEW k \in DOMAIN R[i].ivs
  PROVE  <<i, k>> \in AllInterviews(R) /\ InterviewAt(R, <<i, k>>) = R[i].ivs[k]
BY DEF AllInterviews, InterviewAt

LEMMA NewestIs ==
  ASSUME NEW R, WellFormed(R), NEW X \in SUBSET AllInterviews(R), X # {}
  PROVE  Newest(R, X) \in X
<1>1. PICK S : S = {x[1] : x \in X}
  OBVIOUS
<1>2. S \in SUBSET DOMAIN R /\ S # {}
  BY <1>1, InterviewIs
<1>3. PICK i : i = Latest(R, S)
  OBVIOUS
<1>4. i \in S
  BY <1>2, <1>3, LatestIs DEF WellFormed
<1>5. PICK Y : Y = {x[2] : x \in {y \in X : y[1] = i}}
  OBVIOUS
<1>6. Y # {} /\ Y \subseteq DOMAIN R[i].ivs
  BY <1>1, <1>4, <1>5, InterviewIs
<1>7. IsFiniteSet(Y) /\ \A y \in Y : y \in Int
  <2>1. R[i].ivs \in Seq(Interview)
    BY <1>2, <1>4, RoundIs DEF WellFormed
  <2>. QED
    BY <1>6, <2>1, PositionsFinite, FS_Subset
<1>8. Max(Y) \in Y
  BY <1>6, <1>7, MaxIs
<1>9. PICK x \in X : x[1] = i /\ x[2] = Max(Y)
  BY <1>5, <1>8
<1>10. x = <<i, Max(Y)>>
  BY <1>9, InterviewIs
<1>11. Newest(R, X) = <<i, Max(Y)>>
  BY <1>1, <1>3, <1>5 DEF Newest
<1>. QED
  BY <1>10, <1>11

\* What is remembered of a dimension.
Measured(R, key, d) == R[Newest(R, ScoredBy(R, key, d))[1]].number

SatRounds(R, key) == {R[x[1]].number : x \in SatBy(R, key)}

Quoted(R, key, d) == InterviewAt(R, Newest(R, History(R, key, d)))

LEMMA MeasuredIs ==
  ASSUME NEW R, NEW key, NEW d, NEW v, v = Dimension(R, key, d), v.lastMeasuredRound # Absent
  PROVE  /\ ScoredBy(R, key, d) # {} /\ v.lastMeasuredRound = Measured(R, key, d)
         /\ Max(SatRounds(R, key)) > Measured(R, key, d) => v.stale
BY DEF Dimension, Measured, SatRounds, Stale

LEMMA TextIs ==
  ASSUME NEW R, NEW key, NEW d, NEW v, v = Dimension(R, key, d), v.text # Absent
  PROVE  v.text.person = Quoted(R, key, d).person
BY DEF Dimension, Quoted

LEMMA BuildIs ==
  ASSUME NEW R, NEW key \in DOMAIN Build(R)
  PROVE  \A d \in DOMAIN Build(R)[key] :
           Build(R)[key][d] = Dimension(R, key, d) /\ History(R, key, d) # {} /\ d \in Dims
BY DEF Build

LEMMA CarriedHolds ==
  ASSUME WellFormed(rounds)
  PROVE  CarriedIsFlagged
<1>1. SUFFICES ASSUME NEW i \in DOMAIN rounds, Interviewed(rounds, i),
                      NEW d \in DOMAIN rounds[i].scores, NEW k \in DOMAIN rounds[i].ivs,
                      NEW key, key = PersonKey(rounds[i].ivs[k]),
                      Entries(rounds[i].ivs, d) = {}, key \in DOMAIN Build(rounds),
                      d \in DOMAIN Build(rounds)[key], ScoredBy(rounds, key, d) # {}
               PROVE  \/ Measured(rounds, key, d) > rounds[i].number
                      \/ Max(SatRounds(rounds, key)) > Measured(rounds, key, d)
  <2>1. SUFFICES ASSUME NEW i \in DOMAIN rounds, Interviewed(rounds, i),
                        NEW d \in DOMAIN rounds[i].scores, NEW k \in DOMAIN rounds[i].ivs,
                        NEW key, key = PersonKey(rounds[i].ivs[k]),
                        NEW view, view = SelfView(Build(rounds), key),
                        Entries(rounds[i].ivs, d) = {}, view # Absent, d \in DOMAIN view,
                        view[d].lastMeasuredRound # Absent
                 PROVE  view[d].lastMeasuredRound > rounds[i].number \/ view[d].stale
    BY DEF CarriedIsFlagged
  <2>2. key \in DOMAIN Build(rounds) /\ view = Build(rounds)[key]
    BY <2>1 DEF SelfView
  <2>3. view[d] = Dimension(rounds, key, d)
    BY <2>1, <2>2, BuildIs
  <2>4. ScoredBy(rounds, key, d) # {} /\ view[d].lastMeasuredRound = Measured(rounds, key, d)
    BY <2>1, <2>3, MeasuredIs
  <2>5. \/ Measured(rounds, key, d) > rounds[i].number
        \/ Max(SatRounds(rounds, key)) > Measured(rounds, key, d)
    BY <1>1, <2>1, <2>2, <2>4
  <2>. QED
    BY <2>1, <2>3, <2>4, <2>5, MeasuredIs
<1>2. PICK S : S = ScoredBy(rounds, key, d)
  OBVIOUS
<1>3. S \in SUBSET AllInterviews(rounds) /\ S # {}
  BY <1>1, <1>2 DEF ScoredBy, SatBy
<1>4. PICK x : x = Newest(rounds, S)
  OBVIOUS
<1>5. x \in S
  BY <1>3, <1>4, NewestIs
<1>6. InterviewAt(rounds, x).scores[d] > 0
  BY <1>2, <1>5 DEF ScoredBy
<1>7. /\ x[1] \in DOMAIN rounds /\ x[2] \in DOMAIN rounds[x[1]].ivs
      /\ InterviewAt(rounds, x) = rounds[x[1]].ivs[x[2]] /\ rounds[x[1]].number \in Nat
  BY <1>3, <1>5, InterviewIs
<1>8. x[1] # i
  BY <1>1, <1>6, <1>7 DEF Entries, AnswerOf
<1>9. rounds[x[1]].number # rounds[i].number
  BY <1>7, <1>8 DEF WellFormed, Distinct
<1>10. PICK N : N = SatRounds(rounds, key)
  OBVIOUS
<1>11. rounds[i].number \in N
  <2>1. <<i, k>> \in SatBy(rounds, key) /\ <<i, k>>[1] = i
    BY <1>1, IsAnInterview DEF SatBy
  <2>. QED
    BY <1>10, <2>1 DEF SatRounds
<1>12. IsFiniteSet(N) /\ \A n \in N : n \in Nat
  <2>1. N \subseteq Numbers(rounds)
    BY <1>10, InterviewIs DEF SatRounds, SatBy, Numbers
  <2>. QED
    BY <2>1, NumbersIs, FS_Subset DEF WellFormed
<1>13. Max(N) \in Nat /\ rounds[i].number \in Nat /\ rounds[i].number <= Max(N)
  BY <1>11, <1>12, MaxIs
<1>14. Measured(rounds, key, d) = rounds[x[1]].number
  BY <1>2, <1>4 DEF Measured
<1>. QED
  BY <1>7, <1>9, <1>10, <1>13, <1>14

\* What is kept of a person's words was said by somebody of that role and name.
SaidBy(v, key) ==
  \E s \in Sittings : v.text.person = Plan[s].person /\ PersonKey(Plan[s]) = key

Quotable(m) ==
  \A key \in DOMAIN m : \A d \in DOMAIN m[key] : m[key][d].text # Absent => SaidBy(m[key][d], key)

Remembered == memory # Absent => Quotable(memory)

LEMMA BuildQuotable ==
  ASSUME NEW R, WellFormed(R)
  PROVE  Quotable(Build(R))
<1>1. SUFFICES ASSUME NEW key \in DOMAIN Build(R), NEW d \in DOMAIN Build(R)[key],
                      Build(R)[key][d].text # Absent
               PROVE  SaidBy(Build(R)[key][d], key)
  BY DEF Quotable
<1>2. PICK v : v = Build(R)[key][d]
  OBVIOUS
<1>3. v = Dimension(R, key, d) /\ History(R, key, d) # {}
  BY <1>2, BuildIs
<1>4. v.text.person = Quoted(R, key, d).person
  BY <1>1, <1>2, <1>3, TextIs
<1>5. PICK H : H = History(R, key, d)
  OBVIOUS
<1>6. /\ \A x \in H : PersonKey(InterviewAt(R, x)) = key
      /\ H \in SUBSET AllInterviews(R)
  BY <1>5 DEF History, ScoredBy, SatBy
<1>7. Newest(R, H) \in H
  BY <1>3, <1>5, <1>6, NewestIs
<1>8. PICK iv \in Interview : iv = Quoted(R, key, d) /\ PersonKey(iv) = key
  BY <1>5, <1>6, <1>7, InterviewIs DEF Quoted
<1>9. PICK s \in Sittings : Theirs(iv, s)
  BY DEF Interview
<1>10. v.text.person = Plan[s].person /\ PersonKey(Plan[s]) = key
  BY <1>4, <1>8, <1>9 DEF Theirs
<1>. QED
  BY <1>2, <1>10 DEF SaidBy

LEMMA RememberedStart == RoundsInit => Remembered
BY DEF RoundsInit, Remembered

LEMMA RememberedStep ==
  ASSUME RoundsInv, Remembered, [RoundsNext]_roundVars
  PROVE  Remembered'
<1>1. memory' = memory \/ memory' = Build(rounds)
  <2>1. ASSUME NEW n, NEW iv, NEW by, Land(n, iv, by) PROVE memory' = memory
    BY <2>1 DEF Land
  <2>2. ASSUME NEW s \in Sittings, Link(s) PROVE memory' = memory
    BY <2>1, <2>2 DEF Link
  <2>3. ASSUME NEW s \in Sittings, Run(s) PROVE memory' = memory
    BY <2>1, <2>3 DEF Run
  <2>4. CASE PlanRound
    BY <2>4 DEF PlanRound
  <2>5. CASE LoadSynthesis
    BY <2>5 DEF LoadSynthesis
  <2>6. ASSUME NEW i \in DOMAIN rounds, RenderDashboard(i) PROVE memory' = memory
    BY <2>6 DEF RenderDashboard
  <2>7. CASE CloseRound
    BY <2>7 DEF CloseRound
  <2>8. CASE UNCHANGED roundVars
    BY <2>8 DEF roundVars
  <2>. QED
    BY <2>2, <2>3, <2>4, <2>5, <2>6, <2>7, <2>8 DEF RoundsNext
<1>2. Quotable(Build(rounds))
  BY BuildQuotable DEF RoundsInv
<1>3. memory' # Absent => Quotable(memory')
  BY <1>1, <1>2 DEF Remembered
<1>. QED
  BY <1>3 DEF Remembered, Quotable, SaidBy

LEMMA QuotedHolds ==
  ASSUME OnePersonOneKey, Remembered
  PROVE  QuotedWordsAreTheirs
<1>1. SUFFICES ASSUME memory # Absent, NEW s \in Sittings, NEW key, key = PersonKey(Plan[s])
               PROVE  /\ SelfView(memory, key) # Absent =>
                           \A d \in DOMAIN SelfView(memory, key) :
                             SelfView(memory, key)[d].text # Absent =>
                               SelfView(memory, key)[d].text.person = Plan[s].person
                      /\ \A d \in Dims : \A t \in AmbientView(memory, key, d) :
                           t.person # Plan[s].person
  BY DEF QuotedWordsAreTheirs
<1>2. Quotable(memory)
  BY <1>1 DEF Remembered
<1>3. ASSUME NEW d \in DOMAIN SelfView(memory, key), SelfView(memory, key) # Absent,
             SelfView(memory, key)[d].text # Absent
      PROVE  SelfView(memory, key)[d].text.person = Plan[s].person
  <2>1. key \in DOMAIN memory /\ SelfView(memory, key) = memory[key]
    BY <1>3 DEF SelfView
  <2>2. PICK u \in Sittings : memory[key][d].text.person = Plan[u].person /\ PersonKey(Plan[u]) = key
    BY <1>2, <1>3, <2>1 DEF Quotable, SaidBy
  <2>. QED
    BY <1>1, <2>1, <2>2 DEF OnePersonOneKey
<1>4. ASSUME NEW d \in Dims, NEW t \in AmbientView(memory, key, d)
      PROVE  t.person # Plan[s].person
  <2>1. PICK k \in DOMAIN memory : /\ k # key /\ d \in DOMAIN memory[k]
                                   /\ memory[k][d].text # Absent /\ t = memory[k][d].text
    BY <1>4 DEF AmbientView
  <2>2. PICK u \in Sittings : memory[k][d].text.person = Plan[u].person /\ PersonKey(Plan[u]) = k
    BY <1>2, <2>1 DEF Quotable, SaidBy
  <2>. QED
    BY <1>1, <2>1, <2>2 DEF OnePersonOneKey
<1>. QED
  BY <1>3, <1>4

-----------------------------------------------------------------------------
(* Claims that make one point.                                              *)

LEMMA ClaimIs ==
  ASSUME NEW a \in Claims
  PROVE  IsFiniteSet(a) /\ Cardinality(a) \in Nat \ {0}
<1>1. IsFiniteSet(a) /\ a # {}
  BY ClaimAssumption
<1>. QED
  BY <1>1, FS_CardinalityType, FS_EmptySet

LEMMA SharedIs ==
  ASSUME NEW a \in Claims, NEW b \in Claims
  PROVE  /\ Cardinality(a \cap b) \in Nat /\ a \cap b = b \cap a
         /\ a = b => Cardinality(a \cap b) = Cardinality(a)
<1>1. IsFiniteSet(a \cap b)
  BY ClaimIs, FS_Subset
<1>2. a = b => a \cap b = a
  OBVIOUS
<1>. QED
  BY <1>1, <1>2, FS_CardinalityType

LEMMA SameClaimIs ==
  ASSUME NEW a \in Claims, NEW b \in Claims
  PROVE  SameClaim(a, a) /\ (SameClaim(a, b) => SameClaim(b, a))
<1>1. SameClaim(a, a)
  BY DEF SameClaim
<1>2. ASSUME SameClaim(a, b) PROVE SameClaim(b, a)
  <2>1. PICK n \in Nat : n = Cardinality(a \cap b) /\ n = Cardinality(b \cap a)
    BY SharedIs
  <2>2. PICK x \in Nat : x = Cardinality(a)
    BY ClaimIs
  <2>3. PICK y \in Nat : y = Cardinality(b)
    BY ClaimIs
  <2>4. a = b \/ (n >= MinSharedTokens /\ 2 * n >= IF x <= y THEN x ELSE y)
    BY <1>2, <2>1, <2>2, <2>3 DEF SameClaim
  <2>5. b = a \/ (n >= MinSharedTokens /\ 2 * n >= IF y <= x THEN y ELSE x)
    BY <2>4
  <2>. QED
    BY <2>1, <2>2, <2>3, <2>5 DEF SameClaim
<1>. QED
  BY <1>1, <1>2

\* What is one point is similar.
LEMMA SimilarIs ==
  ASSUME NEW a \in Claims, NEW b \in Claims, SameClaim(a, b)
  PROVE  Similarity(a, b) \in Nat \ {0}
<1>1. PICK n \in Nat : n = Cardinality(a \cap b)
  BY SharedIs
<1>2. PICK x \in Nat \ {0} : x = Cardinality(a)
  BY ClaimIs
<1>3. PICK y \in Nat \ {0} : y = Cardinality(b)
  BY ClaimIs
<1>4. PICK z \in Nat \ {0} : z = IF x <= y THEN x ELSE y
  OBVIOUS
<1>5. 2 * n >= z
  <2>1. CASE a = b
    <3>1. n = x /\ y = x
      BY <1>1, <1>2, <1>3, <2>1, SharedIs
    <3>. QED
      BY <1>4, <3>1
  <2>2. CASE a # b
    BY <1>1, <1>2, <1>3, <1>4, <2>2 DEF SameClaim
  <2>. QED
    BY <2>1, <2>2
<1>6. PICK q : q = (100 * n) \div z
  OBVIOUS
<1>7. q \in Int /\ 100 * n < z * q + z
  <2>1. 100 * n \in Int
    OBVIOUS
  <2>. QED
    BY <1>6, <2>1, DivBounds
<1>8. q > 0
  <2>1. CASE q <= 0
    <3>1. z * q <= 0
      BY <1>7, <2>1
    <3>. QED
      BY <1>5, <1>7, <3>1
  <2>. QED
    BY <1>7, <2>1
<1>9. Similarity(a, b) = q
  BY <1>1, <1>2, <1>3, <1>4, <1>6 DEF Similarity
<1>. QED
  BY <1>7, <1>8, <1>9

\* How well a claim fits some entries: not at all, or as a claim of theirs does.
LEMMA FitIs ==
  ASSUME NEW a \in Claims, NEW c, IsFiniteSet(c.entries), \A e \in c.entries : e.claim \in Claims
  PROVE  /\ Fit(a, c) \in Nat
         /\ Fit(a, c) > 0 <=> \E e \in c.entries : SameClaim(a, e.claim)
<1>1. PICK X : X = {e \in c.entries : SameClaim(a, e.claim)}
  OBVIOUS
<1>2. PICK f : f = [e \in X |-> Similarity(a, e.claim)]
  OBVIOUS
<1>3. \A e \in X : f[e] \in Nat \ {0}
  BY <1>1, <1>2, SimilarIs
<1>4. PICK fits : fits = {Similarity(a, e.claim) : e \in X}
  OBVIOUS
<1>5. Fit(a, c) = IF fits = {} THEN 0 ELSE CHOOSE v \in fits : \A w \in fits : w <= v
  BY <1>1, <1>4 DEF Fit
<1>6. CASE X = {}
  BY <1>1, <1>4, <1>5, <1>6
<1>7. CASE X # {}
  <2>1. IsFiniteSet(X)
    BY <1>1, FS_Subset
  <2>2. \A x \in X : f[x] \in Int
    BY <1>3
  <2>3. PICK e \in X : \A x \in X : f[x] <= f[e]
    BY <1>7, <2>1, <2>2, Greatest
  <2>4. f[e] \in fits /\ \A w \in fits : w <= f[e]
    BY <1>2, <1>4, <2>3
  <2>5. fits # {} /\ Fit(a, c) \in fits
    BY <1>5, <2>4
  <2>6. PICK x \in X : Fit(a, c) = f[x]
    BY <1>2, <1>4, <2>5
  <2>. QED
    BY <1>1, <1>3, <2>6
<1>. QED
  BY <1>6, <1>7

-----------------------------------------------------------------------------
(* Findings by the point they make.                                         *)

Heard(F) ==
  /\ IsFiniteSet(DOMAIN F)
  /\ \A p \in DOMAIN F : F[p].claim \in Claims /\ p[1] \in Nat /\ p[2] \in Nat

Same(F, p, q) == F[p].dim = F[q].dim /\ SameClaim(F[p].claim, F[q].claim)

\* The cluster of those of the findings T that make the point of p.
Group(F, T, p) ==
  [dim |-> F[p].dim, entries |-> {Entry(F, F[q]) : q \in {r \in T : Same(F, p, r)}}]

LEMMA SameIs ==
  ASSUME NEW F, Heard(F), NoBridges, NEW p \in DOMAIN F, NEW q \in DOMAIN F, NEW r \in DOMAIN F
  PROVE  /\ Same(F, p, p)
         /\ Same(F, p, q) => Same(F, q, p)
         /\ Same(F, p, q) /\ Same(F, q, r) => Same(F, p, r)
<1>1. F[p].claim \in Claims /\ F[q].claim \in Claims /\ F[r].claim \in Claims
  BY DEF Heard
<1>. QED
  BY <1>1, SameClaimIs DEF Same, NoBridges

LEMMA SameGroup ==
  ASSUME NEW F, Heard(F), NoBridges, NEW T \in SUBSET DOMAIN F,
         NEW p \in DOMAIN F, NEW q \in DOMAIN F, Same(F, p, q)
  PROVE  Group(F, T, p) = Group(F, T, q)
<1>1. \A r \in T : Same(F, p, r) <=> Same(F, q, r)
  BY SameIs
<1>2. {r \in T : Same(F, p, r)} = {r \in T : Same(F, q, r)}
  BY <1>1
<1>3. F[p].dim = F[q].dim
  BY DEF Same
<1>. QED
  BY <1>2, <1>3, Zenon DEF Group

LEMMA EntryIs ==
  ASSUME NEW F, NEW T, NEW p
  PROVE  /\ Group(F, T, p).dim = F[p].dim
         /\ \A e \in Group(F, T, p).entries :
              \E q \in T : Same(F, p, q) /\ e = Entry(F, F[q]) /\ e.claim = F[q].claim
         /\ \A q \in T : Same(F, p, q) =>
              \E e \in Group(F, T, p).entries : e = Entry(F, F[q]) /\ e.claim = F[q].claim
<1>1. \A q : Entry(F, F[q]).claim = F[q].claim
  BY DEF Entry
<1>2. Group(F, T, p).dim = F[p].dim
  BY DEF Group
<1>3. Group(F, T, p).entries = {Entry(F, F[q]) : q \in {r \in T : Same(F, p, r)}}
  BY DEF Group
<1>. QED
  BY <1>1, <1>2, <1>3

LEMMA GroupFinite ==
  ASSUME NEW F, Heard(F), NEW T \in SUBSET DOMAIN F, NEW p
  PROVE  IsFiniteSet(Group(F, T, p).entries)
<1>1. PICK S : S = {r \in T : Same(F, p, r)}
  OBVIOUS
<1>2. IsFiniteSet(S)
  BY <1>1, FS_Subset DEF Heard
<1>3. PICK f : f = [q \in S |-> Entry(F, F[q])]
  OBVIOUS
<1>4. PICK E : E = {Entry(F, F[q]) : q \in S}
  OBVIOUS
<1>5. f \in Surjection(S, E)
  BY <1>3, <1>4 DEF Surjection
<1>6. IsFiniteSet(E)
  BY <1>2, <1>5, FS_Surjection
<1>7. Group(F, T, p).entries = E
  BY <1>1, <1>4 DEF Group
<1>. QED
  BY <1>6, <1>7

\* A finding fits a cluster exactly when it makes its point.
LEMMA GroupFits ==
  ASSUME NEW F, Heard(F), NoBridges, NEW T \in SUBSET DOMAIN F, NEW p \in T, NEW q \in DOMAIN F
  PROVE  /\ FitOf(F[q], Group(F, T, p)) \in Nat
         /\ FitOf(F[q], Group(F, T, p)) > 0 <=> Same(F, q, p)
<1>1. PICK c : c = Group(F, T, p)
  OBVIOUS
<1>2. PICK a \in Claims : a = F[q].claim
  BY DEF Heard
<1>3. \A r \in T : F[r].claim \in Claims
  BY DEF Heard
<1>4. IsFiniteSet(c.entries) /\ \A e \in c.entries : e.claim \in Claims
  BY <1>1, <1>3, GroupFinite, EntryIs
<1>5. /\ Fit(a, c) \in Nat
      /\ Fit(a, c) > 0 <=> \E e \in c.entries : SameClaim(a, e.claim)
  BY <1>4, FitIs
<1>6. FitOf(F[q], c) = IF F[p].dim = F[q].dim THEN Fit(a, c) ELSE 0
  <2>1. c.dim = F[p].dim
    BY <1>1, EntryIs
  <2>. QED
    BY <1>2, <2>1 DEF FitOf
<1>7. ASSUME NEW e \in c.entries, SameClaim(a, e.claim), F[p].dim = F[q].dim
      PROVE  Same(F, q, p)
  <2>1. PICK r \in T : Same(F, p, r) /\ e.claim = F[r].claim
    BY <1>1, EntryIs
  <2>2. Same(F, q, r)
    BY <1>2, <1>7, <2>1 DEF Same
  <2>3. Same(F, r, p)
    BY <2>1, SameIs
  <2>. QED
    BY <2>2, <2>3, SameIs
<1>8. ASSUME Same(F, q, p)
      PROVE  F[p].dim = F[q].dim /\ \E e \in c.entries : SameClaim(a, e.claim)
  <2>1. Same(F, p, p)
    BY SameIs
  <2>2. PICK e \in c.entries : e.claim = F[p].claim
    BY <1>1, <2>1, EntryIs
  <2>. QED
    BY <1>2, <1>8, <2>2 DEF Same
<1>9. FitOf(F[q], c) > 0 <=> Same(F, q, p)
  BY <1>5, <1>6, <1>7, <1>8
<1>. QED
  BY <1>1, <1>5, <1>6, <1>9

\* One finding more.
Joined(T, q, U) == U = T \cup {q}

LEMMA GroupStays ==
  ASSUME NEW F, NEW T, NEW q, NEW U, Joined(T, q, U), NEW p, ~Same(F, p, q)
  PROVE  Group(F, U, p) = Group(F, T, p)
<1>1. {r \in U : Same(F, p, r)} = {r \in T : Same(F, p, r)}
  BY DEF Joined
<1>. QED
  BY <1>1, Zenon DEF Group

LEMMA GroupGrows ==
  ASSUME NEW F, NEW T, NEW q, NEW U, Joined(T, q, U), NEW p, Same(F, p, q),
         NEW c, c = Group(F, T, p)
  PROVE  Group(F, U, p) = [c EXCEPT !.entries = @ \cup {Entry(F, F[q])}]
<1>1. PICK S : S = {r \in T : Same(F, p, r)}
  OBVIOUS
<1>2. PICK V : V = {r \in U : Same(F, p, r)}
  OBVIOUS
<1>3. V = S \cup {q}
  BY <1>1, <1>2 DEF Joined
<1>4. PICK A : A = {Entry(F, F[r]) : r \in S}
  OBVIOUS
<1>5. PICK B : B = {Entry(F, F[r]) : r \in V}
  OBVIOUS
<1>6. c = [dim |-> F[p].dim, entries |-> A]
  BY <1>1, <1>4, Zenon DEF Group
<1>7. Group(F, U, p) = [dim |-> F[p].dim, entries |-> B]
  BY <1>2, <1>5, Zenon DEF Group
<1>8. B = A \cup {Entry(F, F[q])}
  BY <1>3, <1>4, <1>5
<1>. QED
  BY <1>6, <1>7, <1>8

Groups(F) == {Group(F, T, p) : T \in SUBSET DOMAIN F, p \in DOMAIN F}

\* cl are the clusters of the findings T, each once.
Grouped(F, T, cl) ==
  /\ cl \in Seq(Groups(F))
  /\ \A c \in DOMAIN cl : \E p \in T : cl[c] = Group(F, T, p)
  /\ \A p \in T : \E c \in DOMAIN cl : cl[c] = Group(F, T, p)
  /\ \A c, k \in DOMAIN cl : cl[c] = cl[k] => c = k

Fits(F, q, c) == FitOf(F[q], c) > 0

\* A finding fits at most one of the clusters, the one of its point.
LEMMA BestIs ==
  ASSUME NEW F, Heard(F), NoBridges, NEW T \in SUBSET DOMAIN F, NEW cl, Grouped(F, T, cl),
         NEW q \in DOMAIN F
  PROVE  /\ Best(cl, F[q]) = {c \in DOMAIN cl : Fits(F, q, cl[c])}
         /\ \A c, k \in DOMAIN cl : Fits(F, q, cl[c]) /\ Fits(F, q, cl[k]) => c = k
         /\ \A c \in DOMAIN cl : \A p \in T :
              cl[c] = Group(F, T, p) => (Fits(F, q, cl[c]) <=> Same(F, q, p))
<1>1. ASSUME NEW c \in DOMAIN cl
      PROVE  FitOf(F[q], cl[c]) \in Nat
  <2>1. PICK p \in T : cl[c] = Group(F, T, p)
    BY DEF Grouped
  <2>2. FitOf(F[q], Group(F, T, p)) \in Nat
    BY GroupFits
  <2>. QED
    BY <2>1, <2>2, Zenon
<1>2. ASSUME NEW c \in DOMAIN cl, NEW p \in T, cl[c] = Group(F, T, p)
      PROVE  Fits(F, q, cl[c]) <=> Same(F, q, p)
  <2>1. FitOf(F[q], Group(F, T, p)) > 0 <=> Same(F, q, p)
    BY GroupFits
  <2>. QED
    BY <1>2, <2>1, Zenon DEF Fits
<1>3. ASSUME NEW c \in DOMAIN cl, NEW k \in DOMAIN cl, Fits(F, q, cl[c]), Fits(F, q, cl[k])
      PROVE  c = k
  <2>1. PICK p \in T : cl[c] = Group(F, T, p)
    BY DEF Grouped
  <2>2. PICK r \in T : cl[k] = Group(F, T, r)
    BY DEF Grouped
  <2>3. Same(F, q, p) /\ Same(F, q, r)
    BY <1>2, <1>3, <2>1, <2>2
  <2>4. Same(F, p, r)
    BY <2>3, SameIs
  <2>5. Group(F, T, p) = Group(F, T, r)
    BY <2>4, SameGroup
  <2>. QED
    BY <2>1, <2>2, <2>5 DEF Grouped
<1>4. Best(cl, F[q]) = {c \in DOMAIN cl : Fits(F, q, cl[c])}
  <2>1. ASSUME NEW c \in DOMAIN cl, Fits(F, q, cl[c]), NEW k \in DOMAIN cl
        PROVE  FitOf(F[q], cl[k]) <= FitOf(F[q], cl[c])
    <3>1. FitOf(F[q], cl[k]) \in Nat /\ FitOf(F[q], cl[c]) \in Nat
      BY <1>1
    <3>2. k = c \/ ~(FitOf(F[q], cl[k]) > 0)
      BY <1>3, <2>1 DEF Fits
    <3>. QED
      BY <2>1, <3>1, <3>2 DEF Fits
  <2>. QED
    BY <2>1 DEF Best, Fits
<1>. QED
  BY <1>2, <1>3, <1>4

\* Clusters of T with that of q put in, in its place or at the end.
LEMMA Regrouped ==
  ASSUME NEW F, Heard(F), NoBridges, NEW T \in SUBSET DOMAIN F, NEW cl, Grouped(F, T, cl),
         NEW q \in DOMAIN F, NEW U, Joined(T, q, U), NEW b, NEW new, DOMAIN new = DOMAIN cl \cup {b},
         new \in Seq(Groups(F)),
         new[b] = Group(F, U, q),
         \A k \in DOMAIN cl : k # b => new[k] = cl[k] /\ ~Fits(F, q, cl[k]),
         b \in DOMAIN cl => Fits(F, q, cl[b])
  PROVE  Grouped(F, U, new)
<1>1. ASSUME NEW k \in DOMAIN cl, k # b, NEW p \in T, cl[k] = Group(F, T, p)
      PROVE  new[k] = Group(F, U, p) /\ ~Same(F, q, p)
  <2>1. ~Same(F, q, p)
    BY <1>1, BestIs
  <2>2. ~Same(F, p, q)
    BY <2>1, SameIs
  <2>3. Group(F, U, p) = Group(F, T, p)
    BY <2>2, GroupStays
  <2>4. new[k] = cl[k]
    BY <1>1
  <2>. QED
    BY <1>1, <2>1, <2>3, <2>4, Zenon
<1>2. U \in SUBSET DOMAIN F /\ q \in U /\ U = T \cup {q}
  BY DEF Joined
<1>3. \A c \in DOMAIN new : \E p \in U : new[c] = Group(F, U, p)
  <2>1. ASSUME NEW c \in DOMAIN new, c # b PROVE \E p \in U : new[c] = Group(F, U, p)
    <3>1. PICK p \in T : cl[c] = Group(F, T, p)
      BY <2>1 DEF Grouped
    <3>2. c \in DOMAIN cl /\ p \in U
      BY <1>2, <2>1
    <3>3. new[c] = Group(F, U, p)
      BY <1>1, <2>1, <3>1, <3>2, Zenon
    <3>. QED
      BY <3>2, <3>3
  <2>. QED
    BY <1>2, <2>1
<1>4. ASSUME NEW p \in U PROVE \E c \in DOMAIN new : new[c] = Group(F, U, p)
  <2>1. CASE Same(F, q, p)
    <3>1. Group(F, U, q) = Group(F, U, p)
      BY <1>2, <2>1, SameGroup
    <3>. QED
      BY <3>1
  <2>2. CASE ~Same(F, q, p)
    <3>1. p \in T
      BY <1>2, <2>2, SameIs
    <3>2. PICK c \in DOMAIN cl : cl[c] = Group(F, T, p)
      BY <3>1 DEF Grouped
    <3>3. Fits(F, q, cl[c]) <=> Same(F, q, p)
      <4>1. \A k \in DOMAIN cl : \A r \in T :
              cl[k] = Group(F, T, r) => (Fits(F, q, cl[k]) <=> Same(F, q, r))
        BY BestIs
      <4>. QED
        BY <3>1, <3>2, <4>1, Zenon
    <3>4. c # b
      BY <2>2, <3>3
    <3>5. new[c] = Group(F, U, p)
      BY <1>1, <3>1, <3>2, <3>4, Zenon
    <3>. QED
      BY <3>2, <3>5
  <2>. QED
    BY <2>1, <2>2
<1>5. ASSUME NEW k \in DOMAIN new, k # b PROVE new[k] # new[b]
  <2>1. PICK p \in T : cl[k] = Group(F, T, p)
    BY <1>5 DEF Grouped
  <2>2. new[k] = Group(F, U, p) /\ ~Same(F, q, p) /\ p \in U
    <3>1. k \in DOMAIN cl /\ p \in U
      BY <1>2, <1>5
    <3>. QED
      BY <1>1, <1>5, <2>1, <3>1, Zenon
  <2>3. /\ FitOf(F[q], Group(F, U, p)) > 0 <=> Same(F, q, p)
        /\ FitOf(F[q], Group(F, U, q)) > 0 <=> Same(F, q, q)
    BY <1>2, <2>2, GroupFits
  <2>4. Same(F, q, q)
    BY SameIs
  <2>5. Group(F, U, p) # Group(F, U, q)
    BY <2>2, <2>3, <2>4
  <2>. QED
    BY <2>2, <2>5
<1>6. \A c, k \in DOMAIN new : new[c] = new[k] => c = k
  <2>1. ASSUME NEW c \in DOMAIN cl, NEW k \in DOMAIN cl, c # b, k # b, new[c] = new[k] PROVE c = k
    BY <2>1 DEF Grouped
  <2>. QED
    BY <1>5, <2>1
<1>. QED
  BY <1>3, <1>4, <1>6 DEF Grouped

LEMMA PlacedGrouped ==
  ASSUME NEW F, Heard(F), NoBridges, NEW T \in SUBSET DOMAIN F, NEW cl, Grouped(F, T, cl),
         NEW q \in DOMAIN F, NEW U, Joined(T, q, U)
  PROVE  Grouped(F, U, Place(F, cl, F[q]))
<1>1. PICK G : G = Groups(F)
  OBVIOUS
<1>2. cl \in Seq(G)
  BY <1>1 DEF Grouped
<1>3. PICK best : best = Best(cl, F[q])
  OBVIOUS
<1>4. /\ best = {c \in DOMAIN cl : Fits(F, q, cl[c])}
      /\ \A c, k \in DOMAIN cl : Fits(F, q, cl[c]) /\ Fits(F, q, cl[k]) => c = k
  BY <1>3, BestIs
<1>5. PICK g : g = Group(F, U, q)
  OBVIOUS
<1>6. g \in G
  BY <1>1, <1>5 DEF Joined, Groups
<1>7. PICK new : new = Place(F, cl, F[q])
  OBVIOUS
<1>8. CASE best = {}
  <2>1. new = Append(cl, [dim |-> F[q].dim, entries |-> {Entry(F, F[q])}])
    BY <1>3, <1>7, <1>8 DEF Place
  <2>2. ASSUME NEW p \in T PROVE ~Same(F, q, p)
    <3>1. PICK c \in DOMAIN cl : cl[c] = Group(F, T, p)
      BY DEF Grouped
    <3>. QED
      BY <1>4, <1>8, <3>1, BestIs
  <2>3. g = [dim |-> F[q].dim, entries |-> {Entry(F, F[q])}]
    <3>1. Same(F, q, q)
      BY SameIs
    <3>2. {r \in U : Same(F, q, r)} = {q}
      BY <2>2, <3>1 DEF Joined
    <3>3. {Entry(F, F[r]) : r \in {q}} = {Entry(F, F[q])}
      OBVIOUS
    <3>. QED
      BY <1>5, <3>2, <3>3, Zenon DEF Group
  <2>4. new = Append(cl, g)
    BY <2>1, <2>3, Zenon
  <2>5. PICK b : b = Len(cl) + 1
    OBVIOUS
  <2>6. /\ DOMAIN new = DOMAIN cl \cup {b} /\ new \in Seq(G) /\ new[b] = g /\ b \notin DOMAIN cl
        /\ \A k \in DOMAIN cl : new[k] = cl[k]
    BY <1>2, <1>6, <2>4, <2>5
  <2>7. \A k \in DOMAIN cl : ~Fits(F, q, cl[k])
    BY <1>4, <1>8
  <2>. QED
    BY <1>1, <1>5, <1>7, <2>6, <2>7, Regrouped
<1>9. CASE best # {}
  <2>1. PICK b : b = CHOOSE c \in best : \A k \in best : c <= k
    OBVIOUS
  <2>2. b \in best
    <3>1. PICK c \in best : best = {c}
      BY <1>4, <1>9
    <3>2. c \in Nat
      BY <1>2, <1>4, <3>1
    <3>. QED
      BY <2>1, <3>1, <3>2
  <2>3. new = [cl EXCEPT ![b].entries = @ \cup {Entry(F, F[q])}]
    BY <1>3, <1>7, <1>9, <2>1 DEF Place
  <2>4. b \in DOMAIN cl /\ Fits(F, q, cl[b])
    BY <1>4, <2>2
  <2>5. PICK p \in T : cl[b] = Group(F, T, p)
    BY <2>4 DEF Grouped
  <2>6. Same(F, q, p)
    BY <2>4, <2>5, BestIs
  <2>7. Same(F, p, q)
    BY <2>6, SameIs
  <2>8. Group(F, U, p) = [cl[b] EXCEPT !.entries = @ \cup {Entry(F, F[q])}]
    BY <2>5, <2>7, GroupGrows
  <2>9. Group(F, U, p) = g
    <3>1. U \in SUBSET DOMAIN F
      BY DEF Joined
    <3>. QED
      BY <1>5, <2>7, <3>1, SameGroup
  <2>10. new = [cl EXCEPT ![b] = g]
    BY <2>3, <2>4, <2>8, <2>9
  <2>11. /\ DOMAIN new = DOMAIN cl \cup {b} /\ new \in Seq(G) /\ new[b] = g
         /\ \A k \in DOMAIN cl : k # b => new[k] = cl[k]
    <3>1. DOMAIN new = DOMAIN cl /\ new[b] = g /\ \A k \in DOMAIN cl : k # b => new[k] = cl[k]
      BY <2>4, <2>10
    <3>2. new \in Seq(G)
      BY <1>2, <1>6, <2>4, <2>10
    <3>. QED
      BY <2>4, <3>1, <3>2
  <2>12. \A k \in DOMAIN cl : k # b => ~Fits(F, q, cl[k])
    BY <1>4, <2>4
  <2>. QED
    BY <1>1, <1>5, <1>7, <2>4, <2>11, <2>12, Regrouped
<1>. QED
  BY <1>8, <1>9

-----------------------------------------------------------------------------
(* The clusters of some findings, whichever way they are listed.            *)

LEMMA LastListedIs ==
  ASSUME NEW F, Heard(F), NEW P \in SUBSET DOMAIN F, P # {}
  PROVE  LastListed(P) \in P /\ FirstListed(P) \in P
<1>1. IsFiniteSet(P) /\ \A p \in P : p[1] \in Nat /\ p[2] \in Nat
  BY FS_Subset DEF Heard
<1>2. ASSUME NEW z \in {1, -1}
      PROVE  \E p \in P : \A q \in P : /\ z * q[1] <= z * p[1]
                                       /\ q[1] = p[1] => z * q[2] <= z * p[2]
  <2>1. PICK f : f = [p \in P |-> z * p[1]]
    OBVIOUS
  <2>2. \A p \in P : f[p] \in Int
    BY <1>1, <2>1
  <2>3. PICK x \in P : \A q \in P : f[q] <= f[x]
    BY <1>1, <2>2, Greatest
  <2>4. PICK Y : Y = {p \in P : p[1] = x[1]}
    OBVIOUS
  <2>5. IsFiniteSet(Y) /\ Y # {}
    BY <1>1, <2>4, FS_Subset
  <2>6. PICK g : g = [p \in Y |-> z * p[2]]
    OBVIOUS
  <2>7. \A p \in Y : g[p] \in Int
    BY <1>1, <2>4, <2>6
  <2>8. PICK y \in Y : \A q \in Y : g[q] <= g[y]
    BY <2>5, <2>7, Greatest
  <2>9. y \in P /\ y[1] = x[1]
    BY <2>4
  <2>10. \A q \in P : z * q[1] <= z * y[1]
    BY <2>1, <2>3, <2>9
  <2>11. \A q \in P : q[1] = y[1] => z * q[2] <= z * y[2]
    BY <2>4, <2>6, <2>8, <2>9
  <2>. QED
    BY <2>9, <2>10, <2>11
<1>3. PICK l \in P : \A q \in P : ~Ahead(l, q)
  <2>1. PICK p \in P : \A q \in P : 1 * q[1] <= 1 * p[1] /\ (q[1] = p[1] => 1 * q[2] <= 1 * p[2])
    BY <1>2
  <2>2. \A q \in P : ~Ahead(p, q)
    BY <1>1, <2>1 DEF Ahead
  <2>. QED
    BY <2>2
<1>4. PICK f \in P : \A q \in P : ~Ahead(q, f)
  <2>1. PICK z \in {1, -1} : z = -1
    OBVIOUS
  <2>2. PICK p \in P : \A q \in P : /\ z * q[1] <= z * p[1]
                                    /\ q[1] = p[1] => z * q[2] <= z * p[2]
    BY <1>2
  <2>3. \A q \in P : ~Ahead(q, p)
    BY <1>1, <2>1, <2>2 DEF Ahead
  <2>. QED
    BY <2>3
<1>. QED
  BY <1>3, <1>4 DEF LastListed, FirstListed

LEMMA PlacingIs ==
  ASSUME NEW F, Heard(F), NEW listed \in BOOLEAN, NEW t, t = Placing(F, listed)
  PROVE  /\ FoldBase(t) = <<>> /\ \A s : FoldPick(t, s) = Final(listed, s)
         /\ \A x, acc : FoldStep(t, x, acc) = Place(F, acc, F[x])
         /\ Picks(t, DOMAIN F)
<1>1. /\ FoldBase(t) = <<>> /\ \A s : FoldPick(t, s) = Final(listed, s)
      /\ \A x, acc : FoldStep(t, x, acc) = Place(F, acc, F[x])
  BY DEF Placing, FoldBase, FoldPick, FoldStep
<1>2. ASSUME NEW s \in SUBSET DOMAIN F, s # {} PROVE Final(listed, s) \in s
  BY <1>2, LastListedIs DEF Final
<1>. QED
  BY <1>1, <1>2 DEF Picks

LEMMA ClustersFold ==
  ASSUME NEW F, Heard(F), NEW listed \in BOOLEAN, NEW t, t = Placing(F, listed)
  PROVE  Clusters(F, listed) = Fold(t, DOMAIN F)
<1> DEFINE S == DOMAIN F
           Q(g) == g = [s \in SUBSET S |->
                          IF s = {} THEN <<>>
                          ELSE Place(F, g[s \ {Final(listed, s)}], F[Final(listed, s)])]
<1>1. Clusters(F, listed) = (CHOOSE g : Q(g))[S]
  BY Zenon DEF Clusters, MapThenFoldSet, Final
<1>2. /\ Picks(t, S) /\ FoldBase(t) = <<>> /\ \A s : FoldPick(t, s) = Final(listed, s)
      /\ \A x, acc : FoldStep(t, x, acc) = Place(F, acc, F[x])
  BY PlacingIs
<1>3. IsFiniteSet(S)
  BY DEF Heard
<1> HIDE DEF S
<1>4. ASSUME NEW g PROVE Q(g) <=> Folds(t, S, g)
  <2>1. ASSUME NEW s \in SUBSET S
        PROVE  (IF s = {} THEN <<>> ELSE Place(F, g[s \ {Final(listed, s)}], F[Final(listed, s)]))
                 = (IF s = {} THEN FoldBase(t) ELSE FoldStep(t, FoldPick(t, s), g[s \ {FoldPick(t, s)}]))
    <3>1. FoldPick(t, s) = Final(listed, s) /\ FoldBase(t) = <<>>
      BY <1>2, Zenon
    <3>2. FoldStep(t, FoldPick(t, s), g[s \ {FoldPick(t, s)}])
                = Place(F, g[s \ {FoldPick(t, s)}], F[FoldPick(t, s)])
      BY <1>2, Zenon
    <3>. QED
      BY <3>1, <3>2, Zenon
  <2>2. PICK h : h = [s \in SUBSET S |-> IF s = {} THEN <<>>
                        ELSE Place(F, g[s \ {Final(listed, s)}], F[Final(listed, s)])]
    OBVIOUS
  <2>3. PICK k : k = [s \in SUBSET S |-> IF s = {} THEN FoldBase(t)
                        ELSE FoldStep(t, FoldPick(t, s), g[s \ {FoldPick(t, s)}])]
    OBVIOUS
  <2>4. h = k
    BY <2>1, <2>2, <2>3
  <2>5. Q(g) <=> g = h
    BY <2>2
  <2>6. Folds(t, S, g) <=> g = k
    BY <2>3, Zenon DEF Folds
  <2>. QED
    BY <2>4, <2>5, <2>6
<1>5. \E g : Q(g)
  BY <1>2, <1>3, <1>4, FoldExists
<1>6. Q(CHOOSE g : Q(g))
  <2> HIDE DEF Q
  <2>. QED
    BY <1>5
<1> HIDE DEF Q
<1>7. PICK h : h = CHOOSE g : Q(g)
  OBVIOUS
<1>8. h[S] = Fold(t, S)
  BY <1>2, <1>3, <1>4, <1>6, <1>7, FoldIs
<1>. QED
  BY <1>1, <1>7, <1>8 DEF S

LEMMA AllGrouped ==
  ASSUME NEW F, Heard(F), NoBridges, NEW listed \in BOOLEAN
  PROVE  Grouped(F, DOMAIN F, Clusters(F, listed))
<1>1. PICK t : t = Placing(F, listed)
  OBVIOUS
<1>2. /\ Picks(t, DOMAIN F) /\ FoldBase(t) = <<>>
      /\ \A x, acc : FoldStep(t, x, acc) = Place(F, acc, F[x])
  BY <1>1, PlacingIs
<1> DEFINE Bad == {T \in SUBSET DOMAIN F : ~Grouped(F, T, Fold(t, T))}
<1>3. CASE Bad # {}
  <2>1. Bad \in SUBSET SUBSET DOMAIN F /\ IsFiniteSet(DOMAIN F)
    BY DEF Heard
  <2>2. PICK T \in Bad : \A U \in Bad : U \subseteq T => U = T
    <3> HIDE DEF Bad
    <3>. QED
      BY <1>3, <2>1, Least
  <2>3. T \in SUBSET DOMAIN F /\ IsFiniteSet(T) /\ Picks(t, T)
    BY <1>2, <2>1, <2>2, FS_Subset DEF Picks
  <2>4. Fold(t, T) = IF T = {} THEN FoldBase(t) ELSE FoldStep(t, FoldPick(t, T), Fold(t, T \ {FoldPick(t, T)}))
    BY <2>3, FoldUnfolds
  <2>5. CASE T = {}
    <3>1. Fold(t, T) = <<>>
      BY <1>2, <2>4, <2>5
    <3>2. Grouped(F, T, <<>>)
      BY <2>5 DEF Grouped
    <3>. QED
      BY <2>2, <3>1, <3>2
  <2>6. CASE T # {}
    <3>1. PICK q : q = FoldPick(t, T)
      OBVIOUS
    <3>2. q \in T
      BY <2>3, <2>6, <3>1 DEF Picks
    <3>3. PICK U : U = T \ {q}
      OBVIOUS
    <3>4. U \in SUBSET DOMAIN F /\ Grouped(F, U, Fold(t, U)) /\ Joined(U, q, T) /\ q \in DOMAIN F
      BY <2>2, <2>3, <3>2, <3>3 DEF Joined
    <3>5. PICK cl : cl = Fold(t, U)
      OBVIOUS
    <3>6. Grouped(F, T, Place(F, cl, F[q]))
      BY <3>4, <3>5, PlacedGrouped
    <3>7. Fold(t, T) = Place(F, cl, F[q])
      BY <1>2, <2>4, <2>6, <3>1, <3>3, <3>5
    <3>. QED
      BY <2>2, <3>6, <3>7
  <2>. QED
    BY <2>5, <2>6
<1>4. CASE Bad = {}
  <2>1. Grouped(F, DOMAIN F, Fold(t, DOMAIN F))
    BY <1>4
  <2>2. Clusters(F, listed) = Fold(t, DOMAIN F)
    BY <1>1, ClustersFold
  <2>. QED
    BY <2>1, <2>2, Zenon
<1>. QED
  BY <1>3, <1>4

\* They are the groups of findings that make one point.
LEMMA ClustersAre ==
  ASSUME NEW F, Heard(F), NoBridges, NEW listed \in BOOLEAN
  PROVE  Range(Clusters(F, listed)) = {Group(F, DOMAIN F, p) : p \in DOMAIN F}
<1>1. PICK cl : cl = Clusters(F, listed)
  OBVIOUS
<1>2. Grouped(F, DOMAIN F, cl)
  BY <1>1, AllGrouped
<1>3. /\ \A c \in DOMAIN cl : \E p \in DOMAIN F : cl[c] = Group(F, DOMAIN F, p)
      /\ \A p \in DOMAIN F : \E c \in DOMAIN cl : cl[c] = Group(F, DOMAIN F, p)
  BY <1>2 DEF Grouped
<1>4. Range(cl) = {Group(F, DOMAIN F, p) : p \in DOMAIN F}
  BY <1>3 DEF Range
<1>. QED
  BY <1>1, <1>4

LEMMA OrderIsNothing ==
  ASSUME NEW F, Heard(F), NoBridges
  PROVE  /\ Corroborated(F, FALSE) = Corroborated(F, TRUE)
         /\ Thematic(F, FALSE) = Thematic(F, TRUE)
<1>1. Range(Clusters(F, FALSE)) = Range(Clusters(F, TRUE))
  BY ClustersAre
<1>2. Corroborated(F, FALSE) = Corroborated(F, TRUE)
  BY <1>1, Zenon DEF Corroborated
<1>. QED
  BY <1>1, <1>2, Zenon DEF Thematic

-----------------------------------------------------------------------------
(* What an engagement finds.                                                *)

LEMMA InterviewsFinite ==
  ASSUME NEW R, WellFormed(R)
  PROVE  IsFiniteSet(AllInterviews(R))
<1>1. PICK I : I = {{<<i, k>> : k \in DOMAIN R[i].ivs} : i \in DOMAIN R}
  OBVIOUS
<1>2. PICK f : f = [i \in DOMAIN R |-> {<<i, k>> : k \in DOMAIN R[i].ivs}]
  OBVIOUS
<1>3. f \in Surjection(DOMAIN R, I)
  BY <1>1, <1>2 DEF Surjection
<1>4. IsFiniteSet(I)
  BY <1>3, PositionsFinite, FS_Surjection DEF WellFormed
<1>5. ASSUME NEW i \in DOMAIN R PROVE IsFiniteSet({<<i, k>> : k \in DOMAIN R[i].ivs})
  <2>1. R[i].ivs \in Seq(Interview)
    BY RoundIs DEF WellFormed
  <2>2. PICK K : K = {<<i, k>> : k \in DOMAIN R[i].ivs}
    OBVIOUS
  <2>3. PICK g : g = [k \in DOMAIN R[i].ivs |-> <<i, k>>]
    OBVIOUS
  <2>4. g \in Surjection(DOMAIN R[i].ivs, K)
    BY <2>2, <2>3 DEF Surjection
  <2>5. IsFiniteSet(K)
    BY <2>1, <2>4, PositionsFinite, FS_Surjection
  <2>. QED
    BY <2>2, <2>5
<1>6. \A K \in I : IsFiniteSet(K)
  BY <1>1, <1>5
<1>7. IsFiniteSet(UNION I)
  BY <1>4, <1>6, FS_UNION
<1>. QED
  BY <1>1, <1>7 DEF AllInterviews

\* The places of what the interviews said.
Places(R) == UNION {{<<x[1], x[2], d>> : d \in DOMAIN InterviewAt(R, x).says} : x \in AllInterviews(R)}

LEMMA PlacesFinite ==
  ASSUME NEW R, WellFormed(R)
  PROVE  IsFiniteSet(Places(R))
<1>1. PICK X : X = AllInterviews(R)
  OBVIOUS
<1>2. PICK I : I = {{<<x[1], x[2], d>> : d \in DOMAIN InterviewAt(R, x).says} : x \in X}
  OBVIOUS
<1>3. PICK f : f = [x \in X |-> {<<x[1], x[2], d>> : d \in DOMAIN InterviewAt(R, x).says}]
  OBVIOUS
<1>4. f \in Surjection(X, I)
  BY <1>2, <1>3 DEF Surjection
<1>5. IsFiniteSet(I)
  BY <1>1, <1>4, InterviewsFinite, FS_Surjection
<1>6. ASSUME NEW x \in X
      PROVE  IsFiniteSet({<<x[1], x[2], d>> : d \in DOMAIN InterviewAt(R, x).says})
  <2>1. PICK D : D = DOMAIN InterviewAt(R, x).says
    OBVIOUS
  <2>2. InterviewAt(R, x).says \in Partial(Claims)
    BY <1>1, InterviewIs DEF Interview, InterviewType
  <2>3. D \subseteq Dims
    BY <2>1, <2>2, PartialIs
  <2>4. IsFiniteSet(D)
    BY <2>3, DimsAssumption, FS_Subset
  <2>5. PICK K : K = {<<x[1], x[2], d>> : d \in D}
    OBVIOUS
  <2>6. PICK g : g = [d \in D |-> <<x[1], x[2], d>>]
    OBVIOUS
  <2>7. g \in Surjection(D, K)
    BY <2>5, <2>6 DEF Surjection
  <2>8. IsFiniteSet(K)
    BY <2>4, <2>7, FS_Surjection
  <2>. QED
    BY <2>1, <2>5, <2>8
<1>7. \A K \in I : IsFiniteSet(K)
  BY <1>2, <1>6
<1>8. IsFiniteSet(UNION I)
  BY <1>5, <1>7, FS_UNION
<1>. QED
  BY <1>1, <1>2, <1>8 DEF Places

\* A finding is what an interview of the record said of a dimension.
LEMMA FindingIs ==
  ASSUME NEW R, WellFormed(R), NEW F, F = AllFindings(R), NEW p \in DOMAIN F
  PROVE  \E iv \in Interview : /\ F[p].person = iv.person /\ F[p].role = iv.role
                               /\ F[p].name = iv.name /\ F[p].claim \in Claims
                               /\ p[1] \in Nat /\ p[2] \in Nat
<1>1. F = [q \in Places(R) |-> FindingOf(InterviewAt(R, <<q[1], q[2]>>), q[3])]
  BY Zenon DEF AllFindings, Places
<1>2. p \in Places(R) /\ F[p] = FindingOf(InterviewAt(R, <<p[1], p[2]>>), p[3])
  BY <1>1
<1>3. PICK x \in AllInterviews(R) : p \in {<<x[1], x[2], d>> : d \in DOMAIN InterviewAt(R, x).says}
  BY <1>2 DEF Places
<1>4. PICK d \in DOMAIN InterviewAt(R, x).says : p = <<x[1], x[2], d>>
  BY <1>3
<1>5. p[1] = x[1] /\ p[2] = x[2] /\ p[3] = d /\ <<p[1], p[2]>> = x
  BY <1>4, InterviewIs
<1>6. PICK iv \in Interview : iv = InterviewAt(R, x)
  BY InterviewIs
<1>7. F[p] = FindingOf(iv, d)
  BY <1>2, <1>5, <1>6
<1>8. F[p].person = iv.person /\ F[p].role = iv.role /\ F[p].name = iv.name
      /\ F[p].claim = iv.says[d]
  BY <1>7 DEF FindingOf
<1>9. iv.says \in Partial(Claims)
  BY DEF Interview, InterviewType
<1>10. iv.says[d] \in Claims
  BY <1>4, <1>6, <1>9, PartialIs
<1>11. p[1] \in Nat /\ p[2] \in Nat
  <2>1. x[1] \in DOMAIN R /\ R \in Seq(Round)
    BY InterviewIs DEF WellFormed
  <2>2. x[2] \in DOMAIN R[x[1]].ivs /\ R[x[1]].ivs \in Seq(Interview)
    BY InterviewIs
  <2>. QED
    BY <1>5, <2>1, <2>2, PositionsFinite
<1>. QED
  BY <1>8, <1>10, <1>11

LEMMA AllHeard ==
  ASSUME NEW R, WellFormed(R), NEW F, F = AllFindings(R)
  PROVE  Heard(F)
<1>1. DOMAIN F = Places(R)
  BY Zenon DEF AllFindings, Places
<1>2. IsFiniteSet(DOMAIN F)
  BY <1>1, PlacesFinite
<1>3. \A p \in DOMAIN F : F[p].claim \in Claims /\ p[1] \in Nat /\ p[2] \in Nat
  BY FindingIs
<1>. QED
  BY <1>2, <1>3 DEF Heard

\* Two attributions are two people.
LEMMA TellsApart ==
  ASSUME OnePersonOneKey, NEW R, WellFormed(R), NEW F, F = AllFindings(R),
         NEW p \in DOMAIN F, NEW q \in DOMAIN F, Label(F, F[p]) # Label(F, F[q])
  PROVE  F[p].person # F[q].person
<1>1. PICK a \in Interview : F[p].person = a.person /\ F[p].role = a.role /\ F[p].name = a.name
  BY FindingIs
<1>2. PICK b \in Interview : F[q].person = b.person /\ F[q].role = b.role /\ F[q].name = b.name
  BY FindingIs
<1>3. PICK s \in Sittings : a.person = Plan[s].person /\ PersonKey(a) = PersonKey(Plan[s])
  BY DEF Interview, Theirs
<1>4. PICK u \in Sittings : b.person = Plan[u].person /\ PersonKey(b) = PersonKey(Plan[u])
  BY DEF Interview, Theirs
<1>5. SUFFICES ASSUME a.person = b.person PROVE FALSE
  BY <1>1, <1>2
<1>6. PersonKey(a) = PersonKey(b)
  BY <1>3, <1>4, <1>5 DEF OnePersonOneKey
<1>7. a.role = b.role /\ a.name = b.name
  BY <1>6 DEF PersonKey
<1>8. F[p].role = F[q].role /\ F[p].name = F[q].name
  BY <1>1, <1>2, <1>7
<1>9. Label(F, F[p]) = Label(F, F[q])
  BY <1>8, Zenon DEF Label
<1>. QED
  BY <1>9

LEMMA TwoOf ==
  ASSUME NEW S, IsFiniteSet(S), Cardinality(S) >= 2
  PROVE  \E x, y \in S : x # y
<1>1. Cardinality(S) # 0 /\ Cardinality(S) # 1
  BY FS_CardinalityType
<1>2. S # {} /\ ~\E x : S = {x}
  BY <1>1, FS_EmptySet, FS_Singleton
<1>3. PICK x \in S : TRUE
  BY <1>2
<1>. QED
  BY <1>2, <1>3

-----------------------------------------------------------------------------
(* The evidence stands on what people said.                                 *)

AllLabels(F) == {Label(F, F[p]) : p \in DOMAIN F}

LEMMA LabelsFinite ==
  ASSUME NEW F, Heard(F)
  PROVE  IsFiniteSet(AllLabels(F))
<1>1. PICK f : f = [p \in DOMAIN F |-> Label(F, F[p])]
  OBVIOUS
<1>2. f \in Surjection(DOMAIN F, AllLabels(F))
  BY <1>1 DEF Surjection, AllLabels
<1>. QED
  BY <1>2, FS_Surjection DEF Heard

\* Whose an attribution in a cluster is.
LEMMA GroupLabels ==
  ASSUME NEW F, NEW p, NEW c, c = Group(F, DOMAIN F, p)
  PROVE  /\ \A l \in Labels(c) : \E q \in DOMAIN F, e \in c.entries :
               /\ Same(F, p, q) /\ e = Entry(F, F[q]) /\ l = Label(F, F[q])
               /\ e.person = F[q].person /\ e.claim = F[q].claim
         /\ c.dim = F[p].dim
         /\ Labels(c) \subseteq AllLabels(F)
<1>1. ASSUME NEW l \in Labels(c)
      PROVE  \E q \in DOMAIN F, e \in c.entries :
               /\ Same(F, p, q) /\ e = Entry(F, F[q]) /\ l = Label(F, F[q])
               /\ e.person = F[q].person /\ e.claim = F[q].claim
  <2>1. PICK e \in c.entries : l = e.label
    BY DEF Labels
  <2>2. PICK q \in DOMAIN F : Same(F, p, q) /\ e = Entry(F, F[q])
    BY EntryIs
  <2>3. e.label = Label(F, F[q]) /\ e.person = F[q].person /\ e.claim = F[q].claim
    BY <2>2 DEF Entry
  <2>. QED
    BY <2>1, <2>2, <2>3
<1>2. c.dim = F[p].dim
  BY EntryIs
<1>3. Labels(c) \subseteq AllLabels(F)
  BY <1>1 DEF AllLabels
<1>. QED
  BY <1>1, <1>2, <1>3

LEMMA ListedAre ==
  ASSUME NEW F, Heard(F), NoBridges
  PROVE  \A c : c \in Range(Clusters(F, TRUE)) <=> \E p \in DOMAIN F : c = Group(F, DOMAIN F, p)
<1>1. Range(Clusters(F, TRUE)) = {Group(F, DOMAIN F, p) : p \in DOMAIN F}
  BY ClustersAre
<1>. QED
  BY <1>1

Apart(F) ==
  \A p, q \in DOMAIN F : Label(F, F[p]) # Label(F, F[q]) => F[p].person # F[q].person

LEMMA AgreedByTwo ==
  ASSUME NoBridges, NEW F, Heard(F), Apart(F), NEW c \in Corroborated(F, TRUE)
  PROVE  \E e, f \in c.entries : e.person # f.person /\ SameClaim(e.claim, f.claim)
<1>1. c \in Range(Clusters(F, TRUE)) /\ Cardinality(Labels(c)) >= 2
  BY DEF Corroborated
<1>2. PICK p \in DOMAIN F : c = Group(F, DOMAIN F, p)
  BY <1>1, ListedAre
<1>3. IsFiniteSet(Labels(c))
  BY <1>2, GroupLabels, LabelsFinite, FS_Subset
<1>4. PICK k, l \in Labels(c) : k # l
  BY <1>1, <1>3, TwoOf
<1>5. PICK q \in DOMAIN F, e \in c.entries :
        /\ Same(F, p, q) /\ k = Label(F, F[q])
        /\ e.person = F[q].person /\ e.claim = F[q].claim
  BY <1>2, GroupLabels
<1>6. PICK r \in DOMAIN F, f \in c.entries :
        /\ Same(F, p, r) /\ l = Label(F, F[r])
        /\ f.person = F[r].person /\ f.claim = F[r].claim
  BY <1>2, GroupLabels
<1>7. F[q].person # F[r].person
  BY <1>4, <1>5, <1>6 DEF Apart
<1>8. Same(F, q, r)
  BY <1>5, <1>6, SameIs
<1>9. SameClaim(e.claim, f.claim)
  BY <1>5, <1>6, <1>8 DEF Same
<1>. QED
  BY <1>5, <1>6, <1>7, <1>9

LEMMA RaisedByTwo ==
  ASSUME NoBridges, NEW F, Heard(F), Apart(F), NEW d \in Thematic(F, TRUE)
  PROVE  \E p, q \in DOMAIN F : /\ F[p].dim = d /\ F[q].dim = d
                                /\ F[p].person # F[q].person
<1>1. PICK rest : rest = {c \in Range(Clusters(F, TRUE)) :
                            c \notin Corroborated(F, TRUE) /\ c.dim = d}
  OBVIOUS
<1>2. PICK U : U = UNION {Labels(c) : c \in rest}
  OBVIOUS
<1>3. Cardinality(U) >= 2
  BY <1>1, <1>2 DEF Thematic
<1>4. \A c \in rest : c.dim = d /\ \E p \in DOMAIN F : c = Group(F, DOMAIN F, p)
  BY <1>1, ListedAre
<1>5. ASSUME NEW l \in U
      PROVE  \E q \in DOMAIN F : F[q].dim = d /\ l = Label(F, F[q])
  <2>1. PICK c \in rest : l \in Labels(c)
    BY <1>2
  <2>2. PICK p \in DOMAIN F : c = Group(F, DOMAIN F, p) /\ c.dim = d
    BY <1>4
  <2>3. c.dim = F[p].dim
    BY <2>2, GroupLabels
  <2>4. PICK q \in DOMAIN F : Same(F, p, q) /\ l = Label(F, F[q])
    BY <2>1, <2>2, GroupLabels
  <2>. QED
    BY <2>2, <2>3, <2>4 DEF Same
<1>6. U \subseteq AllLabels(F)
  BY <1>5 DEF AllLabels
<1>7. IsFiniteSet(U)
  BY <1>6, LabelsFinite, FS_Subset
<1>8. PICK k, l \in U : k # l
  BY <1>3, <1>7, TwoOf
<1>9. PICK p \in DOMAIN F : F[p].dim = d /\ k = Label(F, F[p])
  BY <1>5
<1>10. PICK q \in DOMAIN F : F[q].dim = d /\ l = Label(F, F[q])
  BY <1>5
<1>. QED
  BY <1>8, <1>9, <1>10 DEF Apart

LEMMA ShownIsCard ==
  ASSUME NEW R, NEW card \in Scorecard(R)
  PROVE  /\ ClientEvidence(R).scores = card.scores
         /\ ClientEvidence(R).maturity = card.maturity
<1>1. ScoredRounds(R) # {} /\ card = CardOf(R)
  BY DEF Scorecard
<1>2. PICK i : i = Latest(R, ScoredRounds(R))
  OBVIOUS
<1>3. PICK o : o = OverallOf(R[i].scores, DimensionWeights(R[i].ivs))
  OBVIOUS
<1>4. LatestScored(R) = i
  BY <1>1, <1>2 DEF LatestScored
<1>5. card.scores = R[i].scores /\ card.maturity = MaturityBand(o)
  BY <1>1, <1>2, <1>3 DEF CardOf
<1>6. ClientEvidence(R).scores = R[i].scores /\ ClientEvidence(R).maturity = MaturityBand(o)
  BY <1>1, <1>3, <1>4 DEF ClientEvidence
<1>. QED
  BY <1>5, <1>6

LEMMA EvidenceStands ==
  ASSUME OnePersonOneKey, NoBridges, RoundsInv
  PROVE  EvidenceHolds
<1> DEFINE F == AllFindings(rounds)
           ev == ClientEvidence(rounds)
<1>1. F = AllFindings(rounds)
  OBVIOUS
<1>2. ev = ClientEvidence(rounds)
  OBVIOUS
<1> HIDE DEF F, ev
<1>3. WellFormed(rounds) /\ Heard(F) /\ Apart(F)
  BY <1>1, AllHeard, TellsApart DEF RoundsInv, Apart
<1>4. ev.confirmed = Corroborated(F, TRUE)
  BY <1>1, <1>2 DEF ClientEvidence
<1>5. \A card \in Scorecard(rounds) : ev.scores = card.scores /\ ev.maturity = card.maturity
  BY <1>2, ShownIsCard
<1>6. \A c \in ev.confirmed :
        \E e, f \in c.entries : e.person # f.person /\ SameClaim(e.claim, f.claim)
  <2>1. ASSUME NEW c \in Corroborated(F, TRUE)
        PROVE  \E e, f \in c.entries : e.person # f.person /\ SameClaim(e.claim, f.claim)
    BY <1>3, AgreedByTwo
  <2>. QED
    BY <1>4, <2>1
<1>7. \A d \in Thematic(F, TRUE) :
        \E p, q \in DOMAIN F : /\ F[p].dim = d /\ F[q].dim = d
                               /\ F[p].person # F[q].person
  BY <1>3, RaisedByTwo
<1>8. Corroborated(F, FALSE) = ev.confirmed /\ Thematic(F, FALSE) = Thematic(F, TRUE)
  BY <1>3, <1>4, OrderIsNothing
<1>. QED
  BY <1>5, <1>6, <1>7, <1>8, Zenon DEF F, ev, EvidenceHolds

\* Whatever lands where, a score carried into a round is known as unconfirmed to
\* whoever sat that round: the page that closes a round never tells the next
\* interview that a carried number was measured.
THEOREM CarriedScores == RoundsSpec => []CarriedIsFlagged
<1>1. RoundsInv => CarriedIsFlagged
  BY CarriedHolds DEF RoundsInv
<1>. QED
  BY RoundsStart, RoundsStep, <1>1, PTL DEF RoundsSpec

\* Where a role and a name are one person, the words kept of a person are that
\* person's in every later round, however the rounds have changed since.
THEOREM OwnWords ==
  ASSUME OnePersonOneKey
  PROVE  RoundsSpec => []QuotedWordsAreTheirs
<1>1. Remembered => QuotedWordsAreTheirs
  BY QuotedHolds
<1>2. RoundsInit => RoundsInv /\ Remembered
  BY RoundsStart, RememberedStart
<1>3. RoundsInv /\ Remembered /\ [RoundsNext]_roundVars => (RoundsInv /\ Remembered)'
  BY RoundsStep, RememberedStep
<1>. QED
  BY <1>1, <1>2, <1>3, PTL DEF RoundsSpec

\* With claims none of which makes one point with each of two that differ, all of
\* it: what the solution design is told as agreed two people said, what it is
\* told several raised two people raised, its maturity is the card's, and the
\* order the interviews came in changes nothing.
THEOREM Attribution ==
  ASSUME OnePersonOneKey, NoBridges
  PROVE  RoundsSpec => []NothingMisattributed
<1>1. RoundsInv /\ Remembered => NothingMisattributed
  BY CarriedHolds, QuotedHolds, EvidenceStands DEF NothingMisattributed, RoundsInv
<1>2. RoundsInit => RoundsInv /\ Remembered
  BY RoundsStart, RememberedStart
<1>3. RoundsInv /\ Remembered /\ [RoundsNext]_roundVars => (RoundsInv /\ Remembered)'
  BY RoundsStep, RememberedStep
<1>. QED
  BY <1>1, <1>2, <1>3, PTL DEF RoundsSpec
=============================================================================
