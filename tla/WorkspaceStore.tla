--------------------------- MODULE WorkspaceStore ---------------------------
(***************************************************************************)
(* The workspace of one tenant: the browser's vyneStore                    *)
(* (frontend/vyne-client.js), in as many tabs as are open, over            *)
(* /api/module-state (routes/moduleState.ts) with the version column of    *)
(* migrations 018 and 022, and the server's own rewrites of the same rows. *)
(*                                                                         *)
(* A document is the set of edits it incorporates.  A module edits by      *)
(* reading a whole document from its tab's cache, changing it and writing  *)
(* it back, so an edit is in a document exactly when some save that built  *)
(* on it put it there, and is lost when a save that did not replaces it.   *)
(*                                                                         *)
(* The browser keeps, of a row it has read, only the version.  The model   *)
(* keeps the row: its value and its life, the number of times the key had  *)
(* been created by then, are what the properties compare.                  *)
(***************************************************************************)
EXTENDS Naturals, FiniteSets

CONSTANTS
  Tabs,         \* open pages of the firm's consultants
  Keys,         \* keys of the namespace 'workspace'
  Edits,        \* what their users will do, each edit once
  By,           \* the tab that makes an edit
  On,           \* the key it changes
  Jobs,         \* server-side rewrites: completions, renames, purges
  None,         \* undefined
  MaxFlights,   \* bound on the PUTs a tab has on their way
  Troubles,     \* what else may happen: failures, refusals, removals, ...
  MaxTroubles   \* bound on how often

ASSUME EditAssumption == By \in [Edits -> Tabs] /\ On \in [Edits -> Keys]

ASSUME BoundAssumption ==
  /\ MaxFlights \in Nat /\ MaxTroubles \in Nat
  /\ Troubles \subseteq {"fail", "refuse", "remove", "leave", "rehydrate", "garbled"}

VARIABLES
  store,        \* rows of module_state
  page,         \* where each tab is in its life
  cache,        \* cache: documents as the modules of a tab read them
  basis,        \* versions: the row each key of the cache was read from
  sets,         \* dirty.sets
  deletes,      \* dirty.deletes
  timer,        \* flushTimer is running
  arriving,     \* answer to the boot GET, on its way
  flights,      \* PUTs sent and not forgotten
  job,          \* progress of each server-side rewrite
  edits,        \* what became of each edit
  used          \* troubles so far

tabVars == <<cache, basis, sets, deletes, timer>>
vars == <<store, page, tabVars, arriving, flights, job, edits, used>>

Value == SUBSET (Edits \cup Jobs)

\* Version 0 is no row; the next one created is of a later life.
Row == [version : Nat, value : Value, life : Nat]

ASSUME NoneAssumption == None \notin Row /\ \A v \in Value : v # None

Documents == [Keys -> {None} \cup Value]
Rows == [Keys -> {None} \cup Row]

Nothing == [k \in Keys |-> None]

NoRow == [version |-> 0, value |-> {}, life |-> 0]

Flight == [tab : Tabs, nr : 1 .. MaxFlights, sets : Documents, deletes : SUBSET Keys,
           expected : Rows, sync : BOOLEAN, listening : BOOLEAN,
           step : {"sent", "ok", "conflict"}, conflicts : Rows, applied : Rows]

-----------------------------------------------------------------------------
(* The server.                                                              *)

\* module_state_bump_version gone: writers other than the PUT leave the version.
Upsert_untriggered(row, v) ==
  IF row.version = 0 THEN [version |-> 1, value |-> v, life |-> row.life + 1]
  ELSE [row EXCEPT !.value = v]

\* INSERT ... ON CONFLICT DO UPDATE under the trigger: only a changed value
\* moves the version.
Upsert(row, v) ==
  IF row.version = 0 THEN [version |-> 1, value |-> v, life |-> row.life + 1]
  ELSE [row EXCEPT !.value = v, !.version = IF v = row.value THEN @ ELSE @ + 1]

Deleted(row) == [row EXCEPT !.version = 0, !.value = {}]

\* versionsFor: a key the tab has no version of is sent without one.
Unconditional(expected) == expected = None \/ expected.version = 0

\* The PUT without its WHERE.
Accepts_always(row, expected) == TRUE

\* The WHERE of the conditional write.  A row that is gone is inserted,
\* whatever version was expected.
Accepts(row, expected) ==
  \/ row.version = 0
  \/ Unconditional(expected)
  \/ expected.version = row.version

Written(f, k) == f.sets[k] # None /\ Accepts(store[k], f.expected[k])

Conflicts(f, k) == f.sets[k] # None /\ ~Accepts(store[k], f.expected[k])

AfterSets(f, k) == IF Written(f, k) THEN Upsert(store[k], f.sets[k]) ELSE store[k]

\* The transaction of PUT /api/module-state/workspace: each set on its own
\* version, then the deletes, on none.
StoreAfter(f) ==
  [k \in Keys |-> IF k \in f.deletes THEN Deleted(AfterSets(f, k)) ELSE AfterSets(f, k)]

\* 409 with the current row of every key refused and the version of every key
\* written, or 200 with a body nobody reads.
Answered(f) ==
  [f EXCEPT !.step = IF \E k \in Keys : Conflicts(f, k) THEN "conflict" ELSE "ok",
            !.conflicts = [k \in Keys |-> IF Conflicts(f, k) THEN store[k] ELSE None],
            !.applied = [k \in Keys |-> IF Written(f, k) THEN AfterSets(f, k) ELSE None]]

-----------------------------------------------------------------------------
(* The queue of a tab.                                                      *)

Queued(t) == sets[t] # Nothing \/ deletes[t] # {}

FlightsOf(t) == {f \in flights : f.tab = t}

FreeNr(t) == {n \in 1 .. MaxFlights : \A f \in FlightsOf(t) : f.nr # n}

NewFlight(t, s, d, sync) ==
  [tab |-> t, nr |-> CHOOSE n \in FreeNr(t) : TRUE,
   sets |-> s, deletes |-> d,
   expected |-> [k \in Keys |-> IF s[k] = None THEN None ELSE basis[t][k]],
   sync |-> sync, listening |-> TRUE, step |-> "sent",
   conflicts |-> Nothing, applied |-> Nothing]

\* Before v5.32.58 a failed flush was only logged.
Requeue_nothing(t, s, d) == UNCHANGED <<sets, deletes>>

\* requeue: newer sets win over older ones.
Requeue(t, s, d) ==
  /\ sets' = [sets EXCEPT ![t] =
                [k \in Keys |-> IF sets[t][k] = None THEN s[k] ELSE sets[t][k]]]
  /\ deletes' = [deletes EXCEPT ![t] = @ \cup d]

\* The work is back on the queue and nothing will send it.
ScheduleRetry_unarmed(t) == UNCHANGED timer

ScheduleRetry(t) == timer' = [timer EXCEPT ![t] = TRUE]

Drain(t) ==
  /\ sets' = [sets EXCEPT ![t] = Nothing]
  /\ deletes' = [deletes EXCEPT ![t] = {}]

Spend(trouble) == trouble \in Troubles /\ used < MaxTroubles /\ used' = used + 1

\* Edits nobody owes their user any more: the page said so, or is gone.
Waive(excused) ==
  edits' = [e \in Edits |->
              IF edits[e] = "owed" /\ e \in excused THEN "waived" ELSE edits[e]]

Unstored(t) == {e \in Edits : By[e] = t /\ e \notin store[On[e]].value}

\* Requests of a page that is gone may still arrive; nobody hears the answer.
Abandoned(t) ==
  {IF f.tab = t THEN [f EXCEPT !.listening = FALSE] ELSE f :
     f \in {g \in flights : g.tab # t \/ g.step = "sent"}}

-----------------------------------------------------------------------------
Init ==
  /\ \E present \in SUBSET Keys :
       store = [k \in Keys |->
                  IF k \in present THEN [version |-> 1, value |-> {}, life |-> 1]
                  ELSE NoRow]
  /\ page = [t \in Tabs |-> "closed"]
  /\ cache = [t \in Tabs |-> Nothing]
  /\ basis = [t \in Tabs |-> Nothing]
  /\ sets = [t \in Tabs |-> Nothing]
  /\ deletes = [t \in Tabs |-> {}]
  /\ timer = [t \in Tabs |-> FALSE]
  /\ arriving = [t \in Tabs |-> [k \in Keys |-> NoRow]]
  /\ flights = {}
  /\ job = [j \in Jobs |-> [step |-> "new", key |-> None, value |-> {}]]
  /\ edits = [e \in Edits |-> "unmade"]
  /\ used = 0

-----------------------------------------------------------------------------
(* Loading a page.                                                          *)

\* startHydration: the GET is sent while the page is parsed.
Load(t) ==
  /\ page[t] = "closed"
  /\ page' = [page EXCEPT ![t] = "loading"]
  /\ UNCHANGED <<store, tabVars, arriving, flights, job, edits, used>>

\* The server answers it from one snapshot, which may be old on arrival.
ServeGet(t) ==
  /\ page[t] = "loading"
  /\ page' = [page EXCEPT ![t] = "answered"]
  /\ arriving' = [arriving EXCEPT ![t] = store]
  /\ UNCHANGED <<store, tabVars, flights, job, edits, used>>

\* cache and versions are replaced by what the server said.
Hydrate(t, rows) ==
  /\ cache' = [cache EXCEPT ![t] =
                 [k \in Keys |-> IF rows[k].version = 0 THEN None ELSE rows[k].value]]
  /\ basis' = [basis EXCEPT ![t] = rows]

GetArrives(t) ==
  /\ page[t] = "answered"
  /\ Hydrate(t, arriving[t])
  /\ page' = [page EXCEPT ![t] = "open"]
  /\ arriving' = [arriving EXCEPT ![t] = [k \in Keys |-> NoRow]]
  /\ UNCHANGED <<store, sets, deletes, timer, flights, job, edits, used>>

GetFails(t) ==
  /\ page[t] \in {"loading", "answered"}
  /\ Spend("fail")
  /\ page' = [page EXCEPT ![t] = "failed"]
  /\ arriving' = [arriving EXCEPT ![t] = [k \in Keys |-> NoRow]]
  /\ UNCHANGED <<store, tabVars, flights, job, edits>>

\* No load has succeeded, and no store access has tried one of its own.
Waiting == {"loading", "answered", "failed"}

\* A store access before the answer: the GET is aborted and a blocking one
\* takes its place.
SyncHydrate(t) ==
  /\ page[t] \in Waiting
  /\ Hydrate(t, store)
  /\ page' = [page EXCEPT ![t] = "open"]
  /\ arriving' = [arriving EXCEPT ![t] = [k \in Keys |-> NoRow]]
  /\ UNCHANGED <<store, sets, deletes, timer, flights, job, edits, used>>

\* HYDRATED stays false: setItem and removeItem refuse from here on.
SyncHydrateFails(t) ==
  /\ page[t] \in Waiting
  /\ Spend("fail")
  /\ page' = [page EXCEPT ![t] = "readonly"]
  /\ arriving' = [arriving EXCEPT ![t] = [k \in Keys |-> NoRow]]
  /\ UNCHANGED <<store, tabVars, flights, job, edits>>

\* A 200 that does not parse is answered with an empty state, not with null:
\* the page opens on an empty cache, with no versions.
SyncHydrateGarbled(t) ==
  /\ page[t] \in Waiting
  /\ Spend("garbled")
  /\ page' = [page EXCEPT ![t] = "open"]
  /\ arriving' = [arriving EXCEPT ![t] = [k \in Keys |-> NoRow]]
  /\ UNCHANGED <<store, tabVars, flights, job, edits>>

-----------------------------------------------------------------------------
(* Editing and saving.                                                      *)

\* A module's read-modify-write: getItem, then setItem with its edit added.
SetItem(e) ==
  LET t == By[e]
      k == On[e]
      doc == (IF cache[t][k] = None THEN {} ELSE cache[t][k]) \cup {e}
  IN  /\ edits[e] = "unmade" /\ page[t] = "open"
      /\ edits' = [edits EXCEPT ![e] = "owed"]
      /\ cache' = [cache EXCEPT ![t][k] = doc]
      /\ sets' = [sets EXCEPT ![t][k] = doc]
      /\ deletes' = [deletes EXCEPT ![t] = @ \ {k}]
      /\ timer' = [timer EXCEPT ![t] = TRUE]
      /\ UNCHANGED <<store, page, basis, arriving, flights, job, used>>

RemoveItem(t, k) ==
  /\ page[t] = "open"
  /\ Spend("remove")
  /\ cache' = [cache EXCEPT ![t][k] = None]
  /\ sets' = [sets EXCEPT ![t][k] = None]
  /\ deletes' = [deletes EXCEPT ![t] = @ \cup {k}]
  /\ timer' = [timer EXCEPT ![t] = TRUE]
  /\ Waive({e \in Edits : By[e] = t /\ On[e] = k})
  /\ UNCHANGED <<store, page, basis, arriving, flights, job>>

\* flush: on its timer, or early when the tab is hidden or a module asks.  The
\* queue is emptied before the request goes out.
Flush(t) ==
  /\ page[t] = "open" /\ Queued(t) /\ FreeNr(t) # {}
  /\ flights' = flights \cup {NewFlight(t, sets[t], deletes[t], FALSE)}
  /\ Drain(t)
  /\ timer' = [timer EXCEPT ![t] = FALSE]
  /\ UNCHANGED <<store, page, cache, basis, arriving, job, edits, used>>

\* The server commits a PUT, in whatever order they reach it.
ServePut(f) ==
  /\ f \in flights /\ f.step = "sent"
  /\ store' = StoreAfter(f)
  /\ flights' = (flights \ {f}) \cup (IF f.listening THEN {Answered(f)} ELSE {})
  /\ UNCHANGED <<page, tabVars, arriving, job, edits, used>>

\* 200: the page reads neither the versions nor anything else.
Saved(f) ==
  /\ f \in flights /\ f.step = "ok" /\ ~f.sync /\ page[f.tab] = "open"
  /\ flights' = flights \ {f}
  /\ UNCHANGED <<store, page, tabVars, arriving, job, edits, used>>

\* onVersionConflict: the server's row becomes what this tab reads and writes
\* on, and the refused document goes back on the queue as it was.
OnVersionConflict(f) ==
  LET t == f.tab
      refused == {k \in Keys : f.conflicts[k] # None}
  IN  /\ f \in flights /\ f.step = "conflict" /\ ~f.sync /\ page[t] = "open"
      /\ flights' = flights \ {f}
      /\ basis' = [basis EXCEPT ![t] =
                     [k \in Keys |-> IF k \in refused THEN f.conflicts[k]
                                     ELSE IF f.applied[k] # None THEN f.applied[k]
                                     ELSE @[k]]]
      /\ cache' = [cache EXCEPT ![t] =
                     [k \in Keys |-> IF k \in refused THEN f.conflicts[k].value ELSE @[k]]]
      /\ Requeue(t, [k \in Keys |-> IF k \in refused THEN f.sets[k] ELSE None], {})
      /\ ScheduleRetry(t)
      /\ UNCHANGED <<store, page, arriving, job, edits, used>>

\* 429, 5xx or no answer: the work goes back on the queue.  Without an answer
\* the server may have committed it, or may yet.
Fails(f) ==
  /\ f \in flights /\ f.listening /\ ~f.sync /\ page[f.tab] = "open"
  /\ Spend("fail")
  /\ \/ flights' = flights \ {f}
     \/ /\ f.step = "sent"
        /\ flights' = (flights \ {f}) \cup {[f EXCEPT !.listening = FALSE]}
  /\ Requeue(f.tab, f.sets, f.deletes)
  /\ ScheduleRetry(f.tab)
  /\ UNCHANGED <<store, page, cache, basis, arriving, job, edits>>

\* Any other 4xx: "Not saved, reload to recover".
Rejected(f) ==
  /\ f \in flights /\ f.step = "sent" /\ f.listening /\ ~f.sync /\ page[f.tab] = "open"
  /\ Spend("refuse")
  /\ flights' = flights \ {f}
  /\ Waive({e \in Edits : f.sets[On[e]] # None /\ e \in f.sets[On[e]]} \cap Unstored(f.tab))
  /\ UNCHANGED <<store, page, tabVars, arriving, job>>

\* A request nobody waits for is dropped by the network.
Vanishes(f) ==
  /\ f \in flights /\ ~f.listening
  /\ flights' = flights \ {f}
  /\ UNCHANGED <<store, page, tabVars, arriving, job, edits, used>>

-----------------------------------------------------------------------------
(* Leaving a page, and reading it again.                                    *)

\* flushNow: a blocking PUT, from pagehide or beforeunload or from rehydrate.
\* While the page waits for it nothing else of the tab runs.
FlushNow(t, s, d) ==
  /\ timer' = [timer EXCEPT ![t] = FALSE]
  /\ Drain(t)
  /\ IF s = Nothing /\ d = {} THEN UNCHANGED flights
     ELSE /\ FreeNr(t) # {}
          /\ flights' = flights \cup {NewFlight(t, s, d, TRUE)}

Blocked(t) == \E f \in flights : f.tab = t /\ f.sync /\ f.listening

Leave(t) ==
  /\ page[t] = "open"
  /\ Spend("leave")
  /\ page' = [page EXCEPT ![t] = "leaving"]
  /\ FlushNow(t, sets[t], deletes[t])
  /\ UNCHANGED <<store, cache, basis, arriving, job, edits>>

Rereading == {"rereading", "recovering"}

\* rehydrate, after the server rewrote keys behind the store's back: what is
\* queued for the dropped keys is discarded on purpose, the rest is flushed.
Rehydrate(t) ==
  /\ page[t] \in {"open", "readonly"}
  /\ Spend("rehydrate")
  /\ page' = [page EXCEPT ![t] = IF @ = "open" THEN "rereading" ELSE "recovering"]
  /\ \E dropped \in SUBSET Keys :
       /\ FlushNow(t, [k \in Keys |-> IF k \in dropped THEN None ELSE sets[t][k]],
                   deletes[t] \ dropped)
       /\ Waive({e \in Edits : On[e] \in dropped} \cap Unstored(t))
  /\ UNCHANGED <<store, cache, basis, arriving, job>>

\* The blocking PUT is answered: anything but a 2xx puts the work back, and
\* starts no timer.
FlushNowReturns(f) ==
  /\ f \in flights /\ f.sync /\ f.listening /\ f.step # "sent"
  /\ flights' = flights \ {f}
  /\ IF f.step = "ok" THEN UNCHANGED <<sets, deletes>> ELSE Requeue(f.tab, f.sets, f.deletes)
  /\ UNCHANGED <<store, page, cache, basis, timer, arriving, job, edits, used>>

\* The request as it was sent, on its way to the server with nobody waiting.
Unheard(f, nr) ==
  [f EXCEPT !.nr = nr, !.listening = FALSE, !.step = "sent",
            !.conflicts = Nothing, !.applied = Nothing]

\* It fails, or it throws and a copy that nobody waits for is sent, perhaps
\* behind a request that is still under way itself.
FlushNowFails(f) ==
  /\ f \in flights /\ f.sync /\ f.listening
  /\ Spend("fail")
  /\ \/ flights' = flights \ {f}
     \/ flights' = (flights \ {f}) \cup {Unheard(f, f.nr)}
     \/ /\ f.step = "sent"
        /\ \E nr \in FreeNr(f.tab) :
             flights' = (flights \ {f}) \cup {Unheard(f, f.nr), Unheard(f, nr)}
  /\ Requeue(f.tab, f.sets, f.deletes)
  /\ UNCHANGED <<store, page, cache, basis, timer, arriving, job, edits>>

\* The document is gone with its store.
Closes(t) ==
  /\ page' = [page EXCEPT ![t] = "closed"]
  /\ cache' = [cache EXCEPT ![t] = Nothing]
  /\ basis' = [basis EXCEPT ![t] = Nothing]
  /\ Drain(t)
  /\ timer' = [timer EXCEPT ![t] = FALSE]
  /\ flights' = Abandoned(t)
  /\ Waive(Unstored(t))
  /\ UNCHANGED <<store, arriving, job>>

Leaves(t) ==
  /\ page[t] = "leaving" /\ ~Blocked(t)
  /\ Closes(t)
  /\ UNCHANGED used

\* The user stays, or the page comes back from the browser's cache.
Stays(t) ==
  /\ page[t] = "leaving" /\ ~Blocked(t)
  /\ page' = [page EXCEPT ![t] = "open"]
  /\ UNCHANGED <<store, tabVars, arriving, flights, job, edits, used>>

\* 401 or 403: onAuthFailure sends the page to the sign-in shell.
AuthFails(f) ==
  /\ f \in flights /\ f.step = "sent" /\ f.listening /\ ~f.sync /\ page[f.tab] = "open"
  /\ Spend("refuse")
  /\ Closes(f.tab)

\* The second half of rehydrate: the cache is the server's, and whatever the
\* flush put back on the queue is cleared with it.
RehydrateReads(t) ==
  /\ page[t] \in Rereading /\ ~Blocked(t)
  /\ Hydrate(t, store)
  /\ Drain(t)
  /\ page' = [page EXCEPT ![t] = "open"]
  /\ UNCHANGED <<store, timer, arriving, flights, job, edits, used>>

\* The same answer that does not parse: an empty cache on the old versions.
RehydrateGarbled(t) ==
  /\ page[t] \in Rereading /\ ~Blocked(t)
  /\ Spend("garbled")
  /\ cache' = [cache EXCEPT ![t] = Nothing]
  /\ Drain(t)
  /\ page' = [page EXCEPT ![t] = "open"]
  /\ UNCHANGED <<store, basis, timer, arriving, flights, job, edits>>

\* HYDRATED is what it was.
RehydrateFails(t) ==
  /\ page[t] \in Rereading /\ ~Blocked(t)
  /\ Spend("fail")
  /\ page' = [page EXCEPT ![t] = IF @ = "recovering" THEN "readonly" ELSE "open"]
  /\ UNCHANGED <<store, tabVars, arriving, flights, job, edits>>

-----------------------------------------------------------------------------
(* The server's own writers, which read a row and write it back in one      *)
(* transaction, at the default isolation level and with no version.         *)

JobReads(j) ==
  /\ job[j].step = "new"
  /\ \E k \in Keys :
       job' = [job EXCEPT ![j] = [step |-> "read", key |-> k, value |-> store[k].value]]
  /\ UNCHANGED <<store, page, tabVars, arriving, flights, edits, used>>

\* A completed interview merged into its engagement, a renamed client's record.
JobWrites(j) ==
  /\ job[j].step = "read"
  /\ LET k == job[j].key IN
       store' = [store EXCEPT ![k] = Upsert(@, job[j].value \cup {j})]
  /\ job' = [job EXCEPT ![j] = [step |-> "done", key |-> None, value |-> {}]]
  /\ UNCHANGED <<page, tabVars, arriving, flights, edits, used>>

\* A client removed, or the old name of a renamed one.
JobDeletes(j) ==
  /\ job[j].step = "read"
  /\ store' = [store EXCEPT ![job[j].key] = Deleted(@)]
  /\ job' = [job EXCEPT ![j] = [step |-> "done", key |-> None, value |-> {}]]
  /\ UNCHANGED <<page, tabVars, arriving, flights, edits, used>>

-----------------------------------------------------------------------------
Next ==
  \/ \E t \in Tabs : Load(t)
  \/ \E t \in Tabs : ServeGet(t)
  \/ \E t \in Tabs : GetArrives(t)
  \/ \E t \in Tabs : GetFails(t)
  \/ \E t \in Tabs : SyncHydrate(t)
  \/ \E t \in Tabs : SyncHydrateFails(t)
  \/ \E t \in Tabs : SyncHydrateGarbled(t)
  \/ \E e \in Edits : SetItem(e)
  \/ \E t \in Tabs, k \in Keys : RemoveItem(t, k)
  \/ \E t \in Tabs : Flush(t)
  \/ \E f \in flights : ServePut(f)
  \/ \E f \in flights : Saved(f)
  \/ \E f \in flights : OnVersionConflict(f)
  \/ \E f \in flights : Fails(f)
  \/ \E f \in flights : Rejected(f)
  \/ \E f \in flights : AuthFails(f)
  \/ \E f \in flights : Vanishes(f)
  \/ \E t \in Tabs : Leave(t)
  \/ \E t \in Tabs : Leaves(t)
  \/ \E t \in Tabs : Stays(t)
  \/ \E t \in Tabs : Rehydrate(t)
  \/ \E f \in flights : FlushNowReturns(f)
  \/ \E f \in flights : FlushNowFails(f)
  \/ \E t \in Tabs : RehydrateReads(t)
  \/ \E t \in Tabs : RehydrateGarbled(t)
  \/ \E t \in Tabs : RehydrateFails(t)
  \/ \E j \in Jobs : JobReads(j)
  \/ \E j \in Jobs : JobWrites(j)
  \/ \E j \in Jobs : JobDeletes(j)

Spec == Init /\ [][Next]_vars

\* A running timer fires, the server answers a request somebody waits for, the
\* browser runs the handler of an answer, and no request travels for ever.
Fairness ==
  /\ \A t \in Tabs : WF_vars(timer[t] /\ Flush(t))
  /\ WF_vars(\E f \in flights : f.listening /\ ServePut(f))
  /\ WF_vars(\E f \in flights : Saved(f))
  /\ WF_vars(\E f \in flights : OnVersionConflict(f))
  /\ WF_vars(\E f \in flights : ~f.listening /\ (ServePut(f) \/ Vanishes(f)))

FairSpec == Spec /\ Fairness

-----------------------------------------------------------------------------
(* Properties                                                               *)

TypeOK ==
  /\ store \in [Keys -> Row]
  /\ page \in [Tabs -> {"closed", "loading", "answered", "failed", "readonly",
                        "open", "leaving", "rereading", "recovering"}]
  /\ cache \in [Tabs -> Documents]
  /\ basis \in [Tabs -> Rows]
  /\ sets \in [Tabs -> Documents]
  /\ deletes \in [Tabs -> SUBSET Keys]
  /\ timer \in [Tabs -> BOOLEAN]
  /\ arriving \in [Tabs -> [Keys -> Row]]
  /\ flights \subseteq Flight
  /\ job \in [Jobs -> [step : {"new", "read", "done"}, key : Keys \cup {None}, value : Value]]
  /\ edits \in [Edits -> {"unmade", "owed", "waived"}]
  /\ used \in Nat

\* b is row, or an older version of its life, or of an earlier life.
Precedes(b, row) ==
  \/ b = row
  \/ b.life < row.life
  \/ /\ b.life = row.life
     /\ row.version = 0 \/ (0 < b.version /\ b.version < row.version)

\* b was the row of k at some time.
WasRow(b, k) == Precedes(b, store[k])

\* Whoever rewrites a row, the tabs or the server's own jobs, a version stands
\* for one value: every row a tab was told of, in its cache, on its way or
\* promised by a request, is the stored one or one the key has left for good.
VersionsNameValues ==
  /\ \A t \in Tabs, k \in Keys :
       /\ basis[t][k] # None => WasRow(basis[t][k], k)
       /\ page[t] = "answered" => WasRow(arriving[t][k], k)
  /\ \A f \in flights, k \in Keys :
       /\ f.expected[k] # None => WasRow(f.expected[k], k)
       /\ f.conflicts[k] # None => WasRow(f.conflicts[k], k)
       /\ f.applied[k] # None => WasRow(f.applied[k], k)

\* Only a tab that was told the firm's state saves, "otherwise the first save
\* read-modify-writes the whole blob from an empty cache and wipes every other
\* client's work": each key it sends rests on a row it read, if only an absent one.
SavesFollowALoad ==
  \A f \in flights, k \in Keys : f.sets[k] # None => f.expected[k] # None

\* The same of everything a tab may yet send: its page, its queue, and what the
\* answer to a request may put back on the queue.
LoadInv ==
  /\ SavesFollowALoad
  /\ \A t \in Tabs, k \in Keys :
       page[t] \in {"open", "leaving", "rereading"} \/ sets[t][k] # None => basis[t][k] # None
  /\ \A f \in flights, k \in Keys :
       f.listening /\ f.sets[k] # None => basis[f.tab][k] # None

\* The WHERE of the PUT, over lost answers, late originals beside their retries
\* and rewrites by the server: a save that would be accepted replaces the very
\* row its tab was last told of, by a load or by a refusal, and never one the
\* tab has not seen; unless the key was created since the tab read it.  It says
\* nothing of what the document holds: a refused one is sent again as it was,
\* and then replaces the edits or the merge its tab was told of.
SavesReplaceWhatWasRead ==
  \A f \in flights, k \in Keys :
    f.step = "sent" /\ store[k].version > 0 /\ f.expected[k] # None /\ Written(f, k) =>
      f.expected[k].life < store[k].life \/ f.expected[k] = store[k]

\* An edit its page has neither lost leave to save nor reported as refused is
\* stored, on its way or queued.
EditsSurvive ==
  \A e \in Edits : edits[e] = "owed" =>
    LET k == On[e]
        t == By[e]
    IN  \/ e \in store[k].value
        \/ sets[t][k] # None /\ e \in sets[t][k]
        \/ \E f \in FlightsOf(t) : f.listening /\ f.sets[k] # None /\ e \in f.sets[k]

\* Through lost requests and answers, 429s and 500s, what a user typed is
\* stored in the end.
EditsReachTheServer ==
  \A e \in Edits : edits[e] = "owed" ~> e \in store[On[e]].value \/ edits[e] = "waived"

\* No edit is lost on the way, and none is sent from a page that never learned
\* what it would replace.
NoEditLost == EditsSurvive /\ LoadInv
=============================================================================
