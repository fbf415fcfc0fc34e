# TLA+ models of VYNE

VYNE is a multi-tenant consulting product: a Fastify backend over PostgreSQL
(`src/backend`), static browser pages that share one client library
(`src/frontend/vyne-client.js`), calls to language-model vendors, some of them
paid with a client's own key, and spoken interviews that a browser holds with a
vendor's live model. This directory holds TLA+ models of the parts whose
correctness depends on the order in which several actors do things, the TLC
configurations that check them on small instances, and TLAPS proofs that carry
the most important results to every value of the constants.

| part | modules | checked by | proved in |
|---|---|---|---|
| live-session ledger | `LiveLedger`, abstract `HoldAccount` | `live_ledger` | `LiveSessionProofs` |
| client keys and the gateway | `ClientKeys` | `keys` | `ClientKeysProofs` |
| workspace synchronisation | `WorkspaceStore` | `workspace_saves`, `workspace_retries` | `WorkspaceProofs` |
| clients inside a firm | `ClientScope` | `clients` | `ClientScopeProofs` |
| interviews by link and their merge | `Interviews` | `interviews` | `InterviewsProofs` |
| scores, findings and memory of an engagement | `Scoring`, `Findings`, `EngagementMemory`, `EngagementRounds` | `engagement_rounds` | `WorkspaceProofs` |
| subscriptions | `Subscriptions` | `subscriptions` | `SubscriptionsProofs` |
| the live interview in its page | `LivePage` | `live_page` | `LiveSessionProofs` |
| the turns of a live conversation | `LiveTurns` | `live_turns` | `LiveTurnsProofs` |
| practice engagements | `Synthetic` | `practice_engagements` | `SyntheticProofs` |
| transcript repair | `TranscriptRepair` | `transcript_repair` | |

To run: `tlc -workers 2 -config MCLiveLedger.cfg MCLiveLedger.tla`, `tlapm LiveSessionProofs.tla`.
`PROJECT.json` lists every run, the source lines each definition stands for, the
hazards of the code at their lines with the properties that cover them, and for
every property of every run a plausible bug in the modelled code that violates it.

## 1. Inventory of the system

Paths are below `src/backend/src` unless they start with `frontend/` or `deploy/`.
"Tenant" is a consulting firm; owner, consultant and interviewee are its roles.

**Live-session ledger** (`llm/metering.ts`, `llm/liveSession.ts`,
`llm/sweepStaleHolds.ts`, `routes/voice.ts`, migration 015). State: rows of
`usage_events`. Operations: admit a session (sweep of stale holds, concurrency
guard, caps, a hold), mint a vendor token, give the hold back when the mint fails
and retry once, close (release, then charge), check the caps before any other
model call. Transactions are short and everything else is awaited between them, so
two opens, a close, a sweep and a dying instance interleave. Correct when what
was reserved is given back once and in full, a session is charged at most once
and within its reservation, no release hides spending from a cap, and two
admissions do not claim one budget.

**LLM gateway and client keys** (`llm/gateway.ts`, `llm/router.ts`, `llm/byok/*`,
`routes/byok.ts`). State: `byok_keys`, `byok_fallback_grant`, setup links; per call
the plan of adapters and what was refused so far. A refusal is recorded
asynchronously, while clients are renamed and deleted. Correct when a call spends
its own client's key or, only under a grant, the firm's, and a key refused or
switched off stays off.

**Workspace synchronisation** (`frontend/vyne-client.js`,
`routes/moduleState.ts`, migrations 018 and 022). State: rows of `module_state`
with a version; in each tab a cache, the versions it was loaded with, a queue of
sets and deletes, a timer, requests on their way. Hard: several tabs, requests
reordered or lost, conflicts, unloads, re-reads, server code that rewrites the
same rows. Correct when no save replaces work its tab was not told of, and what
was typed is eventually stored.

**Clients inside a firm** (`auth/clients.ts`, `routes/assignments.ts`,
`routes/engagements.ts`). State: engagement rows, assignments, billing rows and five
families of workspace keys, addressed by code or by a norm of a name that changes.
Correct when a consultant reads and writes the work of assigned clients only, a
rename moves everything and a deletion leaves nothing.

**Interviews and their merge** (`routes/interviews.ts`, `tenant/engagementMerge.ts`).
State: interviews, private sessions, transcripts, logins and memberships, the
engagement's record. Requests are several transactions at READ COMMITTED. Correct
when what an interviewee was told is saved is in the one record of the client, and
what is deleted is gone.

**Scoring, findings, memory** (`tenant/scoring.ts`, `tenant/findings.ts`,
`frontend/vyne-scoring.js`, `vyne-findings.js`, `vyne-memory.js`). Pure functions over
a record that two paths and Synthesis write. Correct when every shown score rests on
answers whoever scored last, and words are quoted to who said them.

**Subscriptions** (`billing/subscriptions.ts`, `routes/subscriptions.ts`). State:
the subscription columns of `tenants`; Stripe delivers events late, again and in
any order. Correct when the tenant ends in Stripe's state.

**Live interview** (`frontend/interview_agent.html`, `vyne-live-interview.js`,
`vyne-live.js`). State: the page's pause and finish, the interviews it creates, the
session under each with its timers, its voice queue and its turn. Correct when there
is one voice, muted iff paused, its end is told once and a lost one comes back; when
each turn is told of and billed once, in order, and nobody is spoken over or cut off.

**Practice engagements** (`routes/synthetic.ts`, `frontend/interviews.html`). A page
collects generated sittings, the server commits them beside real work. Correct when
what is committed is one story told the same way everywhere, and takes nothing from
what is real.

**Transcript repair** (`deploy/dedupe-lib.mjs`, `deploy/dedupe-transcripts.mjs`). Detection
of two defects that compose, an index map for the evidence, a script and a migration
that apply it. Correct when the repair is the conversation and overwrites nothing newer.

Not modelled, with the reason (also in `PROJECT.json`):

| component | why |
|---|---|
| session and membership cache (`auth/cache.ts`, `middleware.ts`) | two TTL maps; its race, a load that fills the cache after an invalidation (`cache.ts:115`), is bounded by one TTL and is the next candidate |
| migration runner (`db/migrate.ts`) | one loop under a session advisory lock |
| tenant database access (`db/pool.ts`) | `withTenant` is one transaction, the atom of every model; row-level security is PostgreSQL's |
| billing statements, audit log | read-only sums, and an append that ignores failure |
| firms, signup, provisioning | single transactions |
| server, configuration, monitoring | wiring |
| module pages, persona prompts, rendering | wording and layout; their shared state is the workspace |
| `deploy/voice-record.mjs`, `deploy/soak-live.mjs`, `vyne-saas/` | test harnesses, and an earlier snapshot of the product |

How they interact: a page calls the routes through `vyne-client.js`; a route
resolves its caller and runs one or more `withTenant` transactions; the voice routes
and the gateway share `usage_events` and the month's budget lock; the gateway
consults the keys and reports refusals back; the completion of an interview, a
rename and a commit of practice sittings write the same `module_state` rows as the
consultants' tabs (`WorkspaceStore`'s jobs); the webhook moves the limit the caps
read; the live page closes the sessions the ledger opened.

Two conventions are common to all modules. A transaction, or a JavaScript callback up
to its next await, is one action. Behaviour that the code mishandles is kept in the
model behind a member of `Faults`, `Overlaps`, `Stale` or `Troubles`: a run leaves out
exactly the members its properties do not survive, section 5 names them with the
line, and a theorem says which members must be absent, so that the condition under
which the code is right is part of the statement.


## 2. The modules

### `LiveLedger` and `HoldAccount`

A row is a record identified by the request that wrote it, so the ledger is a
set. Input and output tokens are folded into one number and time into units.

| model | code |
|---|---|
| `ledger` | rows of `usage_events` |
| `phase`, `req` | progress and local variables of `POST /api/voice/live-session` |
| `closing` | progress of `POST /api/voice/live-session/close` |
| `calling` | progress of `gateway.generate`, as far as the ledger sees it |
| `Open`, `AdmitCommit` | the two ends of the transaction in `admitLiveSession` |
| `MintOk`, `MintFails`, `MintReconcile`, `Retry` | the mint, its failure, the release of the hold, the one retry under a fresh session id |
| `CloseLookup`, `CloseRelease`, `CloseActual` | `findOpenHold` and the two inserts of `reconcileSession` |
| `OpenCrashes`, `CloseDies` | the instance dies, or an insert fails |
| `CallStart`, `CallMeter` | `dbLimitCheck` before a call and `safeMeter` after it |
| `Tick` | the database's clock |

An admission is two actions because other transactions commit between its reads
and its own commit; only those that take the same lock wait for it. The lock is
keyed by tenant and calendar month, so `LockFree` lets two admissions on either
side of a month boundary run together. `PendingReleases` is the effect of the
unique index of migration 015 on a second writer: it waits. `HoldAccount` is the
promise: an account is reserved, released, charged, each at most once and within the
reservation; the mapping reads status and charge off the rows.

### `ClientKeys`

`keys`, `grants`, `links`, `name` are the tables; `calls` holds what `generate` has in its
variables: the name, the keys resolved per vendor, the plan, the position in it, the tries,
the vendors refused. `StartCall`, `ResolveKeys`, `PlanCall`, `Try` and `Answer` are the
call, `HandleReport` the refusal a call reports without waiting for it, the rest the routes
(`Invite`, `Redeem`, `RevokeInvite`, `Enable`, `Disable`, `Grant`, `RevokeGrant`) and what
`Rename` and `Delete` in `routes/assignments.ts` do to the rows. All of them go by a name
any client has borne, the gone ones included. A row or a grant whose `eng` is `None` is
bound to no engagement and reached by its name alone: a key filed after its client was
deleted or had its name changed, or what a deletion left. Another client may take a name
given up or deleted; whose a key is follows from the link it came through (`links[l].of`).
`Plan` is the composition the gateway makes: the policy's chain, reordered by the client's
preference, with the client's adapters put ahead of the firm's of the same vendor, confined
to the client's own unless the firm granted more.

### `WorkspaceStore`

A document is the set of edits it incorporates: a module reads a whole document
from its tab's cache, adds its edit and writes the whole document back, so a lost
edit is one that a later save did not contain. The browser keeps only the version
of a row it read; the model keeps the row, with its value and its life (how often
the key has been created), because those are what the properties compare.

| model | code |
|---|---|
| `store` | rows of `module_state`, namespace `workspace` |
| `cache`, `basis`, `sets`, `deletes`, `timer` | `cache`, `versions`, `dirty.sets`, `dirty.deletes`, `flushTimer` of a tab |
| `page`, `arriving` | `HYDRATED`, `_hydrateFallbackDone` and the boot GET; unload and re-read in progress |
| `flights` | PUTs sent and not forgotten, with the versions they carry and their answer |
| `job` | a server-side read and rewrite of a row without a version |
| `Load`, `ServeGet`, `GetArrives`, `GetFails`, `SyncHydrate...` | `startHydration` and `hydrateSyncFallback` |
| `SetItem`, `RemoveItem`, `Flush` | `vyneStore` and `flush` |
| `ServePut` | the transaction of the PUT: conditional sets, then deletes |
| `Saved`, `OnVersionConflict`, `Fails`, `Rejected`, `AuthFails` | what `flush` does with each kind of answer |
| `Leave`, `Leaves`, `Stays`, `FlushNow...` | `flushNow` on unload |
| `Rehydrate...` | `vyneStore.rehydrate` |
| `JobReads`, `JobWrites`, `JobDeletes` | the interview merge, renames and purges |

`Upsert` is the INSERT ... ON CONFLICT under the trigger of migration 022: the
version moves exactly when the value changes, whoever writes. A request without
an answer may have been committed, or may be committed later (`listening` is
false from then on). What a user did that the page reports as refused, or that
was lost with a page that is gone, is `waived`: the code owes nothing for it.

### `ClientScope`

A client has a code, which never changes, and a name, whose norm addresses a good
part of its keys. `eng`, `asg`, `iv`, `usage` are tables, `ws` the workspace in one
representative per key family (index, record, documents by code or norm, sessions),
`tab` what each open page loaded. `SaveRecord`, `SaveDoc` and `SaveSession` are a page's
PUT through the scope filter and the server-enforced names of `auth/clients.ts`;
`Current` and `Borne` say whether the page still stands on the names the table bears; what
one that does not may save or bill is the kinds of `Stale`; it may invite and delete
under the old name in any case.
`Rename` and `Delete` are the transactions of `routes/assignments.ts` over all tables and
families, with the corroboration of norms, the legacy thirty-character norm and what
may be taken over from a norm that has another bearer.

### `Interviews`

Every route of `routes/interviews.ts` that changes state, each transaction a step and
each read-then-write transaction two (PostgreSQL runs them READ COMMITTED).
`job` is the request a consultant has running (`Invite...`, `Delete...`, `Revoke...`),
`saving` and `finishing` a person's save and completion; `FinishReads` reads the
engagement's record, `FinishCommits` writes it back merged, `FinishUnmerged` is the
completion whose merge failed on a record that does not parse. With the fault aborts a
statement of the merge fails instead (`FinishAborts`): the transaction is lost and the
answer says completed all the same. `DraftReads` and `DraftWrites` are the two statements of
a regenerated follow-up, `RequestDies` a handler that ends anywhere. `told` is the answer
the interviewee was given. A session is the number of saves it has seen, so a lost
save shows as a smaller number.

### `Scoring`, `Findings`, `EngagementMemory`, `EngagementRounds`

The first three are the pure functions, in exact arithmetic in tenths: role- and
coverage-weighted means, carry-forward and blending between rounds, the scorecard; greedy
clustering of claims and corroboration; what the next interview is told. The findings of an
engagement are a function from their places (round, interview, dimension), the list the code
makes of them is the order of places (`Ahead`), and `Clusters` folds it from either end.
`EngagementRounds` (`RoundsSpec`, with `Absent` for a missing value) runs them over one
record under its three writers: the server's merge (`Link`), the consultant's page (`Run`),
and Synthesis (`LoadSynthesis`), with `PlanRound`, `RenderDashboard` and `CloseRound`.

### `Subscriptions`

`firm` is the row of `tenants`, `co` where each `startCheckout` is (it finds or creates
a customer, stores it, opens a session), `sub` Stripe's subscriptions, `sent` and `got`
its events. `Deliver` is the webhook handler with its three branches, the
`stripe_last_event_at` guard and the resolution of an event without metadata by
customer. Stripe is modelled from how the code uses it.

### `LivePage` and `LiveTurns`

`LivePage` is the page (`Begin`, `Pause`, `Resume`, `Finish`), the live interviews it
creates one after the other (`voices`) and the session under each: backoff, mint,
connection, renewal for every reason there is, hand-over on a goAway, retries, quota,
rejected audio, the silence watchdog (`Hears`, `Silence`) and the ceiling.

`LiveTurns` is one conversation frame by frame. A handler transforms `c = [s, iv,
told, turn]`, so that `OnMessage` is the composition of the calls the code makes
(`NoteModelActivity`, `Delivered`, `Interrupted`, `CloseTurn`, `SetTurnState`,
`MaybeRenewOnGoAway`, `HandOver`, `Stop`). `server` is the model's side of a turn, `told`,
`spent` and `broken` are history. The server's frames are the actions of `Model`; the
timers, the voice queue and the hand-over poll are `Clockwork`.

### `Synthetic`

The page's two generators with the variables a retry shares with a new generation,
and the commit as the server runs it: context read in one transaction (`Context`),
index, record and rows written in another (`IndexRead`, `RecordRead`, `Committed`).
`Opens`, `SavesBriefing` and `CompletesInterview` are the real work beside it.

### `TranscriptRepair`

The old page that damages transcripts (`Types`, `Speaks`, `Grows`, `Resumes`), the
audit, the script's open transaction (`Selects`, `Updates`, `Commits`) and the migration
it can write instead (`Emit`, `Migrate`). `Repair` is the whole algorithm: doubled
prefixes first, then frozen fragments, the index map, the verification of anchors.

## 3. What is checked

| run | instance | shows |
|---|---|---|
| `live_ledger` | 1 user, 2 sessions of 5 and 4 tokens, 2 closes, 1 gateway call, limits of 4 a month and 3 a day, 4 clock readings with a month boundary inside | `SessionsAddUp` (one hold, one release of exactly it by whoever, at most one charge within it), `LiveTokenIsCharged` (a token in use is paid for by a hold the month's cap counts), `ReservationsWithinCap` (running reservations overshoot the cap by less than one hold), `CapsSeeSpending` (nothing is admitted once real spending has reached a cap), `KeepsAccount` (refinement of `HoldAccount`) |
| `keys` | 2 clients, 2 names that change hands after renames and deletions, 2 links of one vendor, 1 call of two tries | `FirmPaysOnlyUnderGrant`, `NoKeyMisused`, `KeysFollowRename` |
| `workspace_saves` | 2 tabs and a server job on one document, 2 requests per tab, two troubles of any kind | `VersionsNameValues` (a version is a safe stand-in for a value although four kinds of code write the rows), `SavesReplaceWhatWasRead` (a save the server would accept replaces a row its tab was told of, by a load or a refusal, unless the key was created since; what the document holds is another matter, section 5) |
| `workspace_retries` | 2 tabs with a document each, 2 requests per tab, three failures or refusals | `NoEditLost`, and under fairness `EditsReachTheServer` |
| `clients` | 2 clients, one known to the table, names that differ behind the 30th character, 1 owner's and 1 consultant's page | `ScopeHolds`, `IdentityMovesWhole`, `ConsultantsWriteTheirOwn` |
| `interviews` | 2 people, 2 interviews, 2 rounds, 1 client, 1 consultant, an archive of 2; requests die anywhere, records do not parse, statements fail | `InvitedCanSignIn`, `AnswersKept`, `ServedRightly`, `ErasedIsGone`, `FinishedStands` |
| `engagement_rounds` | 5 sittings by 3 people and 2 paths in up to 3 rounds, scores at the blending and rounding boundaries | `ScoresHold`, `NothingMisattributed`, `CardFollowsAnswers` |
| `subscriptions` | 2 checkouts, the second after or beside the first's subscription, 2 plans, 1 change, 4 seconds | `SettlesOnStripe`, `GateFollowsPayment`, `PortalReachesIt` |
| `live_page` | 3 interviews of one page, closed early or finished, 3 renewals, 2 retries, 1 quota, 2 rejections | `MutedIffPaused`, `OneVoice`, `EndedOnce`, and under fairness `ComesBack` |
| `live_turns` | 2 turns of one chunk and one report each, 1 utterance, 1 pause or reconnection, a goAway | `TurnsCountOnce`, `FloorHeld`, `QuestionBeforeAnswer`, `NobodyCutOff`, and under fairness `NobodyWaitsForever` |
| `practice_engagements` | 2 pages of both kinds, 2 clients, 2 catalogs of two personas sharing one, 2 generations, 1 failure, 2 pieces of real work | `RecordsAgree`, `RealWorkSurvives`, `WholeStory` |
| `transcript_repair` | every record of a conversation of 2 lines, typed and spoken, the same one or two, resumed twice, 1 anchor, 1 audit | `RepairIsSound`, `NothingWrittenOver` |

Why these bounds. Two of an actor is what an interleaving needs: a session and the
admission that sweeps it, a double close, a tab and the colleague or server job that
overtakes it, a name and its next bearer, a checkout and its successor, a
generation and the retry of another. Clocks run past every boundary the code
compares with. Counters of failures, retries and renewals reach their limits
and the step behind them. `MaxSession <= SweepAge` is 2700 s against 3300 s in the code.
The bounds of `interviews` make the interesting merge (a second interview of the same
person in the same round, another's in a round planned meanwhile) the largest thing
that fits; the same is true of `clients`, whose pages are the two kinds there are. What
a bound may hide is what the theorems of section 4 are for: they have none.

Deadlock is not checked anywhere: users, interviews, clocks and failures are finite, so
every model comes to rest.

Fairness. `workspace_retries`: a running timer fires, the server commits a PUT somebody
waits for, the browser runs the handler of an answer, a request nobody waits for
arrives or is lost. `live_page`: a backoff ends, a grant or a connection is
answered one way or the other, the silence timer fires. `live_turns`: a server that has
begun to answer goes on (`Answers`) and timers and the voice queue run (`Clockwork`).
Browsers and Node schedule exactly these; none is assumed of users, failures,
loading, unloading, goAways or drops. Failures are bounded, so after the last one a
retry succeeds: a server that fails for ever stores nothing. The ledger claims no
liveness: a session nobody closes is released only by a later admission.

## 4. What is proved

A theorem holds for every value of the constants that satisfies the module's
named assumptions: for any number of sessions, tabs, clients, people or
interviews, where the runs have two. Each proof has the same shape. An
inductive invariant, a conjunction of named parts, holds initially and is
preserved by every action; the lemmas before it say what the model's operators
do; the property follows from it; a last step combines the three by temporal
logic. No theorem takes anything on trust: all assumptions are those listed here.

| property of a run | theorem | behaviours left out |
|---|---|---|
| `SessionsAddUp`, `KeepsAccount` | `SessionsBalance`, `LedgerImplementsAccount` | none |
| `ReservationsWithinCap`, `LiveTokenIsCharged`, `CapsSeeSpending` | `ReservationsFit`, `TokensAreCharged`, `SpendingIsSeen` | none |
| `FirmPaysOnlyUnderGrant` | `FirmPaysUnderGrant` | fault lookup |
| `NoKeyMisused`, `KeysFollowRename` | `KeysServeTheirClient`, `KeysKeepTheirClient` | all faults but lookup |
| `VersionsNameValues`, `SavesReplaceWhatWasRead` | `VersionsStandForValues`, `AcceptedSavesReplaceTheirRow` | none |
| `NoEditLost` | `EditsAreNotLost` | a document edited twice, server jobs, troubles remove, rehydrate, garbled |
| `ScopeHolds`, `ConsultantsWriteTheirOwn` | `ReadsAreScoped`, `ConsultantsStayInside` | stale kinds rename, record, session, deleted, charge |
| `IdentityMovesWhole` | `IdentitiesMoveWhole` | all stale kinds |
| `ServedRightly` | `ServesRightly` | overlap draft |
| `FinishedStands` | `CompletionsStand` | overlap save |
| `InvitedCanSignIn` | `EveryoneInvitedSignsIn` | overlap invite |
| `ErasedIsGone` | `DeletionErases` | overlap erase |
| `AnswersKept` | `AnswersAreKept` | overlap merge, fault skipped, an archive that is full (20 replaced answers of one client) |
| `PortalReachesIt` | `PortalReaches` | fault double |
| `SettlesOnStripe`, `GateFollowsPayment` | `SettlesRightly`, `GateFollows` | all three faults; two subscriptions at once, for what the properties say of the one that runs |
| `MutedIffPaused`, `OneVoice`, `EndedOnce` | `PauseMutes`, `OnlyOneVoice`, `ToldOnce` | all four faults |
| `TurnsCountOnce`, `FloorHeld` | `TurnsAreCountedOnce`, `FloorIsHeld` | all nine faults |
| `QuestionBeforeAnswer`, `NobodyCutOff` | `QuestionsComeFirst`, `NobodyIsCutOff` | all nine faults |
| `ScoresHold` | `MeasuredScores` | none |
| `NothingMisattributed` | `Attribution` (`CarriedScores`, `OwnWords` for its first two parts) | people who share a role and a name or have two, a claim between two that differ; none for the first part |
| `CardFollowsAnswers` | `CardFollows` (`StaleScores` for its first half) | an interview without any answer; none for the first half |
| `RecordsAgree`, `WholeStory` | `OneEngagement`, `OneWholeStory` | all five overlaps |
| `RealWorkSurvives` | `RealWorkIsKept` | overlaps index, created, briefing, merge |
The behaviours left out are named, with their lines, in section 5; each is a
hypothesis of the theorem, and the run leaves out the same ones or more.

**The ledger** (`LiveSessionProofs`). That every release undoes one hold, and every
charge stays within one, is not inductive: whether a release may be written
depends on what running requests believe about the hold. `IInv` adds that nothing is
dated in the future; that a hold is its session's only one, of full size, its
session admitted; that an open request which may still give its hold back would
write it again from its own arguments; that what a running admission has swept is
unreleased and swept by it alone; that a close between its two inserts owns its
session's only release and nothing is billed yet. The refinement then goes
action by action: each reserves, releases or charges one account, or leaves all
as they are.

**The caps** (the same module). These need sums over the rows of a ledger of any
size. The ledger is finite (`FiniteLedger`), and facts about sums are proved by
taking a smallest counterexample among its subsets and unfolding the fold once.
The argument: a counted release always has its hold in the count too (else its
session is negative in the window and left out), so the counted rows beside any
unreleased part add up to at least nothing, and the number compared with the cap is
at least the real spending and at least the running reservations. The lock of a
month makes one admission decide at a time (`OneDecides`), so the room it saw is
there when it commits (`RoomForOne`). Time only takes reservations out of the window.
Assumptions: holds are positive, reports and limits natural, there is a longest
session, and `MaxSession <= SweepAge`.

**Client keys** (`ClientKeysProofs`). Who pays follows from the plan alone (`PayerKnown`),
for every chain and preference. That a key serves its client needs `KeysInv`: every
name in use is borne by its client; a row is filed as the link of its key says, and is
bound to the client the key is from, or bound to none and then switched off unless
that client bore its name last (`RowsFollowTheirLink`); what is filed under a client's
name and usable is bound (`BornNamesAreBound`); a row that a refusal may be written to
stays where the refusal will look for it (`Standing`, `ReportsStand`, `CallsStand`); a
call holds its own client's keys, a report names the key that was refused, and what
is off was filed. Assumptions: `None`, "firm" and "unbound" are
none of the other values, every vendor's key builds some adapter.

**Workspace** (`WorkspaceProofs`). `VersionsNameValues` is inductive with the type:
every write keeps the history in which one version had one value
(`WritesKeepHistory`), and actions that only pass on rows they were told of have a
frame lemma. `NoEditLost` needs `SurvivalInv`: nothing is queued for deletion, every
document queued or sent for a key carries that key's edit, the keys of an
answered request are stored, an edit that is owed is stored, queued or in a request
the tab still listens to; and `LoadInv`, that a tab which saves was told the
firm's state. Each document is edited once at most there (`On` is injective): a second edit may be
lost, even by the same tab and without a failure (section 5).

**Clients** (`ClientScopeProofs`). `ScopeInv` says where things may be: each name has
one bearer, records and the index carry the table's names, every document and
session is filed under a form of its live client's name, bills follow the client.
The difficulty is the legacy norm, the first thirty characters: until an owner's
page rewrites the index some entries wait under it. `EntriesWait` says such an entry
is what every page has read there, `OwnersMoved` that an owner's open page stands on
clients already moved, which is why a deletion that removes the current norm leaves
nothing behind. Assumptions: the legacy norm is a function of the norm, and, as the
hypothesis `NamesApart`, no client's name is the truncation of another's.

**Interviews** (`InterviewsProofs`). Four invariants of increasing reach: `RowsInv` (without
the overlap draft, drafts are follow-ups nobody was served; a save or a completion under way holds its
person's row, the rounds a completion read are those there are); `AccessInv`, for
logins; `ErasureInv`, for deletions; `DocumentsInv`, for the merge: the index and the
minted codes agree, a completion knows the record it read, a client has one
record, a person and interview count once in it, what was told is stored.
Assumptions: `Consultants` is finite, minted codes differ from opened ones.

**Subscriptions** (`SubscriptionsProofs`). With one checkout under way before the firm has a
customer, everything carries the customer on file (`CustomerInv`), however many checkouts
and subscriptions there are later. If moreover each second holds one change, the stamp of
the row is that of the newest event delivered and the row is the state that event announced
(`SecondsInv`, `LatestInv`, `RowInv`). Nothing comes of a subscription after its end
(`EndsInv`), so where one was over before the next began, the newest event is of the one
that runs (`LatestAlone`): with all delivered, the row is Stripe's.

**The live page** (the end of `LiveSessionProofs`, whose other half is the ledger: the
definitions of `LivePage` whose names the ledger has too carry the prefix `Page`).
`VoiceOK`, of every interview the page has created: a session is alive only under the
latest, and then neither stopped nor told of and muted iff the page is paused; one being
opened is unmuted and untold of. **Practice engagements** (`SyntheticProofs`). A *tale* is a
set of sittings of one catalog, each persona once a round at most, whose second round
follows on from first-round sittings that are in it. `PracticeInv` follows one through the
system. `PagesStory`: what a page has collected and is collecting is a tale of its own
roster, and each persona of its rounds was played, is in the failures, or is still queued or
pending, while the round counts up, its queue drains, a retry asks again and a commit is
answered. `JobsTell`: what a commit was sent is such a tale. `TrackerInv`: the rows of a
client, its transcripts, the record its index entry names and the synthesis hold one tale,
with one follow-up, and a login is its code and name. `ServerInv`: the index names a
client's own code, a code given to a commit is still the client's when it writes, the
briefing it was told of still there, and the commits that write hold the index row of one
client and one record at a time. `PracticeTypes` needs no hypothesis. The others need
`NamesApart` (no two spellings share a norm or a generated code; what comes of sharing one
is in section 5) and an order of requests: `ServerInOrder` for `RealWorkIsKept`, none of the
five overlaps for the other two, which need `PersonasApart` as well: the names of a catalog
are handed out by position, so no persona is in it twice.

**The turns** (`LiveTurnsProofs`). What a frame does is a composition of small
functions, so the lemmas come first: what each stage of `OnMessage` makes of a session.
None of the four properties is inductive; `TurnsInv` (from `TurnsInvariant`) relates
the session to what the server has reached. `PhaseInv`: a turn is under way in the
session exactly while the server works on it, or has generated it and its voice is
still to play. `VoiceInv`: what plays after its turn was closed is not the next
turn's. `BargeInv`: whoever speaks while the model works is known to talk over it, and a
pending goAway waits for them. `SpeechInv` and `WordsInv`: what was said and is not
transcribed yet was not said into an open turn, and what is written down, or waits to
be, answers no later turn than it may. `ToldInv` and `UsageInv` account for every turn,
which needs sums over turns, proved as for the caps. The hypothesis is `Faults = {}`, as
in the run: section 5 says what each fault breaks. The bounds are any naturals.


**The rounds of an engagement** (the end of `WorkspaceProofs`: an engagement is one document of
that store). `RoundsInv`: every number names one
round, a round without an interview has no score, the current round is a number. The
work is in what the functions compute. A sum over a set is a fold whose order nobody
fixes, so a sum is bounded by taking the smallest set where the bound fails
(`Fold`, `FoldBase`, `FoldStep`); a role-weighted mean lies between the answers it is made of,
and so does its blend with an earlier score and, since those bounds are whole, the
rounding of it (`RoundedLow`, `BlendedLow`, `ComputeIs`). `Ordered` lists each round once, by
number (`OrderedIs`), and the running scores `recomputeAllRounds` takes from round to
round are those `priorScoresFor` would find (`RecomputedSteps`): that is why Synthesis and the
two writers of one round agree. Hence `ScoresHold`. For the card, a step `Moves` the
record: rounds stay, keep their numbers, and one that has interviews is left as it was
or ends with the scores its answers give; scores depend on nothing but the round's
interviews and the rounds before it (`FreshSame`). Assumptions: weights are naturals,
scores are positive, and for the card alone the hypothesis `EveryoneAnswers`, which the
code does not enforce (section 5).

`NothingMisattributed` has three parts and two hypotheses, `OnePersonOneKey` (a role and
a name are one person) and `NoBridges` (no claim makes one point with each of two that
do not make one with each other); the code enforces neither, section 5 says what
happens without, and the run's plan is checked to satisfy both. A carried score is
flagged in any case (`CarriedScores`). Quoted words need the first (`OwnWords`), with the
invariant `Remembered`: what was kept when a round was closed was said by somebody of
that role and name. The evidence needs both. Clusters are a fold over the list of
findings, and `Grouped` says what one is after any part of it: each cluster is the
group of those findings so far that make one point, each group is a cluster, once.
A finding fits a cluster exactly when it makes its point (`GroupFits`), so it joins the
one group it belongs to or starts it (`PlacedGrouped`), and the end of the fold is
the set of groups, whichever way the list was read (`ClustersAre`, `OrderIsNothing`).
Two attributions are then two people (`TellsApart`), who made one point. Assumptions:
dimensions and claims are finite sets, and a claim has a word, as the code drops those without.

Only model-checked: `RepairIsSound` and `NothingWrittenOver`, statements about what a
search for the longest doubled block and `SelectSeq` compute for a transcript of any length: no
induction is at hand; and the liveness properties `EditsReachTheServer`, `ComesBack` and
`NobodyWaitsForever`, since TLAPS has no rules for fairness.

## 5. Where the code falls short, and what the runs leave out

An entry is in the model, behind the named member of a constant, unless it says that it
is not: put it into the run's `.cfg` and TLC prints the behaviour. Lines are those of the code (paths as
in section 1; LI is `frontend/vyne-live-interview.js`, LV `frontend/vyne-live.js`, IA
`frontend/interview_agent.html`).

**Ledger.** Nothing is left out. Two notes: the comment at `llm/metering.ts:51` says a
missing monthly limit means unlimited, the code (232) uses 3,000,000; the concurrency guard
counts every release of its window against the holds of its window (398), so a late
release of an older hold admits a user over the limit, where the comment (387) has
a hold "minus" its release.

**Keys** (`Faults`). lookup: a key lookup that throws leaves the vendor neither usable
nor unusable, and the call runs on the firm's (`llm/byok/resolve.ts:277`). unbound: a row
bound to no engagement is reached by whoever bears its name (`llm/byok/engagementBinding.ts:18`),
so a client registered under a deleted one's name gets its grant, its refused or
reattached key, or has its switched-off one put back by `reactivateKey`
(`llm/byok/byokRepo.ts:404`). reuse: a name changes hands under a running call that read
unbound rows. late: a setup link redeemed when its name is another's
files the key for that one (`routes/byok.ts:493`). renamed: after a rename a key is
switched or refused by its old name, where `deactivateKey` misses it or hits a row
that replaced it, `reactivateKey` going by engagement (`llm/byok/byokRepo.ts:436`).
inherit: a key or grant left under an old name survives the
deletion and passes to the name's next bearer (`routes/assignments.ts:394`, against the
comment at 373). revived: a refused key that is switched off loses the mark of the
refusal and can be switched on (`llm/byok/byokRepo.ts:436`, against the comment at 399,
`routes/byok.ts:407` and `frontend/billing.html:536`).

`FirmPaysOnlyUnderGrant` holds, although texts of the repository say otherwise:
`llm/gateway.ts:417` and `llm/byok/resolve.ts:346` have a call whose key is refused carried on
down the chain by the firm, `llm/byok/resolve.ts:248` and `frontend/billing.html:507` one
whose key cannot be read. The code confines the call to the client's own
credentials (`llm/gateway.ts:301`) and answers 402 when none is usable; only a key that is
switched off, which counts as none on file, lets the firm pay. The model follows the code.

**Workspace** (`Troubles`, `On`, `Jobs`). A tab that edits one document three times: a save
that succeeded leaves it on the old version, its next save conflicts with itself, and the edit
after that replaces the queued one (`vyne-client.js:710`, comment 764). Two tabs on one
document, or one and a completed interview: the document that was refused is queued as it was,
under the version it was refused for (783), and replaces the other's changes, which the
comment at 766 says survive. That is a step of every run with two writers;
`SavesReplaceWhatWasRead` says only that the row replaced is one the tab was told of, and
`NoEditLost` is checked of documents with one edit. No row on record: a key created since the
tab loaded is saved without a version and replaces whatever is there (753). rehydrate: the
flush before a re-read may be refused and the re-read clears what was put back (972, comment
941). remove: a failed delete is retried together with a newer set and removes it (804,
comment 801). garbled: a 200 that does not parse passes for an empty workspace (464, comment
548).

**Clients** (`Stale`). A page keeps the names it loaded. rename: an owner's page saves a
client renamed since under the old name (`auth/clients.ts:1669`, comment 1203). record:
the page mints a code of its own for a new client, and the server another
(`frontend/pre_engagement.html:1801`): one norm, two codes. deleted: a save for a deleted
client makes orphans the name's next bearer inherits (`auth/clients.ts:607`). session: the
same with a session. charge: a metered call is billed to the name the page sends
(`llm/gateway.ts:405`), after a rename the old one. Invitations and deletions under an
old name are steps of every run: the server looks the name up and finds its present
bearer, or nobody. document: a save under the code drops the copy filed under a
name that may be another client's by now (`vyne-client.js:148`); the migration
the comment at 107 relies on (`migrateNormKeysToCode`, `auth/clients.ts:1956`) is
called by no route. And `NamesApart`: a client whose name is the truncation of
another's longer one is reached by whoever is assigned to that (`auth/clients.ts:116`).

**Interviews** (`Overlaps`, `Faults`). draft: a draft is regenerated while the follow-up is
approved and answered; the row was read as a draft (`routes/interviews.ts:1228`) and is
written by its id alone (1238), so the answered follow-up is a draft again and its question
is served once more. save: a session save that read the state of its row before a completion
or an edit writes after it, and the finished interview is open again (`FinishedStands`).
merge: two completions of one client read and write its record at the default isolation
level (1682), or a round is planned under one. invite: an invitation between the commit of a
person's last deletion and the removal of their login (927). erase: a save or a completion
under a deletion (905). skipped: a completion passes over a record that does not parse when
it looks for the client's (1750), and opens a second one beside it. A statement of the merge
that fails aborts the transaction (1807): the interviewee is told that the interview is
completed and nothing of it is stored. The run has that step, and what `FinishedStands` says
is of completions whose transaction committed; no property says that an answer is kept which
was only said to be. The archive of a client keeps 20 replaced answers
(`engagement/engagementMerge.ts:447`), two in the run, which is not exceeded there: the 21st
replaced answer drops the first.

**Subscriptions** (`Faults`). double: two checkouts are started before the firm has a
customer, and create one each (`billing/subscriptions.ts:121`). second: two changes within
one second, under a guard that is `<=` (269). late: the confirmation of a payment from a
later second than the subscription was created stamps the row, and the creation is dropped
(231, comments 12 and 187). Nothing keeps a firm from a second checkout while a subscription
runs (91), and no update compares `stripe_subscription_id` (231, 269, 310): with two
running, the row follows the one that changed last, and cancelling one puts a firm that pays
for the other on trial and closes the gate. Those are steps of the run; `SettlesOnStripe`
and `GateFollowsPayment` say what runs only of firms that had one subscription at a time
(`OneAtATime`; without that conjunct TLC prints the behaviour).

**Live page** (`Faults`). pause: a session opened under a pause is unmuted (IA 5458 against
5483; LI 1078, 1323). restart: `stop()` does not stop a session that is being opened (IA
4836). finish: `finishInterview` stops only what is live (IA 5775), and `stop()`, from there
or because the interviewer closed the interview (5078), scoring is dead (5165) or the page is
hidden (5541), not what is being opened. silent: a silent renewal leaves its session open and
its flag set (LI 2013, 2029).

**Turns** (`Faults`). trailing: a transcript after generation has ended and a late
`turnComplete` close the turn a second time (LV 1602). late usage: usage reported after the
close is added to the next turn's. no close: no `turnComplete` at all. text only: a turn
with a transcript and no voice. overlap: the `turnComplete` of a turn arrives when the next
one has begun, as production's late frames may (LV 1516), and closes that one. long voice: a
turn leaves more than `IDLE_DEFER_MAX_MS`, 20 s, of voice, and the floor is free under the
rest (LV 1651); a remainder below `IDLE_DEFER_MIN_MS` counts as played. early: an answer is
transcribed before the question's turn is closed; a connection dropped in mid-question does
the same. barge in: a turn is closed while the interviewee speaks, and a pending goAway
hands over under them (LV 1629, LI 1877, against the comment at 1885). paused goaway: a
goAway during a pause is forgotten until the next idle (LI 1820).

**Transcript repair** (`Faults`). echo: what is stored begins, at once or after a copy was
taken out, with a block that was said twice, and the repair takes the second for a copy:
"Yes." spoken twice at the beginning, or b a a b a with the last line spoken, stored b a a b
a a. Lines repeated anywhere else are steps of the run. alike: the record holds the words
that were audited, but said anew after an earlier repair, which neither `applyDecision` nor
the migration can tell. short: a transcript of one entry is resumed, too little to tell a
copy by. late: a finding is recorded after the audit with no new entry. grown: the last line
grew in place between the audit and the migration. race: the interview is saved between the
script's SELECT and its UPDATE (`deploy/dedupe-transcripts.mjs:802`). Not modelled: the
records of an interview archive (`vynora_interview_archive_*`,
`dedupe-transcripts.mjs:545`), which are repaired in place by their position in the archive.
Also: a transcript whose numbers have gaps is refused, an anchor behind a trailing blank is
reported as unverifiable, and the migration's update runs with row security off and names no
tenant.

**Practice engagements** (`Overlaps`). index: two commits read and rewrite the index
(`routes/synthetic.ts:659`). created, briefing, merge: an engagement is opened, a briefing saved
or an interview merged under a commit. retry: a retry during a new
generation shares its variables. After a retry no button is left for what failed
again, a 403 in mid-retry loses the list, and catalogs whose names share four
letters never commit (`Collides`).

**Rounds.** The plan of sittings leaves out: two unnamed holders of one role
(`frontend/vyne-memory.js:98`: one is quoted to the other), one person under two roles, and a
claim that matches two which do not match each other (`tenant/findings.ts:253`: agreement
depends on who finished first). A score after a late earlier round is stale until somebody
opens Synthesis (`tenant/engagementMerge.ts:456`); the properties speak of what is shown after
that. An interview that answered nothing may replace one that did
(`tenant/engagementMerge.ts:449`): its round loses its scores and the card goes back to an
earlier round, or blank (`EveryoneAnswers` excludes it). Memory keeps the first finding where
its comment says the latest.

## 6. Left out of the modelled parts

Ledger: prices, rows of before migration 015 without a session id, the client a row
is attributed to, the speech and catalogue routes (they check the limit only).
Keys: the live interview's resolver, link expiry, storage of secrets.
Workspace: the interviewee's private namespace, one-time migrations of old namespaces,
the scoping of a restricted consultant (`ClientScope` has it), the save indicator, the
deferral of a sign-out during a live interview. A PUT is one step although it is a statement
per key (`routes/moduleState.ts:299`): each locks its row until the commit, refused or not, so
the row of a conflict (317) is the one that refused, and two PUTs take effect in some order.
Clients: solution designs, the inner documents of roadmap and synthesis.
Interviews: agenda texts, exports, how a session is scored.
Rounds: rounding of doubles (the arithmetic is exact, in tenths), the roster audit,
the tokenising of findings, prompts.
Subscriptions: signatures, the catalogue, `cancel_at_period_end` (shown, never decided on).
Live interview: audio capture, the setup variants of a vendor, captions.
Practice engagements: deletion of a tracker row, the preview of a persona.
Transcript repair: what an old page saves after its transcript was repaired.

## 7. Plan

1. `LiveTurns`: which single faults each of its properties survives, as weaker hypotheses of
   the theorems.
2. `Synthetic`: `RecordsAgree` beside a retry that overlaps a generation of another page.
3. The exactness of the index map of `TranscriptRepair` for one removal, and of the repair for a
   conversation that is not stored as if it began twice.
4. For `WorkspaceStore`, an abstract register per document that accepted saves refine
   where no key is created again.
5. The session and membership cache: load, fill, invalidate and expire on two
   instances with a clock; what is served is no older than one TTL plus one load.
6. The migration runner: instances, the lock, crashes; a prefix of the files is
   applied, each once.
