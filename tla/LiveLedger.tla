----------------------------- MODULE LiveLedger -----------------------------
(***************************************************************************)
(* The live-session ledger of one tenant: usage_events as the voice routes *)
(* and the LLM gateway write and read it (llm/metering.ts,                 *)
(* llm/liveSession.ts, llm/sweepStaleHolds.ts, routes/voice.ts).           *)
(*                                                                         *)
(* A session is admitted by writing a positive hold, minted, and closed by *)
(* a negative release followed by a billable row for what it used.  Every  *)
(* database transaction is an action, or two where another transaction can *)
(* commit between its reads and its own commit; everything the handlers    *)
(* await lies between two actions, and a handler may die there.            *)
(*                                                                         *)
(* A row is identified by the request that wrote it, so rows form a set.   *)
(* Token pairs are folded into one number and time into coarse units.      *)
(***************************************************************************)
EXTENDS Integers, FiniteSets, FiniteSetsExt

CONSTANTS
  Users,            \* accounts of the tenant
  Sessions,         \* fresh session ids: one open request, or its retry, each
  Closes,           \* requests to the close route
  Calls,            \* calls through the LLM gateway
  None,             \* SQL NULL
  HoldOf,           \* reserveTokensFor: what each session reserves
  CallTokens,       \* what a call through the gateway turns out to cost
  Reports,          \* usage a browser may report when it closes
  MonthlyLimit,     \* tenants.monthly_token_limit
  DailyLimit,       \* tenants.daily_user_token_limit; 0 switches it off
  MaxConcurrent,    \* MAX_CONCURRENT_SESSIONS_PER_USER
  OpenWindow,       \* OPEN_SESSION_WINDOW_SECONDS
  MaxSession,       \* MAX_SESSION_SECONDS
  SweepAge,         \* SWEEP_AGE_SECONDS
  Month, Day,       \* length of a calendar month and day
  MaxTime           \* bound on the clock

ASSUME HoldAssumption == HoldOf \in [Sessions -> Nat \ {0}]

ASSUME ReportAssumption == Reports \subseteq Nat

ASSUME CallAssumption == CallTokens \in Nat

ASSUME LimitAssumption == MonthlyLimit \in Nat /\ DailyLimit \in Nat

\* reserveTokensFor is asked for a length of at most MAX_SESSION_SECONDS, so
\* some session reserves the most.
ASSUME LongestAssumption == \E m \in Sessions : \A s \in Sessions : HoldOf[s] <= HoldOf[m]

ASSUME NoneAssumption == None \notin Users \cup Sessions

\* The defaults are 600 s, 2700 s and 3300 s.
ASSUME ClockAssumption ==
  /\ MaxTime \in Nat /\ Month \in Nat \ {0} /\ Day \in Nat \ {0}
  /\ OpenWindow \in Nat /\ MaxSession \in Nat /\ SweepAge \in Nat
  /\ MaxSession <= SweepAge

VARIABLES
  ledger,       \* committed rows of usage_events
  now,          \* database clock
  phase,        \* progress of each session's open request
  req,          \* what that request has decided so far
  closing,      \* progress of each close request
  calling       \* progress of each gateway call

vars == <<ledger, now, phase, req, closing, calling>>

Payers == {"platform", "client_key"}

Time == 0 .. MaxTime

Row == [id : Sessions \cup Closes \cup Calls, task : {"hold", "release", "actual", "llm"},
        session : Sessions \cup {None}, user : Users, payer : Payers, tokens : Int, at : Time]

\* What an open request carries between its steps.
Request == [user : Users \cup {None}, payer : Payers, start : Time, swept : SUBSET Sessions,
            allowed : BOOLEAN, renewal : BOOLEAN, rejected : BOOLEAN]

\* Every internal, non-billable task.
NonBillable(r) == r.task \in {"hold", "release"}

HoldsFor(rows, s) == {r \in rows : r.task = "hold" /\ r.session = s}

Released(rows, s) == \E r \in rows : r.task = "release" /\ r.session = s

Tokens(rows) == MapThenSumSet(LAMBDA r : r.tokens, rows)

\* date_trunc('month', now()) and date_trunc('day', now())
Since(len, t) == t - (t % len)

-----------------------------------------------------------------------------
(* Which rows count toward a cap: excludedSessionsCte and countsTowardCap.  *)

\* A session's internal rows inside the window, the rows the CTE groups.
InternalRows(rows, s, since) ==
  {r \in rows : NonBillable(r) /\ r.session = s /\ r.at >= since}

\* Before v5.32.83 a release alone in the window was judged live.
ExcludedSessions_agedOnly(rows, since, t) ==
  {s \in Sessions : \E r \in InternalRows(rows, s, since) : r.at <= t - MaxSession}

\* A hold stops counting as soon as it leaves the concurrency window.
ExcludedSessions_openWindow(rows, since, t) ==
  {s \in Sessions :
     \/ \E r \in InternalRows(rows, s, since) : r.at <= t - OpenWindow
     \/ Tokens(InternalRows(rows, s, since)) < 0}

\* A session is aged out on its first internal row, and drops out whole when
\* its internal rows net negative: its hold lies before the window.
ExcludedSessions(rows, since, t) ==
  {s \in Sessions :
     \/ \E r \in InternalRows(rows, s, since) : r.at <= t - MaxSession
     \/ Tokens(InternalRows(rows, s, since)) < 0}

CountedRows(rows, since, t) ==
  LET excluded == ExcludedSessions(rows, since, t)
  IN  {r \in rows : r.at >= since /\ (NonBillable(r) => r.session \notin excluded)}

\* GREATEST(sum, 0)
AtLeastZero(n) == IF n < 0 THEN 0 ELSE n

UsedBy(us, rows, since, t) ==
  AtLeastZero(Tokens({r \in CountedRows(rows, since, t) : r.user \in us}))

\* capsCheckOn: the monthly cap of the firm, then the daily cap of the user.
CapsAllow(rows, u, t) ==
  /\ UsedBy(Users, rows, Since(Month, t), t) < MonthlyLimit
  /\ DailyLimit > 0 => UsedBy({u}, rows, Since(Day, t), t) < DailyLimit

-----------------------------------------------------------------------------
(* The concurrency guard of admitLiveSession.                               *)

CountInWindow(rows, task, u, t) ==
  Cardinality({r \in rows : r.task = task /\ r.user = u /\ r.at > t - OpenWindow})

\* Holds in the window less releases in the window, whatever the releases are of.
OpenSessions(rows, u, t) ==
  AtLeastZero(CountInWindow(rows, "hold", u, t) - CountInWindow(rows, "release", u, t))

\* A continuation names a hold of the same user, issued recently enough.
IsRenewal(rows, u, s, prior, t) ==
  /\ prior # s
  /\ \E r \in HoldsFor(rows, prior) :
        r.user = u /\ (r.at > t - MaxSession \/ r.at > t - OpenWindow)

\* The budget lock is keyed by the tenant and the calendar month in which the
\* transaction began, so two months are two locks.
LockFree_never(t) == TRUE

LockFree(t) ==
  \A s \in Sessions : phase[s] = "admitting" => Since(Month, req[s].start) # Since(Month, t)

\* Without the unique index nobody waits for an uncommitted release.
PendingReleases_none == {}

\* Uncommitted releases of running admissions: the unique index of migration
\* 015 makes a second writer of one of them wait.
PendingReleases == UNION {req[s].swept : s \in {x \in Sessions : phase[x] = "admitting"}}

-----------------------------------------------------------------------------
(* Rows, as their writers fill them in.                                     *)

\* A release compensates exactly its hold and inherits its payer.
ReleaseOf(h, u, writer, t) ==
  [id |-> writer, task |-> "release", session |-> h.session, user |-> u,
   payer |-> h.payer, tokens |-> -h.tokens, at |-> t]

\* What a session is billed for, on the account of its hold.
ActualOf(h, u, writer, used, t) ==
  [id |-> writer, task |-> "actual", session |-> h.session, user |-> u,
   payer |-> h.payer, tokens |-> used, at |-> t]

NewHold(s, r) ==
  [id |-> s, task |-> "hold", session |-> s, user |-> r.user, payer |-> r.payer,
   tokens |-> HoldOf[s], at |-> r.start]

\* Holds no close ever arrived for.
StaleHolds(rows, t) ==
  {h \in rows : h.task = "hold" /\ h.at < t - SweepAge /\ ~Released(rows, h.session)}

\* A release row per session, physically.
ReleaseAllowed_unchecked(s) == TRUE

ReleaseAllowed(s) == ~Released(ledger, s)

ClampToHold(n, held) == IF n > held THEN held ELSE n

-----------------------------------------------------------------------------
NoRequest == [user |-> None, payer |-> "platform", start |-> 0, swept |-> {},
              allowed |-> FALSE, renewal |-> FALSE, rejected |-> FALSE]

NoClose == [step |-> "new", user |-> None, hold |-> None]

Init ==
  /\ ledger = {}
  /\ now = 0
  /\ phase = [s \in Sessions |-> "new"]
  /\ req = [s \in Sessions |-> NoRequest]
  /\ closing = [c \in Closes |-> NoClose]
  /\ calling = [k \in Calls |-> [step |-> "idle", user |-> None]]

\* What admitLiveSession decides in its transaction, once it has released the
\* stale holds: the concurrency guard, unless this is a renewal, then the caps.
Decision(s, u, payer, prior, stale) ==
  LET rows == ledger \cup {ReleaseOf(h, h.user, s, now) : h \in stale}
      renewal == IsRenewal(rows, u, s, prior, now)
  IN  [user |-> u, payer |-> payer, start |-> now, swept |-> {h.session : h \in stale},
       allowed |-> /\ renewal \/ OpenSessions(rows, u, now) < MaxConcurrent
                   /\ CapsAllow(rows, u, now),
       renewal |-> renewal, rejected |-> FALSE]

\* The reads of admitLiveSession, under the lock.  The sweep runs in a
\* savepoint: it clears every stale hold or, failing, none.  others is req with
\* what the handler no longer needs forgotten.
Decide(s, u, payer, prior, others) ==
  /\ LockFree(now)
  /\ \E stale \in {StaleHolds(ledger, now), {}} :
       /\ \A h \in stale : h.session \notin PendingReleases
       /\ req' = [others EXCEPT ![s] = Decision(s, u, payer, prior, stale)]
  /\ UNCHANGED <<ledger, now, closing, calling>>

\* POST /api/voice/live-session, up to the admission's decision.  The payer is
\* what BYOK resolution returned; the browser may name a session it was granted.
\* A refusal before the admission leaves nothing behind and is not a step.
Open(s) ==
  /\ phase[s] = "new"
  /\ \E u \in Users, payer \in Payers,
       prior \in {None} \cup {x \in Sessions : phase[x] = "live"} :
         Decide(s, u, payer, prior, req)
  /\ phase' = [phase EXCEPT ![s] = "admitting"]

\* The admission commits.  A refusal returns, so its sweep is committed too.
AdmitCommit(s) ==
  /\ phase[s] = "admitting"
  /\ ledger' = ledger
       \cup {ReleaseOf(h, h.user, s, req[s].start) :
               h \in {r \in ledger : r.task = "hold" /\ r.session \in req[s].swept}}
       \cup (IF req[s].allowed THEN {NewHold(s, req[s])} ELSE {})
  /\ phase' = [phase EXCEPT ![s] = IF req[s].allowed THEN "minting" ELSE "over"]
  /\ req' = IF req[s].allowed THEN [req EXCEPT ![s].swept = {}]
                              ELSE [req EXCEPT ![s] = NoRequest]
  /\ UNCHANGED <<now, closing, calling>>

\* Google issues the token and the browser gets it.
MintOk(s) ==
  /\ phase[s] = "minting"
  /\ phase' = [phase EXCEPT ![s] = "live"]
  /\ req' = [req EXCEPT ![s] = NoRequest]
  /\ UNCHANGED <<ledger, now, closing, calling>>

\* The mint throws; only a client's own key leads on to a retry.
MintFails(s) ==
  /\ phase[s] = "minting"
  /\ phase' = [phase EXCEPT ![s] = "failing"]
  /\ \E rejected \in BOOLEAN :
       /\ rejected => req[s].payer = "client_key"
       /\ req' = [req EXCEPT ![s].rejected = rejected]
  /\ UNCHANGED <<ledger, now, closing, calling>>

\* reconcileSession after a failed mint: the whole hold back, no usage.  An
\* error of the insert is swallowed.
MintReconcile(s) ==
  /\ phase[s] = "failing"
  /\ s \notin PendingReleases
  /\ \/ /\ ReleaseAllowed(s)
        /\ ledger' = ledger \cup {ReleaseOf(NewHold(s, req[s]), req[s].user, s, now)}
     \/ UNCHANGED ledger
  /\ phase' = [phase EXCEPT ![s] = IF req[s].rejected THEN "retrying" ELSE "over"]
  /\ req' = IF req[s].rejected THEN req ELSE [req EXCEPT ![s] = NoRequest]
  /\ UNCHANGED <<now, closing, calling>>

\* The second admission of the same request: a fresh session on the platform's
\* credential, presented as a renewal of the one just released.
Retry(s, fresh) ==
  /\ phase[s] = "retrying" /\ phase[fresh] = "new"
  /\ Decide(fresh, req[s].user, "platform", s, [req EXCEPT ![s] = NoRequest])
  /\ phase' = [phase EXCEPT ![s] = "over", ![fresh] = "admitting"]

\* The instance dies: an open transaction rolls back, committed rows stay.
OpenCrashes(s) ==
  /\ phase[s] \in {"admitting", "minting", "failing", "retrying"}
  /\ phase' = [phase EXCEPT ![s] = "over"]
  /\ req' = [req EXCEPT ![s] = NoRequest]
  /\ UNCHANGED <<ledger, now, closing, calling>>

-----------------------------------------------------------------------------
OpenHolds(u, s) == {h \in HoldsFor(ledger, s) : h.user = u /\ ~Released(ledger, s)}

\* POST /api/voice/live-session/close looks up the hold it may release; none
\* is a 404.  A session id is known once the session was granted.
CloseLookup(c) ==
  /\ closing[c].step = "new"
  /\ \E u \in Users, s \in {x \in Sessions : phase[x] = "live"} :
       \/ \E h \in OpenHolds(u, s) :
            closing' = [closing EXCEPT ![c] = [step |-> "found", user |-> u, hold |-> h]]
       \/ /\ OpenHolds(u, s) = {}
          /\ closing' = [closing EXCEPT ![c] = [NoClose EXCEPT !.step = "done"]]
  /\ UNCHANGED <<ledger, now, phase, req, calling>>

\* reconcileSession carrying on to the usage row when the release conflicts.
CloseRelease_ignoringConflict(c) ==
  /\ closing[c].step = "found"
  /\ LET h == closing[c].hold IN
       /\ h.session \notin PendingReleases
       /\ ledger' = IF ReleaseAllowed(h.session)
                    THEN ledger \cup {ReleaseOf(h, closing[c].user, c, now)}
                    ELSE ledger
       /\ closing' = [closing EXCEPT ![c].step = "released"]
  /\ UNCHANGED <<now, phase, req, calling>>

\* reconcileSession, first insert.  A second release of the session violates
\* the unique index: the error ends the reconciliation and is only logged.
CloseRelease(c) ==
  /\ closing[c].step = "found"
  /\ LET h == closing[c].hold IN
       /\ h.session \notin PendingReleases
       /\ \/ /\ ReleaseAllowed(h.session)
             /\ ledger' = ledger \cup {ReleaseOf(h, closing[c].user, c, now)}
             /\ closing' = [closing EXCEPT ![c].step = "released"]
          \/ /\ ~ReleaseAllowed(h.session)
             /\ closing' = [closing EXCEPT ![c] = [NoClose EXCEPT !.step = "done"]]
             /\ UNCHANGED ledger
  /\ UNCHANGED <<now, phase, req, calling>>

\* reconcileSession, second insert: what the browser reported, clamped to the
\* hold; nothing is written for a session that used nothing.
CloseActual(c) ==
  /\ closing[c].step = "released"
  /\ \E n \in Reports :
       LET h == closing[c].hold
           used == ClampToHold(n, h.tokens)
       IN  ledger' = IF used = 0 THEN ledger
                     ELSE ledger \cup {ActualOf(h, closing[c].user, c, used, now)}
  /\ closing' = [closing EXCEPT ![c] = [NoClose EXCEPT !.step = "done"]]
  /\ UNCHANGED <<now, phase, req, calling>>

\* A crash, or an insert that fails, ends the close where it stands.
CloseDies(c) ==
  /\ closing[c].step \in {"found", "released"}
  /\ closing' = [closing EXCEPT ![c] = [NoClose EXCEPT !.step = "done"]]
  /\ UNCHANGED <<ledger, now, phase, req, calling>>

-----------------------------------------------------------------------------
\* gateway.generate: dbLimitCheck in a transaction of its own, then the call.
CallStart(k) ==
  /\ calling[k].step = "idle"
  /\ LockFree(now)
  /\ \E u \in Users :
       /\ CapsAllow(ledger, u, now)
       /\ calling' = [calling EXCEPT ![k] = [step |-> "running", user |-> u]]
  /\ UNCHANGED <<ledger, now, phase, req, closing>>

\* The call returns and is metered; safeMeter swallows a failure to do so.
CallMeter(k) ==
  /\ calling[k].step = "running"
  /\ \/ ledger' = ledger \cup
          {[id |-> k, task |-> "llm", session |-> None, user |-> calling[k].user,
            payer |-> "platform", tokens |-> CallTokens, at |-> now]}
     \/ UNCHANGED ledger
  /\ calling' = [calling EXCEPT ![k] = [step |-> "done", user |-> None]]
  /\ UNCHANGED <<now, phase, req, closing>>

\* Time passes.  A transaction may straddle a boundary, but none lasts a unit.
Tick ==
  /\ now < MaxTime
  /\ \A s \in Sessions : phase[s] = "admitting" => req[s].start = now
  /\ now' = now + 1
  /\ UNCHANGED <<ledger, phase, req, closing, calling>>

Next ==
  \/ \E s \in Sessions : Open(s)
  \/ \E s \in Sessions : AdmitCommit(s)
  \/ \E s \in Sessions : MintOk(s)
  \/ \E s \in Sessions : MintFails(s)
  \/ \E s \in Sessions : MintReconcile(s)
  \/ \E s, fresh \in Sessions : Retry(s, fresh)
  \/ \E s \in Sessions : OpenCrashes(s)
  \/ \E c \in Closes : CloseLookup(c)
  \/ \E c \in Closes : CloseRelease(c)
  \/ \E c \in Closes : CloseActual(c)
  \/ \E c \in Closes : CloseDies(c)
  \/ \E k \in Calls : CallStart(k)
  \/ \E k \in Calls : CallMeter(k)
  \/ Tick

Spec == Init /\ [][Next]_vars

-----------------------------------------------------------------------------
(* Properties                                                               *)

\* Every variable keeps its shape.
TypeOK ==
  /\ ledger \subseteq Row
  /\ now \in Time
  /\ phase \in [Sessions -> {"new", "admitting", "minting", "live", "failing",
                             "retrying", "over"}]
  /\ req \in [Sessions -> Request]
  /\ closing \in [Closes -> [step : {"new", "found", "released", "done"},
                             user : Users \cup {None}, hold : Row \cup {None}]]
  /\ calling \in [Calls -> [step : {"running"}, user : Users]
                           \cup [step : {"idle", "done"}, user : {None}]]

\* However closes, sweeps, failed mints and crashes race, a session has at most
\* one hold and one release, and the release takes off the statement of the
\* same account and the same payer exactly what its own session reserved.
ReleaseCompensates ==
  \A r \in ledger : r.task = "release" =>
    /\ \A q \in ledger : q.task = "release" /\ q.session = r.session => q = r
    /\ \E h \in ledger :
         /\ h.task = "hold" /\ h.session = r.session
         /\ r.tokens = -h.tokens /\ r.user = h.user /\ r.payer = h.payer
         /\ h.at <= r.at

\* A session is billed at most once, only after its hold was given back by the
\* same request, for no more than the hold and to the hold's account and payer.
BilledWithinHold ==
  \A a \in ledger : a.task = "actual" =>
    /\ \A b \in ledger : b.task = "actual" /\ b.session = a.session => b = a
    /\ \E r \in ledger : r.task = "release" /\ r.session = a.session /\ r.id = a.id
    /\ \E h \in ledger :
         /\ h.task = "hold" /\ h.session = a.session
         /\ 0 < a.tokens /\ a.tokens <= h.tokens
         /\ a.user = h.user /\ a.payer = h.payer

Billable(us, since) == Tokens({r \in ledger : ~NonBillable(r) /\ r.user \in us /\ r.at >= since})

\* What may be spent at the moment a request of u is let through.
WithinCaps(u) ==
  /\ Billable(Users, Since(Month, now)) < MonthlyLimit
  /\ DailyLimit > 0 => Billable({u}, Since(Day, now)) < DailyLimit

\* No session and no call is let through once the firm's real spending of the
\* month, or the user's of the day, has reached the cap: no release of a
\* session opened before the boundary, or aged, can hide it.
CapsSeeSpending ==
  [][/\ \A s \in Sessions :
          phase[s] = "new" /\ phase'[s] = "admitting" /\ req'[s].allowed
            => WithinCaps(req'[s].user)
     /\ \A k \in Calls :
          calling[k].step = "idle" /\ calling'[k].step = "running"
            => WithinCaps(calling'[k].user)]_vars

\* Holds that could still be running at time t.
LiveHolds(t) ==
  {h \in ledger : h.task = "hold" /\ h.at > t - MaxSession /\ ~Released(ledger, h.session)}

MaxHold == Max({HoldOf[s] : s \in Sessions})

\* Simultaneous opens cannot claim the same budget twice: the reservations of
\* one month that could still be running exceed the cap by less than one hold.
ReservationsWithinCap ==
  Tokens({h \in LiveHolds(now) : h.at >= Since(Month, now)}) < MonthlyLimit + MaxHold

\* A caller holds a usable token only while its cost is charged: a granted
\* session that is not over has a hold that the monthly cap counts.
LiveTokenIsCharged ==
  \A s \in Sessions : phase[s] = "live" =>
    /\ HoldsFor(ledger, s) # {}
    /\ \A h \in HoldsFor(ledger, s) :
         h \in LiveHolds(now) /\ h.at >= Since(Month, now)
           => h \in CountedRows(ledger, Since(Month, now), now)

\* However opens, retries, sweeps and closes meet, the rows of every session add
\* up: one hold, at most one release that undoes it, at most one charge within it.
SessionsAddUp == TypeOK /\ ReleaseCompensates /\ BilledWithinHold

\* The ledger keeps the promise of HoldAccount.
StatusOf(s) ==
  IF \E r \in ledger : r.task = "actual" /\ r.session = s THEN "charged"
  ELSE IF Released(ledger, s) THEN "released"
  ELSE IF HoldsFor(ledger, s) # {} THEN "held"
  ELSE "none"

ChargeOf(s) ==
  LET billed == {r \in ledger : r.task = "actual" /\ r.session = s}
  IN  IF billed = {} THEN 0 ELSE (CHOOSE r \in billed : TRUE).tokens

Account == INSTANCE HoldAccount WITH
  status <- [s \in Sessions |-> StatusOf(s)],
  charge <- [s \in Sessions |-> ChargeOf(s)]

\* A reservation is made once, given back once and in full, and followed by at
\* most one charge within it: every step of the ledger is a step of the account.
KeepsAccount == Account!AccountSpec

-----------------------------------------------------------------------------
(* The inductive invariant behind ReleaseCompensates, BilledWithinHold and  *)
(* KeepsAccount, in named parts.                                            *)

\* Nothing committed or running is dated in the future.
NothingAhead ==
  /\ \A r \in ledger : r.at <= now
  /\ \A s \in Sessions : req[s].start <= now

\* Holds are one per session, written by its own admission, at its full size.
HoldsAreGenuine ==
  /\ \A h \in ledger : h.task = "hold" =>
       /\ h.session \in Sessions
       /\ h.tokens = HoldOf[h.session]
       /\ phase[h.session] \notin {"new", "admitting"}
  /\ \A h, g \in ledger :
       h.task = "hold" /\ g.task = "hold" /\ h.session = g.session => h = g

\* An open request knows its user, and while it can still release its hold,
\* that hold is the one it would write again from its own arguments.
RequestsKnowTheirHold ==
  /\ \A s \in Sessions :
       phase[s] \in {"admitting", "minting", "failing", "retrying"} => req[s].user \in Users
  /\ \A s \in Sessions :
       phase[s] \in {"minting", "failing"} => NewHold(s, req[s]) \in ledger

\* What a running admission has swept is held, unreleased and swept only once.
SweepsAreSafe ==
  /\ \A s \in Sessions : \A x \in req[s].swept :
       /\ phase[s] = "admitting"
       /\ ~Released(ledger, x)
       /\ \E h \in HoldsFor(ledger, x) : h.at <= req[s].start
  /\ \A s, t \in Sessions : s # t => req[s].swept \cap req[t].swept = {}

\* A close has a stored hold of its own user; between its two inserts the
\* session's only release is its own and nothing was billed yet.
ClosesOwnTheirHold ==
  \A c \in Closes :
    /\ closing[c].step \in {"found", "released"} =>
         /\ closing[c].hold \in ledger
         /\ closing[c].hold.task = "hold"
         /\ closing[c].hold.user = closing[c].user
    /\ closing[c].step = "released" =>
         /\ \E r \in ledger :
              r.task = "release" /\ r.session = closing[c].hold.session /\ r.id = c
         /\ \A a \in ledger : a.task = "actual" => a.session # closing[c].hold.session

IInv ==
  /\ TypeOK
  /\ NothingAhead
  /\ HoldsAreGenuine
  /\ RequestsKnowTheirHold
  /\ SweepsAreSafe
  /\ ClosesOwnTheirHold
  /\ ReleaseCompensates
  /\ BilledWithinHold

-----------------------------------------------------------------------------
\* "Concurrency: holds issued inside the window, minus their releases": a
\* session that continues none is admitted only while its user has fewer than
\* MaxConcurrent sessions open, holds in the window that were not released.
ConcurrencyGuardHolds ==
  \A s \in Sessions :
    phase[s] = "admitting" /\ req[s].allowed /\ ~req[s].renewal =>
      Cardinality({h \in ledger : /\ h.task = "hold" /\ h.user = req[s].user
                                  /\ h.at > req[s].start - OpenWindow
                                  /\ ~Released(ledger, h.session)}) < MaxConcurrent
=============================================================================
