-------------------------- MODULE LiveSessionProofs --------------------------
(***************************************************************************)
(* Proofs about a live session on both of its sides: the ledger of a tenant *)
(* (LiveLedger) and the page that speaks (LivePage).  The two models share *)
(* no state, and no theorem of one rests on the other; the definitions of  *)
(* the page whose names the ledger has too carry the prefix Page.          *)
(***************************************************************************)
EXTENDS LiveLedger, LivePage, TLAPS, FiniteSetTheorems

(***************************************************************************)
(* The ledger, for every tenant: the inductive invariant IInv, the         *)
(* invariants it strengthens, the refinement of HoldAccount, and what the  *)
(* caps of a tenant see and what they keep.                                *)
(***************************************************************************)

(* What the writers of rows put into them. *)

\* A release is a row, of its hold's session and payer, and takes off exactly
\* the hold's tokens.
LEMMA ReleaseRow ==
  ASSUME NEW h \in Row, NEW u \in Users,
         NEW w \in Sessions \cup Closes \cup Calls, NEW t \in Time
  PROVE  /\ ReleaseOf(h, u, w, t) \in Row
         /\ ReleaseOf(h, u, w, t).id = w
         /\ ReleaseOf(h, u, w, t).task = "release"
         /\ ReleaseOf(h, u, w, t).session = h.session
         /\ ReleaseOf(h, u, w, t).user = u
         /\ ReleaseOf(h, u, w, t).payer = h.payer
         /\ ReleaseOf(h, u, w, t).tokens = -h.tokens
         /\ ReleaseOf(h, u, w, t).at = t
  BY DEF ReleaseOf, Row

\* A hold is a row of its own session, at that session's full size.
LEMMA HoldRow ==
  ASSUME NEW s \in Sessions, NEW r,
         r.user \in Users, r.payer \in Payers, r.start \in Time
  PROVE  /\ NewHold(s, r) \in Row
         /\ NewHold(s, r).task = "hold"
         /\ NewHold(s, r).session = s
         /\ NewHold(s, r).user = r.user
         /\ NewHold(s, r).payer = r.payer
         /\ NewHold(s, r).tokens = HoldOf[s]
         /\ NewHold(s, r).at = r.start
  BY HoldAssumption DEF NewHold, Row, Payers

\* The row a close writes for what the session used, when it used anything.
LEMMA ActualRow ==
  ASSUME NEW h \in Row, NEW c \in Closes, NEW u \in Users, NEW n \in Reports, NEW t \in Time,
         h.tokens \in Nat \ {0}, ClampToHold(n, h.tokens) # 0
  PROVE  LET a == ActualOf(h, u, c, ClampToHold(n, h.tokens), t)
         IN  /\ a \in Row /\ a.id = c /\ a.task = "actual" /\ a.session = h.session
             /\ a.user = u /\ a.payer = h.payer /\ a.at = t
             /\ 0 < a.tokens /\ a.tokens <= h.tokens
  <1>1. ClampToHold(n, h.tokens) \in 1 .. h.tokens
    BY ReportAssumption DEF ClampToHold
  <1> QED
    BY <1>1 DEF ActualOf, Row

\* Updating one field of a request leaves a request with its other fields.
LEMMA RequestUpdate ==
  ASSUME NEW r \in Request, NEW b \in BOOLEAN
  PROVE  /\ [r EXCEPT !.swept = {}] \in Request
         /\ [r EXCEPT !.swept = {}].swept = {}
         /\ [r EXCEPT !.swept = {}].user = r.user
         /\ [r EXCEPT !.swept = {}].payer = r.payer
         /\ [r EXCEPT !.swept = {}].start = r.start
         /\ [r EXCEPT !.rejected = b] \in Request
         /\ [r EXCEPT !.rejected = b].swept = r.swept
         /\ [r EXCEPT !.rejected = b].user = r.user
         /\ [r EXCEPT !.rejected = b].payer = r.payer
         /\ [r EXCEPT !.rejected = b].start = r.start
  BY DEF Request

\* A request that has not begun, or is done with, carries nothing.
LEMMA NoRequestType ==
  NoRequest \in Request /\ NoRequest.swept = {} /\ NoRequest.start = 0
  BY ClockAssumption DEF NoRequest, Request, Payers, Time

\* Where no release is pending, no running admission has swept the session.
LEMMA NotPending ==
  ASSUME IInv, NEW x, x \notin PendingReleases
  PROVE  \A s \in Sessions : x \notin req[s].swept
  BY DEF IInv, SweepsAreSafe, PendingReleases

-----------------------------------------------------------------------------
(* The invariant holds at the start and every action keeps it. *)

LEMMA InitIInv == Init => IInv
  <1> SUFFICES ASSUME Init PROVE IInv
    OBVIOUS
  <1>1. TypeOK
    BY NoRequestType, ClockAssumption DEF Init, TypeOK, NoClose, Time
  <1> QED
    BY <1>1, ClockAssumption DEF Init, IInv, NothingAhead, HoldsAreGenuine, RequestsKnowTheirHold,
       SweepsAreSafe, ClosesOwnTheirHold, ReleaseCompensates, BilledWithinHold,
       NoRequest, NoClose

\* A decision is a well-typed request of the user who asked, dated now.
LEMMA DecisionType ==
  ASSUME NEW s \in Sessions, NEW u \in Users, NEW payer \in Payers, NEW prior,
         NEW stale, stale \subseteq ledger, \A h \in stale : h.session \in Sessions,
         now \in Time
  PROVE  /\ Decision(s, u, payer, prior, stale) \in
              Request
         /\ Decision(s, u, payer, prior, stale).user = u
         /\ Decision(s, u, payer, prior, stale).start = now
         /\ Decision(s, u, payer, prior, stale).swept = {h.session : h \in stale}
  <1> DEFINE d == Decision(s, u, payer, prior, stale)
             swept == {h.session : h \in stale}
             rows == ledger \cup {ReleaseOf(h, h.user, s, now) : h \in stale}
             renewal == IsRenewal(rows, u, s, prior, now)
             allowed == /\ renewal \/ OpenSessions(rows, u, now) < MaxConcurrent
                        /\ CapsAllow(rows, u, now)
  <1>1. renewal \in BOOLEAN
    BY Zenon DEF IsRenewal
  <1>2. allowed \in BOOLEAN
    BY Zenon DEF CapsAllow
  <1>3. d = [user |-> u, payer |-> payer, start |-> now, swept |-> swept,
             allowed |-> allowed, renewal |-> renewal, rejected |-> FALSE]
    BY DEF Decision
  <1>4. swept \in SUBSET Sessions
    OBVIOUS
  <1> HIDE DEF renewal, allowed, d, swept
  <1>5. now \in Time
    OBVIOUS
  <1>6. d \in Request
    BY <1>1, <1>2, <1>3, <1>4, <1>5 DEF Request
  <1>7. d.user = u /\ d.start = now /\ d.swept = swept
    BY <1>3
  <1> QED
    BY <1>6, <1>7 DEF d, swept

\* Deciding an admission writes no row; it records a request that is dated now
\* and has swept only stale holds that no one else is releasing.
LEMMA DecideIInv ==
  ASSUME IInv, NEW s \in Sessions, NEW u \in Users, NEW payer \in Payers, NEW prior,
         NEW others, NEW from,
         phase[s] = "new",
         \/ others = req /\ phase' = [phase EXCEPT ![s] = "admitting"]
         \/ /\ from \in Sessions /\ phase[from] = "retrying"
            /\ others = [req EXCEPT ![from] = NoRequest]
            /\ phase' = [phase EXCEPT ![from] = "over", ![s] = "admitting"],
         Decide(s, u, payer, prior, others)
  PROVE  IInv'
  <1> USE DEF IInv
  <1>1. PICK stale \in {StaleHolds(ledger, now), {}} :
          /\ \A h \in stale : h.session \notin PendingReleases
          /\ req' = [others EXCEPT ![s] = Decision(s, u, payer, prior, stale)]
    BY DEF Decide
  <1>2. UNCHANGED <<ledger, now, closing, calling>>
    BY DEF Decide
  <1> DEFINE d == Decision(s, u, payer, prior, stale)
  <1>3. stale \subseteq ledger /\ \A h \in stale : h.task = "hold" /\ h.session \in Sessions
    BY <1>1 DEF StaleHolds, HoldsAreGenuine
  <1>4. /\ d \in Request
        /\ d.user = u /\ d.start = now /\ d.swept = {h.session : h \in stale}
    <2>1. now \in Time /\ stale \subseteq ledger /\ \A h \in stale : h.session \in Sessions
      BY <1>3 DEF TypeOK
    <2> QED
      BY ONLY <2>1, DecisionType
  <1> HIDE DEF d
  <1>5. req' = [others EXCEPT ![s] = d]
    BY <1>1 DEF d
  <1>a. from \in Sessions /\ phase[from] = "retrying" => from # s
    OBVIOUS
  <1>6. /\ req' \in [Sessions -> Request]
        /\ req'[s] = d
        /\ \A x \in Sessions \ {s} : req'[x] = req[x] \/ (req'[x] = NoRequest /\ phase'[x] = "over")
    BY NoRequestType, <1>4, <1>5 DEF TypeOK
  <1>7. /\ phase'[s] = "admitting"
        /\ \A x \in Sessions \ {s} :
             \/ phase'[x] = phase[x]
             \/ phase[x] = "retrying" /\ phase'[x] = "over"
        /\ TypeOK'
    BY <1>2, <1>6 DEF TypeOK
  <1>8. NothingAhead'
    BY <1>2, <1>4, <1>6, ClockAssumption DEF NothingAhead, NoRequest, TypeOK, Time
  <1>9. HoldsAreGenuine'
    BY <1>2, <1>7 DEF HoldsAreGenuine
  <1>10. RequestsKnowTheirHold'
    BY <1>2, <1>4, <1>6, <1>7 DEF RequestsKnowTheirHold
  <1>11. SweepsAreSafe'
    <2>1. ASSUME NEW x \in d.swept
          PROVE  /\ ~Released(ledger, x)
                 /\ \E h \in HoldsFor(ledger, x) : h.at <= now
                 /\ \A t \in Sessions : x \notin req[t].swept
      <3>1. PICK h \in stale : h.session = x
        BY <1>4
      <3>2. ~Released(ledger, x)
        BY <1>1, <3>1 DEF StaleHolds
      <3>3. \E g \in HoldsFor(ledger, x) : g.at <= now
        BY <1>3, <3>1 DEF HoldsFor, NothingAhead
      <3>4. \A t \in Sessions : x \notin req[t].swept
        BY <1>1, <3>1, NotPending
      <3> QED
        BY <3>2, <3>3, <3>4
    <2>2. \A x \in Sessions \ {s} : req'[x].swept \subseteq req[x].swept
                                     /\ (req'[x].swept # {} => req'[x] = req[x])
      BY <1>6 DEF NoRequest
    <2>3. ASSUME NEW t \in Sessions, NEW x \in req'[t].swept
          PROVE  /\ phase'[t] = "admitting"
                 /\ ~Released(ledger, x)
                 /\ \E h \in HoldsFor(ledger, x) : h.at <= req'[t].start
      <3>1. CASE t = s
        BY <1>4, <1>6, <1>7, <2>1, <3>1
      <3>2. CASE t # s
        <4>1. req'[t] = req[t] /\ x \in req[t].swept
          BY <2>2, <2>3, <3>2
        <4>2. phase[t] = "admitting"
          BY <4>1 DEF SweepsAreSafe
        <4> QED
          BY <1>7, <3>2, <4>1, <4>2 DEF SweepsAreSafe
      <3> QED
        BY <3>1, <3>2
    <2>4. ASSUME NEW t \in Sessions, NEW t2 \in Sessions, t # t2
          PROVE  req'[t].swept \cap req'[t2].swept = {}
      <3>1. CASE t = s
        BY <1>4, <1>6, <2>1, <2>2, <2>4, <3>1
      <3>2. CASE t2 = s
        BY <1>4, <1>6, <2>1, <2>2, <2>4, <3>2
      <3>3. CASE t # s /\ t2 # s
        BY <2>2, <2>4, <3>3 DEF SweepsAreSafe
      <3> QED
        BY <3>1, <3>2, <3>3
    <2>5. ledger' = ledger
      BY <1>2
    <2> QED
      BY <2>3, <2>4, <2>5 DEF SweepsAreSafe, Released, HoldsFor
  <1>12. ClosesOwnTheirHold' /\ ReleaseCompensates' /\ BilledWithinHold'
    BY <1>2 DEF ClosesOwnTheirHold, ReleaseCompensates, BilledWithinHold
  <1> QED
    BY <1>7, <1>8, <1>9, <1>10, <1>11, <1>12

\* An open request that moves on without writing keeps the invariant: a granted
\* token, a failed mint and a crash are such steps.
LEMMA RequestStepIInv ==
  ASSUME IInv, NEW s \in Sessions, NEW p, NEW q,
         UNCHANGED <<ledger, now, closing, calling>>,
         phase' = [phase EXCEPT ![s] = p],
         req' = [req EXCEPT ![s] = q],
         \/ p \in {"live", "over"} /\ phase[s] # "new" /\ q = NoRequest
         \/ /\ p = "failing" /\ phase[s] = "minting"
            /\ \E b \in BOOLEAN : q = [req[s] EXCEPT !.rejected = b]
  PROVE  IInv'
  <1> USE DEF IInv
  <1>1. /\ q \in Request
        /\ q.swept = {}
        /\ q.start <= now
        /\ p = "failing" =>
             /\ phase[s] = "minting"
             /\ q.user = req[s].user /\ q.payer = req[s].payer /\ q.start = req[s].start
    <2>1. CASE q = NoRequest /\ p # "failing"
      BY <2>1, NoRequestType, ClockAssumption DEF TypeOK, Time
    <2>2. CASE p = "failing" /\ phase[s] = "minting"
               /\ \E b \in BOOLEAN : q = [req[s] EXCEPT !.rejected = b]
      <3>1. PICK b \in BOOLEAN : q = [req[s] EXCEPT !.rejected = b]
        BY <2>2
      <3>2. req[s] \in Request
        BY DEF TypeOK
      <3>3. req[s].swept = {} /\ req[s].start <= now
        BY <2>2 DEF SweepsAreSafe, NothingAhead
      <3>4. /\ q \in Request /\ q.swept = req[s].swept /\ q.user = req[s].user
            /\ q.payer = req[s].payer /\ q.start = req[s].start
        BY ONLY <3>1, <3>2, RequestUpdate
      <3> QED
        BY <2>2, <3>3, <3>4
    <2> QED
      BY <2>1, <2>2
  <1>2. p \in {"live", "over", "failing"} /\ phase[s] # "new"
    OBVIOUS
  <1>3. TypeOK'
    BY <1>1, <1>2 DEF TypeOK
  <1>4. /\ req'[s] = q /\ phase'[s] = p
        /\ \A x \in Sessions \ {s} : req'[x] = req[x] /\ phase'[x] = phase[x]
    BY DEF TypeOK
  <1>5. ledger' = ledger /\ now' = now
    OBVIOUS
  <1>6. NothingAhead'
    BY <1>1, <1>4, <1>5 DEF NothingAhead
  <1>7. HoldsAreGenuine'
    BY <1>2, <1>4, <1>5 DEF HoldsAreGenuine
  <1>8. RequestsKnowTheirHold'
    BY <1>1, <1>2, <1>4, <1>5 DEF RequestsKnowTheirHold, NewHold
  <1>9. SweepsAreSafe'
    BY <1>1, <1>4, <1>5 DEF SweepsAreSafe, Released, HoldsFor
  <1>10. ClosesOwnTheirHold' /\ ReleaseCompensates' /\ BilledWithinHold'
    BY <1>5 DEF ClosesOwnTheirHold, ReleaseCompensates, BilledWithinHold
  <1> QED
    BY <1>3, <1>6, <1>7, <1>8, <1>9, <1>10

\* A close that starts, finds nothing or dies writes no row.
LEMMA CloseStepIInv ==
  ASSUME IInv, NEW c \in Closes, NEW k,
         UNCHANGED <<ledger, now, phase, req, calling>>,
         closing' = [closing EXCEPT ![c] = k],
         \/ k = [NoClose EXCEPT !.step = "done"]
         \/ \E u \in Users, s \in Sessions : \E h \in OpenHolds(u, s) :
              k = [step |-> "found", user |-> u, hold |-> h]
  PROVE  IInv'
  <1> USE DEF IInv
  <1>1. /\ k \in [step : {"new", "found", "released", "done"},
                  user : Users \cup {None}, hold : Row \cup {None}]
        /\ k.step \in {"done", "found"}
        /\ k.step = "found" => k.hold \in ledger /\ k.hold.task = "hold" /\ k.hold.user = k.user
    BY DEF NoClose, OpenHolds, HoldsFor, TypeOK
  <1>2. TypeOK'
    BY <1>1 DEF TypeOK
  <1>3. ClosesOwnTheirHold'
    BY <1>1 DEF ClosesOwnTheirHold, TypeOK
  <1>4. NothingAhead' /\ HoldsAreGenuine' /\ RequestsKnowTheirHold' /\ SweepsAreSafe'
    BY DEF NothingAhead, HoldsAreGenuine, RequestsKnowTheirHold, SweepsAreSafe, NewHold,
       Released, HoldsFor
  <1>5. ReleaseCompensates' /\ BilledWithinHold'
    BY DEF ReleaseCompensates, BilledWithinHold
  <1> QED
    BY <1>2, <1>3, <1>4, <1>5

\* The clock and the start of a gateway call touch neither rows nor requests.
LEMMA QuietIInv ==
  ASSUME IInv, (\E k \in Calls : CallStart(k)) \/ Tick
  PROVE  IInv'
  <1> USE DEF IInv
  <1>1. /\ UNCHANGED <<ledger, phase, req, closing>>
        /\ now' \in Time /\ now <= now'
    BY ClockAssumption DEF CallStart, Tick, TypeOK, Time
  <1>2. TypeOK'
    BY <1>1 DEF TypeOK, CallStart, Tick
  <1>3. NothingAhead'
    <2>1. now \in Int /\ now' \in Int
      BY <1>1, ClockAssumption DEF TypeOK, Time
    <2>2. \A r \in ledger : r.at \in Int
      BY ClockAssumption DEF TypeOK, Row, Time
    <2>3. \A s \in Sessions : req[s].start \in Int
      BY ClockAssumption DEF TypeOK, Request, Time
    <2> QED
      BY <1>1, <2>1, <2>2, <2>3 DEF NothingAhead
  <1>4. HoldsAreGenuine' /\ RequestsKnowTheirHold' /\ SweepsAreSafe'
    BY <1>1 DEF HoldsAreGenuine, RequestsKnowTheirHold, SweepsAreSafe, NewHold, Released, HoldsFor
  <1>5. ClosesOwnTheirHold' /\ ReleaseCompensates' /\ BilledWithinHold'
    BY <1>1 DEF ClosesOwnTheirHold, ReleaseCompensates, BilledWithinHold
  <1> QED
    BY <1>2, <1>3, <1>4, <1>5

-----------------------------------------------------------------------------
\* Releasing unreleased holds, and adding holds, in one commit: a release each
\* for the sessions of H, and nothing else changes about what was compensated.
LEMMA WriteReleases ==
  ASSUME IInv, NEW H, NEW N, NEW w \in Sessions \cup Closes \cup Calls, NEW t \in Time,
         t <= now, H \subseteq ledger,
         \A h \in H : h.task = "hold" /\ ~Released(ledger, h.session) /\ h.at <= t,
         \A n \in N : n \in Row /\ n.task = "hold" /\ n.at <= now,
         ledger' = ledger \cup {ReleaseOf(h, h.user, w, t) : h \in H} \cup N
  PROVE  /\ ledger' \subseteq Row
         /\ \A r \in ledger' : r.at <= now
         /\ \A r \in ledger' : r.task = "hold" => r \in ledger \/ r \in N
         /\ \A r \in ledger' : r.task = "actual" => r \in ledger
         /\ \A x : Released(ledger', x) => Released(ledger, x) \/ \E h \in H : h.session = x
         /\ ReleaseCompensates'
         /\ BilledWithinHold'
  <1> USE DEF IInv
  <1>1. \A h \in H :
          LET r == ReleaseOf(h, h.user, w, t)
          IN  /\ r \in Row /\ r.task = "release" /\ r.id = w /\ r.session = h.session
              /\ r.user = h.user /\ r.payer = h.payer /\ r.tokens = -h.tokens /\ r.at = t
    BY ReleaseRow DEF TypeOK, Row
  <1> DEFINE R == {ReleaseOf(h, h.user, w, t) : h \in H}
  <1>2. \A r \in R : \E h \in H :
          /\ r \in Row /\ r.task = "release" /\ r.session = h.session
          /\ r.user = h.user /\ r.payer = h.payer /\ r.tokens = -h.tokens /\ r.at = t
          /\ r = ReleaseOf(h, h.user, w, t)
    BY <1>1
  <1>3. ledger' = ledger \cup R \cup N
    OBVIOUS
  <1> HIDE DEF R
  <1>4. ledger' \subseteq Row
    BY <1>2, <1>3 DEF TypeOK
  <1>5. \A r \in ledger' : r.at <= now
    BY <1>2, <1>3 DEF NothingAhead
  <1>6. \A r \in ledger' : r.task = "hold" => r \in ledger \/ r \in N
    BY <1>2, <1>3
  <1>7. \A r \in ledger' : r.task = "actual" => r \in ledger
    BY <1>2, <1>3
  <1>8. \A r \in ledger' : r.task = "release" => r \in ledger \/ r \in R
    BY <1>3
  <1>9. \A x : Released(ledger', x) => Released(ledger, x) \/ \E h \in H : h.session = x
    BY <1>2, <1>8 DEF Released
  <1>10. ReleaseCompensates'
    <2>1. ASSUME NEW r \in ledger', r.task = "release", NEW q \in ledger',
                 q.task = "release", q.session = r.session
          PROVE  q = r
      <3>1. CASE r \in ledger /\ q \in ledger
        BY <2>1, <3>1 DEF ReleaseCompensates
      <3>2. CASE r \in R /\ q \in R
        BY <2>1, <1>2, <3>2 DEF HoldsAreGenuine
      <3>3. CASE r \in R /\ q \in ledger
        BY <2>1, <1>2, <3>3 DEF Released
      <3>4. CASE r \in ledger /\ q \in R
        BY <2>1, <1>2, <3>4 DEF Released
      <3> QED
        BY <2>1, <1>8, <3>1, <3>2, <3>3, <3>4
    <2>2. ASSUME NEW r \in ledger', r.task = "release"
          PROVE  \E h \in ledger' :
                   /\ h.task = "hold" /\ h.session = r.session
                   /\ r.tokens = -h.tokens /\ r.user = h.user /\ r.payer = h.payer
                   /\ h.at <= r.at
      <3>1. CASE r \in ledger
        BY <2>2, <1>3, <3>1 DEF ReleaseCompensates
      <3>2. CASE r \in R
        BY <1>2, <1>3, <3>2
      <3> QED
        BY <2>2, <1>8, <3>1, <3>2
    <2> QED
      BY <2>1, <2>2 DEF ReleaseCompensates
  <1>11. BilledWithinHold'
    BY <1>3, <1>7 DEF BilledWithinHold
  <1> QED
    BY <1>4, <1>5, <1>6, <1>7, <1>9, <1>10, <1>11

\* The commit of an admission.
LEMMA AdmitCommitIInv ==
  ASSUME IInv, NEW s \in Sessions, AdmitCommit(s)
  PROVE  IInv'
  <1> USE DEF IInv
  <1> DEFINE H == {r \in ledger : r.task = "hold" /\ r.session \in req[s].swept}
             N == IF req[s].allowed THEN {NewHold(s, req[s])} ELSE {}
  <1>1. /\ phase[s] = "admitting" /\ req[s].user \in Users /\ req[s].payer \in Payers
        /\ req[s].start \in Time /\ req[s].start <= now /\ now \in Time
    BY DEF AdmitCommit, RequestsKnowTheirHold, TypeOK, NothingAhead, Request
  <1>2. /\ NewHold(s, req[s]) \in Row
        /\ NewHold(s, req[s]).task = "hold" /\ NewHold(s, req[s]).session = s
        /\ NewHold(s, req[s]).tokens = HoldOf[s] /\ NewHold(s, req[s]).at = req[s].start
    BY <1>1, HoldRow
  <1>3. \A n \in N : n = NewHold(s, req[s])
    OBVIOUS
  <1>4. /\ H \subseteq ledger
        /\ \A h \in H : /\ h.task = "hold" /\ h.session \in req[s].swept
                        /\ ~Released(ledger, h.session) /\ h.at <= req[s].start
    BY DEF SweepsAreSafe, HoldsFor, HoldsAreGenuine
  <1>5. ledger' = ledger \cup {ReleaseOf(h, h.user, s, req[s].start) : h \in H} \cup N
    BY DEF AdmitCommit
  <1>6. UNCHANGED <<now, closing, calling>>
    BY DEF AdmitCommit
  <1> HIDE DEF H, N
  <1>7. /\ ledger' \subseteq Row
        /\ \A r \in ledger' : r.at <= now
        /\ \A r \in ledger' : r.task = "hold" => r \in ledger \/ r \in N
        /\ \A r \in ledger' : r.task = "actual" => r \in ledger
        /\ \A x : Released(ledger', x) => Released(ledger, x) \/ \E h \in H : h.session = x
        /\ ReleaseCompensates'
        /\ BilledWithinHold'
    <2>1. \A n \in N : n \in Row /\ n.task = "hold" /\ n.at <= now
      BY <1>1, <1>2, <1>3
    <2>2. \A h \in H : h.task = "hold" /\ ~Released(ledger, h.session) /\ h.at <= req[s].start
      BY <1>4
    <2>3. H \subseteq ledger /\ s \in Sessions \cup Closes \cup Calls
      BY <1>4
    <2> QED
      BY ONLY IInv, <1>1, <1>5, <2>1, <2>2, <2>3, WriteReleases
  <1>8. ledger \subseteq ledger'
    BY <1>5
  <1>9. /\ req[s].allowed \in BOOLEAN
        /\ req[s].allowed => NewHold(s, req[s]) \in ledger'
        /\ ~req[s].allowed => N = {}
    <2>1. req[s] \in Request
      BY DEF TypeOK
    <2>2. req[s].allowed \in BOOLEAN
      BY ONLY <2>1 DEF Request
    <2> QED
      BY <1>5, <2>2 DEF N
  <1>a. /\ req[s].allowed => req' = [req EXCEPT ![s] = [req[s] EXCEPT !.swept = {}]]
        /\ ~req[s].allowed => req' = [req EXCEPT ![s] = NoRequest]
        /\ req[s] \in Request
    BY DEF AdmitCommit, TypeOK
  <1>10. /\ phase'[s] = (IF req[s].allowed THEN "minting" ELSE "over")
         /\ \A x \in Sessions \ {s} : phase'[x] = phase[x] /\ req'[x] = req[x]
         /\ req'[s].swept = {} /\ req'[s].start <= now
         /\ req[s].allowed => /\ req'[s].user = req[s].user
                              /\ req'[s].payer = req[s].payer
                              /\ req'[s].start = req[s].start
    BY <1>1, <1>9, <1>a, RequestUpdate, NoRequestType, ClockAssumption DEF AdmitCommit, TypeOK, Time
  <1>11. TypeOK'
    <2>1. req' \in [Sessions -> Request]
      <3>1. req \in [Sessions -> Request] /\ [req[s] EXCEPT !.swept = {}] \in Request
        BY <1>a, RequestUpdate DEF TypeOK
      <3>2. CASE req[s].allowed
        BY ONLY <1>a, <3>1, <3>2
      <3>3. CASE ~req[s].allowed
        BY ONLY <1>a, <3>1, <3>3, NoRequestType
      <3> QED
        BY <1>9, <3>2, <3>3
    <2>2. phase' \in [Sessions -> {"new", "admitting", "minting", "live", "failing",
                                   "retrying", "over"}]
      BY <1>9 DEF AdmitCommit, TypeOK
    <2> QED
      BY <1>6, <1>7, <2>1, <2>2 DEF TypeOK
  <1>12. NothingAhead'
    BY <1>6, <1>7, <1>10 DEF NothingAhead
  <1>13. HoldsAreGenuine'
    <2>1. \A h \in ledger : h.task = "hold" => h.session # s
      BY <1>1 DEF HoldsAreGenuine
    <2>2. ASSUME NEW h \in ledger', h.task = "hold"
          PROVE  /\ h.session \in Sessions /\ h.tokens = HoldOf[h.session]
                 /\ phase'[h.session] \notin {"new", "admitting"}
      <3>1. CASE h \in ledger
        BY <1>10, <2>1, <2>2, <3>1 DEF HoldsAreGenuine
      <3>2. CASE h \in N
        BY <1>2, <1>3, <1>9, <1>10, <3>2
      <3> QED
        BY <1>7, <2>2, <3>1, <3>2
    <2>3. ASSUME NEW h \in ledger', NEW g \in ledger',
                 h.task = "hold", g.task = "hold", h.session = g.session
          PROVE  h = g
      BY <1>2, <1>3, <1>7, <2>1, <2>3 DEF HoldsAreGenuine
    <2> QED
      BY <2>2, <2>3 DEF HoldsAreGenuine
  <1>14. RequestsKnowTheirHold'
    BY <1>1, <1>8, <1>9, <1>10 DEF RequestsKnowTheirHold, NewHold
  <1>15. SweepsAreSafe'
    <2>1. ASSUME NEW x \in Sessions, NEW y \in req'[x].swept
          PROVE  /\ phase'[x] = "admitting"
                 /\ ~Released(ledger', y)
                 /\ \E h \in HoldsFor(ledger', y) : h.at <= req'[x].start
      <3>1. x # s /\ y \in req[x].swept /\ phase[x] = "admitting" /\ req'[x] = req[x]
            /\ phase'[x] = "admitting"
        BY <1>10, <2>1 DEF SweepsAreSafe
      <3>2. y \notin req[s].swept
        BY <3>1 DEF SweepsAreSafe
      <3>3. ~Released(ledger', y)
        BY <1>4, <1>7, <3>1, <3>2 DEF SweepsAreSafe
      <3>4. \E h \in HoldsFor(ledger', y) : h.at <= req[x].start
        BY <1>8, <3>1 DEF SweepsAreSafe, HoldsFor
      <3> QED
        BY <3>1, <3>3, <3>4
    <2> QED
      BY <1>10, <2>1 DEF SweepsAreSafe
  <1>16. ClosesOwnTheirHold'
    <2>1. ASSUME NEW c \in Closes, closing'[c].step \in {"found", "released"}
          PROVE  /\ closing'[c].hold \in ledger'
                 /\ closing'[c].hold.task = "hold"
                 /\ closing'[c].hold.user = closing'[c].user
      BY <1>6, <1>8, <2>1 DEF ClosesOwnTheirHold
    <2>2. ASSUME NEW c \in Closes, closing'[c].step = "released"
          PROVE  /\ \E r \in ledger' : /\ r.task = "release" /\ r.id = c
                                        /\ r.session = closing'[c].hold.session
                 /\ \A a \in ledger' :
                      a.task = "actual" => a.session # closing'[c].hold.session
      BY <1>6, <1>7, <1>8, <2>2 DEF ClosesOwnTheirHold
    <2> QED
      BY <2>1, <2>2 DEF ClosesOwnTheirHold
  <1> QED
    BY <1>7, <1>11, <1>12, <1>13, <1>14, <1>15, <1>16

\* One release of a hold that has none, as a close or a failed mint writes it.
LEMMA OneRelease ==
  ASSUME IInv, NEW h \in ledger, h.task = "hold", ~Released(ledger, h.session),
         NEW w \in Sessions \cup Closes \cup Calls,
         ledger' = ledger \cup {ReleaseOf(h, h.user, w, now)}
  PROVE  /\ ledger \subseteq ledger'
         /\ ledger' \subseteq Row
         /\ \A r \in ledger' : r.at <= now
         /\ \A r \in ledger' : r.task \in {"hold", "actual"} => r \in ledger
         /\ \A x : Released(ledger', x) => Released(ledger, x) \/ x = h.session
         /\ \E r \in ledger' : r.task = "release" /\ r.session = h.session /\ r.id = w
         /\ ReleaseCompensates'
         /\ BilledWithinHold'
  <1> DEFINE H == {h}
             N == {}
  <1>1. now \in Time /\ now <= now
    BY ClockAssumption DEF IInv, TypeOK, Time
  <1>2. /\ H \subseteq ledger
        /\ \A g \in H : g.task = "hold" /\ ~Released(ledger, g.session) /\ g.at <= now
    BY DEF IInv, NothingAhead
  <1>3. \A n \in N : n \in Row /\ n.task = "hold" /\ n.at <= now
    OBVIOUS
  <1>4. ledger' = ledger \cup {ReleaseOf(g, g.user, w, now) : g \in H} \cup N
    OBVIOUS
  <1>5. N = {} /\ \A g \in H : g = h
    OBVIOUS
  <1> HIDE DEF H, N
  <1>6. /\ ledger' \subseteq Row
        /\ \A r \in ledger' : r.at <= now
        /\ \A r \in ledger' : r.task = "hold" => r \in ledger \/ r \in N
        /\ \A r \in ledger' : r.task = "actual" => r \in ledger
        /\ \A x : Released(ledger', x) => Released(ledger, x) \/ \E g \in H : g.session = x
        /\ ReleaseCompensates'
        /\ BilledWithinHold'
    BY ONLY IInv, <1>1, <1>2, <1>3, <1>4, WriteReleases, w \in Sessions \cup Closes \cup Calls
  <1>7. h \in Row /\ h.user \in Users
    BY DEF IInv, TypeOK, Row
  <1>8. \E r \in ledger' : r.task = "release" /\ r.session = h.session /\ r.id = w
    BY <1>1, <1>7, ReleaseRow
  <1> QED
    BY <1>5, <1>6, <1>8

\* A failed mint gives the hold back or, failing at that, leaves it to the sweep.
LEMMA MintReconcileIInv ==
  ASSUME IInv, NEW s \in Sessions, MintReconcile(s)
  PROVE  IInv'
  <1> USE DEF IInv
  <1> DEFINE h == NewHold(s, req[s])
  <1>1. /\ phase[s] = "failing" /\ s \notin PendingReleases
        /\ UNCHANGED <<now, closing, calling>>
    BY DEF MintReconcile
  <1>2. req[s] \in Request /\ req[s].user \in Users
    BY <1>1 DEF TypeOK, RequestsKnowTheirHold
  <1>3. h \in ledger /\ h.task = "hold" /\ h.session = s /\ h.user = req[s].user
    BY <1>1, <1>2 DEF RequestsKnowTheirHold, NewHold
  <1>4. \/ ledger' = ledger
        \/ ~Released(ledger, h.session) /\ ledger' = ledger \cup {ReleaseOf(h, h.user, s, now)}
    BY <1>3 DEF MintReconcile, ReleaseAllowed
  <1> HIDE DEF h
  <1>5. /\ ledger \subseteq ledger'
        /\ ledger' \subseteq Row
        /\ \A r \in ledger' : r.at <= now
        /\ \A r \in ledger' : r.task \in {"hold", "actual"} => r \in ledger
        /\ \A x : Released(ledger', x) => Released(ledger, x) \/ x = s
        /\ ReleaseCompensates'
        /\ BilledWithinHold'
    <2>1. CASE ledger' = ledger
      BY <2>1 DEF TypeOK, NothingAhead, ReleaseCompensates, BilledWithinHold
    <2>2. CASE ~Released(ledger, h.session) /\ ledger' = ledger \cup {ReleaseOf(h, h.user, s, now)}
      <3>1. s \in Sessions \cup Closes \cup Calls
        OBVIOUS
      <3> QED
        BY ONLY IInv, <1>3, <2>2, <3>1, OneRelease
    <2> QED
      BY <1>4, <2>1, <2>2
  <1>6. /\ req[s].swept = {}
        /\ \A x \in Sessions : s \notin req[x].swept
    BY <1>1, NotPending DEF SweepsAreSafe
  <1>7. \/ phase' = [phase EXCEPT ![s] = "retrying"] /\ req' = req
        \/ phase' = [phase EXCEPT ![s] = "over"] /\ req' = [req EXCEPT ![s] = NoRequest]
    BY DEF MintReconcile
  <1>8. /\ \A x \in Sessions \ {s} : phase'[x] = phase[x] /\ req'[x] = req[x]
        /\ \/ phase'[s] = "retrying" /\ req'[s] = req[s]
           \/ phase'[s] = "over" /\ req'[s] = NoRequest
        /\ req' \in [Sessions -> Request]
    BY <1>7, NoRequestType DEF TypeOK
  <1>9. TypeOK'
    BY <1>1, <1>5, <1>7, <1>8 DEF TypeOK
  <1>10. NothingAhead'
    BY <1>1, <1>5, <1>8, NoRequestType, ClockAssumption DEF NothingAhead, TypeOK, Time
  <1>11. HoldsAreGenuine'
    BY <1>5, <1>8 DEF HoldsAreGenuine
  <1>12. RequestsKnowTheirHold'
    BY <1>2, <1>5, <1>8 DEF RequestsKnowTheirHold, NewHold
  <1>13. SweepsAreSafe'
    <2>1. ASSUME NEW x \in Sessions, NEW y \in req'[x].swept
          PROVE  /\ phase'[x] = "admitting"
                 /\ ~Released(ledger', y)
                 /\ \E g \in HoldsFor(ledger', y) : g.at <= req'[x].start
      <3>1. x # s /\ req'[x] = req[x] /\ phase'[x] = phase[x]
        BY <1>6, <1>8, <2>1, NoRequestType
      <3>2. y # s
        BY <1>6, <2>1, <3>1
      <3> QED
        BY <1>5, <2>1, <3>1, <3>2 DEF SweepsAreSafe, HoldsFor
    <2>2. \A x \in Sessions : req'[x].swept \subseteq req[x].swept
      BY <1>8, NoRequestType
    <2> QED
      BY <2>1, <2>2 DEF SweepsAreSafe
  <1>14. ClosesOwnTheirHold'
    BY <1>1, <1>5 DEF ClosesOwnTheirHold
  <1> QED
    BY <1>5, <1>9, <1>10, <1>11, <1>12, <1>13, <1>14

\* The release of a close, and the conflict that ends it.
LEMMA CloseReleaseIInv ==
  ASSUME IInv, NEW c \in Closes, CloseRelease(c)
  PROVE  IInv'
  <1> USE DEF IInv
  <1> DEFINE h == closing[c].hold
  <1>1. /\ closing[c].step = "found" /\ h.session \notin PendingReleases
        /\ UNCHANGED <<now, phase, req, calling>>
    BY DEF CloseRelease
  <1>2. h \in ledger /\ h.task = "hold" /\ h.user = closing[c].user
    BY <1>1 DEF ClosesOwnTheirHold
  <1>3. CASE Released(ledger, h.session)
    <2>1. UNCHANGED <<ledger, now, phase, req, calling>>
      BY <1>3 DEF CloseRelease, ReleaseAllowed
    <2>2. closing' = [closing EXCEPT ![c] = [NoClose EXCEPT !.step = "done"]]
      BY <1>3 DEF CloseRelease, ReleaseAllowed
    <2> QED
      BY ONLY IInv, c \in Closes, <2>1, <2>2, CloseStepIInv
  <1>4. CASE ~Released(ledger, h.session)
    <2>1. /\ ledger' = ledger \cup {ReleaseOf(h, h.user, c, now)}
          /\ closing' = [closing EXCEPT ![c].step = "released"]
      BY <1>2, <1>4 DEF CloseRelease, ReleaseAllowed
    <2> HIDE DEF h
    <2>2. c \in Sessions \cup Closes \cup Calls
      OBVIOUS
    <2>3. /\ ledger \subseteq ledger'
          /\ ledger' \subseteq Row
          /\ \A r \in ledger' : r.at <= now
          /\ \A r \in ledger' : r.task \in {"hold", "actual"} => r \in ledger
          /\ \A x : Released(ledger', x) => Released(ledger, x) \/ x = h.session
          /\ \E r \in ledger' : r.task = "release" /\ r.session = h.session /\ r.id = c
          /\ ReleaseCompensates'
          /\ BilledWithinHold'
      BY ONLY IInv, <1>2, <1>4, <2>1, <2>2, OneRelease
    <2>4. /\ closing'[c].step = "released" /\ closing'[c].hold = closing[c].hold
          /\ closing'[c].user = closing[c].user
          /\ \A d \in Closes \ {c} : closing'[d] = closing[d]
          /\ closing' \in [Closes -> [step : {"new", "found", "released", "done"},
                                      user : Users \cup {None}, hold : Row \cup {None}]]
      BY <2>1 DEF TypeOK
    <2>5. TypeOK'
      BY <1>1, <2>3, <2>4 DEF TypeOK
    <2>6. NothingAhead' /\ HoldsAreGenuine' /\ RequestsKnowTheirHold'
      BY <1>1, <2>3 DEF NothingAhead, HoldsAreGenuine, RequestsKnowTheirHold, NewHold
    <2>7. SweepsAreSafe'
      <3>1. \A x \in Sessions : h.session \notin req[x].swept
        BY <1>1, NotPending DEF h
      <3> QED
        BY <1>1, <2>3, <3>1 DEF SweepsAreSafe, HoldsFor
    <2>8. ClosesOwnTheirHold'
      <3>1. \A a \in ledger : a.task = "actual" => a.session # h.session
        BY <1>4 DEF BilledWithinHold, Released
      <3>2. ASSUME NEW d \in Closes, closing'[d].step \in {"found", "released"}
            PROVE  /\ closing'[d].hold \in ledger'
                   /\ closing'[d].hold.task = "hold"
                   /\ closing'[d].hold.user = closing'[d].user
        BY <1>2, <2>3, <2>4, <3>2 DEF ClosesOwnTheirHold, h
      <3>3. ASSUME NEW d \in Closes, closing'[d].step = "released"
            PROVE  /\ \E r \in ledger' : /\ r.task = "release" /\ r.id = d
                                          /\ r.session = closing'[d].hold.session
                   /\ \A a \in ledger' : a.task = "actual" => a.session # closing'[d].hold.session
        <4>1. CASE d = c
          BY <2>3, <2>4, <3>1, <4>1 DEF h
        <4>2. CASE d # c
          BY <2>3, <2>4, <3>3, <4>2 DEF ClosesOwnTheirHold
        <4> QED
          BY <4>1, <4>2
      <3> QED
        BY <3>2, <3>3 DEF ClosesOwnTheirHold
    <2> QED
      BY <2>3, <2>5, <2>6, <2>7, <2>8
  <1> QED
    BY <1>3, <1>4

\* The charge of a close: its session has its only release from this request and
\* no charge yet, so the row written here is the session's first and last.
LEMMA CloseActualIInv ==
  ASSUME IInv, NEW c \in Closes, CloseActual(c)
  PROVE  IInv'
  <1> USE DEF IInv
  <1> DEFINE h == closing[c].hold
             u == closing[c].user
  <1>1. /\ closing[c].step = "released"
        /\ closing' = [closing EXCEPT ![c] = [NoClose EXCEPT !.step = "done"]]
        /\ UNCHANGED <<now, phase, req, calling>>
    BY DEF CloseActual
  <1>2. PICK n \in Reports :
          ledger' = IF ClampToHold(n, h.tokens) = 0 THEN ledger
                    ELSE ledger \cup {ActualOf(h, u, c, ClampToHold(n, h.tokens), now)}
    BY DEF CloseActual
  <1>3. /\ h \in ledger /\ h.task = "hold" /\ h.user = u
        /\ \E r \in ledger : r.task = "release" /\ r.session = h.session /\ r.id = c
        /\ \A a \in ledger : a.task = "actual" => a.session # h.session
    BY <1>1 DEF ClosesOwnTheirHold
  <1>4. CASE ClampToHold(n, h.tokens) = 0
    <2>1. UNCHANGED <<ledger, now, phase, req, calling>>
      BY <1>1, <1>2, <1>4
    <2> QED
      BY ONLY IInv, c \in Closes, <1>1, <2>1, CloseStepIInv
  <1>5. CASE ClampToHold(n, h.tokens) # 0
    <2> DEFINE a == ActualOf(h, u, c, ClampToHold(n, h.tokens), now)
    <2>1. /\ h \in Row /\ u \in Users /\ now \in Time
          /\ h.tokens \in Nat \ {0}
      BY <1>3, HoldAssumption DEF TypeOK, Row, HoldsAreGenuine
    <2>2. /\ a \in Row /\ a.id = c /\ a.task = "actual" /\ a.session = h.session
          /\ a.user = u /\ a.payer = h.payer /\ a.at = now
          /\ 0 < a.tokens /\ a.tokens <= h.tokens
      BY <1>5, <2>1, ActualRow
    <2>3. ledger' = ledger \cup {a}
      BY <1>2, <1>5
    <2> HIDE DEF a, h, u
    <2>4. TypeOK'
      BY <1>1, <2>2, <2>3 DEF TypeOK, NoClose
    <2>5. NothingAhead'
      BY <1>1, <2>1, <2>2, <2>3, ClockAssumption DEF NothingAhead, Time
    <2>6. \A x : Released(ledger', x) <=> Released(ledger, x)
      BY <2>2, <2>3 DEF Released
    <2>7. HoldsAreGenuine' /\ RequestsKnowTheirHold'
      BY <1>1, <2>2, <2>3 DEF HoldsAreGenuine, RequestsKnowTheirHold, NewHold
    <2>8. SweepsAreSafe'
      <3>1. \A x : HoldsFor(ledger, x) \subseteq HoldsFor(ledger', x)
        BY <2>3 DEF HoldsFor
      <3> QED
        BY <1>1, <2>6, <3>1 DEF SweepsAreSafe
    <2>9. ReleaseCompensates'
      BY <2>2, <2>3 DEF ReleaseCompensates
    <2>10. BilledWithinHold'
      BY <1>3, <2>2, <2>3 DEF BilledWithinHold
    <2>11. ClosesOwnTheirHold'
      <3>1. /\ closing'[c].step = "done"
            /\ \A d \in Closes \ {c} : closing'[d] = closing[d]
        BY <1>1 DEF TypeOK, NoClose
      <3>2. \A d \in Closes \ {c} :
              closing[d].step = "released" => closing[d].hold.session # h.session
        BY <1>3 DEF ClosesOwnTheirHold, ReleaseCompensates
      <3> QED
        BY <2>2, <2>3, <3>1, <3>2 DEF ClosesOwnTheirHold
    <2> QED
      BY <2>4, <2>5, <2>7, <2>8, <2>9, <2>10, <2>11
  <1> QED
    BY <1>4, <1>5

\* What a gateway call writes concerns no session.
LEMMA CallMeterIInv ==
  ASSUME IInv, NEW k \in Calls, CallMeter(k)
  PROVE  IInv'
  <1> USE DEF IInv
  <1> DEFINE m == [id |-> k, task |-> "llm", session |-> None, user |-> calling[k].user,
                   payer |-> "platform", tokens |-> CallTokens, at |-> now]
  <1>1. /\ calling[k].step = "running"
        /\ UNCHANGED <<now, phase, req, closing>>
        /\ calling' = [calling EXCEPT ![k] = [step |-> "done", user |-> None]]
        /\ ledger' = ledger \/ ledger' = ledger \cup {m}
    BY DEF CallMeter
  <1>2. m \in Row /\ m.task = "llm" /\ m.at = now
    BY <1>1, CallAssumption DEF TypeOK, Row, Payers
  <1> HIDE DEF m
  <1>3. TypeOK'
    BY <1>1, <1>2 DEF TypeOK
  <1>4. /\ ledger \subseteq ledger'
        /\ \A r \in ledger' : r.task \in {"hold", "release", "actual"} => r \in ledger
    BY <1>1, <1>2
  <1>5. \A x : Released(ledger', x) <=> Released(ledger, x)
    BY <1>4 DEF Released
  <1>6. NothingAhead'
    BY <1>1, <1>2, ClockAssumption DEF NothingAhead, TypeOK, Time
  <1>7. HoldsAreGenuine' /\ RequestsKnowTheirHold'
    BY <1>1, <1>4 DEF HoldsAreGenuine, RequestsKnowTheirHold, NewHold
  <1>8. SweepsAreSafe'
    BY <1>1, <1>4, <1>5 DEF SweepsAreSafe, HoldsFor
  <1>9. ClosesOwnTheirHold'
    BY <1>1, <1>4 DEF ClosesOwnTheirHold
  <1>10. ReleaseCompensates' /\ BilledWithinHold'
    BY <1>4 DEF ReleaseCompensates, BilledWithinHold
  <1> QED
    BY <1>3, <1>6, <1>7, <1>8, <1>9, <1>10

\* Every step of the ledger keeps the invariant.
LEMMA NextIInv == IInv /\ [Next]_vars => IInv'
  <1> SUFFICES ASSUME IInv, [Next]_vars PROVE IInv'
    OBVIOUS
  <1>1. ASSUME NEW s \in Sessions, Open(s) PROVE IInv'
    <2>1. PICK u \in Users, payer \in Payers,
               prior \in {None} \cup {x \in Sessions : phase[x] = "live"} :
            Decide(s, u, payer, prior, req)
      BY <1>1 DEF Open
    <2>2. phase[s] = "new" /\ phase' = [phase EXCEPT ![s] = "admitting"]
      BY <1>1 DEF Open
    <2> QED
      BY ONLY IInv, s \in Sessions, u \in Users, payer \in Payers, <2>1, <2>2, DecideIInv
  <1>2. ASSUME NEW s \in Sessions, AdmitCommit(s) PROVE IInv'
    BY <1>2, AdmitCommitIInv
  <1>3. ASSUME NEW s \in Sessions, MintOk(s) PROVE IInv'
    <2>1. /\ UNCHANGED <<ledger, now, closing, calling>>
          /\ phase' = [phase EXCEPT ![s] = "live"]
          /\ req' = [req EXCEPT ![s] = NoRequest]
          /\ phase[s] # "new"
      BY <1>3 DEF MintOk
    <2> QED
      BY ONLY IInv, s \in Sessions, <2>1, RequestStepIInv
  <1>4. ASSUME NEW s \in Sessions, MintFails(s) PROVE IInv'
    <2>1. PICK b \in BOOLEAN : req' = [req EXCEPT ![s].rejected = b]
      BY <1>4 DEF MintFails
    <2>2. /\ UNCHANGED <<ledger, now, closing, calling>>
          /\ phase' = [phase EXCEPT ![s] = "failing"]
          /\ phase[s] = "minting"
          /\ req' = [req EXCEPT ![s] = [req[s] EXCEPT !.rejected = b]]
      BY <1>4, <2>1 DEF MintFails
    <2> QED
      BY ONLY IInv, s \in Sessions, b \in BOOLEAN, <2>2, RequestStepIInv
  <1>5. ASSUME NEW s \in Sessions, MintReconcile(s) PROVE IInv'
    BY <1>5, MintReconcileIInv
  <1>6. ASSUME NEW s \in Sessions, NEW fresh \in Sessions, Retry(s, fresh) PROVE IInv'
    <2>1. /\ phase[s] = "retrying" /\ phase[fresh] = "new"
          /\ Decide(fresh, req[s].user, "platform", s, [req EXCEPT ![s] = NoRequest])
          /\ phase' = [phase EXCEPT ![s] = "over", ![fresh] = "admitting"]
      BY <1>6 DEF Retry
    <2>2. req[s].user \in Users /\ "platform" \in Payers
      BY <2>1 DEF IInv, RequestsKnowTheirHold, Payers
    <2> QED
      BY ONLY IInv, s \in Sessions, fresh \in Sessions, <2>1, <2>2, DecideIInv
  <1>7. ASSUME NEW s \in Sessions, OpenCrashes(s) PROVE IInv'
    <2>1. /\ UNCHANGED <<ledger, now, closing, calling>>
          /\ phase' = [phase EXCEPT ![s] = "over"]
          /\ req' = [req EXCEPT ![s] = NoRequest]
          /\ phase[s] # "new"
      BY <1>7 DEF OpenCrashes
    <2> QED
      BY ONLY IInv, s \in Sessions, <2>1, RequestStepIInv
  <1>8. ASSUME NEW c \in Closes, CloseLookup(c) PROVE IInv'
    <2>1. PICK u \in Users, s \in Sessions :
            \/ \E h \in OpenHolds(u, s) :
                 closing' = [closing EXCEPT ![c] = [step |-> "found", user |-> u, hold |-> h]]
            \/ closing' = [closing EXCEPT ![c] = [NoClose EXCEPT !.step = "done"]]
      BY <1>8 DEF CloseLookup
    <2>2. UNCHANGED <<ledger, now, phase, req, calling>>
      BY <1>8 DEF CloseLookup
    <2>3. CASE closing' = [closing EXCEPT ![c] = [NoClose EXCEPT !.step = "done"]]
      BY ONLY IInv, c \in Closes, <2>2, <2>3, CloseStepIInv
    <2>4. ASSUME NEW h \in OpenHolds(u, s),
                 closing' = [closing EXCEPT ![c] = [step |-> "found", user |-> u, hold |-> h]]
          PROVE  IInv'
      BY ONLY IInv, c \in Closes, u \in Users, s \in Sessions, h \in OpenHolds(u, s),
              <2>2, <2>4, CloseStepIInv
    <2> QED
      BY <2>1, <2>3, <2>4
  <1>9. ASSUME NEW c \in Closes, CloseRelease(c) PROVE IInv'
    BY <1>9, CloseReleaseIInv
  <1>10. ASSUME NEW c \in Closes, CloseActual(c) PROVE IInv'
    BY <1>10, CloseActualIInv
  <1>11. ASSUME NEW c \in Closes, CloseDies(c) PROVE IInv'
    <2>1. /\ UNCHANGED <<ledger, now, phase, req, calling>>
          /\ closing' = [closing EXCEPT ![c] = [NoClose EXCEPT !.step = "done"]]
      BY <1>11 DEF CloseDies
    <2> QED
      BY ONLY IInv, c \in Closes, <2>1, CloseStepIInv
  <1>12. ASSUME NEW k \in Calls, CallMeter(k) PROVE IInv'
    BY <1>12, CallMeterIInv
  <1>13. CASE (\E k \in Calls : CallStart(k)) \/ Tick
    BY <1>13, QuietIInv
  <1>14. CASE UNCHANGED vars
    BY <1>14 DEF vars, IInv, TypeOK, NothingAhead, HoldsAreGenuine, RequestsKnowTheirHold,
       NewHold, SweepsAreSafe, ClosesOwnTheirHold, ReleaseCompensates, BilledWithinHold,
       Released, HoldsFor
  <1> QED
    BY <1>1, <1>2, <1>3, <1>4, <1>5, <1>6, <1>7, <1>8, <1>9, <1>10, <1>11, <1>12, <1>13, <1>14
       DEF Next

-----------------------------------------------------------------------------
(* Theorems *)

\* The inductive invariant holds of every reachable state of every tenant.
THEOREM InvariantHolds == Spec => []IInv
  BY InitIInv, NextIInv, PTL DEF Spec

\* Every variable keeps its shape: no handler writes a row outside the schema.
THEOREM TypeCorrect == Spec => []TypeOK
  <1>1. IInv => TypeOK
    BY DEF IInv
  <1> QED
    BY <1>1, InvariantHolds, PTL

\* Every release compensates the one hold of its session, to its account and
\* payer, and no session is released twice.
THEOREM ReleasesCompensate == Spec => []ReleaseCompensates
  <1>1. IInv => ReleaseCompensates
    BY DEF IInv
  <1> QED
    BY <1>1, InvariantHolds, PTL

\* Every charge is the only one of its session, follows that session's release
\* by the same request and is no larger than its hold.
THEOREM ChargesWithinHold == Spec => []BilledWithinHold
  <1>1. IInv => BilledWithinHold
    BY DEF IInv
  <1> QED
    BY <1>1, InvariantHolds, PTL

\* However opens, retries, sweeps and closes meet, the rows of every session add
\* up.
THEOREM SessionsBalance == Spec => []SessionsAddUp
  <1>1. IInv => SessionsAddUp
    BY DEF IInv, SessionsAddUp
  <1> QED
    BY <1>1, InvariantHolds, PTL

-----------------------------------------------------------------------------
(* The ledger implements HoldAccount, for every tenant: the initial states *)
(* map to the initial account, and under the inductive invariant every     *)
(* step reserves, charges or leaves every account as it was.               *)


Billed(rows, s) == {r \in rows : r.task = "actual" /\ r.session = s}

\* What status and charge depend on, with the mapping's operators expanded.
LEMMA StatusFacts ==
  ASSUME NEW s
  PROVE  /\ StatusOf(s) = IF Billed(ledger, s) # {} THEN "charged"
                          ELSE IF Released(ledger, s) THEN "released"
                          ELSE IF HoldsFor(ledger, s) # {} THEN "held" ELSE "none"
         /\ StatusOf(s)' = IF Billed(ledger', s) # {} THEN "charged"
                           ELSE IF Released(ledger', s) THEN "released"
                           ELSE IF HoldsFor(ledger', s) # {} THEN "held" ELSE "none"
         /\ Billed(ledger', s) = Billed(ledger, s) => ChargeOf(s)' = ChargeOf(s)
  <1>1. (\E r \in ledger : r.task = "actual" /\ r.session = s) <=> Billed(ledger, s) # {}
    BY DEF Billed
  <1>2. (\E r \in ledger' : r.task = "actual" /\ r.session = s) <=> Billed(ledger', s) # {}
    BY DEF Billed
  <1>3. /\ ChargeOf(s) = IF Billed(ledger, s) = {} THEN 0
                         ELSE (CHOOSE r \in Billed(ledger, s) : TRUE).tokens
        /\ ChargeOf(s)' = IF Billed(ledger', s) = {} THEN 0
                          ELSE (CHOOSE r \in Billed(ledger', s) : TRUE).tokens
    BY DEF ChargeOf, Billed
  <1>4. Billed(ledger', s) = Billed(ledger, s) => ChargeOf(s)' = ChargeOf(s)
    BY <1>3
  <1> QED
    BY <1>1, <1>2, <1>4 DEF StatusOf

\* A charged session was released and a released one was held.
LEMMA AccountOrder ==
  ASSUME IInv, NEW s
  PROVE  /\ Billed(ledger, s) # {} => Released(ledger, s)
         /\ Released(ledger, s) => HoldsFor(ledger, s) # {}
  BY DEF IInv, BilledWithinHold, ReleaseCompensates, Billed, Released, HoldsFor

\* Rows that add no hold, release or charge leave every account alone.
LEMMA AccountUntouched ==
  ASSUME \A s \in Sessions : /\ Billed(ledger', s) = Billed(ledger, s)
                             /\ Released(ledger', s) <=> Released(ledger, s)
                             /\ HoldsFor(ledger', s) = HoldsFor(ledger, s)
  PROVE  UNCHANGED Account!accountVars
  <1>1. ASSUME NEW s \in Sessions PROVE StatusOf(s)' = StatusOf(s) /\ ChargeOf(s)' = ChargeOf(s)
    BY StatusFacts
  <1>2. [s \in Sessions |-> StatusOf(s)]' = [s \in Sessions |-> StatusOf(s)]
    BY <1>1
  <1>3. [s \in Sessions |-> ChargeOf(s)]' = [s \in Sessions |-> ChargeOf(s)]
    BY <1>1
  <1> QED
    BY <1>2, <1>3 DEF Account!accountVars

\* Writing holds for the sessions of O and releases for those of W reserves.
LEMMA AccountReserves ==
  ASSUME IInv, NEW O \in SUBSET Sessions, NEW W \in SUBSET Sessions,
         \A s, t \in O : s = t,
         \A s \in O : HoldsFor(ledger, s) = {},
         \A s \in W : HoldsFor(ledger, s) # {} /\ ~Released(ledger, s),
         \A s \in Sessions :
           /\ Billed(ledger', s) = Billed(ledger, s)
           /\ Released(ledger', s) <=> Released(ledger, s) \/ s \in W
           /\ HoldsFor(ledger', s) # {} <=> HoldsFor(ledger, s) # {} \/ s \in O
  PROVE  Account!AccountNext
  <1> DEFINE st == [s \in Sessions |-> StatusOf(s)]
  <1>1. ASSUME NEW s \in Sessions
        PROVE  /\ s \in O => StatusOf(s) = "none"
               /\ s \in W => StatusOf(s) = "held"
               /\ StatusOf(s)' = IF s \in O THEN "held" ELSE IF s \in W THEN "released"
                                 ELSE StatusOf(s)
               /\ ChargeOf(s)' = ChargeOf(s)
    <2>1. /\ Billed(ledger, s) # {} => Released(ledger, s)
          /\ Released(ledger, s) => HoldsFor(ledger, s) # {}
      BY AccountOrder
    <2> QED
      BY <2>1, StatusFacts
  <1>2. O \subseteq {s \in Sessions : st[s] = "none"} /\ W \subseteq {s \in Sessions : st[s] = "held"}
    BY <1>1
  <1>3. st' = [s \in Sessions |-> IF s \in O THEN "held" ELSE IF s \in W THEN "released" ELSE st[s]]
    BY <1>1
  <1>4. [s \in Sessions |-> ChargeOf(s)]' = [s \in Sessions |-> ChargeOf(s)]
    BY <1>1
  <1>5. Account!Reserve(O, W)
    BY <1>2, <1>3, <1>4 DEF Account!Reserve
  <1> QED
    BY <1>5 DEF Account!AccountNext

\* An admission reserves its own session and gives back those it swept.
LEMMA AdmitCommitAccount ==
  ASSUME IInv, NEW s \in Sessions, AdmitCommit(s)
  PROVE  Account!AccountNext
  <1> DEFINE W == req[s].swept
             O == IF req[s].allowed THEN {s} ELSE {}
             H == {r \in ledger : r.task = "hold" /\ r.session \in W}
             R == {ReleaseOf(h, h.user, s, req[s].start) : h \in H}
             N == IF req[s].allowed THEN {NewHold(s, req[s])} ELSE {}
  <1>1. /\ req[s] \in Request /\ req[s].user \in Users /\ req[s].payer \in Payers
        /\ req[s].start \in Time
        /\ HoldsFor(ledger, s) = {}
    BY DEF AdmitCommit, IInv, TypeOK, RequestsKnowTheirHold, HoldsAreGenuine, HoldsFor, Request
  <1>2. W \in SUBSET Sessions /\ O \in SUBSET Sessions
    BY <1>1 DEF Request
  <1>3. \A x \in W : HoldsFor(ledger, x) # {} /\ ~Released(ledger, x)
    BY DEF IInv, SweepsAreSafe
  <1>4. ledger' = ledger \cup R \cup N
    BY DEF AdmitCommit
  <1>5. /\ \A r \in R : r.task = "release" /\ r.session \in W
        /\ \A x \in W : \E r \in R : r.session = x
    <2>1. \A h \in H : /\ ReleaseOf(h, h.user, s, req[s].start).task = "release"
                       /\ ReleaseOf(h, h.user, s, req[s].start).session = h.session
      BY DEF ReleaseOf
    <2>2. \A x \in W : \E h \in H : h.session = x
      BY <1>3 DEF HoldsFor
    <2> QED
      BY <2>1, <2>2
  <1>6. /\ \A n \in N : n.task = "hold" /\ n.session \in O
        /\ \A x \in O : \E n \in N : n.session = x
    BY <1>1, HoldRow
  <1>7. /\ \A x, y \in O : x = y
        /\ \A x \in O : HoldsFor(ledger, x) = {}
    BY <1>1
  <1> HIDE DEF W, O, H, R, N
  <1>8. ASSUME NEW x \in Sessions
        PROVE  /\ Billed(ledger', x) = Billed(ledger, x)
               /\ Released(ledger', x) <=> Released(ledger, x) \/ x \in W
               /\ HoldsFor(ledger', x) # {} <=> HoldsFor(ledger, x) # {} \/ x \in O
    <2>1. Billed(ledger', x) = Billed(ledger, x)
      BY <1>4, <1>5, <1>6 DEF Billed
    <2>2. Released(ledger', x) <=> Released(ledger, x) \/ x \in W
      BY <1>4, <1>5, <1>6 DEF Released
    <2>3. HoldsFor(ledger', x) # {} <=> HoldsFor(ledger, x) # {} \/ x \in O
      BY <1>4, <1>5, <1>6 DEF HoldsFor
    <2> QED
      BY <2>1, <2>2, <2>3
  <1> QED
    BY ONLY IInv, <1>2, <1>3, <1>7, <1>8, AccountReserves

\* A release of a hold that has none gives one reservation back.
LEMMA OneReleaseAccount ==
  ASSUME IInv, NEW h \in ledger, h.task = "hold", ~Released(ledger, h.session), NEW u, NEW w,
         ledger' = ledger \cup {ReleaseOf(h, u, w, now)}
  PROVE  Account!AccountNext
  <1> DEFINE O == {}
             W == {h.session}
             r == ReleaseOf(h, u, w, now)
  <1>1. r.task = "release" /\ r.session = h.session
    BY DEF ReleaseOf
  <1>2. /\ W \in SUBSET Sessions /\ O \in SUBSET Sessions
        /\ \A x, y \in O : x = y
        /\ \A x \in O : HoldsFor(ledger, x) = {}
        /\ \A x \in W : HoldsFor(ledger, x) # {} /\ ~Released(ledger, x)
    BY DEF IInv, HoldsAreGenuine, HoldsFor
  <1>3. \A x : x \notin O /\ (x \in W <=> x = h.session)
    OBVIOUS
  <1> HIDE DEF O, W, r
  <1>4. ledger' = ledger \cup {r}
    BY DEF r
  <1>5. ASSUME NEW x \in Sessions
        PROVE  /\ Billed(ledger', x) = Billed(ledger, x)
               /\ Released(ledger', x) <=> Released(ledger, x) \/ x \in W
               /\ HoldsFor(ledger', x) # {} <=> HoldsFor(ledger, x) # {} \/ x \in O
    <2>1. Billed(ledger', x) = Billed(ledger, x)
      BY <1>1, <1>4 DEF Billed
    <2>2. Released(ledger', x) <=> Released(ledger, x) \/ x \in W
      BY <1>1, <1>3, <1>4 DEF Released
    <2>3. HoldsFor(ledger', x) = HoldsFor(ledger, x)
      BY <1>1, <1>4 DEF HoldsFor
    <2> QED
      BY <1>3, <2>1, <2>2, <2>3
  <1> QED
    BY ONLY IInv, <1>2, <1>5, AccountReserves

\* A step that writes no row leaves every account alone.
LEMMA NothingWritten ==
  ASSUME ledger' = ledger PROVE UNCHANGED Account!accountVars
  <1>1. \A s \in Sessions : /\ Billed(ledger', s) = Billed(ledger, s)
                            /\ Released(ledger', s) <=> Released(ledger, s)
                            /\ HoldsFor(ledger', s) = HoldsFor(ledger, s)
    OBVIOUS
  <1> QED
    BY <1>1, AccountUntouched

\* A charge within the hold, after the release and before any other, bills.
LEMMA AccountCharges ==
  ASSUME IInv, NEW s \in Sessions, Released(ledger, s), Billed(ledger, s) = {},
         NEW a, a.task = "actual", a.session = s, a.tokens \in 1 .. HoldOf[s],
         ledger' = ledger \cup {a}
  PROVE  Account!AccountNext
  <1> DEFINE m == a.tokens
  <1>1. \A x : /\ Released(ledger', x) <=> Released(ledger, x)
               /\ HoldsFor(ledger', x) = HoldsFor(ledger, x)
    BY DEF Released, HoldsFor
  <1>2. Billed(ledger', s) = {a}
    BY DEF Billed
  <1>3. \A x : x # s => Billed(ledger', x) = Billed(ledger, x)
    BY DEF Billed
  <1>4. StatusOf(s) = "released" /\ StatusOf(s)' = "charged"
    BY <1>2, StatusFacts
  <1>5. ChargeOf(s)' = m
    <2>1. ChargeOf(s)' = IF Billed(ledger', s) = {} THEN 0
                         ELSE (CHOOSE r \in Billed(ledger', s) : TRUE).tokens
      BY DEF ChargeOf, Billed
    <2>2. (CHOOSE r \in Billed(ledger', s) : TRUE) = a
      BY <1>2
    <2> QED
      BY <1>2, <2>1, <2>2
  <1>6. ASSUME NEW x \in Sessions, x # s
        PROVE  StatusOf(x)' = StatusOf(x) /\ ChargeOf(x)' = ChargeOf(x)
    BY <1>1, <1>3, <1>6, StatusFacts
  <1> HIDE DEF m
  <1>7. Account!Charge(s, m)
    <2> DEFINE st == [x \in Sessions |-> StatusOf(x)]
               ch == [x \in Sessions |-> ChargeOf(x)]
    <2>1. st[s] = "released" /\ m \in 1 .. HoldOf[s]
      BY <1>4 DEF m
    <2>2. st' = [st EXCEPT ![s] = "charged"]
      BY <1>4, <1>6
    <2>3. ch' = [ch EXCEPT ![s] = m]
      BY <1>5, <1>6
    <2> QED
      BY <2>1, <2>2, <2>3 DEF Account!Charge
  <1> QED
    BY <1>7 DEF Account!AccountNext, m

\* A close that writes its charge bills a released, uncharged session within
\* its hold; one that writes none leaves the account alone.
LEMMA CloseActualAccount ==
  ASSUME IInv, NEW c \in Closes, CloseActual(c)
  PROVE  Account!AccountNext \/ UNCHANGED Account!accountVars
  <1> DEFINE h == closing[c].hold
             u == closing[c].user
  <1>1. PICK n \in Reports :
          ledger' = IF ClampToHold(n, h.tokens) = 0 THEN ledger
                    ELSE ledger \cup {ActualOf(h, u, c, ClampToHold(n, h.tokens), now)}
    BY DEF CloseActual
  <1>2. /\ h \in ledger /\ h.task = "hold" /\ h.user = u
        /\ Released(ledger, h.session)
        /\ Billed(ledger, h.session) = {}
    BY DEF CloseActual, IInv, ClosesOwnTheirHold, Released, Billed
  <1>3. CASE ClampToHold(n, h.tokens) = 0
    BY <1>1, <1>3, NothingWritten
  <1>4. CASE ClampToHold(n, h.tokens) # 0
    <2> DEFINE a == ActualOf(h, u, c, ClampToHold(n, h.tokens), now)
    <2>1. /\ h \in Row /\ u \in Users /\ now \in Time /\ h.session \in Sessions
          /\ h.tokens \in Nat \ {0} /\ h.tokens = HoldOf[h.session]
      BY <1>2, HoldAssumption DEF IInv, TypeOK, Row, HoldsAreGenuine
    <2>2. /\ a \in Row /\ a.task = "actual" /\ a.session = h.session
          /\ 0 < a.tokens /\ a.tokens <= h.tokens
      BY <1>4, <2>1, ActualRow
    <2>3. ledger' = ledger \cup {a}
      BY <1>1, <1>4
    <2> HIDE DEF a, h
    <2>4. a.tokens \in 1 .. HoldOf[h.session]
      BY <2>1, <2>2 DEF Row
    <2> QED
      BY ONLY IInv, <1>2, <2>1, <2>2, <2>3, <2>4, AccountCharges
  <1> QED
    BY <1>3, <1>4

\* What a gateway call costs is no session's account.
LEMMA CallMeterAccount ==
  ASSUME NEW k \in Calls, CallMeter(k)
  PROVE  UNCHANGED Account!accountVars
  <1> DEFINE m == [id |-> k, task |-> "llm", session |-> None, user |-> calling[k].user,
                   payer |-> "platform", tokens |-> CallTokens, at |-> now]
  <1>1. ledger' = ledger \/ ledger' = ledger \cup {m}
    BY DEF CallMeter
  <1>2. m.task = "llm"
    OBVIOUS
  <1> HIDE DEF m
  <1>3. \A s \in Sessions : /\ Billed(ledger', s) = Billed(ledger, s)
                            /\ Released(ledger', s) <=> Released(ledger, s)
                            /\ HoldsFor(ledger', s) = HoldsFor(ledger, s)
    BY <1>1, <1>2 DEF Billed, Released, HoldsFor
  <1> QED
    BY <1>3, AccountUntouched

\* The empty ledger is the empty account.
LEMMA InitAccount == Init => Account!AccountInit
  <1> SUFFICES ASSUME Init PROVE Account!AccountInit
    OBVIOUS
  <1>1. \A s \in Sessions : StatusOf(s) = "none" /\ ChargeOf(s) = 0
    BY DEF Init, StatusOf, ChargeOf, Released, HoldsFor
  <1> QED
    BY <1>1 DEF Account!AccountInit

\* Every step of the ledger is a step of the account, or leaves it alone.
LEMMA NextAccount ==
  IInv /\ [Next]_vars => [Account!AccountNext]_Account!accountVars
  <1> SUFFICES ASSUME IInv, [Next]_vars
               PROVE  Account!AccountNext \/ UNCHANGED Account!accountVars
    OBVIOUS
  <1>1. CASE ledger' = ledger
    BY <1>1, NothingWritten
  <1>2. ASSUME NEW s \in Sessions, AdmitCommit(s) PROVE Account!AccountNext
    BY <1>2, AdmitCommitAccount
  <1>3. ASSUME NEW s \in Sessions, MintReconcile(s), ledger' # ledger PROVE Account!AccountNext
    <2> DEFINE h == NewHold(s, req[s])
    <2>1. /\ ~Released(ledger, s)
          /\ ledger' = ledger \cup {ReleaseOf(h, req[s].user, s, now)}
      BY <1>3 DEF MintReconcile, ReleaseAllowed
    <2>2. h \in ledger /\ h.task = "hold" /\ h.session = s
      BY <1>3 DEF MintReconcile, IInv, RequestsKnowTheirHold, NewHold
    <2> HIDE DEF h
    <2> QED
      BY <2>1, <2>2, OneReleaseAccount
  <1>4. ASSUME NEW c \in Closes, CloseRelease(c), ledger' # ledger PROVE Account!AccountNext
    <2> DEFINE h == closing[c].hold
    <2>1. /\ ~Released(ledger, h.session)
          /\ ledger' = ledger \cup {ReleaseOf(h, closing[c].user, c, now)}
      BY <1>4 DEF CloseRelease, ReleaseAllowed
    <2>2. h \in ledger /\ h.task = "hold"
      BY <1>4 DEF CloseRelease, IInv, ClosesOwnTheirHold
    <2> HIDE DEF h
    <2> QED
      BY <2>1, <2>2, OneReleaseAccount
  <1>5. ASSUME NEW c \in Closes, CloseActual(c)
        PROVE  Account!AccountNext \/ UNCHANGED Account!accountVars
    BY <1>5, CloseActualAccount
  <1>6. ASSUME NEW k \in Calls, CallMeter(k) PROVE UNCHANGED Account!accountVars
    BY <1>6, CallMeterAccount
  <1>7. \/ ledger' = ledger
        \/ \E s \in Sessions : AdmitCommit(s) \/ MintReconcile(s)
        \/ \E c \in Closes : CloseRelease(c) \/ CloseActual(c)
        \/ \E k \in Calls : CallMeter(k)
    BY DEF Next, vars, Open, Retry, Decide, MintOk, MintFails, OpenCrashes, CloseLookup,
       CloseDies, CallStart, Tick
  <1> QED
    BY <1>1, <1>2, <1>3, <1>4, <1>5, <1>6, <1>7

\* The ledger keeps the promise of HoldAccount: reserved once, given back once
\* and in full, charged at most once and within the reservation.
THEOREM LedgerImplementsAccount == Spec => KeepsAccount
  BY InitAccount, NextAccount, InvariantHolds, PTL DEF Spec, KeepsAccount, Account!AccountSpec

-----------------------------------------------------------------------------
(***************************************************************************)
(* What the caps see and what they keep: real spending is never hidden     *)
(* from them, a granted token is charged, and simultaneous opens cannot    *)
(* reserve the same budget twice.                                          *)
(*                                                                         *)
(* The caps compare sums over sets of rows.  A sum is a fold, a function   *)
(* that is its own running sum, and what it does is shown by induction on  *)
(* finite sets: were a statement false of some subset it would be false of *)
(* a smallest one, for inclusion is well founded there.                    *)
(***************************************************************************)

(* Sums over rows.                                                          *)

\* The row a sum takes next.
First(rows) == CHOOSE r \in rows : TRUE

\* g is the running sum over the subsets of S.
Running(S, g) ==
  g = [s \in SUBSET S |-> IF s = {} THEN 0 ELSE First(s).tokens + g[s \ {First(s)}]]

\* Rows whose tokens are numbers.
Counts(S) == IsFiniteSet(S) /\ \A r \in S : r.tokens \in Int

\* A sum is what its running sum says of the whole set.
LEMMA FoldsToChoice ==
  ASSUME NEW S
  PROVE  Tokens(S) = (CHOOSE g : Running(S, g))[S]
  BY Zenon DEF Tokens, MapThenSumSet, MapThenFoldSet, Running, First

\* Among sets of subsets of a finite set one has no member strictly inside it.
LEMMA Smallest ==
  ASSUME NEW S, IsFiniteSet(S), NEW Bad \in SUBSET SUBSET S, Bad # {}
  PROVE  \E T \in Bad : \A U \in Bad : U \subseteq T => U = T
  <1>1. IsWellFoundedOn(StrictSubsetOrdering(S), FiniteSubsetsOf(S))
    BY FS_StrictSubsetOrderingWellFounded
  <1>2. FiniteSubsetsOf(S) = SUBSET S
    BY FS_FiniteSubsetsOfFinite
  <1>3. \E T \in Bad : \A U \in Bad : ~(<<U, T>> \in StrictSubsetOrdering(S))
    BY <1>1, <1>2, WFMin
  <1>4. PICK T \in Bad : \A U \in Bad : ~(<<U, T>> \in StrictSubsetOrdering(S))
    BY <1>3
  <1>5. \A U \in Bad : U \subseteq T => U = T
    BY <1>4 DEF StrictSubsetOrdering
  <1> QED
    BY <1>5

\* A running sum of T exists, and any gives each part of T its sum.
SumsWell(T) ==
  /\ \E g : Running(T, g)
  /\ \A g : Running(T, g) => \A V \in SUBSET T : g[V] = Tokens(V)

\* The row a sum takes next is one of its rows.
LEMMA FirstIn ==
  ASSUME NEW s, s # {}
  PROVE  First(s) \in s
  BY DEF First

\* What holds of every smaller set holds of this one.
LEMMA SumsWellStep ==
  ASSUME NEW T, \A U \in SUBSET T : U # T => SumsWell(U)
  PROVE  SumsWell(T)
  <1> DEFINE h == [s \in SUBSET T |-> IF s = {} THEN 0
                                      ELSE First(s).tokens + Tokens(s \ {First(s)})]
  <1>1. \A V \in SUBSET T : V # {} => V \ {First(V)} \in SUBSET T /\ V \ {First(V)} # T
    BY FirstIn
  <1>2. ASSUME NEW U \in SUBSET T, U # T
        PROVE  Tokens(U) = IF U = {} THEN 0 ELSE First(U).tokens + Tokens(U \ {First(U)})
    <2>1. PICK g : Running(U, g)
      BY <1>2 DEF SumsWell
    <2>2. \A V \in SUBSET U : g[V] = Tokens(V)
      BY <1>2, <2>1 DEF SumsWell
    <2>3. g[U] = IF U = {} THEN 0 ELSE First(U).tokens + g[U \ {First(U)}]
      BY <2>1 DEF Running
    <2>4. U \ {First(U)} \in SUBSET U /\ U \in SUBSET U
      OBVIOUS
    <2> QED
      BY <2>2, <2>3, <2>4
  <1>3. \A U \in SUBSET T : U # T => h[U] = Tokens(U)
    BY <1>2
  <1>4. Running(T, h)
    <2>1. \A V \in SUBSET T : V # {} => h[V \ {First(V)}] = Tokens(V \ {First(V)})
      BY <1>1, <1>3
    <2>2. h = [s \in SUBSET T |-> IF s = {} THEN 0 ELSE First(s).tokens + h[s \ {First(s)}]]
      BY <2>1
    <2> QED
      BY <2>2 DEF Running
  <1>5. ASSUME NEW g, Running(T, g), NEW V \in SUBSET T, V # T
        PROVE  g[V] = Tokens(V)
    <2> DEFINE k == [s \in SUBSET V |-> g[s]]
    <2>1. ASSUME NEW s \in SUBSET V
          PROVE  g[s] = IF s = {} THEN 0 ELSE First(s).tokens + k[s \ {First(s)}]
      <3>1. s \in SUBSET T /\ s \ {First(s)} \in SUBSET V
        OBVIOUS
      <3>2. g[s] = IF s = {} THEN 0 ELSE First(s).tokens + g[s \ {First(s)}]
        BY <1>5, <3>1 DEF Running
      <3> QED
        BY <3>1, <3>2
    <2>2. k = [s \in SUBSET V |-> IF s = {} THEN 0 ELSE First(s).tokens + k[s \ {First(s)}]]
      BY <2>1
    <2>3. Running(V, k)
      BY <2>2 DEF Running
    <2>4. k[V] = Tokens(V)
      <3> HIDE DEF k
      <3> QED
        BY <1>5, <2>3 DEF SumsWell
    <2> QED
      BY <2>4
  <1>6. ASSUME NEW g, Running(T, g)
        PROVE  g[T] = IF T = {} THEN 0 ELSE First(T).tokens + Tokens(T \ {First(T)})
    <2>1. g[T] = IF T = {} THEN 0 ELSE First(T).tokens + g[T \ {First(T)}]
      BY <1>6 DEF Running
    <2> QED
      BY <1>1, <1>5, <1>6, <2>1
  <1>7. Tokens(T) = IF T = {} THEN 0 ELSE First(T).tokens + Tokens(T \ {First(T)})
    <2>1. Running(T, CHOOSE g : Running(T, g))
      <3> HIDE DEF h
      <3> QED BY <1>4
    <2> QED
      BY <1>6, <2>1, FoldsToChoice
  <1>8. \A g : Running(T, g) => \A V \in SUBSET T : g[V] = Tokens(V)
    BY <1>5, <1>6, <1>7
  <1> HIDE DEF h
  <1> QED
    BY <1>4, <1>8 DEF SumsWell

\* So sums are well defined over every finite set.
LEMMA AllSumsWell ==
  ASSUME NEW S, IsFiniteSet(S)
  PROVE  SumsWell(S)
  <1> DEFINE Bad == {T \in SUBSET S : ~SumsWell(T)}
  <1>1. CASE Bad # {}
    <2>1. Bad \in SUBSET SUBSET S
      OBVIOUS
    <2>2. PICK T \in Bad : \A U \in Bad : U \subseteq T => U = T
      <3> HIDE DEF Bad
      <3> QED
        BY <1>1, <2>1, Smallest
    <2>3. \A U \in SUBSET T : U # T => SumsWell(U)
      BY <2>2
    <2> QED
      BY <2>2, <2>3, SumsWellStep
  <1> QED
    BY <1>1

\* A sum of nothing is nothing; another is its first row and the sum of the rest.
LEMMA SumUnfolds ==
  ASSUME NEW S, IsFiniteSet(S)
  PROVE  Tokens(S) = IF S = {} THEN 0 ELSE First(S).tokens + Tokens(S \ {First(S)})
  <1>1. PICK g : Running(S, g)
    BY AllSumsWell DEF SumsWell
  <1>2. \A V \in SUBSET S : g[V] = Tokens(V)
    BY <1>1, AllSumsWell DEF SumsWell
  <1>3. g[S] = IF S = {} THEN 0 ELSE First(S).tokens + g[S \ {First(S)}]
    BY <1>1 DEF Running
  <1>4. S \ {First(S)} \in SUBSET S /\ S \in SUBSET S
    OBVIOUS
  <1> QED
    BY <1>2, <1>3, <1>4
-----------------------------------------------------------------------------
\* Sums of numbers are numbers.
LEMMA SumTypeStep ==
  ASSUME NEW T, Counts(T), \A U \in SUBSET T : U # T => Tokens(U) \in Int
  PROVE  Tokens(T) \in Int
  <1>1. CASE T = {}
    <2>1. Tokens(T) = IF T = {} THEN 0 ELSE First(T).tokens + Tokens(T \ {First(T)})
      BY SumUnfolds DEF Counts
    <2> QED
      BY <1>1, <2>1
  <1>2. CASE T # {}
    <2>1. First(T) \in T
      BY <1>2, FirstIn
    <2>2. Tokens(T) = First(T).tokens + Tokens(T \ {First(T)})
      BY <1>2, SumUnfolds DEF Counts
    <2>3. Tokens(T \ {First(T)}) \in Int
      BY <2>1
    <2>4. First(T).tokens \in Int
      BY <2>1 DEF Counts
    <2> QED
      BY <2>2, <2>3, <2>4
  <1> QED
    BY <1>1, <1>2

LEMMA SumType ==
  ASSUME NEW S, Counts(S)
  PROVE  Tokens(S) \in Int
  <1> DEFINE Bad == {T \in SUBSET S : Tokens(T) \notin Int}
  <1>1. CASE Bad # {}
    <2>1. Bad \in SUBSET SUBSET S /\ IsFiniteSet(S)
      BY DEF Counts
    <2>2. PICK T \in Bad : \A U \in Bad : U \subseteq T => U = T
      <3> HIDE DEF Bad
      <3> QED
        BY <1>1, <2>1, Smallest
    <2>3. \A U \in SUBSET T : U # T => Tokens(U) \in Int
      BY <2>2
    <2>4. Counts(T)
      BY <2>2, FS_Subset DEF Counts
    <2> QED
      BY <2>2, <2>3, <2>4, SumTypeStep
  <1> QED
    BY <1>1

\* A sum may take any of its rows first.
TakesAny(T) == \A r \in T : Tokens(T) = r.tokens + Tokens(T \ {r})

LEMMA TakesAnyStep ==
  ASSUME NEW T, Counts(T), \A U \in SUBSET T : U # T => TakesAny(U)
  PROVE  TakesAny(T)
  <1> SUFFICES ASSUME NEW r \in T PROVE Tokens(T) = r.tokens + Tokens(T \ {r})
    BY DEF TakesAny
  <1> DEFINE x == First(T)
  <1>1. x \in T
    BY FirstIn
  <1>2. Tokens(T) = x.tokens + Tokens(T \ {x})
    BY SumUnfolds DEF Counts
  <1> HIDE DEF x
  <1>3. CASE r = x
    BY <1>2, <1>3
  <1>4. CASE r # x
    <2>1. r \in T \ {x} /\ TakesAny(T \ {x})
      BY <1>1, <1>4
    <2>2. x \in T \ {r} /\ TakesAny(T \ {r})
      BY <1>1, <1>4
    <2> DEFINE rest == (T \ {x}) \ {r}
    <2>3. (T \ {r}) \ {x} = rest
      OBVIOUS
    <2>4. Tokens(T \ {x}) = r.tokens + Tokens(rest)
      BY <2>1 DEF TakesAny
    <2>5. Tokens(T \ {r}) = x.tokens + Tokens(rest)
      BY <2>2, <2>3 DEF TakesAny
    <2>6. Counts(rest)
      BY FS_Subset DEF Counts
    <2>7. Tokens(rest) \in Int /\ x.tokens \in Int /\ r.tokens \in Int
      BY <1>1, <2>6, SumType DEF Counts
    <2> HIDE DEF rest
    <2> QED
      BY <1>2, <2>4, <2>5, <2>7
  <1> QED
    BY <1>3, <1>4

\* Whichever row is taken first, the rest is still a sum of numbers.
LEMMA SumTakes ==
  ASSUME NEW S, Counts(S), NEW r \in S
  PROVE  /\ Tokens(S) = r.tokens + Tokens(S \ {r})
         /\ Counts(S \ {r})
         /\ Tokens(S) \in Int /\ Tokens(S \ {r}) \in Int /\ r.tokens \in Int
  <1> DEFINE Bad == {T \in SUBSET S : ~TakesAny(T)}
  <1>1. CASE Bad # {}
    <2>1. Bad \in SUBSET SUBSET S /\ IsFiniteSet(S)
      BY DEF Counts
    <2>2. PICK T \in Bad : \A U \in Bad : U \subseteq T => U = T
      <3> HIDE DEF Bad
      <3> QED
        BY <1>1, <2>1, Smallest
    <2>3. \A U \in SUBSET T : U # T => TakesAny(U)
      BY <2>2
    <2>4. Counts(T)
      BY <2>2, FS_Subset DEF Counts
    <2> QED
      BY <2>2, <2>3, <2>4, TakesAnyStep
  <1>2. CASE Bad = {}
    <2>1. TakesAny(S)
      BY <1>2
    <2>2. Counts(S \ {r})
      BY FS_Subset DEF Counts
    <2> QED
      BY <2>1, <2>2, SumType DEF TakesAny, Counts
  <1> QED
    BY <1>1, <1>2

\* The sum of one row, and of none.
LEMMA SmallSums ==
  /\ Tokens({}) = 0
  /\ \A r : r.tokens \in Int => Tokens({r}) = r.tokens
  <1>1. Tokens({}) = 0
    BY SumUnfolds, FS_EmptySet
  <1>2. ASSUME NEW r, r.tokens \in Int PROVE Tokens({r}) = r.tokens
    <2>1. Counts({r})
      BY <1>2, FS_Singleton DEF Counts
    <2>2. Tokens({r}) = r.tokens + Tokens({r} \ {r})
      BY <2>1, SumTakes
    <2>3. {r} \ {r} = {}
      OBVIOUS
    <2> QED
      BY <1>1, <1>2, <2>2, <2>3
  <1> QED
    BY <1>1, <1>2

\* A sum is the sum of a part and of the rest.
AddsUp(S, T) == Tokens(S) = Tokens(T) + Tokens(S \ T)

LEMMA AddsUpStep ==
  ASSUME NEW S, Counts(S), NEW T \in SUBSET S, \A U \in SUBSET T : U # T => AddsUp(S, U)
  PROVE  AddsUp(S, T)
  <1>1. CASE T = {}
    <2>1. Tokens(S \ T) = Tokens(S) /\ Tokens(T) = 0
      <3>1. S \ T = S
        BY <1>1
      <3> QED
        BY <1>1, <3>1, SmallSums
    <2>2. Tokens(S) \in Int
      BY SumType
    <2> QED
      BY <2>1, <2>2 DEF AddsUp
  <1>2. ASSUME NEW x \in T PROVE AddsUp(S, T)
    <2>1. AddsUp(S, T \ {x})
      OBVIOUS
    <2> DEFINE more == S \ (T \ {x})
    <2>2. x \in more /\ more \ {x} = S \ T
      OBVIOUS
    <2>3. Counts(T) /\ Counts(more)
      BY FS_Subset DEF Counts
    <2>4. Tokens(S) = Tokens(T \ {x}) + Tokens(more)
      BY <2>1 DEF AddsUp
    <2> HIDE DEF more
    <2>5. Tokens(more) = x.tokens + Tokens(S \ T) /\ Tokens(S \ T) \in Int
      BY <2>2, <2>3, SumTakes
    <2>6. /\ Tokens(T) = x.tokens + Tokens(T \ {x})
          /\ Tokens(T \ {x}) \in Int /\ x.tokens \in Int
      BY <2>3, SumTakes
    <2> QED
      BY <2>4, <2>5, <2>6 DEF AddsUp
  <1> QED
    BY <1>1, <1>2

LEMMA SumAddsUp ==
  ASSUME NEW S, Counts(S), NEW T \in SUBSET S
  PROVE  /\ Tokens(S) = Tokens(T) + Tokens(S \ T)
         /\ Counts(T) /\ Counts(S \ T)
         /\ Tokens(S) \in Int /\ Tokens(T) \in Int /\ Tokens(S \ T) \in Int
  <1> DEFINE Bad == {U \in SUBSET S : ~AddsUp(S, U)}
  <1>1. CASE Bad # {}
    <2>1. Bad \in SUBSET SUBSET S /\ IsFiniteSet(S)
      BY DEF Counts
    <2>2. PICK U \in Bad : \A V \in Bad : V \subseteq U => V = U
      <3> HIDE DEF Bad
      <3> QED
        BY <1>1, <2>1, Smallest
    <2>3. \A V \in SUBSET U : V # U => AddsUp(S, V)
      BY <2>2
    <2> QED
      BY <2>2, <2>3, AddsUpStep
  <1>2. CASE Bad = {}
    <2>1. AddsUp(S, T)
      BY <1>2
    <2>2. Counts(T) /\ Counts(S \ T)
      BY FS_Subset DEF Counts
    <2> QED
      BY <2>1, <2>2, SumType DEF AddsUp
  <1> QED
    BY <1>1, <1>2

\* Every negative row undoes a row of its session, and no other does.
Balanced(S) ==
  \A r \in S : r.tokens < 0 =>
    /\ \E h \in S : h.session = r.session /\ h.tokens = -r.tokens
    /\ \A q \in S : q.tokens < 0 /\ q.session = r.session => q = r

\* A release and the hold it undoes leave the sum of the rest.
LEMMA BalancedStep ==
  ASSUME NEW T, Counts(T), Balanced(T),
         \A U \in SUBSET T : U # T /\ Balanced(U) => 0 <= Tokens(U)
  PROVE  0 <= Tokens(T)
  <1>1. CASE T = {}
    BY <1>1, SmallSums
  <1>2. ASSUME NEW r \in T, r.tokens < 0
        PROVE  0 <= Tokens(T)
    <2>1. PICK h \in T : h.session = r.session /\ h.tokens = -r.tokens
      BY <1>2 DEF Balanced
    <2>2. r.tokens \in Int /\ h.tokens \in Int
      BY DEF Counts
    <2>3. h # r
      BY <1>2, <2>1, <2>2
    <2> DEFINE rest == (T \ {r}) \ {h}
    <2>4. Tokens(T) = r.tokens + Tokens(T \ {r}) /\ Counts(T \ {r})
      BY SumTakes
    <2>5. Tokens(T \ {r}) = h.tokens + Tokens(rest) /\ Tokens(rest) \in Int
      BY <2>3, <2>4, SumTakes
    <2>6. Balanced(rest)
      <3>1. ASSUME NEW q \in rest, q.tokens < 0
            PROVE  /\ \E g \in rest : g.session = q.session /\ g.tokens = -q.tokens
                   /\ \A p \in rest : p.tokens < 0 /\ p.session = q.session => p = q
        <4>1. PICK g \in T : g.session = q.session /\ g.tokens = -q.tokens
          BY <3>1 DEF Balanced
        <4>2. q.session # r.session
          BY <1>2, <3>1 DEF Balanced
        <4>3. g \in rest
          BY <2>1, <4>1, <4>2
        <4>4. \A p \in T : p.tokens < 0 /\ p.session = q.session => p = q
          BY <3>1 DEF Balanced
        <4> QED
          BY <4>1, <4>3, <4>4
      <3> HIDE DEF rest
      <3> QED
        BY <3>1 DEF Balanced
    <2>7. rest \in SUBSET T /\ rest # T
      OBVIOUS
    <2>8. 0 <= Tokens(rest)
      BY <2>6, <2>7
    <2> HIDE DEF rest
    <2> QED
      BY <2>1, <2>2, <2>4, <2>5, <2>8
  <1>3. ASSUME NEW x \in T, \A r \in T : ~(r.tokens < 0)
        PROVE  0 <= Tokens(T)
    <2>1. Balanced(T \ {x})
      BY <1>3 DEF Balanced
    <2>2. 0 <= Tokens(T \ {x})
      BY <2>1
    <2>3. /\ Tokens(T) = x.tokens + Tokens(T \ {x})
          /\ x.tokens \in Int /\ Tokens(T \ {x}) \in Int
      BY SumTakes
    <2> QED
      BY <1>3, <2>2, <2>3
  <1> QED
    BY <1>1, <1>2, <1>3

\* Rows that are balanced add up to no less than nothing.
LEMMA BalancedSum ==
  ASSUME NEW S, Counts(S), Balanced(S)
  PROVE  0 <= Tokens(S)
  <1> DEFINE Bad == {T \in SUBSET S : Balanced(T) /\ ~(0 <= Tokens(T))}
  <1>1. CASE Bad # {}
    <2>1. Bad \in SUBSET SUBSET S /\ IsFiniteSet(S)
      BY DEF Counts
    <2>2. PICK T \in Bad : \A U \in Bad : U \subseteq T => U = T
      <3> HIDE DEF Bad
      <3> QED
        BY <1>1, <2>1, Smallest
    <2>3. \A U \in SUBSET T : U # T /\ Balanced(U) => 0 <= Tokens(U)
      BY <2>2
    <2>4. Counts(T)
      BY <2>2, FS_Subset DEF Counts
    <2> QED
      BY <2>2, <2>3, <2>4, BalancedStep
  <1> QED
    BY <1>1

\* What is left of balanced rows when a part is taken out bounds that part.
LEMMA PartWithinWhole ==
  ASSUME NEW S, Counts(S), NEW T \in SUBSET S, Balanced(S \ T)
  PROVE  /\ Tokens(T) \in Int /\ Tokens(S) \in Int
         /\ Tokens(T) <= Tokens(S)
  <1>1. /\ Tokens(S) = Tokens(T) + Tokens(S \ T) /\ Counts(S \ T)
        /\ Tokens(S) \in Int /\ Tokens(T) \in Int /\ Tokens(S \ T) \in Int
    BY SumAddsUp
  <1>2. 0 <= Tokens(S \ T)
    BY <1>1, BalancedSum
  <1> QED
    BY <1>1, <1>2
-----------------------------------------------------------------------------
(* What the caps count.                                                     *)

\* Rows that belong together: what is used costs something, and a release
\* undoes the hold of its session, of the same user and written before it.
Paired(rows) ==
  /\ IsFiniteSet(rows)
  /\ rows \subseteq Row
  /\ \A r \in rows : r.task # "release" => 0 <= r.tokens
  /\ \A h, g \in rows : h.task = "hold" /\ g.task = "hold" /\ h.session = g.session => h = g
  /\ \A r \in rows : r.task = "release" =>
       /\ r.tokens < 0
       /\ \A q \in rows : q.task = "release" /\ q.session = r.session => q = r
       /\ \E h \in rows : /\ h.task = "hold" /\ h.session = r.session
                          /\ h.session \in Sessions
                          /\ h.tokens = -r.tokens /\ h.user = r.user

\* The rows of the users us that a cap counts.
Counted(us, rows, since, t) == {r \in CountedRows(rows, since, t) : r.user \in us}

\* A release that a cap counts comes with its hold, because its session would
\* net negative without it.
LEMMA CountedWithHold ==
  ASSUME NEW rows, Paired(rows), NEW us, NEW since \in Int, NEW t \in Int,
         NEW r \in Counted(us, rows, since, t), r.task = "release"
  PROVE  \E h \in Counted(us, rows, since, t) :
           h.task = "hold" /\ h.session = r.session /\ h.tokens = -r.tokens
  <1>1. PICK h \in rows : /\ h.task = "hold" /\ h.session = r.session
                          /\ h.session \in Sessions
                          /\ h.tokens = -r.tokens /\ h.user = r.user
    BY DEF Paired, Counted, CountedRows
  <1>2. /\ r \in rows /\ r.user \in us /\ r.at >= since
        /\ r.session \notin ExcludedSessions(rows, since, t)
    BY DEF Counted, CountedRows, NonBillable
  <1>3. r.tokens \in Int /\ r.tokens < 0 /\ r.at \in Int /\ h.at \in Int
    BY <1>1, <1>2, ClockAssumption DEF Paired, Row, Time
  <1>4. h.at >= since
    <2>1. SUFFICES ASSUME ~(h.at >= since) PROVE FALSE
      OBVIOUS
    <2>2. InternalRows(rows, r.session, since) = {r}
      <3>1. ASSUME NEW q \in InternalRows(rows, r.session, since) PROVE q = r
        <4>1. q \in rows /\ q.session = r.session /\ q.at >= since
              /\ q.task \in {"hold", "release"}
          BY DEF InternalRows, NonBillable
        <4> QED
          BY <1>1, <1>2, <2>1, <4>1 DEF Paired
      <3> QED
        BY <1>2, <3>1 DEF InternalRows, NonBillable
    <2>3. Tokens(InternalRows(rows, r.session, since)) < 0
      BY <1>3, <2>2, SmallSums
    <2>4. r.session \in Sessions
      BY <1>1
    <2> QED
      BY <1>2, <2>3, <2>4 DEF ExcludedSessions
  <1>5. h \in Counted(us, rows, since, t)
    BY <1>1, <1>2, <1>4 DEF Counted, CountedRows, NonBillable
  <1> QED
    BY <1>1, <1>5
\* Whatever of the counted rows is left beside rows that no release undoes adds
\* up to no less than nothing, so the cap sees at least those rows.
LEMMA CountedBounds ==
  ASSUME NEW rows, Paired(rows), NEW us, NEW since \in Int, NEW t \in Int,
         NEW T \in SUBSET Counted(us, rows, since, t),
         \A r \in T : /\ r.task # "release"
                      /\ r.task = "hold" => ~Released(rows, r.session)
  PROVE  /\ Tokens(T) \in Int /\ UsedBy(us, rows, since, t) \in Int
         /\ Tokens(T) <= UsedBy(us, rows, since, t)
  <1> DEFINE D == Counted(us, rows, since, t)
  <1>1. D \subseteq rows
    BY DEF Counted, CountedRows
  <1>2. Counts(D)
    BY <1>1, FS_Subset DEF Counts, Paired, Row
  <1>3. Balanced(D \ T)
    <2>1. ASSUME NEW r \in D \ T, r.tokens < 0
          PROVE  /\ \E h \in D \ T : h.session = r.session /\ h.tokens = -r.tokens
                 /\ \A q \in D \ T : q.tokens < 0 /\ q.session = r.session => q = r
      <3>1. \A q \in D : q.tokens \in Int
        BY <1>2 DEF Counts
      <3>2. \A q \in D : q.tokens < 0 => q.task = "release"
        BY <1>1, <3>1 DEF Paired
      <3>3. r.task = "release" /\ r \in rows
        BY <1>1, <2>1, <3>2
      <3>4. PICK h \in D : h.task = "hold" /\ h.session = r.session /\ h.tokens = -r.tokens
        BY <3>3, CountedWithHold
      <3>5. h \notin T
        BY <3>3, <3>4 DEF Released
      <3>6. \A q \in D : q.tokens < 0 /\ q.session = r.session => q = r
        BY <1>1, <3>2, <3>3 DEF Paired
      <3> QED
        BY <3>4, <3>5, <3>6
    <2> HIDE DEF D
    <2> QED
      BY <2>1 DEF Balanced
  <1>4. /\ Tokens(T) \in Int /\ Tokens(D) \in Int
        /\ Tokens(T) <= Tokens(D)
    <2> HIDE DEF D
    <2>1. T \in SUBSET D
      BY DEF D
    <2> QED
      BY <1>2, <1>3, <2>1, PartWithinWhole
  <1>5. UsedBy(us, rows, since, t) = AtLeastZero(Tokens(D))
    BY DEF UsedBy, Counted
  <1> HIDE DEF D
  <1> QED
    BY <1>4, <1>5 DEF AtLeastZero

\* The start of a month or a day lies in the past, moves only forward, and two
\* moments share it when the later one's is not after the earlier.
LEMMA Periods ==
  ASSUME NEW n \in Nat \ {0}, NEW t \in Nat, NEW u \in Nat, u <= t
  PROVE  /\ Since(n, t) \in Nat /\ Since(n, u) \in Nat
         /\ Since(n, t) <= t
         /\ Since(n, u) <= Since(n, t)
         /\ Since(n, t) <= u => Since(n, u) = Since(n, t)
  <1>1. t = n * (t \div n) + (t % n) /\ t % n \in 0 .. n-1 /\ t \div n \in Nat
    BY SMT
  <1>2. u = n * (u \div n) + (u % n) /\ u % n \in 0 .. n-1 /\ u \div n \in Nat
    BY SMT
  <1>3. PICK p \in Nat, q \in Nat : /\ p = t \div n /\ q = u \div n
    BY <1>1, <1>2
  <1>4. n * p \in Nat /\ n * q \in Nat
    BY SMT
  <1>5. Since(n, t) = n * p /\ Since(n, u) = n * q
    BY <1>1, <1>2, <1>3, <1>4 DEF Since
  <1>6. n * p <= t /\ n * q <= u /\ u < n * q + n /\ t < n * p + n
    BY <1>1, <1>2, <1>3, <1>4
  <1>7. n * q <= n * p
    <2>1. n * q < n * p + n
      BY <1>4, <1>6
    <2>2. q < p + 1
      BY <2>1, SMT
    <2> QED
      BY <2>2, SMT
  <1>8. n * p <= u => n * q = n * p
    <2>1. SUFFICES ASSUME n * p <= u PROVE n * q = n * p
      OBVIOUS
    <2>2. n * p < n * q + n
      BY <1>4, <1>6, <2>1
    <2>3. p < q + 1
      BY <2>2, SMT
    <2>4. n * p <= n * q
      BY <2>3, SMT
    <2> QED
      BY <1>4, <1>7, <2>4
  <1> QED
    BY <1>4, <1>5, <1>6, <1>7, <1>8
-----------------------------------------------------------------------------
(* The invariant behind the caps, in named parts.                           *)

\* Every step writes finitely many rows.
FiniteLedger == IsFiniteSet(ledger)

\* A gateway call costs what it costs; it gives nothing back.
CallsCost == \A r \in ledger : r.task = "llm" => 0 <= r.tokens

\* A granted token was paid for by a hold, which stays in the ledger.
GrantsAreHeld == \A s \in Sessions : phase[s] = "live" => HoldsFor(ledger, s) # {}

\* One admission of a month is being decided at a time.
OneDecides ==
  \A s, x \in Sessions :
    /\ phase[s] = "admitting" /\ phase[x] = "admitting"
    /\ Since(Month, req[s].start) = Since(Month, req[x].start)
    => s = x

\* The reservations of the month of t that could still be running then.
Reserved(rows, t) ==
  {h \in rows : /\ h.task = "hold" /\ h.at > t - MaxSession /\ ~Released(rows, h.session)
               /\ h.at >= Since(Month, t)}

\* Until an admission that was decided commits, its month has room for it.
RoomForOne ==
  \A s \in Sessions :
    /\ phase[s] = "admitting" /\ req[s].allowed
    /\ Since(Month, req[s].start) = Since(Month, now)
    => Tokens(Reserved(ledger, now)) < MonthlyLimit

\* The reservations of the month are below the cap and one longest session.
ReservedFits == Tokens(Reserved(ledger, now)) < MonthlyLimit + MaxHold

CapsInv ==
  FiniteLedger /\ CallsCost /\ GrantsAreHeld /\ OneDecides /\ RoomForOne /\ ReservedFits

\* The longest session there is.
LEMMA MaxHoldBounds ==
  /\ MaxHold \in Nat \ {0}
  /\ \A s \in Sessions : HoldOf[s] <= MaxHold
  <1>1. PICK m \in Sessions : \A s \in Sessions : HoldOf[s] <= HoldOf[m]
    BY LongestAssumption
  <1> DEFINE H == {HoldOf[s] : s \in Sessions}
  <1>2. HoldOf[m] \in H /\ \A y \in H : HoldOf[m] >= y
    BY <1>1, HoldAssumption
  <1>3. MaxHold = CHOOSE x \in H : \A y \in H : x >= y
    BY DEF MaxHold, Max
  <1>4. MaxHold \in H /\ \A y \in H : MaxHold >= y
    <2> HIDE DEF H
    <2> QED
      BY <1>2, <1>3
  <1> QED
    BY <1>4, HoldAssumption

\* The ledger's rows belong together.
LEMMA LedgerPaired ==
  ASSUME IInv, FiniteLedger, CallsCost
  PROVE  Paired(ledger)
  <1>1. \A h \in ledger : h.task = "hold" => h.tokens \in Nat \ {0} /\ h.session \in Sessions
    BY HoldAssumption DEF IInv, HoldsAreGenuine
  <1>2. \A r \in ledger : r.task # "release" => 0 <= r.tokens
    <2>1. ASSUME NEW r \in ledger, r.task = "actual" PROVE 0 <= r.tokens
      BY <2>1 DEF IInv, BilledWithinHold, TypeOK, Row
    <2> QED
      BY <1>1, <2>1 DEF IInv, CallsCost, TypeOK, Row
  <1>3. ASSUME NEW r \in ledger, r.task = "release"
        PROVE  /\ r.tokens < 0
               /\ \A q \in ledger : q.task = "release" /\ q.session = r.session => q = r
               /\ \E h \in ledger : /\ h.task = "hold" /\ h.session = r.session
                                    /\ h.session \in Sessions
                                    /\ h.tokens = -r.tokens /\ h.user = r.user
    <2>1. PICK h \in ledger : /\ h.task = "hold" /\ h.session = r.session
                              /\ r.tokens = -h.tokens /\ r.user = h.user
      BY <1>3 DEF IInv, ReleaseCompensates
    <2>2. \A q \in ledger : q.task = "release" /\ q.session = r.session => q = r
      BY <1>3 DEF IInv, ReleaseCompensates
    <2> QED
      BY <1>1, <2>1, <2>2
  <1>4. /\ ledger \subseteq Row /\ IsFiniteSet(ledger)
        /\ \A h, g \in ledger : h.task = "hold" /\ g.task = "hold" /\ h.session = g.session
                               => h = g
    BY DEF IInv, TypeOK, HoldsAreGenuine, FiniteLedger
  <1> QED
    BY <1>2, <1>3, <1>4 DEF Paired

\* What a function makes of a finite set is finite.
LEMMA FiniteImage ==
  ASSUME NEW f, IsFiniteSet(DOMAIN f), NEW R, R \subseteq {f[h] : h \in DOMAIN f}
  PROVE  IsFiniteSet(R)
  <1> DEFINE T == {f[h] : h \in DOMAIN f}
  <1>1. [h \in DOMAIN f |-> f[h]] \in Surjection(DOMAIN f, T)
    BY DEF Surjection
  <1>2. R \in SUBSET T
    OBVIOUS
  <1> HIDE DEF T
  <1>3. IsFiniteSet(T)
    BY <1>1, FS_Surjection
  <1> QED
    BY <1>2, <1>3, FS_Subset

\* So do they with the releases of stale holds an admission is about to write.
LEMMA SweptPaired ==
  ASSUME IInv, FiniteLedger, CallsCost, NEW w \in Sessions,
         NEW stale \in {StaleHolds(ledger, now), {}}
  PROVE  Paired(ledger \cup {ReleaseOf(h, h.user, w, now) : h \in stale})
  <1> DEFINE R == {ReleaseOf(h, h.user, w, now) : h \in stale}
             rows == ledger \cup R
  <1>1. Paired(ledger)
    BY LedgerPaired
  <1>2. stale \subseteq ledger /\ \A h \in stale : h.task = "hold" /\ ~Released(ledger, h.session)
    BY DEF StaleHolds
  <1>3. now \in Time /\ \A h \in ledger : h \in Row /\ h.user \in Users
    BY DEF IInv, TypeOK, Row
  <1>4. \A h \in ledger : h.task = "hold" => h.tokens \in Nat \ {0} /\ h.session \in Sessions
    BY HoldAssumption DEF IInv, HoldsAreGenuine
  <1>5. ASSUME NEW r \in R
        PROVE  \E h \in stale : /\ r \in Row /\ r.task = "release" /\ r.session = h.session
                                /\ r.tokens = -h.tokens /\ r.user = h.user
                                /\ r = ReleaseOf(h, h.user, w, now)
    <2>1. PICK h \in stale : r = ReleaseOf(h, h.user, w, now)
      OBVIOUS
    <2>2. h \in Row /\ h.user \in Users /\ now \in Time /\ w \in Sessions \cup Closes \cup Calls
      BY <1>2, <1>3
    <2> HIDE DEF R
    <2> QED
      BY <2>1, <2>2, ReleaseRow
  <1>6. IsFiniteSet(rows)
    <2>1. IsFiniteSet(stale)
      BY <1>2, FS_Subset DEF FiniteLedger
    <2> DEFINE f == [h \in stale |-> ReleaseOf(h, h.user, w, now)]
    <2>2. DOMAIN f = stale /\ R \subseteq {f[h] : h \in DOMAIN f}
      OBVIOUS
    <2> HIDE DEF R, f
    <2>3. IsFiniteSet(R)
      BY <2>1, <2>2, FiniteImage
    <2> QED
      BY <2>3, FS_Union DEF FiniteLedger
  <1> HIDE DEF R
  <1>7. rows \subseteq Row /\ \A r \in rows : r.task # "release" => r \in ledger
    BY <1>3, <1>5
  <1>8. ASSUME NEW r \in rows, r.task = "release"
        PROVE  /\ r.tokens < 0
               /\ \A q \in rows : q.task = "release" /\ q.session = r.session => q = r
               /\ \E h \in rows : /\ h.task = "hold" /\ h.session = r.session
                                  /\ h.session \in Sessions
                                  /\ h.tokens = -r.tokens /\ h.user = r.user
    <2>1. CASE r \in ledger
      <3>1. \A q \in R : q.session # r.session
        BY <1>2, <1>5, <1>8, <2>1 DEF Released
      <3> QED
        BY <1>1, <1>8, <2>1, <3>1 DEF Paired
    <2>2. CASE r \in R
      <3>1. PICK h \in stale : /\ r.session = h.session
                               /\ r.tokens = -h.tokens /\ r.user = h.user
                               /\ r = ReleaseOf(h, h.user, w, now)
        BY <1>5, <2>2
      <3>2. \A q \in ledger : q.task = "release" => q.session # r.session
        BY <1>2, <3>1 DEF Released
      <3>3. \A q \in R : q.session = r.session => q = r
        <4>1. ASSUME NEW q \in R, q.session = r.session PROVE q = r
          <5>1. PICK g \in stale : q.session = g.session /\ q = ReleaseOf(g, g.user, w, now)
            BY <1>5
          <5>2. g = h
            BY <1>1, <1>2, <3>1, <4>1, <5>1 DEF Paired
          <5> QED
            BY <3>1, <5>1, <5>2
        <4> QED
          BY <4>1
      <3>4. h \in ledger /\ h.task = "hold" /\ h.tokens \in Nat \ {0} /\ h.session \in Sessions
        BY <1>2, <1>4
      <3> QED
        BY <3>1, <3>2, <3>3, <3>4
    <2> QED
      BY <2>1, <2>2
  <1>9. \A h, g \in rows : h.task = "hold" /\ g.task = "hold" /\ h.session = g.session => h = g
    BY <1>1, <1>7 DEF Paired
  <1>10. \A r \in rows : r.task # "release" => 0 <= r.tokens
    BY <1>1, <1>7 DEF Paired
  <1>11. Paired(rows)
    <2> HIDE DEF rows
    <2> QED
      BY <1>6, <1>7, <1>8, <1>9, <1>10 DEF Paired
  <1> QED
    BY <1>11 DEF R
-----------------------------------------------------------------------------
(* What a request is let through on.                                        *)

\* What the cap counts as used is no less than what was really spent.
LEMMA BillableWithinUsed ==
  ASSUME NEW rows, Paired(rows), ledger \subseteq rows, NEW us, NEW since \in Nat, now \in Nat
  PROVE  /\ Billable(us, since) \in Int /\ UsedBy(us, rows, since, now) \in Int
         /\ Billable(us, since) <= UsedBy(us, rows, since, now)
  <1> DEFINE T == {r \in ledger : ~NonBillable(r) /\ r.user \in us /\ r.at >= since}
  <1>1. T \in SUBSET Counted(us, rows, since, now)
    BY DEF Counted, CountedRows
  <1>2. \A r \in T : r.task # "release" /\ r.task # "hold"
    BY DEF NonBillable
  <1>3. Billable(us, since) = Tokens(T)
    BY DEF Billable
  <1> HIDE DEF T
  <1> QED
    BY <1>1, <1>2, <1>3, CountedBounds

\* A reservation that could still be running counts toward the cap of its month.
LEMMA ReservedIsCounted ==
  ASSUME IInv, NEW rows, Paired(rows), ledger \subseteq rows,
         NEW h \in Reserved(ledger, now), ~Released(rows, h.session)
  PROVE  h \in CountedRows(rows, Since(Month, now), now)
  <1> DEFINE since == Since(Month, now)
  <1>1. /\ h \in ledger /\ h.task = "hold" /\ h.at > now - MaxSession
        /\ ~Released(rows, h.session) /\ h.at >= since
    BY DEF Reserved
  <1>2. /\ h \in rows /\ h.tokens \in Nat /\ h.at \in Int /\ now \in Int /\ MaxSession \in Int
        /\ h.session \in Sessions
    BY <1>1, HoldAssumption, ClockAssumption
       DEF IInv, TypeOK, Row, HoldsAreGenuine, Time
  <1> HIDE DEF since
  <1>3. InternalRows(rows, h.session, since) = {h}
    <2>1. ASSUME NEW q \in InternalRows(rows, h.session, since) PROVE q = h
      <3>1. q \in rows /\ q.session = h.session /\ q.task \in {"hold", "release"}
        BY DEF InternalRows, NonBillable
      <3> QED
        BY <1>1, <1>2, <3>1 DEF Paired, Released
    <2> QED
      BY <1>1, <1>2, <2>1 DEF InternalRows, NonBillable
  <1>4. Tokens(InternalRows(rows, h.session, since)) = h.tokens
    BY <1>2, <1>3, SmallSums
  <1>5. h.session \notin ExcludedSessions(rows, since, now)
    <2>1. ~(h.tokens < 0) /\ ~(h.at <= now - MaxSession)
      BY <1>1, <1>2
    <2> QED
      BY <1>3, <1>4, <2>1 DEF ExcludedSessions
  <1>6. h \in CountedRows(rows, since, now)
    BY <1>1, <1>2, <1>5 DEF CountedRows
  <1> QED
    BY <1>6 DEF since

\* A request the caps let through finds the real spending below them, and in its
\* month room for at least one more reservation.
LEMMA CapsSee ==
  ASSUME IInv, NEW rows, Paired(rows), ledger \subseteq rows, NEW u, CapsAllow(rows, u, now),
         \A r \in rows : r.task = "hold" => r \in ledger,
         \A h \in Reserved(ledger, now) : ~Released(rows, h.session)
  PROVE  WithinCaps(u) /\ Tokens(Reserved(ledger, now)) < MonthlyLimit
  <1>1. now \in Nat /\ Month \in Nat \ {0} /\ Day \in Nat \ {0} /\ MaxSession \in Nat
    BY ClockAssumption DEF IInv, TypeOK, Time
  <1>2. Since(Month, now) \in Nat /\ Since(Day, now) \in Nat
    BY <1>1, Periods
  <1>3. /\ UsedBy(Users, rows, Since(Month, now), now) < MonthlyLimit
        /\ DailyLimit > 0 => UsedBy({u}, rows, Since(Day, now), now) < DailyLimit
    BY DEF CapsAllow
  <1>4. WithinCaps(u)
    <2>1. /\ Billable(Users, Since(Month, now)) \in Int
          /\ UsedBy(Users, rows, Since(Month, now), now) \in Int
          /\ Billable(Users, Since(Month, now)) <= UsedBy(Users, rows, Since(Month, now), now)
      BY <1>1, <1>2, BillableWithinUsed
    <2>2. /\ Billable({u}, Since(Day, now)) \in Int
          /\ UsedBy({u}, rows, Since(Day, now), now) \in Int
          /\ Billable({u}, Since(Day, now)) <= UsedBy({u}, rows, Since(Day, now), now)
      BY <1>1, <1>2, BillableWithinUsed
    <2> QED
      BY <1>3, <2>1, <2>2, LimitAssumption DEF WithinCaps
  <1>5. Tokens(Reserved(ledger, now)) < MonthlyLimit
    <2> DEFINE T == Reserved(ledger, now)
               since == Since(Month, now)
    <2>1. ASSUME NEW h \in T
          PROVE  h \in Counted(Users, rows, since, now)
      <3>1. h \in ledger /\ ~Released(rows, h.session)
        BY DEF Reserved
      <3>2. h.user \in Users
        BY <3>1 DEF IInv, TypeOK, Row
      <3>3. h \in CountedRows(rows, since, now)
        BY <3>1, ReservedIsCounted
      <3> QED
        BY <3>2, <3>3 DEF Counted
    <2>2. \A r \in T : r.task = "hold" /\ ~Released(rows, r.session)
      BY DEF Reserved
    <2>3. T \in SUBSET Counted(Users, rows, since, now)
      BY <2>1
    <2>4. since \in Int /\ now \in Int
      BY <1>1, <1>2
    <2> HIDE DEF T
    <2>5. /\ Tokens(T) \in Int /\ UsedBy(Users, rows, since, now) \in Int
          /\ Tokens(T) <= UsedBy(Users, rows, since, now)
      <3> HIDE DEF since
      <3> QED
        BY <2>2, <2>3, <2>4, CountedBounds
    <2> QED
      BY <1>3, <2>5, LimitAssumption DEF T
  <1> QED
    BY <1>4, <1>5

\* So does an admission that is decided.
LEMMA DecisionSees ==
  ASSUME IInv, FiniteLedger, CallsCost, NEW s \in Sessions, NEW u \in Users,
         NEW payer \in Payers, NEW prior, NEW stale \in {StaleHolds(ledger, now), {}},
         Decision(s, u, payer, prior, stale).allowed
  PROVE  WithinCaps(u) /\ Tokens(Reserved(ledger, now)) < MonthlyLimit
  <1> DEFINE R == {ReleaseOf(h, h.user, s, now) : h \in stale}
             rows == ledger \cup R
  <1>1. CapsAllow(rows, u, now)
    BY DEF Decision
  <1>2. Paired(rows)
    BY SweptPaired
  <1>3. \A r \in R : \E h \in stale : r.task = "release" /\ r.session = h.session
    BY DEF ReleaseOf
  <1>4. ASSUME NEW h \in Reserved(ledger, now), Released(rows, h.session)
        PROVE  FALSE
    <2>1. /\ h \in ledger /\ h.task = "hold" /\ h.at > now - MaxSession
          /\ ~Released(ledger, h.session)
      BY DEF Reserved
    <2>2. PICK g \in stale : g.session = h.session
      BY <1>3, <1>4, <2>1 DEF Released
    <2>3. g \in ledger /\ g.task = "hold" /\ g.at < now - SweepAge
      BY DEF StaleHolds
    <2>4. g = h
      BY <2>1, <2>2, <2>3 DEF IInv, HoldsAreGenuine
    <2>5. h.at \in Int /\ now \in Int
      BY <2>1, ClockAssumption DEF IInv, TypeOK, Row, Time
    <2> QED
      BY <2>1, <2>3, <2>4, <2>5, ClockAssumption
  <1>5. \A r \in rows : r.task = "hold" => r \in ledger
    BY <1>3
  <1>6. ledger \subseteq rows
    OBVIOUS
  <1> HIDE DEF rows
  <1> QED
    BY <1>1, <1>2, <1>4, <1>5, <1>6, CapsSee
\* Under the invariant a granted session is charged.
LEMMA ChargedNow == IInv /\ CapsInv => LiveTokenIsCharged
  <1> SUFFICES ASSUME IInv, CapsInv, NEW s \in Sessions, phase[s] = "live"
               PROVE  /\ HoldsFor(ledger, s) # {}
                      /\ \A h \in HoldsFor(ledger, s) :
                           h \in LiveHolds(now) /\ h.at >= Since(Month, now)
                             => h \in CountedRows(ledger, Since(Month, now), now)
    BY DEF LiveTokenIsCharged
  <1>1. Paired(ledger)
    BY LedgerPaired DEF CapsInv
  <1>2. HoldsFor(ledger, s) # {}
    BY DEF CapsInv, GrantsAreHeld
  <1>3. ASSUME NEW h \in LiveHolds(now), h.at >= Since(Month, now)
        PROVE  h \in CountedRows(ledger, Since(Month, now), now)
    <2>1. h \in Reserved(ledger, now) /\ ~Released(ledger, h.session)
      BY <1>3 DEF LiveHolds, Reserved
    <2> QED
      BY <1>1, <2>1, ReservedIsCounted
  <1> QED
    BY <1>2, <1>3

\* And the month's reservations stay within the cap and one session.
LEMMA WithinCapNow == CapsInv => ReservationsWithinCap
  <1>1. {h \in LiveHolds(now) : h.at >= Since(Month, now)} = Reserved(ledger, now)
    BY DEF LiveHolds, Reserved
  <1> QED
    BY <1>1 DEF CapsInv, ReservedFits, ReservationsWithinCap

-----------------------------------------------------------------------------
(* The invariant holds at the start and every step keeps it.                *)

\* Nothing is reserved at the start.
LEMMA InitCapsInv == Init => CapsInv
  <1> SUFFICES ASSUME Init PROVE CapsInv
    OBVIOUS
  <1>1. Reserved(ledger, now) = {} /\ ledger = {}
    BY DEF Init, Reserved
  <1>2. FiniteLedger /\ CallsCost
    BY <1>1, FS_EmptySet DEF FiniteLedger, CallsCost
  <1>3. GrantsAreHeld /\ OneDecides /\ RoomForOne
    BY DEF Init, GrantsAreHeld, OneDecides, RoomForOne
  <1>4. ReservedFits
    <2>1. Tokens(Reserved(ledger, now)) = 0
      BY <1>1, SmallSums
    <2> QED
      BY <2>1, MaxHoldBounds, LimitAssumption DEF ReservedFits
  <1> QED
    BY <1>2, <1>3, <1>4 DEF CapsInv

\* Fewer reservations add up to no more.
LEMMA FewerHolds ==
  ASSUME NEW A, Counts(A), \A h \in A : 0 <= h.tokens, NEW B \in SUBSET A
  PROVE  /\ Tokens(A) \in Int /\ Tokens(B) \in Int
         /\ Tokens(B) <= Tokens(A)
  <1>1. Balanced(A \ B)
    BY DEF Balanced, Counts
  <1> QED
    BY <1>1, PartWithinWhole

\* Reservations are finitely many and none is negative.
LEMMA ReservedCounts ==
  ASSUME IInv, FiniteLedger, NEW t
  PROVE  Counts(Reserved(ledger, t)) /\ \A h \in Reserved(ledger, t) : 0 <= h.tokens
  <1>1. Reserved(ledger, t) \in SUBSET ledger
    BY DEF Reserved
  <1>2. \A h \in Reserved(ledger, t) : h.tokens \in Nat
    BY HoldAssumption DEF Reserved, IInv, HoldsAreGenuine
  <1> QED
    BY <1>1, <1>2, FS_Subset DEF Counts, FiniteLedger

\* A row that is no hold and costs no less than nothing if it is a call's.
LEMMA PlainStep ==
  ASSUME IInv, CapsInv, NEW r,
         ledger' = ledger \/ (/\ ledger' = ledger \cup {r} /\ r.task # "hold"
                              /\ r.task = "llm" => 0 <= r.tokens),
         now' = now,
         \A s \in Sessions : phase'[s] = "admitting" => phase[s] = "admitting" /\ req'[s] = req[s],
         \A s \in Sessions : phase'[s] = "live" =>
                                phase[s] = "live" \/ HoldsFor(ledger, s) # {}
  PROVE  CapsInv'
  <1> USE DEF CapsInv
  <1>1. FiniteLedger'
    BY FS_AddElement DEF FiniteLedger
  <1>2. CallsCost'
    BY DEF CallsCost
  <1>3. ledger \subseteq ledger' /\ \A h \in ledger' : h.task = "hold" => h \in ledger
    OBVIOUS
  <1>4. GrantsAreHeld'
    BY <1>3 DEF GrantsAreHeld, HoldsFor
  <1>5. OneDecides'
    BY DEF OneDecides
  <1>6. Reserved(ledger', now') \in SUBSET Reserved(ledger, now)
    BY <1>3 DEF Reserved, Released
  <1>7. /\ Tokens(Reserved(ledger', now')) \in Int /\ Tokens(Reserved(ledger, now)) \in Int
        /\ Tokens(Reserved(ledger', now')) <= Tokens(Reserved(ledger, now))
    BY <1>6, FewerHolds, ReservedCounts
  <1>8. RoomForOne'
    BY <1>7, LimitAssumption DEF RoomForOne
  <1>9. ReservedFits'
    BY <1>7, LimitAssumption, MaxHoldBounds DEF ReservedFits
  <1> QED
    BY <1>1, <1>2, <1>4, <1>5, <1>8, <1>9
\* What CapsSeeSpending says of one step.
ThroughWithinCaps ==
  /\ \A s \in Sessions :
       phase[s] = "new" /\ phase'[s] = "admitting" /\ req'[s].allowed
         => WithinCaps(req'[s].user)
  /\ \A k \in Calls :
       calling[k].step = "idle" /\ calling'[k].step = "running"
         => WithinCaps(calling'[k].user)

\* Deciding an admission needs the lock of its month and room under its cap.
LEMMA DecideCaps ==
  ASSUME IInv, CapsInv, NEW s \in Sessions, NEW u \in Users, NEW payer \in Payers, NEW prior,
         NEW others, NEW from,
         phase[s] = "new",
         \/ others = req /\ phase' = [phase EXCEPT ![s] = "admitting"]
         \/ /\ from \in Sessions /\ phase[from] = "retrying"
            /\ others = [req EXCEPT ![from] = NoRequest]
            /\ phase' = [phase EXCEPT ![from] = "over", ![s] = "admitting"],
         Decide(s, u, payer, prior, others)
  PROVE  CapsInv' /\ ThroughWithinCaps
  <1> USE DEF CapsInv
  <1>1. PICK stale \in {StaleHolds(ledger, now), {}} :
          req' = [others EXCEPT ![s] = Decision(s, u, payer, prior, stale)]
    BY DEF Decide
  <1>2. ledger' = ledger /\ now' = now /\ LockFree(now)
    BY DEF Decide
  <1>3. /\ Decision(s, u, payer, prior, stale).user = u
        /\ Decision(s, u, payer, prior, stale).start = now
    BY DEF Decision
  <1> DEFINE d == Decision(s, u, payer, prior, stale)
  <1>4. d.allowed => WithinCaps(u) /\ Tokens(Reserved(ledger, now)) < MonthlyLimit
    BY DecisionSees
  <1>5. d.user = u /\ d.start = now /\ req' = [others EXCEPT ![s] = d]
    BY <1>1, <1>3
  <1> HIDE DEF d
  <1>6. phase \in [Sessions -> {"new", "admitting", "minting", "live", "failing",
                                "retrying", "over"}]
        /\ req \in [Sessions -> Request]
    BY DEF IInv, TypeOK
  <1>a. from \in Sessions /\ phase[from] = "retrying" => from # s
    OBVIOUS
  <1>7. /\ req'[s] = d /\ phase'[s] = "admitting"
        /\ \A x \in Sessions \ {s} : phase'[x] = "admitting" =>
             phase[x] = "admitting" /\ req'[x] = req[x]
        /\ \A x \in Sessions \ {s} : phase'[x] \in {phase[x], "over"}
    BY <1>5, <1>6, <1>a
  <1>8. FiniteLedger' /\ CallsCost'
    BY <1>2 DEF FiniteLedger, CallsCost
  <1>9. GrantsAreHeld'
    BY <1>2, <1>7 DEF GrantsAreHeld
  <1>10. OneDecides'
    <2>1. \A x \in Sessions :
            phase[x] = "admitting" => Since(Month, req[x].start) # Since(Month, now)
      BY <1>2 DEF LockFree
    <2>2. \A x \in Sessions \ {s} : phase'[x] = "admitting" =>
            Since(Month, req'[x].start) # Since(Month, req'[s].start)
      BY <1>5, <1>7, <2>1
    <2> QED
      BY <1>7, <2>2 DEF OneDecides
  <1>11. RoomForOne'
    BY <1>2, <1>4, <1>7 DEF RoomForOne
  <1>12. ReservedFits'
    BY <1>2 DEF ReservedFits
  <1>13. \A x \in Sessions : phase[x] = "new" /\ phase'[x] = "admitting" => x = s
    BY <1>7
  <1>14. ThroughWithinCaps
    <2>1. ASSUME NEW x \in Sessions, phase[x] = "new", phase'[x] = "admitting", req'[x].allowed
          PROVE  WithinCaps(req'[x].user)
      <3>1. req'[x] = d
        BY <1>7, <1>13, <2>1
      <3>2. d.allowed
        BY <2>1, <3>1
      <3>3. WithinCaps(d.user)
        BY <1>4, <1>5, <3>2
      <3> QED
        BY <3>1, <3>3
    <2>2. calling' = calling
      BY DEF Decide
    <2> QED
      BY <2>1, <2>2 DEF ThroughWithinCaps
  <1> QED
    BY <1>8, <1>9, <1>10, <1>11, <1>12, <1>14

\* The admission that commits is the only one of its month, so the room it was
\* decided on is still there, and its hold is the one more that fits.
LEMMA AdmitCommitCaps ==
  ASSUME IInv, CapsInv, NEW s \in Sessions, AdmitCommit(s)
  PROVE  CapsInv'
  <1> USE DEF CapsInv
  <1> DEFINE H == {r \in ledger : r.task = "hold" /\ r.session \in req[s].swept}
             R == {ReleaseOf(h, h.user, s, req[s].start) : h \in H}
             new == NewHold(s, req[s])
             N == IF req[s].allowed THEN {new} ELSE {}
  <1>1. ledger' = ledger \cup R \cup N /\ now' = now /\ phase[s] = "admitting"
    BY DEF AdmitCommit
  <1>2. /\ phase \in [Sessions -> {"new", "admitting", "minting", "live", "failing",
                                   "retrying", "over"}]
        /\ req \in [Sessions -> Request]
    BY DEF IInv, TypeOK
  <1>3. /\ phase'[s] \in {"minting", "over"}
        /\ \A x \in Sessions \ {s} : phase'[x] = phase[x] /\ req'[x] = req[x]
    BY <1>2 DEF AdmitCommit
  <1>4. \A r \in R : r.task = "release"
    BY DEF ReleaseOf
  <1>5. new.task = "hold" /\ new.tokens = HoldOf[s] /\ new.at = req[s].start
    BY DEF NewHold
  <1>6. IsFiniteSet(R)
    <2> DEFINE f == [h \in H |-> ReleaseOf(h, h.user, s, req[s].start)]
    <2>1. DOMAIN f = H /\ R \subseteq {f[h] : h \in DOMAIN f}
      OBVIOUS
    <2>2. IsFiniteSet(H)
      BY FS_Subset DEF FiniteLedger
    <2> HIDE DEF R, H, f
    <2> QED
      BY <2>1, <2>2, FiniteImage
  <1>7. IsFiniteSet(N)
    BY FS_EmptySet, FS_Singleton
  <1> HIDE DEF R, H, new
  <1>8. FiniteLedger'
    <2>1. IsFiniteSet(ledger \cup R)
      BY <1>6, FS_Union DEF FiniteLedger
    <2> HIDE DEF N
    <2>2. IsFiniteSet((ledger \cup R) \cup N)
      BY <1>7, <2>1, FS_Union
    <2> QED
      BY <1>1, <2>2 DEF FiniteLedger
  <1>9. CallsCost'
    BY <1>1, <1>4, <1>5 DEF CallsCost
  <1>10. GrantsAreHeld'
    BY <1>1, <1>3 DEF GrantsAreHeld, HoldsFor
  <1>11. OneDecides'
    BY <1>3 DEF OneDecides
  <1>12. ASSUME NEW h \in Reserved(ledger', now')
         PROVE  h \in Reserved(ledger, now) \/ (h \in N /\ h.at >= Since(Month, now))
    <2>1. /\ h \in ledger' /\ h.task = "hold" /\ h.at > now - MaxSession
          /\ ~Released(ledger', h.session) /\ h.at >= Since(Month, now)
      BY <1>1 DEF Reserved
    <2>2. h \in ledger \/ h \in N
      BY <1>1, <1>4, <2>1
    <2>3. ~Released(ledger, h.session)
      BY <1>1, <2>1 DEF Released
    <2> QED
      BY <2>1, <2>2, <2>3 DEF Reserved
  <1>13. /\ Counts(Reserved(ledger, now)) /\ \A h \in Reserved(ledger, now) : 0 <= h.tokens
    BY ReservedCounts
  <1>14. HoldOf[s] \in Nat /\ HoldOf[s] <= MaxHold /\ MaxHold \in Nat \ {0}
    BY MaxHoldBounds, HoldAssumption
  <1>15. CASE Reserved(ledger', now') \in SUBSET Reserved(ledger, now)
    <2>1. /\ Tokens(Reserved(ledger', now')) \in Int /\ Tokens(Reserved(ledger, now)) \in Int
          /\ Tokens(Reserved(ledger', now')) <= Tokens(Reserved(ledger, now))
      BY <1>13, <1>15, FewerHolds
    <2>2. RoomForOne'
      BY <1>1, <1>3, <2>1, LimitAssumption DEF RoomForOne
    <2>3. ReservedFits'
      BY <1>14, <2>1, LimitAssumption DEF ReservedFits
    <2> QED
      BY <1>8, <1>9, <1>10, <1>11, <2>2, <2>3
  <1>16. CASE ~(Reserved(ledger', now') \in SUBSET Reserved(ledger, now))
    <2>1. /\ new \in Reserved(ledger', now') /\ req[s].allowed
          /\ req[s].start >= Since(Month, now)
          /\ Reserved(ledger', now') \ {new} \in SUBSET Reserved(ledger, now)
      BY <1>5, <1>12, <1>16
    <2>2. Since(Month, req[s].start) = Since(Month, now)
      <3>1. req[s].start \in Nat /\ now \in Nat /\ req[s].start <= now
        BY <1>2, ClockAssumption DEF IInv, TypeOK, NothingAhead, Request, Time
      <3> QED
        BY <2>1, <3>1, Periods, ClockAssumption
    <2>3. Tokens(Reserved(ledger, now)) < MonthlyLimit
      BY <1>1, <2>1, <2>2 DEF RoomForOne
    <2> DEFINE old == Reserved(ledger', now') \ {new}
    <2>4. /\ Tokens(old) \in Int /\ Tokens(Reserved(ledger, now)) \in Int
          /\ Tokens(old) <= Tokens(Reserved(ledger, now))
      <3>1. old \in SUBSET Reserved(ledger, now)
        BY <2>1
      <3> HIDE DEF old
      <3> QED
        BY <1>13, <3>1, FewerHolds
    <2>5. Counts(Reserved(ledger', now'))
      <3>1. Reserved(ledger', now') \in SUBSET ledger'
        BY DEF Reserved
      <3>2. \A h \in Reserved(ledger', now') : h.tokens \in Int
        BY <1>5, <1>13, <1>14, <2>1 DEF Counts
      <3> QED
        BY <1>8, <3>1, <3>2, FS_Subset DEF Counts, FiniteLedger
    <2>6. Tokens(Reserved(ledger', now')) = HoldOf[s] + Tokens(old)
      BY <1>5, <2>1, <2>5, SumTakes
    <2> HIDE DEF old
    <2>7. ReservedFits'
      BY <1>14, <2>3, <2>4, <2>6, LimitAssumption DEF ReservedFits
    <2>8. RoomForOne'
      <3>1. ASSUME NEW x \in Sessions, phase'[x] = "admitting",
                   Since(Month, req'[x].start) = Since(Month, now')
            PROVE  FALSE
        <4>1. x # s /\ phase[x] = "admitting" /\ req'[x] = req[x]
          BY <1>3, <3>1
        <4> QED
          BY <1>1, <2>2, <3>1, <4>1 DEF OneDecides
      <3> QED
        BY <3>1 DEF RoomForOne
    <2> QED
      BY <1>8, <1>9, <1>10, <1>11, <2>7, <2>8
  <1> QED
    BY <1>15, <1>16

\* Time only takes reservations out of the count.
LEMMA TickCaps ==
  ASSUME IInv, CapsInv, Tick
  PROVE  CapsInv'
  <1> USE DEF CapsInv
  <1>1. now' = now + 1 /\ UNCHANGED <<ledger, phase, req>>
    BY DEF Tick
  <1>2. now \in Nat /\ MaxSession \in Nat /\ Month \in Nat \ {0}
    BY ClockAssumption DEF IInv, TypeOK, Time
  <1>3. /\ Since(Month, now) \in Nat /\ Since(Month, now + 1) \in Nat
        /\ Since(Month, now) <= Since(Month, now + 1)
    BY <1>2, Periods
  <1>4. \A r \in ledger : r.at \in Nat
    BY ClockAssumption DEF IInv, TypeOK, Row, Time
  <1>5. Reserved(ledger', now') \in SUBSET Reserved(ledger, now)
    BY <1>1, <1>2, <1>3, <1>4 DEF Reserved
  <1>6. /\ Tokens(Reserved(ledger', now')) \in Int /\ Tokens(Reserved(ledger, now)) \in Int
        /\ Tokens(Reserved(ledger', now')) <= Tokens(Reserved(ledger, now))
    BY <1>5, FewerHolds, ReservedCounts
  <1>7. RoomForOne'
    <2>1. ASSUME NEW s \in Sessions, phase[s] = "admitting", req[s].allowed,
                 Since(Month, req[s].start) = Since(Month, now + 1)
          PROVE  Tokens(Reserved(ledger, now)) < MonthlyLimit
      <3>1. req[s].start \in Nat /\ req[s].start <= now
        BY ClockAssumption DEF IInv, TypeOK, NothingAhead, Request, Time
      <3>2. Since(Month, req[s].start) <= Since(Month, now)
        BY <1>2, <3>1, Periods
      <3>3. Since(Month, req[s].start) = Since(Month, now)
        BY <1>3, <2>1, <3>2
      <3> QED
        BY <2>1, <3>3 DEF RoomForOne
    <2> QED
      BY <1>1, <1>6, <2>1, LimitAssumption DEF RoomForOne
  <1>8. ReservedFits'
    BY <1>6, LimitAssumption, MaxHoldBounds DEF ReservedFits
  <1>9. FiniteLedger' /\ CallsCost' /\ GrantsAreHeld' /\ OneDecides'
    BY <1>1 DEF FiniteLedger, CallsCost, GrantsAreHeld, OneDecides, HoldsFor
  <1> QED
    BY <1>7, <1>8, <1>9
\* A call is let through by the same caps, over the rows as they stand.
LEMMA CallStartCaps ==
  ASSUME IInv, CapsInv, NEW k \in Calls, CallStart(k)
  PROVE  CapsInv' /\ ThroughWithinCaps
  <1>1. UNCHANGED <<ledger, now, phase, req>>
    BY DEF CallStart
  <1>2. PICK u \in Users : /\ CapsAllow(ledger, u, now)
                           /\ calling' = [calling EXCEPT ![k] = [step |-> "running", user |-> u]]
    BY DEF CallStart
  <1>3. WithinCaps(u)
    <2>1. Paired(ledger)
      BY LedgerPaired DEF CapsInv
    <2>2. \A h \in Reserved(ledger, now) : ~Released(ledger, h.session)
      BY DEF Reserved
    <2> QED
      BY <1>2, <2>1, <2>2, CapsSee
  <1>4. CapsInv'
    BY <1>1, PlainStep
  <1>5. /\ calling'[k].user = u
        /\ \A x \in Calls \ {k} : calling'[x] = calling[x]
    <2>1. DOMAIN calling = Calls
      BY DEF IInv, TypeOK
    <2> QED
      BY <1>2, <2>1
  <1>6. ThroughWithinCaps
    BY <1>1, <1>3, <1>5 DEF ThroughWithinCaps
  <1> QED
    BY <1>4, <1>6

\* Every step keeps the invariant and lets through only within the caps.
LEMMA NextCaps == IInv /\ CapsInv /\ [Next]_vars => CapsInv' /\ ThroughWithinCaps
  <1> SUFFICES ASSUME IInv, CapsInv, [Next]_vars PROVE CapsInv' /\ ThroughWithinCaps
    OBVIOUS
  <1>1. /\ phase \in [Sessions -> {"new", "admitting", "minting", "live", "failing",
                                   "retrying", "over"}]
        /\ req \in [Sessions -> Request]
        /\ calling \in [Calls -> [step : {"running"}, user : Users]
                                 \cup [step : {"idle", "done"}, user : {None}]]
        /\ closing \in [Closes -> [step : {"new", "found", "released", "done"},
                                   user : Users \cup {None}, hold : Row \cup {None}]]
    BY DEF IInv, TypeOK
  <1> DEFINE Quiet == \A k \in Calls : calling'[k] = calling[k] \/ calling'[k].step = "done"
  <1>2. ASSUME NEW s \in Sessions, Open(s) PROVE CapsInv' /\ ThroughWithinCaps
    <2>1. PICK u \in Users, payer \in Payers,
               prior \in {None} \cup {x \in Sessions : phase[x] = "live"} :
            Decide(s, u, payer, prior, req)
      BY <1>2 DEF Open
    <2>2. phase[s] = "new" /\ phase' = [phase EXCEPT ![s] = "admitting"]
      BY <1>2 DEF Open
    <2> QED
      BY ONLY IInv, CapsInv, s \in Sessions, u \in Users, payer \in Payers, <2>1, <2>2, DecideCaps
  <1>3. ASSUME NEW s \in Sessions, NEW fresh \in Sessions, Retry(s, fresh)
        PROVE  CapsInv' /\ ThroughWithinCaps
    <2>1. /\ phase[s] = "retrying" /\ phase[fresh] = "new"
          /\ Decide(fresh, req[s].user, "platform", s, [req EXCEPT ![s] = NoRequest])
          /\ phase' = [phase EXCEPT ![s] = "over", ![fresh] = "admitting"]
      BY <1>3 DEF Retry
    <2>2. PICK u \in Users, payer \in Payers : u = req[s].user /\ payer = "platform"
      BY <2>1 DEF IInv, RequestsKnowTheirHold, Payers
    <2>3. Decide(fresh, u, payer, s, [req EXCEPT ![s] = NoRequest])
      BY <2>1, <2>2
    <2> QED
      BY ONLY IInv, CapsInv, s \in Sessions, fresh \in Sessions, u \in Users, payer \in Payers,
              <2>1, <2>3, DecideCaps
  <1>4. ASSUME NEW s \in Sessions, AdmitCommit(s) PROVE CapsInv' /\ ThroughWithinCaps
    <2>1. CapsInv'
      BY <1>4, AdmitCommitCaps
    <2>2. /\ calling' = calling
          /\ \A x \in Sessions : phase'[x] = "admitting" => phase[x] = "admitting"
      BY <1>1, <1>4 DEF AdmitCommit
    <2> QED
      BY <2>1, <2>2 DEF ThroughWithinCaps
  <1>5. CASE Tick
    <2>1. CapsInv'
      BY <1>5, TickCaps
    <2> QED
      BY <1>5, <2>1 DEF Tick, ThroughWithinCaps
  <1>6. ASSUME NEW k \in Calls, CallStart(k) PROVE CapsInv' /\ ThroughWithinCaps
    BY <1>6, CallStartCaps
  <1>7. ASSUME NEW r, Quiet,
               ledger' = ledger \/ (/\ ledger' = ledger \cup {r} /\ r.task # "hold"
                                    /\ r.task = "llm" => 0 <= r.tokens),
               now' = now,
               \A s \in Sessions :
                 phase'[s] = "admitting" => phase[s] = "admitting" /\ req'[s] = req[s],
               \A s \in Sessions :
                 phase'[s] = "live" => phase[s] = "live" \/ HoldsFor(ledger, s) # {}
        PROVE  CapsInv' /\ ThroughWithinCaps
    <2>1. CapsInv'
      BY <1>7, PlainStep
    <2> QED
      BY <1>7, <2>1 DEF ThroughWithinCaps
  <1>8. ASSUME NEW s \in Sessions, MintOk(s) PROVE CapsInv' /\ ThroughWithinCaps
    <2>1. HoldsFor(ledger, s) # {}
      <3>1. NewHold(s, req[s]) \in ledger
        BY <1>8 DEF MintOk, IInv, RequestsKnowTheirHold
      <3>2. NewHold(s, req[s]).task = "hold" /\ NewHold(s, req[s]).session = s
        BY DEF NewHold
      <3> QED
        BY <3>1, <3>2 DEF HoldsFor
    <2> QED
      BY <1>1, <1>7, <1>8, <2>1 DEF MintOk
  <1>9. ASSUME NEW s \in Sessions, MintFails(s) PROVE CapsInv' /\ ThroughWithinCaps
    <2>1. /\ UNCHANGED <<ledger, now, calling>>
          /\ phase' = [phase EXCEPT ![s] = "failing"]
          /\ \A x \in Sessions \ {s} : req'[x] = req[x]
      BY <1>1, <1>9 DEF MintFails
    <2> QED
      BY <1>1, <1>7, <2>1
  <1>10. ASSUME NEW s \in Sessions, MintReconcile(s) PROVE CapsInv' /\ ThroughWithinCaps
    <2> DEFINE r == ReleaseOf(NewHold(s, req[s]), req[s].user, s, now)
    <2>1. r.task = "release"
      BY DEF ReleaseOf
    <2>2. /\ ledger' = ledger \cup {r} \/ ledger' = ledger
          /\ now' = now /\ calling' = calling
          /\ phase'[s] \in {"retrying", "over"}
          /\ \A x \in Sessions \ {s} : phase'[x] = phase[x] /\ req'[x] = req[x]
      BY <1>1, <1>10 DEF MintReconcile
    <2> HIDE DEF r
    <2> QED
      BY <1>7, <2>1, <2>2
  <1>11. ASSUME NEW s \in Sessions, OpenCrashes(s) PROVE CapsInv' /\ ThroughWithinCaps
    <2>1. /\ UNCHANGED <<ledger, now, calling>>
          /\ phase'[s] = "over"
          /\ \A x \in Sessions \ {s} : phase'[x] = phase[x] /\ req'[x] = req[x]
      BY <1>1, <1>11 DEF OpenCrashes
    <2> QED
      BY <1>7, <2>1
  <1>12. ASSUME NEW c \in Closes, CloseLookup(c) \/ CloseDies(c) PROVE CapsInv' /\ ThroughWithinCaps
    <2>1. UNCHANGED <<ledger, now, phase, req, calling>>
      BY <1>12 DEF CloseLookup, CloseDies
    <2> QED
      BY <1>7, <2>1
  <1>13. ASSUME NEW c \in Closes, CloseRelease(c) PROVE CapsInv' /\ ThroughWithinCaps
    <2> DEFINE r == ReleaseOf(closing[c].hold, closing[c].user, c, now)
    <2>1. r.task = "release"
      BY DEF ReleaseOf
    <2>2. /\ ledger' = ledger \cup {r} \/ ledger' = ledger
          /\ UNCHANGED <<now, phase, req, calling>>
      BY <1>13 DEF CloseRelease
    <2> HIDE DEF r
    <2> QED
      BY <1>7, <2>1, <2>2
  <1>14. ASSUME NEW c \in Closes, CloseActual(c) PROVE CapsInv' /\ ThroughWithinCaps
    <2>1. PICK n \in Reports :
            ledger' = IF ClampToHold(n, closing[c].hold.tokens) = 0 THEN ledger
                      ELSE ledger \cup {ActualOf(closing[c].hold, closing[c].user, c,
                                                 ClampToHold(n, closing[c].hold.tokens), now)}
      BY <1>14 DEF CloseActual
    <2> DEFINE r == ActualOf(closing[c].hold, closing[c].user, c,
                             ClampToHold(n, closing[c].hold.tokens), now)
    <2>2. r.task = "actual"
      BY DEF ActualOf
    <2>3. /\ ledger' = ledger \cup {r} \/ ledger' = ledger
          /\ UNCHANGED <<now, phase, req, calling>>
      BY <1>14, <2>1 DEF CloseActual
    <2> HIDE DEF r
    <2> QED
      BY <1>7, <2>2, <2>3
  <1>15. ASSUME NEW k \in Calls, CallMeter(k) PROVE CapsInv' /\ ThroughWithinCaps
    <2> DEFINE r == [id |-> k, task |-> "llm", session |-> None, user |-> calling[k].user,
                     payer |-> "platform", tokens |-> CallTokens, at |-> now]
    <2>1. r.task # "hold" /\ 0 <= r.tokens
      BY CallAssumption
    <2>2. /\ ledger' = ledger \cup {r} \/ ledger' = ledger
          /\ UNCHANGED <<now, phase, req>>
          /\ calling' = [calling EXCEPT ![k] = [step |-> "done", user |-> None]]
      BY <1>15 DEF CallMeter
    <2>3. Quiet
      BY <1>1, <2>2
    <2> HIDE DEF r, Quiet
    <2> QED
      BY <1>7, <2>1, <2>2, <2>3
  <1>16. CASE UNCHANGED vars
    <2>1. UNCHANGED <<ledger, now, phase, req, calling>>
      BY <1>16 DEF vars
    <2> QED
      BY <1>7, <2>1
  <1> QED
    BY <1>2, <1>3, <1>4, <1>5, <1>6, <1>8, <1>9, <1>10, <1>11, <1>12, <1>13, <1>14, <1>15, <1>16
       DEF Next

-----------------------------------------------------------------------------
(* Theorems *)

\* The invariant holds of every reachable state.
LEMMA CapsHold == Spec => []CapsInv
  BY InitCapsInv, NextCaps, InvariantHolds, PTL DEF Spec

\* Simultaneous opens cannot claim the same budget twice: at every moment the
\* reservations of the month that could still be running are below the cap and
\* one longest session, for any number of users, opens, retries and closes.
THEOREM ReservationsFit == Spec => []ReservationsWithinCap
  BY CapsHold, WithinCapNow, PTL

\* Whoever holds a granted token is charged for it: the hold exists, and while
\* it could be running the monthly cap counts it.
THEOREM TokensAreCharged == Spec => []LiveTokenIsCharged
  BY CapsHold, InvariantHolds, ChargedNow, PTL

\* No session and no call is let through once what was really spent in the
\* month, or by its user in the day, has reached the cap.
THEOREM SpendingIsSeen == Spec => CapsSeeSpending
  <1>1. IInv /\ CapsInv /\ [Next]_vars => [ThroughWithinCaps]_vars
    BY NextCaps
  <1>2. Spec => [][ThroughWithinCaps]_vars
    BY <1>1, CapsHold, InvariantHolds, PTL DEF Spec
  <1> QED
    BY <1>2, PTL DEF CapsSeeSpending, ThroughWithinCaps

-----------------------------------------------------------------------------
(***************************************************************************)
(* The page, for any number of interviews and any limits on renewals.  The *)
(* shapes hold whatever the user does; one voice, muted iff the interview is *)
(* paused, whose end is told once, holds as long as the user does nothing  *)
(* the page mishandles.                                                    *)
(***************************************************************************)

\* What is true of one voice, the latest or an earlier one, while the interview
\* is paused or not and finished or not.  A session being opened belongs to an
\* interview that is neither muted nor ended, so that it takes over unmuted and
\* is told of once; one that waits out its backoff may have been stopped since.
VoiceOK(v, latest, p, done) ==
  /\ Alive(v) =>
       /\ latest /\ ~done
       /\ v.opening = "none" /\ ~v.renewing /\ ~v.stopped /\ v.told = 0
       /\ v.muted = p /\ v.mutedSocket = p
  /\ v.opening # "none" => v.told = 0 /\ ~v.muted
  /\ v.opening # "none" /\ ~v.stopped => latest /\ ~done
  /\ Connecting(v) => ~v.stopped /\ (v.renewing \/ ~v.opened)
  /\ v.opening = "backoff" => v.renewing
  /\ v.renewing => v.opening # "none" /\ (v.stopped \/ ~p)
  /\ v.told <= 1

PageInv ==
  /\ PageTypeOK
  /\ \A i \in Voices : i > live => voices[i] = NewVoice
  /\ \A i \in Voices : VoiceOK(voices[i], i = live, paused, finish = "done")
  /\ live = 0 => ~paused /\ finish = "no"



-----------------------------------------------------------------------------
(* The callbacks of a voice keep its shape.                                 *)

LEMMA NewVoiceType == NewVoice \in Voice
BY DEF NewVoice, Voice

LEMMA OverType ==
  ASSUME NEW v \in Voice PROVE Over(v) \in Voice
<1>1. v.told \in Nat /\ v.told + 1 \in Nat
  BY DEF Voice
<1> QED BY <1>1 DEF Over, Voice

LEMMA RenewingType ==
  ASSUME NEW v \in Voice, NEW r PROVE Renewing(v, r) \in Voice
<1>1. v.renewals \in Nat /\ v.renewals + 1 \in Nat
  BY DEF Voice
<1> QED BY <1>1 DEF Renewing, Voice

LEMMA EndedType ==
  ASSUME NEW v \in Voice, NEW r PROVE Ended(v, r) \in Voice
<1> DEFINE c == [v EXCEPT !.quotaHits = IF r = "quota" THEN @ + 1 ELSE 0,
                          !.rejections = IF r = "audio" THEN @ + 1 ELSE 0]
           m == [c EXCEPT !.told = @ + 1]
<1>0. v.quotaHits + 1 \in Nat /\ v.rejections + 1 \in Nat
  BY DEF Voice
<1>1. c \in Voice
  BY <1>0 DEF Voice
<1>2. m \in Voice
  <2>1. c.told + 1 \in Nat
    BY <1>1 DEF Voice
  <2> QED BY <1>1, <2>1 DEF Voice
<1>3. Over(c) \in Voice /\ Renewing(c, r) \in Voice
  BY <1>1, OverType, RenewingType
<1>4. Ended(v, r) \in {v, Over(c), Renewing(c, r), m}
  BY DEF Ended
<1> QED BY <1>2, <1>3, <1>4

LEMMA ClosedType ==
  ASSUME NEW v \in Voice, NEW r PROVE Closed(v, r) \in Voice
<1>1. [v EXCEPT !.socket = "closed"] \in Voice
  BY DEF Voice
<1> QED BY <1>1, EndedType DEF Closed

LEMMA StoppedType ==
  ASSUME NEW v \in Voice PROVE Stopped(v) \in Voice
<1>1. [v EXCEPT !.stopped = TRUE] \in Voice
  BY DEF Voice
<1> QED BY <1>1, ClosedType DEF Stopped

LEMMA MutedType ==
  ASSUME NEW v \in Voice, NEW m \in BOOLEAN PROVE Muted(v, m) \in Voice
BY DEF Muted, Voice

LEMMA RenewalFailedType ==
  ASSUME NEW v \in Voice, NEW t \in BOOLEAN PROVE RenewalFailed(v, t) \in Voice
<1>1. [v EXCEPT !.opening = "backoff", !.retries = @ + 1] \in Voice
  <2>1. v.retries + 1 \in Nat
    BY DEF Voice
  <2> QED BY <2>1 DEF Voice
<1>2. [v EXCEPT !.renewing = FALSE, !.opening = "none"] \in Voice
  BY DEF Voice
<1> QED BY <1>1, <1>2, OverType DEF RenewalFailed

LEMMA ForgottenType ==
  ASSUME NEW v \in Voice PROVE Forgotten(v) \in Voice
BY DEF Forgotten, Voice

LEMMA AttachedType ==
  ASSUME NEW v \in Voice PROVE Attached(v) \in Voice
BY DEF Attached, Voice

LEMMA SilenceNoticedType ==
  ASSUME NEW v \in Voice PROVE SilenceNoticed(v) \in Voice
<1>1. [v EXCEPT !.recovered = TRUE] \in Voice
  BY DEF Voice
<1> QED BY <1>1, ClosedType, OverType DEF SilenceNoticed


-----------------------------------------------------------------------------
(* What they do to it.                                                      *)

\* A session that ended is replaced or told of, and is not both.
LEMMA EndedEffect ==
  ASSUME NEW v \in Voice, NEW r,
         ~v.renewing, v.opening = "none", v.told = 0
  PROVE  /\ Ended(v, r).socket = v.socket
         /\ Ended(v, r).muted = v.muted
         /\ Ended(v, r).opened = v.opened
         /\ v.stopped => Ended(v, r).stopped
         /\ \/ /\ Ended(v, r).renewing
               /\ Ended(v, r).opening \in {"backoff", "minting"}
               /\ ~Ended(v, r).stopped /\ ~v.muted /\ Ended(v, r).told = 0
            \/ ~Ended(v, r).renewing /\ Ended(v, r).opening = "none" /\ Ended(v, r).told = 1
<1> DEFINE c == [v EXCEPT !.quotaHits = IF r = "quota" THEN @ + 1 ELSE 0,
                          !.rejections = IF r = "audio" THEN @ + 1 ELSE 0]
           m == [c EXCEPT !.told = @ + 1]
<1>1. /\ c.socket = v.socket /\ c.muted = v.muted /\ c.opened = v.opened
      /\ c.stopped = v.stopped /\ c.told = 0 /\ ~c.renewing /\ c.opening = "none"
  BY DEF Voice
<1>2. c \in Voice
  <2>1. v.quotaHits + 1 \in Nat /\ v.rejections + 1 \in Nat
    BY DEF Voice
  <2> QED BY <2>1 DEF Voice
<1> HIDE DEF c
<1>3. /\ m.socket = c.socket /\ m.muted = c.muted /\ m.opened = c.opened
      /\ m.stopped = c.stopped /\ m.renewing = c.renewing /\ m.opening = c.opening /\ m.told = 1
  BY <1>1, <1>2 DEF Voice
<1>4. /\ Over(c).socket = c.socket /\ Over(c).muted = c.muted /\ Over(c).opened = c.opened
      /\ Over(c).stopped /\ Over(c).renewing = c.renewing /\ Over(c).opening = c.opening
      /\ Over(c).told = 1
  BY <1>1, <1>2 DEF Voice, Over
<1>5. /\ Renewing(c, r).socket = c.socket /\ Renewing(c, r).muted = c.muted
      /\ Renewing(c, r).opened = c.opened /\ Renewing(c, r).stopped = c.stopped
      /\ Renewing(c, r).renewing /\ Renewing(c, r).told = 0
      /\ Renewing(c, r).opening \in {"backoff", "minting"}
  BY <1>1, <1>2 DEF Voice, Renewing
<1>6. \/ Ended(v, r) = Over(c)
      \/ Ended(v, r) = Renewing(c, r) /\ MayRenew(v, r)
      \/ Ended(v, r) = m
  BY DEF Ended, c
<1>7. CASE Ended(v, r) = Over(c)
  BY <1>7, <1>1, <1>4
<1>8. CASE Ended(v, r) = Renewing(c, r) /\ MayRenew(v, r)
  BY <1>8, <1>1, <1>5 DEF MayRenew
<1>9. CASE Ended(v, r) = m
  BY <1>9, <1>1, <1>3
<1> QED BY <1>6, <1>7, <1>8, <1>9

\* Closing a session leaves none; the next is opened only if it was not muted.
LEMMA ClosedOK ==
  ASSUME NEW v \in Voice, NEW r, NEW latest \in BOOLEAN, NEW p \in BOOLEAN,
         NEW done \in BOOLEAN, VoiceOK(v, latest, p, done)
  PROVE  VoiceOK(Closed(v, r), latest, p, done) /\ ~Alive(Closed(v, r))
<1>1. CASE ~Alive(v)
  BY <1>1 DEF Closed
<1>2. CASE Alive(v)
  <2> DEFINE u == [v EXCEPT !.socket = "closed"]
             w == Ended(u, r)
  <2>1. /\ u \in Voice /\ u.socket = "closed" /\ u.opening = "none" /\ ~u.renewing
        /\ u.told = 0 /\ u.muted = p /\ ~u.stopped
    BY <1>2 DEF VoiceOK, Voice
  <2>2. latest /\ ~done
    BY <1>2 DEF VoiceOK
  <2>3. Closed(v, r) = w
    BY <1>2 DEF Closed
  <2> HIDE DEF u
  <2>4. w.socket = "closed" /\ w.muted = p
    BY <2>1, EndedEffect
  <2>5. \/ /\ w.renewing /\ w.opening \in {"backoff", "minting"}
           /\ ~w.stopped /\ ~p /\ w.told = 0
        \/ ~w.renewing /\ w.opening = "none" /\ w.told = 1
    BY <2>1, EndedEffect
  <2> HIDE DEF w
  <2> QED BY <2>2, <2>3, <2>4, <2>5 DEF VoiceOK, Alive, Connecting
<1> QED BY <1>1, <1>2

\* An interview that is stopped while nothing is minted or connecting for it
\* has no session any more and gets none.
LEMMA StoppedOK ==
  ASSUME NEW v \in Voice, NEW latest \in BOOLEAN, NEW p \in BOOLEAN, NEW done \in BOOLEAN,
         VoiceOK(v, latest, p, done), ~Connecting(v),
         NEW latest2 \in BOOLEAN, NEW p2 \in BOOLEAN, NEW done2 \in BOOLEAN
  PROVE  VoiceOK(Stopped(v), latest2, p2, done2) /\ ~Alive(Stopped(v)) /\ Stopped(v).stopped
<1> DEFINE u == [v EXCEPT !.stopped = TRUE]
           s == [u EXCEPT !.socket = "closed"]
           w == Ended(s, "stopped")
<1>1. /\ u \in Voice /\ u.socket = v.socket /\ u.opening = v.opening
      /\ u.renewing = v.renewing /\ u.told = v.told /\ u.muted = v.muted /\ u.stopped
  BY DEF Voice
<1>2. CASE ~Alive(v)
  <2>1. Stopped(v) = u
    BY <1>1, <1>2 DEF Stopped, Closed, Alive
  <2> HIDE DEF u
  <2> QED BY <1>1, <1>2, <2>1 DEF VoiceOK, Alive, Connecting
<1>3. CASE Alive(v)
  <2>1. v.opening = "none" /\ ~v.renewing /\ v.told = 0
    BY <1>3 DEF VoiceOK
  <2>2. Stopped(v) = w
    BY <1>1, <1>3 DEF Stopped, Closed, Alive
  <2> HIDE DEF u
  <2>3. /\ s \in Voice /\ s.socket = "closed" /\ s.opening = "none" /\ ~s.renewing
        /\ s.told = 0 /\ s.stopped
    BY <1>1, <2>1 DEF Voice
  <2> HIDE DEF s
  <2>4. w.socket = "closed" /\ w.stopped
    BY <2>3, EndedEffect
  <2>5. ~w.renewing /\ w.opening = "none" /\ w.told = 1
    BY <2>3, <2>4, EndedEffect
  <2> HIDE DEF w
  <2> QED BY <2>2, <2>4, <2>5 DEF VoiceOK, Alive, Connecting
<1> QED BY <1>2, <1>3

\* What is forgotten of it matters to nobody.
LEMMA ForgottenOK ==
  ASSUME NEW v \in Voice, NEW latest \in BOOLEAN, NEW p \in BOOLEAN, NEW done \in BOOLEAN,
         VoiceOK(v, latest, p, done)
  PROVE  VoiceOK(Forgotten(v), latest, p, done)
<1> DEFINE w == Forgotten(v)
<1>1. /\ w.socket = v.socket /\ w.opening = v.opening /\ w.renewing = v.renewing
      /\ w.told = v.told /\ w.muted = v.muted /\ w.mutedSocket = v.mutedSocket
      /\ w.stopped = v.stopped /\ w.opened = v.opened
  BY DEF Forgotten, Voice
<1> HIDE DEF w
<1>2. VoiceOK(w, latest, p, done)
  BY <1>1 DEF VoiceOK, Alive, Connecting
<1> QED BY <1>2 DEF w


LEMMA MutedEffect ==
  ASSUME NEW v \in Voice, NEW x \in BOOLEAN
  PROVE  LET w == Muted(v, x)
         IN  /\ w.socket = v.socket /\ w.opening = v.opening
             /\ w.renewing = v.renewing /\ w.told = v.told /\ w.stopped = v.stopped
             /\ w.muted = x /\ w.mutedSocket = x
BY DEF Muted, Voice

LEMMA AttachedEffect ==
  ASSUME NEW v \in Voice
  PROVE  LET w == Attached(v)
         IN  /\ w.socket = "open" /\ w.opening = "none" /\ w.renewing = FALSE
             /\ w.told = v.told /\ w.stopped = v.stopped /\ w.muted = v.muted
             /\ w.mutedSocket = FALSE /\ w.opened = v.opened
BY DEF Attached, Voice

-----------------------------------------------------------------------------
(* One voice changes.                                                       *)

LEMMA OneBecomes ==
  ASSUME PageInv, NEW i \in Voices, NEW w \in Voice, Becomes(i, w),
         i <= live, VoiceOK(w, i = live, paused, finish = "done")
  PROVE  PageInv'
<1>1. /\ voices' = [voices EXCEPT ![i] = w]
      /\ live' = live /\ paused' = paused /\ finish' = finish
  BY DEF Becomes, page
<1>2. voices \in [Voices -> Voice] /\ PageTypeOK
  BY DEF PageInv, PageTypeOK
<1>3. PageTypeOK'
  BY <1>1, <1>2 DEF PageTypeOK
<1>4. \A j \in Voices : j > live' => voices'[j] = NewVoice
  BY <1>1, <1>2, BoundAssumption DEF PageInv, PageTypeOK, Voices
<1>5. \A j \in Voices : VoiceOK(voices'[j], j = live', paused', finish' = "done")
  BY <1>1, <1>2 DEF PageInv
<1>6. live' = 0 => ~paused' /\ finish' = "no"
  BY <1>1 DEF PageInv
<1> QED BY <1>3, <1>4, <1>5, <1>6 DEF PageInv

\* A voice that was never started is left alone.
LEMMA StartedVoice ==
  ASSUME PageInv, NEW i \in Voices, voices[i] # NewVoice
  PROVE  i <= live
BY BoundAssumption DEF PageInv, PageTypeOK, Voices

LEMMA ThisVoice ==
  ASSUME PageInv, NEW i \in Voices
  PROVE  /\ voices[i] \in Voice
         /\ VoiceOK(voices[i], i = live, paused, finish = "done")
BY DEF PageInv, PageTypeOK

LEMMA BackoffEndsKeeps ==
  ASSUME PageInv, NEW i \in Voices, BackoffEnds(i)
  PROVE  PageInv'
<1> DEFINE v == voices[i]
           a == [v EXCEPT !.opening = "none", !.renewing = FALSE]
           b == [v EXCEPT !.opening = "minting"]
<1>1. v \in Voice /\ VoiceOK(v, i = live, paused, finish = "done") /\ v.opening = "backoff"
  BY ThisVoice DEF BackoffEnds
<1>2. i <= live
  BY <1>1, StartedVoice DEF NewVoice
<1>3. /\ a \in Voice /\ a.opening = "none" /\ ~a.renewing /\ a.socket = v.socket
      /\ a.told = v.told /\ a.stopped = v.stopped
  BY <1>1 DEF Voice
<1>4. /\ b \in Voice /\ b.opening = "minting" /\ b.renewing = v.renewing /\ b.socket = v.socket
      /\ b.told = v.told /\ b.stopped = v.stopped /\ b.muted = v.muted
  BY <1>1 DEF Voice
<1>5. Becomes(i, IF v.stopped \/ v.muted THEN a ELSE b)
  BY DEF BackoffEnds
<1> HIDE DEF v, a, b
<1>6. ~Alive(v)
  BY <1>1 DEF VoiceOK
<1>7. CASE v.stopped \/ v.muted
  <2>1. VoiceOK(a, i = live, paused, finish = "done")
    BY <1>1, <1>3, <1>6 DEF VoiceOK, Alive, Connecting
  <2> QED BY <1>2, <1>3, <1>5, <1>7, <2>1, OneBecomes
<1>8. CASE ~(v.stopped \/ v.muted)
  <2>1. VoiceOK(b, i = live, paused, finish = "done")
    BY <1>1, <1>4, <1>6, <1>8 DEF VoiceOK, Alive, Connecting
  <2> QED BY <1>2, <1>4, <1>5, <1>8, <2>1, OneBecomes
<1> QED BY <1>7, <1>8

LEMMA MintedKeeps ==
  ASSUME PageInv, NEW i \in Voices, Minted(i)
  PROVE  PageInv'
<1> DEFINE v == voices[i]
           w == [v EXCEPT !.opening = "connecting"]
<1>1. v \in Voice /\ VoiceOK(v, i = live, paused, finish = "done") /\ v.opening = "minting"
  BY ThisVoice DEF Minted
<1>2. i <= live
  BY <1>1, StartedVoice DEF NewVoice
<1>3. /\ w \in Voice /\ w.opening = "connecting" /\ w.renewing = v.renewing
      /\ w.socket = v.socket /\ w.told = v.told /\ w.stopped = v.stopped
      /\ w.muted = v.muted /\ w.opened = v.opened
  BY <1>1 DEF Voice
<1>4. Becomes(i, w)
  BY DEF Minted
<1> HIDE DEF v, w
<1>5. VoiceOK(w, i = live, paused, finish = "done")
  BY <1>1, <1>3 DEF VoiceOK, Alive, Connecting
<1> QED BY <1>2, <1>3, <1>4, <1>5, OneBecomes

\* A session that fails to open was asked for by the latest interview, which is
\* neither muted nor stopped.
LEMMA OpenFailsKeeps ==
  ASSUME PageInv, NEW i \in Voices, NEW t \in BOOLEAN, OpenFails(i, t)
  PROVE  PageInv'
<1> DEFINE v == voices[i]
           n == [v EXCEPT !.opening = "none"]
<1>1. v \in Voice /\ VoiceOK(v, i = live, paused, finish = "done") /\ Connecting(v)
  BY ThisVoice DEF OpenFails
<1>2. i <= live
  BY <1>1, StartedVoice DEF NewVoice, Connecting
<1>3. ~Alive(v) /\ v.told = 0 /\ ~v.muted /\ ~v.stopped /\ i = live /\ finish # "done"
  BY <1>1 DEF VoiceOK, Connecting
<1>4. CASE v.renewing
  <2> DEFINE a == [v EXCEPT !.opening = "backoff", !.retries = @ + 1]
             b == [v EXCEPT !.renewing = FALSE, !.opening = "none"]
  <2>1. Ended(v, "failed") = v
    BY <1>4 DEF Ended
  <2>2. Becomes(i, RenewalFailed(v, t))
    BY <1>4, <2>1 DEF OpenFails
  <2>3. RenewalFailed(v, t) \in Voice
    BY <1>1, RenewalFailedType
  <2>4. /\ a.opening = "backoff" /\ a.renewing /\ a.socket = v.socket /\ a.told = 0
        /\ ~a.stopped /\ ~a.muted
    BY <1>1, <1>3, <1>4 DEF Voice
  <2>5. /\ b \in Voice /\ b.opening = "none" /\ ~b.renewing /\ b.socket = v.socket /\ b.told = 0
    BY <1>1, <1>3 DEF Voice
  <2>6. /\ Over(b).opening = b.opening /\ Over(b).renewing = b.renewing
        /\ Over(b).socket = b.socket /\ Over(b).told = 1
    BY <2>5 DEF Over, Voice
  <2>7. RenewalFailed(v, t) = a \/ RenewalFailed(v, t) = Over(b)
    BY DEF RenewalFailed
  <2> HIDE DEF v, a, b
  <2>8. VoiceOK(a, i = live, paused, finish = "done")
    BY <1>1, <1>3, <1>4, <2>4 DEF VoiceOK, Alive, Connecting
  <2>9. VoiceOK(Over(b), i = live, paused, finish = "done")
    BY <1>3, <2>5, <2>6 DEF VoiceOK, Alive, Connecting
  <2> QED BY <1>2, <2>2, <2>3, <2>7, <2>8, <2>9, OneBecomes
<1>5. CASE ~v.renewing
  <2> DEFINE w == Ended(n, "failed")
  <2>1. Becomes(i, w)
    BY <1>5 DEF OpenFails
  <2>2. /\ n \in Voice /\ n.opening = "none" /\ ~n.renewing /\ n.socket = v.socket
        /\ n.told = 0 /\ ~n.muted
    BY <1>1, <1>3, <1>5 DEF Voice
  <2> HIDE DEF v, n
  <2>3. w \in Voice
    BY <2>2, EndedType
  <2>4. /\ w.socket = v.socket
        /\ ~Renewable("failed")
    BY <2>2, EndedEffect DEF Renewable, Drops
  <2>5. ~w.renewing /\ w.opening = "none" /\ w.told = 1
    <3>1. ~MayRenew(n, "failed")
      BY <2>4 DEF MayRenew
    <3>2. w.renewing => w.told = 0
      BY <2>2, EndedEffect
    <3>3. w.told = 1
      <4> DEFINE c == [n EXCEPT !.quotaHits = IF "failed" = "quota" THEN @ + 1 ELSE 0,
                                !.rejections = IF "failed" = "audio" THEN @ + 1 ELSE 0]
      <4>1. c.told = 0 /\ Over(c).told = 1
        BY <2>2 DEF Voice, Over
      <4>2. [c EXCEPT !.told = @ + 1].told = 1
        BY <2>2 DEF Voice
      <4> QED BY <2>2, <3>1, <4>1, <4>2 DEF Ended
    <3> QED BY <2>2, <3>2, <3>3, EndedEffect
  <2> HIDE DEF w
  <2>6. VoiceOK(w, i = live, paused, finish = "done")
    BY <1>3, <2>4, <2>5 DEF VoiceOK, Alive, Connecting
  <2> QED BY <1>2, <2>1, <2>3, <2>6, OneBecomes
<1> QED BY <1>4, <1>5


LEMMA DropKeeps ==
  ASSUME PageInv, NEW i \in Voices, NEW r, Drop(i, r)
  PROVE  PageInv'
<1>1. Closed(voices[i], r) \in Voice
  BY ThisVoice, ClosedType
<1>2. VoiceOK(Closed(voices[i], r), i = live, paused, finish = "done")
  <2>1. paused \in BOOLEAN
    BY DEF PageInv, PageTypeOK
  <2> QED BY <2>1, ThisVoice, ClosedOK
<1>3. i <= live
  BY StartedVoice DEF Drop, Alive, NewVoice
<1> QED BY <1>1, <1>2, <1>3, OneBecomes DEF Drop

\* A change of fields the invariant does not speak of.
LooksLike(w, v) ==
  /\ w.socket = v.socket /\ w.opening = v.opening /\ w.renewing = v.renewing
  /\ w.told = v.told /\ w.muted = v.muted /\ w.mutedSocket = v.mutedSocket
  /\ w.stopped = v.stopped /\ w.opened = v.opened

LEMMA Unseen ==
  ASSUME NEW v, NEW w, NEW latest, NEW p, NEW done,
         VoiceOK(v, latest, p, done), LooksLike(w, v)
  PROVE  VoiceOK(w, latest, p, done)
BY DEF LooksLike, VoiceOK, Alive, Connecting

LEMMA GoAwayKeeps ==
  ASSUME PageInv, NEW i \in Voices, GoAway(i)
  PROVE  PageInv'
<1> DEFINE w == [voices[i] EXCEPT !.goAway = TRUE]
<1>1. voices[i] \in Voice
  BY ThisVoice
<1>2. w \in Voice /\ LooksLike(w, voices[i])
  BY <1>1 DEF Voice, LooksLike
<1>4. Becomes(i, w)
  BY DEF GoAway
<1> HIDE DEF w
<1>5. VoiceOK(w, i = live, paused, finish = "done")
  BY <1>2, ThisVoice, Unseen
<1>3. i <= live
  BY StartedVoice DEF GoAway, Alive, NewVoice
<1> QED BY <1>2, <1>3, <1>4, <1>5, OneBecomes

LEMMA HandOverKeeps ==
  ASSUME PageInv, NEW i \in Voices, HandOver(i)
  PROVE  PageInv'
<1> DEFINE u == [voices[i] EXCEPT !.goAway = FALSE]
<1>1. voices[i] \in Voice /\ paused \in BOOLEAN
  BY ThisVoice DEF PageInv, PageTypeOK
<1>2. u \in Voice /\ LooksLike(u, voices[i])
  BY <1>1 DEF Voice, LooksLike
<1>3. i <= live
  BY StartedVoice DEF HandOver, Alive, NewVoice
<1>4. Becomes(i, Closed(u, "goaway"))
  BY DEF HandOver
<1> HIDE DEF u
<1>7. VoiceOK(u, i = live, paused, finish = "done")
  BY <1>2, ThisVoice, Unseen
<1>5. Closed(u, "goaway") \in Voice
  BY <1>2, ClosedType
<1>6. VoiceOK(Closed(u, "goaway"), i = live, paused, finish = "done")
  BY <1>1, <1>2, <1>7, ClosedOK
<1> QED BY <1>3, <1>4, <1>5, <1>6, OneBecomes

LEMMA HearsKeeps ==
  ASSUME PageInv, NEW i \in Voices, Hears(i)
  PROVE  PageInv'
<1> DEFINE w == [voices[i] EXCEPT !.heard = TRUE]
<1>1. voices[i] \in Voice
  BY ThisVoice
<1>2. w \in Voice /\ LooksLike(w, voices[i])
  BY <1>1 DEF Voice, LooksLike
<1>4. Becomes(i, w)
  BY DEF Hears
<1> HIDE DEF w
<1>5. VoiceOK(w, i = live, paused, finish = "done")
  BY <1>2, ThisVoice, Unseen
<1>3. i <= live
  BY StartedVoice DEF Hears, Alive, NewVoice
<1> QED BY <1>2, <1>3, <1>4, <1>5, OneBecomes

LEMMA CeilingKeeps ==
  ASSUME PageInv, Ceiling
  PROVE  PageInv'
<1> DEFINE w == [voices[live] EXCEPT !.late = TRUE]
<1>1. live \in Voices /\ live <= live
  BY BoundAssumption DEF PageInv, PageTypeOK, Ceiling, Voices
<1>2. voices[live] \in Voice
  BY <1>1, ThisVoice
<1>3. w \in Voice /\ LooksLike(w, voices[live])
  BY <1>2 DEF Voice, LooksLike
<1>4. Becomes(live, w)
  BY DEF Ceiling
<1> HIDE DEF w
<1>5. VoiceOK(w, live = live, paused, finish = "done")
  BY <1>1, <1>3, ThisVoice, Unseen
<1> QED BY <1>1, <1>3, <1>4, <1>5, OneBecomes

\* The second of two silent sessions is not given up while it is still open.
LEMMA SilenceKeeps ==
  ASSUME PageInv, NEW i \in Voices, Silence(i), "silent" \notin Faults
  PROVE  PageInv'
<1> DEFINE v == voices[i]
           u == [v EXCEPT !.watched = FALSE]
           c == [u EXCEPT !.recovered = TRUE]
           w == SilenceNoticed(u)
<1>1. v \in Voice /\ VoiceOK(v, i = live, paused, finish = "done") /\ paused \in BOOLEAN
  BY ThisVoice DEF PageInv, PageTypeOK
<1>2. i <= live
  BY StartedVoice DEF Silence, NewVoice
<1>3. Becomes(i, w) /\ (~v.recovered \/ v.heard)
  BY DEF Silence
<1>4. u \in Voice /\ LooksLike(u, v) /\ u.recovered = v.recovered /\ u.heard = v.heard
  BY <1>1 DEF Voice, LooksLike
<1> HIDE DEF v, u
<1>5. c \in Voice /\ LooksLike(c, u)
  BY <1>4 DEF Voice, LooksLike
<1>10. VoiceOK(u, i = live, paused, finish = "done")
  BY <1>1, <1>4, Unseen
<1>6. w = u \/ w = Closed(c, "renew_silent_retry")
  BY <1>3, <1>4 DEF SilenceNoticed
<1> HIDE DEF c
<1>11. VoiceOK(c, i = live, paused, finish = "done")
  BY <1>5, <1>10, Unseen
<1>7. VoiceOK(Closed(c, "renew_silent_retry"), i = live, paused, finish = "done")
  BY <1>1, <1>5, <1>11, ClosedOK
<1>8. w \in Voice
  BY <1>4, SilenceNoticedType
<1> HIDE DEF w
<1>9. VoiceOK(w, i = live, paused, finish = "done")
  BY <1>6, <1>7, <1>10
<1> QED BY <1>2, <1>3, <1>8, <1>9, OneBecomes

-----------------------------------------------------------------------------
(* The page acts.                                                           *)

\* A new interview takes over from one that is stopped.
LEMMA StartedOK ==
  ASSUME PageInv, live < MaxVoices, finish # "done", live > 0 => ~Connecting(voices[live])
  PROVE  LET vs == Started(voices)
         IN  /\ vs \in [Voices -> Voice]
             /\ \A j \in Voices : j > live + 1 => vs[j] = NewVoice
             /\ \A j \in Voices : VoiceOK(vs[j], j = live + 1, FALSE, FALSE)
<1> DEFINE vs == Started(voices)
           n == [NewVoice EXCEPT !.opening = "minting"]
           o == Forgotten(Stopped(voices[live]))
<1>1. live \in 0 .. MaxVoices /\ paused \in BOOLEAN /\ voices \in [Voices -> Voice]
  BY DEF PageInv, PageTypeOK
<1>2. n \in Voice /\ VoiceOK(n, TRUE, FALSE, FALSE)
  <2>1. /\ n \in Voice /\ n.opening = "minting" /\ ~n.renewing /\ n.socket = "none"
        /\ ~n.stopped /\ ~n.muted /\ ~n.opened /\ n.told = 0
    BY DEF NewVoice, Voice
  <2> HIDE DEF n
  <2> QED BY <2>1 DEF VoiceOK, Alive, Connecting
<1>3. live \in Voices => o \in Voice /\ VoiceOK(o, FALSE, FALSE, FALSE)
  <2> SUFFICES ASSUME live \in Voices PROVE o \in Voice /\ VoiceOK(o, FALSE, FALSE, FALSE)
    OBVIOUS
  <2>1. voices[live] \in Voice /\ VoiceOK(voices[live], live = live, paused, finish = "done")
    BY ThisVoice
  <2>2. ~Connecting(voices[live])
    BY BoundAssumption DEF Voices
  <2>3. Stopped(voices[live]) \in Voice /\ VoiceOK(Stopped(voices[live]), FALSE, FALSE, FALSE)
    BY <1>1, <2>1, <2>2, StoppedType, StoppedOK
  <2> QED BY <2>3, ForgottenType, ForgottenOK
<1>4. \A j \in Voices : vs[j] = IF j = live + 1 THEN n ELSE IF j = live THEN o ELSE voices[j]
  BY DEF Started
<1> HIDE DEF n, o
<1>5. vs \in [Voices -> Voice]
  <2>1. vs = [j \in Voices |-> IF j = live + 1 THEN n ELSE IF j = live THEN o ELSE voices[j]]
    BY DEF Started, n, o
  <2> QED BY <1>1, <1>2, <1>3, <2>1
<1> HIDE DEF vs
<1>6. ASSUME NEW j \in Voices, j > live + 1 PROVE vs[j] = NewVoice
  <2>1. j # live + 1 /\ j # live /\ j > live
    BY <1>1, <1>6, BoundAssumption DEF Voices
  <2> QED BY <1>4, <2>1 DEF PageInv
<1>7. ASSUME NEW j \in Voices PROVE VoiceOK(vs[j], j = live + 1, FALSE, FALSE)
  <2>1. CASE j = live + 1
    BY <1>2, <1>4, <2>1
  <2>2. CASE j = live
    <3>1. j # live + 1
      BY <1>1, <2>2
    <3> QED BY <1>3, <1>4, <2>2, <3>1
  <2>3. CASE j # live /\ j # live + 1
    <3>1. VoiceOK(voices[j], FALSE, paused, FALSE)
      BY <2>3, ThisVoice
    <3>2. VoiceOK(voices[j], FALSE, FALSE, FALSE)
      BY <3>1 DEF VoiceOK
    <3> QED BY <1>4, <2>3, <3>2
  <2> QED BY <2>1, <2>2, <2>3
<1> QED BY <1>5, <1>6, <1>7 DEF vs

LEMMA TakeOver ==
  ASSUME PageInv, live < MaxVoices, finish # "done", live > 0 => ~Connecting(voices[live]),
         voices' = Started(voices), live' = live + 1, paused' = FALSE, finish' = finish
  PROVE  PageInv'
<1>1. live' \in 0 .. MaxVoices /\ live' > 0
  BY BoundAssumption DEF PageInv, PageTypeOK
<1>2. PageTypeOK'
  BY <1>1, StartedOK DEF PageInv, PageTypeOK
<1>3. \A j \in Voices : j > live' => voices'[j] = NewVoice
  BY StartedOK
<1>4. ASSUME NEW j \in Voices
      PROVE  VoiceOK(voices'[j], j = live', paused', finish' = "done")
  <2>1. VoiceOK(voices'[j], j = live + 1, FALSE, FALSE)
    BY StartedOK
  <2> QED BY <2>1 DEF VoiceOK
<1> QED BY <1>1, <1>2, <1>3, <1>4 DEF PageInv

LEMMA BeginKeeps ==
  ASSUME PageInv, Begin
  PROVE  PageInv'
<1>1. live < MaxVoices /\ voices' = Started(voices) /\ live' = live + 1 /\ live = 0
  BY DEF Begin
<1>2. finish # "done" /\ paused' = FALSE /\ finish' = finish
  BY <1>1 DEF Begin, PageInv
<1>3. live > 0 => ~Connecting(voices[live])
  BY <1>1
<1> QED BY <1>1, <1>2, <1>3, TakeOver

LEMMA PauseKeeps ==
  ASSUME PageInv, Pause, "pause" \notin Faults
  PROVE  PageInv'
<1> DEFINE v == voices[live]
           w == Muted(v, TRUE)
<1>1. live \in Voices /\ v \in Voice /\ VoiceOK(v, TRUE, FALSE, FALSE)
  <2>1. live \in Voices
    BY BoundAssumption DEF PageInv, PageTypeOK, Pause, Voices
  <2>2. ~paused /\ finish # "done"
    BY DEF Pause
  <2>3. VoiceOK(v, live = live, paused, finish = "done")
    BY <2>1, ThisVoice
  <2> QED BY <2>1, <2>2, <2>3, ThisVoice DEF VoiceOK
<1>2. ~v.renewing /\ paused' = TRUE /\ live' = live /\ finish' = finish /\ live > 0
      /\ finish # "done"
  BY DEF Pause
<1>3. voices' = [voices EXCEPT ![live] = IF Alive(v) THEN w ELSE v]
  BY DEF Pause, PageInv, PageTypeOK
<1>4. /\ w \in Voice /\ w.socket = v.socket /\ w.opening = v.opening
      /\ w.renewing = v.renewing /\ w.told = v.told /\ w.stopped = v.stopped
      /\ w.muted = TRUE /\ w.mutedSocket = TRUE
  BY <1>1, MutedType, MutedEffect
<1> DEFINE x == IF Alive(v) THEN w ELSE v
<1>5. VoiceOK(x, TRUE, TRUE, FALSE) /\ x \in Voice
  <2> HIDE DEF v, w
  <2>1. CASE Alive(v)
    BY <1>1, <1>2, <1>4, <2>1 DEF VoiceOK, Alive, Connecting
  <2>2. CASE ~Alive(v)
    BY <1>1, <1>2, <2>2 DEF VoiceOK
  <2> QED BY <2>1, <2>2
<1>6. voices' = [voices EXCEPT ![live] = x]
  BY <1>3
<1> HIDE DEF x, v, w
<1>7. PageTypeOK'
  BY <1>2, <1>5, <1>6 DEF PageInv, PageTypeOK
<1>8. \A j \in Voices : j > live' => voices'[j] = NewVoice
  BY <1>1, <1>2, <1>6, BoundAssumption DEF PageInv, PageTypeOK, Voices
<1>9. ASSUME NEW j \in Voices
      PROVE  VoiceOK(voices'[j], j = live', paused', finish' = "done")
  <2>1. CASE j = live
    <3>1. voices'[j] = x
      BY <1>1, <1>6, <2>1 DEF PageInv, PageTypeOK
    <3> QED BY <1>2, <1>5, <2>1, <3>1 DEF VoiceOK
  <2>2. CASE j # live
    <3>1. voices'[j] = voices[j]
      BY <1>6, <2>2 DEF PageInv, PageTypeOK
    <3>2. VoiceOK(voices[j], FALSE, paused, FALSE)
      BY <1>2, <2>2, ThisVoice DEF VoiceOK
    <3> QED BY <1>2, <2>2, <3>1, <3>2 DEF VoiceOK
  <2> QED BY <2>1, <2>2
<1>10. live' # 0
  BY <1>2
<1> QED BY <1>7, <1>8, <1>9, <1>10 DEF PageInv

LEMMA ResumeKeeps ==
  ASSUME PageInv, Resume, "restart" \notin Faults
  PROVE  PageInv'
<1> DEFINE v == voices[live]
           w == Muted(v, FALSE)
<1>1. live \in Voices /\ v \in Voice /\ VoiceOK(v, TRUE, TRUE, FALSE)
  <2>1. live \in Voices
    BY BoundAssumption DEF PageInv, PageTypeOK, Resume, Voices
  <2>2. paused /\ finish # "done"
    BY DEF Resume
  <2>3. VoiceOK(v, live = live, paused, finish = "done")
    BY <2>1, ThisVoice
  <2> QED BY <2>1, <2>2, <2>3, ThisVoice DEF VoiceOK
<1>2. ~Connecting(v) /\ finish # "done" /\ paused' = FALSE /\ finish' = finish /\ live > 0
  BY DEF Resume, Unpause
<1>3. CASE ~Alive(v)
  <2>1. live < MaxVoices /\ voices' = Started(voices) /\ live' = live + 1
    BY <1>3 DEF Resume, Unpause
  <2> QED BY <1>2, <2>1, TakeOver
<1>4. CASE Alive(v)
  <2>1. voices' = [voices EXCEPT ![live] = w] /\ live' = live
    BY <1>4 DEF Resume, Unpause
  <2>2. /\ w \in Voice /\ w.socket = v.socket /\ w.opening = v.opening
        /\ w.renewing = v.renewing /\ w.told = v.told /\ w.stopped = v.stopped
        /\ w.muted = FALSE /\ w.mutedSocket = FALSE
    BY <1>1, MutedType, MutedEffect
  <2> HIDE DEF v, w
  <2>3. VoiceOK(w, TRUE, FALSE, FALSE)
    BY <1>1, <1>4, <2>2 DEF VoiceOK, Alive, Connecting
  <2>4. PageTypeOK'
    BY <1>2, <2>1, <2>2 DEF PageInv, PageTypeOK
  <2>5. \A j \in Voices : j > live' => voices'[j] = NewVoice
    BY <1>1, <2>1, BoundAssumption DEF PageInv, PageTypeOK, Voices
  <2>6. ASSUME NEW j \in Voices
        PROVE  VoiceOK(voices'[j], j = live', paused', finish' = "done")
    <3>1. CASE j = live
      <4>1. voices'[j] = w
        BY <1>1, <2>1, <3>1 DEF PageInv, PageTypeOK
      <4> QED BY <1>2, <2>1, <2>3, <3>1, <4>1 DEF VoiceOK
    <3>2. CASE j # live
      <4>1. voices'[j] = voices[j]
        BY <2>1, <3>2 DEF PageInv, PageTypeOK
      <4>2. VoiceOK(voices[j], FALSE, paused, FALSE)
        BY <1>2, <3>2, ThisVoice DEF VoiceOK
      <4> QED BY <1>2, <2>1, <3>2, <4>1, <4>2 DEF VoiceOK
    <3> QED BY <3>1, <3>2
  <2>7. live' # 0
    BY <1>2, <2>1
  <2> QED BY <2>4, <2>5, <2>6, <2>7 DEF PageInv
<1> QED BY <1>3, <1>4

\* Nothing is open or being opened when there is nothing to stop.
LEMMA FinishKeeps ==
  ASSUME PageInv, Finish, "finish" \notin Faults
  PROVE  PageInv'
<1>1. live \in Voices /\ live > 0 /\ live' = live /\ voices' = voices /\ paused' = paused
      /\ finish = "no"
  BY BoundAssumption DEF PageInv, PageTypeOK, Finish, Voices
<1>2. \/ Alive(voices[live]) /\ finish' = "scoring"
      \/ ~Alive(voices[live]) /\ voices[live].opening = "none" /\ finish' = "done"
  BY DEF Finish
<1>3. PageTypeOK'
  BY <1>1, <1>2 DEF PageInv, PageTypeOK
<1>4. \A j \in Voices : j > live' => voices'[j] = NewVoice
  BY <1>1 DEF PageInv
<1>5. ASSUME NEW j \in Voices
      PROVE  VoiceOK(voices'[j], j = live', paused', finish' = "done")
  <2>1. VoiceOK(voices[j], j = live, paused, FALSE)
    BY <1>1, ThisVoice DEF VoiceOK
  <2>2. CASE finish' = "scoring"
    BY <1>1, <2>1, <2>2 DEF VoiceOK
  <2>3. CASE finish' = "done"
    <3>1. CASE j = live
      BY <1>1, <1>2, <2>1, <2>3, <3>1 DEF VoiceOK
    <3>2. CASE j # live
      BY <1>1, <2>1, <2>3, <3>2 DEF VoiceOK
    <3> QED BY <3>1, <3>2
  <2> QED BY <1>2, <2>2, <2>3
<1> QED BY <1>1, <1>3, <1>4, <1>5 DEF PageInv

\* LIVE.stop, with which the page may also be finished.
LEMMA LiveStopsKeeps ==
  ASSUME PageInv, live > 0, ~Connecting(voices[live]),
         voices' = [voices EXCEPT ![live] = Stopped(@)], UNCHANGED <<live, paused>>,
         finish' = finish \/ (finish # "done" /\ finish' = "done")
  PROVE  PageInv'
<1> DEFINE w == Stopped(voices[live])
<1>1. live \in Voices /\ live > 0
  BY BoundAssumption DEF PageInv, PageTypeOK, Voices
<1>2. /\ voices' = [voices EXCEPT ![live] = w] /\ live' = live /\ paused' = paused
      /\ paused \in BOOLEAN
  BY DEF PageInv, PageTypeOK
<1>3. w \in Voice
  BY <1>1, ThisVoice, StoppedType
<1>4. VoiceOK(w, TRUE, paused, finish' = "done")
  BY <1>1, <1>2, ThisVoice, StoppedOK
<1> HIDE DEF w
<1>5. PageTypeOK'
  BY <1>2, <1>3 DEF PageInv, PageTypeOK
<1>6. \A j \in Voices : j > live' => voices'[j] = NewVoice
  BY <1>1, <1>2, BoundAssumption DEF PageInv, PageTypeOK, Voices
<1>7. ASSUME NEW j \in Voices
      PROVE  VoiceOK(voices'[j], j = live', paused', finish' = "done")
  <2>1. CASE j = live
    <3>1. voices'[j] = w
      BY <1>1, <1>2, <2>1 DEF PageInv, PageTypeOK
    <3> QED BY <1>2, <1>4, <2>1, <3>1 DEF VoiceOK
  <2>2. CASE j # live
    <3>1. voices'[j] = voices[j]
      BY <1>2, <2>2 DEF PageInv, PageTypeOK
    <3>2. VoiceOK(voices[j], FALSE, paused, finish = "done")
      BY <2>2, ThisVoice DEF PageInv
    <3> QED BY <1>2, <2>2, <3>1, <3>2 DEF VoiceOK
  <2> QED BY <2>1, <2>2
<1>8. live' # 0
  BY <1>1, <1>2
<1> QED BY <1>5, <1>6, <1>7, <1>8 DEF PageInv

LEMMA FinishStopsKeeps ==
  ASSUME PageInv, FinishStops \/ ClosesEarly, "finish" \notin Faults
  PROVE  PageInv'
<1>1. CASE FinishStops
  <2>1. live > 0
    BY <1>1 DEF PageInv, PageTypeOK, FinishStops, Voices
  <2> QED BY <1>1, <2>1, LiveStopsKeeps DEF FinishStops
<1>2. CASE ClosesEarly
  BY <1>2, LiveStopsKeeps DEF ClosesEarly, page
<1> QED BY <1>1, <1>2

\* A session that takes over is the latest interview's, which is not muted: if
\* the interview was paused meanwhile, its opening unpauses it.
LEMMA SetupCompletesKeeps ==
  ASSUME PageInv, NEW i \in Voices, SetupCompletes(i)
  PROVE  PageInv'
<1> DEFINE v == voices[i]
           a == Attached(v)
           vs == [voices EXCEPT ![i] = a]
           o == [a EXCEPT !.opened = TRUE]
           m == Muted(o, FALSE)
<1>1. /\ v \in Voice /\ VoiceOK(v, i = live, paused, finish = "done")
      /\ v.opening = "connecting" /\ voices \in [Voices -> Voice]
  BY ThisVoice DEF SetupCompletes, PageInv, PageTypeOK
<1>2. /\ i = live /\ finish # "done" /\ ~v.stopped /\ ~v.muted /\ v.told = 0
      /\ v.renewing \/ ~v.opened
      /\ v.renewing => ~paused
  BY <1>1 DEF VoiceOK, Connecting
<1> HIDE DEF v
<1>3. a \in Voice /\ a.opening = "none" /\ a.socket = "open" /\ ~a.mutedSocket
      /\ ~a.renewing /\ a.told = 0 /\ ~a.muted /\ ~a.stopped /\ a.opened = v.opened
  BY <1>1, <1>2, AttachedType, AttachedEffect
<1> HIDE DEF a
<1>4. vs[live] = a /\ vs \in [Voices -> Voice] /\ \A j \in Voices : j # i => vs[j] = voices[j]
  BY <1>1, <1>2, <1>3
<1>5. /\ o \in Voice /\ o.opening = "none" /\ o.socket = "open" /\ ~o.mutedSocket
      /\ ~o.renewing /\ o.told = 0 /\ ~o.muted /\ ~o.stopped
  BY <1>3 DEF Voice
<1> HIDE DEF o
<1>6. /\ m \in Voice /\ m.opening = "none" /\ m.socket = "open" /\ ~m.mutedSocket
      /\ ~m.renewing /\ m.told = 0 /\ ~m.muted /\ ~m.stopped
  BY <1>5, MutedType, MutedEffect
<1> HIDE DEF m
<1>7. ASSUME NEW x \in Voice, x \in {a, o, m},
             voices' = [voices EXCEPT ![i] = x], live' = live, finish' = finish, paused' = FALSE
      PROVE  PageInv'
  <2>1. VoiceOK(x, TRUE, FALSE, FALSE)
    BY <1>3, <1>5, <1>6, <1>7 DEF VoiceOK, Alive, Connecting
  <2>2. PageTypeOK'
    BY <1>7 DEF PageInv, PageTypeOK
  <2>3. \A j \in Voices : j > live' => voices'[j] = NewVoice
    BY <1>2, <1>7, BoundAssumption DEF PageInv, PageTypeOK, Voices
  <2>4. ASSUME NEW j \in Voices
        PROVE  VoiceOK(voices'[j], j = live', paused', finish' = "done")
    <3>1. CASE j = live
      <4>1. voices'[j] = x
        BY <1>1, <1>2, <1>7, <3>1
      <4> QED BY <1>2, <1>7, <2>1, <3>1, <4>1 DEF VoiceOK
    <3>2. CASE j # live
      <4>1. voices'[j] = voices[j]
        BY <1>1, <1>2, <1>7, <3>2
      <4>2. VoiceOK(voices[j], FALSE, paused, FALSE)
        BY <1>2, <3>2, ThisVoice DEF VoiceOK
      <4> QED BY <1>2, <1>7, <3>2, <4>1, <4>2 DEF VoiceOK
    <3> QED BY <3>1, <3>2
  <2>5. live' # 0
    BY <1>2, <1>7, BoundAssumption DEF PageInv, PageTypeOK, Voices
  <2> QED BY <2>2, <2>3, <2>4, <2>5 DEF PageInv
<1> DEFINE os == [vs EXCEPT ![live].opened = @ \/ Alive(vs[live])]
<1>8. os = [voices EXCEPT ![i] = o] /\ Alive(os[live])
  <2>1. Alive(vs[live])
    BY <1>3, <1>4 DEF Alive
  <2>2. os = [vs EXCEPT ![live] = o]
    BY <1>4, <2>1 DEF o
  <2>3. os = [voices EXCEPT ![i] = o] /\ os[live] = o
    BY <1>1, <1>2, <2>2
  <2> HIDE DEF os
  <2> QED BY <1>5, <2>3 DEF Alive
<1>9. CASE voices[live].opened
  <2>1. voices' = [voices EXCEPT ![i] = a] /\ live' = live /\ paused' = paused /\ finish' = finish
    BY <1>9 DEF SetupCompletes, v, a
  <2>2. v.opened
    BY <1>2, <1>9 DEF v
  <2>3. paused' = FALSE
    BY <1>2, <2>1, <2>2 DEF PageInv, PageTypeOK
  <2> QED BY <1>3, <1>7, <2>1, <2>3
<1>10. CASE ~voices[live].opened /\ paused
  <2>1. Unpause(os) /\ finish' = finish
    BY <1>10 DEF SetupCompletes, v, a
  <2> HIDE DEF os
  <2>2. voices' = [os EXCEPT ![live] = Muted(@, FALSE)] /\ live' = live /\ paused' = FALSE
    BY <1>8, <2>1 DEF Unpause
  <2>3. voices' = [voices EXCEPT ![i] = m]
    BY <1>1, <1>2, <1>8, <2>2 DEF m
  <2> QED BY <1>6, <1>7, <2>1, <2>2, <2>3
<1>11. CASE ~voices[live].opened /\ ~paused
  <2>1. voices' = os /\ live' = live /\ paused' = paused /\ finish' = finish
    BY <1>11 DEF SetupCompletes, v, a
  <2>2. paused' = FALSE
    BY <1>11, <2>1 DEF PageInv, PageTypeOK
  <2> HIDE DEF os
  <2> QED BY <1>5, <1>7, <1>8, <2>1, <2>2
<1> QED BY <1>9, <1>10, <1>11

-----------------------------------------------------------------------------
(* The properties.                                                          *)

LEMMA PageInitOK == PageInit => PageInv
<1> SUFFICES ASSUME PageInit PROVE PageInv
  OBVIOUS
<1>1. PageTypeOK
  <2>1. voices \in [Voices -> Voice]
    BY NewVoiceType DEF PageInit
  <2>2. live \in 0 .. MaxVoices
    BY BoundAssumption DEF PageInit
  <2> QED BY <2>1, <2>2 DEF PageInit, PageTypeOK
<1>2. VoiceOK(NewVoice, FALSE, FALSE, FALSE)
  BY DEF VoiceOK, NewVoice, Alive, Connecting
<1>3. \A i \in Voices : VoiceOK(voices[i], i = live, paused, finish = "done")
  BY <1>2 DEF PageInit, Voices, VoiceOK
<1> QED BY <1>1, <1>3 DEF PageInv, PageInit

LEMMA PageNextOK ==
  ASSUME PageInv, [PageNext]_pageVars, Faults = {}
  PROVE  PageInv'
<1>1. CASE Begin
  BY <1>1, BeginKeeps
<1>2. CASE Pause
  BY <1>2, PauseKeeps
<1>3. CASE Resume
  BY <1>3, ResumeKeeps
<1>4. CASE Finish
  BY <1>4, FinishKeeps
<1>5. CASE FinishStops \/ ClosesEarly
  BY <1>5, FinishStopsKeeps
<1>6. CASE Ceiling
  BY <1>6, CeilingKeeps
<1>7. ASSUME NEW i \in Voices,
             \/ BackoffEnds(i) \/ Opens(i) \/ (\E r \in Drops : Drop(i, r))
             \/ GoAway(i) \/ HandOver(i) \/ Hears(i) \/ Silence(i)
      PROVE  PageInv'
  BY <1>7, BackoffEndsKeeps, MintedKeeps, SetupCompletesKeeps, OpenFailsKeeps, DropKeeps,
     GoAwayKeeps, HandOverKeeps, HearsKeeps, SilenceKeeps DEF Opens
<1>8. CASE UNCHANGED pageVars
  BY <1>8 DEF pageVars, PageInv, PageTypeOK, VoiceOK
<1> QED BY <1>1, <1>2, <1>3, <1>4, <1>5, <1>6, <1>7, <1>8 DEF PageNext

LEMMA PageInvImplies ==
  ASSUME PageInv
  PROVE  MutedIffPaused /\ OneVoice /\ EndedOnce
<1>1. MutedIffPaused
  BY ThisVoice DEF MutedIffPaused, VoiceOK
<1>2. OneVoice
  <2> SUFFICES ASSUME NEW i \in Voices, Alive(voices[i]) \/ Connecting(voices[i])
               PROVE  i = live /\ finish # "done" /\ ~voices[i].stopped
                        /\ (Alive(voices[i]) => ~Connecting(voices[i]))
    BY DEF OneVoice
  <2> QED BY ThisVoice DEF VoiceOK, Connecting
<1>3. EndedOnce
  BY ThisVoice DEF EndedOnce, VoiceOK
<1> QED BY <1>1, <1>2, <1>3

\* For any number of interviews and any limits, as long as the user and the
\* model do nothing the page mishandles: an open session is muted exactly when
\* the interview is paused (setInterviewPaused, interview_agent.html 5458).
THEOREM PauseMutes == Faults = {} => (PageSpec => []MutedIffPaused)
<1> SUFFICES ASSUME Faults = {} PROVE PageSpec => []MutedIffPaused
  OBVIOUS
<1>1. PageInv /\ [PageNext]_pageVars => PageInv'
  BY PageNextOK
<1>2. PageInv => MutedIffPaused
  BY PageInvImplies
<1> QED BY <1>1, <1>2, PageInitOK, PTL DEF PageSpec

\* ... one session at a time is open or being opened, of the latest interview,
\* and none once it is finished (startLiveVoice, finishInterview).
THEOREM OnlyOneVoice == Faults = {} => (PageSpec => []OneVoice)
<1> SUFFICES ASSUME Faults = {} PROVE PageSpec => []OneVoice
  OBVIOUS
<1>1. PageInv /\ [PageNext]_pageVars => PageInv'
  BY PageNextOK
<1>2. PageInv => OneVoice
  BY PageInvImplies
<1> QED BY <1>1, <1>2, PageInitOK, PTL DEF PageSpec

\* ... and the page is told at most once that an interview is over (onEnded and
\* onRenewalFail, vyne-live-interview.js 958-1058, 1286-1350).
THEOREM ToldOnce == Faults = {} => (PageSpec => []EndedOnce)
<1> SUFFICES ASSUME Faults = {} PROVE PageSpec => []EndedOnce
  OBVIOUS
<1>1. PageInv /\ [PageNext]_pageVars => PageInv'
  BY PageNextOK
<1>2. PageInv => EndedOnce
  BY PageInvImplies
<1> QED BY <1>1, <1>2, PageInitOK, PTL DEF PageSpec

=============================================================================
