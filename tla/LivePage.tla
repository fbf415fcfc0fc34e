------------------------------- MODULE LivePage -------------------------------
(***************************************************************************)
(* The spoken interview in one browser page: the page's own state          *)
(* (interview_agent.html), the live interviews it creates one after the    *)
(* other (vyne-live-interview.js) and the duplex session each of them is   *)
(* attached to (vyne-live.js).                                             *)
(*                                                                         *)
(* A voice is a live interview.  Its session dies of many things; unless   *)
(* someone ended it the voice opens another: it waits out a backoff, is    *)
(* minted a grant, connects, and takes over when the setup is complete.    *)
(* The page may be paused, resumed and finished at any of these steps.     *)
(* JavaScript runs a callback to its end, so a callback is one action      *)
(* with everything it calls; what awaits the network or a timer is         *)
(* another.  Times are not compared: a timer that is armed may fire.       *)
(***************************************************************************)
EXTENDS Integers, FiniteSets

CONSTANTS
  MaxVoices,      \* bound on live interviews the page creates
  MaxRenewals,    \* MAX_RENEWALS
  MaxRetries,     \* MAX_RENEW_RETRIES
  MaxQuota,       \* MAX_QUOTA_RETRIES
  MaxRejections,  \* MAX_AUDIO_REJECTIONS
  Faults          \* what the user and the model may do that the page mishandles

ASSUME BoundAssumption ==
  /\ {MaxVoices, MaxRenewals, MaxRetries, MaxQuota, MaxRejections} \subseteq Nat
  /\ Faults \subseteq {"pause", "restart", "finish", "silent"}

VARIABLES
  voices,   \* the live interviews the page has created or may create
  live,     \* the latest of them, LIVE; 0 before the first
  paused,   \* IV_CLOCK.paused
  finish    \* finishInterview: not called, scoring the last turns, done

pageVars == <<voices, live, paused, finish>>

Voices == 1 .. MaxVoices

\* Why a session ends that nobody ended.
Drops == {"closed", "quota", "audio", "live_socket_error", "max_duration", "live_suspended"}

Renewable(r) == r \in Drops \cup {"goaway", "renew_silent_retry"}

Voice ==
  [opening : {"none", "backoff", "minting", "connecting"},  \* the session being opened
   renewing : BOOLEAN,                                      \* ... replaces another
   socket : {"none", "open", "closed"},                     \* the session attached
   mutedSocket : BOOLEAN, heard : BOOLEAN,
   stopped : BOOLEAN, muted : BOOLEAN, opened : BOOLEAN, late : BOOLEAN,
   goAway : BOOLEAN, watched : BOOLEAN, recovered : BOOLEAN,
   renewals : Nat, retries : Nat, quotaHits : Nat, rejections : Nat,
   told : Nat]                                              \* calls of the page's onEnded

NewVoice ==
  [opening |-> "none", renewing |-> FALSE, socket |-> "none",
   mutedSocket |-> FALSE, heard |-> FALSE,
   stopped |-> FALSE, muted |-> FALSE, opened |-> FALSE, late |-> FALSE,
   goAway |-> FALSE, watched |-> FALSE, recovered |-> FALSE,
   renewals |-> 0, retries |-> 0, quotaHits |-> 0, rejections |-> 0, told |-> 0]

Alive(v) == v.socket = "open"

\* A grant is asked for, or held without a session yet.
Connecting(v) == v.opening \in {"minting", "connecting"}

-----------------------------------------------------------------------------
(* The live interview's callbacks.                                          *)

Over(v) == [v EXCEPT !.stopped = TRUE, !.told = @ + 1]

\* Before v5.34.8 a pause did not keep a session from being renewed.
MayRenew_paused(v, r) ==
  Renewable(r) /\ ~v.stopped /\ ~v.late /\ v.renewals < MaxRenewals

MayRenew(v, r) ==
  Renewable(r) /\ ~v.stopped /\ ~v.muted /\ ~v.late /\ v.renewals < MaxRenewals

Renewing(v, r) ==
  [v EXCEPT !.renewing = TRUE, !.renewals = @ + 1,
            !.opening = IF r \in {"quota", "audio", "live_socket_error"} THEN "backoff"
                        ELSE "minting"]

\* Before v5.34.46 a dying replacement was a session like any other.
Ended_always(v, r) == IF MayRenew(v, r) THEN Renewing(v, r) ELSE Over(v)

\* onEnded of the session attached, or of one that failed to open.
Ended(v, r) ==
  LET counted == [v EXCEPT !.quotaHits = IF r = "quota" THEN @ + 1 ELSE 0,
                           !.rejections = IF r = "audio" THEN @ + 1 ELSE 0]
  IN  IF v.renewing THEN v
      ELSE IF \/ r = "quota" /\ counted.quotaHits > MaxQuota
              \/ r = "audio" /\ counted.rejections >= MaxRejections THEN Over(counted)
      ELSE IF MayRenew(v, r) THEN Renewing(counted, r)
      ELSE IF v.muted THEN [counted EXCEPT !.told = @ + 1]
      ELSE Over(counted)

\* session.stop(r)
Closed(v, r) == IF Alive(v) THEN Ended([v EXCEPT !.socket = "closed"], r) ELSE v

\* LiveInterview.stop
Stopped(v) == Closed([v EXCEPT !.stopped = TRUE], "stopped")

\* LiveInterview.setMuted, which the page calls on a live session only.
Muted(v, m) == [v EXCEPT !.muted = m, !.mutedSocket = m]

\* Before v5.34.22 a failed renewal left the interview neither live nor over.
RenewalFailed_open(v, transient) == [v EXCEPT !.renewing = FALSE, !.opening = "none"]

\* onRenewalFail: transport is retried, a refusal is the end.
RenewalFailed(v, transient) ==
  IF transient /\ ~v.stopped /\ ~v.muted /\ v.retries < MaxRetries
  THEN [v EXCEPT !.opening = "backoff", !.retries = @ + 1]
  ELSE Over([v EXCEPT !.renewing = FALSE, !.opening = "none"])

-----------------------------------------------------------------------------
(* The page.                                                                *)

\* What its callbacks never read again of an interview that is stopped.
Forgotten(v) ==
  [v EXCEPT !.late = FALSE, !.goAway = FALSE, !.watched = FALSE, !.recovered = FALSE,
            !.renewals = 0, !.retries = 0, !.quotaHits = 0, !.rejections = 0]

\* startLiveVoice
Started(vs) ==
  [i \in Voices |->
    IF i = live + 1 THEN [NewVoice EXCEPT !.opening = "minting"]
    ELSE IF i = live THEN Forgotten(Stopped(vs[i])) ELSE vs[i]]

\* setInterviewPaused(false): a dead session is replaced by a new interview.
Unpause(vs) ==
  /\ paused' = FALSE
  /\ IF Alive(vs[live])
     THEN /\ voices' = [vs EXCEPT ![live] = Muted(@, FALSE)]
          /\ live' = live
     ELSE /\ live < MaxVoices
          /\ voices' = Started(vs)
          /\ live' = live + 1

PageInit ==
  /\ voices = [i \in Voices |-> NewVoice]
  /\ live = 0
  /\ paused = FALSE
  /\ finish = "no"

page == <<live, paused, finish>>

Begin ==
  /\ live = 0 /\ live < MaxVoices
  /\ voices' = Started(voices)
  /\ live' = 1
  /\ UNCHANGED <<paused, finish>>

\* A session that is being replaced is not alive, and is not muted.
Pause ==
  /\ live > 0 /\ ~paused /\ finish # "done"
  /\ "pause" \in Faults \/ ~voices[live].renewing
  /\ paused' = TRUE
  /\ voices' = IF Alive(voices[live]) THEN [voices EXCEPT ![live] = Muted(@, TRUE)] ELSE voices
  /\ UNCHANGED <<live, finish>>

\* The old interview is stopped, but a session it is opening is not.
Resume ==
  /\ live > 0 /\ paused /\ finish # "done"
  /\ "restart" \in Faults \/ ~Connecting(voices[live])
  /\ Unpause(voices)
  /\ UNCHANGED finish

\* finishInterview: only a live session is scored and stopped.
Finish ==
  /\ live > 0 /\ finish = "no"
  /\ "finish" \in Faults \/ Alive(voices[live]) \/ voices[live].opening = "none"
  /\ finish' = IF Alive(voices[live]) THEN "scoring" ELSE "done"
  /\ UNCHANGED <<voices, live, paused>>

FinishStops ==
  /\ finish = "scoring"
  /\ "finish" \in Faults \/ ~Connecting(voices[live])
  /\ finish' = "done"
  /\ voices' = [voices EXCEPT ![live] = Stopped(@)]
  /\ UNCHANGED <<live, paused>>

\* LIVE.stop with the interview unfinished: the interviewer has closed it
\* (onInterviewClosed), it cannot be scored (onScoringDead), the page is hidden.
ClosesEarly ==
  /\ live > 0
  /\ "finish" \in Faults \/ ~Connecting(voices[live])
  /\ voices' = [voices EXCEPT ![live] = Stopped(@)]
  /\ UNCHANGED page

-----------------------------------------------------------------------------
(* Timers, the API and Google.                                              *)

Becomes(i, v) ==
  /\ voices' = [voices EXCEPT ![i] = v]
  /\ UNCHANGED page

\* Whether the interview has ended while the backoff ran is not asked.
BackoffEnds_unchecked(i) ==
  /\ voices[i].opening = "backoff"
  /\ Becomes(i, [voices[i] EXCEPT !.opening = "minting"])

BackoffEnds(i) ==
  LET v == voices[i] IN
    /\ v.opening = "backoff"
    /\ Becomes(i, IF v.stopped \/ v.muted
                  THEN [v EXCEPT !.opening = "none", !.renewing = FALSE]
                  ELSE [v EXCEPT !.opening = "minting"])

Minted(i) ==
  /\ voices[i].opening = "minting"
  /\ Becomes(i, [voices[i] EXCEPT !.opening = "connecting"])

\* Refused, or the network; a refusal comes from the mint alone.
OpenFails(i, transient) ==
  LET v == voices[i] IN
    /\ Connecting(v)
    /\ transient \/ v.opening = "minting"
    /\ Becomes(i, IF v.renewing THEN RenewalFailed(Ended(v, "failed"), transient)
                  ELSE Ended([v EXCEPT !.opening = "none"], "failed"))

\* The goAway, the silence timer and the retries of the session before are gone.
Attached(v) ==
  [v EXCEPT !.opening = "none", !.socket = "open", !.mutedSocket = FALSE, !.heard = FALSE,
            !.renewing = FALSE, !.goAway = FALSE, !.watched = v.renewing,
            !.retries = IF v.renewing THEN 0 ELSE @]

\* setupComplete.  The page's onReady asks LIVE, whichever voice that is: one that
\* has not spoken its opening is unpaused, and opens if it has a session.
SetupCompletes(i) ==
  /\ voices[i].opening = "connecting"
  /\ UNCHANGED finish
  /\ LET vs == [voices EXCEPT ![i] = Attached(@)]
         os == [vs EXCEPT ![live].opened = @ \/ Alive(vs[live])]
     IN  IF voices[live].opened THEN voices' = vs /\ UNCHANGED <<live, paused>>
         ELSE IF paused THEN Unpause(os)
         ELSE voices' = os /\ UNCHANGED <<live, paused>>

\* The socket closes or errs, the grant ends, the page was asleep.
Drop(i, r) ==
  /\ Alive(voices[i])
  /\ r = "live_suspended" => ~voices[i].mutedSocket
  /\ Becomes(i, Closed(voices[i], r))

\* goAway, or the token nears its end.
GoAway(i) ==
  /\ Alive(voices[i]) /\ ~voices[i].stopped /\ ~voices[i].goAway
  /\ Becomes(i, [voices[i] EXCEPT !.goAway = TRUE])

HandOver(i) ==
  LET v == voices[i] IN
    /\ Alive(v) /\ v.goAway /\ ~v.stopped /\ ~v.muted
    /\ Becomes(i, Closed([v EXCEPT !.goAway = FALSE], "goaway"))

\* Any frame of the model.
Hears(i) ==
  /\ Alive(voices[i]) /\ ~voices[i].heard
  /\ Becomes(i, [voices[i] EXCEPT !.heard = TRUE])

\* The first silent renewal is renewed again; a later one ends the interview,
\* with its session still open.
SilenceNoticed(v) ==
  IF ~Alive(v) \/ v.stopped \/ v.muted \/ v.heard THEN v
  ELSE IF v.recovered THEN Over(v)
  ELSE Closed([v EXCEPT !.recovered = TRUE], "renew_silent_retry")

Silence(i) ==
  /\ voices[i].watched
  /\ "silent" \in Faults \/ ~voices[i].recovered \/ voices[i].heard
  /\ Becomes(i, SilenceNoticed([voices[i] EXCEPT !.watched = FALSE]))

\* MAX_INTERVIEW_MS
Ceiling ==
  /\ live > 0 /\ ~voices[live].late /\ ~voices[live].stopped
  /\ Becomes(live, [voices[live] EXCEPT !.late = TRUE])

-----------------------------------------------------------------------------
Opens(i) == Minted(i) \/ SetupCompletes(i) \/ \E t \in BOOLEAN : OpenFails(i, t)

PageNext ==
  \/ Begin \/ Pause \/ Resume \/ Finish \/ FinishStops \/ ClosesEarly \/ Ceiling
  \/ \E i \in Voices :
       \/ BackoffEnds(i)
       \/ Opens(i)
       \/ \E r \in Drops : Drop(i, r)
       \/ GoAway(i) \/ HandOver(i)
       \/ Hears(i) \/ Silence(i)

PageSpec == PageInit /\ [][PageNext]_pageVars

\* A timer fires, and the browser answers a request, with an error if nothing
\* else; setup has a timer of its own.
Fairness == \A i \in Voices : WF_pageVars(BackoffEnds(i)) /\ WF_pageVars(Opens(i)) /\ WF_pageVars(Silence(i))

FairSpec == PageSpec /\ Fairness

-----------------------------------------------------------------------------
(* Properties.                                                              *)

PageTypeOK ==
  /\ voices \in [Voices -> Voice]
  /\ live \in 0 .. MaxVoices
  /\ paused \in BOOLEAN
  /\ finish \in {"no", "scoring", "done"}

\* "A live session is muted iff the interview is paused"
\* (interview_agent.html 5458), whatever was renewed, replaced or unpaused since.
MutedIffPaused ==
  \A i \in Voices : Alive(voices[i]) => voices[i].mutedSocket = paused

\* One session at a time is open or being opened, of the latest interview, and
\* none once the interview is finished: a second one is a second voice and a
\* second budget hold (interview_agent.html 4836-4844, 5772-5774).
OneVoice ==
  \A i \in Voices :
    Alive(voices[i]) \/ Connecting(voices[i]) =>
      i = live /\ finish # "done" /\ ~voices[i].stopped
        /\ (Alive(voices[i]) => ~Connecting(voices[i]))

\* The page is told once that an interview ended (vyne-live-interview.js
\* 958-974: one failure, two endings), and a stopped interview is not told to
\* have lapsed again.
EndedOnce == \A i \in Voices : voices[i].told <= 1

\* An interview whose session was lost comes back, ends or is paused
\* (vyne-live-interview.js 1297-1303: neither live nor finished).
Settles ==
  (live > 0 /\ ~paused /\ ~voices[live].stopped /\ ~Alive(voices[live]))
    ~> (live = 0 \/ paused \/ voices[live].stopped \/ Alive(voices[live]))

\* A renewed session that says nothing is replaced, unless the interview ends
\* or is paused meanwhile (vyne-live-interview.js 2001-2015).
SilenceBroken ==
  (live > 0 /\ Alive(voices[live]) /\ voices[live].watched /\ ~voices[live].recovered)
    ~> (live = 0 \/ voices[live].heard \/ ~Alive(voices[live]) \/ voices[live].stopped \/ paused)

\* Neither a lost session nor a silent one leaves the interview neither live nor
\* over.
ComesBack == Settles /\ SilenceBroken
=============================================================================
