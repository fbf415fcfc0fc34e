------------------------------ MODULE LiveTurns ------------------------------
(***************************************************************************)
(* The turns of one spoken conversation: the frames Google's Live server   *)
(* sends, what the duplex session (vyne-live.js) makes of them, and what    *)
(* the live interview around it (vyne-live-interview.js) writes down.       *)
(*                                                                         *)
(* Neither end of a turn is one event.  The model finishes generating, then*)
(* its voice plays for seconds, and the server says turnComplete at once,   *)
(* seconds later or not at all; a timer closes the turns it forgets.  In    *)
(* between the interviewee may speak, pause the interview, or the server    *)
(* may announce that it will close the connection.                         *)
(*                                                                         *)
(* A callback runs to its end: a frame is one action with all it calls.    *)
(***************************************************************************)
EXTENDS Integers, Sequences, FiniteSetsExt, Functions

CONSTANTS
  MaxTurns,       \* bound on the turns the model takes
  MaxVoice,       \* ... on the chunks of voice and the usage reports of each
  MaxUtterances,  \* ... on what the interviewee says
  MaxUpsets,      \* ... on pauses and reconnections
  Faults          \* what the server or the interviewee may do that the code mishandles

ASSUME BoundAssumption ==
  /\ {MaxTurns, MaxVoice, MaxUtterances, MaxUpsets} \subseteq Nat
  /\ Faults \subseteq {"trailing", "late usage", "no close", "text only", "overlap",
                       "early", "barge in", "paused goaway", "long voice"}

VARIABLES
  s,        \* the VyneLiveSession attached
  iv,       \* the LiveInterview, which outlives it
  server,   \* the model's side of the connection
  used,     \* utterances and upsets so far, tokens reported for earlier sessions
  told,     \* history: turn -> calls of onTurnComplete for it
  spent,    \* history: turn -> the tokens it cost
  broken    \* history: turns that were cut, or of which a frame came while muted

vars == <<s, iv, server, used, told, spent, broken>>

Turns == 1 .. MaxTurns
Who == {"You", "VYNE"}

Session ==
  [closed : BOOLEAN, muted : BOOLEAN,
   playing : Nat,                  \* chunks scheduled, of which IDLE_DEFER_MIN_MS or more is to play
   run : BOOLEAN,                  \* queue._lastEnd: something was queued since endRun
   content : BOOLEAN, voiced : BOOLEAN, text : BOOLEAN, notify : BOOLEAN,
   state : {"none", "thinking", "speaking", "idle"},
   salvage : BOOLEAN, idleDefer : BOOLEAN,     \* timers
   turnUsage : Nat, usage : Nat,
   awaiting : BOOLEAN, spoke : {"unknown", "no", "yes"}, speaking : BOOLEAN,
   wall : {"none", "far", "near", "passed"}]   \* the goAway deadline

NewSession(muted) ==
  [closed |-> FALSE, muted |-> muted, playing |-> 0, run |-> FALSE,
   content |-> FALSE, voiced |-> FALSE, text |-> FALSE, notify |-> FALSE,
   state |-> "none", salvage |-> FALSE, idleDefer |-> FALSE,
   turnUsage |-> 0, usage |-> 0,
   awaiting |-> FALSE, spoke |-> "unknown", speaking |-> FALSE, wall |-> "none"]

\* One message of the server.
Silent ==
  [voice |-> FALSE, words |-> FALSE, think |-> FALSE, generated |-> FALSE,
   turnComplete |-> FALSE, interrupted |-> FALSE, heard |-> 0, goAway |-> FALSE,
   usage |-> 0]

-----------------------------------------------------------------------------
(* The handlers transform c = [s, iv, told, turn], turn being the latest of the *)
(* model; a word of the transcript is the number of the turn it belongs to  *)
(* or answers.  q is what only a clock tells: whether the reply is overdue, *)
(* whether it has been quiet.                                               *)

Clock == [overdue : BOOLEAN, quiet : BOOLEAN]

Line(who, words) == IF words = {} THEN <<>> ELSE <<[who |-> who, words |-> words]>>

\* LiveInterview._flushPending
Flushed(v) ==
  [v EXCEPT !.turns = @ \o Line("You", v.pendingUser) \o Line("VYNE", v.pendingAgent),
            !.pendingUser = {}, !.pendingAgent = {}]

\* opts.onTurnComplete; the notice is of the latest turn of the model.
TurnCompleted(c) ==
  [c EXCEPT !.iv = Flushed(@), !.told[c.turn] = @ + 1]

DrainNotice(c) ==
  LET d == [c EXCEPT !.s.notify = FALSE] IN
    IF c.s.notify /\ ~c.s.muted THEN TurnCompleted(d) ELSE d

BankTurnUsage(x) == [x EXCEPT !.usage = @ + x.turnUsage, !.turnUsage = 0]

QueueFlushed(x) == [x EXCEPT !.playing = 0, !.run = FALSE]

\* VyneLiveSession.stop
Stop(c) ==
  LET d == DrainNotice([c EXCEPT !.s.closed = TRUE]) IN
    [d EXCEPT !.s = [BankTurnUsage(QueueFlushed(@)) EXCEPT !.idleDefer = FALSE, !.salvage = FALSE]]

\* _armGoAwayPoll
Deferred(c) == [c EXCEPT !.iv.poll = TRUE]

ModelAtWork(c) == Deferred(c)

HandOver(c, cut) ==
  Stop([c EXCEPT !.iv.poll = FALSE, !.iv.goAway = FALSE, !.iv.cut = @ \/ cut])

\* An answer is overdue, whoever is speaking.
Stalled_speaking(x, q) == q.overdue /\ x.awaiting

\* The connection transcribed an answer and has produced nothing since.
Stalled(x, q) == q.overdue /\ x.awaiting /\ ~x.speaking

\* At a turn boundary, after a silence, or when there is no more time.
MaybeRenewOnGoAway(c, q) ==
  LET x == c.s
      mustGo == x.wall = "passed"
      atBoundary == x.spoke = "no"
      waitForBoundary == x.spoke = "yes" /\ x.wall = "far"
  IN  IF ~c.iv.goAway \/ c.iv.stopped \/ x.muted \/ x.closed THEN c
      ELSE IF ~Stalled(x, q) /\ ~mustGo /\ x.state \in {"speaking", "thinking"} THEN ModelAtWork(c)
      ELSE IF /\ ~mustGo /\ ~Stalled(x, q) /\ ~atBoundary
              /\ waitForBoundary \/ x.speaking \/ ~q.quiet THEN Deferred(c)
      ELSE HandOver(c, x.speaking /\ ~mustGo)

SetTurnState(c, state, q) ==
  LET d == [c EXCEPT !.s.idleDefer = @ /\ state = "idle", !.s.state = state] IN
    IF c.s.state # state /\ state = "idle" THEN MaybeRenewOnGoAway(d, q) ELSE d

-----------------------------------------------------------------------------
(* Closing a turn.                                                          *)

\* Before v5.34.109 every close was a turn ending.
Closable_always(x) == TRUE

\* Something was generated since the last close, or a text-only reply was.
Closable(x) == x.content \/ (~x.voiced /\ x.text)

\* Before v5.34.101 the floor was free when the model had generated its answer.
HoldFloor_never(x) == FALSE

\* Audio is queued, and the server's deadline leaves time to play it.
HoldFloor(x) == x.run /\ x.playing > 0 /\ x.wall # "passed"

CloseTurn(c, q) ==
  LET hold == HoldFloor(c.s)
      d == [c EXCEPT !.s =
             [BankTurnUsage(@) EXCEPT !.content = FALSE, !.spoke = "no", !.notify = TRUE,
                !.run = FALSE, !.voiced = FALSE, !.text = FALSE,
                !.salvage = FALSE, !.idleDefer = hold]]
  IN  IF ~Closable(c.s) THEN c
      ELSE IF hold THEN d
      ELSE SetTurnState(d, "idle", q)

\* Before v5.34.75 only turnComplete closed a turn.
SalvageArmed_never(armed, f) == FALSE

\* Armed by generationComplete; voice means that the turn goes on.
SalvageArmed(armed, f) == (armed /\ ~f.voice) \/ f.generated

\* _noteModelActivity
NoteModelActivity(c, f, q) ==
  LET x == c.s
      a == [c EXCEPT !.s.content = @ \/ f.voice \/ f.think,
                     !.s.awaiting = @ /\ ~(f.think \/ f.voice \/ f.words \/ f.turnComplete),
                     !.s.text = @ \/ f.words]
      t == IF f.think /\ ~x.voiced THEN SetTurnState(a, "thinking", q) ELSE a
      v == IF f.voice /\ ~x.voiced
           THEN SetTurnState([t EXCEPT !.s.voiced = TRUE], "speaking", q) ELSE t
      g == [v EXCEPT !.s.salvage = ~f.turnComplete /\ SalvageArmed(@, f)]
  IN  IF f.turnComplete THEN CloseTurn(g, q) ELSE g

\* What was said waits for the turn to be complete.
Interrupted_unwritten(c, q) ==
  SetTurnState([c EXCEPT !.s = [QueueFlushed(@) EXCEPT !.voiced = FALSE]], "idle", q)

\* Barge-in: what is queued must stop, and what was said stays said.
Interrupted(c, q) ==
  LET d == SetTurnState([c EXCEPT !.s = [QueueFlushed(@) EXCEPT !.voiced = FALSE]], "idle", q)
  IN  [d EXCEPT !.iv = Flushed(@)]

RecordUsage(x, n) == [x EXCEPT !.turnUsage = Max({@, n})]

\* A turn that arrives while paused is thrown away, and that it happened too.
Discarded(c) == [c EXCEPT !.s.notify = FALSE]

\* onUserText, onAgentText and the frame's audio
Delivered(c, f) ==
  DrainNotice(
    [c EXCEPT !.s.playing = IF f.voice THEN @ + 1 ELSE @, !.s.run = @ \/ f.voice,
              !.iv.pendingUser = IF f.heard > 0 THEN @ \cup {f.heard} ELSE @,
              !.iv.pendingAgent = IF f.words THEN @ \cup {c.turn} ELSE @])

\* ws.onmessage; c.turn is the turn the frame belongs to.
OnMessage(c, f, q) ==
  LET w == IF f.goAway
           THEN MaybeRenewOnGoAway([c EXCEPT !.s.wall = "far", !.iv.goAway = TRUE], q) ELSE c
      h == [w EXCEPT !.s.awaiting = @ \/ f.heard > 0]
      n == NoteModelActivity(h, f, q)
      i == IF f.interrupted THEN Interrupted(n, q) ELSE n
      u == [i EXCEPT !.s = IF f.usage > 0 THEN RecordUsage(@, f.usage) ELSE @]
  IN  IF u.s.muted THEN Discarded(u) ELSE Delivered(u, f)

-----------------------------------------------------------------------------
Init ==
  /\ s = NewSession(FALSE)
  /\ iv = [stopped |-> FALSE, goAway |-> FALSE, poll |-> FALSE, turns |-> <<>>,
           pendingUser |-> {}, pendingAgent |-> {}, cut |-> FALSE]
  /\ server = [turn |-> 0, phase |-> "quiet", voice |-> 0, words |-> FALSE, cost |-> 0,
               due |-> TRUE, speech |-> 0, barged |-> FALSE, late |-> FALSE]
  /\ used = [upsets |-> 0, utterances |-> 0, tokens |-> 0]
  /\ told = [t \in Turns |-> 0]
  /\ spent = [t \in Turns |-> 0]
  /\ broken = {}

Conversation(turn) == [s |-> s, iv |-> iv, told |-> told, turn |-> turn]

Becomes(c) == s' = c.s /\ iv' = c.iv /\ told' = c.told

\* The turn under way is cut when the session ends before it was told of.
Cut(c) ==
  IF c.s.closed THEN {t \in Turns : t = c.turn /\ c.told[t] = 0} ELSE {}

\* The server sends f and is sv then.
Receive(f, sv) ==
  /\ ~s.closed
  /\ \E c \in {OnMessage(Conversation(sv.turn), f, q) : q \in Clock} :
       /\ Becomes(c)
       /\ broken' = broken \cup Cut(c) \cup (IF s.muted THEN {sv.turn} ELSE {})
  /\ server' = sv
  /\ spent' = IF f.usage > 0 THEN [spent EXCEPT ![sv.turn] = Max({@, f.usage})] ELSE spent
  /\ UNCHANGED used

-----------------------------------------------------------------------------
(* The model: it answers what it heard, one turn after the other.           *)

\* A turn may begin although the server did not say the one before was complete; it
\* says so too late, or never.
Working ==
  IF server.phase = "working" THEN server
  ELSE [server EXCEPT !.turn = @ + 1, !.phase = "working", !.voice = 0, !.words = FALSE,
                      !.cost = 0, !.due = FALSE, !.barged = FALSE,
                      !.late = server.phase = "generated" /\ "overlap" \in Faults]

MayWork ==
  \/ server.phase = "working" /\ ~server.barged
  \/ /\ server.phase = "quiet" \/ (server.phase = "generated" /\ ~s.salvage)
          \/ (server.phase = "cut" /\ "no close" \in Faults)
     /\ server.due /\ server.turn < MaxTurns
     /\ ~s.speaking \/ "barge in" \in Faults
     /\ server.speech = 0 \/ "early" \in Faults

Thinks ==
  /\ MayWork /\ Working.voice = 0 /\ ~Working.words
  /\ Receive([Silent EXCEPT !.think = TRUE], Working)

Voices ==
  /\ MayWork /\ Working.voice < MaxVoice
  /\ Receive([Silent EXCEPT !.voice = TRUE], [Working EXCEPT !.voice = @ + 1])

\* A word of the transcript may trail its turn.
Trailing == IF "trailing" \in Faults /\ server.phase = "generated" THEN {server} ELSE {}

Says ==
  \E sv \in Trailing \cup
              (IF MayWork /\ ~Working.words THEN {[Working EXCEPT !.words = TRUE]} ELSE {}) :
    Receive([Silent EXCEPT !.words = TRUE], sv)

Spoken == server.words /\ (server.voice > 0 \/ "text only" \in Faults)

\* usageMetadata, a running total.
Reports ==
  /\ server.phase = "working" \/ (server.phase = "generated" /\ "late usage" \in Faults)
  /\ server.cost < MaxVoice
  /\ Receive([Silent EXCEPT !.usage = server.cost + 1], [server EXCEPT !.cost = @ + 1])

Generates ==
  /\ server.phase = "working" /\ Spoken
  /\ Receive([Silent EXCEPT !.generated = TRUE], [server EXCEPT !.phase = "generated"])

\* The turn under way is complete, or late the one it overlapped.
Completed ==
  (IF server.phase \in {"generated", "cut"} \/ (server.phase = "working" /\ Spoken)
   THEN {[server EXCEPT !.phase = "quiet"]} ELSE {})
    \cup (IF server.late THEN {[server EXCEPT !.late = FALSE]} ELSE {})

Completes ==
  \E sv \in Completed : Receive([Silent EXCEPT !.turnComplete = TRUE], sv)

\* The interviewee talked over it.
Interrupts ==
  /\ server.barged /\ server.phase \in {"working", "generated"}
  /\ Receive([Silent EXCEPT !.interrupted = TRUE],
             [server EXCEPT !.phase = "cut", !.barged = FALSE])

\* inputTranscription
Hears ==
  /\ server.speech > 0
  /\ ~server.barged \/ "early" \in Faults
  /\ Receive([Silent EXCEPT !.heard = server.speech], [server EXCEPT !.speech = 0, !.due = TRUE])

\* Someone is speaking who began before the model was through.
TalkedOver == s.speaking /\ (s.spoke = "no" \/ server.barged)

GoesAway ==
  /\ s.wall = "none" /\ server.turn > 0
  /\ ~s.muted \/ "paused goaway" \in Faults
  /\ (~TalkedOver /\ server.phase # "cut") \/ "barge in" \in Faults
  /\ Receive([Silent EXCEPT !.goAway = TRUE], server)

-----------------------------------------------------------------------------
(* The interviewee.                                                         *)

\* The microphone hears speech.
Speaks ==
  /\ ~s.closed /\ ~s.muted /\ ~s.speaking /\ server.turn > 0
  /\ (s.state = "idle" /\ server.phase \in {"quiet", "generated"}) \/ ~iv.goAway
       \/ "barge in" \in Faults
  /\ used.utterances < MaxUtterances
  /\ s' = [s EXCEPT !.speaking = TRUE, !.spoke = "yes"]
  /\ server' = [server EXCEPT !.speech = server.turn,
                  !.barged = server.phase = "working"
                              \/ (server.phase = "generated" /\ s.state # "idle")]
  /\ used' = [used EXCEPT !.utterances = @ + 1]
  /\ UNCHANGED <<iv, told, spent, broken>>

FallsSilent ==
  /\ s.speaking /\ ~s.closed /\ ~s.muted
  /\ s' = [s EXCEPT !.speaking = FALSE]
  /\ UNCHANGED <<iv, server, used, told, spent, broken>>

\* setMuted
Pauses ==
  /\ ~s.closed /\ ~s.muted /\ used.upsets < MaxUpsets
  /\ s' = [QueueFlushed(s) EXCEPT !.muted = TRUE]
  /\ iv' = Flushed(iv)
  /\ used' = [used EXCEPT !.upsets = @ + 1]
  /\ broken' = broken \cup {t \in Turns : t = server.turn /\ told[t] = 0}
  /\ UNCHANGED <<server, told, spent>>

Resumes ==
  /\ ~s.closed /\ s.muted
  /\ s' = [s EXCEPT !.muted = FALSE, !.awaiting = FALSE]
  /\ UNCHANGED <<iv, server, used, told, spent, broken>>

-----------------------------------------------------------------------------
(* Timers and the network.                                                  *)

\* One chunk has been played.
Plays ==
  /\ s.playing > 0
  /\ s' = [s EXCEPT !.playing = @ - 1]
  /\ UNCHANGED <<iv, server, used, told, spent, broken>>

AtWork(x) == x.state \in {"speaking", "thinking"}

\* A timer changes the conversation to one of cs; it may hand it over.
Timer(cs) ==
  /\ \E c \in cs : Becomes(c) /\ broken' = broken \cup Cut(c)
  /\ UNCHANGED <<server, used, spent>>

\* turnComplete did not follow generationComplete.
SalvageFires ==
  /\ s.salvage
  /\ LET c == [Conversation(server.turn) EXCEPT !.s.salvage = FALSE] IN
       Timer({IF AtWork(s) THEN DrainNotice(CloseTurn(c, q)) ELSE c : q \in Clock})

\* The voice has been played, the deadline left no time for it, or it is longer
\* than IDLE_DEFER_MAX_MS.
IdleDeferEnds ==
  /\ s.idleDefer
  /\ s.playing = 0 \/ s.wall \in {"near", "passed"} \/ "long voice" \in Faults
  /\ LET c == [Conversation(server.turn) EXCEPT !.s.idleDefer = FALSE] IN
       Timer({DrainNotice(IF AtWork(s) THEN SetTurnState(c, "idle", q) ELSE c) : q \in Clock})

GoAwayPoll ==
  /\ iv.poll
  /\ LET c == Conversation(server.turn) IN
       Timer({IF iv.goAway /\ ~iv.stopped THEN MaybeRenewOnGoAway(c, q)
              ELSE [c EXCEPT !.iv.poll = FALSE] : q \in Clock})

\* The deadline of the goAway comes nearer.
WallNears ==
  /\ ~s.closed /\ s.wall \in {"far", "near"}
  /\ s' = [s EXCEPT !.wall = IF @ = "far" THEN "near" ELSE "passed"]
  /\ UNCHANGED <<iv, server, used, told, spent, broken>>

\* The socket closes or errs, the grant ends.
Drops ==
  /\ ~s.closed
  /\ Timer({Stop(Conversation(server.turn))})

\* LiveInterview.stop
Ends ==
  /\ ~iv.stopped
  /\ LET c == [Conversation(server.turn) EXCEPT !.iv = [Flushed(@) EXCEPT !.stopped = TRUE]] IN
       Timer({IF s.closed THEN c ELSE Stop(c)})

\* A renewal: a new connection continues the conversation, and is prompted to.
Reconnects ==
  /\ s.closed /\ ~s.muted /\ ~iv.stopped /\ used.upsets < MaxUpsets
  /\ s' = NewSession(FALSE)
  /\ iv' = [iv EXCEPT !.goAway = FALSE]
  /\ server' = [server EXCEPT !.phase = "quiet", !.due = TRUE, !.speech = 0,
                              !.barged = FALSE, !.late = FALSE]
  /\ used' = [used EXCEPT !.upsets = @ + 1, !.tokens = @ + s.usage]
  /\ UNCHANGED <<told, spent, broken>>

-----------------------------------------------------------------------------
Answers == Voices \/ Says \/ Generates \/ Interrupts

\* Timers fire, what is queued is played, time passes.
Clockwork ==
  Plays \/ SalvageFires \/ IdleDeferEnds \/ GoAwayPoll \/ WallNears \/ FallsSilent

Model ==
  \/ Answers \/ Thinks \/ Reports \/ Completes \/ Hears \/ GoesAway

Next ==
  \/ Model
  \/ Clockwork
  \/ Speaks \/ Pauses \/ Resumes
  \/ Drops \/ Ends \/ Reconnects

Spec == Init /\ [][Next]_vars

\* The model goes on until it has generated its answer; it need not say that the
\* turn is complete.
Fairness == WF_vars(Answers) /\ WF_vars(Clockwork)

FairSpec == Spec /\ Fairness

-----------------------------------------------------------------------------
(* Properties.                                                              *)

\* The application is told "that a turn ended - exactly once per turn, whichever
\* way it ended" (vyne-live.js 1526-1532), and never of one that was thrown away
\* while paused: each time its words are written down and scored.
TurnToldOnce ==
  /\ \A t \in Turns : told[t] <= 1
  /\ \A t \in 1 .. server.turn :
       t < server.turn \/ server.phase = "quiet" => told[t] = 1 \/ t \in broken

\* What each turn cost is billed once, of a turn that was cut or paused over too
\* (turnCloseSequences.test.ts, I2).
UsageBilled ==
  used.tokens + s.usage + s.turnUsage = SumFunction(spent)

\* The floor is not given to the interviewee while the interviewer's voice is
\* still to come (v5.34.101), unless the connection is about to close; a voice of more
\* than IDLE_DEFER_MAX_MS ("long voice") is not waited for to its end.
FloorHeld == s.state = "idle" /\ s.playing > 0 => s.wall \in {"near", "passed"}

\* A question is written down before its answer, which is how the scorer reads
\* them, unless its turn was cut or paused over.
QuestionBeforeAnswer ==
  \A i, j \in DOMAIN iv.turns :
    i < j /\ iv.turns[i].who = "You" /\ iv.turns[j].who = "VYNE" =>
      \A answered \in iv.turns[i].words, said \in iv.turns[j].words \ broken : answered < said

\* A handover does not take words off the interviewee before the deadline forces
\* it (vyne-live-interview.js 1859-1886).
NobodyCutOff == ~iv.cut

\* No turn is "pinned at speaking" (vyne-live.js 1188): the floor becomes free
\* although the server never says that the turn is complete.
FloorReturns == AtWork(s) ~> (~AtWork(s) \/ s.closed)

\* A goAway is answered by a handover, without waiting for the server to cut
\* (vyne-live-interview.js 1788-1796), unless the interview is paused or over.
GoAwayAnswered == (iv.goAway /\ ~s.muted) ~> (~iv.goAway \/ s.muted \/ iv.stopped \/ s.closed)

\* A turn counts once, for the transcript and for the bill.
TurnsCountOnce == TurnToldOnce /\ UsageBilled

\* Neither the floor nor a closing connection is waited for in vain.
NobodyWaitsForever == FloorReturns /\ GoAwayAnswered
=============================================================================
