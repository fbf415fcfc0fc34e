--------------------------- MODULE LiveTurnsProofs ---------------------------
(***************************************************************************)
(* That a turn of a spoken conversation is told of once and billed once,   *)
(* that the floor is held while the voice plays, that a question is written*)
(* down before its answer and that a handover cuts nobody off, for any     *)
(* number of turns, chunks of voice, utterances, pauses and reconnections. *)
(*                                                                         *)
(* First what each handler makes of a conversation, stage by stage as a    *)
(* frame passes through OnMessage; then the invariant; then one lemma for  *)
(* each action.                                                            *)
(***************************************************************************)
EXTENDS LiveTurns, TLAPS, FiniteSetTheorems

-----------------------------------------------------------------------------
(* Sums over the turns.                                                     *)

\* The turn a sum takes next.
First(turns) == CHOOSE t \in turns : TRUE

\* g is the running sum of f over the subsets of S.
Running(f, S, g) ==
  g = [u \in SUBSET S |-> IF u = {} THEN 0 ELSE f[First(u)] + g[u \ {First(u)}]]

\* A sum is what its running sum says of the whole set.
LEMMA FoldsToChoice ==
  ASSUME NEW f, NEW S
  PROVE  SumFunctionOnSet(f, S) = (CHOOSE g : Running(f, S, g))[S]
BY Zenon DEF SumFunctionOnSet, FoldFunctionOnSet, MapThenFoldSet, Running, First

\* Among sets of subsets of a finite set one has no member strictly inside it.
LEMMA Smallest ==
  ASSUME NEW S, IsFiniteSet(S), NEW Bad \in SUBSET SUBSET S, Bad # {}
  PROVE  \E T \in Bad : \A U \in Bad : U \subseteq T => U = T
<1>1. IsWellFoundedOn(StrictSubsetOrdering(S), FiniteSubsetsOf(S))
  BY FS_StrictSubsetOrderingWellFounded
<1>2. FiniteSubsetsOf(S) = SUBSET S
  BY FS_FiniteSubsetsOfFinite
<1>3. PICK T \in Bad : \A U \in Bad : ~(<<U, T>> \in StrictSubsetOrdering(S))
  <2>1. \E T \in Bad : \A U \in Bad : ~(<<U, T>> \in StrictSubsetOrdering(S))
    BY <1>1, <1>2, WFMin
  <2>. QED
    BY <2>1
<1>4. \A U \in Bad : U \subseteq T => U = T
  BY <1>3 DEF StrictSubsetOrdering
<1>. QED
  BY <1>4

\* A running sum over T exists, and any gives each part of T its sum.
SumsWell(f, T) ==
  /\ \E g : Running(f, T, g)
  /\ \A g : Running(f, T, g) => \A V \in SUBSET T : g[V] = SumFunctionOnSet(f, V)

\* What holds of every smaller set holds of this one.
LEMMA SumsWellStep ==
  ASSUME NEW f, NEW T, \A U \in SUBSET T : U # T => SumsWell(f, U)
  PROVE  SumsWell(f, T)
<1>. DEFINE Sum(V) == SumFunctionOnSet(f, V)
            Unfolded(V) == IF V = {} THEN 0 ELSE f[First(V)] + Sum(V \ {First(V)})
            h == [u \in SUBSET T |-> Unfolded(u)]
<1>1. \A V \in SUBSET T : V # {} => V \ {First(V)} \in SUBSET T /\ V \ {First(V)} # T
  BY DEF First
<1>2. ASSUME NEW U \in SUBSET T, U # T
      PROVE  Sum(U) = Unfolded(U)
  <2>1. PICK g : Running(f, U, g)
    BY <1>2 DEF SumsWell
  <2>2. \A V \in SUBSET U : g[V] = Sum(V)
    BY <1>2, <2>1 DEF SumsWell
  <2>3. g[U] = IF U = {} THEN 0 ELSE f[First(U)] + g[U \ {First(U)}]
    BY <2>1 DEF Running
  <2>4. U \ {First(U)} \in SUBSET U /\ U \in SUBSET U
    OBVIOUS
  <2>. QED
    BY <2>2, <2>3, <2>4
<1>3. \A U \in SUBSET T : U # T => h[U] = Sum(U)
  BY <1>2
<1>4. Running(f, T, h)
  <2>1. \A V \in SUBSET T : V # {} => h[V \ {First(V)}] = Sum(V \ {First(V)})
    BY <1>1, <1>3
  <2>2. h = [u \in SUBSET T |-> IF u = {} THEN 0 ELSE f[First(u)] + h[u \ {First(u)}]]
    BY <2>1
  <2>. QED
    BY <2>2 DEF Running
<1>5. ASSUME NEW g, Running(f, T, g), NEW V \in SUBSET T, V # T
      PROVE  g[V] = Sum(V)
  <2>. DEFINE k == [u \in SUBSET V |-> g[u]]
  <2>1. ASSUME NEW u \in SUBSET V
        PROVE  g[u] = IF u = {} THEN 0 ELSE f[First(u)] + k[u \ {First(u)}]
    <3>1. u \in SUBSET T /\ u \ {First(u)} \in SUBSET V
      OBVIOUS
    <3>2. g[u] = IF u = {} THEN 0 ELSE f[First(u)] + g[u \ {First(u)}]
      BY <1>5, <3>1 DEF Running
    <3>. QED
      BY <3>1, <3>2
  <2>2. k = [u \in SUBSET V |-> IF u = {} THEN 0 ELSE f[First(u)] + k[u \ {First(u)}]]
    BY <2>1
  <2>3. Running(f, V, k)
    BY <2>2 DEF Running
  <2>4. k[V] = Sum(V)
    <3>. HIDE DEF k
    <3>. QED
      BY <1>5, <2>3 DEF SumsWell
  <2>. QED
    BY <2>4
<1>6. ASSUME NEW g, Running(f, T, g)
      PROVE  g[T] = Unfolded(T)
  <2>1. g[T] = IF T = {} THEN 0 ELSE f[First(T)] + g[T \ {First(T)}]
    BY <1>6 DEF Running
  <2>. QED
    BY <1>1, <1>5, <1>6, <2>1
<1>7. Sum(T) = Unfolded(T)
  <2>1. Running(f, T, CHOOSE g : Running(f, T, g))
    <3>. HIDE DEF h
    <3>. QED
      BY <1>4
  <2>. QED
    BY <1>6, <2>1, FoldsToChoice
<1>8. \A g : Running(f, T, g) => \A V \in SUBSET T : g[V] = Sum(V)
  BY <1>5, <1>6, <1>7
<1>. HIDE DEF h
<1>. QED
  BY <1>4, <1>8 DEF SumsWell

\* A sum of nothing is nothing; another is its first turn's and the rest's.
LEMMA SumUnfolds ==
  ASSUME NEW f, NEW S, IsFiniteSet(S)
  PROVE  SumFunctionOnSet(f, S) =
           IF S = {} THEN 0 ELSE f[First(S)] + SumFunctionOnSet(f, S \ {First(S)})
<1>1. SumsWell(f, S)
  <2>. DEFINE Bad == {T \in SUBSET S : ~SumsWell(f, T)}
  <2>1. CASE Bad # {}
    <3>1. Bad \in SUBSET SUBSET S
      OBVIOUS
    <3>2. PICK T \in Bad : \A U \in Bad : U \subseteq T => U = T
      <4>. HIDE DEF Bad
      <4>. QED
        BY <2>1, <3>1, Smallest
    <3>3. \A U \in SUBSET T : U # T => SumsWell(f, U)
      BY <3>2
    <3>. QED
      BY <3>2, <3>3, SumsWellStep
  <2>. QED
    BY <2>1
<1>2. PICK g : Running(f, S, g)
  BY <1>1 DEF SumsWell
<1>3. \A V \in SUBSET S : g[V] = SumFunctionOnSet(f, V)
  BY <1>1, <1>2 DEF SumsWell
<1>4. g[S] = IF S = {} THEN 0 ELSE f[First(S)] + g[S \ {First(S)}]
  BY <1>2 DEF Running
<1>5. S \ {First(S)} \in SUBSET S /\ S \in SUBSET S
  OBVIOUS
<1>. QED
  BY <1>3, <1>4, <1>5

\* When one turn costs more, so does the sum of those it is one of.
SumFollows(f, t, v, S) ==
  /\ SumFunctionOnSet(f, S) \in Int
  /\ SumFunctionOnSet([f EXCEPT ![t] = v], S) =
       IF t \in S THEN SumFunctionOnSet(f, S) - f[t] + v ELSE SumFunctionOnSet(f, S)

LEMMA SumChanges ==
  ASSUME NEW f \in [Turns -> Nat], NEW t \in Turns, NEW v \in Nat, IsFiniteSet(Turns)
  PROVE  /\ SumFunction(f) \in Int
         /\ SumFunction([f EXCEPT ![t] = v]) = SumFunction(f) - f[t] + v
<1>. DEFINE Bad == {S \in SUBSET Turns : ~SumFollows(f, t, v, S)}
<1>1. CASE Bad # {}
  <2>1. Bad \in SUBSET SUBSET Turns
    OBVIOUS
  <2>2. PICK S \in Bad : \A U \in Bad : U \subseteq S => U = S
    <3>. HIDE DEF Bad
    <3>. QED
      BY <1>1, <2>1, Smallest
  <2>3. IsFiniteSet(S) /\ S \subseteq Turns
    BY <2>2, FS_Subset
  <2>4. CASE S = {}
    <3>1. PICK g : g = [f EXCEPT ![t] = v]
      OBVIOUS
    <3>2. SumFunctionOnSet(f, S) = 0 /\ SumFunctionOnSet(g, S) = 0
      BY <2>3, <2>4, SumUnfolds
    <3>3. SumFollows(f, t, v, S)
      BY <2>4, <3>1, <3>2 DEF SumFollows
    <3>. QED
      BY <2>2, <3>3
  <2>5. CASE S # {}
    <3>1. PICK x \in S : x = First(S)
      BY <2>5 DEF First
    <3>2. PICK R : R = S \ {x}
      OBVIOUS
    <3>3. SumFollows(f, t, v, R)
      BY <2>2, <2>3, <3>1, <3>2
    <3>4. PICK g : g = [f EXCEPT ![t] = v]
      OBVIOUS
    <3>5. /\ SumFunctionOnSet(f, S) = f[x] + SumFunctionOnSet(f, R)
          /\ SumFunctionOnSet(g, S) = g[x] + SumFunctionOnSet(g, R)
      BY <2>3, <2>5, <3>1, <3>2, SumUnfolds
    <3>6. g[x] = (IF x = t THEN v ELSE f[x]) /\ f[x] \in Nat /\ f[t] \in Nat
      BY <2>3, <3>1, <3>4
    <3>7. t \in S <=> x = t \/ t \in R
      BY <3>1, <3>2
    <3>8. x \notin R
      BY <3>2
    <3>9. SumFollows(f, t, v, S)
      BY <3>3, <3>4, <3>5, <3>6, <3>7, <3>8 DEF SumFollows
    <3>. QED
      BY <2>2, <3>9
  <2>. QED
    BY <2>4, <2>5
<1>2. CASE Bad = {}
  <2>1. SumFollows(f, t, v, Turns)
    BY <1>2
  <2>2. PICK g : g = [f EXCEPT ![t] = v]
    OBVIOUS
  <2>3. DOMAIN f = Turns /\ DOMAIN g = Turns
    BY <2>2
  <2>4. SumFunction(f) = SumFunctionOnSet(f, Turns) /\ SumFunction(g) = SumFunctionOnSet(g, Turns)
    BY <2>3 DEF SumFunction
  <2>. QED
    BY <2>1, <2>2, <2>4 DEF SumFollows
<1>. HIDE DEF Bad
<1>. QED
  BY <1>1, <1>2

\* What costs nothing sums up to nothing.
LEMMA SumOfNothing ==
  ASSUME IsFiniteSet(Turns)
  PROVE  SumFunction([t \in Turns |-> 0]) = 0
<1>. DEFINE f == [t \in Turns |-> 0]
            Bad == {S \in SUBSET Turns : SumFunctionOnSet(f, S) # 0}
<1>1. CASE Bad # {}
  <2>1. Bad \in SUBSET SUBSET Turns
    OBVIOUS
  <2>2. PICK S \in Bad : \A U \in Bad : U \subseteq S => U = S
    <3>. HIDE DEF Bad
    <3>. QED
      BY <1>1, <2>1, Smallest
  <2>3. IsFiniteSet(S)
    BY <2>2, FS_Subset
  <2>4. S = {} \/ (First(S) \in S /\ S \ {First(S)} \in SUBSET Turns /\ S \ {First(S)} # S)
    BY <2>2 DEF First
  <2>5. S # {} => SumFunctionOnSet(f, S \ {First(S)}) = 0 /\ f[First(S)] = 0
    BY <2>2, <2>4
  <2>6. SumFunctionOnSet(f, S) = 0
    <3>. HIDE DEF f
    <3>. QED
      BY <2>3, <2>5, SumUnfolds
  <2>. QED
    BY <2>2, <2>6
<1>. QED
  BY <1>1 DEF SumFunction

-----------------------------------------------------------------------------
(* The shape of the state.                                                  *)

Entry == [who : Who, words : SUBSET Nat]
Interview ==
  [stopped : BOOLEAN, goAway : BOOLEAN, poll : BOOLEAN, turns : Seq(Entry),
   pendingUser : SUBSET Nat, pendingAgent : SUBSET Nat, cut : BOOLEAN]
Server ==
  [turn : 0 .. MaxTurns, phase : {"quiet", "working", "generated", "cut"}, voice : Nat,
   words : BOOLEAN, cost : Nat, due : BOOLEAN, speech : Nat, barged : BOOLEAN, late : BOOLEAN]
Used == [upsets : Nat, utterances : Nat, tokens : Nat]
Conv == [s : Session, iv : Interview, told : [Turns -> Nat], turn : Nat]

TypeOK ==
  /\ s \in Session /\ iv \in Interview /\ server \in Server /\ used \in Used
  /\ told \in [Turns -> Nat] /\ spent \in [Turns -> Nat] /\ broken \subseteq Turns

\* y has what x has but for the fields of F.
SessionFields ==
  {"closed", "muted", "playing", "run", "content", "voiced", "text", "notify", "state", "salvage",
   "idleDefer", "turnUsage", "usage", "awaiting", "spoke", "speaking", "wall"}
InterviewFields ==
  {"stopped", "goAway", "poll", "turns", "pendingUser", "pendingAgent", "cut"}
SameBut(x, y, F) == \A f \in SessionFields \ F : y[f] = x[f]
AlsoBut(x, y, F) == \A f \in InterviewFields \ F : y[f] = x[f]

-----------------------------------------------------------------------------
(* What the handlers do to a conversation.                                  *)

LEMMA BankEffect ==
  ASSUME NEW x \in Session, NEW y, y = BankTurnUsage(x)
  PROVE  /\ y \in Session /\ SameBut(x, y, {"usage", "turnUsage"})
         /\ y.usage = x.usage + x.turnUsage /\ y.turnUsage = 0
<1>1. PICK n \in Nat : n = x.usage + x.turnUsage
  BY DEF Session
<1>2. y = [x EXCEPT !.usage = n, !.turnUsage = 0]
  BY <1>1 DEF BankTurnUsage
<1>3. \A m \in Nat : [x EXCEPT !.usage = m, !.turnUsage = 0] \in Session
  BY DEF Session
<1>4. y \in Session
  BY <1>1, <1>2, <1>3
<1>. QED
  BY <1>1, <1>2, <1>4 DEF Session, SameBut, SessionFields

LEMMA QueueEffect ==
  ASSUME NEW x \in Session, NEW y, y = QueueFlushed(x)
  PROVE  /\ y \in Session /\ SameBut(x, y, {"playing", "run"})
         /\ y.playing = 0 /\ ~y.run
BY DEF QueueFlushed, Session, SameBut, SessionFields

LEMMA LineType ==
  ASSUME NEW who \in Who, NEW words \in SUBSET Nat
  PROVE  Line(who, words) \in Seq(Entry)
<1>1. PICK e : e = [who |-> who, words |-> words]
  OBVIOUS
<1>2. e \in Entry
  BY <1>1 DEF Entry
<1>3. <<>> \in Seq(Entry) /\ <<e>> \in Seq(Entry)
  BY <1>2
<1>. QED
  BY <1>1, <1>3 DEF Line

\* What was said is written down; nothing is said twice.
LEMMA FlushEffect ==
  ASSUME NEW v \in Interview, NEW w, w = Flushed(v)
  PROVE  /\ w \in Interview /\ AlsoBut(v, w, {"turns", "pendingUser", "pendingAgent"})
         /\ w.pendingUser = {} /\ w.pendingAgent = {}
         /\ w.turns = v.turns \o Line("You", v.pendingUser) \o Line("VYNE", v.pendingAgent)
<1>1. PICK t : t = v.turns \o Line("You", v.pendingUser) \o Line("VYNE", v.pendingAgent)
  OBVIOUS
<1>2. w = [v EXCEPT !.turns = t, !.pendingUser = {}, !.pendingAgent = {}]
  BY <1>1 DEF Flushed
<1>3. Line("You", v.pendingUser) \in Seq(Entry) /\ Line("VYNE", v.pendingAgent) \in Seq(Entry)
  BY LineType DEF Who, Interview
<1>4. t \in Seq(Entry)
  BY <1>1, <1>3 DEF Interview
<1>5. w \in Interview
  BY <1>2, <1>4 DEF Interview
<1>. QED
  BY <1>1, <1>2, <1>5 DEF Interview, AlsoBut, InterviewFields

Tells(c) == c.s.notify /\ ~c.s.muted

LEMMA DrainEffect ==
  ASSUME NEW c \in Conv, NEW d, d = DrainNotice(c)
  PROVE  /\ d \in Conv /\ d.turn = c.turn
         /\ SameBut(c.s, d.s, {"notify"}) /\ ~d.s.notify
         /\ d.told = (IF Tells(c) THEN [c.told EXCEPT ![c.turn] = @ + 1] ELSE c.told)
         /\ d.iv = (IF Tells(c) THEN Flushed(c.iv) ELSE c.iv)
<1>1. PICK x : x = [c.s EXCEPT !.notify = FALSE]
  OBVIOUS
<1>2. x \in Session /\ SameBut(c.s, x, {"notify"}) /\ ~x.notify
  BY <1>1 DEF Conv, Session, SameBut, SessionFields
<1>3. PICK t : t = [c.told EXCEPT ![c.turn] = @ + 1]
  OBVIOUS
<1>4. t \in [Turns -> Nat]
  <2>1. PICK f \in [Turns -> Nat] : f = c.told
    BY DEF Conv
  <2>2. \A k \in Turns : f[k] \in Nat /\ f[k] + 1 \in Nat
    BY <2>1
  <2>. QED
    BY <1>3, <2>1, <2>2
<1>5. PICK w : w = Flushed(c.iv)
  OBVIOUS
<1>6. w \in Interview
  BY <1>5, FlushEffect DEF Conv
<1>7. CASE Tells(c)
  <2>1. d = [c EXCEPT !.s = x, !.iv = w, !.told = t]
    BY <1>1, <1>3, <1>5, <1>7 DEF DrainNotice, TurnCompleted, Tells, Conv
  <2>2. d \in Conv
    BY <2>1, <1>2, <1>4, <1>6 DEF Conv
  <2>. QED
    BY <2>1, <2>2, <1>2, <1>3, <1>5, <1>7 DEF Conv
<1>8. CASE ~Tells(c)
  <2>1. d = [c EXCEPT !.s = x]
    BY <1>1, <1>8 DEF DrainNotice, Tells, Conv
  <2>. QED
    BY <2>1, <1>2, <1>8 DEF Conv
<1>. QED
  BY <1>7, <1>8

\* w is v after what was said was written down, or was not.
Written(v, w, flush) ==
  /\ w \in Interview
  /\ flush => /\ w.pendingUser = {} /\ w.pendingAgent = {}
              /\ w.turns = v.turns \o Line("You", v.pendingUser) \o Line("VYNE", v.pendingAgent)
  /\ ~flush => /\ w.pendingUser = v.pendingUser /\ w.pendingAgent = v.pendingAgent
               /\ w.turns = v.turns

\* The session is over: its usage is banked, its notice given, its queue empty.
Over(c, d) ==
  /\ d \in Conv /\ d.turn = c.turn
  /\ SameBut(c.s, d.s, {"closed", "notify", "playing", "run", "idleDefer", "salvage",
                        "usage", "turnUsage"})
  /\ d.s.closed /\ ~d.s.notify /\ d.s.playing = 0 /\ ~d.s.run /\ ~d.s.idleDefer /\ ~d.s.salvage
  /\ d.s.turnUsage = 0 /\ d.s.usage = c.s.usage + c.s.turnUsage
  /\ d.told = (IF Tells(c) THEN [c.told EXCEPT ![c.turn] = @ + 1] ELSE c.told)
  /\ Written(c.iv, d.iv, Tells(c))

LEMMA StopEffect ==
  ASSUME NEW c \in Conv, NEW d, d = Stop(c)
  PROVE  Over(c, d) /\ AlsoBut(c.iv, d.iv, {"turns", "pendingUser", "pendingAgent"})
<1>1. PICK a : a = [c EXCEPT !.s.closed = TRUE]
  OBVIOUS
<1>2. /\ a \in Conv /\ a.turn = c.turn /\ a.told = c.told /\ a.iv = c.iv
      /\ SameBut(c.s, a.s, {"closed"}) /\ a.s.closed
  <2>1. [c.s EXCEPT !.closed = TRUE] \in Session
    BY DEF Conv, Session
  <2>2. a \in Conv
    BY <1>1, <2>1 DEF Conv
  <2>. QED
    BY <1>1, <2>2 DEF Conv, Session, SameBut, SessionFields
<1>3. Tells(a) <=> Tells(c)
  BY <1>2 DEF Tells, SameBut, SessionFields
<1>4. PICK b : b = DrainNotice(a)
  OBVIOUS
<1>5. /\ b \in Conv /\ b.turn = a.turn /\ SameBut(a.s, b.s, {"notify"}) /\ ~b.s.notify
      /\ b.told = (IF Tells(a) THEN [a.told EXCEPT ![a.turn] = @ + 1] ELSE a.told)
      /\ b.iv = (IF Tells(a) THEN Flushed(a.iv) ELSE a.iv)
  BY <1>2, <1>4, DrainEffect
<1>6. PICK x : x = QueueFlushed(b.s)
  OBVIOUS
<1>7. x \in Session /\ SameBut(b.s, x, {"playing", "run"}) /\ x.playing = 0 /\ ~x.run
  BY <1>5, <1>6, QueueEffect DEF Conv
<1>8. PICK y : y = BankTurnUsage(x)
  OBVIOUS
<1>9. /\ y \in Session /\ SameBut(x, y, {"usage", "turnUsage"})
      /\ y.usage = x.usage + x.turnUsage /\ y.turnUsage = 0
  BY <1>7, <1>8, BankEffect
<1>10. PICK z : z = [y EXCEPT !.idleDefer = FALSE, !.salvage = FALSE]
  OBVIOUS
<1>11. z \in Session /\ SameBut(y, z, {"idleDefer", "salvage"}) /\ ~z.idleDefer /\ ~z.salvage
  BY <1>9, <1>10 DEF Session, SameBut, SessionFields
<1>12. d = [b EXCEPT !.s = z]
  BY <1>1, <1>4, <1>6, <1>8, <1>10 DEF Stop
<1>13. d \in Conv /\ d.s = z /\ d.turn = b.turn /\ d.told = b.told /\ d.iv = b.iv
  BY <1>5, <1>11, <1>12 DEF Conv
<1>14. /\ SameBut(c.s, z, {"closed", "notify", "playing", "run", "idleDefer", "salvage",
                           "usage", "turnUsage"})
       /\ z.closed /\ ~z.notify /\ z.playing = 0 /\ ~z.run /\ z.turnUsage = 0
       /\ z.usage = c.s.usage + c.s.turnUsage
  BY <1>2, <1>5, <1>7, <1>9, <1>11 DEF SameBut, SessionFields
<1>15. /\ Written(c.iv, d.iv, Tells(c))
       /\ AlsoBut(c.iv, d.iv, {"turns", "pendingUser", "pendingAgent"})
  <2>1. d.iv \in Interview
    BY <1>13 DEF Conv
  <2>2. CASE Tells(c)
    BY <2>1, <2>2, <1>2, <1>3, <1>5, <1>13, FlushEffect DEF Written, Conv
  <2>3. CASE ~Tells(c)
    BY <2>1, <2>3, <1>2, <1>3, <1>5, <1>13 DEF Written, AlsoBut
  <2>. QED
    BY <2>2, <2>3
<1>. QED
  BY <1>2, <1>3, <1>5, <1>11, <1>13, <1>14, <1>15 DEF Over

LEMMA HandOverEffect ==
  ASSUME NEW c \in Conv, NEW cut \in BOOLEAN, NEW d, d = HandOver(c, cut)
  PROVE  /\ Over(c, d) /\ d.iv.stopped = c.iv.stopped /\ ~d.iv.goAway
         /\ d.iv.cut <=> c.iv.cut \/ cut
<1>1. PICK v : v = [c.iv EXCEPT !.poll = FALSE, !.goAway = FALSE, !.cut = @ \/ cut]
  OBVIOUS
<1>2. /\ v \in Interview /\ AlsoBut(c.iv, v, {"poll", "goAway", "cut"}) /\ ~v.goAway
      /\ v.cut <=> c.iv.cut \/ cut
  BY <1>1 DEF Conv, Interview, AlsoBut, InterviewFields
<1>3. PICK a : a = [c EXCEPT !.iv = v]
  OBVIOUS
<1>4. a \in Conv /\ a.turn = c.turn /\ a.told = c.told /\ a.s = c.s /\ a.iv = v
  BY <1>2, <1>3 DEF Conv
<1>5. d = Stop(a)
  <2>1. [c EXCEPT !.iv.poll = FALSE, !.iv.goAway = FALSE, !.iv.cut = @ \/ cut] = a
    BY <1>1, <1>3 DEF Conv
  <2>. QED
    BY <2>1 DEF HandOver
<1>6. Over(a, d) /\ AlsoBut(v, d.iv, {"turns", "pendingUser", "pendingAgent"})
  BY <1>4, <1>5, StopEffect
<1>7. Tells(a) <=> Tells(c)
  BY <1>4 DEF Tells
<1>8. v.turns = c.iv.turns /\ v.pendingUser = c.iv.pendingUser /\ v.pendingAgent = c.iv.pendingAgent
  BY <1>2 DEF AlsoBut, InterviewFields
<1>9. Written(c.iv, d.iv, Tells(c))
  BY <1>4, <1>6, <1>7, <1>8 DEF Written, Over
<1>10. Over(c, d)
  BY <1>4, <1>6, <1>7, <1>9 DEF Over
<1>. QED
  BY <1>2, <1>6, <1>10 DEF AlsoBut, InterviewFields

\* Nothing but the poll of the pending goAway changed.
Waits(c, d) ==
  /\ d \in Conv /\ d.turn = c.turn /\ d.s = c.s /\ d.told = c.told
  /\ AlsoBut(c.iv, d.iv, {"poll"})

\* The conversation was handed over; words were only cut off an interviewee who
\* was speaking at what looked like a turn boundary.
HandedOver(c, d) ==
  /\ ~c.s.closed /\ ~c.s.muted /\ c.iv.goAway /\ ~c.iv.stopped
  /\ Over(c, d) /\ d.iv.stopped = c.iv.stopped /\ ~d.iv.goAway
  /\ d.iv.cut => \/ c.iv.cut
                 \/ c.s.speaking /\ c.s.spoke = "no" /\ c.s.state \notin {"speaking", "thinking"}

Renewed(c, d) == Waits(c, d) \/ HandedOver(c, d)

LEMMA RenewEffect ==
  ASSUME NEW c \in Conv, NEW q \in Clock, NEW d, d = MaybeRenewOnGoAway(c, q)
  PROVE  Renewed(c, d)
<1>. DEFINE x == c.s
            mustGo == x.wall = "passed"
            atBoundary == x.spoke = "no"
            waitForBoundary == x.spoke = "yes" /\ x.wall = "far"
            off == ~c.iv.goAway \/ c.iv.stopped \/ x.muted \/ x.closed
            busy == ~Stalled(x, q) /\ ~mustGo /\ x.state \in {"speaking", "thinking"}
            between == /\ ~mustGo /\ ~Stalled(x, q) /\ ~atBoundary
                       /\ waitForBoundary \/ x.speaking \/ ~q.quiet
<1>1. d = (IF off THEN c ELSE IF busy THEN ModelAtWork(c) ELSE IF between THEN Deferred(c)
           ELSE HandOver(c, x.speaking /\ ~mustGo))
  BY DEF MaybeRenewOnGoAway
<1>2. Waits(c, c)
  BY DEF Waits, AlsoBut
<1>3. Waits(c, Deferred(c))
  <2>1. PICK v : v = [c.iv EXCEPT !.poll = TRUE]
    OBVIOUS
  <2>2. v \in Interview /\ AlsoBut(c.iv, v, {"poll"})
    BY <2>1 DEF Conv, Interview, AlsoBut, InterviewFields
  <2>3. Deferred(c) = [c EXCEPT !.iv = v]
    BY <2>1 DEF Deferred, Conv
  <2>. QED
    BY <2>2, <2>3 DEF Waits, Conv
<1>4. CASE off \/ busy \/ between
  BY <1>1, <1>2, <1>3, <1>4 DEF Renewed, ModelAtWork
<1>5. CASE ~off /\ ~busy /\ ~between
  <2>1. PICK cut \in BOOLEAN : cut = (x.speaking /\ ~mustGo)
    BY DEF Conv, Session
  <2>2. d = HandOver(c, cut)
    BY <1>1, <1>5, <2>1
  <2>3. /\ Over(c, d) /\ d.iv.stopped = c.iv.stopped /\ ~d.iv.goAway
        /\ d.iv.cut <=> c.iv.cut \/ cut
    BY <2>2, HandOverEffect
  <2>4. cut => x.speaking /\ x.spoke = "no" /\ x.state \notin {"speaking", "thinking"}
    BY <2>1, <1>5 DEF Stalled
  <2>. QED
    BY <1>5, <2>3, <2>4 DEF Renewed, HandedOver, Conv, Session, Interview
<1>. QED
  BY <1>4, <1>5

\* c with its turn in another state, before a pending goAway is looked at.
InState(c, x, state) ==
  /\ x \in Conv /\ x.turn = c.turn /\ x.told = c.told /\ x.iv = c.iv
  /\ SameBut(c.s, x.s, {"idleDefer", "state"})
  /\ x.s.state = state /\ (x.s.idleDefer <=> c.s.idleDefer /\ state = "idle")

LEMMA TurnStateEffect ==
  ASSUME NEW c \in Conv, NEW q \in Clock, NEW state \in {"thinking", "speaking", "idle"},
         NEW d, d = SetTurnState(c, state, q)
  PROVE  \E x : InState(c, x, state) /\ Renewed(x, d) /\ (state # "idle" => d = x)
<1>1. PICK y : y = [c.s EXCEPT !.idleDefer = @ /\ state = "idle", !.state = state]
  OBVIOUS
<1>2. /\ y \in Session /\ SameBut(c.s, y, {"idleDefer", "state"})
      /\ y.state = state /\ (y.idleDefer <=> c.s.idleDefer /\ state = "idle")
  BY <1>1 DEF Conv, Session, SameBut, SessionFields
<1>3. PICK x : x = [c EXCEPT !.s = y]
  OBVIOUS
<1>4. InState(c, x, state)
  BY <1>2, <1>3 DEF InState, Conv
<1>5. x = [c EXCEPT !.s.idleDefer = @ /\ state = "idle", !.s.state = state]
  BY <1>1, <1>3 DEF Conv
<1>6. d = (IF c.s.state # state /\ state = "idle" THEN MaybeRenewOnGoAway(x, q) ELSE x)
  BY <1>5 DEF SetTurnState
<1>7. Renewed(x, d)
  <2>1. Waits(x, x)
    BY <1>4 DEF Waits, AlsoBut, InState
  <2>. QED
    BY <1>4, <1>6, <2>1, RenewEffect DEF InState, Renewed
<1>. QED
  BY <1>4, <1>6, <1>7

\* c with its turn closed, before the floor is given away.
TurnClosed(c, x) ==
  /\ x \in Conv /\ x.turn = c.turn /\ x.told = c.told /\ x.iv = c.iv
  /\ SameBut(c.s, x.s, {"usage", "turnUsage", "content", "spoke", "notify", "run", "voiced",
                        "text", "salvage", "idleDefer"})
  /\ x.s.usage = c.s.usage + c.s.turnUsage /\ x.s.turnUsage = 0
  /\ ~x.s.content /\ x.s.spoke = "no" /\ x.s.notify /\ ~x.s.run /\ ~x.s.voiced /\ ~x.s.text
  /\ ~x.s.salvage /\ (x.s.idleDefer <=> HoldFloor(c.s))

LEMMA CloseEffect ==
  ASSUME NEW c \in Conv, NEW q \in Clock, NEW d, d = CloseTurn(c, q)
  PROVE  /\ ~Closable(c.s) => d = c
         /\ Closable(c.s) =>
              \E x : /\ TurnClosed(c, x)
                     /\ HoldFloor(c.s) => d = x
                     /\ ~HoldFloor(c.s) => \E y : InState(x, y, "idle") /\ Renewed(y, d)
<1>1. PICK b : b = BankTurnUsage(c.s)
  OBVIOUS
<1>2. /\ b \in Session /\ SameBut(c.s, b, {"usage", "turnUsage"})
      /\ b.usage = c.s.usage + c.s.turnUsage /\ b.turnUsage = 0
  BY <1>1, BankEffect DEF Conv
<1>3. PICK hold \in BOOLEAN : hold = HoldFloor(c.s)
  BY DEF HoldFloor, Conv, Session
<1>4. PICK y : y = [b EXCEPT !.content = FALSE, !.spoke = "no", !.notify = TRUE, !.run = FALSE,
                             !.voiced = FALSE, !.text = FALSE, !.salvage = FALSE,
                             !.idleDefer = hold]
  OBVIOUS
<1>5. /\ y \in Session
      /\ SameBut(b, y, {"content", "spoke", "notify", "run", "voiced", "text", "salvage",
                        "idleDefer"})
      /\ ~y.content /\ y.spoke = "no" /\ y.notify /\ ~y.run /\ ~y.voiced /\ ~y.text /\ ~y.salvage
      /\ y.idleDefer = hold
  BY <1>2, <1>4 DEF Session, SameBut, SessionFields
<1>6. PICK x : x = [c EXCEPT !.s = y]
  OBVIOUS
<1>7. x \in Conv /\ x.turn = c.turn /\ x.told = c.told /\ x.iv = c.iv /\ x.s = y
  BY <1>5, <1>6 DEF Conv
<1>8. TurnClosed(c, x)
  BY <1>2, <1>3, <1>5, <1>7 DEF TurnClosed, SameBut, SessionFields
<1>9. x = [c EXCEPT !.s = [BankTurnUsage(@) EXCEPT
                             !.content = FALSE, !.spoke = "no", !.notify = TRUE, !.run = FALSE,
                             !.voiced = FALSE, !.text = FALSE, !.salvage = FALSE,
                             !.idleDefer = HoldFloor(c.s)]]
  BY <1>1, <1>3, <1>4, <1>6 DEF Conv
<1>10. d = (IF ~Closable(c.s) THEN c ELSE IF HoldFloor(c.s) THEN x ELSE SetTurnState(x, "idle", q))
  BY <1>9 DEF CloseTurn
<1>11. ~HoldFloor(c.s) /\ Closable(c.s) => \E z : InState(x, z, "idle") /\ Renewed(z, d)
  BY <1>7, <1>10, TurnStateEffect
<1>. QED
  BY <1>8, <1>10, <1>11

-----------------------------------------------------------------------------
(* What a frame does.                                                       *)

Frame ==
  [voice : BOOLEAN, words : BOOLEAN, think : BOOLEAN, generated : BOOLEAN,
   turnComplete : BOOLEAN, interrupted : BOOLEAN, heard : Nat, goAway : BOOLEAN, usage : Nat]

LEMMA ActivityEffect ==
  ASSUME NEW c \in Conv, NEW f \in Frame, NEW q \in Clock, ~f.turnComplete,
         NEW n, n = NoteModelActivity(c, f, q)
  PROVE  /\ n \in Conv /\ n.turn = c.turn /\ n.told = c.told /\ n.iv = c.iv
         /\ SameBut(c.s, n.s, {"content", "awaiting", "text", "voiced", "state", "idleDefer",
                               "salvage"})
         /\ n.s.content <=> c.s.content \/ f.voice \/ f.think
         /\ n.s.text <=> c.s.text \/ f.words
         /\ n.s.voiced <=> c.s.voiced \/ f.voice
         /\ n.s.state = (IF c.s.voiced THEN c.s.state ELSE IF f.voice THEN "speaking"
                         ELSE IF f.think THEN "thinking" ELSE c.s.state)
         /\ n.s.idleDefer <=> c.s.idleDefer /\ (c.s.voiced \/ ~(f.voice \/ f.think))
         /\ n.s.salvage <=> SalvageArmed(c.s.salvage, f)
<1>. DEFINE A == [c EXCEPT !.s.content = @ \/ f.voice \/ f.think,
                     !.s.awaiting = @ /\ ~(f.think \/ f.voice \/ f.words \/ f.turnComplete),
                     !.s.text = @ \/ f.words]
            T == IF f.think /\ ~c.s.voiced THEN SetTurnState(A, "thinking", q) ELSE A
            V == IF f.voice /\ ~c.s.voiced
                 THEN SetTurnState([T EXCEPT !.s.voiced = TRUE], "speaking", q) ELSE T
            G == [V EXCEPT !.s.salvage = ~f.turnComplete /\ SalvageArmed(@, f)]
<1>0. n = IF f.turnComplete THEN CloseTurn(G, q) ELSE G
  BY Zenon DEF NoteModelActivity
<1>1. PICK x : x = [c.s EXCEPT !.content = @ \/ f.voice \/ f.think,
                     !.awaiting = @ /\ ~(f.think \/ f.voice \/ f.words \/ f.turnComplete),
                     !.text = @ \/ f.words]
  OBVIOUS
<1>2. /\ x \in Session /\ SameBut(c.s, x, {"content", "awaiting", "text"})
      /\ x.content <=> c.s.content \/ f.voice \/ f.think
      /\ x.text <=> c.s.text \/ f.words
  <2>1. PICK g \in BOOLEAN : g = (c.s.content \/ f.voice \/ f.think)
    BY DEF Conv, Session, Frame
  <2>2. PICK h \in BOOLEAN :
          h = (c.s.awaiting /\ ~(f.think \/ f.voice \/ f.words \/ f.turnComplete))
    BY DEF Conv, Session, Frame
  <2>3. PICK k \in BOOLEAN : k = (c.s.text \/ f.words)
    BY DEF Conv, Session, Frame
  <2>4. x = [c.s EXCEPT !.content = g, !.awaiting = h, !.text = k]
    BY <1>1, <2>1, <2>2, <2>3
  <2>5. x \in Session
    <3>1. \A i, j, m \in BOOLEAN :
            [c.s EXCEPT !.content = i, !.awaiting = j, !.text = m] \in Session
      BY DEF Conv, Session
    <3>. QED
      BY <2>1, <2>2, <2>3, <2>4, <3>1
  <2>6. SameBut(c.s, x, {"content", "awaiting", "text"}) /\ x.content = g /\ x.text = k
    BY <2>4 DEF Conv, Session, SameBut, SessionFields
  <2>. QED
    BY <2>1, <2>3, <2>5, <2>6
<1>3. PICK a : a = [c EXCEPT !.s = x]
  OBVIOUS
<1>4. a \in Conv /\ a.turn = c.turn /\ a.told = c.told /\ a.iv = c.iv /\ a.s = x
  BY <1>2, <1>3 DEF Conv
<1>5. a = [c EXCEPT !.s.content = @ \/ f.voice \/ f.think,
                    !.s.awaiting = @ /\ ~(f.think \/ f.voice \/ f.words \/ f.turnComplete),
                    !.s.text = @ \/ f.words]
  BY <1>1, <1>3 DEF Conv
<1>6. PICK t : t = (IF f.think /\ ~c.s.voiced THEN SetTurnState(a, "thinking", q) ELSE a)
  OBVIOUS
<1>7. /\ t \in Conv /\ t.turn = c.turn /\ t.told = c.told /\ t.iv = c.iv
      /\ SameBut(x, t.s, {"state", "idleDefer"})
      /\ t.s.state = (IF f.think /\ ~c.s.voiced THEN "thinking" ELSE x.state)
      /\ t.s.idleDefer <=> x.idleDefer /\ ~(f.think /\ ~c.s.voiced)
  <2>1. CASE f.think /\ ~c.s.voiced
    <3>1. InState(a, t, "thinking")
      BY <1>4, <1>6, <2>1, TurnStateEffect
    <3>. QED
      BY <3>1, <1>4, <2>1 DEF InState
  <2>2. CASE ~(f.think /\ ~c.s.voiced)
    BY <1>4, <1>6, <2>2 DEF SameBut
  <2>. QED
    BY <2>1, <2>2
<1>8. PICK e : e = [t EXCEPT !.s.voiced = TRUE]
  OBVIOUS
<1>9. /\ e \in Conv /\ e.turn = c.turn /\ e.told = c.told /\ e.iv = c.iv
      /\ SameBut(t.s, e.s, {"voiced"}) /\ e.s.voiced
  <2>1. [t.s EXCEPT !.voiced = TRUE] \in Session
    BY <1>7 DEF Conv, Session
  <2>2. e \in Conv
    BY <1>7, <1>8, <2>1 DEF Conv
  <2>. QED
    BY <1>7, <1>8, <2>2 DEF Conv, Session, SameBut, SessionFields
<1>10. PICK v : v = (IF f.voice /\ ~c.s.voiced THEN SetTurnState(e, "speaking", q) ELSE t)
  OBVIOUS
<1>11. /\ v \in Conv /\ v.turn = c.turn /\ v.told = c.told /\ v.iv = c.iv
       /\ SameBut(t.s, v.s, {"state", "idleDefer", "voiced"})
       /\ v.s.voiced <=> t.s.voiced \/ f.voice
       /\ v.s.state = (IF f.voice /\ ~c.s.voiced THEN "speaking" ELSE t.s.state)
       /\ v.s.idleDefer <=> t.s.idleDefer /\ ~(f.voice /\ ~c.s.voiced)
  <2>0. t.s.voiced <=> c.s.voiced
    BY <1>2, <1>7 DEF SameBut, SessionFields
  <2>1. CASE f.voice /\ ~c.s.voiced
    <3>1. InState(e, v, "speaking")
      BY <1>9, <1>10, <2>1, TurnStateEffect
    <3>. QED
      BY <3>1, <1>9, <2>1 DEF InState, SameBut, SessionFields
  <2>2. CASE ~(f.voice /\ ~c.s.voiced)
    BY <2>0, <1>7, <1>10, <2>2 DEF SameBut
  <2>. QED
    BY <2>1, <2>2
<1>12. PICK b \in BOOLEAN : b = SalvageArmed(v.s.salvage, f)
  BY <1>11 DEF SalvageArmed, Conv, Session, Frame
<1>13. PICK y : y = [v.s EXCEPT !.salvage = b]
  OBVIOUS
<1>14. y \in Session /\ SameBut(v.s, y, {"salvage"}) /\ y.salvage = b
  BY <1>11, <1>13 DEF Conv, Session, SameBut, SessionFields
<1>15. n = [v EXCEPT !.s = y]
  <2>1. n = [v EXCEPT !.s.salvage = ~f.turnComplete /\ SalvageArmed(@, f)]
    <3>1. a = A
      BY <1>5
    <3>. HIDE DEF A
    <3>2. t = T
      BY Zenon, <1>6, <3>1
    <3>. HIDE DEF T
    <3>3. v = V
      BY Zenon, <1>8, <1>10, <3>2
    <3>. HIDE DEF V
    <3>4. n = G
      BY Zenon, <1>0
    <3>. QED
      BY Zenon, <3>3, <3>4
  <2>. QED
    BY <2>1, <1>11, <1>12, <1>13 DEF Conv, Session
<1>16. n \in Conv /\ n.turn = c.turn /\ n.told = c.told /\ n.iv = c.iv /\ n.s = y
  BY <1>11, <1>14, <1>15 DEF Conv
<1>17. SameBut(c.s, y, {"content", "awaiting", "text", "voiced", "state", "idleDefer", "salvage"})
  BY <1>2, <1>7, <1>11, <1>14 DEF SameBut, SessionFields
<1>18. /\ y.content <=> c.s.content \/ f.voice \/ f.think
       /\ y.text <=> c.s.text \/ f.words
       /\ y.voiced <=> c.s.voiced \/ f.voice
  BY <1>2, <1>7, <1>11, <1>14 DEF SameBut, SessionFields
<1>19. /\ y.state = (IF c.s.voiced THEN c.s.state ELSE IF f.voice THEN "speaking"
                     ELSE IF f.think THEN "thinking" ELSE c.s.state)
       /\ y.idleDefer <=> c.s.idleDefer /\ (c.s.voiced \/ ~(f.voice \/ f.think))
  BY <1>2, <1>7, <1>11, <1>14 DEF SameBut, SessionFields, Frame, Conv, Session
<1>20. y.salvage <=> SalvageArmed(c.s.salvage, f)
  BY <1>2, <1>7, <1>11, <1>12, <1>14 DEF SameBut, SessionFields
<1>. QED
  BY <1>16, <1>17, <1>18, <1>19, <1>20

\* The words a frame adds to what is waiting to be written down.
Adds(c, f, v) ==
  /\ v \in Interview /\ AlsoBut(c.iv, v, {"pendingUser", "pendingAgent"})
  /\ v.pendingUser = (IF f.heard > 0 THEN c.iv.pendingUser \cup {f.heard} ELSE c.iv.pendingUser)
  /\ v.pendingAgent = (IF f.words THEN c.iv.pendingAgent \cup {c.turn} ELSE c.iv.pendingAgent)

LEMMA DeliverEffect ==
  ASSUME NEW c \in Conv, NEW f \in Frame, NEW d, d = Delivered(c, f)
  PROVE  /\ d \in Conv /\ d.turn = c.turn
         /\ SameBut(c.s, d.s, {"notify", "playing", "run"}) /\ ~d.s.notify
         /\ d.s.playing = (IF f.voice THEN c.s.playing + 1 ELSE c.s.playing)
         /\ d.s.run <=> c.s.run \/ f.voice
         /\ d.told = (IF Tells(c) THEN [c.told EXCEPT ![c.turn] = @ + 1] ELSE c.told)
         /\ \E v : Adds(c, f, v) /\ d.iv = (IF Tells(c) THEN Flushed(v) ELSE v)
<1>1. PICK k \in Nat : k = (IF f.voice THEN c.s.playing + 1 ELSE c.s.playing)
  BY DEF Conv, Session
<1>2. PICK r \in BOOLEAN : r = (c.s.run \/ f.voice)
  BY DEF Conv, Session, Frame
<1>3. PICK x : x = [c.s EXCEPT !.playing = k, !.run = r]
  OBVIOUS
<1>4. x \in Session /\ SameBut(c.s, x, {"playing", "run"}) /\ x.playing = k /\ x.run = r
  <2>1. \A i \in Nat : [c.s EXCEPT !.playing = i, !.run = r] \in Session
    BY <1>2 DEF Conv, Session
  <2>2. x \in Session
    BY <1>1, <1>3, <2>1
  <2>. QED
    BY <1>3, <2>2 DEF Conv, Session, SameBut, SessionFields
<1>5. PICK w : w = (IF f.heard > 0 THEN c.iv.pendingUser \cup {f.heard} ELSE c.iv.pendingUser)
  OBVIOUS
<1>6. PICK g : g = (IF f.words THEN c.iv.pendingAgent \cup {c.turn} ELSE c.iv.pendingAgent)
  OBVIOUS
<1>7. w \in SUBSET Nat /\ g \in SUBSET Nat
  BY <1>5, <1>6 DEF Conv, Interview, Frame
<1>8. PICK v : v = [c.iv EXCEPT !.pendingUser = w, !.pendingAgent = g]
  OBVIOUS
<1>9. /\ v \in Interview /\ AlsoBut(c.iv, v, {"pendingUser", "pendingAgent"})
      /\ v.pendingUser = w /\ v.pendingAgent = g
  BY <1>7, <1>8 DEF Conv, Interview, AlsoBut, InterviewFields
<1>10. PICK a : a = [c EXCEPT !.s = x, !.iv = v]
  OBVIOUS
<1>11. a \in Conv /\ a.turn = c.turn /\ a.told = c.told /\ a.s = x /\ a.iv = v
  BY <1>4, <1>9, <1>10 DEF Conv
<1>12. d = DrainNotice(a)
  <2>1. a = [c EXCEPT !.s.playing = IF f.voice THEN @ + 1 ELSE @, !.s.run = @ \/ f.voice,
              !.iv.pendingUser = IF f.heard > 0 THEN @ \cup {f.heard} ELSE @,
              !.iv.pendingAgent = IF f.words THEN @ \cup {c.turn} ELSE @]
    BY <1>1, <1>2, <1>3, <1>5, <1>6, <1>8, <1>10 DEF Conv, Session, Interview
  <2>. QED
    BY <2>1 DEF Delivered
<1>13. /\ d \in Conv /\ d.turn = a.turn /\ SameBut(a.s, d.s, {"notify"}) /\ ~d.s.notify
       /\ d.told = (IF Tells(a) THEN [a.told EXCEPT ![a.turn] = @ + 1] ELSE a.told)
       /\ d.iv = (IF Tells(a) THEN Flushed(a.iv) ELSE a.iv)
  BY <1>11, <1>12, DrainEffect
<1>14. Tells(a) <=> Tells(c)
  BY <1>4, <1>11 DEF Tells, SameBut, SessionFields
<1>15. Adds(c, f, v)
  BY <1>5, <1>6, <1>9 DEF Adds
<1>16. SameBut(c.s, d.s, {"notify", "playing", "run"}) /\ d.s.playing = k /\ d.s.run = r
  BY <1>4, <1>11, <1>13 DEF SameBut, SessionFields
<1>. QED
  BY <1>1, <1>2, <1>11, <1>13, <1>14, <1>15, <1>16

LEMMA PairMax ==
  ASSUME NEW a \in Nat, NEW b \in Nat
  PROVE  Max({a, b}) = IF a >= b THEN a ELSE b
<1>1. \E x \in {a, b} : \A y \in {a, b} : x >= y
  OBVIOUS
<1>2. Max({a, b}) \in {a, b} /\ \A y \in {a, b} : Max({a, b}) >= y
  BY <1>1 DEF Max
<1>. QED
  BY <1>2

LEMMA UsageEffect ==
  ASSUME NEW x \in Session, NEW n \in Nat, NEW y, y = RecordUsage(x, n)
  PROVE  /\ y \in Session /\ SameBut(x, y, {"turnUsage"})
         /\ y.turnUsage = IF x.turnUsage >= n THEN x.turnUsage ELSE n
<1>1. PICK k \in Nat : k = IF x.turnUsage >= n THEN x.turnUsage ELSE n
  BY DEF Session
<1>2. y = [x EXCEPT !.turnUsage = k]
  BY <1>1, PairMax DEF RecordUsage, Session
<1>3. \A j \in Nat : [x EXCEPT !.turnUsage = j] \in Session
  BY DEF Session
<1>. QED
  BY <1>1, <1>2, <1>3 DEF Session, SameBut, SessionFields

\* The stages of OnMessage.
Heard(c, f) == [c EXCEPT !.s.awaiting = @ \/ f.heard > 0]

Taken(c, f) ==
  LET u == [c EXCEPT !.s = IF f.usage > 0 THEN RecordUsage(@, f.usage) ELSE @]
  IN  IF u.s.muted THEN Discarded(u) ELSE Delivered(u, f)

Warned(c) == [c EXCEPT !.s.wall = "far", !.iv.goAway = TRUE]

LEMMA Stages ==
  ASSUME NEW c, NEW f, NEW q
  PROVE  OnMessage(c, f, q) =
           LET w == IF f.goAway THEN MaybeRenewOnGoAway(Warned(c), q) ELSE c
               n == NoteModelActivity(Heard(w, f), f, q)
           IN  Taken(IF f.interrupted THEN Interrupted(n, q) ELSE n, f)
BY Zenon DEF OnMessage, Heard, Taken, Warned

LEMMA HeardEffect ==
  ASSUME NEW c \in Conv, NEW f \in Frame, NEW d, d = Heard(c, f)
  PROVE  /\ d \in Conv /\ d.turn = c.turn /\ d.told = c.told /\ d.iv = c.iv
         /\ SameBut(c.s, d.s, {"awaiting"})
<1>1. PICK b \in BOOLEAN : b = (c.s.awaiting \/ f.heard > 0)
  BY DEF Conv, Session, Frame
<1>2. PICK x : x = [c.s EXCEPT !.awaiting = b]
  OBVIOUS
<1>3. x \in Session /\ SameBut(c.s, x, {"awaiting"})
  BY <1>1, <1>2 DEF Conv, Session, SameBut, SessionFields
<1>4. d = [c EXCEPT !.s = x]
  BY <1>1, <1>2 DEF Heard, Conv
<1>. QED
  BY <1>3, <1>4 DEF Conv

LEMMA TakenEffect ==
  ASSUME NEW c \in Conv, NEW f \in Frame, NEW d, d = Taken(c, f)
  PROVE  /\ d \in Conv /\ d.turn = c.turn
         /\ SameBut(c.s, d.s, {"turnUsage", "notify", "playing", "run"}) /\ ~d.s.notify
         /\ d.s.turnUsage = (IF f.usage > 0 /\ f.usage > c.s.turnUsage
                             THEN f.usage ELSE c.s.turnUsage)
         /\ d.s.playing = (IF f.voice /\ ~c.s.muted THEN c.s.playing + 1 ELSE c.s.playing)
         /\ d.s.run <=> c.s.run \/ (f.voice /\ ~c.s.muted)
         /\ d.told = (IF Tells(c) THEN [c.told EXCEPT ![c.turn] = @ + 1] ELSE c.told)
         /\ c.s.muted => d.iv = c.iv
         /\ ~c.s.muted => \E v : Adds(c, f, v) /\ d.iv = (IF Tells(c) THEN Flushed(v) ELSE v)
<1>1. PICK x : x = (IF f.usage > 0 THEN RecordUsage(c.s, f.usage) ELSE c.s)
  OBVIOUS
<1>2. /\ x \in Session /\ SameBut(c.s, x, {"turnUsage"})
      /\ x.turnUsage = (IF f.usage > 0 /\ f.usage > c.s.turnUsage
                        THEN f.usage ELSE c.s.turnUsage)
  <2>1. CASE f.usage > 0
    <3>1. f.usage \in Nat /\ c.s \in Session /\ c.s.turnUsage \in Nat
      BY DEF Conv, Session, Frame
    <3>2. /\ x \in Session /\ SameBut(c.s, x, {"turnUsage"})
          /\ x.turnUsage = IF c.s.turnUsage >= f.usage THEN c.s.turnUsage ELSE f.usage
      BY <1>1, <2>1, <3>1, UsageEffect
    <3>. QED
      BY <2>1, <3>1, <3>2
  <2>2. CASE ~(f.usage > 0)
    BY <1>1, <2>2 DEF Conv, SameBut
  <2>. QED
    BY <2>1, <2>2
<1>3. PICK u : u = [c EXCEPT !.s = x]
  OBVIOUS
<1>4. u \in Conv /\ u.turn = c.turn /\ u.told = c.told /\ u.iv = c.iv /\ u.s = x
  BY <1>2, <1>3 DEF Conv
<1>5. d = IF u.s.muted THEN Discarded(u) ELSE Delivered(u, f)
  BY <1>1, <1>3 DEF Taken
<1>6. (u.s.muted <=> c.s.muted) /\ (Tells(u) <=> Tells(c))
  BY <1>2, <1>4 DEF Tells, SameBut, SessionFields
<1>7. CASE c.s.muted
  <2>1. PICK y : y = [x EXCEPT !.notify = FALSE]
    OBVIOUS
  <2>2. y \in Session /\ SameBut(x, y, {"notify"}) /\ ~y.notify
    BY <1>2, <2>1 DEF Session, SameBut, SessionFields
  <2>3. d = [u EXCEPT !.s = y]
    BY <1>4, <1>5, <1>6, <1>7, <2>1 DEF Discarded
  <2>4. d \in Conv /\ d.turn = c.turn /\ d.told = c.told /\ d.iv = c.iv /\ d.s = y
    BY <1>4, <2>2, <2>3 DEF Conv
  <2>5. /\ SameBut(c.s, y, {"turnUsage", "notify", "playing", "run"}) /\ y.turnUsage = x.turnUsage
        /\ y.playing = c.s.playing /\ y.run = c.s.run
    BY <1>2, <2>2 DEF SameBut, SessionFields
  <2>. QED
    BY <1>2, <1>7, <2>2, <2>4, <2>5 DEF Tells, Conv, Session
<1>8. CASE ~c.s.muted
  <2>1. d = Delivered(u, f)
    BY <1>5, <1>6, <1>8
  <2>2. /\ d \in Conv /\ d.turn = u.turn
        /\ SameBut(u.s, d.s, {"notify", "playing", "run"}) /\ ~d.s.notify
        /\ d.s.playing = (IF f.voice THEN u.s.playing + 1 ELSE u.s.playing)
        /\ d.s.run <=> u.s.run \/ f.voice
        /\ d.told = (IF Tells(u) THEN [u.told EXCEPT ![u.turn] = @ + 1] ELSE u.told)
        /\ \E v : Adds(u, f, v) /\ d.iv = (IF Tells(u) THEN Flushed(v) ELSE v)
    BY <1>4, <2>1, DeliverEffect
  <2>3. \E v : Adds(c, f, v) /\ d.iv = (IF Tells(c) THEN Flushed(v) ELSE v)
    <3>1. \A v : Adds(u, f, v) <=> Adds(c, f, v)
      BY <1>4 DEF Adds
    <3>. QED
      BY <2>2, <1>6, <3>1
  <2>4. /\ SameBut(c.s, d.s, {"turnUsage", "notify", "playing", "run"})
        /\ d.s.turnUsage = x.turnUsage /\ u.s.playing = c.s.playing /\ u.s.run = c.s.run
    BY <1>2, <1>4, <2>2 DEF SameBut, SessionFields
  <2>. QED
    BY <1>2, <1>4, <1>6, <1>8, <2>2, <2>3, <2>4
<1>. QED
  BY <1>7, <1>8

\* A frame that neither ends nor interrupts a turn.
LEMMA PlainEffect ==
  ASSUME NEW c \in Conv, NEW f \in Frame, NEW q \in Clock, ~f.turnComplete, ~c.s.notify,
         NEW m, m = Taken(NoteModelActivity(Heard(c, f), f, q), f)
  PROVE  /\ m \in Conv /\ m.turn = c.turn /\ m.told = c.told
         /\ SameBut(c.s, m.s, {"content", "awaiting", "text", "voiced", "state", "idleDefer",
                               "salvage", "turnUsage", "playing", "run"})
         /\ m.s.content <=> c.s.content \/ f.voice \/ f.think
         /\ m.s.text <=> c.s.text \/ f.words
         /\ m.s.voiced <=> c.s.voiced \/ f.voice
         /\ m.s.state = (IF c.s.voiced THEN c.s.state ELSE IF f.voice THEN "speaking"
                         ELSE IF f.think THEN "thinking" ELSE c.s.state)
         /\ m.s.idleDefer <=> c.s.idleDefer /\ (c.s.voiced \/ ~(f.voice \/ f.think))
         /\ m.s.salvage <=> SalvageArmed(c.s.salvage, f)
         /\ m.s.turnUsage = (IF f.usage > 0 /\ f.usage > c.s.turnUsage
                             THEN f.usage ELSE c.s.turnUsage)
         /\ m.s.playing = (IF f.voice /\ ~c.s.muted THEN c.s.playing + 1 ELSE c.s.playing)
         /\ m.s.run <=> c.s.run \/ (f.voice /\ ~c.s.muted)
         /\ c.s.muted => m.iv = c.iv
         /\ ~c.s.muted => Adds(c, f, m.iv)
<1>1. PICK h : h = Heard(c, f)
  OBVIOUS
<1>2. /\ h \in Conv /\ h.turn = c.turn /\ h.told = c.told /\ h.iv = c.iv
      /\ SameBut(c.s, h.s, {"awaiting"})
  BY <1>1, HeardEffect
<1>3. PICK n : n = NoteModelActivity(h, f, q)
  OBVIOUS
<1>4. /\ n \in Conv /\ n.turn = h.turn /\ n.told = h.told /\ n.iv = h.iv
      /\ SameBut(h.s, n.s, {"content", "awaiting", "text", "voiced", "state", "idleDefer",
                            "salvage"})
      /\ n.s.content <=> h.s.content \/ f.voice \/ f.think
      /\ n.s.text <=> h.s.text \/ f.words
      /\ n.s.voiced <=> h.s.voiced \/ f.voice
      /\ n.s.state = (IF h.s.voiced THEN h.s.state ELSE IF f.voice THEN "speaking"
                      ELSE IF f.think THEN "thinking" ELSE h.s.state)
      /\ n.s.idleDefer <=> h.s.idleDefer /\ (h.s.voiced \/ ~(f.voice \/ f.think))
      /\ n.s.salvage <=> SalvageArmed(h.s.salvage, f)
  BY <1>2, <1>3, ActivityEffect
<1>5. m = Taken(n, f)
  BY <1>1, <1>3
<1>6. ~Tells(n)
  BY <1>2, <1>4 DEF Tells, SameBut, SessionFields
<1>7. /\ m \in Conv /\ m.turn = n.turn
      /\ SameBut(n.s, m.s, {"turnUsage", "notify", "playing", "run"}) /\ ~m.s.notify
      /\ m.s.turnUsage = (IF f.usage > 0 /\ f.usage > n.s.turnUsage
                          THEN f.usage ELSE n.s.turnUsage)
      /\ m.s.playing = (IF f.voice /\ ~n.s.muted THEN n.s.playing + 1 ELSE n.s.playing)
      /\ m.s.run <=> n.s.run \/ (f.voice /\ ~n.s.muted)
      /\ m.told = n.told
      /\ n.s.muted => m.iv = n.iv
      /\ ~n.s.muted => Adds(n, f, m.iv)
  <2>1. /\ m \in Conv /\ m.turn = n.turn
        /\ SameBut(n.s, m.s, {"turnUsage", "notify", "playing", "run"}) /\ ~m.s.notify
        /\ m.s.turnUsage = (IF f.usage > 0 /\ f.usage > n.s.turnUsage
                            THEN f.usage ELSE n.s.turnUsage)
        /\ m.s.playing = (IF f.voice /\ ~n.s.muted THEN n.s.playing + 1 ELSE n.s.playing)
        /\ m.s.run <=> n.s.run \/ (f.voice /\ ~n.s.muted)
        /\ m.told = (IF Tells(n) THEN [n.told EXCEPT ![n.turn] = @ + 1] ELSE n.told)
        /\ n.s.muted => m.iv = n.iv
        /\ ~n.s.muted => \E v : Adds(n, f, v) /\ m.iv = (IF Tells(n) THEN Flushed(v) ELSE v)
    BY <1>4, <1>5, TakenEffect
  <2>. QED
    BY <1>6, <2>1
<1>8. m.s.notify = c.s.notify
  BY <1>7 DEF Conv, Session
<1>9. SameBut(c.s, m.s, {"content", "awaiting", "text", "voiced", "state", "idleDefer",
                         "salvage", "turnUsage", "playing", "run"})
  BY <1>2, <1>4, <1>7, <1>8 DEF SameBut, SessionFields
<1>10. /\ m.s.content <=> c.s.content \/ f.voice \/ f.think
       /\ m.s.text <=> c.s.text \/ f.words
       /\ m.s.voiced <=> c.s.voiced \/ f.voice
       /\ m.s.state = (IF c.s.voiced THEN c.s.state ELSE IF f.voice THEN "speaking"
                       ELSE IF f.think THEN "thinking" ELSE c.s.state)
       /\ m.s.idleDefer <=> c.s.idleDefer /\ (c.s.voiced \/ ~(f.voice \/ f.think))
  BY <1>2, <1>4, <1>7 DEF SameBut, SessionFields
<1>11. m.s.salvage <=> SalvageArmed(c.s.salvage, f)
  BY <1>2, <1>4, <1>7 DEF SameBut, SessionFields
<1>12. /\ n.s.turnUsage = c.s.turnUsage /\ n.s.playing = c.s.playing /\ n.s.run = c.s.run
       /\ n.s.muted = c.s.muted
  BY <1>2, <1>4 DEF SameBut, SessionFields
<1>13. Adds(n, f, m.iv) => Adds(c, f, m.iv)
  BY <1>2, <1>4 DEF Adds
<1>. QED
  BY <1>2, <1>4, <1>7, <1>9, <1>10, <1>11, <1>12, <1>13

\* d is c with its notice given.
Drained(c, d) ==
  /\ d \in Conv /\ d.turn = c.turn /\ SameBut(c.s, d.s, {"notify"}) /\ ~d.s.notify
  /\ d.told = (IF Tells(c) THEN [c.told EXCEPT ![c.turn] = @ + 1] ELSE c.told)
  /\ Written(c.iv, d.iv, Tells(c)) /\ AlsoBut(c.iv, d.iv, {"turns", "pendingUser", "pendingAgent"})

LEMMA DrainIsDrained ==
  ASSUME NEW c \in Conv, NEW d, d = DrainNotice(c)
  PROVE  Drained(c, d)
<1>1. /\ d \in Conv /\ d.turn = c.turn
      /\ SameBut(c.s, d.s, {"notify"}) /\ ~d.s.notify
      /\ d.told = (IF Tells(c) THEN [c.told EXCEPT ![c.turn] = @ + 1] ELSE c.told)
      /\ d.iv = (IF Tells(c) THEN Flushed(c.iv) ELSE c.iv)
  BY DrainEffect
<1>2. c.iv \in Interview
  BY DEF Conv
<1>3. Written(c.iv, d.iv, Tells(c)) /\ AlsoBut(c.iv, d.iv, {"turns", "pendingUser", "pendingAgent"})
  <2>1. CASE Tells(c)
    BY <1>1, <1>2, <2>1, FlushEffect DEF Written
  <2>2. CASE ~Tells(c)
    BY <1>1, <1>2, <2>2 DEF Written, AlsoBut
  <2>. QED
    BY <2>1, <2>2
<1>. QED
  BY <1>1, <1>3 DEF Drained

\* The handover of c: told of and written down if its turn had just been closed.
Leaves(c, m) ==
  /\ ~c.s.closed /\ ~c.s.muted /\ c.iv.goAway /\ ~c.iv.stopped
  /\ m.s.closed /\ m.s.playing = 0 /\ ~m.s.salvage /\ ~m.iv.goAway

\* A turn was closed, told of unless the interview is paused, and the floor is
\* free, or the voice is waited for, or the conversation was handed over.
TurnEnds(c, m) ==
  /\ m \in Conv /\ m.turn = c.turn
  /\ SameBut(c.s, m.s, {"closed", "playing", "state", "idleDefer", "usage", "turnUsage",
                        "content", "spoke", "run", "voiced", "text", "salvage", "awaiting"})
  /\ m.s.usage = c.s.usage + c.s.turnUsage /\ m.s.turnUsage = 0
  /\ ~m.s.content /\ m.s.spoke = "no" /\ ~m.s.run /\ ~m.s.voiced /\ ~m.s.text /\ ~m.s.salvage
  /\ m.told = (IF c.s.muted THEN c.told ELSE [c.told EXCEPT ![c.turn] = @ + 1])
  /\ Written(c.iv, m.iv, ~c.s.muted) /\ m.iv.stopped = c.iv.stopped
  /\ \/ /\ m.s.closed = c.s.closed /\ m.s.playing = c.s.playing
        /\ m.iv.goAway = c.iv.goAway /\ m.iv.cut = c.iv.cut
        /\ m.s.idleDefer <=> HoldFloor(c.s)
        /\ m.s.state = IF HoldFloor(c.s) THEN c.s.state ELSE "idle"
     \/ Leaves(c, m) /\ ~m.s.idleDefer /\ (m.iv.cut => c.iv.cut \/ c.s.speaking)

LEMMA CloseDrained ==
  ASSUME NEW c \in Conv, NEW q \in Clock, ~c.s.notify, Closable(c.s), NEW m,
         Drained(CloseTurn(c, q), m)
  PROVE  TurnEnds(c, m)
<1>1. PICK k : k = CloseTurn(c, q)
  OBVIOUS
<1>2. Drained(k, m)
  BY <1>1
<1>3. PICK x : /\ TurnClosed(c, x)
               /\ HoldFloor(c.s) => k = x
               /\ ~HoldFloor(c.s) => \E y : InState(x, y, "idle") /\ Renewed(y, k)
  BY <1>1, CloseEffect
<1>4. /\ x \in Conv /\ x.turn = c.turn /\ x.told = c.told /\ x.iv = c.iv
      /\ SameBut(c.s, x.s, {"usage", "turnUsage", "content", "spoke", "notify", "run", "voiced",
                            "text", "salvage", "idleDefer"})
      /\ x.s.usage = c.s.usage + c.s.turnUsage /\ x.s.turnUsage = 0
      /\ ~x.s.content /\ x.s.spoke = "no" /\ x.s.notify /\ ~x.s.run /\ ~x.s.voiced /\ ~x.s.text
      /\ ~x.s.salvage /\ (x.s.idleDefer <=> HoldFloor(c.s))
  BY <1>3 DEF TurnClosed
<1>5. ~m.s.notify /\ c.s.notify = m.s.notify
  BY <1>2 DEF Drained, Conv, Session
<1>6. ASSUME NEW y \in Conv, y.turn = x.turn, y.told = x.told, y.iv = x.iv,
             SameBut(x.s, y.s, {"idleDefer", "state"}),
             y.s.state = (IF HoldFloor(c.s) THEN c.s.state ELSE "idle"),
             y.s.idleDefer <=> HoldFloor(c.s), Waits(y, k)
      PROVE  TurnEnds(c, m)
  <2>1. Tells(k) <=> ~c.s.muted
    BY <1>4, <1>6 DEF Tells, Waits, SameBut, SessionFields
  <2>2. SameBut(c.s, m.s, {"playing", "state", "idleDefer", "usage", "turnUsage",
                           "content", "spoke", "run", "voiced", "text", "salvage"})
    BY <1>2, <1>4, <1>5, <1>6 DEF Drained, Waits, SameBut, SessionFields
  <2>3. /\ m.s.usage = c.s.usage + c.s.turnUsage /\ m.s.turnUsage = 0
        /\ ~m.s.content /\ m.s.spoke = "no" /\ ~m.s.run /\ ~m.s.voiced /\ ~m.s.text
        /\ ~m.s.salvage /\ m.s.playing = c.s.playing /\ m.s.state = y.s.state
        /\ m.s.idleDefer = y.s.idleDefer
    BY <1>2, <1>4, <1>6 DEF Drained, Waits, SameBut, SessionFields
  <2>4. m.told = (IF c.s.muted THEN c.told ELSE [c.told EXCEPT ![c.turn] = @ + 1])
    BY <1>2, <1>4, <1>6, <2>1 DEF Drained, Waits
  <2>5. /\ k.iv.turns = c.iv.turns /\ k.iv.pendingUser = c.iv.pendingUser
        /\ k.iv.pendingAgent = c.iv.pendingAgent
    BY <1>4, <1>6 DEF Waits, AlsoBut, InterviewFields
  <2>6. Written(c.iv, m.iv, ~c.s.muted)
    BY <1>2, <2>1, <2>5 DEF Drained, Written
  <2>7. m.iv.stopped = c.iv.stopped /\ m.iv.goAway = c.iv.goAway /\ m.iv.cut = c.iv.cut
    BY <1>2, <1>4, <1>6 DEF Drained, Waits, AlsoBut, InterviewFields
  <2>8. m.s.closed = c.s.closed
    BY <2>2 DEF SameBut, SessionFields
  <2>9. SameBut(c.s, m.s, {"closed", "playing", "state", "idleDefer", "usage", "turnUsage",
                           "content", "spoke", "run", "voiced", "text", "salvage", "awaiting"})
    BY <2>2 DEF SameBut
  <2>10. m \in Conv /\ m.turn = c.turn
    BY <1>2, <1>4, <1>6 DEF Drained, Waits
  <2>. QED
    BY <2>3, <2>4, <2>6, <2>7, <2>8, <2>9, <2>10, <1>6 DEF TurnEnds
<1>7. ASSUME NEW y, InState(x, y, "idle"), HandedOver(y, k)
      PROVE  TurnEnds(c, m)
  <2>1. /\ y \in Conv /\ y.turn = x.turn /\ y.told = x.told /\ y.iv = x.iv
        /\ SameBut(x.s, y.s, {"idleDefer", "state"})
    BY <1>7 DEF InState
  <2>2. Tells(y) /\ ~c.s.muted /\ ~c.s.closed
    BY <1>4, <1>7, <2>1 DEF HandedOver, Tells, SameBut, SessionFields
  <2>3. Over(y, k)
    BY <1>7 DEF HandedOver
  <2>4. ~Tells(k)
    BY <2>3 DEF Over, Tells
  <2>5. SameBut(c.s, m.s, {"closed", "playing", "state", "idleDefer", "usage", "turnUsage",
                           "content", "spoke", "run", "voiced", "text", "salvage", "awaiting"})
    BY <1>2, <1>4, <1>5, <2>1, <2>3 DEF Drained, Over, SameBut, SessionFields
  <2>6. y.s.usage = c.s.usage + c.s.turnUsage /\ y.s.turnUsage = 0
    BY <1>4, <2>1 DEF SameBut, SessionFields
  <2>7. y.s.usage \in Nat
    BY <2>1 DEF Conv, Session
  <2>8. m.s.usage = c.s.usage + c.s.turnUsage /\ m.s.turnUsage = 0
    BY <1>2, <2>3, <2>6, <2>7 DEF Drained, Over, SameBut, SessionFields
  <2>9. m.s.closed /\ ~m.s.idleDefer /\ m.s.playing = 0 /\ ~m.s.salvage
    BY <1>2, <2>3 DEF Drained, Over, SameBut, SessionFields
  <2>10. ~m.s.content /\ m.s.spoke = "no" /\ ~m.s.voiced /\ ~m.s.text
    BY <1>2, <1>4, <2>1, <2>3 DEF Drained, Over, SameBut, SessionFields
  <2>11. ~m.s.run
    BY <1>2, <2>3 DEF Drained, Over, SameBut, SessionFields
  <2>12. m \in Conv /\ m.turn = c.turn /\ m.told = [c.told EXCEPT ![c.turn] = @ + 1]
    BY <1>2, <1>4, <2>1, <2>2, <2>3, <2>4 DEF Drained, Over
  <2>13. Written(c.iv, m.iv, ~c.s.muted)
    BY <1>2, <1>4, <2>1, <2>2, <2>3, <2>4 DEF Drained, Over, Written
  <2>14. /\ c.iv.goAway /\ ~c.iv.stopped /\ m.iv.stopped = c.iv.stopped /\ ~m.iv.goAway
         /\ m.iv.cut => c.iv.cut \/ c.s.speaking
    BY <1>2, <1>4, <1>7, <2>1
    DEF Drained, HandedOver, AlsoBut, InterviewFields, SameBut, SessionFields
  <2>. QED
    BY <2>2, <2>5, <2>8, <2>9, <2>10, <2>11, <2>12, <2>13, <2>14 DEF TurnEnds, Leaves
<1>8. CASE HoldFloor(c.s)
  <2>1. k = x /\ x.s.state = c.s.state
    BY <1>3, <1>4, <1>8 DEF SameBut, SessionFields
  <2>2. Waits(x, k)
    BY <1>4, <2>1 DEF Waits, AlsoBut
  <2>3. SameBut(x.s, x.s, {"idleDefer", "state"})
    BY DEF SameBut
  <2>. QED
    BY <1>4, <1>6, <1>8, <2>1, <2>2, <2>3
<1>9. CASE ~HoldFloor(c.s)
  <2>1. PICK y : InState(x, y, "idle") /\ Renewed(y, k)
    BY <1>3, <1>9
  <2>2. CASE Waits(y, k)
    <3>1. /\ y \in Conv /\ y.turn = x.turn /\ y.told = x.told /\ y.iv = x.iv
          /\ SameBut(x.s, y.s, {"idleDefer", "state"}) /\ y.s.state = "idle"
          /\ ~y.s.idleDefer
      BY <1>4, <1>9, <2>1 DEF InState
    <3>. QED
      BY <1>6, <1>9, <2>2, <3>1
  <2>. QED
    BY <1>7, <2>1, <2>2 DEF Renewed
<1>. QED
  BY <1>8, <1>9

\* A frame that carries nothing of a turn changes no more than what is awaited.
LEMMA ActivityPasses ==
  ASSUME NEW c \in Conv, NEW f \in Frame, NEW q \in Clock, ~f.turnComplete, ~f.voice, ~f.words,
         ~f.think, ~f.generated, NEW n, n = NoteModelActivity(Heard(c, f), f, q)
  PROVE  /\ n \in Conv /\ n.turn = c.turn /\ n.told = c.told /\ n.iv = c.iv
         /\ SameBut(c.s, n.s, {"awaiting"})
<1>1. PICK h : h = Heard(c, f)
  OBVIOUS
<1>2. /\ h \in Conv /\ h.turn = c.turn /\ h.told = c.told /\ h.iv = c.iv
      /\ SameBut(c.s, h.s, {"awaiting"})
  BY <1>1, HeardEffect
<1>3. n = NoteModelActivity(h, f, q)
  BY <1>1
<1>4. /\ n \in Conv /\ n.turn = h.turn /\ n.told = h.told /\ n.iv = h.iv
      /\ SameBut(h.s, n.s, {"content", "awaiting", "text", "voiced", "state", "idleDefer",
                            "salvage"})
      /\ n.s.content <=> h.s.content \/ f.voice \/ f.think
      /\ n.s.text <=> h.s.text \/ f.words
      /\ n.s.voiced <=> h.s.voiced \/ f.voice
      /\ n.s.state = (IF h.s.voiced THEN h.s.state ELSE IF f.voice THEN "speaking"
                      ELSE IF f.think THEN "thinking" ELSE h.s.state)
      /\ n.s.idleDefer <=> h.s.idleDefer /\ (h.s.voiced \/ ~(f.voice \/ f.think))
      /\ n.s.salvage <=> SalvageArmed(h.s.salvage, f)
  BY <1>2, <1>3, ActivityEffect
<1>5. n.s \in Session /\ h.s \in Session
  BY <1>2, <1>4 DEF Conv
<1>6. n.s.content = h.s.content /\ n.s.text = h.s.text /\ n.s.voiced = h.s.voiced
  BY <1>4, <1>5 DEF Session
<1>7. n.s.state = h.s.state /\ n.s.idleDefer = h.s.idleDefer /\ n.s.salvage = h.s.salvage
  BY <1>4, <1>5 DEF Session, SalvageArmed
<1>8. SameBut(h.s, n.s, {"awaiting"})
  BY <1>4, <1>6, <1>7 DEF SameBut, SessionFields
<1>. QED
  BY <1>2, <1>4, <1>8 DEF SameBut

LEMMA TakenDrains ==
  ASSUME NEW c \in Conv, NEW f \in Frame, ~f.voice, ~f.words, f.heard = 0, f.usage = 0,
         NEW d, d = Taken(c, f)
  PROVE  Drained(c, d)
<1>1. /\ d \in Conv /\ d.turn = c.turn
      /\ SameBut(c.s, d.s, {"turnUsage", "notify", "playing", "run"}) /\ ~d.s.notify
      /\ d.s.turnUsage = (IF f.usage > 0 /\ f.usage > c.s.turnUsage
                          THEN f.usage ELSE c.s.turnUsage)
      /\ d.s.playing = (IF f.voice /\ ~c.s.muted THEN c.s.playing + 1 ELSE c.s.playing)
      /\ d.s.run <=> c.s.run \/ (f.voice /\ ~c.s.muted)
      /\ d.told = (IF Tells(c) THEN [c.told EXCEPT ![c.turn] = @ + 1] ELSE c.told)
      /\ c.s.muted => d.iv = c.iv
      /\ ~c.s.muted => \E v : Adds(c, f, v) /\ d.iv = (IF Tells(c) THEN Flushed(v) ELSE v)
  BY TakenEffect
<1>2. d.s.turnUsage = c.s.turnUsage /\ d.s.playing = c.s.playing /\ d.s.run = c.s.run
  BY <1>1 DEF Conv, Session
<1>3. SameBut(c.s, d.s, {"notify"})
  BY <1>1, <1>2 DEF SameBut, SessionFields
<1>4. Written(c.iv, d.iv, Tells(c)) /\ AlsoBut(c.iv, d.iv, {"turns", "pendingUser", "pendingAgent"})
  <2>0. c.iv \in Interview /\ d.iv \in Interview
    BY <1>1 DEF Conv
  <2>1. CASE c.s.muted
    BY <1>1, <2>0, <2>1 DEF Written, AlsoBut, Tells
  <2>2. CASE ~c.s.muted
    <3>1. PICK v : Adds(c, f, v) /\ d.iv = (IF Tells(c) THEN Flushed(v) ELSE v)
      BY <1>1, <2>2
    <3>2. /\ v \in Interview /\ AlsoBut(c.iv, v, {"pendingUser", "pendingAgent"})
          /\ v.pendingUser = c.iv.pendingUser /\ v.pendingAgent = c.iv.pendingAgent
          /\ v.turns = c.iv.turns
      BY <3>1 DEF Adds, AlsoBut, InterviewFields
    <3>3. CASE Tells(c)
      <4>1. /\ d.iv \in Interview /\ AlsoBut(v, d.iv, {"turns", "pendingUser", "pendingAgent"})
            /\ d.iv.pendingUser = {} /\ d.iv.pendingAgent = {}
            /\ d.iv.turns = v.turns \o Line("You", v.pendingUser) \o Line("VYNE", v.pendingAgent)
        BY <3>1, <3>2, <3>3, FlushEffect
      <4>. QED
        BY <3>2, <3>3, <4>1 DEF Written, AlsoBut
    <3>4. CASE ~Tells(c)
      BY <2>0, <3>1, <3>2, <3>4 DEF Written, AlsoBut
    <3>. QED
      BY <3>3, <3>4
  <2>. QED
    BY <2>1, <2>2
<1>. QED
  BY <1>1, <1>3, <1>4 DEF Drained

\* Nothing of the turn changed.
Passes(c, m) ==
  /\ m \in Conv /\ m.turn = c.turn /\ m.told = c.told /\ AlsoBut(c.iv, m.iv, {})
  /\ SameBut(c.s, m.s, {"awaiting", "salvage"}) /\ ~m.s.salvage

LEMMA CompleteEffect ==
  ASSUME NEW c \in Conv, NEW q \in Clock, ~c.s.notify, NEW m,
         m = OnMessage(c, [Silent EXCEPT !.turnComplete = TRUE], q)
  PROVE  IF Closable(c.s) THEN TurnEnds(c, m) ELSE Passes(c, m)
<1>. DEFINE f == [Silent EXCEPT !.turnComplete = TRUE]
            H == Heard(c, f)
            G == [H EXCEPT !.s.content = @ \/ f.voice \/ f.think,
                           !.s.awaiting = @ /\ ~(f.think \/ f.voice \/ f.words \/ f.turnComplete),
                           !.s.text = @ \/ f.words]
<1>1. /\ f \in Frame /\ ~f.voice /\ ~f.words /\ ~f.think /\ ~f.generated /\ ~f.interrupted
      /\ ~f.goAway /\ f.heard = 0 /\ f.usage = 0 /\ f.turnComplete = TRUE
  BY DEF Silent, Frame
<1>. HIDE DEF f
<1>2. m = Taken(NoteModelActivity(H, f, q), f)
  BY <1>1, Stages DEF f
<1>3. /\ H \in Conv /\ H.turn = c.turn /\ H.told = c.told /\ H.iv = c.iv
      /\ SameBut(c.s, H.s, {"awaiting"})
  BY <1>1, HeardEffect
<1>. HIDE DEF H
<1>4. PICK x : x = [H.s EXCEPT !.awaiting = FALSE, !.salvage = FALSE]
  OBVIOUS
<1>5. x \in Session /\ SameBut(c.s, x, {"awaiting", "salvage"}) /\ ~x.salvage
  BY <1>3, <1>4 DEF Conv, Session, SameBut, SessionFields
<1>6. PICK g : g = [H EXCEPT !.s = x]
  OBVIOUS
<1>7. g \in Conv /\ g.turn = c.turn /\ g.told = c.told /\ g.iv = c.iv /\ g.s = x
  BY <1>3, <1>5, <1>6 DEF Conv
<1>8. NoteModelActivity(H, f, q) = CloseTurn(g, q)
  <2>1. NoteModelActivity(H, f, q) =
          CloseTurn([G EXCEPT !.s.salvage = ~f.turnComplete /\ SalvageArmed(@, f)], q)
    BY Zenon, <1>1 DEF NoteModelActivity
  <2>2. [G EXCEPT !.s.salvage = ~f.turnComplete /\ SalvageArmed(@, f)] = g
    <3>1. H.s.content = (H.s.content \/ f.voice \/ f.think) /\ H.s.text = (H.s.text \/ f.words)
      BY <1>1, <1>3 DEF Conv, Session
    <3>2. FALSE = (H.s.awaiting /\ ~(f.think \/ f.voice \/ f.words \/ f.turnComplete))
      BY <1>1
    <3>3. PICK y : y = [H.s EXCEPT !.content = @ \/ f.voice \/ f.think,
                          !.awaiting = @ /\ ~(f.think \/ f.voice \/ f.words \/ f.turnComplete),
                          !.text = @ \/ f.words]
      OBVIOUS
    <3>4. y = [H.s EXCEPT !.awaiting = FALSE]
      BY <1>3, <3>1, <3>2, <3>3 DEF Conv, Session
    <3>5. G = [H EXCEPT !.s = y]
      BY <1>3, <3>3 DEF Conv
    <3>6. PICK b : b = (~f.turnComplete /\ SalvageArmed(y.salvage, f))
      OBVIOUS
    <3>7. b = FALSE
      BY <1>1, <3>6
    <3>8. [y EXCEPT !.salvage = b] = x
      BY <1>3, <1>4, <3>4, <3>7 DEF Conv, Session
    <3>9. [[H EXCEPT !.s = y] EXCEPT !.s.salvage = ~f.turnComplete /\ SalvageArmed(@, f)]
          = [H EXCEPT !.s = [y EXCEPT !.salvage = b]]
      BY <1>3, <3>6 DEF Conv
    <3>. QED
      BY <1>6, <3>5, <3>8, <3>9
  <2>. QED
    BY <2>1, <2>2
<1>9. CloseTurn(g, q) \in Conv
  <2>1. CASE ~Closable(g.s)
    BY <1>7, <2>1, CloseEffect
  <2>2. CASE Closable(g.s)
    <3>1. PICK k : k = CloseTurn(g, q)
      OBVIOUS
    <3>2. PICK z : /\ TurnClosed(g, z)
                   /\ HoldFloor(g.s) => k = z
                   /\ ~HoldFloor(g.s) => \E y : InState(z, y, "idle") /\ Renewed(y, k)
      BY <1>7, <2>2, <3>1, CloseEffect
    <3>. QED
      BY <3>1, <3>2 DEF TurnClosed, Renewed, Waits, HandedOver, Over
  <2>. QED
    BY <2>1, <2>2
<1>10. Drained(CloseTurn(g, q), m)
  BY <1>1, <1>2, <1>8, <1>9, TakenDrains
<1>11. (Closable(g.s) <=> Closable(c.s)) /\ (HoldFloor(g.s) <=> HoldFloor(c.s)) /\ ~g.s.notify
  BY <1>5, <1>7 DEF Closable, HoldFloor, SameBut, SessionFields
<1>12. CASE Closable(c.s)
  <2>1. TurnEnds(g, m)
    BY <1>7, <1>10, <1>11, <1>12, CloseDrained
  <2>2. SameBut(c.s, m.s, {"closed", "playing", "state", "idleDefer", "usage", "turnUsage",
                        "content", "spoke", "run", "voiced", "text", "salvage", "awaiting"})
    BY <1>5, <1>7, <2>1 DEF TurnEnds, SameBut, SessionFields
  <2>3. /\ g.s.usage = c.s.usage /\ g.s.turnUsage = c.s.turnUsage /\ g.s.muted = c.s.muted
        /\ g.s.closed = c.s.closed /\ g.s.playing = c.s.playing /\ g.s.state = c.s.state
        /\ g.s.speaking = c.s.speaking
    BY <1>5, <1>7 DEF SameBut, SessionFields
  <2>4. TurnEnds(c, m)
    BY <1>7, <1>11, <2>1, <2>2, <2>3 DEF TurnEnds, Leaves
  <2>. QED
    BY <1>12, <2>4
<1>13. CASE ~Closable(c.s)
  <2>1. Drained(g, m)
    BY <1>7, <1>10, <1>11, <1>13, CloseEffect
  <2>2. ~Tells(g)
    BY <1>11 DEF Tells
  <2>3. m.s \in Session /\ m.s.notify = c.s.notify
    BY <2>1 DEF Drained, Conv, Session
  <2>4. SameBut(c.s, m.s, {"awaiting", "salvage"}) /\ ~m.s.salvage
    BY <1>5, <1>7, <2>1, <2>3 DEF Drained, SameBut, SessionFields
  <2>5. AlsoBut(c.iv, m.iv, {})
    BY <1>7, <2>1, <2>2 DEF Drained, Written, AlsoBut, InterviewFields
  <2>6. Passes(c, m)
    BY <1>7, <2>1, <2>2, <2>4, <2>5 DEF Drained, Passes
  <2>. QED
    BY <1>13, <2>6
<1>. QED
  BY <1>12, <1>13

\* m is c after the interviewee talked over it: what was said stays said.
TalksOver(c, m) ==
  /\ m \in Conv /\ m.turn = c.turn /\ m.told = c.told
  /\ SameBut(c.s, m.s, {"closed", "playing", "run", "voiced", "state", "idleDefer", "usage",
                        "turnUsage", "salvage", "awaiting"})
  /\ m.s.playing = 0 /\ ~m.s.run /\ ~m.s.voiced
  /\ m.s.usage + m.s.turnUsage = c.s.usage + c.s.turnUsage
  /\ Written(c.iv, m.iv, TRUE) /\ m.iv.stopped = c.iv.stopped
  /\ \/ /\ m.s.closed = c.s.closed /\ m.s.salvage = c.s.salvage /\ m.s.turnUsage = c.s.turnUsage
        /\ m.s.state = "idle" /\ m.s.idleDefer = c.s.idleDefer
        /\ m.iv.goAway = c.iv.goAway /\ m.iv.cut = c.iv.cut
     \/ /\ Leaves(c, m) /\ m.s.turnUsage = 0 /\ ~m.s.idleDefer
        /\ m.iv.cut => c.iv.cut \/ (c.s.speaking /\ c.s.spoke = "no")

LEMMA InterruptEffect ==
  ASSUME NEW c \in Conv, NEW q \in Clock, ~c.s.notify, NEW m,
         m = OnMessage(c, [Silent EXCEPT !.interrupted = TRUE], q)
  PROVE  TalksOver(c, m)
<1>. DEFINE f == [Silent EXCEPT !.interrupted = TRUE]
<1>1. /\ f \in Frame /\ ~f.voice /\ ~f.words /\ ~f.think /\ ~f.generated /\ f.interrupted = TRUE
      /\ ~f.goAway /\ f.heard = 0 /\ f.usage = 0 /\ ~f.turnComplete
  BY DEF Silent, Frame
<1>. HIDE DEF f
<1>2. PICK n : n = NoteModelActivity(Heard(c, f), f, q)
  OBVIOUS
<1>3. /\ n \in Conv /\ n.turn = c.turn /\ n.told = c.told /\ n.iv = c.iv
      /\ SameBut(c.s, n.s, {"awaiting"})
  BY <1>1, <1>2, ActivityPasses
<1>4. PICK i : i = Interrupted(n, q)
  OBVIOUS
<1>5. m = Taken(i, f)
  BY <1>1, <1>2, <1>4, Stages DEF f
<1>6. PICK y : y = QueueFlushed(n.s)
  OBVIOUS
<1>7. y \in Session /\ SameBut(n.s, y, {"playing", "run"}) /\ y.playing = 0 /\ ~y.run
  BY <1>3, <1>6, QueueEffect DEF Conv
<1>8. PICK x : x = [n EXCEPT !.s = [y EXCEPT !.voiced = FALSE]]
  OBVIOUS
<1>9. /\ x \in Conv /\ x.turn = c.turn /\ x.told = c.told /\ x.iv = c.iv
      /\ SameBut(y, x.s, {"voiced"}) /\ ~x.s.voiced
  <2>1. [y EXCEPT !.voiced = FALSE] \in Session
    BY <1>7 DEF Session
  <2>2. x \in Conv
    BY <1>3, <1>8, <2>1 DEF Conv
  <2>. QED
    BY <1>3, <1>7, <1>8, <2>2 DEF Conv, Session, SameBut, SessionFields
<1>10. PICK d : d = SetTurnState(x, "idle", q)
  OBVIOUS
<1>11. PICK z : InState(x, z, "idle") /\ Renewed(z, d)
  BY <1>9, <1>10, TurnStateEffect
<1>12. i = [d EXCEPT !.iv = Flushed(@)]
  BY <1>6, <1>8, <1>10, <1>4 DEF Interrupted
<1>13. d \in Conv
  BY <1>11 DEF Renewed, Waits, HandedOver, Over
<1>14. PICK w : w = Flushed(d.iv)
  OBVIOUS
<1>15. /\ w \in Interview /\ AlsoBut(d.iv, w, {"turns", "pendingUser", "pendingAgent"})
       /\ w.pendingUser = {} /\ w.pendingAgent = {}
       /\ w.turns = d.iv.turns \o Line("You", d.iv.pendingUser) \o Line("VYNE", d.iv.pendingAgent)
  BY <1>13, <1>14, FlushEffect DEF Conv
<1>16. i \in Conv /\ i.turn = d.turn /\ i.told = d.told /\ i.s = d.s /\ i.iv = w
  BY <1>12, <1>13, <1>14, <1>15 DEF Conv
<1>17. Drained(i, m)
  BY <1>1, <1>5, <1>16, TakenDrains
<1>18. /\ z \in Conv /\ z.turn = c.turn /\ z.told = c.told /\ z.iv = c.iv
       /\ SameBut(c.s, z.s, {"playing", "run", "voiced", "state", "idleDefer", "awaiting"})
       /\ z.s.playing = 0 /\ ~z.s.run /\ ~z.s.voiced /\ z.s.state = "idle"
       /\ z.s.idleDefer <=> c.s.idleDefer
  BY <1>3, <1>7, <1>9, <1>11 DEF InState, SameBut, SessionFields
<1>19. /\ ~z.s.notify /\ z.s.idleDefer = c.s.idleDefer /\ z.s.usage = c.s.usage
       /\ z.s.turnUsage = c.s.turnUsage /\ z.s.salvage = c.s.salvage
       /\ z.s.speaking = c.s.speaking /\ z.s.spoke = c.s.spoke
       /\ z.s.muted = c.s.muted /\ z.s.closed = c.s.closed
  BY <1>18 DEF SameBut, SessionFields, Conv, Session
<1>20. ~d.s.notify /\ d.told = z.told /\ d.turn = z.turn
       /\ d.iv.turns = z.iv.turns /\ d.iv.pendingUser = z.iv.pendingUser
       /\ d.iv.pendingAgent = z.iv.pendingAgent /\ d.iv.stopped = z.iv.stopped
  <2>0. ~Tells(z)
    BY <1>19 DEF Tells
  <2>1. CASE Waits(z, d)
    BY <1>19, <2>1 DEF Waits, AlsoBut, InterviewFields
  <2>2. CASE HandedOver(z, d)
    BY <2>0, <2>2 DEF HandedOver, Over, Written
  <2>. QED
    BY <1>11, <2>1, <2>2 DEF Renewed
<1>21. ~Tells(i)
  BY <1>16, <1>20 DEF Tells
<1>22. /\ m \in Conv /\ m.turn = c.turn /\ m.told = c.told
       /\ SameBut(d.s, m.s, {})
  <2>1. m.s.notify = d.s.notify
    BY <1>13, <1>16, <1>17, <1>20 DEF Drained, Conv, Session
  <2>. QED
    BY <1>16, <1>17, <1>18, <1>20, <1>21, <2>1 DEF Drained, SameBut
<1>23. Written(c.iv, m.iv, TRUE) /\ m.iv.stopped = c.iv.stopped
       /\ m.iv.goAway = d.iv.goAway /\ m.iv.cut = d.iv.cut
  <2>1. /\ m.iv \in Interview /\ m.iv.pendingUser = {} /\ m.iv.pendingAgent = {}
        /\ m.iv.turns = w.turns /\ m.iv.stopped = w.stopped
        /\ m.iv.goAway = w.goAway /\ m.iv.cut = w.cut
    BY <1>15, <1>16, <1>17, <1>21 DEF Drained, Written, AlsoBut, InterviewFields
  <2>. QED
    BY <1>15, <1>18, <1>20, <2>1 DEF Written, AlsoBut, InterviewFields
<1>24. CASE Waits(z, d)
  <2>1. SameBut(c.s, m.s, {"playing", "run", "voiced", "state", "idleDefer", "awaiting"})
    BY <1>18, <1>22, <1>24 DEF Waits, SameBut
  <2>2. /\ m.s.playing = 0 /\ ~m.s.run /\ ~m.s.voiced /\ m.s.state = "idle"
        /\ m.s.idleDefer = c.s.idleDefer
    BY <1>18, <1>19, <1>22, <1>24 DEF Waits, SameBut, SessionFields
  <2>3. m.iv.goAway = c.iv.goAway /\ m.iv.cut = c.iv.cut
    BY <1>18, <1>23, <1>24 DEF Waits, AlsoBut, InterviewFields
  <2>4. /\ m.s.closed = c.s.closed /\ m.s.salvage = c.s.salvage
        /\ m.s.turnUsage = c.s.turnUsage /\ m.s.usage = c.s.usage
    BY <2>1 DEF SameBut, SessionFields
  <2>5. SameBut(c.s, m.s, {"closed", "playing", "run", "voiced", "state", "idleDefer", "usage",
                        "turnUsage", "salvage", "awaiting"})
    BY <2>1 DEF SameBut
  <2>. QED
    BY <1>22, <1>23, <2>2, <2>3, <2>4, <2>5 DEF TalksOver
<1>25. CASE HandedOver(z, d)
  <2>1. Over(z, d)
    BY <1>25 DEF HandedOver
  <2>2. SameBut(c.s, m.s, {"closed", "notify", "playing", "run", "voiced", "state", "idleDefer",
                           "usage", "turnUsage", "salvage", "awaiting"})
    BY <1>18, <1>22, <2>1 DEF Over, SameBut
  <2>3. /\ m.s.closed /\ m.s.playing = 0 /\ ~m.s.idleDefer /\ ~m.s.salvage /\ m.s.turnUsage = 0
        /\ m.s.usage = c.s.usage + c.s.turnUsage /\ m.s.notify = d.s.notify
        /\ ~m.s.voiced /\ ~m.s.run
    BY <1>18, <1>19, <1>22, <2>1 DEF Over, SameBut, SessionFields
  <2>4. m.s.notify = c.s.notify
    BY <1>13, <1>20, <2>3 DEF Conv, Session
  <2>5. SameBut(c.s, m.s, {"closed", "playing", "run", "voiced", "state", "idleDefer",
                           "usage", "turnUsage", "salvage", "awaiting"})
    BY <2>2, <2>4 DEF SameBut, SessionFields
  <2>6. /\ ~c.s.closed /\ ~c.s.muted /\ c.iv.goAway /\ ~c.iv.stopped /\ ~m.iv.goAway
        /\ m.iv.cut => c.iv.cut \/ (c.s.speaking /\ c.s.spoke = "no")
    BY <1>18, <1>19, <1>23, <1>25 DEF HandedOver
  <2>7. m.s.usage + m.s.turnUsage = c.s.usage + c.s.turnUsage
    BY <2>3 DEF Conv, Session
  <2>. QED
    BY <1>22, <1>23, <2>3, <2>5, <2>6, <2>7 DEF TalksOver, Leaves
<1>. QED
  BY <1>11, <1>24, <1>25 DEF Renewed

\* m is c after a goAway: it stays, or leaves at once.
GoesAwayFrom(c, m) ==
  /\ m \in Conv /\ m.turn = c.turn /\ m.told = c.told
  /\ AlsoBut(c.iv, m.iv, {"goAway", "poll", "cut"})
  /\ SameBut(c.s, m.s, {"closed", "playing", "run", "idleDefer", "usage", "turnUsage", "salvage",
                        "awaiting", "wall"})
  /\ m.s.wall = "far"
  /\ m.s.usage + m.s.turnUsage = c.s.usage + c.s.turnUsage
  /\ \/ /\ SameBut(c.s, m.s, {"awaiting", "wall"}) /\ m.iv.goAway /\ m.iv.cut = c.iv.cut
     \/ /\ ~c.s.closed /\ ~c.s.muted /\ m.s.closed /\ m.s.playing = 0 /\ ~m.iv.goAway
        /\ ~m.s.idleDefer /\ ~m.s.salvage /\ m.s.turnUsage = 0
        /\ m.iv.cut => c.iv.cut \/ (c.s.speaking /\ c.s.spoke = "no")

LEMMA GoAwayEffect ==
  ASSUME NEW c \in Conv, NEW q \in Clock, ~c.s.notify, NEW m,
         m = OnMessage(c, [Silent EXCEPT !.goAway = TRUE], q)
  PROVE  GoesAwayFrom(c, m)
<1>. DEFINE f == [Silent EXCEPT !.goAway = TRUE]
<1>1. /\ f \in Frame /\ ~f.voice /\ ~f.words /\ ~f.think /\ ~f.generated /\ ~f.interrupted
      /\ f.goAway = TRUE /\ f.heard = 0 /\ f.usage = 0 /\ ~f.turnComplete
  BY DEF Silent, Frame
<1>. HIDE DEF f
<1>2. PICK a : a = Warned(c)
  OBVIOUS
<1>3. /\ a \in Conv /\ a.turn = c.turn /\ a.told = c.told /\ SameBut(c.s, a.s, {"wall"})
      /\ a.s.wall = "far" /\ AlsoBut(c.iv, a.iv, {"goAway"}) /\ a.iv.goAway
  <2>1. PICK x : x = [c.s EXCEPT !.wall = "far"]
    OBVIOUS
  <2>2. x \in Session /\ SameBut(c.s, x, {"wall"}) /\ x.wall = "far"
    BY <2>1 DEF Conv, Session, SameBut, SessionFields
  <2>3. PICK v : v = [c.iv EXCEPT !.goAway = TRUE]
    OBVIOUS
  <2>4. v \in Interview /\ AlsoBut(c.iv, v, {"goAway"}) /\ v.goAway
    BY <2>3 DEF Conv, Interview, AlsoBut, InterviewFields
  <2>5. a = [c EXCEPT !.s = x, !.iv = v]
    BY <1>2, <2>1, <2>3 DEF Warned, Conv
  <2>. QED
    BY <2>2, <2>4, <2>5 DEF Conv
<1>4. PICK w : w = MaybeRenewOnGoAway(a, q)
  OBVIOUS
<1>5. Renewed(a, w)
  BY <1>3, <1>4, RenewEffect
<1>6. w \in Conv
  BY <1>5 DEF Renewed, Waits, HandedOver, Over
<1>7. PICK n : n = NoteModelActivity(Heard(w, f), f, q)
  OBVIOUS
<1>8. /\ n \in Conv /\ n.turn = w.turn /\ n.told = w.told /\ n.iv = w.iv
      /\ SameBut(w.s, n.s, {"awaiting"})
  BY <1>1, <1>6, <1>7, ActivityPasses
<1>9. m = Taken(n, f)
  BY <1>1, <1>2, <1>4, <1>7, Stages DEF f
<1>10. Drained(n, m)
  BY <1>1, <1>8, <1>9, TakenDrains
<1>11. ~a.s.notify /\ ~Tells(a)
  BY <1>3 DEF SameBut, SessionFields, Tells
<1>12. ~w.s.notify /\ w.turn = c.turn /\ w.told = c.told
  BY <1>3, <1>5, <1>11 DEF Renewed, Waits, HandedOver, Over
<1>13. ~Tells(n)
  BY <1>8, <1>12 DEF SameBut, SessionFields, Tells
<1>14. /\ m \in Conv /\ m.turn = c.turn /\ m.told = c.told /\ SameBut(w.s, m.s, {"awaiting"})
       /\ AlsoBut(w.iv, m.iv, {})
  <2>1. m.s.notify = w.s.notify
    BY <1>6, <1>10, <1>12 DEF Drained, Conv, Session
  <2>2. SameBut(w.s, m.s, {"awaiting"})
    BY <1>8, <1>10, <2>1 DEF Drained, SameBut, SessionFields
  <2>3. AlsoBut(w.iv, m.iv, {})
    BY <1>8, <1>10, <1>13 DEF Drained, Written, AlsoBut, InterviewFields
  <2>. QED
    BY <1>8, <1>10, <1>12, <1>13, <2>2, <2>3 DEF Drained
<1>15. CASE Waits(a, w)
  <2>1. SameBut(c.s, m.s, {"awaiting", "wall"}) /\ m.s.wall = "far"
    BY <1>3, <1>14, <1>15 DEF Waits, SameBut, SessionFields
  <2>2. /\ AlsoBut(c.iv, m.iv, {"goAway", "poll"}) /\ m.iv.goAway
    BY <1>3, <1>14, <1>15 DEF Waits, AlsoBut, InterviewFields
  <2>3. m.s.usage = c.s.usage /\ m.s.turnUsage = c.s.turnUsage /\ m.iv.cut = c.iv.cut
    BY <2>1, <2>2 DEF SameBut, SessionFields, AlsoBut, InterviewFields
  <2>4. SameBut(c.s, m.s, {"closed", "playing", "run", "idleDefer", "usage", "turnUsage",
                           "salvage", "awaiting", "wall"})
        /\ AlsoBut(c.iv, m.iv, {"goAway", "poll", "cut"})
    BY <2>1, <2>2 DEF SameBut, AlsoBut
  <2>. QED
    BY <1>14, <2>1, <2>2, <2>3, <2>4 DEF GoesAwayFrom
<1>16. CASE HandedOver(a, w)
  <2>1. Over(a, w)
    BY <1>16 DEF HandedOver
  <2>2. SameBut(c.s, m.s, {"closed", "notify", "playing", "run", "idleDefer", "usage",
                           "turnUsage", "salvage", "awaiting", "wall"})
    BY <1>3, <1>14, <2>1 DEF Over, SameBut
  <2>3. /\ m.s.closed /\ m.s.playing = 0 /\ ~m.s.idleDefer /\ ~m.s.salvage /\ m.s.turnUsage = 0
        /\ m.s.usage = a.s.usage + a.s.turnUsage /\ m.s.notify = w.s.notify /\ m.s.wall = "far"
    BY <1>3, <1>14, <2>1 DEF Over, SameBut, SessionFields
  <2>4. /\ a.s.usage = c.s.usage /\ a.s.turnUsage = c.s.turnUsage /\ a.s.muted = c.s.muted
        /\ a.s.closed = c.s.closed /\ a.s.speaking = c.s.speaking /\ a.s.spoke = c.s.spoke
    BY <1>3 DEF SameBut, SessionFields
  <2>5. m.s.usage + m.s.turnUsage = c.s.usage + c.s.turnUsage
    BY <2>3, <2>4 DEF Conv, Session
  <2>6. m.s.notify = c.s.notify
    BY <1>6, <1>12, <2>3 DEF Conv, Session
  <2>7. SameBut(c.s, m.s, {"closed", "playing", "run", "idleDefer", "usage",
                           "turnUsage", "salvage", "awaiting", "wall"})
    BY <2>2, <2>6 DEF SameBut, SessionFields
  <2>8. /\ ~c.s.closed /\ ~c.s.muted /\ ~m.iv.goAway
        /\ m.iv.cut => c.iv.cut \/ (c.s.speaking /\ c.s.spoke = "no")
    BY <1>3, <1>14, <1>16, <2>4 DEF HandedOver, AlsoBut, InterviewFields
  <2>9. AlsoBut(c.iv, m.iv, {"goAway", "poll", "cut"})
    BY <1>3, <1>11, <1>14, <1>16, <2>1 DEF HandedOver, Over, Written, AlsoBut, InterviewFields
  <2>. QED
    BY <1>14, <2>3, <2>5, <2>7, <2>8, <2>9 DEF GoesAwayFrom
<1>. QED
  BY <1>5, <1>15, <1>16 DEF Renewed

-----------------------------------------------------------------------------
(* The invariant.                                                           *)

\* Something of a turn arrived that has not been closed.
Underway == s.content \/ s.text

SessionInv ==
  /\ ~s.notify
  /\ s.closed \/ s.muted => s.playing = 0
  /\ s.closed => ~s.salvage
  /\ s.voiced => s.content /\ s.state = "speaking" /\ ~s.idleDefer

\* What the server has reached is what the session has seen of it.
PhaseInv ==
  /\ ~server.late
  /\ server.turn = 0 => server.phase = "quiet"
  /\ ~s.closed =>
       /\ server.phase = "quiet" => ~Underway /\ ~s.salvage
       /\ server.phase = "working" => Underway /\ ~s.salvage
       /\ server.phase = "working" /\ server.voice > 0 => s.voiced
       /\ server.phase = "generated" => s.voiced \/ ~Underway
       /\ server.phase = "generated" /\ ~s.salvage => ~Underway

\* Voice that plays on after its turn was closed is not the next turn's.
VoiceInv ==
  /\ FloorHeld
  /\ s.playing > 0 /\ ~s.run => ~Underway \/ (server.phase = "working" /\ server.voice = 0)

\* Whoever speaks while the model works talks over it, and a goAway that is
\* pending while somebody speaks waits for them.
BargeInv ==
  /\ s.speaking /\ ~s.closed =>
       /\ s.spoke # "unknown"
       /\ server.phase = "working" => server.barged
       /\ server.phase = "generated" /\ ~server.barged /\ s.spoke = "yes" => ~Underway
  /\ iv.goAway /\ ~s.closed /\ s.speaking =>
       /\ s.spoke = "yes" /\ ~server.barged /\ server.phase \in {"quiet", "generated"}
       /\ ~Underway
  /\ NobodyCutOff

\* What was said and is not transcribed yet was not said into an open turn.
SpeechInv ==
  /\ server.speech <= server.turn
  /\ server.speech > 0 /\ ~server.barged /\ ~s.closed =>
       server.phase # "working" /\ (server.phase = "generated" => ~Underway)

\* The words of the interviewee in a record, written down or still to be.
HeardIn(v) ==
  v.pendingUser \cup
    {a \in Nat : \E i \in DOMAIN v.turns : v.turns[i].who = "You" /\ a \in v.turns[i].words}

Ordered(v, br) ==
  \A i, j \in DOMAIN v.turns :
    i < j /\ v.turns[i].who = "You" /\ v.turns[j].who = "VYNE" =>
      \A answered \in v.turns[i].words, said \in v.turns[j].words \ br : answered < said

\* No later turn than this one has been heard to be answered.
Answerable ==
  IF server.phase = "working" /\ ~s.closed THEN server.turn - 1 ELSE server.turn

WordsInv ==
  /\ \A w \in iv.pendingAgent \ broken :
       /\ w = server.turn /\ ~s.closed /\ ~s.muted /\ s.text
       /\ server.phase \in {"working", "generated"}
  /\ \A a \in HeardIn(iv) :
       a <= Answerable /\ \A w \in iv.pendingAgent \ broken : a < w
  /\ Ordered(iv, broken)

Accounted(t) == told[t] = 1 \/ t \in broken

ToldInv ==
  /\ \A t \in Turns : told[t] <= 1 /\ (t > server.turn => told[t] = 0)
  /\ \A t \in Turns : t < server.turn => Accounted(t)
  /\ server.turn > 0 =>
       /\ ~s.closed /\ Underway => told[server.turn] = 0
       /\ s.closed \/ s.muted \/ ~Underway => Accounted(server.turn)

UsageInv ==
  /\ \A t \in Turns : t > server.turn => spent[t] = 0
  /\ s.closed \/ ~Underway => s.turnUsage = 0
  /\ ~s.closed /\ server.phase = "working" => s.turnUsage = spent[server.turn]
  /\ UsageBilled

TurnsInv ==
  /\ SessionInv /\ PhaseInv /\ VoiceInv /\ BargeInv /\ SpeechInv /\ WordsInv /\ ToldInv /\ UsageInv

-----------------------------------------------------------------------------
(* The transcript.                                                          *)

\* Writing down what is pending hears nobody else and keeps the order.
LEMMA WrittenKeeps ==
  ASSUME NEW v \in Interview, NEW w, NEW flush \in BOOLEAN, Written(v, w, flush),
         NEW br, NEW br2, br \subseteq br2, Ordered(v, br),
         \A a \in HeardIn(v) : \A x \in v.pendingAgent \ br : a < x
  PROVE  /\ HeardIn(w) = HeardIn(v) /\ w.pendingAgent \subseteq v.pendingAgent
         /\ Ordered(w, br2)
<1>1. CASE ~flush
  BY <1>1 DEF Written, HeardIn, Ordered
<1>2. CASE flush
  <2>. DEFINE U == Line("You", v.pendingUser)
              A == Line("VYNE", v.pendingAgent)
  <2>1. /\ w.pendingUser = {} /\ w.pendingAgent = {} /\ w.turns = v.turns \o U \o A
        /\ v.turns \in Seq(Entry) /\ v.pendingUser \subseteq Nat /\ v.pendingAgent \subseteq Nat
    BY <1>2 DEF Written, Interview
  <2>2. U \in Seq(Entry) /\ A \in Seq(Entry) /\ Len(U) \in {0, 1} /\ Len(A) \in {0, 1}
    <3>1. U \in Seq(Entry) /\ A \in Seq(Entry)
      BY <2>1, LineType DEF Who
    <3>. QED
      BY <3>1 DEF Line
  <2>3. /\ Len(U) = 1 => U[1].who = "You" /\ U[1].words = v.pendingUser
        /\ Len(A) = 1 => A[1].who = "VYNE" /\ A[1].words = v.pendingAgent
        /\ Len(U) = 0 => v.pendingUser = {}
    BY DEF Line
  <2>. HIDE DEF U, A
  <2>4. PICK n \in Nat : n = Len(v.turns)
    BY <2>1
  <2>5. /\ w.turns \in Seq(Entry) /\ Len(w.turns) = n + Len(U) + Len(A)
        /\ DOMAIN w.turns = 1 .. (n + Len(U) + Len(A)) /\ DOMAIN v.turns = 1 .. n
    BY <2>1, <2>2, <2>4
  <2>6. \A i \in 1 .. n : w.turns[i] = v.turns[i]
    BY <2>1, <2>2, <2>4
  <2>7. \A i \in DOMAIN w.turns : i > n =>
          \/ i = n + 1 /\ Len(U) = 1 /\ w.turns[i] = U[1]
          \/ i = n + Len(U) + 1 /\ Len(A) = 1 /\ w.turns[i] = A[1]
    <3>. SUFFICES ASSUME NEW i \in DOMAIN w.turns, i > n
                  PROVE  \/ i = n + 1 /\ Len(U) = 1 /\ w.turns[i] = U[1]
                         \/ i = n + Len(U) + 1 /\ Len(A) = 1 /\ w.turns[i] = A[1]
      OBVIOUS
    <3>0. PICK lu \in 0 .. 1, la \in 0 .. 1 : lu = Len(U) /\ la = Len(A)
      BY <2>2
    <3>1. PICK B : B = v.turns \o U
      OBVIOUS
    <3>2. /\ B \in Seq(Entry) /\ Len(B) = n + lu
          /\ \A k \in 1 .. n + lu : k > n => B[k] = U[k - n]
      BY <2>1, <2>2, <2>4, <3>0, <3>1
    <3>3. w.turns = B \o A
      BY <2>1, <3>1
    <3>4. i \in 1 .. (n + lu + la)
      BY <2>5, <3>0
    <3>5. CASE i <= n + lu
      <4>1. lu = 1 /\ i = n + 1
        BY <3>4, <3>5
      <4>2. w.turns[i] = B[i]
        BY <2>2, <3>2, <3>3, <3>4, <3>5
      <4>3. B[i] = U[i - n] /\ i - n = 1
        BY <3>2, <4>1
      <4>. QED
        BY <3>0, <4>1, <4>2, <4>3
    <3>6. CASE i > n + lu
      <4>1. la = 1 /\ i = n + lu + 1
        BY <3>4, <3>6
      <4>2. w.turns[i] = A[i - Len(B)] /\ i - Len(B) = 1
        BY <2>2, <3>0, <3>2, <3>3, <3>4, <3>6, <4>1
      <4>. QED
        BY <3>0, <4>1, <4>2
    <3>. QED
      BY <3>4, <3>5, <3>6
  <2>8. Len(U) = 1 => n + 1 \in DOMAIN w.turns /\ w.turns[n + 1] = U[1]
    BY <2>1, <2>2, <2>4, <2>5
  <2>9. HeardIn(w) = HeardIn(v)
    <3>1. ASSUME NEW a \in HeardIn(w) PROVE a \in HeardIn(v)
      <4>1. PICK i \in DOMAIN w.turns : w.turns[i].who = "You" /\ a \in w.turns[i].words
        BY <2>1, <3>1 DEF HeardIn
      <4>2. a \in Nat
        BY <2>1, <3>1 DEF HeardIn
      <4>3. CASE i <= n
        BY <2>5, <2>6, <4>1, <4>2, <4>3 DEF HeardIn
      <4>4. CASE i > n
        BY <2>3, <2>7, <4>1, <4>4 DEF HeardIn
      <4>. QED
        BY <2>4, <2>5, <4>3, <4>4
    <3>2. ASSUME NEW a \in HeardIn(v) PROVE a \in HeardIn(w)
      <4>1. CASE a \in v.pendingUser
        <5>1. Len(U) = 1
          BY <2>2, <2>3, <4>1
        <5>. QED
          BY <2>1, <2>3, <2>8, <4>1, <5>1 DEF HeardIn
      <4>2. CASE a \notin v.pendingUser
        <5>1. PICK i \in DOMAIN v.turns : v.turns[i].who = "You" /\ a \in v.turns[i].words
          BY <3>2, <4>2 DEF HeardIn
        <5>2. a \in Nat
          BY <3>2, <4>2 DEF HeardIn
        <5>3. i \in DOMAIN w.turns /\ w.turns[i] = v.turns[i]
          BY <2>2, <2>4, <2>5, <2>6, <5>1
        <5>. QED
          BY <5>1, <5>2, <5>3 DEF HeardIn
      <4>. QED
        BY <4>1, <4>2
    <3>. QED
      BY <3>1, <3>2
  <2>10. Ordered(w, br2)
    <3>. SUFFICES ASSUME NEW i \in DOMAIN w.turns, NEW j \in DOMAIN w.turns, i < j,
                         w.turns[i].who = "You", w.turns[j].who = "VYNE",
                         NEW answered \in w.turns[i].words, NEW said \in w.turns[j].words \ br2
                  PROVE  answered < said
      BY DEF Ordered
    <3>1. CASE j <= n
      <4>1. i \in DOMAIN v.turns /\ j \in DOMAIN v.turns
        BY <2>4, <2>5, <3>1
      <4>. QED
        BY <2>5, <2>6, <4>1 DEF Ordered
    <3>2. CASE j > n
      <4>1. said \in v.pendingAgent \ br
        BY <2>3, <2>7, <3>2
      <4>2. answered \in HeardIn(w)
        <5>1. w.turns[i] \in Entry
          BY <2>5
        <5>. QED
          BY <5>1 DEF HeardIn, Entry
      <4>. QED
        BY <2>9, <4>1, <4>2
    <3>. QED
      BY <2>4, <2>5, <3>1, <3>2
  <2>. QED
    BY <2>1, <2>9, <2>10
<1>. QED
  BY <1>1, <1>2

-----------------------------------------------------------------------------
(* Each step keeps the invariant, while nobody does what the code mishandles. *)

LEMMA ConversationType ==
  ASSUME TypeOK
  PROVE  \A t \in Nat : /\ Conversation(t) \in Conv /\ Conversation(t).s = s
                        /\ Conversation(t).iv = iv /\ Conversation(t).told = told
                        /\ Conversation(t).turn = t
BY DEF TypeOK, Conversation, Conv

\* What a frame that neither ends nor interrupts a turn leaves behind.
PlainStep(f, sv) ==
  /\ ~s.closed /\ s' \in Session /\ iv' \in Interview
  /\ SameBut(s, s', {"content", "awaiting", "text", "voiced", "state", "idleDefer", "salvage",
                     "turnUsage", "playing", "run"})
  /\ s'.content <=> s.content \/ f.voice \/ f.think
  /\ s'.text <=> s.text \/ f.words
  /\ s'.voiced <=> s.voiced \/ f.voice
  /\ s'.state = (IF s.voiced THEN s.state ELSE IF f.voice THEN "speaking"
                 ELSE IF f.think THEN "thinking" ELSE s.state)
  /\ s'.idleDefer <=> s.idleDefer /\ (s.voiced \/ ~(f.voice \/ f.think))
  /\ s'.salvage <=> SalvageArmed(s.salvage, f)
  /\ s'.turnUsage = (IF f.usage > 0 /\ f.usage > s.turnUsage THEN f.usage ELSE s.turnUsage)
  /\ s'.playing = (IF f.voice /\ ~s.muted THEN s.playing + 1 ELSE s.playing)
  /\ s'.run <=> s.run \/ (f.voice /\ ~s.muted)
  /\ AlsoBut(iv, iv', {"pendingUser", "pendingAgent"})
  /\ iv'.pendingUser = (IF f.heard > 0 /\ ~s.muted THEN iv.pendingUser \cup {f.heard}
                        ELSE iv.pendingUser)
  /\ iv'.pendingAgent = (IF f.words /\ ~s.muted THEN iv.pendingAgent \cup {sv.turn}
                         ELSE iv.pendingAgent)
  /\ told' = told /\ broken' = broken \cup (IF s.muted THEN {sv.turn} ELSE {})
  /\ server' = sv /\ used' = used
  /\ spent' = IF f.usage > 0 THEN [spent EXCEPT ![sv.turn] = Max({@, f.usage})] ELSE spent

LEMMA PlainFacts ==
  ASSUME TypeOK, TurnsInv, NEW f \in Frame, NEW sv \in Server, Receive(f, sv),
         ~f.turnComplete, ~f.interrupted, ~f.goAway
  PROVE  PlainStep(f, sv)
<1>1. PICK q \in Clock : LET m == OnMessage(Conversation(sv.turn), f, q) IN
         /\ Becomes(m)
         /\ broken' = broken \cup Cut(m) \cup (IF s.muted THEN {sv.turn} ELSE {})
  BY DEF Receive
<1>2. /\ ~s.closed /\ server' = sv /\ used' = used
      /\ spent' = IF f.usage > 0 THEN [spent EXCEPT ![sv.turn] = Max({@, f.usage})] ELSE spent
  BY DEF Receive
<1>3. PICK c : c = Conversation(sv.turn)
  OBVIOUS
<1>4. PICK m : m = OnMessage(c, f, q)
  OBVIOUS
<1>5. /\ Becomes(m)
      /\ broken' = broken \cup Cut(m) \cup (IF s.muted THEN {sv.turn} ELSE {})
  BY <1>1, <1>3, <1>4
<1>6. sv.turn \in Nat
  BY DEF Server
<1>7. c \in Conv /\ c.s = s /\ c.iv = iv /\ c.told = told /\ c.turn = sv.turn
  BY <1>3, <1>6, ConversationType
<1>8. ~c.s.notify
  BY <1>7 DEF TurnsInv, SessionInv
<1>9. m = Taken(NoteModelActivity(Heard(c, f), f, q), f)
  BY <1>4, Stages
<1>10. /\ m \in Conv /\ m.turn = c.turn /\ m.told = c.told
       /\ SameBut(c.s, m.s, {"content", "awaiting", "text", "voiced", "state", "idleDefer",
                             "salvage", "turnUsage", "playing", "run"})
       /\ m.s.content <=> c.s.content \/ f.voice \/ f.think
       /\ m.s.text <=> c.s.text \/ f.words
       /\ m.s.voiced <=> c.s.voiced \/ f.voice
       /\ m.s.state = (IF c.s.voiced THEN c.s.state ELSE IF f.voice THEN "speaking"
                       ELSE IF f.think THEN "thinking" ELSE c.s.state)
       /\ m.s.idleDefer <=> c.s.idleDefer /\ (c.s.voiced \/ ~(f.voice \/ f.think))
       /\ m.s.salvage <=> SalvageArmed(c.s.salvage, f)
       /\ m.s.turnUsage = (IF f.usage > 0 /\ f.usage > c.s.turnUsage
                           THEN f.usage ELSE c.s.turnUsage)
       /\ m.s.playing = (IF f.voice /\ ~c.s.muted THEN c.s.playing + 1 ELSE c.s.playing)
       /\ m.s.run <=> c.s.run \/ (f.voice /\ ~c.s.muted)
       /\ c.s.muted => m.iv = c.iv
       /\ ~c.s.muted => Adds(c, f, m.iv)
  BY <1>7, <1>8, <1>9, PlainEffect
<1>11. m.s = s' /\ m.iv = iv' /\ m.told = told'
  BY <1>5 DEF Becomes
<1>12. Cut(m) = {}
  <2>1. m.s.closed = s.closed
    BY <1>7, <1>10 DEF SameBut, SessionFields
  <2>. QED
    BY <1>2, <2>1 DEF Cut
<1>13. /\ s' \in Session /\ iv' \in Interview
  BY <1>10, <1>11 DEF Conv
<1>14. /\ AlsoBut(iv, iv', {"pendingUser", "pendingAgent"})
       /\ iv'.pendingUser = (IF f.heard > 0 /\ ~s.muted THEN iv.pendingUser \cup {f.heard}
                             ELSE iv.pendingUser)
       /\ iv'.pendingAgent = (IF f.words /\ ~s.muted THEN iv.pendingAgent \cup {sv.turn}
                              ELSE iv.pendingAgent)
  <2>1. CASE s.muted
    BY <1>7, <1>10, <1>11, <2>1 DEF AlsoBut
  <2>2. CASE ~s.muted
    BY <1>7, <1>10, <1>11, <2>2 DEF Adds
  <2>. QED
    BY <2>1, <2>2
<1>. QED
  BY <1>2, <1>5, <1>7, <1>10, <1>11, <1>12, <1>13, <1>14 DEF PlainStep

\* The turns are finitely many.
LEMMA TurnsAreFew == IsFiniteSet(Turns) /\ MaxTurns \in Nat
<1>1. MaxTurns \in Nat
  BY BoundAssumption
<1>. QED
  BY <1>1, FS_Interval DEF Turns

LEMMA PlainType ==
  ASSUME TypeOK, NEW f \in Frame, NEW sv \in Server, PlainStep(f, sv),
         sv.turn > 0 \/ (~s.muted /\ f.usage = 0)
  PROVE  TypeOK'
<1>1. s' \in Session /\ iv' \in Interview /\ server' \in Server /\ used' \in Used
      /\ told' \in [Turns -> Nat]
  BY DEF PlainStep, TypeOK
<1>2. sv.turn > 0 => sv.turn \in Turns
  BY TurnsAreFew DEF Server, Turns
<1>3. broken' \subseteq Turns
  BY <1>2 DEF PlainStep, TypeOK
<1>4. spent' \in [Turns -> Nat]
  <2>1. CASE f.usage > 0
    <3>1. sv.turn \in Turns /\ spent[sv.turn] \in Nat /\ f.usage \in Nat
      BY <1>2, <2>1 DEF TypeOK, Frame
    <3>2. PICK k \in Nat : k = Max({spent[sv.turn], f.usage})
      BY <3>1, PairMax
    <3>3. spent' = [spent EXCEPT ![sv.turn] = k]
      BY <2>1, <3>2 DEF PlainStep
    <3>. QED
      BY <3>2, <3>3 DEF TypeOK
  <2>2. CASE ~(f.usage > 0)
    BY <2>2 DEF PlainStep, TypeOK
  <2>. QED
    BY <2>1, <2>2
<1>. QED
  BY <1>1, <1>3, <1>4 DEF TypeOK

\* A frame of the turn the model works on.
WorkFrame(f, sv) ==
  /\ f \in Frame /\ ~f.turnComplete /\ ~f.interrupted /\ ~f.goAway /\ ~f.generated
  /\ f.heard = 0 /\ f.usage = 0 /\ (f.voice \/ f.think \/ f.words)
  /\ sv \in Server /\ sv.phase = "working" /\ ~sv.barged /\ ~sv.late
  /\ sv.speech = server.speech

\* A frame of the turn the model works on, or begins.
Works(f, sv) ==
  /\ f \in Frame /\ ~f.turnComplete /\ ~f.interrupted /\ ~f.goAway /\ ~f.generated
  /\ f.heard = 0 /\ f.usage = 0 /\ (f.voice \/ f.think \/ f.words)
  /\ sv \in Server /\ sv.phase = "working" /\ ~sv.barged /\ ~sv.late
  /\ sv.speech = server.speech
  /\ sv.turn = (IF server.phase = "working" THEN server.turn ELSE server.turn + 1)
  /\ sv.voice > 0 => f.voice \/ (server.phase = "working" /\ server.voice > 0)
  /\ ~f.voice => sv.voice = (IF server.phase = "working" THEN server.voice ELSE 0)

\* What a step of the model finds: nobody is speaking, and a turn it begins
\* begins when the one before is closed.
MayBegin(sv) ==
  /\ ~s.speaking /\ server.speech = 0 /\ sv.turn \in Turns /\ ~s.salvage
  /\ server.phase = "working" => sv.turn = server.turn
  /\ server.phase # "working" => /\ ~Underway /\ sv.turn = server.turn + 1

LEMMA WorkBegins ==
  ASSUME TypeOK, TurnsInv, Faults = {}, MayWork, ~s.closed, NEW f, NEW sv, Works(f, sv)
  PROVE  MayBegin(sv)
<1>1. CASE server.phase = "working"
  <2>1. ~server.barged /\ sv.turn = server.turn
    BY <1>1, BoundAssumption DEF MayWork, Works
  <2>2. ~s.speaking /\ ~(server.speech > 0)
    BY <1>1, <2>1 DEF TurnsInv, BargeInv, SpeechInv
  <2>3. ~s.salvage /\ server.turn # 0
    BY <1>1 DEF TurnsInv, PhaseInv
  <2>. QED
    BY <1>1, <2>1, <2>2, <2>3, TurnsAreFew DEF MayBegin, TypeOK, Server, Turns
<1>2. CASE server.phase # "working"
  <2>1. /\ server.phase = "quiet" \/ (server.phase = "generated" /\ ~s.salvage)
        /\ server.turn < MaxTurns /\ ~s.speaking /\ server.speech = 0
    BY <1>2 DEF MayWork
  <2>2. ~Underway /\ ~s.salvage
    BY <2>1 DEF TurnsInv, PhaseInv
  <2>3. sv.turn = server.turn + 1
    BY <1>2 DEF Works
  <2>. QED
    BY <1>2, <2>1, <2>2, <2>3, TurnsAreFew DEF MayBegin, TypeOK, Server, Turns
<1>. QED
  BY <1>1, <1>2

LEMMA WorkKeeps ==
  ASSUME TypeOK, TurnsInv, Faults = {}, MayWork, NEW f, NEW sv, Works(f, sv), Receive(f, sv)
  PROVE  TypeOK' /\ TurnsInv'
<1>1. f \in Frame /\ sv \in Server
  BY DEF Works
<1>2. PlainStep(f, sv)
  BY <1>1, PlainFacts DEF Works
<1>3. MayBegin(sv)
  BY <1>2, WorkBegins DEF PlainStep
<1>4. TypeOK'
  BY <1>1, <1>2, <1>3, PlainType, TurnsAreFew DEF MayBegin, Turns
<1>5. /\ ~s.closed /\ ~s'.closed /\ s'.muted = s.muted /\ s'.notify = s.notify
      /\ s'.speaking = s.speaking /\ s'.wall = s.wall /\ s'.usage = s.usage /\ s'.spoke = s.spoke
      /\ s'.salvage = FALSE /\ s'.turnUsage = s.turnUsage
  BY <1>2, <1>3, <1>4 DEF PlainStep, SameBut, SessionFields, Works, SalvageArmed, MayBegin, TypeOK,
                          Session
<1>6. /\ s'.content <=> s.content \/ f.voice \/ f.think
      /\ s'.text <=> s.text \/ f.words
      /\ s'.voiced <=> s.voiced \/ f.voice
      /\ s'.state = (IF s.voiced THEN s.state ELSE IF f.voice THEN "speaking"
                     ELSE IF f.think THEN "thinking" ELSE s.state)
      /\ s'.idleDefer <=> s.idleDefer /\ (s.voiced \/ ~(f.voice \/ f.think))
      /\ s'.playing = (IF f.voice /\ ~s.muted THEN s.playing + 1 ELSE s.playing)
      /\ s'.run <=> s.run \/ (f.voice /\ ~s.muted)
  BY <1>2 DEF PlainStep
<1>7. server' = sv /\ sv.phase = "working" /\ ~sv.barged /\ ~sv.late /\ sv.speech = server.speech
  BY <1>2 DEF PlainStep, Works
<1>8. Underway'
  BY <1>6 DEF Underway, Works
<1>9. SessionInv'
  BY <1>5, <1>6 DEF TurnsInv, SessionInv
<1>10. PhaseInv'
  <2>1. sv.voice > 0 => s'.voiced
    BY <1>5, <1>6 DEF TurnsInv, PhaseInv, Works
  <2>2. sv.turn # 0
    BY <1>3, TurnsAreFew DEF MayBegin, Turns
  <2>. QED
    BY <1>5, <1>7, <1>8, <2>1, <2>2 DEF PhaseInv
<1>11. VoiceInv'
  <2>1. FloorHeld'
    BY <1>5, <1>6 DEF TurnsInv, VoiceInv, FloorHeld, SessionInv
  <2>2. s'.playing > 0 /\ ~s'.run => sv.voice = 0
    <3>1. SUFFICES ASSUME s'.playing > 0, ~s'.run PROVE sv.voice = 0
      OBVIOUS
    <3>2. ~f.voice /\ s.playing > 0 /\ ~s.run
      BY <1>5, <1>6, <3>1 DEF TurnsInv, SessionInv
    <3>3. server.phase = "working" => server.voice = 0
      BY <1>5, <3>2 DEF TurnsInv, VoiceInv, PhaseInv
    <3>. QED
      BY <3>2, <3>3 DEF Works
  <2>. QED
    BY <1>7, <2>1, <2>2 DEF VoiceInv
<1>12. BargeInv'
  BY <1>2, <1>3, <1>5 DEF TurnsInv, BargeInv, MayBegin, NobodyCutOff, PlainStep, AlsoBut,
                          InterviewFields
<1>13. SpeechInv'
  BY <1>3, <1>7 DEF SpeechInv, MayBegin, TypeOK, Server
<1>14. WordsInv'
  <2>1. iv'.turns = iv.turns /\ iv'.pendingUser = iv.pendingUser /\ HeardIn(iv') = HeardIn(iv)
    BY <1>2 DEF PlainStep, Works, AlsoBut, InterviewFields, HeardIn
  <2>2. broken \subseteq broken' /\ (s.muted => sv.turn \in broken')
    BY <1>2 DEF PlainStep
  <2>3. ASSUME NEW w \in iv'.pendingAgent \ broken'
        PROVE  w = sv.turn /\ ~s.muted /\ s'.text
    <3>1. CASE w \in iv.pendingAgent \ broken
      <4>1. w = server.turn /\ ~s.muted /\ s.text
        BY <3>1 DEF TurnsInv, WordsInv
      <4>. QED
        BY <1>3, <1>6, <4>1 DEF MayBegin, Underway
    <3>2. CASE w \notin iv.pendingAgent \ broken
      BY <1>2, <1>6, <2>2, <2>3, <3>2 DEF PlainStep
    <3>. QED
      BY <3>1, <3>2
  <2>4. Answerable' = sv.turn - 1
    BY <1>5, <1>7 DEF Answerable
  <2>5. Answerable <= sv.turn - 1
    BY <1>3, <1>5, TurnsAreFew DEF Answerable, MayBegin, TypeOK, Server, Turns
  <2>6. sv.turn \in Nat /\ Answerable \in Int
    BY <1>1 DEF Server, Answerable, TypeOK
  <2>7. \A a \in HeardIn(iv') : a <= sv.turn - 1 /\ \A w \in iv'.pendingAgent \ broken' : a < w
    <3>1. ASSUME NEW a \in HeardIn(iv') PROVE a \in Nat /\ a <= sv.turn - 1
      <4>1. a <= Answerable
        BY <2>1, <3>1 DEF TurnsInv, WordsInv
      <4>2. a \in Nat
        BY <2>1, <3>1 DEF HeardIn, TypeOK, Interview
      <4>. QED
        BY <2>5, <2>6, <4>1, <4>2
    <3>. QED
      BY <2>3, <2>6, <3>1
  <2>8. Ordered(iv', broken')
    BY <2>1, <2>2 DEF TurnsInv, WordsInv, Ordered
  <2>. QED
    BY <1>5, <1>7, <2>3, <2>4, <2>7, <2>8 DEF WordsInv
<1>15. ToldInv'
  <2>1. told' = told /\ broken \subseteq broken' /\ (s.muted => sv.turn \in broken')
    BY <1>2 DEF PlainStep
  <2>2. /\ \A t \in Turns : told[t] <= 1 /\ (t > sv.turn => told[t] = 0)
        /\ \A t \in Turns : t < sv.turn => told[t] = 1 \/ t \in broken
        /\ told[sv.turn] = 0
    <3>1. CASE server.phase = "working"
      BY <1>3, <1>5, <3>1, TurnsAreFew
         DEF TurnsInv, ToldInv, Accounted, MayBegin, PhaseInv, TypeOK, Server, Turns
    <3>2. CASE server.phase # "working"
      BY <1>3, <1>5, <3>2, TurnsAreFew
         DEF TurnsInv, ToldInv, Accounted, MayBegin, TypeOK, Server, Turns
    <3>. QED
      BY <3>1, <3>2
  <2>. QED
    BY <1>5, <1>7, <1>8, <2>1, <2>2 DEF ToldInv, Accounted
<1>16. UsageInv'
  <2>1. spent' = spent /\ used' = used
    BY <1>2 DEF PlainStep, Works
  <2>2. \A t \in Turns : t > sv.turn => spent[t] = 0
    <3>1. server.turn \in Nat /\ sv.turn \in Nat /\ sv.turn >= server.turn
      BY <1>1, <1>3 DEF MayBegin, TypeOK, Server
    <3>2. \A t \in Turns : t \in Nat
      BY DEF Turns
    <3>3. \A t \in Turns : t > server.turn => spent[t] = 0
      BY DEF TurnsInv, UsageInv
    <3>. QED
      BY <3>1, <3>2, <3>3
  <2>3. s.turnUsage = spent[sv.turn]
    <3>1. CASE server.phase = "working"
      BY <1>3, <1>5, <3>1 DEF MayBegin, TurnsInv, UsageInv
    <3>2. CASE server.phase # "working"
      BY <1>3, <1>5, <3>2, TurnsAreFew DEF MayBegin, TurnsInv, UsageInv, TypeOK, Server, Turns
    <3>. QED
      BY <3>1, <3>2
  <2>4. UsageBilled'
    BY <1>5, <2>1 DEF TurnsInv, UsageInv, UsageBilled
  <2>. QED
    BY <1>5, <1>7, <1>8, <2>1, <2>2, <2>3, <2>4 DEF UsageInv
<1>. QED
  BY <1>4, <1>9, <1>10, <1>11, <1>12, <1>13, <1>14, <1>15, <1>16 DEF TurnsInv

\* What the model may send next belongs to the turn it works on.
LEMMA WorkingIs ==
  ASSUME TypeOK, TurnsInv, Faults = {}, MayWork
  PROVE  /\ Working \in Server /\ Working.phase = "working" /\ ~Working.barged /\ ~Working.late
         /\ Working.speech = server.speech
         /\ Working.turn = (IF server.phase = "working" THEN server.turn ELSE server.turn + 1)
         /\ Working.voice = (IF server.phase = "working" THEN server.voice ELSE 0)
<1>1. CASE server.phase = "working"
  BY <1>1 DEF Working, MayWork, TurnsInv, PhaseInv, TypeOK
<1>2. CASE server.phase # "working"
  <2>1. server.turn < MaxTurns /\ server.turn \in 0 .. MaxTurns
    BY <1>2 DEF MayWork, TypeOK, Server
  <2>2. PICK n \in 0 .. MaxTurns : n = server.turn + 1
    BY <2>1, TurnsAreFew
  <2>3. PICK late \in BOOLEAN : late = (server.phase = "generated" /\ "overlap" \in Faults)
    OBVIOUS
  <2>4. Working = [server EXCEPT !.turn = n, !.phase = "working", !.voice = 0, !.words = FALSE,
                      !.cost = 0, !.due = FALSE, !.barged = FALSE, !.late = late]
    BY <1>2, <2>2, <2>3 DEF Working
  <2>. QED
    BY <1>2, <2>2, <2>3, <2>4 DEF TypeOK, Server
<1>. QED
  BY <1>1, <1>2

LEMMA ThinksKeeps ==
  ASSUME TypeOK, TurnsInv, Faults = {}, Thinks
  PROVE  TypeOK' /\ TurnsInv'
<1>. DEFINE f == [Silent EXCEPT !.think = TRUE]
<1>1. MayWork /\ Receive(f, Working)
  BY DEF Thinks
<1>3. f \in Frame /\ ~f.turnComplete /\ ~f.interrupted /\ ~f.goAway /\ ~f.generated
      /\ f.heard = 0 /\ f.usage = 0 /\ ~f.voice /\ f.think
  BY DEF Silent, Frame
<1>. HIDE DEF f
<1>2. Works(f, Working)
  BY <1>1, <1>3, WorkingIs DEF Works
<1>. QED
  BY <1>1, <1>2, WorkKeeps

LEMMA VoicesKeeps ==
  ASSUME TypeOK, TurnsInv, Faults = {}, Voices
  PROVE  TypeOK' /\ TurnsInv'
<1>. DEFINE f == [Silent EXCEPT !.voice = TRUE]
<1>1. PICK k : k = Working.voice + 1
  OBVIOUS
<1>2. PICK sv : sv = [Working EXCEPT !.voice = k]
  OBVIOUS
<1>3. MayWork /\ Receive(f, sv)
  BY <1>1, <1>2 DEF Voices
<1>4. /\ Working \in Server /\ Working.phase = "working" /\ ~Working.barged /\ ~Working.late
      /\ Working.speech = server.speech
      /\ Working.turn = (IF server.phase = "working" THEN server.turn ELSE server.turn + 1)
      /\ Working.voice = (IF server.phase = "working" THEN server.voice ELSE 0)
  BY <1>3, WorkingIs
<1>5. k \in Nat
  BY <1>1, <1>4 DEF Server
<1>6. /\ sv \in Server /\ sv.phase = Working.phase /\ sv.barged = Working.barged
      /\ sv.late = Working.late /\ sv.speech = Working.speech /\ sv.turn = Working.turn
  BY <1>2, <1>4, <1>5 DEF Server
<1>7. f \in Frame /\ ~f.turnComplete /\ ~f.interrupted /\ ~f.goAway /\ ~f.generated
      /\ f.heard = 0 /\ f.usage = 0 /\ f.voice
  BY DEF Silent, Frame
<1>. HIDE DEF f
<1>8. Works(f, sv)
  BY <1>4, <1>6, <1>7 DEF Works
<1>. QED
  BY <1>3, <1>8, WorkKeeps

LEMMA SaysKeeps ==
  ASSUME TypeOK, TurnsInv, Faults = {}, Says
  PROVE  TypeOK' /\ TurnsInv'
<1>. DEFINE f == [Silent EXCEPT !.words = TRUE]
<1>1. PICK sv : /\ MayWork /\ sv = [Working EXCEPT !.words = TRUE]
                /\ Receive(f, sv)
  BY DEF Says, Trailing
<1>2. /\ Working \in Server /\ Working.phase = "working" /\ ~Working.barged /\ ~Working.late
      /\ Working.speech = server.speech
      /\ Working.turn = (IF server.phase = "working" THEN server.turn ELSE server.turn + 1)
      /\ Working.voice = (IF server.phase = "working" THEN server.voice ELSE 0)
  BY <1>1, WorkingIs
<1>3. /\ sv \in Server /\ sv.phase = Working.phase /\ sv.barged = Working.barged
      /\ sv.late = Working.late /\ sv.speech = Working.speech /\ sv.turn = Working.turn
      /\ sv.voice = Working.voice
  BY <1>1, <1>2 DEF Server
<1>4. f \in Frame /\ ~f.turnComplete /\ ~f.interrupted /\ ~f.goAway /\ ~f.generated
      /\ f.heard = 0 /\ f.usage = 0 /\ ~f.voice /\ f.words
  BY DEF Silent, Frame
<1>. HIDE DEF f
<1>5. Works(f, sv)
  BY <1>2, <1>3, <1>4 DEF Works
<1>. QED
  BY <1>1, <1>5, WorkKeeps

LEMMA ReportsKeeps ==
  ASSUME TypeOK, TurnsInv, Faults = {}, Reports
  PROVE  TypeOK' /\ TurnsInv'
<1>1. PICK n : n = server.cost + 1
  OBVIOUS
<1>2. n \in Nat /\ n > 0
  BY <1>1 DEF TypeOK, Server
<1>3. PICK sv : sv = [server EXCEPT !.cost = n]
  OBVIOUS
<1>4. /\ sv \in Server /\ sv.turn = server.turn /\ sv.phase = server.phase
      /\ sv.voice = server.voice /\ sv.speech = server.speech /\ sv.barged = server.barged
      /\ sv.late = server.late
  BY <1>2, <1>3 DEF TypeOK, Server
<1>. DEFINE f == [Silent EXCEPT !.usage = n]
<1>5. server.phase = "working" /\ Receive(f, sv)
  BY <1>1, <1>3 DEF Reports
<1>6. /\ f \in Frame /\ ~f.turnComplete /\ ~f.interrupted /\ ~f.goAway /\ ~f.generated
      /\ f.heard = 0 /\ f.usage = n /\ ~f.voice /\ ~f.words /\ ~f.think
  BY <1>2 DEF Silent, Frame
<1>. HIDE DEF f
<1>7. PlainStep(f, sv)
  BY <1>4, <1>5, <1>6, PlainFacts
<1>8. ~s.closed
  BY <1>7 DEF PlainStep
<1>9. server.turn \in Turns
  BY <1>5, TurnsAreFew DEF TurnsInv, PhaseInv, TypeOK, Server, Turns
<1>10. TypeOK'
  BY <1>4, <1>6, <1>7, <1>9, PlainType, TurnsAreFew DEF Turns
<1>11. /\ s'.closed = s.closed /\ s'.muted = s.muted /\ s'.notify = s.notify
       /\ s'.speaking = s.speaking /\ s'.wall = s.wall /\ s'.usage = s.usage
       /\ s'.spoke = s.spoke
  BY <1>7 DEF PlainStep, SameBut, SessionFields
<1>12. /\ s'.content = s.content /\ s'.text = s.text /\ s'.voiced = s.voiced /\ s'.state = s.state
       /\ s'.idleDefer = s.idleDefer /\ s'.salvage = s.salvage /\ s'.playing = s.playing
       /\ s'.run = s.run
       /\ s'.turnUsage = (IF n > s.turnUsage THEN n ELSE s.turnUsage)
  BY <1>2, <1>6, <1>7, <1>10 DEF PlainStep, SalvageArmed, TypeOK, Session
<1>13. /\ server' = sv /\ used' = used /\ told' = told
       /\ broken \subseteq broken'
       /\ spent' = [spent EXCEPT ![server.turn] = Max({@, n})]
  BY <1>2, <1>4, <1>6, <1>7 DEF PlainStep
<1>14. /\ iv'.turns = iv.turns /\ iv'.pendingUser = iv.pendingUser
       /\ iv'.pendingAgent = iv.pendingAgent /\ iv'.cut = iv.cut /\ iv'.goAway = iv.goAway
       /\ HeardIn(iv') = HeardIn(iv)
  BY <1>6, <1>7 DEF PlainStep, AlsoBut, InterviewFields, HeardIn
<1>15. Underway' = Underway /\ Answerable' = Answerable
  BY <1>4, <1>11, <1>12, <1>13 DEF Underway, Answerable
<1>16. SessionInv'
  BY <1>11, <1>12 DEF TurnsInv, SessionInv
<1>17. PhaseInv'
  BY <1>4, <1>11, <1>12, <1>13, <1>15 DEF TurnsInv, PhaseInv
<1>18. VoiceInv'
  BY <1>4, <1>11, <1>12, <1>13, <1>15 DEF TurnsInv, VoiceInv, FloorHeld
<1>19. BargeInv'
  BY <1>4, <1>11, <1>12, <1>13, <1>14, <1>15 DEF TurnsInv, BargeInv, NobodyCutOff
<1>20. SpeechInv'
  BY <1>4, <1>11, <1>12, <1>13, <1>15 DEF TurnsInv, SpeechInv
<1>21. WordsInv'
  <2>1. Ordered(iv', broken')
    BY <1>13, <1>14 DEF TurnsInv, WordsInv, Ordered
  <2>. QED
    BY <1>4, <1>11, <1>12, <1>13, <1>14, <1>15, <2>1 DEF TurnsInv, WordsInv
<1>22. ToldInv'
  <2>1. \A t \in Turns : Accounted(t) => Accounted(t)'
    BY <1>13 DEF Accounted
  <2>2. s'.muted => Accounted(server.turn)
    BY <1>9, <1>11, TurnsAreFew DEF TurnsInv, ToldInv, Turns
  <2>. QED
    BY <1>4, <1>9, <1>11, <1>13, <1>15, <2>1, <2>2, TurnsAreFew DEF TurnsInv, ToldInv, Turns
<1>23. UsageInv'
  <2>1. s.turnUsage = spent[server.turn] /\ spent[server.turn] \in Nat
    BY <1>5, <1>8, <1>9 DEF TurnsInv, UsageInv, TypeOK
  <2>2. s'.turnUsage = Max({spent[server.turn], n})
    BY <1>2, <1>12, <2>1, PairMax
  <2>3. PICK v \in Nat : v = Max({spent[server.turn], n})
    BY <1>2, <2>1, PairMax
  <2>4. spent' = [spent EXCEPT ![server.turn] = v]
    BY <1>13, <2>3
  <2>5. s'.turnUsage = spent'[server.turn] /\ s'.turnUsage = v
    BY <1>9, <2>2, <2>3, <2>4 DEF TypeOK
  <2>6. \A t \in Turns : t > server.turn => spent'[t] = 0
    BY <1>9, <2>4, TurnsAreFew DEF TurnsInv, UsageInv, TypeOK, Turns
  <2>7. UsageBilled'
    <3>1. /\ SumFunction(spent') = SumFunction(spent) - spent[server.turn] + v
          /\ SumFunction(spent) \in Int
      BY <1>9, <2>4, SumChanges, TurnsAreFew DEF TypeOK
    <3>2. used.tokens + s.usage + s.turnUsage = SumFunction(spent)
      BY DEF TurnsInv, UsageInv, UsageBilled
    <3>3. used.tokens \in Nat /\ s.usage \in Nat
      BY DEF TypeOK, Used, Session
    <3>. QED
      BY <1>11, <1>13, <2>1, <2>5, <3>1, <3>2, <3>3 DEF UsageBilled
  <2>8. Underway
    BY <1>5, <1>8 DEF TurnsInv, PhaseInv
  <2>. QED
    BY <1>4, <1>8, <1>11, <1>13, <1>15, <2>5, <2>6, <2>7, <2>8 DEF UsageInv
<1>. QED
  BY <1>10, <1>16, <1>17, <1>18, <1>19, <1>20, <1>21, <1>22, <1>23 DEF TurnsInv

LEMMA GeneratesKeeps ==
  ASSUME TypeOK, TurnsInv, Faults = {}, Generates
  PROVE  TypeOK' /\ TurnsInv'
<1>1. PICK sv : sv = [server EXCEPT !.phase = "generated"]
  OBVIOUS
<1>2. /\ sv \in Server /\ sv.turn = server.turn /\ sv.phase = "generated"
      /\ sv.speech = server.speech /\ sv.barged = server.barged /\ sv.late = server.late
  BY <1>1 DEF TypeOK, Server
<1>. DEFINE f == [Silent EXCEPT !.generated = TRUE]
<1>3. server.phase = "working" /\ server.voice > 0 /\ Receive(f, sv)
  BY <1>1 DEF Generates, Spoken
<1>4. /\ f \in Frame /\ ~f.turnComplete /\ ~f.interrupted /\ ~f.goAway /\ f.generated = TRUE
      /\ f.heard = 0 /\ f.usage = 0 /\ ~f.voice /\ ~f.words /\ ~f.think
  BY DEF Silent, Frame
<1>. HIDE DEF f
<1>5. PlainStep(f, sv)
  BY <1>2, <1>3, <1>4, PlainFacts
<1>6. ~s.closed
  BY <1>5 DEF PlainStep
<1>7. server.turn \in Turns
  BY <1>3, TurnsAreFew DEF TurnsInv, PhaseInv, TypeOK, Server, Turns
<1>8. TypeOK'
  BY <1>2, <1>4, <1>5, <1>7, PlainType, TurnsAreFew DEF Turns
<1>9. /\ s'.closed = s.closed /\ s'.muted = s.muted /\ s'.notify = s.notify
      /\ s'.speaking = s.speaking /\ s'.wall = s.wall /\ s'.usage = s.usage
      /\ s'.spoke = s.spoke
  BY <1>5 DEF PlainStep, SameBut, SessionFields
<1>10. /\ s'.content = s.content /\ s'.text = s.text /\ s'.voiced = s.voiced /\ s'.state = s.state
       /\ s'.idleDefer = s.idleDefer /\ s'.salvage /\ s'.playing = s.playing
       /\ s'.run = s.run /\ s'.turnUsage = s.turnUsage
  BY <1>4, <1>5, <1>8 DEF PlainStep, SalvageArmed, TypeOK, Session
<1>11. /\ server' = sv /\ used' = used /\ told' = told /\ spent' = spent
       /\ broken \subseteq broken'
  BY <1>4, <1>5 DEF PlainStep
<1>12. /\ iv'.turns = iv.turns /\ iv'.pendingUser = iv.pendingUser
       /\ iv'.pendingAgent = iv.pendingAgent /\ iv'.cut = iv.cut /\ iv'.goAway = iv.goAway
       /\ HeardIn(iv') = HeardIn(iv)
  BY <1>4, <1>5 DEF PlainStep, AlsoBut, InterviewFields, HeardIn
<1>13. Underway' = Underway
  BY <1>10 DEF Underway
<1>14. s.voiced /\ Underway /\ ~(s.playing > 0 /\ ~s.run)
  BY <1>3, <1>6 DEF TurnsInv, PhaseInv, VoiceInv
<1>15. SessionInv'
  BY <1>9, <1>10, <1>6 DEF TurnsInv, SessionInv
<1>16. PhaseInv'
  BY <1>2, <1>7, <1>10, <1>11, <1>13, <1>14, TurnsAreFew DEF TurnsInv, PhaseInv, Turns
<1>17. VoiceInv'
  BY <1>9, <1>10, <1>14 DEF TurnsInv, VoiceInv, FloorHeld
<1>18. BargeInv'
  BY <1>2, <1>3, <1>9, <1>11, <1>12, <1>13 DEF TurnsInv, BargeInv, NobodyCutOff
<1>19. SpeechInv'
  BY <1>2, <1>3, <1>6, <1>11 DEF TurnsInv, SpeechInv
<1>20. WordsInv'
  <2>1. Ordered(iv', broken')
    BY <1>11, <1>12 DEF TurnsInv, WordsInv, Ordered
  <2>2. Answerable' = server.turn /\ Answerable <= server.turn /\ server.turn \in Nat
    BY <1>2, <1>11 DEF Answerable, TypeOK, Server
  <2>3. \A a \in HeardIn(iv) : a \in Nat
    BY DEF HeardIn, TypeOK, Interview
  <2>4. Answerable \in Int
    BY <2>2 DEF Answerable
  <2>5. \A a \in HeardIn(iv) : a <= server.turn
    BY <2>2, <2>3, <2>4 DEF TurnsInv, WordsInv
  <2>. QED
    BY <1>2, <1>9, <1>10, <1>11, <1>12, <2>1, <2>2, <2>5 DEF TurnsInv, WordsInv
<1>21. ToldInv'
  <2>1. \A t \in Turns : Accounted(t) => Accounted(t)'
    BY <1>11 DEF Accounted
  <2>2. s'.muted => Accounted(server.turn)
    BY <1>7, <1>9, TurnsAreFew DEF TurnsInv, ToldInv, Turns
  <2>. QED
    BY <1>2, <1>7, <1>9, <1>11, <1>13, <2>1, <2>2, TurnsAreFew DEF TurnsInv, ToldInv, Turns
<1>22. UsageInv'
  BY <1>2, <1>9, <1>10, <1>11, <1>13 DEF TurnsInv, UsageInv, UsageBilled
<1>. QED
  BY <1>8, <1>15, <1>16, <1>17, <1>18, <1>19, <1>20, <1>21, <1>22 DEF TurnsInv

LEMMA HearsKeeps ==
  ASSUME TypeOK, TurnsInv, Faults = {}, Hears
  PROVE  TypeOK' /\ TurnsInv'
<1>1. PICK sv : sv = [server EXCEPT !.speech = 0, !.due = TRUE]
  OBVIOUS
<1>2. /\ sv \in Server /\ sv.turn = server.turn /\ sv.phase = server.phase
      /\ sv.speech = 0 /\ sv.barged = server.barged /\ sv.late = server.late
      /\ sv.voice = server.voice
  BY <1>1 DEF TypeOK, Server
<1>. DEFINE f == [Silent EXCEPT !.heard = server.speech]
<1>3. server.speech > 0 /\ server.speech \in Nat /\ ~server.barged /\ Receive(f, sv)
  BY <1>1 DEF Hears, TypeOK, Server
<1>4. /\ f \in Frame /\ ~f.turnComplete /\ ~f.interrupted /\ ~f.goAway /\ ~f.generated
      /\ f.heard = server.speech /\ f.usage = 0 /\ ~f.voice /\ ~f.words /\ ~f.think
  BY <1>3 DEF Silent, Frame
<1>. HIDE DEF f
<1>5. PlainStep(f, sv)
  BY <1>2, <1>3, <1>4, PlainFacts
<1>6. ~s.closed
  BY <1>5 DEF PlainStep
<1>7. server.speech <= server.turn /\ server.turn \in Turns
  BY <1>3, TurnsAreFew DEF TurnsInv, SpeechInv, TypeOK, Server, Turns
<1>8. TypeOK'
  BY <1>2, <1>4, <1>5, <1>7, PlainType, TurnsAreFew DEF Turns
<1>9. /\ s'.closed = s.closed /\ s'.muted = s.muted /\ s'.notify = s.notify
      /\ s'.speaking = s.speaking /\ s'.wall = s.wall /\ s'.usage = s.usage
      /\ s'.spoke = s.spoke
  BY <1>5 DEF PlainStep, SameBut, SessionFields
<1>10. /\ s'.content = s.content /\ s'.text = s.text /\ s'.voiced = s.voiced /\ s'.state = s.state
       /\ s'.idleDefer = s.idleDefer /\ s'.salvage = s.salvage /\ s'.playing = s.playing
       /\ s'.run = s.run /\ s'.turnUsage = s.turnUsage
  BY <1>4, <1>5, <1>8 DEF PlainStep, SalvageArmed, TypeOK, Session
<1>11. /\ server' = sv /\ used' = used /\ told' = told /\ spent' = spent
       /\ broken \subseteq broken'
  BY <1>4, <1>5 DEF PlainStep
<1>12. /\ iv'.turns = iv.turns
       /\ iv'.pendingUser = iv.pendingUser \/ iv'.pendingUser = iv.pendingUser \cup {server.speech}
       /\ iv'.pendingAgent = iv.pendingAgent /\ iv'.cut = iv.cut /\ iv'.goAway = iv.goAway
  BY <1>4, <1>5 DEF PlainStep, AlsoBut, InterviewFields
<1>13. Underway' = Underway
  BY <1>10 DEF Underway
<1>14. server.phase # "working" /\ (server.phase = "generated" => ~Underway)
  BY <1>3, <1>6 DEF TurnsInv, SpeechInv
<1>15. SessionInv'
  BY <1>9, <1>10 DEF TurnsInv, SessionInv
<1>16. PhaseInv'
  BY <1>2, <1>9, <1>10, <1>11, <1>13 DEF TurnsInv, PhaseInv
<1>17. VoiceInv'
  BY <1>2, <1>9, <1>10, <1>11, <1>13 DEF TurnsInv, VoiceInv, FloorHeld
<1>18. BargeInv'
  BY <1>2, <1>9, <1>11, <1>12, <1>13 DEF TurnsInv, BargeInv, NobodyCutOff
<1>19. SpeechInv'
  BY <1>2, <1>11 DEF SpeechInv, TypeOK, Server
<1>20. WordsInv'
  <2>1. Ordered(iv', broken')
    BY <1>11, <1>12 DEF TurnsInv, WordsInv, Ordered
  <2>2. Answerable = server.turn /\ Answerable' = server.turn
    BY <1>2, <1>11, <1>14 DEF Answerable
  <2>3. iv'.pendingAgent \ broken' = {}
    BY <1>11, <1>12, <1>14 DEF TurnsInv, WordsInv, Underway
  <2>4. \A a \in HeardIn(iv') : a \in HeardIn(iv) \/ a = server.speech
    BY <1>12 DEF HeardIn
  <2>5. \A a \in HeardIn(iv') : a <= server.turn
    BY <1>7, <2>2, <2>4 DEF TurnsInv, WordsInv
  <2>. QED
    BY <2>1, <2>2, <2>3, <2>5 DEF WordsInv
<1>21. ToldInv'
  <2>1. \A t \in Turns : Accounted(t) => Accounted(t)'
    BY <1>11 DEF Accounted
  <2>. QED
    BY <1>2, <1>7, <1>9, <1>11, <1>13, <2>1, TurnsAreFew DEF TurnsInv, ToldInv, Turns
<1>22. UsageInv'
  BY <1>2, <1>9, <1>10, <1>11, <1>13 DEF TurnsInv, UsageInv, UsageBilled
<1>. QED
  BY <1>8, <1>15, <1>16, <1>17, <1>18, <1>19, <1>20, <1>21, <1>22 DEF TurnsInv

\* The session ended, and the turn under way is cut unless it was told of.
LEMMA ClosedKeeps ==
  ASSUME TypeOK, TurnsInv, NEW flush \in BOOLEAN,
         s' \in Session, s'.closed, ~s'.notify, s'.playing = 0, ~s'.salvage, s'.turnUsage = 0,
         s'.usage = s.usage + s.turnUsage,
         s'.voiced => s'.content /\ s'.state = "speaking" /\ ~s'.idleDefer,
         Written(iv, iv', flush), ~iv'.cut,
         server' \in Server, server'.turn = server.turn, server'.speech = server.speech,
         ~server'.late, server.turn = 0 => server'.phase = "quiet",
         told' = told, spent' = spent, used' = used,
         broken \cup {t \in Turns : t = server.turn /\ told[t] = 0} \subseteq broken',
         broken' \subseteq Turns
  PROVE  TypeOK' /\ TurnsInv'
<1>1. TypeOK'
  BY DEF TypeOK, Written
<1>2. SessionInv' /\ PhaseInv' /\ VoiceInv' /\ BargeInv' /\ SpeechInv'
  BY <1>1 DEF SessionInv, PhaseInv, VoiceInv, FloorHeld, BargeInv, NobodyCutOff, SpeechInv, TurnsInv
<1>3. server.turn > 0 => server.turn \in Turns
  BY TurnsAreFew DEF TypeOK, Server, Turns
<1>4. server.turn > 0 => Accounted(server.turn)'
  <2>1. server.turn > 0 => told[server.turn] = 0 \/ told[server.turn] = 1
    <3>1. ASSUME server.turn > 0 PROVE told[server.turn] \in Nat /\ told[server.turn] <= 1
      BY <1>3, <3>1 DEF TypeOK, TurnsInv, ToldInv
    <3>. QED
      BY <3>1
  <2>. QED
    BY <1>3, <2>1 DEF Accounted
<1>5. WordsInv'
  <2>1. /\ HeardIn(iv') = HeardIn(iv) /\ iv'.pendingAgent \subseteq iv.pendingAgent
        /\ Ordered(iv', broken')
    BY WrittenKeeps DEF TurnsInv, WordsInv, TypeOK
  <2>2. iv'.pendingAgent \ broken' = {}
    <3>1. SUFFICES ASSUME NEW w \in iv.pendingAgent \ broken PROVE w \in broken'
      BY <2>1
    <3>2. w = server.turn /\ Underway /\ ~s.closed /\ server.phase # "quiet"
      BY DEF TurnsInv, WordsInv, Underway
    <3>3. server.turn > 0
      BY <3>2 DEF TurnsInv, PhaseInv, TypeOK, Server
    <3>4. told[server.turn] = 0
      BY <3>2, <3>3 DEF TurnsInv, ToldInv
    <3>. QED
      BY <1>3, <3>2, <3>3, <3>4
  <2>3. Answerable' = server.turn /\ Answerable \in Int /\ Answerable <= server.turn
    BY DEF Answerable, TypeOK, Server
  <2>4. \A a \in HeardIn(iv) : a \in Nat
    BY DEF HeardIn, TypeOK, Interview
  <2>5. \A a \in HeardIn(iv) : a <= server.turn
    BY <2>3, <2>4 DEF TurnsInv, WordsInv, TypeOK, Server
  <2>. QED
    BY <2>1, <2>2, <2>3, <2>5 DEF WordsInv
<1>6. ToldInv'
  <2>1. \A t \in Turns : Accounted(t) => Accounted(t)'
    BY DEF Accounted
  <2>. QED
    BY <1>4, <2>1 DEF TurnsInv, ToldInv
<1>7. UsageInv'
  <2>1. UsageBilled'
    BY DEF TurnsInv, UsageInv, UsageBilled, TypeOK, Session, Used
  <2>. QED
    BY <2>1 DEF TurnsInv, UsageInv
<1>. QED
  BY <1>1, <1>2, <1>5, <1>6, <1>7 DEF TurnsInv

\* A turn was closed: by the server's word or by a timer.
LEMMA TurnEndsKeeps ==
  ASSUME TypeOK, TurnsInv, ~s.closed, Underway, server.turn > 0,
         server.phase = "working" => server.voice > 0,
         NEW c \in Conv, c.turn = server.turn, c.iv = iv, c.told = told,
         SameBut(s, c.s, {"salvage", "awaiting"}),
         NEW m, TurnEnds(c, m), s' = m.s, iv' = m.iv, told' = m.told,
         server' \in Server, server'.turn = server.turn, server'.speech = server.speech,
         ~server'.late, server'.phase = "quiet" \/
           (server' = server /\ server.phase \in {"generated", "cut"}),
         server'.barged = server.barged,
         spent' = spent, used' = used,
         broken \subseteq broken', broken' \subseteq Turns
  PROVE  TypeOK' /\ TurnsInv'
<1>1. /\ c.s.muted = s.muted /\ c.s.closed = s.closed /\ c.s.usage = s.usage
      /\ c.s.turnUsage = s.turnUsage /\ c.s.notify = s.notify /\ c.s.speaking = s.speaking
      /\ c.s.wall = s.wall /\ c.s.run = s.run /\ c.s.playing = s.playing /\ c.s.state = s.state
  BY DEF SameBut, SessionFields
<1>2. /\ m \in Conv /\ m.turn = c.turn
      /\ s'.muted = s.muted /\ s'.notify = s.notify /\ s'.speaking = s.speaking /\ s'.wall = s.wall
      /\ s'.usage = s.usage + s.turnUsage /\ s'.turnUsage = 0
      /\ ~s'.content /\ s'.spoke = "no" /\ ~s'.run /\ ~s'.voiced /\ ~s'.text /\ ~s'.salvage
      /\ told' = (IF s.muted THEN told ELSE [told EXCEPT ![server.turn] = @ + 1])
      /\ Written(iv, iv', ~s.muted)
  BY <1>1 DEF TurnEnds, SameBut, SessionFields
<1>3. \/ /\ s'.closed = s.closed /\ s'.playing = s.playing
         /\ iv'.goAway = iv.goAway /\ iv'.cut = iv.cut
         /\ s'.state = IF HoldFloor(s) THEN s.state ELSE "idle"
      \/ /\ s'.closed /\ s'.playing = 0 /\ ~iv'.goAway /\ iv.goAway
         /\ iv'.cut => iv.cut \/ s.speaking
  <2>1. HoldFloor(c.s) = HoldFloor(s)
    BY <1>1 DEF HoldFloor
  <2>. QED
    BY <1>1, <2>1 DEF TurnEnds, Leaves
<1>4. server.turn \in Turns
  BY TurnsAreFew DEF TypeOK, Server, Turns
<1>5. TypeOK'
  BY <1>2, <1>4 DEF TypeOK, Conv
<1>6. ~Underway'
  BY <1>2 DEF Underway
<1>7. ~(iv.goAway /\ s.speaking)
  BY DEF TurnsInv, BargeInv
<1>8. SessionInv'
  BY <1>2, <1>3 DEF TurnsInv, SessionInv
<1>9. PhaseInv'
  BY <1>2, <1>6 DEF TurnsInv, PhaseInv
<1>10. VoiceInv'
  <2>1. FloorHeld'
    <3>1. SUFFICES ASSUME s'.state = "idle", s'.playing > 0 PROVE s.wall \in {"near", "passed"}
      BY <1>2 DEF FloorHeld
    <3>2. /\ s.playing > 0 /\ s'.state = IF HoldFloor(s) THEN s.state ELSE "idle"
      BY <1>3, <3>1
    <3>3. CASE HoldFloor(s)
      BY <3>1, <3>2, <3>3 DEF TurnsInv, VoiceInv, FloorHeld
    <3>4. CASE ~HoldFloor(s)
      BY <3>2, <3>4 DEF TurnsInv, VoiceInv, HoldFloor
    <3>. QED
      BY <3>3, <3>4
  <2>. QED
    BY <1>6, <2>1 DEF VoiceInv
<1>11. BargeInv'
  BY <1>2, <1>3, <1>6, <1>7 DEF TurnsInv, BargeInv, NobodyCutOff
<1>12. SpeechInv'
  BY <1>2, <1>3, <1>6 DEF TurnsInv, SpeechInv
<1>13. WordsInv'
  <2>1. /\ HeardIn(iv') = HeardIn(iv) /\ iv'.pendingAgent \subseteq iv.pendingAgent
        /\ Ordered(iv', broken')
    BY <1>2, WrittenKeeps DEF TurnsInv, WordsInv, TypeOK
  <2>2. iv'.pendingAgent \ broken' = {}
    <3>1. CASE s.muted
      BY <2>1, <3>1 DEF TurnsInv, WordsInv
    <3>2. CASE ~s.muted
      BY <1>2, <3>2 DEF Written
    <3>. QED
      BY <3>1, <3>2
  <2>3. Answerable' = server.turn /\ Answerable \in Int /\ Answerable <= server.turn
    BY DEF Answerable, TypeOK, Server
  <2>4. \A a \in HeardIn(iv) : a \in Nat
    BY DEF HeardIn, TypeOK, Interview
  <2>5. \A a \in HeardIn(iv) : a <= server.turn
    BY <2>3, <2>4 DEF TurnsInv, WordsInv, TypeOK, Server
  <2>. QED
    BY <2>1, <2>2, <2>3, <2>5 DEF WordsInv
<1>14. ToldInv'
  <2>1. told[server.turn] = 0
    BY DEF TurnsInv, ToldInv
  <2>2. \A t \in Turns : told'[t] = told[t] \/ (t = server.turn /\ told'[t] = 1)
    BY <1>2, <1>4, <2>1 DEF TypeOK
  <2>3. Accounted(server.turn)'
    <3>1. CASE s.muted
      BY <1>2, <1>4, <3>1 DEF TurnsInv, ToldInv, Accounted
    <3>2. CASE ~s.muted
      BY <1>2, <1>4, <2>1, <3>2 DEF Accounted, TypeOK
    <3>. QED
      BY <3>1, <3>2
  <2>4. \A t \in Turns : Accounted(t) => Accounted(t)'
    BY <2>2 DEF Accounted
  <2>5. \A t \in Turns : told'[t] <= 1 /\ (t > server.turn => told'[t] = 0)
    BY <1>4, <2>2, TurnsAreFew DEF TurnsInv, ToldInv, Turns
  <2>. QED
    BY <1>6, <2>3, <2>4, <2>5 DEF TurnsInv, ToldInv
<1>15. UsageInv'
  <2>1. UsageBilled'
    BY <1>2 DEF TurnsInv, UsageInv, UsageBilled, TypeOK, Session, Used
  <2>2. server'.phase # "working"
    OBVIOUS
  <2>. QED
    BY <1>2, <2>1, <2>2 DEF TurnsInv, UsageInv
<1>. QED
  BY <1>5, <1>8, <1>9, <1>10, <1>11, <1>12, <1>13, <1>14, <1>15 DEF TurnsInv

\* What a frame makes of the conversation, whatever the clock says.
LEMMA Received ==
  ASSUME TypeOK, TurnsInv, NEW f, NEW sv, Receive(f, sv), sv \in Server
  PROVE  \E q, c, m :
           /\ q \in Clock /\ c \in Conv
           /\ c = Conversation(sv.turn) /\ m = OnMessage(c, f, q)
           /\ c.s = s /\ c.iv = iv /\ c.told = told /\ c.turn = sv.turn /\ ~c.s.notify
           /\ s' = m.s /\ iv' = m.iv /\ told' = m.told
           /\ broken' = broken \cup Cut(m) \cup (IF s.muted THEN {sv.turn} ELSE {})
           /\ ~s.closed /\ server' = sv /\ used' = used
           /\ spent' = IF f.usage > 0 THEN [spent EXCEPT ![sv.turn] = Max({@, f.usage})] ELSE spent
<1>1. PICK q \in Clock : LET m == OnMessage(Conversation(sv.turn), f, q) IN
         /\ Becomes(m)
         /\ broken' = broken \cup Cut(m) \cup (IF s.muted THEN {sv.turn} ELSE {})
  BY DEF Receive
<1>2. /\ ~s.closed /\ server' = sv /\ used' = used
      /\ spent' = IF f.usage > 0 THEN [spent EXCEPT ![sv.turn] = Max({@, f.usage})] ELSE spent
  BY DEF Receive
<1>3. PICK c : c = Conversation(sv.turn)
  OBVIOUS
<1>4. PICK m : m = OnMessage(c, f, q)
  OBVIOUS
<1>5. /\ Becomes(m)
      /\ broken' = broken \cup Cut(m) \cup (IF s.muted THEN {sv.turn} ELSE {})
  BY <1>1, <1>3, <1>4
<1>6. c \in Conv /\ c.s = s /\ c.iv = iv /\ c.told = told /\ c.turn = sv.turn
  <2>1. sv.turn \in Nat
    BY DEF Server
  <2>. QED
    BY <1>3, <2>1, ConversationType
<1>7. ~c.s.notify
  BY <1>6 DEF TurnsInv, SessionInv
<1>. QED
  BY <1>2, <1>3, <1>4, <1>5, <1>6, <1>7 DEF Becomes

\* The turn a session that ended leaves cut is the one that is not told of.
LEMMA CutIs ==
  ASSUME NEW m \in Conv
  PROVE  /\ Cut(m) \subseteq Turns
         /\ m.s.closed => Cut(m) = {t \in Turns : t = m.turn /\ m.told[t] = 0}
BY DEF Cut

LEMMA CompletesKeeps ==
  ASSUME TypeOK, TurnsInv, Faults = {}, Completes
  PROVE  TypeOK' /\ TurnsInv'
<1>. DEFINE f == [Silent EXCEPT !.turnComplete = TRUE]
<1>1. PICK sv \in Completed : Receive(f, sv)
  BY DEF Completes
<1>2. /\ sv = [server EXCEPT !.phase = "quiet"]
      /\ server.phase \in {"generated", "cut"} \/ (server.phase = "working" /\ Spoken)
  BY <1>1 DEF Completed, TurnsInv, PhaseInv
<1>3. /\ sv \in Server /\ sv.turn = server.turn /\ sv.phase = "quiet"
      /\ sv.speech = server.speech /\ sv.barged = server.barged /\ sv.late = server.late
  BY <1>2 DEF TypeOK, Server
<1>4. server.phase = "working" => server.voice > 0
  BY <1>2 DEF Spoken
<1>5. server.turn > 0 /\ server.turn \in Turns
  BY <1>2, TurnsAreFew DEF TurnsInv, PhaseInv, TypeOK, Server, Turns
<1>6. f.usage = 0
  BY DEF Silent
<1>7. PICK q, c, m :
           /\ q \in Clock /\ c \in Conv
           /\ c = Conversation(sv.turn) /\ m = OnMessage(c, f, q)
           /\ c.s = s /\ c.iv = iv /\ c.told = told /\ c.turn = sv.turn /\ ~c.s.notify
           /\ s' = m.s /\ iv' = m.iv /\ told' = m.told
           /\ broken' = broken \cup Cut(m) \cup (IF s.muted THEN {sv.turn} ELSE {})
           /\ ~s.closed /\ server' = sv /\ used' = used
           /\ spent' = IF f.usage > 0 THEN [spent EXCEPT ![sv.turn] = Max({@, f.usage})] ELSE spent
  BY <1>1, <1>3, Received
<1>8. spent' = spent
  BY <1>6, <1>7
<1>9. IF Closable(c.s) THEN TurnEnds(c, m) ELSE Passes(c, m)
  BY <1>7, CompleteEffect
<1>. HIDE DEF f
<1>10. CASE Closable(s)
  <2>1. TurnEnds(c, m)
    BY <1>7, <1>9, <1>10
  <2>2. Underway
    BY <1>10 DEF Closable, Underway
  <2>3. m \in Conv
    BY <2>1 DEF TurnEnds
  <2>4. broken \subseteq broken' /\ broken' \subseteq Turns
    BY <1>3, <1>5, <1>7, <2>3, CutIs DEF TypeOK
  <2>5. SameBut(s, c.s, {"salvage", "awaiting"})
    BY <1>7 DEF SameBut
  <2>6. server' \in Server /\ server'.turn = server.turn /\ server'.speech = server.speech
        /\ ~server'.late /\ server'.phase = "quiet" /\ server'.barged = server.barged
        /\ used' = used /\ ~s.closed /\ c.turn = server.turn
    BY <1>3, <1>7 DEF TurnsInv, PhaseInv
  <2>. QED
    BY <1>4, <1>5, <1>7, <1>8, <2>1, <2>2, <2>4, <2>5, <2>6, TurnEndsKeeps
<1>11. CASE ~Closable(s)
  <2>1. Passes(c, m)
    BY <1>7, <1>9, <1>11
  <2>2. ~Underway
    BY <1>11 DEF Closable, Underway, TurnsInv, SessionInv
  <2>3. /\ m \in Conv /\ told' = told /\ AlsoBut(iv, iv', {}) /\ ~s'.salvage
        /\ SameBut(s, s', {"awaiting", "salvage"})
    BY <1>7, <2>1 DEF Passes
  <2>4. /\ s'.closed = s.closed /\ s'.muted = s.muted /\ s'.notify = s.notify
        /\ s'.speaking = s.speaking /\ s'.wall = s.wall /\ s'.usage = s.usage
        /\ s'.spoke = s.spoke /\ s'.content = s.content /\ s'.text = s.text
        /\ s'.voiced = s.voiced /\ s'.state = s.state /\ s'.idleDefer = s.idleDefer
        /\ s'.playing = s.playing /\ s'.run = s.run /\ s'.turnUsage = s.turnUsage
    BY <2>3 DEF SameBut, SessionFields
  <2>5. /\ iv'.turns = iv.turns /\ iv'.pendingUser = iv.pendingUser
        /\ iv'.pendingAgent = iv.pendingAgent /\ iv'.cut = iv.cut /\ iv'.goAway = iv.goAway
        /\ HeardIn(iv') = HeardIn(iv)
    BY <2>3 DEF AlsoBut, InterviewFields, HeardIn
  <2>6. Underway' = Underway
    BY <2>4 DEF Underway
  <2>7. broken \subseteq broken' /\ broken' \subseteq Turns
    BY <1>3, <1>5, <1>7, <2>3, CutIs DEF TypeOK
  <2>8. TypeOK'
    BY <1>3, <1>7, <1>8, <2>3, <2>7 DEF TypeOK, Conv
  <2>9. server' = sv /\ used' = used /\ ~s.closed
    BY <1>7
  <2>10. SessionInv' /\ VoiceInv' /\ SpeechInv'
    BY <1>3, <2>2, <2>3, <2>4, <2>6, <2>9
       DEF TurnsInv, SessionInv, VoiceInv, FloorHeld, SpeechInv
  <2>11. PhaseInv'
    BY <1>3, <2>2, <2>3, <2>4, <2>6, <2>9 DEF TurnsInv, PhaseInv
  <2>12. BargeInv'
    BY <1>3, <2>2, <2>4, <2>5, <2>6, <2>9 DEF TurnsInv, BargeInv, NobodyCutOff
  <2>13. WordsInv'
    <3>1. Ordered(iv', broken')
      BY <2>5, <2>7 DEF TurnsInv, WordsInv, Ordered
    <3>2. iv'.pendingAgent \ broken' = {}
      BY <2>2, <2>5, <2>7 DEF TurnsInv, WordsInv, Underway
    <3>3. Answerable' = server.turn /\ Answerable \in Int /\ Answerable <= server.turn
      BY <1>3, <2>9 DEF Answerable, TypeOK, Server
    <3>4. \A a \in HeardIn(iv) : a \in Nat
      BY DEF HeardIn, TypeOK, Interview
    <3>5. \A a \in HeardIn(iv) : a <= server.turn
      BY <3>3, <3>4 DEF TurnsInv, WordsInv, TypeOK, Server
    <3>. QED
      BY <2>5, <3>1, <3>2, <3>3, <3>5 DEF WordsInv
  <2>14. ToldInv'
    <3>1. \A t \in Turns : Accounted(t) => Accounted(t)'
      BY <2>3, <2>7 DEF Accounted
    <3>. QED
      BY <1>3, <1>5, <2>3, <2>4, <2>6, <2>9, <3>1 DEF TurnsInv, ToldInv
  <2>15. UsageInv'
    BY <1>3, <1>8, <2>4, <2>6, <2>9 DEF TurnsInv, UsageInv, UsageBilled
  <2>. QED
    BY <2>8, <2>10, <2>11, <2>12, <2>13, <2>14, <2>15 DEF TurnsInv
<1>. QED
  BY <1>10, <1>11

LEMMA InterruptsKeeps ==
  ASSUME TypeOK, TurnsInv, Faults = {}, Interrupts
  PROVE  TypeOK' /\ TurnsInv'
<1>. DEFINE f == [Silent EXCEPT !.interrupted = TRUE]
<1>1. PICK sv : sv = [server EXCEPT !.phase = "cut", !.barged = FALSE]
  OBVIOUS
<1>2. server.barged /\ server.phase \in {"working", "generated"} /\ Receive(f, sv)
  BY <1>1 DEF Interrupts
<1>3. /\ sv \in Server /\ sv.turn = server.turn /\ sv.phase = "cut"
      /\ sv.speech = server.speech /\ ~sv.barged /\ sv.late = server.late
  BY <1>1 DEF TypeOK, Server
<1>4. server.turn > 0 /\ server.turn \in Turns
  BY <1>2, TurnsAreFew DEF TurnsInv, PhaseInv, TypeOK, Server, Turns
<1>5. f.usage = 0
  BY DEF Silent
<1>6. PICK q, c, m :
           /\ q \in Clock /\ c \in Conv
           /\ c = Conversation(sv.turn) /\ m = OnMessage(c, f, q)
           /\ c.s = s /\ c.iv = iv /\ c.told = told /\ c.turn = sv.turn /\ ~c.s.notify
           /\ s' = m.s /\ iv' = m.iv /\ told' = m.told
           /\ broken' = broken \cup Cut(m) \cup (IF s.muted THEN {sv.turn} ELSE {})
           /\ ~s.closed /\ server' = sv /\ used' = used
           /\ spent' = IF f.usage > 0 THEN [spent EXCEPT ![sv.turn] = Max({@, f.usage})] ELSE spent
  BY <1>2, <1>3, Received
<1>7. TalksOver(c, m)
  BY <1>6, InterruptEffect
<1>8. spent' = spent /\ server' = sv /\ used' = used /\ ~s.closed
  BY <1>5, <1>6
<1>. HIDE DEF f
<1>9. /\ m \in Conv /\ m.turn = server.turn /\ told' = told
      /\ SameBut(s, s', {"closed", "playing", "run", "voiced", "state", "idleDefer", "usage",
                         "turnUsage", "salvage", "awaiting"})
      /\ s'.playing = 0 /\ ~s'.run /\ ~s'.voiced
      /\ s'.usage + s'.turnUsage = s.usage + s.turnUsage
      /\ Written(iv, iv', TRUE)
  BY <1>3, <1>6, <1>7 DEF TalksOver
<1>10. \/ /\ s'.closed = s.closed /\ s'.salvage = s.salvage /\ s'.turnUsage = s.turnUsage
          /\ s'.state = "idle" /\ iv'.goAway = iv.goAway /\ iv'.cut = iv.cut
       \/ /\ s'.closed /\ ~s'.salvage /\ iv.goAway /\ s'.turnUsage = 0
          /\ iv'.cut => iv.cut \/ s.speaking
  BY <1>6, <1>7 DEF TalksOver, Leaves
<1>11. /\ s'.muted = s.muted /\ s'.notify = s.notify /\ s'.speaking = s.speaking
       /\ s'.wall = s.wall /\ s'.spoke = s.spoke /\ s'.content = s.content /\ s'.text = s.text
  BY <1>9 DEF SameBut, SessionFields
<1>12. broken \cup Cut(m) \subseteq broken' /\ broken' \subseteq Turns
  BY <1>3, <1>4, <1>6, <1>9, CutIs DEF TypeOK
<1>13. s' \in Session /\ ~s'.notify
  BY <1>6, <1>9, <1>11 DEF Conv, TurnsInv, SessionInv
<1>14. ~(iv.goAway /\ s.speaking)
  BY <1>2, <1>8 DEF TurnsInv, BargeInv
<1>15. CASE s'.closed
  <2>1. ~s'.salvage /\ s'.turnUsage = 0 /\ ~iv'.cut
    BY <1>8, <1>10, <1>14, <1>15 DEF TurnsInv, BargeInv, NobodyCutOff
  <2>2. s'.usage = s.usage + s.turnUsage
    BY <1>9, <1>13, <2>1 DEF Session, TypeOK
  <2>3. Cut(m) = {t \in Turns : t = server.turn /\ told[t] = 0}
    <3>1. m \in Conv /\ m.s.closed /\ m.told = told /\ m.turn = server.turn
      BY <1>6, <1>9, <1>15
    <3>2. Cut(m) = {t \in Turns : t = m.turn /\ m.told[t] = 0}
      BY <3>1, CutIs
    <3>. QED
      BY <3>1, <3>2
  <2>4. server' \in Server /\ server'.turn = server.turn /\ server'.speech = server.speech
        /\ ~server'.late
    BY <1>3, <1>8 DEF TurnsInv, PhaseInv
  <2>5. TRUE \in BOOLEAN /\ (s'.voiced => s'.content /\ s'.state = "speaking" /\ ~s'.idleDefer)
    BY <1>9
  <2>6. server.turn = 0 => server'.phase = "quiet"
    BY <1>4
  <2>. QED
    BY <1>8, <1>9, <1>12, <1>13, <1>15, <2>1, <2>2, <2>3, <2>4, <2>5, <2>6, ClosedKeeps
<1>16. CASE ~s'.closed
  <2>1. /\ s'.salvage = s.salvage /\ s'.turnUsage = s.turnUsage /\ s'.usage = s.usage
        /\ s'.state = "idle" /\ iv'.goAway = iv.goAway /\ iv'.cut = iv.cut
    BY <1>9, <1>10, <1>13, <1>16 DEF Session, TypeOK
  <2>2. TypeOK'
    BY <1>3, <1>8, <1>9, <1>12, <1>13 DEF TypeOK, Written
  <2>3. Underway' = Underway
    BY <1>11 DEF Underway
  <2>4. SessionInv' /\ VoiceInv'
    BY <1>9, <1>11, <1>13, <1>16 DEF SessionInv, VoiceInv, FloorHeld, TypeOK, Session
  <2>5. PhaseInv'
    BY <1>3, <1>4, <1>8 DEF TurnsInv, PhaseInv
  <2>6. BargeInv'
    BY <1>3, <1>8, <1>11, <1>14, <1>16, <2>1 DEF TurnsInv, BargeInv, NobodyCutOff
  <2>7. SpeechInv'
    BY <1>3, <1>8 DEF TurnsInv, SpeechInv
  <2>8. WordsInv'
    <3>1. /\ HeardIn(iv') = HeardIn(iv) /\ Ordered(iv', broken')
      BY <1>9, <1>12, WrittenKeeps DEF TurnsInv, WordsInv, TypeOK
    <3>2. iv'.pendingAgent = {}
      BY <1>9 DEF Written
    <3>3. Answerable' = server.turn /\ Answerable \in Int /\ Answerable <= server.turn
      BY <1>3, <1>8 DEF Answerable, TypeOK, Server
    <3>4. \A a \in HeardIn(iv) : a \in Nat
      BY DEF HeardIn, TypeOK, Interview
    <3>5. \A a \in HeardIn(iv) : a <= server.turn
      BY <3>3, <3>4 DEF TurnsInv, WordsInv, TypeOK, Server
    <3>. QED
      BY <3>1, <3>2, <3>3, <3>5 DEF WordsInv
  <2>9. ToldInv'
    <3>1. \A t \in Turns : Accounted(t) => Accounted(t)'
      BY <1>9, <1>12 DEF Accounted
    <3>. QED
      BY <1>3, <1>4, <1>8, <1>9, <1>11, <1>16, <2>3, <3>1 DEF TurnsInv, ToldInv
  <2>10. UsageInv'
    BY <1>3, <1>8, <1>16, <2>1, <2>3 DEF TurnsInv, UsageInv, UsageBilled
  <2>. QED
    BY <2>2, <2>4, <2>5, <2>6, <2>7, <2>8, <2>9, <2>10 DEF TurnsInv
<1>. QED
  BY <1>15, <1>16

\* Words that stay as they were, heard and said.
LEMMA WordsStay ==
  ASSUME TypeOK, TurnsInv, iv'.turns = iv.turns, iv'.pendingUser = iv.pendingUser,
         iv'.pendingAgent = iv.pendingAgent, broken \subseteq broken', server' = server,
         s'.closed = s.closed, s'.text = s.text, s'.muted => s.muted
  PROVE  WordsInv'
<1>1. HeardIn(iv') = HeardIn(iv)
  BY DEF HeardIn
<1>2. Ordered(iv', broken')
  BY DEF TurnsInv, WordsInv, Ordered
<1>3. Answerable' = Answerable
  BY DEF Answerable
<1>. QED
  BY <1>1, <1>2, <1>3 DEF TurnsInv, WordsInv

LEMMA GoesAwayKeeps ==
  ASSUME TypeOK, TurnsInv, Faults = {}, GoesAway
  PROVE  TypeOK' /\ TurnsInv'
<1>. DEFINE f == [Silent EXCEPT !.goAway = TRUE]
<1>1. /\ s.wall = "none" /\ server.turn > 0 /\ ~s.muted /\ ~TalkedOver /\ server.phase # "cut"
      /\ Receive(f, server)
  BY DEF GoesAway
<1>2. server \in Server /\ server.turn \in Turns
  BY <1>1, TurnsAreFew DEF TypeOK, Server, Turns
<1>3. f.usage = 0
  BY DEF Silent
<1>4. PICK q, c, m :
           /\ q \in Clock /\ c \in Conv
           /\ c = Conversation(server.turn) /\ m = OnMessage(c, f, q)
           /\ c.s = s /\ c.iv = iv /\ c.told = told /\ c.turn = server.turn /\ ~c.s.notify
           /\ s' = m.s /\ iv' = m.iv /\ told' = m.told
           /\ broken' = broken \cup Cut(m) \cup (IF s.muted THEN {server.turn} ELSE {})
           /\ ~s.closed /\ server' = server /\ used' = used
           /\ spent' = IF f.usage > 0 THEN [spent EXCEPT ![server.turn] = Max({@, f.usage})]
                       ELSE spent
  BY <1>1, <1>2, Received
<1>5. GoesAwayFrom(c, m)
  BY <1>4, GoAwayEffect
<1>6. spent' = spent /\ server' = server /\ used' = used /\ ~s.closed
  BY <1>3, <1>4
<1>. HIDE DEF f
<1>7. /\ m \in Conv /\ m.turn = server.turn /\ told' = told
      /\ AlsoBut(iv, iv', {"goAway", "poll", "cut"})
      /\ SameBut(s, s', {"closed", "playing", "run", "idleDefer", "usage", "turnUsage", "salvage",
                         "awaiting", "wall"})
      /\ s'.wall = "far" /\ s'.usage + s'.turnUsage = s.usage + s.turnUsage
  BY <1>4, <1>5 DEF GoesAwayFrom
<1>8. \/ SameBut(s, s', {"awaiting", "wall"}) /\ iv'.goAway /\ iv'.cut = iv.cut
      \/ /\ s'.closed /\ s'.playing = 0 /\ ~s'.idleDefer /\ ~s'.salvage /\ s'.turnUsage = 0
         /\ iv'.cut => iv.cut \/ (s.speaking /\ s.spoke = "no")
  BY <1>4, <1>5 DEF GoesAwayFrom
<1>9. s' \in Session /\ iv' \in Interview /\ broken \cup Cut(m) \subseteq broken'
      /\ broken' \subseteq Turns
  BY <1>2, <1>4, <1>7, CutIs DEF Conv, TypeOK
<1>10. /\ s'.muted = s.muted /\ s'.notify = s.notify /\ s'.speaking = s.speaking
       /\ s'.spoke = s.spoke /\ s'.content = s.content /\ s'.text = s.text
       /\ s'.voiced = s.voiced /\ s'.state = s.state
       /\ iv'.turns = iv.turns /\ iv'.pendingUser = iv.pendingUser
       /\ iv'.pendingAgent = iv.pendingAgent
  BY <1>7 DEF SameBut, SessionFields, AlsoBut, InterviewFields
<1>11. ~s'.notify
  BY <1>10 DEF TurnsInv, SessionInv
<1>12. CASE s'.closed
  <2>1. ~s'.idleDefer /\ s'.playing = 0 /\ ~s'.salvage /\ s'.turnUsage = 0 /\ ~iv'.cut
    BY <1>1, <1>6, <1>8, <1>12 DEF TurnsInv, BargeInv, NobodyCutOff, SameBut, SessionFields,
                                  TalkedOver
  <2>2. s'.usage = s.usage + s.turnUsage
    BY <1>7, <1>9, <2>1 DEF Session, TypeOK
  <2>3. Cut(m) = {t \in Turns : t = server.turn /\ told[t] = 0}
    <3>1. m \in Conv /\ m.s.closed /\ m.told = told /\ m.turn = server.turn
      BY <1>4, <1>7, <1>12
    <3>2. Cut(m) = {t \in Turns : t = m.turn /\ m.told[t] = 0}
      BY <3>1, CutIs
    <3>. QED
      BY <3>1, <3>2
  <2>4. ~server'.late /\ (server.turn = 0 => server'.phase = "quiet")
    BY <1>1, <1>6 DEF TurnsInv, PhaseInv
  <2>5. FALSE \in BOOLEAN /\ Written(iv, iv', FALSE)
    BY <1>9, <1>10 DEF Written
  <2>6. s'.voiced => s'.content /\ s'.state = "speaking" /\ ~s'.idleDefer
    BY <1>10, <2>1 DEF TurnsInv, SessionInv
  <2>. QED
    BY <1>2, <1>6, <1>7, <1>9, <1>11, <1>12, <2>1, <2>2, <2>3, <2>4, <2>5, <2>6, ClosedKeeps
<1>13. CASE ~s'.closed
  <2>1. SameBut(s, s', {"awaiting", "wall"}) /\ iv'.goAway /\ iv'.cut = iv.cut
    BY <1>8, <1>13
  <2>2. /\ s'.closed = s.closed /\ s'.playing = s.playing /\ s'.run = s.run
        /\ s'.idleDefer = s.idleDefer /\ s'.usage = s.usage /\ s'.turnUsage = s.turnUsage
        /\ s'.salvage = s.salvage
    BY <2>1 DEF SameBut, SessionFields
  <2>3. TypeOK'
    BY <1>6, <1>7, <1>9 DEF TypeOK
  <2>4. Underway' = Underway
    BY <1>10 DEF Underway
  <2>5. SessionInv' /\ PhaseInv' /\ SpeechInv'
    BY <1>6, <1>10, <2>2, <2>4 DEF TurnsInv, SessionInv, PhaseInv, SpeechInv
  <2>6. VoiceInv'
    BY <1>1, <1>6, <1>10, <2>2, <2>4 DEF TurnsInv, VoiceInv, FloorHeld
  <2>7. BargeInv'
    <3>1. s.speaking => /\ s.spoke = "yes" /\ ~server.barged
                        /\ server.phase \in {"quiet", "generated"} /\ ~Underway
      BY <1>1, <1>6 DEF TurnsInv, BargeInv, PhaseInv, TalkedOver, TypeOK, Server, Session
    <3>. QED
      BY <1>6, <1>10, <2>1, <2>2, <2>4, <3>1 DEF TurnsInv, BargeInv, NobodyCutOff
  <2>8. WordsInv'
    BY <1>6, <1>9, <1>10, <2>2, WordsStay
  <2>9. ToldInv'
    <3>1. \A t \in Turns : Accounted(t) => Accounted(t)'
      BY <1>7, <1>9 DEF Accounted
    <3>. QED
      BY <1>2, <1>6, <1>7, <1>10, <2>2, <2>4, <3>1 DEF TurnsInv, ToldInv
  <2>10. UsageInv'
    BY <1>6, <2>2, <2>4 DEF TurnsInv, UsageInv, UsageBilled
  <2>. QED
    BY <2>3, <2>5, <2>6, <2>7, <2>8, <2>9, <2>10 DEF TurnsInv
<1>. QED
  BY <1>12, <1>13

LEMMA SpeaksKeeps ==
  ASSUME TypeOK, TurnsInv, Faults = {}, Speaks
  PROVE  TypeOK' /\ TurnsInv'
<1>0. PICK n \in Nat : n = server.turn
  BY DEF TypeOK, Server
<1>1. /\ ~s.closed /\ ~s.muted /\ server.turn > 0
      /\ (s.state = "idle" /\ server.phase \in {"quiet", "generated"}) \/ ~iv.goAway
      /\ s' = [s EXCEPT !.speaking = TRUE, !.spoke = "yes"]
      /\ UNCHANGED <<iv, told, spent, broken>>
  BY DEF Speaks
<1>2. PICK b \in BOOLEAN : b = (server.phase = "working"
                              \/ (server.phase = "generated" /\ s.state # "idle"))
  OBVIOUS
<1>3. server' = [server EXCEPT !.speech = n, !.barged = b]
  BY <1>0, <1>2 DEF Speaks
<1>4. /\ server' \in Server /\ server'.turn = server.turn /\ server'.phase = server.phase
      /\ server'.voice = server.voice /\ server'.late = server.late
      /\ server'.speech = server.turn /\ server'.barged = b
  BY <1>0, <1>3 DEF TypeOK, Server
<1>5. /\ s' \in Session /\ SameBut(s, s', {"speaking", "spoke"}) /\ s'.speaking
      /\ s'.spoke = "yes"
  BY <1>1 DEF TypeOK, Session, SameBut, SessionFields
<1>6. used' \in Used /\ used'.tokens = used.tokens
  BY DEF Speaks, TypeOK, Used
<1>7. TypeOK'
  BY <1>1, <1>4, <1>5, <1>6 DEF TypeOK
<1>8. /\ s'.closed = s.closed /\ s'.muted = s.muted /\ s'.notify = s.notify /\ s'.wall = s.wall
      /\ s'.usage = s.usage /\ s'.turnUsage = s.turnUsage /\ s'.content = s.content
      /\ s'.text = s.text /\ s'.voiced = s.voiced /\ s'.state = s.state
      /\ s'.idleDefer = s.idleDefer /\ s'.playing = s.playing /\ s'.run = s.run
      /\ s'.salvage = s.salvage
  BY <1>5 DEF SameBut, SessionFields
<1>9. Underway' = Underway /\ Answerable' = Answerable
  BY <1>4, <1>8 DEF Underway, Answerable
<1>10. SessionInv' /\ PhaseInv' /\ VoiceInv'
  BY <1>4, <1>8, <1>9 DEF TurnsInv, SessionInv, PhaseInv, VoiceInv, FloorHeld
<1>11. s.state = "idle" /\ server.phase = "generated" => ~Underway
  BY <1>1 DEF TurnsInv, SessionInv, PhaseInv
<1>12. BargeInv'
  <2>1. server.phase = "quiet" => ~Underway
    BY <1>1 DEF TurnsInv, PhaseInv
  <2>2. iv.goAway => ~b /\ server.phase \in {"quiet", "generated"}
    BY <1>1, <1>2
  <2>3. server.phase = "generated" /\ ~b => ~Underway
    BY <1>2, <1>11
  <2>. QED
    BY <1>1, <1>2, <1>4, <1>5, <1>9, <1>11, <2>1, <2>2, <2>3 DEF TurnsInv, BargeInv, NobodyCutOff
<1>13. SpeechInv'
  BY <1>2, <1>4, <1>9, <1>11 DEF SpeechInv, TypeOK, Server
<1>14. WordsInv'
  BY <1>1, <1>4, <1>8, <1>9 DEF TurnsInv, WordsInv
<1>15. ToldInv'
  BY <1>1, <1>4, <1>8, <1>9 DEF TurnsInv, ToldInv, Accounted
<1>16. UsageInv'
  BY <1>1, <1>4, <1>6, <1>8, <1>9 DEF TurnsInv, UsageInv, UsageBilled
<1>. QED
  BY <1>7, <1>10, <1>12, <1>13, <1>14, <1>15, <1>16 DEF TurnsInv

LEMMA FallsSilentKeeps ==
  ASSUME TypeOK, TurnsInv, FallsSilent
  PROVE  TypeOK' /\ TurnsInv'
<1>1. s' = [s EXCEPT !.speaking = FALSE] /\ UNCHANGED <<iv, server, used, told, spent, broken>>
  BY DEF FallsSilent
<1>2. s' \in Session /\ SameBut(s, s', {"speaking"}) /\ ~s'.speaking
  BY <1>1 DEF TypeOK, Session, SameBut, SessionFields
<1>3. TypeOK'
  BY <1>1, <1>2 DEF TypeOK
<1>4. /\ s'.closed = s.closed /\ s'.muted = s.muted /\ s'.notify = s.notify /\ s'.wall = s.wall
      /\ s'.usage = s.usage /\ s'.turnUsage = s.turnUsage /\ s'.content = s.content
      /\ s'.text = s.text /\ s'.voiced = s.voiced /\ s'.state = s.state
      /\ s'.idleDefer = s.idleDefer /\ s'.playing = s.playing /\ s'.run = s.run
      /\ s'.salvage = s.salvage
  BY <1>2 DEF SameBut, SessionFields
<1>5. Underway' = Underway /\ Answerable' = Answerable
  BY <1>1, <1>4 DEF Underway, Answerable
<1>6. SessionInv' /\ PhaseInv' /\ VoiceInv' /\ SpeechInv'
  BY <1>1, <1>4, <1>5 DEF TurnsInv, SessionInv, PhaseInv, VoiceInv, FloorHeld, SpeechInv
<1>7. BargeInv'
  BY <1>1, <1>2 DEF TurnsInv, BargeInv, NobodyCutOff
<1>8. WordsInv'
  BY <1>1, <1>4, <1>5 DEF TurnsInv, WordsInv
<1>9. ToldInv' /\ UsageInv'
  BY <1>1, <1>4, <1>5 DEF TurnsInv, ToldInv, Accounted, UsageInv, UsageBilled
<1>. QED
  BY <1>3, <1>6, <1>7, <1>8, <1>9 DEF TurnsInv

LEMMA ResumesKeeps ==
  ASSUME TypeOK, TurnsInv, Resumes
  PROVE  TypeOK' /\ TurnsInv'
<1>1. /\ ~s.closed /\ s.muted /\ s' = [s EXCEPT !.muted = FALSE, !.awaiting = FALSE]
      /\ UNCHANGED <<iv, server, used, told, spent, broken>>
  BY DEF Resumes
<1>2. s' \in Session /\ SameBut(s, s', {"muted", "awaiting"}) /\ ~s'.muted
  BY <1>1 DEF TypeOK, Session, SameBut, SessionFields
<1>3. TypeOK'
  BY <1>1, <1>2 DEF TypeOK
<1>4. /\ s'.closed = s.closed /\ s'.speaking = s.speaking /\ s'.notify = s.notify
      /\ s'.wall = s.wall /\ s'.spoke = s.spoke
      /\ s'.usage = s.usage /\ s'.turnUsage = s.turnUsage /\ s'.content = s.content
      /\ s'.text = s.text /\ s'.voiced = s.voiced /\ s'.state = s.state
      /\ s'.idleDefer = s.idleDefer /\ s'.playing = s.playing /\ s'.run = s.run
      /\ s'.salvage = s.salvage
  BY <1>2 DEF SameBut, SessionFields
<1>5. Underway' = Underway /\ Answerable' = Answerable
  BY <1>1, <1>4 DEF Underway, Answerable
<1>6. SessionInv' /\ PhaseInv' /\ VoiceInv' /\ SpeechInv'
  BY <1>1, <1>2, <1>4, <1>5 DEF TurnsInv, SessionInv, PhaseInv, VoiceInv, FloorHeld, SpeechInv
<1>7. BargeInv'
  BY <1>1, <1>4, <1>5 DEF TurnsInv, BargeInv, NobodyCutOff
<1>8. WordsInv'
  BY <1>1, <1>5 DEF TurnsInv, WordsInv
<1>9. ToldInv' /\ UsageInv'
  BY <1>1, <1>2, <1>4, <1>5 DEF TurnsInv, ToldInv, Accounted, UsageInv, UsageBilled
<1>. QED
  BY <1>3, <1>6, <1>7, <1>8, <1>9 DEF TurnsInv

LEMMA PlaysKeeps ==
  ASSUME TypeOK, TurnsInv, Plays
  PROVE  TypeOK' /\ TurnsInv'
<1>1. PICK n : n = s.playing - 1
  OBVIOUS
<1>2. /\ s.playing > 0 /\ s' = [s EXCEPT !.playing = n]
      /\ UNCHANGED <<iv, server, used, told, spent, broken>>
  BY <1>1 DEF Plays
<1>3. n \in Nat
  BY <1>1, <1>2 DEF TypeOK, Session
<1>4. s' \in Session /\ SameBut(s, s', {"playing"})
  BY <1>2, <1>3 DEF TypeOK, Session, SameBut, SessionFields
<1>5. TypeOK'
  BY <1>2, <1>4 DEF TypeOK
<1>6. /\ s'.closed = s.closed /\ s'.speaking = s.speaking /\ s'.notify = s.notify
      /\ s'.wall = s.wall /\ s'.spoke = s.spoke /\ s'.muted = s.muted
      /\ s'.usage = s.usage /\ s'.turnUsage = s.turnUsage /\ s'.content = s.content
      /\ s'.text = s.text /\ s'.voiced = s.voiced /\ s'.state = s.state
      /\ s'.idleDefer = s.idleDefer /\ s'.run = s.run /\ s'.salvage = s.salvage
  BY <1>4 DEF SameBut, SessionFields
<1>7. Underway' = Underway /\ Answerable' = Answerable
  BY <1>2, <1>6 DEF Underway, Answerable
<1>8. s'.playing > 0 => s.playing > 0
  BY <1>2
<1>9. SessionInv' /\ PhaseInv' /\ VoiceInv' /\ SpeechInv'
  BY <1>2, <1>6, <1>7, <1>8 DEF TurnsInv, SessionInv, PhaseInv, VoiceInv, FloorHeld, SpeechInv
<1>10. BargeInv'
  BY <1>2, <1>6, <1>7 DEF TurnsInv, BargeInv, NobodyCutOff
<1>11. WordsInv'
  BY <1>2, <1>6, <1>7 DEF TurnsInv, WordsInv
<1>12. ToldInv' /\ UsageInv'
  BY <1>2, <1>6, <1>7 DEF TurnsInv, ToldInv, Accounted, UsageInv, UsageBilled
<1>. QED
  BY <1>5, <1>9, <1>10, <1>11, <1>12 DEF TurnsInv

LEMMA WallNearsKeeps ==
  ASSUME TypeOK, TurnsInv, WallNears
  PROVE  TypeOK' /\ TurnsInv'
<1>1. PICK w \in {"near", "passed"} : w = IF s.wall = "far" THEN "near" ELSE "passed"
  OBVIOUS
<1>2. /\ s' = [s EXCEPT !.wall = w] /\ UNCHANGED <<iv, server, used, told, spent, broken>>
  BY <1>1 DEF WallNears
<1>3. s' \in Session /\ SameBut(s, s', {"wall"}) /\ s'.wall = w
  BY <1>2 DEF TypeOK, Session, SameBut, SessionFields
<1>4. TypeOK'
  BY <1>2, <1>3 DEF TypeOK
<1>5. /\ s'.closed = s.closed /\ s'.speaking = s.speaking /\ s'.notify = s.notify
      /\ s'.spoke = s.spoke /\ s'.muted = s.muted /\ s'.playing = s.playing
      /\ s'.usage = s.usage /\ s'.turnUsage = s.turnUsage /\ s'.content = s.content
      /\ s'.text = s.text /\ s'.voiced = s.voiced /\ s'.state = s.state
      /\ s'.idleDefer = s.idleDefer /\ s'.run = s.run /\ s'.salvage = s.salvage
  BY <1>3 DEF SameBut, SessionFields
<1>6. Underway' = Underway /\ Answerable' = Answerable
  BY <1>2, <1>5 DEF Underway, Answerable
<1>7. SessionInv' /\ PhaseInv' /\ VoiceInv' /\ SpeechInv'
  BY <1>2, <1>3, <1>5, <1>6 DEF TurnsInv, SessionInv, PhaseInv, VoiceInv, FloorHeld, SpeechInv
<1>8. BargeInv'
  BY <1>2, <1>5, <1>6 DEF TurnsInv, BargeInv, NobodyCutOff
<1>9. WordsInv'
  BY <1>2, <1>5, <1>6 DEF TurnsInv, WordsInv
<1>10. ToldInv' /\ UsageInv'
  BY <1>2, <1>5, <1>6 DEF TurnsInv, ToldInv, Accounted, UsageInv, UsageBilled
<1>. QED
  BY <1>4, <1>7, <1>8, <1>9, <1>10 DEF TurnsInv

LEMMA PausesKeeps ==
  ASSUME TypeOK, TurnsInv, Pauses
  PROVE  TypeOK' /\ TurnsInv'
<1>1. PICK x : x = QueueFlushed(s)
  OBVIOUS
<1>2. x \in Session /\ SameBut(s, x, {"playing", "run"}) /\ x.playing = 0 /\ ~x.run
  BY <1>1, QueueEffect DEF TypeOK
<1>3. /\ ~s.closed /\ s' = [x EXCEPT !.muted = TRUE] /\ iv' = Flushed(iv)
      /\ UNCHANGED <<server, told, spent>>
      /\ broken' = broken \cup {t \in Turns : t = server.turn /\ told[t] = 0}
  BY <1>1 DEF Pauses
<1>4. s' \in Session /\ SameBut(s, s', {"playing", "run", "muted"}) /\ s'.playing = 0 /\ s'.muted
  BY <1>2, <1>3 DEF Session, SameBut, SessionFields
<1>5. Written(iv, iv', TRUE) /\ AlsoBut(iv, iv', {"turns", "pendingUser", "pendingAgent"})
  BY <1>3, FlushEffect DEF Written, TypeOK
<1>6. used' \in Used /\ used'.tokens = used.tokens
  BY DEF Pauses, TypeOK, Used
<1>7. TypeOK'
  BY <1>3, <1>4, <1>5, <1>6 DEF TypeOK, Written
<1>8. /\ s'.closed = s.closed /\ s'.speaking = s.speaking /\ s'.notify = s.notify
      /\ s'.spoke = s.spoke /\ s'.wall = s.wall
      /\ s'.usage = s.usage /\ s'.turnUsage = s.turnUsage /\ s'.content = s.content
      /\ s'.text = s.text /\ s'.voiced = s.voiced /\ s'.state = s.state
      /\ s'.idleDefer = s.idleDefer /\ s'.salvage = s.salvage
  BY <1>4 DEF SameBut, SessionFields
<1>9. Underway' = Underway /\ Answerable' = Answerable
  BY <1>3, <1>8 DEF Underway, Answerable
<1>10. SessionInv' /\ PhaseInv' /\ VoiceInv' /\ SpeechInv'
  BY <1>3, <1>4, <1>8, <1>9 DEF TurnsInv, SessionInv, PhaseInv, VoiceInv, FloorHeld, SpeechInv
<1>11. BargeInv'
  BY <1>3, <1>5, <1>8, <1>9 DEF TurnsInv, BargeInv, NobodyCutOff, AlsoBut, InterviewFields
<1>12. WordsInv'
  <2>1. /\ HeardIn(iv') = HeardIn(iv) /\ Ordered(iv', broken')
    BY <1>3, <1>5, WrittenKeeps DEF TurnsInv, WordsInv, TypeOK
  <2>2. iv'.pendingAgent = {}
    BY <1>5 DEF Written
  <2>. QED
    BY <1>9, <2>1, <2>2 DEF TurnsInv, WordsInv
<1>13. ToldInv'
  <2>1. \A t \in Turns : Accounted(t) => Accounted(t)'
    BY <1>3 DEF Accounted
  <2>2. server.turn > 0 => Accounted(server.turn)'
    <3>1. server.turn > 0 => server.turn \in Turns
      BY TurnsAreFew DEF TypeOK, Server, Turns
    <3>2. server.turn > 0 => told[server.turn] = 0 \/ told[server.turn] = 1
      BY <3>1 DEF TypeOK, TurnsInv, ToldInv
    <3>. QED
      BY <1>3, <3>1, <3>2 DEF Accounted
  <2>. QED
    BY <1>3, <1>8, <1>9, <2>1, <2>2 DEF TurnsInv, ToldInv
<1>14. UsageInv'
  BY <1>3, <1>6, <1>8, <1>9 DEF TurnsInv, UsageInv, UsageBilled
<1>. QED
  BY <1>7, <1>10, <1>11, <1>12, <1>13, <1>14 DEF TurnsInv

\* A session that is over because a timer or a person ended it.
LEMMA OverKeeps ==
  ASSUME TypeOK, TurnsInv, ~s.closed, NEW c \in Conv, NEW flush \in BOOLEAN,
         c.turn = server.turn, c.told = told, SameBut(s, c.s, {"idleDefer", "state"}),
         Written(iv, c.iv, flush), c.s.voiced => c.s.state = s.state,
         NEW m, Over(c, m), ~m.iv.cut, s' = m.s, iv' = m.iv, told' = m.told,
         broken' = broken \cup Cut(m), UNCHANGED <<server, used, spent>>
  PROVE  TypeOK' /\ TurnsInv'
<1>1. c.s.closed = s.closed /\ c.s.notify = s.notify /\ c.s.usage = s.usage
      /\ c.s.turnUsage = s.turnUsage /\ c.s.content = s.content /\ c.s.voiced = s.voiced
  BY DEF SameBut, SessionFields
<1>2. ~Tells(c)
  BY <1>1 DEF Tells, TurnsInv, SessionInv
<1>3. /\ m \in Conv /\ m.turn = server.turn /\ told' = told /\ Written(c.iv, iv', FALSE)
      /\ s'.closed /\ ~s'.notify /\ s'.playing = 0 /\ ~s'.idleDefer /\ ~s'.salvage
      /\ s'.turnUsage = 0 /\ s'.usage = s.usage + s.turnUsage
  <2>1. /\ m \in Conv /\ m.turn = c.turn /\ (~Tells(c) => m.told = c.told)
        /\ m.s.closed /\ ~m.s.notify /\ m.s.playing = 0 /\ ~m.s.idleDefer /\ ~m.s.salvage
        /\ m.s.turnUsage = 0 /\ m.s.usage = c.s.usage + c.s.turnUsage
        /\ Written(c.iv, m.iv, Tells(c))
    BY DEF Over
  <2>2. Written(c.iv, m.iv, FALSE)
    BY <1>2, <2>1 DEF Written
  <2>. QED
    BY <1>1, <1>2, <2>1, <2>2
<1>4. s'.content = c.s.content /\ s'.voiced = c.s.voiced /\ s'.state = c.s.state
  BY DEF Over, SameBut, SessionFields
<1>5. s' \in Session /\ Written(iv, iv', flush)
  BY <1>3 DEF Conv, Written
<1>6. /\ broken' \subseteq Turns
      /\ broken \cup {t \in Turns : t = server.turn /\ told[t] = 0} \subseteq broken'
  <2>1. m.s.closed /\ m.told = told
    BY <1>3
  <2>2. Cut(m) = {t \in Turns : t = m.turn /\ m.told[t] = 0}
    BY <1>3, <2>1, CutIs
  <2>. QED
    BY <1>3, <2>1, <2>2 DEF TypeOK
<1>7. s'.voiced => s'.content /\ s'.state = "speaking" /\ ~s'.idleDefer
  BY <1>1, <1>3, <1>4 DEF TurnsInv, SessionInv
<1>8. server' \in Server /\ ~server'.late /\ (server.turn = 0 => server'.phase = "quiet")
  BY DEF TypeOK, TurnsInv, PhaseInv
<1>. QED
  BY <1>3, <1>5, <1>6, <1>7, <1>8, ClosedKeeps

LEMMA DropsKeeps ==
  ASSUME TypeOK, TurnsInv, Drops
  PROVE  TypeOK' /\ TurnsInv'
<1>1. PICK c : c = Conversation(server.turn)
  OBVIOUS
<1>2. c \in Conv /\ c.s = s /\ c.iv = iv /\ c.told = told /\ c.turn = server.turn
  <2>1. server.turn \in Nat
    BY DEF TypeOK, Server
  <2>. QED
    BY <1>1, <2>1, ConversationType
<1>3. PICK m : m = Stop(c)
  OBVIOUS
<1>4. /\ ~s.closed /\ s' = m.s /\ iv' = m.iv /\ told' = m.told
      /\ broken' = broken \cup Cut(m) /\ UNCHANGED <<server, used, spent>>
  BY <1>1, <1>3 DEF Drops, Timer, Becomes
<1>5. Over(c, m) /\ AlsoBut(c.iv, m.iv, {"turns", "pendingUser", "pendingAgent"})
  BY <1>2, <1>3, StopEffect
<1>6. ~m.iv.cut
  BY <1>2, <1>5 DEF AlsoBut, InterviewFields, TurnsInv, BargeInv, NobodyCutOff
<1>7. /\ SameBut(s, c.s, {"idleDefer", "state"}) /\ Written(iv, c.iv, FALSE) /\ FALSE \in BOOLEAN
      /\ c.s.voiced => c.s.state = s.state
  BY <1>2 DEF SameBut, Written, TypeOK
<1>. QED
  BY <1>2, <1>4, <1>5, <1>6, <1>7, OverKeeps

LEMMA EndsKeeps ==
  ASSUME TypeOK, TurnsInv, Ends
  PROVE  TypeOK' /\ TurnsInv'
<1>1. PICK b : b = Conversation(server.turn)
  OBVIOUS
<1>2. b \in Conv /\ b.s = s /\ b.iv = iv /\ b.told = told /\ b.turn = server.turn
  <2>1. server.turn \in Nat
    BY DEF TypeOK, Server
  <2>. QED
    BY <1>1, <2>1, ConversationType
<1>3. PICK w : w = Flushed(iv)
  OBVIOUS
<1>4. Written(iv, w, TRUE) /\ AlsoBut(iv, w, {"turns", "pendingUser", "pendingAgent"})
  BY <1>3, FlushEffect DEF Written, TypeOK
<1>5. PICK v : v = [w EXCEPT !.stopped = TRUE]
  OBVIOUS
<1>6. Written(iv, v, TRUE) /\ AlsoBut(iv, v, {"turns", "pendingUser", "pendingAgent", "stopped"})
  BY <1>4, <1>5 DEF Written, AlsoBut, Interview, InterviewFields
<1>7. PICK c : c = [b EXCEPT !.iv = v]
  OBVIOUS
<1>8. c \in Conv /\ c.s = s /\ c.iv = v /\ c.told = told /\ c.turn = server.turn
  BY <1>2, <1>6, <1>7 DEF Conv, Written
<1>9. c = [b EXCEPT !.iv = [Flushed(@) EXCEPT !.stopped = TRUE]]
  BY <1>2, <1>3, <1>5, <1>7
<1>10. PICK m : m = IF s.closed THEN c ELSE Stop(c)
  OBVIOUS
<1>11. /\ s' = m.s /\ iv' = m.iv /\ told' = m.told
       /\ broken' = broken \cup Cut(m) /\ UNCHANGED <<server, used, spent>>
  BY <1>1, <1>9, <1>10 DEF Ends, Timer, Becomes
<1>12. ~v.cut
  BY <1>6 DEF AlsoBut, InterviewFields, TurnsInv, BargeInv, NobodyCutOff
<1>13. CASE ~s.closed
  <2>1. Over(c, m) /\ AlsoBut(c.iv, m.iv, {"turns", "pendingUser", "pendingAgent"})
    BY <1>8, <1>10, <1>13, StopEffect
  <2>2. ~m.iv.cut
    BY <1>8, <1>12, <2>1 DEF AlsoBut, InterviewFields
  <2>3. /\ SameBut(s, c.s, {"idleDefer", "state"}) /\ Written(iv, c.iv, TRUE) /\ TRUE \in BOOLEAN
        /\ c.s.voiced => c.s.state = s.state
    BY <1>6, <1>8 DEF SameBut
  <2>. QED
    BY <1>8, <1>11, <1>13, <2>1, <2>2, <2>3, OverKeeps
<1>14. CASE s.closed
  <2>1. m = c /\ s' = s /\ iv' = v /\ told' = told
    BY <1>8, <1>10, <1>11, <1>14
  <2>2. Cut(m) \subseteq Turns
    BY <1>8, <2>1, CutIs
  <2>3. broken' \subseteq Turns /\ broken \subseteq broken'
    BY <1>11, <2>2 DEF TypeOK
  <2>4. TypeOK'
    BY <1>6, <1>11, <2>1, <2>3 DEF TypeOK, Written
  <2>5. Underway' = Underway /\ Answerable' = Answerable
    BY <1>11, <2>1 DEF Underway, Answerable
  <2>6. SessionInv' /\ PhaseInv' /\ VoiceInv' /\ SpeechInv'
    BY <1>11, <2>1, <2>5 DEF TurnsInv, SessionInv, PhaseInv, VoiceInv, FloorHeld, SpeechInv
  <2>7. BargeInv'
    BY <1>11, <1>12, <1>14, <2>1 DEF BargeInv, NobodyCutOff
  <2>8. WordsInv'
    <3>1. /\ HeardIn(iv') = HeardIn(iv) /\ Ordered(iv', broken')
      BY <1>6, <2>1, <2>3, WrittenKeeps DEF TurnsInv, WordsInv, TypeOK
    <3>2. iv'.pendingAgent = {}
      BY <1>6, <2>1 DEF Written
    <3>. QED
      BY <2>5, <3>1, <3>2 DEF TurnsInv, WordsInv
  <2>9. ToldInv' /\ UsageInv'
    BY <1>11, <2>1, <2>3, <2>5 DEF TurnsInv, ToldInv, Accounted, UsageInv, UsageBilled
  <2>. QED
    BY <2>4, <2>6, <2>7, <2>8, <2>9 DEF TurnsInv
<1>. QED
  BY <1>13, <1>14

LEMMA ReconnectsKeeps ==
  ASSUME TypeOK, TurnsInv, Reconnects
  PROVE  TypeOK' /\ TurnsInv'
<1>1. /\ s.closed /\ s' = NewSession(FALSE) /\ iv' = [iv EXCEPT !.goAway = FALSE]
      /\ server' = [server EXCEPT !.phase = "quiet", !.due = TRUE, !.speech = 0,
                              !.barged = FALSE, !.late = FALSE]
      /\ UNCHANGED <<told, spent, broken>>
  BY DEF Reconnects
<1>2. /\ s' \in Session /\ ~s'.closed /\ ~s'.muted /\ s'.playing = 0 /\ ~s'.notify /\ ~s'.salvage
      /\ ~s'.voiced /\ ~s'.content /\ ~s'.text /\ ~s'.speaking /\ s'.turnUsage = 0 /\ s'.usage = 0
  BY <1>1 DEF NewSession, Session
<1>3. /\ server' \in Server /\ server'.turn = server.turn /\ server'.phase = "quiet"
      /\ server'.speech = 0 /\ ~server'.late /\ ~server'.barged
  BY <1>1 DEF TypeOK, Server
<1>4. /\ iv' \in Interview /\ AlsoBut(iv, iv', {"goAway"}) /\ ~iv'.goAway
  BY <1>1 DEF TypeOK, Interview, AlsoBut, InterviewFields
<1>5. /\ iv'.turns = iv.turns /\ iv'.pendingUser = iv.pendingUser
      /\ iv'.pendingAgent = iv.pendingAgent /\ iv'.cut = iv.cut
  BY <1>4 DEF AlsoBut, InterviewFields
<1>6. used' \in Used /\ used'.tokens = used.tokens + s.usage
  <2>1. PICK n \in Nat : n = used.tokens + s.usage
    BY DEF TypeOK, Used, Session
  <2>2. PICK k \in Nat : k = used.upsets + 1
    BY DEF TypeOK, Used
  <2>3. used' = [used EXCEPT !.upsets = k, !.tokens = n]
    BY <2>1, <2>2 DEF Reconnects
  <2>. QED
    BY <2>1, <2>2, <2>3 DEF TypeOK, Used
<1>7. TypeOK'
  BY <1>1, <1>2, <1>3, <1>4, <1>6 DEF TypeOK
<1>8. ~Underway'
  BY <1>2 DEF Underway
<1>9. SessionInv' /\ PhaseInv' /\ VoiceInv' /\ SpeechInv'
  BY <1>2, <1>3, <1>8 DEF SessionInv, PhaseInv, VoiceInv, FloorHeld, SpeechInv, TypeOK, Server
<1>10. BargeInv'
  BY <1>2, <1>4, <1>5 DEF TurnsInv, BargeInv, NobodyCutOff
<1>11. WordsInv'
  <2>1. HeardIn(iv') = HeardIn(iv) /\ Ordered(iv', broken') /\ iv'.pendingAgent \ broken' = {}
    BY <1>1, <1>5 DEF TurnsInv, WordsInv, HeardIn, Ordered
  <2>2. Answerable' = server.turn /\ Answerable = server.turn
    BY <1>1, <1>3 DEF Answerable
  <2>. QED
    BY <2>1, <2>2 DEF TurnsInv, WordsInv
<1>12. ToldInv'
  <2>1. server.turn > 0 => Accounted(server.turn)
    BY <1>1 DEF TurnsInv, ToldInv
  <2>2. \A t \in Nat : Accounted(t) => Accounted(t)'
    BY <1>1 DEF Accounted
  <2>3. server.turn \in Nat /\ \A t \in Turns : t \in Nat
    BY DEF TypeOK, Server, Turns
  <2>. QED
    BY <1>1, <1>3, <1>8, <2>1, <2>2, <2>3 DEF TurnsInv, ToldInv
<1>13. UsageInv'
  <2>1. UsageBilled'
    <3>1. used.tokens \in Nat /\ s.usage \in Nat /\ s.turnUsage = 0
      BY <1>1 DEF TurnsInv, UsageInv, TypeOK, Used, Session
    <3>2. used.tokens + s.usage + s.turnUsage = SumFunction(spent)
      BY DEF TurnsInv, UsageInv, UsageBilled
    <3>3. spent' = spent /\ used'.tokens = used.tokens + s.usage /\ s'.usage = 0 /\ s'.turnUsage = 0
      BY <1>1, <1>2, <1>6
    <3>4. used'.tokens + s'.usage + s'.turnUsage = used.tokens + s.usage + s.turnUsage
      BY <3>1, <3>3
    <3>. QED
      BY <3>2, <3>3, <3>4 DEF UsageBilled
  <2>. QED
    BY <1>1, <1>2, <1>3, <1>8, <2>1 DEF TurnsInv, UsageInv
<1>. QED
  BY <1>7, <1>9, <1>10, <1>11, <1>12, <1>13 DEF TurnsInv

\* Timers that neither end a turn nor hand the conversation over change little.
LEMMA TickKeeps ==
  ASSUME TypeOK, TurnsInv, ~s.closed, s' \in Session, iv' \in Interview,
         SameBut(s, s', {"idleDefer", "state", "salvage"}),
         AlsoBut(iv, iv', {"poll"}), s'.salvage => s.salvage, s'.voiced => s'.state = s.state,
         s'.voiced => ~s'.idleDefer,
         ~s'.salvage /\ server.phase = "generated" => ~Underway,
         s'.state = "idle" /\ s.playing > 0 => s.wall \in {"near", "passed"},
         UNCHANGED <<told, broken, server, used, spent>>
  PROVE  TypeOK' /\ TurnsInv'
<1>1. TypeOK'
  BY DEF TypeOK
<1>2. /\ s'.closed = s.closed /\ s'.speaking = s.speaking /\ s'.notify = s.notify
      /\ s'.spoke = s.spoke /\ s'.wall = s.wall /\ s'.muted = s.muted
      /\ s'.usage = s.usage /\ s'.turnUsage = s.turnUsage /\ s'.content = s.content
      /\ s'.text = s.text /\ s'.voiced = s.voiced /\ s'.playing = s.playing /\ s'.run = s.run
  BY DEF SameBut, SessionFields
<1>3. /\ iv'.turns = iv.turns /\ iv'.pendingUser = iv.pendingUser
      /\ iv'.pendingAgent = iv.pendingAgent /\ iv'.cut = iv.cut /\ iv'.goAway = iv.goAway
  BY DEF AlsoBut, InterviewFields
<1>4. Underway' = Underway
  BY <1>2 DEF Underway
<1>5. SessionInv' /\ SpeechInv'
  BY <1>2, <1>4 DEF TurnsInv, SessionInv, SpeechInv
<1>6. PhaseInv'
  BY <1>2, <1>4 DEF TurnsInv, PhaseInv
<1>7. VoiceInv'
  BY <1>2, <1>4 DEF TurnsInv, VoiceInv, FloorHeld
<1>8. BargeInv'
  BY <1>2, <1>3, <1>4 DEF TurnsInv, BargeInv, NobodyCutOff
<1>9. WordsInv'
  BY <1>2, <1>3, WordsStay
<1>10. ToldInv' /\ UsageInv'
  BY <1>2, <1>4 DEF TurnsInv, ToldInv, Accounted, UsageInv, UsageBilled
<1>. QED
  BY <1>1, <1>5, <1>6, <1>7, <1>8, <1>9, <1>10 DEF TurnsInv

\* No notice, no change.
LEMMA NothingToTell ==
  ASSUME NEW c \in Conv, ~c.s.notify, NEW m, m = DrainNotice(c)
  PROVE  m = c
<1>1. ~Tells(c)
  BY DEF Tells
<1>2. /\ m \in Conv /\ m.turn = c.turn /\ SameBut(c.s, m.s, {"notify"}) /\ ~m.s.notify
      /\ m.told = c.told /\ m.iv = c.iv
  BY <1>1, DrainEffect
<1>3. m.s = c.s
  BY <1>2 DEF Conv, Session, SameBut, SessionFields
<1>. QED
  BY <1>2, <1>3 DEF Conv

LEMMA SalvageFiresKeeps ==
  ASSUME TypeOK, TurnsInv, SalvageFires
  PROVE  TypeOK' /\ TurnsInv'
<1>1. PICK b : b = Conversation(server.turn)
  OBVIOUS
<1>2. b \in Conv /\ b.s = s /\ b.iv = iv /\ b.told = told /\ b.turn = server.turn
  <2>1. server.turn \in Nat
    BY DEF TypeOK, Server
  <2>. QED
    BY <1>1, <2>1, ConversationType
<1>3. PICK x : x = [s EXCEPT !.salvage = FALSE]
  OBVIOUS
<1>4. x \in Session /\ SameBut(s, x, {"salvage"}) /\ ~x.salvage
  BY <1>3 DEF TypeOK, Session, SameBut, SessionFields
<1>5. PICK c : c = [b EXCEPT !.s = x]
  OBVIOUS
<1>6. c \in Conv /\ c.s = x /\ c.iv = iv /\ c.told = told /\ c.turn = server.turn
  BY <1>2, <1>4, <1>5 DEF Conv
<1>7. c = [b EXCEPT !.s.salvage = FALSE]
  BY <1>2, <1>3, <1>5
<1>8. PICK q, m : /\ q \in Clock
                  /\ m = (IF AtWork(s) THEN DrainNotice(CloseTurn(c, q)) ELSE c)
                  /\ s' = m.s /\ iv' = m.iv /\ told' = m.told
                  /\ broken' = broken \cup Cut(m)
  BY <1>1, <1>7 DEF SalvageFires, Timer, Becomes
<1>9. s.salvage /\ UNCHANGED <<server, used, spent>>
  BY DEF SalvageFires, Timer
<1>10. /\ x.closed = s.closed /\ x.notify = s.notify /\ x.content = s.content /\ x.text = s.text
       /\ x.voiced = s.voiced /\ x.state = s.state /\ x.idleDefer = s.idleDefer
  BY <1>4 DEF SameBut, SessionFields
<1>11. ~s.closed /\ ~c.s.notify /\ server.phase \in {"generated", "cut"} /\ server.turn > 0
  BY <1>6, <1>9, <1>10 DEF TurnsInv, SessionInv, PhaseInv, TypeOK, Server
<1>12. CASE AtWork(s) /\ Closable(x)
  <2>1. PICK k : k = CloseTurn(c, q)
    OBVIOUS
  <2>2. k \in Conv
    <3>1. PICK z : /\ TurnClosed(c, z)
                   /\ HoldFloor(c.s) => k = z
                   /\ ~HoldFloor(c.s) => \E y : InState(z, y, "idle") /\ Renewed(y, k)
      BY <1>6, <1>8, <1>12, <2>1, CloseEffect
    <3>2. z \in Conv
      BY <3>1 DEF TurnClosed
    <3>3. \A y : Renewed(y, k) => k \in Conv
      BY DEF Renewed, Waits, HandedOver, Over
    <3>. QED
      BY <3>1, <3>2, <3>3
  <2>3. Drained(k, m)
    BY <1>8, <1>12, <2>1, <2>2, DrainIsDrained
  <2>4. TurnEnds(c, m)
    BY <1>6, <1>8, <1>11, <1>12, <2>1, <2>3, CloseDrained
  <2>5. m \in Conv
    BY <2>4 DEF TurnEnds
  <2>6. broken \subseteq broken' /\ broken' \subseteq Turns
    BY <1>8, <2>5, CutIs DEF TypeOK
  <2>7. Underway
    BY <1>10, <1>12 DEF Closable, Underway
  <2>8. SameBut(s, c.s, {"salvage", "awaiting"})
    BY <1>4, <1>6 DEF SameBut
  <2>9. /\ server' \in Server /\ server'.turn = server.turn /\ server'.speech = server.speech
        /\ ~server'.late /\ server'.barged = server.barged /\ server' = server
    BY <1>9 DEF TypeOK, TurnsInv, PhaseInv
  <2>. QED
    BY <1>6, <1>8, <1>9, <1>11, <2>4, <2>6, <2>7, <2>8, <2>9, TurnEndsKeeps
<1>13. CASE ~(AtWork(s) /\ Closable(x))
  <2>1. s' = x /\ iv' = iv /\ told' = told /\ Cut(m) = {}
    <3>1. CASE AtWork(s)
      <4>1. CloseTurn(c, q) = c
        BY <1>6, <1>8, <1>13, <3>1, CloseEffect
      <4>2. m = c
        BY <1>6, <1>8, <1>11, <3>1, <4>1, NothingToTell
      <4>. QED
        BY <1>6, <1>8, <1>10, <1>11, <4>2 DEF Cut
    <3>2. CASE ~AtWork(s)
      BY <1>6, <1>8, <1>10, <1>11, <3>2 DEF Cut
    <3>. QED
      BY <3>1, <3>2
  <2>2. server.phase = "generated" => ~Underway
    <3>1. CASE AtWork(s)
      BY <1>10, <1>13, <3>1 DEF Closable, Underway, TurnsInv, SessionInv
    <3>2. CASE ~AtWork(s)
      BY <1>11, <3>2 DEF AtWork, TurnsInv, SessionInv, PhaseInv
    <3>. QED
      BY <3>1, <3>2
  <2>3. /\ s' \in Session /\ iv' \in Interview /\ SameBut(s, s', {"idleDefer", "state", "salvage"})
        /\ AlsoBut(iv, iv', {"poll"}) /\ ~s'.salvage /\ s'.state = s.state
        /\ (s'.voiced => ~s'.idleDefer)
    BY <1>4, <1>10, <2>1 DEF SameBut, AlsoBut, TypeOK, TurnsInv, SessionInv
  <2>4. s'.state = "idle" /\ s.playing > 0 => s.wall \in {"near", "passed"}
    BY <2>3 DEF TurnsInv, VoiceInv, FloorHeld
  <2>5. UNCHANGED <<told, broken, server, used, spent>>
    BY <1>8, <1>9, <2>1
  <2>. QED
    BY <1>11, <2>2, <2>3, <2>4, <2>5, TickKeeps
<1>. QED
  BY <1>12, <1>13

LEMMA IdleDeferEndsKeeps ==
  ASSUME TypeOK, TurnsInv, Faults = {}, IdleDeferEnds
  PROVE  TypeOK' /\ TurnsInv'
<1>1. PICK b : b = Conversation(server.turn)
  OBVIOUS
<1>2. b \in Conv /\ b.s = s /\ b.iv = iv /\ b.told = told /\ b.turn = server.turn
  <2>1. server.turn \in Nat
    BY DEF TypeOK, Server
  <2>. QED
    BY <1>1, <2>1, ConversationType
<1>3. PICK x : x = [s EXCEPT !.idleDefer = FALSE]
  OBVIOUS
<1>4. x \in Session /\ SameBut(s, x, {"idleDefer"}) /\ ~x.idleDefer
  BY <1>3 DEF TypeOK, Session, SameBut, SessionFields
<1>5. PICK c : c = [b EXCEPT !.s = x]
  OBVIOUS
<1>6. c \in Conv /\ c.s = x /\ c.iv = iv /\ c.told = told /\ c.turn = server.turn
  BY <1>2, <1>4, <1>5 DEF Conv
<1>7. c = [b EXCEPT !.s.idleDefer = FALSE]
  BY <1>2, <1>3, <1>5
<1>8. PICK q, d, m : /\ q \in Clock
                     /\ d = (IF AtWork(s) THEN SetTurnState(c, "idle", q) ELSE c)
                     /\ m = DrainNotice(d)
                     /\ s' = m.s /\ iv' = m.iv /\ told' = m.told
                     /\ broken' = broken \cup Cut(m)
  BY <1>1, <1>7 DEF IdleDeferEnds, Timer, Becomes
<1>9. /\ s.idleDefer /\ (s.playing = 0 \/ s.wall \in {"near", "passed"})
      /\ UNCHANGED <<server, used, spent>>
  BY DEF IdleDeferEnds, Timer
<1>10. ~s.voiced
  BY <1>9 DEF TurnsInv, SessionInv
<1>11. PICK y \in Conv : /\ Renewed(y, d) /\ y.turn = server.turn /\ y.told = told /\ y.iv = iv
                         /\ SameBut(s, y.s, {"idleDefer", "state"}) /\ ~y.s.idleDefer
                         /\ y.s.state = s.state \/ y.s.state = "idle"
  <2>1. CASE AtWork(s)
    <3>1. PICK y : InState(c, y, "idle") /\ Renewed(y, d)
      BY <1>6, <1>8, <2>1, TurnStateEffect
    <3>2. /\ y \in Conv /\ y.turn = server.turn /\ y.told = told /\ y.iv = iv
          /\ ~y.s.idleDefer /\ y.s.state = "idle" /\ SameBut(x, y.s, {"idleDefer", "state"})
      BY <1>4, <1>6, <3>1 DEF InState
    <3>3. SameBut(s, y.s, {"idleDefer", "state"})
      BY <1>4, <3>2 DEF SameBut
    <3>. QED
      BY <3>1, <3>2, <3>3
  <2>2. CASE ~AtWork(s)
    <3>1. d = c
      BY <1>8, <2>2
    <3>2. Renewed(c, d)
      BY <1>6, <3>1 DEF Renewed, Waits, AlsoBut
    <3>3. SameBut(s, c.s, {"idleDefer", "state"}) /\ ~c.s.idleDefer /\ c.s.state = s.state
      BY <1>4, <1>6 DEF SameBut, SessionFields
    <3>. QED
      BY <1>6, <3>2, <3>3
  <2>. QED
    BY <2>1, <2>2
<1>12. /\ y.s.closed = s.closed /\ y.s.notify = s.notify /\ y.s.voiced = s.voiced
       /\ y.s.speaking = s.speaking /\ y.s.spoke = s.spoke
  BY <1>11 DEF SameBut, SessionFields
<1>13. d \in Conv /\ ~d.s.notify
  <2>1. CASE Waits(y, d)
    BY <1>12, <2>1 DEF Waits, TurnsInv, SessionInv
  <2>2. CASE HandedOver(y, d)
    BY <2>2 DEF HandedOver, Over
  <2>. QED
    BY <1>11, <2>1, <2>2 DEF Renewed
<1>14. m = d
  BY <1>8, <1>13, NothingToTell
<1>15. CASE HandedOver(y, d)
  <2>1. /\ ~s.closed /\ iv.goAway /\ Over(y, m)
        /\ m.iv.cut => iv.cut \/ (s.speaking /\ s.spoke = "no")
    BY <1>11, <1>12, <1>14, <1>15 DEF HandedOver
  <2>2. ~m.iv.cut
    BY <2>1 DEF TurnsInv, BargeInv, NobodyCutOff
  <2>3. Written(iv, y.iv, FALSE) /\ FALSE \in BOOLEAN
    BY <1>11 DEF Written, TypeOK
  <2>4. y.s.voiced => y.s.state = s.state
    BY <1>10, <1>12
  <2>. QED
    BY <1>8, <1>9, <1>11, <2>1, <2>2, <2>3, <2>4, OverKeeps
<1>16. CASE Waits(y, d)
  <2>1. m \in Conv /\ s' = y.s /\ told' = told /\ AlsoBut(iv, iv', {"poll"})
    BY <1>8, <1>11, <1>14, <1>16 DEF Waits
  <2>2. s' \in Session /\ iv' \in Interview
    BY <1>8, <2>1 DEF Conv
  <2>3. CASE ~s.closed
    <3>1. broken' = broken
      BY <1>8, <1>12, <2>1, <2>3 DEF Cut
    <3>2. SameBut(s, s', {"idleDefer", "state", "salvage"}) /\ s'.salvage = s.salvage
      BY <1>11, <2>1 DEF SameBut, SessionFields
    <3>3. ~s'.salvage /\ server.phase = "generated" => ~Underway
      BY <2>3, <3>2 DEF TurnsInv, PhaseInv
    <3>. QED
      BY <1>9, <1>10, <1>12, <2>1, <2>2, <2>3, <3>1, <3>2, <3>3, TickKeeps
  <2>4. CASE s.closed
    <3>1. /\ s'.closed /\ ~s'.notify /\ s'.playing = 0 /\ ~s'.salvage /\ s'.turnUsage = 0
          /\ s'.usage = s.usage + s.turnUsage /\ ~s'.voiced
      <4>1. /\ s'.closed = s.closed /\ s'.notify = s.notify /\ s'.playing = s.playing
            /\ s'.salvage = s.salvage /\ s'.turnUsage = s.turnUsage /\ s'.usage = s.usage
            /\ s'.voiced = s.voiced
        BY <1>11, <2>1 DEF SameBut, SessionFields
      <4>. QED
        BY <1>10, <2>4, <4>1 DEF TurnsInv, SessionInv, UsageInv, TypeOK, Session
    <3>2. Written(iv, iv', FALSE) /\ ~iv'.cut /\ FALSE \in BOOLEAN
      BY <2>1, <2>2 DEF Written, AlsoBut, InterviewFields, TurnsInv, BargeInv, NobodyCutOff
    <3>3. /\ broken' \subseteq Turns
          /\ broken \cup {t \in Turns : t = server.turn /\ told[t] = 0} \subseteq broken'
      <4>1. m.s.closed /\ m.told = told /\ m.turn = server.turn
        BY <1>8, <1>11, <1>14, <1>16, <2>1, <3>1 DEF Waits
      <4>2. Cut(m) = {t \in Turns : t = m.turn /\ m.told[t] = 0}
        BY <2>1, <4>1, CutIs
      <4>. QED
        BY <1>8, <4>1, <4>2 DEF TypeOK
    <3>4. server' \in Server /\ ~server'.late /\ (server.turn = 0 => server'.phase = "quiet")
      BY <1>9 DEF TypeOK, TurnsInv, PhaseInv
    <3>. QED
      BY <1>9, <2>1, <2>2, <3>1, <3>2, <3>3, <3>4, ClosedKeeps
  <2>. QED
    BY <2>3, <2>4
<1>. QED
  BY <1>11, <1>15, <1>16 DEF Renewed

LEMMA GoAwayPollKeeps ==
  ASSUME TypeOK, TurnsInv, GoAwayPoll
  PROVE  TypeOK' /\ TurnsInv'
<1>1. PICK c : c = Conversation(server.turn)
  OBVIOUS
<1>2. c \in Conv /\ c.s = s /\ c.iv = iv /\ c.told = told /\ c.turn = server.turn
  <2>1. server.turn \in Nat
    BY DEF TypeOK, Server
  <2>. QED
    BY <1>1, <2>1, ConversationType
<1>3. PICK q, m : /\ q \in Clock
                  /\ m = (IF iv.goAway /\ ~iv.stopped THEN MaybeRenewOnGoAway(c, q)
                          ELSE [c EXCEPT !.iv.poll = FALSE])
                  /\ s' = m.s /\ iv' = m.iv /\ told' = m.told
                  /\ broken' = broken \cup Cut(m)
  BY <1>1, <1>2 DEF GoAwayPoll, Timer, Becomes
<1>4. UNCHANGED <<server, used, spent>>
  BY DEF GoAwayPoll, Timer
<1>5. Renewed(c, m)
  <2>1. CASE iv.goAway /\ ~iv.stopped
    BY <1>2, <1>3, <2>1, RenewEffect
  <2>2. CASE ~(iv.goAway /\ ~iv.stopped)
    <3>1. PICK v : v = [iv EXCEPT !.poll = FALSE]
      OBVIOUS
    <3>2. v \in Interview /\ AlsoBut(iv, v, {"poll"})
      BY <3>1 DEF TypeOK, Interview, AlsoBut, InterviewFields
    <3>3. m = [c EXCEPT !.iv = v]
      BY <1>2, <1>3, <2>2, <3>1
    <3>4. Waits(c, m)
      BY <1>2, <3>2, <3>3 DEF Waits, Conv
    <3>. QED
      BY <3>4 DEF Renewed
  <2>. QED
    BY <2>1, <2>2
<1>6. CASE HandedOver(c, m)
  <2>1. /\ ~s.closed /\ iv.goAway /\ Over(c, m)
        /\ m.iv.cut => iv.cut \/ (s.speaking /\ s.spoke = "no")
    BY <1>2, <1>6 DEF HandedOver
  <2>2. ~m.iv.cut
    BY <2>1 DEF TurnsInv, BargeInv, NobodyCutOff
  <2>3. /\ Written(iv, c.iv, FALSE) /\ FALSE \in BOOLEAN
        /\ SameBut(s, c.s, {"idleDefer", "state"}) /\ c.s.state = s.state
    BY <1>2 DEF Written, TypeOK, SameBut
  <2>. QED
    BY <1>2, <1>3, <1>4, <2>1, <2>2, <2>3, OverKeeps
<1>7. CASE Waits(c, m)
  <2>1. m \in Conv /\ m.turn = server.turn /\ s' = s /\ told' = told /\ AlsoBut(iv, iv', {"poll"})
    BY <1>2, <1>3, <1>7 DEF Waits
  <2>2. iv' \in Interview
    BY <1>3, <2>1 DEF Conv
  <2>3. broken' \subseteq Turns /\ broken \subseteq broken'
    BY <1>3, <2>1, CutIs DEF TypeOK
  <2>4. TypeOK'
    BY <1>4, <2>1, <2>2, <2>3 DEF TypeOK
  <2>5. /\ iv'.turns = iv.turns /\ iv'.pendingUser = iv.pendingUser
        /\ iv'.pendingAgent = iv.pendingAgent /\ iv'.cut = iv.cut /\ iv'.goAway = iv.goAway
    BY <2>1 DEF AlsoBut, InterviewFields
  <2>6. Underway' = Underway
    BY <2>1 DEF Underway
  <2>7. SessionInv' /\ PhaseInv' /\ VoiceInv' /\ SpeechInv'
    BY <1>4, <2>1, <2>6 DEF TurnsInv, SessionInv, PhaseInv, VoiceInv, FloorHeld, SpeechInv
  <2>8. BargeInv'
    BY <1>4, <2>1, <2>5, <2>6 DEF TurnsInv, BargeInv, NobodyCutOff
  <2>9. WordsInv'
    BY <1>4, <2>1, <2>3, <2>5, WordsStay
  <2>10. ToldInv' /\ UsageInv'
    BY <1>4, <2>1, <2>3, <2>6 DEF TurnsInv, ToldInv, Accounted, UsageInv, UsageBilled
  <2>. QED
    BY <2>4, <2>7, <2>8, <2>9, <2>10 DEF TurnsInv
<1>. QED
  BY <1>5, <1>6, <1>7 DEF Renewed

-----------------------------------------------------------------------------
(* Theorems.                                                                *)

LEMMA TurnsBegin ==
  ASSUME Init
  PROVE  TypeOK /\ TurnsInv
<1>1. /\ s \in Session /\ ~s.closed /\ ~s.muted /\ s.playing = 0 /\ ~s.notify /\ ~s.salvage
      /\ ~s.voiced /\ ~s.content /\ ~s.text /\ ~s.speaking /\ s.turnUsage = 0 /\ s.usage = 0
      /\ s.state = "none"
  BY DEF Init, NewSession, Session
<1>2. /\ iv \in Interview /\ iv.turns = <<>> /\ iv.pendingUser = {} /\ iv.pendingAgent = {}
      /\ ~iv.goAway /\ ~iv.cut
  <2>1. <<>> \in Seq(Entry)
    OBVIOUS
  <2>. QED
    BY <2>1 DEF Init, Interview
<1>3. /\ server \in Server /\ server.turn = 0 /\ server.phase = "quiet" /\ server.voice = 0
      /\ server.speech = 0 /\ ~server.barged /\ ~server.late
  BY TurnsAreFew DEF Init, Server
<1>4. used \in Used /\ used.tokens = 0
  BY DEF Init, Used
<1>5. /\ told = [t \in Turns |-> 0] /\ spent = [t \in Turns |-> 0] /\ broken = {}
  BY DEF Init
<1>6. TypeOK
  BY <1>1, <1>2, <1>3, <1>4, <1>5 DEF TypeOK
<1>7. ~Underway
  BY <1>1 DEF Underway
<1>8. SessionInv /\ PhaseInv /\ VoiceInv /\ BargeInv /\ SpeechInv
  BY <1>1, <1>2, <1>3, <1>7
     DEF SessionInv, PhaseInv, VoiceInv, FloorHeld, BargeInv, NobodyCutOff, SpeechInv
<1>9. WordsInv
  <2>1. DOMAIN iv.turns = {}
    BY <1>2
  <2>. QED
    BY <1>2, <2>1 DEF WordsInv, HeardIn, Ordered
<1>10. ToldInv
  BY <1>3, <1>5 DEF ToldInv, Turns
<1>11. UsageInv
  <2>1. SumFunction(spent) = 0
    BY <1>5, SumOfNothing, TurnsAreFew
  <2>. QED
    BY <1>1, <1>3, <1>4, <1>5, <2>1 DEF UsageInv, UsageBilled
<1>. QED
  BY <1>6, <1>8, <1>9, <1>10, <1>11 DEF TurnsInv

LEMMA TurnsStay ==
  ASSUME TypeOK, TurnsInv, UNCHANGED vars
  PROVE  TypeOK' /\ TurnsInv'
<1>1. /\ s' = s /\ iv' = iv /\ server' = server /\ used' = used /\ told' = told /\ spent' = spent
      /\ broken' = broken
  BY DEF vars
<1>2. TypeOK'
  BY <1>1 DEF TypeOK
<1>3. Underway' = Underway /\ Answerable' = Answerable
  BY <1>1 DEF Underway, Answerable
<1>4. SessionInv' /\ PhaseInv' /\ VoiceInv' /\ BargeInv' /\ SpeechInv'
  BY <1>1, <1>3
     DEF TurnsInv, SessionInv, PhaseInv, VoiceInv, FloorHeld, BargeInv, NobodyCutOff, SpeechInv
<1>5. WordsInv' /\ ToldInv' /\ UsageInv'
  BY <1>1, <1>3 DEF TurnsInv, WordsInv, ToldInv, Accounted, UsageInv, UsageBilled
<1>. QED
  BY <1>2, <1>4, <1>5 DEF TurnsInv

LEMMA TurnsStep ==
  ASSUME TypeOK, TurnsInv, Faults = {}, [Next]_vars
  PROVE  TypeOK' /\ TurnsInv'
<1>1. CASE Model
  BY <1>1, ThinksKeeps, VoicesKeeps, SaysKeeps, GeneratesKeeps, InterruptsKeeps, ReportsKeeps,
     CompletesKeeps, HearsKeeps, GoesAwayKeeps DEF Model, Answers
<1>2. CASE Clockwork
  BY <1>2, PlaysKeeps, SalvageFiresKeeps, IdleDeferEndsKeeps, GoAwayPollKeeps, WallNearsKeeps,
     FallsSilentKeeps DEF Clockwork
<1>3. CASE Speaks \/ Pauses \/ Resumes
  BY <1>3, SpeaksKeeps, PausesKeeps, ResumesKeeps
<1>4. CASE Drops \/ Ends \/ Reconnects
  BY <1>4, DropsKeeps, EndsKeeps, ReconnectsKeeps
<1>5. CASE UNCHANGED vars
  BY <1>5, TurnsStay
<1>. QED
  BY <1>1, <1>2, <1>3, <1>4, <1>5 DEF Next

\* While nobody does what the code mishandles, the state keeps its shape and the
\* session, the model's side, the record, the notices and the bill of a
\* conversation agree, whatever the callbacks and timers come in
\* (vyne-live.js 717-2616, vyne-live-interview.js 810-1999).
THEOREM TurnsInvariant ==
  ASSUME Faults = {}
  PROVE  Spec => [](TypeOK /\ TurnsInv)
<1>1. Init => TypeOK /\ TurnsInv
  BY TurnsBegin
<1>2. TypeOK /\ TurnsInv /\ [Next]_vars => (TypeOK /\ TurnsInv)'
  BY TurnsStep
<1>. QED
  BY <1>1, <1>2, PTL DEF Spec

\* While nobody does what the code mishandles, the application is told of a turn
\* once, unless the turn was cut or paused over, and what the turns cost is billed
\* once (closing a turn, vyne-live.js 1567-1670).
THEOREM TurnsAreCountedOnce ==
  ASSUME Faults = {}
  PROVE  Spec => []TurnsCountOnce
<1>1. TypeOK /\ TurnsInv => TurnsCountOnce
  <2>. SUFFICES ASSUME TypeOK, TurnsInv PROVE TurnsCountOnce
    OBVIOUS
  <2>1. \A t \in 1 .. server.turn : t \in Turns /\ server.turn > 0
    BY TurnsAreFew DEF TypeOK, Server, Turns
  <2>2. server.phase = "quiet" /\ server.turn > 0 => Accounted(server.turn)
    BY DEF TurnsInv, PhaseInv, ToldInv
  <2>3. \A t \in 1 .. server.turn : t < server.turn \/ t = server.turn
    BY DEF TypeOK, Server
  <2>4. TurnToldOnce
    BY <2>1, <2>2, <2>3 DEF TurnToldOnce, TurnsInv, ToldInv, Accounted
  <2>. QED
    BY <2>4 DEF TurnsCountOnce, TurnsInv, UsageInv
<1>. QED
  BY <1>1, TurnsInvariant, PTL

\* While nobody does what the code mishandles, the floor is not given to the
\* interviewee while the interviewer's voice is still to come, unless the
\* connection is about to close (the floor after a turn, vyne-live.js 1602-1717).
\* No fault: no turn leaves more voice than IDLE_DEFER_MAX_MS, 20 s, waits for.
THEOREM FloorIsHeld ==
  ASSUME Faults = {}
  PROVE  Spec => []FloorHeld
<1>1. TypeOK /\ TurnsInv => FloorHeld
  BY DEF TurnsInv, VoiceInv
<1>. QED
  BY <1>1, TurnsInvariant, PTL

\* While nobody does what the code mishandles, a question is written down before
\* its answer, unless its turn was cut or paused over (the transcript,
\* vyne-live-interview.js 232-322).
THEOREM QuestionsComeFirst ==
  ASSUME Faults = {}
  PROVE  Spec => []QuestionBeforeAnswer
<1>1. TypeOK /\ TurnsInv => QuestionBeforeAnswer
  BY DEF TurnsInv, WordsInv, Ordered, QuestionBeforeAnswer
<1>. QED
  BY <1>1, TurnsInvariant, PTL

\* While nobody does what the code mishandles, a handover takes no words off the
\* interviewee before the deadline forces it (vyne-live-interview.js 1859-1899).
THEOREM NobodyIsCutOff ==
  ASSUME Faults = {}
  PROVE  Spec => []NobodyCutOff
<1>1. TypeOK /\ TurnsInv => NobodyCutOff
  BY DEF TurnsInv, BargeInv
<1>. QED
  BY <1>1, TurnsInvariant, PTL
==============================================================================
