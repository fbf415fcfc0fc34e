--------------------------- MODULE ClientKeysProofs ----------------------------
(***************************************************************************)
(* Who pays for a call and whose key it spends, for any number of clients, *)
(* names, vendors, links and calls.  The firm pays for a client with a key *)
(* on file only under its grant, as long as no lookup throws.  A key       *)
(* serves its own client only, stays off once it is off, and follows its   *)
(* client through a rename, as long as none of the other faults happens:   *)
(* a client may be deleted and another take its name, a link may be made   *)
(* or redeemed while nobody bears the name, and a row may be left unbound. *)
(***************************************************************************)
EXTENDS ClientKeys, TLAPS

(* All that may fail where keys are to keep to their client: the fault     *)
(* kinds of ClientKeys other than this one mix two clients up, or switch a *)
(* refused key on.                                                         *)
OnlyLookupsFail == Faults \subseteq {"lookup"}

Planned(k) == call[k].phase \in {"planning", "trying"}

(* A call with a key on file has found it usable or not; past planning,    *)
(* without a grant, it tries none but adapters its client's keys built.    *)
PayerKnown ==
  \A k \in Calls :
    /\ call[k].phase = "planning" =>
         /\ call[k].onFile => Own(call[k]) # {} \/ call[k].unusable # {}
         /\ call[k].asked = {}
    /\ call[k].phase = "trying" /\ call[k].onFile /\ ~call[k].granted =>
         /\ "firm" \notin call[k].asked
         /\ \A i \in call[k].left : VendorsOwn(call[k], call[k].plan[i]) # {}

(* A client is the last that bore its name, and so is that of a call.      *)
NamesAreBorne ==
  /\ \A c \in Clients : name[c] # None => bore[name[c]] = c
  /\ \A k \in Calls : call[k].phase # "idle" => bore[call[k].name] = call[k].of

Used(l) == links[l] # None /\ links[l].state = "used"

(* A row is filed as the link of its key says.  It is bound to the client  *)
(* the key is from; unbound, it is switched off, or that client was the    *)
(* last that bore the name.                                                *)
RowFollows(l, eng, status, n, v) ==
  /\ Used(l) /\ links[l].name = n /\ links[l].vendor = v
  /\ \/ eng = links[l].of /\ name[links[l].of] # None
     \/ eng = None /\ (status = "disabled" \/ bore[n] = links[l].of)

RowsFollowTheirLink ==
  \A n \in Names, v \in Vendors :
    keys[n][v] # None => RowFollows(keys[n][v].key, keys[n][v].eng, keys[n][v].status, n, v)

Borne(n) == \E c \in Clients : name[c] = n

(* What is filed under a client's name and not switched off is bound.      *)
BornNamesAreBound ==
  \A n \in Names :
    Borne(n) =>
      /\ grants[n] # "unbound"
      /\ \A v \in Vendors :
           keys[n][v] # None /\ keys[n][v].eng = None => keys[n][v].status = "disabled"

(* A row that a refusal may be filed to: were it unbound, it would be of   *)
(* the client that bore the name last, and nobody would bear it.           *)
Standing(n, v) ==
  keys[n][v] # None /\ keys[n][v].eng = None =>
    ~Borne(n) /\ bore[n] = links[keys[n][v].key].of

ReportsStand == \A r \in reports : Standing(r.name, r.vendor)

(* A call holds its keys under its own name, and may have one refused.     *)
CallStands(s) ==
  \A v \in Vendors :
    s.own[v] # None =>
      /\ s.own[v].name = s.name /\ links[s.own[v].key].vendor = v
      /\ links[s.own[v].key].name = s.name => Standing(s.name, v)

CallsStand == \A k \in Calls : Planned(k) => CallStands(call[k])

SuppliedBy(l, c) == Used(l) /\ links[l].of = c

(* A call holds and has spent its own client's keys.                       *)
CallsHoldTheirKeys ==
  \A k \in Calls :
    Planned(k) =>
      /\ \A v \in Vendors : call[k].own[v] # None => SuppliedBy(call[k].own[v].key, call[k].of)
      /\ \A l \in call[k].asked \ {"firm"} : SuppliedBy(l, call[k].of)

(* A report names the row of its key, and a key that is off was filed.     *)
RefusalsNameTheirKey ==
  /\ \A r \in reports : Used(r.key) /\ links[r.key].name = r.name /\ links[r.key].vendor = r.vendor
  /\ \A o \in off : Used(o.key)

KeysInv ==
  /\ NamesAreBorne /\ RowsFollowTheirLink /\ BornNamesAreBound
  /\ ReportsStand /\ CallsStand
  /\ CallsHoldTheirKeys /\ RefusalsNameTheirKey /\ OffIsOff

--------------------------------------------------------------------------------
(* Types *)

LEMMA CallShape ==
  ASSUME TypeOK, NEW k \in Calls
  PROVE  /\ call[k].phase \in {"idle", "resolving", "planning", "trying"}
         /\ call[k] = Idle <=> call[k].phase = "idle"
         /\ call[k].phase # "idle" => call[k].of \in Clients /\ call[k].name \in Names
         /\ Planned(k) => call[k] \in PlannedCall
  BY DEF TypeOK, CallState, PlannedCall, Idle, Planned

LEMMA EngagementIsOne ==
  ASSUME NEW n \in Names
  PROVE  /\ EngagementOf(n) \in ClientOrNone
         /\ EngagementOf(n) # None => name[EngagementOf(n)] = n
         /\ EngagementOf(n) = None => \A c \in Clients : name[c] # n
  BY KeysAssumption DEF EngagementOf, ClientOrNone

(* What a plan leaves to try are positions of it. *)
LEMMA ConfinedPositions ==
  ASSUME NEW chain \in Chains, NEW prefer \in Vendors \cup {None}, NEW vs \in SUBSET Vendors,
         NEW available, NEW granted
  PROVE  /\ Plan(chain, prefer, vs) \in Plans
         /\ Confined(Plan(chain, prefer, vs), available, granted) \subseteq Positions
  <1>1. Plan(chain, prefer, vs) \in Plans
    BY DEF Plans
  <1> QED
    BY <1>1 DEF Confined, Positions

LEMMA RemainingFields ==
  ASSUME NEW s \in PlannedCall, NEW i, NEW refused
  PROVE  LET r == Remaining(s, i, refused)
         IN  /\ r \in PlannedCall /\ r.left \subseteq s.left
             /\ r.phase = s.phase /\ r.of = s.of /\ r.name = s.name /\ r.own = s.own
             /\ r.onFile = s.onFile /\ r.granted = s.granted /\ r.plan = s.plan
             /\ r.asked = s.asked
  <1> DEFINE left == {j \in s.left : j # i /\ VendorsOwn(s, s.plan[j]) \cap refused = {}}
  <1>1. left \in SUBSET Positions /\ left \subseteq s.left
    BY DEF PlannedCall
  <1>2. 0 \in 0 .. (MaxAttempts - 1)
    BY KeysAssumption
  <1>3. Remaining(s, i, refused) = [s EXCEPT !.left = left, !.tries = 0]
    BY DEF Remaining
  <1> HIDE DEF left
  <1> QED
    BY <1>1, <1>2, <1>3 DEF PlannedCall

(* A lookup gives a call the keys of usable rows it found under its name. *)
ResolvedTo(k, own, unusable, onFile) ==
  /\ call' = [call EXCEPT ![k] =
       [phase |-> "planning", of |-> call[k].of, name |-> call[k].name,
        own |-> own, unusable |-> unusable, onFile |-> onFile,
        granted |-> FALSE, plan |-> <<>>, left |-> {}, tries |-> 0, asked |-> {}]]
  /\ \A v \in Vendors : own[v] # None =>
       \E f \in OnFile(call[k].name, v) :
         /\ keys[f][v].status = "active" /\ own[v].key = keys[f][v].key
         /\ own[v].name = call[k].name
  /\ onFile /\ "lookup" \notin Faults =>
       (\E v \in Vendors : own[v] # None) \/ unusable # {}

LEMMA ResolveGives ==
  ASSUME TypeOK, NEW k \in Calls, ResolveKeys(k)
  PROVE  \E own \in [Vendors -> Binding \cup {None}], unusable \in SUBSET Vendors, onFile \in BOOLEAN :
           ResolvedTo(k, own, unusable, onFile)
  <1> DEFINE n == call[k].name
             found(pick) == {v \in Vendors : pick[v] # None}
             usable(pick, bad) == {v \in found(pick) \ bad : keys[pick[v]][v].status = "active"}
  <1>1. PICK pick \in [Vendors -> Names \cup {None}], unread \in SUBSET Vendors,
             threw \in SUBSET Vendors :
          /\ \A v \in Vendors : pick[v] \in IF OnFile(n, v) = {} THEN {None} ELSE OnFile(n, v)
          /\ threw = {} \/ "lookup" \in Faults
          /\ call' = [call EXCEPT ![k] =
               [phase |-> "planning", of |-> call[k].of, name |-> n,
                own |-> [v \in Vendors |-> IF v \in usable(pick, threw \cup unread)
                                             THEN BindingOf(pick[v], v) ELSE None],
                unusable |-> found(pick) \ (threw \cup usable(pick, threw \cup unread)),
                onFile |-> found(pick) # {},
                granted |-> FALSE, plan |-> <<>>, left |-> {}, tries |-> 0, asked |-> {}]]
    BY DEF ResolveKeys
  <1> DEFINE good == usable(pick, threw \cup unread)
             own == [v \in Vendors |-> IF v \in good THEN BindingOf(pick[v], v) ELSE None]
  <1>2. ASSUME NEW v \in good
        PROVE  /\ v \in Vendors /\ pick[v] \in OnFile(n, v) /\ keys[pick[v]][v].status = "active"
               /\ BindingOf(pick[v], v) \in Binding
               /\ BindingOf(pick[v], v).key = keys[pick[v]][v].key
               /\ BindingOf(pick[v], v).name = n
    <2>1. v \in Vendors /\ pick[v] # None /\ keys[pick[v]][v].status = "active"
      OBVIOUS
    <2>2. pick[v] \in OnFile(n, v)
      BY <1>1, <2>1
    <2>3. pick[v] \in Names /\ keys[pick[v]][v] \in Row
      BY <2>1, <2>2 DEF OnFile, TypeOK
    <2>4. n \in Names /\ IF keys[pick[v]][v].eng = None THEN pick[v] = n
                           ELSE name[keys[pick[v]][v].eng] = n
      <3>1. n \in Names
        BY CallShape DEF ResolveKeys
      <3> QED
        BY <2>2, <3>1, EngagementIsOne DEF OnFile, Matches
    <2>5. BindingOf(pick[v], v) \in Binding
      BY <2>3, <2>4 DEF BindingOf, Binding, Row
    <2> QED
      BY <2>1, <2>2, <2>4, <2>5 DEF BindingOf
  <1>3. own \in [Vendors -> Binding \cup {None}]
    BY <1>2
  <1>4. ASSUME NEW v \in Vendors, own[v] # None
        PROVE  \E f \in OnFile(n, v) : /\ keys[f][v].status = "active" /\ own[v].key = keys[f][v].key
                                        /\ own[v].name = n
    BY <1>2, <1>4
  <1>5. ASSUME found(pick) # {}, "lookup" \notin Faults
        PROVE  (\E v \in Vendors : own[v] # None) \/ found(pick) \ (threw \cup good) # {}
    <2>1. threw = {}
      BY <1>1, <1>5
    <2>2. PICK v \in Vendors : v \in found(pick)
      BY <1>5
    <2>3. CASE v \in good
      <3>1. own[v] = BindingOf(pick[v], v)
        BY <2>3
      <3> QED
        BY <1>2, <2>3, <3>1, NoneIsNoRecord
    <2> QED
      BY <2>1, <2>2, <2>3
  <1>6. found(pick) \ (threw \cup good) \in SUBSET Vendors /\ (found(pick) # {}) \in BOOLEAN
    OBVIOUS
  <1> DEFINE unusable == found(pick) \ (threw \cup good)
             onFile == found(pick) # {}
  <1>7. /\ call' = [call EXCEPT ![k] =
              [phase |-> "planning", of |-> call[k].of, name |-> call[k].name,
               own |-> own, unusable |-> unusable, onFile |-> onFile,
               granted |-> FALSE, plan |-> <<>>, left |-> {}, tries |-> 0, asked |-> {}]]
        /\ onFile /\ "lookup" \notin Faults =>
             (\E v \in Vendors : own[v] # None) \/ unusable # {}
    BY <1>1, <1>5
  <1> HIDE DEF own, good, unusable, onFile, found, usable
  <1> QED
    BY <1>3, <1>4, <1>6, <1>7 DEF unusable, onFile, ResolvedTo

(* Every vendor's key builds an adapter. *)
LEMMA KeysBuildAdapters ==
  ASSUME NEW vs \in SUBSET Vendors, vs # {}
  PROVE  BuiltFrom(vs) # {}
  <1>1. PICK v \in vs : TRUE
    OBVIOUS
  <1>2. ByokAdapters[v] \in Seq(Adapters) /\ ByokAdapters[v] # <<>>
    BY KeysAssumption
  <1>3. 1 \in DOMAIN ByokAdapters[v]
    BY <1>2
  <1>4. ByokAdapters[v][1] \in Range(ByokAdapters[v])
    BY <1>3 DEF Range
  <1> QED
    BY <1>1, <1>4 DEF BuiltFrom

(* A client whose keys are on file and that has no grant is refused, or    *)
(* given a plan of which it tries only what one of its keys built.         *)
PlannedTo(k, granted, plan, left) ==
  /\ call' = [call EXCEPT ![k] =
       [call[k] EXCEPT !.phase = "trying", !.granted = granted, !.plan = plan, !.left = left]]
  /\ ~granted /\ (Own(call[k]) # {} \/ call[k].unusable # {}) =>
       \A i \in left : VendorsOwn(call[k], plan[i]) # {}

LEMMA PlanGives ==
  ASSUME TypeOK, NEW k \in Calls, PlanCall(k)
  PROVE  \/ call' = [call EXCEPT ![k] = Idle]
         \/ \E granted \in BOOLEAN, plan \in Plans, left \in SUBSET Positions :
              PlannedTo(k, granted, plan, left)
  <1> DEFINE s == call[k]
             built == BuiltFrom(Own(s))
             granted == (Own(s) # {} \/ s.unusable # {}) /\ Granted(s.name)
             left(plan) == {i \in Confined(plan, built, granted) : Usable(s, plan[i])}
  <1>1. PICK chain \in Chains, prefer \in Vendors \cup {None} :
          call' = [call EXCEPT ![k] =
             IF Own(s) = {} /\ s.unusable # {} /\ ~granted THEN Idle
             ELSE [s EXCEPT !.phase = "trying", !.granted = granted,
                            !.plan = Plan(chain, prefer, Own(s)),
                            !.left = left(Plan(chain, prefer, Own(s)))]]
    BY DEF PlanCall
  <1> DEFINE plan == Plan(chain, prefer, Own(s))
  <1>2. Own(s) \in SUBSET Vendors
    BY DEF Own
  <1>3. plan \in Plans /\ left(plan) \in SUBSET Positions
    BY <1>2, ConfinedPositions
  <1>4. CASE Own(s) = {} /\ s.unusable # {} /\ ~granted
    BY <1>1, <1>4
  <1>5. CASE ~(Own(s) = {} /\ s.unusable # {} /\ ~granted)
    <2>1. ASSUME ~granted, Own(s) # {} \/ s.unusable # {}, NEW i \in left(plan)
          PROVE  VendorsOwn(s, plan[i]) # {}
      <3>1. Own(s) # {}
        BY <1>5, <2>1
      <3>2. built # {}
        BY <1>2, <3>1, KeysBuildAdapters
      <3>3. plan[i] \in built
        BY <2>1, <3>2 DEF Confined
      <3> QED
        BY <3>3 DEF BuiltFrom, VendorsOwn
    <2>2. call' = [call EXCEPT ![k] =
             [s EXCEPT !.phase = "trying", !.granted = granted, !.plan = plan, !.left = left(plan)]]
      BY <1>1, <1>5
    <2>3. granted \in BOOLEAN
      OBVIOUS
    <2> DEFINE open == left(plan)
    <2>4. open \in SUBSET Positions /\ PlannedTo(k, granted, plan, open)
      BY <1>3, <2>1, <2>2 DEF PlannedTo
    <2> HIDE DEF plan, granted, open
    <2> QED
      BY <1>3, <2>3, <2>4 DEF plan
  <1> QED
    BY <1>4, <1>5

(* An attempt spends the firm's credential or a key the call holds, and a  *)
(* refusal is reported under the name that key's row is filed under.       *)
LEMMA TryGives ==
  ASSUME TypeOK, NEW k \in Calls, NEW out, Try(k, out)
  PROVE  \E s \in PlannedCall :
           /\ call' = [call EXCEPT ![k] = s]
           /\ s.phase = "trying" /\ s.of = call[k].of /\ s.name = call[k].name
           /\ s.own = call[k].own /\ s.onFile = call[k].onFile
           /\ s.granted = call[k].granted /\ s.plan = call[k].plan
           /\ s.left \subseteq call[k].left
           /\ \/ /\ s.asked = call[k].asked \cup {"firm"}
                 /\ \E i \in call[k].left : VendorsOwn(call[k], call[k].plan[i]) = {}
              \/ \E v \in Own(call[k]) : s.asked = call[k].asked \cup {call[k].own[v].key}
           /\ \/ reports' = reports /\ off' = off
              \/ \E v \in Own(call[k]) :
                   LET own == call[k].own[v] IN
                   /\ Filed(own)
                   /\ reports' = reports \cup {[name |-> own.name, vendor |-> v, key |-> own.key]}
                   /\ off' = off \cup {[key |-> own.key, why |-> "failed"]}
  <1> DEFINE s == call[k]
             mine(i) == VendorsOwn(s, s.plan[i])
             v(i) == CHOOSE x \in mine(i) : TRUE
             t(i) == [s EXCEPT !.asked = @ \cup {IF mine(i) = {} THEN "firm" ELSE s.own[v(i)].key}]
  <1>1. PICK i \in s.left :
          /\ out = "refused" => mine(i) # {} /\ Filed(s.own[v(i)])
          /\ call' = [call EXCEPT ![k] =
               CASE out = "ok" -> [t(i) EXCEPT !.left = {}]
                 [] out = "refused" -> Remaining(t(i), i, {v(i)})
                 [] out = "busy" /\ Again(s) -> [t(i) EXCEPT !.tries = @ + 1]
                 [] OTHER -> Remaining(t(i), i, {})]
          /\ IF out = "refused"
               THEN /\ reports' = reports \cup
                          {[name |-> s.own[v(i)].name, vendor |-> v(i), key |-> s.own[v(i)].key]}
                    /\ off' = off \cup {[key |-> s.own[v(i)].key, why |-> "failed"]}
               ELSE UNCHANGED <<reports, off>>
    BY DEF Try
  <1>2. s \in PlannedCall /\ s.phase = "trying"
    BY CallShape DEF Try, Planned
  <1> DEFINE spent == IF mine(i) = {} THEN "firm" ELSE s.own[v(i)].key
  <1>3. mine(i) # {} => v(i) \in Own(s)
    BY DEF VendorsOwn
  <1>4. spent \in Links \cup {"firm"}
    BY <1>2, <1>3 DEF Own, PlannedCall, Binding
  <1>5. t(i) \in PlannedCall
    BY <1>2, <1>4 DEF PlannedCall
  <1> DEFINE After(u) ==
               /\ u \in PlannedCall
               /\ u.phase = "trying" /\ u.of = s.of /\ u.name = s.name /\ u.own = s.own
               /\ u.onFile = s.onFile /\ u.granted = s.granted /\ u.plan = s.plan
               /\ u.left \subseteq s.left /\ u.asked = s.asked \cup {spent}
  <1>6. After(t(i))
    BY <1>2, <1>5 DEF PlannedCall
  <1>7. After([t(i) EXCEPT !.left = {}])
    BY <1>5, <1>6 DEF PlannedCall
  <1>8. ASSUME NEW R PROVE After(Remaining(t(i), i, R))
    <2> DEFINE r == Remaining(t(i), i, R)
    <2>1. /\ r \in PlannedCall /\ r.left \subseteq t(i).left
          /\ r.phase = t(i).phase /\ r.of = t(i).of /\ r.name = t(i).name /\ r.own = t(i).own
          /\ r.onFile = t(i).onFile /\ r.granted = t(i).granted /\ r.plan = t(i).plan
          /\ r.asked = t(i).asked
      <3> HIDE DEF t
      <3> QED
        BY <1>5, RemainingFields
    <2>2. After(r)
      <3> HIDE DEF r, t
      <3> QED
        BY <1>6, <2>1
    <2> QED
      BY <2>2
  <1>9. Again(s) => After([t(i) EXCEPT !.tries = @ + 1])
    <2>1. Again(s) => s.tries + 1 \in 0 .. (MaxAttempts - 1)
      BY <1>2, KeysAssumption DEF Again, PlannedCall
    <2>2. t(i).tries = s.tries
      BY <1>2 DEF PlannedCall
    <2> QED
      BY <1>5, <1>6, <2>1, <2>2 DEF PlannedCall
  <1>10. \E u : After(u) /\ call' = [call EXCEPT ![k] = u]
    <2> HIDE DEF After, t, v, mine
    <2> QED
      BY <1>1, <1>7, <1>8, <1>9
  <1>11. \/ spent = "firm" /\ mine(i) = {}
         \/ \E w \in Own(s) : spent = s.own[w].key
    BY <1>3
  <1>12. \/ reports' = reports /\ off' = off
         \/ \E w \in Own(s) :
              /\ Filed(s.own[w])
              /\ reports' = reports \cup {[name |-> s.own[w].name, vendor |-> w, key |-> s.own[w].key]}
              /\ off' = off \cup {[key |-> s.own[w].key, why |-> "failed"]}
    BY <1>1, <1>3
  <1> HIDE DEF mine, spent
  <1> QED
    BY <1>10, <1>11, <1>12 DEF mine

--------------------------------------------------------------------------------
(* What is filed, sent or held stays what it is. *)

LEMMA CallStepType ==
  ASSUME TypeOK, NEW k \in Calls, NEW s \in CallState, call' = [call EXCEPT ![k] = s]
  PROVE  call' \in [Calls -> CallState]
  BY DEF TypeOK

LEMMA DeactivatedType ==
  ASSUME TypeOK, NEW n \in Names, NEW v \in Vendors, NEW why \in {"failed", "disabled"}
  PROVE  Deactivated(n, v, why) \in [Names -> [Vendors -> Row \cup {None}]]
  <1>1. keys[n][v] # None => [keys[n][v] EXCEPT !.status = why] \in Row
    BY DEF TypeOK, Row
  <1> QED
    BY <1>1 DEF Deactivated, TypeOK

LEMMA OrphanedFields ==
  ASSUME TypeOK, NEW f \in Names, NEW v \in Vendors, keys[f][v] # None, NEW c
  PROVE  /\ Orphaned(f, v, c) \in Row
         /\ Orphaned(f, v, c).key = keys[f][v].key
         /\ Orphaned(f, v, c).eng = IF keys[f][v].eng = c THEN None ELSE keys[f][v].eng
         /\ Orphaned(f, v, c).status =
              IF f = name[c] /\ keys[f][v].status = "active" THEN "disabled" ELSE keys[f][v].status
  <1> DEFINE eng == IF keys[f][v].eng = c THEN None ELSE keys[f][v].eng
             status == IF f = name[c] /\ keys[f][v].status = "active" THEN "disabled" ELSE keys[f][v].status
  <1>0. keys[f][v] \in Row
    BY DEF TypeOK
  <1>1. eng \in ClientOrNone /\ status \in {"active", "failed", "disabled"}
    BY <1>0 DEF Row, ClientOrNone
  <1>2. Orphaned(f, v, c) = [keys[f][v] EXCEPT !.eng = eng, !.status = status]
    BY DEF Orphaned
  <1> HIDE DEF eng, status
  <1>3. /\ Orphaned(f, v, c) \in Row
        /\ Orphaned(f, v, c).key = keys[f][v].key
        /\ Orphaned(f, v, c).eng = eng
        /\ Orphaned(f, v, c).status = status
    BY <1>0, <1>1, <1>2 DEF Row
  <1> QED
    BY <1>3 DEF eng, status

LEMMA TypeStep ==
  ASSUME TypeOK, [Next]_vars
  PROVE  TypeOK'
  <1>1. ASSUME NEW k \in Calls, NEW n \in Names, StartCall(k, n) PROVE TypeOK'
    <2>1. [phase |-> "resolving", of |-> bore[n], name |-> n] \in CallState
      BY <1>1 DEF StartCall, CallState, ClientOrNone, TypeOK
    <2> QED
      BY <1>1, <2>1, CallStepType DEF StartCall, TypeOK
  <1>2. ASSUME NEW k \in Calls, ResolveKeys(k) PROVE TypeOK'
    <2>1. PICK own \in [Vendors -> Binding \cup {None}], unusable \in SUBSET Vendors, onFile \in BOOLEAN :
            ResolvedTo(k, own, unusable, onFile)
      BY <1>2, ResolveGives
    <2>2. call[k].of \in Clients /\ call[k].name \in Names
      BY <1>2, CallShape DEF ResolveKeys
    <2>3. 0 \in 0 .. (MaxAttempts - 1)
      BY KeysAssumption
    <2>4. [phase |-> "planning", of |-> call[k].of, name |-> call[k].name,
           own |-> own, unusable |-> unusable, onFile |-> onFile,
           granted |-> FALSE, plan |-> <<>>, left |-> {}, tries |-> 0, asked |-> {}] \in PlannedCall
      BY <2>2, <2>3 DEF PlannedCall
    <2> QED
      BY <1>2, <2>1, <2>4, CallStepType DEF ResolvedTo, ResolveKeys, CallState, TypeOK
  <1>3. ASSUME NEW k \in Calls, PlanCall(k) PROVE TypeOK'
    <2>1. call[k] \in PlannedCall
      BY <1>3, CallShape DEF PlanCall, Planned
    <2>2. \E s \in CallState : call' = [call EXCEPT ![k] = s]
      <3>1. CASE call' = [call EXCEPT ![k] = Idle]
        BY <3>1 DEF CallState
      <3>2. ASSUME NEW granted \in BOOLEAN, NEW plan \in Plans, NEW left \in SUBSET Positions
            PROVE  [call[k] EXCEPT !.phase = "trying", !.granted = granted, !.plan = plan,
                                   !.left = left] \in PlannedCall
        BY <2>1 DEF PlannedCall
      <3> QED
        BY <1>3, <3>1, <3>2, PlanGives DEF PlannedTo, CallState
    <2> QED
      BY <1>3, <2>2, CallStepType DEF PlanCall, TypeOK
  <1>4. ASSUME NEW k \in Calls, NEW out, Try(k, out) PROVE TypeOK'
    <2>1. call[k] \in PlannedCall
      BY <1>4, CallShape DEF Try, Planned
    <2>2. call' \in [Calls -> CallState]
      BY <1>4, TryGives, CallStepType DEF CallState
    <2>3. ASSUME NEW v \in Own(call[k])
          PROVE  v \in Vendors /\ call[k].own[v] \in Binding
      BY <2>1 DEF Own, PlannedCall
    <2>4. /\ reports' \in SUBSET [name : Names, vendor : Vendors, key : Links]
          /\ off' \subseteq Off
      <3>1. CASE reports' = reports /\ off' = off
        BY <3>1 DEF TypeOK
      <3>2. ASSUME NEW v \in Own(call[k]),
                   reports' = reports \cup
                     {[name |-> call[k].own[v].name, vendor |-> v, key |-> call[k].own[v].key]},
                   off' = off \cup {[key |-> call[k].own[v].key, why |-> "failed"]}
            PROVE  <2>4!2 /\ <2>4!1
        BY <2>3, <3>2 DEF Binding, Off, TypeOK
      <3> QED
        BY <1>4, <3>1, <3>2, TryGives
    <2> QED
      BY <1>4, <2>2, <2>4 DEF Try, TypeOK
  <1>5. ASSUME NEW k \in Calls, Answer(k) PROVE TypeOK'
    BY <1>5, CallStepType DEF Answer, CallState, TypeOK
  <1>6. ASSUME NEW r \in reports, HandleReport(r) PROVE TypeOK'
    BY <1>6, DeactivatedType DEF HandleReport, TypeOK
  <1>7. ASSUME NEW c \in Clients, NEW n \in Names, Rename(c, n) PROVE TypeOK'
    BY <1>7 DEF Rename, ClientOrNone, TypeOK
  <1>8. ASSUME NEW c \in Clients, Delete(c) PROVE TypeOK'
    <2>1. keys' \in [Names -> [Vendors -> Row \cup {None}]]
      <3>1. ASSUME NEW f \in Names, NEW v \in Vendors, keys[f][v] # None
            PROVE  Orphaned(f, v, c) \in Row
        BY <3>1, OrphanedFields
      <3> QED
        BY <1>8, <3>1 DEF Delete
    <2> QED
      BY <1>8, <2>1 DEF Delete, ClientOrNone, TypeOK
  <1>9. ASSUME NEW n \in Names, Grant(n) PROVE TypeOK'
    <2>1. (IF EngagementOf(n) # None THEN EngagementOf(n)
            ELSE IF grants[n] = None THEN "unbound" ELSE grants[n]) \in ClientOrNone \cup {"unbound"}
      BY EngagementIsOne DEF TypeOK
    <2> QED
      BY <1>9, <2>1 DEF Grant, TypeOK
  <1>10. ASSUME NEW n \in Names, RevokeGrant(n) PROVE TypeOK'
    BY <1>10 DEF RevokeGrant, ClientOrNone, TypeOK
  <1>11. ASSUME NEW n \in Names, NEW v \in Vendors, NEW l \in Links, Invite(l, n, v) PROVE TypeOK'
    <2>1. bore[n] \in Clients
      BY <1>11 DEF Invite, Known, TypeOK, ClientOrNone
    <2> QED
      BY <1>11, <2>1 DEF Invite, Link, TypeOK
  <1>12. ASSUME NEW n \in Names, NEW v \in Vendors, Disable(n, v) PROVE TypeOK'
    <2>1. {[key |-> keys[f][v].key, why |-> "disabled"] : f \in Seen(n, v)} \subseteq Off
      BY DEF Seen, Row, Off, TypeOK
    <2> QED
      BY <1>12, <2>1, DeactivatedType DEF Disable, TypeOK
  <1>13. ASSUME NEW n \in Names, NEW v \in Vendors, Enable(n, v) PROVE TypeOK'
    <2>1. ASSUME NEW f \in Seen(n, v)
          PROVE  [keys[f] EXCEPT ![v].status = "active"] \in [Vendors -> Row \cup {None}]
      BY DEF Seen, Row, TypeOK
    <2>2. keys' \in [Names -> [Vendors -> Row \cup {None}]]
      BY <1>13, <2>1 DEF Enable, TypeOK
    <2> QED
      BY <1>13, <2>2 DEF Enable, TypeOK
  <1>14. ASSUME NEW l \in Links, RevokeInvite(l) PROVE TypeOK'
    BY <1>14 DEF RevokeInvite, TypeOK
  <1>15. ASSUME NEW l \in Links, Redeem(l) PROVE TypeOK'
    <2>1. links[l] \in Link
      BY <1>15 DEF Redeem, TypeOK
    <2>2. Attached(l) \in Row
      BY <2>1, EngagementIsOne DEF Attached, Row, Link, ClientOrNone, TypeOK
    <2>3. [links[l] EXCEPT !.state = "used"] \in Link
      BY <2>1 DEF Link
    <2> QED
      BY <1>15, <2>1, <2>2, <2>3 DEF Redeem, Link, TypeOK
  <1>16. CASE UNCHANGED vars
    BY <1>16 DEF vars, TypeOK
  <1> QED
    BY <1>1, <1>2, <1>3, <1>4, <1>5, <1>6, <1>7, <1>8, <1>9, <1>10, <1>11, <1>12, <1>13, <1>14,
       <1>15, <1>16 DEF Next

(* Every handler keeps the shape of rows, grants, links and calls.         *)
THEOREM KeysTypeCorrect == Spec => []TypeOK
  <1>1. Init => TypeOK
    BY KeysAssumption DEF Init, TypeOK, CallState, ClientOrNone
  <1>2. TypeOK /\ [Next]_vars => TypeOK'
    BY TypeStep
  <1> QED
    BY <1>1, <1>2, PTL DEF Spec

--------------------------------------------------------------------------------
(* The firm's credential *)

(* A call is started, resolves, plans, tries and answers; nothing else     *)
(* touches it.                                                             *)
CallActs(k) ==
  \/ \E n \in Names : StartCall(k, n)
  \/ ResolveKeys(k) \/ PlanCall(k) \/ Answer(k)
  \/ \E out \in {"ok", "refused", "busy", "error"} : Try(k, out)

LEMMA OnlyCallsAct ==
  ASSUME [Next]_vars
  PROVE  (\E k \in Calls : CallActs(k)) \/ UNCHANGED call
  BY DEF Next, vars, CallActs, HandleReport, Rename, Delete, Grant, RevokeGrant, Invite, Disable,
         Enable, RevokeInvite, Redeem

LEMMA OthersCallUntouched ==
  ASSUME TypeOK, NEW k \in Calls, NEW s, call' = [call EXCEPT ![k] = s]
  PROVE  call'[k] = s /\ \A j \in Calls \ {k} : call'[j] = call[j]
  BY DEF TypeOK

(* What PayerKnown says of one call. *)
PayerOK(s) ==
  /\ s.phase = "planning" =>
       /\ s.onFile => Own(s) # {} \/ s.unusable # {}
       /\ s.asked = {}
  /\ s.phase = "trying" /\ s.onFile /\ ~s.granted =>
       /\ "firm" \notin s.asked
       /\ \A i \in s.left : VendorsOwn(s, s.plan[i]) # {}

LEMMA PayerStep ==
  ASSUME TypeOK, PayerKnown, [Next]_vars, "lookup" \notin Faults
  PROVE  PayerKnown'
  <1>1. ASSUME NEW k \in Calls, NEW s, call' = [call EXCEPT ![k] = s], PayerOK(s)
        PROVE  PayerKnown'
    <2>1. \A j \in Calls : PayerOK(call'[j])
      <3>1. \A j \in Calls : PayerOK(call[j])
        BY DEF PayerKnown, PayerOK
      <3> QED
        BY <1>1, <3>1, OthersCallUntouched
    <2> QED
      BY <2>1 DEF PayerKnown, PayerOK, Own, VendorsOwn
  <1>2. ASSUME NEW k \in Calls, NEW n \in Names, StartCall(k, n) PROVE PayerKnown'
    BY <1>1, <1>2 DEF StartCall, PayerOK
  <1>3. ASSUME NEW k \in Calls, ResolveKeys(k) PROVE PayerKnown'
    <2>1. PICK own \in [Vendors -> Binding \cup {None}], unusable \in SUBSET Vendors, onFile \in BOOLEAN :
            ResolvedTo(k, own, unusable, onFile)
      BY <1>3, ResolveGives
    <2> DEFINE s == [phase |-> "planning", of |-> call[k].of, name |-> call[k].name,
                     own |-> own, unusable |-> unusable, onFile |-> onFile,
                     granted |-> FALSE, plan |-> <<>>, left |-> {}, tries |-> 0, asked |-> {}]
    <2>2. PayerOK(s)
      BY <2>1 DEF ResolvedTo, PayerOK, Own
    <2> QED
      BY <1>1, <2>1, <2>2 DEF ResolvedTo
  <1>4. ASSUME NEW k \in Calls, PlanCall(k) PROVE PayerKnown'
    <2>1. CASE call' = [call EXCEPT ![k] = Idle]
      BY <1>1, <2>1 DEF PayerOK, Idle
    <2>2. ASSUME NEW granted \in BOOLEAN, NEW plan \in Plans, NEW left \in SUBSET Positions,
                 PlannedTo(k, granted, plan, left)
          PROVE  PayerKnown'
      <3> DEFINE s == [call[k] EXCEPT !.phase = "trying", !.granted = granted, !.plan = plan,
                                      !.left = left]
      <3>1. call[k] \in PlannedCall /\ call[k].phase = "planning"
        BY <1>4, CallShape DEF PlanCall, Planned
      <3>2. /\ s.phase = "trying" /\ s.onFile = call[k].onFile /\ s.granted = granted
            /\ s.plan = plan /\ s.left = left /\ s.asked = call[k].asked /\ s.own = call[k].own
        BY <3>1 DEF PlannedCall
      <3>3. Own(s) = Own(call[k]) /\ \A a : VendorsOwn(s, a) = VendorsOwn(call[k], a)
        BY <3>2 DEF Own, VendorsOwn
      <3>4. PayerOK(s)
        BY <2>2, <3>1, <3>2, <3>3 DEF PlannedTo, PayerKnown, PayerOK
      <3> QED
        BY <1>1, <2>2, <3>4 DEF PlannedTo
    <2> QED
      BY <1>4, <2>1, <2>2, PlanGives
  <1>5. ASSUME NEW k \in Calls, NEW out, Try(k, out) PROVE PayerKnown'
    <2>1. PICK s \in PlannedCall :
           /\ call' = [call EXCEPT ![k] = s]
           /\ s.phase = "trying" /\ s.own = call[k].own /\ s.onFile = call[k].onFile
           /\ s.granted = call[k].granted /\ s.plan = call[k].plan
           /\ s.left \subseteq call[k].left
           /\ \/ /\ s.asked = call[k].asked \cup {"firm"}
                 /\ \E i \in call[k].left : VendorsOwn(call[k], call[k].plan[i]) = {}
              \/ \E v \in Own(call[k]) : s.asked = call[k].asked \cup {call[k].own[v].key}
      BY <1>5, TryGives
    <2>2. call[k].phase = "trying" /\ call[k] \in PlannedCall
      BY <1>5, CallShape DEF Try, Planned
    <2>3. \A a : VendorsOwn(s, a) = VendorsOwn(call[k], a)
      BY <2>1 DEF Own, VendorsOwn
    <2>4. \A v \in Own(call[k]) : call[k].own[v].key # "firm"
      BY <2>2, KeysAssumption DEF Own, PlannedCall, Binding
    <2>5. PayerOK(s)
      BY <2>1, <2>2, <2>3, <2>4 DEF PayerKnown, PayerOK
    <2> QED
      BY <1>1, <2>1, <2>5
  <1>6. ASSUME NEW k \in Calls, Answer(k) PROVE PayerKnown'
    BY <1>1, <1>6 DEF Answer, PayerOK, Idle
  <1>7. CASE UNCHANGED call
    BY <1>7 DEF PayerKnown, Own, VendorsOwn
  <1> QED
    BY <1>2, <1>3, <1>4, <1>5, <1>6, <1>7, OnlyCallsAct DEF CallActs

(* Where every key can be looked up, the firm's credential is spent on a   *)
(* client with a key on file only under a grant: whatever the policy, the  *)
(* client's preference, the refusals and the number of calls.              *)
THEOREM FirmPaysUnderGrant ==
  "lookup" \notin Faults => (Spec => []FirmPaysOnlyUnderGrant)
  <1> SUFFICES ASSUME "lookup" \notin Faults PROVE Spec => []FirmPaysOnlyUnderGrant
    OBVIOUS
  <1>1. Init => TypeOK /\ PayerKnown
    BY KeysAssumption
       DEF Init, PayerKnown, TypeOK, CallState, ClientOrNone, Idle
  <1>2. TypeOK /\ PayerKnown /\ [Next]_vars
          => (TypeOK /\ PayerKnown)'
    BY TypeStep, PayerStep
  <1>3. PayerKnown => FirmPaysOnlyUnderGrant
    BY DEF PayerKnown, FirmPaysOnlyUnderGrant, Trying
  <1> QED
    BY <1>1, <1>2, <1>3, PTL DEF Spec

--------------------------------------------------------------------------------
(* Whose key, and under which name *)

LEMMA BearerIsEngagement ==
  ASSUME NamesAreBorne, NEW c \in Clients, name[c] # None
  PROVE  EngagementOf(name[c]) = c
  <1>1. \A d \in Clients : name[d] = name[c] => d = c
    BY DEF NamesAreBorne
  <1> QED
    BY <1>1 DEF EngagementOf

(* What is on file for a client is bound to it.                            *)
LEMMA RowsOfAClient ==
  ASSUME NamesAreBorne, BornNamesAreBound, NEW c \in Clients, name[c] \in Names,
         NEW f \in Names, NEW v \in Vendors, keys[f][v] # None, keys[f][v].status # "disabled"
  PROVE  Matches(keys[f][v].eng, f, name[c]) <=> keys[f][v].eng = c
  <1>1. EngagementOf(name[c]) = c
    BY BearerIsEngagement, KeysAssumption
  <1>2. f = name[c] => keys[f][v].eng # None
    BY DEF BornNamesAreBound, Borne
  <1> QED
    BY <1>1, <1>2, KeysAssumption DEF Matches

LEMMA GrantsOfAClient ==
  ASSUME NamesAreBorne, BornNamesAreBound, NEW c \in Clients, name[c] \in Names
  PROVE  Granted(name[c]) <=> \E f \in Names : grants[f] = c
  <1>1. EngagementOf(name[c]) = c
    BY BearerIsEngagement, KeysAssumption
  <1>2. grants[name[c]] # "unbound"
    BY DEF BornNamesAreBound, Borne
  <1> QED
    BY <1>1, <1>2, KeysAssumption DEF Granted, Bound, Matches

(* A client's name has it as its engagement, and a name with none is not borne. *)
LEMMA BorneHasEngagement ==
  ASSUME NEW n \in Names
  PROVE  Borne(n) <=> EngagementOf(n) # None
  BY EngagementIsOne, KeysAssumption DEF Borne, ClientOrNone

(* A link that was used is neither revoked nor used again.                 *)
LEMMA UsedStays ==
  ASSUME TypeOK, [Next]_vars, NEW l \in Links, Used(l)
  PROVE  links'[l] = links[l]
  BY DEF Used, TypeOK, Next, vars, StartCall, ResolveKeys, PlanCall, Try, Answer, HandleReport,
         Rename, Delete, Grant, RevokeGrant, Invite, Disable, Enable, RevokeInvite, Redeem

(* No name changes hands while a call reads it.                            *)
LEMMA NamesStep ==
  ASSUME TypeOK, NamesAreBorne, [Next]_vars, "reuse" \notin Faults
  PROVE  NamesAreBorne'
  <1>1. ASSUME NEW c \in Clients, NEW n \in Names, Rename(c, n) PROVE NamesAreBorne'
    <2>1. name' = [name EXCEPT ![c] = n] /\ bore' = [bore EXCEPT ![n] = c] /\ call' = call
      BY <1>1 DEF Rename
    <2>2. \A d \in Clients : name[d] # n
      BY <1>1, EngagementIsOne DEF Rename, NamesAreBorne
    <2>3. \A k \in Calls : call[k].phase # "idle" /\ call[k].name = n => call[k].of = c
      <3>1. ASSUME NEW k \in Calls, call[k].phase # "idle", call[k].name = n
            PROVE  call[k].of = c
        <4>1. bore[n] = call[k].of /\ call[k].of \in Clients /\ call[k] # Idle
          BY <3>1, CallShape DEF NamesAreBorne
        <4>2. bore[n] \in {None, c}
          BY <1>1, <3>1, <4>1 DEF Rename, MayBear, Unread
        <4> QED
          BY <4>1, <4>2, KeysAssumption
      <3> QED
        BY <3>1
    <2>4. \A d \in Clients : name'[d] # None => bore'[name'[d]] = d
      BY <2>1, <2>2 DEF NamesAreBorne, TypeOK
    <2>5. \A k \in Calls : call'[k].phase # "idle" => bore'[call'[k].name] = call'[k].of
      BY <2>1, <2>3, CallShape DEF NamesAreBorne, TypeOK
    <2> QED
      BY <2>4, <2>5 DEF NamesAreBorne
  <1>2. ASSUME NEW c \in Clients, Delete(c) PROVE NamesAreBorne'
    BY <1>2 DEF Delete, NamesAreBorne, TypeOK
  <1>3. ASSUME NEW k \in Calls, NEW s, call' = [call EXCEPT ![k] = s], UNCHANGED <<name, bore>>,
               s.phase = "idle" \/ bore[s.name] = s.of
        PROVE  NamesAreBorne'
    BY <1>3, OthersCallUntouched DEF NamesAreBorne
  <1>4. ASSUME NEW k \in Calls, CallActs(k) PROVE NamesAreBorne'
    <2>1. ASSUME NEW n \in Names, StartCall(k, n) PROVE NamesAreBorne'
      BY <1>3, <2>1 DEF StartCall, NamesAreBorne
    <2>2. CASE ResolveKeys(k)
      <3>1. bore[call[k].name] = call[k].of
        BY <2>2 DEF ResolveKeys, NamesAreBorne
      <3> QED
        BY <1>3, <2>2, <3>1, ResolveGives DEF ResolvedTo, ResolveKeys
    <2>3. CASE PlanCall(k)
      <3>1. bore[call[k].name] = call[k].of /\ call[k] \in PlannedCall
        BY <2>3, CallShape DEF PlanCall, NamesAreBorne, Planned
      <3>2. UNCHANGED <<name, bore>>
        BY <2>3 DEF PlanCall
      <3>3. CASE call' = [call EXCEPT ![k] = Idle]
        BY <1>3, <3>2, <3>3 DEF Idle
      <3>4. ASSUME NEW granted \in BOOLEAN, NEW plan \in Plans, NEW left \in SUBSET Positions,
                   PlannedTo(k, granted, plan, left)
            PROVE  NamesAreBorne'
        <4> DEFINE s == [call[k] EXCEPT !.phase = "trying", !.granted = granted, !.plan = plan,
                                        !.left = left]
        <4>1. s.name = call[k].name /\ s.of = call[k].of
          BY <3>1 DEF PlannedCall
        <4> QED
          BY <1>3, <3>1, <3>2, <3>4, <4>1 DEF PlannedTo
      <3> QED
        BY <2>3, <3>3, <3>4, PlanGives
    <2>4. ASSUME NEW out, Try(k, out) PROVE NamesAreBorne'
      <3>1. PICK s \in PlannedCall :
              call' = [call EXCEPT ![k] = s] /\ s.of = call[k].of /\ s.name = call[k].name
        BY <2>4, TryGives
      <3>2. bore[call[k].name] = call[k].of /\ UNCHANGED <<name, bore>>
        BY <2>4 DEF Try, NamesAreBorne
      <3> QED
        BY <1>3, <3>1, <3>2
    <2>5. CASE Answer(k)
      BY <1>3, <2>5 DEF Answer, Idle
    <2> QED
      BY <1>4, <2>1, <2>2, <2>3, <2>4, <2>5 DEF CallActs
  <1>5. CASE UNCHANGED <<name, bore, call>>
    BY <1>5 DEF NamesAreBorne
  <1> QED
    <2>1. \/ \E c \in Clients : Delete(c) \/ \E n \in Names : Rename(c, n)
          \/ \E k \in Calls : CallActs(k)
          \/ UNCHANGED <<name, bore, call>>
      BY DEF Next, vars, CallActs, HandleReport, Grant, RevokeGrant, Invite, Disable, Enable,
             RevokeInvite, Redeem
    <2> QED
      BY <1>1, <1>2, <1>4, <1>5, <2>1

LEMMA RowFields ==
  ASSUME TypeOK, RowsFollowTheirLink, NEW n \in Names, NEW v \in Vendors, keys[n][v] # None
  PROVE  /\ keys[n][v] \in Row /\ keys[n][v].key \in Links
         /\ Used(keys[n][v].key) /\ links[keys[n][v].key] \in Link
         /\ links[keys[n][v].key].name = n /\ links[keys[n][v].key].vendor = v
  BY DEF TypeOK, Row, RowsFollowTheirLink, RowFollows, Used

(* A key is in one row.                                                    *)
LEMMA OneRowPerKey ==
  ASSUME RowsFollowTheirLink, NEW n \in Names, NEW v \in Vendors, NEW m \in Names, NEW w \in Vendors,
         keys[n][v] # None, keys[m][w] # None, keys[n][v].key = keys[m][w].key
  PROVE  n = m /\ v = w
  BY DEF RowsFollowTheirLink, RowFollows

(* Switching a row off leaves the rest of it, and switches it off.         *)
LEMMA DeactivatedFields ==
  ASSUME TypeOK, NEW n \in Names, NEW v \in Vendors, NEW why \in {"failed", "disabled"},
         NEW m \in Names, NEW w \in Vendors
  PROVE  LET row == Deactivated(n, v, why)[m][w]
         IN  /\ row # None <=> keys[m][w] # None
             /\ keys[m][w] # None => row.key = keys[m][w].key /\ row.eng = keys[m][w].eng
             /\ keys[m][w] # None => row.status \in {keys[m][w].status, why}
             /\ m = n /\ w = v /\ keys[m][w] # None => row.status = why
             /\ ~(m = n /\ w = v) => row = keys[m][w]
  <1>1. keys[n][v] # None =>
          /\ [keys[n][v] EXCEPT !.status = why] \in Row
          /\ [keys[n][v] EXCEPT !.status = why].key = keys[n][v].key
          /\ [keys[n][v] EXCEPT !.status = why].eng = keys[n][v].eng
          /\ [keys[n][v] EXCEPT !.status = why].status = why
    BY DEF TypeOK, Row
  <1>2. Deactivated(n, v, why)[m][w] =
          IF m = n /\ w = v /\ keys[n][v] # None THEN [keys[n][v] EXCEPT !.status = why] ELSE keys[m][w]
    BY DEF Deactivated, TypeOK
  <1> QED
    BY <1>1, <1>2, NoneIsNoRecord

(* Rows keep to the client their key is from, also when it is renamed or   *)
(* deleted: one that is left unbound is switched off before another client *)
(* takes the name it waits under.                                          *)
LEMMA RowsStep ==
  ASSUME TypeOK, NamesAreBorne, RowsFollowTheirLink, ReportsStand, [Next]_vars, OnlyLookupsFail
  PROVE  RowsFollowTheirLink'
  <1> DEFINE owner(n, v) == links[keys[n][v].key].of
             Stays(n, v, eng, status) ==
               \/ eng = owner(n, v) /\ name'[owner(n, v)] # None
               \/ eng = None /\ (status = "disabled" \/ bore'[n] = owner(n, v))
             Goal == \A n \in Names, v \in Vendors :
                       keys'[n][v] # None =>
                         RowFollows(keys[n][v].key, keys[n][v].eng, keys[n][v].status, n, v)'
  <1>a. ASSUME NEW n \in Names, NEW v \in Vendors, keys[n][v] # None
        PROVE  /\ keys[n][v].key \in Links /\ owner(n, v) \in Clients /\ keys[n][v] \in Row
               /\ Used(keys[n][v].key) /\ links'[keys[n][v].key] = links[keys[n][v].key]
               /\ links[keys[n][v].key].name = n /\ links[keys[n][v].key].vendor = v
               /\ \/ keys[n][v].eng = owner(n, v) /\ name[owner(n, v)] # None
                  \/ keys[n][v].eng = None /\ (keys[n][v].status = "disabled" \/ bore[n] = owner(n, v))
    BY <1>a, RowFields, UsedStays DEF RowsFollowTheirLink, RowFollows, Link
  (* a row whose key stays, bound and switched as it may be *)
  <1>b. ASSUME NEW n \in Names, NEW v \in Vendors, keys[n][v] # None,
               NEW eng, NEW status, Stays(n, v, eng, status),
               keys'[n][v].key = keys[n][v].key, keys'[n][v].eng = eng, keys'[n][v].status = status
        PROVE  RowFollows(keys[n][v].key, keys[n][v].eng, keys[n][v].status, n, v)'
    BY <1>a, <1>b DEF RowFollows, Used
  <1>1. ASSUME NEW c \in Clients, NEW n \in Names, Rename(c, n) PROVE Goal
    <2>1. name' = [name EXCEPT ![c] = n] /\ bore' = [bore EXCEPT ![n] = c] /\ keys' = keys
      BY <1>1 DEF Rename
    <2>2. ASSUME NEW m \in Names, NEW v \in Vendors, keys[m][v] # None
          PROVE  Stays(m, v, keys[m][v].eng, keys[m][v].status)
      <3>1. owner(m, v) \in Clients
        BY <1>a, <2>2
      <3>2. name[owner(m, v)] # None => name'[owner(m, v)] # None
        BY <2>1, <3>1, KeysAssumption DEF TypeOK
      <3>3. CASE m = n
        <4>1. keys[m][v].eng = None => keys[m][v].status = "disabled"
          BY <1>1, <2>2, <3>3 DEF Rename, MayBear, Unowned, OnlyLookupsFail
        <4> QED
          BY <1>a, <2>2, <3>2, <4>1
      <3>4. CASE m # n
        <4>1. bore'[m] = bore[m]
          BY <2>1, <3>4 DEF TypeOK
        <4> QED
          BY <1>a, <2>2, <3>2, <4>1
      <3> QED
        BY <3>3, <3>4
    <2>3. ASSUME NEW m \in Names, NEW v \in Vendors, keys'[m][v] # None
          PROVE  RowFollows(keys[m][v].key, keys[m][v].eng, keys[m][v].status, m, v)'
      <3> HIDE DEF Stays
      <3> QED
        BY <1>b, <2>1, <2>2, <2>3
    <2> QED
      BY <2>3
  <1>2. ASSUME NEW c \in Clients, Delete(c) PROVE Goal
    <2>1. name' = [name EXCEPT ![c] = None] /\ bore' = bore
      BY <1>2 DEF Delete
    <2>2. ASSUME NEW n \in Names, NEW v \in Vendors, keys'[n][v] # None
          PROVE  /\ keys[n][v] # None
                 /\ keys'[n][v].key = keys[n][v].key
                 /\ keys'[n][v].eng = (IF keys[n][v].eng = c THEN None ELSE keys[n][v].eng)
                 /\ keys[n][v].status = "disabled" => keys'[n][v].status = "disabled"
      <3>1. keys'[n][v] = IF keys[n][v] = None THEN None ELSE Orphaned(n, v, c)
        BY <1>2 DEF Delete
      <3>2. keys[n][v] # None
        BY <2>2, <3>1
      <3> QED
        BY <3>1, <3>2, OrphanedFields
    <2>3. ASSUME NEW n \in Names, NEW v \in Vendors, keys[n][v] # None, keys[n][v].eng = c
          PROVE  bore[n] = c
      BY <1>2, <2>3 DEF Delete, LeftBehind, OnlyLookupsFail
    <2>4. ASSUME NEW n \in Names, NEW v \in Vendors, keys'[n][v] # None
          PROVE  RowFollows(keys[n][v].key, keys[n][v].eng, keys[n][v].status, n, v)'
      <3>1. /\ keys[n][v] # None
            /\ keys'[n][v].key = keys[n][v].key
            /\ keys'[n][v].eng = (IF keys[n][v].eng = c THEN None ELSE keys[n][v].eng)
            /\ keys[n][v].status = "disabled" => keys'[n][v].status = "disabled"
        BY <2>2, <2>4
      <3>2. Stays(n, v, keys'[n][v].eng, keys'[n][v].status)
        <4>1. CASE keys[n][v].eng = c
          <5>1. owner(n, v) = c /\ bore'[n] = c
            BY <1>a, <2>1, <2>3, <3>1, <4>1, KeysAssumption
          <5> QED
            BY <3>1, <4>1, <5>1
        <4>2. CASE keys[n][v].eng # c
          <5>1. keys'[n][v].eng = keys[n][v].eng /\ bore'[n] = bore[n] /\ owner(n, v) \in Clients
            BY <1>a, <2>1, <3>1, <4>2
          <5>2. keys[n][v].eng = owner(n, v) => name'[owner(n, v)] = name[owner(n, v)]
            BY <2>1, <4>2, <5>1 DEF TypeOK
          <5> QED
            BY <1>a, <3>1, <5>1, <5>2
        <4> QED
          BY <4>1, <4>2
      <3> HIDE DEF Stays
      <3> QED
        BY <1>b, <3>1, <3>2
    <2> QED
      BY <2>4
  <1>3. ASSUME NEW l \in Links, Redeem(l) PROVE Goal
    <2> DEFINE n == links[l].name
               v == links[l].vendor
               c == links[l].of
    <2>1. /\ links[l] \in Link /\ UNCHANGED <<name, bore>>
          /\ keys' = [keys EXCEPT ![n][v] = Attached(l)]
          /\ links' = [links EXCEPT ![l].state = "used"]
          /\ bore[n] = c /\ Attached(l).eng \in {None, c}
      BY <1>3 DEF Redeem, TypeOK, OnlyLookupsFail
    <2>2. n \in Names /\ v \in Vendors /\ c \in Clients
      BY <2>1 DEF Link
    <2>3. ASSUME NEW d \in Clients, Attached(l).eng = d PROVE name[d] # None
      <3>0. d # None
        BY KeysAssumption
      <3>1. CASE EngagementOf(n) # None
        <4>1. Attached(l).eng = EngagementOf(n)
          BY <3>1 DEF Attached
        <4>2. name[EngagementOf(n)] = n
          BY <2>2, <3>1, EngagementIsOne
        <4> QED
          BY <2>2, <2>3, <4>1, <4>2, KeysAssumption
      <3>2. CASE EngagementOf(n) = None /\ keys[n][v] # None
        <4>1. Attached(l).eng = keys[n][v].eng
          BY <3>2 DEF Attached
        <4> QED
          BY <1>a, <2>2, <2>3, <3>0, <3>2, <4>1
      <3>3. CASE EngagementOf(n) = None /\ keys[n][v] = None
        <4>1. Attached(l).eng = None
          BY <3>3 DEF Attached
        <4> QED
          BY <2>3, <3>0, <4>1
      <3> QED
        BY <3>1, <3>2, <3>3
    <2>4. Attached(l).key = l /\ Attached(l).status = "active"
      BY DEF Attached
    <2>5. /\ links'[l].name = n /\ links'[l].vendor = v /\ links'[l].of = c
          /\ links'[l].state = "used" /\ links'[l] # None
      <3>1. links'[l] = [links[l] EXCEPT !.state = "used"]
        BY <2>1 DEF TypeOK
      <3>2. links'[l] \in Link
        BY <2>1, <3>1 DEF Link
      <3> QED
        BY <2>1, <3>1, <3>2, NoneIsNoRecord DEF Link
    <2>6. ASSUME NEW m \in Names, NEW w \in Vendors, keys'[m][w] # None
          PROVE  RowFollows(keys[m][w].key, keys[m][w].eng, keys[m][w].status, m, w)'
      <3>1. CASE m = n /\ w = v
        <4>1. keys'[m][w] = Attached(l)
          BY <2>1, <2>2, <3>1 DEF TypeOK
        <4>2. \/ Attached(l).eng = c /\ name'[c] # None
              \/ Attached(l).eng = None /\ bore'[n] = c
          BY <2>1, <2>2, <2>3
        <4>3. keys'[m][w].key = l /\ keys'[m][w].eng = Attached(l).eng
          BY <2>4, <4>1
        <4>4. Used(l)' /\ links'[l].name = m /\ links'[l].vendor = w /\ links'[l].of = c
          BY <2>5, <3>1 DEF Used
        <4>5. \/ keys'[m][w].eng = links'[l].of /\ name'[links'[l].of] # None
              \/ keys'[m][w].eng = None /\ bore'[m] = links'[l].of
          BY <3>1, <4>2, <4>3, <4>4
        <4> HIDE DEF n, v, c
        <4>6. ASSUME NEW e, e = keys'[m][w].eng, NEW st PROVE RowFollows(l, e, st, m, w)'
          BY <4>4, <4>5, <4>6 DEF RowFollows
        <4> QED
          BY <4>3, <4>6
      <3>2. CASE ~(m = n /\ w = v)
        <4>1. keys'[m][w] = keys[m][w]
          BY <2>1, <2>2, <3>2 DEF TypeOK
        <4>2. keys[m][w] # None
          BY <2>6, <4>1
        <4>3. Stays(m, w, keys'[m][w].eng, keys'[m][w].status)
          <5>1. \/ keys[m][w].eng = owner(m, w) /\ name[owner(m, w)] # None
                \/ keys[m][w].eng = None /\ (keys[m][w].status = "disabled" \/ bore[m] = owner(m, w))
            BY <1>a, <4>2
          <5> HIDE DEF owner
          <5> QED
            BY <2>1, <4>1, <5>1
        <4> HIDE DEF Stays
        <4> QED
          BY <1>b, <4>1, <4>2, <4>3
      <3> QED
        BY <3>1, <3>2
    <2> QED
      BY <2>6
  <1>4. ASSUME NEW n \in Names, NEW v \in Vendors, NEW why \in {"failed", "disabled"},
               keys' = Deactivated(n, v, why), UNCHANGED <<name, bore>>,
               why = "failed" => Standing(n, v)
        PROVE  Goal
    <2>1. ASSUME NEW m \in Names, NEW w \in Vendors, keys'[m][w] # None
          PROVE  RowFollows(keys[m][w].key, keys[m][w].eng, keys[m][w].status, m, w)'
      <3>1. /\ keys[m][w] # None /\ keys'[m][w].key = keys[m][w].key
            /\ keys'[m][w].eng = keys[m][w].eng
            /\ m = n /\ w = v => keys'[m][w].status = why
            /\ ~(m = n /\ w = v) => keys'[m][w].status = keys[m][w].status
        BY <1>4, <2>1, DeactivatedFields
      <3>2. Stays(m, w, keys'[m][w].eng, keys'[m][w].status)
        BY <1>a, <1>4, <3>1 DEF Standing
      <3> HIDE DEF Stays
      <3> QED
        BY <1>b, <3>1, <3>2
    <2> QED
      BY <2>1
  <1>5. ASSUME NEW n \in Names, NEW v \in Vendors, Enable(n, v) PROVE Goal
    <2>1. /\ UNCHANGED <<name, bore>>
          /\ keys' = [f \in Names |-> IF f \in Seen(n, v)
                                        THEN [keys[f] EXCEPT ![v].status = "active"] ELSE keys[f]]
          /\ \A f \in Seen(n, v) : Claimed(f, v)
      BY <1>5 DEF Enable, OnlyLookupsFail
    <2>2. ASSUME NEW m \in Names, NEW w \in Vendors, keys'[m][w] # None
          PROVE  RowFollows(keys[m][w].key, keys[m][w].eng, keys[m][w].status, m, w)'
      <3>1. CASE m \in Seen(n, v) /\ w = v
        <4>1. keys[m][v] # None /\ Claimed(m, v)
          BY <2>1, <3>1 DEF Seen
        <4>2. keys'[m][v] = [keys[m][v] EXCEPT !.status = "active"] /\ keys[m][v] \in Row
          BY <2>1, <3>1, <4>1 DEF TypeOK
        <4>3. keys'[m][v].key = keys[m][v].key /\ keys'[m][v].eng = keys[m][v].eng
          BY <4>2 DEF Row
        <4>4. Stays(m, w, keys'[m][w].eng, keys'[m][w].status)
          BY <1>a, <2>1, <3>1, <4>1, <4>3 DEF Claimed
        <4> HIDE DEF Stays
        <4> QED
          BY <1>b, <3>1, <4>1, <4>3, <4>4
      <3>2. CASE ~(m \in Seen(n, v) /\ w = v)
        <4>1. keys'[m][w] = keys[m][w]
          BY <2>1, <3>2 DEF TypeOK
        <4>2. keys[m][w] # None
          BY <2>2, <4>1
        <4>3. Stays(m, w, keys'[m][w].eng, keys'[m][w].status)
          <5>1. \/ keys[m][w].eng = owner(m, w) /\ name[owner(m, w)] # None
                \/ keys[m][w].eng = None /\ (keys[m][w].status = "disabled" \/ bore[m] = owner(m, w))
            BY <1>a, <4>2
          <5> HIDE DEF owner
          <5> QED
            BY <2>1, <4>1, <5>1
        <4> HIDE DEF Stays
        <4> QED
          BY <1>b, <4>1, <4>2, <4>3
      <3> QED
        BY <3>1, <3>2
    <2> QED
      BY <2>2
  <1>6. ASSUME UNCHANGED <<name, bore, keys>> PROVE Goal
    BY <1>a, <1>6 DEF RowFollows, Used
  <1>7. \/ \E c \in Clients : Delete(c) \/ \E n \in Names : Rename(c, n)
        \/ \E l \in Links : Redeem(l)
        \/ \E n \in Names, v \in Vendors : Enable(n, v) \/ Disable(n, v)
        \/ \E r \in reports : HandleReport(r)
        \/ UNCHANGED <<name, bore, keys>>
    BY DEF Next, vars, StartCall, ResolveKeys, PlanCall, Try, Answer, Grant, RevokeGrant, Invite,
           RevokeInvite
  <1>8. ASSUME NEW n \in Names, NEW v \in Vendors, Disable(n, v) PROVE Goal
    BY <1>4, <1>8 DEF Disable
  <1>9. ASSUME NEW r \in reports, HandleReport(r) PROVE Goal
    BY <1>4, <1>9 DEF HandleReport, TypeOK, ReportsStand
  <1>10. Goal => RowsFollowTheirLink'
    BY DEF RowsFollowTheirLink
  <1> HIDE DEF Goal
  <1> QED
    BY <1>1, <1>2, <1>3, <1>5, <1>6, <1>7, <1>8, <1>9, <1>10

(* A client that gives its name up leaves it to nobody.                    *)
LEMMA DeletedIsUnborne ==
  ASSUME TypeOK, NamesAreBorne, NEW c \in Clients, Delete(c), OnlyLookupsFail,
         NEW n \in Names, Borne(n)'
  PROVE  Borne(n) /\ n # name[c] /\ bore[n] # c
  <1>1. PICK d \in Clients : name'[d] = n
    BY DEF Borne
  <1>2. d # c /\ name[d] = n
    BY <1>1, KeysAssumption DEF Delete, TypeOK
  <1> QED
    BY <1>2, KeysAssumption DEF NamesAreBorne, Borne

(* Under a client's name nothing usable is left unbound: such a name is    *)
(* not taken, and what is filed under a name that is borne is bound.       *)
LEMMA BornStep ==
  ASSUME TypeOK, NamesAreBorne, BornNamesAreBound, ReportsStand, [Next]_vars, OnlyLookupsFail
  PROVE  BornNamesAreBound'
  <1> DEFINE Clean(n) ==
               /\ grants[n] # "unbound"
               /\ \A v \in Vendors :
                    keys[n][v] # None /\ keys[n][v].eng = None => keys[n][v].status = "disabled"
             Goal == \A n \in Names : Borne(n)' => Clean(n)'
  <1>1. ASSUME NEW n \in Names, Borne(n) PROVE Clean(n)
    BY <1>1 DEF BornNamesAreBound
  <1>2. ASSUME NEW c \in Clients, NEW n \in Names, Rename(c, n) PROVE Goal
    <2>1. name' = [name EXCEPT ![c] = n] /\ keys' = keys /\ grants' = grants
      BY <1>2 DEF Rename
    <2>2. Clean(n)
      BY <1>2 DEF Rename, MayBear, Unowned, OnlyLookupsFail
    <2>3. ASSUME NEW m \in Names, Borne(m)' PROVE m = n \/ Borne(m)
      BY <2>1, <2>3 DEF Borne, TypeOK
    <2> QED
      BY <1>1, <2>1, <2>2, <2>3
  <1>3. ASSUME NEW c \in Clients, Delete(c) PROVE Goal
    <2>1. ASSUME NEW n \in Names, Borne(n)' PROVE Clean(n)'
      <3>1. Borne(n) /\ n # name[c] /\ bore[n] # c
        BY <1>3, <2>1, DeletedIsUnborne
      <3>2. grants[n] # c /\ \A v \in Vendors : keys[n][v] # None => keys[n][v].eng # c
        BY <1>3, <3>1 DEF Delete, LeftBehind, OnlyLookupsFail
      <3>3. grants'[n] = grants[n]
        BY <1>3, <3>1, <3>2 DEF Delete
      <3>4. ASSUME NEW v \in Vendors, keys'[n][v] # None, keys'[n][v].eng = None
            PROVE  keys'[n][v].status = "disabled"
        <4>1. keys'[n][v] = IF keys[n][v] = None THEN None ELSE Orphaned(n, v, c)
          BY <1>3 DEF Delete
        <4>2. keys[n][v] # None
          BY <3>4, <4>1
        <4>3. keys'[n][v].eng = keys[n][v].eng /\ keys'[n][v].status = keys[n][v].status
          BY <3>1, <3>2, <4>1, <4>2, OrphanedFields
        <4> QED
          BY <1>1, <3>1, <3>4, <4>2, <4>3
      <3> QED
        BY <1>1, <3>1, <3>3, <3>4
    <2> QED
      BY <2>1
  <1>4. ASSUME NEW l \in Links, Redeem(l) PROVE Goal
    <2>1. /\ links[l] \in Link /\ name' = name /\ grants' = grants
          /\ keys' = [keys EXCEPT ![links[l].name][links[l].vendor] = Attached(l)]
      BY <1>4 DEF Redeem, TypeOK
    <2>2. links[l].name \in Names /\ links[l].vendor \in Vendors
      BY <2>1 DEF Link
    <2>3. Borne(links[l].name) => Attached(l).eng # None
      BY <2>2, BorneHasEngagement DEF Attached
    <2>4. ASSUME NEW n \in Names, Borne(n)', NEW v \in Vendors
          PROVE  keys'[n][v] # None /\ keys'[n][v].eng = None => keys'[n][v].status = "disabled"
      <3>1. Borne(n)
        BY <2>1, <2>4 DEF Borne
      <3>2. CASE n = links[l].name /\ v = links[l].vendor
        BY <2>1, <2>2, <2>3, <3>1, <3>2 DEF TypeOK
      <3>3. CASE ~(n = links[l].name /\ v = links[l].vendor)
        <4>1. keys'[n][v] = keys[n][v]
          BY <2>1, <2>2, <3>3 DEF TypeOK
        <4> QED
          BY <1>1, <3>1, <4>1
      <3> QED
        BY <3>2, <3>3
    <2>5. ASSUME NEW n \in Names, Borne(n)' PROVE grants'[n] # "unbound"
      BY <1>1, <2>1, <2>5 DEF Borne
    <2> QED
      BY <2>4, <2>5
  <1>5. ASSUME NEW n \in Names, NEW v \in Vendors, NEW why \in {"failed", "disabled"},
               keys' = Deactivated(n, v, why), UNCHANGED <<name, grants>>,
               why = "failed" => Standing(n, v)
        PROVE  Goal
    <2>1. ASSUME NEW m \in Names, Borne(m)', NEW w \in Vendors, keys'[m][w] # None,
                 keys'[m][w].eng = None
          PROVE  keys'[m][w].status = "disabled"
      <3>1. Borne(m)
        BY <1>5, <2>1 DEF Borne
      <3>2. /\ keys[m][w] # None /\ keys[m][w].eng = None
            /\ m = n /\ w = v => keys'[m][w].status = why
            /\ ~(m = n /\ w = v) => keys'[m][w].status = keys[m][w].status
        BY <1>5, <2>1, DeactivatedFields
      <3> QED
        BY <1>1, <1>5, <3>1, <3>2 DEF Standing
    <2>2. ASSUME NEW m \in Names, Borne(m)' PROVE grants'[m] # "unbound"
      BY <1>1, <1>5, <2>2 DEF Borne
    <2> QED
      BY <2>1, <2>2
  <1>6. ASSUME NEW n \in Names, NEW v \in Vendors, Enable(n, v) PROVE Goal
    <2>1. /\ UNCHANGED <<name, grants>>
          /\ keys' = [f \in Names |-> IF f \in Seen(n, v)
                                        THEN [keys[f] EXCEPT ![v].status = "active"] ELSE keys[f]]
          /\ \A f \in Seen(n, v) : Claimed(f, v)
      BY <1>6 DEF Enable, OnlyLookupsFail
    <2>2. ASSUME NEW m \in Names, Borne(m)', NEW w \in Vendors, keys'[m][w] # None,
                 keys'[m][w].eng = None
          PROVE  keys'[m][w].status = "disabled"
      <3>1. Borne(m)
        BY <2>1, <2>2 DEF Borne
      <3>2. CASE m \in Seen(n, v) /\ w = v
        <4>1. keys[m][v] # None /\ Claimed(m, v)
          BY <2>1, <3>2 DEF Seen
        <4>2. keys'[m][v] = [keys[m][v] EXCEPT !.status = "active"] /\ keys[m][v] \in Row
          BY <2>1, <3>2, <4>1 DEF TypeOK
        <4>3. keys'[m][v].eng = keys[m][v].eng
          BY <4>2 DEF Row
        <4> QED
          BY <2>2, <3>1, <3>2, <4>1, <4>3, BorneHasEngagement DEF Claimed
      <3>3. CASE ~(m \in Seen(n, v) /\ w = v)
        <4>1. keys'[m][w] = keys[m][w]
          BY <2>1, <3>3 DEF TypeOK
        <4> QED
          BY <1>1, <2>2, <3>1, <4>1
      <3> QED
        BY <3>2, <3>3
    <2>3. ASSUME NEW m \in Names, Borne(m)' PROVE grants'[m] # "unbound"
      BY <1>1, <2>1, <2>3 DEF Borne
    <2> QED
      BY <2>2, <2>3
  <1>7. ASSUME NEW n \in Names, Grant(n) PROVE Goal
    <2>1. /\ UNCHANGED <<name, keys>>
          /\ \A m \in Names \ {n} : grants'[m] = grants[m]
          /\ EngagementOf(n) # None => grants'[n] = EngagementOf(n)
      BY <1>7 DEF Grant, TypeOK
    <2>2. EngagementOf(n) # "unbound" \/ EngagementOf(n) = None
      BY EngagementIsOne, KeysAssumption DEF ClientOrNone
    <2>3. ASSUME NEW m \in Names, Borne(m)' PROVE Clean(m)'
      <3>1. Borne(m) /\ Clean(m)
        BY <1>1, <2>1, <2>3 DEF Borne
      <3>2. grants'[m] # "unbound"
        BY <2>1, <2>2, <3>1, BorneHasEngagement
      <3> QED
        BY <2>1, <3>1, <3>2
    <2> QED
      BY <2>3
  <1>8. ASSUME NEW n \in Names, RevokeGrant(n) PROVE Goal
    <2>1. UNCHANGED <<name, keys>> /\ \A m \in Names : grants'[m] \in {None, grants[m]}
      BY <1>8 DEF RevokeGrant
    <2>2. ASSUME NEW m \in Names, Borne(m)' PROVE Clean(m)'
      <3>1. Borne(m) /\ Clean(m)
        BY <1>1, <2>1, <2>2 DEF Borne
      <3>2. grants'[m] # "unbound"
        BY <2>1, <3>1, KeysAssumption
      <3> QED
        BY <2>1, <3>1, <3>2
    <2> QED
      BY <2>2
  <1>9. ASSUME UNCHANGED <<name, keys, grants>> PROVE Goal
    BY <1>1, <1>9 DEF Borne
  <1>10. ASSUME NEW n \in Names, NEW v \in Vendors, Disable(n, v) PROVE Goal
    BY <1>5, <1>10 DEF Disable
  <1>11. ASSUME NEW r \in reports, HandleReport(r) PROVE Goal
    BY <1>5, <1>11 DEF HandleReport, TypeOK, ReportsStand
  <1>12. \/ \E c \in Clients : Delete(c) \/ \E n \in Names : Rename(c, n)
         \/ \E l \in Links : Redeem(l)
         \/ \E n \in Names : \/ Grant(n) \/ RevokeGrant(n)
                             \/ \E v \in Vendors : Enable(n, v) \/ Disable(n, v)
         \/ \E r \in reports : HandleReport(r)
         \/ UNCHANGED <<name, keys, grants>>
    BY DEF Next, vars, StartCall, ResolveKeys, PlanCall, Try, Answer, Invite, RevokeInvite
  <1>13. Goal => BornNamesAreBound'
    BY DEF BornNamesAreBound
  <1> HIDE DEF Goal
  <1> QED
    BY <1>2, <1>3, <1>4, <1>6, <1>7, <1>8, <1>9, <1>10, <1>11, <1>12, <1>13

(* A row that stands goes on standing, under a name that is not taken      *)
(* while it has unbound rows.                                              *)
LEMMA StandingStep ==
  ASSUME TypeOK, NamesAreBorne, RowsFollowTheirLink, [Next]_vars, OnlyLookupsFail,
         NEW n \in Names, NEW v \in Vendors, Standing(n, v),
         \A c \in Clients : Rename(c, n) => Unowned(n) = {}
  PROVE  Standing(n, v)'
  <1> DEFINE l == keys[n][v].key
  <1>1. keys[n][v] # None => /\ keys[n][v] \in Row /\ l \in Links /\ links'[l] = links[l]
                             /\ links[l].of \in Clients
    BY RowFields, UsedStays DEF Link
  (* the row keeps its key and its binding, and nobody takes the name *)
  <1>2. ASSUME keys'[n][v] # None => /\ keys[n][v] # None /\ keys'[n][v].key = l
                                     /\ keys'[n][v].eng = keys[n][v].eng,
               keys[n][v] # None /\ keys[n][v].eng = None =>
                 bore'[n] = bore[n] /\ (Borne(n)' => Borne(n))
        PROVE  Standing(n, v)'
    BY <1>1, <1>2 DEF Standing
  <1>3. ASSUME NEW c \in Clients, NEW m \in Names, Rename(c, m) PROVE Standing(n, v)'
    <2>1. keys' = keys /\ name' = [name EXCEPT ![c] = m] /\ bore' = [bore EXCEPT ![m] = c]
      BY <1>3 DEF Rename
    <2>2. keys[n][v] # None /\ keys[n][v].eng = None => n # m
      BY <1>3 DEF Unowned
    <2>3. n # m => bore'[n] = bore[n] /\ (Borne(n)' => Borne(n))
      BY <2>1 DEF Borne, TypeOK
    <2> QED
      BY <1>2, <2>1, <2>2, <2>3
  <1>4. ASSUME NEW c \in Clients, Delete(c) PROVE Standing(n, v)'
    <2>1. bore' = bore /\ keys'[n][v] = IF keys[n][v] = None THEN None ELSE Orphaned(n, v, c)
      BY <1>4 DEF Delete
    <2>2. Borne(n)' => Borne(n) /\ bore[n] # c
      BY <1>4, DeletedIsUnborne
    <2>3. CASE keys[n][v] # None /\ keys[n][v].eng = c
      <3>1. bore[n] = c /\ c = links[l].of
        BY <1>4, <2>3, KeysAssumption
           DEF Delete, LeftBehind, OnlyLookupsFail, RowsFollowTheirLink, RowFollows
      <3>2. keys'[n][v].key = l
        BY <2>1, <2>3, OrphanedFields
      <3> QED
        BY <1>1, <2>1, <2>2, <2>3, <3>1, <3>2 DEF Standing
    <2>4. CASE ~(keys[n][v] # None /\ keys[n][v].eng = c)
      <3>1. keys'[n][v] # None => /\ keys[n][v] # None /\ keys'[n][v].key = l
                                  /\ keys'[n][v].eng = keys[n][v].eng
        BY <2>1, <2>4, OrphanedFields
      <3> QED
        BY <1>2, <2>1, <2>2, <3>1
    <2> QED
      BY <2>3, <2>4
  <1>5. ASSUME NEW k \in Links, Redeem(k) PROVE Standing(n, v)'
    <2>1. /\ links[k] \in Link /\ UNCHANGED <<name, bore>>
          /\ keys' = [keys EXCEPT ![links[k].name][links[k].vendor] = Attached(k)]
          /\ links' = [links EXCEPT ![k].state = "used"]
          /\ bore[links[k].name] = links[k].of
      BY <1>5 DEF Redeem, TypeOK, OnlyLookupsFail
    <2>2. links[k].name \in Names /\ links[k].vendor \in Vendors
      BY <2>1 DEF Link
    <2>3. CASE n = links[k].name /\ v = links[k].vendor
      <3>1. keys'[n][v] = Attached(k) /\ Attached(k).key = k
        BY <2>1, <2>2, <2>3 DEF TypeOK, Attached
      <3>2. links'[k].of = links[k].of
        BY <2>1 DEF TypeOK, Link
      <3>3. Attached(k).eng = None => ~Borne(n)
        BY <2>2, <2>3, BorneHasEngagement DEF Attached
      <3> QED
        BY <2>1, <2>3, <3>1, <3>2, <3>3 DEF Standing, Borne
    <2>4. CASE ~(n = links[k].name /\ v = links[k].vendor)
      <3>1. keys'[n][v] = keys[n][v]
        BY <2>1, <2>2, <2>4 DEF TypeOK
      <3> QED
        BY <1>2, <2>1, <3>1 DEF Borne
    <2> QED
      BY <2>3, <2>4
  <1>6. ASSUME NEW m \in Names, NEW w \in Vendors, NEW why \in {"failed", "disabled"},
               keys' = Deactivated(m, w, why), UNCHANGED <<name, bore>>
        PROVE  Standing(n, v)'
    <2>1. keys'[n][v] # None => /\ keys[n][v] # None /\ keys'[n][v].key = l
                                /\ keys'[n][v].eng = keys[n][v].eng
      BY <1>6, DeactivatedFields
    <2> QED
      BY <1>2, <1>6, <2>1 DEF Borne
  <1>7. ASSUME NEW m \in Names, NEW w \in Vendors, Enable(m, w) PROVE Standing(n, v)'
    <2>1. /\ UNCHANGED <<name, bore>>
          /\ keys' = [f \in Names |-> IF f \in Seen(m, w)
                                        THEN [keys[f] EXCEPT ![w].status = "active"] ELSE keys[f]]
      BY <1>7 DEF Enable
    <2>2. CASE n \in Seen(m, w) /\ v = w
      <3>1. keys[n][v] # None /\ keys'[n][v] = [keys[n][v] EXCEPT !.status = "active"]
        BY <2>1, <2>2 DEF Seen, TypeOK
      <3>2. keys'[n][v].key = l /\ keys'[n][v].eng = keys[n][v].eng
        BY <1>1, <3>1 DEF Row
      <3> QED
        BY <1>2, <2>1, <3>1, <3>2 DEF Borne
    <2>3. CASE ~(n \in Seen(m, w) /\ v = w)
      <3>1. keys'[n][v] = keys[n][v]
        BY <2>1, <2>3 DEF TypeOK
      <3> QED
        BY <1>2, <2>1, <3>1 DEF Borne
    <2> QED
      BY <2>2, <2>3
  <1>8. ASSUME UNCHANGED <<name, bore, keys>> PROVE Standing(n, v)'
    BY <1>2, <1>8 DEF Borne
  <1>9. ASSUME NEW m \in Names, NEW w \in Vendors, Disable(m, w) PROVE Standing(n, v)'
    BY <1>6, <1>9 DEF Disable
  <1>10. ASSUME NEW r \in reports, HandleReport(r) PROVE Standing(n, v)'
    BY <1>6, <1>10 DEF HandleReport, TypeOK
  <1>11. \/ \E c \in Clients : Delete(c) \/ \E m \in Names : Rename(c, m)
         \/ \E k \in Links : Redeem(k)
         \/ \E m \in Names, w \in Vendors : Enable(m, w) \/ Disable(m, w)
         \/ \E r \in reports : HandleReport(r)
         \/ UNCHANGED <<name, bore, keys>>
    BY DEF Next, vars, StartCall, ResolveKeys, PlanCall, Try, Answer, Grant, RevokeGrant, Invite,
           RevokeInvite
  <1> QED
    BY <1>3, <1>4, <1>5, <1>7, <1>8, <1>9, <1>10, <1>11

(* A name is not taken while a call reads it, or a refusal under it is on  *)
(* its way, and unbound rows are under it.                                 *)
LEMMA ReadNamesAreNotTaken ==
  ASSUME TypeOK, OnlyLookupsFail, NEW n \in Names, NEW c \in Clients, Rename(c, n),
         (\E k \in Calls : call[k].phase # "idle" /\ call[k].name = n) \/ (\E r \in reports : r.name = n)
  PROVE  Unowned(n) = {}
  <1>1. ~Unread(n)
    BY CallShape DEF Unread
  <1> QED
    BY <1>1 DEF Rename, MayBear, OnlyLookupsFail

LEMMA ReportsStep ==
  ASSUME TypeOK, NamesAreBorne, RowsFollowTheirLink, ReportsStand, CallsStand, [Next]_vars,
         OnlyLookupsFail
  PROVE  ReportsStand'
  <1>1. ASSUME NEW r \in reports PROVE Standing(r.name, r.vendor)'
    <2>1. r.name \in Names /\ r.vendor \in Vendors /\ Standing(r.name, r.vendor)
      BY DEF TypeOK, ReportsStand
    <2>2. \A c \in Clients : Rename(c, r.name) => Unowned(r.name) = {}
      BY <2>1, ReadNamesAreNotTaken
    <2> QED
      BY <2>1, <2>2, StandingStep
  <1>2. ASSUME NEW k \in Calls, NEW out, Try(k, out) PROVE ReportsStand'
    <2>1. CASE reports' = reports
      BY <1>1, <2>1 DEF ReportsStand
    <2>2. ASSUME NEW v \in Own(call[k]), NEW own, own = call[k].own[v], Filed(own),
                 reports' = reports \cup {[name |-> own.name, vendor |-> v, key |-> own.key]}
          PROVE  ReportsStand'
      <3>1. /\ v \in Vendors /\ own # None /\ CallStands(call[k]) /\ call[k].name \in Names
            /\ call[k].phase # "idle"
        BY <1>2, <2>2, CallShape DEF Try, Planned, Own, CallsStand
      <3>2. own.name = call[k].name /\ Standing(own.name, v)
        BY <2>2, <3>1 DEF CallStands, Filed, OnlyLookupsFail
      <3>3. \A c \in Clients : Rename(c, own.name) => Unowned(own.name) = {}
        BY <3>1, <3>2, ReadNamesAreNotTaken
      <3>4. Standing(own.name, v)'
        BY <3>1, <3>2, <3>3, StandingStep
      <3> QED
        BY <1>1, <2>2, <3>4 DEF ReportsStand
    <2> QED
      BY <1>2, <2>1, <2>2, TryGives
  <1>3. CASE reports' \subseteq reports
    BY <1>1, <1>3 DEF ReportsStand
  <1> QED
    <2>1. (\E k \in Calls, out \in {"ok", "refused", "busy", "error"} : Try(k, out))
          \/ reports' \subseteq reports
      BY DEF Next, vars, StartCall, ResolveKeys, PlanCall, Answer, HandleReport, Rename, Delete,
             Grant, RevokeGrant, Invite, Disable, Enable, RevokeInvite, Redeem
    <2> QED
      BY <1>2, <1>3, <2>1

(* A call finds a row that stands, and keeps its name and its keys.        *)
LEMMA CallsStandStep ==
  ASSUME TypeOK, NamesAreBorne, RowsFollowTheirLink, BornNamesAreBound, CallsStand,
         CallsHoldTheirKeys, [Next]_vars, OnlyLookupsFail
  PROVE  CallsStand'
  (* what a call keeps stands after the step *)
  <1>1. ASSUME NEW k \in Calls, Planned(k), NEW s, s.own = call[k].own, s.name = call[k].name
        PROVE  CallStands(s)'
    <2>1. CallStands(call[k]) /\ call[k].name \in Names /\ call[k] \in PlannedCall
          /\ call[k].phase # "idle"
      BY <1>1, CallShape DEF CallsStand, Planned
    <2>2. \A c \in Clients : Rename(c, s.name) => Unowned(s.name) = {}
      BY <1>1, <2>1, ReadNamesAreNotTaken
    <2>3. ASSUME NEW v \in Vendors, s.own[v] # None
          PROVE  /\ s.own[v].name = s.name /\ links'[s.own[v].key].vendor = v
                 /\ links'[s.own[v].key].name = s.name => Standing(s.name, v)'
      <3>1. s.own[v].key \in Links /\ Used(s.own[v].key)
        BY <1>1, <2>1, <2>3 DEF PlannedCall, Binding, CallsHoldTheirKeys, SuppliedBy
      <3>2. links'[s.own[v].key] = links[s.own[v].key]
        BY <3>1, UsedStays
      <3>3. /\ s.own[v].name = s.name /\ links[s.own[v].key].vendor = v
            /\ links[s.own[v].key].name = s.name => Standing(s.name, v)
        BY <1>1, <2>1, <2>3 DEF CallStands
      <3>4. Standing(s.name, v) => Standing(s.name, v)'
        BY <1>1, <2>1, <2>2, StandingStep
      <3> QED
        BY <3>2, <3>3, <3>4
    <2> QED
      BY <2>3 DEF CallStands
  <1>2. ASSUME NEW k \in Calls, NEW s, call' = [call EXCEPT ![k] = s],
               s.phase \in {"planning", "trying"} => CallStands(s)'
        PROVE  CallsStand'
    <2>1. ASSUME NEW j \in Calls, Planned(j)', NEW u, u = call'[j] PROVE CallStands(u)'
      <3>1. CASE j = k
        BY <1>2, <2>1, <3>1, OthersCallUntouched DEF Planned
      <3>2. CASE j # k
        BY <1>1, <1>2, <2>1, <3>2, OthersCallUntouched DEF Planned
      <3> QED
        BY <3>1, <3>2
    <2> QED
      BY <2>1 DEF CallsStand, CallStands
  <1>3. ASSUME NEW k \in Calls, NEW n \in Names, StartCall(k, n) PROVE CallsStand'
    BY <1>2, <1>3 DEF StartCall
  <1>4. ASSUME NEW k \in Calls, ResolveKeys(k) PROVE CallsStand'
    <2>1. PICK own \in [Vendors -> Binding \cup {None}], unusable \in SUBSET Vendors, onFile \in BOOLEAN :
            ResolvedTo(k, own, unusable, onFile)
      BY <1>4, ResolveGives
    <2> DEFINE n == call[k].name
               s == [phase |-> "planning", of |-> call[k].of, name |-> n,
                     own |-> own, unusable |-> unusable, onFile |-> onFile,
                     granted |-> FALSE, plan |-> <<>>, left |-> {}, tries |-> 0, asked |-> {}]
    <2>2. n \in Names /\ UNCHANGED <<name, bore, keys, links>>
      BY <1>4, CallShape DEF ResolveKeys
    <2>3. ASSUME NEW v \in Vendors, own[v] # None
          PROVE  /\ own[v].name = n /\ links[own[v].key].vendor = v
                 /\ links[own[v].key].name = n => Standing(n, v)
      <3>1. PICK f \in OnFile(n, v) :
              keys[f][v].status = "active" /\ own[v].key = keys[f][v].key /\ own[v].name = n
        BY <2>1, <2>3 DEF ResolvedTo
      <3>2. f \in Names /\ keys[f][v] # None
        BY <3>1 DEF OnFile
      <3>3. links[own[v].key].vendor = v /\ links[own[v].key].name = f
        BY <3>1, <3>2, RowFields
      <3>4. keys[f][v].eng = None => bore[f] = links[keys[f][v].key].of
        BY <3>1, <3>2, RowFields, KeysAssumption DEF RowsFollowTheirLink, RowFollows, Link
      <3>5. keys[f][v].eng = None => ~Borne(f)
        BY <3>1, <3>2 DEF BornNamesAreBound
      <3> QED
        BY <3>1, <3>3, <3>4, <3>5 DEF Standing
    <2>4. ASSUME NEW m \in Names, NEW v \in Vendors, Standing(m, v) PROVE Standing(m, v)'
      <3>1. Borne(m)' <=> Borne(m)
        BY <2>2 DEF Borne
      <3> QED
        BY <2>2, <2>4, <3>1 DEF Standing
    <2>5. ASSUME NEW u, u = s PROVE CallStands(u)'
      <3>1. u.own = own /\ u.name = n
        BY <2>5
      <3>2. ASSUME NEW v \in Vendors, own[v] # None
            PROVE  /\ own[v].name = u.name /\ links'[own[v].key].vendor = v
                   /\ links'[own[v].key].name = u.name => Standing(u.name, v)'
        <4>1. u.name \in Names /\ own[v].name = u.name /\ links[own[v].key].vendor = v
          BY <2>2, <2>3, <3>1, <3>2
        <4>2. links[own[v].key].name = u.name => Standing(u.name, v)
          BY <2>3, <3>1, <3>2
        <4> HIDE DEF s, n
        <4> QED
          BY <2>2, <2>4, <4>1, <4>2
      <3> HIDE DEF s, n
      <3> QED
        BY <3>1, <3>2 DEF CallStands
    <2>6. call' = [call EXCEPT ![k] = s]
      BY <2>1 DEF ResolvedTo
    <2> HIDE DEF s
    <2> QED
      BY <1>2, <2>5, <2>6
  <1>5. ASSUME NEW k \in Calls, PlanCall(k) PROVE CallsStand'
    <2>1. CASE call' = [call EXCEPT ![k] = Idle]
      BY <1>2, <2>1 DEF Idle
    <2>2. ASSUME NEW granted \in BOOLEAN, NEW plan \in Plans, NEW left \in SUBSET Positions,
                 PlannedTo(k, granted, plan, left)
          PROVE  CallsStand'
      <3> DEFINE s == [call[k] EXCEPT !.phase = "trying", !.granted = granted, !.plan = plan,
                                      !.left = left]
      <3>1. call[k] \in PlannedCall /\ Planned(k)
        BY <1>5, CallShape DEF PlanCall, Planned
      <3>2. s.own = call[k].own /\ s.name = call[k].name
        BY <3>1 DEF PlannedCall
      <3>3. ASSUME NEW u, u = s PROVE CallStands(u)'
        BY <1>1, <3>1, <3>2, <3>3
      <3>4. call' = [call EXCEPT ![k] = s]
        BY <2>2 DEF PlannedTo
      <3> HIDE DEF s
      <3> QED
        BY <1>2, <3>3, <3>4
    <2> QED
      BY <1>5, <2>1, <2>2, PlanGives
  <1>6. ASSUME NEW k \in Calls, NEW out, Try(k, out) PROVE CallsStand'
    <2>1. PICK s \in PlannedCall :
            call' = [call EXCEPT ![k] = s] /\ s.name = call[k].name /\ s.own = call[k].own
      BY <1>6, TryGives
    <2>2. CallStands(s)'
      BY <1>1, <1>6, <2>1 DEF Try, Planned
    <2> QED
      BY <1>2, <2>1, <2>2
  <1>7. ASSUME NEW k \in Calls, Answer(k) PROVE CallsStand'
    BY <1>2, <1>7 DEF Answer, Idle
  <1>8. CASE UNCHANGED call
    <2>1. ASSUME NEW j \in Calls, Planned(j)', NEW u, u = call'[j] PROVE CallStands(u)'
      BY <1>1, <1>8, <2>1 DEF Planned
    <2> QED
      BY <2>1 DEF CallsStand, CallStands
  <1> QED
    BY <1>3, <1>4, <1>5, <1>6, <1>7, <1>8, OnlyCallsAct DEF CallActs

(* What CallsHoldTheirKeys says of one call. *)
HoldsItsKeys(s) ==
  /\ \A v \in Vendors : s.own[v] # None => SuppliedBy(s.own[v].key, s.of)
  /\ \A l \in s.asked \ {"firm"} : SuppliedBy(l, s.of)

(* A call finds the rows bound to the client that bears its name, which is *)
(* its own; whom a key is from never changes.                              *)
LEMMA CallsStep ==
  ASSUME TypeOK, NamesAreBorne, RowsFollowTheirLink, CallsHoldTheirKeys, [Next]_vars
  PROVE  CallsHoldTheirKeys'
  <1>1. ASSUME NEW l \in Links, NEW c, SuppliedBy(l, c) PROVE SuppliedBy(l, c)'
    BY <1>1, UsedStays DEF SuppliedBy, Used
  <1>2. ASSUME NEW s \in PlannedCall, HoldsItsKeys(s) PROVE HoldsItsKeys(s)'
    <2>1. \A v \in Vendors : s.own[v] # None => s.own[v].key \in Links
      BY DEF PlannedCall, Binding
    <2>2. s.asked \ {"firm"} \subseteq Links
      BY DEF PlannedCall
    <2> QED
      BY <1>1, <1>2, <2>1, <2>2 DEF HoldsItsKeys
  <1>3. ASSUME NEW k \in Calls, Planned(k)
        PROVE  call[k] \in PlannedCall /\ HoldsItsKeys(call[k])
    BY <1>3, CallShape DEF CallsHoldTheirKeys, HoldsItsKeys
  <1>4. ASSUME NEW k \in Calls, NEW s, call' = [call EXCEPT ![k] = s],
               s.phase \in {"planning", "trying"} => s \in PlannedCall /\ HoldsItsKeys(s)
        PROVE  CallsHoldTheirKeys'
    <2>1. ASSUME NEW j \in Calls, Planned(j)', NEW u, u = call'[j] PROVE HoldsItsKeys(u)'
      <3>1. CASE j = k
        BY <1>2, <1>4, <2>1, <3>1, OthersCallUntouched DEF Planned
      <3>2. CASE j # k
        BY <1>2, <1>3, <1>4, <2>1, <3>2, OthersCallUntouched DEF Planned
      <3> QED
        BY <3>1, <3>2
    <2> QED
      BY <2>1 DEF CallsHoldTheirKeys, HoldsItsKeys
  <1>5. ASSUME NEW k \in Calls, NEW n \in Names, StartCall(k, n) PROVE CallsHoldTheirKeys'
    BY <1>4, <1>5 DEF StartCall
  <1>6. ASSUME NEW k \in Calls, ResolveKeys(k) PROVE CallsHoldTheirKeys'
    <2>1. PICK own \in [Vendors -> Binding \cup {None}], unusable \in SUBSET Vendors, onFile \in BOOLEAN :
            ResolvedTo(k, own, unusable, onFile)
      BY <1>6, ResolveGives
    <2>2. /\ call[k].of \in Clients /\ call[k].name \in Names
          /\ bore[call[k].name] = call[k].of
      BY <1>6, CallShape DEF ResolveKeys, NamesAreBorne
    <2>3. ASSUME NEW v \in Vendors, own[v] # None
          PROVE  SuppliedBy(own[v].key, call[k].of)
      <3>1. PICK f \in OnFile(call[k].name, v) :
              keys[f][v].status = "active" /\ own[v].key = keys[f][v].key
        BY <2>1, <2>3 DEF ResolvedTo
      <3>2. /\ f \in Names /\ keys[f][v] # None
            /\ Matches(keys[f][v].eng, f, call[k].name)
        BY <3>1 DEF OnFile
      <3>3. /\ RowFollows(keys[f][v].key, keys[f][v].eng, keys[f][v].status, f, v)
            /\ links[keys[f][v].key] \in Link
        BY <3>2, RowFields DEF RowsFollowTheirLink
      <3>4. Used(keys[f][v].key) /\ links[keys[f][v].key].of \in Clients
        BY <3>3 DEF RowFollows, Link
      <3>5. CASE keys[f][v].eng = None
        <4>1. f = call[k].name /\ bore[f] = links[keys[f][v].key].of
          BY <3>1, <3>2, <3>3, <3>4, <3>5, KeysAssumption DEF Matches, RowFollows
        <4> QED
          BY <2>2, <3>1, <3>4, <4>1 DEF SuppliedBy
      <3>6. CASE keys[f][v].eng # None
        <4>1. keys[f][v].eng = links[keys[f][v].key].of /\ keys[f][v].eng = EngagementOf(call[k].name)
          BY <3>2, <3>3, <3>6 DEF Matches, RowFollows
        <4>2. name[keys[f][v].eng] = call[k].name
          BY <2>2, <3>6, <4>1, EngagementIsOne
        <4>3. keys[f][v].eng = call[k].of
          BY <2>2, <3>4, <4>1, <4>2, KeysAssumption DEF NamesAreBorne
        <4> QED
          BY <3>1, <3>4, <4>1, <4>3 DEF SuppliedBy
      <3> QED
        BY <3>5, <3>6
    <2> DEFINE s == [phase |-> "planning", of |-> call[k].of, name |-> call[k].name,
                     own |-> own, unusable |-> unusable, onFile |-> onFile,
                     granted |-> FALSE, plan |-> <<>>, left |-> {}, tries |-> 0, asked |-> {}]
    <2>4. s \in PlannedCall
      BY <2>2, KeysAssumption DEF PlannedCall
    <2>5. HoldsItsKeys(s)
      BY <2>3 DEF HoldsItsKeys
    <2>6. call' = [call EXCEPT ![k] = s]
      BY <2>1 DEF ResolvedTo
    <2> HIDE DEF s
    <2> QED
      BY <1>4, <2>4, <2>5, <2>6
  <1>7. ASSUME NEW k \in Calls, PlanCall(k) PROVE CallsHoldTheirKeys'
    <2>1. CASE call' = [call EXCEPT ![k] = Idle]
      BY <1>4, <2>1 DEF Idle
    <2>2. ASSUME NEW granted \in BOOLEAN, NEW plan \in Plans, NEW left \in SUBSET Positions,
                 PlannedTo(k, granted, plan, left)
          PROVE  CallsHoldTheirKeys'
      <3> DEFINE s == [call[k] EXCEPT !.phase = "trying", !.granted = granted, !.plan = plan,
                                      !.left = left]
      <3>1. call[k] \in PlannedCall /\ HoldsItsKeys(call[k])
        BY <1>3, <1>7 DEF PlanCall, Planned
      <3>2. s \in PlannedCall /\ s.own = call[k].own /\ s.asked = call[k].asked /\ s.of = call[k].of
        BY <3>1 DEF PlannedCall
      <3>3. HoldsItsKeys(s)
        BY <3>1, <3>2 DEF HoldsItsKeys
      <3>4. call' = [call EXCEPT ![k] = s]
        BY <2>2 DEF PlannedTo
      <3> HIDE DEF s
      <3> QED
        BY <1>4, <3>2, <3>3, <3>4
    <2> QED
      BY <1>7, <2>1, <2>2, PlanGives
  <1>8. ASSUME NEW k \in Calls, NEW out, Try(k, out) PROVE CallsHoldTheirKeys'
    <2>1. PICK s \in PlannedCall :
            /\ call' = [call EXCEPT ![k] = s]
            /\ s.of = call[k].of /\ s.own = call[k].own
            /\ \/ s.asked = call[k].asked \cup {"firm"}
               \/ \E v \in Own(call[k]) : s.asked = call[k].asked \cup {call[k].own[v].key}
      BY <1>8, TryGives
    <2>2. HoldsItsKeys(call[k])
      BY <1>3, <1>8 DEF Try, Planned
    <2>3. HoldsItsKeys(s)
      BY <2>1, <2>2 DEF HoldsItsKeys, Own
    <2> QED
      BY <1>4, <2>1, <2>3
  <1>9. ASSUME NEW k \in Calls, Answer(k) PROVE CallsHoldTheirKeys'
    BY <1>4, <1>9 DEF Answer, Idle
  <1>10. CASE UNCHANGED call
    <2>1. ASSUME NEW j \in Calls, Planned(j)', NEW u, u = call'[j] PROVE HoldsItsKeys(u)'
      BY <1>2, <1>3, <1>10, <2>1 DEF Planned
    <2> QED
      BY <2>1 DEF CallsHoldTheirKeys, HoldsItsKeys
  <1> QED
    BY <1>5, <1>6, <1>7, <1>8, <1>9, <1>10, OnlyCallsAct DEF CallActs

(* A refusal names the row its key is in.                                  *)
LEMMA RefusalsStep ==
  ASSUME TypeOK, RowsFollowTheirLink, CallsStand, CallsHoldTheirKeys, RefusalsNameTheirKey,
         [Next]_vars, OnlyLookupsFail
  PROVE  RefusalsNameTheirKey'
  <1> DEFINE Named(r) == Used(r.key) /\ links[r.key].name = r.name /\ links[r.key].vendor = r.vendor
  <1>1. ASSUME NEW r, r \in reports PROVE Named(r) /\ links'[r.key] = links[r.key]
    BY <1>1, UsedStays DEF RefusalsNameTheirKey, TypeOK
  <1>2. ASSUME NEW l \in Links, Used(l) PROVE Used(l)'
    BY <1>2, UsedStays DEF Used
  <1>3. ASSUME NEW o, o \in off PROVE Used(o.key)'
    <2>1. o.key \in Links /\ Used(o.key)
      BY <1>3 DEF RefusalsNameTheirKey, TypeOK, Off
    <2> QED
      BY <1>2, <2>1
  <1>4. ASSUME reports' \subseteq reports, off' \subseteq off PROVE RefusalsNameTheirKey'
    BY <1>1, <1>3, <1>4 DEF RefusalsNameTheirKey, Used
  <1>5. ASSUME NEW k \in Calls, NEW out, Try(k, out) PROVE RefusalsNameTheirKey'
    <2>1. CASE reports' = reports /\ off' = off
      BY <1>4, <2>1
    <2>2. ASSUME NEW v \in Own(call[k]), NEW own, own = call[k].own[v], Filed(own),
                 reports' = reports \cup {[name |-> own.name, vendor |-> v, key |-> own.key]},
                 off' = off \cup {[key |-> own.key, why |-> "failed"]}
          PROVE  RefusalsNameTheirKey'
      <3>0. call[k] \in PlannedCall /\ Planned(k)
        BY <1>5, CallShape DEF Try, Planned
      <3>1. v \in Vendors /\ own # None
        BY <2>2, <3>0 DEF Own
      <3>2. own.key \in Links
        BY <2>2, <3>0, <3>1 DEF PlannedCall, Binding
      <3>3. Used(own.key) /\ links[own.key].name = own.name /\ links[own.key].vendor = v
        BY <2>2, <3>0, <3>1
           DEF CallsHoldTheirKeys, SuppliedBy, CallsStand, CallStands, Filed, OnlyLookupsFail
      <3>4. links'[own.key] = links[own.key] /\ Used(own.key)'
        BY <1>2, <3>2, <3>3, UsedStays
      <3>5. ASSUME NEW r, r \in reports'
            PROVE  Used(r.key)' /\ links'[r.key].name = r.name /\ links'[r.key].vendor = r.vendor
        <4>1. CASE r \in reports
          BY <1>1, <4>1 DEF Used
        <4>2. CASE r = [name |-> own.name, vendor |-> v, key |-> own.key]
          BY <3>3, <3>4, <4>2
        <4> QED
          BY <2>2, <3>5, <4>1, <4>2
      <3>6. ASSUME NEW o, o \in off' PROVE Used(o.key)'
        <4>1. CASE o \in off
          BY <1>3, <4>1
        <4>2. CASE o = [key |-> own.key, why |-> "failed"]
          BY <3>4, <4>2
        <4> QED
          BY <2>2, <3>6, <4>1, <4>2
      <3> QED
        BY <3>5, <3>6 DEF RefusalsNameTheirKey
    <2> QED
      BY <1>5, <2>1, <2>2, TryGives
  <1>6. ASSUME NEW r \in reports, HandleReport(r) PROVE RefusalsNameTheirKey'
    BY <1>4, <1>6 DEF HandleReport
  <1>7. ASSUME NEW n \in Names, NEW v \in Vendors, Disable(n, v) PROVE RefusalsNameTheirKey'
    <2>1. \A f \in Seen(n, v) : keys[f][v].key \in Links /\ Used(keys[f][v].key)
      BY RowFields DEF Seen
    <2>2. ASSUME NEW o, o \in off' PROVE Used(o.key)'
      <3>1. CASE o \in off
        BY <1>3, <3>1
      <3>2. CASE \E f \in Seen(n, v) : o = [key |-> keys[f][v].key, why |-> "disabled"]
        BY <1>2, <2>1, <3>2
      <3> QED
        BY <1>7, <2>2, <3>1, <3>2 DEF Disable
    <2> QED
      BY <1>1, <1>7, <2>2 DEF Disable, RefusalsNameTheirKey, Used
  <1>8. ASSUME NEW n \in Names, NEW v \in Vendors, Enable(n, v) PROVE RefusalsNameTheirKey'
    BY <1>4, <1>8 DEF Enable
  <1>9. CASE UNCHANGED <<reports, off>>
    BY <1>4, <1>9
  <1> QED
    <2>1. \/ \E k \in Calls, out \in {"ok", "refused", "busy", "error"} : Try(k, out)
          \/ \E r \in reports : HandleReport(r)
          \/ \E n \in Names, v \in Vendors : Enable(n, v) \/ Disable(n, v)
          \/ UNCHANGED <<reports, off>>
      BY DEF Next, vars, StartCall, ResolveKeys, PlanCall, Answer, Rename, Delete, Grant,
             RevokeGrant, Invite, RevokeInvite, Redeem
    <2> QED
      BY <1>5, <1>6, <1>7, <1>8, <1>9, <2>1

(* A report on its way is of a row whose key is off; it takes that row, and *)
(* no other holds the key.  A row is switched on with its key.             *)
LEMMA OffStep ==
  ASSUME TypeOK, RowsFollowTheirLink, RefusalsNameTheirKey, OffIsOff, [Next]_vars, OnlyLookupsFail
  PROVE  OffIsOff'
  <1> DEFINE IsOff(l) == \E o \in off : o.key = l
             Told(l) == \E r \in reports : r.key = l
  <1>1. ASSUME NEW k \in Calls, NEW out, Try(k, out) PROVE OffIsOff'
    <2>1. keys' = keys
      BY <1>1 DEF Try
    <2>2. CASE reports' = reports /\ off' = off
      BY <2>1, <2>2 DEF OffIsOff
    <2>3. ASSUME NEW v \in Own(call[k]), NEW own, own = call[k].own[v],
                 reports' = reports \cup {[name |-> own.name, vendor |-> v, key |-> own.key]},
                 off' = off \cup {[key |-> own.key, why |-> "failed"]}
          PROVE  OffIsOff'
      <3>1. Told(own.key)'
        <4> DEFINE r == [name |-> own.name, vendor |-> v, key |-> own.key]
        <4>1. r \in reports' /\ r.key = own.key
          BY <2>3
        <4> QED
          BY <4>1
      <3>2. ASSUME NEW l, IsOff(l)' PROVE IsOff(l) \/ l = own.key
        BY <2>3, <3>2
      <3>3. ASSUME NEW l, Told(l) PROVE Told(l)'
        BY <2>3, <3>3
      <3> QED
        BY <2>1, <3>1, <3>2, <3>3 DEF OffIsOff
    <2> QED
      BY <1>1, <2>2, <2>3, TryGives
  <1>2. ASSUME NEW r \in reports, HandleReport(r) PROVE OffIsOff'
    <2>1. /\ keys' = Deactivated(r.name, r.vendor, "failed") /\ off' = off
          /\ reports' = reports \ {r} /\ r.name \in Names /\ r.vendor \in Vendors
      BY <1>2 DEF HandleReport, TypeOK
    <2>2. ASSUME NEW n \in Names, NEW v \in Vendors, keys'[n][v] # None,
                 keys'[n][v].status = "active", IsOff(keys[n][v].key)'
          PROVE  \E q \in reports' : q.key = keys'[n][v].key
      <3>1. ~(n = r.name /\ v = r.vendor)
        BY <2>1, <2>2, DeactivatedFields
      <3>2. keys'[n][v] = keys[n][v]
        BY <2>1, <3>1, DeactivatedFields
      <3>3. PICK q \in reports : q.key = keys[n][v].key
        BY <2>1, <2>2, <3>2 DEF OffIsOff
      <3>4. links[keys[n][v].key].name = n /\ links[keys[n][v].key].vendor = v
        BY <2>2, <3>2, RowFields
      <3>5. q # r
        BY <1>2, <3>1, <3>3, <3>4 DEF RefusalsNameTheirKey
      <3> QED
        BY <2>1, <3>2, <3>3, <3>5
    <2> QED
      BY <2>2 DEF OffIsOff
  <1>3. ASSUME NEW c \in Clients, Delete(c) PROVE OffIsOff'
    <2>1. ASSUME NEW n \in Names, NEW v \in Vendors, keys'[n][v] # None, keys'[n][v].status = "active"
          PROVE  keys[n][v] # None /\ keys[n][v].status = "active" /\ keys[n][v].key = keys'[n][v].key
      <3>1. keys'[n][v] = IF keys[n][v] = None THEN None ELSE Orphaned(n, v, c)
        BY <1>3 DEF Delete
      <3> QED
        BY <2>1, <3>1, OrphanedFields
    <2> QED
      BY <1>3, <2>1 DEF Delete, OffIsOff
  <1>4. ASSUME NEW l \in Links, Redeem(l) PROVE OffIsOff'
    <2>1. ~IsOff(l)
      BY <1>4 DEF Redeem, RefusalsNameTheirKey, Used
    <2>2. /\ keys' = [keys EXCEPT ![links[l].name][links[l].vendor] = Attached(l)]
          /\ links[l] \in Link /\ UNCHANGED <<reports, off>>
      BY <1>4 DEF Redeem, TypeOK
    <2>3. Attached(l).key = l
      BY DEF Attached
    <2>4. ASSUME NEW n \in Names, NEW v \in Vendors
          PROVE  keys'[n][v] = keys[n][v] \/ keys'[n][v].key = l
      BY <2>2, <2>3 DEF TypeOK, Link
    <2> QED
      BY <2>1, <2>2, <2>4 DEF OffIsOff
  <1>5. ASSUME NEW n \in Names, NEW v \in Vendors, Disable(n, v) PROVE OffIsOff'
    <2>1. /\ keys' = Deactivated(n, v, "disabled") /\ reports' = reports
          /\ Seen(n, v) = {n} /\ keys[n][v] # None
          /\ off' = off \cup {[key |-> keys[f][v].key, why |-> "disabled"] : f \in Seen(n, v)}
      BY <1>5 DEF Disable, Seen, OnlyLookupsFail
    <2>2. ASSUME NEW m \in Names, NEW w \in Vendors, keys'[m][w] # None,
                 keys'[m][w].status = "active", IsOff(keys[m][w].key)'
          PROVE  \E q \in reports' : q.key = keys'[m][w].key
      <3>1. ~(m = n /\ w = v)
        BY <2>1, <2>2, DeactivatedFields
      <3>2. keys'[m][w] = keys[m][w]
        BY <2>1, <3>1, DeactivatedFields
      <3>3. keys[m][w].key # keys[n][v].key
        BY <2>1, <2>2, <3>1, <3>2, OneRowPerKey
      <3>4. IsOff(keys[m][w].key)
        BY <2>1, <2>2, <3>2, <3>3
      <3> QED
        BY <2>1, <2>2, <3>2, <3>4 DEF OffIsOff
    <2> QED
      BY <2>2 DEF OffIsOff
  <1>6. ASSUME NEW n \in Names, NEW v \in Vendors, Enable(n, v) PROVE OffIsOff'
    <2> DEFINE at(why) == [key |-> keys[n][v].key, why |-> why]
    <2>1. Seen(n, v) = {n} /\ keys[n][v] # None /\ keys[n][v].status = "disabled"
      BY <1>6 DEF Enable, Seen, OnlyLookupsFail
    <2>2. reports' = reports /\ off' = off \ {at("disabled")} /\ at("failed") \notin off
      BY <1>6, <2>1 DEF Enable, OnlyLookupsFail
    <2>3. keys' = [f \in Names |-> IF f = n THEN [keys[f] EXCEPT ![v].status = "active"] ELSE keys[f]]
      BY <1>6, <2>1 DEF Enable
    <2>4. ~IsOff(keys[n][v].key)'
      <3>1. ASSUME NEW o \in off, o.key = keys[n][v].key PROVE o = at("disabled") \/ o = at("failed")
        BY <3>1 DEF TypeOK, Off
      <3> QED
        <4>1. keys'[n][v].key = keys[n][v].key
          <5>1. keys'[n] = [keys[n] EXCEPT ![v].status = "active"]
                /\ keys[n] \in [Vendors -> Row \cup {None}]
            BY <2>3 DEF TypeOK
          <5>2. keys'[n][v] = [keys[n][v] EXCEPT !.status = "active"] /\ keys[n][v] \in Row
            BY <2>1, <5>1
          <5> QED
            BY <5>2 DEF Row
        <4> QED
          BY <2>2, <3>1, <4>1
    <2>5. ASSUME NEW m \in Names, NEW w \in Vendors, keys'[m][w] # None,
                 keys'[m][w].status = "active", IsOff(keys[m][w].key)'
          PROVE  \E q \in reports' : q.key = keys'[m][w].key
      <3>1. ~(m = n /\ w = v)
        BY <2>4, <2>5
      <3>2. keys'[m][w] = keys[m][w]
        BY <2>3, <3>1 DEF TypeOK
      <3>3. IsOff(keys[m][w].key)
        BY <2>2, <2>5, <3>2
      <3> QED
        BY <2>2, <2>5, <3>2, <3>3 DEF OffIsOff
    <2> QED
      BY <2>5 DEF OffIsOff
  <1>7. CASE UNCHANGED <<keys, reports, off>>
    BY <1>7 DEF OffIsOff
  <1> QED
    <2>1. \/ \E k \in Calls, out \in {"ok", "refused", "busy", "error"} : Try(k, out)
          \/ \E r \in reports : HandleReport(r)
          \/ \E c \in Clients : Delete(c)
          \/ \E l \in Links : Redeem(l)
          \/ \E n \in Names, v \in Vendors : Enable(n, v) \/ Disable(n, v)
          \/ UNCHANGED <<keys, reports, off>>
      BY DEF Next, vars, StartCall, ResolveKeys, PlanCall, Answer, Rename, Grant, RevokeGrant,
             Invite, RevokeInvite
    <2> QED
      BY <1>1, <1>2, <1>3, <1>4, <1>5, <1>6, <1>7, <2>1

--------------------------------------------------------------------------------
(* Theorems *)

LEMMA KeysInvInit ==
  Init => TypeOK /\ KeysInv
  BY KeysAssumption
     DEF Init, TypeOK, CallState, ClientOrNone, Idle, KeysInv, NamesAreBorne,
         RowsFollowTheirLink, BornNamesAreBound, ReportsStand, CallsStand, CallsHoldTheirKeys,
         Planned, RefusalsNameTheirKey, OffIsOff

LEMMA KeysInvStep ==
  ASSUME TypeOK, KeysInv, [Next]_vars, OnlyLookupsFail
  PROVE  (TypeOK /\ KeysInv)'
  <1>1. "reuse" \notin Faults
    BY DEF OnlyLookupsFail
  <1> QED
    BY <1>1, TypeStep, NamesStep, RowsStep, BornStep, ReportsStep, CallsStandStep,
       CallsStep, RefusalsStep, OffStep DEF KeysInv

(* Where nothing but lookups fails, a call spends no key but one its own   *)
(* client supplied, though names change hands and rows are left unbound; a *)
(* key switched off is not active until it is enabled or replaced, and a   *)
(* refused one not until it is replaced.                                   *)
THEOREM KeysServeTheirClient ==
  OnlyLookupsFail => (Spec => []NoKeyMisused)
  <1> SUFFICES ASSUME OnlyLookupsFail PROVE Spec => []NoKeyMisused
    OBVIOUS
  <1>1. KeysInv => NoKeyMisused
    BY DEF KeysInv, CallsHoldTheirKeys, Planned, SuppliedBy, NoKeyMisused, OwnKeysOnly, Trying
  <1> QED
    BY <1>1, KeysInvInit, KeysInvStep, PTL DEF Spec

(* What a call of a client finds is what is bound to it.                  *)
RowsBoundTo(c, v) ==
  {f \in Names : /\ keys[f][v] # None /\ keys[f][v].eng = c
                 /\ keys[f][v].status \in {"active", "failed"}}

ServedByBinding ==
  \A c \in Clients : name[c] # None =>
    /\ \A v \in Vendors : Resolved(c, v) = RowsBoundTo(c, v)
    /\ Granted(name[c]) <=> \E f \in Names : grants[f] = c

LEMMA InvServesByBinding ==
  ASSUME TypeOK, KeysInv PROVE ServedByBinding
  <1> SUFFICES ASSUME NEW c \in Clients, name[c] # None
               PROVE  /\ \A v \in Vendors : Resolved(c, v) = RowsBoundTo(c, v)
                      /\ Granted(name[c]) <=> \E f \in Names : grants[f] = c
    BY DEF ServedByBinding
  <1>1. name[c] \in Names
    BY DEF TypeOK
  <1>2. ASSUME NEW v \in Vendors, NEW f \in Names
        PROVE  f \in Resolved(c, v) <=> f \in RowsBoundTo(c, v)
    BY <1>1, RowsOfAClient DEF KeysInv, Resolved, OnFile, RowsBoundTo
  <1>3. ASSUME NEW v \in Vendors PROVE Resolved(c, v) = RowsBoundTo(c, v)
    BY <1>2 DEF Resolved, OnFile, RowsBoundTo
  <1> QED
    BY <1>1, <1>3, GrantsOfAClient DEF KeysInv

LEMMA FollowsRename ==
  ASSUME TypeOK, ServedByBinding, ServedByBinding', Next, NEW c \in Clients,
         name[c] # None, name'[c] # None, name'[c] # name[c]
  PROVE  /\ \A v \in Vendors : Resolved(c, v)' = Resolved(c, v)
         /\ Granted(name[c])' = Granted(name[c])
  <1>1. keys' = keys /\ grants' = grants
    BY DEF Next, StartCall, ResolveKeys, PlanCall, Try, Answer, HandleReport, Rename, Delete, Grant,
           RevokeGrant, Invite, Disable, Enable, RevokeInvite, Redeem, TypeOK
  <1>2. ASSUME NEW v \in Vendors PROVE Resolved(c, v)' = Resolved(c, v)
    <2>1. Resolved(c, v) = RowsBoundTo(c, v) /\ Resolved(c, v)' = RowsBoundTo(c, v)'
      BY DEF ServedByBinding
    <2>2. RowsBoundTo(c, v)' = RowsBoundTo(c, v)
      BY <1>1 DEF RowsBoundTo
    <2> QED
      BY <2>1, <2>2
  <1>3. Granted(name[c])' <=> Granted(name[c])
    BY <1>1 DEF ServedByBinding
  <1>4. Granted(name[c])' \in BOOLEAN /\ Granted(name[c]) \in BOOLEAN
    BY DEF Granted
  <1> QED
    BY <1>2, <1>3, <1>4

(* Where nothing but lookups fails, a rename changes neither whose keys    *)
(* the client's calls find nor whether the firm covers them: both follow   *)
(* from what is bound to the client, whatever unbound rows and grants      *)
(* there are.                                                              *)
THEOREM KeysKeepTheirClient ==
  OnlyLookupsFail => (Spec => KeysFollowRename)
  <1> SUFFICES ASSUME OnlyLookupsFail PROVE Spec => KeysFollowRename
    OBVIOUS
  <1> DEFINE Followed == \A c \in Clients :
               name[c] # None /\ name'[c] \notin {None, name[c]} =>
                 /\ \A v \in Vendors : Resolved(c, v)' = Resolved(c, v)
                 /\ Granted(name[c])' = Granted(name[c])
  <1>1. TypeOK /\ ServedByBinding /\ ServedByBinding' /\ [Next]_vars => [Followed]_vars
    BY FollowsRename
  <1>2. TypeOK /\ KeysInv => ServedByBinding
    BY InvServesByBinding
  <1> QED
    BY <1>1, <1>2, KeysInvInit, KeysInvStep, PTL DEF Spec, KeysFollowRename
================================================================================
