-------------------------- MODULE SubscriptionsProofs --------------------------
(***************************************************************************)
(* What the firm's row says of its subscription, for any checkouts, plans, *)
(* times and changes.  The customer on file is that of every subscription, *)
(* as long as one checkout is under way before there is a customer; the    *)
(* rest also needs that Stripe creates no two changes within one second    *)
(* and confirms a payment in the second it was made, since the row orders  *)
(* events by their second.                                                 *)
(***************************************************************************)
EXTENDS Subscriptions, TLAPS

(* A checkout under way is for a plan that is sold; from the second step on *)
(* it has a customer.                                                      *)
ReadyInv ==
  \A k \in Checkouts :
    /\ co[k].phase # "none" => co[k].plan \in Plans
    /\ co[k].phase \in {"named", "open", "paid"} => co[k].customer # None

(* Before the firm has a customer, one checkout is under way.              *)
FirstAlone == firm.customer = None => \A k, l \in UnderWay : k = l

(* All that has to do with Stripe carries the customer on file.            *)
CheckoutHolds(k) ==
  /\ co[k].phase = "asked" => co[k].customer = firm.customer
  /\ co[k].phase \in {"named", "open", "paid"} =>
       co[k].customer # None /\ co[k].customer = firm.customer
  /\ sub[k] # None =>
       /\ co[k].phase \in {"open", "paid"}
       /\ sub[k].customer = firm.customer
       /\ co[k].phase = "open" => sub[k].status # "canceled" /\ sub[k].plan = co[k].plan
       /\ sub[k].ends # None
  /\ co[k].phase = "paid" => sub[k] # None

EventHolds(e) ==
  e.sub.customer = firm.customer /\ e.at <= now /\ sub[e.of] # None

CustomerInv ==
  /\ FirstAlone
  /\ \A k \in Checkouts : CheckoutHolds(k)
  /\ \A e \in sent : EventHolds(e)

(* Within one second there is one change, or the beginning of one          *)
(* subscription.                                                           *)
Begins(e, f) ==
  e.type = "completed" /\ f.type # "completed" => f.type = "changed" /\ f.sub.plan = e.sub.plan

SameSecond(e, f) ==
  /\ Begins(e, f)
  /\ e.type # "completed" /\ f.type # "completed" => e = f
  /\ e.type = "completed" /\ f.type = "completed" => e.sub.plan = f.sub.plan

SecondsInv ==
  /\ \A e, f \in sent : e.at = f.at => SameSecond(e, f)
  /\ \A e \in sent : e.type = "completed" => \E f \in sent : f.type = "changed" /\ f.at = e.at

(* The latest change says what the subscription it is of has become.       *)
IsLatest(e) ==
  /\ e.type # "completed" /\ e.sub = sub[e.of]
  /\ e.type = "deleted" <=> sub[e.of].status = "canceled"
  /\ \A f \in sent : f.at <= e.at

LatestInv ==
  /\ sent = {} => \A k \in Checkouts : sub[k] = None
  /\ sent # {} => \E e \in sent : IsLatest(e)

(* The row shows the latest of the events it has been given.               *)
ShownBy(e) ==
  /\ firm.plan = IF e.type = "deleted" THEN Trial ELSE e.sub.plan
  /\ e.type = "changed" => firm.status = e.sub.status /\ firm.ends = e.sub.ends
  /\ e.type = "deleted" => firm.status = "canceled"

RowInv ==
  /\ firm.limit = LimitOf[firm.plan]
  /\ got = {} =>
       firm.last = None /\ firm.status = "trialing" /\ firm.ends = None /\ firm.plan = Trial
  /\ got # {} => firm.last # None
  /\ firm.last # None =>
       /\ \E e \in got : e.at = firm.last
       /\ \A e \in got : e.at <= firm.last /\ (e.at = firm.last => ShownBy(e))

(* Nothing comes of a subscription after its end.                          *)
EndsInv ==
  /\ \A d \in sent : d.type = "deleted" =>
       /\ sub[d.of] # None /\ sub[d.of].status = "canceled"
       /\ \A f \in sent : f.of = d.of => f.at <= d.at
  /\ \A k \in Paid : \E e \in sent : e.of = k

OrderInv == SecondsInv /\ LatestInv /\ RowInv /\ EndsInv
--------------------------------------------------------------------------------
(* The shape of the state *)

LEMMA Constants ==
  /\ Trial \notin Plans /\ \A p \in AnyPlan : LimitOf[p] \in Nat
  /\ MaxTime \in Nat /\ MaxChanges \in Nat
  /\ None \notin Checkouts /\ None \notin Nat /\ None \notin Subscription
  /\ Time \subseteq Nat /\ \A t \in 0 .. MaxTime : t \in Time /\ t + 1 \in Time
<1>1. None \notin Checkouts /\ None \notin Nat
  BY SubscriptionAssumption
<1>2. MaxTime \in Nat
  BY SubscriptionAssumption
<1>3. Time \subseteq Nat /\ \A t \in 0 .. MaxTime : t \in Time /\ t + 1 \in Time
  BY <1>2 DEF Time
<1> QED BY <1>1, <1>2, <1>3, SubscriptionAssumption, NoneIsNoSubscription DEF AnyPlan

LEMMA TypeInit == Init => TypeOK
<1> SUFFICES ASSUME Init PROVE TypeOK
  OBVIOUS
<1> USE Constants
<1>1. firm \in Firm
  <2>1. Trial \in AnyPlan
    BY DEF AnyPlan
  <2> QED BY <2>1 DEF Init, Firm, CustomerOrNone, Statuses, TimeOrNone
<1>2. co \in [Checkouts -> Checkout]
  BY DEF Init, Checkout, CustomerOrNone, AnyPlan
<1> QED BY <1>1, <1>2 DEF Init, TypeOK

(* What an event makes of the row.                                         *)
LEMMA TakenIs ==
  ASSUME TypeOK, NEW e \in Event
  PROVE  /\ Taken(e) \in Firm
         /\ Taken(e).last = e.at
         /\ Taken(e).customer = IF e.type = "completed" THEN e.sub.customer ELSE firm.customer
         /\ Taken(e).plan = IF e.type = "deleted" THEN Trial ELSE e.sub.plan
         /\ Taken(e).limit = LimitOf[Taken(e).plan]
         /\ Taken(e).status = CASE e.type = "completed" -> firm.status
                                [] e.type = "changed" -> e.sub.status
                                [] OTHER -> "canceled"
         /\ Taken(e).ends = IF e.type = "changed" THEN e.sub.ends ELSE firm.ends
<1> USE Constants
<1>1. /\ firm.customer \in CustomerOrNone /\ firm.status \in Statuses /\ firm.ends \in TimeOrNone
      /\ firm.plan \in AnyPlan /\ firm.limit \in Nat
      /\ firm = [customer |-> firm.customer, status |-> firm.status, ends |-> firm.ends,
                 plan |-> firm.plan, limit |-> firm.limit, last |-> firm.last]
  BY DEF TypeOK, Firm
<1>2. /\ e.type \in {"completed", "changed", "deleted"} /\ e.at \in TimeOrNone
      /\ e.sub.customer \in CustomerOrNone /\ e.sub.status \in Statuses
      /\ e.sub.ends \in TimeOrNone /\ e.sub.plan \in AnyPlan
  BY DEF Event, Subscription, TimeOrNone, CustomerOrNone, AnyPlan
<1> DEFINE row == [firm EXCEPT !.last = e.at]
<1>3. row = [customer |-> firm.customer, status |-> firm.status, ends |-> firm.ends,
             plan |-> firm.plan, limit |-> firm.limit, last |-> e.at]
  BY <1>1
<1> HIDE DEF row
<1>4. CASE e.type = "completed"
  <2>1. Taken(e) = OnPlan([row EXCEPT !.customer = e.sub.customer], e.sub.plan)
    BY <1>4 DEF Taken, row
  <2>2. Taken(e) = [customer |-> e.sub.customer, status |-> firm.status, ends |-> firm.ends,
                    plan |-> e.sub.plan, limit |-> LimitOf[e.sub.plan], last |-> e.at]
    BY <1>3, <2>1 DEF OnPlan
  <2> QED BY <1>1, <1>2, <1>4, <2>2 DEF Firm
<1>5. CASE e.type = "changed"
  <2>1. Taken(e) = OnPlan([row EXCEPT !.status = e.sub.status, !.ends = e.sub.ends], e.sub.plan)
    BY <1>5 DEF Taken, row
  <2>2. Taken(e) = [customer |-> firm.customer, status |-> e.sub.status, ends |-> e.sub.ends,
                    plan |-> e.sub.plan, limit |-> LimitOf[e.sub.plan], last |-> e.at]
    BY <1>3, <2>1 DEF OnPlan
  <2> QED BY <1>1, <1>2, <1>5, <2>2 DEF Firm
<1>6. CASE e.type = "deleted"
  <2>1. Taken(e) = OnPlan([row EXCEPT !.status = "canceled"], Trial)
    BY <1>6 DEF Taken, row
  <2>2. Taken(e) = [customer |-> firm.customer, status |-> "canceled", ends |-> firm.ends,
                    plan |-> Trial, limit |-> LimitOf[Trial], last |-> e.at]
    BY <1>3, <2>1 DEF OnPlan
  <2>3. Trial \in AnyPlan /\ "canceled" \in Statuses
    BY DEF AnyPlan, Statuses
  <2> QED BY <1>1, <1>2, <1>6, <2>2, <2>3 DEF Firm
<1> QED BY <1>2, <1>4, <1>5, <1>6

(* An event of a subscription is created in this second.                   *)
LEMMA EmitType ==
  ASSUME TypeOK, NEW type \in {"completed", "changed", "deleted"}, NEW k \in Checkouts,
         NEW x \in Subscription, NEW bare \in BOOLEAN, Emit(type, k, x, bare)
  PROVE  sent' \in SUBSET Event /\ got \subseteq sent'
<1>1. [type |-> type, of |-> k, at |-> now, bare |-> bare, sub |-> x] \in Event
  BY Constants DEF TypeOK, Event
<1> QED BY <1>1 DEF Emit, TypeOK

(* What a checkout becomes.                                                *)
LEMMA SetPhase ==
  ASSUME TypeOK, NEW k \in Checkouts, NEW phase \in {"none", "asked", "named", "open", "paid"},
         co' = [co EXCEPT ![k].phase = phase]
  PROVE  /\ co' \in [Checkouts -> Checkout]
         /\ \A l \in Checkouts : l # k => co'[l] = co[l]
         /\ co'[k].phase = phase /\ co'[k].customer = co[k].customer /\ co'[k].plan = co[k].plan
<1> DEFINE c == [co[k] EXCEPT !.phase = phase]
<1>1. c \in Checkout /\ c.phase = phase /\ c.customer = co[k].customer /\ c.plan = co[k].plan
  <2>1. co[k] \in Checkout
    BY DEF TypeOK
  <2> QED BY <2>1 DEF Checkout
<1>2. co' = [co EXCEPT ![k] = c]
  OBVIOUS
<1> HIDE DEF c
<1>3. \A l \in Checkouts : co'[l] = IF l = k THEN c ELSE co[l]
  BY <1>2 DEF TypeOK
<1> QED BY <1>1, <1>2, <1>3 DEF TypeOK

(* A checkout that finds no customer has created one.                      *)
LEMMA StoredIs ==
  ASSUME TypeOK, NEW k \in Checkouts, StoreCustomer(k)
  PROVE  /\ firm' \in Firm /\ co' \in [Checkouts -> Checkout]
         /\ \A l \in Checkouts : l # k => co'[l] = co[l]
         /\ co'[k].phase = "named" /\ co'[k].customer # None /\ co'[k].plan = co[k].plan
         /\ co[k].customer # None => co'[k].customer = co[k].customer /\ firm' = firm
         /\ co[k].customer = None => firm'.customer = co'[k].customer
         /\ firm'.status = firm.status /\ firm'.ends = firm.ends /\ firm'.plan = firm.plan
         /\ firm'.limit = firm.limit /\ firm'.last = firm.last
<1> USE Constants
<1> DEFINE c == IF co[k].customer = None THEN k ELSE co[k].customer
           named == [co[k] EXCEPT !.phase = "named", !.customer = c]
<1>1. co[k] \in Checkout
  BY DEF TypeOK
<1>2. c \in CustomerOrNone /\ c # None /\ (co[k].customer # None => c = co[k].customer)
  BY <1>1 DEF Checkout, CustomerOrNone
<1>3. /\ firm' = IF co[k].customer = None THEN [firm EXCEPT !.customer = c] ELSE firm
      /\ co' = [co EXCEPT ![k] = named]
  BY DEF StoreCustomer
<1> HIDE DEF c
<1>4. named \in Checkout /\ named.phase = "named" /\ named.customer = c /\ named.plan = co[k].plan
  BY <1>1, <1>2 DEF Checkout
<1> HIDE DEF named
<1>5. co' \in [Checkouts -> Checkout] /\ co'[k] = named /\ \A l \in Checkouts : l # k => co'[l] = co[l]
  BY <1>3, <1>4 DEF TypeOK
<1>6. firm \in Firm
  BY DEF TypeOK
<1>7. firm' \in Firm /\ firm'.status = firm.status /\ firm'.ends = firm.ends /\ firm'.plan = firm.plan
      /\ firm'.limit = firm.limit /\ firm'.last = firm.last
  BY <1>2, <1>3, <1>6 DEF Firm
<1>8. co[k].customer = None => firm'.customer = c
  BY <1>3, <1>6 DEF Firm
<1> QED BY <1>2, <1>3, <1>4, <1>5, <1>7, <1>8

(* A subscription becomes x, and an event says so.                         *)
Becomes(k, type, x) ==
  /\ x \in Subscription /\ sub'[k] = x /\ \A l \in Checkouts : l # k => sub'[l] = sub[l]
  /\ sub' \in [Checkouts -> Subscription \cup {None}]
  /\ \E bare \in BOOLEAN : Emit(type, k, x, bare)

LEMMA PayIs ==
  ASSUME TypeOK, ReadyInv, NEW k \in Checkouts, NEW bare \in BOOLEAN, Pay(k, bare)
  PROVE  \E x \in Subscription :
           /\ Becomes(k, "changed", x)
           /\ x.customer = co[k].customer /\ x.plan = co[k].plan /\ x.ends = now + 1
           /\ x.status \in {"active", "trialing"}
<1>1. co[k] \in Checkout /\ co[k].phase = "open"
  BY DEF TypeOK, Pay
<1>2. co[k].customer \in Checkouts /\ co[k].plan \in Plans
  BY <1>1 DEF ReadyInv, Checkout, CustomerOrNone
<1>3. now + 1 \in TimeOrNone
  BY Constants DEF TypeOK, TimeOrNone
<1> PICK status \in {"active", "trialing"} :
      LET x == [customer |-> co[k].customer, status |-> status, ends |-> now + 1,
                plan |-> co[k].plan]
      IN  sub' = [sub EXCEPT ![k] = x] /\ Emit("changed", k, x, bare)
  BY DEF Pay
<1> DEFINE x == [customer |-> co[k].customer, status |-> status, ends |-> now + 1,
                 plan |-> co[k].plan]
<1>4. /\ x \in Subscription /\ x.customer = co[k].customer /\ x.plan = co[k].plan
      /\ x.ends = now + 1 /\ x.status \in {"active", "trialing"}
  BY <1>2, <1>3 DEF Subscription, Statuses
<1>5. sub' = [sub EXCEPT ![k] = x] /\ Emit("changed", k, x, bare)
  OBVIOUS
<1> HIDE DEF x
<1>6. Becomes(k, "changed", x)
  BY <1>4, <1>5 DEF Becomes, TypeOK
<1> QED BY <1>4, <1>6

LEMMA ChangeIs ==
  ASSUME TypeOK, NEW k \in Checkouts, NEW status \in {"active", "past_due"}, NEW plan \in Plans,
         NEW bare \in BOOLEAN, Change(k, status, plan, bare)
  PROVE  /\ sub[k] # None /\ sub[k].status # "canceled"
         /\ \E x \in Subscription :
              /\ Becomes(k, "changed", x)
              /\ x.customer = sub[k].customer /\ x.ends = now + 1 /\ x.status # "canceled"
<1> DEFINE x == [sub[k] EXCEPT !.status = status, !.plan = plan, !.ends = now + 1]
<1>1. sub[k] # None /\ sub[k].status # "canceled"
  BY DEF Change, Live
<1>2. sub[k] \in Subscription
  BY <1>1 DEF TypeOK
<1>3. now + 1 \in TimeOrNone
  BY Constants DEF TypeOK, TimeOrNone
<1>4. /\ x \in Subscription /\ x.customer = sub[k].customer /\ x.ends = now + 1
      /\ x.status # "canceled"
  BY <1>2, <1>3 DEF Subscription, Statuses
<1>5. sub' = [sub EXCEPT ![k] = x] /\ Emit("changed", k, sub'[k], bare)
  BY DEF Change
<1> HIDE DEF x
<1>6. sub'[k] = x /\ Becomes(k, "changed", x)
  BY <1>4, <1>5 DEF Becomes, TypeOK
<1> QED BY <1>1, <1>4, <1>6

LEMMA CancelIs ==
  ASSUME TypeOK, NEW k \in Checkouts, NEW bare \in BOOLEAN, Cancel(k, bare)
  PROVE  /\ sub[k] # None /\ sub[k].status # "canceled"
         /\ \E x \in Subscription :
              /\ Becomes(k, "deleted", x)
              /\ x.customer = sub[k].customer /\ x.ends = sub[k].ends /\ x.status = "canceled"
<1> DEFINE x == [sub[k] EXCEPT !.status = "canceled"]
<1>1. sub[k] # None /\ sub[k].status # "canceled"
  BY DEF Cancel, Live
<1>2. sub[k] \in Subscription
  BY <1>1 DEF TypeOK
<1>3. /\ x \in Subscription /\ x.customer = sub[k].customer /\ x.ends = sub[k].ends
      /\ x.status = "canceled"
  BY <1>2 DEF Subscription, Statuses
<1>4. sub' = [sub EXCEPT ![k] = x] /\ Emit("deleted", k, sub'[k], bare)
  BY DEF Cancel
<1> HIDE DEF x
<1>5. sub'[k] = x /\ Becomes(k, "deleted", x)
  BY <1>3, <1>4 DEF Becomes, TypeOK
<1> QED BY <1>1, <1>3, <1>5

LEMMA ConfirmIs ==
  ASSUME TypeOK, ReadyInv, NEW k \in Checkouts, ConfirmPayment(k)
  PROVE  \E x \in Subscription :
           /\ Emit("completed", k, x, FALSE)
           /\ x.customer = co[k].customer /\ x.plan = co[k].plan
<1> DEFINE x == [sub[k] EXCEPT !.plan = co[k].plan, !.customer = co[k].customer]
<1>1. sub[k] \in Subscription /\ co[k] \in Checkout /\ co[k].phase = "open"
  BY DEF ConfirmPayment, TypeOK
<1>2. co[k].customer \in Checkouts /\ co[k].plan \in Plans
  BY <1>1 DEF ReadyInv, Checkout, CustomerOrNone
<1>3. x \in Subscription /\ x.customer = co[k].customer /\ x.plan = co[k].plan
  BY <1>1, <1>2 DEF Subscription
<1>4. Emit("completed", k, x, FALSE)
  BY DEF ConfirmPayment
<1> HIDE DEF x
<1> QED BY <1>3, <1>4

LEMMA TypeStep == TypeOK /\ ReadyInv /\ [Next]_vars => TypeOK' /\ ReadyInv'
<1> SUFFICES ASSUME TypeOK, ReadyInv, [Next]_vars PROVE TypeOK' /\ ReadyInv'
  OBVIOUS
<1> USE Constants
<1>1. ASSUME NEW k \in Checkouts, NEW plan \in Plans, AskCheckout(k, plan)
      PROVE  TypeOK' /\ ReadyInv'
  <2> DEFINE c == [phase |-> "asked", customer |-> firm.customer, plan |-> plan]
  <2>1. c \in Checkout /\ c.phase = "asked" /\ c.plan \in Plans
    BY DEF TypeOK, Firm, Checkout, AnyPlan
  <2>2. co' = [co EXCEPT ![k] = c] /\ UNCHANGED <<firm, sub, sent, got, now, changes>>
    BY <1>1 DEF AskCheckout
  <2> HIDE DEF c
  <2>3. \A l \in Checkouts : co'[l] = IF l = k THEN c ELSE co[l]
    BY <2>2 DEF TypeOK
  <2> QED BY <2>1, <2>2, <2>3 DEF TypeOK, ReadyInv
<1>2. ASSUME NEW k \in Checkouts, StoreCustomer(k) PROVE TypeOK' /\ ReadyInv'
  <2>1. UNCHANGED <<sub, sent, got, now, changes>> /\ co[k].phase = "asked"
    BY <1>2 DEF StoreCustomer
  <2>2. /\ firm' \in Firm /\ co' \in [Checkouts -> Checkout]
        /\ \A l \in Checkouts : l # k => co'[l] = co[l]
        /\ co'[k].customer # None /\ co'[k].plan = co[k].plan
    BY <1>2, StoredIs
  <2> QED BY <2>1, <2>2 DEF TypeOK, ReadyInv
<1>3. ASSUME NEW k \in Checkouts, OpenSession(k) PROVE TypeOK' /\ ReadyInv'
  <2>1. UNCHANGED <<firm, sub, sent, got, now, changes>> /\ co[k].phase = "named"
    BY <1>3 DEF OpenSession
  <2>2. /\ co' \in [Checkouts -> Checkout] /\ \A l \in Checkouts : l # k => co'[l] = co[l]
        /\ co'[k].customer = co[k].customer /\ co'[k].plan = co[k].plan
    BY <1>3, SetPhase DEF OpenSession
  <2> QED BY <2>1, <2>2 DEF TypeOK, ReadyInv
<1>4. ASSUME NEW k \in Checkouts, Abandon(k) PROVE TypeOK' /\ ReadyInv'
  <2> DEFINE c == [phase |-> "none", customer |-> None, plan |-> Trial]
  <2>1. c \in Checkout /\ c.phase = "none"
    BY DEF Checkout, CustomerOrNone, AnyPlan
  <2>2. co' = [co EXCEPT ![k] = c] /\ UNCHANGED <<firm, sub, sent, got, now, changes>>
    BY <1>4 DEF Abandon
  <2> HIDE DEF c
  <2>3. \A l \in Checkouts : co'[l] = IF l = k THEN c ELSE co[l]
    BY <2>2 DEF TypeOK
  <2> QED BY <2>1, <2>2, <2>3 DEF TypeOK, ReadyInv
<1>5. ASSUME NEW k \in Checkouts, ConfirmPayment(k) PROVE TypeOK' /\ ReadyInv'
  <2>1. sent' \in SUBSET Event /\ got \subseteq sent'
    BY <1>5, ConfirmIs, EmitType
  <2>2. UNCHANGED <<firm, sub, got, now, changes>> /\ co[k].phase = "open"
    BY <1>5 DEF ConfirmPayment
  <2>3. /\ co' \in [Checkouts -> Checkout] /\ \A l \in Checkouts : l # k => co'[l] = co[l]
        /\ co'[k].customer = co[k].customer /\ co'[k].plan = co[k].plan
    BY <1>5, SetPhase DEF ConfirmPayment
  <2> QED BY <2>1, <2>2, <2>3 DEF TypeOK, ReadyInv
<1>6. ASSUME NEW k \in Checkouts, NEW type \in {"changed", "deleted"}, NEW x \in Subscription,
             Becomes(k, type, x), UNCHANGED <<firm, co, got, now>>, changes' \in 0 .. MaxChanges
      PROVE  TypeOK' /\ ReadyInv'
  <2>1. sent' \in SUBSET Event /\ got \subseteq sent'
    BY <1>6, EmitType DEF Becomes
  <2> QED BY <1>6, <2>1 DEF TypeOK, ReadyInv, Becomes
<1>7. ASSUME NEW k \in Checkouts, NEW bare \in BOOLEAN, Pay(k, bare) PROVE TypeOK' /\ ReadyInv'
  <2>1. UNCHANGED <<firm, co, got, now>> /\ changes' \in 0 .. MaxChanges
    BY <1>7 DEF Pay, TypeOK
  <2> QED BY <1>6, <1>7, <2>1, PayIs
<1>8. ASSUME NEW k \in Checkouts, NEW bare \in BOOLEAN, Cancel(k, bare) PROVE TypeOK' /\ ReadyInv'
  <2>1. UNCHANGED <<firm, co, got, now>> /\ changes' \in 0 .. MaxChanges
    BY <1>8 DEF Cancel, TypeOK
  <2> QED BY <1>6, <1>8, <2>1, CancelIs
<1>9. ASSUME NEW k \in Checkouts, NEW bare \in BOOLEAN, NEW status \in {"active", "past_due"},
             NEW plan \in Plans, Change(k, status, plan, bare)
      PROVE  TypeOK' /\ ReadyInv'
  <2>1. UNCHANGED <<firm, co, got, now>> /\ changes' \in 0 .. MaxChanges
    BY <1>9 DEF Change, TypeOK
  <2> QED BY <1>6, <1>9, <2>1, ChangeIs
<1>10. ASSUME NEW e \in sent, Deliver(e) PROVE TypeOK' /\ ReadyInv'
  <2>1. e \in Event
    BY DEF TypeOK
  <2>2. firm' \in Firm
    BY <1>10, <2>1, TakenIs DEF Deliver, TypeOK
  <2> QED BY <1>10, <2>2 DEF Deliver, TypeOK, ReadyInv
<1>11. CASE Tick
  BY <1>11 DEF Tick, TypeOK, ReadyInv
<1>12. CASE UNCHANGED vars
  BY <1>12 DEF vars, TypeOK, ReadyInv
<1> QED BY <1>1, <1>2, <1>3, <1>4, <1>5, <1>7, <1>8, <1>9, <1>10, <1>11, <1>12 DEF Next

(* Every state of the firm's row, its checkouts and Stripe's events is     *)
(* well formed, whatever happens.                                          *)
THEOREM SubscriptionsTypeCorrect == Spec => [](TypeOK /\ ReadyInv)
<1>1. Init => TypeOK /\ ReadyInv
  BY TypeInit DEF Init, ReadyInv
<1> QED BY <1>1, TypeStep, PTL DEF Spec

--------------------------------------------------------------------------------
(* The customer on file *)

(* A row keeps its customer under an event that carries it.                *)
LEMMA DeliveredIs ==
  ASSUME TypeOK, NEW e \in sent, EventHolds(e), Deliver(e)
  PROVE  /\ e \in Event /\ UNCHANGED <<co, sub, sent, now, changes>> /\ got' = got \cup {e}
         /\ firm' = (IF InOrder(e) THEN Taken(e) ELSE firm)
         /\ firm'.customer = firm.customer
<1>1. e \in Event
  BY DEF TypeOK
<1>2. Resolved(e)
  BY DEF Resolved, EventHolds
<1>3. firm' = (IF InOrder(e) THEN Taken(e) ELSE firm)
  BY <1>2 DEF Deliver
<1>4. Taken(e).customer = firm.customer
  BY <1>1, TakenIs DEF EventHolds
<1> QED BY <1>1, <1>3, <1>4 DEF Deliver

(* What an emitted event says.                                             *)
LEMMA EmittedIs ==
  ASSUME NEW type, NEW k, NEW x, NEW bare, Emit(type, k, x, bare)
  PROVE  \E e : /\ sent' = sent \cup {e} /\ e.type = type /\ e.of = k /\ e.at = now /\ e.sub = x
<1> DEFINE e == [type |-> type, of |-> k, at |-> now, bare |-> bare, sub |-> x]
<1>1. sent' = sent \cup {e} /\ e.type = type /\ e.of = k /\ e.at = now /\ e.sub = x
  BY DEF Emit
<1> QED BY <1>1

(* A change of a subscription keeps CustomerInv if it carries the customer *)
(* on file.                                                                *)
LEMMA CustomerKept ==
  ASSUME TypeOK, CustomerInv, NEW k \in Checkouts, NEW type, NEW x \in Subscription,
         Becomes(k, type, x), x.customer = firm.customer, x.ends # None,
         co[k].phase \in {"open", "paid"},
         co[k].phase = "open" => x.status # "canceled" /\ x.plan = co[k].plan,
         UNCHANGED <<firm, co, now>>
  PROVE  CustomerInv'
<1>1. sub'[k] = x /\ x # None /\ \A l \in Checkouts : l # k => sub'[l] = sub[l]
  BY Constants DEF Becomes
<1> PICK e : /\ sent' = sent \cup {e} /\ e.of = k /\ e.at = now /\ e.sub = x
  BY EmittedIs DEF Becomes
<1>2. FirstAlone'
  BY DEF FirstAlone, UnderWay, CustomerInv
<1>3. ASSUME NEW l \in Checkouts PROVE CheckoutHolds(l)'
  <2>1. CASE l = k
    BY <1>1, <2>1 DEF CheckoutHolds, CustomerInv
  <2>2. CASE l # k
    BY <1>1, <2>2 DEF CheckoutHolds, CustomerInv
  <2> QED BY <2>1, <2>2
<1>4. ASSUME NEW f \in sent' PROVE EventHolds(f)'
  <2>1. CASE f = e
    <3>1. now \in Nat
      BY DEF TypeOK
    <3> QED BY <1>1, <2>1, <3>1 DEF EventHolds
  <2>2. CASE f \in sent
    <3>1. EventHolds(f) /\ f.of \in Checkouts
      BY <2>2 DEF CustomerInv, TypeOK, Event
    <3> QED BY <1>1, <3>1 DEF EventHolds
  <2> QED BY <2>1, <2>2
<1> QED BY <1>2, <1>3, <1>4 DEF CustomerInv

LEMMA CustomerStep ==
  ASSUME "double" \notin Faults, TypeOK, ReadyInv, CustomerInv, [Next]_vars
  PROVE  CustomerInv'
<1> USE Constants
<1>1. ASSUME NEW k \in Checkouts, NEW plan \in Plans, AskCheckout(k, plan) PROVE CustomerInv'
  <2>1. /\ UNCHANGED <<firm, sub, sent, got, now, changes>> /\ co[k].phase = "none"
        /\ firm.customer # None \/ UnderWay = {}
    BY <1>1 DEF AskCheckout
  <2>2. \A l \in Checkouts : co'[l] = IF l = k
          THEN [phase |-> "asked", customer |-> firm.customer, plan |-> plan] ELSE co[l]
    BY <1>1 DEF AskCheckout, TypeOK
  <2>3. FirstAlone'
    BY <2>1, <2>2 DEF FirstAlone, UnderWay
  <2>4. \A l \in Checkouts : CheckoutHolds(l)'
    BY <2>1, <2>2 DEF CheckoutHolds, CustomerInv
  <2> QED BY <2>1, <2>3, <2>4 DEF CustomerInv, EventHolds
<1>2. ASSUME NEW k \in Checkouts, StoreCustomer(k) PROVE CustomerInv'
  <2>1. UNCHANGED <<sub, sent, got, now, changes>> /\ co[k].phase = "asked" /\ k \in UnderWay
    BY <1>2 DEF StoreCustomer, UnderWay
  <2>2. /\ \A l \in Checkouts : l # k => co'[l] = co[l]
        /\ co'[k].phase = "named" /\ co'[k].customer # None
        /\ co[k].customer # None => co'[k].customer = co[k].customer /\ firm' = firm
        /\ co[k].customer = None => firm'.customer = co'[k].customer
    BY <1>2, StoredIs
  <2>3. co[k].customer = firm.customer
    BY <2>1 DEF CustomerInv, CheckoutHolds
  <2>4. FirstAlone'
    BY <2>2, <2>3 DEF FirstAlone
  <2>5. sub[k] = None
    BY <2>1 DEF CustomerInv, CheckoutHolds
  <2>6. CASE firm.customer # None
    <3>1. firm' = firm /\ co'[k].customer = firm.customer
      BY <2>2, <2>3, <2>6
    <3>2. \A l \in Checkouts : CheckoutHolds(l)'
      BY <2>1, <2>2, <2>5, <3>1 DEF CheckoutHolds, CustomerInv
    <3> QED BY <2>1, <2>4, <3>1, <3>2 DEF CustomerInv, EventHolds
  <2>7. CASE firm.customer = None
    <3>1. firm'.customer = co'[k].customer
      BY <2>2, <2>3, <2>7
    <3>2. \A l \in Checkouts : l # k => co[l].phase = "none" /\ sub[l] = None
      <4> SUFFICES ASSUME NEW l \in Checkouts, l # k PROVE co[l].phase = "none" /\ sub[l] = None
        OBVIOUS
      <4>1. co[l].phase \notin {"named", "open", "paid"}
        BY <2>7 DEF CustomerInv, CheckoutHolds
      <4>2. l \notin UnderWay
        BY <2>1, <2>7 DEF CustomerInv, FirstAlone
      <4>3. co[l].phase \in {"none", "asked", "named", "open", "paid"}
        BY DEF TypeOK, Checkout
      <4> QED BY <4>1, <4>2, <4>3 DEF UnderWay, CustomerInv, CheckoutHolds
    <3>3. sent = {}
      <4> SUFFICES ASSUME NEW e \in sent PROVE FALSE
        OBVIOUS
      <4>1. e.of \in Checkouts /\ sub[e.of] # None
        BY Constants DEF CustomerInv, EventHolds, TypeOK, Event
      <4> QED BY <2>5, <3>2, <4>1
    <3>4. \A l \in Checkouts : CheckoutHolds(l)'
      BY <2>1, <2>2, <2>5, <3>1, <3>2 DEF CheckoutHolds
    <3> QED BY <2>1, <2>4, <3>3, <3>4 DEF CustomerInv
  <2> QED BY <2>6, <2>7
<1>3. ASSUME NEW k \in Checkouts, OpenSession(k) PROVE CustomerInv'
  <2>1. UNCHANGED <<firm, sub, sent, got, now, changes>> /\ co[k].phase = "named"
    BY <1>3 DEF OpenSession
  <2>2. /\ \A l \in Checkouts : l # k => co'[l] = co[l]
        /\ co'[k].customer = co[k].customer /\ co'[k].plan = co[k].plan /\ co'[k].phase = "open"
    BY <1>3, SetPhase DEF OpenSession
  <2>3. FirstAlone'
    <3>1. UnderWay' \subseteq UnderWay
      BY <2>1, <2>2 DEF UnderWay
    <3> QED BY <2>1, <3>1 DEF FirstAlone, CustomerInv
  <2>4. \A l \in Checkouts : CheckoutHolds(l)'
    BY <2>1, <2>2 DEF CheckoutHolds, CustomerInv
  <2> QED BY <2>1, <2>3, <2>4 DEF CustomerInv, EventHolds
<1>4. ASSUME NEW k \in Checkouts, Abandon(k) PROVE CustomerInv'
  <2>1. UNCHANGED <<firm, sub, sent, got, now, changes>> /\ sub[k] = None
    BY <1>4 DEF Abandon
  <2>2. \A l \in Checkouts : co'[l] = IF l = k
          THEN [phase |-> "none", customer |-> None, plan |-> Trial] ELSE co[l]
    BY <1>4 DEF Abandon, TypeOK
  <2>3. FirstAlone'
    <3>1. UnderWay' \subseteq UnderWay
      BY <2>1, <2>2 DEF UnderWay
    <3> QED BY <2>1, <3>1 DEF FirstAlone, CustomerInv
  <2>4. \A l \in Checkouts : CheckoutHolds(l)'
    BY <2>1, <2>2 DEF CheckoutHolds, CustomerInv
  <2> QED BY <2>1, <2>3, <2>4 DEF CustomerInv, EventHolds
<1>5. ASSUME NEW k \in Checkouts, ConfirmPayment(k) PROVE CustomerInv'
  <2>1. UNCHANGED <<firm, sub, got, now, changes>> /\ sub[k] # None /\ co[k].phase = "open"
    BY <1>5 DEF ConfirmPayment
  <2>2. /\ \A l \in Checkouts : l # k => co'[l] = co[l]
        /\ co'[k].customer = co[k].customer /\ co'[k].plan = co[k].plan /\ co'[k].phase = "paid"
    BY <1>5, SetPhase DEF ConfirmPayment
  <2> PICK x \in Subscription :
        x.customer = co[k].customer /\ \E bare \in BOOLEAN : Emit("completed", k, x, bare)
    BY <1>5, ConfirmIs
  <2> PICK bare \in BOOLEAN : Emit("completed", k, x, bare)
    OBVIOUS
  <2> PICK e : sent' = sent \cup {e} /\ e.of = k /\ e.at = now /\ e.sub = x
    BY EmittedIs
  <2>3. FirstAlone'
    <3>1. UnderWay' \subseteq UnderWay
      BY <2>1, <2>2 DEF UnderWay
    <3> QED BY <2>1, <3>1 DEF FirstAlone, CustomerInv
  <2>4. \A l \in Checkouts : CheckoutHolds(l)'
    BY <2>1, <2>2 DEF CheckoutHolds, CustomerInv
  <2>5. \A f \in sent' : EventHolds(f)'
    <3>1. co[k].customer = firm.customer /\ now \in Nat
      BY <2>1 DEF CustomerInv, CheckoutHolds, TypeOK
    <3> QED BY <2>1, <3>1 DEF CustomerInv, EventHolds
  <2> QED BY <2>3, <2>4, <2>5 DEF CustomerInv
<1>6. now + 1 # None
  BY DEF TypeOK
<1>7. ASSUME NEW k \in Checkouts, NEW bare \in BOOLEAN, Pay(k, bare) PROVE CustomerInv'
  <2>1. UNCHANGED <<firm, co, now>> /\ co[k].phase = "open" /\ k \in UnderWay
    BY <1>7 DEF Pay, UnderWay
  <2>2. co[k].customer = firm.customer
    BY <2>1 DEF CustomerInv, CheckoutHolds
  <2> QED BY <1>6, <1>7, <2>1, <2>2, PayIs, CustomerKept
<1>8. ASSUME NEW k \in Checkouts, NEW bare \in BOOLEAN, Cancel(k, bare) PROVE CustomerInv'
  <2>1. UNCHANGED <<firm, co, now>> /\ co[k].phase = "paid" /\ k \in Live
    BY <1>8 DEF Cancel
  <2>2. sub[k].customer = firm.customer /\ sub[k].ends # None
    BY <2>1 DEF Live, CustomerInv, CheckoutHolds
  <2> QED BY <1>8, <2>1, <2>2, CancelIs, CustomerKept
<1>9. ASSUME NEW k \in Checkouts, NEW bare \in BOOLEAN, NEW status \in {"active", "past_due"},
             NEW plan \in Plans, Change(k, status, plan, bare)
      PROVE  CustomerInv'
  <2>1. UNCHANGED <<firm, co, now>> /\ co[k].phase = "paid" /\ k \in Live
    BY <1>9 DEF Change
  <2>2. sub[k].customer = firm.customer
    BY <2>1 DEF Live, CustomerInv, CheckoutHolds
  <2> QED BY <1>6, <1>9, <2>1, <2>2, ChangeIs, CustomerKept
<1>10. ASSUME NEW e \in sent, Deliver(e) PROVE CustomerInv'
  <2>1. UNCHANGED <<co, sub, sent, now>> /\ firm'.customer = firm.customer
    BY <1>10, DeliveredIs DEF CustomerInv
  <2> QED BY <2>1 DEF CustomerInv, FirstAlone, UnderWay, CheckoutHolds, EventHolds
<1>11. CASE Tick
  <2>1. UNCHANGED <<firm, co, sub, sent>> /\ now' = now + 1 /\ now \in Nat
    BY <1>11 DEF Tick, TypeOK
  <2>2. \A e \in sent : e.at \in Nat
    BY DEF TypeOK, Event
  <2>3. \A e \in sent : EventHolds(e)'
    BY <2>1, <2>2 DEF CustomerInv, EventHolds
  <2> QED BY <2>1, <2>3 DEF CustomerInv, FirstAlone, UnderWay, CheckoutHolds
<1>12. CASE UNCHANGED vars
  BY <1>12 DEF vars, CustomerInv, FirstAlone, UnderWay, CheckoutHolds, EventHolds
<1> QED BY <1>1, <1>2, <1>3, <1>4, <1>5, <1>7, <1>8, <1>9, <1>10, <1>11, <1>12 DEF Next

LEMMA CustomerInit == Init => CustomerInv
<1> QED BY Constants DEF Init, CustomerInv, FirstAlone, UnderWay, CheckoutHolds

(* The portal opens on the customer that has the subscription, in whatever *)
(* order and second the events come and however many subscriptions run, as *)
(* long as one checkout is under way before the firm has a customer        *)
(* (subscriptions.ts 91-154).                                              *)
THEOREM PortalReaches ==
  ASSUME "double" \notin Faults
  PROVE  Spec => []PortalReachesIt
<1>1. Init => CustomerInv
  BY CustomerInit
<1>2. TypeOK /\ ReadyInv /\ CustomerInv /\ [Next]_vars => CustomerInv'
  BY CustomerStep
<1>3. CustomerInv => PortalReachesIt
  BY DEF CustomerInv, CheckoutHolds, PortalReachesIt, Live
<1> QED BY <1>1, <1>2, <1>3, SubscriptionsTypeCorrect, PTL DEF Spec

--------------------------------------------------------------------------------
(* The order of the events *)

LEMMA OrderInit == Init => OrderInv
<1> SUFFICES ASSUME Init PROVE OrderInv
  OBVIOUS
<1>1. firm.limit = LimitOf[firm.plan] /\ firm.last = None /\ sent = {} /\ got = {}
  BY DEF Init
<1>2. firm.status = "trialing" /\ firm.ends = None /\ firm.plan = Trial
  BY DEF Init
<1>3. \A k \in Checkouts : sub[k] = None
  BY DEF Init
<1> QED BY <1>1, <1>2, <1>3 DEF OrderInv, SecondsInv, LatestInv, RowInv, EndsInv, Paid

(* A step that leaves Stripe, and what the row says of it, alone.          *)
LEMMA OrderKept ==
  ASSUME OrderInv, UNCHANGED <<sub, sent, got>>,
         firm'.status = firm.status, firm'.ends = firm.ends, firm'.plan = firm.plan,
         firm'.limit = firm.limit, firm'.last = firm.last
  PROVE  OrderInv'
<1>1. SecondsInv'
  BY DEF OrderInv, SecondsInv
<1>2. LatestInv'
  BY DEF OrderInv, LatestInv, IsLatest
<1>3. RowInv'
  BY DEF OrderInv, RowInv, ShownBy
<1>4. EndsInv'
  BY DEF OrderInv, EndsInv, Paid
<1> QED BY <1>1, <1>2, <1>3, <1>4 DEF OrderInv

(* A change of a subscription is alone in its second, and the latest.      *)
LEMMA ChangedLast ==
  ASSUME TypeOK, CustomerInv, OrderInv, NEW k \in Checkouts, NEW type \in {"changed", "deleted"},
         NEW x \in Subscription, Becomes(k, type, x), type = "deleted" <=> x.status = "canceled",
         sub[k] = None \/ sub[k].status # "canceled", OwnSecond(k), "second" \notin Faults,
         UNCHANGED <<firm, got>>
  PROVE  OrderInv'
<1>1. sub'[k] = x /\ x # None /\ \A l \in Checkouts : l # k => sub'[l] = sub[l]
  BY Constants DEF Becomes
<1> PICK bare \in BOOLEAN : Emit(type, k, x, bare)
  BY DEF Becomes
<1> PICK e : sent' = sent \cup {e} /\ e.type = type /\ e.of = k /\ e.at = now /\ e.sub = x
  BY EmittedIs
<1>2. \A f \in sent : f.at # now /\ f.at <= now /\ f.at \in Nat /\ now \in Nat
  BY Constants DEF OwnSecond, CustomerInv, EventHolds, TypeOK, Event
<1>3. SecondsInv'
  <2>1. \A f, g \in sent : f.at = g.at => SameSecond(f, g)
    BY DEF OrderInv, SecondsInv
  <2>2. SameSecond(e, e)
    BY DEF SameSecond, Begins
  <2>3. \A f \in sent : f.type = "completed" => \E g \in sent : g.type = "changed" /\ g.at = f.at
    BY DEF OrderInv, SecondsInv
  <2>4. \A f, g \in sent' : f.at = g.at => SameSecond(f, g)
    BY <1>2, <2>1, <2>2
  <2>5. \A f \in sent' : f.type = "completed" => \E g \in sent' : g.type = "changed" /\ g.at = f.at
    BY <2>3
  <2> QED BY <2>4, <2>5 DEF SecondsInv, SameSecond, Begins
<1>4. LatestInv'
  <2>2. e.type # "completed" /\ e.sub = sub'[e.of]
    BY <1>1
  <2>3. e.type = "deleted" <=> sub'[e.of].status = "canceled"
    BY <1>1
  <2>4. \A f \in sent' : f.at <= e.at
    <3>1. now \in Nat
      BY DEF TypeOK
    <3> QED BY <1>2, <3>1
  <2> QED BY <2>2, <2>3, <2>4 DEF LatestInv, IsLatest
<1>5. RowInv'
  BY DEF OrderInv, RowInv, ShownBy
<1>6. EndsInv'
  <2>1. \A f \in sent : f.type = "deleted" => f.of # k
    BY DEF OrderInv, EndsInv
  <2>2. \A f \in sent : f.of \in Checkouts
    BY DEF TypeOK, Event
  <2>3. \A f \in sent' : f.type = "deleted" =>
          /\ sub'[f.of] # None /\ sub'[f.of].status = "canceled"
          /\ \A g \in sent' : g.of = f.of => g.at <= f.at
    <3> SUFFICES ASSUME NEW f \in sent', f.type = "deleted"
                 PROVE  /\ sub'[f.of] # None /\ sub'[f.of].status = "canceled"
                        /\ \A g \in sent' : g.of = f.of => g.at <= f.at
      OBVIOUS
    <3>1. CASE f = e
      <4>1. now \in Nat
        BY DEF TypeOK
      <4> QED BY <1>1, <1>2, <3>1, <4>1
    <3>2. CASE f \in sent
      BY <1>1, <2>1, <2>2, <3>2 DEF OrderInv, EndsInv
    <3> QED BY <3>1, <3>2
  <2>4. \A l \in Paid' : \E f \in sent' : f.of = l
    BY <1>1 DEF OrderInv, EndsInv, Paid
  <2> QED BY <2>3, <2>4 DEF EndsInv
<1> QED BY <1>3, <1>4, <1>5, <1>6 DEF OrderInv

(* The confirmation of a payment joins the subscription's beginning.       *)
LEMMA ConfirmedLast ==
  ASSUME TypeOK, ReadyInv, CustomerInv, OrderInv, NEW k \in Checkouts, ConfirmPayment(k),
         "late" \notin Faults
  PROVE  OrderInv'
<1>1. UNCHANGED <<firm, sub, got, now>> /\ co[k].phase = "open" /\ sub[k] # None
  BY DEF ConfirmPayment
<1> PICK f \in sent : f.of = k /\ f.type = "changed" /\ f.at = now
  BY DEF ConfirmPayment
<1> PICK x \in Subscription :
      x.plan = co[k].plan /\ \E bare \in BOOLEAN : Emit("completed", k, x, bare)
  BY ConfirmIs
<1> PICK bare \in BOOLEAN : Emit("completed", k, x, bare)
  OBVIOUS
<1> PICK e : sent' = sent \cup {e} /\ e.type = "completed" /\ e.of = k /\ e.at = now /\ e.sub = x
  BY EmittedIs
<1>2. \A g \in sent : g.at <= now /\ g.at \in Nat /\ now \in Nat
  BY Constants DEF CustomerInv, EventHolds, TypeOK, Event
<1>3. \A g, h \in sent : g.at = h.at => SameSecond(g, h)
  BY DEF OrderInv, SecondsInv
<1>4. IsLatest(f)
  <2> PICK g \in sent : IsLatest(g)
    BY DEF OrderInv, LatestInv
  <2>1. g.at = now
    BY <1>2 DEF IsLatest
  <2>2. g = f
    BY <1>3, <2>1 DEF SameSecond, IsLatest
  <2> QED BY <2>2
<1>5. f.sub.plan = x.plan
  BY <1>1, <1>4 DEF IsLatest, CustomerInv, CheckoutHolds
<1>6. SecondsInv'
  <2>1. \A g \in sent : g.at = e.at => SameSecond(e, g) /\ SameSecond(g, e)
    <3> SUFFICES ASSUME NEW g \in sent, g.at = now PROVE SameSecond(e, g) /\ SameSecond(g, e)
      OBVIOUS
    <3>1. SameSecond(g, f) /\ SameSecond(f, g)
      BY <1>3
    <3> QED BY <1>5, <3>1 DEF SameSecond, Begins
  <2>2. SameSecond(e, e)
    BY DEF SameSecond, Begins
  <2>3. \A g, h \in sent' : g.at = h.at => SameSecond(g, h)
    BY <1>3, <2>1, <2>2
  <2>4. \A g \in sent : g.type = "completed" => \E h \in sent : h.type = "changed" /\ h.at = g.at
    BY DEF OrderInv, SecondsInv
  <2>5. \A g \in sent' : g.type = "completed" => \E h \in sent' : h.type = "changed" /\ h.at = g.at
    BY <2>4
  <2> QED BY <2>3, <2>5 DEF SecondsInv, SameSecond, Begins
<1>7. LatestInv'
  <2>1. \A g \in sent' : g.at <= f.at
    BY <1>2
  <2> QED BY <1>1, <1>4, <2>1 DEF LatestInv, IsLatest
<1>8. RowInv'
  BY <1>1 DEF OrderInv, RowInv, ShownBy
<1>9. EndsInv'
  <2>1. sub[k].status # "canceled"
    BY <1>1 DEF CustomerInv, CheckoutHolds
  <2>2. \A g \in sent : g.type = "deleted" => g.of # k
    BY <2>1 DEF OrderInv, EndsInv
  <2> QED BY <1>1, <2>2 DEF OrderInv, EndsInv, Paid
<1> QED BY <1>6, <1>7, <1>8, <1>9 DEF OrderInv

(* A delivery, in or out of order, new or repeated.                        *)
LEMMA DeliveredInOrder ==
  ASSUME TypeOK, CustomerInv, OrderInv, NEW e \in sent, Deliver(e)
  PROVE  OrderInv'
<1>1. EventHolds(e)
  BY DEF CustomerInv
<1>2. /\ e \in Event /\ UNCHANGED <<co, sub, sent, now, changes>> /\ got' = got \cup {e}
      /\ firm' = (IF InOrder(e) THEN Taken(e) ELSE firm)
  BY <1>1, DeliveredIs
<1>3. SecondsInv'
  BY <1>2 DEF OrderInv, SecondsInv
<1>4. LatestInv' /\ EndsInv'
  BY <1>2 DEF OrderInv, LatestInv, IsLatest, EndsInv, Paid
<1>5. \A g \in sent : g \in Event /\ g.at \in Nat /\ g.at # None
  BY Constants DEF TypeOK, Event
<1>6. got \subseteq sent /\ (firm.last # None => firm.last \in Nat)
  BY Constants DEF TypeOK, Firm, TimeOrNone
<1>7. CASE InOrder(e)
  <2>1. firm' = Taken(e)
    BY <1>2, <1>7
  <2>2. /\ firm'.last = e.at /\ firm'.limit = LimitOf[firm'.plan]
        /\ firm'.plan = (IF e.type = "deleted" THEN Trial ELSE e.sub.plan)
    BY <1>2, <2>1, TakenIs
  <2>3. /\ e.type = "completed" => firm'.status = firm.status /\ firm'.ends = firm.ends
        /\ e.type = "changed" => firm'.status = e.sub.status /\ firm'.ends = e.sub.ends
        /\ e.type = "deleted" => firm'.status = "canceled"
    BY <1>2, <2>1, TakenIs
  <2>4. ASSUME NEW g \in got' PROVE g.at <= e.at /\ (g.at = e.at => ShownBy(g)')
    <3>1. CASE g = e
      BY <1>5, <2>2, <2>3, <3>1 DEF ShownBy
    <3>2. CASE g \in got
      <4>1. firm.last # None /\ g.at <= firm.last /\ (g.at = firm.last => ShownBy(g))
        BY <3>2 DEF OrderInv, RowInv
      <4>2. firm.last <= e.at /\ firm.last \in Nat /\ g.at \in Nat /\ e.at \in Nat
        BY <1>5, <1>6, <1>7, <3>2, <4>1 DEF InOrder
      <4>3. g.at <= e.at
        BY <4>1, <4>2
      <4>4. ASSUME g.at = e.at PROVE ShownBy(g)'
        <5>1. ShownBy(g)
          BY <4>1, <4>2, <4>4
        <5>2. SameSecond(e, g) /\ SameSecond(g, e)
          BY <1>6, <3>2, <4>4 DEF OrderInv, SecondsInv
        <5>3. e.type \in {"completed", "changed", "deleted"} /\ g.type \in {"completed", "changed", "deleted"}
          BY <1>2, <1>5, <1>6, <3>2 DEF Event
        <5>4. CASE e.type = "completed"
          <6>1. g.type # "deleted" /\ g.sub.plan = e.sub.plan
            BY <5>2, <5>3, <5>4 DEF SameSecond, Begins
          <6> QED BY <2>2, <2>3, <5>1, <5>4, <6>1 DEF ShownBy
        <5>5. CASE e.type # "completed" /\ g.type = "completed"
          <6>1. e.type = "changed" /\ g.sub.plan = e.sub.plan
            BY <5>2, <5>5 DEF SameSecond, Begins
          <6> QED BY <2>2, <5>5, <6>1 DEF ShownBy
        <5>6. CASE e.type # "completed" /\ g.type # "completed"
          <6>1. g = e
            BY <5>2, <5>6 DEF SameSecond
          <6> QED BY <3>1, <6>1, <2>2, <2>3 DEF ShownBy
        <5> QED BY <5>4, <5>5, <5>6
      <4> QED BY <4>3, <4>4
    <3> QED BY <1>2, <3>1, <3>2
  <2>5. e \in got' /\ e.at # None
    BY <1>2, <1>5
  <2>6. RowInv'
    BY <2>2, <2>4, <2>5 DEF RowInv
  <2> QED BY <1>3, <1>4, <2>6 DEF OrderInv
<1>8. CASE ~InOrder(e)
  <2>1. firm' = firm /\ firm.last # None /\ e.at < firm.last
    BY <1>2, <1>5, <1>6, <1>8 DEF InOrder
  <2>2. /\ firm.limit = LimitOf[firm.plan] /\ \E g \in got : g.at = firm.last
        /\ \A g \in got : g.at <= firm.last /\ (g.at = firm.last => ShownBy(g))
    BY <2>1 DEF OrderInv, RowInv
  <2>3. ASSUME NEW g \in got' PROVE g.at <= firm.last /\ (g.at = firm.last => ShownBy(g)')
    <3>1. CASE g = e
      BY <1>5, <1>6, <2>1, <3>1
    <3>2. CASE g \in got
      BY <2>1, <2>2, <3>2 DEF ShownBy
    <3> QED BY <1>2, <3>1, <3>2
  <2>4. RowInv'
    BY <1>2, <2>1, <2>2, <2>3 DEF RowInv
  <2> QED BY <1>3, <1>4, <2>4 DEF OrderInv
<1> QED BY <1>7, <1>8

LEMMA OrderStep ==
  ASSUME "late" \notin Faults, "second" \notin Faults, TypeOK, ReadyInv, CustomerInv, OrderInv,
         [Next]_vars
  PROVE  OrderInv'
<1>1. ASSUME NEW k \in Checkouts, NEW plan \in Plans, AskCheckout(k, plan) PROVE OrderInv'
  BY <1>1, OrderKept DEF AskCheckout
<1>2. ASSUME NEW k \in Checkouts, StoreCustomer(k) PROVE OrderInv'
  <2>1. UNCHANGED <<sub, sent, got>>
    BY <1>2 DEF StoreCustomer
  <2> QED BY <1>2, <2>1, StoredIs, OrderKept
<1>3. ASSUME NEW k \in Checkouts, OpenSession(k) PROVE OrderInv'
  BY <1>3, OrderKept DEF OpenSession
<1>4. ASSUME NEW k \in Checkouts, Abandon(k) PROVE OrderInv'
  BY <1>4, OrderKept DEF Abandon
<1>5. ASSUME NEW k \in Checkouts, ConfirmPayment(k) PROVE OrderInv'
  BY <1>5, ConfirmedLast
<1>6. ASSUME NEW k \in Checkouts, NEW bare \in BOOLEAN, Pay(k, bare) PROVE OrderInv'
  <2>1. UNCHANGED <<firm, got>> /\ sub[k] = None /\ OwnSecond(k)
    BY <1>6 DEF Pay
  <2> PICK x \in Subscription : Becomes(k, "changed", x) /\ x.status \in {"active", "trialing"}
    BY <1>6, PayIs
  <2> QED BY <2>1, ChangedLast
<1>7. ASSUME NEW k \in Checkouts, NEW bare \in BOOLEAN, Cancel(k, bare) PROVE OrderInv'
  <2>1. UNCHANGED <<firm, got>> /\ sub[k].status # "canceled" /\ OwnSecond(k)
    BY <1>7 DEF Cancel, Live
  <2> PICK x \in Subscription : Becomes(k, "deleted", x) /\ x.status = "canceled"
    BY <1>7, CancelIs
  <2> QED BY <2>1, ChangedLast
<1>8. ASSUME NEW k \in Checkouts, NEW bare \in BOOLEAN, NEW status \in {"active", "past_due"},
             NEW plan \in Plans, Change(k, status, plan, bare)
      PROVE  OrderInv'
  <2>1. UNCHANGED <<firm, got>> /\ sub[k].status # "canceled" /\ OwnSecond(k)
    BY <1>8 DEF Change, Live
  <2> PICK x \in Subscription : Becomes(k, "changed", x) /\ x.status # "canceled"
    BY <1>8, ChangeIs
  <2> QED BY <2>1, ChangedLast
<1>9. ASSUME NEW e \in sent, Deliver(e) PROVE OrderInv'
  BY <1>9, DeliveredInOrder
<1>10. CASE Tick
  BY <1>10, OrderKept DEF Tick
<1>11. CASE UNCHANGED vars
  BY <1>11, OrderKept DEF vars
<1> QED BY <1>1, <1>2, <1>3, <1>4, <1>5, <1>6, <1>7, <1>8, <1>9, <1>10, <1>11 DEF Next

(* All three parts hold while Stripe confirms a payment in its own second. *)
LEMMA OrderHolds ==
  ASSUME Faults = {}
  PROVE  Spec => [](TypeOK /\ CustomerInv /\ OrderInv)
<1>1. Init => CustomerInv /\ OrderInv
  BY CustomerInit, OrderInit
<1>2. TypeOK /\ ReadyInv /\ CustomerInv /\ OrderInv /\ [Next]_vars => CustomerInv' /\ OrderInv'
  BY CustomerStep, OrderStep
<1> QED BY <1>1, <1>2, SubscriptionsTypeCorrect, PTL DEF Spec

(* The row once every event is delivered: it shows the latest.             *)
LEMMA SettledShows ==
  ASSUME TypeOK, OrderInv, Settled, sent # {}
  PROVE  \E e \in sent : IsLatest(e) /\ ShownBy(e)
<1> PICK e \in sent : IsLatest(e)
  BY DEF OrderInv, LatestInv
<1>1. e \in got /\ got \subseteq sent
  BY DEF Settled, TypeOK
<1>2. firm.last # None
  BY <1>1 DEF OrderInv, RowInv
<1> PICK g \in got : g.at = firm.last
  BY <1>2 DEF OrderInv, RowInv
<1>3. e.at \in Nat /\ g.at \in Nat
  BY <1>1, Constants DEF TypeOK, Event
<1>4. e.at <= g.at
  BY <1>1, <1>2 DEF OrderInv, RowInv
<1>5. g.at <= e.at
  BY <1>1 DEF IsLatest
<1>6. e.at = firm.last
  BY <1>3, <1>4, <1>5
<1>7. ShownBy(e)
  BY <1>1, <1>2, <1>6 DEF OrderInv, RowInv
<1> QED BY <1>7

(* If one subscription ran at a time, none runs beside the one the latest  *)
(* event is of.                                                            *)
LEMMA LatestAlone ==
  ASSUME TypeOK, OrderInv, OneAtATime, NEW e \in sent, IsLatest(e), sub[e.of] # None
  PROVE  Live \subseteq {e.of}
<1> SUFFICES ASSUME NEW k \in Live, k # e.of PROVE FALSE
  OBVIOUS
<1>1. \A f \in sent : f.at \in Nat /\ f.of \in Checkouts
  BY Constants DEF TypeOK, Event
<1>2. k \in Paid /\ e.of \in Paid /\ sub[k].status # "canceled"
  BY <1>1 DEF Live, Paid
<1>3. ~Before(k, e.of)
  BY <1>2 DEF Before, OrderInv, EndsInv
<1>4. ASSUME Before(e.of, k) PROVE FALSE
  <2> PICK d \in sent : d.type = "deleted" /\ d.of = e.of /\ \A f \in sent : f.of = k => d.at < f.at
    BY <1>4 DEF Before
  <2> PICK f \in sent : f.of = k
    BY <1>2 DEF OrderInv, EndsInv
  <2>1. d.at < f.at /\ f.at <= e.at /\ e.at <= d.at
    BY DEF IsLatest, OrderInv, EndsInv
  <2> QED BY <1>1, <2>1
<1> QED BY <1>2, <1>3, <1>4 DEF OneAtATime

(* What a settled row says, with the subscription that changed last.       *)
LEMMA SettledIs ==
  ASSUME TypeOK, CustomerInv, OrderInv, Settled
  PROVE  \/ /\ \A k \in Checkouts : sub[k] = None
            /\ firm.plan = Trial /\ firm.status = "trialing" /\ firm.ends = None
         \/ \E k \in Checkouts :
              /\ sub[k] \in Subscription /\ sub[k] # None
              /\ OneAtATime => Live \subseteq {k}
              /\ k \in Live => /\ firm.plan = sub[k].plan /\ firm.status = sub[k].status
                               /\ firm.ends = sub[k].ends
              /\ k \notin Live => firm.plan = Trial /\ firm.status = "canceled"
<1>1. CASE sent = {}
  <2>1. got = {}
    BY <1>1 DEF TypeOK
  <2> QED BY <1>1, <2>1 DEF OrderInv, LatestInv, RowInv
<1>2. CASE sent # {}
  <2> PICK e \in sent : IsLatest(e) /\ ShownBy(e)
    BY <1>2, SettledShows
  <2>1. e.of \in Checkouts /\ e.type \in {"completed", "changed", "deleted"}
    BY DEF TypeOK, Event
  <2>2. sub[e.of] # None /\ sub[e.of] \in Subscription
    BY <2>1 DEF CustomerInv, EventHolds, TypeOK
  <2>3. OneAtATime => Live \subseteq {e.of}
    BY <2>2, LatestAlone
  <2>4. e.of \in Live => e.type = "changed"
    BY <2>1 DEF Live, IsLatest
  <2>5. e.of \notin Live => e.type = "deleted"
    BY <2>1, <2>2 DEF Live, IsLatest
  <2>6. e.of \in Live => /\ firm.plan = sub[e.of].plan /\ firm.status = sub[e.of].status
                         /\ firm.ends = sub[e.of].ends
    BY <2>4 DEF IsLatest, ShownBy
  <2>7. e.of \notin Live => firm.plan = Trial /\ firm.status = "canceled"
    BY <2>5 DEF ShownBy
  <2> QED BY <2>1, <2>2, <2>3, <2>6, <2>7
<1> QED BY <1>1, <1>2

(* Whatever order its events come in and however often, a firm ends up on  *)
(* trial when it has no subscription any more, and on the plan, the        *)
(* allowance and the status of the one it has if it had one at a time      *)
(* (subscriptions.ts 182-317, migration 010).                              *)
THEOREM SettlesRightly ==
  ASSUME Faults = {}
  PROVE  Spec => []SettlesOnStripe
<1>1. TypeOK /\ CustomerInv /\ OrderInv => SettlesOnStripe
  <2> DEFINE Trialing == Live = {} =>
               /\ firm.plan = Trial
               /\ firm.status = IF Paid = {} THEN "trialing" ELSE "canceled"
             Shown == OneAtATime =>
               \A k \in Live : firm.plan = sub[k].plan /\ firm.status = sub[k].status
  <2> SUFFICES ASSUME TypeOK, CustomerInv, OrderInv, Settled
               PROVE  firm.limit = LimitOf[firm.plan] /\ Trialing /\ Shown
    BY DEF SettlesOnStripe
  <2>1. firm.limit = LimitOf[firm.plan]
    BY DEF OrderInv, RowInv
  <2>2. CASE /\ \A k \in Checkouts : sub[k] = None
             /\ firm.plan = Trial /\ firm.status = "trialing"
    <3>1. Live = {} /\ Paid = {}
      BY <2>2 DEF Live, Paid
    <3> QED BY <2>1, <2>2, <3>1
  <2>3. ASSUME NEW k \in Checkouts, sub[k] # None, OneAtATime => Live \subseteq {k},
               k \in Live => firm.plan = sub[k].plan /\ firm.status = sub[k].status,
               k \notin Live => firm.plan = Trial /\ firm.status = "canceled"
        PROVE  Trialing /\ Shown
    <3>1. k \in Paid
      BY <2>3 DEF Paid
    <3>2. Trialing
      BY <2>3, <3>1
    <3>3. Shown
      BY <2>3
    <3> QED BY <3>2, <3>3
  <2> HIDE DEF Trialing, Shown
  <2> QED BY <2>1, <2>2, <2>3, SettledIs
<1> QED BY <1>1, OrderHolds, PTL

(* The gate lets a firm that has one subscription at a time work exactly   *)
(* while it pays or its trial lasts (subscriptions.ts 319-398).            *)
THEOREM GateFollows ==
  ASSUME Faults = {}
  PROVE  Spec => []GateFollowsPayment
<1>1. TypeOK /\ CustomerInv /\ OrderInv => GateFollowsPayment
  <2> DEFINE Pays == \/ \E k \in Live : \/ sub[k].status = "active"
                                        \/ sub[k].status = "trialing" /\ now < sub[k].ends
                     \/ Paid = {} /\ now < TrialDays
  <2> SUFFICES ASSUME TypeOK, CustomerInv, OrderInv, Settled, OneAtATime
               PROVE  GateAllows(now) <=> Pays
    BY DEF GateFollowsPayment
  <2>1. CASE /\ \A k \in Checkouts : sub[k] = None
             /\ firm.status = "trialing" /\ firm.ends = None
    <3>1. Live = {} /\ Paid = {}
      BY <2>1 DEF Live, Paid
    <3> QED BY <2>1, <3>1 DEF GateAllows
  <2>2. ASSUME NEW k \in Checkouts, sub[k] # None, Live \subseteq {k},
               k \in Live => firm.status = sub[k].status /\ firm.ends = sub[k].ends,
               k \notin Live => firm.status = "canceled"
        PROVE  GateAllows(now) <=> Pays
    <3>1. k \in Paid
      BY <2>2 DEF Paid
    <3>2. CASE k \in Live
      <4>1. firm.status = sub[k].status /\ firm.ends = sub[k].ends /\ sub[k].ends # None
        BY <2>2, <3>2 DEF CustomerInv, CheckoutHolds
      <4> QED BY <2>2, <3>1, <3>2, <4>1 DEF GateAllows
    <3>3. CASE k \notin Live
      BY <2>2, <3>1, <3>3 DEF GateAllows
    <3> QED BY <3>2, <3>3
  <2> HIDE DEF Pays
  <2> QED BY <2>1, <2>2, SettledIs
<1> QED BY <1>1, OrderHolds, PTL

================================================================================
