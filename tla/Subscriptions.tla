----------------------------- MODULE Subscriptions -----------------------------
(***************************************************************************)
(* What a firm pays to use the product (src/backend/src/billing/           *)
(* subscriptions.ts with routes/subscriptions.ts).                         *)
(*                                                                         *)
(* An owner starts a checkout at Stripe, pays there, and changes or        *)
(* cancels the subscription there, in the billing portal.  The firm's row  *)
(* in tenants learns of it only through webhook events, which Stripe       *)
(* delivers in any order, delayed and more than once, but each at least    *)
(* once.  Every event carries the second it was created in, and the row    *)
(* keeps the second of the last event it took (migration 010).             *)
(*                                                                         *)
(* Stripe itself is modelled from how the code uses it: a checkout that is *)
(* paid creates one subscription, and every change of a subscription is    *)
(* an event with its state at that time.                                   *)
(***************************************************************************)
EXTENDS Naturals, FiniteSets

CONSTANTS
  Checkouts,  \* checkouts; each names the customer and the subscription it makes
  Plans,      \* plans for sale
  Trial,      \* the unpaid plan
  LimitOf,    \* subscription_plans.monthly_token_limit
  TrialDays,  \* the grace period of a firm without a subscription
  MaxTime,    \* bound of the clock, in seconds
  MaxChanges, \* bound: what is changed in the portal
  Faults,     \* what may happen, see below
  None

ASSUME SubscriptionAssumption ==
  /\ Trial \notin Plans /\ LimitOf \in [Plans \cup {Trial} -> Nat]
  /\ TrialDays \in Nat /\ MaxTime \in Nat /\ MaxChanges \in Nat
  /\ None \notin Checkouts \cup Nat
  /\ Faults \subseteq {"double",  \* two checkouts are under way before there is a customer
                       "second",  \* two changes within one second
                       "late"}    \* a payment is confirmed in a later second

VARIABLES
  firm,  \* the firm's row in tenants
  co,    \* checkouts: where startCheckout is, and the session it made
  sub,   \* Stripe's subscriptions
  sent,  \* events Stripe has to deliver
  got,   \* those it has delivered once
  now,   \* the time, in seconds since the firm was created
  changes

vars == <<firm, co, sub, sent, got, now, changes>>

AnyPlan == Plans \cup {Trial}
Time == 0 .. (MaxTime + 1)
TimeOrNone == Time \cup {None}
CustomerOrNone == Checkouts \cup {None}

Statuses == {"trialing", "active", "past_due", "canceled"}
Firm == [customer : CustomerOrNone, status : Statuses, ends : TimeOrNone, plan : AnyPlan,
         limit : Nat, last : TimeOrNone]
Checkout == [phase : {"none", "asked", "named", "open", "paid"}, customer : CustomerOrNone,
             plan : AnyPlan]
Subscription == [customer : Checkouts, status : Statuses, ends : TimeOrNone, plan : Plans]
Event == [type : {"completed", "changed", "deleted"}, of : Checkouts, at : Time, bare : BOOLEAN,
          sub : Subscription]

ASSUME NoneIsNoSubscription == None \notin Subscription

TypeOK ==
  /\ firm \in Firm
  /\ co \in [Checkouts -> Checkout]
  /\ sub \in [Checkouts -> Subscription \cup {None}]
  /\ sent \in SUBSET Event /\ got \subseteq sent
  /\ now \in 0 .. MaxTime /\ changes \in 0 .. MaxChanges

Init ==
  /\ firm = [customer |-> None, status |-> "trialing", ends |-> None, plan |-> Trial,
             limit |-> LimitOf[Trial], last |-> None]
  /\ co = [k \in Checkouts |-> [phase |-> "none", customer |-> None, plan |-> Trial]]
  /\ sub = [k \in Checkouts |-> None]
  /\ sent = {} /\ got = {} /\ now = 0 /\ changes = 0

--------------------------------------------------------------------------------
(* POST /api/subscription/checkout *)

UnderWay == {k \in Checkouts : co[k].phase \in {"asked", "named", "open"}}

(* the customer on file, if there is one; that a subscription runs or      *)
(* another checkout is open is no obstacle                                 *)
AskCheckout(k, plan) ==
  /\ co[k].phase = "none"
  /\ firm.customer # None \/ UnderWay = {} \/ "double" \in Faults
  /\ co' = [co EXCEPT ![k] = [phase |-> "asked", customer |-> firm.customer, plan |-> plan]]
  /\ UNCHANGED <<firm, sub, sent, got, now, changes>>

StoreCustomer_notStored(k) ==
  /\ co[k].phase = "asked"
  /\ co' = [co EXCEPT ![k].phase = "named", ![k].customer = IF @ = None THEN k ELSE @]
  /\ UNCHANGED <<firm, sub, sent, got, now, changes>>

(* ensureCustomer creates one where none was read, and it is stored        *)
StoreCustomer(k) ==
  /\ co[k].phase = "asked"
  /\ LET c == IF co[k].customer = None THEN k ELSE co[k].customer
     IN  /\ firm' = IF co[k].customer = None THEN [firm EXCEPT !.customer = c] ELSE firm
         /\ co' = [co EXCEPT ![k].phase = "named", ![k].customer = c]
  /\ UNCHANGED <<sub, sent, got, now, changes>>

(* createCheckoutSession *)
OpenSession(k) ==
  /\ co[k].phase = "named"
  /\ co' = [co EXCEPT ![k].phase = "open"]
  /\ UNCHANGED <<firm, sub, sent, got, now, changes>>

(* any of the calls fails, or the owner gives up before paying: a later    *)
(* checkout starts over                                                    *)
Abandon(k) ==
  /\ co[k].phase \in {"asked", "named", "open"} /\ sub[k] = None
  /\ co' = [co EXCEPT ![k] = [phase |-> "none", customer |-> None, plan |-> Trial]]
  /\ UNCHANGED <<firm, sub, sent, got, now, changes>>

--------------------------------------------------------------------------------
(* Stripe *)

Live == {k \in Checkouts : sub[k] # None /\ sub[k].status # "canceled"}

(* no other event was created in this second, but for this subscription's  *)
(* own beginning                                                           *)
OwnSecond(k) == "second" \in Faults \/ \A e \in sent : e.at # now

Emit(type, k, s, bare) ==
  sent' = sent \cup {[type |-> type, of |-> k, at |-> now, bare |-> bare, sub |-> s]}

(* the owner pays: the subscription begins, with or without a trial *)
Pay(k, bare) ==
  /\ co[k].phase = "open" /\ sub[k] = None /\ OwnSecond(k)
  /\ \E status \in {"active", "trialing"} :
       LET s == [customer |-> co[k].customer, status |-> status, ends |-> now + 1,
                 plan |-> co[k].plan]
       IN  sub' = [sub EXCEPT ![k] = s] /\ Emit("changed", k, s, bare)
  /\ UNCHANGED <<firm, co, got, now, changes>>

(* checkout.session.completed *)
ConfirmPayment(k) ==
  /\ co[k].phase = "open" /\ sub[k] # None
  /\ "late" \in Faults \/ \E e \in sent : e.of = k /\ e.type = "changed" /\ e.at = now
  /\ co' = [co EXCEPT ![k].phase = "paid"]
  /\ Emit("completed", k, [sub[k] EXCEPT !.plan = co[k].plan, !.customer = co[k].customer], FALSE)
  /\ UNCHANGED <<firm, sub, got, now, changes>>

(* a plan changed, a payment failed, a period began *)
Change(k, status, plan, bare) ==
  /\ co[k].phase = "paid" /\ k \in Live /\ OwnSecond(k)
  /\ changes < MaxChanges /\ changes' = changes + 1
  /\ sub' = [sub EXCEPT ![k].status = status, ![k].plan = plan, ![k].ends = now + 1]
  /\ Emit("changed", k, sub'[k], bare)
  /\ UNCHANGED <<firm, co, got, now>>

Cancel(k, bare) ==
  /\ co[k].phase = "paid" /\ k \in Live /\ OwnSecond(k)
  /\ sub' = [sub EXCEPT ![k].status = "canceled"]
  /\ Emit("deleted", k, sub'[k], bare)
  /\ UNCHANGED <<firm, co, got, now, changes>>

Tick ==
  /\ now < MaxTime /\ now' = now + 1
  /\ "late" \in Faults \/ \A k \in Checkouts : sub[k] # None => co[k].phase = "paid"
  /\ UNCHANGED <<firm, co, sub, sent, got, changes>>

--------------------------------------------------------------------------------
(* POST /api/webhooks/stripe *)

(* resolveTenantId: by the metadata, or by the customer on file *)
Resolved(e) == e.type = "completed" \/ ~e.bare \/ e.sub.customer = firm.customer

InOrder_always(e) == TRUE
(* the guard in every UPDATE's WHERE *)
InOrder(e) == IF firm.last = None THEN TRUE ELSE firm.last <= e.at

(* the allowance moves with the plan *)
OnPlan(row, plan) == [row EXCEPT !.plan = plan, !.limit = LimitOf[plan]]

(* what the row becomes: a completed checkout moves customer and plan, a   *)
(* changed subscription status, end and plan, a deleted one back to trial  *)
Taken(e) ==
  LET row == [firm EXCEPT !.last = e.at]
  IN  CASE e.type = "completed" -> OnPlan([row EXCEPT !.customer = e.sub.customer], e.sub.plan)
        [] e.type = "changed" ->
             OnPlan([row EXCEPT !.status = e.sub.status, !.ends = e.sub.ends], e.sub.plan)
        [] OTHER -> OnPlan([row EXCEPT !.status = "canceled"], Trial)

(* a delivery, the first of an event or a repetition *)
Deliver(e) ==
  /\ e \in sent
  /\ firm' = IF Resolved(e) /\ InOrder(e) THEN Taken(e) ELSE firm
  /\ got' = got \cup {e}
  /\ UNCHANGED <<co, sub, sent, now, changes>>

Next ==
  \/ \E k \in Checkouts :
       \/ \E plan \in Plans : AskCheckout(k, plan)
       \/ StoreCustomer(k) \/ OpenSession(k) \/ Abandon(k)
       \/ ConfirmPayment(k)
       \/ \E bare \in BOOLEAN :
            \/ Pay(k, bare) \/ Cancel(k, bare)
            \/ \E status \in {"active", "past_due"}, plan \in Plans :
                 Change(k, status, plan, bare)
  \/ \E e \in sent : Deliver(e)
  \/ Tick

Spec == Init /\ [][Next]_vars

--------------------------------------------------------------------------------
(* The gate *)

GateAllows_ignoresEnd(t) == firm.status \in {"active", "trialing"}
(* makeSubscriptionLimitCheck *)
GateAllows(t) ==
  \/ firm.status = "active"
  \/ firm.status = "trialing" /\ t < (IF firm.ends = None THEN TrialDays ELSE firm.ends)

Settled == sent \subseteq got
Paid == {k \in Checkouts : sub[k] # None}

(* Subscription j was over before k began.                                 *)
Before(j, k) ==
  \E d \in sent : d.type = "deleted" /\ d.of = j /\ \A e \in sent : e.of = k => d.at < e.at

OneAtATime == \A j, k \in Paid : j = k \/ Before(j, k) \/ Before(k, j)

(* Once its events are delivered, in whatever order and however often, a   *)
(* firm has the allowance of its plan; it is back on trial if it has no    *)
(* subscription any more, however many ran at once; and if it had one at a *)
(* time, it is on the plan and the status of the one it has                *)
(* (subscriptions.ts 182-317, migration 010).                              *)
SettlesOnStripe ==
  Settled =>
    /\ firm.limit = LimitOf[firm.plan]
    /\ Live = {} => firm.plan = Trial /\ firm.status = IF Paid = {} THEN "trialing" ELSE "canceled"
    /\ OneAtATime => \A k \in Live : firm.plan = sub[k].plan /\ firm.status = sub[k].status

(* The gate lets a firm that has one subscription at a time work exactly   *)
(* while it pays or its trial lasts (subscriptions.ts 319-398).            *)
GateFollowsPayment ==
  Settled /\ OneAtATime =>
    (GateAllows(now) <=>
       \/ \E k \in Live : sub[k].status = "active" \/ (sub[k].status = "trialing" /\ now < sub[k].ends)
       \/ Paid = {} /\ now < TrialDays)

(* The portal opens on the customer that has every running subscription,   *)
(* or an owner could neither change nor cancel what the firm pays          *)
(* (startPortal).                                                          *)
PortalReachesIt == Settled => \A k \in Live : firm.customer = sub[k].customer
================================================================================
