------------------------------ MODULE ClientKeys -------------------------------
(***************************************************************************)
(* A client's own API keys, and who pays for a call (src/backend/src/llm/  *)
(* byok/, routes/byok.ts, llm/gateway.ts and llm/router.ts).               *)
(*                                                                         *)
(* A key is supplied by the client's administrator through a setup link,   *)
(* filed under the client's name and bound to its engagement where there   *)
(* is one (migration 037).  A call resolves the keys of its client by      *)
(* engagement, or by name where a row is not bound, then builds the chain  *)
(* of adapters it will try: the firm's policy, the client's preference as  *)
(* a reorder, the client's own adapters ahead of the firm's of the same    *)
(* vendor, and, unless the firm granted it, nothing of the firm's at all.  *)
(*                                                                         *)
(* Names are normalised: two names are equal when normClient maps them to  *)
(* one.  A link names the key that comes through it, so links[l].of, which *)
(* the code cannot know, tells whose key it is: the client that bore the   *)
(* link's name last when the link was made.  A name whose client is gone,  *)
(* or has another name now, is still one that calls, links, grants and     *)
(* switches may be sent under.  Which vendor a client prefers is left      *)
(* open: client_routing is any table.                                      *)
(***************************************************************************)
EXTENDS Naturals, Sequences, SequencesExt

CONSTANTS
  Clients,      \* engagement ids, one per client
  Names,        \* normalised client names
  Vendors,      \* providers a client can bring a key for
  Adapters,     \* adapter names
  VendorOf,     \* VENDOR_OF_ADAPTER
  ByokAdapters, \* BYOK_ADAPTER_NAMES: the adapters a vendor's key builds, in order
  Chains,       \* chainForTask: the policy's chain of each task
  Configured,   \* the firm's adapters that are configured and not blocked
  Links,        \* setup links, one key each
  Calls,        \* calls the gateway has in flight
  MaxAttempts,  \* 1 + transientRetries
  Faults,       \* what may go wrong or be done late, see below
  None

ASSUME KeysAssumption ==
  /\ VendorOf \in [Adapters -> Vendors \cup {None}]
  /\ ByokAdapters \in [Vendors -> Seq(Adapters)] /\ \A v \in Vendors : ByokAdapters[v] # <<>>
  /\ Chains \subseteq Seq(Adapters) /\ Configured \subseteq Adapters
  /\ MaxAttempts \in Nat \ {0}
  /\ None \notin Clients \cup Names \cup Vendors \cup Links
  /\ "firm" \notin Links /\ "unbound" \notin Clients \cup {None}
  /\ Faults \subseteq {"lookup",   \* reading a key throws
                       "reuse",    \* a name is taken while a call reads it or a refusal under it
                                    \* is on its way
                       "unbound",  \* a name is taken under which a key that is not switched off,
                                    \* or a grant, is bound to no engagement; or such a key, of
                                    \* another client, is switched on
                       "inherit",  \* a client is deleted that left keys or a grant under an old
                                    \* name, and another client has borne it since
                       "late",     \* a link is redeemed after another client bore its name
                       "renamed",  \* a key filed under an old name is switched off or on, or
                                    \* refused
                       "revived"}  \* a key its vendor refused is switched off and on again

--------------------------------------------------------------------------------
(* The chain of a call *)

(* applyClientVendorPreference *)
Preferred(chain, v) ==
  LET of(a) == VendorOf[a] = v
      other(a) == VendorOf[a] # v
  IN  IF v = None THEN chain ELSE SelectSeq(chain, of) \o SelectSeq(chain, other)

(* the adapters a set of vendors' keys build *)
BuiltFrom(vs) == UNION {Range(ByokAdapters[v]) : v \in vs}

(* applyByokToChain: a vendor's own adapters go before its first mention,  *)
(* in the chain's order where the chain has them                           *)
Interleaved(chain, available) ==
  LET own(v) ==
        LET inChain(a) == a \in available /\ a \in Range(ByokAdapters[v])
            elsewhere(a) == a \in available /\ a \notin Range(chain)
        IN  SelectSeq(chain, inChain) \o SelectSeq(ByokAdapters[v], elsewhere)
      push(out, a) == IF a \in Range(out) THEN out ELSE Append(out, a)
      emit(out, a) ==
        FoldLeft(push, out, (IF VendorOf[a] = None THEN <<>> ELSE own(VendorOf[a])) \o <<a>>)
  IN  FoldLeft(emit, <<>>, chain)

(* the positions of a plan that a call may try, with the firm's behind     *)
Confined_open(plan, available, granted) == DOMAIN plan

(* confineToClientCredentials *)
Confined(plan, available, granted) ==
  {i \in DOMAIN plan : available = {} \/ granted \/ plan[i] \in available}

(* the chain of a task as a client may find it, nothing confined yet       *)
Plan(chain, prefer, vs) == Interleaved(Preferred(chain, prefer), BuiltFrom(vs))

Plans ==
  {Plan(chain, prefer, vs) : chain \in Chains, prefer \in Vendors \cup {None}, vs \in SUBSET Vendors}

--------------------------------------------------------------------------------
VARIABLES
  name,   \* engagements.client_name
  bore,   \* who bore a name last
  keys,   \* byok_keys, by name and vendor: [eng, status, key]
  grants, \* byok_fallback_grant, by name: the engagement bound, or "unbound"
  links,  \* byok_invites: [of, name, vendor, state]
  call,   \* each call's local state
  reports, \* refusals on their way to the row: [name, vendor, key]
  off     \* keys the owner switched off, and those their vendor refused: [key, why]

vars == <<name, bore, keys, grants, links, call, reports, off>>

ClientOrNone == Clients \cup {None}
Row == [eng : ClientOrNone, status : {"active", "failed", "disabled"}, key : Links]
Link == [of : Clients, name : Names, vendor : Vendors, state : {"open", "used"}]
Off == [key : Links, why : {"disabled", "failed"}]
(* the client's key of a vendor, as a call holds it: ByokBinding *)
Binding == [key : Links, name : Names]

ASSUME NoneIsNoRecord == None \notin Row \cup Link \cup Binding

(* positions of a plan; a call tries those left in their order *)
Positions == UNION {DOMAIN p : p \in Plans}

Idle == [phase |-> "idle"]
(* a call whose keys were looked up: ResolvedByok and the loop's variables *)
PlannedCall ==
  [phase : {"planning", "trying"}, of : Clients, name : Names,
   own : [Vendors -> Binding \cup {None}], unusable : SUBSET Vendors, onFile : BOOLEAN,
   granted : BOOLEAN, plan : Plans \cup {<<>>}, left : SUBSET Positions,
   tries : 0 .. (MaxAttempts - 1), asked : SUBSET (Links \cup {"firm"})]

CallState == {Idle} \cup [phase : {"resolving"}, of : Clients, name : Names] \cup PlannedCall

TypeOK ==
  /\ name \in [Clients -> Names \cup {None}]
  /\ bore \in [Names -> ClientOrNone]
  /\ keys \in [Names -> [Vendors -> Row \cup {None}]]
  /\ grants \in [Names -> ClientOrNone \cup {"unbound"}]
  /\ links \in [Links -> Link \cup {None}]
  /\ call \in [Calls -> CallState]
  /\ reports \in SUBSET [name : Names, vendor : Vendors, key : Links]
  /\ off \subseteq Off

--------------------------------------------------------------------------------
(* Which rows are a client's *)

(* engagementIdFor *)
EngagementOf(n) ==
  IF \E c \in Clients : name[c] = n THEN CHOOSE c \in Clients : name[c] = n ELSE None

Matches_byName(bound, filed, n) == filed = n
(* clientMatch: a bound row is reached only through its engagement, an     *)
(* unbound one by its name                                                 *)
Matches(bound, filed, n) ==
  LET e == EngagementOf(n) IN IF bound = None THEN filed = n ELSE bound = e

(* activeKeyFor: the names a vendor's usable rows are filed under; a       *)
(* refused key is returned, a switched-off one is not                      *)
OnFile(n, v) ==
  {f \in Names : /\ keys[f][v] # None
                 /\ Matches(keys[f][v].eng, f, n)
                 /\ keys[f][v].status \in {"active", "failed"}}

(* hasFallbackGrant *)
Bound(g) == IF g = "unbound" THEN None ELSE g
Granted(n) == \E f \in Names : grants[f] # None /\ Matches(Bound(grants[f]), f, n)

--------------------------------------------------------------------------------
(* A call through the gateway *)

Init ==
  /\ name = [c \in Clients |-> None] /\ bore = [n \in Names |-> None]
  /\ keys = [n \in Names |-> [v \in Vendors |-> None]]
  /\ grants = [n \in Names |-> None]
  /\ links = [l \in Links |-> None]
  /\ call = [k \in Calls |-> Idle]
  /\ reports = {} /\ off = {}

(* work for a client goes by its name, whether or not it has a record now *)
StartCall(k, n) ==
  /\ call[k] = Idle /\ bore[n] # None
  /\ call' = [call EXCEPT ![k] = [phase |-> "resolving", of |-> bore[n], name |-> n]]
  /\ UNCHANGED <<name, bore, keys, grants, links, reports, off>>

(* the credential a row gives a call *)
BindingOf(f, v) ==
  [key |-> keys[f][v].key,
   name |-> IF keys[f][v].eng = None THEN f ELSE name[keys[f][v].eng]]

(* resolveByok: per vendor the row and then its secret, which may not be   *)
(* readable; a lookup that throws leaves nothing behind                    *)
ResolveKeys(k) ==
  /\ call[k].phase = "resolving"
  /\ \E pick \in [Vendors -> Names \cup {None}], unread \in SUBSET Vendors, threw \in SUBSET Vendors :
       LET n == call[k].name
           found == {v \in Vendors : pick[v] # None}
           usable == {v \in found \ (threw \cup unread) : keys[pick[v]][v].status = "active"}
       IN  /\ \A v \in Vendors : pick[v] \in IF OnFile(n, v) = {} THEN {None} ELSE OnFile(n, v)
           /\ threw = {} \/ "lookup" \in Faults
           /\ call' = [call EXCEPT ![k] =
                [phase |-> "planning", of |-> call[k].of, name |-> n,
                 own |-> [v \in Vendors |-> IF v \in usable THEN BindingOf(pick[v], v) ELSE None],
                 unusable |-> found \ (threw \cup usable), onFile |-> found # {},
                 granted |-> FALSE, plan |-> <<>>, left |-> {}, tries |-> 0, asked |-> {}]]
  /\ UNCHANGED <<name, bore, keys, grants, links, reports, off>>

Own(s) == {v \in Vendors : s.own[v] # None}

(* an adapter runs on the client's key if that key built one of its name   *)
VendorsOwn(s, a) == {v \in Own(s) : a \in Range(ByokAdapters[v])}

Usable(s, a) == VendorsOwn(s, a) # {} \/ a \in Configured

(* the positions still worth an attempt after one: the adapters of a       *)
(* refused credential are passed over                                      *)
Remaining(s, i, refused) ==
  [s EXCEPT !.left = {j \in @ : j # i /\ VendorsOwn(s, s.plan[j]) \cap refused = {}},
            !.tries = 0]

(* the rest of generate's preparation; a client whose every key is         *)
(* unusable is refused here                                                *)
PlanCall(k) ==
  /\ call[k].phase = "planning"
  /\ \E chain \in Chains, prefer \in Vendors \cup {None} :
       LET s == call[k]
           byok == Own(s) # {} \/ s.unusable # {}
           granted == byok /\ Granted(s.name)
           plan == Plan(chain, prefer, Own(s))
       IN  call' = [call EXCEPT ![k] =
             IF Own(s) = {} /\ s.unusable # {} /\ ~granted THEN Idle
             ELSE [s EXCEPT !.phase = "trying", !.granted = granted, !.plan = plan,
                            !.left = {i \in Confined(plan, BuiltFrom(Own(s)), granted) :
                                        Usable(s, plan[i])}]]
  /\ UNCHANGED <<name, bore, keys, grants, links, reports, off>>

(* a transient failure is tried again on the same adapter                  *)
Again(s) == s.tries + 1 < MaxAttempts

(* the key a call spends was filed under the name the call read with it;   *)
(* the row there may hold another since                                    *)
Filed(own) == "renamed" \in Faults \/ links[own.key].name = own.name

(* one attempt, metered to whose credential it spends; the report of a     *)
(* refusal is sent on and not waited for                                   *)
Try(k, out) ==
  /\ call[k].phase = "trying"
  /\ \E i \in call[k].left :
       LET s == call[k]
           mine == VendorsOwn(s, s.plan[i])
           v == CHOOSE x \in mine : TRUE
           t == [s EXCEPT !.asked = @ \cup {IF mine = {} THEN "firm" ELSE s.own[v].key}]
       IN  /\ \A j \in s.left : i <= j
           /\ out = "refused" => mine # {} /\ Filed(s.own[v])
           /\ call' = [call EXCEPT ![k] =
                CASE out = "ok" -> [t EXCEPT !.left = {}]
                  [] out = "refused" -> Remaining(t, i, {v})
                  [] out = "busy" /\ Again(s) -> [t EXCEPT !.tries = @ + 1]
                  [] OTHER -> Remaining(t, i, {})]
           /\ IF out = "refused"
                THEN /\ reports' = reports \cup {[name |-> s.own[v].name, vendor |-> v, key |-> s.own[v].key]}
                     /\ off' = off \cup {[key |-> s.own[v].key, why |-> "failed"]}
                ELSE UNCHANGED <<reports, off>>
  /\ UNCHANGED <<name, bore, keys, grants, links>>

(* answered, or the chain is exhausted: 402, 503 or 502 *)
Answer(k) ==
  /\ call[k].phase = "trying" /\ call[k].left = {}
  /\ call' = [call EXCEPT ![k] = Idle]
  /\ UNCHANGED <<name, bore, keys, grants, links, reports, off>>

Deactivated_byKey(n, v, why) ==
  [keys EXCEPT ![n][v] = IF @ # None /\ why = "disabled" THEN [@ EXCEPT !.status = why] ELSE @]

(* deactivateKey: whatever row is filed under the name *)
Deactivated(n, v, why) ==
  [keys EXCEPT ![n][v] = IF @ = None THEN None ELSE [@ EXCEPT !.status = why]]

(* onByokRejected marks the key failed, by the client's name as the call   *)
(* read it                                                                 *)
HandleReport(r) ==
  /\ r \in reports
  /\ reports' = reports \ {r}
  /\ keys' = Deactivated(r.name, r.vendor, "failed")
  /\ UNCHANGED <<name, bore, grants, links, call, off>>

--------------------------------------------------------------------------------
(* The firm's side: clients, links, keys and grants *)

(* the vendors of keys under a name that no engagement is bound to         *)
Unowned(n) == {v \in Vendors : keys[n][v] # None /\ keys[n][v].eng = None}

(* no call reads a name, and no refusal under it is on its way             *)
Unread(n) ==
  /\ \A k \in Calls : call[k] # Idle => call[k].name # n
  /\ \A r \in reports : r.name # n

(* a name given up, or its client deleted, may be another client's next    *)
MayBear(c, n) ==
  /\ \/ "reuse" \in Faults
     \/ bore[n] \in {None, c} /\ Unowned(n) = {}
     \/ Unread(n)
  /\ \/ "unbound" \in Faults
     \/ grants[n] # "unbound" /\ \A v \in Unowned(n) : keys[n][v].status = "disabled"

(* POST /api/engagements, with a new id, and PATCH /api/clients/rename     *)
(* (ClientScope): the key tables are not touched                           *)
Rename(c, n) ==
  /\ EngagementOf(n) = None /\ MayBear(c, n)
  /\ name[c] # None \/ \A m \in Names : bore[m] # c
  /\ name' = [name EXCEPT ![c] = n] /\ bore' = [bore EXCEPT ![n] = c]
  /\ UNCHANGED <<keys, grants, links, call, reports, off>>

(* the names that another client bore after c, with a key or a grant of    *)
(* c's still filed under them                                              *)
LeftBehind(c) ==
  {f \in Names : /\ bore[f] # c
                 /\ grants[f] = c \/ \E v \in Vendors : keys[f][v] # None /\ keys[f][v].eng = c}

(* what a row is once client c is deleted                                  *)
Orphaned(f, v, c) ==
  [keys[f][v] EXCEPT !.eng = IF @ = c THEN None ELSE @,
                     !.status = IF f = name[c] /\ @ = "active" THEN "disabled" ELSE @]

(* DELETE /api/clients: active keys filed under the name are switched off, *)
(* its grant goes, and the foreign key unbinds what was bound              *)
Delete(c) ==
  /\ name[c] # None
  /\ "inherit" \in Faults \/ LeftBehind(c) = {}
  /\ keys' = [f \in Names |-> [v \in Vendors |->
                IF keys[f][v] = None THEN None ELSE Orphaned(f, v, c)]]
  /\ grants' = [f \in Names |-> IF f = name[c] THEN None
                                 ELSE IF grants[f] = c THEN "unbound" ELSE grants[f]]
  /\ name' = [name EXCEPT ![c] = None]
  /\ UNCHANGED <<bore, links, call, reports, off>>

(* requireKnownClient: a client's name, or one that a key, a grant or a    *)
(* preference is filed under, when looked at, before what follows is       *)
(* written: any name a client has borne                                    *)
Known(n) == bore[n] # None

(* POST /api/byok/invites *)
Invite(l, n, v) ==
  /\ links[l] = None /\ Known(n)
  /\ links' = [links EXCEPT ![l] = [of |-> bore[n], name |-> n, vendor |-> v, state |-> "open"]]
  /\ UNCHANGED <<name, bore, keys, grants, call, reports, off>>

(* a revoked link is as good as none *)
RevokeInvite(l) ==
  /\ links[l] # None /\ links[l].state = "open"
  /\ links' = [links EXCEPT ![l] = None]
  /\ UNCHANGED <<name, bore, keys, grants, call, reports, off>>

(* upsertActiveKey: one row per name and vendor, which keeps the           *)
(* engagement it knows                                                     *)
Attached(l) ==
  LET at == keys[links[l].name][links[l].vendor]
      e == EngagementOf(links[l].name)
  IN  [eng |-> IF e = None /\ at # None THEN at.eng ELSE e, status |-> "active", key |-> l]

(* POST /api/byok/redeem/:token: the key is probed, stored and filed; a    *)
(* failure on the way leaves the link open                                 *)
Redeem(l) ==
  /\ links[l] # None /\ links[l].state = "open"
  /\ \/ "late" \in Faults
     \/ bore[links[l].name] = links[l].of /\ Attached(l).eng \in {None, links[l].of}
  /\ keys' = [keys EXCEPT ![links[l].name][links[l].vendor] = Attached(l)]
  /\ links' = [links EXCEPT ![l].state = "used"]
  /\ UNCHANGED <<name, bore, grants, call, reports, off>>

(* the rows an owner sees for a client *)
Seen(n, v) == {f \in Names : keys[f][v] # None /\ Matches(keys[f][v].eng, f, n)}

(* POST /api/byok/keys/disable *)
Disable(n, v) ==
  /\ Seen(n, v) # {}
  /\ Seen(n, v) \subseteq {n} \/ "renamed" \in Faults
  /\ keys' = Deactivated(n, v, "disabled")
  /\ off' = off \cup {[key |-> keys[f][v].key, why |-> "disabled"] : f \in Seen(n, v)}
  /\ UNCHANGED <<name, bore, grants, links, call, reports>>

(* a row is its bearer's: bound, or left by the client that bore the name  *)
(* last and that no client bears now                                       *)
Claimed(f, v) ==
  keys[f][v].eng = None => EngagementOf(f) = None /\ bore[f] = links[keys[f][v].key].of

(* POST /api/byok/keys/enable: reactivateKey, by engagement *)
Enable(n, v) ==
  /\ \E f \in Seen(n, v) : keys[f][v].status = "disabled"
  /\ Seen(n, v) \subseteq {n} \/ "renamed" \in Faults
  /\ \A f \in Seen(n, v) :
       /\ Claimed(f, v) \/ "unbound" \in Faults
       /\ [key |-> keys[f][v].key, why |-> "failed"] \notin off \/ "revived" \in Faults
  /\ keys' = [f \in Names |->
                IF f \in Seen(n, v) THEN [keys[f] EXCEPT ![v].status = "active"] ELSE keys[f]]
  /\ off' = off \ {[key |-> keys[f][v].key, why |-> "disabled"] :
                      f \in {g \in Seen(n, v) : keys[g][v].status = "disabled"}}
  /\ UNCHANGED <<name, bore, grants, links, call, reports>>

(* POST /api/byok/fallback-grants: as a row of a key, a grant keeps the    *)
(* engagement it knows                                                     *)
Grant(n) ==
  /\ Known(n)
  /\ grants' = [grants EXCEPT ![n] = IF EngagementOf(n) # None THEN EngagementOf(n)
                                      ELSE IF @ = None THEN "unbound" ELSE @]
  /\ UNCHANGED <<name, bore, keys, links, call, reports, off>>

(* and its revoke *)
RevokeGrant(n) ==
  /\ Granted(n)
  /\ grants' = [f \in Names |-> IF grants[f] # None /\ Matches(Bound(grants[f]), f, n)
                                   THEN None ELSE grants[f]]
  /\ UNCHANGED <<name, bore, keys, links, call, reports, off>>

Next ==
  \/ \E k \in Calls :
       \/ \E n \in Names : StartCall(k, n)
       \/ ResolveKeys(k) \/ PlanCall(k) \/ Answer(k)
       \/ \E out \in {"ok", "refused", "busy", "error"} : Try(k, out)
  \/ \E r \in reports : HandleReport(r)
  \/ \E c \in Clients : Delete(c) \/ \E n \in Names : Rename(c, n)
  \/ \E n \in Names :
       \/ Grant(n) \/ RevokeGrant(n)
       \/ \E v \in Vendors :
            \/ \E l \in Links : Invite(l, n, v)
            \/ Disable(n, v) \/ Enable(n, v)
  \/ \E l \in Links : RevokeInvite(l) \/ Redeem(l)

Spec == Init /\ [][Next]_vars

--------------------------------------------------------------------------------
(* Properties *)

Trying == {k \in Calls : call[k].phase = "trying"}

(* The firm's credential is spent on a client with a key on file only      *)
(* while the firm grants it: a refused key, one that cannot be read, a     *)
(* preference for a vendor the client has no key for, or a second call     *)
(* after the first was refused moves no charge to the firm (gateway.ts     *)
(* 301-346, ResolvedByok.unusable).                                        *)
FirmPaysOnlyUnderGrant ==
  \A k \in Trying : call[k].onFile /\ "firm" \in call[k].asked => call[k].granted

(* A call spends no key but one its own client supplied, whatever was      *)
(* renamed, deleted or attached meanwhile (gateway.ts 221-232: "the whole  *)
(* failure this feature exists to prevent").                               *)
OwnKeysOnly ==
  \A k \in Trying : \A l \in call[k].asked \ {"firm"} : links[l].of = call[k].of

(* A key the owner switched off is not active again until it is enabled or *)
(* replaced; one its vendor refused, not until it is replaced, once the    *)
(* refusal has been handled (server.ts 364-378, byokRepo.ts 385-391).      *)
OffIsOff ==
  \A n \in Names, v \in Vendors :
    keys[n][v] # None /\ keys[n][v].status = "active" /\ (\E o \in off : o.key = keys[n][v].key) =>
      \E r \in reports : r.key = keys[n][v].key

Resolved(c, v) == IF name[c] = None THEN {} ELSE OnFile(name[c], v)

(* A rename changes neither whose keys a client's calls find nor whether   *)
(* the firm covers them (migration 037, byokRepo.ts 144-160).              *)
KeysFollowRename ==
  [][\A c \in Clients :
       name[c] # None /\ name'[c] \notin {None, name[c]} =>
         /\ \A v \in Vendors : Resolved(c, v)' = Resolved(c, v)
         /\ Granted(name[c])' = Granted(name[c])]_vars

(* Neither a call nor a refused or switched-off key serves anybody it      *)
(* should not.                                                             *)
NoKeyMisused == OwnKeysOnly /\ OffIsOff
================================================================================
