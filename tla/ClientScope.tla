------------------------------ MODULE ClientScope ------------------------------
(***************************************************************************)
(* Clients inside one firm: who may read and write which client's work,    *)
(* and what happens to a client's identity when it is renamed or deleted   *)
(* (src/backend/src/auth/clients.ts with routes/assignments.ts,            *)
(* routes/engagements.ts and routes/moduleState.ts).                       *)
(*                                                                         *)
(* A client has two identities.  The engagement code never changes; the    *)
(* display name does, and its normalised form (NormOf) is what             *)
(* assignments, billing rows and a good part of the workspace's keys       *)
(* carry.  The code in the workspace is minted by the page that creates    *)
(* the client, the code column of its engagements row by the server; the   *)
(* two agree only where migration 025 adopted the page's (Adopted).        *)
(* The workspace is one firm-wide map of keys, so every read and write of  *)
(* a consultant goes through a filter that has to find out whose each key  *)
(* is.  Key families are represented by how they are addressed:            *)
(*   idx     vynora_engagement_index, norm -> code, shared by all clients  *)
(*   rec     vynora_engagement_<CODE>, which holds the client's name       *)
(*   doc     families suffixed by code or by norm (briefing, studio, ...)  *)
(*   sess    vynora_session_<id>, whose only identity is the name inside   *)
(* The contents of doc and sess are abstracted to the engagement whose     *)
(* work they are, which the code cannot see.                               *)
(***************************************************************************)
EXTENDS Naturals, FiniteSets

CONSTANTS
  Codes,      \* the codes engagements are filed under in the workspace
  Adopted,    \* those the engagements table knows as well
  Names,      \* client names as people type them
  Norms,      \* normalised names
  NormOf,     \* normClient(name), 100 characters
  LegacyOf,   \* legacyNormClient(name), 30 characters
  Owners,     \* open pages of firm owners
  Consultants, \* open pages of consultants, one each
  Stale,      \* what may carry a name the server has since changed
  Most,       \* bound: rows of each kind (assignments, interviews, charges)
  None

Pages == Owners \cup Consultants
Addrs == Norms \cup Codes

ASSUME ClientAssumption ==
  /\ NormOf \in [Names -> Norms] /\ LegacyOf \in [Names -> Norms]
  /\ Norms \cap Codes = {} /\ Adopted \subseteq Codes /\ Owners \cap Consultants = {}
  /\ None \notin Names \cup Addrs
  /\ Most \in Nat
  /\ Stale \subseteq {"rename", "record", "session", "deleted", "document", "charge"}

\* The legacy norm is the beginning of the norm.
ASSUME LegacyAssumption ==
  \A n, m \in Names : NormOf[n] = NormOf[m] => LegacyOf[n] = LegacyOf[m]

VARIABLES
  eng,    \* the engagements rows: client_name, by the client's code
  gone,   \* codes whose client was deleted
  asg,    \* client_assignments: [user, name] (client_norm is NormOf[name])
  iv,     \* the client names interviews carry
  usage,  \* usage_events: [of, norm]
  ws,     \* module_state, module 'workspace'
  tab     \* what each open page loaded

vars == <<eng, gone, asg, iv, usage, ws, tab>>

CodeOrNone == Codes \cup {None}
NameOrNone == Names \cup {None}

Workspace ==
  [idx : [Norms -> CodeOrNone], rec : [Codes -> NameOrNone], doc : [Addrs -> CodeOrNone],
   sess : [Codes -> NameOrNone]]

Tabs == [code : Codes, name : Names, idx : [Norms -> CodeOrNone], held : BOOLEAN]

TypeOK ==
  /\ eng \in [Codes -> NameOrNone]
  /\ gone \in SUBSET Codes
  /\ asg \in SUBSET [user : Consultants, name : Names]
  /\ iv \in SUBSET Names
  /\ usage \in SUBSET [of : Codes, norm : Norms]
  /\ ws \in Workspace
  /\ tab \in [Pages -> Tabs \cup {None}]

--------------------------------------------------------------------------------
(* Whose is a key: maps built from the table and from the workspace itself *)

Live == {c \in Codes : eng[c] # None}
Forms(name) == {NormOf[name], LegacyOf[name]}

(* allowedClientNorms of a consultant: every norm a row of theirs can mean *)
Scope(u) == UNION {Forms(r.name) : r \in {x \in asg : x.user = u}}

NoTable == [c \in Codes |-> None]

(* trustedCodeNames: what the table says of the codes in use *)
Table == [c \in Codes |-> IF c \in Adopted THEN eng[c] ELSE None]

(* codeToNorm: the table wins, then the record's own name, then the index *)
CodeToNorm(w, table) ==
  [c \in Codes |->
     IF table[c] # None THEN NormOf[table[c]]
     ELSE IF w.rec[c] # None THEN NormOf[w.rec[c]]
     ELSE IF \E n \in Norms : w.idx[n] = c THEN CHOOSE n \in Norms : w.idx[n] = c
     ELSE None]

(* resolveKeyClient for a family suffixed by a code or by a norm *)
ClientOf(m, a) == IF a \in Codes THEN m[a] ELSE a

(* the engagements a consultant is handed something of by a filtered read *)
Shown(w, table, A) ==
  LET m == CodeToNorm(w, table)
  IN  {c \in Codes :
         \/ \E a \in Addrs : w.doc[a] = c /\ ClientOf(m, a) \in A
         \/ w.rec[c] # None /\ m[c] \in A
         \/ w.sess[c] # None /\ NormOf[w.sess[c]] \in A}

(* a page's copy of the index *)
IndexFor(u, w) ==
  [n \in Norms |-> IF u \in Owners \/ n \in Scope(u) THEN w.idx[n] ELSE None]

(* a client a page may act for *)
May(u, name) == u \in Owners \/ NormOf[name] \in Scope(u)

--------------------------------------------------------------------------------
(* Legacy norms: the owner's read moves what a 30-character norm addresses *)

(* migrateLegacyNormKeys: the one widened norm a legacy norm can stand for *)
WideNorms(l, known) == {NormOf[n] : n \in {k \in known : LegacyOf[k] = l /\ NormOf[k] # l}}
WideOf(l, known) ==
  IF Cardinality(WideNorms(l, known)) = 1 THEN CHOOSE n \in WideNorms(l, known) : TRUE ELSE None

(* a widened key that is already there is never overwritten *)
Widen(f, known) ==
  [a \in DOMAIN f |->
     IF f[a] = None /\ \E l \in Norms : f[l] # None /\ WideOf(l, known) = a
       THEN f[CHOOSE l \in Norms : f[l] # None /\ WideOf(l, known) = a]
     ELSE IF a \in Norms /\ WideOf(a, known) # None /\ f[WideOf(a, known)] = None THEN None
     ELSE f[a]]

Widened(w) ==
  LET known == {r.name : r \in asg} \cup {eng[c] : c \in Live}
  IN  [w EXCEPT !.idx = Widen(w.idx, known), !.doc = Widen(w.doc, known)]

--------------------------------------------------------------------------------
(* Pages: create a client, open one, save its work *)

(* the adopted clients are there from the start; the work of one with a    *)
(* long name may still be filed under its truncated norm                   *)
Empty ==
  [idx |-> [n \in Norms |-> None], rec |-> NoTable, doc |-> [a \in Addrs |-> None],
   sess |-> NoTable]

Init ==
  /\ gone = {} /\ asg = {} /\ iv = {} /\ usage = {}
  /\ tab = [u \in Pages |-> None]
  /\ \E names \in [Adopted -> Names], Form \in {NormOf, LegacyOf} :
       /\ \A c, d \in Adopted : Form[names[c]] = Form[names[d]] => c = d
       /\ eng = [c \in Codes |-> IF c \in Adopted THEN names[c] ELSE None]
       /\ ws = LET at(n) == {c \in Adopted : Form[names[c]] = n}
                   filed(n) == IF at(n) = {} THEN None ELSE CHOOSE c \in at(n) : TRUE
               IN  [Empty EXCEPT !.rec = eng, !.idx = [n \in Norms |-> filed(n)],
                                 !.doc = [a \in Addrs |-> IF a \in Norms THEN filed(a) ELSE None]]

Loaded(u, c, name, w) ==
  [code |-> c, name |-> name, idx |-> IndexFor(u, w),
   held |-> w.doc[NormOf[name]] # None /\ May(u, name)]

(* Pre-Engagement creates a client: the page mints the code, saves record  *)
(* and index under it, and has the name registered (POST /api/engagements, *)
(* one row per norm, under a code of the server's own)                     *)
Create(u, c, name) ==
  /\ c \notin Adopted \cup Live \cup gone
  /\ May(u, name)
  /\ IndexFor(u, ws)[NormOf[name]] = None
  /\ \A d \in Live : NormOf[eng[d]] # NormOf[name]
  /\ eng' = [eng EXCEPT ![c] = name]
  /\ ws' = [ws EXCEPT !.rec[c] = name, !.idx[NormOf[name]] = c]
  /\ tab' = [tab EXCEPT ![u] = Loaded(u, c, name, ws')]
  /\ UNCHANGED <<gone, asg, iv, usage>>

(* GET /api/module-state/workspace: an owner's read first migrates, and    *)
(* the name served is the table's (stampServerNames) or the record's       *)
Open(u, c) ==
  /\ c \in Live /\ ws.rec[c] # None
  /\ u \in Owners \/ CodeToNorm(ws, Table)[c] \in Scope(u)
  /\ ws' = IF u \in Owners THEN Widened(ws) ELSE ws
  /\ tab' = [tab EXCEPT ![u] =
                Loaded(u, c, IF Table[c] # None THEN Table[c] ELSE ws.rec[c], ws')]
  /\ UNCHANGED <<eng, gone, asg, iv, usage>>

(* a page may save for its client unless the client is known to be gone *)
Working(u) == tab[u] # None /\ (tab[u].code \in Live \/ "deleted" \in Stale)

(* enforceServerNames, for every role: the table's name replaces the       *)
(* page's, and an index entry of a coded engagement moves to its norm      *)
ServerName(c, name) == IF Table[c] # None THEN Table[c] ELSE name

EnforcedIndex(i) ==
  LET place(k) == IF Table[i[k]] # None THEN NormOf[Table[i[k]]] ELSE k
      from(n) == {k \in Norms : i[k] # None /\ place(k) = n}
  IN  [n \in Norms |-> IF from(n) = {} THEN None ELSE i[CHOOSE k \in from(n) : TRUE]]

(* scopeWorkspaceWrite: whose a code is, from what the caller cannot       *)
(* assert; an incoming record counts only for a code never seen before     *)
CodeOwner(c, name) ==
  LET known == CodeToNorm(ws, Table)[c] IN IF known # None THEN known ELSE NormOf[name]

ScopedIndex_replaced(i, A, c, name) ==
  [n \in Norms |-> IF i[n] # None /\ CodeToNorm(ws, Table)[i[n]] \notin A /\ i[n] # c
                     THEN ws.idx[n] ELSE i[n]]

(* and the merge of the shared index: others' entries are kept, and a      *)
(* binding to a code of theirs is refused                                  *)
ScopedIndex(i, A, c, name) ==
  [n \in Norms |->
     IF n \notin A THEN ws.idx[n]
     ELSE IF i[n] = None THEN None
     ELSE LET owner == IF i[n] = c THEN CodeOwner(c, name) ELSE CodeToNorm(ws, Table)[i[n]]
          IN  IF owner \in A THEN i[n] ELSE ws.idx[n]]

(* the page files nothing of a client the table does not know under an old name *)
Current(u) ==
  /\ tab[u].code \in Adopted \/ eng[tab[u].code] = tab[u].name
  /\ \A n \in Norms : tab[u].idx[n] \in Live \ Adopted => n \in Forms(eng[tab[u].idx[n]])

(* PUT of an engagement's record with the page's whole copy of the index *)
SaveRecord(u) ==
  /\ Working(u)
  /\ Current(u) \/ "record" \in Stale
  /\ LET t == tab[u]
         name == ServerName(t.code, t.name)
         mine == [t.idx EXCEPT ![NormOf[t.name]] = t.code]
         sent == EnforcedIndex(mine)
         A == Scope(u)
     IN  /\ ws' = IF u \in Owners
                    THEN [ws EXCEPT !.idx = sent, !.rec[t.code] = name]
                    ELSE [ws EXCEPT !.idx = ScopedIndex(sent, A, t.code, name),
                                    !.rec[t.code] = IF CodeOwner(t.code, name) \in A
                                                      THEN name ELSE @]
         /\ tab' = [tab EXCEPT ![u].idx = mine]
  /\ UNCHANGED <<eng, gone, asg, iv, usage>>

(* a name that another client bears now *)
Borne(name, c) == \E d \in Live \ {c} : NormOf[eng[d]] = NormOf[name]

(* vyneWriteClientKey: write at the code, drop the norm-addressed copy the *)
(* page holds; each key is set or deleted only inside the scope            *)
SaveDoc(u) ==
  /\ Working(u)
  /\ LET t == tab[u]
         n == NormOf[t.name]
         inScope(who) == u \in Owners \/ who \in Scope(u)
         drops == t.held /\ inScope(n)
     IN  /\ ~drops \/ ~Borne(t.name, t.code) \/ "document" \in Stale
         /\ ws' = [ws EXCEPT !.doc =
                     [a \in Addrs |->
                        IF a = t.code /\ inScope(CodeToNorm(ws, Table)[t.code]) THEN t.code
                        ELSE IF a = n /\ drops THEN None
                        ELSE @[a]]]
  /\ tab' = [tab EXCEPT ![u].held = FALSE]
  /\ UNCHANGED <<eng, gone, asg, iv, usage>>

(* an interview session carries its client only as the page's name for it; *)
(* one the server has already resolves by the stored name                  *)
SaveSession(u) ==
  /\ Working(u)
  /\ LET t == tab[u]
         stored == ws.sess[t.code]
         who == NormOf[IF stored # None THEN stored ELSE t.name]
     IN  /\ eng[t.code] = t.name \/ "session" \in Stale
         /\ u \in Owners \/ who \in Scope(u)
         /\ ws' = [ws EXCEPT !.sess[t.code] = t.name]
  /\ UNCHANGED <<eng, gone, asg, iv, usage, tab>>

(* POST /api/interviews and a metered call carry the client's name, which  *)
(* the server takes as it is: the one shown when the page was loaded       *)
Invite(u) ==
  /\ tab[u] # None /\ May(u, tab[u].name)
  /\ iv' = iv \cup {tab[u].name} /\ Cardinality(iv') <= Most
  /\ UNCHANGED <<eng, gone, asg, usage, ws, tab>>

Charge(u) ==
  /\ tab[u] # None /\ May(u, tab[u].name)
  /\ tab[u].code \notin Live \/ eng[tab[u].code] = tab[u].name \/ "charge" \in Stale
  /\ usage' = usage \cup {[of |-> tab[u].code, norm |-> NormOf[tab[u].name]]}
  /\ Cardinality(usage') <= Most
  /\ UNCHANGED <<eng, gone, asg, iv, ws, tab>>

--------------------------------------------------------------------------------
(* Owners: assignments, the team, rename and deletion *)

(* POST /api/assignments: one row per consultant and norm, any name *)
Assign(u, name) ==
  /\ asg' = {r \in asg : r.user # u \/ NormOf[r.name] # NormOf[name]}
              \cup {[user |-> u, name |-> name]}
  /\ Cardinality(asg') <= Most
  /\ UNCHANGED <<eng, gone, iv, usage, ws, tab>>

(* DELETE /api/assignments *)
Unassign(u, name) ==
  /\ \E r \in asg : r.user = u /\ NormOf[r.name] = NormOf[name]
  /\ asg' = {r \in asg : r.user # u \/ NormOf[r.name] # NormOf[name]}
  /\ UNCHANGED <<eng, gone, iv, usage, ws, tab>>

(* DELETE /api/team *)
RemoveMember(u) ==
  /\ asg' = {r \in asg : r.user # u}
  /\ tab' = [tab EXCEPT ![u] = None]
  /\ UNCHANGED <<eng, gone, iv, usage, ws>>

(* resolveEngagementCode: the workspace must know the code *)
Corroborated(c) == ws.rec[c] # None \/ \E n \in Norms : ws.idx[n] = c

(* ownedNormsFor: the name the page sent, every index entry of the code    *)
(* and the name inside the record                                          *)
OwnedNorms(c, sent) ==
  Forms(sent) \cup {n \in Norms : ws.idx[n] = c}
              \cup (IF ws.rec[c] # None THEN Forms(ws.rec[c]) ELSE {})

Rows(norms) == {d \in Live : Forms(eng[d]) \cap norms # {}}

(* planClientRename's collision test: a norm some other client holds *)
TakenByRow(new, rows) == \E d \in Live \ rows : NormOf[eng[d]] = NormOf[new]
TakenByAssignment(new) == \E r \in asg : NormOf[r.name] = NormOf[new]
Taken(new, rows) ==
  \/ ws.idx[NormOf[new]] # None
  \/ TakenByRow(new, rows)
  \/ \E n \in iv : NormOf[n] = NormOf[new]
  \/ TakenByAssignment(new)

(* what the transaction does to the rows that carry the norm *)
Reassigned(norms, new) == {[r EXCEPT !.name = IF NormOf[@] \in norms THEN new ELSE @] : r \in asg}
Rebilled(norms, to) == {[x EXCEPT !.norm = IF @ \in norms THEN to ELSE @] : x \in usage}

Carried_copied(f, norms, to, pref) ==
  LET from == {n \in norms : f[n] # None}
  IN  IF from = {} THEN f ELSE [f EXCEPT ![to] = f[CHOOSE n \in from : TRUE]]

(* renameOwnedKeys, keys that carry the norm: the preferred copy wins, the *)
(* other owned copies go, and an orphan at the destination is overwritten  *)
Carried(f, norms, to, pref) ==
  LET from == {n \in norms : f[n] # None}
      winner == IF pref \in from THEN pref ELSE IF to \in from THEN to
                ELSE CHOOSE n \in from : TRUE
  IN  IF from = {} THEN f
      ELSE [a \in DOMAIN f |-> IF a = to THEN f[winner]
                               ELSE IF a \in norms THEN None ELSE f[a]]

(* and the index: one norm per code, always *)
Reindexed(norms, c, to) ==
  LET mine == {n \in Norms : ws.idx[n] # None /\ (ws.idx[n] = c \/ n \in norms)}
  IN  [n \in Norms |-> IF n = to /\ mine # {} THEN c
                       ELSE IF n \in mine THEN None ELSE ws.idx[n]]

(* the workspace after the rename *)
RenamedWorkspace(norms, c, new, pref) ==
  LET m == CodeToNorm(ws, NoTable)
      to == NormOf[new]
  IN  [idx |-> Reindexed(norms, c, to),
       rec |-> [d \in Codes |-> IF ws.rec[d] # None /\ (d = c \/ m[d] \in norms)
                                  THEN new ELSE ws.rec[d]],
       doc |-> Carried(ws.doc, norms, to, pref),
       sess |-> [d \in Codes |-> IF ws.sess[d] # None /\ NormOf[ws.sess[d]] \in norms
                                   THEN new ELSE ws.sess[d]]]

(* PATCH /api/clients/rename, one transaction, from the page's code and    *)
(* the name the page shows; the page re-reads afterwards                   *)
Rename(u, new) ==
  /\ tab[u] # None /\ tab[u].name # new
  /\ LET c == tab[u].code
         base == OwnedNorms(c, tab[u].name)
         rows == Rows(base)
         norms == base \cup {NormOf[eng[d]] : d \in rows}
         to == NormOf[new]
     IN  /\ eng[c] = tab[u].name \/ "rename" \in Stale
         /\ Corroborated(c)
         /\ to \in norms \/ ~Taken(new, rows)
         /\ \E pref \in IF rows = {} THEN {NormOf[tab[u].name]} ELSE {NormOf[eng[d]] : d \in rows} :
              ws' = RenamedWorkspace(norms, c, new, pref)
         /\ eng' = [d \in Codes |-> IF d \in rows THEN new ELSE eng[d]]
         /\ iv' = {IF Forms(n) \cap norms # {} THEN new ELSE n : n \in iv}
         /\ asg' = Reassigned(norms, new)
         /\ usage' = Rebilled(norms, to)
         /\ tab' = [tab EXCEPT ![u] = Loaded(u, c, new, ws')]
  /\ UNCHANGED gone

Purged_byNorm(norm, also) ==
  [idx |-> [ws.idx EXCEPT ![norm] = None],
   rec |-> [c \in Codes |-> IF ws.idx[norm] = c THEN None ELSE ws.rec[c]],
   doc |-> [a \in Addrs |-> IF a = norm THEN None ELSE ws.doc[a]],
   sess |-> [c \in Codes |-> IF ws.sess[c] # None /\ NormOf[ws.sess[c]] = norm
                               THEN None ELSE ws.sess[c]]]

(* purgeClientKeys: every key that resolves to the client *)
Purged(norm, also) ==
  LET m == CodeToNorm(ws, NoTable)
      own == {norm} \cup also
  IN  [idx |-> [ws.idx EXCEPT ![norm] = None],
       rec |-> [c \in Codes |-> IF m[c] \in own THEN None ELSE ws.rec[c]],
       doc |-> [a \in Addrs |-> IF ClientOf(m, a) \in own THEN None ELSE ws.doc[a]],
       sess |-> [c \in Codes |-> IF ws.sess[c] # None /\ NormOf[ws.sess[c]] \in own
                                   THEN None ELSE ws.sess[c]]]

(* DELETE /api/clients, one transaction, by the name the page shows: the   *)
(* client that bears it now goes, be it another; billing history stays     *)
Delete(u) ==
  /\ tab[u] # None
  /\ LET name == tab[u].name
         norm == NormOf[name]
         dead == {c \in Live : NormOf[eng[c]] = norm}
     IN  /\ iv' = {n \in iv : NormOf[n] # norm}
         /\ eng' = [c \in Codes |-> IF c \in dead THEN None ELSE eng[c]]
         /\ gone' = gone \cup dead
         /\ asg' = {r \in asg : NormOf[r.name] \notin Forms(name)}
         /\ ws' = Purged(norm, Forms(name))
         /\ tab' = [tab EXCEPT ![u] = None]
  /\ UNCHANGED usage

Next ==
  \/ \E u \in Pages :
       \/ \E c \in Codes : (\E name \in Names : Create(u, c, name)) \/ Open(u, c)
       \/ SaveRecord(u) \/ SaveDoc(u) \/ SaveSession(u)
       \/ Invite(u) \/ Charge(u)
  \/ \E u \in Consultants :
       \/ \E name \in Names : Assign(u, name) \/ Unassign(u, name)
       \/ RemoveMember(u)
  \/ \E u \in Owners : (\E new \in Names : Rename(u, new)) \/ Delete(u)

Spec == Init /\ [][Next]_vars

--------------------------------------------------------------------------------
(* Properties *)

(* the engagements a consultant was assigned, by the client's current name *)
Entitled(u) ==
  {c \in Live : \E r \in asg : r.user = u /\ NormOf[r.name] = NormOf[eng[c]]}

(* A consultant's read of the workspace hands over nothing of a client     *)
(* they are not assigned to, whatever was renamed, deleted, registered     *)
(* again or saved from a page that had not noticed (filterWorkspaceState,  *)
(* clients.ts 506-556).                                                    *)
ReadsOwnClients == \A u \in Consultants : Shown(ws, Table, Scope(u)) \subseteq Entitled(u)

(* The index names a coded engagement once, and by its current name: a     *)
(* page that still holds the old name cannot bring it back                 *)
(* (enforceServerNames, clients.ts 2124-2181; renameOwnedKeys 1506-1531).  *)
OneNormPerCode ==
  \A n, k \in Norms :
    ws.idx[n] # None /\ ws.idx[n] \in Live =>
      /\ n \in Forms(eng[ws.idx[n]])
      /\ ws.idx[k] = ws.idx[n] => k = n

(* Billing rows stay with the client they were spent for: a rename takes   *)
(* all of them along, and the client that is given the freed name finds    *)
(* none there (assignments.ts 627-672).                                    *)
BillingFollows ==
  \A x \in usage : x.of \in Live => x.norm = NormOf[eng[x.of]]

Renamed == {c \in Live : eng'[c] \notin {None, eng[c]}}

(* A rename moves nobody's access: each consultant sees the work of the    *)
(* same clients before and after it (assignments.ts 478-486, 593-626).     *)
RenameKeepsAccess ==
  [][Renamed # {} =>
       \A u \in Consultants : Shown(ws, Table, Scope(u))' = Shown(ws, Table, Scope(u))]_vars

(* what the workspace holds of an engagement *)
WorkOf(w, c) ==
  {<<"doc", a>> : a \in {x \in Addrs : w.doc[x] = c}}
    \cup {<<"index", n>> : n \in {x \in Norms : w.idx[x] = c}}
    \cup {<<"rec", c>> : x \in {y \in {c} : w.rec[y] # None}}
    \cup {<<"sess", c>> : x \in {y \in {c} : w.sess[y] # None}}

(* Deleting a client leaves nothing of it in the workspace, whatever name  *)
(* or norm the pieces were filed under (assignments.ts 261-266,            *)
(* purgeClientKeys).                                                       *)
ErasedLeavesNothing ==
  [][\A c \in gone' \ gone : WorkOf(ws', c) = {}]_vars

(* Short of its deletion a client keeps the work filed for it: renames,    *)
(* migrations and other people's saves may move it, never lose it.         *)
WorkKept ==
  [][\A c \in Live :
       c \notin gone' => /\ (\E a \in Addrs : ws.doc[a] = c) => \E a \in Addrs : ws'.doc[a] = c
                         /\ ws.rec[c] # None => ws'.rec[c] # None
                         /\ ws.sess[c] # None => ws'.sess[c] # None]_vars

(* What a consultant saves changes only clients they are assigned to: the  *)
(* whole copy of a shared key they send back neither drops nor rebinds     *)
(* anybody else's entry (scopeWorkspaceWrite, clients.ts 772-995).         *)
ConsultantsWriteTheirOwn ==
  [][ws' # ws => \A u \in Consultants : SaveRecord(u) \/ SaveDoc(u) \/ SaveSession(u) =>
       \A c \in Live \ Entitled(u) : WorkOf(ws', c) = WorkOf(ws, c)]_vars

(* A rename changes the one client it is about: the code decides which,    *)
(* never the name the page had cached (clients.ts 1203-1204,               *)
(* pre_engagement.html 1004-1006).                                         *)
RenameTouchesOneClient ==
  [][Cardinality(Renamed) <= 1]_vars

(* Every state: rows in shape, reads scoped, one norm per code, bills kept *)
ScopeHolds == TypeOK /\ ReadsOwnClients /\ OneNormPerCode /\ BillingFollows

(* What moves a client's identity moves all of it, and its deletion leaves *)
(* nothing: access, work and the pieces filed under an old norm.           *)
IdentityMovesWhole == RenameKeepsAccess /\ ErasedLeavesNothing /\ WorkKept
================================================================================
