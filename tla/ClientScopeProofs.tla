--------------------------- MODULE ClientScopeProofs ---------------------------
(***************************************************************************)
(* Whose work a consultant reads and writes, and what a rename and a       *)
(* deletion move, for any number of clients, names, owners' and            *)
(* consultants' pages, assignments and bills.  No name may be the          *)
(* truncation of another, and a page that has not noticed a name to have   *)
(* changed may invite and delete under it, and drop a document filed under *)
(* it (which loses work, but shows it to nobody), and no more.             *)
(***************************************************************************)
EXTENDS ClientScope, FiniteSetTheorems, TLAPS

(* No name means what another name may mean.                               *)
NamesApart ==
  \A n, m \in Names : Forms(n) \cap Forms(m) # {} => NormOf[n] = NormOf[m]

Known == Live \cup gone

NamesDiffer == \A c, d \in Live : NormOf[eng[c]] = NormOf[eng[d]] => c = d

(* Pages, index and bills know of no code that was not a client's.         *)
CodesKnown ==
  /\ Adopted \subseteq Known
  /\ \A x \in usage : x.of \in Known
  /\ \A n \in Norms : ws.idx[n] \in Known \cup {None}
  /\ \A u \in Pages : tab[u] # None =>
       /\ tab[u].code \in Known
       /\ \A n \in Norms : tab[u].idx[n] \in Known \cup {None}

Plain == {NormOf[n] : n \in Names}

(* Only a client the table knows was ever filed under a truncated norm.    *)
TruncatedAdopted ==
  /\ \A n \in Norms : ws.idx[n] \in Codes \ Adopted => n \in Plain
  /\ \A u \in Pages, n \in Norms :
       tab[u] # None /\ tab[u].idx[n] \in Codes \ Adopted => n \in Plain

IndexNames == \A n \in Norms : ws.idx[n] \in Live => n \in Forms(eng[ws.idx[n]])

Filed(c) == \A n \in Norms : ws.idx[n] = c => n = NormOf[eng[c]]

(* An entry that waits to be moved is what every page has read there.      *)
Waits(c, l) ==
  /\ ws.idx[NormOf[eng[c]]] = None
  /\ \A u \in Pages : tab[u] # None =>
       /\ tab[u].idx[l] \in {None, c}
       /\ tab[u].idx[NormOf[eng[c]]] \in {None, c}
       /\ NormOf[tab[u].name] = NormOf[eng[c]] => tab[u].code = c

EntriesWait ==
  \A c \in Live, l \in Norms : ws.idx[l] = c /\ l # NormOf[eng[c]] => Waits(c, l)

(* An owner's page is open on clients whose entry has been moved.          *)
OwnersMoved ==
  \A u \in Owners : tab[u] # None /\ tab[u].code \in Live => Filed(tab[u].code)

DocsFiled ==
  \A a \in Addrs : ws.doc[a] # None =>
    /\ ws.doc[a] \in Live
    /\ a \in Codes => ws.doc[a] = a
    /\ a \in Norms => a \in Forms(eng[ws.doc[a]])

SessionsNamed ==
  \A c \in Codes : ws.sess[c] # None => c \in Live /\ NormOf[ws.sess[c]] = NormOf[eng[c]]

ScopeInv ==
  /\ NamesDiffer /\ ws.rec = eng /\ CodesKnown /\ TruncatedAdopted /\ IndexNames
  /\ EntriesWait /\ OwnersMoved /\ DocsFiled /\ SessionsNamed /\ BillingFollows
--------------------------------------------------------------------------------
(* Names, their forms and what stands for what                             *)

LEMMA FormsAgree ==
  ASSUME NEW n \in Names, NEW m \in Names, NormOf[n] = NormOf[m]
  PROVE  Forms(n) = Forms(m)
BY LegacyAssumption DEF Forms

LEMMA FormsMeet ==
  ASSUME NamesApart, NEW n \in Names, NEW m \in Names,
         NEW a \in Forms(n), a \in Forms(m)
  PROVE  NormOf[n] = NormOf[m]
BY DEF NamesApart

LEMMA FormsAreNorms ==
  ASSUME NEW n \in Names
  PROVE  NormOf[n] \in Norms /\ NormOf[n] \in Forms(n) /\ Forms(n) \subseteq Norms
BY ClientAssumption DEF Forms

LEMMA LiveAreNamed ==
  ASSUME TypeOK, NEW c \in Live
  PROVE  c \in Codes /\ eng[c] \in Names /\ eng[c] # None
BY DEF TypeOK, Live, NameOrNone

(* What a consultant's rows reach is whole clients: both forms or none.    *)
LEMMA ScopeByName ==
  ASSUME TypeOK, NamesApart, NEW u \in Consultants, NEW name \in Names, NEW a \in Forms(name)
  PROVE  a \in Scope(u) <=> \E r \in asg : r.user = u /\ NormOf[r.name] = NormOf[name]
<1>1. ASSUME a \in Scope(u)
      PROVE  \E r \in asg : r.user = u /\ NormOf[r.name] = NormOf[name]
  <2>1. PICK r \in asg : r.user = u /\ a \in Forms(r.name)
    BY <1>1 DEF Scope
  <2>2. r.name \in Names
    BY DEF TypeOK
  <2> QED  BY <2>1, <2>2, FormsMeet
<1>2. ASSUME NEW r \in asg, r.user = u, NormOf[r.name] = NormOf[name]
      PROVE  a \in Scope(u)
  <2>1. r.name \in Names
    BY DEF TypeOK
  <2>2. Forms(r.name) = Forms(name)
    BY <1>2, <2>1, FormsAgree
  <2> QED  BY <1>2, <2>2 DEF Scope
<1> QED  BY <1>1, <1>2

LEMMA ScopeIsWhole ==
  ASSUME TypeOK, NamesApart, NEW u \in Consultants, NEW name \in Names,
         NEW a \in Forms(name), NEW b \in Forms(name)
  PROVE  a \in Scope(u) <=> b \in Scope(u)
BY ScopeByName

LEMMA EntitledByScope ==
  ASSUME TypeOK, NamesApart, NEW u \in Consultants, NEW c \in Live, NEW a \in Forms(eng[c])
  PROVE  a \in Scope(u) <=> c \in Entitled(u)
<1>1. eng[c] \in Names
  BY LiveAreNamed
<1>2. a \in Scope(u) <=> \E r \in asg : r.user = u /\ NormOf[r.name] = NormOf[eng[c]]
  BY <1>1, ScopeByName
<1> QED  BY <1>2 DEF Entitled

(* The code of a client that is there resolves to its current norm.        *)
LEMMA CodesResolve ==
  ASSUME TypeOK, ws.rec = eng, NEW c \in Live
  PROVE  /\ CodeToNorm(ws, Table)[c] = NormOf[eng[c]]
         /\ CodeToNorm(ws, NoTable)[c] = NormOf[eng[c]]
BY LiveAreNamed DEF CodeToNorm, Table, NoTable

(* A legacy norm is widened to the norm of the one client it stands for.   *)
LEMMA WideStands ==
  ASSUME NEW l \in Norms, NEW known \in SUBSET Names, WideOf(l, known) # None
  PROVE  \E k \in known : LegacyOf[k] = l /\ NormOf[k] # l /\ NormOf[k] = WideOf(l, known)
<1>1. /\ Cardinality(WideNorms(l, known)) = 1
      /\ WideOf(l, known) = CHOOSE n \in WideNorms(l, known) : TRUE
  BY DEF WideOf
<1>2. WideNorms(l, known) # {}
  BY <1>1, FS_EmptySet
<1>3. WideOf(l, known) \in WideNorms(l, known)
  BY <1>1, <1>2
<1> QED  BY <1>3 DEF WideNorms

LEMMA WideIsNorm ==
  ASSUME NamesApart, NEW known \in SUBSET Names, NEW k \in known, LegacyOf[k] # NormOf[k]
  PROVE  WideOf(LegacyOf[k], known) = NormOf[k]
<1>1. ASSUME NEW j \in known, LegacyOf[j] = LegacyOf[k]
      PROVE  NormOf[j] = NormOf[k]
  BY <1>1 DEF NamesApart, Forms
<1>2. WideNorms(LegacyOf[k], known) = {NormOf[k]}
  BY <1>1 DEF WideNorms
<1>3. Cardinality(WideNorms(LegacyOf[k], known)) = 1
  BY <1>2, FS_Singleton
<1> QED  BY <1>2, <1>3 DEF WideOf

LEMMA WideFromOne ==
  ASSUME NEW known \in SUBSET Names, NEW l \in Norms, NEW k \in Norms,
         WideOf(l, known) # None, WideOf(k, known) = WideOf(l, known)
  PROVE  k = l
<1>1. PICK i \in known : LegacyOf[i] = l /\ NormOf[i] = WideOf(l, known)
  BY WideStands
<1>2. PICK j \in known : LegacyOf[j] = k /\ NormOf[j] = WideOf(k, known)
  BY WideStands
<1> QED  BY <1>1, <1>2, LegacyAssumption

(* Widening invents nothing: a value was there, or under the legacy norm.  *)
LEMMA WidenedFrom ==
  ASSUME NEW f, NEW known \in SUBSET Names, NEW a \in DOMAIN f, Widen(f, known)[a] # None
  PROVE  \/ f[a] = Widen(f, known)[a]
         \/ \E l \in Norms : f[l] = Widen(f, known)[a] /\ WideOf(l, known) = a
<1>1. CASE f[a] = None /\ \E l \in Norms : f[l] # None /\ WideOf(l, known) = a
  <2> DEFINE l == CHOOSE x \in Norms : f[x] # None /\ WideOf(x, known) = a
  <2>1. l \in Norms /\ WideOf(l, known) = a
    BY <1>1
  <2>2. Widen(f, known)[a] = f[l]
    BY <1>1 DEF Widen
  <2> QED  BY <2>1, <2>2
<1> QED  BY <1>1 DEF Widen

(* It loses nothing: a value stays, or moves to where it is widened to.    *)
LEMMA WidenedTo ==
  ASSUME NEW f, NEW known \in SUBSET Names, Norms \subseteq DOMAIN f,
         NEW a \in DOMAIN f, f[a] # None
  PROVE  \/ Widen(f, known)[a] = f[a]
         \/ a \in Norms /\ WideOf(a, known) \in Norms /\ Widen(f, known)[WideOf(a, known)] = f[a]
<1>1. CASE a \in Norms /\ WideOf(a, known) # None /\ f[WideOf(a, known)] = None
  <2> DEFINE b == WideOf(a, known)
             l == CHOOSE x \in Norms : f[x] # None /\ WideOf(x, known) = b
  <2>1. b \in Norms
    BY <1>1, WideStands, ClientAssumption
  <2>2. l \in Norms /\ WideOf(l, known) = b
    BY <1>1
  <2>3. l = a
    BY <1>1, <2>2, WideFromOne
  <2>4. Widen(f, known)[b] = f[l]
    BY <1>1, <2>1 DEF Widen
  <2> QED  BY <1>1, <2>1, <2>3, <2>4
<1> QED  BY <1>1 DEF Widen

(* And where there is room it moves.                                       *)
LEMMA WidenedAway ==
  ASSUME NEW f, NEW known \in SUBSET Names, NEW a \in DOMAIN f \cap Norms,
         f[a] # None, WideOf(a, known) # None, f[WideOf(a, known)] = None
  PROVE  Widen(f, known)[a] = None
BY DEF Widen

--------------------------------------------------------------------------------
(* Types                                                                   *)

LEMMA LoadedTyped ==
  ASSUME NEW u \in Pages, NEW c \in Codes, NEW name \in Names, NEW w \in Workspace
  PROVE  Loaded(u, c, name, w) \in Tabs
<1>1. IndexFor(u, w) \in [Norms -> CodeOrNone]
  BY DEF IndexFor, Workspace, CodeOrNone
<1>2. (w.doc[NormOf[name]] # None /\ May(u, name)) \in BOOLEAN
  OBVIOUS
<1> QED  BY <1>1, <1>2 DEF Loaded, Tabs

LEMMA WidenTyped ==
  ASSUME NEW S, Norms \subseteq S, NEW f \in [S -> CodeOrNone], NEW known \in SUBSET Names
  PROVE  Widen(f, known) \in [S -> CodeOrNone]
<1>1. Widen(f, known) = [a \in S |-> Widen(f, known)[a]]
  BY DEF Widen
<1>2. ASSUME NEW a \in S  PROVE  Widen(f, known)[a] \in CodeOrNone
  <2>1. CASE Widen(f, known)[a] = None
    BY <2>1 DEF CodeOrNone
  <2>2. CASE Widen(f, known)[a] # None
    BY <2>2, WidenedFrom
  <2> QED  BY <2>1, <2>2
<1> QED  BY <1>1, <1>2

KnownNames == {r.name : r \in asg} \cup {eng[c] : c \in Live}

LEMMA WidenedTyped ==
  ASSUME TypeOK
  PROVE  /\ KnownNames \in SUBSET Names
         /\ Widened(ws) = [idx |-> Widen(ws.idx, KnownNames), rec |-> ws.rec,
                           doc |-> Widen(ws.doc, KnownNames), sess |-> ws.sess]
         /\ Widened(ws) \in Workspace
<1>1. KnownNames \in SUBSET Names
  BY LiveAreNamed DEF KnownNames, TypeOK
<1>2. Widened(ws) = [ws EXCEPT !.idx = Widen(ws.idx, KnownNames), !.doc = Widen(ws.doc, KnownNames)]
  BY DEF Widened, KnownNames
<1>3. ws \in Workspace
  BY DEF TypeOK
<1>4. Widen(ws.idx, KnownNames) \in [Norms -> CodeOrNone]
  BY <1>1, <1>3, WidenTyped DEF Workspace
<1>5. Widen(ws.doc, KnownNames) \in [Addrs -> CodeOrNone]
  BY <1>1, <1>3, WidenTyped DEF Workspace, Addrs
<1> QED  BY <1>1, <1>2, <1>3, <1>4, <1>5 DEF Workspace

LEMMA EnforcedTyped ==
  ASSUME NEW i \in [Norms -> CodeOrNone]
  PROVE  EnforcedIndex(i) \in [Norms -> CodeOrNone]
BY DEF EnforcedIndex, CodeOrNone

LEMMA ScopedTyped ==
  ASSUME TypeOK, NEW i \in [Norms -> CodeOrNone], NEW A, NEW c, NEW name
  PROVE  ScopedIndex(i, A, c, name) \in [Norms -> CodeOrNone]
BY DEF ScopedIndex, CodeOrNone, TypeOK, Workspace

LEMMA InitTyped == Init => TypeOK
<1> SUFFICES ASSUME Init PROVE TypeOK  OBVIOUS
<1>1. PICK names \in [Adopted -> Names], Form \in {NormOf, LegacyOf} :
        /\ eng = [c \in Codes |-> IF c \in Adopted THEN names[c] ELSE None]
        /\ ws = LET at(n) == {c \in Adopted : Form[names[c]] = n}
                    filed(n) == IF at(n) = {} THEN None ELSE CHOOSE c \in at(n) : TRUE
                IN  [Empty EXCEPT !.rec = eng, !.idx = [n \in Norms |-> filed(n)],
                                  !.doc = [a \in Addrs |-> IF a \in Norms THEN filed(a) ELSE None]]
  BY DEF Init
<1> DEFINE at(n) == {c \in Adopted : Form[names[c]] = n}
           filed(n) == IF at(n) = {} THEN None ELSE CHOOSE c \in at(n) : TRUE
<1>2. \A n : filed(n) \in CodeOrNone
  BY ClientAssumption DEF CodeOrNone
<1>3. ws = [idx |-> [n \in Norms |-> filed(n)], rec |-> eng,
            doc |-> [a \in Addrs |-> IF a \in Norms THEN filed(a) ELSE None], sess |-> NoTable]
  BY <1>1 DEF Empty
<1> HIDE DEF filed
<1>4. eng \in [Codes -> NameOrNone]
  BY <1>1 DEF NameOrNone
<1>5. ws \in Workspace
  BY <1>2, <1>3, <1>4 DEF Workspace, CodeOrNone, NameOrNone, NoTable
<1>6. gone = {} /\ asg = {} /\ iv = {} /\ usage = {} /\ tab = [u \in Pages |-> None]
  BY DEF Init
<1> QED  BY <1>4, <1>5, <1>6 DEF TypeOK

LEMMA CreateTyped ==
  ASSUME TypeOK, NEW u \in Pages, NEW c \in Codes, NEW name \in Names, Create(u, c, name)
  PROVE  TypeOK'
<1>1. ws' \in Workspace
  BY FormsAreNorms DEF TypeOK, Workspace, Create, CodeOrNone, NameOrNone
<1>2. tab' \in [Pages -> Tabs \cup {None}]
  BY <1>1, LoadedTyped DEF TypeOK, Create
<1> QED  BY <1>1, <1>2 DEF TypeOK, Create, NameOrNone

LEMMA OpenTyped ==
  ASSUME TypeOK, NEW u \in Pages, NEW c \in Codes, Open(u, c)
  PROVE  TypeOK'
<1>1. ws' \in Workspace
  BY WidenedTyped DEF TypeOK, Open
<1> DEFINE name == IF Table[c] # None THEN Table[c] ELSE ws.rec[c]
<1>2. name \in Names
  BY DEF TypeOK, Open, Table, Workspace, NameOrNone
<1>3. tab' = [tab EXCEPT ![u] = Loaded(u, c, name, ws')]
  BY DEF Open
<1> HIDE DEF name
<1>4. tab' \in [Pages -> Tabs \cup {None}]
  BY <1>1, <1>2, <1>3, LoadedTyped DEF TypeOK
<1> QED  BY <1>1, <1>4 DEF TypeOK, Open

(* What a page sends of the index.                                         *)
Mine(u) == [tab[u].idx EXCEPT ![NormOf[tab[u].name]] = tab[u].code]
Sent(u) == EnforcedIndex(Mine(u))
RecordName(u) == ServerName(tab[u].code, tab[u].name)

LEMMA PageTyped ==
  ASSUME TypeOK, NEW u \in Pages, tab[u] # None
  PROVE  /\ tab[u] \in Tabs /\ tab[u].code \in Codes /\ tab[u].name \in Names
         /\ tab[u].idx \in [Norms -> CodeOrNone] /\ NormOf[tab[u].name] \in Norms
BY FormsAreNorms DEF TypeOK, Tabs

LEMMA SentTyped ==
  ASSUME TypeOK, NEW u \in Pages, tab[u] # None
  PROVE  /\ Mine(u) \in [Norms -> CodeOrNone] /\ Sent(u) \in [Norms -> CodeOrNone]
         /\ RecordName(u) \in Names
<1>1. Mine(u) \in [Norms -> CodeOrNone]
  BY PageTyped DEF Mine, CodeOrNone
<1>2. RecordName(u) \in Names
  BY PageTyped DEF RecordName, ServerName, Table, TypeOK, NameOrNone
<1> QED  BY <1>1, <1>2, EnforcedTyped DEF Sent

(* What is stored of it, field by field.                                   *)
SavedIndex(u) ==
  IF u \in Owners THEN Sent(u)
  ELSE ScopedIndex(Sent(u), Scope(u), tab[u].code, RecordName(u))

LEMMA SaveRecordEffect ==
  ASSUME TypeOK, NEW u \in Pages, SaveRecord(u)
  PROVE  /\ tab[u] # None
         /\ ws'.idx = SavedIndex(u)
         /\ \A c \in Codes :
              \/ ws'.rec[c] = ws.rec[c]
              \/ c = tab[u].code /\ ws'.rec[c] = RecordName(u)
         /\ ws'.doc = ws.doc /\ ws'.sess = ws.sess
         /\ ws' \in Workspace
         /\ tab' = [tab EXCEPT ![u].idx = Mine(u)]
<1>1. tab[u] # None
  BY DEF SaveRecord, Working
<1>2. /\ ws' = IF u \in Owners
                 THEN [ws EXCEPT !.idx = Sent(u), !.rec[tab[u].code] = RecordName(u)]
                 ELSE [ws EXCEPT !.idx = ScopedIndex(Sent(u), Scope(u), tab[u].code, RecordName(u)),
                                 !.rec[tab[u].code] =
                                    IF CodeOwner(tab[u].code, RecordName(u)) \in Scope(u)
                                      THEN RecordName(u) ELSE @]
      /\ tab' = [tab EXCEPT ![u].idx = Mine(u)]
  BY DEF SaveRecord, Mine, Sent, RecordName
<1>3. ws \in Workspace
  BY DEF TypeOK
<1>4. ws.rec \in [Codes -> NameOrNone]
  BY <1>3 DEF Workspace
<1>5. Sent(u) \in [Norms -> CodeOrNone] /\ RecordName(u) \in NameOrNone
  BY <1>1, SentTyped DEF NameOrNone
<1>6. ScopedIndex(Sent(u), Scope(u), tab[u].code, RecordName(u)) \in [Norms -> CodeOrNone]
  BY <1>5, ScopedTyped
<1>7. CASE u \in Owners
  BY <1>1, <1>2, <1>3, <1>4, <1>5, <1>7 DEF Workspace, SavedIndex
<1>8. CASE u \notin Owners
  <2>1. PICK name : /\ name \in {RecordName(u), ws.rec[tab[u].code]}
                    /\ ws' = [ws EXCEPT !.idx = SavedIndex(u), !.rec[tab[u].code] = name]
    BY <1>2, <1>8 DEF SavedIndex
  <2>2. name \in NameOrNone
    BY <2>1, <1>1, <1>4, <1>5, PageTyped
  <2>3. SavedIndex(u) \in [Norms -> CodeOrNone]
    BY <1>6, <1>8 DEF SavedIndex
  <2>4. /\ ws' \in Workspace /\ ws'.idx = SavedIndex(u)
        /\ ws'.rec = [ws.rec EXCEPT ![tab[u].code] = name]
        /\ ws'.doc = ws.doc /\ ws'.sess = ws.sess
    BY <2>1, <2>2, <2>3, <1>3 DEF Workspace
  <2> QED  BY <2>1, <2>4, <1>1, <1>2, <1>4
<1> QED  BY <1>7, <1>8

LEMMA SaveRecordTyped ==
  ASSUME TypeOK, NEW u \in Pages, SaveRecord(u)
  PROVE  TypeOK'
<1>1. ws' \in Workspace /\ tab[u] # None /\ tab' = [tab EXCEPT ![u].idx = Mine(u)]
  BY SaveRecordEffect
<1>2. Mine(u) \in [Norms -> CodeOrNone]
  BY <1>1, SentTyped
<1>3. tab' \in [Pages -> Tabs \cup {None}]
  BY <1>1, <1>2, PageTyped DEF TypeOK, Tabs
<1> QED  BY <1>1, <1>3 DEF TypeOK, SaveRecord


Reaches(u, who) == u \in Owners \/ who \in Scope(u)
Drops(u) == tab[u].held /\ Reaches(u, NormOf[tab[u].name])

LEMMA SaveDocEffect ==
  ASSUME TypeOK, NEW u \in Pages, SaveDoc(u)
  PROVE  /\ tab[u] # None
         /\ ws'.idx = ws.idx /\ ws'.rec = ws.rec /\ ws'.sess = ws.sess
         /\ ws' \in Workspace
         /\ \A a \in Addrs :
              \/ ws'.doc[a] = ws.doc[a]
              \/ /\ a = tab[u].code /\ ws'.doc[a] = a
                 /\ Reaches(u, CodeToNorm(ws, Table)[tab[u].code])
              \/ a = NormOf[tab[u].name] /\ Drops(u) /\ ws'.doc[a] = None
         /\ Reaches(u, CodeToNorm(ws, Table)[tab[u].code]) => ws'.doc[tab[u].code] = tab[u].code
         /\ Drops(u) => ~Borne(tab[u].name, tab[u].code) \/ "document" \in Stale
         /\ tab' = [tab EXCEPT ![u].held = FALSE]
<1> DEFINE t == tab[u]
           n == NormOf[t.name]
           doc == [a \in Addrs |->
                     IF a = t.code /\ Reaches(u, CodeToNorm(ws, Table)[t.code]) THEN t.code
                     ELSE IF a = n /\ Drops(u) THEN None ELSE ws.doc[a]]
<1>1. tab[u] # None
  BY DEF SaveDoc, Working
<1>2. /\ ws' = [ws EXCEPT !.doc = doc]
      /\ Drops(u) => ~Borne(tab[u].name, tab[u].code) \/ "document" \in Stale
      /\ tab' = [tab EXCEPT ![u].held = FALSE]
  BY DEF SaveDoc, Reaches, Drops
<1>3. ws \in Workspace
  BY DEF TypeOK
<1>4. t.code \in Codes /\ t.code \in Addrs /\ n \in Norms
  BY <1>1, PageTyped DEF Addrs
<1>5. doc \in [Addrs -> CodeOrNone]
  BY <1>3, <1>4 DEF Workspace, CodeOrNone
<1>6. /\ \A a \in Addrs :
           \/ doc[a] = ws.doc[a]
           \/ a = t.code /\ doc[a] = a /\ Reaches(u, CodeToNorm(ws, Table)[t.code])
           \/ a = n /\ Drops(u) /\ doc[a] = None
      /\ Reaches(u, CodeToNorm(ws, Table)[t.code]) => doc[t.code] = t.code
  BY <1>4
<1> HIDE DEF doc
<1>7. /\ ws'.idx = ws.idx /\ ws'.rec = ws.rec /\ ws'.sess = ws.sess /\ ws'.doc = doc
      /\ ws' \in Workspace
  BY <1>2, <1>3, <1>5 DEF Workspace
<1> QED  BY <1>1, <1>2, <1>6, <1>7

LEMMA SaveDocTyped ==
  ASSUME TypeOK, NEW u \in Pages, SaveDoc(u)
  PROVE  TypeOK'
<1>1. ws' \in Workspace /\ tab[u] # None /\ tab' = [tab EXCEPT ![u].held = FALSE]
  BY SaveDocEffect
<1>2. tab' \in [Pages -> Tabs \cup {None}]
  BY <1>1, PageTyped DEF TypeOK, Tabs
<1> QED  BY <1>1, <1>2 DEF TypeOK, SaveDoc

LEMMA SaveSessionEffect ==
  ASSUME TypeOK, NEW u \in Pages, SaveSession(u)
  PROVE  /\ tab[u].code \in Live \/ "deleted" \in Stale
         /\ eng[tab[u].code] = tab[u].name \/ "session" \in Stale
         /\ Reaches(u, NormOf[IF ws.sess[tab[u].code] # None THEN ws.sess[tab[u].code]
                                                             ELSE tab[u].name])
         /\ tab[u] # None
         /\ ws' = [ws EXCEPT !.sess[tab[u].code] = tab[u].name]
         /\ ws'.idx = ws.idx /\ ws'.rec = ws.rec /\ ws'.doc = ws.doc
         /\ ws'.sess = [ws.sess EXCEPT ![tab[u].code] = tab[u].name]
         /\ ws' \in Workspace
<1>1. tab[u] # None /\ ws' = [ws EXCEPT !.sess[tab[u].code] = tab[u].name]
  BY DEF SaveSession, Working
<1>2. /\ ws'.idx = ws.idx /\ ws'.rec = ws.rec /\ ws'.doc = ws.doc
      /\ ws'.sess = [ws.sess EXCEPT ![tab[u].code] = tab[u].name]
      /\ ws' \in Workspace
  BY <1>1, PageTyped DEF TypeOK, Workspace, NameOrNone
<1>3. tab[u].code \in Live \/ "deleted" \in Stale
  BY DEF SaveSession, Working
<1>4. /\ eng[tab[u].code] = tab[u].name \/ "session" \in Stale
      /\ Reaches(u, NormOf[IF ws.sess[tab[u].code] # None THEN ws.sess[tab[u].code]
                                                          ELSE tab[u].name])
  BY DEF SaveSession, Reaches
<1> QED  BY <1>1, <1>2, <1>3, <1>4

LEMMA SaveSessionTyped ==
  ASSUME TypeOK, NEW u \in Pages, SaveSession(u)
  PROVE  TypeOK'
BY SaveSessionEffect DEF TypeOK, SaveSession

LEMMA BillingTyped ==
  ASSUME TypeOK, NEW u \in Pages, Invite(u) \/ Charge(u)
  PROVE  TypeOK'
BY PageTyped DEF TypeOK, Invite, Charge

LEMMA TeamTyped ==
  ASSUME TypeOK, NEW u \in Consultants,
         (\E name \in Names : Assign(u, name) \/ Unassign(u, name)) \/ RemoveMember(u)
  PROVE  TypeOK'
BY DEF TypeOK, Assign, Unassign, RemoveMember, Pages

(* What a rename does to the workspace, field by field.                    *)
LEMMA CarriedTyped ==
  ASSUME NEW f \in [Addrs -> CodeOrNone], NEW norms \in SUBSET Norms, NEW to, NEW pref
  PROVE  Carried(f, norms, to, pref) \in [Addrs -> CodeOrNone]
<1> DEFINE from == {n \in norms : f[n] # None}
           winner == IF pref \in from THEN pref ELSE IF to \in from THEN to
                     ELSE CHOOSE n \in from : TRUE
<1>1. CASE from = {}
  BY <1>1 DEF Carried
<1>2. CASE from # {}
  <2>1. winner \in Addrs
    BY <1>2 DEF Addrs
  <2>2. Carried(f, norms, to, pref) =
          [a \in Addrs |-> IF a = to THEN f[winner] ELSE IF a \in norms THEN None ELSE f[a]]
    BY <1>2 DEF Carried
  <2> HIDE DEF winner
  <2> QED  BY <2>1, <2>2 DEF CodeOrNone
<1> QED  BY <1>1, <1>2

LEMMA RenamedTyped ==
  ASSUME TypeOK, NEW norms \in SUBSET Norms, NEW c \in Codes, NEW new \in Names, NEW pref
  PROVE  RenamedWorkspace(norms, c, new, pref) \in Workspace
<1>1. ws \in Workspace
  BY DEF TypeOK
<1>2. Reindexed(norms, c, NormOf[new]) \in [Norms -> CodeOrNone]
  BY <1>1 DEF Reindexed, Workspace, CodeOrNone
<1>3. Carried(ws.doc, norms, NormOf[new], pref) \in [Addrs -> CodeOrNone]
  BY <1>1, CarriedTyped DEF Workspace
<1> DEFINE rec == [d \in Codes |->
                     IF ws.rec[d] # None /\ (d = c \/ CodeToNorm(ws, NoTable)[d] \in norms)
                       THEN new ELSE ws.rec[d]]
           sess == [d \in Codes |-> IF ws.sess[d] # None /\ NormOf[ws.sess[d]] \in norms
                                      THEN new ELSE ws.sess[d]]
<1>4. rec \in [Codes -> NameOrNone] /\ sess \in [Codes -> NameOrNone]
  BY <1>1 DEF Workspace, NameOrNone
<1>5. RenamedWorkspace(norms, c, new, pref) =
        [idx |-> Reindexed(norms, c, NormOf[new]), rec |-> rec,
         doc |-> Carried(ws.doc, norms, NormOf[new], pref), sess |-> sess]
  BY DEF RenamedWorkspace
<1> HIDE DEF rec, sess
<1> QED  BY <1>2, <1>3, <1>4, <1>5 DEF Workspace

RenameBase(u) == OwnedNorms(tab[u].code, tab[u].name)
RenameNorms(u) == RenameBase(u) \cup {NormOf[eng[d]] : d \in Rows(RenameBase(u))}

LEMMA RenameEffect ==
  ASSUME TypeOK, NEW u \in Owners, NEW new \in Names, Rename(u, new)
  PROVE  /\ tab[u] # None /\ RenameNorms(u) \in SUBSET Norms
         /\ eng[tab[u].code] = tab[u].name \/ "rename" \in Stale
         /\ NormOf[new] \in RenameNorms(u) \/ ~Taken(new, Rows(RenameBase(u)))
         /\ \E pref : ws' = RenamedWorkspace(RenameNorms(u), tab[u].code, new, pref)
         /\ ws' \in Workspace
         /\ eng' = [d \in Codes |-> IF d \in Rows(RenameBase(u)) THEN new ELSE eng[d]]
         /\ iv' = {IF Forms(n) \cap RenameNorms(u) # {} THEN new ELSE n : n \in iv}
         /\ asg' = Reassigned(RenameNorms(u), new)
         /\ usage' = Rebilled(RenameNorms(u), NormOf[new])
         /\ tab' = [tab EXCEPT ![u] = Loaded(u, tab[u].code, new, ws')]
         /\ gone' = gone
<1>1. tab[u] # None /\ u \in Pages
  BY DEF Rename, Pages
<1>2. tab[u].code \in Codes /\ tab[u].name \in Names
  BY <1>1, PageTyped
<1>3. RenameBase(u) \subseteq Norms
  BY <1>2, FormsAreNorms DEF RenameBase, OwnedNorms, TypeOK, Workspace, NameOrNone
<1>4. RenameNorms(u) \in SUBSET Norms
  BY <1>3, FormsAreNorms, LiveAreNamed DEF RenameNorms, Rows
<1>5. /\ eng[tab[u].code] = tab[u].name \/ "rename" \in Stale
      /\ NormOf[new] \in RenameNorms(u) \/ ~Taken(new, Rows(RenameBase(u)))
      /\ \E pref : ws' = RenamedWorkspace(RenameNorms(u), tab[u].code, new, pref)
      /\ eng' = [d \in Codes |-> IF d \in Rows(RenameBase(u)) THEN new ELSE eng[d]]
      /\ iv' = {IF Forms(n) \cap RenameNorms(u) # {} THEN new ELSE n : n \in iv}
      /\ asg' = Reassigned(RenameNorms(u), new)
      /\ usage' = Rebilled(RenameNorms(u), NormOf[new])
      /\ tab' = [tab EXCEPT ![u] = Loaded(u, tab[u].code, new, ws')]
      /\ gone' = gone
  BY DEF Rename, RenameBase, RenameNorms
<1>6. ws' \in Workspace
  BY <1>2, <1>4, <1>5, RenamedTyped
<1> QED  BY <1>1, <1>4, <1>5, <1>6

LEMMA RenameTyped ==
  ASSUME TypeOK, NEW u \in Owners, NEW new \in Names, Rename(u, new)
  PROVE  TypeOK'
<1>1. u \in Pages /\ tab[u] # None /\ tab[u].code \in Codes
  BY RenameEffect, PageTyped DEF Pages
<1>2. Loaded(u, tab[u].code, new, ws') \in Tabs
  BY <1>1, RenameEffect, LoadedTyped
<1>3. tab' \in [Pages -> Tabs \cup {None}]
  BY <1>1, <1>2, RenameEffect DEF TypeOK
<1>4. eng' \in [Codes -> NameOrNone]
  BY RenameEffect DEF TypeOK, NameOrNone
<1>5. asg' \in SUBSET [user : Consultants, name : Names]
  BY RenameEffect DEF TypeOK, Reassigned
<1>6. usage' \in SUBSET [of : Codes, norm : Norms]
  BY RenameEffect, FormsAreNorms DEF TypeOK, Rebilled
<1>7. iv' \in SUBSET Names
  BY RenameEffect DEF TypeOK
<1> QED  BY <1>3, <1>4, <1>5, <1>6, <1>7, RenameEffect DEF TypeOK

LEMMA DeleteTyped ==
  ASSUME TypeOK, NEW u \in Owners, Delete(u)
  PROVE  TypeOK'
<1>1. ws \in Workspace /\ u \in Pages
  BY DEF TypeOK, Pages
<1> DEFINE name == tab[u].name
           dead == {c \in Live : NormOf[eng[c]] = NormOf[name]}
<1>2. ws' = Purged(NormOf[name], Forms(name))
  BY DEF Delete
<1>3. ws' \in Workspace
  BY <1>1, <1>2 DEF Purged, Workspace, CodeOrNone, NameOrNone
<1>4. /\ eng' = [c \in Codes |-> IF c \in dead THEN None ELSE eng[c]]
      /\ gone' = gone \cup dead /\ iv' \subseteq iv /\ asg' \subseteq asg /\ usage' = usage
      /\ tab' = [tab EXCEPT ![u] = None]
  BY DEF Delete
<1> QED  BY <1>1, <1>3, <1>4 DEF TypeOK, NameOrNone, Live

(* A step never leaves the types.                                          *)
LEMMA TypeStep == TypeOK /\ [Next]_vars => TypeOK'
<1> SUFFICES ASSUME TypeOK, [Next]_vars PROVE TypeOK'  OBVIOUS
<1>1. CASE \E u \in Pages : \E c \in Codes : (\E name \in Names : Create(u, c, name)) \/ Open(u, c)
  BY <1>1, CreateTyped, OpenTyped
<1>2. CASE \E u \in Pages : SaveRecord(u) \/ SaveDoc(u) \/ SaveSession(u) \/ Invite(u) \/ Charge(u)
  BY <1>2, SaveRecordTyped, SaveDocTyped, SaveSessionTyped, BillingTyped
<1>3. CASE \E u \in Consultants :
             (\E name \in Names : Assign(u, name) \/ Unassign(u, name)) \/ RemoveMember(u)
  BY <1>3, TeamTyped
<1>4. CASE \E u \in Owners : (\E new \in Names : Rename(u, new)) \/ Delete(u)
  BY <1>4, RenameTyped, DeleteTyped
<1>5. CASE UNCHANGED vars
  BY <1>5 DEF TypeOK, vars, Workspace
<1> QED  BY <1>1, <1>2, <1>3, <1>4, <1>5 DEF Next

--------------------------------------------------------------------------------
(* The invariant                                                           *)

LEMMA LiveMeet ==
  ASSUME NamesApart, TypeOK, NamesDiffer, NEW c \in Live, NEW d \in Live,
         NEW a \in Forms(eng[c]), a \in Forms(eng[d])
  PROVE  c = d
BY LiveAreNamed, FormsMeet DEF NamesDiffer

LEMMA PageHolds ==
  ASSUME NEW u \in Pages, NEW c, NEW name, NEW w
  PROVE  /\ Loaded(u, c, name, w).code = c /\ Loaded(u, c, name, w).name = name
         /\ \A n \in Norms : Loaded(u, c, name, w).idx[n] \in {None, w.idx[n]}
         /\ u \in Owners => \A n \in Norms : Loaded(u, c, name, w).idx[n] = w.idx[n]
<1> DEFINE held == w.doc[NormOf[name]] # None /\ May(u, name)
           idx == IndexFor(u, w)
<1>1. /\ \A n \in Norms : idx[n] \in {None, w.idx[n]}
      /\ u \in Owners => \A n \in Norms : idx[n] = w.idx[n]
  BY DEF IndexFor
<1>2. Loaded(u, c, name, w) = [code |-> c, name |-> name, idx |-> idx, held |-> held]
  BY DEF Loaded
<1> HIDE DEF idx, held
<1> QED  BY <1>1, <1>2

LEMMA ScopeInit ==
  ASSUME NamesApart, Init
  PROVE  ScopeInv
<1>1. PICK names \in [Adopted -> Names], Form \in {NormOf, LegacyOf} :
        /\ \A c, d \in Adopted : Form[names[c]] = Form[names[d]] => c = d
        /\ eng = [c \in Codes |-> IF c \in Adopted THEN names[c] ELSE None]
        /\ ws = LET at(n) == {c \in Adopted : Form[names[c]] = n}
                    filed(n) == IF at(n) = {} THEN None ELSE CHOOSE c \in at(n) : TRUE
                IN  [Empty EXCEPT !.rec = eng, !.idx = [n \in Norms |-> filed(n)],
                                  !.doc = [a \in Addrs |-> IF a \in Norms THEN filed(a) ELSE None]]
  BY DEF Init
<1> DEFINE at(n) == {c \in Adopted : Form[names[c]] = n}
           filed(n) == IF at(n) = {} THEN None ELSE CHOOSE c \in at(n) : TRUE
<1>2. \A n : filed(n) = None \/ (filed(n) \in Adopted /\ Form[names[filed(n)]] = n)
  OBVIOUS
<1>3. ws = [idx |-> [n \in Norms |-> filed(n)], rec |-> eng,
            doc |-> [a \in Addrs |-> IF a \in Norms THEN filed(a) ELSE None], sess |-> NoTable]
  BY <1>1 DEF Empty
<1> HIDE DEF filed
<1>4. /\ \A n \in Norms : ws.idx[n] = filed(n)
      /\ ws.rec = eng
      /\ \A a \in Addrs : ws.doc[a] = IF a \in Norms THEN filed(a) ELSE None
      /\ \A c \in Codes : ws.sess[c] = None
  BY <1>3 DEF NoTable
<1>5. gone = {} /\ usage = {} /\ \A u \in Pages : tab[u] = None
  BY DEF Init
<1>6. Live = Adopted /\ \A c \in Adopted : c \in Codes /\ eng[c] = names[c] /\ names[c] \in Names
  BY <1>1, ClientAssumption DEF Live
<1>7. \A c \in Adopted : Form[names[c]] \in Forms(names[c])
  BY DEF Forms
<1>8. NamesDiffer
  BY <1>1, <1>6, LegacyAssumption DEF NamesDiffer
<1>9. CodesKnown
  BY <1>2, <1>4, <1>5, <1>6 DEF CodesKnown, Known
<1>10. TruncatedAdopted
  BY <1>2, <1>4, <1>5, ClientAssumption DEF TruncatedAdopted, Addrs
<1>11. IndexNames
  BY <1>2, <1>4, <1>6, <1>7, ClientAssumption DEF IndexNames, Addrs
<1>12. ASSUME NEW c \in Live, NEW l \in Norms, ws.idx[l] = c, l # NormOf[eng[c]]
       PROVE  Waits(c, l)
  <2> DEFINE w == NormOf[eng[c]]
  <2>1. w \in Norms /\ c \in Adopted
    BY <1>6, FormsAreNorms
  <2>2. ASSUME filed(w) # None PROVE FALSE
    <3> DEFINE d == filed(w)
    <3>1. d \in Adopted /\ Form[names[d]] = w
      BY <1>2, <2>2
    <3>2. w \in Forms(names[d]) /\ w \in Forms(names[c])
      BY <1>6, <1>7, <2>1, <3>1, FormsAreNorms
    <3>3. NormOf[names[d]] = NormOf[names[c]]
      BY <1>6, <2>1, <3>1, <3>2, FormsMeet
    <3>4. d = c
      BY <1>6, <1>8, <2>1, <3>1, <3>3 DEF NamesDiffer
    <3>5. Form[names[c]] = l
      BY <1>2, <1>4, <1>12, <2>1, ClientAssumption DEF Addrs
    <3> QED  BY <1>12, <3>1, <3>4, <3>5
  <2> QED  BY <1>4, <1>5, <2>1, <2>2 DEF Waits
<1>13. DocsFiled
  <2>1. ASSUME NEW a \in Addrs, ws.doc[a] # None
        PROVE  a \in Norms /\ filed(a) # None /\ ws.doc[a] = filed(a)
    BY <2>1, <1>4
  <2>2. Norms \cap Codes = {}
    BY ClientAssumption
  <2> QED  BY <1>2, <1>6, <1>7, <2>1, <2>2 DEF DocsFiled
<1> QED  BY <1>4, <1>5, <1>8, <1>9, <1>10, <1>11, <1>12, <1>13
         DEF ScopeInv, EntriesWait, OwnersMoved, SessionsNamed, BillingFollows, Pages

LEMMA CreateScope ==
  ASSUME NamesApart, TypeOK, ScopeInv, NEW u \in Pages, NEW c \in Codes, NEW name \in Names,
         Create(u, c, name)
  PROVE  ScopeInv'
<1> DEFINE L == Loaded(u, c, name, ws')
<1>1. /\ c \notin Live /\ c \notin Known /\ c \notin Adopted
      /\ \A d \in Live : NormOf[eng[d]] # NormOf[name]
  BY DEF Create, Known
<1>2. eng' = [eng EXCEPT ![c] = name] /\ gone' = gone /\ usage' = usage
  BY DEF Create
<1>3. /\ ws'.rec = [ws.rec EXCEPT ![c] = name] /\ ws'.doc = ws.doc /\ ws'.sess = ws.sess
      /\ ws'.idx = [ws.idx EXCEPT ![NormOf[name]] = c]
  BY DEF Create, TypeOK, Workspace
<1>4. \A n \in Norms : ws'.idx[n] = IF n = NormOf[name] THEN c ELSE ws.idx[n]
  BY <1>3 DEF TypeOK, Workspace
<1>5. \A d \in Codes : eng'[d] = IF d = c THEN name ELSE eng[d]
  BY <1>2 DEF TypeOK
<1>6. Live' = Live \cup {c} /\ Known' = Known \cup {c}
  BY <1>2, <1>5, ClientAssumption DEF Live, Known
<1>7. \A v \in Pages : tab'[v] = IF v = u THEN L ELSE tab[v]
  BY DEF Create, TypeOK
<1>8. L.code = c /\ L.name = name /\ \A n \in Norms : L.idx[n] \in {None, ws'.idx[n]}
  BY PageHolds
<1> HIDE DEF L
<1>9. Live \subseteq Known /\ Live \subseteq Codes /\ None \notin Codes /\ NormOf[name] \in Norms
  BY ClientAssumption, FormsAreNorms DEF Known, Live, Addrs
<1>10. NamesDiffer'
  BY <1>1, <1>5, <1>6, <1>9 DEF ScopeInv, NamesDiffer
<1>11. ws'.rec = eng'
  BY <1>2, <1>3 DEF ScopeInv
<1>12. CodesKnown'
  <2>1. \A n \in Norms : ws'.idx[n] \in Known' \cup {None}
    BY <1>4, <1>6 DEF ScopeInv, CodesKnown
  <2>2. ASSUME NEW v \in Pages, tab'[v] # None
        PROVE  tab'[v].code \in Known' /\ \A n \in Norms : tab'[v].idx[n] \in Known' \cup {None}
    BY <2>1, <2>2, <1>6, <1>7, <1>8 DEF ScopeInv, CodesKnown
  <2> QED  BY <1>2, <1>6, <2>1, <2>2 DEF ScopeInv, CodesKnown
<1>13. TruncatedAdopted'
  <2>1. \A n \in Norms : ws'.idx[n] \in Codes \ Adopted => n \in Plain
    BY <1>4 DEF ScopeInv, TruncatedAdopted, Plain
  <2>2. ASSUME NEW v \in Pages, NEW n \in Norms, tab'[v] # None, tab'[v].idx[n] \in Codes \ Adopted
        PROVE  n \in Plain
    BY <2>1, <2>2, <1>7, <1>8, <1>9 DEF ScopeInv, TruncatedAdopted
  <2> QED  BY <2>1, <2>2 DEF TruncatedAdopted, Plain
<1>14. \A n \in Norms : ws'.idx[n] # c => ws'.idx[n] = ws.idx[n]
  BY <1>4
<1>15. \A n \in Norms : ws'.idx[n] = c => n = NormOf[name]
  BY <1>1, <1>4, <1>9 DEF ScopeInv, CodesKnown
<1>16. IndexNames'
  <2>1. ASSUME NEW n \in Norms, ws'.idx[n] \in Live'
        PROVE  n \in Forms(eng'[ws'.idx[n]])
    <3>1. CASE ws'.idx[n] = c
      BY <3>1, <1>5, <1>15, FormsAreNorms
    <3>2. CASE ws'.idx[n] # c
      BY <2>1, <3>2, <1>5, <1>6, <1>9, <1>14 DEF ScopeInv, IndexNames
    <3> QED  BY <3>1, <3>2
  <2> QED  BY <2>1 DEF IndexNames, Forms
<1>17. EntriesWait'
  <2>1. ASSUME NEW d \in Live', NEW l \in Norms, ws'.idx[l] = d, l # NormOf[eng'[d]]
        PROVE  Waits(d, l)'
    <3>1. d # c /\ d \in Live /\ eng'[d] = eng[d] /\ ws.idx[l] = d
      BY <2>1, <1>5, <1>6, <1>9, <1>14, <1>15
    <3> DEFINE w == NormOf[eng[d]]
    <3>2. Waits(d, l) /\ w \in Norms /\ w # NormOf[name]
      BY <2>1, <3>1, <1>1, LiveAreNamed, FormsAreNorms DEF ScopeInv, EntriesWait
    <3>3. ws'.idx[w] = None /\ ws'.idx[l] = d
      BY <2>1, <3>2, <1>4 DEF Waits
    <3>4. ASSUME NEW v \in Pages, tab'[v] # None
          PROVE  /\ tab'[v].idx[l] \in {None, d} /\ tab'[v].idx[w] \in {None, d}
                 /\ NormOf[tab'[v].name] = w => tab'[v].code = d
      BY <3>2, <3>3, <3>4, <1>7, <1>8 DEF Waits
    <3> QED  BY <3>1, <3>3, <3>4 DEF Waits
  <2> QED  BY <2>1 DEF EntriesWait
<1>18. OwnersMoved'
  <2>1. ASSUME NEW v \in Owners, tab'[v] # None, tab'[v].code \in Live',
               NEW n \in Norms, ws'.idx[n] = tab'[v].code
        PROVE  n = NormOf[eng'[tab'[v].code]]
    <3>1. CASE tab'[v].code = c
      BY <2>1, <3>1, <1>5, <1>15
    <3>2. CASE tab'[v].code # c
      <4>1. tab'[v] = tab[v] /\ tab[v] # None /\ tab[v].code \in Live
        BY <2>1, <3>2, <1>6, <1>7, <1>8 DEF Pages
      <4> QED  BY <2>1, <3>2, <4>1, <1>5, <1>9, <1>14 DEF ScopeInv, OwnersMoved, Filed
    <3> QED  BY <3>1, <3>2
  <2> QED  BY <2>1 DEF OwnersMoved, Filed
<1>19. DocsFiled'
  <2>1. ASSUME NEW a \in Addrs, ws.doc[a] # None
        PROVE  /\ ws.doc[a] \in Live' /\ eng'[ws.doc[a]] = eng[ws.doc[a]]
               /\ a \in Codes => ws.doc[a] = a
               /\ a \in Norms => a \in Forms(eng[ws.doc[a]])
    BY <2>1, <1>1, <1>5, <1>6, <1>9 DEF ScopeInv, DocsFiled
  <2> QED  BY <1>3, <2>1 DEF DocsFiled, Forms
<1>20. SessionsNamed'
  BY <1>1, <1>3, <1>5, <1>6 DEF ScopeInv, SessionsNamed
<1>21. BillingFollows'
  BY <1>1, <1>2, <1>5, <1>6, <1>9 DEF ScopeInv, CodesKnown, BillingFollows
<1> QED  BY <1>10, <1>11, <1>12, <1>13, <1>16, <1>17, <1>18, <1>19, <1>20, <1>21 DEF ScopeInv

(* Steps that leave clients and index alone.                               *)
LEMMA ScopeFrame ==
  ASSUME TypeOK, ScopeInv, eng' = eng, gone' = gone, ws'.idx = ws.idx, ws'.rec = ws.rec,
         \A x \in usage' : x \notin usage =>
           x.of \in Known /\ (x.of \in Live => x.norm = NormOf[eng[x.of]]),
         \A v \in Pages : tab'[v] # None =>
           /\ tab[v] # None /\ tab'[v].code = tab[v].code /\ tab'[v].name = tab[v].name
           /\ \A n \in Norms : tab'[v].idx[n] = tab[v].idx[n],
         DocsFiled', SessionsNamed'
  PROVE  ScopeInv'
<1>1. Live' = Live /\ Known' = Known /\ Live \subseteq Known
  BY DEF Live, Known
<1>2. NamesDiffer' /\ ws'.rec = eng' /\ IndexNames' /\ BillingFollows'
  BY <1>1 DEF ScopeInv, NamesDiffer, IndexNames, BillingFollows, Forms
<1>3. CodesKnown'
  BY <1>1 DEF ScopeInv, CodesKnown
<1>4. TruncatedAdopted'
  BY DEF ScopeInv, TruncatedAdopted, Plain
<1>5. EntriesWait'
  <2>1. ASSUME NEW d \in Live, NEW l \in Norms, ws.idx[l] = d, l # NormOf[eng[d]],
               NormOf[eng[d]] \in Norms
        PROVE  Waits(d, l)'
    <3>1. Waits(d, l)
      BY <2>1 DEF ScopeInv, EntriesWait
    <3> QED  BY <2>1, <3>1 DEF Waits
  <2>2. ASSUME NEW d \in Live, NormOf[eng[d]] \notin Norms  PROVE FALSE
    BY <2>2, FormsAreNorms, LiveAreNamed
  <2> QED  BY <1>1, <2>1, <2>2 DEF EntriesWait
<1>6. OwnersMoved'
  BY <1>1 DEF ScopeInv, OwnersMoved, Filed, Pages
<1> QED  BY <1>2, <1>3, <1>4, <1>5, <1>6 DEF ScopeInv

LEMMA TeamScope ==
  ASSUME TypeOK, ScopeInv, NEW u \in Consultants,
         (\E name \in Names : Assign(u, name) \/ Unassign(u, name)) \/ RemoveMember(u)
  PROVE  ScopeInv'
<1>1. eng' = eng /\ gone' = gone /\ ws' = ws /\ usage' = usage
  BY DEF Assign, Unassign, RemoveMember
<1>2. tab' = tab \/ tab' = [tab EXCEPT ![u] = None]
  BY DEF Assign, Unassign, RemoveMember
<1>3. \A v \in Pages : tab'[v] # None => tab'[v] = tab[v]
  BY <1>2 DEF TypeOK
<1>4. DocsFiled' /\ SessionsNamed'
  BY <1>1 DEF ScopeInv, DocsFiled, SessionsNamed, Live, Forms
<1> QED  BY <1>1, <1>3, <1>4, ScopeFrame

LEMMA BillingScope ==
  ASSUME TypeOK, ScopeInv, Stale \subseteq {"document"}, NEW u \in Pages, Invite(u) \/ Charge(u)
  PROVE  ScopeInv'
<1>1. eng' = eng /\ gone' = gone /\ ws' = ws /\ tab' = tab
  BY DEF Invite, Charge
<1>2. ASSUME NEW x \in usage', x \notin usage
      PROVE  x.of \in Known /\ (x.of \in Live => x.norm = NormOf[eng[x.of]])
  <2>1. /\ tab[u] # None /\ (tab[u].code \in Live => eng[tab[u].code] = tab[u].name)
        /\ x = [of |-> tab[u].code, norm |-> NormOf[tab[u].name]]
    BY <1>2 DEF Invite, Charge
  <2> QED  BY <2>1 DEF ScopeInv, CodesKnown
<1>3. DocsFiled' /\ SessionsNamed'
  BY <1>1 DEF ScopeInv, DocsFiled, SessionsNamed, Live, Forms
<1> QED  BY <1>1, <1>2, <1>3, ScopeFrame

LEMMA SaveDocScope ==
  ASSUME TypeOK, ScopeInv, Stale \subseteq {"document"}, NEW u \in Pages, SaveDoc(u)
  PROVE  ScopeInv'
<1>1. eng' = eng /\ gone' = gone /\ usage' = usage
  BY DEF SaveDoc
<1>2. \A v \in Pages : tab'[v] # None =>
        /\ tab[v] # None /\ tab'[v].code = tab[v].code /\ tab'[v].name = tab[v].name
        /\ tab'[v].idx = tab[v].idx
  BY SaveDocEffect, PageTyped DEF TypeOK, Tabs
<1>3. tab[u].code \in Live
  BY DEF SaveDoc, Working
<1>4. ASSUME NEW a \in Addrs, ws'.doc[a] # None
      PROVE  ws'.doc[a] = ws.doc[a] \/ (a = tab[u].code /\ ws'.doc[a] = a)
  BY <1>4, SaveDocEffect
<1>5. \A a \in Codes : a \notin Norms
  BY ClientAssumption
<1>6. DocsFiled'
  BY <1>1, <1>3, <1>4, <1>5 DEF ScopeInv, DocsFiled, Live, Forms
<1>7. SessionsNamed'
  BY <1>1, SaveDocEffect DEF ScopeInv, SessionsNamed, Live
<1> QED  BY <1>1, <1>2, <1>6, <1>7, SaveDocEffect, ScopeFrame

LEMMA SaveSessionScope ==
  ASSUME TypeOK, ScopeInv, Stale \subseteq {"document"}, NEW u \in Pages, SaveSession(u)
  PROVE  ScopeInv'
<1>1. eng' = eng /\ gone' = gone /\ usage' = usage /\ tab' = tab
  BY DEF SaveSession
<1>2. tab[u].code \in Live /\ eng[tab[u].code] = tab[u].name
  BY SaveSessionEffect
<1>3. DocsFiled'
  BY <1>1, SaveSessionEffect DEF ScopeInv, DocsFiled, Live, Forms
<1>4. SessionsNamed'
  <2>1. \A d \in Codes : ws'.sess[d] = IF d = tab[u].code THEN tab[u].name ELSE ws.sess[d]
    <3>1. ws'.sess = [ws.sess EXCEPT ![tab[u].code] = tab[u].name]
      BY SaveSessionEffect
    <3>2. ws.sess \in [Codes -> NameOrNone]
      BY DEF TypeOK, Workspace
    <3> QED  BY <3>1, <3>2
  <2>2. \A d \in Codes : ws.sess[d] # None => d \in Live /\ NormOf[ws.sess[d]] = NormOf[eng[d]]
    BY DEF ScopeInv, SessionsNamed
  <2>3. Live' = Live
    BY <1>1 DEF Live
  <2> QED  BY <1>1, <1>2, <2>1, <2>2, <2>3 DEF SessionsNamed
<1> QED  BY <1>1, <1>3, <1>4, SaveSessionEffect, ScopeFrame

(* After an owner's read every client's entry is where its name says.      *)
LEMMA WidenedFiles ==
  ASSUME NamesApart, TypeOK, ScopeInv, NEW c \in Live, NEW n \in Norms,
         Widen(ws.idx, KnownNames)[n] = c
  PROVE  n = NormOf[eng[c]]
<1> DEFINE f == ws.idx
           w == NormOf[eng[c]]
<1>1. eng[c] \in Names /\ eng[c] \in KnownNames /\ KnownNames \in SUBSET Names
  BY LiveAreNamed, WidenedTyped DEF KnownNames
<1>2. DOMAIN f = Norms /\ c # None /\ w \in Norms /\ w # None
  BY <1>1, FormsAreNorms, ClientAssumption DEF TypeOK, Workspace, Live, Addrs
<1>3. CASE \E l \in Norms : f[l] = c /\ WideOf(l, KnownNames) = n
  <2>1. PICK l \in Norms : f[l] = c /\ WideOf(l, KnownNames) = n
    BY <1>3
  <2>2. n # None
    BY ClientAssumption DEF Addrs
  <2>3. PICK k \in KnownNames : LegacyOf[k] = l /\ NormOf[k] = n
    BY <1>1, <2>1, <2>2, WideStands
  <2>4. l \in Forms(k) /\ l \in Forms(eng[c])
    BY <2>1, <2>3 DEF Forms, ScopeInv, IndexNames
  <2> QED  BY <1>1, <2>3, <2>4, FormsMeet
<1>4. CASE f[n] = c /\ n # w
  <2>1. n = LegacyOf[eng[c]] /\ f[w] = None
    BY <1>4 DEF ScopeInv, IndexNames, Forms, EntriesWait, Waits
  <2>2. WideOf(n, KnownNames) = w
    BY <1>1, <1>4, <2>1, WideIsNorm
  <2>3. Widen(f, KnownNames)[n] = None
    BY <1>1, <1>2, <1>4, <2>1, <2>2, WidenedAway
  <2> QED  BY <1>2, <2>3
<1> QED  BY <1>1, <1>2, <1>3, <1>4, WidenedFrom

LEMMA OpenScope ==
  ASSUME NamesApart, TypeOK, ScopeInv, NEW u \in Pages, NEW c \in Codes, Open(u, c)
  PROVE  ScopeInv'
<1> DEFINE name == IF Table[c] # None THEN Table[c] ELSE ws.rec[c]
           L == Loaded(u, c, name, ws')
<1>1. eng' = eng /\ gone' = gone /\ usage' = usage /\ c \in Live
  BY DEF Open
<1>2. name = eng[c] /\ eng[c] \in Names
  BY <1>1, LiveAreNamed DEF ScopeInv, Table
<1>3. tab' = [tab EXCEPT ![u] = L]
  BY DEF Open
<1> HIDE DEF name
<1>4. L.code = c /\ L.name = eng[c] /\ \A n \in Norms : L.idx[n] \in {None, ws'.idx[n]}
  BY <1>2, PageHolds
<1> HIDE DEF L
<1>5. \A v \in Pages : tab'[v] = IF v = u THEN L ELSE tab[v]
  BY <1>3 DEF TypeOK
<1>6. Live' = Live /\ Known' = Known /\ Live \subseteq Known /\ Live \subseteq Codes
  BY <1>1 DEF Live, Known
<1>7. KnownNames \in SUBSET Names /\ None \notin Norms /\ Norms \cap Codes = {} /\ None \notin Codes
  BY WidenedTyped, ClientAssumption DEF Addrs
<1>8. DOMAIN ws.idx = Norms /\ DOMAIN ws.doc = Addrs
  BY DEF TypeOK, Workspace
<1>9. CASE u \in Owners
  <2>1. /\ ws'.idx = Widen(ws.idx, KnownNames) /\ ws'.doc = Widen(ws.doc, KnownNames)
        /\ ws'.rec = ws.rec /\ ws'.sess = ws.sess
    <3>1. ws' = Widened(ws)
      BY <1>9 DEF Open
    <3> QED  BY <3>1, WidenedTyped
  <2>2. ASSUME NEW n \in Norms, ws'.idx[n] # None
        PROVE  \/ ws'.idx[n] = ws.idx[n]
               \/ n \in Plain /\ \E l \in Norms : ws'.idx[n] = ws.idx[l]
    <3>1. CASE ws.idx[n] = ws'.idx[n]
      BY <3>1
    <3>2. CASE \E l \in Norms : ws.idx[l] = ws'.idx[n] /\ WideOf(l, KnownNames) = n
      <4>1. PICK l \in Norms : ws.idx[l] = ws'.idx[n] /\ WideOf(l, KnownNames) = n
        BY <3>2
      <4>2. \E k \in KnownNames : NormOf[k] = n
        BY <1>7, <4>1, WideStands
      <4> QED  BY <1>7, <4>1, <4>2 DEF Plain
    <3> QED  BY <1>7, <1>8, <2>1, <2>2, <3>1, <3>2, WidenedFrom
  <2>3. \A n \in Norms : ws'.idx[n] \in Known \cup {None}
    BY <2>2 DEF ScopeInv, CodesKnown
  <2>4. \A n \in Norms : ws'.idx[n] \in Codes \ Adopted => n \in Plain
    BY <1>7, <2>2 DEF ScopeInv, TruncatedAdopted
  <2>5. \A n \in Norms : ws'.idx[n] \in Live => n = NormOf[eng[ws'.idx[n]]]
    BY <2>1, WidenedFiles
  <2>6. NamesDiffer' /\ ws'.rec = eng' /\ BillingFollows'
    BY <1>1, <1>6, <2>1 DEF ScopeInv, NamesDiffer, BillingFollows
  <2>7. CodesKnown'
    BY <1>1, <1>4, <1>5, <1>6, <2>3 DEF ScopeInv, CodesKnown
  <2>8. TruncatedAdopted'
    <3>1. ASSUME NEW v \in Pages, NEW n \in Norms,
                 tab'[v] # None, tab'[v].idx[n] \in Codes \ Adopted
          PROVE  n \in Plain
      BY <1>4, <1>5, <1>7, <2>4, <3>1 DEF ScopeInv, TruncatedAdopted
    <3> QED  BY <2>4, <3>1 DEF TruncatedAdopted, Plain
  <2>9. IndexNames'
    BY <1>1, <1>6, <2>5 DEF IndexNames, Forms
  <2>10. EntriesWait' /\ OwnersMoved'
    BY <1>1, <1>6, <2>5 DEF EntriesWait, OwnersMoved, Filed
  <2>11. DocsFiled'
    <3>1. ASSUME NEW a \in Addrs, ws'.doc[a] # None
          PROVE  /\ ws'.doc[a] \in Live /\ (a \in Codes => ws'.doc[a] = a)
                 /\ (a \in Norms => a \in Forms(eng[ws'.doc[a]]))
      <4>1. CASE ws.doc[a] = ws'.doc[a]
        BY <3>1, <4>1 DEF ScopeInv, DocsFiled
      <4>2. CASE \E l \in Norms : ws.doc[l] = ws'.doc[a] /\ WideOf(l, KnownNames) = a
        <5>1. PICK l \in Norms : ws.doc[l] = ws'.doc[a] /\ WideOf(l, KnownNames) = a
          BY <4>2
        <5>2. a # None /\ l \in Addrs
          BY <3>1, ClientAssumption DEF Addrs
        <5>3. PICK k \in KnownNames : LegacyOf[k] = l /\ NormOf[k] = a
          BY <1>7, <5>1, <5>2, WideStands
        <5>4. ws.doc[l] \in Live /\ l \in Forms(eng[ws.doc[l]]) /\ l \in Forms(k)
          BY <3>1, <5>1, <5>2, <5>3 DEF ScopeInv, DocsFiled, Forms
        <5>5. NormOf[k] = NormOf[eng[ws.doc[l]]] /\ a \in Norms
          BY <1>7, <5>3, <5>4, LiveAreNamed, FormsMeet, FormsAreNorms
        <5> QED  BY <1>7, <5>1, <5>3, <5>4, <5>5, LiveAreNamed, FormsAreNorms
      <4> QED  BY <1>7, <1>8, <2>1, <3>1, <4>1, <4>2, WidenedFrom
    <3> QED  BY <1>1, <1>6, <3>1 DEF DocsFiled, Forms
  <2>12. SessionsNamed'
    BY <1>1, <1>6, <2>1 DEF ScopeInv, SessionsNamed
  <2> QED  BY <2>6, <2>7, <2>8, <2>9, <2>10, <2>11, <2>12 DEF ScopeInv
<1>10. CASE u \notin Owners
  <2>1. ws' = ws
    BY <1>10 DEF Open
  <2>2. /\ NamesDiffer' /\ ws'.rec = eng' /\ BillingFollows'
        /\ IndexNames' /\ DocsFiled' /\ SessionsNamed'
    BY <1>1, <1>6, <2>1
       DEF ScopeInv, NamesDiffer, BillingFollows, IndexNames, DocsFiled, SessionsNamed, Forms
  <2>3. CodesKnown'
    BY <1>1, <1>4, <1>5, <1>6, <2>1 DEF ScopeInv, CodesKnown
  <2>4. TruncatedAdopted'
    BY <1>4, <1>5, <1>7, <2>1 DEF ScopeInv, TruncatedAdopted, Plain
  <2>5. EntriesWait'
    <3>1. ASSUME NEW d \in Live, NEW l \in Norms, ws.idx[l] = d, l # NormOf[eng[d]]
          PROVE  Waits(d, l)'
      <4> DEFINE w == NormOf[eng[d]]
      <4>1. Waits(d, l) /\ w \in Norms
        BY <3>1, LiveAreNamed, FormsAreNorms DEF ScopeInv, EntriesWait
      <4>2. ws.idx[w] = None
        BY <4>1 DEF Waits
      <4>3. L.idx[l] \in {None, d} /\ L.idx[w] \in {None, d} /\ (NormOf[L.name] = w => L.code = d)
        BY <1>1, <1>4, <2>1, <3>1, <4>1, <4>2 DEF ScopeInv, NamesDiffer
      <4>4. ASSUME NEW v \in Pages, tab'[v] # None
            PROVE  /\ tab'[v].idx[l] \in {None, d} /\ tab'[v].idx[w] \in {None, d}
                   /\ NormOf[tab'[v].name] = w => tab'[v].code = d
        BY <1>5, <4>1, <4>3, <4>4 DEF Waits
      <4> QED  BY <1>1, <2>1, <4>2, <4>4 DEF Waits
    <3> QED  BY <1>1, <1>6, <2>1, <3>1 DEF EntriesWait
  <2>6. OwnersMoved'
    BY <1>1, <1>5, <1>6, <1>10, <2>1 DEF ScopeInv, OwnersMoved, Filed, Pages
  <2> QED  BY <2>2, <2>3, <2>4, <2>5, <2>6 DEF ScopeInv
<1> QED  BY <1>9, <1>10

(* What a page sends: every client's entry where its name says, and of the *)
(* others nothing that was not there.                                      *)
LEMMA MineIs ==
  ASSUME TypeOK, NEW u \in Pages, tab[u] # None
  PROVE  \A n \in Norms :
           Mine(u)[n] = IF n = NormOf[tab[u].name] THEN tab[u].code ELSE tab[u].idx[n]
BY PageTyped DEF Mine

LEMMA SentFrom ==
  ASSUME TypeOK, NEW u \in Pages, tab[u] # None, NEW n \in Norms, Sent(u)[n] # None
  PROVE  \E k \in Norms : /\ Mine(u)[k] = Sent(u)[n]
                          /\ n = IF Table[Sent(u)[n]] # None THEN NormOf[Table[Sent(u)[n]]] ELSE k
<1> DEFINE i == Mine(u)
           place(k) == IF Table[i[k]] # None THEN NormOf[Table[i[k]]] ELSE k
           from == {k \in Norms : i[k] # None /\ place(k) = n}
<1>1. Sent(u)[n] = IF from = {} THEN None ELSE i[CHOOSE k \in from : TRUE]
  BY DEF Sent, EnforcedIndex
<1>2. from # {} /\ Sent(u)[n] = i[CHOOSE k \in from : TRUE]
  BY <1>1
<1>3. PICK k \in from : Sent(u)[n] = i[k]
  BY <1>2
<1> QED  BY <1>3

LEMMA SentScope ==
  ASSUME NamesApart, TypeOK, ScopeInv, Stale \subseteq {"document"}, NEW u \in Pages, SaveRecord(u)
  PROVE  /\ tab[u] # None /\ tab[u].code \in Live /\ RecordName(u) = eng[tab[u].code]
         /\ \A n \in Norms : Mine(u)[n] \in Known \cup {None} /\ Sent(u)[n] \in Known \cup {None}
         /\ \A n \in Norms : Mine(u)[n] \in Codes \ Adopted => n \in Plain
         /\ \A n \in Norms : Sent(u)[n] \in Codes \ Adopted => n \in Plain
         /\ \A n \in Norms : Sent(u)[n] \in Live => n = NormOf[eng[Sent(u)[n]]]
<1>1. tab[u] # None /\ tab[u].code \in Live /\ Current(u)
  BY DEF SaveRecord, Working
<1> DEFINE t == tab[u]
<1>2. /\ t.code \in Codes /\ t.name \in Names /\ NormOf[t.name] \in Norms
      /\ eng[t.code] \in Names /\ eng[t.code] # None
  BY <1>1, PageTyped, LiveAreNamed
<1>3. RecordName(u) = eng[t.code]
  BY <1>1, <1>2 DEF RecordName, ServerName, Table, Current
<1>4. \A n \in Norms : Mine(u)[n] = IF n = NormOf[t.name] THEN t.code ELSE t.idx[n]
  BY <1>1, MineIs
<1>5. \A n \in Norms : Mine(u)[n] \in Known \cup {None}
  BY <1>1, <1>4 DEF ScopeInv, CodesKnown, Known
<1>6. \A n \in Norms : Mine(u)[n] \in Codes \ Adopted => n \in Plain
  BY <1>1, <1>2, <1>4 DEF ScopeInv, TruncatedAdopted, Plain
<1>7. ASSUME NEW n \in Norms, Sent(u)[n] # None
      PROVE  /\ Sent(u)[n] \in Known
             /\ Sent(u)[n] \in Codes \ Adopted => n \in Plain
             /\ Sent(u)[n] \in Live => n = NormOf[eng[Sent(u)[n]]]
  <2> DEFINE d == Sent(u)[n]
  <2>1. PICK k \in Norms : Mine(u)[k] = d /\ n = IF Table[d] # None THEN NormOf[Table[d]] ELSE k
    BY <1>1, <1>7, SentFrom
  <2>2. d \in Known
    BY <1>5, <1>7, <2>1
  <2>3. ASSUME d \in Codes \ Adopted
        PROVE  n = k /\ n \in Plain
    BY <1>6, <2>1, <2>3 DEF Table
  <2>4. ASSUME d \in Live, d \in Adopted
        PROVE  n = NormOf[eng[d]]
    BY <2>1, <2>4, LiveAreNamed DEF Table
  <2>5. ASSUME d \in Live, d \notin Adopted
        PROVE  n = NormOf[eng[d]]
    <3>1. n = k /\ n \in Plain /\ eng[d] \in Names
      BY <2>3, <2>5, LiveAreNamed
    <3>2. CASE k = NormOf[t.name] /\ d = t.code
      BY <1>1, <2>5, <3>1, <3>2 DEF Current
    <3>3. CASE t.idx[k] = d
      <4>1. k \in Forms(eng[d])
        BY <1>1, <2>5, <3>3 DEF Current
      <4>2. PICK m \in Names : k = NormOf[m]
        BY <3>1 DEF Plain
      <4>3. NormOf[m] = NormOf[eng[d]]
        BY <3>1, <4>1, <4>2, FormsMeet, FormsAreNorms
      <4> QED  BY <3>1, <4>2, <4>3
    <3> QED  BY <1>4, <2>1, <3>2, <3>3
  <2> QED  BY <2>2, <2>3, <2>4, <2>5
<1> QED  BY <1>1, <1>3, <1>5, <1>6, <1>7, ClientAssumption DEF Addrs, Live

(* A consultant's save of the index, entry by entry.                       *)
LEMMA ScopedFrom ==
  ASSUME NamesApart, TypeOK, ScopeInv, Stale \subseteq {"document"}, NEW u \in Consultants,
         SaveRecord(u),
         NEW n \in Norms
  PROVE  /\ n \notin Scope(u) => ws'.idx[n] = ws.idx[n]
         /\ n \in Scope(u) => ws'.idx[n] \in {None, Sent(u)[n], ws.idx[n]}
         /\ n \in Scope(u) /\ ws'.idx[n] # Sent(u)[n] => Sent(u)[n] \notin Live \cup {None}
<1> DEFINE s == Sent(u)[n]
           A == Scope(u)
           owner == IF s = tab[u].code THEN CodeOwner(tab[u].code, RecordName(u))
                                       ELSE CodeToNorm(ws, Table)[s]
<1>1. u \in Pages /\ u \notin Owners
  BY ClientAssumption DEF Pages
<1>2. ws'.idx[n] = IF n \notin A THEN ws.idx[n]
                   ELSE IF s = None THEN None
                   ELSE IF owner \in A THEN s ELSE ws.idx[n]
  <2>1. ws'.idx = ScopedIndex(Sent(u), A, tab[u].code, RecordName(u))
    BY <1>1, SaveRecordEffect DEF SavedIndex
  <2> QED  BY <2>1 DEF ScopedIndex
<1>3. ASSUME s \in Live  PROVE  owner = n
  <2>1. CodeToNorm(ws, Table)[s] = NormOf[eng[s]] /\ NormOf[eng[s]] = n /\ n # None
    BY <1>1, <1>3, SentScope, CodesResolve, ClientAssumption DEF ScopeInv, Addrs
  <2> QED  BY <2>1 DEF CodeOwner
<1> HIDE DEF owner
<1> QED  BY <1>2, <1>3

LEMMA SaveRecordScope ==
  ASSUME NamesApart, TypeOK, ScopeInv, Stale \subseteq {"document"}, NEW u \in Pages, SaveRecord(u)
  PROVE  ScopeInv'
<1> DEFINE t == tab[u]
<1>1. eng' = eng /\ gone' = gone /\ usage' = usage
  BY DEF SaveRecord
<1>2. Live' = Live /\ Known' = Known /\ Live \subseteq Known /\ Live \subseteq Codes
  BY <1>1 DEF Live, Known
<1>3. t \in Tabs /\ t # None /\ t.code \in Live /\ RecordName(u) = eng[t.code]
  BY SentScope, PageTyped
<1>4. /\ \A n \in Norms : Mine(u)[n] \in Known \cup {None} /\ Sent(u)[n] \in Known \cup {None}
      /\ \A n \in Norms : Mine(u)[n] \in Codes \ Adopted => n \in Plain
      /\ \A n \in Norms : Sent(u)[n] \in Codes \ Adopted => n \in Plain
      /\ \A n \in Norms : Sent(u)[n] \in Live => n = NormOf[eng[Sent(u)[n]]]
  BY SentScope
<1>5. \A n \in Norms : Mine(u)[n] = IF n = NormOf[t.name] THEN t.code ELSE t.idx[n]
  BY <1>3, MineIs
<1>6. \A v \in Pages : /\ v # u => tab'[v] = tab[v]
                       /\ v = u => /\ tab'[v].code = t.code /\ tab'[v].name = t.name
                                   /\ tab'[v].idx = Mine(u)
  BY <1>3, SaveRecordEffect DEF TypeOK, Tabs
<1>7. ws'.rec = ws.rec
  <2>1. \A c \in Codes : ws'.rec[c] = ws.rec[c]
    BY <1>3, SaveRecordEffect DEF ScopeInv
  <2>2. ws'.rec \in [Codes -> NameOrNone] /\ ws.rec \in [Codes -> NameOrNone]
    BY SaveRecordEffect DEF TypeOK, Workspace
  <2> QED  BY <2>1, <2>2
<1>8. ws'.doc = ws.doc /\ ws'.sess = ws.sess
  BY SaveRecordEffect
<1>9. \A n \in Norms : ws'.idx[n] \in {None, Sent(u)[n], ws.idx[n]}
  <2>1. CASE u \in Owners
    BY <2>1, SaveRecordEffect DEF SavedIndex
  <2>2. CASE u \in Consultants
    BY <2>2, ScopedFrom
  <2> QED  BY <2>1, <2>2 DEF Pages
<1>10. u \in Owners => \A n \in Norms : ws'.idx[n] = Sent(u)[n]
  BY SaveRecordEffect DEF SavedIndex
<1>11. None \notin Codes
  BY ClientAssumption DEF Addrs
<1>12. NamesDiffer' /\ ws'.rec = eng' /\ BillingFollows'
  BY <1>1, <1>2, <1>7 DEF ScopeInv, NamesDiffer, BillingFollows
<1>13. CodesKnown'
  <2>1. \A n \in Norms : ws'.idx[n] \in Known \cup {None}
    BY <1>4, <1>9 DEF ScopeInv, CodesKnown
  <2> QED  BY <1>1, <1>2, <1>3, <1>4, <1>6, <2>1 DEF ScopeInv, CodesKnown
<1>14. TruncatedAdopted'
  <2>1. \A n \in Norms : ws'.idx[n] \in Codes \ Adopted => n \in Plain
    BY <1>4, <1>9, <1>11 DEF ScopeInv, TruncatedAdopted
  <2>2. ASSUME NEW v \in Pages, NEW n \in Norms, tab'[v] # None, tab'[v].idx[n] \in Codes \ Adopted
        PROVE  n \in Plain
    BY <1>4, <1>6, <2>2 DEF ScopeInv, TruncatedAdopted
  <2> QED  BY <2>1, <2>2 DEF TruncatedAdopted, Plain
<1>15. \A c \in Live : /\ NormOf[eng[c]] \in Norms /\ NormOf[eng[c]] \in Forms(eng[c])
                       /\ eng[c] \in Names
  BY LiveAreNamed, FormsAreNorms
<1>16. IndexNames'
  <2>1. ASSUME NEW n \in Norms, ws'.idx[n] \in Live
        PROVE  n \in Forms(eng[ws'.idx[n]])
    BY <1>4, <1>9, <1>11, <1>15, <2>1 DEF ScopeInv, IndexNames, Live
  <2> QED  BY <1>1, <1>2, <2>1 DEF IndexNames, Forms
<1>17. EntriesWait'
  <2>1. ASSUME NEW d \in Live, NEW l \in Norms, ws'.idx[l] = d, l # NormOf[eng[d]]
        PROVE  Waits(d, l)'
    <3> DEFINE w == NormOf[eng[d]]
    <3>1. ws.idx[l] = d /\ ws'.idx[l] # Sent(u)[l] /\ u \in Consultants
      BY <1>2, <1>4, <1>9, <1>10, <1>11, <2>1 DEF Pages
    <3>2. Waits(d, l) /\ l \in Forms(eng[d]) /\ w \in Norms /\ w \in Forms(eng[d])
      BY <1>15, <2>1, <3>1 DEF ScopeInv, EntriesWait, IndexNames
    <3>3. l # NormOf[t.name]
      BY <1>3, <1>15, <2>1, <3>2, PageTyped, FormsMeet, FormsAreNorms
    <3>4. t.idx[l] \in {None, d} /\ t.idx[w] \in {None, d} /\ (NormOf[t.name] = w => t.code = d)
      BY <1>3, <3>2 DEF Waits
    <3>5. Mine(u)[l] \in {None, d} /\ Mine(u)[w] \in {None, d}
      BY <1>5, <3>2, <3>3, <3>4
    <3>6. l \notin Scope(u)
      <4>1. SUFFICES ASSUME l \in Scope(u) PROVE FALSE
        OBVIOUS
      <4>2. Sent(u)[l] \notin Live \cup {None}
        BY <3>1, <4>1, ScopedFrom
      <4>3. PICK k \in Norms :
              /\ Mine(u)[k] = Sent(u)[l]
              /\ l = IF Table[Sent(u)[l]] # None THEN NormOf[Table[Sent(u)[l]]] ELSE k
        BY <1>3, <4>2, SentFrom
      <4>4. Sent(u)[l] \in Codes
        BY <1>3, <4>2, SentTyped DEF CodeOrNone
      <4>5. Table[Sent(u)[l]] = None
        BY <4>2, <4>4 DEF Table, Live
      <4> QED  BY <3>5, <4>2, <4>3, <4>5
    <3>7. w \notin Scope(u)
      BY <1>15, <3>1, <3>2, <3>6, ScopeIsWhole
    <3>8. ws'.idx[w] = None
      BY <3>1, <3>2, <3>7, ScopedFrom DEF Waits
    <3>9. ASSUME NEW v \in Pages, tab'[v] # None
          PROVE  /\ tab'[v].idx[l] \in {None, d} /\ tab'[v].idx[w] \in {None, d}
                 /\ NormOf[tab'[v].name] = w => tab'[v].code = d
      BY <1>6, <3>2, <3>4, <3>5, <3>9 DEF Waits
    <3> QED  BY <1>1, <3>8, <3>9 DEF Waits
  <2> QED  BY <1>1, <1>2, <2>1 DEF EntriesWait
<1>18. OwnersMoved'
  <2>1. ASSUME NEW v \in Owners, tab'[v] # None, tab'[v].code \in Live,
               NEW n \in Norms, ws'.idx[n] = tab'[v].code
        PROVE  n = NormOf[eng[tab'[v].code]]
    <3>1. CASE ws'.idx[n] = Sent(u)[n]
      BY <1>4, <2>1, <3>1
    <3>2. CASE ws'.idx[n] = ws.idx[n] /\ u \notin Owners
      <4>1. tab'[v] = tab[v]
        BY <1>6, <3>2 DEF Pages
      <4> QED  BY <2>1, <3>2, <4>1 DEF ScopeInv, OwnersMoved, Filed
    <3> QED  BY <1>2, <1>9, <1>10, <1>11, <2>1, <3>1, <3>2
  <2> QED  BY <1>1, <1>2, <2>1 DEF OwnersMoved, Filed
<1>19. DocsFiled' /\ SessionsNamed'
  BY <1>1, <1>2, <1>8 DEF ScopeInv, DocsFiled, SessionsNamed, Forms
<1> QED  BY <1>12, <1>13, <1>14, <1>16, <1>17, <1>18, <1>19 DEF ScopeInv

(* A rename is about one client: the rows and norms it moves are that      *)
(* client's, and nobody else bears the name it moves them to.              *)
LEMMA RenameIsOne ==
  ASSUME NamesApart, TypeOK, ScopeInv, Stale \subseteq {"document"}, NEW u \in Owners,
         NEW new \in Names,
         Rename(u, new)
  PROVE  /\ tab[u].code \in Live /\ eng[tab[u].code] = tab[u].name
         /\ Rows(RenameBase(u)) = {tab[u].code}
         /\ RenameNorms(u) = Forms(eng[tab[u].code])
         /\ \A d \in Live \ {tab[u].code} : NormOf[eng[d]] # NormOf[new]
         /\ NormOf[new] \in Forms(eng[tab[u].code]) \/ ~TakenByAssignment(new)
<1> DEFINE c == tab[u].code
<1>1. tab[u] # None /\ eng[c] = tab[u].name
  BY RenameEffect
<1>2. c \in Codes /\ tab[u].name \in Names
  BY <1>1, PageTyped DEF Pages
<1>3. c \in Live /\ eng[c] \in Names
  BY <1>1, <1>2, ClientAssumption DEF Live
<1>4. RenameBase(u) = Forms(eng[c])
  <2>1. {n \in Norms : ws.idx[n] = c} \subseteq Forms(eng[c])
    BY <1>3 DEF ScopeInv, IndexNames
  <2>2. ws.rec[c] = eng[c]
    BY DEF ScopeInv
  <2> QED  BY <1>1, <2>1, <2>2 DEF RenameBase, OwnedNorms
<1>5. Rows(RenameBase(u)) = {c}
  <2>1. ASSUME NEW d \in Live, Forms(eng[d]) \cap Forms(eng[c]) # {}
        PROVE  d = c
    BY <1>3, <2>1, LiveMeet DEF ScopeInv
  <2>2. Forms(eng[c]) \cap Forms(eng[c]) # {}
    BY DEF Forms
  <2> QED  BY <1>3, <1>4, <2>1, <2>2 DEF Rows
<1>6. RenameNorms(u) = Forms(eng[c])
  BY <1>4, <1>5 DEF RenameNorms, Forms
<1>7. NormOf[new] \in Forms(eng[c]) \/ (~TakenByRow(new, {c}) /\ ~TakenByAssignment(new))
  <2>1. NormOf[new] \in RenameNorms(u) \/ ~Taken(new, Rows(RenameBase(u)))
    BY RenameEffect
  <2>2. NormOf[new] \in Forms(eng[c]) \/ ~Taken(new, {c})
    BY <1>5, <1>6, <2>1
  <2> QED  BY <2>2 DEF Taken
<1>8. ASSUME NEW d \in Live \ {c}, NormOf[eng[d]] = NormOf[new]
      PROVE  FALSE
  <2>1. NormOf[new] \in Forms(eng[c])
    BY <1>7, <1>8 DEF TakenByRow
  <2>2. NormOf[new] \in Forms(eng[d])
    BY <1>8, LiveAreNamed, FormsAreNorms
  <2> QED  BY <1>3, <1>8, <2>1, <2>2, LiveMeet DEF ScopeInv
<1> QED  BY <1>1, <1>3, <1>5, <1>6, <1>7, <1>8

LEMMA RenamedDocs ==
  ASSUME NamesApart, TypeOK, ScopeInv, NEW c \in Live, NEW to \in Norms, NEW pref,
         NEW f, f = Carried(ws.doc, Forms(eng[c]), to, pref)
  PROVE  \/ /\ f = ws.doc
            /\ \A n \in Forms(eng[c]) : ws.doc[n] = None
         \/ \A a \in Addrs : f[a] = IF a = to THEN c ELSE IF a \in Forms(eng[c]) THEN None
                                                     ELSE ws.doc[a]
<1> DEFINE from == {n \in Forms(eng[c]) : ws.doc[n] # None}
           winner == IF pref \in from THEN pref ELSE IF to \in from THEN to
                     ELSE CHOOSE n \in from : TRUE
<1>1. CASE from = {}
  BY <1>1 DEF Carried
<1>2. CASE from # {}
  <2>1. winner \in from
    BY <1>2
  <2>2. f = [a \in DOMAIN ws.doc |->
               IF a = to THEN ws.doc[winner] ELSE IF a \in Forms(eng[c]) THEN None ELSE ws.doc[a]]
    BY <1>2 DEF Carried
  <2> HIDE DEF winner
  <2>3. winner \in Norms /\ winner \in Forms(eng[c]) /\ ws.doc[winner] # None
    BY <2>1, LiveAreNamed, FormsAreNorms
  <2>4. ws.doc[winner] \in Live /\ winner \in Forms(eng[ws.doc[winner]])
    BY <2>3 DEF ScopeInv, DocsFiled, Addrs
  <2>5. ws.doc[winner] = c
    BY <2>3, <2>4, LiveMeet DEF ScopeInv
  <2> QED  BY <2>2, <2>5 DEF TypeOK, Workspace
<1> QED  BY <1>1, <1>2

LEMMA RenamedFields ==
  ASSUME NamesApart, TypeOK, ScopeInv, Stale \subseteq {"document"}, NEW u \in Owners,
         NEW new \in Names,
         Rename(u, new), NEW c, c = tab[u].code
  PROVE  /\ \A d \in Codes : eng'[d] = IF d = c THEN new ELSE eng[d]
         /\ ws'.rec = eng'
         /\ \A n \in Norms : \/ n = NormOf[new] /\ ws'.idx[n] = c
                             \/ ws'.idx[n] = None
                             \/ ws'.idx[n] = ws.idx[n] /\ ws.idx[n] # c
         /\ \A d \in Codes : ws'.sess[d] = IF d = c /\ ws.sess[d] # None THEN new ELSE ws.sess[d]
         /\ \/ /\ ws'.doc = ws.doc
               /\ \A n \in Forms(eng[c]) : ws.doc[n] = None
            \/ \A a \in Addrs : ws'.doc[a] = IF a = NormOf[new] THEN c
                                             ELSE IF a \in Forms(eng[c]) THEN None ELSE ws.doc[a]
<1> DEFINE F == Forms(eng[c])
<1>1. c \in Live /\ Rows(RenameBase(u)) = {c} /\ RenameNorms(u) = F /\ NormOf[new] \in Norms
  BY RenameIsOne, FormsAreNorms
<1>2. PICK pref : ws' = RenamedWorkspace(F, c, new, pref)
  BY <1>1, RenameEffect
<1> DEFINE rec == [d \in Codes |->
                     IF ws.rec[d] # None /\ (d = c \/ CodeToNorm(ws, NoTable)[d] \in F)
                       THEN new ELSE ws.rec[d]]
           sess == [d \in Codes |-> IF ws.sess[d] # None /\ NormOf[ws.sess[d]] \in F
                                      THEN new ELSE ws.sess[d]]
<1>3. ws' = [idx |-> Reindexed(F, c, NormOf[new]), rec |-> rec,
             doc |-> Carried(ws.doc, F, NormOf[new], pref), sess |-> sess]
  BY <1>2 DEF RenamedWorkspace
<1>4. \A d \in Codes : rec[d] = IF ws.rec[d] # None /\ (d = c \/ CodeToNorm(ws, NoTable)[d] \in F)
                                     THEN new ELSE ws.rec[d]
  OBVIOUS
<1>5. \A d \in Codes : sess[d] = IF ws.sess[d] # None /\ NormOf[ws.sess[d]] \in F
                                   THEN new ELSE ws.sess[d]
  OBVIOUS
<1>6. rec \in [Codes -> NameOrNone]
  BY DEF TypeOK, Workspace, NameOrNone
<1> HIDE DEF rec, sess
<1>7. ws'.rec = rec /\ ws'.sess = sess
      /\ ws'.idx = Reindexed(F, c, NormOf[new]) /\ ws'.doc = Carried(ws.doc, F, NormOf[new], pref)
  BY <1>3
<1>8. \A d \in Codes : eng'[d] = IF d = c THEN new ELSE eng[d]
  BY <1>1, RenameEffect
<1>9. \A d \in Live : NormOf[eng[d]] \in F => d = c
  BY <1>1, LiveMeet, LiveAreNamed, FormsAreNorms DEF ScopeInv
<1>10. ws'.rec = eng'
  <2>1. ASSUME NEW d \in Codes  PROVE rec[d] = eng'[d]
    <3>1. CASE d \in Live
      <4>1. ws.rec[d] = eng[d] /\ eng[d] # None /\ CodeToNorm(ws, NoTable)[d] = NormOf[eng[d]]
        BY <3>1, CodesResolve, LiveAreNamed DEF ScopeInv
      <4> QED  BY <1>4, <1>8, <1>9, <3>1, <4>1
    <3>2. CASE d \notin Live
      BY <1>1, <1>4, <1>8, <3>2 DEF ScopeInv, Live
    <3> QED  BY <3>1, <3>2
  <2>2. eng' \in [Codes -> NameOrNone]
    BY RenameTyped DEF TypeOK
  <2> QED  BY <1>6, <1>7, <2>1, <2>2
<1>11. \A n \in Norms : \/ n = NormOf[new] /\ ws'.idx[n] = c
                        \/ ws'.idx[n] = None
                        \/ ws'.idx[n] = ws.idx[n] /\ ws.idx[n] # c
  <2>1. c # None
    BY <1>1, ClientAssumption DEF Live, Addrs
  <2> QED  BY <1>7, <2>1 DEF Reindexed
<1>12. ASSUME NEW d \in Codes
       PROVE  ws'.sess[d] = IF d = c /\ ws.sess[d] # None THEN new ELSE ws.sess[d]
  <2>1. CASE ws.sess[d] = None
    BY <1>5, <1>7, <2>1
  <2>2. CASE ws.sess[d] # None
    <3>1. d \in Live /\ NormOf[ws.sess[d]] = NormOf[eng[d]]
      BY <2>2 DEF ScopeInv, SessionsNamed
    <3>2. NormOf[eng[c]] \in F
      BY DEF Forms
    <3> QED  BY <1>5, <1>7, <1>9, <2>2, <3>1, <3>2
  <2> QED  BY <2>1, <2>2
<1>13. \/ /\ ws'.doc = ws.doc
          /\ \A n \in F : ws.doc[n] = None
       \/ \A a \in Addrs : ws'.doc[a] = IF a = NormOf[new] THEN c
                                        ELSE IF a \in F THEN None ELSE ws.doc[a]
  <2>1. PICK g : g = ws'.doc
    OBVIOUS
  <2>2. g = Carried(ws.doc, F, NormOf[new], pref)
    BY <1>7, <2>1
  <2>3. \/ g = ws.doc /\ \A n \in F : ws.doc[n] = None
        \/ \A a \in Addrs : g[a] = IF a = NormOf[new] THEN c
                                   ELSE IF a \in F THEN None ELSE ws.doc[a]
    BY <1>1, <2>2, RenamedDocs
  <2> QED  BY <2>1, <2>3
<1> QED  BY <1>8, <1>10, <1>11, <1>12, <1>13

LEMMA RenameScope ==
  ASSUME NamesApart, TypeOK, ScopeInv, Stale \subseteq {"document"}, NEW u \in Owners,
         NEW new \in Names,
         Rename(u, new)
  PROVE  ScopeInv'
<1>1. PICK c : c = tab[u].code
  OBVIOUS
<1> DEFINE F == Forms(eng[c])
           to == NormOf[new]
           L == Loaded(u, c, new, ws')
<1>2. /\ c \in Live /\ c \in Codes /\ RenameNorms(u) = F
      /\ \A d \in Live \ {c} : NormOf[eng[d]] # to
  BY <1>1, RenameIsOne, LiveAreNamed
<1>3. /\ \A d \in Codes : eng'[d] = IF d = c THEN new ELSE eng[d]
      /\ ws'.rec = eng'
      /\ \A n \in Norms : \/ n = to /\ ws'.idx[n] = c
                          \/ ws'.idx[n] = None
                          \/ ws'.idx[n] = ws.idx[n] /\ ws.idx[n] # c
      /\ \A d \in Codes : ws'.sess[d] = IF d = c /\ ws.sess[d] # None THEN new ELSE ws.sess[d]
      /\ \/ /\ ws'.doc = ws.doc
            /\ \A n \in F : ws.doc[n] = None
         \/ \A a \in Addrs : ws'.doc[a] = IF a = to THEN c ELSE IF a \in F THEN None ELSE ws.doc[a]
  BY <1>1, RenamedFields
<1>4. gone' = gone /\ usage' = Rebilled(F, to) /\ tab' = [tab EXCEPT ![u] = L] /\ u \in Pages
  BY <1>1, <1>2, RenameEffect DEF Pages
<1>5. L.code = c /\ L.name = new /\ \A n \in Norms : L.idx[n] = ws'.idx[n]
  BY <1>4, PageHolds
<1> HIDE DEF L
<1>6. \A v \in Pages : tab'[v] = IF v = u THEN L ELSE tab[v]
  BY <1>4 DEF TypeOK
<1>7. None \notin Codes /\ None \notin Names /\ None \notin Norms /\ Norms \cap Codes = {}
  BY ClientAssumption DEF Addrs
<1>8. Live' = Live /\ Known' = Known /\ Live \subseteq Known /\ Live \subseteq Codes
  BY <1>2, <1>3, <1>4, <1>7 DEF Live, Known
<1>9. /\ to \in Norms /\ to \in Forms(new) /\ to \in Plain
      /\ \A d \in Live : NormOf[eng[d]] \in Norms /\ NormOf[eng[d]] \in Forms(eng[d])
  BY FormsAreNorms, LiveAreNamed DEF Plain
<1>10. \A d \in Live : \A a \in Forms(eng[d]) : a \in F => d = c
  BY <1>2, LiveMeet DEF ScopeInv
<1>11. ws'.rec = eng' /\ NamesDiffer'
  BY <1>2, <1>3, <1>8 DEF ScopeInv, NamesDiffer
<1>12. CodesKnown'
  <2>1. \A n \in Norms : ws'.idx[n] \in Known \cup {None}
    BY <1>2, <1>3, <1>8 DEF ScopeInv, CodesKnown
  <2>2. \A v \in Pages : tab'[v] # None =>
          tab'[v].code \in Known /\ \A n \in Norms : tab'[v].idx[n] \in Known \cup {None}
    BY <1>2, <1>5, <1>6, <1>8, <2>1 DEF ScopeInv, CodesKnown
  <2>3. \A x \in usage' : x.of \in Known
    BY <1>4 DEF Rebilled, ScopeInv, CodesKnown, TypeOK
  <2> QED  BY <1>8, <2>1, <2>2, <2>3 DEF ScopeInv, CodesKnown
<1>13. TruncatedAdopted'
  <2>1. \A n \in Norms : ws'.idx[n] \in Codes \ Adopted => n \in Plain
    BY <1>3, <1>7, <1>9 DEF ScopeInv, TruncatedAdopted
  <2>2. \A v \in Pages, n \in Norms :
          tab'[v] # None /\ tab'[v].idx[n] \in Codes \ Adopted => n \in Plain
    BY <1>5, <1>6, <2>1 DEF ScopeInv, TruncatedAdopted
  <2> QED  BY <2>1, <2>2 DEF TruncatedAdopted, Plain
<1>14. IndexNames'
  <2>1. ASSUME NEW n \in Norms, ws'.idx[n] \in Live
        PROVE  n \in Forms(eng'[ws'.idx[n]])
    <3>1. CASE ws'.idx[n] = c
      BY <1>3, <1>7, <1>8, <1>9, <2>1, <3>1
    <3>2. CASE ws'.idx[n] # c
      BY <1>3, <1>7, <1>8, <2>1, <3>2 DEF ScopeInv, IndexNames
    <3> QED  BY <3>1, <3>2
  <2> QED  BY <1>8, <2>1 DEF IndexNames, Forms
<1>15. EntriesWait'
  <2>1. ASSUME NEW d \in Live, NEW l \in Norms, ws'.idx[l] = d, l # NormOf[eng'[d]]
        PROVE  Waits(d, l)'
    <3>1. d # c /\ eng'[d] = eng[d] /\ ws.idx[l] = d
      BY <1>3, <1>7, <1>8, <2>1
    <3> DEFINE w == NormOf[eng[d]]
    <3>2. Waits(d, l) /\ w \in Norms /\ w # to
      BY <1>2, <1>9, <2>1, <3>1 DEF ScopeInv, EntriesWait
    <3>3. ws'.idx[w] = None
      BY <1>3, <3>2 DEF Waits
    <3>4. ASSUME NEW v \in Pages, tab'[v] # None
          PROVE  /\ tab'[v].idx[l] \in {None, d} /\ tab'[v].idx[w] \in {None, d}
                 /\ NormOf[tab'[v].name] = w => tab'[v].code = d
      BY <1>5, <1>6, <2>1, <3>2, <3>3, <3>4 DEF Waits
    <3> QED  BY <3>1, <3>3, <3>4 DEF Waits
  <2> QED  BY <1>8, <2>1 DEF EntriesWait
<1>16. OwnersMoved'
  <2>1. ASSUME NEW v \in Owners, tab'[v] # None, tab'[v].code \in Live,
               NEW n \in Norms, ws'.idx[n] = tab'[v].code
        PROVE  n = NormOf[eng'[tab'[v].code]]
    <3>1. CASE tab'[v].code = c
      BY <1>2, <1>3, <1>7, <2>1, <3>1
    <3>2. CASE tab'[v].code # c
      <4>1. tab'[v] = tab[v]
        BY <1>5, <1>6, <3>2 DEF Pages
      <4> QED  BY <1>3, <1>7, <1>8, <2>1, <3>2, <4>1 DEF ScopeInv, OwnersMoved, Filed
    <3> QED  BY <3>1, <3>2
  <2> QED  BY <1>8, <2>1 DEF OwnersMoved, Filed
<1>17. DocsFiled'
  <2>1. ASSUME NEW a \in Addrs, ws'.doc[a] # None
        PROVE  /\ ws'.doc[a] \in Live /\ (a \in Codes => ws'.doc[a] = a)
               /\ (a \in Norms => a \in Forms(eng'[ws'.doc[a]]))
    <3>1. CASE ws'.doc[a] = c /\ a = to
      BY <1>2, <1>3, <1>7, <1>9, <3>1
    <3>2. CASE ws'.doc[a] = ws.doc[a] /\ a \notin F
      <4>1. /\ ws.doc[a] \in Live /\ (a \in Codes => ws.doc[a] = a)
            /\ (a \in Norms => a \in Forms(eng[ws.doc[a]]))
        BY <2>1, <3>2 DEF ScopeInv, DocsFiled
      <4> QED  BY <1>3, <1>8, <3>2, <4>1
    <3> QED  BY <1>3, <2>1, <3>1, <3>2
  <2> QED  BY <1>8, <2>1 DEF DocsFiled, Forms
<1>18. SessionsNamed'
  BY <1>3, <1>8 DEF ScopeInv, SessionsNamed
<1>19. BillingFollows'
  <2>1. ASSUME NEW x \in usage', x.of \in Live  PROVE x.norm = NormOf[eng'[x.of]]
    <3>1. PICK y \in usage : x = [y EXCEPT !.norm = IF @ \in F THEN to ELSE @]
      BY <1>4 DEF Rebilled
    <3>2. x.of = y.of /\ x.norm = IF y.norm \in F THEN to ELSE y.norm
      BY <3>1 DEF TypeOK
    <3>3. y.norm = NormOf[eng[y.of]]
      BY <2>1, <3>2 DEF ScopeInv, BillingFollows
    <3> QED  BY <1>2, <1>3, <1>8, <1>9, <1>10, <2>1, <3>2, <3>3
  <2> QED  BY <1>8, <2>1 DEF BillingFollows
<1> QED  BY <1>11, <1>12, <1>13, <1>14, <1>15, <1>16, <1>17, <1>18, <1>19 DEF ScopeInv

(* A deletion takes everything of the client that bears the name now, and  *)
(* nothing of another's.                                                   *)
Dead(u) == {d \in Live : NormOf[eng[d]] = NormOf[tab[u].name]}

LEMMA DeletedFields ==
  ASSUME NamesApart, TypeOK, ScopeInv, NEW u \in Owners, Delete(u), NEW D, D = Dead(u)
  PROVE  /\ D \subseteq Live /\ gone' = gone \cup D /\ usage' = usage
         /\ tab' = [tab EXCEPT ![u] = None]
         /\ \A d \in Codes : eng'[d] = IF d \in D THEN None ELSE eng[d]
         /\ ws'.rec = eng'
         /\ \A n \in Norms : ws'.idx[n] = None \/ (ws'.idx[n] = ws.idx[n] /\ ws.idx[n] \notin D)
         /\ \A a \in Addrs : ws'.doc[a] = IF ws.doc[a] \in D THEN None ELSE ws.doc[a]
         /\ \A d \in Codes : ws'.sess[d] = IF d \in D THEN None ELSE ws.sess[d]
<1>1. tab[u] # None /\ tab[u].name \in Names /\ D \subseteq Live /\ u \in Pages
  BY PageTyped DEF Delete, Dead, Pages
<1>2. None \notin Live
  BY ClientAssumption DEF Live, Addrs
<1> DEFINE F == Forms(tab[u].name)
           norm == NormOf[tab[u].name]
           m == CodeToNorm(ws, NoTable)
<1>4. /\ eng' = [d \in Codes |-> IF d \in D THEN None ELSE eng[d]]
      /\ gone' = gone \cup D /\ usage' = usage /\ tab' = [tab EXCEPT ![u] = None]
      /\ ws' = Purged(norm, F)
  BY DEF Delete, Dead
<1>5. norm \in Norms /\ norm \in F /\ F \subseteq Norms
  BY <1>1, FormsAreNorms
<1> DEFINE rec == [d \in Codes |-> IF m[d] \in F THEN None ELSE ws.rec[d]]
           doc == [a \in Addrs |-> IF ClientOf(m, a) \in F THEN None ELSE ws.doc[a]]
           sess == [d \in Codes |-> IF ws.sess[d] # None /\ NormOf[ws.sess[d]] \in F
                                      THEN None ELSE ws.sess[d]]
<1>6. {norm} \cup F = F
  BY <1>5
<1>7. ws' = [idx |-> [ws.idx EXCEPT ![norm] = None], rec |-> rec, doc |-> doc, sess |-> sess]
  BY <1>4, <1>6 DEF Purged
<1>8. /\ \A d \in Codes : rec[d] = IF m[d] \in F THEN None ELSE ws.rec[d]
      /\ \A a \in Addrs : doc[a] = IF ClientOf(m, a) \in F THEN None ELSE ws.doc[a]
      /\ \A d \in Codes : sess[d] = IF ws.sess[d] # None /\ NormOf[ws.sess[d]] \in F
                                      THEN None ELSE ws.sess[d]
  OBVIOUS
<1>9. rec \in [Codes -> NameOrNone]
  BY DEF TypeOK, Workspace, NameOrNone
<1> HIDE DEF rec, doc, sess
<1>10. /\ ws'.rec = rec /\ ws'.doc = doc /\ ws'.sess = sess
       /\ ws'.idx = [ws.idx EXCEPT ![norm] = None]
  BY <1>7
<1>11. \A d \in Live : \A a \in Forms(eng[d]) : a \in F => d \in D
  BY <1>1, LiveAreNamed, FormsMeet DEF Dead
<1>18. \A d \in D : d \in Live /\ NormOf[eng[d]] = norm
  BY DEF Dead
<1>19. \A d \in D : Forms(eng[d]) = F
  BY <1>1, <1>18, LiveAreNamed, FormsAgree
<1>12. \A d \in Live : m[d] = NormOf[eng[d]] /\ NormOf[eng[d]] \in Forms(eng[d])
  BY CodesResolve, LiveAreNamed, FormsAreNorms DEF ScopeInv
<1> HIDE DEF m
<1>13. \A d \in Codes : eng'[d] = IF d \in D THEN None ELSE eng[d]
  BY <1>4
<1>14. ws'.rec = eng'
  <2>1. ASSUME NEW d \in Codes  PROVE rec[d] = eng'[d]
    <3>1. CASE d \in Live
      BY <1>5, <1>8, <1>11, <1>12, <1>13, <1>18, <3>1 DEF ScopeInv
    <3>2. CASE d \notin Live
      BY <1>1, <1>8, <1>13, <3>2 DEF ScopeInv, Live
    <3> QED  BY <3>1, <3>2
  <2>2. eng' \in [Codes -> NameOrNone]
    BY DeleteTyped DEF TypeOK
  <2> QED  BY <1>9, <1>10, <2>1, <2>2
<1>15. \A n \in Norms : ws'.idx[n] = None \/ (ws'.idx[n] = ws.idx[n] /\ ws.idx[n] \notin D)
  <2>1. ASSUME NEW d \in D, NEW n \in Norms, ws.idx[n] = d  PROVE n = norm
    <3>1. NormOf[eng[d]] = norm /\ d \in Live
      BY <1>18
    <3>2. ASSUME n # NormOf[eng[d]]  PROVE Filed(d)
      <4>1. tab[u].code = d
        BY <1>1, <2>1, <3>1, <3>2 DEF ScopeInv, EntriesWait, Waits
      <4> QED  BY <1>1, <3>1, <4>1 DEF ScopeInv, OwnersMoved
    <3> QED  BY <2>1, <3>1, <3>2 DEF Filed
  <2> QED  BY <1>5, <1>10, <2>1 DEF TypeOK, Workspace
<1>16. ASSUME NEW a \in Addrs  PROVE ws'.doc[a] = IF ws.doc[a] \in D THEN None ELSE ws.doc[a]
  <2>1. CASE ws.doc[a] = None
    BY <1>8, <1>10, <2>1
  <2>2. CASE ws.doc[a] # None /\ a \in Codes
    <3>1. ws.doc[a] \in Live /\ ws.doc[a] = a /\ ClientOf(m, a) = m[a]
      BY <2>2 DEF ScopeInv, DocsFiled, ClientOf
    <3> QED  BY <1>5, <1>8, <1>10, <1>11, <1>12, <1>18, <3>1
  <2>3. CASE ws.doc[a] # None /\ a \in Norms
    <3>1. ws.doc[a] \in Live /\ a \in Forms(eng[ws.doc[a]]) /\ ClientOf(m, a) = a
      BY <2>3, ClientAssumption DEF ScopeInv, DocsFiled, ClientOf
    <3> QED  BY <1>8, <1>10, <1>11, <1>19, <3>1
  <2> QED  BY <2>1, <2>2, <2>3 DEF Addrs
<1>17. ASSUME NEW d \in Codes  PROVE ws'.sess[d] = IF d \in D THEN None ELSE ws.sess[d]
  <2>1. CASE ws.sess[d] = None
    BY <1>8, <1>10, <2>1
  <2>2. CASE ws.sess[d] # None
    <3>1. d \in Live /\ NormOf[ws.sess[d]] = NormOf[eng[d]]
      BY <2>2 DEF ScopeInv, SessionsNamed
    <3> QED  BY <1>5, <1>8, <1>10, <1>11, <1>12, <1>18, <2>2, <3>1
  <2> QED  BY <2>1, <2>2
<1> QED  BY <1>1, <1>4, <1>13, <1>14, <1>15, <1>16, <1>17

LEMMA DeleteScope ==
  ASSUME NamesApart, TypeOK, ScopeInv, NEW u \in Owners, Delete(u)
  PROVE  ScopeInv'
<1>1. PICK D : D = Dead(u)
  OBVIOUS
<1>2. /\ D \subseteq Live /\ gone' = gone \cup D /\ usage' = usage
      /\ tab' = [tab EXCEPT ![u] = None]
      /\ \A d \in Codes : eng'[d] = IF d \in D THEN None ELSE eng[d]
      /\ ws'.rec = eng'
      /\ \A n \in Norms : ws'.idx[n] = None \/ (ws'.idx[n] = ws.idx[n] /\ ws.idx[n] \notin D)
      /\ \A a \in Addrs : ws'.doc[a] = IF ws.doc[a] \in D THEN None ELSE ws.doc[a]
      /\ \A d \in Codes : ws'.sess[d] = IF d \in D THEN None ELSE ws.sess[d]
  BY <1>1, DeletedFields
<1>3. Live' = Live \ D /\ Known' = Known /\ None \notin Codes /\ Live \subseteq Codes
  BY <1>2, ClientAssumption DEF Live, Known, Addrs
<1>4. \A v \in Pages : tab'[v] # None => tab'[v] = tab[v]
  BY <1>2 DEF TypeOK
<1>5. NamesDiffer' /\ BillingFollows' /\ SessionsNamed'
  BY <1>2, <1>3 DEF ScopeInv, NamesDiffer, BillingFollows, SessionsNamed
<1>6. CodesKnown'
  BY <1>2, <1>3, <1>4 DEF ScopeInv, CodesKnown
<1>7. TruncatedAdopted'
  BY <1>2, <1>3, <1>4 DEF ScopeInv, TruncatedAdopted, Plain
<1>8. IndexNames'
  BY <1>2, <1>3 DEF ScopeInv, IndexNames, Forms
<1>9. EntriesWait'
  <2>1. ASSUME NEW d \in Live, d \notin D, NEW l \in Norms, ws.idx[l] = d, l # NormOf[eng[d]]
        PROVE  Waits(d, l)'
    <3>1. Waits(d, l) /\ NormOf[eng[d]] \in Norms /\ eng'[d] = eng[d]
      BY <1>2, <1>3, <2>1, LiveAreNamed, FormsAreNorms DEF ScopeInv, EntriesWait
    <3> QED  BY <1>2, <1>4, <3>1 DEF Waits
  <2> QED  BY <1>2, <1>3, <2>1 DEF EntriesWait
<1>10. OwnersMoved'
  BY <1>2, <1>3, <1>4 DEF ScopeInv, OwnersMoved, Filed, Pages
<1>11. DocsFiled'
  BY <1>2, <1>3 DEF ScopeInv, DocsFiled, Forms
<1> QED  BY <1>2, <1>5, <1>6, <1>7, <1>8, <1>9, <1>10, <1>11 DEF ScopeInv

LEMMA ScopeStep ==
  ASSUME NamesApart, Stale \subseteq {"document"}, TypeOK, ScopeInv, [Next]_vars
  PROVE  ScopeInv'
<1>1. CASE \E u \in Pages : \E c \in Codes : (\E name \in Names : Create(u, c, name)) \/ Open(u, c)
  BY <1>1, CreateScope, OpenScope
<1>2. CASE \E u \in Pages : SaveRecord(u) \/ SaveDoc(u) \/ SaveSession(u) \/ Invite(u) \/ Charge(u)
  BY <1>2, SaveRecordScope, SaveDocScope, SaveSessionScope, BillingScope
<1>3. CASE \E u \in Consultants :
             (\E name \in Names : Assign(u, name) \/ Unassign(u, name)) \/ RemoveMember(u)
  BY <1>3, TeamScope
<1>4. CASE \E u \in Owners : (\E new \in Names : Rename(u, new)) \/ Delete(u)
  BY <1>4, RenameScope, DeleteScope
<1>5. CASE UNCHANGED vars
  <2>1. eng' = eng /\ gone' = gone /\ ws' = ws /\ usage' = usage /\ tab' = tab
    BY <1>5 DEF vars
  <2>2. DocsFiled' /\ SessionsNamed'
    BY <2>1 DEF ScopeInv, DocsFiled, SessionsNamed, Live, Forms
  <2> QED  BY <2>1, <2>2, ScopeFrame
<1> QED  BY <1>1, <1>2, <1>3, <1>4, <1>5 DEF Next

(* What a consultant is shown is the work of the clients they are assigned *)
(* to, all of them and no other.                                           *)
LEMMA ShownIsEntitled ==
  ASSUME NamesApart, TypeOK, ScopeInv, NEW u \in Consultants
  PROVE  Shown(ws, Table, Scope(u)) = Entitled(u)
<1> DEFINE A == Scope(u)
           m == CodeToNorm(ws, Table)
<1>1. \A c \in Live : m[c] = NormOf[eng[c]] /\ ws.rec[c] = eng[c] /\ eng[c] # None
  BY CodesResolve, LiveAreNamed DEF ScopeInv
<1>2. \A c \in Live : \A a \in Forms(eng[c]) : a \in A <=> c \in Entitled(u)
  BY EntitledByScope
<1>3. \A c \in Live : NormOf[eng[c]] \in Forms(eng[c])
  BY DEF Forms
<1> HIDE DEF A, m
<1>4. ASSUME NEW c \in Codes, NEW a \in Addrs, ws.doc[a] = c, ClientOf(m, a) \in A
      PROVE  c \in Entitled(u)
  <2>1. c # None
    BY ClientAssumption DEF Addrs
  <2>2. c \in Live /\ (a \in Codes => a = c) /\ (a \in Norms => a \in Forms(eng[c]))
    BY <1>4, <2>1 DEF ScopeInv, DocsFiled
  <2>3. CASE a \in Codes
    BY <1>1, <1>2, <1>3, <1>4, <2>2, <2>3 DEF ClientOf
  <2>4. CASE a \in Norms /\ a \notin Codes
    BY <1>2, <1>4, <2>2, <2>4 DEF ClientOf
  <2> QED  BY <2>3, <2>4 DEF Addrs
<1>5. ASSUME NEW c \in Codes, ws.rec[c] # None, m[c] \in A
      PROVE  c \in Entitled(u)
  BY <1>1, <1>2, <1>3, <1>5 DEF ScopeInv, Live
<1>6. ASSUME NEW c \in Codes, ws.sess[c] # None, NormOf[ws.sess[c]] \in A
      PROVE  c \in Entitled(u)
  BY <1>2, <1>3, <1>6 DEF ScopeInv, SessionsNamed
<1>7. ASSUME NEW c \in Entitled(u)
      PROVE  c \in Codes /\ ws.rec[c] # None /\ m[c] \in A
  BY <1>1, <1>2, <1>3 DEF Entitled, Live
<1> QED  BY <1>4, <1>5, <1>6, <1>7 DEF Shown, A, m

--------------------------------------------------------------------------------
(* Theorems                                                                *)

(* Rows and pages stay in shape, whatever is stale.                        *)
THEOREM ScopeTypeCorrect == Spec => []TypeOK
<1>1. Init => TypeOK
  BY InitTyped
<1>2. TypeOK /\ [Next]_vars => TypeOK'
  BY TypeStep
<1> QED  BY <1>1, <1>2, PTL DEF Spec

(* What makes it true, of every state: the records bear the table's names, *)
(* no two clients one name, every entry, document and session is filed     *)
(* under a form of its client's, and an entry still under a truncated norm *)
(* is what every page has read there.                                      *)
THEOREM ScopeInvariant == ASSUME NamesApart, Stale \subseteq {"document"} PROVE Spec => []ScopeInv
<1>1. Init => ScopeInv
  BY ScopeInit
<1>2. TypeOK /\ ScopeInv /\ [Next]_vars => ScopeInv'
  BY ScopeStep
<1> QED  BY <1>1, <1>2, ScopeTypeCorrect, PTL DEF Spec

(* At every moment a consultant's read hands over only clients they are    *)
(* assigned to, the index names every client once and by a name it bears,  *)
(* and bills stand under the name of the client they were spent for.       *)
THEOREM ReadsAreScoped == ASSUME NamesApart, Stale \subseteq {"document"} PROVE Spec => []ScopeHolds
<1>1. ASSUME TypeOK, ScopeInv  PROVE ScopeHolds
  <2>1. ReadsOwnClients
    BY <1>1, ShownIsEntitled DEF ReadsOwnClients
  <2>2. ASSUME NEW n \in Norms, NEW k \in Norms, ws.idx[n] # None, ws.idx[n] \in Live
        PROVE  n \in Forms(eng[ws.idx[n]]) /\ (ws.idx[k] = ws.idx[n] => k = n)
    <3>1. n \in Forms(eng[ws.idx[n]])
      BY <1>1, <2>2 DEF ScopeInv, IndexNames
    <3>2. ASSUME ws.idx[k] = ws.idx[n], k # n  PROVE FALSE
      <4> DEFINE w == NormOf[eng[ws.idx[n]]]
      <4>1. k \in Forms(eng[ws.idx[n]])
        BY <1>1, <2>2, <3>2 DEF ScopeInv, IndexNames
      <4>2. (n = w /\ k # w) \/ (k = w /\ n # w)
        BY <3>1, <3>2, <4>1 DEF Forms
      <4>3. ws.idx[w] = None
        BY <1>1, <2>2, <3>2, <4>2 DEF ScopeInv, EntriesWait, Waits
      <4> QED  BY <2>2, <3>2, <4>2, <4>3
    <3> QED  BY <3>1, <3>2
  <2> QED  BY <1>1, <2>1, <2>2 DEF ScopeHolds, ScopeInv, OneNormPerCode
<1>2. TypeOK /\ ScopeInv => ScopeHolds
  BY <1>1
<1> QED  BY <1>2, ScopeTypeCorrect, ScopeInvariant, PTL

(* A rename leaves every consultant with the clients they had.             *)
LEMMA RenameKeepsEntitled ==
  ASSUME NamesApart, Stale \subseteq {"document"}, TypeOK, ScopeInv, NEW u \in Owners,
         NEW new \in Names,
         Rename(u, new), NEW v \in Consultants
  PROVE  Entitled(v)' = Entitled(v)
<1>1. PICK c : c = tab[u].code
  OBVIOUS
<1> DEFINE F == Forms(eng[c])
           to == NormOf[new]
<1>2. /\ c \in Live /\ eng[c] \in Names
      /\ \A d \in Live \ {c} : NormOf[eng[d]] # to
      /\ to \in F \/ ~TakenByAssignment(new)
      /\ \A d \in Codes : eng'[d] = IF d = c THEN new ELSE eng[d]
  BY <1>1, RenameIsOne, RenamedFields, LiveAreNamed
<1>3. asg' = Reassigned(F, new)
  BY <1>1, RenameIsOne, RenameEffect
<1>4. Live' = Live
  BY <1>2, ClientAssumption DEF Live
<1>5. \A d \in Live : \A a \in Forms(eng[d]) : a \in F => d = c
  BY <1>2, LiveMeet DEF ScopeInv
<1>6. \A d \in Live : eng[d] \in Names /\ NormOf[eng[d]] \in Forms(eng[d])
  BY LiveAreNamed, FormsAreNorms
<1>7. \A r \in asg : /\ r.user \in Consultants /\ r.name \in Names
                     /\ NormOf[r.name] \in F <=> NormOf[r.name] = NormOf[eng[c]]
  BY <1>2, FormsMeet, FormsAreNorms DEF TypeOK
<1>8. ASSUME NEW r \in asg
      PROVE  LET s == [r EXCEPT !.name = IF NormOf[@] \in F THEN new ELSE @]
             IN  /\ s \in asg' /\ s.user = r.user
                 /\ s.name = IF NormOf[r.name] \in F THEN new ELSE r.name
  BY <1>3 DEF Reassigned, TypeOK
<1>9. ASSUME NEW s \in asg'
      PROVE  \E r \in asg : s.user = r.user /\ s.name = IF NormOf[r.name] \in F THEN new ELSE r.name
  BY <1>3 DEF Reassigned, TypeOK
<1>10. ASSUME NEW d \in Live, NEW r \in asg, r.user = v, NormOf[r.name] = NormOf[eng[d]]
       PROVE  \E s \in asg' : s.user = v /\ NormOf[s.name] = NormOf[eng'[d]]
  <2>1. PICK s \in asg' : s.user = r.user /\ s.name = IF NormOf[r.name] \in F THEN new ELSE r.name
    BY <1>8
  <2>2. CASE d = c
    BY <1>2, <1>4, <1>7, <1>10, <2>1, <2>2 DEF Live
  <2>3. CASE d # c
    BY <1>2, <1>5, <1>6, <1>10, <2>1, <2>3 DEF Live
  <2> QED  BY <2>2, <2>3
<1>11. ASSUME NEW d \in Live, NEW s \in asg', s.user = v, NormOf[s.name] = NormOf[eng'[d]]
       PROVE  \E r \in asg : r.user = v /\ NormOf[r.name] = NormOf[eng[d]]
  <2>1. PICK r \in asg : s.user = r.user /\ s.name = IF NormOf[r.name] \in F THEN new ELSE r.name
    BY <1>9
  <2>2. CASE NormOf[r.name] \in F
    <3>1. NormOf[eng'[d]] = to
      BY <1>11, <2>1, <2>2
    <3>2. d = c
      BY <1>2, <3>1 DEF Live
    <3> QED  BY <1>7, <1>11, <2>1, <2>2, <3>2
  <2>3. CASE NormOf[r.name] \notin F
    <3>1. d # c
      BY <1>2, <1>11, <2>1, <2>3 DEF TakenByAssignment, Live
    <3> QED  BY <1>2, <1>11, <2>1, <2>3, <3>1 DEF Live
  <2> QED  BY <2>2, <2>3
<1> QED  BY <1>4, <1>10, <1>11 DEF Entitled

(* Widening, a save and a rename move documents; only a deletion takes.    *)
LEMMA DocsKept ==
  ASSUME NamesApart, Stale = {}, TypeOK, ScopeInv, [Next]_vars,
         NEW c \in Live, c \notin gone', NEW a \in Addrs, ws.doc[a] = c
  PROVE  \E b \in Addrs : ws'.doc[b] = c
<1>1. /\ c # None /\ DOMAIN ws.doc = Addrs /\ Norms \subseteq Addrs /\ Codes \subseteq Addrs
      /\ Norms \cap Codes = {} /\ c \in Codes /\ eng[c] \in Names
  BY ClientAssumption, LiveAreNamed DEF Live, Addrs, TypeOK, Workspace
<1>2. (a \in Codes => a = c) /\ (a \in Norms => a \in Forms(eng[c]))
  BY <1>1 DEF ScopeInv, DocsFiled
<1>3. ASSUME NEW u \in Pages, NEW d \in Codes, Open(u, d)
      PROVE  \E b \in Addrs : ws'.doc[b] = c
  <2>1. CASE u \in Owners
    <3>1. ws'.doc = Widen(ws.doc, KnownNames) /\ KnownNames \in SUBSET Names
      BY <1>3, <2>1, WidenedTyped DEF Open
    <3> QED  BY <1>1, <3>1, WidenedTo
  <2>2. CASE u \notin Owners
    BY <1>3, <2>2 DEF Open
  <2> QED  BY <2>1, <2>2
<1>4. ASSUME NEW u \in Pages, SaveDoc(u)
      PROVE  \E b \in Addrs : ws'.doc[b] = c
  <2> DEFINE t == tab[u]
             n == NormOf[t.name]
  <2>1. t # None /\ t.code \in Codes /\ t.name \in Names /\ t.code \in Live
    BY <1>4, PageTyped DEF SaveDoc, Working
  <2>2. CASE ws'.doc[a] = ws.doc[a] \/ (a = t.code /\ ws'.doc[a] = a)
    BY <1>1, <1>2, <2>1, <2>2
  <2>3. CASE a = n /\ Drops(u)
    <3>1. NormOf[eng[c]] = NormOf[t.name] /\ a \in Norms
      BY <1>1, <1>2, <2>1, <2>3, FormsMeet, FormsAreNorms
    <3>2. c = t.code
      BY <1>4, <2>3, <3>1, SaveDocEffect DEF Borne
    <3>3. CodeToNorm(ws, Table)[t.code] = NormOf[t.name]
      BY <3>1, <3>2, CodesResolve DEF ScopeInv
    <3>4. ws'.doc[c] = c
      BY <1>4, <2>3, <3>2, <3>3, SaveDocEffect DEF Drops
    <3> QED  BY <1>1, <3>4
  <2> QED  BY <1>4, <2>2, <2>3, SaveDocEffect
<1>5. ASSUME NEW u \in Owners, NEW new \in Names, Rename(u, new)
      PROVE  \E b \in Addrs : ws'.doc[b] = c
  <2>1. PICK d : d = tab[u].code
    OBVIOUS
  <2> DEFINE F == Forms(eng[d])
             to == NormOf[new]
  <2>2. d \in Live /\ eng[d] \in Names /\ to \in Addrs /\ to \in Norms
        /\ \A e \in Live \ {d} : NormOf[eng[e]] # to
    BY <1>1, <1>5, <2>1, RenameIsOne, LiveAreNamed, FormsAreNorms
  <2>3. \/ /\ ws'.doc = ws.doc
           /\ \A n \in F : ws.doc[n] = None
        \/ \A b \in Addrs : ws'.doc[b] = IF b = to THEN d ELSE IF b \in F THEN None ELSE ws.doc[b]
    BY <1>5, <2>1, RenamedFields
  <2>4. CASE ws'.doc = ws.doc
    BY <2>4
  <2>5. CASE \A b \in Addrs : ws'.doc[b] = IF b = to THEN d ELSE IF b \in F THEN None ELSE ws.doc[b]
    <3>1. CASE c = d
      BY <2>2, <2>5, <3>1
    <3>2. CASE c # d
      <4>1. a # to
        <5>1. SUFFICES ASSUME a = to PROVE FALSE
          OBVIOUS
        <5>2. NormOf[eng[c]] = to
          BY <1>1, <1>2, <2>2, <5>1, FormsMeet, FormsAreNorms
        <5> QED  BY <2>2, <3>2, <5>2
      <4>2. a \notin F
        BY <1>1, <1>2, <2>2, <3>2, LiveMeet, FormsAreNorms DEF ScopeInv
      <4> QED  BY <2>5, <4>1, <4>2
    <3> QED  BY <3>1, <3>2
  <2> QED  BY <2>3, <2>4, <2>5
<1>6. ASSUME NEW u \in Owners, Delete(u)
      PROVE  \E b \in Addrs : ws'.doc[b] = c
  <2>1. PICK D : D = Dead(u)
    OBVIOUS
  <2>2. /\ gone' = gone \cup D
        /\ \A b \in Addrs : ws'.doc[b] = IF ws.doc[b] \in D THEN None ELSE ws.doc[b]
    BY <1>6, <2>1, DeletedFields
  <2> QED  BY <2>2
<1>7. CASE ws'.doc = ws.doc
  BY <1>7
<1>8. ASSUME NEW u \in Pages, SaveRecord(u) \/ SaveSession(u)  PROVE ws'.doc = ws.doc
  BY <1>8, SaveRecordEffect, SaveSessionEffect
<1>9. ASSUME NEW u \in Pages, NEW d \in Codes, NEW name \in Names, Create(u, d, name)
      PROVE  ws'.doc = ws.doc
  BY <1>9 DEF Create, TypeOK, Workspace
<1>10. ASSUME NEW u \in Pages, Invite(u) \/ Charge(u)  PROVE ws'.doc = ws.doc
  BY <1>10 DEF Invite, Charge
<1>11. ASSUME NEW u \in Consultants,
              (\E name \in Names : Assign(u, name) \/ Unassign(u, name)) \/ RemoveMember(u)
       PROVE  ws'.doc = ws.doc
  BY <1>11 DEF Assign, Unassign, RemoveMember
<1>12. UNCHANGED vars => ws'.doc = ws.doc
  BY DEF vars
<1> QED  BY <1>3, <1>4, <1>5, <1>6, <1>7, <1>8, <1>9, <1>10, <1>11, <1>12 DEF Next

LEMMA SessionsKept ==
  ASSUME NamesApart, Stale \subseteq {"document"}, TypeOK, ScopeInv, [Next]_vars,
         NEW c \in Live, c \notin gone', ws.sess[c] # None
  PROVE  ws'.sess[c] # None
<1>1. c \in Codes /\ None \notin Names
  BY ClientAssumption DEF Live
<1>2. ASSUME NEW u \in Pages, SaveSession(u)  PROVE ws'.sess[c] # None
  <2>1. ws'.sess = [ws.sess EXCEPT ![tab[u].code] = tab[u].name] /\ tab[u].name \in Names
    BY <1>2, SaveSessionEffect, PageTyped
  <2> QED  BY <1>1, <2>1 DEF TypeOK, Workspace
<1>3. ASSUME NEW u \in Owners, NEW new \in Names, Rename(u, new)  PROVE ws'.sess[c] # None
  <2>1. PICK d : d = tab[u].code
    OBVIOUS
  <2>2. ws'.sess[c] = IF c = d /\ ws.sess[c] # None THEN new ELSE ws.sess[c]
    BY <1>1, <1>3, <2>1, RenamedFields
  <2> QED  BY <1>1, <2>2
<1>4. ASSUME NEW u \in Owners, Delete(u)  PROVE ws'.sess[c] # None
  <2>1. PICK D : D = Dead(u)
    OBVIOUS
  <2>2. gone' = gone \cup D /\ ws'.sess[c] = IF c \in D THEN None ELSE ws.sess[c]
    BY <1>1, <1>4, <2>1, DeletedFields
  <2> QED  BY <2>2
<1>5. ASSUME NEW u \in Pages, SaveRecord(u) \/ SaveDoc(u)  PROVE ws'.sess = ws.sess
  BY <1>5, SaveRecordEffect, SaveDocEffect
<1>6. ASSUME NEW u \in Pages, NEW d \in Codes, NEW name \in Names, Create(u, d, name)
      PROVE  ws'.sess = ws.sess
  BY <1>6 DEF Create, TypeOK, Workspace
<1>7. ASSUME NEW u \in Pages, NEW d \in Codes, Open(u, d)  PROVE ws'.sess = ws.sess
  BY <1>7, WidenedTyped DEF Open
<1>8. ASSUME NEW u \in Pages, Invite(u) \/ Charge(u)  PROVE ws'.sess = ws.sess
  BY <1>8 DEF Invite, Charge
<1>9. ASSUME NEW u \in Consultants,
             (\E name \in Names : Assign(u, name) \/ Unassign(u, name)) \/ RemoveMember(u)
      PROVE  ws'.sess = ws.sess
  BY <1>9 DEF Assign, Unassign, RemoveMember
<1>10. UNCHANGED vars => ws'.sess = ws.sess
  BY DEF vars
<1> QED  BY <1>2, <1>3, <1>4, <1>5, <1>6, <1>7, <1>8, <1>9, <1>10 DEF Next

(* Which operations change a client's row.                                 *)
LEMMA RowsChange ==
  ASSUME TypeOK, [Next]_vars
  PROVE  \/ \E u \in Owners : (\E new \in Names : Rename(u, new)) \/ Delete(u)
         \/ /\ gone' = gone
            /\ \A c \in Live : eng'[c] = eng[c]
<1>1. ASSUME NEW u \in Pages, NEW c \in Codes,
             (\E name \in Names : Create(u, c, name)) \/ Open(u, c)
      PROVE  gone' = gone /\ \A d \in Live : eng'[d] = eng[d]
  BY <1>1 DEF Create, Open, TypeOK, Live
<1>2. ASSUME NEW u \in Pages,
             SaveRecord(u) \/ SaveDoc(u) \/ SaveSession(u) \/ Invite(u) \/ Charge(u)
      PROVE  gone' = gone /\ eng' = eng
  BY <1>2 DEF SaveRecord, SaveDoc, SaveSession, Invite, Charge
<1>3. ASSUME NEW u \in Consultants,
             (\E name \in Names : Assign(u, name) \/ Unassign(u, name)) \/ RemoveMember(u)
      PROVE  gone' = gone /\ eng' = eng
  BY <1>3 DEF Assign, Unassign, RemoveMember
<1>4. UNCHANGED vars => gone' = gone /\ eng' = eng
  BY DEF vars
<1> QED  BY <1>1, <1>2, <1>3, <1>4 DEF Next

SeenAsEntitled == \A u \in Consultants : Shown(ws, Table, Scope(u)) = Entitled(u)

LEMMA RenameSeen ==
  ASSUME NamesApart, Stale \subseteq {"document"}, TypeOK, ScopeInv, SeenAsEntitled,
         SeenAsEntitled', [Next]_vars,
         Renamed # {}, NEW v \in Consultants
  PROVE  Shown(ws, Table, Scope(v))' = Shown(ws, Table, Scope(v))
<1>1. PICK c \in Live : eng'[c] \notin {None, eng[c]}
  BY DEF Renamed
<1>2. ASSUME NEW u \in Owners, Delete(u)  PROVE FALSE
  <2>1. PICK D : D = Dead(u)
    OBVIOUS
  <2>2. eng'[c] = IF c \in D THEN None ELSE eng[c]
    BY <1>2, <2>1, DeletedFields DEF Live
  <2> QED  BY <1>1, <2>2
<1>3. PICK u \in Owners, new \in Names : Rename(u, new)
  BY <1>1, <1>2, RowsChange
<1>4. Entitled(v)' = Entitled(v)
  BY <1>3, RenameKeepsEntitled
<1> QED  BY <1>4 DEF SeenAsEntitled

LEMMA ErasedIsEmpty ==
  ASSUME NamesApart, Stale \subseteq {"document"}, TypeOK, ScopeInv, [Next]_vars,
         NEW c \in gone' \ gone
  PROVE  WorkOf(ws', c) = {}
<1>1. ASSUME NEW u \in Owners, NEW new \in Names, Rename(u, new)  PROVE gone' = gone
  BY <1>1, RenameEffect
<1>2. PICK u \in Owners : Delete(u)
  BY <1>1, RowsChange
<1>3. PICK D : D = Dead(u)
  OBVIOUS
<1>4. /\ D \subseteq Live /\ gone' = gone \cup D
      /\ \A e \in Codes : eng'[e] = IF e \in D THEN None ELSE eng[e]
      /\ ws'.rec = eng'
      /\ \A n \in Norms : ws'.idx[n] = None \/ (ws'.idx[n] = ws.idx[n] /\ ws.idx[n] \notin D)
      /\ \A a \in Addrs : ws'.doc[a] = IF ws.doc[a] \in D THEN None ELSE ws.doc[a]
      /\ \A e \in Codes : ws'.sess[e] = IF e \in D THEN None ELSE ws.sess[e]
  BY <1>2, <1>3, DeletedFields
<1>5. c \in D /\ c \in Codes /\ c # None
  BY <1>4, ClientAssumption DEF Live, Addrs
<1>6. /\ \A a \in Addrs : ws'.doc[a] # c
      /\ \A n \in Norms : ws'.idx[n] # c
      /\ ws'.rec[c] = None /\ ws'.sess[c] = None
  BY <1>4, <1>5
<1> QED  BY <1>6 DEF WorkOf

LEMMA RecordsKept ==
  ASSUME ScopeInv, ScopeInv', TypeOK, TypeOK', NamesApart, Stale \subseteq {"document"},
         [Next]_vars,
         NEW c \in Live, c \notin gone'
  PROVE  ws'.rec[c] # None
<1>1. eng[c] # None /\ c \in Codes /\ None \notin Names /\ ws'.rec = eng'
  BY ClientAssumption DEF Live, ScopeInv
<1>2. ASSUME NEW u \in Owners, NEW new \in Names, Rename(u, new)  PROVE eng'[c] # None
  <2>1. PICK d : d = tab[u].code
    OBVIOUS
  <2>2. eng'[c] = IF c = d THEN new ELSE eng[c]
    BY <1>1, <1>2, <2>1, RenamedFields
  <2> QED  BY <1>1, <2>2
<1>3. ASSUME NEW u \in Owners, Delete(u)  PROVE eng'[c] # None
  <2>1. PICK D : D = Dead(u)
    OBVIOUS
  <2>2. gone' = gone \cup D /\ eng'[c] = IF c \in D THEN None ELSE eng[c]
    BY <1>1, <1>3, <2>1, DeletedFields
  <2> QED  BY <1>1, <2>2
<1> QED  BY <1>1, <1>2, <1>3, RowsChange

(* What a consultant saves is theirs.                                      *)
LEMMA SavesAreTheirs ==
  ASSUME NamesApart, Stale \subseteq {"document"}, TypeOK, ScopeInv, NEW u \in Consultants,
         SaveRecord(u) \/ SaveDoc(u) \/ SaveSession(u), NEW c \in Live \ Entitled(u)
  PROVE  WorkOf(ws', c) = WorkOf(ws, c)
<1>1. u \in Pages /\ u \notin Owners
  BY ClientAssumption DEF Pages
<1>2. /\ c \in Codes /\ c # None /\ NormOf[eng[c]] \in Forms(eng[c]) /\ eng[c] \in Names
      /\ \A a \in Forms(eng[c]) : a \notin Scope(u)
  BY LiveAreNamed, FormsAreNorms, EntitledByScope, ClientAssumption DEF Addrs
<1>3. CASE SaveRecord(u)
  <2>1. ws'.doc = ws.doc /\ ws'.sess = ws.sess
    BY <1>1, <1>3, SaveRecordEffect
  <2>2. ws'.rec[c] = ws.rec[c]
    BY <1>1, <1>2, <1>3, SaveRecordEffect, SentScope DEF ScopeInv
  <2>3. ASSUME NEW n \in Norms  PROVE ws'.idx[n] = c <=> ws.idx[n] = c
    <3>1. CASE n \notin Scope(u)
      BY <1>3, <3>1, ScopedFrom
    <3>2. CASE n \in Scope(u)
      <4>1. ws.idx[n] # c
        BY <1>2, <3>2 DEF ScopeInv, IndexNames
      <4>2. Sent(u)[n] # c
        BY <1>1, <1>2, <1>3, <3>2, SentScope
      <4> QED  BY <1>2, <1>3, <3>2, <4>1, <4>2, ScopedFrom
    <3> QED  BY <3>1, <3>2
  <2> QED  BY <2>1, <2>2, <2>3 DEF WorkOf
<1>4. CASE SaveDoc(u)
  <2>1. ws'.idx = ws.idx /\ ws'.rec = ws.rec /\ ws'.sess = ws.sess
    BY <1>1, <1>4, SaveDocEffect
  <2>2. ASSUME NEW a \in Addrs  PROVE ws'.doc[a] = c <=> ws.doc[a] = c
    <3>1. CASE a = tab[u].code /\ Reaches(u, CodeToNorm(ws, Table)[tab[u].code]) /\ ws'.doc[a] = a
      <4>1. a \in Live
        BY <1>4, <3>1 DEF SaveDoc, Working
      <4>2. NormOf[eng[a]] \in Scope(u)
        BY <1>1, <3>1, <4>1, CodesResolve DEF Reaches, ScopeInv
      <4>3. a # c
        BY <1>2, <4>2
      <4>4. a \in Codes
        BY <4>1, LiveAreNamed
      <4> QED  BY <1>2, <3>1, <4>3, <4>4 DEF ScopeInv, DocsFiled
    <3>2. CASE a = NormOf[tab[u].name] /\ Drops(u) /\ ws'.doc[a] = None
      <4>1. a \in Scope(u) /\ a \in Norms
        BY <1>1, <1>4, <3>2, SaveDocEffect, PageTyped DEF Drops, Reaches
      <4> QED  BY <1>2, <3>2, <4>1 DEF ScopeInv, DocsFiled
    <3> QED  BY <1>1, <1>4, <3>1, <3>2, SaveDocEffect
  <2> QED  BY <2>1, <2>2 DEF WorkOf
<1>5. CASE SaveSession(u)
  <2> DEFINE t == tab[u]
  <2>1. /\ ws'.idx = ws.idx /\ ws'.rec = ws.rec /\ ws'.doc = ws.doc
        /\ ws'.sess = [ws.sess EXCEPT ![t.code] = t.name]
        /\ t.code \in Live /\ eng[t.code] = t.name
        /\ Reaches(u, NormOf[IF ws.sess[t.code] # None THEN ws.sess[t.code] ELSE t.name])
    BY <1>1, <1>5, SaveSessionEffect
  <2>2. NormOf[eng[t.code]] \in Scope(u)
    BY <1>1, <2>1 DEF Reaches, ScopeInv, SessionsNamed, Live
  <2>3. t.code # c
    BY <1>2, <2>2
  <2>4. ws'.sess[c] = ws.sess[c]
    BY <1>2, <2>1, <2>3 DEF TypeOK, Workspace
  <2> QED  BY <2>1, <2>4 DEF WorkOf
<1> QED  BY <1>3, <1>4, <1>5

(* A rename moves nobody's access, a deletion leaves nothing of its client *)
(* and nothing else loses a client's work.                                 *)
THEOREM IdentitiesMoveWhole == ASSUME NamesApart, Stale = {} PROVE Spec => IdentityMovesWhole
<1>0. Stale \subseteq {"document"}
  OBVIOUS
<1>1. TypeOK /\ ScopeInv /\ SeenAsEntitled /\ SeenAsEntitled' /\ [Next]_vars =>
        [Renamed # {} => \A u \in Consultants :
                           Shown(ws, Table, Scope(u))' = Shown(ws, Table, Scope(u))]_vars
  BY <1>0, RenameSeen
<1>2. TypeOK /\ ScopeInv /\ [Next]_vars => [\A c \in gone' \ gone : WorkOf(ws', c) = {}]_vars
  BY <1>0, ErasedIsEmpty
<1>3. TypeOK /\ ScopeInv /\ TypeOK' /\ ScopeInv' /\ [Next]_vars =>
        [\A c \in Live :
           c \notin gone' => /\ (\E a \in Addrs : ws.doc[a] = c) => \E a \in Addrs : ws'.doc[a] = c
                             /\ ws.rec[c] # None => ws'.rec[c] # None
                             /\ ws.sess[c] # None => ws'.sess[c] # None]_vars
  BY <1>0, DocsKept, RecordsKept, SessionsKept
<1>4. Spec => RenameKeepsAccess
  <2>1. TypeOK /\ ScopeInv => SeenAsEntitled
    BY ShownIsEntitled DEF SeenAsEntitled
  <2> QED  BY <1>0, <1>1, <2>1, ScopeTypeCorrect, ScopeInvariant, PTL DEF Spec, RenameKeepsAccess
<1>5. Spec => ErasedLeavesNothing
  BY <1>0, <1>2, ScopeTypeCorrect, ScopeInvariant, PTL DEF Spec, ErasedLeavesNothing
<1>6. Spec => WorkKept
  BY <1>0, <1>3, ScopeTypeCorrect, ScopeInvariant, PTL DEF Spec, WorkKept
<1> QED  BY <1>4, <1>5, <1>6 DEF IdentityMovesWhole

(* No save of a consultant's touches a client they are not assigned to.    *)
THEOREM ConsultantsStayInside ==
  ASSUME NamesApart, Stale \subseteq {"document"} PROVE Spec => ConsultantsWriteTheirOwn
<1>1. TypeOK /\ ScopeInv /\ [Next]_vars =>
        [ws' # ws => \A u \in Consultants : SaveRecord(u) \/ SaveDoc(u) \/ SaveSession(u) =>
           \A c \in Live \ Entitled(u) : WorkOf(ws', c) = WorkOf(ws, c)]_vars
  BY SavesAreTheirs
<1> QED  BY <1>1, ScopeTypeCorrect, ScopeInvariant, PTL DEF Spec, ConsultantsWriteTheirOwn
================================================================================
