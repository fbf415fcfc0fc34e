-------------------------- MODULE TranscriptRepair --------------------------
(***************************************************************************)
(* The repair of transcripts that an older interview page stored with      *)
(* duplicate entries (deploy/dedupe-lib.mjs, deploy/dedupe-transcripts.mjs)*)
(* and the two ways it is applied: by the script, one transaction a tenant,*)
(* and by a migration the script writes.                                   *)
(*                                                                         *)
(* That page wrote every spoken line twice, the second entry growing while *)
(* the first kept the opening fragment, and on every resume it appended a  *)
(* copy of all that was stored.  An interview has two records: its saved   *)
(* session, which the page goes on writing, and the transcript the server  *)
(* files when it is submitted.  The evidence of a record, its findings and *)
(* score movements, is anchored to a count of entries.                     *)
(*                                                                         *)
(* A word stands for a whole line of one speaker; a line still being       *)
(* spoken is a "part" of it.  "uid" and "said" are history: which line of  *)
(* the conversation an entry stores, and the conversation.                 *)
(***************************************************************************)
EXTENDS Naturals, Sequences, FiniteSets, FiniteSetsExt, SequencesExt

CONSTANTS Words,        \* the lines the two speakers may say
          Openings,     \* pairs of words, the first the beginning of the second
          Blank,        \* the word of an entry without text
          MaxSaid,      \* lines of the conversation
          MaxResumes,   \* times the session is resumed
          MaxAnchors,   \* findings recorded
          MaxAudits,    \* times the operator audits
          Faults        \* what else may happen: a subset of FaultKinds

FaultKinds == {"echo", "short", "late", "grown", "alike", "race"}

ASSUME RepairAssumption ==
    /\ Openings \subseteq (Words \X Words)
    /\ MaxSaid \in Nat /\ MaxResumes \in Nat /\ MaxAnchors \in Nat /\ MaxAudits \in Nat
    /\ Faults \subseteq FaultKinds

MinBlock == 2
MaxPasses == 8
Records == {"session", "transcript"}
None == [none |-> TRUE]
NoIdx == 0

VARIABLES rows,       \* the two records, as stored
          resumes,    \* resumes so far
          audits,     \* audits so far
          backup,     \* what the last audit wrote
          apply,      \* the script's open transaction
          migration   \* the repair written as a migration, not yet run

vars == <<rows, resumes, audits, backup, apply, migration>>

-----------------------------------------------------------------------------
(* The repair of one transcript. *)

Key(e) == <<e.word, e.part>>

SameKeys(s, t) == /\ Len(s) = Len(t)
                  /\ \A i \in DOMAIN s : Key(s[i]) = Key(t[i])

\* The largest block the transcript begins with twice; 0 if there is none.
DoubledPrefix(s) ==
    Max({0} \cup {p \in MinBlock..(Len(s) \div 2) :
                      SameKeys(SubSeq(s, 1, p), SubSeq(s, p + 1, 2 * p))})

Cut(s, from, to) == SubSeq(s, 1, from - 1) \o SubSeq(s, to + 1, Len(s))

\* One pass takes the second copy out; a removal names its entries as they
\* were numbered then, and where the entry it copies stands.
DedupePass(d) ==
    LET p == DoubledPrefix(d.items)
    IN IF p = 0 THEN d
       ELSE [items |-> Cut(d.items, p + 1, 2 * p),
             removed |-> Append(d.removed,
                                [from |-> p + 1, to |-> 2 * p, kind |-> "block"])]

Dedupe(s) == FoldLeft(LAMBDA d, pass : DedupePass(d),
                      [items |-> s, removed |-> <<>>],
                      [pass \in 1..MaxPasses |-> pass])

StartsWith(e, a) == \/ e.word = a.word /\ (a.part \/ ~e.part)
                    \/ <<a.word, e.word>> \in Openings /\ ~a.part

IsFrozenFragment(a, e) == a.word # Blank /\ StartsWith(e, a) /\ a.timed /\ ~e.timed

\* Every fragment is merged into the line after it, which takes its time; a
\* pair is consumed whole ("held" is an entry not yet known to be alone).
CollapseStep(c, e) ==
    IF c.held = None THEN [c EXCEPT !.held = e]
    ELSE IF IsFrozenFragment(c.held, e)
    THEN [items |-> Append(c.items, [e EXCEPT !.timed = TRUE]), held |-> None,
          removed |-> Append(c.removed, [from |-> Len(c.items) + 1,
                                         to |-> Len(c.items) + 1, kind |-> "fragment"])]
    ELSE [c EXCEPT !.items = Append(@, c.held), !.held = e]

CollapseFragments(s) ==
    LET c == FoldLeft(CollapseStep, [items |-> <<>>, held |-> None, removed |-> <<>>], s)
    IN [items |-> IF c.held = None THEN c.items ELSE Append(c.items, c.held),
        removed |-> c.removed]

Repair_swapped(s) ==
    LET c == CollapseFragments(s)
        d == Dedupe(c.items)
    IN [items |-> d.items, removed |-> c.removed \o d.removed]

Repair(s) == LET d == Dedupe(s)
                 c == CollapseFragments(d.items)
             IN [items |-> c.items, removed |-> d.removed \o c.removed]

-----------------------------------------------------------------------------
(* Where the entries went, and the anchors with them. *)

\* An entry that is removed has a twin: the one it copies or grew into.
Twins(live, r) ==
    [i \in r.from..r.to |->
        <<live[i], IF r.kind = "fragment" THEN live[r.to + 1 + (i - r.from)]
                                          ELSE live[i - (r.to - r.from + 1)]>>]

IndexMap(n, removed) ==
    LET all == FoldLeft(LAMBDA m, r : [live |-> Cut(m.live, r.from, r.to),
                                       twins |-> m.twins \cup {Twins(m.live, r)[i] :
                                                               i \in r.from..r.to}],
                        [live |-> [i \in 1..n |-> i], twins |-> {}], removed)
        Follow(i) == IF \E t \in all.twins : t[1] = i
                     THEN (CHOOSE t \in all.twins : t[1] = i)[2] ELSE i
        survivor(i) == FoldLeft(LAMBDA j, pass : Follow(j), i,
                                [pass \in 1..(MaxPasses + 1) |-> pass])
        position(i) == SelectInSeq(all.live, LAMBDA j : j = survivor(i))
    IN [i \in 1..n |-> position(i)]

ShiftAnchor(turn, map) ==
    IF turn \in DOMAIN map /\ map[turn] # 0 THEN map[turn] ELSE turn

RemapEvidence(anchors, map) ==
    [k \in DOMAIN anchors |-> [anchors[k] EXCEPT !.turn = ShiftAnchor(@, map)]]

FixedForWrite(fixed) ==
    [i \in DOMAIN fixed |-> IF fixed[i].idx = NoIdx THEN fixed[i]
                            ELSE [fixed[i] EXCEPT !.idx = i]]

\* The entry an anchor names on the review page: by the entry's own number,
\* by its position if it has none.
PageTurn(turns, turn) ==
    SelectInSeq([i \in DOMAIN turns |-> IF turns[i].idx = NoIdx THEN i ELSE turns[i].idx],
                LAMBDA n : n = turn)

IdxMatchesPosition(turns) == \A i \in DOMAIN turns : turns[i].idx \in {NoIdx, i}

-----------------------------------------------------------------------------
(* The audit's backup of a record, and whether it may be written. *)

Damaged(row) == /\ row # None
                /\ Len(row.turns) >= MinBlock * 2
                /\ Repair(row.turns).removed # <<>>

Backed(row) ==
    LET r == Repair(row.turns)
        map == IndexMap(Len(row.turns), r.removed)
    IN [original |-> row.turns, fixed |-> r.items, map |-> map,
        evidence |-> row.anchors,
        atRisk |-> \E k \in DOMAIN row.anchors :
                       ShiftAnchor(row.anchors[k].turn, map) # row.anchors[k].turn]

Listed(b) == {w \in Records : b[w] # None}

SameWords(a, e) == Key(a) = Key(e)

\* The anchor names the same line after the repair as before, or the whole
\* line of which it named the opening.
AnchorVerified(b, a) ==
    LET fixed == FixedForWrite(b.fixed)
        before == PageTurn(b.original, a.turn)
        after == PageTurn(fixed, ShiftAnchor(a.turn, b.map))
    IN /\ before # 0 /\ after # 0
       /\ \/ SameWords(b.original[before], fixed[after])
          \/ /\ before < Len(b.original)
             /\ IsFrozenFragment(b.original[before], b.original[before + 1])
             /\ SameWords(fixed[after], b.original[before + 1])

VerifyBackup(b) ==
    \A w \in Listed(b) : \A k \in DOMAIN b[w].evidence : AnchorVerified(b[w], b[w].evidence[k])

ApplyPreflight(b, remap) ==
    /\ \A w \in Listed(b) : IdxMatchesPosition(b[w].original)
    /\ remap => VerifyBackup(b)

ApplyDecision_present(b, row) == row # None
ApplyDecision(b, row) == row # None /\ SameKeys(row.turns, b.original)

\* The record once the repair is written over "row".
Repaired(b, row, remap) ==
    [row EXCEPT !.turns = FixedForWrite(b.fixed),
                !.anchors = IF remap THEN RemapEvidence(b.evidence, b.map) ELSE @]

-----------------------------------------------------------------------------
(* The interview. *)

Said == rows["session"].said

\* The script's UPDATE has locked the record, or is about to write it.
Writable(w) ==
    ~ /\ apply # None
      /\ apply.draft[w] # None \/ ("race" \notin Faults /\ apply.read # None /\ Head(apply.todo) = w)

\* What is stored twice at the beginning was not said twice: who knows which line
\* an entry stores takes the same blocks for copies.
CopiesOnly(turns) ==
    LET named == [i \in DOMAIN turns |-> [turns[i] EXCEPT !.word = <<@, turns[i].uid>>]]
    IN Dedupe(turns).removed = Dedupe(named).removed

NoEcho(row) == "echo" \in Faults \/ CopiesOnly(row.turns)

Entry(word, part, timed, uid) ==
    [word |-> word, part |-> part, timed |-> timed, idx |-> NoIdx, uid |-> uid]

Stored(entries, line) ==
    /\ rows["session"] # None
    /\ Writable("session")
    /\ Len(Said) < MaxSaid
    /\ rows' = [rows EXCEPT !["session"].turns = @ \o entries,
                            !["session"].said = Append(@, line)]
    /\ NoEcho(rows'["session"])
    /\ UNCHANGED <<resumes, audits, backup, apply, migration>>

\* A typed or status message is one entry; so is every entry of addMessage.
Types(word) ==
    Stored(<<Entry(word, FALSE, TRUE, Len(Said) + 1)>>, [word |-> word, part |-> FALSE])

\* A spoken line is two, from its first fragment on.
Speaks(word, part) ==
    /\ word # Blank
    /\ Stored(<<Entry(word, part, TRUE, Len(Said) + 1),
                Entry(word, part, FALSE, Len(Said) + 1)>>, [word |-> word, part |-> part])

\* The rest of the line reaches the second entry only.
Grows ==
    /\ rows["session"] # None
    /\ Writable("session")
    /\ LET turns == rows["session"].turns
           n == Len(turns)
       IN /\ n > 0 /\ turns[n].part /\ ~turns[n].timed
          /\ rows' = [rows EXCEPT !["session"].turns[n].part = FALSE,
                                  !["session"].said[Len(Said)].part = FALSE]
    /\ NoEcho(rows'["session"])
    /\ UNCHANGED <<resumes, audits, backup, apply, migration>>

\* A finding is anchored after the last entry.
Finds ==
    /\ rows["session"] # None
    /\ Writable("session")
    /\ LET row == rows["session"]
       IN /\ row.turns # <<>> /\ Len(row.anchors) < MaxAnchors
          /\ rows' = [rows EXCEPT !["session"].anchors =
                         Append(@, [turn |-> Len(row.turns), about |-> Last(row.turns).uid])]
    /\ UNCHANGED <<resumes, audits, backup, apply, migration>>

\* A resume replays the history through addMessage, which stores it again.
Resumes ==
    /\ rows["session"] # None
    /\ Writable("session")
    /\ resumes < MaxResumes
    /\ LET turns == rows["session"].turns
       IN /\ turns # <<>>
          /\ "short" \in Faults \/ Len(turns) >= MinBlock
          /\ rows' = [rows EXCEPT !["session"].turns =
                         @ \o [i \in DOMAIN turns |-> [turns[i] EXCEPT !.timed = TRUE]]]
    /\ NoEcho(rows'["session"])
    /\ resumes' = resumes + 1
    /\ UNCHANGED <<audits, backup, apply, migration>>

\* The server files the entries that hold text, each with its own number.
Submits ==
    /\ rows["session"] # None /\ rows["transcript"] = None
    /\ LET row == rows["session"]
           numbered == [i \in DOMAIN row.turns |-> [row.turns[i] EXCEPT !.idx = i]]
           turns == SelectSeq(numbered, LAMBDA e : e.word # Blank)
       IN /\ turns # <<>>
          /\ rows' = [rows EXCEPT !["transcript"] = [row EXCEPT !.turns = turns]]
    /\ NoEcho(rows'["transcript"])
    /\ UNCHANGED <<resumes, audits, backup, apply, migration>>

\* The interview is deleted with its answers and its transcript.
Erases ==
    /\ \E w \in Records : rows[w] # None
    /\ \A w \in Records : Writable(w)
    /\ rows' = [w \in Records |-> None]
    /\ UNCHANGED <<resumes, audits, backup, apply, migration>>

-----------------------------------------------------------------------------
(* The operator. *)

Audit ==
    LET found == [w \in Records |-> IF Damaged(rows[w]) THEN Backed(rows[w]) ELSE None]
    IN /\ apply = None /\ migration = None
       /\ audits < MaxAudits
       /\ Listed(found) # {} /\ found # backup
       /\ backup' = found
       /\ audits' = audits + 1
       /\ UNCHANGED <<rows, resumes, apply, migration>>

\* The script applies the file that was verified; it reads nothing else first.
Apply(remap) ==
    /\ backup # None /\ apply = None /\ migration = None
    /\ ApplyPreflight(backup, remap)
    /\ apply' = [todo |-> SelectSeq(<<"session", "transcript">>,
                                    LAMBDA w : backup[w] # None),
                 draft |-> [w \in Records |-> None], read |-> None,
                 remap |-> remap]
    /\ UNCHANGED <<rows, resumes, audits, backup, migration>>

\* The record has the words that were audited, and they were said anew.
Alike(w, b) ==
    /\ rows[w] # None /\ SameKeys(rows[w].turns, b[w].original)
    /\ \E i \in DOMAIN b[w].original : rows[w].turns[i].uid # b[w].original[i].uid

\* SELECT: a record whose anchors would move, that is gone or that is no
\* longer the one audited is left alone.
Selects ==
    /\ apply # None /\ apply.todo # <<>> /\ apply.read = None
    /\ LET w == Head(apply.todo)
       IN /\ "alike" \in Faults \/ ~Alike(w, backup)
          /\ IF (backup[w].atRisk => apply.remap) /\ ApplyDecision(backup[w], rows[w])
             THEN apply' = [apply EXCEPT !.read = rows[w]]
             ELSE apply' = [apply EXCEPT !.todo = Tail(@)]
    /\ UNCHANGED <<rows, resumes, audits, backup, migration>>

\* Findings recorded since the audit with no entry stored after it.
LateFinding(w) == rows[w] # None /\ rows[w].anchors # backup[w].evidence

\* UPDATE: a transcript has no UPDATE policy, so only a role that bypasses
\* row-level security finds it; a write that touches no row ends the tenant.
Updates(bypass) ==
    /\ apply # None /\ apply.read # None
    /\ LET w == Head(apply.todo)
           matched == rows[w] # None /\ (w = "transcript" => bypass)
       IN /\ "late" \in Faults \/ ~LateFinding(w)
          /\ IF matched
             THEN apply' = [apply EXCEPT !.draft[w] = Repaired(backup[w], apply.read, apply.remap),
                                         !.todo = Tail(@), !.read = None]
             ELSE apply' = None
    /\ UNCHANGED <<rows, resumes, audits, backup, migration>>

\* "said" is the conversation, not what the script believes it to be.
Commits ==
    /\ apply # None /\ apply.todo = <<>>
    /\ rows' = [w \in Records |-> IF apply.draft[w] = None THEN rows[w]
                                  ELSE [apply.draft[w] EXCEPT !.said = rows[w].said]]
    /\ apply' = None
    /\ UNCHANGED <<resumes, audits, backup, migration>>

Emit(remap) ==
    /\ backup # None /\ apply = None /\ migration = None
    /\ ApplyPreflight(backup, remap)
    /\ migration' = backup
    /\ UNCHANGED <<rows, resumes, audits, backup, apply>>

\* A line that grew in place since the audit.
Grown(w) == /\ rows[w] # None
            /\ Len(rows[w].turns) = Len(migration[w].original)
            /\ ~SameKeys(rows[w].turns, migration[w].original)

\* The migration runs in one transaction: a record that is absent is passed
\* over, one of another length fails the whole file.
Migrate ==
    /\ migration # None
    /\ "late" \in Faults \/ \A w \in Listed(migration) : ~LateFinding(w)
    /\ "grown" \in Faults \/ \A w \in Listed(migration) : ~Grown(w)
    /\ "alike" \in Faults \/ \A w \in Listed(migration) : ~Alike(w, migration)
    /\ LET todo == {w \in Listed(migration) : rows[w] # None}
           fits == \A w \in todo : Len(rows[w].turns) = Len(migration[w].original)
       IN rows' = [w \in Records |-> IF fits /\ w \in todo
                                     THEN Repaired(migration[w], rows[w], TRUE) ELSE rows[w]]
    /\ migration' = None
    /\ UNCHANGED <<resumes, audits, backup, apply>>

-----------------------------------------------------------------------------

Init ==
    /\ rows = [w \in Records |-> IF w = "session" THEN [turns |-> <<>>, anchors |-> <<>>,
                                                        said |-> <<>>] ELSE None]
    /\ resumes = 0 /\ audits = 0
    /\ backup = None /\ apply = None /\ migration = None

Next ==
    \/ \E word \in Words : Types(word)
    \/ \E word \in Words, part \in BOOLEAN : Speaks(word, part)
    \/ Grows
    \/ Finds
    \/ Resumes
    \/ Submits
    \/ Erases
    \/ Audit
    \/ \E remap \in BOOLEAN : Apply(remap)
    \/ Selects
    \/ \E bypass \in BOOLEAN : Updates(bypass)
    \/ Commits
    \/ \E remap \in BOOLEAN : Emit(remap)
    \/ Migrate

Spec == Init /\ [][Next]_vars

-----------------------------------------------------------------------------

Spoken(turns) == [i \in DOMAIN turns |-> [word |-> turns[i].word, part |-> turns[i].part]]

Conversation(w) == IF w = "session" THEN rows[w].said
                   ELSE SelectSeq(rows[w].said, LAMBDA l : l.word # Blank)

\* However often the session was resumed and whatever was repaired before, the
\* repair of a record is the conversation: every line once, whole, in order,
\* repeated lines included, as long as what is stored does not begin with a block
\* that was said twice (NoEcho).  A transcript whose entries are numbered with gaps
\* is refused.  (repair, dedupe, collapseFragments)
RepairIsTheConversation ==
    \A w \in Records : rows[w] # None /\ IdxMatchesPosition(rows[w].turns) =>
        Spoken(Repair(rows[w].turns).items) = Conversation(w)

\* A finding or score movement names the line it was recorded after, on the
\* page that shows it, before a repair and after it.  (indexMap, shiftAnchor,
\* renumberIdx, pageTurn)
AnchorsNameTheirLine ==
    \A w \in Records : rows[w] # None =>
        \A k \in DOMAIN rows[w].anchors :
            LET a == rows[w].anchors[k]
                at == PageTurn(rows[w].turns, a.turn)
            IN rows[w].said[a.about].word # Blank =>
                   at # 0 /\ rows[w].turns[at].uid = a.about

\* The verification has no false alarm: in a record whose entries are numbered
\* without gaps, an anchor that names an entry is never the reason to refuse.
\* (verifyBackup, applyPreflight)
SoundAnchorsAreAccepted ==
    backup # None => \A w \in Listed(backup) :
        IdxMatchesPosition(backup[w].original) =>
            \A k \in DOMAIN backup[w].evidence :
                LET a == backup[w].evidence[k]
                IN PageTurn(backup[w].original, a.turn) # 0 => AnchorVerified(backup[w], a)

\* What was said and found since the audit is not written over: no line and no
\* finding leaves a record that stays.  (applyDecision, the length guards)
Kept(row, after) ==
    /\ {e.uid : e \in Range(row.turns)} \subseteq {e.uid : e \in Range(after.turns)}
    /\ Len(row.anchors) <= Len(after.anchors)

NothingWrittenOver ==
    [][\A w \in Records : rows[w] # None /\ rows'[w] # None => Kept(rows[w], rows'[w])]_vars

\* The repair restores what was said, and what points into it.
RepairIsSound == RepairIsTheConversation /\ AnchorsNameTheirLine /\ SoundAnchorsAreAccepted
=============================================================================
