------------------------------ MODULE TextEdit ------------------------------
(***************************************************************************)
(* The text model under both editors, kernel/textedit.c: one document, its *)
(* caret and selection, and the delta history behind undo and redo.  A     *)
(* change keeps the removed and the inserted bytes in one shared buffer;   *)
(* old changes are evicted and their bytes shifted out of it.              *)
(*                                                                         *)
(* A position is an offset into the text; the view (top, left) and UTF-8   *)
(* sequences are left out.                                                 *)
(***************************************************************************)
EXTENDS Integers, Sequences

CONSTANTS
    Inputs,         \* what may be typed or pasted
    Files,          \* what may be loaded
    Queries, Replacements,
    NL, SPACE, TAB, CR, BAD,
    TABS,           \* columns of a tab
    ED_COLS, ED_CAP, ED_HISTORY_STEPS,
    ED_HISTORY_BYTES,               \* room for two whole texts at least
    REVISIONS,      \* the revision counter wraps here
    NEVER,          \* saved = ~0, which no revision reaches: none is saved
    Anchors         \* bound: where a selection may be started

VARIABLES
    text, caret, anchor,    \* textdoc_t; the anchor is -1 when nothing is being selected
    dirty,
    undo,                   \* textundo_t
    seen,                   \* history: the text each revision was given
    stored                  \* history: the text last loaded from or saved to a file

textVars == <<text, caret, anchor, dirty, undo, seen, stored>>

\* A query has at least one byte, and every text fits into the history twice.
TextSound ==
    /\ \A s \in Inputs \cup Files \cup Queries \cup Replacements : s \in Seq({s[i] : i \in DOMAIN s})
    /\ \A q \in Queries : q # <<>>
    /\ SPACE \notin {TAB, CR, BAD}
    /\ TABS \in Nat /\ ED_COLS \in Nat /\ ED_CAP \in Nat \ {0} /\ ED_HISTORY_STEPS \in Nat \ {0}
    /\ ED_HISTORY_BYTES \in Nat /\ 2 * (ED_CAP - 1) <= ED_HISTORY_BYTES
    /\ REVISIONS \in Nat \ {0} /\ NEVER \notin 0 .. REVISIONS

-----------------------------------------------------------------------------
\* normalize: tabs become spaces, carriage returns go.
Expanded(c) == IF c = TAB THEN [i \in 1 .. TABS |-> SPACE] ELSE IF c = CR THEN <<>> ELSE <<c>>
Normalised(s) ==
    LET to[k \in 0 .. Len(s)] == IF k = 0 THEN <<>> ELSE to[k - 1] \o Expanded(s[k]) IN to[Len(s)]
LinesFit(s) ==
    \A i, j \in DOMAIN s :
        (i <= j /\ \A k \in i .. j : s[k] # NL) => j - i < ED_COLS
Accepted(s) ==
    /\ \A i \in DOMAIN s : s[i] # BAD
    /\ Len(Normalised(s)) < ED_CAP /\ LinesFit(Normalised(s))

Spliced(s, at, removed, inserted) ==
    SubSeq(s, 1, at) \o inserted \o SubSeq(s, at + removed + 1, Len(s))

Selected == anchor >= 0 /\ anchor # caret
From == IF Selected /\ anchor < caret THEN anchor ELSE caret
To == IF Selected /\ anchor > caret THEN anchor ELSE caret

-----------------------------------------------------------------------------

\* text_history_reset
HistoryReset(d) ==
    [changes |-> <<>>, data |-> <<>>, cursor |-> 0, serial |-> 0, current |-> 0,
     saved |-> IF d THEN NEVER ELSE 0]

Mark(revision) == [caret |-> caret, anchor |-> anchor, revision |-> revision]
\* The bytes of the first k changes, for every k.
Bytes(changes) ==
    LET sum[k \in 0 .. Len(changes)] ==
            IF k = 0 THEN 0 ELSE sum[k - 1] + changes[k].removed + changes[k].inserted IN
    sum

\* The history u with other changes and other bytes.
Holding(u, changes, data) ==
    [changes |-> changes, data |-> data, cursor |-> u.cursor, serial |-> u.serial,
     current |-> u.current, saved |-> u.saved]

\* history_push: the redo branch goes, with its bytes.
Branched(u) ==
    IF u.cursor < Len(u.changes)
    THEN Holding(u, SubSeq(u.changes, 1, u.cursor), SubSeq(u.data, 1, u.changes[u.cursor + 1].data))
    ELSE u

\* The least number of old changes to evict before `bytes` more fit.
ToEvict(u, bytes) ==
    LET count == Len(u.changes)
        Fits(k) == /\ count - k < ED_HISTORY_STEPS
                   /\ Len(u.data) - Bytes(u.changes)[k] + bytes <= ED_HISTORY_BYTES
    IN  CHOOSE k \in 0 .. count :
            (k = count \/ Fits(k)) /\ \A j \in 0 .. k - 1 : ~Fits(j)

\* Mutant: the bytes are shifted, the changes still point where they were.
EvictedUnshifted(u, bytes) ==
    LET k == ToEvict(u, bytes)
        cut == Bytes(u.changes)[k]
    IN  Holding(u, SubSeq(u.changes, k + 1, Len(u.changes)), SubSeq(u.data, cut + 1, Len(u.data)))

Evicted(u, bytes) ==
    LET k == ToEvict(u, bytes)
        cut == Bytes(u.changes)[k]
    IN  Holding(u, [i \in 1 .. Len(u.changes) - k |-> [u.changes[i + k] EXCEPT !.data = @ - cut]],
                SubSeq(u.data, cut + 1, Len(u.data)))

First(t) == [r \in 0 .. REVISIONS |-> IF r = 0 THEN t ELSE <<>>]

\* text_replace after its checks: the change is pushed, the text rebuilt.
Replace(from, to, inserted, caret_after) ==
    LET wraps == undo.serial >= REVISIONS - 1
        u == IF wraps THEN HistoryReset(dirty) ELSE undo
        room == Evicted(Branched(u), to - from + Len(inserted))
        revision == u.serial + 1
        change == [at |-> from, removed |-> to - from, inserted |-> Len(inserted),
                   data |-> Len(room.data), before |-> Mark(u.current),
                   after |-> [caret |-> caret_after, anchor |-> -1, revision |-> revision]]
    IN  /\ text' = Spliced(text, from, to - from, inserted)
        /\ caret' = caret_after /\ anchor' = -1 /\ dirty' = TRUE
        /\ undo' = [changes |-> Append(room.changes, change), cursor |-> Len(room.changes) + 1,
                    data |-> room.data \o SubSeq(text, from + 1, to) \o inserted,
                    serial |-> revision, current |-> revision, saved |-> room.saved]
        /\ seen' = [(IF wraps THEN First(text) ELSE seen) EXCEPT ![revision] = text']
        /\ UNCHANGED stored

Replaceable(from, to, s) ==
    /\ Len(s) < ED_CAP /\ Len(text) - (to - from) + Len(s) < ED_CAP
    /\ Accepted(Spliced(text, from, to - from, s))

-----------------------------------------------------------------------------
\* text_replace of the selection or at the caret: typing, pasting, cutting.
TextReplace(s) ==
    /\ Replaceable(From, To, s)
    /\ From # To \/ Normalised(s) # <<>>
    /\ Replace(From, To, Normalised(s), From + Len(Normalised(s)))

\* text_delete of one character, joining lines at a line's end or start.
TextDelete(backwards) ==
    /\ ~Selected
    /\ LET at == IF backwards THEN caret - 1 ELSE caret
       IN  /\ at >= 0 /\ at < Len(text)
           /\ Replaceable(at, at + 1, <<>>)
           /\ Replace(at, at + 1, <<>>, at)

Matches(q, at) == at + Len(q) <= Len(text) /\ SubSeq(text, at + 1, at + Len(q)) = q

\* The scan of text_replace_all: matches do not overlap.
AllReplaced(q, s) ==
    LET scan[k \in 0 .. Len(text)] ==
            IF k = 0 THEN [at |-> 0, out |-> <<>>]
            ELSE LET d == scan[k - 1] IN
                 IF d.at = Len(text) THEN d
                 ELSE IF Matches(q, d.at) THEN [at |-> d.at + Len(q), out |-> d.out \o s]
                 ELSE [at |-> d.at + 1, out |-> Append(d.out, text[d.at + 1])]
    IN  scan[Len(text)].out

TextReplaceAll(q, s) ==
    LET new == AllReplaced(q, s)
        length == Len(Normalised(new))
    IN  /\ new # text
        /\ Replaceable(0, Len(text), new)
        /\ Replace(0, Len(text), Normalised(new), IF caret > length THEN length ELSE caret)

\* history_apply
Apply(c, gone, payload, mark, cursor) ==
    /\ text' = Spliced(text, c.at, gone, payload)
    /\ caret' = mark.caret /\ anchor' = mark.anchor
    /\ dirty' = (mark.revision # undo.saved)
    /\ undo' = [[undo EXCEPT !.current = mark.revision] EXCEPT !.cursor = cursor]
    /\ UNCHANGED <<seen, stored>>

TextUndo ==
    /\ undo.cursor > 0
    /\ LET c == undo.changes[undo.cursor]
       IN  Apply(c, c.inserted, SubSeq(undo.data, c.data + 1, c.data + c.removed), c.before, undo.cursor - 1)

TextRedo ==
    /\ undo.cursor < Len(undo.changes)
    /\ LET c == undo.changes[undo.cursor + 1]
           first == c.data + c.removed
       IN  Apply(c, c.removed, SubSeq(undo.data, first + 1, first + c.inserted), c.after, undo.cursor + 1)

TextSaved ==
    /\ dirty
    /\ undo' = [undo EXCEPT !.saved = undo.current] /\ dirty' = FALSE
    /\ stored' = text
    /\ UNCHANGED <<text, caret, anchor, seen>>

\* ed_storage_changed, ed_target_changed: the other editor wrote the file.
StorageChanged ==
    /\ ~dirty
    /\ undo' = [undo EXCEPT !.saved = NEVER] /\ dirty' = TRUE
    /\ UNCHANGED <<text, caret, anchor, seen, stored>>

\* ed_load: text_set with a fresh history; dev_new: the same, never saved.
EdLoad(s, template) ==
    /\ Len(s) < ED_CAP /\ Accepted(s)
    /\ text' = Normalised(s) /\ caret' = 0 /\ anchor' = -1 /\ dirty' = template
    /\ undo' = HistoryReset(dirty') /\ stored' = IF template THEN stored ELSE text'
    /\ seen' = First(text')

\* A caret move, with or without shift held.
Move(to, select) ==
    /\ to # caret
    /\ select /\ anchor < 0 => caret \in Anchors
    /\ caret' = to
    /\ anchor' = IF ~select THEN -1 ELSE IF anchor >= 0 THEN anchor ELSE caret
    /\ UNCHANGED <<text, dirty, undo, seen, stored>>

-----------------------------------------------------------------------------
TextInit ==
    /\ text = <<>> /\ caret = 0 /\ anchor = -1 /\ dirty = FALSE
    /\ undo = HistoryReset(FALSE)
    /\ seen = First(<<>>) /\ stored = <<>>

TextNext ==
    \/ \E s \in Inputs : TextReplace(s)
    \/ \E backwards \in BOOLEAN : TextDelete(backwards)
    \/ \E q \in Queries, s \in Replacements : TextReplaceAll(q, s)
    \/ TextUndo \/ TextRedo \/ TextSaved \/ StorageChanged
    \/ \E s \in Files, template \in BOOLEAN : EdLoad(s, template)
    \/ \E to \in 0 .. Len(text), select \in BOOLEAN : Move(to, select)

TextSpec == TextInit /\ [][TextNext]_textVars

-----------------------------------------------------------------------------
TextTypeOK ==
    /\ Len(text) < ED_CAP /\ LinesFit(text)
    /\ caret \in 0 .. Len(text) /\ anchor \in -1 .. Len(text)
    /\ dirty \in BOOLEAN
    /\ undo.cursor \in 0 .. Len(undo.changes) /\ Len(undo.changes) <= ED_HISTORY_STEPS
    /\ Len(undo.data) <= ED_HISTORY_BYTES /\ Len(undo.data) = Bytes(undo.changes)[Len(undo.changes)]
    /\ undo.serial \in 0 .. REVISIONS /\ undo.current \in 0 .. undo.serial
    /\ undo.saved \in 0 .. REVISIONS \cup {NEVER}

\* However edits, undos, redos, branches and evictions alternate, the document
\* is the text its revision had when it was made, with the caret and the
\* anchor inside it: undo and redo restore exactly.
UndoExact ==
    text = seen[undo.current] /\ caret <= Len(text) /\ anchor <= Len(text)

\* A document shown as unmodified is the text last saved or loaded, also after
\* undo, a branch that drops the saved revision, an eviction or a wrap.
CleanIsStored == ~dirty => text = stored
=============================================================================
