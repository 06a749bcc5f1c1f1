------------------------------ MODULE Editors -------------------------------
(***************************************************************************)
(* The two editors of the desktop over the volumes: kernel/                *)
(* gui_editor_state.h, _save.h, _import.h and _input.h with dev_new and    *)
(* dev_build of gui.c.  Each editor has its document, its dialog and what  *)
(* it believes is stored; the user may turn to the other editor, rescan or *)
(* remount with any dialog open.                                           *)
(*                                                                         *)
(* A text is a token, an edit makes a new one; TextEdit has the texts      *)
(* themselves and the whole history, of which one step is kept here.       *)
(* Volumes on USB accept no write through the table, so the transport      *)
(* generation a destination also carries never decides alone and is left   *)
(* out, as are status lines, carets, scrolling and the normalisation of a  *)
(* loaded text.  The built .kapp has a name no document has.               *)
(*                                                                         *)
(* The operators map a world, the whole state, to the set of worlds the    *)
(* call may leave.                                                         *)
(***************************************************************************)
EXTENDS Volumes

CONSTANTS
    Blank, Template,      \* the texts of a new document
    Typed, NamesTyped,    \* the texts that edits make, the names typed in dialogs
    DevNames,             \* names the workshop accepts
    DefaultName,          \* of a new document, by editor
    Budgets               \* bounds: [gens, edits, writes, note, dev], how often the
                          \* volumes change, a text is typed, files are written
                          \* and a dialog is opened in each editor

VARIABLES
    ed,         \* note_editor, dev_editor
    running,    \* of gui_run
    mask,       \* ed_quit_mask
    budget,     \* what is left of the bounds
    answered    \* history: the text each editor showed when the user chose not to save it

edVars == <<ed, running, mask, budget, answered>>
editorVars == <<volVars, edVars>>

Ed == {"note", "dev"}
Sibling(e) == IF e = "note" THEN "dev" ELSE "note"
NoTarget == [v |-> None]
NoPick == [v |-> None, d |-> <<>>, items |-> {}, file |-> <<>>, gen |-> 0, name |-> 0, on |-> None]

\* What is assumed of the parameters: no volume has the name that stands for
\* none, an autoscan finds a medium once and under a name of its own, and the
\* last component of a path that can be used can be used alone.
Usable(n) == <<n>> \in Paths
EditorsSound ==
    /\ VolumesSound /\ None \notin Labels /\ {Ram, Kv} \cap FatMedia = {}
    /\ \A l \in Layouts : \A i, j \in DOMAIN l :
        i # j => l[i].name # l[j].name /\ l[i].medium # l[j].medium
    /\ Paths \subseteq Seq(Names) \ {<<>>} /\ \A p \in Paths : Usable(Last(p))
    /\ \A n \in NamesTyped : n # 0 => Usable(n)
    /\ \A e \in Ed : Usable(DefaultName[e]) /\ DefaultName[e] # 0
    /\ DefaultName["dev"] \in DevNames

\* A new document: ed_reset with the name, for the workshop dev_new.
NewDoc(e) ==
    [t |-> IF e = "dev" THEN Template ELSE Blank, rev |-> 0, serial |-> 0, older |-> [t |-> Blank, rev |-> -1],
     saved |-> IF e = "dev" THEN -1 ELSE 0,
     name |-> DefaultName[e], named |-> FALSE, imported |-> FALSE,
     ram |-> -1, kv |-> -1, target |-> NoTarget,     \* revisions known to be stored
     doubt |-> FALSE,      \* history: a change of that KvFS file ended unclear since
     mode |-> "edit", pending |-> "none",
     nameIn |-> 0, disk |-> FALSE, pick |-> NoPick]

\* The revision the buffer holds; text_history_reset after a whole new text.
Dirty(E) == E.saved # E.rev
Fresh(E, t) == [E EXCEPT !.t = t, !.rev = 0, !.serial = 0, !.older = [t |-> Blank, rev |-> -1]]

World == [s |-> Now, ed |-> ed, run |-> running, mask |-> mask, ok |-> TRUE]
\* What a closed dialog leaves behind is set anew before it is read again.
Closed(E) == IF E.mode = "edit" THEN [E EXCEPT !.nameIn = 0, !.disk = FALSE, !.pick = NoPick] ELSE E
Turn(w) ==
    /\ Become(w.s) /\ ed' = [e \in Ed |-> Closed(w.ed[e])] /\ running' = w.run /\ mask' = w.mask
    /\ LET spent(x) == IF x THEN 1 ELSE 0 IN
       budget' = [gens |-> budget.gens - spent(w.s.gen # generation),
                  edits |-> budget.edits - spent(\E e \in Ed : w.ed[e].serial > ed[e].serial),
                  writes |-> budget.writes - spent(w.s.files # files),
                  note |-> budget.note - spent(ed["note"].mode = "edit" /\ w.ed["note"].mode # "edit"),
                  dev |-> budget.dev - spent(ed["dev"].mode = "edit" /\ w.ed["dev"].mode # "edit")]
    /\ \A x \in DOMAIN budget : budget'[x] >= 0

Set(w, e, E) == [w EXCEPT !.ed[e] = E]
Mode(w, e, m) == [w EXCEPT !.ed[e].mode = m]
Fail(w) == [w EXCEPT !.ok = FALSE]
OnStore(w, S) == {[w EXCEPT !.s = s] : s \in S}

NameOk(e, n) == n # 0 /\ (e = "note" \/ n \in DevNames)         \* ed_valid_name
Exists(w, n) ==                                                \* ed_exists
    w.s.files[Ram][<<n>>] # None \/ (w.s.kv /\ w.s.files[Kv][<<n>>] # None)

-----------------------------------------------------------------------------
\* Mutant: any writable volume of that name will do.
LiveByPath(w, v, gen) == VfsWritable(w.s, v)

\* ed_target_live
Live(w, v, gen) == gen = w.s.gen /\ VfsWritable(w.s, v)

\* ed_target_changed: the other editor no longer counts on that file, nor on
\* any of its volume when FAT may have another name for it.
Unsure(E) == [E EXCEPT !.saved = -1]
TargetChanged(w, e, v, p) ==
    LET o == Sibling(e)
        t == w.ed[o].target
        alias == Mounted(w.s, v) /\ MediumAt(w.s, v) \in FatMedia /\ t.v = v IN
    IF t.v # None /\ ((t.v = v /\ t.p = p) \/ alias)
    THEN Set(w, o, [Unsure(w.ed[o]) EXCEPT !.target.rev = -1]) ELSE w

TargetOnly(w, e, n, m) == TargetChanged(w, e, IF m = Ram THEN "ram" ELSE "kv", <<n>>)
\* ed_storage_changed: the file n of the RAM disk or of KvFS was written.
StorageChanged(w, e, n, m) ==
    LET x == TargetOnly(w, e, n, m)
        o == Sibling(e)
        O == IF m = Ram THEN [x.ed[o] EXCEPT !.ram = -1] ELSE [x.ed[o] EXCEPT !.kv = -1] IN
    IF O.name # n THEN x
    ELSE Set(x, o, IF O.rev \in {O.ram, O.kv} THEN O ELSE Unsure(O))

-----------------------------------------------------------------------------
\* The file n of KvFS is the old one or the new one, and no editor is told.
Doubted(w, n) ==
    [w EXCEPT !.ed = [o \in Ed |-> [w.ed[o] EXCEPT !.doubt = @ \/ w.ed[o].name = n]]]

\* ramfs_write and kvfs_write, which ed_save_local calls below the table.
RamWritten(s, n, c) == {Ret(s, -3)} \cup Done(s, 1, Put(s, Ram, <<n>>, c))
KvWritten(s, n, c) ==
    {Ret(s, -3)} \cup Done(s, 1, Put(s, Kv, <<n>>, c)) \cup Broken(s, -1, Kv, Put(s, Kv, <<n>>, c))

Stored(E) == [E EXCEPT !.saved = E.rev, !.named = TRUE, !.target = NoTarget]

\* ed_save_local: the RAM disk first, then KvFS when it is mounted.
SaveLocal(w, e) ==
    LET n == w.ed[e].name
        inRam(x) == StorageChanged([x EXCEPT !.ed[e].ram = x.ed[e].rev], e, n, Ram)
        inKv(x) ==
            IF x.s.r = 1
            THEN LET y == StorageChanged([x EXCEPT !.ed[e].kv = x.ed[e].rev, !.ed[e].doubt = FALSE, !.ed[e].imported = FALSE], e, n, Kv)
                 IN Set(y, e, Stored(y.ed[e]))
            ELSE Fail(StorageChanged([x EXCEPT !.ed[e].kv = -1], e, n, Kv)) IN
    UNION {IF x.s.r # 1 THEN {Fail(x)}
           ELSE LET y == inRam(x) IN
                IF y.s.kv THEN {inKv(z) : z \in OnStore(y, KvWritten(y.s, n, y.ed[e].t))}
                ELSE {Set(y, e, Stored([y.ed[e] EXCEPT !.kv = -1]))} :
           x \in OnStore(w, RamWritten(w.s, n, w.ed[e].t))}

\* ed_save_target: only the file at p on volume v, and only while the volume
\* is the one the destination was chosen on.
SaveTarget(w, e, v, p, gen, on) ==
    LET m == MediumAt(w.s, v)
        n == Last(p)
        isAlias == Flat(m) /\ (e = "note" \/ n \in DevNames)
        heard(x) == IF Flat(m) THEN StorageChanged(x, e, n, m) ELSE x
        renamed(E) ==
            IF ~isAlias THEN E
            ELSE LET F == IF E.name # n THEN [E EXCEPT !.ram = -1, !.kv = -1, !.name = n] ELSE E IN
                 IF m = Ram THEN [F EXCEPT !.ram = F.rev] ELSE [F EXCEPT !.kv = F.rev]
        bound(E) ==
            [Stored(E) EXCEPT !.target = [v |-> v, p |-> p, gen |-> gen, rev |-> E.rev, on |-> on],
                              !.imported = E.imported /\ m = Ram]
        done(x) ==
            LET y == heard(x)
                z == TargetChanged(Set(y, e, renamed(y.ed[e])), e, v, p) IN
            Set(z, e, bound(z.ed[e])) IN
    IF ~Live(w, v, gen) \/ VfsStat(w.s, v, p) = Folder THEN {Fail(w)}
    ELSE {IF x.s.r = 1 THEN done(x) ELSE Fail(IF m = Kv /\ x.s.gen # w.s.gen THEN Doubted(x, n) ELSE x) :
          x \in OnStore(w, VfsWrite(w.s, v, p, w.ed[e].t))}

\* ed_save
Save(w, e) ==
    LET t == w.ed[e].target IN
    IF t.v # None THEN SaveTarget(w, e, t.v, t.p, t.gen, t.on) ELSE SaveLocal(w, e)

PromptSave(w, e) ==
    Set(w, e, [w.ed[e] EXCEPT !.mode = "save", !.nameIn = w.ed[e].name])

-----------------------------------------------------------------------------
\* ed_load: from the RAM disk, unless the list was that of KvFS.
Load(w, e, n) ==
    LET E == w.ed[e]
        inRam == ~E.disk /\ w.s.files[Ram][<<n>>] # None
        c == w.s.files[IF inRam THEN Ram ELSE Kv][<<n>>]
        loaded == [Fresh(E, c) EXCEPT
            !.name = n, !.named = TRUE, !.target = NoTarget, !.imported = FALSE, !.saved = 0,
            !.ram = IF w.s.files[Ram][<<n>>] = c THEN 0 ELSE -1, !.kv = IF inRam THEN -1 ELSE 0, !.doubt = FALSE] IN
    IF inRam THEN {Set(w, e, loaded)}
    ELSE IF ~w.s.kv \/ c = None THEN {Fail(w)}
    ELSE {Set(w, e, loaded), Fail(w)}

\* ed_import_list of directory d of v: all of it, or nothing.  A destination
\* notes the store it was chosen on (ed_save_capture).
Listed(w, e, v, d) ==
    LET E == w.ed[e]
        there == Mounted(w.s, v)
        lists == {IF l = NoListing THEN {} ELSE l : l \in VfsReaddir(w.s, v, d)}
        shown(l) == {i \in l : e = "note" \/ E.mode = "dest" \/ i[2] \/ i[1] \in DevNames} IN
    {Set(w, e, [E EXCEPT
        !.pick = [E.pick EXCEPT !.v = IF there THEN v ELSE None, !.d = d, !.file = <<>>, !.items = shown(l)],
        !.nameIn = IF E.mode = "dest" THEN @ ELSE 0]) : l \in lists}
Capture(w, e) ==
    LET v == w.ed[e].pick.v IN
    [w EXCEPT !.ed[e].pick.gen = w.s.gen,
              !.ed[e].pick.on = IF Mounted(w.s, v) THEN MediumAt(w.s, v) ELSE None]

\* ed_import_volume: any volume for a destination, a FAT volume for an import.
Offered(w, e) ==
    {i \in DOMAIN w.s.tab : w.ed[e].mode = "dest" \/ w.s.tab[i].medium \in FatMedia}
OpenVolumes(w, e, ids) ==
    LET entered == IF ids = {} THEN Listed(w, e, None, <<>>)
                  ELSE UNION {Listed(w, e, w.s.tab[i].name, <<>>) : i \in ids} IN
    IF w.ed[e].mode = "dest" THEN {Capture(x, e) : x \in entered} ELSE entered
FirstOf(S) == {i \in S : \A j \in S : i <= j}
OpenFirst(w, e) == OpenVolumes(w, e, FirstOf(Offered(w, e)))

ImportBegin(w, e) == OpenFirst(Mode(w, e, "import"), e)

\* ed_dest_begin: the folder of the destination in use, or the first volume.
DestBegin(w, e) ==
    LET E == w.ed[e]
        n == IF E.target.v # None THEN Last(E.target.p)
             ELSE IF E.mode = "save" /\ E.nameIn # 0 THEN E.nameIn ELSE E.name
        x == Set(w, e, [E EXCEPT !.mode = "dest", !.pick.name = n]) IN
    IF E.target.v # None /\ Live(w, E.target.v, E.target.gen)
    THEN {Capture(y, e) : y \in Listed(x, e, E.target.v, Front(E.target.p))}
    ELSE OpenFirst(x, e)

-----------------------------------------------------------------------------
\* ed_request and ed_continue_quit: what would lose text asks first.
Ask(w, e, action) ==
    Set(w, e, [w.ed[e] EXCEPT !.mode = "dirty", !.pending = action])
ContinueQuit(w) ==
    LET unsaved == {e \in Ed : Dirty(w.ed[e]) /\ e \notin w.mask} IN
    IF unsaved = {} THEN {[w EXCEPT !.run = FALSE]}
    ELSE {w, Ask(w, IF "note" \in unsaved THEN "note" ELSE "dev", "quit")}   \* w: no window left

\* dev_build: a compiled source is saved before the program is published,
\* in KvFS and in the RAM disk.
Build(w, e) ==
    {Fail(w)} \cup
    UNION {IF ~x.ok \/ ~x.s.kv THEN {x}
           ELSE {x} \cup OnStore(x, Broken(x.s, -1, Kv, x.s.files)) : x \in Save(w, e)}

\* ed_do_pending
DoPending(w, e) ==
    LET E == w.ed[e]
        x == Set(w, e, [E EXCEPT !.mode = "edit", !.pending = "none"]) IN
    CASE E.pending = "new" -> {Set(x, e, NewDoc(e))}
      [] E.pending = "open" ->
            {Set(x, e, [x.ed[e] EXCEPT !.mode = "open", !.disk = x.s.kv, !.nameIn = 0])}
      [] E.pending = "import" -> ImportBegin(x, e)
      [] E.pending = "load" -> {IF y.ok THEN y ELSE Mode(y, e, "open") : y \in Load(x, e, E.nameIn)}
      [] E.pending = "quit" -> ContinueQuit([x EXCEPT !.mask = @ \cup {e}])
      [] E.pending = "build" -> Build(x, e)
      [] OTHER -> {x}         \* the window is closed, the document stays
Request(w, e, action) ==
    IF Dirty(w.ed[e]) THEN {Ask(w, e, action)}
    ELSE DoPending([w EXCEPT !.ed[e].pending = action], e)

-----------------------------------------------------------------------------
\* ed_commit_save: a save that fails leaves the document under its old name.
CommitSave(w, e) ==
    LET E == w.ed[e]
        n == E.nameIn
        renamed == [E EXCEPT !.name = n, !.ram = IF n = E.name THEN @ ELSE -1,
                             !.kv = IF n = E.name THEN @ ELSE -1]
        back(F) == [F EXCEPT !.name = E.name, !.mode = "save",
                             !.ram = IF n = E.name THEN @ ELSE E.ram,
                             !.kv = IF n = E.name THEN @ ELSE E.kv] IN
    UNION {IF x.ok THEN DoPending(x, e) ELSE {Set(x, e, back(x.ed[e]))} :
           x \in SaveLocal(Set(w, e, renamed), e)}

\* ed_dest_accept
DestAccept(w, e) ==
    LET k == w.ed[e].pick
        p == Append(k.d, k.name)
        confirmed == w.ed[e].mode = "destReplace"
        again == {Mode(w, e, "dest")} IN
    IF ~Live(w, k.v, k.gen) \/ ~NameOk(e, k.name) \/ p \notin Paths \/ VfsStat(w.s, k.v, k.d) # Folder THEN again
    ELSE IF confirmed /\ p # k.file THEN again
    ELSE IF VfsStat(w.s, k.v, p) = Folder THEN again
    ELSE IF VfsStat(w.s, k.v, p) # None /\ ~confirmed
    THEN {Set(w, e, [w.ed[e] EXCEPT !.mode = "destReplace", !.pick.file = p])}
    ELSE UNION {IF x.ok THEN DoPending(x, e) ELSE {Mode(x, e, "dest")} :
                x \in SaveTarget(w, e, k.v, p, k.gen, k.on)}

\* ed_import_accept: read whole, then written to the RAM disk, then shown.
ImportAccept(w, e) ==
    LET E == w.ed[e]
        k == E.pick
        n == E.nameIn
        back == {Mode(w, e, "import")}
        taken(x, c) ==
            LET y == StorageChanged(x, e, n, Ram) IN
            Set(y, e, [Fresh(y.ed[e], c) EXCEPT
                !.name = n, !.named = TRUE, !.saved = -1, !.mode = "edit", !.pending = "none",
                !.target = NoTarget, !.ram = 0, !.kv = -1, !.imported = TRUE]) IN
    IF k.file = <<>> \/ ~NameOk(e, n) THEN back
    ELSE IF E.mode = "import" /\ Exists(w, n) THEN {Mode(w, e, "importReplace")}
    ELSE UNION {IF c = None THEN back
                ELSE {IF x.s.r = 1 THEN taken(x, c) ELSE Mode(x, e, "import") :
                      x \in OnStore(w, RamWritten(w.s, n, c))} : c \in VfsRead(w.s, k.v, k.file)}

\* The deletion of ed_accept: from KvFS first; the text is kept and unsaved.
DeleteAccept(w, e) ==
    LET n == w.ed[e].name
        onDisk == w.s.kv /\ w.s.files[Kv][<<n>>] # None
        fs == Put(w.s, Kv, <<n>>, None)
        inKv == IF onDisk THEN Done(w.s, 0, fs) \cup Broken(w.s, -1, Kv, fs) ELSE {Ret(w.s, 0)}
        gone(x) ==
            LET y == [x EXCEPT !.s.files = Put(x.s, Ram, <<n>>, None)]
                z == StorageChanged(StorageChanged(y, e, n, Ram), e, n, Kv) IN
            Set(z, e, [Unsure(z.ed[e]) EXCEPT !.ram = -1, !.kv = -1, !.mode = "edit", !.named = FALSE]) IN
    {IF x.s.r = 0 THEN gone(x) ELSE Doubted(x, n) : x \in OnStore(w, inKv)}

\* ed_accept
Accept(w, e) ==
    LET E == w.ed[e]
        m == E.mode IN
    CASE m \in {"dest", "destReplace"} -> DestAccept(w, e)
      [] m \in {"import", "importReplace"} -> ImportAccept(w, e)
      [] m = "dirty" ->
            IF ~E.named THEN {PromptSave(w, e)}
            ELSE UNION {IF x.ok THEN DoPending(x, e) ELSE {x} : x \in Save(w, e)}
      [] m = "overwrite" -> CommitSave(w, e)
      [] m = "delete" -> DeleteAccept(w, e)
      [] m = "open" /\ NameOk(e, E.nameIn) -> DoPending([w EXCEPT !.ed[e].pending = "load"], e)
      [] m = "save" /\ NameOk(e, E.nameIn) ->
            IF Exists(w, E.nameIn) /\ (~E.named \/ E.nameIn # E.name) THEN {Mode(w, e, "overwrite")}
            ELSE CommitSave(w, e)
      [] OTHER -> {w}

\* ed_cancel
Cancel(w, e) ==
    LET m == w.ed[e].mode IN
    CASE m = "destReplace" -> Mode(w, e, "dest")
      [] m = "importReplace" -> Mode(w, e, "import")
      [] m = "overwrite" -> Mode(w, e, "save")
      [] OTHER -> [Set(w, e, [w.ed[e] EXCEPT !.mode = "edit", !.pending = "none"]) EXCEPT !.mask = {}]

-----------------------------------------------------------------------------
\* What the user may do in the window of editor e.
In(e, modes) == running /\ ed[e].mode \in modes
Does(W) == \E w \in W : Turn(w)
Still == UNCHANGED answered

Edited(E, t, rev, n) ==
    [E EXCEPT !.t = t, !.rev = rev, !.serial = n, !.older = [t |-> E.t, rev |-> E.rev]]
Type(e) ==
    /\ In(e, {"edit"})
    /\ \E t \in Typed : Turn(Set(World, e, Edited(ed[e], t, ed[e].serial + 1, ed[e].serial + 1)))
    /\ Still
\* Undo, and undone again, redo.
Undo(e) ==
    /\ In(e, {"edit"}) /\ ed[e].older.rev # -1
    /\ Turn(Set(World, e, Edited(ed[e], ed[e].older.t, ed[e].older.rev, ed[e].serial)))
    /\ Still

SaveButton(e) ==
    /\ In(e, {"edit"})
    /\ Does(IF ed[e].named THEN Save(World, e) ELSE {PromptSave(World, e)})
    /\ Still
SaveAs(e) ==
    /\ In(e, {"edit"})
    /\ Does(IF ed[e].target.v # None THEN DestBegin(World, e) ELSE {PromptSave(World, e)})
    /\ Still
Keep(e) ==
    /\ In(e, {"edit"}) /\ ed[e].imported /\ kvMounted
    /\ Does(SaveLocal(World, e))
    /\ Still
DeleteButton(e) ==       \* the notepad's
    /\ In(e, {"edit"}) /\ e = "note" /\ ed[e].target.v = None
    /\ Turn(Mode(World, e, "delete"))
    /\ Still
Leave(e, action) ==
    /\ In(e, {"edit"})
    /\ Does(Request(World, e, action))
    /\ Still
BuildButton(e) ==        \* ed_build_action
    /\ In(e, {"edit"}) /\ e = "dev"
    /\ Does(IF ~ed[e].named /\ Exists(World, ed[e].name)
            THEN {PromptSave([World EXCEPT !.ed[e].pending = "build"], e)}
            ELSE Build(World, e))
    /\ Still

\* Keys and clicks in the dialogs.
EnterName(e) ==
    /\ In(e, {"save", "open", "import"})
    /\ \E n \in NamesTyped : Turn([World EXCEPT !.ed[e].nameIn = n])
    /\ Still
EnterDestName(e) ==
    /\ In(e, {"dest"})
    /\ \E n \in NamesTyped : Turn([World EXCEPT !.ed[e].pick.name = n])
    /\ Still
ListOther(e) ==
    /\ In(e, {"save", "open"})
    /\ Turn([World EXCEPT !.ed[e].disk = ~@])
    /\ Still
ToDestination(e) ==
    /\ In(e, {"save"})
    /\ Does(DestBegin(World, e))
    /\ Still
NextVolume(e) ==
    /\ In(e, {"dest", "import"})
    /\ \E i \in Offered(World, e) : Does(OpenVolumes(World, e, {i}))
    /\ Still
\* ed_import_refresh: no listing of either editor survives a rescan.
Refresh(e) ==
    /\ In(e, {"dest", "import"})
    /\ \E s \in Rescans(Now) :
        LET Bare(E) == [E EXCEPT !.pick.v = None, !.pick.d = <<>>, !.pick.items = {}, !.pick.file = <<>>] IN
        Does(OpenFirst([World EXCEPT !.s = s, !.ed = [x \in Ed |-> Bare(ed[x])]], e))
    /\ Still
Parent(e) ==
    /\ In(e, {"dest", "import"}) /\ ed[e].pick.d # <<>> /\ Mounted(Now, ed[e].pick.v)
    /\ Does(Listed(World, e, ed[e].pick.v, <<>>))
    /\ Still
Select(e) ==
    /\ In(e, {"dest", "import"})
    /\ \E i \in ed[e].pick.items :
        LET p == Append(ed[e].pick.d, i[1]) IN
        /\ p \in Paths
        /\ Does(IF i[2] THEN Listed(World, e, ed[e].pick.v, p)
                ELSE IF ed[e].mode = "dest"
                THEN {[World EXCEPT !.ed[e].pick.file = p, !.ed[e].pick.name = i[1]]}
                ELSE {[World EXCEPT !.ed[e].pick.file = p, !.ed[e].nameIn = i[1]]})
    /\ Still

Confirm(e) ==
    /\ running /\ ed[e].mode # "edit"
    /\ Does(Accept(World, e))
    /\ Still
Dismiss(e) ==
    /\ running /\ ed[e].mode # "edit"
    /\ Turn(Cancel(World, e))
    /\ Still
Discard(e) ==
    /\ In(e, {"dirty"})
    /\ answered' = [answered EXCEPT ![e] = ed[e].t]
    /\ Does(DoPending(World, e))

\* ed_request_quit, from the menu of the desktop.
Exit ==
    /\ running
    /\ answered' = [e \in Ed |-> None]
    /\ Does(ContinueQuit([World EXCEPT !.mask = {}]))

\* The shell rescans the disks or mounts KvFS.
Shell ==
    /\ running
    /\ \E s \in Rescans(Now) \cup Remounts(Now) : Turn([World EXCEPT !.s = s])
    /\ Still

EdInit ==
    /\ VolumesInit
    /\ ed = [e \in Ed |-> NewDoc(e)]
    /\ running = TRUE /\ mask = {} /\ budget \in Budgets /\ answered = [e \in Ed |-> None]

InEditor(e) ==
    \/ Type(e) \/ Undo(e) \/ SaveButton(e) \/ SaveAs(e) \/ Keep(e) \/ DeleteButton(e) \/ BuildButton(e)
    \/ \E a \in {"new", "open", "import", "close"} : Leave(e, a)
    \/ EnterName(e) \/ EnterDestName(e) \/ ListOther(e) \/ ToDestination(e)
    \/ NextVolume(e) \/ Refresh(e) \/ Parent(e) \/ Select(e)
    \/ Confirm(e) \/ Dismiss(e) \/ Discard(e)
EdNext == Exit \/ Shell \/ \E e \in Ed : InEditor(e)

EdSpec == EdInit /\ [][EdNext]_editorVars

-----------------------------------------------------------------------------
\* Keep wrote a later text over the destination, a file of the RAM disk, and
\* then failed on KvFS: ed_save_local leaves what the editor itself believes of
\* its destination as it was (gui_editor_state.h:138-147).
KeepCutShort(E) ==
    /\ E.imported /\ E.target.on = Ram /\ E.target.p = <<E.name>>
    /\ E.ram # E.target.rev

\* What an editor reports as saved is there: the revision it shows is in the
\* RAM disk, in KvFS or at the destination that is still the one chosen,
\* whatever the other editor saved, imported or deleted under the same name
\* since (ed_storage_changed, ed_target_changed, ed_storage_status).  Two cases
\* are left out, in which the code's status line is wrong: KvFS after a change
\* of that file that ended unclear, which StatusTrue is about, and a
\* destination on the RAM disk after KeepCutShort: Undo then brings back the
\* revision of the last Save As, and the line says "saved" of the file that
\* holds the undone text (gui_editor_state.h:92-97).
SavedIsStored ==
    \A e \in Ed :
        LET E == ed[e] t == E.target IN
        /\ E.ram = E.rev => files[Ram][<<E.name>>] = E.t
        /\ (E.kv = E.rev /\ kvMounted /\ ~E.doubt) => files[Kv][<<E.name>>] = E.t
        /\ (t.v # None /\ Live(World, t.v, t.gen) /\ t.rev = E.rev /\ ~KeepCutShort(E))
            => files[MediumAt(Now, t.v)][t.p] = E.t

\* The status line says "KvFS: saved" of a file that is there: an unclear
\* write is to leave a write error in it, "even when fenced"
\* (docs/STORAGE-M2.md:32, ed_storage_status).
StatusTrue ==
    \A e \in Ed :
        LET E == ed[e] IN
        (E.target.v = None /\ E.kv = E.rev /\ kvMounted) => files[Kv][<<E.name>>] = E.t

\* Only what the user named is written: a save goes to the document's own
\* file, to the destination on the medium it was chosen on or to the name of
\* the dialog, and a file that is not the document's own is replaced only
\* after the question about it (ed_accept, ed_dest_accept, ed_import_accept,
\* ed_save_target); no rescan or remount in between redirects it.
Local(E, m, p) ==
    /\ Flat(m)
    /\ \/ E.mode \in {"edit", "dirty"} /\ p = <<E.name>> /\ (E.named \/ E.imported \/ files[m][p] = None)
       \/ E.mode = "save" /\ p = <<E.nameIn>> /\ (files[m][p] = None \/ (E.named /\ E.name = E.nameIn))
       \/ E.mode = "overwrite" /\ p = <<E.nameIn>>
       \/ E.mode = "delete" /\ p = <<E.name>>
Imports(E, m, p) ==
    m = Ram /\ p = <<E.nameIn>> /\ (E.mode = "importReplace" \/ (E.mode = "import" /\ files[m][p] = None))
Chosen(E, m, p) ==
    \/ E.mode \in {"edit", "dirty"} /\ E.target.v # None /\ E.target.on = m /\ E.target.p = p
    \/ /\ E.pick.on = m /\ p = Append(E.pick.d, E.pick.name)
       /\ (E.mode = "dest" /\ files[m][p] = None) \/ (E.mode = "destReplace" /\ E.pick.file = p)
WritesWhatWasNamed ==
    \A m \in Media : \A p \in Paths : files'[m][p] # files[m][p] =>
        \E e \in Ed : Local(ed[e], m, p) \/ Imports(ed[e], m, p) \/ Chosen(ed[e], m, p)

\* Leaving the desktop asks about the text every editor holds then
\* ("New/open/close/exit protect unsaved text", README.md:231).
ExitAsks == ~running => \A e \in Ed : Dirty(ed[e]) => answered[e] = ed[e].t
=============================================================================
