------------------------------ MODULE FileMgr -------------------------------
(***************************************************************************)
(* The two-pane file manager, kernel/filemgr.c, with the clicks gui.c      *)
(* hands it: two cached listings, one modal question at a time, and the    *)
(* copies, deletions, renames and new directories it orders from the       *)
(* volumes while rescans, remounts and other programs change them.         *)
(*                                                                         *)
(* A listing epoch is only ever compared with the current one: fresh says  *)
(* whether the question's is.  Fields named on are history: the medium a   *)
(* listing or a question was taken from.  Scrolling, free space and        *)
(* wording are left out; a preview is only open or closed.                 *)
(***************************************************************************)
EXTENDS Volumes, FiniteSets

CONSTANTS MaxGeneration, MaxWrites, MaxOrders     \* bounds

VARIABLES
    panes,     \* panes[] and pane_namespace[]
    active,    \* fm_active
    fresh,     \* whether the question was asked over the current listing
    modal,     \* fm_confirm*, fm_input*, fm_view_open
    writes,    \* how often another program changed a file
    orders     \* how often the manager tried to

paneVars == <<panes, active, fresh, modal>>
fmVars == <<volVars, paneVars, writes, orders>>

NoModal == [kind |-> "none"]
Act == panes[active]
Other == panes[3 - active]
Ours == UNCHANGED <<writes, orders>>
Ordered(o) ==
    /\ orders < MaxOrders /\ orders' = orders + 1
    /\ UNCHANGED writes /\ Become(o)

-----------------------------------------------------------------------------
\* name_before: directories first, then by name.
NameBefore(a, b) == IF a[2] # b[2] THEN a[2] ELSE a[1] < b[1]

\* pane_load of pane p from store s: a whole listing of one namespace or
\* nothing at all.
PaneLoads(s, p) ==
    {LET items == IF l = NoListing THEN <<>> ELSE SetToSortSeq(l, NameBefore) IN
        [vol |-> p.vol, dir |-> p.dir, items |-> items,
         sel |-> IF p.sel > Len(items) THEN (IF items = <<>> THEN 1 ELSE Len(items)) ELSE p.sel,
         namespace |-> IF l = NoListing THEN 0 ELSE s.gen,
         on |-> IF Mounted(s, p.vol) THEN MediumAt(s, p.vol) ELSE None] :
     l \in VfsReaddir(s, p.vol, p.dir)}

Relisted == fresh' = FALSE       \* ++listing_epoch
LoadPane(o, ps, i) ==
    /\ Relisted
    /\ \E p \in PaneLoads(o, ps[i]) : panes' = [ps EXCEPT ![i] = p]
PaneGoto(ps, i, v, d) ==
    LoadPane(Now, [ps EXCEPT ![i].vol = v, ![i].dir = d, ![i].sel = 1], i)
LoadBoth(o) ==       \* fm_refresh
    /\ Relisted
    /\ \E p \in PaneLoads(o, panes[1]), q \in PaneLoads(o, panes[2]) : panes' = <<p, q>>

\* The pane with its cursor on the entry called n, if it lists one.
CursorOn(p, n) ==
    LET at == {s \in DOMAIN p.items : p.items[s][1] = n} IN
    IF at = {} THEN p ELSE [p EXCEPT !.sel = CHOOSE s \in at : TRUE]
LoadBothAt(o, n) ==  \* fm_refresh, then the cursor goes to the new name
    /\ Relisted
    /\ \E p \in PaneLoads(o, panes[1]), q \in PaneLoads(o, panes[2]) :
        panes' = [<<p, q>> EXCEPT ![active] = CursorOn(@, n)]

\* fm_listing_current
Current(i) == panes[i].namespace # 0 /\ panes[i].namespace = generation
HasItem(p) == p.sel \in DOMAIN p.items
Item(p) == p.items[p.sel]
\* fm_path: nothing is truncated, a path too long is refused.
PathOf(p, n) == Append(p.dir, n)
PathFits(p) == PathOf(p, Item(p)[1]) \in Paths
SelectedPath == Current(active) /\ HasItem(Act) /\ PathFits(Act)

-----------------------------------------------------------------------------
\* fm_enter of the item selected in pane i, the panes being ps.
Opens(ps, i) ==
    LET p == ps[i]
        path == PathOf(p, Item(p)[1]) IN
    IF ~PathFits(p) THEN panes' = ps /\ UNCHANGED <<modal, fresh>>
    ELSE IF Item(p)[2] THEN PaneGoto(ps, i, p.vol, path) /\ UNCHANGED modal
    ELSE
        /\ \E c \in VfsRead(Now, p.vol, path) :
            modal' = IF c = None THEN NoModal ELSE [kind |-> "view"]
        /\ panes' = ps /\ UNCHANGED fresh

FmEnter ==
    /\ modal = NoModal /\ SelectedPath
    /\ Opens(panes, active)
    /\ Ours /\ UNCHANGED <<volVars, active>>

\* A key or a click that moves the cursor or the focus.
FmMove ==
    /\ modal = NoModal
    /\ \/ active' = 3 - active /\ UNCHANGED panes
       \/ \E s \in DOMAIN Act.items :
            panes' = [panes EXCEPT ![active].sel = s] /\ UNCHANGED active
    /\ Ours /\ UNCHANGED <<volVars, fresh, modal>>

\* files_click on row s of pane i: the second click of a pair opens it.  The
\* clock that makes two clicks a pair is not modelled.
FilesClick(i, s) ==
    /\ modal = NoModal
    /\ Current(i) /\ s \in DOMAIN panes[i].items
    /\ active' = i
    /\ LET ps == [panes EXCEPT ![i].sel = s] IN
       \/ panes' = ps /\ UNCHANGED <<fresh, modal>>
       \/ Opens(ps, i)
    /\ Ours /\ UNCHANGED volVars

\* fm_next_volume: the volume after the one the pane is on.
VolumeAfter(v) ==
    LET cur == {i \in DOMAIN vols : vols[i].name = v}
        at == IF cur = {} THEN 1 ELSE CHOOSE i \in cur : TRUE IN
    vols[(at % Len(vols)) + 1].name
FmNextVolume ==
    /\ modal = NoModal /\ vols # <<>>
    /\ PaneGoto(panes, active, VolumeAfter(Act.vol), <<>>)
    /\ Ours /\ UNCHANGED <<volVars, active, modal>>

FmUpDir ==
    /\ modal = NoModal
    /\ Act.dir # <<>> /\ Mounted(Now, Act.vol)
    /\ PaneGoto(panes, active, Act.vol, Front(Act.dir))
    /\ Ours /\ UNCHANGED <<volVars, active, modal>>

FmRefresh ==
    /\ modal = NoModal
    /\ LoadBoth(Now)
    /\ Ours /\ UNCHANGED <<volVars, active, modal>>

-----------------------------------------------------------------------------
\* fm_copy: the selected file to the other pane, as many bytes as it is said
\* to have read before anything is written.
FmCopy ==
    /\ modal = NoModal
    /\ Current(active) /\ Current(3 - active)
    /\ HasItem(Act) /\ ~Item(Act)[2]
    /\ LET from == PathOf(Act, Item(Act)[1])
           to == PathOf(Other, Item(Act)[1]) IN
        /\ from \in Paths /\ to \in Paths
        /\ <<Act.vol, from>> # <<Other.vol, to>>
        /\ VfsWritable(Now, Other.vol)
        /\ \E c \in VfsReadSized(Now, Act.vol, from) \ {None} :
            \E o \in VfsWrite(Now, Other.vol, to, c) :
                /\ Ordered(o)
                /\ IF o.gen = generation /\ o.r > 0 THEN LoadPane(o, panes, 3 - active)
                   ELSE UNCHANGED <<panes, fresh>>
    /\ UNCHANGED <<active, modal>>

\* fm_delete_ask
FmDeleteAsk ==
    /\ modal = NoModal /\ SelectedPath
    /\ VfsWritable(Now, Act.vol)
    /\ modal' = [kind |-> "delete", vol |-> Act.vol, path |-> PathOf(Act, Item(Act)[1]),
                 namespace |-> Act.namespace, pane |-> active, on |-> Act.on]
    /\ fresh' = TRUE
    /\ Ours /\ UNCHANGED <<volVars, panes, active>>

\* Mutant: the path alone decides.
AskedByPath ==
    /\ SelectedPath
    /\ modal.path = PathOf(Act, Item(Act)[1])

\* fm_confirm_yes with fm_do_delete: only while the listing is the one the
\* question was asked over and the cursor still on the file.
StillAsked ==
    /\ modal.namespace = generation /\ fresh /\ modal.pane = active
    /\ SelectedPath
    /\ modal.vol = Act.vol /\ modal.path = PathOf(Act, Item(Act)[1])
FmConfirmYes ==
    /\ modal.kind = "delete"
    /\ IF ~StillAsked THEN Ours /\ UNCHANGED <<volVars, panes, fresh>>
       ELSE \E o \in VfsRemove(Now, modal.vol, modal.path) :
            /\ Ordered(o)
            /\ IF o.gen # generation \/ o.r = 0 THEN LoadBoth(o) ELSE UNCHANGED <<panes, fresh>>
    /\ modal' = NoModal
    /\ UNCHANGED active

-----------------------------------------------------------------------------
\* fm_input_begin, from fm_ask_rename or fm_ask_mkdir.
Input(kind, from) ==
    [kind |-> kind, vol |-> Act.vol, dir |-> Act.dir, path |-> from,
     name |-> IF from = <<>> THEN 0 ELSE Last(from),
     namespace |-> Act.namespace, pane |-> active, on |-> Act.on]
FmAskRename ==
    /\ modal = NoModal /\ SelectedPath
    /\ ~Item(Act)[2] /\ VfsCanRename(Now, Act.vol)
    /\ modal' = Input("rename", PathOf(Act, Item(Act)[1]))
    /\ fresh' = TRUE
    /\ Ours /\ UNCHANGED <<volVars, panes, active>>
FmAskMkdir ==
    /\ modal = NoModal /\ Current(active) /\ VfsWritable(Now, Act.vol)
    /\ modal' = Input("mkdir", <<>>)
    /\ fresh' = TRUE
    /\ Ours /\ UNCHANGED <<volVars, panes, active>>

\* fm_input_codepoint
FmType ==
    /\ modal.kind \in {"rename", "mkdir"}
    /\ \E n \in Names : modal' = [modal EXCEPT !.name = n]
    /\ Ours /\ UNCHANGED <<volVars, panes, active, fresh>>

\* fm_input_submit: a changed listing closes the dialog, a bad or taken name
\* keeps it, an uncertain outcome closes it and lists again; the cursor goes to
\* the name that was made.
InputStands ==
    /\ modal.namespace = generation /\ fresh /\ modal.pane = active
    /\ modal.vol = Act.vol /\ modal.dir = Act.dir
FmSubmit ==
    /\ modal.kind \in {"rename", "mkdir"}
    /\ IF ~InputStands
       THEN modal' = NoModal /\ Ours /\ UNCHANGED <<volVars, panes, fresh>>
       ELSE
        /\ modal.name # 0 /\ Append(modal.dir, modal.name) \in Paths
        /\ LET to == Append(modal.dir, modal.name) IN
           \E o \in IF modal.kind = "rename" THEN VfsRename(Now, modal.vol, modal.path, to)
                    ELSE VfsMkdir(Now, modal.vol, to) :
            /\ Ordered(o)
            /\ \/ /\ o.gen # generation \/ o.r = -6
                  /\ modal' = NoModal /\ LoadBoth(o)
               \/ /\ o.gen = generation /\ o.r = 0
                  /\ modal' = NoModal /\ LoadBothAt(o, modal.name)
               \/ /\ o.gen = generation /\ o.r \notin {0, -6}
                  /\ UNCHANGED <<modal, panes, fresh>>
    /\ UNCHANGED active

\* Escape, No, or the window is closed; the preview is dismissed.
FmDismiss ==
    /\ modal # NoModal /\ modal' = NoModal
    /\ Ours /\ UNCHANGED <<volVars, panes, active, fresh>>

-----------------------------------------------------------------------------
\* Storage changes behind the manager: the rescan of the shell leaves the
\* panes alone, the one of the editors lists them again; KvFS is mounted anew;
\* other programs write.
ShellRescan ==
    /\ generation < MaxGeneration
    /\ \E o \in Rescans(Now) \cup Remounts(Now) : Become(o)
    /\ UNCHANGED <<paneVars, writes, orders>>
EditorRescan ==
    /\ generation < MaxGeneration
    /\ \E o \in Rescans(Now) : Become(o) /\ LoadBoth(o)
    /\ UNCHANGED <<active, modal, writes, orders>>
OtherWrites ==
    /\ writes < MaxWrites /\ writes' = writes + 1
    /\ \E o \in OtherPrograms(Now) : Become(o)
    /\ UNCHANGED <<paneVars, orders>>

-----------------------------------------------------------------------------
\* fm_init: the panes open on the first and the second volume that is a disk.
Disks == SelectSeq(vols, LAMBDA e : e.medium # Ram)
DefaultVolume(second) ==
    IF second /\ Len(Disks) > 1 THEN Disks[2].name
    ELSE IF Disks # <<>> THEN Disks[1].name ELSE vols[1].name
FmInit ==
    /\ VolumesInit
    /\ active = 1 /\ fresh = FALSE /\ modal = NoModal /\ writes = 0 /\ orders = 0
    /\ \E p \in PaneLoads(Now, [vol |-> DefaultVolume(FALSE), dir |-> <<>>, sel |-> 1]),
          q \in PaneLoads(Now, [vol |-> DefaultVolume(TRUE), dir |-> <<>>, sel |-> 1]) :
        panes = <<p, q>>

FmNext ==
    \/ FmEnter \/ FmMove \/ FmNextVolume \/ FmUpDir \/ FmRefresh
    \/ \E i \in {1, 2}, s \in 1..Cardinality(Names) : FilesClick(i, s)
    \/ FmCopy \/ FmDeleteAsk \/ FmConfirmYes
    \/ FmAskRename \/ FmAskMkdir \/ FmType \/ FmSubmit \/ FmDismiss
    \/ ShellRescan \/ EditorRescan \/ OtherWrites

FmSpec == FmInit /\ [][FmNext]_fmVars

-----------------------------------------------------------------------------
\* What the manager changes is what was asked for, on the medium that was
\* listed when it was asked, however storage was rescanned, remounted or
\* written meanwhile: a deletion takes the file of the question
\* (fm_confirm_yes), a rename or a new directory takes a free name
\* (fm_input_submit), a copy puts the file shown in one pane into the
\* directory shown in the other (fm_copy): all of it, or nothing where its
\* size could not be read, the defect CopyWhole of Shell shows.
Deleted(m, p) == modal.kind = "delete" /\ m = modal.on /\ p = modal.path /\ files'[m][p] = None
Renamed(m, p) ==
    /\ modal.kind = "rename" /\ m = modal.on
    /\ \/ p = modal.path /\ files'[m][p] = None
       \/ /\ p = Append(modal.dir, modal.name) /\ files[m][p] = None
          /\ files'[m][p] = files[m][modal.path]
Created(m, p) ==
    /\ modal.kind = "mkdir" /\ m = modal.on /\ p = Append(modal.dir, modal.name)
    /\ files[m][p] = None /\ files'[m][p] = Folder
Copied(m, p) ==
    /\ modal.kind = "none" /\ HasItem(Act)
    /\ m = Other.on /\ p = PathOf(Other, Item(Act)[1])
    /\ files'[m][p] \in {files[Act.on][PathOf(Act, Item(Act)[1])], Empty}
DoesAsAsked ==
    writes' = writes =>
        \A m \in Media : \A p \in Paths : files'[m][p] # files[m][p] =>
            Deleted(m, p) \/ Renamed(m, p) \/ Created(m, p) \/ Copied(m, p)
ActsAsAsked == [][DoesAsAsked]_fmVars
=============================================================================
