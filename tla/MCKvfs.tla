-------------------------------- MODULE MCKvfs -------------------------------
(***************************************************************************)
(* KvFS and the programs that keep documents, checked together: every      *)
(* initial state picks a scene, one component that then runs alone.  Scene *)
(* "kvfs" is KvFS itself with its refinement; the installer, the shell and *)
(* the editors are instances whose variables are v1 to v18, those a        *)
(* component does not need 0.                                              *)
(***************************************************************************)
EXTENDS Kvfs, TLC

CONSTANTS n1, n2, c1, c2

VARIABLES scene, v1, v2, v3, v4, v5, v6, v7, v8, v9, v10, v11, v12, v13, v14, v15,
          v16, v17, v18

MCNames == {n1, n2}
MCContents == {c1, c2}
MCLength == c1 :> 1 @@ c2 :> 2

\* A medium with two files and machines with a disk of the smallest size, of
\* one sector less, and with a loader too large.
MCRam == <<[name |-> n1, data |-> c1], [name |-> n2, data |-> c2]>>
MCMachines == {[image |-> 2, disk |-> 3], [image |-> 3, disk |-> 2]}
Installer == INSTANCE Setup WITH
    SECTORS <- 4, PER_SECTOR <- 2, DIR_SECTORS <- 2, MaxFaults <- 1,
    RamFiles <- MCRam, Machines <- MCMachines, RESERVED <- 3, MinDisk <- 3,
    super <- v1, dsk <- v2, body <- v3, dir <- v4, mounted <- v5, call <- v6,
    pc <- v7, k <- v8, reply <- v9, faults <- v10, image <- v11, disk <- v12,
    boot <- v13, step <- v14, keep <- v15, sec <- v16, copied <- v17,
    result <- v18
ASSUME MediaSound == Installer!MediaOK

\* RAM, KvFS and one port whose disk may be exchanged; three kinds of work.
Shown(n, m) == [name |-> n, medium |-> m]
ShellPaths == {<<"f">>, <<"d">>, <<"d", "f">>}
ShellLayouts ==
    {<<Shown("ram", "R"), Shown("sata0", d)>> : d \in {"A", "B"}} \cup {<<Shown("ram", "R"), Shown("kv", "K")>>}
Abs(at) == [abs |-> TRUE, at |-> at]
Rel(at) == [abs |-> FALSE, at |-> at]
One(op, a) == [op |-> op, a |-> a, b |-> Rel(<<>>)]
Two(op, a, b) == [op |-> op, a |-> a, b |-> b]
Work(ls, most, foreign) == [lines |-> ls, commands |-> most, writes |-> foreign]
ShellMenus == <<
    Work({One("vcd", Rel(<<"sata0">>)), One("vcd", Rel(<<"d">>)), One("vcd..", Rel(<<>>)),
          One("vls", Rel(<<>>)), One("vcat", Rel(<<"f">>)), One("rescan", Rel(<<>>)),
          Two("vcp", Rel(<<"f">>), Abs(<<"ram", "d">>)), Two("vcp", Abs(<<"ram", "f">>), Rel(<<"d">>)),
          One("vrm", Rel(<<"f">>)), One("vmkdir", Rel(<<"d">>))}, 3, 0),
    Work({One("install", Rel(<<"f">>)), One("uninstall", Rel(<<"f">>)), One("format", Rel(<<>>)),
          Two("mv", Abs(<<"kv", "f">>), Abs(<<"kv", "d">>)), One("vrm", Abs(<<"kv", "d">>)),
          Two("vcp", Abs(<<"kv", "d">>), Abs(<<"ram", "f">>))}, 2, 1),
    Work({Two("mv", Rel(<<"f">>), Rel(<<"d">>)), Two("cp", Rel(<<"f">>), Rel(<<"d">>)),
          One("touch", Rel(<<"f">>)), One("write", Rel(<<"d">>)), One("rm", Rel(<<"f">>)),
          Two("mv", Rel(<<"d">>), Abs(<<"kv", "d">>))}, 3, 0)>>
Command == INSTANCE Shell WITH
    Ram <- "R", Kv <- "K", FatMedia <- {"A", "B"}, ReadOnly <- {"B"},
    Names <- {"f", "d"}, Paths <- ShellPaths, Contents <- {"x"},
    Layouts <- ShellLayouts, HistMax <- 2, Menus <- ShellMenus,
    MaxRescans <- 1, vols <- v1, generation <- v2, files <- v3,
    kvMounted <- v4, writable <- v5, cwd <- v6, history <- v7,
    histCount <- v8, line <- v9, hpos <- v10, told <- v11, menu <- v12,
    commands <- v13, foreign <- v14, entered <- v15, recalled <- v16
ASSUME CommandsSound == Command!ShellSound

ShellFiles ==
    [m \in {"R", "K", "A", "B"} |-> [p \in ShellPaths |->
        CASE m = "A" /\ p = <<"d">> -> Command!Folder
          [] m \in {"A", "B", "R"} /\ p = <<"f">> -> "x"
          [] m = "K" /\ p = <<"d">> -> "y"
          [] OTHER -> Command!None]]

\* The editors over the same: a rescan or a folder, one text, one editor at a
\* time; and two texts in both while the desktop is left.
EditorPaths == {<<1>>, <<2>>, <<1, 2>>}
EditorLayouts == {<<Shown("ram", "R"), Shown("kv", "K"), Shown("sata0", d)>> : d \in {"A", "B"}}
EditorNames == [note |-> 1, dev |-> 2]
Bounds(g, t, w, n, d) == [gens |-> g, edits |-> t, writes |-> w, note |-> n, dev |-> d]
\* The last is for scene "keeping": a file imported, saved to the RAM disk and
\* kept in KvFS, with no name typed, in the notepad alone; nothing is written to
\* the disk, nothing is opened, deleted or discarded.
KeepingBudgets == {Bounds(0, 1, 1, 2, 0)}
EditorBudgets ==
    {Bounds(1, 0, 1, 1, 0), Bounds(0, 1, 0, 0, 1), Bounds(0, 0, 1, 0, 1)} \cup KeepingBudgets
LeavingBudgets == {Bounds(0, 2, 0, 1, 1)}
StatusBudgets == {Bounds(2, 0, 1, 2, 0)}
Editor == INSTANCE Editors WITH
    Ram <- "R", Kv <- "K", FatMedia <- {"A", "B"}, ReadOnly <- {},
    Names <- {1, 2}, Paths <- EditorPaths, Contents <- {},
    Layouts <- EditorLayouts, Blank <- "blank", Template <- "template",
    Budgets <- EditorBudgets, Typed <- {"t1"}, NamesTyped <- {1, 2}, DevNames <- {2},
    DefaultName <- EditorNames, vols <- v1, generation <- v2, files <- v3,
    kvMounted <- v4, writable <- v5, ed <- v6, running <- v7, mask <- v8,
    budget <- v9, answered <- v10

Leaving == INSTANCE Editors WITH
    Ram <- "R", Kv <- "K", FatMedia <- {"A", "B"}, ReadOnly <- {},
    Names <- {1, 2}, Paths <- EditorPaths, Contents <- {},
    Layouts <- EditorLayouts, Blank <- "blank", Template <- "template",
    Budgets <- LeavingBudgets, Typed <- {"t1", "t2"}, NamesTyped <- {1, 2}, DevNames <- {2},
    DefaultName <- EditorNames, vols <- v1, generation <- v2, files <- v3,
    kvMounted <- v4, writable <- v5, ed <- v6, running <- v7, mask <- v8,
    budget <- v9, answered <- v10

\* Without a disk beside them, but with time to lose KvFS and to mount it again.
Status == INSTANCE Editors WITH
    Ram <- "R", Kv <- "K", FatMedia <- {"A", "B"}, ReadOnly <- {},
    Names <- {1, 2}, Paths <- EditorPaths, Contents <- {},
    Layouts <- {<<Shown("ram", "R"), Shown("kv", "K")>>}, Blank <- "blank", Template <- "template",
    Budgets <- StatusBudgets, Typed <- {"t1"}, NamesTyped <- {1}, DevNames <- {2},
    DefaultName <- EditorNames, vols <- v1, generation <- v2, files <- v3,
    kvMounted <- v4, writable <- v5, ed <- v6, running <- v7, mask <- v8,
    budget <- v9, answered <- v10

ASSUME DocumentsSound == Editor!EditorsSound /\ Leaving!EditorsSound /\ Status!EditorsSound

EditorFiles ==
    [m \in {"R", "K", "A", "B"} |-> [p \in EditorPaths |->
        IF <<m, p>> = <<"B", <<1>>>> THEN Editor!Folder
        ELSE IF <<m, p>> \in {<<"A", <<2>>>>, <<"B", <<1, 2>>>>, <<"K", <<1>>>>} THEN "x" ELSE Editor!None]]
\* With the file that Save As overwrites.
KeepingFiles == [EditorFiles EXCEPT !["R"][<<2>>] = "x"]

-----------------------------------------------------------------------------
\* The loop of find_space; 0 is "no room".
Greatest(S) == CHOOSE x \in S : \A y \in S : x >= y
FindSpaceLoop(d, need) ==
    LET Fits(s) == need <= SECTORS + 1 - s
        Clashes(s) == {i \in Used(d) : Overlap(d[i], s, need)}
        scan[g \in 0 .. KVFS_MAX_FILES, s \in 1 .. SECTORS + 1] ==
            IF ~Fits(s) THEN 0
            ELSE IF Clashes(s) = {} THEN s
            ELSE IF g = KVFS_MAX_FILES THEN 0
            ELSE scan[g + 1, Greatest({End(d[i]) : i \in Clashes(s)})]
    IN  scan[0, 1]

\* It ends at the first fit, for every directory of extents on the disk.
MCExtents == {Free} \cup {e \in {Entry(n1, s, l) : s, l \in Sectors} : End(e) <= SECTORS + 1}
ASSUME LoopIsFirstFit ==
    \A d \in [Slots -> MCExtents], need \in Sectors :
        FindSpace(d, need) = {FindSpaceLoop(d, need)} \ {0}

-----------------------------------------------------------------------------
From17 == v17 = 0 /\ v18 = 0
From11 == v11 = 0 /\ v12 = 0 /\ v13 = 0 /\ v14 = 0 /\ v15 = 0 /\ v16 = 0 /\ From17
From1 == v1 = 0 /\ v2 = 0 /\ v3 = 0 /\ v4 = 0 /\ v5 = 0 /\ v6 = 0 /\ v7 = 0 /\ v8 = 0
    /\ v9 = 0 /\ v10 = 0 /\ From11
tail17 == <<v17, v18>>
tail11 == <<v11, v12, v13, v14, v15, v16, tail17>>
tail1 == <<v1, v2, v3, v4, v5, v6, v7, v8, v9, v10, tail11>>
kvfsVars == <<vars, tail1, scene>>

ShellInit == v3 = ShellFiles /\ Command!ShellInit
EditorInit ==
    /\ v3 \in {EditorFiles, KeepingFiles} /\ Editor!EdInit /\ v1[3].medium = "A"
    /\ scene = "keeping" <=> v3 = KeepingFiles
    /\ scene = "keeping" <=> v9 \in KeepingBudgets
StatusInit == v3 = EditorFiles /\ Status!EdInit
LeavingInit == v3 = EditorFiles /\ Leaving!EdInit /\ v1[3].medium = "A"

StoresInit ==
    \/ scene = "kvfs" /\ Init /\ From1
    \/ scene = "setup" /\ Init /\ Installer!SetupInit
    \/ scene = "shell" /\ Init /\ ShellInit /\ From17
    \/ scene \in {"editors", "keeping"} /\ Init /\ EditorInit /\ From11
    \/ scene = "remount" /\ Init /\ StatusInit /\ From11

Store == scene = "kvfs" /\ Next /\ UNCHANGED <<scene, tail1>>
Installing == scene = "setup" /\ Installer!SetupNext /\ UNCHANGED <<scene, vars>>
ShellRuns == scene = "shell" /\ Command!ShellNext /\ UNCHANGED <<scene, vars, tail17>>
Editing == scene \in {"editors", "keeping"}
EditorsRun ==
    /\ Editing /\ Editor!EdNext /\ UNCHANGED <<scene, vars, tail11>>
    /\ scene = "keeping" =>
        /\ v6'["dev"] = v6["dev"] /\ v6'["note"].mode \notin {"open", "delete", "overwrite", "dirty"}
        /\ v7' /\ v3'["A"] = v3["A"]
        /\ ~Editor!EnterName("note") /\ ~Editor!EnterDestName("note")
RemountRuns == scene = "remount" /\ Status!EdNext /\ UNCHANGED <<scene, vars, tail11>>
StoresNext == Store \/ Installing \/ ShellRuns \/ EditorsRun \/ RemountRuns
StoresSpec == StoresInit /\ [][StoresNext]_kvfsVars

\* One program alone, for the statements of the documentation it does not keep.
SetupAlone == StoresInit /\ scene = "setup" /\ [][Installing]_kvfsVars
ShellAlone == StoresInit /\ scene = "shell" /\ [][ShellRuns]_kvfsVars
LeavingAlone ==
    /\ scene = "editors" /\ Init /\ LeavingInit /\ From11
    /\ [][Leaving!EdNext /\ UNCHANGED <<scene, vars, tail11>>]_kvfsVars
StatusAlone == StoresInit /\ scene = "remount" /\ [][RemountRuns]_kvfsVars

-----------------------------------------------------------------------------
\* "Done" is said of a disk that boots, and nothing but the formatting takes a
\* file away (setup.c setup_install).
SetupSafe == [][scene = "setup" => Installer!FinishesInstalled /\ Installer!LeavesFiles]_kvfsVars

\* A recalled line is the one entered, and what a command says is what
\* happened (shell.c readline, cmd_vcp, cmd_vrm, cmd_install; utilcmds.c).
ShellHonest ==
    /\ [](scene = "shell" => Command!RecallsTheLine)
    /\ [][scene = "shell" => Command!SaysWhatHappened]_kvfsVars

\* What an editor calls saved is stored, and only what the user named is
\* written (gui_editor_state.h, gui_editor_save.h).
EditorsKeepText ==
    /\ [](Editing => Editor!SavedIsStored)
    /\ [](scene = "remount" => Status!SavedIsStored)
    /\ [][Editing => Editor!WritesWhatWasNamed]_kvfsVars
    /\ [][scene = "remount" => Status!WritesWhatWasNamed]_kvfsVars

\* setup.c:165: the files of a KvFS that are to be kept are not formatted away.
KeepsDocuments == Installer!KeepsDocuments

\* shell.c cmd_vcp: a copy that is reported is the whole file.
CopyWhole == Command!CopyWhole

\* README.md: leaving the desktop asks about every text that is not saved.
ExitAsks == Leaving!ExitAsks

\* docs/STORAGE-M2.md:32: what the status line calls saved in KvFS is there.
StatusTrue == Status!StatusTrue
=============================================================================
