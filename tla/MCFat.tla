-------------------------------- MODULE MCFat --------------------------------
(***************************************************************************)
(* The FAT file system, the file manager over the volumes, and the text    *)
(* under the editors, checked together: every initial state picks a scene, *)
(* one component that then runs alone.  Scene "fat" is FAT itself with its *)
(* refinement; the others are instances whose variables are v1 to v11,     *)
(* those a component does not need 0.                                      *)
(***************************************************************************)
EXTENDS FatFiles, TLC

CONSTANTS notes, folder, draft, empty, small, large

VARIABLES
    scene,
    v1, v2, v3, v4, v5, v6, v7, v8, v9, v10, v11

\* A file and a directory in the root, and a file in the directory; contents
\* of no, of one and of two clusters.
MCNames == {notes, folder, draft}
MCParent == notes :> Root @@ folder :> Root @@ draft :> folder
MCContents == {empty, small, large}
MCLength == empty :> 0 @@ small :> 1 @@ large :> 2

\* A native store, a RAM disk and one port whose disk may be exchanged: twice,
\* or once with another program writing.
Shown(n, m) == [name |-> n, medium |-> m]
ManagerPaths == {<<1>>, <<2>>, <<1, 1>>}
ManagerLayouts ==
    {<<Shown("ram", "R"), Shown("sata0", d)>> : d \in {"A", "B"}} \cup {<<Shown("ram", "R"), Shown("kv", "K")>>}
Manager == INSTANCE FileMgr WITH
    Ram <- "R", Kv <- "K", FatMedia <- {"A", "B"}, ReadOnly <- {},
    Names <- {1, 2}, Paths <- ManagerPaths, Contents <- {"x"},
    Layouts <- ManagerLayouts, MaxGeneration <- 2, MaxWrites <- 0,
    MaxOrders <- 1, vols <- v1, generation <- v2, files <- v3,
    kvMounted <- v4, writable <- v5, panes <- v6, active <- v7, fresh <- v8,
    modal <- v9, writes <- v10, orders <- v11
Shared == INSTANCE FileMgr WITH
    Ram <- "R", Kv <- "K", FatMedia <- {"A", "B"}, ReadOnly <- {},
    Names <- {1, 2}, Paths <- ManagerPaths, Contents <- {"x"},
    Layouts <- ManagerLayouts, MaxGeneration <- 1, MaxWrites <- 1,
    MaxOrders <- 1, vols <- v1, generation <- v2, files <- v3,
    kvMounted <- v4, writable <- v5, panes <- v6, active <- v7, fresh <- v8,
    modal <- v9, writes <- v10, orders <- v11

\* Files on every medium, a directory on one of them.
ManagerFiles ==
    [m \in {"R", "K", "A", "B"} |-> [p \in ManagerPaths |->
        CASE m = "A" /\ p = <<1>> -> Manager!Folder
          [] m = "B" /\ p = <<1>> -> "y"
          [] m = "R" /\ p = <<1>> -> "x"
          [] m = "K" /\ p = <<2>> -> "y"
          [] OTHER -> Manager!None]]
ManagerInit == v3 = ManagerFiles /\ Manager!FmInit
SharedInit == v3 = ManagerFiles /\ Shared!FmInit

\* Two lines of one column with selections, one change kept; then a history of
\* two changes whose revisions wrap later.
Text == INSTANCE TextEdit WITH
    Inputs <- {<<"TAB">>, <<"NL">>, <<"CR">>, <<"BAD">>},
    Files <- {<<"TAB">>}, Queries <- {<<"SPACE">>},
    Replacements <- {<<"NL">>}, NL <- "NL", SPACE <- "SPACE", TAB <- "TAB",
    CR <- "CR", BAD <- "BAD", TABS <- 1, ED_COLS <- 1, ED_CAP <- 3,
    ED_HISTORY_STEPS <- 1, ED_HISTORY_BYTES <- 4, REVISIONS <- 3, NEVER <- -1,
    Anchors <- {0}, text <- v1, caret <- v2, anchor <- v3, dirty <- v4,
    undo <- v5, seen <- v6, stored <- v7
ASSUME TextIsSound == Text!TextSound
Deep == INSTANCE TextEdit WITH
    Inputs <- {<<"TAB">>, <<"BAD">>}, Files <- {<<"TAB">>},
    Queries <- {<<"SPACE">>}, Replacements <- {<<"NL">>}, NL <- "NL",
    SPACE <- "SPACE", TAB <- "TAB", CR <- "CR", BAD <- "BAD", TABS <- 1,
    ED_COLS <- 1, ED_CAP <- 3, ED_HISTORY_STEPS <- 2, ED_HISTORY_BYTES <- 4,
    REVISIONS <- 4, NEVER <- -1, Anchors <- {}, text <- v1, caret <- v2,
    anchor <- v3, dirty <- v4, undo <- v5, seen <- v6, stored <- v7
ASSUME DeepIsSound == Deep!TextSound

-----------------------------------------------------------------------------
From8 == v8 = 0 /\ v9 = 0 /\ v10 = 0 /\ v11 = 0
From1 == v1 = 0 /\ v2 = 0 /\ v3 = 0 /\ v4 = 0 /\ v5 = 0 /\ v6 = 0 /\ v7 = 0 /\ From8
tail8 == <<v8, v9, v10, v11>>
tail1 == <<v1, v2, v3, v4, v5, v6, v7, tail8>>
fatVars == <<vars, tail1, scene>>

FatInit ==
    \/ scene = "fat" /\ Init /\ From1
    \/ scene = "manager" /\ Init /\ ManagerInit
    \/ scene = "shared" /\ Init /\ SharedInit
    \/ scene = "text" /\ Init /\ Text!TextInit /\ From8
    \/ scene = "history" /\ Init /\ Deep!TextInit /\ From8

Volume == scene = "fat" /\ Next /\ UNCHANGED <<scene, tail1>>
ManagerRuns == scene = "manager" /\ Manager!FmNext /\ UNCHANGED <<scene, vars>>
SharedRuns == scene = "shared" /\ Shared!FmNext /\ UNCHANGED <<scene, vars>>
TextChanges == scene = "text" /\ Text!TextNext /\ UNCHANGED <<scene, vars, tail8>>
TextGoesBack == scene = "history" /\ Deep!TextNext /\ UNCHANGED <<scene, vars, tail8>>
FatNext == Volume \/ ManagerRuns \/ SharedRuns \/ TextChanges \/ TextGoesBack
FatSpec == FatInit /\ [][FatNext]_fatVars

-----------------------------------------------------------------------------
\* What the manager orders is what was asked, on the medium that was listed
\* (filemgr.c fm_confirm, fm_input).
ActsAsAsked ==
    [][/\ scene = "manager" => Manager!DoesAsAsked
       /\ scene = "shared" => Shared!DoesAsAsked]_fatVars

\* Undo and redo lead to the text that revision had, and a text called clean
\* is the one stored (textedit.c).
TextTrue ==
    /\ scene = "text" => Text!TextTypeOK /\ Text!UndoExact /\ Text!CleanIsStored
    /\ scene = "history" => Deep!TextTypeOK /\ Deep!UndoExact /\ Deep!CleanIsStored
=============================================================================
