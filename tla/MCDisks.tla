------------------------------- MODULE MCDisks -------------------------------
(***************************************************************************)
(* What the drivers keep on disks and read from them, checked together:    *)
(* every initial state picks a scene, one component that then runs alone.  *)
(* In scene "cache" it is the undo log itself, over a reordering cache,    *)
(* with its fairness and its refinement; the others are instances whose    *)
(* variables are v1 to v19, those a component does not need 0.             *)
(***************************************************************************)
EXTENDS SectorTxInv, TLC

CONSTANTS t1, t2, d0, d1, d2

VARIABLES scene, v1, v2, v3, v4, v5, v6, v7, v8, v9, v10, v11, v12, v13, v14, v15,
          v16, v17, v18, v19

MCTargets == {t1, t2}
MCData == {d0, d1}
MCDataTorn == {d0, d1, d2}
MCTorn == {d2}

\* The log of a volume without a journal, in RAM only.
Ram == INSTANCE SectorTx WITH
    Targets <- MCTargets, Data <- MCData, Torn <- {}, STX_MAX <- 2,
    Durable <- FALSE, HeaderTears <- FALSE, MaxFaults <- 2, tgt <- v1,
    tposs <- v2, slot <- v3, sposs <- v4, hdr <- v5, hposs <- v6, log <- v7,
    active <- v8, failed <- v9, closing <- v10, op <- v11, pc <- v12,
    arg <- v13, idx <- v14, fenced <- v15, faults <- v16, base <- v17,
    want <- v18, point <- v19

\* The log on a device that may tear a sector, the header included.
Tear == INSTANCE SectorTxInv WITH
    Targets <- MCTargets, Data <- MCDataTorn, Torn <- MCTorn, STX_MAX <- 1,
    Durable <- TRUE, HeaderTears <- TRUE, MaxFaults <- 2, tgt <- v1,
    tposs <- v2, slot <- v3, sposs <- v4, hdr <- v5, hposs <- v6, log <- v7,
    active <- v8, failed <- v9, closing <- v10, op <- v11, pc <- v12,
    arg <- v13, idx <- v14, fenced <- v15, faults <- v16, base <- v17,
    want <- v18, point <- v19

\* A directory of four names, three of which share the first six characters.
MCNames == [long |-> [short |-> <<"LONG", 0>>, parts |-> 2],
            lengthy |-> [short |-> <<"LONG", 0>>, parts |-> 1],
            short |-> [short |-> <<"A", 0>>, parts |-> 0],
            tilde |-> [short |-> <<"LONG", 1>>, parts |-> 0]]
EndMark == [kind |-> "end"]
Stale == [kind |-> "entry", short |-> <<"STALE", 0>>]
Left(order, last) ==
    [kind |-> "fragment", order |-> order, last |-> last, sum |-> <<"GONE", 0>>, name |-> "gone"]
MCFound == {<<EndMark, Stale>>, <<[kind |-> "deleted"], EndMark, Stale, Stale>>,
            <<Left(2, TRUE), Left(1, FALSE), EndMark, Stale>>,
            <<Left(2, TRUE), [kind |-> "deleted"], Stale, EndMark>>,
            <<[Left(1, TRUE) EXCEPT !.sum = <<"LONG", 0>>], [Stale EXCEPT !.short = <<"LONG", 0>>], EndMark, Stale>>}
Dir == INSTANCE FatDir WITH
    DirNames <- MCNames, Found <- MCFound, PER <- 2, MaxSlots <- 8,
    LastTail <- 2, slots <- v1, fixed <- v2, listed <- v3
ASSUME DirIsSound == Dir!DirSound

\* Volumes with a log: five clusters, the root at 2, the log in 3 and 4; the
\* FATs, what the log saved of them and the directories each differ from a
\* sound volume in at most one place.
LogAt == <<3, 4>>
Sound == 2 :> 99 @@ 3 :> 4 @@ 4 :> 99 @@ 5 :> 99 @@ 6 :> 0
Maps == {[Sound EXCEPT ![c] = n] : c \in {2, 3, 4, 5, 6}, n \in {0, 3, 4, 5, 6, 99}}
Few == {Sound, [Sound EXCEPT ![6] = 99], [Sound EXCEPT ![5] = 3], [Sound EXCEPT ![5] = 6], [Sound EXCEPT ![4] = 0]}

Owner == [cluster |-> 3, dir |-> FALSE, owner |-> TRUE, good |-> TRUE]
Entry(c, d) == [cluster |-> c, dir |-> d, owner |-> FALSE, good |-> FALSE]
Root(es) == 2 :> es @@ 5 :> <<>> @@ 6 :> <<>>
Tree == Root(<<Owner, Entry(5, TRUE)>>)
Trees == {Tree, Root(<<Entry(5, FALSE)>>), Root(<<Owner, Entry(4, FALSE)>>), Root(<<Owner, Owner>>),
          Root(<<[Owner EXCEPT !.good = FALSE]>>), Root(<<Entry(5, TRUE), Owner, Entry(5, TRUE)>>),
          [Tree EXCEPT ![5] = <<Entry(3, FALSE)>>], [Tree EXCEPT ![5] = <<Owner>>], [Tree EXCEPT ![5] = <<[Owner EXCEPT !.cluster = 6]>>],
          [Tree EXCEPT ![5] = <<Entry(6, TRUE)>>], [Tree EXCEPT ![5] = <<Entry(0, FALSE), Entry(7, TRUE)>>]}

Saved(fs) == [fats |-> fs, dirs |-> <<>>]
Vol(fs, es, u) == [fats |-> fs, entries |-> es, undo |-> u, header |-> TRUE, dirty |-> FALSE]
Whole == Vol(<<Sound, Sound>>, Tree, Saved(<<>>))
LogDrives ==
    {Vol(<<a, b>>, Tree, Saved(u)) : a \in Maps, b \in Few,
        u \in {<<>>} \cup {1 :> m : m \in Few} \cup {2 :> m : m \in Few} \cup {1 :> m @@ 2 :> m : m \in Maps}}
    \cup {[Vol(<<Sound, Sound>>, t, [fats |-> u, dirs |-> d]) EXCEPT !.header = h, !.dirty = x] :
            t \in Trees, u \in {<<>>, 1 :> Sound}, h \in BOOLEAN, x \in BOOLEAN,
            d \in {<<>>} \cup {2 :> r[2] : r \in Trees} \cup {5 :> <<Entry(4, FALSE)>>, 5 :> <<>>}}

LogFile == INSTANCE Wal WITH
    Clusters <- {2, 3, 4, 5, 6}, RootDir <- 2, Log <- LogAt,
    Volumes <- LogDrives, MaxDirs <- 3, MaxWalFaults <- 1, fats <- v1,
    entries <- v2, undo <- v3, header <- v4, dirty <- v5, state <- v6,
    walFaults <- v7

ND == INSTANCE NtfsDrives
Drive == INSTANCE Ntfs WITH
    Drives <- ND!Drives, MaxRead <- 4, MaxFailures <- 1, volume <- v1,
    mftRuns <- v2, listing <- v3, reading <- v4, failures <- v5

\* The same on a volume whose file has a named stream as well.
Stream == INSTANCE Ntfs WITH
    Drives <- ND!Streams, MaxRead <- 4, MaxFailures <- 0, volume <- v1,
    mftRuns <- v2, listing <- v3, reading <- v4, failures <- v5

PD == INSTANCE PartitionDisks
Scan == INSTANCE Partitions WITH
    Disks <- PD!Drives, Word <- 256, Unit <- 8, EntrySize <- 4, MinGpt <- 68,
    MinClusters <- 3, Fat32Clusters <- 10, MaxFat <- 4, MaxNtfs <- 2,
    MaxVolumes <- 5, MaxLinks <- 4, MaxBlocks <- 1, disk <- v1, bad <- v2,
    scanned <- v3, vols <- v4

ASSUME TablesTyped == Scan!DisksSound /\ LogFile!VolumesSound /\ Drive!NtfsSound
-----------------------------------------------------------------------------
From8 == v8 = 0 /\ v9 = 0 /\ v10 = 0 /\ v11 = 0 /\ v12 = 0 /\ v13 = 0 /\ v14 = 0 /\ v15 = 0
    /\ v16 = 0 /\ v17 = 0 /\ v18 = 0 /\ v19 = 0
From6 == v6 = 0 /\ v7 = 0 /\ From8
From5 == v5 = 0 /\ From6
From4 == v4 = 0 /\ From5
From1 == v1 = 0 /\ v2 = 0 /\ v3 = 0 /\ From4
tail8 == <<v8, v9, v10, v11, v12, v13, v14, v15, v16, v17, v18, v19>>
tail6 == <<v6, v7, tail8>>
tail5 == <<v5, tail6>>
tail4 == <<v4, tail5>>
tail1 == <<v1, v2, v3, tail4>>
diskVars == <<vars, tail1, scene>>

\* The log before anything happened, while another component runs.
AtRest == Init /\ tgt = [l \in Targets |-> d0]

DisksInit ==
    \/ scene = "cache" /\ Init /\ From1
    \/ scene = "ram" /\ AtRest /\ Ram!Init
    \/ scene = "torn" /\ AtRest /\ Tear!Init
    \/ scene = "dir" /\ AtRest /\ Dir!DirInit /\ From4
    \/ scene = "wal" /\ AtRest /\ LogFile!WalInit /\ From8
    \/ scene = "ntfs" /\ AtRest /\ Drive!NtfsInit /\ From6
    \/ scene = "scan" /\ AtRest /\ Scan!ScanInit /\ From5

Cache == scene = "cache" /\ Next /\ UNCHANGED <<scene, tail1>>
RamLog == scene = "ram" /\ Ram!Next /\ UNCHANGED <<scene, vars>>
TornLog == scene = "torn" /\ Tear!Next /\ UNCHANGED <<scene, vars>>
Directory == scene = "dir" /\ Dir!DirNext /\ UNCHANGED <<scene, vars, tail4>>
OwnedLog == scene = "wal" /\ LogFile!WalNext /\ UNCHANGED <<scene, vars, tail8>>
NtfsVolume == scene = "ntfs" /\ Drive!NtfsNext /\ UNCHANGED <<scene, vars, tail6>>
Autoscan == scene = "scan" /\ Scan!ScanNext /\ UNCHANGED <<scene, vars, tail5>>
DisksNext == Cache \/ RamLog \/ TornLog \/ Directory \/ OwnedLog \/ NtfsVolume \/ Autoscan

\* The fairness of the log's FairSpec.
DisksSpec ==
    /\ DisksInit /\ [][DisksNext]_diskVars
    /\ WF_diskVars(scene = "cache" /\ Step /\ UNCHANGED <<scene, tail1>>)
    /\ WF_diskVars(scene = "cache" /\ StxRecover /\ UNCHANGED <<scene, tail1>>)

\* The volume with a named stream alone.
StreamInit == scene = "stream" /\ AtRest /\ Stream!NtfsInit /\ From6
StreamNext == Stream!NtfsNext /\ UNCHANGED <<scene, vars, tail6>>
StreamSpec == StreamInit /\ [][StreamNext]_diskVars

-----------------------------------------------------------------------------
\* Without a journal: a mounted volume with no operation open shows the image
\* before or after the last one, never a mixture (stx_abort, stx_commit).
\* With torn sectors the invariant the proofs rest on still holds: recovery
\* refuses a torn journal header and never restores a mixture (stx_load).
LogVariantsSafe ==
    /\ scene = "ram" => Ram!PublishedWhole
    /\ scene = "torn" => Tear!IInv

\* The directory lists its files, each under its own name (fat.c walk_dir).
DirectoryListsFiles == scene = "dir" => Dir!ListsItsFiles

\* A volume is shown only when its FATs and its log agree, and the log
\* used is the one its own directory owns (fat_wal.h).
LogIsItsOwn ==
    /\ [](scene = "wal" => LogFile!ShownIsWhole)
    /\ [][scene = "wal" => LogFile!KeepsToLog]_diskVars

\* What NTFS returns is what the volume holds (ntfs.c read_attr, walk_index).
NtfsTrue == scene = "ntfs" => Drive!ReadsTrue /\ Drive!ListsTrue

\* The same property on a volume whose file has a named stream.
StreamsReadTrue == Stream!ReadsTrue

\* Volumes are mounted inside their disk and as a valid GPT says (partition.c).
VolumesWithinDisk == scene = "scan" => Scan!MountsInside /\ Scan!GptHonoured
=============================================================================
