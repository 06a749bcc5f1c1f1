--------------------------------- MODULE Wal ---------------------------------
(***************************************************************************)
(* Taking a FAT volume's own undo log into use, kernel/fat_wal.h: the file *)
(* KVANTWAL.SYS is located, shown to belong to nobody else both in the     *)
(* tables as they lie and in the volume as the log would restore it, and   *)
(* only then is an interrupted transaction undone and the volume shown.    *)
(*                                                                         *)
(* A copy of the FAT and a directory's entries are each one sector.  The   *)
(* log holds the old contents of some of them.                             *)
(***************************************************************************)
EXTENDS Integers, Sequences, FiniteSets

CONSTANTS
    Clusters,        \* the data clusters, an interval from 2
    RootDir,         \* v->root_cluster
    Log,             \* the clusters the owner entry names, in order
    Volumes,         \* what the drive may hold
    MaxDirs,         \* WAL_DIR_LIMIT
    MaxWalFaults

VARIABLES
    fats,     \* the two copies: cluster -> 0, next cluster or EOC
    entries,  \* directory -> its entries
    undo,     \* the valid undo record: the sectors saved in it, with their contents
    header,   \* whether the owner sector describes this volume
    dirty,    \* whether the first FAT says the volume was not closed
    state,    \* "out", "withheld", "shown", "writable", "fenced"
    walFaults

walVars == <<fats, entries, undo, header, dirty, state, walFaults>>
EOC == 99
\* Every cluster outside the log may be read as a directory.
VolumesSound ==
    /\ IsFiniteSet(Clusters) /\ EOC \notin Clusters /\ RootDir \in Clusters /\ MaxDirs \in Nat \ {0}
    /\ Len(Log) \in Nat /\ DOMAIN Log = 1 .. Len(Log)
    /\ \A i \in DOMAIN Log : Log[i] \in Clusters /\ \A j \in DOMAIN Log : Log[i] = Log[j] => i = j
    /\ \A v \in Volumes :
        /\ {RootDir} \cup {c \in Clusters : \A i \in DOMAIN Log : Log[i] # c} \subseteq DOMAIN v.entries
        /\ DOMAIN v.undo.dirs \subseteq DOMAIN v.entries /\ DOMAIN v.undo.fats \subseteq {1, 2}
        /\ DOMAIN v.fats = {1, 2}
        /\ \A d \in DOMAIN v.entries :
            DOMAIN v.entries[d] = 1 .. Len(v.entries[d]) /\ Len(v.entries[d]) \in Nat
        /\ \A d \in DOMAIN v.undo.dirs :
            DOMAIN v.undo.dirs[d] = 1 .. Len(v.undo.dirs[d]) /\ Len(v.undo.dirs[d]) \in Nat

InLog(c) == \E i \in DOMAIN Log : Log[i] = c

\* Entries are [cluster, dir, owner, good]; owner: the entry has the name of the
\* log; good: its attributes, size and extent are those of a log.
Overlaid(k) == IF k \in DOMAIN undo.fats THEN undo.fats[k] ELSE fats[k]
OverlaidDir(d) == IF d \in DOMAIN undo.dirs THEN undo.dirs[d] ELSE entries[d]
Active == undo.fats # <<>> \/ undo.dirs # <<>>

\* wal_find: the first owner entry of the root as it lies, or none.  Neither
\* the root chain after it nor the other copy of the FAT is looked at.
Owners(es) == {i \in DOMAIN es : es[i].owner}
First(es) == CHOOSE i \in Owners(es) : \A j \in Owners(es) : i <= j
WalOff == First(entries[RootDir])
WalEntry == entries[RootDir][WalOff]
WalFind ==
    IF Owners(entries[RootDir]) = {} THEN "none"
    ELSE IF WalEntry.good /\ ~InLog(RootDir) THEN "found" ELSE "invalid"

\* wal_fat_entry: the log's clusters are linked in order, and nothing else,
\* allocated or lost, leads into them.
WalFatEntry(c, n) ==
    /\ \A i \in DOMAIN Log : c = Log[i] => n = IF i = Len(Log) THEN EOC ELSE Log[i + 1]
    /\ InLog(n) => \E i \in 2 .. Len(Log) : c = Log[i - 1] /\ n = Log[i]

\* wal_check_fats
WalCheckFats ==
    /\ \A k \in {1, 2} : \A c \in Clusters : WalFatEntry(c, fats[k][c]) /\ WalFatEntry(c, Overlaid(k)[c])
    /\ ~dirty
    /\ Overlaid(1) = Overlaid(2)

\* Mutant: an entry at a cluster of the log is not refused.
WalDirCbTrusts(w, d, k) ==
    LET e == OverlaidDir(d)[k] IN
    IF ~w.ok THEN w
    ELSE IF d = RootDir /\ k = WalOff THEN IF e = WalEntry THEN [w EXCEPT !.seen = @ + 1] ELSE [w EXCEPT !.ok = FALSE]
    ELSE IF d = RootDir /\ e.owner THEN [w EXCEPT !.ok = FALSE]
    ELSE IF e.dir THEN [w EXCEPT !.dirs = Append(@, e.cluster)] ELSE w

\* wal_dir_cb of entry k of directory d: every directory once, the owner at
\* its place in the root only, and no entry but it at a cluster of the log.
WalDirCb(w, d, k) ==
    LET e == OverlaidDir(d)[k]
        known == \E i \in DOMAIN w.dirs : w.dirs[i] = e.cluster IN
    IF ~w.ok THEN w
    ELSE IF d = RootDir /\ k = WalOff THEN IF e = WalEntry THEN [w EXCEPT !.seen = @ + 1] ELSE [w EXCEPT !.ok = FALSE]
    ELSE IF InLog(e.cluster) \/ (d = RootDir /\ e.owner) THEN [w EXCEPT !.ok = FALSE]
    ELSE IF ~e.dir THEN w
    ELSE IF e.cluster \notin Clusters \/ Len(w.dirs) >= MaxDirs \/ known THEN [w EXCEPT !.ok = FALSE]
    ELSE [w EXCEPT !.dirs = Append(@, e.cluster)]
\* wal_check_namespace: the directories in the order they are found.
WalkDir(w, d) ==
    LET read[k \in 0 .. Len(OverlaidDir(d))] == IF k = 0 THEN w ELSE WalDirCb(read[k - 1], d, k) IN
    read[Len(OverlaidDir(d))]
Visit(w, i) == IF i > Len(w.dirs) THEN w ELSE WalkDir(w, w.dirs[i])
Visited ==
    LET seen[i \in 0 .. MaxDirs] ==
            IF i = 0 THEN [ok |-> TRUE, seen |-> 0, dirs |-> <<RootDir>>] ELSE Visit(seen[i - 1], i) IN
    seen[MaxDirs]
WalCheckNamespace == Visited.ok /\ Visited.seen = 1

\* stx_abort: the saved sectors go back and the record is retired.
Undone ==
    /\ fats' = <<Overlaid(1), Overlaid(2)>>
    /\ entries' = [d \in DOMAIN entries |-> OverlaidDir(d)]
    /\ undo' = [fats |-> <<>>, dirs |-> <<>>]
NothingWritten == UNCHANGED <<fats, entries, undo>>

\* wal_prepare; a read that fails or a disk that changes on the way is a
\* fault, one while the record is written back leaves some of it done.
SavedOwner ==
    RootDir \in DOMAIN undo.dirs =>
        WalOff \in DOMAIN undo.dirs[RootDir] /\ undo.dirs[RootDir][WalOff] = WalEntry
Prepared == WalFind = "found" /\ header /\ SavedOwner /\ WalCheckFats /\ WalCheckNamespace
Faulty == walFaults < MaxWalFaults /\ walFaults' = walFaults + 1
HalfUndone ==
    /\ \E S \in SUBSET DOMAIN undo.fats : fats' = [k \in {1, 2} |-> IF k \in S THEN undo.fats[k] ELSE fats[k]]
    /\ UNCHANGED <<entries, undo>>
Prepare(yes, no) ==
    \/ /\ Prepared /\ state' = yes /\ UNCHANGED walFaults
       /\ IF Active THEN Undone ELSE NothingWritten
    \/ /\ ~Prepared /\ state' = no
       /\ NothingWritten /\ UNCHANGED walFaults
    \/ /\ Faulty /\ state' = no
       /\ IF Prepared /\ Active THEN HalfUndone ELSE NothingWritten

\* fat_mount of such a volume, with the volume shown read-only, or without any log.
LogMount ==
    /\ state = "out" /\ UNCHANGED <<header, dirty>>
    /\ IF WalFind = "none" THEN state' = "plain" /\ NothingWritten /\ UNCHANGED walFaults
       ELSE Prepare("shown", "withheld")

\* fat_write_mode; a volume that no longer prepares is fenced.
FatWriteMode(enable) ==
    /\ state \in {"shown", "writable"} /\ UNCHANGED <<header, dirty>>
    /\ IF enable THEN Prepare("writable", "fenced")
       ELSE state' = "shown" /\ NothingWritten /\ UNCHANGED walFaults

\* vfs_init forgets the mount; a crash does the same.
Forget ==
    /\ state # "out" /\ state' = "out"
    /\ UNCHANGED <<fats, entries, undo, header, dirty, walFaults>>

WalInit ==
    /\ \E v \in Volumes :
        /\ fats = v.fats /\ entries = v.entries /\ undo = v.undo
        /\ header = v.header /\ dirty = v.dirty
    /\ state = "out" /\ walFaults = 0
WalNext == LogMount \/ (\E enable \in BOOLEAN : FatWriteMode(enable)) \/ Forget
WalSpec == WalInit /\ [][WalNext]_walVars

-----------------------------------------------------------------------------
\* What follows a cluster through one copy of the FAT.
Reach(f, from) ==
    LET reach[n \in 0 .. Cardinality(Clusters)] ==
            IF n = 0 THEN from ELSE reach[n - 1] \cup {f[c] : c \in reach[n - 1] \cap Clusters} IN
    reach[Cardinality(Clusters)]

\* Nothing is written to a volume whose log may be somebody else's: whenever a
\* mount changes the disk, no chain of any file, allocated or lost, reached a
\* cluster of the log, neither as the tables lay nor as they were restored,
\* and the restored copies agree (fat_wal.h:66, 137).
KeepsToLog ==
    <<fats, entries>>' # <<fats, entries>> =>
        \A k \in {1, 2} : \A f \in {fats[k], Overlaid(k)} :
            /\ \A c \in {d \in Clusters : ~InLog(d)} : \A x \in Reach(f, {c}) : ~InLog(x)
            /\ \A i \in DOMAIN Log : Reach(f, {Log[i]}) \subseteq {Log[j] : j \in DOMAIN Log} \cup {EOC}
            /\ Overlaid(1) = Overlaid(2)

\* A volume shown with a log is whole again: no transaction is half done, the
\* copies of its FAT agree, the log has one owner in the root, and no other
\* entry of the tree, however deep, begins in it.
ShownIsWhole ==
    state \in {"shown", "writable"} =>
        /\ ~Active /\ ~dirty /\ header
        /\ fats[1] = fats[2]
        /\ Owners(entries[RootDir]) = {WalOff}
        /\ \E tree \in SUBSET DOMAIN entries :
            /\ RootDir \in tree
            /\ \A d \in tree : \A i \in DOMAIN entries[d] : <<d, i>> # <<RootDir, WalOff>> =>
                ~InLog(entries[d][i].cluster) /\ (entries[d][i].dir => entries[d][i].cluster \in tree)
=============================================================================
