------------------------------ MODULE FatFiles ------------------------------
(***************************************************************************)
(* Files and directories of a FAT32 volume, kernel/fat.c: replacing,       *)
(* removing and creating them inside one transaction each.                 *)
(*                                                                         *)
(* Metadata (FAT, FSInfo, directories) is written through the undo log of  *)
(* SectorTx, used here by what it guarantees: `saved' is the image a       *)
(* recovery restores.  FAT and FSInfo sectors wait in RAM (fat_meta.h)     *)
(* until a flush.  Bodies and fresh directory clusters are written without *)
(* a log, straight to the device and its volatile cache.                   *)
(*                                                                         *)
(* A cluster, an entry and a directory slot are units; names have parents, *)
(* and time stamps, aliases and the unchanged second FAT are left out.     *)
(* Every step can fail or be the last one before a power loss.             *)
(***************************************************************************)
EXTENDS Integers, FiniteSets

CONSTANTS
    Names, Root,    \* paths below the root directory
    Parent,         \* Parent[n]: the directory of n
    Contents,       \* what callers save
    Length,         \* Length[c]: clusters of c; an empty file has none
    Directory,      \* the contents of a directory, as a value
    Missing, Mixed, \* no file; a body that is nobody's contents
    CLUSTERS,       \* clusters on the volume
    SLOTS,          \* entries in a directory cluster
    MaxFaults       \* bound on failed steps

ASSUME NamesAssumption == Root \notin Names /\ Parent \in [Names -> Names \cup {Root}]
ASSUME ContentsAssumption ==
    /\ Length \in [Contents -> Nat]
    /\ {Directory, Missing, Mixed} \cap Contents = {}
    /\ \A c, d \in Contents : Length[c] = 0 /\ Length[d] = 0 => c = d
ASSUME SizeAssumption == CLUSTERS \in Nat \ {0} /\ SLOTS \in Nat \ {0} /\ MaxFaults \in Nat

VARIABLES
    saved,      \* the metadata image that mounting and recovery find
    disk,       \* the metadata image on the device
    meta,       \* the working set: FAT and FSInfo
    body,       \* what the clusters read as
    platter,    \* what is left of them after a power loss
    mounted, fenced,
    op, pc,     \* the operation in progress and its next step
    reply,      \* result of the last operation
    faults

vars == <<saved, disk, meta, body, platter, mounted, fenced, op, pc, reply, faults>>
bodies == <<body, platter>>

Clusters == 1 .. CLUSTERS
FREE == 0
EOC == CLUSTERS + 1
ROOT_CLUSTER == 1
Junk == <<Missing, 0>>
DirBlock == <<Directory, 0>>

NoEntry == [kind |-> "none", first |-> 0, size |-> 0]
NoOp == [op |-> "none"]
FatOf(image) == [fat |-> image.fat, free |-> image.free]
WithFat(image, m) == [fat |-> m.fat, free |-> m.free, ents |-> image.ents]

\* The clusters behind `first', following the FAT.
Nth(fat, first) ==
    LET walk[i \in 0 .. CLUSTERS] ==
            IF i = 0 THEN first
            ELSE IF walk[i - 1] \in Clusters THEN fat[walk[i - 1]] ELSE EOC
    IN  walk
Chain(fat, first) == {Nth(fat, first)[i] : i \in 0 .. CLUSTERS} \cap Clusters
ChainWhole(fat, first) == first = 0 \/ Nth(fat, first)[CLUSTERS] = EOC
LastOf(fat, first) == CHOOSE c \in Chain(fat, first) : fat[c] = EOC

DirCluster(image, d) == IF d = Root THEN ROOT_CLUSTER ELSE image.ents[d].first
IsDir(image, d) == IF d = Root THEN TRUE ELSE image.ents[d].kind = "dir"
Children(image, d) == {n \in Names : Parent[n] = d /\ image.ents[n].kind # "none"}
HasSlot(m, image, d) ==
    Cardinality(Children(image, d)) < SLOTS * Cardinality(Chain(m.fat, DirCluster(image, d)))

Fault == faults < MaxFaults /\ faults' = faults + 1
NoFault == UNCHANGED faults
Return(r) == pc' = "idle" /\ op' = NoOp /\ reply' = r

-----------------------------------------------------------------------------
\* fat_alloc_cluster: the first free cluster.
FreeClusters(m) == {c \in Clusters : m.fat[c] = FREE}
FirstFree(m) == {c \in FreeClusters(m) : \A b \in FreeClusters(m) : c <= b}
Allocated(m, c) == [fat |-> [m.fat EXCEPT ![c] = EOC], free |-> m.free - 1]
Linked(m, prev, c) == IF prev = 0 THEN m ELSE [m EXCEPT !.fat[prev] = c]

Freed(m, first) ==
    LET gone == Chain(m.fat, first)
    IN  [fat |-> [c \in Clusters |-> IF c \in gone THEN FREE ELSE m.fat[c]],
         free |-> m.free + Cardinality(gone)]

\* fat_write_data: straight to the device, not yet durable.
Write(c, block) == body' = [body EXCEPT ![c] = block] /\ UNCHANGED platter
SyncBodies == platter' = body /\ UNCHANGED body
Flush(image) == WithFat(image, meta)

-----------------------------------------------------------------------------
\* A mount recovers the log before the namespace is published.
FatMount ==
    /\ pc = "idle"
    /\ disk' = saved /\ meta' = FatOf(saved)
    /\ \/ NoFault /\ mounted' = TRUE /\ fenced' = FALSE /\ Return("ok")
       \/ Fault /\ mounted' = FALSE /\ fenced' = FALSE /\ Return("error")
    /\ UNCHANGED <<saved, bodies>>

\* write_begin, and the checks of the operation on its path.
Begin(call, first_step) ==
    /\ pc = "idle" /\ mounted /\ ~fenced
    /\ op' = call /\ pc' = first_step /\ reply' = "none"
    /\ UNCHANGED <<saved, disk, meta, bodies, mounted, fenced, faults>>

\* The log cannot be opened, or the dirty bit not be set and undone.
BeginFails ==
    /\ pc = "idle" /\ mounted /\ ~fenced
    /\ Fault /\ fenced' \in BOOLEAN /\ Return("error")
    /\ UNCHANGED <<saved, disk, meta, bodies, mounted>>

PathOK(n) == IsDir(disk, Parent[n])
Existing(n) == disk.ents[n].kind

FatWrite(n, c) ==
    /\ PathOK(n) /\ Existing(n) # "dir"
    /\ Begin([op |-> "write", name |-> n, data |-> c, first |-> 0, last |-> 0, done |-> 0,
              old |-> disk.ents[n].first],
             IF Length[c] = 0 THEN "sync" ELSE "body")

FatMkdir(n) ==
    /\ PathOK(n) /\ Existing(n) = "none"
    /\ Begin([op |-> "mkdir", name |-> n, data |-> Directory, first |-> 0, last |-> 0, done |-> 0,
              old |-> 0], "mkdir")

Removable(n) == Existing(n) = "file" \/ (Existing(n) = "dir" /\ Children(disk, n) = {})

FatRemove(n) ==
    /\ Removable(n)
    /\ Begin([op |-> "delete", name |-> n, old |-> disk.ents[n].first], "free")

\* A missing name removed, an existing one created: the transaction is
\* rolled back before anything was written.
Refuse ==
    /\ pc = "idle" /\ mounted /\ ~fenced
    /\ Return("error")
    /\ UNCHANGED <<saved, disk, meta, bodies, mounted, fenced, faults>>

-----------------------------------------------------------------------------
GiveUp ==
    /\ pc' = "abort"
    /\ UNCHANGED <<saved, disk, meta, mounted, fenced, op, reply>>

Fails(step) == pc = step /\ Fault /\ GiveUp /\ UNCHANGED bodies

\* Mutant: the old chain of the file is reused before the new one is published.
BodyStepInPlace ==
    /\ pc = "body" /\ NoFault
    /\ IF op.old # 0 /\ op.done = 0
       THEN LET m == Allocated(Freed(meta, op.old), op.old)
            IN  /\ meta' = m /\ Write(op.old, <<op.data, 1>>)
                /\ op' = [op EXCEPT !.first = op.old, !.last = op.old, !.done = 1, !.old = 0]
                /\ pc' = IF Length[op.data] = 1 THEN "sync" ELSE "body"
                /\ UNCHANGED <<saved, disk, mounted, fenced, reply>>
       ELSE /\ \E c \in FirstFree(meta) :
                /\ meta' = Linked(Allocated(meta, c), op.last, c)
                /\ Write(c, <<op.data, op.done + 1>>)
                /\ op' = [op EXCEPT !.first = IF @ = 0 THEN c ELSE @, !.last = c, !.done = @ + 1]
                /\ pc' = IF op.done + 1 = Length[op.data] THEN "sync" ELSE "body"
            /\ UNCHANGED <<saved, disk, mounted, fenced, reply>>

\* One cluster of the new body.
BodyStep ==
    /\ pc = "body" /\ NoFault
    /\ \E c \in FirstFree(meta) :
        /\ meta' = Linked(Allocated(meta, c), op.last, c)
        /\ Write(c, <<op.data, op.done + 1>>)
        /\ op' = [op EXCEPT !.first = IF @ = 0 THEN c ELSE @, !.last = c, !.done = @ + 1]
        /\ pc' = IF op.done + 1 = Length[op.data] THEN "sync" ELSE "body"
    /\ UNCHANGED <<saved, disk, mounted, fenced, reply>>

\* Mutant: a directory is created without initialising its cluster.
MkdirStepBare ==
    /\ pc = "mkdir" /\ NoFault
    /\ \E c \in FirstFree(meta) :
        /\ meta' = Allocated(meta, c) /\ UNCHANGED bodies
        /\ op' = [op EXCEPT !.first = c]
    /\ pc' = "publish"
    /\ UNCHANGED <<saved, disk, mounted, fenced, reply>>

MkdirStep ==
    /\ pc = "mkdir" /\ NoFault
    /\ \E c \in FirstFree(meta) :
        /\ meta' = Allocated(meta, c) /\ Write(c, DirBlock)
        /\ op' = [op EXCEPT !.first = c]
    /\ pc' = "publish"
    /\ UNCHANGED <<saved, disk, mounted, fenced, reply>>

Full ==
    /\ pc \in {"body", "mkdir"} /\ FreeClusters(meta) = {}
    /\ NoFault /\ GiveUp /\ UNCHANGED bodies

\* "Do not publish a directory entry before the new body/chain is durable."
\* (Commit has a barrier of its own; this one serves the log that lives in
\* RAM only.)
BodySync ==
    /\ pc = "sync" /\ NoFault
    /\ disk' = Flush(disk) /\ SyncBodies /\ pc' = "publish"
    /\ UNCHANGED <<saved, meta, mounted, fenced, op, reply>>

NewEntry ==
    IF op.op = "mkdir" THEN [kind |-> "dir", first |-> op.first, size |-> 1]
    ELSE [kind |-> "file", first |-> op.first, size |-> Length[op.data]]

\* alloc_dir_slots: a full directory gets one more, empty cluster.
GrowDirectory ==
    LET d == Parent[op.name]
    IN  /\ pc = "publish" /\ Existing(op.name) = "none" /\ ~HasSlot(meta, disk, d)
        /\ NoFault
        /\ IF FreeClusters(meta) = {} THEN GiveUp /\ UNCHANGED bodies
           ELSE \E c \in FirstFree(meta) :
                /\ meta' = Linked(Allocated(meta, c), LastOf(meta.fat, DirCluster(disk, d)), c)
                /\ Write(c, DirBlock)
                /\ UNCHANGED <<saved, disk, mounted, fenced, op, pc, reply>>

\* The directory sector follows the pending FAT sectors; its undo record is
\* a barrier for everything written before it.
Publish ==
    /\ pc = "publish" /\ NoFault
    /\ Existing(op.name) = "none" => HasSlot(meta, disk, Parent[op.name])
    /\ disk' = [Flush(disk) EXCEPT !.ents[op.name] = NewEntry]
    /\ pc' = IF op.old = 0 THEN "commit" ELSE "free"
    /\ UNCHANGED <<saved, meta, bodies, mounted, fenced, op, reply>>

\* After the new entry, or before the old one is erased.
FreeOld ==
    /\ pc = "free" /\ NoFault
    /\ meta' = Freed(meta, op.old)
    /\ pc' = IF op.op = "delete" THEN "erase" ELSE "commit"
    /\ UNCHANGED <<saved, disk, bodies, mounted, fenced, op, reply>>

Erase ==
    /\ pc = "erase" /\ NoFault
    /\ disk' = [Flush(disk) EXCEPT !.ents[op.name] = NoEntry]
    /\ pc' = "commit"
    /\ UNCHANGED <<saved, meta, bodies, mounted, fenced, op, reply>>

\* write_end: flush and commit.  The log is closed behind a barrier.
Commit ==
    /\ pc = "commit" /\ NoFault
    /\ disk' = Flush(disk) /\ saved' = disk' /\ SyncBodies /\ Return("ok")
    /\ UNCHANGED <<meta, mounted, fenced>>

\* The barrier passed but closing the log failed: nobody knows, so fence.
CommitUnknown ==
    /\ pc = "commit" /\ Fault
    /\ disk' = Flush(disk) /\ saved' \in {saved, disk'} /\ SyncBodies
    /\ fenced' = TRUE /\ Return("error")
    /\ UNCHANGED <<meta, mounted>>

Rollback ==
    /\ pc = "abort" /\ NoFault
    /\ disk' = saved /\ meta' = FatOf(saved)
    /\ Return("error") /\ UNCHANGED <<saved, bodies, mounted, fenced>>

\* Mutant: a volume whose rollback failed stays in use.
RollbackFailsOpen ==
    /\ pc = "abort" /\ Fault
    /\ Return("error") /\ UNCHANGED <<saved, disk, meta, bodies, mounted, fenced>>

RollbackFails ==
    /\ pc = "abort" /\ Fault
    /\ fenced' = TRUE
    /\ Return("error") /\ UNCHANGED <<saved, disk, meta, bodies, mounted>>

\* Power loss: a block written since the last barrier is kept, or reads as
\* something else.  The working set is gone until a mount.
Crash ==
    /\ \E lost \in SUBSET {c \in Clusters : body[c] # platter[c]} :
        platter' = [c \in Clusters |-> IF c \in lost THEN Junk ELSE body[c]]
    /\ body' = platter' /\ meta' = FatOf(saved)
    /\ mounted' = FALSE /\ fenced' = FALSE
    /\ Return("none")
    /\ UNCHANGED <<saved, disk, faults>>

-----------------------------------------------------------------------------
Fresh ==
    [fat |-> [c \in Clusters |-> IF c = ROOT_CLUSTER THEN EOC ELSE FREE],
     free |-> CLUSTERS - 1,
     ents |-> [n \in Names |-> NoEntry]]

Init ==
    /\ saved = Fresh /\ disk = Fresh /\ meta = FatOf(Fresh)
    /\ body = [c \in Clusters |-> IF c = ROOT_CLUSTER THEN DirBlock ELSE Junk]
    /\ platter = body
    /\ mounted = FALSE /\ fenced = FALSE
    /\ op = NoOp /\ pc = "idle" /\ reply = "none" /\ faults = 0

Steps == {"body", "mkdir", "sync", "publish", "free", "erase", "commit"}

Next ==
    \/ FatMount \/ BeginFails \/ Refuse
    \/ \E n \in Names : FatRemove(n) \/ FatMkdir(n)
    \/ \E n \in Names, c \in Contents : FatWrite(n, c)
    \/ BodyStep \/ MkdirStep \/ Full \/ BodySync \/ GrowDirectory \/ Publish
    \/ FreeOld \/ Erase \/ Commit \/ CommitUnknown
    \/ \E step \in Steps : Fails(step)
    \/ Rollback \/ RollbackFails
    \/ Crash

Spec == Init /\ [][Next]_vars

-----------------------------------------------------------------------------
Blocks == {<<c, i>> : c \in Contents \cup {Missing, Directory}, i \in 0 .. CLUSTERS}
EntryType == [kind : {"none", "file", "dir"}, first : 0 .. CLUSTERS, size : 0 .. CLUSTERS]
FatType == [Clusters -> 0 .. EOC]
MetaType == [fat : FatType, free : 0 .. CLUSTERS]
ImageType == [fat : FatType, free : 0 .. CLUSTERS, ents : [Names -> EntryType]]

\* Type invariant.  FSInfo's count stays between 0 and the size of the
\* volume, where fsinfo_adjust would give up.
TypeOK ==
    /\ saved \in ImageType /\ disk \in ImageType /\ meta \in MetaType
    /\ body \in [Clusters -> Blocks] /\ platter \in [Clusters -> Blocks]
    /\ mounted \in BOOLEAN /\ fenced \in BOOLEAN
    /\ op.op \in {"none", "write", "mkdir", "delete"}
    /\ pc \in {"idle", "abort"} \cup Steps
    /\ reply \in {"none", "ok", "error"} /\ faults \in 0 .. MaxFaults

\* What is written without a log goes to clusters that are free in the image
\* a rollback or a recovery restores: no committed file loses its body.
BodiesToFree ==
    [][\A c \in Clusters : body'[c] # body[c] =>
            saved.fat[c] = FREE \/ mounted' = FALSE]_vars

\* The image that recovery restores has no cross-linked, broken or lost
\* chains, and its free count is exact.
Chains(image) ==
    {<<n, image.ents[n].first>> : n \in {m \in Names : image.ents[m].kind # "none"}}
        \cup {<<Root, ROOT_CLUSTER>>}
Consistent(image) ==
    /\ \A c \in Chains(image) : ChainWhole(image.fat, c[2])
    /\ \A c, b \in Chains(image) : c[1] # b[1] => Chain(image.fat, c[2]) \cap Chain(image.fat, b[2]) = {}
    /\ UNION {Chain(image.fat, c[2]) : c \in Chains(image)} = {c \in Clusters : image.fat[c] # FREE}
    /\ image.free = Cardinality({c \in Clusters : image.fat[c] = FREE})
    /\ \A n \in Names : image.ents[n].kind # "none" => IsDir(image, Parent[n])
    /\ \A d \in Names \cup {Root} : IsDir(image, d) =>
        Cardinality(Children(image, d)) <= SLOTS * Cardinality(Chain(image.fat, DirCluster(image, d)))
SavedConsistent == Consistent(saved)

\* Every directory cluster that recovery can reach was initialised on the
\* platter, and never holds the contents of an old file.
DirectoriesInitialised ==
    \A d \in Names \cup {Root} : IsDir(saved, d) =>
        \A c \in Chain(saved.fat, DirCluster(saved, d)) : platter[c] = DirBlock

\* A mounted volume holds what its directories say and no directory can be
\* read before its cluster was filled in (fat.c fat_write, fat_mkdir).
VolumeConsistent == SavedConsistent /\ DirectoriesInitialised

\* What a mount would find now.
FileAt(n) ==
    LET e == saved.ents[n]
        nth == Nth(saved.fat, e.first)
        whole == {c \in Contents : Length[c] = e.size /\
                    \A i \in 1 .. e.size : platter[nth[i - 1]] = <<c, i>>}
    IN  CASE e.kind = "none" -> Missing
          [] e.kind = "dir" -> Directory
          [] OTHER -> IF whole = {} THEN Mixed ELSE CHOOSE c \in whole : TRUE

PendingOp ==
    CASE op.op \in {"write", "mkdir"} -> [op |-> "write", name |-> op.name, data |-> op.data]
      [] op.op = "delete" -> [op |-> "delete", name |-> op.name]
      [] OTHER -> op

Abstract == INSTANCE FileStore WITH
    Contents <- Contents \cup {Directory},
    store <- [n \in Names |-> FileAt(n)],
    pending <- PendingOp,
    mounted <- mounted /\ ~fenced

\* FAT implements the table of whole files, over crashes and failed steps.
ImplementsFileStore == Abstract!Spec
=============================================================================
