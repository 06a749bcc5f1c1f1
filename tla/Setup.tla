-------------------------------- MODULE Setup --------------------------------
(***************************************************************************)
(* Installing on a hard disk: setup_install of kernel/setup.c over KvFS,   *)
(* started by the shell or by the Programs window.                         *)
(*                                                                         *)
(* The installer writes one sector or makes one KvFS call at a time; each  *)
(* disk command may fail, and the power may go between any two.  A sector  *)
(* of the boot area is old, new, or junk after a failed write.             *)
(***************************************************************************)
EXTENDS Kvfs, Sequences

CONSTANTS
    RamFiles,       \* ramfs_table without hdboot.img: [name, data]
    Machines,       \* [image, disk]: the sizes of hdboot.img, 0 without one, and
                    \* of the disk past the boot area, 0 without one, in sectors
    RESERVED,       \* KVFS_BASE: sectors before KvFS, the boot record first
    MinDisk         \* 128: the least size that is accepted

VARIABLES
    image, disk,    \* what this machine was started with
    boot,           \* the boot area of the disk
    step,           \* where the installer is, "off" when it does not run
    keep,           \* keep_files
    sec,            \* the sector or file it is at
    copied,
    result          \* setup_result

setupVars == <<image, disk, boot, step, keep, sec, copied, result>>

\* ramfs_create: a name is in the table once.
MediaOK ==
    /\ RESERVED \in Nat
    /\ RamFiles \in Seq([name : Names, data : Contents])
    /\ \A i, j \in DOMAIN RamFiles : RamFiles[i].name = RamFiles[j].name => i = j

Fail == step' = "off" /\ result' = "failed"
Goto(s) == step' = s /\ UNCHANGED result
Still(s) == step = s /\ pc = "idle"

\* setup_install: what is refused before the first write.
Usable == disk >= MinDisk /\ image \in 1 .. RESERVED - 1
SetupInstall(keep_files) ==
    /\ Still("off") /\ image # 0 /\ disk # 0
    /\ keep' = keep_files /\ sec' = 0 /\ copied' = 0
    /\ IF Usable THEN step' = "boot" /\ result' = "none" ELSE Fail
    /\ UNCHANGED <<vars, image, disk, boot>>

\* The boot record with its partition table, then the body of the loader.
BootSector ==
    /\ Still("boot")
    /\ \/ /\ NoFault /\ boot' = [boot EXCEPT ![sec] = "new"]
          /\ IF sec + 1 = image THEN Goto("mount") /\ sec' = 1 ELSE Goto("boot") /\ sec' = sec + 1
       \/ /\ Fault /\ \E b \in {boot[sec], "new", "junk"} : boot' = [boot EXCEPT ![sec] = b]
          /\ Fail /\ UNCHANGED sec
    /\ UNCHANGED <<super, dsk, body, dir, mounted, call, pc, k, reply, image, disk, keep, copied>>

\* A disk that holds KvFS is left alone when its files are to be kept.
SetupMount ==
    /\ Still("mount") /\ KvfsMount
    /\ Goto(IF reply' = "ok" /\ keep THEN "copy" ELSE "format")
    /\ UNCHANGED <<image, disk, boot, keep, sec, copied>>
SetupFormat ==
    /\ Still("format") /\ KvfsFormat /\ Goto("formatting")
    /\ UNCHANGED <<image, disk, boot, keep, sec, copied>>
Formatted ==
    /\ Still("formatting")
    /\ IF reply = "ok" THEN Goto("copy") ELSE Fail
    /\ UNCHANGED <<vars, image, disk, boot, keep, sec, copied>>

\* The files of the media, in the order of the table; a file that is there is
\* not overwritten when keeping was requested.
Skipped(n) == keep /\ mounted /\ FindEntry(dir, n) # {}

\* Mutant: an existing file is overwritten.
CopyFileAlways ==
    /\ Still("copy") /\ sec <= Len(RamFiles)
    /\ LET f == RamFiles[sec] IN
        /\ KvfsWrite(f.name, f.data) \/ KvfsRefuse(f.name, f.data)
        /\ Goto("copying") /\ UNCHANGED sec
    /\ UNCHANGED <<image, disk, boot, keep, copied>>

CopyFile ==
    /\ Still("copy") /\ sec <= Len(RamFiles)
    /\ LET f == RamFiles[sec] IN
        \/ Skipped(f.name) /\ sec' = sec + 1 /\ UNCHANGED <<vars, step, result>>
        \/ /\ ~Skipped(f.name)
           /\ KvfsWrite(f.name, f.data) \/ KvfsRefuse(f.name, f.data)
           /\ Goto("copying") /\ UNCHANGED sec
    /\ UNCHANGED <<image, disk, boot, keep, copied>>
FileCopied ==
    /\ Still("copying") /\ Goto("copy") /\ sec' = sec + 1
    /\ copied' = copied + (IF reply = "ok" THEN 1 ELSE 0)
    /\ UNCHANGED <<vars, image, disk, boot, keep>>
Finish ==
    /\ Still("copy") /\ sec > Len(RamFiles)
    /\ step' = "off" /\ result' = "done"
    /\ UNCHANGED <<vars, image, disk, boot, keep, sec, copied>>

\* The commands of the KvFS call in progress.
DiskCommand == (BodyWrite \/ CommitEntry \/ WriteSuper \/ WriteDir) /\ UNCHANGED setupVars

\* The running system uses the disk before the first installation.
Owner ==
    /\ Still("off") /\ "new" \notin {boot[s] : s \in DOMAIN boot}
    /\ \/ KvfsMount \/ KvfsFormat
       \/ \E n \in Names, c \in Contents : KvfsWrite(n, c) \/ KvfsRefuse(n, c)
       \/ \E n \in Names : KvfsDelete(n)
       \/ \E n, to \in Names : KvfsRename(n, to)
    /\ UNCHANGED setupVars

\* All that is in memory is gone.
PowerLoss ==
    /\ Crash /\ step' = "off" /\ result' = "none" /\ sec' = 0 /\ copied' = 0 /\ keep' = FALSE
    /\ UNCHANGED <<image, disk, boot>>

-----------------------------------------------------------------------------
SetupInit ==
    /\ Init /\ \E mc \in Machines : image = mc.image /\ disk = mc.disk
    /\ boot = [s \in 0 .. RESERVED - 1 |-> "old"]
    /\ step = "off" /\ keep = FALSE /\ sec = 0 /\ copied = 0 /\ result = "none"

SetupNext ==
    \/ \E kf \in BOOLEAN : SetupInstall(kf)
    \/ BootSector \/ SetupMount \/ SetupFormat \/ Formatted
    \/ CopyFile \/ FileCopied \/ Finish
    \/ Owner \/ DiskCommand \/ PowerLoss

SetupSpec == SetupInit /\ [][SetupNext]_<<vars, setupVars>>

-----------------------------------------------------------------------------
\* "Done" is said of a disk that boots: the whole loader is on it, KvFS is
\* there and can be mounted, and as many files of the media as were counted
\* are on it whole.
Installed ==
    /\ \A s \in 0 .. image - 1 : boot[s] = "new"
    /\ super /\ Valid(dsk)
    /\ Cardinality({i \in DOMAIN RamFiles : Files[RamFiles[i].name] = RamFiles[i].data}) >= copied
FinishesInstalled == step # "off" /\ result' = "done" => Installed'

\* No step of an installation but the formatting takes a file away or puts
\* other contents in its place, whatever fails and whenever the power goes.
LeavesFiles ==
    step \notin {"off", "format", "formatting"} =>
        \A n \in Names : Files[n] # Missing => Files'[n] = Files[n]

\* setup.c: "installing over an existing system must not erase documents".
\* A disk that holds KvFS is not formatted when its files are to be kept.
KeepsDocuments == step = "format" /\ keep => ~(super /\ Valid(dsk))
=============================================================================
