------------------------------ MODULE Volumes -------------------------------
(***************************************************************************)
(* The volume table of kernel/vfs.c with its drivers: kernel/vfs_native.c  *)
(* over kernel/ramfs.c and kernel/kvfs.c, and the calls of kernel/fat.c.   *)
(*                                                                         *)
(* A volume is a name, a medium is what lies behind it: a rescan may bind  *)
(* a name to another medium.  A path is a volume and the sequence of the   *)
(* components after it.  Each call takes a store and gives the set of its  *)
(* possible outcomes: the store it leaves, with the result r.              *)
(***************************************************************************)
EXTENDS Integers, Sequences, SequencesExt

CONSTANTS
    Ram, Kv,       \* the media of the two native stores
    FatMedia,      \* FAT and NTFS volumes
    ReadOnly,      \* those among them that no write may reach: NTFS, USB
    Names,         \* components of paths, in listing order
    Paths,         \* the paths short enough to use, sequences of names
    Contents,      \* what other programs write
    Layouts        \* what an autoscan may find: sequences of [name, medium]

VARIABLES
    vols,          \* vols[]: the used entries, in order
    generation,    \* vfs_generation()
    files,         \* medium -> path -> contents
    kvMounted,     \* kvfs_mounted()
    writable       \* the media whose volume accepts writes

\* What is assumed of them: an autoscan finds volumes with names, and the
\* native stores, and they alone, under theirs.
Labels == {"ram", "kv"} \cup UNION {{l[i].name : i \in DOMAIN l} : l \in Layouts}
Mounts ==
    {e \in [name : Labels, medium : {Ram, Kv} \cup FatMedia] :
        (e.name = "ram" <=> e.medium = Ram) /\ (e.name = "kv" <=> e.medium = Kv)}
VolumesSound == Ram # Kv /\ Layouts \subseteq Seq(Mounts)

volVars == <<vols, generation, files, kvMounted, writable>>

Media == {Ram, Kv} \cup FatMedia
None == "none"
Folder == "folder"
Empty == "empty"                 \* a file without a byte
Flat(m) == m \in {Ram, Kv}       \* no directories there

-----------------------------------------------------------------------------
\* The store as it is, and a result put on it.
Now == [r |-> 0, tab |-> vols, gen |-> generation, files |-> files, kv |-> kvMounted, rw |-> writable]
Ret(s, r) == [s EXCEPT !.r = r]
Become(s) ==
    /\ vols' = s.tab /\ generation' = s.gen /\ files' = s.files
    /\ kvMounted' = s.kv /\ writable' = s.rw

\* resolve: the volume of that name, whatever lies behind it now.
Mounted(s, v) == \E i \in DOMAIN s.tab : s.tab[i].name = v
MediumAt(s, v) == s.tab[CHOOSE i \in DOMAIN s.tab : s.tab[i].name = v].medium
VfsWritable(s, v) == Mounted(s, v) /\ MediumAt(s, v) \in s.rw

Ready(s, m) == m # Kv \/ s.kv
IsDir(s, m, p) == p = <<>> \/ (~Flat(m) /\ s.files[m][p] = Folder)
ParentIsDir(s, m, p) == IsDir(s, m, Front(p))
Entries(s, m, d) == {q \in Paths : Len(q) = Len(d) + 1 /\ Front(q) = d /\ s.files[m][q] # None}

Put(s, m, p, c) == [s.files EXCEPT ![m][p] = c]
Done(s, r, fs) == {[s EXCEPT !.r = r, !.files = fs]}
\* A change the device refuses: KvFS withdraws the mount and moves the
\* namespace on with the entry old or new; FAT rolls back, or fences itself
\* with the change behind it.
Broken(s, r, m, fs) ==
    IF m = Kv THEN {[s EXCEPT !.r = r, !.files = f, !.kv = FALSE, !.gen = s.gen + 1] : f \in {s.files, fs}}
    ELSE IF m \in FatMedia THEN {Ret(s, r)} \cup {[s EXCEPT !.r = r, !.files = f, !.rw = s.rw \ {m}] : f \in {s.files, fs}}
    ELSE {}

-----------------------------------------------------------------------------
\* vfs_stat; vfs_size and vfs_read of a file, which a device may fail.
VfsStat(s, v, p) ==
    IF ~Mounted(s, v) THEN None
    ELSE IF p = <<>> THEN Folder
    ELSE IF Ready(s, MediumAt(s, v)) THEN s.files[MediumAt(s, v)][p] ELSE None
VfsRead(s, v, p) ==
    {IF VfsStat(s, v, p) = Folder THEN None ELSE VfsStat(s, v, p)}
        \cup (IF Mounted(s, v) /\ MediumAt(s, v) # Ram THEN {None} ELSE {})

\* vfs_size, then vfs_read of as many bytes: the size has no way to fail, so
\* where it comes from a directory that cannot be read it is 0, and reading
\* nothing succeeds.
VfsReadSized(s, v, p) ==
    VfsRead(s, v, p)
        \cup (IF Mounted(s, v) /\ MediumAt(s, v) \in FatMedia /\ VfsStat(s, v, p) \notin {None, Folder}
              THEN {Empty} ELSE {})

\* vfs_readdir over a whole directory: its entries, each with the mark of a
\* directory, or NoListing.
NoListing == {<<>>}
VfsReaddir(s, v, d) ==
    LET m == MediumAt(s, v) IN
    IF ~Mounted(s, v) THEN {NoListing}
    ELSE IF ~IsDir(s, m, d) \/ ~Ready(s, m) THEN {NoListing}
    ELSE {{<<Last(q), s.files[m][q] = Folder>> : q \in Entries(s, m, d)}}
            \cup (IF m # Ram THEN {NoListing} ELSE {})

VfsWrite(s, v, p, c) ==
    LET m == MediumAt(s, v) IN
    IF ~Mounted(s, v) THEN {Ret(s, -1)}
    ELSE IF m \notin s.rw THEN {Ret(s, -2)}
    ELSE IF ~Ready(s, m) \/ ~ParentIsDir(s, m, p) THEN {Ret(s, -1)}
    ELSE IF s.files[m][p] = Folder THEN {Ret(s, -2)}
    ELSE Done(s, 1, Put(s, m, p, c)) \cup Broken(s, -1, m, Put(s, m, p, c)) \cup {Ret(s, -3)}

VfsRemove(s, v, p) ==
    LET m == MediumAt(s, v) IN
    IF ~Mounted(s, v) THEN {Ret(s, -1)}
    ELSE IF m \notin s.rw THEN {Ret(s, -2)}
    ELSE IF ~Ready(s, m) \/ ~ParentIsDir(s, m, p) \/ s.files[m][p] = None THEN {Ret(s, -1)}
    ELSE IF ~Flat(m) /\ Entries(s, m, p) # {} THEN {Ret(s, -4)}
    ELSE Done(s, 0, Put(s, m, p, None)) \cup Broken(s, -1, m, Put(s, m, p, None))

\* Only the native stores rename, within one volume, and never onto a name
\* that is taken.
VfsCanRename(s, v) == VfsWritable(s, v) /\ Flat(MediumAt(s, v))
VfsRename(s, v, p, q) ==
    LET m == MediumAt(s, v)
        fs == [s.files EXCEPT ![m][p] = None, ![m][q] = s.files[m][p]] IN
    IF ~Mounted(s, v) THEN {Ret(s, -1)}
    ELSE IF ~VfsCanRename(s, v) THEN {Ret(s, -2)}
    ELSE IF ~Ready(s, m) THEN {Ret(s, -1)}
    ELSE IF s.files[m][p] = None THEN {Ret(s, -3)}
    ELSE IF p = q THEN {Ret(s, 0)}
    ELSE IF s.files[m][q] # None THEN {Ret(s, -5)}
    ELSE Done(s, 0, fs) \cup Broken(s, -6, m, fs)

VfsMkdir(s, v, p) ==
    LET m == MediumAt(s, v) IN
    IF ~Mounted(s, v) THEN {Ret(s, -1)}
    ELSE IF m \notin s.rw \/ Flat(m) THEN {Ret(s, -2)}
    ELSE IF s.files[m][p] # None THEN {Ret(s, -5)}
    ELSE IF ~ParentIsDir(s, m, p) THEN {Ret(s, -1)}
    ELSE Done(s, 0, Put(s, m, p, Folder)) \cup Broken(s, -1, m, Put(s, m, p, Folder))

-----------------------------------------------------------------------------
\* vfs_init and vfs_autoscan: every mount is forgotten and found anew.  KvFS
\* is listed, in one place, while it is mounted.
Listing(l, kv) ==
    LET native == {i \in DOMAIN l : l[i].medium = Kv} IN
    IF kv \/ native = {} THEN l ELSE RemoveAt(l, CHOOSE i \in native : TRUE)
Rescans(s) ==
    {[s EXCEPT !.gen = s.gen + 1, !.rw = Media \ ReadOnly, !.tab = Listing(l, s.kv)] : l \in Layouts}

\* kvfs_mount from the shell: the namespace moves on, the table does not.
Remounts(s) == {[s EXCEPT !.gen = s.gen + 1, !.kv = b] : b \in BOOLEAN}

\* Another program of the desktop writes or removes a file by its path.
OtherPrograms(s) ==
    UNION {LET v == s.tab[i].name IN
        {o \in VfsRemove(s, v, p) \cup UNION {VfsWrite(s, v, p, c) : c \in Contents} : o.r >= 0} :
            i \in DOMAIN s.tab, p \in Paths}

VolumesInit ==
    /\ vols \in Layouts /\ generation = 1
    /\ files = [m \in Media |-> [p \in Paths |-> files[m][p]]]
    /\ kvMounted = (\E i \in DOMAIN vols : vols[i].medium = Kv)
    /\ writable = Media \ ReadOnly
=============================================================================
