-------------------------------- MODULE Ntfs ---------------------------------
(***************************************************************************)
(* The read-only NTFS driver of kernel/ntfs.c over one volume.             *)
(*                                                                         *)
(* A unit is a sector.  Records, index blocks and data are sequences of    *)
(* units; the bytes of a record are reduced to its attributes, and an      *)
(* update sequence to the generation each unit was written with, so that a *)
(* record torn by a crash is one whose units disagree.  What the files     *)
(* hold is told by the volume itself (truth), apart from its layout.       *)
(***************************************************************************)
EXTENDS Integers, Sequences, FiniteSetsExt

CONSTANTS
    Drives,       \* volumes that may be in the drive
    MaxRead,      \* units a read asks for
    MaxFailures   \* bound: calls in which a sector fails

VARIABLES
    volume,
    mftRuns,      \* v->mft_runs, <<>> before the mount
    listing,      \* history: what the readdir calls of one listing returned
    reading,      \* history: the last read, what it asked and returned
    failures

ntfsVars == <<volume, mftRuns, listing, reading, failures>>

\* A volume has spc sectors in a cluster and spr in a record or an index
\* block; at: sector -> [what, part, gen], mft the cluster of $MFT, records
\* and blocks their contents.  Of what it means: nodes: path -> [ref, dir],
\* entries: path of a directory -> its entries in their order on the disk,
\* truth: path of a file -> its content, torn the paths of files that a crash
\* in their record, or in the index on the way to it, put out of reach.
\*   record: [attrs, list], attrs a sequence of attributes, list of [type, ref]
\*   attribute: [type, resident, value, vcn, runs, extents, size, init], value
\*     what it holds, on the disk only when resident, runs what is on the
\*     disk of the extents, which say where the value lies
\*   run: [len, delta, sparse]          extent: [vcn, len, lcn, sparse]
\*   entry: [name, ref, dir, hidden]
MFT_REC_ROOT == 5
ZeroUnit == [what |-> <<"data", "zero">>, part |-> 1, gen |-> 1]
Extent(vcn, len, lcn, sparse) == [vcn |-> vcn, len |-> len, lcn |-> lcn, sparse |-> sparse]
Content(u) == IF u.what[1] = "data" THEN u.what[2] ELSE "metadata"
NoAttr == [type |-> "none"]
Listing(n, path, names, over) == [at |-> n, path |-> path, names |-> names, over |-> over]
NoListing == Listing(0, <<>>, <<>>, FALSE)
Reading(path, off, units, sound, got) == [path |-> path, off |-> off, units |-> units, sound |-> sound, got |-> got]
NoReading == Reading(<<>>, 0, <<>>, FALSE, -1)

-----------------------------------------------------------------------------
\* Each call is given the sectors that fail during it.
\* ntfs_read_sectors and read_clusters: the units, or <<>>.
ReadSectors(bad, first, count) ==
    IF \E k \in first .. first + count - 1 : k \notin DOMAIN volume.at \/ k \in bad THEN <<>>
    ELSE [k \in 1 .. count |-> volume.at[first + k - 1]]

\* The signature and apply_fixup: every unit of the block, in its place,
\* written together.
Fixed(units, kind) ==
    /\ units # <<>>
    /\ \A k \in DOMAIN units :
        units[k].what[1] = kind /\ units[k].what = units[1].what /\ units[k].part = k /\ units[k].gen = units[1].gen

\* Mutant: the running cluster moves over holes too.
ParseRunlistHolesMove(runs, vcn) ==
    LET lcn[k \in 0 .. Len(runs)] ==
            IF k = 0 THEN 0 ELSE lcn[k - 1] + runs[k].delta + IF runs[k].sparse THEN runs[k].len ELSE 0
        next[k \in 0 .. Len(runs)] == IF k = 0 THEN vcn ELSE next[k - 1] + runs[k].len IN
    [k \in 1 .. Len(runs) |-> Extent(next[k - 1], runs[k].len, lcn[k], runs[k].sparse)]

\* parse_runlist: extents with absolute clusters; a hole has none and leaves
\* the running cluster where it is.
ParseRunlist(runs, vcn) ==
    LET lcn[k \in 0 .. Len(runs)] ==
            IF k = 0 THEN 0 ELSE IF runs[k].sparse THEN lcn[k - 1] ELSE lcn[k - 1] + runs[k].delta
        next[k \in 0 .. Len(runs)] == IF k = 0 THEN vcn ELSE next[k - 1] + runs[k].len IN
    [k \in 1 .. Len(runs) |->
        Extent(next[k - 1], runs[k].len, IF runs[k].sparse THEN 0 ELSE lcn[k], runs[k].sparse)]

\* run_lookup: the first run that holds the cluster, 0 if none does.
RunLookup(runs, vcn) ==
    LET hit == {i \in DOMAIN runs : vcn >= runs[i].vcn /\ vcn < runs[i].vcn + runs[i].len} IN
    IF hit = {} THEN 0 ELSE Min(hit)

\* read_mft_record: the number of record num, or -1.  Records are smaller
\* than clusters or whole clusters of their own.
RecordCluster(v, num) ==
    IF v.spc >= v.spr THEN num \div (v.spc \div v.spr) ELSE num * (v.spr \div v.spc)
RecordInner(v, num) == IF v.spc >= v.spr THEN (num % (v.spc \div v.spr)) * v.spr ELSE 0
RecordSector(v, run, num) == (run.lcn + RecordCluster(v, num) - run.vcn) * v.spc + RecordInner(v, num)
ReadMftRecord(bad, runs, num) ==
    LET i == RunLookup(runs, RecordCluster(volume, num))
        units == ReadSectors(bad, RecordSector(volume, runs[i], num), volume.spr) IN
    IF i = 0 THEN -1
    ELSE IF runs[i].sparse THEN -1
    ELSE IF Fixed(units, "rec") THEN units[1].what[2] ELSE -1

\* find_attr_in: the first of its type, with or without a name.
FindAttrIn(rec, type) ==
    LET k == {i \in DOMAIN rec.attrs : rec.attrs[i].type = type} IN
    IF k = {} THEN NoAttr ELSE rec.attrs[Min(k)]

Found(attr, failed) == [attr |-> attr, failed |-> failed]

\* find_attr_ext: else the record the attribute list names for that type
\* first, and fails when it cannot be read.
FindAttrExt(bad, rec, type) ==
    LET here == FindAttrIn(volume.records[rec], type)
        list == volume.records[rec].list
        named == {i \in DOMAIN list : list[i].type = type /\ list[i].ref # 0}
        ext == ReadMftRecord(bad, mftRuns, list[Min(named)].ref) IN
    IF here # NoAttr \/ named = {} THEN Found(here, FALSE)
    ELSE IF ext = -1 THEN Found(NoAttr, TRUE)
    ELSE Found(FindAttrIn(volume.records[ext], type), FALSE)

\* read_attr: at most max units from off.  What lies past the initialized
\* size is zero, and so is a hole; a cluster that is not mapped, or cannot be
\* read, ends the read.
Smaller(a, b) == IF a < b THEN a ELSE b
UnitAt(bad, runs, pos) ==
    LET i == RunLookup(runs, pos \div volume.spc)
        c == ReadSectors(bad, (runs[i].lcn + pos \div volume.spc - runs[i].vcn) * volume.spc, volume.spc) IN
    IF i = 0 THEN <<>>
    ELSE IF runs[i].sparse THEN <<ZeroUnit>>
    ELSE IF c = <<>> THEN <<>> ELSE <<c[(pos % volume.spc) + 1]>>
ReadAttr(bad, attr, off, max) ==
    LET runs == ParseRunlist(attr.runs, attr.vcn)
        want == Smaller(attr.size - off, max)
        data == Smaller(want, attr.init - off)
        ends == {k \in 1 .. data : UnitAt(bad, runs, off + k - 1) = <<>>} IN
    IF off >= attr.size THEN <<>>
    ELSE IF attr.resident THEN [k \in 1 .. want |-> attr.value[off + k]]
    ELSE IF off >= attr.init THEN [k \in 1 .. want |-> ZeroUnit]
    ELSE [k \in 1 .. (IF ends = {} THEN want ELSE Min(ends) - 1) |->
            IF k <= data THEN UnitAt(bad, runs, off + k - 1)[1] ELSE ZeroUnit]

-----------------------------------------------------------------------------
\* walk_index: the entries of the root node, then those of every index block
\* of the allocation, in the order of the disk, up to one that fails; ok when
\* none did.
Joined(first, parts) ==
    LET j[k \in 0 .. Len(parts)] == IF k = 0 THEN first ELSE j[k - 1] \o parts[k] IN j[Len(parts)]
Walked(ok, list) == [ok |-> ok, list |-> list]
WalkBlocks(bad, first, alloc) ==
    LET blocks == {k \in 1 .. alloc.size : (k - 1) * volume.spr < alloc.size}
        block(k) == ReadAttr(bad, alloc, (k - 1) * volume.spr, volume.spr)
        fail == {k \in blocks : Len(block(k)) # volume.spr \/ ~Fixed(block(k), "indx")}
        upto == IF fail = {} THEN Max({0} \cup blocks) ELSE Min(fail) - 1 IN
    Walked(fail = {}, Joined(first, [k \in 1 .. upto |-> volume.blocks[block(k)[1].what[2]]]))
WalkIndex(bad, dir) ==
    LET rec == ReadMftRecord(bad, mftRuns, dir)
        root == FindAttrExt(bad, rec, "root").attr
        alloc == FindAttrExt(bad, rec, "alloc") IN
    IF rec = -1 THEN Walked(FALSE, <<>>)
    ELSE IF root = NoAttr THEN Walked(FALSE, <<>>)
    ELSE IF alloc.attr = NoAttr THEN Walked(~alloc.failed, root.value)
    ELSE WalkBlocks(bad, root.value, alloc.attr)

\* ntfs_file_size_fits: the record can be read, and its data found.
SizeFits(bad, ref) ==
    LET rec == ReadMftRecord(bad, mftRuns, ref) IN
    IF rec = -1 THEN FALSE ELSE ~FindAttrExt(bad, rec, "data").failed

\* ntfs_resolve of a path of names below the root: the reference, or 0.
Spot(ref, dir) == [ref |-> ref, dir |-> dir]
EnteredIn(bad, cur, list, name) ==
    LET named == {j \in DOMAIN list : list[j].name = name}
        e == list[Min(named)] IN
    IF ~cur.dir THEN Spot(0, FALSE)
    ELSE IF named = {} THEN Spot(0, FALSE)
    ELSE IF ~e.dir /\ ~SizeFits(bad, e.ref) THEN Spot(0, FALSE) ELSE Spot(e.ref, e.dir)
Entered(bad, cur, name) == EnteredIn(bad, cur, WalkIndex(bad, cur.ref).list, name)
Resolve(bad, path) ==
    LET at[k \in 0 .. Len(path)] == IF k = 0 THEN Spot(MFT_REC_ROOT, TRUE) ELSE Entered(bad, at[k - 1], path[k]) IN
    at[Len(path)]

-----------------------------------------------------------------------------
Mounted == mftRuns # <<>>
Fault(bad) ==
    /\ bad # {} => failures < MaxFailures
    /\ failures' = IF bad = {} THEN failures ELSE failures + 1

\* ntfs_mount: the first record of $MFT, where the boot sector says, describes
\* the others; the root directory must be readable.
NtfsMount(bad) ==
    LET boot == <<Extent(0, 1, volume.mft, FALSE)>>
        self == ReadMftRecord(bad, boot, 0)
        data == FindAttrIn(volume.records[self], "data")
        runs == ParseRunlist(data.runs, 0)
        good == IF self = -1 THEN FALSE
                ELSE IF data = NoAttr THEN FALSE
                ELSE IF data.resident THEN FALSE ELSE ReadMftRecord(bad, runs, MFT_REC_ROOT) # -1 IN
    /\ ~Mounted /\ Fault(bad)
    /\ mftRuns' = IF good THEN runs ELSE <<>>
    /\ UNCHANGED <<volume, listing, reading>>

\* ntfs_op_readdir and nlist_cb, for the next index of a listing: metadata
\* files are not counted, and whatever fails on the way is an error and not
\* the end.
Nth(list, n) ==
    LET visible == {j \in DOMAIN list : ~list[j].hidden} IN
    {j \in visible : Cardinality({i \in visible : i < j}) = n}
Error == Listing(-1, <<>>, <<>>, FALSE)
Listed(bad, path, walk, isDir) ==
    LET here == Nth(walk.list, listing.at)
        e == walk.list[Min(here)] IN
    IF ~isDir THEN Error
    ELSE IF here = {} THEN IF walk.ok THEN Listing(listing.at, path, listing.names, TRUE) ELSE Error
    ELSE IF e.dir \/ SizeFits(bad, e.ref) THEN Listing(listing.at + 1, path, Append(listing.names, e.name), FALSE)
    ELSE Error
NtfsReaddir(path, bad) ==
    /\ Mounted /\ Fault(bad) /\ ~listing.over
    /\ listing = NoListing \/ listing.path = path
    /\ \E dir \in {Resolve(bad, path)} : \E next \in {Listed(bad, path, WalkIndex(bad, dir.ref), dir.dir)} :
        listing' = IF next = Error THEN listing ELSE next
    /\ UNCHANGED <<volume, mftRuns, reading>>
ListAgain == listing # NoListing /\ listing' = NoListing /\ UNCHANGED <<volume, mftRuns, reading, failures>>

\* ntfs_op_read: got is -1 when the file, its record or its data is not found.
ReadFile(bad, path, off, file) ==
    LET rec == ReadMftRecord(bad, mftRuns, file.ref)
        data == FindAttrExt(bad, rec, "data").attr
        units == ReadAttr(bad, data, off, MaxRead) IN
    IF file.ref = 0 \/ file.dir \/ rec = -1 THEN Reading(path, off, <<>>, bad = {}, -1)
    ELSE IF data = NoAttr THEN Reading(path, off, <<>>, bad = {}, -1)
    ELSE Reading(path, off, [k \in DOMAIN units |-> Content(units[k])], bad = {}, Len(units))
NtfsRead(path, off, bad) ==
    /\ Mounted /\ Fault(bad)
    /\ reading' = ReadFile(bad, path, off, Resolve(bad, path))
    /\ UNCHANGED <<volume, mftRuns, listing>>

-----------------------------------------------------------------------------
NtfsInit ==
    /\ volume \in Drives
    /\ mftRuns = <<>> /\ listing = NoListing /\ reading = NoReading /\ failures = 0

NtfsNext ==
    \E bad \in {{}} \cup {{s} : s \in DOMAIN volume.at} :
        \/ NtfsMount(bad)
        \/ \E path \in DOMAIN volume.entries : NtfsReaddir(path, bad)
        \/ \E path \in DOMAIN volume.truth : \E off \in 0 .. Len(volume.truth[path]) : NtfsRead(path, off, bad)
        \/ ListAgain

NtfsSpec == NtfsInit /\ [][NtfsNext]_ntfsVars

-----------------------------------------------------------------------------
\* When a volume means what it says: the layouts that nodes, entries and truth
\* describe.  Only units that a crash left behind are of another generation.
Entry == [name : STRING, ref : Nat, dir : BOOLEAN, hidden : BOOLEAN]
Shown(list) == {list[j].name : j \in {j \in DOMAIN list : ~list[j].hidden}}
RunOnDisk == [len : Nat, delta : Int, sparse : BOOLEAN]
ExtentOf == [vcn : Nat, len : Nat, lcn : Int, sparse : BOOLEAN]
Covers(e, cluster) == cluster >= e.vcn /\ cluster < e.vcn + e.len

\* The runs of an attribute spell its extents: one after the other, each
\* cluster counted from the last extent that is no hole.
LastCluster(extents, k) ==
    LET full == {j \in 1 .. k : ~extents[j].sparse} IN IF full = {} THEN 0 ELSE extents[Max(full)].lcn
Spelled(a) ==
    /\ a.vcn \in Nat
    /\ a.runs \in Seq(RunOnDisk) /\ a.extents \in Seq(ExtentOf)
    /\ Len(a.runs) = Len(a.extents)
    /\ \A k \in DOMAIN a.runs :
        a.extents[k] = Extent(IF k = 1 THEN a.vcn ELSE a.extents[k - 1].vcn + a.extents[k - 1].len, a.runs[k].len,
                              IF a.runs[k].sparse THEN 0 ELSE LastCluster(a.extents, k - 1) + a.runs[k].delta,
                              a.runs[k].sparse)

\* The clusters of an attribute hold its value, as far as it is initialized.
ExtentHolds(v, a, e) ==
    \A c \in e.vcn .. e.vcn + e.len - 1 : \A o \in 0 .. v.spc - 1 :
        LET sector == (e.lcn + c - e.vcn) * v.spc + o
            pos == c * v.spc + o + 1 IN
        /\ ~e.sparse => sector \in DOMAIN v.at
        /\ pos <= a.init => a.value[pos] = IF e.sparse THEN ZeroUnit ELSE v.at[sector]
AttrSound(v, a) ==
    /\ a.size \in Nat /\ a.init \in 0 .. a.size
    /\ a.value = [k \in 1 .. a.size |-> a.value[k]]
    /\ ~a.resident =>
        /\ Spelled(a)
        /\ \A i \in DOMAIN a.extents : ExtentHolds(v, a, a.extents[i])
        /\ \A pos \in 0 .. a.init - 1 : \E i \in DOMAIN a.extents : Covers(a.extents[i], pos \div v.spc)
        /\ \A pos \in a.init + 1 .. a.size : a.value[pos] = ZeroUnit

\* An attribute lies whole in one record: the file's own, or the only one its
\* list names for it.
OfType(rec, type) == {i \in DOMAIN rec.attrs : rec.attrs[i].type = type}
NamedFor(rec, type) == {rec.list[i].ref : i \in {i \in DOMAIN rec.list : rec.list[i].type = type /\ rec.list[i].ref # 0}}
Holder(v, n, type) ==
    LET named == NamedFor(v.records[n], type) IN IF named = {} THEN n ELSE CHOOSE r \in named : TRUE
TheAttr(v, n, type) == FindAttrIn(v.records[Holder(v, n, type)], type)
InOneRecord(v, n, type) ==
    LET named == NamedFor(v.records[n], type) IN
    /\ n \in DOMAIN v.records /\ named \subseteq DOMAIN v.records
    /\ \A r, q \in named : r = q
    /\ \A i, j \in OfType(v.records[Holder(v, n, type)], type) : i = j
    /\ named # {} => OfType(v.records[n], type) = {}

\* Records lie where $MFT maps them; an intact one has all its units.
MftData(v) == FindAttrIn(v.records[0], "data")
AtHome(v, e, n) ==
    LET home == RecordSector(v, e, n) IN
    Covers(e, RecordCluster(v, n)) /\ ~e.sparse =>
        home \in Nat /\ (home \in DOMAIN v.at => v.at[home].what = <<"rec", n>>)
MftSound(v) ==
    /\ v.mft \in Nat /\ 0 \in DOMAIN v.records /\ AtHome(v, Extent(0, 1, v.mft, FALSE), 0)
    /\ MftData(v) # NoAttr /\ ~MftData(v).resident /\ Spelled(MftData(v)) /\ MftData(v).vcn = 0
    /\ \A n \in DOMAIN v.records :
        /\ n \in Nat /\ DOMAIN v.records[n].list \subseteq Nat
        /\ \A i \in DOMAIN MftData(v).extents : AtHome(v, MftData(v).extents[i], n)
IntactAt(v, e, n) ==
    LET home == RecordSector(v, e, n) IN
    Covers(e, RecordCluster(v, n)) =>
        /\ ~e.sparse
        /\ \A k \in 1 .. v.spr : LET u == v.at[home + k - 1] IN
            home + k - 1 \in DOMAIN v.at /\ u.what = <<"rec", n>> /\ u.part = k /\ u.gen = v.at[home].gen
IntactRecord(v, n) ==
    LET extents == MftData(v).extents IN
    /\ \E i \in DOMAIN extents : Covers(extents[i], RecordCluster(v, n))
    /\ \A i \in DOMAIN extents : IntactAt(v, extents[i], n)
Intact(v, n) == IntactRecord(v, n) /\ \A i \in DOMAIN v.records[n].list :
    v.records[n].list[i].ref # 0 => IntactRecord(v, v.records[n].list[i].ref)

\* A directory: its root node, then its index blocks.
BlockCount(v, alloc) == alloc.size \div v.spr
BlockUnit(v, alloc, k, i) == alloc.value[(k - 1) * v.spr + i]
BlockLists(v, alloc) ==
    IF alloc = NoAttr THEN <<>> ELSE [k \in 1 .. BlockCount(v, alloc) |-> v.blocks[BlockUnit(v, alloc, k, 1).what[2]]]
DirSound(v, n, list) ==
    LET root == TheAttr(v, n, "root")
        alloc == TheAttr(v, n, "alloc") IN
    /\ InOneRecord(v, n, "root") /\ InOneRecord(v, n, "alloc")
    /\ root # NoAttr /\ root.resident /\ root.value \in Seq(Entry)
    /\ alloc # NoAttr =>
        /\ AttrSound(v, alloc) /\ alloc.init = alloc.size /\ alloc.size = BlockCount(v, alloc) * v.spr
        /\ \A k \in 1 .. BlockCount(v, alloc) : BlockLists(v, alloc)[k] \in Seq(Entry)
    /\ list \in Seq(Entry) /\ list = Joined(root.value, BlockLists(v, alloc))
    /\ \A i, j \in DOMAIN list : list[i].name = list[j].name => i = j

\* The j-th entry of a directory comes before the first block that is torn.
IntactBlock(v, alloc, k) ==
    \A i \in 1 .. v.spr : LET u == BlockUnit(v, alloc, k, i) IN
        /\ u.what[1] = "indx" /\ u.what = BlockUnit(v, alloc, k, 1).what
        /\ u.part = i /\ u.gen = BlockUnit(v, alloc, k, 1).gen
InReach(v, n, j) ==
    LET lists == BlockLists(v, TheAttr(v, n, "alloc")) IN
    \E m \in 0 .. Len(lists) :
        /\ \A k \in 1 .. m : IntactBlock(v, TheAttr(v, n, "alloc"), k)
        /\ j <= Len(Joined(TheAttr(v, n, "root").value, [k \in 1 .. m |-> lists[k]]))

\* Every step of a path is an entry of the directory before it.
Above(path, k) == [i \in 1 .. k |-> path[i]]
StepSound(v, path, k) ==
    LET list == v.entries[Above(path, k - 1)] IN
    /\ Above(path, k - 1) \in DOMAIN v.entries /\ v.nodes[Above(path, k - 1)].dir
    /\ \E j \in DOMAIN list :
        /\ list[j].name = path[k] /\ v.nodes[Above(path, k)] = Spot(list[j].ref, list[j].dir)
        /\ path \notin v.torn => InReach(v, v.nodes[Above(path, k - 1)].ref, j)
PathSound(v, path) ==
    /\ path = [k \in 1 .. Len(path) |-> path[k]] /\ Len(path) \in Nat
    /\ \A k \in 0 .. Len(path) : Above(path, k) \in DOMAIN v.nodes
    /\ \A k \in 1 .. Len(path) : StepSound(v, path, k)
FileSound(v, path) ==
    LET n == v.nodes[path].ref
        data == TheAttr(v, n, "data") IN
    /\ n # 0 /\ ~v.nodes[path].dir /\ InOneRecord(v, n, "data") /\ data # NoAttr /\ AttrSound(v, data)
    /\ v.truth[path] = [k \in 1 .. data.size |-> Content(data.value[k])]
    /\ path \notin v.torn => \A k \in 0 .. Len(path) : Intact(v, v.nodes[Above(path, k)].ref)
VolumeSound(v) ==
    /\ v.spc \in Nat \ {0} /\ v.spr \in Nat \ {0} /\ MftSound(v)
    /\ <<>> \in DOMAIN v.nodes /\ v.nodes[<<>>] = Spot(MFT_REC_ROOT, TRUE)
    /\ \A path \in DOMAIN v.nodes : PathSound(v, path)
    /\ \A path \in DOMAIN v.entries : path \in DOMAIN v.nodes /\ DirSound(v, v.nodes[path].ref, v.entries[path])
    /\ \A path \in DOMAIN v.truth : path \in DOMAIN v.nodes /\ FileSound(v, path)
NtfsSound == MaxRead \in Nat /\ \A v \in Drives : VolumeSound(v)

-----------------------------------------------------------------------------
\* What a read returns is what the file holds from the offset asked: holes
\* and what was never initialized as zeroes, fragments in their order, a file
\* whose attributes live in another record as any other (ntfs.c:18).  A read
\* is short only when a sector failed, and fails on a sound file only then.
ReadsTrue ==
    LET whole == volume.truth[reading.path]
        want == Smaller(MaxRead, Len(whole) - reading.off) IN
    reading # NoReading =>
        /\ Len(reading.units) <= Len(whole) - reading.off
        /\ \A k \in DOMAIN reading.units : reading.units[k] = whole[reading.off + k]
        /\ reading.sound /\ reading.path \notin volume.torn => reading.got = want
        /\ reading.sound => reading.got \in {-1, want}

\* A listing that came to its end named every visible entry of the directory
\* once: a block that cannot be read, or was torn, must not look like the end
\* of a shorter directory.
ListsTrue ==
    LET names == Shown(volume.entries[listing.path]) IN
    listing.over => /\ {listing.names[i] : i \in DOMAIN listing.names} = names
                    /\ Len(listing.names) = Cardinality(names)
=============================================================================
