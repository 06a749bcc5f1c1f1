----------------------------- MODULE KvfsProofs -----------------------------
(***************************************************************************)
(* For any disk, any directory size, any contents and any faults: while    *)
(* KvFS accepts calls its RAM directory is the directory on the disk, the  *)
(* disk stays mountable, and KvFS implements the table of whole files.  So *)
(* the installer over it says "done" only of a disk that boots, and takes  *)
(* no file away but by formatting.                                         *)
(***************************************************************************)
EXTENDS Setup, FiniteSetTheorems, TLAPS

\* Where a format is: the sectors below k are cleared, and RAM is clear.
Formatting ==
    pc \in {"super", "dirs"} =>
        /\ ~mounted /\ k \in Nat
        /\ pc = "super" => k = 0
        /\ pc = "dirs" => super /\ \A i \in Slots : Group(i) < k => dsk[i] = dir[i]

\* A call between its first command and its commit.
Calling == pc \in {"body", "commit"} => mounted /\ call.slot \in Slots

\* A directory, whatever its entries hold.
Table(d) == d = [i \in Slots |-> d[i]]

RamInv ==
    /\ Table(dsk) /\ Table(dir)
    /\ pc \in {"idle", "body", "commit", "super", "dirs"}
    /\ RamMatchesDisk /\ Formatting /\ Calling

\* Every entry lies in one of the directory's sectors.
LEMMA GroupBound == ASSUME NEW i \in Slots PROVE Group(i) \in Nat /\ Group(i) < DIR_SECTORS
<1> DEFINE P == PER_SECTOR
           D == DIR_SECTORS
           q == i \div P
<1>1. P \in Nat /\ P > 0 /\ D \in Nat /\ D > 0 BY SizeAssumption
<1>2. i \in Nat /\ i < P * D BY <1>1 DEF Slots, KVFS_MAX_FILES
<1>3. q \in Nat /\ i = P * q + (i % P) /\ i % P >= 0 BY <1>1, <1>2
<1>4. q < D
  <2>1. SUFFICES ASSUME q >= D PROVE FALSE BY <1>1, <1>3
  <2>2. P * q >= P * D BY <1>1, <1>3, <2>1
  <2> QED BY <1>1, <1>2, <1>3, <2>2
<1> QED BY <1>3, <1>4 DEF Group

\* commit_entry changes the disk in the one entry it changes in RAM.
LEMMA CommitGroup ==
    ASSUME Table(dsk), dir = dsk, NEW s \in Slots, NEW e
    PROVE  GroupFrom([dir EXCEPT ![s] = e], Group(s)) = [dir EXCEPT ![s] = e] BY DEF GroupFrom, Table

LEMMA InitRamInv == Init => RamInv BY DEF Init, RamInv, RamMatchesDisk, Formatting, Calling, Table

LEMMA NextRamInv == RamInv /\ [Next]_vars => RamInv'
<1> SUFFICES ASSUME RamInv, [Next]_vars PROVE RamInv' OBVIOUS
<1> USE DEF RamInv, RamMatchesDisk, Formatting, Calling
<1>1. CASE KvfsMount BY <1>1 DEF KvfsMount, Return, Table
<1>2. CASE KvfsFormat BY <1>2 DEF KvfsFormat, Table
<1>3. CASE WriteSuper
  <2>1. \A i \in Slots : Group(i) \in Nat BY GroupBound
  <2>2. CASE super' = TRUE /\ pc' = "dirs" /\ UNCHANGED <<call, k, reply>>
    <3>1. k' = 0 /\ \A i \in Slots : ~(Group(i) < k') BY <1>3, <2>1, <2>2 DEF WriteSuper
    <3> QED BY <1>3, <2>2, <3>1 DEF WriteSuper, Table
  <2>3. CASE Return("error") BY <1>3, <2>3 DEF WriteSuper, Return, Table
  <2> QED BY <1>3, <2>2, <2>3 DEF WriteSuper
<1>4. CASE WriteDir
  <2>1. \A i \in Slots : Group(i) \in Nat /\ Group(i) < DIR_SECTORS BY GroupBound
  <2>2. Table(GroupFrom(dir, k)) BY DEF GroupFrom, Table
  <2>3. \A i \in Slots : Group(i) < k + 1 => GroupFrom(dir, k)[i] = dir[i] BY <1>4, <2>1 DEF WriteDir, GroupFrom
  <2>4. CASE /\ dsk' = GroupFrom(dir, k)
             /\ IF k + 1 = DIR_SECTORS
                THEN mounted' = TRUE /\ Return("ok")
                ELSE k' = k + 1 /\ UNCHANGED <<mounted, call, pc, reply>>
    <3>1. CASE k + 1 = DIR_SECTORS /\ mounted' = TRUE /\ Return("ok")
      <4>1. \A i \in Slots : dsk'[i] = dir[i] BY <2>1, <2>3, <2>4, <3>1
      <4>2. dsk' = dir BY <2>2, <2>4, <4>1 DEF Table
      <4> QED BY <1>4, <3>1, <4>2 DEF WriteDir, Return, Table
    <3>2. CASE k' = k + 1 /\ UNCHANGED <<mounted, call, pc, reply>>
      BY <1>4, <2>2, <2>3, <2>4, <3>2 DEF WriteDir, Table
    <3> QED BY <2>4, <3>1, <3>2
  <2>5. CASE dsk' \in {dsk, GroupFrom(dir, k)} /\ Return("error") /\ UNCHANGED mounted
    BY <1>4, <2>2, <2>5 DEF WriteDir, Return, Table
  <2> QED BY <1>4, <2>4, <2>5 DEF WriteDir
<1>5. ASSUME NEW n \in Names, NEW c \in Contents, KvfsWrite(n, c) PROVE RamInv'
  <2>1. PICK slot \in SlotFor(n), start \in FindSpace(dir, Length[c]) :
            call' = [op |-> "write", name |-> n, data |-> c, slot |-> slot,
                     entry |-> Entry(n, start, Length[c])] BY <1>5 DEF KvfsWrite
  <2>2. call'.slot \in Slots
    <3>1. DOMAIN dir = Slots BY DEF Table
    <3>2. slot \in Slots BY <3>1 DEF SlotFor, FirstUnused, FindEntry, Used
    <3> QED BY <2>1, <3>2
  <2> QED BY <1>5, <2>2 DEF KvfsWrite, Table
<1>6. ASSUME NEW n \in Names, NEW c \in Contents, KvfsRefuse(n, c) PROVE RamInv' BY <1>6 DEF KvfsRefuse, Return, Table
<1>7. CASE BodyWrite BY <1>7 DEF BodyWrite, Return, Table
<1>8. ASSUME NEW n \in Names, KvfsDelete(n) PROVE RamInv' BY <1>8 DEF KvfsDelete, FindEntry, Used, Table
<1>9. ASSUME NEW n \in Names, NEW to \in Names, KvfsRename(n, to) PROVE RamInv'
  BY <1>9 DEF KvfsRename, FindEntry, Used, Table
<1>10. CASE CommitEntry
  <2> DEFINE next == [dir EXCEPT ![call.slot] = call.entry]
  <2>1. GroupFrom(next, Group(call.slot)) = next BY <1>10, CommitGroup DEF CommitEntry
  <2>2. Table(next) BY DEF Table
  <2> QED BY <1>10, <2>1, <2>2 DEF CommitEntry, Return, Table
<1>11. CASE Crash BY <1>11 DEF Crash, Return, Table
<1>12. CASE UNCHANGED vars BY <1>12 DEF vars, Table
<1> QED BY <1>1, <1>2, <1>3, <1>4, <1>5, <1>6, <1>7, <1>8, <1>9, <1>10, <1>11, <1>12 DEF Next

\* While calls are accepted the RAM directory is the one on the disk, so no
\* directory sector that KvFS writes takes anything back.
THEOREM RamNeverStale == Spec => []RamMatchesDisk
<1>1. RamInv => RamMatchesDisk BY DEF RamInv
<1> QED BY InitRamInv, NextRamInv, <1>1, PTL DEF Spec

-----------------------------------------------------------------------------
(***************************************************************************)
(* Directories.                                                            *)
(***************************************************************************)
Directories == [Slots -> Entries]
Blank == [i \in Slots |-> Free]

LEMMA Sizes == SECTORS \in Nat /\ DIR_SECTORS \in Nat \ {0} /\ \A c \in Contents : Length[c] \in Nat \ {0}
BY SizeAssumption, LengthAssumption

LEMMA EntryFields ==
  ASSUME NEW n, NEW s, NEW l
  PROVE  Entry(n, s, l).name = n /\ Entry(n, s, l).start = s /\ Entry(n, s, l).sectors = l BY DEF Entry

\* An entry is free, damaged, or a name with an extent.
LEMMA EntryKinds ==
  ASSUME NEW e \in Entries
  PROVE  /\ e \in {Free, Damaged} \/ (e.name \in Names /\ e.start \in Sectors /\ e.sectors \in Sectors)
         /\ e = Entry(e.name, e.start, e.sectors)
         /\ e.start \in Nat /\ e.sectors \in Nat BY SizeAssumption DEF Entries, Entry, Free, Damaged, Sectors

LEMMA NamedEntry ==
  ASSUME NEW n \in Names, NEW s \in Sectors, NEW l \in Sectors
  PROVE  Entry(n, s, l) \in Entries /\ Entry(n, s, l) # Free
<1>1. n # NoName BY NameAssumption
<1> QED BY <1>1, EntryFields DEF Entries, Free

\* What Valid says of two entries in use.
LEMMA ValidEntries ==
  ASSUME NEW d \in Directories, Valid(d), NEW i \in Slots, d[i] # Free
  PROVE  /\ d[i].name \in Names /\ d[i].sectors >= 1 /\ d[i].start >= 1
         /\ End(d[i]) <= SECTORS + 1
         /\ \A j \in Slots : d[j] # Free /\ j # i =>
              d[i].name # d[j].name /\ ~Overlap(d[j], d[i].start, d[i].sectors) BY DEF Directories, Valid, Used

\* A directory that loses entries, or none, stays valid.
LEMMA ValidFewer ==
  ASSUME NEW d \in Directories, Valid(d), NEW e \in Directories,
         \A i \in Slots : e[i] = d[i] \/ e[i] = Free
  PROVE  Valid(e)
<1>1. Used(e) \subseteq Used(d) /\ \A i \in Used(e) : e[i] = d[i] BY DEF Used, Directories
<1> QED BY <1>1 DEF Valid

LEMMA BlankValid == Valid(Blank) /\ Blank \in Directories /\ \A i \in Slots : Blank[i] = Free
BY DEF Blank, Valid, Used, Directories, Entries

\* Extents do not overlap, whichever is asked about.
LEMMA OverlapSymmetric ==
  ASSUME NEW e, NEW s \in Nat, NEW l \in Nat, e.start \in Nat, e.sectors \in Nat, NEW f,
         f.start = s, f.sectors = l
  PROVE  Overlap(e, s, l) <=> Overlap(f, e.start, e.sectors) BY DEF Overlap, End

\* An entry put where find_space says, under a name that no other entry has.
LEMMA ValidWith ==
  ASSUME NEW d \in Directories, Valid(d), NEW slot \in Slots, NEW n \in Names,
         NEW start \in Sectors, NEW need \in Nat \ {0}, start + need <= SECTORS + 1,
         \A i \in Slots : d[i] # Free /\ i # slot => d[i].name # n /\ ~Overlap(d[i], start, need)
  PROVE  /\ Valid([d EXCEPT ![slot] = Entry(n, start, need)])
         /\ [d EXCEPT ![slot] = Entry(n, start, need)] \in Directories
         /\ Entry(n, start, need) # Free
<1> DEFINE new == Entry(n, start, need)
           e == [d EXCEPT ![slot] = new]
<1>1. need \in Sectors /\ start \in Nat /\ start >= 1 BY SizeAssumption DEF Sectors
<1>2. new.name = n /\ new.start = start /\ new.sectors = need BY EntryFields
<1>3. new \in Entries /\ new # Free BY <1>1, NamedEntry
<1> HIDE DEF new
<1>4. e \in Directories /\ e[slot] = new /\ \A i \in Slots : i # slot => e[i] = d[i] BY <1>3 DEF Directories
<1> HIDE DEF e
<1>5. \A i \in Slots : d[i].start \in Nat /\ d[i].sectors \in Nat BY EntryKinds DEF Directories
<1>6. \A i \in Used(e) : i \in Slots /\ e[i] # Free BY <1>4 DEF Used, Directories
<1>7. ASSUME NEW i \in Used(e)
      PROVE  /\ e[i].name \in Names /\ e[i].sectors >= 1 /\ e[i].start >= 1
             /\ End(e[i]) <= SECTORS + 1
  <2>1. CASE i = slot BY <1>1, <1>2, <1>4, <2>1 DEF End
  <2>2. CASE i # slot BY <1>4, <1>6, <1>7, <2>2, ValidEntries
  <2> QED BY <2>1, <2>2
<1>8. ASSUME NEW i \in Used(e), NEW j \in Used(e), j # i
      PROVE  e[i].name # e[j].name /\ ~Overlap(e[j], e[i].start, e[i].sectors)
  <2>1. CASE i = slot BY <1>2, <1>4, <1>6, <1>8, <2>1
  <2>2. CASE j = slot
    <3>1. i # slot /\ e[i] = d[i] /\ d[i] # Free /\ e[j] = new /\ i \in Slots BY <1>4, <1>6, <1>8, <2>2
    <3>2. d[i].name # n /\ ~Overlap(d[i], start, need) BY <3>1
    <3>3. ~Overlap(new, d[i].start, d[i].sectors) BY <1>1, <1>2, <1>5, <3>1, <3>2, OverlapSymmetric
    <3> QED BY <1>2, <3>1, <3>2, <3>3
  <2>3. CASE i # slot /\ j # slot BY <1>4, <1>6, <1>8, <2>3, ValidEntries
  <2> QED BY <2>1, <2>2, <2>3
<1>9. Valid(e) BY <1>7, <1>8 DEF Valid
<1> QED BY <1>3, <1>4, <1>9 DEF e, new

-----------------------------------------------------------------------------
(***************************************************************************)
(* The files of a directory d over a body b, once the superblock is valid. *)
(***************************************************************************)
Content(b, e) ==
    LET whole == {c \in Contents : Length[c] = e.sectors /\
                    \A j \in 1 .. e.sectors : b[e.start + j - 1] = <<c, j>>}
    IN  IF whole = {} THEN Mixed ELSE CHOOSE c \in whole : TRUE

StoreOf(d, b) ==
    [n \in Names |-> IF Valid(d) /\ FindEntry(d, n) # {}
                     THEN Content(b, d[CHOOSE i \in FindEntry(d, n) : TRUE]) ELSE Missing]
NoFiles == [n \in Names |-> Missing]

LEMMA FilesNow == Files = IF super THEN StoreOf(dsk, body) ELSE NoFiles
<1>1. ASSUME NEW e PROVE FileAt(e) = Content(body, e) BY DEF FileAt, Content
<1>2. CASE super
  <2>1. ASSUME NEW n \in Names PROVE Files[n] = StoreOf(dsk, body)[n] BY <1>1, <1>2 DEF Files, StoreOf
  <2> QED BY <1>2, <2>1 DEF Files, StoreOf
<1>3. CASE ~super BY <1>3 DEF Files, NoFiles
<1> QED BY <1>2, <1>3

LEMMA FilesStore ==
  /\ Files = IF super THEN StoreOf(dsk, body) ELSE NoFiles
  /\ Files' = IF super' THEN StoreOf(dsk', body') ELSE NoFiles
<1>1. (Files = IF super THEN StoreOf(dsk, body) ELSE NoFiles)' BY FilesNow, PTL
<1> QED BY FilesNow, <1>1 DEF NoFiles

LEMMA ContentSame ==
  ASSUME NEW b, NEW b2, NEW e, \A j \in 1 .. e.sectors : b2[e.start + j - 1] = b[e.start + j - 1]
  PROVE  Content(b2, e) = Content(b, e)
<1>1. \A c \in Contents : (\A j \in 1 .. e.sectors : b2[e.start + j - 1] = <<c, j>>)
                      <=> (\A j \in 1 .. e.sectors : b[e.start + j - 1] = <<c, j>>) OBVIOUS
<1> DEFINE whole(z) == {c \in Contents : Length[c] = e.sectors /\
                          \A j \in 1 .. e.sectors : z[e.start + j - 1] = <<c, j>>}
<1>2. whole(b2) = whole(b) BY <1>1
<1>3. \A z : Content(z, e) = IF whole(z) = {} THEN Mixed ELSE CHOOSE c \in whole(z) : TRUE BY DEF Content
<1> HIDE DEF whole
<1> QED BY <1>2, <1>3

LEMMA ContentExtent ==
  ASSUME NEW b, NEW e, NEW f, f.start = e.start, f.sectors = e.sectors
  PROVE  Content(b, f) = Content(b, e)
<1> DEFINE whole(z) == {c \in Contents : Length[c] = z.sectors /\
                          \A j \in 1 .. z.sectors : b[z.start + j - 1] = <<c, j>>}
<1>1. whole(f) = whole(e) OBVIOUS
<1>2. \A z : Content(b, z) = IF whole(z) = {} THEN Mixed ELSE CHOOSE c \in whole(z) : TRUE BY DEF Content
<1> HIDE DEF whole
<1> QED BY <1>1, <1>2

LEMMA ContentWhole ==
  ASSUME NEW b, NEW e, NEW c \in Contents, e.sectors = Length[c],
         \A j \in 1 .. e.sectors : b[e.start + j - 1] = <<c, j>>
  PROVE  Content(b, e) = c
<1> DEFINE whole == {x \in Contents : Length[x] = e.sectors /\
                       \A j \in 1 .. e.sectors : b[e.start + j - 1] = <<x, j>>}
<1>1. 1 \in 1 .. e.sectors BY Sizes
<1>2. c \in whole OBVIOUS
<1>3. ASSUME NEW x \in whole PROVE x = c
  <2>1. b[e.start + 1 - 1] = <<x, 1>> /\ b[e.start + 1 - 1] = <<c, 1>> BY <1>1, <1>3
  <2> QED BY <2>1
<1>4. Content(b, e) = IF whole = {} THEN Mixed ELSE CHOOSE x \in whole : TRUE BY DEF Content
<1> HIDE DEF whole
<1> QED BY <1>2, <1>3, <1>4

LEMMA StoreTable ==
  ASSUME NEW d, NEW b
  PROVE  StoreOf(d, b) = [n \in Names |-> StoreOf(d, b)[n]] BY DEF StoreOf

LEMMA LookupAt ==
  ASSUME NEW d \in Directories, Valid(d), NEW b, NEW i \in Slots, d[i] # Free
  PROVE  StoreOf(d, b)[d[i].name] = Content(b, d[i]) /\ d[i].name \in Names
<1> DEFINE n == d[i].name
<1>1. n \in Names /\ i \in FindEntry(d, n) BY ValidEntries DEF FindEntry, Used, Directories
<1>2. \A j \in FindEntry(d, n) : j = i BY ValidEntries DEF FindEntry, Used, Directories
<1> HIDE DEF n
<1>3. (CHOOSE j \in FindEntry(d, n) : TRUE) = i BY <1>1, <1>2
<1>4. StoreOf(d, b)[n] = Content(b, d[i]) BY <1>1, <1>3 DEF StoreOf
<1> QED BY <1>1, <1>4 DEF n

LEMMA LookupNone ==
  ASSUME NEW d \in Directories, NEW b, NEW n \in Names,
         ~Valid(d) \/ \A i \in Slots : d[i] # Free => d[i].name # n
  PROVE  StoreOf(d, b)[n] = Missing
<1>1. ~Valid(d) \/ FindEntry(d, n) = {} BY DEF FindEntry, Used, Directories
<1> QED BY <1>1 DEF StoreOf

\* Two directories that agree on n, over the same body, agree on its file.
LEMMA LookupSame ==
  ASSUME NEW d \in Directories, NEW e \in Directories, Valid(d), Valid(e), NEW b, NEW n \in Names,
         \A i \in Slots : (d[i] # Free /\ d[i].name = n) \/ (e[i] # Free /\ e[i].name = n) => e[i] = d[i]
  PROVE  StoreOf(e, b)[n] = StoreOf(d, b)[n]
<1>1. CASE \E i \in Slots : d[i] # Free /\ d[i].name = n
  <2>1. PICK i \in Slots : d[i] # Free /\ d[i].name = n BY <1>1
  <2>2. e[i] = d[i] BY <2>1
  <2> QED BY <2>1, <2>2, LookupAt
<1>2. CASE ~\E i \in Slots : d[i] # Free /\ d[i].name = n
  <2>1. \A i \in Slots : ~(e[i] # Free /\ e[i].name = n) BY <1>2
  <2> QED BY <1>2, <2>1, LookupNone
<1> QED BY <1>1, <1>2

\* Writing sector s does not touch a directory whose extents avoid it.
LEMMA StoreBody ==
  ASSUME NEW d \in Directories, NEW b, NEW s \in Sectors,
         NEW b2, \A t \in Sectors : t # s => b2[t] = b[t],
         Valid(d) => \A i \in Slots : d[i] # Free => ~(d[i].start <= s /\ s < End(d[i]))
  PROVE  StoreOf(d, b2) = StoreOf(d, b)
<1>1. ASSUME NEW n \in Names PROVE StoreOf(d, b2)[n] = StoreOf(d, b)[n]
  <2>1. CASE Valid(d) /\ \E i \in Slots : d[i] # Free /\ d[i].name = n
    <3>1. PICK i \in Slots : d[i] # Free /\ d[i].name = n BY <2>1
    <3>2. d[i].start \in Nat /\ d[i].sectors \in Nat BY EntryKinds DEF Directories
    <3>3. d[i].start >= 1 /\ End(d[i]) <= SECTORS + 1 BY <2>1, <3>1, ValidEntries
    <3>4. ASSUME NEW j \in 1 .. d[i].sectors
          PROVE  b2[d[i].start + j - 1] = b[d[i].start + j - 1]
      <4>1. d[i].start + j - 1 # s BY <2>1, <3>1, <3>2 DEF End
      <4>2. d[i].start + j - 1 \in Sectors BY <3>2, <3>3, SizeAssumption DEF End, Sectors
      <4> QED BY <4>1, <4>2
    <3>5. Content(b2, d[i]) = Content(b, d[i]) BY <3>4, ContentSame
    <3> QED BY <2>1, <3>1, <3>5, LookupAt
  <2>2. CASE ~(Valid(d) /\ \E i \in Slots : d[i] # Free /\ d[i].name = n) BY <2>2, LookupNone
  <2> QED BY <2>1, <2>2
<1> QED BY <1>1 DEF StoreOf

\* kvfs_write's entry: the table with one file replaced or added.
LEMMA StoreWrite ==
  ASSUME NEW d \in Directories, Valid(d), NEW slot \in Slots, NEW e \in Entries, e # Free,
         NEW next \in Directories, next[slot] = e, \A i \in Slots : i # slot => next[i] = d[i],
         Valid(next), NEW b, e.name \in Names,
         d[slot] = Free \/ d[slot].name = e.name
  PROVE  StoreOf(next, b) = [StoreOf(d, b) EXCEPT ![e.name] = Content(b, e)]
<1> DEFINE n == e.name
<1>1. StoreOf(next, b)[n] = Content(b, e) BY LookupAt
<1>2. ASSUME NEW m \in Names, m # n PROVE StoreOf(next, b)[m] = StoreOf(d, b)[m]
  <2>1. \A i \in Slots :
          (d[i] # Free /\ d[i].name = m) \/ (next[i] # Free /\ next[i].name = m) => next[i] = d[i] BY <1>2
  <2> QED BY <2>1, LookupSame
<1>3. StoreOf(next, b) = [StoreOf(d, b) EXCEPT ![n] = Content(b, e)] BY <1>1, <1>2, StoreTable
<1> QED BY <1>3

LEMMA StoreDelete ==
  ASSUME NEW d \in Directories, Valid(d), NEW slot \in Slots, d[slot] # Free, NEW b,
         NEW next \in Directories, next[slot] = Free, \A i \in Slots : i # slot => next[i] = d[i]
  PROVE  StoreOf(next, b) = [StoreOf(d, b) EXCEPT ![d[slot].name] = Missing]
<1> DEFINE n == d[slot].name
<1>1. Valid(next) BY ValidFewer
<1>2. n \in Names /\ \A i \in Slots : d[i] # Free /\ i # slot => d[i].name # n BY ValidEntries
<1>3. StoreOf(next, b)[n] = Missing BY <1>2, LookupNone
<1>4. ASSUME NEW m \in Names, m # n PROVE StoreOf(next, b)[m] = StoreOf(d, b)[m]
  <2>1. \A i \in Slots :
          (d[i] # Free /\ d[i].name = m) \/ (next[i] # Free /\ next[i].name = m) => next[i] = d[i] BY <1>4
  <2> QED BY <1>1, <2>1, LookupSame
<1>5. StoreOf(next, b) = [StoreOf(d, b) EXCEPT ![n] = Missing] BY <1>3, <1>4 DEF StoreOf
<1> QED BY <1>5

LEMMA StoreRename ==
  ASSUME NEW d \in Directories, Valid(d), NEW slot \in Slots, d[slot] # Free, NEW to \in Names,
         to # d[slot].name, NEW e, e = Entry(to, d[slot].start, d[slot].sectors),
         e \in Entries, e # Free, NEW b,
         NEW next \in Directories, next[slot] = e, \A i \in Slots : i # slot => next[i] = d[i],
         Valid(next)
  PROVE  StoreOf(next, b) =
            [StoreOf(d, b) EXCEPT ![to] = StoreOf(d, b)[d[slot].name], ![d[slot].name] = Missing]
<1> DEFINE n == d[slot].name
<1>1. e.name = to /\ e.start = d[slot].start /\ e.sectors = d[slot].sectors BY EntryFields
<1>2. n \in Names /\ \A i \in Slots : d[i] # Free /\ i # slot => d[i].name # n BY ValidEntries
<1>3. StoreOf(next, b)[to] = StoreOf(d, b)[n]
  <2>1. StoreOf(next, b)[to] = Content(b, e) BY <1>1, LookupAt
  <2>2. StoreOf(d, b)[n] = Content(b, d[slot]) BY LookupAt
  <2>3. Content(b, e) = Content(b, d[slot]) BY <1>1, ContentExtent
  <2> QED BY <2>1, <2>2, <2>3
<1>4. StoreOf(next, b)[n] = Missing BY <1>1, <1>2, LookupNone
<1>5. ASSUME NEW m \in Names, m # n, m # to PROVE StoreOf(next, b)[m] = StoreOf(d, b)[m]
  <2>1. \A i \in Slots :
          (d[i] # Free /\ d[i].name = m) \/ (next[i] # Free /\ next[i].name = m) => next[i] = d[i] BY <1>1, <1>5
  <2> QED BY <2>1, LookupSame
<1>6. StoreOf(next, b) = [StoreOf(d, b) EXCEPT ![to] = StoreOf(d, b)[n], ![n] = Missing]
  BY <1>2, <1>3, <1>4, <1>5, StoreTable
<1> QED BY <1>6

\* Formatting takes whole files.
LEMMA StoreFewer ==
  ASSUME NEW d \in Directories, Valid(d), NEW e \in Directories,
         \A i \in Slots : e[i] = d[i] \/ e[i] = Free, NEW b, NEW n \in Names
  PROVE  StoreOf(e, b)[n] \in {StoreOf(d, b)[n], Missing}
<1>1. Valid(e) BY ValidFewer
<1>2. CASE \E i \in Slots : e[i] # Free /\ e[i].name = n
  <2>1. PICK i \in Slots : e[i] # Free /\ e[i].name = n BY <1>2
  <2>2. e[i] = d[i] BY <2>1
  <2> QED BY <1>1, <2>1, <2>2, LookupAt
<1>3. CASE ~\E i \in Slots : e[i] # Free /\ e[i].name = n BY <1>3, LookupNone
<1> QED BY <1>2, <1>3

LEMMA StoreNone ==
  ASSUME NEW d \in Directories, \A i \in Slots : d[i] \in {Free, Damaged}, NEW b
  PROVE  StoreOf(d, b) = NoFiles
<1>1. ASSUME NEW n \in Names PROVE StoreOf(d, b)[n] = Missing
  <2>1. Free.name # n /\ Damaged.name # n BY NameAssumption, EntryFields DEF Free, Damaged
  <2> QED BY <2>1, LookupNone
<1> QED BY <1>1 DEF StoreOf, NoFiles

-----------------------------------------------------------------------------
(***************************************************************************)
(* The inductive invariant.                                                *)
(***************************************************************************)
\* The disk is KvFS's own and mounts, or it has never held a file.
DiskTrue ==
    /\ (super /\ Valid(dsk)) \/ \A i \in Slots : dsk[i] \in {Free, Damaged}
    /\ mounted => Valid(dsk)

FormatTrue ==
    pc \in {"super", "dirs"} => call = [op |-> "format"] /\ dir = Blank /\ k \in 0 .. DIR_SECTORS - 1
IdleTrue == pc = "idle" => call = NoCall

\* A write: nobody's sectors, a name that is free or the slot's own, and the
\* sectors below k written.
WriteOf(n, c, s, start) ==
    [op |-> "write", name |-> n, data |-> c, slot |-> s, entry |-> Entry(n, start, Length[c])]
Writing(n, c, s, start) ==
    /\ call = WriteOf(n, c, s, start)
    /\ start + Length[c] <= SECTORS + 1
    /\ \A i \in Slots : dir[i] # Free => ~Overlap(dir[i], start, Length[c])
    /\ \A i \in Slots : dir[i] # Free => (dir[i].name = n <=> i = s)
    /\ k \in 0 .. Length[c] /\ (pc = "body" <=> k # Length[c])
    /\ \A j \in 1 .. k : body[start + j - 1] = <<c, j>>
WriteTrue == \E n \in Names, c \in Contents, s \in Slots, start \in Sectors : Writing(n, c, s, start)

DeleteOf(n, s) == [op |-> "delete", name |-> n, slot |-> s, entry |-> Free]
Deleting(n, s) == call = DeleteOf(n, s) /\ dir[s] # Free /\ dir[s].name = n
DeleteTrue == \E n \in Names, s \in Slots : Deleting(n, s)

RenameOf(n, to, s) ==
    [op |-> "rename", name |-> n, to |-> to, slot |-> s,
     entry |-> Entry(to, dir[s].start, dir[s].sectors)]
Renaming(n, to, s) ==
    /\ call = RenameOf(n, to, s) /\ n # to
    /\ dir[s] # Free /\ dir[s].name = n
    /\ \A i \in Slots : dir[i] # Free => dir[i].name # to
RenameTrue == \E n, to \in Names, s \in Slots : Renaming(n, to, s)

CallTrue ==
    /\ pc = "body" => WriteTrue
    /\ pc = "commit" => WriteTrue \/ (k = 0 /\ (DeleteTrue \/ RenameTrue))

StoreInv == TypeOK /\ RamInv /\ DiskTrue /\ FormatTrue /\ IdleTrue /\ CallTrue

LEMMA InitStoreInv == Init => StoreInv
<1> SUFFICES ASSUME Init PROVE StoreInv OBVIOUS
<1>1. RamInv BY InitRamInv
<1>2. Blank \in Directories /\ [i \in Slots |-> Damaged] \in Directories BY BlankValid DEF Directories, Entries
<1>3. TypeOK
  <2>1. dsk \in Directories /\ dir \in Directories BY <1>2 DEF Init, Blank
  <2>2. body \in [Sectors -> Blocks] BY SizeAssumption DEF Init, Blocks, Junk
  <2>3. call.op = "none" BY DEF Init, NoCall
  <2>4. k \in 0 .. SECTORS + DIR_SECTORS /\ faults \in 0 .. MaxFaults BY SizeAssumption DEF Init
  <2> QED BY <2>1, <2>2, <2>3, <2>4 DEF Init, TypeOK, Directories
<1>4. DiskTrue BY DEF Init, DiskTrue
<1> QED BY <1>1, <1>3, <1>4 DEF Init, StoreInv, FormatTrue, IdleTrue, CallTrue

\* What Return and the counters keep.
LEMMA Counters ==
  /\ 0 \in 0 .. SECTORS + DIR_SECTORS
  /\ faults \in 0 .. MaxFaults /\ Fault => faults' \in 0 .. MaxFaults BY SizeAssumption DEF Fault

\* The end of a call leaves the rest of the invariant to its disk.
LEMMA Returned ==
  ASSUME StoreInv, RamInv', NEW r \in {"none", "ok", "error"}, Return(r), NoFault \/ Fault,
         super' \in BOOLEAN, mounted' \in BOOLEAN, dsk' \in Directories, dir' \in Directories,
         body' \in [Sectors -> Blocks], DiskTrue'
  PROVE  StoreInv'
<1>1. pc' = "idle" /\ call' = NoCall /\ k' = 0 /\ reply' = r BY DEF Return
<1>2. call'.op = "none" BY <1>1 DEF NoCall
<1>3. faults' \in 0 .. MaxFaults BY Counters DEF StoreInv, TypeOK, NoFault
<1>4. TypeOK' BY <1>1, <1>2, <1>3, Counters DEF TypeOK, Directories
<1> QED BY <1>1, <1>4 DEF StoreInv, FormatTrue, IdleTrue, CallTrue

\* A directory sector of RAM written over the one on the disk.
LEMMA GroupWritten ==
  ASSUME NEW d \in Directories, dsk \in Directories, NEW g
  PROVE  /\ GroupFrom(d, g) \in Directories
         /\ \A i \in Slots : GroupFrom(d, g)[i] = d[i] \/ GroupFrom(d, g)[i] = dsk[i] BY DEF GroupFrom, Directories

LEMMA MountStep == StoreInv /\ RamInv' /\ KvfsMount => StoreInv'
<1> SUFFICES ASSUME StoreInv, RamInv', KvfsMount PROVE StoreInv' OBVIOUS
<1>1. dsk \in Directories /\ dir \in Directories BY DEF StoreInv, TypeOK, Directories
<1>2. UNCHANGED <<super, dsk, body>> BY DEF KvfsMount
<1>3. /\ super' \in BOOLEAN /\ dsk' \in Directories /\ body' \in [Sectors -> Blocks]
      /\ (super' /\ Valid(dsk')) \/ \A i \in Slots : dsk'[i] \in {Free, Damaged}
  BY <1>1, <1>2 DEF StoreInv, TypeOK, DiskTrue
<1>4. CASE NoFault /\ dir' = dsk /\ mounted' = (super /\ Valid(dsk))
           /\ Return(IF mounted' THEN "ok" ELSE "error")
  <2>1. mounted' \in BOOLEAN /\ DiskTrue' BY <1>2, <1>3, <1>4 DEF DiskTrue
  <2>2. (IF mounted' THEN "ok" ELSE "error") \in {"none", "ok", "error"} OBVIOUS
  <2> QED BY <1>1, <1>3, <1>4, <2>1, <2>2, Returned
<1>5. ASSUME Fault, mounted' = FALSE, Return("error"), NEW s \in 0 .. DIR_SECTORS - 1,
             dir' = [i \in Slots |-> IF Group(i) < s THEN dsk[i] ELSE dir[i]]
      PROVE  StoreInv'
  <2>1. dir' \in Directories BY <1>1, <1>5 DEF Directories
  <2>2. DiskTrue' BY <1>3, <1>5 DEF DiskTrue
  <2> QED BY <1>3, <1>5, <2>1, <2>2, Returned
<1> QED BY <1>4, <1>5 DEF KvfsMount

LEMMA FormatStep == StoreInv /\ RamInv' /\ KvfsFormat => StoreInv'
<1> SUFFICES ASSUME StoreInv, RamInv', KvfsFormat PROVE StoreInv' OBVIOUS
<1>1. dir' = Blank /\ Blank \in Directories BY BlankValid DEF KvfsFormat, Blank
<1>2. call'.op = "format" /\ call' = [op |-> "format"] /\ pc' = "super" BY DEF KvfsFormat
<1>3. TypeOK' BY <1>1, <1>2, Counters DEF KvfsFormat, StoreInv, TypeOK, Directories
<1>4. DiskTrue' BY DEF KvfsFormat, StoreInv, DiskTrue
<1> QED BY <1>1, <1>2, <1>3, <1>4, SizeAssumption DEF KvfsFormat, StoreInv, FormatTrue, IdleTrue, CallTrue

LEMMA SuperStep == StoreInv /\ RamInv' /\ WriteSuper => StoreInv'
<1> SUFFICES ASSUME StoreInv, RamInv', WriteSuper PROVE StoreInv' OBVIOUS
<1>1. UNCHANGED <<dsk, body, dir, mounted>> /\ super' \in BOOLEAN /\ (super => super')
  BY DEF WriteSuper, StoreInv, TypeOK
<1>2. dsk \in Directories /\ dir \in Directories BY DEF StoreInv, TypeOK, Directories
<1>3. DiskTrue' BY <1>1 DEF StoreInv, DiskTrue
<1>4. CASE NoFault /\ pc' = "dirs" /\ UNCHANGED <<call, k, reply>>
  <2>1. TypeOK' BY <1>1, <1>4 DEF NoFault, StoreInv, TypeOK
  <2>2. FormatTrue' BY <1>1, <1>4 DEF WriteSuper, StoreInv, FormatTrue
  <2> QED BY <1>3, <1>4, <2>1, <2>2 DEF StoreInv, IdleTrue, CallTrue
<1>5. CASE Fault /\ Return("error")
  <2>1. mounted' \in BOOLEAN /\ dsk' \in Directories /\ dir' \in Directories /\ body' \in [Sectors -> Blocks]
    BY <1>1, <1>2 DEF StoreInv, TypeOK
  <2> QED BY <1>1, <1>3, <1>5, <2>1, Returned
<1> QED BY <1>4, <1>5 DEF WriteSuper

LEMMA DirStep == StoreInv /\ RamInv' /\ WriteDir => StoreInv'
<1> SUFFICES ASSUME StoreInv, RamInv', WriteDir PROVE StoreInv' OBVIOUS
<1> DEFINE g == GroupFrom(dir, k)
<1>1. dsk \in Directories /\ dir \in Directories /\ dir = Blank /\ call = [op |-> "format"]
      /\ k \in 0 .. DIR_SECTORS - 1 BY DEF WriteDir, StoreInv, TypeOK, FormatTrue, Directories
<1>2. g \in Directories /\ \A i \in Slots : g[i] = Free \/ g[i] = dsk[i] BY <1>1, GroupWritten, BlankValid
<1> HIDE DEF g
<1>3. UNCHANGED <<super, body, dir>> /\ dsk' \in {dsk, g} BY DEF WriteDir, g
<1>4. dsk' \in Directories /\ \A i \in Slots : dsk'[i] = Free \/ dsk'[i] = dsk[i] BY <1>1, <1>2, <1>3
<1>5. Valid(dsk) => Valid(dsk') BY <1>1, <1>4, ValidFewer
<1>6. (super' /\ Valid(dsk')) \/ \A i \in Slots : dsk'[i] \in {Free, Damaged}
  BY <1>3, <1>4, <1>5 DEF StoreInv, DiskTrue
<1>7. pc = "dirs" /\ ~mounted /\ mounted' \in BOOLEAN BY DEF WriteDir, StoreInv, TypeOK, RamInv, Formatting
<1>8. /\ super' \in BOOLEAN /\ body' \in [Sectors -> Blocks] /\ dir' \in Directories
      /\ dsk' \in Directories BY <1>1, <1>3, <1>4 DEF StoreInv, TypeOK
<1>9. CASE (Return("ok") /\ NoFault) \/ (Return("error") /\ Fault)
  <2>1. mounted' => Valid(dsk') BY <1>1, <1>3, BlankValid DEF RamInv, RamMatchesDisk
  <2>2. DiskTrue' BY <1>6, <2>1 DEF DiskTrue
  <2> QED BY <1>7, <1>8, <1>9, <2>2, Returned
<1>10. CASE NoFault /\ k + 1 # DIR_SECTORS /\ k' = k + 1 /\ UNCHANGED <<mounted, call, pc, reply>>
  <2>1. k' \in 0 .. SECTORS + DIR_SECTORS /\ k' \in 0 .. DIR_SECTORS - 1 BY <1>1, <1>10, SizeAssumption
  <2>2. TypeOK' BY <1>7, <1>8, <1>10, <2>1 DEF StoreInv, TypeOK, NoFault, Directories
  <2>3. DiskTrue' BY <1>6, <1>7, <1>10 DEF DiskTrue
  <2> QED BY <1>1, <1>3, <1>7, <1>10, <2>1, <2>2, <2>3 DEF StoreInv, FormatTrue, IdleTrue, CallTrue
<1>11. CASE /\ NoFault
            /\ IF k + 1 = DIR_SECTORS THEN mounted' = TRUE /\ Return("ok")
               ELSE k' = k + 1 /\ UNCHANGED <<mounted, call, pc, reply>>
  <2>1. CASE k + 1 = DIR_SECTORS BY <1>9, <1>11, <2>1
  <2>2. CASE k + 1 # DIR_SECTORS BY <1>10, <1>11, <2>2
  <2> QED BY <2>1, <2>2
<1> QED BY <1>9, <1>11 DEF WriteDir

\* The directory that calls work on.
LEMMA Accepting ==
  ASSUME StoreInv, mounted
  PROVE  dir = dsk /\ super /\ Valid(dir) /\ dir \in Directories
BY DEF StoreInv, TypeOK, RamInv, RamMatchesDisk, DiskTrue, Directories

\* The entry a write is about to use: in bounds, and one of the entries.
LEMMA NewEntry ==
  ASSUME NEW n \in Names, NEW c \in Contents, NEW start \in Sectors, start + Length[c] <= SECTORS + 1
  PROVE  LET e == Entry(n, start, Length[c])
         IN  e \in Entries /\ e # Free /\ End(e) - 1 \in Sectors
<1>1. Length[c] \in Sectors /\ Length[c] \in Nat /\ start \in Nat /\ start >= 1 BY Sizes DEF Sectors
<1>2. start + Length[c] - 1 \in Sectors BY <1>1, Sizes DEF Sectors
<1> QED BY <1>1, <1>2, NamedEntry, EntryFields DEF End

LEMMA WriteStep ==
  ASSUME StoreInv, RamInv', NEW n \in Names, NEW c \in Contents, KvfsWrite(n, c)
  PROVE  StoreInv'
<1>1. PICK slot \in SlotFor(n), start \in FindSpace(dir, Length[c]) : call' = WriteOf(n, c, slot, start)
  BY DEF KvfsWrite, WriteOf
<1>2. dir = dsk /\ super /\ Valid(dir) /\ dir \in Directories BY Accepting DEF KvfsWrite
<1>3. /\ UNCHANGED <<super, dsk, body, dir, mounted, faults>>
      /\ pc' = "body" /\ k' = 0 /\ reply' = "none" BY DEF KvfsWrite
<1>4. start \in Sectors /\ start + Length[c] <= SECTORS + 1
      /\ \A i \in Slots : dir[i] # Free => ~Overlap(dir[i], start, Length[c]) BY <1>2 DEF FindSpace, Used, Directories
<1>5. slot \in Slots /\ \A i \in Slots : dir[i] # Free => (dir[i].name = n <=> i = slot)
  <2>1. CASE FindEntry(dir, n) # {}
    <3>1. slot \in Slots /\ dir[slot] # Free /\ dir[slot].name = n
      BY <1>2, <2>1 DEF SlotFor, FindEntry, Used, Directories
    <3> QED BY <1>2, <3>1, ValidEntries
  <2>2. CASE FindEntry(dir, n) = {} BY <1>2, <2>2 DEF SlotFor, FirstUnused, FindEntry, Used, Directories
  <2> QED BY <2>1, <2>2
<1>6. Length[c] \in Nat \ {0} BY Sizes
<1>7. Writing(n, c, slot, start)' BY <1>1, <1>3, <1>4, <1>5, <1>6 DEF Writing
<1>8. WriteTrue' BY <1>4, <1>5, <1>7 DEF WriteTrue
<1>9. call'.op = "write" /\ call'.entry = Entry(n, start, Length[c]) BY <1>1 DEF WriteOf
<1>10. call'.entry \in Entries /\ End(call'.entry) - 1 \in Sectors BY <1>4, <1>9, NewEntry
<1>11. TypeOK' BY <1>3, <1>9, <1>10, Counters DEF StoreInv, TypeOK
<1>12. DiskTrue' BY <1>3 DEF StoreInv, DiskTrue
<1> QED BY <1>3, <1>8, <1>11, <1>12 DEF StoreInv, FormatTrue, IdleTrue, CallTrue

LEMMA RefuseStep ==
  ASSUME StoreInv, RamInv', NEW n \in Names, NEW c \in Contents, KvfsRefuse(n, c)
  PROVE  StoreInv'
<1>1. UNCHANGED <<super, dsk, body, dir, mounted>> /\ NoFault /\ Return("error") BY DEF KvfsRefuse, NoFault
<1>2. /\ super' \in BOOLEAN /\ mounted' \in BOOLEAN /\ dsk' \in Directories
      /\ dir' \in Directories /\ body' \in [Sectors -> Blocks] /\ DiskTrue'
  BY <1>1 DEF StoreInv, TypeOK, DiskTrue, Directories
<1> QED BY <1>1, <1>2, Returned

LEMMA DeleteStep ==
  ASSUME StoreInv, RamInv', NEW n \in Names, KvfsDelete(n)
  PROVE  StoreInv'
<1>1. PICK slot \in FindEntry(dir, n) : call' = DeleteOf(n, slot) BY DEF KvfsDelete, DeleteOf
<1>2. dir = dsk /\ super /\ Valid(dir) /\ dir \in Directories BY Accepting DEF KvfsDelete
<1>3. /\ UNCHANGED <<super, dsk, body, dir, mounted, faults>>
      /\ pc' = "commit" /\ k' = 0 /\ reply' = "none" BY DEF KvfsDelete
<1>4. slot \in Slots /\ dir[slot] # Free /\ dir[slot].name = n BY <1>2 DEF FindEntry, Used, Directories
<1>5. DeleteTrue' BY <1>1, <1>3, <1>4 DEF DeleteTrue, Deleting
<1>6. call'.op = "delete" BY <1>1 DEF DeleteOf
<1>7. TypeOK' /\ DiskTrue' BY <1>3, <1>6, Counters DEF StoreInv, TypeOK, DiskTrue
<1> QED BY <1>3, <1>5, <1>7 DEF StoreInv, FormatTrue, IdleTrue, CallTrue

LEMMA RenameStep ==
  ASSUME StoreInv, RamInv', NEW n \in Names, NEW to \in Names, KvfsRename(n, to)
  PROVE  StoreInv'
<1>1. PICK slot \in FindEntry(dir, n) : call' = RenameOf(n, to, slot) BY DEF KvfsRename, RenameOf
<1>2. dir = dsk /\ super /\ Valid(dir) /\ dir \in Directories BY Accepting DEF KvfsRename
<1>3. /\ UNCHANGED <<super, dsk, body, dir, mounted, faults>>
      /\ pc' = "commit" /\ k' = 0 /\ reply' = "none" /\ n # to /\ FindEntry(dir, to) = {} BY DEF KvfsRename
<1>4. /\ slot \in Slots /\ dir[slot] # Free /\ dir[slot].name = n
      /\ \A i \in Slots : dir[i] # Free => dir[i].name # to BY <1>2, <1>3 DEF FindEntry, Used, Directories
<1>5. RenameOf(n, to, slot)' = RenameOf(n, to, slot) BY <1>3 DEF RenameOf
<1>6. Renaming(n, to, slot)' BY <1>1, <1>3, <1>4, <1>5 DEF Renaming
<1>7. RenameTrue' BY <1>4, <1>6 DEF RenameTrue
<1>8. call'.op = "rename" BY <1>1 DEF RenameOf
<1>9. TypeOK' /\ DiskTrue' BY <1>3, <1>8, Counters DEF StoreInv, TypeOK, DiskTrue
<1> QED BY <1>3, <1>7, <1>9 DEF StoreInv, FormatTrue, IdleTrue, CallTrue

LEMMA CrashStep == StoreInv /\ RamInv' /\ Crash => StoreInv'
<1> SUFFICES ASSUME StoreInv, RamInv', Crash PROVE StoreInv' OBVIOUS
<1>1. UNCHANGED <<super, dsk, body>> /\ NoFault /\ Return("none") /\ mounted' = FALSE /\ dir' = Blank
  BY DEF Crash, NoFault, Blank
<1>2. /\ super' \in BOOLEAN /\ mounted' \in BOOLEAN /\ dsk' \in Directories
      /\ dir' \in Directories /\ body' \in [Sectors -> Blocks] /\ DiskTrue'
  BY <1>1, BlankValid DEF StoreInv, TypeOK, DiskTrue, Directories
<1> QED BY <1>1, <1>2, Returned

\* One body sector of the write in progress.
LEMMA BodyAt ==
  ASSUME StoreInv, pc = "body", NEW n \in Names, NEW c \in Contents, NEW s \in Slots,
         NEW start \in Sectors, Writing(n, c, s, start)
  PROVE  /\ call.data = c /\ call.entry.start = start /\ call.entry.sectors = Length[c]
         /\ k \in Nat /\ k < Length[c] /\ start + k \in Sectors /\ <<c, k + 1>> \in Blocks
         /\ k + 1 \in 0 .. SECTORS + DIR_SECTORS
<1>1. /\ call = WriteOf(n, c, s, start) /\ start + Length[c] <= SECTORS + 1
      /\ k \in 0 .. Length[c] /\ k # Length[c] BY DEF Writing
<1>2. call.data = c /\ call.entry.start = start /\ call.entry.sectors = Length[c] BY <1>1, EntryFields DEF WriteOf
<1>3. k \in Nat /\ k < Length[c] /\ start + k \in Sectors /\ k + 1 \in 0 .. SECTORS
      /\ k + 1 \in 0 .. SECTORS + DIR_SECTORS BY <1>1, Sizes DEF Sectors
<1>4. <<c, k + 1>> \in Blocks BY <1>3 DEF Blocks
<1> QED BY <1>2, <1>3, <1>4

LEMMA BodyStep == StoreInv /\ RamInv' /\ BodyWrite => StoreInv'
<1> SUFFICES ASSUME StoreInv, RamInv', BodyWrite PROVE StoreInv' OBVIOUS
<1>1. pc = "body" /\ UNCHANGED <<super, dsk, dir, mounted>> BY DEF BodyWrite
<1>2. PICK n \in Names, c \in Contents, s \in Slots, start \in Sectors : Writing(n, c, s, start)
  BY <1>1 DEF StoreInv, CallTrue, WriteTrue
<1>3. /\ call.data = c /\ call.entry.start = start /\ call.entry.sectors = Length[c]
      /\ k \in Nat /\ k < Length[c] /\ start + k \in Sectors /\ <<c, k + 1>> \in Blocks
      /\ k + 1 \in 0 .. SECTORS + DIR_SECTORS BY <1>1, <1>2, BodyAt
<1>4. /\ super' \in BOOLEAN /\ mounted' \in BOOLEAN /\ dsk' \in Directories
      /\ dir' \in Directories /\ DiskTrue' /\ body \in [Sectors -> Blocks]
  BY <1>1 DEF StoreInv, TypeOK, DiskTrue, Directories
<1>5. CASE /\ NoFault /\ body' = [body EXCEPT ![start + k] = <<c, k + 1>>]
           /\ k' = k + 1 /\ pc' = (IF k + 1 = Length[c] THEN "commit" ELSE "body")
           /\ UNCHANGED <<call, reply>>
  <2>1. body' \in [Sectors -> Blocks] BY <1>3, <1>4, <1>5
  <2>2. pc' \in {"body", "commit"} /\ (pc' = "body" <=> k' # Length[c]) BY <1>5
  <2>3. Length[c] \in Nat BY Sizes
  <2>4. ASSUME NEW j \in 1 .. k + 1 PROVE body'[start + j - 1] = <<c, j>>
    <3>1. CASE j = k + 1
      <4>1. start + j - 1 = start + k BY <1>3, <3>1 DEF Sectors
      <4> QED BY <1>3, <1>4, <1>5, <3>1, <4>1
    <3>2. CASE j # k + 1
      <4>1. j \in 1 .. k /\ start + j - 1 # start + k BY <1>3, <3>2 DEF Sectors
      <4>2. body[start + j - 1] = <<c, j>> BY <1>2, <4>1 DEF Writing
      <4>3. body'[start + j - 1] = body[start + j - 1]
        BY <1>1, <1>2, <1>3, <1>4, <1>5, <4>1, Sizes DEF Sectors, Writing
      <4> QED BY <4>2, <4>3
    <3> QED BY <3>1, <3>2
  <2>5. k' \in 0 .. Length[c] BY <1>3, <1>5, <2>3
  <2>6. WriteOf(n, c, s, start)' = WriteOf(n, c, s, start) BY DEF WriteOf
  <2>7. Writing(n, c, s, start)' BY <1>1, <1>2, <1>5, <2>2, <2>4, <2>5, <2>6 DEF Writing
  <2>8. WriteTrue' BY <2>7 DEF WriteTrue
  <2>9. TypeOK' BY <1>1, <1>3, <1>5, <2>1, <2>2 DEF StoreInv, TypeOK, NoFault
  <2> QED BY <1>4, <2>2, <2>8, <2>9 DEF StoreInv, FormatTrue, IdleTrue, CallTrue
<1>6. ASSUME Fault, Return("error"), NEW x \in {body[start + k], <<c, k + 1>>, Junk},
             body' = [body EXCEPT ![start + k] = x]
      PROVE  StoreInv'
  <2>1. Junk \in Blocks /\ body[start + k] \in Blocks BY <1>3, <1>4, SizeAssumption DEF Blocks, Junk
  <2>2. body' \in [Sectors -> Blocks] BY <1>3, <1>4, <1>6, <2>1
  <2> QED BY <1>4, <1>6, <2>2, Returned
<1> QED BY <1>3, <1>5, <1>6 DEF BodyWrite

\* What the directory is about to become.
Published == [dir EXCEPT ![call.slot] = call.entry]

LEMMA PublishedValid ==
  ASSUME StoreInv, pc = "commit"
  PROVE  /\ mounted /\ Published \in Directories /\ Valid(Published)
         /\ GroupFrom(Published, Group(call.slot)) = Published
<1>1. mounted /\ call.slot \in Slots BY DEF StoreInv, RamInv, Calling
<1>2. dir = dsk /\ super /\ Valid(dir) /\ dir \in Directories BY <1>1, Accepting
<1>3. GroupFrom(Published, Group(call.slot)) = Published BY <1>1, <1>2, CommitGroup DEF Published, StoreInv, RamInv
<1>4. CASE WriteTrue
  <2>1. PICK n \in Names, c \in Contents, s \in Slots, start \in Sectors : Writing(n, c, s, start)
    BY <1>4 DEF WriteTrue
  <2>2. call.slot = s /\ call.entry = Entry(n, start, Length[c]) BY <2>1 DEF Writing, WriteOf
  <2>3. start + Length[c] <= SECTORS + 1 /\ Length[c] \in Nat \ {0} BY <2>1, Sizes DEF Writing
  <2>4. \A i \in Slots : dir[i] # Free /\ i # s => dir[i].name # n /\ ~Overlap(dir[i], start, Length[c])
    BY <2>1 DEF Writing
  <2>5. Valid([dir EXCEPT ![s] = Entry(n, start, Length[c])])
        /\ [dir EXCEPT ![s] = Entry(n, start, Length[c])] \in Directories BY <1>2, <2>3, <2>4, ValidWith
  <2> QED BY <1>1, <1>3, <2>2, <2>5 DEF Published
<1>5. CASE DeleteTrue
  <2>1. PICK n \in Names, s \in Slots : Deleting(n, s) BY <1>5 DEF DeleteTrue
  <2>2. call.slot = s /\ call.entry = Free BY <2>1 DEF Deleting, DeleteOf
  <2>3. Published \in Directories /\ \A i \in Slots : Published[i] = dir[i] \/ Published[i] = Free
    BY <1>2, <2>2 DEF Published, Directories, Entries
  <2>4. Valid(Published) BY <1>2, <2>3, ValidFewer
  <2> QED BY <1>1, <1>3, <2>3, <2>4
<1>6. CASE RenameTrue
  <2>1. PICK n \in Names, to \in Names, s \in Slots : Renaming(n, to, s) BY <1>6 DEF RenameTrue
  <2> DEFINE st == dir[s].start
             ln == dir[s].sectors
  <2>2. call.slot = s /\ call.entry = Entry(to, st, ln) BY <2>1 DEF Renaming, RenameOf
  <2>3. dir[s] # Free /\ \A i \in Slots : dir[i] # Free => dir[i].name # to BY <2>1 DEF Renaming
  <2>4. /\ ln >= 1 /\ st >= 1 /\ End(dir[s]) <= SECTORS + 1
        /\ \A j \in Slots : dir[j] # Free /\ j # s => ~Overlap(dir[j], st, ln) BY <1>2, <2>3, ValidEntries
  <2>5. dir[s] \in Entries BY <1>2 DEF Directories
  <2>6. st \in Nat /\ ln \in Nat BY <2>5, EntryKinds
  <2>7. ln \in Nat \ {0} /\ st + ln <= SECTORS + 1 /\ st \in Sectors BY <2>4, <2>6, SizeAssumption DEF End, Sectors
  <2> HIDE DEF st, ln
  <2>8. Valid([dir EXCEPT ![s] = Entry(to, st, ln)]) /\ [dir EXCEPT ![s] = Entry(to, st, ln)] \in Directories
    BY <1>2, <2>3, <2>4, <2>7, ValidWith
  <2> QED BY <1>1, <1>3, <2>2, <2>8 DEF Published
<1> QED BY <1>4, <1>5, <1>6 DEF StoreInv, CallTrue

LEMMA CommitStep == StoreInv /\ RamInv' /\ CommitEntry => StoreInv'
<1> SUFFICES ASSUME StoreInv, RamInv', CommitEntry PROVE StoreInv' OBVIOUS
<1>1. /\ mounted /\ Published \in Directories /\ Valid(Published)
      /\ GroupFrom(Published, Group(call.slot)) = Published BY PublishedValid DEF CommitEntry
<1>2. dir = dsk /\ super /\ Valid(dir) /\ dir \in Directories BY <1>1, Accepting
<1>3. UNCHANGED <<super, body>> /\ body \in [Sectors -> Blocks] /\ super \in BOOLEAN /\ mounted \in BOOLEAN
  BY DEF CommitEntry, StoreInv, TypeOK
<1>4. CASE NoFault /\ dsk' = Published /\ dir' = Published /\ UNCHANGED mounted /\ Return("ok")
  <2>1. DiskTrue' BY <1>1, <1>2, <1>3, <1>4 DEF DiskTrue
  <2> QED BY <1>1, <1>3, <1>4, <2>1, Returned
<1>5. CASE Fault /\ dsk' \in {dsk, Published} /\ mounted' = FALSE /\ UNCHANGED dir /\ Return("error")
  <2>1. dsk' \in Directories /\ Valid(dsk') BY <1>1, <1>2, <1>5
  <2>2. DiskTrue' BY <1>2, <1>3, <1>5, <2>1 DEF DiskTrue
  <2> QED BY <1>2, <1>3, <1>5, <2>1, <2>2, Returned
<1> QED BY <1>1, <1>4, <1>5 DEF CommitEntry, Published

LEMMA NextStoreInv == StoreInv /\ [Next]_vars => StoreInv'
<1> SUFFICES ASSUME StoreInv, [Next]_vars PROVE StoreInv' OBVIOUS
<1>1. RamInv' BY NextRamInv DEF StoreInv
<1>2. CASE UNCHANGED vars
  <2>1. \A n, to \in Names, s \in Slots : RenameOf(n, to, s)' = RenameOf(n, to, s) BY <1>2 DEF RenameOf, vars
  <2>2. CallTrue' BY <1>2, <2>1 DEF StoreInv, vars, CallTrue, WriteTrue, Writing, WriteOf, DeleteTrue, Deleting,
    RenameTrue, Renaming
  <2> QED BY <1>1, <1>2, <2>2 DEF StoreInv, TypeOK, vars, DiskTrue, FormatTrue, IdleTrue
<1> QED BY <1>1, <1>2, MountStep, FormatStep, SuperStep, DirStep, WriteStep, RefuseStep, DeleteStep, RenameStep,
  BodyStep, CommitStep, CrashStep DEF Next

\* What holds at every step of a call of KvFS, of a crash and of a mount
\* (kvfs.c).
THEOREM Inductive == Spec => []StoreInv BY InitStoreInv, NextStoreInv, PTL DEF Spec

\* Every variable keeps its type; a write's entry lies on the disk.
THEOREM TypeCorrect == Spec => []TypeOK
<1>1. StoreInv => TypeOK BY DEF StoreInv
<1> QED BY <1>1, Inductive, PTL

\* No step, done, failed or interrupted, makes a disk that mounts one that
\* kvfs_mount rejects.
LEMMA KeepsValid == StoreInv /\ [Next]_vars => [Valid(dsk) => Valid(dsk')]_vars
<1> SUFFICES ASSUME StoreInv, [Next]_vars, Valid(dsk) PROVE Valid(dsk') \/ UNCHANGED vars OBVIOUS
<1>1. dsk \in Directories /\ dir \in Directories BY DEF StoreInv, TypeOK, Directories
<1>2. CASE UNCHANGED dsk BY <1>2
<1>3. CASE WriteDir
  <2>1. dir = Blank BY <1>3 DEF WriteDir, StoreInv, FormatTrue
  <2>2. GroupFrom(dir, k) \in Directories
        /\ \A i \in Slots : GroupFrom(dir, k)[i] = dsk[i] \/ GroupFrom(dir, k)[i] = Free
    BY <1>1, <2>1, GroupWritten, BlankValid
  <2>3. dsk' \in {dsk, GroupFrom(dir, k)} BY <1>3 DEF WriteDir
  <2> QED BY <1>1, <2>2, <2>3, ValidFewer
<1>4. CASE CommitEntry
  <2>1. Valid(Published) /\ GroupFrom(Published, Group(call.slot)) = Published BY <1>4, PublishedValid DEF CommitEntry
  <2>2. dsk' \in {dsk, Published} BY <1>4, <2>1 DEF CommitEntry, Published
  <2> QED BY <2>1, <2>2
<1> QED BY <1>2, <1>3, <1>4 DEF Next, vars, KvfsMount, KvfsFormat, WriteSuper, KvfsWrite, KvfsRefuse, KvfsDelete,
  KvfsRename, BodyWrite, Crash

\* No command, done, failed or cut off, makes a disk that mounts one that
\* kvfs_mount rejects.
THEOREM Mountable == Spec => StaysMountable BY Inductive, KeepsValid, PTL DEF Spec, StaysMountable

-----------------------------------------------------------------------------
(***************************************************************************)
(* The refinement.  A write's body goes where no file is, so the table     *)
(* changes only with the directory sector that publishes the entry.        *)
(***************************************************************************)
Same == UNCHANGED <<Files, PendingCall, reply, mounted>>

\* The abstract call of each concrete one.
LEMMA Pending ==
  /\ call = NoCall => PendingCall = NoCall
  /\ call = [op |-> "format"] => PendingCall = [op |-> "format"]
  /\ \A n, c, s, start : call = WriteOf(n, c, s, start) =>
        PendingCall = [op |-> "write", name |-> n, data |-> c]
  /\ \A n, s : call = DeleteOf(n, s) => PendingCall = [op |-> "delete", name |-> n]
  /\ \A n, to, s : call = RenameOf(n, to, s) =>
        PendingCall = [op |-> "rename", name |-> n, to |-> to]
<1>1. CASE call = NoCall BY <1>1 DEF PendingCall, NoCall, WriteOf, DeleteOf, RenameOf
<1>2. CASE call = [op |-> "format"] BY <1>2 DEF PendingCall, NoCall, WriteOf, DeleteOf, RenameOf
<1>3. ASSUME NEW n, NEW c, NEW s, NEW start, call = WriteOf(n, c, s, start)
      PROVE  PendingCall = [op |-> "write", name |-> n, data |-> c]
  <2>1. call.op = "write" /\ call.name = n /\ call.data = c BY <1>3 DEF WriteOf
  <2> QED BY <2>1 DEF PendingCall
<1>4. ASSUME NEW n, NEW s, call = DeleteOf(n, s) PROVE PendingCall = [op |-> "delete", name |-> n]
  <2>1. call.op = "delete" /\ call.name = n BY <1>4 DEF DeleteOf
  <2> QED BY <2>1 DEF PendingCall
<1>5. ASSUME NEW n, NEW to, NEW s, call = RenameOf(n, to, s)
      PROVE  PendingCall = [op |-> "rename", name |-> n, to |-> to]
  <2>1. call.op = "rename" /\ call.name = n /\ call.to = to BY <1>5 DEF RenameOf
  <2> QED BY <2>1 DEF PendingCall
<1> QED BY <1>1, <1>2, <1>3, <1>4, <1>5

LEMMA PendingNext ==
  /\ call' = NoCall => PendingCall' = NoCall
  /\ call' = [op |-> "format"] => PendingCall' = [op |-> "format"]
  /\ \A n, c, s, start : call' = WriteOf(n, c, s, start) =>
        PendingCall' = [op |-> "write", name |-> n, data |-> c]
  /\ \A n, s : call' = DeleteOf(n, s) => PendingCall' = [op |-> "delete", name |-> n]
  /\ \A n, to, s : call' = RenameOf(n, to, s)' =>
        PendingCall' = [op |-> "rename", name |-> n, to |-> to]
<1>1. (/\ call = NoCall => PendingCall = NoCall
       /\ call = [op |-> "format"] => PendingCall = [op |-> "format"]
       /\ \A n, c, s, start : call = WriteOf(n, c, s, start) =>
             PendingCall = [op |-> "write", name |-> n, data |-> c]
       /\ \A n, s : call = DeleteOf(n, s) => PendingCall = [op |-> "delete", name |-> n]
       /\ \A n, to, s : call = RenameOf(n, to, s) =>
             PendingCall = [op |-> "rename", name |-> n, to |-> to])' BY Pending, PTL
<1> QED BY <1>1 DEF NoCall, WriteOf, DeleteOf

LEMMA FilesKept ==
  ASSUME UNCHANGED <<super, dsk, body>>
  PROVE  UNCHANGED Files BY FilesStore

LEMMA MountRefines == StoreInv /\ KvfsMount => Abstract!Mount
<1> SUFFICES ASSUME StoreInv, KvfsMount PROVE Abstract!Mount OBVIOUS
<1>1. call = NoCall BY DEF KvfsMount, StoreInv, IdleTrue
<1>2. /\ reply' \in {"ok", "error"} /\ mounted' = (reply' = "ok") /\ call' = NoCall
  <2>1. CASE NoFault /\ mounted' = (super /\ Valid(dsk)) /\ Return(IF mounted' THEN "ok" ELSE "error")
    <3>1. mounted' \in BOOLEAN BY <2>1
    <3> QED BY <2>1, <3>1 DEF Return
  <2>2. CASE Fault /\ mounted' = FALSE /\ Return("error") BY <2>2 DEF Return
  <2> QED BY <2>1, <2>2 DEF KvfsMount
<1>3. UNCHANGED Files BY FilesKept DEF KvfsMount
<1> QED BY <1>1, <1>2, <1>3, Pending, PendingNext DEF Abstract!Mount, Abstract!NoCall, NoCall

LEMMA FormatRefines == StoreInv /\ KvfsFormat => Abstract!Format
<1> SUFFICES ASSUME StoreInv, KvfsFormat PROVE Abstract!Format OBVIOUS
<1>1. PendingCall = Abstract!NoCall BY Pending DEF KvfsFormat, StoreInv, IdleTrue, NoCall, Abstract!NoCall
<1>2. PendingCall' = [op |-> "format"] BY PendingNext DEF KvfsFormat
<1>3. UNCHANGED Files BY FilesKept DEF KvfsFormat
<1> QED BY <1>1, <1>2, <1>3 DEF Abstract!Format, KvfsFormat

\* While formatting, files are whole or gone.
LEMMA FormatFiles ==
  ASSUME StoreInv, dsk' \in Directories, UNCHANGED body, super' \in BOOLEAN, super => super',
         \A i \in Slots : dsk'[i] = dsk[i] \/ dsk'[i] = Free
  PROVE  \A n \in Names : Files'[n] \in {Files[n], Missing}
<1>1. dsk \in Directories /\ super \in BOOLEAN BY DEF StoreInv, TypeOK, Directories
<1>2. CASE super /\ Valid(dsk)
  <2>1. Files = StoreOf(dsk, body) /\ Files' = StoreOf(dsk', body) BY <1>2, FilesStore
  <2> QED BY <1>1, <1>2, <2>1, StoreFewer
<1>3. CASE \A i \in Slots : dsk[i] \in {Free, Damaged}
  <2>1. StoreOf(dsk', body) = NoFiles BY <1>3, StoreNone
  <2>2. Files' = NoFiles BY <2>1, FilesStore
  <2> QED BY <2>2 DEF NoFiles
<1> QED BY <1>2, <1>3 DEF StoreInv, DiskTrue

LEMMA SuperRefines == StoreInv /\ WriteSuper => Abstract!Format
<1> SUFFICES ASSUME StoreInv, WriteSuper PROVE Abstract!Format OBVIOUS
<1>1. UNCHANGED <<dsk, body, mounted>> /\ super' \in BOOLEAN /\ (super => super') /\ dsk \in Directories
  BY DEF WriteSuper, StoreInv, TypeOK, Directories
<1>2. \A n \in Names : Files'[n] \in {Files[n], Missing} BY <1>1, FormatFiles
<1>3. call = [op |-> "format"] /\ PendingCall = [op |-> "format"] BY Pending DEF WriteSuper, StoreInv, FormatTrue
<1>4. CASE UNCHANGED <<call, reply>> BY <1>1, <1>2, <1>3, <1>4, PendingNext DEF Abstract!Format
<1>5. CASE Return("error") BY <1>1, <1>2, <1>3, <1>5, PendingNext DEF Abstract!Format, Abstract!NoCall, NoCall, Return
<1> QED BY <1>4, <1>5 DEF WriteSuper

LEMMA DirRefines == StoreInv /\ RamInv' /\ WriteDir => Abstract!Format
<1> SUFFICES ASSUME StoreInv, RamInv', WriteDir PROVE Abstract!Format OBVIOUS
<1>1. /\ dsk \in Directories /\ dir = Blank /\ call = [op |-> "format"] /\ super \in BOOLEAN
      /\ UNCHANGED <<super, body, dir>> BY DEF WriteDir, StoreInv, TypeOK, FormatTrue, Directories
<1>2. /\ GroupFrom(dir, k) \in Directories
      /\ \A i \in Slots : GroupFrom(dir, k)[i] = dsk[i] \/ GroupFrom(dir, k)[i] = Free
  BY <1>1, GroupWritten, BlankValid
<1>3. dsk' \in {dsk, GroupFrom(dir, k)} BY DEF WriteDir
<1>4. dsk' \in Directories /\ \A i \in Slots : dsk'[i] = dsk[i] \/ dsk'[i] = Free BY <1>1, <1>2, <1>3
<1>5. \A n \in Names : Files'[n] \in {Files[n], Missing} BY <1>1, <1>4, FormatFiles
<1>6. PendingCall = [op |-> "format"] BY <1>1, Pending
<1>7. CASE mounted' = TRUE /\ Return("ok")
  <2>1. super' /\ dsk' = Blank BY <1>1, <1>7 DEF RamInv, RamMatchesDisk
  <2>2. StoreOf(dsk', body') = NoFiles BY <2>1, BlankValid, StoreNone
  <2>3. Files' = NoFiles BY <2>2, FilesStore
  <2> QED BY <1>5, <1>6, <1>7, <2>3, PendingNext DEF Abstract!Format, Abstract!NoCall, NoCall, Return, NoFiles
<1>8. CASE UNCHANGED <<mounted, call, pc, reply>> BY <1>1, <1>5, <1>6, <1>8, PendingNext DEF Abstract!Format
<1>9. CASE Return("error") /\ UNCHANGED mounted
  BY <1>5, <1>6, <1>9, PendingNext DEF Abstract!Format, Abstract!NoCall, NoCall, Return
<1> QED BY <1>7, <1>8, <1>9 DEF WriteDir

LEMMA WriteRefines ==
  ASSUME StoreInv, NEW n \in Names, NEW c \in Contents, KvfsWrite(n, c)
  PROVE  Abstract!Begin
<1>1. PendingCall = Abstract!NoCall BY Pending DEF KvfsWrite, StoreInv, IdleTrue, NoCall, Abstract!NoCall
<1>2. PendingCall' = [op |-> "write", name |-> n, data |-> c] BY PendingNext DEF KvfsWrite, WriteOf
<1>3. UNCHANGED Files BY FilesKept DEF KvfsWrite
<1> QED BY <1>1, <1>2, <1>3 DEF Abstract!Begin, KvfsWrite

LEMMA DeleteRefines ==
  ASSUME StoreInv, NEW n \in Names, KvfsDelete(n)
  PROVE  Abstract!Begin
<1>1. PendingCall = Abstract!NoCall BY Pending DEF KvfsDelete, StoreInv, IdleTrue, NoCall, Abstract!NoCall
<1>2. PendingCall' = [op |-> "delete", name |-> n] BY PendingNext DEF KvfsDelete, DeleteOf
<1>3. UNCHANGED Files BY FilesKept DEF KvfsDelete
<1> QED BY <1>1, <1>2, <1>3 DEF Abstract!Begin, KvfsDelete

LEMMA RenameRefines ==
  ASSUME StoreInv, NEW n \in Names, NEW to \in Names, KvfsRename(n, to)
  PROVE  Abstract!Begin
<1>1. PendingCall = Abstract!NoCall BY Pending DEF KvfsRename, StoreInv, IdleTrue, NoCall, Abstract!NoCall
<1>2. UNCHANGED dir BY DEF KvfsRename
<1>3. \E slot \in FindEntry(dir, n) : call' = RenameOf(n, to, slot)' BY <1>2 DEF KvfsRename, RenameOf
<1>4. PendingCall' = [op |-> "rename", name |-> n, to |-> to] BY <1>3, PendingNext
<1>5. UNCHANGED Files BY FilesKept DEF KvfsRename
<1>6. Files[to] = Missing
  <2>1. dir = dsk /\ super /\ dir \in Directories BY Accepting DEF KvfsRename
  <2>2. \A i \in Slots : dir[i] # Free => dir[i].name # to BY <2>1 DEF KvfsRename, FindEntry, Used, Directories
  <2> QED BY <2>1, <2>2, FilesStore, LookupNone
<1> QED BY <1>1, <1>4, <1>5, <1>6 DEF Abstract!Begin, KvfsRename

LEMMA RefuseRefines ==
  ASSUME StoreInv, NEW n \in Names, NEW c \in Contents, KvfsRefuse(n, c)
  PROVE  Abstract!Refuse
<1>1. PendingCall = Abstract!NoCall /\ PendingCall' = Abstract!NoCall
  BY Pending, PendingNext DEF KvfsRefuse, StoreInv, IdleTrue, NoCall, Abstract!NoCall, Return
<1>2. UNCHANGED Files BY FilesKept DEF KvfsRefuse
<1> QED BY <1>1, <1>2 DEF Abstract!Refuse, KvfsRefuse, Return

LEMMA CrashRefines == StoreInv /\ Crash => Abstract!PowerLoss
<1> SUFFICES ASSUME StoreInv, Crash PROVE Abstract!PowerLoss OBVIOUS
<1>1. PendingCall' = Abstract!NoCall BY PendingNext DEF Crash, NoCall, Abstract!NoCall, Return
<1>2. UNCHANGED Files BY FilesKept DEF Crash
<1> QED BY <1>1, <1>2 DEF Abstract!PowerLoss, Crash, Return

\* A body sector, written or spoilt, belongs to no file.
LEMMA BodyRefines == StoreInv /\ BodyWrite => Same \/ Abstract!Fail
<1> SUFFICES ASSUME StoreInv, BodyWrite PROVE Same \/ Abstract!Fail OBVIOUS
<1>1. pc = "body" /\ UNCHANGED <<super, dsk, dir, mounted>> /\ mounted /\ body \in [Sectors -> Blocks]
  BY DEF BodyWrite, StoreInv, RamInv, Calling, TypeOK
<1>2. dir = dsk /\ super /\ dir \in Directories BY <1>1, Accepting
<1>3. PICK n \in Names, c \in Contents, s \in Slots, start \in Sectors : Writing(n, c, s, start)
  BY <1>1 DEF StoreInv, CallTrue, WriteTrue
<1>4. /\ call.entry.start = start /\ k \in Nat /\ k < Length[c] /\ start + k \in Sectors BY <1>1, <1>3, BodyAt
<1>5. ASSUME NEW i \in Slots, dir[i] # Free PROVE ~(dir[i].start <= start + k /\ start + k < End(dir[i]))
  <2>1. ~Overlap(dir[i], start, Length[c]) BY <1>3, <1>5 DEF Writing
  <2>2. dir[i] \in Entries BY <1>2 DEF Directories
  <2>3. dir[i].start \in Nat /\ dir[i].sectors \in Nat BY <2>2, EntryKinds
  <2>4. Length[c] \in Nat /\ start \in Nat BY Sizes DEF Sectors
  <2> QED BY <1>4, <2>1, <2>3, <2>4 DEF Overlap, End
<1>6. PICK x : body' = [body EXCEPT ![start + k] = x] BY <1>4 DEF BodyWrite
<1>7. StoreOf(dsk, body') = StoreOf(dsk, body)
  <2>1. \A t \in Sectors : t # start + k => body'[t] = body[t] BY <1>1, <1>6
  <2> QED BY <1>2, <1>4, <1>5, <2>1, StoreBody
<1>8. UNCHANGED Files BY <1>1, <1>6, <1>7, FilesStore
<1>9. PendingCall = [op |-> "write", name |-> n, data |-> c] BY <1>3, Pending DEF Writing
<1>10. CASE UNCHANGED <<call, reply>>
  <2>1. call' = WriteOf(n, c, s, start) BY <1>3, <1>10 DEF Writing
  <2>2. PendingCall' = PendingCall BY <1>9, <2>1, PendingNext
  <2> QED BY <1>1, <1>8, <1>10, <2>2 DEF Same
<1>11. CASE Return("error")
  <2>1. PendingCall' = Abstract!NoCall /\ reply' = "error" BY <1>11, PendingNext DEF NoCall, Abstract!NoCall, Return
  <2>2. PendingCall.op # "format" /\ PendingCall # Abstract!NoCall BY <1>9 DEF Abstract!NoCall
  <2> QED BY <1>1, <1>8, <2>1, <2>2 DEF Abstract!Fail
<1> QED BY <1>10, <1>11 DEF BodyWrite

\* The directory sector that publishes an entry is the whole call.
LEMMA PublishedFiles ==
  ASSUME StoreInv, pc = "commit"
  PROVE  /\ StoreOf(Published, body) = Abstract!Apply
         /\ PendingCall # Abstract!NoCall /\ PendingCall.op # "format"
<1>1. /\ mounted /\ Valid(Published) /\ Published \in Directories BY PublishedValid
<1>2. dir = dsk /\ super /\ Valid(dir) /\ dir \in Directories BY <1>1, Accepting
<1>3. Files = StoreOf(dir, body) BY <1>2, FilesStore
<1>4. CASE WriteTrue
  <2>1. PICK n \in Names, c \in Contents, s \in Slots, start \in Sectors : Writing(n, c, s, start)
    BY <1>4 DEF WriteTrue
  <2> DEFINE e == Entry(n, start, Length[c])
  <2>2. call.slot = s /\ call.entry = e BY <2>1 DEF Writing, WriteOf
  <2>3. start + Length[c] <= SECTORS + 1 /\ k = Length[c]
        /\ \A j \in 1 .. k : body[start + j - 1] = <<c, j>> BY <2>1 DEF Writing
  <2>4. e \in Entries /\ e # Free BY <2>3, NewEntry
  <2>5. e.name = n /\ e.start = start /\ e.sectors = Length[c] BY EntryFields
  <2>6. dir[s] = Free \/ dir[s].name = n BY <2>1 DEF Writing
  <2> HIDE DEF e
  <2>7. Content(body, e) = c BY <2>3, <2>5, ContentWhole
  <2>8. Published[s] = e /\ \A i \in Slots : i # s => Published[i] = dir[i] BY <1>2, <2>2 DEF Published, Directories
  <2>9. StoreOf(Published, body) = [StoreOf(dir, body) EXCEPT ![n] = c]
    BY <1>1, <1>2, <2>4, <2>5, <2>6, <2>7, <2>8, StoreWrite
  <2>10. PendingCall = [op |-> "write", name |-> n, data |-> c] BY <2>1, Pending DEF Writing
  <2>11. PendingCall.op = "write" /\ PendingCall.name = n /\ PendingCall.data = c BY <2>10
  <2>12. Abstract!Apply = [Files EXCEPT ![n] = c] BY <2>11 DEF Abstract!Apply
  <2> QED BY <1>3, <2>9, <2>10, <2>11, <2>12 DEF Abstract!NoCall
<1>5. CASE DeleteTrue
  <2>1. PICK n \in Names, s \in Slots : Deleting(n, s) BY <1>5 DEF DeleteTrue
  <2>2. call.slot = s /\ call.entry = Free /\ dir[s] # Free /\ dir[s].name = n BY <2>1 DEF Deleting, DeleteOf
  <2>3. Published[s] = Free /\ \A i \in Slots : i # s => Published[i] = dir[i]
    BY <1>2, <2>2 DEF Published, Directories
  <2>4. StoreOf(Published, body) = [StoreOf(dir, body) EXCEPT ![n] = Missing] BY <1>1, <1>2, <2>2, <2>3, StoreDelete
  <2>5. PendingCall = [op |-> "delete", name |-> n] BY <2>1, Pending DEF Deleting
  <2>6. PendingCall.op = "delete" /\ PendingCall.name = n BY <2>5
  <2>7. Abstract!Apply = [Files EXCEPT ![n] = Missing] BY <2>6 DEF Abstract!Apply
  <2> QED BY <1>3, <2>4, <2>5, <2>6, <2>7 DEF Abstract!NoCall
<1>6. CASE RenameTrue
  <2>1. PICK n \in Names, to \in Names, s \in Slots : Renaming(n, to, s) BY <1>6 DEF RenameTrue
  <2> DEFINE e == Entry(to, dir[s].start, dir[s].sectors)
  <2>2. call.slot = s /\ call.entry = e BY <2>1 DEF Renaming, RenameOf
  <2>3. dir[s] # Free /\ dir[s].name = n /\ to # n BY <2>1 DEF Renaming
  <2>4. Published[s] = e /\ \A i \in Slots : i # s => Published[i] = dir[i] BY <1>2, <2>2 DEF Published, Directories
  <2>5. e \in Entries
    <3> HIDE DEF e
    <3> QED BY <1>1, <2>4 DEF Directories
  <2>6. e # Free
    <3>1. e.name = to /\ Free.name = NoName BY EntryFields DEF Free
    <3> HIDE DEF e
    <3> QED BY <3>1, NameAssumption
  <2>7. StoreOf(Published, body) = [StoreOf(dir, body) EXCEPT ![to] = StoreOf(dir, body)[n], ![n] = Missing]
    <3>1. e = Entry(to, dir[s].start, dir[s].sectors) OBVIOUS
    <3> HIDE DEF e
    <3> QED BY <1>1, <1>2, <2>3, <2>4, <2>5, <2>6, <3>1, StoreRename
  <2>8. PendingCall = [op |-> "rename", name |-> n, to |-> to] BY <2>1, Pending DEF Renaming
  <2>9. PendingCall.op = "rename" /\ PendingCall.name = n /\ PendingCall.to = to BY <2>8
  <2>10. Abstract!Apply = [Files EXCEPT ![to] = Files[n], ![n] = Missing] BY <2>9 DEF Abstract!Apply
  <2> QED BY <1>3, <2>7, <2>8, <2>9, <2>10 DEF Abstract!NoCall
<1> QED BY <1>4, <1>5, <1>6 DEF StoreInv, CallTrue

LEMMA CommitRefines == StoreInv /\ CommitEntry => Abstract!Succeed \/ Abstract!Fail
<1> SUFFICES ASSUME StoreInv, CommitEntry PROVE Abstract!Succeed \/ Abstract!Fail OBVIOUS
<1>1. pc = "commit" /\ UNCHANGED <<super, body>> BY DEF CommitEntry
<1>2. mounted /\ GroupFrom(Published, Group(call.slot)) = Published BY <1>1, PublishedValid
<1>3. dir = dsk /\ super BY <1>2, Accepting
<1>4. PendingCall # Abstract!NoCall /\ PendingCall.op # "format" BY <1>1, PublishedFiles
<1>5. (dsk' = Published => Files' = Abstract!Apply) /\ (dsk' = dsk => Files' = Files)
  BY <1>1, <1>3, PublishedFiles, FilesStore
<1>6. CASE dsk' = Published /\ UNCHANGED mounted /\ Return("ok")
  <2>1. PendingCall' = Abstract!NoCall /\ reply' = "ok" BY <1>6, PendingNext DEF Return, NoCall, Abstract!NoCall
  <2> QED BY <1>4, <1>5, <1>6, <2>1 DEF Abstract!Succeed
<1>7. CASE dsk' \in {dsk, Published} /\ mounted' = FALSE /\ Return("error")
  <2>1. PendingCall' = Abstract!NoCall /\ reply' = "error" BY <1>7, PendingNext DEF Return, NoCall, Abstract!NoCall
  <2> QED BY <1>4, <1>5, <1>7, <2>1 DEF Abstract!Fail
<1> QED BY <1>2, <1>6, <1>7 DEF CommitEntry, Published

LEMMA InitRefines == Init => Abstract!Init
<1> SUFFICES ASSUME Init PROVE Abstract!Init OBVIOUS
<1>1. Files = NoFiles BY FilesStore DEF Init
<1>2. PendingCall = Abstract!NoCall BY Pending DEF Init, NoCall, Abstract!NoCall
<1> QED BY <1>1, <1>2 DEF Init, Abstract!Init, NoFiles

LEMMA NextRefines == StoreInv /\ [Next]_vars => [Abstract!Next]_<<Files, PendingCall, reply, mounted>>
<1> SUFFICES ASSUME StoreInv, [Next]_vars
             PROVE  Abstract!Next \/ Same BY DEF Same
<1>1. RamInv' BY NextRamInv DEF StoreInv
<1>2. CASE UNCHANGED vars BY <1>2 DEF vars, Same, Files, FileAt, PendingCall
<1> QED BY <1>1, <1>2, MountRefines, FormatRefines, SuperRefines, DirRefines, WriteRefines, RefuseRefines,
  DeleteRefines, RenameRefines, BodyRefines, CommitRefines, CrashRefines DEF Next, Abstract!Next

\* KvFS is the table of whole files: a call that succeeds took effect once, one
\* that fails or is cut off by a power loss had all of its effect or none.
THEOREM RefinesFileStore == Spec => ImplementsFileStore
BY Inductive, InitRefines, NextRefines, PTL DEF Spec, ImplementsFileStore, Abstract!Spec

-----------------------------------------------------------------------------
(***************************************************************************)
(* The installer over KvFS.  Between two of its steps the disk may have    *)
(* lost power at any command, so what "done" promises is kept by the       *)
(* invariant step by step: the loader up to the sector it is at, KvFS as   *)
(* soon as it was mounted or formatted, and a set of files that were       *)
(* counted and have stayed.  Nothing replaces a file, because a call to    *)
(* write is only made for a name that is not on the disk: with files kept  *)
(* it was looked up, and without, the disk was formatted and the names of  *)
(* the table differ.                                                       *)
(***************************************************************************)
\* What KvFS promises holds under the installer too; a failed boot sector only
\* uses up a fault.
LEMMA FaultStep ==
  ASSUME StoreInv, UNCHANGED <<super, dsk, body, dir, mounted, call, pc, k, reply>>, NoFault \/ Fault
  PROVE  StoreInv' /\ UNCHANGED Files
<1>1. faults' \in 0 .. MaxFaults BY Counters DEF NoFault, StoreInv, TypeOK
<1>2. TypeOK' BY <1>1 DEF StoreInv, TypeOK
<1>3. RamInv' /\ DiskTrue' /\ FormatTrue' /\ IdleTrue' /\ CallTrue'
  BY DEF StoreInv, RamInv, RamMatchesDisk, Formatting, Calling, DiskTrue, FormatTrue, IdleTrue, CallTrue, WriteTrue,
    Writing, DeleteTrue, Deleting, RenameTrue, RenameOf, Renaming
<1> QED BY <1>2, <1>3, FilesKept DEF StoreInv

\* A list as a function.
LEMMA ListParts ==
  ASSUME NEW S, NEW list \in Seq(S)
  PROVE  Len(list) \in Nat /\ DOMAIN list = 1 .. Len(list) /\ list \in [1 .. Len(list) -> S] OBVIOUS

\* A call of the installer is a call of KvFS.
LEMMA ItsCall ==
  ASSUME MediaOK, NEW i \in DOMAIN RamFiles
  PROVE  RamFiles[i].name \in Names /\ RamFiles[i].data \in Contents
<1>1. DOMAIN RamFiles = 1 .. Len(RamFiles) /\ RamFiles \in [1 .. Len(RamFiles) -> [name : Names, data : Contents]]
  BY ListParts DEF MediaOK
<1>2. RamFiles[i] \in [name : Names, data : Contents] BY <1>1
<1> QED BY <1>2

\* The table's length.
LEMMA TableLength == ASSUME MediaOK PROVE Len(RamFiles) \in Nat /\ DOMAIN RamFiles = 1 .. Len(RamFiles)
BY ListParts DEF MediaOK

-----------------------------------------------------------------------------
\* What the steps of a call do to the files.
LEMMA BodyFiles == StoreInv /\ BodyWrite => UNCHANGED Files
<1> SUFFICES ASSUME StoreInv, BodyWrite PROVE UNCHANGED Files OBVIOUS
<1>1. mounted' = TRUE BY DEF BodyWrite, StoreInv, RamInv, Calling, TypeOK
<1> QED BY <1>1, BodyRefines DEF Same, Abstract!Fail

LEMMA CommitFiles ==
  ASSUME StoreInv, CommitEntry
  PROVE  /\ Files' \in {Files, Abstract!Apply}
         /\ reply' = "ok" => Files' = Abstract!Apply BY CommitRefines DEF Abstract!Succeed, Abstract!Fail

\* A finished format has left no file.
LEMMA FormattedFiles ==
  ASSUME StoreInv, RamInv', WriteDir, pc' = "idle", reply' = "ok"
  PROVE  super' /\ Valid(dsk') /\ Files' = NoFiles
<1>1. mounted' = TRUE BY DEF WriteDir, Return, StoreInv, FormatTrue
<1>2. dir' = Blank BY DEF WriteDir, StoreInv, FormatTrue
<1>3. super' /\ dsk' = Blank BY <1>1, <1>2 DEF RamInv, RamMatchesDisk
<1>4. StoreOf(dsk', body') = NoFiles BY <1>3, BlankValid, StoreNone
<1> QED BY <1>3, <1>4, BlankValid, FilesStore

\* A name that is not in the directory of a mounted volume is no file.
LEMMA NotFound ==
  ASSUME StoreInv, mounted, NEW n \in Names, FindEntry(dir, n) = {}
  PROVE  Files[n] = Missing
<1>1. dir = dsk /\ super /\ dir \in Directories BY Accepting
<1>2. \A i \in Slots : dir[i] # Free => dir[i].name # n BY <1>1 DEF FindEntry, Used, Directories
<1> QED BY <1>1, <1>2, FilesStore, LookupNone

-----------------------------------------------------------------------------
\* Where the installer is; KvFS is between calls except where it waits for one.
StepTrue ==
    /\ step \in {"off", "boot", "mount", "format", "formatting", "copy", "copying"}
    /\ step \notin {"off", "formatting", "copying"} => pc = "idle"
    /\ step = "formatting" => pc \in {"idle", "super", "dirs"}
    /\ step = "copying" => pc \in {"idle", "body", "commit"}
    /\ step # "off" => result # "done"

\* The loader up to the sector that is next.
LoaderTrue ==
    /\ boot = [s \in 0 .. RESERVED - 1 |-> boot[s]]
    /\ step # "off" => image \in 1 .. RESERVED - 1
    /\ step = "boot" => sec \in 0 .. image - 1 /\ \A s \in 0 .. sec - 1 : boot[s] = "new"
    /\ step \notin {"off", "boot"} => \A s \in 0 .. image - 1 : boot[s] = "new"

\* KvFS is there once it was mounted or formatted, without files if formatted.
VolumeTrue ==
    /\ step \in {"copy", "copying"} => super /\ Valid(dsk)
    /\ step = "formatting" /\ pc = "idle" /\ reply = "ok" => super /\ Valid(dsk) /\ Files = NoFiles

\* The files counted are some of those before the one it is at, and whole.
Counted(S) ==
    /\ S \subseteq {i \in DOMAIN RamFiles : i < sec} /\ IsFiniteSet(S) /\ Cardinality(S) = copied
    /\ \A i \in S : Files[RamFiles[i].name] = RamFiles[i].data
CountTrue ==
    /\ step \in {"mount", "format", "formatting"} => sec = 1
    /\ step \in {"boot", "mount", "format", "formatting"} => copied = 0
    /\ step \in {"copy", "copying"} => sec \in Nat \ {0} /\ \E S : Counted(S)
    /\ step = "copying" => sec \in DOMAIN RamFiles

\* The file being copied was not on the disk, and is when the call succeeded.
CopyTrue ==
    step = "copying" =>
        LET f == RamFiles[sec] IN
        /\ pc # "idle" =>
            PendingCall = [op |-> "write", name |-> f.name, data |-> f.data] /\ Files[f.name] = Missing
        /\ pc = "idle" /\ reply = "ok" => Files[f.name] = f.data

\* Without files to keep there are only those copied so far.
FreshTrue ==
    step \in {"copy", "copying"} /\ ~keep =>
        \A n \in Names : Files[n] # Missing =>
            \E j \in DOMAIN RamFiles : RamFiles[j].name = n /\ (j < sec \/ (step = "copying" /\ j = sec))

SetupInv ==
    /\ StoreInv /\ RamInv
    /\ StepTrue /\ LoaderTrue /\ VolumeTrue /\ CountTrue /\ CopyTrue /\ FreshTrue

\* What every step has to show besides.
Promises == LeavesFiles /\ FinishesInstalled

\* While the installer does not run the rest is idle.
LEMMA OffTrue ==
  ASSUME StoreInv, step = "off", boot = [s \in 0 .. RESERVED - 1 |-> boot[s]]
  PROVE  SetupInv BY DEF SetupInv, StoreInv, StepTrue, LoaderTrue, VolumeTrue, CountTrue, CopyTrue, FreshTrue

LEMMA OffTrueNext ==
  ASSUME StoreInv', step' = "off", boot' = [s \in 0 .. RESERVED - 1 |-> boot'[s]]
  PROVE  SetupInv' BY DEF SetupInv, StoreInv, StepTrue, LoaderTrue, VolumeTrue, CountTrue, CopyTrue, FreshTrue

\* A step that leaves the files as they are and says "done" to nobody keeps
\* the promises.
LEMMA QuietPromises ==
  ASSUME SetupInv, UNCHANGED Files, result' = result \/ result' # "done"
  PROVE  Promises BY DEF Promises, LeavesFiles, FinishesInstalled, SetupInv, StepTrue

LEMMA InitSetup == SetupInit => SetupInv
<1> SUFFICES ASSUME SetupInit PROVE SetupInv OBVIOUS
<1>1. step = "off" /\ boot = [s \in 0 .. RESERVED - 1 |-> "old"] BY DEF SetupInit
<1>2. boot = [s \in 0 .. RESERVED - 1 |-> boot[s]] BY <1>1
<1> QED BY <1>1, <1>2, OffTrue, InitStoreInv DEF SetupInit

LEMMA StartSetup == ASSUME SetupInv, NEW kf \in BOOLEAN, SetupInstall(kf) PROVE SetupInv' /\ Promises
<1>1. /\ step = "off" /\ pc = "idle" /\ UNCHANGED <<vars, image, disk, boot>>
      /\ sec' = 0 /\ copied' = 0
      /\ IF Usable THEN step' = "boot" /\ result' = "none" ELSE step' = "off" /\ result' = "failed"
  BY DEF SetupInstall, Still, Fail
<1>2. UNCHANGED <<super, dsk, body, dir, mounted, call, pc, k, reply, faults>> BY <1>1 DEF vars
<1>3. StoreInv' /\ UNCHANGED Files BY <1>2, FaultStep DEF SetupInv, NoFault
<1>4. CASE Usable
  <2>1. image \in 1 .. RESERVED - 1 BY <1>4 DEF Usable
  <2>2. step' = "boot" /\ result' = "none" BY <1>1, <1>4
  <2> QED BY <1>1, <1>2, <1>3, <2>1, <2>2, QuietPromises DEF SetupInv, StoreInv, StepTrue, LoaderTrue, VolumeTrue,
    CountTrue, CopyTrue, FreshTrue
<1>5. CASE ~Usable
  <2>1. SetupInv' BY <1>1, <1>3, <1>5, OffTrueNext DEF SetupInv, LoaderTrue
  <2> QED BY <1>1, <1>3, <1>5, <2>1, QuietPromises
<1> QED BY <1>4, <1>5

LEMMA BootSetup == ASSUME MediaOK, SetupInv, BootSector PROVE SetupInv' /\ Promises
<1>1. /\ step = "boot" /\ pc = "idle" /\ UNCHANGED <<image, disk, keep, copied>>
      /\ UNCHANGED <<super, dsk, body, dir, mounted, call, pc, k, reply>> BY DEF BootSector, Still
<1>2. StoreInv' /\ UNCHANGED Files BY FaultStep, <1>1 DEF SetupInv, BootSector
<1>3. /\ image \in 1 .. RESERVED - 1 /\ sec \in 0 .. image - 1 /\ copied = 0
      /\ \A s \in 0 .. sec - 1 : boot[s] = "new" /\ result # "done"
      /\ boot = [s \in 0 .. RESERVED - 1 |-> boot[s]] BY <1>1 DEF SetupInv, LoaderTrue, CountTrue, StepTrue
<1>4. CASE /\ NoFault /\ boot' = [boot EXCEPT ![sec] = "new"]
           /\ IF sec + 1 = image THEN Goto("mount") /\ sec' = 1 ELSE Goto("boot") /\ sec' = sec + 1
  <2>1. /\ boot' = [s \in 0 .. RESERVED - 1 |-> boot'[s]]
        /\ \A s \in 0 .. sec : boot'[s] = "new"
    <3>1. sec \in 0 .. RESERVED - 1 /\ sec \in Nat BY <1>3 DEF MediaOK
    <3>2. boot' = [s \in 0 .. RESERVED - 1 |-> IF s = sec THEN "new" ELSE boot[s]] BY <1>3, <1>4, Zenon
    <3>3. boot' = [s \in 0 .. RESERVED - 1 |-> boot'[s]] BY <3>2, Zenon
    <3>4. \A s \in 0 .. RESERVED - 1 : boot'[s] = IF s = sec THEN "new" ELSE boot[s] BY <3>2, Zenon
    <3>5. \A s \in 0 .. sec : s \in 0 .. RESERVED - 1 /\ (s = sec \/ s \in 0 .. sec - 1) BY <3>1 DEF MediaOK
    <3> QED BY <1>3, <3>3, <3>4, <3>5, Zenon
  <2>2. result' = result BY <1>4 DEF Goto
  <2>3. CASE sec + 1 = image
    <3>1. step' = "mount" /\ sec' = 1 BY <1>4, <2>3 DEF Goto
    <3>2. \A s \in 0 .. image' - 1 : boot'[s] = "new" BY <1>1, <1>3, <2>1, <2>3
    <3> QED BY <1>1, <1>2, <1>3, <2>1, <2>2, <3>1, <3>2, QuietPromises DEF SetupInv, StoreInv, StepTrue, LoaderTrue,
      VolumeTrue, CountTrue, CopyTrue, FreshTrue
  <2>4. CASE sec + 1 # image
    <3>1. step' = "boot" /\ sec' = sec + 1 BY <1>4, <2>4 DEF Goto
    <3>2. sec' \in 0 .. image' - 1 /\ \A s \in 0 .. sec' - 1 : boot'[s] = "new" BY <1>1, <1>3, <2>1, <2>4, <3>1
    <3> QED BY <1>1, <1>2, <1>3, <2>1, <2>2, <3>1, <3>2, QuietPromises DEF SetupInv, StoreInv, StepTrue, LoaderTrue,
      VolumeTrue, CountTrue, CopyTrue, FreshTrue
  <2> QED BY <2>3, <2>4
<1>5. ASSUME Fault, NEW b, boot' = [boot EXCEPT ![sec] = b], Fail
      PROVE  SetupInv' /\ Promises
  <2>1. boot' = [s \in 0 .. RESERVED - 1 |-> boot'[s]] BY <1>3, <1>5
  <2>2. step' = "off" /\ result' = "failed" BY <1>5 DEF Fail
  <2> QED BY <1>2, <2>1, <2>2, OffTrueNext, QuietPromises
<1> QED BY <1>4, <1>5 DEF BootSector

\* KvFS steps of the installer keep what KvFS promises.
LEMMA KvfsStep == ASSUME SetupInv, [Next]_vars PROVE StoreInv' /\ RamInv' BY NextStoreInv DEF SetupInv, StoreInv

LEMMA MountSetup == ASSUME SetupInv, SetupMount PROVE SetupInv' /\ Promises
<1>1. /\ step = "mount" /\ pc = "idle" /\ KvfsMount /\ UNCHANGED <<image, disk, boot, keep, sec, copied>>
      /\ step' = (IF reply' = "ok" /\ keep THEN "copy" ELSE "format") /\ UNCHANGED result
  BY DEF SetupMount, Still, Goto
<1>2. StoreInv' /\ RamInv' BY <1>1, KvfsStep DEF Next
<1>3. UNCHANGED <<super, dsk, body>> /\ pc' = "idle" /\ (reply' = "ok" => super /\ Valid(dsk))
  BY <1>1 DEF KvfsMount, Return
<1>4. UNCHANGED Files BY <1>3, FilesKept
<1>5. StepTrue' /\ LoaderTrue' BY <1>1, <1>3 DEF SetupInv, StepTrue, LoaderTrue
<1>6. VolumeTrue' /\ CopyTrue' BY <1>1, <1>3 DEF VolumeTrue, CopyTrue
<1>7. CountTrue'
  <2>1. sec = 1 /\ copied = 0 BY <1>1 DEF SetupInv, CountTrue
  <2>2. Counted({})' BY <1>1, <2>1, FS_EmptySet DEF Counted
  <2> QED BY <1>1, <2>1, <2>2 DEF CountTrue
<1>8. FreshTrue' BY <1>1 DEF FreshTrue
<1> QED BY <1>1, <1>2, <1>4, <1>5, <1>6, <1>7, <1>8, QuietPromises DEF SetupInv

LEMMA FormatSetup == ASSUME SetupInv, SetupFormat PROVE SetupInv' /\ Promises
<1>1. /\ step = "format" /\ pc = "idle" /\ KvfsFormat /\ UNCHANGED <<image, disk, boot, keep, sec, copied>>
      /\ step' = "formatting" /\ UNCHANGED result BY DEF SetupFormat, Still, Goto
<1>2. StoreInv' /\ RamInv' BY <1>1, KvfsStep DEF Next
<1>3. UNCHANGED <<super, dsk, body>> /\ pc' = "super" BY <1>1 DEF KvfsFormat
<1>4. UNCHANGED Files BY <1>3, FilesKept
<1> QED BY <1>1, <1>2, <1>3, <1>4, QuietPromises DEF SetupInv, StepTrue, LoaderTrue, VolumeTrue, CountTrue, CopyTrue,
  FreshTrue

LEMMA FormattedSetup == ASSUME SetupInv, Formatted PROVE SetupInv' /\ Promises
<1>1. /\ step = "formatting" /\ pc = "idle" /\ UNCHANGED <<image, disk, boot, keep, sec, copied>>
      /\ UNCHANGED vars
      /\ IF reply = "ok" THEN step' = "copy" /\ UNCHANGED result ELSE step' = "off" /\ result' = "failed"
  BY DEF Formatted, Still, Goto, Fail
<1>2. StoreInv' /\ RamInv' /\ UNCHANGED <<super, dsk, body, pc, reply>> BY <1>1, KvfsStep DEF vars
<1>3. UNCHANGED Files BY <1>2, FilesKept
<1>4. CASE reply = "ok"
  <2>1. super /\ Valid(dsk) /\ Files = NoFiles BY <1>1, <1>4 DEF SetupInv, VolumeTrue
  <2>2. Counted({})' BY <1>1, FS_EmptySet DEF Counted, SetupInv, CountTrue
  <2>3. CountTrue' BY <1>1, <1>4, <2>2 DEF SetupInv, CountTrue
  <2>4. FreshTrue' BY <1>3, <2>1 DEF FreshTrue, NoFiles
  <2> QED BY <1>1, <1>2, <1>3, <1>4, <2>1, <2>3, <2>4, QuietPromises DEF SetupInv, StepTrue, LoaderTrue, VolumeTrue,
    CopyTrue
<1>5. CASE reply # "ok"
  <2>1. SetupInv' BY <1>1, <1>2, <1>5, OffTrueNext DEF SetupInv, LoaderTrue
  <2> QED BY <1>1, <1>3, <1>5, <2>1, QuietPromises
<1> QED BY <1>4, <1>5

\* While it copies, the installer's own name is the only one that may change.
LEMMA CopySetup == ASSUME MediaOK, SetupInv, CopyFile PROVE SetupInv' /\ Promises
<1> DEFINE f == RamFiles[sec]
<1>1. /\ step = "copy" /\ pc = "idle" /\ sec <= Len(RamFiles)
      /\ UNCHANGED <<image, disk, boot, keep, copied>> BY DEF CopyFile, Still
<1>2. /\ sec \in Nat \ {0} /\ (\E S : Counted(S)) /\ super /\ Valid(dsk)
      /\ \A s \in 0 .. image - 1 : boot[s] = "new" BY <1>1 DEF SetupInv, CountTrue, VolumeTrue, LoaderTrue
<1>3. sec \in DOMAIN RamFiles /\ DOMAIN RamFiles = 1 .. Len(RamFiles) /\ Len(RamFiles) \in Nat
  BY <1>1, <1>2, TableLength
<1>4. f.name \in Names /\ f.data \in Contents BY <1>3, ItsCall
<1>5. PICK S : Counted(S) BY <1>2
<1> HIDE DEF f
<1>6. CASE Skipped(f.name) /\ sec' = sec + 1 /\ UNCHANGED <<vars, step, result>>
  <2>1. UNCHANGED <<super, dsk, body, dir, mounted, call, pc, k, reply, faults>> BY <1>6 DEF vars
  <2>2. StoreInv' /\ RamInv' /\ UNCHANGED Files BY <2>1, <1>6, KvfsStep, FilesKept
  <2>3. Counted(S)' BY <1>1, <1>2, <1>3, <1>5, <1>6, <2>2 DEF Counted
  <2>4. CountTrue' BY <1>1, <1>2, <1>6, <2>3 DEF CountTrue
  <2>5. FreshTrue' /\ VolumeTrue' /\ CopyTrue' /\ StepTrue' /\ LoaderTrue' BY <1>1, <1>2, <1>6, <2>1, <2>2 DEF
    Skipped, SetupInv, FreshTrue, VolumeTrue, CopyTrue, StepTrue, LoaderTrue
  <2> QED BY <1>6, <2>2, <2>4, <2>5, QuietPromises DEF SetupInv
<1>7. CASE /\ ~Skipped(f.name) /\ (KvfsWrite(f.name, f.data) \/ KvfsRefuse(f.name, f.data))
           /\ step' = "copying" /\ UNCHANGED <<sec, result>>
  <2>1. [Next]_vars BY <1>4, <1>7 DEF Next
  <2>2. StoreInv' /\ RamInv' /\ UNCHANGED <<super, dsk, body>> BY <1>7, <2>1, KvfsStep DEF KvfsWrite, KvfsRefuse
  <2>3. UNCHANGED Files BY <2>2, FilesKept
  <2>4. pc' \in {"idle", "body"} /\ (pc' = "idle" => reply' = "error") BY <1>7 DEF KvfsWrite, KvfsRefuse, Return
  <2>5. ASSUME pc' # "idle"
        PROVE  /\ PendingCall' = [op |-> "write", name |-> f.name, data |-> f.data]
               /\ Files[f.name] = Missing
    <3>1. KvfsWrite(f.name, f.data) BY <1>7, <2>5 DEF KvfsRefuse, Return
    <3>2. mounted BY <3>1 DEF KvfsWrite
    <3>3. \E s, start : call' = WriteOf(f.name, f.data, s, start) BY <3>1 DEF KvfsWrite, WriteOf
    <3>4. Files[f.name] = Missing
      <4>1. CASE keep
        <5>1. FindEntry(dir, f.name) = {} BY <1>7, <3>2, <4>1 DEF Skipped
        <5> QED BY <1>4, <3>2, <5>1, NotFound DEF SetupInv
      <4>2. CASE ~keep
        <5>1. \A j \in DOMAIN RamFiles : RamFiles[j].name = f.name => j = sec BY <1>3 DEF MediaOK, f
        <5>2. ~(\E j \in DOMAIN RamFiles : RamFiles[j].name = f.name /\ j < sec) BY <1>2, <5>1
        <5> QED BY <1>1, <1>4, <4>2, <5>2 DEF SetupInv, FreshTrue
      <4> QED BY <4>1, <4>2
    <3> QED BY <3>3, <3>4, PendingNext
  <2>6. Counted(S)' BY <1>1, <1>5, <1>7, <2>3 DEF Counted
  <2>7. CountTrue' BY <1>1, <1>2, <1>3, <1>7, <2>6 DEF CountTrue
  <2>8. CopyTrue' BY <1>7, <2>3, <2>4, <2>5 DEF CopyTrue, f
  <2>9. FreshTrue' BY <1>1, <1>7, <2>3 DEF SetupInv, FreshTrue
  <2>10. StepTrue' /\ LoaderTrue' /\ VolumeTrue'
    BY <1>1, <1>2, <1>7, <2>2, <2>4 DEF SetupInv, StepTrue, LoaderTrue, VolumeTrue
  <2> QED BY <1>7, <2>2, <2>3, <2>7, <2>8, <2>9, <2>10, QuietPromises DEF SetupInv
<1> QED BY <1>6, <1>7 DEF CopyFile, Goto, f

LEMMA CopiedSetup == ASSUME MediaOK, SetupInv, FileCopied PROVE SetupInv' /\ Promises
<1>1. /\ step = "copying" /\ pc = "idle" /\ step' = "copy" /\ sec' = sec + 1
      /\ copied' = copied + (IF reply = "ok" THEN 1 ELSE 0)
      /\ UNCHANGED <<vars, image, disk, boot, keep, result>> BY DEF FileCopied, Still, Goto
<1>2. UNCHANGED <<super, dsk, body, dir, mounted, call, pc, k, reply, faults>> BY <1>1 DEF vars
<1>3. StoreInv' /\ RamInv' /\ UNCHANGED Files BY <1>1, <1>2, KvfsStep, FilesKept
<1>4. sec \in Nat \ {0} /\ sec \in DOMAIN RamFiles /\ \E S : Counted(S) BY <1>1 DEF SetupInv, CountTrue
<1>5. PICK S : Counted(S) BY <1>4
<1>6. IsFiniteSet(S) /\ Cardinality(S) = copied /\ Cardinality(S) \in Nat BY <1>5, FS_CardinalityType DEF Counted
<1>7. \E T : Counted(T)'
  <2>1. CASE reply = "ok"
    <3>1. Files[RamFiles[sec].name] = RamFiles[sec].data BY <1>1, <2>1 DEF SetupInv, CopyTrue
    <3>2. sec \notin S BY <1>4, <1>5 DEF Counted
    <3>3. IsFiniteSet(S \cup {sec}) /\ Cardinality(S \cup {sec}) = copied + 1 BY <1>6, <3>2, FS_AddElement
    <3>4. S \cup {sec} \subseteq {i \in DOMAIN RamFiles : i < sec'}
      <4>1. S \subseteq {i \in DOMAIN RamFiles : i < sec} /\ DOMAIN RamFiles \subseteq Int
        BY <1>5, TableLength DEF Counted
      <4> QED BY <1>1, <1>4, <4>1
    <3>5. \A i \in S \cup {sec} : Files'[RamFiles[i].name] = RamFiles[i].data BY <1>3, <1>5, <3>1 DEF Counted
    <3>6. copied' = copied + 1 BY <1>1, <2>1
    <3>7. PICK T : T = S \cup {sec} OBVIOUS
    <3>8. Counted(T)' BY <3>3, <3>4, <3>5, <3>6, <3>7 DEF Counted
    <3> QED BY <3>8
  <2>2. CASE reply # "ok"
    <3>1. S \subseteq {i \in DOMAIN RamFiles : i < sec'}
      <4>1. S \subseteq {i \in DOMAIN RamFiles : i < sec} /\ DOMAIN RamFiles \subseteq Int
        BY <1>5, TableLength DEF Counted
      <4> QED BY <1>1, <1>4, <4>1
    <3>2. copied' = copied BY <1>1, <1>6, <2>2
    <3>3. Counted(S)' BY <1>3, <1>5, <3>1, <3>2 DEF Counted
    <3> QED BY <3>3
  <2> QED BY <2>1, <2>2
<1>8. CountTrue' BY <1>1, <1>4, <1>7 DEF CountTrue
<1>9. FreshTrue'
  <2>1. DOMAIN RamFiles \subseteq Int BY TableLength
  <2> QED BY <1>1, <1>3, <1>4, <2>1 DEF SetupInv, FreshTrue
<1>10. StepTrue' /\ LoaderTrue' /\ VolumeTrue' /\ CopyTrue'
  BY <1>1, <1>2 DEF SetupInv, StepTrue, LoaderTrue, VolumeTrue, CopyTrue
<1> QED BY <1>1, <1>3, <1>8, <1>9, <1>10, QuietPromises DEF SetupInv

\* "Done" comes after the whole table.
LEMMA FinishSetup == ASSUME MediaOK, SetupInv, Finish PROVE SetupInv' /\ Promises
<1>1. step = "copy" /\ step' = "off" /\ UNCHANGED <<vars, image, disk, boot, keep, sec, copied>> BY DEF Finish, Still
<1>2. UNCHANGED <<super, dsk, body, dir, mounted, call, pc, k, reply, faults>> BY <1>1 DEF vars
<1>3. StoreInv' /\ RamInv' /\ UNCHANGED Files BY <1>1, <1>2, KvfsStep, FilesKept
<1>4. SetupInv' BY <1>1, <1>3, OffTrueNext DEF SetupInv, LoaderTrue
<1>5. /\ super /\ Valid(dsk) /\ \A s \in 0 .. image - 1 : boot[s] = "new"
      /\ \E S : Counted(S) BY <1>1 DEF SetupInv, VolumeTrue, LoaderTrue, CountTrue
<1>6. PICK S : Counted(S) BY <1>5
<1> DEFINE T == {i \in DOMAIN RamFiles : Files[RamFiles[i].name] = RamFiles[i].data}
<1>7. S \subseteq T /\ Cardinality(S) = copied BY <1>6 DEF Counted
<1>8. IsFiniteSet(T)
  <2>1. DOMAIN RamFiles = 1 .. Len(RamFiles) /\ Len(RamFiles) \in Nat BY TableLength
  <2>2. IsFiniteSet(1 .. Len(RamFiles)) BY <2>1, FS_Interval
  <2> QED BY <2>1, <2>2, FS_Subset
<1>9. Cardinality(T) >= copied
  <2>1. IsFiniteSet(S) /\ Cardinality(S) <= Cardinality(T) BY <1>7, <1>8, FS_Subset
  <2>2. Cardinality(S) \in Nat /\ Cardinality(T) \in Nat BY <1>8, <2>1, FS_CardinalityType
  <2> QED BY <1>7, <2>1, <2>2
<1>10. T = {i \in DOMAIN RamFiles : Files'[RamFiles[i].name] = RamFiles[i].data} BY <1>3
<1>11. Installed' BY <1>1, <1>2, <1>3, <1>5, <1>9, <1>10 DEF Installed
<1> QED BY <1>3, <1>4, <1>11 DEF Promises, LeavesFiles, FinishesInstalled

\* A command of the call in progress.
LEMMA CommandSetup == ASSUME MediaOK, SetupInv, DiskCommand PROVE SetupInv' /\ Promises
<1>1. (BodyWrite \/ CommitEntry \/ WriteSuper \/ WriteDir) /\ UNCHANGED setupVars BY DEF DiskCommand
<1>2. UNCHANGED <<image, disk, boot, step, keep, sec, copied, result>> BY <1>1 DEF setupVars
<1>3. StoreInv' /\ RamInv' BY <1>1, KvfsStep DEF Next
<1>4. pc # "idle" BY <1>1 DEF BodyWrite, CommitEntry, WriteSuper, WriteDir
<1>5. CASE step = "off"
  <2>1. SetupInv' BY <1>2, <1>3, <1>5, OffTrueNext DEF SetupInv, LoaderTrue
  <2> QED BY <1>2, <1>5, <2>1 DEF Promises, LeavesFiles, FinishesInstalled
<1>6. CASE step = "formatting"
  <2>1. WriteSuper \/ WriteDir BY <1>1, <1>6 DEF BodyWrite, CommitEntry, SetupInv, StepTrue
  <2>2. pc' \in {"idle", "super", "dirs"} BY <1>6, <2>1 DEF WriteSuper, WriteDir, Return
  <2>3. pc' = "idle" /\ reply' = "ok" => super' /\ Valid(dsk') /\ Files' = NoFiles
    BY <1>3, <2>1, FormattedFiles DEF SetupInv, WriteSuper, Return
  <2>4. StepTrue' /\ LoaderTrue' /\ VolumeTrue' /\ CountTrue' /\ CopyTrue' /\ FreshTrue' BY <1>2, <1>6, <2>2, <2>3 DEF
    SetupInv, StepTrue, LoaderTrue, VolumeTrue, CountTrue, CopyTrue, FreshTrue
  <2> QED BY <1>2, <1>3, <1>6, <2>4 DEF SetupInv, StepTrue, Promises, LeavesFiles, FinishesInstalled
<1>7. CASE step = "copying"
  <2> DEFINE f == RamFiles[sec]
  <2>1. (BodyWrite \/ CommitEntry) /\ pc' \in {"idle", "body", "commit"}
    BY <1>1, <1>7 DEF WriteSuper, WriteDir, SetupInv, StepTrue, BodyWrite, CommitEntry, Return
  <2>2. sec \in DOMAIN RamFiles /\ super /\ Valid(dsk) /\ result # "done" /\ \E S : Counted(S)
    BY <1>7 DEF SetupInv, CountTrue, VolumeTrue, StepTrue
  <2>3. f.name \in Names /\ f.data \in Contents BY <2>2, ItsCall
  <2>4. PendingCall = [op |-> "write", name |-> f.name, data |-> f.data] /\ Files[f.name] = Missing
    BY <1>4, <1>7 DEF SetupInv, CopyTrue
  <2> HIDE DEF f
  <2>5. Abstract!Apply = [Files EXCEPT ![f.name] = f.data]
    <3>1. PendingCall.op = "write" /\ PendingCall.name = f.name /\ PendingCall.data = f.data BY <2>4
    <3> QED BY <3>1 DEF Abstract!Apply
  <2>6. Files' \in {Files, [Files EXCEPT ![f.name] = f.data]} BY <2>1, <2>5, BodyFiles, CommitFiles DEF SetupInv
  <2>7. Files = [n \in Names |-> Files[n]] BY DEF Files
  <2>8. super' /\ Valid(dsk')
    <3>1. UNCHANGED super BY <2>1 DEF BodyWrite, CommitEntry
    <3>2. [Next]_vars BY <2>1 DEF Next
    <3>3. Valid(dsk') \/ UNCHANGED vars BY <2>2, <3>2, KeepsValid DEF SetupInv
    <3> QED BY <2>2, <3>1, <3>3 DEF vars
  <2>9. LeavesFiles BY <2>4, <2>6, <2>7 DEF LeavesFiles
  <2>10. CopyTrue'
    <3>1. CASE BodyWrite
      <4>1. UNCHANGED Files BY <3>1, BodyFiles DEF SetupInv
      <4>2. (pc' = "idle" /\ reply' = "error") \/ (pc' # "idle" /\ UNCHANGED call) BY <3>1 DEF BodyWrite, Return
      <4>3. UNCHANGED call => PendingCall' = PendingCall BY DEF PendingCall
      <4> QED BY <1>2, <2>4, <4>1, <4>2, <4>3 DEF CopyTrue, f
    <3>2. CASE CommitEntry
      <4>1. pc' = "idle" BY <3>2 DEF CommitEntry, Return
      <4>2. reply' = "ok" => Files'[f.name] = f.data BY <2>3, <2>5, <2>7, <3>2, CommitFiles DEF SetupInv
      <4> QED BY <1>2, <4>1, <4>2 DEF CopyTrue, f
    <3> QED BY <2>1, <3>1, <3>2
  <2>11. CountTrue'
    <3>1. PICK S : Counted(S) BY <2>2
    <3>2. \A i \in S : i \in DOMAIN RamFiles /\ i < sec /\ Files[RamFiles[i].name] = RamFiles[i].data
      BY <3>1 DEF Counted
    <3>3. \A i \in S : RamFiles[i].name # f.name
      <4>1. sec \in Int BY <2>2, TableLength
      <4> QED BY <2>2, <3>2, <4>1 DEF MediaOK, f
    <3>4. \A i \in S : Files'[RamFiles[i].name] = RamFiles[i].data
      <4>1. \A i \in S : RamFiles[i].name \in Names BY <3>2, ItsCall
      <4> QED BY <2>6, <2>7, <3>2, <3>3, <4>1
    <3>5. Counted(S)' BY <1>2, <3>1, <3>4 DEF Counted
    <3> QED BY <1>2, <1>7, <3>5 DEF SetupInv, CountTrue
  <2>12. FreshTrue'
    <3>1. \A n \in Names : Files'[n] # Missing => Files[n] # Missing \/ n = f.name BY <2>6, <2>7
    <3> QED BY <1>2, <1>7, <2>2, <3>1 DEF SetupInv, FreshTrue, f
  <2>13. StepTrue' /\ LoaderTrue' /\ VolumeTrue'
    BY <1>2, <1>7, <2>1, <2>8 DEF SetupInv, StepTrue, LoaderTrue, VolumeTrue
  <2> QED BY <1>2, <1>3, <2>2, <2>9, <2>10, <2>11, <2>12, <2>13 DEF SetupInv, Promises, FinishesInstalled
<1> QED BY <1>4, <1>5, <1>6, <1>7 DEF SetupInv, StepTrue

\* Before the first installation the disk is its owner's.
LEMMA OwnerSetup == ASSUME SetupInv, Owner PROVE SetupInv' /\ Promises
<1>1. step = "off" /\ UNCHANGED setupVars /\ [Next]_vars BY DEF Owner, Still, Next
<1>2. UNCHANGED <<step, boot, result>> BY <1>1 DEF setupVars
<1>3. SetupInv' BY <1>1, <1>2, KvfsStep, OffTrueNext DEF SetupInv, LoaderTrue
<1> QED BY <1>1, <1>2, <1>3 DEF Promises, LeavesFiles, FinishesInstalled

LEMMA PowerSetup == ASSUME SetupInv, PowerLoss PROVE SetupInv' /\ Promises
<1>1. Crash /\ step' = "off" /\ result' = "none" /\ UNCHANGED boot BY DEF PowerLoss
<1>2. StoreInv' BY <1>1, KvfsStep DEF Next
<1>3. UNCHANGED Files BY <1>1, FilesKept DEF Crash
<1>4. SetupInv' BY <1>1, <1>2, OffTrueNext DEF SetupInv, LoaderTrue
<1> QED BY <1>1, <1>3, <1>4, QuietPromises

LEMMA NextSetup ==
  ASSUME MediaOK, SetupInv, [SetupNext]_<<vars, setupVars>>
  PROVE  SetupInv' /\ [Promises]_<<vars, setupVars>>
<1>1. CASE UNCHANGED <<vars, setupVars>>
  <2>1. UNCHANGED <<super, dsk, body, dir, mounted, call, pc, k, reply, faults>>
        /\ UNCHANGED <<image, disk, boot, step, keep, sec, copied, result>> BY <1>1 DEF vars, setupVars
  <2>2. StoreInv' /\ RamInv' /\ UNCHANGED Files BY <1>1, <2>1, KvfsStep, FilesKept
  <2>3. UNCHANGED PendingCall BY <2>1 DEF PendingCall
  <2>4. CountTrue' BY <2>1, <2>2 DEF SetupInv, CountTrue, Counted
  <2>5. StepTrue' /\ LoaderTrue' /\ VolumeTrue' /\ CopyTrue' /\ FreshTrue'
    BY <2>1, <2>2, <2>3 DEF SetupInv, StepTrue, LoaderTrue, VolumeTrue, CopyTrue, FreshTrue
  <2> QED BY <1>1, <2>2, <2>4, <2>5 DEF SetupInv
<1>2. CASE SetupNext BY <1>2, StartSetup, BootSetup, MountSetup, FormatSetup, FormattedSetup, CopySetup, CopiedSetup,
  FinishSetup, CommandSetup, OwnerSetup, PowerSetup DEF SetupNext
<1> QED BY <1>1, <1>2

LEMMA SetupInductive == ASSUME MediaOK PROVE SetupSpec => []SetupInv BY InitSetup, NextSetup, PTL DEF SetupSpec

\* "Done" is said of a disk that boots: the whole loader, a KvFS that mounts and
\* as many files of the media as were counted, whatever failed and was lost on
\* the way (setup_install).
THEOREM DoneMeansInstalled == ASSUME MediaOK PROVE SetupSpec => [][FinishesInstalled]_<<vars, setupVars>>
<1>1. SetupInv /\ [SetupNext]_<<vars, setupVars>> => [FinishesInstalled]_<<vars, setupVars>> BY NextSetup DEF Promises
<1> QED BY <1>1, SetupInductive, PTL DEF SetupSpec

\* No step of an installation but the formatting takes a file away or replaces
\* one, whatever fails and whenever the power goes (setup_install, kvfs_write).
THEOREM FilesLeftAlone == ASSUME MediaOK PROVE SetupSpec => [][LeavesFiles]_<<vars, setupVars>>
<1>1. SetupInv /\ [SetupNext]_<<vars, setupVars>> => [LeavesFiles]_<<vars, setupVars>> BY NextSetup DEF Promises
<1> QED BY <1>1, SetupInductive, PTL DEF SetupSpec
=============================================================================
