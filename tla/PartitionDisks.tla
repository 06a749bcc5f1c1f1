---------------------------- MODULE PartitionDisks -----------------------------
(***************************************************************************)
(* Disks for Partitions: boot records of every geometry over a whole disk, *)
(* primary and extended tables that reach past its end or wrap or loop,    *)
(* and GPT disks whose headers, arrays or slots are damaged.               *)
(***************************************************************************)
EXTENDS Integers, Sequences, TLC

Total == 80
Fat(total, fatsz) ==
    [fs |-> "fat", bps |-> 8, spc |-> 1, reserved |-> 2, nfats |-> 1, root |-> 2, total |-> total, fatsz |-> fatsz,
     short |-> TRUE, rootCluster |-> 0, active |-> 0, fsinfo |-> 0, backup |-> 0, wal |-> "none"]
Fat32(total, fatsz, wal) == [Fat(total, fatsz) EXCEPT !.root = 0, !.short = FALSE, !.rootCluster = 2, !.wal = wal]
NtfsBoot(total, cpr, mft) ==
    [fs |-> "ntfs", bps |-> 8, spc |-> 1, total |-> total, high |-> 0, cpr |-> cpr, mft |-> mft]

Disk(mbr, ebr, gpt, slots, boot) ==
    [total |-> Total, usb |-> FALSE, lab |-> FALSE, mbr |-> mbr, ebr |-> ebr, gpt |-> gpt, slots |-> slots, boot |-> boot]
Nothing == <<>>
Plain(b) == Disk(<<>>, Nothing, Nothing, Nothing, 0 :> b)

Geometries ==
    {Plain([Fat(t, f) EXCEPT !.bps = bps, !.spc = spc, !.nfats = n, !.root = r, !.short = (r > 0), !.rootCluster = c]) :
        t \in {4, 8, 12, 40, 80, 81, 255}, f \in {1, 2, 8, 31, 84, 127}, bps \in {8, 16}, spc \in {1, 2},
        n \in {1, 3}, r \in {0, 2}, c \in {2, 9}}
    \cup {[Plain(Fat32(60, 32, w)) EXCEPT !.usb = u, !.lab = l] :
            w \in {"none", "good", "invalid"}, u \in BOOLEAN, l \in BOOLEAN}

Part(type, start, count) == [type |-> type, start |-> start, count |-> count]
Link(start, count, next) == [start |-> start, count |-> count, next |-> next, more |-> next # 255]
Tables ==
    {Disk(<<Part("fat", a, n), Part("extended", 30, 40), Part("fat", 10, 15)>>,
          30 :> Link(e, 12, next) @@ 45 :> Link(1, m, 255), Nothing, Nothing,
          2 :> Fat(12, 4) @@ 10 :> NtfsBoot(14, 1, TRUE) @@ 31 :> Fat(12, 4) @@ 46 :> NtfsBoot(t, -3, FALSE)
          @@ 70 :> Fat(12, 4) @@ 76 :> Fat(12, 4)) :
        a \in {2, 70, 76}, n \in {12, 5, 200}, e \in {1, 228, 46}, next \in {15, 0, 255, 100}, m \in {10, 40}, t \in {8, 20}}

Header(at, entries, count) ==
    [crc |-> TRUE, my |-> at, other |-> 80 - at, first |-> 6, last |-> 70, entries |-> entries,
     count |-> count, stride |-> 1, arrayCrc |-> TRUE]
Slot(start, end) == [used |-> TRUE, start |-> start, end |-> end]
GptDisk(head, back, one, two) ==
    Disk(<<Part("gpt", 1, 79), Part("fat", 6, 20)>>, Nothing, 1 :> head @@ 79 :> back,
         2 :> <<one, two, [Slot(0, 0) EXCEPT !.used = FALSE], Slot(40, 60)>>
         @@ 74 :> <<one, two, [Slot(0, 0) EXCEPT !.used = FALSE], Slot(40, 60)>>
         @@ 71 :> <<one, two, [Slot(0, 0) EXCEPT !.used = FALSE], Slot(40, 60)>>,
         0 :> Fat(12, 4) @@ 6 :> Fat(12, 4) @@ 25 :> NtfsBoot(10, 1, TRUE) @@ 40 :> Fat32(20, 8, "none") @@ 66 :> Fat(12, 4))
Heads == {Header(1, 2, 4)} \cup {[Header(1, 2, 4) EXCEPT !.crc = FALSE], [Header(1, 2, 4) EXCEPT !.first = 2],
          [Header(1, 2, 4) EXCEPT !.arrayCrc = FALSE], [Header(1, 2, 4) EXCEPT !.other = 50]}
Backs == {Header(79, 74, 4), Header(79, 71, 4), [Header(79, 74, 4) EXCEPT !.last = 76],
          [Header(79, 74, 4) EXCEPT !.crc = FALSE]}
Gpts == {GptDisk(h, b, one, two) : h \in Heads, b \in Backs,
            one \in {Slot(6, 20), Slot(66, 78), Slot(6, 90)}, two \in {Slot(25, 38), Slot(25, 33), Slot(0, 12)}}

Drives == Geometries \cup Tables \cup Gpts
=============================================================================
