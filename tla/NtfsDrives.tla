------------------------------- MODULE NtfsDrives --------------------------------
(***************************************************************************)
(* Volumes for Ntfs: one whose records are smaller than a cluster, with a  *)
(* fragmented $MFT, a sparse file that is not all initialized, a file      *)
(* whose data is in an extension record and a directory that continues in  *)
(* an index block; one whose records take two clusters, where records and  *)
(* index blocks may be torn.                                               *)
(***************************************************************************)
EXTENDS Integers, Sequences, TLC

Run(len, delta) == [len |-> len, delta |-> delta, sparse |-> FALSE]
Hole(len) == [len |-> len, delta |-> 0, sparse |-> TRUE]
At(vcn, len, lcn) == [vcn |-> vcn, len |-> len, lcn |-> lcn, sparse |-> FALSE]
Gap(vcn, len) == [vcn |-> vcn, len |-> len, lcn |-> 0, sparse |-> TRUE]
Small(type, value) ==
    [type |-> type, resident |-> TRUE, value |-> value, vcn |-> 0, runs |-> <<>>, extents |-> <<>>,
     size |-> Len(value), init |-> Len(value)]
Large(type, init, value, runs, extents) ==
    [type |-> type, resident |-> FALSE, value |-> value, vcn |-> 0, runs |-> runs, extents |-> extents,
     size |-> Len(value), init |-> init]
Rec(attrs) == [attrs |-> attrs, list |-> <<>>]
File(name, ref) == [name |-> name, ref |-> ref, dir |-> FALSE, hidden |-> FALSE]
Dir(name, ref) == [name |-> name, ref |-> ref, dir |-> TRUE, hidden |-> FALSE]
Hidden(name, ref) == [name |-> name, ref |-> ref, dir |-> FALSE, hidden |-> TRUE]
Node(ref, dir) == [ref |-> ref, dir |-> dir]
Unit(what, part) == [what |-> what, part |-> part, gen |-> 1]
Record(r) == Unit(<<"rec", r>>, 1)
Block(b) == Unit(<<"indx", b>>, 1)
Bytes(x) == Unit(<<"data", x>>, 1)

\* Two records in a cluster; clusters 1, 2 and 5, 4 hold $MFT.
Fragmented ==
    LET top == <<Hidden("$MFT", 0), File("f", 6)>>
        rest == <<<<File("g", 3)>>, <<Dir("d", 7)>>>> IN
    [spc |-> 2, spr |-> 1, mft |-> 1, torn |-> {},
     at |-> (2 :> Record(0) @@ 3 :> Record(1) @@ 4 :> Record(2) @@ 5 :> Record(3)
             @@ 10 :> Bytes("junk") @@ 11 :> Record(5) @@ 8 :> Record(6) @@ 9 :> Record(7)
             @@ 6 :> Bytes("c") @@ 7 :> Bytes("old") @@ 12 :> Bytes("a") @@ 13 :> Bytes("b")
             @@ 14 :> Bytes("d") @@ 15 :> Bytes("e") @@ 16 :> Block(1) @@ 17 :> Block(2)),
     records |-> (0 :> Rec(<<Large("data", 8, [k \in 1 .. 8 |-> Record(k - 1)], <<Run(2, 1), Run(1, 4), Run(1, -1)>>,
                                   <<At(0, 2, 1), At(2, 1, 5), At(3, 1, 4)>>)>>)
                  @@ 1 :> Rec(<<Small("data", <<Bytes("z")>>)>>)
                  @@ 2 :> Rec(<<Large("data", 2, <<Bytes("d"), Bytes("e")>>, <<Run(1, 7)>>, <<At(0, 1, 7)>>)>>)
                  @@ 3 :> [attrs |-> <<>>, list |-> <<[type |-> "data", ref |-> 0], [type |-> "data", ref |-> 2]>>]
                  @@ 5 :> Rec(<<Small("root", top),
                                Large("alloc", 2, <<Block(1), Block(2)>>, <<Run(1, 8)>>, <<At(0, 1, 8)>>)>>)
                  @@ 6 :> Rec(<<Large("data", 5, [k \in 1 .. 6 |-> Bytes(<<"a", "b", "zero", "zero", "c", "zero">>[k])],
                                      <<Run(1, 6), Hole(1), Run(1, -3)>>, <<At(0, 1, 6), Gap(1, 1), At(2, 1, 3)>>)>>)
                  @@ 7 :> Rec(<<Small("root", <<File("h", 1)>>)>>)),
     blocks |-> rest,
     nodes |-> (<<>> :> Node(5, TRUE) @@ <<"$MFT">> :> Node(0, FALSE) @@ <<"f">> :> Node(6, FALSE)
                @@ <<"g">> :> Node(3, FALSE) @@ <<"d">> :> Node(7, TRUE) @@ <<"d", "h">> :> Node(1, FALSE)),
     entries |-> (<<>> :> (top \o rest[1] \o rest[2]) @@ <<"d">> :> <<File("h", 1)>>),
     truth |-> (<<"f">> :> <<"a", "b", "zero", "zero", "c", "zero">> @@ <<"g">> :> <<"d", "e">> @@ <<"d", "h">> :> <<"z">>)]

\* A record takes two clusters; the second half of a record or of the index
\* block may be of another generation.
Wide(half, lost) ==
    LET at == [s \in {0, 1, 10, 11, 12, 13, 14, 15, 16} |->
                LET u == CASE s \in {0, 1} -> Unit(<<"rec", 0>>, s + 1)
                           [] s \in {10, 11} -> Unit(<<"rec", 5>>, s - 9)
                           [] s \in {12, 13} -> Unit(<<"rec", 6>>, s - 11)
                           [] s \in {14, 15} -> Unit(<<"indx", 1>>, s - 13)
                           [] OTHER -> Bytes("a") IN
                IF s = half THEN [u EXCEPT !.gen = 2] ELSE u] IN
    [spc |-> 1, spr |-> 2, mft |-> 0, torn |-> lost, at |-> at,
     records |-> (0 :> Rec(<<Large("data", 14, [k \in 1 .. 14 |-> at[IF k - 1 \in DOMAIN at THEN k - 1 ELSE 0]],
                                   <<Run(14, 0)>>, <<At(0, 14, 0)>>)>>)
                  @@ 5 :> Rec(<<Small("root", <<File("f", 6)>>),
                                Large("alloc", 2, <<at[14], at[15]>>, <<Run(2, 14)>>, <<At(0, 2, 14)>>)>>)
                  @@ 6 :> Rec(<<Large("data", 1, <<at[16]>>, <<Run(1, 16)>>, <<At(0, 1, 16)>>)>>)),
     blocks |-> <<<<File("g", 6)>>>>,
     nodes |-> (<<>> :> Node(5, TRUE) @@ <<"f">> :> Node(6, FALSE) @@ <<"g">> :> Node(6, FALSE)),
     entries |-> <<>> :> <<File("f", 6), File("g", 6)>>,
     truth |-> (<<"f">> :> <<"a">> @@ <<"g">> :> <<"a">>)]

Drives == {Fragmented, Wide(99, {}), Wide(13, {<<"f">>, <<"g">>}), Wide(15, {<<"g">>})}

\* A downloaded file whose many fragments moved its data to an extension
\* record, while a small named stream stayed in the base record.
Streams ==
    {[Fragmented EXCEPT !.records = 3 :> [attrs |-> <<Small("data", <<Bytes("zone")>>)>>,
                                          list |-> <<[type |-> "data", ref |-> 2]>>] @@ @]}
=============================================================================
