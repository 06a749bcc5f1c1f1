---------------------------- MODULE VolumesProofs -----------------------------
(***************************************************************************)
(* The programs that change volumes: the file manager, the shell and the   *)
(* editors, for every table of volumes, every set of paths and every       *)
(* bound.                                                                  *)
(*                                                                         *)
(* What a call of the volume table may change is stated once, for any      *)
(* store.  What a program remembers of a volume it remembers with the      *)
(* namespace it was seen in: while that is the current one the name still  *)
(* leads to the same medium, since the table moves only with it.           *)
(***************************************************************************)
EXTENDS FileMgr, Shell, Editors, SequenceTheorems, TLAPS

-----------------------------------------------------------------------------
(*****************************************************************************)
(* The calls of the volume table.                                            *)
(*****************************************************************************)
Fields == {"r", "tab", "gen", "files", "kv", "rw"}
IsStore(s) == s = [x \in Fields |-> s[x]] /\ s.gen \in Nat

LEMMA NowIsStore == ASSUME generation \in Nat PROVE IsStore(Now)
<1> DEFINE s == [r |-> 0, tab |-> vols, gen |-> generation, files |-> files,
                 kv |-> kvMounted, rw |-> writable]
<1>1. s = [x \in DOMAIN s |-> s[x]] OBVIOUS
<1>2. DOMAIN s = Fields BY DEF Fields
<1> QED BY <1>1, <1>2 DEF IsStore, Now

\* A refusal: the same store with a result.
Keeps(s, o) ==
    /\ IsStore(o) /\ o.tab = s.tab
    /\ o.gen = s.gen /\ o.files = s.files /\ o.kv = s.kv /\ o.rw = s.rw

\* A change of medium m to fs: made or not, and where it was refused by the
\* device no medium is left in use that may have it or not.
Outcome(s, o, m, fs) ==
    /\ IsStore(o) /\ o.tab = s.tab
    /\ o.files \in {s.files, fs} /\ o.rw \subseteq s.rw
    /\ o.gen = s.gen => o.kv = s.kv
    /\ o.gen # s.gen => m = Kv /\ o.gen = s.gen + 1 /\ o.kv = FALSE /\ o.r < 0
    /\ o.r >= 0 => o.gen = s.gen /\ o.rw = s.rw
    /\ o.r < 0 /\ o.files # s.files =>
        (m = Kv /\ o.gen # s.gen) \/ (m \in FatMedia /\ m \notin o.rw)

LEMMA Rets ==
    ASSUME NEW s, IsStore(s), NEW r
    PROVE  Keeps(s, Ret(s, r)) /\ Ret(s, r).r = r BY DEF Ret, IsStore, Keeps, Fields

LEMMA Keepers ==
    ASSUME NEW s, IsStore(s), NEW o, Keeps(s, o), o.r \in Int, NEW m, NEW fs
    PROVE  Outcome(s, o, m, fs) BY DEF Keeps, Outcome

LEMMA Dones ==
    ASSUME NEW s, IsStore(s), NEW r \in Nat, NEW fs, NEW m, NEW o \in Done(s, r, fs)
    PROVE  Outcome(s, o, m, fs) /\ o.r = r /\ o.files = fs
<1>1. o = [s EXCEPT !.r = r, !.files = fs] BY DEF Done
<1>2. IsStore(o) /\ o.tab = s.tab /\ o.gen = s.gen /\ o.kv = s.kv /\ o.rw = s.rw /\ o.r = r /\ o.files = fs
  BY <1>1 DEF IsStore, Fields
<1> QED BY <1>2 DEF Outcome

LEMMA Brokens ==
    ASSUME NEW s, IsStore(s), NEW r \in Int, r < 0, NEW m, NEW fs, NEW o \in Broken(s, r, m, fs)
    PROVE  Outcome(s, o, m, fs) /\ o.r = r
<1>1. CASE m = Kv
  <2>1. PICK f \in {s.files, fs} : o = [s EXCEPT !.r = r, !.files = f, !.kv = FALSE, !.gen = s.gen + 1]
    BY <1>1 DEF Broken
  <2>2. o.tab = s.tab /\ o.gen = s.gen + 1 /\ o.kv = FALSE /\ o.rw = s.rw /\ o.r = r /\ o.files = f
    BY <2>1 DEF IsStore, Fields
  <2>3. s.gen \in Nat /\ o.gen \in Nat BY <2>2 DEF IsStore
  <2>4. o = [x \in Fields |-> o[x]] BY <2>1 DEF IsStore, Fields
  <2>5. IsStore(o) BY <2>3, <2>4, Zenon DEF IsStore
  <2> QED BY <1>1, <2>2, <2>3, <2>5 DEF Outcome
<1>2. CASE m # Kv /\ m \in FatMedia
  <2>1. CASE o = Ret(s, r) BY <2>1, Rets, Keepers
  <2>2. CASE \E f \in {s.files, fs} : o = [s EXCEPT !.r = r, !.files = f, !.rw = s.rw \ {m}]
    <3>1. PICK f \in {s.files, fs} : o = [s EXCEPT !.r = r, !.files = f, !.rw = s.rw \ {m}] BY <2>2
    <3>2. IsStore(o) /\ o.tab = s.tab /\ o.gen = s.gen /\ o.kv = s.kv /\ o.rw = s.rw \ {m} /\ o.r = r /\ o.files = f
      BY <3>1 DEF IsStore, Fields
    <3> QED BY <1>2, <3>2 DEF Outcome
  <2>3. o \in {Ret(s, r)} \cup {[s EXCEPT !.r = r, !.files = f, !.rw = s.rw \ {m}] : f \in {s.files, fs}}
    BY <1>2 DEF Broken
  <2> QED BY <2>1, <2>2, <2>3
<1>3. CASE m # Kv /\ m \notin FatMedia BY <1>3 DEF Broken
<1> QED BY <1>1, <1>2, <1>3

-----------------------------------------------------------------------------
\* Where a call may change something it changes that one file, of the medium
\* that the table has under the name.
May(s, v) == Mounted(s, v) /\ MediumAt(s, v) \in s.rw /\ Ready(s, MediumAt(s, v))

LEMMA Writes ==
    ASSUME NEW s, IsStore(s), NEW v, NEW p, NEW c, NEW o \in VfsWrite(s, v, p, c)
    PROVE  /\ Outcome(s, o, MediumAt(s, v), Put(s, MediumAt(s, v), p, c))
           /\ o.r \in {1, -1, -2, -3}
           /\ o.r = 1 \/ o.files # s.files \/ o.gen # s.gen =>
                /\ May(s, v) /\ ParentIsDir(s, MediumAt(s, v), p)
                /\ s.files[MediumAt(s, v)][p] # Folder
           /\ o.r = 1 => o.files = Put(s, MediumAt(s, v), p, c)
           /\ o.r \in {-2, -3} => Keeps(s, o)
<1> DEFINE m == MediumAt(s, v)
           fs == Put(s, m, p, c)
           may == May(s, v) /\ ParentIsDir(s, m, p) /\ s.files[m][p] # Folder
<1>1. (\E r \in {-1, -2, -3} : o = Ret(s, r)) \/ (may /\ o \in Done(s, 1, fs) \cup Broken(s, -1, m, fs))
  BY DEF VfsWrite, May
<1>2. CASE \E r \in {-1, -2, -3} : o = Ret(s, r)
  <2>1. PICK r \in {-1, -2, -3} : o = Ret(s, r) BY <1>2
  <2>2. Keeps(s, o) /\ o.r = r BY <2>1, Rets
  <2> QED BY <2>2, Keepers DEF Keeps
<1>3. CASE may /\ o \in Done(s, 1, fs)
  <2>1. Outcome(s, o, m, fs) /\ o.r = 1 /\ o.files = fs BY <1>3, Dones
  <2> QED BY <1>3, <2>1
<1>4. CASE may /\ o \in Broken(s, -1, m, fs)
  <2>1. Outcome(s, o, m, fs) /\ o.r = -1 BY <1>4, Brokens
  <2> QED BY <1>4, <2>1
<1> QED BY <1>1, <1>2, <1>3, <1>4

LEMMA Removes ==
    ASSUME NEW s, IsStore(s), NEW v, NEW p, NEW o \in VfsRemove(s, v, p)
    PROVE  /\ Outcome(s, o, MediumAt(s, v), Put(s, MediumAt(s, v), p, None))
           /\ o.r \in {0, -1, -2, -4}
           /\ o.r = 0 \/ o.files # s.files \/ o.gen # s.gen =>
                /\ May(s, v) /\ ParentIsDir(s, MediumAt(s, v), p)
                /\ s.files[MediumAt(s, v)][p] # None
           /\ o.r = 0 => o.files = Put(s, MediumAt(s, v), p, None)
           /\ o.r \in {-2, -4} => Keeps(s, o)
<1> DEFINE m == MediumAt(s, v)
           fs == Put(s, m, p, None)
           may == May(s, v) /\ ParentIsDir(s, m, p) /\ s.files[m][p] # None
<1>1. (\E r \in {-1, -2, -4} : o = Ret(s, r)) \/ (may /\ o \in Done(s, 0, fs) \cup Broken(s, -1, m, fs))
  BY DEF VfsRemove, May
<1>2. CASE \E r \in {-1, -2, -4} : o = Ret(s, r)
  <2>1. PICK r \in {-1, -2, -4} : o = Ret(s, r) BY <1>2
  <2>2. Keeps(s, o) /\ o.r = r BY <2>1, Rets
  <2> QED BY <2>2, Keepers DEF Keeps
<1>3. CASE may /\ o \in Done(s, 0, fs)
  <2>1. Outcome(s, o, m, fs) /\ o.r = 0 /\ o.files = fs BY <1>3, Dones
  <2> QED BY <1>3, <2>1
<1>4. CASE may /\ o \in Broken(s, -1, m, fs)
  <2>1. Outcome(s, o, m, fs) /\ o.r = -1 BY <1>4, Brokens
  <2> QED BY <1>4, <2>1
<1> QED BY <1>1, <1>2, <1>3, <1>4

\* What a rename makes of the files, onto a name that is free.
Moved(s, m, p, q) == [s.files EXCEPT ![m][p] = None, ![m][q] = s.files[m][p]]

LEMMA Renames ==
    ASSUME NEW s, IsStore(s), NEW v, NEW p, NEW q, NEW o \in VfsRename(s, v, p, q)
    PROVE  /\ Outcome(s, o, MediumAt(s, v), Moved(s, MediumAt(s, v), p, q))
           /\ o.r \in {0, -1, -2, -3, -5, -6}
           /\ o.r = 0 \/ o.files # s.files \/ o.gen # s.gen =>
                /\ May(s, v) /\ Flat(MediumAt(s, v)) /\ s.files[MediumAt(s, v)][p] # None
                /\ p # q => s.files[MediumAt(s, v)][q] = None
           /\ o.files # s.files \/ o.gen # s.gen => p # q
           /\ o.r = 0 /\ p # q => o.files = Moved(s, MediumAt(s, v), p, q)
           /\ o.r \in {-1, -2, -3, -5} => Keeps(s, o)
<1> DEFINE m == MediumAt(s, v)
           fs == Moved(s, m, p, q)
           may == May(s, v) /\ Flat(m) /\ s.files[m][p] # None
           free == may /\ p # q /\ s.files[m][q] = None
<1>1. \/ \E r \in {-1, -2, -3, -5} : o = Ret(s, r)
      \/ may /\ p = q /\ o = Ret(s, 0)
      \/ free /\ o \in Done(s, 0, fs) \cup Broken(s, -6, m, fs)
  BY DEF VfsRename, VfsCanRename, VfsWritable, May, Moved
<1>2. CASE \E r \in {-1, -2, -3, -5} : o = Ret(s, r)
  <2>1. PICK r \in {-1, -2, -3, -5} : o = Ret(s, r) BY <1>2
  <2>2. Keeps(s, o) /\ o.r = r BY <2>1, Rets
  <2> QED BY <2>2, Keepers DEF Keeps
<1>3. CASE may /\ p = q /\ o = Ret(s, 0)
  <2>1. Keeps(s, o) /\ o.r = 0 BY <1>3, Rets
  <2> QED BY <1>3, <2>1, Keepers DEF Keeps
<1>4. CASE free /\ o \in Done(s, 0, fs)
  <2>1. Outcome(s, o, m, fs) /\ o.r = 0 /\ o.files = fs BY <1>4, Dones
  <2> QED BY <1>4, <2>1
<1>5. CASE free /\ o \in Broken(s, -6, m, fs)
  <2>1. Outcome(s, o, m, fs) /\ o.r = -6 BY <1>5, Brokens
  <2> QED BY <1>5, <2>1
<1> QED BY <1>1, <1>2, <1>3, <1>4, <1>5

LEMMA Mkdirs ==
    ASSUME NEW s, IsStore(s), NEW v, NEW p, NEW o \in VfsMkdir(s, v, p)
    PROVE  /\ Outcome(s, o, MediumAt(s, v), Put(s, MediumAt(s, v), p, Folder))
           /\ o.r \in {0, -1, -2, -5}
           /\ o.r = 0 \/ o.files # s.files \/ o.gen # s.gen =>
                /\ Mounted(s, v) /\ MediumAt(s, v) \in s.rw
                /\ s.files[MediumAt(s, v)][p] = None
           /\ o.r = 0 => o.files = Put(s, MediumAt(s, v), p, Folder)
           /\ o.r \in {-2, -5} => Keeps(s, o)
<1> DEFINE m == MediumAt(s, v)
           fs == Put(s, m, p, Folder)
           may == Mounted(s, v) /\ m \in s.rw /\ s.files[m][p] = None
<1>1. (\E r \in {-1, -2, -5} : o = Ret(s, r)) \/ (may /\ o \in Done(s, 0, fs) \cup Broken(s, -1, m, fs))
  BY DEF VfsMkdir
<1>2. CASE \E r \in {-1, -2, -5} : o = Ret(s, r)
  <2>1. PICK r \in {-1, -2, -5} : o = Ret(s, r) BY <1>2
  <2>2. Keeps(s, o) /\ o.r = r BY <2>1, Rets
  <2> QED BY <2>2, Keepers DEF Keeps
<1>3. CASE may /\ o \in Done(s, 0, fs)
  <2>1. Outcome(s, o, m, fs) /\ o.r = 0 /\ o.files = fs BY <1>3, Dones
  <2> QED BY <1>3, <2>1
<1>4. CASE may /\ o \in Broken(s, -1, m, fs)
  <2>1. Outcome(s, o, m, fs) /\ o.r = -1 BY <1>4, Brokens
  <2> QED BY <1>4, <2>1
<1> QED BY <1>1, <1>2, <1>3, <1>4

\* What those changes are, file by file.
Shaped(fs) == fs = [m \in Media |-> [p \in Paths |-> fs[m][p]]]

LEMMA PutAt ==
    ASSUME NEW s, Shaped(s.files), NEW m, NEW p, NEW c
    PROVE  /\ Shaped(Put(s, m, p, c))
           /\ \A k \in Media, q \in Paths :
                Put(s, m, p, c)[k][q] = IF k = m /\ q = p THEN c ELSE s.files[k][q] BY DEF Put, Shaped

LEMMA MovedAt ==
    ASSUME NEW s, Shaped(s.files), NEW m, NEW p, NEW q
    PROVE  /\ Shaped(Moved(s, m, p, q))
           /\ \A k \in Media, x \in Paths :
                Moved(s, m, p, q)[k][x] =
                    IF k = m /\ x = q THEN s.files[m][p]
                    ELSE IF k = m /\ x = p THEN None
                    ELSE s.files[k][x] BY DEF Moved, Shaped

-----------------------------------------------------------------------------
(*****************************************************************************)
(* The file manager.                                                         *)
(*****************************************************************************)
Lies(tab, v) == tab[CHOOSE i \in DOMAIN tab : tab[i].name = v].medium

\* What was seen in namespace x.namespace, of the volume x.vol: still true
\* while that namespace is the current one.
Known(x, tab, gen) ==
    /\ x.namespace \in Nat /\ x.namespace <= gen
    /\ x.namespace = gen => x.on = Lies(tab, x.vol)

Asking == {"delete", "rename", "mkdir"}
FmInv ==
    /\ generation \in Nat \ {0}
    /\ Shaped(files)
    /\ active \in {1, 2} /\ DOMAIN panes = {1, 2}
    /\ \A i \in {1, 2} : Known(panes[i], vols, generation)
    /\ modal.kind \in Asking => Known(modal, vols, generation)

LEMMA KnownLater ==
    ASSUME NEW x, NEW tab, NEW gen \in Nat, NEW tab1, NEW gen1 \in Nat, Known(x, tab, gen),
           gen1 > gen \/ (gen1 = gen /\ tab1 = tab)
    PROVE  Known(x, tab1, gen1) BY DEF Known

\* A listing is of the volume that has the name now, or of none.
LEMMA Loads ==
    ASSUME NEW s, s.gen \in Nat \ {0}, NEW x, NEW p \in PaneLoads(s, x)
    PROVE  Known(p, s.tab, s.gen) /\ p.vol = x.vol
<1>1. /\ p.vol = x.vol /\ p.namespace \in {0, s.gen}
      /\ p.namespace # 0 => Mounted(s, x.vol) /\ p.on = MediumAt(s, x.vol) BY DEF PaneLoads, VfsReaddir
<1> QED BY <1>1 DEF Known, Lies, MediumAt

LEMMA FmInitInv == FmInit => FmInv
<1> SUFFICES ASSUME FmInit PROVE FmInv OBVIOUS
<1>1. generation = 1 /\ Shaped(files) /\ active = 1 /\ modal = NoModal BY DEF FmInit, VolumesInit, Shaped
<1>2. PICK p \in PaneLoads(Now, [vol |-> DefaultVolume(FALSE), dir |-> <<>>, sel |-> 1]),
           q \in PaneLoads(Now, [vol |-> DefaultVolume(TRUE), dir |-> <<>>, sel |-> 1]) :
        panes = <<p, q>> BY DEF FmInit
<1>3. Now.gen = 1 /\ Now.tab = vols BY <1>1 DEF Now
<1>4. Known(p, vols, generation) /\ Known(q, vols, generation) BY <1>1, <1>3, Loads
<1> QED BY <1>1, <1>2, <1>4 DEF FmInv, NoModal, Asking

\* A step that puts another store in place and lists some panes in it.
LEMMA Relists ==
    ASSUME FmInv, NEW o, IsStore(o), Become(o), Shaped(o.files),
           o.gen > generation \/ (o.gen = generation /\ o.tab = vols),
           DOMAIN panes' = {1, 2},
           \A i \in {1, 2} : Known(panes'[i], o.tab, o.gen) \/ Known(panes'[i], vols, generation),
           active' \in {1, 2},
           modal'.kind \in Asking => Known(modal', vols, generation)
    PROVE  FmInv'
<1>1. generation \in Nat \ {0} /\ o.gen \in Nat BY DEF FmInv, IsStore
<1>2. generation' = o.gen /\ vols' = o.tab /\ files' = o.files BY DEF Become
<1>3. generation' \in Nat \ {0} BY <1>1, <1>2
<1>4. ASSUME NEW x, Known(x, vols, generation) PROVE Known(x, vols', generation') BY <1>1, <1>2, <1>4, KnownLater
<1>5. \A i \in {1, 2} : Known(panes'[i], vols', generation') BY <1>2, <1>4
<1>6. modal'.kind \in Asking => Known(modal', vols', generation') BY <1>4
<1>7. Shaped(files)' BY <1>2 DEF Shaped
<1> QED BY <1>3, <1>5, <1>6, <1>7 DEF FmInv

\* What the panes may be after a listing, o being the store.
LEMMA LoadsPane ==
    ASSUME NEW o, o.gen \in Nat \ {0}, NEW ps, DOMAIN ps = {1, 2}, NEW i \in {1, 2},
           LoadPane(o, ps, i)
    PROVE  /\ DOMAIN panes' = {1, 2} /\ panes'[3 - i] = ps[3 - i]
           /\ Known(panes'[i], o.tab, o.gen)
<1>1. PICK p \in PaneLoads(o, ps[i]) : panes' = [ps EXCEPT ![i] = p] BY DEF LoadPane
<1>2. Known(p, o.tab, o.gen) BY Loads
<1> QED BY <1>1, <1>2

LEMMA LoadsBoth ==
    ASSUME NEW o, o.gen \in Nat \ {0}, LoadBoth(o)
    PROVE  DOMAIN panes' = {1, 2} /\ \A i \in {1, 2} : Known(panes'[i], o.tab, o.gen)
<1>1. PICK p \in PaneLoads(o, panes[1]), q \in PaneLoads(o, panes[2]) : panes' = <<p, q>> BY DEF LoadBoth
<1>2. Known(p, o.tab, o.gen) /\ Known(q, o.tab, o.gen) BY Loads
<1> QED BY <1>1, <1>2

LEMMA LoadsBothAt ==
    ASSUME NEW o, o.gen \in Nat \ {0}, NEW n, active \in {1, 2}, LoadBothAt(o, n)
    PROVE  DOMAIN panes' = {1, 2} /\ \A i \in {1, 2} : Known(panes'[i], o.tab, o.gen)
<1>1. PICK p \in PaneLoads(o, panes[1]), q \in PaneLoads(o, panes[2]) :
        panes' = [<<p, q>> EXCEPT ![active] = CursorOn(@, n)] BY DEF LoadBothAt
<1>2. ASSUME NEW x, NEW r \in PaneLoads(o, x) PROVE Known(CursorOn(r, n), o.tab, o.gen)
  <2>1. {"vol", "namespace", "on"} \subseteq DOMAIN r BY DEF PaneLoads
  <2>2. /\ CursorOn(r, n).vol = r.vol /\ CursorOn(r, n).namespace = r.namespace
        /\ CursorOn(r, n).on = r.on BY <2>1 DEF CursorOn
  <2>3. Known(r, o.tab, o.gen) BY Loads
  <2> QED BY <2>2, <2>3 DEF Known
<1>3. Known(p, o.tab, o.gen) /\ Known(q, o.tab, o.gen) BY Loads
<1>4. Known(CursorOn(p, n), o.tab, o.gen) /\ Known(CursorOn(q, n), o.tab, o.gen) BY <1>2
<1> QED BY <1>1, <1>3, <1>4

LEMMA GotosPane ==
    ASSUME FmInv, NEW ps, DOMAIN ps = {1, 2}, NEW i \in {1, 2}, NEW v, NEW d, PaneGoto(ps, i, v, d)
    PROVE  /\ DOMAIN panes' = {1, 2} /\ panes'[3 - i] = ps[3 - i]
           /\ Known(panes'[i], vols, generation)
<1> DEFINE qs == [ps EXCEPT ![i].vol = v, ![i].dir = d, ![i].sel = 1]
<1>1. LoadPane(Now, qs, i) BY DEF PaneGoto
<1>2. DOMAIN qs = {1, 2} /\ qs[3 - i] = ps[3 - i] OBVIOUS
<1>3. Now.gen = generation /\ Now.tab = vols BY DEF Now
<1> HIDE DEF qs
<1>4. Now.gen \in Nat \ {0} BY <1>3 DEF FmInv
<1> QED BY <1>1, <1>2, <1>3, <1>4, LoadsPane

\* A step that leaves the volumes alone.
LEMMA Stays ==
    ASSUME FmInv, UNCHANGED volVars, active' \in {1, 2}, DOMAIN panes' = {1, 2},
           \A i \in {1, 2} : Known(panes'[i], vols, generation),
           modal'.kind \in Asking => Known(modal', vols, generation)
    PROVE  FmInv' BY DEF FmInv, volVars, Shaped

\* Opening an item, whatever the cursor was moved to first.
LEMMA OpensStays ==
    ASSUME FmInv, UNCHANGED volVars, active' \in {1, 2}, NEW i \in {1, 2}, NEW ps, DOMAIN ps = {1, 2},
           \A j \in {1, 2} : Known(ps[j], vols, generation), Opens(ps, i)
    PROVE  FmInv'
<1>1. CASE panes' = ps /\ UNCHANGED modal BY <1>1, Stays DEF FmInv
<1>2. CASE (\E v, d : PaneGoto(ps, i, v, d)) /\ UNCHANGED modal
  <2>1. DOMAIN panes' = {1, 2} /\ panes'[3 - i] = ps[3 - i] /\ Known(panes'[i], vols, generation) BY <1>2, GotosPane
  <2>2. \A j \in {1, 2} : Known(panes'[j], vols, generation) BY <2>1
  <2> QED BY <1>2, <2>1, <2>2, Stays DEF FmInv
<1>3. CASE panes' = ps /\ \E c : modal' = IF c = None THEN NoModal ELSE [kind |-> "view"]
  <2>1. modal'.kind \notin Asking BY <1>3 DEF NoModal, Asking
  <2> QED BY <1>3, <2>1, Stays
<1> QED BY <1>1, <1>2, <1>3 DEF Opens

\* Keys and clicks in the panes and the questions they ask.
LEMMA KnownIn == ASSUME FmInv PROVE \A i \in {1, 2} : Known(panes[i], vols, generation) BY DEF FmInv

LEMMA Browses ==
    ASSUME FmInv, FmEnter \/ FmMove \/ FmNextVolume \/ FmUpDir \/ FmRefresh \/ \E i \in {1, 2}, s \in 1..Cardinality(Names) : FilesClick(i, s)
    PROVE  FmInv'
<1> USE KnownIn
<1>0. /\ DOMAIN panes = {1, 2} /\ active \in {1, 2}
      /\ modal.kind \in Asking => Known(modal, vols, generation) BY DEF FmInv
<1>1. CASE FmEnter
  <2>1. active' = active /\ UNCHANGED volVars /\ Opens(panes, active) BY <1>1 DEF FmEnter
  <2> QED BY <1>0, <2>1, OpensStays
<1>2. CASE FmMove
  <2>1. active' \in {1, 2} BY <1>0, <1>2 DEF FmMove
  <2>2. UNCHANGED <<volVars, modal>> BY <1>2 DEF FmMove
  <2>3. panes' = panes \/ \E s : panes' = [panes EXCEPT ![active].sel = s] BY <1>2 DEF FmMove
  <2>4. DOMAIN panes' = {1, 2} BY <1>0, <2>3
  <2>5. \A i \in {1, 2} : Known(panes'[i], vols, generation)
    <3>1. CASE panes' = panes BY <3>1
    <3>2. ASSUME NEW s, panes' = [panes EXCEPT ![active].sel = s] PROVE \A i \in {1, 2} : Known(panes'[i], vols, generation)
      BY <1>0, <3>2 DEF Known
    <3> QED BY <2>3, <3>1, <3>2
  <2> QED BY <1>0, <2>1, <2>2, <2>4, <2>5, Stays
<1>3. CASE FmNextVolume \/ FmUpDir
  <2>1. UNCHANGED <<volVars, active, modal>> /\ \E v, d : PaneGoto(panes, active, v, d)
    BY <1>3 DEF FmNextVolume, FmUpDir
  <2>2. /\ DOMAIN panes' = {1, 2} /\ panes'[3 - active] = panes[3 - active]
        /\ Known(panes'[active], vols, generation) BY <1>0, <2>1, GotosPane
  <2>3. \A j \in {1, 2} : Known(panes'[j], vols, generation) BY <1>0, <2>2
  <2> QED BY <1>0, <2>1, <2>2, <2>3, Stays
<1>4. CASE FmRefresh
  <2>1. UNCHANGED <<volVars, active, modal>> /\ LoadBoth(Now) BY <1>4 DEF FmRefresh
  <2>2. Now.gen = generation /\ Now.tab = vols /\ generation \in Nat \ {0} BY DEF Now, FmInv
  <2>3. DOMAIN panes' = {1, 2} /\ \A i \in {1, 2} : Known(panes'[i], vols, generation) BY <2>1, <2>2, LoadsBoth
  <2> QED BY <1>0, <2>1, <2>3, Stays
<1>5. ASSUME NEW i \in {1, 2}, NEW s, FilesClick(i, s) PROVE FmInv'
  <2> DEFINE ps == [panes EXCEPT ![i].sel = s]
  <2>1. active' = i /\ UNCHANGED volVars /\ ((panes' = ps /\ UNCHANGED modal) \/ Opens(ps, i)) BY <1>5 DEF FilesClick
  <2>2. DOMAIN ps = {1, 2} /\ \A j \in {1, 2} : Known(ps[j], vols, generation) BY <1>0 DEF Known
  <2> HIDE DEF ps
  <2>3. CASE Opens(ps, i) BY <2>1, <2>2, <2>3, OpensStays
  <2>4. CASE panes' = ps /\ UNCHANGED modal BY <1>0, <2>1, <2>2, <2>4, Stays
  <2> QED BY <2>1, <2>3, <2>4
<1> QED BY <1>1, <1>2, <1>3, <1>4, <1>5

LEMMA Asks ==
    ASSUME FmInv, FmDeleteAsk \/ FmAskRename \/ FmAskMkdir \/ FmType \/ FmDismiss
    PROVE  FmInv'
<1> USE KnownIn
<1>0. /\ DOMAIN panes = {1, 2} /\ active \in {1, 2}
      /\ modal.kind \in Asking => Known(modal, vols, generation) BY DEF FmInv
<1>1. UNCHANGED <<volVars, panes, active>> BY DEF FmDeleteAsk, FmAskRename, FmAskMkdir, FmType, FmDismiss
<1>2. CASE FmDeleteAsk \/ FmAskRename \/ FmAskMkdir
  <2>1. modal'.vol = Act.vol /\ modal'.namespace = Act.namespace /\ modal'.on = Act.on
    BY <1>2 DEF FmDeleteAsk, FmAskRename, FmAskMkdir, Input
  <2>2. Known(modal', vols, generation) BY <1>0, <2>1 DEF Known, Act
  <2> QED BY <1>0, <1>1, <2>2, Stays
<1>3. CASE FmType
  <2>1. PICK n \in Names : modal' = [modal EXCEPT !.name = n] BY <1>3 DEF FmType
  <2>2. modal.kind \in Asking BY <1>3 DEF FmType, Asking
  <2>3. Known(modal', vols, generation) BY <1>0, <2>1, <2>2 DEF Known
  <2> QED BY <1>0, <1>1, <2>3, Stays
<1>4. CASE FmDismiss
  <2>1. modal'.kind \notin Asking BY <1>4 DEF FmDismiss, NoModal, Asking
  <2> QED BY <1>0, <1>1, <2>1, Stays
<1> QED BY <1>2, <1>3, <1>4

\* The current store, and what a call on it that changes medium m leaves.
LEMMA NowHas ==
    ASSUME FmInv
    PROVE  /\ IsStore(Now) /\ Now.tab = vols /\ Now.gen = generation /\ Now.files = files
           /\ Shaped(Now.files) BY NowIsStore DEF FmInv, Now

LEMMA Ordering ==
    ASSUME FmInv, NEW o, NEW m, NEW fs, Outcome(Now, o, m, fs), Shaped(fs), active' = active,
           Become(o),
           \/ UNCHANGED panes
           \/ \E i \in {1, 2} : LoadPane(o, panes, i)
           \/ LoadBoth(o)
           \/ \E n : LoadBothAt(o, n),
           modal' \in {modal, NoModal}
    PROVE  FmInv'
<1> USE KnownIn
<1>1. /\ DOMAIN panes = {1, 2} /\ active \in {1, 2}
      /\ modal.kind \in Asking => Known(modal, vols, generation)
      /\ generation \in Nat \ {0} BY DEF FmInv
<1>2. /\ IsStore(o) /\ o.tab = vols /\ Shaped(o.files) /\ o.gen \in Nat \ {0}
      /\ o.gen = generation \/ o.gen = generation + 1 BY <1>1, NowHas DEF Outcome
<1>3. modal'.kind \in Asking => Known(modal', vols, generation) BY <1>1 DEF NoModal, Asking
<1>4. /\ DOMAIN panes' = {1, 2}
      /\ \A i \in {1, 2} : Known(panes'[i], o.tab, o.gen) \/ Known(panes'[i], vols, generation)
  <2>1. CASE UNCHANGED panes BY <1>1, <2>1
  <2>2. ASSUME NEW i \in {1, 2}, LoadPane(o, panes, i) PROVE <1>4!1 /\ <1>4!2
    <3>1. DOMAIN panes' = {1, 2} /\ panes'[3 - i] = panes[3 - i] /\ Known(panes'[i], o.tab, o.gen)
      BY <1>1, <1>2, <2>2, LoadsPane
    <3>2. ASSUME NEW j \in {1, 2} PROVE j = i \/ j = 3 - i OBVIOUS
    <3> QED BY <3>1, <3>2
  <2>3. CASE LoadBoth(o) BY <1>2, <2>3, LoadsBoth
  <2>4. ASSUME NEW n, LoadBothAt(o, n) PROVE <1>4!1 /\ <1>4!2 BY <1>1, <1>2, <2>4, LoadsBothAt
  <2> QED BY <2>1, <2>2, <2>3, <2>4
<1> QED BY <1>1, <1>2, <1>3, <1>4, Relists

\* Where the current namespace is that of x, its volume is the medium seen.
LEMMA SeenIs ==
    ASSUME FmInv, NEW x, Known(x, vols, generation), x.namespace = generation
    PROVE  MediumAt(Now, x.vol) = x.on BY DEF Known, Lies, MediumAt, Now

LEMMA Copies == ASSUME FmInv, FmCopy PROVE FmInv' /\ DoesAsAsked
<1> DEFINE from == PathOf(Act, Item(Act)[1])
           to == PathOf(Other, Item(Act)[1])
           m == MediumAt(Now, Other.vol)
<1>1. /\ modal = NoModal /\ Current(active) /\ Current(3 - active) /\ HasItem(Act)
      /\ UNCHANGED <<active, modal>> BY DEF FmCopy
<1>2. PICK c \in VfsReadSized(Now, Act.vol, from) \ {None} :
        \E o \in VfsWrite(Now, Other.vol, to, c) :
            Ordered(o) /\ (LoadPane(o, panes, 3 - active) \/ UNCHANGED panes) BY DEF FmCopy
<1>3. PICK o \in VfsWrite(Now, Other.vol, to, c) :
        Ordered(o) /\ (LoadPane(o, panes, 3 - active) \/ UNCHANGED panes) BY <1>2
<1>4. active \in {1, 2} /\ 3 - active \in {1, 2} BY DEF FmInv
<1>5. Act.on = MediumAt(Now, Act.vol) /\ Other.on = m BY <1>1, <1>4, KnownIn, SeenIs DEF Current, Act, Other
<1>6. c \in {files[Act.on][from], Empty} BY <1>2, <1>5, NowHas DEF VfsReadSized, VfsRead, VfsStat
<1> HIDE DEF from, to, m
<1>7. Outcome(Now, o, m, Put(Now, m, to, c)) BY <1>3, NowHas, Writes DEF m
<1>8. Become(o) BY <1>3 DEF Ordered
<1>9. FmInv' BY <1>1, <1>3, <1>4, <1>7, <1>8, NowHas, PutAt, Ordering
<1>10. DoesAsAsked
  <2> SUFFICES ASSUME NEW k \in Media, NEW p \in Paths, files'[k][p] # files[k][p]
               PROVE  Copied(k, p) BY DEF DoesAsAsked
  <2>1. files' = Put(Now, m, to, c) BY <1>7, <1>8, NowHas DEF Become, Outcome
  <2>2. k = m /\ p = to /\ files'[k][p] = c BY <2>1, NowHas, PutAt
  <2> QED BY <1>1, <1>5, <1>6, <2>2 DEF Copied, NoModal, from, to
<1> QED BY <1>9, <1>10

LEMMA Confirms == ASSUME FmInv, FmConfirmYes PROVE FmInv' /\ DoesAsAsked
<1> DEFINE m == MediumAt(Now, modal.vol)
<1>1. modal.kind = "delete" /\ modal' = NoModal /\ active' = active BY DEF FmConfirmYes
<1>2. CASE ~StillAsked
  <2>1. UNCHANGED <<volVars, panes>> BY <1>2 DEF FmConfirmYes
  <2>2. FmInv' BY <1>1, <2>1, Stays, KnownIn DEF FmInv, NoModal, Asking
  <2>3. files' = files BY <2>1 DEF volVars
  <2> QED BY <2>2, <2>3 DEF DoesAsAsked
<1>3. CASE StillAsked
  <2>1. PICK o \in VfsRemove(Now, modal.vol, modal.path) :
            Ordered(o) /\ (LoadBoth(o) \/ UNCHANGED panes) BY <1>3 DEF FmConfirmYes
  <2>2. modal.on = m BY <1>1, <1>3, SeenIs DEF FmInv, Asking, StillAsked
  <2> HIDE DEF m
  <2>3. Outcome(Now, o, m, Put(Now, m, modal.path, None)) BY <2>1, NowHas, Removes DEF m
  <2>4. Become(o) BY <2>1 DEF Ordered
  <2>5. FmInv' BY <1>1, <2>1, <2>3, <2>4, NowHas, PutAt, Ordering
  <2>6. DoesAsAsked
    <3> SUFFICES ASSUME NEW k \in Media, NEW p \in Paths, files'[k][p] # files[k][p]
                 PROVE  Deleted(k, p) BY DEF DoesAsAsked
    <3>1. files' = Put(Now, m, modal.path, None) BY <2>3, <2>4, NowHas DEF Become, Outcome
    <3>2. k = m /\ p = modal.path /\ files'[k][p] = None BY <3>1, NowHas, PutAt
    <3> QED BY <1>1, <2>2, <3>2 DEF Deleted
  <2> QED BY <2>5, <2>6
<1> QED BY <1>2, <1>3

LEMMA Submits == ASSUME FmInv, FmSubmit PROVE FmInv' /\ DoesAsAsked
<1> DEFINE m == MediumAt(Now, modal.vol)
           to == Append(modal.dir, modal.name)
<1>1. modal.kind \in {"rename", "mkdir"} /\ active' = active BY DEF FmSubmit
<1>2. CASE ~InputStands
  <2>1. UNCHANGED <<volVars, panes>> /\ modal' = NoModal BY <1>2 DEF FmSubmit
  <2>2. FmInv' BY <1>1, <2>1, Stays, KnownIn DEF FmInv, NoModal, Asking
  <2>3. files' = files BY <2>1 DEF volVars
  <2> QED BY <2>2, <2>3 DEF DoesAsAsked
<1>3. CASE InputStands
  <2>1. PICK o \in IF modal.kind = "rename" THEN VfsRename(Now, modal.vol, modal.path, to)
                   ELSE VfsMkdir(Now, modal.vol, to) :
            /\ Ordered(o)
            /\ \/ modal' = NoModal /\ (LoadBoth(o) \/ LoadBothAt(o, modal.name))
               \/ UNCHANGED <<modal, panes>> BY <1>3 DEF FmSubmit
  <2>2. modal.on = m BY <1>1, <1>3, SeenIs DEF FmInv, Asking, InputStands
  <2>3. Become(o) BY <2>1 DEF Ordered
  <2> HIDE DEF m, to
  <2>4. CASE modal.kind = "rename"
    <3>1. /\ Outcome(Now, o, m, Moved(Now, m, modal.path, to))
          /\ o.files # files => files[m][to] = None /\ modal.path # to BY <2>1, <2>4, NowHas, Renames DEF m
    <3>2. FmInv' BY <1>1, <2>1, <2>3, <3>1, NowHas, MovedAt, Ordering
    <3>3. DoesAsAsked
      <4> SUFFICES ASSUME NEW k \in Media, NEW p \in Paths, files'[k][p] # files[k][p]
                   PROVE  Renamed(k, p) BY DEF DoesAsAsked
      <4>1. files' = Moved(Now, m, modal.path, to) /\ o.files # files BY <2>3, <3>1, NowHas DEF Become, Outcome
      <4>2. k = m /\ (p = to \/ (p = modal.path /\ files'[k][p] = None)) BY <4>1, NowHas, MovedAt
      <4>3. p = to => files'[k][p] = files[m][modal.path] BY <4>1, <4>2, NowHas, MovedAt
      <4> QED BY <2>2, <2>4, <3>1, <4>1, <4>2, <4>3 DEF Renamed, to
    <3> QED BY <3>2, <3>3
  <2>5. CASE modal.kind = "mkdir"
    <3>1. /\ Outcome(Now, o, m, Put(Now, m, to, Folder))
          /\ o.files # files => files[m][to] = None BY <2>1, <2>5, NowHas, Mkdirs DEF m
    <3>2. FmInv' BY <1>1, <2>1, <2>3, <3>1, NowHas, PutAt, Ordering
    <3>3. DoesAsAsked
      <4> SUFFICES ASSUME NEW k \in Media, NEW p \in Paths, files'[k][p] # files[k][p]
                   PROVE  Created(k, p) BY DEF DoesAsAsked
      <4>1. files' = Put(Now, m, to, Folder) /\ o.files # files BY <2>3, <3>1, NowHas DEF Become, Outcome
      <4>2. k = m /\ p = to /\ files'[k][p] = Folder BY <4>1, NowHas, PutAt
      <4> QED BY <2>2, <2>5, <3>1, <4>1, <4>2 DEF Created, to
    <3> QED BY <3>2, <3>3
  <2> QED BY <1>1, <2>4, <2>5
<1> QED BY <1>2, <1>3

LEMMA Rescanned ==
    ASSUME NEW s, IsStore(s), NEW o \in Rescans(s) \cup Remounts(s)
    PROVE  IsStore(o) /\ o.gen = s.gen + 1 /\ o.files = s.files
<1>1. CASE o \in Rescans(s)
  <2>1. PICK l \in Layouts : o = [s EXCEPT !.gen = s.gen + 1, !.rw = Media \ ReadOnly, !.tab = Listing(l, s.kv)]
    BY <1>1, Zenon DEF Rescans
  <2>2. o.gen = s.gen + 1 /\ o.files = s.files BY <2>1 DEF IsStore, Fields
  <2>3. o = [x \in Fields |-> o[x]] BY <2>1 DEF IsStore, Fields
  <2>4. o.gen \in Nat BY <2>2 DEF IsStore
  <2> QED BY <2>2, <2>3, <2>4, Zenon DEF IsStore
<1>2. CASE o \in Remounts(s)
  <2>1. PICK b \in BOOLEAN : o = [s EXCEPT !.gen = s.gen + 1, !.kv = b] BY <1>2, Zenon DEF Remounts
  <2>2. o.gen = s.gen + 1 /\ o.files = s.files BY <2>1 DEF IsStore, Fields
  <2>3. o = [x \in Fields |-> o[x]] BY <2>1 DEF IsStore, Fields
  <2>4. o.gen \in Nat BY <2>2 DEF IsStore
  <2> QED BY <2>2, <2>3, <2>4, Zenon DEF IsStore
<1> QED BY <1>1, <1>2

LEMMA OthersWrite ==
    ASSUME NEW s, IsStore(s), Shaped(s.files), NEW o \in OtherPrograms(s)
    PROVE  IsStore(o) /\ o.tab = s.tab /\ o.gen = s.gen /\ Shaped(o.files)
<1>1. PICK i \in DOMAIN s.tab, p \in Paths :
        /\ o.r >= 0
        /\ o \in VfsRemove(s, s.tab[i].name, p) \cup UNION {VfsWrite(s, s.tab[i].name, p, c) : c \in Contents}
  BY DEF OtherPrograms
<1> DEFINE v == s.tab[i].name
<1> HIDE DEF v
<1>2. CASE o \in VfsRemove(s, v, p)
  <2>1. Outcome(s, o, MediumAt(s, v), Put(s, MediumAt(s, v), p, None)) BY <1>2, Removes
  <2> QED BY <1>1, <2>1, PutAt DEF Outcome
<1>3. ASSUME NEW c \in Contents, o \in VfsWrite(s, v, p, c) PROVE IsStore(o) /\ o.tab = s.tab /\ o.gen = s.gen /\ Shaped(o.files)
  <2>1. Outcome(s, o, MediumAt(s, v), Put(s, MediumAt(s, v), p, c)) BY <1>3, Writes
  <2> QED BY <1>1, <2>1, PutAt DEF Outcome
<1> QED BY <1>1, <1>2, <1>3 DEF v

LEMMA Changes ==
    ASSUME FmInv, ShellRescan \/ EditorRescan \/ OtherWrites
    PROVE  FmInv' /\ DoesAsAsked
<1> USE KnownIn, NowHas
<1>1. DOMAIN panes = {1, 2} /\ active \in {1, 2} /\ generation \in Nat \ {0}
      /\ (modal.kind \in Asking => Known(modal, vols, generation)) BY DEF FmInv
<1>2. CASE ShellRescan
  <2>1. PICK o \in Rescans(Now) \cup Remounts(Now) : Become(o) BY <1>2 DEF ShellRescan
  <2>2. IsStore(o) /\ o.gen = generation + 1 /\ o.files = files BY <2>1, Rescanned
  <2>3. UNCHANGED <<panes, active, modal>> BY <1>2 DEF ShellRescan, paneVars
  <2>4. FmInv' BY <1>1, <2>1, <2>2, <2>3, Relists
  <2> QED BY <2>1, <2>2, <2>4 DEF DoesAsAsked, Become
<1>3. CASE EditorRescan
  <2>1. PICK o \in Rescans(Now) : Become(o) /\ LoadBoth(o) BY <1>3 DEF EditorRescan
  <2>2. IsStore(o) /\ o.gen = generation + 1 /\ o.files = files BY <2>1, Rescanned
  <2>3. UNCHANGED <<active, modal>> BY <1>3 DEF EditorRescan
  <2>4. DOMAIN panes' = {1, 2} /\ \A i \in {1, 2} : Known(panes'[i], o.tab, o.gen) BY <1>1, <2>1, <2>2, LoadsBoth
  <2>5. FmInv' BY <1>1, <2>1, <2>2, <2>3, <2>4, Relists
  <2> QED BY <2>1, <2>2, <2>5 DEF DoesAsAsked, Become
<1>4. CASE OtherWrites
  <2>1. PICK o \in OtherPrograms(Now) : Become(o) BY <1>4 DEF OtherWrites
  <2>2. IsStore(o) /\ o.gen = generation /\ o.tab = vols /\ Shaped(o.files) BY <2>1, OthersWrite
  <2>3. UNCHANGED <<panes, active, modal>> BY <1>4 DEF OtherWrites, paneVars
  <2>4. FmInv' BY <1>1, <2>1, <2>2, <2>3, Relists
  <2> QED BY <1>4, <2>4 DEF DoesAsAsked, OtherWrites
<1> QED BY <1>2, <1>3, <1>4

LEMMA FmNextInv == ASSUME FmInv, [FmNext]_fmVars PROVE FmInv' /\ [DoesAsAsked]_fmVars
<1>1. CASE UNCHANGED fmVars
  <2>1. UNCHANGED <<volVars, panes, active, modal>> BY <1>1 DEF fmVars, paneVars
  <2> QED BY <1>1, <2>1, Stays, KnownIn DEF FmInv
<1>2. CASE FmEnter \/ FmMove \/ FmNextVolume \/ FmUpDir \/ FmRefresh \/ \E i \in {1, 2}, s \in 1..Cardinality(Names) : FilesClick(i, s)
  <2>1. UNCHANGED volVars BY <1>2 DEF FmEnter, FmMove, FmNextVolume, FmUpDir, FmRefresh, FilesClick
  <2> QED BY <1>2, <2>1, Browses DEF DoesAsAsked, volVars
<1>3. CASE FmDeleteAsk \/ FmAskRename \/ FmAskMkdir \/ FmType \/ FmDismiss
  <2>1. UNCHANGED volVars BY <1>3 DEF FmDeleteAsk, FmAskRename, FmAskMkdir, FmType, FmDismiss
  <2> QED BY <1>3, <2>1, Asks DEF DoesAsAsked, volVars
<1>4. CASE FmCopy BY <1>4, Copies
<1>5. CASE FmConfirmYes BY <1>5, Confirms
<1>6. CASE FmSubmit BY <1>6, Submits
<1>7. CASE ShellRescan \/ EditorRescan \/ OtherWrites BY <1>7, Changes
<1> QED BY <1>1, <1>2, <1>3, <1>4, <1>5, <1>6, <1>7 DEF FmNext

\* The file manager changes what was asked for, on the medium that was listed
\* when it was asked, whatever is rescanned, remounted or written under an
\* open question (fm_confirm_yes, fm_input_submit, fm_copy).
THEOREM ManagerActsAsAsked == FmSpec => ActsAsAsked
<1>1. FmInit => FmInv BY FmInitInv
<1>2. FmInv /\ [FmNext]_fmVars => FmInv' BY FmNextInv
<1>3. FmInv /\ [FmNext]_fmVars => [DoesAsAsked]_fmVars BY FmNextInv
<1> QED BY <1>1, <1>2, <1>3, PTL DEF FmSpec, ActsAsAsked

-----------------------------------------------------------------------------
(*****************************************************************************)
(* The shell: what its commands say of the volumes.                          *)
(*****************************************************************************)
\* The table holds media, and every medium a file or none under every path.
ShStore == generation \in Nat /\ Shaped(files) /\ vols \in Seq(Mounts)

LEMMA Behind ==
    ASSUME NEW s, s.tab \in Seq(Mounts), NEW v, Mounted(s, v)
    PROVE  MediumAt(s, v) \in Media /\ (v = "ram" => MediumAt(s, v) = Ram) /\ (v = "kv" => MediumAt(s, v) = Kv)
<1>1. PICK i \in DOMAIN s.tab : s.tab[i].name = v BY DEF Mounted
<1>2. PICK j \in DOMAIN s.tab : j = CHOOSE k \in DOMAIN s.tab : s.tab[k].name = v BY <1>1
<1>3. s.tab[j].name = v BY <1>1, <1>2
<1>4. \A t \in Seq(Mounts), k \in DOMAIN s.tab : s.tab = t => t[k] \in Mounts OBVIOUS
<1>5. s.tab[j] \in Mounts BY <1>2, <1>4, Zenon
<1>6. MediumAt(s, v) = s.tab[j].medium BY <1>2, Zenon DEF MediumAt
<1> QED BY <1>3, <1>5, <1>6 DEF Mounts, Media

LEMMA NowIs == ASSUME ShStore
    PROVE  /\ IsStore(Now) /\ Now.r = 0 /\ Now.tab = vols /\ Now.gen = generation
           /\ Now.files = files /\ Now.kv = kvMounted /\ Shaped(Now.files) BY NowIsStore DEF ShStore, Now

Removing == {"vrm", "rm", "uninstall"}

\* What a command leaves, outcome and volumes together.
Tells(l, o) ==
    /\ IsStore(o.s) /\ Shaped(o.s.files) /\ o.s.tab \in Seq(Mounts)
    /\ \A k \in Media, q \in Paths : o.s.files[k][q] # files[k][q] =>
        /\ o.outcome # "refused" /\ <<k, q>> \in Targets(l)
        /\ o.outcome = "done" => Promised(l, files[k][q], o.s.files[k][q], o.got)
    /\ o.outcome = "done" /\ l.op \in Removing =>
        \A x \in Targets(l) : o.s.files[x[1]][x[2]] = None

LEMMA TellsNothing ==
    ASSUME ShStore, NEW l, NEW o, o.s = Now, o.outcome # "done" \/ l.op \notin Removing
    PROVE  Tells(l, o) BY NowIs DEF Tells, ShStore, Removing

LEMMA SaysIs ==
    ASSUME NEW s, NEW w, NEW g
    PROVE  Says(s, w, g).s = s /\ Says(s, w, g).outcome = w /\ Says(s, w, g).got = g BY DEF Says

LEMMA Refusals ==
    ASSUME ShStore, NEW l, NEW o \in {Refused, Failed}
    PROVE  Tells(l, o) BY TellsNothing, SaysIs DEF Refused, Failed

\* A message is a refusal only of a result that has changed nothing.
LEMMA SaidIs ==
    ASSUME NEW o, o.r \in Int
    PROVE  /\ Said(o).s = o /\ Said(o).got = None
           /\ Said(o).outcome = "refused" => o.r \in {-2, -3, -4, -5} /\ o.gen = generation
           /\ Said(o).outcome = "done" => o.r >= 0
<1> DEFINE w == IF o.gen # generation THEN "uncertain"
                ELSE IF o.r >= 0 THEN "done"
                ELSE IF o.r \in {-2, -3, -4, -5} THEN "refused" ELSE "failed"
<1>1. Said(o) = Says(o, w, None) BY Zenon DEF Said
<1>2. w = "refused" => o.r \in {-2, -3, -4, -5} /\ o.gen = generation OBVIOUS
<1>3. w = "done" => o.r >= 0 OBVIOUS
<1> QED BY <1>1, <1>2, <1>3, SaysIs

\* A command that changes one file says so truly when the file is its target.
LEMMA TellsOne ==
    ASSUME ShStore, NEW l, NEW o, NEW m, NEW p, NEW c,
           Outcome(Now, o.s, m, Put(Now, m, p, c)),
           o.outcome = "refused" => o.s.files = files,
           o.s.files # files => <<m, p>> \in Targets(l) \/ p \notin Paths,
           o.outcome = "done" /\ m \in Media /\ p \in Paths => Promised(l, files[m][p], c, o.got),
           o.outcome # "done" \/ l.op \notin Removing
               \/ (Targets(l) \subseteq {<<m, p>>} \cap (Media \X Paths) /\ c = None
                   /\ o.s.files = Put(Now, m, p, c))
    PROVE  Tells(l, o)
<1>1. IsStore(o.s) /\ o.s.tab = vols /\ o.s.files \in {files, Put(Now, m, p, c)} BY NowIs DEF Outcome
<1>2. /\ Shaped(Put(Now, m, p, c))
      /\ \A k \in Media, q \in Paths :
            Put(Now, m, p, c)[k][q] = IF k = m /\ q = p THEN c ELSE files[k][q] BY NowIs, PutAt
<1>3. Shaped(o.s.files) /\ o.s.tab \in Seq(Mounts) BY <1>1, <1>2 DEF ShStore
<1>4. ASSUME NEW k \in Media, NEW q \in Paths, o.s.files[k][q] # files[k][q]
      PROVE  /\ o.outcome # "refused" /\ <<k, q>> \in Targets(l)
             /\ o.outcome = "done" => Promised(l, files[k][q], o.s.files[k][q], o.got)
  <2>1. k = m /\ q = p /\ o.s.files[k][q] = c /\ o.s.files # files BY <1>1, <1>2, <1>4
  <2> QED BY <2>1
<1>5. ASSUME o.outcome = "done", l.op \in Removing, NEW x \in Targets(l)
      PROVE  o.s.files[x[1]][x[2]] = None
  <2>1. x = <<m, p>> /\ m \in Media /\ p \in Paths BY <1>5
  <2> QED BY <1>2, <1>5, <2>1
<1> QED BY <1>1, <1>3, <1>4, <1>5 DEF Tells, Removing

\* The commands that change one file of a volume: cmd_vcp, cmd_vrm, cmd_vmkdir.
LEMMA OnIs ==
    ASSUME NEW v
    PROVE  Mounted(Now, v) => On(v) = MediumAt(Now, v) BY DEF On

LEMMA Copied1 ==
    ASSUME ShStore, NEW l, l.op = "vcp", NEW f, NEW x, NEW o \in VcpTo(f, x),
           At(On(VolOf(x)), PathAt(x)) \subseteq Targets(l)
    PROVE  Tells(l, o)
<1> DEFINE v == VolOf(x)
           p == PathAt(x)
           m == MediumAt(Now, v)
<1>1. CASE o \in {Refused, Failed} BY <1>1, Refusals
<1>2. CASE \E c, w : w \in VfsWrite(Now, v, p, c) /\ o = [Said(w) EXCEPT !.got = c]
  <2>1. PICK c, w : w \in VfsWrite(Now, v, p, c) /\ o = [Said(w) EXCEPT !.got = c] BY <1>2
  <2> HIDE DEF v, p
  <2>2. /\ Outcome(Now, w, m, Put(Now, m, p, c)) /\ w.r \in {1, -1, -2, -3}
        /\ w.files # files => May(Now, v)
        /\ w.r \in {-2, -3} => w.files = files BY <2>1, Writes, NowIs DEF Keeps
  <2>3. o.s = w /\ o.got = c /\ o.outcome = Said(w).outcome
    <3>1. PICK y : Said(w) = Says(w, y, None) BY DEF Said
    <3> QED BY <2>1, <3>1 DEF Says
  <2>4. o.outcome = "refused" => w.r \in {-2, -3, -4, -5}
    <3>1. w.r \in Int BY <2>2
    <3>2. Said(w).outcome = "refused" => w.r \in {-2, -3, -4, -5} BY <3>1, SaidIs, Zenon
    <3> QED BY <2>3, <3>2, Zenon
  <2>5. w.files # files => <<m, p>> \in Targets(l) \/ p \notin Paths BY <2>2, OnIs DEF May, At, v, p
  <2>6. Promised(l, files[m][p], c, o.got) BY <2>3 DEF Promised
  <2>7. l.op \notin Removing /\ (o.outcome = "refused" => w.files = files) BY <2>2, <2>4 DEF Removing
  <2>8. Outcome(Now, o.s, m, Put(Now, m, p, c)) /\ (o.s.files # files => w.files # files)
        /\ (o.outcome = "refused" => o.s.files = files) BY <2>2, <2>3, <2>7
  <2> QED BY <2>5, <2>6, <2>7, <2>8, TellsOne, Zenon
<1> QED BY <1>1, <1>2 DEF VcpTo

LEMMA VcpTells == ASSUME ShStore, NEW l, l.op = "vcp", NEW o \in Vcp(l) PROVE Tells(l, o)
<1> DEFINE f == Place(l.a)
           t == Place(l.b)
           u == Append(t, Last(f))
<1>1. At(On(VolOf(t)), PathAt(t)) \subseteq Targets(l) /\ At(On(VolOf(u)), PathAt(u)) \subseteq Targets(l)
  BY DEF Targets
<1>2. o = Refused \/ o \in VcpTo(f, t) \cup VcpTo(f, u) BY DEF Vcp
<1> HIDE DEF f, t, u
<1> QED BY <1>1, <1>2, Refusals, Copied1

LEMMA VrmTells == ASSUME ShStore, NEW l, l.op = "vrm", NEW o \in Vrm(l) PROVE Tells(l, o)
<1> DEFINE x == Place(l.a)
           v == VolOf(x)
           p == PathAt(x)
           m == MediumAt(Now, v)
<1>1. Targets(l) = At(On(v), p) BY DEF Targets
<1>2. o \in {Refused, Failed} \/ \E w \in VfsRemove(Now, v, p) : o = Said(w) BY DEF Vrm
<1>3. CASE o \in {Refused, Failed} BY <1>3, Refusals
<1>4. CASE \E w \in VfsRemove(Now, v, p) : o = Said(w)
  <2>1. PICK w \in VfsRemove(Now, v, p) : o = Said(w) BY <1>4
  <2> HIDE DEF v, p
  <2>2. /\ Outcome(Now, w, m, Put(Now, m, p, None)) /\ w.r \in {0, -1, -2, -4}
        /\ w.r = 0 \/ w.files # files => May(Now, v)
        /\ w.r = 0 => w.files = Put(Now, m, p, None)
        /\ w.r \in {-2, -4} => w.files = files BY <2>1, Removes, NowIs DEF Keeps
  <2>3. /\ o.s = w /\ (o.outcome = "refused" => w.r \in {-2, -3, -4, -5})
        /\ o.outcome = "done" => w.r = 0 BY <2>1, <2>2, SaidIs
  <2>4. May(Now, v) => On(v) = m /\ m \in Media BY OnIs, Behind, NowIs DEF May, ShStore
  <2>5. w.files # files => <<m, p>> \in Targets(l) \/ p \notin Paths BY <1>1, <2>2, <2>4 DEF At
  <2>6. Promised(l, files[m][p], None, o.got) BY DEF Promised
  <2>7. May(Now, v) => Targets(l) \subseteq {<<m, p>>} \cap (Media \X Paths) BY <1>1, <2>4 DEF At
  <2>8. o.outcome = "refused" => w.files = files BY <2>2, <2>3
  <2>9. /\ Outcome(Now, o.s, m, Put(Now, m, p, None)) /\ (o.s.files # files => w.files # files)
        /\ o.outcome = "refused" => o.s.files = files
        /\ o.outcome = "done" => May(Now, v) /\ o.s.files = Put(Now, m, p, None) BY <2>2, <2>3, <2>8
  <2> QED BY <2>5, <2>6, <2>7, <2>9, TellsOne, Zenon
<1> QED BY <1>2, <1>3, <1>4

LEMMA VmkdirTells == ASSUME ShStore, NEW l, l.op = "vmkdir", NEW o \in Vmkdir(l) PROVE Tells(l, o)
<1> DEFINE x == Place(l.a)
           v == VolOf(x)
           p == PathAt(x)
           m == MediumAt(Now, v)
<1>1. Targets(l) = At(On(v), p) BY DEF Targets
<1>2. o \in {Refused, Failed} \/ \E w \in VfsMkdir(Now, v, p) : o = Said(w) BY DEF Vmkdir
<1>3. CASE o \in {Refused, Failed} BY <1>3, Refusals
<1>4. CASE \E w \in VfsMkdir(Now, v, p) : o = Said(w)
  <2>1. PICK w \in VfsMkdir(Now, v, p) : o = Said(w) BY <1>4
  <2> HIDE DEF v, p
  <2>2. /\ Outcome(Now, w, m, Put(Now, m, p, Folder)) /\ w.r \in {0, -1, -2, -5}
        /\ w.files # files => Mounted(Now, v)
        /\ w.r \in {-2, -5} => w.files = files BY <2>1, Mkdirs, NowIs DEF Keeps
  <2>3. o.s = w /\ (o.outcome = "refused" => w.r \in {-2, -3, -4, -5}) BY <2>1, <2>2, SaidIs
  <2>4. w.files # files => <<m, p>> \in Targets(l) \/ p \notin Paths BY <1>1, <2>2, OnIs DEF At
  <2>5. Promised(l, files[m][p], Folder, o.got) BY DEF Promised
  <2>6. l.op \notin Removing /\ (o.outcome = "refused" => w.files = files) BY <2>2, <2>3 DEF Removing
  <2>7. Outcome(Now, o.s, m, Put(Now, m, p, Folder)) /\ (o.s.files # files => w.files # files)
        /\ (o.outcome = "refused" => o.s.files = files) BY <2>2, <2>3, <2>6
  <2> QED BY <2>4, <2>5, <2>6, <2>7, TellsOne, Zenon
<1> QED BY <1>2, <1>3, <1>4

\* cmd_mv: it takes one name away and gives the other what was there.
LEMMA MvTells == ASSUME ShStore, NEW l, l.op = "mv", NEW o \in Mv(l) PROVE Tells(l, o)
<1> DEFINE v == IF l.a.abs THEN VolOf(l.a.at) ELSE "ram"
           p == IF l.a.abs THEN PathAt(l.a.at) ELSE l.a.at
           q == IF l.b.abs THEN PathAt(l.b.at) ELSE l.b.at
           m == MediumAt(Now, v)
           same == l.a.abs = l.b.abs /\ (l.a.abs => VolOf(l.b.at) = v)
<1>1. o = Refused \/ (same /\ \E w \in VfsRename(Now, v, p, q) : o = MvSaid(w)) BY DEF Mv
<1>2. CASE o = Refused BY <1>2, Refusals
<1>3. CASE same /\ \E w \in VfsRename(Now, v, p, q) : o = MvSaid(w)
  <2>1. PICK w \in VfsRename(Now, v, p, q) : o = MvSaid(w) BY <1>3
  <2>2. Mounted(Now, v) => \A x \in {p, q} : x \in Paths => <<m, x>> \in Targets(l)
    <3>1. CASE l.a.abs
      <4>0. l.b.abs BY <1>3, <3>1, Zenon
      <4>1. VolOf(l.a.at) = v /\ VolOf(l.b.at) = v /\ p = PathAt(l.a.at) /\ q = PathAt(l.b.at)
        BY <1>3, <3>1, <4>0, Zenon
      <4> HIDE DEF v, p, q
      <4>2. Targets(l) = At(On(v), p) \cup At(On(v), q) BY <3>1, <4>1 DEF Targets
      <4> QED BY <4>2, OnIs DEF At
    <3>2. CASE ~l.a.abs
      <4>1. Mounted(Now, v) => m = Ram BY <3>2, NowIs, Behind DEF ShStore
      <4> QED BY <1>3, <3>2, <4>1 DEF Targets, At
    <3> QED BY <3>1, <3>2
  <2> HIDE DEF v, p, q
  <2>3. /\ Outcome(Now, w, m, Moved(Now, m, p, q)) /\ w.r \in {0, -1, -2, -3, -5, -6}
        /\ w.files # files => May(Now, v) /\ p # q /\ files[m][q] = None
        /\ w.r \in {-1, -2, -3, -5} => w.files = files BY <2>1, Renames, NowIs DEF Keeps
  <2>4. o.s = w /\ (o.outcome = "refused" => w.r \notin {0, -6}) BY <2>1 DEF MvSaid, Says
  <2>5. IsStore(w) /\ w.tab = vols /\ w.files \in {files, Moved(Now, m, p, q)} BY <2>3, NowIs DEF Outcome
  <2>6. /\ Shaped(Moved(Now, m, p, q))
        /\ \A k \in Media, x \in Paths :
             Moved(Now, m, p, q)[k][x] =
                IF k = m /\ x = q THEN files[m][p] ELSE IF k = m /\ x = p THEN None ELSE files[k][x] BY NowIs, MovedAt
  <2>7. ASSUME NEW k \in Media, NEW x \in Paths, o.s.files[k][x] # files[k][x]
        PROVE  /\ o.outcome # "refused" /\ <<k, x>> \in Targets(l)
               /\ o.outcome = "done" => Promised(l, files[k][x], o.s.files[k][x], o.got)
    <3>1. w.files # files /\ k = m /\ x \in {p, q} BY <2>4, <2>5, <2>6, <2>7
    <3>2. o.outcome # "refused" BY <2>3, <2>4, <3>1
    <3>3. <<k, x>> \in Targets(l) BY <2>2, <2>3, <3>1 DEF May
    <3>4. w.files[k][x] = None \/ files[k][x] = None BY <2>3, <2>5, <2>6, <3>1
    <3> QED BY <2>4, <3>2, <3>3, <3>4 DEF Promised
  <2>8. Shaped(o.s.files) /\ IsStore(o.s) /\ o.s.tab \in Seq(Mounts) BY <2>4, <2>5, <2>6 DEF ShStore
  <2> QED BY <2>7, <2>8 DEF Tells, Removing
<1> QED BY <1>1, <1>2, <1>3

LEMMA WriteIs ==
    ASSUME NEW l, NEW o \in Write(l)
    PROVE  o = Refused \/ \E c : o \in RamDone(l.a.at, c)
<1>1. o = Refused \/ o \in RamDoneAny(l.a.at) BY DEF Write
<1>2. ASSUME o \in RamDoneAny(l.a.at) PROVE \E c : o \in RamDone(l.a.at, c) BY <1>2, Zenon DEF RamDoneAny
<1> QED BY <1>1, <1>2, Zenon

\* cmd_cp, cmd_touch, write, rm: one name of ramfs.
LEMMA RamTells ==
    ASSUME ShStore, NEW l, l.op \in {"cp", "touch", "write", "rm"},
           NEW o \in Cp(l) \cup Touch(l) \cup Write(l) \cup Rm(l), o \in Run(l)
    PROVE  Tells(l, o)
<1> DEFINE p == IF l.op = "cp" THEN l.b.at ELSE l.a.at
<1>1. Targets(l) = At(Ram, p) BY DEF Targets
<1>2. CASE o = Refused BY <1>2, Refusals
<1>3. ASSUME NEW c, o \in RamDone(p, c), l.op = "rm" => c = None, l.op = "touch" => c = Empty
      PROVE  Tells(l, o)
  <2> DEFINE w == [Now EXCEPT !.files = Put(Now, Ram, p, c)]
  <2>1. o = Says(Ret(w, 0), "done", c) BY <1>3 DEF RamDone
  <2>2. Ret(w, 0) \in Done(Now, 0, Put(Now, Ram, p, c)) BY NowIs DEF Ret, Done, IsStore
  <2>3. Outcome(Now, o.s, Ram, Put(Now, Ram, p, c)) /\ o.s.files = Put(Now, Ram, p, c)
    BY <2>1, <2>2, Dones, NowIs, SaysIs
  <2>4. o.outcome = "done" /\ o.got = c BY <2>1, SaysIs
  <2>5. Promised(l, files[Ram][p], c, o.got) BY <1>3, <2>4 DEF Promised
  <2>6. Targets(l) \subseteq {<<Ram, p>>} \cap (Media \X Paths) BY <1>1 DEF At, Media
  <2>7. <<Ram, p>> \in Targets(l) \/ p \notin Paths BY <1>1 DEF At
  <2> HIDE DEF p, w
  <2> QED BY <1>3, <2>3, <2>4, <2>5, <2>6, <2>7, TellsOne DEF Removing
<1>4. o = Refused \/ \E c : o \in RamDone(p, c) /\ (l.op = "rm" => c = None) /\ (l.op = "touch" => c = Empty)
  <2>1. CASE l.op = "cp" BY <2>1 DEF Run, Cp
  <2>2. CASE l.op = "touch" BY <2>2 DEF Run, Touch
  <2>3. CASE l.op = "write"
    <3>1. o \in Write(l) BY <2>3 DEF Run
    <3>2. o = Refused \/ \E c : o \in RamDone(l.a.at, c) BY <3>1, WriteIs, Zenon
    <3>4. p = l.a.at /\ l.op # "rm" /\ l.op # "touch" BY <2>3
    <3> HIDE DEF p
    <3> QED BY <3>2, <3>4, Zenon
  <2>4. CASE l.op = "rm" BY <2>4 DEF Run, Rm
  <2> QED BY <2>1, <2>2, <2>3, <2>4
<1> QED BY <1>2, <1>3, <1>4

\* cmd_install, cmd_uninstall: one name of a mounted KvFS.
LEMMA KvTells ==
    ASSUME ShStore, NEW l, l.op \in {"install", "uninstall"},
           NEW o, IF l.op = "install" THEN o \in Install(l) ELSE o \in Uninstall(l)
    PROVE  Tells(l, o)
<1> DEFINE p == l.a.at
           c == IF l.op = "install" THEN files[Ram][p] ELSE None
           fs == Put(Now, Kv, p, c)
<1>1. Targets(l) = At(Kv, p) BY DEF Targets
<1>2. o = Refused \/ \E w \in Done(Now, 0, fs) \cup Broken(Now, -1, Kv, fs) \cup {Ret(Now, -3)} :
          o = KvSaid(w) /\ (l.op = "uninstall" => w \in Done(Now, 0, fs) \cup Broken(Now, -1, Kv, fs))
  <2>1. CASE l.op = "install" BY <2>1 DEF Install
  <2>2. CASE l.op = "uninstall" BY <2>2 DEF Uninstall
  <2> QED BY <2>1, <2>2
<1>3. CASE o = Refused BY <1>3, Refusals
<1>4. ASSUME NEW w, w \in Done(Now, 0, fs) \cup Broken(Now, -1, Kv, fs) \cup {Ret(Now, -3)}, o = KvSaid(w)
      PROVE  Tells(l, o)
  <2>1. Outcome(Now, w, Kv, fs) /\ w.r \in {0, -1, -3} /\ (w.r = 0 => w.files = fs)
    <3>1. CASE w \in Done(Now, 0, fs) BY <3>1, Dones, NowIs
    <3>2. CASE w \in Broken(Now, -1, Kv, fs) BY <3>2, Brokens, NowIs
    <3>3. CASE w = Ret(Now, -3)
      <4>1. Keeps(Now, w) /\ w.r = -3 BY <3>3, Rets, NowIs
      <4> QED BY <4>1, Keepers, NowIs
    <3> QED BY <1>4, <3>1, <3>2, <3>3
  <2>2. o.s = w /\ o.outcome # "refused" /\ (o.outcome = "done" => w.r = 0) BY <1>4, <2>1 DEF KvSaid, Says
  <2>3. Promised(l, files[Kv][p], c, o.got) BY DEF Promised
  <2>4. Targets(l) \subseteq {<<Kv, p>>} \cap (Media \X Paths) /\ (<<Kv, p>> \in Targets(l) \/ p \notin Paths)
    BY <1>1 DEF At, Media
  <2>5. l.op \in Removing => c = None BY DEF Removing
  <2>6. Outcome(Now, o.s, Kv, fs) /\ (o.outcome = "done" => o.s.files = fs) BY <2>1, <2>2
  <2> HIDE DEF p, c
  <2> QED BY <2>2, <2>3, <2>4, <2>5, <2>6, TellsOne, Zenon
<1> QED BY <1>2, <1>3, <1>4

\* cmd_format
LEMMA FormatTells == ASSUME VolumesSound, ShStore, NEW l, l.op = "format", NEW o \in Format(l) PROVE Tells(l, o)
<1> DEFINE wiped == [files EXCEPT ![Kv] = [p \in Paths |-> None]]
           left == [Now EXCEPT !.gen = generation + 1, !.kv = FALSE]
           listed == IF Mounted(Now, "kv") THEN vols ELSE Append(vols, [name |-> "kv", medium |-> Kv])
           back(f) == [left EXCEPT !.kv = TRUE, !.files = f, !.tab = listed]
           lost(f) == [left EXCEPT !.files = f]
<1>1. o.outcome # "refused" /\ \E f \in {files, wiped} : o.s = back(f) \/ o.s = lost(f)
  <2>1. o \in {Says(back(wiped), "done", None)} \cup {Says(lost(f), "failed", None) : f \in {files, wiped}}
    BY Zenon DEF Format
  <2> HIDE DEF wiped, back, lost
  <2>2. CASE o = Says(back(wiped), "done", None)
    <3>1. o.s = back(wiped) /\ o.outcome = "done" BY <2>2, SaysIs
    <3>2. o.outcome # "refused" BY <3>1
    <3> QED BY <3>1, <3>2, Zenon
  <2>3. CASE o \in {Says(lost(f), "failed", None) : f \in {files, wiped}}
    <3>1. PICK f \in {files, wiped} : o = Says(lost(f), "failed", None) BY <2>3, Zenon
    <3>2. o.s = lost(f) /\ o.outcome = "failed" BY <3>1, SaysIs
    <3>3. o.outcome # "refused" BY <3>2
    <3> QED BY <3>1, <3>2, <3>3, Zenon
  <2> QED BY <2>1, <2>2, <2>3
<1>f. PICK f \in {files, wiped} : o.s = back(f) \/ o.s = lost(f) BY <1>1
<1> DEFINE s == o.s
<1>2. listed \in Seq(Mounts)
  <2> DEFINE e == [name |-> "kv", medium |-> Kv]
  <2>a. "kv" \in Labels BY DEF Labels
  <2>b. Kv \in {Ram, Kv} \cup FatMedia OBVIOUS
  <2>1. e \in [name : Labels, medium : {Ram, Kv} \cup FatMedia] BY <2>a, <2>b
  <2>2. e.name = "kv" /\ e.medium = Kv /\ Kv # Ram BY DEF VolumesSound
  <2>3. e \in Mounts BY <2>1, <2>2, Zenon DEF Mounts
  <2> HIDE DEF e
  <2>4. Append(vols, e) \in Seq(Mounts) BY <2>3 DEF ShStore
  <2> QED BY <2>4 DEF ShStore, e
<1>3. /\ Shaped(wiped)
      /\ \A k \in Media, q \in Paths : wiped[k][q] = IF k = Kv THEN None ELSE files[k][q]
  BY DEF ShStore, Shaped, Media
<1> HIDE DEF wiped, listed
<1>4. IsStore(left) /\ left.tab = vols /\ left.files = files
  <2>1. left.gen = generation + 1 /\ left.tab = vols /\ left.files = files /\ generation \in Nat
    BY NowIs DEF IsStore, Fields, ShStore
  <2>2. left = [x \in Fields |-> left[x]] BY NowIs DEF IsStore, Fields
  <2>3. left.gen \in Nat BY <2>1
  <2> QED BY <2>1, <2>2, <2>3, Zenon DEF IsStore
<1> HIDE DEF left
<1>5. s.files = f /\ s.tab \in {vols, listed} /\ s.gen = left.gen /\ s = [x \in Fields |-> s[x]]
  BY <1>f, <1>4 DEF IsStore, Fields
<1> HIDE DEF s
<1>6. IsStore(s)
  <2>1. s.gen \in Nat BY <1>4, <1>5 DEF IsStore
  <2> QED BY <1>5, <2>1, Zenon DEF IsStore
<1>7. Shaped(s.files) /\ s.tab \in Seq(Mounts) BY <1>f, <1>2, <1>3, <1>5 DEF ShStore
<1>8. ASSUME NEW k \in Media, NEW q \in Paths, s.files[k][q] # files[k][q]
      PROVE  <<k, q>> \in Targets(l) /\ Promised(l, files[k][q], s.files[k][q], o.got)
  <2>1. k = Kv /\ s.files[k][q] = None BY <1>f, <1>3, <1>5, <1>8
  <2> QED BY <2>1 DEF Targets, Promised
<1> QED BY <1>1, <1>6, <1>7, <1>8 DEF Tells, Removing, s

\* The rest read the volumes, and cmd_rescan lists them anew.
LEMMA ListingSound ==
    ASSUME VolumesSound, NEW l \in Layouts, NEW kv
    PROVE  Listing(l, kv) \in Seq(Mounts)
<1>1. l \in Seq(Mounts) BY DEF VolumesSound
<1>2. ASSUME NEW i \in DOMAIN l PROVE RemoveAt(l, i) \in Seq(Mounts)
  <2>1. i \in 1 .. Len(l) BY <1>1
  <2>2. SubSeq(l, 1, i - 1) \in Seq(Mounts) BY <1>1, <2>1
  <2>3. SubSeq(l, i + 1, Len(l)) \in Seq(Mounts) BY <1>1, <2>1
  <2> QED BY <2>2, <2>3 DEF RemoveAt
<1> DEFINE native == {i \in DOMAIN l : l[i].medium = Kv}
<1>3. CASE kv \/ native = {} BY <1>1, <1>3 DEF Listing
<1>4. CASE ~kv /\ native # {}
  <2>1. PICK i \in DOMAIN l : i = CHOOSE j \in native : TRUE BY <1>4
  <2>2. Listing(l, kv) = RemoveAt(l, i) BY <1>4, <2>1, Zenon DEF Listing
  <2> QED BY <1>2, <2>2
<1> QED BY <1>3, <1>4

LEMMA Tables ==
    ASSUME VolumesSound, ShStore, NEW o \in Rescans(Now) \cup Remounts(Now)
    PROVE  o.tab \in Seq(Mounts)
<1>1. CASE o \in Rescans(Now)
  <2>1. PICK l \in Layouts :
            o = [Now EXCEPT !.gen = Now.gen + 1, !.rw = Media \ ReadOnly, !.tab = Listing(l, Now.kv)]
    BY <1>1, Zenon DEF Rescans
  <2>2. o.tab = Listing(l, Now.kv) BY <2>1, NowIs DEF IsStore, Fields
  <2> QED BY <2>2, ListingSound
<1>2. CASE o \in Remounts(Now)
  <2>1. PICK b \in BOOLEAN : o = [Now EXCEPT !.gen = Now.gen + 1, !.kv = b] BY <1>2, Zenon DEF Remounts
  <2>2. o.tab = vols BY <2>1, NowIs DEF IsStore, Fields
  <2> QED BY <2>2 DEF ShStore
<1> QED BY <1>1, <1>2

LEMMA ReadsTell ==
    ASSUME ShStore, NEW l, l.op \notin Removing, NEW o \in Vcd(l) \cup Vls(l) \cup Vcat(l)
    PROVE  Tells(l, o)
<1>1. o.s = Now
  <2>1. CASE o \in Vcd(l)
    <3>1. o = Refused \/ \E x : o = [Says(Now, "done", None) EXCEPT !.cwd = x] BY <2>1 DEF Vcd, VcdTo
    <3> QED BY <3>1 DEF Refused, Says
  <2>2. CASE o \in Vls(l)
    <3>1. \E w, g : o = Says(Now, w, g) BY <2>2 DEF Vls, Refused
    <3> QED BY <3>1, SaysIs
  <2>3. CASE o \in Vcat(l)
    <3>1. \E w, g : o = Says(Now, w, g) BY <2>3 DEF Vcat, Refused
    <3> QED BY <3>1, SaysIs
  <2> QED BY <2>1, <2>2, <2>3
<1> QED BY <1>1, TellsNothing

LEMMA RescanTells ==
    ASSUME VolumesSound, ShStore, NEW l, l.op \notin Removing, NEW o \in Rescan(l)
    PROVE  Tells(l, o)
<1>1. PICK s \in Rescans(Now) : o = Says(s, "done", None) BY DEF Rescan
<1>2. o.s = s BY <1>1, SaysIs
<1>3. IsStore(s) /\ s.files = files /\ s.tab \in Seq(Mounts) BY <1>1, Rescanned, Tables, NowIs
<1> QED BY <1>2, <1>3 DEF Tells, ShStore

LEMMA RunTells ==
    ASSUME VolumesSound, ShStore, NEW l, NEW o \in Run(l)
    PROVE  Tells(l, o)
<1>1. CASE l.op \in {"vcd", "vcd..", "vls", "vcat"}
  <2>1. l.op \notin Removing BY <1>1 DEF Removing
  <2>2. o \in Vcd(l) \cup Vls(l) \cup Vcat(l) BY <1>1 DEF Run
  <2> QED BY <2>1, <2>2, ReadsTell
<1>2. CASE l.op = "vcp" BY <1>2, VcpTells DEF Run
<1>3. CASE l.op = "vrm" BY <1>3, VrmTells DEF Run
<1>4. CASE l.op = "vmkdir" BY <1>4, VmkdirTells DEF Run
<1>5. CASE l.op = "mv" BY <1>5, MvTells DEF Run
<1>6. CASE l.op \in {"cp", "touch", "write", "rm"}
  <2>1. o \in Cp(l) \cup Touch(l) \cup Write(l) \cup Rm(l) BY <1>6 DEF Run
  <2> QED BY <1>6, <2>1, RamTells
<1>7. CASE l.op \in {"install", "uninstall"}
  <2>1. IF l.op = "install" THEN o \in Install(l) ELSE o \in Uninstall(l) BY <1>7 DEF Run
  <2> QED BY <1>7, <2>1, KvTells
<1>8. CASE l.op = "format" BY <1>8, FormatTells DEF Run
<1>9. CASE l.op \notin {"vcd", "vcd..", "vls", "vcat", "vcp", "vrm", "vmkdir", "mv", "cp", "touch", "write",
                        "rm", "install", "uninstall", "format"}
  <2>1. l.op \notin Removing BY <1>9 DEF Removing
  <2>2. o \in Rescan(l) BY <1>9 DEF Run
  <2> QED BY <2>1, <2>2, RescanTells
<1> QED BY <1>1, <1>2, <1>3, <1>4, <1>5, <1>6, <1>7, <1>8, <1>9

-----------------------------------------------------------------------------
(*****************************************************************************)
(* The line editor of the shell.                                             *)
(*****************************************************************************)
LEMMA Division ==
    ASSUME NEW H \in Nat \ {0}, NEW x \in Nat
    PROVE  \E a \in Int, r \in 0 .. H - 1 : x = H * a + r /\ r = x % H
<1>1. x = H * (x \div H) + (x % H) OBVIOUS
<1>2. x \div H \in Int OBVIOUS
<1>3. x % H \in 0 .. H - 1 OBVIOUS
<1> QED BY <1>1, <1>2, <1>3, Zenon

LEMMA Apart ==
    ASSUME NEW H \in Nat \ {0}, NEW i \in Nat, NEW j \in Nat, i < j, j - i < H
    PROVE  i % H # j % H
<1>1. PICK a \in Int, r \in 0 .. H - 1 : i = H * a + r /\ r = i % H BY Division
<1>2. PICK b \in Int, t \in 0 .. H - 1 : j = H * b + t /\ t = j % H BY Division
<1>3. ASSUME r = t PROVE FALSE
  <2>1. PICK d \in Int : d = b - a OBVIOUS
  <2>2. H * d >= H \/ H * d <= 0
    <3>1. CASE d >= 1 BY <3>1
    <3>2. CASE d <= 0 BY <3>2
    <3> QED BY <2>1, <3>1, <3>2
  <2>3. b = a + d BY <2>1
  <2>4. H * (a + d) = H * a + H * d OBVIOUS
  <2>5. H * a \in Int /\ H * d \in Int OBVIOUS
  <2>6. H * b = H * a + H * d BY <2>3, <2>4
  <2>7. PICK e \in Int, f \in Int, g \in Int : e = H * a /\ f = H * d /\ g = H * b BY <2>5
  <2>8. i = e + r /\ j = g + t /\ g = e + f /\ (f >= H \/ f <= 0) BY <1>1, <1>2, <2>2, <2>6, <2>7, Zenon
  <2> QED BY <1>3, <2>7, <2>8
<1> QED BY <1>1, <1>2, <1>3

Lines == {NoLine} \cup UNION {Menus[m].lines : m \in DOMAIN Menus}

\* The ring holds the last HistMax lines entered, and a place the arrows lead
\* to is one of them.
Ring ==
    /\ histCount \in Nat /\ hpos \in Start .. histCount
    /\ line \in Lines /\ menu \in DOMAIN Menus
    /\ history \in [0 .. HistMax - 1 -> Lines]
    /\ entered \in Seq(Lines) /\ Len(entered) = histCount
    /\ \A i \in Start .. histCount - 1 : history[i % HistMax] = entered[i + 1]
    /\ recalled => hpos < histCount /\ line = entered[hpos + 1]

LEMMA RingAdd ==
    ASSUME ShellSound, Ring, NEW l \in Lines, HistAdd(l), menu' = menu,
           line' = NoLine, hpos' = histCount', recalled' = FALSE
    PROVE  Ring'
<1>1. histCount \in Nat /\ HistMax \in Nat \ {0} /\ NoLine \in Lines BY DEF Ring, ShellSound, Lines
<1>2. CASE UNCHANGED <<history, histCount, entered>>
  <2>1. Start' = Start /\ Start <= histCount /\ Start \in Int BY <1>1, <1>2 DEF Start
  <2> QED BY <1>1, <1>2, <2>1 DEF Ring
<1>3. CASE /\ history' = [history EXCEPT ![histCount % HistMax] = l]
           /\ histCount' = histCount + 1 /\ entered' = Append(entered, l)
  <2>1. /\ Start \in 0 .. histCount /\ Start' \in Start .. histCount
        /\ \A i \in Start' .. histCount : histCount - i < HistMax BY <1>1, <1>3 DEF Start
  <2>2. /\ entered' \in Seq(Lines) /\ Len(entered') = histCount + 1 /\ entered'[histCount + 1] = l
        /\ \A i \in 1 .. histCount : entered'[i] = entered[i] BY <1>1, <1>3 DEF Ring
  <2>3. histCount % HistMax \in 0 .. HistMax - 1 BY <1>1
  <2>4. history' \in [0 .. HistMax - 1 -> Lines] BY <1>3, <2>3 DEF Ring
  <2>5. ASSUME NEW i \in Start' .. histCount PROVE history'[i % HistMax] = entered'[i + 1]
    <3>1. CASE i = histCount BY <1>3, <2>2, <2>3, <3>1 DEF Ring
    <3>2. CASE i # histCount
      <4>1. i \in Nat /\ i < histCount /\ histCount - i < HistMax /\ i \in Start .. histCount - 1 BY <1>1, <2>1, <3>2
      <4>2. i % HistMax # histCount % HistMax BY <1>1, <4>1, Apart
      <4>3. i % HistMax \in 0 .. HistMax - 1 BY <1>1, <4>1
      <4>4. history'[i % HistMax] = history[i % HistMax] BY <1>3, <4>2, <4>3 DEF Ring
      <4>5. i + 1 \in 1 .. histCount BY <1>1, <4>1
      <4>6. entered'[i + 1] = entered[i + 1] BY <2>2, <4>5
      <4> QED BY <4>1, <4>4, <4>6 DEF Ring
    <3> QED BY <3>1, <3>2
  <2>6. histCount' \in Nat /\ histCount' - 1 = histCount /\ hpos' \in Start' .. histCount' BY <1>1, <1>3, <2>1
  <2>7. line' \in Lines /\ menu' \in DOMAIN Menus BY <1>1 DEF Ring
  <2>8. Len(entered') = histCount' BY <1>3, <2>2
  <2> QED BY <2>2, <2>4, <2>5, <2>6, <2>7, <2>8 DEF Ring
<1> QED BY <1>2, <1>3 DEF HistAdd

LEMMA RingKeys == ASSUME ShellSound, Ring, TypeLine \/ Arrow \/ CtrlC PROVE Ring'
<1>1. /\ histCount' = histCount /\ history' = history /\ entered' = entered /\ menu' = menu
      /\ Start' = Start /\ Start \in 0 .. histCount /\ histCount \in Nat /\ NoLine \in Lines
  BY DEF TypeLine, Arrow, CtrlC, Unread, Start, Ring, ShellSound, Lines
<1>2. CASE TypeLine
  <2>1. hpos' = hpos /\ recalled' = FALSE /\ line' \in Lines BY <1>2 DEF TypeLine, Lines, Ring
  <2> QED BY <1>1, <2>1 DEF Ring
<1>3. CASE Arrow
  <2>1. hpos' \in Start .. histCount BY <1>1, <1>3 DEF Arrow, Ring
  <2>2. recalled' = (hpos' < histCount) BY <1>3 DEF Arrow
  <2>3. line' = IF hpos' < histCount THEN history[hpos' % HistMax] ELSE NoLine BY <1>3 DEF Arrow
  <2>4. CASE hpos' < histCount
    <3>1. Start \in Nat /\ histCount \in Nat BY <1>1
    <3> DEFINE h == hpos'
               a == Start
               n == histCount
    <3>a. h \in a .. n /\ h < n /\ a \in Nat /\ n \in Nat BY <2>1, <2>4, <3>1
    <3> HIDE DEF h, a, n
    <3>b. h \in a .. n - 1 /\ h + 1 \in 1 .. n BY <3>a
    <3>2. hpos' \in Start .. histCount - 1 /\ hpos' + 1 \in 1 .. histCount BY <3>b, Zenon DEF h, a, n
    <3>3. line' = entered[hpos' + 1] BY <2>3, <2>4, <3>2 DEF Ring
    <3>4. \A e \in Seq(Lines) : \A k \in 1 .. Len(e) : e[k] \in Lines OBVIOUS
    <3>5. entered[hpos' + 1] \in Lines BY <3>2, <3>4 DEF Ring
    <3> QED BY <1>1, <2>1, <2>4, <3>3, <3>5 DEF Ring
  <2>5. CASE ~(hpos' < histCount) BY <1>1, <2>1, <2>2, <2>3, <2>5 DEF Ring
  <2> QED BY <2>4, <2>5
<1>4. CASE CtrlC
  <2>1. hpos' = histCount /\ recalled' = FALSE /\ line' = NoLine BY <1>4 DEF CtrlC
  <2> QED BY <1>1, <2>1 DEF Ring
<1> QED BY <1>2, <1>3, <1>4

LEMMA RingStays == ASSUME ShellSound, Ring, UNCHANGED inputVars, menu' = menu PROVE Ring'
BY DEF inputVars, Ring, Start

\* The steps of the shell.
LEMMA ShellInitInv == ASSUME ShellSound, ShellInit PROVE ShStore /\ Ring
<1>1. ShStore BY DEF ShellInit, VolumesInit, ShStore, Shaped, ShellSound, VolumesSound
<1>2. Ring BY DEF ShellInit, Ring, Start, ShellSound, Lines
<1> QED BY <1>1, <1>2

LEMMA Enters ==
    ASSUME ShellSound, ShStore, Ring, Enter
    PROVE  ShStore' /\ Ring' /\ SaysWhatHappened
<1>1. line \in Lines /\ HistAdd(line) /\ menu' = menu /\ line' = NoLine /\ hpos' = histCount' /\ recalled' = FALSE
  BY DEF Enter, Ring
<1>2. Ring' BY <1>1, RingAdd
<1>3. PICK o \in Run(line) :
        /\ Become(o.s)
        /\ told' = [l |-> line, outcome |-> o.outcome, got |-> o.got, had |-> Had(line)] BY DEF Enter
<1>4. Tells(line, o) BY <1>3, RunTells DEF ShellSound
<1>5. files' = o.s.files /\ vols' = o.s.tab /\ generation' = o.s.gen BY <1>3 DEF Become
<1>6. told'.outcome = o.outcome /\ told'.got = o.got BY <1>3
<1>7. ShStore' BY <1>4, <1>5 DEF ShStore, Tells, IsStore
<1>8. ASSUME NEW x \in Changed
      PROVE  /\ told'.outcome # "refused" /\ x \in Targets(line)
             /\ told'.outcome = "done" =>
                    Promised(line, files[x[1]][x[2]], files'[x[1]][x[2]], told'.got)
  <2>1. x[1] \in Media /\ x[2] \in Paths /\ x = <<x[1], x[2]>> /\ files'[x[1]][x[2]] # files[x[1]][x[2]]
    BY DEF Changed
  <2> QED BY <1>4, <1>5, <1>6, <2>1 DEF Tells
<1>9. ASSUME told'.outcome = "done", line.op \in Removing, NEW x \in Targets(line)
      PROVE  files'[x[1]][x[2]] = None BY <1>4, <1>5, <1>6, <1>9 DEF Tells
<1>10. SaysWhatHappened BY <1>8, <1>9, Zenon DEF SaysWhatHappened, Removing
<1> QED BY <1>2, <1>7, <1>10

LEMMA Desktops == ASSUME ShellSound, ShStore, Ring, Desktop PROVE ShStore' /\ Ring'
<1>1. UNCHANGED inputVars /\ menu' = menu BY DEF Desktop
<1>2. PICK o \in OtherPrograms(Now) \cup Rescans(Now) \cup Remounts(Now) : Become(o) BY DEF Desktop
<1>3. IsStore(o) /\ Shaped(o.files) /\ o.tab \in Seq(Mounts)
  <2>1. CASE o \in OtherPrograms(Now) BY <2>1, OthersWrite, NowIs DEF ShStore
  <2>2. CASE o \in Rescans(Now) \cup Remounts(Now) BY <2>2, Rescanned, Tables, NowIs DEF ShStore, ShellSound
  <2> QED BY <1>2, <2>1, <2>2
<1>4. ShStore' BY <1>2, <1>3 DEF ShStore, Become, IsStore
<1> QED BY <1>1, <1>4, RingStays

LEMMA ShellNextInv ==
    ASSUME ShellSound, ShStore, Ring, [ShellNext]_shellVars
    PROVE  ShStore' /\ Ring' /\ [SaysWhatHappened]_shellVars
<1>1. CASE TypeLine \/ Arrow \/ CtrlC
  <2>1. UNCHANGED <<volVars, commands>> BY <1>1 DEF TypeLine, Arrow, CtrlC, Unread
  <2>2. ShStore' BY <2>1 DEF volVars, ShStore, Shaped
  <2> QED BY <1>1, <2>1, <2>2, RingKeys DEF SaysWhatHappened
<1>2. CASE Enter BY <1>2, Enters
<1>3. CASE Desktop
  <2>1. commands' = commands BY <1>3 DEF Desktop
  <2> QED BY <1>3, <2>1, Desktops DEF SaysWhatHappened
<1>4. CASE UNCHANGED shellVars
  <2>1. UNCHANGED <<volVars, inputVars, menu>> BY <1>4 DEF shellVars
  <2>2. ShStore' BY <2>1 DEF volVars, ShStore, Shaped
  <2> QED BY <1>4, <2>1, <2>2, RingStays
<1> QED BY <1>1, <1>2, <1>3, <1>4 DEF ShellNext

\* The arrows of the shell bring back the lines that were entered, for every
\* size of the ring and however often it went round (readline, hist_add).
THEOREM ShellRecalls == ASSUME ShellSound PROVE ShellSpec => []RecallsTheLine
<1>1. ShellInit => ShStore /\ Ring BY ShellInitInv
<1>2. ShStore /\ Ring /\ [ShellNext]_shellVars => (ShStore /\ Ring)' BY ShellNextInv
<1>3. ShStore /\ Ring => RecallsTheLine BY DEF Ring, RecallsTheLine
<1> QED BY <1>1, <1>2, <1>3, PTL DEF ShellSpec

\* What a command of the shell says is what it did, whatever the devices
\* refuse and whatever the desktop changed before it (cmd_vcp, cmd_vrm,
\* cmd_vmkdir, cmd_mv, cmd_install, cmd_format and the commands of ramfs).
THEOREM ShellIsHonest == ASSUME ShellSound PROVE ShellSpec => [][SaysWhatHappened]_shellVars
<1>1. ShellInit => ShStore /\ Ring BY ShellInitInv
<1>2. ShStore /\ Ring /\ [ShellNext]_shellVars => (ShStore /\ Ring)' BY ShellNextInv
<1>3. ShStore /\ Ring /\ [ShellNext]_shellVars => [SaysWhatHappened]_shellVars BY ShellNextInv
<1> QED BY <1>1, <1>2, <1>3, PTL DEF ShellSpec
-----------------------------------------------------------------------------
(*****************************************************************************)
(* The editors: what they call saved is stored, and they write only what the *)
(* user named.                                                               *)
(*                                                                           *)
(* The whole of the state is a world, and every handler maps worlds to       *)
(* worlds.  A world is Good when each document is: what it counts on of the  *)
(* RAM disk, of KvFS and of its destination is there, for the revision that  *)
(* is shown and for the one an undo leads back to.                           *)
(*****************************************************************************)
DocFields == {"t", "rev", "serial", "older", "saved", "name", "named", "imported", "ram", "kv",
              "target", "doubt", "mode", "pending", "nameIn", "disk", "pick"}
PickFields == {"v", "d", "items", "file", "gen", "name", "on"}
TargetFields == {"v", "p", "gen", "rev", "on"}
Pendings == {"none", "new", "open", "import", "close", "quit", "build"}

\* A table in which a name leads to one medium and a medium has one name.
OneEach(tab) ==
    /\ tab \in Seq(Mounts)
    /\ \A i, j \in DOMAIN tab : i # j => tab[i].name # tab[j].name /\ tab[i].medium # tab[j].medium

\* A destination noted in namespace k.gen is still what it was in that one.
KnownAs(s, k) ==
    /\ k.gen \in Nat /\ k.gen <= s.gen
    /\ k.gen = s.gen /\ Mounted(s, k.v) => k.on = MediumAt(s, k.v)

\* c is the text of revision r, if r is one the editor can show.
HasRev(E, r, c) ==
    /\ r = E.rev => c = E.t
    /\ r = E.older.rev /\ r # -1 => c = E.older.t

Counted(E) ==
    /\ E.serial \in Nat /\ E.rev \in 0 .. E.serial /\ E.older.rev \in -1 .. E.serial
    /\ E.older.rev # E.rev
    /\ E.ram \in -1 .. E.serial /\ E.kv \in -1 .. E.serial
    /\ E.target.v # None => E.target.rev \in -1 .. E.serial
Bound(s, E) ==
    E.target.v # None =>
        /\ DOMAIN E.target = TargetFields /\ E.named
        /\ E.target.p \in Paths /\ KnownAs(s, E.target)
        /\ E.imported => E.target.on = Ram
Asked(s, e, E) ==
    /\ DOMAIN E.pick = PickFields /\ E.pending \in Pendings
    /\ E.mode \in {"dest", "destReplace"} => KnownAs(s, E.pick)
    /\ E.mode = "dirty" => E.pending # "build"
    /\ E.mode = "overwrite" => NameOk(e, E.nameIn)
    /\ E.mode \in {"save", "overwrite", "delete"} => E.target.v = None
    /\ E.nameIn # 0 => Usable(E.nameIn)
    /\ \A i \in E.pick.items : Usable(i[1])

\* A save to the destination would reach it, and no Keep cut short has
\* written another text there under the document's own name.
Reaches(s, E) ==
    /\ E.target.v # None /\ E.target.gen = s.gen /\ VfsWritable(s, E.target.v)
    /\ ~KeepCutShort(E)
Trusted(s, E) ==
    /\ HasRev(E, E.ram, s.files[Ram][<<E.name>>])
    /\ E.doubt \/ HasRev(E, E.kv, s.files[Kv][<<E.name>>])
    /\ Reaches(s, E) => HasRev(E, E.target.rev, s.files[MediumAt(s, E.target.v)][E.target.p])
Doc(s, e, E) ==
    /\ DOMAIN E = DocFields
    /\ Usable(E.name) /\ (e = "dev" => E.name \in DevNames)
    /\ Counted(E) /\ Bound(s, E) /\ Asked(s, e, E) /\ Trusted(s, E)

WorldFields == {"s", "ed", "run", "mask", "ok"}
Worldly(w) ==
    /\ DOMAIN w = WorldFields /\ DOMAIN w.ed = Ed
    /\ IsStore(w.s) /\ Shaped(w.s.files) /\ OneEach(w.s.tab)
Good(w) == Worldly(w) /\ \A e \in Ed : Doc(w.s, e, w.ed[e])

-----------------------------------------------------------------------------
\* Volumes: no name leads to two media, no medium has two names.
LEMMA Leads ==
    ASSUME NEW s, OneEach(s.tab), NEW v, Mounted(s, v)
    PROVE  \E i \in DOMAIN s.tab : s.tab[i].name = v /\ s.tab[i] \in Mounts /\ MediumAt(s, v) = s.tab[i].medium
<1>1. PICK i \in DOMAIN s.tab : s.tab[i].name = v BY DEF Mounted
<1>2. PICK j \in DOMAIN s.tab : j = CHOOSE k \in DOMAIN s.tab : s.tab[k].name = v BY <1>1
<1>3. s.tab[j].name = v BY <1>1, <1>2
<1>4. \A t \in Seq(Mounts), k \in DOMAIN s.tab : s.tab = t => t[k] \in Mounts OBVIOUS
<1>5. s.tab[j] \in Mounts BY <1>2, <1>4, Zenon DEF OneEach
<1>6. MediumAt(s, v) = s.tab[j].medium BY <1>2, Zenon DEF MediumAt
<1> QED BY <1>3, <1>5, <1>6

LEMMA NamesApart ==
    ASSUME NEW s, OneEach(s.tab), NEW u, NEW v, Mounted(s, u), Mounted(s, v),
           MediumAt(s, u) = MediumAt(s, v)
    PROVE  u = v
<1>1. PICK i \in DOMAIN s.tab : s.tab[i].name = u /\ MediumAt(s, u) = s.tab[i].medium BY Leads
<1>2. PICK j \in DOMAIN s.tab : s.tab[j].name = v /\ MediumAt(s, v) = s.tab[j].medium BY Leads
<1>3. i = j BY <1>1, <1>2 DEF OneEach
<1> QED BY <1>1, <1>2, <1>3

LEMMA Natives ==
    ASSUME NEW s, OneEach(s.tab), NEW v, Mounted(s, v)
    PROVE  /\ MediumAt(s, v) \in Media
           /\ (v = "ram" <=> MediumAt(s, v) = Ram) /\ (v = "kv" <=> MediumAt(s, v) = Kv)
           /\ v \in Labels
<1>1. PICK i \in DOMAIN s.tab : s.tab[i].name = v /\ s.tab[i] \in Mounts /\ MediumAt(s, v) = s.tab[i].medium BY Leads
<1> QED BY <1>1 DEF Mounts, Media

LEMMA NoneNotMounted ==
    ASSUME EditorsSound, NEW s, OneEach(s.tab)
    PROVE  ~Mounted(s, None) BY Natives DEF EditorsSound

-----------------------------------------------------------------------------
\* A world in which one document, or the store, is another.
LEMMA Sets ==
    ASSUME NEW w, Worldly(w), NEW e \in Ed, NEW E
    PROVE  LET x == Set(w, e, E) IN
           /\ Worldly(x) /\ x.s = w.s /\ x.run = w.run /\ x.mask = w.mask /\ x.ok = w.ok
           /\ x.ed[e] = E /\ \A o \in Ed : o # e => x.ed[o] = w.ed[o] BY DEF Set, Worldly, WorldFields

LEMMA OnStores ==
    ASSUME NEW w, Worldly(w), NEW s, IsStore(s), Shaped(s.files), s.tab = w.s.tab
    PROVE  LET x == [w EXCEPT !.s = s] IN
           Worldly(x) /\ x.s = s /\ x.ed = w.ed /\ x.run = w.run /\ x.mask = w.mask /\ x.ok = w.ok
BY DEF Worldly, WorldFields

LEMMA Siblings ==
    \A e \in Ed : Sibling(e) \in Ed /\ Sibling(e) # e /\ Ed = {e, Sibling(e)} BY DEF Ed, Sibling

LEMMA GoodWith ==
    ASSUME NEW w, Worldly(w), NEW e \in Ed, Doc(w.s, Sibling(e), w.ed[Sibling(e)]),
           NEW E, Doc(w.s, e, E)
    PROVE  Good(Set(w, e, E))
<1> DEFINE x == Set(w, e, E)
<1>1. Worldly(x) /\ x.s = w.s /\ x.ed[e] = E /\ \A o \in Ed : o # e => x.ed[o] = w.ed[o] BY Sets
<1> HIDE DEF x
<1>2. Doc(x.s, e, x.ed[e]) BY <1>1
<1>3. Doc(x.s, Sibling(e), x.ed[Sibling(e)]) BY <1>1, Siblings
<1>4. \A o \in Ed : o = e \/ o = Sibling(e) BY Siblings
<1>5. Good(x) BY <1>1, <1>2, <1>3, <1>4, Zenon DEF Good
<1> QED BY <1>5 DEF x

-----------------------------------------------------------------------------
\* A document that counts on less than it did, everything else the same.
Warned(E, F) ==
    /\ DOMAIN F = DocFields
    /\ F.t = E.t /\ F.rev = E.rev /\ F.serial = E.serial /\ F.older = E.older
    /\ F.name = E.name /\ F.named = E.named /\ F.imported = E.imported
    /\ F.ram \in {E.ram, -1} /\ F.kv \in {E.kv, -1} /\ (E.doubt => F.doubt)
    /\ F.target.v \in {E.target.v, None}
    /\ F.target.v # None =>
        /\ DOMAIN F.target = DOMAIN E.target
        /\ F.target.p = E.target.p /\ F.target.gen = E.target.gen /\ F.target.on = E.target.on
        /\ F.target.rev \in {E.target.rev, -1}
    /\ F.mode = E.mode /\ F.pending = E.pending /\ F.nameIn = E.nameIn /\ F.pick = E.pick

LEMMA WarnedSame == ASSUME NEW E, DOMAIN E = DocFields PROVE Warned(E, E) BY DEF Warned

LEMMA WarnedTwice ==
    ASSUME NEW E, NEW F, NEW G, Warned(E, F), Warned(F, G)
    PROVE  Warned(E, G) BY DEF Warned

\* A store with the same table, where nothing became writable.
Later(s, o) ==
    /\ IsStore(o) /\ Shaped(o.files) /\ o.tab = s.tab
    /\ o.gen \in Nat /\ o.gen >= s.gen /\ o.rw \subseteq s.rw

LEMMA KnownStill ==
    ASSUME NEW s, NEW o, IsStore(s), Later(s, o), NEW k, KnownAs(s, k)
    PROVE  KnownAs(o, k)
<1>1. \A v : Mounted(o, v) = Mounted(s, v) /\ MediumAt(o, v) = MediumAt(s, v) BY DEF Later, Mounted, MediumAt
<1>2. s.gen \in Nat /\ o.gen \in Nat /\ o.gen >= s.gen BY DEF IsStore, Later
<1> QED BY <1>1, <1>2 DEF KnownAs

\* The files it still counts on are as they were.
Spared(s, o, F) ==
    /\ F.ram = -1 \/ o.files[Ram][<<F.name>>] = s.files[Ram][<<F.name>>]
    /\ F.kv = -1 \/ F.doubt \/ o.files[Kv][<<F.name>>] = s.files[Kv][<<F.name>>]
    /\ Reaches(o, F) /\ F.target.rev # -1 =>
        o.files[MediumAt(s, F.target.v)][F.target.p] = s.files[MediumAt(s, F.target.v)][F.target.p]

LEMMA StillTrue ==
    ASSUME NEW s, NEW o, IsStore(s), Later(s, o), NEW e, NEW E, NEW F,
           Doc(s, e, E), Warned(E, F), Spared(s, o, F)
    PROVE  Doc(o, e, F)
<1>1. \A v : Mounted(o, v) = Mounted(s, v) /\ MediumAt(o, v) = MediumAt(s, v) BY DEF Later, Mounted, MediumAt
<1>2. s.gen \in Nat /\ o.gen \in Nat /\ o.gen >= s.gen /\ o.rw \subseteq s.rw BY DEF IsStore, Later
<1>3. DOMAIN F = DocFields /\ Usable(F.name) /\ (e = "dev" => F.name \in DevNames) BY DEF Doc, Warned
<1>4. Counted(E) /\ Bound(s, E) /\ Asked(s, e, E) /\ Trusted(s, E) BY DEF Doc
<1>5. Counted(F) BY <1>4 DEF Counted, Warned
<1>6. E.target.v # None => KnownAs(o, E.target) BY <1>4, KnownStill DEF Bound
<1>7. Bound(o, F) BY <1>4, <1>6 DEF Bound, Warned, KnownAs
<1>8. E.mode \in {"dest", "destReplace"} => KnownAs(o, E.pick) BY <1>4, KnownStill DEF Asked
<1>9. Asked(o, e, F) BY <1>4, <1>8 DEF Asked, Warned
<1>10. ASSUME NEW r \in Int, NEW c, HasRev(E, r, c) PROVE HasRev(F, r, c) BY <1>10 DEF HasRev, Warned
<1>11. \A c : HasRev(F, -1, c) BY <1>5 DEF HasRev, Counted
<1>12. HasRev(F, F.ram, o.files[Ram][<<F.name>>])
  <2>1. F.ram = -1 \/ (F.ram = E.ram /\ F.name = E.name) BY DEF Warned
  <2> QED BY <1>4, <1>5, <1>10, <1>11, <2>1 DEF Trusted, Spared, Counted
<1>13. F.doubt \/ HasRev(F, F.kv, o.files[Kv][<<F.name>>])
  <2>1. F.kv = -1 \/ F.doubt \/ (F.kv = E.kv /\ F.name = E.name /\ ~E.doubt) BY DEF Warned
  <2> QED BY <1>4, <1>5, <1>10, <1>11, <2>1 DEF Trusted, Spared, Counted
<1>14. ASSUME Reaches(o, F)
       PROVE  HasRev(F, F.target.rev, o.files[MediumAt(o, F.target.v)][F.target.p])
  <2>1. /\ F.target.v # None /\ F.target.gen = E.target.gen /\ F.target.v = E.target.v
        /\ F.target.p = E.target.p /\ F.target.on = E.target.on /\ F.imported = E.imported
    BY <1>14 DEF Reaches, Warned
  <2>2. E.target.gen \in Nat /\ E.target.gen <= s.gen BY <1>4, <2>1 DEF Bound, KnownAs
  <2>3. F.name = E.name /\ F.ram \in {E.ram, -1} BY DEF Warned
  <2>4. CASE F.target.rev = -1 BY <1>11, <2>4
  <2>5. CASE F.target.rev # -1
    <3>1. F.target.rev = E.target.rev /\ E.target.rev \in Int BY <1>4, <2>1, <2>5 DEF Warned, Counted
    <3>a. ~KeepCutShort(E) BY <1>14, <2>1, <2>3, <2>5, <3>1 DEF Reaches, KeepCutShort
    <3>b. Reaches(s, E) BY <1>1, <1>2, <1>14, <2>1, <2>2, <3>a DEF Reaches, VfsWritable
    <3>2. HasRev(E, E.target.rev, s.files[MediumAt(s, E.target.v)][E.target.p]) BY <1>4, <3>b DEF Trusted
    <3>3. o.files[MediumAt(s, F.target.v)][F.target.p] = s.files[MediumAt(s, F.target.v)][F.target.p]
      BY <1>14, <2>5 DEF Spared
    <3> QED BY <1>1, <1>10, <2>1, <3>1, <3>2, <3>3
  <2> QED BY <2>4, <2>5
<1>15. Trusted(o, F) BY <1>12, <1>13, <1>14 DEF Trusted
<1> QED BY <1>3, <1>5, <1>7, <1>9, <1>15 DEF Doc

\* The store is the same but for a result.
LEMMA SameFiles ==
    ASSUME NEW s, NEW o, IsStore(s), Later(s, o), o.files = s.files, NEW e, NEW E, Doc(s, e, E)
    PROVE  Doc(o, e, E)
<1>1. Warned(E, E) BY WarnedSame DEF Doc
<1>2. Spared(s, o, E) BY DEF Spared
<1> QED BY <1>1, <1>2, StillTrue

-----------------------------------------------------------------------------
\* x is w with the sibling of e told to count on less.
Aside(w, x, e) ==
    /\ Worldly(x) /\ x.s = w.s /\ x.run = w.run /\ x.mask = w.mask /\ x.ok = w.ok
    /\ x.ed[e] = w.ed[e] /\ Warned(w.ed[Sibling(e)], x.ed[Sibling(e)])

\* A document whose fields can be set one by one.
Plain(E) ==
    DOMAIN E = DocFields /\ (E.target.v # None => DOMAIN E.target = TargetFields)

LEMMA DocPlain == ASSUME NEW s, NEW e, NEW E, Doc(s, e, E) PROVE Plain(E) BY DEF Doc, Plain, Bound

LEMMA WarnedPlain == ASSUME NEW E, NEW F, Plain(E), Warned(E, F) PROVE Plain(F) BY DEF Plain, Warned

LEMMA AsideTwice ==
    ASSUME NEW w, NEW x, NEW y, NEW e, Aside(w, x, e), Aside(x, y, e)
    PROVE  Aside(w, y, e) BY WarnedTwice DEF Aside

LEMMA AsideSame ==
    ASSUME NEW w, Worldly(w), NEW e \in Ed, Plain(w.ed[Sibling(e)])
    PROVE  Aside(w, w, e) BY WarnedSame DEF Aside, Plain

LEMMA AsideSet ==
    ASSUME NEW w, Worldly(w), NEW e \in Ed, NEW F, Warned(w.ed[Sibling(e)], F)
    PROVE  Aside(w, Set(w, Sibling(e), F), e) /\ Set(w, Sibling(e), F).ed[Sibling(e)] = F
<1>1. Sibling(e) \in Ed /\ Sibling(e) # e BY Siblings
<1> QED BY <1>1, Sets DEF Aside

\* ed_target_changed
LEMMA TargetChanges ==
    ASSUME NEW w, Worldly(w), NEW e \in Ed, Plain(w.ed[Sibling(e)]), NEW v, NEW p
    PROVE  LET x == TargetChanged(w, e, v, p)
               t == x.ed[Sibling(e)].target IN
           /\ Aside(w, x, e)
           /\ t.v = v /\ t.v # None /\ (t.p = p \/ (Mounted(w.s, v) /\ MediumAt(w.s, v) \in FatMedia))
                => t.rev = -1
<1> DEFINE o == Sibling(e)
           E == w.ed[o]
           F == [Unsure(E) EXCEPT !.target.rev = -1]
           alias == Mounted(w.s, v) /\ MediumAt(w.s, v) \in FatMedia /\ E.target.v = v
           heard == E.target.v # None /\ ((E.target.v = v /\ E.target.p = p) \/ alias)
           x == TargetChanged(w, e, v, p)
<1>1. x = IF heard THEN Set(w, o, F) ELSE w BY DEF TargetChanged
<1>2. CASE heard
  <2>1. Plain(E) /\ E.target.v # None BY <1>2
  <2> HIDE DEF E
  <2>2. Warned(E, F) /\ F.target.rev = -1 BY <2>1 DEF Warned, Unsure, Plain, DocFields, TargetFields
  <2> HIDE DEF F, heard, x
  <2>3. Warned(w.ed[o], F) BY <2>2 DEF E
  <2>4. Aside(w, Set(w, o, F), e) /\ Set(w, o, F).ed[o] = F BY <2>3, AsideSet
  <2>5. Aside(w, x, e) /\ x.ed[o].target.rev = -1 BY <1>1, <1>2, <2>2, <2>4
  <2> QED BY <2>5 DEF x
<1>3. CASE ~heard
  <2>1. Aside(w, w, e) BY AsideSame
  <2>2. x = w BY <1>1, <1>3
  <2> QED BY <1>3, <2>1, <2>2
<1> QED BY <1>2, <1>3

\* ed_storage_changed
LEMMA StorageChanges ==
    ASSUME NEW w, Worldly(w), NEW e \in Ed, Plain(w.ed[Sibling(e)]), NEW n, NEW m
    PROVE  LET x == StorageChanged(w, e, n, m)
               F == x.ed[Sibling(e)] IN
           /\ Aside(w, x, e)
           /\ F.name = n => IF m = Ram THEN F.ram = -1 ELSE F.kv = -1
           /\ F.target.v = (IF m = Ram THEN "ram" ELSE "kv") /\ F.target.v # None /\ F.target.p = <<n>>
                => F.target.rev = -1
<1> DEFINE o == Sibling(e)
           v == IF m = Ram THEN "ram" ELSE "kv"
           y == TargetOnly(w, e, n, m)
           E == y.ed[o]
           O == IF m = Ram THEN [E EXCEPT !.ram = -1] ELSE [E EXCEPT !.kv = -1]
           F == IF O.rev \in {O.ram, O.kv} THEN O ELSE Unsure(O)
           x == StorageChanged(w, e, n, m)
<1>1. y = TargetChanged(w, e, v, <<n>>) BY DEF TargetOnly
<1>2. x = IF O.name # n THEN y ELSE Set(y, o, F) BY DEF StorageChanged
<1> HIDE DEF y, v, x
<1>3. /\ Aside(w, y, e)
      /\ E.target.v = v /\ E.target.v # None /\ E.target.p = <<n>> => E.target.rev = -1 BY <1>1, TargetChanges
<1>4. Plain(E) /\ Worldly(y) BY <1>3, WarnedPlain DEF Aside
<1> HIDE DEF E
<1>5. O.name = E.name /\ O.target = E.target BY <1>4 DEF Plain, DocFields
<1>6. CASE E.name # n
  <2>1. x = y BY <1>2, <1>5, <1>6
  <2> QED BY <1>3, <1>6, <2>1 DEF E, v, x
<1>7. CASE E.name = n
  <2>1. Warned(E, O) /\ IF m = Ram THEN O.ram = -1 ELSE O.kv = -1 BY <1>4 DEF Warned, Plain, DocFields
  <2>2. /\ Warned(E, F) /\ F.target = E.target
        /\ IF m = Ram THEN F.ram = -1 ELSE F.kv = -1 BY <1>4, <2>1 DEF Warned, Plain, DocFields, Unsure
  <2> HIDE DEF F, O
  <2>3. x = Set(y, o, F) BY <1>2, <1>5, <1>7
  <2>4. Aside(y, x, e) /\ x.ed[o] = F BY <1>4, <2>2, <2>3, AsideSet DEF E
  <2>5. Aside(w, x, e) BY <1>3, <2>4, AsideTwice
  <2> QED BY <1>3, <2>2, <2>4, <2>5 DEF v, x
<1> QED BY <1>6, <1>7

-----------------------------------------------------------------------------
\* At most the file p of medium m has changed.
Wrote(s, o, m, p) ==
    /\ Later(s, o)
    /\ \A k \in Media, q \in Paths : o.files[k][q] # s.files[k][q] => k = m /\ q = p

LEMMA PutWrote ==
    ASSUME NEW s, IsStore(s), Shaped(s.files), NEW o, NEW m, NEW p, NEW c, Outcome(s, o, m, Put(s, m, p, c))
    PROVE  Wrote(s, o, m, p) /\ (o.kv => s.kv \/ o.gen = s.gen)
<1>1. /\ Shaped(Put(s, m, p, c))
      /\ \A k \in Media, q \in Paths : Put(s, m, p, c)[k][q] = IF k = m /\ q = p THEN c ELSE s.files[k][q] BY PutAt
<1>2. o.files = s.files \/ o.files = Put(s, m, p, c) BY DEF Outcome
<1>3. o.gen \in Nat /\ s.gen \in Nat /\ o.gen >= s.gen BY DEF Outcome, IsStore
<1> QED BY <1>1, <1>2, <1>3 DEF Outcome, Wrote, Later

\* What a call of a native store or of the table may leave.
LEMMA RamWrote ==
    ASSUME NEW s, IsStore(s), Shaped(s.files), NEW n, NEW c, NEW o \in RamWritten(s, n, c)
    PROVE  /\ Wrote(s, o, Ram, <<n>>) /\ o.kv = s.kv /\ o.gen = s.gen /\ o.rw = s.rw
           /\ o.r \in {1, -3} /\ (o.r # 1 => o.files = s.files)
           /\ o.r = 1 /\ Usable(n) => o.files[Ram][<<n>>] = c
<1> DEFINE p == <<n>>
           fs == Put(s, Ram, p, c)
<1>1. Ram \in Media /\ (p \in Paths => fs[Ram][p] = c) BY PutAt DEF Media
<1>2. CASE o = Ret(s, -3)
  <2>1. Keeps(s, o) /\ o.r = -3 BY <1>2, Rets
  <2>2. Outcome(s, o, Ram, fs) BY <2>1, Keepers
  <2> QED BY <2>1, <2>2, PutWrote DEF Keeps
<1>3. CASE o \in Done(s, 1, fs)
  <2>1. Outcome(s, o, Ram, fs) /\ o.r = 1 /\ o.files = fs BY <1>3, Dones
  <2>2. o.gen = s.gen /\ o.rw = s.rw /\ o.kv = s.kv BY <2>1 DEF Outcome
  <2> QED BY <1>1, <2>1, <2>2, PutWrote DEF Usable
<1> QED BY <1>2, <1>3 DEF RamWritten

LEMMA KvWrote ==
    ASSUME NEW s, IsStore(s), Shaped(s.files), NEW n, NEW c, NEW o \in KvWritten(s, n, c)
    PROVE  /\ Wrote(s, o, Kv, <<n>>) /\ (o.kv => s.kv)
           /\ o.r = 1 => o.kv = s.kv /\ o.gen = s.gen
           /\ o.r = 1 /\ Usable(n) => o.files[Kv][<<n>>] = c
<1> DEFINE p == <<n>>
           fs == Put(s, Kv, p, c)
<1>1. Kv \in Media /\ (p \in Paths => fs[Kv][p] = c) BY PutAt DEF Media
<1>2. CASE o = Ret(s, -3)
  <2>1. Keeps(s, o) /\ o.r = -3 BY <1>2, Rets
  <2>2. Outcome(s, o, Kv, fs) BY <2>1, Keepers
  <2> QED BY <2>1, <2>2, PutWrote DEF Keeps
<1>3. CASE o \in Done(s, 1, fs)
  <2>1. Outcome(s, o, Kv, fs) /\ o.r = 1 /\ o.files = fs BY <1>3, Dones
  <2>2. o.gen = s.gen /\ o.kv = s.kv BY <2>1 DEF Outcome
  <2> QED BY <1>1, <2>1, <2>2, PutWrote DEF Usable
<1>4. CASE o \in Broken(s, -1, Kv, fs)
  <2>1. Outcome(s, o, Kv, fs) /\ o.r = -1 BY <1>4, Brokens
  <2>2. o.kv => s.kv BY <2>1 DEF Outcome
  <2> QED BY <2>1, <2>2, PutWrote
<1> QED BY <1>2, <1>3, <1>4 DEF KvWritten

LEMMA TableWrote ==
    ASSUME NEW s, IsStore(s), Shaped(s.files), NEW v, NEW p, NEW c, NEW o \in VfsWrite(s, v, p, c)
    PROVE  LET m == MediumAt(s, v) IN
           /\ Wrote(s, o, m, p) /\ (o.kv => s.kv \/ o.gen = s.gen)
           /\ o.r = 1 => o.gen = s.gen /\ o.rw = s.rw /\ o.kv = s.kv
           /\ o.r = 1 \/ o.files # s.files => May(s, v) /\ ParentIsDir(s, m, p)
           /\ o.r = 1 /\ p \in Paths /\ m \in Media => o.files[m][p] = c
           /\ o.r # 1 /\ o.files # s.files =>
                (m = Kv /\ o.gen # s.gen) \/ (m \in FatMedia /\ m \notin o.rw)
<1> DEFINE m == MediumAt(s, v)
           fs == Put(s, m, p, c)
<1>1. /\ Outcome(s, o, m, fs) /\ o.r \in {1, -1, -2, -3}
      /\ o.r = 1 \/ o.files # s.files \/ o.gen # s.gen => May(s, v) /\ ParentIsDir(s, m, p)
      /\ o.r = 1 => o.files = fs BY Writes
<1>2. m \in Media /\ p \in Paths => fs[m][p] = c BY PutAt
<1> HIDE DEF m, fs
<1>3. o.r = 1 => o.gen = s.gen /\ o.rw = s.rw /\ o.kv = s.kv BY <1>1 DEF Outcome
<1>4. Wrote(s, o, m, p) /\ (o.kv => s.kv \/ o.gen = s.gen) BY <1>1, PutWrote DEF fs
<1>5. o.r # 1 => o.r < 0 BY <1>1
<1> QED BY <1>1, <1>2, <1>3, <1>4, <1>5 DEF Outcome, m

-----------------------------------------------------------------------------
\* After a file of a native store has changed the other editor is told.
LEMMA Informs ==
    ASSUME EditorsSound, NEW s, IsStore(s), OneEach(s.tab), NEW w, Worldly(w), NEW e \in Ed,
           NEW m \in {Ram, Kv}, NEW n, Wrote(s, w.s, m, <<n>>),
           Doc(s, Sibling(e), w.ed[Sibling(e)])
    PROVE  LET x == StorageChanged(w, e, n, m) IN
           Aside(w, x, e) /\ Doc(w.s, Sibling(e), x.ed[Sibling(e)])
<1> DEFINE o == Sibling(e)
           E == w.ed[o]
           x == StorageChanged(w, e, n, m)
           F == x.ed[o]
<1>1. Plain(E) BY DocPlain
<1>2. /\ Aside(w, x, e)
      /\ F.name = n => IF m = Ram THEN F.ram = -1 ELSE F.kv = -1
      /\ F.target.v = (IF m = Ram THEN "ram" ELSE "kv") /\ F.target.v # None /\ F.target.p = <<n>>
                => F.target.rev = -1 BY <1>1, StorageChanges
<1>3. Warned(E, F) BY <1>2 DEF Aside
<1>4. Ram # Kv /\ Ram \in Media /\ Kv \in Media BY DEF EditorsSound, VolumesSound, Media
<1>5. \A k \in Media, q \in Paths : w.s.files[k][q] # s.files[k][q] => k = m /\ q = <<n>> BY DEF Wrote
<1>6. Later(s, w.s) BY DEF Wrote
<1>7. Doc(s, o, E) OBVIOUS
<1> HIDE DEF E, F, x, o
<1>8. <<F.name>> \in Paths BY <1>3, <1>7 DEF Doc, Warned, Usable
<1>9. F.ram = -1 \/ w.s.files[Ram][<<F.name>>] = s.files[Ram][<<F.name>>] BY <1>2, <1>4, <1>5, <1>8
<1>10. F.kv = -1 \/ w.s.files[Kv][<<F.name>>] = s.files[Kv][<<F.name>>] BY <1>2, <1>4, <1>5, <1>8
<1>11. ASSUME Reaches(w.s, F), F.target.rev # -1
       PROVE  w.s.files[MediumAt(s, F.target.v)][F.target.p] = s.files[MediumAt(s, F.target.v)][F.target.p]
  <2>1. Mounted(s, F.target.v) /\ F.target.v # None BY <1>6, <1>11 DEF Reaches, VfsWritable, Mounted, Later
  <2>2. F.target.p \in Paths BY <1>3, <1>7, <2>1 DEF Doc, Bound, Warned
  <2>3. /\ MediumAt(s, F.target.v) \in Media
        /\ F.target.v = "ram" <=> MediumAt(s, F.target.v) = Ram
        /\ F.target.v = "kv" <=> MediumAt(s, F.target.v) = Kv BY <2>1, Natives
  <2> QED BY <1>2, <1>5, <1>11, <2>1, <2>2, <2>3
<1>12. Spared(s, w.s, F) BY <1>9, <1>10, <1>11 DEF Spared
<1>13. Doc(w.s, o, F) BY <1>3, <1>6, <1>7, <1>12, StillTrue
<1> QED BY <1>2, <1>13 DEF F, x, o

\* After a file of a volume has changed the other editor no longer counts on
\* that destination; of a native store it was told before.
LEMMA InformsTarget ==
    ASSUME EditorsSound, NEW s, IsStore(s), OneEach(s.tab), NEW w, Worldly(w), NEW e \in Ed,
           NEW v, Mounted(s, v), NEW p, Wrote(s, w.s, MediumAt(s, v), p),
           IF Flat(MediumAt(s, v)) THEN Doc(w.s, Sibling(e), w.ed[Sibling(e)])
           ELSE Doc(s, Sibling(e), w.ed[Sibling(e)])
    PROVE  LET x == TargetChanged(w, e, v, p) IN
           Aside(w, x, e) /\ Doc(w.s, Sibling(e), x.ed[Sibling(e)])
<1> DEFINE o == Sibling(e)
           m == MediumAt(s, v)
           E == w.ed[o]
           x == TargetChanged(w, e, v, p)
           F == x.ed[o]
<1>1. Plain(E) BY DocPlain
<1>2. Mounted(w.s, v) /\ MediumAt(w.s, v) = m BY DEF Wrote, Later, Mounted, MediumAt
<1>3. /\ Aside(w, x, e)
      /\ F.target.v = v /\ F.target.v # None /\ (F.target.p = p \/ (Mounted(w.s, v) /\ MediumAt(w.s, v) \in FatMedia))
            => F.target.rev = -1 BY <1>1, TargetChanges
<1>4. Warned(E, F) BY <1>3 DEF Aside
<1>5. IsStore(w.s) /\ Shaped(w.s.files) /\ w.s.gen \in Nat BY DEF Worldly, IsStore
<1>6. m \in Media BY Natives
<1>7. Ram # Kv /\ Ram \in Media /\ Kv \in Media BY DEF EditorsSound, VolumesSound, Media
<1>8. \A k \in Media, q \in Paths : w.s.files[k][q] # s.files[k][q] => k = m /\ q = p BY DEF Wrote
<1>9. Later(s, w.s) BY DEF Wrote
<1>10. IF Flat(m) THEN Doc(w.s, o, E) ELSE Doc(s, o, E) OBVIOUS
<1>11. m = MediumAt(s, v) OBVIOUS
<1> HIDE DEF E, F, x, o, m
<1>12. CASE Flat(m)
  <2>1. Later(w.s, w.s) BY <1>5 DEF Later
  <2>2. Spared(w.s, w.s, F) BY DEF Spared
  <2>3. Doc(w.s, o, F) BY <1>4, <1>5, <1>10, <1>12, <2>1, <2>2, StillTrue
  <2> QED BY <1>3, <2>3 DEF F, x, o
<1>13. CASE ~Flat(m)
  <2>1. m \in FatMedia /\ m # Ram /\ m # Kv BY <1>6, <1>13 DEF Flat, Media
  <2>2. <<F.name>> \in Paths BY <1>4, <1>10, <1>13 DEF Doc, Warned, Usable
  <2>3. ASSUME Reaches(w.s, F), F.target.rev # -1
        PROVE  w.s.files[MediumAt(s, F.target.v)][F.target.p] = s.files[MediumAt(s, F.target.v)][F.target.p]
    <3>1. Mounted(s, F.target.v) /\ F.target.v # None BY <1>9, <2>3 DEF Reaches, VfsWritable, Mounted, Later
    <3>2. F.target.p \in Paths BY <1>4, <1>10, <1>13, <3>1 DEF Doc, Bound, Warned
    <3>3. MediumAt(s, F.target.v) \in Media BY <3>1, Natives
    <3>4. MediumAt(s, F.target.v) = m => F.target.v = v BY <1>11, <3>1, NamesApart
    <3> QED BY <1>2, <1>3, <1>8, <2>1, <2>3, <3>1, <3>2, <3>3, <3>4
  <2>4. Spared(s, w.s, F) BY <1>7, <1>8, <2>1, <2>2, <2>3 DEF Spared
  <2>5. Doc(w.s, o, F) BY <1>4, <1>9, <1>10, <1>13, <2>4, StillTrue
  <2> QED BY <1>3, <2>5 DEF F, x, o
<1> QED BY <1>12, <1>13

-----------------------------------------------------------------------------
\* What is set of a document: a new revision counted on where it was just
\* stored, a name, a destination, a dialog.
LEMMA Resaved ==
    ASSUME NEW s, NEW e, NEW F, Doc(s, e, F), NEW G, DOMAIN G = DocFields,
           G.t = F.t, G.rev = F.rev, G.serial = F.serial, G.older = F.older,
           Usable(G.name), e = "dev" => G.name \in DevNames,
           \/ G.ram = -1
           \/ G.ram = F.ram /\ G.name = F.name
           \/ G.ram = F.rev /\ s.files[Ram][<<G.name>>] = F.t,
           \/ G.kv = -1
           \/ G.kv = F.kv /\ G.name = F.name /\ (F.doubt => G.doubt)
           \/ G.kv = F.rev /\ s.files[Kv][<<G.name>>] = F.t,
           \/ G.target.v = None
           \/ G.target = F.target /\ G.named = F.named /\ G.imported = F.imported /\ G.name = F.name
           \/ Bound(s, G) /\ G.target.rev = F.rev /\ s.files[MediumAt(s, G.target.v)][G.target.p] = F.t,
           Asked(s, e, G)
    PROVE  Doc(s, e, G)
<1>1. Counted(F) /\ Bound(s, F) /\ Trusted(s, F) BY DEF Doc
<1>2. Counted(G) BY <1>1 DEF Counted
<1>3. Bound(s, G) BY <1>1 DEF Bound
<1>4. ASSUME NEW r, NEW c, HasRev(F, r, c) PROVE HasRev(G, r, c) BY <1>4 DEF HasRev
<1>5. \A c : HasRev(G, -1, c) BY <1>2 DEF HasRev, Counted
<1>6. HasRev(G, F.rev, F.t) BY <1>2 DEF HasRev, Counted
<1>7. HasRev(G, G.ram, s.files[Ram][<<G.name>>]) BY <1>1, <1>4, <1>5, <1>6 DEF Trusted
<1>8. G.doubt \/ HasRev(G, G.kv, s.files[Kv][<<G.name>>]) BY <1>1, <1>4, <1>5, <1>6 DEF Trusted
<1>9. ASSUME Reaches(s, G) PROVE HasRev(G, G.target.rev, s.files[MediumAt(s, G.target.v)][G.target.p])
  <2>1. G.target.v # None BY <1>9 DEF Reaches
  <2>2. CASE G.target = F.target /\ G.imported = F.imported /\ G.name = F.name
    <3>1. CASE ~KeepCutShort(F)
      <4>1. Reaches(s, F) BY <1>9, <2>2, <3>1 DEF Reaches
      <4> QED BY <1>1, <1>4, <2>2, <4>1 DEF Trusted
    <3>2. CASE KeepCutShort(F)
      <4>1. G.ram = G.target.rev /\ G.ram # F.ram /\ G.target.p = <<G.name>> /\ G.target.on = Ram
        BY <1>9, <2>2, <3>2 DEF Reaches, KeepCutShort
      <4>2. G.ram = -1 \/ (G.ram = F.rev /\ s.files[Ram][<<G.name>>] = F.t) BY <4>1
      <4>3. MediumAt(s, G.target.v) = Ram BY <1>3, <1>9, <2>1, <4>1 DEF Reaches, VfsWritable, Bound, KnownAs
      <4> QED BY <1>5, <1>6, <4>1, <4>2, <4>3
    <3> QED BY <3>1, <3>2
  <2>3. CASE G.target.rev = F.rev /\ s.files[MediumAt(s, G.target.v)][G.target.p] = F.t BY <1>6, <2>3
  <2> QED BY <2>1, <2>2, <2>3
<1>10. Trusted(s, G) BY <1>7, <1>8, <1>9 DEF Trusted
<1> QED BY <1>2, <1>3, <1>10 DEF Doc

LEMMA AskedSame ==
    ASSUME NEW s, NEW e, NEW F, Asked(s, e, F), NEW G,
           G.mode = F.mode, G.pending = F.pending, G.nameIn = F.nameIn, G.pick = F.pick,
           G.target.v \in {F.target.v, None}
    PROVE  Asked(s, e, G) BY DEF Asked

\* The same document in another state of being stored.
Steady(E, F) ==
    /\ F.t = E.t /\ F.rev = E.rev /\ F.serial = E.serial /\ F.older = E.older
    /\ F.mode = E.mode /\ F.pending = E.pending /\ F.nameIn = E.nameIn /\ F.pick = E.pick

\* What ed_save_local may write, and what one call leaves of a world.
LocalPlaces(s, n) == {<<Ram, <<n>>>>} \cup (IF s.kv THEN {<<Kv, <<n>>>>} ELSE {})
Steps(w, x, P) ==
    /\ Later(w.s, x.s) /\ (x.s.kv => w.s.kv)
    /\ \A m \in Media, p \in Paths : x.s.files[m][p] # w.s.files[m][p] => <<m, p>> \in P

\* A document that ed_save_local is called for: none with a destination, but
\* the imported one that Keep takes from the RAM disk to KvFS as well.
Kept(E) == E.target.v = None \/ (E.imported /\ E.target.on = Ram)

\* A destination that can be reached is on the medium it was chosen on.
LEMMA Destined ==
    ASSUME NEW s, IsStore(s), NEW o, Later(s, o), NEW e, NEW E, Doc(s, e, E),
           E.target.v # None, E.target.gen = o.gen, VfsWritable(o, E.target.v)
    PROVE  E.target.p \in Paths /\ MediumAt(s, E.target.v) = E.target.on
<1>1. Mounted(s, E.target.v) BY DEF VfsWritable, Mounted, Later
<1>2. E.target.p \in Paths /\ KnownAs(s, E.target) BY DEF Doc, Bound
<1>3. E.target.gen = s.gen BY <1>2 DEF KnownAs, Later, IsStore
<1> QED BY <1>1, <1>2, <1>3 DEF KnownAs

\* The own document after its file of the RAM disk or of KvFS was written.
LEMMA OwnRam ==
    ASSUME EditorsSound, NEW s, IsStore(s), NEW o, NEW e, NEW E, Doc(s, e, E), Kept(E),
           Wrote(s, o, Ram, <<E.name>>), o.files[Ram][<<E.name>>] = E.t
    PROVE  Doc(o, e, [E EXCEPT !.ram = E.rev])
<1> DEFINE F == [E EXCEPT !.ram = -1]
           G == [E EXCEPT !.ram = E.rev]
<1>1. DOMAIN E = DocFields /\ Usable(E.name) /\ (e = "dev" => E.name \in DevNames) BY DEF Doc
<1>2. Warned(E, F) /\ DOMAIN G = DocFields /\ F.ram = -1 BY <1>1 DEF Warned, DocFields
<1>3. F.name = E.name /\ F.target = E.target /\ F.imported = E.imported BY <1>1 DEF DocFields
<1>4. /\ G.t = F.t /\ G.rev = F.rev /\ G.serial = F.serial /\ G.older = F.older /\ G.name = F.name
      /\ G.kv = F.kv /\ G.doubt = F.doubt /\ G.named = F.named /\ G.imported = F.imported
      /\ G.target = F.target /\ G.mode = F.mode /\ G.pending = F.pending /\ G.nameIn = F.nameIn
      /\ G.pick = F.pick /\ G.ram = F.rev /\ F.t = E.t BY <1>1 DEF DocFields
<1> HIDE DEF F, G
<1>5. Ram # Kv /\ Ram \in Media /\ Kv \in Media BY DEF EditorsSound, VolumesSound, Media
<1>a. ASSUME Reaches(o, F), F.target.rev # -1
      PROVE  o.files[MediumAt(s, F.target.v)][F.target.p] = s.files[MediumAt(s, F.target.v)][F.target.p]
  <2>1. F.imported /\ F.target.on = Ram /\ F.target.p # <<F.name>> BY <1>2, <1>3, <1>a DEF Kept, Reaches, KeepCutShort
  <2>2. E.target.p \in Paths /\ MediumAt(s, E.target.v) = Ram BY <1>3, <1>a, <2>1, Destined DEF Wrote, Reaches
  <2> QED BY <1>3, <1>5, <2>1, <2>2 DEF Wrote
<1>6. Spared(s, o, F) BY <1>1, <1>2, <1>3, <1>5, <1>a DEF Spared, Wrote, Usable
<1>7. Later(s, o) BY DEF Wrote
<1>8. Doc(o, e, F) BY <1>2, <1>6, <1>7, StillTrue
<1>9. Asked(o, e, G) BY <1>4, <1>8, AskedSame DEF Doc
<1>10. Doc(o, e, G) BY <1>1, <1>2, <1>3, <1>4, <1>8, <1>9, Resaved
<1> QED BY <1>10 DEF G

\* It is written to KvFS, or KvFS refused it.
LEMMA OwnKv ==
    ASSUME EditorsSound, NEW s, IsStore(s), NEW o, NEW e, NEW E, Doc(s, e, E), Kept(E),
           Wrote(s, o, Kv, <<E.name>>)
    PROVE  /\ Doc(o, e, [E EXCEPT !.kv = -1])
           /\ o.files[Kv][<<E.name>>] = E.t =>
                Doc(o, e, Stored([E EXCEPT !.kv = E.rev, !.doubt = FALSE, !.imported = FALSE]))
<1> DEFINE F == [E EXCEPT !.kv = -1]
           G == Stored([E EXCEPT !.kv = E.rev, !.doubt = FALSE, !.imported = FALSE])
<1>1. DOMAIN E = DocFields /\ Usable(E.name) /\ (e = "dev" => E.name \in DevNames) BY DEF Doc
<1>2. Warned(E, F) /\ DOMAIN G = DocFields /\ F.kv = -1 BY <1>1 DEF Warned, DocFields, Stored
<1>3. F.name = E.name /\ F.target = E.target /\ F.imported = E.imported BY <1>1 DEF DocFields
<1>4. /\ G.t = F.t /\ G.rev = F.rev /\ G.serial = F.serial /\ G.older = F.older /\ G.name = F.name
      /\ G.ram = F.ram /\ G.mode = F.mode /\ G.pending = F.pending /\ G.nameIn = F.nameIn
      /\ G.pick = F.pick /\ G.kv = F.rev /\ F.t = E.t /\ G.target = NoTarget BY <1>1 DEF DocFields, Stored
<1>5. G.target.v = None BY <1>4 DEF NoTarget
<1> HIDE DEF F, G
<1>6. Ram # Kv /\ Ram \in Media BY DEF EditorsSound, VolumesSound, Media
<1>a. ASSUME Reaches(o, F), F.target.rev # -1
      PROVE  o.files[MediumAt(s, F.target.v)][F.target.p] = s.files[MediumAt(s, F.target.v)][F.target.p]
  <2>1. F.target.v # None /\ F.target.on = Ram BY <1>3, <1>a DEF Kept, Reaches
  <2>2. E.target.p \in Paths /\ MediumAt(s, E.target.v) = Ram BY <1>3, <1>a, <2>1, Destined DEF Wrote, Reaches
  <2> QED BY <1>3, <1>6, <2>2 DEF Wrote
<1>7. Spared(s, o, F) BY <1>1, <1>2, <1>3, <1>6, <1>a DEF Spared, Wrote, Usable
<1>8. Later(s, o) BY DEF Wrote
<1>9. Doc(o, e, F) BY <1>2, <1>7, <1>8, StillTrue
<1>10. Asked(o, e, G) BY <1>4, <1>5, <1>9, AskedSame DEF Doc
<1>11. o.files[Kv][<<E.name>>] = E.t => Doc(o, e, G) BY <1>1, <1>2, <1>3, <1>4, <1>5, <1>9, <1>10, Resaved
<1> QED BY <1>9, <1>11 DEF F, G

\* It is stored on the RAM disk alone.
LEMMA OwnStored ==
    ASSUME NEW s, NEW e, NEW E, Doc(s, e, E)
    PROVE  Doc(s, e, Stored([E EXCEPT !.kv = -1]))
<1> DEFINE G == Stored([E EXCEPT !.kv = -1])
<1>1. DOMAIN E = DocFields /\ Usable(E.name) /\ (e = "dev" => E.name \in DevNames) BY DEF Doc
<1>2. /\ DOMAIN G = DocFields
      /\ G.t = E.t /\ G.rev = E.rev /\ G.serial = E.serial /\ G.older = E.older /\ G.name = E.name
      /\ G.ram = E.ram /\ G.mode = E.mode /\ G.pending = E.pending /\ G.nameIn = E.nameIn
      /\ G.pick = E.pick /\ G.kv = -1 /\ G.target = NoTarget BY <1>1 DEF DocFields, Stored
<1>3. G.target.v = None BY <1>2 DEF NoTarget
<1> HIDE DEF G
<1>4. Asked(s, e, G) BY <1>2, <1>3, AskedSame DEF Doc
<1>5. Doc(s, e, G) BY <1>1, <1>2, <1>3, <1>4, Resaved
<1> QED BY <1>5 DEF G

LEMMA AfterWrite ==
    ASSUME EditorsSound, NEW w, Worldly(w), NEW e \in Ed, Doc(w.s, Sibling(e), w.ed[Sibling(e)]),
           NEW s, NEW m \in {Ram, Kv}, NEW n, Wrote(w.s, s, m, <<n>>), NEW E
    PROVE  LET x == StorageChanged(Set([w EXCEPT !.s = s], e, E), e, n, m) IN
           /\ Worldly(x) /\ x.s = s /\ x.run = w.run /\ x.mask = w.mask /\ x.ok = w.ok
           /\ x.ed[e] = E /\ Doc(s, Sibling(e), x.ed[Sibling(e)])
<1> DEFINE o == Sibling(e)
           u == [w EXCEPT !.s = s]
           y == Set(u, e, E)
           x == StorageChanged(y, e, n, m)
<1>1. IsStore(w.s) /\ OneEach(w.s.tab) BY DEF Worldly
<1>2. IsStore(s) /\ Shaped(s.files) /\ s.tab = w.s.tab BY DEF Wrote, Later
<1>3. /\ Worldly(u) /\ u.s = s /\ u.ed = w.ed /\ u.run = w.run /\ u.mask = w.mask /\ u.ok = w.ok BY <1>2, OnStores
<1>4. o \in Ed /\ o # e BY Siblings
<1> HIDE DEF u
<1>5. /\ Worldly(y) /\ y.s = s /\ y.run = w.run /\ y.mask = w.mask /\ y.ok = w.ok
      /\ y.ed[e] = E /\ y.ed[o] = w.ed[o] BY <1>3, <1>4, Sets
<1> HIDE DEF y
<1>6. Wrote(w.s, y.s, m, <<n>>) /\ Doc(w.s, Sibling(e), y.ed[Sibling(e)]) BY <1>5
<1>7. Aside(y, x, e) /\ Doc(y.s, Sibling(e), x.ed[Sibling(e)]) BY <1>1, <1>5, <1>6, Informs
<1>8. /\ Worldly(x) /\ x.s = s /\ x.run = w.run /\ x.mask = w.mask /\ x.ok = w.ok
      /\ x.ed[e] = E /\ Doc(s, Sibling(e), x.ed[Sibling(e)]) BY <1>5, <1>7 DEF Aside
<1> QED BY <1>8 DEF y, u

LEMMA GoodBy ==
    ASSUME NEW x, Worldly(x), NEW e \in Ed, Doc(x.s, e, x.ed[e]), Doc(x.s, Sibling(e), x.ed[Sibling(e)])
    PROVE  Good(x)
<1>1. \A o \in Ed : o = e \/ o = Sibling(e) BY Siblings
<1> QED BY <1>1, Zenon DEF Good

LEMMA Fails ==
    ASSUME NEW w, Worldly(w)
    PROVE  LET x == Fail(w) IN
           /\ Worldly(x) /\ x.s = w.s /\ x.ed = w.ed /\ x.run = w.run /\ x.mask = w.mask /\ ~x.ok
           /\ Good(w) => Good(x)
<1> DEFINE x == Fail(w)
<1>1. Worldly(x) /\ x.s = w.s /\ x.ed = w.ed /\ x.run = w.run /\ x.mask = w.mask /\ x.ok = FALSE
  BY DEF Fail, Worldly, WorldFields
<1> HIDE DEF x
<1>2. Good(w) => Good(x) BY <1>1 DEF Good
<1>3. Worldly(x) /\ x.s = w.s /\ x.ed = w.ed /\ x.run = w.run /\ x.mask = w.mask /\ ~x.ok BY <1>1
<1> QED BY <1>2, <1>3 DEF x

\* ed_save_local, over the RAM disk and then over KvFS.
SavedLocally(w, x, e) ==
    /\ Good(x) /\ Steps(w, x, LocalPlaces(w.s, w.ed[e].name))
    /\ Steady(w.ed[e], x.ed[e]) /\ x.ed[e].name = w.ed[e].name
    /\ w.ed[e].target.v = None => x.ed[e].target.v = None
    /\ x.ok => x.ed[e].target.v = None
    /\ ~x.ok => x.ed[e].doubt = w.ed[e].doubt /\ x.ed[e].named = w.ed[e].named

LEMMA WritesRam ==
    ASSUME EditorsSound, NEW w, Good(w), w.ok, NEW e \in Ed, Kept(w.ed[e]),
           NEW s \in RamWritten(w.s, w.ed[e].name, w.ed[e].t), s.r = 1
    PROVE  LET n == w.ed[e].name
               x == StorageChanged(Set([w EXCEPT !.s = s], e, [w.ed[e] EXCEPT !.ram = w.ed[e].rev]), e, n, Ram) IN
           /\ Good(x) /\ x.ok /\ x.s = s /\ x.ed[e] = [w.ed[e] EXCEPT !.ram = w.ed[e].rev]
           /\ Steps(w, x, LocalPlaces(w.s, n)) /\ x.s.kv = w.s.kv
<1> DEFINE E == w.ed[e]
           n == E.name
           F == [E EXCEPT !.ram = E.rev]
           x == StorageChanged(Set([w EXCEPT !.s = s], e, F), e, n, Ram)
<1>1. Worldly(w) /\ Doc(w.s, e, E) /\ Doc(w.s, Sibling(e), w.ed[Sibling(e)]) /\ IsStore(w.s) /\ Shaped(w.s.files)
  BY Siblings DEF Good, Worldly
<1>2. Usable(n) BY <1>1 DEF Doc
<1>3. Wrote(w.s, s, Ram, <<n>>) /\ s.kv = w.s.kv /\ s.gen = w.s.gen /\ s.files[Ram][<<n>>] = E.t
  BY <1>1, <1>2, RamWrote
<1>5. Doc(s, e, F) BY <1>1, <1>3, OwnRam
<1> HIDE DEF F, E
<1>6. /\ Worldly(x) /\ x.s = s /\ x.run = w.run /\ x.mask = w.mask /\ x.ok = w.ok
      /\ x.ed[e] = F /\ Doc(s, Sibling(e), x.ed[Sibling(e)]) BY <1>1, <1>3, AfterWrite
<1> HIDE DEF x
<1>7. Good(x) BY <1>5, <1>6, GoodBy
<1>8. \A k \in Media, q \in Paths : x.s.files[k][q] # w.s.files[k][q] => <<k, q>> \in LocalPlaces(w.s, n)
  BY <1>3, <1>6 DEF Wrote, LocalPlaces
<1>9. Steps(w, x, LocalPlaces(w.s, n)) BY <1>3, <1>6, <1>8 DEF Steps, Wrote
<1>10. Good(x) /\ x.ok /\ x.s = s /\ x.ed[e] = F /\ Steps(w, x, LocalPlaces(w.s, n)) /\ x.s.kv = w.s.kv
  BY <1>3, <1>6, <1>7, <1>9
<1> QED BY <1>10 DEF x, F, E

\* ... and over KvFS.
KvKept(E) == [E EXCEPT !.kv = E.rev, !.doubt = FALSE, !.imported = FALSE]
KvLost(E) == [E EXCEPT !.kv = -1]
KvThen(w, e, s) ==
    LET E == w.ed[e]
        to(F) == StorageChanged(Set([w EXCEPT !.s = s], e, F), e, E.name, Kv) IN
    IF s.r = 1 THEN Set(to(KvKept(E)), e, Stored(to(KvKept(E)).ed[e])) ELSE Fail(to(KvLost(E)))

WentKv(w, z, e, s) ==
    /\ Good(z) /\ z.s = s /\ Steps(w, z, LocalPlaces(w.s, w.ed[e].name))
    /\ s.r = 1 => z.ok = w.ok /\ z.ed[e] = Stored(KvKept(w.ed[e]))
    /\ s.r # 1 => ~z.ok /\ z.ed[e] = KvLost(w.ed[e])

LEMMA WritesKv ==
    ASSUME EditorsSound, NEW w, Good(w), NEW e \in Ed, Kept(w.ed[e]), w.s.kv,
           NEW s \in KvWritten(w.s, w.ed[e].name, w.ed[e].t)
    PROVE  WentKv(w, KvThen(w, e, s), e, s)
<1> DEFINE E == w.ed[e]
           n == E.name
           F == KvKept(E)
           G == KvLost(E)
           x == StorageChanged(Set([w EXCEPT !.s = s], e, F), e, n, Kv)
           y == StorageChanged(Set([w EXCEPT !.s = s], e, G), e, n, Kv)
           z == KvThen(w, e, s)
<1>0. z = IF s.r = 1 THEN Set(x, e, Stored(x.ed[e])) ELSE Fail(y) BY DEF KvThen
<1>1. Worldly(w) /\ Doc(w.s, e, E) /\ Doc(w.s, Sibling(e), w.ed[Sibling(e)]) /\ IsStore(w.s) /\ Shaped(w.s.files)
  BY Siblings DEF Good, Worldly
<1>2. Usable(n) BY <1>1 DEF Doc
<1>3. /\ Wrote(w.s, s, Kv, <<n>>) /\ (s.kv => w.s.kv)
      /\ s.r = 1 => s.files[Kv][<<n>>] = E.t BY <1>1, <1>2, KvWrote
<1>5. Doc(s, e, G) /\ (s.r = 1 => Doc(s, e, Stored(F))) BY <1>1, <1>3, OwnKv DEF KvKept, KvLost
<1>6. \A k \in Media, q \in Paths : s.files[k][q] # w.s.files[k][q] => <<k, q>> \in LocalPlaces(w.s, n)
  BY <1>3 DEF Wrote, LocalPlaces
<1> HIDE DEF F, G, E, z
<1>7. /\ Worldly(x) /\ x.s = s /\ x.run = w.run /\ x.mask = w.mask /\ x.ok = w.ok
      /\ x.ed[e] = F /\ Doc(s, Sibling(e), x.ed[Sibling(e)]) BY <1>1, <1>3, AfterWrite
<1>8. /\ Worldly(y) /\ y.s = s /\ y.run = w.run /\ y.mask = w.mask /\ y.ok = w.ok
      /\ y.ed[e] = G /\ Doc(s, Sibling(e), y.ed[Sibling(e)]) BY <1>1, <1>3, AfterWrite
<1> HIDE DEF x, y
<1>9. CASE s.r = 1
  <2> DEFINE u == Set(x, e, Stored(F))
  <2>1. z = u BY <1>0, <1>7, <1>9
  <2>2. Good(u) BY <1>5, <1>7, <1>9, GoodWith
  <2>3. u.s = x.s /\ u.run = x.run /\ u.mask = x.mask /\ u.ok = x.ok /\ u.ed[e] = Stored(F) BY <1>7, Sets
  <2> HIDE DEF u
  <2>4. Steps(w, z, LocalPlaces(w.s, n)) BY <1>3, <1>6, <1>7, <2>1, <2>3 DEF Steps, Wrote
  <2>5. Good(z) /\ z.s = s /\ Steps(w, z, LocalPlaces(w.s, n)) /\ z.ok = w.ok /\ z.ed[e] = Stored(F)
    BY <1>7, <2>1, <2>2, <2>3, <2>4
  <2> QED BY <1>9, <2>5 DEF z, x, y, F, G, E, WentKv
<1>10. CASE s.r # 1
  <2> DEFINE u == Fail(y)
  <2>1. z = u BY <1>0, <1>10
  <2>2. Good(y) BY <1>5, <1>8, GoodBy
  <2>3. Good(u) /\ u.s = y.s /\ u.run = y.run /\ u.mask = y.mask /\ ~u.ok /\ u.ed = y.ed BY <1>8, <2>2, Fails
  <2> HIDE DEF u
  <2>4. Steps(w, z, LocalPlaces(w.s, n)) BY <1>3, <1>6, <1>8, <2>1, <2>3 DEF Steps, Wrote
  <2>5. Good(z) /\ z.s = s /\ Steps(w, z, LocalPlaces(w.s, n)) /\ ~z.ok /\ z.ed[e] = G BY <1>8, <2>1, <2>3, <2>4
  <2> QED BY <1>10, <2>5 DEF z, x, y, F, G, E, WentKv
<1> QED BY <1>9, <1>10

LEMMA StepsTwice ==
    ASSUME NEW w, NEW x, NEW y, NEW P, IsStore(w.s), Steps(w, x, P), Steps(x, y, P)
    PROVE  Steps(w, y, P)
<1>1. Later(w.s, y.s) BY SMTT(40) DEF Steps, Later, IsStore
<1>2. ASSUME NEW m \in Media, NEW p \in Paths, y.s.files[m][p] # w.s.files[m][p] PROVE <<m, p>> \in P
  BY <1>2 DEF Steps
<1> QED BY <1>1, <1>2 DEF Steps

LEMMA SavesLocal ==
    ASSUME EditorsSound, NEW w, Good(w), w.ok, NEW e \in Ed, Kept(w.ed[e]), NEW z \in SaveLocal(w, e)
    PROVE  SavedLocally(w, z, e)
<1> DEFINE E == w.ed[e]
           n == E.name
           InRam(x) == StorageChanged([x EXCEPT !.ed[e].ram = x.ed[e].rev], e, n, Ram)
           InKv(x) ==
            IF x.s.r = 1
            THEN LET y == StorageChanged([x EXCEPT !.ed[e].kv = x.ed[e].rev, !.ed[e].doubt = FALSE, !.ed[e].imported = FALSE], e, n, Kv)
                 IN Set(y, e, Stored(y.ed[e]))
            ELSE Fail(StorageChanged([x EXCEPT !.ed[e].kv = -1], e, n, Kv))
           Then(x) ==
            IF x.s.r # 1 THEN {Fail(x)}
            ELSE LET y == InRam(x) IN
                 IF y.s.kv THEN {InKv(u) : u \in OnStore(y, KvWritten(y.s, n, y.ed[e].t))}
                 ELSE {Set(y, e, Stored([y.ed[e] EXCEPT !.kv = -1]))}
<1>1. z \in UNION {Then(x) : x \in OnStore(w, RamWritten(w.s, n, w.ed[e].t))} BY DEF SaveLocal
<1> HIDE DEF Then
<1>2. PICK s \in RamWritten(w.s, n, E.t) : z \in Then([w EXCEPT !.s = s]) BY <1>1, Zenon DEF OnStore
<1> USE DEF Then
<1> DEFINE x == [w EXCEPT !.s = s]
<1>3. Worldly(w) /\ IsStore(w.s) /\ Shaped(w.s.files) /\ Doc(w.s, e, E) BY DEF Good, Worldly
<1>4. /\ Wrote(w.s, s, Ram, <<n>>) /\ s.kv = w.s.kv /\ s.gen = w.s.gen /\ s.rw = w.s.rw
      /\ s.r # 1 => s.files = w.s.files BY <1>3, RamWrote
<1>5. IsStore(s) /\ Shaped(s.files) /\ s.tab = w.s.tab /\ Later(w.s, s) BY <1>4 DEF Wrote, Later
<1>6. /\ Worldly(x) /\ x.s = s /\ x.ed = w.ed /\ x.run = w.run /\ x.mask = w.mask /\ x.ok = w.ok
  BY <1>3, <1>5, OnStores
<1>7. DOMAIN E = DocFields BY <1>3 DEF Doc
<1>8. CASE s.r # 1
  <2> DEFINE u == Fail(x)
  <2>1. z = u BY <1>2, <1>6, <1>8
  <2>2. \A o \in Ed : Doc(x.s, o, x.ed[o]) BY <1>3, <1>4, <1>5, <1>6, <1>8, SameFiles DEF Good
  <2>3. Good(x) BY <1>6, <2>2 DEF Good
  <2>4. Good(u) /\ u.s = s /\ u.ed = w.ed /\ u.run = w.run /\ u.mask = w.mask /\ ~u.ok BY <1>6, <2>3, Fails
  <2> HIDE DEF u, x
  <2>5. Steps(w, u, LocalPlaces(w.s, n)) BY <1>4, <1>5, <1>8, <2>4 DEF Steps
  <2> QED BY <2>1, <2>4, <2>5 DEF SavedLocally, Steady
<1>9. CASE s.r = 1
  <2> DEFINE F == [E EXCEPT !.ram = E.rev]
             y == StorageChanged(Set(x, e, F), e, n, Ram)
  <2>1. InRam(x) = y BY <1>6 DEF Set
  <2>2. /\ Good(y) /\ y.ok /\ y.s = s /\ y.ed[e] = F
        /\ Steps(w, y, LocalPlaces(w.s, n)) /\ y.s.kv = w.s.kv BY <1>9, WritesRam
  <2>3. /\ Steady(E, F) /\ F.name = n /\ F.target = E.target /\ F.imported = E.imported
        /\ F.doubt = E.doubt /\ F.named = E.named /\ DOMAIN F = DocFields BY <1>7 DEF Steady, DocFields
  <2>4. z \in IF y.s.kv THEN {InKv(u) : u \in OnStore(y, KvWritten(y.s, n, y.ed[e].t))}
              ELSE {Set(y, e, Stored([y.ed[e] EXCEPT !.kv = -1]))} BY <1>2, <1>6, <1>9, <2>1
  <2>5. Worldly(y) /\ Doc(y.s, e, F) /\ Doc(y.s, Sibling(e), y.ed[Sibling(e)]) BY <2>2, Siblings DEF Good
  <2> HIDE DEF F, y, x, InRam, Then
  <2>6. LocalPlaces(y.s, n) = LocalPlaces(w.s, n) BY <2>2 DEF LocalPlaces
  <2>7. CASE y.s.kv
    <3>1. PICK k \in KvWritten(y.s, n, y.ed[e].t) : z = InKv([y EXCEPT !.s = k]) BY <2>4, <2>7 DEF OnStore
    <3> DEFINE u == [y EXCEPT !.s = k]
               c == KvThen(y, e, k)
               G == Stored(KvKept(F))
               H == KvLost(F)
    <3>2. u.s = k /\ u.ed = y.ed BY <2>5 DEF Worldly, WorldFields
    <3>3. /\ [u EXCEPT !.ed[e].kv = u.ed[e].rev, !.ed[e].doubt = FALSE, !.ed[e].imported = FALSE] = Set(u, e, KvKept(F))
          /\ [u EXCEPT !.ed[e].kv = -1] = Set(u, e, H)
      BY <2>2, <2>3, <2>5, <3>2, ZenonT(60) DEF Set, Worldly, WorldFields, KvKept, KvLost
    <3>4. y.ed[e].name = n /\ y.ed[e] = F BY <2>2, <2>3
    <3>5. z = c BY <3>1, <3>2, <3>3, <3>4 DEF InKv, KvThen
    <3>6. Kept(y.ed[e]) BY <2>2, <2>3 DEF Kept
    <3>7. /\ Good(c) /\ c.s = k /\ Steps(y, c, LocalPlaces(y.s, n))
          /\ k.r = 1 => c.ok = y.ok /\ c.ed[e] = G
          /\ k.r # 1 => ~c.ok /\ c.ed[e] = H
      <4>1. k \in KvWritten(y.s, y.ed[e].name, y.ed[e].t) BY <3>1, <3>4
      <4>2. WentKv(y, KvThen(y, e, k), e, k) BY <2>2, <2>7, <3>6, <4>1, WritesKv
      <4> QED BY <3>4, <4>2 DEF WentKv
    <3>8. /\ Steady(F, G) /\ G.name = n /\ G.target.v = None
          /\ Steady(F, H) /\ H.name = n /\ H.target = F.target /\ H.doubt = F.doubt /\ H.named = F.named
      BY <2>3 DEF Steady, Stored, DocFields, NoTarget, KvKept, KvLost
    <3> HIDE DEF u, G, H, c
    <3>9. Steps(w, c, LocalPlaces(w.s, n)) BY <1>3, <2>2, <2>6, <3>7, StepsTwice
    <3> QED BY <2>2, <2>3, <3>5, <3>7, <3>8, <3>9, ZenonT(60) DEF SavedLocally, Steady
  <2>8. CASE ~y.s.kv
    <3> DEFINE G == Stored([F EXCEPT !.kv = -1])
               c == Set(y, e, G)
    <3>1. z = c BY <2>2, <2>4, <2>8
    <3>2. Doc(y.s, e, G) BY <2>5, OwnStored
    <3>3. Good(c) BY <2>5, <3>2, GoodWith
    <3>4. c.s = y.s /\ c.run = y.run /\ c.mask = y.mask /\ c.ok = y.ok /\ c.ed[e] = G BY <2>5, Sets
    <3>5. Steady(F, G) /\ G.name = n /\ G.target.v = None BY <2>3 DEF Steady, Stored, DocFields, NoTarget
    <3> HIDE DEF G, c
    <3>6. Steps(w, c, LocalPlaces(w.s, n)) BY <2>2, <3>4 DEF Steps
    <3> QED BY <2>2, <2>3, <3>1, <3>3, <3>4, <3>5, <3>6 DEF SavedLocally, Steady
  <2> QED BY <2>7, <2>8
<1> QED BY <1>8, <1>9

-----------------------------------------------------------------------------
\* ed_save_target: what the editor that saves has then.
NamedFor(E, alias, n, m) ==
    IF ~alias THEN E
    ELSE LET F == IF E.name # n THEN [E EXCEPT !.ram = -1, !.kv = -1, !.name = n] ELSE E IN
         IF m = Ram THEN [F EXCEPT !.ram = F.rev] ELSE [F EXCEPT !.kv = F.rev]
TargetOf(E, v, p, gen, on) == [v |-> v, p |-> p, gen |-> gen, rev |-> E.rev, on |-> on]
BoundTo(E, m, v, p, gen, on) ==
    [Stored(E) EXCEPT !.target = [v |-> v, p |-> p, gen |-> gen, rev |-> E.rev, on |-> on],
                      !.imported = E.imported /\ m = Ram]
ToTarget(E, alias, m, v, p, gen, on) == BoundTo(NamedFor(E, alias, Last(p), m), m, v, p, gen, on)

Binding == {"save", "overwrite", "delete"}

LEMMA FlatPath ==
    ASSUME EditorsSound, NEW s, NEW m, Flat(m), NEW p \in Paths, ParentIsDir(s, m, p)
    PROVE  p = <<Last(p)>>
<1>1. p \in Seq(Names) /\ p # <<>> BY DEF EditorsSound
<1>2. Front(p) = <<>> BY DEF ParentIsDir, IsDir
<1>3. \A i \in 1 .. Len(p) : p[i] \in Names BY <1>1, LenProperties
<1>4. Len(p) = 1
  <2>1. PICK k \in Nat \ {0} : k = Len(p) BY <1>1, EmptySeq
  <2> DEFINE n == k - 1
  <2>2. n \in Int /\ \A i \in 1 .. n : p[i] \in Names BY <1>3, <2>1
  <2>3. Front(p) = SubSeq(p, 1, n) BY <2>1 DEF Front
  <2> HIDE DEF n
  <2>4. Len(SubSeq(p, 1, n)) = IF 1 <= n THEN n - 1 + 1 ELSE 0 BY <2>2, SubSeqProperties
  <2>5. Len(SubSeq(p, 1, n)) = 0 BY <1>2, <2>3, EmptySeq, Zenon
  <2>6. n <= 0 BY <2>2, <2>4, <2>5
  <2>7. k = 1 BY <2>6 DEF n
  <2> QED BY <2>1, <2>7
<1>5. p = <<p[1]>> BY <1>1, <1>4
<1> QED BY <1>4, <1>5 DEF Last

LEMMA OwnTarget ==
    ASSUME EditorsSound, NEW s, IsStore(s), OneEach(s.tab), NEW e \in Ed, NEW E, Doc(s, e, E), E.mode \notin Binding,
           NEW v, Mounted(s, v), NEW p \in Paths, NEW gen, NEW on, KnownAs(s, [v |-> v, gen |-> gen, on |-> on]), gen = s.gen,
           NEW o, Wrote(s, o, MediumAt(s, v), p), o.gen = s.gen, o.files[MediumAt(s, v)][p] = E.t,
           Flat(MediumAt(s, v)) => p = <<Last(p)>>
    PROVE  LET m == MediumAt(s, v)
               n == Last(p)
               alias == Flat(m) /\ (e = "note" \/ n \in DevNames)
               G == ToTarget(E, alias, m, v, p, gen, on) IN
           Doc(o, e, G) /\ Steady(E, G) /\ G.target = TargetOf(E, v, p, gen, on)
<1> DEFINE m == MediumAt(s, v)
           n == Last(p)
           alias == Flat(m) /\ (e = "note" \/ n \in DevNames)
           T == TargetOf(E, v, p, gen, on)
           G == ToTarget(E, alias, m, v, p, gen, on)
           F == [E EXCEPT !.ram = IF m = Ram /\ E.name = n THEN -1 ELSE @,
                          !.kv = IF m = Kv /\ E.name = n THEN -1 ELSE @,
                          !.target = NoTarget]
<1>1. DOMAIN E = DocFields /\ Usable(E.name) /\ (e = "dev" => E.name \in DevNames) BY DEF Doc
<1>2. /\ DOMAIN T = TargetFields /\ T.v = v /\ T.p = p /\ T.gen = gen /\ T.on = on /\ T.rev = E.rev
  BY DEF TargetFields, TargetOf
<1> HIDE DEF m, n, T
<1>3. /\ DOMAIN F = DocFields /\ F.t = E.t /\ F.rev = E.rev /\ F.serial = E.serial /\ F.older = E.older
      /\ F.name = E.name /\ F.named = E.named /\ F.imported = E.imported /\ F.doubt = E.doubt
      /\ F.mode = E.mode /\ F.pending = E.pending /\ F.nameIn = E.nameIn /\ F.pick = E.pick
      /\ F.ram = (IF m = Ram /\ E.name = n THEN -1 ELSE E.ram)
      /\ F.kv = (IF m = Kv /\ E.name = n THEN -1 ELSE E.kv) /\ F.target.v = None BY <1>1 DEF DocFields, NoTarget
<1>4. /\ DOMAIN G = DocFields /\ G.t = E.t /\ G.rev = E.rev /\ G.serial = E.serial /\ G.older = E.older
      /\ G.named /\ G.doubt = E.doubt
      /\ G.mode = E.mode /\ G.pending = E.pending /\ G.nameIn = E.nameIn /\ G.pick = E.pick
      /\ G.target = T /\ (G.imported => m = Ram)
  BY <1>1, ZenonT(60) DEF DocFields, ToTarget, BoundTo, NamedFor, TargetOf, Stored, T
<1>5. /\ G.name = (IF alias THEN n ELSE E.name)
      /\ G.ram = (IF alias /\ m = Ram THEN E.rev ELSE IF alias /\ E.name # n THEN -1 ELSE E.ram)
      /\ G.kv = (IF alias /\ m # Ram THEN E.rev ELSE IF alias /\ E.name # n THEN -1 ELSE E.kv)
  BY <1>1 DEF DocFields, ToTarget, BoundTo, NamedFor, Stored, n
<1> HIDE DEF F, G
<1>6. Warned(E, F) BY <1>3 DEF Warned
<1>7. Later(s, o) /\ \A k \in Media, q \in Paths : o.files[k][q] # s.files[k][q] => k = m /\ q = p BY DEF Wrote, m
<1>8. Ram # Kv /\ Ram \in Media /\ Kv \in Media BY DEF EditorsSound, VolumesSound, Media
<1>9. m \in {Ram, Kv} <=> Flat(m) BY DEF Flat
<1>10. Flat(m) => p = <<n>> BY DEF m, n
<1>11. Spared(s, o, F) BY <1>1, <1>3, <1>7, <1>8, <1>9, <1>10 DEF Spared, Reaches, Usable
<1>12. Doc(o, e, F) BY <1>6, <1>7, <1>11, StillTrue
<1>13. o.files[m][p] = E.t BY DEF m
<1>14. Usable(G.name) /\ (e = "dev" => G.name \in DevNames) BY <1>1, <1>5, <1>10 DEF Usable
<1>15. Flat(m) /\ E.name = n => alias BY <1>1 DEF Ed
<1>16. \/ G.ram = -1
       \/ G.ram = F.ram /\ G.name = F.name
       \/ G.ram = F.rev /\ o.files[Ram][<<G.name>>] = F.t BY <1>3, <1>5, <1>8, <1>9, <1>10, <1>13, <1>15
<1>17. \/ G.kv = -1
       \/ G.kv = F.kv /\ G.name = F.name /\ (F.doubt => G.doubt)
       \/ G.kv = F.rev /\ o.files[Kv][<<G.name>>] = F.t BY <1>3, <1>4, <1>5, <1>8, <1>9, <1>10, <1>13, <1>15
<1>18. Mounted(o, v) /\ MediumAt(o, v) = m BY <1>7 DEF Later, Mounted, MediumAt, m
<1>19. KnownAs(o, T) BY <1>2, <1>18 DEF KnownAs, m
<1>20. Bound(o, G)
  <2>1. on = m BY DEF KnownAs, m
  <2> QED BY <1>2, <1>4, <1>19, <2>1 DEF Bound
<1>21. G.target.rev = F.rev /\ o.files[MediumAt(o, G.target.v)][G.target.p] = F.t BY <1>2, <1>3, <1>4, <1>13, <1>18
<1>22. Asked(o, e, G) BY <1>3, <1>4, <1>12 DEF Asked, Doc, Binding
<1>23. Doc(o, e, G) BY <1>3, <1>4, <1>12, <1>14, <1>16, <1>17, <1>20, <1>21, <1>22, Resaved
<1>24. Steady(E, G) BY <1>4 DEF Steady
<1>25. Doc(o, e, G) /\ Steady(E, G) /\ G.target = T BY <1>4, <1>23, <1>24
<1> QED BY <1>25 DEF G, T, m, n

Uncertain(s, o, v, p, E) ==
    IF MediumAt(s, v) = Kv /\ o.gen # s.gen THEN [E EXCEPT !.doubt = @ \/ E.name = Last(p)] ELSE E

\* A write through the table failed: no save would reach a destination on a
\* FAT volume that may hold either text, and of KvFS the editors with that
\* name are in doubt.
LEMMA StillAfterFailure ==
    ASSUME EditorsSound, NEW s, IsStore(s), Shaped(s.files), OneEach(s.tab), NEW v, NEW p \in Paths, NEW c,
           NEW o \in VfsWrite(s, v, p, c), o.r # 1, NEW e \in Ed, NEW E, Doc(s, e, E)
    PROVE  Doc(o, e, Uncertain(s, o, v, p, E))
<1> DEFINE m == MediumAt(s, v)
           n == Last(p)
           F == [E EXCEPT !.doubt = @ \/ E.name = n]
<1>1. /\ Wrote(s, o, m, p)
      /\ o.files # s.files => May(s, v) /\ ParentIsDir(s, m, p)
      /\ o.files # s.files => (m = Kv /\ o.gen # s.gen) \/ (m \in FatMedia /\ m \notin o.rw) BY TableWrote
<1>2. Later(s, o) /\ \A k \in Media, q \in Paths : o.files[k][q] # s.files[k][q] => k = m /\ q = p BY <1>1 DEF Wrote
<1>3. DOMAIN E = DocFields /\ Usable(E.name) BY DEF Doc
<1>4. Warned(E, F) /\ Warned(E, E) /\ F.name = E.name /\ F.target = E.target /\ (E.name = n => F.doubt)
  BY <1>3 DEF Warned, DocFields
<1>5. m \in Media \/ o.files = s.files BY <1>1, Natives DEF May
<1>6. Flat(m) /\ o.files # s.files => p = <<n>> BY <1>1, FlatPath
<1>7. Ram # Kv /\ Ram \in Media /\ Kv \in Media /\ Ram \notin FatMedia /\ Kv \notin FatMedia
  BY DEF EditorsSound, VolumesSound, Media
<1> HIDE DEF m, F, n
<1>8. CASE o.files = s.files
  <2>2. Doc(o, e, E) /\ Doc(o, e, F)
    <3>1. Spared(s, o, E) /\ Spared(s, o, F) BY <1>8 DEF Spared
    <3> QED BY <1>2, <1>4, <3>1, StillTrue
  <2> QED BY <2>2 DEF F, m, n, Uncertain
<1>9. CASE o.files # s.files /\ m = Kv /\ o.gen # s.gen
  <2>1. Flat(m) BY <1>9 DEF Flat
  <2>2. o.files[Ram][<<F.name>>] = s.files[Ram][<<F.name>>] BY <1>2, <1>3, <1>4, <1>7, <1>9 DEF Usable
  <2>3. F.doubt \/ o.files[Kv][<<F.name>>] = s.files[Kv][<<F.name>>]
    BY <1>2, <1>3, <1>4, <1>6, <1>7, <1>9, <2>1 DEF Usable
  <2>4. ~Reaches(o, F)
    <3>1. o.gen > s.gen /\ o.gen \in Nat /\ s.gen \in Nat BY <1>2, <1>9 DEF Later, IsStore
    <3>2. E.target.v # None => E.target.gen \in Nat /\ E.target.gen <= s.gen BY DEF Doc, Bound, KnownAs
    <3> QED BY <1>4, <3>1, <3>2 DEF Reaches
  <2>5. Spared(s, o, F) BY <2>2, <2>3, <2>4 DEF Spared
  <2>6. Doc(o, e, F) BY <1>2, <1>4, <2>5, StillTrue
  <2> QED BY <1>9, <2>6 DEF F, m, n, Uncertain
<1>10. CASE o.files # s.files /\ m \in FatMedia /\ m \notin o.rw
  <2>1. o.files[Ram][<<E.name>>] = s.files[Ram][<<E.name>>] BY <1>2, <1>3, <1>7, <1>10 DEF Usable
  <2>2. o.files[Kv][<<E.name>>] = s.files[Kv][<<E.name>>] BY <1>2, <1>3, <1>7, <1>10 DEF Usable
  <2>3. ASSUME Reaches(o, E)
        PROVE  o.files[MediumAt(s, E.target.v)][E.target.p] = s.files[MediumAt(s, E.target.v)][E.target.p]
    <3>1. Mounted(s, E.target.v) /\ MediumAt(o, E.target.v) = MediumAt(s, E.target.v) /\ E.target.v # None
          /\ MediumAt(o, E.target.v) \in o.rw BY <1>2, <2>3 DEF Reaches, VfsWritable, Mounted, MediumAt, Later
    <3>2. MediumAt(s, E.target.v) \in Media BY <3>1, Natives
    <3>3. E.target.p \in Paths BY <3>1 DEF Doc, Bound
    <3> QED BY <1>2, <1>10, <3>1, <3>2, <3>3
  <2>4. Spared(s, o, E) BY <2>1, <2>2, <2>3 DEF Spared
  <2>5. Doc(o, e, E) BY <1>2, <1>4, <2>4, StillTrue
  <2>6. m # Kv BY <1>7, <1>10
  <2> QED BY <2>5, <2>6 DEF m, Uncertain
<1> QED BY <1>1, <1>8, <1>9, <1>10

InDoubt(w, x, n) ==
    /\ Worldly(x) /\ x.s = w.s /\ x.run = w.run /\ x.mask = w.mask /\ x.ok = w.ok
    /\ \A o \in Ed : x.ed[o] = [w.ed[o] EXCEPT !.doubt = @ \/ w.ed[o].name = n]

LEMMA Doubts == ASSUME NEW w, Worldly(w), NEW n PROVE InDoubt(w, Doubted(w, n), n)
BY DEF InDoubt, Doubted, Worldly, WorldFields

SavedTo(w, z, e, v, p, gen, on) ==
    /\ Good(z) /\ Steps(w, z, {<<MediumAt(w.s, v), p>>}) /\ Steady(w.ed[e], z.ed[e])
    /\ z.ok \/ z.s.files # w.s.files => Live(w, v, gen) /\ May(w.s, v)
    /\ z.ok => z.s.gen = w.s.gen /\ z.ed[e].target = TargetOf(w.ed[e], v, p, gen, on)

\* ed_save_target when the write failed, and when it succeeded.
FailTo(w, x, v, p) ==
    Fail(IF MediumAt(w.s, v) = Kv /\ x.s.gen # w.s.gen THEN Doubted(x, Last(p)) ELSE x)
ThenTo(w, x, e, v, p, gen, on) ==
    LET m == MediumAt(w.s, v)
        n == Last(p)
        y == IF Flat(m) THEN StorageChanged(x, e, n, m) ELSE x
        alias == Flat(m) /\ (e = "note" \/ n \in DevNames)
        u == TargetChanged(Set(y, e, NamedFor(y.ed[e], alias, n, m)), e, v, p) IN
    Set(u, e, BoundTo(u.ed[e], m, v, p, gen, on))

LEMMA SaveTargetIs ==
    ASSUME NEW w, NEW e, NEW v, NEW p, NEW gen, NEW on, NEW z \in SaveTarget(w, e, v, p, gen, on)
    PROVE  \/ z = Fail(w)
           \/ /\ Live(w, v, gen)
              /\ \E x \in OnStore(w, VfsWrite(w.s, v, p, w.ed[e].t)) :
                    z = IF x.s.r = 1 THEN ThenTo(w, x, e, v, p, gen, on) ELSE FailTo(w, x, v, p)
BY DEF SaveTarget, ThenTo, FailTo, NamedFor, BoundTo

LEMMA SaveTargetFails ==
    ASSUME EditorsSound, NEW w, Good(w), NEW e \in Ed, NEW v, NEW p \in Paths, NEW gen, NEW on, Live(w, v, gen),
           NEW s \in VfsWrite(w.s, v, p, w.ed[e].t), s.r # 1
    PROVE  SavedTo(w, FailTo(w, [w EXCEPT !.s = s], v, p), e, v, p, gen, on)
<1> DEFINE m == MediumAt(w.s, v)
           n == Last(p)
           x == [w EXCEPT !.s = s]
           y == IF m = Kv /\ s.gen # w.s.gen THEN Doubted(x, n) ELSE x
           z == Fail(y)
           U(E) == Uncertain(w.s, s, v, p, E)
<1>1. Worldly(w) /\ IsStore(w.s) /\ Shaped(w.s.files) /\ OneEach(w.s.tab) BY DEF Good, Worldly
<1>2. /\ Wrote(w.s, s, m, p) /\ (s.kv => w.s.kv \/ s.gen = w.s.gen)
      /\ s.files # w.s.files => May(w.s, v) BY <1>1, TableWrote
<1>3. Later(w.s, s) /\ \A k \in Media, q \in Paths : s.files[k][q] # w.s.files[k][q] => k = m /\ q = p
  BY <1>2 DEF Wrote
<1>4. IsStore(s) /\ Shaped(s.files) /\ s.tab = w.s.tab BY <1>3 DEF Later
<1>5. /\ Worldly(x) /\ x.s = s /\ x.ed = w.ed /\ x.run = w.run /\ x.mask = w.mask /\ x.ok = w.ok
  BY <1>1, <1>4, OnStores
<1>6. ASSUME NEW o \in Ed PROVE Doc(s, o, U(w.ed[o])) /\ DOMAIN w.ed[o] = DocFields
  <2>1. Doc(w.s, o, w.ed[o]) BY DEF Good
  <2>2. Doc(s, o, Uncertain(w.s, s, v, p, w.ed[o])) BY <1>1, <2>1, StillAfterFailure
  <2> QED BY <2>1, <2>2 DEF Doc
<1>7. s.kv => w.s.kv
  <2>1. /\ Outcome(w.s, s, m, Put(w.s, m, p, w.ed[e].t)) BY <1>1, Writes
  <2> QED BY <2>1 DEF Outcome
<1> HIDE DEF x, n, m, U
<1>8. Worldly(y) /\ y.s = s /\ y.run = w.run /\ y.mask = w.mask /\ \A o \in Ed : y.ed[o] = U(w.ed[o])
  <2>1. CASE m = Kv /\ s.gen # w.s.gen
    <3>1. \A o \in Ed : U(w.ed[o]) = [w.ed[o] EXCEPT !.doubt = @ \/ w.ed[o].name = n] BY <2>1 DEF U, Uncertain, m, n
    <3>2. /\ Worldly(Doubted(x, n)) /\ Doubted(x, n).s = x.s
          /\ Doubted(x, n).run = x.run /\ Doubted(x, n).mask = x.mask
          /\ \A o \in Ed : Doubted(x, n).ed[o] = [x.ed[o] EXCEPT !.doubt = @ \/ x.ed[o].name = n]
      <4>1. InDoubt(x, Doubted(x, n), n) BY <1>5, Doubts
      <4> QED BY <4>1 DEF InDoubt
    <3>3. y = Doubted(x, n) BY <2>1
    <3>4. ASSUME NEW o \in Ed PROVE y.ed[o] = U(w.ed[o])
      <4>1. w.ed[o] = x.ed[o] BY <1>5
      <4> HIDE DEF y, U
      <4>2. y.ed[o] = Doubted(x, n).ed[o] BY <3>3
      <4>3. Doubted(x, n).ed[o] = [x.ed[o] EXCEPT !.doubt = @ \/ x.ed[o].name = n] BY <3>2
      <4>4. U(w.ed[o]) = [w.ed[o] EXCEPT !.doubt = @ \/ w.ed[o].name = n] BY <3>1
      <4>5. U(w.ed[o]) = [x.ed[o] EXCEPT !.doubt = @ \/ x.ed[o].name = n] BY <4>1, <4>4
      <4> HIDE DEF x, n
      <4> QED BY <4>2, <4>3, <4>5
    <3> HIDE DEF y, U
    <3> QED BY <1>5, <3>2, <3>3, <3>4
  <2>2. CASE ~(m = Kv /\ s.gen # w.s.gen)
    <3>1. \A o \in Ed : U(w.ed[o]) = w.ed[o] BY <2>2 DEF U, Uncertain, m
    <3> QED BY <1>5, <2>2, <3>1
  <2> QED BY <2>1, <2>2
<1>9. FailTo(w, x, v, p) = z BY <1>5 DEF FailTo, m, n
<1> HIDE DEF y
<1>10. \A o \in Ed : Doc(y.s, o, y.ed[o]) BY <1>6, <1>8
<1>11. Good(y) BY <1>8, <1>10 DEF Good
<1>12. Good(z) /\ z.s = y.s /\ z.ed = y.ed /\ z.run = y.run /\ z.mask = y.mask /\ ~z.ok BY <1>8, <1>11, Fails
<1> HIDE DEF z
<1>13. Steps(w, z, {<<m, p>>}) BY <1>3, <1>7, <1>8, <1>12 DEF Steps
<1>14. Steady(w.ed[e], z.ed[e])
  <2>1. ASSUME NEW E, DOMAIN E = DocFields PROVE Steady(E, U(E)) BY <2>1 DEF Steady, DocFields, U, Uncertain
  <2>2. z.ed[e] = U(w.ed[e]) BY <1>8, <1>12
  <2> QED BY <1>6, <2>1, <2>2
<1>15. SavedTo(w, z, e, v, p, gen, on) BY <1>2, <1>8, <1>12, <1>13, <1>14 DEF SavedTo, m
<1> QED BY <1>9, <1>15 DEF x

LEMMA SaveTargetDone ==
    ASSUME EditorsSound, NEW w, Good(w), NEW e \in Ed, w.ed[e].mode \notin Binding,
           NEW v, NEW p \in Paths, NEW gen, NEW on, KnownAs(w.s, [v |-> v, gen |-> gen, on |-> on]), Live(w, v, gen),
           NEW s \in VfsWrite(w.s, v, p, w.ed[e].t), s.r = 1
    PROVE  SavedTo(w, ThenTo(w, [w EXCEPT !.s = s], e, v, p, gen, on), e, v, p, gen, on)
<1> DEFINE m == MediumAt(w.s, v)
           n == Last(p)
           o == Sibling(e)
           E == w.ed[e]
           x == [w EXCEPT !.s = s]
           y == IF Flat(m) THEN StorageChanged(x, e, n, m) ELSE x
           alias == Flat(m) /\ (e = "note" \/ n \in DevNames)
           R == NamedFor(E, alias, n, m)
           a == Set(y, e, R)
           u == TargetChanged(a, e, v, p)
           T == TargetOf(E, v, p, gen, on)
           G == ToTarget(E, alias, m, v, p, gen, on)
           z == Set(u, e, G)
<1>1. Worldly(w) /\ IsStore(w.s) /\ Shaped(w.s.files) /\ OneEach(w.s.tab) /\ Doc(w.s, e, E) /\ Doc(w.s, o, w.ed[o])
  BY Siblings DEF Good, Worldly
<1>2. /\ Wrote(w.s, s, m, p) /\ s.gen = w.s.gen /\ s.kv = w.s.kv /\ May(w.s, v) /\ ParentIsDir(w.s, m, p)
      /\ m \in Media => s.files[m][p] = E.t BY <1>1, TableWrote
<1>3. Mounted(w.s, v) BY <1>2 DEF May
<1>4. m \in Media BY <1>1, <1>3, Natives
<1>5. Flat(m) => p = <<n>> BY <1>2, FlatPath
<1>6. Later(w.s, s) /\ \A k \in Media, q \in Paths : s.files[k][q] # w.s.files[k][q] => k = m /\ q = p
  BY <1>2 DEF Wrote
<1>7. IsStore(s) /\ Shaped(s.files) /\ s.tab = w.s.tab BY <1>6 DEF Later
<1>8. /\ Worldly(x) /\ x.s = s /\ x.ed = w.ed /\ x.run = w.run /\ x.mask = w.mask /\ x.ok = w.ok
  BY <1>1, <1>7, OnStores
<1>9. /\ Doc(s, e, G) /\ Steady(E, G) /\ G.target = T BY <1>1, <1>2, <1>3, <1>4, <1>5, OwnTarget DEF Live
<1>10. o \in Ed /\ o # e BY Siblings
<1>11. G = BoundTo(R, m, v, p, gen, on) BY DEF ToTarget
<1> HIDE DEF G, T, R, m, n, E
<1>12. /\ Worldly(y) /\ y.s = s /\ y.run = w.run /\ y.mask = w.mask /\ y.ok = w.ok /\ y.ed[e] = E
       /\ IF Flat(m) THEN Doc(s, o, y.ed[o]) ELSE Doc(w.s, o, y.ed[o])
  <2>1. CASE Flat(m)
    <3>1. m \in {Ram, Kv} /\ Wrote(w.s, x.s, m, <<n>>) /\ y = StorageChanged(x, e, n, m) BY <1>2, <1>5, <1>8, <2>1 DEF Flat
    <3>2. Aside(x, StorageChanged(x, e, n, m), e) /\ Doc(x.s, o, StorageChanged(x, e, n, m).ed[o])
      BY <1>1, <1>8, <3>1, Informs
    <3> QED BY <1>8, <2>1, <3>1, <3>2 DEF Aside, E
  <2>2. CASE ~Flat(m) BY <1>1, <1>8, <2>2 DEF E
  <2> QED BY <2>1, <2>2
<1> HIDE DEF x, y
<1>13. /\ Worldly(a) /\ a.s = s /\ a.run = w.run /\ a.mask = w.mask /\ a.ok = w.ok
       /\ a.ed[e] = R /\ a.ed[o] = y.ed[o] BY <1>10, <1>12, Sets
<1> HIDE DEF a
<1>14. Aside(a, u, e) /\ Doc(s, o, u.ed[o])
  <2>1. Wrote(w.s, a.s, MediumAt(w.s, v), p) BY <1>2, <1>13 DEF m
  <2>2. IF Flat(MediumAt(w.s, v)) THEN Doc(a.s, Sibling(e), a.ed[Sibling(e)]) ELSE Doc(w.s, Sibling(e), a.ed[Sibling(e)])
    BY <1>12, <1>13 DEF m
  <2>3. Aside(a, u, e) /\ Doc(a.s, o, u.ed[o]) BY <1>1, <1>3, <1>13, <2>1, <2>2, InformsTarget
  <2> QED BY <1>13, <2>3
<1> HIDE DEF u
<1>15. /\ Worldly(u) /\ u.s = s /\ u.run = w.run /\ u.mask = w.mask /\ u.ok = w.ok /\ u.ed[e] = R
  BY <1>13, <1>14 DEF Aside
<1>16. Good(z) BY <1>9, <1>14, <1>15, GoodWith
<1>17. z.s = s /\ z.run = w.run /\ z.mask = w.mask /\ z.ed[e] = G BY <1>15, Sets
<1> HIDE DEF z, o
<1>18. Steps(w, z, {<<m, p>>}) BY <1>2, <1>6, <1>17 DEF Steps
<1>19. SavedTo(w, z, e, v, p, gen, on) BY <1>2, <1>9, <1>16, <1>17, <1>18 DEF SavedTo, T, m, E
<1>20. ThenTo(w, x, e, v, p, gen, on) = z
  <2>1. y = IF Flat(m) THEN StorageChanged(x, e, n, m) ELSE x BY DEF y
  <2>2. a = Set(y, e, NamedFor(y.ed[e], alias, n, m)) BY <1>12 DEF a, R
  <2>3. u = TargetChanged(a, e, v, p) BY DEF u
  <2>4. z = Set(u, e, BoundTo(u.ed[e], m, v, p, gen, on)) BY <1>11, <1>15 DEF z
  <2> QED BY <2>1, <2>2, <2>3, <2>4, Zenon DEF ThenTo, m, n
<1> QED BY <1>19, <1>20 DEF x

LEMMA SavesTarget ==
    ASSUME EditorsSound, NEW w, Good(w), NEW e \in Ed, w.ed[e].mode \notin Binding,
           NEW v, NEW p \in Paths, NEW gen, NEW on, KnownAs(w.s, [v |-> v, gen |-> gen, on |-> on]),
           NEW z \in SaveTarget(w, e, v, p, gen, on)
    PROVE  SavedTo(w, z, e, v, p, gen, on)
<1>1. Worldly(w) BY DEF Good
<1>2. CASE z = Fail(w)
  <2>1. Good(z) /\ z.s = w.s /\ z.ed = w.ed /\ z.run = w.run /\ z.mask = w.mask /\ ~z.ok BY <1>1, <1>2, Fails
  <2>2. Steps(w, z, {<<MediumAt(w.s, v), p>>}) BY <1>1, <2>1 DEF Steps, Later, Worldly, IsStore
  <2> QED BY <2>1, <2>2 DEF SavedTo, Steady
<1>3. CASE Live(w, v, gen) /\ \E x \in OnStore(w, VfsWrite(w.s, v, p, w.ed[e].t)) :
            z = IF x.s.r = 1 THEN ThenTo(w, x, e, v, p, gen, on) ELSE FailTo(w, x, v, p)
  <2>1. PICK s \in VfsWrite(w.s, v, p, w.ed[e].t) :
            z = IF [w EXCEPT !.s = s].s.r = 1 THEN ThenTo(w, [w EXCEPT !.s = s], e, v, p, gen, on)
                ELSE FailTo(w, [w EXCEPT !.s = s], v, p) BY <1>3 DEF OnStore
  <2>2. [w EXCEPT !.s = s].s = s BY <1>1 DEF Worldly, WorldFields
  <2>3. CASE s.r = 1
    <3>1. SavedTo(w, ThenTo(w, [w EXCEPT !.s = s], e, v, p, gen, on), e, v, p, gen, on) BY <1>3, <2>3, SaveTargetDone
    <3> QED BY <2>1, <2>2, <2>3, <3>1
  <2>4. CASE s.r # 1
    <3>1. SavedTo(w, FailTo(w, [w EXCEPT !.s = s], v, p), e, v, p, gen, on) BY <1>3, <2>4, SaveTargetFails
    <3> QED BY <2>1, <2>2, <2>4, <3>1
  <2> QED BY <2>3, <2>4
<1> QED BY <1>1, <1>2, <1>3, SaveTargetIs

-----------------------------------------------------------------------------
\* What a dialog is about: the document is not touched by it.
Held(s, e, E) ==
    /\ DOMAIN E = DocFields
    /\ Usable(E.name) /\ (e = "dev" => E.name \in DevNames)
    /\ Counted(E) /\ Bound(s, E) /\ Trusted(s, E)
SameText(E, F) ==
    /\ DOMAIN F = DocFields
    /\ F.t = E.t /\ F.rev = E.rev /\ F.serial = E.serial /\ F.older = E.older
    /\ F.name = E.name /\ F.named = E.named /\ F.imported = E.imported
    /\ F.ram = E.ram /\ F.kv = E.kv /\ F.target = E.target /\ F.doubt = E.doubt

LEMMA DocIs == ASSUME NEW s, NEW e, NEW E PROVE Doc(s, e, E) <=> Held(s, e, E) /\ Asked(s, e, E) BY DEF Doc, Held

LEMMA HeldStill ==
    ASSUME NEW s, NEW e, NEW E, NEW F, Held(s, e, E), SameText(E, F)
    PROVE  Held(s, e, F)
<1>1. Counted(F) BY DEF Held, SameText, Counted
<1>2. Bound(s, F) BY DEF Held, SameText, Bound
<1>3. \A r, c : HasRev(F, r, c) = HasRev(E, r, c) BY DEF SameText, HasRev
<1>4. Reaches(s, F) = Reaches(s, E) BY DEF SameText, Reaches, KeepCutShort
<1>5. Trusted(s, F) BY <1>3, <1>4 DEF Held, SameText, Trusted
<1> QED BY <1>1, <1>2, <1>5 DEF Held, SameText

\* An editor with a dialog that is being opened: only what a destination
\* notes of its volume is not known yet.
Picking(E) ==
    /\ DOMAIN E.pick = PickFields /\ E.pending \in Pendings
    /\ E.nameIn # 0 => Usable(E.nameIn)
    /\ \A i \in E.pick.items : Usable(i[1])
Framed(w, e) ==
    /\ Worldly(w) /\ Doc(w.s, Sibling(e), w.ed[Sibling(e)])
    /\ Held(w.s, e, w.ed[e]) /\ Picking(w.ed[e])

\* Only the document of e is another, and only its dialog.
Redrawn(w, x, e) ==
    /\ x.s = w.s /\ x.run = w.run /\ x.mask = w.mask /\ x.ok = w.ok
    /\ SameText(w.ed[e], x.ed[e]) /\ x.ed[Sibling(e)] = w.ed[Sibling(e)]

LEMMA Redraws ==
    ASSUME NEW w, NEW e \in Ed, Framed(w, e), NEW F, SameText(w.ed[e], F), Picking(F)
    PROVE  Framed(Set(w, e, F), e) /\ Redrawn(w, Set(w, e, F), e) /\ Set(w, e, F).ed[e] = F
<1> DEFINE x == Set(w, e, F)
<1>1. Sibling(e) \in Ed /\ Sibling(e) # e BY Siblings
<1>2. /\ Worldly(x) /\ x.s = w.s /\ x.run = w.run /\ x.mask = w.mask /\ x.ok = w.ok
      /\ x.ed[e] = F /\ x.ed[Sibling(e)] = w.ed[Sibling(e)] BY <1>1, Sets DEF Framed
<1>3. Held(w.s, e, F) BY HeldStill DEF Framed
<1> HIDE DEF x
<1>4. Framed(x, e) /\ Redrawn(w, x, e) /\ x.ed[e] = F BY <1>2, <1>3 DEF Framed, Redrawn
<1> QED BY <1>4 DEF x

LEMMA RedrawnTwice ==
    ASSUME NEW w, NEW x, NEW y, NEW e, Redrawn(w, x, e), Redrawn(x, y, e)
    PROVE  Redrawn(w, y, e) BY DEF Redrawn, SameText

LEMMA FramedGood ==
    ASSUME NEW w, NEW e \in Ed, Framed(w, e), Asked(w.s, e, w.ed[e])
    PROVE  Good(w) BY DocIs, GoodBy DEF Framed

LEMMA GoodFramed ==
    ASSUME NEW w, NEW e \in Ed, Good(w)
    PROVE  Framed(w, e) /\ Asked(w.s, e, w.ed[e])
<1>1. Worldly(w) /\ Doc(w.s, e, w.ed[e]) /\ Doc(w.s, Sibling(e), w.ed[Sibling(e)]) BY Siblings DEF Good
<1>2. Held(w.s, e, w.ed[e]) /\ Asked(w.s, e, w.ed[e]) BY <1>1, DocIs
<1>3. Picking(w.ed[e]) BY <1>2 DEF Asked, Picking
<1> QED BY <1>1, <1>2, <1>3 DEF Framed

\* Only the dialog of a good world is another.
LEMMA GoodRedrawn ==
    ASSUME NEW w, Good(w), NEW e \in Ed, NEW F, SameText(w.ed[e], F), Asked(w.s, e, F)
    PROVE  Good(Set(w, e, F)) /\ Redrawn(w, Set(w, e, F), e) /\ Set(w, e, F).ed[e] = F
<1>1. Framed(w, e) BY GoodFramed
<1>2. Picking(F) BY DEF Asked, Picking
<1>3. Framed(Set(w, e, F), e) /\ Redrawn(w, Set(w, e, F), e) /\ Set(w, e, F).ed[e] = F BY <1>1, <1>2, Redraws
<1>4. Asked(Set(w, e, F).s, e, Set(w, e, F).ed[e]) BY <1>3 DEF Redrawn
<1> QED BY <1>3, <1>4, FramedGood

LEMMA RedrawnSteps ==
    ASSUME NEW w, Worldly(w), NEW x, NEW e, Redrawn(w, x, e), NEW P
    PROVE  Steps(w, x, P) BY DEF Worldly, IsStore, Redrawn, Steps, Later

-----------------------------------------------------------------------------
\* ed_import_list: what is listed has names that can be used.
LEMMA ListsUsable ==
    ASSUME EditorsSound, NEW s, NEW v, NEW d, NEW l \in VfsReaddir(s, v, d), l # NoListing, NEW i \in l
    PROVE  Usable(i[1])
<1> DEFINE m == MediumAt(s, v)
<1>1. l = {<<Last(q), s.files[m][q] = Folder>> : q \in Entries(s, m, d)} BY DEF VfsReaddir
<1>2. PICK q \in Entries(s, m, d) : i = <<Last(q), s.files[m][q] = Folder>> BY <1>1
<1>3. q \in Paths BY DEF Entries
<1> QED BY <1>2, <1>3 DEF EditorsSound

ListedOf(w, z, e, v, d) ==
    /\ Framed(z, e) /\ Redrawn(w, z, e)
    /\ z.ed[e].mode = w.ed[e].mode /\ z.ed[e].pending = w.ed[e].pending
    /\ z.ed[e].pick.v = (IF Mounted(w.s, v) THEN v ELSE None)
    /\ z.ed[e].pick.gen = w.ed[e].pick.gen /\ z.ed[e].pick.on = w.ed[e].pick.on

LEMMA Lists ==
    ASSUME EditorsSound, NEW w, NEW e \in Ed, Framed(w, e), NEW v, NEW d, NEW z \in Listed(w, e, v, d)
    PROVE  ListedOf(w, z, e, v, d)
<1> DEFINE E == w.ed[e]
           lists == {IF l = NoListing THEN {} ELSE l : l \in VfsReaddir(w.s, v, d)}
           shown(l) == {i \in l : e = "note" \/ E.mode = "dest" \/ i[2] \/ i[1] \in DevNames}
           K(l) == [E.pick EXCEPT !.v = IF Mounted(w.s, v) THEN v ELSE None, !.d = d, !.file = <<>>, !.items = shown(l)]
           F(l) == [E EXCEPT !.pick = K(l), !.nameIn = IF E.mode = "dest" THEN @ ELSE 0]
<1>1. PICK l \in lists : z = Set(w, e, F(l)) BY DEF Listed
<1>2. \A i \in l : Usable(i[1]) BY ListsUsable
<1>3. \A i \in shown(l) : Usable(i[1]) BY <1>2
<1>4. DOMAIN E = DocFields /\ Picking(E) BY DEF Framed, Held
<1> HIDE DEF lists, shown
<1>5. /\ DOMAIN K(l) = PickFields /\ K(l).items = shown(l)
      /\ K(l).v = (IF Mounted(w.s, v) THEN v ELSE None) /\ K(l).gen = E.pick.gen /\ K(l).on = E.pick.on
  BY <1>4 DEF Picking, PickFields
<1> HIDE DEF K
<1>6. /\ SameText(E, F(l)) /\ F(l).pick = K(l) /\ F(l).pending = E.pending /\ F(l).mode = E.mode
      /\ F(l).nameIn \in {E.nameIn, 0} BY <1>4 DEF DocFields, SameText
<1> HIDE DEF F, E
<1>7. Picking(F(l)) BY <1>3, <1>4, <1>5, <1>6 DEF Picking
<1>8. Framed(z, e) /\ Redrawn(w, z, e) /\ z.ed[e] = F(l) BY <1>1, <1>6, <1>7, Redraws DEF E
<1> QED BY <1>5, <1>6, <1>8 DEF E, ListedOf

\* ed_save_capture: what the destination notes is what is there.
LEMMA Captures ==
    ASSUME NEW w, NEW e \in Ed, Framed(w, e), w.ed[e].mode = "dest"
    PROVE  Good(Capture(w, e)) /\ Redrawn(w, Capture(w, e), e)
<1> DEFINE E == w.ed[e]
           v == E.pick.v
           on == IF Mounted(w.s, v) THEN MediumAt(w.s, v) ELSE None
           K == [E.pick EXCEPT !.gen = w.s.gen, !.on = on]
           F == [E EXCEPT !.pick = K]
           x == Capture(w, e)
<1>1. Worldly(w) /\ DOMAIN E = DocFields /\ Picking(E) /\ w.s.gen \in Nat BY DEF Framed, Held, Worldly, IsStore
<1>2. DOMAIN K = PickFields /\ K.items = E.pick.items /\ K.gen = w.s.gen /\ K.on = on /\ K.v = v
  BY <1>1 DEF Picking, PickFields
<1>3. x = Set(w, e, F)
  <2> DEFINE y == [w EXCEPT !.ed[e].pick.gen = w.s.gen]
             J == [E.pick EXCEPT !.gen = w.s.gen]
             G == [E EXCEPT !.pick = J]
  <2>1. x = [y EXCEPT !.ed[e].pick.on = on] BY DEF Capture
  <2>2. y = Set(w, e, G) BY DEF Set
  <2>3. Worldly(y) /\ y.ed[e] = G /\ Set(y, e, F) = Set(w, e, F) BY <1>1, <2>2 DEF Set, Worldly, WorldFields
  <2>4. G.pick = J /\ K = [J EXCEPT !.on = on] BY <1>1 DEF DocFields
  <2>5. F = [G EXCEPT !.pick = K] BY <1>1 DEF DocFields
  <2> HIDE DEF y, G, J, K, F, x
  <2>6. x = Set(y, e, [y.ed[e] EXCEPT !.pick = [y.ed[e].pick EXCEPT !.on = on]]) BY <2>1 DEF Set
  <2> QED BY <2>3, <2>4, <2>5, <2>6
<1> HIDE DEF K, x
<1>4. SameText(E, F) /\ F.pick = K /\ F.pending = E.pending /\ F.mode = "dest" /\ F.nameIn = E.nameIn
  BY <1>1 DEF DocFields, SameText
<1> HIDE DEF F
<1>5. KnownAs(w.s, F.pick) BY <1>1, <1>2, <1>4 DEF KnownAs
<1>6. Asked(w.s, e, F) BY <1>1, <1>2, <1>4, <1>5 DEF Asked, Picking
<1>7. Picking(F) BY <1>6 DEF Asked, Picking
<1>8. Framed(x, e) /\ Redrawn(w, x, e) /\ x.ed[e] = F BY <1>3, <1>4, <1>7, Redraws
<1>9. Asked(x.s, e, x.ed[e]) BY <1>6, <1>8 DEF Redrawn
<1>10. Good(x) /\ Redrawn(w, x, e) BY <1>8, <1>9, FramedGood
<1> QED BY <1>10 DEF x

\* ed_import_volume, ed_import_begin and ed_dest_begin.
Shown(w, z, e) == Good(z) /\ Redrawn(w, z, e)

LEMMA OpensVolumes ==
    ASSUME EditorsSound, NEW w, NEW e \in Ed, Framed(w, e), w.ed[e].mode \in {"dest", "import"},
           NEW ids, NEW z \in OpenVolumes(w, e, ids)
    PROVE  Shown(w, z, e)
<1> DEFINE lists == IF ids = {} THEN Listed(w, e, None, <<>>)
                      ELSE UNION {Listed(w, e, w.s.tab[i].name, <<>>) : i \in ids}
<1>1. z \in IF w.ed[e].mode = "dest" THEN {Capture(x, e) : x \in lists} ELSE lists BY DEF OpenVolumes
<1>2. ASSUME NEW x \in lists
      PROVE  Framed(x, e) /\ Redrawn(w, x, e) /\ x.ed[e].mode = w.ed[e].mode
  <2>1. \E v : x \in Listed(w, e, v, <<>>) BY <1>2
  <2>2. PICK v : x \in Listed(w, e, v, <<>>) BY <2>1
  <2>3. ListedOf(w, x, e, v, <<>>) BY <2>2, Lists
  <2> QED BY <2>3 DEF ListedOf
<1> HIDE DEF lists
<1>3. CASE w.ed[e].mode = "dest"
  <2>1. PICK x \in lists : z = Capture(x, e) BY <1>1, <1>3
  <2>2. Framed(x, e) /\ Redrawn(w, x, e) /\ x.ed[e].mode = "dest" BY <1>2, <1>3
  <2>3. Good(z) /\ Redrawn(x, z, e) BY <2>1, <2>2, Captures
  <2> QED BY <2>2, <2>3, RedrawnTwice DEF Shown
<1>4. CASE w.ed[e].mode = "import"
  <2>1. Framed(z, e) /\ Redrawn(w, z, e) /\ z.ed[e].mode = "import" BY <1>1, <1>2, <1>4
  <2>2. Asked(z.s, e, z.ed[e]) BY <2>1 DEF Framed, Picking, Asked
  <2> QED BY <2>1, <2>2, FramedGood DEF Shown
<1> QED BY <1>3, <1>4

Begun(w, e, m, k) ==
    LET x == Set(w, e, [w.ed[e] EXCEPT !.mode = m, !.pick = k]) IN
    Framed(x, e) /\ Redrawn(w, x, e) /\ x.ed[e].mode = m

LEMMA Begins ==
    ASSUME NEW w, Good(w), NEW e \in Ed, NEW m, NEW k, DOMAIN k = PickFields, k.items = w.ed[e].pick.items
    PROVE  Begun(w, e, m, k)
<1> DEFINE E == w.ed[e]
           F == [E EXCEPT !.mode = m, !.pick = k]
<1>1. Framed(w, e) BY GoodFramed
<1>2. DOMAIN E = DocFields /\ Picking(E) BY <1>1 DEF Framed, Held
<1>3. SameText(E, F) /\ F.mode = m /\ F.pick = k /\ F.nameIn = E.nameIn /\ F.pending = E.pending
  BY <1>2 DEF SameText, DocFields
<1> HIDE DEF F
<1>4. Picking(F) BY <1>2, <1>3 DEF Picking
<1>5. Framed(Set(w, e, F), e) /\ Redrawn(w, Set(w, e, F), e) /\ Set(w, e, F).ed[e] = F BY <1>1, <1>3, <1>4, Redraws
<1> QED BY <1>3, <1>5 DEF F, Begun

LEMMA ImportBegins ==
    ASSUME EditorsSound, NEW w, Good(w), NEW e \in Ed, NEW z \in ImportBegin(w, e)
    PROVE  Shown(w, z, e)
<1> DEFINE E == w.ed[e]
           F == [E EXCEPT !.mode = "import", !.pick = E.pick]
           x == Set(w, e, F)
<1>1. DOMAIN E = DocFields /\ DOMAIN E.pick = PickFields BY GoodFramed DEF Framed, Held, Picking
<1>2. Framed(x, e) /\ Redrawn(w, x, e) /\ x.ed[e].mode = "import"
  <2>1. Begun(w, e, "import", E.pick) BY <1>1, Begins
  <2> QED BY <2>1 DEF Begun
<1>3. Mode(w, e, "import") = x BY <1>1 DEF Mode, Set, DocFields
<1> HIDE DEF x
<1>4. z \in OpenVolumes(x, e, FirstOf(Offered(x, e))) BY <1>3 DEF ImportBegin, OpenFirst
<1>5. Shown(x, z, e) BY <1>2, <1>4, OpensVolumes
<1> QED BY <1>2, <1>5, RedrawnTwice DEF Shown

LEMMA DestBegins ==
    ASSUME EditorsSound, NEW w, Good(w), NEW e \in Ed, NEW z \in DestBegin(w, e)
    PROVE  Shown(w, z, e)
<1> DEFINE E == w.ed[e]
           n == IF E.target.v # None THEN Last(E.target.p)
                ELSE IF E.mode = "save" /\ E.nameIn # 0 THEN E.nameIn ELSE E.name
           K == [E.pick EXCEPT !.name = n]
           x == Set(w, e, [E EXCEPT !.mode = "dest", !.pick = K])
<1>1. DOMAIN E = DocFields /\ DOMAIN E.pick = PickFields BY GoodFramed DEF Framed, Held, Picking
<1>2. DOMAIN K = PickFields /\ K.items = E.pick.items BY <1>1 DEF PickFields
<1>3. Framed(x, e) /\ Redrawn(w, x, e) /\ x.ed[e].mode = "dest"
  <2>1. Begun(w, e, "dest", K) BY <1>2, Begins
  <2> QED BY <2>1 DEF Begun
<1>4. x = Set(w, e, [E EXCEPT !.mode = "dest", !.pick.name = n]) BY <1>1 DEF DocFields
<1> HIDE DEF x, K, n
<1>5. z \in IF E.target.v # None /\ Live(w, E.target.v, E.target.gen)
            THEN {Capture(y, e) : y \in Listed(x, e, E.target.v, Front(E.target.p))}
            ELSE OpenFirst(x, e) BY <1>4 DEF DestBegin, n
<1>6. CASE z \in OpenFirst(x, e)
  <2>1. Shown(x, z, e) BY <1>3, <1>6, OpensVolumes DEF OpenFirst
  <2> QED BY <1>3, <2>1, RedrawnTwice DEF Shown
<1>7. CASE \E y \in Listed(x, e, E.target.v, Front(E.target.p)) : z = Capture(y, e)
  <2>1. PICK y \in Listed(x, e, E.target.v, Front(E.target.p)) : z = Capture(y, e) BY <1>7
  <2>2. ListedOf(x, y, e, E.target.v, Front(E.target.p)) BY <1>3, Lists
  <2>3. Good(z) /\ Redrawn(y, z, e) BY <1>3, <2>1, <2>2, Captures DEF ListedOf
  <2> QED BY <1>3, <2>2, <2>3, RedrawnTwice DEF Shown, ListedOf
<1> QED BY <1>5, <1>6, <1>7

-----------------------------------------------------------------------------
\* ed_save and dev_build: the file they may write.
SavePlaces(w, e) ==
    LET t == w.ed[e].target IN
    IF t.v # None THEN {<<t.on, t.p>>} ELSE LocalPlaces(w.s, w.ed[e].name)
Fine(w, z, P) == Good(z) /\ Steps(w, z, P)
SavedAs(w, z, e) == Fine(w, z, SavePlaces(w, e)) /\ Steady(w.ed[e], z.ed[e])

LEMMA KnownMay ==
    ASSUME NEW w, Worldly(w), NEW k, KnownAs(w.s, k), Live(w, k.v, k.gen)
    PROVE  k.on = MediumAt(w.s, k.v) BY DEF KnownAs, Live, VfsWritable

\* A change it made was made where the destination says.
LEMMA TargetPlace ==
    ASSUME NEW w, Worldly(w), NEW z, NEW e, NEW v, NEW p, NEW gen, NEW on,
           KnownAs(w.s, [v |-> v, gen |-> gen, on |-> on]), SavedTo(w, z, e, v, p, gen, on)
    PROVE  Steps(w, z, {<<on, p>>})
<1>1. Steps(w, z, {<<MediumAt(w.s, v), p>>}) BY DEF SavedTo
<1>2. CASE z.s.files = w.s.files BY <1>1, <1>2 DEF Steps
<1>3. CASE z.s.files # w.s.files
  <2>1. Live(w, v, gen) BY <1>3 DEF SavedTo
  <2>2. on = MediumAt(w.s, v) BY <2>1, KnownMay
  <2> QED BY <1>1, <2>2
<1> QED BY <1>2, <1>3

LEMMA Saves ==
    ASSUME EditorsSound, NEW w, Good(w), w.ok, NEW e \in Ed, NEW z \in Save(w, e)
    PROVE  SavedAs(w, z, e)
<1> DEFINE E == w.ed[e]
           t == E.target
<1>1. Worldly(w) /\ Doc(w.s, e, E) BY DEF Good
<1>2. CASE t.v = None
  <2>1. z \in SaveLocal(w, e) /\ Kept(E) BY <1>2 DEF Save, Kept
  <2>2. SavedLocally(w, z, e) BY <2>1, SavesLocal
  <2> QED BY <1>2, <2>2 DEF SavedLocally, SavedAs, SavePlaces, Fine
<1>3. CASE t.v # None
  <2>1. z \in SaveTarget(w, e, t.v, t.p, t.gen, t.on) BY <1>3 DEF Save
  <2>2. t.p \in Paths /\ KnownAs(w.s, t) BY <1>1, <1>3 DEF Doc, Bound
  <2>3. KnownAs(w.s, [v |-> t.v, gen |-> t.gen, on |-> t.on]) BY <2>2 DEF KnownAs
  <2>4. E.mode \notin Binding BY <1>1, <1>3 DEF Doc, Asked, Binding
  <2>5. SavedTo(w, z, e, t.v, t.p, t.gen, t.on) BY <2>1, <2>2, <2>3, <2>4, SavesTarget
  <2>6. Steps(w, z, {<<t.on, t.p>>}) BY <1>1, <2>3, <2>5, TargetPlace
  <2> QED BY <1>3, <2>5, <2>6 DEF SavedTo, SavedAs, SavePlaces, Fine
<1> QED BY <1>2, <1>3

\* The store moves on, with the files and the table it has.
LEMMA GoodOnStore ==
    ASSUME NEW w, Good(w), NEW s, Later(w.s, s), s.files = w.s.files
    PROVE  LET x == [w EXCEPT !.s = s] IN Good(x) /\ x.s = s /\ x.ed = w.ed /\ x.run = w.run /\ x.mask = w.mask /\ x.ok = w.ok
<1> DEFINE x == [w EXCEPT !.s = s]
<1>1. Worldly(w) /\ IsStore(w.s) BY DEF Good, Worldly
<1>2. IsStore(s) /\ Shaped(s.files) /\ s.tab = w.s.tab BY DEF Later
<1>3. /\ Worldly(x) /\ x.s = s /\ x.ed = w.ed /\ x.run = w.run /\ x.mask = w.mask /\ x.ok = w.ok
  BY <1>1, <1>2, OnStores
<1> HIDE DEF x
<1>4. \A o \in Ed : Doc(s, o, w.ed[o]) BY <1>1, SameFiles DEF Good
<1>5. Good(x) BY <1>3, <1>4 DEF Good
<1>6. Good(x) /\ x.s = s /\ x.ed = w.ed /\ x.run = w.run /\ x.mask = w.mask /\ x.ok = w.ok BY <1>3, <1>5
<1> QED BY <1>6 DEF x

LEMMA Builds ==
    ASSUME EditorsSound, NEW w, Good(w), w.ok, NEW e \in Ed, NEW z \in Build(w, e)
    PROVE  Fine(w, z, SavePlaces(w, e))
<1>1. Worldly(w) /\ IsStore(w.s) /\ Shaped(w.s.files) BY DEF Good, Worldly
<1>2. CASE z = Fail(w)
  <2>1. Good(z) /\ z.s = w.s /\ z.run = w.run /\ z.mask = w.mask BY <1>1, <1>2, Fails
  <2> QED BY <1>1, <2>1 DEF Fine, Steps, Later, IsStore
<1>3. CASE \E x \in Save(w, e) : z \in IF ~x.ok \/ ~x.s.kv THEN {x} ELSE {x} \cup OnStore(x, Broken(x.s, -1, Kv, x.s.files))
  <2>1. PICK x \in Save(w, e) : z = x \/ (x.s.kv /\ z \in OnStore(x, Broken(x.s, -1, Kv, x.s.files))) BY <1>3
  <2>2. Fine(w, x, SavePlaces(w, e)) BY <2>1, Saves DEF SavedAs
  <2>3. CASE x.s.kv /\ z \in OnStore(x, Broken(x.s, -1, Kv, x.s.files))
    <3>1. PICK s \in Broken(x.s, -1, Kv, x.s.files) : z = [x EXCEPT !.s = s] BY <2>3 DEF OnStore
    <3>2. Good(x) /\ Worldly(x) /\ IsStore(x.s) /\ Shaped(x.s.files) BY <2>2 DEF Fine, Good, Worldly
    <3>3. Outcome(x.s, s, Kv, x.s.files) BY <3>1, <3>2, Brokens
    <3>4. s.files = x.s.files /\ Later(x.s, s) BY <3>2, <3>3 DEF Outcome, Later, IsStore
    <3>5. Good(z) /\ z.s = s /\ z.ed = x.ed /\ z.run = x.run /\ z.mask = x.mask BY <3>1, <3>2, <3>4, GoodOnStore
    <3>6. Steps(x, z, SavePlaces(w, e)) BY <2>3, <3>4, <3>5 DEF Steps
    <3> QED BY <1>1, <2>2, <3>5, <3>6, StepsTwice DEF Fine
  <2> QED BY <2>1, <2>2, <2>3
<1> QED BY <1>2, <1>3 DEF Build

-----------------------------------------------------------------------------
\* ed_do_pending and what it calls.
LEMMA NewDocs ==
    ASSUME EditorsSound, NEW s, NEW e \in Ed
    PROVE  Doc(s, e, NewDoc(e))
<1> DEFINE E == NewDoc(e)
<1>1. /\ DOMAIN E = DocFields /\ E.name = DefaultName[e] /\ E.rev = 0 /\ E.serial = 0 /\ E.older.rev = -1
      /\ E.ram = -1 /\ E.kv = -1 /\ E.target = NoTarget /\ E.mode = "edit" /\ E.pending = "none"
      /\ E.nameIn = 0 /\ E.pick = NoPick BY DEF NewDoc, DocFields
<1>2. E.target.v = None BY <1>1 DEF NoTarget
<1>3. DOMAIN E.pick = PickFields /\ E.pick.items = {} BY <1>1 DEF NoPick, PickFields
<1> HIDE DEF E
<1>4. Usable(E.name) /\ (e = "dev" => E.name \in DevNames) BY <1>1 DEF EditorsSound
<1>5. Counted(E) BY <1>1, <1>2 DEF Counted
<1>6. Bound(s, E) BY <1>2 DEF Bound
<1>7. Trusted(s, E) BY <1>1, <1>2 DEF Trusted, HasRev, Reaches
<1>8. Asked(s, e, E) BY <1>1, <1>2, <1>3 DEF Asked, Pendings
<1>9. Doc(s, e, E) BY <1>1, <1>4, <1>5, <1>6, <1>7, <1>8 DEF Doc
<1> QED BY <1>9 DEF E

\* The documents, and nothing else, are others.
Replaced(w, z) == Good(z) /\ z.s = w.s

LEMMA Replaces ==
    ASSUME NEW w, Good(w), NEW e \in Ed, NEW F, Doc(w.s, e, F)
    PROVE  Replaced(w, Set(w, e, F))
<1>1. Worldly(w) /\ Doc(w.s, Sibling(e), w.ed[Sibling(e)]) BY Siblings DEF Good
<1>2. Good(Set(w, e, F)) BY <1>1, GoodWith
<1>3. Set(w, e, F).s = w.s BY <1>1, Sets
<1> QED BY <1>2, <1>3 DEF Replaced

\* ed_load
LEMMA LoadsDoc ==
    ASSUME EditorsSound, NEW w, Good(w), NEW e \in Ed, NEW n, NameOk(e, n), Usable(n),
           NEW z \in Load(w, e, n)
    PROVE  Replaced(w, z)
<1> DEFINE E == w.ed[e]
           inRam == ~E.disk /\ w.s.files[Ram][<<n>>] # None
           c == w.s.files[IF inRam THEN Ram ELSE Kv][<<n>>]
           F == [Fresh(E, c) EXCEPT
            !.name = n, !.named = TRUE, !.target = NoTarget, !.imported = FALSE, !.saved = 0,
            !.ram = IF w.s.files[Ram][<<n>>] = c THEN 0 ELSE -1, !.kv = IF inRam THEN -1 ELSE 0, !.doubt = FALSE]
<1>1. Worldly(w) /\ Doc(w.s, e, E) BY DEF Good
<1>2. z = Fail(w) \/ z = Set(w, e, F) BY DEF Load
<1>3. CASE z = Fail(w) BY <1>1, <1>3, Fails DEF Replaced
<1>4. CASE z = Set(w, e, F)
  <2>1. DOMAIN E = DocFields /\ Asked(w.s, e, E) BY <1>1 DEF Doc
  <2> HIDE DEF c, inRam, E
  <2>2. /\ DOMAIN F = DocFields /\ F.t = c /\ F.rev = 0 /\ F.serial = 0 /\ F.older.rev = -1
        /\ F.name = n /\ F.target = NoTarget /\ F.mode = E.mode /\ F.pending = E.pending
        /\ F.nameIn = E.nameIn /\ F.pick = E.pick
        /\ F.ram = (IF w.s.files[Ram][<<n>>] = c THEN 0 ELSE -1) /\ F.kv = (IF inRam THEN -1 ELSE 0)
    BY <2>1 DEF DocFields, Fresh
  <2> HIDE DEF F
  <2>3. F.target.v = None BY <2>2 DEF NoTarget
  <2>4. ~inRam => c = w.s.files[Kv][<<n>>] BY DEF c
  <2>5. Counted(F) BY <2>2, <2>3 DEF Counted
  <2>6. Bound(w.s, F) BY <2>3 DEF Bound
  <2>7. Trusted(w.s, F) BY <2>2, <2>3, <2>4 DEF Trusted, HasRev, Reaches
  <2>8. Asked(w.s, e, F) BY <2>1, <2>2, <2>3, AskedSame
  <2>9. Doc(w.s, e, F) BY <2>2, <2>5, <2>6, <2>7, <2>8 DEF Doc, NameOk
  <2> QED BY <1>4, <2>9, Replaces
<1> QED BY <1>2, <1>3, <1>4

\* The dialog moves on.
Allowed(s, e, E, m) ==
    /\ m \in {"dest", "destReplace"} => KnownAs(s, E.pick)
    /\ m = "dirty" => E.pending # "build"
    /\ m = "overwrite" => NameOk(e, E.nameIn)
    /\ m \in Binding => E.target.v = None

LEMMA Modes ==
    ASSUME NEW w, Good(w), NEW e \in Ed, NEW m, Allowed(w.s, e, w.ed[e], m)
    PROVE  Shown(w, Mode(w, e, m), e)
<1> DEFINE E == w.ed[e]
           F == [E EXCEPT !.mode = m]
<1>1. DOMAIN E = DocFields /\ Picking(E) BY GoodFramed DEF Framed, Held
<1>2. /\ SameText(E, F) /\ F.mode = m /\ F.pick = E.pick /\ F.nameIn = E.nameIn
      /\ F.pending = E.pending /\ F.target = E.target BY <1>1 DEF SameText, DocFields
<1>3. Mode(w, e, m) = Set(w, e, F) BY DEF Mode, Set
<1> HIDE DEF F
<1>4. Asked(w.s, e, F) BY <1>1, <1>2 DEF Asked, Picking, Allowed, Binding
<1>5. Good(Set(w, e, F)) /\ Redrawn(w, Set(w, e, F), e) BY <1>2, <1>4, GoodRedrawn
<1> QED BY <1>3, <1>5 DEF Shown

\* The dialog is closed, and what was asked for is no longer.
Shut(E) == [E EXCEPT !.mode = "edit", !.pending = "none"]

LEMMA Shuts ==
    ASSUME NEW w, Worldly(w), NEW e \in Ed, Doc(w.s, Sibling(e), w.ed[Sibling(e)]),
           Held(w.s, e, w.ed[e]), Picking([w.ed[e] EXCEPT !.pending = "none"])
    PROVE  LET x == Set(w, e, Shut(w.ed[e])) IN Shown(w, x, e) /\ x.ed[e] = Shut(w.ed[e])
<1> DEFINE E == w.ed[e]
           D == [E EXCEPT !.pending = "none"]
           F == Shut(E)
<1>1. DOMAIN E = DocFields BY DEF Held
<1>2. SameText(E, F) /\ F.mode = "edit" /\ F.pick = D.pick /\ F.nameIn = D.nameIn /\ F.pending = "none"
  BY <1>1 DEF SameText, DocFields, Shut
<1> HIDE DEF F
<1>3. Asked(w.s, e, F) BY <1>2 DEF Asked, Picking, Pendings
<1>4. Held(w.s, e, F) BY <1>2, HeldStill
<1>5. Doc(w.s, e, F) BY <1>3, <1>4, DocIs
<1>6. Good(Set(w, e, F)) BY <1>5, GoodWith
<1>7. Sibling(e) \in Ed /\ Sibling(e) # e BY Siblings
<1>8. Redrawn(w, Set(w, e, F), e) /\ Set(w, e, F).ed[e] = F BY <1>2, <1>7, Sets DEF Redrawn
<1> QED BY <1>6, <1>8 DEF F, Shown

LEMMA AlsoGood ==
    ASSUME NEW w, Good(w), NEW x, DOMAIN x = WorldFields, x.s = w.s, x.ed = w.ed
    PROVE  Replaced(w, x) BY DEF Good, Worldly, Replaced

LEMMA ReplacedSteps ==
    ASSUME NEW w, Good(w), NEW z, Replaced(w, z), NEW P
    PROVE  Fine(w, z, P) BY DEF Good, Worldly, IsStore, Replaced, Fine, Steps, Later

LEMMA ShownSteps ==
    ASSUME NEW w, Good(w), NEW e, NEW z, Shown(w, z, e), NEW P
    PROVE  Fine(w, z, P) BY RedrawnSteps DEF Good, Shown, Fine

\* ed_continue_quit
LEMMA AsksFirst ==
    ASSUME NEW w, Good(w), NEW e \in Ed, NEW a \in Pendings \ {"build"}
    PROVE  Replaced(w, Ask(w, e, a))
<1> DEFINE E == w.ed[e]
           F == [E EXCEPT !.mode = "dirty", !.pending = a]
<1>1. DOMAIN E = DocFields /\ Picking(E) BY GoodFramed DEF Framed, Held
<1>2. /\ SameText(E, F) /\ F.mode = "dirty" /\ F.pick = E.pick /\ F.nameIn = E.nameIn /\ F.pending = a
  BY <1>1 DEF SameText, DocFields
<1>3. Ask(w, e, a) = Set(w, e, F) BY DEF Ask
<1> HIDE DEF F
<1>4. Asked(w.s, e, F) BY <1>1, <1>2 DEF Asked, Picking
<1>5. Good(Set(w, e, F)) /\ Redrawn(w, Set(w, e, F), e) BY <1>2, <1>4, GoodRedrawn
<1> QED BY <1>3, <1>5 DEF Replaced, Redrawn

LEMMA Quits ==
    ASSUME NEW w, Good(w), NEW z \in ContinueQuit(w)
    PROVE  Replaced(w, z)
<1>1. Worldly(w) BY DEF Good
<1>2. CASE z = [w EXCEPT !.run = FALSE] BY <1>1, <1>2, AlsoGood DEF Worldly, WorldFields
<1>3. CASE z = w BY <1>3 DEF Replaced
<1>4. CASE \E e \in Ed : z = Ask(w, e, "quit") BY <1>4, AsksFirst DEF Pendings
<1> QED BY <1>2, <1>3, <1>4 DEF ContinueQuit, Ed

\* ed_do_pending: of what may be pending only a build writes.
PendingPlaces(w, e) == IF w.ed[e].pending = "build" THEN SavePlaces(w, e) ELSE {}

LEMMA DoesPending ==
    ASSUME EditorsSound, NEW w, Good(w), w.ok, NEW e \in Ed, NEW z \in DoPending(w, e)
    PROVE  Fine(w, z, PendingPlaces(w, e))
<1> DEFINE E == w.ed[e]
           x == Set(w, e, Shut(E))
           P == PendingPlaces(w, e)
<1>1. Framed(w, e) /\ Worldly(w) BY GoodFramed DEF Good
<1>2. DOMAIN E = DocFields /\ Picking(E) /\ E.pending \in Pendings BY <1>1 DEF Framed, Held, Picking
<1>3. Picking([E EXCEPT !.pending = "none"]) BY <1>2 DEF Picking, Pendings, DocFields
<1>4. Shown(w, x, e) /\ x.ed[e] = Shut(E) BY <1>1, <1>3, Shuts DEF Framed
<1>5. Good(x) /\ x.s = w.s /\ x.ok = w.ok /\ SameText(E, x.ed[e]) BY <1>4 DEF Shown, Redrawn
<1>6. \/ E.pending = "new" /\ z = Set(x, e, NewDoc(e))
      \/ E.pending = "open" /\ z = Set(x, e, [x.ed[e] EXCEPT !.mode = "open", !.disk = x.s.kv, !.nameIn = 0])
      \/ E.pending = "import" /\ z \in ImportBegin(x, e)
      \/ E.pending = "quit" /\ z \in ContinueQuit([x EXCEPT !.mask = @ \cup {e}])
      \/ E.pending = "build" /\ z \in Build(x, e)
      \/ z = x BY <1>2 DEF DoPending, Pendings, Shut
<1> HIDE DEF x, E
<1>7. Steps(w, x, P) BY <1>1, <1>4, RedrawnSteps DEF Shown
<1>8. ASSUME Replaced(x, z) PROVE Fine(w, z, P) BY <1>5, <1>8 DEF Replaced, Fine, Good, Worldly, IsStore, Steps, Later
<1>9. CASE z = Set(x, e, NewDoc(e)) BY <1>5, <1>8, <1>9, NewDocs, Replaces
<1>10. CASE z = Set(x, e, [x.ed[e] EXCEPT !.mode = "open", !.disk = x.s.kv, !.nameIn = 0])
  <2> DEFINE F == [x.ed[e] EXCEPT !.mode = "open", !.disk = x.s.kv, !.nameIn = 0]
  <2>1. Framed(x, e) BY <1>5, GoodFramed
  <2>2. DOMAIN x.ed[e] = DocFields /\ Picking(x.ed[e]) BY <2>1 DEF Framed, Held
  <2>3. SameText(x.ed[e], F) /\ F.mode = "open" /\ F.nameIn = 0 /\ F.pick = x.ed[e].pick /\ F.pending = x.ed[e].pending
    BY <2>2 DEF SameText, DocFields
  <2> HIDE DEF F
  <2>4. Asked(x.s, e, F) BY <2>2, <2>3 DEF Asked, Picking
  <2>5. Good(Set(x, e, F)) /\ Redrawn(x, Set(x, e, F), e) BY <1>5, <2>3, <2>4, GoodRedrawn
  <2>6. z = Set(x, e, F) BY <1>10 DEF F
  <2> QED BY <1>8, <2>5, <2>6 DEF Replaced, Redrawn
<1>11. CASE z \in ImportBegin(x, e) BY <1>5, <1>8, <1>11, ImportBegins DEF Shown, Replaced, Redrawn
<1>12. CASE z \in ContinueQuit([x EXCEPT !.mask = @ \cup {e}])
  <2> DEFINE y == [x EXCEPT !.mask = @ \cup {e}]
  <2>1. DOMAIN y = WorldFields /\ y.s = x.s /\ y.ed = x.ed BY <1>5 DEF Good, Worldly, WorldFields
  <2> HIDE DEF y
  <2>2. Replaced(x, y) BY <1>5, <2>1, AlsoGood
  <2>3. Replaced(y, z) BY <1>12, <2>2, Quits DEF y, Replaced
  <2> QED BY <1>8, <2>2, <2>3 DEF Replaced
<1>13. CASE E.pending = "build" /\ z \in Build(x, e)
  <2>1. Fine(x, z, SavePlaces(x, e)) BY <1>5, <1>13, Builds
  <2>2. SavePlaces(x, e) = P BY <1>5, <1>13 DEF E, PendingPlaces, SavePlaces, LocalPlaces, SameText
  <2> QED BY <1>1, <1>7, <2>1, <2>2, StepsTwice DEF Fine, Worldly
<1>14. CASE z = x BY <1>5, <1>7, <1>14 DEF Fine
<1> QED BY <1>6, <1>9, <1>10, <1>11, <1>12, <1>13, <1>14

-----------------------------------------------------------------------------
LEMMA Pends ==
    ASSUME NEW w, Good(w), NEW e \in Ed, NEW a \in Pendings, w.ed[e].mode # "dirty" \/ a # "build"
    PROVE  LET x == [w EXCEPT !.ed[e].pending = a] IN Shown(w, x, e) /\ x.ed[e] = [w.ed[e] EXCEPT !.pending = a]
<1> DEFINE E == w.ed[e]
           F == [E EXCEPT !.pending = a]
<1>1. DOMAIN E = DocFields /\ Asked(w.s, e, E) BY GoodFramed DEF Framed, Held
<1>2. /\ SameText(E, F) /\ F.mode = E.mode /\ F.pick = E.pick /\ F.nameIn = E.nameIn
      /\ F.pending = a /\ F.target = E.target BY <1>1 DEF SameText, DocFields
<1>3. [w EXCEPT !.ed[e].pending = a] = Set(w, e, F) BY DEF Set
<1> HIDE DEF F
<1>4. Asked(w.s, e, F) BY <1>1, <1>2 DEF Asked
<1>5. Good(Set(w, e, F)) /\ Redrawn(w, Set(w, e, F), e) /\ Set(w, e, F).ed[e] = F BY <1>2, <1>4, GoodRedrawn
<1> QED BY <1>3, <1>5 DEF Shown, F

\* ed_request
Leaves == {"new", "open", "import", "close"}

LEMMA Requests ==
    ASSUME EditorsSound, NEW w, Good(w), w.ok, NEW e \in Ed, NEW a \in Leaves, NEW z \in Request(w, e, a)
    PROVE  Fine(w, z, {})
<1>1. a \in Pendings \ {"build"} BY DEF Leaves, Pendings
<1>2. CASE z = Ask(w, e, a) BY <1>1, <1>2, AsksFirst, ReplacedSteps
<1>3. CASE z \in DoPending([w EXCEPT !.ed[e].pending = a], e)
  <2> DEFINE x == [w EXCEPT !.ed[e].pending = a]
  <2>1. Shown(w, x, e) /\ x.ed[e] = [w.ed[e] EXCEPT !.pending = a] BY <1>1, Pends
  <2>2. DOMAIN w.ed[e] = DocFields BY GoodFramed DEF Framed, Held
  <2>3. x.ed[e].pending # "build" BY <1>1, <2>1, <2>2 DEF DocFields
  <2> HIDE DEF x
  <2>4. Good(x) /\ x.ok /\ Steps(w, x, {}) BY <2>1, RedrawnSteps DEF Shown, Redrawn, Good
  <2>5. Fine(x, z, PendingPlaces(x, e)) BY <1>3, <2>4, DoesPending DEF x
  <2>6. PendingPlaces(x, e) = {} BY <2>3 DEF PendingPlaces
  <2> QED BY <2>4, <2>5, <2>6, StepsTwice DEF Fine, Good, Worldly
<1> QED BY <1>2, <1>3 DEF Request

\* The name is asked for; only a document without a destination asks.
LEMMA Prompts ==
    ASSUME NEW w, Good(w), NEW e \in Ed, w.ed[e].target.v = None
    PROVE  Shown(w, PromptSave(w, e), e)
<1> DEFINE E == w.ed[e]
           F == [E EXCEPT !.mode = "save", !.nameIn = E.name]
<1>1. DOMAIN E = DocFields /\ Picking(E) /\ Usable(E.name) BY GoodFramed DEF Framed, Held
<1>2. /\ SameText(E, F) /\ F.mode = "save" /\ F.pick = E.pick /\ F.nameIn = E.name
      /\ F.pending = E.pending /\ F.target = E.target BY <1>1 DEF SameText, DocFields
<1>3. PromptSave(w, e) = Set(w, e, F) BY DEF PromptSave
<1> HIDE DEF F
<1>4. Asked(w.s, e, F) BY <1>1, <1>2 DEF Asked, Picking
<1>5. Good(Set(w, e, F)) /\ Redrawn(w, Set(w, e, F), e) BY <1>2, <1>4, GoodRedrawn
<1> QED BY <1>3, <1>5 DEF Shown

\* ed_commit_save: the document under another name, and back.
UnderName(E, n) ==
    [E EXCEPT !.name = n, !.ram = IF n = E.name THEN @ ELSE -1, !.kv = IF n = E.name THEN @ ELSE -1]
BackFrom(E, F) ==
    [F EXCEPT !.name = E.name, !.mode = "save",
              !.ram = IF E.nameIn = E.name THEN @ ELSE E.ram, !.kv = IF E.nameIn = E.name THEN @ ELSE E.kv]

LEMMA TakesName ==
    ASSUME NEW s, NEW e, NEW E, Doc(s, e, E), E.target.v = None, NameOk(e, E.nameIn)
    PROVE  LET F == UnderName(E, E.nameIn) IN
           Doc(s, e, F) /\ Steady(E, F) /\ F.name = E.nameIn /\ F.target.v = None
           /\ F.doubt = E.doubt /\ F.named = E.named
<1> DEFINE F == UnderName(E, E.nameIn)
<1>1. DOMAIN E = DocFields /\ Usable(E.name) /\ (e = "dev" => E.name \in DevNames) /\ Asked(s, e, E) BY DEF Doc
<1>2. /\ DOMAIN F = DocFields /\ Steady(E, F) /\ F.name = E.nameIn /\ F.target = E.target
      /\ F.doubt = E.doubt /\ F.named = E.named /\ F.imported = E.imported
      /\ F.ram = (IF E.nameIn = E.name THEN E.ram ELSE -1)
      /\ F.kv = (IF E.nameIn = E.name THEN E.kv ELSE -1) BY <1>1 DEF DocFields, UnderName, Steady
<1> HIDE DEF F
<1>3. Usable(F.name) /\ (e = "dev" => F.name \in DevNames) BY <1>1, <1>2 DEF Asked, NameOk
<1>4. Asked(s, e, F) BY <1>1, <1>2, AskedSame DEF Steady
<1>5. Doc(s, e, F) BY <1>2, <1>3, <1>4, Resaved DEF Steady
<1> QED BY <1>2, <1>5 DEF F

\* Only the other name was written, and nothing is counted on there.
LEMMA GoesBack ==
    ASSUME EditorsSound, NEW s, IsStore(s), NEW o, Later(s, o), NEW e, NEW E, Doc(s, e, E), E.target.v = None,
           \A m \in Media, p \in Paths : o.files[m][p] # s.files[m][p] => p = <<E.nameIn>>,
           NEW F, Doc(o, e, F), Steady(E, F), F.name = E.nameIn, F.target.v = None,
           F.doubt = E.doubt, F.named = E.named
    PROVE  Doc(o, e, BackFrom(E, F))
<1> DEFINE G == BackFrom(E, F)
<1>1. DOMAIN F = DocFields /\ Usable(E.name) /\ (e = "dev" => E.name \in DevNames)
      /\ Counted(E) /\ Trusted(s, E) /\ Counted(F) /\ Trusted(o, F) /\ Asked(o, e, F) BY DEF Doc
<1>2. /\ DOMAIN G = DocFields /\ G.t = F.t /\ G.rev = F.rev /\ G.serial = F.serial /\ G.older = F.older
      /\ G.name = E.name /\ G.mode = "save" /\ G.target = F.target
      /\ G.doubt = F.doubt /\ G.nameIn = F.nameIn /\ G.pick = F.pick /\ G.pending = F.pending
      /\ G.ram = (IF E.nameIn = E.name THEN F.ram ELSE E.ram)
      /\ G.kv = (IF E.nameIn = E.name THEN F.kv ELSE E.kv) BY <1>1 DEF DocFields, BackFrom
<1> HIDE DEF G
<1>3. G.t = E.t /\ G.rev = E.rev /\ G.serial = E.serial /\ G.older = E.older BY <1>2 DEF Steady
<1>4. Counted(G) BY <1>1, <1>2, <1>3 DEF Counted
<1>5. Bound(o, G) BY <1>2 DEF Bound
<1>6. Asked(o, e, G) BY <1>1, <1>2 DEF Asked
<1>7. \A r, c : HasRev(G, r, c) = HasRev(E, r, c) /\ HasRev(G, r, c) = HasRev(F, r, c) BY <1>2, <1>3 DEF HasRev
<1>8. Trusted(o, G)
  <2>1. ~Reaches(o, G) BY <1>2 DEF Reaches
  <2>2. CASE E.nameIn = E.name BY <1>1, <1>2, <1>7, <2>1, <2>2 DEF Trusted
  <2>3. CASE E.nameIn # E.name
    <3>1. <<E.name>> \in Paths /\ <<E.name>> # <<E.nameIn>> /\ Ram \in Media /\ Kv \in Media
      BY <1>1, <2>3 DEF Usable, Media
    <3>2. o.files[Ram][<<E.name>>] = s.files[Ram][<<E.name>>] /\ o.files[Kv][<<E.name>>] = s.files[Kv][<<E.name>>]
      BY <3>1
    <3> QED BY <1>1, <1>2, <1>7, <2>1, <2>3, <3>2 DEF Trusted
  <2> QED BY <2>2, <2>3
<1>9. Doc(o, e, G) BY <1>1, <1>2, <1>4, <1>5, <1>6, <1>8 DEF Doc
<1> QED BY <1>9 DEF G

LEMMA StepsMore ==
    ASSUME NEW w, NEW x, NEW P, NEW Q, Steps(w, x, P), P \subseteq Q
    PROVE  Steps(w, x, Q) BY DEF Steps

LEMMA LocalLater ==
    ASSUME NEW w, NEW x, NEW P, Steps(w, x, P), NEW n
    PROVE  LocalPlaces(x.s, n) \subseteq LocalPlaces(w.s, n) BY DEF Steps, LocalPlaces

LEMMA Commits ==
    ASSUME EditorsSound, NEW w, Good(w), w.ok, NEW e \in Ed, w.ed[e].target.v = None, NameOk(e, w.ed[e].nameIn),
           NEW z \in CommitSave(w, e)
    PROVE  Fine(w, z, LocalPlaces(w.s, w.ed[e].nameIn))
<1> DEFINE E == w.ed[e]
           n == E.nameIn
           R == UnderName(E, n)
           u == Set(w, e, R)
           P == LocalPlaces(w.s, n)
<1>1. Worldly(w) /\ IsStore(w.s) /\ Doc(w.s, e, E) /\ Doc(w.s, Sibling(e), w.ed[Sibling(e)])
  BY Siblings DEF Good, Worldly
<1>2. /\ Doc(w.s, e, R) /\ Steady(E, R) /\ R.name = n /\ R.target.v = None
      /\ R.doubt = E.doubt /\ R.named = E.named BY <1>1, TakesName
<1> DEFINE Then(x) == IF x.ok THEN DoPending(x, e) ELSE {Set(x, e, BackFrom(E, x.ed[e]))}
<1>a. z \in UNION {Then(x) : x \in SaveLocal(u, e)} BY DEF CommitSave, UnderName, BackFrom
<1> HIDE DEF Then
<1>b. PICK x \in SaveLocal(u, e) : z \in Then(x) BY <1>a, Zenon
<1>3. z \in IF x.ok THEN DoPending(x, e) ELSE {Set(x, e, BackFrom(E, x.ed[e]))} BY <1>b DEF Then
<1> HIDE DEF R, E
<1>4. Good(u) BY <1>1, <1>2, GoodWith
<1>c. Worldly(w) BY <1>1
<1>5. u.s = w.s /\ u.ok = w.ok /\ u.ed[e] = R BY <1>c DEF Set, Worldly, WorldFields
<1> HIDE DEF u, n
<1>6. SavedLocally(u, x, e) BY <1>2, <1>b, <1>4, <1>5, SavesLocal DEF Kept
<1>7. Good(x) /\ Steps(w, x, P) BY <1>2, <1>5, <1>6 DEF SavedLocally, Steps
<1>8. /\ Steady(E, x.ed[e]) /\ x.ed[e].name = n /\ x.ed[e].target.v = None
      /\ ~x.ok => x.ed[e].doubt = E.doubt /\ x.ed[e].named = E.named BY <1>2, <1>5, <1>6 DEF SavedLocally, Steady
<1>9. CASE x.ok
  <2>1. Fine(x, z, PendingPlaces(x, e)) BY <1>3, <1>7, <1>9, DoesPending
  <2>2. PendingPlaces(x, e) \subseteq LocalPlaces(x.s, n) BY <1>8 DEF PendingPlaces, SavePlaces
  <2>3. LocalPlaces(x.s, n) \subseteq P BY <1>7, LocalLater
  <2>4. Good(z) /\ Steps(x, z, P) BY <2>1, <2>2, <2>3, StepsMore DEF Fine
  <2>5. Steps(w, z, P) BY <1>1, <1>7, <2>4, StepsTwice
  <2> QED BY <2>4, <2>5 DEF Fine, E, n
<1>10. CASE ~x.ok
  <2> DEFINE G == BackFrom(E, x.ed[e])
  <2>1. Worldly(x) /\ Doc(x.s, e, x.ed[e]) /\ Doc(x.s, Sibling(e), x.ed[Sibling(e)]) BY <1>7, Siblings DEF Good
  <2>2. Later(w.s, x.s) /\ \A m \in Media, p \in Paths : x.s.files[m][p] # w.s.files[m][p] => p = <<n>>
    BY <1>7 DEF Steps, LocalPlaces
  <2>3. E.target.v = None /\ Doc(w.s, e, E) /\ n = E.nameIn BY <1>1 DEF E, n
  <2>4. Doc(x.s, e, G) BY <1>1, <1>8, <1>10, <2>1, <2>2, <2>3, GoesBack
  <2>5. z = Set(x, e, G) BY <1>3, <1>10
  <2> HIDE DEF G
  <2>6. Good(z) BY <2>1, <2>4, <2>5, GoodWith
  <2>7. z.s = x.s BY <2>1, <2>5, Sets
  <2>8. Steps(w, z, P) BY <1>7, <2>7 DEF Steps
  <2> QED BY <2>6, <2>8 DEF Fine, E, n
<1> QED BY <1>9, <1>10

-----------------------------------------------------------------------------
\* ed_dest_accept: the file the dialog shows, if it was not there or the
\* question about it was answered.
DestPath(E) == Append(E.pick.d, E.pick.name)
MayReplace(s, E) ==
    \/ E.mode = "dest" /\ s.files[E.pick.on][DestPath(E)] = None
    \/ E.mode = "destReplace" /\ E.pick.file = DestPath(E)
DestPlaces(s, E) == IF MayReplace(s, E) THEN {<<E.pick.on, DestPath(E)>>} ELSE {}

LEMMA DestAsks ==
    ASSUME NEW w, Good(w), NEW e \in Ed, w.ed[e].mode \in {"dest", "destReplace"}, NEW p
    PROVE  Shown(w, Set(w, e, [w.ed[e] EXCEPT !.mode = "destReplace", !.pick.file = p]), e)
<1> DEFINE E == w.ed[e]
           K == [E.pick EXCEPT !.file = p]
           F == [E EXCEPT !.mode = "destReplace", !.pick = K]
<1>1. DOMAIN E = DocFields /\ Picking(E) /\ KnownAs(w.s, E.pick) BY GoodFramed DEF Framed, Held, Asked
<1>2. /\ DOMAIN K = PickFields /\ K.items = E.pick.items /\ K.v = E.pick.v /\ K.gen = E.pick.gen /\ K.on = E.pick.on
  BY <1>1 DEF Picking, PickFields
<1>3. [E EXCEPT !.mode = "destReplace", !.pick.file = p] = F BY <1>1 DEF DocFields
<1> HIDE DEF K
<1>4. /\ SameText(E, F) /\ F.mode = "destReplace" /\ F.pick = K /\ F.nameIn = E.nameIn /\ F.pending = E.pending
  BY <1>1 DEF SameText, DocFields
<1> HIDE DEF F
<1>5. KnownAs(w.s, K) BY <1>1, <1>2 DEF KnownAs
<1>6. Asked(w.s, e, F) BY <1>1, <1>2, <1>4, <1>5 DEF Asked, Picking
<1>7. Good(Set(w, e, F)) /\ Redrawn(w, Set(w, e, F), e) BY <1>4, <1>6, GoodRedrawn
<1> QED BY <1>3, <1>7 DEF Shown

LEMMA DestAccepts ==
    ASSUME EditorsSound, NEW w, Good(w), w.ok, NEW e \in Ed, w.ed[e].mode \in {"dest", "destReplace"},
           NEW z \in DestAccept(w, e)
    PROVE  Fine(w, z, DestPlaces(w.s, w.ed[e]))
<1> DEFINE E == w.ed[e]
           k == E.pick
           p == Append(k.d, k.name)
           confirmed == E.mode = "destReplace"
           P == DestPlaces(w.s, E)
           Then(x) == IF x.ok THEN DoPending(x, e) ELSE {Mode(x, e, "dest")}
<1>1. Worldly(w) /\ IsStore(w.s) /\ Asked(w.s, e, E) /\ KnownAs(w.s, k) BY GoodFramed DEF Good, Worldly, Asked
<1>2. \/ z = Mode(w, e, "dest")
      \/ z = Set(w, e, [E EXCEPT !.mode = "destReplace", !.pick.file = p])
      \/ /\ Live(w, k.v, k.gen) /\ p \in Paths /\ (confirmed => p = k.file)
         /\ VfsStat(w.s, k.v, p) = None \/ confirmed
         /\ z \in UNION {Then(x) : x \in SaveTarget(w, e, k.v, p, k.gen, k.on)} BY DEF DestAccept
<1>3. CASE z = Mode(w, e, "dest")
  <2>1. Allowed(w.s, e, E, "dest") BY <1>1 DEF Allowed, Binding
  <2> QED BY <1>3, <2>1, Modes, ShownSteps
<1>4. CASE z = Set(w, e, [E EXCEPT !.mode = "destReplace", !.pick.file = p]) BY <1>4, DestAsks, ShownSteps
<1> HIDE DEF Then, E
<1>5. CASE /\ Live(w, k.v, k.gen) /\ p \in Paths /\ (confirmed => p = k.file)
           /\ VfsStat(w.s, k.v, p) = None \/ confirmed
           /\ z \in UNION {Then(x) : x \in SaveTarget(w, e, k.v, p, k.gen, k.on)}
  <2>1. PICK x \in SaveTarget(w, e, k.v, p, k.gen, k.on) : z \in Then(x) BY <1>5, Zenon
  <2>2. KnownAs(w.s, [v |-> k.v, gen |-> k.gen, on |-> k.on]) BY <1>1 DEF KnownAs
  <2>3. E.mode \notin Binding BY DEF Binding, E
  <2>4. SavedTo(w, x, e, k.v, p, k.gen, k.on) BY <1>5, <2>1, <2>2, <2>3, SavesTarget DEF E
  <2>5. ASSUME x.ok \/ x.s.files # w.s.files PROVE P = {<<k.on, p>>}
    <3>1. May(w.s, k.v) BY <2>4, <2>5 DEF SavedTo
    <3>2. k.on = MediumAt(w.s, k.v) BY <1>1, <1>5, KnownMay
    <3>3. p # <<>> BY <1>5 DEF EditorsSound
    <3>4. VfsStat(w.s, k.v, p) = w.s.files[k.on][p] BY <3>1, <3>2, <3>3 DEF May, VfsStat
    <3>5. E.mode \in {"dest", "destReplace"} BY DEF E
    <3>6. MayReplace(w.s, E) BY <1>5, <3>4, <3>5 DEF MayReplace, DestPath
    <3> QED BY <3>6 DEF DestPlaces, DestPath
  <2>6. Good(x) /\ Steady(E, x.ed[e]) BY <2>4 DEF SavedTo, E
  <2>7. Steps(w, x, {<<k.on, p>>}) BY <1>1, <2>2, <2>4, TargetPlace
  <2>8. Steps(w, x, P)
    <3>1. CASE x.s.files = w.s.files BY <2>7, <3>1 DEF Steps
    <3>2. CASE x.s.files # w.s.files BY <2>5, <2>7, <3>2
    <3> QED BY <3>1, <3>2
  <2>9. CASE x.ok
    <3>1. Fine(x, z, PendingPlaces(x, e)) BY <2>1, <2>6, <2>9, DoesPending DEF Then
    <3>2. x.ed[e].target = TargetOf(E, k.v, p, k.gen, k.on) BY <2>4, <2>9 DEF SavedTo, E
    <3>3. x.ed[e].target.v = k.v /\ x.ed[e].target.on = k.on /\ x.ed[e].target.p = p BY <3>2 DEF TargetOf
    <3>4. k.v # None
      <4>1. Mounted(w.s, k.v) /\ OneEach(w.s.tab) BY <1>1, <1>5 DEF Live, VfsWritable, Worldly
      <4> QED BY <4>1, NoneNotMounted
    <3>5. PendingPlaces(x, e) \subseteq P BY <2>5, <2>9, <3>3, <3>4 DEF PendingPlaces, SavePlaces
    <3>6. Good(z) /\ Steps(x, z, P) BY <3>1, <3>5, StepsMore DEF Fine
    <3>7. Steps(w, z, P) BY <1>1, <2>8, <3>6, StepsTwice
    <3> QED BY <3>6, <3>7 DEF Fine, E
  <2>10. CASE ~x.ok
    <3>1. z = Mode(x, e, "dest") BY <2>1, <2>10 DEF Then
    <3>2. KnownAs(x.s, x.ed[e].pick)
      <4>1. Asked(x.s, e, x.ed[e]) BY <2>6, GoodFramed
      <4>2. x.ed[e].mode \in {"dest", "destReplace"} BY <2>6 DEF Steady, E
      <4> QED BY <4>1, <4>2 DEF Asked
    <3>3. Allowed(x.s, e, x.ed[e], "dest") BY <3>2 DEF Allowed, Binding
    <3>4. Fine(x, z, P) BY <2>6, <3>1, <3>3, Modes, ShownSteps
    <3>5. Steps(w, z, P) BY <1>1, <2>8, <3>4, StepsTwice DEF Fine
    <3> QED BY <3>4, <3>5 DEF Fine, E
  <2> QED BY <2>9, <2>10
<1> QED BY <1>2, <1>3, <1>4, <1>5

\* ed_import_accept
MayImport(s, E) ==
    E.mode = "importReplace" \/ (E.mode = "import" /\ s.files[Ram][<<E.nameIn>>] = None)
ImportPlaces(s, E) == IF MayImport(s, E) THEN {<<Ram, <<E.nameIn>>>>} ELSE {}
Imported(E, n, c) ==
    [Fresh(E, c) EXCEPT
        !.name = n, !.named = TRUE, !.saved = -1, !.mode = "edit", !.pending = "none",
        !.target = NoTarget, !.ram = 0, !.kv = -1, !.imported = TRUE]

LEMMA ImportedIs ==
    ASSUME NEW s, NEW e, NEW E, Doc(s, e, E), NEW o, NEW c, NameOk(e, E.nameIn), o.files[Ram][<<E.nameIn>>] = c
    PROVE  Doc(o, e, Imported(E, E.nameIn, c))
<1> DEFINE F == Imported(E, E.nameIn, c)
<1>1. DOMAIN E = DocFields /\ Asked(s, e, E) BY DEF Doc
<1>2. /\ DOMAIN F = DocFields /\ F.t = c /\ F.rev = 0 /\ F.serial = 0 /\ F.older.rev = -1
      /\ F.name = E.nameIn /\ F.target = NoTarget /\ F.mode = "edit" /\ F.pending = "none"
      /\ F.nameIn = E.nameIn /\ F.pick = E.pick /\ F.ram = 0 /\ F.kv = -1 BY <1>1 DEF DocFields, Imported, Fresh
<1> HIDE DEF F
<1>3. F.target.v = None BY <1>2 DEF NoTarget
<1>4. Counted(F) BY <1>2, <1>3 DEF Counted
<1>5. Bound(o, F) BY <1>3 DEF Bound
<1>6. Trusted(o, F) BY <1>2, <1>3 DEF Trusted, HasRev, Reaches
<1>7. Asked(o, e, F) BY <1>1, <1>2, <1>3 DEF Asked, Pendings
<1>8. Usable(F.name) /\ (e = "dev" => F.name \in DevNames) BY <1>1, <1>2 DEF Asked, NameOk
<1>9. Doc(o, e, F) BY <1>2, <1>4, <1>5, <1>6, <1>7, <1>8 DEF Doc
<1> QED BY <1>9 DEF F

LEMMA TakesImport ==
    ASSUME EditorsSound, NEW w, Good(w), NEW e \in Ed, NameOk(e, w.ed[e].nameIn),
           NEW c, NEW s \in RamWritten(w.s, w.ed[e].nameIn, c)
    PROVE  LET x == [w EXCEPT !.s = s]
               y == StorageChanged(x, e, w.ed[e].nameIn, Ram)
               z == IF x.s.r = 1 THEN Set(y, e, Imported(y.ed[e], w.ed[e].nameIn, c)) ELSE Mode(x, e, "import") IN
           Fine(w, z, {<<Ram, <<w.ed[e].nameIn>>>>})
<1> DEFINE E == w.ed[e]
           n == E.nameIn
           x == [w EXCEPT !.s = s]
           y == StorageChanged(x, e, n, Ram)
           z == IF x.s.r = 1 THEN Set(y, e, Imported(y.ed[e], n, c)) ELSE Mode(x, e, "import")
           P == {<<Ram, <<n>>>>}
<1>1. Worldly(w) /\ IsStore(w.s) /\ Shaped(w.s.files) /\ OneEach(w.s.tab) /\ Doc(w.s, e, E)
      /\ Doc(w.s, Sibling(e), w.ed[Sibling(e)]) BY Siblings DEF Good, Worldly
<1>2. Usable(n) BY <1>1 DEF Doc, Asked, NameOk
<1>3. /\ Wrote(w.s, s, Ram, <<n>>) /\ s.kv = w.s.kv /\ (s.r # 1 => s.files = w.s.files)
      /\ s.r = 1 => s.files[Ram][<<n>>] = c BY <1>1, <1>2, RamWrote
<1>4. Later(w.s, s) /\ IsStore(s) /\ Shaped(s.files) /\ s.tab = w.s.tab BY <1>3 DEF Wrote, Later
<1>5. /\ Worldly(x) /\ x.s = s /\ x.ed = w.ed BY <1>1, <1>4, OnStores
<1>6. ASSUME NEW u, u.s = s PROVE Steps(w, u, P) BY <1>3, <1>4, <1>6 DEF Steps, Wrote
<1> HIDE DEF x, E, n
<1>7. CASE s.r = 1
  <2>1. Wrote(w.s, x.s, Ram, <<n>>) /\ Doc(w.s, Sibling(e), x.ed[Sibling(e)]) BY <1>1, <1>3, <1>5
  <2>2. Aside(x, y, e) /\ Doc(x.s, Sibling(e), y.ed[Sibling(e)]) BY <1>1, <1>5, <2>1, Informs
  <2>3. Worldly(y) /\ y.s = s /\ y.ed[e] = E /\ Doc(y.s, Sibling(e), y.ed[Sibling(e)]) BY <1>5, <2>2 DEF Aside, E
  <2> HIDE DEF y
  <2>4. Doc(s, e, Imported(E, n, c)) BY <1>1, <1>3, <1>7, ImportedIs DEF E, n
  <2>5. Good(Set(y, e, Imported(E, n, c))) /\ Set(y, e, Imported(E, n, c)).s = s BY <2>3, <2>4, GoodWith, Sets
  <2>6. z = Set(y, e, Imported(E, n, c)) BY <1>5, <1>7, <2>3
  <2> QED BY <1>6, <2>5, <2>6 DEF Fine, x, y, E, n
<1>8. CASE s.r # 1
  <2>1. Good(x) BY <1>3, <1>4, <1>8, GoodOnStore DEF x
  <2>2. Allowed(x.s, e, x.ed[e], "import") BY DEF Allowed, Binding
  <2>3. Good(z) /\ z.s = s BY <1>5, <1>8, <2>1, <2>2, Modes DEF Shown, Redrawn
  <2> QED BY <1>6, <2>3 DEF Fine, x, y, E, n
<1> QED BY <1>7, <1>8

LEMMA ImportAccepts ==
    ASSUME EditorsSound, NEW w, Good(w), NEW e \in Ed, w.ed[e].mode \in {"import", "importReplace"},
           NEW z \in ImportAccept(w, e)
    PROVE  Fine(w, z, ImportPlaces(w.s, w.ed[e]))
<1> DEFINE E == w.ed[e]
           n == E.nameIn
           P == ImportPlaces(w.s, E)
           back == {Mode(w, e, "import")}
           Taken(x, c) == LET y == StorageChanged(x, e, n, Ram) IN Set(y, e, Imported(y.ed[e], n, c))
           One(x, c) == IF x.s.r = 1 THEN Taken(x, c) ELSE Mode(x, e, "import")
           Some(c) == IF c = None THEN back ELSE {One(x, c) : x \in OnStore(w, RamWritten(w.s, n, c))}
<1>1. \/ z = Mode(w, e, "import")
      \/ z = Mode(w, e, "importReplace")
      \/ /\ NameOk(e, n) /\ ~(E.mode = "import" /\ Exists(w, n))
         /\ z \in UNION {Some(c) : c \in VfsRead(w.s, E.pick.v, E.pick.file)} BY DEF ImportAccept, Imported
<1>2. CASE \E m \in {"import", "importReplace"} : z = Mode(w, e, m)
  <2>1. PICK m \in {"import", "importReplace"} : z = Mode(w, e, m) BY <1>2
  <2>2. Allowed(w.s, e, E, m) BY DEF Allowed, Binding
  <2> QED BY <2>1, <2>2, Modes, ShownSteps
<1>3. CASE /\ NameOk(e, n) /\ ~(E.mode = "import" /\ Exists(w, n))
           /\ z \in UNION {Some(c) : c \in VfsRead(w.s, E.pick.v, E.pick.file)}
  <2>1. P = {<<Ram, <<n>>>>} BY <1>3 DEF ImportPlaces, MayImport, Exists
  <2> HIDE DEF Some
  <2>2. PICK c : z \in Some(c) BY <1>3, Zenon
  <2> HIDE DEF One
  <2>3. z = Mode(w, e, "import") \/ \E x \in OnStore(w, RamWritten(w.s, n, c)) : z = One(x, c) BY <2>2 DEF Some
  <2>4. CASE \E x \in OnStore(w, RamWritten(w.s, n, c)) : z = One(x, c)
    <3>1. PICK s \in RamWritten(w.s, n, c) : z = One([w EXCEPT !.s = s], c) BY <2>4 DEF OnStore
    <3>2. Fine(w, One([w EXCEPT !.s = s], c), {<<Ram, <<n>>>>}) BY <1>3, TakesImport DEF One
    <3> QED BY <2>1, <3>1, <3>2
  <2> QED BY <1>2, <2>3, <2>4
<1> QED BY <1>1, <1>2, <1>3

-----------------------------------------------------------------------------
\* The deletion: from KvFS, then from the RAM disk, then everyone is told.
BothTold(F, n) ==
    /\ F.name = n => F.ram = -1 /\ F.kv = -1
    /\ F.target.v \in {"ram", "kv"} /\ F.target.v # None /\ F.target.p = <<n>> => F.target.rev = -1

LEMMA Gone ==
    ASSUME EditorsSound, NEW s, IsStore(s), OneEach(s.tab), NEW o, Later(s, o), NEW n,
           \A k \in Media, q \in Paths : o.files[k][q] # s.files[k][q] => k \in {Ram, Kv} /\ q = <<n>>,
           NEW e, NEW E, Doc(s, e, E), NEW F, Warned(E, F), BothTold(F, n)
    PROVE  Doc(o, e, F)
<1>1. Usable(F.name) /\ (F.target.v # None => F.target.p \in Paths) BY DEF Doc, Bound, Warned
<1>2. Ram \in Media /\ Kv \in Media BY DEF Media
<1>3. F.ram = -1 \/ o.files[Ram][<<F.name>>] = s.files[Ram][<<F.name>>] BY <1>1, <1>2 DEF BothTold, Usable
<1>4. F.kv = -1 \/ o.files[Kv][<<F.name>>] = s.files[Kv][<<F.name>>] BY <1>1, <1>2 DEF BothTold, Usable
<1>5. ASSUME Reaches(o, F), F.target.rev # -1
      PROVE  o.files[MediumAt(s, F.target.v)][F.target.p] = s.files[MediumAt(s, F.target.v)][F.target.p]
  <2>1. Mounted(s, F.target.v) /\ F.target.v # None BY <1>5 DEF Reaches, VfsWritable, Mounted, Later
  <2>2. /\ MediumAt(s, F.target.v) \in Media
        /\ MediumAt(s, F.target.v) \in {Ram, Kv} => F.target.v \in {"ram", "kv"} BY <2>1, Natives
  <2> QED BY <1>1, <1>5, <2>1, <2>2 DEF BothTold
<1>6. Spared(s, o, F) BY <1>3, <1>4, <1>5 DEF Spared
<1> QED BY <1>6, StillTrue

\* The two tellings of the other editor.
LEMMA ToldBoth ==
    ASSUME NEW w, Worldly(w), NEW e \in Ed, Plain(w.ed[Sibling(e)]), NEW n, Ram # Kv
    PROVE  LET x == StorageChanged(StorageChanged(w, e, n, Ram), e, n, Kv) IN
           Aside(w, x, e) /\ BothTold(x.ed[Sibling(e)], n)
<1> DEFINE y == StorageChanged(w, e, n, Ram)
           x == StorageChanged(y, e, n, Kv)
           E == w.ed[Sibling(e)]
           F == y.ed[Sibling(e)]
           G == x.ed[Sibling(e)]
<1>1. /\ Aside(w, y, e) /\ (F.name = n => F.ram = -1)
      /\ F.target.v = "ram" /\ F.target.v # None /\ F.target.p = <<n>> => F.target.rev = -1 BY StorageChanges
<1> HIDE DEF y
<1>2. Worldly(y) /\ Plain(F) /\ Warned(E, F) BY <1>1, WarnedPlain DEF Aside
<1>3. /\ Aside(y, x, e) /\ (G.name = n => G.kv = -1)
      /\ G.target.v = "kv" /\ G.target.v # None /\ G.target.p = <<n>> => G.target.rev = -1 BY <1>2, StorageChanges
<1> HIDE DEF x
<1>4. Aside(w, x, e) BY <1>1, <1>3, AsideTwice
<1>5. Warned(F, G) BY <1>3 DEF Aside
<1>6. BothTold(G, n) BY <1>1, <1>3, <1>5 DEF Warned, BothTold
<1> QED BY <1>4, <1>6 DEF x, y

\* The own document: its text is kept, of its files nothing.
WithoutFiles(E) == [Unsure(E) EXCEPT !.ram = -1, !.kv = -1, !.mode = "edit", !.named = FALSE]

LEMMA OwnGone ==
    ASSUME NEW s, IsStore(s), NEW o, Later(s, o), NEW e, NEW E, Doc(s, e, E), E.target.v = None
    PROVE  Doc(o, e, WithoutFiles(E))
<1> DEFINE F == [E EXCEPT !.ram = -1, !.kv = -1]
           G == WithoutFiles(E)
<1>1. DOMAIN E = DocFields BY DEF Doc
<1>2. Warned(E, F) /\ F.target = E.target /\ F.ram = -1 /\ F.kv = -1 BY <1>1 DEF Warned, DocFields
<1>3. /\ DOMAIN G = DocFields /\ G.t = F.t /\ G.rev = F.rev /\ G.serial = F.serial /\ G.older = F.older
      /\ G.name = F.name /\ G.ram = -1 /\ G.kv = -1 /\ G.target = F.target /\ G.mode = "edit"
      /\ G.pending = F.pending /\ G.nameIn = F.nameIn /\ G.pick = F.pick BY <1>1 DEF Unsure, DocFields, WithoutFiles
<1> HIDE DEF F, G
<1>4. Spared(s, o, F) BY <1>2 DEF Spared, Reaches
<1>5. Doc(o, e, F) BY <1>2, <1>4, StillTrue
<1>6. Asked(o, e, G) BY <1>3, <1>5 DEF Doc, Asked
<1>7. Usable(G.name) /\ (e = "dev" => G.name \in DevNames) BY <1>3, <1>5 DEF Doc
<1>8. Doc(o, e, G) BY <1>2, <1>3, <1>5, <1>6, <1>7, Resaved
<1> QED BY <1>8 DEF G

\* KvFS refused, and the file is there or not.
LEMMA DoubtHolds ==
    ASSUME EditorsSound, NEW s, IsStore(s), NEW o, o.gen # s.gen, NEW n, Wrote(s, o, Kv, <<n>>),
           NEW e, NEW E, Doc(s, e, E)
    PROVE  Doc(o, e, [E EXCEPT !.doubt = @ \/ E.name = n])
<1> DEFINE F == [E EXCEPT !.doubt = @ \/ E.name = n]
<1>1. DOMAIN E = DocFields /\ Usable(E.name) BY DEF Doc
<1>2. Warned(E, F) /\ F.name = E.name /\ F.target = E.target /\ (E.name = n => F.doubt) BY <1>1 DEF Warned, DocFields
<1> HIDE DEF F
<1>3. Later(s, o) /\ \A k \in Media, q \in Paths : o.files[k][q] # s.files[k][q] => k = Kv /\ q = <<n>> BY DEF Wrote
<1>4. Ram # Kv /\ Ram \in Media /\ Kv \in Media BY DEF EditorsSound, VolumesSound, Media
<1>5. o.files[Ram][<<F.name>>] = s.files[Ram][<<F.name>>] BY <1>1, <1>2, <1>3, <1>4 DEF Usable
<1>6. F.doubt \/ o.files[Kv][<<F.name>>] = s.files[Kv][<<F.name>>] BY <1>1, <1>2, <1>3, <1>4 DEF Usable
<1>7. ~Reaches(o, F)
  <2>1. o.gen > s.gen /\ o.gen \in Nat /\ s.gen \in Nat BY <1>3 DEF Later, IsStore
  <2>2. E.target.v # None => E.target.gen \in Nat /\ E.target.gen <= s.gen BY DEF Doc, Bound, KnownAs
  <2> QED BY <1>2, <2>1, <2>2 DEF Reaches
<1>8. Spared(s, o, F) BY <1>5, <1>6, <1>7 DEF Spared
<1>9. Doc(o, e, F) BY <1>2, <1>3, <1>8, StillTrue
<1> QED BY <1>9 DEF F

GoneFrom(w, e, s) ==
    LET n == w.ed[e].name
        y == [[w EXCEPT !.s = s] EXCEPT !.s.files = Put([w EXCEPT !.s = s].s, Ram, <<n>>, None)]
        z == StorageChanged(StorageChanged(y, e, n, Ram), e, n, Kv) IN
    Set(z, e, WithoutFiles(z.ed[e]))

LEMMA Goes ==
    ASSUME EditorsSound, NEW w, Good(w), NEW e \in Ed, w.ed[e].target.v = None,
           NEW s, Wrote(w.s, s, Kv, <<w.ed[e].name>>), s.kv = w.s.kv,
           s.files = w.s.files \/ w.s.kv
    PROVE  Fine(w, GoneFrom(w, e, s), LocalPlaces(w.s, w.ed[e].name))
<1> DEFINE E == w.ed[e]
           n == E.name
           u == [w EXCEPT !.s = s]
           fs == Put(u.s, Ram, <<n>>, None)
           q == [s EXCEPT !.files = fs]
           y == [u EXCEPT !.s.files = fs]
           z == StorageChanged(StorageChanged(y, e, n, Ram), e, n, Kv)
           x == Set(z, e, WithoutFiles(z.ed[e]))
<1>1. Worldly(w) /\ IsStore(w.s) /\ OneEach(w.s.tab) /\ Doc(w.s, e, E) /\ Doc(w.s, Sibling(e), w.ed[Sibling(e)])
  BY Siblings DEF Good, Worldly
<1>2. /\ IsStore(s) /\ Shaped(s.files) /\ s.tab = w.s.tab /\ Later(w.s, s)
      /\ \A k \in Media, p \in Paths : s.files[k][p] # w.s.files[k][p] => k = Kv /\ p = <<n>> BY DEF Wrote, Later
<1>3. Worldly(u) /\ u.s = s /\ u.ed = w.ed BY <1>1, <1>2, OnStores
<1>4. /\ Shaped(fs)
      /\ \A k \in Media, p \in Paths : fs[k][p] = IF k = Ram /\ p = <<n>> THEN None ELSE s.files[k][p]
  BY <1>2, <1>3, PutAt
<1>5. y = [u EXCEPT !.s = q] BY <1>3
<1> HIDE DEF fs, u, y
<1>6. q.files = fs /\ q.tab = s.tab /\ q.gen = s.gen /\ q.rw = s.rw /\ q.kv = s.kv /\ IsStore(q)
  BY <1>2 DEF IsStore, Fields
<1> HIDE DEF q
<1>7. Later(w.s, q) BY <1>2, <1>4, <1>6 DEF Later
<1>8. \A k \in Media, p \in Paths : q.files[k][p] # w.s.files[k][p] => k \in {Ram, Kv} /\ p = <<n>>
  BY <1>2, <1>4, <1>6
<1>9. Worldly(y) /\ y.s = q /\ y.ed = w.ed BY <1>2, <1>3, <1>4, <1>5, <1>6, OnStores
<1>10. Plain(w.ed[Sibling(e)]) BY <1>1, DocPlain
<1>11. Ram # Kv BY DEF EditorsSound, VolumesSound
<1>12. Aside(y, z, e) /\ BothTold(z.ed[Sibling(e)], n) BY <1>9, <1>10, <1>11, ToldBoth
<1> HIDE DEF z, E, n
<1>13. Doc(q, Sibling(e), z.ed[Sibling(e)])
  <2>1. Warned(w.ed[Sibling(e)], z.ed[Sibling(e)]) BY <1>9, <1>12 DEF Aside
  <2> QED BY <1>1, <1>7, <1>8, <1>12, <2>1, Gone
<1>14. Doc(q, e, WithoutFiles(E)) BY <1>1, <1>7, OwnGone DEF E
<1>15. Worldly(z) /\ z.s = q /\ z.ed[e] = E BY <1>9, <1>12 DEF Aside, E
<1>16. Good(x) /\ x.s = q BY <1>13, <1>14, <1>15, GoodWith, Sets
<1> HIDE DEF x
<1>17. \A k \in Media, p \in Paths : q.files[k][p] # w.s.files[k][p] => <<k, p>> \in LocalPlaces(w.s, n)
  <2>1. CASE w.s.kv BY <1>8, <2>1 DEF LocalPlaces
  <2>2. CASE ~w.s.kv
    <3>1. s.files = w.s.files BY <2>2
    <3> QED BY <1>4, <1>6, <3>1 DEF LocalPlaces
  <2> QED BY <2>1, <2>2
<1>18. Steps(w, x, LocalPlaces(w.s, n)) BY <1>6, <1>7, <1>16, <1>17 DEF Steps
<1>19. Fine(w, x, LocalPlaces(w.s, n)) BY <1>16, <1>18 DEF Fine
<1> QED BY <1>19 DEF GoneFrom, x, z, y, fs, u, E, n

LEMMA Deletes ==
    ASSUME EditorsSound, NEW w, Good(w), NEW e \in Ed, w.ed[e].mode = "delete", NEW z \in DeleteAccept(w, e)
    PROVE  Fine(w, z, LocalPlaces(w.s, w.ed[e].name))
<1> DEFINE n == w.ed[e].name
           onDisk == w.s.kv /\ w.s.files[Kv][<<n>>] # None
           fs == Put(w.s, Kv, <<n>>, None)
           inKv == IF onDisk THEN Done(w.s, 0, fs) \cup Broken(w.s, -1, Kv, fs) ELSE {Ret(w.s, 0)}
<1>1. PICK s \in inKv : z = IF [w EXCEPT !.s = s].s.r = 0 THEN GoneFrom(w, e, s) ELSE Doubted([w EXCEPT !.s = s], n)
  BY DEF DeleteAccept, OnStore, GoneFrom, WithoutFiles
<1>2. Worldly(w) /\ IsStore(w.s) /\ Shaped(w.s.files) /\ Asked(w.s, e, w.ed[e]) BY GoodFramed DEF Good, Worldly
<1>3. w.ed[e].target.v = None BY <1>2 DEF Asked
<1>4. [w EXCEPT !.s = s].s = s BY <1>2 DEF Worldly, WorldFields
<1> HIDE DEF fs
<1>5. CASE s = Ret(w.s, 0)
  <2>1. Keeps(w.s, s) /\ s.r = 0 BY <1>2, <1>5, Rets
  <2>2. Outcome(w.s, s, Kv, Put(w.s, Kv, <<n>>, None)) BY <1>2, <2>1, Keepers
  <2>3. Wrote(w.s, s, Kv, <<n>>) BY <1>2, <2>2, PutWrote
  <2>4. s.kv = w.s.kv /\ s.files = w.s.files BY <2>1 DEF Keeps
  <2>5. Fine(w, GoneFrom(w, e, s), LocalPlaces(w.s, n)) BY <1>3, <2>3, <2>4, Goes
  <2> QED BY <1>1, <1>4, <2>1, <2>5
<1>6. CASE w.s.kv /\ s \in Done(w.s, 0, fs)
  <2>1. Outcome(w.s, s, Kv, fs) /\ s.r = 0 BY <1>2, <1>6, Dones
  <2>2. Wrote(w.s, s, Kv, <<n>>) BY <1>2, <2>1, PutWrote DEF fs
  <2>3. s.kv = w.s.kv BY <2>1 DEF Outcome
  <2>4. Fine(w, GoneFrom(w, e, s), LocalPlaces(w.s, n)) BY <1>3, <1>6, <2>2, <2>3, Goes
  <2> QED BY <1>1, <1>4, <2>1, <2>4
<1>7. CASE w.s.kv /\ s \in Broken(w.s, -1, Kv, fs)
  <2> DEFINE x == [w EXCEPT !.s = s]
             y == Doubted(x, n)
  <2>1. Outcome(w.s, s, Kv, fs) /\ s.r = -1 BY <1>2, <1>7, Brokens
  <2>2. Wrote(w.s, s, Kv, <<n>>) BY <1>2, <2>1, PutWrote DEF fs
  <2>3. s.gen # w.s.gen
    <3>1. PICK f : s = [w.s EXCEPT !.r = -1, !.files = f, !.kv = FALSE, !.gen = w.s.gen + 1] BY <1>7 DEF Broken
    <3>2. s.gen = w.s.gen + 1 BY <1>2, <3>1 DEF IsStore, Fields
    <3> QED BY <1>2, <3>2 DEF IsStore
  <2>4. Later(w.s, s) /\ IsStore(s) /\ Shaped(s.files) /\ s.tab = w.s.tab BY <2>2 DEF Wrote, Later
  <2>5. Worldly(x) /\ x.s = s /\ x.ed = w.ed BY <1>2, <2>4, OnStores
  <2> HIDE DEF x, n
  <2>6. InDoubt(x, y, n) BY <2>5, Doubts
  <2> HIDE DEF y
  <2>7. Worldly(y) /\ y.s = s /\ \A o \in Ed : y.ed[o] = [w.ed[o] EXCEPT !.doubt = @ \/ w.ed[o].name = n]
    BY <2>5, <2>6 DEF InDoubt
  <2>8. ASSUME NEW o \in Ed PROVE Doc(s, o, [w.ed[o] EXCEPT !.doubt = @ \/ w.ed[o].name = n])
    <3>1. Doc(w.s, o, w.ed[o]) BY DEF Good
    <3> QED BY <1>2, <2>2, <2>3, <3>1, DoubtHolds
  <2>9. \A o \in Ed : Doc(y.s, o, y.ed[o]) BY <2>7, <2>8
  <2>10. Good(y) BY <2>7, <2>9 DEF Good
  <2>11. Steps(w, y, LocalPlaces(w.s, n)) BY <1>7, <2>1, <2>2, <2>4, <2>7 DEF Steps, Wrote, LocalPlaces
  <2>12. z = y BY <1>1, <1>4, <2>1 DEF y, x, n
  <2> QED BY <2>10, <2>11, <2>12 DEF Fine, n
<1> QED BY <1>1, <1>5, <1>6, <1>7

\* The list of files is left with a name: ed_load.
LEMMA OpensDoc ==
    ASSUME EditorsSound, NEW w, Good(w), NEW e \in Ed, NameOk(e, w.ed[e].nameIn),
           NEW z \in DoPending([w EXCEPT !.ed[e].pending = "load"], e), NEW P
    PROVE  Fine(w, z, P)
<1> DEFINE E == w.ed[e]
           D == [E EXCEPT !.pending = "load"]
           v == [w EXCEPT !.ed[e].pending = "load"]
           x == Set(v, e, Shut(D))
           n == E.nameIn
           Then(y) == IF y.ok THEN y ELSE Mode(y, e, "open")
<1>1. Framed(w, e) /\ Worldly(w) /\ Sibling(e) \in Ed /\ Sibling(e) # e BY GoodFramed, Siblings DEF Good
<1>2. DOMAIN E = DocFields /\ Picking(E) /\ Held(w.s, e, E) /\ Doc(w.s, Sibling(e), w.ed[Sibling(e)])
  BY <1>1 DEF Framed, Held
<1>3. v = Set(w, e, D) BY DEF Set
<1>4. SameText(E, D) /\ D.pending = "load" /\ D.nameIn = n BY <1>2 DEF SameText, DocFields
<1>5. Held(w.s, e, D) BY <1>2, <1>4, HeldStill
<1>6. Picking([D EXCEPT !.pending = "none"]) BY <1>2 DEF Picking, Pendings, DocFields
<1> HIDE DEF E, D, v, n
<1>7. Worldly(v) /\ v.s = w.s /\ v.ed[e] = D /\ v.ed[Sibling(e)] = w.ed[Sibling(e)] BY <1>1, <1>3, Sets
<1>8. Shown(v, x, e) BY <1>2, <1>5, <1>6, <1>7, Shuts
<1>9. Good(x) /\ x.s = w.s BY <1>7, <1>8 DEF Shown, Redrawn
<1>10. Usable(n) BY <1>2 DEF Picking, NameOk, n, E
<1>11. PICK y \in Load(x, e, n) : z = Then(y)
  <2>1. z \in DoPending(v, e) BY DEF v
  <2>2. z \in {IF y.ok THEN y ELSE Mode(y, e, "open") : y \in Load(Set(v, e, [v.ed[e] EXCEPT !.mode = "edit", !.pending = "none"]), e, v.ed[e].nameIn)}
    BY <1>4, <1>7, <2>1 DEF DoPending
  <2>3. z \in {Then(y) : y \in Load(x, e, n)} BY <1>4, <1>7, <2>2 DEF Shut
  <2> QED BY <2>3
<1> HIDE DEF x
<1>12. Replaced(x, y) BY <1>9, <1>10, <1>11, LoadsDoc DEF n, E
<1>13. Allowed(y.s, e, y.ed[e], "open") BY DEF Allowed, Binding
<1>14. Good(z) /\ z.s = w.s BY <1>9, <1>11, <1>12, <1>13, Modes DEF Replaced, Shown, Redrawn
<1>15. Replaced(w, z) BY <1>14 DEF Replaced
<1> QED BY <1>15, ReplacedSteps

-----------------------------------------------------------------------------
\* The files that editor e may write in the state it is in.
Named(e) == {x \in Media \X Paths : Local(ed[e], x[1], x[2]) \/ Imports(ed[e], x[1], x[2]) \/ Chosen(ed[e], x[1], x[2])}

LEMMA WorldIs == /\ DOMAIN World = WorldFields /\ World.s = Now /\ World.ed = ed /\ World.run = running
                 /\ World.mask = mask /\ World.ok /\ World.s.files = files /\ World.s.kv = kvMounted
BY DEF World, WorldFields, Now

LEMMA FineNamed ==
    ASSUME NEW z, NEW P, Fine(World, z, P), NEW e \in Ed,
           \A m \in Media, p \in Paths : <<m, p>> \in P => <<m, p>> \in Named(e)
    PROVE  Fine(World, z, Named(e)) BY DEF Fine, Steps

LEMMA LocalNamed ==
    ASSUME NEW e \in Ed, NEW n, NEW m \in Media, NEW p \in Paths, <<m, p>> \in LocalPlaces(World.s, n)
    PROVE  Flat(m) /\ p = <<n>> /\ (m = Ram \/ (m = Kv /\ kvMounted)) BY WorldIs DEF LocalPlaces, Flat

\* A save of a document that has a name, or of one whose name is not taken.
LEMMA SaveNamed ==
    ASSUME EditorsSound, Good(World), NEW e \in Ed, ed[e].mode \in {"edit", "dirty"},
           ed[e].named \/ ed[e].imported \/ ~Exists(World, ed[e].name),
           NEW m \in Media, NEW p \in Paths, <<m, p>> \in SavePlaces(World, e)
    PROVE  <<m, p>> \in Named(e)
<1>1. CASE ed[e].target.v # None
  <2>1. m = ed[e].target.on /\ p = ed[e].target.p BY <1>1, WorldIs DEF SavePlaces
  <2> QED BY <1>1, <2>1 DEF Named, Chosen
<1>2. CASE ed[e].target.v = None
  <2>1. <<m, p>> \in LocalPlaces(World.s, ed[e].name) BY <1>2, WorldIs DEF SavePlaces
  <2>2. Flat(m) /\ p = <<ed[e].name>> /\ (m = Ram \/ (m = Kv /\ kvMounted)) BY <2>1, LocalNamed
  <2>3. ~Exists(World, ed[e].name) => files[m][p] = None BY <2>2, WorldIs DEF Exists
  <2>4. Local(ed[e], m, p) BY <2>2, <2>3 DEF Local
  <2> QED BY <2>4 DEF Named
<1> QED BY <1>1, <1>2

\* ed_accept
Accepted(e, z) ==
    LET E == ed[e] IN
    \/ E.mode \in {"dest", "destReplace"} /\ z \in DestAccept(World, e)
    \/ E.mode \in {"import", "importReplace"} /\ z \in ImportAccept(World, e)
    \/ E.mode = "dirty" /\ ~E.named /\ z = PromptSave(World, e)
    \/ E.mode = "dirty" /\ E.named /\ \E x \in Save(World, e) : z \in IF x.ok THEN DoPending(x, e) ELSE {x}
    \/ E.mode = "overwrite" /\ z \in CommitSave(World, e)
    \/ E.mode = "delete" /\ z \in DeleteAccept(World, e)
    \/ E.mode = "open" /\ NameOk(e, E.nameIn) /\ z \in DoPending([World EXCEPT !.ed[e].pending = "load"], e)
    \/ /\ E.mode = "save" /\ NameOk(e, E.nameIn) /\ Exists(World, E.nameIn) /\ (~E.named \/ E.nameIn # E.name)
       /\ z = Mode(World, e, "overwrite")
    \/ /\ E.mode = "save" /\ NameOk(e, E.nameIn) /\ ~(Exists(World, E.nameIn) /\ (~E.named \/ E.nameIn # E.name))
       /\ z \in CommitSave(World, e)
    \/ z = World

LEMMA AcceptIs == ASSUME NEW e, NEW z \in Accept(World, e) PROVE Accepted(e, z)
<1> DEFINE E == ed[e]
           m == E.mode
           dirty == IF ~E.named THEN {PromptSave(World, e)}
                    ELSE UNION {IF x.ok THEN DoPending(x, e) ELSE {x} : x \in Save(World, e)}
           save == IF Exists(World, E.nameIn) /\ (~E.named \/ E.nameIn # E.name) THEN {Mode(World, e, "overwrite")}
                   ELSE CommitSave(World, e)
<1>1. \/ m \in {"dest", "destReplace"} /\ z \in DestAccept(World, e)
      \/ m \in {"import", "importReplace"} /\ z \in ImportAccept(World, e)
      \/ m = "dirty" /\ z \in dirty
      \/ m = "overwrite" /\ z \in CommitSave(World, e)
      \/ m = "delete" /\ z \in DeleteAccept(World, e)
      \/ m = "open" /\ NameOk(e, E.nameIn) /\ z \in DoPending([World EXCEPT !.ed[e].pending = "load"], e)
      \/ m = "save" /\ NameOk(e, E.nameIn) /\ z \in save
      \/ z = World BY WorldIs DEF Accept
<1>2. CASE m = "dirty" /\ z \in dirty
  <2>1. CASE ~E.named BY <1>2, <2>1 DEF Accepted
  <2>2. CASE E.named
    <3> DEFINE Then(x) == IF x.ok THEN DoPending(x, e) ELSE {x}
    <3>1. z \in UNION {Then(x) : x \in Save(World, e)} BY <1>2, <2>2
    <3> HIDE DEF Then
    <3>2. PICK x \in Save(World, e) : z \in Then(x) BY <3>1, Zenon
    <3>3. z \in IF x.ok THEN DoPending(x, e) ELSE {x} BY <3>2 DEF Then
    <3> QED BY <1>2, <2>2, <3>3 DEF Accepted
  <2> QED BY <2>1, <2>2
<1>3. CASE m = "save" /\ NameOk(e, E.nameIn) /\ z \in save
  <2>1. CASE Exists(World, E.nameIn) /\ (~E.named \/ E.nameIn # E.name)
    <3>1. z = Mode(World, e, "overwrite") BY <1>3, <2>1
    <3> QED BY <1>3, <2>1, <3>1 DEF Accepted
  <2>2. CASE ~(Exists(World, E.nameIn) /\ (~E.named \/ E.nameIn # E.name))
    <3>1. z \in CommitSave(World, e) BY <1>3, <2>2
    <3> QED BY <1>3, <2>2, <3>1 DEF Accepted
  <2> QED BY <2>1, <2>2
<1> QED BY <1>1, <1>2, <1>3 DEF Accepted

LEMMA Accepts ==
    ASSUME EditorsSound, Good(World), NEW e \in Ed, NEW z \in Accept(World, e)
    PROVE  Fine(World, z, Named(e))
<1> DEFINE E == ed[e]
<1>1. /\ World.ed[e] = E /\ World.ok /\ World.s.files = files /\ Worldly(World) /\ IsStore(World.s)
  BY WorldIs DEF Good, Worldly
<1>2. Asked(World.s, e, E) /\ Held(World.s, e, E) BY <1>1, GoodFramed DEF Framed
<1>3. CASE E.mode \in {"dest", "destReplace"} /\ z \in DestAccept(World, e)
  <2>1. Fine(World, z, DestPlaces(World.s, E)) BY <1>1, <1>3, DestAccepts
  <2>2. ASSUME NEW m \in Media, NEW p \in Paths, <<m, p>> \in DestPlaces(World.s, E) PROVE <<m, p>> \in Named(e)
    BY <1>1, <2>2 DEF DestPlaces, MayReplace, DestPath, Named, Chosen
  <2> QED BY <2>1, <2>2, FineNamed
<1>4. CASE E.mode \in {"import", "importReplace"} /\ z \in ImportAccept(World, e)
  <2>1. Fine(World, z, ImportPlaces(World.s, E)) BY <1>1, <1>4, ImportAccepts
  <2>2. ASSUME NEW m \in Media, NEW p \in Paths, <<m, p>> \in ImportPlaces(World.s, E) PROVE <<m, p>> \in Named(e)
    BY <1>1, <2>2 DEF ImportPlaces, MayImport, Named, Imports
  <2> QED BY <2>1, <2>2, FineNamed
<1>5. CASE E.mode = "dirty" /\ ~E.named /\ z = PromptSave(World, e)
  <2>1. E.target.v = None BY <1>2, <1>5 DEF Held, Bound
  <2> QED BY <1>1, <1>5, <2>1, Prompts, ShownSteps
<1>6. CASE E.mode = "dirty" /\ E.named /\ \E x \in Save(World, e) : z \in IF x.ok THEN DoPending(x, e) ELSE {x}
  <2>1. PICK x \in Save(World, e) : z \in IF x.ok THEN DoPending(x, e) ELSE {x} BY <1>6
  <2>2. Fine(World, x, SavePlaces(World, e)) /\ Steady(E, x.ed[e]) BY <1>1, <2>1, Saves DEF SavedAs
  <2>3. Fine(World, x, Named(e)) BY <1>6, <2>2, SaveNamed, FineNamed
  <2>4. CASE x.ok
    <3>1. Fine(x, z, PendingPlaces(x, e)) BY <2>1, <2>2, <2>4, DoesPending DEF Fine
    <3>2. PendingPlaces(x, e) \subseteq Named(e) BY <1>2, <1>6, <2>2 DEF Asked, Steady, PendingPlaces
    <3>3. Good(z) /\ Steps(x, z, Named(e)) BY <3>1, <3>2, StepsMore DEF Fine
    <3> QED BY <1>1, <2>3, <3>3, StepsTwice DEF Fine
  <2> QED BY <2>1, <2>3, <2>4
<1>7. CASE E.mode = "overwrite" /\ z \in CommitSave(World, e)
  <2>1. E.target.v = None /\ NameOk(e, E.nameIn) BY <1>2, <1>7 DEF Asked
  <2>2. Fine(World, z, LocalPlaces(World.s, E.nameIn)) BY <1>1, <1>7, <2>1, Commits
  <2>3. ASSUME NEW m \in Media, NEW p \in Paths, <<m, p>> \in LocalPlaces(World.s, E.nameIn) PROVE <<m, p>> \in Named(e)
    BY <1>7, <2>3, LocalNamed DEF Named, Local
  <2> QED BY <2>2, <2>3, FineNamed
<1>8. CASE E.mode = "delete" /\ z \in DeleteAccept(World, e)
  <2>1. Fine(World, z, LocalPlaces(World.s, E.name)) BY <1>1, <1>8, Deletes
  <2>2. ASSUME NEW m \in Media, NEW p \in Paths, <<m, p>> \in LocalPlaces(World.s, E.name) PROVE <<m, p>> \in Named(e)
    BY <1>8, <2>2, LocalNamed DEF Named, Local
  <2> QED BY <2>1, <2>2, FineNamed
<1>9. CASE E.mode = "open" /\ NameOk(e, E.nameIn) /\ z \in DoPending([World EXCEPT !.ed[e].pending = "load"], e)
  BY <1>1, <1>9, OpensDoc
<1>10. CASE /\ E.mode = "save" /\ NameOk(e, E.nameIn) /\ z = Mode(World, e, "overwrite")
  <2>1. Allowed(World.s, e, E, "overwrite") BY <1>2, <1>10 DEF Allowed, Asked
  <2> QED BY <1>1, <1>10, <2>1, Modes, ShownSteps
<1>11. CASE /\ E.mode = "save" /\ NameOk(e, E.nameIn) /\ ~(Exists(World, E.nameIn) /\ (~E.named \/ E.nameIn # E.name))
            /\ z \in CommitSave(World, e)
  <2>1. E.target.v = None BY <1>2, <1>11 DEF Asked
  <2>2. Fine(World, z, LocalPlaces(World.s, E.nameIn)) BY <1>1, <1>11, <2>1, Commits
  <2>3. ASSUME NEW m \in Media, NEW p \in Paths, <<m, p>> \in LocalPlaces(World.s, E.nameIn) PROVE <<m, p>> \in Named(e)
    <3>1. Flat(m) /\ p = <<E.nameIn>> /\ (m = Ram \/ (m = Kv /\ kvMounted)) BY <2>3, LocalNamed
    <3>2. ~Exists(World, E.nameIn) => files[m][p] = None BY <3>1, WorldIs DEF Exists
    <3>3. Local(ed[e], m, p) BY <1>11, <3>1, <3>2 DEF Local
    <3> QED BY <3>3 DEF Named
  <2> QED BY <2>2, <2>3, FineNamed
<1>12. CASE z = World
  <2>1. Replaced(World, z) BY <1>12 DEF Replaced
  <2> QED BY <2>1, ReplacedSteps
<1>13. Accepted(e, z) BY AcceptIs
<1> QED BY <1>3, <1>4, <1>5, <1>6, <1>7, <1>8, <1>9, <1>10, <1>11, <1>12, <1>13 DEF Accepted

\* ed_cancel
LEMMA Cancels ==
    ASSUME EditorsSound, NEW w, Good(w), NEW e \in Ed
    PROVE  Replaced(w, Cancel(w, e))
<1> DEFINE E == w.ed[e]
           y == Set(w, e, Shut(E))
<1>1. Framed(w, e) /\ Asked(w.s, e, E) BY GoodFramed
<1>2. CASE E.mode = "destReplace"
  <2>1. Allowed(w.s, e, E, "dest") BY <1>1, <1>2 DEF Allowed, Asked, Binding
  <2>2. Shown(w, Mode(w, e, "dest"), e) BY <2>1, Modes
  <2> QED BY <1>2, <2>2 DEF Cancel, Shown, Redrawn, Replaced
<1>3. CASE E.mode = "importReplace"
  <2>1. Allowed(w.s, e, E, "import") BY DEF Allowed, Binding
  <2>2. Shown(w, Mode(w, e, "import"), e) BY <2>1, Modes
  <2> QED BY <1>3, <2>2 DEF Cancel, Shown, Redrawn, Replaced
<1>4. CASE E.mode = "overwrite"
  <2>1. Allowed(w.s, e, E, "save") BY <1>1, <1>4 DEF Allowed, Asked, Binding
  <2>2. Shown(w, Mode(w, e, "save"), e) BY <2>1, Modes
  <2> QED BY <1>4, <2>2 DEF Cancel, Shown, Redrawn, Replaced
<1>5. CASE E.mode \notin {"destReplace", "importReplace", "overwrite"}
  <2>1. Worldly(w) /\ Held(w.s, e, E) /\ Picking(E) /\ DOMAIN E = DocFields /\ Doc(w.s, Sibling(e), w.ed[Sibling(e)])
    BY <1>1 DEF Framed, Held
  <2>2. Picking([E EXCEPT !.pending = "none"]) BY <2>1 DEF Picking, Pendings, DocFields
  <2>3. Shown(w, y, e) BY <2>1, <2>2, Shuts
  <2>4. Cancel(w, e) = [y EXCEPT !.mask = {}] BY <1>5 DEF Cancel, Shut
  <2> HIDE DEF y
  <2>5. Good(y) /\ y.s = w.s BY <2>3 DEF Shown, Redrawn
  <2> DEFINE x == [y EXCEPT !.mask = {}]
  <2>6. DOMAIN x = WorldFields /\ x.s = y.s /\ x.ed = y.ed BY <2>5 DEF Good, Worldly, WorldFields
  <2> HIDE DEF x
  <2>7. Replaced(y, x) BY <2>5, <2>6, AlsoGood
  <2> QED BY <2>4, <2>5, <2>7 DEF x, Replaced
<1> QED BY <1>2, <1>3, <1>4, <1>5

-----------------------------------------------------------------------------
\* What the user does in a window: the world that is left is good, and only
\* files that were named have changed.
Doable(x) ==
    /\ Good(x)
    /\ \A m \in Media, p \in Paths : x.s.files[m][p] # files[m][p] => \E e \in Ed : <<m, p>> \in Named(e)

LEMMA FineDoable ==
    ASSUME NEW e \in Ed, NEW x, Fine(World, x, Named(e))
    PROVE  Doable(x) BY WorldIs DEF Fine, Steps, Doable

LEMMA ReplacedDoable ==
    ASSUME NEW x, Replaced(World, x)
    PROVE  Doable(x) BY WorldIs DEF Replaced, Doable

LEMMA ShownDoable ==
    ASSUME NEW e, NEW x, Shown(World, x, e)
    PROVE  Doable(x) BY WorldIs DEF Shown, Redrawn, Doable

\* A revision that was made, or the one an undo leads back to.
LEMMA EditedDoc ==
    ASSUME NEW s, NEW e, NEW E, Doc(s, e, E), NEW t, NEW r, NEW n,
           \/ r = E.serial + 1 /\ n = E.serial + 1
           \/ r = E.older.rev /\ t = E.older.t /\ r # -1 /\ n = E.serial
    PROVE  Doc(s, e, Edited(E, t, r, n))
<1> DEFINE F == Edited(E, t, r, n)
<1>1. /\ DOMAIN E = DocFields /\ Usable(E.name) /\ (e = "dev" => E.name \in DevNames)
      /\ Counted(E) /\ Bound(s, E) /\ Asked(s, e, E) /\ Trusted(s, E) BY DEF Doc
<1>2. /\ DOMAIN F = DocFields /\ F.t = t /\ F.rev = r /\ F.serial = n
      /\ F.older = [t |-> E.t, rev |-> E.rev]
      /\ F.name = E.name /\ F.named = E.named /\ F.imported = E.imported /\ F.ram = E.ram /\ F.kv = E.kv
      /\ F.target = E.target /\ F.doubt = E.doubt
      /\ F.mode = E.mode /\ F.pending = E.pending /\ F.nameIn = E.nameIn /\ F.pick = E.pick
  BY <1>1 DEF Edited, DocFields
<1> HIDE DEF F
<1>3. F.older.t = E.t /\ F.older.rev = E.rev BY <1>2
<1>4. Counted(F) BY <1>1, <1>2, <1>3 DEF Counted
<1>5. Bound(s, F) BY <1>1, <1>2 DEF Bound
<1>6. Asked(s, e, F) BY <1>1, <1>2, AskedSame
<1>7. ASSUME NEW q \in -1 .. E.serial, NEW c, HasRev(E, q, c) PROVE HasRev(F, q, c)
  BY <1>1, <1>2, <1>3, <1>7 DEF HasRev, Counted
<1>8. Reaches(s, F) = Reaches(s, E) BY <1>2 DEF Reaches, KeepCutShort
<1>9. Reaches(s, E) => E.target.rev \in -1 .. E.serial BY <1>1 DEF Reaches, Counted
<1>10. E.ram \in -1 .. E.serial /\ E.kv \in -1 .. E.serial BY <1>1 DEF Counted
<1>11. Trusted(s, F) BY <1>1, <1>2, <1>7, <1>8, <1>9, <1>10 DEF Trusted
<1>12. Doc(s, e, F) BY <1>1, <1>2, <1>4, <1>5, <1>6, <1>11 DEF Doc
<1> QED BY <1>12 DEF F

LEMMA Edits ==
    ASSUME EditorsSound, Good(World), NEW e \in Ed, Type(e) \/ Undo(e)
    PROVE  \E x : Turn(x) /\ Doable(x)
<1>1. World.ed[e] = ed[e] /\ Doc(World.s, e, ed[e]) BY WorldIs DEF Good
<1>2. CASE Type(e)
  <2>1. PICK t \in Typed : Turn(Set(World, e, Edited(ed[e], t, ed[e].serial + 1, ed[e].serial + 1))) BY <1>2 DEF Type
  <2>2. Doc(World.s, e, Edited(ed[e], t, ed[e].serial + 1, ed[e].serial + 1)) BY <1>1, EditedDoc
  <2> QED BY <2>1, <2>2, Replaces, ReplacedDoable
<1>3. CASE Undo(e)
  <2>1. ed[e].older.rev # -1 /\ Turn(Set(World, e, Edited(ed[e], ed[e].older.t, ed[e].older.rev, ed[e].serial)))
    BY <1>3 DEF Undo
  <2>2. Doc(World.s, e, Edited(ed[e], ed[e].older.t, ed[e].older.rev, ed[e].serial)) BY <1>1, <2>1, EditedDoc
  <2> QED BY <2>1, <2>2, Replaces, ReplacedDoable
<1> QED BY <1>2, <1>3

\* The buttons of the window.
LEMMA Buttons ==
    ASSUME EditorsSound, Good(World), NEW e \in Ed,
           \/ SaveButton(e) \/ SaveAs(e) \/ Keep(e) \/ DeleteButton(e) \/ BuildButton(e)
           \/ \E a \in Leaves : Leave(e, a)
    PROVE  \E x : Turn(x) /\ Doable(x)
<1> DEFINE E == ed[e]
<1>1. /\ World.ed[e] = E /\ World.ok /\ Worldly(World) /\ IsStore(World.s) BY WorldIs DEF Good, Worldly
<1>2. Asked(World.s, e, E) /\ Held(World.s, e, E) BY <1>1, GoodFramed DEF Framed
<1>3. ASSUME NEW z \in {PromptSave(World, e)}, E.target.v = None PROVE Doable(z) BY <1>1, <1>3, Prompts, ShownDoable
<1>4. ~E.named => E.target.v = None BY <1>2 DEF Held, Bound
<1>5. CASE SaveButton(e)
  <2>1. PICK z \in IF E.named THEN Save(World, e) ELSE {PromptSave(World, e)} : Turn(z) BY <1>5 DEF SaveButton, Does
  <2>2. E.mode = "edit" BY <1>5 DEF SaveButton, In
  <2>3. CASE E.named
    <3>1. Fine(World, z, SavePlaces(World, e)) BY <1>1, <2>1, <2>3, Saves DEF SavedAs
    <3>2. Fine(World, z, Named(e)) BY <2>2, <2>3, <3>1, SaveNamed, FineNamed
    <3> QED BY <2>1, <3>2, FineDoable
  <2> QED BY <1>3, <1>4, <2>1, <2>3
<1>6. CASE SaveAs(e)
  <2>1. PICK z \in IF E.target.v # None THEN DestBegin(World, e) ELSE {PromptSave(World, e)} : Turn(z)
    BY <1>6 DEF SaveAs, Does
  <2>2. CASE z \in DestBegin(World, e) BY <2>1, <2>2, DestBegins, ShownDoable
  <2> QED BY <1>3, <2>1, <2>2
<1>7. CASE Keep(e)
  <2>1. PICK z \in SaveLocal(World, e) : Turn(z) BY <1>7 DEF Keep, Does
  <2>2. E.mode = "edit" /\ E.imported BY <1>7 DEF Keep, In
  <2>3. Kept(E) BY <1>2, <2>2 DEF Held, Bound, Kept
  <2>4. SavedLocally(World, z, e) BY <1>1, <2>1, <2>3, SavesLocal
  <2>5. Fine(World, z, LocalPlaces(World.s, E.name)) BY <1>1, <2>4 DEF SavedLocally, Fine
  <2>6. ASSUME NEW m \in Media, NEW p \in Paths, <<m, p>> \in LocalPlaces(World.s, E.name) PROVE <<m, p>> \in Named(e)
    BY <2>2, <2>6, LocalNamed DEF Named, Local
  <2>7. Fine(World, z, Named(e)) BY <2>5, <2>6, FineNamed
  <2> QED BY <2>1, <2>7, FineDoable
<1>8. CASE DeleteButton(e)
  <2>1. E.target.v = None /\ Turn(Mode(World, e, "delete")) BY <1>8 DEF DeleteButton
  <2>2. Allowed(World.s, e, World.ed[e], "delete") BY <1>1, <2>1 DEF Allowed
  <2> QED BY <2>1, <2>2, Modes, ShownDoable
<1>9. CASE BuildButton(e)
  <2> DEFINE x == [World EXCEPT !.ed[e].pending = "build"]
  <2>1. PICK z \in IF ~E.named /\ Exists(World, E.name) THEN {PromptSave(x, e)} ELSE Build(World, e) : Turn(z)
    BY <1>9 DEF BuildButton, Does
  <2>2. E.mode = "edit" BY <1>9 DEF BuildButton, In
  <2>3. CASE ~E.named /\ Exists(World, E.name)
    <3>1. Shown(World, x, e) BY <1>1, <2>2, Pends DEF Pendings
    <3>2. x.ed[e].target.v = None BY <1>1, <1>4, <2>3, <3>1 DEF Shown, Redrawn, SameText
    <3> HIDE DEF x
    <3>3. z = PromptSave(x, e) BY <2>1, <2>3
    <3>4. Good(x) BY <3>1 DEF Shown
    <3>5. Shown(x, z, e) BY <3>2, <3>3, <3>4, Prompts
    <3>6. Shown(World, z, e) BY <3>1, <3>5, RedrawnTwice DEF Shown
    <3> QED BY <2>1, <3>6, ShownDoable
  <2>4. CASE ~(~E.named /\ Exists(World, E.name))
    <3>1. z \in Build(World, e) BY <2>1, <2>4
    <3>2. Fine(World, z, SavePlaces(World, e)) BY <1>1, <3>1, Builds
    <3>3. Fine(World, z, Named(e)) BY <2>2, <2>4, <3>2, SaveNamed, FineNamed
    <3> QED BY <2>1, <3>3, FineDoable
  <2> QED BY <2>3, <2>4
<1>10. CASE \E a \in Leaves : Leave(e, a)
  <2>1. PICK a \in Leaves : \E z \in Request(World, e, a) : Turn(z) BY <1>10 DEF Leave, Does
  <2> PICK z \in Request(World, e, a) : Turn(z) BY <2>1
  <2>2. Fine(World, z, {}) BY <1>1, <2>1, Requests
  <2>3. Fine(World, z, Named(e)) BY <2>2, FineNamed
  <2> QED BY <2>1, <2>3, FineDoable
<1> QED BY <1>5, <1>6, <1>7, <1>8, <1>9, <1>10

\* A dialog that only redraws itself.
LEMMA OnlyShown ==
    ASSUME Good(World), NEW e \in Ed, NEW F, SameText(ed[e], F), Asked(World.s, e, F)
    PROVE  Doable(Set(World, e, F))
<1>1. World.ed[e] = ed[e] BY WorldIs
<1>2. Shown(World, Set(World, e, F), e) BY <1>1, GoodRedrawn DEF Shown
<1> QED BY <1>2, ShownDoable

LEMMA NamesEntered ==
    ASSUME EditorsSound, Good(World), NEW e \in Ed, EnterName(e) \/ EnterDestName(e) \/ ListOther(e)
    PROVE  \E x : Turn(x) /\ Doable(x)
<1> DEFINE E == ed[e]
<1>1. DOMAIN World = WorldFields /\ World.ed = ed /\ DOMAIN ed = Ed BY WorldIs DEF Good, Worldly
<1>2. Asked(World.s, e, E) /\ DOMAIN E = DocFields BY <1>1, GoodFramed DEF Framed, Held
<1>3. DOMAIN E.pick = PickFields BY <1>2 DEF Asked
<1>4. CASE EnterName(e)
  <2>1. PICK n \in NamesTyped : Turn([World EXCEPT !.ed[e].nameIn = n]) BY <1>4 DEF EnterName
  <2>2. E.mode \in {"save", "open", "import"} BY <1>4 DEF EnterName, In
  <2> DEFINE F == [E EXCEPT !.nameIn = n]
  <2>3. [World EXCEPT !.ed[e].nameIn = n] = Set(World, e, F) BY <1>1 DEF Set
  <2>4. /\ SameText(E, F) /\ F.mode = E.mode /\ F.pending = E.pending /\ F.nameIn = n
        /\ F.pick = E.pick /\ F.target = E.target BY <1>2 DEF SameText, DocFields
  <2> HIDE DEF F
  <2>5. Asked(World.s, e, F) BY <1>2, <2>2, <2>4 DEF Asked, EditorsSound
  <2>6. Doable(Set(World, e, F)) BY <2>4, <2>5, OnlyShown
  <2> QED BY <2>1, <2>3, <2>6
<1>5. CASE EnterDestName(e)
  <2>1. PICK n \in NamesTyped : Turn([World EXCEPT !.ed[e].pick.name = n]) BY <1>5 DEF EnterDestName
  <2> DEFINE K == [E.pick EXCEPT !.name = n]
             F == [E EXCEPT !.pick = K]
  <2>2. [World EXCEPT !.ed[e].pick.name = n] = Set(World, e, F) BY <1>1 DEF Set
  <2>3. DOMAIN K = PickFields /\ K.v = E.pick.v /\ K.gen = E.pick.gen /\ K.on = E.pick.on /\ K.items = E.pick.items
    BY <1>3 DEF PickFields
  <2> HIDE DEF K
  <2>4. /\ SameText(E, F) /\ F.mode = E.mode /\ F.pending = E.pending /\ F.nameIn = E.nameIn
        /\ F.pick = K /\ F.target = E.target BY <1>2 DEF SameText, DocFields
  <2> HIDE DEF F
  <2>5. Asked(World.s, e, F) BY <1>2, <2>3, <2>4 DEF Asked, KnownAs
  <2>6. Doable(Set(World, e, F)) BY <2>4, <2>5, OnlyShown
  <2> QED BY <2>1, <2>2, <2>6
<1>6. CASE ListOther(e)
  <2> DEFINE F == [E EXCEPT !.disk = ~@]
  <2>1. Turn([World EXCEPT !.ed[e].disk = ~@]) BY <1>6 DEF ListOther
  <2>2. [World EXCEPT !.ed[e].disk = ~@] = Set(World, e, F) BY <1>1 DEF Set
  <2>3. /\ SameText(E, F) /\ F.mode = E.mode /\ F.pending = E.pending /\ F.nameIn = E.nameIn
        /\ F.pick = E.pick /\ F.target = E.target BY <1>2 DEF SameText, DocFields
  <2> HIDE DEF F
  <2>4. Asked(World.s, e, F) BY <1>2, <2>3, AskedSame
  <2>5. Doable(Set(World, e, F)) BY <2>3, <2>4, OnlyShown
  <2> QED BY <2>1, <2>2, <2>5
<1> QED BY <1>4, <1>5, <1>6

\* Another directory of the volume that is shown.
LEMMA ListsHere ==
    ASSUME EditorsSound, Good(World), NEW e \in Ed, ed[e].mode \in {"dest", "import"},
           NEW d, NEW z \in Listed(World, e, ed[e].pick.v, d)
    PROVE  Doable(z)
<1> DEFINE E == ed[e]
           k == E.pick
<1>1. World.ed = ed /\ Worldly(World) BY WorldIs DEF Good
<1>2. Framed(World, e) /\ Asked(World.s, e, E) BY <1>1, GoodFramed
<1>3. ListedOf(World, z, e, k.v, d) BY <1>2, Lists
<1>4. /\ Framed(z, e) /\ Redrawn(World, z, e) /\ z.ed[e].mode = E.mode
      /\ z.ed[e].pick.v = (IF Mounted(World.s, k.v) THEN k.v ELSE None)
      /\ z.ed[e].pick.gen = k.gen /\ z.ed[e].pick.on = k.on BY <1>1, <1>3 DEF ListedOf
<1>5. ~Mounted(World.s, None) BY <1>1, NoneNotMounted DEF Worldly
<1>6. E.mode = "dest" => KnownAs(World.s, z.ed[e].pick) BY <1>2, <1>4, <1>5 DEF Asked, KnownAs
<1>7. z.s = World.s /\ Picking(z.ed[e]) BY <1>4 DEF Redrawn, Framed
<1>8. Asked(z.s, e, z.ed[e]) BY <1>4, <1>6, <1>7 DEF Picking, Asked
<1>9. Good(z) BY <1>4, <1>8, FramedGood
<1>10. Shown(World, z, e) BY <1>4, <1>9 DEF Shown
<1> QED BY <1>10, ShownDoable

LEMMA LooksAround ==
    ASSUME EditorsSound, Good(World), NEW e \in Ed, ToDestination(e) \/ NextVolume(e) \/ Parent(e) \/ Select(e)
    PROVE  \E x : Turn(x) /\ Doable(x)
<1> DEFINE E == ed[e]
<1>1. DOMAIN World = WorldFields /\ World.ed = ed /\ DOMAIN ed = Ed BY WorldIs DEF Good, Worldly
<1>2. Asked(World.s, e, E) /\ DOMAIN E = DocFields /\ Framed(World, e) BY <1>1, GoodFramed DEF Framed, Held
<1>3. DOMAIN E.pick = PickFields BY <1>2 DEF Asked
<1>4. CASE ToDestination(e)
  <2>1. PICK z \in DestBegin(World, e) : Turn(z) BY <1>4 DEF ToDestination, Does
  <2> QED BY <2>1, DestBegins, ShownDoable
<1>5. CASE NextVolume(e)
  <2>1. PICK i \in Offered(World, e) : \E z \in OpenVolumes(World, e, {i}) : Turn(z) BY <1>5 DEF NextVolume, Does
  <2>2. PICK z \in OpenVolumes(World, e, {i}) : Turn(z) BY <2>1
  <2>3. World.ed[e].mode \in {"dest", "import"} BY <1>1, <1>5 DEF NextVolume, In
  <2> QED BY <1>2, <2>2, <2>3, OpensVolumes, ShownDoable
<1>6. CASE Parent(e)
  <2>1. PICK z \in Listed(World, e, E.pick.v, <<>>) : Turn(z) BY <1>6 DEF Parent, Does
  <2>2. E.mode \in {"dest", "import"} BY <1>6 DEF Parent, In
  <2> QED BY <2>1, <2>2, ListsHere
<1>7. CASE Select(e)
  <2> DEFINE p(i) == Append(E.pick.d, i[1])
  <2>1. PICK i \in E.pick.items :
            Does(IF i[2] THEN Listed(World, e, E.pick.v, p(i))
                 ELSE IF E.mode = "dest"
                 THEN {[World EXCEPT !.ed[e].pick.file = p(i), !.ed[e].pick.name = i[1]]}
                 ELSE {[World EXCEPT !.ed[e].pick.file = p(i), !.ed[e].nameIn = i[1]]}) BY <1>7 DEF Select
  <2>2. E.mode \in {"dest", "import"} BY <1>7 DEF Select, In
  <2>3. Usable(i[1]) BY <1>2 DEF Asked
  <2> DEFINE q == p(i)
             K == [E.pick EXCEPT !.file = q]
             L == [K EXCEPT !.name = i[1]]
             F == [E EXCEPT !.pick = K]
             G == [E EXCEPT !.pick = L]
             H == [F EXCEPT !.nameIn = i[1]]
  <2> HIDE DEF p
  <2>4. \/ \E z \in Listed(World, e, E.pick.v, q) : Turn(z)
        \/ E.mode = "dest" /\ Turn([World EXCEPT !.ed[e].pick.file = q, !.ed[e].pick.name = i[1]])
        \/ E.mode = "import" /\ Turn([World EXCEPT !.ed[e].pick.file = q, !.ed[e].nameIn = i[1]])
    BY <2>1, <2>2 DEF Does
  <2> HIDE DEF q
  <2>5. [World EXCEPT !.ed[e].pick.file = q, !.ed[e].pick.name = i[1]] = Set(World, e, G)
    <3> DEFINE y == [World EXCEPT !.ed[e].pick.file = q]
    <3>1. y = Set(World, e, F) BY <1>1 DEF Set
    <3>2. y.ed[e] = F /\ F.pick = K /\ Set(y, e, G) = Set(World, e, G) BY <1>1, <1>2, <3>1, ZenonT(60) DEF Set, WorldFields, DocFields
    <3>3. G = [F EXCEPT !.pick = L] BY <1>2 DEF DocFields
    <3> HIDE DEF y, F, G, K
    <3>4. [y EXCEPT !.ed[e].pick.name = i[1]] = Set(y, e, [y.ed[e] EXCEPT !.pick = [y.ed[e].pick EXCEPT !.name = i[1]]])
      BY DEF Set
    <3> QED BY <3>2, <3>3, <3>4 DEF y
  <2>6. [World EXCEPT !.ed[e].pick.file = q, !.ed[e].nameIn = i[1]] = Set(World, e, H)
    <3> DEFINE y == [World EXCEPT !.ed[e].pick.file = q]
    <3>1. y = Set(World, e, F) BY <1>1 DEF Set
    <3>2. y.ed[e] = F /\ Set(y, e, H) = Set(World, e, H) BY <1>1, <1>2, <3>1, ZenonT(60) DEF Set, WorldFields
    <3> HIDE DEF y, F
    <3>3. [y EXCEPT !.ed[e].nameIn = i[1]] = Set(y, e, [y.ed[e] EXCEPT !.nameIn = i[1]]) BY DEF Set
    <3> QED BY <3>2, <3>3 DEF y
  <2>7. /\ DOMAIN K = PickFields /\ K.v = E.pick.v /\ K.gen = E.pick.gen /\ K.on = E.pick.on /\ K.items = E.pick.items
        /\ DOMAIN L = PickFields /\ L.v = E.pick.v /\ L.gen = E.pick.gen /\ L.on = E.pick.on /\ L.items = E.pick.items
    BY <1>3 DEF PickFields
  <2> HIDE DEF K, L
  <2>8. /\ SameText(E, G) /\ G.mode = E.mode /\ G.pending = E.pending /\ G.nameIn = E.nameIn
        /\ G.pick = L /\ G.target = E.target
        /\ SameText(E, H) /\ H.mode = E.mode /\ H.pending = E.pending /\ H.nameIn = i[1]
        /\ H.pick = K /\ H.target = E.target BY <1>2 DEF SameText, DocFields
  <2> HIDE DEF F, G, H
  <2>9. Asked(World.s, e, G) BY <1>2, <2>7, <2>8 DEF Asked, KnownAs
  <2>10. Asked(World.s, e, H) BY <1>2, <2>2, <2>3, <2>7, <2>8 DEF Asked, KnownAs
  <2>11. Doable(Set(World, e, G)) /\ Doable(Set(World, e, H)) BY <2>8, <2>9, <2>10, OnlyShown
  <2> QED BY <2>2, <2>4, <2>5, <2>6, <2>11, ListsHere
<1> QED BY <1>4, <1>5, <1>6, <1>7

-----------------------------------------------------------------------------
\* vfs_autoscan and kvfs_mount: the files stay, the namespace moves on, and
\* what was noted in the one before is not relied on.
LEMMA LeavesOut ==
    ASSUME NEW S, NEW l \in Seq(S), NEW i \in DOMAIN l, NEW k \in DOMAIN RemoveAt(l, i)
    PROVE  LET j == IF k < i THEN k ELSE k + 1 IN j \in DOMAIN l /\ RemoveAt(l, i)[k] = l[j]
<1> DEFINE n == Len(l)
           a == SubSeq(l, 1, i - 1)
           b == SubSeq(l, i + 1, n)
<1>1. n \in Nat /\ DOMAIN l = 1 .. n /\ i \in 1 .. n BY LenProperties
<1>2. \A x \in 1 .. n : l[x] \in S BY <1>1
<1>3. /\ a \in Seq(S) /\ Len(a) = i - 1 /\ \A x \in 1 .. i - 1 : a[x] = l[x]
  <2>1. 1 \in Int /\ i - 1 \in Int /\ \A x \in 1 .. i - 1 : l[x] \in S BY <1>1, <1>2
  <2>2. /\ SubSeq(l, 1, i - 1) \in Seq(S)
        /\ Len(SubSeq(l, 1, i - 1)) = IF 1 <= i - 1 THEN i - 1 - 1 + 1 ELSE 0
        /\ \A x \in 1 .. i - 1 - 1 + 1 : SubSeq(l, 1, i - 1)[x] = l[1 + x - 1] BY <2>1, SubSeqProperties
  <2> QED BY <1>1, <2>2
<1>4. /\ b \in Seq(S) /\ Len(b) = n - i /\ \A x \in 1 .. n - i : b[x] = l[i + x]
  <2>1. i + 1 \in Int /\ n \in Int /\ \A x \in i + 1 .. n : l[x] \in S BY <1>1, <1>2
  <2>2. /\ SubSeq(l, i + 1, n) \in Seq(S)
        /\ Len(SubSeq(l, i + 1, n)) = IF i + 1 <= n THEN n - (i + 1) + 1 ELSE 0
        /\ \A x \in 1 .. n - (i + 1) + 1 : SubSeq(l, i + 1, n)[x] = l[i + 1 + x - 1] BY <2>1, SubSeqProperties
  <2> QED BY <1>1, <2>2, SMTT(40)
<1> HIDE DEF a, b, n
<1>5. /\ a \o b \in Seq(S) /\ Len(a \o b) = Len(a) + Len(b)
      /\ \A x \in 1 .. Len(a) + Len(b) : (a \o b)[x] = IF x <= Len(a) THEN a[x] ELSE b[x - Len(a)]
  BY <1>3, <1>4, ConcatProperties
<1>6. DOMAIN (a \o b) = 1 .. Len(a \o b) BY <1>5, LenProperties
<1>7. RemoveAt(l, i) = a \o b BY DEF RemoveAt, a, b, n
<1> HIDE DEF n
<1> DEFINE c == a \o b
<1>8. k \in 1 .. n - 1 /\ DOMAIN c = 1 .. n - 1 BY <1>1, <1>3, <1>4, <1>5, <1>6, <1>7
<1>9. c[k] = IF k <= i - 1 THEN a[k] ELSE b[k - (i - 1)] BY <1>1, <1>3, <1>4, <1>5, <1>8, SMTT(40)
<1> HIDE DEF c
<1>10. CASE k < i
  <2>1. k \in 1 .. i - 1 /\ k \in 1 .. n BY <1>1, <1>8, <1>10
  <2>2. c[k] = l[k] BY <1>3, <1>9, <2>1
  <2> QED BY <1>1, <1>7, <1>10, <2>1, <2>2 DEF c
<1>11. CASE ~(k < i)
  <2>1. k - (i - 1) \in 1 .. n - i /\ k + 1 \in 1 .. n /\ ~(k <= i - 1) BY <1>1, <1>8, <1>11
  <2>2. c[k] = b[k - (i - 1)] BY <1>9, <2>1
  <2>3. b[k - (i - 1)] = l[i + (k - (i - 1))] BY <1>4, <2>1
  <2>4. i + (k - (i - 1)) = k + 1 BY <1>1, <1>8
  <2> QED BY <1>1, <1>7, <1>11, <2>1, <2>2, <2>3, <2>4 DEF c
<1> QED BY <1>10, <1>11

LEMMA ListsOnce ==
    ASSUME EditorsSound, NEW l \in Layouts, NEW kv
    PROVE  OneEach(Listing(l, kv))
<1>1. l \in Seq(Mounts) /\ VolumesSound BY DEF EditorsSound, VolumesSound
<1>2. Listing(l, kv) \in Seq(Mounts) BY <1>1, ListingSound
<1>3. \A i, j \in DOMAIN l : i # j => l[i].name # l[j].name /\ l[i].medium # l[j].medium BY DEF EditorsSound
<1> DEFINE native == {i \in DOMAIN l : l[i].medium = Kv}
<1>4. CASE kv \/ native = {} BY <1>2, <1>3, <1>4 DEF Listing, OneEach
<1>5. CASE ~kv /\ native # {}
  <2>1. PICK i \in DOMAIN l : i = CHOOSE j \in native : TRUE BY <1>5
  <2> DEFINE t == RemoveAt(l, i)
  <2>2. Listing(l, kv) = t BY <1>5, <2>1, Zenon DEF Listing
  <2>3. i \in Nat /\ DOMAIN t \subseteq Nat BY <1>1, <1>2, <2>2, LenProperties
  <2>4. ASSUME NEW j \in DOMAIN t, NEW k \in DOMAIN t, j # k
        PROVE  t[j].name # t[k].name /\ t[j].medium # t[k].medium
    <3> DEFINE x == IF j < i THEN j ELSE j + 1
               y == IF k < i THEN k ELSE k + 1
    <3>1. x \in DOMAIN l /\ t[j] = l[x] /\ y \in DOMAIN l /\ t[k] = l[y] BY <1>1, LeavesOut
    <3>2. x # y BY <2>3, <2>4
    <3> HIDE DEF x, y, t
    <3> QED BY <1>3, <3>1, <3>2
  <2> HIDE DEF t
  <2> QED BY <1>2, <2>2, <2>4 DEF OneEach
<1> QED BY <1>4, <1>5

Anew(s, o) == IsStore(o) /\ Shaped(o.files) /\ OneEach(o.tab) /\ o.gen = s.gen + 1 /\ o.files = s.files

LEMMA ScansAnew ==
    ASSUME EditorsSound, NEW w, Worldly(w), NEW o \in Rescans(w.s) \cup Remounts(w.s)
    PROVE  Anew(w.s, o)
<1> DEFINE s == w.s
<1>1. IsStore(s) /\ Shaped(s.files) /\ OneEach(s.tab) BY DEF Worldly
<1>2. IsStore(o) /\ o.gen = s.gen + 1 /\ o.files = s.files BY <1>1, Rescanned
<1>3. CASE o \in Rescans(s)
  <2>1. PICK l \in Layouts : o = [s EXCEPT !.gen = s.gen + 1, !.rw = Media \ ReadOnly, !.tab = Listing(l, s.kv)]
    BY <1>3, Zenon DEF Rescans
  <2>2. o.tab = Listing(l, s.kv) BY <1>1, <2>1 DEF IsStore, Fields
  <2> QED BY <1>1, <1>2, <2>2, ListsOnce DEF Anew
<1>4. CASE o \in Remounts(s)
  <2>1. PICK b \in BOOLEAN : o = [s EXCEPT !.gen = s.gen + 1, !.kv = b] BY <1>4, Zenon DEF Remounts
  <2>2. o.tab = s.tab BY <1>1, <2>1 DEF IsStore, Fields
  <2> QED BY <1>1, <1>2, <2>2 DEF Anew
<1> QED BY <1>3, <1>4

LEMMA DocAnew ==
    ASSUME NEW s, IsStore(s), NEW o, Anew(s, o), NEW e, NEW E, Doc(s, e, E)
    PROVE  Doc(o, e, E)
<1>1. Counted(E) /\ Bound(s, E) /\ Asked(s, e, E) /\ Trusted(s, E) BY DEF Doc
<1>2. s.gen \in Nat /\ o.gen = s.gen + 1 /\ o.files = s.files BY DEF IsStore, Anew
<1>3. \A k : KnownAs(s, k) => KnownAs(o, k) /\ k.gen # o.gen BY <1>2 DEF KnownAs
<1>4. Bound(o, E) BY <1>1, <1>3 DEF Bound
<1>5. Asked(o, e, E) BY <1>1, <1>3 DEF Asked
<1>6. ~Reaches(o, E) BY <1>1, <1>3 DEF Reaches, Bound
<1>7. Trusted(o, E) BY <1>1, <1>2, <1>6 DEF Trusted
<1> QED BY <1>4, <1>5, <1>7 DEF Doc

\* The store moves on, and the listings of both editors may go with it.
LEMMA GoodAnew ==
    ASSUME NEW w, Good(w), NEW o, Anew(w.s, o), NEW x, DOMAIN x = WorldFields, x.s = o, DOMAIN x.ed = Ed,
           \A e \in Ed : SameText(w.ed[e], x.ed[e]) /\ Asked(o, e, x.ed[e])
    PROVE  Good(x)
<1>1. IsStore(w.s) BY DEF Good, Worldly
<1>2. Worldly(x) BY DEF Anew, Worldly
<1>3. ASSUME NEW e \in Ed PROVE Doc(o, e, x.ed[e])
  <2>1. Doc(o, e, w.ed[e]) BY <1>1, DocAnew DEF Good
  <2>2. Held(o, e, w.ed[e]) BY <2>1, DocIs
  <2>3. Held(o, e, x.ed[e]) BY <2>2, HeldStill
  <2> QED BY <2>3, DocIs
<1> QED BY <1>2, <1>3 DEF Good

\* ed_import_refresh: the listings of both editors are gone.
Emptied(E) == [E EXCEPT !.pick.v = None, !.pick.d = <<>>, !.pick.items = {}, !.pick.file = <<>>]

LEMMA EmptiedAsks ==
    ASSUME NEW s, IsStore(s), NEW o, Anew(s, o), NEW e, NEW E, Doc(s, e, E)
    PROVE  SameText(E, Emptied(E)) /\ Asked(o, e, Emptied(E)) /\ Emptied(E).mode = E.mode
<1> DEFINE F == Emptied(E)
           K == [E.pick EXCEPT !.v = None, !.d = <<>>, !.items = {}, !.file = <<>>]
<1>1. DOMAIN E = DocFields /\ Asked(s, e, E) BY DEF Doc
<1>2. DOMAIN E.pick = PickFields BY <1>1 DEF Asked
<1>3. DOMAIN K = PickFields /\ K.items = {} /\ K.gen = E.pick.gen BY <1>2 DEF PickFields
<1>4. F = [E EXCEPT !.pick = K]
  <2> DEFINE A == [E EXCEPT !.pick.v = None]
             B == [A EXCEPT !.pick.d = <<>>]
             C == [B EXCEPT !.pick.items = {}]
             k1 == [E.pick EXCEPT !.v = None]
             k2 == [k1 EXCEPT !.d = <<>>]
             k3 == [k2 EXCEPT !.items = {}]
  <2>1. F = [C EXCEPT !.pick.file = <<>>] /\ K = [k3 EXCEPT !.file = <<>>] BY DEF Emptied
  <2>2. A = [E EXCEPT !.pick = k1] BY <1>1 DEF DocFields
  <2>3. B = [E EXCEPT !.pick = k2] BY <1>1, <2>2 DEF DocFields
  <2>4. C = [E EXCEPT !.pick = k3] BY <1>1, <2>3 DEF DocFields
  <2> HIDE DEF A, B, C, k1, k2, k3, F, K
  <2> QED BY <1>1, <2>1, <2>4 DEF DocFields
<1> HIDE DEF F, K
<1>5. /\ SameText(E, F) /\ F.mode = E.mode /\ F.pending = E.pending /\ F.nameIn = E.nameIn
      /\ F.pick = K /\ F.target = E.target BY <1>1, <1>4 DEF SameText, DocFields
<1>6. s.gen \in Nat /\ o.gen = s.gen + 1 BY DEF IsStore, Anew
<1>7. E.mode \in {"dest", "destReplace"} => KnownAs(o, F.pick) BY <1>1, <1>3, <1>5, <1>6 DEF Asked, KnownAs
<1>8. Asked(o, e, F) BY <1>1, <1>3, <1>5, <1>7 DEF Asked
<1> QED BY <1>5, <1>8 DEF F

LEMMA Scans ==
    ASSUME EditorsSound, Good(World), NEW e \in Ed, Refresh(e) \/ Shell
    PROVE  \E x : Turn(x) /\ Doable(x)
<1>1. /\ DOMAIN World = WorldFields /\ World.ed = ed /\ DOMAIN ed = Ed /\ World.s = Now /\ Worldly(World)
      /\ IsStore(Now) /\ Now.files = files BY WorldIs DEF Good, Worldly
<1>2. \A o \in Ed : Doc(Now, o, ed[o]) BY <1>1 DEF Good
<1>3. CASE Refresh(e)
  <2> DEFINE y(s) == [World EXCEPT !.s = s, !.ed = [x \in Ed |-> Emptied(ed[x])]]
  <2>1. PICK s \in Rescans(Now) : Does(OpenFirst(y(s), e)) BY <1>3 DEF Refresh, Emptied
  <2>2. PICK z \in OpenFirst(y(s), e) : Turn(z) BY <2>1 DEF Does
  <2>3. ed[e].mode \in {"dest", "import"} BY <1>3 DEF Refresh, In
  <2>4. Anew(Now, s) BY <1>1, ScansAnew
  <2> DEFINE x == y(s)
  <2>5. DOMAIN x = WorldFields /\ x.s = s /\ DOMAIN x.ed = Ed /\ \A o \in Ed : x.ed[o] = Emptied(ed[o])
    BY <1>1 DEF WorldFields
  <2>6. z \in OpenFirst(x, e) BY <2>2
  <2> HIDE DEF x, y
  <2>7. \A o \in Ed : SameText(ed[o], x.ed[o]) /\ Asked(s, o, x.ed[o]) /\ x.ed[o].mode = ed[o].mode
    BY <1>1, <1>2, <2>4, <2>5, EmptiedAsks
  <2>8. Good(x) BY <1>1, <2>4, <2>5, <2>7, GoodAnew
  <2>9. Framed(x, e) /\ x.ed[e].mode \in {"dest", "import"} BY <2>3, <2>7, <2>8, GoodFramed
  <2>10. Shown(x, z, e) BY <2>6, <2>9, OpensVolumes DEF OpenFirst
  <2>11. Good(z) /\ z.s.files = files BY <1>1, <2>4, <2>5, <2>10 DEF Shown, Redrawn, Anew
  <2> QED BY <2>2, <2>11 DEF Doable
<1>4. CASE Shell
  <2>1. PICK s \in Rescans(Now) \cup Remounts(Now) : Turn([World EXCEPT !.s = s]) BY <1>4 DEF Shell
  <2>2. Anew(Now, s) BY <1>1, ScansAnew
  <2> DEFINE x == [World EXCEPT !.s = s]
  <2>3. DOMAIN x = WorldFields /\ x.s = s /\ x.ed = ed BY <1>1 DEF WorldFields
  <2> HIDE DEF x
  <2>4. ASSUME NEW o \in Ed PROVE SameText(ed[o], x.ed[o]) /\ Asked(s, o, x.ed[o])
    <3>1. Doc(s, o, ed[o]) BY <1>1, <1>2, <2>2, DocAnew
    <3> QED BY <2>3, <3>1 DEF Doc, SameText
  <2>5. Good(x) BY <1>1, <2>2, <2>3, <2>4, GoodAnew
  <2>6. Doable(x) BY <1>1, <2>2, <2>3, <2>5 DEF Doable, Anew
  <2> QED BY <2>1, <2>6 DEF x
<1> QED BY <1>3, <1>4

LEMMA Answers ==
    ASSUME EditorsSound, Good(World), NEW e \in Ed, Confirm(e) \/ Dismiss(e) \/ Discard(e)
    PROVE  \E x : Turn(x) /\ Doable(x)
<1>1. World.ed = ed /\ World.ok BY WorldIs
<1>2. CASE Confirm(e)
  <2>1. PICK z \in Accept(World, e) : Turn(z) BY <1>2 DEF Confirm, Does
  <2> QED BY <2>1, Accepts, FineDoable
<1>3. CASE Dismiss(e) BY <1>3, Cancels, ReplacedDoable DEF Dismiss
<1>4. CASE Discard(e)
  <2>1. PICK z \in DoPending(World, e) : Turn(z) BY <1>4 DEF Discard, Does
  <2>2. Fine(World, z, PendingPlaces(World, e)) BY <1>1, <2>1, DoesPending
  <2>3. ed[e].mode = "dirty" BY <1>4 DEF Discard, In
  <2>4. Asked(World.s, e, ed[e]) BY <1>1, GoodFramed
  <2>5. PendingPlaces(World, e) = {} BY <1>1, <2>3, <2>4 DEF Asked, PendingPlaces
  <2>6. Fine(World, z, Named(e)) BY <2>2, <2>5, FineNamed
  <2> QED BY <2>1, <2>6, FineDoable
<1> QED BY <1>2, <1>3, <1>4

LEMMA Exits ==
    ASSUME Good(World), Exit
    PROVE  \E x : Turn(x) /\ Doable(x)
<1> DEFINE y == [World EXCEPT !.mask = {}]
<1>1. PICK z \in ContinueQuit(y) : Turn(z) BY DEF Exit, Does
<1>2. DOMAIN y = WorldFields /\ y.s = World.s /\ y.ed = World.ed BY DEF Good, Worldly, WorldFields
<1> HIDE DEF y
<1>3. Replaced(World, y) BY <1>2, AlsoGood
<1>4. Replaced(y, z) BY <1>1, <1>3, Quits DEF Replaced
<1>5. Replaced(World, z) BY <1>3, <1>4 DEF Replaced
<1> QED BY <1>1, <1>5, ReplacedDoable

LEMMA EdSteps ==
    ASSUME EditorsSound, Good(World), EdNext
    PROVE  \E x : Turn(x) /\ Doable(x)
<1>1. \A e \in Ed : InEditor(e) =>
        \/ Type(e) \/ Undo(e)
        \/ SaveButton(e) \/ SaveAs(e) \/ Keep(e) \/ DeleteButton(e) \/ BuildButton(e)
        \/ \E a \in Leaves : Leave(e, a)
        \/ EnterName(e) \/ EnterDestName(e) \/ ListOther(e)
        \/ ToDestination(e) \/ NextVolume(e) \/ Parent(e) \/ Select(e)
        \/ Refresh(e)
        \/ Confirm(e) \/ Dismiss(e) \/ Discard(e) BY DEF InEditor, Leaves
<1>2. CASE Exit BY <1>2, Exits
<1>3. CASE Shell BY <1>3, Scans DEF Ed
<1>4. ASSUME NEW e \in Ed, InEditor(e) PROVE \E x : Turn(x) /\ Doable(x)
  <2>1. CASE Type(e) \/ Undo(e) BY <2>1, Edits
  <2>2. CASE \/ SaveButton(e) \/ SaveAs(e) \/ Keep(e) \/ DeleteButton(e) \/ BuildButton(e)
             \/ \E a \in Leaves : Leave(e, a) BY <2>2, Buttons
  <2>3. CASE EnterName(e) \/ EnterDestName(e) \/ ListOther(e) BY <2>3, NamesEntered
  <2>4. CASE ToDestination(e) \/ NextVolume(e) \/ Parent(e) \/ Select(e) BY <2>4, LooksAround
  <2>5. CASE Refresh(e) BY <2>5, Scans
  <2>6. CASE Confirm(e) \/ Dismiss(e) \/ Discard(e) BY <2>6, Answers
  <2> QED BY <1>1, <1>4, <2>1, <2>2, <2>3, <2>4, <2>5, <2>6
<1> QED BY <1>2, <1>3, <1>4 DEF EdNext

-----------------------------------------------------------------------------
\* A step ends with the world it leads to, its closed dialogs forgotten.
LEMMA Becomes ==
    ASSUME NEW s, IsStore(s), Become(s)
    PROVE  Keeps(s, Now')
<1> DEFINE o == Now'
<1>1. o = [r |-> 0, tab |-> s.tab, gen |-> s.gen, files |-> s.files, kv |-> s.kv, rw |-> s.rw] BY DEF Now, Become
<1>2. /\ o.tab = s.tab /\ o.gen = s.gen /\ o.files = s.files /\ o.kv = s.kv /\ o.rw = s.rw
      /\ DOMAIN o = Fields /\ o = [x \in DOMAIN o |-> o[x]] BY <1>1 DEF Fields
<1> HIDE DEF o
<1>3. IsStore(o) BY <1>2 DEF IsStore
<1>4. Keeps(s, o) BY <1>2, <1>3 DEF Keeps
<1> QED BY <1>4 DEF o

LEMMA ClosedDoc ==
    ASSUME NEW s, NEW e, NEW E, Doc(s, e, E)
    PROVE  Doc(s, e, Closed(E))
<1> DEFINE F == Closed(E)
<1>1. DOMAIN E = DocFields /\ Asked(s, e, E) /\ Held(s, e, E) BY DocIs DEF Doc
<1>2. CASE E.mode # "edit" BY <1>2 DEF Closed
<1>3. CASE E.mode = "edit"
  <2>1. F = [E EXCEPT !.nameIn = 0, !.disk = FALSE, !.pick = NoPick] BY <1>3 DEF Closed
  <2> HIDE DEF F
  <2>2. SameText(E, F) /\ F.mode = "edit" /\ F.pending = E.pending /\ F.nameIn = 0 /\ F.pick = NoPick
    BY <1>1, <1>3, <2>1 DEF SameText, DocFields
  <2>3. DOMAIN F.pick = PickFields /\ F.pick.items = {} BY <2>2 DEF NoPick, PickFields
  <2>4. Asked(s, e, F) BY <1>1, <2>2, <2>3 DEF Asked
  <2>5. Held(s, e, F) BY <1>1, <2>2, HeldStill
  <2>6. Doc(s, e, F) BY <2>4, <2>5, DocIs
  <2> QED BY <2>6 DEF F
<1> QED BY <1>2, <1>3

LEMMA TurnsGood ==
    ASSUME NEW x, Good(x), Turn(x)
    PROVE  Good(World') /\ files' = x.s.files
<1>1. Worldly(x) /\ IsStore(x.s) /\ Shaped(x.s.files) /\ OneEach(x.s.tab) BY DEF Good, Worldly
<1>2. Become(x.s) /\ ed' = [e \in Ed |-> Closed(x.ed[e])] BY DEF Turn
<1> DEFINE w == World'
           o == Now'
<1>3. Keeps(x.s, o) BY <1>1, <1>2, Becomes
<1>4. files' = x.s.files BY <1>2 DEF Become
<1>5. DOMAIN w = WorldFields /\ w.s = o /\ w.ed = ed' BY DEF World, WorldFields
<1> HIDE DEF w, o
<1>6. Later(x.s, o) /\ o.files = x.s.files BY <1>1, <1>3 DEF Keeps, Later, IsStore
<1>7. ASSUME NEW e \in Ed PROVE Doc(o, e, w.ed[e])
  <2>1. Doc(x.s, e, x.ed[e]) BY DEF Good
  <2>2. Doc(x.s, e, Closed(x.ed[e])) BY <2>1, ClosedDoc
  <2>3. w.ed[e] = Closed(x.ed[e]) BY <1>2, <1>5
  <2> QED BY <1>1, <1>6, <2>2, <2>3, SameFiles
<1>8. Worldly(w) BY <1>1, <1>2, <1>3, <1>5, <1>6 DEF Worldly, Keeps
<1>9. Good(w) BY <1>5, <1>7, <1>8 DEF Good
<1> QED BY <1>4, <1>9 DEF w

LEMMA EdInitInv == ASSUME EditorsSound, EdInit PROVE Good(World)
<1>1. VolumesInit /\ ed = [e \in Ed |-> NewDoc(e)] BY DEF EdInit
<1>2. vols \in Layouts /\ generation = 1 /\ files = [m \in Media |-> [p \in Paths |-> files[m][p]]]
  BY <1>1 DEF VolumesInit
<1>3. IsStore(Now) BY <1>2, NowIsStore
<1>4. OneEach(vols) BY <1>2 DEF EditorsSound, VolumesSound, OneEach
<1>5. World.s = Now /\ World.ed = ed /\ DOMAIN World = WorldFields /\ Now.tab = vols /\ Now.files = files
  BY WorldIs DEF Now
<1>6. Worldly(World) BY <1>1, <1>2, <1>3, <1>4, <1>5 DEF Worldly, Shaped
<1>7. \A e \in Ed : Doc(Now, e, ed[e]) BY <1>1, NewDocs
<1> QED BY <1>5, <1>6, <1>7 DEF Good

LEMMA EdNextInv ==
    ASSUME EditorsSound, Good(World), [EdNext]_editorVars
    PROVE  Good(World') /\ [WritesWhatWasNamed]_editorVars
<1>1. CASE EdNext
  <2>1. PICK x : Turn(x) /\ Doable(x) BY <1>1, EdSteps
  <2>2. Good(World') /\ files' = x.s.files BY <2>1, TurnsGood DEF Doable
  <2>3. \A m \in Media, p \in Paths : files'[m][p] # files[m][p] => \E e \in Ed : <<m, p>> \in Named(e)
    BY <2>1, <2>2 DEF Doable
  <2>4. WritesWhatWasNamed BY <2>3 DEF WritesWhatWasNamed, Named
  <2> QED BY <2>2, <2>4
<1>2. CASE UNCHANGED editorVars
  <2>1. World' = World BY <1>2 DEF World, Now, editorVars, volVars, edVars
  <2> QED BY <1>2, <2>1
<1> QED BY <1>1, <1>2

\* What is counted on is there.
LEMMA CountedIsStored == ASSUME Good(World) PROVE SavedIsStored
<1>1. Worldly(World) /\ World.ed = ed /\ World.s = Now /\ IsStore(Now)
      /\ Now.files = files /\ Now.gen = generation /\ Now.kv = kvMounted BY WorldIs DEF Good, Worldly, Now
<1> SUFFICES ASSUME NEW e \in Ed
             PROVE  LET E == ed[e] t == E.target IN
                    /\ E.ram = E.rev => files[Ram][<<E.name>>] = E.t
                    /\ (E.kv = E.rev /\ kvMounted /\ ~E.doubt) => files[Kv][<<E.name>>] = E.t
                    /\ (t.v # None /\ Live(World, t.v, t.gen) /\ t.rev = E.rev /\ ~KeepCutShort(E))
                        => files[MediumAt(Now, t.v)][t.p] = E.t BY DEF SavedIsStored
<1>2. Trusted(Now, ed[e]) BY <1>1 DEF Good, Doc
<1>3. ed[e].ram = ed[e].rev => files[Ram][<<ed[e].name>>] = ed[e].t BY <1>1, <1>2 DEF Trusted, HasRev
<1>4. ed[e].kv = ed[e].rev /\ ~ed[e].doubt => files[Kv][<<ed[e].name>>] = ed[e].t BY <1>1, <1>2 DEF Trusted, HasRev
<1>5. ASSUME ed[e].target.v # None, Live(World, ed[e].target.v, ed[e].target.gen),
             ed[e].target.rev = ed[e].rev, ~KeepCutShort(ed[e])
      PROVE  files[MediumAt(Now, ed[e].target.v)][ed[e].target.p] = ed[e].t
  <2>1. Reaches(Now, ed[e]) BY <1>1, <1>5 DEF Live, Reaches
  <2> QED BY <1>1, <1>2, <1>5, <2>1 DEF Trusted, HasRev
<1> QED BY <1>3, <1>4, <1>5

\* What an editor reports as saved is stored, for every table of volumes an
\* autoscan may find, every name and text and every order of saves, imports,
\* deletions, rescans and remounts in the two editors (ed_save_local,
\* ed_save_target, ed_storage_changed and ed_target_changed).  Left out are
\* KvFS after an unclear change of that file, and the destination that a Keep
\* cut short has overwritten, which ed_save_local does not take back.
THEOREM EditorSavesAreStored == ASSUME EditorsSound PROVE EdSpec => []SavedIsStored
<1>1. EdInit => Good(World) BY EdInitInv
<1>2. Good(World) /\ [EdNext]_editorVars => Good(World)' BY EdNextInv
<1>3. Good(World) => SavedIsStored BY CountedIsStored
<1> QED BY <1>1, <1>2, <1>3, PTL DEF EdSpec

\* An editor writes only what the user named: the document's own file, the
\* destination on the medium it was chosen on, or the name of the dialog after
\* the question about a file that is there (ed_accept, ed_dest_accept,
\* ed_import_accept and ed_save_target).
THEOREM EditorWritesWhatWasNamed == ASSUME EditorsSound PROVE EdSpec => [][WritesWhatWasNamed]_editorVars
<1>1. EdInit => Good(World) BY EdInitInv
<1>2. Good(World) /\ [EdNext]_editorVars => Good(World)' BY EdNextInv
<1>3. Good(World) /\ [EdNext]_editorVars => [WritesWhatWasNamed]_editorVars BY EdNextInv
<1> QED BY <1>1, <1>2, <1>3, PTL DEF EdSpec

=============================================================================
