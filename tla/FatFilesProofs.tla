--------------------------- MODULE FatFilesProofs ---------------------------
(***************************************************************************)
(* FatFiles for every volume size, name tree and set of contents, the      *)
(* history of the text editors for every text and size, and FatDir for     *)
(* every directory and every name.                                         *)
(*                                                                         *)
(* First, what is written without a log never lands on a cluster that a    *)
(* rollback or a recovery would bring back: until the new entry is         *)
(* published the working set only ever takes clusters away from the free   *)
(* ones.  Then the FAT itself: chains laid out by owner and place, the     *)
(* image a call works towards sound at every step of it, whatever it holds *)
(* that no entry has yet.  A commit makes that image the saved one, so the *)
(* saved one is always consistent and the files in it are whole.           *)
(*                                                                         *)
(* Then the text of an editor.  Every change in the log leads from the     *)
(* text of one revision to that of the next, and back, with the bytes it   *)
(* keeps in the buffer, where the changes lie one after the other.  A new  *)
(* change, the branch it cuts off, an eviction and a wrapped counter leave *)
(* the log so.                                                             *)
(*                                                                         *)
(* Last, a directory.  What the walk has assembled of a name depends on no *)
(* slot before one that is not a fragment, so a write into free slots and  *)
(* a deletion change what is shown of no other entry.                      *)
(***************************************************************************)
EXTENDS FatFiles, FatDir, TextEdit, FiniteSetTheorems, SequenceTheorems, WellFoundedInduction, TLAPS

Image(i) == i = [fat |-> i.fat, free |-> i.free, ents |-> i.ents] /\ i.fat \in FatType

\* Everything has the shape the operators expect.
Shape ==
    /\ Image(saved) /\ Image(disk)
    /\ meta = [fat |-> meta.fat, free |-> meta.free] /\ meta.fat \in FatType
    /\ body = [c \in Clusters |-> body[c]]

\* Between operations the working set is the saved image; while one allocates,
\* it has no free cluster that the saved image has not.
NoEarlyFree ==
    /\ pc = "idle" /\ mounted /\ ~fenced => meta = FatOf(saved)
    /\ pc \in {"body", "mkdir", "sync", "publish"} =>
        \A c \in Clusters : meta.fat[c] = FREE => saved.fat[c] = FREE

FatInv == Shape /\ NoEarlyFree

\* Linking a newly allocated cluster keeps the FAT a FAT and frees nothing.
LEMMA AllocateFacts ==
    ASSUME NEW m, m = [fat |-> m.fat, free |-> m.free], m.fat \in FatType,
           NEW c \in Clusters, NEW prev
    PROVE  LET n == Linked(Allocated(m, c), prev, c)
           IN  /\ n = [fat |-> n.fat, free |-> n.free] /\ n.fat \in FatType
               /\ \A b \in Clusters : n.fat[b] = FREE => m.fat[b] = FREE
<1> DEFINE a == Allocated(m, c)
<1>1. EOC \in 0 .. EOC /\ c \in 0 .. EOC /\ c # FREE /\ EOC # FREE BY SizeAssumption DEF EOC, Clusters, FREE
<1>2. /\ a = [fat |-> a.fat, free |-> a.free] /\ a.fat \in FatType
      /\ \A b \in Clusters : a.fat[b] = FREE => m.fat[b] = FREE BY <1>1 DEF Allocated, FatType
<1> HIDE DEF a
<1>3. CASE prev = 0 BY <1>2, <1>3 DEF Linked, a
<1>4. CASE prev # 0
  <2>1. Linked(a, prev, c) = [fat |-> [a.fat EXCEPT ![prev] = c], free |-> a.free] BY <1>2, <1>4 DEF Linked
  <2>2. [a.fat EXCEPT ![prev] = c] \in FatType BY <1>1, <1>2 DEF FatType
  <2>3. \A b \in Clusters : [a.fat EXCEPT ![prev] = c][b] = FREE => a.fat[b] = FREE BY <1>1, <1>2 DEF FatType
  <2> QED BY <1>2, <2>1, <2>2, <2>3 DEF a
<1> QED BY <1>3, <1>4

\* Without a predecessor the result is the allocation itself.
LEMMA AllocateAlone == ASSUME NEW m, NEW c PROVE Linked(Allocated(m, c), 0, c) = Allocated(m, c) BY DEF Linked

\* Freeing a chain, too, gives a FAT.
LEMMA FreedFacts ==
    ASSUME NEW m, m.fat \in FatType, NEW first
    PROVE  LET n == Freed(m, first)
           IN  n = [fat |-> n.fat, free |-> n.free] /\ n.fat \in FatType
BY SizeAssumption DEF Freed, FatType, FREE, EOC

\* A flush puts the working set in the place of the device's FAT.
LEMMA FlushFacts ==
    ASSUME NEW i, Image(i), meta.fat \in FatType
    PROVE  /\ Flush(i) = [fat |-> meta.fat, free |-> meta.free, ents |-> i.ents]
           /\ Image(Flush(i)) BY DEF Image, Flush, WithFat

\* The freshly formatted volume satisfies the invariant.
LEMMA FatInit == Init => FatInv
<1> SUFFICES ASSUME Init PROVE FatInv OBVIOUS
<1>1. Fresh.fat \in FatType BY SizeAssumption DEF Fresh, FatType, FREE, EOC, Clusters
<1>2. Image(Fresh) BY <1>1 DEF Image, Fresh
<1>3. meta = [fat |-> Fresh.fat, free |-> Fresh.free] BY DEF Init, FatOf
<1>4. body = [c \in Clusters |-> body[c]] BY DEF Init
<1>5. Shape BY <1>1, <1>2, <1>3, <1>4 DEF Shape, Init
<1>6. NoEarlyFree BY DEF NoEarlyFree, Init
<1> QED BY <1>5, <1>6 DEF FatInv

LEMMA FatStep == FatInv /\ [Next]_vars => FatInv'
<1> SUFFICES ASSUME FatInv, [Next]_vars PROVE FatInv' OBVIOUS
<1> USE DEF FatInv
<1>a. Image(saved) /\ FatOf(saved) = [fat |-> saved.fat, free |-> saved.free] /\ saved.fat \in FatType
  BY DEF Shape, Image, FatOf
<1>b. Image(disk) /\ meta = [fat |-> meta.fat, free |-> meta.free] /\ meta.fat \in FatType BY DEF Shape
<1>c. Image(Flush(disk)) /\ Flush(disk) = [fat |-> meta.fat, free |-> meta.free, ents |-> disk.ents]
  BY <1>b, FlushFacts
\* Steps that move on without touching FAT, image or bodies.
<1>d. ASSUME UNCHANGED <<saved, disk, meta, body>>, NoEarlyFree' PROVE FatInv' BY <1>d DEF Shape, Image
\* Steps after which the working set is the saved image.
<1>e. ASSUME meta' = FatOf(saved), UNCHANGED saved, Image(disk)', pc' = "idle",
             body' = [c \in Clusters |-> body'[c]]
      PROVE  FatInv' BY <1>a, <1>e DEF Shape, NoEarlyFree, Image, FatOf
<1>f. ASSUME NEW c \in Clusters, NEW prev, pc' \in {"body", "sync", "publish"},
             pc \in {"body", "mkdir", "publish"},
             meta' = Linked(Allocated(meta, c), prev, c),
             UNCHANGED <<saved, disk>>, body' = [b \in Clusters |-> body'[b]]
      PROVE  FatInv'
  <2>1. /\ meta' = [fat |-> meta'.fat, free |-> meta'.free] /\ meta'.fat \in FatType
        /\ \A b \in Clusters : meta'.fat[b] = FREE => meta.fat[b] = FREE BY <1>b, <1>f, AllocateFacts
  <2>2. Shape' BY <1>f, <2>1 DEF Shape, Image
  <2>3. NoEarlyFree' BY <1>f, <2>1 DEF NoEarlyFree
  <2> QED BY <2>2, <2>3
<1>g. ASSUME NEW c \in Clusters, NEW b, Write(c, b) PROVE body' = [x \in Clusters |-> body'[x]]
  BY <1>g DEF Write, Shape
<1>h. FirstFree(meta) \subseteq Clusters BY DEF FirstFree, FreeClusters
<1>1. CASE FatMount
  <2>1. Image(disk)' /\ pc' = "idle" BY <1>1, <1>a DEF FatMount, Image, Return
  <2>2. body' = [c \in Clusters |-> body'[c]] BY <1>1 DEF FatMount, Shape, bodies
  <2> QED BY <1>1, <1>e, <2>1, <2>2 DEF FatMount
<1>2. CASE BeginFails BY <1>2, <1>d DEF BeginFails, NoEarlyFree, Return, bodies, FatOf
<1>3. CASE Refuse BY <1>3, <1>d DEF Refuse, NoEarlyFree, Return, bodies, FatOf
<1>4. ASSUME NEW call, NEW step, Begin(call, step) PROVE FatInv'
  <2>1. \A c \in Clusters : meta.fat[c] = saved.fat[c] BY <1>4, <1>a DEF Begin, NoEarlyFree
  <2>2. step # "idle" => NoEarlyFree' BY <1>4, <2>1 DEF Begin, NoEarlyFree
  <2>3. step = "idle" => NoEarlyFree' BY <1>4, <2>1 DEF Begin, NoEarlyFree, FatOf
  <2> QED BY <1>4, <1>d, <2>2, <2>3 DEF Begin, bodies
<1>5. ASSUME NEW n \in Names, FatRemove(n) \/ FatMkdir(n) PROVE FatInv' BY <1>4, <1>5 DEF FatRemove, FatMkdir
<1>6. ASSUME NEW n \in Names, NEW c \in Contents, FatWrite(n, c) PROVE FatInv' BY <1>4, <1>6 DEF FatWrite
<1>7. CASE BodyStep
  <2>1. PICK c \in FirstFree(meta) :
            /\ meta' = Linked(Allocated(meta, c), op.last, c)
            /\ Write(c, <<op.data, op.done + 1>>)
            /\ pc' = IF op.done + 1 = Length[op.data] THEN "sync" ELSE "body" BY <1>7 DEF BodyStep
  <2> QED BY <1>7, <1>f, <1>g, <1>h, <2>1 DEF BodyStep
<1>8. CASE MkdirStep
  <2>1. PICK c \in FirstFree(meta) : meta' = Allocated(meta, c) /\ Write(c, DirBlock) BY <1>8 DEF MkdirStep
  <2>2. meta' = Linked(Allocated(meta, c), 0, c) BY <2>1, AllocateAlone
  <2> QED BY <1>8, <1>f, <1>g, <1>h, <2>1, <2>2 DEF MkdirStep
<1>9. ASSUME GiveUp, UNCHANGED bodies PROVE FatInv' BY <1>9, <1>d DEF GiveUp, NoEarlyFree, bodies
<1>10. CASE Full BY <1>9, <1>10 DEF Full
<1>11. CASE BodySync
  <2>1. Shape' BY <1>11, <1>a, <1>b, <1>c DEF BodySync, Shape, SyncBodies, Image
  <2>2. NoEarlyFree' BY <1>11 DEF BodySync, NoEarlyFree
  <2> QED BY <2>1, <2>2
<1>12. CASE GrowDirectory
  <2>1. CASE FreeClusters(meta) = {} BY <1>9, <1>12, <2>1 DEF GrowDirectory
  <2>2. CASE FreeClusters(meta) # {}
    <3> DEFINE prev == LastOf(meta.fat, DirCluster(disk, Parent[op.name]))
    <3>1. PICK c \in FirstFree(meta) :
              /\ meta' = Linked(Allocated(meta, c), prev, c)
              /\ Write(c, DirBlock)
              /\ UNCHANGED <<saved, disk, mounted, fenced, op, pc, reply>> BY <1>12, <2>2 DEF GrowDirectory
    <3>2. pc = "publish" BY <1>12 DEF GrowDirectory
    <3> HIDE DEF prev
    <3> QED BY <1>f, <1>g, <1>h, <3>1, <3>2
  <2> QED BY <2>1, <2>2
<1>13. CASE Publish
  <2>1. Image(disk') BY <1>13, <1>b, <1>c DEF Publish, Image
  <2>2. Shape' BY <1>13, <2>1 DEF Publish, Shape, Image, bodies
  <2>3. NoEarlyFree' BY <1>13 DEF Publish, NoEarlyFree
  <2> QED BY <2>2, <2>3
<1>14. CASE FreeOld
  <2>1. meta' = [fat |-> meta'.fat, free |-> meta'.free] /\ meta'.fat \in FatType
    BY <1>14, <1>b, FreedFacts DEF FreeOld
  <2>2. Shape' BY <1>14, <2>1 DEF FreeOld, Shape, Image, bodies
  <2>3. NoEarlyFree' BY <1>14 DEF FreeOld, NoEarlyFree
  <2> QED BY <2>2, <2>3
<1>15. CASE Erase
  <2>1. Image(disk') BY <1>15, <1>b, <1>c DEF Erase, Image
  <2>2. Shape' BY <1>15, <2>1 DEF Erase, Shape, Image, bodies
  <2>3. NoEarlyFree' BY <1>15 DEF Erase, NoEarlyFree
  <2> QED BY <2>2, <2>3
<1>16. CASE Commit
  <2>1. saved' = Flush(disk) /\ disk' = Flush(disk) /\ UNCHANGED <<meta, body>> BY <1>16 DEF Commit, SyncBodies
  <2>2. Shape' BY <1>b, <1>c, <2>1 DEF Shape, Image
  <2>3. meta' = FatOf(saved') BY <1>b, <1>c, <2>1 DEF FatOf
  <2>4. NoEarlyFree' BY <1>16, <2>3 DEF NoEarlyFree, Commit, Return
  <2> QED BY <2>2, <2>4
<1>17. CASE CommitUnknown
  <2>1. saved' \in {saved, Flush(disk)} /\ disk' = Flush(disk) /\ UNCHANGED <<meta, body>>
    BY <1>17 DEF CommitUnknown, SyncBodies
  <2>2. Image(saved') /\ Image(disk') BY <1>a, <1>c, <2>1
  <2>3. Shape' BY <2>1, <2>2 DEF Shape, Image
  <2>4. NoEarlyFree' BY <1>17 DEF CommitUnknown, NoEarlyFree, Return
  <2> QED BY <2>3, <2>4
<1>18. ASSUME NEW step \in Steps, Fails(step) PROVE FatInv' BY <1>9, <1>18 DEF Fails
<1>19. CASE Rollback
  <2>1. Image(disk)' /\ pc' = "idle" BY <1>19, <1>a DEF Rollback, Image, Return
  <2>2. body' = [c \in Clusters |-> body'[c]] BY <1>19 DEF Rollback, Shape, bodies
  <2> QED BY <1>19, <1>e, <2>1, <2>2 DEF Rollback
<1>20. CASE RollbackFails BY <1>20, <1>d DEF RollbackFails, NoEarlyFree, Return, bodies
<1>21. CASE Crash
  <2>1. Image(disk)' /\ pc' = "idle" BY <1>21, <1>b DEF Crash, Image, Return
  <2>2. body' = [c \in Clusters |-> body'[c]] BY <1>21 DEF Crash
  <2> QED BY <1>21, <1>e, <2>1, <2>2 DEF Crash
<1>22. CASE UNCHANGED vars BY <1>22, <1>d DEF vars, NoEarlyFree, FatOf
<1> QED BY <1>1, <1>2, <1>3, <1>5, <1>6, <1>7, <1>8, <1>10, <1>11, <1>12, <1>13, <1>14,
           <1>15, <1>16, <1>17, <1>18, <1>19, <1>20, <1>21, <1>22 DEF Next

\* A write without a log goes to a cluster free in the saved image.
LEMMA FreeTargets == FatInv /\ [Next]_vars =>
    \A c \in Clusters : body'[c] # body[c] => saved.fat[c] = FREE \/ mounted' = FALSE
<1> SUFFICES ASSUME FatInv, [Next]_vars, NEW c \in Clusters, body'[c] # body[c]
             PROVE  saved.fat[c] = FREE \/ mounted' = FALSE OBVIOUS
<1>1. ASSUME NEW b \in FirstFree(meta), NEW block, Write(b, block),
             pc \in {"body", "mkdir", "publish"}
      PROVE  saved.fat[c] = FREE
  <2>1. b = c BY <1>1 DEF Write, FatInv, Shape
  <2>2. meta.fat[c] = FREE BY <1>1, <2>1 DEF FirstFree, FreeClusters
  <2> QED BY <1>1, <2>2 DEF FatInv, NoEarlyFree
<1>2. CASE BodyStep BY <1>1, <1>2 DEF BodyStep
<1>3. CASE MkdirStep BY <1>1, <1>3 DEF MkdirStep
<1>4. CASE GrowDirectory BY <1>1, <1>4 DEF GrowDirectory, GiveUp, bodies
<1>5. CASE Crash BY <1>5 DEF Crash
<1>6. CASE ~(BodyStep \/ MkdirStep \/ GrowDirectory \/ Crash)
  BY <1>6 DEF Next, vars, bodies, FatMount, BeginFails, Refuse, FatRemove, FatMkdir, FatWrite, Begin, Full, GiveUp,
    BodySync, SyncBodies, Publish, FreeOld, Erase, Commit, CommitUnknown, Fails, Rollback, RollbackFails
<1> QED BY <1>2, <1>3, <1>4, <1>5, <1>6

\* Bodies written without a log only ever hit clusters that are free in the
\* image a rollback or recovery restores (fat_write_data: "only fresh,
\* unreferenced COW bodies use the unjournalled path").
THEOREM NothingCommittedOverwritten == Spec => BodiesToFree
<1>1. Spec => []FatInv BY FatInit, FatStep, PTL DEF Spec
<1>2. FatInv /\ [Next]_vars =>
        [\A c \in Clusters : body'[c] # body[c] => saved.fat[c] = FREE \/ mounted' = FALSE]_vars BY FreeTargets
<1> QED BY <1>1, <1>2, PTL DEF Spec, BodiesToFree

-----------------------------------------------------------------------------
\* A set of numbers has a least one.
LEMMA NatLeast ==
    ASSUME NEW T, T \subseteq Nat, T # {}
    PROVE  \E x \in T : \A y \in T : x <= y
<1> DEFINE R == {p \in Nat \X Nat : p[1] < p[2]}
<1>1. IsWellFoundedOn(R, Nat) BY NatLessThanWellFounded DEF OpToRel
<1>2. \A x, y \in Nat : <<y, x>> \in R <=> y < x OBVIOUS
<1> HIDE DEF R
<1>3. PICK x \in T : \A y \in T : ~ (<<y, x>> \in R) BY <1>1, WFMin
<1>4. \A y \in T : x \in Nat /\ y \in Nat /\ ~(y < x) BY <1>2, <1>3
<1> QED BY <1>4

\* w follows a FAT from `first', k clusters far.
Walks(fat, first, k, w) ==
    w = [i \in 0 .. k |-> IF i = 0 THEN first
                          ELSE IF w[i - 1] \in Clusters THEN fat[w[i - 1]] ELSE EOC]

\* Such a walk exists, however long.
LEMMA WalksFar == ASSUME NEW fat, NEW first, NEW k \in Nat PROVE \E w : Walks(fat, first, k, w)
<1> DEFINE T == {n \in Nat : ~\E w : Walks(fat, first, n, w)}
<1>1. SUFFICES ASSUME T # {} PROVE FALSE OBVIOUS
<1>2. PICK n \in T : \A m \in T : n <= m BY <1>1, NatLeast
<1>3. CASE n = 0
  <2>1. Walks(fat, first, 0, [i \in 0 .. 0 |-> first]) BY DEF Walks
  <2> QED BY <1>2, <1>3, <2>1
<1>4. CASE n # 0
  <2>1. n - 1 \in Nat /\ n - 1 \notin T BY <1>2, <1>4
  <2>2. PICK w : Walks(fat, first, n - 1, w) BY <2>1
  <2> DEFINE last == IF w[n - 1] \in Clusters THEN fat[w[n - 1]] ELSE EOC
             v == [i \in 0 .. n |-> IF i = n THEN last ELSE w[i]]
  <2>3. \A i \in 0 .. n : i # n => i \in 0 .. n - 1 BY <2>1
  <2>4. \A i \in 0 .. n : i # 0 => v[i - 1] = w[i - 1] BY <2>1
  <2>5. \A i \in 0 .. n - 1 : w[i] = IF i = 0 THEN first
                          ELSE IF w[i - 1] \in Clusters THEN fat[w[i - 1]] ELSE EOC BY <2>2 DEF Walks
  <2>6. \A i \in 0 .. n : v[i] = IF i = 0 THEN first
                          ELSE IF v[i - 1] \in Clusters THEN fat[v[i - 1]] ELSE EOC BY <1>4, <2>3, <2>4, <2>5
  <2>7. v = [i \in 0 .. n |-> v[i]] OBVIOUS
  <2> HIDE DEF v
  <2>8. Walks(fat, first, n, v) BY <2>6, <2>7, Zenon DEF Walks
  <2> QED BY <1>2, <2>8
<1> QED BY <1>3, <1>4

\* What the operator Nth of the model is.
LEMMA NthStep ==
    ASSUME NEW fat, NEW first
    PROVE  LET w == Nth(fat, first)
           IN  /\ w = [i \in 0 .. CLUSTERS |-> w[i]]
               /\ w[0] = first
               /\ \A i \in 0 .. CLUSTERS : i # 0 =>
                    w[i] = IF w[i - 1] \in Clusters THEN fat[w[i - 1]] ELSE EOC
<1> DEFINE W(f) == f = [i \in 0 .. CLUSTERS |-> IF i = 0 THEN first
                          ELSE IF f[i - 1] \in Clusters THEN fat[f[i - 1]] ELSE EOC]
           w == CHOOSE f : W(f)
<1>1. \E f : W(f)
  <2>1. CLUSTERS \in Nat BY SizeAssumption
  <2>2. PICK f : Walks(fat, first, CLUSTERS, f) BY <2>1, WalksFar
  <2> QED BY <2>2 DEF Walks
<1>2. W(w) BY <1>1
<1>3. Nth(fat, first) = w BY DEF Nth
<1> HIDE DEF w
<1>4. 0 \in 0 .. CLUSTERS BY SizeAssumption
<1> QED BY <1>2, <1>3, <1>4

-----------------------------------------------------------------------------
(***************************************************************************)
(* A FAT laid out in chains.  Every owner (a file, a directory, the root,  *)
(* and the chain a call has in hand) has a first cluster, 0 for none.      *)
(***************************************************************************)
Loose == CHOOSE o : o \notin Names \cup {Root}
Owners == Names \cup {Root, Loose}
Nobody == CHOOSE o : o \notin Owners

\* The stand-ins are nobody else.
LEMMA OwnersDistinct == Loose \notin Names \cup {Root} /\ Nobody \notin Owners
<1>1. \E o : o \notin Names \cup {Root} BY NoSetContainsEverything
<1>2. \E o : o \notin Owners BY NoSetContainsEverything
<1> QED BY <1>1, <1>2 DEF Loose, Nobody

\* Who owns a cluster, at which place of a chain of what length.
Layout(fat, heads, own, pos, len) ==
    /\ own \in [Clusters -> Owners \cup {Nobody}]
    /\ pos \in [Clusters -> Nat] /\ len \in [Owners -> Nat]
    /\ \A c \in Clusters : fat[c] = FREE <=> own[c] = Nobody
    /\ \A c \in Clusters : own[c] # Nobody =>
        /\ pos[c] < len[own[c]]
        /\ IF pos[c] + 1 = len[own[c]] THEN fat[c] = EOC
           ELSE fat[c] \in Clusters /\ own[fat[c]] = own[c] /\ pos[fat[c]] = pos[c] + 1
    /\ \A b, c \in Clusters : own[b] # Nobody /\ own[b] = own[c] /\ pos[b] = pos[c] => b = c
    /\ \A o \in Owners : IF len[o] = 0 THEN heads[o] = 0
                         ELSE heads[o] \in Clusters /\ own[heads[o]] = o /\ pos[heads[o]] = 0

\* Following the FAT from the head leads along the chain, and to its end.
LEMMA LayoutNth ==
    ASSUME NEW fat, NEW heads, NEW own, NEW pos, NEW len, Layout(fat, heads, own, pos, len),
           NEW o \in Owners
    PROVE  /\ \A i \in 0 .. CLUSTERS :
                LET c == Nth(fat, heads[o])[i]
                IN  IF i < len[o] THEN c \in Clusters /\ own[c] = o /\ pos[c] = i
                    ELSE c = IF i = 0 THEN 0 ELSE EOC
           /\ len[o] <= CLUSTERS
<1> USE DEF Layout
<1> DEFINE w == Nth(fat, heads[o])
           Right(i) == IF i < len[o] THEN w[i] \in Clusters /\ own[w[i]] = o /\ pos[w[i]] = i
                       ELSE w[i] = IF i = 0 THEN 0 ELSE EOC
           T == {i \in 0 .. CLUSTERS : ~Right(i)}
<1>1. /\ w[0] = heads[o]
      /\ \A i \in 0 .. CLUSTERS : i # 0 =>
            w[i] = IF w[i - 1] \in Clusters THEN fat[w[i - 1]] ELSE EOC BY NthStep
<1>2. CLUSTERS \in Nat /\ CLUSTERS # 0 /\ len[o] \in Nat /\ EOC \notin Clusters /\ 0 \notin Clusters
      /\ o # Nobody BY SizeAssumption, OwnersDistinct DEF EOC, Clusters
<1> HIDE DEF w
<1>3. T = {}
  <2>1. SUFFICES ASSUME T # {} PROVE FALSE OBVIOUS
  <2>2. T \subseteq Nat BY <1>2
  <2> HIDE DEF T
  <2>3. PICK n \in T : \A j \in T : n <= j BY <2>1, <2>2, NatLeast
  <2> USE DEF T
  <2>4. n # 0 BY <1>1, <1>2, <2>3
  <2>5. n - 1 \in 0 .. CLUSTERS /\ n - 1 \in Nat /\ Right(n - 1) /\ n \in 0 .. CLUSTERS /\ ~Right(n)
    BY <1>2, <2>3, <2>4
  <2>6. w[n] = IF w[n - 1] \in Clusters THEN fat[w[n - 1]] ELSE EOC BY <1>1, <2>4, <2>5
  <2>7. CASE n - 1 < len[o] BY <1>2, <2>4, <2>5, <2>6, <2>7
  <2>8. CASE ~(n - 1 < len[o]) BY <1>2, <2>4, <2>5, <2>6, <2>8
  <2> QED BY <2>7, <2>8
<1>4. len[o] <= CLUSTERS
  <2>1. SUFFICES ASSUME ~(len[o] <= CLUSTERS) PROVE FALSE OBVIOUS
  <2>2. \A i \in 0 .. CLUSTERS : w[i] \in Clusters /\ pos[w[i]] = i BY <1>2, <1>3, <2>1
  <2> DEFINE f == [i \in 0 .. CLUSTERS |-> w[i]]
  <2>3. f \in Injection(0 .. CLUSTERS, Clusters) BY <2>2 DEF Injection, IsInjective
  <2>4. IsFiniteSet(Clusters) /\ Cardinality(Clusters) = CLUSTERS BY <1>2, FS_Interval DEF Clusters
  <2>5. IsFiniteSet(0 .. CLUSTERS) /\ Cardinality(0 .. CLUSTERS) = CLUSTERS + 1 BY <1>2, FS_Interval
  <2>6. Cardinality(0 .. CLUSTERS) <= Cardinality(Clusters) BY <2>3, <2>4, FS_Injection
  <2> QED BY <1>2, <2>4, <2>5, <2>6
<1> QED BY <1>3, <1>4 DEF w

\* The clusters of a chain are its owner's.
LEMMA LayoutChain ==
    ASSUME NEW fat, NEW heads, NEW own, NEW pos, NEW len, Layout(fat, heads, own, pos, len),
           NEW o \in Owners
    PROVE  /\ \A c : c \in Chain(fat, heads[o]) <=> c \in Clusters /\ own[c] = o
           /\ Cardinality(Chain(fat, heads[o])) = len[o]
<1> DEFINE w == Nth(fat, heads[o])
<1>1. /\ \A i \in 0 .. CLUSTERS :
            IF i < len[o] THEN w[i] \in Clusters /\ own[w[i]] = o /\ pos[w[i]] = i
            ELSE w[i] = IF i = 0 THEN 0 ELSE EOC
      /\ len[o] <= CLUSTERS BY LayoutNth
<1>2. CLUSTERS \in Nat /\ len[o] \in Nat /\ EOC \notin Clusters /\ 0 \notin Clusters /\ o # Nobody
  BY SizeAssumption, OwnersDistinct DEF EOC, Clusters, Layout
<1>3. Chain(fat, heads[o]) = {w[i] : i \in 0 .. CLUSTERS} \cap Clusters BY DEF Chain
<1> HIDE DEF w
<1>4. ASSUME NEW c \in Chain(fat, heads[o]) PROVE c \in Clusters /\ own[c] = o
  <2>1. PICK i \in 0 .. CLUSTERS : c = w[i] BY <1>3, <1>4
  <2>2. c \in Clusters BY <1>3, <1>4
  <2> QED BY <1>1, <1>2, <2>1, <2>2
<1>5. ASSUME NEW c \in Clusters, own[c] = o
      PROVE  pos[c] \in 0 .. CLUSTERS /\ pos[c] \in 0 .. len[o] - 1 /\ w[pos[c]] = c
  <2>1. pos[c] \in Nat /\ pos[c] < len[o] BY <1>2, <1>5 DEF Layout
  <2>2. pos[c] \in 0 .. CLUSTERS /\ pos[c] \in 0 .. len[o] - 1 BY <1>1, <1>2, <2>1
  <2>3. w[pos[c]] \in Clusters /\ own[w[pos[c]]] = o /\ pos[w[pos[c]]] = pos[c] BY <1>1, <2>1, <2>2
  <2> QED BY <1>2, <1>5, <2>2, <2>3 DEF Layout
<1>6. \A c : c \in Chain(fat, heads[o]) <=> c \in Clusters /\ own[c] = o BY <1>3, <1>4, <1>5
<1>7. Cardinality(Chain(fat, heads[o])) = len[o]
  <2> DEFINE f == [i \in 0 .. len[o] - 1 |-> w[i]]
  <2>1. \A i \in 0 .. len[o] - 1 : w[i] \in Chain(fat, heads[o]) /\ pos[w[i]] = i
    <3>1. \A i \in 0 .. len[o] - 1 : i \in 0 .. CLUSTERS /\ i < len[o] BY <1>1, <1>2
    <3> QED BY <1>1, <1>6, <3>1
  <2>2. \A c \in Chain(fat, heads[o]) : \E i \in 0 .. len[o] - 1 : f[i] = c BY <1>5, <1>6
  <2>3. f \in Bijection(0 .. len[o] - 1, Chain(fat, heads[o]))
    BY <2>1, <2>2 DEF Bijection, Injection, Surjection, IsInjective
  <2>4. IsFiniteSet(0 .. len[o] - 1) /\ Cardinality(0 .. len[o] - 1) = len[o]
    <3>1. 0 \in Int /\ len[o] - 1 \in Int /\ ~(0 > len[o] - 1 + 1) BY <1>2
    <3>2. Cardinality(0 .. len[o] - 1) = IF 0 > len[o] - 1 THEN 0 ELSE len[o] - 1 - 0 + 1 BY <3>1, FS_Interval
    <3>3. IsFiniteSet(0 .. len[o] - 1) BY <3>1, FS_Interval
    <3> QED BY <1>2, <3>2, <3>3
  <2>5. ExistsBijection(0 .. len[o] - 1, Chain(fat, heads[o])) BY <2>3 DEF ExistsBijection
  <2> QED BY <2>4, <2>5, FS_Bijection
<1> QED BY <1>6, <1>7

\* Chains with the same clusters at the same places are followed the same way.
LEMMA LayoutSame ==
    ASSUME NEW fat, NEW heads, NEW own, NEW pos, NEW len, Layout(fat, heads, own, pos, len),
           NEW fat2, NEW heads2, NEW own2, NEW pos2, NEW len2,
           Layout(fat2, heads2, own2, pos2, len2),
           NEW o \in Owners,
           \A c \in Clusters : own[c] = o => own2[c] = o /\ pos2[c] = pos[c]
    PROVE  \A i \in 0 .. CLUSTERS : i < len[o] \/ len2[o] = len[o] =>
                Nth(fat2, heads2[o])[i] = Nth(fat, heads[o])[i]
<1> DEFINE w == Nth(fat, heads[o])
           v == Nth(fat2, heads2[o])
<1>1. /\ \A i \in 0 .. CLUSTERS :
            IF i < len[o] THEN w[i] \in Clusters /\ own[w[i]] = o /\ pos[w[i]] = i
            ELSE w[i] = IF i = 0 THEN 0 ELSE EOC BY LayoutNth
<1>2. /\ \A i \in 0 .. CLUSTERS :
            IF i < len2[o] THEN v[i] \in Clusters /\ own2[v[i]] = o /\ pos2[v[i]] = i
            ELSE v[i] = IF i = 0 THEN 0 ELSE EOC BY LayoutNth
<1>3. CLUSTERS \in Nat /\ len[o] \in Nat /\ len2[o] \in Nat /\ o # Nobody BY SizeAssumption, OwnersDistinct DEF Layout
<1> HIDE DEF w, v
<1>4. ASSUME NEW i \in 0 .. CLUSTERS, i < len[o] PROVE v[i] = w[i]
  <2>1. w[i] \in Clusters /\ own2[w[i]] = o /\ pos2[w[i]] = i BY <1>1, <1>4
  <2>2. i < len2[o] BY <1>3, <2>1 DEF Layout
  <2>3. v[i] \in Clusters /\ own2[v[i]] = o /\ pos2[v[i]] = i BY <1>2, <2>2
  <2> QED BY <1>3, <2>1, <2>3 DEF Layout
<1>5. ASSUME NEW i \in 0 .. CLUSTERS, ~(i < len[o]), len2[o] = len[o] PROVE v[i] = w[i] BY <1>1, <1>2, <1>5
<1> QED BY <1>4, <1>5 DEF w, v

-----------------------------------------------------------------------------
\* A FAT with a layout.
Laid(fat, heads) == \E own, pos, len : Layout(fat, heads, own, pos, len)

\* What a layout says in terms of the model's operators: chains end, share no
\* cluster, and take all that is not free.
LEMMA LaidFacts ==
    ASSUME NEW fat, NEW heads, Laid(fat, heads)
    PROVE  /\ \A o \in Owners :
                /\ ChainWhole(fat, heads[o])
                /\ heads[o] = 0 => Chain(fat, heads[o]) = {}
                /\ heads[o] # 0 => heads[o] \in Chain(fat, heads[o])
                /\ Chain(fat, heads[o]) \subseteq Clusters
                /\ \A c \in Chain(fat, heads[o]) : fat[c] # FREE
                /\ IsFiniteSet(Chain(fat, heads[o])) /\ Cardinality(Chain(fat, heads[o])) \in 0 .. CLUSTERS
                /\ \A i \in 0 .. CLUSTERS : i < Cardinality(Chain(fat, heads[o])) =>
                        Nth(fat, heads[o])[i] \in Chain(fat, heads[o])
           /\ \A o, p \in Owners : o # p => Chain(fat, heads[o]) \cap Chain(fat, heads[p]) = {}
           /\ \A c \in Clusters : fat[c] # FREE => \E o \in Owners : c \in Chain(fat, heads[o])
<1>1. PICK own, pos, len : Layout(fat, heads, own, pos, len) BY DEF Laid
<1>2. CLUSTERS \in Nat /\ CLUSTERS # 0 /\ len \in [Owners -> Nat] /\ Nobody \notin Owners
  BY <1>1, SizeAssumption, OwnersDistinct DEF Layout
<1>3. ASSUME NEW o \in Owners
      PROVE  /\ ChainWhole(fat, heads[o])
             /\ heads[o] = 0 => Chain(fat, heads[o]) = {}
             /\ heads[o] # 0 => heads[o] \in Chain(fat, heads[o])
             /\ Chain(fat, heads[o]) \subseteq Clusters
             /\ \A c \in Chain(fat, heads[o]) : fat[c] # FREE
             /\ IsFiniteSet(Chain(fat, heads[o])) /\ Cardinality(Chain(fat, heads[o])) \in 0 .. CLUSTERS
             /\ \A i \in 0 .. CLUSTERS : i < Cardinality(Chain(fat, heads[o])) =>
                    Nth(fat, heads[o])[i] \in Chain(fat, heads[o])
             /\ \A c : c \in Chain(fat, heads[o]) <=> c \in Clusters /\ own[c] = o
  <2>1. /\ \A i \in 0 .. CLUSTERS :
                LET c == Nth(fat, heads[o])[i]
                IN  IF i < len[o] THEN c \in Clusters /\ own[c] = o /\ pos[c] = i
                    ELSE c = IF i = 0 THEN 0 ELSE EOC
        /\ len[o] <= CLUSTERS BY <1>1, LayoutNth
  <2>2. /\ \A c : c \in Chain(fat, heads[o]) <=> c \in Clusters /\ own[c] = o
        /\ Cardinality(Chain(fat, heads[o])) = len[o] BY <1>1, LayoutChain
  <2>3. IF len[o] = 0 THEN heads[o] = 0
        ELSE heads[o] \in Clusters /\ own[heads[o]] = o /\ pos[heads[o]] = 0 BY <1>1 DEF Layout
  <2>4. CLUSTERS \in 0 .. CLUSTERS /\ ~(CLUSTERS < len[o]) BY <1>2, <2>1
  <2>5. ChainWhole(fat, heads[o]) BY <1>2, <2>1, <2>4 DEF ChainWhole
  <2>6. 0 \notin Clusters BY DEF Clusters
  <2>7. heads[o] = 0 => \A c \in Clusters : own[c] # o BY <1>1, <1>2, <2>3, <2>6 DEF Layout
  <2>8. IsFiniteSet(Clusters) BY <1>2, FS_Interval DEF Clusters
  <2>9. IsFiniteSet(Chain(fat, heads[o])) BY <2>2, <2>8, FS_Subset
  <2>10. \A c \in Chain(fat, heads[o]) : fat[c] # FREE BY <1>1, <1>2, <2>2 DEF Layout
  <2>11. \A i \in 0 .. CLUSTERS : i < Cardinality(Chain(fat, heads[o])) =>
                Nth(fat, heads[o])[i] \in Chain(fat, heads[o]) BY <2>1, <2>2
  <2> QED BY <1>2, <2>1, <2>2, <2>3, <2>5, <2>7, <2>9, <2>10, <2>11
<1>4. \A c \in Clusters : fat[c] # FREE => own[c] \in Owners BY <1>1 DEF Layout
<1> QED BY <1>3, <1>4

\* A free cluster put at the end of a chain.
Extended(fat, prev, c) ==
    IF prev = 0 THEN [fat EXCEPT ![c] = EOC] ELSE [[fat EXCEPT ![c] = EOC] EXCEPT ![prev] = c]
\* The end of the chain at `first', 0 of an empty one.
IsLast(fat, first, prev) ==
    IF first = 0 THEN prev = 0 ELSE prev \in Chain(fat, first) /\ fat[prev] = EOC

\* The chain of o has got c at its end, and nothing else has changed.
Grown(fat, heads, fat2, heads2, o, c) ==
    LET old == Chain(fat, heads[o])
    IN  /\ Laid(fat2, heads2)
        /\ Chain(fat2, heads2[o]) = old \cup {c} /\ c \notin old
        /\ Cardinality(Chain(fat2, heads2[o])) = Cardinality(old) + 1
        /\ \A i \in 0 .. CLUSTERS : i < Cardinality(old) =>
                Nth(fat2, heads2[o])[i] = Nth(fat, heads[o])[i]
        /\ Nth(fat2, heads2[o])[Cardinality(old)] = c
        /\ \A p \in Owners : p # o =>
            /\ heads2[p] = heads[p]
            /\ Chain(fat2, heads2[p]) = Chain(fat, heads[p])
            /\ \A i \in 0 .. CLUSTERS : Nth(fat2, heads2[p])[i] = Nth(fat, heads[p])[i]
        /\ fat2[c] = EOC

\* Extending a chain gives a layout again, grown by that cluster.
LEMMA LaidExtended ==
    ASSUME NEW fat, fat \in FatType, NEW heads, Laid(fat, heads),
           NEW o \in Owners, NEW c \in Clusters, fat[c] = FREE,
           NEW prev, IsLast(fat, heads[o], prev),
           NEW heads2, \A p \in Owners : heads2[p] = IF p # o THEN heads[p]
                                                     ELSE IF heads[o] = 0 THEN c ELSE heads[o]
    PROVE  Grown(fat, heads, Extended(fat, prev, c), heads2, o, c)
<1>1. PICK own, pos, len : Layout(fat, heads, own, pos, len) BY DEF Laid
<1>2. /\ CLUSTERS \in Nat /\ len \in [Owners -> Nat] /\ Nobody \notin Owners /\ o # Nobody
      /\ EOC \notin Clusters /\ 0 \notin Clusters /\ EOC # FREE /\ c # FREE /\ c # EOC
      /\ own \in [Clusters -> Owners \cup {Nobody}] /\ pos \in [Clusters -> Nat]
  BY <1>1, SizeAssumption, OwnersDistinct DEF Layout, EOC, Clusters, FREE
<1>3. own[c] = Nobody BY <1>1 DEF Layout
<1>4. \A p \in Owners : /\ \A b : b \in Chain(fat, heads[p]) <=> b \in Clusters /\ own[b] = p
                        /\ Cardinality(Chain(fat, heads[p])) = len[p] BY <1>1, LayoutChain
<1> DEFINE fat2 == Extended(fat, prev, c)
           own2 == [own EXCEPT ![c] = o]
           pos2 == [pos EXCEPT ![c] = len[o]]
           len2 == [len EXCEPT ![o] = len[o] + 1]
<1>5. /\ fat2[c] = EOC
      /\ \A b \in Clusters : b # c /\ b # prev => fat2[b] = fat[b]
      /\ prev # 0 => fat2[prev] = c
  <2>1. prev # 0 => prev \in Clusters /\ prev # c BY <1>2, <1>3, <1>4 DEF IsLast
  <2> QED BY <2>1 DEF Extended, FatType
<1>6. /\ own2 \in [Clusters -> Owners \cup {Nobody}] /\ pos2 \in [Clusters -> Nat]
      /\ len2 \in [Owners -> Nat]
      /\ own2[c] = o /\ pos2[c] = len[o] /\ len2[o] = len[o] + 1
      /\ \A b \in Clusters : b # c => own2[b] = own[b] /\ pos2[b] = pos[b]
      /\ \A p \in Owners : p # o => len2[p] = len[p] /\ heads2[p] = heads[p]
      /\ heads2[o] = IF heads[o] = 0 THEN c ELSE heads[o] BY <1>2
<1> HIDE DEF fat2, own2, pos2, len2
<1>7. /\ prev = 0 => len[o] = 0
      /\ prev # 0 => prev \in Clusters /\ own[prev] = o /\ pos[prev] + 1 = len[o] /\ len[o] # 0 /\ prev # c
  <2>1. prev = 0 => heads[o] = 0 BY <1>2, <1>4 DEF IsLast
  <2>2. heads[o] = 0 => len[o] = 0 BY <1>1, <1>2 DEF Layout
  <2>3. prev # 0 => heads[o] # 0 /\ prev \in Clusters /\ own[prev] = o /\ fat[prev] = EOC BY <1>4 DEF IsLast
  <2>4. prev # 0 => pos[prev] + 1 = len[o] BY <1>1, <1>2, <2>3 DEF Layout
  <2>5. prev # 0 => len[o] # 0 /\ prev # c BY <1>2, <1>3, <2>3, <2>4
  <2> QED BY <2>1, <2>2, <2>3, <2>4, <2>5
<1>8. Layout(fat2, heads2, own2, pos2, len2)
  <2>1. \A b \in Clusters : fat2[b] = FREE <=> own2[b] = Nobody
    <3>1. ASSUME NEW b \in Clusters, b # c, b # prev PROVE fat2[b] = FREE <=> own2[b] = Nobody
      BY <1>1, <1>5, <1>6, <3>1 DEF Layout
    <3> QED BY <1>2, <1>5, <1>6, <1>7, <3>1
  <2>2. ASSUME NEW b \in Clusters, own2[b] # Nobody
        PROVE  /\ pos2[b] < len2[own2[b]]
               /\ IF pos2[b] + 1 = len2[own2[b]] THEN fat2[b] = EOC
                  ELSE fat2[b] \in Clusters /\ own2[fat2[b]] = own2[b] /\ pos2[fat2[b]] = pos2[b] + 1
    <3>1. CASE b = c BY <1>2, <1>5, <1>6, <3>1
    <3>2. CASE b = prev BY <1>2, <1>5, <1>6, <1>7, <3>2
    <3>3. CASE b # c /\ b # prev
      <4>1. own2[b] = own[b] /\ pos2[b] = pos[b] /\ fat2[b] = fat[b] /\ own[b] \in Owners
        BY <1>2, <1>5, <1>6, <2>2, <3>3
      <4>2. /\ pos[b] < len[own[b]]
            /\ IF pos[b] + 1 = len[own[b]] THEN fat[b] = EOC
               ELSE fat[b] \in Clusters /\ own[fat[b]] = own[b] /\ pos[fat[b]] = pos[b] + 1
        BY <1>1, <2>2, <4>1 DEF Layout
      <4>3. own[b] = o => pos[b] + 1 # len[o] BY <1>1, <1>2, <1>7, <3>3, <4>2 DEF Layout
      <4>4. fat[b] \in Clusters /\ own[fat[b]] = own[b] => fat[b] # c BY <1>3, <1>2, <4>1
      <4>5. CASE own[b] = o BY <1>2, <1>6, <4>1, <4>2, <4>3, <4>4, <4>5
      <4>6. CASE own[b] # o BY <1>2, <1>6, <4>1, <4>2, <4>4, <4>6
      <4> QED BY <4>5, <4>6
    <3> QED BY <3>1, <3>2, <3>3
  <2>3. ASSUME NEW a \in Clusters, NEW b \in Clusters, own2[b] # Nobody, own2[b] = own2[a], pos2[b] = pos2[a]
        PROVE  a = b
    <3>1. CASE a # c /\ b # c BY <1>1, <1>6, <2>3, <3>1 DEF Layout
    <3>2. \A x \in Clusters : x # c /\ own[x] = o => pos[x] # len[o] BY <1>1, <1>2 DEF Layout
    <3>3. CASE a = c \/ b = c BY <1>6, <2>3, <3>2, <3>3
    <3> QED BY <3>1, <3>3
  <2>4. ASSUME NEW p \in Owners
        PROVE  IF len2[p] = 0 THEN heads2[p] = 0
               ELSE heads2[p] \in Clusters /\ own2[heads2[p]] = p /\ pos2[heads2[p]] = 0
    <3>1. IF len[p] = 0 THEN heads[p] = 0
          ELSE heads[p] \in Clusters /\ own[heads[p]] = p /\ pos[heads[p]] = 0 BY <1>1 DEF Layout
    <3>2. CASE p # o BY <1>2, <1>3, <1>6, <3>1, <3>2
    <3>3. CASE p = o BY <1>2, <1>3, <1>6, <3>1, <3>3
    <3> QED BY <3>2, <3>3
  <2> QED BY <1>6, <2>1, <2>2, <2>3, <2>4 DEF Layout
<1>9. Laid(fat2, heads2) BY <1>8 DEF Laid
<1>10. \A p \in Owners : /\ \A b : b \in Chain(fat2, heads2[p]) <=> b \in Clusters /\ own2[b] = p
                         /\ Cardinality(Chain(fat2, heads2[p])) = len2[p] BY <1>8, LayoutChain
<1>11. ASSUME NEW p \in Owners
       PROVE  \A i \in 0 .. CLUSTERS : i < len[p] \/ len2[p] = len[p] =>
                    Nth(fat2, heads2[p])[i] = Nth(fat, heads[p])[i] BY <1>1, <1>2, <1>3, <1>6, <1>8, LayoutSame
<1>12. Nth(fat2, heads2[o])[len[o]] = c
  <2>1. /\ \A i \in 0 .. CLUSTERS :
                LET x == Nth(fat2, heads2[o])[i]
                IN  IF i < len2[o] THEN x \in Clusters /\ own2[x] = o /\ pos2[x] = i
                    ELSE x = IF i = 0 THEN 0 ELSE EOC
        /\ len2[o] <= CLUSTERS BY <1>8, LayoutNth
  <2>2. len[o] \in 0 .. CLUSTERS /\ len[o] < len2[o] BY <1>2, <1>6, <2>1
  <2> QED BY <1>2, <1>6, <1>8, <2>1, <2>2 DEF Layout
<1>13. Chain(fat2, heads2[o]) = Chain(fat, heads[o]) \cup {c} /\ c \notin Chain(fat, heads[o])
  BY <1>2, <1>3, <1>4, <1>6, <1>10
<1>14. ASSUME NEW p \in Owners, p # o PROVE Chain(fat2, heads2[p]) = Chain(fat, heads[p])
  <2>1. \A b \in Clusters : own2[b] = p <=> own[b] = p BY <1>2, <1>3, <1>6, <1>14
  <2>2. \A b : b \in Chain(fat2, heads2[p]) <=> b \in Chain(fat, heads[p]) BY <1>4, <1>10, <2>1
  <2> QED BY <2>2
<1>15. Cardinality(Chain(fat2, heads2[o])) = Cardinality(Chain(fat, heads[o])) + 1 BY <1>4, <1>6, <1>10
<1> QED BY <1>4, <1>5, <1>6, <1>9, <1>11, <1>12, <1>13, <1>14, <1>15 DEF fat2, Grown

\* Chains that change hands.
LEMMA LaidSwapped ==
    ASSUME NEW fat, NEW heads, Laid(fat, heads), NEW o \in Owners, NEW p \in Owners,
           NEW heads2, \A x \in Owners : heads2[x] = IF x = o THEN heads[p]
                                                     ELSE IF x = p THEN heads[o] ELSE heads[x]
    PROVE  Laid(fat, heads2)
<1>1. PICK own, pos, len : Layout(fat, heads, own, pos, len) BY DEF Laid
<1> DEFINE swap(x) == IF x = o THEN p ELSE IF x = p THEN o ELSE x
           own2 == [c \in Clusters |-> swap(own[c])]
           len2 == [x \in Owners |-> len[swap(x)]]
<1>2. /\ Nobody \notin Owners /\ own \in [Clusters -> Owners \cup {Nobody}]
      /\ pos \in [Clusters -> Nat]
      /\ len \in [Owners -> Nat] BY <1>1, OwnersDistinct DEF Layout
<1>3. /\ \A x \in Owners : swap(x) \in Owners /\ swap(swap(x)) = x /\ heads2[x] = heads[swap(x)]
      /\ swap(Nobody) = Nobody
      /\ \A x, y : swap(x) = swap(y) => x = y BY <1>2
<1> HIDE DEF swap
<1>4. /\ \A c \in Clusters : own2[c] = swap(own[c])
      /\ \A x \in Owners : len2[x] = len[swap(x)] OBVIOUS
<1>5. own2 \in [Clusters -> Owners \cup {Nobody}] /\ len2 \in [Owners -> Nat] BY <1>2, <1>3
<1> HIDE DEF own2, len2
<1>6. \A c \in Clusters : own2[c] = Nobody <=> own[c] = Nobody BY <1>2, <1>3, <1>4
<1>7. \A c \in Clusters : own[c] # Nobody => own[c] \in Owners /\ len2[own2[c]] = len[own[c]] BY <1>2, <1>3, <1>4
<1>8. \A c \in Clusters : fat[c] = FREE <=> own2[c] = Nobody BY <1>1, <1>6 DEF Layout
<1>9. ASSUME NEW c \in Clusters, own2[c] # Nobody
      PROVE  /\ pos[c] < len2[own2[c]]
             /\ IF pos[c] + 1 = len2[own2[c]] THEN fat[c] = EOC
                ELSE fat[c] \in Clusters /\ own2[fat[c]] = own2[c] /\ pos[fat[c]] = pos[c] + 1
  <2>1. own[c] # Nobody /\ len2[own2[c]] = len[own[c]] BY <1>6, <1>7, <1>9
  <2>2. /\ pos[c] < len[own[c]]
        /\ IF pos[c] + 1 = len[own[c]] THEN fat[c] = EOC
           ELSE fat[c] \in Clusters /\ own[fat[c]] = own[c] /\ pos[fat[c]] = pos[c] + 1 BY <1>1, <2>1 DEF Layout
  <2> QED BY <1>4, <2>1, <2>2
<1>10. \A a, b \in Clusters : own2[a] # Nobody /\ own2[a] = own2[b] /\ pos[a] = pos[b] => a = b
  <2>1. \A a, b \in Clusters : own2[a] = own2[b] => own[a] = own[b] BY <1>3, <1>4
  <2> QED BY <1>1, <1>6, <2>1 DEF Layout
<1>11. ASSUME NEW x \in Owners
       PROVE  IF len2[x] = 0 THEN heads2[x] = 0
              ELSE heads2[x] \in Clusters /\ own2[heads2[x]] = x /\ pos[heads2[x]] = 0
  <2>1. swap(x) \in Owners /\ swap(swap(x)) = x /\ heads2[x] = heads[swap(x)]
        /\ len2[x] = len[swap(x)] BY <1>3, <1>4
  <2>2. IF len[swap(x)] = 0 THEN heads[swap(x)] = 0
        ELSE heads[swap(x)] \in Clusters /\ own[heads[swap(x)]] = swap(x) /\ pos[heads[swap(x)]] = 0
    BY <1>1, <2>1 DEF Layout
  <2> QED BY <1>4, <2>1, <2>2
<1>12. Layout(fat, heads2, own2, pos, len2) BY <1>2, <1>5, <1>8, <1>9, <1>10, <1>11 DEF Layout
<1> QED BY <1>12 DEF Laid

\* A chain given back.
Without(fat, gone) == [c \in Clusters |-> IF c \in gone THEN FREE ELSE fat[c]]

\* Freeing one chain leaves every other as it was.
LEMMA LaidFreed ==
    ASSUME NEW fat, fat \in FatType, NEW heads, Laid(fat, heads), NEW o \in Owners,
           NEW heads2, \A p \in Owners : heads2[p] = IF p = o THEN 0 ELSE heads[p]
    PROVE  LET fat2 == Without(fat, Chain(fat, heads[o]))
           IN  /\ Laid(fat2, heads2)
               /\ \A p \in Owners : p # o =>
                    /\ Chain(fat2, heads2[p]) = Chain(fat, heads[p])
                    /\ \A i \in 0 .. CLUSTERS : Nth(fat2, heads2[p])[i] = Nth(fat, heads[p])[i]
<1>1. PICK own, pos, len : Layout(fat, heads, own, pos, len) BY DEF Laid
<1>2. /\ Nobody \notin Owners /\ own \in [Clusters -> Owners \cup {Nobody}]
      /\ pos \in [Clusters -> Nat]
      /\ len \in [Owners -> Nat] /\ o # Nobody /\ EOC # FREE /\ FREE \notin Clusters
  BY <1>1, SizeAssumption, OwnersDistinct DEF Layout, EOC, FREE, Clusters
<1>3. \A p \in Owners : \A b : b \in Chain(fat, heads[p]) <=> b \in Clusters /\ own[b] = p BY <1>1, LayoutChain
<1> DEFINE fat2 == Without(fat, Chain(fat, heads[o]))
           own2 == [c \in Clusters |-> IF own[c] = o THEN Nobody ELSE own[c]]
           len2 == [p \in Owners |-> IF p = o THEN 0 ELSE len[p]]
<1>4. \A c \in Clusters : fat2[c] = IF own[c] = o THEN FREE ELSE fat[c] BY <1>3 DEF Without
<1>5. /\ \A c \in Clusters : own2[c] = IF own[c] = o THEN Nobody ELSE own[c]
      /\ \A p \in Owners : len2[p] = IF p = o THEN 0 ELSE len[p]
      /\ own2 \in [Clusters -> Owners \cup {Nobody}] /\ len2 \in [Owners -> Nat] BY <1>2
<1> HIDE DEF fat2, own2, len2
<1>6. Layout(fat2, heads2, own2, pos, len2)
  <2>1. \A b \in Clusters : fat2[b] = FREE <=> own2[b] = Nobody BY <1>1, <1>2, <1>4, <1>5 DEF Layout
  <2>2. ASSUME NEW b \in Clusters, own2[b] # Nobody
        PROVE  /\ pos[b] < len2[own2[b]]
               /\ IF pos[b] + 1 = len2[own2[b]] THEN fat2[b] = EOC
                  ELSE fat2[b] \in Clusters /\ own2[fat2[b]] = own2[b] /\ pos[fat2[b]] = pos[b] + 1
    <3>1. own[b] # o /\ own2[b] = own[b] /\ own[b] # Nobody /\ own[b] \in Owners
          /\ len2[own2[b]] = len[own[b]] /\ fat2[b] = fat[b] BY <1>2, <1>4, <1>5, <2>2
    <3>2. /\ pos[b] < len[own[b]]
          /\ IF pos[b] + 1 = len[own[b]] THEN fat[b] = EOC
             ELSE fat[b] \in Clusters /\ own[fat[b]] = own[b] /\ pos[fat[b]] = pos[b] + 1 BY <1>1, <3>1 DEF Layout
    <3> QED BY <1>5, <3>1, <3>2
  <2>3. \A a, b \in Clusters : own2[a] # Nobody /\ own2[a] = own2[b] /\ pos[a] = pos[b] => a = b
    BY <1>1, <1>5 DEF Layout
  <2>4. ASSUME NEW p \in Owners
        PROVE  IF len2[p] = 0 THEN heads2[p] = 0
               ELSE heads2[p] \in Clusters /\ own2[heads2[p]] = p /\ pos[heads2[p]] = 0 BY <1>1, <1>2, <1>5 DEF Layout
  <2> QED BY <1>2, <1>5, <2>1, <2>2, <2>3, <2>4 DEF Layout
<1>7. Laid(fat2, heads2) BY <1>6 DEF Laid
<1>8. ASSUME NEW p \in Owners, p # o
      PROVE  /\ Chain(fat2, heads2[p]) = Chain(fat, heads[p])
             /\ \A i \in 0 .. CLUSTERS : Nth(fat2, heads2[p])[i] = Nth(fat, heads[p])[i]
  <2>1. \A b : b \in Chain(fat2, heads2[p]) <=> b \in Clusters /\ own2[b] = p BY <1>6, LayoutChain
  <2>2. \A b \in Clusters : own2[b] = p <=> own[b] = p BY <1>2, <1>5, <1>8
  <2>3. \A b : b \in Chain(fat2, heads2[p]) <=> b \in Chain(fat, heads[p]) BY <1>3, <2>1, <2>2
  <2>4. len2[p] = len[p] /\ \A b \in Clusters : own[b] = p => own2[b] = p /\ pos[b] = pos[b] BY <1>5, <1>8, <2>2
  <2>5. \A i \in 0 .. CLUSTERS : i < len[p] \/ len2[p] = len[p] =>
                Nth(fat2, heads2[p])[i] = Nth(fat, heads[p])[i] BY <1>1, <1>6, <2>4, LayoutSame
  <2> QED BY <2>3, <2>4, <2>5
<1> QED BY <1>7, <1>8 DEF fat2

-----------------------------------------------------------------------------
(***************************************************************************)
(* A sound volume: an image whose FAT is laid out as its directories say,  *)
(* with an exact count of free clusters, a tree of directories, room for   *)
(* their entries, and one chain in the hands of the call in progress.      *)
(***************************************************************************)
Heads(image, loose) ==
    [o \in Owners |-> IF o = Loose THEN loose ELSE DirCluster(image, o)]

\* The free count is exact.
Counted(image) == image.free = Cardinality({c \in Clusters : image.fat[c] = FREE})

\* Entries are entries, directories have a cluster, and paths lead somewhere.
Tree(image) ==
    /\ image.ents \in [Names -> EntryType]
    /\ \A n \in Names :
        /\ image.ents[n].kind = "none" => image.ents[n] = NoEntry
        /\ image.ents[n].kind = "dir" => image.ents[n].first # 0
        /\ image.ents[n].kind # "none" => IsDir(image, Parent[n])

\* No directory has more entries than places for them.
Room(image) ==
    \A d \in Names \cup {Root} : IsDir(image, d) =>
        /\ IsFiniteSet(Children(image, d))
        /\ Cardinality(Children(image, d)) <= SLOTS * Cardinality(Chain(image.fat, DirCluster(image, d)))

\* All of it, with the chain at `loose' in hand.
Sound(image, loose) ==
    /\ Image(image) /\ Laid(image.fat, Heads(image, loose))
    /\ Counted(image) /\ Tree(image) /\ Room(image)

\* The directories' clusters have been initialised.
Ready(image, blocks) ==
    \A d \in Names \cup {Root} : IsDir(image, d) =>
        \A c \in Chain(image.fat, DirCluster(image, d)) : blocks[c] = DirBlock

\* The heads, one by one.
LEMMA HeadsAre ==
    ASSUME NEW image, NEW loose
    PROVE  LET heads == Heads(image, loose)
           IN  /\ heads = [o \in Owners |-> heads[o]]
               /\ heads[Loose] = loose /\ heads[Root] = ROOT_CLUSTER
               /\ \A n \in Names : heads[n] = image.ents[n].first
               /\ \A d \in Names \cup {Root} : heads[d] = DirCluster(image, d)
               /\ Loose \in Owners /\ Root \in Owners /\ Names \subseteq Owners
               /\ Loose \notin Names \cup {Root} /\ Root \notin Names
<1>1. Loose \notin Names \cup {Root} /\ Root \notin Names BY OwnersDistinct, NamesAssumption
<1> QED BY <1>1 DEF Heads, Owners, DirCluster

\* The clusters can be counted.
LEMMA ClustersFinite == IsFiniteSet(Clusters) /\ CLUSTERS \in Nat /\ Cardinality(Clusters) = CLUSTERS
BY SizeAssumption, FS_Interval DEF Clusters

\* Soundness is what recovery needs.
LEMMA SoundConsistent == ASSUME NEW image, Sound(image, 0) PROVE Consistent(image)
<1> DEFINE heads == Heads(image, 0)
<1>1. /\ heads[Loose] = 0 /\ heads[Root] = ROOT_CLUSTER
      /\ \A n \in Names : heads[n] = image.ents[n].first
      /\ \A d \in Names \cup {Root} : heads[d] = DirCluster(image, d)
      /\ Loose \in Owners /\ Root \in Owners /\ Names \subseteq Owners /\ Root \notin Names BY HeadsAre
<1>2. Laid(image.fat, heads) BY DEF Sound
<1> HIDE DEF heads
<1>3. /\ \A o \in Owners :
            /\ ChainWhole(image.fat, heads[o])
            /\ heads[o] = 0 => Chain(image.fat, heads[o]) = {}
            /\ Chain(image.fat, heads[o]) \subseteq Clusters
            /\ \A c \in Chain(image.fat, heads[o]) : image.fat[c] # FREE
      /\ \A o, p \in Owners : o # p => Chain(image.fat, heads[o]) \cap Chain(image.fat, heads[p]) = {}
      /\ \A c \in Clusters : image.fat[c] # FREE => \E o \in Owners : c \in Chain(image.fat, heads[o])
  BY <1>2, LaidFacts
<1>4. \A c \in Chains(image) : c[1] \in Owners /\ c[2] = heads[c[1]] BY <1>1 DEF Chains
<1>5. \A c \in Chains(image) : ChainWhole(image.fat, c[2]) BY <1>3, <1>4
<1>6. \A c, b \in Chains(image) :
        c[1] # b[1] => Chain(image.fat, c[2]) \cap Chain(image.fat, b[2]) = {} BY <1>3, <1>4
<1>7. UNION {Chain(image.fat, c[2]) : c \in Chains(image)} = {c \in Clusters : image.fat[c] # FREE}
  <2>1. \A c \in Chains(image) : \A x \in Chain(image.fat, c[2]) : x \in Clusters
            /\ image.fat[x] # FREE BY <1>3, <1>4
  <2>2. ASSUME NEW x \in Clusters, image.fat[x] # FREE
        PROVE  \E c \in Chains(image) : x \in Chain(image.fat, c[2])
    <3>1. PICK o \in Owners : x \in Chain(image.fat, heads[o]) BY <1>3, <2>2
    <3>2. heads[o] # 0 BY <1>3, <3>1
    <3>3. CASE o = Root
      <4>1. <<Root, ROOT_CLUSTER>> \in Chains(image) BY DEF Chains
      <4> QED BY <1>1, <3>1, <3>3, <4>1
    <3>4. CASE o \in Names
      <4>1. image.ents[o].kind # "none" BY <1>1, <3>2, <3>4 DEF Sound, Tree, NoEntry
      <4>2. <<o, image.ents[o].first>> \in Chains(image) BY <3>4, <4>1 DEF Chains
      <4> QED BY <1>1, <3>1, <3>4, <4>2
    <3> QED BY <1>1, <3>2, <3>3, <3>4 DEF Owners
  <2> QED BY <2>1, <2>2
<1>8. \A n \in Names : image.ents[n].kind # "none" => IsDir(image, Parent[n]) BY DEF Sound, Tree
<1>9. \A d \in Names \cup {Root} : IsDir(image, d) =>
        Cardinality(Children(image, d)) <= SLOTS * Cardinality(Chain(image.fat, DirCluster(image, d)))
  BY DEF Sound, Room
<1> QED BY <1>5, <1>6, <1>7, <1>8, <1>9 DEF Consistent, Sound, Counted

\* What the model's own operators make of a FAT.
LEMMA AllocatedIs ==
    ASSUME NEW m, m = [fat |-> m.fat, free |-> m.free], NEW c, NEW prev
    PROVE  Linked(Allocated(m, c), prev, c) = [fat |-> Extended(m.fat, prev, c), free |-> m.free - 1]
<1>1. CASE prev = 0 BY <1>1 DEF Linked, Allocated, Extended
<1>2. CASE prev # 0
  <2>1. Allocated(m, c) = [fat |-> [m.fat EXCEPT ![c] = EOC], free |-> m.free - 1] BY DEF Allocated
  <2> DEFINE a == [m.fat EXCEPT ![c] = EOC]
  <2> HIDE DEF a
  <2>2. [[fat |-> a, free |-> m.free - 1] EXCEPT !.fat[prev] = c]
            = [fat |-> [a EXCEPT ![prev] = c], free |-> m.free - 1] OBVIOUS
  <2> QED BY <1>2, <2>1, <2>2 DEF Linked, Extended, a
<1> QED BY <1>1, <1>2

\* Extending a chain keeps the FAT a FAT, and frees nothing.
LEMMA ExtendedType ==
    ASSUME NEW fat \in FatType, NEW c \in Clusters, NEW prev
    PROVE  /\ Extended(fat, prev, c) \in FatType
           /\ \A b \in Clusters : b # c => (Extended(fat, prev, c)[b] = FREE <=> fat[b] = FREE /\ b # prev)
           /\ Extended(fat, prev, c)[c] # FREE
<1>1. EOC \in 0 .. EOC /\ c \in 0 .. EOC /\ c # FREE /\ EOC # FREE /\ 0 \notin Clusters
  BY SizeAssumption DEF EOC, Clusters, FREE
<1> QED BY <1>1 DEF Extended, FatType

\* One more cluster at the end of a chain.
LEMMA SoundExtended ==
    ASSUME NEW image, NEW loose, Sound(image, loose),
           NEW o \in Owners, NEW c \in Clusters, image.fat[c] = FREE,
           NEW prev, IsLast(image.fat, Heads(image, loose)[o], prev),
           NEW image2, image2 = [fat |-> Extended(image.fat, prev, c), free |-> image.free - 1,
                                 ents |-> image.ents],
           NEW loose2, IF o = Loose THEN loose2 = IF loose = 0 THEN c ELSE loose
                       ELSE loose2 = loose /\ Heads(image, loose)[o] # 0
    PROVE  /\ Sound(image2, loose2)
           /\ Grown(image.fat, Heads(image, loose), image2.fat, Heads(image2, loose2), o, c)
<1> DEFINE heads == Heads(image, loose)
           heads2 == Heads(image2, loose2)
           fat2 == Extended(image.fat, prev, c)
<1>1. /\ heads = [x \in Owners |-> heads[x]] /\ heads[Loose] = loose
      /\ \A d \in Names \cup {Root} : heads[d] = DirCluster(image, d)
      /\ Loose \in Owners /\ Root \in Owners /\ Names \subseteq Owners /\ Loose \notin Names \cup {Root} BY HeadsAre
<1>2. /\ heads2 = [x \in Owners |-> heads2[x]] /\ heads2[Loose] = loose2
      /\ \A d \in Names \cup {Root} : heads2[d] = DirCluster(image2, d) BY HeadsAre
<1>3. /\ image2.fat = fat2 /\ image2.free = image.free - 1 /\ image2.ents = image.ents
      /\ image2 = [fat |-> image2.fat, free |-> image2.free, ents |-> image2.ents] OBVIOUS
<1>4. /\ image.fat \in FatType /\ Laid(image.fat, heads) /\ Counted(image) /\ Tree(image)
      /\ Room(image) BY DEF Sound, Image
<1>5. /\ \A d \in Names \cup {Root} : DirCluster(image2, d) = DirCluster(image, d)
      /\ \A d : IsDir(image2, d) <=> IsDir(image, d)
      /\ \A d : Children(image2, d) = Children(image, d) BY <1>3 DEF DirCluster, IsDir, Children
<1> HIDE DEF heads, heads2
<1>6. \A x \in Owners : heads2[x] = IF x # o THEN heads[x]
                                      ELSE IF heads[o] = 0 THEN c ELSE heads[o]
  <2>1. \A x \in Owners : x # Loose => x \in Names \cup {Root} BY DEF Owners
  <2>2. ASSUME NEW x \in Owners, x # Loose
        PROVE  heads2[x] = heads[x] /\ (x = o => heads[o] # 0) BY <1>1, <1>2, <1>5, <2>1, <2>2 DEF heads
  <2>3. heads2[Loose] = IF Loose # o THEN heads[Loose] ELSE IF heads[o] = 0 THEN c ELSE heads[o] BY <1>1, <1>2
  <2> QED BY <2>2, <2>3
<1>7. IsLast(image.fat, heads[o], prev) BY DEF heads
<1>8. Grown(image.fat, heads, fat2, heads2, o, c)
  <2>1. image.fat \in FatType /\ Laid(image.fat, heads) /\ image.fat[c] = FREE BY <1>4
  <2> QED BY <1>6, <1>7, <2>1, LaidExtended
<1>a. /\ Laid(fat2, heads2)
      /\ Cardinality(Chain(fat2, heads2[o])) = Cardinality(Chain(image.fat, heads[o])) + 1
      /\ \A p \in Owners : p # o => Chain(fat2, heads2[p]) = Chain(image.fat, heads[p]) BY <1>8 DEF Grown
<1>9. Image(image2) BY <1>3, <1>4, ExtendedType DEF Image
<1>10. Counted(image2)
  <2> DEFINE F == {b \in Clusters : image.fat[b] = FREE}
             F2 == {b \in Clusters : image2.fat[b] = FREE}
  <2>1. prev # 0 => prev \in Clusters /\ image.fat[prev] # FREE
    <3>1. Chain(image.fat, heads[o]) \subseteq Clusters
          /\ \A b \in Chain(image.fat, heads[o]) : image.fat[b] # FREE BY <1>4, LaidFacts
    <3> QED BY <1>7, <3>1 DEF IsLast
  <2>2. 0 \notin Clusters BY DEF Clusters
  <2>3. \A b \in Clusters : b # c => (fat2[b] = FREE <=> image.fat[b] = FREE /\ b # prev) BY <1>4, ExtendedType
  <2>4. fat2[c] # FREE BY <1>4, ExtendedType
  <2>5. F2 = F \ {c} /\ c \in F BY <1>3, <2>1, <2>2, <2>3, <2>4
  <2>6. IsFiniteSet(F) BY ClustersFinite, FS_Subset
  <2>7. Cardinality(F2) = Cardinality(F) - 1 BY <2>5, <2>6, FS_RemoveElement
  <2> QED BY <1>3, <1>4, <2>7 DEF Counted
<1>11. Tree(image2)
  <2>1. image2.ents = image.ents BY <1>3
  <2> QED BY <1>4, <1>5, <2>1 DEF Tree
<1>12. Room(image2)
  <2>1. SUFFICES ASSUME NEW d \in Names \cup {Root}, IsDir(image, d)
                 PROVE  /\ IsFiniteSet(Children(image, d))
                        /\ Cardinality(Children(image, d))
                                <= SLOTS * Cardinality(Chain(image2.fat, DirCluster(image2, d))) BY <1>5 DEF Room
  <2>2. /\ IsFiniteSet(Children(image, d))
        /\ Cardinality(Children(image, d)) <= SLOTS * Cardinality(Chain(image.fat, DirCluster(image, d)))
    BY <1>4, <2>1 DEF Room
  <2>3. d \in Owners /\ heads[d] = DirCluster(image, d) /\ heads2[d] = DirCluster(image2, d) BY <1>1, <1>2
  <2>4. Cardinality(Chain(image.fat, heads[d])) \in 0 .. CLUSTERS BY <1>4, <2>3, LaidFacts
  <2>5. CASE d = o
    <3> DEFINE n == Cardinality(Chain(image.fat, heads[d]))
    <3>1. Cardinality(Chain(fat2, heads2[d])) = n + 1 BY <1>a, <2>5
    <3>2. n \in Nat /\ SLOTS \in Nat BY <2>4, SizeAssumption, ClustersFinite
    <3> HIDE DEF n
    <3>3. SLOTS * n <= SLOTS * (n + 1) /\ SLOTS * n \in Nat /\ SLOTS * (n + 1) \in Nat BY <3>2
    <3>4. Cardinality(Children(image, d)) \in Nat BY <2>2, FS_CardinalityType
    <3>5. Cardinality(Children(image, d)) <= SLOTS * n BY <2>2, <2>3 DEF n
    <3>6. Cardinality(Children(image, d)) <= SLOTS * (n + 1) BY <3>3, <3>4, <3>5
    <3> QED BY <1>3, <2>2, <2>3, <3>1, <3>6
  <2>6. CASE d # o BY <1>3, <1>a, <2>2, <2>3, <2>6
  <2> QED BY <2>5, <2>6
<1>13. Sound(image2, loose2) BY <1>3, <1>a, <1>9, <1>10, <1>11, <1>12 DEF Sound, heads2
<1> QED BY <1>3, <1>8, <1>13 DEF heads, heads2

\* The chain in hand given back.
LEMMA SoundFreed ==
    ASSUME NEW image, NEW loose, Sound(image, loose),
           NEW image2, image2 = [fat |-> Without(image.fat, Chain(image.fat, loose)),
                                 free |-> image.free + Cardinality(Chain(image.fat, loose)),
                                 ents |-> image.ents]
    PROVE  /\ Sound(image2, 0)
           /\ \A d \in Names \cup {Root} :
                /\ Chain(image2.fat, DirCluster(image2, d)) = Chain(image.fat, DirCluster(image, d))
                /\ \A i \in 0 .. CLUSTERS :
                    Nth(image2.fat, DirCluster(image2, d))[i] = Nth(image.fat, DirCluster(image, d))[i]
<1> DEFINE heads == Heads(image, loose)
           heads2 == Heads(image2, 0)
           gone == Chain(image.fat, loose)
           fat2 == Without(image.fat, gone)
<1>1. /\ heads[Loose] = loose
      /\ \A d \in Names \cup {Root} : heads[d] = DirCluster(image, d)
      /\ Loose \in Owners /\ Root \in Owners /\ Names \subseteq Owners /\ Loose \notin Names \cup {Root} BY HeadsAre
<1>2. /\ heads2[Loose] = 0
      /\ \A d \in Names \cup {Root} : heads2[d] = DirCluster(image2, d) BY HeadsAre
<1>3. /\ image2.fat = fat2 /\ image2.free = image.free + Cardinality(gone)
      /\ image2.ents = image.ents
      /\ image2 = [fat |-> image2.fat, free |-> image2.free, ents |-> image2.ents] OBVIOUS
<1>4. /\ image.fat \in FatType /\ Laid(image.fat, heads) /\ Counted(image) /\ Tree(image)
      /\ Room(image) BY DEF Sound, Image
<1>5. /\ \A d \in Names \cup {Root} : DirCluster(image2, d) = DirCluster(image, d)
      /\ \A d : IsDir(image2, d) <=> IsDir(image, d)
      /\ \A d : Children(image2, d) = Children(image, d) BY <1>3 DEF DirCluster, IsDir, Children
<1> HIDE DEF heads, heads2, fat2, gone
<1>6. \A p \in Owners : heads2[p] = IF p = Loose THEN 0 ELSE heads[p] BY <1>1, <1>2, <1>5 DEF Owners
<1>7. fat2 = Without(image.fat, Chain(image.fat, heads[Loose])) BY <1>1 DEF fat2, gone
<1>8. /\ Laid(fat2, heads2)
      /\ \A p \in Owners : p # Loose =>
            /\ Chain(fat2, heads2[p]) = Chain(image.fat, heads[p])
            /\ \A i \in 0 .. CLUSTERS : Nth(fat2, heads2[p])[i] = Nth(image.fat, heads[p])[i]
  BY <1>1, <1>4, <1>6, <1>7, LaidFreed
<1>9. Image(image2)
  <2>1. fat2 \in FatType BY <1>4, SizeAssumption DEF fat2, Without, FatType, FREE, EOC
  <2> QED BY <1>3, <2>1 DEF Image
<1>10. Counted(image2)
  <2> DEFINE F == {b \in Clusters : image.fat[b] = FREE}
             F2 == {b \in Clusters : image2.fat[b] = FREE}
  <2>1. /\ gone \subseteq Clusters /\ IsFiniteSet(gone) /\ \A b \in gone : image.fat[b] # FREE
    BY <1>1, <1>4, LaidFacts DEF gone
  <2>2. \A b \in Clusters : fat2[b] = IF b \in gone THEN FREE ELSE image.fat[b] BY DEF fat2, Without
  <2>3. F2 = F \cup gone /\ F \cap gone = {} BY <1>3, <2>1, <2>2
  <2>4. IsFiniteSet(F) BY ClustersFinite, FS_Subset
  <2>5. Cardinality(F2) = Cardinality(F) + Cardinality(gone) - Cardinality(F \cap gone) BY <2>1, <2>3, <2>4, FS_Union
  <2>6. Cardinality(F \cap gone) = 0 BY <2>3, FS_EmptySet
  <2>7. Cardinality(F) \in Nat /\ Cardinality(gone) \in Nat BY <2>1, <2>4, FS_CardinalityType
  <2> HIDE DEF F, F2
  <2>8. Cardinality(F2) = Cardinality(F) + Cardinality(gone) BY <2>5, <2>6, <2>7
  <2> QED BY <1>3, <1>4, <2>8 DEF Counted, F, F2
<1>11. Tree(image2)
  <2>1. image2.ents = image.ents BY <1>3
  <2> QED BY <1>4, <1>5, <2>1 DEF Tree
<1>12. \A d \in Names \cup {Root} :
                /\ Chain(image2.fat, DirCluster(image2, d)) = Chain(image.fat, DirCluster(image, d))
                /\ \A i \in 0 .. CLUSTERS :
                    Nth(image2.fat, DirCluster(image2, d))[i] = Nth(image.fat, DirCluster(image, d))[i]
  BY <1>1, <1>2, <1>3, <1>8
<1>13. Room(image2) BY <1>4, <1>5, <1>12 DEF Room
<1>14. Sound(image2, 0) BY <1>3, <1>8, <1>9, <1>10, <1>11, <1>13 DEF Sound, heads2
<1> QED BY <1>12, <1>14

\* An entry takes over the chain in hand, and leaves its own.
LEMMA SoundReplaced ==
    ASSUME NEW image, NEW loose, Sound(image, loose),
           NEW n \in Names, NEW e \in EntryType, e.first = loose,
           image.ents[n].kind = "dir" => Children(image, n) = {},
           e.kind = "none" => e = NoEntry,
           e.kind = "dir" => e.first # 0,
           e.kind # "none" => IsDir(image, Parent[n]) /\ Parent[n] # n,
           e.kind # "none" /\ image.ents[n].kind = "none" =>
                Cardinality(Children(image, Parent[n]))
                    < SLOTS * Cardinality(Chain(image.fat, DirCluster(image, Parent[n]))),
           NEW image2, image2 = [fat |-> image.fat, free |-> image.free,
                                 ents |-> [image.ents EXCEPT ![n] = e]]
    PROVE  Sound(image2, image.ents[n].first)
<1> DEFINE heads == Heads(image, loose)
           heads2 == Heads(image2, image.ents[n].first)
<1>1. /\ heads[Loose] = loose
      /\ \A d \in Names \cup {Root} : heads[d] = DirCluster(image, d)
      /\ Loose \in Owners /\ Root \in Owners /\ Names \subseteq Owners
      /\ Loose \notin Names \cup {Root} /\ Root \notin Names BY HeadsAre
<1>2. /\ heads2[Loose] = image.ents[n].first
      /\ \A d \in Names \cup {Root} : heads2[d] = DirCluster(image2, d) BY HeadsAre
<1>3. /\ image.fat \in FatType /\ Laid(image.fat, heads) /\ Counted(image) /\ Tree(image)
      /\ Room(image) BY DEF Sound, Image
<1>4. /\ image2.fat = image.fat /\ image2.free = image.free
      /\ image2.ents = [image.ents EXCEPT ![n] = e] /\ image2.ents \in [Names -> EntryType]
      /\ image2.ents[n] = e /\ \A m \in Names : m # n => image2.ents[m] = image.ents[m]
      /\ image2 = [fat |-> image2.fat, free |-> image2.free, ents |-> image2.ents] BY <1>3 DEF Tree
<1>5. \A d \in Names \cup {Root} : d # n =>
        DirCluster(image2, d) = DirCluster(image, d) /\ (IsDir(image2, d) <=> IsDir(image, d))
  BY <1>1, <1>4 DEF DirCluster, IsDir
<1>6. n # Root /\ DirCluster(image2, n) = loose /\ DirCluster(image, n) = image.ents[n].first
      /\ (IsDir(image2, n) <=> e.kind = "dir") /\ (IsDir(image, n) <=> image.ents[n].kind = "dir")
  BY <1>1, <1>4 DEF DirCluster, IsDir
<1>7. Children(image, n) = {}
  <2>1. \A m \in Names : Parent[m] = n /\ image.ents[m].kind # "none" => image.ents[n].kind = "dir"
    BY <1>3, <1>6 DEF Tree
  <2> QED BY <2>1 DEF Children
<1> HIDE DEF heads, heads2
<1>8. \A x \in Owners : heads2[x] = IF x = n THEN heads[Loose]
                                    ELSE IF x = Loose THEN heads[n] ELSE heads[x] BY <1>1, <1>2, <1>5, <1>6 DEF Owners
<1>9. Laid(image2.fat, heads2)
  <2>1. n \in Owners /\ Loose \in Owners /\ Laid(image.fat, heads) BY <1>1, <1>3
  <2>2. Laid(image.fat, heads2) BY <1>8, <2>1, LaidSwapped
  <2> QED BY <1>4, <2>2
<1>10. Image(image2) /\ Counted(image2) BY <1>3, <1>4 DEF Image, Counted
<1>11. Tree(image2)
  <2>1. ASSUME NEW m \in Names, image2.ents[m].kind # "none" PROVE IsDir(image2, Parent[m])
    <3>1. CASE m = n BY <1>4, <1>5, <2>1, <3>1, NamesAssumption
    <3>2. CASE m # n
      <4>1. m \notin Children(image, n) BY <1>7
      <4>2. Parent[m] # n /\ IsDir(image, Parent[m]) /\ Parent[m] \in Names \cup {Root}
        BY <1>3, <1>4, <2>1, <3>2, <4>1, NamesAssumption DEF Tree, Children
      <4> QED BY <1>5, <4>2
    <3> QED BY <3>1, <3>2
  <2>2. \A m \in Names : /\ image2.ents[m].kind = "none" => image2.ents[m] = NoEntry
                         /\ image2.ents[m].kind = "dir" => image2.ents[m].first # 0 BY <1>3, <1>4 DEF Tree
  <2> QED BY <1>4, <2>1, <2>2 DEF Tree
<1>12. Room(image2)
  <2>1. SUFFICES ASSUME NEW d \in Names \cup {Root}, IsDir(image2, d)
                 PROVE  /\ IsFiniteSet(Children(image2, d))
                        /\ Cardinality(Children(image2, d))
                                <= SLOTS * Cardinality(Chain(image2.fat, DirCluster(image2, d))) BY DEF Room
  <2>2. CASE d = n
    <3>1. Children(image2, n) = {}
      <4>1. \A m \in Names : m # n /\ Parent[m] = n => image2.ents[m].kind = "none" BY <1>4, <1>7 DEF Children
      <4>2. Parent[n] # n BY <1>6, <2>1, <2>2
      <4> QED BY <4>1, <4>2 DEF Children
    <3>2. heads2[n] = DirCluster(image2, n) /\ n \in Owners BY <1>1, <1>2
    <3>3. Cardinality(Chain(image2.fat, DirCluster(image2, n))) \in Nat BY <1>9, <3>2, LaidFacts, ClustersFinite
    <3>4. \A k \in Nat : 0 <= SLOTS * k BY SizeAssumption
    <3>5. IsFiniteSet(Children(image2, n)) /\ Cardinality(Children(image2, n)) = 0 BY <3>1, FS_EmptySet
    <3> QED BY <2>2, <3>3, <3>4, <3>5
  <2>3. CASE d # n
    <3>1. IsDir(image, d) /\ DirCluster(image2, d) = DirCluster(image, d) BY <1>5, <2>1, <2>3
    <3>2. /\ IsFiniteSet(Children(image, d))
          /\ Cardinality(Children(image, d)) <= SLOTS * Cardinality(Chain(image.fat, DirCluster(image, d)))
      BY <1>3, <3>1 DEF Room
    <3>3. \A m : m # n => (m \in Children(image2, d) <=> m \in Children(image, d)) BY <1>4 DEF Children
    <3>4. CASE n \notin Children(image2, d) \/ n \in Children(image, d)
      <4>1. Children(image2, d) \subseteq Children(image, d) BY <3>3, <3>4
      <4>2. IsFiniteSet(Children(image2, d))
            /\ Cardinality(Children(image2, d)) <= Cardinality(Children(image, d)) BY <3>2, <4>1, FS_Subset
      <4> DEFINE k == Cardinality(Chain(image.fat, DirCluster(image, d)))
      <4>3. heads[d] = DirCluster(image, d) /\ d \in Owners BY <1>1
      <4>4. k \in Nat BY <1>3, <4>3, LaidFacts, ClustersFinite
      <4>5. SLOTS * k \in Nat BY <4>4, SizeAssumption
      <4>6. Cardinality(Children(image2, d)) \in Nat /\ Cardinality(Children(image, d)) \in Nat
        BY <3>2, <4>2, FS_CardinalityType
      <4>7. Cardinality(Children(image, d)) <= SLOTS * k BY <3>2
      <4> HIDE DEF k
      <4>8. Cardinality(Children(image2, d)) <= SLOTS * k BY <4>2, <4>5, <4>6, <4>7
      <4> QED BY <1>4, <3>1, <4>2, <4>8 DEF k
    <3>5. CASE n \in Children(image2, d) /\ n \notin Children(image, d)
      <4>1. Children(image2, d) = Children(image, d) \cup {n} BY <3>3, <3>5
      <4>2. IsFiniteSet(Children(image2, d))
            /\ Cardinality(Children(image2, d)) = Cardinality(Children(image, d)) + 1
        BY <3>2, <3>5, <4>1, FS_AddElement
      <4>3. Parent[n] = d /\ e.kind # "none" /\ image.ents[n].kind = "none" BY <1>4, <3>5 DEF Children
      <4> DEFINE k == Cardinality(Chain(image.fat, DirCluster(image, d)))
      <4>4. Cardinality(Children(image, d)) < SLOTS * k BY <4>3
      <4>5. heads[d] = DirCluster(image, d) /\ d \in Owners BY <1>1
      <4>6. k \in Nat BY <1>3, <4>5, LaidFacts, ClustersFinite
      <4>7. SLOTS * k \in Nat /\ Cardinality(Children(image, d)) \in Nat
        BY <3>2, <4>6, SizeAssumption, FS_CardinalityType
      <4> HIDE DEF k
      <4>8. Cardinality(Children(image2, d)) <= SLOTS * k BY <4>2, <4>4, <4>7
      <4> QED BY <1>4, <3>1, <4>2, <4>8 DEF k
    <3> QED BY <3>4, <3>5
  <2> QED BY <2>2, <2>3
<1> QED BY <1>9, <1>10, <1>11, <1>12 DEF Sound, heads2

\* A volume that has just been formatted.
LEMMA SoundFresh == Sound(Fresh, 0)
<1> DEFINE heads == Heads(Fresh, 0)
           own == [c \in Clusters |-> IF c = ROOT_CLUSTER THEN Root ELSE Nobody]
           pos == [c \in Clusters |-> 0]
           len == [o \in Owners |-> IF o = Root THEN 1 ELSE 0]
<1>1. /\ heads[Loose] = 0 /\ heads[Root] = ROOT_CLUSTER
      /\ \A n \in Names : heads[n] = Fresh.ents[n].first
      /\ \A d \in Names \cup {Root} : heads[d] = DirCluster(Fresh, d)
      /\ Loose \in Owners /\ Root \in Owners /\ Names \subseteq Owners
      /\ Loose \notin Names \cup {Root} /\ Root \notin Names BY HeadsAre
<1>2. /\ Fresh.fat = [c \in Clusters |-> IF c = ROOT_CLUSTER THEN EOC ELSE FREE]
      /\ Fresh.free = CLUSTERS - 1 /\ \A n \in Names : Fresh.ents[n] = NoEntry
      /\ Fresh.ents = [n \in Names |-> NoEntry] BY DEF Fresh
<1>3. /\ ROOT_CLUSTER \in Clusters /\ EOC # FREE /\ Nobody \notin Owners /\ Root # Nobody
      /\ CLUSTERS \in Nat /\ CLUSTERS # 0
  BY <1>1, SizeAssumption, OwnersDistinct DEF ROOT_CLUSTER, Clusters, EOC, FREE
<1>4. NoEntry \in EntryType /\ NoEntry.first = 0 /\ NoEntry.kind = "none" BY <1>3 DEF NoEntry, EntryType
<1> HIDE DEF heads
<1>5. Layout(Fresh.fat, heads, own, pos, len)
  <2>1. \A o \in Owners : heads[o] = IF o = Root THEN ROOT_CLUSTER ELSE 0 BY <1>1, <1>2, <1>4 DEF Owners
  <2>2. own \in [Clusters -> Owners \cup {Nobody}] /\ pos \in [Clusters -> Nat]
        /\ len \in [Owners -> Nat] BY <1>1
  <2>3. /\ \A c \in Clusters : own[c] = (IF c = ROOT_CLUSTER THEN Root ELSE Nobody) /\ pos[c] = 0
        /\ \A c \in Clusters : Fresh.fat[c] = IF c = ROOT_CLUSTER THEN EOC ELSE FREE
        /\ \A o \in Owners : len[o] = IF o = Root THEN 1 ELSE 0 BY <1>2
  <2> HIDE DEF own, pos, len
  <2> QED BY <1>1, <1>3, <2>1, <2>2, <2>3 DEF Layout
<1>6. Laid(Fresh.fat, heads) BY <1>5 DEF Laid
<1>7. Image(Fresh) BY <1>2, SizeAssumption DEF Image, Fresh, FatType, FREE, EOC
<1>8. Counted(Fresh)
  <2>1. {c \in Clusters : Fresh.fat[c] = FREE} = Clusters \ {ROOT_CLUSTER} BY <1>2, <1>3
  <2> QED BY <1>2, <1>3, <2>1, ClustersFinite, FS_RemoveElement DEF Counted
<1>9. Tree(Fresh) BY <1>2, <1>4 DEF Tree
<1>10. Room(Fresh)
  <2>1. SUFFICES ASSUME NEW d \in Names \cup {Root}
                 PROVE  /\ IsFiniteSet(Children(Fresh, d))
                        /\ Cardinality(Children(Fresh, d))
                            <= SLOTS * Cardinality(Chain(Fresh.fat, DirCluster(Fresh, d))) BY DEF Room
  <2>2. Children(Fresh, d) = {} BY <1>2, <1>4 DEF Children
  <2>3. IsFiniteSet(Children(Fresh, d)) /\ Cardinality(Children(Fresh, d)) = 0 BY <2>2, FS_EmptySet
  <2>4. heads[d] = DirCluster(Fresh, d) /\ d \in Owners BY <1>1
  <2>5. Cardinality(Chain(Fresh.fat, DirCluster(Fresh, d))) \in Nat BY <1>6, <2>4, LaidFacts, ClustersFinite
  <2>6. \A k \in Nat : 0 <= SLOTS * k BY SizeAssumption
  <2> QED BY <2>3, <2>5, <2>6
<1> QED BY <1>6, <1>7, <1>8, <1>9, <1>10 DEF Sound, heads

-----------------------------------------------------------------------------
(***************************************************************************)
(* The inductive invariant.                                                *)
(***************************************************************************)
WriteOp == [op : {"write"}, name : Names, data : Contents, first : 0 .. CLUSTERS,
            last : 0 .. CLUSTERS, done : 0 .. CLUSTERS, old : 0 .. CLUSTERS]
MkdirOp == [op : {"mkdir"}, name : Names, data : {Directory}, first : 0 .. CLUSTERS,
            last : {0}, done : {0}, old : {0}]
DeleteOp == [op : {"delete"}, name : Names, old : 0 .. CLUSTERS]
Calls == WriteOp \cup MkdirOp \cup DeleteOp

\* The image the call in progress works towards, and the chain it holds that
\* no entry of that image holds yet, or any longer.
Target ==
    [fat |-> meta.fat, free |-> meta.free,
     ents |-> IF op.op = "delete" THEN [disk.ents EXCEPT ![op.name] = NoEntry] ELSE disk.ents]
InHand ==
    IF pc \in {"body", "mkdir", "sync", "publish"} THEN op.first
    ELSE IF pc = "free" THEN op.old ELSE 0

\* Other files are what they were.
OthersKept ==
    \A n \in Names : n # op.name =>
        /\ disk.ents[n] = saved.ents[n]
        /\ disk.ents[n].kind = "file" => \A i \in 0 .. CLUSTERS :
            Nth(meta.fat, disk.ents[n].first)[i] = Nth(saved.fat, disk.ents[n].first)[i]

\* The path is still good, and the old entry still there.
Prepared ==
    /\ IsDir(disk, Parent[op.name])
    /\ disk.ents[op.name].kind # "dir" /\ disk.ents[op.name].first = op.old
    /\ op.op = "mkdir" => disk.ents[op.name].kind = "none"

\* The first blocks of the chain hold the data.
BlocksOf(first, data, count) ==
    \A i \in 1 .. count : body[Nth(meta.fat, first)[i - 1]] = <<data, i>>

\* The chain in hand is the body written until now.
BodySoFar ==
    /\ op.done = Cardinality(Chain(meta.fat, op.first))
    /\ IsLast(meta.fat, op.first, op.last)
    /\ BlocksOf(op.first, op.data, op.done)

\* The chain in hand is a directory with nothing in it.
NewDirectory == op.first # 0 /\ \A c \in Chain(meta.fat, op.first) : body[c] = DirBlock

\* The new entry stands, with its body whole behind it.
Published ==
    /\ disk.ents[op.name] = NewEntry
    /\ op.op = "write" =>
        /\ BlocksOf(op.first, op.data, Length[op.data])
        /\ Length[op.data] = Cardinality(Chain(meta.fat, op.first))

\* What is true before each step of a call.
Stage ==
    /\ pc = "body" => op \in WriteOp /\ Prepared /\ BodySoFar /\ op.done < Length[op.data]
    /\ pc = "sync" => op \in WriteOp /\ Prepared /\ BodySoFar /\ op.done = Length[op.data]
    /\ pc = "mkdir" => op \in MkdirOp /\ Prepared /\ op.first = 0
    /\ pc = "publish" =>
        /\ Prepared
        /\ \/ op \in WriteOp /\ BodySoFar /\ op.done = Length[op.data]
           \/ op \in MkdirOp /\ NewDirectory
    /\ pc = "free" =>
        \/ op \in WriteOp \cup MkdirOp /\ Published
        \/ op \in DeleteOp /\ disk.ents[op.name].first = op.old
    /\ pc = "erase" => op \in DeleteOp
    /\ pc = "commit" =>
        \/ op \in WriteOp \cup MkdirOp /\ Published
        \/ op \in DeleteOp /\ disk.ents[op.name] = NoEntry

\* A call at work: its image is sound, and the files of others are as saved.
Working == Sound(Target, InHand) /\ Ready(Target, body) /\ OthersKept /\ Stage

\* The chain of a file is as long as its entry says.
Sized(image) ==
    \A n \in Names : image.ents[n].kind = "file" =>
        image.ents[n].size = Cardinality(Chain(image.fat, image.ents[n].first))

\* What recovery restores is sound, and nothing a call writes touches it.
SavedOK ==
    /\ Sound(saved, 0) /\ Ready(saved, platter) /\ Sized(saved)
    /\ \A c \in Clusters : saved.fat[c] # FREE => body[c] = platter[c]

\* Between calls device and saved image agree; in one, it is at work.
CallOK ==
    /\ pc \in {"idle", "abort"} \cup Steps
    /\ pc = "idle" => op = NoOp
    /\ pc = "idle" /\ mounted /\ ~fenced => disk = saved
    /\ pc # "idle" => op \in Calls
    /\ pc \in Steps => Working

\* The inductive invariant.
IInv == TypeOK /\ FatInv /\ SavedOK /\ CallOK

\* A cluster more for the chain of o.
LEMMA ExtendKeeps ==
    ASSUME Shape, Sound(Target, InHand), Ready(Target, body), OthersKept,
           NEW o \in Owners, NEW c \in Clusters, meta.fat[c] = FREE,
           NEW prev, IsLast(meta.fat, Heads(Target, InHand)[o], prev),
           meta' = Linked(Allocated(meta, c), prev, c),
           NEW block, Write(c, block), UNCHANGED <<saved, disk>>,
           op'.op = op.op, op'.name = op.name,
           IF o = Loose THEN InHand' = IF InHand = 0 THEN c ELSE InHand
           ELSE InHand' = InHand /\ IsDir(Target, o) /\ block = DirBlock
    PROVE  /\ Sound(Target, InHand)' /\ Ready(Target, body)' /\ OthersKept'
           /\ Grown(meta.fat, Heads(Target, InHand), meta'.fat, Heads(Target', InHand'), o, c)
           /\ body'[c] = block /\ \A b \in Clusters : b # c => body'[b] = body[b]
<1> DEFINE heads == Heads(Target, InHand)
           heads2 == Heads(Target', InHand')
<1>1. meta' = [fat |-> Extended(meta.fat, prev, c), free |-> meta.free - 1] BY AllocatedIs DEF Shape
<1>2. Target' = [fat |-> Extended(Target.fat, prev, c), free |-> Target.free - 1, ents |-> Target.ents]
  BY <1>1 DEF Target
<1>3. /\ heads[Loose] = InHand
      /\ \A d \in Names \cup {Root} : heads[d] = DirCluster(Target, d)
      /\ \A n \in Names : heads[n] = Target.ents[n].first
      /\ Loose \in Owners /\ Root \in Owners /\ Names \subseteq Owners /\ Loose \notin Names \cup {Root}
      /\ Root \notin Names BY HeadsAre
<1>4. /\ heads2[Loose] = InHand'
      /\ \A d \in Names \cup {Root} : heads2[d] = DirCluster(Target', d)
      /\ \A n \in Names : heads2[n] = Target'.ents[n].first BY HeadsAre
<1>5. o # Loose => heads[o] # 0
  <2>1. SUFFICES ASSUME o # Loose PROVE heads[o] # 0 OBVIOUS
  <2>2. o \in Names \cup {Root} /\ IsDir(Target, o) BY <2>1 DEF Owners
  <2>3. o \in Names => Target.ents[o].first # 0 BY <1>3, <2>2 DEF Sound, Tree, IsDir
  <2>4. o = Root => heads[o] = ROOT_CLUSTER BY <1>3 DEF DirCluster
  <2> QED BY <1>3, <2>2, <2>3, <2>4 DEF ROOT_CLUSTER
<1>6. /\ Target.fat = meta.fat /\ Target'.fat = meta'.fat /\ Target'.ents = Target.ents
      /\ Target'.fat = Extended(Target.fat, prev, c) BY <1>1, <1>2 DEF Target
<1>7. Sound(Target', InHand') /\ Grown(Target.fat, heads, Target'.fat, heads2, o, c)
  BY <1>2, <1>5, <1>6, SoundExtended
<1> HIDE DEF heads, heads2
<1>8. body'[c] = block /\ \A b \in Clusters : b # c => body'[b] = body[b] BY DEF Write, Shape
<1>9. Laid(Target.fat, heads) BY DEF Sound, heads
<1>10. /\ Chain(Target'.fat, heads2[o]) = Chain(Target.fat, heads[o]) \cup {c}
       /\ \A p \in Owners : p # o =>
            /\ heads2[p] = heads[p]
            /\ Chain(Target'.fat, heads2[p]) = Chain(Target.fat, heads[p])
            /\ \A i \in 0 .. CLUSTERS : Nth(Target'.fat, heads2[p])[i] = Nth(Target.fat, heads[p])[i]
  BY <1>7 DEF Grown
<1>11. \A p \in Owners : c \notin Chain(Target.fat, heads[p])
           /\ Chain(Target.fat, heads[p]) \subseteq Clusters BY <1>6, <1>9, LaidFacts
<1>12. Ready(Target', body')
  <2>1. SUFFICES ASSUME NEW d \in Names \cup {Root}, IsDir(Target', d),
                        NEW b \in Chain(Target'.fat, DirCluster(Target', d))
                 PROVE  body'[b] = DirBlock BY DEF Ready
  <2>2. IsDir(Target, d) /\ d \in Owners /\ d # Loose BY <1>3, <1>6, <2>1 DEF IsDir
  <2>3. b \in Chain(Target'.fat, heads2[d]) BY <1>4, <2>1
  <2>4. \A x \in Chain(Target.fat, heads[d]) : body[x] = DirBlock BY <1>3, <2>2 DEF Ready
  <2>5. CASE d # o
    <3>1. b \in Chain(Target.fat, heads[d]) BY <1>10, <2>2, <2>3, <2>5
    <3> QED BY <1>8, <1>11, <2>2, <2>4, <3>1
  <2>6. CASE d = o
    <3>1. b \in Chain(Target.fat, heads[d]) \/ b = c BY <1>10, <2>2, <2>3, <2>6
    <3>2. block = DirBlock BY <2>2, <2>6
    <3> QED BY <1>8, <1>11, <2>2, <2>4, <3>1, <3>2
  <2> QED BY <2>5, <2>6
<1>13. OthersKept'
  <2>1. SUFFICES ASSUME NEW n \in Names, n # op.name
                 PROVE  /\ disk'.ents[n] = saved'.ents[n]
                        /\ disk'.ents[n].kind = "file" => \A i \in 0 .. CLUSTERS :
                                Nth(meta'.fat, disk'.ents[n].first)[i] = Nth(saved'.fat, disk'.ents[n].first)[i]
    BY DEF OthersKept
  <2>2. Target.ents[n] = disk.ents[n] BY <2>1, <1>3 DEF Target, Sound, Tree
  <2>3. SUFFICES ASSUME disk.ents[n].kind = "file", NEW i \in 0 .. CLUSTERS
                 PROVE  Nth(meta'.fat, disk.ents[n].first)[i] = Nth(meta.fat, disk.ents[n].first)[i]
    BY <2>1 DEF OthersKept
  <2>4. n # o BY <1>3, <2>2, <2>3 DEF IsDir
  <2>5. heads2[n] = heads[n] /\ heads[n] = disk.ents[n].first /\ n \in Owners BY <1>3, <1>10, <2>2, <2>4
  <2> QED BY <1>6, <1>10, <2>4, <2>5
<1> QED BY <1>6, <1>7, <1>8, <1>12, <1>13 DEF heads, heads2

-----------------------------------------------------------------------------
(***************************************************************************)
(* Every step of a call keeps its image sound and the call at work.        *)
(***************************************************************************)

\* The parts of the invariant that every step uses.
LEMMA InvParts ==
    ASSUME IInv
    PROVE  /\ saved = [fat |-> saved.fat, free |-> saved.free, ents |-> saved.ents]
           /\ disk = [fat |-> disk.fat, free |-> disk.free, ents |-> disk.ents]
           /\ meta = [fat |-> meta.fat, free |-> meta.free]
           /\ body = [c \in Clusters |-> body[c]]
           /\ saved.fat \in FatType /\ disk.fat \in FatType /\ meta.fat \in FatType
           /\ saved.ents \in [Names -> EntryType] /\ disk.ents \in [Names -> EntryType]
           /\ meta.free \in 0 .. CLUSTERS
           /\ Flush(disk) = [fat |-> meta.fat, free |-> meta.free, ents |-> disk.ents]
           /\ FatOf(saved) = [fat |-> saved.fat, free |-> saved.free]
           /\ pc = "idle" /\ mounted /\ ~fenced => disk = saved /\ meta = FatOf(saved)
<1>1. Shape /\ NoEarlyFree /\ TypeOK /\ CallOK BY DEF IInv, FatInv
<1>2. saved.ents \in [Names -> EntryType] /\ disk.ents \in [Names -> EntryType]
      /\ meta.free \in 0 .. CLUSTERS BY <1>1 DEF TypeOK, ImageType, MetaType
<1> QED BY <1>1, <1>2 DEF Shape, Image, NoEarlyFree, CallOK, Flush, WithFat, FatOf

\* A directory of the saved image is as initialised on the device as it is
\* on the platter.
LEMMA SavedReady == ASSUME IInv PROVE Ready(saved, body)
<1>1. /\ Laid(saved.fat, Heads(saved, 0)) /\ Ready(saved, platter)
      /\ \A c \in Clusters : saved.fat[c] # FREE => body[c] = platter[c] BY DEF IInv, SavedOK, Sound
<1> DEFINE heads == Heads(saved, 0)
<1>2. \A d \in Names \cup {Root} : heads[d] = DirCluster(saved, d) /\ d \in Owners BY HeadsAre
<1>3. \A o \in Owners : /\ Chain(saved.fat, heads[o]) \subseteq Clusters
                        /\ \A c \in Chain(saved.fat, heads[o]) : saved.fat[c] # FREE BY <1>1, LaidFacts
<1> HIDE DEF heads
<1> QED BY <1>1, <1>2, <1>3 DEF Ready

\* Steps that leave the saved image, and what it reads as, alone.
LEMMA SavedStays ==
    ASSUME SavedOK, UNCHANGED saved,
           \A c \in Clusters : saved.fat[c] # FREE =>
                body'[c] = body[c] /\ platter'[c] \in {platter[c], body[c]}
    PROVE  SavedOK'
<1> DEFINE heads == Heads(saved, 0)
<1>1. \A d \in Names \cup {Root} : heads[d] = DirCluster(saved, d) /\ d \in Owners BY HeadsAre
<1>2. \A o \in Owners : /\ Chain(saved.fat, heads[o]) \subseteq Clusters
                        /\ \A c \in Chain(saved.fat, heads[o]) : saved.fat[c] # FREE BY LaidFacts DEF SavedOK, Sound
<1> HIDE DEF heads
<1>3. \A c \in Clusters : saved.fat[c] # FREE => body'[c] = platter'[c] /\ platter'[c] = platter[c] BY DEF SavedOK
<1>4. Ready(saved, platter') BY <1>1, <1>2, <1>3 DEF SavedOK, Ready
<1> QED BY <1>3, <1>4 DEF SavedOK

\* Calls begin.
LEMMA BeginKeeps ==
    ASSUME IInv, NEW call \in WriteOp \cup MkdirOp, NEW step \in {"body", "sync", "mkdir"},
           Begin(call, step), call.first = 0, call.last = 0, call.done = 0,
           PathOK(call.name), Existing(call.name) # "dir", call.old = disk.ents[call.name].first,
           IF call \in WriteOp
           THEN IF Length[call.data] = 0 THEN step = "sync" ELSE step = "body"
           ELSE step = "mkdir" /\ Existing(call.name) = "none"
    PROVE  CallOK'
<1>1. /\ saved = [fat |-> saved.fat, free |-> saved.free, ents |-> saved.ents]
      /\ FatOf(saved) = [fat |-> saved.fat, free |-> saved.free]
      /\ disk = saved /\ meta = FatOf(saved) BY InvParts DEF Begin
<1>2. /\ op' = call /\ pc' = step /\ UNCHANGED <<saved, disk, meta, body, mounted, fenced>> BY DEF Begin, bodies
<1>3. call.op # "delete" BY DEF WriteOp, MkdirOp
<1>4. Target' = saved /\ InHand' = 0 BY <1>1, <1>2, <1>3 DEF Target, InHand
<1>5. Sound(saved, 0) /\ Ready(saved, body) BY SavedReady DEF IInv, SavedOK
<1>6. Sound(Target, InHand)' /\ Ready(Target, body)' BY <1>2, <1>4, <1>5
<1>7. OthersKept' BY <1>1, <1>2 DEF OthersKept
<1>8. Prepared'
  <2>1. call \in MkdirOp => call \notin WriteOp BY DEF WriteOp, MkdirOp
  <2>2. call.op = "mkdir" => call \notin WriteOp BY DEF WriteOp
  <2> QED BY <1>2, <2>2 DEF Prepared, PathOK, Existing
<1>9. BodySoFar'
  <2>1. Chain(saved.fat, 0) = {}
    <3> DEFINE heads == Heads(saved, 0)
    <3>1. heads[Loose] = 0 /\ Loose \in Owners BY HeadsAre
    <3>2. Laid(saved.fat, heads) BY <1>5 DEF Sound
    <3> HIDE DEF heads
    <3> QED BY <3>1, <3>2, LaidFacts
  <2>2. Cardinality(Chain(saved.fat, 0)) = 0 BY <2>1, FS_EmptySet
  <2>3. meta'.fat = saved.fat /\ op'.first = 0 /\ op'.last = 0 /\ op'.done = 0 BY <1>1, <1>2
  <2>4. 1 .. 0 = {} OBVIOUS
  <2> QED BY <2>2, <2>3, <2>4 DEF BodySoFar, IsLast, BlocksOf
<1>10. Stage'
  <2>1. CASE call \in WriteOp
    <3>1. Length[call.data] \in Nat BY <2>1, ContentsAssumption DEF WriteOp
    <3>2. op' \in WriteOp /\ op'.done = 0 BY <1>2, <2>1
    <3>3. CASE pc' = "sync" BY <1>2, <1>8, <1>9, <2>1, <3>1, <3>2, <3>3 DEF Stage
    <3>4. CASE pc' = "body" BY <1>2, <1>8, <1>9, <2>1, <3>1, <3>2, <3>4 DEF Stage
    <3> QED BY <1>2, <2>1, <3>3, <3>4
  <2>2. CASE call \notin WriteOp BY <1>2, <1>8, <2>2 DEF Stage
  <2> QED BY <2>1, <2>2
<1> QED BY <1>2, <1>6, <1>7, <1>10 DEF CallOK, Working, Calls, Steps

\* A removal begins with the old chain in hand.
LEMMA RemoveKeeps == ASSUME IInv, NEW n \in Names, FatRemove(n) PROVE CallOK'
<1> DEFINE call == [op |-> "delete", name |-> n, old |-> disk.ents[n].first]
<1>1. /\ saved = [fat |-> saved.fat, free |-> saved.free, ents |-> saved.ents]
      /\ FatOf(saved) = [fat |-> saved.fat, free |-> saved.free]
      /\ disk = saved /\ meta = FatOf(saved) /\ saved.ents \in [Names -> EntryType] BY InvParts DEF FatRemove, Begin
<1>2. /\ op' = call /\ pc' = "free" /\ UNCHANGED <<saved, disk, meta, body, mounted, fenced>>
      /\ Removable(n) BY DEF FatRemove, Begin, bodies
<1>3. call \in DeleteOp /\ call.op = "delete" /\ call.name = n /\ call.old = saved.ents[n].first
  BY <1>1 DEF DeleteOp, EntryType
<1> HIDE DEF call
<1> DEFINE image == [fat |-> saved.fat, free |-> saved.free, ents |-> [saved.ents EXCEPT ![n] = NoEntry]]
<1>4. Target' = image /\ InHand' = saved.ents[n].first BY <1>1, <1>2, <1>3 DEF Target, InHand
<1>5. Sound(saved, 0) /\ Ready(saved, body) BY SavedReady DEF IInv, SavedOK
<1>6. NoEntry \in EntryType /\ NoEntry.first = 0 /\ NoEntry.kind = "none" BY ClustersFinite DEF NoEntry, EntryType
<1>7. saved.ents[n].kind = "dir" => Children(saved, n) = {} BY <1>1, <1>2 DEF Removable, Existing
<1>8. Sound(image, saved.ents[n].first) BY <1>5, <1>6, <1>7, SoundReplaced
<1>9. Ready(image, body)
  <2>1. \A d \in Names \cup {Root} : IsDir(image, d) =>
            IsDir(saved, d) /\ DirCluster(image, d) = DirCluster(saved, d)
    BY <1>1, <1>6, NamesAssumption DEF IsDir, DirCluster
  <2> QED BY <1>5, <2>1 DEF Ready
<1>10. OthersKept' BY <1>1, <1>2 DEF OthersKept
<1>11. Stage' BY <1>1, <1>2, <1>3 DEF Stage
<1>12. Working' BY <1>2, <1>4, <1>8, <1>9, <1>10, <1>11 DEF Working
<1> QED BY <1>2, <1>3, <1>12 DEF CallOK, Calls, Steps

\* Giving up leaves nothing to keep but the call.
LEMMA GiveUpKeeps == ASSUME IInv, pc \in Steps, GiveUp PROVE CallOK'
<1>1. op \in Calls BY DEF IInv, CallOK, Steps
<1> QED BY <1>1 DEF GiveUp, CallOK, Steps

\* A call at work.
LEMMA AtWork ==
    ASSUME IInv, pc \in Steps
    PROVE  /\ Sound(Target, InHand) /\ Ready(Target, body) /\ OthersKept /\ Stage
           /\ Target.fat = meta.fat /\ Shape /\ op \in Calls
           /\ op.op # "delete" => Target = Flush(disk) /\ Target.ents = disk.ents
BY InvParts DEF IInv, CallOK, Working, FatInv, Target, Steps

\* The cluster found is a free one.
LEMMA FirstFreeIs ==
    ASSUME NEW c \in FirstFree(meta) PROVE c \in Clusters /\ meta.fat[c] = FREE BY DEF FirstFree, FreeClusters

\* The last cluster of a chain is there to be found.
LEMMA LastExists ==
    ASSUME NEW fat, NEW heads, Laid(fat, heads), NEW o \in Owners, heads[o] # 0
    PROVE  IsLast(fat, heads[o], LastOf(fat, heads[o]))
<1>1. PICK own, pos, len : Layout(fat, heads, own, pos, len) BY DEF Laid
<1>2. \A c : c \in Chain(fat, heads[o]) <=> c \in Clusters /\ own[c] = o BY <1>1, LayoutChain
<1>3. /\ \A i \in 0 .. CLUSTERS :
            IF i < len[o] THEN Nth(fat, heads[o])[i] \in Clusters /\ own[Nth(fat, heads[o])[i]] = o
                               /\ pos[Nth(fat, heads[o])[i]] = i
            ELSE Nth(fat, heads[o])[i] = IF i = 0 THEN 0 ELSE EOC
      /\ len[o] <= CLUSTERS BY <1>1, LayoutNth
<1>4. len[o] \in Nat /\ len[o] # 0 /\ CLUSTERS \in Nat /\ o # Nobody
  BY <1>1, SizeAssumption, OwnersDistinct DEF Layout
<1> DEFINE c == Nth(fat, heads[o])[len[o] - 1]
<1>5. len[o] - 1 \in 0 .. CLUSTERS /\ len[o] - 1 < len[o] BY <1>3, <1>4
<1>6. c \in Clusters /\ own[c] = o /\ pos[c] = len[o] - 1 BY <1>3, <1>5
<1> HIDE DEF c
<1>7. fat[c] = EOC BY <1>1, <1>4, <1>6 DEF Layout
<1>8. \E x \in Chain(fat, heads[o]) : fat[x] = EOC BY <1>2, <1>6, <1>7
<1> QED BY <1>8 DEF LastOf, IsLast

\* A body grows by a cluster (fat_write_data).
LEMMA BodyKeeps == ASSUME IInv, BodyStep PROVE CallOK'
<1>1. PICK c \in FirstFree(meta) :
        /\ meta' = Linked(Allocated(meta, c), op.last, c)
        /\ Write(c, <<op.data, op.done + 1>>)
        /\ op' = [op EXCEPT !.first = IF @ = 0 THEN c ELSE @, !.last = c, !.done = @ + 1]
        /\ pc' = IF op.done + 1 = Length[op.data] THEN "sync" ELSE "body" BY DEF BodyStep
<1>2. pc = "body" /\ pc \in Steps /\ UNCHANGED <<saved, disk, mounted, fenced>> BY DEF BodyStep, Steps
<1>3. /\ Sound(Target, InHand) /\ Ready(Target, body) /\ OthersKept /\ Stage
      /\ Target.fat = meta.fat /\ Shape BY <1>2, AtWork
<1>4. op \in WriteOp /\ Prepared /\ BodySoFar /\ op.done < Length[op.data] /\ InHand = op.first
  BY <1>2, <1>3 DEF Stage, InHand
<1>5. c \in Clusters /\ meta.fat[c] = FREE /\ CLUSTERS \in Nat /\ c \in 0 .. CLUSTERS
  BY FirstFreeIs, ClustersFinite DEF Clusters
<1> DEFINE first2 == IF op.first = 0 THEN c ELSE op.first
<1>6. /\ op'.op = op.op /\ op'.name = op.name /\ op'.data = op.data /\ op'.old = op.old
      /\ op'.first = first2 /\ op'.last = c /\ op'.done = op.done + 1
      /\ op' = [op |-> op.op, name |-> op.name, data |-> op.data, first |-> first2,
                last |-> c, done |-> op.done + 1, old |-> op.old] BY <1>1, <1>4 DEF WriteOp
<1>7. op.op = "write" /\ op.done \in Nat /\ op.first \in 0 .. CLUSTERS /\ Length[op.data] \in Nat
      /\ op.data \in Contents /\ op.name \in Names /\ op.old \in 0 .. CLUSTERS BY <1>4, ContentsAssumption DEF WriteOp
<1>8. InHand' = first2 BY <1>1, <1>6 DEF InHand
<1>9. /\ Heads(Target, InHand)[Loose] = op.first /\ Loose \in Owners BY <1>4, HeadsAre
<1>10. /\ Sound(Target, InHand)' /\ Ready(Target, body)' /\ OthersKept'
       /\ Grown(meta.fat, Heads(Target, InHand), meta'.fat, Heads(Target', InHand'), Loose, c)
       /\ body'[c] = <<op.data, op.done + 1>> /\ \A b \in Clusters : b # c => body'[b] = body[b]
  <2>1. IsLast(meta.fat, Heads(Target, InHand)[Loose], op.last) BY <1>4, <1>9 DEF BodySoFar
  <2>2. InHand' = IF InHand = 0 THEN c ELSE InHand BY <1>4, <1>8
  <2> HIDE DEF first2
  <2> QED BY <1>1, <1>2, <1>3, <1>5, <1>6, <1>9, <2>1, <2>2, ExtendKeeps
<1>11. Heads(Target', InHand')[Loose] = first2 BY <1>8, HeadsAre
<1> HIDE DEF first2
<1> DEFINE old == Chain(meta.fat, op.first)
<1>12. /\ Chain(meta'.fat, first2) = old \cup {c} /\ c \notin old
       /\ Cardinality(Chain(meta'.fat, first2)) = Cardinality(old) + 1
       /\ \A i \in 0 .. CLUSTERS : i < Cardinality(old) =>
            Nth(meta'.fat, first2)[i] = Nth(meta.fat, op.first)[i]
       /\ Nth(meta'.fat, first2)[Cardinality(old)] = c
       /\ meta'.fat[c] = EOC BY <1>9, <1>10, <1>11 DEF Grown
<1>13. /\ op.done = Cardinality(old) /\ op.done \in 0 .. CLUSTERS /\ old \subseteq Clusters
       /\ \A i \in 0 .. CLUSTERS : i < Cardinality(old) => Nth(meta.fat, op.first)[i] \in old
  <2>1. Laid(meta.fat, Heads(Target, InHand)) BY <1>3 DEF Sound
  <2> QED BY <1>4, <1>9, <2>1, LaidFacts DEF BodySoFar
<1>14. op.done + 1 \in 0 .. CLUSTERS
  <2>1. Laid(meta'.fat, Heads(Target', InHand')) BY <1>10 DEF Grown
  <2>2. Cardinality(Chain(meta'.fat, first2)) \in 0 .. CLUSTERS BY <1>9, <1>11, <2>1, LaidFacts
  <2> QED BY <1>12, <1>13, <2>2
<1>15. first2 # 0 /\ first2 \in 0 .. CLUSTERS
  <2>1. 0 \notin Clusters BY DEF Clusters
  <2> QED BY <1>5, <1>7, <2>1 DEF first2
<1>16. op' \in WriteOp BY <1>5, <1>6, <1>7, <1>14, <1>15 DEF WriteOp
<1>17. BodySoFar'
  <2>1. IsLast(meta'.fat, op'.first, op'.last) BY <1>6, <1>12, <1>15 DEF IsLast
  <2>2. ASSUME NEW i \in 1 .. op.done + 1
        PROVE  body'[Nth(meta'.fat, first2)[i - 1]] = <<op.data, i>>
    <3>1. CASE i = op.done + 1
      <4>1. i - 1 = Cardinality(old) BY <1>7, <1>13, <3>1
      <4> QED BY <1>10, <1>12, <3>1, <4>1
    <3>2. CASE i # op.done + 1
      <4>0. op.done \in 0 .. CLUSTERS /\ CLUSTERS \in Nat BY <1>5, <1>13
      <4>1. i \in 1 .. op.done /\ i - 1 \in 0 .. CLUSTERS /\ i - 1 < op.done BY <3>2, <4>0
      <4>9. i - 1 < Cardinality(old) BY <1>13, <4>1
      <4>2. body[Nth(meta.fat, op.first)[i - 1]] = <<op.data, i>> BY <1>4, <4>1 DEF BodySoFar, BlocksOf
      <4>3. Nth(meta.fat, op.first)[i - 1] \in old BY <1>13, <4>1, <4>9
      <4> QED BY <1>10, <1>12, <1>13, <4>1, <4>2, <4>3, <4>9
    <3> QED BY <3>1, <3>2
  <2>3. BlocksOf(op.first, op.data, op.done)' BY <1>6, <2>2 DEF BlocksOf
  <2> QED BY <1>6, <1>12, <1>13, <2>1, <2>3 DEF BodySoFar
<1>18. Prepared' BY <1>2, <1>4, <1>6 DEF Prepared
<1>19. Stage'
  <2>1. CASE pc' = "sync" BY <1>1, <1>6, <1>7, <1>16, <1>17, <1>18, <2>1 DEF Stage
  <2>2. CASE pc' = "body"
    <3>1. op.done + 1 # Length[op.data] BY <1>1, <2>2
    <3>2. op'.done < Length[op'.data] BY <1>4, <1>6, <1>7, <3>1
    <3> QED BY <1>16, <1>17, <1>18, <2>2, <3>2 DEF Stage
  <2> QED BY <1>1, <2>1, <2>2
<1> QED BY <1>1, <1>2, <1>10, <1>16, <1>19 DEF CallOK, Working, Calls, Steps

\* A directory gets its first, cleared cluster (fat_mkdir).
LEMMA MkdirKeeps == ASSUME IInv, MkdirStep PROVE CallOK'
<1>1. PICK c \in FirstFree(meta) :
        /\ meta' = Allocated(meta, c) /\ Write(c, DirBlock) /\ op' = [op EXCEPT !.first = c] BY DEF MkdirStep
<1>2. pc = "mkdir" /\ pc' = "publish" /\ pc \in Steps /\ UNCHANGED <<saved, disk, mounted, fenced>>
  BY DEF MkdirStep, Steps
<1>3. /\ Sound(Target, InHand) /\ Ready(Target, body) /\ OthersKept /\ Stage
      /\ Target.fat = meta.fat /\ Shape BY <1>2, AtWork
<1>4. op \in MkdirOp /\ Prepared /\ op.first = 0 /\ InHand = 0 BY <1>2, <1>3 DEF Stage, InHand
<1>5. c \in Clusters /\ meta.fat[c] = FREE /\ c \in 0 .. CLUSTERS /\ c # 0 BY FirstFreeIs, ClustersFinite DEF Clusters
<1>6. /\ op'.op = op.op /\ op'.name = op.name /\ op'.old = op.old /\ op'.first = c
      /\ op' = [op |-> op.op, name |-> op.name, data |-> op.data, first |-> c,
                last |-> op.last, done |-> op.done, old |-> op.old] BY <1>1, <1>4 DEF MkdirOp
<1>7. op' \in MkdirOp BY <1>4, <1>5, <1>6 DEF MkdirOp
<1>8. InHand' = c BY <1>2, <1>6 DEF InHand
<1>9. /\ Heads(Target, InHand)[Loose] = 0 /\ Loose \in Owners BY <1>4, HeadsAre
<1>10. /\ Sound(Target, InHand)' /\ Ready(Target, body)' /\ OthersKept'
       /\ Grown(meta.fat, Heads(Target, InHand), meta'.fat, Heads(Target', InHand'), Loose, c)
       /\ body'[c] = DirBlock
  <2>1. IsLast(meta.fat, Heads(Target, InHand)[Loose], 0) BY <1>9 DEF IsLast
  <2>2. InHand' = IF InHand = 0 THEN c ELSE InHand BY <1>4, <1>8
  <2>3. meta' = Linked(Allocated(meta, c), 0, c) BY <1>1, AllocateAlone
  <2> QED BY <1>1, <1>2, <1>3, <1>5, <1>6, <1>9, <2>1, <2>2, <2>3, ExtendKeeps
<1>11. Heads(Target', InHand')[Loose] = c BY <1>8, HeadsAre
<1>12. Chain(meta'.fat, c) = {c}
  <2>1. Laid(meta.fat, Heads(Target, InHand)) BY <1>3 DEF Sound
  <2>2. Chain(meta.fat, 0) = {} BY <1>9, <2>1, LaidFacts
  <2> QED BY <1>9, <1>10, <1>11, <2>2 DEF Grown
<1>13. NewDirectory' BY <1>5, <1>6, <1>10, <1>12 DEF NewDirectory
<1>14. Prepared' BY <1>2, <1>4, <1>6 DEF Prepared
<1>15. Stage' BY <1>2, <1>7, <1>13, <1>14 DEF Stage
<1> QED BY <1>2, <1>7, <1>10, <1>15 DEF CallOK, Working, Calls, Steps

\* A full directory gets a cleared cluster more (alloc_dir_slots); the body in
\* hand stays what it is.
LEMMA GrowKeeps == ASSUME IInv, GrowDirectory PROVE CallOK'
<1> DEFINE d == Parent[op.name]
           prev == LastOf(meta.fat, DirCluster(disk, d))
<1>1. pc = "publish" /\ pc \in Steps BY DEF GrowDirectory, Steps
<1>2. CASE FreeClusters(meta) = {} BY <1>1, <1>2, GiveUpKeeps DEF GrowDirectory
<1>3. CASE FreeClusters(meta) # {}
  <2>1. PICK c \in FirstFree(meta) :
            /\ meta' = Linked(Allocated(meta, c), prev, c)
            /\ Write(c, DirBlock)
            /\ UNCHANGED <<saved, disk, mounted, fenced, op, pc, reply>> BY <1>3 DEF GrowDirectory
  <2>2. /\ Sound(Target, InHand) /\ Ready(Target, body) /\ OthersKept /\ Stage
        /\ Target.fat = meta.fat /\ Shape /\ op \in Calls BY <1>1, AtWork
  <2>3. Prepared
        /\ \/ op \in WriteOp /\ BodySoFar /\ op.done = Length[op.data]
           \/ op \in MkdirOp /\ NewDirectory
        /\ InHand = op.first /\ InHand' = op.first BY <1>1, <2>1, <2>2 DEF Stage, InHand
  <2>4. op.op # "delete" /\ op.name \in Names /\ op.first \in 0 .. CLUSTERS BY <2>3 DEF WriteOp, MkdirOp
  <2>5. Target.ents = disk.ents
        /\ Target = [fat |-> meta.fat, free |-> meta.free, ents |-> disk.ents] BY <2>4 DEF Target
  <2>6. d \in Names \cup {Root} /\ IsDir(Target, d) /\ DirCluster(Target, d) = DirCluster(disk, d)
    BY <2>3, <2>4, <2>5, NamesAssumption DEF Prepared, IsDir, DirCluster
  <2>7. c \in Clusters /\ meta.fat[c] = FREE BY FirstFreeIs
  <2> DEFINE heads == Heads(Target, InHand)
             heads2 == Heads(Target', InHand')
  <2>8. heads[Loose] = op.first /\ heads2[Loose] = op.first /\ heads[d] = DirCluster(disk, d)
        /\ Loose \in Owners /\ d \in Owners /\ d # Loose /\ heads[Root] = ROOT_CLUSTER
        /\ \A n \in Names : heads[n] = Target.ents[n].first BY <2>3, <2>6, HeadsAre
  <2>9. Laid(meta.fat, heads) BY <2>2 DEF Sound
  <2>10. heads[d] # 0
    <3>1. d \in Names => Target.ents[d].first # 0 BY <2>2, <2>6, NamesAssumption DEF Sound, Tree, IsDir
    <3> QED BY <2>6, <2>8, <3>1 DEF ROOT_CLUSTER
  <2>11. IsLast(meta.fat, heads[d], prev) BY <2>8, <2>9, <2>10, LastExists
  <2> HIDE DEF d, prev
  <2>12. /\ Sound(Target, InHand)' /\ Ready(Target, body)' /\ OthersKept'
         /\ Grown(meta.fat, heads, meta'.fat, heads2, d, c)
         /\ body'[c] = DirBlock /\ \A b \in Clusters : b # c => body'[b] = body[b]
    BY <2>1, <2>2, <2>3, <2>6, <2>7, <2>8, <2>11, ExtendKeeps
  <2> HIDE DEF heads, heads2
  \* The chain in hand is still the same.
  <2>13. /\ Chain(meta'.fat, op.first) = Chain(meta.fat, op.first)
         /\ \A i \in 0 .. CLUSTERS : Nth(meta'.fat, op.first)[i] = Nth(meta.fat, op.first)[i] BY <2>8, <2>12 DEF Grown
  <2>14. /\ Chain(meta.fat, op.first) \subseteq Clusters /\ c \notin Chain(meta.fat, op.first)
         /\ Cardinality(Chain(meta.fat, op.first)) \in 0 .. CLUSTERS
         /\ \A i \in 0 .. CLUSTERS : i < Cardinality(Chain(meta.fat, op.first)) =>
                Nth(meta.fat, op.first)[i] \in Chain(meta.fat, op.first) BY <2>7, <2>8, <2>9, LaidFacts
  <2>15. \A b \in Chain(meta.fat, op.first) : body'[b] = body[b] BY <2>12, <2>14
  <2>16. NewDirectory => NewDirectory' BY <2>1, <2>13, <2>15 DEF NewDirectory
  <2>17. op \in WriteOp /\ BodySoFar => BodySoFar'
    <3>1. SUFFICES ASSUME op \in WriteOp, BodySoFar PROVE BodySoFar' OBVIOUS
    <3>2. IsLast(meta'.fat, op.first, op.last)
      <4>1. CASE op.first = 0 BY <3>1, <4>1 DEF BodySoFar, IsLast
      <4>2. CASE op.first # 0
        <5>1. op.last \in Chain(meta.fat, op.first) /\ meta.fat[op.last] = EOC BY <3>1, <4>2 DEF BodySoFar, IsLast
        <5>2. op.last # c /\ op.last # prev
          <6>1. heads[Loose] # 0 /\ op.last \in Chain(meta.fat, heads[Loose]) BY <2>8, <4>2, <5>1
          <6>2. prev \in Chain(meta.fat, heads[d]) BY <2>10, <2>11 DEF IsLast
          <6> QED BY <2>8, <2>9, <2>14, <5>1, <6>1, <6>2, LaidFacts, SMTT(30)
        <5>3. meta'.fat = Extended(meta.fat, prev, c)
          <6>1. meta = [fat |-> meta.fat, free |-> meta.free] BY <2>2 DEF Shape
          <6>2. meta' = [fat |-> Extended(meta.fat, prev, c), free |-> meta.free - 1] BY <2>1, <6>1, AllocatedIs
          <6> QED BY <6>2
        <5>4. op.last \in Clusters /\ meta.fat \in [Clusters -> 0 .. EOC] BY <2>2, <2>14, <5>1 DEF Shape, FatType
        <5>5. meta'.fat[op.last] = EOC BY <5>1, <5>2, <5>3, <5>4 DEF Extended
        <5> QED BY <2>13, <4>2, <5>1, <5>5 DEF IsLast
      <4> QED BY <4>1, <4>2
    <3>3. BlocksOf(op.first, op.data, op.done)'
      <4>1. SUFFICES ASSUME NEW i \in 1 .. op.done
                     PROVE  body'[Nth(meta'.fat, op.first)[i - 1]] = <<op.data, i>> BY <2>1 DEF BlocksOf
      <4>2. op.done = Cardinality(Chain(meta.fat, op.first)) BY <3>1 DEF BodySoFar
      <4>3. i - 1 \in 0 .. CLUSTERS /\ i - 1 < Cardinality(Chain(meta.fat, op.first)) BY <2>14, <4>2, ClustersFinite
      <4>4. body[Nth(meta.fat, op.first)[i - 1]] = <<op.data, i>> BY <3>1, <4>1 DEF BodySoFar, BlocksOf
      <4> QED BY <2>13, <2>14, <2>15, <4>3, <4>4
    <3> QED BY <2>1, <2>13, <3>1, <3>2, <3>3 DEF BodySoFar
  <2>18. Prepared' BY <2>1, <2>3 DEF Prepared
  <2>19. Stage' BY <1>1, <2>1, <2>3, <2>16, <2>17, <2>18 DEF Stage
  <2> QED BY <1>1, <2>1, <2>2, <2>12, <2>19 DEF CallOK, Working, Steps
<1> QED BY <1>2, <1>3

\* A flush before publishing changes what is durable, not what is there.
LEMMA SyncKeeps == ASSUME IInv, BodySync PROVE CallOK'
<1>1. pc = "sync" /\ pc' = "publish" /\ pc \in Steps
      /\ UNCHANGED <<saved, meta, body, mounted, fenced, op>>
      /\ disk' = Flush(disk) BY DEF BodySync, SyncBodies, Steps
<1>2. /\ Sound(Target, InHand) /\ Ready(Target, body) /\ OthersKept /\ Stage /\ op \in Calls BY <1>1, AtWork
<1>3. op \in WriteOp /\ Prepared /\ BodySoFar /\ op.done = Length[op.data] /\ op.op # "delete"
  BY <1>1, <1>2 DEF Stage, WriteOp
<1>4. disk'.ents = disk.ents BY <1>1, InvParts
<1>5. Target' = Target /\ InHand' = InHand BY <1>1, <1>4 DEF Target, InHand
<1>6. OthersKept' BY <1>1, <1>2, <1>4 DEF OthersKept
<1>7. Prepared' BY <1>1, <1>3, <1>4 DEF Prepared, IsDir
<1>8. BodySoFar' BY <1>1, <1>3 DEF BodySoFar, BlocksOf
<1>9. Stage' BY <1>1, <1>3, <1>7, <1>8 DEF Stage
<1> QED BY <1>1, <1>2, <1>5, <1>6, <1>9 DEF CallOK, Working, Steps

\* Publishing puts the chain in hand into the tree and takes the old one out.
LEMMA PublishKeeps == ASSUME IInv, Publish PROVE CallOK' /\ NewEntry \in EntryType
<1>1. /\ pc = "publish" /\ pc' = IF op.old = 0 THEN "commit" ELSE "free"
      /\ pc \in Steps /\ UNCHANGED <<saved, meta, body, mounted, fenced, op>>
      /\ disk' = [Flush(disk) EXCEPT !.ents[op.name] = NewEntry]
      /\ Existing(op.name) = "none" => HasSlot(meta, disk, Parent[op.name]) BY DEF Publish, bodies, Steps
<1>2. /\ Sound(Target, InHand) /\ Ready(Target, body) /\ OthersKept /\ Stage /\ op \in Calls BY <1>1, AtWork
<1>3. /\ Prepared
      /\ \/ op \in WriteOp /\ BodySoFar /\ op.done = Length[op.data]
         \/ op \in MkdirOp /\ NewDirectory
      /\ InHand = op.first BY <1>1, <1>2 DEF Stage, InHand
<1>4. op.op # "delete" /\ op.name \in Names /\ op.first \in 0 .. CLUSTERS BY <1>3 DEF WriteOp, MkdirOp
<1>5. Flush(disk) = [fat |-> meta.fat, free |-> meta.free, ents |-> disk.ents]
      /\ disk.ents \in [Names -> EntryType] BY InvParts
<1> DEFINE n == op.name
           e == NewEntry
           image == [fat |-> meta.fat, free |-> meta.free, ents |-> [disk.ents EXCEPT ![n] = e]]
<1>6. disk' = image BY <1>1, <1>5
<1>7. Target = Flush(disk) /\ Target.ents = disk.ents /\ Target.fat = meta.fat
      /\ Target.free = meta.free BY <1>4, <1>5 DEF Target
<1>8. Target' = image BY <1>1, <1>4, <1>6 DEF Target
<1>9. e \in EntryType /\ e.first = op.first /\ e.kind \in {"file", "dir"}
      /\ (e.kind = "dir" => op \in MkdirOp) /\ (op \in MkdirOp => e.kind = "dir")
  <2>1. CASE op \in WriteOp
    <3>1. Length[op.data] \in 0 .. CLUSTERS /\ op.op = "write" BY <1>3, <2>1 DEF WriteOp, MkdirOp
    <3> QED BY <1>4, <2>1, <3>1 DEF NewEntry, EntryType, MkdirOp
  <2>2. CASE op \in MkdirOp
    <3>1. op.op = "mkdir" /\ 1 \in 0 .. CLUSTERS BY <2>2, SizeAssumption DEF MkdirOp
    <3> QED BY <1>4, <2>2, <3>1 DEF NewEntry, EntryType
  <2> QED BY <1>3, <2>1, <2>2
<1>10. e.kind = "dir" => op.first # 0 /\ NewDirectory
  <2>1. op \in MkdirOp => op \notin WriteOp BY DEF WriteOp, MkdirOp
  <2> QED BY <1>3, <1>9, <2>1 DEF NewDirectory
<1>11. Target.ents[n].kind # "dir" /\ IsDir(Target, Parent[n]) /\ Parent[n] # n
       /\ Target.ents[n].first = op.old
  <2>1. Parent[n] \in Names \cup {Root} /\ n # Root BY <1>4, NamesAssumption
  <2> QED BY <1>3, <1>7, <2>1 DEF Prepared, IsDir
<1>12. Target.ents[n].kind = "none" =>
        Cardinality(Children(Target, Parent[n]))
            < SLOTS * Cardinality(Chain(Target.fat, DirCluster(Target, Parent[n])))
  <2>1. Children(Target, Parent[n]) = Children(disk, Parent[n])
        /\ DirCluster(Target, Parent[n]) = DirCluster(disk, Parent[n]) BY <1>7 DEF Children, DirCluster
  <2> QED BY <1>1, <1>7, <2>1 DEF HasSlot, Existing
<1>13. image = [fat |-> Target.fat, free |-> Target.free, ents |-> [Target.ents EXCEPT ![n] = e]] BY <1>7
<1> HIDE DEF e
<1>14. image.ents = [disk.ents EXCEPT ![n] = e] /\ image.fat = meta.fat OBVIOUS
<1> HIDE DEF image
<1>15. Sound(image, Target.ents[n].first) BY <1>2, <1>3, <1>4, <1>9, <1>10, <1>11, <1>12, <1>13, SoundReplaced
<1>16. InHand' = op.old BY <1>1 DEF InHand
<1>17. Sound(Target, InHand)' BY <1>8, <1>11, <1>15, <1>16
<1>18. \A m \in Names : m # n => image.ents[m] = disk.ents[m] BY <1>5, <1>14
<1>19. image.ents[n] = e BY <1>4, <1>5, <1>14
<1>20. Ready(Target, body)'
  <2>1. SUFFICES ASSUME NEW d \in Names \cup {Root}, IsDir(image, d),
                        NEW c \in Chain(image.fat, DirCluster(image, d))
                 PROVE  body[c] = DirBlock BY <1>1, <1>8 DEF Ready
  <2>2. CASE d = n
    <3>1. d # Root BY <1>4, <2>2, NamesAssumption
    <3>2. DirCluster(image, d) = op.first /\ e.kind = "dir" BY <1>9, <1>19, <2>1, <2>2, <3>1 DEF DirCluster, IsDir
    <3> QED BY <1>10, <1>14, <2>1, <3>2 DEF NewDirectory
  <2>3. CASE d # n
    <3>1. IsDir(Target, d) /\ DirCluster(Target, d) = DirCluster(image, d)
      BY <1>7, <1>18, <2>1, <2>3 DEF IsDir, DirCluster
    <3> QED BY <1>2, <1>7, <1>14, <2>1, <3>1 DEF Ready
  <2> QED BY <2>2, <2>3
<1>21. OthersKept'
  <2>1. \A m \in Names : m # op.name => disk'.ents[m] = disk.ents[m] BY <1>6, <1>18
  <2>2. saved' = saved /\ meta' = meta /\ op' = op BY <1>1
  <2> HIDE DEF n
  <2> QED BY <1>2, <2>1, <2>2 DEF OthersKept
<1>22. Published'
  <2>1. NewEntry' = e BY <1>1 DEF NewEntry, e
  <2>2. disk'.ents[op'.name] = NewEntry' BY <1>1, <1>6, <1>19, <2>1
  <2>3. op.op = "write" => /\ BlocksOf(op.first, op.data, Length[op.data])
                           /\ Length[op.data] = Cardinality(Chain(meta.fat, op.first)) BY <1>3 DEF BodySoFar, MkdirOp
  <2>4. (op.op = "write" => /\ BlocksOf(op.first, op.data, Length[op.data])
                            /\ Length[op.data] = Cardinality(Chain(meta.fat, op.first)))' BY <1>1, <2>3 DEF BlocksOf
  <2> QED BY <2>2, <2>4 DEF Published
<1>23. Stage'
  <2>1. pc' \in {"commit", "free"} BY <1>1
  <2> QED BY <1>1, <1>3, <1>22, <2>1 DEF Stage
<1> QED BY <1>1, <1>2, <1>9, <1>17, <1>20, <1>21, <1>23 DEF CallOK, Working, Steps, e

\* Freeing the old chain leaves every other.
LEMMA FreeKeeps == ASSUME IInv, FreeOld PROVE CallOK'
<1>1. /\ pc = "free" /\ pc' = IF op.op = "delete" THEN "erase" ELSE "commit"
      /\ pc \in Steps /\ UNCHANGED <<saved, disk, body, mounted, fenced, op>>
      /\ meta' = Freed(meta, op.old) BY DEF FreeOld, bodies, Steps
<1>2. /\ Sound(Target, InHand) /\ Ready(Target, body) /\ OthersKept /\ Stage /\ op \in Calls BY <1>1, AtWork
<1> DEFINE gone == Chain(meta.fat, op.old)
<1>3. InHand = op.old /\ InHand' = 0 BY <1>1 DEF InHand
<1>4. meta' = [fat |-> Without(meta.fat, gone), free |-> meta.free + Cardinality(gone)] BY <1>1 DEF Freed, Without
<1>5. Target.fat = meta.fat /\ Target.free = meta.free /\ Target'.ents = Target.ents BY <1>1 DEF Target
<1>6. Target' = [fat |-> Without(meta.fat, gone), free |-> meta.free + Cardinality(gone), ents |-> Target.ents]
  BY <1>1, <1>4 DEF Target
<1> HIDE DEF gone
<1>7. Target' = [fat |-> Without(Target.fat, Chain(Target.fat, op.old)),
                 free |-> Target.free + Cardinality(Chain(Target.fat, op.old)), ents |-> Target.ents]
  BY <1>5, <1>6 DEF gone
<1>8. /\ Sound(Target', 0)
      /\ \A d \in Names \cup {Root} :
            /\ Chain(Target'.fat, DirCluster(Target', d)) = Chain(Target.fat, DirCluster(Target, d))
            /\ \A i \in 0 .. CLUSTERS :
                Nth(Target'.fat, DirCluster(Target', d))[i] = Nth(Target.fat, DirCluster(Target, d))[i]
  BY <1>2, <1>3, <1>7, SoundFreed
<1>9. \A d \in Names \cup {Root} : IsDir(Target', d) <=> IsDir(Target, d) BY <1>5 DEF IsDir
<1>10. Ready(Target, body)' BY <1>1, <1>2, <1>8, <1>9 DEF Ready
<1>11. \A n \in Names : DirCluster(Target, n) = Target.ents[n].first
           /\ DirCluster(Target', n) = Target.ents[n].first BY <1>5, NamesAssumption DEF DirCluster
<1>12. Target'.fat = meta'.fat BY <1>4, <1>6
<1>13. \A n \in Names : \A i \in 0 .. CLUSTERS :
        Nth(meta'.fat, Target.ents[n].first)[i] = Nth(meta.fat, Target.ents[n].first)[i] BY <1>5, <1>8, <1>11, <1>12
<1>14. disk.ents \in [Names -> EntryType] BY InvParts
<1>15. \A n \in Names : n # op.name => Target.ents[n] = disk.ents[n] BY <1>14 DEF Target
<1>16. OthersKept' BY <1>1, <1>2, <1>13, <1>15 DEF OthersKept
<1>17. CASE op.op = "delete"
  <2>1. op \in DeleteOp /\ pc' = "erase" BY <1>1, <1>2, <1>17 DEF Calls, WriteOp, MkdirOp
  <2>2. Stage' BY <1>1, <2>1 DEF Stage
  <2> QED BY <1>1, <1>2, <1>3, <1>8, <1>10, <1>16, <2>2 DEF CallOK, Working, Steps
<1>18. CASE op.op # "delete"
  <2>1. op \in WriteOp \cup MkdirOp /\ Published /\ pc' = "commit" /\ op.name \in Names
    BY <1>1, <1>2, <1>18 DEF Calls, DeleteOp, Stage, WriteOp, MkdirOp
  <2>2. Target.ents[op.name] = NewEntry /\ NewEntry \in EntryType /\ NewEntry.first = op.first
        /\ (op.op = "write" => NewEntry.size = Length[op.data]) BY <1>14, <1>18, <2>1 DEF Target, Published, NewEntry
  <2>3. op.op = "write" => Length[op.data] \in 0 .. CLUSTERS BY <2>2 DEF EntryType
  <2>4. \A i \in 0 .. CLUSTERS : Nth(meta'.fat, op.first)[i] = Nth(meta.fat, op.first)[i] BY <1>13, <2>1, <2>2
  <2>5. op.op = "write" => BlocksOf(op.first, op.data, Length[op.data])'
    <3>1. SUFFICES ASSUME op.op = "write", NEW i \in 1 .. Length[op.data]
                   PROVE  body[Nth(meta'.fat, op.first)[i - 1]] = <<op.data, i>> BY <1>1 DEF BlocksOf
    <3>2. i - 1 \in 0 .. CLUSTERS BY <2>3, <3>1, ClustersFinite
    <3> QED BY <2>1, <2>4, <3>1, <3>2 DEF Published, BlocksOf
  <2>6. Published'
    <3>1. NewEntry' = NewEntry BY <1>1 DEF NewEntry
    <3>2. Chain(meta'.fat, op.first) = Chain(meta.fat, op.first) BY <1>5, <1>8, <1>11, <1>12, <2>1, <2>2
    <3> QED BY <1>1, <2>1, <2>5, <3>1, <3>2 DEF Published
  <2>7. Stage' BY <1>1, <2>1, <2>6 DEF Stage
  <2> QED BY <1>1, <1>2, <1>3, <1>8, <1>10, <1>16, <2>7 DEF CallOK, Working, Steps
<1> QED BY <1>17, <1>18

\* Erasing the entry of a freed file or directory.
LEMMA EraseKeeps == ASSUME IInv, Erase PROVE CallOK'
<1>1. /\ pc = "erase" /\ pc' = "commit" /\ pc \in Steps
      /\ UNCHANGED <<saved, meta, body, mounted, fenced, op>>
      /\ disk' = [Flush(disk) EXCEPT !.ents[op.name] = NoEntry] BY DEF Erase, bodies, Steps
<1>2. /\ Sound(Target, InHand) /\ Ready(Target, body) /\ OthersKept /\ Stage /\ op \in Calls BY <1>1, AtWork
<1>3. op \in DeleteOp /\ op.op = "delete" /\ op.name \in Names BY <1>1, <1>2 DEF Stage, DeleteOp
<1>4. Flush(disk) = [fat |-> meta.fat, free |-> meta.free, ents |-> disk.ents]
      /\ disk.ents \in [Names -> EntryType] BY InvParts
<1>5. disk'.ents = [disk.ents EXCEPT ![op.name] = NoEntry] BY <1>1, <1>4
<1>6. disk'.ents[op.name] = NoEntry /\ \A n \in Names : n # op.name => disk'.ents[n] = disk.ents[n]
      /\ [disk'.ents EXCEPT ![op.name] = NoEntry] = disk'.ents BY <1>3, <1>4, <1>5
<1>7. Target' = Target /\ InHand' = InHand BY <1>1, <1>3, <1>5, <1>6 DEF Target, InHand
<1>8. OthersKept' BY <1>1, <1>2, <1>6 DEF OthersKept
<1>9. Stage' BY <1>1, <1>3, <1>6 DEF Stage
<1> QED BY <1>1, <1>2, <1>7, <1>8, <1>9 DEF CallOK, Working, Steps

\* Walks that agree visit the same clusters.
LEMMA SameChain ==
    ASSUME NEW fat, NEW fat2, NEW first,
           \A i \in 0 .. CLUSTERS : Nth(fat2, first)[i] = Nth(fat, first)[i]
    PROVE  Chain(fat2, first) = Chain(fat, first) BY DEF Chain

\* What a commit makes the saved image.
LEMMA CommitFacts ==
    ASSUME IInv, pc = "commit"
    PROVE  /\ Flush(disk) = Target /\ Sound(Flush(disk), 0) /\ Ready(Flush(disk), body)
           /\ Sized(Flush(disk))
           /\ OthersKept /\ Stage /\ op \in Calls
<1>1. pc \in Steps /\ InHand = 0 BY DEF Steps, InHand
<1>2. /\ Sound(Target, InHand) /\ Ready(Target, body) /\ OthersKept /\ Stage /\ op \in Calls
      /\ (op.op # "delete" => Target = Flush(disk)) BY <1>1, AtWork
<1>3. op.op = "delete" => op \in DeleteOp /\ disk.ents[op.name] = NoEntry /\ op.name \in Names
  BY <1>2 DEF Stage, WriteOp, MkdirOp, DeleteOp
<1>4. Flush(disk) = [fat |-> meta.fat, free |-> meta.free, ents |-> disk.ents]
      /\ disk.ents \in [Names -> EntryType] BY InvParts
<1>5. op.op = "delete" => [disk.ents EXCEPT ![op.name] = NoEntry] = disk.ents BY <1>3, <1>4
<1>6. Target = Flush(disk) BY <1>2, <1>4, <1>5 DEF Target
<1>7. Sized(Flush(disk))
  <2>1. SUFFICES ASSUME NEW n \in Names, disk.ents[n].kind = "file"
                 PROVE  disk.ents[n].size = Cardinality(Chain(meta.fat, disk.ents[n].first)) BY <1>4 DEF Sized
  <2>2. CASE n = op.name
    <3>1. op.op # "delete" BY <1>3, <2>1, <2>2 DEF NoEntry
    <3>2. Published BY <1>2, <3>1 DEF Stage, DeleteOp
    <3>3. op.op = "write" /\ disk.ents[n].size = Length[op.data] /\ disk.ents[n].first = op.first
      BY <1>2, <2>1, <2>2, <3>1, <3>2 DEF Published, NewEntry, Calls, WriteOp, MkdirOp, DeleteOp
    <3> QED BY <3>2, <3>3 DEF Published
  <2>3. CASE n # op.name
    <3>1. /\ disk.ents[n] = saved.ents[n]
          /\ \A i \in 0 .. CLUSTERS :
                Nth(meta.fat, disk.ents[n].first)[i] = Nth(saved.fat, disk.ents[n].first)[i]
      BY <1>2, <2>1, <2>3 DEF OthersKept
    <3>2. Chain(meta.fat, disk.ents[n].first) = Chain(saved.fat, disk.ents[n].first) BY <3>1, SameChain
    <3> QED BY <2>1, <3>1, <3>2 DEF IInv, SavedOK, Sized
  <2> QED BY <2>2, <2>3
<1> QED BY <1>1, <1>2, <1>6, <1>7

\* After a call, and between calls.
LEMMA IdleOK ==
    ASSUME pc' = "idle", op' = NoOp, mounted' /\ ~fenced' => disk' = saved'
    PROVE  CallOK' BY DEF CallOK, Steps

-----------------------------------------------------------------------------

\* Creating a directory begins where nothing is.
LEMMA MkdirBegins == ASSUME IInv, NEW n \in Names, FatMkdir(n) PROVE CallOK'
<1> DEFINE call == [op |-> "mkdir", name |-> n, data |-> Directory, first |-> 0, last |-> 0, done |-> 0,
                    old |-> 0]
<1>1. PathOK(n) /\ Existing(n) = "none" /\ Begin(call, "mkdir") BY DEF FatMkdir
<1>2. call \in MkdirOp /\ call \notin WriteOp /\ call.first = 0 /\ call.last = 0 /\ call.done = 0
      /\ call.name = n /\ call.old = 0 BY ClustersFinite DEF MkdirOp, WriteOp
<1> HIDE DEF call
<1>3. disk.ents[n].first = 0
  <2>1. disk = saved BY <1>1, InvParts DEF Begin
  <2>2. saved.ents[n].kind = "none" => saved.ents[n] = NoEntry BY DEF IInv, SavedOK, Sound, Tree
  <2> QED BY <1>1, <2>1, <2>2 DEF Existing, NoEntry
<1> QED BY <1>1, <1>2, <1>3, BeginKeeps

\* A write begins with an empty body.
LEMMA WriteBegins == ASSUME IInv, NEW n \in Names, NEW c \in Contents, FatWrite(n, c) PROVE CallOK'
<1> DEFINE call == [op |-> "write", name |-> n, data |-> c, first |-> 0, last |-> 0, done |-> 0,
                    old |-> disk.ents[n].first]
           step == IF Length[c] = 0 THEN "sync" ELSE "body"
<1>1. PathOK(n) /\ Existing(n) # "dir" /\ Begin(call, step) BY DEF FatWrite
<1>2. disk.ents \in [Names -> EntryType] BY InvParts
<1>3. disk.ents[n].first \in 0 .. CLUSTERS BY <1>2 DEF EntryType
<1>4. call \in WriteOp /\ call.first = 0 /\ call.last = 0 /\ call.done = 0
      /\ call.name = n /\ call.old = disk.ents[n].first /\ call.data = c BY <1>3, ClustersFinite DEF WriteOp
<1> HIDE DEF call
<1>5. step \in {"body", "sync", "mkdir"}
      /\ IF Length[call.data] = 0 THEN step = "sync" ELSE step = "body" BY <1>4
<1> HIDE DEF step
<1> QED BY <1>1, <1>4, <1>5, BeginKeeps

\* The call in progress, over every step.
LEMMA CallStep == IInv /\ [Next]_vars => CallOK'
<1> SUFFICES ASSUME IInv, [Next]_vars PROVE CallOK' OBVIOUS
<1>1. CASE FatMount \/ BeginFails \/ Refuse \/ Commit \/ CommitUnknown \/ Rollback \/ RollbackFails \/ Crash
  <2>1. pc = "idle" /\ mounted /\ ~fenced => disk = saved BY InvParts
  <2>2. pc' = "idle" /\ op' = NoOp
    BY <1>1 DEF FatMount, BeginFails, Refuse, Commit, CommitUnknown, Rollback, RollbackFails, Crash, Return
  <2>3. mounted' /\ ~fenced' => disk' = saved'
    BY <1>1, <2>1 DEF FatMount, BeginFails, Refuse, Commit, CommitUnknown, Rollback, RollbackFails, Crash
  <2> QED BY <2>2, <2>3, IdleOK
<1>2. ASSUME NEW n \in Names, FatRemove(n) PROVE CallOK' BY <1>2, RemoveKeeps
<1>3. ASSUME NEW n \in Names, FatMkdir(n) PROVE CallOK' BY <1>3, MkdirBegins
<1>4. ASSUME NEW n \in Names, NEW c \in Contents, FatWrite(n, c) PROVE CallOK' BY <1>4, WriteBegins
<1>5. CASE BodyStep BY <1>5, BodyKeeps
<1>6. CASE MkdirStep BY <1>6, MkdirKeeps
<1>7. CASE Full BY <1>7, GiveUpKeeps DEF Full, Steps
<1>8. CASE BodySync BY <1>8, SyncKeeps
<1>9. CASE GrowDirectory BY <1>9, GrowKeeps
<1>10. CASE Publish BY <1>10, PublishKeeps
<1>11. CASE FreeOld BY <1>11, FreeKeeps
<1>12. CASE Erase BY <1>12, EraseKeeps
<1>13. ASSUME NEW step \in Steps, Fails(step) PROVE CallOK' BY <1>13, GiveUpKeeps DEF Fails
<1>14. CASE UNCHANGED vars
  <2>1. CallOK /\ UNCHANGED <<saved, disk, meta, body, mounted, fenced, op, pc>> BY <1>14 DEF IInv, vars
  <2>2. Target' = Target /\ InHand' = InHand BY <2>1 DEF Target, InHand
  <2>3. OthersKept => OthersKept' BY <2>1 DEF OthersKept
  <2>4. (Prepared => Prepared') /\ (BodySoFar => BodySoFar') /\ (NewDirectory => NewDirectory')
        /\ (Published => Published') BY <2>1 DEF Prepared, BodySoFar, NewDirectory, Published, BlocksOf, NewEntry
  <2>5. Stage => Stage' BY <2>1, <2>4 DEF Stage
  <2>6. Working => Working' BY <2>1, <2>2, <2>3, <2>5 DEF Working
  <2> QED BY <2>1, <2>6 DEF CallOK
<1> QED BY <1>1, <1>2, <1>3, <1>4, <1>5, <1>6, <1>7, <1>8, <1>9, <1>10, <1>11, <1>12, <1>13, <1>14 DEF Next

\* What a recovery restores, over every step.
LEMMA SavedStep == IInv /\ [Next]_vars => SavedOK'
<1> SUFFICES ASSUME IInv, [Next]_vars PROVE SavedOK' OBVIOUS
<1>1. SavedOK /\ FatInv BY DEF IInv
<1>2. CASE Commit \/ (CommitUnknown /\ saved' # saved)
  <2>1. pc = "commit" /\ saved' = Flush(disk) /\ platter' = body /\ body' = body
    BY <1>2 DEF Commit, CommitUnknown, SyncBodies
  <2>2. Sound(Flush(disk), 0) /\ Ready(Flush(disk), body) /\ Sized(Flush(disk)) BY <2>1, CommitFacts
  <2> QED BY <2>1, <2>2 DEF SavedOK
<1>3. CASE Crash
  <2>1. PICK lost \in SUBSET {c \in Clusters : body[c] # platter[c]} :
            platter' = [c \in Clusters |-> IF c \in lost THEN Junk ELSE body[c]] BY <1>3 DEF Crash
  <2>2. body' = platter' /\ saved' = saved BY <1>3 DEF Crash
  <2>3. \A c \in Clusters : saved.fat[c] # FREE => c \notin lost BY <1>1, <2>1 DEF SavedOK
  <2> QED BY <1>1, <2>1, <2>2, <2>3, SavedStays
<1>4. CASE ~(Commit \/ (CommitUnknown /\ saved' # saved) \/ Crash)
  <2>1. saved' = saved
    BY <1>4 DEF Next, vars, bodies, FatMount, BeginFails, Refuse, FatRemove, FatMkdir, FatWrite, Begin, Full, GiveUp,
      BodyStep, MkdirStep, GrowDirectory, BodySync, SyncBodies, Publish, FreeOld, Erase, CommitUnknown, Fails,
      Rollback, RollbackFails
  <2>2. platter' = platter \/ platter' = body
    BY <1>4 DEF Next, vars, bodies, FatMount, BeginFails, Refuse, FatRemove, FatMkdir, FatWrite, Begin, Full, GiveUp,
      BodyStep, MkdirStep, GrowDirectory, BodySync, SyncBodies, Publish, FreeOld, Erase, CommitUnknown, Fails,
      Rollback, RollbackFails, Write
  <2>3. \A c \in Clusters : saved.fat[c] # FREE => body'[c] = body[c]
    <3>1. ASSUME NEW b \in FirstFree(meta), NEW block, Write(b, block),
                 pc \in {"body", "mkdir", "publish"}, NEW c \in Clusters, saved.fat[c] # FREE
          PROVE  body'[c] = body[c]
      <4>1. b # c BY <1>1, <3>1 DEF FirstFree, FreeClusters, FatInv, NoEarlyFree
      <4> QED BY <1>1, <3>1, <4>1 DEF Write, FatInv, Shape
    <3>2. CASE BodyStep BY <3>1, <3>2 DEF BodyStep
    <3>3. CASE MkdirStep BY <3>1, <3>3 DEF MkdirStep
    <3>4. CASE GrowDirectory BY <3>1, <3>4 DEF GrowDirectory, GiveUp, bodies
    <3>5. CASE ~(BodyStep \/ MkdirStep \/ GrowDirectory)
      BY <1>4, <3>5 DEF Next, vars, bodies, FatMount, BeginFails, Refuse, FatRemove, FatMkdir, FatWrite, Begin, Full,
        GiveUp, BodySync, SyncBodies, Publish, FreeOld, Erase, CommitUnknown, Fails, Rollback, RollbackFails
    <3> QED BY <3>2, <3>3, <3>4, <3>5
  <2> QED BY <1>1, <2>1, <2>2, <2>3, SavedStays
<1> QED BY <1>2, <1>3, <1>4

\* A sound image is an image.
LEMMA SoundType ==
    ASSUME NEW image, NEW loose, Sound(image, loose)
    PROVE  image \in ImageType /\ image.free \in 0 .. CLUSTERS
<1>1. /\ image = [fat |-> image.fat, free |-> image.free, ents |-> image.ents]
      /\ image.fat \in FatType /\ image.ents \in [Names -> EntryType]
      /\ image.free = Cardinality({c \in Clusters : image.fat[c] = FREE}) BY DEF Sound, Image, Counted, Tree
<1> DEFINE free == {c \in Clusters : image.fat[c] = FREE}
<1>2. IsFiniteSet(free) /\ Cardinality(free) \in Nat /\ Cardinality(free) <= CLUSTERS
  <2>1. free \subseteq Clusters OBVIOUS
  <2> HIDE DEF free
  <2>2. IsFiniteSet(free) /\ Cardinality(free) <= Cardinality(Clusters) BY <2>1, ClustersFinite, FS_Subset
  <2> QED BY <2>2, ClustersFinite, FS_CardinalityType
<1>3. image.free \in 0 .. CLUSTERS BY <1>1, <1>2, ClustersFinite
<1> QED BY <1>1, <1>3, Zenon DEF ImageType

\* Types, over every step; the free count is that of the image in the making.
LEMMA TypeStep == IInv /\ [Next]_vars /\ CallOK' /\ SavedOK' /\ FatInv' => TypeOK'
<1> SUFFICES ASSUME IInv, [Next]_vars, CallOK', SavedOK', FatInv' PROVE TypeOK' OBVIOUS
<1>1. TypeOK BY DEF IInv
<1>2. saved' \in ImageType
  <2>1. Sound(saved', 0) BY DEF SavedOK
  <2> QED BY <2>1, SoundType
<1>3. meta' \in MetaType
  <2>1. meta' = [fat |-> meta'.fat, free |-> meta'.free] /\ meta'.fat \in FatType BY DEF FatInv, Shape
  <2>2. pc' \in Steps => meta'.free \in 0 .. CLUSTERS
    <3>1. SUFFICES ASSUME pc' \in Steps PROVE meta'.free \in 0 .. CLUSTERS OBVIOUS
    <3>2. Sound(Target', InHand') BY <3>1 DEF CallOK, Working
    <3>3. Target'.free = meta'.free BY DEF Target
    <3> QED BY <3>2, <3>3, SoundType
  <2>3. pc' \notin Steps => meta' = meta \/ meta' = FatOf(saved)
    <3>1. \A n \in Names : FatRemove(n) => pc' \in Steps BY DEF FatRemove, Begin, Steps
    <3>2. \A n \in Names : FatMkdir(n) => pc' \in Steps BY DEF FatMkdir, Begin, Steps
    <3>3. \A n \in Names, c \in Contents : FatWrite(n, c) => pc' \in Steps BY DEF FatWrite, Begin, Steps
    <3>4. BodyStep \/ MkdirStep \/ BodySync \/ Publish \/ FreeOld \/ Erase => pc' \in Steps
      BY DEF BodyStep, MkdirStep, BodySync, Publish, FreeOld, Erase, Steps
    <3>5. GrowDirectory => pc' \in Steps \/ meta' = meta BY DEF GrowDirectory, GiveUp, Steps
    <3> QED BY <3>1, <3>2, <3>3, <3>4, <3>5 DEF Next, vars, FatMount, BeginFails, Refuse, Full, GiveUp, Commit,
      CommitUnknown, Fails, Rollback, RollbackFails, Crash
  <2>4. meta.free \in 0 .. CLUSTERS BY InvParts
  <2>5. FatOf(saved).free \in 0 .. CLUSTERS
    <3>1. Sound(saved, 0) BY DEF IInv, SavedOK
    <3>2. FatOf(saved) = [fat |-> saved.fat, free |-> saved.free] BY InvParts
    <3> QED BY <3>1, <3>2, SoundType
  <2>6. meta'.free \in 0 .. CLUSTERS BY <2>2, <2>3, <2>4, <2>5
  <2> QED BY <2>1, <2>6, Zenon DEF MetaType
<1>4. disk' \in ImageType
  <2>1. disk' = [fat |-> disk'.fat, free |-> disk'.free, ents |-> disk'.ents]
        /\ disk'.fat \in FatType BY DEF FatInv, Shape, Image
  <2>2. /\ saved \in ImageType /\ disk \in ImageType /\ disk.ents \in [Names -> EntryType]
        /\ meta.free \in 0 .. CLUSTERS
        /\ Flush(disk) = [fat |-> meta.fat, free |-> meta.free, ents |-> disk.ents] BY <1>1, InvParts DEF TypeOK
  <2>3. ASSUME disk' = Flush(disk) PROVE disk' \in ImageType
    <3>1. disk'.free \in 0 .. CLUSTERS /\ disk'.ents \in [Names -> EntryType] BY <2>2, <2>3
    <3> QED BY <2>1, <3>1, Zenon DEF ImageType
  <2>4. ASSUME NEW e \in EntryType, disk' = [Flush(disk) EXCEPT !.ents[op.name] = e]
        PROVE  disk' \in ImageType
    <3>1. disk' = [fat |-> meta.fat, free |-> meta.free, ents |-> [disk.ents EXCEPT ![op.name] = e]] BY <2>2, <2>4
    <3>2. [disk.ents EXCEPT ![op.name] = e] \in [Names -> EntryType] BY <2>2
    <3>3. disk'.free \in 0 .. CLUSTERS /\ disk'.ents \in [Names -> EntryType] BY <2>2, <3>1, <3>2
    <3> QED BY <2>1, <3>3, Zenon DEF ImageType
  <2>5. CASE Publish BY <2>4, <2>5, PublishKeeps DEF Publish
  <2>6. CASE Erase
    <3>1. NoEntry \in EntryType BY ClustersFinite DEF NoEntry, EntryType
    <3> QED BY <2>4, <2>6, <3>1 DEF Erase
  <2>7. CASE BodySync \/ Commit \/ CommitUnknown BY <2>3, <2>7 DEF BodySync, Commit, CommitUnknown
  <2>8. CASE FatMount \/ Rollback BY <2>2, <2>8 DEF FatMount, Rollback
  <2>9. CASE ~(Publish \/ Erase \/ BodySync \/ Commit \/ CommitUnknown \/ FatMount \/ Rollback)
    <3>1. disk' = disk BY <2>9 DEF Next, vars, BeginFails, Refuse, FatRemove, FatMkdir, FatWrite, Begin, Full, GiveUp,
      BodyStep, MkdirStep, GrowDirectory, FreeOld, Fails, RollbackFails, Crash
    <3> QED BY <2>2, <3>1
  <2> QED BY <2>5, <2>6, <2>7, <2>8, <2>9
<1>5. body' \in [Clusters -> Blocks] /\ platter' \in [Clusters -> Blocks]
  <2>1. body \in [Clusters -> Blocks] /\ platter \in [Clusters -> Blocks] BY <1>1 DEF TypeOK
  <2>2. DirBlock \in Blocks /\ Junk \in Blocks BY ClustersFinite DEF DirBlock, Junk, Blocks
  <2>3. ASSUME NEW c, NEW block \in Blocks, Write(c, block)
        PROVE  body' \in [Clusters -> Blocks] /\ platter' \in [Clusters -> Blocks] BY <2>1, <2>3 DEF Write
  <2>4. CASE BodyStep
    <3>1. PICK c \in FirstFree(meta) :
            /\ Write(c, <<op.data, op.done + 1>>)
            /\ op' = [op EXCEPT !.first = IF @ = 0 THEN c ELSE @, !.last = c, !.done = @ + 1] BY <2>4 DEF BodyStep
    <3>2. pc = "body" /\ pc' \in {"body", "sync"} BY <2>4 DEF BodyStep
    <3>3. op \in WriteOp BY <3>2 DEF IInv, CallOK, Working, Stage, Steps
    <3>4. op' \in WriteOp BY <3>2 DEF CallOK, Working, Stage, Steps
    <3>5. op'.done = op.done + 1 /\ op.data \in Contents BY <3>1, <3>3 DEF WriteOp
    <3>6. op.done + 1 \in 0 .. CLUSTERS BY <3>4, <3>5 DEF WriteOp
    <3>7. <<op.data, op.done + 1>> \in Blocks BY <3>5, <3>6 DEF Blocks
    <3> QED BY <2>3, <3>1, <3>7
  <2>5. CASE MkdirStep BY <2>2, <2>3, <2>5 DEF MkdirStep
  <2>6. CASE GrowDirectory BY <2>1, <2>2, <2>3, <2>6 DEF GrowDirectory, bodies
  <2>7. CASE Crash BY <2>1, <2>2, <2>7 DEF Crash
  <2>8. CASE ~(BodyStep \/ MkdirStep \/ GrowDirectory \/ Crash)
    <3>1. body' = body /\ (platter' = platter \/ platter' = body)
      BY <2>8 DEF Next, vars, bodies, FatMount, BeginFails, Refuse, FatRemove, FatMkdir, FatWrite, Begin, Full,
        BodySync, SyncBodies, Publish, FreeOld, Erase, Commit, CommitUnknown, Fails, Rollback, RollbackFails
    <3> QED BY <2>1, <3>1
  <2> QED BY <2>4, <2>5, <2>6, <2>7, <2>8
<1>6. op'.op \in {"none", "write", "mkdir", "delete"} /\ pc' \in {"idle", "abort"} \cup Steps
  BY DEF CallOK, Calls, NoOp, WriteOp, MkdirOp, DeleteOp
<1>7. /\ mounted' \in BOOLEAN /\ fenced' \in BOOLEAN
      /\ reply' \in {"none", "ok", "error"} /\ faults' \in 0 .. MaxFaults
  <2>1. /\ mounted \in BOOLEAN /\ fenced \in BOOLEAN
        /\ reply \in {"none", "ok", "error"} /\ faults \in 0 .. MaxFaults /\ MaxFaults \in Nat
    BY <1>1, SizeAssumption DEF TypeOK
  <2>2. mounted' \in BOOLEAN /\ fenced' \in BOOLEAN
    BY <2>1 DEF Next, vars, FatMount, BeginFails, Refuse, FatRemove, FatMkdir, FatWrite, Begin, Full, GiveUp,
      BodyStep, MkdirStep, GrowDirectory, BodySync, Publish, FreeOld, Erase, Commit, CommitUnknown, Fails, Rollback,
      RollbackFails, Crash
  <2>3. reply' \in {"none", "ok", "error"}
    BY <2>1 DEF Next, vars, FatMount, BeginFails, Refuse, FatRemove, FatMkdir, FatWrite, Return, Begin, Full, GiveUp,
      BodyStep, MkdirStep, GrowDirectory, BodySync, Publish, FreeOld, Erase, Commit, CommitUnknown, Fails, Rollback,
      RollbackFails, Crash
  <2>4. UNCHANGED faults \/ Fault
    BY DEF Next, vars, FatMount, BeginFails, Refuse, FatRemove, FatMkdir, FatWrite, NoFault, Begin, Full, GiveUp,
      BodyStep, MkdirStep, GrowDirectory, BodySync, Publish, FreeOld, Erase, Commit, CommitUnknown, Fails, Rollback,
      RollbackFails, Crash
  <2>5. faults' \in 0 .. MaxFaults BY <2>1, <2>4 DEF Fault
  <2> QED BY <2>2, <2>3, <2>5
<1> QED BY <1>2, <1>3, <1>4, <1>5, <1>6, <1>7 DEF TypeOK

\* The freshly formatted volume satisfies the invariant.
LEMMA FreshOK == Init => IInv
<1> SUFFICES ASSUME Init PROVE IInv OBVIOUS
<1>1. FatInv BY FatInit
<1>2. saved = Fresh /\ disk = Fresh /\ meta = FatOf(Fresh) /\ Sound(Fresh, 0) BY SoundFresh DEF Init
<1>3. Fresh \in ImageType /\ Fresh.free \in 0 .. CLUSTERS BY <1>2, SoundType
<1>4. meta \in MetaType
  <2>1. meta = [fat |-> meta.fat, free |-> meta.free] /\ meta.fat \in FatType BY <1>1 DEF FatInv, Shape
  <2>2. meta.free \in 0 .. CLUSTERS BY <1>2, <1>3 DEF FatOf
  <2> QED BY <2>1, <2>2, Zenon DEF MetaType
<1>5. ROOT_CLUSTER \in Clusters /\ ROOT_CLUSTER # EOC /\ EOC \notin Clusters /\ CLUSTERS \in Nat
      /\ CLUSTERS # 0 BY SizeAssumption DEF ROOT_CLUSTER, Clusters, EOC
<1>6. body = [c \in Clusters |-> IF c = ROOT_CLUSTER THEN DirBlock ELSE Junk] /\ platter = body BY DEF Init
<1>7. Ready(Fresh, platter)
  <2> DEFINE heads == Heads(Fresh, 0)
  <2>1. \A d \in Names \cup {Root} : heads[d] = DirCluster(Fresh, d) /\ d \in Owners BY HeadsAre
  <2>2. heads[Root] = ROOT_CLUSTER BY HeadsAre
  <2>3. Laid(Fresh.fat, heads) BY <1>2 DEF Sound
  <2> HIDE DEF heads
  <2>4. \A c \in Chain(Fresh.fat, heads[Root]) : c \in Clusters /\ Fresh.fat[c] # FREE BY <2>1, <2>3, LaidFacts
  <2>5. \A c \in Clusters : Fresh.fat[c] # FREE => c = ROOT_CLUSTER BY DEF Fresh
  <2>6. \A d \in Names \cup {Root} : IsDir(Fresh, d) => d = Root BY DEF IsDir, Fresh, NoEntry
  <2>7. platter[ROOT_CLUSTER] = DirBlock BY <1>5, <1>6
  <2> QED BY <2>1, <2>4, <2>5, <2>6, <2>7 DEF Ready
<1>8. SavedOK
  <2>1. Sized(Fresh) BY DEF Sized, Fresh, NoEntry
  <2> QED BY <1>2, <1>6, <1>7, <2>1 DEF SavedOK
<1>9. CallOK BY DEF Init, CallOK, Steps
<1>10. DirBlock \in Blocks /\ Junk \in Blocks BY ClustersFinite DEF DirBlock, Junk, Blocks
<1>11. body \in [Clusters -> Blocks] BY <1>6, <1>10
<1>12. /\ mounted \in BOOLEAN /\ fenced \in BOOLEAN
       /\ op.op \in {"none", "write", "mkdir", "delete"}
       /\ pc \in {"idle", "abort"} \cup Steps
       /\ reply \in {"none", "ok", "error"} /\ faults \in 0 .. MaxFaults
  <2>1. mounted = FALSE /\ fenced = FALSE /\ op.op = "none" /\ pc = "idle" /\ reply = "none"
        /\ faults = 0 BY DEF Init, NoOp
  <2>2. faults \in 0 .. MaxFaults BY <2>1, SizeAssumption
  <2>3. mounted \in BOOLEAN /\ fenced \in BOOLEAN BY <2>1
  <2> QED BY <2>1, <2>2, <2>3
<1>13. TypeOK BY <1>2, <1>3, <1>4, <1>6, <1>11, <1>12 DEF TypeOK
<1> QED BY <1>1, <1>8, <1>9, <1>13 DEF IInv

\* The invariant holds throughout.
LEMMA Inductive == Spec => []IInv
<1>1. IInv /\ [Next]_vars => IInv'
  <2>1. IInv /\ [Next]_vars => FatInv' BY FatStep DEF IInv
  <2> QED BY <2>1, CallStep, SavedStep, TypeStep DEF IInv
<1> QED BY <1>1, FreshOK, PTL DEF Spec

-----------------------------------------------------------------------------
(***************************************************************************)
(* The refinement.  What a file reads as depends on its entry, on the way  *)
(* along its chain and on the blocks there.                                *)
(***************************************************************************)
ReadsAs(image, blocks, n, c) ==
    /\ Length[c] = image.ents[n].size
    /\ \A i \in 1 .. image.ents[n].size :
        blocks[Nth(image.fat, image.ents[n].first)[i - 1]] = <<c, i>>

\* What the entry of n reads as in an image, over given blocks.
FileIn(image, blocks, n) ==
    IF image.ents[n].kind = "none" THEN Missing
    ELSE IF image.ents[n].kind = "dir" THEN Directory
    ELSE IF \E c \in Contents : ReadsAs(image, blocks, n, c)
         THEN CHOOSE c \in Contents : ReadsAs(image, blocks, n, c) ELSE Mixed

\* Only one value reads so.
LEMMA ReadsOne ==
    ASSUME NEW image, NEW blocks, NEW n, NEW c \in Contents, NEW d \in Contents,
           ReadsAs(image, blocks, n, c), ReadsAs(image, blocks, n, d)
    PROVE  c = d
<1>1. Length[c] = image.ents[n].size /\ Length[d] = Length[c] /\ Length[c] \in Nat BY ContentsAssumption DEF ReadsAs
<1>2. CASE Length[c] = 0 BY <1>1, <1>2, ContentsAssumption
<1>3. CASE Length[c] # 0
  <2>1. 1 \in 1 .. image.ents[n].size BY <1>1, <1>3
  <2>2. <<c, 1>> = <<d, 1>> BY <2>1 DEF ReadsAs
  <2> QED BY <2>2
<1> QED BY <1>2, <1>3

\* The model's reading of a file is this one.
LEMMA FileAtIs == ASSUME NEW n \in Names PROVE FileAt(n) = FileIn(saved, platter, n)
<1> DEFINE e == saved.ents[n]
           nth == Nth(saved.fat, e.first)
           whole == {c \in Contents : Length[c] = e.size /\
                        \A i \in 1 .. e.size : platter[nth[i - 1]] = <<c, i>>}
<1>1. \A c : c \in whole <=> c \in Contents /\ ReadsAs(saved, platter, n, c) BY DEF ReadsAs
<1>2. CASE e.kind = "none" BY <1>2 DEF FileAt, FileIn
<1>3. CASE e.kind = "dir" BY <1>3 DEF FileAt, FileIn
<1>4. CASE e.kind # "none" /\ e.kind # "dir"
  <2>1. FileAt(n) = IF whole = {} THEN Mixed ELSE CHOOSE c \in whole : TRUE BY <1>4 DEF FileAt
  <2>2. FileIn(saved, platter, n) =
            IF \E c \in Contents : ReadsAs(saved, platter, n, c)
            THEN CHOOSE c \in Contents : ReadsAs(saved, platter, n, c) ELSE Mixed BY <1>4 DEF FileIn
  <2> HIDE DEF whole
  <2>3. CASE whole = {} BY <1>1, <2>1, <2>2, <2>3
  <2>4. CASE whole # {}
    <3> DEFINE a == CHOOSE c \in whole : TRUE
               b == CHOOSE c \in Contents : ReadsAs(saved, platter, n, c)
    <3>1. a \in whole BY <2>4
    <3>2. b \in Contents /\ ReadsAs(saved, platter, n, b) BY <1>1, <3>1
    <3>3. FileAt(n) = a BY <2>1, <2>4
    <3>4. FileIn(saved, platter, n) = b BY <1>1, <2>2, <3>1
    <3> HIDE DEF a, b
    <3> QED BY <1>1, <3>1, <3>2, <3>3, <3>4, ReadsOne
  <2> QED BY <2>3, <2>4
<1> QED BY <1>2, <1>3, <1>4

\* And so after a step.
LEMMA FileAtNext == ASSUME NEW n \in Names PROVE FileAt(n)' = FileIn(saved', platter', n)
<1>1. (FileAt(n) = FileIn(saved, platter, n))' BY FileAtIs, PTL
<1> QED BY <1>1

\* The same entry, the same chain and the same blocks read the same.
LEMMA ReadsSame ==
    ASSUME NEW image, NEW blocks, NEW image2, NEW blocks2, NEW n,
           image2.ents[n] = image.ents[n],
           image.ents[n].kind \notin {"none", "dir"} =>
                \A i \in 1 .. image.ents[n].size :
                    blocks2[Nth(image2.fat, image.ents[n].first)[i - 1]]
                        = blocks[Nth(image.fat, image.ents[n].first)[i - 1]]
    PROVE  FileIn(image2, blocks2, n) = FileIn(image, blocks, n)
<1>1. CASE image.ents[n].kind \in {"none", "dir"} BY <1>1 DEF FileIn
<1>2. CASE image.ents[n].kind \notin {"none", "dir"}
  <2> DEFINE a == CHOOSE c \in Contents : ReadsAs(image, blocks, n, c)
             b == CHOOSE c \in Contents : ReadsAs(image2, blocks2, n, c)
  <2>1. \A c : ReadsAs(image2, blocks2, n, c) <=> ReadsAs(image, blocks, n, c) BY <1>2 DEF ReadsAs
  <2>2. FileIn(image, blocks, n) = IF \E c \in Contents : ReadsAs(image, blocks, n, c) THEN a ELSE Mixed
    BY <1>2 DEF FileIn
  <2>3. FileIn(image2, blocks2, n) =
            IF \E c \in Contents : ReadsAs(image2, blocks2, n, c) THEN b ELSE Mixed BY <1>2 DEF FileIn
  <2>4. CASE \E c \in Contents : ReadsAs(image, blocks, n, c)
    <3>1. a \in Contents /\ ReadsAs(image, blocks, n, a) BY <2>4
    <3>2. b \in Contents /\ ReadsAs(image2, blocks2, n, b) BY <2>1, <2>4
    <3> HIDE DEF a, b
    <3>3. a = b BY <2>1, <3>1, <3>2, ReadsOne
    <3> QED BY <2>1, <2>2, <2>3, <2>4, <3>3
  <2>5. CASE ~\E c \in Contents : ReadsAs(image, blocks, n, c) BY <2>1, <2>2, <2>3, <2>5
  <2> QED BY <2>4, <2>5
<1> QED BY <1>1, <1>2

\* The blocks a saved file reads are clusters in use.
LEMMA SavedBlocks ==
    ASSUME IInv, NEW n \in Names, saved.ents[n].kind \notin {"none", "dir"},
           NEW i \in 1 .. saved.ents[n].size
    PROVE  LET c == Nth(saved.fat, saved.ents[n].first)[i - 1]
           IN  c \in Clusters /\ saved.fat[c] # FREE /\ i - 1 \in 0 .. CLUSTERS
<1> DEFINE heads == Heads(saved, 0)
<1>1. heads[n] = saved.ents[n].first /\ n \in Owners BY HeadsAre
<1>2. Laid(saved.fat, heads) /\ Sized(saved) /\ saved.ents \in [Names -> EntryType] BY DEF IInv, SavedOK, Sound, Tree
<1> HIDE DEF heads
<1>3. saved.ents[n].kind = "file" /\ saved.ents[n].size \in 0 .. CLUSTERS BY <1>2 DEF EntryType
<1>4. saved.ents[n].size = Cardinality(Chain(saved.fat, saved.ents[n].first)) BY <1>2, <1>3 DEF Sized
<1>5. i - 1 \in 0 .. CLUSTERS /\ i - 1 < saved.ents[n].size BY <1>3, ClustersFinite
<1> QED BY <1>1, <1>2, <1>4, <1>5, LaidFacts

\* A step that leaves the saved image leaves what its files read as.
LEMMA StoreKept ==
    ASSUME IInv, UNCHANGED saved,
           \A c \in Clusters : saved.fat[c] # FREE => platter'[c] = platter[c]
    PROVE  UNCHANGED [n \in Names |-> FileAt(n)]
<1>1. ASSUME NEW n \in Names PROVE FileAt(n)' = FileAt(n)
  <2>1. saved.ents[n].kind \notin {"none", "dir"} =>
            \A i \in 1 .. saved.ents[n].size :
                platter'[Nth(saved.fat, saved.ents[n].first)[i - 1]]
                    = platter[Nth(saved.fat, saved.ents[n].first)[i - 1]] BY SavedBlocks
  <2>2. FileIn(saved', platter', n) = FileIn(saved, platter, n) BY <2>1, ReadsSame
  <2> QED BY <2>2, FileAtIs, FileAtNext
<1> QED BY <1>1

\* The call as the table sees it.
LEMMA PendingIs ==
    /\ op = NoOp => PendingOp = NoOp
    /\ op \in WriteOp \cup MkdirOp => PendingOp = [op |-> "write", name |-> op.name, data |-> op.data]
    /\ op \in DeleteOp => PendingOp = [op |-> "delete", name |-> op.name]
    /\ op \in Calls => PendingOp # NoOp /\ PendingOp.op # "format"
<1>1. op = NoOp => PendingOp = NoOp BY DEF PendingOp, NoOp
<1>2. op \in WriteOp \cup MkdirOp => PendingOp = [op |-> "write", name |-> op.name, data |-> op.data]
  <2>1. op \in WriteOp \cup MkdirOp => op.op \in {"write", "mkdir"} BY DEF WriteOp, MkdirOp
  <2> QED BY <2>1 DEF PendingOp
<1>3. op \in DeleteOp => PendingOp = [op |-> "delete", name |-> op.name]
  <2>1. op \in DeleteOp => op.op = "delete" BY DEF DeleteOp
  <2> QED BY <2>1 DEF PendingOp
<1> QED BY <1>1, <1>2, <1>3 DEF Calls, NoOp

\* And after a step.
LEMMA PendingNext ==
    /\ op' = NoOp => PendingOp' = NoOp
    /\ op' \in WriteOp \cup MkdirOp => PendingOp' = [op |-> "write", name |-> op'.name, data |-> op'.data]
    /\ op' \in DeleteOp => PendingOp' = [op |-> "delete", name |-> op'.name]
<1>1. (/\ op = NoOp => PendingOp = NoOp
       /\ op \in WriteOp \cup MkdirOp => PendingOp = [op |-> "write", name |-> op.name, data |-> op.data]
       /\ op \in DeleteOp => PendingOp = [op |-> "delete", name |-> op.name]
       /\ op \in Calls => PendingOp # NoOp /\ PendingOp.op # "format")' BY PendingIs, PTL
<1> QED BY <1>1 DEF WriteOp, MkdirOp, DeleteOp, NoOp

\* A commit is the whole call, seen from outside.
LEMMA CommitStore ==
    ASSUME IInv, pc = "commit", saved' = Flush(disk), platter' = body
    PROVE  [n \in Names |-> FileAt(n)]' = Abstract!Apply
<1>1. /\ Sound(Flush(disk), 0) /\ OthersKept /\ Stage /\ op \in Calls
      /\ Flush(disk) = [fat |-> meta.fat, free |-> meta.free, ents |-> disk.ents] BY CommitFacts, InvParts
<1>2. saved'.fat = meta.fat /\ saved'.ents = disk.ents BY <1>1
<1>3. \/ op \in WriteOp \cup MkdirOp /\ Published
      \/ op \in DeleteOp /\ disk.ents[op.name] = NoEntry BY <1>1 DEF Stage
<1>4. op.name \in Names BY <1>1 DEF Calls, WriteOp, MkdirOp, DeleteOp
<1>5. ASSUME NEW n \in Names, n # op.name PROVE FileAt(n)' = FileAt(n)
  <2>1. saved'.ents[n] = saved.ents[n] BY <1>1, <1>2, <1>5 DEF OthersKept
  <2>2. ASSUME saved.ents[n].kind \notin {"none", "dir"}, NEW i \in 1 .. saved.ents[n].size
        PROVE  platter'[Nth(saved'.fat, saved.ents[n].first)[i - 1]]
                    = platter[Nth(saved.fat, saved.ents[n].first)[i - 1]]
    <3>1. saved.ents[n].kind = "file"
      <4>1. saved.ents[n] \in EntryType BY InvParts
      <4> QED BY <2>2, <4>1 DEF EntryType
    <3>2. /\ i - 1 \in 0 .. CLUSTERS
          /\ Nth(saved.fat, saved.ents[n].first)[i - 1] \in Clusters
          /\ saved.fat[Nth(saved.fat, saved.ents[n].first)[i - 1]] # FREE BY <2>2, SavedBlocks
    <3>3. Nth(meta.fat, saved.ents[n].first)[i - 1] = Nth(saved.fat, saved.ents[n].first)[i - 1]
      BY <1>1, <1>5, <3>1, <3>2 DEF OthersKept
    <3>4. body[Nth(saved.fat, saved.ents[n].first)[i - 1]]
            = platter[Nth(saved.fat, saved.ents[n].first)[i - 1]] BY <3>2 DEF IInv, SavedOK
    <3> QED BY <1>2, <3>3, <3>4
  <2>3. FileIn(saved', platter', n) = FileIn(saved, platter, n) BY <2>1, <2>2, ReadsSame
  <2> QED BY <2>3, FileAtIs, FileAtNext
<1>6. CASE op \in DeleteOp
  <2>2. PICK n \in Names : n = op.name BY <1>4
  <2>3. saved'.ents[n].kind = "none" BY <1>2, <1>3, <1>6, <2>2 DEF NoEntry, WriteOp, MkdirOp, DeleteOp
  <2>4. FileAt(n)' = Missing BY <2>3, FileAtNext DEF FileIn
  <2>5. PendingOp.op = "delete" /\ PendingOp.name = n BY <1>6, <2>2, PendingIs
  <2>6. Abstract!Apply = [[m \in Names |-> FileAt(m)] EXCEPT ![n] = Missing] BY <2>5 DEF Abstract!Apply
  <2>7. \A m \in Names : FileAt(m)' = IF m = n THEN Missing ELSE FileAt(m) BY <1>5, <2>2, <2>4
  <2> QED BY <2>6, <2>7
<1>7. CASE op \in WriteOp \cup MkdirOp
  <2>1. PICK n \in Names : n = op.name BY <1>4
  <2>2. PICK c : c = op.data OBVIOUS
  <2>3. Published BY <1>3, <1>7 DEF WriteOp, MkdirOp, DeleteOp
  <2>4. saved'.ents[n] = NewEntry BY <1>2, <2>1, <2>3 DEF Published
  <2>5. FileAt(n)' = c
    <3>1. CASE op \in MkdirOp
      <4>1. op.op = "mkdir" /\ c = Directory BY <2>2, <3>1 DEF MkdirOp
      <4>2. saved'.ents[n].kind = "dir" BY <2>4, <4>1 DEF NewEntry
      <4> QED BY <4>1, <4>2, FileAtNext DEF FileIn
    <3>2. CASE op \in WriteOp
      <4>1. op.op = "write" /\ c \in Contents BY <2>2, <3>2 DEF WriteOp
      <4>2. saved'.ents[n].kind = "file" /\ saved'.ents[n].first = op.first
            /\ saved'.ents[n].size = Length[c] BY <2>2, <2>4, <4>1 DEF NewEntry
      <4>3. \A i \in 1 .. Length[c] : body[Nth(meta.fat, op.first)[i - 1]] = <<c, i>>
        BY <2>2, <2>3, <4>1 DEF Published, BlocksOf
      <4>4. ReadsAs(saved', platter', n, c) BY <1>2, <4>2, <4>3 DEF ReadsAs
      <4> DEFINE a == CHOOSE d \in Contents : ReadsAs(saved', platter', n, d)
      <4>5. a \in Contents /\ ReadsAs(saved', platter', n, a) BY <4>1, <4>4
      <4>6. FileIn(saved', platter', n) = a BY <4>1, <4>2, <4>4 DEF FileIn
      <4> HIDE DEF a
      <4>7. a = c BY <4>1, <4>4, <4>5, ReadsOne
      <4> QED BY <4>6, <4>7, FileAtNext
    <3> QED BY <1>7, <3>1, <3>2
  <2>6. PendingOp.op = "write" /\ PendingOp.name = n /\ PendingOp.data = c BY <1>7, <2>1, <2>2, PendingIs
  <2>7. Abstract!Apply = [[m \in Names |-> FileAt(m)] EXCEPT ![n] = c] BY <2>6 DEF Abstract!Apply
  <2>8. \A m \in Names : FileAt(m)' = IF m = n THEN c ELSE FileAt(m) BY <1>5, <2>1, <2>5
  <2> QED BY <2>7, <2>8
<1> QED BY <1>3, <1>6, <1>7

\* The table a mount would find, and a step that shows nothing of it.
Store == [n \in Names |-> FileAt(n)]
Same == UNCHANGED <<Store, PendingOp, reply, mounted /\ ~fenced>>

\* Steps that leave the saved image alone leave the store alone, whatever they
\* do to the blocks.
LEMMA StoreStays ==
    ASSUME IInv, UNCHANGED saved, UNCHANGED platter \/ platter' = body
    PROVE  UNCHANGED Store
<1>1. \A c \in Clusters : saved.fat[c] # FREE => platter'[c] = platter[c] BY DEF IInv, SavedOK
<1> QED BY <1>1, StoreKept DEF Store

\* A mount is one of the store.
LEMMA MountRefines == ASSUME IInv, FatMount PROVE Abstract!Mount
<1>1. op = NoOp /\ op' = NoOp BY DEF IInv, CallOK, FatMount, Return
<1>2. PendingOp = NoOp /\ PendingOp' = NoOp BY <1>1, PendingIs, PendingNext
<1>3. UNCHANGED Store BY StoreStays DEF FatMount, bodies
<1>4. reply' \in {"ok", "error"} /\ (mounted /\ ~fenced)' = (reply' = "ok")
  <2>1. CASE mounted' = TRUE /\ fenced' = FALSE /\ Return("ok") BY <2>1 DEF Return
  <2>2. CASE mounted' = FALSE /\ fenced' = FALSE /\ Return("error") BY <2>2 DEF Return
  <2> QED BY <2>1, <2>2 DEF FatMount
<1> QED BY <1>2, <1>3, <1>4 DEF Abstract!Mount, Abstract!NoCall, NoOp, Store

\* A call that never began was refused, or withdrew the volume.
LEMMA IdleRefines == ASSUME IInv, BeginFails \/ Refuse PROVE Abstract!Mount \/ Abstract!Refuse
<1>1. op = NoOp /\ op' = NoOp /\ mounted /\ ~fenced /\ mounted' = mounted /\ reply' = "error"
  BY DEF IInv, CallOK, BeginFails, Refuse, Return
<1>2. PendingOp = NoOp /\ PendingOp' = NoOp BY <1>1, PendingIs, PendingNext
<1>3. UNCHANGED Store BY StoreStays DEF BeginFails, Refuse, bodies
<1>4. CASE fenced'
  <2>1. (mounted /\ ~fenced)' = (reply' = "ok") BY <1>1, <1>4
  <2> QED BY <1>1, <1>2, <1>3, <2>1 DEF Abstract!Mount, Abstract!NoCall, NoOp, Store
<1>5. CASE ~fenced'
  <2>1. (mounted /\ ~fenced)' = (mounted /\ ~fenced) BY <1>1, <1>5
  <2> QED BY <1>1, <1>2, <1>3, <2>1 DEF Abstract!Refuse, Abstract!NoCall, NoOp, Store
<1> QED BY <1>4, <1>5

\* A call that begins, begins.
LEMMA BeginRefines ==
    ASSUME IInv, NEW call, NEW step, Begin(call, step), call \in Calls,
           call.data \in Contents \cup {Directory} \/ call \in DeleteOp
    PROVE  Abstract!Begin
<1>1. op = NoOp /\ op' = call /\ reply' = "none" /\ mounted /\ ~fenced
      /\ UNCHANGED <<mounted, fenced>> BY DEF IInv, CallOK, Begin
<1>2. PendingOp = Abstract!NoCall BY <1>1, PendingIs DEF Abstract!NoCall, NoOp
<1>3. UNCHANGED Store BY StoreStays DEF Begin, bodies
<1>4. (mounted /\ ~fenced)' = (mounted /\ ~fenced) /\ (mounted /\ ~fenced) BY <1>1
<1>5. CASE call \in WriteOp \cup MkdirOp
  <2>1. PendingOp' = [op |-> "write", name |-> call.name, data |-> call.data] BY <1>1, <1>5, PendingNext
  <2>2. call.name \in Names /\ call.data \in Contents \cup {Directory} BY <1>5 DEF WriteOp, MkdirOp
  <2> QED BY <1>1, <1>2, <1>3, <1>4, <2>1, <2>2 DEF Abstract!Begin, Store
<1>6. CASE call \in DeleteOp
  <2>1. PendingOp' = [op |-> "delete", name |-> call.name] BY <1>1, <1>6, PendingNext
  <2>2. call.name \in Names BY <1>6 DEF DeleteOp
  <2> QED BY <1>1, <1>2, <1>3, <1>4, <2>1, <2>2 DEF Abstract!Begin, Store
<1> QED BY <1>5, <1>6 DEF Calls

\* Inside a call nothing shows.
LEMMA WorkRefines ==
    ASSUME IInv,
           BodyStep \/ MkdirStep \/ Full \/ BodySync \/ GrowDirectory \/ Publish \/ FreeOld \/ Erase
             \/ (\E step \in Steps : Fails(step)) \/ UNCHANGED vars
    PROVE  Same
<1>1. UNCHANGED <<saved, mounted, fenced, reply>> /\ (UNCHANGED platter \/ platter' = body)
  BY DEF vars, bodies, Full, GiveUp, BodyStep, MkdirStep, GrowDirectory, BodySync, SyncBodies, Publish, FreeOld,
    Erase, Fails, Write
<1>2. UNCHANGED Store BY <1>1, StoreStays
<1>3. UNCHANGED PendingOp
  <2>1. CASE BodyStep
    <3>1. pc = "body" /\ pc' \in {"body", "sync"} BY <2>1 DEF BodyStep
    <3>2. op \in WriteOp BY <3>1 DEF IInv, CallOK, Working, Stage, Steps
    <3>3. PICK c : op' = [op EXCEPT !.first = IF @ = 0 THEN c ELSE @, !.last = c, !.done = @ + 1] BY <2>1 DEF BodyStep
    <3>4. op'.op = "write" /\ op.op = "write" /\ op'.name = op.name /\ op'.data = op.data BY <3>2, <3>3 DEF WriteOp
    <3> QED BY <3>4 DEF PendingOp
  <2>2. CASE MkdirStep
    <3>1. op \in MkdirOp BY <2>2 DEF MkdirStep, IInv, CallOK, Working, Stage, Steps
    <3>2. PICK c : op' = [op EXCEPT !.first = c] BY <2>2 DEF MkdirStep
    <3>3. op'.op = "mkdir" /\ op.op = "mkdir" /\ op'.name = op.name /\ op'.data = op.data BY <3>1, <3>2 DEF MkdirOp
    <3> QED BY <3>3 DEF PendingOp
  <2>3. CASE ~(BodyStep \/ MkdirStep)
    <3>1. op' = op BY <2>3 DEF vars, Full, GiveUp, GrowDirectory, BodySync, Publish, FreeOld, Erase, Fails
    <3> QED BY <3>1 DEF PendingOp
  <2> QED BY <2>1, <2>2, <2>3
<1>4. UNCHANGED (mounted /\ ~fenced) BY <1>1
<1> QED BY <1>1, <1>2, <1>3, <1>4 DEF Same

\* A call that ends took effect or, with an error, had none; only a call that
\* withdraws the volume may have had it all and not know.
LEMMA EndRefines ==
    ASSUME IInv, Commit \/ CommitUnknown \/ Rollback \/ RollbackFails
    PROVE  Abstract!Succeed \/ Abstract!Fail
<1>1. pc \in {"commit", "abort"} BY DEF Commit, CommitUnknown, Rollback, RollbackFails
<1>2. op \in Calls BY <1>1 DEF IInv, CallOK
<1>3. PendingOp # NoOp /\ PendingOp.op # "format" BY <1>2, PendingIs
<1>4. PendingOp' = NoOp BY PendingNext DEF Commit, CommitUnknown, Rollback, RollbackFails, Return
<1>5. CASE Commit
  <2>1. Store' = Abstract!Apply BY <1>5, CommitStore DEF Commit, SyncBodies, Store
  <2>2. reply' = "ok" /\ (mounted /\ ~fenced)' = (mounted /\ ~fenced) BY <1>5 DEF Commit, Return
  <2> QED BY <1>3, <1>4, <2>1, <2>2 DEF Abstract!Succeed, Abstract!NoCall, NoOp, Store
<1>6. CASE CommitUnknown
  <2>1. Store' \in {Store, Abstract!Apply}
    <3>1. CASE saved' = saved
      <4>1. UNCHANGED Store BY <1>6, <3>1, StoreStays DEF CommitUnknown, SyncBodies
      <4> QED BY <4>1
    <3>2. CASE saved' = Flush(disk)
      <4>1. Store' = Abstract!Apply BY <1>6, <3>2, CommitStore DEF CommitUnknown, SyncBodies, Store
      <4> QED BY <4>1
    <3> QED BY <1>6, <3>1, <3>2 DEF CommitUnknown
  <2>2. reply' = "error" /\ (mounted /\ ~fenced)' = FALSE BY <1>6 DEF CommitUnknown, Return
  <2> QED BY <1>3, <1>4, <2>1, <2>2 DEF Abstract!Fail, Abstract!NoCall, NoOp, Store
<1>7. CASE Rollback
  <2>1. UNCHANGED Store BY <1>7, StoreStays DEF Rollback, bodies
  <2>2. reply' = "error" /\ (mounted /\ ~fenced)' = (mounted /\ ~fenced) BY <1>7 DEF Rollback, Return
  <2> QED BY <1>3, <1>4, <2>1, <2>2 DEF Abstract!Fail, Abstract!NoCall, NoOp, Store
<1>8. CASE RollbackFails
  <2>1. UNCHANGED Store BY <1>8, StoreStays DEF RollbackFails, bodies
  <2>2. reply' = "error" /\ (mounted /\ ~fenced)' = FALSE BY <1>8 DEF RollbackFails, Return
  <2> QED BY <1>3, <1>4, <2>1, <2>2 DEF Abstract!Fail, Abstract!NoCall, NoOp, Store
<1> QED BY <1>5, <1>6, <1>7, <1>8

\* A power loss keeps every committed file.
LEMMA CrashRefines == ASSUME IInv, Crash PROVE Abstract!PowerLoss
<1>1. PICK lost \in SUBSET {c \in Clusters : body[c] # platter[c]} :
            platter' = [c \in Clusters |-> IF c \in lost THEN Junk ELSE body[c]] BY DEF Crash
<1>2. \A c \in Clusters : saved.fat[c] # FREE => platter'[c] = platter[c] BY <1>1 DEF IInv, SavedOK
<1>3. UNCHANGED Store BY <1>2, StoreKept DEF Crash, Store
<1>4. PendingOp' = NoOp /\ reply' = "none" /\ (mounted /\ ~fenced)' = FALSE BY PendingNext DEF Crash, Return
<1> QED BY <1>3, <1>4 DEF Abstract!PowerLoss, Abstract!NoCall, NoOp, Store

\* The fresh volume is the empty table.
LEMMA InitRefines == Init => Abstract!Init
<1> SUFFICES ASSUME Init PROVE Abstract!Init OBVIOUS
<1>1. \A n \in Names : FileAt(n) = Missing
  <2>1. \A n \in Names : saved.ents[n].kind = "none" BY DEF Init, Fresh, NoEntry
  <2> QED BY <2>1, FileAtIs DEF FileIn
<1>2. PendingOp = NoOp BY PendingIs DEF Init
<1>3. reply = "none" /\ (mounted /\ ~fenced) = FALSE BY DEF Init
<1> QED BY <1>1, <1>2, <1>3 DEF Abstract!Init, Abstract!NoCall, NoOp

\* Every step is one of the store, or shows nothing.
LEMMA NextRefines ==
    IInv /\ [Next]_vars =>
        [Abstract!Next]_<<[n \in Names |-> FileAt(n)], PendingOp, reply, mounted /\ ~fenced>>
<1> SUFFICES ASSUME IInv, [Next]_vars PROVE Abstract!Next \/ Same BY DEF Same, Store
<1>1. ASSUME NEW n \in Names, FatRemove(n) PROVE Abstract!Next
  <2>1. PICK call : call = [op |-> "delete", name |-> n, old |-> disk.ents[n].first] OBVIOUS
  <2>2. call \in DeleteOp
    <3>1. disk.ents \in [Names -> EntryType] BY InvParts
    <3>2. disk.ents[n].first \in 0 .. CLUSTERS BY <3>1 DEF EntryType
    <3> QED BY <2>1, <3>2 DEF DeleteOp
  <2>3. Begin(call, "free") BY <1>1, <2>1 DEF FatRemove
  <2>4. Abstract!Begin BY <2>2, <2>3, BeginRefines DEF Calls
  <2> QED BY <2>4 DEF Abstract!Next
<1>2. ASSUME NEW n \in Names, FatMkdir(n) PROVE Abstract!Next
  <2>1. PICK call : call = [op |-> "mkdir", name |-> n, data |-> Directory, first |-> 0, last |-> 0,
                            done |-> 0, old |-> 0] OBVIOUS
  <2>2. call \in MkdirOp /\ call.data \in Contents \cup {Directory} BY <2>1, ClustersFinite DEF MkdirOp
  <2>3. Begin(call, "mkdir") BY <1>2, <2>1 DEF FatMkdir
  <2>4. Abstract!Begin BY <2>2, <2>3, BeginRefines DEF Calls
  <2> QED BY <2>4 DEF Abstract!Next
<1>3. ASSUME NEW n \in Names, NEW c \in Contents, FatWrite(n, c) PROVE Abstract!Next
  <2>1. PICK call : call = [op |-> "write", name |-> n, data |-> c, first |-> 0, last |-> 0,
                            done |-> 0, old |-> disk.ents[n].first] OBVIOUS
  <2>2. call \in WriteOp /\ call.data \in Contents \cup {Directory}
    <3>1. disk.ents \in [Names -> EntryType] BY InvParts
    <3>2. disk.ents[n].first \in 0 .. CLUSTERS BY <3>1 DEF EntryType
    <3> QED BY <2>1, <3>2, ClustersFinite DEF WriteOp
  <2>3. PICK step : Begin(call, step) BY <1>3, <2>1 DEF FatWrite
  <2>4. Abstract!Begin BY <2>2, <2>3, BeginRefines DEF Calls
  <2> QED BY <2>4 DEF Abstract!Next
<1>4. CASE FatMount BY <1>4, MountRefines DEF Abstract!Next
<1>5. CASE BeginFails \/ Refuse BY <1>5, IdleRefines DEF Abstract!Next
<1>6. CASE BodyStep \/ MkdirStep \/ Full \/ BodySync \/ GrowDirectory \/ Publish \/ FreeOld \/ Erase
             \/ (\E step \in Steps : Fails(step)) \/ UNCHANGED vars BY <1>6, WorkRefines
<1>7. CASE Commit \/ CommitUnknown \/ Rollback \/ RollbackFails BY <1>7, EndRefines DEF Abstract!Next
<1>8. CASE Crash BY <1>8, CrashRefines DEF Abstract!Next
<1> QED BY <1>1, <1>2, <1>3, <1>4, <1>5, <1>6, <1>7, <1>8 DEF Next

\* The state is what it is declared to be; in particular the count of FSInfo is
\* never out of 0 to the size of the volume (fat.c fsinfo_adjust).
THEOREM TypeCorrect == Spec => []TypeOK
<1>1. IInv => TypeOK BY DEF IInv
<1> QED BY <1>1, Inductive, PTL

\* The image a recovery restores has no cross-linked, broken or lost chain, an
\* exact free count, and no directory cluster that was not cleared first
\* (fat.c fat_write, fat_mkdir, fat_remove, and fat_meta.h behind them).
THEOREM AlwaysConsistent == Spec => []VolumeConsistent
<1>1. IInv => VolumeConsistent
  <2> SUFFICES ASSUME IInv PROVE VolumeConsistent OBVIOUS
  <2>1. Sound(saved, 0) /\ Ready(saved, platter) BY DEF IInv, SavedOK
  <2>2. SavedConsistent BY <2>1, SoundConsistent DEF SavedConsistent
  <2>3. DirectoriesInitialised BY <2>1 DEF Ready, DirectoriesInitialised
  <2> QED BY <2>2, <2>3 DEF VolumeConsistent
<1> QED BY <1>1, Inductive, PTL

\* FAT is a table of whole files: a call that succeeds took effect once, one that
\* fails or is cut off by a power loss had all of its effect or none, and no
\* other file changes (fat.c fat_write, fat_mkdir, fat_remove).
THEOREM RefinesFileStore == Spec => ImplementsFileStore
BY Inductive, InitRefines, NextRefines, PTL DEF Spec, ImplementsFileStore, Abstract!Spec

-----------------------------------------------------------------------------
(***************************************************************************)
(* Texts.                                                                  *)
(***************************************************************************)
\* What may be typed, pasted or loaded, and what of it a text keeps.
Char == {SPACE} \cup UNION {{s[i] : i \in DOMAIN s} : s \in Inputs \cup Files \cup Queries \cup Replacements}
Plain == Char \ {TAB, CR, BAD}
Fine(t) == t \in Seq(Plain) /\ Len(t) < ED_CAP /\ LinesFit(t)

\* A splice, byte by byte.
Patched(r, t, at, removed, s) ==
    /\ Len(r) = Len(t) - removed + Len(s)
    /\ \A i \in 1 .. Len(r) :
         r[i] = IF i <= at THEN t[i] ELSE IF i <= at + Len(s) THEN s[i - at] ELSE t[i - Len(s) + removed]

\* What a text is up to a place, and after one.
LEMMA Cut ==
  ASSUME NEW S, NEW t \in Seq(S), NEW m \in Nat, NEW n \in Nat, m <= n, n <= Len(t)
  PROVE  /\ SubSeq(t, m + 1, n) \in Seq(S)
         /\ Len(SubSeq(t, m + 1, n)) = n - m
         /\ \A i \in 1 .. n - m : SubSeq(t, m + 1, n)[i] = t[m + i] OBVIOUS

\* Spliced, byte by byte.
LEMMA SplicedIs ==
  ASSUME NEW S, NEW t \in Seq(S), NEW s \in Seq(S), NEW at \in Nat, NEW removed \in Nat,
         at + removed <= Len(t)
  PROVE  Spliced(t, at, removed, s) \in Seq(S) /\ Patched(Spliced(t, at, removed, s), t, at, removed, s)
<1> DEFINE a == SubSeq(t, 1, at)
           b == SubSeq(t, at + removed + 1, Len(t))
<1>0. Len(t) \in Nat /\ Len(s) \in Nat OBVIOUS
<1>1. a \in Seq(S) /\ Len(a) = at /\ \A i \in 1 .. at : a[i] = t[i] BY <1>0
<1>2. b \in Seq(S) /\ Len(b) = Len(t) - at - removed /\ \A i \in 1 .. Len(b) : b[i] = t[at + removed + i]
  <2> DEFINE m == at + removed
  <2>1. /\ SubSeq(t, m + 1, Len(t)) \in Seq(S)
        /\ Len(SubSeq(t, m + 1, Len(t))) = Len(t) - m
        /\ \A i \in 1 .. Len(t) - m : SubSeq(t, m + 1, Len(t))[i] = t[m + i]
    <3>1. m \in Nat /\ m <= Len(t) OBVIOUS
    <3> HIDE DEF m
    <3> QED BY <1>0, <3>1, Cut
  <2>2. Len(t) - m = Len(t) - at - removed BY <1>0
  <2>3. b = SubSeq(t, m + 1, Len(t)) OBVIOUS
  <2> HIDE DEF b
  <2> QED BY <2>1, <2>2, <2>3
<1>3. Spliced(t, at, removed, s) = a \o s \o b BY DEF Spliced
<1> DEFINE r == a \o s \o b
<1> HIDE DEF a, b
<1>4. /\ r \in Seq(S) /\ Len(r) = at + Len(s) + Len(b)
      /\ \A i \in 1 .. Len(r) : r[i] = IF i <= at THEN a[i] ELSE IF i <= at + Len(s) THEN s[i - at] ELSE b[i - at - Len(s)]
  <2> DEFINE h == a \o s
  <2>3. h \in Seq(S) /\ Len(h) = at + Len(s) /\ \A i \in 1 .. at + Len(s) : h[i] = IF i <= at THEN a[i] ELSE s[i - at]
    BY <1>1, ConcatProperties
  <2>1. h \in Seq(S) BY <2>3
  <2>4. r = h \o b OBVIOUS
  <2> HIDE DEF h, r
  <2>2. h \o b \in Seq(S) /\ Len(h \o b) = Len(h) + Len(b)
        /\ \A i \in 1 .. Len(h) + Len(b) : (h \o b)[i] = IF i <= Len(h) THEN h[i] ELSE b[i - Len(h)]
    BY <1>2, <2>1, ConcatProperties
  <2>5. Len(s) \in Nat /\ Len(b) \in Nat BY <1>2
  <2>6. Len(h) = at + Len(s) /\ Len(r) = at + Len(s) + Len(b) BY <2>2, <2>3, <2>4
  <2>7. ASSUME NEW i \in 1 .. Len(r), i <= at + Len(s) PROVE r[i] = IF i <= at THEN a[i] ELSE s[i - at]
    <3>1. i \in 1 .. at + Len(s) /\ i \in 1 .. Len(h) + Len(b) /\ i <= Len(h) BY <2>5, <2>6, <2>7
    <3>2. r[i] = h[i] BY <2>2, <2>4, <3>1
    <3> QED BY <2>3, <3>1, <3>2
  <2>8. ASSUME NEW i \in 1 .. Len(r), i > at + Len(s) PROVE r[i] = b[i - at - Len(s)]
    <3>1. i \in 1 .. Len(h) + Len(b) /\ ~(i <= Len(h)) /\ i - Len(h) = i - at - Len(s) BY <2>5, <2>6, <2>8
    <3>2. r[i] = b[i - Len(h)] BY <2>2, <2>4, <3>1
    <3> QED BY <3>1, <3>2
  <2>9. ASSUME NEW i \in 1 .. Len(r)
        PROVE  r[i] = IF i <= at THEN a[i] ELSE IF i <= at + Len(s) THEN s[i - at] ELSE b[i - at - Len(s)]
    BY <2>5, <2>7, <2>8
  <2> QED BY <2>2, <2>4, <2>6, <2>9
<1> HIDE DEF r
<1>5. ASSUME NEW i \in 1 .. Len(r)
      PROVE  r[i] = IF i <= at THEN t[i] ELSE IF i <= at + Len(s) THEN s[i - at] ELSE t[i - Len(s) + removed]
  <2>0. Len(s) \in Nat /\ Len(t) \in Nat BY <1>0
  <2>1. CASE i <= at BY <1>1, <1>4, <2>0, <2>1
  <2>2. CASE i > at /\ i <= at + Len(s) BY <1>1, <1>4, <2>0, <2>2
  <2>3. CASE i > at + Len(s)
    <3> DEFINE j == i - at - Len(s)
    <3>1. r[i] = b[j] BY <1>4, <2>0, <2>3
    <3>2. j \in 1 .. Len(b) BY <1>2, <1>4, <2>0, <2>3
    <3>3. at + removed + j = i - Len(s) + removed BY <2>0
    <3>4. ~(i <= at) /\ ~(i <= at + Len(s)) BY <2>0, <2>3
    <3> HIDE DEF j
    <3>5. b[j] = t[at + removed + j] BY <1>2, <3>2
    <3> QED BY <3>1, <3>3, <3>4, <3>5
  <2> QED BY <2>0, <2>1, <2>2, <2>3
<1>6. Patched(r, t, at, removed, s) BY <1>1, <1>2, <1>4, <1>5 DEF Patched
<1> QED BY <1>3, <1>4, <1>6 DEF r

\* Two texts are the same when they are byte by byte.
LEMMA SameText ==
  ASSUME NEW S, NEW s \in Seq(S), NEW t \in Seq(S), Len(s) = Len(t), \A i \in 1 .. Len(s) : s[i] = t[i]
  PROVE  s = t BY SeqEqual

\* Putting back what a splice removed restores the text.
LEMMA SplicedBack ==
  ASSUME NEW S, NEW t \in Seq(S), NEW s \in Seq(S), NEW at \in Nat, NEW removed \in Nat,
         at + removed <= Len(t)
  PROVE  Spliced(Spliced(t, at, removed, s), at, Len(s), SubSeq(t, at + 1, at + removed)) = t
<1> DEFINE r == Spliced(t, at, removed, s)
           gone == SubSeq(t, at + 1, at + removed)
           z == Spliced(r, at, Len(s), gone)
<1>1. r \in Seq(S) /\ Patched(r, t, at, removed, s) BY SplicedIs
<1>2. gone \in Seq(S) /\ Len(gone) = removed /\ \A i \in 1 .. removed : gone[i] = t[at + i]
  <2>1. at + removed \in Nat /\ at <= at + removed OBVIOUS
  <2> QED BY <2>1, Cut
<1> HIDE DEF r, gone
<1>3. Len(s) \in Nat /\ Len(r) = Len(t) - removed + Len(s) BY <1>1 DEF Patched
<1>4. z \in Seq(S) /\ Patched(z, r, at, Len(s), gone)
  <2>1. at + Len(s) <= Len(r) BY <1>3
  <2> QED BY <1>1, <1>2, <1>3, <2>1, SplicedIs
<1> HIDE DEF z
<1>5. Len(z) = Len(t) BY <1>2, <1>3, <1>4 DEF Patched
<1>6. ASSUME NEW i \in 1 .. Len(z) PROVE z[i] = t[i]
  <2>1. z[i] = IF i <= at THEN r[i] ELSE IF i <= at + removed THEN gone[i - at] ELSE r[i - removed + Len(s)]
    BY <1>2, <1>4 DEF Patched
  <2>2. \A j \in 1 .. Len(r) :
          r[j] = IF j <= at THEN t[j] ELSE IF j <= at + Len(s) THEN s[j - at] ELSE t[j - Len(s) + removed]
    BY <1>1 DEF Patched
  <2>3. CASE i <= at
    <3>1. i \in 1 .. Len(r) BY <1>3, <2>3
    <3> QED BY <2>1, <2>2, <2>3, <3>1
  <2>4. CASE i > at /\ i <= at + removed
    <3>1. i - at \in 1 .. removed /\ at + (i - at) = i BY <2>4
    <3> QED BY <1>2, <2>1, <2>4, <3>1
  <2>5. CASE i > at + removed
    <3>1. i - removed + Len(s) \in 1 .. Len(r) /\ i - removed + Len(s) > at + Len(s) BY <1>3, <1>5, <2>5
    <3>2. (i - removed + Len(s)) - Len(s) + removed = i BY <1>3, <1>5
    <3> QED BY <1>3, <2>1, <2>2, <2>5, <3>1, <3>2
  <2> QED BY <2>3, <2>4, <2>5
<1> QED BY <1>4, <1>5, <1>6, SameText DEF z, r, gone

-----------------------------------------------------------------------------
(***************************************************************************)
(* What is typed or loaded, normalised.                                    *)
(***************************************************************************)
\* What holds at 0 and passes from each number to the next holds up to N.
LEMMA Rises ==
  ASSUME NEW N \in Nat, NEW K, 0 \in K, \A k \in 1 .. N : k - 1 \in K => k \in K
  PROVE  \A k \in 0 .. N : k \in K
<1> DEFINE R == {p \in Nat \X Nat : p[1] < p[2]}
           B == {n \in 0 .. N : n \notin K}
<1>1. IsWellFoundedOn(R, Nat) BY NatLessThanWellFounded DEF OpToRel
<1>2. \A x, y \in Nat : <<y, x>> \in R <=> y < x OBVIOUS
<1> HIDE DEF R
<1> SUFFICES ASSUME B # {} PROVE FALSE OBVIOUS
<1>5. B \subseteq Nat OBVIOUS
<1>6. PICK n \in B : \A y \in B : ~(<<y, n>> \in R) BY <1>1, <1>5, WFMin
<1>3. n # 0 /\ n \in 1 .. N /\ n - 1 \in 0 .. N BY <1>6
<1>4. n - 1 \notin B
  <2>1. <<n - 1, n>> \in R BY <1>2, <1>3
  <2> QED BY <1>6, <2>1
<1> QED BY <1>6, <1>3, <1>4

\* Normalising byte by byte is well defined.
NormalRead(f, s, n) == f = [k \in 0 .. n |-> IF k = 0 THEN <<>> ELSE f[k - 1] \o Expanded(s[k])]
NormalSteps(f, s, n) == f[0] = <<>> /\ \A k \in 1 .. n : f[k] = f[k - 1] \o Expanded(s[k])

\* Normalised is read from left to right.
LEMMA NormalIsRead ==
  ASSUME NEW s, Len(s) \in Nat
  PROVE  \E f : NormalSteps(f, s, Len(s)) /\ Normalised(s) = f[Len(s)]
<1> DEFINE n == Len(s)
           K == {m \in 0 .. n : \E f : NormalRead(f, s, m)}
<1>1. 0 \in K
  <2> DEFINE f == [k \in 0 .. 0 |-> <<>>]
  <2>1. NormalRead(f, s, 0) BY DEF NormalRead
  <2> QED BY <2>1
<1>2. ASSUME NEW k \in 1 .. n, k - 1 \in K PROVE k \in K
  <2>1. PICK f : NormalRead(f, s, k - 1) BY <1>2
  <2> DEFINE F == [i \in 0 .. k |-> IF i = k THEN f[k - 1] \o Expanded(s[k]) ELSE f[i]]
  <2>2. \A i \in 0 .. k - 1 : f[i] = IF i = 0 THEN <<>> ELSE f[i - 1] \o Expanded(s[i])
    <3>1. f = [i \in 0 .. k - 1 |-> IF i = 0 THEN <<>> ELSE f[i - 1] \o Expanded(s[i])] BY <2>1 DEF NormalRead
    <3> QED BY <3>1, Zenon
  <2>3. \A i \in 0 .. k - 1 : F[i] = f[i] OBVIOUS
  <2>4. F[k] = f[k - 1] \o Expanded(s[k]) OBVIOUS
  <2>5. F = [i \in 0 .. k |-> F[i]] OBVIOUS
  <2> HIDE DEF F, K
  <2>6. \A i \in 0 .. k : F[i] = IF i = 0 THEN <<>> ELSE F[i - 1] \o Expanded(s[i])
    <3>1. \A i \in 0 .. k - 1 : i # 0 => i - 1 \in 0 .. k - 1 OBVIOUS
    <3>2. \A i \in 0 .. k - 1 : F[i] = IF i = 0 THEN <<>> ELSE F[i - 1] \o Expanded(s[i]) BY <2>2, <2>3, <3>1, Zenon
    <3>3. k - 1 \in 0 .. k - 1 /\ k # 0 OBVIOUS
    <3>4. F[k] = IF k = 0 THEN <<>> ELSE F[k - 1] \o Expanded(s[k]) BY <2>3, <2>4, <3>3, Zenon
    <3>5. \A i \in 0 .. k : i \in 0 .. k - 1 \/ i = k OBVIOUS
    <3> QED BY <3>2, <3>4, <3>5, Zenon
  <2>7. NormalRead(F, s, k) BY <2>5, <2>6, Zenon DEF NormalRead
  <2> QED BY <2>7 DEF K
<1>7. n \in Nat OBVIOUS
<1> HIDE DEF K, n
<1>3. \A k \in 0 .. n : k \in K BY <1>1, <1>2, <1>7, Rises
<1>8. n \in K BY <1>3, <1>7
<1>4. \E f : NormalRead(f, s, Len(s)) BY <1>8 DEF K, n
<1>5. PICK f : NormalRead(f, s, Len(s)) /\ Normalised(s) = f[Len(s)] BY <1>4, Zenon DEF Normalised, NormalRead
<1>6. NormalSteps(f, s, Len(s))
  <2>1. \A i \in 0 .. Len(s) : f[i] = IF i = 0 THEN <<>> ELSE f[i - 1] \o Expanded(s[i])
    <3>1. f = [i \in 0 .. Len(s) |-> IF i = 0 THEN <<>> ELSE f[i - 1] \o Expanded(s[i])] BY <1>5 DEF NormalRead
    <3> QED BY <3>1, Zenon
  <2>2. 0 \in 0 .. Len(s) /\ \A i \in 1 .. Len(s) : i \in 0 .. Len(s) /\ i # 0 OBVIOUS
  <2>3. f[0] = <<>> BY <2>1, <2>2, Zenon
  <2>4. \A i \in 1 .. Len(s) : f[i] = f[i - 1] \o Expanded(s[i]) BY <2>1, <2>2, Zenon
  <2> QED BY <2>3, <2>4, Zenon DEF NormalSteps
<1> QED BY <1>5, <1>6

\* What normalize makes of one byte.
LEMMA ExpandedIs ==
  ASSUME TextSound, NEW C, SPACE \in C, NEW c \in C
  PROVE  Expanded(c) \in Seq(C \ {TAB, CR}) /\ (c \notin {TAB, CR} => Expanded(c) = <<c>>)
<1>1. CASE c = TAB
  <2>1. Expanded(c) = [i \in 1 .. TABS |-> SPACE] BY <1>1 DEF Expanded
  <2>2. TABS \in Nat /\ SPACE \in C \ {TAB, CR} BY DEF TextSound
  <2> QED BY <1>1, <2>1, <2>2
<1>2. CASE c # TAB /\ c = CR BY <1>2 DEF Expanded
<1>3. CASE c # TAB /\ c # CR BY <1>3 DEF Expanded
<1> QED BY <1>1, <1>2, <1>3

\* Nothing but spaces is added, and no tab and no carriage return is left.
LEMMA NormalKeeps ==
  ASSUME TextSound, NEW C, SPACE \in C, NEW s \in Seq(C)
  PROVE  Normalised(s) \in Seq(C \ {TAB, CR})
<1>0. Len(s) \in Nat OBVIOUS
<1>1. PICK f : NormalSteps(f, s, Len(s)) /\ Normalised(s) = f[Len(s)] BY <1>0, NormalIsRead
<1> DEFINE K == {k \in 0 .. Len(s) : f[k] \in Seq(C \ {TAB, CR})}
<1>2. 0 \in K
  <2>1. f[0] = <<>> BY <1>1 DEF NormalSteps
  <2>2. <<>> \in Seq(C \ {TAB, CR}) /\ 0 \in 0 .. Len(s) BY <1>0
  <2> QED BY <2>1, <2>2
<1>3. ASSUME NEW k \in 1 .. Len(s), k - 1 \in K PROVE k \in K
  <2>1. f[k] = f[k - 1] \o Expanded(s[k]) BY <1>1 DEF NormalSteps
  <2>2. f[k - 1] \in Seq(C \ {TAB, CR}) BY <1>3
  <2>3. s[k] \in C OBVIOUS
  <2>4. Expanded(s[k]) \in Seq(C \ {TAB, CR}) BY <2>3, ExpandedIs
  <2>5. f[k] \in Seq(C \ {TAB, CR}) BY <2>1, <2>2, <2>4, ConcatProperties
  <2> QED BY <1>0, <2>5
<1> HIDE DEF K
<1>4. Len(s) \in K
  <2> DEFINE N == Len(s)
  <2> HIDE DEF N
  <2>1. N \in Nat /\ \A k \in 1 .. N : k - 1 \in K => k \in K BY <1>0, <1>3 DEF N
  <2>2. \A k \in 0 .. N : k \in K BY <1>2, <2>1, Rises
  <2> QED BY <2>1, <2>2 DEF N
<1> QED BY <1>1, <1>4 DEF K

\* A text without tabs and carriage returns stays as it is.
LEMMA NormalIsSame ==
  ASSUME NEW C, TAB \notin C, CR \notin C, NEW s \in Seq(C)
  PROVE  Normalised(s) = s
<1>0. Len(s) \in Nat OBVIOUS
<1>1. PICK f : NormalSteps(f, s, Len(s)) /\ Normalised(s) = f[Len(s)] BY <1>0, NormalIsRead
<1> DEFINE K == {k \in 0 .. Len(s) : f[k] = SubSeq(s, 1, k)}
<1>2. 0 \in K
  <2>1. f[0] = <<>> BY <1>1 DEF NormalSteps
  <2>2. SubSeq(s, 1, 0) = <<>> BY SubSeqEmpty
  <2>3. 0 \in 0 .. Len(s) BY <1>0
  <2> QED BY <2>1, <2>2, <2>3, Zenon
<1>3. ASSUME NEW k \in 1 .. Len(s), k - 1 \in K PROVE k \in K
  <2>1. f[k] = f[k - 1] \o Expanded(s[k]) BY <1>1 DEF NormalSteps
  <2>2. f[k - 1] = SubSeq(s, 1, k - 1) BY <1>3
  <2>3. s[k] \in C OBVIOUS
  <2>4. Expanded(s[k]) = <<s[k]>> BY <2>3 DEF Expanded
  <2>5. SubSeq(s, 1, k) = SubSeq(s, 1, k - 1) \o <<s[k]>>
    <3>1. 1 \in 1 .. Len(s) /\ k \in 1 .. Len(s) BY <1>0
    <3> QED BY <3>1, SubSeqRecursiveSecond
  <2>6. f[k] = SubSeq(s, 1, k) BY <2>1, <2>2, <2>4, <2>5, Zenon
  <2> QED BY <1>0, <2>6
<1> HIDE DEF K
<1>4. Len(s) \in K
  <2> DEFINE N == Len(s)
  <2> HIDE DEF N
  <2>1. N \in Nat /\ \A k \in 1 .. N : k - 1 \in K => k \in K BY <1>0, <1>3 DEF N
  <2>2. \A k \in 0 .. N : k \in K BY <1>2, <2>1, Rises
  <2> QED BY <2>1, <2>2 DEF N
<1> QED BY <1>1, <1>4, SubSeqFull DEF K

Associates(S) == \A x, y, z \in Seq(S) : (x \o y) \o z = x \o (y \o z)
LEMMA Grouped ==
  ASSUME NEW S
  PROVE  Associates(S)
<1> SUFFICES ASSUME NEW x \in Seq(S), NEW y \in Seq(S), NEW z \in Seq(S) PROVE (x \o y) \o z = x \o (y \o z)
  BY DEF Associates
<1> QED BY ConcatAssociative

\* Two texts are normalised one after the other.
LEMMA NormalJoins ==
  ASSUME TextSound, NEW C, SPACE \in C, NEW a \in Seq(C), NEW b \in Seq(C)
  PROVE  Normalised(a \o b) = Normalised(a) \o Normalised(b)
<1> DEFINE s == a \o b
           D == C \ {TAB, CR}
<1>0. Len(a) \in Nat /\ Len(b) \in Nat /\ s \in Seq(C) /\ Len(s) = Len(a) + Len(b) /\ Len(s) \in Nat
  BY ConcatProperties
<1>1. /\ \A k \in 1 .. Len(a) : s[k] = a[k]
      /\ \A k \in 1 .. Len(b) : s[Len(a) + k] = b[k] OBVIOUS
<1> HIDE DEF s
<1>2. PICK f : NormalSteps(f, s, Len(s)) /\ Normalised(s) = f[Len(s)] BY <1>0, NormalIsRead
<1>3. PICK g : NormalSteps(g, a, Len(a)) /\ Normalised(a) = g[Len(a)] BY <1>0, NormalIsRead
<1>4. PICK h : NormalSteps(h, b, Len(b)) /\ Normalised(b) = h[Len(b)] BY <1>0, NormalIsRead
<1> DEFINE K == {k \in 0 .. Len(a) : f[k] = g[k]}
           L == {k \in 0 .. Len(b) : h[k] \in Seq(D) /\ f[Len(a) + k] = g[Len(a)] \o h[k]}
<1>5. 0 \in K BY <1>0, <1>2, <1>3 DEF NormalSteps
<1>6. ASSUME NEW k \in 1 .. Len(a), k - 1 \in K PROVE k \in K
  <2>1. k \in 1 .. Len(s) BY <1>0
  <2>2. f[k] = f[k - 1] \o Expanded(s[k]) BY <1>2, <2>1 DEF NormalSteps
  <2>3. g[k] = g[k - 1] \o Expanded(a[k]) BY <1>3 DEF NormalSteps
  <2>4. f[k - 1] = g[k - 1] BY <1>6
  <2>5. f[k] = g[k] BY <1>1, <2>2, <2>3, <2>4, Zenon
  <2> QED BY <1>0, <2>5
<1> HIDE DEF K
<1>7. Len(a) \in K
  <2> DEFINE N == Len(a)
  <2> HIDE DEF N
  <2>1. N \in Nat /\ \A k \in 1 .. N : k - 1 \in K => k \in K BY <1>0, <1>6 DEF N
  <2>2. \A k \in 0 .. N : k \in K BY <1>5, <2>1, Rises
  <2> QED BY <2>1, <2>2 DEF N
<1>8. f[Len(a)] = g[Len(a)] BY <1>7 DEF K
<1>9. g[Len(a)] \in Seq(D) BY <1>3, NormalKeeps
<1>10. 0 \in L
  <2>1. h[0] = <<>> BY <1>4 DEF NormalSteps
  <2>2. Len(a) + 0 = Len(a) /\ 0 \in 0 .. Len(b) BY <1>0
  <2>3. g[Len(a)] \o <<>> = g[Len(a)] BY <1>9, ConcatEmptySeq
  <2>4. <<>> \in Seq(D) OBVIOUS
  <2>5. f[Len(a) + 0] = g[Len(a)] \o h[0] BY <1>8, <2>1, <2>2, <2>3, Zenon
  <2>6. h[0] \in Seq(D) BY <2>1, <2>4, Zenon
  <2> QED BY <2>2, <2>5, <2>6, Zenon
<1>11. ASSUME NEW k \in 1 .. Len(b), k - 1 \in L PROVE k \in L
  <2> DEFINE x == Expanded(b[k])
  <2>1. Len(a) + k \in 1 .. Len(s) /\ (Len(a) + k) - 1 = Len(a) + (k - 1) BY <1>0
  <2>2. f[Len(a) + k] = f[Len(a) + (k - 1)] \o Expanded(s[Len(a) + k]) BY <1>2, <2>1 DEF NormalSteps
  <2>3. h[k] = h[k - 1] \o x BY <1>4 DEF NormalSteps
  <2>4. h[k - 1] \in Seq(D) /\ f[Len(a) + (k - 1)] = g[Len(a)] \o h[k - 1] BY <1>11
  <2>5. b[k] \in C OBVIOUS
  <2>6. x \in Seq(D) BY <2>5, ExpandedIs
  <2>7. f[Len(a) + k] = (g[Len(a)] \o h[k - 1]) \o x BY <1>1, <2>2, <2>4, Zenon
  <2> HIDE DEF x, D
  <2>13. Associates(D) BY Grouped, Zenon
  <2>8. \A p, q, r \in Seq(D) : (p \o q) \o r = p \o (q \o r) BY <2>13 DEF Associates
  <2>11. (g[Len(a)] \o h[k - 1]) \o x = g[Len(a)] \o (h[k - 1] \o x)
    <3> DEFINE p == g[Len(a)]
               q == h[k - 1]
    <3>1. p \in Seq(D) /\ q \in Seq(D) BY <1>9, <2>4
    <3> HIDE DEF p, q
    <3>2. (p \o q) \o x = p \o (q \o x) BY <2>6, <2>8, <3>1
    <3> QED BY <3>2 DEF p, q
  <2>9. h[k] \in Seq(D) BY <2>3, <2>4, <2>6, ConcatProperties
  <2>10. f[Len(a) + k] = g[Len(a)] \o h[k] BY <2>3, <2>7, <2>11, Zenon
  <2>12. k \in 0 .. Len(b) BY <1>0
  <2> QED BY <2>9, <2>10, <2>12, Zenon
<1> HIDE DEF L
<1>12. Len(b) \in L
  <2> DEFINE N == Len(b)
  <2> HIDE DEF N
  <2>1. N \in Nat /\ \A k \in 1 .. N : k - 1 \in L => k \in L BY <1>0, <1>11 DEF N
  <2>2. \A k \in 0 .. N : k \in L BY <1>10, <2>1, Rises
  <2> QED BY <2>1, <2>2 DEF N
<1>13. f[Len(a) + Len(b)] = g[Len(a)] \o h[Len(b)] BY <1>12 DEF L
<1>14. f[Len(s)] = f[Len(a) + Len(b)] BY <1>0
<1> QED BY <1>2, <1>3, <1>4, <1>13, <1>14, Zenon DEF s

\* SPACE and what is given are among the characters.
LEMMA CharsAre ==
  ASSUME TextSound
  PROVE  /\ SPACE \in Char /\ SPACE \in Char \ {BAD} /\ TAB \notin Plain /\ CR \notin Plain
         /\ Plain \subseteq Char /\ (Char \ {BAD}) \ {TAB, CR} = Plain
<1>1. SPACE \in Char BY Zenon DEF Char
<1> QED BY <1>1 DEF Plain, TextSound

\* So is what is put in the middle of a text.
LEMMA NormalSpliced ==
  ASSUME TextSound, NEW t \in Seq(Plain), NEW s \in Seq(Char), NEW at \in Nat, NEW removed \in Nat,
         at + removed <= Len(t)
  PROVE  Normalised(Spliced(t, at, removed, s)) = Spliced(t, at, removed, Normalised(s))
<1> DEFINE a == SubSeq(t, 1, at)
           b == SubSeq(t, at + removed + 1, Len(t))
<1>1. SPACE \in Char /\ TAB \notin Plain /\ CR \notin Plain /\ Plain \subseteq Char BY CharsAre
<1>2. a \in Seq(Plain)
  <2>1. Len(t) \in Nat /\ 0 \in Nat /\ 0 <= at /\ at <= Len(t) /\ 0 + 1 = 1 OBVIOUS
  <2> QED BY <2>1, Cut
<1>3. b \in Seq(Plain)
  <2> DEFINE m == at + removed
  <2>1. Len(t) \in Nat /\ m \in Nat /\ m <= Len(t) OBVIOUS
  <2>2. b = SubSeq(t, m + 1, Len(t)) OBVIOUS
  <2> HIDE DEF m, b
  <2> QED BY <2>1, <2>2, Cut
<1>4. \A x : Spliced(t, at, removed, x) = (a \o x) \o b BY DEF Spliced
<1> HIDE DEF a, b
<1>5. a \in Seq(Char) /\ b \in Seq(Char) BY <1>1, <1>2, <1>3
<1>6. a \o s \in Seq(Char) BY <1>5, ConcatProperties
<1>7. Normalised((a \o s) \o b) = Normalised(a \o s) \o Normalised(b) BY <1>1, <1>5, <1>6, NormalJoins
<1>8. Normalised(a \o s) = Normalised(a) \o Normalised(s) BY <1>1, <1>5, NormalJoins
<1>9. Normalised(a) = a /\ Normalised(b) = b BY <1>1, <1>2, <1>3, NormalIsSame
<1> QED BY <1>4, <1>7, <1>8, <1>9, Zenon

\* Whatever is given is a text.
LEMMA GivenIsText ==
  ASSUME TextSound, NEW s \in Inputs \cup Files \cup Queries \cup Replacements
  PROVE  s \in Seq(Char)
<1>1. s \in Seq({s[i] : i \in DOMAIN s}) BY DEF TextSound
<1>2. {s[i] : i \in DOMAIN s} \subseteq Char BY DEF Char
<1> HIDE DEF Char
<1> QED BY <1>1, <1>2, SeqMonotonic

\* What was accepted is a text the document can hold.
LEMMA AcceptedIsFine ==
  ASSUME TextSound, NEW s \in Seq(Char), Accepted(s)
  PROVE  Fine(Normalised(s))
<1>1. s \in Seq(Char \ {BAD})
  <2>1. \A i \in DOMAIN s : s[i] # BAD BY DEF Accepted
  <2>2. DOMAIN s = 1 .. Len(s) /\ Len(s) \in Nat /\ \A i \in 1 .. Len(s) : s[i] \in Char OBVIOUS
  <2>3. \A i \in 1 .. Len(s) : s[i] \in Char \ {BAD} BY <2>1, <2>2
  <2>4. s = [i \in 1 .. Len(s) |-> s[i]] OBVIOUS
  <2> QED BY <2>2, <2>3, <2>4
<1>2. SPACE \in Char \ {BAD} BY CharsAre
<1>3. Normalised(s) \in Seq((Char \ {BAD}) \ {TAB, CR}) BY <1>1, <1>2, NormalKeeps
<1>4. (Char \ {BAD}) \ {TAB, CR} = Plain BY DEF Plain
<1> QED BY <1>3, <1>4 DEF Fine, Accepted

\* text_replace after its checks: the new text is the old one with the
\* normalised bytes in it.
Fits(from, to, n) ==
    /\ n \in Seq(Plain) /\ Len(n) < ED_CAP
    /\ Fine(Spliced(text, from, to - from, n))
    /\ Len(Spliced(text, from, to - from, n)) = Len(text) - (to - from) + Len(n)

\* After the checks of text_replace the text fits, with what is normalised put in.
LEMMA ReplaceableFits ==
  ASSUME TextSound, Fine(text), NEW from \in Nat, NEW to \in Nat, from <= to, to <= Len(text),
         NEW s \in Seq(Char), Replaceable(from, to, s)
  PROVE  Fits(from, to, Normalised(s))
<1> DEFINE removed == to - from
           x == Spliced(text, from, removed, s)
           n == Normalised(s)
           r == Spliced(text, from, removed, n)
<1>0. /\ removed \in Nat /\ from + removed = to /\ from + removed <= Len(text) /\ text \in Seq(Plain)
      /\ Len(text) \in Nat /\ Len(s) \in Nat BY DEF Fine
<1>1. text \in Seq(Char) BY <1>0 DEF Plain
<1>2. x \in Seq(Char) /\ Patched(x, text, from, removed, s)
  <2> HIDE DEF removed
  <2> QED BY <1>0, <1>1, SplicedIs
<1>3. Accepted(x) BY DEF Replaceable
<1>4. Fine(Normalised(x)) BY <1>2, <1>3, AcceptedIsFine
<1>5. Normalised(x) = r
  <2> HIDE DEF removed
  <2> QED BY <1>0, NormalSpliced
<1>6. n \in Seq(Plain)
  <2>1. \A i \in DOMAIN x : x[i] # BAD BY <1>3 DEF Accepted
  <2>2. ASSUME NEW i \in 1 .. Len(s) PROVE s[i] \in Char \ {BAD}
    <3> HIDE DEF x, removed
    <3>1. Len(x) = Len(text) - removed + Len(s) BY <1>2 DEF Patched
    <3>2. from + i \in 1 .. Len(x) /\ from + i > from /\ from + i <= from + Len(s) /\ (from + i) - from = i
      BY <1>0, <3>1
    <3>3. x[from + i] = s[i] BY <1>0, <1>2, <3>2 DEF Patched
    <3>4. DOMAIN x = 1 .. Len(x) BY <1>2
    <3> QED BY <2>1, <3>2, <3>3, <3>4
  <2>3. s \in Seq(Char \ {BAD})
    <3>1. s = [i \in 1 .. Len(s) |-> s[i]] OBVIOUS
    <3> HIDE DEF x, n, r, removed
    <3> QED BY <1>0, <2>2, <3>1
  <2>4. SPACE \in Char \ {BAD} BY CharsAre
  <2>5. n \in Seq((Char \ {BAD}) \ {TAB, CR}) BY <2>3, <2>4, NormalKeeps
  <2>6. (Char \ {BAD}) \ {TAB, CR} = Plain BY DEF Plain
  <2> QED BY <2>5, <2>6
<1> HIDE DEF x, n
<1>7. Len(r) = Len(text) - removed + Len(n)
  <2> HIDE DEF removed, r
  <2>1. Patched(r, text, from, removed, n) BY <1>0, <1>6, SplicedIs DEF r
  <2> QED BY <2>1 DEF Patched
<1>8. Fine(r) BY <1>4, <1>5
<1>9. Len(r) < ED_CAP /\ Len(n) \in Nat /\ ED_CAP \in Nat BY <1>6, <1>8 DEF Fine, TextSound
<1>10. Len(n) < ED_CAP
  <2> HIDE DEF r
  <2> QED BY <1>0, <1>7, <1>9
<1> QED BY <1>6, <1>7, <1>8, <1>10 DEF Fits, n

\* The scan of text_replace_all yields bytes of the text and of the replacement.
Scanned(d, q, s) ==
    IF d.at = Len(text) THEN d
    ELSE IF Matches(q, d.at) THEN [at |-> d.at + Len(q), out |-> d.out \o s]
    ELSE [at |-> d.at + 1, out |-> Append(d.out, text[d.at + 1])]
Scan(d) == d.at \in 0 .. Len(text) /\ d.out \in Seq(Char)
ScanRead(f, q, s, n) ==
    f = [k \in 0 .. n |-> IF k = 0 THEN [at |-> 0, out |-> <<>>] ELSE Scanned(f[k - 1], q, s)]

\* The scan of text_replace_all goes forward and stays inside the text.
LEMMA ScanIsRead ==
  ASSUME NEW q, NEW s, NEW n \in Nat
  PROVE  \E f : ScanRead(f, q, s, n)
<1> DEFINE K == {m \in 0 .. n : \E f : ScanRead(f, q, s, m)}
           Start == [at |-> 0, out |-> <<>>]
<1>1. 0 \in K
  <2> DEFINE f == [k \in 0 .. 0 |-> Start]
  <2>1. ScanRead(f, q, s, 0) BY DEF ScanRead
  <2> QED BY <2>1
<1>2. ASSUME NEW k \in 1 .. n, k - 1 \in K PROVE k \in K
  <2>1. PICK f : ScanRead(f, q, s, k - 1) BY <1>2
  <2> DEFINE F == [i \in 0 .. k |-> IF i = k THEN Scanned(f[k - 1], q, s) ELSE f[i]]
  <2>2. \A i \in 0 .. k - 1 : f[i] = IF i = 0 THEN Start ELSE Scanned(f[i - 1], q, s)
    <3>1. f = [i \in 0 .. k - 1 |-> IF i = 0 THEN Start ELSE Scanned(f[i - 1], q, s)] BY <2>1 DEF ScanRead
    <3> QED BY <3>1, Zenon
  <2>3. \A i \in 0 .. k - 1 : F[i] = f[i] OBVIOUS
  <2>4. F[k] = Scanned(f[k - 1], q, s) OBVIOUS
  <2>5. F = [i \in 0 .. k |-> F[i]] OBVIOUS
  <2> HIDE DEF F, K
  <2>6. \A i \in 0 .. k : F[i] = IF i = 0 THEN Start ELSE Scanned(F[i - 1], q, s)
    <3>1. \A i \in 0 .. k - 1 : i # 0 => i - 1 \in 0 .. k - 1 OBVIOUS
    <3>2. \A i \in 0 .. k - 1 : F[i] = IF i = 0 THEN Start ELSE Scanned(F[i - 1], q, s) BY <2>2, <2>3, <3>1, Zenon
    <3>3. k - 1 \in 0 .. k - 1 /\ k # 0 OBVIOUS
    <3>4. F[k] = IF k = 0 THEN Start ELSE Scanned(F[k - 1], q, s) BY <2>3, <2>4, <3>3, Zenon
    <3>5. \A i \in 0 .. k : i \in 0 .. k - 1 \/ i = k OBVIOUS
    <3> QED BY <3>2, <3>4, <3>5, Zenon
  <2>7. ScanRead(F, q, s, k) BY <2>5, <2>6, Zenon DEF ScanRead
  <2> QED BY <2>7 DEF K
<1> HIDE DEF K
<1>3. \A k \in 0 .. n : k \in K BY <1>1, <1>2, Rises
<1>4. n \in K BY <1>3
<1> QED BY <1>4 DEF K

\* What text_replace_all builds is a text.
LEMMA AllReplacedIsText ==
  ASSUME TextSound, text \in Seq(Plain), NEW q \in Seq(Char), NEW s \in Seq(Char)
  PROVE  AllReplaced(q, s) \in Seq(Char)
<1> DEFINE N == Len(text)
<1>1. N \in Nat /\ \A i \in 1 .. N : text[i] \in Char
  <2>1. text \in Seq(Char) BY CharsAre
  <2> QED BY <2>1
<1>2. \E f : ScanRead(f, q, s, N) BY <1>1, ScanIsRead
<1>3. PICK f : ScanRead(f, q, s, N) /\ AllReplaced(q, s) = f[N].out BY <1>2, Zenon DEF AllReplaced, ScanRead, Scanned
<1>4. \A k \in 0 .. N : f[k] = IF k = 0 THEN [at |-> 0, out |-> <<>>] ELSE Scanned(f[k - 1], q, s)
  <2>1. f = [k \in 0 .. N |-> IF k = 0 THEN [at |-> 0, out |-> <<>>] ELSE Scanned(f[k - 1], q, s)]
    BY <1>3 DEF ScanRead
  <2> QED BY <2>1, Zenon
<1> DEFINE K == {k \in 0 .. N : Scan(f[k])}
<1>5. 0 \in K
  <2>1. f[0] = [at |-> 0, out |-> <<>>] BY <1>1, <1>4
  <2>2. Scan(f[0]) BY <1>1, <2>1 DEF Scan
  <2> QED BY <1>1, <2>2
<1>6. ASSUME NEW k \in 1 .. N, k - 1 \in K PROVE k \in K
  <2> DEFINE d == f[k - 1]
             e == f[k]
  <2>1. e = Scanned(d, q, s) BY <1>1, <1>4
  <2>2. Scan(d) BY <1>6
  <2> HIDE DEF d, e, K
  <2>3. Scan(e)
    <3>1. CASE d.at = Len(text) BY <2>1, <2>2, <3>1 DEF Scanned
    <3>2. CASE d.at # Len(text) /\ Matches(q, d.at)
      <4>1. e = [at |-> d.at + Len(q), out |-> d.out \o s] BY <2>1, <3>2 DEF Scanned
      <4>2. d.at + Len(q) <= Len(text) /\ Len(q) \in Nat BY <3>2 DEF Matches
      <4>3. d.out \o s \in Seq(Char) BY <2>2, ConcatProperties DEF Scan
      <4>4. d.at + Len(q) \in 0 .. Len(text) BY <1>1, <2>2, <4>2 DEF Scan
      <4> QED BY <4>1, <4>3, <4>4 DEF Scan
    <3>3. CASE d.at # Len(text) /\ ~Matches(q, d.at)
      <4>1. e = [at |-> d.at + 1, out |-> Append(d.out, text[d.at + 1])] BY <2>1, <3>3 DEF Scanned
      <4>2. d.at + 1 \in 1 .. Len(text) BY <1>1, <2>2, <3>3 DEF Scan
      <4>3. text[d.at + 1] \in Char BY <1>1, <4>2
      <4>4. Append(d.out, text[d.at + 1]) \in Seq(Char) BY <2>2, <4>3 DEF Scan
      <4> QED BY <1>1, <4>1, <4>2, <4>4 DEF Scan
    <3> QED BY <3>1, <3>2, <3>3
  <2>4. k \in 0 .. N BY <1>1
  <2> QED BY <2>3, <2>4, Zenon DEF K, e
<1> HIDE DEF K, N
<1>7. \A k \in 0 .. N : k \in K BY <1>1, <1>5, <1>6, Rises
<1>8. N \in K BY <1>1, <1>7
<1> QED BY <1>3, <1>8 DEF K, Scan

-----------------------------------------------------------------------------
(***************************************************************************)
(* The history: each change leads from the text of one revision to that of *)
(* the next, and its bytes say how to go either way.                       *)
(***************************************************************************)
Marks == [caret : Nat, anchor : Int, revision : Nat]
Changes == [at : Nat, removed : Nat, inserted : Nat, data : Nat, before : Marks, after : Marks]
EndOf(c) == c.data + c.removed + c.inserted

MarkFits(m, sn, serial) ==
    m.revision \in 0 .. serial /\ m.caret \in 0 .. Len(sn[m.revision]) /\ m.anchor \in -1 .. Len(sn[m.revision])
Kept(c, data, sn) ==
    /\ EndOf(c) <= Len(data) /\ c.at + c.removed <= Len(sn[c.before.revision])
    /\ SubSeq(data, c.data + 1, c.data + c.removed)
         = SubSeq(sn[c.before.revision], c.at + 1, c.at + c.removed)
    /\ sn[c.after.revision] = Spliced(sn[c.before.revision], c.at, c.removed,
                                      SubSeq(data, c.data + c.removed + 1, EndOf(c)))
Log(cs, data, sn, serial) ==
    /\ cs \in Seq(Changes) /\ data \in Seq(Plain)
    /\ \A i \in 1 .. Len(cs) :
         Kept(cs[i], data, sn) /\ MarkFits(cs[i].before, sn, serial) /\ MarkFits(cs[i].after, sn, serial)
    /\ \A i \in 1 .. Len(cs) : cs[i].data = IF i = 1 THEN 0 ELSE EndOf(cs[i - 1])
    /\ \A i, j \in 1 .. Len(cs) : i < j => EndOf(cs[i]) <= cs[j].data
    /\ \A i \in 2 .. Len(cs) : cs[i - 1].after.revision = cs[i].before.revision
    /\ Len(data) = IF Len(cs) = 0 THEN 0 ELSE EndOf(cs[Len(cs)])

\* Where the bytes of a change end.
LEMMA EndIs ==
  ASSUME NEW c \in Changes
  PROVE  /\ c.data \in Nat /\ c.removed \in Nat /\ c.inserted \in Nat /\ c.removed + c.inserted \in Nat
         /\ EndOf(c) = c.data + (c.removed + c.inserted) /\ EndOf(c) \in Nat /\ c.data <= EndOf(c)
<1>1. c.data \in Nat /\ c.removed \in Nat /\ c.inserted \in Nat BY DEF Changes
<1>2. EndOf(c) = c.data + c.removed + c.inserted BY DEF EndOf
<1> QED BY <1>1, <1>2

\* The bytes of d between m and n are those of e between o and p.
Alike(d, m, n, e, o, p) ==
    /\ m <= n /\ n <= Len(d) /\ o <= p /\ p <= Len(e) /\ n - m = p - o
    /\ \A i \in 1 .. n - m : d[m + i] = e[o + i]

SameSlice(d, m, n, e, o, p) == SubSeq(d, m + 1, n) = SubSeq(e, o + 1, p)

\* A part of the buffer, byte by byte.
LEMMA SliceIs ==
  ASSUME NEW d \in Seq(Plain), NEW e \in Seq(Plain), NEW m \in Nat, NEW n \in Nat, NEW o \in Nat, NEW p \in Nat,
         Alike(d, m, n, e, o, p)
  PROVE  SameSlice(d, m, n, e, o, p)
<1> DEFINE x == SubSeq(d, m + 1, n)
           y == SubSeq(e, o + 1, p)
<1>0. /\ m <= n /\ n <= Len(d) /\ o <= p /\ p <= Len(e) /\ n - m = p - o
      /\ \A i \in 1 .. n - m : d[m + i] = e[o + i] BY DEF Alike
<1>4. m <= n /\ n <= Len(d) /\ o <= p /\ p <= Len(e) BY <1>0
<1>1. x \in Seq(Plain) /\ Len(x) = n - m /\ \A i \in 1 .. n - m : x[i] = d[m + i] BY <1>4, Cut
<1>2. y \in Seq(Plain) /\ Len(y) = p - o /\ \A i \in 1 .. p - o : y[i] = e[o + i] BY <1>4, Cut
<1> HIDE DEF x, y
<1>3. x = y BY <1>0, <1>1, <1>2, SameText
<1> QED BY <1>3 DEF x, y, SameSlice

\* The same change, its bytes elsewhere.
Moved(d, dataD, c, data) ==
    /\ d.at = c.at /\ d.removed = c.removed /\ d.inserted = c.inserted
    /\ d.before = c.before /\ d.after = c.after
    /\ EndOf(d) <= Len(dataD)
    /\ \A i \in 1 .. c.removed + c.inserted : dataD[d.data + i] = data[c.data + i]

\* The bytes of a change stay what they were when others are cut off before them
\* or added behind them.
LEMMA KeptMoves ==
  ASSUME NEW c \in Changes, NEW d \in Changes, NEW data \in Seq(Plain), NEW dataD \in Seq(Plain),
         NEW sn, NEW sm, Kept(c, data, sn), Moved(d, dataD, c, data),
         sm[c.before.revision] = sn[c.before.revision], sm[c.after.revision] = sn[c.after.revision]
  PROVE  Kept(d, dataD, sm)
<1> DEFINE m == c.data
           o == d.data
           r == c.removed
           w == c.inserted
<1>0. m \in Nat /\ o \in Nat /\ r \in Nat /\ w \in Nat /\ c.at \in Nat /\ d.at = c.at BY DEF Changes, Moved
<1>1. EndOf(c) = m + r + w /\ EndOf(d) = o + r + w /\ d.removed = r BY DEF EndOf, Moved
<1>2. EndOf(c) <= Len(data) /\ EndOf(d) <= Len(dataD) BY DEF Kept, Moved
<1>3. \A i \in 1 .. r + w : dataD[o + i] = data[m + i] BY DEF Moved
<1>4. Len(data) \in Nat /\ Len(dataD) \in Nat OBVIOUS
<1> DEFINE t == sn[c.before.revision]
<1>5. SubSeq(data, m + 1, m + r) = SubSeq(t, c.at + 1, c.at + r) /\ c.at + r <= Len(t)
      /\ sn[c.after.revision] = Spliced(t, c.at, r, SubSeq(data, m + r + 1, EndOf(c))) BY DEF Kept
<1>6. sm[d.before.revision] = t /\ sm[d.after.revision] = sn[c.after.revision] BY DEF Moved
<1> HIDE DEF m, o, r, w, t
<1>7. SubSeq(dataD, o + 1, o + r) = SubSeq(data, m + 1, m + r)
  <2> DEFINE a == o + r
             b == m + r
  <2>1. a \in Nat /\ b \in Nat /\ o <= a /\ m <= b /\ a <= Len(dataD) /\ b <= Len(data) /\ a - o = b - m
    BY <1>0, <1>1, <1>2, <1>4
  <2>2. \A i \in 1 .. a - o : dataD[o + i] = data[m + i] BY <1>0, <1>3
  <2> HIDE DEF a, b
  <2>4. o \in Nat /\ m \in Nat BY <1>0
  <2>5. Alike(dataD, o, a, data, m, b) BY <2>1, <2>2 DEF Alike
  <2>3. SameSlice(dataD, o, a, data, m, b) BY <2>1, <2>4, <2>5, SliceIs
  <2> QED BY <2>3 DEF a, b, SameSlice
<1>8. SubSeq(dataD, o + r + 1, EndOf(d)) = SubSeq(data, m + r + 1, EndOf(c))
  <2> DEFINE a == o + r
             b == m + r
  <2>1. /\ a \in Nat /\ b \in Nat /\ EndOf(c) \in Nat /\ EndOf(d) \in Nat
        /\ a <= EndOf(d) /\ b <= EndOf(c) /\ EndOf(d) - a = EndOf(c) - b BY <1>0, <1>1
  <2>2. ASSUME NEW i \in 1 .. EndOf(d) - a PROVE dataD[a + i] = data[b + i]
    <3>1. r + i \in 1 .. r + w /\ o + (r + i) = a + i /\ m + (r + i) = b + i BY <1>0, <1>1
    <3>2. dataD[o + (r + i)] = data[m + (r + i)] BY <1>3, <3>1
    <3> QED BY <3>1, <3>2
  <2> HIDE DEF a, b
  <2>4. Alike(dataD, a, EndOf(d), data, b, EndOf(c)) BY <1>2, <2>1, <2>2 DEF Alike
  <2>3. SubSeq(dataD, a + 1, EndOf(d)) = SubSeq(data, b + 1, EndOf(c))
    <3> DEFINE z == EndOf(d)
               y == EndOf(c)
    <3>1. a \in Nat /\ b \in Nat /\ z \in Nat /\ y \in Nat /\ Alike(dataD, a, z, data, b, y) BY <2>1, <2>4
    <3> HIDE DEF z, y
    <3>2. SameSlice(dataD, a, z, data, b, y) BY <3>1, SliceIs
    <3> QED BY <3>2 DEF z, y, SameSlice
  <2> QED BY <2>3 DEF a, b
<1>9. d.data = o BY DEF o
<1> QED BY <1>0, <1>1, <1>2, <1>5, <1>6, <1>7, <1>8, <1>9 DEF Kept

\* A text that is given to a revision nobody has does not disturb the log.
LEMMA LogStays ==
  ASSUME NEW cs, NEW data, NEW sn, NEW sm, NEW serial \in Nat, NEW next \in Nat, serial <= next,
         Log(cs, data, sn, serial), \A r \in 0 .. serial : sm[r] = sn[r]
  PROVE  Log(cs, data, sm, next)
<1>1. ASSUME NEW i \in 1 .. Len(cs)
      PROVE  Kept(cs[i], data, sm) /\ MarkFits(cs[i].before, sm, next) /\ MarkFits(cs[i].after, sm, next)
  <2>1. Kept(cs[i], data, sn) /\ MarkFits(cs[i].before, sn, serial) /\ MarkFits(cs[i].after, sn, serial) BY DEF Log
  <2>2. cs[i].before.revision \in 0 .. serial /\ cs[i].after.revision \in 0 .. serial BY <2>1 DEF MarkFits
  <2>3. sm[cs[i].before.revision] = sn[cs[i].before.revision] /\ sm[cs[i].after.revision] = sn[cs[i].after.revision]
    BY <2>2
  <2>4. Kept(cs[i], data, sm) BY <2>1, <2>3 DEF Kept
  <2>5. cs[i].before.revision \in 0 .. next /\ cs[i].after.revision \in 0 .. next BY <2>2
  <2> QED BY <2>1, <2>3, <2>4, <2>5 DEF MarkFits
<1> QED BY <1>1 DEF Log

\* history_push without the redo branch.
LEMMA LogBranches ==
  ASSUME NEW cs, NEW data, NEW sn, NEW serial \in Nat, Log(cs, data, sn, serial),
         NEW k \in 0 .. Len(cs), k < Len(cs)
  PROVE  /\ Log(SubSeq(cs, 1, k), SubSeq(data, 1, cs[k + 1].data), sn, serial)
         /\ Len(SubSeq(cs, 1, k)) = k
         /\ \A i \in 1 .. k : SubSeq(cs, 1, k)[i] = cs[i]
<1> DEFINE ds == SubSeq(cs, 1, k)
           cut == cs[k + 1].data
           dataD == SubSeq(data, 1, cut)
<1>0. cs \in Seq(Changes) /\ data \in Seq(Plain) /\ Len(cs) \in Nat /\ Len(data) \in Nat BY DEF Log
<1>1. k \in Nat /\ k + 1 \in 1 .. Len(cs) BY <1>0
<1>2. ds \in Seq(Changes) /\ Len(ds) = k /\ \A i \in 1 .. k : ds[i] = cs[i]
  <2>1. 0 \in Nat /\ 0 <= k /\ k <= Len(cs) /\ k - 0 = k /\ 0 + 1 = 1 BY <1>0
  <2>2. \A i \in 1 .. k : 0 + i = i OBVIOUS
  <2> QED BY <1>0, <1>1, <2>1, <2>2, Cut
<1>3. cs[k + 1] \in Changes BY <1>0, <1>1
<1>4. cut \in Nat /\ EndOf(cs[k + 1]) <= Len(data) /\ cut <= EndOf(cs[k + 1])
  <2>1. Kept(cs[k + 1], data, sn) BY <1>1 DEF Log
  <2>2. EndOf(cs[k + 1]) <= Len(data) BY <2>1 DEF Kept
  <2> QED BY <1>3, <2>2, EndIs
<1>5. dataD \in Seq(Plain) /\ Len(dataD) = cut /\ \A i \in 1 .. cut : dataD[i] = data[i]
  <2>0. EndOf(cs[k + 1]) \in Nat BY <1>3, EndIs
  <2>1. 0 \in Nat /\ 0 <= cut /\ cut <= Len(data) /\ cut - 0 = cut /\ 0 + 1 = 1 BY <1>0, <1>4, <2>0
  <2>2. \A i \in 1 .. cut : 0 + i = i BY <1>4
  <2> HIDE DEF cut
  <2> QED BY <1>0, <1>4, <2>1, <2>2, Cut
<1>6. cut = IF k = 0 THEN 0 ELSE EndOf(cs[k])
  <2>1. cut = IF k + 1 = 1 THEN 0 ELSE EndOf(cs[(k + 1) - 1]) BY <1>1 DEF Log
  <2>2. (k + 1 = 1) = (k = 0) /\ (k + 1) - 1 = k BY <1>1
  <2> QED BY <2>1, <2>2
<1> HIDE DEF ds, cut, dataD
<1>7. ASSUME NEW i \in 1 .. k
      PROVE  Kept(ds[i], dataD, sn) /\ MarkFits(ds[i].before, sn, serial) /\ MarkFits(ds[i].after, sn, serial)
  <2>1. i \in 1 .. Len(cs) /\ i < k + 1 /\ ds[i] = cs[i] BY <1>0, <1>2
  <2>2. Kept(cs[i], data, sn) /\ MarkFits(cs[i].before, sn, serial) /\ MarkFits(cs[i].after, sn, serial)
    BY <2>1 DEF Log
  <2>3. EndOf(cs[i]) <= cut BY <1>1, <2>1 DEF Log, cut
  <2>4. cs[i] \in Changes BY <1>0, <2>1
  <2>5. Moved(cs[i], dataD, cs[i], data)
    <3> DEFINE l == cs[i].removed + cs[i].inserted
               b == cs[i].data
    <3>2. cs[i].data \in Nat /\ cs[i].removed \in Nat /\ cs[i].inserted \in Nat BY <2>4 DEF Changes
    <3>3. b \in Nat /\ l \in Nat /\ b + l <= cut BY <2>3, <3>2 DEF EndOf
    <3> HIDE DEF b, l
    <3>1. \A j \in 1 .. l : b + j \in 1 .. cut BY <1>4, <3>3
    <3>4. \A j \in 1 .. l : dataD[b + j] = data[b + j] BY <1>5, <3>1
    <3> QED BY <1>5, <2>3, <3>4 DEF Moved, b, l
  <2>6. Kept(cs[i], dataD, sn) BY <1>0, <1>5, <2>2, <2>4, <2>5, KeptMoves
  <2> QED BY <2>1, <2>2, <2>6
<1>8. \A i \in 1 .. k : ds[i].data = IF i = 1 THEN 0 ELSE EndOf(ds[i - 1])
  <2> TAKE i \in 1 .. k
  <2>1. i \in 1 .. Len(cs) /\ ds[i] = cs[i] BY <1>0, <1>2
  <2>2. i # 1 => ds[i - 1] = cs[i - 1] BY <1>2
  <2>3. cs[i].data = IF i = 1 THEN 0 ELSE EndOf(cs[i - 1]) BY <2>1 DEF Log
  <2> QED BY <2>1, <2>2, <2>3
<1>9. \A i, j \in 1 .. k : i < j => EndOf(ds[i]) <= ds[j].data
  <2>1. \A i \in 1 .. k : i \in 1 .. Len(cs) /\ ds[i] = cs[i] BY <1>0, <1>2
  <2> QED BY <2>1 DEF Log
<1>10. \A i \in 2 .. k : ds[i - 1].after.revision = ds[i].before.revision
  <2>1. \A i \in 1 .. k : ds[i] = cs[i] BY <1>2
  <2>2. \A i \in 2 .. k : i \in 2 .. Len(cs) /\ i \in 1 .. k /\ i - 1 \in 1 .. k BY <1>0
  <2> QED BY <2>1, <2>2 DEF Log
<1>11. Len(dataD) = IF k = 0 THEN 0 ELSE EndOf(ds[k])
  <2>1. k # 0 => ds[k] = cs[k] BY <1>1, <1>2
  <2> QED BY <1>5, <1>6, <2>1
<1>12. Log(ds, dataD, sn, serial) BY <1>2, <1>5, <1>7, <1>8, <1>9, <1>10, <1>11 DEF Log
<1> QED BY <1>2, <1>12 DEF ds, cut, dataD

\* history_push: the oldest changes go, the bytes of the others move down.
Shifted(cs, k, cut) == [i \in 1 .. Len(cs) - k |-> [cs[i + k] EXCEPT !.data = @ - cut]]
Before(cs, k) == IF k = 0 THEN 0 ELSE EndOf(cs[k])

ShiftedTo(ds, cs, data, sn, serial, k, cut) ==
    /\ Log(ds, SubSeq(data, cut + 1, Len(data)), sn, serial)
    /\ Len(ds) = Len(cs) - k
    /\ \A i \in 1 .. Len(cs) - k : ds[i].after = cs[i + k].after
    /\ cut \in 0 .. Len(data)

\* history_push evicts: the oldest changes go, and the others move with their bytes.
LEMMA LogShifts ==
  ASSUME NEW cs, NEW data, NEW sn, NEW serial \in Nat, Log(cs, data, sn, serial),
         NEW k \in 0 .. Len(cs), NEW cut, cut = Before(cs, k)
  PROVE  ShiftedTo(Shifted(cs, k, cut), cs, data, sn, serial, k, cut)
<1> DEFINE ds == Shifted(cs, k, cut)
           n == Len(cs) - k
           dataD == SubSeq(data, cut + 1, Len(data))
<1>0. cs \in Seq(Changes) /\ data \in Seq(Plain) /\ Len(cs) \in Nat /\ Len(data) \in Nat BY DEF Log
<1>1. k \in Nat /\ n \in Nat /\ \A i \in 1 .. n : i + k \in 1 .. Len(cs) BY <1>0
<1>2. cut \in Nat /\ cut <= Len(data)
  <2>1. CASE k = 0 BY <1>0, <2>1 DEF Before
  <2>2. CASE k # 0
    <3>1. k \in 1 .. Len(cs) BY <1>0, <2>2
    <3>2. cs[k] \in Changes BY <1>0, <3>1
    <3>3. Kept(cs[k], data, sn) BY <3>1 DEF Log
    <3>4. EndOf(cs[k]) <= Len(data) BY <3>3 DEF Kept
    <3>5. EndOf(cs[k]) \in Nat BY <3>2, EndIs
    <3> QED BY <2>2, <3>4, <3>5 DEF Before
  <2> QED BY <2>1, <2>2
<1>3. ASSUME NEW j \in 1 .. Len(cs)
      PROVE  /\ cs[j] \in Changes /\ EndOf(cs[j]) = cs[j].data + (cs[j].removed + cs[j].inserted)
             /\ EndOf(cs[j]) \in Nat /\ cs[j].data \in Nat
  <2>1. cs[j] \in Changes BY <1>0
  <2> QED BY <2>1, EndIs
<1>4. ASSUME NEW j \in 1 .. Len(cs), j > k PROVE cut <= cs[j].data
  <2>1. CASE k = 0 BY <1>3, <2>1 DEF Before, Changes
  <2>2. CASE k # 0
    <3>1. k \in 1 .. Len(cs) /\ k < j BY <1>0, <1>4, <2>2
    <3> QED BY <2>2, <3>1 DEF Log, Before
  <2> QED BY <2>1, <2>2
<1>5. dataD \in Seq(Plain) /\ Len(dataD) = Len(data) - cut /\ \A i \in 1 .. Len(data) - cut : dataD[i] = data[cut + i]
  <2>1. Len(data) <= Len(data) BY <1>0
  <2> QED BY <1>0, <1>2, <2>1, Cut
<1>6. ds = [i \in 1 .. n |-> [cs[i + k] EXCEPT !.data = @ - cut]] BY Zenon DEF Shifted
<1> HIDE DEF ds, n, dataD
<1>7. ASSUME NEW i \in 1 .. n
      PROVE  /\ ds[i] \in Changes /\ ds[i].data = cs[i + k].data - cut
             /\ ds[i].at = cs[i + k].at /\ ds[i].removed = cs[i + k].removed
             /\ ds[i].inserted = cs[i + k].inserted
             /\ ds[i].before = cs[i + k].before /\ ds[i].after = cs[i + k].after
             /\ EndOf(ds[i]) = EndOf(cs[i + k]) - cut
  <2> DEFINE c == cs[i + k]
             d == ds[i]
  <2>1. i + k \in 1 .. Len(cs) /\ i + k > k BY <1>1
  <2>2. c \in Changes /\ cut <= c.data BY <1>3, <1>4, <2>1
  <2>3. d = [c EXCEPT !.data = c.data - cut] BY <1>6, Zenon
  <2> HIDE DEF c, d
  <2>4. c.data - cut \in Nat BY <1>2, <2>2 DEF Changes
  <2>5. d \in Changes /\ d.data = c.data - cut /\ d.at = c.at /\ d.removed = c.removed
        /\ d.inserted = c.inserted /\ d.before = c.before /\ d.after = c.after BY <2>2, <2>3, <2>4 DEF Changes
  <2>6. EndOf(d) = EndOf(c) - cut BY <1>2, <2>2, <2>5 DEF EndOf, Changes
  <2> QED BY <2>5, <2>6 DEF c, d
<1>8. ds \in Seq(Changes) /\ Len(ds) = n
  <2>1. ds \in [1 .. n -> Changes] BY <1>6, <1>7
  <2> QED BY <1>1, <2>1
<1>9. ASSUME NEW i \in 1 .. n
      PROVE  Kept(ds[i], dataD, sn) /\ MarkFits(ds[i].before, sn, serial) /\ MarkFits(ds[i].after, sn, serial)
  <2> DEFINE c == cs[i + k]
             d == ds[i]
  <2>1. i + k \in 1 .. Len(cs) /\ i + k > k BY <1>1
  <2>2. Kept(c, data, sn) /\ MarkFits(c.before, sn, serial) /\ MarkFits(c.after, sn, serial) BY <2>1 DEF Log
  <2>3. c \in Changes /\ cut <= c.data /\ EndOf(c) = c.data + (c.removed + c.inserted) BY <1>3, <1>4, <2>1
  <2>4. /\ d \in Changes /\ d.data = c.data - cut /\ d.at = c.at /\ d.removed = c.removed
        /\ d.inserted = c.inserted /\ d.before = c.before /\ d.after = c.after
        /\ EndOf(d) = EndOf(c) - cut BY <1>7
  <2> HIDE DEF c, d
  <2>5. EndOf(c) <= Len(data) BY <2>2 DEF Kept
  <2>6. Moved(d, dataD, c, data)
    <3>3. EndOf(c) \in Nat /\ c.data \in Nat BY <2>3, EndIs
    <3>1. EndOf(d) <= Len(dataD)
      <4>1. EndOf(d) = EndOf(c) - cut /\ Len(dataD) = Len(data) - cut BY <1>5, <2>4
      <4> QED BY <1>0, <1>2, <2>5, <3>3, <4>1
    <3>2. ASSUME NEW j \in 1 .. c.removed + c.inserted PROVE dataD[d.data + j] = data[c.data + j]
      <4> DEFINE w == c.removed + c.inserted
                 a == c.data
                 b == d.data
                 l == Len(data)
      <4>3. a \in Nat /\ w \in Nat /\ l \in Nat /\ b = a - cut /\ cut <= a /\ j \in 1 .. w BY <1>0, <2>3, <2>4, EndIs
      <4>4. a + w <= l BY <2>3, <2>5
      <4> HIDE DEF w, a, b, l
      <4>6. cut \in Nat BY <1>2
      <4>7. cut + (b + j) = a + j BY <4>3, <4>6
      <4>8. b + j \in 1 .. l - cut BY <4>3, <4>4, <4>6, SMTT(40)
      <4>5. b + j \in 1 .. l - cut /\ cut + (b + j) = a + j BY <4>7, <4>8
      <4>1. d.data + j \in 1 .. Len(data) - cut /\ cut + (d.data + j) = c.data + j BY <4>5 DEF a, b, l
      <4>2. dataD[d.data + j] = data[cut + (d.data + j)] BY <1>5, <4>1
      <4> QED BY <4>1, <4>2
    <3> QED BY <2>4, <3>1, <3>2 DEF Moved
  <2>7. Kept(d, dataD, sn) BY <1>0, <1>5, <2>2, <2>3, <2>4, <2>6, KeptMoves
  <2> QED BY <2>2, <2>4, <2>7 DEF d
<1>10. \A i \in 1 .. n : ds[i].data = IF i = 1 THEN 0 ELSE EndOf(ds[i - 1])
  <2> TAKE i \in 1 .. n
  <2>1. i + k \in 1 .. Len(cs) BY <1>1
  <2>2. ds[i].data = cs[i + k].data - cut BY <1>7
  <2>3. cs[i + k].data = IF i + k = 1 THEN 0 ELSE EndOf(cs[(i + k) - 1]) BY <2>1 DEF Log
  <2>4. CASE i = 1
    <3>1. (i + k) - 1 = k /\ (i + k = 1) = (k = 0) BY <1>1, <2>4
    <3>2. cs[i + k].data = cut BY <2>3, <3>1 DEF Before
    <3> QED BY <1>2, <2>2, <2>4, <3>2
  <2>5. CASE i # 1
    <3>1. i - 1 \in 1 .. n /\ (i - 1) + k = (i + k) - 1 /\ i + k # 1 BY <1>1, <2>5
    <3>2. EndOf(ds[i - 1]) = EndOf(cs[(i - 1) + k]) - cut BY <1>7, <3>1
    <3> QED BY <2>2, <2>3, <2>5, <3>1, <3>2
  <2> QED BY <2>4, <2>5
<1>11. \A i, j \in 1 .. n : i < j => EndOf(ds[i]) <= ds[j].data
  <2> TAKE i, j \in 1 .. n
  <2> HAVE i < j
  <2>1. i + k \in 1 .. Len(cs) /\ j + k \in 1 .. Len(cs) /\ i + k < j + k BY <1>1
  <2>2. EndOf(cs[i + k]) <= cs[j + k].data BY <2>1 DEF Log
  <2>3. EndOf(ds[i]) = EndOf(cs[i + k]) - cut /\ ds[j].data = cs[j + k].data - cut BY <1>7
  <2>4. EndOf(cs[i + k]) \in Nat /\ cs[j + k].data \in Nat BY <1>3, <2>1
  <2> QED BY <1>2, <2>2, <2>3, <2>4
<1>12. \A i \in 2 .. n : ds[i - 1].after.revision = ds[i].before.revision
  <2> TAKE i \in 2 .. n
  <2>1. i \in 1 .. n /\ i - 1 \in 1 .. n /\ i + k \in 2 .. Len(cs) /\ (i - 1) + k = (i + k) - 1 BY <1>0, <1>1
  <2>2. cs[(i + k) - 1].after.revision = cs[i + k].before.revision BY <2>1 DEF Log
  <2>3. ds[i].before = cs[i + k].before /\ ds[i - 1].after = cs[(i - 1) + k].after BY <1>7, <2>1
  <2> QED BY <2>1, <2>2, <2>3
<1>13. Len(dataD) = IF n = 0 THEN 0 ELSE EndOf(ds[n])
  <2>1. Len(data) = IF Len(cs) = 0 THEN 0 ELSE EndOf(cs[Len(cs)]) BY DEF Log
  <2>2. CASE n = 0
    <3>1. k = Len(cs) BY <1>0, <1>1, <2>2 DEF n
    <3>2. Len(data) = cut BY <2>1, <3>1 DEF Before
    <3> QED BY <1>2, <1>5, <2>2, <3>2
  <2>3. CASE n # 0
    <3>1. n \in 1 .. n /\ n + k = Len(cs) /\ Len(cs) # 0 BY <1>0, <1>1, <2>3 DEF n
    <3>2. EndOf(ds[n]) = EndOf(cs[n + k]) - cut BY <1>7, <3>1
    <3> QED BY <1>5, <2>1, <2>3, <3>1, <3>2
  <2> QED BY <2>2, <2>3
<1>14. Log(ds, dataD, sn, serial) BY <1>5, <1>8, <1>9, <1>10, <1>11, <1>12, <1>13 DEF Log
<1>15. ShiftedTo(ds, cs, data, sn, serial, k, cut) BY <1>0, <1>2, <1>7, <1>8, <1>14 DEF dataD, n, ShiftedTo
<1> QED BY <1>15 DEF ds

\* What the first changes hold ends where the next one starts.
BytesRead(f, cs) ==
    f = [k \in 0 .. Len(cs) |-> IF k = 0 THEN 0 ELSE f[k - 1] + cs[k].removed + cs[k].inserted]

\* Bytes adds up what the changes hold, and that is where the next one starts.
LEMMA BytesAre ==
  ASSUME NEW cs, NEW data, NEW sn, NEW serial, Log(cs, data, sn, serial)
  PROVE  \A k \in 0 .. Len(cs) : Bytes(cs)[k] = Before(cs, k)
<1> DEFINE N == Len(cs)
           g == [k \in 0 .. N |-> Before(cs, k)]
           f == Bytes(cs)
<1>0. N \in Nat /\ cs \in Seq(Changes) BY DEF Log
<1>1. ASSUME NEW k \in 1 .. N
      PROVE  /\ {cs[k].removed, cs[k].inserted, Before(cs, k - 1)} \subseteq Nat
             /\ Before(cs, k) = Before(cs, k - 1) + cs[k].removed + cs[k].inserted
  <2>1. cs[k] \in Changes BY <1>0
  <2>2. cs[k].data = IF k = 1 THEN 0 ELSE EndOf(cs[k - 1]) BY DEF Log
  <2>3. cs[k].data = Before(cs, k - 1) BY <2>2 DEF Before
  <2>4. Before(cs, k) = cs[k].data + cs[k].removed + cs[k].inserted BY DEF Before, EndOf
  <2>5. cs[k].data \in Nat /\ cs[k].removed \in Nat /\ cs[k].inserted \in Nat BY <2>1 DEF Changes
  <2> QED BY <2>3, <2>4, <2>5
<1>2. BytesRead(g, cs)
  <2>1. ASSUME NEW k \in 0 .. N
        PROVE  g[k] = IF k = 0 THEN 0 ELSE g[k - 1] + cs[k].removed + cs[k].inserted
    <3>1. CASE k = 0 BY <1>0, <3>1 DEF Before
    <3>2. CASE k # 0
      <4>1. k \in 1 .. N /\ k - 1 \in 0 .. N BY <1>0, <3>2
      <4>2. g[k] = Before(cs, k) /\ g[k - 1] = Before(cs, k - 1) BY <4>1
      <4> QED BY <1>1, <3>2, <4>1, <4>2
    <3> QED BY <3>1, <3>2
  <2>2. g = [k \in 0 .. N |-> g[k]] OBVIOUS
  <2> HIDE DEF g
  <2> QED BY <2>1, <2>2, Zenon DEF BytesRead
<1>3. BytesRead(f, cs) BY <1>2, Zenon DEF Bytes, BytesRead
<1>4. \A k \in 0 .. N : f[k] = IF k = 0 THEN 0 ELSE f[k - 1] + cs[k].removed + cs[k].inserted
  <2> HIDE DEF f
  <2>1. f = [k \in 0 .. N |-> IF k = 0 THEN 0 ELSE f[k - 1] + cs[k].removed + cs[k].inserted] BY <1>3 DEF BytesRead
  <2> QED BY <2>1, Zenon
<1> HIDE DEF f
<1> DEFINE K == {k \in 0 .. N : f[k] = Before(cs, k)}
<1>5. 0 \in K
  <2>1. 0 \in 0 .. N BY <1>0
  <2>2. f[0] = 0 BY <1>4, <2>1
  <2>3. Before(cs, 0) = 0 BY DEF Before
  <2> QED BY <2>1, <2>2, <2>3, Zenon
<1>6. ASSUME NEW k \in 1 .. N, k - 1 \in K PROVE k \in K
  <2>1. k \in 0 .. N /\ k # 0 BY <1>0
  <2>2. f[k] = f[k - 1] + cs[k].removed + cs[k].inserted BY <1>4, <2>1, Zenon
  <2>3. f[k - 1] = Before(cs, k - 1) BY <1>6, Zenon
  <2>4. f[k] = Before(cs, k) BY <1>1, <2>2, <2>3
  <2> QED BY <2>1, <2>4, Zenon
<1> HIDE DEF K, N
<1>7. \A k \in 0 .. N : k \in K BY <1>0, <1>5, <1>6, Rises
<1> QED BY <1>7, Zenon DEF K, f, N

\* A number that fits has a least one.
LEMMA LeastIn ==
  ASSUME NEW S, S \subseteq Nat, S # {}
  PROVE  \E k \in S : \A j \in Nat : j < k => j \notin S
<1> DEFINE R == {p \in Nat \X Nat : p[1] < p[2]}
<1>1. IsWellFoundedOn(R, Nat) BY NatLessThanWellFounded DEF OpToRel
<1>2. \A x, y \in Nat : <<y, x>> \in R <=> y < x OBVIOUS
<1> HIDE DEF R
<1>3. PICK k \in S : \A y \in S : ~(<<y, k>> \in R) BY <1>1, WFMin
<1> QED BY <1>2, <1>3

\* history_push evicts until the change fits, and it does once all are gone.
LEMMA EvictsEnough ==
  ASSUME NEW u, NEW sn, NEW serial, Log(u.changes, u.data, sn, serial),
         ED_HISTORY_STEPS \in Nat \ {0}, ED_HISTORY_BYTES \in Nat,
         NEW bytes \in Nat, bytes <= ED_HISTORY_BYTES, NEW k, k = ToEvict(u, bytes)
  PROVE  /\ k \in 0 .. Len(u.changes) /\ Bytes(u.changes)[k] = Before(u.changes, k)
         /\ Len(u.changes) - k < ED_HISTORY_STEPS
         /\ Len(u.data) - Before(u.changes, k) + bytes <= ED_HISTORY_BYTES
<1> DEFINE count == Len(u.changes)
           Enough(j) == /\ count - j < ED_HISTORY_STEPS
                      /\ Len(u.data) - Bytes(u.changes)[j] + bytes <= ED_HISTORY_BYTES
           S == {j \in 0 .. count : j = count \/ Enough(j)}
<1>0. count \in Nat /\ Len(u.data) \in Nat BY DEF Log
<1>1. \A j \in 0 .. count : Bytes(u.changes)[j] = Before(u.changes, j) BY BytesAre
<1>2. S \subseteq Nat /\ S # {} BY <1>0
<1>3. \E j \in 0 .. count : (j = count \/ Enough(j)) /\ \A i \in 0 .. j - 1 : ~Enough(i)
  <2>1. PICK j \in S : \A i \in Nat : i < j => i \notin S
    <3> HIDE DEF S
    <3> QED BY <1>2, LeastIn
  <2> HIDE DEF Enough
  <2>2. j \in 0 .. count /\ (j = count \/ Enough(j)) OBVIOUS
  <2>3. ASSUME NEW i \in 0 .. j - 1 PROVE ~Enough(i)
    <3>1. i \in Nat /\ i < j /\ i \in 0 .. count BY <1>0, <2>2
    <3> QED BY <2>1, <3>1
  <2> QED BY <2>2, <2>3
<1>4. k \in 0 .. count /\ (k = count \/ Enough(k)) BY <1>3, Zenon DEF ToEvict
<1>5. CASE k = count
  <2>1. Len(u.data) = Before(u.changes, count) BY DEF Log, Before
  <2>2. Before(u.changes, k) = Len(u.data) BY <1>5, <2>1
  <2> DEFINE b == Before(u.changes, k)
             l == Len(u.data)
  <2>3. l \in Nat /\ b = l BY <1>0, <2>2
  <2>4. Bytes(u.changes)[k] = b BY <1>1, <1>4
  <2> HIDE DEF count, b, l, S, Enough
  <2>5. l - b + bytes <= ED_HISTORY_BYTES BY <2>3
  <2>6. count - k < ED_HISTORY_STEPS /\ k \in 0 .. count BY <1>0, <1>4, <1>5
  <2> QED BY <2>4, <2>5, <2>6 DEF count, b, l
<1>6. CASE Enough(k) BY <1>1, <1>4, <1>6
<1> QED BY <1>4, <1>5, <1>6

\* history_push: one change more.
Joins(c, gone, s, data, sn) ==
    /\ c.data = Len(data) /\ c.removed = Len(gone) /\ c.inserted = Len(s)
    /\ c.at + c.removed <= Len(sn[c.before.revision])
    /\ gone = SubSeq(sn[c.before.revision], c.at + 1, c.at + c.removed)
    /\ sn[c.after.revision] = Spliced(sn[c.before.revision], c.at, c.removed, s)

\* history_push appends: the new change leads from the text there was to the new one.
LEMMA LogGrows ==
  ASSUME NEW cs, NEW data, NEW sn, NEW serial \in Nat, Log(cs, data, sn, serial),
         NEW c \in Changes, NEW gone \in Seq(Plain), NEW s \in Seq(Plain), Joins(c, gone, s, data, sn),
         MarkFits(c.before, sn, serial), MarkFits(c.after, sn, serial),
         Len(cs) # 0 => cs[Len(cs)].after.revision = c.before.revision
  PROVE  Log(Append(cs, c), data \o gone \o s, sn, serial)
<1> DEFINE n == Len(cs)
           ds == Append(cs, c)
           dataD == data \o gone \o s
           e == Len(data)
           r == Len(gone)
           w == Len(s)
<1>0. cs \in Seq(Changes) /\ data \in Seq(Plain) /\ n \in Nat /\ e \in Nat /\ r \in Nat /\ w \in Nat BY DEF Log
<1>1. /\ ds \in Seq(Changes) /\ Len(ds) = n + 1 /\ ds[n + 1] = c
      /\ \A i \in 1 .. n : ds[i] = cs[i] BY <1>0
<1>2. /\ dataD \in Seq(Plain) /\ Len(dataD) = e + r + w
      /\ \A i \in 1 .. e : dataD[i] = data[i]
      /\ \A i \in 1 .. r : dataD[e + i] = gone[i]
      /\ \A i \in 1 .. w : dataD[e + r + i] = s[i]
  <2> DEFINE h == data \o gone
  <2>1. h \in Seq(Plain) /\ Len(h) = e + r /\ \A i \in 1 .. e + r : h[i] = IF i <= e THEN data[i] ELSE gone[i - e]
    BY <1>0, ConcatProperties
  <2>2. dataD = h \o s OBVIOUS
  <2> HIDE DEF h, dataD
  <2>3. dataD \in Seq(Plain) /\ Len(dataD) = Len(h) + w
        /\ \A i \in 1 .. Len(h) + w : dataD[i] = IF i <= Len(h) THEN h[i] ELSE s[i - Len(h)]
    BY <2>1, <2>2, ConcatProperties
  <2> HIDE DEF e, r, w
  <2>7. e \in Nat /\ r \in Nat /\ w \in Nat /\ Len(h) = e + r BY <1>0, <2>1
  <2>4. ASSUME NEW i \in 1 .. e PROVE dataD[i] = data[i]
    <3>1. i \in 1 .. Len(h) + w /\ i <= Len(h) /\ i \in 1 .. e + r BY <2>7
    <3> QED BY <2>1, <2>3, <3>1
  <2>5. ASSUME NEW i \in 1 .. r PROVE dataD[e + i] = gone[i]
    <3>1. /\ e + i \in 1 .. Len(h) + w /\ e + i <= Len(h) /\ e + i \in 1 .. e + r
          /\ ~(e + i <= e) /\ (e + i) - e = i BY <2>7
    <3>2. dataD[e + i] = h[e + i] BY <2>3, <3>1
    <3> QED BY <2>1, <3>1, <3>2
  <2>6. ASSUME NEW i \in 1 .. w PROVE dataD[e + r + i] = s[i]
    <3>1. e + r + i \in 1 .. Len(h) + w /\ ~(e + r + i <= Len(h)) /\ (e + r + i) - Len(h) = i BY <2>7
    <3> QED BY <2>3, <3>1
  <2> QED BY <2>1, <2>3, <2>4, <2>5, <2>6
<1>3. EndOf(c) = e + r + w /\ c.data = e /\ c.removed = r /\ c.inserted = w BY DEF EndOf, Joins
<1>4. ASSUME NEW i \in 1 .. n PROVE EndOf(cs[i]) <= e /\ cs[i] \in Changes BY <1>0 DEF Log, Kept
<1> HIDE DEF n, ds, dataD, e, r, w
<1>5. ASSUME NEW i \in 1 .. n + 1
      PROVE  Kept(ds[i], dataD, sn) /\ MarkFits(ds[i].before, sn, serial) /\ MarkFits(ds[i].after, sn, serial)
  <2>1. CASE i = n + 1
    <3> DEFINE t == sn[c.before.revision]
    <3>1. /\ c.at + r <= Len(t) /\ gone = SubSeq(t, c.at + 1, c.at + r)
          /\ sn[c.after.revision] = Spliced(t, c.at, r, s) BY <1>3 DEF Joins
    <3>2. SubSeq(dataD, e + 1, e + r) = gone
      <4> DEFINE x == SubSeq(dataD, e + 1, e + r)
                 a == e + r
      <4>1. a \in Nat /\ e <= a /\ a <= Len(dataD) /\ a - e = r BY <1>0, <1>2
      <4>2. x = SubSeq(dataD, e + 1, a) OBVIOUS
      <4> HIDE DEF a, x
      <4>3. x \in Seq(Plain) /\ Len(x) = r /\ \A j \in 1 .. r : x[j] = dataD[e + j]
        <5>1. dataD \in Seq(Plain) /\ e \in Nat BY <1>0, <1>2
        <5> QED BY <4>1, <4>2, <5>1, Cut
      <4>4. x = gone BY <1>2, <4>3, SameText DEF r
      <4> QED BY <4>4 DEF x
    <3>3. SubSeq(dataD, e + r + 1, EndOf(c)) = s
      <4> DEFINE x == SubSeq(dataD, e + r + 1, EndOf(c))
                 a == e + r
      <4>1. a \in Nat /\ EndOf(c) \in Nat /\ a <= EndOf(c) /\ EndOf(c) <= Len(dataD) /\ EndOf(c) - a = w
        BY <1>0, <1>2, <1>3
      <4>2. x = SubSeq(dataD, a + 1, EndOf(c)) OBVIOUS
      <4>3. \A j \in 1 .. w : dataD[a + j] = s[j] BY <1>2
      <4> HIDE DEF a, x
      <4>6. dataD \in Seq(Plain) BY <1>2
      <4> DEFINE z == EndOf(c)
      <4>7. a \in Nat /\ z \in Nat /\ a <= z /\ z <= Len(dataD) /\ z - a = w /\ x = SubSeq(dataD, a + 1, z)
        BY <4>1, <4>2
      <4> HIDE DEF z
      <4>4. x \in Seq(Plain) /\ Len(x) = w /\ \A j \in 1 .. w : x[j] = dataD[a + j] BY <4>6, <4>7, Cut
      <4>5. x = s BY <4>3, <4>4, SameText DEF w
      <4> QED BY <4>5 DEF x
    <3>4. EndOf(c) <= Len(dataD) BY <1>0, <1>2, <1>3
    <3>5. Kept(c, dataD, sn)
      <4>1. c.at + c.removed <= Len(t) BY <1>3, <3>1
      <4> QED BY <1>3, <3>1, <3>2, <3>3, <3>4, <4>1, Zenon DEF Kept
    <3> QED BY <1>1, <2>1, <3>5
  <2>2. CASE i # n + 1
    <3>1. i \in 1 .. n /\ ds[i] = cs[i] BY <1>0, <1>1, <2>2
    <3>2. Kept(cs[i], data, sn) /\ MarkFits(cs[i].before, sn, serial) /\ MarkFits(cs[i].after, sn, serial)
      BY <3>1 DEF Log, n
    <3>3. cs[i] \in Changes /\ EndOf(cs[i]) <= e BY <1>4, <3>1
    <3>4. Moved(cs[i], dataD, cs[i], data)
      <4>1. ASSUME NEW j \in 1 .. cs[i].removed + cs[i].inserted PROVE dataD[cs[i].data + j] = data[cs[i].data + j]
        <5> DEFINE b == cs[i].data
                   l == cs[i].removed + cs[i].inserted
                   z == EndOf(cs[i])
        <5>2. b \in Nat /\ l \in Nat /\ z = b + l /\ z <= e /\ e \in Nat BY <1>0, <3>3, EndIs
        <5>3. j \in 1 .. l OBVIOUS
        <5> HIDE DEF b, l, z
        <5>4. b + j \in 1 .. e BY <5>2, <5>3
        <5>1. cs[i].data + j \in 1 .. e BY <5>4 DEF b
        <5> QED BY <1>2, <5>1
      <4>2. EndOf(cs[i]) \in Nat BY <3>3, EndIs
      <4>3. EndOf(cs[i]) <= Len(dataD) BY <1>0, <1>2, <3>3, <4>2
      <4> QED BY <4>1, <4>3 DEF Moved
    <3>5. Kept(cs[i], dataD, sn) BY <1>0, <1>2, <3>2, <3>3, <3>4, KeptMoves
    <3> QED BY <3>1, <3>2, <3>5
  <2> QED BY <2>1, <2>2
<1>6. \A i \in 1 .. n + 1 : ds[i].data = IF i = 1 THEN 0 ELSE EndOf(ds[i - 1])
  <2> TAKE i \in 1 .. n + 1
  <2>1. CASE i = n + 1
    <3>1. e = IF n = 0 THEN 0 ELSE EndOf(cs[n]) BY DEF Log, e, n
    <3>4. n \in Nat BY <1>0
    <3>3. i - 1 = n /\ (n # 0 => n \in 1 .. n) BY <2>1, <3>4
    <3>2. n # 0 => ds[i - 1] = cs[n] BY <1>1, <3>3
    <3> QED BY <1>0, <1>1, <1>3, <2>1, <3>1, <3>2
  <2>2. CASE i # n + 1
    <3>1. i \in 1 .. n /\ (i # 1 => i - 1 \in 1 .. n) BY <1>0, <2>2
    <3>2. cs[i].data = IF i = 1 THEN 0 ELSE EndOf(cs[i - 1]) BY <3>1 DEF Log, n
    <3> QED BY <1>1, <3>1, <3>2
  <2> QED BY <2>1, <2>2
<1>7. \A i, j \in 1 .. n + 1 : i < j => EndOf(ds[i]) <= ds[j].data
  <2> TAKE i, j \in 1 .. n + 1
  <2> HAVE i < j
  <2>1. i \in 1 .. n BY <1>0
  <2>2. CASE j = n + 1 BY <1>1, <1>3, <1>4, <2>1, <2>2
  <2>3. CASE j # n + 1
    <3>1. j \in 1 .. n BY <1>0, <2>3, SMTT(30)
    <3> QED BY <1>1, <2>1, <3>1 DEF Log, n
  <2> QED BY <2>2, <2>3
<1>8. \A i \in 2 .. n + 1 : ds[i - 1].after.revision = ds[i].before.revision
  <2> TAKE i \in 2 .. n + 1
  <2>1. i - 1 \in 1 .. n /\ n # 0 BY <1>0
  <2>2. CASE i = n + 1
    <3>1. i - 1 = n BY <1>0, <2>2
    <3> QED BY <1>1, <2>1, <2>2, <3>1 DEF n
  <2>3. CASE i # n + 1
    <3>1. i \in 2 .. n /\ i \in 1 .. n BY <1>0, <2>3
    <3> QED BY <1>1, <2>1, <3>1 DEF Log, n
  <2> QED BY <2>2, <2>3
<1>9. Len(dataD) = IF n + 1 = 0 THEN 0 ELSE EndOf(ds[n + 1]) BY <1>0, <1>1, <1>2, <1>3
<1>10. Log(ds, dataD, sn, serial) BY <1>1, <1>2, <1>5, <1>6, <1>7, <1>8, <1>9 DEF Log
<1> QED BY <1>10 DEF ds, dataD

-----------------------------------------------------------------------------
(***************************************************************************)
(* The inductive invariant.                                                *)
(***************************************************************************)
Revisions(sn) == sn = [r \in 0 .. REVISIONS |-> sn[r]] /\ \A r \in 0 .. REVISIONS : Fine(sn[r])

Record(u) ==
    u = [changes |-> u.changes, data |-> u.data, cursor |-> u.cursor, serial |-> u.serial,
         current |-> u.current, saved |-> u.saved]
\* The current revision is between two changes.
Between(u) ==
    /\ u.cursor > 0 => u.changes[u.cursor].after.revision = u.current
    /\ u.cursor < Len(u.changes) => u.changes[u.cursor + 1].before.revision = u.current
History(u, sn) ==
    /\ Record(u)
    /\ u.serial \in 0 .. REVISIONS /\ u.current \in 0 .. u.serial /\ u.saved \in 0 .. u.serial \cup {NEVER}
    /\ u.cursor \in 0 .. Len(u.changes) /\ Between(u)
    /\ Log(u.changes, u.data, sn, u.serial)
    /\ Len(u.changes) <= ED_HISTORY_STEPS /\ Len(u.data) <= ED_HISTORY_BYTES

TextInv ==
    /\ Revisions(seen) /\ History(undo, seen)
    /\ text = seen[undo.current]
    /\ caret \in 0 .. Len(text) /\ anchor \in -1 .. Len(text)
    /\ dirty \in BOOLEAN /\ dirty = (undo.current # undo.saved)
    /\ undo.saved # NEVER => seen[undo.saved] = stored

\* The invariant says what is to be proved.
LEMMA TextInvTyped ==
  ASSUME TextSound, TextInv
  PROVE  /\ TextTypeOK /\ UndoExact /\ CleanIsStored
         /\ Fine(text) /\ Len(text) \in Nat
<1>1. REVISIONS \in Nat /\ NEVER \notin 0 .. REVISIONS /\ ED_CAP \in Nat BY DEF TextSound
<1>2. History(undo, seen) /\ undo.current \in 0 .. undo.serial /\ undo.serial \in 0 .. REVISIONS BY DEF TextInv, History
<1>3. undo.current \in 0 .. REVISIONS BY <1>1, <1>2
<1>4. Fine(text) BY <1>3 DEF TextInv, Revisions
<1>5. Len(text) \in Nat /\ Len(text) < ED_CAP /\ LinesFit(text) BY <1>4 DEF Fine
<1>6. UndoExact BY <1>5 DEF TextInv, UndoExact
<1>7. CleanIsStored
  <2>1. ASSUME ~dirty PROVE text = stored
    <3>1. undo.saved = undo.current BY <2>1 DEF TextInv
    <3>2. undo.saved # NEVER BY <1>1, <1>3, <3>1
    <3> QED BY <3>1, <3>2 DEF TextInv
  <2> QED BY <2>1 DEF CleanIsStored
<1>8. TextTypeOK
  <2>1. Log(undo.changes, undo.data, seen, undo.serial) BY <1>2 DEF History
  <2>2. Len(undo.changes) \in Nat /\ Len(undo.data) = Before(undo.changes, Len(undo.changes)) BY <2>1 DEF Log, Before
  <2>3. Len(undo.changes) \in 0 .. Len(undo.changes) BY <2>2
  <2>4. Len(undo.data) = Bytes(undo.changes)[Len(undo.changes)] BY <2>1, <2>2, <2>3, BytesAre
  <2>5. undo.saved \in 0 .. REVISIONS \cup {NEVER} BY <1>1, <1>2 DEF History
  <2> QED BY <1>2, <1>5, <2>4, <2>5 DEF TextTypeOK, TextInv, History
<1> QED BY <1>4, <1>5, <1>6, <1>7, <1>8

\* text_history_reset: one revision, which is the text.
LEMMA ResetIs ==
  ASSUME TextSound, NEW t, Fine(t), NEW d \in BOOLEAN
  PROVE  /\ History(HistoryReset(d), First(t)) /\ Revisions(First(t)) /\ First(t)[0] = t
         /\ HistoryReset(d).current = 0 /\ HistoryReset(d).saved = (IF d THEN NEVER ELSE 0)
         /\ HistoryReset(d).serial = 0
<1> DEFINE u == HistoryReset(d)
           sn == First(t)
<1>1. REVISIONS \in Nat \ {0} /\ ED_CAP \in Nat \ {0} /\ ED_HISTORY_STEPS \in Nat /\ ED_HISTORY_BYTES \in Nat
  BY DEF TextSound
<1>2. u = [changes |-> <<>>, data |-> <<>>, cursor |-> 0, serial |-> 0, current |-> 0,
           saved |-> IF d THEN NEVER ELSE 0] BY DEF HistoryReset
<1>3. sn = [r \in 0 .. REVISIONS |-> IF r = 0 THEN t ELSE <<>>] BY DEF First
<1> HIDE DEF u, sn
<1>4. Fine(<<>>) BY <1>1 DEF Fine, LinesFit
<1>5. Revisions(sn) BY <1>3, <1>4 DEF Revisions
<1>6. sn[0] = t BY <1>1, <1>3
<1>7. Log(<<>>, <<>>, sn, 0) BY DEF Log
<1>8. /\ u.changes = <<>> /\ u.data = <<>> /\ u.cursor = 0 /\ u.serial = 0 /\ u.current = 0
      /\ u.saved = (IF d THEN NEVER ELSE 0) BY <1>2
<1>9. Record(u) BY <1>2, <1>8 DEF Record
<1>10. Len(u.changes) = 0 /\ Len(u.data) = 0 BY <1>8
<1>11. Between(u) BY <1>8, <1>10 DEF Between
<1>12. History(u, sn) BY <1>1, <1>7, <1>8, <1>9, <1>10, <1>11 DEF History
<1> QED BY <1>5, <1>6, <1>8, <1>12 DEF u, sn

\* The editor starts with an empty text and one revision.
LEMMA InitTrue ==
  ASSUME TextSound, TextInit
  PROVE  TextInv
<1>1. Fine(<<>>) BY DEF Fine, LinesFit, TextSound
<1>2. /\ History(undo, seen) /\ Revisions(seen) /\ seen[0] = <<>>
      /\ undo.current = 0 /\ undo.saved = 0 BY <1>1, ResetIs DEF TextInit
<1>3. /\ text = <<>> /\ caret = 0 /\ anchor = -1 /\ dirty = FALSE /\ stored = <<>> BY DEF TextInit
<1>4. Len(text) = 0 BY <1>3
<1>5. caret \in 0 .. Len(text) /\ anchor \in -1 .. Len(text) /\ dirty \in BOOLEAN
  <2>1. 0 \in 0 .. 0 /\ -1 \in -1 .. 0 OBVIOUS
  <2>2. caret \in 0 .. Len(text) BY <1>3, <1>4, <2>1
  <2>3. anchor \in -1 .. Len(text) BY <1>3, <1>4, <2>1
  <2> QED BY <1>3, <2>2, <2>3
<1>6. dirty = (undo.current # undo.saved) BY <1>2, <1>3
<1> QED BY <1>2, <1>3, <1>5, <1>6 DEF TextInv

-----------------------------------------------------------------------------
(***************************************************************************)
(* The steps.                                                              *)
(***************************************************************************)
\* history_push before the change itself: room for it, behind the current
\* revision.
RoomFor(room, u, sn, bytes) ==
    /\ Log(room.changes, room.data, sn, u.serial)
    /\ Len(room.changes) < ED_HISTORY_STEPS /\ Len(room.data) + bytes <= ED_HISTORY_BYTES
    /\ Len(room.changes) # 0 => room.changes[Len(room.changes)].after.revision = u.current
    /\ room.saved = u.saved

\* Branched is a log that was cut at the cursor.
LEMMA BranchedIs ==
  ASSUME TextSound, NEW u, NEW sn, History(u, sn), NEW b, b = Branched(u)
  PROVE  /\ Log(b.changes, b.data, sn, u.serial) /\ b.saved = u.saved
         /\ Len(b.changes) # 0 => b.changes[Len(b.changes)].after.revision = u.current
<1>0. /\ Log(u.changes, u.data, sn, u.serial) /\ u.cursor \in 0 .. Len(u.changes) /\ Between(u)
      /\ u.serial \in Nat /\ Len(u.changes) \in Nat BY DEF History, Log
<1>1. CASE u.cursor < Len(u.changes)
  <2> DEFINE cs == SubSeq(u.changes, 1, u.cursor)
             data == SubSeq(u.data, 1, u.changes[u.cursor + 1].data)
  <2>1. b = Holding(u, cs, data) BY <1>1 DEF Branched
  <2>2. /\ Log(cs, data, sn, u.serial) /\ Len(cs) = u.cursor
        /\ \A i \in 1 .. u.cursor : cs[i] = u.changes[i] BY <1>0, <1>1, LogBranches
  <2> HIDE DEF cs, data
  <2>3. b.changes = cs /\ b.data = data /\ b.saved = u.saved BY <2>1 DEF Holding
  <2>4. u.cursor # 0 => u.cursor \in 1 .. u.cursor /\ u.cursor > 0 BY <1>0
  <2> QED BY <1>0, <2>2, <2>3, <2>4 DEF Between
<1>2. CASE ~(u.cursor < Len(u.changes))
  <2>1. b = u /\ u.cursor = Len(u.changes) BY <1>0, <1>2 DEF Branched
  <2>2. Len(u.changes) # 0 => u.cursor > 0 BY <1>0, <2>1
  <2> QED BY <1>0, <2>1, <2>2 DEF Between
<1> QED BY <1>1, <1>2

\* Evicted is a log whose oldest changes are gone.
LEMMA EvictedIs ==
  ASSUME TextSound, NEW u, NEW sn, u.serial \in Nat, NEW b, NEW bytes \in Nat, bytes <= ED_HISTORY_BYTES,
         Log(b.changes, b.data, sn, u.serial), b.saved = u.saved,
         Len(b.changes) # 0 => b.changes[Len(b.changes)].after.revision = u.current
  PROVE  RoomFor(Evicted(b, bytes), u, sn, bytes)
<1> DEFINE k == ToEvict(b, bytes)
           cut == Bytes(b.changes)[k]
           cs == Shifted(b.changes, k, cut)
           data == SubSeq(b.data, cut + 1, Len(b.data))
           room == Evicted(b, bytes)
<1>0. Len(b.changes) \in Nat /\ Len(b.data) \in Nat BY DEF Log
<1>1. ED_HISTORY_STEPS \in Nat \ {0} /\ ED_HISTORY_BYTES \in Nat BY DEF TextSound
<1>2. /\ k \in 0 .. Len(b.changes) /\ cut = Before(b.changes, k)
      /\ Len(b.changes) - k < ED_HISTORY_STEPS
      /\ Len(b.data) - cut + bytes <= ED_HISTORY_BYTES
  <2>1. /\ k \in 0 .. Len(b.changes) /\ Bytes(b.changes)[k] = Before(b.changes, k)
        /\ Len(b.changes) - k < ED_HISTORY_STEPS
        /\ Len(b.data) - Before(b.changes, k) + bytes <= ED_HISTORY_BYTES BY <1>1, EvictsEnough
  <2> QED BY <2>1
<1>3. room = Holding(b, cs, data) BY Zenon DEF Evicted, Shifted
<1> HIDE DEF k, cut
<1>4. /\ Log(cs, data, sn, u.serial) /\ Len(cs) = Len(b.changes) - k
      /\ \A i \in 1 .. Len(b.changes) - k : cs[i].after = b.changes[i + k].after
      /\ cut \in 0 .. Len(b.data)
  <2>1. k \in 0 .. Len(b.changes) /\ cut = Before(b.changes, k) BY <1>2
  <2>2. ShiftedTo(cs, b.changes, b.data, sn, u.serial, k, cut) BY <2>1, LogShifts, Zenon
  <2> QED BY <2>2 DEF ShiftedTo
<1>5. Len(data) = Len(b.data) - cut
  <2>1. b.data \in Seq(Plain) BY DEF Log
  <2>2. cut \in Nat /\ cut <= Len(b.data) BY <1>0, <1>4
  <2> QED BY <1>0, <2>1, <2>2, Cut
<1> HIDE DEF cs, data, room
<1>6. room.changes = cs /\ room.data = data /\ room.saved = b.saved BY <1>3 DEF Holding
<1>7. Len(cs) # 0 => cs[Len(cs)].after.revision = u.current
  <2>1. ASSUME Len(cs) # 0 PROVE cs[Len(cs)].after.revision = u.current
    <3>1. /\ Len(cs) \in 1 .. Len(b.changes) - k /\ Len(cs) + k = Len(b.changes)
          /\ Len(b.changes) # 0 BY <1>0, <1>2, <1>4, <2>1
    <3>2. cs[Len(cs)].after = b.changes[Len(cs) + k].after BY <1>4, <3>1
    <3> QED BY <3>1, <3>2
  <2> QED BY <2>1
<1>8. RoomFor(room, u, sn, bytes) BY <1>2, <1>4, <1>5, <1>6, <1>7 DEF RoomFor
<1> QED BY <1>8 DEF room

\* Together they leave room for a change and its bytes.
LEMMA RoomIs ==
  ASSUME TextSound, NEW u, NEW sn, History(u, sn), NEW bytes \in Nat, bytes <= ED_HISTORY_BYTES
  PROVE  RoomFor(Evicted(Branched(u), bytes), u, sn, bytes)
<1> DEFINE b == Branched(u)
<1>1. /\ Log(b.changes, b.data, sn, u.serial) /\ b.saved = u.saved
      /\ Len(b.changes) # 0 => b.changes[Len(b.changes)].after.revision = u.current BY BranchedIs
<1>2. u.serial \in Nat BY DEF History
<1> HIDE DEF b
<1>3. RoomFor(Evicted(b, bytes), u, sn, bytes) BY <1>1, <1>2, EvictedIs
<1> QED BY <1>3 DEF b

\* text_replace: the change that is pushed.
NewChange(u, room, from, to, n, at) ==
    [at |-> from, removed |-> to - from, inserted |-> Len(n), data |-> Len(room.data), before |-> Mark(u.current),
     after |-> [caret |-> at, anchor |-> -1, revision |-> u.serial + 1]]
Pushed(u, room, from, to, n, at) ==
    [changes |-> Append(room.changes, NewChange(u, room, from, to, n, at)), cursor |-> Len(room.changes) + 1,
     data |-> room.data \o SubSeq(text, from + 1, to) \o n,
     serial |-> u.serial + 1, current |-> u.serial + 1, saved |-> room.saved]

PushedTo(v, sm, u, sn, new) ==
    /\ History(v, sm) /\ Revisions(sm)
    /\ sm[u.serial + 1] = new /\ \A r \in 0 .. u.serial : sm[r] = sn[r]

\* history_push as a whole, with a counter that wraps or does not.
LEMMA PushKeeps ==
  ASSUME TextSound, NEW u, NEW sn, History(u, sn), Revisions(sn), sn[u.current] = text, u.serial < REVISIONS,
         Fine(text), caret \in 0 .. Len(text), anchor \in -1 .. Len(text),
         NEW from \in Nat, NEW to \in Nat, from <= to, to <= Len(text), NEW n, Fits(from, to, n),
         NEW new, new = Spliced(text, from, to - from, n), NEW at \in 0 .. Len(new),
         NEW room, RoomFor(room, u, sn, to - from + Len(n)),
         NEW sm, sm = [sn EXCEPT ![u.serial + 1] = new]
  PROVE  PushedTo(Pushed(u, room, from, to, n, at), sm, u, sn, new)
<1> DEFINE v == Pushed(u, room, from, to, n, at)
           c == NewChange(u, room, from, to, n, at)
           gone == SubSeq(text, from + 1, to)
           next == u.serial + 1
           removed == to - from
           cs == Append(room.changes, c)
           data == room.data \o gone \o n
<1>0. REVISIONS \in Nat /\ NEVER \notin 0 .. REVISIONS BY DEF TextSound
<1>1. /\ u.serial \in Nat /\ u.current \in 0 .. u.serial /\ u.saved \in 0 .. u.serial \cup {NEVER}
      /\ next \in 0 .. REVISIONS /\ next \in Nat
  <2> DEFINE l == u.serial
  <2>1. l \in 0 .. REVISIONS /\ u.current \in 0 .. l /\ u.saved \in 0 .. l \cup {NEVER} BY DEF History
  <2>2. l < REVISIONS /\ next = l + 1 OBVIOUS
  <2> HIDE DEF l, next
  <2>3. l \in Nat /\ next \in 0 .. REVISIONS /\ next \in Nat BY <1>0, <2>1, <2>2
  <2> QED BY <2>1, <2>3 DEF l
<1>2. /\ Log(room.changes, room.data, sn, u.serial)
      /\ Len(room.changes) < ED_HISTORY_STEPS /\ Len(room.data) + (removed + Len(n)) <= ED_HISTORY_BYTES
      /\ Len(room.changes) # 0 => room.changes[Len(room.changes)].after.revision = u.current
      /\ room.saved = u.saved BY DEF RoomFor
<1>3. /\ room.changes \in Seq(Changes) /\ room.data \in Seq(Plain)
      /\ Len(room.changes) \in Nat /\ Len(room.data) \in Nat BY <1>2, SMTT(30) DEF Log
<1>4. n \in Seq(Plain) /\ Fine(new) /\ Len(new) = Len(text) - removed + Len(n) BY DEF Fits
<1>5. text \in Seq(Plain) /\ Len(text) \in Nat /\ Len(n) \in Nat /\ Len(new) \in Nat BY <1>4 DEF Fine
<1>6. gone \in Seq(Plain) /\ Len(gone) = removed BY <1>5, Cut
<1>7. removed \in Nat /\ from + removed = to OBVIOUS
<1>8. /\ sm = [r \in 0 .. REVISIONS |-> sm[r]] /\ sm[next] = new
      /\ \A r \in 0 .. REVISIONS : r # next => sm[r] = sn[r]
  <2>1. sn = [r \in 0 .. REVISIONS |-> sn[r]] BY DEF Revisions
  <2> HIDE DEF next
  <2>2. sm = [sn EXCEPT ![next] = new] BY DEF next
  <2> QED BY <1>1, <2>1, <2>2
<1>9. Revisions(sm)
  <2>1. ASSUME NEW r \in 0 .. REVISIONS PROVE Fine(sm[r])
    <3>1. CASE r = next BY <1>4, <1>8, <3>1
    <3>2. CASE r # next
      <4>1. sm[r] = sn[r] BY <1>8, <3>2
      <4>2. Fine(sn[r]) BY DEF Revisions
      <4> QED BY <4>1, <4>2
    <3> QED BY <3>1, <3>2
  <2> QED BY <1>8, <2>1 DEF Revisions
<1>10. \A r \in 0 .. u.serial : sm[r] = sn[r]
  <2> DEFINE l == u.serial
  <2>2. l \in Nat /\ next = l + 1 /\ next <= REVISIONS BY <1>0, <1>1
  <2> HIDE DEF l, next
  <2>3. \A r \in 0 .. l : r \in 0 .. REVISIONS /\ r # next BY <1>0, <2>2
  <2>1. \A r \in 0 .. u.serial : r \in 0 .. REVISIONS /\ r # next BY <2>3 DEF l
  <2> QED BY <1>8, <2>1, Zenon
<1>11. /\ c.at = from /\ c.removed = removed /\ c.inserted = Len(n) /\ c.data = Len(room.data)
       /\ c.before = [caret |-> caret, anchor |-> anchor, revision |-> u.current]
       /\ c.after = [caret |-> at, anchor |-> -1, revision |-> next] BY DEF NewChange, Mark
<1>12. c \in Changes
  <2>1. [caret |-> caret, anchor |-> anchor, revision |-> u.current] \in Marks
    <3>1. caret \in Nat /\ anchor \in Int /\ u.current \in Nat BY <1>1, <1>5
    <3> QED BY <3>1 DEF Marks
  <2>2. [caret |-> at, anchor |-> -1, revision |-> next] \in Marks
    <3>1. at \in Nat /\ -1 \in Int BY <1>5
    <3> QED BY <1>1, <3>1 DEF Marks
  <2>3. c = [at |-> from, removed |-> removed, inserted |-> Len(n), data |-> Len(room.data),
             before |-> [caret |-> caret, anchor |-> anchor, revision |-> u.current],
             after |-> [caret |-> at, anchor |-> -1, revision |-> next]] BY DEF NewChange, Mark
  <2> HIDE DEF c, next, removed
  <2> QED BY <1>3, <1>5, <1>7, <2>1, <2>2, <2>3 DEF Changes
<1>13. c.before.revision = u.current /\ c.after.revision = next BY <1>11
<1>14. sm[u.current] = text /\ sm[next] = new BY <1>1, <1>8, <1>10
<1>15. MarkFits(c.before, sm, next) /\ MarkFits(c.after, sm, next)
  <2>1. /\ c.before.caret = caret /\ c.before.anchor = anchor
        /\ c.after.caret = at /\ c.after.anchor = -1 BY <1>11
  <2>2. u.current \in 0 .. next /\ next \in 0 .. next /\ -1 \in -1 .. Len(new)
    <3>1. Len(new) \in Nat BY <1>5
    <3>2. u.current \in 0 .. u.serial /\ u.serial \in Nat BY <1>1
    <3> DEFINE l == u.serial
    <3>4. next = l + 1 OBVIOUS
    <3> HIDE DEF l, next
    <3>5. u.current \in 0 .. l /\ l \in Nat BY <3>2 DEF l
    <3>3. u.current \in 0 .. next /\ next \in 0 .. next BY <3>4, <3>5
    <3> QED BY <3>1, <3>3
  <2> HIDE DEF c, next
  <2> QED BY <1>13, <1>14, <2>1, <2>2 DEF MarkFits
<1>16. Joins(c, gone, n, room.data, sm)
  <2>1. from + removed <= Len(text) BY <1>7
  <2>2. gone = SubSeq(text, from + 1, from + removed) BY <1>7
  <2> HIDE DEF c, next, gone, removed
  <2>3. new = Spliced(text, from, removed, n) BY DEF removed
  <2> QED BY <1>6, <1>11, <1>13, <1>14, <2>1, <2>2, <2>3 DEF Joins
<1>17. Log(room.changes, room.data, sm, next)
  <2>1. u.serial <= next /\ u.serial \in Nat /\ next \in Nat BY <1>1
  <2>2. Log(room.changes, room.data, sn, u.serial) BY <1>2
  <2> HIDE DEF next
  <2> QED BY <1>10, <2>1, <2>2, LogStays
<1> HIDE DEF c, gone, next, removed
<1>18. Log(cs, data, sm, next)
  <2>1. Len(room.changes) # 0 => room.changes[Len(room.changes)].after.revision = c.before.revision BY <1>2, <1>13
  <2> QED BY <1>1, <1>4, <1>6, <1>12, <1>15, <1>16, <1>17, <2>1, LogGrows
<1>19. /\ Len(cs) = Len(room.changes) + 1 /\ cs[Len(room.changes) + 1] = c
       /\ Len(data) = Len(room.data) + (removed + Len(n))
  <2>1. Len(cs) = Len(room.changes) + 1 /\ cs[Len(room.changes) + 1] = c BY <1>3, <1>12
  <2>2. Len(data) = Len(room.data) + (removed + Len(n))
    <3> DEFINE old == room.data
               h == old \o gone
    <3>4. old \in Seq(Plain) /\ n \in Seq(Plain) /\ gone \in Seq(Plain) BY <1>3, <1>4, <1>6
    <3>5. data = h \o n OBVIOUS
    <3> HIDE DEF old, data
    <3>1. h \in Seq(Plain) /\ Len(h) = Len(old) + Len(gone) BY <3>4, ConcatProperties
    <3> HIDE DEF h
    <3>2. Len(h \o n) = Len(h) + Len(n) BY <3>1, <3>4, ConcatProperties
    <3>3. Len(data) = (Len(old) + Len(gone)) + Len(n) BY <3>1, <3>2, <3>5
    <3>6. Len(old) \in Nat /\ Len(gone) = removed /\ removed \in Nat /\ Len(n) \in Nat BY <1>3, <1>5, <1>6, <1>7 DEF old
    <3>7. Len(data) = Len(old) + (removed + Len(n)) BY <3>3, <3>6
    <3> QED BY <3>7 DEF old
  <2> QED BY <2>1, <2>2
<1>20. v = [changes |-> cs, cursor |-> Len(room.changes) + 1, data |-> data,
            serial |-> next, current |-> next, saved |-> room.saved] BY DEF Pushed, next, gone, c
<1> HIDE DEF v, cs, data
<1>21. /\ v.changes = cs /\ v.data = data /\ v.cursor = Len(room.changes) + 1
       /\ v.serial = next /\ v.current = next /\ v.saved = room.saved /\ Record(v) BY <1>20 DEF Record
<1>22. Between(v)
  <2>1. v.changes[v.cursor].after.revision = v.current BY <1>13, <1>19, <1>21
  <2>2. ~(v.cursor < Len(v.changes)) BY <1>3, <1>19, <1>21
  <2> QED BY <2>1, <2>2 DEF Between
<1>23. History(v, sm)
  <2>1. /\ v.serial \in 0 .. REVISIONS /\ v.current \in 0 .. v.serial
        /\ v.saved \in 0 .. v.serial \cup {NEVER}
    <3> DEFINE l == u.serial
    <3>1. next = l + 1 /\ l \in Nat /\ u.saved \in 0 .. l \cup {NEVER} BY <1>1 DEF next
    <3>2. /\ v.serial = next /\ v.current = next /\ v.saved = u.saved /\ next \in 0 .. REVISIONS BY <1>1, <1>2, <1>21
    <3> HIDE DEF l
    <3>3. next \in 0 .. next /\ u.saved \in 0 .. next \cup {NEVER} BY <3>1
    <3> QED BY <3>2, <3>3
  <2>2. v.cursor \in 0 .. Len(v.changes) BY <1>3, <1>19, <1>21
  <2>3. Len(v.changes) <= ED_HISTORY_STEPS
    <3>1. ED_HISTORY_STEPS \in Nat BY DEF TextSound
    <3>2. Len(room.changes) < ED_HISTORY_STEPS BY <1>2
    <3>3. Len(v.changes) = Len(room.changes) + 1 BY <1>19, <1>21
    <3> QED BY <1>3, <3>1, <3>2, <3>3
  <2>4. Len(v.data) <= ED_HISTORY_BYTES BY <1>2, <1>19, <1>21
  <2>5. Log(v.changes, v.data, sm, v.serial) BY <1>18, <1>21
  <2> QED BY <1>21, <1>22, <2>1, <2>2, <2>3, <2>4, <2>5 DEF History
<1>24. PushedTo(v, sm, u, sn, new) BY <1>9, <1>10, <1>14, <1>23 DEF PushedTo, next
<1> QED BY <1>24 DEF v

\* text_replace after its checks.
LEMMA ReplaceKeeps ==
  ASSUME TextSound, TextInv, NEW from \in Nat, NEW to \in Nat, from <= to, to <= Len(text),
         NEW n, Fits(from, to, n), NEW at \in 0 .. Len(Spliced(text, from, to - from, n)),
         Replace(from, to, n, at)
  PROVE  TextInv'
<1> DEFINE wraps == undo.serial >= REVISIONS - 1
           u == IF wraps THEN HistoryReset(dirty) ELSE undo
           sn == IF wraps THEN First(text) ELSE seen
           bytes == to - from + Len(n)
           room == Evicted(Branched(u), bytes)
           new == Spliced(text, from, to - from, n)
           v == Pushed(u, room, from, to, n, at)
           sm == [sn EXCEPT ![u.serial + 1] = new]
<1>1. /\ text' = new /\ caret' = at /\ anchor' = -1 /\ dirty' = TRUE /\ undo' = v /\ stored' = stored
  BY Zenon DEF Replace, Pushed, NewChange
<1>2. seen' = sm BY <1>1, Zenon DEF Replace
<1>3. /\ REVISIONS \in Nat \ {0} /\ NEVER \notin 0 .. REVISIONS /\ ED_CAP \in Nat \ {0}
      /\ ED_HISTORY_BYTES \in Nat /\ 2 * (ED_CAP - 1) <= ED_HISTORY_BYTES BY DEF TextSound
<1>4. Fine(text) /\ Len(text) \in Nat /\ Len(text) < ED_CAP BY TextInvTyped DEF Fine
<1>5. caret \in 0 .. Len(text) /\ anchor \in -1 .. Len(text) /\ dirty \in BOOLEAN BY DEF TextInv
<1>6. bytes \in Nat /\ bytes <= ED_HISTORY_BYTES /\ Fine(new)
  <2>1. n \in Seq(Plain) /\ Len(n) < ED_CAP /\ Fine(new) BY DEF Fits
  <2>2. Len(n) \in Nat BY <2>1
  <2> QED BY <1>3, <1>4, <2>1, <2>2
\* text_history_reset keeps the text and whether it is the one on the disk.
<1>7. /\ History(u, sn) /\ Revisions(sn) /\ sn[u.current] = text /\ u.serial < REVISIONS
      /\ u.saved # NEVER => sn[u.saved] = stored
  <2>1. CASE wraps
    <3>1. u = HistoryReset(dirty) /\ sn = First(text) BY <2>1
    <3>2. /\ History(u, sn) /\ Revisions(sn) /\ sn[0] = text
          /\ u.current = 0 /\ u.saved = (IF dirty THEN NEVER ELSE 0) /\ u.serial = 0 BY <1>4, <1>5, <3>1, ResetIs
    <3>3. ASSUME u.saved # NEVER PROVE sn[u.saved] = stored
      <4>1. ~dirty /\ u.saved = 0 BY <3>2, <3>3
      <4>2. text = stored BY <4>1, TextInvTyped DEF CleanIsStored
      <4> QED BY <3>2, <4>1, <4>2
    <3> HIDE DEF u, sn
    <3> QED BY <1>3, <3>2, <3>3
  <2>2. CASE ~wraps
    <3>1. u = undo /\ sn = seen BY <2>2
    <3>2. undo.serial \in 0 .. REVISIONS BY DEF TextInv, History
    <3>3. undo.serial < REVISIONS BY <1>3, <2>2, <3>2
    <3> HIDE DEF u, sn
    <3> QED BY <3>1, <3>3 DEF TextInv
  <2> QED BY <2>1, <2>2
<1> HIDE DEF u, sn
<1>8. RoomFor(room, u, sn, bytes)
  <2> HIDE DEF bytes
  <2> QED BY <1>6, <1>7, RoomIs
<1> HIDE DEF room
<1>9. /\ History(v, sm) /\ Revisions(sm)
      /\ sm[u.serial + 1] = new /\ \A r \in 0 .. u.serial : sm[r] = sn[r]
  <2> HIDE DEF new, v, sm
  <2>1. sm = [sn EXCEPT ![u.serial + 1] = new] /\ new = Spliced(text, from, to - from, n) BY DEF sm, new
  <2>2. RoomFor(room, u, sn, to - from + Len(n)) /\ at \in 0 .. Len(new) BY <1>8 DEF bytes, new
  <2>3. PushedTo(v, sm, u, sn, new) BY <1>4, <1>5, <1>7, <2>1, <2>2, PushKeeps, Zenon DEF v
  <2> QED BY <2>3 DEF PushedTo
<1>10. v.current = u.serial + 1 /\ v.saved = u.saved
  <2>1. room.saved = u.saved BY <1>8 DEF RoomFor
  <2> QED BY <2>1 DEF Pushed
<1>11. u.serial \in Nat /\ u.saved \in 0 .. u.serial \cup {NEVER} BY <1>7 DEF History
<1> HIDE DEF v, sm, new
<1>12. v.current # v.saved
  <2>1. u.serial + 1 \in 0 .. REVISIONS BY <1>3, <1>7, <1>11
  <2> QED BY <1>3, <1>10, <1>11, <2>1
<1>13. v.saved # NEVER => sm[v.saved] = stored BY <1>7, <1>9, <1>10, <1>11
<1>14. at \in 0 .. Len(new) /\ -1 \in -1 .. Len(new)
  <2>1. Len(new) \in Nat BY <1>6 DEF Fine
  <2> QED BY <2>1 DEF new
<1>15. /\ Revisions(seen') /\ History(undo', seen') /\ text' = seen'[undo'.current]
       /\ caret' \in 0 .. Len(text') /\ anchor' \in -1 .. Len(text')
       /\ dirty' \in BOOLEAN /\ dirty' = (undo'.current # undo'.saved)
       /\ undo'.saved # NEVER => seen'[undo'.saved] = stored' BY <1>1, <1>2, <1>9, <1>10, <1>12, <1>13, <1>14
<1> QED BY <1>15 DEF TextInv

\* text_replace of a range, at the keyboard or from the clipboard.
LEMMA TextReplaceKeeps ==
  ASSUME TextSound, TextInv, NEW s \in Inputs, TextReplace(s)
  PROVE  TextInv'
<1> DEFINE n == Normalised(s)
<1>1. Fine(text) /\ Len(text) \in Nat BY TextInvTyped
<1>2. caret \in 0 .. Len(text) /\ anchor \in -1 .. Len(text) BY DEF TextInv
<1>3. From \in Nat /\ To \in Nat /\ From <= To /\ To <= Len(text) BY <1>1, <1>2 DEF From, To, Selected
<1>4. s \in Seq(Char) BY GivenIsText
<1>5. Replaceable(From, To, s) /\ Replace(From, To, n, From + Len(n)) BY DEF TextReplace
<1>6. Fits(From, To, n) BY <1>1, <1>3, <1>4, <1>5, ReplaceableFits
<1> HIDE DEF n
<1>7. From + Len(n) \in 0 .. Len(Spliced(text, From, To - From, n))
  <2>1. Len(Spliced(text, From, To - From, n)) = Len(text) - (To - From) + Len(n) /\ n \in Seq(Plain) BY <1>6 DEF Fits
  <2>2. Len(n) \in Nat BY <2>1
  <2> QED BY <1>1, <1>3, <2>1, <2>2
<1> QED BY <1>3, <1>5, <1>6, <1>7, ReplaceKeeps

\* text_delete.
LEMMA TextDeleteKeeps ==
  ASSUME TextSound, TextInv, NEW backwards \in BOOLEAN, TextDelete(backwards)
  PROVE  TextInv'
<1> DEFINE at == IF backwards THEN caret - 1 ELSE caret
<1>1. Fine(text) /\ Len(text) \in Nat BY TextInvTyped
<1>2. caret \in 0 .. Len(text) BY DEF TextInv
<1>3. at >= 0 /\ at < Len(text) /\ Replaceable(at, at + 1, <<>>) /\ Replace(at, at + 1, <<>>, at) BY DEF TextDelete
<1>4. at \in Nat /\ at + 1 \in Nat /\ at <= at + 1 /\ at + 1 <= Len(text) BY <1>1, <1>2, <1>3
<1> HIDE DEF at
<1>5. Normalised(<<>>) = <<>>
  <2>1. <<>> \in Seq(Plain) OBVIOUS
  <2> QED BY <2>1, CharsAre, NormalIsSame
<1>6. Fits(at, at + 1, <<>>)
  <2>1. <<>> \in Seq(Char) OBVIOUS
  <2>2. Fits(at, at + 1, Normalised(<<>>)) BY <1>1, <1>3, <1>4, <2>1, ReplaceableFits
  <2> QED BY <1>5, <2>2
<1>7. at \in 0 .. Len(Spliced(text, at, (at + 1) - at, <<>>))
  <2>1. Len(Spliced(text, at, (at + 1) - at, <<>>)) = Len(text) - ((at + 1) - at) + Len(<<>>) BY <1>6 DEF Fits
  <2> QED BY <1>1, <1>4, <2>1
<1> QED BY <1>3, <1>4, <1>6, <1>7, ReplaceKeeps

\* text_replace_all.
LEMMA TextReplaceAllKeeps ==
  ASSUME TextSound, TextInv, NEW q \in Queries, NEW s \in Replacements, TextReplaceAll(q, s)
  PROVE  TextInv'
<1> DEFINE new == AllReplaced(q, s)
           n == Normalised(new)
           at == IF caret > Len(n) THEN Len(n) ELSE caret
<1>1. Fine(text) /\ Len(text) \in Nat BY TextInvTyped
<1>2. caret \in 0 .. Len(text) BY DEF TextInv
<1>3. Replaceable(0, Len(text), new) /\ Replace(0, Len(text), n, at) BY DEF TextReplaceAll
<1>4. new \in Seq(Char)
  <2>1. q \in Seq(Char) /\ s \in Seq(Char) BY GivenIsText
  <2>2. text \in Seq(Plain) BY <1>1 DEF Fine
  <2> QED BY <2>1, <2>2, AllReplacedIsText
<1> HIDE DEF new
<1>5. Fits(0, Len(text), n)
  <2>1. 0 \in Nat /\ 0 <= Len(text) /\ Len(text) <= Len(text) BY <1>1
  <2> QED BY <1>1, <1>3, <1>4, <2>1, ReplaceableFits
<1> HIDE DEF n
<1>6. at \in 0 .. Len(Spliced(text, 0, Len(text) - 0, n))
  <2>1. Len(Spliced(text, 0, Len(text) - 0, n)) = Len(text) - (Len(text) - 0) + Len(n) /\ n \in Seq(Plain)
    BY <1>5 DEF Fits
  <2>2. Len(n) \in Nat BY <2>1
  <2> QED BY <1>1, <1>2, <2>1, <2>2
<1> HIDE DEF at
<1>7. 0 \in Nat /\ 0 <= Len(text) /\ Len(text) <= Len(text) BY <1>1
<1> QED BY <1>1, <1>3, <1>5, <1>6, <1>7, ReplaceKeeps

\* history_apply: a revision that the log leads to.
LEMMA ApplyKeeps ==
  ASSUME TextSound, TextInv, NEW c, NEW gone, NEW payload, NEW mark, NEW cursor \in 0 .. Len(undo.changes),
         Apply(c, gone, payload, mark, cursor), MarkFits(mark, seen, undo.serial),
         Spliced(text, c.at, gone, payload) = seen[mark.revision],
         cursor > 0 => undo.changes[cursor].after.revision = mark.revision,
         cursor < Len(undo.changes) => undo.changes[cursor + 1].before.revision = mark.revision
  PROVE  TextInv'
<1> DEFINE v == undo'
<1>1. History(undo, seen) /\ Revisions(seen) BY DEF TextInv
<1>2. /\ text' = seen[mark.revision] /\ caret' = mark.caret /\ anchor' = mark.anchor
      /\ dirty' = (mark.revision # undo.saved) /\ seen' = seen /\ stored' = stored BY DEF Apply
<1>3. undo' = [[undo EXCEPT !.current = mark.revision] EXCEPT !.cursor = cursor] BY DEF Apply
<1>4. /\ v.changes = undo.changes /\ v.data = undo.data /\ v.cursor = cursor /\ v.serial = undo.serial
      /\ v.current = mark.revision /\ v.saved = undo.saved /\ Record(v)
  <2>1. Record(undo) BY <1>1 DEF History
  <2> QED BY <1>3, <2>1 DEF Record
<1> HIDE DEF v
<1>5. /\ mark.revision \in 0 .. undo.serial /\ mark.caret \in 0 .. Len(seen[mark.revision])
      /\ mark.anchor \in -1 .. Len(seen[mark.revision]) BY DEF MarkFits
<1>6. Between(v) BY <1>4 DEF Between
<1>7. History(v, seen) BY <1>1, <1>4, <1>5, <1>6 DEF History
<1>8. undo.saved # NEVER => seen[undo.saved] = stored BY DEF TextInv
<1>9. /\ Revisions(seen') /\ History(undo', seen') /\ text' = seen'[undo'.current]
      /\ caret' \in 0 .. Len(text') /\ anchor' \in -1 .. Len(text')
      /\ dirty' \in BOOLEAN /\ dirty' = (undo'.current # undo'.saved)
      /\ undo'.saved # NEVER => seen'[undo'.saved] = stored' BY <1>1, <1>2, <1>4, <1>5, <1>7, <1>8 DEF v
<1> QED BY <1>9 DEF TextInv

\* What the log says of one of its changes.
LEMMA ChangeIs ==
  ASSUME TextSound, TextInv, NEW i \in 1 .. Len(undo.changes), NEW c, c = undo.changes[i]
  PROVE  /\ c \in Changes /\ Kept(c, undo.data, seen)
         /\ MarkFits(c.before, seen, undo.serial) /\ MarkFits(c.after, seen, undo.serial)
         /\ seen[c.before.revision] \in Seq(Plain)
         /\ undo.data \in Seq(Plain)
<1>1. Log(undo.changes, undo.data, seen, undo.serial) /\ undo.serial \in 0 .. REVISIONS BY DEF TextInv, History
<1>2. /\ Kept(c, undo.data, seen) /\ MarkFits(c.before, seen, undo.serial)
      /\ MarkFits(c.after, seen, undo.serial) /\ c \in Changes /\ undo.data \in Seq(Plain) BY <1>1 DEF Log
<1>3. c.before.revision \in 0 .. REVISIONS
  <2>1. c.before.revision \in 0 .. undo.serial BY <1>2 DEF MarkFits
  <2>2. REVISIONS \in Nat BY DEF TextSound
  <2> QED BY <1>1, <2>1, <2>2
<1>4. Fine(seen[c.before.revision]) BY <1>3 DEF TextInv, Revisions
<1> QED BY <1>2, <1>4 DEF Fine

\* The bytes of a change lead forwards and back.
LEMMA Leads ==
  ASSUME NEW c \in Changes, NEW data \in Seq(Plain), NEW sn, Kept(c, data, sn), sn[c.before.revision] \in Seq(Plain),
         NEW t, t = sn[c.before.revision], NEW new, new = sn[c.after.revision]
  PROVE  /\ Spliced(t, c.at, c.removed, SubSeq(data, c.data + c.removed + 1, c.data + c.removed + c.inserted)) = new
         /\ Spliced(new, c.at, c.inserted, SubSeq(data, c.data + 1, c.data + c.removed)) = t
<1> DEFINE first == c.data + c.removed
           end == c.data + c.removed + c.inserted
           s == SubSeq(data, first + 1, end)
<1>1. /\ end <= Len(data) /\ c.at + c.removed <= Len(t)
      /\ SubSeq(data, c.data + 1, c.data + c.removed) = SubSeq(t, c.at + 1, c.at + c.removed)
      /\ new = Spliced(t, c.at, c.removed, s) BY DEF Kept, EndOf
<1>2. c.at \in Nat /\ c.removed \in Nat /\ c.data \in Nat /\ c.inserted \in Nat BY DEF Changes
<1>3. s \in Seq(Plain) /\ Len(s) = c.inserted
  <2>1. first \in Nat /\ end \in Nat /\ first <= end /\ end - first = c.inserted
    <3> DEFINE a == c.data
               b == c.removed
               w == c.inserted
    <3>1. a \in Nat /\ b \in Nat /\ w \in Nat /\ first = a + b /\ end = a + b + w BY <1>2
    <3> HIDE DEF a, b, w, first, end
    <3>2. first \in Nat /\ end \in Nat /\ first <= end /\ end - first = w BY <3>1
    <3> QED BY <3>2 DEF w
  <2> HIDE DEF first, end
  <2>2. s \in Seq(Plain) /\ Len(s) = end - first BY <1>1, <2>1, Cut
  <2> QED BY <2>1, <2>2
<1> HIDE DEF s
<1>4. Spliced(new, c.at, Len(s), SubSeq(t, c.at + 1, c.at + c.removed)) = t
  <2> DEFINE a == c.at
             r == c.removed
  <2>1. a \in Nat /\ r \in Nat /\ a + r <= Len(t) /\ t \in Seq(Plain) /\ s \in Seq(Plain) BY <1>1, <1>2, <1>3
  <2>2. new = Spliced(t, a, r, s) BY <1>1
  <2> HIDE DEF a, r
  <2>3. Spliced(Spliced(t, a, r, s), a, Len(s), SubSeq(t, a + 1, a + r)) = t BY <2>1, SplicedBack
  <2> QED BY <2>2, <2>3 DEF a, r
<1>5. Spliced(new, c.at, c.inserted, SubSeq(data, c.data + 1, c.data + c.removed)) = t BY <1>1, <1>3, <1>4
<1>6. new = Spliced(t, c.at, c.removed, SubSeq(data, first + 1, end)) BY <1>1 DEF s
<1> QED BY <1>5, <1>6

\* text_undo.
LEMMA TextUndoKeeps ==
  ASSUME TextSound, TextInv, TextUndo
  PROVE  TextInv'
<1> DEFINE i == undo.cursor
           c == undo.changes[i]
           payload == SubSeq(undo.data, c.data + 1, c.data + c.removed)
<1>0. /\ Log(undo.changes, undo.data, seen, undo.serial) /\ i \in 0 .. Len(undo.changes) /\ Between(undo)
      /\ Len(undo.changes) \in Nat BY DEF TextInv, History, Log
<1>1. i > 0 /\ Apply(c, c.inserted, payload, c.before, i - 1) BY DEF TextUndo
<1>2. i \in 1 .. Len(undo.changes) /\ i - 1 \in 0 .. Len(undo.changes) /\ (i - 1) + 1 = i BY <1>0, <1>1
<1>3. /\ c \in Changes /\ Kept(c, undo.data, seen)
      /\ MarkFits(c.before, seen, undo.serial)
      /\ seen[c.before.revision] \in Seq(Plain) /\ undo.data \in Seq(Plain) BY <1>2, ChangeIs
<1>4. c.after.revision = undo.current BY <1>1, <1>0 DEF Between
<1>5. text = seen[c.after.revision] BY <1>4 DEF TextInv
<1>6. Spliced(text, c.at, c.inserted, payload) = seen[c.before.revision]
  <2> HIDE DEF c
  <2> QED BY <1>3, <1>5, Leads
<1>7. i - 1 > 0 => undo.changes[i - 1].after.revision = c.before.revision
  <2>1. ASSUME i - 1 > 0 PROVE undo.changes[i - 1].after.revision = c.before.revision
    <3>1. i \in 2 .. Len(undo.changes) BY <1>2, <2>1
    <3> QED BY <1>0, <3>1 DEF Log
  <2> QED BY <2>1
<1>8. undo.changes[(i - 1) + 1].before.revision = c.before.revision BY <1>2
<1> HIDE DEF i, c, payload
<1> QED BY <1>1, <1>2, <1>3, <1>6, <1>7, <1>8, ApplyKeeps

\* text_redo.
LEMMA TextRedoKeeps ==
  ASSUME TextSound, TextInv, TextRedo
  PROVE  TextInv'
<1> DEFINE i == undo.cursor
           c == undo.changes[i + 1]
           payload == SubSeq(undo.data, c.data + c.removed + 1, c.data + c.removed + c.inserted)
<1>0. /\ Log(undo.changes, undo.data, seen, undo.serial) /\ i \in 0 .. Len(undo.changes) /\ Between(undo)
      /\ Len(undo.changes) \in Nat BY DEF TextInv, History, Log
<1>1. i < Len(undo.changes) /\ Apply(c, c.removed, payload, c.after, i + 1) BY DEF TextRedo
<1>2. i + 1 \in 1 .. Len(undo.changes) /\ i + 1 \in 0 .. Len(undo.changes) BY <1>0, <1>1
<1>3. /\ c \in Changes /\ Kept(c, undo.data, seen)
      /\ MarkFits(c.after, seen, undo.serial)
      /\ seen[c.before.revision] \in Seq(Plain) /\ undo.data \in Seq(Plain) BY <1>2, ChangeIs
<1>4. c.before.revision = undo.current BY <1>1, <1>0 DEF Between
<1>5. text = seen[c.before.revision] BY <1>4 DEF TextInv
<1>6. Spliced(text, c.at, c.removed, payload) = seen[c.after.revision]
  <2> HIDE DEF c
  <2> QED BY <1>3, <1>5, Leads
<1>7. i + 1 < Len(undo.changes) => undo.changes[(i + 1) + 1].before.revision = c.after.revision
  <2>1. ASSUME i + 1 < Len(undo.changes) PROVE undo.changes[(i + 1) + 1].before.revision = c.after.revision
    <3>1. (i + 1) + 1 \in 2 .. Len(undo.changes) /\ ((i + 1) + 1) - 1 = i + 1 BY <1>0, <2>1
    <3>2. undo.changes[((i + 1) + 1) - 1].after.revision = undo.changes[(i + 1) + 1].before.revision
      BY <1>0, <3>1 DEF Log
    <3> QED BY <3>1, <3>2
  <2> QED BY <2>1
<1>8. undo.changes[i + 1].after.revision = c.after.revision OBVIOUS
<1> HIDE DEF i, c, payload
<1> QED BY <1>1, <1>2, <1>3, <1>6, <1>7, <1>8, ApplyKeeps

\* A save, a change of the file, a load and a caret move.
LEMMA OthersKeep ==
  ASSUME TextSound, TextInv,
         TextSaved \/ StorageChanged \/ (\E s \in Files, template \in BOOLEAN : EdLoad(s, template))
           \/ \E to \in 0 .. Len(text), select \in BOOLEAN : Move(to, select)
  PROVE  TextInv'
<1> DEFINE v == undo'
<1>0. /\ REVISIONS \in Nat /\ NEVER \notin 0 .. REVISIONS /\ Fine(text) /\ Len(text) \in Nat
      /\ History(undo, seen) /\ Revisions(seen) /\ text = seen[undo.current]
      /\ caret \in 0 .. Len(text) /\ anchor \in -1 .. Len(text) /\ dirty \in BOOLEAN
  BY TextInvTyped DEF TextSound, TextInv
<1>1. Record(undo) /\ undo.serial \in 0 .. REVISIONS /\ undo.current \in 0 .. undo.serial BY <1>0 DEF History
<1>2. CASE TextSaved
  <2>1. /\ undo' = [undo EXCEPT !.saved = undo.current] /\ dirty' = FALSE /\ stored' = text
        /\ text' = text /\ caret' = caret /\ anchor' = anchor /\ seen' = seen BY <1>2 DEF TextSaved
  <2>2. /\ v.changes = undo.changes /\ v.data = undo.data /\ v.cursor = undo.cursor /\ v.serial = undo.serial
        /\ v.current = undo.current /\ v.saved = undo.current /\ Record(v) BY <1>1, <2>1 DEF Record
  <2> HIDE DEF v
  <2>3. Between(v) BY <1>0, <2>2 DEF History, Between
  <2>4. History(v, seen) BY <1>0, <1>1, <2>2, <2>3 DEF History
  <2> QED BY <1>0, <2>1, <2>2, <2>4 DEF TextInv, v
<1>3. CASE StorageChanged
  <2>1. /\ undo' = [undo EXCEPT !.saved = NEVER] /\ dirty' = TRUE
        /\ text' = text /\ caret' = caret /\ anchor' = anchor /\ seen' = seen /\ stored' = stored
    BY <1>3 DEF StorageChanged
  <2>2. /\ v.changes = undo.changes /\ v.data = undo.data /\ v.cursor = undo.cursor /\ v.serial = undo.serial
        /\ v.current = undo.current /\ v.saved = NEVER /\ Record(v) BY <1>1, <2>1 DEF Record
  <2> HIDE DEF v
  <2>3. Between(v) BY <1>0, <2>2 DEF History, Between
  <2>4. History(v, seen) BY <1>0, <1>1, <2>2, <2>3 DEF History
  <2>5. v.current # v.saved BY <1>0, <1>1, <2>2
  <2> QED BY <1>0, <2>1, <2>2, <2>4, <2>5 DEF TextInv, v
<1>4. CASE \E s \in Files, template \in BOOLEAN : EdLoad(s, template)
  <2>1. PICK s \in Files, template \in BOOLEAN : EdLoad(s, template) BY <1>4
  <2> DEFINE t == Normalised(s)
  <2>2. /\ Accepted(s) /\ text' = t /\ caret' = 0 /\ anchor' = -1 /\ dirty' = template
        /\ undo' = HistoryReset(template) /\ stored' = (IF template THEN stored ELSE t) /\ seen' = First(t)
    BY <2>1 DEF EdLoad
  <2>3. s \in Seq(Char) BY GivenIsText
  <2>4. Fine(t) BY <2>2, <2>3, AcceptedIsFine
  <2> HIDE DEF t, v
  <2>5. Len(t) \in Nat BY <2>4 DEF Fine
  <2>6. /\ History(undo', seen') /\ Revisions(seen') /\ seen'[0] = t
        /\ undo'.current = 0 /\ undo'.saved = (IF template THEN NEVER ELSE 0) BY <2>2, <2>4, ResetIs
  <2>7. 0 \in 0 .. Len(t) /\ -1 \in -1 .. Len(t) /\ 0 # NEVER BY <1>0, <2>5
  <2> QED BY <2>2, <2>6, <2>7 DEF TextInv
<1>5. CASE \E to \in 0 .. Len(text), select \in BOOLEAN : Move(to, select)
  <2>1. PICK to \in 0 .. Len(text), select \in BOOLEAN : Move(to, select) BY <1>5
  <2>2. /\ caret' = to /\ anchor' = (IF ~select THEN -1 ELSE IF anchor >= 0 THEN anchor ELSE caret)
        /\ text' = text /\ dirty' = dirty /\ undo' = undo /\ seen' = seen /\ stored' = stored BY <2>1 DEF Move
  <2>3. anchor' \in -1 .. Len(text) BY <1>0, <2>2
  <2> QED BY <2>2, <2>3 DEF TextInv
<1> QED BY <1>2, <1>3, <1>4, <1>5

\* Every step of an editor keeps the invariant.
LEMMA TextStepKeeps ==
  ASSUME TextSound, TextInv, [TextNext]_textVars
  PROVE  TextInv'
<1>1. CASE UNCHANGED textVars
  <2>1. /\ text' = text /\ caret' = caret /\ anchor' = anchor /\ dirty' = dirty /\ undo' = undo
        /\ seen' = seen /\ stored' = stored BY <1>1 DEF textVars
  <2> QED BY <2>1 DEF TextInv
<1>2. CASE \E s \in Inputs : TextReplace(s) BY <1>2, TextReplaceKeeps
<1>3. CASE \E backwards \in BOOLEAN : TextDelete(backwards) BY <1>3, TextDeleteKeeps
<1>4. CASE \E q \in Queries, s \in Replacements : TextReplaceAll(q, s) BY <1>4, TextReplaceAllKeeps
<1>5. CASE TextUndo BY <1>5, TextUndoKeeps
<1>6. CASE TextRedo BY <1>6, TextRedoKeeps
<1>7. CASE TextSaved \/ StorageChanged \/ (\E s \in Files, template \in BOOLEAN : EdLoad(s, template))
             \/ \E to \in 0 .. Len(text), select \in BOOLEAN : Move(to, select) BY <1>7, OthersKeep
<1> QED BY <1>1, <1>2, <1>3, <1>4, <1>5, <1>6, <1>7 DEF TextNext

\* text_undo, text_redo and history_push: undo and redo restore exactly, and a
\* document shown as unmodified is what the file holds, for every text, every
\* size of the history and every way to type, undo, branch, evict and wrap.
THEOREM TextHistoryIsExact ==
  ASSUME TextSound
  PROVE  TextSpec => [](TextTypeOK /\ UndoExact /\ CleanIsStored)
<1>1. TextInit => TextInv BY InitTrue
<1>2. TextInv /\ [TextNext]_textVars => TextInv' BY TextStepKeeps
<1>3. TextInv => TextTypeOK /\ UndoExact /\ CleanIsStored BY TextInvTyped
<1> QED BY <1>1, <1>2, <1>3, PTL DEF TextSpec

-----------------------------------------------------------------------------
(***************************************************************************)
(* A directory: long names, free slots, entries.                           *)
(***************************************************************************)
\* What is assembled of a long name, and two states that lead to the same.
IsLfn(l) == l.have \in BOOLEAN /\ l.expected \in Int
Having(expected, sum, name, max) == Lfn(TRUE, expected, sum, name, max)
SameState(l, m) == l = m \/ (~l.have /\ ~m.have)

IsSlot(s) ==
    /\ s.kind \in {"end", "deleted", "entry", "fragment"}
    /\ s.kind = "fragment" => s.order \in Nat \ {0} /\ s.last \in BOOLEAN
Readable(d) == Len(d) \in Nat /\ DOMAIN d = 1 .. Len(d) /\ \A k \in 1 .. Len(d) : IsSlot(d[k])

\* f is what is assembled of a directory up to slot n.
DirRead(f, d, n) == f = [k \in 0 .. n |-> IF k = 0 THEN NoLfn ELSE After(f[k - 1], d[k])]

\* Assembled is read from slot to slot.
LEMMA AssembledIs ==
  ASSUME NEW d, Len(d) \in Nat
  PROVE  /\ Assembled(d)[0] = NoLfn
         /\ \A k \in 1 .. Len(d) : Assembled(d)[k] = After(Assembled(d)[k - 1], d[k])
<1> DEFINE n == Len(d)
           K == {m \in 0 .. n : \E f : DirRead(f, d, m)}
<1>1. 0 \in K
  <2> DEFINE f == [k \in 0 .. 0 |-> NoLfn]
  <2>1. DirRead(f, d, 0) BY DEF DirRead
  <2> QED BY <2>1
<1>2. ASSUME NEW k \in 1 .. n, k - 1 \in K PROVE k \in K
  <2>1. PICK f : DirRead(f, d, k - 1) BY <1>2
  <2> DEFINE F == [i \in 0 .. k |-> IF i = k THEN After(f[k - 1], d[k]) ELSE f[i]]
  <2>2. \A i \in 0 .. k - 1 : f[i] = IF i = 0 THEN NoLfn ELSE After(f[i - 1], d[i])
    <3>1. f = [i \in 0 .. k - 1 |-> IF i = 0 THEN NoLfn ELSE After(f[i - 1], d[i])] BY <2>1 DEF DirRead
    <3> QED BY <3>1, Zenon
  <2>3. \A i \in 0 .. k - 1 : F[i] = f[i] OBVIOUS
  <2>4. F[k] = After(f[k - 1], d[k]) OBVIOUS
  <2>5. F = [i \in 0 .. k |-> F[i]] OBVIOUS
  <2> HIDE DEF F, K
  <2>6. \A i \in 0 .. k : F[i] = IF i = 0 THEN NoLfn ELSE After(F[i - 1], d[i])
    <3>1. \A i \in 0 .. k - 1 : i # 0 => i - 1 \in 0 .. k - 1 OBVIOUS
    <3>2. \A i \in 0 .. k - 1 : F[i] = IF i = 0 THEN NoLfn ELSE After(F[i - 1], d[i]) BY <2>2, <2>3, <3>1, Zenon
    <3>3. k - 1 \in 0 .. k - 1 /\ k # 0 OBVIOUS
    <3>4. F[k] = IF k = 0 THEN NoLfn ELSE After(F[k - 1], d[k]) BY <2>3, <2>4, <3>3, Zenon
    <3>5. \A i \in 0 .. k : i \in 0 .. k - 1 \/ i = k OBVIOUS
    <3> QED BY <3>2, <3>4, <3>5, Zenon
  <2>7. DirRead(F, d, k) BY <2>5, <2>6, Zenon DEF DirRead
  <2> QED BY <2>7 DEF K
<1>7. n \in Nat OBVIOUS
<1> HIDE DEF K, n
<1>3. \A k \in 0 .. n : k \in K BY <1>1, <1>2, <1>7, Rises
<1>8. n \in K BY <1>3, <1>7
<1>4. \E f : DirRead(f, d, Len(d)) BY <1>8 DEF K, n
<1>5. PICK f : DirRead(f, d, Len(d)) /\ Assembled(d) = f BY <1>4, Zenon DEF Assembled, DirRead
<1>6. \A i \in 0 .. Len(d) : f[i] = IF i = 0 THEN NoLfn ELSE After(f[i - 1], d[i])
  <2>1. f = [i \in 0 .. Len(d) |-> IF i = 0 THEN NoLfn ELSE After(f[i - 1], d[i])] BY <1>5 DEF DirRead
  <2> QED BY <2>1, Zenon
<1>9. 0 \in 0 .. Len(d) /\ \A i \in 1 .. Len(d) : i \in 0 .. Len(d) /\ i # 0 OBVIOUS
<1> QED BY <1>5, <1>6, <1>9, Zenon

\* One slot of the walk.
LEMMA FedIs ==
  ASSUME NEW l, IsLfn(l), NEW s, IsSlot(s), s.kind = "fragment"
  PROVE  /\ IsLfn(Fed(l, s))
         /\ Fed(l, s).have => Fed(l, s).sum = s.sum
         /\ s.last => Fed(l, s) = Having(s.order - 1, s.sum, s.name, s.order)
         /\ ~s.last /\ ~l.have => ~Fed(l, s).have
         /\ ~s.last /\ l.have /\ l.expected = s.order /\ l.sum = s.sum /\ l.name = s.name =>
              Fed(l, s) = Having(s.order - 1, s.sum, s.name, l.max)
<1>0. s.order \in Nat /\ s.last \in BOOLEAN BY DEF IsSlot
<1>1. CASE s.last
  <2> DEFINE b == Lfn(TRUE, s.order, s.sum, s.name, s.order)
  <2>0. b.have /\ b.expected = s.order /\ b.sum = s.sum /\ b.name = s.name /\ b.max = s.order BY DEF Lfn
  <2>1. Fed(l, s) = IF ~b.have \/ s.order # b.expected \/ s.sum # b.sum THEN Lfn(FALSE, 0, b.sum, b.name, b.max)
                    ELSE Lfn(TRUE, b.expected - 1, b.sum, IF s.name = b.name THEN s.name ELSE "mixed", b.max)
    BY <1>1, Zenon DEF Fed
  <2> HIDE DEF b
  <2>2. Fed(l, s) = Having(s.order - 1, s.sum, s.name, s.order) BY <2>0, <2>1 DEF Having
  <2>3. Fed(l, s).have /\ IsLfn(Fed(l, s)) /\ Fed(l, s).sum = s.sum BY <1>0, <2>2 DEF Having, Lfn, IsLfn
  <2> QED BY <1>0, <1>1, <2>2, <2>3
<1>2. CASE ~s.last
  <2>0. l.have \in BOOLEAN /\ l.expected \in Int BY DEF IsLfn
  <2>3. Fed(l, s) = IF ~l.have \/ s.order # l.expected \/ s.sum # l.sum THEN Lfn(FALSE, 0, l.sum, l.name, l.max)
                    ELSE Lfn(TRUE, l.expected - 1, l.sum, IF s.name = l.name THEN s.name ELSE "mixed", l.max)
    BY <1>2, Zenon DEF Fed
  <2>1. CASE ~l.have \/ s.order # l.expected \/ s.sum # l.sum
    <3>1. Fed(l, s) = Lfn(FALSE, 0, l.sum, l.name, l.max) BY <2>1, <2>3
    <3>2. ~Fed(l, s).have /\ IsLfn(Fed(l, s)) BY <3>1 DEF Lfn, IsLfn
    <3> QED BY <1>2, <2>1, <3>2
  <2>2. CASE ~(~l.have \/ s.order # l.expected \/ s.sum # l.sum)
    <3> DEFINE m == IF s.name = l.name THEN s.name ELSE "mixed"
    <3>1. Fed(l, s) = Having(s.order - 1, s.sum, m, l.max) BY <2>2, <2>3 DEF Having
    <3>2. s.name = l.name => m = s.name OBVIOUS
    <3> HIDE DEF m
    <3>3. Fed(l, s).have /\ IsLfn(Fed(l, s)) /\ Fed(l, s).sum = s.sum BY <1>0, <3>1 DEF Having, Lfn, IsLfn
    <3> QED BY <1>0, <1>2, <2>2, <3>1, <3>2, <3>3
  <2> QED BY <2>1, <2>2
<1> QED BY <1>0, <1>1, <1>2

\* What a slot leaves assembled is well formed, and only a fragment leaves a name,
\* with its own checksum (walk_dir).
LEMMA AfterIs ==
  ASSUME NEW l, IsLfn(l), NEW s, IsSlot(s)
  PROVE  /\ IsLfn(After(l, s))
         /\ After(l, s).have => s.kind = "fragment" /\ After(l, s).sum = s.sum
<1>1. CASE s.kind = "fragment" BY <1>1, FedIs DEF After
<1>2. CASE s.kind # "fragment"
  <2>1. After(l, s) = Lfn(FALSE, l.expected, l.sum, l.name, IF s.kind = "entry" THEN 0 ELSE l.max) BY <1>2 DEF After
  <2>2. After(l, s).have = FALSE /\ After(l, s).expected = l.expected BY <2>1 DEF Lfn
  <2> QED BY <2>2 DEF IsLfn
<1> QED BY <1>1, <1>2

\* States that lead to the same still do after the same slot.
LEMMA AlikeAfter ==
  ASSUME NEW l, IsLfn(l), NEW m, IsLfn(m), NEW s, IsSlot(s), SameState(l, m)
  PROVE  SameState(After(l, s), After(m, s))
<1>1. CASE l = m BY <1>1 DEF SameState
<1>2. CASE l # m /\ s.kind = "fragment"
  <2>0. ~l.have /\ ~m.have /\ s.last \in BOOLEAN BY <1>2 DEF SameState, IsSlot
  <2>1. CASE s.last
    <3>1. Fed(l, s) = Fed(m, s) BY <1>2, <2>1, FedIs
    <3> QED BY <1>2, <3>1 DEF SameState, After
  <2>2. CASE ~s.last
    <3>1. ~Fed(l, s).have /\ ~Fed(m, s).have BY <1>2, <2>0, <2>2, FedIs
    <3> QED BY <1>2, <3>1 DEF SameState, After
  <2> QED BY <2>0, <2>1, <2>2
<1>3. CASE s.kind # "fragment"
  <2>1. ~After(l, s).have BY <1>3, AfterIs
  <2>2. ~After(m, s).have BY <1>3, AfterIs
  <2> QED BY <2>1, <2>2 DEF SameState
<1> QED BY <1>1, <1>2, <1>3

\* The walk is always in such a state, and has something only behind a fragment.
LEMMA AssembledTyped ==
  ASSUME NEW d, Readable(d)
  PROVE  /\ \A k \in 0 .. Len(d) : IsLfn(Assembled(d)[k])
         /\ ~Assembled(d)[0].have
         /\ \A k \in 1 .. Len(d) :
              Assembled(d)[k].have => d[k].kind = "fragment" /\ Assembled(d)[k].sum = d[k].sum
<1> DEFINE n == Len(d)
           f == Assembled(d)
           K == {k \in 0 .. n : IsLfn(f[k])}
<1>0. n \in Nat /\ \A k \in 1 .. n : IsSlot(d[k]) BY DEF Readable
<1>1. f[0] = NoLfn /\ \A k \in 1 .. n : f[k] = After(f[k - 1], d[k]) BY <1>0, AssembledIs
<1> HIDE DEF f, n
<1>8. IsLfn(NoLfn) /\ ~NoLfn.have BY DEF IsLfn, NoLfn, Lfn
<1>2. 0 \in K BY <1>0, <1>1, <1>8
<1>3. ASSUME NEW k \in 1 .. n, k - 1 \in K PROVE k \in K
  <2>1. IsLfn(f[k - 1]) /\ IsSlot(d[k]) /\ f[k] = After(f[k - 1], d[k]) BY <1>0, <1>1, <1>3
  <2>2. IsLfn(f[k]) BY <2>1, AfterIs
  <2> QED BY <1>0, <2>2
<1> HIDE DEF K
<1>4. \A k \in 0 .. n : k \in K BY <1>0, <1>2, <1>3, Rises
<1>5. \A k \in 0 .. n : IsLfn(f[k]) BY <1>4 DEF K
<1>6. ASSUME NEW k \in 1 .. n, f[k].have PROVE d[k].kind = "fragment" /\ f[k].sum = d[k].sum
  <2>1. k - 1 \in 0 .. n BY <1>0
  <2>2. IsLfn(f[k - 1]) /\ IsSlot(d[k]) /\ f[k] = After(f[k - 1], d[k]) BY <1>0, <1>1, <1>5, <2>1
  <2> QED BY <1>6, <2>2, AfterIs
<1>7. ~f[0].have BY <1>1, <1>8
<1> QED BY <1>5, <1>6, <1>7 DEF f, n

\* Where two directories are the same again behind something that is no
\* fragment, the walks of both lead to the same.
LEMMA SameFrom ==
  ASSUME NEW d, Readable(d), NEW e, Readable(e), NEW a \in Nat, NEW m \in Nat, a <= m, m <= Len(d), m <= Len(e),
         a = 0 \/ (d[a].kind # "fragment" /\ e[a].kind # "fragment"), \A i \in a + 1 .. m : d[i] = e[i]
  PROVE  \A k \in a .. m : SameState(Assembled(d)[k], Assembled(e)[k])
<1> DEFINE f == Assembled(d)
           g == Assembled(e)
           K == {k \in 0 .. m - a : SameState(f[a + k], g[a + k])}
<1>0. Len(d) \in Nat /\ Len(e) \in Nat /\ m - a \in Nat BY DEF Readable
<1>1. /\ \A k \in 0 .. m : IsLfn(f[k]) /\ IsLfn(g[k])
      /\ ~f[0].have /\ ~g[0].have
      /\ \A k \in 1 .. m : (f[k].have => d[k].kind = "fragment") /\ (g[k].have => e[k].kind = "fragment")
  <2>1. /\ \A k \in 0 .. Len(d) : IsLfn(f[k])
        /\ ~f[0].have /\ \A k \in 1 .. Len(d) : f[k].have => d[k].kind = "fragment" BY AssembledTyped
  <2>2. /\ \A k \in 0 .. Len(e) : IsLfn(g[k])
        /\ ~g[0].have /\ \A k \in 1 .. Len(e) : g[k].have => e[k].kind = "fragment" BY AssembledTyped
  <2> HIDE DEF f, g
  <2>3. \A k \in 0 .. m : k \in 0 .. Len(d) /\ k \in 0 .. Len(e) BY <1>0
  <2>4. \A k \in 1 .. m : k \in 1 .. Len(d) /\ k \in 1 .. Len(e) BY <1>0
  <2> QED BY <2>1, <2>2, <2>3, <2>4
<1>2. \A k \in 1 .. m : f[k] = After(f[k - 1], d[k]) /\ g[k] = After(g[k - 1], e[k])
  <2>1. \A k \in 1 .. Len(d) : f[k] = After(f[k - 1], d[k]) BY <1>0, AssembledIs
  <2>2. \A k \in 1 .. Len(e) : g[k] = After(g[k - 1], e[k]) BY <1>0, AssembledIs
  <2> HIDE DEF f, g
  <2>3. \A k \in 1 .. m : k \in 1 .. Len(d) /\ k \in 1 .. Len(e) BY <1>0
  <2> QED BY <2>1, <2>2, <2>3
<1>3. \A k \in 1 .. m : IsSlot(d[k]) BY <1>0 DEF Readable
<1> HIDE DEF f, g
<1>4. 0 \in K
  <2>1. SameState(f[a], g[a]) BY <1>1 DEF SameState
  <2> QED BY <1>0, <2>1
<1>5. ASSUME NEW k \in 1 .. m - a, k - 1 \in K PROVE k \in K
  <2>0. /\ a + k \in 1 .. m /\ a + k \in a + 1 .. m /\ a + k - 1 \in 0 .. m /\ a + (k - 1) = a + k - 1
        /\ k \in 0 .. m - a OBVIOUS
  <2> DEFINE x == a + k
  <2>1. SameState(f[x - 1], g[x - 1]) BY <1>5, <2>0
  <2> HIDE DEF K
  <2>2. /\ f[x] = After(f[x - 1], d[x]) /\ g[x] = After(g[x - 1], d[x])
        /\ IsLfn(f[x - 1]) /\ IsLfn(g[x - 1]) /\ IsSlot(d[x]) BY <1>1, <1>2, <1>3, <2>0
  <2> HIDE DEF x
  <2>3. SameState(f[x], g[x]) BY <2>1, <2>2, AlikeAfter
  <2> QED BY <2>0, <2>3 DEF K, x
<1> HIDE DEF K
<1>6. \A k \in 0 .. m - a : k \in K BY <1>0, <1>4, <1>5, Rises
<1>7. \A k \in a .. m : k - a \in 0 .. m - a /\ a + (k - a) = k BY <1>0
<1>8. ASSUME NEW k \in a .. m PROVE SameState(f[k], g[k])
  <2>1. k - a \in K BY <1>6, <1>7
  <2>2. SameState(f[a + (k - a)], g[a + (k - a)]) BY <2>1 DEF K
  <2> QED BY <1>7, <2>2
<1> QED BY <1>8 DEF f, g

\* Then they show the same.
LEMMA SameShown ==
  ASSUME NEW d, Readable(d), NEW e, Readable(e), NEW a \in Nat, NEW k \in Nat, a < k, k <= Len(d), k <= Len(e),
         a = 0 \/ (d[a].kind # "fragment" /\ e[a].kind # "fragment"), \A i \in a + 1 .. k : d[i] = e[i]
  PROVE  Shown(d, k) = Shown(e, k)
<1> DEFINE f == Assembled(d)[k - 1]
           g == Assembled(e)[k - 1]
<1>0. Len(d) \in Nat /\ Len(e) \in Nat BY DEF Readable
<1>1. SameState(f, g)
  <2>1. k - 1 \in Nat /\ a <= k - 1 /\ k - 1 <= Len(d) /\ k - 1 <= Len(e) /\ k - 1 \in a .. k - 1 BY <1>0
  <2>2. \A i \in a + 1 .. k - 1 : d[i] = e[i] OBVIOUS
  <2> DEFINE m == k - 1
  <2> HIDE DEF m
  <2>3. \A j \in a .. m : SameState(Assembled(d)[j], Assembled(e)[j]) BY <2>1, <2>2, SameFrom DEF m
  <2> QED BY <2>1, <2>3 DEF m
<1>2. d[k] = e[k] OBVIOUS
<1> HIDE DEF f, g
<1>3. (f.have /\ f.expected = 0 /\ f.max # 0 /\ f.sum = d[k].short)
        <=> (g.have /\ g.expected = 0 /\ g.max # 0 /\ g.sum = e[k].short) BY <1>1, <1>2 DEF SameState
<1>4. f.have => f.name = g.name BY <1>1 DEF SameState
<1> DEFINE x == f.have /\ f.expected = 0 /\ f.max # 0 /\ f.sum = d[k].short
           y == g.have /\ g.expected = 0 /\ g.max # 0 /\ g.sum = e[k].short
<1>5. Shown(d, k) = [name |-> IF x THEN <<f.name, 0>> ELSE d[k].short, short |-> d[k].short] BY Zenon DEF Shown, f
<1>6. Shown(e, k) = [name |-> IF y THEN <<g.name, 0>> ELSE e[k].short, short |-> e[k].short] BY Zenon DEF Shown, g
<1>7. x => f.have OBVIOUS
<1>8. x <=> y BY <1>3
<1> HIDE DEF x, y
<1>9. (IF x THEN <<f.name, 0>> ELSE d[k].short) = (IF y THEN <<g.name, 0>> ELSE e[k].short) BY <1>2, <1>4, <1>7, <1>8
<1> DEFINE b == IF x THEN <<f.name, 0>> ELSE d[k].short
           c == IF y THEN <<g.name, 0>> ELSE e[k].short
<1>10. b = c /\ d[k].short = e[k].short BY <1>2, <1>9
<1>11. Shown(d, k) = [name |-> b, short |-> d[k].short] /\ Shown(e, k) = [name |-> c, short |-> e[k].short]
  BY <1>5, <1>6, Zenon
<1> HIDE DEF b, c
<1> QED BY <1>10, <1>11, Zenon

\* An entry shows its alias unless a fragment with its checksum is before it.
LEMMA NotLong ==
  ASSUME NEW d, Readable(d), NEW k \in 1 .. Len(d),
         k = 1 \/ d[k - 1].kind # "fragment" \/ d[k - 1].sum # d[k].short
  PROVE  Shown(d, k) = [name |-> d[k].short, short |-> d[k].short]
<1> DEFINE f == Assembled(d)[k - 1]
<1>0. Len(d) \in Nat BY DEF Readable
<1>1. ~f.have \/ f.sum # d[k].short
  <2>1. CASE k = 1 BY <2>1, AssembledTyped
  <2>2. CASE k # 1
    <3>1. k - 1 \in 1 .. Len(d) BY <1>0, <2>2
    <3> QED BY <2>2, <3>1, AssembledTyped
  <2> QED BY <2>1, <2>2
<1> DEFINE x == f.have /\ f.expected = 0 /\ f.max # 0 /\ f.sum = d[k].short
<1>2. Shown(d, k) = [name |-> IF x THEN <<f.name, 0>> ELSE d[k].short, short |-> d[k].short] BY Zenon DEF Shown, f
<1>3. ~x BY <1>1
<1> HIDE DEF x
<1> QED BY <1>2, <1>3

\* The fragments of a name from s on, and its entry behind them.
Spells(e, s, p, n, short) ==
    /\ \A i \in 1 .. p : e[s + i - 1] = Fragment(p + 1 - i, i = 1, short, n)
    /\ e[s + p] = Entry(short)

\* A long name that was written with its entry is read again.
LEMMA Spelled ==
  ASSUME NEW d, Readable(d), NEW s \in Nat \ {0}, NEW p \in Nat \ {0}, s + p <= Len(d), NEW n, NEW short,
         Spells(d, s, p, n, short)
  PROVE  Shown(d, s + p) = [name |-> <<n, 0>>, short |-> short]
<1> DEFINE f == Assembled(d)
           K == {k \in 0 .. p : k = 0 \/ f[s + k - 1] = Having(p - k, short, n, p)}
<1>0. Len(d) \in Nat /\ p \in Nat BY DEF Readable
<1>1. /\ \A k \in 0 .. Len(d) : IsLfn(f[k])
      /\ \A k \in 1 .. Len(d) : IsSlot(d[k]) /\ f[k] = After(f[k - 1], d[k])
  BY <1>0, AssembledTyped, AssembledIs DEF Readable
<1> HIDE DEF f
<1>2. 0 \in K BY <1>0
<1>3. ASSUME NEW k \in 1 .. p, k - 1 \in K PROVE k \in K
  <2> DEFINE x == s + k - 1
             c == p + 1 - k
  <2>0. /\ x \in 1 .. Len(d) /\ x - 1 \in 0 .. Len(d) /\ s + (k - 1) - 1 = x - 1 /\ k \in 0 .. p
        /\ p - (k - 1) = c /\ c - 1 = p - k /\ c \in Nat BY <1>0
  <2>1. d[x] = Fragment(c, k = 1, short, n) BY DEF Spells
  <2>2. k = 1 \/ f[x - 1] = Having(c, short, n, p)
    <3>1. k - 1 = 0 \/ f[s + (k - 1) - 1] = Having(p - (k - 1), short, n, p) BY <1>3
    <3> QED BY <2>0, <3>1
  <2> HIDE DEF x, c, K
  <2>3. /\ d[x].kind = "fragment" /\ d[x].order = c /\ d[x].sum = short /\ d[x].name = n
        /\ d[x].last <=> k = 1
    <3> DEFINE q == k = 1
    <3>1. d[x] = Fragment(c, q, short, n) BY <2>1
    <3>2. q <=> k = 1 OBVIOUS
    <3> HIDE DEF q
    <3>3. d[x] = [kind |-> "fragment", order |-> c, last |-> q, sum |-> short, name |-> n] BY <3>1, Zenon DEF Fragment
    <3>4. d[x].kind = "fragment" /\ d[x].order = c /\ d[x].last = q /\ d[x].sum = short /\ d[x].name = n BY <3>3
    <3> QED BY <3>2, <3>4, Zenon
  <2>4. f[x] = Fed(f[x - 1], d[x]) /\ IsLfn(f[x - 1]) /\ IsSlot(d[x]) BY <1>1, <2>0, <2>3 DEF After
  <2>5. CASE k = 1
    <3>1. Fed(f[x - 1], d[x]) = Having(c - 1, short, n, c) BY <2>3, <2>4, <2>5, FedIs
    <3>2. c = p BY <2>5 DEF c
    <3>3. f[x] = Having(p - k, short, n, p) BY <2>0, <2>4, <3>1, <3>2
    <3> QED BY <2>0, <3>3 DEF K, x
  <2>6. CASE k # 1
    <3>1. f[x - 1] = Having(c, short, n, p) BY <2>2, <2>6
    <3>2. /\ f[x - 1].have /\ f[x - 1].expected = c /\ f[x - 1].sum = short /\ f[x - 1].name = n
          /\ f[x - 1].max = p BY <3>1 DEF Having, Lfn
    <3>3. Fed(f[x - 1], d[x]) = Having(c - 1, short, n, p) BY <2>3, <2>4, <2>6, <3>2, FedIs
    <3>4. f[x] = Having(p - k, short, n, p) BY <2>0, <2>4, <3>3
    <3> QED BY <2>0, <3>4 DEF K, x
  <2> QED BY <2>5, <2>6
<1> HIDE DEF K
<1>4. \A k \in 0 .. p : k \in K BY <1>0, <1>2, <1>3, Rises
<1>5. p \in K BY <1>0, <1>4
<1>6. f[s + p - 1] = Having(p - p, short, n, p) BY <1>0, <1>5 DEF K
<1> DEFINE y == s + p
           l == f[y - 1]
<1>7. d[y].short = short BY DEF Entry, Spells
<1>8. l.have /\ l.expected = 0 /\ l.max # 0 /\ l.sum = short /\ l.name = n
  <2>1. p - p = 0 /\ y - 1 = s + p - 1 OBVIOUS
  <2>2. l = Having(0, short, n, p) BY <1>6, <2>1
  <2> HIDE DEF l
  <2> QED BY <2>2 DEF Having, Lfn
<1>9. Shown(d, y) = [name |-> IF l.have /\ l.expected = 0 /\ l.max # 0 /\ l.sum = d[y].short THEN <<l.name, 0>>
                              ELSE d[y].short, short |-> d[y].short] BY Zenon DEF Shown, f
<1> HIDE DEF y, l
<1>10. Shown(d, y) = [name |-> <<n, 0>>, short |-> short] BY <1>7, <1>8, <1>9
<1> QED BY <1>10 DEF y

-----------------------------------------------------------------------------
\* The least of a set of numbers.
LEMMA MinIs ==
  ASSUME NEW S, S \subseteq Nat, S # {}
  PROVE  Min(S) \in S /\ \A y \in S : Min(S) <= y
<1>1. PICK k \in S : \A j \in Nat : j < k => j \notin S BY LeastIn
<1>2. \A y \in S : k <= y BY <1>1
<1> QED BY <1>2 DEF Min

\* And the greatest.
LEMMA MaxIs ==
  ASSUME NEW N \in Nat, NEW S, S \subseteq 0 .. N, S # {}
  PROVE  Max(S) \in S /\ \A y \in S : y <= Max(S)
<1> DEFINE T == {N - x : x \in S}
<1>0. \A x \in S : x \in Nat /\ x <= N /\ N - x \in Nat OBVIOUS
<1>1. T \subseteq Nat /\ T # {} BY <1>0
<1>2. PICK k \in T : \A j \in Nat : j < k => j \notin T BY <1>1, LeastIn
<1>3. PICK x \in S : k = N - x BY <1>2
<1>4. \A y \in S : y <= x
  <2>1. SUFFICES ASSUME NEW y \in S, ~(y <= x) PROVE FALSE BY Zenon
  <2>2. N - y \in T BY Zenon
  <2>3. N - y \in Nat /\ N - y < k BY <1>0, <1>3, <2>1
  <2> QED BY <1>2, <2>2, <2>3
<1> QED BY <1>4 DEF Max

\* The free slots that end at a place, and what is before them.
LEMMA RunIs ==
  ASSUME NEW k \in Nat
  PROVE  /\ Run(k) \in 0 .. k
         /\ \A j \in k - Run(k) + 1 .. k : Free(j)
         /\ k - Run(k) # 0 => ~Free(k - Run(k))
<1> DEFINE S == {0} \cup {j \in 1 .. k : ~Free(j)}
           m == Max(S)
<1>1. S \subseteq 0 .. k /\ S # {} OBVIOUS
<1>2. m \in S /\ \A y \in S : y <= m BY <1>1, MaxIs
<1>3. Run(k) = k - m BY DEF Run
<1>4. m \in 0 .. k /\ (m # 0 => ~Free(m)) BY <1>1, <1>2
<1>5. \A j \in m + 1 .. k : Free(j)
  <2>1. SUFFICES ASSUME NEW j \in m + 1 .. k, ~Free(j) PROVE FALSE OBVIOUS
  <2>2. j \in S BY <1>4, <2>1
  <2> QED BY <1>2, <1>4, <2>2
<1> HIDE DEF m, S
<1>6. k - Run(k) = m /\ Run(k) \in 0 .. k BY <1>3, <1>4
<1> QED BY <1>4, <1>5, <1>6

\* What alloc_dir_slots finds for an entry of so many slots: free ones, either
\* all before the end of what is used, or up to a new end.
Space(a, need) ==
    LET s == a.start
        t == a.start + need - 1
        M == Len(slots) + a.grow * PER IN
    /\ a.grow * PER \in Nat /\ s \in Nat \ {0} /\ s - 1 <= Len(slots) /\ t <= M
    /\ \A k \in s .. t : k <= Len(slots) => Free(k)
    /\ ~PastEnd(slots, s - 1)
    /\ \/ t <= Len(slots) /\ ~PastEnd(slots, t) /\ a.grow * PER = 0 /\ a.mark = 0
       \/ (\A k \in s .. Len(slots) : Free(k)) /\ a.mark = IF t + 1 <= M THEN t + 1 ELSE 0

\* alloc_dir_slots finds such room, or none.
LEMMA SpaceFound ==
  ASSUME PER \in Nat \ {0}, Readable(slots), NEW need \in Nat \ {0}, NEW a, a = AllocDirSlots(need), a.start # 0
  PROVE  Space(a, need)
<1> DEFINE N == Len(slots)
           runs == {k \in DOMAIN slots : ~PastEnd(slots, k) /\ Run(k) >= need}
           start == N - Run(N) + 1
           G == {g \in 0 .. need : N + g * PER >= start + need - 1}
           grow == Min(G)
<1>0. N \in Nat /\ DOMAIN slots = 1 .. N BY DEF Readable
<1>1. /\ runs # {} => a = [start |-> Min(runs) - need + 1, mark |-> 0, grow |-> 0]
      /\ runs = {} /\ ~(fixed /\ grow > 0) =>
           a = [start |-> start, grow |-> grow, mark |-> IF start + need <= N + grow * PER THEN start + need ELSE 0]
      /\ runs = {} /\ fixed /\ grow > 0 => a.start = 0 BY DEF AllocDirSlots
<1> HIDE DEF N, runs, start, G, grow
<1>2. CASE runs # {}
  <2> DEFINE m == Min(runs)
  <2>1. runs \subseteq Nat BY <1>0 DEF runs
  <2>2. m \in runs BY <1>2, <2>1, MinIs
  <2>3. m \in 1 .. N /\ ~PastEnd(slots, m) /\ Run(m) >= need BY <1>0, <2>2 DEF runs
  <2> HIDE DEF m
  <2>4. m \in Nat /\ Run(m) \in 0 .. m /\ \A j \in m - Run(m) + 1 .. m : Free(j) BY <1>0, <2>3, RunIs
  <2>5. a.start = m - need + 1 /\ a.mark = 0 /\ a.grow = 0 BY <1>1, <1>2 DEF m
  <2>6. \A k \in m - need + 1 .. m : Free(k) BY <2>3, <2>4
  <2>7. a.start + need - 1 = m /\ a.start \in Nat \ {0} /\ a.start - 1 <= m BY <2>3, <2>4, <2>5
  <2>8. ~PastEnd(slots, a.start - 1) BY <2>3, <2>7 DEF PastEnd
  <2>9. a.grow * PER = 0 BY <2>5
  <2> QED BY <1>0, <2>3, <2>5, <2>6, <2>7, <2>8, <2>9 DEF Space, N
<1>3. CASE runs = {}
  <2>1. a = [start |-> start, grow |-> grow, mark |-> IF start + need <= N + grow * PER THEN start + need ELSE 0]
    BY <1>1, <1>3
  <2>2. /\ Run(N) \in 0 .. N /\ \A j \in N - Run(N) + 1 .. N : Free(j)
        /\ N - Run(N) # 0 => ~Free(N - Run(N)) BY <1>0, RunIs
  <2>3. start \in Nat \ {0} /\ start - 1 <= N /\ start - 1 = N - Run(N) BY <1>0, <2>2 DEF start
  <2>4. need * PER >= need
    <3>1. need * PER = need * (PER - 1) + need /\ PER - 1 \in Nat OBVIOUS
    <3>2. need * (PER - 1) \in Nat BY <3>1
    <3> QED BY <3>1, <3>2
  <2>5. need \in G /\ G \subseteq Nat BY <1>0, <2>3, <2>4 DEF G
  <2>6. grow \in G BY <2>5, MinIs DEF grow
  <2>7. grow \in Nat /\ N + grow * PER >= start + need - 1 BY <2>6 DEF G
  <2>8. grow * PER \in Nat BY <2>7
  <2>9. ~PastEnd(slots, start - 1)
    <3>1. CASE start - 1 = 0 BY <3>1 DEF PastEnd
    <3>2. CASE start - 1 # 0 BY <2>2, <2>3, <3>2 DEF Free
    <3> QED BY <3>1, <3>2
  <2>10. a.start = start /\ a.grow = grow /\ a.mark = IF start + need <= N + grow * PER THEN start + need ELSE 0
    BY <2>1
  <2>11. \A k \in start .. N : Free(k) BY <1>0, <2>2, <2>3
  <2>12. start + need - 1 + 1 = start + need BY <2>3
  <2>13. \A k \in start .. start + need - 1 : k <= N => Free(k) BY <1>0, <2>3, <2>11
  <2> DEFINE w == grow * PER
  <2> HIDE DEF w
  <2>14. w \in Nat /\ N + w >= start + need - 1 /\ a.grow * PER = w
         /\ a.mark = IF start + need <= N + w THEN start + need ELSE 0 BY <2>7, <2>8, <2>10 DEF w
  <2> QED BY <1>0, <2>3, <2>9, <2>10, <2>11, <2>12, <2>13, <2>14 DEF Space, N
<1> QED BY <1>2, <1>3

-----------------------------------------------------------------------------
(***************************************************************************)
(* An entry more or less.                                                  *)
(***************************************************************************)
Used(d) == {k \in 1 .. Len(d) : ~PastEnd(d, k) /\ d[k].kind # "deleted"}

\* Directory e is d with the entry at t and the fragments from s on besides.
Lays(d, e, s, t) ==
    /\ Readable(d) /\ Readable(e) /\ s \in Nat /\ t \in Nat /\ s <= t /\ t <= Len(e)
    /\ Used(e) = Used(d) \cup (s .. t) /\ Used(d) \cap (s .. t) = {}
    /\ \A k \in s .. t : e[k].kind = IF k = t THEN "entry" ELSE "fragment"
    /\ \A k \in Used(d) :
        /\ k < s => \A x \in 1 .. k : e[x] = d[x]
        /\ k > t => t <= Len(d) /\ d[t].kind = "deleted" /\ \A x \in t + 1 .. k : e[x] = d[x]

\* The entries are among the slots in use.
LEMMA EntriesAre ==
  ASSUME NEW d, Readable(d)
  PROVE  Entries(d) = {k \in Used(d) : d[k].kind = "entry"} BY DEF Entries, Used, Readable

\* The other entries stay, and are shown as before.
LEMMA LaysKeeps ==
  ASSUME NEW d, NEW e, NEW s, NEW t, Lays(d, e, s, t)
  PROVE  /\ Entries(e) = Entries(d) \cup {t} /\ t \notin Entries(d)
         /\ \A k \in Used(d) : e[k] = d[k]
         /\ \A k \in Entries(d) : Shown(e, k) = Shown(d, k)
<1>0. /\ Readable(d) /\ Readable(e) /\ s \in Nat /\ t \in Nat /\ s <= t /\ t <= Len(e)
      /\ Used(e) = Used(d) \cup (s .. t) /\ Used(d) \cap (s .. t) = {} BY DEF Lays
<1>1. \A k \in s .. t : e[k].kind = IF k = t THEN "entry" ELSE "fragment" BY DEF Lays
<1>2. Len(d) \in Nat /\ Len(e) \in Nat BY <1>0 DEF Readable
<1>3. \A k \in Used(d) : k \in 1 .. Len(d) /\ (k < s \/ k > t) BY <1>0, <1>2 DEF Used
<1>4. \A k \in Used(d) :
        /\ k < s => \A x \in 1 .. k : e[x] = d[x]
        /\ k > t => t <= Len(d) /\ d[t].kind = "deleted" /\ \A x \in t + 1 .. k : e[x] = d[x] BY DEF Lays
<1>5. \A k \in Used(d) : e[k] = d[k]
  <2>1. TAKE k \in Used(d)
  <2>2. k \in 1 .. Len(d) /\ k \in 1 .. k BY <1>2, <1>3
  <2>3. CASE k < s BY <1>4, <2>2, <2>3
  <2>4. CASE k > t
    <3>1. k \in t + 1 .. k BY <1>0, <2>2, <2>4
    <3> QED BY <1>4, <2>4, <3>1
  <2> QED BY <1>3, <2>3, <2>4
<1>6. Entries(d) = {k \in Used(d) : d[k].kind = "entry"} /\ Entries(e) = {k \in Used(e) : e[k].kind = "entry"}
  BY <1>0, EntriesAre
<1>7. t \in s .. t BY <1>0
<1>8. Entries(e) = Entries(d) \cup {t} /\ t \notin Entries(d)
  <2>1. \A k \in Used(e) : e[k].kind = "entry" <=> k \in Entries(d) \cup {t} BY <1>0, <1>1, <1>5, <1>6, <1>7
  <2>2. Entries(d) \cup {t} \subseteq Used(e) BY <1>0, <1>6, <1>7
  <2>3. t \notin Used(d) BY <1>0, <1>7
  <2> QED BY <1>6, <2>1, <2>2, <2>3
<1>9. ASSUME NEW k \in Entries(d) PROVE Shown(e, k) = Shown(d, k)
  <2>1. k \in Used(d) /\ k \in Nat /\ k # 0 /\ k <= Len(d) BY <1>2, <1>3, <1>6, <1>9
  <2>2. k \in Used(e) /\ k <= Len(e) BY <1>0, <1>2, <2>1 DEF Used
  <2>3. CASE k < s
    <3> DEFINE a == 0
    <3>1. \A x \in 1 .. k : d[x] = e[x] BY <1>4, <2>1, <2>3
    <3>2. /\ a \in Nat /\ a < k /\ (a = 0 \/ (d[a].kind # "fragment" /\ e[a].kind # "fragment"))
          /\ \A x \in a + 1 .. k : d[x] = e[x] BY <2>1, <3>1
    <3> HIDE DEF a
    <3>3. Shown(d, k) = Shown(e, k) BY <1>0, <2>1, <2>2, <3>2, SameShown
    <3> QED BY <3>3
  <2>4. CASE k > t
    <3>1. d[t].kind # "fragment" BY <1>4, <2>1, <2>4
    <3>2. e[t].kind # "fragment" BY <1>1, <1>7
    <3>3. \A x \in t + 1 .. k : d[x] = e[x] BY <1>4, <2>1, <2>4
    <3> QED BY <1>0, <2>1, <2>2, <2>4, <3>1, <3>2, <3>3, SameShown
  <2> QED BY <1>3, <2>1, <2>3, <2>4
<1> QED BY <1>5, <1>8, <1>9

\* The long names of the others stay whole, in both directions.
LEMMA WholeStays ==
  ASSUME NEW d, NEW e, NEW s, NEW t, Lays(d, e, s, t), NEW j, NEW p \in 1 .. j - 1
  PROVE  /\ Whole(d, j, p) => Whole(e, j, p)
         /\ Whole(e, j, p) /\ j # t => Whole(d, j, p)
<1>0. /\ Readable(d) /\ Readable(e) /\ s \in Nat /\ t \in Nat /\ s <= t /\ t <= Len(e)
      /\ Used(e) = Used(d) \cup (s .. t) /\ Used(d) \cap (s .. t) = {} BY DEF Lays
<1>1. /\ Entries(e) = Entries(d) \cup {t} /\ t \notin Entries(d)
      /\ \A k \in Used(d) : e[k] = d[k] BY LaysKeeps
<1>2. /\ Entries(d) = {k \in Used(d) : d[k].kind = "entry"} /\ Entries(e) = {k \in Used(e) : e[k].kind = "entry"}
      /\ Len(d) \in Nat /\ Len(e) \in Nat BY <1>0, EntriesAre DEF Readable
<1>3. ASSUME NEW x, x \in {d, e}, j \in Entries(x), NEW i \in 1 .. p, x[j - i].kind = "fragment"
      PROVE  j - i \in Used(x)
  <2>1. j \in 1 .. Len(x) /\ ~PastEnd(x, j) /\ Len(x) \in Nat BY <1>2, <1>3 DEF Used
  <2>2. p \in Nat /\ j - i \in 1 .. Len(x) /\ j - i <= j BY <2>1
  <2>3. ~PastEnd(x, j - i) BY <2>1, <2>2 DEF PastEnd
  <2> QED BY <1>3, <2>2, <2>3 DEF Used
<1>4. ASSUME Whole(d, j, p) PROVE Whole(e, j, p)
  <2>1. /\ j \in Entries(d)
        /\ \A i \in 1 .. p :
            /\ d[j - i].kind = "fragment" /\ d[j - i].sum = d[j].short /\ d[j - i].order = i
            /\ d[j - i].last <=> i = p BY <1>4 DEF Whole
  <2>2. \A i \in 1 .. p : e[j - i] = d[j - i] BY <1>1, <1>3, <2>1
  <2>3. e[j] = d[j] /\ j \in Entries(e) BY <1>1, <1>2, <2>1
  <2> QED BY <2>1, <2>2, <2>3 DEF Whole
<1>5. ASSUME Whole(e, j, p), j # t PROVE Whole(d, j, p)
  <2>1. /\ j \in Entries(e)
        /\ \A i \in 1 .. p :
            /\ e[j - i].kind = "fragment" /\ e[j - i].sum = e[j].short /\ e[j - i].order = i
            /\ e[j - i].last <=> i = p BY <1>5 DEF Whole
  <2>2. j \in Entries(d) /\ j \in Used(d) /\ j \in 1 .. Len(d) BY <1>1, <1>2, <1>5, <2>1 DEF Used
  <2>3. ASSUME NEW i \in 1 .. p PROVE j - i \in Used(d)
    <3>1. j - i \in Used(e) BY <1>3, <2>1
    <3>2. SUFFICES ASSUME j - i \in s .. t PROVE FALSE BY <1>0, <3>1
    <3>3. j \notin s .. t BY <1>0, <2>2
    <3>4. j > t /\ j - t \in 1 .. p /\ j - (j - t) = t BY <1>0, <2>2, <3>2, <3>3
    <3>5. e[t].kind = "fragment" BY <2>1, <3>4
    <3>6. t \in s .. t BY <1>0
    <3> QED BY <3>5, <3>6 DEF Lays
  <2>4. \A i \in 1 .. p : e[j - i] = d[j - i] BY <1>1, <2>3
  <2>5. e[j] = d[j] BY <1>1, <2>2
  <2> QED BY <2>1, <2>2, <2>4, <2>5 DEF Whole
<1> QED BY <1>4, <1>5

-----------------------------------------------------------------------------
\* write_entry: the fragments and the entry that are written.
LEMMA WrittenIs ==
  ASSUME NEW n, NEW short, NEW p \in Nat, p = DirNames[n].parts, NEW new, new = Written(n, short)
  PROVE  /\ Len(new) = p + 1
         /\ \A i \in 1 .. p : new[i] = Fragment(p + 1 - i, i = 1, short, n)
         /\ new[p + 1] = Entry(short)
         /\ \A i \in 1 .. p + 1 : IsSlot(new[i]) /\ new[i].kind = IF i = p + 1 THEN "entry" ELSE "fragment"
<1>1. new = [i \in 1 .. p + 1 |-> IF i <= p THEN Fragment(p + 1 - i, i = 1, short, n) ELSE Entry(short)]
  BY Zenon DEF Written
<1>2. Len(new) = p + 1 BY <1>1
<1>3. \A i \in 1 .. p : i \in 1 .. p + 1 /\ i <= p /\ i # p + 1 /\ p + 1 - i \in Nat \ {0} OBVIOUS
<1>4. p + 1 \in 1 .. p + 1 /\ ~(p + 1 <= p) /\ \A i \in 1 .. p + 1 : i \in 1 .. p \/ i = p + 1 OBVIOUS
<1>5. \A i \in 1 .. p : new[i] = Fragment(p + 1 - i, i = 1, short, n) BY <1>1, <1>3, Zenon
<1>6. new[p + 1] = Entry(short) BY <1>1, <1>4, Zenon
<1>7. ASSUME NEW i \in 1 .. p PROVE IsSlot(new[i]) /\ new[i].kind = "fragment"
  <2> DEFINE q == i = 1
             c == p + 1 - i
  <2>1. new[i] = Fragment(c, q, short, n) BY <1>5
  <2>2. q \in BOOLEAN /\ c \in Nat \ {0} BY <1>3
  <2> HIDE DEF q, c
  <2>3. new[i] = [kind |-> "fragment", order |-> c, last |-> q, sum |-> short, name |-> n] BY <2>1, Zenon DEF Fragment
  <2>4. new[i].kind = "fragment" /\ new[i].order = c /\ new[i].last = q BY <2>3
  <2>5. new[i].last \in BOOLEAN BY <2>2, <2>4, Zenon
  <2> QED BY <2>2, <2>4, <2>5 DEF IsSlot
<1>8. IsSlot(Entry(short)) /\ Entry(short).kind = "entry" BY DEF IsSlot, Entry
<1>9. ASSUME NEW i \in 1 .. p + 1 PROVE IsSlot(new[i]) /\ new[i].kind = IF i = p + 1 THEN "entry" ELSE "fragment"
  <2>1. CASE i \in 1 .. p BY <1>3, <1>7, <2>1
  <2>2. CASE i = p + 1 BY <1>6, <1>8, <2>2
  <2> QED BY <1>4, <2>1, <2>2
<1> QED BY <1>2, <1>5, <1>6, <1>9

\* write_entry as a whole.
LEMMA LaidLays ==
  ASSUME Readable(slots), NEW n, NEW short, NEW p \in Nat, p = DirNames[n].parts,
         NEW a, Space(a, p + 1), NEW e, e = LaidOut(a, Written(n, short))
  PROVE  Lays(slots, e, a.start, a.start + p) /\ Spells(e, a.start, p, n, short)
<1> DEFINE N == Len(slots)
           s == a.start
           t == a.start + p
           M == N + a.grow * PER
           new == Written(n, short)
           w == a.grow * PER
<1>0. N \in Nat /\ DOMAIN slots = 1 .. N /\ \A k \in 1 .. N : IsSlot(slots[k]) BY DEF Readable
<1>1. /\ w \in Nat /\ s \in Nat \ {0} /\ s - 1 <= N /\ s + (p + 1) - 1 <= N + w
      /\ \A k \in s .. s + (p + 1) - 1 : k <= N => Free(k)
      /\ ~PastEnd(slots, s - 1)
      /\ \/ s + (p + 1) - 1 <= N /\ ~PastEnd(slots, s + (p + 1) - 1) /\ w = 0 /\ a.mark = 0
         \/ /\ \A k \in s .. N : Free(k)
            /\ a.mark = IF s + (p + 1) - 1 + 1 <= N + w THEN s + (p + 1) - 1 + 1 ELSE 0 BY Zenon DEF Space
<1>2. /\ Len(new) = p + 1
      /\ \A i \in 1 .. p : new[i] = Fragment(p + 1 - i, i = 1, short, n)
      /\ new[p + 1] = Entry(short)
      /\ \A i \in 1 .. p + 1 : IsSlot(new[i]) /\ new[i].kind = IF i = p + 1 THEN "entry" ELSE "fragment" BY WrittenIs
<1>3. e = [k \in 1 .. N + w |->
            IF k \in s .. s + Len(new) - 1 THEN new[k - s + 1]
            ELSE IF k # a.mark /\ k \in DOMAIN slots THEN slots[k] ELSE End] BY Zenon DEF LaidOut
<1>4. s + (p + 1) - 1 = t /\ t \in Nat /\ s <= t /\ t # 0 BY <1>1
<1> HIDE DEF w, new, s, t, N
<1> DEFINE tail == /\ \A k \in s .. N : Free(k)
                   /\ a.mark = IF t + 1 <= N + w THEN t + 1 ELSE 0
           within == t <= N /\ ~PastEnd(slots, t) /\ w = 0 /\ a.mark = 0
<1>5. /\ w \in Nat /\ s \in Nat \ {0} /\ s - 1 <= N /\ t <= N + w
      /\ \A k \in s .. t : k <= N => Free(k)
      /\ ~PastEnd(slots, s - 1)
      /\ within \/ tail BY <1>1, <1>4
<1>6. a.mark = 0 \/ (a.mark = t + 1 /\ t + 1 <= N + w) BY <1>4, <1>5
<1>7. /\ DOMAIN e = 1 .. N + w /\ Len(e) = N + w
      /\ \A k \in s .. t : e[k] = new[k - s + 1] /\ k - s + 1 \in 1 .. p + 1 /\ (k - s + 1 = p + 1 <=> k = t)
      /\ \A k \in 1 .. N + w : k \notin s .. t => e[k] = IF k # a.mark /\ k <= N THEN slots[k] ELSE End
  <2>1. t = s + p /\ Len(new) = p + 1 /\ s + Len(new) - 1 = t BY <1>2, <1>5 DEF t, s
  <2>2. e = [k \in 1 .. N + w |->
              IF k \in s .. t THEN new[k - s + 1]
              ELSE IF k # a.mark /\ k \in 1 .. N THEN slots[k] ELSE End] BY <1>0, <1>3, <2>1
  <2>3. N + w \in Nat BY <1>0, <1>5
  <2>4. DOMAIN e = 1 .. N + w /\ Len(e) = N + w BY <2>2, <2>3
  <2>5. \A k \in 1 .. N + w : e[k] = IF k \in s .. t THEN new[k - s + 1]
                                     ELSE IF k # a.mark /\ k \in 1 .. N THEN slots[k] ELSE End BY <2>2, Zenon
  <2>6. \A k \in s .. t : k \in 1 .. N + w /\ k - s + 1 \in 1 .. p + 1 /\ (k - s + 1 = p + 1 <=> k = t)
    <3>1. N \in Nat /\ w \in Nat /\ s \in Nat \ {0} /\ t \in Nat /\ t <= N + w BY <1>0, <1>4, <1>5
    <3>2. t = s + p /\ p \in Nat BY <2>1
    <3> QED BY <3>1, <3>2
  <2>7. \A k \in 1 .. N + w : k \in 1 .. N <=> k <= N BY <1>0, <2>3
  <2> QED BY <2>4, <2>5, <2>6, <2>7
<1> HIDE DEF tail, within
<1>8. \A k \in s .. t : IsSlot(e[k]) /\ e[k].kind = IF k = t THEN "entry" ELSE "fragment" BY <1>2, <1>7
<1>9. Readable(e)
  <2>1. IsSlot(End) BY DEF IsSlot, End
  <2>2. ASSUME NEW k \in 1 .. N + w PROVE IsSlot(e[k])
    <3>1. CASE k \in s .. t BY <1>8, <3>1
    <3>2. CASE k \notin s .. t
      <4>1. k <= N => k \in 1 .. N BY <1>0, <1>5
      <4> QED BY <1>0, <1>7, <2>1, <3>2, <4>1
    <3> QED BY <3>1, <3>2
  <2>3. N + w \in Nat BY <1>0, <1>5
  <2> QED BY <1>7, <2>2, <2>3 DEF Readable
<1>10. \A x \in 1 .. s - 1 : e[x] = slots[x]
  <2>1. TAKE x \in 1 .. s - 1
  <2>2. x \in 1 .. N + w /\ x \notin s .. t /\ x <= N /\ x # a.mark BY <1>0, <1>4, <1>5, <1>6
  <2> QED BY <1>7, <2>2
<1>11. \A k \in s .. t : e[k].kind # "end" BY <1>8
<1>12. ASSUME NEW k \in 1 .. s - 1 PROVE ~PastEnd(slots, k) /\ ~PastEnd(e, k)
  <2>1. \A j \in 1 .. k : j \in 1 .. s - 1 BY <1>5
  <2> QED BY <1>5, <1>10, <2>1 DEF PastEnd
<1>13. ASSUME NEW k \in s .. t PROVE ~PastEnd(e, k)
  <2>1. \A j \in 1 .. k : j \in 1 .. s - 1 \/ j \in s .. t BY <1>4, <1>5
  <2>2. \A j \in 1 .. s - 1 : e[j].kind # "end" BY <1>5, <1>10 DEF PastEnd
  <2> QED BY <1>11, <2>1, <2>2 DEF PastEnd
<1>14. ASSUME within
       PROVE  /\ t <= N /\ slots[t].kind = "deleted" /\ w = 0
              /\ \A x \in t + 1 .. N : e[x] = slots[x]
              /\ \A k \in t + 1 .. N : PastEnd(e, k) <=> PastEnd(slots, k)
  <2>0. t <= N /\ ~PastEnd(slots, t) /\ w = 0 /\ a.mark = 0 BY <1>14 DEF within
  <2>1. t \in s .. t BY <1>4, <1>5
  <2>2. slots[t].kind = "deleted" BY <1>5, <2>0, <2>1 DEF Free
  <2>3. \A x \in t + 1 .. N : e[x] = slots[x]
    <3>1. TAKE x \in t + 1 .. N
    <3>2. x \in 1 .. N + w /\ x \notin s .. t /\ x <= N /\ x # a.mark BY <1>0, <1>4, <1>5, <2>0
    <3> QED BY <1>7, <3>2
  <2>4. ASSUME NEW k \in t + 1 .. N PROVE PastEnd(e, k) <=> PastEnd(slots, k)
    <3>1. \A j \in 1 .. k : j \in 1 .. t \/ (j \in t + 1 .. N /\ e[j] = slots[j]) BY <1>0, <1>4, <2>3
    <3>2. \A j \in 1 .. t : e[j].kind # "end" BY <1>13, <2>1 DEF PastEnd
    <3>3. \A j \in 1 .. t : slots[j].kind # "end" BY <2>0 DEF PastEnd
    <3> QED BY <3>1, <3>2, <3>3 DEF PastEnd
  <2> QED BY <2>0, <2>2, <2>3, <2>4
<1>15. ASSUME tail, NEW k \in 1 .. N + w, k > t PROVE PastEnd(e, k)
  <2>1. a.mark = t + 1 /\ t + 1 \in 1 .. N + w /\ t + 1 \notin s .. t /\ t + 1 \in 1 .. k
    BY <1>0, <1>4, <1>5, <1>15 DEF tail
  <2>2. e[t + 1] = End BY <1>7, <2>1
  <2> QED BY <2>1, <2>2 DEF PastEnd, End
<1>16. ASSUME NEW k \in Used(e), k \notin s .. t PROVE k \in Used(slots)
  <2>1. k \in 1 .. N + w /\ ~PastEnd(e, k) /\ e[k].kind # "deleted" BY <1>7, <1>16 DEF Used
  <2>2. CASE k < s
    <3>1. k \in 1 .. s - 1 /\ k \in 1 .. N BY <1>0, <1>5, <2>1, <2>2
    <3> QED BY <1>10, <1>12, <2>1, <3>1 DEF Used, N
  <2>3. CASE k > t
    <3>1. within BY <1>5, <1>15, <2>1, <2>3
    <3>2. k \in t + 1 .. N /\ k \in 1 .. N BY <1>0, <1>4, <1>14, <2>1, <2>3, <3>1
    <3> QED BY <1>14, <2>1, <3>1, <3>2 DEF Used, N
  <2> QED BY <1>4, <1>5, <1>16, <2>1, <2>2, <2>3
<1>17. ASSUME NEW k \in Used(slots)
       PROVE  /\ k \in 1 .. N /\ k \notin s .. t /\ k \in Used(e)
              /\ k < s => \A x \in 1 .. k : e[x] = slots[x]
              /\ k > t => t <= N /\ slots[t].kind = "deleted" /\ \A x \in t + 1 .. k : e[x] = slots[x]
  <2>1. k \in 1 .. N /\ ~PastEnd(slots, k) /\ slots[k].kind # "deleted" BY <1>17 DEF Used, N
  <2>2. ~Free(k) BY <2>1 DEF Free
  <2>3. k \notin s .. t BY <1>5, <2>1, <2>2
  <2>4. CASE k < s
    <3>1. k \in 1 .. s - 1 /\ k \in 1 .. N + w BY <1>0, <1>5, <2>1, <2>4
    <3>2. k \in Used(e) BY <1>7, <1>10, <1>12, <2>1, <3>1 DEF Used
    <3>3. \A x \in 1 .. k : e[x] = slots[x] BY <1>5, <1>10, <3>1
    <3> QED BY <1>4, <1>5, <2>1, <2>3, <2>4, <3>2, <3>3
  <2>5. CASE k > t
    <3>1. within BY <1>0, <1>4, <1>5, <2>1, <2>2, <2>5 DEF tail
    <3>2. k \in t + 1 .. N /\ k \in 1 .. N + w BY <1>0, <1>4, <1>5, <2>1, <2>5
    <3>3. k \in Used(e) BY <1>7, <1>14, <2>1, <3>1, <3>2 DEF Used
    <3>4. \A x \in t + 1 .. k : e[x] = slots[x] BY <1>0, <1>4, <1>14, <3>1, <3>2
    <3> QED BY <1>4, <1>5, <1>14, <2>1, <2>3, <2>5, <3>1, <3>3, <3>4
  <2> QED BY <1>4, <1>5, <2>1, <2>3, <2>4, <2>5
<1>18. ASSUME NEW k \in s .. t PROVE k \in Used(e)
  <2>1. k \in 1 .. N + w BY <1>0, <1>4, <1>5
  <2> QED BY <1>7, <1>8, <1>13, <2>1 DEF Used
<1>19. Used(e) = Used(slots) \cup (s .. t) /\ Used(slots) \cap (s .. t) = {} BY <1>16, <1>17, <1>18
<1>20. Lays(slots, e, s, t)
  <2>1. t <= Len(e) /\ s \in Nat BY <1>5, <1>7
  <2>2. \A k \in Used(slots) :
          /\ k < s => \A x \in 1 .. k : e[x] = slots[x]
          /\ k > t => t <= Len(slots) /\ slots[t].kind = "deleted" /\ \A x \in t + 1 .. k : e[x] = slots[x]
    BY <1>17 DEF N
  <2> QED BY <1>4, <1>8, <1>9, <1>19, <2>1, <2>2 DEF Lays
<1>21. ASSUME NEW i \in 1 .. p PROVE e[s + i - 1] = Fragment(p + 1 - i, i = 1, short, n)
  <2>1. s + i - 1 \in s .. t /\ (s + i - 1) - s + 1 = i BY <1>5 DEF t, s
  <2> QED BY <1>2, <1>7, <2>1
<1>22. e[t] = Entry(short)
  <2>1. t \in s .. t /\ t - s + 1 = p + 1 BY <1>4, <1>5 DEF t, s
  <2> QED BY <1>2, <1>7, <2>1
<1>23. Spells(e, s, p, n, short) BY <1>21, <1>22, Zenon DEF Spells, s, t
<1> QED BY <1>20, <1>23 DEF s, t

\* erase_entry: the fragments that go with an entry are its whole long name.
LEMMA ChainIs ==
  ASSUME Readable(slots), NEW t \in 1 .. Len(slots)
  PROVE  \E q \in 0 .. t - 1 :
            /\ ChainOf(t) = t - q .. t
            /\ \A i \in 1 .. q : slots[t - i].kind = "fragment"
            /\ \A p \in 1 .. t - 1 : Whole(slots, t, p) => q = p
<1> DEFINE Fitting(i) == slots[t - i].kind = "fragment" /\ slots[t - i].sum = slots[t].short /\ slots[t - i].order = i
           W == {p \in 1 .. t - 1 : (\A i \in 1 .. p : Fitting(i)) /\ slots[t - p].last}
           q == IF W = {} THEN 0 ELSE Min(W)
<1>0. t \in Nat /\ W \subseteq Nat BY DEF Readable
<1>1. ChainOf(t) = t - q .. t BY Zenon DEF ChainOf
<1>2. \A p \in 1 .. t - 1 : Whole(slots, t, p) => p \in W /\ \A i \in 1 .. p : slots[t - i].last <=> i = p
  <2>1. TAKE p \in 1 .. t - 1
  <2>2. HAVE Whole(slots, t, p)
  <2>3. p \in 1 .. p BY <1>0
  <2> QED BY <2>2, <2>3 DEF Whole
<1>3. CASE W = {}
  <2>0. 0 \in 0 .. t - 1 BY <1>0
  <2>1. q = 0 /\ 0 \in 0 .. t - 1
    <3> HIDE DEF W, Fitting
    <3> QED BY <1>3, <2>0
  <2>2. \A p \in 1 .. t - 1 : ~Whole(slots, t, p) BY <1>2, <1>3
  <2> HIDE DEF q, W, Fitting
  <2>3. ChainOf(t) = t - 0 .. t BY <1>1, <2>1
  <2>4. \A i \in 1 .. 0 : slots[t - i].kind = "fragment" OBVIOUS
  <2> DEFINE z == 0
  <2> HIDE DEF z
  <2>5. ChainOf(t) = t - z .. t /\ z \in 0 .. t - 1 /\ \A i \in 1 .. z : slots[t - i].kind = "fragment"
    BY <2>1, <2>3, <2>4, Zenon DEF z
  <2> QED BY <2>2, <2>5, Zenon
<1>4. CASE W # {}
  <2> DEFINE m == Min(W)
  <2>1. m \in W /\ \A y \in W : m <= y BY <1>0, <1>4, MinIs
  <2> HIDE DEF m
  <2>2. q = m BY <1>4 DEF m
  <2>3. m \in 1 .. t - 1 /\ (\A i \in 1 .. m : Fitting(i)) /\ slots[t - m].last BY <2>1
  <2>4. \A i \in 1 .. m : slots[t - i].kind = "fragment" BY <2>3
  <2> HIDE DEF q, W, Fitting
  <2>5. ASSUME NEW p \in 1 .. t - 1, Whole(slots, t, p) PROVE m = p
    <3>1. m <= p /\ m \in 1 .. p BY <1>0, <1>2, <2>1, <2>3, <2>5
    <3> QED BY <1>2, <2>3, <2>5, <3>1
  <2> QED BY <1>0, <1>1, <2>2, <2>3, <2>4, <2>5
<1> QED BY <1>3, <1>4

\* erase_entry: what is left is the directory without it.
LEMMA ErasedLays ==
  ASSUME Readable(slots), NEW t \in Entries(slots), NEW e,
         e = [j \in DOMAIN slots |-> IF j \in ChainOf(t) THEN Deleted ELSE slots[j]]
  PROVE  \E q \in 0 .. t - 1 :
            Lays(e, slots, t - q, t) /\ \A p \in 1 .. t - 1 : Whole(slots, t, p) => q = p
<1> DEFINE N == Len(slots)
<1>0. N \in Nat /\ DOMAIN slots = 1 .. N /\ \A k \in 1 .. N : IsSlot(slots[k]) BY DEF Readable
<1>1. t \in 1 .. N /\ ~PastEnd(slots, t) /\ slots[t].kind = "entry" BY <1>0 DEF Entries
<1>2. PICK q \in 0 .. t - 1 :
        /\ ChainOf(t) = t - q .. t
        /\ \A i \in 1 .. q : slots[t - i].kind = "fragment"
        /\ \A p \in 1 .. t - 1 : Whole(slots, t, p) => q = p BY <1>1, ChainIs
<1> DEFINE s == t - q
<1>3. s \in Nat /\ s >= 1 /\ s <= t /\ t <= N /\ t \in Nat BY <1>0, <1>1
<1>4. \A k \in s .. t : slots[k].kind = IF k = t THEN "entry" ELSE "fragment"
  <2>1. TAKE k \in s .. t
  <2>2. k # t => t - k \in 1 .. q /\ t - (t - k) = k BY <1>3
  <2> QED BY <1>1, <1>2, <2>2
<1>5. e = [j \in 1 .. N |-> IF j \in s .. t THEN Deleted ELSE slots[j]] BY <1>0, <1>2, Zenon
<1> HIDE DEF N, s
<1>6. DOMAIN e = 1 .. N /\ Len(e) = N BY <1>0, <1>5
<1>7. \A k \in 1 .. N : e[k] = IF k \in s .. t THEN Deleted ELSE slots[k] BY <1>5, Zenon
<1>8. Readable(e)
  <2>1. IsSlot(Deleted) BY DEF IsSlot, Deleted
  <2> QED BY <1>0, <1>6, <1>7, <2>1 DEF Readable
<1>9. Deleted.kind = "deleted" BY DEF Deleted
<1>10. \A k \in 1 .. N : (e[k].kind = "end") <=> (slots[k].kind = "end")
  <2>1. TAKE k \in 1 .. N
  <2>2. CASE k \in s .. t BY <1>4, <1>7, <1>9, <2>2
  <2>3. CASE k \notin s .. t BY <1>7, <2>3
  <2> QED BY <2>2, <2>3
<1>11. \A k \in 1 .. N : PastEnd(e, k) <=> PastEnd(slots, k)
  <2>1. TAKE k \in 1 .. N
  <2>2. \A j \in 1 .. k : j \in 1 .. N BY <1>0
  <2> QED BY <1>10, <2>2 DEF PastEnd
<1>12. ASSUME NEW k \in s .. t PROVE k \in Used(slots) /\ k \notin Used(e)
  <2>1. k \in 1 .. N BY <1>0, <1>3
  <2>2. ~PastEnd(slots, k)
    <3>1. \A j \in 1 .. k : j \in 1 .. t BY <1>3
    <3> QED BY <1>1, <3>1 DEF PastEnd
  <2>3. e[k].kind = "deleted" BY <1>7, <1>9, <2>1
  <2>4. slots[k].kind # "deleted" BY <1>4
  <2> QED BY <2>1, <2>2, <2>3, <2>4 DEF Used, N
<1>13. ASSUME NEW k, k \notin s .. t PROVE k \in Used(slots) <=> k \in Used(e) BY <1>6, <1>7, <1>11, <1>13 DEF Used, N
<1>14. Used(slots) = Used(e) \cup (s .. t) /\ Used(e) \cap (s .. t) = {} BY <1>12, <1>13
<1>15. ASSUME NEW k \in Used(e)
       PROVE  /\ k < s => \A x \in 1 .. k : slots[x] = e[x]
              /\ k > t => t <= Len(e) /\ e[t].kind = "deleted" /\ \A x \in t + 1 .. k : slots[x] = e[x]
  <2>1. k \in 1 .. N BY <1>6 DEF Used
  <2>2. k < s => \A x \in 1 .. k : x \in 1 .. N /\ x \notin s .. t BY <1>0, <1>3, <2>1
  <2>3. \A x \in t + 1 .. k : x \in 1 .. N /\ x \notin s .. t BY <1>0, <1>3, <2>1
  <2>4. t \in s .. t /\ t \in 1 .. N BY <1>1, <1>3
  <2> QED BY <1>3, <1>6, <1>7, <1>9, <2>2, <2>3, <2>4
<1>16. Lays(e, slots, s, t)
  <2>1. Readable(slots) /\ t <= Len(slots) BY <1>3 DEF N
  <2> QED BY <1>3, <1>4, <1>8, <1>14, <1>15, <2>1 DEF Lays
<1> QED BY <1>2, <1>16 DEF s

-----------------------------------------------------------------------------
\* The file an entry is shown as.
File(name, short) == [name |-> name, short |-> short]
\* No entry of a directory has that name or alias.
Unnamed(d, want) == \A k \in Entries(d) : want # Shown(d, k).name /\ want # Shown(d, k).short

\* A new entry with a name and an alias nobody has is one file more.
LEMMA OneMore ==
  ASSUME NEW d, NEW e, NEW s, NEW t, Lays(d, e, s, t), NoNameTwice(d),
         NEW name, NEW short, Shown(e, t) = File(name, short), Unnamed(d, name), Unnamed(d, short)
  PROVE  Walk(e) = Walk(d) \cup {File(name, short)} /\ NoNameTwice(e)
<1>1. /\ Entries(e) = Entries(d) \cup {t} /\ t \notin Entries(d)
      /\ \A k \in Entries(d) : Shown(e, k) = Shown(d, k) BY LaysKeeps
<1>2. Walk(e) = Walk(d) \cup {File(name, short)} BY <1>1 DEF Walk
<1>3. Shown(e, t).name = name /\ Shown(e, t).short = short BY DEF File
<1>4. ASSUME NEW i \in Entries(d)
      PROVE  {Shown(e, i).name, Shown(e, i).short} \cap {Shown(e, t).name, Shown(e, t).short} = {}
  BY <1>1, <1>3, <1>4 DEF Unnamed
<1>5. ASSUME NEW i \in Entries(d), NEW j \in Entries(d), i # j
      PROVE  {Shown(e, i).name, Shown(e, i).short} \cap {Shown(e, j).name, Shown(e, j).short} = {}
  <2>1. {Shown(d, i).name, Shown(d, i).short} \cap {Shown(d, j).name, Shown(d, j).short} = {} BY <1>5 DEF NoNameTwice
  <2> QED BY <1>1, <2>1
<1>6. ASSUME NEW i \in Entries(e), NEW j \in Entries(e), i # j
      PROVE  {Shown(e, i).name, Shown(e, i).short} \cap {Shown(e, j).name, Shown(e, j).short} = {}
  <2>1. CASE i = t
    <3>1. {Shown(e, j).name, Shown(e, j).short} \cap {Shown(e, i).name, Shown(e, i).short} = {}
      BY <1>1, <1>4, <1>6, <2>1
    <3> QED BY <3>1
  <2>2. CASE j = t BY <1>1, <1>4, <1>6, <2>2
  <2>3. CASE i # t /\ j # t BY <1>1, <1>5, <1>6, <2>3
  <2> QED BY <2>1, <2>2, <2>3
<1> QED BY <1>2, <1>6 DEF NoNameTwice

\* An entry that goes is one file less, the one it was found as.
LEMMA OneLess ==
  ASSUME NEW d, NEW e, NEW s, NEW t, Lays(d, e, s, t), NoNameTwice(e),
         NEW want, want = Shown(e, t).name \/ want = Shown(e, t).short
  PROVE  Walk(d) = {f \in Walk(e) : want \notin {f.name, f.short}} /\ NoNameTwice(d)
<1>1. /\ Entries(e) = Entries(d) \cup {t} /\ t \notin Entries(d)
      /\ \A k \in Entries(d) : Shown(e, k) = Shown(d, k) BY LaysKeeps
<1>2. ASSUME NEW i \in Entries(d), NEW j \in Entries(d), i # j
      PROVE  {Shown(d, i).name, Shown(d, i).short} \cap {Shown(d, j).name, Shown(d, j).short} = {}
  <2>1. {Shown(e, i).name, Shown(e, i).short} \cap {Shown(e, j).name, Shown(e, j).short} = {}
    BY <1>1, <1>2 DEF NoNameTwice
  <2> QED BY <1>1, <2>1
<1>3. ASSUME NEW k \in Entries(d) PROVE want \notin {Shown(d, k).name, Shown(d, k).short}
  <2>1. {Shown(e, k).name, Shown(e, k).short} \cap {Shown(e, t).name, Shown(e, t).short} = {}
    BY <1>1, <1>3 DEF NoNameTwice
  <2> QED BY <1>1, <2>1
<1>4. Walk(d) \subseteq {f \in Walk(e) : want \notin {f.name, f.short}} BY <1>1, <1>3 DEF Walk
<1>5. ASSUME NEW f \in Walk(e), want \notin {f.name, f.short} PROVE f \in Walk(d)
  <2>1. PICK k \in Entries(e) : f = Shown(e, k) BY DEF Walk
  <2>2. k # t BY <1>5, <2>1
  <2> QED BY <1>1, <2>1, <2>2 DEF Walk
<1> QED BY <1>2, <1>4, <1>5 DEF NoNameTwice

\* A new entry with a whole long name leaves the directory tidy.
LEMMA StaysTidy ==
  ASSUME NEW d, NEW e, NEW s, NEW t, Lays(d, e, s, t), Tidy(d), s = t \/ Whole(e, t, t - s)
  PROVE  Tidy(e)
<1>0. /\ Readable(d) /\ Readable(e) /\ s \in Nat /\ t \in Nat /\ s <= t /\ t <= Len(e)
      /\ Used(e) = Used(d) \cup (s .. t) /\ Used(d) \cap (s .. t) = {}
      /\ \A k \in s .. t : e[k].kind = IF k = t THEN "entry" ELSE "fragment" BY DEF Lays
<1>1. /\ Entries(e) = Entries(d) \cup {t} /\ t \notin Entries(d)
      /\ \A k \in Used(d) : e[k] = d[k] BY LaysKeeps
<1>2. DOMAIN d = 1 .. Len(d) /\ DOMAIN e = 1 .. Len(e) /\ Len(d) \in Nat /\ Len(e) \in Nat BY <1>0 DEF Readable
<1>3. ASSUME NEW k \in DOMAIN e, e[k].kind = "fragment", ~PastEnd(e, k)
      PROVE  \/ e[k].sum \notin Aliases
             \/ \E j \in Entries(e) : \E p \in 1 .. j - 1 : Whole(e, j, p) /\ k \in j - p .. j - 1
  <2>1. k \in Used(e) BY <1>2, <1>3 DEF Used
  <2>2. CASE k \in s .. t
    <3>1. k # t BY <1>0, <1>3, <2>2
    <3>2. s # t /\ Whole(e, t, t - s) /\ k \in t - (t - s) .. t - 1 BY <1>0, <2>2, <3>1
    <3>3. t \in Entries(e) /\ t - s \in 1 .. t - 1 BY <1>1, <3>2 DEF Whole
    <3> QED BY <3>2, <3>3
  <2>3. CASE k \notin s .. t
    <3>1. k \in Used(d) /\ e[k] = d[k] BY <1>0, <1>1, <2>1, <2>3
    <3>2. k \in DOMAIN d /\ d[k].kind = "fragment" /\ ~PastEnd(d, k) BY <1>2, <1>3, <3>1 DEF Used
    <3>3. \/ d[k].sum \notin Aliases
          \/ \E j \in Entries(d) : \E p \in 1 .. j - 1 : Whole(d, j, p) /\ k \in j - p .. j - 1 BY <3>2 DEF Tidy
    <3>4. ASSUME NEW j \in Entries(d), NEW p \in 1 .. j - 1, Whole(d, j, p)
          PROVE  j \in Entries(e) /\ Whole(e, j, p) BY <1>1, <3>4, WholeStays
    <3> QED BY <3>1, <3>3, <3>4
  <2> QED BY <2>2, <2>3
<1> QED BY <1>3 DEF Tidy

\* And so does an entry that goes with all of its long name.
LEMMA LeftTidy ==
  ASSUME NEW d, NEW e, NEW s, NEW t, Lays(d, e, s, t), Tidy(e), \A p \in 1 .. t - 1 : Whole(e, t, p) => p = t - s
  PROVE  Tidy(d)
<1>0. /\ Readable(d) /\ Readable(e) /\ s \in Nat /\ t \in Nat /\ s <= t /\ t <= Len(e)
      /\ Used(e) = Used(d) \cup (s .. t) /\ Used(d) \cap (s .. t) = {} BY DEF Lays
<1>1. /\ Entries(e) = Entries(d) \cup {t} /\ t \notin Entries(d)
      /\ \A k \in Used(d) : e[k] = d[k] BY LaysKeeps
<1>2. DOMAIN d = 1 .. Len(d) /\ DOMAIN e = 1 .. Len(e) /\ Len(d) \in Nat /\ Len(e) \in Nat BY <1>0 DEF Readable
<1>3. ASSUME NEW k \in DOMAIN d, d[k].kind = "fragment", ~PastEnd(d, k)
      PROVE  \/ d[k].sum \notin Aliases
             \/ \E j \in Entries(d) : \E p \in 1 .. j - 1 : Whole(d, j, p) /\ k \in j - p .. j - 1
  <2>1. k \in Used(d) BY <1>2, <1>3 DEF Used
  <2>2. k \in Used(e) /\ k \notin s .. t /\ e[k] = d[k] BY <1>0, <1>1, <2>1
  <2>3. k \in DOMAIN e /\ e[k].kind = "fragment" /\ ~PastEnd(e, k) BY <1>2, <1>3, <2>2 DEF Used
  <2>4. \/ e[k].sum \notin Aliases
        \/ \E j \in Entries(e) : \E p \in 1 .. j - 1 : Whole(e, j, p) /\ k \in j - p .. j - 1 BY <2>3 DEF Tidy
  <2>5. ASSUME NEW j \in Entries(e), NEW p \in 1 .. j - 1, Whole(e, j, p), k \in j - p .. j - 1
        PROVE  j \in Entries(d) /\ Whole(d, j, p)
    <3>1. j # t
      <4>1. SUFFICES ASSUME j = t PROVE FALSE OBVIOUS
      <4>2. p = t - s BY <2>5, <4>1
      <4>3. k \in s .. t BY <1>0, <2>5, <4>1, <4>2
      <4> QED BY <2>2, <4>3
    <3> QED BY <1>1, <2>5, <3>1, WholeStays
  <2> QED BY <2>2, <2>4, <2>5
<1> QED BY <1>3 DEF Tidy

-----------------------------------------------------------------------------
\* What no entry answers to is nobody's.
LEMMA AnswersAre ==
  ASSUME NEW want
  PROVE  /\ Answers(want) = {k \in Entries(slots) : want = Shown(slots, k).name \/ want = Shown(slots, k).short}
         /\ ~Exists(want) => Unnamed(slots, want) BY DEF Answers, Exists, Unnamed

\* write_entry: the alias is one nobody has.
LEMMA ShortIs ==
  ASSUME LastTail \in Nat, NEW n \in DOMAIN DirNames, NEW short \in ShortFor(n), ~Exists(Key(n))
  PROVE  /\ short \in Aliases /\ Unnamed(slots, short) /\ Unnamed(slots, Key(n))
         /\ DirNames[n].parts = 0 => short = Key(n)
<1>1. Unnamed(slots, Key(n)) BY AnswersAre
<1>2. CASE DirNames[n].parts = 0
  <2>1. short = DirNames[n].short /\ Key(n) = short BY <1>2 DEF ShortFor, Key
  <2>2. short \in Aliases BY <2>1 DEF Aliases
  <2> QED BY <1>1, <2>1, <2>2
<1>3. CASE DirNames[n].parts # 0
  <2> DEFINE base == DirNames[n].short[1]
             free == {t \in 0 .. LastTail : ~Exists(<<base, t>>)}
  <2>1. short \in {<<base, t>> : t \in (IF free = {} THEN {} ELSE {Min(free)})} BY <1>3 DEF ShortFor
  <2>2. free # {} /\ short = <<base, Min(free)>> BY <2>1
  <2>3. Min(free) \in free
    <3>1. free \subseteq Nat OBVIOUS
    <3> HIDE DEF free
    <3> QED BY <2>2, <3>1, MinIs
  <2> DEFINE m == Min(free)
  <2> HIDE DEF m
  <2>4. m \in 0 .. LastTail /\ ~Exists(<<base, m>>) /\ short = <<base, m>> BY <2>2, <2>3 DEF m
  <2>5. short \in Aliases BY <2>4 DEF Aliases
  <2>6. Unnamed(slots, short) BY <2>4, AnswersAre
  <2> QED BY <1>1, <1>3, <2>5, <2>6
<1> QED BY <1>2, <1>3

\* A name of so many fragments, and its alias; without them that is the name.
Aliased(n, p, short) == p = DirNames[n].parts /\ short \in Aliases /\ (p = 0 => short = Key(n))

\* write_entry: the new entry is listed by the name it was created with.
LEMMA NewShown ==
  ASSUME Readable(slots), Tidy(slots), NEW n, NEW short, NEW p \in Nat, Aliased(n, p, short),
         NEW e, NEW s, NEW t, Lays(slots, e, s, t), t = s + p, Spells(e, s, p, n, short)
  PROVE  Shown(e, t) = File(Key(n), short) /\ (s = t \/ Whole(e, t, t - s))
<1>0. /\ Readable(e) /\ s \in Nat /\ t \in Nat /\ s <= t /\ t <= Len(e)
      /\ Used(e) = Used(slots) \cup (s .. t) /\ Used(slots) \cap (s .. t) = {} BY DEF Lays
<1>1. /\ Entries(e) = Entries(slots) \cup {t} /\ t \notin Entries(slots)
      /\ \A k \in Used(slots) : e[k] = slots[k] BY LaysKeeps
<1>2. DOMAIN slots = 1 .. Len(slots) /\ Len(slots) \in Nat /\ Len(e) \in Nat BY <1>0 DEF Readable
<1>3. e[t].short = short BY DEF Entry, Spells
<1>4. s \in 1 .. Len(e) /\ t \in 1 .. Len(e) /\ ~PastEnd(e, t)
  <2>1. s \in Used(e) /\ t \in Used(e) BY <1>0
  <2> QED BY <2>1 DEF Used
<1>5. CASE p = 0
  <2>1. s = t /\ short = Key(n) /\ short \in Aliases BY <1>0, <1>5 DEF Aliased
  <2>2. t = 1 \/ e[t - 1].kind # "fragment" \/ e[t - 1].sum # e[t].short
    <3>1. SUFFICES ASSUME t # 1, e[t - 1].kind = "fragment", e[t - 1].sum = short PROVE FALSE BY <1>3, Zenon
    <3> DEFINE k == t - 1
    <3>2. k \in 1 .. Len(e) /\ k < t /\ k \notin s .. t /\ k \in Nat BY <1>2, <1>4, <2>1, <3>1
    <3>3. ~PastEnd(e, k) BY <1>4, <3>2 DEF PastEnd
    <3>4. k \in Used(slots) BY <1>0, <3>1, <3>2, <3>3 DEF Used
    <3>5. k \in DOMAIN slots /\ slots[k].kind = "fragment" /\ ~PastEnd(slots, k) /\ slots[k].sum = short
      BY <1>1, <1>2, <3>1, <3>4 DEF Used
    <3> HIDE DEF k
    <3>6. PICK j \in Entries(slots) : \E q \in 1 .. j - 1 : Whole(slots, j, q) /\ k \in j - q .. j - 1
      BY <2>1, <3>5 DEF Tidy
    <3>7. PICK q \in 1 .. j - 1 : Whole(slots, j, q) /\ k \in j - q .. j - 1 BY <3>6
    <3>8. j \in 1 .. Len(slots) /\ ~PastEnd(slots, j) /\ j # t BY <1>1, <1>2, <3>6 DEF Entries
    <3>9. j - t \in 1 .. q /\ j - (j - t) = t /\ t \in 1 .. Len(slots) /\ t <= j BY <1>0, <1>2, <1>4, <3>7, <3>8 DEF k
    <3>10. slots[t].kind = "fragment" BY <3>7, <3>9 DEF Whole
    <3>11. ~PastEnd(slots, t) BY <1>0, <3>8, <3>9 DEF PastEnd
    <3>12. t \in Used(slots) /\ t \in s .. t BY <1>0, <3>9, <3>10, <3>11 DEF Used
    <3> QED BY <1>0, <3>12
  <2>3. Shown(e, t) = [name |-> short, short |-> short] BY <1>0, <1>3, <1>4, <2>2, NotLong
  <2> QED BY <2>1, <2>3 DEF File
<1>6. CASE p # 0
  <2>1. s \in Nat \ {0} /\ p \in Nat \ {0} /\ s + p <= Len(e)
    <3>1. s \in 1 .. Len(e) /\ Len(e) \in Nat /\ t <= Len(e) /\ s + p = t BY <1>0, <1>2, <1>4
    <3>2. s \in Nat \ {0} BY <3>1
    <3>3. p \in Nat \ {0} BY <1>6
    <3> QED BY <3>1, <3>2, <3>3
  <2>2. Shown(e, s + p) = [name |-> <<n, 0>>, short |-> short] BY <1>0, <2>1, Spelled
  <2>3. Key(n) = <<n, 0>> BY <1>6 DEF Key, Aliased
  <2>4. ASSUME NEW i \in 1 .. p
        PROVE  /\ e[t - i].kind = "fragment" /\ e[t - i].sum = short /\ e[t - i].order = i
               /\ e[t - i].last <=> i = p
    <3> DEFINE j == p + 1 - i
               l == j = 1
    <3>1. j \in 1 .. p /\ s + j - 1 = t - i /\ p + 1 - j = i /\ (l <=> i = p) BY <1>0
    <3>2. e[s + j - 1] = Fragment(p + 1 - j, j = 1, short, n) BY <3>1 DEF Spells
    <3>3. e[t - i] = Fragment(i, l, short, n) BY <3>1, <3>2
    <3> HIDE DEF j, l
    <3>4. e[t - i] = [kind |-> "fragment", order |-> i, last |-> l, sum |-> short, name |-> n]
      BY <3>3, Zenon DEF Fragment
    <3>5. e[t - i].kind = "fragment" /\ e[t - i].order = i /\ e[t - i].last = l /\ e[t - i].sum = short BY <3>4
    <3> QED BY <3>1, <3>5, Zenon
  <2>5. t - s = p /\ p \in 1 .. t - 1 /\ t \in Entries(e) BY <1>0, <1>1, <2>1
  <2>6. Whole(e, t, p) BY <1>3, <2>4, <2>5 DEF Whole
  <2> QED BY <2>2, <2>3, <2>5, <2>6 DEF File
<1> QED BY <1>5, <1>6

-----------------------------------------------------------------------------
\* The directory is tidy, and its files are those that were written.
DirInv == Readable(slots) /\ Tidy(slots) /\ NoNameTwice(slots) /\ listed = Walk(slots)

\* fat_write_impl, fat_mkdir_impl: one file more.
LEMMA CreateLists ==
  ASSUME DirSound, DirInv, NEW n \in DOMAIN DirNames, Create(n)
  PROVE  DirInv'
<1> DEFINE p == DirNames[n].parts
<1>1. ~Exists(Key(n)) /\ WriteEntry(n) /\ p \in Nat /\ PER \in Nat \ {0} /\ LastTail \in Nat BY DEF DirSound, Create
<1>2. Readable(slots) /\ Tidy(slots) /\ NoNameTwice(slots) /\ listed = Walk(slots) BY DEF DirInv
<1>3. PICK short \in ShortFor(n), a \in {AllocDirSlots(p + 1)} :
        /\ a.start # 0
        /\ slots' = LaidOut(a, Written(n, short))
        /\ listed' = listed \cup {[name |-> Key(n), short |-> short]} BY <1>1 DEF WriteEntry
<1> HIDE DEF p
<1>4. /\ short \in Aliases /\ Unnamed(slots, short) /\ Unnamed(slots, Key(n))
      /\ p = 0 => short = Key(n) BY <1>1, ShortIs DEF p
<1>5. Space(a, p + 1)
  <2>1. p + 1 \in Nat \ {0} /\ a = AllocDirSlots(p + 1) BY <1>1, <1>3
  <2> DEFINE need == p + 1
  <2> HIDE DEF need
  <2>2. need \in Nat \ {0} /\ a = AllocDirSlots(need) BY <2>1 DEF need
  <2>3. Space(a, need) BY <1>1, <1>2, <1>3, <2>2, SpaceFound
  <2> QED BY <2>3 DEF need
<1> DEFINE e == LaidOut(a, Written(n, short))
           s == a.start
           t == s + p
<1>6. /\ Lays(slots, e, s, t)
      /\ Spells(e, s, p, n, short)
  <2>1. p = DirNames[n].parts BY DEF p
  <2> QED BY <1>1, <1>2, <1>5, <2>1, LaidLays
<1>7. slots' = e BY <1>3
<1>8. t = s + p /\ Aliased(n, p, short) BY <1>4 DEF p, Aliased
<1> HIDE DEF e, s, t
<1>9. Shown(e, t) = File(Key(n), short) /\ (s = t \/ Whole(e, t, t - s)) BY <1>1, <1>2, <1>6, <1>8, NewShown
<1>10. Walk(e) = Walk(slots) \cup {File(Key(n), short)} /\ NoNameTwice(e) BY <1>2, <1>4, <1>6, <1>9, OneMore
<1>11. Tidy(e) BY <1>2, <1>6, <1>9, StaysTidy
<1>12. Readable(e) BY <1>6 DEF Lays
<1>13. listed' = Walk(e) BY <1>2, <1>3, <1>10 DEF File
<1>14. Readable(slots)' /\ Tidy(slots)' /\ NoNameTwice(slots)' /\ Walk(slots)' = Walk(e) BY <1>7, <1>10, <1>11, <1>12
<1> QED BY <1>13, <1>14 DEF DirInv

\* erase_entry: one file less.
LEMMA EraseLists ==
  ASSUME DirInv, NEW want, EraseEntry(want)
  PROVE  DirInv'
<1>1. Readable(slots) /\ Tidy(slots) /\ NoNameTwice(slots) /\ listed = Walk(slots) BY DEF DirInv
<1> DEFINE t == Min(Answers(want))
<1>2. /\ Answers(want) # {}
      /\ slots' = [j \in DOMAIN slots |-> IF j \in ChainOf(t) THEN Deleted ELSE slots[j]]
      /\ listed' = {f \in listed : want \notin {f.name, f.short}} BY DEF EraseEntry, Exists
<1>3. t \in Answers(want)
  <2>1. Answers(want) \subseteq Nat BY <1>1 DEF Answers, Entries, Readable
  <2> QED BY <1>2, <2>1, MinIs
<1> HIDE DEF t
<1>4. t \in Entries(slots) /\ (want = Shown(slots, t).name \/ want = Shown(slots, t).short) BY <1>3, AnswersAre
<1> DEFINE e == [j \in DOMAIN slots |-> IF j \in ChainOf(t) THEN Deleted ELSE slots[j]]
<1>5. PICK q \in 0 .. t - 1 :
        Lays(e, slots, t - q, t) /\ \A p \in 1 .. t - 1 : Whole(slots, t, p) => q = p BY <1>1, <1>4, ErasedLays
<1>6. slots' = e BY <1>2
<1> DEFINE s == t - q
<1> HIDE DEF e
<1>7. Lays(e, slots, s, t) /\ \A p \in 1 .. t - 1 : Whole(slots, t, p) => p = t - s
  <2>1. t \in Nat BY <1>1, <1>4 DEF Entries, Readable
  <2>2. t - s = q BY <2>1
  <2> QED BY <1>5, <2>2
<1> HIDE DEF s
<1>8. Walk(e) = {f \in Walk(slots) : want \notin {f.name, f.short}} /\ NoNameTwice(e) BY <1>1, <1>4, <1>7, OneLess
<1>9. Tidy(e) BY <1>1, <1>7, LeftTidy
<1>10. Readable(e) BY <1>7 DEF Lays
<1>11. Readable(slots)' /\ Tidy(slots)' /\ NoNameTwice(slots)' /\ Walk(slots)' = Walk(e) BY <1>6, <1>8, <1>9, <1>10
<1>12. listed' = Walk(e) BY <1>1, <1>2, <1>8
<1> QED BY <1>11, <1>12 DEF DirInv

\* The directory lists exactly the files that were created and not deleted,
\* each under its own long name, and no name or alias means two of them
\* (walk_dir, alloc_dir_slots, write_entry, erase_entry): for directories of
\* every size, names of every length, and whatever other systems left there,
\* as long as no fragment of theirs passes for part of a name written here.
THEOREM DirectoryListsItsFiles ==
  ASSUME DirSound
  PROVE  DirSpec => []ListsItsFiles
<1>1. DirInit => DirInv
  <2>1. SUFFICES ASSUME DirInit PROVE DirInv OBVIOUS
  <2>2. slots \in Found /\ listed = Walk(slots) BY <2>1 DEF DirInit
  <2>3. slots \in Seq({slots[k] : k \in DOMAIN slots}) /\ Slots(slots) /\ Tidy(slots) /\ NoNameTwice(slots)
    BY <2>2 DEF DirSound
  <2>4. Len(slots) \in Nat /\ DOMAIN slots = 1 .. Len(slots) BY <2>3
  <2>5. Readable(slots) BY <2>3, <2>4 DEF Readable, IsSlot, Slots
  <2> QED BY <2>2, <2>3, <2>5 DEF DirInv
<1>2. DirInv /\ [DirNext]_dirVars => DirInv'
  <2>1. SUFFICES ASSUME DirInv, [DirNext]_dirVars PROVE DirInv' OBVIOUS
  <2>2. CASE UNCHANGED dirVars
    <3>1. slots' = slots /\ listed' = listed BY <2>2 DEF dirVars
    <3>2. Readable(slots)' /\ Tidy(slots)' /\ NoNameTwice(slots)' /\ Walk(slots)' = Walk(slots)
      BY <2>1, <3>1 DEF DirInv
    <3> QED BY <2>1, <3>1, <3>2 DEF DirInv
  <2>3. ASSUME NEW n \in DOMAIN DirNames, Create(n) PROVE DirInv' BY <2>1, <2>3, CreateLists
  <2>4. ASSUME NEW w \in Wants, EraseEntry(w) PROVE DirInv' BY <2>1, <2>4, EraseLists
  <2> QED BY <2>1, <2>2, <2>3, <2>4 DEF DirNext
<1>3. DirInv => ListsItsFiles BY DEF DirInv, ListsItsFiles
<1> QED BY <1>1, <1>2, <1>3, PTL DEF DirSpec
=============================================================================
