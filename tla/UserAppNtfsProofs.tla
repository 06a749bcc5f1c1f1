------------------------- MODULE UserAppNtfsProofs ---------------------------
(***************************************************************************)
(* The runtime of isolated applications and its services, proved for every *)
(* size of the tables, queue and budgets, every set of names and keys, and *)
(* every number of loads, events and handles; and the NTFS driver, proved  *)
(* for every volume that means what it says, every sector that fails and   *)
(* every record or index block that a crash tore.                          *)
(***************************************************************************)
EXTENDS UserApp, Ntfs, FiniteSetTheorems, SequenceTheorems, WellFoundedInduction, TLAPS

-----------------------------------------------------------------------------
(***************************************************************************)
(* The services alone.                                                     *)
(***************************************************************************)

\* An open handle leads to a file slot, and its cookie has been given out.
HandlesTrue ==
    \A h \in Handles : svc.handles[h].cookie # 0 =>
        svc.handles[h].file \in Files /\ svc.handles[h].cookie <= svc.next_handle

\* The pending event is the last one posted; only it can be delivered.
EventTrue ==
    /\ svc.pending => svc.live /\ svc.event.id = svc.next_event /\ svc.next_event > 0
    /\ svc.delivered => svc.pending

ServiceInv == TypeOK /\ RefsExact /\ HolesReadZero /\ HandlesTrue /\ EventTrue

LEMMA Limits ==
  /\ 0 \in 0 .. KS_FILES /\ 0 \in 0 .. KS_HANDLES /\ 0 \in 0 .. KS_FILE_BYTES
  /\ 0 \in 0 .. DRAW_BUDGET /\ 0 \in 0 .. TEXT_BUDGET /\ 0 \in 0 .. MAX_DELTA
  /\ 0 \in 0 .. TOKEN_MAX /\ 0 \in 0 .. HANDLE_MAX /\ 0 \in 0 .. GENERATION_MAX
  /\ KS_FILES \in Nat /\ KS_HANDLES \in Nat BY LimitsAssumption

LEMMA NoFileType == NoFile \in FileType BY Limits, NamesAssumption, 0 \in Nat, Zenon DEF NoFile, FileType

LEMMA NoHandleType == NoHandle \in HandleType BY Limits, Zenon DEF NoHandle, HandleType

LEMMA DeadType == Dead \in ServiceType
<1>1. NoEvent \in EventType BY Limits, Zenon DEF NoEvent, Event, EventType
<1> QED BY <1>1, Limits, NoFileType, NoHandleType, Zenon DEF Dead, ServiceType

\* The handles on a file are finitely many.
LEMMA OpenFinite == \A f : IsFiniteSet(OpenOn(f))
<1>1. IsFiniteSet(Handles) BY Limits, FS_Interval DEF Handles
<1> QED BY <1>1, FS_Subset DEF OpenOn

LEMMA EmptyTables ==
  ASSUME svc'.files = [f \in Files |-> NoFile], svc'.handles = [h \in Handles |-> NoHandle]
  PROVE  RefsExact' /\ HolesReadZero' /\ HandlesTrue'
<1>1. \A h \in Handles : svc'.handles[h].cookie = 0
  <2>1. NoHandle.cookie = 0 BY Zenon DEF NoHandle
  <2> QED BY <2>1
<1>2. \A f \in Files : OpenOn(f)' = {} BY <1>1 DEF OpenOn
<1>3. Cardinality({}) = 0 BY FS_EmptySet
<1>4. \A f \in Files : svc'.files[f] = NoFile OBVIOUS
<1>5. \A o \in Offsets : NoFile.data[o] = Zero BY Zenon DEF NoFile
<1>6. \A f \in Files : svc'.files[f].refs = 0
  <2>1. NoFile.refs = 0 BY Zenon DEF NoFile
  <2> QED BY <1>4, <2>1
<1>7. RefsExact' BY <1>2, <1>3, <1>6, Zenon DEF RefsExact
<1>8. HolesReadZero' BY <1>4, <1>5, Zenon DEF HolesReadZero
<1> QED BY <1>1, <1>7, <1>8, Zenon DEF HandlesTrue

\* A state with the same tables keeps what is said about them.
LEMMA SameTables ==
  ASSUME ServiceInv, svc'.files = svc.files, svc'.handles = svc.handles,
         svc'.next_handle = svc.next_handle
  PROVE  RefsExact' /\ HolesReadZero' /\ HandlesTrue'
<1>1. \A f : OpenOn(f)' = OpenOn(f) BY DEF OpenOn
<1> QED BY <1>1 DEF ServiceInv, RefsExact, HolesReadZero, HandlesTrue

LEMMA DeadKeeps ==
  ASSUME svc' = Dead
  PROVE  ServiceInv' /\ svc'.live = FALSE /\ svc'.pending = FALSE
<1>1. /\ svc'.files = [f \in Files |-> NoFile] /\ svc'.handles = [h \in Handles |-> NoHandle]
      /\ svc'.live = FALSE /\ svc'.pending = FALSE /\ svc'.delivered = FALSE BY Zenon DEF Dead
<1>2. TypeOK' BY DeadType DEF TypeOK
<1> QED BY <1>1, <1>2, EmptyTables, Zenon DEF ServiceInv, EventTrue

LEMMA KsInitKeeps ==
  ASSUME NEW gen \in 0 .. GENERATION_MAX, KsInit(gen)
  PROVE  ServiceInv' /\ svc'.live = TRUE /\ svc'.pending = FALSE /\ svc'.generation = gen
<1>1. svc' = [Dead EXCEPT !.live = TRUE, !.generation = gen] BY Zenon DEF KsInit
<1>2. svc' \in ServiceType BY <1>1, DeadType, Zenon DEF ServiceType
<1>3. /\ svc'.files = Dead.files /\ svc'.handles = Dead.handles
      /\ svc'.live = TRUE /\ svc'.generation = gen
      /\ svc'.pending = Dead.pending /\ svc'.delivered = Dead.delivered BY <1>1, DeadType, Zenon DEF ServiceType
<1>4. /\ Dead.files = [f \in Files |-> NoFile] /\ Dead.handles = [h \in Handles |-> NoHandle]
      /\ Dead.pending = FALSE /\ Dead.delivered = FALSE BY Zenon DEF Dead
<1> QED BY <1>2, <1>3, <1>4, EmptyTables, Zenon DEF ServiceInv, EventTrue, TypeOK

LEMMA KsPostKeeps ==
  ASSUME ServiceInv, NEW type \in Types, NEW delta \in 0 .. MAX_DELTA, NEW key \in Keys \cup {0},
         KsPost(type, delta, key)
  PROVE  /\ svc' \in ServiceType
         /\ svc'.files = svc.files /\ svc'.handles = svc.handles
         /\ svc'.next_handle = svc.next_handle
         /\ svc'.live = svc.live /\ svc'.generation = svc.generation
         /\ svc'.pending = TRUE /\ svc'.delivered = FALSE
         /\ svc'.next_event = svc.next_event + 1
         /\ svc'.event = Event(svc.next_event + 1, type, AtMost(MAX_DELTA, delta), key)
         /\ svc'.draw_left = DRAW_BUDGET
         /\ ServiceInv'
<1> DEFINE next == svc.next_event + 1
           event == Event(next, type, AtMost(MAX_DELTA, delta), key)
<1>1. next \in 0 .. TOKEN_MAX /\ AtMost(MAX_DELTA, delta) \in 0 .. MAX_DELTA
  <2>1. svc.next_event \in 0 .. TOKEN_MAX /\ svc.next_event < TOKEN_MAX
    BY Zenon DEF KsPost, Postable, ServiceInv, TypeOK, ServiceType
  <2> QED BY <2>1, LimitsAssumption DEF AtMost
<1>2. event \in EventType BY <1>1 DEF EventType, Event
<1>3. DRAW_BUDGET \in 0 .. DRAW_BUDGET /\ TEXT_BUDGET \in 0 .. TEXT_BUDGET BY LimitsAssumption
<1>4. svc \in ServiceType BY DEF ServiceInv, TypeOK
<1>5. svc' = [svc EXCEPT !.next_event = next, !.event = event, !.pending = TRUE, !.delivered = FALSE,
                         !.draw_left = DRAW_BUDGET, !.text_left = TEXT_BUDGET] BY Zenon DEF KsPost
<1> HIDE DEF next, event
<1>6. svc' \in ServiceType BY <1>1, <1>2, <1>3, <1>4, <1>5, Zenon DEF ServiceType
<1>7. /\ svc'.files = svc.files /\ svc'.handles = svc.handles /\ svc'.next_handle = svc.next_handle
      /\ svc'.live = svc.live /\ svc'.generation = svc.generation
      /\ svc'.pending = TRUE /\ svc'.delivered = FALSE
      /\ svc'.next_event = next /\ svc'.event = event /\ svc'.draw_left = DRAW_BUDGET
  BY <1>4, <1>5, Zenon DEF ServiceType
<1>8. svc.live BY DEF KsPost, Postable
<1>9. event.id = next /\ next > 0
  <2>1. svc.next_event \in 0 .. TOKEN_MAX BY <1>4, Zenon DEF ServiceType
  <2> QED BY <2>1, LimitsAssumption DEF next, event, Event
<1> QED BY <1>6, <1>7, <1>8, <1>9, SameTables, Zenon DEF ServiceInv, TypeOK, EventTrue, next, event

LEMMA KsWaitKeeps ==
  ASSUME ServiceInv, KsWait
  PROVE  /\ ServiceInv'
         /\ svc'.live = svc.live /\ svc'.generation = svc.generation
         /\ svc'.pending = svc.pending /\ svc'.next_event = svc.next_event
         /\ svc'.event = svc.event /\ svc'.draw_left = svc.draw_left
<1>1. svc \in ServiceType /\ svc.live /\ svc.pending /\ svc' = [svc EXCEPT !.delivered = TRUE]
  BY DEF KsWait, ServiceInv, TypeOK
<1>2. svc' \in ServiceType BY <1>1, Zenon DEF ServiceType
<1>3. /\ svc'.files = svc.files /\ svc'.handles = svc.handles /\ svc'.next_handle = svc.next_handle
      /\ svc'.live = svc.live /\ svc'.generation = svc.generation
      /\ svc'.pending = svc.pending /\ svc'.next_event = svc.next_event
      /\ svc'.event = svc.event /\ svc'.draw_left = svc.draw_left BY <1>1, Zenon DEF ServiceType
<1> QED BY <1>1, <1>2, <1>3, SameTables, Zenon DEF ServiceInv, TypeOK, EventTrue

LEMMA KsCompleteKeeps ==
  ASSUME ServiceInv, NEW token, KsComplete(token)
  PROVE  /\ ServiceInv'
         /\ svc'.live = svc.live /\ svc'.generation = svc.generation
         /\ svc'.pending = FALSE /\ svc'.next_event = svc.next_event
         /\ svc'.event = svc.event
<1>1. svc \in ServiceType /\ svc' = [svc EXCEPT !.pending = FALSE, !.delivered = FALSE]
  BY DEF KsComplete, ServiceInv, TypeOK
<1>2. svc' \in ServiceType BY <1>1, Zenon DEF ServiceType
<1>3. /\ svc'.files = svc.files /\ svc'.handles = svc.handles /\ svc'.next_handle = svc.next_handle
      /\ svc'.live = svc.live /\ svc'.generation = svc.generation
      /\ svc'.pending = FALSE /\ svc'.delivered = FALSE /\ svc'.next_event = svc.next_event
      /\ svc'.event = svc.event BY <1>1, Zenon DEF ServiceType
<1> QED BY <1>1, <1>2, <1>3, SameTables, Zenon DEF ServiceInv, TypeOK, EventTrue

\* Drawing, in rectangles or text, only uses up the budget.
LEMMA BudgetKeeps ==
  ASSUME ServiceInv, svc.pending, NEW drawn \in 0 .. DRAW_BUDGET, NEW lettered \in 0 .. TEXT_BUDGET,
         svc' = [svc EXCEPT !.draw_left = drawn, !.text_left = lettered]
  PROVE  /\ ServiceInv'
         /\ svc'.live = svc.live /\ svc'.generation = svc.generation
         /\ svc'.pending = svc.pending /\ svc'.next_event = svc.next_event
         /\ svc'.event = svc.event /\ svc'.draw_left = drawn
<1>1. svc \in ServiceType BY DEF ServiceInv, TypeOK
<1>2. svc' \in ServiceType BY <1>1, Zenon DEF ServiceType
<1>3. /\ svc'.files = svc.files /\ svc'.handles = svc.handles /\ svc'.next_handle = svc.next_handle
      /\ svc'.live = svc.live /\ svc'.generation = svc.generation
      /\ svc'.pending = svc.pending /\ svc'.delivered = svc.delivered
      /\ svc'.next_event = svc.next_event
      /\ svc'.event = svc.event /\ svc'.draw_left = drawn BY <1>1, Zenon DEF ServiceType
<1> QED BY <1>1, <1>2, <1>3, SameTables, Zenon DEF ServiceInv, TypeOK, EventTrue

LEMMA KsDrawKeeps ==
  ASSUME ServiceInv, NEW token, NEW n \in 1 .. DRAW_BUDGET, KsDraw(token, n)
  PROVE  /\ ServiceInv'
         /\ svc'.live = svc.live /\ svc'.generation = svc.generation
         /\ svc'.pending = svc.pending /\ svc'.next_event = svc.next_event
         /\ svc'.event = svc.event
         /\ svc'.draw_left = svc.draw_left - n /\ svc.draw_left \in 0 .. DRAW_BUDGET
<1>1. svc \in ServiceType /\ svc.pending /\ n <= svc.draw_left BY DEF KsDraw, Current, ServiceInv, TypeOK
<1>2. svc.draw_left \in 0 .. DRAW_BUDGET /\ svc.text_left \in 0 .. TEXT_BUDGET BY <1>1, Zenon DEF ServiceType
<1>3. svc.draw_left - n \in 0 .. DRAW_BUDGET BY <1>1, <1>2, LimitsAssumption
<1>4. svc' = [svc EXCEPT !.draw_left = svc.draw_left - n] BY Zenon DEF KsDraw
<1>5. svc' = [svc EXCEPT !.draw_left = svc.draw_left - n, !.text_left = svc.text_left]
  BY <1>1, <1>4, Zenon DEF ServiceType
<1> QED BY <1>1, <1>2, <1>3, <1>5, BudgetKeeps, Zenon

LEMMA KsTextKeeps ==
  ASSUME ServiceInv, NEW token, NEW n \in 1 .. TEXT_BUDGET, KsText(token, n)
  PROVE  /\ ServiceInv'
         /\ svc'.live = svc.live /\ svc'.generation = svc.generation
         /\ svc'.pending = svc.pending /\ svc'.next_event = svc.next_event
         /\ svc'.event = svc.event
         /\ svc'.draw_left = svc.draw_left - 1 /\ svc.draw_left \in 1 .. DRAW_BUDGET
<1>1. svc \in ServiceType /\ svc.pending /\ svc.draw_left >= 1 /\ n <= svc.text_left
  BY DEF KsText, Current, ServiceInv, TypeOK
<1>2. svc.draw_left \in 0 .. DRAW_BUDGET /\ svc.text_left \in 0 .. TEXT_BUDGET BY <1>1, Zenon DEF ServiceType
<1>3. /\ svc.draw_left - 1 \in 0 .. DRAW_BUDGET /\ svc.text_left - n \in 0 .. TEXT_BUDGET
      /\ svc.draw_left \in 1 .. DRAW_BUDGET BY <1>1, <1>2, LimitsAssumption
<1>4. svc' = [svc EXCEPT !.draw_left = svc.draw_left - 1, !.text_left = svc.text_left - n] BY Zenon DEF KsText
<1> QED BY <1>1, <1>3, <1>4, BudgetKeeps, Zenon

\* What every file call leaves alone.
SameEvents ==
    /\ svc'.live = svc.live /\ svc'.generation = svc.generation
    /\ svc'.pending = svc.pending /\ svc'.delivered = svc.delivered
    /\ svc'.next_event = svc.next_event /\ svc'.event = svc.event
    /\ svc'.draw_left = svc.draw_left

\* A call that puts one file in the table and gives out or takes back one
\* handle, or none.
LEMMA TablesKeep ==
  ASSUME ServiceInv, NEW files \in [Files -> FileType], NEW handles \in [Handles -> HandleType],
         NEW count \in 0 .. HANDLE_MAX,
         svc' = [svc EXCEPT !.files = files, !.handles = handles, !.next_handle = count]
  PROVE  /\ SameEvents /\ TypeOK' /\ EventTrue'
         /\ svc'.files = files /\ svc'.handles = handles /\ svc'.next_handle = count
<1>1. svc \in ServiceType BY DEF ServiceInv, TypeOK
<1>2. svc' \in ServiceType BY <1>1, Zenon DEF ServiceType
<1>3. /\ SameEvents
      /\ svc'.files = files /\ svc'.handles = handles /\ svc'.next_handle = count
  BY <1>1, Zenon DEF ServiceType, SameEvents
<1> QED BY <1>2, <1>3, Zenon DEF ServiceInv, TypeOK, EventTrue, SameEvents

\* Handle h comes to file f: one reference more.
LEMMA OneMore ==
  ASSUME ServiceInv, NEW h \in Handles, NEW f \in Files, svc.handles[h].cookie = 0,
         NEW new, new.cookie # 0, new.file = f, svc'.handles = [svc.handles EXCEPT ![h] = new]
  PROVE  /\ Cardinality(OpenOn(f)') = Cardinality(OpenOn(f)) + 1
         /\ \A g \in Files \ {f} : OpenOn(g)' = OpenOn(g)
<1>1. svc.handles \in [Handles -> HandleType] BY Zenon DEF ServiceInv, TypeOK, ServiceType
<1>2. OpenOn(f)' = OpenOn(f) \cup {h} /\ h \notin OpenOn(f) BY <1>1 DEF OpenOn
<1>3. \A g \in Files \ {f} : OpenOn(g)' = OpenOn(g) BY <1>1 DEF OpenOn
<1>4. Cardinality(OpenOn(f) \cup {h}) = Cardinality(OpenOn(f)) + 1 BY <1>2, OpenFinite, FS_AddElement
<1> QED BY <1>2, <1>3, <1>4

\* Handle h is closed: one reference less on its file.
LEMMA OneLess ==
  ASSUME ServiceInv, NEW h \in Handles, NEW f \in Files, h \in OpenOn(f),
         svc'.handles = [svc.handles EXCEPT ![h] = NoHandle]
  PROVE  /\ Cardinality(OpenOn(f)') = Cardinality(OpenOn(f)) - 1
         /\ OpenOn(f)' \subseteq OpenOn(f) /\ Cardinality(OpenOn(f)) \in Nat \ {0}
         /\ \A g \in Files \ {f} : OpenOn(g)' = OpenOn(g)
<1>1. svc.handles \in [Handles -> HandleType] /\ NoHandle.cookie = 0
  BY Zenon DEF ServiceInv, TypeOK, ServiceType, NoHandle
<1>2. OpenOn(f)' = OpenOn(f) \ {h} BY <1>1 DEF OpenOn
<1>3. \A g \in Files \ {f} : OpenOn(g)' = OpenOn(g) BY <1>1 DEF OpenOn
<1>4. Cardinality(OpenOn(f) \ {h}) = Cardinality(OpenOn(f)) - 1 BY OpenFinite, FS_RemoveElement
<1>5. Cardinality(OpenOn(f)) \in Nat \ {0} BY OpenFinite, FS_CardinalityType, FS_EmptySet
<1> QED BY <1>2, <1>3, <1>4, <1>5

\* The bytes of a file of which the last size are beyond its end.
LEMMA FileTable ==
  ASSUME ServiceInv, NEW f \in Files
  PROVE  /\ svc.files \in [Files -> FileType] /\ svc.handles \in [Handles -> HandleType]
         /\ svc.next_handle \in 0 .. HANDLE_MAX
         /\ svc.files[f].name \in Names \cup {NoName} /\ svc.files[f].size \in 0 .. KS_FILE_BYTES
         /\ svc.files[f].refs \in Nat /\ svc.files[f].data \in [Offsets -> Values]
         /\ svc.files[f] \in FileType
<1>1. /\ svc.files \in [Files -> FileType] /\ svc.handles \in [Handles -> HandleType]
      /\ svc.next_handle \in 0 .. HANDLE_MAX BY Zenon DEF ServiceInv, TypeOK, ServiceType
<1>2. svc.files[f] \in FileType BY <1>1
<1> QED BY <1>1, <1>2, Zenon DEF FileType

\* The file that KsOpen leaves in its slot.
Opened(f, n, trunc) ==
    LET old == [svc.files[f] EXCEPT !.name = n]
        new == IF trunc THEN Truncated(old) ELSE old
    IN  [new EXCEPT !.refs = @ + 1]

LEMMA OpenedFile ==
  ASSUME ServiceInv, NEW f \in Files, NEW n \in Names, NEW trunc \in BOOLEAN
  PROVE  /\ Opened(f, n, trunc) \in FileType
         /\ Opened(f, n, trunc).name = n
         /\ Opened(f, n, trunc).refs = svc.files[f].refs + 1
         /\ \A o \in Offsets : o >= Opened(f, n, trunc).size => Opened(f, n, trunc).data[o] = Zero
<1> DEFINE old == [svc.files[f] EXCEPT !.name = n]
           empty == Truncated(old)
<1>1. svc.files[f] \in FileType /\ svc.files[f].refs + 1 \in Nat BY FileTable
<1>2. /\ old \in FileType /\ old.name = n /\ old.refs = svc.files[f].refs
      /\ old.size = svc.files[f].size /\ old.data = svc.files[f].data BY <1>1, Zenon DEF FileType
<1>3. /\ NoFile.data \in [Offsets -> Values] /\ \A o \in Offsets : NoFile.data[o] = Zero
  BY NamesAssumption, Zenon DEF NoFile
<1> HIDE DEF old
<1>4. /\ empty \in FileType /\ empty.name = n /\ empty.refs = svc.files[f].refs
      /\ empty.data = NoFile.data BY <1>2, <1>3, Limits, Zenon DEF FileType, Truncated
<1>5. \A o \in Offsets : o >= old.size => old.data[o] = Zero BY <1>2, Zenon DEF ServiceInv, HolesReadZero
<1>6. Opened(f, n, trunc) = [(IF trunc THEN empty ELSE old) EXCEPT !.refs = svc.files[f].refs + 1]
  BY <1>2, <1>4, Zenon DEF Opened, old
<1> HIDE DEF empty
<1>7. CASE trunc
  <2>1. Opened(f, n, trunc) = [empty EXCEPT !.refs = svc.files[f].refs + 1] BY <1>6, <1>7, Zenon
  <2>2. /\ Opened(f, n, trunc) \in FileType /\ Opened(f, n, trunc).name = n
        /\ Opened(f, n, trunc).refs = svc.files[f].refs + 1
        /\ Opened(f, n, trunc).data = NoFile.data BY <1>1, <1>4, <2>1, Zenon DEF FileType
  <2> QED BY <1>3, <2>2, Zenon
<1>8. CASE ~trunc
  <2>1. Opened(f, n, trunc) = [old EXCEPT !.refs = svc.files[f].refs + 1] BY <1>6, <1>8, Zenon
  <2>2. /\ Opened(f, n, trunc) \in FileType /\ Opened(f, n, trunc).name = n
        /\ Opened(f, n, trunc).refs = svc.files[f].refs + 1
        /\ Opened(f, n, trunc).data = old.data /\ Opened(f, n, trunc).size = old.size
    BY <1>1, <1>2, <2>1, Zenon DEF FileType
  <2> QED BY <1>5, <2>2, Zenon
<1> QED BY <1>7, <1>8

LEMMA KsOpenKeeps ==
  ASSUME ServiceInv, NEW n \in Names, NEW rights \in SUBSET Rights, NEW create \in BOOLEAN,
         NEW trunc \in BOOLEAN, KsOpen(n, rights, create, trunc)
  PROVE  ServiceInv' /\ SameEvents /\ CookiesStay
<1> DEFINE cookie == svc.next_handle + 1
<1>1. PICK f \in Files, h \in Handles :
        /\ svc.handles[h].cookie = 0
        /\ svc' = [svc EXCEPT !.files = [svc.files EXCEPT ![f] = Opened(f, n, trunc)],
                   !.handles = [svc.handles EXCEPT ![h] = [cookie |-> cookie, file |-> f, rights |-> rights]],
                   !.next_handle = cookie]
  <2>1. PICK f \in (IF Node(n) # {} THEN Node(n) ELSE Node(NoName)), h \in FreeHandle :
          svc' = [svc EXCEPT !.files[f] = Opened(f, n, trunc),
                  !.handles[h] = [cookie |-> cookie, file |-> f, rights |-> rights], !.next_handle = cookie]
    BY Zenon DEF KsOpen, Opened, Cookie
  <2>2. f \in Files
    <3>1. f \in Node(n) \/ f \in Node(NoName) BY <2>1, Zenon
    <3> QED BY <3>1 DEF Node, First
  <2>3. h \in Handles /\ svc.handles[h].cookie = 0 BY DEF FreeHandle, First
  <2> QED BY <2>1, <2>2, <2>3, Zenon
<1>2. svc.next_handle \in 0 .. HANDLE_MAX /\ svc.next_handle < HANDLE_MAX /\ svc.live BY FileTable, Zenon DEF KsOpen
<1>3. cookie \in 0 .. HANDLE_MAX /\ cookie # 0 /\ cookie > svc.next_handle BY <1>2, LimitsAssumption
<1> DEFINE handle == [cookie |-> cookie, file |-> f, rights |-> rights]
           file == Opened(f, n, trunc)
           files == [svc.files EXCEPT ![f] = file]
           handles == [svc.handles EXCEPT ![h] = handle]
<1>4. f \in 0 .. KS_FILES BY Limits DEF Files
<1>5. handle \in HandleType /\ handle.cookie = cookie /\ handle.file = f BY <1>3, <1>4, Zenon DEF HandleType
<1>6. /\ file \in FileType /\ file.name = n /\ file.refs = svc.files[f].refs + 1
      /\ \A o \in Offsets : o >= file.size => file.data[o] = Zero BY OpenedFile
<1>7. /\ svc.files \in [Files -> FileType] /\ svc.handles \in [Handles -> HandleType] BY FileTable
<1> HIDE DEF handle, file, cookie
<1>8. files \in [Files -> FileType] /\ handles \in [Handles -> HandleType] BY <1>5, <1>6, <1>7
<1>9. svc' = [svc EXCEPT !.files = files, !.handles = handles, !.next_handle = cookie]
  BY <1>1, Zenon DEF handle, file, cookie
<1>10. /\ SameEvents /\ TypeOK' /\ EventTrue'
       /\ svc'.files = files /\ svc'.handles = handles /\ svc'.next_handle = cookie
  BY <1>3, <1>8, <1>9, TablesKeep, Zenon
<1>11. /\ svc'.files[f] = file /\ \A g \in Files \ {f} : svc'.files[g] = svc.files[g]
       /\ svc'.handles[h] = handle /\ \A k \in Handles \ {h} : svc'.handles[k] = svc.handles[k] BY <1>7, <1>10
<1>12. /\ Cardinality(OpenOn(f)') = Cardinality(OpenOn(f)) + 1
       /\ \A g \in Files \ {f} : OpenOn(g)' = OpenOn(g) BY <1>1, <1>3, <1>5, <1>10, OneMore
<1>13. n # NoName BY NamesAssumption
<1>14. \A g \in Files : svc'.files[g].refs = Cardinality(OpenOn(g)') BY <1>6, <1>11, <1>12 DEF ServiceInv, RefsExact
<1>15. \A g \in Files : OpenOn(g)' # {} => svc'.files[g].name # NoName
  BY <1>6, <1>11, <1>12, <1>13 DEF ServiceInv, RefsExact
<1>16. HolesReadZero' BY <1>6, <1>11 DEF ServiceInv, HolesReadZero
<1>17. HandlesTrue'
  <2>1. \A k \in Handles : svc.handles[k].cookie # 0 => svc.handles[k].cookie <= cookie
    <3>1. \A k \in Handles : svc.handles[k].cookie \in 0 .. HANDLE_MAX BY <1>7, Zenon DEF HandleType
    <3> QED BY <1>2, <3>1 DEF ServiceInv, HandlesTrue, cookie
  <2> QED BY <1>3, <1>5, <1>10, <1>11, <2>1 DEF ServiceInv, HandlesTrue
<1>18. CookiesStay BY <1>3, <1>5, <1>11 DEF CookiesStay
<1> QED BY <1>10, <1>14, <1>15, <1>16, <1>17, <1>18 DEF ServiceInv, RefsExact

LEMMA KsWriteKeeps ==
  ASSUME ServiceInv, NEW c \in 1 .. svc.next_handle, NEW d \in Offsets, NEW n \in 1 .. KS_FILE_BYTES,
         NEW v \in Values, KsWrite(c, d, n, v)
  PROVE  ServiceInv' /\ SameEvents /\ CookiesStay
<1>1. PICK h \in Named(c, {"w"}) :
        LET file == svc.files[svc.handles[h].file]
        IN  svc' = [svc EXCEPT !.files[svc.handles[h].file] =
                [file EXCEPT !.size = IF d + n > file.size THEN d + n ELSE file.size,
                             !.data = [o \in Offsets |-> IF o >= d /\ o < d + n THEN v ELSE file.data[o]]]]
  BY Zenon DEF KsWrite
<1>2. PICK f \in Files : f = svc.handles[h].file /\ h \in Handles BY DEF Named, ServiceInv, HandlesTrue
<1> DEFINE old == svc.files[f]
           size == IF d + n > old.size THEN d + n ELSE old.size
           data == [o \in Offsets |-> IF o >= d /\ o < d + n THEN v ELSE old.data[o]]
           file == [old EXCEPT !.size = size, !.data = data]
           files == [svc.files EXCEPT ![f] = file]
<1>3. d + n <= KS_FILE_BYTES BY DEF KsWrite
<1>4. /\ old \in FileType /\ old.size \in 0 .. KS_FILE_BYTES /\ old.data \in [Offsets -> Values]
      /\ svc.files \in [Files -> FileType] /\ svc.handles \in [Handles -> HandleType]
      /\ svc.next_handle \in 0 .. HANDLE_MAX BY <1>2, FileTable
<1>5. \A o \in Offsets : o >= old.size => old.data[o] = Zero BY <1>2 DEF ServiceInv, HolesReadZero
<1> HIDE DEF old
<1>6. size \in 0 .. KS_FILE_BYTES /\ data \in [Offsets -> Values]
  BY <1>3, <1>4, LimitsAssumption, SMTT(40) DEF Offsets
<1>7. \A o \in Offsets : o >= size => data[o] = Zero BY <1>4, <1>5, <1>3, LimitsAssumption, SMTT(40) DEF Offsets
<1> HIDE DEF size, data
<1>8. /\ file \in FileType /\ file.size = size /\ file.data = data
      /\ file.name = old.name /\ file.refs = old.refs BY <1>4, <1>6, Zenon DEF FileType
<1> HIDE DEF file
<1>9. files \in [Files -> FileType] BY <1>4, <1>8
<1>10. svc' = [svc EXCEPT !.files = files] BY <1>1, <1>2, Zenon DEF old, size, data, file
<1>11. svc' = [svc EXCEPT !.files = files, !.handles = svc.handles, !.next_handle = svc.next_handle]
  BY <1>10, Zenon DEF ServiceInv, TypeOK, ServiceType
<1> HIDE DEF files
<1>12. /\ SameEvents /\ TypeOK' /\ EventTrue'
       /\ svc'.files = files /\ svc'.handles = svc.handles /\ svc'.next_handle = svc.next_handle
  BY <1>4, <1>9, <1>11, TablesKeep, Zenon
<1>13. svc'.files[f] = file /\ \A g \in Files \ {f} : svc'.files[g] = svc.files[g] BY <1>2, <1>4, <1>12 DEF files
<1>14. \A g : OpenOn(g)' = OpenOn(g) BY <1>12 DEF OpenOn
<1>15. RefsExact' BY <1>8, <1>13, <1>14 DEF ServiceInv, RefsExact, old
<1>16. HolesReadZero' BY <1>7, <1>8, <1>13 DEF ServiceInv, HolesReadZero
<1>17. HandlesTrue' /\ CookiesStay BY <1>12 DEF ServiceInv, HandlesTrue, CookiesStay
<1> QED BY <1>12, <1>15, <1>16, <1>17 DEF ServiceInv

LEMMA KsCloseKeeps ==
  ASSUME ServiceInv, NEW c \in 1 .. svc.next_handle, KsClose(c)
  PROVE  ServiceInv' /\ SameEvents /\ CookiesStay
<1>1. PICK h \in Named(c, {}) :
        svc' = [svc EXCEPT !.files[svc.handles[h].file].refs = @ - 1, !.handles[h] = NoHandle] BY Zenon DEF KsClose
<1>2. PICK f \in Files : f = svc.handles[h].file /\ h \in Handles /\ h \in OpenOn(f)
  BY DEF Named, ServiceInv, HandlesTrue, OpenOn
<1> DEFINE old == svc.files[f]
           file == [old EXCEPT !.refs = old.refs - 1]
           files == [svc.files EXCEPT ![f] = file]
           handles == [svc.handles EXCEPT ![h] = NoHandle]
<1>3. /\ old \in FileType
      /\ svc.files \in [Files -> FileType] /\ svc.handles \in [Handles -> HandleType]
      /\ svc.next_handle \in 0 .. HANDLE_MAX BY <1>2, FileTable
<1>4. old.refs = Cardinality(OpenOn(f)) /\ old.name # NoName BY <1>2 DEF ServiceInv, RefsExact
<1>5. handles \in [Handles -> HandleType] BY <1>3, NoHandleType
<1>6. svc' = [svc EXCEPT !.files = files, !.handles = handles] BY <1>1, <1>2, Zenon
<1>7. svc' = [svc EXCEPT !.files = files, !.handles = handles, !.next_handle = svc.next_handle]
  BY <1>6, Zenon DEF ServiceInv, TypeOK, ServiceType
<1>8. svc'.handles = handles BY <1>7, Zenon DEF ServiceInv, TypeOK, ServiceType
<1>9. /\ Cardinality(OpenOn(f)') = Cardinality(OpenOn(f)) - 1
      /\ OpenOn(f)' \subseteq OpenOn(f) /\ Cardinality(OpenOn(f)) \in Nat \ {0}
      /\ \A g \in Files \ {f} : OpenOn(g)' = OpenOn(g) BY <1>2, <1>8, OneLess
<1> HIDE DEF old
<1>10. old.refs - 1 \in Nat BY <1>4, <1>9
<1>11. /\ file \in FileType /\ file.refs = old.refs - 1 /\ file.name = old.name
       /\ file.size = old.size /\ file.data = old.data BY <1>3, <1>10, Zenon DEF FileType
<1> HIDE DEF file
<1>12. files \in [Files -> FileType] BY <1>3, <1>11
<1> HIDE DEF files, handles
<1>13. /\ SameEvents /\ TypeOK' /\ EventTrue'
       /\ svc'.files = files /\ svc'.next_handle = svc.next_handle BY <1>3, <1>5, <1>7, <1>12, TablesKeep, Zenon
<1>14. /\ svc'.files[f] = file /\ \A g \in Files \ {f} : svc'.files[g] = svc.files[g]
       /\ svc'.handles[h] = NoHandle /\ \A k \in Handles \ {h} : svc'.handles[k] = svc.handles[k]
  BY <1>2, <1>3, <1>8, <1>13 DEF files, handles
<1>15. RefsExact' BY <1>4, <1>9, <1>11, <1>14 DEF ServiceInv, RefsExact
<1>16. HolesReadZero' BY <1>2, <1>11, <1>14 DEF ServiceInv, HolesReadZero, old
<1>17. NoHandle.cookie = 0 BY Zenon DEF NoHandle
<1>18. HandlesTrue' /\ CookiesStay BY <1>13, <1>14, <1>17 DEF ServiceInv, HandlesTrue, CookiesStay
<1> QED BY <1>13, <1>15, <1>16, <1>18 DEF ServiceInv

LEMMA KsDeleteKeeps ==
  ASSUME ServiceInv, NEW n \in Names, KsDelete(n)
  PROVE  ServiceInv' /\ SameEvents /\ CookiesStay
<1>1. PICK f \in Node(n) : svc.files[f].refs = 0 /\ svc' = [svc EXCEPT !.files[f] = NoFile] BY Zenon DEF KsDelete
<1> DEFINE files == [svc.files EXCEPT ![f] = NoFile]
<1>2. f \in Files BY DEF Node, First
<1>3. /\ svc.files \in [Files -> FileType] /\ svc.handles \in [Handles -> HandleType]
      /\ svc.next_handle \in 0 .. HANDLE_MAX BY <1>2, FileTable
<1>4. files \in [Files -> FileType] BY <1>3, NoFileType
<1>5. svc' = [svc EXCEPT !.files = files] BY <1>1, Zenon
<1>6. svc' = [svc EXCEPT !.files = files, !.handles = svc.handles, !.next_handle = svc.next_handle]
  BY <1>5, Zenon DEF ServiceInv, TypeOK, ServiceType
<1> HIDE DEF files
<1>7. /\ SameEvents /\ TypeOK' /\ EventTrue'
      /\ svc'.files = files /\ svc'.handles = svc.handles /\ svc'.next_handle = svc.next_handle
  BY <1>3, <1>4, <1>6, TablesKeep, Zenon
<1>8. svc'.files[f] = NoFile /\ \A g \in Files \ {f} : svc'.files[g] = svc.files[g] BY <1>2, <1>3, <1>7 DEF files
<1>9. \A g : OpenOn(g)' = OpenOn(g) BY <1>7 DEF OpenOn
<1>10. NoFile.refs = 0 /\ \A o \in Offsets : NoFile.data[o] = Zero BY Zenon DEF NoFile
<1>11. OpenOn(f) = {} BY <1>1, <1>2, OpenFinite, FS_EmptySet DEF ServiceInv, RefsExact
<1>12. RefsExact' BY <1>1, <1>2, <1>8, <1>9, <1>10, <1>11 DEF ServiceInv, RefsExact
<1>13. HolesReadZero' BY <1>8, <1>10 DEF ServiceInv, HolesReadZero
<1>14. HandlesTrue' /\ CookiesStay BY <1>7 DEF ServiceInv, HandlesTrue, CookiesStay
<1> QED BY <1>7, <1>12, <1>13, <1>14 DEF ServiceInv

LEMMA FileCallKeeps ==
  ASSUME ServiceInv, FileCall
  PROVE  ServiceInv' /\ SameEvents /\ CookiesStay
BY KsOpenKeeps, KsWriteKeeps, KsCloseKeeps, KsDeleteKeeps, Zenon DEF FileCall

-----------------------------------------------------------------------------
(***************************************************************************)
(* The dispatcher and its client.                                          *)
(***************************************************************************)
EntryType == [type : Types, delta : 0 .. MAX_DELTA, key : Keys \cup {0}]

\* A queue of events of which at most one repaints and at most one ticks.
QueueTrue(queue) ==
    /\ queue \in Seq(EntryType) /\ Len(queue) <= QUEUE
    /\ \A i, j \in 1 .. Len(queue) :
        queue[i].type \in Coalesced /\ queue[i].type = queue[j].type => i = j

SliceTrue == pc = "user" => ticks < SLICE

AppInv ==
    /\ ServiceInv /\ AppTypeOK /\ QueueTrue(events) /\ SliceTrue
    /\ LayersAgree /\ InputInOrder /\ ReplayOwn /\ NothingDropped

\* The positions of P hold the last inputs up to hi, in order.
Ordered(P, K, hi) ==
    \E done \in 0 .. hi :
        /\ {K[i] : i \in P} = done + 1 .. hi
        /\ \A i, j \in P : i < j => K[i] < K[j]

LEMMA OrderedSame ==
  ASSUME NEW P, NEW K, NEW L, NEW hi \in Nat, Ordered(P, K, hi), \A i \in P : L[i] = K[i]
  PROVE  Ordered(P, L, hi) BY DEF Ordered

LEMMA OrderedAdded ==
  ASSUME NEW P, P \subseteq Nat, NEW K, NEW L, NEW hi \in Nat, Ordered(P, K, hi),
         NEW n \in Nat, \A i \in P : i < n /\ L[i] = K[i], L[n] = hi + 1
  PROVE  Ordered(P \cup {n}, L, hi + 1)
<1>1. PICK done \in 0 .. hi :
        {K[i] : i \in P} = done + 1 .. hi /\ \A i, j \in P : i < j => K[i] < K[j] BY DEF Ordered
<1>2. \A i \in P : L[i] \in done + 1 .. hi BY <1>1
<1>3. {L[i] : i \in P \cup {n}} = {K[i] : i \in P} \cup {hi + 1} OBVIOUS
<1>4. {L[i] : i \in P \cup {n}} = done + 1 .. hi + 1 BY <1>1, <1>3
<1>5. ASSUME NEW i \in P \cup {n}, NEW j \in P \cup {n}, i < j
      PROVE  L[i] < L[j]
  <2>1. i \in P BY <1>5
  <2>2. CASE j \in P BY <1>1, <1>5, <2>1, <2>2
  <2>3. CASE j = n BY <1>2, <2>1, <2>3
  <2> QED BY <2>2, <2>3
<1>6. done \in 0 .. hi + 1 OBVIOUS
<1> QED BY <1>4, <1>5, <1>6 DEF Ordered

\* Every position moves up by one.
LEMMA OrderedShifted ==
  ASSUME NEW P, P \subseteq Nat, NEW K, NEW L, NEW hi \in Nat, Ordered(P, K, hi),
         \A i \in P : L[i - 1] = K[i]
  PROVE  Ordered({i - 1 : i \in P}, L, hi)
<1>1. PICK done \in 0 .. hi :
        {K[i] : i \in P} = done + 1 .. hi /\ \A i, j \in P : i < j => K[i] < K[j] BY DEF Ordered
<1>2. {L[i] : i \in {k - 1 : k \in P}} = {K[i] : i \in P} OBVIOUS
<1>3. \A i, j \in {k - 1 : k \in P} : i < j => L[i] < L[j] BY <1>1
<1> QED BY <1>1, <1>2, <1>3 DEF Ordered

\* The first input has been handled.
LEMMA OrderedDropped ==
  ASSUME NEW P, P \subseteq Nat, NEW K, NEW hi \in Nat, Ordered(P, K, hi)
  PROVE  Ordered(P \ {0}, K, hi)
<1>1. PICK done \in 0 .. hi :
        {K[i] : i \in P} = done + 1 .. hi /\ \A i, j \in P : i < j => K[i] < K[j] BY DEF Ordered
<1>2. CASE 0 \notin P BY <1>2 DEF Ordered
<1>3. CASE 0 \in P
  <2>1. \A i \in P \ {0} : 0 < i OBVIOUS
  <2>2. K[0] \in done + 1 .. hi /\ \A i \in P \ {0} : K[0] < K[i] BY <1>1, <1>3, <2>1
  <2>3. \A i \in P : K[i] \in done + 1 .. hi BY <1>1
  <2>4. \A k \in done + 1 .. hi : \E i \in P : K[i] = k BY <1>1
  <2>5. K[0] = done + 1
    <3>1. PICK i \in P : K[i] = done + 1 BY <2>2, <2>4
    <3> QED BY <2>2, <3>1
  <2>6. {K[i] : i \in P \ {0}} = done + 2 .. hi
    <3>1. ASSUME NEW i \in P \ {0} PROVE K[i] \in done + 2 .. hi BY <2>2, <2>3, <2>5
    <3>2. ASSUME NEW k \in done + 2 .. hi PROVE \E i \in P \ {0} : K[i] = k BY <2>4, <2>5
    <3> QED BY <3>1, <3>2
  <2>7. done + 1 \in 0 .. hi /\ (done + 1) + 1 = done + 2 BY <2>2
  <2> QED BY <1>1, <2>6, <2>7 DEF Ordered
<1> QED BY <1>2, <1>3

LEMMA DispatchLimits ==
  /\ QUEUE \in Nat \ {0} /\ SLICE \in Nat \ {0} /\ SLICE_LIMIT \in Nat \ {0} /\ MaxInputs \in Nat \ {0}
  /\ MAX_DELTA \in Nat BY DispatchAssumption, LimitsAssumption

\* A coalesced event waits at one place at most; that is where Place finds it.
LEMMA PlaceFound ==
  ASSUME QueueTrue(events), NEW type \in Types
  PROVE  \/ /\ Place(type) \in 1 .. Len(events) /\ type \in Coalesced
            /\ events[Place(type)].type = type
         \/ /\ Place(type) = Len(events) + 1
            /\ type \in Coalesced => \A i \in 1 .. Len(events) : events[i].type # type
<1>1. DOMAIN events = 1 .. Len(events) /\ Len(events) \in Nat BY DEF QueueTrue
<1>2. CASE type \in Coalesced /\ Waiting(type) # {}
  <2>1. PICK i \in Waiting(type) : TRUE BY <1>2
  <2>2. \A k \in Waiting(type) : k = i BY <1>1, <1>2, <2>1 DEF Waiting, QueueTrue
  <2>3. i \in 1 .. Len(events) /\ events[i].type = type BY <1>1, <2>1 DEF Waiting
  <2>4. \A k \in Waiting(type) : i <= k BY <2>2, <2>3
  <2>5. Place(type) \in Waiting(type) BY <1>2, <2>1, <2>4 DEF Place
  <2>6. Place(type) = i BY <2>2, <2>5
  <2> QED BY <1>2, <2>3, <2>6
<1>3. CASE ~(type \in Coalesced /\ Waiting(type) # {}) BY <1>1, <1>3 DEF Place, Waiting
<1> QED BY <1>2, <1>3

\* What Queued leaves: the old queue with one entry replaced that is no input,
\* or with one entry more.
Replaced(queue, at, type) ==
    /\ Len(queue) = Len(events) /\ at \in 1 .. Len(events) /\ type \in Coalesced
    /\ queue[at].type = type /\ events[at].type = type
    /\ \A i \in 1 .. Len(events) : i # at => queue[i] = events[i]

Appended(queue, type, key) ==
    /\ Len(queue) = Len(events) + 1
    /\ queue[Len(events) + 1].type = type /\ queue[Len(events) + 1].key = key
    /\ \A i \in 1 .. Len(events) : queue[i] = events[i]
    /\ type \in Coalesced => \A i \in 1 .. Len(events) : events[i].type # type

LEMMA QueuedTrue ==
  ASSUME QueueTrue(events), NEW type \in Types, NEW delta \in 0 .. MAX_DELTA, NEW key \in Keys \cup {0},
         Place(type) # QUEUE + 1
  PROVE  /\ QueueTrue(Queued(type, delta, key)) /\ Len(Queued(type, delta, key)) > 0
         /\ \/ Replaced(Queued(type, delta, key), Place(type), type)
            \/ Appended(Queued(type, delta, key), type, key)
<1> DEFINE at == Place(type)
           before == IF type = "tick" /\ at <= Len(events) THEN events[at].delta ELSE 0
           sum == AtMost(MAX_DELTA, AtMost(MAX_DELTA, delta) + before)
           entry == [type |-> type, delta |-> sum, key |-> key]
           queue == Queued(type, delta, key)
<1>1. events \in Seq(EntryType) /\ Len(events) \in Nat /\ Len(events) <= QUEUE BY DEF QueueTrue
<1>2. at \in 1 .. Len(events) + 1 BY <1>1, PlaceFound
<1>3. before \in 0 .. MAX_DELTA
  <2>1. at \in 1 .. Len(events) => events[at].delta \in 0 .. MAX_DELTA
    <3>1. at \in 1 .. Len(events) => events[at] \in EntryType BY <1>1
    <3> QED BY <3>1, Zenon DEF EntryType
  <2> QED BY <1>1, <1>2, <2>1, DispatchLimits
<1> HIDE DEF before
<1>4. sum \in 0 .. MAX_DELTA BY <1>3, DispatchLimits DEF AtMost
<1> HIDE DEF sum
<1>5. entry \in EntryType /\ entry.type = type /\ entry.key = key BY <1>4, Zenon DEF EntryType
<1>6. queue = IF at <= Len(events) THEN [events EXCEPT ![at] = entry] ELSE Append(events, entry)
  BY DEF Queued, before, sum
<1> HIDE DEF entry, queue
<1>7. CASE at <= Len(events)
  <2>1. at \in 1 .. Len(events) BY <1>1, <1>2, <1>7
  <2>2. queue = [events EXCEPT ![at] = entry] BY <1>6, <1>7
  <2>3. type \in Coalesced /\ events[at].type = type BY <1>1, <2>1, PlaceFound
  <2> HIDE DEF at
  <2>4. queue \in Seq(EntryType) /\ Len(queue) = Len(events) BY <1>1, <1>5, <2>1, <2>2
  <2>5. queue[at] = entry /\ \A i \in 1 .. Len(events) : i # at => queue[i] = events[i] BY <1>1, <2>1, <2>2
  <2>6. \A i \in 1 .. Len(events) : queue[i].type = events[i].type BY <1>5, <2>3, <2>5
  <2>7. QueueTrue(queue) BY <1>1, <2>4, <2>6 DEF QueueTrue
  <2>8. Replaced(queue, at, type) BY <1>5, <2>1, <2>3, <2>4, <2>5 DEF Replaced
  <2>9. Len(queue) > 0 BY <1>1, <2>1, <2>4
  <2> QED BY <2>7, <2>8, <2>9 DEF queue, at
<1>8. CASE ~(at <= Len(events))
  <2>1. at = Len(events) + 1 /\ (type \in Coalesced => \A i \in 1 .. Len(events) : events[i].type # type)
    BY <1>1, <1>8, PlaceFound
  <2>2. Len(events) + 1 <= QUEUE BY <1>1, <2>1, DispatchLimits
  <2>3. queue = Append(events, entry) BY <1>6, <1>8
  <2> HIDE DEF at
  <2>4. queue \in Seq(EntryType) /\ Len(queue) = Len(events) + 1 BY <1>1, <1>5, <2>3
  <2>5. queue[Len(events) + 1] = entry /\ \A i \in 1 .. Len(events) : queue[i] = events[i] BY <1>1, <1>5, <2>3
  <2>6. ASSUME NEW i \in 1 .. Len(queue), NEW j \in 1 .. Len(queue),
               queue[i].type \in Coalesced, queue[i].type = queue[j].type
        PROVE  i = j BY <1>1, <1>5, <2>1, <2>4, <2>5, <2>6 DEF QueueTrue
  <2>7. QueueTrue(queue) BY <2>2, <2>4, <2>6 DEF QueueTrue
  <2>8. Appended(queue, type, key) BY <1>5, <2>1, <2>4, <2>5 DEF Appended
  <2>9. Len(queue) > 0 BY <1>1, <2>4
  <2> QED BY <2>7, <2>8, <2>9 DEF queue
<1> QED BY <1>7, <1>8

\* The inputs in line, and their keys by position.
KeysInLine == [i \in 0 .. Len(events) |-> At(i).key]

LEMMA LineOrdered ==
  ASSUME QueueTrue(events)
  PROVE  InputInOrder <=> Ordered(InLine, KeysInLine, typed)
<1>1. InLine \subseteq 0 .. Len(events) BY DEF InLine
<1>2. \A i \in InLine : KeysInLine[i] = At(i).key BY <1>1 DEF KeysInLine
<1> QED BY <1>2 DEF InputInOrder, Ordered

LEMMA TypedType ==
  ASSUME AppTypeOK
  PROVE  /\ typed \in 0 .. MaxInputs /\ ticks \in 0 .. SLICE /\ slices \in 0 .. SLICE_LIMIT - 1
         /\ generation \in 0 .. GENERATION_MAX /\ pc \in {"gui", "user"}
         /\ resident \in BOOLEAN /\ loaded \in BOOLEAN /\ shown \in BOOLEAN /\ closing \in BOOLEAN
         /\ cache \in [id : 0 .. TOKEN_MAX, count : 0 .. DRAW_BUDGET, owner : 0 .. GENERATION_MAX]
BY Zenon DEF AppTypeOK

LEMMA NoSpaceType ==
  /\ NoSpace \in [live : BOOLEAN, pins : {0, 1}]
  /\ [live |-> TRUE, pins |-> 1] \in [live : BOOLEAN, pins : {0, 1}] BY DEF NoSpace

LEMMA EmptyCacheType ==
  /\ EmptyCache \in [id : 0 .. TOKEN_MAX, count : 0 .. DRAW_BUDGET, owner : 0 .. GENERATION_MAX]
  /\ EmptyCache.id = 0 BY Limits, Zenon DEF EmptyCache

\* No event waits and none is pending.
LEMMA EmptyLine ==
  ASSUME events' = <<>>, svc'.pending = FALSE, typed' \in Nat
  PROVE  QueueTrue(events)' /\ InputInOrder'
<1>1. QueueTrue(events)' BY DispatchLimits DEF QueueTrue
<1>2. InLine' = {}
  <2>1. Len(events') = 0 OBVIOUS
  <2> QED BY <2>1 DEF InLine
<1>3. {At(i).key : i \in InLine}' = typed' + 1 .. typed' BY <1>2
<1>4. typed' \in 0 .. typed' OBVIOUS
<1>5. \A i, j \in InLine' : i < j => (At(i).key < At(j).key)' BY <1>2
<1> QED BY <1>1, <1>3, <1>4, <1>5 DEF InputInOrder

\* ku_app_unload and kapp_unload leave nothing of the application.
LEMMA GoneKeeps ==
  ASSUME AppInv, resident, Gone, shown' \in BOOLEAN
  PROVE  AppInv'
<1>1. /\ svc' = Dead /\ events' = <<>> /\ resident' = FALSE /\ loaded' = FALSE
      /\ cache' = EmptyCache /\ pc' = "gui" /\ ticks' = 0 /\ closing' = FALSE /\ typed' = 0
      /\ generation' = generation /\ slices' = slices BY DEF Gone, ClearCache
<1>2. ServiceInv' /\ svc'.live = FALSE /\ svc'.pending = FALSE BY <1>1, DeadKeeps, Zenon
<1>3. space' = NoSpace
  <2>1. space = [live |-> TRUE, pins |-> 1] BY Zenon DEF AppInv, LayersAgree
  <2>2. Unpinned(space).pins = 0 BY <2>1 DEF Unpinned
  <2> QED BY <2>2 DEF Gone, Released, SpaceDestroyed
<1>4. QueueTrue(events)' /\ InputInOrder' BY <1>1, <1>2, EmptyLine
<1>5. events' \in Seq([type : Types, delta : 0 .. MAX_DELTA, key : Keys \cup {0}]) BY <1>1
<1>6. ticks' \in 0 .. SLICE /\ typed' \in 0 .. MaxInputs BY <1>1, DispatchLimits
<1>7. AppTypeOK' BY <1>1, <1>2, <1>3, <1>5, <1>6, NoSpaceType, EmptyCacheType, Zenon DEF AppTypeOK, AppInv, ServiceInv
<1>8. SliceTrue' /\ LayersAgree' /\ ReplayOwn' /\ NothingDropped'
  BY <1>1, <1>2, <1>3, EmptyCacheType, Zenon DEF SliceTrue, LayersAgree, ReplayOwn, NothingDropped
<1> QED BY <1>2, <1>4, <1>7, <1>8 DEF AppInv

LEMMA LoadFailedKeeps ==
  ASSUME AppInv, LoadFailed
  PROVE  AppInv'
<1>1. /\ svc' = Dead /\ space' = NoSpace /\ generation' = generation + 1
      /\ UNCHANGED <<resident, events, slices, pc, ticks, closing, loaded, shown, cache, typed>>
      /\ ~loaded /\ ~resident /\ generation < GENERATION_MAX /\ pc = "gui" BY DEF LoadFailed
<1>2. ServiceInv' /\ svc'.live = FALSE /\ svc'.pending = FALSE BY <1>1, DeadKeeps, Zenon
<1>3. AppTypeOK BY DEF AppInv
<1>4. generation' \in 0 .. GENERATION_MAX BY <1>1, <1>3, TypedType, LimitsAssumption
<1>5. AppTypeOK' BY <1>1, <1>2, <1>3, <1>4, NoSpaceType, Zenon DEF AppTypeOK, ServiceInv
<1>6. events = <<>> /\ cache.id = 0 /\ resident = FALSE /\ loaded = FALSE /\ typed \in Nat
  <2>1. events = <<>> /\ cache.id = 0 BY <1>1, Zenon DEF AppInv, LayersAgree, ReplayOwn
  <2>2. resident = FALSE /\ loaded = FALSE /\ typed \in Nat BY <1>1, <1>3, TypedType
  <2> QED BY <2>1, <2>2
<1>7. QueueTrue(events)' /\ InputInOrder' BY <1>1, <1>2, <1>6, EmptyLine, Zenon
<1>8. SliceTrue' /\ LayersAgree' /\ ReplayOwn' /\ NothingDropped'
  BY <1>1, <1>2, <1>6, Zenon DEF AppInv, SliceTrue, LayersAgree, ReplayOwn, NothingDropped
<1> QED BY <1>2, <1>5, <1>7, <1>8 DEF AppInv

LEMMA LoadKeeps ==
  ASSUME AppInv, Load
  PROVE  AppInv' /\ generation + 1 \in 1 .. GENERATION_MAX
<1>1. /\ KsInit(generation + 1) /\ space' = [live |-> TRUE, pins |-> 1] /\ generation' = generation + 1
      /\ resident' = TRUE /\ events' = <<>> /\ slices' = 0 /\ loaded' = TRUE /\ cache' = EmptyCache
      /\ UNCHANGED <<pc, ticks, closing, shown, typed>>
      /\ generation < GENERATION_MAX /\ pc = "gui" BY DEF Load, ClearCache
<1>2. AppTypeOK BY DEF AppInv
<1>3. generation + 1 \in 1 .. GENERATION_MAX /\ generation + 1 \in 0 .. GENERATION_MAX
  BY <1>1, <1>2, TypedType, LimitsAssumption, SMTT(40)
<1>4. ServiceInv' /\ svc'.live = TRUE /\ svc'.pending = FALSE /\ svc'.generation = generation + 1
  BY <1>1, <1>3, KsInitKeeps, Zenon
<1>5. events' \in Seq([type : Types, delta : 0 .. MAX_DELTA, key : Keys \cup {0}]) BY <1>1
<1>6. slices' \in 0 .. SLICE_LIMIT - 1 BY <1>1, DispatchLimits
<1>7. AppTypeOK' BY <1>1, <1>2, <1>3, <1>4, <1>5, <1>6, NoSpaceType, EmptyCacheType, Zenon DEF AppTypeOK, ServiceInv
<1>8. QueueTrue(events)' /\ InputInOrder'
  <2>1. typed \in Nat BY <1>2, TypedType
  <2> QED BY <1>1, <1>4, <2>1, EmptyLine, Zenon
<1>9. SliceTrue' /\ LayersAgree' /\ ReplayOwn' /\ NothingDropped'
  BY <1>1, <1>4, EmptyCacheType, Zenon DEF AppInv, SliceTrue, LayersAgree, ReplayOwn, NothingDropped
<1> QED BY <1>3, <1>4, <1>7, <1>8, <1>9 DEF AppInv

\* Back in the kernel with the event still pending.
LEMMA StayKeeps ==
  ASSUME AppInv, NEW n \in 0 .. SLICE_LIMIT - 1, Stay(n), shown' = shown, ticks' \in 0 .. SLICE,
         svc' = svc
  PROVE  AppInv'
<1>1. /\ slices' = n /\ pc' = "gui"
      /\ UNCHANGED <<resident, generation, space, events, closing, loaded, cache, typed>> BY DEF Stay
<1>2. AppTypeOK /\ TypeOK' /\ ServiceInv'
  BY DEF AppInv, ServiceInv, TypeOK, RefsExact, HolesReadZero, HandlesTrue, EventTrue, OpenOn
<1>3. AppTypeOK' BY <1>1, <1>2, Zenon DEF AppTypeOK
<1>4. QueueTrue(events)' /\ InputInOrder' BY <1>1, Zenon DEF AppInv, QueueTrue, InputInOrder, InLine, At
<1>5. SliceTrue' BY <1>1 DEF SliceTrue
<1>6. LayersAgree' /\ ReplayOwn' /\ NothingDropped' BY <1>1, Zenon DEF AppInv, LayersAgree, ReplayOwn, NothingDropped
<1> QED BY <1>2, <1>3, <1>4, <1>5, <1>6 DEF AppInv

\* The application goes on, and so do its window and its queue; the service may
\* have drawn or worked on files.
LEMMA RunningKeeps ==
  ASSUME AppInv, pc = "user", ServiceInv',
         svc'.live = svc.live, svc'.generation = svc.generation,
         svc'.pending = svc.pending, svc'.next_event = svc.next_event, svc'.event = svc.event,
         UNCHANGED <<resident, generation, space, events, slices, pc, closing, loaded, shown, typed>>,
         ticks' \in 0 .. SLICE, ticks' < SLICE,
         cache' \in [id : 0 .. TOKEN_MAX, count : 0 .. DRAW_BUDGET, owner : 0 .. GENERATION_MAX],
         ReplayOwn', NothingDropped'
  PROVE  AppInv'
<1>1. AppTypeOK /\ TypeOK' BY DEF AppInv, ServiceInv
<1>2. AppTypeOK' BY <1>1, Zenon DEF AppTypeOK
<1>3. QueueTrue(events)' BY Zenon DEF AppInv, QueueTrue
<1>4. InputInOrder'
  <2>1. \A i : At(i)' = At(i) BY DEF At
  <2>2. InLine' = InLine BY <2>1 DEF InLine
  <2> QED BY <2>1, <2>2 DEF AppInv, InputInOrder
<1>5. SliceTrue' BY DEF SliceTrue
<1>6. LayersAgree' BY Zenon DEF AppInv, LayersAgree
<1> QED BY <1>2, <1>3, <1>4, <1>5, <1>6 DEF AppInv

LEMMA Present ==
  ASSUME AppInv, pc = "user"
  PROVE  /\ resident = TRUE /\ loaded = TRUE /\ svc.live = TRUE /\ svc.generation = generation
         /\ ticks \in 0 .. SLICE /\ ticks < SLICE
         /\ cache \in [id : 0 .. TOKEN_MAX, count : 0 .. DRAW_BUDGET, owner : 0 .. GENERATION_MAX]
<1>1. resident BY Zenon DEF AppInv, LayersAgree
<1>2. AppTypeOK BY DEF AppInv
<1>3. resident = TRUE BY <1>1, <1>2, TypedType
<1> QED BY <1>2, <1>3, TypedType, Zenon DEF AppInv, LayersAgree, SliceTrue

LEMMA WaitKeeps ==
  ASSUME AppInv, Wait
  PROVE  AppInv'
<1>1. KsWait /\ UNCHANGED rest /\ pc = "user" /\ ServiceInv BY DEF Wait, AppInv
<1>2. /\ ServiceInv'
      /\ svc'.live = svc.live /\ svc'.generation = svc.generation
      /\ svc'.pending = svc.pending /\ svc'.next_event = svc.next_event
      /\ svc'.event = svc.event /\ svc'.draw_left = svc.draw_left BY <1>1, KsWaitKeeps, Zenon
<1>3. ReplayOwn' /\ NothingDropped' BY <1>1, <1>2, Zenon DEF AppInv, rest, ReplayOwn, NothingDropped
<1>4. UNCHANGED <<resident, generation, space, events, slices, pc, ticks, closing, loaded, shown, cache, typed>>
  BY <1>1 DEF rest
<1> QED BY <1>1, <1>2, <1>3, <1>4, Present, RunningKeeps, Zenon

LEMMA UseFilesKeeps ==
  ASSUME AppInv, UseFiles
  PROVE  AppInv'
<1>1. FileCall /\ UNCHANGED rest /\ pc = "user" /\ ServiceInv BY DEF UseFiles, AppInv
<1>2. ServiceInv' /\ SameEvents BY <1>1, FileCallKeeps, Zenon
<1>3. /\ svc'.live = svc.live /\ svc'.generation = svc.generation
      /\ svc'.pending = svc.pending /\ svc'.next_event = svc.next_event
      /\ svc'.event = svc.event /\ svc'.draw_left = svc.draw_left BY <1>2, Zenon DEF SameEvents
<1>4. ReplayOwn' /\ NothingDropped' BY <1>1, <1>3, Zenon DEF AppInv, rest, ReplayOwn, NothingDropped
<1>5. UNCHANGED <<resident, generation, space, events, slices, pc, ticks, closing, loaded, shown, cache, typed>>
  BY <1>1 DEF rest
<1> QED BY <1>1, <1>2, <1>3, <1>4, <1>5, Present, RunningKeeps, Zenon

\* A draw or a text of n commands, of which m go to the recorder, or none.
LEMMA SinkKeeps ==
  ASSUME AppInv, pc = "user", svc.pending, ServiceInv', NEW n \in 1 .. DRAW_BUDGET,
         svc'.live = svc.live, svc'.generation = svc.generation,
         svc'.pending = svc.pending, svc'.next_event = svc.next_event, svc'.event = svc.event,
         svc'.draw_left = svc.draw_left - n, svc.draw_left \in 0 .. DRAW_BUDGET,
         (\E m \in 0 .. n : Sink(m)) \/ UNCHANGED cache, UserOnly
  PROVE  AppInv'
<1>1. /\ UNCHANGED <<resident, generation, space, events, slices, pc, ticks, closing, loaded, shown, typed>>
  BY DEF UserOnly
<1>2. svc.event.id = svc.next_event /\ svc.next_event > 0 /\ svc.next_event \in 0 .. TOKEN_MAX
  BY Zenon DEF AppInv, ServiceInv, EventTrue, TypeOK, ServiceType
<1>3. generation \in 0 .. GENERATION_MAX /\ DRAW_BUDGET \in Nat BY TypedType, LimitsAssumption DEF AppInv
<1>4. cache.count \in 0 .. DRAW_BUDGET /\ cache.id \in 0 .. TOKEN_MAX BY Present, Zenon
<1>5. CASE UNCHANGED cache
  <2>1. ReplayOwn' BY <1>1, <1>5, Zenon DEF AppInv, ReplayOwn
  <2>2. NothingDropped' BY <1>3, <1>4, <1>5 DEF AppInv, NothingDropped
  <2> QED BY <1>1, <1>5, <2>1, <2>2, Present, RunningKeeps, Zenon
<1>6. CASE \E m \in 0 .. n : Sink(m)
  <2>1. PICK m \in 0 .. n : Sink(m) BY <1>6
  <2> DEFINE base == IF cache.id = svc.event.id THEN cache.count ELSE 0
             count == IF m > DRAW_BUDGET - base THEN base ELSE base + m
  <2>2. cache' = [id |-> svc.event.id, owner |-> generation, count |-> count] BY <2>1, Zenon DEF Sink
  <2>3. base \in 0 .. DRAW_BUDGET /\ base + svc.draw_left <= DRAW_BUDGET
    <3>1. cache.id = svc.event.id => cache.count + svc.draw_left <= DRAW_BUDGET BY Zenon DEF AppInv, NothingDropped
    <3> QED BY <3>1, <1>3, <1>4
  <2> HIDE DEF base
  <2>4. count \in 0 .. DRAW_BUDGET /\ count + (svc.draw_left - n) <= DRAW_BUDGET BY <1>3, <2>3
  <2> HIDE DEF count
  <2>5. cache'.id = svc.event.id /\ cache'.owner = generation /\ cache'.count = count BY <2>2, Zenon
  <2>6. cache' \in [id : 0 .. TOKEN_MAX, count : 0 .. DRAW_BUDGET, owner : 0 .. GENERATION_MAX]
    BY <1>2, <1>3, <2>2, <2>4, Zenon
  <2>7. ReplayOwn'
    <3>1. cache'.id <= svc'.next_event BY <1>2, <2>5
    <3> QED BY <1>1, <2>5, <3>1, Present, Zenon DEF ReplayOwn
  <2>8. NothingDropped' BY <2>4, <2>5, Zenon DEF NothingDropped
  <2> QED BY <1>1, <2>6, <2>7, <2>8, Present, RunningKeeps, Zenon
<1> QED BY <1>5, <1>6

LEMMA DrawKeeps ==
  ASSUME AppInv, Draw
  PROVE  AppInv'
<1>1. PICK n \in 1 .. DRAW_BUDGET : KsDraw(svc.event.id, n) /\ \E m \in 0 .. n : Sink(m) BY Zenon DEF Draw
<1>2. pc = "user" /\ UserOnly /\ ServiceInv /\ svc.pending BY <1>1, Zenon DEF Draw, AppInv, KsDraw, Current
<1> QED BY <1>1, <1>2, KsDrawKeeps, SinkKeeps, Zenon

LEMMA TextKeeps ==
  ASSUME AppInv, Text
  PROVE  AppInv'
<1>1. PICK n \in 1 .. TEXT_BUDGET : KsText(svc.event.id, n) BY Zenon DEF Text
<1>2. /\ pc = "user" /\ UserOnly /\ ServiceInv /\ svc.pending
      /\ Sink(1) \/ UNCHANGED cache BY <1>1, Zenon DEF Text, AppInv, KsText, Current
<1>3. /\ ServiceInv'
      /\ svc'.live = svc.live /\ svc'.generation = svc.generation
      /\ svc'.pending = svc.pending /\ svc'.next_event = svc.next_event
      /\ svc'.event = svc.event
      /\ svc'.draw_left = svc.draw_left - 1 /\ svc.draw_left \in 1 .. DRAW_BUDGET BY <1>1, <1>2, KsTextKeeps, Zenon
<1>4. 1 \in 1 .. DRAW_BUDGET /\ 1 \in 0 .. 1 /\ svc.draw_left \in 0 .. DRAW_BUDGET BY <1>3, LimitsAssumption
<1> QED BY <1>2, <1>3, <1>4, SinkKeeps, Zenon

-----------------------------------------------------------------------------
(***************************************************************************)
(* ku_app_event: the queue with the new event, before one is posted.       *)
(***************************************************************************)
AtOf(queue, i) == IF i = 0 THEN svc.event ELSE queue[i]
LineOf(queue) == {i \in 0 .. Len(queue) : (i = 0 => svc.pending) /\ AtOf(queue, i).type \in Inputs}
KeysOf(queue) == [i \in 0 .. Len(queue) |-> AtOf(queue, i).key]
TypedWith(type) == IF type \in Inputs THEN typed + 1 ELSE typed

LEMMA QueuedOrdered ==
  ASSUME AppInv, NEW queue, QueueTrue(queue), NEW type \in Types, NEW key, NEW at,
         type \in Inputs => key = typed + 1,
         Replaced(queue, at, type) \/ Appended(queue, type, key)
  PROVE  Ordered(LineOf(queue), KeysOf(queue), TypedWith(type))
<1>1. QueueTrue(events) /\ typed \in Nat /\ Len(events) \in Nat BY TypedType DEF AppInv, QueueTrue
<1>2. Ordered(InLine, KeysInLine, typed) BY <1>1, LineOrdered DEF AppInv
<1>3. InLine \subseteq 0 .. Len(events) /\ \A i \in 0 .. Len(events) : At(i) = AtOf(events, i) BY DEF InLine, At, AtOf
<1>4. Coalesced \cap Inputs = {} BY DEF Coalesced, Inputs
<1>5. CASE Replaced(queue, at, type)
  <2>1. \A i \in 0 .. Len(events) : i # at => AtOf(queue, i) = At(i) BY <1>5 DEF Replaced, AtOf, At
  <2>2. at \in 1 .. Len(events) /\ At(at).type \notin Inputs /\ AtOf(queue, at).type \notin Inputs
    BY <1>4, <1>5 DEF Replaced, AtOf, At
  <2>3. Len(queue) = Len(events) /\ TypedWith(type) = typed BY <1>4, <1>5 DEF Replaced, TypedWith
  <2>4. LineOf(queue) = InLine BY <2>1, <2>2, <2>3 DEF LineOf, InLine
  <2>5. \A i \in InLine : KeysOf(queue)[i] = KeysInLine[i] BY <1>3, <2>1, <2>2, <2>3 DEF KeysOf, KeysInLine, InLine
  <2> QED BY <1>1, <1>2, <2>3, <2>4, <2>5, OrderedSame
<1>6. CASE Appended(queue, type, key)
  <2> DEFINE n == Len(events) + 1
  <2>1. \A i \in 0 .. Len(events) : AtOf(queue, i) = At(i) BY <1>6 DEF Appended, AtOf, At
  <2>2. AtOf(queue, n).type = type /\ AtOf(queue, n).key = key /\ Len(queue) = n BY <1>1, <1>6 DEF Appended, AtOf
  <2>3. \A i \in InLine : KeysOf(queue)[i] = KeysInLine[i] BY <1>1, <1>3, <2>1, <2>2 DEF KeysOf, KeysInLine
  <2>4. KeysOf(queue)[n] = key BY <1>1, <2>2 DEF KeysOf
  <2>5. CASE type \in Inputs
    <3>1. LineOf(queue) = InLine \cup {n}
      <4>1. \A i \in 0 .. n : i \in 0 .. Len(events) \/ i = n BY <1>1
      <4> QED BY <1>1, <2>1, <2>2, <2>5, <4>1 DEF LineOf, InLine
    <3>2. \A i \in InLine : i < n BY <1>1, <1>3
    <3>3. InLine \subseteq Nat /\ n \in Nat BY <1>1, <1>3
    <3>4. KeysOf(queue)[n] = typed + 1 /\ TypedWith(type) = typed + 1 BY <2>4, <2>5 DEF TypedWith
    <3> HIDE DEF n
    <3>5. \A i \in InLine : i < n /\ KeysOf(queue)[i] = KeysInLine[i] BY <2>3, <3>2
    <3>6. Ordered(InLine \cup {n}, KeysOf(queue), typed + 1) BY <1>1, <1>2, <3>3, <3>4, <3>5, OrderedAdded, Zenon
    <3> QED BY <3>1, <3>4, <3>6
  <2>6. CASE type \notin Inputs
    <3>1. LineOf(queue) = InLine
      <4>1. \A i \in 0 .. n : i \in 0 .. Len(events) \/ i = n BY <1>1
      <4> QED BY <1>1, <2>1, <2>2, <2>6, <4>1 DEF LineOf, InLine
    <3>2. TypedWith(type) = typed BY <2>6 DEF TypedWith
    <3> QED BY <1>1, <1>2, <2>3, <3>1, <3>2, OrderedSame
  <2> QED BY <2>5, <2>6
<1> QED BY <1>5, <1>6

\* ku_app_event, unless it removes the application: its event waits behind the
\* one that is pending, or the first in the queue is posted.
Pumped(type, delta, key) ==
    LET queue == Queued(type, delta, key)
    IN  /\ IF svc.pending
           THEN events' = queue /\ UNCHANGED svc
           ELSE /\ KsPost(Head(queue).type, Head(queue).delta, Head(queue).key)
                /\ events' = Taken(queue)
        /\ pc' = "user" /\ ticks' = 0
        /\ typed' = IF type \in Inputs THEN key ELSE typed
        /\ UNCHANGED <<resident, generation, space, slices, loaded, cache>>

\* What is left to show of it once its event is in line.
LEMMA PumpedRest ==
  ASSUME AppInv, pc = "gui", loaded, pc' = "user", ticks' = 0, typed' \in 0 .. MaxInputs,
         UNCHANGED <<resident, generation, space, slices, loaded, cache>>,
         shown' \in BOOLEAN, closing' \in BOOLEAN,
         ServiceInv', svc'.live = svc.live, svc'.generation = svc.generation,
         svc'.next_event >= svc.next_event,
         NothingDropped', QueueTrue(events)', InputInOrder'
  PROVE  AppInv'
<1>1. AppTypeOK /\ TypeOK' /\ resident BY Zenon DEF AppInv, ServiceInv, LayersAgree
<1>2. ticks' \in 0 .. SLICE /\ ticks' < SLICE BY DispatchLimits
<1>3. events' \in Seq([type : Types, delta : 0 .. MAX_DELTA, key : Keys \cup {0}]) BY Zenon DEF QueueTrue, EntryType
<1>4. AppTypeOK' BY <1>1, <1>2, <1>3, Zenon DEF AppTypeOK
<1>5. SliceTrue' BY <1>2 DEF SliceTrue
<1>6. LayersAgree' BY <1>1, Zenon DEF AppInv, LayersAgree
<1>7. ReplayOwn'
  <2>1. svc.next_event \in Int /\ svc'.next_event \in Int /\ cache.id \in Int
    <3>1. svc.next_event \in 0 .. TOKEN_MAX /\ svc'.next_event \in 0 .. TOKEN_MAX
      BY Zenon DEF AppInv, ServiceInv, TypeOK, ServiceType
    <3>2. cache.id \in 0 .. TOKEN_MAX BY <1>1, TypedType, Zenon
    <3> QED BY <3>1, <3>2
  <2>2. cache.id # 0 => cache.owner = generation /\ cache.id <= svc.next_event BY Zenon DEF AppInv, ReplayOwn
  <2>3. cache.id # 0 => cache.id <= svc'.next_event BY <2>1, <2>2
  <2> QED BY <2>2, <2>3, Zenon DEF ReplayOwn
<1> QED BY <1>4, <1>5, <1>6, <1>7 DEF AppInv

LEMMA PumpedKeeps ==
  ASSUME AppInv, pc = "gui", loaded, NEW type \in Types, NEW delta \in 0 .. MAX_DELTA,
         NEW key \in Keys \cup {0}, type \in Inputs => key = typed + 1 /\ typed < MaxInputs,
         Place(type) # QUEUE + 1, Pumped(type, delta, key),
         shown' \in BOOLEAN, closing' \in BOOLEAN
  PROVE  /\ AppInv'
         /\ \/ svc' = svc
            \/ \E t \in Types, d \in 0 .. MAX_DELTA, k \in Keys \cup {0} : KsPost(t, d, k)
<1> DEFINE queue == Queued(type, delta, key)
<1>1. /\ pc' = "user" /\ ticks' = 0 /\ typed' = IF type \in Inputs THEN key ELSE typed
      /\ UNCHANGED <<resident, generation, space, slices, loaded, cache>> BY DEF Pumped
<1>2. typed' = TypedWith(type) /\ typed' \in 0 .. MaxInputs /\ typed' \in Nat
  BY <1>1, TypedType, DispatchLimits DEF TypedWith, AppInv
<1>3. QueueTrue(queue) /\ Len(queue) > 0 /\ (Replaced(queue, Place(type), type) \/ Appended(queue, type, key))
  BY QueuedTrue, Zenon DEF AppInv
<1>4. /\ svc.pending => events' = queue /\ UNCHANGED svc
      /\ ~svc.pending => /\ KsPost(Head(queue).type, Head(queue).delta, Head(queue).key)
                         /\ events' = Taken(queue) BY Zenon DEF Pumped
<1> HIDE DEF queue
<1>5. Ordered(LineOf(queue), KeysOf(queue), typed') BY <1>2, <1>3, QueuedOrdered, Zenon
<1>6. CASE svc.pending
  <2>1. events' = queue /\ svc' = svc BY <1>4, <1>6
  <2>2. QueueTrue(events)' BY <1>3, <2>1, Zenon DEF QueueTrue
  <2>3. \A i : At(i)' = AtOf(queue, i) BY <2>1 DEF At, AtOf
  <2>4. InLine' = LineOf(queue) /\ KeysInLine' = KeysOf(queue) BY <2>1, <2>3 DEF InLine, LineOf, KeysInLine, KeysOf
  <2>5. InputInOrder'
    <3>1. Ordered(InLine, KeysInLine, typed)' BY <1>5, <2>4 DEF Ordered
    <3>2. (InputInOrder <=> Ordered(InLine, KeysInLine, typed))' BY <2>2, LineOrdered, PTL
    <3> QED BY <3>1, <3>2
  <2>6. ServiceInv' /\ svc.next_event \in 0 .. TOKEN_MAX
    BY <2>1, Zenon DEF AppInv, ServiceInv, TypeOK, ServiceType, RefsExact, HolesReadZero, HandlesTrue, EventTrue, OpenOn
  <2>7. svc'.next_event >= svc.next_event BY <2>1, <2>6
  <2>8. NothingDropped' BY <1>1, <2>1, Zenon DEF AppInv, NothingDropped
  <2> QED BY <1>1, <1>2, <2>1, <2>2, <2>5, <2>6, <2>7, <2>8, PumpedRest, Zenon
<1>7. CASE ~svc.pending
  <2> DEFINE first == Head(queue)
  <2>1. KsPost(first.type, first.delta, first.key) /\ events' = Tail(queue) BY <1>4, <1>7 DEF Taken
  <2>2. queue \in Seq(EntryType) /\ Len(queue) \in Nat /\ Len(queue) <= QUEUE BY <1>3 DEF QueueTrue
  <2>3. first \in EntryType /\ first = queue[1] BY <1>3, <2>2
  <2>4. events' \in Seq(EntryType) /\ Len(events') = Len(queue) - 1 BY <1>3, <2>1, <2>2
  <2>5. \A i \in 1 .. Len(queue) - 1 : events'[i] = queue[i + 1] BY <1>3, <2>1, <2>2
  <2>6. QueueTrue(events)'
    <3>1. Len(events') <= QUEUE BY <2>2, <2>4, DispatchLimits
    <3>2. ASSUME NEW i \in 1 .. Len(events'), NEW j \in 1 .. Len(events'),
                 events'[i].type \in Coalesced, events'[i].type = events'[j].type
          PROVE  i = j
      <4>1. i + 1 \in 1 .. Len(queue) /\ j + 1 \in 1 .. Len(queue) BY <2>2, <2>4
      <4>2. events'[i] = queue[i + 1] /\ events'[j] = queue[j + 1] BY <2>2, <2>4, <2>5
      <4>3. i + 1 = j + 1 BY <1>3, <3>2, <4>1, <4>2 DEF QueueTrue
      <4> QED BY <4>3
    <3> QED BY <2>4, <3>1, <3>2 DEF QueueTrue
  <2>7. first.type \in Types /\ first.delta \in 0 .. MAX_DELTA /\ first.key \in Keys \cup {0}
    BY <2>3, Zenon DEF EntryType
  <2> HIDE DEF first
  <2>8. ServiceInv BY DEF AppInv
  <2>9. /\ svc'.live = svc.live /\ svc'.generation = svc.generation
        /\ svc'.pending = TRUE /\ svc'.next_event = svc.next_event + 1
        /\ svc'.event = Event(svc.next_event + 1, first.type, AtMost(MAX_DELTA, first.delta), first.key)
        /\ svc'.draw_left = DRAW_BUDGET /\ ServiceInv' BY <2>1, <2>7, <2>8, KsPostKeeps, Zenon
  <2>10. svc'.event.type = first.type /\ svc'.event.key = first.key /\ svc'.event.id = svc.next_event + 1
    BY <2>9 DEF Event
  <2>11. svc.next_event \in 0 .. TOKEN_MAX BY <2>8, Zenon DEF ServiceInv, TypeOK, ServiceType
  <2>12. svc'.next_event >= svc.next_event /\ svc'.event.id > svc.next_event BY <2>9, <2>10, <2>11
  <2>13. NothingDropped'
    <3>1. cache.id \in 0 .. TOKEN_MAX BY TypedType, Zenon DEF AppInv
    <3>2. cache.id <= svc.next_event BY <2>11, <3>1 DEF AppInv, ReplayOwn
    <3>3. cache'.id # svc'.event.id BY <1>1, <2>10, <2>11, <3>1, <3>2
    <3> QED BY <3>3, Zenon DEF NothingDropped
  <2>14. \A i \in 1 .. Len(queue) : At(i - 1)'.type = queue[i].type /\ At(i - 1)'.key = queue[i].key
    <3>1. ASSUME NEW i \in 1 .. Len(queue), i # 1
          PROVE  At(i - 1)' = queue[i]
      <4>1. i - 1 \in 1 .. Len(queue) - 1 /\ i - 1 # 0 /\ (i - 1) + 1 = i BY <2>2, <3>1
      <4> QED BY <2>5, <4>1 DEF At
    <3>2. At(0)'.type = queue[1].type /\ At(0)'.key = queue[1].key BY <2>3, <2>10 DEF At, first
    <3> QED BY <3>1, <3>2
  <2>15. LineOf(queue) \subseteq 1 .. Len(queue) /\ LineOf(queue) \subseteq Nat BY <1>7, <2>2 DEF LineOf
  <2>16. \A i \in 1 .. Len(queue) : i \in LineOf(queue) <=> i - 1 \in InLine'
    <3>1. \A i \in 1 .. Len(queue) : i \in LineOf(queue) <=> queue[i].type \in Inputs BY <2>2 DEF LineOf, AtOf
    <3>2. \A i \in 1 .. Len(queue) : i - 1 \in InLine' <=> queue[i].type \in Inputs
      <4>1. \A i \in 1 .. Len(queue) : i - 1 \in 0 .. Len(events') BY <2>2, <2>4
      <4> QED BY <2>9, <2>14, <4>1 DEF InLine
    <3> QED BY <3>1, <3>2
  <2>17. InLine' = {i - 1 : i \in LineOf(queue)}
    <3>1. \A k \in InLine' : k \in 0 .. Len(queue) - 1 BY <2>4 DEF InLine
    <3>2. ASSUME NEW k \in InLine'
          PROVE  k + 1 \in LineOf(queue) /\ (k + 1) - 1 = k
      <4>1. k + 1 \in 1 .. Len(queue) /\ (k + 1) - 1 = k BY <2>2, <3>1
      <4> QED BY <2>16, <4>1
    <3>3. ASSUME NEW i \in LineOf(queue) PROVE i - 1 \in InLine' BY <2>15, <2>16
    <3> QED BY <3>2, <3>3
  <2>18. \A i \in LineOf(queue) : KeysInLine'[i - 1] = KeysOf(queue)[i]
    <3>1. \A i \in 1 .. Len(queue) : KeysOf(queue)[i] = queue[i].key BY <2>2 DEF KeysOf, AtOf
    <3>2. \A i \in 1 .. Len(queue) : KeysInLine'[i - 1] = At(i - 1)'.key
      <4>1. \A i \in 1 .. Len(queue) : i - 1 \in 0 .. Len(events') BY <2>2, <2>4
      <4> QED BY <4>1 DEF KeysInLine
    <3> QED BY <2>14, <2>15, <3>1, <3>2
  <2>19. InputInOrder'
    <3>1. Ordered({i - 1 : i \in LineOf(queue)}, KeysInLine', typed')
      BY <1>2, <1>5, <2>15, <2>18, OrderedShifted, Zenon
    <3>2. Ordered(InLine, KeysInLine, typed)' BY <2>17, <3>1 DEF Ordered
    <3>3. (InputInOrder <=> Ordered(InLine, KeysInLine, typed))' BY <2>6, LineOrdered, PTL
    <3> QED BY <3>2, <3>3
  <2>20. \E t \in Types, d \in 0 .. MAX_DELTA, k \in Keys \cup {0} : KsPost(t, d, k) BY <2>1, <2>7
  <2> QED BY <1>1, <1>2, <2>6, <2>9, <2>12, <2>13, <2>19, <2>20, PumpedRest, Zenon
<1> QED BY <1>6, <1>7

-----------------------------------------------------------------------------
(***************************************************************************)
(* Each step of the program.                                               *)
(***************************************************************************)
\* A step keeps the invariant and is one that UserService allows.
Keeps == AppInv' /\ [Next]_svc

LEMMA GoneStep ==
  ASSUME AppInv, resident, Gone, shown' \in BOOLEAN
  PROVE  Keeps BY GoneKeeps, Zenon DEF Keeps, Gone, Next, KsDestroy

LEMMA ShownBoolean ==
  ASSUME AppInv
  PROVE  shown \in BOOLEAN /\ closing \in BOOLEAN /\ resident \in BOOLEAN /\ loaded = resident
BY TypedType, Zenon DEF AppInv, LayersAgree

LEMMA PumpStep ==
  ASSUME AppInv, pc = "gui", loaded, NEW type \in Types, NEW delta \in 0 .. MAX_DELTA,
         NEW key \in Keys \cup {0}, type \in Inputs => key = typed + 1 /\ typed < MaxInputs,
         Pump(type, delta, key), shown' \in BOOLEAN, closing' \in BOOLEAN
  PROVE  Keeps
<1>1. CASE Place(type) = QUEUE + 1 \/ (~svc.pending /\ svc.next_event = TOKEN_MAX)
  BY <1>1, GoneStep, ShownBoolean, Zenon DEF Pump, Overflow
<1>2. CASE ~(Place(type) = QUEUE + 1 \/ (~svc.pending /\ svc.next_event = TOKEN_MAX))
  <2>1. Pumped(type, delta, key) /\ Place(type) # QUEUE + 1 BY <1>2, Zenon DEF Pump, Pumped
  <2> QED BY <2>1, PumpedKeeps, Zenon DEF Keeps, Next
<1> QED BY <1>1, <1>2

LEMMA RefreshStep ==
  ASSUME AppInv, NEW type \in Coalesced, NEW delta \in 0 .. MAX_DELTA, Refresh(type, delta)
  PROVE  Keeps
<1>1. type \in Types /\ type \notin Inputs /\ 0 \in Keys \cup {0} BY DEF Coalesced, Types, Inputs
<1>2. pc = "gui" /\ loaded /\ Pump(type, delta, 0) /\ shown' \in BOOLEAN /\ closing' \in BOOLEAN BY DEF Refresh
<1> QED BY <1>1, <1>2, PumpStep, Zenon

LEMMA InputStep ==
  ASSUME AppInv, NEW type \in Inputs, Input(type)
  PROVE  Keeps
<1>1. /\ pc = "gui" /\ loaded /\ Pump(type, 0, typed + 1) /\ shown' \in BOOLEAN /\ closing' \in BOOLEAN
      /\ typed < MaxInputs BY DEF Input
<1>2. typed + 1 \in 1 .. MaxInputs BY <1>1, TypedType, DispatchLimits DEF AppInv
<1>3. type \in Types /\ typed + 1 \in Keys \cup {0} /\ 0 \in 0 .. MAX_DELTA
  BY <1>2, InputsAssumption, Limits DEF Types, Inputs
<1> QED BY <1>1, <1>3, PumpStep, Zenon

LEMMA KappUnloadStep ==
  ASSUME AppInv, KappUnload
  PROVE  Keeps
<1>1. pc = "gui" /\ loaded /\ shown' = shown BY DEF KappUnload
<1>2. CASE shown
  <2>1. Pump("close", 0, 0) /\ closing' \in BOOLEAN BY <1>2 DEF KappUnload
  <2>2. "close" \in Types /\ "close" \notin Inputs /\ 0 \in Keys \cup {0} /\ 0 \in 0 .. MAX_DELTA
    BY Limits DEF Types, Inputs
  <2> QED BY <1>1, <2>1, <2>2, PumpStep, ShownBoolean, Zenon
<1>3. CASE ~shown BY <1>1, <1>3, GoneStep, ShownBoolean, Zenon DEF KappUnload
<1> QED BY <1>2, <1>3

LEMMA LoadStep ==
  ASSUME AppInv, Load
  PROVE  Keeps BY LoadKeeps, Zenon DEF Keeps, Load, Next

LEMMA LoadFailedStep ==
  ASSUME AppInv, LoadFailed
  PROVE  Keeps BY LoadFailedKeeps, Zenon DEF Keeps, LoadFailed, Next, KsDestroy

LEMMA FinishYieldedStep ==
  ASSUME AppInv, pc = "user", FinishYielded
  PROVE  Keeps
<1>1. shown' \in BOOLEAN /\ shown' = shown /\ resident BY Present, ShownBoolean, Zenon DEF FinishYielded
<1>2. CASE slices + 1 >= SLICE_LIMIT \/ closing BY <1>1, <1>2, GoneStep, Zenon DEF FinishYielded
<1>3. CASE ~(slices + 1 >= SLICE_LIMIT \/ closing)
  <2>1. Stay(slices + 1) /\ ticks' = ticks + 1 /\ svc' = svc BY <1>3, Zenon DEF FinishYielded
  <2>2. slices \in 0 .. SLICE_LIMIT - 1 /\ ticks \in 0 .. SLICE /\ ticks < SLICE BY TypedType, Present DEF AppInv
  <2>3. slices + 1 \in 0 .. SLICE_LIMIT - 1 /\ ticks + 1 \in 0 .. SLICE BY <1>3, <2>2, DispatchLimits
  <2> QED BY <1>1, <2>1, <2>3, StayKeeps, Zenon DEF Keeps
<1> QED BY <1>2, <1>3

LEMMA TickStep ==
  ASSUME AppInv, Tick
  PROVE  Keeps
<1>1. pc = "user" BY DEF Tick
<1>2. CASE ticks + 1 >= SLICE BY <1>1, <1>2, FinishYieldedStep, Zenon DEF Tick
<1>3. CASE ~(ticks + 1 >= SLICE)
  <2>1. /\ ticks' = ticks + 1
        /\ UNCHANGED <<svc, resident, generation, space, events, slices, pc,
                       closing, loaded, shown, cache, typed>> BY <1>3, Zenon DEF Tick
  <2>2. ticks' \in 0 .. SLICE /\ ticks' < SLICE BY <1>1, <1>3, <2>1, Present, DispatchLimits
  <2>3. ServiceInv'
    BY <2>1, Zenon DEF AppInv, ServiceInv, TypeOK, RefsExact, HolesReadZero, HandlesTrue, EventTrue, OpenOn
  <2>4. ReplayOwn' /\ NothingDropped' BY <2>1, Zenon DEF AppInv, ReplayOwn, NothingDropped
  <2> QED BY <1>1, <2>1, <2>2, <2>3, <2>4, Present, RunningKeeps, Zenon DEF Keeps
<1> QED BY <1>2, <1>3

LEMMA AgainStep ==
  ASSUME AppInv, Again
  PROVE  Keeps
<1>1. pc = "user" /\ shown' = shown /\ shown' \in BOOLEAN /\ resident BY Present, ShownBoolean, Zenon DEF Again
<1>2. CASE closing BY <1>1, <1>2, GoneStep, Zenon DEF Again
<1>3. CASE ~closing
  <2>1. Stay(0) /\ ticks' = ticks /\ svc' = svc BY <1>3, Zenon DEF Again
  <2>2. 0 \in 0 .. SLICE_LIMIT - 1 /\ ticks' \in 0 .. SLICE BY <1>1, <2>1, Present, DispatchLimits
  <2> QED BY <1>1, <2>1, <2>2, StayKeeps, Zenon DEF Keeps
<1> QED BY <1>2, <1>3

LEMMA StopStep ==
  ASSUME AppInv, Stop
  PROVE  Keeps BY GoneStep, Present, ShownBoolean, Zenon DEF Stop

\* The event of the slice is complete: it leaves the line.
LEMMA CompleteStep ==
  ASSUME AppInv, Complete
  PROVE  Keeps
<1>1. pc = "user" /\ shown' = shown /\ shown' \in BOOLEAN /\ resident /\ ServiceInv
  BY Present, ShownBoolean, Zenon DEF Complete, AppInv
<1>2. CASE closing BY <1>1, <1>2, GoneStep, Zenon DEF Complete
<1>3. CASE ~closing
  <2>1. KsComplete(svc.event.id) /\ Stay(0) /\ ticks' = ticks BY <1>3, Zenon DEF Complete
  <2>2. svc.pending /\ svc.event.id = svc.next_event /\ svc.next_event > 0
    BY <2>1, <1>1, Zenon DEF KsComplete, Current, ServiceInv, EventTrue
  <2>3. svc.event.id \in 1 .. svc.next_event
    <3>1. svc.next_event \in 0 .. TOKEN_MAX BY <1>1, Zenon DEF ServiceInv, TypeOK, ServiceType
    <3> QED BY <2>2, <3>1, LimitsAssumption
  <2>4. /\ ServiceInv'
        /\ svc'.live = svc.live /\ svc'.generation = svc.generation
        /\ svc'.pending = FALSE /\ svc'.next_event = svc.next_event
        /\ svc'.event = svc.event BY <1>1, <2>1, KsCompleteKeeps, Zenon
  <2>5. /\ slices' = 0 /\ pc' = "gui"
        /\ UNCHANGED <<resident, generation, space, events, closing, loaded, cache, typed>> BY <2>1 DEF Stay
  <2>6. 0 \in 0 .. SLICE_LIMIT - 1 /\ ticks' \in 0 .. SLICE BY <1>1, <2>1, Present, DispatchLimits
  <2>7. AppTypeOK' BY <1>1, <2>4, <2>5, <2>6, Zenon DEF AppInv, AppTypeOK, ServiceInv
  <2>8. QueueTrue(events) /\ QueueTrue(events)' /\ typed \in Nat BY <2>5, TypedType DEF AppInv, QueueTrue
  <2>9. \A i : At(i)' = At(i) BY <2>4, <2>5 DEF At
  <2>10. InLine' = InLine \ {0} /\ KeysInLine' = KeysInLine BY <2>2, <2>4, <2>5, <2>9 DEF InLine, KeysInLine
  <2>11. InLine \subseteq Nat BY DEF InLine
  <2>12. InputInOrder'
    <3>1. Ordered(InLine, KeysInLine, typed) BY <2>8, LineOrdered DEF AppInv
    <3>2. Ordered(InLine \ {0}, KeysInLine, typed) BY <2>8, <2>11, <3>1, OrderedDropped
    <3>3. Ordered(InLine, KeysInLine, typed)' BY <2>5, <2>10, <3>2 DEF Ordered
    <3>4. (InputInOrder <=> Ordered(InLine, KeysInLine, typed))' BY <2>8, LineOrdered, PTL
    <3> QED BY <3>3, <3>4
  <2>13. SliceTrue' /\ LayersAgree' /\ ReplayOwn' /\ NothingDropped'
    BY <1>1, <2>4, <2>5, Zenon DEF AppInv, SliceTrue, LayersAgree, ReplayOwn, NothingDropped
  <2>14. AppInv' BY <2>4, <2>7, <2>8, <2>12, <2>13 DEF AppInv
  <2>15. [Next]_svc BY <2>1, <2>3, Zenon DEF Next
  <2> QED BY <2>14, <2>15 DEF Keeps
<1> QED BY <1>2, <1>3

LEMMA CallStep ==
  ASSUME AppInv, Wait \/ Draw \/ Text \/ UseFiles
  PROVE  Keeps
<1>1. AppInv' BY WaitKeeps, DrawKeeps, TextKeeps, UseFilesKeeps, Zenon
<1>2. svc.pending => svc.event.id \in 1 .. svc.next_event
  <2>1. svc.next_event \in 0 .. TOKEN_MAX BY Zenon DEF AppInv, ServiceInv, TypeOK, ServiceType
  <2>2. svc.pending => svc.event.id = svc.next_event /\ svc.next_event > 0 BY Zenon DEF AppInv, ServiceInv, EventTrue
  <2> QED BY <2>1, <2>2, LimitsAssumption
<1>3. Next
  <2>1. CASE Wait BY <2>1, Zenon DEF Wait, Next
  <2>2. CASE Draw
    <3>1. PICK n \in 1 .. DRAW_BUDGET : KsDraw(svc.event.id, n) BY <2>2, Zenon DEF Draw
    <3>2. svc.pending BY <3>1 DEF KsDraw, Current
    <3> QED BY <1>2, <3>1, <3>2, Zenon DEF Next
  <2>3. CASE Text
    <3>1. PICK n \in 1 .. TEXT_BUDGET : KsText(svc.event.id, n) BY <2>3, Zenon DEF Text
    <3>2. svc.pending BY <3>1 DEF KsText, Current
    <3> QED BY <1>2, <3>1, <3>2, Zenon DEF Next
  <2>4. CASE UseFiles BY <2>4, Zenon DEF UseFiles, Next
  <2> QED BY <2>1, <2>2, <2>3, <2>4
<1> QED BY <1>1, <1>3 DEF Keeps

LEMMA ServiceInit == Init => ServiceInv
<1> SUFFICES ASSUME Init PROVE ServiceInv OBVIOUS
<1>1. svc = Dead BY DEF Init
<1>2. /\ svc.files = [f \in Files |-> NoFile] /\ svc.handles = [h \in Handles |-> NoHandle]
      /\ svc.live = FALSE /\ svc.pending = FALSE /\ svc.delivered = FALSE BY <1>1, Zenon DEF Dead
<1>3. TypeOK BY <1>1, DeadType DEF TypeOK
<1>4. RefsExact /\ HolesReadZero /\ HandlesTrue
  <2>1. \A h \in Handles : svc.handles[h].cookie = 0 BY <1>2 DEF NoHandle
  <2>2. \A f \in Files : OpenOn(f) = {} BY <2>1 DEF OpenOn
  <2>3. NoFile.refs = 0 /\ \A o \in Offsets : NoFile.data[o] = Zero BY Zenon DEF NoFile
  <2>4. \A f \in Files : svc.files[f] = NoFile BY <1>2
  <2>5. RefsExact BY <2>2, <2>3, <2>4, FS_EmptySet DEF RefsExact
  <2>6. HolesReadZero BY <2>3, <2>4, Zenon DEF HolesReadZero
  <2> QED BY <2>1, <2>5, <2>6 DEF HandlesTrue
<1> QED BY <1>2, <1>3, <1>4, Zenon DEF ServiceInv, EventTrue

LEMMA InitOK == AppInit => AppInv /\ Init
<1> SUFFICES ASSUME AppInit PROVE AppInv /\ Init OBVIOUS
<1>1. /\ svc = Dead /\ Init
      /\ resident = FALSE /\ generation = 0 /\ space = NoSpace
      /\ events = <<>> /\ slices = 0 /\ pc = "gui" /\ ticks = 0 /\ closing = FALSE
      /\ loaded = FALSE /\ shown = FALSE /\ cache = EmptyCache /\ typed = 0 BY DEF AppInit, Init
<1>2. /\ svc.live = FALSE /\ svc.pending = FALSE BY <1>1, Zenon DEF Dead
<1>3. ServiceInv /\ TypeOK BY <1>1, ServiceInit DEF ServiceInv
<1>6. events \in Seq([type : Types, delta : 0 .. MAX_DELTA, key : Keys \cup {0}]) BY <1>1
<1>7. ticks \in 0 .. SLICE /\ typed \in 0 .. MaxInputs /\ slices \in 0 .. SLICE_LIMIT - 1 BY <1>1, DispatchLimits
<1>8. AppTypeOK BY <1>1, <1>3, <1>6, <1>7, Limits, NoSpaceType, EmptyCacheType, Zenon DEF AppTypeOK
<1>9. QueueTrue(events) BY <1>1, DispatchLimits DEF QueueTrue
<1>10. InputInOrder
  <2>1. InLine = {} BY <1>1, <1>2 DEF InLine
  <2>2. 0 \in 0 .. typed /\ 0 + 1 .. typed = {} BY <1>1
  <2>3. {At(i).key : i \in InLine} = 0 + 1 .. typed BY <2>1, <2>2
  <2> QED BY <2>1, <2>2, <2>3 DEF InputInOrder
<1>11. SliceTrue /\ LayersAgree /\ ReplayOwn /\ NothingDropped
  BY <1>1, <1>2, EmptyCacheType, Zenon DEF SliceTrue, LayersAgree, ReplayOwn, NothingDropped
<1> QED BY <1>1, <1>3, <1>8, <1>9, <1>10, <1>11 DEF AppInv

LEMMA StepKeeps == AppInv /\ [AppNext]_vars => AppInv' /\ [Next]_svc
<1> SUFFICES ASSUME AppInv, [AppNext]_vars PROVE Keeps BY DEF Keeps
<1>1. CASE AppNext
  <2>1. "draw" \in Coalesced /\ "tick" \in Coalesced /\ 0 \in 0 .. MAX_DELTA BY Limits DEF Coalesced
  <2> QED BY <1>1, <2>1, LoadStep, LoadFailedStep, KappUnloadStep, RefreshStep, InputStep, TickStep, CompleteStep,
    AgainStep, StopStep, CallStep, Zenon DEF AppNext
<1>2. CASE UNCHANGED vars
  <2>1. UNCHANGED <<svc, resident, generation, space, events, slices, pc, ticks, closing, loaded, shown, cache, typed>>
    BY <1>2 DEF vars, rest
  <2>2. ServiceInv'
    BY <2>1, Zenon DEF AppInv, ServiceInv, TypeOK, RefsExact, HolesReadZero, HandlesTrue, EventTrue, OpenOn
  <2>3. AppTypeOK' BY <2>1, Zenon DEF AppInv, AppTypeOK, TypeOK
  <2>4. QueueTrue(events)' /\ SliceTrue' /\ LayersAgree' /\ ReplayOwn' /\ NothingDropped'
    BY <2>1, Zenon DEF AppInv, QueueTrue, SliceTrue, LayersAgree, ReplayOwn, NothingDropped
  <2>5. InputInOrder' BY <2>1, Zenon DEF AppInv, InputInOrder, InLine, At
  <2> QED BY <2>1, <2>2, <2>3, <2>4, <2>5 DEF AppInv, Keeps
<1> QED BY <1>1, <1>2

\* The service alone keeps its invariant, and its cookies.
LEMMA ServiceStep == ServiceInv /\ [Next]_svc => ServiceInv' /\ CookiesStay
<1> SUFFICES ASSUME ServiceInv, [Next]_svc PROVE ServiceInv' /\ CookiesStay OBVIOUS
<1>1. NoHandle.cookie = 0 BY Zenon DEF NoHandle
<1>2. ASSUME svc'.handles = [h \in Handles |-> NoHandle] PROVE CookiesStay BY <1>1, <1>2 DEF CookiesStay
<1>3. ASSUME svc'.handles = svc.handles PROVE CookiesStay BY <1>3 DEF CookiesStay
<1>4. ASSUME NEW gen \in 1 .. GENERATION_MAX, KsInit(gen) PROVE ServiceInv' /\ CookiesStay
  <2>1. gen \in 0 .. GENERATION_MAX BY LimitsAssumption
  <2>2. svc'.handles = Dead.handles BY <1>4, DeadType, Zenon DEF KsInit, ServiceType
  <2>3. Dead.handles = [h \in Handles |-> NoHandle] BY Zenon DEF Dead
  <2> QED BY <1>2, <1>4, <2>1, <2>2, <2>3, KsInitKeeps, Zenon
<1>5. ASSUME KsDestroy PROVE ServiceInv' /\ CookiesStay
  <2>1. svc'.handles = [h \in Handles |-> NoHandle] BY <1>5, Zenon DEF KsDestroy, Dead
  <2> QED BY <1>2, <1>5, <2>1, DeadKeeps, Zenon DEF KsDestroy
<1>6. ASSUME NEW type \in Types, NEW delta \in 0 .. MAX_DELTA, NEW key \in Keys \cup {0}, KsPost(type, delta, key)
      PROVE  ServiceInv' /\ CookiesStay BY <1>3, <1>6, KsPostKeeps, Zenon
<1>7. ASSUME KsWait PROVE ServiceInv' /\ CookiesStay
  <2>1. svc'.handles = svc.handles BY <1>7, Zenon DEF KsWait, ServiceInv, TypeOK, ServiceType
  <2> QED BY <1>3, <1>7, <2>1, KsWaitKeeps, Zenon
<1>8. ASSUME NEW token, KsComplete(token) PROVE ServiceInv' /\ CookiesStay
  <2>1. svc'.handles = svc.handles BY <1>8, Zenon DEF KsComplete, ServiceInv, TypeOK, ServiceType
  <2> QED BY <1>3, <1>8, <2>1, KsCompleteKeeps, Zenon
<1>9. ASSUME NEW token, NEW n \in 1 .. DRAW_BUDGET, KsDraw(token, n) PROVE ServiceInv' /\ CookiesStay
  <2>1. svc'.handles = svc.handles BY <1>9, Zenon DEF KsDraw, ServiceInv, TypeOK, ServiceType
  <2> QED BY <1>3, <1>9, <2>1, KsDrawKeeps, Zenon
<1>10. ASSUME NEW token, NEW n \in 1 .. TEXT_BUDGET, KsText(token, n) PROVE ServiceInv' /\ CookiesStay
  <2>1. svc'.handles = svc.handles BY <1>10, Zenon DEF KsText, ServiceInv, TypeOK, ServiceType
  <2> QED BY <1>3, <1>10, <2>1, KsTextKeeps, Zenon
<1>11. CASE UNCHANGED svc
  <2>1. ServiceInv' BY <1>11, Zenon DEF ServiceInv, TypeOK, RefsExact, HolesReadZero, HandlesTrue, EventTrue, OpenOn
  <2> QED BY <1>3, <1>11, <2>1
<1> QED BY <1>4, <1>5, <1>6, <1>7, <1>8, <1>9, <1>10, <1>11, FileCallKeeps, Zenon DEF Next

-----------------------------------------------------------------------------
\* The invariant of the runtime and its services: every load, event, slice,
\* call, fault and unload keeps it (user_mode.c, user_service.c, kapp.c).
THEOREM Inductive == AppSpec => []AppInv
<1> QED BY InitOK, StepKeeps, PTL DEF AppSpec

\* The types of the dispatcher, the client and the services.
THEOREM TypeCorrect == AppSpec => []AppTypeOK
<1>1. AppInv => AppTypeOK BY DEF AppInv
<1> QED BY <1>1, Inductive, PTL

\* kapp.c and user_mode.c agree on whether an application is there, whatever
\* unload, overflow, fault or failed load came before.
THEOREM LayersStayAgreed == AppSpec => []LayersAgree
<1>1. AppInv => LayersAgree BY DEF AppInv
<1> QED BY <1>1, Inductive, PTL

\* No input is lost, repeated or overtaken, and a window shows what its own
\* application drew for one event, all of it (ku_app_event, isolated_sink).
THEOREM InputsAndDrawing == AppSpec => []InputAndDrawingOwn
<1>1. AppInv => InputAndDrawingOwn BY DEF AppInv, InputAndDrawingOwn
<1> QED BY <1>1, Inductive, PTL

\* Each step of the dispatcher is a call of user_service.c, or none.
LEMMA UsesService == AppSpec => Spec
<1>1. AppInit => Init BY InitOK
<1> QED BY <1>1, StepKeeps, Inductive, PTL DEF AppSpec, Spec

\* The services keep their files whatever kernel and application call them:
\* exact references, zeros behind the end, stale handles that stay stale
\* (KS_OPEN, KS_WRITE, KS_CLOSE, KS_DELETE).
THEOREM ServiceFiles == Spec => [](TypeOK /\ RefsExact /\ HolesReadZero) /\ [][CookiesStay]_svc
<1>1. Init => ServiceInv BY ServiceInit
<1>2. ServiceInv => TypeOK /\ RefsExact /\ HolesReadZero BY DEF ServiceInv
<1>3. ServiceInv /\ [Next]_svc => ServiceInv' /\ [CookiesStay]_svc BY ServiceStep
<1> QED BY <1>1, <1>2, <1>3, PTL DEF Spec

\* So do the services of every application that runs.
THEOREM FilesOfApplications == AppSpec => [](RefsExact /\ HolesReadZero) /\ [][CookiesStay]_svc
<1> QED BY UsesService, ServiceFiles, PTL

-----------------------------------------------------------------------------
(***************************************************************************)
(* The queue as a mailbox.                                                 *)
(***************************************************************************)
\* CLOSE waits only in the last slice, nothing was typed into an application
\* that is not there, and an event being served is one.
MailInv ==
    /\ closing => pc = "user"
    /\ ~closing => \A i \in 1 .. Len(events) : events[i].type # "close"
    /\ ~resident => typed = 0
    /\ svc.pending => svc.event.type \in Types

Request(type, delta, key) == [type |-> type, delta |-> delta, key |-> key]

LEMMA IdleSeen == Seen(NoEvent) = Mail!Idle BY DEF Seen, NoEvent, Event, Inputs, Mail!Idle

LEMMA SameKinds == Mail!Typed = Inputs /\ Mail!Merged = Coalesced BY DEF Mail!Typed, Inputs, Mail!Merged, Coalesced

LEMMA SeenFields ==
  ASSUME NEW e
  PROVE  /\ Seen(e).type = e.type
         /\ Seen(e).delta = IF e.type = "tick" THEN e.delta ELSE 0
         /\ Seen(e).key = IF e.type \in Inputs THEN e.key ELSE 0 BY Zenon DEF Seen

\* What Queued does to the queue is what With does to the requests in it.
LEMMA QueuedSeen ==
  ASSUME QueueTrue(events), NEW type \in Types, NEW delta \in 0 .. MAX_DELTA, NEW key \in Keys \cup {0},
         type # "tick" => delta = 0, type \notin Inputs => key = 0
  PROVE  SeenIn(Queued(type, delta, key)) = Mail!With(SeenIn(events), Request(type, delta, key))
<1> DEFINE at == Place(type)
           before == IF type = "tick" /\ at <= Len(events) THEN events[at].delta ELSE 0
           sum == AtMost(MAX_DELTA, AtMost(MAX_DELTA, delta) + before)
           entry == [type |-> type, delta |-> sum, key |-> key]
           queue == Queued(type, delta, key)
           r == Request(type, delta, key)
           waiting == SeenIn(events)
           same == Mail!Same(waiting, r)
           passed == IF same = {} THEN 0 ELSE (CHOOSE w \in same : TRUE).delta
<1>1. events \in Seq(EntryType) /\ Len(events) \in Nat /\ DOMAIN events = 1 .. Len(events) BY DEF QueueTrue
<1>2. at \in 1 .. Len(events) + 1 BY <1>1, PlaceFound
<1>3. waiting = {Seen(events[i]) : i \in 1 .. Len(events)} BY <1>1 DEF SeenIn
<1>4. same = {w \in waiting : w.type = type /\ type \in Coalesced} BY SameKinds DEF Mail!Same, Request
<1>5. Mail!With(waiting, r) = (waiting \ same) \cup {[r EXCEPT !.delta = Mail!Least(MAX_DELTA, r.delta + passed)]}
  BY Zenon DEF Mail!With, Mail!Whole
<1>6. before \in 0 .. MAX_DELTA
  <2>1. at \in 1 .. Len(events) => events[at].delta \in 0 .. MAX_DELTA
    <3>1. at \in 1 .. Len(events) => events[at] \in EntryType BY <1>1
    <3> QED BY <3>1, Zenon DEF EntryType
  <2> QED BY <1>1, <1>2, <2>1, DispatchLimits
<1>7. queue = IF at <= Len(events) THEN [events EXCEPT ![at] = entry] ELSE Append(events, entry) BY DEF Queued
<1>8. passed = before
  <2>1. CASE at <= Len(events)
    <3>1. at \in 1 .. Len(events) /\ type \in Coalesced /\ events[at].type = type BY <1>1, <1>2, <2>1, PlaceFound
    <3>2. \A i \in 1 .. Len(events) : events[i].type = type => i = at BY <3>1 DEF QueueTrue
    <3> HIDE DEF at, waiting
    <3>3. same = {Seen(events[at])} BY <1>3, <1>4, <3>1, <3>2, SeenFields
    <3> HIDE DEF same
    <3>4. passed = Seen(events[at]).delta BY <3>3
    <3> QED BY <2>1, <3>1, <3>4, SeenFields
  <2>2. CASE ~(at <= Len(events))
    <3>1. at = Len(events) + 1 /\ (type \in Coalesced => \A i \in 1 .. Len(events) : events[i].type # type)
      BY <1>1, <2>2, PlaceFound
    <3> HIDE DEF at, waiting
    <3>2. same = {} BY <1>3, <1>4, <3>1, SeenFields
    <3> QED BY <2>2, <3>2
  <2> QED BY <2>1, <2>2
<1>9. Mail!Least(MAX_DELTA, r.delta + passed) = IF type = "tick" THEN sum ELSE 0
  <2>1. r.delta = delta /\ MAX_DELTA \in Nat BY DispatchLimits DEF Request
  <2>2. type # "tick" => before = 0 OBVIOUS
  <2> HIDE DEF before, passed
  <2>3. Mail!Least(MAX_DELTA, delta + before) = sum BY <1>6, <2>1 DEF Mail!Least, AtMost
  <2>4. type # "tick" => Mail!Least(MAX_DELTA, delta + before) = 0 BY <2>1, <2>2 DEF Mail!Least
  <2> QED BY <1>8, <2>1, <2>3, <2>4
<1> HIDE DEF passed
<1>10. [r EXCEPT !.delta = Mail!Least(MAX_DELTA, r.delta + passed)] = Seen(entry)
  <2> DEFINE total == Mail!Least(MAX_DELTA, r.delta + passed)
  <2>1. [r EXCEPT !.delta = total] = [type |-> type, delta |-> total, key |-> key] BY DEF Request
  <2>2. entry.type = type /\ entry.delta = sum /\ entry.key = key OBVIOUS
  <2> HIDE DEF total, entry, sum
  <2>3. total = IF type = "tick" THEN sum ELSE 0 BY <1>9 DEF total
  <2>4. Seen(entry) = [type |-> type, delta |-> IF type = "tick" THEN sum ELSE 0,
                       key |-> IF type \in Inputs THEN key ELSE 0] BY <2>2, Zenon DEF Seen
  <2>5. key = IF type \in Inputs THEN key ELSE 0 OBVIOUS
  <2>6. [type |-> type, delta |-> total, key |-> key] = Seen(entry) BY <2>3, <2>4, <2>5
  <2> QED BY <2>1, <2>6, Zenon DEF total
<1> HIDE DEF entry, r, before, sum
<1>11. Mail!With(waiting, r) = (waiting \ same) \cup {Seen(entry)} BY <1>5, <1>10
<1>12. SeenIn(queue) = (waiting \ same) \cup {Seen(entry)}
  <2>1. CASE at <= Len(events)
    <3>1. at \in 1 .. Len(events) /\ type \in Coalesced /\ events[at].type = type BY <1>1, <1>2, <2>1, PlaceFound
    <3>2. \A i \in 1 .. Len(events) : events[i].type = type => i = at BY <3>1 DEF QueueTrue
    <3>3. queue = [events EXCEPT ![at] = entry] BY <1>7, <2>1
    <3> HIDE DEF at, waiting, queue
    <3>4. /\ DOMAIN queue = 1 .. Len(events) /\ queue[at] = entry
          /\ \A i \in 1 .. Len(events) : i # at => queue[i] = events[i] BY <1>1, <3>1, <3>3
    <3>5. same = {Seen(events[at])} BY <1>3, <1>4, <3>1, <3>2, SeenFields
    <3>6. \A i \in 1 .. Len(events) : i # at => Seen(events[i]) # Seen(events[at]) BY <3>1, <3>2, SeenFields
    <3> HIDE DEF same
    <3>7. SeenIn(queue) = {Seen(queue[i]) : i \in 1 .. Len(events)} BY <3>4 DEF SeenIn
    <3>8. waiting \ same = {Seen(events[i]) : i \in 1 .. Len(events) \ {at}} BY <1>3, <3>1, <3>5, <3>6
    <3> QED BY <3>1, <3>4, <3>7, <3>8
  <2>2. CASE ~(at <= Len(events))
    <3>1. at = Len(events) + 1 /\ (type \in Coalesced => \A i \in 1 .. Len(events) : events[i].type # type)
      BY <1>1, <2>2, PlaceFound
    <3>2. queue = Append(events, entry) BY <1>7, <2>2
    <3> HIDE DEF at, waiting, queue
    <3>3. same = {} BY <1>3, <1>4, <3>1, SeenFields
    <3>4. /\ DOMAIN queue = 1 .. Len(events) + 1 /\ queue[Len(events) + 1] = entry
          /\ \A i \in 1 .. Len(events) : queue[i] = events[i] BY <1>1, <3>2
    <3> HIDE DEF same
    <3>5. SeenIn(queue) = {Seen(queue[i]) : i \in 1 .. Len(events) + 1} BY <3>4 DEF SeenIn
    <3>6. 1 .. Len(events) + 1 = 1 .. Len(events) \cup {Len(events) + 1} BY <1>1
    <3> QED BY <1>3, <3>3, <3>4, <3>5, <3>6
  <2> QED BY <2>1, <2>2
<1> QED BY <1>11, <1>12 DEF r

\* No two requests that wait are the same, so the first one leaves alone.
Distinct(queue) ==
    \A i, j \in 1 .. Len(queue) : Seen(queue[i]) = Seen(queue[j]) => i = j

LEMMA TailSeen ==
  ASSUME NEW queue \in Seq(EntryType), Len(queue) > 0, Distinct(queue)
  PROVE  /\ Seen(Head(queue)) \in SeenIn(queue)
         /\ SeenIn(Tail(queue)) = SeenIn(queue) \ {Seen(Head(queue))}
<1>1. /\ DOMAIN queue = 1 .. Len(queue) /\ Len(queue) \in Nat /\ Head(queue) = queue[1]
      /\ DOMAIN Tail(queue) = 1 .. Len(queue) - 1
      /\ \A i \in 1 .. Len(queue) - 1 : Tail(queue)[i] = queue[i + 1] OBVIOUS
<1>2. SeenIn(queue) = {Seen(queue[i]) : i \in 1 .. Len(queue)} BY <1>1 DEF SeenIn
<1>3. SeenIn(Tail(queue)) = {Seen(queue[i + 1]) : i \in 1 .. Len(queue) - 1} BY <1>1 DEF SeenIn
<1>4. {Seen(queue[i + 1]) : i \in 1 .. Len(queue) - 1} = {Seen(queue[i]) : i \in 2 .. Len(queue)}
  <2>1. \A i \in 1 .. Len(queue) - 1 : i + 1 \in 2 .. Len(queue) BY <1>1
  <2>2. \A i \in 2 .. Len(queue) : i - 1 \in 1 .. Len(queue) - 1 /\ (i - 1) + 1 = i BY <1>1
  <2> QED BY <2>1, <2>2
<1>5. \A i \in 2 .. Len(queue) : Seen(queue[i]) # Seen(queue[1]) BY <1>1 DEF Distinct
<1>6. 1 .. Len(queue) = 2 .. Len(queue) \cup {1} BY <1>1
<1> QED BY <1>1, <1>2, <1>3, <1>4, <1>5, <1>6

\* The queue with the new event, when nothing is being served.
LEMMA QueueDistinct ==
  ASSUME AppInv, MailInv, ~closing, NEW type \in Types, NEW delta \in 0 .. MAX_DELTA,
         NEW key \in Keys \cup {0}, Place(type) # QUEUE + 1,
         type \in Inputs => key = typed + 1
  PROVE  /\ Distinct(Queued(type, delta, key))
         /\ \A i \in 1 .. Len(Queued(type, delta, key)) :
                Queued(type, delta, key)[i].type \in Inputs => Queued(type, delta, key)[i].key \in Int
         /\ \A i, j \in 1 .. Len(Queued(type, delta, key)) :
                /\ i < j
                /\ Queued(type, delta, key)[i].type \in Inputs
                /\ Queued(type, delta, key)[j].type \in Inputs
                => Queued(type, delta, key)[i].key < Queued(type, delta, key)[j].key
<1> DEFINE queue == Queued(type, delta, key)
<1>1. QueueTrue(queue) /\ (Replaced(queue, Place(type), type) \/ Appended(queue, type, key))
  BY QueuedTrue, Zenon DEF AppInv
<1>2. QueueTrue(events) /\ Len(events) \in Nat BY DEF AppInv, QueueTrue
<1> HIDE DEF queue
<1>3. Ordered(LineOf(queue), KeysOf(queue), TypedWith(type)) BY <1>1, QueuedOrdered, Zenon
<1>4. queue \in Seq(EntryType) /\ Len(queue) \in Nat BY <1>1 DEF QueueTrue
<1>5. \A i, j \in 1 .. Len(queue) : i < j /\ queue[i].type \in Inputs /\ queue[j].type \in Inputs
        => queue[i].key < queue[j].key
  <2>1. \A i \in 1 .. Len(queue) : queue[i].type \in Inputs => i \in LineOf(queue) BY <1>4 DEF LineOf, AtOf
  <2>2. \A i \in 1 .. Len(queue) : KeysOf(queue)[i] = queue[i].key BY <1>4 DEF KeysOf, AtOf
  <2> QED BY <1>3, <2>1, <2>2 DEF Ordered
<1>6. \A i, j \in 1 .. Len(queue) : queue[i].type = "close" /\ queue[j].type = "close" => i = j
  <2>1. \A i \in 1 .. Len(events) : events[i].type # "close" BY DEF MailInv
  <2>2. CASE Replaced(queue, Place(type), type) BY <2>1, <2>2 DEF Replaced, Coalesced
  <2>3. CASE Appended(queue, type, key) BY <1>2, <2>1, <2>3 DEF Appended
  <2> QED BY <1>1, <2>2, <2>3
<1>7. \A i \in 1 .. Len(queue) : queue[i].type \in Types /\ (queue[i].type \in Inputs => queue[i].key \in Int)
  <2>1. \A i \in 1 .. Len(queue) : queue[i] \in EntryType BY <1>4
  <2>2. \A i \in 1 .. Len(queue) : queue[i].type \in Types BY <2>1, Zenon DEF EntryType
  <2>3. \A i \in 1 .. Len(queue) : queue[i].type \in Inputs => queue[i].key \in Int
    <3>1. \A i \in 1 .. Len(queue) : queue[i].type \in Inputs => i \in LineOf(queue) /\ KeysOf(queue)[i] = queue[i].key
      BY <1>4 DEF LineOf, KeysOf, AtOf
    <3>2. TypedWith(type) \in Int BY TypedType, DispatchLimits DEF TypedWith, AppInv
    <3> QED BY <1>3, <3>1, <3>2 DEF Ordered
  <2> QED BY <2>2, <2>3
<1>8. Distinct(queue)
  <2> SUFFICES ASSUME NEW i \in 1 .. Len(queue), NEW j \in 1 .. Len(queue), Seen(queue[i]) = Seen(queue[j])
               PROVE  i = j BY DEF Distinct
  <2>1. queue[i].type = queue[j].type /\ queue[i].type \in Types BY <1>7, SeenFields
  <2>2. CASE queue[i].type \in Coalesced BY <1>1, <2>1, <2>2 DEF QueueTrue
  <2>3. CASE queue[i].type = "close" BY <1>6, <2>1, <2>3
  <2>4. CASE queue[i].type \in Inputs
    <3>1. queue[i].key = queue[j].key /\ queue[i].key \in Int BY <1>7, <2>1, <2>4, SeenFields
    <3>2. ~(i < j) /\ ~(j < i) BY <1>5, <2>1, <2>4, <3>1
    <3> QED BY <1>4, <3>2
  <2> QED BY <2>1, <2>2, <2>3, <2>4 DEF Types, Coalesced, Inputs
<1> QED BY <1>5, <1>7, <1>8 DEF queue

LEMMA BoxFull == resident => Box = Mail!Full(SeenIn(events), typed, Served) BY Zenon DEF Box, Mail!Full

\* ku_app_event, as the mailbox sees it.
LEMMA PumpedAsks ==
  ASSUME AppInv, MailInv, pc = "gui", loaded, NEW type \in Types, NEW delta \in 0 .. MAX_DELTA,
         NEW key \in Keys \cup {0}, type \in Inputs => key = typed + 1,
         type # "tick" => delta = 0, type \notin Inputs => key = 0,
         Place(type) # QUEUE + 1, Pumped(type, delta, key)
  PROVE  Mail!Ask(Request(type, delta, key))
<1> DEFINE queue == Queued(type, delta, key)
           r == Request(type, delta, key)
           first == Head(queue)
<1>1. resident /\ resident' /\ ~closing /\ typed' = IF type \in Inputs THEN key ELSE typed
  BY Zenon DEF AppInv, LayersAgree, MailInv, Pumped
<1>2. /\ Box = Mail!Full(SeenIn(events), typed, Served) /\ Box' = Mail!Full(SeenIn(events'), typed', Served')
      /\ Box.on = TRUE /\ Box.waiting = SeenIn(events) /\ Box.given = typed /\ Box.now = Served
  <2>1. Box = Mail!Full(SeenIn(events), typed, Served) BY <1>1, BoxFull
  <2>2. Box' = Mail!Full(SeenIn(events'), typed', Served') BY <1>1, Zenon DEF Box, Mail!Full
  <2>3. /\ Box.on = TRUE /\ Box.waiting = SeenIn(events) /\ Box.given = typed /\ Box.now = Served
    BY <2>1 DEF Mail!Full
  <2> QED BY <2>1, <2>2, <2>3
<1>3. SeenIn(queue) = Mail!With(SeenIn(events), r) BY QueuedSeen, Zenon DEF AppInv
<1>4. /\ Distinct(queue)
      /\ \A i, j \in 1 .. Len(queue) :
            i < j /\ queue[i].type \in Inputs /\ queue[j].type \in Inputs => queue[i].key < queue[j].key
      /\ \A i \in 1 .. Len(queue) : queue[i].type \in Inputs => queue[i].key \in Int BY <1>1, QueueDistinct, Zenon
<1>5. queue \in Seq(EntryType) /\ Len(queue) \in Nat /\ Len(queue) > 0 BY QueuedTrue DEF AppInv, QueueTrue
<1>6. /\ svc.pending => events' = queue /\ UNCHANGED svc
      /\ ~svc.pending => KsPost(first.type, first.delta, first.key) /\ events' = Tail(queue)
  BY Zenon DEF Pumped, Taken
<1>7. r.type = type /\ r.key = key BY DEF Request
<1>8. typed' = IF r.type \in Mail!Typed THEN r.key ELSE Box.given BY <1>1, <1>2, <1>7, SameKinds
<1>9. Box.on /\ (r.type \in Mail!Typed => r.key = Box.given + 1) BY <1>2, <1>7, SameKinds
<1> HIDE DEF queue, r
<1>10. CASE svc.pending
  <2>1. Box.now # Mail!Idle
    <3>1. Box.now.type = svc.event.type BY <1>2, <1>10, SeenFields DEF Served
    <3>2. Mail!Idle.type \notin Types BY DEF Mail!Idle, Types
    <3>3. svc.event.type \in Types BY <1>10 DEF MailInv
    <3> QED BY <3>1, <3>2, <3>3
  <2>2. Served' = Served /\ SeenIn(events') = Mail!With(Box.waiting, r) BY <1>2, <1>3, <1>6, <1>10 DEF Served
  <2>3. Box' = Mail!Full(Mail!With(Box.waiting, r), typed', Box.now) BY <1>2, <2>2
  <2> QED BY <1>8, <1>9, <2>1, <2>3, Zenon DEF Mail!Ask, r
<1>11. CASE ~svc.pending
  <2>1. KsPost(first.type, first.delta, first.key) /\ events' = Tail(queue) BY <1>6, <1>11
  <2>2. first \in EntryType /\ first = queue[1] BY <1>5
  <2>3. Box.now = Mail!Idle BY <1>2, <1>11, IdleSeen DEF Served
  <2>4. Seen(first) \in SeenIn(queue) /\ SeenIn(events') = SeenIn(queue) \ {Seen(first)} BY <1>4, <1>5, <2>1, TailSeen
  <2>5. SeenIn(queue) = {Seen(queue[i]) : i \in 1 .. Len(queue)}
    <3>1. DOMAIN queue = 1 .. Len(queue) BY <1>5
    <3> QED BY <3>1 DEF SeenIn
  <2>6. Seen(first) \in Mail!Ready(SeenIn(queue))
    <3>1. ASSUME first.type \in Inputs, NEW i \in 1 .. Len(queue), queue[i].type \in Inputs
          PROVE  first.key <= queue[i].key
      <4>1. CASE i = 1
        <5>1. first.key = queue[i].key /\ queue[i].key \in Int BY <1>4, <2>2, <3>1, <4>1
        <5> QED BY <5>1
      <4>2. CASE i # 1
        <5>1. 1 \in 1 .. Len(queue) /\ 1 < i BY <1>5, <4>2
        <5>2. first.key < queue[i].key /\ first.key \in Int /\ queue[i].key \in Int BY <1>4, <2>2, <3>1, <5>1
        <5> QED BY <5>2
      <4> QED BY <4>1, <4>2
    <3> QED BY <2>4, <2>5, <3>1, SeenFields, SameKinds DEF Mail!Ready
  <2>7. Served' = Seen(first)
    <3>1. first.type \in Types /\ first.delta \in 0 .. MAX_DELTA /\ first.key \in Keys \cup {0}
      BY <2>2, Zenon DEF EntryType
    <3>2. ServiceInv BY DEF AppInv
    <3>3. /\ svc'.pending = TRUE
          /\ svc'.event = Event(svc.next_event + 1, first.type, AtMost(MAX_DELTA, first.delta), first.key)
      BY <2>1, <3>1, <3>2, KsPostKeeps, Zenon
    <3>4. AtMost(MAX_DELTA, first.delta) = first.delta BY <3>1, DispatchLimits DEF AtMost
    <3>5. /\ svc'.event.type = first.type /\ svc'.event.delta = first.delta
          /\ svc'.event.key = first.key BY <3>3, <3>4 DEF Event
    <3> QED BY <3>3, <3>5, Zenon DEF Served, Seen
  <2> HIDE DEF first
  <2>8. Box' = Mail!Full(SeenIn(queue) \ {Seen(first)}, typed', Seen(first)) BY <1>2, <2>4, <2>7
  <2>9. SeenIn(queue) = Mail!With(Box.waiting, r) BY <1>2, <1>3
  <2> QED BY <1>8, <1>9, <2>3, <2>6, <2>8, <2>9, Zenon DEF Mail!Ask, r
<1> QED BY <1>10, <1>11

\* A step of the program is one of the mailbox, or leaves it as it is.
MailKeeps == MailInv' /\ [Mail!Next]_Box

LEMMA GoneMail ==
  ASSUME Gone
  PROVE  MailKeeps
<1>1. svc' = Dead /\ events' = <<>> /\ resident' = FALSE /\ closing' = FALSE /\ typed' = 0 BY DEF Gone
<1>2. svc'.pending = FALSE BY <1>1, Zenon DEF Dead
<1>3. MailInv'
  <2>1. Len(events') = 0 BY <1>1
  <2> QED BY <1>1, <1>2, <2>1 DEF MailInv
<1>4. Mail!End BY <1>1, IdleSeen, Zenon DEF Mail!End, Mail!Off, Box
<1> QED BY <1>3, <1>4, Zenon DEF MailKeeps, Mail!Next

LEMMA PumpedMailInv ==
  ASSUME AppInv, MailInv, pc = "gui", loaded, NEW type \in Types, NEW delta \in 0 .. MAX_DELTA,
         NEW key \in Keys \cup {0}, Place(type) # QUEUE + 1, Pumped(type, delta, key),
         closing' \in BOOLEAN, type = "close" => closing'
  PROVE  MailInv'
<1> DEFINE queue == Queued(type, delta, key)
           first == Head(queue)
<1>1. resident' /\ ~closing /\ pc' = "user" BY Zenon DEF AppInv, LayersAgree, MailInv, Pumped
<1>2. /\ svc.pending => events' = queue /\ UNCHANGED svc
      /\ ~svc.pending => KsPost(first.type, first.delta, first.key) /\ events' = Tail(queue)
  BY Zenon DEF Pumped, Taken
<1>3. /\ queue \in Seq(EntryType) /\ Len(queue) \in Nat /\ Len(queue) > 0
      /\ Replaced(queue, Place(type), type) \/ Appended(queue, type, key) BY QueuedTrue DEF AppInv, QueueTrue
<1>4. Len(events) \in Nat /\ \A i \in 1 .. Len(events) : events[i].type # "close"
  BY <1>1 DEF AppInv, QueueTrue, MailInv
<1> HIDE DEF queue
<1>5. type # "close" => \A i \in 1 .. Len(queue) : queue[i].type # "close"
  <2>1. CASE Replaced(queue, Place(type), type) BY <1>4, <2>1 DEF Replaced, Coalesced
  <2>2. CASE Appended(queue, type, key) BY <1>4, <2>2 DEF Appended
  <2> QED BY <1>3, <2>1, <2>2
<1>6. CASE svc.pending BY <1>1, <1>2, <1>5, <1>6 DEF MailInv
<1>7. CASE ~svc.pending
  <2>1. first \in EntryType BY <1>3
  <2>2. first.type \in Types /\ first.delta \in 0 .. MAX_DELTA /\ first.key \in Keys \cup {0}
    BY <2>1, Zenon DEF EntryType
  <2>3. KsPost(first.type, first.delta, first.key) /\ events' = Tail(queue) /\ ServiceInv BY <1>2, <1>7 DEF AppInv
  <2> HIDE DEF first
  <2>4. svc'.event = Event(svc.next_event + 1, first.type, AtMost(MAX_DELTA, first.delta), first.key)
    BY <2>2, <2>3, KsPostKeeps, Zenon
  <2>5. svc'.event.type \in Types BY <2>2, <2>4 DEF Event
  <2>6. \A i \in 1 .. Len(events') : i + 1 \in 1 .. Len(queue) /\ events'[i] = queue[i + 1] BY <1>3, <2>3
  <2>7. type # "close" => \A i \in 1 .. Len(events') : events'[i].type # "close" BY <1>5, <2>6
  <2> QED BY <1>1, <2>5, <2>7 DEF MailInv
<1> QED BY <1>6, <1>7

LEMMA PumpMail ==
  ASSUME AppInv, MailInv, pc = "gui", loaded, NEW type \in Types, NEW delta \in 0 .. MAX_DELTA,
         NEW key \in Keys \cup {0}, type \in Inputs => key = typed + 1,
         type # "tick" => delta = 0, type \notin Inputs => key = 0,
         Pump(type, delta, key), closing' \in BOOLEAN, type = "close" /\ pc' = "user" => closing'
  PROVE  MailKeeps
<1>1. CASE Place(type) = QUEUE + 1 \/ (~svc.pending /\ svc.next_event = TOKEN_MAX)
  BY <1>1, GoneMail, Zenon DEF Pump, Overflow
<1>2. CASE ~(Place(type) = QUEUE + 1 \/ (~svc.pending /\ svc.next_event = TOKEN_MAX))
  <2>1. Pumped(type, delta, key) /\ Place(type) # QUEUE + 1 /\ pc' = "user" BY <1>2, Zenon DEF Pump, Pumped
  <2>2. Mail!Ask(Request(type, delta, key)) BY <2>1, PumpedAsks, Zenon
  <2>3. MailInv' BY <2>1, PumpedMailInv, Zenon
  <2>4. Mail!Next
    <3>1. CASE type = "tick" BY <2>2, <3>1 DEF Mail!Next, Request, Inputs
    <3>2. CASE type \in {"draw", "close"} BY <2>2, <3>2 DEF Mail!Next, Request, Inputs
    <3>3. CASE type \in Inputs
      <4>1. resident /\ delta = 0 BY <3>3, Zenon DEF AppInv, LayersAgree, Inputs
      <4>2. Box.given = typed BY <4>1, BoxFull DEF Mail!Full
      <4>3. Request(type, delta, key) = [type |-> type, delta |-> 0, key |-> Box.given + 1]
        BY <3>3, <4>1, <4>2 DEF Request
      <4> QED BY <2>2, <3>3, <4>3, SameKinds, Zenon DEF Mail!Next
    <3> QED BY <3>1, <3>2, <3>3 DEF Types, Inputs
  <2> QED BY <2>3, <2>4 DEF MailKeeps
<1> QED BY <1>1, <1>2

\* What leaves queue, event and application alone leaves the mailbox alone.
LEMMA SameMail ==
  ASSUME MailInv, UNCHANGED <<resident, events, typed, closing>>, closing => pc' = "user",
         svc'.pending = svc.pending, svc'.event = svc.event
  PROVE  MailKeeps
<1>1. MailInv' BY DEF MailInv
<1>2. UNCHANGED Box BY DEF Box, SeenIn, Served
<1> QED BY <1>1, <1>2 DEF MailKeeps

LEMMA LoadMail ==
  ASSUME AppInv, MailInv, Load
  PROVE  MailKeeps
<1>1. /\ resident' = TRUE /\ events' = <<>> /\ typed' = 0 /\ closing' = FALSE
      /\ generation + 1 \in 1 .. GENERATION_MAX /\ KsInit(generation + 1) /\ ~resident
  <2>1. closing = FALSE /\ typed = 0 BY TypedType, Zenon DEF Load, MailInv, AppInv
  <2> QED BY <2>1, LoadKeeps DEF Load
<1>2. svc'.pending = FALSE
  <2>1. ServiceInv /\ generation + 1 \in 0 .. GENERATION_MAX BY <1>1, LimitsAssumption DEF AppInv
  <2> QED BY <1>1, <2>1, KsInitKeeps, Zenon
<1>3. MailInv'
  <2>1. Len(events') = 0 BY <1>1
  <2> QED BY <1>1, <1>2, <2>1 DEF MailInv
<1>4. Mail!Start
  <2>1. ~Box.on BY <1>1 DEF Box
  <2>2. SeenIn(events') = {} BY <1>1 DEF SeenIn
  <2>3. Served' = Mail!Idle BY <1>2, IdleSeen, Zenon DEF Served
  <2>4. Box' = [on |-> TRUE, waiting |-> SeenIn(events'), given |-> typed', now |-> Served'] BY <1>1, Zenon DEF Box
  <2> QED BY <1>1, <2>1, <2>2, <2>3, <2>4, Zenon DEF Mail!Start, Mail!Full
<1> QED BY <1>3, <1>4, Zenon DEF MailKeeps, Mail!Next

LEMMA LoadFailedMail ==
  ASSUME AppInv, MailInv, LoadFailed
  PROVE  MailKeeps
<1>1. ~resident /\ svc' = Dead /\ UNCHANGED <<resident, events, pc, closing, typed>> BY DEF LoadFailed
<1>2. svc'.pending = FALSE BY <1>1, Zenon DEF Dead
<1>3. MailInv' /\ UNCHANGED Box BY <1>1, <1>2 DEF MailInv, Box
<1> QED BY <1>3 DEF MailKeeps

\* The event of the slice is answered.
LEMMA CompleteMail ==
  ASSUME AppInv, MailInv, Complete
  PROVE  MailKeeps
<1>1. CASE closing BY <1>1, GoneMail, Zenon DEF Complete
<1>2. CASE ~closing
  <2>1. /\ KsComplete(svc.event.id) /\ pc = "user"
        /\ UNCHANGED <<resident, generation, space, events, closing, loaded, cache, typed>>
    BY <1>2, Zenon DEF Complete, Stay
  <2>2. svc.pending /\ svc'.pending = FALSE /\ svc'.event = svc.event /\ resident
    <3>1. ServiceInv /\ svc.pending /\ resident BY <2>1, Present, Zenon DEF AppInv, KsComplete, Current
    <3> QED BY <2>1, <3>1, KsCompleteKeeps, Zenon
  <2>3. MailInv' BY <1>2, <2>1, <2>2 DEF MailInv
  <2>4. Mail!Answer
    <3>1. Box = Mail!Full(SeenIn(events), typed, Served) BY <2>2, BoxFull
    <3>2. Box' = Mail!Full(SeenIn(events), typed, Mail!Idle) BY <2>1, <2>2, IdleSeen, Zenon DEF Box, Served, Mail!Full
    <3>3. Served # Mail!Idle
      <4>1. Served.type = svc.event.type BY <2>2, SeenFields DEF Served
      <4>2. Mail!Idle.type \notin Types BY DEF Mail!Idle, Types
      <4>3. svc.event.type \in Types BY <2>2 DEF MailInv
      <4> QED BY <4>1, <4>2, <4>3
    <3>4. Box.waiting = SeenIn(events) /\ Box.given = typed /\ Box.now = Served BY <3>1 DEF Mail!Full
    <3> QED BY <3>2, <3>3, <3>4 DEF Mail!Answer
  <2> QED BY <2>3, <2>4, Zenon DEF MailKeeps, Mail!Next
<1> QED BY <1>1, <1>2

\* A slice that ends with its event still pending.
LEMMA YieldMail ==
  ASSUME AppInv, MailInv, FinishYielded \/ Again
  PROVE  MailKeeps
<1>1. CASE Gone BY <1>1, GoneMail
<1>2. CASE ~Gone
  <2>1. ~closing /\ svc' = svc /\ UNCHANGED <<resident, events, closing, typed>>
    BY <1>2, Zenon DEF FinishYielded, Again, Stay
  <2> QED BY <2>1, SameMail
<1> QED BY <1>1, <1>2

\* The application goes on, or calls a service.
LEMMA RunningMail ==
  ASSUME AppInv, MailInv, Tick \/ Wait \/ Draw \/ Text \/ UseFiles
  PROVE  MailKeeps
<1>1. ServiceInv BY DEF AppInv
<1>2. CASE Tick
  <2>1. CASE ticks + 1 >= SLICE BY <1>2, <2>1, YieldMail, Zenon DEF Tick
  <2>2. CASE ~(ticks + 1 >= SLICE) BY <1>2, <2>2, SameMail DEF Tick
  <2> QED BY <2>1, <2>2
<1>3. CASE Wait BY <1>1, <1>3, KsWaitKeeps, SameMail DEF Wait, rest
<1>4. CASE Draw
  <2>1. PICK n \in 1 .. DRAW_BUDGET : KsDraw(svc.event.id, n) BY <1>4, Zenon DEF Draw
  <2>2. svc'.pending = svc.pending /\ svc'.event = svc.event BY <1>1, <2>1, KsDrawKeeps, Zenon
  <2>3. pc = "user" /\ UNCHANGED <<resident, events, typed, closing, pc>> BY <1>4 DEF Draw, UserOnly
  <2> QED BY <2>2, <2>3, SameMail
<1>5. CASE Text
  <2>1. PICK n \in 1 .. TEXT_BUDGET : KsText(svc.event.id, n) BY <1>5, Zenon DEF Text
  <2>2. svc'.pending = svc.pending /\ svc'.event = svc.event BY <1>1, <2>1, KsTextKeeps, Zenon
  <2>3. pc = "user" /\ UNCHANGED <<resident, events, typed, closing, pc>> BY <1>5 DEF Text, UserOnly
  <2> QED BY <2>2, <2>3, SameMail
<1>6. CASE UseFiles
  <2>1. SameEvents /\ UNCHANGED rest /\ pc = "user" BY <1>1, <1>6, FileCallKeeps DEF UseFiles
  <2> QED BY <2>1, SameMail DEF SameEvents, rest
<1> QED BY <1>2, <1>3, <1>4, <1>5, <1>6

LEMMA MailInit == AppInit => MailInv /\ Mail!Init
<1> SUFFICES ASSUME AppInit PROVE MailInv /\ Mail!Init OBVIOUS
<1>1. svc = Dead /\ resident = FALSE /\ events = <<>> /\ closing = FALSE /\ typed = 0 BY DEF AppInit, Init
<1>2. svc.pending = FALSE /\ Len(events) = 0
  <2>1. svc.pending = FALSE BY <1>1, Zenon DEF Dead
  <2> QED BY <1>1, <2>1
<1>3. MailInv BY <1>1, <1>2 DEF MailInv
<1>4. Mail!Init BY <1>1, IdleSeen, Zenon DEF Mail!Init, Mail!Off, Box
<1> QED BY <1>3, <1>4

LEMMA MailStep == AppInv /\ MailInv /\ [AppNext]_vars => MailInv' /\ [Mail!Next]_Box
<1> SUFFICES ASSUME AppInv, MailInv, [AppNext]_vars PROVE MailKeeps BY DEF MailKeeps
<1>1. CASE UNCHANGED vars
  <2>1. UNCHANGED <<svc, resident, events, typed, closing, pc>> BY <1>1 DEF vars, rest
  <2>2. closing => pc' = "user" BY <2>1 DEF MailInv
  <2> QED BY <2>1, <2>2, SameMail
<1>2. CASE Refresh("draw", 0) \/ \E delta \in 0 .. MAX_DELTA : Refresh("tick", delta)
  <2>1. PICK type \in Coalesced, delta \in 0 .. MAX_DELTA : Refresh(type, delta) /\ (type # "tick" => delta = 0)
    BY <1>2, Limits DEF Coalesced
  <2>2. /\ type \in Types /\ type \notin Inputs /\ type # "close" /\ 0 \in Keys \cup {0}
        /\ pc = "gui" /\ loaded /\ Pump(type, delta, 0) /\ closing' \in BOOLEAN
    BY <2>1 DEF Coalesced, Types, Inputs, Refresh
  <2> QED BY <2>1, <2>2, PumpMail, Zenon
<1>3. CASE \E type \in Inputs : Input(type)
  <2>1. PICK type \in Inputs : Input(type) BY <1>3
  <2>2. typed + 1 \in 1 .. MaxInputs BY <2>1, TypedType, DispatchLimits DEF AppInv, Input
  <2>3. /\ type \in Types /\ type # "tick" /\ type # "close" /\ typed + 1 \in Keys \cup {0} /\ 0 \in 0 .. MAX_DELTA
        /\ pc = "gui" /\ loaded /\ Pump(type, 0, typed + 1) /\ closing' \in BOOLEAN
    BY <2>1, <2>2, InputsAssumption, Limits DEF Types, Inputs, Input
  <2> QED BY <2>1, <2>3, PumpMail, Zenon
<1>4. CASE KappUnload
  <2>1. CASE shown
    <3>1. Pump("close", 0, 0) /\ closing' = (pc' = "user") /\ pc = "gui" /\ loaded BY <1>4, <2>1 DEF KappUnload
    <3>2. /\ "close" \in Types /\ "close" \notin Inputs /\ 0 \in Keys \cup {0} /\ 0 \in 0 .. MAX_DELTA
          /\ closing' \in BOOLEAN /\ (pc' = "user" => closing') BY <3>1, Limits DEF Types, Inputs
    <3> QED BY <3>1, <3>2, PumpMail, Zenon
  <2>2. CASE ~shown BY <1>4, <2>2, GoneMail, Zenon DEF KappUnload
  <2> QED BY <2>1, <2>2
<1>5. CASE Stop BY <1>5, GoneMail, Zenon DEF Stop
<1> QED
  BY <1>1, <1>2, <1>3, <1>4, <1>5, LoadMail, LoadFailedMail, CompleteMail, YieldMail, RunningMail, Zenon DEF AppNext

\* The queue of ku_app_event keeps what an application is promised of its
\* window: time and repaints are merged, never lost, inputs come in order, and
\* one event is served at a time (user_mode.c, user_service.c ks_post).
THEOREM KeepsMailbox == AppSpec => ImplementsMailbox
<1> QED BY MailInit, MailStep, Inductive, PTL DEF AppSpec, ImplementsMailbox, Mail!Spec

-----------------------------------------------------------------------------
(***************************************************************************)
(* The NTFS driver: numbers first.                                         *)
(***************************************************************************)
\* What holds at 0 and passes from each number to the next holds up to N.
LEMMA Rises ==
  ASSUME NEW N \in Nat, NEW K, 0 \in K, \A k \in 1 .. N : k - 1 \in K => k \in K
  PROVE  \A k \in 0 .. N : k \in K
<1> DEFINE R == {p \in Nat \X Nat : p[1] < p[2]}
           B == {n \in 0 .. N : n \notin K}
<1>1. IsWellFoundedOn(R, Nat) BY NatLessThanWellFounded DEF OpToRel
<1>2. \A x, y \in Nat : <<y, x>> \in R <=> y < x OBVIOUS
<1> HIDE DEF R
<1> SUFFICES ASSUME B # {} PROVE FALSE OBVIOUS
<1>5. B \subseteq Nat OBVIOUS
<1>6. PICK n \in B : \A y \in B : ~(<<y, n>> \in R) BY <1>1, <1>5, WFMin
<1>3. n # 0 /\ n \in 1 .. N /\ n - 1 \in 0 .. N BY <1>6
<1>4. n - 1 \notin B
  <2>1. <<n - 1, n>> \in R BY <1>2, <1>3
  <2> QED BY <1>6, <2>1
<1> QED BY <1>6, <1>3, <1>4

\* A set of numbers has a least one.
LEMMA LeastIn ==
  ASSUME NEW S, S \subseteq Nat, S # {}
  PROVE  \E k \in S : \A j \in Nat : j < k => j \notin S
<1> DEFINE R == {p \in Nat \X Nat : p[1] < p[2]}
<1>1. IsWellFoundedOn(R, Nat) BY NatLessThanWellFounded DEF OpToRel
<1>2. \A x, y \in Nat : <<y, x>> \in R <=> y < x OBVIOUS
<1> HIDE DEF R
<1>3. PICK k \in S : \A y \in S : ~(<<y, k>> \in R) BY <1>1, WFMin
<1> QED BY <1>2, <1>3

\* Min is it.
LEMMA MinIs ==
  ASSUME NEW S, S \subseteq Nat, S # {}
  PROVE  Min(S) \in S /\ \A y \in S : Min(S) <= y
<1>1. PICK k \in S : \A j \in Nat : j < k => j \notin S BY LeastIn
<1>2. \A y \in S : k <= y BY <1>1
<1> QED BY <1>2 DEF Min

\* And a bounded set has a greatest.
LEMMA MaxIs ==
  ASSUME NEW N \in Nat, NEW S, S \subseteq 0 .. N, S # {}
  PROVE  Max(S) \in S /\ \A y \in S : y <= Max(S)
<1> DEFINE T == {N - x : x \in S}
<1>0. \A x \in S : x \in Nat /\ x <= N /\ N - x \in Nat OBVIOUS
<1>1. T \subseteq Nat /\ T # {} BY <1>0
<1>2. PICK k \in T : \A j \in Nat : j < k => j \notin T BY <1>1, LeastIn
<1>3. PICK x \in S : k = N - x BY <1>2
<1>4. \A y \in S : y <= x
  <2>1. SUFFICES ASSUME NEW y \in S, ~(y <= x) PROVE FALSE BY Zenon
  <2>2. N - y \in T BY Zenon
  <2>3. N - y \in Nat /\ N - y < k BY <1>0, <1>3, <2>1
  <2> QED BY <1>2, <2>2, <2>3
<1> QED BY <1>4 DEF Max

-----------------------------------------------------------------------------
(***************************************************************************)
(* Runs and extents.                                                       *)
(***************************************************************************)
Extents == Seq(ExtentOf)
ExtentTyped(e) == e.vcn \in Nat /\ e.len \in Nat /\ e.lcn \in Int

\* The fields of runs and extents.
LEMMA RunFields ==
  ASSUME NEW r \in RunOnDisk
  PROVE  r.len \in Nat /\ r.delta \in Int BY Zenon DEF RunOnDisk
LEMMA ExtentFields ==
  ASSUME NEW ext \in Extents
  PROVE  /\ DOMAIN ext = 1 .. Len(ext) /\ Len(ext) \in Nat
         /\ \A k \in DOMAIN ext : ExtentTyped(ext[k])
<1>1. \A k \in DOMAIN ext : ext[k] \in ExtentOf BY DEF Extents
<1>2. \A e \in ExtentOf : ExtentTyped(e) BY Zenon DEF ExtentOf, ExtentTyped
<1>3. DOMAIN ext = 1 .. Len(ext) /\ Len(ext) \in Nat BY DEF Extents
<1> QED BY <1>1, <1>2, <1>3, Zenon

\* run_lookup finds an extent that covers the cluster, if there is one.
LEMMA LookupFinds ==
  ASSUME NEW ext \in Extents, NEW c, NEW i, i = RunLookup(ext, c)
  PROVE  \/ i = 0 /\ \A k \in DOMAIN ext : ~Covers(ext[k], c)
         \/ i # 0 /\ i \in DOMAIN ext /\ Covers(ext[i], c)
<1> DEFINE hit == {k \in DOMAIN ext : c >= ext[k].vcn /\ c < ext[k].vcn + ext[k].len}
<1>1. i = IF hit = {} THEN 0 ELSE Min(hit) BY DEF RunLookup
<1>2. \A k \in DOMAIN ext : k \in hit <=> Covers(ext[k], c) BY DEF Covers
<1>3. DOMAIN ext = 1 .. Len(ext) /\ Len(ext) \in Nat BY DEF Extents
<1>4. hit \subseteq Nat /\ hit \subseteq DOMAIN ext /\ 0 \notin hit BY <1>3
<1> HIDE DEF hit
<1>5. CASE hit = {} BY <1>1, <1>2, <1>5
<1>6. CASE hit # {}
  <2>1. Min(hit) \in hit BY <1>4, <1>6, MinIs
  <2> QED BY <1>1, <1>2, <1>4, <1>6, <2>1
<1> QED BY <1>5, <1>6

\* The cluster the next run counts from.
LEMMA LastClusterMoves ==
  ASSUME NEW ext \in Extents, NEW k \in 1 .. Len(ext)
  PROVE  /\ LastCluster(ext, 0) = 0
         /\ LastCluster(ext, k) = IF ext[k].sparse THEN LastCluster(ext, k - 1) ELSE ext[k].lcn
<1> DEFINE F(n) == {j \in 1 .. n : ~ext[j].sparse}
<1>1. \A n : LastCluster(ext, n) = IF F(n) = {} THEN 0 ELSE ext[Max(F(n))].lcn BY DEF LastCluster
<1>2. F(0) = {} OBVIOUS
<1>3. k \in Nat /\ k >= 1 /\ k - 1 \in Nat BY DEF Extents
<1>4. CASE ext[k].sparse
  <2>1. F(k) = F(k - 1) BY <1>3, <1>4
  <2> HIDE DEF F
  <2> QED BY <1>1, <1>2, <1>4, <2>1
<1>5. CASE ~ext[k].sparse
  <2>1. k \in F(k) /\ F(k) \subseteq 0 .. k /\ \A j \in F(k) : j <= k BY <1>3, <1>5
  <2> HIDE DEF F
  <2>2. Max(F(k)) \in F(k) /\ k <= Max(F(k)) BY <1>3, <2>1, MaxIs
  <2>3. Max(F(k)) = k
    <3>1. Max(F(k)) \in 0 .. k BY <2>1, <2>2
    <3> QED BY <1>3, <2>2, <3>1
  <2> QED BY <1>1, <1>2, <1>5, <2>1, <2>3
<1> QED BY <1>4, <1>5

\* parse_runlist counts from run to run.
LcnRead(f, runs) == f = [k \in 0 .. Len(runs) |->
    IF k = 0 THEN 0 ELSE IF runs[k].sparse THEN f[k - 1] ELSE f[k - 1] + runs[k].delta]
NextRead(g, runs, vcn) == g = [k \in 0 .. Len(runs) |-> IF k = 0 THEN vcn ELSE g[k - 1] + runs[k].len]
ParsedBy(f, g, runs, vcn) ==
    ParseRunlist(runs, vcn) = [k \in 1 .. Len(runs) |->
        Extent(g[k - 1], runs[k].len, IF runs[k].sparse THEN 0 ELSE f[k], runs[k].sparse)]
LEMMA ParseReads ==
  ASSUME NEW runs, NEW vcn, NEW F, LcnRead(F, runs), NEW G, NextRead(G, runs, vcn)
  PROVE  \E f, g : LcnRead(f, runs) /\ NextRead(g, runs, vcn) /\ ParsedBy(f, g, runs, vcn)
<1> DEFINE f == CHOOSE h : LcnRead(h, runs)
           g == CHOOSE h : NextRead(h, runs, vcn)
<1>1. LcnRead(f, runs) /\ NextRead(g, runs, vcn) BY Zenon
<1>2. ParsedBy(f, g, runs, vcn) BY DEF ParsedBy, ParseRunlist, LcnRead, NextRead
<1> QED BY <1>1, <1>2, Zenon

\* The parts of an extent.
LEMMA ExtentParts ==
  ASSUME NEW vcn, NEW len, NEW lcn, NEW sparse, NEW e, e = Extent(vcn, len, lcn, sparse)
  PROVE  e.vcn = vcn /\ e.len = len /\ e.lcn = lcn /\ e.sparse = sparse BY DEF Extent

\* What parse_runlist reads off the disk is the extents they spell.
LEMMA ParsedAreExtents ==
  ASSUME NEW a, Spelled(a)
  PROVE  ParseRunlist(a.runs, a.vcn) = a.extents /\ a.extents \in Extents
<1> DEFINE ext == a.extents
           runs == a.runs
           n == Len(runs)
           Lcn(f) == LcnRead(f, runs)
           Following(g) == NextRead(g, runs, a.vcn)
           L == [k \in 0 .. n |-> LastCluster(ext, k)]
           N == [k \in 0 .. n |-> IF k = 0 THEN a.vcn ELSE ext[k].vcn + ext[k].len]
           X(k) == Extent(IF k = 1 THEN a.vcn ELSE ext[k - 1].vcn + ext[k - 1].len, runs[k].len,
                              IF runs[k].sparse THEN 0 ELSE LastCluster(ext, k - 1) + runs[k].delta, runs[k].sparse)
<1>1. ext \in Extents /\ n \in Nat /\ Len(ext) = n /\ DOMAIN ext = 1 .. n /\ DOMAIN runs = 1 .. n
  BY DEF Spelled, Extents
<1>2. \A k \in 1 .. n : ext[k] = X(k)
  <2>1. \A k \in DOMAIN a.runs : a.extents[k] = X(k) BY Zenon DEF Spelled
  <2> QED BY <1>1, <2>1, Zenon
<1> DEFINE e(k) == IF k = 1 THEN a.vcn ELSE ext[k - 1].vcn + ext[k - 1].len
           l(k) == IF runs[k].sparse THEN 0 ELSE LastCluster(ext, k - 1) + runs[k].delta
<1>3. \A k \in 1 .. n : ext[k].vcn = e(k) /\ ext[k].len = runs[k].len /\ ext[k].lcn = l(k)
                        /\ ext[k].sparse = runs[k].sparse
  <2> SUFFICES ASSUME NEW k \in 1 .. n
               PROVE ext[k].vcn = e(k) /\ ext[k].len = runs[k].len /\ ext[k].lcn = l(k)
                        /\ ext[k].sparse = runs[k].sparse OBVIOUS
  <2>1. ext[k] = Extent(e(k), runs[k].len, l(k), runs[k].sparse) BY <1>2
  <2> HIDE DEF e, l, ext, runs, n
  <2> QED BY <2>1, ExtentParts
<1>4. ext = [k \in 1 .. n |-> ext[k]] BY <1>1 DEF Extents
<1>5. a.vcn \in Nat /\ \A k \in 1 .. n : runs[k].len \in Nat /\ runs[k].delta \in Int /\ ext[k].vcn \in Nat
        /\ ext[k].len \in Nat /\ ext[k].lcn \in Int
  <2>1. a.vcn \in Nat /\ runs \in Seq(RunOnDisk) BY DEF Spelled
  <2>2. \A k \in 1 .. n : runs[k] \in RunOnDisk BY <1>1, <2>1
  <2>3. \A k \in 1 .. n : ExtentTyped(ext[k]) BY <1>1, ExtentFields
  <2> QED BY <2>1, <2>2, <2>3, RunFields, Zenon DEF ExtentTyped
<1>6. \A k \in 1 .. n : /\ LastCluster(ext, 0) = 0
                        /\ LastCluster(ext, k) = IF ext[k].sparse THEN LastCluster(ext, k - 1) ELSE ext[k].lcn
  BY <1>1, LastClusterMoves
<1> HIDE DEF ext, runs, n
<1>7. Following(N)
  <2>1. \A k \in 0 .. n : N[k] = IF k = 0 THEN a.vcn ELSE N[k - 1] + runs[k].len
    <3> SUFFICES ASSUME NEW k \in 0 .. n PROVE N[k] = IF k = 0 THEN a.vcn ELSE N[k - 1] + runs[k].len OBVIOUS
    <3>1. CASE k = 0 BY <3>1
    <3>2. CASE k # 0
      <4>1. k \in 1 .. n /\ k - 1 \in 0 .. n BY <1>1, <3>2
      <4>2. N[k] = ext[k].vcn + ext[k].len BY <3>2
      <4>3. ext[k].vcn = N[k - 1] BY <1>1, <1>3, <4>1
      <4> QED BY <1>3, <3>2, <4>1, <4>2, <4>3
    <3> QED BY <3>1, <3>2
  <2>2. N = [k \in 0 .. n |-> N[k]] OBVIOUS
  <2> HIDE DEF N
  <2>3. N = [k \in 0 .. n |-> IF k = 0 THEN a.vcn ELSE N[k - 1] + runs[k].len] BY <2>1, <2>2, Zenon
  <2> QED BY <2>3, Zenon DEF n, LcnRead, NextRead
<1>8. Lcn(L)
  <2>1. \A k \in 0 .. n : L[k] = IF k = 0 THEN 0 ELSE IF runs[k].sparse THEN L[k - 1] ELSE L[k - 1] + runs[k].delta
    <3> SUFFICES ASSUME NEW k \in 0 .. n
                 PROVE L[k] = IF k = 0 THEN 0 ELSE IF runs[k].sparse THEN L[k - 1] ELSE L[k - 1] + runs[k].delta
      OBVIOUS
    <3>1. CASE k = 0
      <4>1. LastCluster(ext, 0) = 0 BY DEF LastCluster
      <4> QED BY <3>1, <4>1
    <3>2. CASE k # 0
      <4>1. k \in 1 .. n /\ k - 1 \in 0 .. n BY <1>1, <3>2
      <4>2. L[k] = LastCluster(ext, k) /\ L[k - 1] = LastCluster(ext, k - 1) BY <4>1
      <4> QED BY <1>3, <1>6, <3>2, <4>1, <4>2
    <3> QED BY <3>1, <3>2
  <2>2. L = [k \in 0 .. n |-> L[k]] OBVIOUS
  <2> HIDE DEF L
  <2>3. L = [k \in 0 .. n |-> IF k = 0 THEN 0 ELSE IF runs[k].sparse THEN L[k - 1] ELSE L[k - 1] + runs[k].delta]
    BY <2>1, <2>2, Zenon
  <2> QED BY <2>3, Zenon DEF n, LcnRead, NextRead
<1> HIDE DEF L, N
<1>9. PICK f, g : Lcn(f) /\ Following(g) /\ ParsedBy(f, g, runs, a.vcn) BY <1>7, <1>8, ParseReads
<1>10. \A k \in 0 .. n : f[k] = L[k] /\ g[k] = N[k]
  <2> DEFINE K == {k \in 0 .. n : f[k] = L[k] /\ g[k] = N[k]}
             LC(h) == \A k \in 0 .. n : h[k] = IF k = 0 THEN 0 ELSE IF runs[k].sparse THEN h[k - 1] ELSE h[k - 1] + runs[k].delta
             NX(h) == \A k \in 0 .. n : h[k] = IF k = 0 THEN a.vcn ELSE h[k - 1] + runs[k].len
  <2>1. LC(f) /\ LC(L)
    <3>1. ASSUME NEW h, Lcn(h) PROVE LC(h)
      <4>1. h = [k \in 0 .. n |->
                IF k = 0 THEN 0 ELSE IF runs[k].sparse THEN h[k - 1] ELSE h[k - 1] + runs[k].delta] BY <3>1, Zenon DEF n, LcnRead, NextRead
      <4> QED BY <4>1, Zenon
    <3> HIDE DEF Lcn, LC
    <3> QED BY <1>8, <1>9, <3>1
  <2>2. NX(g) /\ NX(N)
    <3>1. ASSUME NEW h, Following(h) PROVE NX(h)
      <4>1. h = [k \in 0 .. n |-> IF k = 0 THEN a.vcn ELSE h[k - 1] + runs[k].len] BY <3>1, Zenon DEF n, LcnRead, NextRead
      <4> QED BY <4>1, Zenon
    <3> HIDE DEF Following, NX
    <3> QED BY <1>7, <1>9, <3>1
  <2>3. 0 \in K BY <1>1, <2>1, <2>2
  <2>4. ASSUME NEW k \in 1 .. n, k - 1 \in K PROVE k \in K
    <3>1. k \in 0 .. n /\ k # 0 /\ f[k - 1] = L[k - 1] /\ g[k - 1] = N[k - 1] BY <1>1, <2>4
    <3>2. f[k] = L[k] BY <2>1, <3>1, Zenon
    <3>3. g[k] = N[k] BY <2>2, <3>1, Zenon
    <3> QED BY <3>1, <3>2, <3>3
  <2> HIDE DEF K
  <2>5. \A k \in 0 .. n : k \in K BY <1>1, <2>3, <2>4, Rises
  <2> QED BY <2>5 DEF K
<1>11. ASSUME NEW k \in 1 .. n
       PROVE  ext[k] = Extent(g[k - 1], runs[k].len, IF runs[k].sparse THEN 0 ELSE f[k], runs[k].sparse)
  <2>1. k \in 0 .. n /\ k - 1 \in 0 .. n /\ k # 0 BY <1>1
  <2>2. ext[k] = Extent(e(k), runs[k].len, l(k), runs[k].sparse) BY <1>2 DEF ext, runs
  <2>3. g[k - 1] = e(k)
    <3>1. g[k - 1] = N[k - 1] BY <1>10, <2>1
    <3>2. N[k - 1] = IF k - 1 = 0 THEN a.vcn ELSE ext[k - 1].vcn + ext[k - 1].len BY <2>1 DEF N
    <3>3. k - 1 = 0 <=> k = 1 BY <2>1
    <3> QED BY <3>1, <3>2, <3>3, Zenon DEF e
  <2>4. ~runs[k].sparse => f[k] = l(k)
    <3>1. f[k] = LastCluster(ext, k) BY <1>10, <2>1 DEF L
    <3>2. ext[k].sparse = runs[k].sparse /\ ext[k].lcn = l(k) BY <1>3
    <3>3. LastCluster(ext, k) = IF ext[k].sparse THEN LastCluster(ext, k - 1) ELSE ext[k].lcn BY <1>6
    <3> QED BY <3>1, <3>2, <3>3, Zenon
  <2>5. runs[k].sparse => l(k) = 0 BY Zenon DEF l
  <2>6. (IF runs[k].sparse THEN 0 ELSE f[k]) = l(k) BY <2>4, <2>5, Zenon
  <2> QED BY <2>2, <2>3, <2>6, Zenon
<1>12. ParseRunlist(runs, a.vcn) = [k \in 1 .. n |-> ext[k]]
  <2>1. ParseRunlist(runs, a.vcn) = [k \in 1 .. n |->
                        Extent(g[k - 1], runs[k].len, IF runs[k].sparse THEN 0 ELSE f[k], runs[k].sparse)]
    BY <1>9, Zenon DEF ParsedBy, n
  <2> QED BY <1>11, <2>1, Zenon
<1> QED BY <1>1, <1>4, <1>12 DEF ext, runs

-----------------------------------------------------------------------------
(***************************************************************************)
(* Records.                                                                *)
(***************************************************************************)
\* What is read of the disk is what lies there, or nothing.
UnitsTaken(units, first, count) ==
    /\ units # <<>> /\ Len(units) = count /\ DOMAIN units = 1 .. count
    /\ \A k \in 1 .. count : first + k - 1 \in DOMAIN volume.at /\ units[k] = volume.at[first + k - 1]
LEMMA SectorsRead ==
  ASSUME NEW bad, NEW first \in Int, NEW count \in Nat \ {0}, NEW units, units = ReadSectors(bad, first, count)
  PROVE  /\ units = <<>> \/ UnitsTaken(units, first, count)
         /\ bad = {} /\ (\A k \in 1 .. count : first + k - 1 \in DOMAIN volume.at) => units # <<>>
<1> DEFINE lost == \E k \in first .. first + count - 1 : k \notin DOMAIN volume.at \/ k \in bad
           got == [k \in 1 .. count |-> volume.at[first + k - 1]]
<1>1. units = IF lost THEN <<>> ELSE got BY DEF ReadSectors
<1>2. got # <<>> /\ Len(got) = count /\ DOMAIN got = 1 .. count
      /\ \A k \in 1 .. count : got[k] = volume.at[first + k - 1]
  <2>1. 1 \in DOMAIN got /\ 1 \notin DOMAIN <<>> OBVIOUS
  <2> QED BY <2>1
<1>3. ASSUME ~lost, NEW k \in 1 .. count PROVE first + k - 1 \in DOMAIN volume.at
  <2>1. first + k - 1 \in first .. first + count - 1 OBVIOUS
  <2> QED BY <1>3, <2>1, Zenon
<1>4. ASSUME lost, bad = {} PROVE ~ \A k \in 1 .. count : first + k - 1 \in DOMAIN volume.at
  <2>1. PICK k \in first .. first + count - 1 : k \notin DOMAIN volume.at BY <1>4
  <2>2. k - first + 1 \in 1 .. count /\ first + (k - first + 1) - 1 = k OBVIOUS
  <2> QED BY <2>1, <2>2
<1> HIDE DEF got, lost
<1>5. ~lost => UnitsTaken(units, first, count) BY <1>1, <1>2, <1>3 DEF UnitsTaken
<1> QED BY <1>1, <1>2, <1>4, <1>5

\* The fixup accepts units of one record, in their places, written together.
LEMMA RecordIs ==
  ASSUME VolumeSound(volume), NEW bad, NEW n, NEW runs \in Extents,
         \A i \in DOMAIN runs : AtHome(volume, runs[i], n)
  PROVE  ReadMftRecord(bad, runs, n) \in {-1, n}
<1> DEFINE c == RecordCluster(volume, n)
           i == RunLookup(runs, c)
           home == RecordSector(volume, runs[i], n)
           units == ReadSectors(bad, home, volume.spr)
<1>1. ReadMftRecord(bad, runs, n) = IF i = 0 THEN -1 ELSE IF runs[i].sparse THEN -1
                                    ELSE IF Fixed(units, "rec") THEN units[1].what[2] ELSE -1 BY DEF ReadMftRecord
<1> SUFFICES ASSUME i # 0, ~runs[i].sparse, Fixed(units, "rec") PROVE units[1].what[2] = n
  <2> HIDE DEF i, units
  <2> QED BY <1>1, Zenon
<1>2. i \in DOMAIN runs /\ Covers(runs[i], c) BY LookupFinds
<1>3. home \in Nat /\ (home \in DOMAIN volume.at => volume.at[home].what = <<"rec", n>>) BY <1>2 DEF AtHome
<1> DEFINE spr == volume.spr
<1>4. spr \in Nat \ {0} BY DEF VolumeSound
<1> HIDE DEF i, c, home, spr
<1>5. units # <<>> BY DEF Fixed
<1>6. UnitsTaken(units, home, spr)
  <2>1. units = ReadSectors(bad, home, spr) BY DEF spr
  <2> HIDE DEF units
  <2> QED BY <1>3, <1>4, <1>5, <2>1, SectorsRead
<1> HIDE DEF units
<1>7. home \in DOMAIN volume.at /\ units[1] = volume.at[home]
  <2>1. 1 \in 1 .. spr /\ home + 1 - 1 = home BY <1>3, <1>4
  <2> QED BY <1>6, <2>1 DEF UnitsTaken
<1>8. units[1].what = <<"rec", n>> BY <1>3, <1>7
<1> QED BY <1>8

\* Without a failing sector an intact record is read.
LEMMA RecordReads ==
  ASSUME VolumeSound(volume), NEW n \in DOMAIN volume.records, IntactRecord(volume, n),
         NEW runs \in Extents, runs = MftData(volume).extents
  PROVE  ReadMftRecord({}, runs, n) = n
<1> DEFINE c == RecordCluster(volume, n)
           i == RunLookup(runs, c)
           home == RecordSector(volume, runs[i], n)
           spr == volume.spr
           units == ReadSectors({}, home, spr)
<1>1. ReadMftRecord({}, runs, n) = IF i = 0 THEN -1 ELSE IF runs[i].sparse THEN -1
                                    ELSE IF Fixed(units, "rec") THEN units[1].what[2] ELSE -1 BY DEF ReadMftRecord
<1>2. i # 0 /\ i \in DOMAIN runs /\ Covers(runs[i], c) BY LookupFinds DEF IntactRecord
<1>3. IntactAt(volume, runs[i], n) /\ AtHome(volume, runs[i], n) BY <1>2 DEF IntactRecord, VolumeSound, MftSound
<1>4. ~runs[i].sparse /\ home \in Nat BY <1>2, <1>3 DEF IntactAt, AtHome
<1> DEFINE at(k) == volume.at[home + k - 1]
<1>5. \A k \in 1 .. spr : home + k - 1 \in DOMAIN volume.at /\ at(k).what = <<"rec", n>> /\ at(k).part = k
                          /\ at(k).gen = volume.at[home].gen BY <1>2, <1>3 DEF IntactAt
<1>6. spr \in Nat \ {0} BY DEF VolumeSound
<1> HIDE DEF i, c, home, spr
<1>7. UnitsTaken(units, home, spr)
  <2> HIDE DEF at
  <2>1. \A k \in 1 .. spr : home + k - 1 \in DOMAIN volume.at BY <1>5
  <2>2. units = ReadSectors({}, home, spr) OBVIOUS
  <2> HIDE DEF units
  <2> DEFINE bad == {}
  <2>3. units = ReadSectors(bad, home, spr) /\ bad = {} BY <2>2
  <2> HIDE DEF bad
  <2>4. home \in Int BY <1>4
  <2>5. units = <<>> \/ UnitsTaken(units, home, spr) BY <1>6, <2>3, <2>4, SectorsRead
  <2>6. units # <<>> BY <1>6, <2>1, <2>3, <2>4, SectorsRead
  <2> QED BY <2>5, <2>6
<1> HIDE DEF units
<1>8. \A k \in 1 .. spr : units[k] = at(k) BY <1>7 DEF UnitsTaken
<1>9. home + 1 - 1 = home /\ 1 \in 1 .. spr BY <1>4, <1>6
<1>10. units[1].what = <<"rec", n>> /\ units[1].gen = volume.at[home].gen BY <1>5, <1>8, <1>9
<1>11. Fixed(units, "rec")
  <2>1. DOMAIN units = 1 .. spr /\ units # <<>> BY <1>7 DEF UnitsTaken
  <2>2. ASSUME NEW k \in 1 .. spr
        PROVE  units[k].what[1] = "rec" /\ units[k].what = units[1].what /\ units[k].part = k /\ units[k].gen = units[1].gen
    <3>1. units[k].what = <<"rec", n>> /\ units[k].part = k /\ units[k].gen = volume.at[home].gen BY <1>5, <1>8
    <3> QED BY <1>10, <3>1
  <2> QED BY <2>1, <2>2, Zenon DEF Fixed
<1> QED BY <1>1, <1>2, <1>4, <1>10, <1>11

\* An attribute is found in the record that holds it, or the record that the
\* list names cannot be read.
LEMMA AttrFound ==
  ASSUME VolumeSound(volume), mftRuns = MftData(volume).extents, NEW bad, NEW n, NEW type,
         InOneRecord(volume, n, type), NEW found, found = FindAttrExt(bad, n, type)
  PROVE  /\ found = Found(TheAttr(volume, n, type), FALSE) \/ found = Found(NoAttr, TRUE)
         /\ bad = {} /\ Intact(volume, n) => found = Found(TheAttr(volume, n, type), FALSE)
<1> DEFINE rec == volume.records[n]
           here == FindAttrIn(rec, type)
           list == rec.list
           named == {i \in DOMAIN list : list[i].type = type /\ list[i].ref # 0}
           names == NamedFor(rec, type)
           h == Holder(volume, n, type)
           ext == ReadMftRecord(bad, mftRuns, list[Min(named)].ref)
<1>1. found = IF here # NoAttr \/ named = {} THEN Found(here, FALSE)
              ELSE IF ext = -1 THEN Found(NoAttr, TRUE)
              ELSE Found(FindAttrIn(volume.records[ext], type), FALSE) BY Zenon DEF FindAttrExt
<1>2. names = {list[i].ref : i \in named} BY DEF NamedFor
<1>3. h = IF names = {} THEN n ELSE CHOOSE r \in names : TRUE BY DEF Holder
<1>4. TheAttr(volume, n, type) = FindAttrIn(volume.records[h], type) BY DEF TheAttr
<1>5. /\ n \in DOMAIN volume.records /\ names \subseteq DOMAIN volume.records
      /\ \A r, q \in names : r = q
      /\ names # {} => here = NoAttr
  <2>1. OfType(rec, type) = {} => here = NoAttr BY Zenon DEF OfType, FindAttrIn
  <2> QED BY <2>1 DEF InOneRecord
<1>6. CASE named = {}
  <2>1. names = {} BY <1>2, <1>6
  <2>2. found = Found(here, FALSE) BY <1>1, <1>6, Zenon
  <2>3. h = n BY <1>3, <2>1, Zenon
  <2>4. TheAttr(volume, n, type) = here BY <1>4, <2>3
  <2> QED BY <2>2, <2>4
<1>7. CASE named # {}
  <2> HIDE DEF here, h, ext
  <2>1. named \subseteq Nat BY <1>5 DEF VolumeSound, MftSound
  <2>2. Min(named) \in named BY <1>7, <2>1, MinIs
  <2>3. list[Min(named)].ref \in names BY <1>2, <2>2
  <2>4. h \in names BY <1>3, <2>3
  <2>5. list[Min(named)].ref = h BY <1>5, <2>3, <2>4
  <2>6. h \in DOMAIN volume.records /\ h # -1 BY <1>5, <2>4 DEF VolumeSound, MftSound
  <2>7. mftRuns \in Extents /\ \A i \in DOMAIN mftRuns : AtHome(volume, mftRuns[i], h)
    BY <2>6 DEF VolumeSound, MftSound, Spelled, Extents
  <2>8. ext \in {-1, h}
    <3>1. ext = ReadMftRecord(bad, mftRuns, h) BY <2>5 DEF ext
    <3> QED BY <2>7, <3>1, RecordIs
  <2>9. here = NoAttr BY <1>5, <2>3
  <2>10. ext # -1 => found = Found(TheAttr(volume, n, type), FALSE)
    <3>1. ext # -1 => ext = h BY <2>8
    <3> QED BY <1>1, <1>4, <1>7, <2>9, <3>1, Zenon
  <2>11. ext = -1 => found = Found(NoAttr, TRUE) BY <1>1, <1>7, <2>9, Zenon
  <2>12. bad = {} /\ Intact(volume, n) => ext = h
    <3> SUFFICES ASSUME bad = {}, Intact(volume, n) PROVE ext = h OBVIOUS
    <3>1. list[Min(named)].ref # 0 /\ Min(named) \in DOMAIN list BY <2>2
    <3>2. IntactRecord(volume, list[Min(named)].ref) BY <3>1 DEF Intact
    <3>3. IntactRecord(volume, h) BY <2>5, <3>2
    <3>4. ext = ReadMftRecord({}, mftRuns, h) BY <2>5 DEF ext
    <3> HIDE DEF named, list, names, rec
    <3> QED BY <2>6, <2>7, <3>3, <3>4, RecordReads
  <2>13. bad = {} /\ Intact(volume, n) => ext # -1 BY <2>6, <2>12, Zenon
  <2> QED BY <2>10, <2>11, <2>13, Zenon
<1> QED BY <1>6, <1>7

-----------------------------------------------------------------------------
(***************************************************************************)
(* What an attribute holds.                                                *)
(***************************************************************************)
\* A position is a cluster and an offset in it.
LEMMA Placed ==
  ASSUME NEW pos \in Nat, NEW spc \in Nat \ {0}
  PROVE  /\ pos \div spc \in Nat /\ pos % spc \in 0 .. spc - 1
         /\ pos = (pos \div spc) * spc + (pos % spc) OBVIOUS

\* A unit read is the one the attribute holds there, a hole as zeroes.
LEMMA UnitIs ==
  ASSUME VolumeSound(volume), NEW a, AttrSound(volume, a), ~a.resident, NEW bad, NEW pos \in 0 .. a.init - 1,
         NEW got, got = UnitAt(bad, a.extents, pos)
  PROVE  got \in {<<>>, <<a.value[pos + 1]>>} /\ (bad = {} => got = <<a.value[pos + 1]>>)
<1> DEFINE spc == volume.spc
           c == pos \div spc
           o == pos % spc
           ext == a.extents
           i == RunLookup(ext, c)
           e == ext[i]
           first == (e.lcn + c - e.vcn) * spc
           units == ReadSectors(bad, first, spc)
<1>1. got = IF i = 0 THEN <<>> ELSE IF e.sparse THEN <<ZeroUnit>> ELSE IF units = <<>> THEN <<>> ELSE <<units[o + 1]>>
  BY DEF UnitAt
<1>2. spc \in Nat \ {0} /\ pos \in Nat BY DEF VolumeSound, AttrSound
<1>3. c \in Nat /\ o \in 0 .. spc - 1 /\ pos = c * spc + o BY <1>2, Placed
<1>4. ext \in Extents /\ \A k \in DOMAIN ext : ExtentHolds(volume, a, ext[k]) BY DEF AttrSound, Spelled, Extents
<1>5. \E k \in DOMAIN ext : Covers(ext[k], c) BY DEF AttrSound
<1> HIDE DEF ext, c, o, i
<1>6. i # 0 /\ i \in DOMAIN ext /\ Covers(e, c) BY <1>4, <1>5, LookupFinds DEF i
<1>7. ExtentTyped(e) BY <1>4, <1>6, ExtentFields
<1>8. c \in e.vcn .. e.vcn + e.len - 1 /\ ExtentHolds(volume, a, e)
  <2>1. ExtentHolds(volume, a, e) BY <1>4, <1>6
  <2> HIDE DEF e
  <2> QED BY <1>3, <1>6, <1>7, <2>1 DEF Covers, ExtentTyped
<1>9. first \in Int BY <1>2, <1>3, <1>7 DEF ExtentTyped
<1>10. /\ ~e.sparse => first + o \in DOMAIN volume.at
       /\ a.value[pos + 1] = IF e.sparse THEN ZeroUnit ELSE volume.at[first + o]
  <2>1. /\ ~e.sparse => first + o \in DOMAIN volume.at
        /\ c * spc + o + 1 <= a.init => a.value[c * spc + o + 1] = IF e.sparse THEN ZeroUnit ELSE volume.at[first + o]
    BY <1>3, <1>8 DEF ExtentHolds
  <2>2. c * spc + o + 1 = pos + 1 /\ pos + 1 <= a.init BY <1>3 DEF AttrSound
  <2> QED BY <2>1, <2>2
<1>11. ~e.sparse => \A k \in 1 .. spc : first + k - 1 \in DOMAIN volume.at
  <2> SUFFICES ASSUME ~e.sparse, NEW k \in 1 .. spc PROVE first + k - 1 \in DOMAIN volume.at OBVIOUS
  <2>1. k - 1 \in 0 .. spc - 1 BY <1>2
  <2>2. first + (k - 1) \in DOMAIN volume.at BY <1>8, <2>1 DEF ExtentHolds
  <2> HIDE DEF first
  <2>3. first + (k - 1) = first + k - 1 BY <1>2, <1>9
  <2> QED BY <2>2, <2>3
<1>12. CASE e.sparse BY <1>1, <1>6, <1>10, <1>12
<1>13. CASE ~e.sparse
  <2> HIDE DEF first, spc, e
  <2>1. \/ units = <<>>
        \/ UnitsTaken(units, first, spc) BY <1>2, <1>9, SectorsRead
  <2>2. bad = {} => units # <<>> BY <1>2, <1>9, <1>11, <1>13, SectorsRead
  <2> HIDE DEF units
  <2>3. units # <<>> => units[o + 1] = a.value[pos + 1]
    <3>1. o + 1 \in 1 .. spc /\ first + (o + 1) - 1 = first + o BY <1>2, <1>3, <1>9
    <3>2. units # <<>> => units[o + 1] = volume.at[first + (o + 1) - 1] BY <2>1, <3>1 DEF UnitsTaken
    <3> QED BY <1>10, <1>13, <3>1, <3>2
  <2> QED BY <1>1, <1>6, <1>13, <2>2, <2>3
<1> QED BY <1>12, <1>13

\* A read returns what the attribute holds from the offset on, and is short
\* only when a sector fails.
Wanted(a, off, max) == IF off >= a.size THEN 0 ELSE Smaller(a.size - off, max)
AsHeld(a, off, max, bad, units) ==
    \E n \in 0 .. Wanted(a, off, max) :
        /\ units = [k \in 1 .. n |-> a.value[off + k]]
        /\ bad = {} => n = Wanted(a, off, max)
LEMMA AttrRead ==
  ASSUME VolumeSound(volume), NEW a, AttrSound(volume, a), NEW bad, NEW off \in Nat, NEW max \in Nat,
         NEW units, units = ReadAttr(bad, a, off, max)
  PROVE  AsHeld(a, off, max, bad, units)
<1> USE DEF AsHeld
<1> DEFINE runs == ParseRunlist(a.runs, a.vcn)
           want == Smaller(a.size - off, max)
           data == Smaller(want, a.init - off)
           unit(k) == UnitAt(bad, runs, off + k - 1)
           ends == {k \in 1 .. data : unit(k) = <<>>}
           n == IF ends = {} THEN want ELSE Min(ends) - 1
<1>1. units = IF off >= a.size THEN <<>>
              ELSE IF a.resident THEN [k \in 1 .. want |-> a.value[off + k]]
              ELSE IF off >= a.init THEN [k \in 1 .. want |-> ZeroUnit]
              ELSE [k \in 1 .. n |-> IF k <= data THEN unit(k)[1] ELSE ZeroUnit] BY DEF ReadAttr
<1>2. a.size \in Nat /\ a.init \in 0 .. a.size BY DEF AttrSound
<1>3. off < a.size => want \in Nat /\ want <= a.size - off /\ Wanted(a, off, max) = want BY <1>2 DEF Smaller, Wanted
<1>4. off < a.size /\ off < a.init => data \in Nat /\ data <= want /\ data <= a.init - off /\ (data = want \/ data = a.init - off)
  BY <1>2, <1>3 DEF Smaller
<1> HIDE DEF want, data
<1>5. CASE off >= a.size
  <2>1. units = [k \in 1 .. 0 |-> a.value[off + k]] BY <1>1, <1>5
  <2>2. Wanted(a, off, max) = 0 /\ 0 \in 0 .. 0 BY <1>5 DEF Wanted
  <2> QED BY <2>1, <2>2
<1>6. CASE off < a.size /\ a.resident
  <2>1. units = [k \in 1 .. want |-> a.value[off + k]]
    <3> HIDE DEF n, unit
    <3>1. ~(off >= a.size) BY <1>2, <1>6
    <3> QED BY <1>1, <1>6, <3>1, Zenon
  <2> QED BY <1>3, <1>6, <2>1
<1>7. CASE off < a.size /\ ~a.resident /\ off >= a.init
  <2>1. units = [k \in 1 .. want |-> ZeroUnit]
    <3> HIDE DEF n, unit
    <3> QED BY <1>1, <1>2, <1>7
  <2>2. \A k \in 1 .. want : a.value[off + k] = ZeroUnit
    <3> SUFFICES ASSUME NEW k \in 1 .. want PROVE a.value[off + k] = ZeroUnit OBVIOUS
    <3>1. off + k \in a.init + 1 .. a.size BY <1>2, <1>3, <1>7
    <3> QED BY <1>7, <3>1 DEF AttrSound
  <2>3. units = [k \in 1 .. want |-> a.value[off + k]] BY <2>1, <2>2
  <2> QED BY <1>3, <1>7, <2>3
<1>8. CASE off < a.size /\ ~a.resident /\ off < a.init
  <2>1. units = [k \in 1 .. n |-> IF k <= data THEN unit(k)[1] ELSE ZeroUnit]
    <3> HIDE DEF n, unit
    <3> QED BY <1>1, <1>2, <1>8
  <2>2. \A k \in 1 .. data : /\ unit(k) \in {<<>>, <<a.value[off + k]>>}
                             /\ bad = {} => unit(k) = <<a.value[off + k]>>
    <3> SUFFICES ASSUME NEW k \in 1 .. data
                 PROVE  /\ unit(k) \in {<<>>, <<a.value[off + k]>>}
                        /\ bad = {} => unit(k) = <<a.value[off + k]>> OBVIOUS
    <3> DEFINE pos == off + k - 1
    <3>1. pos \in 0 .. a.init - 1 /\ pos + 1 = off + k BY <1>2, <1>4, <1>8
    <3>2. runs = a.extents BY <1>8, ParsedAreExtents DEF AttrSound
    <3>3. unit(k) = UnitAt(bad, a.extents, pos) BY <3>2
    <3> HIDE DEF pos, unit
    <3> QED BY <1>8, <3>1, <3>3, UnitIs
  <2> HIDE DEF unit
  <2>3. \A k \in 1 .. data : unit(k) # <<>> => unit(k)[1] = a.value[off + k] BY <2>2
  <2>4. bad = {} => ends = {}
    <3>1. ASSUME NEW x PROVE <<x>> # <<>>
      <4>1. 1 \in DOMAIN <<x>> /\ 1 \notin DOMAIN <<>> OBVIOUS
      <4> QED BY <4>1
    <3> QED BY <2>2, <3>1
  <2>5. n \in 0 .. want /\ (bad = {} => n = want) /\ \A k \in 1 .. n : k <= data => unit(k) # <<>>
    <3>1. CASE ends = {}
      <4>1. n = want BY <3>1
      <4>2. \A k \in 1 .. data : unit(k) # <<>> BY <3>1
      <4>3. \A k \in 1 .. want : k <= data => k \in 1 .. data OBVIOUS
      <4> HIDE DEF n, ends
      <4> QED BY <1>3, <1>8, <4>1, <4>2, <4>3
    <3>2. CASE ends # {}
      <4>1. ends \subseteq Nat /\ ends \subseteq 1 .. data BY <1>4, <1>8
      <4> DEFINE m == Min(ends)
      <4>2. m \in ends /\ \A y \in ends : m <= y
        <5> HIDE DEF ends
        <5> QED BY <3>2, <4>1, MinIs
      <4>3. n = m - 1 BY <3>2
      <4>4. \A k \in 1 .. data : k \notin ends => unit(k) # <<>> OBVIOUS
      <4> HIDE DEF n, m, ends
      <4>5. m \in 1 .. data BY <4>1, <4>2
      <4>6. n \in 0 .. want BY <1>3, <1>4, <1>8, <4>3, <4>5
      <4>7. ASSUME NEW k \in 1 .. n, k <= data PROVE unit(k) # <<>>
        <5>1. k \in 1 .. data /\ k < m BY <1>4, <1>8, <4>3, <4>5, <4>7
        <5>2. k \notin ends BY <4>2, <4>5, <5>1
        <5> QED BY <4>4, <5>1, <5>2
      <4> QED BY <2>4, <3>2, <4>6, <4>7
    <3> QED BY <3>1, <3>2
  <2> HIDE DEF n, ends
  <2>6. ASSUME NEW k \in 1 .. n PROVE (IF k <= data THEN unit(k)[1] ELSE ZeroUnit) = a.value[off + k]
    <3>1. CASE k <= data
      <4>1. k \in 1 .. data /\ unit(k) # <<>> BY <1>4, <1>8, <2>5, <2>6, <3>1
      <4> QED BY <2>3, <3>1, <4>1
    <3>2. CASE ~(k <= data)
      <4>1. k \in Nat /\ k <= want /\ data < k BY <1>3, <1>4, <1>8, <2>5, <2>6, <3>2
      <4>2. data = a.init - off BY <1>4, <1>8, <4>1, <1>3
      <4>3. off + k \in a.init + 1 .. a.size BY <1>2, <1>3, <1>8, <4>1, <4>2
      <4>4. a.value[off + k] = ZeroUnit BY <1>8, <4>3 DEF AttrSound
      <4> QED BY <3>2, <4>4
    <3> QED BY <3>1, <3>2
  <2>7. units = [k \in 1 .. n |-> a.value[off + k]] BY <2>1, <2>6, Zenon
  <2> QED BY <1>3, <1>8, <2>5, <2>7
<1>9. off >= a.size \/ off < a.size BY <1>2
<1>10. off >= a.init \/ off < a.init BY <1>2
<1> QED BY <1>5, <1>6, <1>7, <1>8, <1>9, <1>10, Zenon

-----------------------------------------------------------------------------
(***************************************************************************)
(* Lists of entries.                                                       *)
(***************************************************************************)
\* walk_index goes from block to block.
JoinRead(f, first, parts, n) == f = [k \in 0 .. n |-> IF k = 0 THEN first ELSE f[k - 1] \o parts[k]]
JoinSteps(f, first, parts, n) == f[0] = first /\ \A k \in 1 .. n : f[k] = f[k - 1] \o parts[k]
LEMMA JoinIsRead ==
  ASSUME NEW first, NEW parts, Len(parts) \in Nat
  PROVE  \E f : JoinSteps(f, first, parts, Len(parts)) /\ Joined(first, parts) = f[Len(parts)]
<1> DEFINE n == Len(parts)
           K == {m \in 0 .. n : \E f : JoinRead(f, first, parts, m)}
<1>1. 0 \in K
  <2> DEFINE f == [k \in 0 .. 0 |-> first]
  <2>1. JoinRead(f, first, parts, 0) BY DEF JoinRead
  <2> QED BY <2>1
<1>2. ASSUME NEW k \in 1 .. n, k - 1 \in K PROVE k \in K
  <2>1. PICK f : JoinRead(f, first, parts, k - 1) BY <1>2
  <2> DEFINE F == [i \in 0 .. k |-> IF i = k THEN f[k - 1] \o parts[k] ELSE f[i]]
  <2>2. \A i \in 0 .. k - 1 : f[i] = IF i = 0 THEN first ELSE f[i - 1] \o parts[i]
    <3>1. f = [i \in 0 .. k - 1 |-> IF i = 0 THEN first ELSE f[i - 1] \o parts[i]] BY <2>1 DEF JoinRead
    <3> QED BY <3>1, Zenon
  <2>3. \A i \in 0 .. k - 1 : F[i] = f[i] OBVIOUS
  <2>4. F[k] = f[k - 1] \o parts[k]
    <3>1. k \in 0 .. k OBVIOUS
    <3> QED BY <3>1, Zenon
  <2>5. F = [i \in 0 .. k |-> F[i]] OBVIOUS
  <2> HIDE DEF F, K
  <2>6. \A i \in 0 .. k : F[i] = IF i = 0 THEN first ELSE F[i - 1] \o parts[i]
    <3>1. \A i \in 0 .. k - 1 : i # 0 => i - 1 \in 0 .. k - 1 OBVIOUS
    <3>2. \A i \in 0 .. k - 1 : F[i] = IF i = 0 THEN first ELSE F[i - 1] \o parts[i] BY <2>2, <2>3, <3>1, Zenon
    <3>3. k - 1 \in 0 .. k - 1 /\ k # 0 OBVIOUS
    <3>4. F[k] = IF k = 0 THEN first ELSE F[k - 1] \o parts[k] BY <2>3, <2>4, <3>3, Zenon
    <3>5. \A i \in 0 .. k : i \in 0 .. k - 1 \/ i = k OBVIOUS
    <3> QED BY <3>2, <3>4, <3>5, Zenon
  <2>7. JoinRead(F, first, parts, k) BY <2>5, <2>6, Zenon DEF JoinRead
  <2> QED BY <2>7 DEF K
<1>3. n \in Nat OBVIOUS
<1> HIDE DEF K, n
<1>4. \A k \in 0 .. n : k \in K BY <1>1, <1>2, <1>3, Rises
<1>5. n \in K BY <1>3, <1>4
<1>6. \E f : JoinRead(f, first, parts, Len(parts)) BY <1>5 DEF K, n
<1>7. PICK f : JoinRead(f, first, parts, Len(parts)) /\ Joined(first, parts) = f[Len(parts)]
  BY <1>6, Zenon DEF Joined, JoinRead
<1>8. JoinSteps(f, first, parts, Len(parts))
  <2>1. \A i \in 0 .. Len(parts) : f[i] = IF i = 0 THEN first ELSE f[i - 1] \o parts[i]
    <3>1. f = [i \in 0 .. Len(parts) |-> IF i = 0 THEN first ELSE f[i - 1] \o parts[i]] BY <1>7 DEF JoinRead
    <3> QED BY <3>1, Zenon
  <2>2. 0 \in 0 .. Len(parts) /\ \A i \in 1 .. Len(parts) : i \in 0 .. Len(parts) /\ i # 0 OBVIOUS
  <2>3. f[0] = first BY <2>1, <2>2, Zenon
  <2>4. \A i \in 1 .. Len(parts) : f[i] = f[i - 1] \o parts[i] BY <2>1, <2>2, Zenon
  <2> QED BY <2>3, <2>4, Zenon DEF JoinSteps
<1> QED BY <1>7, <1>8

\* A walk cut short saw the start of the whole.
Starts(s, t) == Len(s) <= Len(t) /\ \A i \in 1 .. Len(s) : s[i] = t[i]
LEMMA JoinStarts ==
  ASSUME NEW E, NEW first \in Seq(E), NEW parts, Len(parts) \in Nat, \A k \in 1 .. Len(parts) : parts[k] \in Seq(E),
         NEW m \in 0 .. Len(parts), NEW part, part = [k \in 1 .. m |-> parts[k]]
  PROVE  /\ Joined(first, part) \in Seq(E) /\ Joined(first, parts) \in Seq(E)
         /\ Starts(Joined(first, part), Joined(first, parts))
<1> DEFINE N == Len(parts)
<1>0. Len(part) = m /\ m \in Nat /\ N \in Nat /\ m <= N OBVIOUS
<1>1. PICK f : JoinSteps(f, first, parts, N) /\ Joined(first, parts) = f[N] BY JoinIsRead
<1>2. PICK g : JoinSteps(g, first, part, m) /\ Joined(first, part) = g[m] BY <1>0, JoinIsRead
<1>3. \A k \in 1 .. m : part[k] = parts[k] OBVIOUS
<1> HIDE DEF N
<1>4. \A k \in 0 .. N : f[k] \in Seq(E)
  <2> DEFINE K == {k \in 0 .. N : f[k] \in Seq(E)}
  <2>1. 0 \in K BY <1>0, <1>1 DEF JoinSteps
  <2>2. ASSUME NEW k \in 1 .. N, k - 1 \in K PROVE k \in K
    <3>1. f[k] = f[k - 1] \o parts[k] /\ f[k - 1] \in Seq(E) BY <1>1, <2>2 DEF JoinSteps
    <3>2. parts[k] \in Seq(E) BY DEF N
    <3>3. f[k] \in Seq(E) BY <3>1, <3>2, ConcatProperties
    <3> QED BY <1>0, <3>3
  <2> HIDE DEF K
  <2>3. \A k \in 0 .. N : k \in K BY <1>0, <2>1, <2>2, Rises
  <2> QED BY <2>3 DEF K
<1>5. g[m] = f[m]
  <2> DEFINE K == {k \in 0 .. m : g[k] = f[k]}
  <2>1. 0 \in K BY <1>0, <1>1, <1>2 DEF JoinSteps
  <2>2. ASSUME NEW k \in 1 .. m, k - 1 \in K PROVE k \in K
    <3>1. k \in 1 .. N /\ g[k - 1] = f[k - 1] BY <1>0, <2>2
    <3>2. f[k] = f[k - 1] \o parts[k] BY <1>1, <3>1 DEF JoinSteps
    <3>3. g[k] = g[k - 1] \o part[k] BY <1>2 DEF JoinSteps
    <3>4. g[k] = f[k] BY <1>3, <3>1, <3>2, <3>3
    <3> QED BY <1>0, <3>4
  <2> HIDE DEF K
  <2>3. \A k \in 0 .. m : k \in K BY <1>0, <2>1, <2>2, Rises
  <2>4. m \in K BY <1>0, <2>3
  <2> QED BY <2>4 DEF K
<1>6. Starts(f[m], f[N])
  <2> DEFINE K == {d \in 0 .. N - m : Starts(f[m], f[m + d])}
  <2>0. f[m] \in Seq(E) /\ N - m \in Nat BY <1>0, <1>4
  <2>1. 0 \in K
    <3>1. m + 0 = m /\ 0 \in 0 .. N - m BY <1>0
    <3>2. Starts(f[m], f[m]) BY <2>0 DEF Starts
    <3> QED BY <3>1, <3>2
  <2>2. ASSUME NEW d \in 1 .. N - m, d - 1 \in K PROVE d \in K
    <3> DEFINE a == f[m]
               b == f[m + (d - 1)]
               c == parts[m + d]
    <3>1. m + d \in 1 .. N /\ m + (d - 1) \in 0 .. N BY <1>0
    <3>2. f[m + d] = b \o c
      <4>1. \A j \in 1 .. N : f[j] = f[j - 1] \o parts[j] BY <1>1 DEF JoinSteps
      <4>2. f[m + d] = f[(m + d) - 1] \o parts[m + d] BY <3>1, <4>1, Zenon
      <4>3. (m + d) - 1 = m + (d - 1) BY <1>0
      <4> QED BY <4>2, <4>3, Zenon
    <3>3. a \in Seq(E) /\ b \in Seq(E)
      <4>1. b \in Seq(E) BY <1>4, <3>1, Zenon
      <4> QED BY <2>0, <4>1, Zenon
    <3>4. c \in Seq(E) BY <3>1 DEF N
    <3>5. Starts(a, b) BY <2>2
    <3> HIDE DEF a, b, c
    <3>6. Starts(a, b \o c)
      <4>1. Len(b \o c) = Len(b) + Len(c) /\ Len(b) \in Nat /\ Len(c) \in Nat /\ Len(a) \in Nat BY <3>3, <3>4
      <4>2. \A i \in 1 .. Len(a) : (b \o c)[i] = b[i] BY <3>3, <3>4, <3>5, <4>1, ConcatProperties DEF Starts
      <4> QED BY <3>5, <4>1, <4>2 DEF Starts
    <3>7. Starts(f[m], f[m + d]) BY <3>2, <3>6 DEF a
    <3> QED BY <1>0, <3>7
  <2> HIDE DEF K
  <2>3. \A d \in 0 .. N - m : d \in K BY <2>0, <2>1, <2>2, Rises
  <2>4. N - m \in K /\ m + (N - m) = N BY <1>0, <2>0, <2>3
  <2> QED BY <2>4 DEF K
<1>7. m \in 0 .. N /\ N \in 0 .. N BY <1>0
<1> QED BY <1>1, <1>2, <1>4, <1>5, <1>6, <1>7

-----------------------------------------------------------------------------
(***************************************************************************)
(* The walk of an index.                                                   *)
(***************************************************************************)
\* Blocks follow each other.
LEMMA Apart ==
  ASSUME NEW p \in Nat \ {0}, NEW k \in Nat, NEW m \in Nat
  PROVE  (k < m => k * p + p <= m * p) /\ (k * p < m * p => k < m) /\ m <= m * p /\ k * p \in Nat
<1>1. ASSUME k < m PROVE k * p + p <= m * p
  <2>1. PICK d \in Nat : m = k + 1 + d
    <3>1. m - k - 1 \in Nat /\ m = k + 1 + (m - k - 1) BY <1>1
    <3> QED BY <3>1
  <2>2. m * p = k * p + p + d * p BY <2>1
  <2>3. d * p \in Nat /\ k * p \in Nat OBVIOUS
  <2> QED BY <2>2, <2>3
<1>2. ASSUME ~(k < m) PROVE m * p <= k * p
  <2>1. PICK d \in Nat : k = m + d
    <3>1. k - m \in Nat /\ k = m + (k - m) BY <1>2
    <3> QED BY <3>1
  <2>2. k * p = m * p + d * p BY <2>1
  <2>3. d * p \in Nat /\ m * p \in Nat OBVIOUS
  <2> QED BY <2>2, <2>3
<1>3. m <= m * p
  <2>1. PICK q \in Nat : p = q + 1
    <3>1. p - 1 \in Nat /\ p = (p - 1) + 1 OBVIOUS
    <3> QED BY <3>1
  <2>2. m * p = m * q + m BY <2>1
  <2>3. m * q \in Nat OBVIOUS
  <2> QED BY <2>2, <2>3
<1>4. k * p \in Nat /\ m * p \in Nat OBVIOUS
<1> QED BY <1>1, <1>2, <1>3, <1>4

\* A block read whole is the block of the allocation.
Unread(bad, alloc, k) ==
    LET block == ReadAttr(bad, alloc, (k - 1) * volume.spr, volume.spr) IN
    Len(block) # volume.spr \/ ~Fixed(block, "indx")
Allocated(alloc) ==
    /\ alloc # NoAttr /\ AttrSound(volume, alloc) /\ alloc.init = alloc.size
    /\ BlockCount(volume, alloc) \in Nat /\ alloc.size = BlockCount(volume, alloc) * volume.spr
    /\ \A k \in 1 .. BlockCount(volume, alloc) : BlockLists(volume, alloc)[k] \in Seq(Entry)
LEMMA BlockRead ==
  ASSUME VolumeSound(volume), NEW bad, NEW alloc, Allocated(alloc), NEW k \in 1 .. BlockCount(volume, alloc),
         NEW block, block = ReadAttr(bad, alloc, (k - 1) * volume.spr, volume.spr)
  PROVE  /\ ~Unread(bad, alloc, k) => volume.blocks[block[1].what[2]] = BlockLists(volume, alloc)[k]
         /\ bad = {} /\ IntactBlock(volume, alloc, k) => ~Unread(bad, alloc, k)
<1> DEFINE spr == volume.spr
           count == BlockCount(volume, alloc)
           off == (k - 1) * spr
           unit(i) == BlockUnit(volume, alloc, k, i)
<1>1. spr \in Nat \ {0} /\ count \in Nat /\ alloc.size = count * spr /\ k - 1 \in Nat /\ k - 1 < count
  BY DEF VolumeSound, Allocated
<1>2. off \in Nat /\ off + spr <= alloc.size
  <2> DEFINE j == k - 1
  <2>1. j * spr + spr <= count * spr /\ j * spr \in Nat
    <3> HIDE DEF j, spr, count
    <3> QED BY <1>1, Apart DEF j
  <2> QED BY <1>1, <2>1
<1>3. \A i : unit(i) = alloc.value[off + i] BY DEF BlockUnit
<1>4. block = ReadAttr(bad, alloc, off, spr) /\ (Unread(bad, alloc, k) <=> Len(block) # spr \/ ~Fixed(block, "indx"))
  BY DEF Unread
<1>5. BlockLists(volume, alloc)[k] = volume.blocks[unit(1).what[2]] BY DEF BlockLists, Allocated
<1> HIDE DEF spr, off, count
<1>6. Wanted(alloc, off, spr) = spr
  <2>1. alloc.size \in Nat /\ ~(off >= alloc.size) /\ ~(alloc.size - off < spr)
    BY <1>1, <1>2 DEF Allocated, AttrSound
  <2>2. alloc.size - off = spr \/ ~(alloc.size - off < spr) BY <2>1
  <2>3. Smaller(alloc.size - off, spr) = spr BY <2>1, Zenon DEF Smaller
  <2> QED BY <2>1, <2>3, Zenon DEF Wanted
<1>7. PICK n \in 0 .. spr : block = [i \in 1 .. n |-> alloc.value[off + i]] /\ (bad = {} => n = spr)
  <2>1. AttrSound(volume, alloc) /\ spr \in Nat BY <1>1 DEF Allocated
  <2>2. AsHeld(alloc, off, spr, bad, block) BY <1>2, <1>4, <2>1, AttrRead
  <2> QED BY <1>6, <2>2 DEF AsHeld
<1>8. Len(block) = n /\ DOMAIN block = 1 .. n /\ \A i \in 1 .. n : block[i] = unit(i) BY <1>1, <1>3, <1>7
<1> HIDE DEF unit
<1>9. n = spr => 1 \in 1 .. n BY <1>1
<1>10. ~Unread(bad, alloc, k) => block[1] = unit(1) BY <1>4, <1>8, <1>9
<1>11. ASSUME bad = {}, IntactBlock(volume, alloc, k) PROVE ~Unread(bad, alloc, k)
  <2>1. n = spr BY <1>7, <1>11
  <2>2. \A i \in 1 .. spr : unit(i).what[1] = "indx" /\ unit(i).what = unit(1).what /\ unit(i).part = i /\ unit(i).gen = unit(1).gen
    BY <1>11 DEF IntactBlock, unit, spr
  <2>3. block # <<>>
    <3>1. 1 \in DOMAIN block /\ 1 \notin DOMAIN <<>> BY <1>8, <1>9, <2>1
    <3> QED BY <3>1
  <2>4. \A i \in DOMAIN block : block[i].what[1] = "indx" /\ block[i].what = block[1].what /\ block[i].part = i /\ block[i].gen = block[1].gen
    BY <1>8, <1>9, <2>1, <2>2
  <2>5. Fixed(block, "indx") BY <2>3, <2>4, Zenon DEF Fixed
  <2> QED BY <1>4, <1>8, <2>1, <2>5
<1> QED BY <1>5, <1>10, <1>11

\* A walk is the start of the directory's list, the whole when nothing failed,
\* and goes at least to the first block that is torn.
WalkedParts == \A ok, list : Walked(ok, list).ok = ok /\ Walked(ok, list).list = list
LEMMA WalkedHas == WalkedParts BY Zenon DEF WalkedParts, Walked
WentTo(bad, alloc, first, w, lists) ==
    \E m \in 0 .. Len(lists) :
        /\ w.list = Joined(first, [k \in 1 .. m |-> lists[k]])
        /\ w.ok => m = Len(lists)
        /\ bad = {} => \A u \in 0 .. Len(lists) : (\A k \in 1 .. u : IntactBlock(volume, alloc, k)) => u <= m
LEMMA BlocksWalked ==
  ASSUME VolumeSound(volume), NEW bad, NEW alloc, Allocated(alloc), NEW first \in Seq(Entry),
         NEW w, w = WalkBlocks(bad, first, alloc), NEW lists, lists = BlockLists(volume, alloc)
  PROVE  WentTo(bad, alloc, first, w, lists)
<1> USE DEF WentTo
<1> DEFINE spr == volume.spr
           count == BlockCount(volume, alloc)
           blocks == {k \in 1 .. alloc.size : (k - 1) * spr < alloc.size}
           block(k) == ReadAttr(bad, alloc, (k - 1) * spr, spr)
           fail == {k \in blocks : Len(block(k)) # spr \/ ~Fixed(block(k), "indx")}
           upto == IF fail = {} THEN Max({0} \cup blocks) ELSE Min(fail) - 1
           list(m) == Joined(first, [k \in 1 .. m |-> volume.blocks[block(k)[1].what[2]]])
           done == fail = {}
<1>1. w = Walked(done, list(upto)) BY DEF WalkBlocks
<1>2. spr \in Nat \ {0} /\ count \in Nat /\ alloc.size = count * spr BY DEF VolumeSound, Allocated
<1>3. Len(lists) = count BY <1>2 DEF BlockLists, Allocated
<1>4. \A k \in 1 .. count : /\ ~Unread(bad, alloc, k) => volume.blocks[block(k)[1].what[2]] = lists[k]
                            /\ bad = {} /\ IntactBlock(volume, alloc, k) => ~Unread(bad, alloc, k) BY BlockRead
<1>5. blocks = 1 .. count
  <2>1. ASSUME NEW k \in 1 .. count PROVE k \in blocks
    <3> DEFINE j == k - 1
    <3>1. j \in Nat /\ j < count BY <1>2
    <3> HIDE DEF j
    <3>2. j * spr + spr <= count * spr /\ count <= count * spr /\ j * spr \in Nat
      <4> HIDE DEF spr, count
      <4> QED BY <1>2, <3>1, Apart
    <3> HIDE DEF spr, count
    <3>3. count * spr \in Nat BY <1>2
    <3>4. j * spr < alloc.size /\ k \in 1 .. alloc.size BY <1>2, <3>2, <3>3
    <3> QED BY <3>4 DEF j
  <2>2. ASSUME NEW k \in blocks PROVE k \in 1 .. count
    <3> DEFINE j == k - 1
    <3>1. k \in 1 .. alloc.size /\ j * spr < count * spr /\ alloc.size \in Nat BY <1>2
    <3>2. j \in Nat /\ k \in Nat /\ k >= 1 BY <3>1
    <3> HIDE DEF j, spr, count, blocks
    <3>3. j < count BY <1>2, <3>1, <3>2, Apart
    <3> QED BY <1>2, <3>2, <3>3 DEF j
  <2> HIDE DEF blocks
  <2> QED BY <2>1, <2>2
<1>6. \A k \in blocks : k \in fail <=> Unread(bad, alloc, k) BY DEF Unread
<1>7. fail \subseteq 1 .. count BY <1>5
<1>8. /\ upto \in 0 .. count
      /\ done => upto = count
      /\ \A k \in 1 .. upto : ~Unread(bad, alloc, k)
      /\ ~done => upto + 1 \in 1 .. count /\ Unread(bad, alloc, upto + 1)
  <2> HIDE DEF spr, block
  <2>1. CASE done
    <3> DEFINE S == {0} \cup blocks
    <3>1. S \subseteq 0 .. count /\ S # {} /\ count \in S BY <1>2, <1>5
    <3>2. upto = Max(S) BY <2>1
    <3> HIDE DEF S, count, blocks, fail, upto
    <3>3. Max(S) \in S /\ \A y \in S : y <= Max(S) BY <1>2, <3>1, MaxIs
    <3>4. upto = count
      <4>1. Max(S) \in 0 .. count /\ count <= Max(S) BY <3>1, <3>3
      <4> QED BY <1>2, <3>2, <4>1
    <3>5. \A k \in 1 .. count : ~Unread(bad, alloc, k) BY <1>5, <1>6, <2>1 DEF done
    <3> QED BY <1>2, <2>1, <3>4, <3>5
  <2>2. CASE ~done
    <3> DEFINE m == Min(fail)
    <3>1. upto = m - 1 BY <2>2
    <3> HIDE DEF fail, count, blocks, upto
    <3>2. fail \subseteq Nat /\ fail # {} BY <1>2, <1>7, <2>2 DEF done
    <3>3. m \in fail /\ \A y \in fail : m <= y BY <3>2, MinIs
    <3> HIDE DEF m
    <3>4. m \in 1 .. count /\ upto \in 0 .. count /\ upto + 1 = m BY <1>2, <1>7, <3>1, <3>3
    <3>5. Unread(bad, alloc, m)
      <4>1. m \in blocks BY <1>5, <3>4
      <4> QED BY <1>6, <3>3, <4>1, Zenon
    <3>6. ASSUME NEW k \in 1 .. upto PROVE ~Unread(bad, alloc, k)
      <4>1. k \in 1 .. count /\ k < m BY <1>2, <3>1, <3>4
      <4>2. k \notin fail BY <3>3, <3>4, <4>1
      <4> QED BY <1>5, <1>6, <4>1, <4>2
    <3> QED BY <2>2, <3>4, <3>5, <3>6
  <2> QED BY <2>1, <2>2
<1> HIDE DEF fail, blocks, spr, upto, done
<1>9. w.list = Joined(first, [k \in 1 .. upto |-> lists[k]])
  <2>1. w.list = list(upto) BY <1>1, WalkedHas, Zenon DEF WalkedParts
  <2>2. \A k \in 1 .. upto : volume.blocks[block(k)[1].what[2]] = lists[k]
    <3>1. \A k \in 1 .. upto : k \in 1 .. count BY <1>2, <1>8
    <3> QED BY <1>4, <1>8, <3>1
  <2> HIDE DEF block
  <2>3. [k \in 1 .. upto |-> volume.blocks[block(k)[1].what[2]]] = [k \in 1 .. upto |-> lists[k]] BY <2>2, Zenon
  <2> QED BY <2>1, <2>3
<1>10. w.ok => upto = count
  <2>1. w.ok = done BY <1>1, WalkedHas, Zenon DEF WalkedParts
  <2>2. done => upto = count BY <1>8
  <2> QED BY <2>1, <2>2, Zenon
<1>11. ASSUME bad = {}, NEW u \in 0 .. count, \A k \in 1 .. u : IntactBlock(volume, alloc, k) PROVE u <= upto
  <2>1. SUFFICES ASSUME ~(u <= upto) PROVE FALSE OBVIOUS
  <2>2. upto + 1 \in 1 .. u /\ upto + 1 \in 1 .. count BY <1>2, <1>8, <2>1
  <2>3. ~Unread(bad, alloc, upto + 1) BY <1>4, <1>11, <2>2
  <2>4. ~done /\ upto # count BY <1>2, <1>8, <2>2
  <2> QED BY <1>8, <2>3, <2>4
<1> HIDE DEF count, list
<1> QED BY <1>3, <1>8, <1>9, <1>10, <1>11

\* The walk of a directory of the volume.
FoundParts == \A attr, failed : Found(attr, failed).attr = attr /\ Found(attr, failed).failed = failed
LEMMA FoundHas == FoundParts BY Zenon DEF FoundParts, Found
LEMMA JoinNone ==
  ASSUME NEW first
  PROVE  Joined(first, <<>>) = first
<1> DEFINE none == <<>>
<1>1. Len(none) = 0 OBVIOUS
<1> HIDE DEF none
<1>2. PICK f : JoinSteps(f, first, none, Len(none)) /\ Joined(first, none) = f[Len(none)] BY <1>1, JoinIsRead
<1>3. f[0] = first BY <1>2 DEF JoinSteps
<1> QED BY <1>1, <1>2, <1>3 DEF none

MftMapped == VolumeSound(volume) /\ mftRuns = MftData(volume).extents
LEMMA HomesMapped ==
  ASSUME MftMapped, NEW n \in DOMAIN volume.records
  PROVE  n \in Nat /\ mftRuns \in Extents /\ \A i \in DOMAIN mftRuns : AtHome(volume, mftRuns[i], n)
BY DEF MftMapped, VolumeSound, MftSound, Spelled, Extents

WalkOf(bad, n, list, w) ==
    /\ w.list \in Seq(Entry) /\ Starts(w.list, list)
    /\ w.ok => w.list = list
    /\ bad = {} /\ Intact(volume, n) => \A j \in DOMAIN list : InReach(volume, n, j) => j <= Len(w.list)
LEMMA IndexWalked ==
  ASSUME MftMapped, NEW n, NEW list, DirSound(volume, n, list), NEW bad, NEW w, w = WalkIndex(bad, n)
  PROVE  WalkOf(bad, n, list, w)
<1> DEFINE rec == ReadMftRecord(bad, mftRuns, n)
           theRoot == TheAttr(volume, n, "root")
           theAlloc == TheAttr(volume, n, "alloc")
           lists == BlockLists(volume, theAlloc)
           whole == bad = {} /\ Intact(volume, n)
<1>1. n \in DOMAIN volume.records /\ n \in Nat /\ mftRuns \in Extents /\ VolumeSound(volume) /\ mftRuns = MftData(volume).extents
      /\ \A i \in DOMAIN mftRuns : AtHome(volume, mftRuns[i], n)
  <2>1. n \in DOMAIN volume.records BY DEF DirSound, InOneRecord
  <2> QED BY <2>1, HomesMapped DEF MftMapped
<1>2. rec \in {-1, n} /\ n # -1 BY <1>1, RecordIs
<1>3. whole => rec = n
  <2> SUFFICES ASSUME bad = {}, IntactRecord(volume, n) PROVE rec = n BY DEF Intact
  <2>1. ReadMftRecord({}, mftRuns, n) = n BY <1>1, RecordReads
  <2> QED BY <2>1
<1>4. /\ theRoot # NoAttr /\ theRoot.value \in Seq(Entry)
      /\ list = Joined(theRoot.value, lists)
      /\ InOneRecord(volume, n, "root") /\ InOneRecord(volume, n, "alloc") BY DEF DirSound
<1>5. theAlloc # NoAttr => Allocated(theAlloc)
  <2> SUFFICES ASSUME theAlloc # NoAttr PROVE Allocated(theAlloc) OBVIOUS
  <2>1. AttrSound(volume, theAlloc) /\ volume.spr \in Nat \ {0} BY DEF DirSound, VolumeSound, MftMapped
  <2>2. BlockCount(volume, theAlloc) \in Nat
    <3>1. theAlloc.size \in Nat BY <2>1 DEF AttrSound
    <3> QED BY <2>1, <3>1, Placed DEF BlockCount
  <2> QED BY <2>1, <2>2 DEF Allocated, DirSound
<1>6. (lists = <<>> /\ theAlloc = NoAttr) \/ theAlloc # NoAttr BY DEF BlockLists
<1>7. Len(lists) \in Nat /\ \A k \in 1 .. Len(lists) : lists[k] \in Seq(Entry)
  <2>1. CASE theAlloc = NoAttr BY <1>6, <2>1
  <2>2. CASE theAlloc # NoAttr
    <3>1. Len(lists) = BlockCount(volume, theAlloc) /\ BlockCount(volume, theAlloc) \in Nat
      BY <1>5, <2>2 DEF BlockLists, Allocated
    <3> QED BY <1>5, <2>2, <3>1 DEF Allocated
  <2> QED BY <2>1, <2>2
<1> DEFINE part(m) == [k \in 1 .. m |-> lists[k]]
           first == theRoot.value
<1>8. \A m \in 0 .. Len(lists) : Joined(first, part(m)) \in Seq(Entry) /\ Starts(Joined(first, part(m)), list)
  <2> SUFFICES ASSUME NEW m \in 0 .. Len(lists)
               PROVE Joined(first, part(m)) \in Seq(Entry) /\ Starts(Joined(first, part(m)), list) OBVIOUS
  <2> DEFINE p == part(m)
  <2>1. p = [k \in 1 .. m |-> lists[k]] OBVIOUS
  <2> HIDE DEF p, lists, first
  <2>2. Joined(first, p) \in Seq(Entry) /\ Starts(Joined(first, p), Joined(first, lists))
    <3>1. first \in Seq(Entry) BY <1>4 DEF first
    <3> QED BY <1>7, <2>1, <3>1, JoinStarts
  <2> QED BY <1>4, <2>2 DEF p, first
<1>9. part(Len(lists)) = lists
  <2>1. CASE theAlloc = NoAttr
    <3>1. lists = <<>> BY <1>6, <2>1, Zenon
    <3> HIDE DEF lists
    <3>2. \A e : e = <<>> => [k \in 1 .. Len(e) |-> e[k]] = e OBVIOUS
    <3> QED BY <3>1, <3>2, Zenon
  <2>2. CASE theAlloc # NoAttr
    <3>1. lists = [k \in 1 .. BlockCount(volume, theAlloc) |-> lists[k]] BY <2>2 DEF BlockLists
    <3>2. Len(lists) = BlockCount(volume, theAlloc) BY <1>5, <2>2 DEF BlockLists, Allocated
    <3> HIDE DEF lists
    <3> QED BY <3>1, <3>2
  <2> QED BY <2>1, <2>2
<1> DEFINE root == FindAttrExt(bad, rec, "root").attr
           alloc == FindAttrExt(bad, rec, "alloc")
           gone == Walked(FALSE, <<>>)
<1>10. w = IF rec = -1 THEN gone
           ELSE IF root = NoAttr THEN gone
           ELSE IF alloc.attr = NoAttr THEN Walked(~alloc.failed, root.value)
           ELSE WalkBlocks(bad, root.value, alloc.attr) BY DEF WalkIndex
<1>11. rec # -1 => (root = theRoot \/ root = NoAttr) /\ (whole => root = theRoot)
  <2> SUFFICES ASSUME rec # -1 PROVE (root = theRoot \/ root = NoAttr) /\ (whole => root = theRoot) OBVIOUS
  <2> DEFINE found == FindAttrExt(bad, n, "root")
  <2>1. (found = Found(theRoot, FALSE) \/ found = Found(NoAttr, TRUE)) /\ (whole => found = Found(theRoot, FALSE))
    BY <1>1, <1>4, AttrFound
  <2>2. root = found.attr BY <1>2
  <2> HIDE DEF found, theRoot, root, whole
  <2> QED BY <2>1, <2>2, FoundHas, Zenon DEF FoundParts
<1>12. rec # -1 => \/ alloc.attr = theAlloc /\ alloc.failed = FALSE
                   \/ alloc.attr = NoAttr /\ alloc.failed = TRUE /\ ~whole
  <2> SUFFICES ASSUME rec # -1
               PROVE  \/ alloc.attr = theAlloc /\ alloc.failed = FALSE
                      \/ alloc.attr = NoAttr /\ alloc.failed = TRUE /\ ~whole OBVIOUS
  <2> DEFINE found == FindAttrExt(bad, n, "alloc")
  <2>1. (found = Found(theAlloc, FALSE) \/ found = Found(NoAttr, TRUE)) /\ (whole => found = Found(theAlloc, FALSE))
    BY <1>1, <1>4, AttrFound
  <2>2. alloc = found BY <1>2
  <2> HIDE DEF found, theAlloc, alloc, whole
  <2>3. CASE found = Found(theAlloc, FALSE) BY <2>2, <2>3, FoundHas, ZenonT(60) DEF FoundParts
  <2>4. CASE found = Found(NoAttr, TRUE)
    <3>1. found.attr = NoAttr /\ found.failed = TRUE BY <2>4, FoundHas, ZenonT(60) DEF FoundParts
    <3>2. whole => found.failed = FALSE BY <2>1, FoundHas, ZenonT(60) DEF FoundParts
    <3> QED BY <2>2, <3>1, <3>2, ZenonT(60)
  <2> QED BY <2>1, <2>3, <2>4, ZenonT(60)
<1> DEFINE AllReached == \A j \in DOMAIN list : InReach(volume, n, j) => j <= Len(w.list)
<1>13. WalkOf(bad, n, list, w) <=> /\ w.list \in Seq(Entry) /\ Starts(w.list, list)
                                   /\ w.ok => w.list = list
                                   /\ whole => AllReached BY Zenon DEF WalkOf
<1>14. first \in Seq(Entry) /\ Starts(first, list)
  <2>1. part(0) = <<>> /\ 0 \in 0 .. Len(lists) BY <1>7
  <2>2. Joined(first, <<>>) = first BY JoinNone
  <2> QED BY <1>8, <2>1, <2>2
<1>15. CASE w = gone /\ ~whole
  <2>1. w.list = <<>> /\ w.ok = FALSE BY <1>15, WalkedHas, Zenon DEF WalkedParts
  <2>2. <<>> \in Seq(Entry) /\ Starts(<<>>, list)
    <3>1. list \in Seq(Entry) BY DEF DirSound
    <3> QED BY <3>1 DEF Starts
  <2> QED BY <1>13, <1>15, <2>1, <2>2, Zenon
<1>16. CASE rec # -1 /\ root = theRoot /\ alloc.attr = NoAttr
  <2>1. w = Walked(~alloc.failed, first) BY <1>4, <1>10, <1>16, Zenon
  <2>2. w.list = first /\ (w.ok => ~alloc.failed)
    <3> DEFINE k == ~alloc.failed
    <3>1. w = Walked(k, first) BY <2>1
    <3> HIDE DEF k, first, alloc
    <3>2. Walked(k, first).ok = k /\ Walked(k, first).list = first BY WalkedHas, Zenon DEF WalkedParts
    <3>3. w.ok = k /\ w.list = first BY <3>1, <3>2, Zenon
    <3> QED BY <3>3, Zenon DEF k
  <2>3. ~alloc.failed => theAlloc = NoAttr BY <1>12, <1>16, Zenon
  <2>4. theAlloc = NoAttr => list = first
    <3>1. theAlloc = NoAttr => lists = <<>> BY <1>6
    <3> QED BY <1>4, <3>1, JoinNone, Zenon
  <2>5. whole => theAlloc = NoAttr BY <1>12, <1>16, Zenon
  <2>6. list = first => AllReached
    <3>1. first \in Seq(Entry) => \A j \in DOMAIN first : j <= Len(first) OBVIOUS
    <3> QED BY <1>14, <2>2, <3>1
  <2> HIDE DEF AllReached, whole, first, theAlloc, alloc
  <2> QED BY <1>13, <1>14, <2>2, <2>3, <2>4, <2>5, <2>6, Zenon
<1>17. CASE rec # -1 /\ root = theRoot /\ alloc.attr # NoAttr
  <2>1. alloc.attr = theAlloc /\ theAlloc # NoAttr BY <1>12, <1>17, Zenon
  <2>2. w = WalkBlocks(bad, first, theAlloc) BY <1>4, <1>10, <1>17, <2>1, Zenon
  <2>3. PICK m \in 0 .. Len(lists) :
            /\ w.list = Joined(first, part(m))
            /\ w.ok => m = Len(lists)
            /\ bad = {} => \A u \in 0 .. Len(lists) : (\A k \in 1 .. u : IntactBlock(volume, theAlloc, k)) => u <= m
    <3>1. Allocated(theAlloc) BY <1>5, <2>1
    <3>2. WentTo(bad, theAlloc, first, w, lists)
      <4>1. lists = BlockLists(volume, theAlloc) OBVIOUS
      <4> HIDE DEF theAlloc, first, lists
      <4> QED BY <1>1, <1>14, <2>2, <3>1, <4>1, BlocksWalked
    <3> QED BY <3>2, Zenon DEF WentTo
  <2>4. w.list \in Seq(Entry) /\ Starts(w.list, list) BY <1>8, <2>3
  <2>5. w.ok => w.list = list
    <3>1. w.ok => w.list = Joined(first, part(Len(lists))) BY <2>3, Zenon
    <3> HIDE DEF part, lists, first
    <3> QED BY <1>4, <1>9, <3>1, Zenon DEF first
  <2>6. whole => AllReached
    <3> SUFFICES ASSUME bad = {}, NEW j \in DOMAIN list, InReach(volume, n, j) PROVE j <= Len(w.list) OBVIOUS
    <3>1. PICK u \in 0 .. Len(lists) : /\ \A k \in 1 .. u : IntactBlock(volume, theAlloc, k)
                                       /\ j <= Len(Joined(first, part(u))) BY Zenon DEF InReach
    <3>2. u <= m BY <2>3, <3>1
    <3> DEFINE p == part(m)
               q == part(u)
    <3>3. Len(p) = m /\ (\A k \in 1 .. m : p[k] = lists[k]) /\ u \in 0 .. m /\ q = [k \in 1 .. u |-> p[k]] BY <1>7, <3>2
    <3> HIDE DEF p, q, lists, first
    <3>4. Starts(Joined(first, q), Joined(first, p))
      <4>1. \A k \in 1 .. m : p[k] \in Seq(Entry) BY <1>7, <3>3
      <4>2. Len(p) \in Nat /\ u \in 0 .. Len(p) /\ \A k \in 1 .. Len(p) : p[k] \in Seq(Entry) BY <1>7, <3>3, <4>1
      <4>3. q = [k \in 1 .. u |-> p[k]] BY <3>3
      <4> QED BY <1>14, <4>2, <4>3, JoinStarts
    <3>5. Len(Joined(first, q)) <= Len(Joined(first, p)) BY <3>4 DEF Starts
    <3>6. Len(Joined(first, q)) \in Nat /\ Len(Joined(first, p)) \in Nat
      <4>1. Joined(first, q) \in Seq(Entry) /\ Joined(first, p) \in Seq(Entry) BY <1>8 DEF p, q
      <4> QED BY <4>1
    <3>7. j \in Nat
      <4>1. list \in Seq(Entry) BY DEF DirSound
      <4> QED BY <4>1
    <3>8. w.list = Joined(first, p) BY <2>3 DEF p
    <3> QED BY <3>1, <3>5, <3>6, <3>7, <3>8 DEF q
  <2> HIDE DEF AllReached, whole
  <2> QED BY <1>13, <2>4, <2>5, <2>6, Zenon
<1>18. rec = -1 => w = gone /\ ~whole BY <1>2, <1>3, <1>10, Zenon
<1>19. rec # -1 /\ root # theRoot => w = gone /\ ~whole
  <2>1. rec # -1 /\ root # theRoot => root = NoAttr /\ ~whole BY <1>11, Zenon
  <2> QED BY <1>10, <2>1, Zenon
<1> QED BY <1>15, <1>16, <1>17, <1>18, <1>19, Zenon

-----------------------------------------------------------------------------
(***************************************************************************)
(* Paths.                                                                  *)
(***************************************************************************)
\* ntfs_resolve goes from directory to directory.
PathRead(f, bad, path, n) ==
    f = [k \in 0 .. n |-> IF k = 0 THEN Spot(MFT_REC_ROOT, TRUE) ELSE Entered(bad, f[k - 1], path[k])]
PathSteps(f, bad, path, n) ==
    f[0] = Spot(MFT_REC_ROOT, TRUE) /\ \A k \in 1 .. n : f[k] = Entered(bad, f[k - 1], path[k])
LEMMA PathIsRead ==
  ASSUME NEW bad, NEW path, Len(path) \in Nat
  PROVE  \E f : PathSteps(f, bad, path, Len(path)) /\ Resolve(bad, path) = f[Len(path)]
<1> DEFINE n == Len(path)
           top == Spot(MFT_REC_ROOT, TRUE)
           Following(c, k) == Entered(bad, c, path[k])
           K == {m \in 0 .. n : \E f : PathRead(f, bad, path, m)}
<1>1. 0 \in K
  <2> DEFINE f == [k \in 0 .. 0 |-> top]
  <2>1. f = [k \in 0 .. 0 |-> IF k = 0 THEN top ELSE Following(f[k - 1], k)] OBVIOUS
  <2>2. PathRead(f, bad, path, 0) BY <2>1, Zenon DEF PathRead
  <2> QED BY <2>2
<1>2. ASSUME NEW k \in 1 .. n, k - 1 \in K PROVE k \in K
  <2>1. PICK f : PathRead(f, bad, path, k - 1) BY <1>2
  <2> HIDE DEF Following, top
  <2> DEFINE F == [i \in 0 .. k |-> IF i = k THEN Following(f[k - 1], k) ELSE f[i]]
  <2>2. \A i \in 0 .. k - 1 : f[i] = IF i = 0 THEN top ELSE Following(f[i - 1], i)
    <3>1. f = [i \in 0 .. k - 1 |-> IF i = 0 THEN top ELSE Following(f[i - 1], i)] BY <2>1, Zenon DEF PathRead, Following, top
    <3> QED BY <3>1, Zenon
  <2>3. \A i \in 0 .. k - 1 : F[i] = f[i] OBVIOUS
  <2>4. F[k] = Following(f[k - 1], k)
    <3>1. k \in 0 .. k OBVIOUS
    <3> QED BY <3>1, Zenon
  <2>5. F = [i \in 0 .. k |-> F[i]] OBVIOUS
  <2> HIDE DEF F, K
  <2>6. \A i \in 0 .. k : F[i] = IF i = 0 THEN top ELSE Following(F[i - 1], i)
    <3>1. \A i \in 0 .. k - 1 : i # 0 => i - 1 \in 0 .. k - 1 OBVIOUS
    <3>2. \A i \in 0 .. k - 1 : F[i] = IF i = 0 THEN top ELSE Following(F[i - 1], i) BY <2>2, <2>3, <3>1, Zenon
    <3>3. k - 1 \in 0 .. k - 1 /\ k # 0 OBVIOUS
    <3>4. F[k] = IF k = 0 THEN top ELSE Following(F[k - 1], k) BY <2>3, <2>4, <3>3, Zenon
    <3>5. \A i \in 0 .. k : i \in 0 .. k - 1 \/ i = k OBVIOUS
    <3> QED BY <3>2, <3>4, <3>5, Zenon
  <2>7. PathRead(F, bad, path, k) BY <2>5, <2>6, Zenon DEF PathRead, Following, top
  <2> QED BY <2>7 DEF K
<1>3. n \in Nat OBVIOUS
<1> HIDE DEF K, n
<1>4. \A k \in 0 .. n : k \in K BY <1>1, <1>2, <1>3, Rises
<1>5. n \in K BY <1>3, <1>4
<1>6. \E f : PathRead(f, bad, path, Len(path)) BY <1>5 DEF K, n
<1>7. PICK f : PathRead(f, bad, path, Len(path)) /\ Resolve(bad, path) = f[Len(path)]
  BY <1>6, Zenon DEF Resolve, PathRead
<1>8. PathSteps(f, bad, path, Len(path))
  <2> HIDE DEF Following, top
  <2>1. \A i \in 0 .. Len(path) : f[i] = IF i = 0 THEN top ELSE Following(f[i - 1], i)
    <3>1. f = [i \in 0 .. Len(path) |-> IF i = 0 THEN top ELSE Following(f[i - 1], i)]
      BY <1>7, Zenon DEF PathRead, Following, top
    <3> QED BY <3>1, Zenon
  <2>2. 0 \in 0 .. Len(path) /\ \A i \in 1 .. Len(path) : i \in 0 .. Len(path) /\ i # 0 OBVIOUS
  <2>3. f[0] = top BY <2>1, <2>2, Zenon
  <2>4. \A i \in 1 .. Len(path) : f[i] = Following(f[i - 1], i) BY <2>1, <2>2, Zenon
  <2> QED BY <2>3, <2>4, Zenon DEF PathSteps, Following, top
<1> QED BY <1>7, <1>8

\* The size of a file whose records are intact can be told.
SpotParts == \A ref, dir : Spot(ref, dir).ref = ref /\ Spot(ref, dir).dir = dir
LEMMA SpotHas == SpotParts BY Zenon DEF SpotParts, Spot
LEMMA SizeTold ==
  ASSUME MftMapped, NEW n, InOneRecord(volume, n, "data"), Intact(volume, n)
  PROVE  SizeFits({}, n)
<1> DEFINE bad == {}
           found == FindAttrExt(bad, n, "data")
<1>1. n \in DOMAIN volume.records BY DEF InOneRecord
<1>2. n # -1 /\ mftRuns \in Extents /\ VolumeSound(volume) /\ mftRuns = MftData(volume).extents
  BY <1>1, HomesMapped DEF MftMapped
<1>3. ReadMftRecord(bad, mftRuns, n) = n BY <1>1, <1>2, RecordReads DEF Intact
<1>4. bad = {} OBVIOUS
<1> HIDE DEF bad
<1>5. found = Found(TheAttr(volume, n, "data"), FALSE) BY <1>2, <1>4, AttrFound
<1>6. found.failed = FALSE BY <1>5, FoundHas, Zenon DEF FoundParts
<1>7. SizeFits(bad, n) BY <1>2, <1>3, <1>6, Zenon DEF SizeFits
<1> QED BY <1>4, <1>7

\* What the volume says a path leads to.
Along(path, k) == volume.nodes[Above(path, k)]
Lost == Spot(0, FALSE)
OnTheWay(path) ==
    /\ Len(path) \in Nat /\ Above(path, 0) = <<>> /\ Above(path, Len(path)) = path
    /\ \A k \in 1 .. Len(path) :
        /\ Along(path, k - 1).dir
        /\ Above(path, k - 1) \in DOMAIN volume.entries
        /\ DirSound(volume, Along(path, k - 1).ref, volume.entries[Above(path, k - 1)])
        /\ \E j \in DOMAIN volume.entries[Above(path, k - 1)] :
            LET e == volume.entries[Above(path, k - 1)][j] IN
            /\ e.name = path[k] /\ Along(path, k) = Spot(e.ref, e.dir)
            /\ path \notin volume.torn => InReach(volume, Along(path, k - 1).ref, j)
LEMMA PathKnown ==
  ASSUME VolumeSound(volume), NEW path \in DOMAIN volume.nodes
  PROVE  OnTheWay(path)
<1>1. PathSound(volume, path) BY DEF VolumeSound
<1>2. path = [k \in 1 .. Len(path) |-> path[k]] /\ Len(path) \in Nat BY <1>1 DEF PathSound
<1>3. Above(path, 0) = <<>> /\ Above(path, Len(path)) = path BY <1>2 DEF Above
<1>4. ASSUME NEW k \in 1 .. Len(path)
      PROVE  /\ Along(path, k - 1).dir /\ Above(path, k - 1) \in DOMAIN volume.entries
             /\ DirSound(volume, Along(path, k - 1).ref, volume.entries[Above(path, k - 1)])
             /\ \E j \in DOMAIN volume.entries[Above(path, k - 1)] :
                    LET e == volume.entries[Above(path, k - 1)][j] IN
                    /\ e.name = path[k] /\ Along(path, k) = Spot(e.ref, e.dir)
                    /\ path \notin volume.torn => InReach(volume, Along(path, k - 1).ref, j)
  <2>1. StepSound(volume, path, k) BY <1>1 DEF PathSound
  <2>2. Above(path, k - 1) \in DOMAIN volume.entries BY <2>1 DEF StepSound
  <2>3. DirSound(volume, Along(path, k - 1).ref, volume.entries[Above(path, k - 1)]) BY <2>2 DEF VolumeSound, Along
  <2> QED BY <2>1, <2>2, <2>3, Zenon DEF StepSound, Along
<1> QED BY <1>2, <1>3, <1>4, Zenon DEF OnTheWay

\* A name of a directory is found as the volume has it, or not at all; and it
\* is found when no sector fails and no crash tore what leads to it.
LEMMA NameEntered ==
  ASSUME MftMapped, NEW path \in DOMAIN volume.nodes, NEW k \in 1 .. Len(path), NEW bad,
         NEW got, got = Entered(bad, Along(path, k - 1), path[k])
  PROVE  /\ got \in {Along(path, k), Lost}
         /\ /\ bad = {} /\ path \notin volume.torn /\ Intact(volume, Along(path, k - 1).ref)
            /\ Along(path, k).dir \/ SizeFits(bad, Along(path, k).ref)
            => got = Along(path, k)
<1> DEFINE cur == Along(path, k - 1)
           full == volume.entries[Above(path, k - 1)]
           w == WalkIndex(bad, cur.ref)
           list == w.list
           name == path[k]
           named == {j \in DOMAIN list : list[j].name = name}
           e == list[Min(named)]
           whole == bad = {} /\ path \notin volume.torn /\ Intact(volume, cur.ref)
<1>1. got = IF ~cur.dir THEN Lost ELSE IF named = {} THEN Lost
            ELSE IF ~e.dir /\ ~SizeFits(bad, e.ref) THEN Lost ELSE Spot(e.ref, e.dir) BY DEF Entered, EnteredIn, Lost
<1>2. OnTheWay(path) BY PathKnown DEF MftMapped
<1>3. cur.dir /\ DirSound(volume, cur.ref, full) BY <1>2 DEF OnTheWay
<1>4. PICK j \in DOMAIN full : /\ full[j].name = name /\ Along(path, k) = Spot(full[j].ref, full[j].dir)
                               /\ path \notin volume.torn => InReach(volume, cur.ref, j) BY <1>2, Zenon DEF OnTheWay
<1> HIDE DEF cur, full, name
<1>5. WalkOf(bad, cur.ref, full, w) BY <1>3, IndexWalked
<1>6. full \in Seq(Entry) /\ \A i, l \in DOMAIN full : full[i].name = full[l].name => i = l BY <1>3 DEF DirSound
<1> HIDE DEF w
<1>7. /\ list \in Seq(Entry) /\ DOMAIN list = 1 .. Len(list) /\ Len(list) \in Nat /\ Len(list) <= Len(full)
      /\ \A i \in DOMAIN list : list[i] = full[i] /\ i \in DOMAIN full
  <2>1. list \in Seq(Entry) /\ Len(list) <= Len(full) /\ \A i \in 1 .. Len(list) : list[i] = full[i]
    BY <1>5 DEF WalkOf, Starts
  <2>2. DOMAIN list = 1 .. Len(list) /\ Len(list) \in Nat /\ DOMAIN full = 1 .. Len(full) /\ Len(full) \in Nat
    BY <1>6, <2>1
  <2> QED BY <2>1, <2>2
<1>8. \A i \in named : i = j BY <1>4, <1>6, <1>7
<1>9. named # {} => Min(named) = j
  <2>1. named \subseteq Nat BY <1>7
  <2> HIDE DEF named
  <2> QED BY <1>8, <2>1, MinIs
<1>10. j \in DOMAIN list => j \in named BY <1>4, <1>7
<1> HIDE DEF list, named
<1>11. named # {} => e = full[j]
  <2>1. named # {} => j \in named BY <1>8
  <2>2. j \in named => j \in DOMAIN list BY DEF named
  <2> QED BY <1>7, <1>9, <2>1, <2>2
<1> HIDE DEF e
<1>12. named # {} => Spot(e.ref, e.dir) = Along(path, k) BY <1>4, <1>11, Zenon
<1>13. got \in {Along(path, k), Lost}
  <2> DEFINE fits == SizeFits(bad, e.ref)
             there == Along(path, k)
  <2> HIDE DEF fits, there
  <2>1. got = IF ~cur.dir THEN Lost ELSE IF named = {} THEN Lost
              ELSE IF ~e.dir /\ ~fits THEN Lost ELSE Spot(e.ref, e.dir) BY <1>1 DEF fits
  <2>2. CASE named = {}
    <3>1. got = Lost BY <2>1, <2>2, Zenon
    <3> QED BY <3>1
  <2>3. CASE named # {}
    <3>1. got = IF ~cur.dir THEN Lost ELSE IF ~e.dir /\ ~fits THEN Lost ELSE there
      BY <1>12, <2>1, <2>3, Zenon DEF there
    <3>2. got = Lost \/ got = there BY <3>1, Zenon
    <3> QED BY <3>2 DEF there
  <2> QED BY <2>2, <2>3
<1>14. ASSUME bad = {}, path \notin volume.torn, Intact(volume, cur.ref)
       PROVE  named # {}
  <2>1. InReach(volume, cur.ref, j) BY <1>4, <1>14
  <2>2. j <= Len(w.list) BY <1>5, <1>14, <2>1 DEF WalkOf
  <2>3. j \in 1 .. Len(full) BY <1>6
  <2>4. j \in DOMAIN list BY <1>7, <2>2, <2>3 DEF list
  <2> QED BY <1>10, <2>4
<1>15. Along(path, k).ref = full[j].ref /\ Along(path, k).dir = full[j].dir
  <2>1. Along(path, k) = Spot(full[j].ref, full[j].dir) BY <1>4, Zenon
  <2>2. Spot(full[j].ref, full[j].dir).ref = full[j].ref /\ Spot(full[j].ref, full[j].dir).dir = full[j].dir
    BY SpotHas, Zenon DEF SpotParts
  <2> QED BY <2>1, <2>2, Zenon
<1>16. ASSUME bad = {}, path \notin volume.torn, Intact(volume, cur.ref),
              Along(path, k).dir \/ SizeFits(bad, Along(path, k).ref)
       PROVE  got = Along(path, k)
  <2>1. named # {} BY <1>14, <1>16
  <2>2. e.dir \/ SizeFits(bad, e.ref)
    <3>1. e.dir = Along(path, k).dir /\ e.ref = Along(path, k).ref BY <1>11, <1>15, <2>1, Zenon
    <3> QED BY <1>16, <3>1, Zenon
  <2> QED BY <1>1, <1>3, <1>12, <2>1, <2>2, Zenon
<1> QED BY <1>13, <1>16, Zenon DEF cur

\* A path is resolved to what the volume says, or not at all.
ResolvesWell(bad, path) ==
    /\ bad = {} /\ path \notin volume.torn
    /\ \A k \in 0 .. Len(path) : Intact(volume, Along(path, k).ref)
    /\ volume.nodes[path].dir \/ InOneRecord(volume, volume.nodes[path].ref, "data")
LEMMA Resolved ==
  ASSUME MftMapped, NEW path \in DOMAIN volume.nodes, NEW bad, NEW got, got = Resolve(bad, path)
  PROVE  got \in {volume.nodes[path], Lost} /\ (ResolvesWell(bad, path) => got = volume.nodes[path])
<1> DEFINE n == Len(path)
<1>1. OnTheWay(path) BY PathKnown DEF MftMapped
<1>2. n \in Nat /\ Along(path, n) = volume.nodes[path] /\ Along(path, 0) = Spot(MFT_REC_ROOT, TRUE)
  BY <1>1 DEF OnTheWay, Along, MftMapped, VolumeSound
<1>3. PICK f : PathSteps(f, bad, path, n) /\ got = f[n] BY <1>2, PathIsRead
<1> HIDE DEF n
<1>4. \A k \in 0 .. n : f[k] \in {Along(path, k), Lost}
  <2> DEFINE K == {k \in 0 .. n : f[k] \in {Along(path, k), Lost}}
  <2>1. 0 \in K
    <3>1. f[0] = Along(path, 0) BY <1>2, <1>3, Zenon DEF PathSteps
    <3>2. 0 \in 0 .. n BY <1>2
    <3> QED BY <3>1, <3>2, Zenon
  <2>2. ASSUME NEW k \in 1 .. n, k - 1 \in K PROVE k \in K
    <3>1. f[k] = Entered(bad, f[k - 1], path[k]) /\ k \in 0 .. n BY <1>2, <1>3 DEF PathSteps
    <3>2. CASE f[k - 1] = Lost
      <4>1. Entered(bad, Lost, path[k]) = Lost
        <5>1. Lost.dir = FALSE BY SpotHas, Zenon DEF SpotParts, Lost
        <5> QED BY <5>1, Zenon DEF Entered, EnteredIn, Lost
      <4> QED BY <3>1, <3>2, <4>1
    <3>3. CASE f[k - 1] = Along(path, k - 1)
      <4>1. k \in 1 .. Len(path) BY DEF n
      <4>2. f[k] \in {Along(path, k), Lost} BY <3>1, <3>3, <4>1, NameEntered
      <4> QED BY <3>1, <4>2
    <3> QED BY <2>2, <3>2, <3>3
  <2> HIDE DEF K
  <2>3. \A k \in 0 .. n : k \in K BY <1>2, <2>1, <2>2, Rises
  <2> QED BY <2>3 DEF K
<1>5. ASSUME ResolvesWell(bad, path) PROVE \A k \in 0 .. n : f[k] = Along(path, k)
  <2> DEFINE K == {k \in 0 .. n : f[k] = Along(path, k)}
  <2>1. 0 \in K
    <3>1. f[0] = Along(path, 0) BY <1>2, <1>3, Zenon DEF PathSteps
    <3>2. 0 \in 0 .. n BY <1>2
    <3> QED BY <3>1, <3>2, Zenon
  <2>2. ASSUME NEW k \in 1 .. n, k - 1 \in K PROVE k \in K
    <3>1. f[k] = Entered(bad, Along(path, k - 1), path[k]) /\ k \in 0 .. n BY <1>2, <1>3, <2>2 DEF PathSteps
    <3>2. bad = {} /\ path \notin volume.torn /\ Intact(volume, Along(path, k - 1).ref) /\ Intact(volume, Along(path, k).ref)
      <4>1. k \in 0 .. Len(path) /\ k - 1 \in 0 .. Len(path) BY <1>2 DEF n
      <4> QED BY <1>5, <4>1 DEF ResolvesWell
    <3>3. Along(path, k).dir \/ SizeFits(bad, Along(path, k).ref)
      <4>1. CASE k = n
        <5>1. Along(path, k) = volume.nodes[path] BY <1>2, <4>1
        <5>2. Along(path, k).dir \/ InOneRecord(volume, Along(path, k).ref, "data") BY <1>5, <5>1, Zenon DEF ResolvesWell
        <5> QED BY <3>2, <5>2, SizeTold
      <4>2. CASE k # n
        <5> DEFINE j == k + 1
        <5>1. j \in 1 .. Len(path) /\ j - 1 = k BY <1>2, <4>2 DEF n
        <5> HIDE DEF j
        <5>2. Along(path, j - 1).dir BY <1>1, <5>1, Zenon DEF OnTheWay
        <5> QED BY <5>1, <5>2
      <4> QED BY <4>1, <4>2
    <3>4. k \in 1 .. Len(path) BY DEF n
    <3>5. f[k] = Along(path, k) BY <3>1, <3>2, <3>3, <3>4, NameEntered
    <3> QED BY <3>1, <3>5
  <2> HIDE DEF K
  <2>3. \A k \in 0 .. n : k \in K BY <1>2, <2>1, <2>2, Rises
  <2> QED BY <2>3 DEF K
<1>6. n \in 0 .. n BY <1>2
<1> QED BY <1>2, <1>3, <1>4, <1>5, <1>6

-----------------------------------------------------------------------------
(***************************************************************************)
(* A listing counts the entries it shows.                                  *)
(***************************************************************************)
VisibleIn(list) == {j \in DOMAIN list : ~list[j].hidden}
Before(list, j) == {i \in VisibleIn(list) : i < j}
Rank(list, j) == Cardinality(Before(list, j))

\* The entries before one are as many as it has visible ones before it.
LEMMA RankMoves ==
  ASSUME NEW list \in Seq(Entry)
  PROVE  /\ Rank(list, 1) = 0
         /\ \A j \in 1 .. Len(list) : /\ Rank(list, j) \in Nat
                                      /\ Rank(list, j + 1) = IF j \in VisibleIn(list) THEN Rank(list, j) + 1 ELSE Rank(list, j)
<1> DEFINE V == VisibleIn(list)
<1>1. V \subseteq 1 .. Len(list) /\ Len(list) \in Nat BY DEF VisibleIn
<1>2. IsFiniteSet(1 .. Len(list)) BY <1>1, FS_Interval
<1>3. IsFiniteSet(V) BY <1>1, <1>2, FS_Subset
<1> HIDE DEF V
<1>4. Rank(list, 1) = 0
  <2>1. Before(list, 1) = {} BY <1>1 DEF Before, V
  <2> QED BY <2>1, FS_EmptySet DEF Rank
<1>5. ASSUME NEW j \in 1 .. Len(list)
      PROVE  /\ Rank(list, j) \in Nat
             /\ Rank(list, j + 1) = IF j \in V THEN Rank(list, j) + 1 ELSE Rank(list, j)
  <2> DEFINE B == Before(list, j)
             next == Before(list, j + 1)
  <2>1. B \subseteq V BY DEF Before, V
  <2>2. IsFiniteSet(B) BY <1>3, <2>1, FS_Subset
  <2>3. Cardinality(B) \in Nat BY <2>2, FS_CardinalityType
  <2>4. j \notin B BY <1>1 DEF Before
  <2>5. next = IF j \in V THEN B \cup {j} ELSE B BY <1>1 DEF Before, V
  <2> HIDE DEF B, next
  <2>6. Cardinality(B \cup {j}) = Cardinality(B) + 1 BY <2>2, <2>4, FS_AddElement
  <2>7. Cardinality(next) = IF j \in V THEN Cardinality(B) + 1 ELSE Cardinality(B) BY <2>5, <2>6
  <2> QED BY <2>3, <2>7 DEF Rank, B, next
<1> QED BY <1>4, <1>5 DEF V

\* The n-th visible entry is one.
LEMMA OneNth ==
  ASSUME NEW list \in Seq(Entry), NEW n, NEW i \in Nth(list, n), NEW j \in Nth(list, n)
  PROVE  i = j
<1>1. ASSUME NEW x \in VisibleIn(list), NEW y \in VisibleIn(list), x < y PROVE Rank(list, x) < Rank(list, y)
  <2> DEFINE after == Before(list, x + 1)
             B == Before(list, y)
  <2>1. VisibleIn(list) \subseteq 1 .. Len(list) /\ Len(list) \in Nat BY DEF VisibleIn
  <2>2. IsFiniteSet(1 .. Len(list)) BY <2>1, FS_Interval
  <2>3. B \subseteq 1 .. Len(list) /\ after \subseteq B BY <1>1, <2>1 DEF Before
  <2> HIDE DEF after, B
  <2>4. IsFiniteSet(B) BY <2>2, <2>3, FS_Subset
  <2>5. Cardinality(after) <= Cardinality(B) /\ Cardinality(after) \in Nat /\ Cardinality(B) \in Nat
    <3>1. IsFiniteSet(after) /\ Cardinality(after) <= Cardinality(B) BY <2>3, <2>4, FS_Subset
    <3> QED BY <2>4, <3>1, FS_CardinalityType
  <2>6. x \in 1 .. Len(list) BY <2>1
  <2>7. Cardinality(after) = Rank(list, x) + 1 /\ Rank(list, x) \in Nat BY <2>6, RankMoves DEF after, Rank
  <2> QED BY <2>5, <2>7 DEF B, Rank
<1>2. i \in VisibleIn(list) /\ j \in VisibleIn(list) /\ Rank(list, i) = n /\ Rank(list, j) = n
  BY DEF Nth, VisibleIn, Rank, Before
<1>3. i \in Nat /\ j \in Nat BY <1>2 DEF VisibleIn
<1>4. ~(i < j)
  <2>1. SUFFICES ASSUME i < j PROVE FALSE OBVIOUS
  <2>2. n < n BY <1>1, <1>2, <2>1
  <2>3. n \in Nat
    <3>1. i \in 1 .. Len(list) BY <1>2 DEF VisibleIn
    <3> QED BY <1>2, <3>1, RankMoves
  <2> QED BY <2>2, <2>3
<1>5. ~(j < i)
  <2>1. SUFFICES ASSUME j < i PROVE FALSE OBVIOUS
  <2>2. n < n BY <1>1, <1>2, <2>1
  <2>3. n \in Nat
    <3>1. i \in 1 .. Len(list) BY <1>2 DEF VisibleIn
    <3> QED BY <1>2, <3>1, RankMoves
  <2> QED BY <2>2, <2>3
<1> QED BY <1>3, <1>4, <1>5

\* When no entry is the n-th visible one, all are before it.
LEMMA NoneAfter ==
  ASSUME NEW list \in Seq(Entry), NEW n \in Nat, Nth(list, n) = {}, NEW j \in VisibleIn(list)
  PROVE  Rank(list, j) \in 0 .. n - 1
<1> DEFINE L == Len(list)
           K == {k \in 0 .. L : Rank(list, k + 1) <= n}
<1>1. L \in Nat /\ j \in 1 .. L BY DEF VisibleIn
<1>2. \A k \in VisibleIn(list) : Rank(list, k) # n BY Zenon DEF Nth, VisibleIn, Rank, Before
<1>3. /\ Rank(list, 1) = 0
      /\ \A k \in 1 .. L : /\ Rank(list, k) \in Nat
                           /\ Rank(list, k + 1) = IF k \in VisibleIn(list) THEN Rank(list, k) + 1 ELSE Rank(list, k)
  BY RankMoves
<1> HIDE DEF L
<1>4. 0 \in K BY <1>1, <1>3
<1>5. ASSUME NEW k \in 1 .. L, k - 1 \in K PROVE k \in K
  <2>1. (k - 1) + 1 = k /\ k \in 0 .. L BY <1>1
  <2>2. Rank(list, k) <= n BY <1>5, <2>1
  <2> QED BY <1>2, <1>3, <2>1, <2>2
<1> HIDE DEF K
<1>6. \A k \in 0 .. L : k \in K BY <1>1, <1>4, <1>5, Rises
<1>7. j - 1 \in 0 .. L /\ (j - 1) + 1 = j BY <1>1
<1>8. Rank(list, j) <= n BY <1>6, <1>7 DEF K
<1> QED BY <1>1, <1>2, <1>3, <1>8

\* In the beginning of a list the n-th visible entry is that of the list.
LEMMA NthOfStart ==
  ASSUME NEW list \in Seq(Entry), NEW full \in Seq(Entry), Starts(list, full), NEW n
  PROVE  /\ Nth(list, n) \subseteq Nth(full, n)
         /\ \A j \in Nth(list, n) : list[j] = full[j] /\ j \in DOMAIN full
<1>1. DOMAIN list = 1 .. Len(list) /\ DOMAIN full = 1 .. Len(full) /\ Len(list) \in Nat /\ Len(full) \in Nat OBVIOUS
<1>2. Len(list) <= Len(full) /\ \A j \in 1 .. Len(list) : list[j] = full[j] BY DEF Starts
<1>3. \A j \in 1 .. Len(list) : j \in 1 .. Len(full) /\ (j \in VisibleIn(list) <=> j \in VisibleIn(full))
  BY <1>1, <1>2 DEF VisibleIn
<1>4. \A j \in 1 .. Len(list) : Before(list, j) = Before(full, j)
  <2>1. VisibleIn(list) \subseteq 1 .. Len(list) /\ VisibleIn(full) \subseteq 1 .. Len(full) BY <1>1 DEF VisibleIn
  <2>2. ASSUME NEW j \in 1 .. Len(list), NEW i
        PROVE  (i \in VisibleIn(list) /\ i < j) <=> (i \in VisibleIn(full) /\ i < j) BY <1>1, <1>3, <2>1
  <2> QED BY <2>2, Zenon DEF Before
<1>5. ASSUME NEW j \in Nth(list, n) PROVE j \in Nth(full, n) /\ list[j] = full[j] /\ j \in DOMAIN full
  <2>1. j \in VisibleIn(list) /\ Rank(list, j) = n BY Zenon DEF Nth, VisibleIn, Rank, Before
  <2>2. j \in 1 .. Len(list) BY <1>1, <2>1 DEF VisibleIn
  <2>3. j \in VisibleIn(full) /\ Rank(full, j) = n BY <1>3, <1>4, <2>1, <2>2, Zenon DEF Rank
  <2>4. j \in Nth(full, n) BY <2>3, Zenon DEF Nth, VisibleIn, Rank, Before
  <2> QED BY <1>1, <1>2, <1>3, <2>2, <2>4
<1> QED BY <1>5

\* Names counted off to the end are the names shown, each once.
Counted(names, n, full) ==
    /\ names \in Seq(STRING) /\ Len(names) = n
    /\ \A i \in 1 .. n : \E j \in Nth(full, i - 1) : names[i] = full[j].name
LEMMA CountedToTheEnd ==
  ASSUME NEW full \in Seq(Entry), \A i, j \in DOMAIN full : full[i].name = full[j].name => i = j,
         NEW n \in Nat, NEW names, Counted(names, n, full), Nth(full, n) = {}
  PROVE  /\ {names[i] : i \in DOMAIN names} = Shown(full)
         /\ Len(names) = Cardinality(Shown(full))
<1>1. DOMAIN names = 1 .. n /\ names = [i \in 1 .. n |-> names[i]] BY DEF Counted
<1>2. \A i \in 1 .. n : \E j \in Nth(full, i - 1) : names[i] = full[j].name BY DEF Counted
<1>3. \A m : \A j \in Nth(full, m) : j \in VisibleIn(full) /\ Rank(full, j) = m
  BY Zenon DEF Nth, VisibleIn, Rank, Before
<1>4. Shown(full) = {full[j].name : j \in VisibleIn(full)} BY Zenon DEF Shown, VisibleIn
<1>5. \A i \in 1 .. n : names[i] \in Shown(full) BY <1>2, <1>3, <1>4
<1>6. ASSUME NEW name \in Shown(full) PROVE \E i \in 1 .. n : names[i] = name
  <2>1. PICK j \in VisibleIn(full) : name = full[j].name BY <1>4
  <2> DEFINE r == Rank(full, j)
  <2>2. r \in 0 .. n - 1 BY NoneAfter
  <2>3. j \in Nth(full, r) BY Zenon DEF Nth, VisibleIn, Rank, Before
  <2> HIDE DEF r
  <2> DEFINE i == r + 1
  <2>4. i \in 1 .. n /\ i - 1 = r BY <2>2
  <2> HIDE DEF i
  <2>5. PICK l \in Nth(full, r) : names[i] = full[l].name BY <1>2, <2>4
  <2>6. l = j BY <2>3, OneNth
  <2> QED BY <2>1, <2>4, <2>5, <2>6
<1>7. ASSUME NEW i \in 1 .. n, NEW k \in 1 .. n, names[i] = names[k] PROVE i = k
  <2>1. PICK j \in Nth(full, i - 1) : names[i] = full[j].name BY <1>2
  <2>2. PICK l \in Nth(full, k - 1) : names[k] = full[l].name BY <1>2
  <2>3. j \in DOMAIN full /\ l \in DOMAIN full BY <1>3 DEF VisibleIn
  <2>4. j = l BY <1>7, <2>1, <2>2, <2>3
  <2>5. Rank(full, j) = i - 1 /\ Rank(full, l) = k - 1 BY <1>3
  <2>6. i - 1 = k - 1 BY <2>4, <2>5
  <2> QED BY <2>6
<1>8. names \in Bijection(1 .. n, Shown(full)) BY <1>1, <1>5, <1>6, <1>7 DEF Bijection, Injection, Surjection, IsInjective
<1>9. Cardinality(Shown(full)) = n BY <1>8, FS_CountingElements DEF ExistsBijection
<1>10. {names[i] : i \in DOMAIN names} = Shown(full) BY <1>1, <1>5, <1>6
<1> QED BY <1>9, <1>10 DEF Counted

-----------------------------------------------------------------------------
(***************************************************************************)
(* Reads.                                                                  *)
(***************************************************************************)
ReadOk(r) ==
    LET whole == volume.truth[r.path]
        want == Smaller(MaxRead, Len(whole) - r.off) IN
    /\ Len(r.units) <= Len(whole) - r.off
    /\ \A k \in DOMAIN r.units : r.units[k] = whole[r.off + k]
    /\ r.sound /\ r.path \notin volume.torn => r.got = want
    /\ r.sound => r.got \in {-1, want}
ReadingParts(r, path, off, units, sound, got) ==
    r.path = path /\ r.off = off /\ r.units = units /\ r.sound = sound /\ r.got = got
LEMMA ReadingHas ==
  ASSUME NEW path, NEW off, NEW units, NEW sound, NEW got
  PROVE  ReadingParts(Reading(path, off, units, sound, got), path, off, units, sound, got)
BY Zenon DEF ReadingParts, Reading
LEMMA ReadingOk ==
  ASSUME NEW path, NEW off, NEW units, NEW sound, NEW got,
         Len(units) <= Len(volume.truth[path]) - off, \A k \in DOMAIN units : units[k] = volume.truth[path][off + k],
         sound /\ path \notin volume.torn => got = Smaller(MaxRead, Len(volume.truth[path]) - off),
         sound => got \in {-1, Smaller(MaxRead, Len(volume.truth[path]) - off)}
  PROVE  ReadOk(Reading(path, off, units, sound, got))
<1> DEFINE r == Reading(path, off, units, sound, got)
<1>1. r.path = path /\ r.off = off /\ r.units = units /\ r.sound = sound /\ r.got = got
  <2>1. ReadingParts(r, path, off, units, sound, got) BY ReadingHas
  <2> HIDE DEF r
  <2> QED BY <2>1 DEF ReadingParts
<1> HIDE DEF r
<1>2. ReadOk(r) BY <1>1, Zenon DEF ReadOk
<1> QED BY <1>2 DEF r

\* A read of a file returns what the file holds, and all of it unless a sector
\* fails or a crash tore what leads to it.
LEMMA ReadIsTrue ==
  ASSUME MftMapped, MaxRead \in Nat, NEW path \in DOMAIN volume.truth, NEW off \in 0 .. Len(volume.truth[path]),
         NEW bad, NEW r, r = ReadFile(bad, path, off, Resolve(bad, path))
  PROVE  ReadOk(r)
<1> DEFINE file == Resolve(bad, path)
           n == volume.nodes[path].ref
           attr == TheAttr(volume, n, "data")
           whole == volume.truth[path]
           want == Smaller(MaxRead, Len(whole) - off)
           rec == ReadMftRecord(bad, mftRuns, file.ref)
           found == FindAttrExt(bad, rec, "data")
           units == ReadAttr(bad, found.attr, off, MaxRead)
           none == Reading(path, off, <<>>, bad = {}, -1)
<1>1. path \in DOMAIN volume.nodes /\ FileSound(volume, path) /\ VolumeSound(volume) BY DEF MftMapped, VolumeSound
<1>2. /\ n # 0 /\ ~volume.nodes[path].dir /\ InOneRecord(volume, n, "data") /\ attr # NoAttr /\ AttrSound(volume, attr)
      /\ whole = [k \in 1 .. attr.size |-> Content(attr.value[k])]
      /\ path \notin volume.torn => \A k \in 0 .. Len(path) : Intact(volume, Along(path, k).ref)
  BY <1>1 DEF FileSound, Along
<1>3. OnTheWay(path) BY <1>1, PathKnown
<1>4. attr.size \in Nat /\ Len(whole) = attr.size /\ off \in Nat /\ off <= attr.size BY <1>2, SMTT(60) DEF AttrSound
<1>5. ASSUME bad = {}, path \notin volume.torn PROVE file = volume.nodes[path] /\ Intact(volume, n)
  <2>1. ResolvesWell(bad, path) BY <1>2, <1>5, Zenon DEF ResolvesWell
  <2>2. Len(path) \in 0 .. Len(path) BY <1>3 DEF OnTheWay
  <2>3. Along(path, Len(path)).ref = n BY <1>3, Zenon DEF OnTheWay, Along
  <2> QED BY <1>1, <1>2, <1>5, <2>1, <2>2, <2>3, Resolved
<1>6. file = volume.nodes[path] \/ file = Lost BY <1>1, Resolved
<1>7. Lost.ref = 0 BY SpotHas, Zenon DEF SpotParts, Lost
<1>8. r = IF file.ref = 0 \/ file.dir \/ rec = -1 THEN none
          ELSE IF found.attr = NoAttr THEN none
          ELSE Reading(path, off, [k \in DOMAIN units |-> Content(units[k])], bad = {}, Len(units)) BY DEF ReadFile
<1>9. ASSUME ~(bad = {} /\ path \notin volume.torn) PROVE ReadOk(none)
  <2> DEFINE s == bad = {}
             u == <<>>
  <2>1. Len(u) <= Len(volume.truth[path]) - off BY <1>4
  <2>2. \A k \in DOMAIN u : u[k] = volume.truth[path][off + k] OBVIOUS
  <2>3. ~(s /\ path \notin volume.torn) BY <1>9
  <2> DEFINE g == -1
  <2>4. s => g \in {-1, Smaller(MaxRead, Len(volume.truth[path]) - off)} OBVIOUS
  <2> HIDE DEF s, u, g
  <2>5. ReadOk(Reading(path, off, u, s, g)) BY <2>1, <2>2, <2>3, <2>4, ReadingOk
  <2> QED BY <2>5 DEF s, u, g
<1> HIDE DEF file, n, attr, whole, want, none
<1>10. ASSUME file = volume.nodes[path]
       PROVE  /\ rec \in {-1, n}
              /\ bad = {} /\ path \notin volume.torn => rec = n
  <2>1. n \in DOMAIN volume.records BY <1>2 DEF InOneRecord
  <2>2. mftRuns \in Extents /\ \A i \in DOMAIN mftRuns : AtHome(volume, mftRuns[i], n) BY <2>1, HomesMapped
  <2>3. rec = ReadMftRecord(bad, mftRuns, n) BY <1>10 DEF n
  <2>4. rec \in {-1, n} BY <1>1, <2>2, <2>3, RecordIs
  <2>5. ASSUME bad = {}, path \notin volume.torn PROVE rec = n
    <3>1. IntactRecord(volume, n) /\ mftRuns = MftData(volume).extents BY <1>5, <2>5 DEF Intact, MftMapped
    <3>2. ReadMftRecord({}, mftRuns, n) = n BY <1>1, <2>1, <2>2, <3>1, RecordReads
    <3> QED BY <2>3, <2>5, <3>2
  <2> QED BY <2>4, <2>5
<1>11. ASSUME rec = n
       PROVE  /\ found.attr = attr \/ found.attr = NoAttr
              /\ bad = {} /\ path \notin volume.torn => found.attr = attr
  <2>1. found = FindAttrExt(bad, n, "data") BY <1>11
  <2>2. /\ found = Found(attr, FALSE) \/ found = Found(NoAttr, TRUE)
        /\ bad = {} /\ Intact(volume, n) => found = Found(attr, FALSE)
    <3>1. InOneRecord(volume, n, "data") /\ mftRuns = MftData(volume).extents BY <1>2 DEF MftMapped
    <3> HIDE DEF found
    <3> QED BY <1>1, <2>1, <3>1, AttrFound DEF attr
  <2>3. Found(attr, FALSE).attr = attr /\ Found(NoAttr, TRUE).attr = NoAttr BY FoundHas, Zenon DEF FoundParts
  <2> HIDE DEF found
  <2> QED BY <1>5, <2>2, <2>3
<1> HIDE DEF rec, found
<1>12. CASE file.ref = 0 \/ file.dir \/ rec = -1
  <2>1. r = none BY <1>8, <1>12, Zenon
  <2>2. ~(bad = {} /\ path \notin volume.torn)
    <3>1. SUFFICES ASSUME bad = {}, path \notin volume.torn PROVE FALSE OBVIOUS
    <3>2. file = volume.nodes[path] BY <1>5, <3>1
    <3>3. rec = n BY <1>10, <3>1, <3>2
    <3>4. file.ref = n /\ ~file.dir /\ n # 0 BY <1>2, <3>2 DEF n
    <3>5. n # -1
      <4>1. n \in DOMAIN volume.records BY <1>2 DEF InOneRecord
      <4> QED BY <4>1, HomesMapped
    <3> QED BY <1>12, <3>3, <3>4, <3>5
  <2> QED BY <1>9, <2>1, <2>2
<1>13. CASE ~(file.ref = 0 \/ file.dir \/ rec = -1) /\ found.attr = NoAttr
  <2>1. r = none BY <1>8, <1>13, Zenon
  <2>2. ~(bad = {} /\ path \notin volume.torn)
    <3>1. SUFFICES ASSUME bad = {}, path \notin volume.torn PROVE FALSE OBVIOUS
    <3>2. rec = n BY <1>5, <1>10, <3>1
    <3> QED BY <1>2, <1>11, <1>13, <3>1, <3>2
  <2> QED BY <1>9, <2>1, <2>2
<1>14. CASE ~(file.ref = 0 \/ file.dir \/ rec = -1) /\ found.attr # NoAttr
  <2>1. r = Reading(path, off, [k \in DOMAIN units |-> Content(units[k])], bad = {}, Len(units)) BY <1>8, <1>14, Zenon
  <2>2. file = volume.nodes[path] BY <1>6, <1>7, <1>14
  <2>3. rec = n BY <1>10, <1>14, <2>2
  <2>4. found.attr = attr BY <1>11, <1>14, <2>3
  <2>5. units = ReadAttr(bad, attr, off, MaxRead) BY <2>4
  <2> HIDE DEF units
  <2>6. AsHeld(attr, off, MaxRead, bad, units) BY <1>1, <1>2, <1>4, <2>5, AttrRead
  <2>7. PICK m \in 0 .. Wanted(attr, off, MaxRead) : /\ units = [k \in 1 .. m |-> attr.value[off + k]]
                                                     /\ bad = {} => m = Wanted(attr, off, MaxRead) BY <2>6 DEF AsHeld
  <2>8. Wanted(attr, off, MaxRead) = want /\ want \in Nat /\ want <= attr.size - off BY <1>4 DEF Wanted, Smaller, want
  <2>9. m \in Nat /\ m <= attr.size - off /\ DOMAIN units = 1 .. m /\ Len(units) = m BY <1>4, <2>7, <2>8
  <2> DEFINE u == [k \in DOMAIN units |-> Content(units[k])]
             s == bad = {}
  <2>10. DOMAIN u = 1 .. m /\ Len(u) = m BY <2>9
  <2>11. \A k \in DOMAIN u : u[k] = whole[off + k]
    <3>1. SUFFICES ASSUME NEW k \in 1 .. m PROVE u[k] = whole[off + k] BY <2>10
    <3>2. u[k] = Content(attr.value[off + k]) BY <2>7, <2>9
    <3>3. off + k \in 1 .. attr.size BY <1>4, <2>9
    <3> QED BY <1>2, <3>2, <3>3
  <2>12. s => m = want BY <2>7, <2>8
  <2> HIDE DEF u, s
  <2>13. Len(u) <= Len(volume.truth[path]) - off BY <1>4, <2>9, <2>10 DEF whole
  <2>14. ReadOk(Reading(path, off, u, s, m))
    <3>1. s => m = Smaller(MaxRead, Len(volume.truth[path]) - off) BY <2>12 DEF want, whole
    <3>2. \A k \in DOMAIN u : u[k] = volume.truth[path][off + k] BY <2>11 DEF whole
    <3> QED BY <2>13, <3>1, <3>2, ReadingOk
  <2> QED BY <2>1, <2>9, <2>14 DEF u, s
<1> QED BY <1>12, <1>13, <1>14

-----------------------------------------------------------------------------
(***************************************************************************)
(* Listings.                                                               *)
(***************************************************************************)
ListingOk(l) ==
    /\ l.path \in DOMAIN volume.entries /\ l.at \in Nat
    /\ Counted(l.names, l.at, volume.entries[l.path])
    /\ l.over => Nth(volume.entries[l.path], l.at) = {}
ListingParts(l, n, path, names, over) == l.at = n /\ l.path = path /\ l.names = names /\ l.over = over
LEMMA ListingHas ==
  ASSUME NEW n, NEW path, NEW names, NEW over
  PROVE  ListingParts(Listing(n, path, names, over), n, path, names, over) BY Zenon DEF ListingParts, Listing

\* A readdir adds the name of the next visible entry, ends where there is
\* none, or fails.
LEMMA ListedNext ==
  ASSUME MftMapped, NEW path \in DOMAIN volume.entries, NEW bad,
         listing.at \in Nat, Counted(listing.names, listing.at, volume.entries[path]),
         NEW dir, dir = Resolve(bad, path), NEW next, next = Listed(bad, path, WalkIndex(bad, dir.ref), dir.dir)
  PROVE  next = Error \/ ListingOk(next)
<1> DEFINE full == volume.entries[path]
           walk == WalkIndex(bad, dir.ref)
           at == listing.at
           here == Nth(walk.list, at)
           e == walk.list[Min(here)]
           names == listing.names
           fits == e.dir \/ SizeFits(bad, e.ref)
<1>1. next = IF ~dir.dir THEN Error
             ELSE IF here = {} THEN IF walk.ok THEN Listing(at, path, names, TRUE) ELSE Error
             ELSE IF fits THEN Listing(at + 1, path, Append(names, e.name), FALSE) ELSE Error BY Zenon DEF Listed
<1>2. path \in DOMAIN volume.nodes /\ DirSound(volume, volume.nodes[path].ref, full) BY DEF MftMapped, VolumeSound
<1>3. full \in Seq(Entry) BY <1>2 DEF DirSound
<1>4. dir = volume.nodes[path] \/ dir = Lost BY <1>2, Resolved
<1>5. Lost.dir = FALSE BY SpotHas, Zenon DEF SpotParts, Lost
<1>6. CASE ~dir.dir BY <1>1, <1>6
<1>7. CASE dir.dir
  <2>1. dir = volume.nodes[path] BY <1>4, <1>5, <1>7
  <2>2. WalkOf(bad, dir.ref, full, walk)
    <3> HIDE DEF full
    <3> QED BY <1>2, <2>1, IndexWalked
  <2> HIDE DEF walk, full
  <2>3. walk.list \in Seq(Entry) /\ Starts(walk.list, full) /\ (walk.ok => walk.list = full) BY <2>2 DEF WalkOf
  <2>4. /\ here \subseteq Nth(full, at)
        /\ \A j \in here : walk.list[j] = full[j] /\ j \in DOMAIN full BY <1>3, <2>3, NthOfStart
  <2>5. CASE here = {} /\ walk.ok
    <3> DEFINE l == Listing(at, path, names, TRUE)
    <3>1. next = l BY <1>1, <1>7, <2>5, Zenon
    <3>2. l.at = at /\ l.path = path /\ l.names = names /\ l.over = TRUE
      <4>1. ListingParts(l, at, path, names, TRUE) BY ListingHas
      <4> HIDE DEF l
      <4> QED BY <4>1 DEF ListingParts
    <3>3. Nth(full, at) = {} BY <2>3, <2>5
    <3> HIDE DEF l
    <3>4. ListingOk(l) BY <3>2, <3>3, Zenon DEF ListingOk, full
    <3> QED BY <3>1, <3>4
  <2>6. CASE here # {} /\ fits
    <3> DEFINE more == Append(names, e.name)
               up == at + 1
               l == Listing(up, path, more, FALSE)
    <3>1. next = l BY <1>1, <1>7, <2>6, Zenon
    <3>2. l.at = up /\ l.path = path /\ l.names = more /\ l.over = FALSE
      <4>1. ListingParts(l, up, path, more, FALSE)
        <5> HIDE DEF up, more
        <5> QED BY ListingHas
      <4> HIDE DEF l
      <4> QED BY <4>1 DEF ListingParts
    <3>3. Min(here) \in here
      <4>1. here \subseteq Nat BY <1>3, <2>4
      <4> HIDE DEF here
      <4> QED BY <2>6, <4>1, MinIs
    <3> DEFINE j == Min(here)
    <3>4. j \in Nth(full, at) /\ e = full[j] /\ j \in DOMAIN full BY <2>4, <3>3
    <3> HIDE DEF j, here, e
    <3>5. e.name \in STRING
      <4>1. e \in Entry BY <1>3, <3>4
      <4> QED BY <4>1, Zenon DEF Entry
    <3>6. Counted(names, at, full) BY DEF full
    <3> HIDE DEF names, at
    <3>7. at \in Nat BY DEF at
    <3>8. names \in Seq(STRING) /\ Len(names) = at /\ \A i \in 1 .. at : \E k \in Nth(full, i - 1) : names[i] = full[k].name
      BY <3>6 DEF Counted
    <3> DEFINE name == e.name
    <3>9. name = full[j].name BY <3>4
    <3> HIDE DEF name
    <3>10. more \in Seq(STRING) /\ Len(more) = up /\ more[up] = name /\ \A i \in 1 .. at : more[i] = names[i]
      BY <3>5, <3>7, <3>8 DEF name
    <3>11. \A i \in 1 .. up : \E k \in Nth(full, i - 1) : more[i] = full[k].name
      <4>1. SUFFICES ASSUME NEW i \in 1 .. up PROVE \E k \in Nth(full, i - 1) : more[i] = full[k].name OBVIOUS
      <4>2. CASE i = up
        <5>1. i - 1 = at BY <3>7, <4>2
        <5> HIDE DEF up, more
        <5> QED BY <3>4, <3>9, <3>10, <4>2, <5>1
      <4>3. CASE i # up
        <5>1. i \in 1 .. at BY <3>7, <4>3
        <5> HIDE DEF more
        <5> QED BY <3>8, <3>10, <5>1
      <4> QED BY <4>2, <4>3
    <3>12. up \in Nat BY <3>7
    <3> HIDE DEF l, up, more
    <3>13. Counted(more, up, full) BY <3>10, <3>11, Zenon DEF Counted
    <3>14. ListingOk(l) BY <3>2, <3>12, <3>13, Zenon DEF ListingOk, full
    <3> QED BY <3>1, <3>14
  <2>7. CASE ~(here = {} /\ walk.ok) /\ ~(here # {} /\ fits)
    <3> HIDE DEF here, e, fits
    <3>1. next = Error BY <1>1, <2>7, Zenon
    <3> QED BY <3>1
  <2> QED BY <2>5, <2>6, <2>7
<1> QED BY <1>6, <1>7

-----------------------------------------------------------------------------
(***************************************************************************)
(* The mount, and the whole driver.                                        *)
(***************************************************************************)
\* What the first record of $MFT says of the others is where they are.
LEMMA MountReads ==
  ASSUME VolumeSound(volume), NEW bad, NtfsMount(bad)
  PROVE  mftRuns' \in {<<>>, MftData(volume).extents}
<1> DEFINE first == Extent(0, 1, volume.mft, FALSE)
           boot == <<first>>
           self == ReadMftRecord(bad, boot, 0)
           data == FindAttrIn(volume.records[self], "data")
           runs == ParseRunlist(data.runs, 0)
<1>1. MftSound(volume) BY DEF VolumeSound
<1>2. /\ volume.mft \in Nat /\ 0 \in DOMAIN volume.records /\ AtHome(volume, first, 0)
      /\ Spelled(MftData(volume)) /\ MftData(volume).vcn = 0 BY <1>1, Zenon DEF MftSound
<1>3. mftRuns' = <<>> \/ (self # -1 /\ mftRuns' = runs)
  <2> DEFINE good == IF self = -1 THEN FALSE
                     ELSE IF data = NoAttr THEN FALSE
                     ELSE IF data.resident THEN FALSE ELSE ReadMftRecord(bad, runs, MFT_REC_ROOT) # -1
  <2>1. mftRuns' = IF good THEN runs ELSE <<>> BY Zenon DEF NtfsMount
  <2>2. good => self # -1 BY Zenon
  <2> HIDE DEF good, runs, self
  <2> QED BY <2>1, <2>2
<1>4. self \in {-1, 0}
  <2>1. first \in ExtentOf
    <3>1. volume.mft \in Int /\ 0 \in Nat /\ 1 \in Nat BY <1>2
    <3> QED BY <3>1, Zenon DEF Extent, ExtentOf
  <2> HIDE DEF first
  <2>2. boot \in Extents /\ \A i \in DOMAIN boot : boot[i] = first BY <2>1 DEF Extents
  <2> HIDE DEF boot
  <2>3. \A i \in DOMAIN boot : AtHome(volume, boot[i], 0) BY <1>2, <2>2
  <2> QED BY <2>2, <2>3, RecordIs
<1>5. self # -1 => runs = MftData(volume).extents
  <2>1. SUFFICES ASSUME self # -1 PROVE runs = MftData(volume).extents OBVIOUS
  <2>2. self = 0 BY <1>4, <2>1
  <2> HIDE DEF self
  <2>3. data = MftData(volume) BY <2>2 DEF MftData
  <2> HIDE DEF data
  <2>4. ParseRunlist(MftData(volume).runs, MftData(volume).vcn) = MftData(volume).extents BY <1>2, ParsedAreExtents
  <2> QED BY <1>2, <2>3, <2>4
<1> HIDE DEF runs, self
<1> QED BY <1>3, <1>5

\* The driver knows where the records are once it is mounted, and what it has
\* returned is what the volume holds.
NtfsInv ==
    /\ volume \in Drives
    /\ mftRuns \in {<<>>, MftData(volume).extents}
    /\ listing = NoListing \/ ListingOk(listing)
    /\ reading = NoReading \/ ReadOk(reading)

\* kernel/ntfs.c: on every volume that means what it says, whatever sectors
\* fail and whatever a crash tore, a read returns the bytes of the file, and
\* all of them on a sound path; a listing that ends has named every visible
\* entry of the directory once.
THEOREM NtfsTellsTheTruth ==
  ASSUME NtfsSound
  PROVE  NtfsSpec => [](ReadsTrue /\ ListsTrue)
<1> USE DEF ntfsVars
<1>1. NtfsInit => NtfsInv BY DEF NtfsInit, NtfsInv
<1>2. ASSUME NtfsInv, [NtfsNext]_ntfsVars PROVE NtfsInv'
  <2>1. VolumeSound(volume) /\ MaxRead \in Nat BY <1>2 DEF NtfsInv, NtfsSound
  <2>2. volume' = volume /\ (mftRuns' = mftRuns => (mftRuns \in {<<>>, MftData(volume).extents})')
    <3>1. volume' = volume BY <1>2, Zenon DEF NtfsNext, NtfsMount, NtfsReaddir, NtfsRead, ListAgain
    <3> QED BY <1>2, <3>1 DEF NtfsInv
  <2>3. volume' \in Drives BY <1>2, <2>2 DEF NtfsInv
  <2>4. reading' = reading => (reading = NoReading \/ ReadOk(reading))'
    <3>1. reading = NoReading \/ ReadOk(reading) BY <1>2 DEF NtfsInv
    <3> QED BY <2>2, <3>1 DEF ReadOk
  <2>5. listing' = listing => (listing = NoListing \/ ListingOk(listing))'
    <3>1. listing = NoListing \/ ListingOk(listing) BY <1>2 DEF NtfsInv
    <3> QED BY <2>2, <3>1 DEF ListingOk
  <2>6. Mounted => MftMapped BY <1>2, <2>1 DEF NtfsInv, Mounted, MftMapped
  <2>7. CASE UNCHANGED ntfsVars BY <2>2, <2>3, <2>4, <2>5, <2>7 DEF NtfsInv
  <2>8. ASSUME NEW bad, NtfsMount(bad) PROVE NtfsInv'
    <3>1. mftRuns' \in {<<>>, MftData(volume).extents} BY <2>1, <2>8, MountReads
    <3>2. (mftRuns \in {<<>>, MftData(volume).extents})' BY <2>2, <3>1
    <3>3. listing' = listing /\ reading' = reading BY <2>8 DEF NtfsMount
    <3> QED BY <2>3, <2>4, <2>5, <3>2, <3>3 DEF NtfsInv
  <2>9. ASSUME NEW bad, NEW path \in DOMAIN volume.entries, NtfsReaddir(path, bad) PROVE NtfsInv'
    <3>1. /\ Mounted /\ (listing = NoListing \/ listing.path = path) /\ mftRuns' = mftRuns /\ reading' = reading
          /\ \E dir \in {Resolve(bad, path)} : \E next \in {Listed(bad, path, WalkIndex(bad, dir.ref), dir.dir)} :
                listing' = IF next = Error THEN listing ELSE next BY <2>9 DEF NtfsReaddir
    <3>2. PICK dir, next : /\ dir = Resolve(bad, path) /\ next = Listed(bad, path, WalkIndex(bad, dir.ref), dir.dir)
                           /\ listing' = IF next = Error THEN listing ELSE next BY <3>1
    <3>3. listing.at \in Nat /\ Counted(listing.names, listing.at, volume.entries[path])
      <4>1. CASE listing = NoListing
        <5> DEFINE none == <<>>
                   zero == 0
                   no == FALSE
        <5>1. ListingParts(Listing(zero, none, none, no), zero, none, none, no) BY ListingHas
        <5>2. listing.at = 0 /\ listing.names = <<>> BY <4>1, <5>1 DEF ListingParts, NoListing
        <5>3. Counted(<<>>, 0, volume.entries[path]) BY DEF Counted
        <5> QED BY <5>2, <5>3
      <4>2. CASE listing # NoListing
        <5>1. listing.path = path /\ ListingOk(listing) BY <1>2, <3>1, <4>2 DEF NtfsInv
        <5> QED BY <5>1 DEF ListingOk
      <4> QED BY <4>1, <4>2
    <3>4. next = Error \/ ListingOk(next) BY <2>6, <2>9, <3>1, <3>2, <3>3, ListedNext
    <3>5. CASE next = Error BY <2>2, <2>3, <2>4, <2>5, <3>1, <3>2, <3>5 DEF NtfsInv
    <3>6. CASE next # Error
      <4>1. listing' = next /\ ListingOk(next) BY <3>2, <3>4, <3>6
      <4>2. ListingOk(listing)' BY <2>2, <4>1 DEF ListingOk
      <4> QED BY <2>2, <2>3, <2>4, <3>1, <4>2 DEF NtfsInv
    <3> QED BY <3>5, <3>6
  <2>10. ASSUME NEW bad, NEW path \in DOMAIN volume.truth, NEW off \in 0 .. Len(volume.truth[path]),
                NtfsRead(path, off, bad)
         PROVE  NtfsInv'
    <3>1. Mounted /\ mftRuns' = mftRuns /\ listing' = listing /\ reading' = ReadFile(bad, path, off, Resolve(bad, path))
      BY <2>10 DEF NtfsRead
    <3>2. ReadOk(reading') BY <2>1, <2>6, <3>1, ReadIsTrue
    <3>3. ReadOk(reading)' BY <2>2, <3>2 DEF ReadOk
    <3> QED BY <2>2, <2>3, <2>5, <3>1, <3>3 DEF NtfsInv
  <2>11. ASSUME ListAgain PROVE NtfsInv'
    <3>1. listing' = NoListing /\ mftRuns' = mftRuns /\ reading' = reading BY <2>11 DEF ListAgain
    <3> QED BY <2>2, <2>3, <2>4, <3>1 DEF NtfsInv, NoListing, Listing
  <2>12. CASE NtfsNext BY <2>8, <2>9, <2>10, <2>11, <2>12, Zenon DEF NtfsNext
  <2> QED BY <1>2, <2>7, <2>12
<1>3. NtfsInv => ReadsTrue BY Zenon DEF NtfsInv, ReadsTrue, ReadOk
<1>4. ASSUME NtfsInv PROVE ListsTrue
  <2>1. ~NoListing.over
    <3> DEFINE none == <<>>
               zero == 0
               no == FALSE
    <3>1. ListingParts(Listing(zero, none, none, no), zero, none, none, no) BY ListingHas
    <3> QED BY <3>1, Zenon DEF ListingParts, NoListing
  <2>2. ASSUME listing.over
        PROVE  /\ {listing.names[i] : i \in DOMAIN listing.names} = Shown(volume.entries[listing.path])
               /\ Len(listing.names) = Cardinality(Shown(volume.entries[listing.path]))
    <3> DEFINE path == listing.path
               full == volume.entries[path]
    <3>1. ListingOk(listing) BY <1>4, <2>1, <2>2 DEF NtfsInv
    <3>2. /\ path \in DOMAIN volume.entries /\ listing.at \in Nat /\ Counted(listing.names, listing.at, full)
          /\ Nth(full, listing.at) = {} BY <2>2, <3>1, Zenon DEF ListingOk
    <3>3. DirSound(volume, volume.nodes[path].ref, full) BY <1>4, <3>2 DEF NtfsInv, NtfsSound, VolumeSound
    <3>4. full \in Seq(Entry) /\ \A i, j \in DOMAIN full : full[i].name = full[j].name => i = j BY <3>3 DEF DirSound
    <3> HIDE DEF full
    <3>5. /\ {listing.names[i] : i \in DOMAIN listing.names} = Shown(full)
          /\ Len(listing.names) = Cardinality(Shown(full)) BY <3>2, <3>4, CountedToTheEnd
    <3> QED BY <3>5 DEF full
  <2> QED BY <2>2, Zenon DEF ListsTrue
<1>5. NtfsInv => ReadsTrue /\ ListsTrue BY <1>3, <1>4
<1> QED BY <1>1, <1>2, <1>5, PTL DEF NtfsSpec
=============================================================================
