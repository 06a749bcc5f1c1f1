----------------------------- MODULE UserService -----------------------------
(***************************************************************************)
(* The services of an isolated application, kernel/user_service.c: one     *)
(* event at a time, drawing for that event only, and private RAM files     *)
(* behind handles.                                                         *)
(*                                                                         *)
(* svc is the structure ks_service.  Every call of ks_dispatch runs with   *)
(* interrupts off and is one action; a call it refuses changes nothing and *)
(* is a stuttering step.  The application may make any call at any time    *)
(* with any argument.  Pixels, text and requests that fail to copy are     *)
(* left out; a byte of a file is a member of Values.                       *)
(***************************************************************************)
EXTENDS Integers, FiniteSets

CONSTANTS
    Names, NoName,      \* file names; an unused file slot
    Values, Zero,       \* what a byte can be; what memset leaves
    KS_FILES, KS_HANDLES, KS_FILE_BYTES,    \* 8, 8, 1024
    DRAW_BUDGET,        \* 64: commands per draw event
    TEXT_BUDGET,        \* 1024: text bytes per draw event
    MAX_DELTA,          \* 250 ms
    Keys,               \* key codes; 0 where there is none
    TOKEN_MAX,          \* 2^32 - 1: the last event id
    HANDLE_MAX,         \* 2^31 - 1: the last cookie
    GENERATION_MAX      \* 2^32 - 1

ASSUME NamesAssumption == NoName \notin Names /\ Zero \in Values
ASSUME LimitsAssumption ==
    /\ {KS_FILES, KS_HANDLES, KS_FILE_BYTES, DRAW_BUDGET, TEXT_BUDGET, MAX_DELTA} \subseteq Nat
    /\ {TOKEN_MAX, HANDLE_MAX, GENERATION_MAX} \subseteq Nat

VARIABLE svc

Types == {"draw", "key", "click", "tick", "close"}
Files == 1 .. KS_FILES
Handles == 1 .. KS_HANDLES
Offsets == 0 .. KS_FILE_BYTES - 1
Rights == {"r", "w"}
AtMost(bound, x) == IF x > bound THEN bound ELSE x

NoFile == [name |-> NoName, size |-> 0, refs |-> 0, data |-> [o \in Offsets |-> Zero]]
NoHandle == [cookie |-> 0, file |-> 0, rights |-> {}]
Event(id, type, delta, key) == [id |-> id, type |-> type, delta |-> delta, key |-> key]
NoEvent == Event(0, "none", 0, 0)

\* memset(s, 0, sizeof *s)
Dead ==
    [live |-> FALSE, generation |-> 0, next_handle |-> 0, next_event |-> 0,
     pending |-> FALSE, delivered |-> FALSE, event |-> NoEvent,
     draw_left |-> 0, text_left |-> 0,
     files |-> [f \in Files |-> NoFile], handles |-> [h \in Handles |-> NoHandle]]

-----------------------------------------------------------------------------
KsInit(gen) ==
    /\ ~svc.live
    /\ svc' = [Dead EXCEPT !.live = TRUE, !.generation = gen]

KsDestroy == svc' = Dead

Postable == svc.live /\ ~svc.pending /\ svc.next_event < TOKEN_MAX

KsPost(type, delta, key) ==
    /\ Postable
    /\ svc' = [svc EXCEPT
        !.next_event = @ + 1,
        !.event = Event(svc.next_event + 1, type, AtMost(MAX_DELTA, delta), key),
        !.pending = TRUE, !.delivered = FALSE,
        !.draw_left = DRAW_BUDGET, !.text_left = TEXT_BUDGET]

-----------------------------------------------------------------------------
\* The calls of the application: ks_dispatch, for a request that carries the
\* generation of this service.

KsWait == svc.live /\ svc.pending /\ svc' = [svc EXCEPT !.delivered = TRUE]

Current(token) == svc.live /\ svc.pending /\ svc.delivered /\ token = svc.event.id

KsComplete(token) ==
    /\ Current(token)
    /\ svc' = [svc EXCEPT !.pending = FALSE, !.delivered = FALSE]

\* n rectangles; some of them may lie outside the canvas.
KsDraw(token, n) ==
    /\ Current(token) /\ svc.event.type = "draw"
    /\ n >= 1 /\ n <= svc.draw_left
    /\ svc' = [svc EXCEPT !.draw_left = @ - n]

\* A text of n bytes; a line is a draw of one command.
KsText(token, n) ==
    /\ Current(token) /\ svc.event.type = "draw"
    /\ n >= 1 /\ svc.draw_left >= 1 /\ n <= svc.text_left
    /\ svc' = [svc EXCEPT !.draw_left = @ - 1, !.text_left = @ - n]

First(S) == {x \in S : \A y \in S : x <= y}
Node(n) == First({f \in Files : svc.files[f].name = n})
FreeHandle == First({h \in Handles : svc.handles[h].cookie = 0})

Truncated(file) == [file EXCEPT !.size = 0, !.data = NoFile.data]

\* Mutant: the cookie is the number of the slot.
CookieIsSlot(h) == h

Cookie(h) == svc.next_handle + 1

\* Checked before anything is created: mode, file slot, handle slot, cookies.
KsOpen(n, rights, create, trunc) ==
    /\ svc.live
    /\ rights # {} /\ (create \/ trunc => "w" \in rights)
    /\ svc.next_handle < HANDLE_MAX
    /\ Node(n) = {} => create
    /\ \E f \in (IF Node(n) # {} THEN Node(n) ELSE Node(NoName)), h \in FreeHandle :
        LET old == [svc.files[f] EXCEPT !.name = n]
            new == IF trunc THEN Truncated(old) ELSE old
        IN  svc' = [svc EXCEPT
                !.files[f] = [new EXCEPT !.refs = @ + 1],
                !.handles[h] = [cookie |-> Cookie(h), file |-> f, rights |-> rights],
                !.next_handle = @ + 1]

Named(cookie, rights) ==
    {h \in Handles : /\ cookie # 0 /\ svc.handles[h].cookie = cookie
                     /\ rights \subseteq svc.handles[h].rights}

\* n bytes v at offset d.  KS_READ changes nothing.
KsWrite(cookie, d, n, v) ==
    /\ svc.live /\ n >= 1 /\ d + n <= KS_FILE_BYTES
    /\ \E h \in Named(cookie, {"w"}) :
        LET file == svc.files[svc.handles[h].file]
        IN  svc' = [svc EXCEPT !.files[svc.handles[h].file] =
                [file EXCEPT !.size = IF d + n > file.size THEN d + n ELSE file.size,
                             !.data = [o \in Offsets |-> IF o >= d /\ o < d + n THEN v ELSE file.data[o]]]]

KsClose(cookie) ==
    /\ svc.live
    /\ \E h \in Named(cookie, {}) :
        svc' = [svc EXCEPT !.files[svc.handles[h].file].refs = @ - 1, !.handles[h] = NoHandle]

KsDelete(n) ==
    /\ svc.live
    /\ \E f \in Node(n) :
        svc.files[f].refs = 0 /\ svc' = [svc EXCEPT !.files[f] = NoFile]

FileCall ==
    \/ \E n \in Names, rights \in SUBSET Rights, create, trunc \in BOOLEAN :
            KsOpen(n, rights, create, trunc)
    \/ \E cookie \in 1 .. svc.next_handle : KsClose(cookie)
    \/ \E cookie \in 1 .. svc.next_handle, d \in Offsets, n \in 1 .. KS_FILE_BYTES, v \in Values :
            KsWrite(cookie, d, n, v)
    \/ \E n \in Names : KsDelete(n)

-----------------------------------------------------------------------------
Init == svc = Dead

\* Any kernel, any application.
Next ==
    \/ \E gen \in 1 .. GENERATION_MAX : KsInit(gen)
    \/ KsDestroy
    \/ \E type \in Types, delta \in 0 .. MAX_DELTA, key \in Keys \cup {0} : KsPost(type, delta, key)
    \/ KsWait
    \/ \E token \in 1 .. svc.next_event : KsComplete(token)
    \/ \E token \in 1 .. svc.next_event, n \in 1 .. DRAW_BUDGET : KsDraw(token, n)
    \/ \E token \in 1 .. svc.next_event, n \in 1 .. TEXT_BUDGET : KsText(token, n)
    \/ FileCall

Spec == Init /\ [][Next]_svc

-----------------------------------------------------------------------------
FileType == [name : Names \cup {NoName}, size : 0 .. KS_FILE_BYTES, refs : Nat,
             data : [Offsets -> Values]]
HandleType == [cookie : 0 .. HANDLE_MAX, file : 0 .. KS_FILES, rights : SUBSET Rights]
EventType == [id : 0 .. TOKEN_MAX, type : Types \cup {"none"}, delta : 0 .. MAX_DELTA,
              key : Keys \cup {0}]

ServiceType ==
    [live : BOOLEAN, generation : 0 .. GENERATION_MAX,
     next_handle : 0 .. HANDLE_MAX, next_event : 0 .. TOKEN_MAX,
     pending : BOOLEAN, delivered : BOOLEAN, event : EventType,
     draw_left : 0 .. DRAW_BUDGET, text_left : 0 .. TEXT_BUDGET,
     files : [Files -> FileType], handles : [Handles -> HandleType]]

TypeOK == svc \in ServiceType

\* A handle always leads to a file that exists, and a file's reference count
\* is the number of handles on it: KS_DELETE's check of refs is enough.
OpenOn(f) == {h \in Handles : svc.handles[h].cookie # 0 /\ svc.handles[h].file = f}
RefsExact ==
    /\ \A f \in Files : svc.files[f].refs = Cardinality(OpenOn(f))
    /\ \A f \in Files : OpenOn(f) # {} => svc.files[f].name # NoName

\* A cookie that is closed stays stale, and one that is open goes on naming
\* the same file with the same rights.
CookiesStay ==
    \A h \in Handles :
        LET cookie == svc'.handles[h].cookie
        IN  svc'.live /\ cookie # 0 =>
                \/ cookie > svc.next_handle
                \/ svc'.handles[h] = svc.handles[h]

\* Bytes behind the end of a file are zero: a write beyond the end leaves a
\* hole that reads as zeros, not as what was truncated or deleted.
HolesReadZero ==
    \A f \in Files : \A o \in Offsets :
        o >= svc.files[f].size => svc.files[f].data[o] = Zero

=============================================================================
