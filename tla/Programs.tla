------------------------------- MODULE Programs -------------------------------
(***************************************************************************)
(* The Programs window and the one loaded program: kernel/gui.c, store_*,  *)
(* launch_user_app, close_user_windows and win_close; kernel/kapp.c, the   *)
(* loader, its callbacks and the net under them.                           *)
(*                                                                         *)
(* A file holds a trusted program, which runs in the kernel under the      *)
(* guard, an isolated one, whose runtime is module UserApp, or neither.    *)
(* The erase dialog remembers the namespace generation: here, whether it   *)
(* is still the one asked about (a wrap of the 32 bit counter is left      *)
(* out).  The disk itself does not change at run time.                     *)
(***************************************************************************)
EXTENDS Integers, FiniteSets

CONSTANTS
    Kind,             \* file -> "trusted", "isolated" or "bad"
    Image,            \* the files of the boot image, in RAM
    MaxWin            \* slots for windows, that of Programs apart

VARIABLES
    prog,             \* the loader: see NoProgram
    user, other,      \* windows of the program and of other applications
    kv,               \* [mounted, files]
    offer,            \* Programs was last drawn with the erase button
    dialog            \* the erase dialog: [open, current, mounted]

storeVars == <<prog, user, other, kv, offer, dialog>>

\* loaded, app_file, isolated, app_faulted; broken and misuse are history: the
\* program crashed, a crashed program was called.
NoProgram == [loaded |-> FALSE, file |-> "", iso |-> FALSE, faulted |-> FALSE, broken |-> FALSE, misuse |-> FALSE]
NoDialog == [open |-> FALSE, current |-> FALSE, mounted |-> FALSE]
Files == DOMAIN Kind

Gone(P, crash) == [NoProgram EXCEPT !.faulted = P.faulted \/ crash, !.misuse = P.misuse]

\* One call into a trusted program, which returns or faults: kapp_recover
\* comes back to the guard.
Calls(P) ==
    {[P EXCEPT !.misuse = @ \/ P.broken, !.broken = @ \/ crash, !.faulted = @ \/ crash] : crash \in BOOLEAN}

\* kapp_unload.
Unload(P) ==
    IF ~P.loaded THEN {P}
    ELSE IF P.iso \/ P.faulted THEN {Gone(P, FALSE)}
    ELSE {Gone(C, FALSE) : C \in Calls(P)}

\* kapp_load of f: refused before the entry point is called, refused by it or
\* by a fault in it, or loaded.
Loaded(P, f) == [NoProgram EXCEPT !.loaded = TRUE, !.file = f, !.iso = Kind[f] = "isolated", !.misuse = P.misuse]
Found(f) == (kv.mounted /\ f \in kv.files) \/ f \in Image
KappLoad(P, f) ==
    UNION {
        {Q} \cup (IF Found(f) /\ Kind[f] # "bad" /\ ~Q.faulted THEN {Loaded(Q, f)} ELSE {})
            \cup (IF Found(f) /\ Kind[f] = "trusted" THEN {[Q EXCEPT !.faulted = TRUE]} ELSE {})
        : Q \in Unload([P EXCEPT !.faulted = FALSE])}

\* enter, the handler and leave; an isolated program that exits or fails is
\* unloaded by the pump.
Handler(P) ==
    IF ~P.loaded THEN {P}
    ELSE IF P.iso THEN {P, Gone(P, FALSE), Gone(P, TRUE)}
    ELSE IF P.faulted THEN Unload(P)
    ELSE Calls(P)

-----------------------------------------------------------------------------
\* win_close of a window of the program, for every such window.
CloseUser(P) == IF user = 0 THEN {P} ELSE Unload(P)

\* launch_user_app: without a slot the program goes again.
LaunchUserApp(f) ==
    /\ ~dialog.open
    /\ \E P \in CloseUser(prog) : \E Q \in KappLoad(P, f) :
        IF ~Q.loaded THEN prog' = Q /\ user' = 0
        ELSE IF other = MaxWin THEN prog' \in Unload(Q) /\ user' = 0
        ELSE prog' \in Handler(Q) /\ user' = 1
    /\ UNCHANGED <<other, kv, offer, dialog>>

\* A frame calls the tick and the draw handler; a key or a click its own.
Frame ==
    /\ user > 0
    /\ \E P \in Handler(prog) : prog' \in Handler(P)
    /\ UNCHANGED <<user, other, kv, offer, dialog>>
Input == user > 0 /\ prog' \in Handler(prog) /\ UNCHANGED <<user, other, kv, offer, dialog>>
CloseWindow ==
    /\ user > 0 /\ prog' \in Unload(prog) /\ user' = user - 1
    /\ UNCHANGED <<other, kv, offer, dialog>>
\* An icon: windows of other applications come and go.
OtherWindow ==
    /\ \/ user + other < MaxWin /\ other' = other + 1
       \/ other > 0 /\ other' = other - 1
    /\ UNCHANGED <<prog, user, kv, offer, dialog>>

\* The delete button of a row: a running program is unloaded and its windows
\* closed first.
DeleteProgram(f) ==
    /\ ~dialog.open /\ kv.mounted /\ f \in kv.files
    /\ IF prog.loaded /\ prog.file = f THEN prog' \in Unload(prog) /\ user' = 0
       ELSE UNCHANGED <<prog, user>>
    /\ kv' \in {[kv EXCEPT !.files = @ \ {f}], [kv EXCEPT !.mounted = FALSE]}
    /\ UNCHANGED <<other, offer, dialog>>

-----------------------------------------------------------------------------
\* KvFS below the window: kvfs_mount and kvfs_format begin with a new
\* namespace, a failed directory write ends with one.
Changed(d) == [d EXCEPT !.current = FALSE]
Mount(ok) == kv' = [kv EXCEPT !.mounted = ok]
StoreMountCheck ==
    /\ ~dialog.open /\ dialog' = Changed(dialog) /\ \E ok \in BOOLEAN : Mount(ok)
    /\ UNCHANGED <<prog, user, other, offer>>

\* Mutant: a mount from elsewhere leaves the open dialog as it was.
KvfsMountKeeps ==
    /\ \E ok \in BOOLEAN : Mount(ok)
    /\ UNCHANGED <<prog, user, other, offer, dialog>>

\* The same from the terminal or another window, whatever Programs shows.
KvfsMount ==
    /\ dialog' = Changed(dialog) /\ \E ok \in BOOLEAN : Mount(ok)
    /\ UNCHANGED <<prog, user, other, offer>>
KvfsFence ==
    /\ kv.mounted /\ kv' = [kv EXCEPT !.mounted = FALSE] /\ dialog' = Changed(dialog)
    /\ UNCHANGED <<prog, user, other, offer>>
KvfsWrite(f) ==
    /\ kv.mounted /\ kv' = [kv EXCEPT !.files = @ \cup {f}]
    /\ UNCHANGED <<prog, user, other, offer, dialog>>

\* Drawing Programs puts the erase button there while KvFS is not mounted.
Draw == offer' = (~kv.mounted /\ ~dialog.open) /\ UNCHANGED <<prog, user, other, kv, dialog>>
AskFormat ==
    /\ offer /\ ~dialog.open
    /\ dialog' = [open |-> TRUE, current |-> TRUE, mounted |-> kv.mounted]
    /\ UNCHANGED <<prog, user, other, kv, offer>>
\* Cancel, Escape, or the window of Programs closed.
CancelFormat == dialog.open /\ dialog' = NoDialog /\ UNCHANGED <<prog, user, other, kv, offer>>
\* store_format_apply: kvfs_format erases the records, or fails part way.
Valid == dialog.current
Erase ==
    /\ dialog.open /\ Valid
    /\ kv' \in {[mounted |-> TRUE, files |-> {}], [mounted |-> FALSE, files |-> {}],
                [mounted |-> FALSE, files |-> kv.files]}
    /\ dialog' = NoDialog
    /\ UNCHANGED <<prog, user, other, offer>>
EraseRefused == dialog.open /\ ~Valid /\ dialog' = NoDialog /\ UNCHANGED <<prog, user, other, kv, offer>>

StoreInit ==
    /\ prog = NoProgram /\ user = 0 /\ other = 0
    /\ kv \in [mounted : BOOLEAN, files : SUBSET Files]
    /\ offer = FALSE /\ dialog = NoDialog

StoreNext ==
    \/ Frame \/ Input \/ CloseWindow \/ OtherWindow \/ Draw
    \/ StoreMountCheck \/ KvfsMount \/ KvfsFence
    \/ AskFormat \/ CancelFormat \/ Erase \/ EraseRefused
    \/ \E f \in Files : LaunchUserApp(f) \/ DeleteProgram(f) \/ KvfsWrite(f)

StoreSpec == StoreInit /\ [][StoreNext]_storeVars
-----------------------------------------------------------------------------
\* A crash is final: no handler of a program that faulted is called again,
\* not even on_close, although app_faulted is cleared on the way into
\* kapp_load; and a loaded program has its one window, through launches
\* without a free slot, deletions and handlers that fail.
CrashIsFinal ==
    /\ ~prog.misuse
    /\ user <= 1 /\ (prog.loaded => user = 1)

\* Nobody loses a KvFS mounted after the question: between the question and
\* the erase it was neither mounted nor fenced (store_format_apply, and the
\* namespace change at the head of kvfs_mount).
ErasesAsAsked ==
    dialog.open /\ kv'.files # kv.files /\ dialog' = NoDialog => kv.mounted = dialog.mounted
=============================================================================
