-------------------------------- MODULE Modes ---------------------------------
(***************************************************************************)
(* Changing the resolution from the desktop: kernel/gui.c,                 *)
(* mode_switch_buffered, settings_apply and the undo of a change nobody    *)
(* confirms; kernel/vbe.c, vbe_set_mode; kernel/fb.c, fb_remap.            *)
(*                                                                         *)
(* A switch is taken at its allocations, between which the other tasks of  *)
(* the kernel allocate and free.  Memory is a number of units, so that an  *)
(* allocation fails exactly when too few are free: fragmentation is left   *)
(* out.  The adapter may refuse a mode before or after it took it, and may *)
(* widen the line of a mode it takes.                                      *)
(***************************************************************************)
EXTENDS Integers

CONSTANTS
    Modes,            \* the modes of mode_table
    Estimate,         \* mode -> what mode_switch_buffered estimates it needs
    Sizes,            \* mode -> what pitch * height may turn out to be
    BootMode,
    Memory,           \* what the desktop and the other tasks share
    Takes             \* what the other tasks may hold

VARIABLES
    others,           \* memory of the other tasks
    backbuf, cache,   \* sizes of backbuf and desktop_cache, 0 when NULL
    fb,               \* [mode, size]: what the framebuffer driver draws
    hw,               \* the mode the adapter scans out
    scr,              \* the mode scr_w and scr_h are of
    undo,             \* [armed, mode]: revert_armed and revert_mode
    sw,               \* the switch in progress: [at, want, fallback, nb, undoing]
    accepted, lost    \* history: the last mode confirmed; a way back failed

modeVars == <<others, backbuf, cache, fb, hw, scr, undo, sw, accepted, lost>>
None == "none"
Quiet == [at |-> "idle", want |-> None, fallback |-> None, nb |-> 0, undoing |-> FALSE]

Free == Memory - others - backbuf - cache - sw.nb
\* kmalloc: the size, or NULL.
Got(size, free) == IF size <= free THEN size ELSE 0

\* The adapters there are: no mode is called None, and the boot mode fits
\* beside whatever the other tasks hold.
WellSized ==
    /\ None \notin Modes /\ BootMode \in Modes
    /\ Memory \in Nat /\ Takes \subseteq Nat
    /\ \A m \in Modes : Estimate[m] \in Nat /\ Sizes[m] \subseteq Nat
    /\ \A t \in Takes, s \in Sizes[BootMode] : t + s <= Memory

-----------------------------------------------------------------------------
\* vbe_set_mode: out(ok, mode scanned, framebuffer) of asking for m.
SetMode(m) ==
    {[ok |-> FALSE, hw |-> hw, fb |-> fb]}                          \* refused
    \cup {[ok |-> FALSE, hw |-> h, fb |-> fb] : h \in {m, None}}    \* not mapped; not what was asked
    \cup {[ok |-> TRUE, hw |-> m, fb |-> [mode |-> m, size |-> s]] : s \in Sizes[m]}

\* The other tasks allocate and free at any time.
OthersTake ==
    /\ others' \in Takes /\ others' <= others + Free
    /\ UNCHANGED <<backbuf, cache, fb, hw, scr, undo, sw, accepted, lost>>

\* build_desktop_cache, at a redraw.
BuildCache ==
    /\ sw.at = "idle" /\ cache = 0
    /\ cache' = Got(fb.size, Free)
    /\ UNCHANGED <<others, backbuf, fb, hw, scr, undo, sw, accepted, lost>>

\* mode_switch_buffered begins by releasing both buffers.
Release(m, fallback, undoing) ==
    /\ backbuf' = 0 /\ cache' = 0
    /\ sw' = [at |-> "released", want |-> m, fallback |-> fallback, nb |-> 0, undoing |-> undoing]
    /\ UNCHANGED <<others, fb, hw, scr, accepted, lost>>

\* A key or a click confirms the change on trial; settings_apply then takes
\* another mode.
SettingsApply(m) ==
    /\ sw.at = "idle" /\ ~undo.armed /\ m # fb.mode
    /\ Release(m, fb.mode, FALSE) /\ UNCHANGED undo
Confirm ==
    /\ sw.at = "idle" /\ undo.armed
    /\ undo' = [undo EXCEPT !.armed = FALSE] /\ accepted' = fb.mode
    /\ UNCHANGED <<others, backbuf, cache, fb, hw, scr, sw, lost>>
\* Escape, or the deadline: mode_revert_now.
ModeRevertNow ==
    /\ sw.at = "idle" /\ undo.armed
    /\ undo' = [undo EXCEPT !.armed = FALSE]
    /\ Release(undo.mode, None, TRUE)

Reserve ==
    /\ sw.at = "released"
    /\ LET nb == Got(Estimate[sw.want], Free) IN
        sw' = [sw EXCEPT !.at = IF nb = 0 THEN "failed" ELSE "reserved", !.nb = nb]
    /\ UNCHANGED <<others, backbuf, cache, fb, hw, scr, undo, accepted, lost>>

\* Mutant: the buffer is taken for large enough whatever line the adapter took.
AskTrusts ==
    /\ sw.at = "reserved"
    /\ \E r \in SetMode(sw.want) :
        /\ hw' = r.hw /\ fb' = r.fb
        /\ sw' = IF r.ok THEN [sw EXCEPT !.at = "taken"] ELSE [sw EXCEPT !.at = "failed", !.nb = 0]
    /\ UNCHANGED <<others, backbuf, cache, scr, undo, accepted, lost>>

\* vbe_set_mode, then the line it really took.
Ask ==
    /\ sw.at = "reserved"
    /\ \E r \in SetMode(sw.want) :
        /\ hw' = r.hw /\ fb' = r.fb
        /\ sw' = IF ~r.ok THEN [sw EXCEPT !.at = "failed", !.nb = 0]
                 ELSE IF r.fb.size > sw.nb THEN [sw EXCEPT !.at = "wider", !.nb = 0]
                 ELSE [sw EXCEPT !.at = "taken"]
    /\ UNCHANGED <<others, backbuf, cache, scr, undo, accepted, lost>>

\* The adapter took a wider line than estimated: a larger buffer, or back.
Widen ==
    /\ sw.at = "wider" /\ Got(fb.size, Free) # 0
    /\ sw' = [sw EXCEPT !.at = "taken", !.nb = Got(fb.size, Free)]
    /\ UNCHANGED <<others, backbuf, cache, fb, hw, scr, undo, accepted, lost>>
TooWide ==
    /\ sw.at = "wider" /\ Got(fb.size, Free) = 0
    /\ \E r \in IF sw.fallback = None THEN {[ok |-> TRUE, hw |-> hw, fb |-> fb]} ELSE SetMode(sw.fallback) :
        hw' = r.hw /\ fb' = r.fb /\ lost' = (lost \/ ~r.ok)
    /\ sw' = [sw EXCEPT !.at = "back"]
    /\ UNCHANGED <<others, backbuf, cache, scr, undo, accepted>>

\* The result reaches settings_apply, which arms the undo, or mode_revert_now.
Adopt ==
    /\ sw.at = "taken"
    /\ scr' = fb.mode /\ backbuf' = sw.nb /\ sw' = Quiet
    /\ undo' = IF sw.undoing THEN undo ELSE [armed |-> TRUE, mode |-> sw.fallback]
    /\ UNCHANGED <<others, cache, fb, hw, accepted, lost>>
\* On a failure the buffer is allocated again for the mode there is.
Restore ==
    /\ sw.at \in {"failed", "back"}
    /\ backbuf' = Got(fb.size, Free)
    /\ scr' = IF sw.at = "back" THEN fb.mode ELSE scr
    /\ sw' = Quiet /\ lost' = (lost \/ sw.undoing)
    /\ UNCHANGED <<others, cache, fb, hw, undo, accepted>>

ModesInit ==
    /\ others \in Takes
    /\ \E s \in Sizes[BootMode] : fb = [mode |-> BootMode, size |-> s] /\ backbuf = s
    /\ cache = 0 /\ hw = BootMode /\ scr = BootMode
    /\ undo = [armed |-> FALSE, mode |-> None] /\ sw = Quiet
    /\ accepted = BootMode /\ lost = FALSE

Step == Reserve \/ Ask \/ Widen \/ TooWide \/ Adopt \/ Restore
ModesNext ==
    \/ OthersTake \/ BuildCache \/ Confirm \/ ModeRevertNow \/ Step
    \/ \E m \in Modes : SettingsApply(m)

ModesSpec == ModesInit /\ [][ModesNext]_modeVars
-----------------------------------------------------------------------------
\* What is drawn fits what it is drawn into: between switches the back buffer
\* and the cache hold a whole screen of the mode the driver draws, whatever
\* line the adapter chose and whichever allocation failed, and the desktop
\* lays itself out for that mode (mode_switch_buffered).
BufferFits ==
    /\ sw.at = "idle" =>
        /\ backbuf # 0 => backbuf >= fb.size
        /\ cache # 0 => cache >= fb.size
        /\ scr = fb.mode
    /\ Free >= 0

\* An unconfirmed mode is on trial: the undo leads back to the last mode the
\* user accepted, until a way back has failed; and while nothing is on trial
\* that is the mode drawn (mode_revert_now,
\* settings_apply).
UndoLeadsBack ==
    ~lost /\ sw.at = "idle" =>
        IF undo.armed THEN undo.mode = accepted /\ fb.mode # accepted ELSE fb.mode = accepted
=============================================================================
