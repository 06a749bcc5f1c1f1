-------------------------------- MODULE Input --------------------------------
(***************************************************************************)
(* The PS/2 keyboard and mouse: keyboard.c, mouse.c and keymap.c over the  *)
(* one output buffer of the i8042.  The controller offers a byte of either *)
(* device and latches its interrupt; the handlers, the timer's fallback    *)
(* poll and the exchange that sets the LEDs all read that buffer, while    *)
(* the desktop takes key events from the ring.                             *)
(*                                                                         *)
(* A byte is [of, what, id]: id numbers the bytes of the keyboard.         *)
(* Positions, the wheel, layouts and all keys but a few are left out.      *)
(***************************************************************************)
EXTENDS Integers, Sequences, FiniteSets, SequencesExt

CONSTANTS
    Scripts,        \* what the user types, and the bytes the mouse sends
    BufSize,        \* BUF_SIZE of the ring
    PollMax,        \* bytes a poll takes at most (8)
    MaxLeds         \* bound

VARIABLES
    out,        \* the output buffer: a byte, or Empty
    port,       \* what reading port 0x60 returns: the last byte
    irq,        \* interrupts latched: subset of {1, 12}
    routed,     \* whether IRQ1 reaches the processor at all
    polling,    \* bytes the poll in progress may still take, 0 outside it
    ring, got,  \* buf[] between tail and head; history: the events taken
    taking,     \* an event copied by kbd_getevent_nb before it moves the tail
    keymap,     \* [shift, caps, ext]
    mousekeys, release,     \* mousekeys; mk_release is set
    phase,      \* packet[]: the bytes of the mouse packet held
    physical, synthetic,    \* the left button of each source
    script, sent, moved, leds    \* the script, how much of it is done, the bound's counter

devVars == <<out, port, irq, routed>>
ringVars == <<ring, got, taking>>
keyVars == <<keymap, mousekeys, release>>
mouseVars == <<phase, physical, synthetic>>
bounds == <<script, sent, moved, leds>>
inputVars == <<devVars, polling, ringVars, keyVars, mouseVars, bounds>>

Empty == [of |-> "none"]
Ack == [of |-> "kbd", what |-> "ack", id |-> 0]
Full == out # Empty

-----------------------------------------------------------------------------
\* The controller: one byte at a time, and an edge on the line of its device.
Offer(b, line) == ~Full /\ out' = b /\ port' = b /\ irq' = irq \cup {line} /\ UNCHANGED routed
KeyArrives ==
    /\ sent < Len(script.keys) /\ sent' = sent + 1
    /\ Offer([of |-> "kbd", what |-> script.keys[sent'], id |-> sent'], 1)
    /\ UNCHANGED <<polling, ringVars, keyVars, mouseVars, script, moved, leds>>
MouseArrives ==
    /\ moved < Len(script.mouse) /\ moved' = moved + 1
    /\ Offer([of |-> "mouse", what |-> script.mouse[moved'], id |-> 0], 12)
    /\ UNCHANGED <<polling, ringVars, keyVars, mouseVars, script, sent, leds>>
Read == out' = Empty

-----------------------------------------------------------------------------
\* push: a full ring drops the event.
Room == Len(ring) < BufSize - 1
Push(e) == ring' = (IF Room THEN Append(ring, e) ELSE ring) /\ UNCHANGED <<got, taking>>
NoEvent == UNCHANGED ringVars

\* mouse_set_button of the left button, by the keypad.
SetButton(down) == synthetic' = down /\ UNCHANGED <<phase, physical>>

\* kbd_set_leds: whatever is read before the acknowledgement is thrown away,
\* whichever device it came from; the last byte read is the acknowledgement.
SetLeds == out' = Empty /\ port' = Ack
\* kbd_mousekeys_set
MousekeysSet(on) ==
    /\ mousekeys' = on /\ release' = FALSE
    /\ IF on THEN UNCHANGED mouseVars ELSE SetButton(FALSE)
    /\ SetLeds

\* keymap_feed of a byte with kbd_cb around it: the keypad drives the button
\* while NumLock is on, NumLock toggles that, and the rest are keys.
Feed(b) ==
    LET keypad == mousekeys /\ ~keymap.ext IN
    CASE b.of = "mouse" \/ b.what = "other" ->
            keymap' = [keymap EXCEPT !.ext = FALSE] /\ Push(b) /\ Read
            /\ UNCHANGED <<port, mousekeys, release, mouseVars>>
      [] b.what = "ack" -> Read /\ NoEvent /\ UNCHANGED <<port, keyVars, mouseVars>>
      [] b.what = "e0" -> keymap' = [keymap EXCEPT !.ext = TRUE] /\ Read /\ NoEvent
            /\ UNCHANGED <<port, mousekeys, release, mouseVars>>
      [] b.what = "up" -> keymap' = [keymap EXCEPT !.ext = FALSE] /\ Read /\ NoEvent
            /\ UNCHANGED <<port, mousekeys, release, mouseVars>>
      [] b.what \in {"shift", "unshift"} ->
            /\ keymap' = [keymap EXCEPT !.shift = (b.what = "shift"), !.ext = FALSE]
            /\ Read /\ NoEvent /\ UNCHANGED <<port, mousekeys, release, mouseVars>>
      [] b.what = "caps" ->
            /\ keymap' = [keymap EXCEPT !.caps = ~@, !.ext = FALSE]
            /\ SetLeds /\ NoEvent /\ UNCHANGED <<mousekeys, release, mouseVars>>
      [] b.what = "num" /\ ~keymap.ext -> MousekeysSet(~mousekeys) /\ NoEvent /\ UNCHANGED keymap
      [] b.what = "num" /\ keymap.ext ->
            keymap' = [keymap EXCEPT !.ext = FALSE] /\ Read /\ NoEvent /\ UNCHANGED <<port, mousekeys, release, mouseVars>>
      [] b.what = "5" /\ keypad -> release' = TRUE /\ SetButton(TRUE) /\ Read /\ NoEvent
            /\ UNCHANGED <<port, keymap, mousekeys>>
      [] b.what = "0" /\ keypad -> release' = FALSE /\ SetButton(TRUE) /\ Read /\ NoEvent
            /\ UNCHANGED <<port, keymap, mousekeys>>
      [] b.what = "." /\ keypad -> release' = FALSE /\ SetButton(FALSE) /\ Read /\ NoEvent
            /\ UNCHANGED <<port, keymap, mousekeys>>
      [] OTHER -> keymap' = [keymap EXCEPT !.ext = FALSE] /\ Push(b) /\ Read
            /\ UNCHANGED <<port, mousekeys, release, mouseVars>>

\* Mutant: the port is read whatever the status says.
KbdCbBlind == Feed(port)

\* kbd_cb: the port is read only when the buffer holds a byte, of whichever
\* device.  Otherwise the last byte would be taken again.
KbdCb == IF Full THEN Feed(out) ELSE UNCHANGED <<out, port, ringVars, keyVars, mouseVars>>

\* mouse_cb: three bytes make a packet, the first of which is known by a bit
\* ("head" and "press" have it).
MouseCb ==
    IF ~Full \/ out.of # "mouse" THEN UNCHANGED <<out, mouseVars>>
    ELSE /\ Read /\ UNCHANGED synthetic
         /\ IF phase = <<>> /\ out.what = "data" THEN UNCHANGED <<phase, physical>>
            ELSE IF Len(phase) < 2 THEN phase' = Append(phase, out.what) /\ UNCHANGED physical
            ELSE phase' = <<>> /\ physical' = (phase[1] = "press")

Irq1 ==
    /\ 1 \in irq /\ routed /\ polling = 0 /\ irq' = irq \ {1}
    /\ KbdCb
    /\ UNCHANGED <<routed, polling, bounds>>
Irq12 ==
    /\ 12 \in irq /\ polling = 0 /\ irq' = irq \ {12}
    /\ MouseCb
    /\ UNCHANGED <<routed, port, polling, ringVars, keyVars, bounds>>

\* kbd_poll, from the timer with interrupts off: bytes of the keyboard while
\* there are any; then a click of the keypad whose time is over is released.
Ours == Full /\ out.of # "mouse"
PollBegin == polling = 0 /\ Ours /\ polling' = PollMax /\ UNCHANGED <<devVars, ringVars, keyVars, mouseVars, bounds>>
PollByte ==
    /\ polling > 0 /\ Ours /\ KbdCb
    /\ polling' = polling - 1
    /\ UNCHANGED <<irq, routed, bounds>>
PollEnd ==
    /\ polling > 0 /\ ~Ours /\ polling' = 0
    /\ UNCHANGED <<devVars, ringVars, keyVars, mouseVars, bounds>>
ClickEnds ==
    /\ polling = 0 /\ release /\ release' = FALSE /\ SetButton(FALSE)
    /\ UNCHANGED <<devVars, polling, ringVars, keymap, mousekeys, bounds>>

\* kbd_getevent_nb, interrupts on: the event is copied, then the tail moves.
TakeEvent ==
    /\ polling = 0 /\ taking = <<>> /\ ring # <<>> /\ taking' = <<Head(ring)>>
    /\ UNCHANGED <<devVars, polling, ring, got, keyVars, mouseVars, bounds>>
MoveTail ==
    /\ polling = 0 /\ taking # <<>> /\ ring' = Tail(ring)
    /\ got' = Append(got, taking[1]) /\ taking' = <<>>
    /\ UNCHANGED <<devVars, polling, keyVars, mouseVars, bounds>>

\* The shell sets the LEDs, or the desktop turns MouseKeys on or off.
LedsCommand ==
    /\ polling = 0 /\ leds < MaxLeds /\ leds' = leds + 1
    /\ \/ SetLeds /\ UNCHANGED <<mousekeys, release, mouseVars>>
       \/ MousekeysSet(~mousekeys)
    /\ UNCHANGED <<irq, routed, polling, ringVars, keymap, script, sent, moved>>

InputInit ==
    /\ out = Empty /\ port = Ack /\ irq = {} /\ routed \in BOOLEAN
    /\ polling = 0 /\ ring = <<>> /\ got = <<>> /\ taking = <<>>
    /\ keymap = [shift |-> FALSE, caps |-> FALSE, ext |-> FALSE]
    /\ mousekeys = FALSE /\ release = FALSE
    /\ phase = <<>> /\ physical = FALSE /\ synthetic = FALSE
    /\ script \in Scripts /\ sent = 0 /\ moved = 0 /\ leds = 0

InputNext ==
    \/ KeyArrives \/ MouseArrives
    \/ Irq1 \/ Irq12 \/ PollBegin \/ PollByte \/ PollEnd \/ ClickEnds
    \/ TakeEvent \/ MoveTail \/ LedsCommand

\* The timer interrupts and the processor serves what is latched.
InputSpec == InputInit /\ [][InputNext]_inputVars /\ WF_inputVars(PollBegin) /\ WF_inputVars(PollByte) /\ WF_inputVars(PollEnd) /\ WF_inputVars(Irq12)

-----------------------------------------------------------------------------
\* No key is doubled and none overtakes another: of the bytes the keyboard
\* sent, the desktop takes each at most once and in the order typed, whichever
\* of the interrupt and the poll was first, also when the ring is full and
\* when a switch of the LEDs swallows some (keyboard.c:19, 125).
KeysOnce ==
    LET events == got \o taking \o (IF taking = <<>> THEN ring ELSE Tail(ring)) IN
    \A i, j \in DOMAIN events :
        i < j /\ events[i].of = "kbd" /\ events[j].of = "kbd" => events[i].id < events[j].id
=============================================================================
