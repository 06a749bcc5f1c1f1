------------------------------- MODULE Damage -------------------------------
(***************************************************************************)
(* The windows of the desktop and what of the screen is redrawn:           *)
(* kernel/gui.c, wins[] and z_order[], the damage list, the clickable      *)
(* areas of the last frame and the pointer painted over it.                *)
(*                                                                         *)
(* The screen is a small grid, a window covers whole cells.  The model     *)
(* keeps, not the picture, but the cells whose picture is out of date, and *)
(* of the clickable areas how many a window has in the one list all share. *)
(* Shadows, icons, the launcher, the banner and the tooltip, which damage  *)
(* fixed areas of their own, are left out.                                 *)
(***************************************************************************)
EXTENDS Integers, Sequences, FiniteSets, FiniteSetsExt

CONSTANTS
    ScrW, ScrH,       \* cells; the last row is the panel
    MaxWin,           \* MAX_WIN
    Frame,            \* application -> [x, y, w, h] of its window when opened
    Places,           \* corners a window may be dragged to
    Pointers,         \* cells the pointer may be in
    MaxDirty,         \* GUI_MAX_DIRTY
    Areas,            \* application -> [least, most] clickable areas a drawing of it adds
    MaxHit            \* MAX_HIT

VARIABLES
    wins,             \* slot -> [used, app, min, x, y]
    z,                \* z_order[0 .. win_count - 1]
    dragging,
    dirty,            \* [rects, all]: the damage list and dirty_all
    stale,            \* history: cells drawn before what they show changed
    hits,             \* slot -> its clickable areas and what they were drawn for
    pointer, drawn,   \* the sample of the mouse, and where the pointer is painted
    phase             \* where the loop is: "keys", "mouse" or "frame"

deskVars == <<wins, z, dragging, dirty, stale, hits, pointer, drawn, phase>>

Apps == DOMAIN Frame
Windows == 1 .. MaxWin
NoApp == ""
\* n of the areas that were drawn are in the list; crowded is history: the
\* windows in sight had more between them than the list takes.
NoHit == [app |-> NoApp, x |-> 0, y |-> 0, n |-> 0, of |-> 0, crowded |-> FALSE]
Cells == (0 .. ScrW - 1) \X (0 .. ScrH - 1)
Panel == {c \in Cells : c[2] = ScrH - 1}
PanelRect == [x |-> 0, y |-> ScrH - 1, w |-> ScrW, h |-> 1]

\* handle_drag leaves some of a window on the screen; so does every place a
\* window is opened at.
DesktopSound ==
    /\ {ScrW, ScrH} \subseteq Nat \ {0} /\ {MaxWin, MaxDirty, MaxHit} \subseteq Nat
    /\ Areas \in [Apps -> [least : Nat, most : Nat]]
    /\ Places \subseteq Int \X Int /\ Pointers \subseteq Int \X Int
    /\ \A app \in Apps :
        /\ {Frame[app].x, Frame[app].y} \subseteq Int /\ {Frame[app].w, Frame[app].h} \subseteq Nat \ {0}
        /\ \A p \in Places \cup {<<Frame[app].x, Frame[app].y>>} :
            p[1] < ScrW /\ p[1] + Frame[app].w > 0 /\ p[2] < ScrH /\ p[2] + Frame[app].h > 0

Lesser(a, b) == IF a < b THEN a ELSE b
Greater(a, b) == IF a > b THEN a ELSE b
InRect(c, r) == c[1] >= r.x /\ c[1] < r.x + r.w /\ c[2] >= r.y /\ c[2] < r.y + r.h
RectOf(v) == [x |-> v.x, y |-> v.y, w |-> Frame[v.app].w, h |-> Frame[v.app].h]

-----------------------------------------------------------------------------
\* A desktop d = [wins, z]: the window operations of gui.c.
Visible(v) == v.used /\ ~v.min
Position(d, id) ==
    LET K == {k \in DOMAIN d.z : d.z[k] = id} IN IF K = {} THEN 0 ELSE Min(K)
Highest(d, K) == IF K = {} THEN 0 ELSE d.z[Max(K)]
\* top_window and window_at
Top(d) == Highest(d, {k \in DOMAIN d.z : Visible(d.wins[d.z[k]])})
At(d, c) == Highest(d, {k \in DOMAIN d.z : Visible(d.wins[d.z[k]]) /\ InRect(c, RectOf(d.wins[d.z[k]]))})

\* raise_window, win_close: what lies above moves down by one.
Raise(d, id) ==
    LET p == Position(d, id) n == Len(d.z) IN
    IF p = 0 THEN d
    ELSE [d EXCEPT !.z = [k \in 1 .. n |-> IF k < p THEN d.z[k] ELSE IF k < n THEN d.z[k + 1] ELSE id]]
Close(d, id) ==
    LET p == Position(d, id) IN
    [wins |-> [d.wins EXCEPT ![id].used = FALSE],
     z |-> IF p = 0 THEN d.z
           ELSE [k \in 1 .. Len(d.z) - 1 |-> IF k < p THEN d.z[k] ELSE d.z[k + 1]]]
\* win_open: the first slot that is free, or nothing.
WinOpen(d, app) ==
    LET free == {i \in Windows : ~d.wins[i].used}
        i == Min(free) IN
    IF free = {} THEN d
    ELSE [wins |-> [d.wins EXCEPT ![i] = [used |-> TRUE, app |-> app, min |-> FALSE,
                                          x |-> Frame[app].x, y |-> Frame[app].y]],
          z |-> Append(d.z, i)]
\* open_app: the window the application has is restored and raised.
OpenApp(d, app) ==
    LET own == {i \in Windows : d.wins[i].used /\ d.wins[i].app = app} IN
    IF own = {} THEN WinOpen(d, app) ELSE Raise([d EXCEPT !.wins[Min(own)].min = FALSE], Min(own))

\* What the cells above the panel show, and what the panel does.
Picture(d) ==
    [c \in Cells \ Panel |-> LET id == At(d, c) IN IF id = 0 THEN <<>> ELSE <<id, d.wins[id]>>]
Buttons(d) == <<d.z, Top(d)>>

-----------------------------------------------------------------------------
\* damage_touches: rectangles that only share an edge are merged too.
Touch(a, b) == a.x <= b.x + b.w /\ b.x <= a.x + a.w /\ a.y <= b.y + b.h /\ b.y <= a.y + a.h
Overlap(a, b) == a.x < b.x + b.w /\ b.x < a.x + a.w /\ a.y < b.y + b.h /\ b.y < a.y + a.h
\* The smallest rectangle around those of R.
Box(R) ==
    LET x == Min({r.x : r \in R})
        y == Min({r.y : r \in R}) IN
    [x |-> x, y |-> y, w |-> Max({r.x + r.w : r \in R}) - x, h |-> Max({r.y + r.h : r \in R}) - y]
Area(R) == MapThenSumSet(LAMBDA r : r.w * r.h, R)
Everything == [rects |-> {}, all |-> TRUE]
OnScreen(r) ==
    LET x == Greater(r.x, 0) y == Greater(r.y, 0) IN
    [x |-> x, y |-> y, w |-> Lesser(r.x + r.w, ScrW) - x, h |-> Lesser(r.y + r.h, ScrH) - y]

\* Mutant: what the grown rectangle touches in turn is not merged.
MergedOnce(r, R) == Box({r} \cup {b \in R : Touch(r, b)})

\* The box of a rectangle and what it touches, and of what that touches in
\* turn.
Merged(r, R) ==
    LET grow[k \in 0 .. Cardinality(R)] ==
            IF k = 0 THEN r
            ELSE LET g == grow[k - 1] IN Box({g} \cup {b \in R : Touch(g, b)}) IN
    grow[Cardinality(R)]

\* damage_add_rect: the list is kept apart and short, and half a screen of
\* damage is the whole screen.
Add(D, rect) ==
    LET r == OnScreen(rect)
        m == Merged(r, D.rects)
        kept == {b \in D.rects : ~Touch(m, b)}
        R == kept \cup {m} IN
    IF D.all \/ rect.w <= 0 \/ rect.h <= 0 \/ r.w <= 0 \/ r.h <= 0 THEN D
    ELSE IF Cardinality(kept) >= MaxDirty \/ 2 * Area(R) > ScrW * ScrH THEN Everything
    ELSE [rects |-> R, all |-> FALSE]
AddWindow(D, v) == IF Visible(v) THEN Add(D, RectOf(v)) ELSE D

\* gui_damage_after_input: the windows that differ from the snapshot, or
\* whose place in the order does, where they were and where they are, then
\* the window the input went to, and the panel.
Moved(d, e, i) == d.wins[i] # e.wins[i] \/ Position(d, i) # Position(e, i)
Both(D, d, e, i) == AddWindow(AddWindow(D, d.wins[i]), e.wins[i])
After(D, d, e, content) ==
    LET marked[i \in 0 .. MaxWin] ==
            IF i = 0 THEN D
            ELSE IF Moved(d, e, i) THEN Both(marked[i - 1], d, e, i) ELSE marked[i - 1]
        inner == IF content = 0 THEN marked[MaxWin] ELSE Both(marked[MaxWin], d, e, content) IN
    IF \E i \in Windows : Moved(d, e, i) THEN Add(inner, PanelRect) ELSE inner

-----------------------------------------------------------------------------
Now == [wins |-> wins, z |-> z]
Turn(desktop, content) ==
    /\ \E d \in {desktop} :
        LET old == Picture(Now) new == Picture(d) IN
        /\ wins' = d.wins /\ z' = d.z
        /\ dirty' = After(dirty, Now, d, content)
        /\ stale' = stale
              \cup {c \in DOMAIN new : old[c] # new[c] \/ (new[c] # <<>> /\ new[c][1] = content)}
              \cup (IF Buttons(d) # Buttons(Now) THEN Panel ELSE {})
    /\ UNCHANGED drawn
\* win_close takes the areas of the window along.
Keep == UNCHANGED <<dragging, hits>>
CloseWindow(id) ==
    /\ Turn(Close(Now, id), 0)
    /\ hits' = [hits EXCEPT ![id] = NoHit]
    /\ UNCHANGED dragging

\* The keys of one turn of the loop, for the window on top; Escape closes
\* that of an application.
AtKeys == phase = "keys" /\ UNCHANGED <<phase, pointer>>
Key == AtKeys /\ Top(Now) # 0 /\ Turn(Now, Top(Now)) /\ Keep
Escape == AtKeys /\ Top(Now) # 0 /\ wins[Top(Now)].app = "user" /\ CloseWindow(Top(Now))

\* Then one sample of the mouse.
AtMouse == phase = "keys" /\ phase' = "frame" /\ pointer' \in Pointers
Rest == AtMouse /\ UNCHANGED <<wins, z, dragging, dirty, stale, hits, drawn>>
\* handle_click inside window id, at its close box, its minimise box, its
\* title bar or its contents.
Clicked(id) ==
    AtMouse /\ wins[id].used /\ \E c \in Cells \ Panel : InRect(c, RectOf(wins[id])) /\ At(Now, c) = id
ClickClose(id) == Clicked(id) /\ CloseWindow(id)
ClickMinimize(id) == Clicked(id) /\ Turn(Raise([Now EXCEPT !.wins[id].min = TRUE], id), id) /\ Keep
ClickTitle(id) == Clicked(id) /\ Turn(Raise(Now, id), id) /\ dragging' = id /\ UNCHANGED hits
ClickInside(id) == Clicked(id) /\ Turn(Raise(Now, id), id) /\ Keep
\* A click on the taskbar, where every window has its button.
Taskbar(id) ==
    /\ AtMouse /\ wins[id].used
    /\ Turn(IF id = Top(Now) THEN [Now EXCEPT !.wins[id].min = TRUE]
            ELSE Raise([Now EXCEPT !.wins[id].min = FALSE], id), 0)
    /\ Keep
\* An icon, or a row of the launcher.
Open(app) == AtMouse /\ Turn(OpenApp(Now, app), 0) /\ Keep
\* handle_drag and the release of the button.
Drag ==
    /\ AtMouse /\ dragging # 0 /\ wins[dragging].used
    /\ \E p \in Places : Turn([Now EXCEPT !.wins[dragging].x = p[1], !.wins[dragging].y = p[2]], dragging)
    /\ Keep
Release == AtMouse /\ dragging # 0 /\ dragging' = 0 /\ UNCHANGED <<wins, z, dirty, stale, hits, drawn>>

\* The end of the loop: the periodic update damages every visible window,
\* the pointer the cells it left and entered, and render_damage redraws.
At1(c) == [x |-> c[1], y |-> c[2], w |-> 1, h |-> 1]
Damaged(due) ==
    LET updated[i \in 0 .. MaxWin] == IF i = 0 THEN dirty ELSE AddWindow(updated[i - 1], wins[i])
        D == IF due THEN Add(updated[MaxWin], PanelRect) ELSE dirty IN
    IF pointer # drawn THEN Add(Add(D, At1(drawn)), At1(pointer)) ELSE D
\* The places of the hit list that the windows hold: hit_count of them.
Taken(h) == UNION {{i} \X (1 .. h[i].n) : i \in Windows}
HitCount(h) == Cardinality(Taken(h))
\* Those the windows in sight may ask for.
Possible == UNION {{i} \X (1 .. Areas[wins[i].app].most) : i \in {j \in Windows : Visible(wins[j])}}

\* The areas of a window out of sight are dropped, of all in a full redraw
\* (hit_prune_invisible, hit_reset); then the windows drawn, from the lowest
\* up, give theirs back and add them anew (hit_remove_window, draw_window), as
\* many of the asked[i] as the list still takes (hit_add).
Redrawn(D, v) == Visible(v) /\ (D.all \/ \E r \in D.rects : Overlap(r, RectOf(v)))
Left(D) == [i \in Windows |-> IF D.all \/ ~Visible(wins[i]) THEN NoHit ELSE hits[i]]
Draw(h, i, n) ==
    LET g == [h EXCEPT ![i] = NoHit] IN
    [g EXCEPT ![i] = [app |-> wins[i].app, x |-> wins[i].x, y |-> wins[i].y,
                      n |-> Lesser(n, MaxHit - HitCount(g)), of |-> n,
                      crowded |-> Cardinality(Possible) > MaxHit]]
HitsAfter(D, asked) ==
    LET after[k \in 0 .. Len(z)] ==
            IF k = 0 THEN Left(D)
            ELSE IF Redrawn(D, wins[z[k]]) THEN Draw(after[k - 1], z[k], asked[z[k]])
            ELSE after[k - 1] IN
    after[Len(z)]
\* What a drawing adds depends on what the window shows.
Asks(v) == IF Visible(v) THEN Areas[v.app].least .. Areas[v.app].most ELSE {0}
Asked == {a \in [Windows -> UNION {Asks(wins[i]) : i \in Windows}] :
            \A i \in Windows : a[i] \in Asks(wins[i])}
Render(D) ==
    /\ D.all \/ D.rects # {}
    /\ stale' = {c \in stale : ~D.all /\ \A r \in D.rects : ~InRect(c, r)}
    /\ \E asked \in Asked : hits' = HitsAfter(D, asked)
    /\ dirty' = [rects |-> {}, all |-> FALSE]
    /\ drawn' = pointer
    /\ UNCHANGED <<wins, z, dragging>>
FrameEnds(due) ==
    /\ phase = "frame" /\ phase' = "keys" /\ UNCHANGED pointer
    /\ \E D \in {Damaged(due)} :
        \/ Render(D)
        \/ ~D.all /\ D.rects = {} /\ UNCHANGED <<wins, z, dragging, dirty, stale, hits, drawn>>

DeskInit ==
    /\ wins = [i \in Windows |-> [used |-> FALSE, app |-> NoApp, min |-> FALSE, x |-> 0, y |-> 0]]
    /\ z = <<>> /\ dragging = 0
    /\ dirty = Everything /\ stale = Cells
    /\ hits = [i \in Windows |-> NoHit]
    /\ pointer \in Pointers /\ drawn = pointer /\ phase = "keys"

InWindow(id) == ClickClose(id) \/ ClickMinimize(id) \/ ClickTitle(id) \/ ClickInside(id) \/ Taskbar(id)
DeskNext ==
    \/ Key \/ Escape \/ Rest \/ Drag \/ Release
    \/ \E id \in Windows : InWindow(id)
    \/ \E app \in Apps : Open(app)
    \/ \E due \in BOOLEAN : FrameEnds(due)

DeskSpec == DeskInit /\ [][DeskNext]_deskVars

-----------------------------------------------------------------------------
\* Nothing out of date escapes the damage list (damage_add_rect,
\* gui_damage_after_input): every cell that shows something else than when
\* it was drawn lies in a rectangle still to be redrawn, through merging,
\* clipping, the cap on the list and the rule of half the screen.  The
\* highlight of the title bar is not in it: minimising the window above
\* leaves it to the periodic update.
ScreenFollows ==
    /\ ~dirty.all => \A c \in stale : \E r \in dirty.rects : InRect(c, r)
    /\ \A a, b \in dirty.rects : a # b => ~Touch(a, b)

\* The clickable areas belong to what their slot holds (win_close,
\* hit_remove_window, hit_prune_invisible): never to the application that had
\* the slot before, and with nothing left to redraw those of a visible window
\* are where the window is.  The list never overflows, and what it refused was
\* drawn while the windows in sight had more areas than it takes: no closed,
\* minimised or redrawn window leaves any behind that fill it (hit_add drops
\* the rest without a word, gui.c:144-146, so that the upper windows of a
\* crowded screen have areas that do not answer).
HitsFollow ==
    /\ HitCount(hits) <= MaxHit
    /\ \A i \in Windows :
        /\ hits[i] # NoHit => wins[i].used /\ wins[i].app = hits[i].app
        /\ hits[i].n = hits[i].of \/ hits[i].crowded
        /\ (Visible(wins[i]) /\ dirty = [rects |-> {}, all |-> FALSE])
              => /\ hits[i].app = wins[i].app
                 /\ hits[i].x = wins[i].x /\ hits[i].y = wins[i].y
=============================================================================
