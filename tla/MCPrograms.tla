------------------------------ MODULE MCPrograms ------------------------------
(***************************************************************************)
(* Applications and what they run on, checked together: every initial      *)
(* state picks a scene, one component that then runs alone.  Scene "app"   *)
(* is the runtime of isolated applications itself; the windows of          *)
(* installed programs, the display settings, the compiler and the keyboard *)
(* with its mouse are instances whose variables are v1 to v18, those a     *)
(* component does not need 0.                                              *)
(***************************************************************************)
EXTENDS UserApp, TLC

VARIABLES scene, v1, v2, v3, v4, v5, v6, v7, v8, v9, v10, v11, v12, v13, v14, v15,
          v16, v17, v18

MCKind == [game |-> "trusted", box |-> "isolated", text |-> "bad"]
Window == INSTANCE Programs WITH
    Kind <- MCKind, Image <- {"box"}, MaxWin <- 2, prog <- v1, user <- v2,
    other <- v3, kv <- v4, offer <- v5, dialog <- v6

MCModes == {"small", "wide", "large"}
MCEstimate == [m \in MCModes |-> CASE m = "small" -> 2 [] m = "wide" -> 3 [] m = "large" -> 4]
MCSizes == [m \in MCModes |-> CASE m = "small" -> {2} [] m = "wide" -> {3, 4} [] m = "large" -> {4, 5}]
Mode == INSTANCE Modes WITH
    Modes <- MCModes, Estimate <- MCEstimate, Sizes <- MCSizes,
    BootMode <- "small", Memory <- 9, Takes <- {0, 3, 6}, others <- v1,
    backbuf <- v2, cache <- v3, fb <- v4, hw <- v5, scr <- v6, undo <- v7,
    sw <- v8, accepted <- v9, lost <- v10

ASSUME ModesWellSized == Mode!WellSized

CP == INSTANCE MCCompiler WITH Programs <- <<>>, Answers <- <<>>, StackTop <- 160, prog <- v1
C == INSTANCE Compiler WITH
    Programs <- CP!MCPrograms, Answers <- CP!MCAnswers, StackTop <- 160,
    prog <- v1

\* Plain typing past the ring, MouseKeys with clicks and holds, extended keys,
\* CapsLock, each over mouse packets.
Typed ==
    {[keys |-> <<"a", "shift", "b", "unshift">>, mouse |-> <<"data", "head">>],
     [keys |-> <<"num", "5", "0", ".">>, mouse |-> <<"press">>],
     [keys |-> <<"e0", "up", "caps", "a">>, mouse |-> <<"press">>],
     [keys |-> <<"a">>, mouse |-> <<"press", "data", "data">>]}
Keyboard == INSTANCE Input WITH
    Scripts <- Typed, BufSize <- 3, PollMax <- 2, MaxLeds <- 1, out <- v1,
    port <- v2, irq <- v3, routed <- v4, polling <- v5, ring <- v6, got <- v7,
    taking <- v8, keymap <- v9, mousekeys <- v10, release <- v11,
    phase <- v12, physical <- v13, synthetic <- v14, script <- v15,
    sent <- v16, moved <- v17, leds <- v18
-----------------------------------------------------------------------------
From11 == v11 = 0 /\ v12 = 0 /\ v13 = 0 /\ v14 = 0 /\ v15 = 0 /\ v16 = 0 /\ v17 = 0 /\ v18 = 0
From7 == v7 = 0 /\ v8 = 0 /\ v9 = 0 /\ v10 = 0 /\ From11
From2 == v2 = 0 /\ v3 = 0 /\ v4 = 0 /\ v5 = 0 /\ v6 = 0 /\ From7
From1 == v1 = 0 /\ From2
tail11 == <<v11, v12, v13, v14, v15, v16, v17, v18>>
tail7 == <<v7, v8, v9, v10, tail11>>
tail2 == <<v2, v3, v4, v5, v6, tail7>>
tail1 == <<v1, tail2>>
programVars == <<vars, tail1, scene>>

ProgramsInit ==
    \/ scene = "app" /\ AppInit /\ From1
    \/ scene = "store" /\ AppInit /\ Window!StoreInit /\ From7
    \/ scene = "modes" /\ AppInit /\ Mode!ModesInit /\ From11
    \/ scene = "compiler" /\ AppInit /\ C!Init /\ From2
    \/ scene = "typing" /\ AppInit /\ Keyboard!InputInit

Application == scene = "app" /\ AppNext /\ UNCHANGED <<scene, tail1>>
Store == scene = "store" /\ Window!StoreNext /\ UNCHANGED <<scene, vars, tail7>>
Settings == scene = "modes" /\ Mode!ModesNext /\ UNCHANGED <<scene, vars, tail11>>
Compile == scene = "compiler" /\ C!Next /\ UNCHANGED <<scene, vars, tail2>>
Typing == scene = "typing" /\ Keyboard!InputNext /\ UNCHANGED <<scene, vars>>
ProgramsNext == Application \/ Store \/ Settings \/ Compile \/ Typing

\* The fairness of the runtime's FairSpec, and of the keyboard's Spec.
ProgramsSpec ==
    /\ ProgramsInit /\ [][ProgramsNext]_programVars
    /\ WF_programVars(scene = "app" /\ Tick /\ UNCHANGED <<scene, tail1>>)
    /\ WF_programVars(scene = "app" /\ Refresh("tick", 0) /\ UNCHANGED <<scene, tail1>>)
    /\ WF_programVars(scene = "typing" /\ Keyboard!PollBegin /\ UNCHANGED <<scene, vars>>)
    /\ WF_programVars(scene = "typing" /\ Keyboard!PollByte /\ UNCHANGED <<scene, vars>>)
    /\ WF_programVars(scene = "typing" /\ Keyboard!PollEnd /\ UNCHANGED <<scene, vars>>)
    /\ WF_programVars(scene = "typing" /\ Keyboard!Irq12 /\ UNCHANGED <<scene, vars>>)

-----------------------------------------------------------------------------
\* A crashed program stays out until it is unloaded, and the erase of the
\* store happens as it was asked for (kapp.c, gui.c store_format_apply).
StoreWindowsSafe ==
    /\ [](scene = "store" => Window!CrashIsFinal)
    /\ [][scene = "store" => Window!ErasesAsAsked]_programVars

\* The buffer fits the mode on the screen, and a mode that is not confirmed
\* leads back to the one before (gui.c mode_switch_buffered).
ModesSafe == scene = "modes" => Mode!BufferFits /\ Mode!UndoLeadsBack

\* Compiled programs return what C says they do (mcc.c).
ComputesAsWritten == [][scene = "compiler" => C!RunsAsWritten]_programVars

\* A key press reaches the desktop once and in order, and the controller is
\* never stuck behind a byte nobody reads (keyboard.c kbd_cb, kbd_poll).
KeysArrive ==
    /\ [](scene = "typing" => Keyboard!KeysOnce)
    /\ []<>(scene = "typing" => ~Keyboard!Full)
=============================================================================
