------------------------------ MODULE MCDevices ------------------------------
(***************************************************************************)
(* Devices, memory and the screen, checked together: every initial state   *)
(* picks a scene, one component that then runs alone.  Scene "lease" is    *)
(* the write lease of USB disks itself; the AHCI port, the USB bus, the    *)
(* heap, the address spaces, the desktop and the files of an application   *)
(* are instances whose variables are v1 to v16, those a component does     *)
(* not need 0.                                                             *)
(***************************************************************************)
EXTENDS UsbLease, TLC

CONSTANTS red, blue, m1, m2

VARIABLES
    scene,
    v1, v2, v3, v4, v5, v6, v7, v8, v9, v10, v11, v12, v13, v14, v15, v16

\* Two sticks of two sectors; a volume over both and one over the second.
MCMedia == {red, blue}
MCSlots == {m1, m2}
MCExtents == {{1, 2}, {2}}
MCFilled == {[m \in MCMedia |-> [s \in 1 .. 2 |-> v[m]]] : v \in [MCMedia -> {0, 1}]}
Symmetric == Permutations(MCMedia) \cup Permutations(MCSlots)

Port == INSTANCE Ahci WITH
    Engines <- {"e1"}, Media <- {"m1", "m2"}, Home <- "m1", SECTORS <- 2,
    Values <- {"a", "b"}, Blank <- "-", MaxEpoch <- 2, MaxFaults <- 1,
    MaxSwaps <- 2, phase <- v1, firmware <- v2, master <- v3, medium <- v4,
    latch <- v5, content <- v6, port <- v7, epoch <- v8, call <- v9,
    todo <- v10, data <- v11, flight <- v12, mount <- v13, asked <- v14,
    faults <- v15, swaps <- v16

\* A hub with a stick and a second hub, which has a stick as well.
Root(p) == <<"root", p>>
Tree ==
    [p \in {Root(1), Root(2)} \cup ({"h", "g"} \X {1, 2}) |->
        CASE p = Root(1) -> "h" [] p = <<"h", 1>> -> "s" [] p = <<"h", 2>> -> "g"
          [] p = <<"g", 1>> -> "t" [] OTHER -> "none"]
Bus == INSTANCE UsbEnum WITH
    Roots <- 2, Hubs <- {"h", "g"}, Sticks <- {"s", "t"}, HubPorts <- 2,
    Plugged <- Tree, USB_HUB_DEPTH <- 2, USB_MAX <- 2, LastAddress <- 5,
    Revived <- TRUE, MaxMoves <- 2, MaxBusFaults <- 2, MaxScans <- 2,
    at <- v1, on <- v2, changed <- v3, address <- v4, alive <- v5, hubs <- v6,
    disks <- v7, next_address <- v8, pass <- v9, rootPort <- v10, stack <- v11,
    result <- v12, moves <- v13, busFaults <- v14, scans <- v15
ASSUME BusSound == Bus!TreeSound

\* The i386 build, with short words: rounding the last request up would wrap.
Memory == INSTANCE Heap WITH
    Header <- 20, Total <- 180, Word <- 256, Requests <- {1, 24, 60, 250},
    blocks <- v1, heap_used <- v2, asked <- v3
ASSUME HeapIsSound == Memory!HeapSound

\* Images with and without a page of data.
Page(n, rights) == [page |-> n, rights |-> rights]
ImagePlans ==
    {<<Page(1, {"r", "x"}), Page(2, {"r", "w"}), Page(3, {"r"})>>, <<Page(1, {"r", "x"}), Page(3, {"r"})>>}
Space == INSTANCE Spaces WITH
    Pool <- 1 .. 7, Direct <- 6, Tables <- 2, Plans <- ImagePlans,
    Regions <- {"ehci"}, owner <- v1, bytes <- v2, kernel <- v3, sp <- v4,
    pending <- v5, running <- v6
ASSUME SpacesSound == Space!MemorySound

\* Two windows of three applications on a screen of six by five cells; with
\* the files in sight the list of clickable areas is one short.
WindowFrame ==
    [user |-> [x |-> 0, y |-> 0, w |-> 2, h |-> 2],
     files |-> [x |-> 1, y |-> 1, w |-> 2, h |-> 2],
     edit |-> [x |-> 4, y |-> 0, w |-> 2, h |-> 2]]
WindowAreas ==
    [user |-> [least |-> 0, most |-> 0], files |-> [least |-> 1, most |-> 2], edit |-> [least |-> 1, most |-> 1]]
Desktop == INSTANCE Damage WITH
    ScrW <- 6, ScrH <- 5, MaxWin <- 2, Frame <- WindowFrame,
    Places <- {<<4, 2>>}, Pointers <- {<<3, 0>>, <<5, 3>>}, MaxDirty <- 2,
    Areas <- WindowAreas, MaxHit <- 2,
    wins <- v1, z <- v2, dragging <- v3, dirty <- v4, stale <- v5, hits <- v6,
    pointer <- v7, drawn <- v8, phase <- v9
ASSUME WindowsSound == Desktop!DesktopSound

Service == INSTANCE UserService WITH
    Names <- {"a", "b"}, NoName <- "none", Values <- {0, 1}, Zero <- 0,
    KS_FILES <- 2, KS_HANDLES <- 2, KS_FILE_BYTES <- 2, DRAW_BUDGET <- 1,
    TEXT_BUDGET <- 1, MAX_DELTA <- 0, Keys <- {0}, TOKEN_MAX <- 1,
    HANDLE_MAX <- 3, GENERATION_MAX <- 1, svc <- v1

-----------------------------------------------------------------------------
From16 == v16 = 0
From10 == v10 = 0 /\ v11 = 0 /\ v12 = 0 /\ v13 = 0 /\ v14 = 0 /\ v15 = 0 /\ From16
From7 == v7 = 0 /\ v8 = 0 /\ v9 = 0 /\ From10
From4 == v4 = 0 /\ v5 = 0 /\ v6 = 0 /\ From7
From2 == v2 = 0 /\ v3 = 0 /\ From4
From1 == v1 = 0 /\ From2
tail16 == <<v16>>
tail10 == <<v10, v11, v12, v13, v14, v15, tail16>>
tail7 == <<v7, v8, v9, tail10>>
tail4 == <<v4, v5, v6, tail7>>
tail2 == <<v2, v3, tail4>>
tail1 == <<v1, tail2>>
deviceVars == <<vars, tail1, scene>>

\* A machine without sticks, while another component runs.
AtRest == Init /\ port = NoMedium /\ content = [m \in Media |-> [s \in Sectors |-> 0]]

DevicesInit ==
    \/ scene = "lease" /\ Init /\ From1
    \/ scene = "ahci" /\ AtRest /\ Port!Init
    \/ scene = "usb" /\ AtRest /\ Bus!BusInit /\ From16
    \/ scene = "heap" /\ AtRest /\ Memory!HeapInit /\ From4
    \/ scene = "spaces" /\ AtRest /\ Space!SpaceInit /\ From7
    \/ scene = "desktop" /\ AtRest /\ Desktop!DeskInit /\ From10
    \/ scene = "service" /\ AtRest /\ Service!Init /\ From2

Lease == scene = "lease" /\ Next /\ UNCHANGED <<scene, tail1>>
AhciPort == scene = "ahci" /\ Port!Next /\ UNCHANGED <<scene, vars>>
UsbBus == scene = "usb" /\ Bus!BusNext /\ UNCHANGED <<scene, vars, tail16>>
HeapCalls == scene = "heap" /\ Memory!HeapNext /\ UNCHANGED <<scene, vars, tail4>>
AddressSpaces == scene = "spaces" /\ Space!SpaceNext /\ UNCHANGED <<scene, vars, tail7>>
DesktopDraws == scene = "desktop" /\ Desktop!DeskNext /\ UNCHANGED <<scene, vars, tail10>>
ServiceCalls == scene = "service" /\ Service!Next /\ UNCHANGED <<scene, vars, tail2>>
DevicesNext ==
    \/ Lease \/ AhciPort \/ UsbBus \/ HeapCalls
    \/ AddressSpaces \/ DesktopDraws \/ ServiceCalls
DevicesSpec == DevicesInit /\ [][DevicesNext]_deviceVars

-----------------------------------------------------------------------------
\* The controller writes into memory only while the driver owns it, and to the
\* disk only what a transaction asked for (ahci.c).
AhciOwned == scene = "ahci" => Port!DmaOwned

\* No two devices answer to one address, and a live disk is the stick that was
\* enumerated there (usb.c, usb_hub.h).
BusOwned == scene = "usb" => Bus!AddressesUnique /\ Bus!LiveDiskIsItsOwn

\* The heap is whole, every frame has one owner, and the application that runs
\* does so on tables and code of its own (heap.c, user_space.c, paging.c).
MemoryOwned ==
    /\ scene = "heap" => Memory!HeapWhole
    /\ scene = "spaces" => Space!FramesOwned /\ Space!RunsOnCurrentTables

\* What is out of date on the screen is damaged, and what can be clicked is
\* what is shown (gui.c).
DesktopTrue == scene = "desktop" => Desktop!ScreenFollows /\ Desktop!HitsFollow

\* The files of an application: references, holes and stale handles
\* (user_service.c).
ServiceFilesTrue ==
    /\ [](scene = "service" => Service!RefsExact /\ Service!HolesReadZero)
    /\ [][scene = "service" => Service!CookiesStay]_deviceVars
=============================================================================
