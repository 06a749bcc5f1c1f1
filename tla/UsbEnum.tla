------------------------------- MODULE UsbEnum -------------------------------
(***************************************************************************)
(* Enumeration of the devices on one USB controller, hubs included:        *)
(* usb_rescan of kernel/usb.c and the recursion of kernel/usb_hub.h.       *)
(*                                                                         *)
(* A device that was just reset answers at address zero until it is given  *)
(* one.  The user may pull and plug devices between any two requests, and  *)
(* a request may fail with or without having had its effect.  The calls in *)
(* progress are a stack: the walk over a hub's ports and the device that   *)
(* is being enumerated on one of them.                                     *)
(***************************************************************************)
EXTENDS Integers, Sequences

CONSTANTS
    Roots,            \* number of root ports
    Hubs, Sticks,     \* the devices there are
    HubPorts,         \* ports of a hub
    Plugged,          \* place -> what is plugged in there at boot
    USB_HUB_DEPTH, USB_MAX, LastAddress,
    Revived,          \* usb_rescan can revive the controller (EHCI)
    MaxMoves, MaxBusFaults, MaxScans

VARIABLES
    at,               \* place -> the device plugged in, or Nothing
    on,               \* places whose port is enabled
    changed,          \* places with a change latched
    address,          \* device -> the address it answers at
    alive,            \* the controller is not quarantined (hc_t.dead)
    hubs, disks,      \* the tables: [route, address, dead] and [route, address, device]
    next_address,
    pass, rootPort,   \* usb_rescan: "idle", "isolate" or "scan", and its root port
    stack, result,    \* calls in progress; what the one that returned said
    moves, busFaults, scans

busVars == <<at, on, changed, address, alive, hubs, disks, next_address, pass, rootPort, stack, result, moves, busFaults, scans>>
tables == <<hubs, disks, next_address>>
wires == <<at, on, changed, address>>

Nothing == "none"
Root(p) == <<"root", p>>
Devices == Hubs \cup Sticks
Places == {Root(p) : p \in 1 .. Roots} \cup (Hubs \X (1 .. HubPorts))
Ports(d) == {d} \X (1 .. HubPorts)

\* What is plugged in at boot is a device in one place, and no hub hangs from
\* itself.
TreeSound ==
    /\ Roots \in Nat \ {0} /\ HubPorts \in Nat \ {0}
    /\ Hubs \cap Sticks = {} /\ "root" \notin Devices /\ Nothing \notin Devices
    /\ Plugged \in [Places -> Devices \cup {Nothing}]
    /\ \A p, q \in Places : Plugged[p] = Plugged[q] /\ Plugged[p] # Nothing => p = q
    /\ \A p \in Places : Plugged[p] # p[1]

-----------------------------------------------------------------------------
\* What hangs below something through the ports of a set: the least set that
\* holds what is plugged into those of its own.
Hanging(from, ports) ==
    LET Closed(S) == \A p \in ports : p[1] \in {from} \cup S => at[p] \in S IN
    {d \in Devices : \A S \in SUBSET Devices : Closed(S) => d \in S}

\* The devices that hear the controller: every port above them is enabled.
Answering == IF alive THEN Hanging("root", on) ELSE {}
Responders(a) == {d \in Answering : address[d] = a}

\* A route is <<0, root port>>, or a port of the i-th hub of the table.
Hub(i) == Responders(hubs[i].address) \cap Hubs
Reached(route) == IF route[1] = 0 THEN {Root(route[2])} ELSE Hub(route[1]) \X {route[2]}
\* usb_route_live: from the root to the leaf every port is enabled with no
\* change latched, and every hub on the way is fit.
RouteLive(route) ==
    LET open(r) == \E p \in Reached(r) : p \in on \ changed
        live[i \in 0 .. Len(hubs)] ==
            IF i = 0 THEN TRUE ELSE ~hubs[i].dead /\ open(hubs[i].route) /\ live[hubs[i].route[1]] IN
    alive /\ route[1] <= Len(hubs) /\ open(route) /\ live[route[1]]

NoFault == UNCHANGED busFaults
Fails == busFaults < MaxBusFaults /\ busFaults' = busFaults + 1
Stop == alive' = FALSE         \* usb_stop

-----------------------------------------------------------------------------
\* The reset of a port: the device is enabled and answers at zero, and the
\* ports of a hub are off.
Reset(place) ==
    /\ on' = (on \cup {place}) \ (IF at[place] \in Hubs THEN Ports(at[place]) ELSE {})
    /\ address' = [address EXCEPT ![at[place]] = 0]
    /\ changed' = changed \ {place}
    /\ UNCHANGED at
\* A port is disabled, and read back; one that stays on costs the controller.
Disable(S) ==
    \/ on' = on \ S /\ NoFault /\ UNCHANGED alive
    \/ S # {} /\ Fails /\ Stop /\ UNCHANGED on

Push(call) == stack' = <<call>> \o stack
Top == Head(stack)
Goto(call) == stack' = <<call>> \o Tail(stack)
Return(r) == result' = r /\ stack' = Tail(stack)
In(kind, stage) == stack # <<>> /\ result = Nothing /\ Top.kind = kind /\ Top.stage = stage
Device(route, a, depth) ==
    [kind |-> "device", stage |-> "describe", route |-> route, address |-> a, depth |-> depth, hub |-> 0, port |-> 0, start |-> 0]

UsbRescan ==
    /\ pass = "idle" /\ scans < MaxScans /\ scans' = scans + 1
    /\ pass' = "isolate" /\ rootPort' = 1
    /\ hubs' = <<>> /\ disks' = <<>> /\ next_address' = Roots + 1
    /\ alive' \in (IF alive \/ ~Revived THEN {alive} ELSE BOOLEAN)
    /\ on' = IF alive' # alive THEN {} ELSE on
    /\ UNCHANGED <<at, changed, address, stack, result, moves, busFaults>>
\* The isolation pass over the root ports, before any address is used again.
RootDisable ==
    /\ pass = "isolate"
    /\ IF alive THEN Disable({Root(rootPort)}) ELSE UNCHANGED <<on, alive, busFaults>>
    /\ IF rootPort < Roots THEN rootPort' = rootPort + 1 /\ UNCHANGED pass ELSE rootPort' = 1 /\ pass' = "scan"
    /\ UNCHANGED <<at, changed, address, tables, stack, result, moves, scans>>

NextRoot == IF rootPort < Roots THEN rootPort' = rootPort + 1 /\ UNCHANGED pass ELSE rootPort' = 1 /\ pass' = "idle"
RootReset ==
    /\ pass = "scan" /\ stack = <<>> /\ result = Nothing
    /\ IF ~alive \/ Len(disks) = USB_MAX \/ at[Root(rootPort)] = Nothing
       THEN NextRoot /\ UNCHANGED <<wires, alive, stack, busFaults>>
       ELSE \/ NoFault /\ Reset(Root(rootPort)) /\ Push(Device(<<0, rootPort>>, rootPort, 0)) /\ UNCHANGED <<alive, pass, rootPort>>
            \/ Fails /\ NextRoot /\ UNCHANGED <<wires, alive, stack>>
    /\ UNCHANGED <<tables, result, moves, scans>>
RootReturn ==
    /\ pass = "scan" /\ stack = <<>> /\ result # Nothing /\ result' = Nothing /\ NextRoot
    /\ IF result = "failed" /\ alive THEN Disable({Root(rootPort)}) ELSE UNCHANGED <<on, alive, busFaults>>
    /\ UNCHANGED <<at, changed, address, tables, stack, moves, scans>>

-----------------------------------------------------------------------------
\* enumerate_device
Describe ==
    /\ In("device", "describe")
    /\ \/ RouteLive(Top.route) /\ Responders(0) # {} /\ NoFault /\ Goto([Top EXCEPT !.stage = "address"]) /\ UNCHANGED result
       \/ (~RouteLive(Top.route) \/ Responders(0) = {}) /\ NoFault /\ Return("failed")
       \/ Fails /\ Return("failed")
    /\ UNCHANGED <<wires, alive, tables, pass, rootPort, moves, scans>>
\* SET_ADDRESS; when its answer is lost the device may have taken it.
Taken == [d \in DOMAIN address |-> IF d \in Responders(0) THEN Top.address ELSE address[d]]
SetAddress ==
    /\ In("device", "address")
    /\ \/ Responders(0) # {} /\ NoFault /\ address' = Taken /\ Goto([Top EXCEPT !.stage = "configure"]) /\ UNCHANGED result
       \/ Responders(0) = {} /\ NoFault /\ UNCHANGED address /\ Return("failed")
       \/ Fails /\ address' \in {address, Taken} /\ Return("failed")
    /\ UNCHANGED <<at, on, changed, alive, tables, pass, rootPort, moves, scans>>
\* The configuration is read and chosen, then enumerate_hub begins or the
\* capacity is read and the disk listed.
Configure ==
    /\ In("device", "configure")
    /\ LET who == Responders(Top.address)
           fit == RouteLive(Top.route) /\ who # {} IN
        \/ ~fit /\ NoFault /\ Return("failed") /\ UNCHANGED <<hubs, disks>>
        \/ Fails /\ Return("failed") /\ UNCHANGED <<hubs, disks>>
        \/ /\ fit /\ NoFault /\ who \subseteq Hubs /\ Top.depth < USB_HUB_DEPTH
           /\ hubs' = Append(hubs, [route |-> Top.route, address |-> Top.address, dead |-> FALSE])
           /\ Goto([Top EXCEPT !.kind = "hub", !.stage = "quiet", !.hub = Len(hubs) + 1, !.port = 1, !.start = Len(disks)])
           /\ UNCHANGED <<disks, result>>
        \/ fit /\ NoFault /\ who \subseteq Hubs /\ Top.depth >= USB_HUB_DEPTH /\ Return("failed") /\ UNCHANGED <<hubs, disks>>
        \/ \E d \in who \cap Sticks :
            /\ fit /\ NoFault /\ UNCHANGED hubs
            /\ IF Len(disks) = USB_MAX THEN Return("failed") /\ UNCHANGED disks
               ELSE /\ disks' = Append(disks, [route |-> Top.route, address |-> Top.address, device |-> d])
                    /\ Return("ok")
    /\ UNCHANGED <<wires, alive, next_address, pass, rootPort, moves, scans>>

-----------------------------------------------------------------------------
\* enumerate_hub: `failed:` takes the hub and the disks below it back.
HubFailed ==
    /\ hubs' = [hubs EXCEPT ![Top.hub].dead = TRUE]
    /\ disks' = SubSeq(disks, 1, Top.start)
    /\ Return("failed")
Here == Reached(<<Top.hub, Top.port>>)
NextPort == Goto([Top EXCEPT !.port = Top.port + 1]) /\ result' = Nothing

\* Power and hub_disable, for all ports before any of them is reset.
QuietPort ==
    /\ In("hub", "quiet")
    /\ \/ /\ Here # {} /\ NoFault /\ on' = on \ Here
          /\ Goto(IF Top.port < HubPorts THEN [Top EXCEPT !.port = Top.port + 1] ELSE [Top EXCEPT !.port = 1, !.stage = "ports"])
          /\ UNCHANGED <<alive, hubs, disks, result>>
       \/ /\ (Here = {} /\ NoFault) \/ Fails
          /\ HubFailed /\ alive' \in {alive, FALSE} /\ UNCHANGED on
    /\ UNCHANGED <<at, changed, address, next_address, pass, rootPort, moves, scans>>

DropNot == NextPort /\ UNCHANGED <<on, alive, hubs, disks>>

\* Mutant: a child that could not be enumerated is left on.
ChildLeftOn == DropNot

\* hub_disable of a child that could not be enumerated, and on to the next
\* port; a port that cannot be shown to be off costs the controller.
DropChild ==
    \/ Here # {} /\ on' = on \ Here /\ NextPort /\ UNCHANGED <<alive, hubs, disks>>
    \/ Here = {} /\ Stop /\ HubFailed /\ UNCHANGED on

\* One port: hub_port, hub_reset_child and an address for the child.
More == Top.port <= HubPorts /\ Len(disks) < USB_MAX /\ alive
ResetChild ==
    /\ In("hub", "ports") /\ More
    /\ \/ ((Here = {} /\ NoFault) \/ Fails)
          /\ HubFailed /\ UNCHANGED <<wires, alive, next_address>>
       \/ \E p \in Here : at[p] = Nothing /\ NoFault /\ NextPort /\ UNCHANGED <<wires, alive, tables>>
       \/ \E p \in Here : \* hub_reset_child refuses
            /\ at[p] # Nothing /\ Fails /\ DropChild /\ UNCHANGED <<at, changed, address, next_address>>
       \/ \E p \in Here :
            /\ at[p] # Nothing /\ NoFault /\ next_address <= LastAddress
            /\ Reset(p) /\ next_address' = next_address + 1
            /\ Push(Device(<<Top.hub, Top.port>>, next_address, Top.depth + 1))
            /\ UNCHANGED <<alive, hubs, disks, result>>
       \/ \E p \in Here : \* no address is left
            /\ at[p] # Nothing /\ NoFault /\ next_address > LastAddress
            /\ DropChild /\ UNCHANGED <<at, changed, address, next_address>>
    /\ UNCHANGED <<pass, rootPort, moves, scans>>
ChildReturn ==
    /\ stack # <<>> /\ Top.kind = "hub" /\ result # Nothing
    /\ IF result = "ok" THEN DropNot /\ NoFault
       ELSE (DropChild /\ NoFault) \/ (Fails /\ Stop /\ HubFailed /\ UNCHANGED on)
    /\ UNCHANGED <<at, changed, address, next_address, pass, rootPort, moves, scans>>
HubEnds ==
    /\ In("hub", "ports") /\ ~More
    /\ \/ RouteLive(Top.route) /\ NoFault /\ Return("ok") /\ UNCHANGED <<hubs, disks>>
       \/ ((~RouteLive(Top.route) /\ NoFault) \/ Fails)
          /\ HubFailed
    /\ UNCHANGED <<wires, alive, next_address, pass, rootPort, moves, scans>>

-----------------------------------------------------------------------------
\* The user.  A device without power forgets its address, and so does what
\* hangs below it.
Unpowered(d) == {d} \cup Hanging(d, {q \in Places : at[q] # Nothing})
Moved == moves < MaxMoves /\ moves' = moves + 1
Pull(p) ==
    /\ at[p] # Nothing /\ Moved
    /\ at' = [at EXCEPT ![p] = Nothing]
    /\ changed' = changed \cup {p}
    /\ on' = on \ ({p} \cup UNION {Ports(d) : d \in Unpowered(at[p]) \cap Hubs})
    /\ address' = [d \in DOMAIN address |-> IF d \in Unpowered(at[p]) THEN 0 ELSE address[d]]
    /\ UNCHANGED <<alive, tables, pass, rootPort, stack, result, busFaults, scans>>
Plug(d, p) ==
    /\ at[p] = Nothing /\ (\A q \in Places : at[q] # d) /\ p[1] # d /\ Moved
    /\ at' = [at EXCEPT ![p] = d]
    /\ changed' = changed \cup {p}
    /\ UNCHANGED <<on, address, alive, tables, pass, rootPort, stack, result, busFaults, scans>>

BusInit ==
    /\ at = Plugged /\ on = {} /\ changed = {}
    /\ address = [d \in Devices |-> 0] /\ alive = TRUE
    /\ hubs = <<>> /\ disks = <<>> /\ next_address = Roots + 1
    /\ pass = "idle" /\ rootPort = 1 /\ stack = <<>> /\ result = Nothing
    /\ moves = 0 /\ busFaults = 0 /\ scans = 0

BusNext ==
    \/ UsbRescan \/ RootDisable \/ RootReset \/ RootReturn
    \/ Describe \/ SetAddress \/ Configure
    \/ QuietPort \/ ResetChild \/ ChildReturn \/ HubEnds
    \/ \E p \in Places : Pull(p) \/ \E d \in Devices : Plug(d, p)

BusSpec == BusInit /\ [][BusNext]_busVars

-----------------------------------------------------------------------------
\* No two devices answer at one address (usb_rescan's isolation pass,
\* hub_disable before an address is used again, usb_stop where a port cannot
\* be shown to be off): not at zero while a device is being enumerated, not
\* after a failure half way down, and not across rescans.
AddressesUnique == \A d, e \in Answering : d # e => address[d] # address[e]

\* A disk whose route is live is the stick that was enumerated there
\* (usb_route_check, the latches left for it to see): whatever was pulled and
\* plugged since, above it or in its place.
LiveDiskIsItsOwn ==
    pass = "idle" => \A k \in DOMAIN disks :
        RouteLive(disks[k].route) =>
            /\ Responders(disks[k].address) = {disks[k].device}
            /\ \E p \in Reached(disks[k].route) : at[p] = disks[k].device
=============================================================================
