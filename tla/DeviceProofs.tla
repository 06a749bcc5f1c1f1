----------------------------- MODULE DeviceProofs -----------------------------
(***************************************************************************)
(* The AHCI port, the USB bus and the address spaces of programs, for      *)
(* every size and number of devices, exchanges, faults, frames and images. *)
(*                                                                         *)
(* AHCI.  A command the driver gave up on may still be in the controller's *)
(* hands, so the invariant speaks of the command in flight and not of the  *)
(* call: the pinned buffer is what was asked for the sector in flight      *)
(* until the controller is done with it, which holds only because nothing  *)
(* is issued over a command that was not seen to end.  The latch is never  *)
(* cleared: while it is open, the disk is the one identified at boot.      *)
(*                                                                         *)
(* USB.  An address is given once in a scan and only what answers counts.  *)
(* The invariant says what may still answer at zero (the device in hand,   *)
(* or the one that failed and whose port is about to be switched off),     *)
(* that the walk over the ports never comes back to a place a disk is      *)
(* listed at, and that whoever answers at a disk's address, or is at the   *)
(* end of its route while no change is latched there, is that disk.        *)
(*                                                                         *)
(* Spaces.  The frames of a space are exactly those the pool counts as     *)
(* its, each is one table's or one page's, and a frame that is nobody's    *)
(* holds nothing of a program.                                             *)
(***************************************************************************)
EXTENDS Ahci, UsbEnum, Spaces, TLAPS, FiniteSetTheorems, WellFoundedInduction

\* Contents and requests have the shape the steps rely on.
Shaped ==
    /\ content = [m \in Media |-> [s \in Sectors |-> content[m][s]]]
    /\ asked = [s \in Sectors |-> asked[s]]
    /\ call = "write" =>
        /\ todo \in Seq([sector : Sectors, value : Values])
        /\ todo # <<>>

\* The firmware's engines are stopped before the driver's part begins.
Stopped == phase = "ready" => firmware = {}

\* A disk that was never pulled is the one identified at boot.
AtHome == ~latch => medium = Home

\* What a call has left to write was asked for.
TodoAsked == call = "write" => \A k \in 1 .. Len(todo) : todo[k].value \in asked[todo[k].sector]

\* So was what the controller may still write, whether or not the driver waits for it.
FlightAsked ==
    flight # None =>
        /\ flight = [op |-> flight.op, sector |-> flight.sector, done |-> flight.done]
        /\ flight.op = "write" => flight.sector \in Sectors
        /\ flight.op = "write" /\ ~flight.done => data \in asked[flight.sector]

\* What is on the disks.
Landed ==
    \A m \in Media, s \in Sectors :
        content[m][s] # Blank => m = Home /\ content[m][s] \in asked[s]

DmaInv == Shaped /\ Stopped /\ AtHome /\ TodoAsked /\ FlightAsked /\ Landed

LEMMA InitDma == Init => DmaInv BY DEF Init, DmaInv, Shaped, Stopped, AtHome, TodoAsked, FlightAsked, Landed, None

\* The first entry of a list, and the others.
LEMMA FirstRequest ==
    ASSUME NEW S, NEW list \in Seq(S), list # <<>>
    PROVE  1 \in 1 .. Len(list) /\ Head(list) = list[1] /\ list[1] \in S OBVIOUS

LEMMA TailRequests ==
    ASSUME NEW S, NEW list \in Seq(S), Len(list) # 1, list # <<>>
    PROVE  /\ Tail(list) \in Seq(S) /\ Tail(list) # <<>>
           /\ \A k \in 1 .. Len(Tail(list)) : k + 1 \in 1 .. Len(list) /\ Tail(list)[k] = list[k + 1]
<1>1. Len(list) \in Nat /\ Len(list) # 0 OBVIOUS
<1>2. Tail(list) \in Seq(S) /\ Len(Tail(list)) = Len(list) - 1 BY <1>1
<1>3. \A k \in 1 .. Len(Tail(list)) : Tail(list)[k] = list[k + 1] BY <1>1, <1>2
<1> QED BY <1>1, <1>2, <1>3

\* Steps that leave requests, buffer and contents alone.
LEMMA QuietDma ==
    ASSUME DmaInv, UNCHANGED <<content, call, todo, data, flight, asked>>, Stopped', AtHome'
    PROVE  DmaInv' BY DEF DmaInv, Shaped, TodoAsked, FlightAsked, Landed, Sectors

\* A function on 1 .. n is a list of n entries.
LEMMA IsASeq ==
    ASSUME NEW S, NEW n \in Nat, NEW list \in [1 .. n -> S]
    PROVE  list \in Seq(S) /\ Len(list) = n /\ DOMAIN list = 1 .. n OBVIOUS

LEMMA TransferDma ==
    ASSUME DmaInv, NEW op \in {"read", "write"}, NEW list, op = "write" => list \in Lists, Transfer(op, list)
    PROVE  DmaInv'
<1>1. /\ call = "idle" /\ UNCHANGED <<phase, firmware, latch, medium, content, data, flight>>
      /\ (call' = op /\ todo' = list) \/ (call' = "idle" /\ todo' = todo)
      /\ asked' = [s \in Sectors |-> asked[s] \cup
                    {list[k].value : k \in {k \in DOMAIN list : call' = "write" /\ list[k].sector = s}}]
  BY DEF Transfer, init, user
<1>2. \A s \in Sectors : asked[s] \subseteq asked'[s] BY <1>1
<1>3. CASE call' = "write"
  <2>1. op = "write" /\ todo' = list /\ list \in Lists BY <1>1, <1>3
  <2>2. PICK n \in 1 .. 2 : list \in [1 .. n -> [sector : Sectors, value : Values]] BY <2>1 DEF Lists
  <2>3. list \in Seq([sector : Sectors, value : Values]) /\ Len(list) = n /\ DOMAIN list = 1 .. n
    <3>1. n \in Nat /\ list \in [1 .. n -> [sector : Sectors, value : Values]] BY <2>2
    <3> QED BY <3>1, IsASeq
  <2>4. \A k \in 1 .. n : list[k].sector \in Sectors /\ list[k].value \in asked'[list[k].sector]
    BY <1>1, <1>3, <2>2, <2>3
  <2>5. list # <<>> BY <2>3
  <2> QED BY <1>1, <1>2, <2>1, <2>3, <2>4, <2>5 DEF DmaInv, Shaped, Stopped, AtHome, TodoAsked, FlightAsked, Landed,
    Sectors
<1>4. CASE call' # "write" BY <1>1, <1>2, <1>4
    DEF DmaInv, Shaped, Stopped, AtHome, TodoAsked, FlightAsked, Landed, Sectors
<1> QED BY <1>3, <1>4

LEMMA IssueDma ==
    ASSUME DmaInv, Issue
    PROVE  DmaInv'
<1>1. /\ call # "idle" /\ flight = None
      /\ UNCHANGED <<phase, firmware, latch, medium, content, asked>> BY DEF Issue, init, user
<1>2. CASE Linked
  <2>1. /\ flight' = [op |-> call, sector |-> Head(todo).sector, done |-> FALSE]
        /\ data' = IF call = "write" THEN Head(todo).value ELSE data
        /\ UNCHANGED <<call, todo>> BY <1>2 DEF Issue
  <2>2. call = "write" => Head(todo).sector \in Sectors /\ Head(todo).value \in asked[Head(todo).sector]
    <3> SUFFICES ASSUME call = "write" PROVE Head(todo).sector \in Sectors /\ Head(todo).value \in asked[Head(todo).sector]
        OBVIOUS
    <3>1. todo \in Seq([sector : Sectors, value : Values]) /\ todo # <<>> BY DEF DmaInv, Shaped
    <3>2. 1 \in 1 .. Len(todo) /\ Head(todo) = todo[1] /\ todo[1] \in [sector : Sectors, value : Values]
      BY <3>1, FirstRequest
    <3> QED BY <3>2 DEF DmaInv, TodoAsked
  <2>3. FlightAsked' BY <1>1, <2>1, <2>2 DEF FlightAsked
  <2> QED BY <1>1, <2>1, <2>3 DEF DmaInv, Shaped, Stopped, AtHome, TodoAsked, Landed, Sectors
<1>3. CASE ~Linked
  <2>1. call' = "idle" /\ flight' = None /\ UNCHANGED data BY <1>1, <1>3 DEF Issue, AhciFail
  <2> QED BY <1>1, <2>1 DEF DmaInv, Shaped, Stopped, AtHome, TodoAsked, FlightAsked, Landed, Sectors
<1> QED BY <1>2, <1>3

LEMMA ControllerDma ==
    ASSUME DmaInv, Controller
    PROVE  DmaInv'
<1>1. /\ flight # None /\ ~flight.done /\ Linked
      /\ flight' = [flight EXCEPT !.done = TRUE]
      /\ UNCHANGED <<phase, firmware, latch, medium, call, todo, asked>> BY DEF Controller, init, user
<1>2. flight' = [op |-> flight.op, sector |-> flight.sector, done |-> TRUE] BY <1>1 DEF DmaInv, FlightAsked
<1>3. FlightAsked' BY <1>1, <1>2 DEF DmaInv, FlightAsked
<1>4. CASE flight.op = "write"
  <2>1. content' = [content EXCEPT ![medium][flight.sector] = data] BY <1>4 DEF Controller
  <2>2. medium = Home /\ flight.sector \in Sectors /\ data \in asked[flight.sector]
    BY <1>1, <1>4 DEF DmaInv, AtHome, FlightAsked, Linked
  <2>3. content' = [m \in Media |-> [s \in Sectors |->
                      IF m = medium /\ s = flight.sector THEN data ELSE content[m][s]]]
    BY <2>1, ZenonT(60) DEF DmaInv, Shaped
  <2>4. Landed' /\ content' = [m \in Media |-> [s \in Sectors |-> content'[m][s]]]
    BY <1>1, <2>2, <2>3 DEF DmaInv, Landed, Sectors
  <2> QED BY <1>1, <1>3, <2>4 DEF DmaInv, Shaped, Stopped, AtHome, TodoAsked, Sectors
<1>5. CASE flight.op # "write"
  <2>1. UNCHANGED content BY <1>5 DEF Controller
  <2> QED BY <1>1, <1>3, <2>1 DEF DmaInv, Shaped, Stopped, AtHome, TodoAsked, Landed, Sectors
<1> QED BY <1>4, <1>5

LEMMA CompletedDma ==
    ASSUME DmaInv, Completed
    PROVE  DmaInv'
<1>1. /\ flight' = None /\ todo' = Tail(todo)
      /\ call' = IF Len(todo) = 1 THEN "idle" ELSE call
      /\ UNCHANGED <<phase, firmware, latch, medium, content, asked, data>> BY DEF Completed, init, user
<1>2. FlightAsked' BY <1>1 DEF FlightAsked
<1>3. CASE call' = "write"
  <2>1. call = "write" /\ Len(todo) # 1 /\ todo \in Seq([sector : Sectors, value : Values]) /\ todo # <<>>
    BY <1>1, <1>3 DEF DmaInv, Shaped
  <2>2. /\ todo' \in Seq([sector : Sectors, value : Values]) /\ todo' # <<>>
        /\ \A k \in 1 .. Len(todo') : k + 1 \in 1 .. Len(todo) /\ todo'[k] = todo[k + 1] BY <1>1, <2>1, TailRequests
  <2>3. TodoAsked' BY <1>1, <2>1, <2>2 DEF DmaInv, TodoAsked
  <2> QED BY <1>1, <1>2, <2>2, <2>3 DEF DmaInv, Shaped, Stopped, AtHome, Landed, Sectors
<1>4. CASE call' # "write" BY <1>1, <1>2, <1>4 DEF DmaInv, Shaped, Stopped, AtHome, TodoAsked, Landed, Sectors
<1> QED BY <1>3, <1>4

LEMMA FailedDma ==
    ASSUME DmaInv, Failed
    PROVE  DmaInv'
<1>1. /\ call' = "idle" /\ flight' \in {flight, None}
      /\ UNCHANGED <<phase, firmware, latch, medium, content, asked, data>> BY DEF Failed, AhciFail, init, user
<1> QED BY <1>1 DEF DmaInv, Shaped, Stopped, AtHome, TodoAsked, FlightAsked, Landed, Sectors

LEMMA NextDma == DmaInv /\ [Next]_vars => DmaInv'
<1> SUFFICES ASSUME DmaInv, [Next]_vars PROVE DmaInv' OBVIOUS
<1>1. CASE AhciInit
  <2>1. UNCHANGED <<content, call, todo, data, flight, asked, latch, medium>> BY <1>1 DEF AhciInit, user
  <2>2. Stopped' BY <1>1 DEF DmaInv, Stopped, AhciInit, NoMaster, StopEngine, QuiesceFailed, Master
  <2> QED BY <2>1, <2>2, QuietDma DEF DmaInv, AtHome
<1>2. CASE Swap
  <2>1. UNCHANGED <<content, call, todo, data, flight, asked, phase, firmware>> /\ latch' BY <1>2 DEF Swap, init
  <2> QED BY <2>1, QuietDma DEF DmaInv, AtHome, Stopped
<1>3. CASE AhciSync
  <2>1. /\ UNCHANGED <<content, data, flight, asked, latch, medium, phase, firmware>>
        /\ call = "idle" /\ (call' = "flush" \/ UNCHANGED <<call, todo>>) BY <1>3 DEF AhciSync, init, user
  <2> QED BY <2>1 DEF DmaInv, Shaped, Stopped, AtHome, TodoAsked, FlightAsked, Landed, Sectors
<1>4. CASE AhciRescan \/ FatMount \/ Revoke \/ \E a \in Sectors : Authorize(a .. SECTORS)
  <2>1. UNCHANGED <<content, call, todo, data, flight, asked, latch, medium, phase, firmware>>
    BY <1>4 DEF AhciRescan, FatMount, Revoke, Authorize, init, user
  <2> QED BY <2>1, QuietDma DEF DmaInv, Stopped, AtHome
<1>5. CASE \E list \in Lists : Consecutive(list) /\ Transfer("write", list) BY <1>5, TransferDma
<1>6. CASE \E s \in Sectors : Transfer("read", <<[sector |-> s, value |-> Blank]>>) BY <1>6, TransferDma
<1>7. CASE UNCHANGED vars BY <1>7, QuietDma DEF vars, DmaInv, Stopped, AtHome
<1> QED BY <1>1, <1>2, <1>3, <1>4, <1>5, <1>6, <1>7, IssueDma, ControllerDma, CompletedDma, FailedDma DEF Next

\* A command that failed and still ends late finds its own data in the buffer,
\* nothing reaches a disk that was plugged in later, and the firmware's engines
\* are stopped when bus mastering is on (ahci_init, ahci_command, ahci_fail).
THEOREM DmaAlwaysOwned == Spec => []DmaOwned
<1>1. DmaInv => DmaOwned BY DEF DmaInv, DmaOwned, Stopped, Landed, Ready
<1> QED BY <1>1, InitDma, NextDma, PTL DEF Spec

-----------------------------------------------------------------------------
(***************************************************************************)
(* The USB bus.                                                            *)
(***************************************************************************)
Numbers == Nat \ {0}
Routes == Nat \X Nat
HubRows == [route : Routes, address : Numbers, dead : BOOLEAN]
DiskRows == [route : Routes, address : Numbers, device : Devices]
Frames ==
    [kind : {"device", "hub"}, stage : {"describe", "address", "configure", "quiet", "ports"}, route : Routes,
     address : Numbers, depth : Nat, hub : Nat, port : Nat, start : Nat]

BusTyped ==
    /\ at \in [Places -> Devices \cup {Nothing}] /\ on \subseteq Places
    /\ address \in [Devices -> Nat] /\ alive \in BOOLEAN
    /\ hubs \in Seq(HubRows) /\ disks \in Seq(DiskRows) /\ next_address \in Nat
    /\ pass \in {"idle", "isolate", "scan"} /\ rootPort \in 1 .. Roots
    /\ stack \in Seq(Frames) /\ result \in {Nothing, "ok", "failed"}
    /\ next_address > Roots

\* A device is in one place, and what is enabled is there.
Wired ==
    /\ \A p, q \in Places : at[p] = at[q] /\ at[p] # Nothing => p = q
    /\ \A p \in Places : at[p] # p[1]
    /\ \A p \in on : at[p] # Nothing

\* The calls in progress: hubs, each waiting for the child at its port, and
\* on top perhaps a device.
RouteOf(k) == IF k = Len(stack) THEN <<0, rootPort>> ELSE <<stack[k + 1].hub, stack[k + 1].port>>
Chained ==
    /\ pass # "scan" => stack = <<>> /\ result = Nothing
    /\ \A k \in 1 .. Len(stack) :
        /\ stack[k].route = RouteOf(k)
        /\ stack[k].kind = "device" => k = 1 /\ result = Nothing /\ stack[k].stage \in {"describe", "address", "configure"}
        /\ stack[k].kind = "hub" =>
            /\ stack[k].stage \in {"quiet", "ports"} /\ (k # 1 \/ result # Nothing => stack[k].stage = "ports")
            /\ stack[k].hub \in 1 .. Len(hubs) /\ stack[k].port \in Numbers /\ stack[k].start <= Len(disks)
    /\ \A i, j \in 1 .. Len(stack) : i < j /\ stack[i].kind = "hub" =>
        stack[j].hub < stack[i].hub /\ stack[j].start <= stack[i].start

\* The isolation pass has been over the root ports below this one.
Isolated ==
    pass = "isolate" =>
        /\ hubs = <<>> /\ disks = <<>>
        /\ alive => \A q \in 1 .. rootPort - 1 : Root(q) \notin on

\* Addresses given so far in this scan.
Given(a) == a < next_address /\ (a <= rootPort \/ a > Roots)
AddressesGiven ==
    pass = "scan" =>
        /\ \A d \in Answering : Given(address[d])
        /\ \A i \in 1 .. Len(hubs) : Given(hubs[i].address)
        /\ \A k \in 1 .. Len(disks) : Given(disks[k].address)
        /\ \A i, j \in 1 .. Len(hubs) : hubs[i].address = hubs[j].address => i = j

\* The address a device is about to get is nobody's, and in no table.
Unlisted(a) ==
    /\ \A i \in 1 .. Len(hubs) : hubs[i].address # a
    /\ \A k \in 1 .. Len(disks) : disks[k].address # a
Unanswered(a) == \A d \in Answering : address[d] # a
InHand == IF stack # <<>> /\ stack[1].kind = "device" THEN {stack[1]} ELSE {}
Fresh ==
    /\ pass = "scan" /\ stack = <<>> /\ result = Nothing => Unlisted(rootPort) /\ Unanswered(rootPort)
    /\ \A c \in InHand :
        /\ Given(c.address) /\ Unlisted(c.address)
        /\ c.stage # "configure" => Unanswered(c.address)

\* At address zero there is at most the device at the end of this route.
Doubt ==
    IF InHand # {} THEN {c.route : c \in {c \in InHand : c.stage # "configure"}}
    ELSE IF result # "failed" THEN {}
    ELSE IF stack = <<>> THEN {<<0, rootPort>>} ELSE {<<stack[1].hub, stack[1].port>>}
OneAtZero ==
    \A d \in Answering : address[d] = 0 => \E r \in Doubt : \E p \in Reached(r) \cap Places : at[p] = d

\* What is enabled and unchanged at the end of its route is the device in hand.
HandTrue ==
    \A c \in InHand : \A p \in Reached(c.route) :
        p \in on \ changed => address[at[p]] = IF c.stage = "configure" THEN c.address ELSE 0

\* A disk's address is its own, and at the end of its route, while nothing
\* changed there, is that disk.
Owned(disk) ==
    /\ disk.route[1] <= Len(hubs)
    /\ \A d \in Answering : address[d] = disk.address => d = disk.device
    /\ \A p \in Reached(disk.route) :
        p \in on \ changed => at[p] = disk.device /\ address[at[p]] = disk.address
DisksOwn == \A k \in 1 .. Len(disks) : Owned(disks[k])

\* Disks are at ports the walk has passed.
Passed(k, r, done) == disks[k].route[1] = r[1] => disks[k].route[2] < r[2] \/ (done /\ disks[k].route[2] = r[2])
DisksPassed ==
    \A k \in 1 .. Len(disks) :
        /\ pass = "scan" => Passed(k, <<0, rootPort>>, stack = <<>> /\ result # Nothing)
        /\ \A j \in 1 .. Len(stack) : stack[j].kind = "hub" =>
            /\ Passed(k, <<stack[j].hub, stack[j].port>>, j = 1 /\ result # Nothing)
            /\ stack[j].stage = "quiet" => disks[k].route[1] # stack[j].hub

BusInv ==
    /\ BusTyped /\ Wired /\ Chained /\ Isolated /\ AddressesGiven /\ Fresh
    /\ OneAtZero /\ HandTrue /\ DisksOwn /\ DisksPassed /\ AddressesUnique

-----------------------------------------------------------------------------
\* Lists.
LEMMA ListFacts ==
  ASSUME NEW S, NEW s \in Seq(S)
  PROVE  /\ Len(s) \in Nat /\ \A i \in 1 .. Len(s) : s[i] \in S
         /\ s # <<>> <=> Len(s) > 0
         /\ s # <<>> => /\ Head(s) = s[1] /\ Tail(s) \in Seq(S) /\ Len(Tail(s)) = Len(s) - 1
                        /\ \A i \in 1 .. Len(s) - 1 : Tail(s)[i] = s[i + 1]
         /\ \A c \in S : /\ <<c>> \o s \in Seq(S) /\ Len(<<c>> \o s) = Len(s) + 1 /\ (<<c>> \o s)[1] = c
                         /\ \A i \in 1 .. Len(s) : (<<c>> \o s)[i + 1] = s[i]
         /\ \A c \in S : /\ Append(s, c) \in Seq(S) /\ Len(Append(s, c)) = Len(s) + 1 /\ Append(s, c)[Len(s) + 1] = c
                         /\ \A i \in 1 .. Len(s) : Append(s, c)[i] = s[i]
         /\ \A n \in 0 .. Len(s) : /\ SubSeq(s, 1, n) \in Seq(S) /\ Len(SubSeq(s, 1, n)) = n
                                   /\ \A i \in 1 .. n : SubSeq(s, 1, n)[i] = s[i]
<1>1. Len(s) \in Nat /\ \A i \in 1 .. Len(s) : s[i] \in S OBVIOUS
<1>2. s # <<>> <=> Len(s) > 0 OBVIOUS
<1>3. s # <<>> => /\ Head(s) = s[1] /\ Tail(s) \in Seq(S) /\ Len(Tail(s)) = Len(s) - 1
                  /\ \A i \in 1 .. Len(s) - 1 : Tail(s)[i] = s[i + 1] OBVIOUS
<1>4. ASSUME NEW c \in S
      PROVE  /\ <<c>> \o s \in Seq(S) /\ Len(<<c>> \o s) = Len(s) + 1 /\ (<<c>> \o s)[1] = c
             /\ \A i \in 1 .. Len(s) : (<<c>> \o s)[i + 1] = s[i] OBVIOUS
<1>5. ASSUME NEW c \in S
      PROVE  /\ Append(s, c) \in Seq(S) /\ Len(Append(s, c)) = Len(s) + 1 /\ Append(s, c)[Len(s) + 1] = c
             /\ \A i \in 1 .. Len(s) : Append(s, c)[i] = s[i] OBVIOUS
<1>6. ASSUME NEW n \in 0 .. Len(s)
      PROVE  /\ SubSeq(s, 1, n) \in Seq(S) /\ Len(SubSeq(s, 1, n)) = n
             /\ \A i \in 1 .. n : SubSeq(s, 1, n)[i] = s[i] OBVIOUS
<1> QED BY <1>1, <1>2, <1>3, <1>4, <1>5, <1>6

\* What the tables and the stack hold.
LEMMA RowTypes ==
  ASSUME BusTyped
  PROVE  /\ Len(hubs) \in Nat /\ Len(disks) \in Nat /\ Len(stack) \in Nat
         /\ \A i \in 1 .. Len(hubs) : hubs[i].address \in Numbers
         /\ \A k \in 1 .. Len(disks) : disks[k].route \in Routes /\ disks[k].address \in Numbers
         /\ \A j \in 1 .. Len(stack) :
              /\ stack[j] \in Frames /\ stack[j].route \in Routes /\ stack[j].address \in Numbers
              /\ stack[j].kind \in {"device", "hub"} /\ stack[j].depth \in Nat /\ stack[j].hub \in Nat
              /\ stack[j].port \in Nat /\ stack[j].start \in Nat
<1>1. /\ Len(hubs) \in Nat /\ Len(disks) \in Nat /\ Len(stack) \in Nat
      /\ \A i \in 1 .. Len(hubs) : hubs[i] \in HubRows
      /\ \A k \in 1 .. Len(disks) : disks[k] \in DiskRows
      /\ \A j \in 1 .. Len(stack) : stack[j] \in Frames BY ListFacts DEF BusTyped
<1>2. \A e \in HubRows : e.address \in Numbers BY DEF HubRows
<1>3. \A e \in DiskRows : e.route \in Routes /\ e.address \in Numbers BY DEF DiskRows
<1>4. \A c \in Frames :
        /\ c.route \in Routes /\ c.address \in Numbers /\ c.kind \in {"device", "hub"} /\ c.depth \in Nat
        /\ c.hub \in Nat /\ c.port \in Nat /\ c.start \in Nat BY DEF Frames
<1> QED BY <1>1, <1>2, <1>3, <1>4

\* What a call in progress becomes.
LEMMA FrameSteps ==
  ASSUME NEW c \in Frames
  PROVE  /\ \A s \in {"address", "configure"} : LET e == [c EXCEPT !.stage = s] IN
              e \in Frames /\ e.stage = s /\ e.kind = c.kind /\ e.route = c.route /\ e.address = c.address
         /\ LET e == [c EXCEPT !.port = c.port + 1] IN
              /\ e \in Frames /\ e.stage = c.stage /\ e.kind = c.kind /\ e.route = c.route /\ e.address = c.address
              /\ e.hub = c.hub /\ e.start = c.start /\ e.port = c.port + 1
         /\ LET e == [c EXCEPT !.port = 1, !.stage = "ports"] IN
              /\ e \in Frames /\ e.stage = "ports" /\ e.kind = c.kind /\ e.route = c.route /\ e.address = c.address
              /\ e.hub = c.hub /\ e.start = c.start /\ e.port = 1
<1>1. ASSUME NEW s \in {"address", "configure"}
      PROVE  LET e == [c EXCEPT !.stage = s] IN
              e \in Frames /\ e.stage = s /\ e.kind = c.kind /\ e.route = c.route /\ e.address = c.address
  BY DEF Frames
<1>2. LET e == [c EXCEPT !.port = c.port + 1] IN
              /\ e \in Frames /\ e.stage = c.stage /\ e.kind = c.kind /\ e.route = c.route /\ e.address = c.address
              /\ e.hub = c.hub /\ e.start = c.start /\ e.port = c.port + 1 BY DEF Frames
<1>3. LET e == [c EXCEPT !.port = 1, !.stage = "ports"] IN
              /\ e \in Frames /\ e.stage = "ports" /\ e.kind = c.kind /\ e.route = c.route /\ e.address = c.address
              /\ e.hub = c.hub /\ e.start = c.start /\ e.port = 1 BY DEF Frames
<1> QED BY <1>1, <1>2, <1>3

LEMMA NewDevice ==
  ASSUME NEW r \in Routes, NEW a \in Numbers, NEW d \in Nat
  PROVE  LET e == Device(r, a, d) IN
         e \in Frames /\ e.kind = "device" /\ e.stage = "describe" /\ e.route = r /\ e.address = a
BY DEF Device, Frames

\* The stack.
LEMMA TopFacts ==
  ASSUME stack \in Seq(Frames), stack # <<>>
  PROVE  Top = stack[1] /\ stack[1] \in Frames /\ Len(stack) \in Nat /\ Len(stack) >= 1 BY ListFacts DEF Top

LEMMA PushFacts ==
  ASSUME stack \in Seq(Frames), NEW c \in Frames, Push(c)
  PROVE  /\ stack' \in Seq(Frames) /\ stack' # <<>> /\ Len(stack') = Len(stack) + 1 /\ Len(stack) \in Nat
         /\ stack'[1] = c /\ \A k \in 1 .. Len(stack) : stack'[k + 1] = stack[k]
<1>1. stack' \in Seq(Frames) /\ Len(stack') = Len(stack) + 1 /\ Len(stack) \in Nat BY ListFacts DEF Push
<1> QED BY <1>1, ListFacts DEF Push

LEMMA GotoFacts ==
  ASSUME stack \in Seq(Frames), stack # <<>>, NEW c \in Frames, stack' = <<c>> \o Tail(stack)
  PROVE  /\ stack' \in Seq(Frames) /\ stack' # <<>> /\ Len(stack') = Len(stack) /\ Len(stack) \in Nat
         /\ stack'[1] = c /\ \A k \in 2 .. Len(stack) : stack'[k] = stack[k]
<1> DEFINE t == Tail(stack)
<1>1. t \in Seq(Frames) /\ Len(t) = Len(stack) - 1 /\ Len(stack) \in Nat /\ \A i \in 1 .. Len(stack) - 1 : t[i] = stack[i + 1]
  BY ListFacts
<1> HIDE DEF t
<1>2. /\ <<c>> \o t \in Seq(Frames) /\ Len(<<c>> \o t) = Len(t) + 1 /\ (<<c>> \o t)[1] = c
      /\ \A i \in 1 .. Len(t) : (<<c>> \o t)[i + 1] = t[i] BY <1>1, ListFacts
<1>3. stack' = <<c>> \o t BY DEF t
<1>4. Len(stack') = Len(stack) /\ stack' \in Seq(Frames) /\ Len(stack) > 0 BY <1>1, <1>2, <1>3, ListFacts
<1>5. \A k \in 2 .. Len(stack) : stack'[k] = stack[k]
  <2> SUFFICES ASSUME NEW k \in 2 .. Len(stack) PROVE stack'[k] = stack[k] OBVIOUS
  <2>1. k - 1 \in 1 .. Len(stack) - 1 /\ k - 1 + 1 = k BY <1>1
  <2>2. (<<c>> \o t)[(k - 1) + 1] = t[k - 1] /\ t[k - 1] = stack[(k - 1) + 1] BY <1>1, <1>2, <2>1
  <2> QED BY <1>3, <2>1, <2>2
<1> QED BY <1>1, <1>2, <1>3, <1>4, <1>5, ListFacts

LEMMA ReturnFacts ==
  ASSUME stack \in Seq(Frames), stack # <<>>, stack' = Tail(stack)
  PROVE  /\ stack' \in Seq(Frames) /\ Len(stack') = Len(stack) - 1 /\ Len(stack) \in Nat
         /\ (stack' # <<>> <=> Len(stack) > 1)
         /\ \A k \in 1 .. Len(stack) - 1 : stack'[k] = stack[k + 1]
<1>1. stack' \in Seq(Frames) /\ Len(stack') = Len(stack) - 1 /\ Len(stack) \in Nat
      /\ \A k \in 1 .. Len(stack) - 1 : stack'[k] = stack[k + 1] BY ListFacts
<1> QED BY <1>1, ListFacts

-----------------------------------------------------------------------------
\* The least set, of any assignment of devices to places.
Least(f, from, ports) ==
    {d \in Devices : \A S \in SUBSET Devices :
        (\A p \in ports : p[1] \in {from} \cup S => f[p] \in S) => d \in S}

LEMMA LeastAnswers == Answering = IF alive THEN Least(at, "root", on) ELSE {} BY DEF Answering, Hanging, Least

LEMMA LeastClosed ==
  ASSUME NEW f, NEW from, NEW ports, \A p \in ports : f[p] \in Devices,
         NEW p \in ports, p[1] \in {from} \cup Least(f, from, ports)
  PROVE  f[p] \in Least(f, from, ports)
<1> SUFFICES ASSUME NEW S \in SUBSET Devices, \A q \in ports : q[1] \in {from} \cup S => f[q] \in S
             PROVE  f[p] \in S BY DEF Least
<1>1. p[1] \in {from} \cup S BY DEF Least
<1> QED BY <1>1

\* What is in it is somewhere.
LEMMA LeastPlace ==
  ASSUME NEW f, NEW from, NEW ports, \A p \in ports : f[p] \in Devices, NEW d \in Least(f, from, ports)
  PROVE  \E p \in ports : f[p] = d /\ p[1] \in {from} \cup Least(f, from, ports)
<1> SUFFICES ASSUME \A p \in ports : f[p] = d => p[1] \notin {from} \cup Least(f, from, ports)
             PROVE  FALSE OBVIOUS
<1> DEFINE S == Least(f, from, ports) \ {d}
<1>1. S \in SUBSET Devices BY DEF Least
<1>2. ASSUME NEW p \in ports, p[1] \in {from} \cup S PROVE f[p] \in S
  <2>1. p[1] \in {from} \cup Least(f, from, ports) BY <1>2
  <2> QED BY <2>1, LeastClosed
<1>3. d \in S BY <1>1, <1>2 DEF Least
<1> QED BY <1>3

\* With fewer ports there is less.
LEMMA LeastShrinks ==
  ASSUME NEW f, NEW g, NEW from, NEW P, NEW Q, Q \subseteq P, \A p \in Q : g[p] = f[p]
  PROVE  Least(g, from, Q) \subseteq Least(f, from, P) BY DEF Least

\* With one more port, what was below its device having gone, there is one
\* more device.
LEMMA LeastGrows ==
  ASSUME NEW f, NEW from, NEW P, NEW Q, NEW x, f[x] \in Devices, f[x] # from,
         \A p \in Q : p = x \/ (p \in P /\ p[1] # f[x])
  PROVE  Least(f, from, Q) \subseteq Least(f, from, P) \cup {f[x]}
<1> SUFFICES ASSUME NEW d \in Least(f, from, Q), d # f[x] PROVE d \in Least(f, from, P) OBVIOUS
<1>1. d \in Devices BY DEF Least
<1>2. ASSUME NEW S \in SUBSET Devices, \A p \in P : p[1] \in {from} \cup S => f[p] \in S
      PROVE  d \in S
  <2> DEFINE T == S \cup {f[x]}
  <2>1. T \in SUBSET Devices OBVIOUS
  <2>2. ASSUME NEW p \in Q, p[1] \in {from} \cup T PROVE f[p] \in T
    <3>1. CASE p = x BY <3>1
    <3>2. CASE p # x BY <1>2, <2>2, <3>2
    <3> QED BY <3>1, <3>2
  <2>3. d \in T BY <2>1, <2>2 DEF Least
  <2> QED BY <2>3
<1> QED BY <1>1, <1>2 DEF Least

\* Without ports there is nothing.
LEMMA LeastNothing ==
  ASSUME NEW f, NEW from, NEW P, \A p \in P : p[1] # from /\ p[1] \notin {} PROVE Least(f, from, P) = {}
<1>1. {} \in SUBSET Devices /\ \A p \in P : p[1] \in {from} \cup {} => f[p] \in {} OBVIOUS
<1> QED BY <1>1 DEF Least

-----------------------------------------------------------------------------
\* Places.
LEMMA PlaceParts ==
  ASSUME TreeSound
  PROVE  /\ \A p \in Places : p[1] \in {"root"} \cup Hubs /\ p = <<p[1], p[2]>>
         /\ \A h \in Hubs : Ports(h) = {p \in Places : p[1] = h}
         /\ \A q \in 1 .. Roots : Root(q) \in Places /\ Root(q)[1] = "root"
         /\ \A q : \A h : Root(q) # <<h, q>> \/ h = "root"
<1>1. ASSUME NEW p \in Places PROVE p[1] \in {"root"} \cup Hubs /\ p = <<p[1], p[2]>> BY DEF Places, Root
<1>2. ASSUME NEW h \in Hubs PROVE Ports(h) = {p \in Places : p[1] = h}
  <2>1. h # "root" BY DEF TreeSound, Devices
  <2> QED BY <2>1 DEF Places, Ports, Root
<1>3. \A q \in 1 .. Roots : Root(q) \in Places /\ Root(q)[1] = "root" BY DEF Places, Root
<1>4. \A q : \A h : Root(q) # <<h, q>> \/ h = "root" BY DEF Root
<1> QED BY <1>1, <1>2, <1>3, <1>4

LEMMA ReachedParts ==
  ASSUME NEW r \in Routes
  PROVE  /\ r[1] \in Nat /\ r[2] \in Nat
         /\ r[1] = 0 => Reached(r) = {Root(r[2])}
         /\ r[1] # 0 => \A p : p \in Reached(r) <=>
              \E h \in Hubs : h \in Answering /\ address[h] = hubs[r[1]].address /\ p = <<h, r[2]>>
BY DEF Routes, Reached, Hub, Responders

-----------------------------------------------------------------------------
\* What answers hangs from an enabled port, and the other way round.
Hear ==
    /\ Answering \subseteq Devices
    /\ \A p \in on : p \in Places /\ at[p] \in Devices
    /\ \A p \in on : alive /\ p[1] \in {"root"} \cup Answering => at[p] \in Answering
    /\ \A d \in Answering : \E p \in on : at[p] = d /\ p[1] \in {"root"} \cup Answering

LEMMA Answers == BusTyped /\ Wired => Hear
<1> SUFFICES ASSUME BusTyped, Wired PROVE Hear OBVIOUS
<1>1. \A p \in on : p \in Places /\ at[p] \in Devices BY DEF BusTyped, Wired
<1>2. CASE alive
  <2>1. Answering = Least(at, "root", on) BY <1>2, LeastAnswers
  <2>2. \A p \in on : p[1] \in {"root"} \cup Least(at, "root", on) => at[p] \in Least(at, "root", on)
    BY <1>1, LeastClosed
  <2>3. \A d \in Least(at, "root", on) : \E p \in on : at[p] = d /\ p[1] \in {"root"} \cup Least(at, "root", on)
    BY <1>1, LeastPlace
  <2>4. Answering \subseteq Devices BY <2>1 DEF Least
  <2> QED BY <1>1, <2>1, <2>2, <2>3, <2>4 DEF Hear
<1>3. CASE ~alive BY <1>1, <1>3 DEF Answering, Hear
<1> QED BY <1>2, <1>3

LEMMA AnswersNext == BusTyped' /\ Wired' => Hear' BY Answers, PTL

\* A step after which no more devices hear the controller, and those that do
\* as they did.
Shrunk ==
    /\ on' \subseteq on /\ (alive' => alive)
    /\ \A p \in on' : at'[p] = at[p] /\ address'[at[p]] = address[at[p]] /\ (p \in changed => p \in changed')
    /\ Len(hubs) <= Len(hubs') /\ \A i \in 1 .. Len(hubs) : hubs'[i].address = hubs[i].address

LEMMA ShrunkAnswers ==
  ASSUME on' \subseteq on, \A p \in on' : at'[p] = at[p], alive' => alive
  PROVE  Answering' \subseteq Answering
<1>1. CASE alive'
  <2>1. Answering' = Least(at', "root", on') /\ Answering = Least(at, "root", on)
    BY <1>1, LeastAnswers DEF Answering, Hanging, Least
  <2> QED BY <2>1, LeastShrinks
<1>2. CASE ~alive' BY <1>2 DEF Answering
<1> QED BY <1>1, <1>2

LEMMA ShrunkSame ==
  ASSUME BusTyped, Wired, BusTyped', Wired', Shrunk
  PROVE  \A d \in Answering' : d \in Answering /\ address'[d] = address[d]
<1>1. Answering' \subseteq Answering BY ShrunkAnswers DEF Shrunk
<1>2. \A d \in Answering' : \E p \in on' : at'[p] = d BY AnswersNext DEF Hear
<1> QED BY <1>1, <1>2 DEF Shrunk

LEMMA ShrunkReaches ==
  ASSUME TreeSound, BusTyped, Wired, BusTyped', Wired', Shrunk, NEW r \in Routes, r[1] <= Len(hubs)
  PROVE  /\ Reached(r)' \subseteq Reached(r)
         /\ \A p \in Reached(r) \cap Places : at[p] \in Answering' => p \in Reached(r)' /\ p \in on'
<1>1. Answering' \subseteq Answering BY ShrunkAnswers DEF Shrunk
<1>2. r[1] \in Nat /\ r[2] \in Nat BY DEF Routes
<1>3. ASSUME NEW p \in Places, at[p] \in Answering'
      PROVE  p \in on' /\ p[1] \in {"root"} \cup Answering'
  <2>1. PICK q \in on' : at'[q] = at[p] /\ q[1] \in {"root"} \cup Answering' BY <1>3, AnswersNext DEF Hear
  <2>2. q \in on /\ q \in Places /\ at[q] = at[p] /\ at[q] # Nothing BY <2>1, Answers DEF Hear, Shrunk, Wired
  <2> QED BY <2>1, <2>2 DEF Wired
<1>4. CASE r[1] = 0
  <2>1. Reached(r) = {Root(r[2])} /\ Reached(r)' = {Root(r[2])} BY <1>4 DEF Reached
  <2> QED BY <1>3, <2>1
<1>5. CASE r[1] # 0
  <2>1. hubs'[r[1]].address = hubs[r[1]].address BY <1>2, <1>5, SMTT(40) DEF Shrunk, BusTyped
  <2>2. \A p : p \in Reached(r) <=> \E h \in Hubs : h \in Answering /\ address[h] = hubs[r[1]].address /\ p = <<h, r[2]>>
    BY <1>5, ReachedParts
  <2>3. \A p : p \in Reached(r)' <=> \E h \in Hubs : h \in Answering' /\ address'[h] = hubs'[r[1]].address /\ p = <<h, r[2]>>
    BY <1>5 DEF Reached, Hub, Responders
  <2>4. \A d \in Answering' : address'[d] = address[d] BY ShrunkSame
  <2>5. ASSUME NEW p \in Reached(r) \cap Places, at[p] \in Answering' PROVE p \in Reached(r)'
    <3>1. PICK h \in Hubs : h \in Answering /\ address[h] = hubs[r[1]].address /\ p = <<h, r[2]>> BY <2>2
    <3>2. p[1] = h /\ h # "root" BY <3>1 DEF TreeSound, Devices
    <3>3. h \in Answering' BY <1>3, <2>5, <3>2
    <3> QED BY <2>1, <2>3, <2>4, <3>1, <3>3
  <2> QED BY <1>1, <1>3, <2>1, <2>2, <2>3, <2>4, <2>5
<1> QED BY <1>4, <1>5

\* A reset adds the one device to those that hear the controller, at zero.
LEMMA ResetWires ==
  ASSUME TreeSound, BusTyped, Wired, NEW x \in Places, at[x] \in Devices, Reset(x), UNCHANGED alive
  PROVE  /\ Answering' \subseteq Answering \cup {at[x]}
         /\ address' \in [Devices -> Nat]
         /\ \A d \in Devices : address'[d] = IF d = at[x] THEN 0 ELSE address[d]
         /\ UNCHANGED at /\ on' \subseteq (on \cup {x}) \cap Places /\ changed' = changed \ {x}
         /\ Wired'
<1>1. UNCHANGED at /\ changed' = changed \ {x} /\ address' = [address EXCEPT ![at[x]] = 0] BY DEF Reset
<1>2. on' = (on \cup {x}) \ (IF at[x] \in Hubs THEN Ports(at[x]) ELSE {}) BY DEF Reset
<1>3. \A p \in on' : p = x \/ (p \in on /\ p[1] # at[x])
  <2>1. \A p \in on' : p \in on \cup {x} /\ (at[x] \in Hubs => p \notin Ports(at[x])) BY <1>2
  <2>2. \A p \in Places : p[1] \in {"root"} \cup Hubs BY PlaceParts
  <2>3. at[x] \in Hubs => Ports(at[x]) = {p \in Places : p[1] = at[x]} BY PlaceParts
  <2>4. at[x] # "root" /\ on \subseteq Places BY DEF TreeSound, BusTyped
  <2> QED BY <2>1, <2>2, <2>3, <2>4
<1>4. Answering' \subseteq Answering \cup {at[x]}
  <2>1. CASE alive
    <3>1. Answering = Least(at, "root", on) /\ Answering' = Least(at, "root", on')
      BY <1>1, <2>1, LeastAnswers DEF Answering, Hanging, Least
    <3>2. at[x] # "root" BY DEF TreeSound
    <3> QED BY <1>3, <3>1, <3>2, LeastGrows
  <2>2. CASE ~alive BY <2>2 DEF Answering
  <2> QED BY <2>1, <2>2
<1>5. address' \in [Devices -> Nat] /\ \A d \in Devices : address'[d] = IF d = at[x] THEN 0 ELSE address[d]
  BY <1>1 DEF BusTyped
<1>6. on' \subseteq (on \cup {x}) \cap Places BY <1>3 DEF BusTyped
<1>7. Wired'
  <2>1. at[x] # Nothing BY DEF TreeSound
  <2> QED BY <1>1, <1>3, <2>1 DEF Wired
<1> QED BY <1>1, <1>4, <1>5, <1>6, <1>7

LEMMA ResetReaches ==
  ASSUME TreeSound, BusTyped, Wired, BusTyped', Wired',
         NEW x \in Places, at[x] \in Devices, Reset(x), UNCHANGED <<alive, hubs>>,
         NEW r \in Routes, r[1] <= Len(hubs)
  PROVE  /\ Reached(r)' \subseteq Reached(r)
         /\ x \in Reached(r) /\ at[x] \in Answering' => x \in Reached(r)'
<1>1. /\ Answering' \subseteq Answering \cup {at[x]}
      /\ \A d \in Devices : address'[d] = IF d = at[x] THEN 0 ELSE address[d]
      /\ UNCHANGED at BY ResetWires
<1>2. r[1] \in Nat /\ r[2] \in Nat BY DEF Routes
<1>3. CASE r[1] = 0 BY <1>3 DEF Reached
<1>4. CASE r[1] # 0
  <2>1. hubs[r[1]].address # 0 BY <1>2, <1>4, RowTypes DEF Numbers
  <2>2. \A p : p \in Reached(r) <=> \E h \in Hubs : h \in Answering /\ address[h] = hubs[r[1]].address /\ p = <<h, r[2]>>
    BY <1>4, ReachedParts
  <2>3. \A p : p \in Reached(r)' <=> \E h \in Hubs : h \in Answering' /\ address'[h] = hubs[r[1]].address /\ p = <<h, r[2]>>
    BY <1>4 DEF Reached, Hub, Responders
  <2>4. Hubs \subseteq Devices BY DEF Devices
  <2>5. ASSUME x \in Reached(r), at[x] \in Answering' PROVE x \in Reached(r)'
    <3>1. PICK h \in Hubs : h \in Answering /\ address[h] = hubs[r[1]].address /\ x = <<h, r[2]>> BY <2>2, <2>5
    <3>2. x[1] = h /\ h # "root" /\ at[x] # h BY <3>1 DEF TreeSound, Devices, Wired
    <3>3. PICK q \in on' : at'[q] = at[x] /\ q[1] \in {"root"} \cup Answering' BY <2>5, AnswersNext DEF Hear
    <3>4. q \in Places /\ at[q] = at[x] /\ at[x] # Nothing BY <1>1, <3>3 DEF BusTyped, TreeSound
    <3>5. h \in Answering' BY <3>2, <3>3, <3>4 DEF Wired
    <3> QED BY <1>1, <2>3, <2>4, <3>1, <3>2, <3>5
  <2>6. \A h \in Hubs : h \in Answering' /\ address'[h] = hubs[r[1]].address => h \in Answering /\ address[h] = hubs[r[1]].address
    BY <1>1, <2>1, <2>4
  <2> QED BY <2>2, <2>3, <2>5, <2>6
<1> QED BY <1>3, <1>4

\* The routes of the calls in progress lead to the hubs of the table.
LEMMA LinkedRoutes ==
  ASSUME BusTyped, Chained, NEW k \in 1 .. Len(stack)
  PROVE  stack[k].route[1] <= Len(hubs)
<1>1. CASE k = Len(stack)
  <2>1. stack[k].route = <<0, rootPort>> BY <1>1 DEF RouteOf, Chained
  <2> QED BY <2>1, RowTypes
<1>2. CASE k # Len(stack)
  <2>1. k + 1 \in 1 .. Len(stack) /\ k + 1 # 1 BY <1>2, RowTypes
  <2>2. stack[k + 1].kind = "hub" BY <2>1, RowTypes DEF Chained
  <2>3. stack[k + 1].hub \in 1 .. Len(hubs) BY <2>1, <2>2 DEF Chained
  <2>4. stack[k].route = <<stack[k + 1].hub, stack[k + 1].port>> BY <1>2 DEF RouteOf, Chained
  <2> QED BY <2>3, <2>4, RowTypes
<1> QED BY <1>1, <1>2

LEMMA HandRoute ==
  ASSUME BusTyped, Chained, NEW c \in InHand
  PROVE  /\ c = stack[1] /\ c \in Frames /\ stack # <<>> /\ c.kind = "device" /\ result = Nothing /\ pass = "scan"
         /\ c.route \in Routes /\ c.route[1] <= Len(hubs)
<1>1. c = stack[1] /\ stack # <<>> /\ c.kind = "device" BY DEF InHand
<1>2. 1 \in 1 .. Len(stack) BY <1>1, TopFacts DEF BusTyped
<1> QED BY <1>1, <1>2, RowTypes, LinkedRoutes DEF Chained

LEMMA DoubtRoutes ==
  ASSUME TreeSound, BusTyped, Chained, NEW r \in Doubt
  PROVE  r \in Routes /\ r[1] <= Len(hubs)
<1>1. rootPort \in Nat /\ Len(hubs) \in Nat BY RowTypes DEF BusTyped, TreeSound
<1>2. stack # <<>> => 1 \in 1 .. Len(stack) /\ stack[1].hub \in Nat /\ stack[1].port \in Nat
  BY TopFacts, RowTypes DEF BusTyped
<1>4. CASE InHand # {} BY <1>4, HandRoute DEF Doubt
<1>5. CASE InHand = {} /\ result = "failed" /\ stack = <<>> BY <1>1, <1>5 DEF Doubt, Routes
<1>6. CASE InHand = {} /\ result = "failed" /\ stack # <<>>
  <2>1. stack[1].kind = "hub" BY <1>2, <1>6, RowTypes DEF InHand
  <2>2. stack[1].hub \in 1 .. Len(hubs) BY <1>2, <1>6, <2>1 DEF Chained
  <2> QED BY <1>1, <1>2, <1>6, <2>2 DEF Doubt, Routes
<1> QED BY <1>4, <1>5, <1>6 DEF Doubt

\* The device in hand is the same one, or there is none.
SameHand ==
    \A c \in InHand' : \E e \in InHand :
        e.route = c.route /\ e.address = c.address /\ (e.stage = "configure" <=> c.stage = "configure")

\* What a step that shrinks the wires keeps.
LEMMA ShrunkKeeps ==
  ASSUME TreeSound, BusInv, BusTyped', Wired', Shrunk
  PROVE  /\ AddressesUnique'
         /\ \A d \in Answering' : d \in Answering /\ address'[d] = address[d]
         /\ Doubt \subseteq Doubt' \/ ~alive' \/ (\A d \in Answering' : address[d] # 0) => OneAtZero'
         /\ (\A k \in 1 .. Len(disks') : k <= Len(disks) /\ disks'[k] = disks[k]) => DisksOwn'
         /\ SameHand => HandTrue'
<1>0. BusTyped /\ Wired /\ Chained BY DEF BusInv
<1>1. \A d \in Answering' : d \in Answering /\ address'[d] = address[d] BY <1>0, ShrunkSame
<1>2. AddressesUnique' BY <1>1 DEF BusInv, AddressesUnique
<1>3. ASSUME Doubt \subseteq Doubt' \/ ~alive' \/ (\A d \in Answering' : address[d] # 0) PROVE OneAtZero'
  <2> SUFFICES ASSUME NEW d \in Answering', address'[d] = 0
               PROVE  \E r \in Doubt' : \E p \in Reached(r)' \cap Places : at'[p] = d BY DEF OneAtZero
  <2>1. d \in Answering /\ address[d] = 0 /\ alive' BY <1>1 DEF Answering
  <2>6. PICK r \in Doubt : \E p \in Reached(r) \cap Places : at[p] = d BY <2>1 DEF BusInv, OneAtZero
  <2>2. PICK p \in Reached(r) \cap Places : at[p] = d BY <2>6
  <2>3. p \in Reached(r)' /\ p \in on' BY <1>0, <2>2, DoubtRoutes, ShrunkReaches
  <2>4. r \in Doubt' /\ at'[p] = d BY <1>3, <2>1, <2>2, <2>3 DEF Shrunk
  <2> QED BY <2>2, <2>3, <2>4
<1>4. \A r \in Routes : r[1] <= Len(hubs) =>
        \A p \in Reached(r)' : p \in on' \ changed' =>
            p \in Reached(r) /\ p \in on \ changed /\ at'[p] = at[p] /\ address'[at[p]] = address[at[p]]
  BY <1>0, ShrunkReaches DEF Shrunk
<1>5. ASSUME \A k \in 1 .. Len(disks') : k <= Len(disks) /\ disks'[k] = disks[k] PROVE DisksOwn'
  <2> SUFFICES ASSUME NEW k \in 1 .. Len(disks') PROVE Owned(disks[k])' BY DEF DisksOwn
  <2>1. PICK e : e = disks[k] OBVIOUS
  <2>2. k \in 1 .. Len(disks) /\ disks'[k] = e /\ e.route \in Routes BY <1>0, <1>5, <2>1, RowTypes
  <2>3. /\ e.route[1] <= Len(hubs)
        /\ \A d \in Answering : address[d] = e.address => d = e.device
        /\ \A p \in Reached(e.route) : p \in on \ changed => at[p] = e.device /\ address[at[p]] = e.address
    BY <2>1, <2>2 DEF BusInv, DisksOwn, Owned
  <2>4. e.route[1] \in Nat /\ Len(hubs) \in Nat /\ Len(hubs') \in Nat /\ Len(hubs) <= Len(hubs')
    BY <1>0, <2>2, RowTypes, ListFacts DEF Routes, Shrunk, BusTyped
  <2>5. \A p \in Reached(e.route)' : p \in on' \ changed' => at'[p] = e.device /\ address'[at'[p]] = e.address
    BY <1>4, <2>2, <2>3
  <2>6. Owned(e)' BY <1>1, <2>3, <2>4, <2>5 DEF Owned
  <2> QED BY <2>2, <2>6 DEF Owned
<1>6. ASSUME SameHand PROVE HandTrue'
  <2> SUFFICES ASSUME NEW c \in InHand', NEW p \in Reached(c.route)', p \in on' \ changed'
      PROVE address'[at'[p]] = IF c.stage = "configure" THEN c.address ELSE 0 BY DEF HandTrue
  <2>1. PICK e \in InHand : e.route = c.route /\ e.address = c.address /\ (e.stage = "configure" <=> c.stage = "configure")
    BY <1>6 DEF SameHand
  <2>2. e.route \in Routes /\ e.route[1] <= Len(hubs) BY <1>0, HandRoute
  <2>3. p \in Reached(e.route) /\ p \in on \ changed /\ at'[p] = at[p] /\ address'[at[p]] = address[at[p]]
    BY <1>4, <2>1, <2>2
  <2>4. address[at[p]] = IF e.stage = "configure" THEN e.address ELSE 0 BY <2>3 DEF BusInv, HandTrue
  <2> QED BY <2>1, <2>3, <2>4
<1> QED BY <1>1, <1>2, <1>3, <1>5, <1>6

\* A step that shrinks the wires, adds nothing to the tables and takes no new
\* device in hand.
Quieter ==
    /\ Shrunk /\ SameHand
    /\ Doubt \subseteq Doubt' \/ ~alive' \/ (\A d \in Answering' : address[d] # 0)
    /\ Len(hubs') = Len(hubs) /\ \A k \in 1 .. Len(disks') : k <= Len(disks) /\ disks'[k] = disks[k]
    /\ UNCHANGED next_address
    /\ pass' = "scan" =>
        /\ pass = "scan" /\ rootPort <= rootPort'
        /\ stack' = <<>> /\ result' = Nothing => rootPort < rootPort' \/ (stack = <<>> /\ result = Nothing)

LEMMA QuieterKeeps ==
  ASSUME TreeSound, BusInv, BusTyped', Wired', Chained', DisksPassed', Isolated', Quieter
  PROVE  BusInv'
<1>1. /\ AddressesUnique' /\ OneAtZero' /\ DisksOwn' /\ HandTrue'
      /\ \A d \in Answering' : d \in Answering /\ address'[d] = address[d] BY ShrunkKeeps DEF Quieter
<1>2. /\ Len(hubs) \in Nat /\ Len(hubs') = Len(hubs) /\ Len(disks) \in Nat /\ Len(disks') \in Nat
      /\ \A i \in 1 .. Len(hubs) : hubs'[i].address = hubs[i].address /\ hubs[i].address \in Numbers
      /\ \A k \in 1 .. Len(disks') : k \in 1 .. Len(disks) /\ disks'[k] = disks[k] /\ disks[k].address \in Numbers
      /\ rootPort \in Nat /\ rootPort' \in Nat /\ next_address' = next_address /\ next_address \in Nat
  <2>1. Len(hubs) \in Nat /\ Len(disks) \in Nat /\ Len(disks') \in Nat BY RowTypes, ListFacts DEF BusInv, BusTyped
  <2>2. \A i \in 1 .. Len(hubs) : hubs'[i].address = hubs[i].address /\ hubs[i].address \in Numbers
    BY RowTypes DEF BusInv, Quieter, Shrunk
  <2>3. \A k \in 1 .. Len(disks') : k \in 1 .. Len(disks) /\ disks'[k] = disks[k] BY <2>1 DEF Quieter
  <2>4. \A k \in 1 .. Len(disks) : disks[k].address \in Numbers BY RowTypes DEF BusInv
  <2>5. rootPort \in Nat /\ rootPort' \in Nat /\ next_address' = next_address /\ next_address \in Nat
    BY DEF BusInv, BusTyped, TreeSound, Quieter
  <2>6. Len(hubs') = Len(hubs) BY DEF Quieter
  <2> QED BY <2>1, <2>2, <2>3, <2>4, <2>5, <2>6
<1>3. \A a : (Unlisted(a) => Unlisted(a)') /\ (Unanswered(a) => Unanswered(a)') BY <1>1, <1>2 DEF Unlisted, Unanswered
<1>4. pass' = "scan" => pass = "scan" /\ \A a \in Nat : Given(a) => Given(a)' BY <1>2 DEF Quieter, Given
<1>5. \A d \in Answering : address[d] \in Nat BY Answers DEF BusInv, BusTyped, Hear
<1>6. AddressesGiven'
  <2> SUFFICES ASSUME pass' = "scan"
      PROVE /\ \A d \in Answering' : Given(address[d])'
            /\ \A i \in 1 .. Len(hubs') : Given(hubs[i].address)'
            /\ \A k \in 1 .. Len(disks') : Given(disks[k].address)'
            /\ \A i, j \in 1 .. Len(hubs') : hubs'[i].address = hubs'[j].address => i = j BY DEF AddressesGiven
  <2>1. AddressesGiven /\ pass = "scan" BY <1>4 DEF BusInv
  <2>2. ASSUME NEW d \in Answering' PROVE Given(address[d])' BY <1>1, <1>4, <1>5, <2>1 DEF AddressesGiven, Given
  <2>3. ASSUME NEW i \in 1 .. Len(hubs') PROVE Given(hubs[i].address)'
    <3>1. Given(hubs[i].address) /\ hubs'[i].address = hubs[i].address /\ hubs[i].address \in Nat
      BY <1>2, <2>1 DEF AddressesGiven, Numbers
    <3> QED BY <1>4, <3>1 DEF Given
  <2>4. ASSUME NEW k \in 1 .. Len(disks') PROVE Given(disks[k].address)'
    <3>1. Given(disks[k].address) /\ disks'[k] = disks[k] /\ disks[k].address \in Nat
      BY <1>2, <2>1 DEF AddressesGiven, Numbers
    <3> QED BY <1>4, <3>1 DEF Given
  <2> QED BY <1>2, <2>1, <2>2, <2>3, <2>4 DEF AddressesGiven
<1>7. Fresh'
  <2>1. ASSUME pass' = "scan", stack' = <<>>, result' = Nothing
        PROVE  Unlisted(rootPort)' /\ Unanswered(rootPort)'
    <3>1. PICK a \in Nat : a = rootPort' BY <1>2
    <3>2. CASE rootPort < rootPort'
      <4>1. rootPort' <= Roots BY DEF BusTyped, TreeSound
      <4>2. \A b \in Nat : Given(b) => b # a BY <1>2, <3>1, <3>2, <4>1 DEF TreeSound, Given
      <4>3. Unlisted(a) /\ Unanswered(a)
        BY <1>2, <1>4, <1>5, <2>1, <4>2 DEF BusInv, AddressesGiven, Unlisted, Unanswered, Numbers
      <4> QED BY <1>3, <3>1, <4>3 DEF Unlisted, Unanswered
    <3>3. CASE rootPort = rootPort' /\ stack = <<>> /\ result = Nothing
      <4>1. Unlisted(a) /\ Unanswered(a) BY <1>4, <2>1, <3>1, <3>3 DEF BusInv, Fresh
      <4> QED BY <1>3, <3>1, <4>1 DEF Unlisted, Unanswered
    <3> QED BY <1>2, <2>1, <3>2, <3>3 DEF Quieter
  <2>2. ASSUME NEW c \in InHand'
        PROVE  Given(c.address)' /\ Unlisted(c.address)' /\ (c.stage # "configure" => Unanswered(c.address)')
    <3>1. PICK e \in InHand : e.route = c.route /\ e.address = c.address /\ (e.stage = "configure" <=> c.stage = "configure")
      BY DEF Quieter, SameHand
    <3>2. Given(e.address) /\ Unlisted(e.address) /\ (e.stage # "configure" => Unanswered(e.address))
      BY <3>1 DEF BusInv, Fresh
    <3>3. e \in Frames /\ pass' = "scan"
      <4>1. stack' # <<>> BY DEF InHand
      <4>2. Len(stack') \in Nat /\ Len(stack') > 0 BY <4>1, ListFacts DEF BusTyped
      <4> QED BY <3>1, <4>1, HandRoute DEF BusInv, Chained
    <3>4. e.address \in Nat BY <3>3 DEF Frames, Numbers
    <3> QED BY <1>3, <1>4, <3>1, <3>2, <3>3, <3>4
  <2> QED BY <2>1, <2>2 DEF Fresh
<1> QED BY <1>1, <1>6, <1>7 DEF BusInv

-----------------------------------------------------------------------------
\* The walk over the ports: what returning, going on and descending keep.
Walk == Chained /\ DisksPassed

LEMMA ReturnKeeps ==
  ASSUME TreeSound, BusTyped, Walk, stack # <<>>, Return(result'), result' # Nothing,
         UNCHANGED <<pass, rootPort>>, disks' \in Seq(DiskRows), Len(hubs') = Len(hubs),
         \A j \in 2 .. Len(stack) : stack[j].start <= Len(disks'),
         \A i \in 1 .. Len(disks') : disks'[i].route = Top.route \/ (i <= Len(disks) /\ disks'[i] = disks[i])
  PROVE  Walk' /\ stack' \in Seq(Frames)
<1>1. /\ stack' \in Seq(Frames) /\ Len(stack') = Len(stack) - 1 /\ Len(stack) \in Nat
      /\ (stack' # <<>> <=> Len(stack) > 1) /\ Len(stack) > 0
      /\ \A k \in 1 .. Len(stack) - 1 : stack'[k] = stack[k + 1] BY ReturnFacts, TopFacts DEF Return, BusTyped
<1>2. pass = "scan" /\ \A k \in 2 .. Len(stack) : stack[k].kind = "hub" BY <1>1, RowTypes DEF Walk, Chained
<1>3. Chained'
  <2>1. ASSUME NEW k \in 1 .. Len(stack')
        PROVE  /\ stack'[k].route = RouteOf(k)' /\ stack'[k].kind = "hub" /\ stack'[k].stage = "ports"
               /\ stack'[k].hub \in 1 .. Len(hubs') /\ stack'[k].port \in Numbers /\ stack'[k].start <= Len(disks')
    <3>1. k \in 1 .. Len(stack) - 1 /\ k + 1 \in 2 .. Len(stack) /\ k + 1 \in 1 .. Len(stack) /\ k + 1 # 1 BY <1>1
    <3>2. stack'[k] = stack[k + 1] /\ stack[k + 1].kind = "hub" BY <1>1, <1>2, <3>1
    <3>3. stack[k + 1].route = RouteOf(k + 1) BY <3>1 DEF Walk, Chained
    <3>4. RouteOf(k)' = RouteOf(k + 1)
      <4>1. CASE k = Len(stack') BY <1>1, <4>1 DEF RouteOf
      <4>2. CASE k # Len(stack')
        <5>1. k + 1 \in 1 .. Len(stack) - 1 /\ k + 1 # Len(stack) BY <1>1, <3>1, <4>2
        <5>2. stack'[k + 1] = stack[(k + 1) + 1] BY <1>1, <5>1
        <5> QED BY <4>2, <5>1, <5>2 DEF RouteOf
      <4> QED BY <4>1, <4>2
    <3> QED BY <3>1, <3>2, <3>3, <3>4 DEF Walk, Chained
  <2>2. \A i, j \in 1 .. Len(stack') : i < j =>
          stack'[j].hub < stack'[i].hub /\ stack'[j].start <= stack'[i].start
    <3> SUFFICES ASSUME NEW i \in 1 .. Len(stack'), NEW j \in 1 .. Len(stack'), i < j
                 PROVE  stack'[j].hub < stack'[i].hub /\ stack'[j].start <= stack'[i].start OBVIOUS
    <3>1. /\ stack'[i] = stack[i + 1] /\ stack'[j] = stack[j + 1] /\ i + 1 < j + 1
          /\ i + 1 \in 2 .. Len(stack) /\ i + 1 \in 1 .. Len(stack) /\ j + 1 \in 1 .. Len(stack) BY <1>1
    <3> QED BY <1>2, <3>1 DEF Walk, Chained
  <2> QED BY <1>2, <2>1, <2>2 DEF Chained
<1>4. Top.route = RouteOf(1) BY <1>1, TopFacts DEF BusTyped, Walk, Chained
<1>5. DisksPassed'
  <2> SUFFICES ASSUME NEW i \in 1 .. Len(disks')
      PROVE /\ Passed(i, <<0, rootPort>>, stack = <<>> /\ result # Nothing)'
            /\ \A j \in 1 .. Len(stack') :
                /\ Passed(i, <<stack[j].hub, stack[j].port>>, j = 1 /\ result # Nothing)'
                /\ stack'[j].stage # "quiet" BY DEF DisksPassed
  <2>1. \A j \in 1 .. Len(stack') : stack'[j].stage # "quiet" /\ stack'[j].hub \in 1 .. Len(hubs)
    <3> SUFFICES ASSUME NEW j \in 1 .. Len(stack') PROVE stack'[j].stage # "quiet" /\ stack'[j].hub \in 1 .. Len(hubs)
      OBVIOUS
    <3>1. stack'[j] = stack[j + 1] /\ j + 1 \in 2 .. Len(stack) /\ j + 1 \in 1 .. Len(stack) /\ j + 1 # 1 BY <1>1
    <3> QED BY <1>2, <3>1 DEF Walk, Chained
  <2>2. CASE disks'[i].route = Top.route
    <3>1. CASE Len(stack) = 1
      <4>1. disks'[i].route = <<0, rootPort>> BY <1>1, <1>4, <2>2, <3>1 DEF RouteOf
      <4>2. stack' = <<>> /\ ~(\E j \in 1 .. Len(stack') : TRUE) BY <1>1, <3>1
      <4>3. (stack = <<>> /\ result # Nothing)' /\ UNCHANGED rootPort BY <4>2
      <4>4. Passed(i, <<0, rootPort>>, stack = <<>> /\ result # Nothing)' BY <4>1, <4>3 DEF Passed
      <4> QED BY <4>2, <4>4
    <3>2. CASE Len(stack) # 1
      <4>1. disks'[i].route = <<stack'[1].hub, stack'[1].port>> /\ 1 \in 1 .. Len(stack')
        <5>1. 1 \in 1 .. Len(stack) - 1 /\ 1 \in 1 .. Len(stack') /\ 1 + 1 = 2 BY <1>1, <3>2
        <5>2. stack'[1] = stack[2] BY <1>1, <5>1
        <5>3. RouteOf(1) = <<stack[2].hub, stack[2].port>> BY <3>2, <5>1 DEF RouteOf
        <5> QED BY <1>4, <2>2, <5>1, <5>2, <5>3
      <4>2. stack'[1].hub # 0 /\ \A j \in 1 .. Len(stack') : j # 1 => stack'[j].hub # stack'[1].hub
        <5>1. stack'[1].kind = "hub" /\ stack'[1].hub \in 1 .. Len(hubs) BY <1>1, <1>2, <2>1, <4>1
        <5>2. ASSUME NEW j \in 1 .. Len(stack'), j # 1 PROVE stack'[j].hub < stack'[1].hub
          BY <1>1, <1>3, <4>1, <5>1, <5>2 DEF Chained
        <5>3. \A j \in 1 .. Len(stack') : stack'[j].hub \in Int BY <2>1, RowTypes
        <5> QED BY <4>1, <5>1, <5>2, <5>3
      <4>3. Passed(i, <<0, rootPort>>, stack = <<>> /\ result # Nothing)' BY <4>1, <4>2 DEF Passed
      <4>4. ASSUME NEW j \in 1 .. Len(stack') PROVE Passed(i, <<stack[j].hub, stack[j].port>>, j = 1 /\ result # Nothing)'
        BY <4>1, <4>2 DEF Passed
      <4> QED BY <2>1, <4>3, <4>4
    <3> QED BY <3>1, <3>2
  <2>3. CASE i <= Len(disks) /\ disks'[i] = disks[i]
    <3>1. i \in 1 .. Len(disks) BY <2>3, RowTypes
    <3>2. Passed(i, <<0, rootPort>>, FALSE) BY <1>1, <1>2, <3>1 DEF Walk, DisksPassed, Passed
    <3>3. ASSUME NEW j \in 1 .. Len(stack') PROVE Passed(i, <<stack[j].hub, stack[j].port>>, FALSE)'
      <4>1. stack'[j] = stack[j + 1] /\ stack[j + 1].kind = "hub" /\ j + 1 # 1 /\ j + 1 \in 1 .. Len(stack)
        BY <1>1, <1>2
      <4>2. Passed(i, <<stack[j + 1].hub, stack[j + 1].port>>, FALSE) BY <3>1, <4>1 DEF Walk, DisksPassed, Passed
      <4> QED BY <2>3, <4>1, <4>2 DEF Passed
    <3> QED BY <2>1, <2>3, <3>2, <3>3 DEF Passed
  <2> QED BY <2>1, <2>2, <2>3
<1> QED BY <1>1, <1>3, <1>5 DEF Walk

\* The call on top goes on, or a device becomes a hub.
LEMMA GotoKeeps ==
  ASSUME TreeSound, BusTyped, Walk, stack # <<>>, NEW c \in Frames, stack' = <<c>> \o Tail(stack),
         UNCHANGED <<pass, rootPort, disks>>, result' = Nothing, Len(hubs') \in Nat, Len(hubs) <= Len(hubs'),
         c.route = Top.route,
         c.kind = "device" => c.stage \in {"describe", "address", "configure"},
         c.kind = "hub" =>
            /\ c.stage \in {"quiet", "ports"} /\ c.hub \in 1 .. Len(hubs') /\ c.port \in Numbers /\ c.start <= Len(disks)
            /\ \A j \in 2 .. Len(stack) : stack[j].hub < c.hub /\ stack[j].start <= c.start
            /\ \A i \in 1 .. Len(disks) : disks[i].route[1] = c.hub => disks[i].route[2] < c.port /\ c.stage # "quiet"
  PROVE  Walk' /\ stack' \in Seq(Frames)
<1>1. /\ stack' \in Seq(Frames) /\ stack' # <<>> /\ Len(stack') = Len(stack) /\ Len(stack) \in Nat
      /\ stack'[1] = c /\ (\A k \in 2 .. Len(stack) : stack'[k] = stack[k]) /\ Len(stack) >= 1
  BY GotoFacts, TopFacts DEF BusTyped
<1>2. pass = "scan" /\ (\A k \in 2 .. Len(stack) : stack[k].kind = "hub" /\ stack[k].stage = "ports") /\ c.kind \in {"device", "hub"}
  <2>1. c.kind \in {"device", "hub"} BY DEF Frames
  <2>2. pass = "scan" BY DEF Walk, Chained
  <2>3. ASSUME NEW k \in 2 .. Len(stack) PROVE stack[k].kind = "hub" /\ stack[k].stage = "ports"
    <3>1. k \in 1 .. Len(stack) /\ k # 1 BY <1>1
    <3>2. stack[k].kind = "hub" BY <3>1, RowTypes DEF Walk, Chained
    <3> QED BY <3>1, <3>2 DEF Walk, Chained
  <2> QED BY <2>1, <2>2, <2>3
<1>3. ASSUME NEW k \in 1 .. Len(stack) PROVE RouteOf(k)' = RouteOf(k)
  <2>1. CASE k = Len(stack)
    <3>1. RouteOf(k)' = <<0, rootPort'>> /\ RouteOf(k) = <<0, rootPort>> BY <1>1, <2>1 DEF RouteOf
    <3> QED BY <3>1
  <2>2. CASE k # Len(stack)
    <3>0. Len(stack) \in Nat BY <1>1
    <3>1. k + 1 \in 2 .. Len(stack) BY <2>2, <3>0
    <3>2. stack'[k + 1] = stack[k + 1] BY <1>1, <3>1
    <3> QED BY <1>1, <2>2, <3>2 DEF RouteOf
  <2> QED BY <2>1, <2>2
<1>4. Chained'
  <2>1. ASSUME NEW k \in 2 .. Len(stack)
        PROVE  /\ stack'[k].route = RouteOf(k)' /\ stack'[k].kind = "hub" /\ stack'[k].stage = "ports"
               /\ stack'[k].hub \in 1 .. Len(hubs') /\ stack'[k].port \in Numbers /\ stack'[k].start <= Len(disks')
    <3>1. k \in 1 .. Len(stack) /\ stack'[k] = stack[k] /\ stack[k].kind = "hub" /\ stack[k].stage = "ports"
      BY <1>1, <1>2
    <3>2. stack[k].hub \in 1 .. Len(hubs) /\ stack[k].port \in Numbers /\ stack[k].start <= Len(disks)
          /\ stack[k].route = RouteOf(k) BY <3>1 DEF Walk, Chained
    <3> QED BY <1>3, <3>1, <3>2, RowTypes
  <2>2. stack'[1].route = RouteOf(1)'
    <3>1. 1 \in 1 .. Len(stack) /\ stack[1].route = RouteOf(1) /\ Top = stack[1]
      BY <1>1, TopFacts DEF Walk, Chained, BusTyped
    <3> QED BY <1>1, <1>3, <3>1
  <2>3. \A k \in 1 .. Len(stack) : k = 1 \/ k \in 2 .. Len(stack) BY <1>1
  <2>4. \A i, j \in 1 .. Len(stack) : i < j /\ stack'[i].kind = "hub" =>
          stack'[j].hub < stack'[i].hub /\ stack'[j].start <= stack'[i].start
    <3> SUFFICES ASSUME NEW i \in 1 .. Len(stack), NEW j \in 1 .. Len(stack), i < j, stack'[i].kind = "hub"
                 PROVE  stack'[j].hub < stack'[i].hub /\ stack'[j].start <= stack'[i].start OBVIOUS
    <3>1. j \in 2 .. Len(stack) /\ stack'[j] = stack[j] BY <1>1
    <3>2. CASE i = 1 BY <1>1, <3>1, <3>2
    <3>3. CASE i # 1
      <4>1. stack'[i] = stack[i] BY <1>1, <3>3
      <4> QED BY <3>1, <4>1 DEF Walk, Chained
    <3> QED BY <3>2, <3>3
  <2>5. \A k \in 1 .. Len(stack) :
        /\ stack'[k].route = RouteOf(k)'
        /\ stack'[k].kind = "device" => k = 1 /\ result' = Nothing /\ stack'[k].stage \in {"describe", "address", "configure"}
        /\ stack'[k].kind = "hub" =>
            /\ stack'[k].stage \in {"quiet", "ports"} /\ (k # 1 \/ result' # Nothing => stack'[k].stage = "ports")
            /\ stack'[k].hub \in 1 .. Len(hubs') /\ stack'[k].port \in Numbers /\ stack'[k].start <= Len(disks')
    BY <1>1, <2>1, <2>2, <2>3
  <2> QED BY <1>1, <1>2, <2>4, <2>5 DEF Chained
<1>5. DisksPassed'
  <2> SUFFICES ASSUME NEW i \in 1 .. Len(disks)
      PROVE /\ Passed(i, <<0, rootPort>>, stack = <<>> /\ result # Nothing)'
            /\ \A j \in 1 .. Len(stack) : stack'[j].kind = "hub" =>
                /\ Passed(i, <<stack[j].hub, stack[j].port>>, j = 1 /\ result # Nothing)'
                /\ stack'[j].stage = "quiet" => disks[i].route[1] # stack'[j].hub BY <1>1 DEF DisksPassed
  <2>1. Passed(i, <<0, rootPort>>, stack = <<>> /\ result # Nothing)' BY <1>1, <1>2 DEF Walk, DisksPassed, Passed
  <2>2. ASSUME NEW j \in 2 .. Len(stack)
        PROVE  Passed(i, <<stack[j].hub, stack[j].port>>, j = 1 /\ result # Nothing)' /\ stack'[j].stage = "ports"
    <3>1. j \in 1 .. Len(stack) /\ j # 1 /\ stack'[j] = stack[j] /\ stack[j].kind = "hub" /\ stack[j].stage = "ports"
      BY <1>1, <1>2
    <3>2. Passed(i, <<stack[j].hub, stack[j].port>>, FALSE) BY <3>1 DEF Walk, DisksPassed, Passed
    <3> QED BY <3>1, <3>2 DEF Passed
  <2>3. c.kind = "hub" =>
          /\ Passed(i, <<stack[1].hub, stack[1].port>>, 1 = 1 /\ result # Nothing)'
          /\ c.stage = "quiet" => disks[i].route[1] # c.hub BY <1>1 DEF Passed
  <2>4. \A k \in 1 .. Len(stack) : k = 1 \/ k \in 2 .. Len(stack) BY <1>1
  <2> QED BY <1>1, <2>1, <2>2, <2>3, <2>4
<1> QED BY <1>1, <1>4, <1>5 DEF Walk

\* A device is pushed, at the root port or at the port of the hub on top.
LEMMA PushKeeps ==
  ASSUME TreeSound, BusTyped, Walk, NEW c \in Frames, Push(c), pass = "scan", result = Nothing,
         UNCHANGED <<pass, rootPort, hubs, disks, result>>,
         c.kind = "device", c.stage = "describe",
         stack = <<>> => c.route = <<0, rootPort>>,
         stack # <<>> => Top.kind = "hub" /\ Top.stage = "ports" /\ c.route = <<Top.hub, Top.port>>
  PROVE  Walk' /\ stack' \in Seq(Frames)
<1>1. /\ stack' \in Seq(Frames) /\ stack' # <<>> /\ Len(stack') = Len(stack) + 1 /\ Len(stack) \in Nat
      /\ stack'[1] = c /\ \A k \in 1 .. Len(stack) : stack'[k + 1] = stack[k] BY PushFacts DEF BusTyped
<1>2. \A k \in 1 .. Len(stack) : stack[k].kind = "hub" /\ stack[k].stage = "ports"
  <2> SUFFICES ASSUME NEW k \in 1 .. Len(stack) PROVE stack[k].kind = "hub" /\ stack[k].stage = "ports" OBVIOUS
  <2>1. stack # <<>> /\ Top = stack[1] BY <1>1, TopFacts DEF BusTyped
  <2> QED BY <2>1, RowTypes DEF Walk, Chained
<1>3. Chained'
  <2>1. ASSUME NEW k \in 2 .. Len(stack')
        PROVE  /\ stack'[k].route = RouteOf(k)' /\ stack'[k].kind = "hub" /\ stack'[k].stage = "ports"
               /\ stack'[k].hub \in 1 .. Len(hubs) /\ stack'[k].port \in Numbers /\ stack'[k].start <= Len(disks)
    <3>1. PICK m \in 1 .. Len(stack) : k = m + 1
      <4>1. k - 1 \in 1 .. Len(stack) /\ k = (k - 1) + 1 BY <1>1
      <4> QED BY <4>1
    <3>2. stack'[k] = stack[m] /\ stack[m].kind = "hub" /\ stack[m].stage = "ports" /\ stack[m].route = RouteOf(m)
      BY <1>1, <1>2, <3>1 DEF Walk, Chained
    <3>3. RouteOf(k)' = RouteOf(m)
      <4>1. CASE m = Len(stack) BY <1>1, <3>1, <4>1 DEF RouteOf
      <4>2. CASE m # Len(stack)
        <5>1. m + 1 \in 1 .. Len(stack) /\ k # Len(stack') BY <1>1, <3>1, <4>2
        <5>2. stack'[k + 1] = stack[m + 1] BY <1>1, <3>1, <5>1
        <5> QED BY <4>2, <5>1, <5>2 DEF RouteOf
      <4> QED BY <4>1, <4>2
    <3> QED BY <3>2, <3>3 DEF Walk, Chained
  <2>2. stack'[1].route = RouteOf(1)'
    <3>1. CASE stack = <<>>
      <4>1. Len(stack') = 1 BY <1>1, <3>1
      <4> QED BY <1>1, <3>1, <4>1 DEF RouteOf
    <3>2. CASE stack # <<>>
      <4>1. 1 \in 1 .. Len(stack) /\ Len(stack') # 1 /\ Top = stack[1] BY <1>1, <3>2, TopFacts DEF BusTyped
      <4>2. stack'[1 + 1] = stack[1] BY <1>1, <4>1
      <4> QED BY <1>1, <3>2, <4>1, <4>2 DEF RouteOf
    <3> QED BY <3>1, <3>2
  <2>3. \A k \in 1 .. Len(stack') : k = 1 \/ k \in 2 .. Len(stack') BY <1>1
  <2>4. \A i, j \in 1 .. Len(stack') : i < j /\ stack'[i].kind = "hub" =>
          stack'[j].hub < stack'[i].hub /\ stack'[j].start <= stack'[i].start
    <3> SUFFICES ASSUME NEW i \in 1 .. Len(stack'), NEW j \in 1 .. Len(stack'), i < j, stack'[i].kind = "hub"
                 PROVE  stack'[j].hub < stack'[i].hub /\ stack'[j].start <= stack'[i].start OBVIOUS
    <3>1. i - 1 \in 1 .. Len(stack) /\ j - 1 \in 1 .. Len(stack) /\ (i - 1) + 1 = i /\ (j - 1) + 1 = j /\ i - 1 < j - 1
      <4>1. i # 1 BY <1>1
      <4> QED BY <1>1, <4>1
    <3>2. stack'[(i - 1) + 1] = stack[i - 1] /\ stack'[(j - 1) + 1] = stack[j - 1] BY <1>1, <3>1
    <3> QED BY <1>2, <3>1, <3>2 DEF Walk, Chained
  <2>5. \A k \in 1 .. Len(stack') :
        /\ stack'[k].route = RouteOf(k)'
        /\ stack'[k].kind = "device" => k = 1 /\ result' = Nothing /\ stack'[k].stage \in {"describe", "address", "configure"}
        /\ stack'[k].kind = "hub" =>
            /\ stack'[k].stage \in {"quiet", "ports"} /\ (k # 1 \/ result' # Nothing => stack'[k].stage = "ports")
            /\ stack'[k].hub \in 1 .. Len(hubs') /\ stack'[k].port \in Numbers /\ stack'[k].start <= Len(disks')
    BY <1>1, <2>1, <2>2, <2>3
  <2> QED BY <1>1, <2>4, <2>5 DEF Chained
<1>4. DisksPassed'
  <2> SUFFICES ASSUME NEW i \in 1 .. Len(disks)
      PROVE /\ Passed(i, <<0, rootPort>>, stack = <<>> /\ result # Nothing)'
            /\ \A j \in 1 .. Len(stack') : stack'[j].kind = "hub" =>
                /\ Passed(i, <<stack[j].hub, stack[j].port>>, j = 1 /\ result # Nothing)'
                /\ stack'[j].stage # "quiet" BY <1>1 DEF DisksPassed
  <2>1. Passed(i, <<0, rootPort>>, stack = <<>> /\ result # Nothing)' BY <1>1 DEF Walk, DisksPassed, Passed
  <2>2. ASSUME NEW j \in 1 .. Len(stack'), stack'[j].kind = "hub"
        PROVE  Passed(i, <<stack[j].hub, stack[j].port>>, j = 1 /\ result # Nothing)' /\ stack'[j].stage # "quiet"
    <3>1. PICK m \in 1 .. Len(stack) : j = m + 1
      <4>1. j # 1 BY <1>1, <2>2
      <4>2. j - 1 \in 1 .. Len(stack) /\ j = (j - 1) + 1 BY <1>1, <4>1
      <4> QED BY <4>2
    <3>2. stack'[j] = stack[m] /\ stack[m].kind = "hub" /\ stack[m].stage = "ports" BY <1>1, <1>2, <3>1
    <3>3. Passed(i, <<stack[m].hub, stack[m].port>>, FALSE) BY <3>2 DEF Walk, DisksPassed, Passed
    <3> QED BY <3>2, <3>3 DEF Passed
  <2> QED BY <2>1, <2>2
<1> QED BY <1>1, <1>3, <1>4 DEF Walk

-----------------------------------------------------------------------------
\* The steps that only take away.
LEMMA NoHand == BusTyped /\ Chained /\ result # Nothing => InHand = {}
<1> SUFFICES ASSUME BusTyped, Chained, result # Nothing, NEW c \in InHand PROVE FALSE OBVIOUS
<1> QED BY HandRoute

LEMMA NoHandNext == (BusTyped /\ Chained /\ result # Nothing)' => (InHand = {})' BY NoHand, PTL

LEMMA HubOnTop ==
  ASSUME BusTyped, stack # <<>>, Top.kind = "hub"
  PROVE  /\ InHand = {} /\ Top = stack[1] /\ 1 \in 1 .. Len(stack)
         /\ Doubt = IF result = "failed" THEN {<<Top.hub, Top.port>>} ELSE {}
<1>1. Top = stack[1] /\ 1 \in 1 .. Len(stack) BY TopFacts DEF BusTyped
<1>2. InHand = {} BY <1>1 DEF InHand
<1> QED BY <1>1, <1>2 DEF Doubt

LEMMA Above == \A n \in Nat : n >= 1 /\ n # 1 => n > 1 /\ 1 \in 1 .. n - 1 OBVIOUS

\* A device that failed stays in doubt, at the port of its caller.
LEMMA StillInDoubt ==
  ASSUME BusTyped, Chained, stack # <<>>, Top.kind = "device", stack' = Tail(stack),
         UNCHANGED rootPort, InHand' = {}, result' = "failed"
  PROVE  Doubt \subseteq Doubt'
<1>0. Top = stack[1] /\ Len(stack) \in Nat /\ Len(stack) >= 1 BY TopFacts DEF BusTyped
<1>1. /\ (stack' # <<>> <=> Len(stack) > 1) /\ \A k \in 1 .. Len(stack) - 1 : stack'[k] = stack[k + 1]
  BY ReturnFacts DEF BusTyped
<1>2. Top.route = RouteOf(1) BY <1>0 DEF Chained
<1>3. Doubt \subseteq {Top.route} BY <1>0 DEF Doubt, InHand
<1>4. Doubt' = IF stack' = <<>> THEN {<<0, rootPort'>>} ELSE {<<stack'[1].hub, stack'[1].port>>} BY DEF Doubt
<1>5. CASE Len(stack) = 1
  <2>1. stack' = <<>> /\ Top.route = <<0, rootPort>> /\ rootPort' = rootPort BY <1>1, <1>2, <1>5 DEF RouteOf
  <2> QED BY <1>3, <1>4, <2>1
<1>6. CASE Len(stack) # 1
  <2>1. Len(stack) > 1 /\ 1 \in 1 .. Len(stack) - 1 BY <1>0, <1>6, Above, Zenon
  <2>2. stack'[1] = stack[1 + 1] BY <1>1, <2>1
  <2> QED BY <1>1, <1>2, <1>3, <1>4, <1>6, <2>1, <2>2 DEF RouteOf
<1> QED BY <1>5, <1>6

\* A call returns with nothing to show but its word.
LEMMA Returns ==
  ASSUME TreeSound, BusInv, stack # <<>>, Return(result'), result' \in {"ok", "failed"},
         Top.kind = "device" => result' = "failed",
         Top.kind = "hub" => result # "failed" \/ ~alive',
         UNCHANGED <<at, address, changed, next_address, pass, rootPort>>,
         on' \subseteq on, alive' => alive, alive' \in BOOLEAN,
         hubs' \in Seq(HubRows), Len(hubs') = Len(hubs), \A i \in 1 .. Len(hubs) : hubs'[i].address = hubs[i].address,
         disks' \in Seq(DiskRows), \A k \in 1 .. Len(disks') : k <= Len(disks) /\ disks'[k] = disks[k],
         \A j \in 2 .. Len(stack) : stack[j].start <= Len(disks')
  PROVE  BusInv'
<1>0. BusTyped /\ Wired /\ Chained /\ Walk /\ result' # Nothing /\ pass = "scan" /\ pass' = "scan"
  <2>1. result' # Nothing BY DEF Nothing
  <2> QED BY <2>1 DEF BusInv, Walk, Chained
<1>1. Walk' /\ stack' \in Seq(Frames) BY <1>0, ReturnKeeps
<1>2. BusTyped' BY <1>0, <1>1 DEF BusTyped
<1>3. Wired' BY <1>0 DEF Wired
<1>4. Shrunk
  <2>1. Len(hubs) \in Nat BY <1>0, RowTypes
  <2> QED BY <2>1 DEF Shrunk
<1>5. InHand' = {} /\ SameHand BY <1>0, <1>1, <1>2, NoHandNext DEF Walk, SameHand
<1>6. Doubt \subseteq Doubt' \/ ~alive'
  <2>1. Top.kind \in {"device", "hub"} BY <1>0, TopFacts, RowTypes DEF BusTyped
  <2>2. CASE Top.kind = "hub" BY <1>0, <2>2, HubOnTop
  <2>3. CASE Top.kind = "device" BY <1>0, <1>5, <2>3, StillInDoubt DEF Return
  <2> QED BY <2>1, <2>2, <2>3
<1>7. Isolated' BY <1>0 DEF Isolated
<1>8. Quieter BY <1>0, <1>4, <1>5, <1>6 DEF Quieter, BusTyped, TreeSound
<1> QED BY <1>0, <1>1, <1>2, <1>3, <1>7, <1>8, QuieterKeeps DEF Walk

LEMMA ListPut ==
  ASSUME NEW S, NEW s \in Seq(S), NEW k \in 1 .. Len(s), NEW e \in S
  PROVE  /\ [s EXCEPT ![k] = e] \in Seq(S) /\ Len([s EXCEPT ![k] = e]) = Len(s)
         /\ \A i \in 1 .. Len(s) : [s EXCEPT ![k] = e][i] = IF i = k THEN e ELSE s[i] OBVIOUS

LEMMA HubFails ==
  ASSUME TreeSound, BusInv, stack # <<>>, Top.kind = "hub", HubFailed,
         result # "failed" \/ ~alive',
         UNCHANGED <<at, address, changed, next_address, pass, rootPort>>,
         on' \subseteq on, alive' => alive, alive' \in BOOLEAN
  PROVE  BusInv'
<1>0. BusTyped /\ Chained /\ Top = stack[1] /\ 1 \in 1 .. Len(stack) /\ Len(stack) \in Nat
  BY HubOnTop, RowTypes DEF BusInv
<1>1. Top.hub \in 1 .. Len(hubs) /\ Top.start <= Len(disks) /\ Top.start \in Nat
      /\ \A j \in 2 .. Len(stack) : stack[j].start <= Top.start
  <2>1. \A j \in 2 .. Len(stack) : stack[j].start <= Top.start BY <1>0 DEF Chained
  <2> QED BY <1>0, <2>1, RowTypes DEF Chained
<1>2. hubs' \in Seq(HubRows) /\ Len(hubs') = Len(hubs) /\ \A i \in 1 .. Len(hubs) : hubs'[i].address = hubs[i].address
  <2>1. hubs \in Seq(HubRows) /\ hubs' = [hubs EXCEPT ![Top.hub].dead = TRUE] BY <1>0 DEF HubFailed, BusTyped
  <2>2. PICK h : h = Top.hub OBVIOUS
  <2>3. hubs' = [hubs EXCEPT ![h] = [hubs[h] EXCEPT !.dead = TRUE]] /\ h \in 1 .. Len(hubs) BY <1>1, <2>1, <2>2
  <2>4. \A e \in HubRows : [e EXCEPT !.dead = TRUE] \in HubRows /\ [e EXCEPT !.dead = TRUE].address = e.address
    BY DEF HubRows
  <2> DEFINE n == [hubs[h] EXCEPT !.dead = TRUE]
  <2>5. n \in HubRows /\ n.address = hubs[h].address BY <2>1, <2>3, <2>4
  <2> HIDE DEF n
  <2>6. hubs' = [hubs EXCEPT ![h] = n] BY <2>3 DEF n
  <2>7. /\ [hubs EXCEPT ![h] = n] \in Seq(HubRows) /\ Len([hubs EXCEPT ![h] = n]) = Len(hubs)
        /\ \A i \in 1 .. Len(hubs) : [hubs EXCEPT ![h] = n][i] = IF i = h THEN n ELSE hubs[i]
    BY <2>1, <2>3, <2>5, ListPut
  <2> QED BY <2>5, <2>6, <2>7
<1>3. /\ disks' \in Seq(DiskRows) /\ Len(disks') = Top.start
      /\ \A k \in 1 .. Len(disks') : k <= Len(disks) /\ disks'[k] = disks[k]
  <2>1. disks \in Seq(DiskRows) /\ disks' = SubSeq(disks, 1, Top.start) /\ Len(disks) \in Nat
    BY <1>0, RowTypes DEF HubFailed, BusTyped
  <2> QED BY <1>1, <2>1, ListFacts
<1>4. Return(result') /\ result' = "failed" BY DEF HubFailed, Return
<1> QED BY <1>1, <1>2, <1>3, <1>4, Returns

\* The walk goes on to another port of the hub.
LEMMA PortDone ==
  ASSUME TreeSound, BusInv, stack # <<>>, Top.kind = "hub", NEW c \in Frames, Goto(c), result' = Nothing,
         UNCHANGED <<at, address, changed, alive, hubs, disks, next_address, pass, rootPort>>,
         on' \subseteq on, result = "failed" => on' \cap Here = {},
         c.kind = "hub", c.hub = Top.hub, c.start = Top.start, c.route = Top.route, c.stage \in {"quiet", "ports"},
         c.port \in Numbers, (c.port = Top.port + 1 /\ c.stage = Top.stage) \/ Top.stage = "quiet"
  PROVE  BusInv'
<1>0. /\ BusTyped /\ Wired /\ Chained /\ Walk /\ pass = "scan" /\ pass' = "scan"
      /\ Top = stack[1] /\ 1 \in 1 .. Len(stack) /\ InHand = {} /\ Len(stack) \in Nat
      /\ Doubt = IF result = "failed" THEN {<<Top.hub, Top.port>>} ELSE {}
  <2>1. Top = stack[1] /\ 1 \in 1 .. Len(stack) /\ InHand = {} /\ Len(stack) \in Nat BY HubOnTop, RowTypes DEF BusInv
  <2>2. Doubt = IF result = "failed" THEN {<<Top.hub, Top.port>>} ELSE {} BY HubOnTop DEF BusInv
  <2> QED BY <2>1, <2>2 DEF BusInv, Walk, Chained
<1>1. Walk' /\ stack' \in Seq(Frames)
  <2>1. /\ c.hub \in 1 .. Len(hubs') /\ c.start <= Len(disks)
        /\ \A j \in 2 .. Len(stack) : stack[j].hub < c.hub /\ stack[j].start <= c.start
    <3>1. Top.hub \in 1 .. Len(hubs) /\ Top.start <= Len(disks) BY <1>0 DEF Chained
    <3>2. \A j \in 2 .. Len(stack) : stack[j].hub < stack[1].hub /\ stack[j].start <= stack[1].start
      BY <1>0 DEF Chained
    <3> QED BY <1>0, <3>1, <3>2
  <2>2. \A i \in 1 .. Len(disks) : disks[i].route[1] = c.hub => disks[i].route[2] < c.port /\ c.stage # "quiet"
    <3> SUFFICES ASSUME NEW i \in 1 .. Len(disks), disks[i].route[1] = c.hub
                 PROVE  disks[i].route[2] < c.port /\ c.stage # "quiet" OBVIOUS
    <3>1. /\ Passed(i, <<Top.hub, Top.port>>, 1 = 1 /\ result # Nothing)
          /\ Top.stage = "quiet" => disks[i].route[1] # Top.hub BY <1>0 DEF Walk, DisksPassed
    <3>2. disks[i].route[2] < Top.port \/ disks[i].route[2] = Top.port BY <3>1 DEF Passed
    <3>3. Top.stage # "quiet" /\ c.port = Top.port + 1 BY <3>1
    <3>4. disks[i].route[2] \in Nat /\ Top.port \in Nat BY <1>0, RowTypes DEF Routes
    <3> QED BY <3>2, <3>3, <3>4
  <2>3. Len(hubs') \in Nat /\ Len(hubs) <= Len(hubs') BY <1>0, RowTypes
  <2>4. stack' = <<c>> \o Tail(stack) BY DEF Goto
  <2> QED BY <1>0, <2>1, <2>2, <2>3, <2>4, GotoKeeps
<1>2. BusTyped' /\ Wired'
  <2>1. BusTyped' BY <1>0, <1>1 DEF BusTyped
  <2> QED BY <1>0, <2>1 DEF Wired
<1>3. Shrunk
  <2>1. Len(hubs) \in Nat BY <1>0, RowTypes
  <2> QED BY <2>1 DEF Shrunk
<1>4. stack' # <<>> /\ InHand' = {} /\ SameHand
  <2>1. stack' # <<>> /\ stack'[1] = c BY <1>0, GotoFacts DEF Goto, BusTyped
  <2> QED BY <2>1 DEF InHand, SameHand
<1>5. Doubt \subseteq Doubt' \/ (\A d \in Answering' : address[d] # 0)
  <2>1. CASE result # "failed" BY <1>0, <2>1
  <2>2. CASE result = "failed"
    <3> SUFFICES ASSUME NEW d \in Answering', address[d] = 0 PROVE FALSE OBVIOUS
    <3>1. d \in Answering BY <1>0, <1>2, <1>3, ShrunkSame
    <3>2. PICK r \in Doubt : \E p \in Reached(r) \cap Places : at[p] = d BY <3>1 DEF BusInv, OneAtZero
    <3>3. PICK p \in Reached(r) \cap Places : at[p] = d BY <3>2
    <3>4. p \in on' BY <1>0, <1>2, <1>3, <3>3, DoubtRoutes, ShrunkReaches
    <3>5. p \in Here BY <1>0, <2>2, <3>2, <3>3 DEF Here
    <3> QED BY <2>2, <3>4, <3>5
  <2> QED BY <2>1, <2>2
<1>6. Isolated' BY <1>0 DEF Isolated
<1>7. Quieter BY <1>0, <1>3, <1>4, <1>5 DEF Quieter, BusTyped, TreeSound
<1> QED BY <1>1, <1>2, <1>6, <1>7, QuieterKeeps DEF Walk

\* On to the next root port, or the scan is over.
LEMMA RootDone ==
  ASSUME TreeSound, BusInv, pass = "scan", stack = <<>>, stack' = <<>>, result' = Nothing, NextRoot,
         UNCHANGED <<at, changed, address, tables>>, on' \subseteq on, alive' => alive, alive' \in BOOLEAN,
         result = "failed" => Root(rootPort) \notin on' \/ ~alive'
  PROVE  BusInv'
<1>0. /\ BusTyped /\ Wired /\ Chained /\ DisksPassed /\ InHand = {} /\ InHand' = {}
      /\ Doubt = IF result = "failed" THEN {<<0, rootPort>>} ELSE {}
      /\ UNCHANGED <<hubs, disks, next_address>> /\ rootPort \in Nat
      /\ pass' # "isolate" BY DEF BusInv, InHand, Doubt, BusTyped, tables, TreeSound, NextRoot
<1>1. (pass' = "scan" /\ rootPort' = rootPort + 1) \/ pass' = "idle" BY DEF NextRoot
<1>2. BusTyped' /\ Wired'
  <2>1. pass' \in {"idle", "isolate", "scan"} /\ rootPort' \in 1 .. Roots BY <1>0 DEF NextRoot, BusTyped, TreeSound
  <2>2. BusTyped' BY <1>0, <2>1 DEF BusTyped
  <2> QED BY <1>0, <2>2 DEF Wired
<1>3. Shrunk
  <2>1. Len(hubs) \in Nat BY <1>0, RowTypes
  <2> QED BY <1>0, <2>1 DEF Shrunk
<1>4. Doubt \subseteq Doubt' \/ ~alive' \/ (\A d \in Answering' : address[d] # 0)
  <2>1. CASE result # "failed" BY <1>0, <2>1
  <2>2. CASE result = "failed" /\ Root(rootPort) \notin on'
    <3> SUFFICES ASSUME NEW d \in Answering', address[d] = 0 PROVE FALSE OBVIOUS
    <3>1. d \in Answering BY <1>0, <1>2, <1>3, ShrunkSame
    <3>2. PICK r \in Doubt : \E p \in Reached(r) \cap Places : at[p] = d BY <3>1 DEF BusInv, OneAtZero
    <3>3. PICK p \in Reached(r) \cap Places : at[p] = d BY <3>2
    <3>4. p \in on' BY <1>0, <1>2, <1>3, <3>3, DoubtRoutes, ShrunkReaches
    <3>5. p = Root(rootPort) BY <1>0, <2>2, <3>2, <3>3 DEF Reached
    <3> QED BY <2>2, <3>4, <3>5
  <2> QED BY <2>1, <2>2
<1>5. Quieter BY <1>0, <1>1, <1>3, <1>4 DEF Quieter, SameHand
<1>6. Chained'
  <2>1. Len(stack') = 0 OBVIOUS
  <2> QED BY <2>1 DEF Chained
<1>7. DisksPassed'
  <2> SUFFICES ASSUME NEW k \in 1 .. Len(disks), pass' = "scan"
               PROVE  Passed(k, <<0, rootPort>>, stack = <<>> /\ result # Nothing)'
    <3>1. Len(stack') = 0 OBVIOUS
    <3> QED BY <1>0, <3>1 DEF DisksPassed
  <2>1. Passed(k, <<0, rootPort>>, stack = <<>> /\ result # Nothing) BY <1>0 DEF DisksPassed
  <2>2. disks[k].route[1] = 0 => disks[k].route[2] < rootPort \/ disks[k].route[2] = rootPort BY <2>1 DEF Passed
  <2>3. disks[k].route[2] \in Nat /\ disks'[k] = disks[k] BY <1>0, RowTypes DEF Routes
  <2>4. disks[k].route[1] = 0 => disks[k].route[2] < rootPort' BY <1>0, <1>1, <2>2, <2>3
  <2> QED BY <2>3, <2>4 DEF Passed
<1>8. Isolated' BY <1>0 DEF Isolated
<1> QED BY <1>2, <1>5, <1>6, <1>7, <1>8, QuieterKeeps

\* What the user does.
LEMMA Outside ==
  ASSUME TreeSound, BusInv, BusTyped', Wired', on' \subseteq on,
         \A p \in on' : at'[p] = at[p] /\ address'[at[p]] = address[at[p]] /\ (p \in changed => p \in changed'),
         UNCHANGED <<alive, tables, pass, rootPort, stack, result>>
  PROVE  BusInv'
<1>0. /\ BusTyped /\ Wired /\ Chained /\ DisksPassed /\ Isolated
      /\ UNCHANGED <<hubs, disks, next_address>> BY DEF BusInv, tables
<1>1. Shrunk
  <2>1. Len(hubs) \in Nat BY <1>0, RowTypes
  <2> QED BY <1>0, <2>1 DEF Shrunk
<1>2. InHand' = InHand /\ SameHand /\ Doubt' = Doubt
  <2>1. InHand' = InHand BY DEF InHand
  <2> QED BY <2>1 DEF SameHand, Doubt
<1>3. Quieter BY <1>0, <1>1, <1>2 DEF Quieter, BusTyped, TreeSound
<1>4. Chained' /\ DisksPassed'
  <2>1. \A k : RouteOf(k)' = RouteOf(k) BY DEF RouteOf
  <2>2. Chained' BY <1>0, <2>1 DEF Chained
  <2> QED BY <1>0, <2>2 DEF DisksPassed, Passed
<1>5. Isolated' BY <1>0 DEF Isolated
<1> QED BY <1>3, <1>4, <1>5, QuieterKeeps

-----------------------------------------------------------------------------
\* The actions, one by one.
LEMMA InFacts ==
  ASSUME TreeSound, BusInv, NEW kind, NEW stage, In(kind, stage)
  PROVE  /\ stack # <<>> /\ result = Nothing /\ Top.kind = kind /\ Top.stage = stage /\ Top = stack[1]
         /\ Top \in Frames /\ 1 \in 1 .. Len(stack) /\ Len(stack) \in Nat /\ stack \in Seq(Frames)
         /\ \A j \in 2 .. Len(stack) : stack[j].start <= Len(disks)
<1>1. stack # <<>> /\ result = Nothing /\ Top.kind = kind /\ Top.stage = stage BY DEF In
<1>2. Top = stack[1] /\ Top \in Frames /\ 1 \in 1 .. Len(stack) /\ Len(stack) \in Nat /\ stack \in Seq(Frames)
  BY <1>1, TopFacts DEF BusInv, BusTyped
<1>3. ASSUME NEW j \in 2 .. Len(stack) PROVE stack[j].start <= Len(disks)
  <2>1. j \in 1 .. Len(stack) /\ j # 1 BY <1>2
  <2>2. stack[j].kind = "hub" BY <2>1, RowTypes DEF BusInv, Chained
  <2> QED BY <2>1, <2>2 DEF BusInv, Chained
<1> QED BY <1>1, <1>2, <1>3

\* A device that cannot be enumerated, the wires being as they were.
LEMMA DeviceFails ==
  ASSUME TreeSound, BusInv, NEW stage, In("device", stage), Return("failed"),
         UNCHANGED <<wires, alive, tables, pass, rootPort>>
  PROVE  BusInv'
<1>1. Return(result') /\ result' = "failed" BY DEF Return
<1>2. UNCHANGED <<at, on, changed, address, hubs, disks, next_address>> BY DEF wires, tables
<1>3. /\ stack # <<>> /\ Top.kind = "device" /\ \A j \in 2 .. Len(stack) : stack[j].start <= Len(disks)
      /\ hubs \in Seq(HubRows) /\ disks \in Seq(DiskRows) /\ Len(disks) \in Nat /\ alive \in BOOLEAN
  BY InFacts, RowTypes DEF BusInv, BusTyped
<1> QED BY <1>1, <1>2, <1>3, Returns

LEMMA DescribeKeeps == ASSUME TreeSound, BusInv, Describe PROVE BusInv'
<1>0. In("device", "describe") /\ UNCHANGED <<wires, alive, tables, pass, rootPort>> BY DEF Describe
<1>1. CASE Return("failed") BY <1>0, <1>1, DeviceFails
<1>2. CASE Goto([Top EXCEPT !.stage = "address"]) /\ UNCHANGED result
  <2>0. /\ stack # <<>> /\ result = Nothing /\ Top.kind = "device" /\ Top.stage = "describe" /\ Top = stack[1]
        /\ Top \in Frames /\ BusTyped /\ Wired /\ Chained /\ Walk /\ pass = "scan"
        /\ UNCHANGED <<at, on, changed, address, hubs, disks, next_address, alive, pass, rootPort>>
    BY <1>0, InFacts DEF BusInv, Walk, Chained, wires, tables
  <2>1. PICK c : c = [Top EXCEPT !.stage = "address"] OBVIOUS
  <2>2. c \in Frames /\ c.stage = "address" /\ c.kind = "device" /\ c.route = Top.route /\ c.address = Top.address
    BY <2>0, <2>1, FrameSteps
  <2>3. stack' = <<c>> \o Tail(stack) BY <1>2, <2>1 DEF Goto
  <2>4. Walk' /\ stack' \in Seq(Frames)
    <3>1. Len(hubs') \in Nat /\ Len(hubs) <= Len(hubs') BY <2>0, RowTypes
    <3> QED BY <1>2, <2>0, <2>2, <2>3, <3>1, GotoKeeps
  <2>5. stack' # <<>> /\ stack'[1] = c BY <2>0, <2>2, <2>3, GotoFacts DEF BusTyped
  <2>6. InHand = {Top} /\ InHand' = {c} BY <2>0, <2>2, <2>5 DEF InHand
  <2>7. SameHand /\ Doubt' = Doubt BY <2>0, <2>2, <2>6 DEF SameHand, Doubt
  <2>8. BusTyped' /\ Wired' /\ Isolated'
    <3>1. BusTyped' BY <1>2, <2>0, <2>4 DEF BusTyped
    <3> QED BY <2>0, <3>1 DEF Wired, Isolated
  <2>9. Shrunk
    <3>1. Len(hubs) \in Nat BY <2>0, RowTypes
    <3> QED BY <2>0, <3>1 DEF Shrunk
  <2>10. Quieter BY <2>0, <2>5, <2>7, <2>9 DEF Quieter, BusTyped, TreeSound
  <2> QED BY <2>4, <2>8, <2>10, QuieterKeeps DEF Walk
<1> QED BY <1>1, <1>2 DEF Describe

LEMMA RootReturnKeeps == ASSUME TreeSound, BusInv, RootReturn PROVE BusInv'
<1>1. /\ pass = "scan" /\ stack = <<>> /\ stack' = <<>> /\ result' = Nothing /\ NextRoot
      /\ UNCHANGED <<at, changed, address, tables>> BY DEF RootReturn
<1>2. alive \in BOOLEAN BY DEF BusInv, BusTyped
<1>3. /\ on' \subseteq on /\ (alive' => alive) /\ alive' \in BOOLEAN
      /\ result = "failed" => Root(rootPort) \notin on' \/ ~alive'
  <2>1. CASE result = "failed" /\ alive
    <3>1. Disable({Root(rootPort)}) BY <2>1 DEF RootReturn
    <3> QED BY <1>2, <2>1, <3>1 DEF Disable, Stop
  <2>2. CASE ~(result = "failed" /\ alive)
    <3>1. UNCHANGED <<on, alive>> BY <2>2 DEF RootReturn
    <3> QED BY <1>2, <2>2, <3>1
  <2> QED BY <2>1, <2>2
<1> QED BY <1>1, <1>3, RootDone

LEMMA QuietPortKeeps == ASSUME TreeSound, BusInv, QuietPort PROVE BusInv'
<1>0. In("hub", "quiet") /\ UNCHANGED <<at, changed, address, next_address, pass, rootPort>> BY DEF QuietPort
<1>1. stack # <<>> /\ result = Nothing /\ Top.kind = "hub" /\ Top.stage = "quiet" /\ Top \in Frames /\ alive \in BOOLEAN
      /\ result # "failed" /\ Top.port \in Nat
  <2>1. result # "failed" BY <1>0, InFacts DEF Nothing
  <2>2. Top.port \in Nat BY <1>0, InFacts, RowTypes DEF BusInv
  <2> QED BY <1>0, <2>1, <2>2, InFacts DEF BusInv, BusTyped
<1>2. CASE HubFailed /\ alive' \in {alive, FALSE} /\ UNCHANGED on
  <2>1. CASE alive' = alive
    <3>1. (alive' => alive) /\ alive' \in BOOLEAN BY <1>1, <2>1
    <3> QED BY <1>0, <1>1, <1>2, <3>1, HubFails
  <2>2. CASE alive' = FALSE
    <3>1. (alive' => alive) /\ alive' \in BOOLEAN BY <2>2
    <3> QED BY <1>0, <1>1, <1>2, <3>1, HubFails
  <2> QED BY <1>2, <2>1, <2>2
<1>3. CASE /\ on' = on \ Here
           /\ Goto(IF Top.port < HubPorts THEN [Top EXCEPT !.port = Top.port + 1] ELSE [Top EXCEPT !.port = 1, !.stage = "ports"])
           /\ UNCHANGED <<alive, hubs, disks, result>>
  <2>1. PICK c : c = IF Top.port < HubPorts THEN [Top EXCEPT !.port = Top.port + 1] ELSE [Top EXCEPT !.port = 1, !.stage = "ports"]
    OBVIOUS
  <2>2. /\ c \in Frames /\ c.kind = "hub" /\ c.hub = Top.hub /\ c.start = Top.start /\ c.route = Top.route
        /\ c.stage \in {"quiet", "ports"} /\ c.port \in Numbers
    <3>1. CASE c = [Top EXCEPT !.port = Top.port + 1]
      <4>1. /\ c \in Frames /\ c.kind = "hub" /\ c.hub = Top.hub /\ c.start = Top.start /\ c.route = Top.route
            /\ c.stage = "quiet" /\ c.port = Top.port + 1 BY <1>1, <3>1, FrameSteps
      <4> QED BY <1>1, <4>1 DEF Numbers
    <3>2. CASE c = [Top EXCEPT !.port = 1, !.stage = "ports"]
      <4>1. /\ c \in Frames /\ c.kind = "hub" /\ c.hub = Top.hub /\ c.start = Top.start /\ c.route = Top.route
            /\ c.stage = "ports" /\ c.port = 1 BY <1>1, <3>2, FrameSteps
      <4> QED BY <4>1 DEF Numbers
    <3> QED BY <2>1, <3>1, <3>2
  <2>3. Goto(c) /\ result' = Nothing BY <1>1, <1>3, <2>1
  <2> QED BY <1>0, <1>1, <1>3, <2>2, <2>3, PortDone
<1> QED BY <1>2, <1>3 DEF QuietPort

\* The next port of a hub whose ports are being walked.
LEMMA NextPortKeeps ==
  ASSUME TreeSound, BusInv, stack # <<>>, Top.kind = "hub", Top.stage = "ports", NextPort,
         UNCHANGED <<at, address, changed, alive, hubs, disks, next_address, pass, rootPort>>,
         on' \subseteq on, result = "failed" => on' \cap Here = {}
  PROVE  BusInv'
<1>1. Top \in Frames /\ Top.port \in Nat BY HubOnTop, TopFacts, RowTypes DEF BusInv, BusTyped
<1>2. PICK c : c = [Top EXCEPT !.port = Top.port + 1] OBVIOUS
<1>3. /\ c \in Frames /\ c.kind = "hub" /\ c.hub = Top.hub /\ c.start = Top.start /\ c.route = Top.route
      /\ c.stage = "ports" /\ c.port = Top.port + 1 BY <1>1, <1>2, FrameSteps
<1>4. c.port \in Numbers BY <1>1, <1>3 DEF Numbers
<1>5. Goto(c) /\ result' = Nothing BY <1>2 DEF NextPort
<1> QED BY <1>3, <1>4, <1>5, PortDone

LEMMA DropChildKeeps ==
  ASSUME TreeSound, BusInv, stack # <<>>, Top.kind = "hub", Top.stage = "ports", DropChild,
         UNCHANGED <<at, address, changed, next_address, pass, rootPort>>
  PROVE  BusInv'
<1>1. CASE on' = on \ Here /\ NextPort /\ UNCHANGED <<alive, hubs, disks>> BY <1>1, NextPortKeeps
<1>2. CASE Stop /\ HubFailed /\ UNCHANGED on BY <1>2, HubFails DEF Stop
<1> QED BY <1>1, <1>2 DEF DropChild

LEMMA ChildReturnKeeps == ASSUME TreeSound, BusInv, ChildReturn PROVE BusInv'
<1>0. /\ stack # <<>> /\ Top.kind = "hub" /\ result # Nothing
      /\ UNCHANGED <<at, changed, address, next_address, pass, rootPort>> BY DEF ChildReturn
<1>1. Top.stage = "ports" BY <1>0, HubOnTop DEF BusInv, Chained
<1>2. CASE result = "ok"
  <2>1. NextPort /\ UNCHANGED <<on, alive, hubs, disks>> BY <1>2 DEF ChildReturn, DropNot
  <2> QED BY <1>0, <1>1, <1>2, <2>1, NextPortKeeps
<1>3. CASE DropChild BY <1>0, <1>1, <1>3, DropChildKeeps
<1>4. CASE Stop /\ HubFailed /\ UNCHANGED on BY <1>0, <1>4, HubFails DEF Stop
<1> QED BY <1>2, <1>3, <1>4 DEF ChildReturn

LEMMA HubEndsKeeps == ASSUME TreeSound, BusInv, HubEnds PROVE BusInv'
<1>0. In("hub", "ports") /\ UNCHANGED <<at, on, changed, address, alive, next_address, pass, rootPort>>
  BY DEF HubEnds, wires
<1>1. /\ stack # <<>> /\ Top.kind = "hub" /\ result # "failed" /\ \A j \in 2 .. Len(stack) : stack[j].start <= Len(disks)
      /\ hubs \in Seq(HubRows) /\ disks \in Seq(DiskRows) /\ Len(disks) \in Nat /\ alive \in BOOLEAN
  <2>1. result # "failed" BY <1>0, InFacts DEF Nothing
  <2> QED BY <1>0, <2>1, InFacts, RowTypes DEF BusInv, BusTyped
<1>2. CASE HubFailed BY <1>0, <1>1, <1>2, HubFails
<1>3. CASE Return("ok") /\ UNCHANGED <<hubs, disks>>
  <2>1. Return(result') /\ result' = "ok" BY <1>3 DEF Return
  <2> QED BY <1>0, <1>1, <1>3, <2>1, Returns
<1> QED BY <1>2, <1>3 DEF HubEnds

LEMMA PullKeeps == ASSUME TreeSound, BusInv, NEW p \in Places, Pull(p) PROVE BusInv'
<1> DEFINE U == Unpowered(at[p])
<1>0. /\ BusTyped /\ Wired /\ at[p] # Nothing /\ at' = [at EXCEPT ![p] = Nothing]
      /\ changed' = changed \cup {p}
      /\ on' = on \ ({p} \cup UNION {Ports(d) : d \in U \cap Hubs})
      /\ address' = [d \in DOMAIN address |-> IF d \in U THEN 0 ELSE address[d]]
      /\ UNCHANGED <<alive, tables, pass, rootPort, stack, result>> BY DEF Pull, BusInv
<1>1. /\ \A q \in Places : at'[q] = IF q = p THEN Nothing ELSE at[q]
      /\ at' \in [Places -> Devices \cup {Nothing}] BY <1>0 DEF BusTyped
<1>2. /\ address' \in [Devices -> Nat]
      /\ \A d \in Devices : address'[d] = IF d \in U THEN 0 ELSE address[d] BY <1>0 DEF BusTyped
<1>3. on' \subseteq on /\ p \notin on' /\ on \subseteq Places /\ \A q \in on' : q[1] \notin U \cap Hubs
  <2>1. on' \subseteq on /\ p \notin on' /\ on \subseteq Places BY <1>0 DEF BusTyped
  <2>2. ASSUME NEW q \in on', q[1] \in U \cap Hubs PROVE FALSE
    <3>1. q \in Places BY <2>1
    <3>2. q \in Ports(q[1]) BY <2>2, <3>1, PlaceParts
    <3>3. q \in UNION {Ports(d) : d \in U \cap Hubs} BY <2>2, <3>2
    <3> QED BY <1>0, <2>2, <3>3
  <2> QED BY <2>1, <2>2
<1>4. ASSUME NEW q \in on' PROVE at[q] \notin U
  <2> SUFFICES ASSUME at[q] \in U PROVE FALSE OBVIOUS
  <2> DEFINE W == {r \in Places : at[r] # Nothing}
  <2>1. at[p] \in Devices /\ \A r \in W : at[r] \in Devices BY <1>0 DEF BusTyped
  <2>2. U = {at[p]} \cup Least(at, at[p], W) BY DEF Unpowered, Hanging, Least
  <2>3. q \in Places /\ at[q] # Nothing /\ q # p /\ at[q] # at[p] BY <1>0, <1>3 DEF Wired
  <2>4. PICK r \in W : at[r] = at[q] /\ r[1] \in U BY <2>1, <2>2, <2>3, LeastPlace
  <2>5. r = q BY <1>0, <2>3, <2>4 DEF Wired
  <2>6. q[1] \in Devices BY <2>1, <2>2, <2>4, <2>5 DEF Least
  <2>7. q[1] \in Hubs BY <2>3, <2>6, PlaceParts DEF TreeSound
  <2> QED BY <1>3, <2>4, <2>5, <2>7
<1>5. BusTyped' /\ Wired'
  <2>0. /\ UNCHANGED <<alive, hubs, disks, next_address, pass, rootPort, stack, result>> /\ BusTyped
        /\ on' \subseteq Places BY <1>0, <1>3 DEF tables
  <2>1. BusTyped' BY <1>1, <1>2, <2>0 DEF BusTyped
  <2>2. Wired'
    <3>1. \A q \in Places : q[1] # Nothing BY PlaceParts DEF TreeSound, Devices, Nothing
    <3>2. \A q, r \in Places : at'[q] = at'[r] /\ at'[q] # Nothing => q = r BY <1>0, <1>1 DEF Wired
    <3>3. \A q \in Places : at'[q] # q[1] BY <1>0, <1>1, <3>1 DEF Wired
    <3>4. \A q \in on' : at'[q] # Nothing BY <1>0, <1>1, <1>3 DEF Wired
    <3> QED BY <3>2, <3>3, <3>4 DEF Wired
  <2> QED BY <2>1, <2>2
<1>6. \A q \in on' : at'[q] = at[q] /\ address'[at[q]] = address[at[q]] /\ (q \in changed => q \in changed')
  <2> SUFFICES ASSUME NEW q \in on'
               PROVE  at'[q] = at[q] /\ address'[at[q]] = address[at[q]] /\ (q \in changed => q \in changed') OBVIOUS
  <2>1. q \in Places /\ q # p /\ at[q] \in Devices BY <1>0, <1>3 DEF Wired, BusTyped
  <2> QED BY <1>0, <1>1, <1>2, <1>4, <2>1
<1> QED BY <1>0, <1>3, <1>5, <1>6, Outside

LEMMA PlugKeeps == ASSUME TreeSound, BusInv, NEW p \in Places, NEW d \in Devices, Plug(d, p) PROVE BusInv'
<1>0. /\ BusTyped /\ Wired /\ at[p] = Nothing /\ (\A q \in Places : at[q] # d) /\ p[1] # d
      /\ at' = [at EXCEPT ![p] = d] /\ changed' = changed \cup {p}
      /\ UNCHANGED <<on, address, alive, tables, pass, rootPort, stack, result>> BY DEF Plug, BusInv
<1>1. /\ \A q \in Places : at'[q] = IF q = p THEN d ELSE at[q]
      /\ at' \in [Places -> Devices \cup {Nothing}] BY <1>0 DEF BusTyped
<1>2. on \subseteq Places /\ p \notin on BY <1>0 DEF Wired, BusTyped
<1>3. BusTyped' /\ Wired'
  <2>1. BusTyped' BY <1>0, <1>1 DEF BusTyped, tables
  <2>2. Wired' BY <1>0, <1>1, <1>2 DEF Wired
  <2> QED BY <2>1, <2>2
<1>4. \A q \in on' : at'[q] = at[q] /\ address'[at[q]] = address[at[q]] /\ (q \in changed => q \in changed')
  BY <1>0, <1>1, <1>2
<1> QED BY <1>0, <1>3, <1>4, Outside

LEMMA IdleKeeps == ASSUME TreeSound, BusInv, UNCHANGED busVars PROVE BusInv'
<1>1. BusTyped' /\ Wired' /\ UNCHANGED <<at, on, changed, address, alive, tables, pass, rootPort, stack, result>>
  BY DEF BusInv, BusTyped, Wired, busVars, tables
<1> QED BY <1>1, Outside

-----------------------------------------------------------------------------
\* A rescan begins, and the isolation pass.
LEMMA Deaf == ASSUME BusTyped, Wired, alive => on = {} PROVE Answering = {}
<1>1. ASSUME NEW d \in Answering PROVE FALSE
  <2>1. alive BY <1>1 DEF Answering
  <2> QED BY <1>1, <2>1, Answers DEF Hear
<1> QED BY <1>1

LEMMA UsbRescanKeeps == ASSUME TreeSound, BusInv, UsbRescan PROVE BusInv'
<1>0. /\ BusTyped /\ Wired /\ Chained /\ pass = "idle" /\ pass' = "isolate" /\ rootPort' = 1
      /\ hubs' = <<>> /\ disks' = <<>> /\ next_address' = Roots + 1
      /\ alive' \in (IF alive \/ ~Revived THEN {alive} ELSE BOOLEAN)
      /\ on' = (IF alive' # alive THEN {} ELSE on)
      /\ UNCHANGED <<at, changed, address, stack, result>> BY DEF UsbRescan, BusInv
<1>1. stack = <<>> /\ result = Nothing /\ Len(stack) = 0 BY <1>0 DEF Chained
<1>2. alive' \in BOOLEAN /\ on' \subseteq on /\ ((alive' = alive /\ on' = on) \/ on' = {})
  <2>1. alive \in BOOLEAN BY <1>0 DEF BusTyped
  <2> QED BY <1>0, <2>1
<1>3. BusTyped' /\ Wired'
  <2>1. rootPort' \in 1 .. Roots /\ next_address' \in Nat /\ next_address' > Roots BY <1>0 DEF TreeSound
  <2>2. hubs' \in Seq(HubRows) /\ disks' \in Seq(DiskRows) BY <1>0
  <2>3. BusTyped' BY <1>0, <1>2, <2>1, <2>2 DEF BusTyped
  <2>4. Wired' BY <1>0, <1>2 DEF Wired
  <2> QED BY <2>3, <2>4
<1>4. Answering' \subseteq Answering /\ address' = address
  <2>1. CASE alive' = alive /\ on' = on
    <3>1. alive' => alive BY <2>1, Zenon
    <3>2. on' \subseteq on /\ \A p \in on' : at'[p] = at[p] BY <1>0, <2>1
    <3>3. Answering' \subseteq Answering BY <3>1, <3>2, ShrunkAnswers
    <3> QED BY <1>0, <3>3
  <2>2. CASE on' = {}
    <3>1. ASSUME NEW d \in Answering' PROVE FALSE BY <1>3, <2>2, <3>1, AnswersNext DEF Hear
    <3> QED BY <1>0, <3>1
  <2> QED BY <1>0, <1>2, <2>1, <2>2
<1>5. /\ Len(hubs') = 0 /\ Len(disks') = 0 /\ Len(stack') = 0 /\ InHand' = {} /\ InHand = {} /\ Doubt = {}
  <2>1. Len(hubs') = 0 /\ Len(disks') = 0 /\ Len(stack') = 0 BY <1>0, <1>1
  <2>2. InHand' = {} /\ InHand = {} BY <1>0, <1>1 DEF InHand
  <2>3. Doubt = {} BY <1>1, <2>2 DEF Doubt, Nothing
  <2> QED BY <2>1, <2>2, <2>3
<1>6. Chained' /\ DisksPassed' /\ DisksOwn' /\ HandTrue'
  BY <1>0, <1>1, <1>5 DEF Chained, DisksPassed, DisksOwn, HandTrue
<1>7. Isolated' /\ AddressesGiven' /\ Fresh'
  <2>1. 1 .. rootPort' - 1 = {} BY <1>0
  <2> QED BY <1>0, <1>5, <2>1 DEF Isolated, AddressesGiven, Fresh
<1>8. OneAtZero' /\ AddressesUnique' BY <1>4, <1>5 DEF BusInv, OneAtZero, AddressesUnique
<1> QED BY <1>3, <1>6, <1>7, <1>8 DEF BusInv

LEMMA RootDisableKeeps == ASSUME TreeSound, BusInv, RootDisable PROVE BusInv'
<1>0. /\ BusTyped /\ Wired /\ Chained /\ Isolated /\ DisksPassed /\ pass = "isolate" /\ rootPort \in Nat
      /\ UNCHANGED <<at, changed, address, hubs, disks, next_address, stack, result>>
      /\ hubs = <<>> /\ disks = <<>> BY DEF RootDisable, BusInv, Isolated, BusTyped, tables, TreeSound
<1>1. stack = <<>> /\ result = Nothing /\ Len(stack) = 0 /\ Len(hubs) = 0 /\ Len(disks) = 0 BY <1>0 DEF Chained
<1>2. InHand' = {} /\ InHand = {} /\ Doubt = {} BY <1>0, <1>1 DEF InHand, Doubt, Nothing
<1>3. on' \subseteq on /\ (alive' => alive) /\ alive' \in BOOLEAN /\ (alive' => Root(rootPort) \notin on')
  <2>1. alive \in BOOLEAN BY <1>0 DEF BusTyped
  <2>2. CASE alive BY <2>1, <2>2 DEF RootDisable, Disable, Stop
  <2>3. CASE ~alive BY <2>1, <2>3 DEF RootDisable
  <2> QED BY <2>1, <2>2, <2>3
<1>4. alive' => \A q \in 1 .. rootPort : Root(q) \notin on'
  <2> SUFFICES ASSUME alive', NEW q \in 1 .. rootPort PROVE Root(q) \notin on' OBVIOUS
  <2>1. q = rootPort \/ q \in 1 .. rootPort - 1 BY <1>0
  <2> QED BY <1>0, <1>3, <2>1 DEF Isolated
<1>5. \/ rootPort < Roots /\ rootPort' = rootPort + 1 /\ pass' = "isolate"
      \/ rootPort = Roots /\ rootPort' = 1 /\ pass' = "scan"
  <2>1. rootPort <= Roots /\ Roots \in Nat BY <1>0 DEF BusTyped, TreeSound
  <2> QED BY <1>0, <2>1 DEF RootDisable
<1>6. BusTyped' /\ Wired'
  <2>1. rootPort' \in 1 .. Roots BY <1>0, <1>5 DEF TreeSound
  <2>2. BusTyped' BY <1>0, <1>3, <1>5, <2>1 DEF BusTyped
  <2> QED BY <1>0, <1>3, <2>2 DEF Wired
<1>7. Chained' /\ DisksPassed' /\ DisksOwn' /\ HandTrue'
  BY <1>0, <1>1, <1>2 DEF Chained, DisksPassed, DisksOwn, HandTrue
<1>8. Answering' \subseteq Answering /\ (pass' = "scan" => Answering' = {})
  <2>1. Answering' \subseteq Answering BY <1>0, <1>3, ShrunkAnswers
  <2>2. ASSUME pass' = "scan", NEW d \in Answering' PROVE FALSE
    <3>1. alive' /\ Answering' = Least(at', "root", on') BY <2>2, LeastAnswers DEF Answering, Hanging, Least
    <3>2. \A q \in 1 .. Roots : Root(q) \notin on' BY <1>4, <1>5, <2>2, <3>1
    <3>3. ASSUME NEW p \in on', p[1] = "root" PROVE FALSE
      <4>1. p \in Places BY <1>6 DEF BusTyped
      <4>2. p[1] \notin Hubs BY <3>3 DEF TreeSound, Devices
      <4>3. \E q \in 1 .. Roots : p = Root(q) BY <4>1, <4>2 DEF Places
      <4> QED BY <3>2, <4>3
    <3>4. Least(at', "root", on') = {} BY <3>3, LeastNothing
    <3> QED BY <2>2, <3>1, <3>4
  <2> QED BY <2>1, <2>2
<1>9. Isolated' BY <1>0, <1>4, <1>5 DEF Isolated
<1>10. AddressesGiven' BY <1>0, <1>1, <1>8 DEF AddressesGiven
<1>11. Fresh' BY <1>0, <1>1, <1>2, <1>8 DEF Fresh, Unlisted, Unanswered
<1>12. OneAtZero' /\ AddressesUnique' BY <1>0, <1>2, <1>8 DEF BusInv, OneAtZero, AddressesUnique
<1> QED BY <1>6, <1>7, <1>9, <1>10, <1>11, <1>12 DEF BusInv

-----------------------------------------------------------------------------
\* Resets.

\* What an enabled port at the end of a route leads to answers.
LEMMA ReachedAnswers ==
  ASSUME TreeSound, BusTyped, Wired, alive, NEW r \in Routes, NEW p \in Reached(r), p \in on
  PROVE  at[p] \in Answering
<1>1. p[1] \in {"root"} \cup Answering
  <2>1. CASE r[1] = 0
    <3>1. p = Root(r[2]) BY <2>1, ReachedParts
    <3> QED BY <3>1 DEF Root
  <2>2. CASE r[1] # 0 BY <2>2, ReachedParts
  <2> QED BY <2>1, <2>2
<1> QED BY <1>1, Answers DEF Hear

\* A route ends in one place, and two that end in one place are the same.
LEMMA OnePlace ==
  ASSUME TreeSound, AddressesUnique, NEW r \in Routes, NEW p \in Reached(r), NEW q \in Reached(r)
  PROVE  p = q
<1>1. CASE r[1] = 0 BY <1>1, ReachedParts
<1>2. CASE r[1] # 0
  <2>1. PICK g \in Hubs : g \in Answering /\ address[g] = hubs[r[1]].address /\ p = <<g, r[2]>> BY <1>2, ReachedParts
  <2>2. PICK h \in Hubs : h \in Answering /\ address[h] = hubs[r[1]].address /\ q = <<h, r[2]>> BY <1>2, ReachedParts
  <2>3. g = h BY <2>1, <2>2 DEF AddressesUnique
  <2> QED BY <2>1, <2>2, <2>3
<1> QED BY <1>1, <1>2

LEMMA SamePlace ==
  ASSUME TreeSound, BusInv, pass = "scan", NEW r \in Routes, NEW s \in Routes,
         r[1] <= Len(hubs), s[1] <= Len(hubs), NEW p \in Reached(r), p \in Reached(s)
  PROVE  r[1] = s[1] /\ r[2] = s[2]
<1>0. r[1] \in Nat /\ s[1] \in Nat /\ Len(hubs) \in Nat BY ReachedParts, RowTypes DEF BusInv
<1>1. \A q, h, t : h \in Hubs => Root(q) # <<h, t>> BY DEF Root, TreeSound, Devices
<1>2. \A q, t : Root(q) = Root(t) => q = t BY DEF Root
<1>3. CASE r[1] = 0 /\ s[1] = 0
  <2>1. p = Root(r[2]) /\ p = Root(s[2]) BY <1>3, ReachedParts
  <2> QED BY <1>2, <1>3, <2>1
<1>4. CASE r[1] # 0 /\ s[1] # 0
  <2>1. PICK g \in Hubs : g \in Answering /\ address[g] = hubs[r[1]].address /\ p = <<g, r[2]>> BY <1>4, ReachedParts
  <2>2. PICK h \in Hubs : h \in Answering /\ address[h] = hubs[s[1]].address /\ p = <<h, s[2]>> BY <1>4, ReachedParts
  <2>3. g = h /\ r[2] = s[2] BY <2>1, <2>2
  <2>4. r[1] \in 1 .. Len(hubs) /\ s[1] \in 1 .. Len(hubs) BY <1>0, <1>4
  <2> QED BY <2>1, <2>2, <2>3, <2>4 DEF BusInv, AddressesGiven
<1>5. CASE r[1] = 0 /\ s[1] # 0 BY <1>1, <1>5, ReachedParts
<1>6. CASE r[1] # 0 /\ s[1] = 0 BY <1>1, <1>6, ReachedParts
<1> QED BY <1>3, <1>4, <1>5, <1>6

\* A device that was reset is taken in hand.
LEMMA ResetKeeps ==
  ASSUME TreeSound, BusInv, pass = "scan", result = Nothing,
         NEW x \in Places, at[x] # Nothing, Reset(x),
         NEW r \in Routes, NEW a \in Numbers, NEW depth \in Nat, Push(Device(r, a, depth)),
         stack = <<>> => r = <<0, rootPort>>,
         stack # <<>> => Top.kind = "hub" /\ Top.stage = "ports" /\ r = <<Top.hub, Top.port>>,
         x \in Reached(r), r[1] <= Len(hubs), Unlisted(a), Unanswered(a), Given(a)',
         UNCHANGED <<alive, hubs, disks, pass, rootPort, result>>, next_address' \in Nat, next_address <= next_address'
  PROVE  BusInv'
<1> DEFINE c == Device(r, a, depth)
           y == at[x]
<1>0. /\ BusTyped /\ Wired /\ Chained /\ Walk /\ AddressesUnique /\ y \in Devices
      /\ c \in Frames /\ c.kind = "device" /\ c.stage = "describe" /\ c.route = r /\ c.address = a
  BY NewDevice DEF BusInv, Walk, BusTyped
<1>1. /\ Answering' \subseteq Answering \cup {y}
      /\ address' \in [Devices -> Nat]
      /\ \A d \in Devices : address'[d] = IF d = y THEN 0 ELSE address[d]
      /\ UNCHANGED at /\ on' \subseteq (on \cup {x}) \cap Places /\ changed' = changed \ {x}
      /\ Wired' BY <1>0, ResetWires
<1> HIDE DEF c, y
<1>2. Walk' /\ stack' \in Seq(Frames)
  <2>1. Push(c) BY DEF c
  <2> QED BY <1>0, <2>1, PushKeeps
<1>3. BusTyped'
  <2>1. next_address' > Roots BY <1>0 DEF BusTyped, TreeSound
  <2>2. UNCHANGED <<at, alive, hubs, disks, pass, rootPort, result>> /\ on' \subseteq Places BY <1>1
  <2> QED BY <1>0, <1>1, <1>2, <2>1, <2>2 DEF BusTyped
<1>4. stack' # <<>> /\ stack'[1] = c /\ InHand' = {c} /\ Doubt' = {r}
  <2>1. stack' # <<>> /\ stack'[1] = c BY <1>0, PushFacts DEF BusTyped, c
  <2>2. InHand' = {c} BY <1>0, <2>1 DEF InHand
  <2> QED BY <1>0, <2>1, <2>2 DEF Doubt
<1>5. Doubt = {} /\ \A d \in Answering : address[d] # 0
  <2>1. InHand = {} BY <1>0, HubOnTop DEF InHand
  <2>2. Doubt = {} BY <2>1 DEF Doubt, Nothing
  <2> QED BY <2>2 DEF BusInv, OneAtZero
<1>6. Answering \subseteq Devices /\ Answering' \subseteq Devices /\ Hear'
  BY <1>0, <1>1, <1>3, Answers, AnswersNext DEF Hear
<1>7. \A s \in Routes : s[1] <= Len(hubs) => Reached(s)' \subseteq Reached(s) BY <1>0, <1>1, <1>3, ResetReaches DEF y
<1>8. /\ \A b \in Nat : Given(b) => Given(b)'
      /\ Given(0)'
  <2>1. next_address \in Nat /\ rootPort' = rootPort /\ rootPort \in Nat /\ next_address' > 0
    BY <1>0, <1>3 DEF BusTyped, TreeSound
  <2> QED BY <2>1 DEF Given
<1>9. AddressesUnique' BY <1>0, <1>1, <1>5, <1>6 DEF AddressesUnique
<1>10. AddressesGiven'
  <2>1. AddressesGiven BY DEF BusInv
  <2>2. ASSUME NEW d \in Answering' PROVE Given(address[d])'
    <3>1. CASE d = y BY <1>1, <1>6, <1>8, <2>2, <3>1 DEF Given
    <3>2. CASE d # y
      <4>1. d \in Answering /\ address'[d] = address[d] /\ address[d] \in Nat BY <1>0, <1>1, <1>6, <3>2 DEF BusTyped
      <4>2. Given(address[d]) BY <2>1, <4>1 DEF AddressesGiven
      <4> QED BY <1>8, <4>1, <4>2 DEF Given
    <3> QED BY <3>1, <3>2
  <2>3. ASSUME NEW i \in 1 .. Len(hubs) PROVE Given(hubs[i].address)'
    <3>1. Given(hubs[i].address) /\ hubs[i].address \in Nat BY <1>0, <2>1, RowTypes DEF AddressesGiven, Numbers
    <3> QED BY <1>8, <3>1 DEF Given
  <2>4. ASSUME NEW k \in 1 .. Len(disks) PROVE Given(disks[k].address)'
    <3>1. Given(disks[k].address) /\ disks[k].address \in Nat BY <1>0, <2>1, RowTypes DEF AddressesGiven, Numbers
    <3> QED BY <1>8, <3>1 DEF Given
  <2> QED BY <2>1, <2>2, <2>3, <2>4 DEF AddressesGiven
<1>11. Fresh'
  <2>1. Unlisted(a)' /\ Unanswered(a)' BY <1>0, <1>1, <1>6 DEF Unlisted, Unanswered, Numbers
  <2> QED BY <1>0, <1>4, <2>1 DEF Fresh
<1>12. OneAtZero'
  <2> SUFFICES ASSUME NEW d \in Answering', address'[d] = 0
               PROVE  \E p \in Reached(r)' \cap Places : at'[p] = d BY <1>4 DEF OneAtZero
  <2>1. d = y BY <1>1, <1>5, <1>6
  <2>2. x \in Reached(r)' BY <1>0, <1>1, <1>3, <2>1, ResetReaches DEF y
  <2> QED BY <1>1, <2>1, <2>2 DEF y
<1>13. HandTrue'
  <2> SUFFICES ASSUME NEW p \in Reached(r)', p \in on' \ changed' PROVE address'[at'[p]] = 0
    BY <1>0, <1>4 DEF HandTrue
  <2>1. p = x BY <1>0, <1>7, OnePlace
  <2> QED BY <1>0, <1>1, <2>1 DEF y
<1>14. DisksOwn'
  <2> SUFFICES ASSUME NEW k \in 1 .. Len(disks) PROVE Owned(disks[k])' BY DEF DisksOwn
  <2>1. PICK e : e = disks[k] OBVIOUS
  <2>2. e.route \in Routes /\ e.address \in Numbers /\ Owned(e) BY <1>0, <2>1, RowTypes DEF BusInv, DisksOwn
  <2>3. \A d \in Answering' : address'[d] = e.address => d = e.device BY <1>1, <1>6, <2>2 DEF Owned, Numbers
  <2>4. ASSUME NEW p \in Reached(e.route)', p \in on' \ changed'
        PROVE  at'[p] = e.device /\ address'[at'[p]] = e.address
    <3>1. p \in Reached(e.route) BY <1>7, <2>2 DEF Owned
    <3>2. p # x
      <4> SUFFICES ASSUME p = x PROVE FALSE OBVIOUS
      <4>1. e.route[1] = r[1] /\ e.route[2] = r[2] BY <2>2, <3>1, SamePlace DEF Owned
      <4>2. Passed(k, r, FALSE)
        <5>1. CASE stack = <<>> BY <1>0, <5>1 DEF Walk, DisksPassed, Passed
        <5>2. CASE stack # <<>>
          <6>1. 1 \in 1 .. Len(stack) /\ Top = stack[1] BY <1>0, <5>2, HubOnTop
          <6> QED BY <1>0, <5>2, <6>1 DEF Walk, DisksPassed, Passed
        <5> QED BY <5>1, <5>2
      <4>3. e.route[2] < r[2] /\ r[2] \in Nat BY <2>1, <4>1, <4>2, ReachedParts DEF Passed
      <4> QED BY <4>1, <4>3
    <3>3. p \in on \ changed /\ p \in Places BY <1>1, <2>4, <3>2
    <3>4. at[p] = e.device /\ address[at[p]] = e.address /\ at[p] # y /\ at[p] \in Devices
      BY <1>0, <2>2, <3>1, <3>2, <3>3, Answers DEF Owned, Wired, Hear, y
    <3> QED BY <1>1, <3>4
  <2>5. Owned(e)' BY <2>2, <2>3, <2>4 DEF Owned
  <2> QED BY <2>1, <2>5 DEF Owned
<1>15. Isolated' BY DEF Isolated
<1> QED BY <1>1, <1>2, <1>3, <1>9, <1>10, <1>11, <1>12, <1>13, <1>14, <1>15 DEF BusInv, Walk

LEMMA RootResetKeeps == ASSUME TreeSound, BusInv, RootReset PROVE BusInv'
<1>0. /\ pass = "scan" /\ stack = <<>> /\ result = Nothing /\ result' = Nothing
      /\ UNCHANGED <<hubs, disks, next_address>>
      /\ BusTyped /\ alive \in BOOLEAN /\ rootPort \in 1 .. Roots /\ Roots \in Nat /\ next_address \in Nat /\ next_address > Roots
      /\ Len(hubs) \in Nat BY RowTypes DEF RootReset, BusInv, tables, BusTyped, TreeSound
<1>1. CASE NextRoot /\ UNCHANGED <<wires, alive, stack>>
  <2>1. stack' = <<>> /\ UNCHANGED <<at, on, changed, address, alive, tables>> /\ result # "failed"
    BY <1>0, <1>1 DEF wires, tables, Nothing
  <2> QED BY <1>0, <1>1, <2>1, RootDone
<1>2. CASE /\ at[Root(rootPort)] # Nothing
           /\ Reset(Root(rootPort)) /\ Push(Device(<<0, rootPort>>, rootPort, 0)) /\ UNCHANGED <<alive, pass, rootPort>>
  <2> DEFINE r == <<0, rootPort>>
  <2>1. /\ r \in Routes /\ r[1] = 0 /\ rootPort \in Numbers /\ Root(rootPort) \in Places
        /\ Reached(r) = {Root(rootPort)} BY <1>0, PlaceParts DEF Routes, Numbers, Reached
  <2>2. Unlisted(rootPort) /\ Unanswered(rootPort) BY <1>0 DEF BusInv, Fresh
  <2>3. Given(rootPort)' BY <1>0, <1>2 DEF Given
  <2> QED BY <1>0, <1>2, <2>1, <2>2, <2>3, ResetKeeps
<1> QED BY <1>1, <1>2 DEF RootReset

LEMMA ResetChildKeeps == ASSUME TreeSound, BusInv, ResetChild PROVE BusInv'
<1>0. In("hub", "ports") /\ More /\ UNCHANGED <<pass, rootPort>> BY DEF ResetChild
<1>1. /\ stack # <<>> /\ result = Nothing /\ result # "failed" /\ Top.kind = "hub" /\ Top.stage = "ports" /\ Top = stack[1]
      /\ Top \in Frames /\ BusTyped /\ Chained /\ pass = "scan" /\ alive \in BOOLEAN
      /\ Top.hub \in 1 .. Len(hubs) /\ Top.port \in Numbers /\ Top.port <= HubPorts /\ Len(hubs) \in Nat
  <2>1. stack # <<>> /\ result = Nothing /\ Top.kind = "hub" /\ Top.stage = "ports" /\ Top = stack[1] /\ Top \in Frames
        /\ 1 \in 1 .. Len(stack) BY <1>0, InFacts
  <2>2. BusTyped /\ Chained /\ alive \in BOOLEAN /\ Len(hubs) \in Nat BY RowTypes DEF BusInv, BusTyped
  <2>3. pass = "scan" /\ Top.hub \in 1 .. Len(hubs) /\ Top.port \in Numbers BY <2>1, <2>2 DEF Chained
  <2>4. Top.port <= HubPorts /\ result # "failed" BY <1>0, <2>1 DEF More, Nothing
  <2> QED BY <2>1, <2>2, <2>3, <2>4
<1>2. CASE HubFailed /\ UNCHANGED <<wires, alive, next_address>>
  <2>1. UNCHANGED <<at, on, changed, address, alive, next_address>> BY <1>2 DEF wires
  <2> QED BY <1>0, <1>1, <1>2, <2>1, HubFails
<1>3. CASE NextPort /\ UNCHANGED <<wires, alive, tables>>
  <2>1. UNCHANGED <<at, on, changed, address, alive, hubs, disks, next_address>> BY <1>3 DEF wires, tables
  <2> QED BY <1>0, <1>1, <1>3, <2>1, NextPortKeeps
<1>4. CASE DropChild /\ UNCHANGED <<at, changed, address, next_address>> BY <1>0, <1>1, <1>4, DropChildKeeps
<1>5. ASSUME NEW p \in Here, at[p] # Nothing, Reset(p), next_address' = next_address + 1,
             Push(Device(<<Top.hub, Top.port>>, next_address, Top.depth + 1)), UNCHANGED <<alive, hubs, disks, result>>
      PROVE  BusInv'
  <2> DEFINE r == <<Top.hub, Top.port>>
  <2>1. r \in Routes /\ r[1] # 0 /\ r[1] <= Len(hubs) /\ Top.depth + 1 \in Nat
    <3>1. Top.depth \in Nat BY <1>1 DEF Frames
    <3> QED BY <1>1, <3>1 DEF Routes, Numbers
  <2>2. next_address \in Nat /\ next_address > Roots /\ Roots \in Nat /\ rootPort \in Nat
    BY <1>1 DEF BusTyped, TreeSound
  <2>3. p \in Reached(r) /\ p \in Places
    <3>1. p \in Reached(r) BY DEF Here
    <3>2. \E h \in Hubs : p = <<h, Top.port>> BY <2>1, <3>1, ReachedParts
    <3>3. Top.port \in 1 .. HubPorts BY <1>1 DEF Numbers, TreeSound
    <3> QED BY <3>1, <3>2, <3>3 DEF Places
  <2>4. Unlisted(next_address) /\ Unanswered(next_address)
    <3>1. \A b : b = next_address => ~Given(b) BY <2>2 DEF Given
    <3> QED BY <1>1, <3>1 DEF BusInv, AddressesGiven, Unlisted, Unanswered
  <2>5. next_address \in Numbers /\ next_address' \in Nat /\ next_address <= next_address' BY <1>5, <2>2 DEF Numbers
  <2>6. PICK a \in Numbers : a = next_address BY <2>5
  <2>7. Given(a)' BY <1>0, <1>5, <2>2, <2>6 DEF Given
  <2> QED BY <1>0, <1>1, <1>5, <2>1, <2>3, <2>4, <2>5, <2>6, <2>7, ResetKeeps
<1> QED BY <1>2, <1>3, <1>4, <1>5 DEF ResetChild

-----------------------------------------------------------------------------
\* An address is taken, with or without the answer.
LEMMA TakenKeeps ==
  ASSUME TreeSound, BusInv, In("device", "address"), address' = Taken,
         UNCHANGED <<at, on, changed, alive, hubs, disks, next_address, pass, rootPort>>,
         \/ Responders(0) # {} /\ Goto([Top EXCEPT !.stage = "configure"]) /\ UNCHANGED result
         \/ Return("failed")
  PROVE  BusInv'
<1>a. PICK a : a = Top.address OBVIOUS
<1>0. /\ BusTyped /\ Wired /\ Chained /\ Walk /\ AddressesUnique /\ pass = "scan"
      /\ stack # <<>> /\ result = Nothing /\ Top.kind = "device" /\ Top.stage = "address" /\ Top \in Frames /\ Top = stack[1]
      /\ InHand = {Top} /\ Top.route \in Routes /\ Top.route[1] <= Len(hubs)
      /\ a \in Numbers /\ Given(a) /\ Unlisted(a) /\ Unanswered(a)
  <2>1. /\ stack # <<>> /\ result = Nothing /\ Top.kind = "device" /\ Top.stage = "address" /\ Top \in Frames /\ Top = stack[1]
    BY InFacts
  <2>2. BusTyped /\ Wired /\ Chained /\ Walk /\ AddressesUnique BY DEF BusInv, Walk
  <2>3. InHand = {Top} BY <2>1 DEF InHand
  <2>4. pass = "scan" /\ Top.route \in Routes /\ Top.route[1] <= Len(hubs) BY <2>2, <2>3, HandRoute
  <2>5. Given(a) /\ Unlisted(a) /\ Unanswered(a) BY <1>a, <2>1, <2>3 DEF BusInv, Fresh
  <2>6. a \in Numbers BY <1>a, <2>1 DEF Frames
  <2> QED BY <2>1, <2>2, <2>3, <2>4, <2>5, <2>6
<1>1. Answering' = Answering /\ Answering \subseteq Devices
  <2>1. Answering \subseteq Devices BY <1>0, Answers DEF Hear
  <2> QED BY <2>1 DEF Answering, Hanging
<1>2. /\ address' \in [Devices -> Nat]
      /\ \A d \in Devices : address'[d] = IF d \in Answering /\ address[d] = 0 THEN a ELSE address[d]
  <2>1. address \in [Devices -> Nat] /\ a \in Nat BY <1>0 DEF BusTyped, Numbers
  <2>2. address' = [d \in Devices |-> IF d \in Responders(0) THEN a ELSE address[d]] BY <1>a, <2>1 DEF Taken
  <2>3. \A d : d \in Responders(0) <=> d \in Answering /\ address[d] = 0 BY DEF Responders
  <2> QED BY <2>1, <2>2, <2>3
<1>3. \A d \in Answering : address[d] # a /\ address'[d] # 0 BY <1>0, <1>1, <1>2 DEF Unanswered, Numbers
<1>4. /\ \A i \in 1 .. Len(hubs) : hubs[i].address # a /\ hubs[i].address # 0
      /\ \A k \in 1 .. Len(disks) : disks[k].address # a /\ disks[k].address # 0
  BY <1>0, RowTypes DEF Unlisted, Numbers
<1>5. ASSUME NEW r \in Routes, r[1] <= Len(hubs) PROVE Reached(r)' = Reached(r)
  <2>1. CASE r[1] = 0 BY <2>1 DEF Reached
  <2>2. CASE r[1] # 0
    <3>1. r[1] \in 1 .. Len(hubs) BY <1>0, <1>5, <2>2, ReachedParts, RowTypes
    <3>2. \A h \in Answering : address'[h] = hubs[r[1]].address <=> address[h] = hubs[r[1]].address
      BY <1>1, <1>2, <1>4, <3>1
    <3>3. Hub(r[1])' = Hub(r[1]) BY <1>1, <3>2 DEF Hub, Responders
    <3> QED BY <2>2, <3>3 DEF Reached
  <2> QED BY <2>1, <2>2
<1>6. /\ Walk' /\ stack' \in Seq(Frames) /\ result' \in {Nothing, "failed"}
      /\ \A e \in InHand' : /\ e.stage = "configure" /\ e.route = Top.route /\ e.address = a
                            /\ Responders(0) # {}
      /\ stack' = <<>> => result' # Nothing
  <2>1. CASE Return("failed")
    <3>1. Return(result') /\ result' = "failed" /\ result' # Nothing BY <2>1 DEF Return, Nothing
    <3>2. disks' \in Seq(DiskRows) /\ Len(hubs') = Len(hubs) /\ \A k \in 1 .. Len(disks') : k <= Len(disks) /\ disks'[k] = disks[k]
      BY <1>0, RowTypes DEF BusTyped
    <3>3. \A j \in 2 .. Len(stack) : stack[j].start <= Len(disks') BY InFacts
    <3>4. Walk' /\ stack' \in Seq(Frames) BY <1>0, <3>1, <3>2, <3>3, ReturnKeeps
    <3>5. BusTyped' BY <1>0, <1>2, <3>1, <3>4 DEF BusTyped
    <3>6. InHand' = {} BY <3>1, <3>4, <3>5, NoHandNext DEF Walk
    <3> QED BY <3>1, <3>4, <3>6
  <2>2. CASE Responders(0) # {} /\ Goto([Top EXCEPT !.stage = "configure"]) /\ UNCHANGED result
    <3>1. PICK c : c = [Top EXCEPT !.stage = "configure"] OBVIOUS
    <3>2. c \in Frames /\ c.stage = "configure" /\ c.kind = "device" /\ c.route = Top.route /\ c.address = a
      BY <1>a, <1>0, <3>1, FrameSteps
    <3>3. stack' = <<c>> \o Tail(stack) BY <2>2, <3>1 DEF Goto
    <3>4. Walk' /\ stack' \in Seq(Frames)
      <4>1. Len(hubs') \in Nat /\ Len(hubs) <= Len(hubs') BY <1>0, RowTypes
      <4> QED BY <1>0, <2>2, <3>2, <3>3, <4>1, GotoKeeps
    <3>5. stack' # <<>> /\ stack'[1] = c BY <1>0, <3>2, <3>3, GotoFacts DEF BusTyped
    <3>6. InHand' = {c} BY <3>2, <3>5 DEF InHand
    <3> QED BY <1>0, <2>2, <3>2, <3>4, <3>5, <3>6
  <2> QED BY <2>1, <2>2
<1>7. BusTyped' /\ Wired' /\ Isolated'
  <2>1. BusTyped' BY <1>0, <1>2, <1>6 DEF BusTyped
  <2> QED BY <1>0, <2>1 DEF Wired, Isolated
<1>8. AddressesUnique' BY <1>0, <1>1, <1>2, <1>3 DEF AddressesUnique
<1>9. OneAtZero' BY <1>1, <1>3 DEF OneAtZero
<1>10. AddressesGiven'
  <2>1. AddressesGiven BY DEF BusInv
  <2>2. \A b : Given(b)' <=> Given(b) BY DEF Given
  <2>3. \A d \in Answering : Given(address[d])'
    <3> SUFFICES ASSUME NEW d \in Answering PROVE Given(address[d])' OBVIOUS
    <3>1. Given(address[d]) /\ (address'[d] = a \/ address'[d] = address[d])
      BY <1>0, <1>1, <1>2, <2>1 DEF AddressesGiven
    <3> QED BY <1>0, <3>1 DEF Given
  <2> QED BY <1>0, <1>1, <2>1, <2>3 DEF AddressesGiven, Given
<1>11. Fresh'
  <2>1. Given(a)' /\ Unlisted(a)' BY <1>0 DEF Given, Unlisted
  <2> QED BY <1>6, <2>1 DEF Fresh
<1>12. HandTrue'
  <2> SUFFICES ASSUME NEW e \in InHand', NEW p \in Reached(e.route)', p \in on \ changed
               PROVE  address'[at[p]] = a BY <1>6 DEF HandTrue
  <2>1. p \in Reached(Top.route) /\ Responders(0) # {} /\ alive BY <1>0, <1>5, <1>6 DEF Responders, Answering
  <2>2. address[at[p]] = 0 BY <1>0, <2>1 DEF BusInv, HandTrue
  <2>3. at[p] \in Answering BY <1>0, <2>1, ReachedAnswers
  <2> QED BY <1>1, <1>2, <2>2, <2>3
<1>13. DisksOwn'
  <2> SUFFICES ASSUME NEW k \in 1 .. Len(disks) PROVE Owned(disks[k])' BY DEF DisksOwn
  <2>1. PICK e : e = disks[k] OBVIOUS
  <2>2. e.route \in Routes /\ e.address # a /\ e.address # 0 /\ Owned(e)
    BY <1>0, <1>4, <2>1, RowTypes DEF BusInv, DisksOwn
  <2>3. \A d \in Answering' : address'[d] = e.address => d = e.device BY <1>1, <1>2, <2>2 DEF Owned
  <2>4. ASSUME NEW p \in Reached(e.route)', p \in on \ changed PROVE at[p] = e.device /\ address'[at[p]] = e.address
    <3>1. p \in Reached(e.route) BY <1>5, <2>2 DEF Owned
    <3>2. at[p] = e.device /\ address[at[p]] = e.address /\ at[p] \in Devices
      BY <1>0, <2>2, <2>4, <3>1, Answers DEF Owned, Hear
    <3> QED BY <1>2, <2>2, <3>2
  <2>5. Owned(e)' BY <2>2, <2>3, <2>4 DEF Owned
  <2> QED BY <2>1, <2>5 DEF Owned
<1> QED BY <1>6, <1>7, <1>8, <1>9, <1>10, <1>11, <1>12, <1>13 DEF BusInv, Walk

LEMMA SetAddressKeeps == ASSUME TreeSound, BusInv, SetAddress PROVE BusInv'
<1>0. In("device", "address") /\ UNCHANGED <<at, on, changed, alive, hubs, disks, next_address, tables, pass, rootPort>>
  BY DEF SetAddress, tables
<1>1. CASE Return("failed") /\ UNCHANGED address BY <1>0, <1>1, DeviceFails DEF wires
<1>2. CASE Return("failed") /\ address' = Taken BY <1>0, <1>2, TakenKeeps
<1>3. CASE Responders(0) # {} /\ address' = Taken /\ Goto([Top EXCEPT !.stage = "configure"]) /\ UNCHANGED result
  BY <1>0, <1>3, TakenKeeps
<1> QED BY <1>1, <1>2, <1>3 DEF SetAddress

-----------------------------------------------------------------------------
\* A device is configured: it joins the tables.
LEMMA ConfigureFacts ==
  ASSUME TreeSound, BusInv, In("device", "configure")
  PROVE  /\ BusTyped /\ Wired /\ Chained /\ Walk /\ AddressesUnique /\ pass = "scan"
         /\ stack # <<>> /\ result = Nothing /\ Top.kind = "device" /\ Top \in Frames /\ Top = stack[1]
         /\ InHand = {Top} /\ Top.stage = "configure" /\ Top.route \in Routes /\ Top.route[1] <= Len(hubs) /\ Doubt = {}
         /\ Top.address \in Numbers /\ Given(Top.address) /\ Unlisted(Top.address)
<1>1. /\ stack # <<>> /\ result = Nothing /\ Top.kind = "device" /\ Top.stage = "configure" /\ Top \in Frames /\ Top = stack[1]
  BY InFacts
<1>2. BusTyped /\ Wired /\ Chained /\ Walk /\ AddressesUnique BY DEF BusInv, Walk
<1>3. InHand = {Top} BY <1>1 DEF InHand
<1>4. pass = "scan" /\ Top.route \in Routes /\ Top.route[1] <= Len(hubs) BY <1>2, <1>3, HandRoute
<1>5. Given(Top.address) /\ Unlisted(Top.address) BY <1>3 DEF BusInv, Fresh
<1>6. Top.address \in Numbers BY <1>1 DEF Frames
<1>7. Doubt = {} BY <1>1, <1>3 DEF Doubt
<1> QED BY <1>1, <1>2, <1>3, <1>4, <1>5, <1>6, <1>7

LEMMA HubJoins ==
  ASSUME TreeSound, BusInv, In("device", "configure"),
         hubs' = Append(hubs, [route |-> Top.route, address |-> Top.address, dead |-> FALSE]),
         Goto([Top EXCEPT !.kind = "hub", !.stage = "quiet", !.hub = Len(hubs) + 1, !.port = 1, !.start = Len(disks)]),
         UNCHANGED <<at, on, changed, address, alive, disks, next_address, pass, rootPort, result>>
  PROVE  BusInv'
<1>0. /\ BusTyped /\ Wired /\ Chained /\ Walk /\ AddressesUnique /\ pass = "scan"
      /\ stack # <<>> /\ result = Nothing /\ Top.kind = "device" /\ Top \in Frames /\ Top = stack[1]
      /\ InHand = {Top} /\ Top.stage = "configure" /\ Top.route \in Routes /\ Top.route[1] <= Len(hubs) /\ Doubt = {}
      /\ Top.address \in Numbers /\ Given(Top.address) /\ Unlisted(Top.address) BY ConfigureFacts
<1>1. Len(hubs) \in Nat /\ Len(disks) \in Nat /\ Len(stack) \in Nat BY <1>0, RowTypes
<1>2. /\ hubs' \in Seq(HubRows) /\ Len(hubs') = Len(hubs) + 1
      /\ \A i \in 1 .. Len(hubs) : hubs'[i] = hubs[i]
      /\ hubs'[Len(hubs) + 1].address = Top.address
  <2>1. PICK e : e = [route |-> Top.route, address |-> Top.address, dead |-> FALSE] OBVIOUS
  <2>2. e \in HubRows /\ e.address = Top.address BY <1>0, <2>1 DEF HubRows
  <2>3. hubs' = Append(hubs, e) /\ hubs \in Seq(HubRows) BY <1>0, <2>1 DEF BusTyped
  <2>4. /\ Append(hubs, e) \in Seq(HubRows) /\ Len(Append(hubs, e)) = Len(hubs) + 1 /\ Append(hubs, e)[Len(hubs) + 1] = e
        /\ \A i \in 1 .. Len(hubs) : Append(hubs, e)[i] = hubs[i] BY <2>2, <2>3, ListFacts
  <2> QED BY <2>2, <2>3, <2>4
<1>3. PICK c : c = [Top EXCEPT !.kind = "hub", !.stage = "quiet", !.hub = Len(hubs) + 1, !.port = 1, !.start = Len(disks)]
  OBVIOUS
<1>4. /\ c \in Frames /\ c.stage = "quiet" /\ c.kind = "hub" /\ c.route = Top.route
      /\ c.hub = Len(hubs) + 1 /\ c.start = Len(disks) /\ c.port = 1
  <2>1. PICK n, k \in Nat : n = Len(hubs) + 1 /\ k = Len(disks) BY <1>1
  <2>2. PICK t \in Frames : t = Top BY <1>0
  <2>3. c = [t EXCEPT !.kind = "hub", !.stage = "quiet", !.hub = n, !.port = 1, !.start = k] BY <1>3, <2>1, <2>2
  <2>4. /\ c \in Frames /\ c.stage = "quiet" /\ c.kind = "hub" /\ c.route = t.route
        /\ c.hub = n /\ c.start = k /\ c.port = 1 BY <2>3 DEF Frames
  <2> QED BY <2>1, <2>2, <2>4
<1>5. stack' = <<c>> \o Tail(stack) BY <1>3 DEF Goto
<1>6. Walk' /\ stack' \in Seq(Frames)
  <2>1. c.hub \in 1 .. Len(hubs') /\ c.port \in Numbers /\ c.start <= Len(disks) BY <1>1, <1>2, <1>4 DEF Numbers
  <2>2. \A j \in 2 .. Len(stack) : stack[j].hub < c.hub /\ stack[j].start <= c.start
    <3> SUFFICES ASSUME NEW j \in 2 .. Len(stack) PROVE stack[j].hub < c.hub /\ stack[j].start <= c.start OBVIOUS
    <3>1. j \in 1 .. Len(stack) /\ j # 1 BY <1>1
    <3>2. stack[j].kind = "hub" BY <1>0, <3>1, RowTypes DEF Chained
    <3>3. stack[j].hub \in 1 .. Len(hubs) /\ stack[j].start <= Len(disks) BY <1>0, <3>1, <3>2 DEF Chained
    <3> QED BY <1>1, <1>4, <3>3
  <2>3. \A i \in 1 .. Len(disks) : disks[i].route[1] = c.hub => disks[i].route[2] < c.port /\ c.stage # "quiet"
    <3> SUFFICES ASSUME NEW i \in 1 .. Len(disks), disks[i].route[1] = c.hub PROVE FALSE OBVIOUS
    <3>1. disks[i].route[1] <= Len(hubs) BY DEF BusInv, DisksOwn, Owned
    <3> QED BY <1>1, <1>4, <3>1
  <2>4. Len(hubs') \in Nat /\ Len(hubs) <= Len(hubs') BY <1>1, <1>2
  <2>5. result' = Nothing /\ UNCHANGED <<pass, rootPort, disks>> BY <1>0
  <2>6. /\ c.route = Top.route /\ (c.kind = "device" => c.stage \in {"describe", "address", "configure"})
        /\ c.stage \in {"quiet", "ports"} BY <1>4
  <2> QED BY <1>0, <1>4, <1>5, <2>1, <2>2, <2>3, <2>4, <2>5, <2>6, GotoKeeps
<1>7. stack' # <<>> /\ InHand' = {} /\ Doubt' = {}
  <2>1. stack' # <<>> /\ stack'[1] = c BY <1>0, <1>4, <1>5, GotoFacts DEF BusTyped
  <2>2. InHand' = {} BY <1>4, <2>1 DEF InHand
  <2> QED BY <1>0, <2>1, <2>2 DEF Doubt, Nothing
<1>8. BusTyped' /\ Wired' /\ Isolated'
  <2>1. BusTyped' BY <1>0, <1>2, <1>6 DEF BusTyped
  <2> QED BY <1>0, <2>1 DEF Wired, Isolated
<1>9. Shrunk BY <1>1, <1>2 DEF Shrunk
<1>10. AddressesUnique' /\ OneAtZero' /\ DisksOwn' /\ HandTrue' /\ \A d \in Answering' : d \in Answering /\ address'[d] = address[d]
  <2>1. SameHand BY <1>7 DEF SameHand
  <2>2. \A k \in 1 .. Len(disks') : k <= Len(disks) /\ disks'[k] = disks[k] BY <1>1
  <2> QED BY <1>0, <1>7, <1>8, <1>9, <2>1, <2>2, ShrunkKeeps
<1>11. AddressesGiven'
  <2>1. AddressesGiven BY DEF BusInv
  <2>2. \A i \in 1 .. Len(hubs) + 1 : i \in 1 .. Len(hubs) \/ i = Len(hubs) + 1 BY <1>1
  <2>3. \A i \in 1 .. Len(hubs) : Given(hubs[i].address) /\ hubs[i].address # Top.address /\ hubs'[i].address = hubs[i].address
    BY <1>0, <1>2, <2>1 DEF AddressesGiven, Unlisted
  <2>4. \A i \in 1 .. Len(hubs') : Given(hubs[i].address)' BY <1>0, <1>2, <2>2, <2>3 DEF Given
  <2>5. \A i, j \in 1 .. Len(hubs') : hubs'[i].address = hubs'[j].address => i = j
    BY <1>0, <1>2, <2>1, <2>2, <2>3 DEF AddressesGiven
  <2>6. \A d \in Answering' : Given(address[d])' BY <1>0, <1>10, <2>1 DEF AddressesGiven, Given
  <2>7. \A k \in 1 .. Len(disks') : Given(disks[k].address)' BY <1>0, <2>1 DEF AddressesGiven, Given
  <2> QED BY <2>4, <2>5, <2>6, <2>7 DEF AddressesGiven
<1>12. Fresh' BY <1>7 DEF Fresh
<1> QED BY <1>6, <1>8, <1>10, <1>11, <1>12 DEF BusInv, Walk

LEMMA DiskJoins ==
  ASSUME TreeSound, BusInv, In("device", "configure"), NEW d \in Responders(Top.address) \cap Sticks,
         disks' = Append(disks, [route |-> Top.route, address |-> Top.address, device |-> d]), Return("ok"),
         UNCHANGED <<at, on, changed, address, alive, hubs, next_address, pass, rootPort>>
  PROVE  BusInv'
<1>0. /\ BusTyped /\ Wired /\ Chained /\ Walk /\ AddressesUnique /\ pass = "scan"
      /\ stack # <<>> /\ result = Nothing /\ Top.kind = "device" /\ Top \in Frames /\ Top = stack[1]
      /\ InHand = {Top} /\ Top.stage = "configure" /\ Top.route \in Routes /\ Top.route[1] <= Len(hubs) /\ Doubt = {}
      /\ Top.address \in Numbers /\ Given(Top.address) /\ Unlisted(Top.address) BY ConfigureFacts
<1>1. Len(hubs) \in Nat /\ Len(disks) \in Nat /\ Len(stack) \in Nat BY <1>0, RowTypes
<1>2. d \in Answering /\ address[d] = Top.address /\ alive /\ d \in Devices BY DEF Responders, Answering, Devices
<1>3. PICK e : e = [route |-> Top.route, address |-> Top.address, device |-> d] OBVIOUS
<1>4. e \in DiskRows /\ e.address = Top.address /\ e.route = Top.route /\ e.device = d
  BY <1>0, <1>2, <1>3 DEF DiskRows
<1>5. /\ disks' \in Seq(DiskRows) /\ Len(disks') = Len(disks) + 1 /\ disks'[Len(disks) + 1] = e
      /\ \A i \in 1 .. Len(disks) : disks'[i] = disks[i]
  <2>1. disks' = Append(disks, e) /\ disks \in Seq(DiskRows) BY <1>0, <1>3 DEF BusTyped
  <2>2. /\ Append(disks, e) \in Seq(DiskRows) /\ Len(Append(disks, e)) = Len(disks) + 1 /\ Append(disks, e)[Len(disks) + 1] = e
        /\ \A i \in 1 .. Len(disks) : Append(disks, e)[i] = disks[i] BY <1>4, <2>1, ListFacts
  <2> QED BY <2>1, <2>2
<1>6. \A i \in 1 .. Len(disks') : i = Len(disks) + 1 \/ i \in 1 .. Len(disks) BY <1>1, <1>5
<1>7. Return(result') /\ result' = "ok" /\ result' # Nothing BY DEF Return, Nothing
<1>8. Walk' /\ stack' \in Seq(Frames)
  <2>1. \A j \in 2 .. Len(stack) : stack[j].start <= Len(disks')
    <3> SUFFICES ASSUME NEW j \in 2 .. Len(stack) PROVE stack[j].start <= Len(disks') OBVIOUS
    <3>1. stack[j].start <= Len(disks) /\ j \in 1 .. Len(stack) BY <1>1, InFacts
    <3>2. stack[j].start \in Nat BY <1>0, <3>1, RowTypes
    <3> QED BY <1>1, <1>5, <3>1, <3>2
  <2>2. \A i \in 1 .. Len(disks') : disks'[i].route = Top.route \/ (i <= Len(disks) /\ disks'[i] = disks[i])
    BY <1>1, <1>4, <1>5, <1>6
  <2>3. Len(hubs') = Len(hubs) OBVIOUS
  <2> QED BY <1>0, <1>5, <1>7, <2>1, <2>2, <2>3, ReturnKeeps
<1>9. BusTyped' /\ Wired' /\ Isolated'
  <2>1. BusTyped' BY <1>0, <1>5, <1>7, <1>8 DEF BusTyped
  <2> QED BY <1>0, <2>1 DEF Wired, Isolated
<1>10. InHand' = {} /\ Answering' = Answering /\ \A r : Reached(r)' = Reached(r)
  <2>1. InHand' = {} BY <1>7, <1>8, <1>9, NoHandNext DEF Walk
  <2>2. Answering' = Answering BY DEF Answering, Hanging
  <2>3. \A r : Reached(r)' = Reached(r) BY <2>2 DEF Reached, Hub, Responders
  <2> QED BY <2>1, <2>2, <2>3
<1>11. AddressesUnique' /\ HandTrue' BY <1>0, <1>10 DEF AddressesUnique, HandTrue
<1>12. OneAtZero'
  <2>1. \A x \in Answering : address[x] # 0 BY <1>0 DEF BusInv, OneAtZero
  <2> QED BY <1>10, <2>1 DEF OneAtZero
<1>13. AddressesGiven'
  <2>1. AddressesGiven BY DEF BusInv
  <2>2. \A k \in 1 .. Len(disks') : Given(disks[k].address)'
    <3> SUFFICES ASSUME NEW k \in 1 .. Len(disks') PROVE Given(disks[k].address)' OBVIOUS
    <3>1. CASE k = Len(disks) + 1 BY <1>0, <1>4, <1>5, <3>1 DEF Given
    <3>2. CASE k \in 1 .. Len(disks)
      <4>1. Given(disks[k].address) /\ disks'[k] = disks[k] BY <1>0, <1>5, <2>1, <3>2 DEF AddressesGiven
      <4> QED BY <4>1 DEF Given
    <3> QED BY <1>6, <3>1, <3>2
  <2>3. \A x \in Answering' : Given(address[x])' BY <1>0, <1>10, <2>1 DEF AddressesGiven, Given
  <2>4. \A i \in 1 .. Len(hubs') : Given(hubs[i].address)' BY <1>0, <2>1 DEF AddressesGiven, Given
  <2> QED BY <1>0, <2>1, <2>2, <2>3, <2>4 DEF AddressesGiven
<1>14. Fresh' BY <1>7, <1>10 DEF Fresh
<1>15. DisksOwn'
  <2>1. \A row : Owned(row) => Owned(row)' BY <1>10 DEF Owned
  <2>2. Owned(e)
    <3>1. \A x \in Answering : address[x] = e.address => x = e.device BY <1>0, <1>2, <1>4 DEF AddressesUnique
    <3>2. ASSUME NEW p \in Reached(e.route), p \in on \ changed
          PROVE  at[p] = e.device /\ address[at[p]] = e.address
      <4>1. address[at[p]] = e.address BY <1>0, <1>4, <3>2 DEF BusInv, HandTrue
      <4>2. at[p] \in Answering BY <1>0, <1>2, <1>4, <3>2, ReachedAnswers
      <4> QED BY <3>1, <4>1, <4>2
    <3> QED BY <1>0, <1>4, <3>1, <3>2 DEF Owned
  <2>3. ASSUME NEW k \in 1 .. Len(disks') PROVE Owned(disks[k])'
    <3>1. CASE k = Len(disks) + 1
      <4>1. Owned(e)' /\ disks'[k] = e BY <1>5, <2>1, <2>2, <3>1
      <4> QED BY <4>1 DEF Owned
    <3>2. CASE k \in 1 .. Len(disks)
      <4>1. PICK row : row = disks[k] OBVIOUS
      <4>2. Owned(row)' /\ disks'[k] = row BY <1>5, <2>1, <3>2, <4>1 DEF BusInv, DisksOwn
      <4> QED BY <4>2 DEF Owned
    <3> QED BY <1>6, <3>1, <3>2
  <2> QED BY <2>3 DEF DisksOwn
<1> QED BY <1>8, <1>9, <1>11, <1>12, <1>13, <1>14, <1>15 DEF BusInv, Walk

LEMMA ConfigureKeeps == ASSUME TreeSound, BusInv, Configure PROVE BusInv'
<1>0. In("device", "configure") /\ UNCHANGED <<wires, at, on, changed, address, alive, next_address, pass, rootPort>>
  BY DEF Configure, wires
<1>1. CASE Return("failed") /\ UNCHANGED <<hubs, disks>> BY <1>0, <1>1, DeviceFails DEF tables
<1>2. CASE /\ hubs' = Append(hubs, [route |-> Top.route, address |-> Top.address, dead |-> FALSE])
           /\ Goto([Top EXCEPT !.kind = "hub", !.stage = "quiet", !.hub = Len(hubs) + 1, !.port = 1, !.start = Len(disks)])
           /\ UNCHANGED <<disks, result>> BY <1>0, <1>2, HubJoins
<1>3. ASSUME NEW d \in Responders(Top.address) \cap Sticks, UNCHANGED hubs, Return("ok"),
             disks' = Append(disks, [route |-> Top.route, address |-> Top.address, device |-> d])
      PROVE  BusInv' BY <1>0, <1>3, DiskJoins
<1> QED BY <1>1, <1>2, <1>3 DEF Configure

-----------------------------------------------------------------------------
LEMMA BusInitHolds == ASSUME TreeSound, BusInit PROVE BusInv
<1>1. /\ at = Plugged /\ on = {} /\ address = [d \in Devices |-> 0] /\ alive = TRUE
      /\ hubs = <<>> /\ disks = <<>> /\ next_address = Roots + 1
      /\ pass = "idle" /\ rootPort = 1 /\ stack = <<>> /\ result = Nothing BY DEF BusInit
<1>2. Len(hubs) = 0 /\ Len(disks) = 0 /\ Len(stack) = 0 /\ 1 .. 0 = {} BY <1>1
<1>3. BusTyped
  <2>1. Roots \in Nat \ {0} /\ Plugged \in [Places -> Devices \cup {Nothing}] BY DEF TreeSound
  <2>2. address \in [Devices -> Nat] /\ next_address \in Nat /\ next_address > Roots /\ rootPort \in 1 .. Roots
    BY <1>1, <2>1
  <2> QED BY <1>1, <2>1, <2>2 DEF BusTyped
<1>4. Wired BY <1>1 DEF Wired, TreeSound
<1>5. Answering = {} BY <1>1, <1>3, <1>4, Deaf
<1>6. InHand = {} BY <1>1 DEF InHand
<1>7. Chained /\ Isolated /\ DisksOwn /\ DisksPassed BY <1>1, <1>2 DEF Chained, Isolated, DisksOwn, DisksPassed
<1>8. AddressesGiven /\ OneAtZero /\ AddressesUnique /\ HandTrue /\ Fresh
  BY <1>1, <1>5, <1>6 DEF AddressesGiven, OneAtZero, AddressesUnique, HandTrue, Fresh
<1> QED BY <1>3, <1>4, <1>7, <1>8 DEF BusInv

LEMMA BusStepKeeps == ASSUME TreeSound, BusInv, [BusNext]_busVars PROVE BusInv'
<1>1. CASE UsbRescan BY <1>1, UsbRescanKeeps
<1>2. CASE RootDisable BY <1>2, RootDisableKeeps
<1>3. CASE RootReset BY <1>3, RootResetKeeps
<1>4. CASE RootReturn BY <1>4, RootReturnKeeps
<1>5. CASE Describe BY <1>5, DescribeKeeps
<1>6. CASE SetAddress BY <1>6, SetAddressKeeps
<1>7. CASE Configure BY <1>7, ConfigureKeeps
<1>8. CASE QuietPort BY <1>8, QuietPortKeeps
<1>9. CASE ResetChild BY <1>9, ResetChildKeeps
<1>10. CASE ChildReturn BY <1>10, ChildReturnKeeps
<1>11. CASE HubEnds BY <1>11, HubEndsKeeps
<1>12. ASSUME NEW p \in Places, Pull(p) PROVE BusInv' BY <1>12, PullKeeps
<1>13. ASSUME NEW p \in Places, NEW d \in Devices, Plug(d, p) PROVE BusInv' BY <1>13, PlugKeeps
<1>14. CASE UNCHANGED busVars BY <1>14, IdleKeeps
<1> QED BY <1>1, <1>2, <1>3, <1>4, <1>5, <1>6, <1>7, <1>8, <1>9, <1>10, <1>11, <1>12, <1>13, <1>14 DEF BusNext

\* A disk whose route is live is the stick listed there.
LEMMA LiveDisk == ASSUME TreeSound, BusInv PROVE LiveDiskIsItsOwn
<1> SUFFICES ASSUME NEW k \in DOMAIN disks, RouteLive(disks[k].route)
             PROVE  /\ Responders(disks[k].address) = {disks[k].device}
                    /\ \E p \in Reached(disks[k].route) : at[p] = disks[k].device BY DEF LiveDiskIsItsOwn
<1>1. BusTyped /\ Wired /\ k \in 1 .. Len(disks) BY DEF BusInv, BusTyped
<1>2. PICK e : e = disks[k] OBVIOUS
<1>3. alive /\ \E p \in Reached(e.route) : p \in on \ changed BY <1>2 DEF RouteLive
<1>4. PICK p \in Reached(e.route) : p \in on \ changed BY <1>3
<1>5. e.route \in Routes /\ Owned(e) BY <1>1, <1>2, RowTypes DEF BusInv, DisksOwn
<1>6. at[p] = e.device /\ address[at[p]] = e.address /\ at[p] \in Answering
  BY <1>1, <1>3, <1>4, <1>5, ReachedAnswers DEF Owned
<1>7. Responders(e.address) = {e.device} BY <1>5, <1>6 DEF Responders, Owned
<1> QED BY <1>2, <1>4, <1>6, <1>7

\* Who may answer at which address, at every step of a scan (usb.c usb_rescan,
\* usb_hub.h enumerate_hub).
THEOREM BusInvariant == ASSUME TreeSound PROVE BusSpec => []BusInv
<1>1. BusInit => BusInv BY BusInitHolds
<1>2. BusInv /\ [BusNext]_busVars => BusInv' BY BusStepKeeps
<1> QED BY <1>1, <1>2, PTL DEF BusSpec

\* No two devices answer at one address, whatever fails, is pulled or plugged
\* while the bus is scanned (usb_rescan, usb_stop, hub_disable).
THEOREM AddressesStayUnique == ASSUME TreeSound PROVE BusSpec => []AddressesUnique
<1>1. BusInv => AddressesUnique BY DEF BusInv
<1> QED BY <1>1, BusInvariant, PTL

\* A disk whose route is live is the stick that was enumerated there
\* (usb_route_check).
THEOREM LiveDisksAreTheirOwn == ASSUME TreeSound PROVE BusSpec => []LiveDiskIsItsOwn
<1>1. BusInv => LiveDiskIsItsOwn BY LiveDisk
<1> QED BY <1>1, BusInvariant, PTL

-----------------------------------------------------------------------------
(***************************************************************************)
(* The address spaces.                                                     *)
(***************************************************************************)
PageRows == {e \in [page : Nat, rights : SUBSET {"r", "w", "x"}, frame : Pool] : ~({"w", "x"} \subseteq e.rights)}
SpaceRows == [live : BOOLEAN, tables : SUBSET Pool, pages : SUBSET PageRows, supervisor : SUBSET Regions, pins : Nat]

SpaceTyped ==
    /\ owner \in [Pool -> {"free", "space", "kernel", "other"}]
    /\ bytes \in [Pool -> {"zero", "code", "data", "other"}]
    /\ kernel \subseteq Regions /\ sp \in SpaceRows
    /\ pending \in Seq(Requested) /\ running \in BOOLEAN

\* What is not built has nothing, and what runs is pinned.
Staged ==
    /\ ~sp.live => sp = NoSpace
    /\ running => sp.pins > 0

\* No frame is that of two pages, or of a page and a table.
Apart ==
    /\ \A e \in sp.pages : e.frame \notin sp.tables
    /\ \A d, e \in sp.pages : d.frame = e.frame => d = e
    /\ IsFiniteSet(sp.pages)

SpacesInv == SpaceTyped /\ Staged /\ Apart /\ FramesOwned /\ RunsOnCurrentTables

\* A set of numbers that is not empty has a least one.
LEMMA LeastNumber ==
  ASSUME NEW S, S \subseteq Nat, S # {} PROVE Min(S) \in S
<1> DEFINE R == {p \in Nat \X Nat : p[1] < p[2]}
<1>1. IsWellFoundedOn(R, Nat) BY NatLessThanWellFounded DEF OpToRel
<1>2. \A x, y \in Nat : <<y, x>> \in R <=> y < x OBVIOUS
<1> HIDE DEF R
<1>3. PICK x \in S : \A y \in S : ~(<<y, x>> \in R) BY <1>1, WFMin
<1>4. \A y \in S : x \in Nat /\ y \in Nat /\ ~(y < x) BY <1>2, <1>3
<1>5. \A y \in S : x <= y BY <1>4
<1> QED BY <1>3, <1>5 DEF Min

\* A frame the allocator hands out was free.
LEMMA FreeFrame ==
  ASSUME MemorySound, SpaceTyped, Usable \/ FirstFree # 0
  PROVE  FirstFree \in Pool /\ owner[FirstFree] = "free"
<1>1. FirstFree # 0 BY DEF Usable
<1>2. FreeFrames # {} /\ FreeFrames \subseteq Nat BY <1>1 DEF FirstFree, FreeFrames, MemorySound
<1>3. FirstFree \in FreeFrames BY <1>2, LeastNumber DEF FirstFree
<1> QED BY <1>3 DEF FreeFrames

\* A record with one field changed.
LEMMA SpaceSteps ==
  ASSUME sp \in SpaceRows
  PROVE  /\ NoSpace \in SpaceRows /\ [NoSpace EXCEPT !.live = TRUE] \in SpaceRows
         /\ \A S \in SUBSET Regions : LET e == [sp EXCEPT !.supervisor = S] IN
              e \in SpaceRows /\ e = [live |-> sp.live, tables |-> sp.tables, pages |-> sp.pages, supervisor |-> S, pins |-> sp.pins]
         /\ \A n \in Nat : LET e == [sp EXCEPT !.pins = n] IN
              e \in SpaceRows /\ e = [live |-> sp.live, tables |-> sp.tables, pages |-> sp.pages, supervisor |-> sp.supervisor, pins |-> n]
         /\ \A f \in Pool, S \in SUBSET Regions : LET e == [sp EXCEPT !.tables = @ \cup {f}, !.supervisor = S] IN
              e \in SpaceRows /\ e = [live |-> sp.live, tables |-> sp.tables \cup {f}, pages |-> sp.pages, supervisor |-> S, pins |-> sp.pins]
         /\ \A r \in PageRows : LET e == [sp EXCEPT !.pages = @ \cup {r}] IN
              e \in SpaceRows /\ e = [live |-> sp.live, tables |-> sp.tables, pages |-> sp.pages \cup {r}, supervisor |-> sp.supervisor, pins |-> sp.pins]
<1>1. NoSpace \in SpaceRows /\ [NoSpace EXCEPT !.live = TRUE] \in SpaceRows
  <2>1. {} \in SUBSET Pool /\ {} \in SUBSET PageRows /\ {} \in SUBSET Regions OBVIOUS
  <2> QED BY <2>1 DEF SpaceRows, NoSpace
<1>2. ASSUME NEW S \in SUBSET Regions
      PROVE  LET e == [sp EXCEPT !.supervisor = S] IN
              e \in SpaceRows /\ e = [live |-> sp.live, tables |-> sp.tables, pages |-> sp.pages, supervisor |-> S, pins |-> sp.pins]
  BY DEF SpaceRows
<1>3. ASSUME NEW n \in Nat
      PROVE  LET e == [sp EXCEPT !.pins = n] IN
              e \in SpaceRows /\ e = [live |-> sp.live, tables |-> sp.tables, pages |-> sp.pages, supervisor |-> sp.supervisor, pins |-> n]
  BY DEF SpaceRows
<1>4. ASSUME NEW f \in Pool, NEW S \in SUBSET Regions
      PROVE  LET e == [sp EXCEPT !.tables = @ \cup {f}, !.supervisor = S] IN
              e \in SpaceRows /\ e = [live |-> sp.live, tables |-> sp.tables \cup {f}, pages |-> sp.pages, supervisor |-> S, pins |-> sp.pins]
  <2>1. sp.tables \cup {f} \in SUBSET Pool BY DEF SpaceRows
  <2> DEFINE e == [sp EXCEPT !.tables = @ \cup {f}, !.supervisor = S]
  <2>2. e \in SpaceRows /\ e.live = sp.live /\ e.tables = sp.tables \cup {f} /\ e.pages = sp.pages
        /\ e.supervisor = S /\ e.pins = sp.pins BY <2>1 DEF SpaceRows
  <2> HIDE DEF e
  <2>3. e = [live |-> e.live, tables |-> e.tables, pages |-> e.pages, supervisor |-> e.supervisor, pins |-> e.pins]
    BY <2>2 DEF SpaceRows
  <2> QED BY <2>2, <2>3 DEF e
<1>5. ASSUME NEW r \in PageRows
      PROVE  LET e == [sp EXCEPT !.pages = @ \cup {r}] IN
              e \in SpaceRows /\ e = [live |-> sp.live, tables |-> sp.tables, pages |-> sp.pages \cup {r}, supervisor |-> sp.supervisor, pins |-> sp.pins]
  <2>1. sp.pages \cup {r} \in SUBSET PageRows BY DEF SpaceRows
  <2> QED BY <2>1 DEF SpaceRows
<1> QED BY <1>1, <1>2, <1>3, <1>4, <1>5

LEMMA NothingPending == <<>> \in Seq(Requested) OBVIOUS

LEMMA SpaceInitHolds == MemorySound /\ SpaceInit => SpacesInv
<1> SUFFICES ASSUME MemorySound, SpaceInit PROVE SpacesInv OBVIOUS
<1>1. SpaceTyped
  <2>1. sp \in SpaceRows BY DEF SpaceInit, SpaceRows, NoSpace
  <2>2. owner \in [Pool -> {"free", "space", "kernel", "other"}] /\ bytes \in [Pool -> {"zero", "code", "data", "other"}]
    BY DEF SpaceInit
  <2> QED BY <2>1, <2>2, NothingPending DEF SpaceInit, SpaceTyped
<1>2. sp.tables = {} /\ sp.pages = {} /\ sp.pins = 0 /\ Held = {} BY DEF SpaceInit, NoSpace, Held
<1>3. Cardinality(Held) = 0 /\ Cardinality(sp.tables) = 0 /\ Cardinality(sp.pages) = 0 BY <1>2, FS_EmptySet
<1>4. FramesOwned BY <1>2, <1>3 DEF SpaceInit, FramesOwned
<1> QED BY <1>1, <1>2, <1>4, FS_EmptySet DEF SpaceInit, SpacesInv, Staged, Apart, RunsOnCurrentTables

-----------------------------------------------------------------------------
\* A frame given to the space.
LEMMA TakenForSpace ==
  ASSUME MemorySound, SpacesInv, NEW f \in Pool, owner[f] = "free", Take(f, "space", "zero"),
         Held' = Held \cup {f},
         Cardinality(sp'.tables) + Cardinality(sp'.pages) = Cardinality(sp.tables) + Cardinality(sp.pages) + 1
  PROVE  FramesOwned'
<1>1. f \notin Held /\ Held \subseteq Pool /\ IsFiniteSet(Held)
  <2>1. Held = {g \in Pool : owner[g] = "space"} BY DEF SpacesInv, FramesOwned
  <2> QED BY <2>1, FS_Subset DEF MemorySound
<1>2. Cardinality(Held') = Cardinality(Held) + 1 BY <1>1, FS_AddElement
<1>3. /\ Cardinality(Held) = Cardinality(sp.tables) + Cardinality(sp.pages)
      /\ {g \in Pool : owner[g] = "space"} = Held
      /\ \A g \in Pool : /\ bytes[g] \in {"code", "data"} => owner[g] = "space"
                         /\ owner[g] = "space" => bytes[g] # "other" BY DEF SpacesInv, FramesOwned
<1>4. \A g \in Pool : owner'[g] = (IF g = f THEN "space" ELSE owner[g]) /\ bytes'[g] = (IF g = f THEN "zero" ELSE bytes[g])
  BY DEF SpacesInv, SpaceTyped, Take
<1>5. {g \in Pool : owner'[g] = "space"} = Held' BY <1>3, <1>4
<1> QED BY <1>2, <1>3, <1>4, <1>5 DEF FramesOwned

\* A step that leaves the space alone, and touches no frame of it.
LEMMA ElsewhereKeeps ==
  ASSUME SpacesInv, SpaceTyped', UNCHANGED <<sp, running>>, running => UNCHANGED kernel,
         \A f \in Pool : owner[f] = "space" <=> owner'[f] = "space",
         \A f \in Pool : owner[f] = "space" => bytes'[f] = bytes[f],
         \A f \in Pool : owner'[f] # "space" => bytes'[f] \notin {"code", "data"}
  PROVE  SpacesInv'
<1>1. Held' = Held BY DEF Held
<1>2. {g \in Pool : owner'[g] = "space"} = Held BY DEF SpacesInv, FramesOwned
<1>3. FramesOwned' BY <1>1, <1>2 DEF SpacesInv, FramesOwned
<1>4. \A e \in sp.pages : e.frame \in Pool /\ owner[e.frame] = "space"
  BY DEF SpacesInv, FramesOwned, Held, SpaceTyped, SpaceRows, PageRows
<1>5. RunsOnCurrentTables' BY <1>4 DEF SpacesInv, RunsOnCurrentTables
<1> QED BY <1>3, <1>5 DEF SpacesInv, Staged, Apart

\* Stores by the program or for it, into pages that can be written.
LEMMA StoreKeeps ==
  ASSUME MemorySound, SpacesInv, NEW e \in sp.pages, "w" \in e.rights, Store(e)
  PROVE  SpacesInv'
<1>1. e \in PageRows /\ e.frame \in Pool /\ owner[e.frame] = "space" /\ "x" \notin e.rights
  BY DEF SpacesInv, FramesOwned, Held, SpaceTyped, SpaceRows, PageRows
<1>2. \A f \in Pool : bytes'[f] = IF f = e.frame THEN "data" ELSE bytes[f] BY DEF Store, SpacesInv, SpaceTyped
<1>3. SpaceTyped' BY <1>1 DEF Store, SpacesInv, SpaceTyped
<1>4. Held' = Held BY DEF Store, Held
<1>5. FramesOwned' BY <1>1, <1>2, <1>4 DEF Store, SpacesInv, FramesOwned
<1>6. \A d \in sp.pages : d.frame \in Pool /\ ("x" \in d.rights => d.frame # e.frame)
  BY <1>1 DEF SpacesInv, Apart, SpaceTyped, SpaceRows, PageRows
<1>7. RunsOnCurrentTables' BY <1>2, <1>6 DEF Store, SpacesInv, RunsOnCurrentTables
<1> QED BY <1>3, <1>5, <1>7 DEF Store, SpacesInv, Staged, Apart

LEMMA DestroyKeeps ==
  ASSUME MemorySound, SpacesInv, KuDestroy PROVE SpacesInv'
<1>1. /\ sp' = NoSpace /\ pending' = <<>> /\ UNCHANGED <<kernel, running>>
      /\ owner' = [f \in Pool |-> IF f \in Held THEN "free" ELSE owner[f]]
      /\ bytes' = [f \in Pool |-> IF f \in Held THEN "zero" ELSE bytes[f]] BY DEF KuDestroy, Release
<1>2. ~running BY DEF KuDestroy, SpacesInv, Staged, SpaceTyped, SpaceRows
<1>3. SpaceTyped' BY <1>1, SpaceSteps, NothingPending DEF SpacesInv, SpaceTyped
<1>4. Held' = {} /\ sp'.tables = {} /\ sp'.pages = {} /\ sp'.pins = 0 BY <1>1 DEF Held, NoSpace
<1>5. Cardinality(Held') = 0 /\ Cardinality(sp'.tables) = 0 /\ Cardinality(sp'.pages) = 0 BY <1>4, FS_EmptySet
<1>6. FramesOwned' BY <1>1, <1>4, <1>5 DEF SpacesInv, FramesOwned
<1> QED BY <1>1, <1>2, <1>3, <1>4, <1>6, FS_EmptySet DEF SpacesInv, Staged, Apart, RunsOnCurrentTables

LEMMA TableKeeps ==
  ASSUME MemorySound, SpacesInv, Table PROVE SpacesInv'
<1> DEFINE f == FirstFree
<1>1. f \in Pool /\ owner[f] = "free" BY FreeFrame DEF Table, SpacesInv
<1>2. f \notin Held /\ Building /\ Take(f, "space", "zero") /\ UNCHANGED <<kernel, pending, running>>
  BY <1>1 DEF Table, SpacesInv, FramesOwned
<1>3. sp' = [live |-> sp.live, tables |-> sp.tables \cup {f}, pages |-> sp.pages, supervisor |-> kernel, pins |-> sp.pins]
  BY <1>1, SpaceSteps DEF Table, SpacesInv, SpaceTyped
<1>4. SpaceTyped'
  <2>1. sp' \in SpaceRows BY <1>1, SpaceSteps DEF Table, SpacesInv, SpaceTyped
  <2> QED BY <1>2, <2>1 DEF SpacesInv, SpaceTyped, Take
<1>5. Held' = Held \cup {f} BY <1>3 DEF Held
<1>6. FramesOwned'
  <2>1. f \notin sp.tables /\ sp.tables \subseteq Pool BY <1>2 DEF Held, SpacesInv, SpaceTyped, SpaceRows
  <2>2. IsFiniteSet(sp.tables) /\ IsFiniteSet(sp.pages) BY <2>1, FS_Subset DEF MemorySound, SpacesInv, Apart
  <2>3. Cardinality(sp'.tables) = Cardinality(sp.tables) + 1 /\ sp'.pages = sp.pages
    BY <1>3, <2>1, <2>2, FS_AddElement
  <2> QED BY <1>1, <1>2, <1>5, <2>2, <2>3, FS_CardinalityType, TakenForSpace
<1>7. Staged' /\ Apart' /\ RunsOnCurrentTables'
  BY <1>2, <1>3 DEF Building, SpacesInv, Staged, Apart, RunsOnCurrentTables, Held, NoSpace, SpaceTyped, SpaceRows
<1> QED BY <1>4, <1>6, <1>7 DEF SpacesInv

LEMMA MapKeeps ==
  ASSUME MemorySound, SpacesInv, KuMap PROVE SpacesInv'
<1> DEFINE f == FirstFree
           e == [page |-> Head(pending).page, rights |-> Head(pending).rights, frame |-> f]
<1>1. f \in Pool /\ owner[f] = "free" BY FreeFrame DEF KuMap, SpacesInv
<1>2. f \notin Held /\ Building /\ Take(f, "space", "zero") /\ UNCHANGED <<kernel, running>>
  BY <1>1 DEF KuMap, SpacesInv, FramesOwned
<1>3. Head(pending) \in Requested /\ pending' \in Seq(Requested) BY DEF KuMap, SpacesInv, SpaceTyped
<1>4. e \in PageRows /\ e.frame = f BY <1>1, <1>3 DEF Requested, PageRows
<1> HIDE DEF e
<1>5. sp' = [live |-> sp.live, tables |-> sp.tables, pages |-> sp.pages \cup {e}, supervisor |-> sp.supervisor, pins |-> sp.pins]
      /\ sp' \in SpaceRows BY <1>4, SpaceSteps DEF KuMap, SpacesInv, SpaceTyped, e
<1>6. SpaceTyped' BY <1>2, <1>3, <1>5 DEF SpacesInv, SpaceTyped, Take
<1>7. Held' = Held \cup {f} BY <1>4, <1>5 DEF Held
<1>8. e \notin sp.pages /\ \A d \in sp.pages : d.frame # f BY <1>2, <1>4 DEF Held
<1>9. FramesOwned'
  <2>1. sp.tables \subseteq Pool BY DEF SpacesInv, SpaceTyped, SpaceRows
  <2>2. IsFiniteSet(sp.tables) /\ IsFiniteSet(sp.pages) BY <2>1, FS_Subset DEF MemorySound, SpacesInv, Apart
  <2>3. Cardinality(sp'.pages) = Cardinality(sp.pages) + 1 /\ sp'.tables = sp.tables
    BY <1>5, <1>8, <2>2, FS_AddElement
  <2> QED BY <1>1, <1>2, <1>7, <2>2, <2>3, FS_CardinalityType, TakenForSpace
<1>10. Apart'
  <2>1. IsFiniteSet(sp'.pages) BY <1>5, FS_AddElement DEF SpacesInv, Apart
  <2> QED BY <1>2, <1>4, <1>5, <1>8, <2>1 DEF SpacesInv, Apart, Held
<1>11. Staged' /\ RunsOnCurrentTables'
  BY <1>2, <1>5 DEF Building, SpacesInv, Staged, RunsOnCurrentTables, NoSpace, SpaceTyped, SpaceRows
<1> QED BY <1>6, <1>9, <1>10, <1>11 DEF SpacesInv

LEMMA LoadKeeps ==
  ASSUME MemorySound, SpacesInv, KuLoad PROVE SpacesInv'
<1>1. /\ sp' = [live |-> sp.live, tables |-> sp.tables, pages |-> sp.pages, supervisor |-> sp.supervisor, pins |-> 1]
      /\ sp' \in SpaceRows /\ UNCHANGED <<owner, kernel, pending, running>>
  BY SpaceSteps DEF KuLoad, SpacesInv, SpaceTyped
<1>2. \A f \in Pool : bytes'[f] = bytes[f] \/ (bytes'[f] \in {"code", "data"} /\ \E e \in sp.pages : e.frame = f)
  BY DEF KuLoad, Content
<1>3. \A e \in sp.pages : e.frame \in Pool /\ owner[e.frame] = "space" /\ ("x" \in e.rights => bytes'[e.frame] = "code")
  <2> SUFFICES ASSUME NEW e \in sp.pages
               PROVE  e.frame \in Pool /\ owner[e.frame] = "space" /\ ("x" \in e.rights => bytes'[e.frame] = "code")
    OBVIOUS
  <2>1. e.frame \in Pool /\ owner[e.frame] = "space"
    BY DEF SpacesInv, FramesOwned, Held, SpaceTyped, SpaceRows, PageRows
  <2>2. (CHOOSE d \in sp.pages : d.frame = e.frame) = e BY DEF SpacesInv, Apart
  <2> QED BY <2>1, <2>2 DEF KuLoad, Content
<1>4. SpaceTyped'
  <2>1. bytes' \in [Pool -> {"zero", "code", "data", "other"}] BY DEF KuLoad, Content, SpacesInv, SpaceTyped
  <2> QED BY <1>1, <2>1 DEF SpacesInv, SpaceTyped
<1>5. Held' = Held /\ sp'.tables = sp.tables /\ sp'.pages = sp.pages BY <1>1 DEF Held
<1>6. FramesOwned'
  <2>1. {f \in Pool : owner'[f] = "space"} = Held' BY <1>1, <1>5 DEF SpacesInv, FramesOwned
  <2>2. \A f \in Pool : /\ bytes'[f] \in {"code", "data"} => owner'[f] = "space"
                        /\ owner'[f] = "space" => bytes'[f] # "other" BY <1>1, <1>2, <1>3 DEF SpacesInv, FramesOwned
  <2>3. Cardinality(Held') = Cardinality(sp'.tables) + Cardinality(sp'.pages) BY <1>5 DEF SpacesInv, FramesOwned
  <2> QED BY <2>1, <2>2, <2>3 DEF FramesOwned
<1>7. ~running /\ sp.live BY DEF KuLoad, Building, SpacesInv, Staged, SpaceTyped
<1> QED BY <1>1, <1>3, <1>4, <1>5, <1>6, <1>7 DEF SpacesInv, Staged, Apart, RunsOnCurrentTables

\* Steps that change nothing but the stage of the space.
LEMMA StageKeeps ==
  ASSUME SpacesInv, SpaceTyped', UNCHANGED <<owner, bytes>>, sp'.tables = sp.tables, sp'.pages = sp.pages,
         Staged', running' => sp'.supervisor = kernel', sp'.pins > 0 => sp.pins > 0
  PROVE  SpacesInv'
<1>1. Held' = Held BY DEF Held
<1> QED BY <1>1 DEF SpacesInv, Apart, FramesOwned, RunsOnCurrentTables

-----------------------------------------------------------------------------
LEMMA SpaceStepKeeps ==
  ASSUME MemorySound, SpacesInv, [SpaceNext]_spaceVars PROVE SpacesInv'
<1>1. CASE OthersAlloc
  <2>1. FirstFree \in Pool /\ owner[FirstFree] = "free" BY <1>1, FreeFrame DEF OthersAlloc, SpacesInv
  <2>2. \A f \in Pool : /\ owner'[f] = (IF f = FirstFree THEN "other" ELSE owner[f])
                        /\ bytes'[f] = (IF f = FirstFree THEN "other" ELSE bytes[f])
    BY <1>1 DEF OthersAlloc, Take, SpacesInv, SpaceTyped
  <2>3. SpaceTyped' BY <1>1, <2>1 DEF OthersAlloc, Take, SpacesInv, SpaceTyped
  <2> QED BY <1>1, <2>1, <2>2, <2>3, ElsewhereKeeps DEF OthersAlloc, SpacesInv, FramesOwned
<1>2. ASSUME NEW f \in Pool, OthersFree(f) PROVE SpacesInv'
  <2>1. \A g \in Pool : owner'[g] = (IF g = f THEN "free" ELSE owner[g]) BY <1>2 DEF OthersFree, SpacesInv, SpaceTyped
  <2>2. SpaceTyped' BY <1>2 DEF OthersFree, SpacesInv, SpaceTyped
  <2> QED BY <1>2, <2>1, <2>2, ElsewhereKeeps DEF OthersFree, SpacesInv, FramesOwned
<1>3. ASSUME NEW r \in Regions, PagingMap(r) PROVE SpacesInv'
  <2>1. FirstFree \in Pool /\ owner[FirstFree] = "free" BY <1>3, FreeFrame DEF PagingMap, SpacesInv
  <2>2. \A f \in Pool : /\ owner'[f] = (IF f = FirstFree THEN "kernel" ELSE owner[f])
                        /\ bytes'[f] = (IF f = FirstFree THEN "zero" ELSE bytes[f])
    BY <1>3 DEF PagingMap, Take, SpacesInv, SpaceTyped
  <2>3. SpaceTyped' BY <1>3, <2>1 DEF PagingMap, Take, SpacesInv, SpaceTyped
  <2> QED BY <1>3, <2>1, <2>2, <2>3, ElsewhereKeeps DEF PagingMap, SpacesInv, FramesOwned
<1>4. ASSUME NEW plan \in Plans, KiLoad(plan) PROVE SpacesInv'
  <2>1. plan \in Seq(Requested) BY DEF MemorySound
  <2>2. sp' = [NoSpace EXCEPT !.live = TRUE] /\ sp' \in SpaceRows /\ sp = NoSpace
    BY <1>4, SpaceSteps DEF KiLoad, SpacesInv, SpaceTyped, Staged
  <2>3. SpaceTyped' BY <1>4, <2>1, <2>2 DEF KiLoad, SpacesInv, SpaceTyped
  <2> QED BY <1>4, <2>2, <2>3, StageKeeps DEF KiLoad, NoSpace, SpacesInv, Staged
<1>5. CASE Table BY <1>5, TableKeeps
<1>6. CASE KuMap BY <1>6, MapKeeps
<1>7. CASE KuLoad BY <1>7, LoadKeeps
<1>8. CASE LoadFails \/ Unload BY <1>8, DestroyKeeps DEF LoadFails, Unload
<1>9. CASE Enter
  <2>1. sp' = [live |-> sp.live, tables |-> sp.tables, pages |-> sp.pages, supervisor |-> kernel, pins |-> sp.pins]
        /\ sp' \in SpaceRows BY <1>9, SpaceSteps DEF Enter, SpacesInv, SpaceTyped
  <2>2. SpaceTyped' BY <1>9, <2>1 DEF Enter, SpacesInv, SpaceTyped
  <2>3. sp.live BY <1>9 DEF Enter, SpacesInv, Staged, NoSpace
  <2> QED BY <1>9, <2>1, <2>2, <2>3, StageKeeps DEF Enter, Staged
<1>10. CASE UserStores \/ CopyOut BY <1>10, StoreKeeps DEF UserStores, CopyOut, Checked
<1>11. CASE Leave
  <2>1. SpaceTyped' /\ Staged' BY <1>11 DEF Leave, SpacesInv, SpaceTyped, Staged
  <2> QED BY <1>11, <2>1, StageKeeps DEF Leave
<1>12. CASE KuUnpin
  <2>1. sp.pins - 1 \in Nat /\ sp.live BY <1>12 DEF KuUnpin, SpacesInv, SpaceTyped, SpaceRows, Staged, NoSpace
  <2>2. sp' = [live |-> sp.live, tables |-> sp.tables, pages |-> sp.pages, supervisor |-> sp.supervisor, pins |-> sp.pins - 1]
        /\ sp' \in SpaceRows BY <1>12, <2>1, SpaceSteps DEF KuUnpin, SpacesInv, SpaceTyped
  <2>3. SpaceTyped' /\ Staged' BY <1>12, <2>1, <2>2 DEF KuUnpin, SpacesInv, SpaceTyped, Staged
  <2> QED BY <1>12, <2>1, <2>2, <2>3, StageKeeps DEF KuUnpin
<1>13. CASE UNCHANGED spaceVars
  BY <1>13 DEF spaceVars, SpacesInv, SpaceTyped, Staged, Apart, FramesOwned, RunsOnCurrentTables, Held
<1> QED BY <1>1, <1>2, <1>3, <1>4, <1>5, <1>6, <1>7, <1>8, <1>9, <1>10, <1>11, <1>12, <1>13 DEF SpaceNext

\* Whose each frame is and what is in it, at every step of loading, running and
\* releasing an image (user_space.c, user_image.c, pmm.c).
THEOREM SpacesInvariant == ASSUME MemorySound PROVE SpaceSpec => []SpacesInv
<1>1. SpaceInit => SpacesInv BY SpaceInitHolds
<1>2. SpacesInv /\ [SpaceNext]_spaceVars => SpacesInv' BY SpaceStepKeeps
<1> QED BY <1>1, <1>2, PTL DEF SpaceSpec

\* A program has its frames to itself, from the pool and back: none leaks, none
\* is used twice, and nothing passes from one owner to the next (new_frame,
\* ku_destroy and the failure path of ki_load).
THEOREM FramesStayOwned == ASSUME MemorySound PROVE SpaceSpec => []FramesOwned
<1>1. SpacesInv => FramesOwned BY DEF SpacesInv
<1> QED BY <1>1, SpacesInvariant, PTL

\* In ring 3 the tables hold every entry of the kernel, and executable pages
\* the code that was loaded (ku_refresh, ku_map, ku_check).
THEOREM TablesStayCurrent == ASSUME MemorySound PROVE SpaceSpec => []RunsOnCurrentTables
<1>1. SpacesInv => RunsOnCurrentTables BY DEF SpacesInv
<1> QED BY <1>1, SpacesInvariant, PTL
=============================================================================
