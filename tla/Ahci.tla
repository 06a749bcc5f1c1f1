--------------------------------- MODULE Ahci ---------------------------------
(***************************************************************************)
(* A SATA disk behind the polled AHCI driver: kernel/ahci.c, the calls of  *)
(* kernel/blk.c that reach it, and the FAT operation above, which holds    *)
(* the write lease.                                                        *)
(*                                                                         *)
(* The controller works by itself: it moves the data between the pinned    *)
(* buffer and the medium at any time after a command was issued, also      *)
(* after the driver gave up on it, unless the engine could be stopped.     *)
(* The user may change the disk; the port latches that.  A look at the     *)
(* latch and the issue that follows are one step: a disk is not changed    *)
(* between two instructions.                                               *)
(***************************************************************************)
EXTENDS Integers, Sequences, FiniteSets

CONSTANTS
    Engines,          \* ports whose engine the firmware left running
    Media, Home,      \* disks; the one identified at boot
    SECTORS, Values, Blank,
    MaxEpoch, MaxFaults, MaxSwaps

VARIABLES
    phase, firmware, master,  \* ahci_init: where it is, engines not stopped, bus mastering
    medium, latch,    \* the disk in the port, or "none"; IO_ERRORS and a lost link
    content,          \* what the media hold
    port,             \* [fenced, generation, allowed, extent]
    epoch,
    call, todo,       \* the call in progress and the sectors it has left
    data, flight,     \* the pinned buffer; the command issued, or None
    mount,            \* the generation the FAT volume was mounted at, or 0
    asked,            \* history: sector -> what was asked to be written there
    faults, swaps

vars == <<phase, firmware, master, medium, latch, content, port, epoch, call, todo, data, flight, mount, asked, faults, swaps>>
init == <<phase, firmware, master>>
user == <<medium, latch, swaps>>

Sectors == 1 .. SECTORS
None == [op |-> "none", sector |-> 0, done |-> FALSE]
Fenced(p) == [p EXCEPT !.fenced = TRUE, !.allowed = FALSE, !.generation = 0]
Ready == phase = "ready"

-----------------------------------------------------------------------------
\* ahci_init: bus mastering is off while the engines are stopped, and back on
\* only when every one of them is.
NoMaster == phase = "handoff" /\ master' = FALSE /\ phase' = "quiesce" /\ UNCHANGED firmware
StopEngine == phase = "quiesce" /\ \E e \in firmware : firmware' = firmware \ {e} /\ UNCHANGED <<phase, master>>
QuiesceFailed == phase = "quiesce" /\ firmware # {} /\ phase' = "skipped" /\ UNCHANGED <<firmware, master>>
Master == phase = "quiesce" /\ firmware = {} /\ master' = TRUE /\ phase' = "ready" /\ UNCHANGED firmware
AhciInit ==
    /\ NoMaster \/ StopEngine \/ QuiesceFailed \/ Master
    /\ UNCHANGED <<user, content, port, epoch, call, todo, data, flight, mount, asked, faults>>

\* The user pulls the disk and plugs one in.
Swap ==
    /\ Ready /\ swaps < MaxSwaps /\ swaps' = swaps + 1 /\ latch' = TRUE
    /\ medium' \in (IF medium = "none" THEN Media ELSE {"none"})
    /\ UNCHANGED <<init, content, port, epoch, call, todo, data, flight, mount, asked, faults>>

-----------------------------------------------------------------------------
Linked == medium # "none" /\ ~latch
\* ahci_generation: the look that fences.
Looked(p) == IF p.fenced \/ Linked THEN p ELSE Fenced(p)

\* The failure of a command: the port stays fenced until reboot, and the
\* engine may not stop.
AhciFail ==
    /\ port' = Fenced(port) /\ call' = "idle" /\ todo' = <<>>
    /\ flight' \in {flight, None}

\* ahci_transfer.
WriteLeased(s) == port.allowed /\ s \in port.extent
Transfer(op, list) ==
    /\ Ready /\ call = "idle" /\ port' = Looked(port)
    /\ IF port'.generation # 0 /\ (op = "write" => \A k \in DOMAIN list : WriteLeased(list[k].sector))
       THEN call' = op /\ todo' = list
       ELSE UNCHANGED <<call, todo>>
    /\ asked' = [s \in Sectors |-> asked[s] \cup
                    {list[k].value : k \in {k \in DOMAIN list : call' = "write" /\ list[k].sector = s}}]
    /\ UNCHANGED <<init, user, content, epoch, data, flight, mount, faults>>
\* ahci_sync.
AhciSync ==
    /\ Ready /\ call = "idle" /\ port' = Looked(port)
    /\ IF port'.generation # 0 /\ port.allowed
       THEN call' = "flush" /\ todo' = <<[sector |-> 0, value |-> Blank]>> ELSE UNCHANGED <<call, todo>>
    /\ UNCHANGED <<init, user, content, epoch, data, flight, mount, asked, faults>>

\* Mutant: a command clears the latch and looks at the medium only.
IssueClears ==
    /\ call # "idle" /\ flight = None
    /\ IF medium # "none"
       THEN /\ flight' = [op |-> call, sector |-> Head(todo).sector, done |-> FALSE]
            /\ data' = IF call = "write" THEN Head(todo).value ELSE data
            /\ latch' = FALSE
            /\ UNCHANGED <<port, call, todo>>
       ELSE AhciFail /\ UNCHANGED <<data, latch>>
    /\ UNCHANGED <<init, medium, swaps, content, epoch, mount, asked, faults>>

\* ahci_command up to the issue: the completions are cleared, the latch is not.
Issue ==
    /\ call # "idle" /\ flight = None
    /\ IF Linked
       THEN /\ flight' = [op |-> call, sector |-> Head(todo).sector, done |-> FALSE]
            /\ data' = IF call = "write" THEN Head(todo).value ELSE data
            /\ UNCHANGED <<port, call, todo>>
       ELSE AhciFail /\ UNCHANGED data
    /\ UNCHANGED <<init, user, content, epoch, mount, asked, faults>>

\* The controller carries the command out; a lost link ends what it had begun.
Controller ==
    /\ flight # None /\ ~flight.done /\ Linked
    /\ flight' = [flight EXCEPT !.done = TRUE]
    /\ content' = IF flight.op = "write" THEN [content EXCEPT ![medium][flight.sector] = data] ELSE content
    /\ data' = IF flight.op = "read" THEN content[medium][flight.sector] ELSE data
    /\ UNCHANGED <<init, user, port, epoch, call, todo, mount, asked, faults>>

\* The poll sees the slot clear, or an error, a lost link or its deadline.
Completed ==
    /\ call # "idle" /\ flight # None /\ flight.done /\ Linked
    /\ flight' = None /\ todo' = Tail(todo)
    /\ call' = IF Len(todo) = 1 THEN "idle" ELSE call
    /\ UNCHANGED <<init, user, content, port, epoch, data, mount, asked, faults>>
Failed ==
    /\ call # "idle" /\ flight # None
    /\ \/ ~Linked /\ UNCHANGED faults
       \/ faults < MaxFaults /\ faults' = faults + 1
    /\ AhciFail
    /\ UNCHANGED <<init, user, content, epoch, data, mount, asked>>

-----------------------------------------------------------------------------
Idle == Ready /\ call = "idle"
\* ahci_rescan: a new generation, no lease; then the volumes are mounted again.
AhciRescan ==
    /\ Idle /\ epoch < MaxEpoch
    /\ LET p == [Looked(port) EXCEPT !.allowed = FALSE] IN
        IF p.generation # 0
        THEN epoch' = epoch + 1 /\ port' = [p EXCEPT !.generation = epoch'] ELSE port' = p /\ UNCHANGED epoch
    /\ mount' = 0
    /\ UNCHANGED <<init, user, content, call, todo, data, flight, asked, faults>>
FatMount ==
    /\ Idle /\ mount = 0 /\ port' = Looked(port) /\ port'.generation # 0
    /\ mount' = port'.generation
    /\ UNCHANGED <<init, user, content, epoch, call, todo, data, flight, asked, faults>>
\* write_begin: ahci_fat_authorize at the generation of the mount; write_end
\* revokes.
Authorize(extent) ==
    /\ Idle /\ mount # 0
    /\ LET p == [Looked(port) EXCEPT !.allowed = FALSE] IN
        port' = IF p.generation = mount THEN [p EXCEPT !.allowed = TRUE, !.extent = extent] ELSE p
    /\ UNCHANGED <<init, user, content, epoch, call, todo, data, flight, mount, asked, faults>>
Revoke ==
    /\ Idle /\ port.allowed /\ port' = [port EXCEPT !.allowed = FALSE]
    /\ UNCHANGED <<init, user, content, epoch, call, todo, data, flight, mount, asked, faults>>

Lists == UNION {[1 .. n -> [sector : Sectors, value : Values]] : n \in 1 .. 2}
Consecutive(list) == \A k \in DOMAIN list : list[k].sector = list[1].sector + k - 1

Init ==
    /\ phase = "handoff" /\ firmware = Engines /\ master = TRUE
    /\ medium = Home /\ latch = FALSE
    /\ content = [m \in Media |-> [s \in Sectors |-> Blank]]
    /\ port = [fenced |-> FALSE, generation |-> 1, allowed |-> FALSE, extent |-> {}]
    /\ epoch = 1 /\ call = "idle" /\ todo = <<>> /\ data = Blank /\ flight = None
    /\ mount = 0 /\ asked = [s \in Sectors |-> {}] /\ faults = 0 /\ swaps = 0

Next ==
    \/ AhciInit \/ Swap \/ AhciSync \/ Issue \/ Controller \/ Completed \/ Failed
    \/ AhciRescan \/ FatMount \/ Revoke
    \/ \E list \in Lists : Consecutive(list) /\ Transfer("write", list)
    \/ \E s \in Sectors : Transfer("read", <<[sector |-> s, value |-> Blank]>>)
    \/ \E a \in Sectors : Authorize(a .. SECTORS)

Spec == Init /\ [][Next]_vars
-----------------------------------------------------------------------------
\* Memory is the driver's when the controller writes to it, and a sector gets
\* what was asked for it or nothing (ahci_init, ahci_fail, ahci_transfer):
\* no engine of the firmware runs once the driver enabled bus mastering, a
\* command that failed and still ends late finds its own data in the buffer,
\* and nothing reaches a disk other than the one the lease was given for.
DmaOwned ==
    /\ Ready /\ master => firmware = {}
    /\ \A m \in Media, s \in Sectors :
        content[m][s] # Blank => m = Home /\ content[m][s] \in asked[s]
=============================================================================
