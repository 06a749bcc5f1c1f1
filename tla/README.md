# KvantOS: TLA+ models, model checking and proofs

KvantOS is a 32-bit x86 operating system written in C: a preemptive kernel with a
graphical desktop, its own storage stack (ATA, AHCI, USB mass storage; KvFS, FAT,
NTFS read-only), two text editors, a file manager, a C compiler, and isolated ring-3
applications. This directory models the parts of it whose correctness depends on the
order in which things happen: what is on a disk when the power goes, what an interrupt
finds half done, what a callback or an event finds that has changed since it was asked
for.

## 1. The system and its parts

| Part | State it keeps | Operations | What is hard | What makes it correct | Modules |
|---|---|---|---|---|---|
| `sector_tx.c` undo log | on disk: header, backup sectors, metadata sectors; in RAM: records, `active`, `failed`, `closing` | format, recover, begin, write, commit, abort | power loss at any command, reordering cache, failed writes, torn sectors, recovery interrupted | a recovered image is the old one or the whole new one | `SectorTx`, `AtomicDisk` |
| `fat.c`, `fat_wal.h`, `fat_meta.h` | volume lease, `fenced`, FAT and directory sectors, metadata cache, the log's place | mount, create, write, delete, mkdir, names, taking the log into use | every call is several commands; a failed call must be undone; a log that belongs to another file | chains whole and disjoint; unlogged bodies only in free clusters; a log is used only where its volume owns it | `FatFiles`, `FatDir`, `Wal` |
| `kvfs.c` | superblock, 64 directory entries on disk and in RAM, `mounted` | mount, format, write, read, delete, rename | power loss or failed write between body and directory; RAM copy stale after an unknown outcome | a file is its old contents or its new contents | `Kvfs`, `FileStore` |
| `vfs.c`, `vfs_native.c`, `ramfs.c` | mount table, namespace generation, RAM files | resolve, read, write, rename, remove, mkdir, list, rescan | a listing or a save continued over a changed table | a stale handle is refused | `Volumes` |
| `usb.c`, `usb_bot.c`, `usb_hub.h`, `ahci.c`, `blk.c` | device tables, enumeration generations, write leases, read cache, fences | rescan, read, write, authorize, revoke | unplugging while a lease is held; a cache that outlives its medium; a controller that moves data late | a write reaches only the medium and range that was authorized | `UsbLease`, `UsbEnum`, `Ahci` |
| `sched.c`, `timer.c` | ring of tasks, `current`, states, wake times | create, yield, sleep, exit, kill, reap, tick | preemption between any two statements; freeing a stack in use | a switch goes only to a live, ready task; dead tasks are freed once | `Sched` |
| `heap.c`, `pmm.c`, `paging.c`, `user_space.c` | block list, frames, page tables, pins | kmalloc, kfree; load, map, pin, copy, destroy | merges, exhaustion in the middle of a load; kernel tables that grow under a running space | every frame has one owner; a space runs on current tables | `Heap`, `Spaces` |
| `user_mode.c`, `user_service.c`, `kapp.c` | loaded application, handles, event queue, recorded drawing | load, event, tick, kill, unload, system calls | a fault or kill in the middle of a call; stale handles; queue overflow; runaway slices | nothing of one application survives into the next; a busy one is not unloaded | `UserApp`, `UserService`, `Programs` |
| `mcc.c` | tokens, types, emitted code | compile, run | precedence, scaling of pointers, jumps patched later | a program returns what C says | `Compiler` |
| `textedit.c`, `gui_editor_*.h` | text, undo and redo, revisions, the saved target, dialogs | insert, erase, undo, redo, open, save, exit | history that evicts; a dialog answered after the medium changed | undo restores; "saved" means stored; a save goes where it was named | `TextEdit`, `Editors` |
| `filemgr.c` | two listings, one question | open, copy, delete, rename, mkdir | a question answered after the listing changed | an order does what was asked | `FileMgr` |
| `gui.c` | windows, stacking, damage, modes, the program store | drag, open, close, draw, change resolution, erase | a partial redraw; an allocation that fails in a mode switch | what is shown is current; what is clicked is what is shown; a way back from a mode | `Damage`, `Modes`, `Programs` |
| `keyboard.c`, `mouse.c`, `keymap.c` | one output buffer, event ring, modifiers, synthetic button | IRQ handlers, poll, LED exchange | two handlers and a poll read one buffer | a key arrives once, in order | `Input` |
| `ntfs.c` | run lists of a mounted volume | mount, read, list | torn records, extension records, sparse and uninitialised data | a read is what the volume holds | `Ntfs` |
| `partition.c` | volumes of a disk | scan | wrapping sizes, loops, damaged tables | a volume lies within its disk | `Partitions` |
| `shell.c`, `utilcmds.c` | line, history, current directory | commands | reports of what was not done | what is said is what happened | `Shell` |
| `setup.c` | step of the installation | install | a failure or power loss at any command | "done" means it boots; kept files are kept | `Setup` |
| `ata.c`, `usb_ehci.c` and the other host controllers, `settings.c`, the storage laboratories, `fb.c`, `vbe.c`, `pci.c`, `gdt.c`, `idt.c`, `boot/`, `sdk/`, `tools/`, `tests/` | hardware registers, pixels, files of the host | - | - | - | not modelled (section 6) |

How the parts meet. The shell and the desktop run as tasks under `sched.c`, preempted by
`timer.c`. Programs reach files through `vfs.c`, which dispatches to `kvfs.c`, `fat.c`,
`ramfs.c` or `ntfs.c`; `fat.c` makes every change a transaction of `sector_tx.c` and asks
`usb.c` or `ahci.c` for a write lease around it; `user_mode.c` runs one isolated
application at a time on behalf of the desktop's callbacks and lends it the private files
of `user_service.c`.

The hard behaviours, in the order in which they can lose data or hang the machine:

1. a power loss, a refused command or a command with an unknown outcome between any two
   device commands (`sector_tx.c`, `fat.c`, `kvfs.c`, `setup.c`);
2. a disk exchanged behind a cache, a mount or a lease (`usb.c`, `ahci.c`, `fat.c`);
3. preemption between any two steps of a task, with tasks dying and being freed
   (`sched.c`);
4. an application that faults, overruns its slice, or is closed while an event, a drawing
   or a file call is half done (`user_mode.c`, `user_service.c`, `kapp.c`);
5. a bounded history that evicts, and a saved marker that must survive undo, failed saves
   and exchanged storage (`textedit.c`, `gui_editor_state.h`);
6. the one output buffer that two interrupt handlers and a poll read, and confirmations
   answered after the listing behind them changed (`keyboard.c`, `mouse.c`, `filemgr.c`).

`PROJECT.json` lists the hazards at their lines, each with the properties that would
catch it. One has none: the `kill` command walks the task ring with interrupts enabled
(`utilcmds.c:491`), and a switch on the way may free the task it stands on.

## 2. Plan

All of the modules below exist. They are listed by group; the modules of a group are
checked by one run, from its MC module.

| Group | Modules | Composition and refinement |
|---|---|---|
| disks | `SectorTx`, `AtomicDisk`, `SectorTxInv`; `FatDir`; `Wal`; `Ntfs`, `NtfsDrives`; `Partitions`, `PartitionDisks`; `MCDisks` | `SectorTx` implements `AtomicDisk`; `NtfsDrives` and `PartitionDisks` hold the volumes that are tried |
| scheduler | `Sched` | - |
| stores | `Kvfs`, `FileStore`; `Volumes`; `Setup`, `Shell`, `Editors`; `MCKvfs` | `Kvfs` implements `FileStore`; `Setup` extends `Kvfs`; `Shell` and `Editors` extend `Volumes` |
| fat | `FatFiles`; `FileMgr`; `TextEdit`; `MCFat` | `FatFiles` implements `FileStore` and rests on what `AtomicDisk` promises; `FileMgr` extends `Volumes` |
| devices | `UsbLease`; `Ahci`; `UsbEnum`; `Heap`; `Spaces`; `Damage`; `UserService` alone; `MCDevices` | - |
| programs | `UserApp`, `UserService`, `Mailbox`; `Programs`; `Modes`; `Compiler`, `MCCompiler`; `Input`; `MCPrograms` | `UserApp` extends `UserService` and implements `Mailbox` |
| proofs | `SectorTxProofs`; `KvfsProofs`; `FatFilesProofs`; `VolumesProofs`; `UsbDeskProofs`; `DeviceProofs`; `UserAppNtfsProofs`; `KernelProofs` | each extends the module it is about; `SectorTxProofs` also `Partitions` and `Wal`, `FatFilesProofs` also `FatDir` and `TextEdit`, `UsbDeskProofs` both `UsbLease` and `Damage`, `KvfsProofs` also `Setup`, `VolumesProofs` all of `FileMgr`, `Shell` and `Editors`, `DeviceProofs` all of `Ahci`, `UsbEnum` and `Spaces`, `UserAppNtfsProofs` both `UserApp` and `Ntfs`, `KernelProofs` all of `Sched`, `Modes`, `Programs`, `Input` and `Heap` |

What is left: in the models, the streaming readers of `fat.c`, mirror FATs at the level of
`FatFiles`, and several disks in `UsbLease`.

## 3. The models and the code

In every module an action is one handler, or the part of a handler between two points at
which something else can happen (a device command, a point at which the timer interrupt
can preempt, a return to the caller). `PROJECT.json` "map" gives the lines of each
definition. Contents of sectors, files and texts are model values. An operation that can
end in several ways, all of them decided by the outside, is an operator that yields the
set of its outcomes (`Volumes`, `Editors`).

### SectorTx: the undo log (`kernel/sector_tx.c`)

The device is three arrays as a read returns them (`tgt`, `slot`, `hdr`) and, for each of
them, the set of values a power loss may leave (`tposs`, `sposs`, `hposs`): a write adds a
value to the set, a barrier collapses it. A failed write leaves the device undecided, so
it adds the value without promising it. `log`, `active`, `failed`, `closing` are the
fields of `sector_tx_t`. `pc` names the next device command: `stx_begin` is `StxBegin`,
`OpenWrite`, `OpenBarrier`; `stx_write` is `StxWriteNew`, `BackupWrite`, `BackupBarrier`,
`IndexWrite`, `IndexBarrier`, `TargetWrite`; and so on for commit, abort, recovery and
format. The clients (`fat.c`, `write_begin` and `write_end`) supply the discipline around
it: a failed begin, abort or recovery fences the volume, and a fenced volume accepts
nothing until it is mounted again. `base`, `want` and `point` are history variables: the
image before the open transaction, the image it builds, and whether the commit has begun.

A detail worth knowing: when `stx_begin` itself has to recover an active log
(`sector_tx.c:100-107`), the recovery's closing flag (`:142`) stays set in the new
transaction. All its writes are refused, the abort is refused too, and the volume is
fenced. This fails closed, and `fat.c` never meets it, because the mount recovers first;
the model contains it.

`AtomicDisk` is the promise: the set of whole images a recovery may still produce is one
image; two while a commit is undecided; or none, when a damaged journal makes the mount
refuse. `ImplementsAtomicDisk` maps `RecoverableImages` to that set.

### Sched: tasks and the timer (`kernel/sched.c`, `kernel/timer.c`)

The circular list is the function `nxt`; `alloc` is the set of task slots that exist.
A task's position in its own program is `pc` (running, asleep before or inside
`schedule`, exiting). `task_create`, `task_yield`, `task_kill`, `schedule`, `reap_one`
and `pick_next` run with interrupts off and are single actions. `task_sleep` and
`task_exit` are split where they enable interrupts, and the tick may arrive in between.
`leftover` is a task's wake time minus now, so time needs no counter. `ring3` says that the
interrupted code is an isolated application, which the tick does not preempt
(`user_mode.c:130-135`). `REAP_LIMIT` and `TURN_LIMIT` are the scan limits of `reap_one`
and `pick_next`.

### Kvfs (`kernel/kvfs.c`) and FileStore

`dsk` is the directory on the device, `dir` its copy in RAM, `body` the data sectors,
`super` whether the superblock is there. Each `ata_write` of a file body and of a
directory sector is a step, and can fail with or without effect; a failure while the
directory is being written withdraws the volume (`mounted`). A directory sector is not
torn: the code's own assumption (`kvfs.c:233-234`). `FileStore` is the promise to callers,
stated once for both writable disk file systems: a call that succeeds took effect; one
that fails had no effect, or had its whole effect and then the volume is withdrawn; a
power loss decides a pending call one way or the other. An interrupted format may keep
some of the old files, each whole. Placement is
`FindSpace`, the least start at which the extent fits; the loop of `find_space`, which
jumps past what it runs into, is `FindSpaceLoop` in `MCKvfs`, and the assumption
`LoopIsFirstFit` says that the two agree for every directory of the small instance.

### FatFiles (`kernel/fat.c`, `kernel/fat_meta.h`)

`saved` is the image of the FAT, the directory entries and the initialised directory
blocks that a recovery restores; `meta` is the FAT in the metadata cache; `disk` is the
image as the open transaction reads it. That metadata changes all at once is what
`SectorTx` promises and is used here: `Commit` publishes `disk`, `Rollback` restores
`saved`, `CommitUnknown` leaves either and fences the volume. File bodies are not logged.
They are written directly to clusters, into a volatile cache (`body` against `platter`).
The code is correct because bodies go only to clusters free in the image a recovery may
restore, and that is `BodiesToFree`. `fat_write_impl` is split into `BodyStep` per
cluster, `BodySync`, `Publish`, `FreeOld` and `Commit`; every step has its failure
(`Fails`), after which the call gives up and rolls back.

Found while modelling: the explicit sync of bodies at `fat.c:1013` matters only without a
durable log, since the barrier that commits the log orders the bodies as well; the range
error of `fsinfo_adjust` cannot happen while the free count is exact.

### FatDir (`kernel/fat.c`): one directory, slot by slot

`slots` is the directory: ends, deleted entries, short entries and the fragments of long
names. `Assembled` is what `walk_dir` has of a long name after each slot, `Shown` how it
then reports an entry, and `Walk` all of them. `Create` writes a file's fragments and entry
into a run of free slots, growing the directory by a cluster where it may, `EraseEntry`
takes them away. `listed` is history: the names that should be there. What other systems
left behind the end, and fragments nobody owns, are in `Found`; `DirSound` says what these
may be (`Tidy`): parts of a whole long name of an entry that is there, or fragments whose
checksum is that of no name written here. A checksum has eight bits, so on a real volume an
orphan can have the checksum of a name by chance, and the name would then be read for a
short one written right behind it; the code has no defence against that, nor has the
format, and the model leaves it out.

### Wal (`kernel/fat_wal.h`): taking a volume's own log into use

The log is a file of the volume it protects, so before it may be written it must be shown
to belong to nobody else, and that both in the tables as they lie (`fats`, `entries`) and
in the volume as the log would restore it (`Overlaid`). The owner is the entry at one place
of the root (`WalOff`), as in the code, and the directories are walked in the order they
are found, to any depth (`Visited`). `LogMount` makes these checks and
the recovery, `FatWriteMode` turns the use of the log on and off, `Forget` is a shutdown.
The drives tried, `LogDrives` in `MCDisks`, are a sound volume and those that differ from it in one place:
a second owner, a cross link into the log, a lost chain that ends in it, copies that
disagree, a log that restores each of these.

### Ntfs and Partitions (`kernel/ntfs.c`, `kernel/partition.c`)

Both read what others wrote. In `Ntfs` a record is a set of units with the generation each
was written with (a torn record has units that disagree). What the volume means is told
apart from its layout: `truth` what the files hold, `entries` what the directories list,
`nodes` where a path leads. `NtfsMount`, `NtfsReaddir`, `NtfsRead` and `ListAgain`
follow run lists, attribute lists and index blocks to it, while any sector may fail.
`VolumeSound` says when a layout spells what the volume means. In
`Partitions` numbers wrap at `Word`; `VfsAutoscan` walks boot records, extended chains and
GPT headers with their backups, and mounts what the probes of `fat.c` and `ntfs.c` accept.

### Volumes (`kernel/vfs.c`, `kernel/vfs_native.c`, `kernel/ramfs.c`)

The component the programs are composed with. A volume is a name, a medium what lies
behind it; `Rescans` binds names anew and advances the generation. Each call takes a store
and yields its possible outcomes: `VfsRead`, `VfsWrite`, `VfsRemove`, `VfsRename`,
`VfsMkdir`, `VfsReaddir`, `VfsStat`, each with what the drivers promise (a RAM write may
lack memory and change nothing, a KvFS write may fail and withdraw the volume, a FAT
write may fail and fence it).

### FileMgr, Editors and Shell (`kernel/filemgr.c`, `kernel/gui_editor_*.h`, `kernel/shell.c`)

Clients of `Volumes`. `FileMgr` has two cached listings and one open question; an answer
is honoured only while the question's listing is current (`StillAsked`, `InputStands`).
`Editors` has for each of the two editors its document, its dialog and what it believes is
stored (`ram`, `kv`, `target`, each with the revision); `doubt` is a history field, set when
a write of that name to KvFS ended with an unknown outcome and never read by a guard; `Save`, `DestAccept`,
`ImportAccept` and `DeleteAccept` are what a dialog ends in, `DoPending` what waits behind
it. `Shell` reads a line (`Type`, `Arrow`, `CtrlC`), runs it (`Enter`) and says what came
of it (`told`); `Desktop` is what the other programs do in between. In all three another
program, a rescan or a remount may come between any two steps.

### Setup (`kernel/setup.c`)

Extends `Kvfs`: the boot sectors one by one, mounting or formatting, the files of the
boot medium one by one, with a failure or a power loss at any command and any number of
installations after one another.

### UserService (`kernel/user_service.c`) and UserApp (`kernel/user_mode.c`, `kernel/kapp.c`)

`svc` is `ku_service_t`: the current event and its token, drawing and text budgets, files
and handles. One action per system call, with the conditions that refuse it.
`UserApp` extends it with the application around it: `resident`, `generation`, the queue
of events, slices, the address space with its pin, and the recorder of drawing commands
with which `kapp.c` repaints a window. `pc` is "user" while the application runs in ring 3;
everything kernel-side runs with interrupts off and is one action. `ku_app_event` is
`Pump` (`Refresh` for draw and tick, which coalesce, and `Input` for keys and clicks); it
ends in `Complete`, `FinishYielded`, `Stop`, or goes on by `Again`. Files may be used
only while a slice is running.

`Mailbox` is what an application is promised of its window: requests wait while one is
served; of repaints and of ticks one waits at most, the tick standing for all the time that
passed up to 250 ms; keys and clicks all wait and are served in order; nothing is lost but
with the application. `ImplementsMailbox` maps the queue to what waits (`Box`) and the
pending event to what is served. It depends on the array of `ku_app_event`: on the search
for the entry to merge with, on what a merged tick adds, on the end of the queue, and on
the reset when one application follows another. It leaves the order between the kinds
open, and says nothing of coordinates.

### Programs (`kernel/gui.c`, `kernel/kapp.c`)

The loader with the guard around trusted callbacks, the windows of the one loaded program,
and the Programs window with its erase dialog, which remembers what it asked about.

### Modes and Damage (`kernel/gui.c`, `kernel/vbe.c`, `kernel/fb.c`)

`Modes` takes `mode_switch_buffered` apart at its allocations: reserve, ask the adapter,
widen, adopt or restore, with other tasks allocating in between, and the undo of a mode
nobody confirms. `Damage` keeps the windows, their order, the damage list and the
clickable areas of the last frame on a small grid; `stale` is history: the cells that
show something else than when they were drawn. Of the areas of a window it keeps how many
are in the one list, which `hit_add` (`gui.c:144-146`) fills up to `MAX_HIT` = 96 and then
drops in silence (`Draw`, `HitsAfter`). Windows are drawn from the lowest up, so on a screen
whose windows have more areas than that between them the upper ones have areas that do not
answer: the file manager's window alone may have about 49. `HitsFollow` therefore says of
every area the list holds that it belongs to what is shown, and that the list refuses one
only while the windows in sight may ask for more than it takes (`crowded`): what was closed,
minimised or redrawn never fills it.

### Compiler (`kernel/mcc.c`)

Parser and code generator as recursive operators over tokens, the emitted code, and a
machine that runs it. `MCCompiler` has programs as trees, prints them with no more
parentheses than C needs, and evaluates them by the rules of C; compiled and run, each
must return that value.

### Input (`kernel/keyboard.c`, `kernel/mouse.c`, `kernel/keymap.c`)

The i8042 has one output buffer for both devices. `Irq1` and `Irq12` are the handlers,
`PollBegin`, `PollByte`, `PollEnd` the timer's fallback poll, `LedsCommand` the exchange
that reads the buffer itself, `TakeEvent` and `MoveTail` the desktop. On machines where
IRQ1 is not routed only the poll reads (`routed`).

### UsbLease (`kernel/usb.c`, `kernel/usb_bot.c`, `kernel/usb_hub.h`, `kernel/fat.c`, `kernel/vfs.c`)

One disk of the device table: its medium, its enumeration generation, whether it was found
dead, the write lease and its extent, the read cache. `port` is what is physically
plugged in, `changed` the port's or hub's change latch. `epoch` is the enumeration counter.
Every command asks the latch before and after (`Check`, `Send`, `Sent`, `Failed`), and the
stick may be exchanged at any moment. `mounts` are two `fat_vol_t`; `call` is the command
in progress. `WriteGate` can be called by anyone with any range, because `blk_write` has
other callers than `fat.c`. `gone` and `late` are history variables for stating when a
command belongs to the medium it was addressed to.

### Ahci (`kernel/ahci.c`)

The controller is an actor of its own: once a command was issued (`Issue`) it may move the
data at any later time (`Controller`), also after the driver gave up (`Failed`), unless
stopping the engine worked. `port` is the port's entry with its lease and its fence,
`flight` the command at the controller, `data` the pinned buffer, `asked` history: what was
asked to be written to each sector.

### UsbEnum (`kernel/usb.c`, `kernel/usb_hub.h`)

`usb_rescan`: the pass that disables every root port, then the recursion over hubs, kept
as a stack. A device that was just reset answers at address zero (`address`), and two that
answer at one address are indistinguishable. Who can answer at all (`Answering`) is what hangs
from enabled ports. Devices are pulled and plugged (`Pull`, `Plug`) and requests fail, with
or without effect, between any two steps. What hangs below a hub is a least set
(`Hanging`): a hub that is pulled takes the power, and so the address and the enabled
ports, from everything below it.

### Heap and Spaces (`kernel/heap.c`, `kernel/pmm.c`, `kernel/user_space.c`, `kernel/paging.c`)

`Heap` has each block under the address of its header, with the fields of `block_t`:
`Kmalloc` takes the first that fits and splits it (`Split`, `Taken`), `Kfree` gives one back
and merges what follows and then what precedes (`Freed`, `Absorb`, `Merge`). `asked`, a
history variable, is what each holder asked for. On i386 headers have 20 bytes, so every
second block begins at an address that is no multiple of eight; nothing in `Heap` depends on
that, but `heap_stats` stops counting before the first such block.
`Spaces` loads an image page by page (`KiLoad`, `Table`, `KuMap`, `KuLoad`), each step of
which may find no frame (`LoadFails`); meanwhile the kernel maps devices (`PagingMap`),
which a space learns only by `ku_refresh`, and others take and give back frames. A frame
keeps where its bytes come from.

### TextEdit (`kernel/textedit.c`, `kernel/gui_editor_state.h`)

A text is a sequence of characters, the caret and the anchor are offsets. `undo` is
`textundo_t`: the changes with a cursor between those to undo and those to redo, each with
its two marks (caret, anchor, revision), and their bytes.
`Replace` is the single primitive of the code: it drops what could be redone (`Branched`), evicts the
oldest changes while the history is too long or too large (`Evicted`), and takes a new
revision; at the end of the revision counter the history is reset. `TextReplaceAll` is one
change. `StorageChanged` is what happens when a save fails or the storage is exchanged:
the saved marker moves to a revision nobody has. `seen` and `stored` are history
variables: the text at each revision, and the text last saved or loaded.

## 4. The runs

The components that do not share state are checked in groups. An MC module extends one
component and instantiates the others over spare variables; its variable `scene` is
chosen by the initial state and says which component runs, alone, in that behaviour. A
run of a group is therefore the union of the runs of its components, with one
configuration. State predicates of an instance are guarded by its scene.

| Run | Module | Scenes and questions | States |
|---|---|---|---|
| `disks` | `MCDisks` | `cache`: over a cache that reorders, with two faults of any kind, is every instant recoverable to the old or the whole new image (`CrashAtomic`); is a mount never refused (`NeverRefused`); is nothing written once the log may be closed (`CloseIsFence`); does the log implement the all-or-nothing store (`ImplementsAtomicDisk`); does repeated recovery end (`RecoveryConverges`)? `ram`, `torn`: without a journal does a rolled back failure leave the old image; does the inductive invariant of the proofs hold with torn sectors and headers (`LogVariantsSafe`)? `dir`: does a directory list exactly its files (`DirectoryListsFiles`)? `wal`: is a volume shown only whole, and a log used only where it belongs (`LogIsItsOwn`)? `ntfs`: are reads and listings what the volume holds (`NtfsTrue`)? `scan`: are volumes mounted inside their disk and as a valid GPT says (`VolumesWithinDisk`)? | 284 k |
| `sched_ring` | `Sched` | Is the list always one ring of exactly the existing tasks (`OneRing`), is a freed stack never in use (`FreedNotInUse`), does a sleep never end early (`SleepLasts`)? | 2.2 M |
| `sched_live` | `Sched` | Do ready tasks run, sleepers wake, dead tasks get freed (`EverybodyServed`)? | 15 k |
| `stores` | `MCKvfs` | `kvfs`: does KvFS implement `FileStore`; is the copy in RAM never stale (`RamMatchesDisk`); does a valid disk stay mountable (`StaysMountable`)? `setup`: is "done" said only of a disk that boots, and does only the formatting take files away (`SetupSafe`)? `shell`: is what a command says what happened (`ShellHonest`)? `editors`: is what is called saved stored, and only what was named written (`EditorsKeepText`)? `remount`, `keeping`: the same with KvFS lost and mounted again, and of an imported text saved to the RAM disk and then kept. | 0.99 M |
| `fat` | `MCFat` | `fat`: does FAT implement `FileStore`; is every recoverable image consistent and no directory reachable before its block is initialised (`VolumeConsistent`); do unlogged bodies go only to free clusters (`BodiesToFree`)? `manager`, `shared`: does the file manager do what was asked, on the medium that was listed (`ActsAsAsked`)? `text`, `history`: do undo and redo restore exactly the text that was there, and is a text called clean the one stored (`TextTrue`)? | 589 k |
| `devices` | `MCDevices` | `lease`: is the write lease held only inside an operation (`LeaseOnlyInOperation`), and does every transfer reach the medium it was meant for (`TransfersOwnMedium`)? `ahci`: does a controller that ends late find its own data (`AhciOwned`)? `usb`: does one device answer at one address (`BusOwned`)? `heap`, `spaces`: is every byte and every frame somebody's, once (`MemoryOwned`)? `desktop`: is what is shown current, and what can be clicked what is shown (`DesktopTrue`)? `service`: are references to files exact and stale handles stale (`ServiceFilesTrue`)? | 1.02 M |
| `programs` | `MCPrograms` | `app`: do the layers agree on what is loaded (`LayersAgree`); are inputs delivered once and in order, and drawings the application's own (`InputAndDrawingOwn`); does the queue of events keep what an application is promised (`ImplementsMailbox`); is a runaway application stopped (`RunawayStopped`)? `store`: does a crashed program stay out, and is only what was asked about erased (`StoreWindowsSafe`)? `modes`: does the buffer fit the mode, and the undo lead back (`ModesSafe`)? `compiler`: `ComputesAsWritten`. `typing`: does a key arrive once, and the controller never get stuck (`KeysArrive`)? | 687 k |

The runs `disks_streams`, `stores_keep`, `stores_copy`, `stores_exit` and `stores_status`
each find one statement of the documentation violated (section 7).

Every property has a mutant in `PROJECT.json`: a plausible mistake in a mapped definition
under which TLC finds that property violated in the same run. The mutated forms stand
beside the definitions they mutate, above them, and are used nowhere else.

### Bounds, and why they are enough

- **SectorTx**: two targets, two or three sector values, a log of 2 records (1 in `torn`,
  so that the log overflows). Two faults: one to break a call and one to
  break the recovery from it. The recovery is the same whatever broke it, so a third fault
  repeats the second. Data and header tears are parameters of the `torn` scene, since a
  torn header changes what a mount may do. The proofs need none of these bounds.
- **FatDir**: four names, three of which share six characters; directories of up to eight
  slots in clusters of two, which reach growth, reuse of a hole and the fixed root.
- **Wal**: five clusters, drives that differ from a sound one in at most one place, one
  failed command. **Ntfs**: one volume with records smaller than a cluster and one with
  larger ones, the latter sound or torn in its file's record or its directory's block; one
  failing sector. **Partitions**: 80 sectors, words modulo 256, so that sums wrap; every
  table shape with one defect, one failing sector.
- **Sched**: kernel, idle and two workers in `sched_live`, three in `sched_ring`, so that dead
  tasks can be behind the current one, at it and ahead of it at once. Sleeps of zero and of
  a few ticks at 500 Hz, where rounding matters. `sched_ring` sets the scan limits (2 and 3)
  below the length of the ring so that they bite; `sched_live` sets them at 4. Where the
  ring is longer than `pick_next` looks (256 tasks in the code, 3 in `sched_ring`) it can
  miss a ready task, and a sleep may end early; `SleepLasts` therefore speaks of rings it
  can turn. Nothing in the shell limits the number of tasks.
- **Kvfs**: two names, two contents (one and two sectors), four sectors, two directory
  sectors of two entries: enough for fragmentation, a full directory and a full disk.
  **Setup** over it: media that fit and a loader that is too large, one fault.
- **Volumes** under the shell, the editors and the file manager: a RAM store, KvFS and one
  port at which either of two disks is found, two or three paths, one rescan or two. The
  work is split into menus and budgets, since the products of independent orders say
  nothing new. The editors have a scene without a FAT disk (`remount`), in which KvFS is
  lost and mounted again while a document is open, and one (`keeping`) that leads from an
  import over a Save As into the RAM disk to a Keep that fails half-way: the notepad alone,
  with no name typed, nothing opened, deleted or discarded, nothing written to the disk.
- **FatFiles**: four clusters, one entry per directory cluster, a file in the root, a
  directory, a file in it; contents of zero, one and two clusters. A directory grows on
  its second entry; the volume fills. Two faults, for a failed call and a failed rollback.
- **TextEdit**: one column, one or two history steps and four bytes, three or four
  revisions, so that capacity, line length, both eviction limits and the wrap of the
  counter are all reached. A selection may start at `Anchors`; input characters are a tab
  (which expands), a newline, a carriage return and an unprintable one.
- **UserService, UserApp**: identifiers that the code counts in 32 bits stop at
  `TOKEN_MAX`, `HANDLE_MAX`, `GENERATION_MAX` (the code refuses on wrap); two
  generations are one application after another. Queue of 2 behind the pending event,
  slice of 2 ticks, two slices, three distinguishable inputs; the files' contents are the
  subject of `service`.
- **UsbLease**: two media of two sectors, two mounts, two enumerations (`MaxEpoch`), one
  failed command, behind a hub. One sector per command and uniform initial contents of
  each medium bound the initial states. Media and mounts are interchangeable, which
  `Symmetric` uses; the properties of this run are safety only.
- **Ahci**, **UsbEnum**: two media, two swaps and one fault; a hub below a hub, two moves,
  two faults, two scans. **Heap**: 180 bytes, room for four blocks, and a request
  whose rounding up would wrap. **Spaces**:
  seven frames, one of them above the limit of direct mapping, two images. **Damage**: six
  by five cells, two windows, a list of two rectangles, so that merging and the cap occur;
  two areas in the hit list, and windows that ask for none to two.
- **Programs**, **Modes**, **Input**: one program of each kind and two windows; three modes
  of which two may be widened, nine units of memory; a ring of three, polls of two bytes,
  four scripts.

Deadlock is checked in the scheduler's runs. In the groups it is not: with the bound on
identifiers, revisions or faults used up, a program that only waits for its user has
nothing to do.

### Fairness

- Scene `cache` (`SectorTx!FairSpec`): `WF(Step)`, the code goes on to its next command,
  and `WF(StxRecover)`, a mount is retried. Power losses and failures are bounded and not
  fair.
- `Sched!FairSpec`: `WF(Tick)`, the timer interrupts; `WF(LeaveRing3)`, an isolated
  application's slice is bounded (`user_mode.c:130-135`); `WF(SleepSchedule)` and
  `WF(ExitLoop)`, straight-line code continues; `SF(KernelYields)`, the desktop's main loop
  yields on every turn (`gui.c:3080-3096`), strong because the tick disables it
  again and again. Tasks other than the kernel are not assumed to yield. The liveness
  properties assume `CreationEnds`: a shell that creates tasks forever can postpone a
  given one's turn, since a new task is linked in right behind the current one.
- Scene `app` (`UserApp!FairSpec`): `WF(Tick)` and `WF(Refresh("tick", 0))`, because the
  desktop's loop sends a tick to every application window (`gui.c:1324`).
- Scene `typing` (`Input!Spec`): `WF` of the poll's three steps, since the timer
  interrupts, and of `Irq12`, since the processor serves what is latched.

Everything else is safety and assumes no fairness.

## 5. The proofs

`tlapm` checks the theorems of eight modules, each for every value of the constants.
Nothing is assumed but the types and ranges of the constants (the named assumptions of
`SectorTx`, `Sched`, `Kvfs`, `FatFiles`, `UsbLease`, `UserService` and `UserApp`,
`WellSized` of `Modes`, `MediaOK` of `Setup`, `ShellSound` of `Shell`, `EditorsSound` of
`Editors`, `TreeSound` of `UsbEnum`, `MemorySound` of `Spaces`, `DisksSound` of `Partitions`,
`VolumesSound` of `Wal`, `HeapSound` of `Heap`, `TextSound` of `TextEdit`, `DesktopSound`
of `Damage` and `DirSound` of `FatDir`), which TLC evaluates in the runs of these modules.

**Undo log.** `TypeCorrect` (`SectorTxProofs`) is the type invariant. `CrashAtomic` is not
inductive: it says what a recovery would find now, not why the next command keeps it so.
`IInv` (`SectorTxInv`) adds two things. *Media*: every sector that some header a power
loss may leave does not index can hold only what the image that header stands for has
there, and every sector it does index has that value in a backup that is already durable.
*Stages*: what is true between each two commands of a call: before `TargetWrite` the new
index is durable, during an undo the targets below `idx` are still to be restored, before
the closing header the targets are durable, and so on. `IInv` is checked by TLC in
the scene `torn`, with every fault enabled, and proved in `SectorTxProofs` (`Inductive`),
one lemma per action. From it follow `CrashSafe` (`CrashAtomic`), `AlwaysRecoverable`
(`NeverRefused`), `PublishedImages` (`PublishedWhole`, durable log), `CloseFence`
(`CloseIsFence`), and `RefinesAtomicDisk`: a durable log on a device that does not tear
the header implements `AtomicDisk`. The argument of the refinement is that the set of
recoverable images is a function of the headers a power loss may leave, so that only the
steps that write the header can change it; `IInv` says to what. With torn headers the
refinement is not claimed: a mount may then be refused.

**Partitions.** `VolumesStayInside` (`MountsInside`) and `GptIsHonoured` (`GptHonoured`),
also in `SectorTxProofs`, are what scene `scan` checks as `VolumesWithinDisk`. The first
comes down to the arithmetic of `parse_bpb` and its checks against wrapping: the one sum
that is computed modulo the word, the first data sector, cannot wrap because of the test
on the size of the FAT, and the last cluster's entry lies inside the FAT and its sectors
inside the volume (`Geometry`). A scan is then followed slot by slot and link by link.
`DisksSound` assumes no more than that the fields of the tables are unsigned numbers and
that a table has the slots it announces.

**The log of a volume.** `LogStaysItsOwn` (`KeepsToLog`) and `ShownVolumesAreWhole`
(`ShownIsWhole`), also there, are what scene `wal` checks as `LogIsItsOwn`. For the first,
the clusters outside the log, and those of the log with the end mark, are both closed
under the links `wal_check_fats` accepts, and so contain all that is reached from them.
For the second, what the walk of `wal_check_namespace` has found is only ever added to
(`Extends`), so that at its end every entry of every directory found was accepted (`Clean`)
and the directories found are themselves the tree; an undo then leaves just what was
looked at. Walks and scans are recursive functions here; each is shown to be well defined,
and followed, by the least count at which it would fail (`Rises`).

**Scheduler.** `SchedInv` is `TypeOK`, `ReadyIsDue` (a ready task has no wake time left),
`NoDangling` (links lead from existing tasks to existing tasks) and `OneRing` (the links
enumerate exactly the existing tasks, once around). `ListSafe`: no task in the ring or on
the processor is freed. `ListWhole` (`OneRing`). `StackSafe` (`FreedNotInUse`): a freed
stack is not the running one's. `SwitchSafe`: the processor goes only to tasks that are
ready or due. `SleepsLast` (`SleepLasts`), a positive sleep is not cut short while the idle
task lives, needs more: the task list is finite, the idle task never sleeps, and a sleeping
task still owes no more time than its wake-up is away (`SleepDebt`). With these `pick_next`
always finds somebody within its scan: the ring is followed step by step, by induction
through the least position that would fail.

**KvFS.** `RamNeverStale` (`RamMatchesDisk`): a mounted volume's directory in RAM equals
the one on the device. The strengthening relates the two copies at each step of a call;
the point is the step that fails with an unknown outcome and has to withdraw the volume.
`StoreInv` adds what a call in progress knows: a write's extent lies on the disk, clashes
with no used entry, holds the part of the contents written so far, and goes to the slot of
that name or to a free one; a format has cleared what it has passed. From it `Mountable`
(`StaysMountable`) and `RefinesFileStore` (`ImplementsFileStore`): KvFS implements the
table of whole files. The lemmas about `StoreOf`, the files a directory and the data
sectors stand for, say that writing free sectors changes no file, and that changing one
entry changes the files of its old and its new name.

**Setup.** `DoneMeansInstalled` (`FinishesInstalled`) and `FilesLeftAlone` (`LeavesFiles`),
together `SetupSafe` of scene `setup`, are proved in `KvfsProofs` over `StoreInv`. The
invariant of KvFS holds under the installer, whose calls are calls of KvFS. `SetupInv` adds
the loader up to the sector that is next, a directory that mounts as soon as there was a
mount or a format, and a set of as many files as were counted that are whole on the disk.
That set stays whole because a call to write is only made for a name that is not on the
disk: with files kept it was looked up, and without them the disk was formatted and holds
only the earlier names of the table, which differ (`MediaOK`).

**FAT.** `TypeCorrect` is the type invariant.
`NothingCommittedOverwritten` (`BodiesToFree`): unlogged writes hit only clusters
that are free in the image a recovery restores, for every volume, tree and contents. The
argument is that until a call publishes, its working set only takes clusters away from
the free ones (the invariant says so of `meta` against `saved`), so whatever is free in
the working FAT is free in the image a recovery restores.

`AlwaysConsistent` (`VolumeConsistent`) says that both images, the one a recovery restores
and the one the call in progress sees, are sound: every chain ends, no cluster has two
owners, every entry's chain is as long as its size asks. The invariant carries a *layout*
for each image: to every cluster in use its owner, its place in the owner's chain, and to
every owner the length of its chain (`Laid`). With places as witnesses a chain needs no
recursion: the cluster after place `k` is at place `k+1`, and walking it is an induction
through least counterexamples. The call in progress is described by the image it works
towards (`Target`) and the one chain it holds in its hand that no entry has yet
(`InHand`): allocating moves a free cluster to the end of that chain, publishing gives the
chain to an entry and takes the old one in hand, freeing gives back what is in hand.
`Ready` adds that the blocks of a directory are initialised, `Sized` the lengths, `OthersKept`
that the call touches no other entry's chain, `Stage` what is true before each step, and
`SavedOK` that clusters in use in the saved image have reached the platter.
`RefinesFileStore` (`ImplementsFileStore`) follows: a commit makes the target the saved
image, in which the reads of all other names go over the same clusters; a body is read as
one contents only. This last point needs the assumption that the empty contents is
unique, which `ContentsAssumption` states.

**Text.** `TextHistoryIsExact` (`TextTypeOK`, `UndoExact` and `CleanIsStored`, which scenes
`text` and `history` check as `TextTrue`) is in `FatFilesProofs` too. A change records no
texts, only a place and bytes, so `TextInv` says what these are worth: splicing a change's
inserted bytes into the text of the revision before it gives the text of the revision
after it, and its removed bytes lead back (`Kept`); the changes lie in the buffer one after
the other, and the revision in front of and behind the cursor is the current one
(`Between`). Redo is then the definition and undo the lemma that a splice is undone by the
splice of what it removed (`SplicedBack`). The rest is that the log stays so: a branch cuts
it and its bytes (`LogBranches`), an eviction shifts both by the same number (`LogShifts`),
which `BytesAre` shows to be what the evicted changes held, and a new change is exact
because a text without tabs and carriage returns is normalised piece by piece
(`NormalSpliced`): the bytes `text_replace` counts and copies are those it puts in. A
revision is given again only after the log was emptied. `Normalised`, the scan of
`text_replace_all` and `Bytes` are recursive functions, read like the walks of `Wal`.
`TextSound` assumes that queries are not empty and that two whole texts fit into the
history, which `ED_HISTORY_BYTES` provides for.

**Directories.** `DirectoryListsItsFiles` of `FatFilesProofs` is all of what scene `dir`
checks as `DirectoryListsFiles`, for directories of every size, clusters of every size,
names of any number of fragments and whatever `DirSound` lets other systems leave. `DirInv`
adds that the directory stays `Tidy`. Two facts carry it.

- `SameFrom`: after a slot that is no fragment the walk has nothing of a name, and what it
  has after that depends on the slots in between only. `Lays` says that a directory is
  another one with one more entry and its fragments: they lie in slots that were free, and
  a slot in use behind them is separated from them by the new entry, which took a deleted
  one's place. `LaysKeeps` concludes that every other entry is shown as before. Both
  operations are this relation, a deletion from right to left (`LaidLays`, `ErasedLays`):
  what is used again behind the end was cleared or is cut off by the mark `LaidOut` lays.
- `Tidy`: the fragments right before a short entry that is written are not its own, since
  they lead to another entry or carry another checksum (`NewShown`), and the chain that
  `erase_entry` finds is the whole of the entry's name, so that none of it is left
  (`ChainIs`, `LeftTidy`).

**File manager, shell and editors.** `VolumesProofs` first states once, for any store, what a call
of the volume table may leave (`Outcome`, `Keeps`): one file of the medium under the name
is changed or not, and where the device left it open, KvFS is withdrawn with a new
namespace generation, or the FAT volume takes no more writes. `ManagerActsAsAsked`
(`ActsAsAsked`, scenes `manager` and `shared`) then rests on `FmInv`: what a pane or a
question remembers of a volume it remembers with a generation that is not in the future,
and while that is the current one the name still leads to the same medium (`Known`),
because the table moves only with the generation. `ShellIsHonest` (`SaysWhatHappened`) goes
command by command: a result that is reported as a refusal is one of the codes with which
no driver has changed anything, and what changed is the target the arguments name from the
current directory. It assumes that an autoscan gives the names `ram` and `kv` to the native
stores and to them alone. `ShellRecalls` (`RecallsTheLine`) is about the ring of
`history`: the last `HistMax` lines are at different places in it (`Apart`), so an arrow
leads to the line entered at that place however often the ring went round. Both are
`ShellHonest` of scene `shell`.

`EditorSavesAreStored` (`SavedIsStored`) and `EditorWritesWhatWasNamed`
(`WritesWhatWasNamed`), together `EditorsKeepText` of the editors' scenes, rest on the invariant
`Good`: a sound store, and `Doc` of each of the two documents. That what carries the
current revision is stored is not inductive, because an undo makes an older revision
current again; `HasRev` says of every remembered revision that the file holds the text on
the screen if it is the current one and the text the undo would bring back if it is that
one, and `Counted` that a revision is never given twice. `Trusted` applies this to the two
local copies and, while the generation is current and the volume writable (`Reaches`), to
the file the document is bound to. `Bound` and `Asked` (through `KnownAs`) say of a target
and of an open dialog what `Known` says in the file manager. One step of one editor has to
keep both documents: a save, an import or a deletion in one changes the file the other may
be bound to, and the proof is the lemma that every writer compares the target of the other
one (`ed_target_changed`) or withdraws what was known of KvFS. Of its own destination a document
may keep a false belief, after a Keep that failed half-way (`KeepCutShort`, section 7);
`Trusted` leaves that one out and speaks of all others. `EditorsSound` assumes that
the names typed and the default names can be stored, that a listing has every volume and
every name once, and that the native stores are no FAT media; TLC evaluates it for the
four instances of the run.

**USB lease.** `IInv` of `UsbDeskProofs` says that the entry of the disk table has the
medium of the last enumeration and, until the latch is set, the one in the socket; that a
mount of the current generation has that medium; that the cache holds what the medium
holds; and what a transfer in progress has done so far. `LeaseHeld`
(`LeaseOnlyInOperation`) and `OwnMedium` (`TransfersOwnMedium`) follow. The step that
needs it is a transfer over a stick exchanged after the first look at the latch: the
command completes on the other medium, and only the second look keeps it from being
believed.

**AHCI.** `DmaAlwaysOwned` of `DeviceProofs` (`DmaOwned`, which scene `ahci` checks). A command the driver
gave up on may still be in the controller's hands, so `DmaInv` speaks of the command in
flight and not of the call: the pinned buffer is what was asked for the sector in flight
until the controller is done with it. That holds because nothing is issued over a command
that was not seen to end, and because the latch is never cleared: while it is open the
disk is the one identified at boot.

**USB bus.** `AddressesStayUnique` (`AddressesUnique`) and `LiveDisksAreTheirOwn`
(`LiveDiskIsItsOwn`), also in `DeviceProofs`, are together what scene `usb` checks as
`BusOwned`. They are proved for every number of devices, ports, exchanges, faults and scans.
`BusInv` says:

- an address is given once in a scan: whoever answers or is listed at one was given it, and
  the one about to be given is nobody's (`AddressesGiven`, `Fresh`);
- at address zero there is at most the device in hand, or the one that just failed and
  whose port is the next thing to be disabled (`OneAtZero`, `Doubt`);
- the calls in progress are hubs, each waiting for the child at its port, and on top
  perhaps the device in hand (`Chained`); what is at the end of that device's route, while
  no change is latched there, answers as the request in progress expects (`HandTrue`);
- the walk over the ports never comes back to a place a disk is already listed at
  (`DisksPassed`);
- whoever answers at a listed disk's address is that disk, and while no change is latched
  on its route the disk is at the end of it (`DisksOwn`).

Most steps only take something away, so two lemmas carry the bulk of the cases: after a
step that enables no port, moves nothing at an enabled one and clears no latch there, who
answers did so before and at the same address (`Shrunk`); if it also lists nothing new and
takes no new device in hand, the invariant is kept (`Quieter`). What remains are the reset of a port, the request that gives an
address, and the entry of a device in a table.

**Address spaces.** `FramesStayOwned` (`FramesOwned`) and `TablesStayCurrent`
(`RunsOnCurrentTables`) of `DeviceProofs`: the part of `MemoryOwned` that scene `spaces`
checks, for every pool, every number of tables and every image the loader accepts.
`SpacesInv` adds that a space that is not built has nothing, that what runs is pinned, and
that no frame is two pages' or a page's and a table's (`Apart`), so that the copy of the
loader reaches one page only. That a store never reaches code rests on `MemorySound`:
`ki_load` maps no page both writable and executable.

**Desktop.** `DamageNeverLost` (`ScreenFollows`) and `HitsStayTrue` (`HitsFollow`) of
`UsbDeskProofs` are together `DesktopTrue` of scene `desktop`, for every screen, number of
windows and length of the damage list. Three facts carry them.

- `MergedSettles`: merging reaches a rectangle that contains every one it touches. A round
  that is not the last takes in one more rectangle than the round before, so there are at
  most as many rounds as rectangles. Hence the list is kept apart, and nothing that was in
  it is lost (`AddKeeps`: the list only grows, as a set of cells, up to the whole screen).
- `PictureStays`: a cell shows something else only where a window that changed, or whose
  place in the order did, is or was in sight; `ButtonsStay` says the same of the panel.
  These are the windows `gui_damage_after_input` compares with its snapshot (`AfterKeeps`).
- `Ordered`: every window in use has one place in `z_order`, and lies partly on the screen,
  so that what remains of it after clipping is what is damaged. `DesktopSound` assumes the
  latter of the places a window is opened at and dragged to, as `handle_drag` enforces.

`DeskInv` adds, for the areas, that those of a window in sight are its own or the window is
still to be redrawn, that a slot without a window has none, and that the list holds no more
than `MAX_HIT`. `Fine` carries the last through a redraw, window by window (`DrawKeeps`):
because what is out of sight was dropped first and a window gives its areas back before it
adds them anew, all areas in the list are among those the windows in sight may ask for
(`FineIsPossible`), so a refusal means that these are too many.

**Modes.** `BufferAlwaysFits` (`BufferFits`) and `UndoAlwaysLeadsBack` (`UndoLeadsBack`),
which scene `modes` checks. Both speak of the moments between two switches, and hold at no
point in the middle of one; `ModesInv` says at each stage of a switch which mode is drawn,
how large the new buffer is, and how the fallback and the mode asked for stand to the last
mode the user accepted. `WellSized` is assumed: the boot mode exists and fits beside
whatever the other tasks hold. These, the next two and the scheduler are in `KernelProofs`.

**Programs.** `CrashStaysFinal` (`CrashIsFinal`) and `EraseAsAsked` (`ErasesAsAsked`),
together `StoreWindowsSafe`. `kapp_load` clears the mark of a crash, and then unloads what
is loaded, which would call `on_close` of a program that crashed; it is safe because
`launch_user_app` closes the program's window first, and a loaded program always has one
(`StoreInv`).

**Keys.** `KeysTakenOnce` (`KeysOnce`), the first part of `KeysArrive`. What was taken
followed by what waits in the ring is one queue in the order of typing, also between the
copy of an event and the move of the tail, because nothing but the reader changes the
ring's head; the byte in the controller's buffer is younger than all of it.

**Heap.** `HeapStaysWhole` (`HeapWhole`, the part of `MemoryOwned` that scene `heap` checks).
`Whole` says of any heap, also of one in the middle of a call, that its blocks lie end to
end and lead to each other both ways, and that `heap_used` counts the bytes outside the
areas of free blocks; `ApartBut` says which blocks may stand before a free one while a call
runs. `kfree` leaves that to the block it frees and to the one before it, so each of its
two merges takes in one block at most (`MergeIs`, `MergeKeeps`) and leaves none. `HeapSound`
assumes that the heap and one more header are not as long as a word can count, so that only
the rounding of a request could wrap, which `kmalloc` refuses.

**Applications.** `AppInv` of `UserAppNtfsProofs` joins `ServiceInv` (types, exact reference
counts, zeros behind the end of a file, handles below the next cookie, the pending event
is the last one posted) with the state of the dispatcher and its client. From it
`LayersStayAgreed` (`LayersAgree`), `InputsAndDrawing` (inputs in order, drawing the
application's own, nothing dropped in silence), `KeepsMailbox` (`ImplementsMailbox`), and
`ServiceFiles` and `FilesOfApplications`: references, holes and stale handles, for the
services alone and under the runtime. `KeepsMailbox` adds `MailInv` (a close waits
only in an application that is closing) and goes through `PumpMail`: whatever entry the search
finds, the queue as a set is the mailbox after the same request, and its first entry is one
that the mailbox may serve next. The order of inputs is stated without sequences of
unknown length: the positions of the queue hold the last inputs up to the newest, in
order.

**NTFS.** `NtfsTellsTheTruth` of `UserAppNtfsProofs` (`ReadsTrue` and `ListsTrue`, together
`NtfsTrue` of scene `ntfs`), for every volume, every file and directory on it, every sector
that fails and every record or index block that a crash tore. It assumes `NtfsSound`: on a
volume that may be in the drive the runs of an attribute spell its extents (`Spelled`), the
clusters of the extents hold its value as far as it is initialized (`ExtentHolds`), a sector
that $MFT maps to a record holds that record, whole or torn (`AtHome`), a directory is its
root node followed by its index blocks and has no name twice (`DirSound`), and an attribute
lies whole in one record with no other of its type (`InOneRecord`, which the volume of
`StreamsReadTrue` does not satisfy). Only what is *not* marked torn has to be intact. TLC
evaluates `NtfsSound` for the four drives of the run. The state needs little: once mounted,
the run list in memory is the one of $MFT, which `MountReads` shows although the first
record is found through the boot sector alone (`NtfsInv`). The rest is what the helpers
return, whatever fails:

- `ParsedAreExtents`: the running sums of `parse_runlist` are the extents, holes included;
- `RecordIs`, `RecordReads`: a record is read as itself or not at all;
- `UnitIs`, `AttrRead`: a read is a beginning of the attribute's value, all that was asked
  for if no sector failed;
- `BlocksWalked`, `IndexWalked`: a walk yields a beginning of the directory, all of it if it
  says so, and at least what comes before the first torn block if no sector failed;
- `Resolved`: a path leads where the volume says or nowhere;
- `ListedNext`, `CountedToTheEnd`: the n-th visible entry of a beginning is the n-th of the
  directory, so names counted off to the end are all of them, once.

Only model-checked:

- everything with fairness (`RecoveryConverges`, `EverybodyServed`, `RunawayStopped`, the
  second part of `KeysArrive`), which the prover does not reach;
- `ComputesAsWritten`, and that `FindSpace` is what the loop of `find_space` computes
  (`LoopIsFirstFit`): recursive definitions.

Every other property of a passing run is proved. A property of an MC module that speaks of a
scene (`NtfsTrue`, `BusOwned`, ...) is what its conjuncts, which the theorems state in the
component's module, say of that scene's instance.

## 6. What is not modelled

- In the modelled parts. *Undo log*: a CRC collision. *KvFS*: torn directory sectors; a
  remount without a power cycle after a failed flush. *FAT*: mirror FATs outside `Wal`,
  sequential append, readers that stream. After an ambiguous commit and a remount with the
  power on, a later power loss may still return the old image, which the storage notes
  allow; the model takes the decision at the remount. *Applications*: the ring-0 ABI,
  self-tests, clipping and text validation, the copying to and from user pages as far as
  `UserService` is concerned (its failure is an application fault; `Spaces` has the copy);
  canvas sizes are legal. The two-tick slice ends before the `hz/10+2` deadline could,
  so that deadline is not an action. *USB*: `usb_sync` (the same gate as a write), several
  disks, the storage laboratories' own grants; storage calls are made by one thread, so
  a rescan happens only between operations. A rescan without `vfs_init` leaves old mounts
  alive (`fat_lab.c:50`), and the model allows it. *Editors*: UTF-8 boundaries, scrolling,
  vertical movement, plain search; the disk revisions of `gui_editor_state.h` could alias
  after 2^32 changes. *Compiler*: lexer, structs, strings, the limits of its tables, the
  container. *NTFS*: labels and the folding of names. *Heap, frames*: the bitmap's layout,
  alignment of requests for device memory.
- Not modelled at all: the register protocols of the legacy ATA driver and the USB host
  controllers (a command is one step that may fail, in every storage module); settings
  and utility commands (stateless); the storage laboratories (test kernels); display,
  firmware and processor setup, boot loaders, the SDK, tools and tests.

## 7. Disagreements between code and text

- `stores_status` (`StatusTrue` violated): when KvFS fences itself in the middle of a
  deletion or of a save to a chosen destination, the file is the old one or the new one and
  `ed_accept` (`gui_editor_input.h:105`) and `ed_save_target` leave the revisions of the
  document as they are. Once KvFS is mounted again the status line says "KvFS: saved" of a
  text that may be gone. `docs/STORAGE-M2.md:32` says that the write error stays.
- `disks_streams` (`StreamsReadTrue` violated): `find_attr_in` compares the type of an
  attribute, not its name (`ntfs.c:223`), so a small named stream that stays in the base
  record of a file whose data moved to an extension record is read as the file.
- `stores_copy` (`CopyWhole` violated): `vfs_size` answers 0 for an empty file and for a
  file whose size could not be read; `vcp` (`shell.c:902`) and the file manager's copy
  (`filemgr.c:300`) then make an empty target and report success.
- `stores_exit` (`ExitAsks` violated): `ed_quit_mask` remembers that an editor was
  answered, not for which text (`gui_editor_input.h:25`); with the second editor's question
  open, the first can be typed into again, and the exit drops that text unasked.
- `stores_keep` (`KeepsDocuments` violated): an installation that is to keep the files
  takes any failure of `kvfs_mount` for "no KvFS here" (`setup.c:170`), a read error
  included, and formats.

One more is known, and has no run of its own because `SavedIsStored` and its theorem except
it by name (`KeepCutShort`). `README.md:626-630` says that the footer tells what is stored
"for this document revision" and that a failed disk write does not mark the document saved.
Import a file, save it with "Save as" to `/mnt/ram/` under its own name, type, and choose
"Keep: KvFS" while KvFS cannot write. `ed_save_local` (`gui_editor_state.h:138-147`) has by
then written the later text over the file in the RAM disk, and leaves the revision the
document remembers of that destination alone, unlike the other editor's, which
`ed_storage_changed` withdraws. After an Undo that revision is the current one again, and
`ed_storage_status` (`:92-97`) says "saved" of a file that holds the text before the Undo.
Scene `keeping` walks this sequence; without the exception TLC reports it in eleven steps.

## 8. Running it

    tlc -workers 2 -config Disks.cfg MCDisks
    tlc -workers 2 -config Sched_ring.cfg Sched
    tlapm KvfsProofs.tla

The module of each configuration is in `PROJECT.json` "runs". A run takes one to four
minutes on two workers.
