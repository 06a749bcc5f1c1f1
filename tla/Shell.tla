------------------------------- MODULE Shell --------------------------------
(***************************************************************************)
(* The command shell, kernel/shell.c with the file commands of             *)
(* kernel/utilcmds.c: the line with its history, the current directory,    *)
(* and the commands that read and change the volumes while the desktop,    *)
(* which runs between two commands, changes them too.                      *)
(*                                                                         *)
(* A line is a command with at most two arguments.  A place is a volume    *)
(* and a path on it, <<>> is /mnt.  told is what the last command said.    *)
(***************************************************************************)
EXTENDS Volumes

CONSTANTS
    HistMax,                          \* HIST_MAX
    Menus,           \* kinds of work: the lines, bounds on commands and foreign writes
    MaxRescans                     \* a bound

VARIABLES
    cwd,                              \* sh_cwd
    history, histCount,               \* history[], hist_count
    line, hpos,                       \* readline: buf, hpos
    told,                             \* the last command, what it said of it
    menu,                             \* the kind of work of this behaviour
    commands, foreign,                 \* how many commands and foreign writes
    entered, recalled                 \* ghost: lines added, line is a recalled one

inputVars == <<history, histCount, line, hpos, entered, recalled>>
shellVars == <<volVars, inputVars, cwd, told, menu, commands, foreign>>

ShellSound == HistMax \in Nat \ {0} /\ VolumesSound

NoLine == [op |-> "", a |-> [abs |-> FALSE, at |-> <<>>], b |-> [abs |-> FALSE, at |-> <<>>]]

-----------------------------------------------------------------------------
\* sh_path: an argument as a place; a place too long is refused.
Place(arg) == IF arg.abs THEN arg.at ELSE cwd \o arg.at
VolOf(x) == IF x = <<>> THEN "" ELSE Head(x)
PathAt(x) == IF x = <<>> THEN <<>> ELSE Tail(x)
Fits(x) == x = <<>> \/ PathAt(x) \in Paths \cup {<<>>}

\* vfs_stat as a command may see it: a directory that cannot be read holds
\* nothing.
Kinds(x) ==
    IF x = <<>> THEN {None}
    ELSE {VfsStat(Now, VolOf(x), PathAt(x))}
        \cup (IF Mounted(Now, VolOf(x)) /\ MediumAt(Now, VolOf(x)) \in FatMedia THEN {None} ELSE {})

\* What a command leaves and says.  "refused": it says that nothing was
\* written; "failed" and "uncertain" leave that open.
Says(s, outcome, got) == [s |-> s, cwd |-> cwd, outcome |-> outcome, got |-> got]
Refused == Says(Now, "refused", None)
Failed == Says(Now, "failed", None)

\* Mutant: every error is told as a refusal.
SaidOfAll(o) ==
    Says(o, IF o.gen # generation THEN "uncertain"
            ELSE IF o.r >= 0 THEN "done" ELSE "refused", None)

Said(o) ==
    Says(o, IF o.gen # generation THEN "uncertain"
            ELSE IF o.r >= 0 THEN "done"
            ELSE IF o.r \in {-2, -3, -4, -5} THEN "refused" ELSE "failed", None)

-----------------------------------------------------------------------------
\* cmd_vcd: the parent of a volume is /mnt, which is no directory.
VcdTo(x) ==
    {IF k = Folder THEN [Says(Now, "done", None) EXCEPT !.cwd = x] ELSE Refused : k \in Kinds(x)}
Vcd(l) ==
    LET x == IF l.op = "vcd.." THEN (IF cwd = <<>> THEN <<>> ELSE Front(cwd)) ELSE Place(l.a) IN
    IF Fits(x) THEN VcdTo(x) ELSE {Refused}

\* cmd_vls: every entry of one namespace or an incomplete listing; without a
\* current directory and an argument there is nothing to list.
Vls(l) ==
    LET x == Place(l.a) IN
    IF x = <<>> \/ ~Fits(x) THEN {Refused}
    ELSE {Says(Now, IF d = NoListing THEN "failed" ELSE "done", None) : d \in VfsReaddir(Now, VolOf(x), PathAt(x))}

\* The bytes of a file, as many as its size says; None when it is refused.
Bytes(x) == IF x = <<>> THEN {None} ELSE VfsReadSized(Now, VolOf(x), PathAt(x))

\* cmd_vcat
Vcat(l) ==
    LET x == Place(l.a) IN
    IF ~Fits(x) THEN {Refused}
    ELSE {IF c = None THEN Refused ELSE Says(Now, "done", c) : c \in Bytes(x)}

\* cmd_vcp: into a directory under its own name; read whole, then written.
VcpTo(f, t) ==
    IF ~Fits(t) \/ f = t \/ t = <<>> THEN {Refused}
    ELSE IF ~VfsWritable(Now, VolOf(t)) THEN {Refused}
    ELSE UNION {IF c = None THEN {Refused}
                ELSE IF Len(t) = 1 THEN {Failed}
                ELSE {[Said(o) EXCEPT !.got = c] : o \in VfsWrite(Now, VolOf(t), PathAt(t), c)} : c \in Bytes(f)}
Vcp(l) ==
    LET f == Place(l.a)  t == Place(l.b) IN
    IF ~Fits(f) \/ ~Fits(t) THEN {Refused}
    ELSE UNION {IF k \in {None, Folder} THEN {Refused}
                ELSE UNION {VcpTo(f, IF d = Folder THEN Append(t, Last(f)) ELSE t) : d \in Kinds(t)} : k \in Kinds(f)}

\* cmd_vrm and cmd_vmkdir; the root of a volume is neither removed nor made.
Vrm(l) ==
    LET x == Place(l.a) IN
    IF ~Fits(x) THEN {Refused}
    ELSE IF Len(x) < 2 THEN {Failed}
    ELSE {Said(o) : o \in VfsRemove(Now, VolOf(x), PathAt(x))}
Vmkdir(l) ==
    LET x == Place(l.a) IN
    IF ~Fits(x) THEN {Refused}
    ELSE IF Len(x) < 2 THEN {Failed}
    ELSE {Said(o) : o \in VfsMkdir(Now, VolOf(x), PathAt(x))}

\* cmd_mv: two names in RAM, or two absolute places of one volume; it looks
\* at the result alone, where -6 is an uncertain one.
MvSaid(o) ==
    Says(o, IF o.r = 0 THEN "done" ELSE IF o.r = -6 THEN "uncertain" ELSE "refused", None)
Mv(l) ==
    IF l.a.abs # l.b.abs THEN {Refused}
    ELSE LET v == IF l.a.abs THEN VolOf(l.a.at) ELSE "ram"
             p == IF l.a.abs THEN PathAt(l.a.at) ELSE l.a.at
             q == IF l.b.abs THEN PathAt(l.b.at) ELSE l.b.at IN
        IF ~{p, q} \subseteq Paths \ {<<>>} \/ (l.a.abs /\ VolOf(l.b.at) # v) THEN {Refused}
        ELSE {MvSaid(o) : o \in VfsRename(Now, v, p, q)}

\* cmd_cp, cmd_touch, write and rm: ramfs by name, which only runs out of
\* room or memory.
RamDone(p, c) == {Says(Ret([Now EXCEPT !.files = Put(Now, Ram, p, c)], 0), "done", c)}
RamDoneAny(p) == UNION {RamDone(p, c) : c \in Contents}
Cp(l) ==
    LET c == files[Ram][l.a.at] IN
    IF c = None \/ l.a.at = l.b.at THEN {Refused} ELSE RamDone(l.b.at, c) \cup {Refused}
Touch(l) ==
    IF files[Ram][l.a.at] # None THEN {Refused} ELSE RamDone(l.a.at, Empty) \cup {Refused}
Write(l) ==
    IF files[Ram][l.a.at] # None THEN {Refused}
    ELSE RamDoneAny(l.a.at) \cup {Refused}
Rm(l) == IF files[Ram][l.a.at] = None THEN {Refused} ELSE RamDone(l.a.at, None)

\* cmd_install, cmd_uninstall: a name between ramfs and a mounted KvFS.
KvSaid(o) == Says(o, IF o.r >= 0 THEN "done" ELSE "failed", None)
Install(l) ==
    LET c == files[Ram][l.a.at]  fs == Put(Now, Kv, l.a.at, c) IN
    IF ~kvMounted \/ c = None THEN {Refused}
    ELSE {KvSaid(o) : o \in Done(Now, 0, fs) \cup Broken(Now, -1, Kv, fs) \cup {Ret(Now, -3)}}
Uninstall(l) ==
    LET fs == Put(Now, Kv, l.a.at, None) IN
    IF ~kvMounted \/ files[Kv][l.a.at] = None THEN {Refused}
    ELSE {KvSaid(o) : o \in Done(Now, 0, fs) \cup Broken(Now, -1, Kv, fs)}

\* cmd_format: the mount goes first, and comes back over an empty directory
\* once everything is written; then the volume is listed.
Format(l) ==
    LET wiped == [files EXCEPT ![Kv] = [p \in Paths |-> None]]
        left == [Now EXCEPT !.gen = generation + 1, !.kv = FALSE]
        listed == IF Mounted(Now, "kv") THEN vols ELSE Append(vols, [name |-> "kv", medium |-> Kv]) IN
    {Says([left EXCEPT !.kv = TRUE, !.files = wiped, !.tab = listed], "done", None)}
        \cup {Says([left EXCEPT !.files = f], "failed", None) : f \in {files, wiped}}

\* cmd_rescan
Rescan(l) == {Says(s, "done", None) : s \in Rescans(Now)}

Run(l) ==
    CASE l.op \in {"vcd", "vcd.."} -> Vcd(l)
      [] l.op = "vls" -> Vls(l)       [] l.op = "vcat" -> Vcat(l)
      [] l.op = "vcp" -> Vcp(l)       [] l.op = "vrm" -> Vrm(l)
      [] l.op = "vmkdir" -> Vmkdir(l) [] l.op = "mv" -> Mv(l)
      [] l.op = "cp" -> Cp(l)         [] l.op = "touch" -> Touch(l)
      [] l.op = "write" -> Write(l)   [] l.op = "rm" -> Rm(l)
      [] l.op = "install" -> Install(l)
      [] l.op = "uninstall" -> Uninstall(l)
      [] l.op = "format" -> Format(l)
      [] OTHER -> Rescan(l)

-----------------------------------------------------------------------------
\* hist_add: no line twice in a row; the ring keeps the last HistMax.
HistAdd(l) ==
    IF histCount > 0 /\ history[(histCount - 1) % HistMax] = l
    THEN UNCHANGED <<history, histCount, entered>>
    ELSE /\ history' = [history EXCEPT ![histCount % HistMax] = l]
         /\ histCount' = histCount + 1
         /\ entered' = Append(entered, l)

\* readline: characters, the arrows, Ctrl+C.
Start == IF histCount > HistMax THEN histCount - HistMax ELSE 0
Unread == UNCHANGED <<volVars, cwd, told, menu, commands, foreign, history, histCount, entered>>
TypeLine ==
    /\ \E l \in Menus[menu].lines : line' = l
    /\ recalled' = FALSE
    /\ UNCHANGED hpos /\ Unread
Arrow ==
    /\ \/ hpos > Start /\ hpos' = hpos - 1
       \/ hpos < histCount /\ hpos' = hpos + 1
    /\ line' = IF hpos' < histCount THEN history[hpos' % HistMax] ELSE NoLine
    /\ recalled' = (hpos' < histCount)
    /\ Unread
CtrlC ==
    /\ line' = NoLine /\ hpos' = histCount /\ recalled' = FALSE
    /\ Unread

\* Ghost: what the first argument of a command names.
Had(l) ==
    LET x == Place(l.a) IN
    IF x # <<>> /\ Fits(x) THEN VfsStat(Now, VolOf(x), PathAt(x)) ELSE None

\* Enter: shell_run adds the line and runs the command.
Enter ==
    /\ line # NoLine
    /\ commands < Menus[menu].commands /\ commands' = commands + 1
    /\ HistAdd(line)
    /\ \E o \in Run(line) :
        /\ o.s.gen <= MaxRescans
        /\ Become(o.s)
        /\ cwd' = o.cwd
        /\ told' = [l |-> line, outcome |-> o.outcome, got |-> o.got, had |-> Had(line)]
    /\ line' = NoLine /\ hpos' = histCount' /\ recalled' = FALSE
    /\ UNCHANGED <<menu, foreign>>

\* The desktop runs from the shell: its programs write, its editors rescan,
\* its Programs window mounts KvFS.
Desktop ==
    /\ line = NoLine /\ hpos = histCount
    /\ \/ /\ foreign < Menus[menu].writes /\ foreign' = foreign + 1
          /\ \E o \in OtherPrograms(Now) : Become(o)
       \/ /\ generation < MaxRescans
          /\ \E o \in Rescans(Now) \cup Remounts(Now) : Become(o)
          /\ UNCHANGED foreign
    /\ UNCHANGED <<inputVars, cwd, told, menu, commands>>

ShellInit ==
    /\ VolumesInit
    /\ cwd = <<>> /\ told = [l |-> NoLine, outcome |-> "none", got |-> None, had |-> None]
    /\ menu \in DOMAIN Menus
    /\ history = [i \in 0..HistMax - 1 |-> NoLine] /\ histCount = 0
    /\ line = NoLine /\ hpos = 0 /\ recalled = FALSE /\ entered = <<>>
    /\ commands = 0 /\ foreign = 0

ShellNext == TypeLine \/ Arrow \/ CtrlC \/ Enter \/ Desktop

ShellSpec == ShellInit /\ [][ShellNext]_shellVars

-----------------------------------------------------------------------------
\* A recalled line is the one that was entered at that place of the history,
\* however often the ring went round (readline, hist_add).
RecallsTheLine == recalled => line = entered[hpos + 1]

\* What a command says is true of the volumes: a refusal has changed nothing,
\* a success has put exactly what it promises where the argument, seen from
\* the current directory, lies now, and an unclear outcome leaves every other
\* file alone (cmd_vcp, cmd_vrm, cmd_vmkdir, cmd_mv, cmd_install, cmd_format).
On(v) == IF Mounted(Now, v) THEN MediumAt(Now, v) ELSE None
Changed == {x \in Media \X Paths : files'[x[1]][x[2]] # files[x[1]][x[2]]}
At(m, p) == IF p \in Paths THEN {<<m, p>>} ELSE {}
Targets(l) ==
    CASE l.op = "vcp" ->
            LET t == Place(l.b)  u == Append(t, Last(Place(l.a))) IN
            At(On(VolOf(t)), PathAt(t)) \cup At(On(VolOf(u)), PathAt(u))
      [] l.op \in {"vrm", "vmkdir"} -> At(On(VolOf(Place(l.a))), PathAt(Place(l.a)))
      [] l.op = "mv" ->
            IF l.a.abs THEN At(On(VolOf(l.a.at)), PathAt(l.a.at)) \cup At(On(VolOf(l.b.at)), PathAt(l.b.at))
            ELSE At(Ram, l.a.at) \cup At(Ram, l.b.at)
      [] l.op = "cp" -> At(Ram, l.b.at)
      [] l.op \in {"touch", "write", "rm"} -> At(Ram, l.a.at)
      [] l.op \in {"install", "uninstall"} -> At(Kv, l.a.at)
      [] l.op = "format" -> {Kv} \X Paths
      [] OTHER -> {}
Promised(l, old, new, got) ==
    CASE l.op \in {"vrm", "rm", "uninstall", "format"} -> new = None
      [] l.op = "vmkdir" -> new = Folder
      [] l.op = "touch" -> new = Empty
      [] l.op = "mv" -> new = None \/ old = None
      [] l.op = "install" -> new = files[Ram][l.a.at]
      [] l.op \in {"vcp", "cp"} -> new = got
      [] OTHER -> TRUE
SaysWhatHappened ==
    commands' # commands =>
        /\ told'.outcome = "refused" => Changed = {}
        /\ Changed \subseteq Targets(line)
        /\ told'.outcome = "done" =>
            \A x \in Changed : Promised(line, files[x[1]][x[2]], files'[x[1]][x[2]], told'.got)
        /\ told'.outcome = "done" /\ line.op \in {"vrm", "rm", "uninstall"} =>
            \A x \in Targets(line) : files'[x[1]][x[2]] = None

\* What the messages of cmd_vcp and its test promise, that no incomplete read
\* reaches the target: a copy that is reported is the whole file.
CopyWhole ==
    told.outcome = "done" /\ told.l.op = "vcp" => told.got = told.had
=============================================================================
