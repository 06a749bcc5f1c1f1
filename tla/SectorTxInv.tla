---------------------------- MODULE SectorTxInv -----------------------------
(***************************************************************************)
(* The inductive invariant behind the safety of the durable log, in parts: *)
(* what is on the media (Media), and, for each stage of a call, how the    *)
(* RAM copy of the log relates to it.                                      *)
(***************************************************************************)
EXTENDS SectorTx

\* Every sector a header does not index can only hold the image the header
\* stands for, and every sector it indexes has that image in its backup.
RecoversTo(h) ==
    h.kind # "torn" =>
        /\ \A i \in DOMAIN h.log :
            /\ h.log[i].old = Resolved(h)[h.log[i].lba]
            /\ i \in Slots /\ sposs[i] = {h.log[i].old}
        /\ \A l \in Targets : l \notin Lbas(h.log) => tposs[l] = {Resolved(h)[l]}

Pending(h) == h.kind = "torn" \/ (h.kind = "active" /\ (point => h.log # <<>>))

Media ==
    /\ hdr \in hposs
    /\ \A l \in Targets : tgt[l] \in tposs[l]
    /\ \A i \in Slots : slot[i] \in sposs[i]
    /\ \A h \in hposs :
        /\ RecoversTo(h) /\ Distinct(h.log)
        /\ h.kind # "active" => h.log = <<>>
        /\ h.kind = "torn" => HeaderTears
    \* before the journal is provisioned there was no transaction
    /\ hdr.kind = "zero" => ~point /\ base = want
    \* while the header that is read has records, nothing newer is possible
    /\ hdr.log # <<>> => \A h \in hposs : Pending(h)

\* The RAM log saves the contents before the transaction.
SavesBase ==
    /\ Distinct(log)
    /\ \A i \in DOMAIN log : log[i].old = base[log[i].lba]
    /\ \A l \in Targets : l \notin Lbas(log) => tposs[l] = {base[l]}

Appending == {"backupW", "backupS", "indexW", "indexS"}
InTx == active /\ ~fenced /\ pc \in {"idle", "tw", "commitS"} \cup Appending

\* An open transaction, also one that failed and will be aborted.
OpenTx ==
    InTx /\ ~closing => ~point /\ SavesBase /\ \A h \in hposs : h.kind \in {"torn", "active"}

\* An open transaction that may still commit.
HealthyTx ==
    InTx /\ ~failed =>
        /\ ~point /\ tgt = want /\ SavesBase
        /\ pc \notin Appending => hdr = ActiveHeader(log) /\ hposs = {hdr}
        /\ pc = "indexS" => hdr = ActiveHeader(log)

\* stx_write between taking the old contents and indexing them.
AppendTx ==
    pc \in Appending =>
        /\ active /\ ~failed /\ ~closing
        /\ log # <<>> /\ arg.lba = log[Len(log)].lba
        /\ pc # "indexS" => /\ hposs = {hdr} /\ hdr.kind = "active"
                            /\ log = Append(hdr.log, log[Len(log)])
        /\ pc = "backupS" => slot[Len(log)] = log[Len(log)].old
        /\ pc \in {"indexW", "indexS"} => sposs[Len(log)] = {log[Len(log)].old}

WriteTx == pc = "tw" => active /\ ~failed /\ ~closing /\ arg.lba \in Lbas(log)

CommitTx == pc = "commitS" => active /\ ~failed /\ op = "commit"

\* stx_abort: the records above idx are back in place.
Undoing ==
    pc \in {"undo", "undoS"} =>
        LET img == Resolved(ActiveHeader(log))
        IN  /\ active /\ ~closing /\ op # "commit"
            /\ hdr.kind \in {"torn", "active"}
            /\ point => hdr = ActiveHeader(log)
            /\ \A i \in DOMAIN log : log[i].old = img[log[i].lba]
            /\ pc = "undo" => idx \in DOMAIN log /\ \A h \in hposs : Pending(h)
            /\ pc = "undoS" => idx = 0
            /\ \A l \in Targets :
                (\A i \in DOMAIN log : i <= idx => log[i].lba # l) => tgt[l] = img[l]

\* header(t,0), at the end of a commit, an abort or a format.
Closing ==
    pc \in {"closeW", "closeS"} =>
        /\ \A l \in Targets : tposs[l] = {want[l]}
        /\ op # "commit" => ~point /\ base = want
        /\ op = "commit" => point
        /\ pc = "closeS" => hdr = CleanHeader
        /\ op # "format" => active /\ closing

\* header(t,1) of stx_begin.
Opening ==
    pc \in {"openW", "openS"} =>
        /\ active /\ log = <<>>
        /\ \A l \in Targets : tposs[l] = {Resolved(ActiveHeader(<<>>))[l]}
        /\ hdr.log = <<>>
        /\ pc = "openS" => hdr = ActiveHeader(<<>>)

Published == (pc = "idle" /\ ~active /\ ~fenced) => hdr.kind = "clean"

FencedIdle == fenced => pc = "idle"

Stages ==
    /\ OpenTx /\ HealthyTx /\ AppendTx /\ WriteTx /\ CommitTx
    /\ Undoing /\ Closing /\ Opening /\ Published /\ FencedIdle

\* The invariant of the durable log that the theorems rest on.
IInv == Durable => Media /\ Stages
=============================================================================
