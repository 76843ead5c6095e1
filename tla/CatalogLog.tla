------------------------------ MODULE CatalogLog -------------------------------
(***************************************************************************)
(* How a catalog transaction reaches the disk, and how it is read back.    *)
(*                                                                         *)
(*   ferret-catalog log.rs, log/writer.rs, transaction.rs, publication.rs  *)
(*                                                                         *)
(* A published catalog is a manifest `current` that names a pair of files: *)
(* snapshot.N, a checkpoint, and changes.N, the transactions after it.     *)
(* The writer, alone under its lock, appends to the log or writes a new    *)
(* pair; each of its steps below ends at one publication::Point.  Readers  *)
(* take no lock.                                                           *)
(*                                                                         *)
(* Transactions are numbered as they are begun.  A view is the sequence of *)
(* those it incorporates, so its catalog sequence is its length.  A file   *)
(* is synced before it is renamed; what may be lost is the directory       *)
(* entries and log bytes written since they were last synced.              *)
(***************************************************************************)
EXTENDS Integers, Sequences, FiniteSets

CONSTANTS
    MaxTx,           \* bound: transactions begun
    MaxCheckpoint,   \* bound: checkpoint numbers
    MaxFailures,     \* bound: failed steps, process deaths, power losses
    MaxReads         \* bound: times the reader opens the catalog

ASSUME LogBoundsAssumption ==
    /\ MaxTx \in Nat
    /\ MaxCheckpoint \in Nat
    /\ MaxFailures \in Nat
    /\ MaxReads \in Nat

Tx == 1 .. MaxTx

Torn == 0    \* an append that stopped in the middle

Checkpoint == 0 .. MaxCheckpoint

Published == [cp : Checkpoint, seq : Nat, end : Nat]

Pair(n) == {<<"snapshot", n>>, <<"changes", n>>}

Name == UNION {Pair(n) : n \in Checkpoint}

VARIABLES
    cur, stCur,      \* Option: the manifest in place, and the durable one
    names, stNames,  \* the state files in place, and the durable entries
    snap,            \* the view in each snapshot
    log, synced,     \* each log's transactions, and the durable ones
    pc,              \* the writer's next step
    job,             \* what it is publishing
    mem, view,       \* its manifest and its view
    nextTx,
    failures,
    rdPc, rdMan, rdSnap, rdView, reads    \* the reader

fileVars   == <<cur, stCur, names, stNames, snap, log, synced>>
writerVars == <<pc, job, mem, view, nextTx>>
readerVars == <<rdPc, rdMan, rdSnap, rdView, reads>>
vars       == <<cur, stCur, names, stNames, snap, log, synced,
                pc, job, mem, view, nextTx, failures,
                rdPc, rdMan, rdSnap, rdView, reads>>

\* The type of each variable; in particular a view holds whole transactions.
TypeOK ==
    /\ cur \in SUBSET Published /\ stCur \in SUBSET Published
    /\ names \subseteq Name /\ stNames \subseteq Name
    /\ snap \in [Checkpoint -> Seq(Tx)]
    /\ log \in [Checkpoint -> Seq(Tx \cup {Torn})]
    /\ synced \in [Checkpoint -> Seq(Tx \cup {Torn})]
    /\ pc \in {"down", "idle", "append", "logsync", "snapshot", "header",
               "pairsync", "manifest", "dirsync", "truncsync", "opensync", "cleanup"}
    /\ job \in [kind : {"open", "append", "checkpoint", "rebuild", "create"},
                man : Published, view : Seq(Tx)]
    /\ mem \in Published
    /\ view \in Seq(Tx)
    /\ nextTx \in Nat
    /\ failures \in Nat
    /\ rdPc \in {"idle", "manifest", "snapshot", "missing", "again", "failed", "corrupt"}
    /\ rdMan \in SUBSET Published
    /\ rdSnap \in Seq(Tx)
    /\ rdView \in SUBSET Seq(Tx)
    /\ reads \in Nat

NoManifest == [cp |-> 0, seq |-> 0, end |-> 0]

NoJob == [kind |-> "open", man |-> NoManifest, view |-> <<>>]

Down == pc' = "down" /\ job' = NoJob /\ mem' = NoManifest /\ view' = <<>>

Accept(m, v) == pc' = "idle" /\ job' = NoJob /\ mem' = m /\ view' = v

Init ==
    /\ cur = {} /\ stCur = {}
    /\ names = {} /\ stNames = {}
    /\ snap = [n \in Checkpoint |-> <<>>]
    /\ log = [n \in Checkpoint |-> <<>>]
    /\ synced = [n \in Checkpoint |-> <<>>]
    /\ pc = "down"
    /\ job = NoJob
    /\ mem = NoManifest
    /\ view = <<>>
    /\ nextTx = 1
    /\ failures = 0
    /\ rdPc = "idle" /\ rdMan = {} /\ rdSnap = <<>> /\ rdView = {}
    /\ reads = 0

Failing == failures < MaxFailures /\ failures' = failures + 1

\* A variant of ViewOf that reads to the end of the log.
ViewOfAll(m, snapshot, changes) == snapshot \o changes

\* The view a manifest names, through its snapshot and its log's prefix.
ViewOf(m, snapshot, changes) == snapshot \o SubSeq(changes, 1, m.end)

\* Log::open and Log::load: the prefix is there, whole, and leads from the
\* snapshot's sequence to the manifest's.
Checks(m, snapshot, changes) ==
    /\ m.end <= Len(changes)
    /\ \A i \in 1 .. m.end : changes[i] # Torn
    /\ m.seq = Len(snapshot) + m.end

--------------------------------------------------------------------------------
(* Writer::publish_changes: append, sync, publish the manifest.            *)

BeginAppend ==
    /\ pc = "idle"
    /\ nextTx <= MaxTx
    /\ nextTx' = nextTx + 1
    /\ job' = [kind |-> "append",
               man |-> [mem EXCEPT !.seq = @ + 1, !.end = @ + 1],
               view |-> Append(view, nextTx)]
    /\ pc' = "append"
    /\ UNCHANGED <<fileVars, mem, view, failures, readerVars>>

\* publication::append writes at the manifest's log_end.
WriteLog ==
    /\ pc = "append"
    /\ \/ /\ log' = [log EXCEPT ![mem.cp] =
                        Append(SubSeq(@, 1, mem.end), job.view[Len(job.view)])]
          /\ pc' = "logsync"
          /\ UNCHANGED <<job, mem, view, failures>>
       \/ /\ log' = [log EXCEPT ![mem.cp] = Append(SubSeq(@, 1, mem.end), Torn)]
          /\ Down
          /\ Failing
    /\ UNCHANGED <<cur, stCur, names, stNames, snap, synced, nextTx, readerVars>>

\* A variant of SyncLog that trusts the write.
SyncLogSkipped ==
    /\ pc = "logsync"
    /\ pc' = "manifest"
    /\ UNCHANGED <<fileVars, job, mem, view, nextTx, failures, readerVars>>

SyncLog ==
    /\ pc = "logsync"
    /\ synced' = [synced EXCEPT ![mem.cp] = log[mem.cp]]
    /\ pc' = "manifest"
    /\ UNCHANGED <<cur, stCur, names, stNames, snap, log, job, mem, view, nextTx, failures, readerVars>>

\* publish_manifest: current.tmp is written, synced and renamed.
RenameManifest ==
    /\ pc = "manifest"
    /\ cur' = {job.man}
    /\ pc' = "dirsync"
    /\ UNCHANGED <<stCur, names, stNames, snap, log, synced, job, mem, view, nextTx, failures, readerVars>>

\* The directory's sync acknowledges an append.  A new pair goes on to
\* retire the old one; a created catalog is opened.
SyncDirectory ==
    /\ pc = "dirsync"
    /\ stCur' = cur
    /\ stNames' = names
    /\ \/ /\ job.kind = "append"
          /\ Accept(job.man, job.view)
       \/ /\ job.kind \in {"checkpoint", "rebuild"}
          /\ pc' = "cleanup"
          /\ UNCHANGED <<job, mem, view>>
       \/ /\ job.kind = "create"
          /\ Down
    /\ UNCHANGED <<cur, names, snap, log, synced, nextTx, failures, readerVars>>

--------------------------------------------------------------------------------
(* Writer::checkpoint_view, Writer::rebuild_checkpoint and                 *)
(* create_if_absent: a new pair of files, then the manifest.               *)

\* An abandoned number is never used again while its files are there.
Unused(from, n) ==
    /\ from <= n
    /\ Pair(n) \cap names = {}
    /\ \A k \in from .. n - 1 : Pair(k) \cap names # {}

BeginPair(kind, from, new) ==
    /\ \E n \in Checkpoint :
          /\ Unused(from, n)
          /\ job' = [kind |-> kind,
                     man |-> [cp |-> n, seq |-> Len(new), end |-> 0],
                     view |-> new]
    /\ pc' = "snapshot"
    /\ UNCHANGED <<fileVars, mem, view, failures, readerVars>>

\* Compaction, or a commit that reached the log's limits.
BeginCheckpoint ==
    /\ pc = "idle"
    /\ \/ /\ BeginPair("checkpoint", mem.cp + 1, view)
          /\ UNCHANGED nextTx
       \/ /\ nextTx <= MaxTx
          /\ BeginPair("checkpoint", mem.cp + 1, Append(view, nextTx))
          /\ nextTx' = nextTx + 1

\* A full recrawl: Generation::successor.
BeginRebuild ==
    /\ pc = "idle"
    /\ nextTx <= MaxTx
    /\ BeginPair("rebuild", mem.cp + 1, Append(view, nextTx))
    /\ nextTx' = nextTx + 1

\* Nothing is published yet: Generation::fresh.
BeginCreate ==
    /\ pc = "down"
    /\ cur = {}
    /\ BeginPair("create", 0, <<>>)
    /\ UNCHANGED nextTx

RenameSnapshot ==
    /\ pc = "snapshot"
    /\ names' = names \cup {<<"snapshot", job.man.cp>>}
    /\ snap' = [snap EXCEPT ![job.man.cp] = job.view]
    /\ pc' = "header"
    /\ UNCHANGED <<cur, stCur, stNames, log, synced, job, mem, view, nextTx, failures, readerVars>>

RenameHeader ==
    /\ pc = "header"
    /\ names' = names \cup {<<"changes", job.man.cp>>}
    /\ log' = [log EXCEPT ![job.man.cp] = <<>>]
    /\ synced' = [synced EXCEPT ![job.man.cp] = <<>>]
    /\ pc' = "pairsync"
    /\ UNCHANGED <<cur, stCur, stNames, snap, job, mem, view, nextTx, failures, readerVars>>

\* A variant of SyncPair that leaves the pair to the manifest's sync.
SyncPairSkipped ==
    /\ pc = "pairsync"
    /\ pc' = "manifest"
    /\ UNCHANGED <<fileVars, job, mem, view, nextTx, failures, readerVars>>

SyncPair ==
    /\ pc = "pairsync"
    /\ stCur' = cur
    /\ stNames' = names
    /\ pc' = "manifest"
    /\ UNCHANGED <<cur, names, snap, log, synced, job, mem, view, nextTx, failures, readerVars>>

--------------------------------------------------------------------------------
(* Errors, and the end of the writer's process.  A poisoned writer does    *)
(* what a new process would do: it opens what is published.                *)

\* A variant of Stop that does not poison the writer.
StopReady ==
    /\ pc # "down"
    /\ Accept(mem, view)
    /\ Failing
    /\ UNCHANGED <<fileVars, nextTx, readerVars>>

Stop ==
    /\ pc # "down"
    /\ Down
    /\ Failing
    /\ UNCHANGED <<fileVars, nextTx, readerVars>>

\* A rebuild that published nothing leaves the writer as it was.
RebuildFail ==
    /\ job.kind = "rebuild"
    /\ pc \in {"snapshot", "header", "pairsync", "manifest"}
    /\ Accept(mem, view)
    /\ Failing
    /\ UNCHANGED <<fileVars, nextTx, readerVars>>

--------------------------------------------------------------------------------
(* Writer::open_locked: validate, truncate, sync, clean up.                *)

Open ==
    /\ pc = "down"
    /\ \E m \in cur :
          /\ Pair(m.cp) \subseteq names
          /\ Checks(m, snap[m.cp], log[m.cp])
          /\ job' = [kind |-> "open", man |-> m,
                     view |-> ViewOf(m, snap[m.cp], log[m.cp])]
          /\ log' = [log EXCEPT ![m.cp] = SubSeq(@, 1, m.end)]
          /\ pc' = IF Len(log[m.cp]) > m.end THEN "truncsync" ELSE "opensync"
    /\ UNCHANGED <<cur, stCur, names, stNames, snap, synced, mem, view, nextTx, failures, readerVars>>

SyncTruncated ==
    /\ pc = "truncsync"
    /\ synced' = [synced EXCEPT ![job.man.cp] = log[job.man.cp]]
    /\ pc' = "opensync"
    /\ UNCHANGED <<cur, stCur, names, stNames, snap, log, job, mem, view, nextTx, failures, readerVars>>

\* A variant of SyncOpened that syncs nothing.
SyncOpenedSkipped ==
    /\ pc = "opensync"
    /\ pc' = "cleanup"
    /\ UNCHANGED <<fileVars, job, mem, view, nextTx, failures, readerVars>>

\* Whatever rename came before becomes durable.
SyncOpened ==
    /\ pc = "opensync"
    /\ stCur' = cur
    /\ stNames' = names
    /\ pc' = "cleanup"
    /\ UNCHANGED <<cur, names, snap, log, synced, job, mem, view, nextTx, failures, readerVars>>

\* log::cleanup, or the two removals at the end of Transaction::publish.
Obsolete ==
    IF job.kind = "rebuild" THEN names \cap Pair(mem.cp)
                            ELSE names \ Pair(job.man.cp)

Remove ==
    /\ pc = "cleanup"
    /\ \E x \in Obsolete : names' = names \ {x}
    /\ UNCHANGED <<cur, stCur, stNames, snap, log, synced, writerVars, failures, readerVars>>

\* Only opening insists that everything obsolete is gone.
Ready ==
    /\ pc = "cleanup"
    /\ job.kind = "open" => Obsolete = {}
    /\ Accept(job.man, job.view)
    /\ UNCHANGED <<fileVars, nextTx, failures, readerVars>>

--------------------------------------------------------------------------------
(* A power loss: every directory entry and every log written since its     *)
(* last sync is as it was or as it is, each by itself, and a log may also  *)
(* have lost the middle.                                                   *)

Unsynced == {n \in Checkpoint : log[n] # synced[n]}

\* The part of a log that its last sync made durable, and then garbage.
TornLog(n) ==
    LET same == {k \in 0 .. Len(log[n]) :
                   k <= Len(synced[n]) /\ SubSeq(log[n], 1, k) = SubSeq(synced[n], 1, k)}
    IN  Append(SubSeq(log[n], 1, CHOOSE k \in same : \A i \in same : i <= k), Torn)

PowerLoss ==
    /\ Failing
    /\ cur' \in {cur, stCur}
    /\ stCur' = cur'
    /\ \E x \in SUBSET ((stNames \cup names) \ (stNames \cap names)) :
          names' = (stNames \cap names) \cup x
    /\ stNames' = names'
    /\ \E kept, torn \in SUBSET Unsynced :
          log' = [n \in Checkpoint |-> IF n \in kept THEN log[n]
                                      ELSE IF n \in torn THEN TornLog(n)
                                      ELSE synced[n]]
    /\ synced' = log'
    /\ Down
    /\ rdPc' = "idle" /\ rdMan' = {} /\ rdSnap' = <<>> /\ rdView' = {}
    /\ UNCHANGED <<snap, nextTx, reads>>

--------------------------------------------------------------------------------
(* Published::open, in a process without the lock.                         *)

ReadManifest ==
    /\ \/ rdPc = "idle" /\ reads < MaxReads /\ reads' = reads + 1
       \/ rdPc = "again" /\ UNCHANGED reads
    /\ cur # {}
    /\ rdMan' = cur
    /\ rdPc' = "manifest"
    /\ UNCHANGED <<fileVars, writerVars, failures, rdSnap, rdView>>

OpenSnapshot ==
    /\ rdPc = "manifest"
    /\ \E m \in rdMan :
          \/ /\ <<"snapshot", m.cp>> \in names
             /\ rdSnap' = snap[m.cp]
             /\ rdPc' = "snapshot"
          \/ /\ <<"snapshot", m.cp>> \notin names
             /\ rdPc' = "missing"
             /\ UNCHANGED rdSnap
    /\ UNCHANGED <<fileVars, writerVars, failures, rdMan, rdView, reads>>

OpenLog ==
    /\ rdPc = "snapshot"
    /\ \E m \in rdMan :
          \/ /\ <<"changes", m.cp>> \notin names
             /\ rdPc' = "missing"
             /\ UNCHANGED rdView
          \/ /\ <<"changes", m.cp>> \in names
             /\ Checks(m, rdSnap, log[m.cp])
             /\ rdView' = {ViewOf(m, rdSnap, log[m.cp])}
             /\ rdPc' = "idle"
          \/ /\ <<"changes", m.cp>> \in names
             /\ ~Checks(m, rdSnap, log[m.cp])
             /\ rdPc' = "corrupt"
             /\ UNCHANGED rdView
    /\ UNCHANGED <<fileVars, writerVars, failures, rdMan, rdSnap, reads>>

\* A variant of Recheck that identifies a view by its sequence alone.
RecheckSequence ==
    /\ rdPc = "missing"
    /\ rdPc' = IF \E m \in cur, r \in rdMan : m.seq # r.seq
               THEN "again" ELSE "failed"
    /\ UNCHANGED <<fileVars, writerVars, failures, rdMan, rdSnap, rdView, reads>>

\* A missing file is an error unless the generation has changed meanwhile.
Recheck ==
    /\ rdPc = "missing"
    /\ rdPc' = IF \E m \in cur, r \in rdMan : m.cp # r.cp \/ m.seq # r.seq
               THEN "again" ELSE "failed"
    /\ UNCHANGED <<fileVars, writerVars, failures, rdMan, rdSnap, rdView, reads>>

--------------------------------------------------------------------------------
Next ==
    \/ BeginAppend \/ WriteLog \/ SyncLog \/ RenameManifest \/ SyncDirectory
    \/ BeginCheckpoint \/ BeginRebuild \/ BeginCreate
    \/ RenameSnapshot \/ RenameHeader \/ SyncPair
    \/ Stop \/ RebuildFail
    \/ Open \/ SyncTruncated \/ SyncOpened \/ Remove \/ Ready
    \/ PowerLoss
    \/ ReadManifest \/ OpenSnapshot \/ OpenLog \/ Recheck

Spec == Init /\ [][Next]_vars

\* A call of the writer runs to its end, and a poisoned or new writer opens
\* what is published before its next write (Engine::recover_failed_write).
Advance ==
    \/ BeginCreate \/ Open \/ SyncTruncated \/ SyncOpened \/ Remove \/ Ready
    \/ WriteLog \/ SyncLog \/ RenameManifest \/ SyncDirectory
    \/ RenameSnapshot \/ RenameHeader \/ SyncPair

--------------------------------------------------------------------------------
(* Properties.                                                             *)

\* What a reader that opens the catalog now sees, and what a power loss now
\* would leave of it.
Visible == IF cur = {} THEN <<>>
           ELSE LET m == CHOOSE m \in cur : TRUE IN ViewOf(m, snap[m.cp], log[m.cp])

Durable == IF stCur = {} THEN <<>>
           ELSE LET m == CHOOSE m \in stCur : TRUE IN ViewOf(m, snap[m.cp], synced[m.cp])

History == INSTANCE CommitHistory WITH history <- Visible, sure <- Durable

\* The files implement one history of transactions, published whole, each
\* only after those before it are durable: Writer::publish_changes refuses
\* to build on an uncertain publication.
RefinesHistory == History!Spec

\* Whatever a power loss does now to unsynced entries and log bytes, the
\* manifest it leaves names a pair that passes Log::open's checks.
OutcomesOpen ==
    \A m \in cur \cup stCur :
        /\ Pair(m.cp) \subseteq names \cap stNames
        /\ Checks(m, snap[m.cp], log[m.cp])
        /\ Checks(m, snap[m.cp], synced[m.cp])

\* A writer that accepts a transaction has nothing left to lose: its view is
\* what is published, and durable (Writer::poisoned is false).
ReadyIsDurable ==
    /\ TypeOK
    /\ pc = "idle" => /\ cur = {mem} /\ stCur = {mem}
                      /\ Visible = view /\ Durable = view

\* No failure at any step, or during the recovery from one, leaves a catalog
\* that cannot be opened again: a writer that is not accepting transactions
\* has a step of its own to take.  Each takes its file operations one further,
\* so a writer that is scheduled gets back to accepting.
WriterRecovers == pc # "idle" => ENABLED Advance

\* Cleanup beside a reader never makes Published::open fail: it finds the
\* pair, or a newer generation to retry with.
ReaderNeverFails == rdPc \notin {"failed", "corrupt"}

\* A reader that opens the catalog again sees all it saw before.
ReaderAdvances ==
    [][\A v \in rdView, w \in rdView' :
          Len(v) <= Len(w) /\ SubSeq(w, 1, Len(v)) = v]_rdView
================================================================================
