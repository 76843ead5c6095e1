----------------------------- MODULE ContentEngine -----------------------------
(***************************************************************************)
(* The engine that owns a catalog and its content index: refreshes, follow *)
(* passes, merges, attach, reset, and the queries that pin both.           *)
(*                                                                         *)
(*   ferret engine.rs, engine/prepared.rs                                  *)
(*                                                                         *)
(* The engine holds two mutexes.  `writer` is taken by every operation     *)
(* that changes the catalog and by follow; `content` by follow and merge.  *)
(* A merge takes both, revokes the dormant permissions in its inputs, pins *)
(* a catalog view and then streams and publishes under `content` alone, so *)
(* refreshes commit beside it.  Queries take neither: they pin the         *)
(* selected catalog view with the selected index view.                     *)
(*                                                                         *)
(* Durable state is `disk` (the catalog) and `man` (the index's manifest). *)
(* A publication that fails may or may not have reached the disk: the      *)
(* catalog writer or the index writer is then poisoned.                    *)
(***************************************************************************)
EXTENDS ContentManifest

CONSTANTS
    MaxDoc,           \* bound: DocIds ever allocated in an incarnation
    MaxCommits,       \* bound: catalog transactions in an incarnation
    MaxPublications,  \* bound: an index manifest's sequence
    MaxIncarnations,  \* bound: catalogs made from nothing
    MaxPlans,         \* bound: runs merged under one pin (4 in the code)
    MaxFailures,        \* bound: failed publications and process deaths
    MaxReads          \* bound: times the query-only engine pins an index

ASSUME BoundsAssumption ==
    /\ MaxDoc \in Nat
    /\ MaxCommits \in Nat
    /\ MaxPublications \in Nat
    /\ MaxIncarnations \in Nat
    /\ MaxPlans \in Nat
    /\ MaxFailures \in Nat
    /\ MaxReads \in Nat

VARIABLES
    disk,        \* the published catalog
    poisoned,    \* the catalog writer's last publication is uncertain
    selCat,      \* the selected catalog view, also the writer's view
    man,         \* Option: the published index manifest
    cur,         \* Option: the attached index writer's view
    damaged,     \* the index writer is poisoned
    sel,         \* Option: the selected index view
    coverage,    \* Option: the coverage authorized for the running refresh
    wr,          \* what holds the writer mutex
    merge,       \* Option: the merge holding the content mutex
    rdPhase,     \* a query-only engine in another process
    rdFresh,     \* Option: the index view it has just pinned
    rdCat,       \* Option: its catalog view
    rdSel,       \* Option: its selected index view
    failures,      \* failed publications and process deaths so far
    reads        \* pins of the query-only engine so far

catalogVars == <<disk, poisoned, selCat>>
indexVars   == <<man, cur, damaged>>
readerVars  == <<rdPhase, rdFresh, rdCat, rdSel, reads>>
vars        == <<disk, poisoned, selCat, man, cur, damaged, sel, coverage,
                 wr, merge, rdPhase, rdFresh, rdCat, rdSel, failures, reads>>

\* The type of each variable: in particular no DocId bound, count or sequence
\* that the code computes by subtraction ever goes below zero.
TypeOK ==
    /\ disk \in Catalog
    /\ poisoned \in BOOLEAN
    /\ selCat \in Catalog
    /\ man \in SUBSET Manifest
    /\ cur \in SUBSET Manifest
    /\ damaged \in BOOLEAN
    /\ sel \in SUBSET Manifest
    /\ coverage \in SUBSET CoverageType
    /\ wr \in {"free", "refresh", "committed", "failed", "attach", "follow"}
    /\ merge \in SUBSET [pin : Catalog, runs : SUBSET (SUBSET Segment)]
    /\ rdPhase \in {"idle", "pinned"}
    /\ rdFresh \in SUBSET Manifest
    /\ rdCat \in SUBSET Catalog
    /\ rdSel \in SUBSET Manifest
    /\ failures \in Nat
    /\ reads \in Nat

Init ==
    /\ disk = FreshCatalog(0)
    /\ poisoned = FALSE
    /\ selCat = FreshCatalog(0)
    /\ man = {}
    /\ cur = {}
    /\ damaged = FALSE
    /\ sel = {}
    /\ coverage = {}
    /\ wr = "free"
    /\ merge = {}
    /\ rdPhase = "idle"
    /\ rdFresh = {}
    /\ rdCat = {}
    /\ rdSel = {}
    /\ failures = 0
    /\ reads = 0

\* A publication that fails, or the death of the process.
Failing == failures < MaxFailures /\ failures' = failures + 1

--------------------------------------------------------------------------------
(* Selection: what later query pins see.                                   *)

\* Engine::select: a new catalog view keeps the index of its incarnation.
KeptContent(view) == {c \in sel : c.inc = view.inc}

\* Engine::select_content, beside catalog view k.
SelectContent(c, selected, k) ==
    IF Fits(c, k) /\ \A s \in selected : s.seq <= c.seq THEN {c} ELSE selected

\* Engine::authorize_content: the coverage a refresh may rely on.
Authorized ==
    {[frontier |-> c.frontier, unreadable |-> c.unreadable] :
        c \in {c \in sel : Fits(c, selCat)}}

--------------------------------------------------------------------------------
(* Engine::refresh and Engine::index_change.                               *)

RefreshBegin ==
    /\ wr = "free"
    /\ wr' = "refresh"
    /\ coverage' = Authorized
    /\ UNCHANGED <<catalogVars, indexVars, sel, merge, readerVars, failures>>

\* k is what some recrawl makes of the writer's view: any contents in the
\* tree, the new ones numbered in the order the walk met them.
RecrawledTo(k) ==
    /\ selCat.seq < MaxCommits
    /\ \E tree \in SUBSET Hash, last \in selCat.next .. MaxDoc :
          \E ids \in Bijection(Unknown(selCat, coverage, tree),
                               selCat.next .. last - 1) :
             k = Recrawl(selCat, coverage, tree, ids, last)

RefreshCommit ==
    /\ wr = "refresh"
    /\ ~poisoned
    /\ RecrawledTo(disk')
    /\ wr' = "committed"
    /\ UNCHANGED <<poisoned, selCat, indexVars, sel, coverage, merge, readerVars, failures>>

RefreshSelect ==
    /\ wr = "committed"
    /\ selCat' = disk
    /\ sel' = KeptContent(disk)
    /\ coverage' = {}
    /\ wr' = "free"
    /\ UNCHANGED <<disk, poisoned, indexVars, merge, readerVars, failures>>

\* An observation or admission error before publication.
RefreshAbort ==
    /\ wr = "refresh"
    /\ coverage' = {}
    /\ wr' = "free"
    /\ UNCHANGED <<catalogVars, indexVars, sel, merge, readerVars, failures>>

\* Publication failed, before or after the manifest's rename.
RefreshFail ==
    /\ wr = "refresh"
    /\ ~poisoned
    /\ UNCHANGED disk \/ RecrawledTo(disk')
    /\ poisoned' = TRUE
    /\ coverage' = {}
    /\ wr' = "failed"
    /\ Failing
    /\ UNCHANGED <<selCat, indexVars, sel, merge, readerVars>>

\* The writer refuses the transaction: an earlier publication is uncertain,
\* or the checkpoint it calls for was deferred.
RefreshRefused ==
    /\ wr = "refresh"
    /\ coverage' = {}
    /\ wr' = "failed"
    /\ UNCHANGED <<catalogVars, indexVars, sel, merge, readerVars, failures>>

\* Engine::recover_failed_write: the writer reopens what is published, or is
\* left poisoned.
Recover ==
    /\ wr = "failed"
    /\ wr' = "free"
    /\ \/ /\ poisoned' = FALSE
          /\ selCat' = disk
          /\ sel' = KeptContent(disk)
       \/ poisoned' = TRUE /\ UNCHANGED <<selCat, sel>>
    /\ UNCHANGED <<disk, indexVars, coverage, merge, readerVars, failures>>

--------------------------------------------------------------------------------
(* Engine::attach_content.                                                 *)

\* A variant of AttachOpen that takes any index it can read.
AttachOpenUnchecked ==
    /\ wr = "free"
    /\ merge = {}
    /\ man # {}
    /\ sel' = {}
    /\ damaged' = FALSE
    /\ cur' = man
    /\ wr' = "attach"
    /\ UNCHANGED <<catalogVars, man, coverage, merge, readerVars, failures>>

\* IndexWriter::open_with: an absent, foreign or unreadable index is replaced
\* by an empty one, whose sequence starts over.
AttachOpen ==
    /\ wr = "free"
    /\ merge = {}
    /\ sel' = {}
    /\ damaged' = FALSE
    /\ \/ /\ \E m \in man : Fits(m, selCat) /\ cur' = {m}
          /\ wr' = "attach"
          /\ UNCHANGED man
       \/ /\ man' = {Emptied(EmptyManifest(selCat.inc), selCat.inc)}
          /\ cur' = man'
          /\ wr' = "attach"
    /\ UNCHANGED <<catalogVars, coverage, merge, readerVars, failures>>

\* Opening failed, perhaps after the empty manifest replaced the old one.
AttachError ==
    /\ wr = "free"
    /\ merge = {}
    /\ man' \in {man, {Emptied(EmptyManifest(selCat.inc), selCat.inc)}}
    /\ cur' = {}
    /\ sel' = {}
    /\ Failing
    /\ UNCHANGED <<catalogVars, damaged, coverage, wr, merge, readerVars>>

\* A reset index, or one without segments, first clears every permission.
AttachInstall ==
    /\ wr = "attach"
    /\ wr' = "free"
    /\ \E m \in cur :
          /\ \/ m.segs # {} /\ UNCHANGED catalogVars
             \/ /\ m.segs = {}
                /\ ~poisoned
                /\ disk' = ClearDormant(selCat)
                /\ selCat' = disk'
                /\ UNCHANGED poisoned
          /\ sel' = SelectContent(m, sel, selCat')
    /\ UNCHANGED <<indexVars, coverage, merge, readerVars, failures>>

\* The writer refused to clear them, or failed to publish it.
AttachFail ==
    /\ wr = "attach"
    /\ wr' = "free"
    /\ \E m \in cur : m.segs = {}
    /\ \/ UNCHANGED <<disk, poisoned, failures>>
       \/ /\ ~poisoned
          /\ disk' \in {disk, ClearDormant(selCat)}
          /\ poisoned' = TRUE
          /\ Failing
    /\ cur' = {}
    /\ UNCHANGED <<selCat, man, damaged, sel, coverage, merge, readerVars>>

--------------------------------------------------------------------------------
(* Engine::follow_content and Engine::try_follow_content.                  *)

\* IndexWriter::reconcile, then the pass.
FollowBase(m) == IF Fits(m, selCat) THEN m ELSE Emptied(m, selCat.inc)

FollowResults(m) ==
    {Followed(FollowBase(m), selCat, x[1], x[2]) :
        x \in {y \in Stops(FollowBase(m), selCat) \X SUBSET Ids(selCat.live) :
                  /\ y[2] \subseteq Ids(Reached(FollowBase(m), selCat, y[1]))
                  /\ ~FollowIdle(FollowBase(m), selCat, y[1])}}

\* One publication of a pass.  A pass whose buffers fill publishes several
\* before it gives its view to queries.
FollowPublish ==
    /\ wr \in {"free", "follow"}
    /\ merge = {}
    /\ ~damaged
    /\ \E m \in cur :
          /\ m.seq < MaxPublications
          /\ \E new \in FollowResults(m) : man' = {new} /\ cur' = {new}
    /\ wr' = "follow"
    /\ UNCHANGED <<catalogVars, damaged, sel, coverage, merge, readerVars, failures>>

FollowFail ==
    /\ wr \in {"free", "follow"}
    /\ merge = {}
    /\ ~damaged
    /\ \E m \in cur :
          /\ m.seq < MaxPublications
          /\ man' \in {man} \cup {{new} : new \in FollowResults(m)}
    /\ damaged' = TRUE
    /\ wr' = "follow"
    /\ Failing
    /\ UNCHANGED <<catalogVars, cur, sel, coverage, merge, readerVars>>

FollowSelect ==
    /\ wr = "follow"
    /\ wr' = "free"
    /\ \E m \in cur : sel' = SelectContent(m, sel, selCat)
    /\ UNCHANGED <<catalogVars, indexVars, coverage, merge, readerVars, failures>>

--------------------------------------------------------------------------------
(* Engine::merge_content, merge_content_at, merge_all_content and          *)
(* merge_closing_content: PreparedMerge and prepared::closing.             *)

\* Disjoint runs of the current segments, a superset of what the merge
\* policy selects.
Plans(m) ==
    {runs \in SUBSET {r \in SUBSET m.segs : IsRun(r, m)} :
        /\ runs # {}
        /\ Cardinality(runs) <= MaxPlans
        /\ \A r, t \in runs : r # t => r \cap t = {}}

\* A variant of Revoked that leaves every permission.
RevokedNothing(k, runs) == k

\* The permissions a merge of these runs must revoke: MergePlan::ranges.
Revoked(k, runs) ==
    ForgetDormant(k, {id \in Ids(k.dormant) : \E s \in UNION runs : InRange(id, s)})

MergePrepare ==
    /\ wr = "free"
    /\ merge = {}
    /\ ~damaged
    /\ ~poisoned
    /\ \E m \in cur :
          /\ Fits(m, selCat)
          /\ \E runs \in Plans(m) :
                /\ disk' = Revoked(selCat, runs)
                /\ selCat' = disk'
                /\ merge' = {[pin |-> disk', runs |-> runs]}
    /\ UNCHANGED <<poisoned, indexVars, sel, coverage, wr, readerVars, failures>>

\* A revocation's publication failed: no merge, an uncertain catalog, and the
\* plans before it already revoked.
MergePrepareFail ==
    /\ wr = "free"
    /\ merge = {}
    /\ ~damaged
    /\ ~poisoned
    /\ \E m \in cur :
          /\ Fits(m, selCat)
          /\ \E runs \in Plans(m) : \E done \in SUBSET runs \ {runs} :
                /\ selCat' = Revoked(selCat, done)
                /\ disk' \in {selCat', Revoked(selCat, runs)}
    /\ poisoned' = TRUE
    /\ Failing
    /\ UNCHANGED <<indexVars, sel, coverage, wr, merge, readerVars>>

\* A variant of MergePublish that filters by the latest view, not the pin.
MergePublishLatest ==
    /\ ~damaged
    /\ \E g \in merge, m \in cur :
          /\ m.seq < MaxPublications
          /\ \E run \in g.runs :
                /\ man' = {Merged(m, run, selCat)}
                /\ cur' = man'
                /\ merge' = {[g EXCEPT !.runs = @ \ {run}]}
    /\ UNCHANGED <<catalogVars, damaged, sel, coverage, wr, readerVars, failures>>

\* One run's output is installed and published; refreshes run beside it.
MergePublish ==
    /\ ~damaged
    /\ \E g \in merge, m \in cur :
          /\ m.seq < MaxPublications
          /\ \E run \in g.runs :
                LET new == Merged(m, run, g.pin)
                IN  /\ man' = {new}
                    /\ cur' = {new}
                    /\ merge' = {[g EXCEPT !.runs = @ \ {run}]}
    /\ UNCHANGED <<catalogVars, damaged, sel, coverage, wr, readerVars, failures>>

MergeFail ==
    /\ ~damaged
    /\ \E g \in merge, m \in cur :
          /\ m.seq < MaxPublications
          /\ \E run \in g.runs : man' \in {man, {Merged(m, run, g.pin)}}
    /\ damaged' = TRUE
    /\ Failing
    /\ UNCHANGED <<catalogVars, cur, sel, coverage, wr, merge, readerVars>>

\* Finished, failed, or cancelled between two publications.
MergeSelect ==
    /\ merge # {}
    /\ merge' = {}
    /\ \E m \in cur : sel' = SelectContent(m, sel, selCat)
    /\ UNCHANGED <<catalogVars, indexVars, coverage, wr, readerVars, failures>>

--------------------------------------------------------------------------------
(* Engine::reset_content.                                                  *)

Reset ==
    /\ wr = "free"
    /\ merge = {}
    /\ ~poisoned
    /\ disk' = ClearDormant(selCat)
    /\ selCat' = disk'
    /\ \E m \in cur :
          LET empty == Emptied(m, selCat.inc)
          IN  \/ /\ ~damaged
                 /\ m.seq < MaxPublications
                 /\ man' = {empty}
                 /\ cur' = {empty}
                 /\ sel' = SelectContent(empty, sel, disk')
                 /\ UNCHANGED failures
              \/ /\ \/ damaged /\ UNCHANGED <<man, failures>>
                    \/ ~damaged /\ man' \in {man, {empty}} /\ Failing
                 /\ cur' = {}
                 /\ sel' = {}
    /\ UNCHANGED <<poisoned, damaged, coverage, wr, merge, readerVars>>

ResetFail ==
    /\ wr = "free"
    /\ merge = {}
    /\ cur # {}
    /\ ~poisoned
    /\ disk' \in {disk, ClearDormant(selCat)}
    /\ poisoned' = TRUE
    /\ Failing
    /\ UNCHANGED <<selCat, indexVars, sel, coverage, wr, merge, readerVars>>

--------------------------------------------------------------------------------
(* The end of a writer process, at any step, and the next one's start.     *)

StartedOn(catalog, manifest) ==
    /\ disk' = catalog
    /\ selCat' = catalog
    /\ poisoned' = FALSE
    /\ man' = manifest
    /\ cur' = {}
    /\ damaged' = FALSE
    /\ sel' = {}
    /\ coverage' = {}
    /\ wr' = "free"
    /\ merge' = {}
    /\ Failing

Restart ==
    /\ StartedOn(disk, man)
    /\ UNCHANGED readerVars

\* Every process ends, and a manifest whose rename was not made durable may
\* be replaced by the one before it.
PowerLoss ==
    /\ \E k \in {disk} \cup {v \in {selCat} : poisoned},
          m \in {man} \cup {v \in {cur} : damaged} : StartedOn(k, m)
    /\ rdPhase' = "idle"
    /\ rdFresh' = {}
    /\ rdCat' = {}
    /\ rdSel' = {}
    /\ UNCHANGED reads

\* Transaction::begin on a catalog of another format: nothing is carried.
Reincarnate ==
    /\ disk.inc < MaxIncarnations
    /\ StartedOn(FreshCatalog(disk.inc + 1), man)
    /\ UNCHANGED readerVars

--------------------------------------------------------------------------------
(* Engine::open_with_content and Engine::reload_with_content, without the  *)
(* writer lock: the index is pinned before the catalog is read.            *)

ReaderPin ==
    /\ rdPhase = "idle"
    /\ rdPhase' = "pinned"
    /\ reads < MaxReads
    /\ reads' = reads + 1
    /\ rdFresh' \in {man, {}}
    /\ UNCHANGED <<catalogVars, indexVars, sel, coverage, wr, merge, rdCat, rdSel, failures>>

\* A variant of ReaderPair that keeps the index at hand beside a new catalog.
ReaderPairKept ==
    /\ rdPhase = "pinned"
    /\ rdPhase' = "idle"
    /\ rdFresh' = {}
    /\ rdCat' = {disk}
    /\ rdSel' = IF rdFresh = {} THEN rdSel ELSE rdFresh
    /\ UNCHANGED <<catalogVars, indexVars, sel, coverage, wr, merge, failures, reads>>

\* The catalog is loaded, unless its generation is still the one at hand: a
\* compaction alone also changes the generation.
ReaderPair ==
    /\ rdPhase = "pinned"
    /\ rdPhase' = "idle"
    /\ rdFresh' = {}
    /\ rdCat' = {disk}
    /\ \/ rdSel' = UNION {SelectContent(c, {}, disk) : c \in rdFresh}
       \/ /\ disk \in rdCat
          /\ rdSel' = IF rdFresh = {} THEN rdSel
                      ELSE UNION {SelectContent(c, rdSel, disk) : c \in rdFresh}
    /\ UNCHANGED <<catalogVars, indexVars, sel, coverage, wr, merge, failures, reads>>

--------------------------------------------------------------------------------
Next ==
    \/ RefreshBegin \/ RefreshCommit \/ RefreshSelect
    \/ RefreshAbort \/ RefreshFail \/ RefreshRefused \/ Recover
    \/ AttachOpen \/ AttachError \/ AttachInstall \/ AttachFail
    \/ FollowPublish \/ FollowFail \/ FollowSelect
    \/ MergePrepare \/ MergePrepareFail \/ MergePublish \/ MergeFail \/ MergeSelect
    \/ Reset \/ ResetFail
    \/ Restart \/ PowerLoss \/ Reincarnate
    \/ ReaderPin \/ ReaderPair

Spec == Init /\ [][Next]_vars

--------------------------------------------------------------------------------
(* Properties.                                                             *)

\* Every live document of k is found through m by its own content, or is one
\* of those a query reads for itself.
Answers(m, k) ==
    \A p \in k.live : p \in Uncovered(m, k) \/ p \in Indexed(m)

\* A query pins Engine's selected catalog view and index view together.  It
\* misses no document: whatever refreshes, merges and follow passes ran since
\* the index view was published, a live document is indexed by its own
\* content or is left to the query by View::uncovered_set.
QueryComplete == \A c \in sel : Fits(c, selCat) /\ Answers(c, selCat)

\* The same of a query-only engine in another process (Engine::open_pair),
\* which holds no lock and reads the index before the catalog.
ReaderComplete == \A c \in rdSel, k \in rdCat : Fits(c, k) /\ Answers(c, k)

\* Whatever step a process dies at, an index on disk that passes fits_bounds
\* for the catalog on disk answers for it: open_with checks nothing else.
RestartComplete == \A m \in man : Fits(m, disk) => Answers(m, disk)

\* A dormant permission lets a returning hash take an old DocId back without
\* its content being read again.  Every permission published is for a
\* document the attached index has postings for (dormant::prepare,
\* forget_dormant before a merge, clear_dormant before an empty index).
PermissionsBacked ==
    wr # "attach" => \A m \in cur, p \in disk.dormant :
        Covers(m, p.id) /\ p \in Indexed(m)

\* IndexWriter::reconcile throws the whole index away when it does not fit
\* the writer's view.  While an index is attached that never happens.
NeverDiscarded == \A m \in cur : Fits(m, selCat)

\* What is published passes the checks its readers make of it.  Every manifest
\* passes Manifest::is_consistent, without which the next open would rebuild
\* the index from nothing.  A segment entry counts its postings, and the live
\* documents in its range never exceed that count: `alive` is subtracted from
\* it to choose merges, and its comment argues that revival cannot push it
\* over.  The dormant table is as dormant::check and State::advance require:
\* within its cap, one id for a hash, none of a live document, and older than
\* a live document with its hash.
PublishedValid ==
    /\ \A m \in man \cup cur : IsConsistent(m)
    /\ \A m \in cur \cup man \cup sel : \A s \in m.segs :
          /\ s.count = Cardinality(s.docs)
          /\ Fits(m, disk) => Alive(s, disk.live, m.unreadable) <= s.count
    /\ Cardinality(disk.dormant) <= DormantCap
    /\ \A p, q \in disk.dormant : p.hash = q.hash => p = q
    /\ \A p \in disk.dormant, q \in disk.live :
          p.id # q.id /\ (p.hash = q.hash => p.id < q.id)
================================================================================
