--------------------------------- MODULE Watch ---------------------------------
(***************************************************************************)
(* A daemon that keeps its catalog fresh: the disk changes, the kernel     *)
(* queues events, the intake thread takes them, and the writer observes    *)
(* what they say, while all of it goes on.                                 *)
(*                                                                         *)
(*   ferret-crawl/src/watch.rs (event, take, finish, defer, reconcile),    *)
(*   refresh.rs, index/source.rs, index/hasher.rs, walk/enter.rs;          *)
(*   ferret/src/daemon/writer/background.rs, writer/commands.rs            *)
(*                                                                         *)
(* `view` is the identity the catalog records at each place; `dirty` are   *)
(* the directories whose files, or the rules for them, differ from what    *)
(* it records.  The debounce, the cool-down after a failure and the        *)
(* scheduler's pauses are time, and time is the choice of what steps next. *)
(***************************************************************************)
EXTENDS WatchState

CONSTANTS
    InitDisk,      \* the directories there are at the start
    Refusable,     \* the directories inotify may refuse to watch
    ReuseIds,      \* whether a new directory may get a removed one's identity
    MaxChanges,    \* bound: changes of the disk
    MaxFaults,     \* bound: failures of any kind
    MaxTimers,     \* bound: hourly backstops
    MaxCommands    \* bound: `ferret index` commands

ASSUME DiskAssumption ==
    /\ InitDisk \in [Sub -> SubId \cup {None}]
    /\ Refusable \subseteq Identity
    /\ ReuseIds \in BOOLEAN
    /\ {MaxChanges, MaxFaults, MaxTimers, MaxCommands} \subseteq Nat

VARIABLES
    disk,        \* the identity at each place
    view,        \* the identity the catalog has there
    dirty,
    retained,    \* places the last refresh of them could not observe
    dead,        \* identities whose directory was removed
    kernel,
    watch,
    writer,
    spent        \* how much of each bound is used

vars == <<disk, view, dirty, retained, dead, kernel, watch, writer, spent>>

Tree == [Place -> Identity \cup {None}]

WriterType ==
    [at : {"idle", "admit", "walk", "list", "subs", "sub", "commit",
           "settle", "sweep"},
     command : BOOLEAN,                    \* a command, not a burst
     burst : Burst,
     inputs : SUBSET Root,                 \* roots whose global inputs are not yet watched
     places : SUBSET Place,                \* what to observe,
     complete : SUBSET Root,               \*   and the roots that is all of
     todo : SUBSET Root,
     root : Root \cup {None}, left : SUBSET Sub, sub : Sub \cup {None},
     found : [Sub -> SubId \cup {None}],
     seen : [Place -> {"no", "current", "behind", "fault"}],
     gone : SUBSET Wd,                     \* retired, to be removed under the mutex
     sweep : SUBSET [wd : Wd, dirs : SUBSET Directory]]

\* The type of every variable, and the caps of the watch: on hints, on installed
\* watches, and on the failures of a root that are remembered one by one.
TypeOK ==
    /\ disk \in Tree /\ view \in Tree
    /\ dirty \subseteq Place /\ retained \subseteq Place
    /\ dead \subseteq SubId
    /\ kernel \in KernelType
    /\ watch \in StateType
    /\ Cardinality(watch.pending) <= ScopeCap
    /\ Installed(watch) <= WatchCap
    /\ \A r \in Root : Exact(watch.failures[r]) <= ExactFailures
    /\ writer \in WriterType
    /\ spent \in [changes : 0 .. MaxChanges, faults : 0 .. MaxFaults,
                  timers : 0 .. MaxTimers, commands : 0 .. MaxCommands]

NoBurst == [pending |-> {}, marker |-> NoMarker, roots |-> {}]

IdleWriter ==
    [at |-> "idle", command |-> FALSE, burst |-> NoBurst, inputs |-> {}, places |-> {},
     complete |-> {}, todo |-> {}, root |-> None, left |-> {}, sub |-> None,
     found |-> [c \in Sub |-> None], seen |-> [p \in Place |-> "no"], gone |-> {}, sweep |-> {}]

DiskTree(subs) == [p \in Place |-> IF p \in Root THEN p ELSE subs[p]]

\* Background::new and load: the catalog has its roots and nothing below them, the
\* watch has a backstop to refresh and none of its watches
Init ==
    /\ disk = DiskTree(InitDisk)
    /\ view = DiskTree([c \in Sub |-> None])
    /\ dirty = {p \in Place : disk[p] # None}
    /\ retained = {}
    /\ dead = {}
    /\ kernel = [live |-> [wd \in Wd |-> None], next |-> 1, queue |-> <<>>]
    /\ watch = Loss(NewState, "Backstop")
    /\ writer = IdleWriter
    /\ spent = [changes |-> 0, faults |-> 0, timers |-> 0, commands |-> 0]

Spend(what, max) ==
    /\ spent[what] < max
    /\ spent' = [spent EXCEPT ![what] = @ + 1]

-----------------------------------------------------------------------------
(***************************************************************************)
(* The disk.  What a walk in progress read of these places is old.         *)
(***************************************************************************)

\* An event for the watch of an inode, if it has one
Told(k, id, name) ==
    IF LiveWds(k, id) = {} THEN k
    ELSE [k EXCEPT !.queue = Queued(@, [wd |-> WdFor(k, id), name |-> name])]

Outdated(places) ==
    writer' = [writer EXCEPT
                  !.seen = [p \in Place |->
                      IF p \in places /\ @[p] = "current" THEN "behind" ELSE @[p]]]

\* A file system that does not report every write may report this one or not.
Changed(places, told) ==
    /\ Spend("changes", MaxChanges)
    /\ dirty' = (dirty \cup places) \cap {p \in Place : disk'[p] # None}
    /\ Outdated(places)
    /\ \/ kernel' = told
       \/ /\ \A p \in places : Home(p) \in Network
          /\ kernel' = kernel
    /\ UNCHANGED <<view, retained, watch>>

EditFile(p) ==
    /\ disk[p] # None
    /\ disk' = disk
    /\ Changed({p}, Told(kernel, disk[p], "file"))
    /\ UNCHANGED dead

\* The rules in a root are rules for every directory below it.
EditRules(p) ==
    /\ disk[p] # None
    /\ disk' = disk
    /\ Changed(IF p \in Root THEN PlacesOf({p}) ELSE {p}, Told(kernel, disk[p], "rules"))
    /\ UNCHANGED dead

EditGlobalRules ==
    /\ disk' = disk
    /\ Changed(Place, Told(kernel, Outer, "rules"))
    /\ UNCHANGED dead

\* A directory is made here, or moved here from outside every root.
MakeDir(c, id) ==
    /\ disk[c] = None
    /\ \A p \in Place : disk[p] # id
    /\ ReuseIds \/ id \notin dead
    /\ disk' = [disk EXCEPT ![c] = id]
    /\ Changed({c}, Told(kernel, RootOf[c], c))
    /\ UNCHANGED dead

\* The kernel drops the watch of a directory that is removed.
RemoveDir(c) ==
    /\ disk[c] # None
    /\ disk' = [disk EXCEPT ![c] = None]
    /\ dead' = dead \cup {disk[c]}
    /\ Spend("changes", MaxChanges)
    /\ dirty' = dirty \ {c}
    /\ Outdated({c})
    /\ LET own == Told(Told(kernel, disk[c], "self"), disk[c], "IGNORED")
           told == Told(own, RootOf[c], c)
       IN kernel' = [told EXCEPT !.live = [wd \in Wd |-> IF @[wd] = disk[c] THEN None ELSE @[wd]]]
    /\ UNCHANGED <<view, retained, watch>>

MoveDirOut(c) ==
    /\ disk[c] # None
    /\ disk' = [disk EXCEPT ![c] = None]
    /\ Changed({c}, Told(Told(kernel, RootOf[c], c), disk[c], "self"))
    /\ UNCHANGED dead

MoveDir(c, d) ==
    /\ disk[c] # None /\ disk[d] = None
    /\ disk' = [disk EXCEPT ![c] = None, ![d] = disk[c]]
    /\ LET listed == Told(Told(kernel, RootOf[c], c), RootOf[d], d)
       IN Changed({c, d}, Told(listed, disk[c], "self"))
    /\ UNCHANGED dead

DiskStep ==
    \/ \E p \in Place : EditFile(p) \/ EditRules(p)
    \/ EditGlobalRules
    \/ \E c \in Sub : RemoveDir(c) \/ MoveDirOut(c)
    \/ \E c \in Sub, id \in SubId : MakeDir(c, id)
    \/ \E c, d \in Sub : MoveDir(c, d)

-----------------------------------------------------------------------------
(***************************************************************************)
(* The intake thread.                                                      *)
(***************************************************************************)

\* retire_policies holds the mutex until it has removed what it retires.
Intake ==
    /\ kernel.queue # <<>>
    /\ writer.gone = {}
    /\ watch' = Taken(watch, Head(kernel.queue))
    /\ kernel' = [kernel EXCEPT !.queue = Tail(@)]
    /\ UNCHANGED <<disk, view, dirty, retained, dead, writer, spent>>

-----------------------------------------------------------------------------
(***************************************************************************)
(* The writer: its timers, a burst or a command, and the walk they need.   *)
(***************************************************************************)

\* polling_roots and retained_roots
Polled == watch.gaps \cup watch.unreliable \cup {Home(p) : p \in retained}

\* poll_if_due
Poll ==
    /\ writer.at = "idle"
    /\ ~(Polled \subseteq watch.scoped)
    /\ watch' = [watch EXCEPT !.scoped = @ \cup Polled]
    /\ UNCHANGED <<disk, view, dirty, retained, dead, kernel, writer, spent>>

\* backstop_if_due
BackstopDue ==
    /\ writer.at = "idle"
    /\ Spend("timers", MaxTimers)
    /\ watch' = Loss(watch, "Backstop")
    /\ UNCHANGED <<disk, view, dirty, retained, dead, kernel, writer>>

\* A failed add_watch is a fault like any other.
MayFail(ok, id) ==
    IF ok THEN UNCHANGED spent ELSE id \in Refusable /\ Spend("faults", MaxFaults)

Now(result) == watch' = result.watch /\ kernel' = result.kernel

\* turn and refresh, down to the request; `bulk` unless the scheduler has paused it
Take(bulk) ==
    /\ writer.at = "idle"
    /\ Takeable(watch, bulk)
    /\ LET burst == BurstOf(watch)
           places == RequestPlaces(burst, view)
       IN writer' = [writer EXCEPT !.at = "admit", !.burst = burst, !.inputs = Root,
                                   !.places = places,
                                   !.complete = RequestRoots(burst, view),
                                   !.todo = {Home(p) : p \in places}]
    /\ watch' = Detached(watch)
    /\ UNCHANGED <<disk, view, dirty, retained, dead, kernel, spent>>

\* global_inputs, one root at a time and unlocked in between: every root reads the
\* rules in the outer directory
GlobalInput(root, ok) ==
    /\ writer.at \in {"admit", "settle"}
    /\ root \in writer.inputs
    /\ MayFail(ok, Outer)
    /\ Now(WatchInput(watch, kernel, root, Outer, ok))
    /\ writer' = [writer EXCEPT !.inputs = @ \ {root}]
    /\ UNCHANGED <<disk, view, dirty, retained, dead>>

\* run_explicit with roots that are configured already
Command(roots) ==
    /\ writer.at = "idle"
    /\ roots # {}
    /\ Spend("commands", MaxCommands)
    /\ writer' = [writer EXCEPT !.at = "walk", !.command = TRUE, !.complete = roots,
                                !.places = PlacesOf(roots), !.todo = roots]
    /\ UNCHANGED <<disk, view, dirty, retained, dead, kernel, watch>>

Admitted == writer.at = "admit" /\ writer.inputs = {}

\* The catalog is not to be compacted, and its generation is the request's.
Proceed ==
    /\ Admitted
    /\ writer' = [writer EXCEPT !.at = "walk"]
    /\ UNCHANGED <<disk, view, dirty, retained, dead, kernel, watch, spent>>

\* DeferredBulk, for a compaction or for the walk of a whole root.  The command's
\* failure aborts the roots it began and asks for a backstop.
DeferBulk ==
    /\ \/ Admitted
       \/ writer.at = "walk" /\ writer.todo \cap writer.complete # {}
    /\ Spend("faults", MaxFaults)
    /\ watch' = IF writer.command THEN [Loss(watch, "Backstop") EXCEPT !.refreshed = {}]
                                  ELSE Deferred(watch, writer.burst)
    /\ writer' = IdleWriter
    /\ UNCHANGED <<disk, view, dirty, retained, dead, kernel>>

\* RetryFromCurrent: a compaction made the request's generation old
RetryFromCurrent ==
    /\ Admitted
    /\ Spend("faults", MaxFaults)
    /\ watch' = Finished(watch, writer.burst, FALSE)
    /\ writer' = IdleWriter
    /\ UNCHANGED <<disk, view, dirty, retained, dead, kernel>>

\* The selected directories of a root that are there
ChildrenOf(root) == {c \in Sub : RootOf[c] = root}

\* A root whose own listing changed is observed whole, though not as a complete root.
Promoted(root) ==
    IF \E c \in ChildrenOf(root) : view[c] # disk[c]
    THEN writer.places \cup PlacesOf({root})
    ELSE writer.places

\* observe and Walker's root: the epoch begins, the root is armed
StartRoot(root, ok) ==
    /\ writer.at = "walk"
    /\ root \in writer.todo
    /\ MayFail(ok, root)
    /\ LET begun == IF root \in writer.complete THEN BeginPolicyRoot(watch, root) ELSE watch
       IN Now(ArmAt(begun, kernel, root, root, ok))
    /\ writer' = [writer EXCEPT !.at = "list", !.root = root, !.places = Promoted(root)]
    /\ UNCHANGED <<disk, view, dirty, retained, dead>>

\* Where the walk goes on: a directory of this root, another root, or the commit
Onward(w) ==
    IF w.left # {} THEN [w EXCEPT !.at = "subs", !.sub = None]
    ELSE LET rest == w.todo \ {w.root}
         IN [w EXCEPT !.at = IF rest = {} THEN "commit" ELSE "walk",
                      !.todo = rest, !.root = None, !.sub = None]

ListRoot(ok) ==
    LET root == writer.root
        mine == ChildrenOf(root) \cap writer.places
    IN /\ writer.at = "list"
       /\ MayFail(ok, root)
       /\ writer' = Onward([writer EXCEPT
              !.found = [c \in Sub |-> IF c \in mine THEN disk[c] ELSE @[c]],
              !.left = {c \in mine : disk[c] # None},
              !.seen = [p \in Place |-> IF p \in ({root} \cap writer.places)
                                              \cup {c \in mine : disk[c] = None}
                                        THEN "current" ELSE @[p]]])
       /\ Now(WatchInput(watch, kernel, root, root, ok))
       /\ UNCHANGED <<disk, view, dirty, retained, dead>>

\* The root cannot be listed: nothing is known of what is below it.
ListRootFault ==
    /\ writer.at = "list"
    /\ Spend("faults", MaxFaults)
    /\ writer' = Onward([writer EXCEPT
           !.left = {},
           !.seen = [p \in Place |-> IF p \in PlacesOf({writer.root}) THEN "fault" ELSE @[p]]])
    /\ UNCHANGED <<disk, view, dirty, retained, dead, kernel, watch>>

\* arm_entry: the directory is opened anew, and may be gone or another one
ArmSub(c, ok) ==
    /\ writer.at = "subs"
    /\ c \in writer.left
    /\ MayFail(ok, disk[c])
    /\ CASE disk[c] = writer.found[c] -> Now(ArmAt(watch, kernel, c, disk[c], ok))
         [] disk[c] = None -> Now([watch |-> FailLost(watch, RootOf[c]), kernel |-> kernel])
         [] OTHER -> Now([watch |-> Loss(FailLost(watch, RootOf[c]), "Overflow"),
                          kernel |-> kernel])
    /\ writer' = [writer EXCEPT !.at = "sub", !.sub = c, !.left = @ \ {c}]
    /\ UNCHANGED <<disk, view, dirty, retained, dead>>

\* open_child, observing and list, and the inputs of load_ignores
ListSub(ok) ==
    LET c == writer.sub
        armed == ArmAt(watch, kernel, c, disk[c], ok)
    IN /\ writer.at = "sub"
       /\ disk[c] = writer.found[c]
       /\ MayFail(ok, disk[c])
       /\ Now(WatchInput(armed.watch, armed.kernel, RootOf[c], disk[c], ok))
       /\ writer' = Onward([writer EXCEPT !.seen[c] = "current"])
       /\ UNCHANGED <<disk, view, dirty, retained, dead>>

\* It is not the directory the listing found, or it cannot be listed.
ListSubFault ==
    /\ writer.at = "sub"
    /\ IF disk[writer.sub] # writer.found[writer.sub]
       THEN UNCHANGED spent ELSE Spend("faults", MaxFaults)
    /\ writer' = Onward([writer EXCEPT !.seen[writer.sub] = "fault"])
    /\ UNCHANGED <<disk, view, dirty, retained, dead, kernel, watch>>

\* The walk is published.  What it could not observe stays as it was and is
\* retained; then settle renews the global inputs.
Commit ==
    LET observed == {p \in Place : writer.seen[p] \in {"current", "behind"}}
        faulted == {p \in Place : writer.seen[p] = "fault"}
    IN /\ writer.at = "commit"
       /\ view' = [p \in Place |-> IF p \in observed \cap Sub THEN writer.found[p] ELSE view[p]]
       /\ dirty' = dirty \ {p \in Place : writer.seen[p] = "current"}
       /\ retained' = (retained \ observed) \cup faulted
       /\ writer' = [writer EXCEPT !.at = "settle", !.inputs = Root]
       /\ UNCHANGED <<disk, dead, kernel, watch, spent>>

\* Nothing is published.  Only a command whose write failed asks for a backstop:
\* one that stopped at its own observation leaves the catalog as it was.
CommitFails(wrote) ==
    /\ writer.at = "commit"
    /\ Spend("faults", MaxFaults)
    /\ watch' = IF ~writer.command THEN Finished(watch, writer.burst, FALSE)
                ELSE LET aborted == [watch EXCEPT !.refreshed = {}]
                     IN IF wrote THEN Loss(aborted, "Backstop") ELSE aborted
    /\ writer' = IdleWriter
    /\ UNCHANGED <<disk, view, dirty, retained, dead, kernel>>

\* reconcile as far as the mutex is held: what no root reads any more is retired, and
\* the watches are listed for the sweep
Reconcile ==
    LET protected == {Home(p) : p \in retained}
        listed == {wd \in Wd : watch.descriptors[wd] # {}}
    IN /\ writer.at = "settle" /\ writer.inputs = {}
       /\ IF writer.command \/ ReconcileWatches(writer.burst)
          THEN /\ watch' = RetirePolicies(watch, protected)
               /\ writer' = [writer EXCEPT
                      !.at = "sweep", !.gone = Retired(watch, protected),
                      !.sweep = {[wd |-> wd, dirs |-> watch.descriptors[wd]] : wd \in listed}]
          ELSE /\ watch' = watch
               /\ writer' = [writer EXCEPT !.at = "sweep"]
       /\ UNCHANGED <<disk, view, dirty, retained, dead, kernel, spent>>

RemoveRetired ==
    /\ \E wd \in writer.gone :
          /\ Now(RemoveKnown(watch, kernel, wd))
          /\ writer' = [writer EXCEPT !.gone = @ \ {wd}]
    /\ UNCHANGED <<disk, view, dirty, retained, dead, spent>>

\* The sweep, one descriptor at a time and unlocked in between
Sweep ==
    /\ writer.at = "sweep" /\ writer.gone = {}
    /\ \E s \in writer.sweep :
          /\ Now(RetireDescriptor(watch, kernel, view, s.wd, s.dirs))
          /\ writer' = [writer EXCEPT !.sweep = @ \ {s}]
    /\ UNCHANGED <<disk, view, dirty, retained, dead, spent>>

Finish ==
    /\ writer.at = "sweep" /\ writer.gone = {}
    /\ writer.sweep = {}
    /\ watch' = IF writer.command THEN watch ELSE Finished(watch, writer.burst, TRUE)
    /\ writer' = IdleWriter
    /\ UNCHANGED <<disk, view, dirty, retained, dead, kernel, spent>>

WalkStep ==
    \/ Proceed
    \/ \E root \in Root, ok \in BOOLEAN : GlobalInput(root, ok) \/ StartRoot(root, ok)
    \/ \E ok \in BOOLEAN : ListRoot(ok) \/ ListSub(ok)
    \/ ListRootFault \/ ListSubFault
    \/ \E c \in Sub, ok \in BOOLEAN : ArmSub(c, ok)
    \/ DeferBulk \/ RetryFromCurrent
    \/ \E wrote \in BOOLEAN : CommitFails(wrote)
    \/ Commit \/ Reconcile \/ RemoveRetired \/ Sweep \/ Finish

Next ==
    \/ DiskStep
    \/ Intake
    \/ Poll \/ BackstopDue
    \/ \E bulk \in BOOLEAN : Take(bulk)
    \/ \E roots \in SUBSET Root : Command(roots)
    \/ WalkStep

Spec == Init /\ [][Next]_vars

\* The two threads run: a pause of the scheduler ends, the poll timer comes due again.
Fairness ==
    /\ WF_vars(Intake)
    /\ WF_vars(Poll \/ Take(TRUE) \/ WalkStep)

FairSpec == Spec /\ Fairness

-----------------------------------------------------------------------------
(***************************************************************************)
(* Properties.                                                             *)
(***************************************************************************)

Stale(p) == view[p] # disk[p] \/ p \in dirty

\* The walk in progress will observe p, or has and publishes it, or it will tell
\* that it could not.
InProgress(p) ==
    /\ writer.at \in {"admit", "walk", "list", "subs", "sub", "commit"}
    /\ ~writer.command
    /\ p \in writer.places
    /\ writer.seen[p] # "behind"
    /\ writer.seen[p] = "no" \/ view[p] = disk[p] \/ p \notin Sub
         \/ writer.seen[p] = "fault" \/ writer.found[p] = disk[p]

\* A backstop this walk does not acknowledge
BackstopWaits ==
    /\ watch.backstop # NoMarker
    /\ writer.command \/ writer.at = "idle" \/ watch.backstop # writer.burst.marker

\* What an event that is still in the kernel will lead to
WillScope(e, p) ==
    CASE e = Overflow -> TRUE
      [] e.name = "IGNORED" -> e.wd \notin watch.removed
      [] OTHER ->
            \/ e.name \in {"self", "rules"} /\ \E i \in watch.policies[e.wd] : i.root = Home(p)
            \/ watch.descriptors[e.wd] = {} /\ watch.policies[e.wd] = {}
            \/ p \in RequestPlaces([NoBurst EXCEPT !.pending =
                        {[wd |-> e.wd, name |-> e.name, dirs |-> watch.descriptors[e.wd]]}], view)

Accounted(p) ==
    \/ BackstopWaits
    \/ InProgress(p)
    \/ Home(p) \in watch.scoped \cup Polled
    \/ p \in RequestPlaces([NoBurst EXCEPT !.pending = watch.pending], view)
    \/ \E i \in DOMAIN kernel.queue : WillScope(kernel.queue[i], p)

\* A difference between the disk and the catalog is never forgotten: an event, a
\* hint, a loss marker, a walk or the poll of its root still leads to it.
NothingMissed == \A p \in Place : Stale(p) => Accounted(p)

\* Hints that wait always have a time at which they are due, whatever was taken,
\* finished or put back in between; without one the writer would not wake for them.
\* Hints, watches and remembered failures stay within their caps throughout.
HintsAreDue == TypeOK /\ (watch.pending # {} => watch.first /\ watch.last)

\* Once the disk stops changing, the catalog comes to agree with it.
Fresh == <>[](\A p \in Place : ~Stale(p))

=============================================================================
