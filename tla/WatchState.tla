------------------------------- MODULE WatchState ------------------------------
(***************************************************************************)
(* What the inotify watch remembers, and the operations on it that run     *)
(* under its mutex.                                                        *)
(*                                                                         *)
(*   ferret-crawl/src/watch.rs, watch/{arm,burst,failures,policy,retire}.rs*)
(*                                                                         *)
(* A tree is a set of roots, each with directories directly below it.  A   *)
(* place is a path, an identity is a (dev, ino); `outer` is the identity   *)
(* of the directory of the global rules, which lies in no root.  Every     *)
(* directory has one file and one rules file.  An event names one of them, *)
(* a directory below (an ISDIR event) or the watched directory itself.     *)
(*                                                                         *)
(* A root's epoch is only ever compared with an input's or a failure's, so *)
(* `now` says that the two are equal.  Of the failures that are counted,   *)
(* not kept, only whether there is any decides anything.                   *)
(***************************************************************************)
EXTENDS Integers, Sequences, FiniteSets

CONSTANTS
    Root,            \* the configured roots
    Sub,             \* the places of directories below them
    RootOf,          \* the root of each such place
    SubId,           \* identities of directories that are not roots
    Network,         \* the roots whose file system does not report every write
    WatchCap,        \* Config.watch_cap
    ScopeCap,        \* Config.scopes
    ExactFailures,   \* EXACT_FAILURES
    QueueCap,        \* max_queued_events
    MaxWd            \* the kernel's last watch descriptor, after which it starts over

Place == Root \cup Sub
Outer == "outer"
Identity == Root \cup SubId \cup {Outer}
Wd == 1 .. MaxWd
None == "none"

ASSUME WatchAssumption ==
    /\ IsFiniteSet(Root) /\ IsFiniteSet(Sub) /\ IsFiniteSet(SubId)
    /\ RootOf \in [Sub -> Root]
    /\ Network \subseteq Root
    /\ {WatchCap, ScopeCap, ExactFailures} \subseteq Nat
    /\ MaxWd \in Nat /\ MaxWd > Cardinality(Root) + Cardinality(SubId)
    /\ {Outer, None, "file", "rules", "self"} \cap (Root \cup Sub \cup SubId) = {}
    /\ Root \cap (Sub \cup SubId) = {}

Home(p) == IF p \in Root THEN p ELSE RootOf[p]
PlacesOf(roots) == {p \in Place : Home(p) \in roots}

Name == {"file", "rules", "self"} \cup Sub
Directory == [id : Identity, place : Place]
Hint == [wd : Wd, name : Name, dirs : SUBSET Directory]
Input == [root : Root, now : BOOLEAN]    \* the rules file of a directory, for a root
Reason == {"Burst", "Overflow", "Backstop"}
Marker == [serial : Nat, reason : Reason]
NoMarker == [serial |-> 0, reason |-> "Burst"]
Burst == [pending : SUBSET Hint, marker : Marker, roots : SUBSET Root]

Failed == [dirs : SUBSET Identity, policies : SUBSET Identity,
           counted : BOOLEAN]
NoFailed == [dirs |-> {}, policies |-> {}, counted |-> FALSE]
Failures == [now : BOOLEAN, latest : Failed, earlier : Failed]

StateType ==
    [descriptors : [Wd -> SUBSET Directory],
     identities : [Identity -> 0 .. MaxWd],       \* 0: not watched
     removed : SUBSET Wd,
     gaps : SUBSET Root,
     unreliable : SUBSET Root,
     policies : [Wd -> SUBSET Input],
     refreshed : SUBSET Root,                      \* policy_refreshed
     failures : [Root -> Failures],
     pending : SUBSET Hint,
     first : BOOLEAN, inflight : BOOLEAN, last : BOOLEAN,
     backstop : Marker,
     scoped : SUBSET Root,
     serial : Nat,
     running : BOOLEAN]

\* Watch::new
NewState ==
    [descriptors |-> [wd \in Wd |-> {}],
     identities |-> [i \in Identity |-> 0],
     removed |-> {}, gaps |-> {}, unreliable |-> {},
     policies |-> [wd \in Wd |-> {}],
     refreshed |-> {},
     failures |-> [r \in Root |-> [now |-> TRUE, latest |-> NoFailed, earlier |-> NoFailed]],
     pending |-> {}, first |-> FALSE, inflight |-> FALSE, last |-> FALSE,
     backstop |-> NoMarker, scoped |-> {}, serial |-> 0, running |-> FALSE]

-----------------------------------------------------------------------------
(***************************************************************************)
(* The kernel's side of an inotify instance: the inode each descriptor     *)
(* watches, the descriptor it gives out next, and the queue of events.     *)
(***************************************************************************)

Overflow == [wd |-> 0, name |-> "OVERFLOW"]
Event == [wd : Wd, name : Name \cup {"IGNORED"}] \cup {Overflow}

KernelType ==
    [live : [Wd -> Identity \cup {None}], next : Wd, queue : Seq(Event)]

\* An event that repeats the last one is merged with it; one too many is dropped
\* and leaves a record of the loss.
Queued(queue, event) ==
    IF queue # <<>> /\ queue[Len(queue)] = event
    THEN queue
    ELSE IF Cardinality({i \in DOMAIN queue : queue[i] # Overflow}) < QueueCap
         THEN Append(queue, event)
         ELSE IF \E i \in DOMAIN queue : queue[i] = Overflow
              THEN queue
              ELSE Append(queue, Overflow)

LiveWds(k, id) == {wd \in Wd : k.live[wd] = id}

\* inotify::add_watch gives back the descriptor an inode has, or the next free one
FreeWd(k) ==
    LET after(wd) == (wd - k.next + MaxWd) % MaxWd IN
    CHOOSE wd \in Wd :
        /\ k.live[wd] = None
        /\ \A other \in Wd : k.live[other] = None => after(wd) <= after(other)

WdFor(k, id) == IF LiveWds(k, id) # {} THEN CHOOSE wd \in LiveWds(k, id) : TRUE ELSE FreeWd(k)

AddWatch(k, id) ==
    IF LiveWds(k, id) # {} THEN k
    ELSE [k EXCEPT !.live[FreeWd(k)] = id, !.next = (FreeWd(k) % MaxWd) + 1]

\* inotify::remove_watch, which fails for a descriptor the kernel has dropped
RemoveWatch(k, wd) ==
    IF k.live[wd] = None THEN k
    ELSE [k EXCEPT !.live[wd] = None, !.queue = Queued(@, [wd |-> wd, name |-> "IGNORED"])]

-----------------------------------------------------------------------------
(***************************************************************************)
(* Loss, and what intake does with an event.                               *)
(***************************************************************************)

Loss(w, reason) ==
    [w EXCEPT !.serial = @ + 1,
              !.backstop = [serial |-> w.serial + 1,
                            reason |-> IF @.reason = "Overflow" THEN "Overflow" ELSE reason],
              !.pending = {},
              !.first = TRUE, !.last = TRUE]

Forget(w, wd) ==
    [w EXCEPT !.descriptors[wd] = {},
              !.identities = [i \in Identity |-> IF @[i] = wd THEN 0 ELSE @[i]]]

Ignored(w, wd) ==
    IF wd \in w.removed
    THEN [w EXCEPT !.removed = @ \ {wd}]
    ELSE Loss([Forget(w, wd) EXCEPT !.policies[wd] = {},
                                    !.gaps = @ \cup {i.root : i \in w.policies[wd]}],
              "Overflow")

ScopePolicyRoots(w, e) ==
    LET touched == {i.root : i \in {j \in w.policies[e.wd] : e.name \in {"self", "rules"}}}
    IN IF touched = {} THEN w ELSE [w EXCEPT !.scoped = @ \cup touched, !.first = TRUE]

Hinted(w, e) ==
    IF \E h \in w.pending : h.wd = e.wd /\ h.name = e.name
    THEN [w EXCEPT !.first = TRUE, !.last = TRUE]
    ELSE IF Cardinality(w.pending) >= ScopeCap
         THEN Loss(w, "Overflow")
         ELSE [w EXCEPT !.first = TRUE, !.last = TRUE,
                        !.pending = @ \cup {[wd |-> e.wd, name |-> e.name,
                                             dirs |-> w.descriptors[e.wd]]}]

\* Watch::event
Taken(w, e) ==
    CASE e = Overflow -> Loss([w EXCEPT !.removed = {}], "Overflow")
      [] e.name = "IGNORED" -> Ignored(w, e.wd)
      [] OTHER ->
            LET scoped == ScopePolicyRoots(w, e) IN
            IF w.descriptors[e.wd] # {} THEN Hinted(scoped, e)
            ELSE IF w.policies[e.wd] # {} THEN scoped
            ELSE Loss(scoped, "Overflow")

-----------------------------------------------------------------------------
(***************************************************************************)
(* Bursts.                                                                 *)
(***************************************************************************)

\* take_admitted, once the debounce is over
Takeable(w, bulk) ==
    /\ ~w.running
    /\ bulk \/ w.backstop = NoMarker
    /\ w.backstop # NoMarker \/ w.scoped # {} \/ w.pending # {}

BurstOf(w) == [pending |-> w.pending, marker |-> w.backstop, roots |-> w.scoped]

Detached(w) ==
    [w EXCEPT !.running = TRUE, !.inflight = w.first, !.first = FALSE, !.last = FALSE,
              !.pending = {}, !.scoped = {}]

\* A variant: a refresh acknowledges whatever loss there is by now.
FinishedAny(w, burst, success) ==
    IF success
    THEN [w EXCEPT !.running = FALSE, !.inflight = FALSE, !.backstop = NoMarker]
    ELSE Loss([w EXCEPT !.running = FALSE, !.inflight = FALSE, !.first = @ \/ w.inflight,
                        !.refreshed = {}], "Backstop")

\* finish
Finished(w, burst, success) ==
    LET ended == [w EXCEPT !.running = FALSE, !.inflight = FALSE] IN
    IF success
    THEN IF burst.marker # NoMarker /\ w.backstop = burst.marker
         THEN [ended EXCEPT !.backstop = NoMarker]
         ELSE ended
    ELSE Loss([ended EXCEPT !.first = @ \/ w.inflight, !.refreshed = {}],
              IF burst.marker = NoMarker THEN "Backstop" ELSE burst.marker.reason)

\* defer: a hint that arrived since is kept in place of the burst's
Restored(w, burst) ==
    LET older == {h \in burst.pending :
                     ~\E n \in w.pending : n.wd = h.wd /\ n.name = h.name}
    IN [w EXCEPT
            !.running = FALSE, !.inflight = FALSE,
            !.first = @ \/ w.inflight,
            !.refreshed = {},
            !.pending = @ \cup older,
            !.scoped = @ \cup burst.roots,
            !.backstop = IF burst.marker # NoMarker /\ @.serial < burst.marker.serial
                         THEN burst.marker ELSE @]

Due(w) ==
    [w EXCEPT !.last = @ \/ w.pending # {} \/ w.scoped # {} \/ w.backstop # NoMarker]

\* A variant of Deferred that loses the time of the hints put back.
DeferredUntimed(w, burst) == Restored(w, burst)

Deferred(w, burst) ==
    LET kept == Restored(w, burst) IN
    Due(IF Cardinality(kept.pending) > ScopeCap THEN Loss(kept, "Overflow") ELSE kept)

ReconcileWatches(burst) ==
    \/ burst.marker # NoMarker
    \/ burst.roots # {}
    \/ \E h \in burst.pending : h.name # "file"

\* Directory::resolve in the catalog's view, a function from places to identities
Resolves(view, d) == view[d.place] = d.id

\* What Burst::request asks to observe: whole roots, and single places.  A hint's
\* place is the directory whose file changed, or the directory the event names.
RequestRoots(burst, view) ==
    IF burst.marker # NoMarker THEN Root
    ELSE burst.roots \cup
         {Home(d.place) : d \in UNION {
             {e \in h.dirs : h.name \in {"self", "rules"} \/ ~Resolves(view, e)} :
                 h \in burst.pending}}

RequestPlaces(burst, view) ==
    PlacesOf(RequestRoots(burst, view)) \cup
    UNION {{IF h.name = "file" THEN d.place ELSE h.name :
               d \in {e \in h.dirs : h.name \in {"file"} \cup Sub /\ Resolves(view, e)}} :
           h \in burst.pending}

-----------------------------------------------------------------------------
(***************************************************************************)
(* Watches that could not be installed.                                    *)
(***************************************************************************)

Exact(f) ==
    Cardinality(f.latest.dirs) + Cardinality(f.latest.policies)
        + Cardinality(f.earlier.dirs) + Cardinality(f.earlier.policies)

RepairDirectory(f, id) == [f EXCEPT !.latest.dirs = @ \ {id}, !.earlier.dirs = @ \ {id}]
RepairPolicy(f, key) == [f EXCEPT !.latest.policies = @ \ {key}, !.earlier.policies = @ \ {key}]

Advanced(f) ==
    IF f.now THEN f
    ELSE [now |-> TRUE, latest |-> NoFailed,
          earlier |-> [dirs |-> f.earlier.dirs \cup f.latest.dirs,
                       policies |-> f.earlier.policies \cup f.latest.policies,
                       counted |-> f.earlier.counted \/ f.latest.counted]]

FailDirectory(w, root, id) ==
    LET f == Advanced(w.failures[root])
        g == [f EXCEPT !.earlier.dirs = @ \ {id}]
        keep == id \in f.earlier.dirs \/ id \in f.latest.dirs \/ Exact(g) < ExactFailures
    IN [w EXCEPT !.gaps = @ \cup {root},
                 !.failures[root] = IF keep THEN [g EXCEPT !.latest.dirs = @ \cup {id}]
                                            ELSE [g EXCEPT !.latest.counted = TRUE]]

FailPolicy(w, root, key) ==
    LET f == Advanced(w.failures[root])
        full == f.earlier.policies = {} /\ Exact(f) >= ExactFailures
        g == [f EXCEPT !.earlier.policies = @ \ {key}]
        keep == ~full /\ (key \in f.earlier.policies \/ key \in f.latest.policies
                              \/ Exact(g) < ExactFailures)
    IN [w EXCEPT !.gaps = @ \cup {root},
                 !.failures[root] = IF keep THEN [g EXCEPT !.latest.policies = @ \cup {key}]
                                            ELSE [g EXCEPT !.latest.counted = TRUE]]

\* gap, Failed::Lost
FailLost(w, root) ==
    [w EXCEPT !.gaps = @ \cup {root},
              !.failures[root] = [Advanced(w.failures[root]) EXCEPT !.latest.counted = TRUE]]

-----------------------------------------------------------------------------
(***************************************************************************)
(* Arming.  Each operation yields the watch and the kernel after it; `ok`  *)
(* says whether add_watch succeeds.                                        *)
(***************************************************************************)

Installed(w) == Cardinality({i \in Identity : w.identities[i] # 0})

Watched(w, id, place) ==
    w.identities[id] # 0 /\ \E d \in w.descriptors[w.identities[id]] : d.place = place

ParentWatched(w, place) ==
    place \in Root \/ Watched(w, RootOf[place], RootOf[place])

\* A descriptor whose IGNORED is still expected has been given out again.
Reused(w, wd) ==
    IF wd \in w.removed THEN Loss([w EXCEPT !.removed = @ \ {wd}], "Overflow") ELSE w

AddDirectory(w, wd, id, place) ==
    LET reused == Reused(w, wd)
        mine == IF \E d \in reused.descriptors[wd] : d.id # id
                THEN Loss(Forget(reused, wd), "Overflow") ELSE reused
    IN [mine EXCEPT !.descriptors[wd] = @ \cup {[id |-> id, place |-> place]},
                    !.identities[id] = wd,
                    !.failures[Home(place)] = RepairDirectory(@, id)]

\* A variant: the file system is classified only when a watch is added.
ArmAtClassifiesOnce(w, k, place, id, ok) ==
    LET root == Home(place)
        classified == IF root \in Network THEN [w EXCEPT !.unreliable = @ \cup {root}] ELSE w
    IN IF Watched(w, id, place) THEN [watch |-> w, kernel |-> k]
       ELSE IF ~ParentWatched(w, place) \/ ~ok \/ Installed(w) >= WatchCap
       THEN [watch |-> FailDirectory(classified, root, id), kernel |-> k]
       ELSE [watch |-> AddDirectory(classified, WdFor(k, id), id, place),
             kernel |-> AddWatch(k, id)]

\* arm_at
ArmAt(w, k, place, id, ok) ==
    LET root == Home(place)
        classified == IF root \in Network THEN [w EXCEPT !.unreliable = @ \cup {root}] ELSE w
        refused == [watch |-> FailDirectory(classified, root, id), kernel |-> k]
    IN IF ~ParentWatched(w, place) THEN refused
       ELSE IF Watched(w, id, place) THEN [watch |-> classified, kernel |-> k]
       ELSE IF Installed(w) >= WatchCap /\ w.identities[id] = 0 THEN refused
       ELSE IF ~ok THEN refused
       ELSE [watch |-> AddDirectory(classified, WdFor(k, id), id, place),
             kernel |-> AddWatch(k, id)]

\* add_input
AddInput(w, wd, id, root) ==
    [Reused(w, wd) EXCEPT
        !.identities[id] = wd,
        !.policies[wd] = {i \in @ : i.root # root} \cup {[root |-> root, now |-> TRUE]},
        !.failures[root] = RepairPolicy(@, id)]

\* watch_input
WatchInput(w, k, root, id, ok) ==
    LET full == Installed(w) >= WatchCap
        known == w.identities[id] # 0
        wd == IF known THEN w.identities[id] ELSE WdFor(k, id)
        refused == [watch |-> FailPolicy(w, root, id), kernel |-> k]
    IN IF full /\ ~known THEN refused
       ELSE IF ~known /\ ~ok THEN refused
       ELSE IF full /\ w.policies[wd] = {} /\ w.descriptors[wd] = {}
            THEN [watch |-> FailPolicy([w EXCEPT !.removed = @ \cup {wd}], root, id),
                  kernel |-> RemoveWatch(k, wd)]
            ELSE [watch |-> AddInput(w, wd, id, root),
                  kernel |-> IF known THEN k ELSE AddWatch(k, id)]

\* begin_policy_root
BeginPolicyRoot(w, root) ==
    [w EXCEPT !.policies = [wd \in Wd |-> {IF i.root = root THEN [i EXCEPT !.now = FALSE] ELSE i :
                                              i \in @[wd]}],
              !.failures[root].now = FALSE,
              !.refreshed = @ \cup {root},
              !.unreliable = @ \ {root}]

-----------------------------------------------------------------------------
(***************************************************************************)
(* Retiring.  `protected` are the roots with a retained directory.         *)
(***************************************************************************)

Empty(f) == f.latest = NoFailed /\ f.earlier = NoFailed
NoFailures == [now |-> TRUE, latest |-> NoFailed, earlier |-> NoFailed]

\* An input or a record stays unless a complete observation of its root did not renew it
Renewed(w, protected, root, now) == root \notin w.refreshed \/ root \in protected \/ now

KeptFailures(w, protected, root) ==
    LET f == w.failures[root]
        g == IF root \in w.refreshed /\ root \notin protected
             THEN [f EXCEPT !.earlier = NoFailed] ELSE f
    IN IF ~Empty(g) /\ Renewed(w, protected, root, g.now) THEN g ELSE NoFailures

KeptPolicies(w, protected) ==
    [wd \in Wd |-> {i \in w.policies[wd] : Renewed(w, protected, i.root, i.now)}]

\* The descriptors left without an input and without a directory
Retired(w, protected) ==
    {wd \in Wd : /\ w.policies[wd] # {} /\ KeptPolicies(w, protected)[wd] = {}
                 /\ w.descriptors[wd] = {}}

\* retire_policies, but for the removal of the watches it retires
RetirePolicies(w, protected) ==
    LET failures == [r \in Root |-> KeptFailures(w, protected, r)] IN
    [w EXCEPT
        !.refreshed = {},
        !.failures = failures,
        !.policies = KeptPolicies(w, protected),
        !.identities = [i \in Identity |-> IF @[i] \in Retired(w, protected) THEN 0 ELSE @[i]],
        !.gaps = w.unreliable \cup {r \in Root : ~Empty(failures[r])}]

\* A watch is removed, and its IGNORED is expected if the kernel still had it.
RemoveKnown(w, k, wd) ==
    [watch |-> [w EXCEPT !.removed = @ \cup {x \in {wd} : k.live[x] # None}],
     kernel |-> RemoveWatch(k, wd)]

\* retire_descriptor, with what the watch held when the sweep began
RetireDescriptor(w, k, view, wd, dirs) ==
    LET kept == {d \in dirs : Resolves(view, d)}
        unused == w.policies[wd] = {}
        dropped == [w EXCEPT !.descriptors[wd] = {}]
    IN IF w.descriptors[wd] # dirs THEN [watch |-> w, kernel |-> k]
       ELSE IF kept # {} THEN [watch |-> [w EXCEPT !.descriptors[wd] = kept], kernel |-> k]
       ELSE IF ~unused THEN [watch |-> dropped, kernel |-> k]
       ELSE RemoveKnown(Forget(dropped, wd), k, wd)

=============================================================================
