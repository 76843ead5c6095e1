----------------------------- MODULE WalkSchedule ------------------------------
(***************************************************************************)
(* How the workers of one walk share its directories and find out that     *)
(* none is left.                                                           *)
(*                                                                         *)
(*   ferret-crawl/src/walk/schedule.rs, walk.rs (process, walk_parallel)   *)
(*                                                                         *)
(* A job is a directory whose entries are partly considered.  Each worker  *)
(* keeps a stack of jobs and hands its oldest one to a shared stack when   *)
(* somebody is idle.  The shared stack's mutex is `lock`, its condition    *)
(* variable `ready`; a worker asleep on it is at "wait" and leaves it only *)
(* when notified.  The counters are atomics that are changed without it.   *)
(***************************************************************************)
EXTENDS Integers, Sequences, FiniteSets

CONSTANTS
    Worker,       \* the walk's threads
    Entry,        \* everything in the tree
    Root,         \* the directory the walk starts in
    Listing,      \* the entries of each directory entered, in order
    MaxOpen,      \* MAX_OPEN_JOBS
    MaxPanics,    \* bound: visitors that panic
    MaxFaults     \* bound: spilled directories that cannot be reopened

NoWorker == "none"

ASSUME WalkAssumption ==
    /\ Worker # {} /\ IsFiniteSet(Worker) /\ NoWorker \notin Worker
    /\ Root \in DOMAIN Listing
    /\ DOMAIN Listing \subseteq Entry
    /\ \A d \in DOMAIN Listing : Listing[d] \in Seq(Entry \ {Root})
    /\ MaxOpen \in Nat \ {0}
    /\ MaxPanics \in Nat /\ MaxFaults \in Nat

Listed(d) == {Listing[d][i] : i \in 1 .. Len(Listing[d])}

\* Entries are paths: each is in one directory, once, and below the root.
ASSUME TreeAssumption ==
    /\ \A c, d \in DOMAIN Listing :
          \A i \in 1 .. Len(Listing[c]), k \in 1 .. Len(Listing[d]) :
             Listing[c][i] = Listing[d][k] => c = d /\ i = k
    /\ \A S \in SUBSET (Entry \ {Root}) :
          S # {} => \E d \in DOMAIN Listing \ S : Listed(d) \cap S # {}

VARIABLES
    jobs,          \* Shared: the stack of jobs,
    lock,          \*   who holds its mutex,
    idle,          \*   and the atomics
    outstanding,
    open,
    cancelled,
    at,            \* each worker's place,
    local,         \*   its own jobs, oldest first,
    current,       \*   and the job it works on
    considered,    \* how often each entry was handed to a visitor
    panics, faults

vars == <<jobs, lock, idle, outstanding, open, cancelled, at, local, current,
          considered, panics, faults>>

Job == [rest : Seq(Entry), fd : BOOLEAN]

JobOf(d) == [rest |-> Listing[d], fd |-> TRUE]

NoJob == [rest |-> <<>>, fd |-> FALSE]

\* The type of every variable.
TypeOK ==
    /\ jobs \in Seq(Job)
    /\ lock \in Worker \cup {NoWorker}
    /\ idle \in 0 .. Cardinality(Worker)
    /\ outstanding \in Nat
    /\ open \in 0 .. MaxOpen
    /\ cancelled \in BOOLEAN
    /\ at \in [Worker -> {"take", "check", "sleep", "wait", "woken", "run", "share", "push",
                          "finish", "tell", "next", "cancel", "exit"}]
    /\ local \in [Worker -> Seq(Job)]
    /\ current \in [Worker -> Job]
    /\ considered \in [Entry -> Nat]
    /\ panics \in Nat /\ faults \in Nat

Init ==
    /\ jobs = <<JobOf(Root)>>
    /\ lock = NoWorker
    /\ idle = 0
    /\ outstanding = 1
    /\ open = 1
    /\ cancelled = FALSE
    /\ at = [w \in Worker |-> "take"]
    /\ local = [w \in Worker |-> <<>>]
    /\ current = [w \in Worker |-> NoJob]
    /\ considered = [e \in Entry |-> 0]
    /\ panics = 0 /\ faults = 0

Goto(w, p) == at' = [at EXCEPT ![w] = p]

Free(w) == lock \in {NoWorker, w}

\* A variant of Closed that gives no room back.
ClosedKept(job) == open

\* release_open
Closed(job) == IF job.fd THEN open - 1 ELSE open

Waiting == {w \in Worker : at[w] = "wait"}

NotifiedAll == [w \in Worker |-> IF w \in Waiting THEN "woken" ELSE at[w]]

--------------------------------------------------------------------------------
(* Shared::take                                                            *)

TakeJob(w) ==
    /\ at[w] = "take" /\ Free(w)
    /\ ~cancelled /\ jobs # <<>>
    /\ current' = [current EXCEPT ![w] = jobs[Len(jobs)]]
    /\ jobs' = SubSeq(jobs, 1, Len(jobs) - 1)
    /\ open' = Closed(jobs[Len(jobs)])
    /\ lock' = NoWorker
    /\ Goto(w, "run")
    /\ UNCHANGED <<idle, outstanding, cancelled, local, considered, panics, faults>>

TakeNothing(w) ==
    /\ at[w] = "take" /\ Free(w)
    /\ cancelled \/ (jobs = <<>> /\ outstanding = 0)
    /\ lock' = NoWorker
    /\ Goto(w, "exit")
    /\ UNCHANGED <<jobs, idle, outstanding, open, cancelled, local, current, considered, panics, faults>>

\* It is idle before it gives up the lock, and looks again.
TakeIdle(w) ==
    /\ at[w] = "take" /\ Free(w)
    /\ ~cancelled /\ jobs = <<>> /\ outstanding # 0
    /\ idle' = idle + 1
    /\ lock' = w
    /\ Goto(w, "check")
    /\ UNCHANGED <<jobs, outstanding, open, cancelled, local, current, considered, panics, faults>>

Check(w) ==
    /\ at[w] = "check"
    /\ \/ /\ jobs = <<>> /\ ~cancelled /\ outstanding # 0
          /\ Goto(w, "sleep")
          /\ UNCHANGED idle
       \/ /\ jobs # <<>> \/ cancelled \/ outstanding = 0
          /\ idle' = idle - 1
          /\ Goto(w, "take")
    /\ UNCHANGED <<jobs, lock, outstanding, open, cancelled, local, current, considered, panics, faults>>

\* Condvar::wait gives up the lock and sleeps at once, after the check.
Sleeps(w) ==
    /\ at[w] = "sleep"
    /\ lock' = NoWorker
    /\ Goto(w, "wait")
    /\ UNCHANGED <<jobs, idle, outstanding, open, cancelled, local, current, considered, panics, faults>>

Wakes(w) ==
    /\ at[w] = "woken" /\ Free(w)
    /\ lock' = w
    /\ Goto(w, "check")
    /\ UNCHANGED <<jobs, idle, outstanding, open, cancelled, local, current, considered, panics, faults>>

--------------------------------------------------------------------------------
(* run_worker: the job's entries are considered up to one to enter.        *)

Directory(e) == e \in DOMAIN Listing

\* The entries process considers in this call.
Reach(rest) ==
    LET dirs == {i \in 1 .. Len(rest) : Directory(rest[i])}
    IN  IF dirs = {} THEN Len(rest) ELSE CHOOSE i \in dirs : \A k \in dirs : i <= k

Consider(rest, n) ==
    considered' = [e \in Entry |->
        considered[e] + Cardinality({i \in 1 .. n : rest[i] = e})]

\* A variant of Kept that does not count the parent.
KeptUncounted(w, parent) ==
    LET fits == open < MaxOpen IN
    /\ open' = IF fits THEN open + 1 ELSE open
    /\ local' = [local EXCEPT ![w] = Append(@, [parent EXCEPT !.fd = fits])]
    /\ UNCHANGED outstanding

\* A parent with entries left is counted and kept, its descriptor only
\* while there is room (reserve_or_spill).
Kept(w, parent) ==
    LET fits == open < MaxOpen IN
    /\ outstanding' = outstanding + 1
    /\ open' = IF fits THEN open + 1 ELSE open
    /\ local' = [local EXCEPT ![w] = Append(@, [parent EXCEPT !.fd = fits])]

Descend(w) ==
    /\ at[w] = "run" /\ ~cancelled
    /\ LET rest == current[w].rest
           n    == Reach(rest)
           left == SubSeq(rest, n + 1, Len(rest))
       IN  /\ n > 0 /\ Directory(rest[n])
           /\ Consider(rest, n)
           /\ current' = [current EXCEPT ![w] = JobOf(rest[n])]
           /\ \/ left # <<>> /\ Kept(w, [rest |-> left, fd |-> TRUE]) /\ Goto(w, "share")
              \/ left = <<>> /\ UNCHANGED <<outstanding, open, local, at>>
    /\ UNCHANGED <<jobs, lock, idle, cancelled, panics, faults>>

\* process returns None at the end of the entries.
Exhaust(w) ==
    /\ at[w] = "run" /\ ~cancelled
    /\ LET rest == current[w].rest IN
       /\ \A i \in 1 .. Len(rest) : ~Directory(rest[i])
       /\ Consider(rest, Len(rest))
    /\ current' = [current EXCEPT ![w] = NoJob]
    /\ Goto(w, "finish")
    /\ UNCHANGED <<jobs, lock, idle, outstanding, open, cancelled, local, panics, faults>>

\* A spilled directory that cannot be reopened is a fault, and ends its job.
ReopenFail(w) ==
    /\ at[w] = "run" /\ ~cancelled
    /\ ~current[w].fd
    /\ faults < MaxFaults /\ faults' = faults + 1
    /\ current' = [current EXCEPT ![w] = NoJob]
    /\ Goto(w, "finish")
    /\ UNCHANGED <<jobs, lock, idle, outstanding, open, cancelled, local, considered, panics>>

RunCancelled(w) ==
    /\ at[w] = "run" /\ cancelled
    /\ Goto(w, "exit")
    /\ UNCHANGED <<jobs, lock, idle, outstanding, open, cancelled, local, current, considered, panics, faults>>

--------------------------------------------------------------------------------
(* finish_one and share_oldest                                             *)

Finish(w) ==
    /\ at[w] = "finish"
    /\ outstanding' = outstanding - 1
    /\ Goto(w, IF outstanding = 1 THEN "tell" ELSE "share")
    /\ UNCHANGED <<jobs, lock, idle, open, cancelled, local, current, considered, panics, faults>>

\* A variant of Tell that does not take the lock.
TellUnlocked(w) ==
    /\ at[w] = "tell"
    /\ at' = [NotifiedAll EXCEPT ![w] = "share"]
    /\ UNCHANGED <<jobs, lock, idle, outstanding, open, cancelled, local, current, considered, panics, faults>>

\* The last job is done: everyone asleep is told, under the lock.
Tell(w) ==
    /\ at[w] = "tell" /\ lock = NoWorker
    /\ at' = [NotifiedAll EXCEPT ![w] = "share"]
    /\ UNCHANGED <<jobs, lock, idle, outstanding, open, cancelled, local, current, considered, panics, faults>>

Working(w) == current[w] # NoJob

\* idle is read without the lock.
ShareLook(w) ==
    /\ at[w] = "share"
    /\ Goto(w, IF local[w] # <<>> /\ idle # 0 THEN "push"
               ELSE IF Working(w) THEN "run" ELSE "next")
    /\ UNCHANGED <<jobs, lock, idle, outstanding, open, cancelled, local, current, considered, panics, faults>>

\* A variant of SharePush that tells nobody.
SharePushQuietly(w) ==
    /\ at[w] = "push" /\ lock = NoWorker
    /\ jobs' = Append(jobs, Head(local[w]))
    /\ local' = [local EXCEPT ![w] = Tail(@)]
    /\ Goto(w, IF Working(w) THEN "run" ELSE "next")
    /\ UNCHANGED <<lock, idle, outstanding, open, cancelled, current, considered, panics, faults>>

\* A variant of SharePush that keeps the job it hands over.
SharePushCopy(w) ==
    /\ at[w] = "push" /\ lock = NoWorker
    /\ jobs' = Append(jobs, Head(local[w]))
    /\ at' = [NotifiedAll EXCEPT ![w] = IF Working(w) THEN "run" ELSE "next"]
    /\ UNCHANGED <<lock, idle, outstanding, open, cancelled, local, current, considered, panics, faults>>

\* The oldest job is handed over and one sleeper is told, under the lock.
SharePush(w) ==
    /\ at[w] = "push" /\ lock = NoWorker
    /\ jobs' = Append(jobs, Head(local[w]))
    /\ local' = [local EXCEPT ![w] = Tail(@)]
    /\ LET then == IF Working(w) THEN "run" ELSE "next" IN
       \/ idle # 0 /\ \E v \in Waiting : at' = [at EXCEPT ![w] = then, ![v] = "woken"]
       \/ (idle = 0 \/ Waiting = {}) /\ Goto(w, then)
    /\ UNCHANGED <<lock, idle, outstanding, open, cancelled, current, considered, panics, faults>>

\* The newest job of its own, or a shared one.
NextLocal(w) ==
    /\ at[w] = "next" /\ local[w] # <<>>
    /\ LET newest == local[w][Len(local[w])] IN
       /\ current' = [current EXCEPT ![w] = newest]
       /\ open' = Closed(newest)
    /\ local' = [local EXCEPT ![w] = SubSeq(@, 1, Len(@) - 1)]
    /\ Goto(w, "run")
    /\ UNCHANGED <<jobs, lock, idle, outstanding, cancelled, considered, panics, faults>>

NextShared(w) ==
    /\ at[w] = "next" /\ local[w] = <<>>
    /\ Goto(w, "take")
    /\ UNCHANGED <<jobs, lock, idle, outstanding, open, cancelled, local, current, considered, panics, faults>>

--------------------------------------------------------------------------------
(* run_guarded: a visitor that panics cancels the walk.  The worker's own  *)
(* jobs go with it, and nothing counts them any more.                      *)

Panic(w) ==
    /\ at[w] = "run" /\ ~cancelled
    /\ LET rest == current[w].rest IN \E n \in 1 .. Reach(rest) : Consider(rest, n)
    /\ panics < MaxPanics /\ panics' = panics + 1
    /\ cancelled' = TRUE
    /\ Goto(w, "cancel")
    /\ UNCHANGED <<jobs, lock, idle, outstanding, open, local, current, faults>>

CancelTell(w) ==
    /\ at[w] = "cancel" /\ lock = NoWorker
    /\ at' = [NotifiedAll EXCEPT ![w] = "exit"]
    /\ UNCHANGED <<jobs, lock, idle, outstanding, open, cancelled, local, current, considered, panics, faults>>

--------------------------------------------------------------------------------
Step(w) ==
    \/ TakeJob(w) \/ TakeNothing(w) \/ TakeIdle(w) \/ Check(w) \/ Sleeps(w) \/ Wakes(w)
    \/ Descend(w) \/ Exhaust(w) \/ RunCancelled(w)
    \/ Finish(w) \/ Tell(w) \/ ShareLook(w) \/ SharePush(w)
    \/ NextLocal(w) \/ NextShared(w) \/ CancelTell(w)

Next == \E w \in Worker : Step(w) \/ ReopenFail(w) \/ Panic(w)

Spec == Init /\ [][Next]_vars

\* Every worker runs.
FairSpec == Spec /\ \A w \in Worker : WF_vars(Step(w))

--------------------------------------------------------------------------------
(* Properties.                                                             *)

Ended == \A w \in Worker : at[w] = "exit"

\* However jobs move between workers, a visitor is handed no entry twice, and
\* when the walk ends every entry below a directory that was entered has been,
\* unless a worker panicked or a fault was reported.
ConsideredOnce ==
    /\ \A e \in Entry : considered[e] <= 1
    /\ (Ended /\ ~cancelled /\ faults = 0)
          => \A e \in Entry \ {Root} : considered[e] = 1

\* A worker leaves only when no job is left anywhere: `outstanding` is zero
\* exactly when the shared stack, every local one and every hand is empty.
NoWorkAbandoned ==
    (~cancelled /\ \E w \in Worker : at[w] = "exit")
        => /\ jobs = <<>>
           /\ \A w \in Worker : local[w] = <<>> /\ at[w] \notin {"run", "finish"}

OpenShared == {i \in 1 .. Len(jobs) : jobs[i].fd}

OpenLocal ==
    UNION {{w} \X {i \in 1 .. Len(local[w]) : local[w][i].fd} : w \in Worker}

\* open_jobs counts the descriptors the queued jobs hold, through every move
\* of a job between the stacks: room that is given back can be used again.
\* The count stays within MaxOpen.
OpenExact ==
    /\ TypeOK
    /\ ~cancelled => open = Cardinality(OpenShared) + Cardinality(OpenLocal)

\* While anyone sleeps, every job on the shared stack has a worker of its own
\* on the way to take it: a notification is neither lost nor stolen.
WakePerJob ==
    (~cancelled /\ Waiting # {}) =>
        Len(jobs) <= Cardinality({w \in Worker : at[w] \in {"woken", "check", "take"}})

\* The walk ends: nobody sleeps through the last job's end or a panic.
WalkEnds == <>Ended
================================================================================
