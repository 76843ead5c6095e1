------------------------------ MODULE TaskFeed ------------------------------
(***************************************************************************)
(* The feed of a parallel grep (ferret-query/src/completion.rs): a producer *)
(* thread gathers file tasks and pushes them in batches, workers take them  *)
(* singly (streaming) or in runs whose pending tails other workers steal    *)
(* (indexed), and both sides sleep on condition variables.  A worker's      *)
(* place in its loop is worker[w].at; QueryTasks has the rest of the loop,  *)
(* the lanes to the caller and the caller.                                  *)
(*                                                                          *)
(* One critical section of the feed lock is one step.  A thief looks at the *)
(* runs in turn while it holds that lock; runs only shrink meanwhile, so    *)
(* looking at all of them at once finds the same one.                       *)
(***************************************************************************)
EXTENDS Integers, Sequences, FiniteSets, FiniteSetsExt, SequencesExt

CONSTANTS Worker,        \* 1..threads: thread indexes, held slots and runs
          MaxTasks,      \* the most tasks a source yields
          Modes,         \* the ways the caller may run a search, see ModeType
          Capacity,      \* tasks the producer may run ahead
          RunTasks,      \* RUN_TASKS
          RunBytes       \* RUN_BYTES

Task == 1..MaxTasks
None == 0

(* One search: the schedule, what each task costs, and which threads the    *)
(* system let the caller start.                                             *)
(*   count      the source yields tasks 1..count, in order                  *)
(*   indexed    GroupSchedule::Indexed or Streaming                          *)
(*   live       the source takes the publication lock for each task         *)
(*   permits    the descriptor admissions the search shares; more than      *)
(*              threads means that none is counted                          *)
(*   size       input bytes of each task;  weight: bytes of its group       *)
(*   streamed   tasks too large to capture, handed over while they run      *)
(*   dependent  tasks the source yields only after all earlier work          *)
(*   stuck      tasks whose work does not end until the run stops            *)
(*   panics     tasks whose work may panic                                 *)
(*   breaks     whether publishing a group may fail: {FALSE} or BOOLEAN     *)
(*   cancels    whether the run may be cancelled from outside               *)
(*   started    workers whose spawn was accepted                            *)
(*   fed        the producer's spawn was accepted too, tried only when a    *)
(*              worker's was                                                *)
ModeType == [count : Task, indexed : BOOLEAN, live : BOOLEAN,
             permits : Nat \ {0}, size : [Task -> Nat], weight : [Task -> Nat],
             streamed : SUBSET Task, dependent : SUBSET Task,
             stuck : SUBSET Task, panics : SUBSET Task,
             breaks : {{FALSE}, BOOLEAN}, cancels : BOOLEAN,
             started : SUBSET Worker, fed : BOOLEAN]

ASSUME FeedAssumption == /\ Modes \subseteq ModeType
                         /\ IsFiniteSet(Worker) /\ Worker # {}
                         /\ Worker = 1..Cardinality(Worker)
                         /\ MaxTasks \in Nat /\ RunBytes \in Nat
                         /\ RunTasks \in Nat \ {0} /\ Capacity \in Nat
                         /\ Capacity >= RunTasks
                         /\ \A m \in Modes : m.fed => m.started # {}

VARIABLES
  mode,      \* the search this behaviour runs; never changes
  feed,      \* [tasks, closed, full]: FeedState; its `sleeping` is Sleeping
  run,       \* [Worker -> Seq(Task)]: each worker's pending run
  stealable, \* the count of tasks in runs, lowered after a removal
  prod,      \* the producer: [at, next, batch, flushed, closed]
  worker,    \* [Worker -> [at, task, out]]; out: batches still to send
  budget,    \* [used, waiting, lock]: the input bytes in flight
  held,      \* [Worker -> [groups, bytes]]: completed groups not handed over
  queue,     \* the bounded channel of handoffs to the caller
  caller,    \* [at, batch, clean, slot]: the publishing thread
  emitted,   \* the groups emitted, in order
  stop,      \* Gate.stop
  cancelled  \* the caller's cancellation flag

feedVars == <<feed, run, stealable>>
laneVars == <<budget, held, queue, caller, emitted>>
flagVars == <<mode, stop, cancelled>>

Stopped == stop \/ cancelled

At(w) == worker[w].at

\* Workers asleep on `ready`; the ones not yet notified are "asleep".
Sleeping(ws) == Cardinality({w \in Worker : ws[w].at \in {"asleep", "woken"}})

\* What Condvar::notify_one may do to the workers ws.
NotifyOne(ws) ==
  LET asleep == {w \in Worker : ws[w].at = "asleep"}
  IN IF asleep = {} THEN {ws} ELSE {[ws EXCEPT ![w].at = "woken"] : w \in asleep}

NotifyAll(ws) ==
  [w \in Worker |-> IF ws[w].at = "asleep" THEN [ws[w] EXCEPT !.at = "woken"]
                    ELSE ws[w]]

\* `room` is notified: only the producer sleeps on it.
Rouse(p) == IF p.at = "room" THEN [p EXCEPT !.at = "roused"] ELSE p

\* Feed::close, by whichever thread leaves; ws and p are the workers and the
\* producer with the leaver's own move already made.
Close(ws, p) ==
  /\ feed' = [feed EXCEPT !.closed = TRUE]
  /\ worker' = NotifyAll(ws)
  /\ prod' = Rouse(p)

Threads == Cardinality(Worker)

\* IoBudget::bounded: enough admissions for every thread are never counted.
Unbounded == mode.permits > Threads

\* The descriptor admissions in use, by readers and by the producer.
Admitted == Cardinality({w \in Worker : At(w) \in {"read", "handoff", "stream"}})
              + (IF prod.at = "admitted" THEN 1 ELSE 0)

\* The caller publishes a stream, holding the publication lock.
Publishing == caller.at = "stream"

----------------------------------------------------------------------------
(* The producer.                                                           *)

BatchLen == IF mode.indexed THEN RunTasks ELSE 1

\* A variant: one sleeper too many is asked for.
WakesOverOne(n) == IF mode.indexed THEN Sleeping(worker) > 0 ELSE Sleeping(worker) > n

\* Whether a push that left n tasks in the feed wakes a worker.
Wakes(n) == IF mode.indexed THEN Sleeping(worker) > 0 ELSE Sleeping(worker) >= n

\* Whether the end of a push waits for room, with these tasks in the feed.
Waits(tasks) == Len(tasks) >= Capacity /\ ~feed.closed

AfterRoom(p, tasks) ==
  IF Waits(tasks) THEN [p EXCEPT !.at = "room"]
  ELSE [p EXCEPT !.at = IF feed.closed THEN "end" ELSE "gather",
                 !.closed = feed.closed, !.flushed = FALSE]

\* Appends the batch under the feed lock, wakes a worker, and at a batch's
\* end waits for room; a push without room leaves the producer at place.
Push(room, place) ==
  LET tasks == IF feed.closed THEN feed.tasks ELSE feed.tasks \o prod.batch
      pushed == [prod EXCEPT !.batch = IF feed.closed THEN @ ELSE <<>>]
  IN /\ feed' = [feed EXCEPT !.tasks = tasks,
                             !.full = IF room THEN Waits(tasks) ELSE @]
     /\ worker' \in IF ~feed.closed /\ Wakes(Len(tasks))
                    THEN NotifyOne(worker) ELSE {worker}
     /\ prod' = IF room THEN AfterRoom(pushed, tasks)
                ELSE [pushed EXCEPT !.at = place, !.closed = feed.closed,
                                    !.flushed = TRUE]
     /\ UNCHANGED <<run, stealable, laneVars, flagVars>>

\* The loop's poll lets the source look for a task.
Seeks == prod.at = "gather" /\ ~prod.closed /\ ~Stopped /\ prod.next <= mode.count

\* The source asks for a descriptor admission, polled while it waits.
Admit ==
  /\ Seeks /\ ~Unbounded
  /\ Admitted < mode.permits
  /\ prod' = [prod EXCEPT !.at = "admitted"]
  /\ UNCHANGED <<feedVars, worker, laneVars, flagVars>>

\* Tasks produced whose work has not returned.
Unworked == ToSet(prod.batch) \cup ToSet(feed.tasks)
              \cup UNION {ToSet(run[w]) \cup {worker[w].task} : w \in Worker}

\* next() returns a task.  The batch ends when it is full, when a poll has
\* pushed part of it, or when its first path is BATCH_WAIT old.
Gather ==
  /\ IF Unbounded THEN Seeks ELSE prod.at = "admitted"
  /\ mode.live => ~Publishing
  /\ prod.next \in mode.dependent => (1..(prod.next - 1)) \cap Unworked = {}
  /\ \E due \in BOOLEAN :
       LET batch == Append(prod.batch, prod.next)
           ends == due \/ prod.flushed \/ Len(batch) >= BatchLen
       IN prod' = [prod EXCEPT !.batch = batch, !.next = @ + 1,
                               !.at = IF ends THEN "push" ELSE "gather"]
  /\ UNCHANGED <<feedVars, worker, laneVars, flagVars>>

\* A poll finds the first gathered path BATCH_WAIT old.
PushDue ==
  /\ prod.at = "gather" \/ (prod.at = "admitted" /\ (mode.live => ~Publishing))
  /\ prod.batch # <<>>
  /\ Push(FALSE, prod.at)

PushFull ==
  /\ prod.at = "push"
  /\ Push(TRUE, "gather")

\* The source is exhausted, or ends early because the run stopped: what is
\* gathered is pushed, and the producer ends.
PushLast ==
  /\ \/ prod.at = "gather" /\ ~prod.closed /\ (prod.next > mode.count \/ Stopped)
     \/ prod.at = "admitted" /\ Stopped /\ (mode.live => ~Publishing)
  /\ Push(FALSE, "end")

\* The loop's own poll sees the stop; the batch in hand is dropped.
Abandon ==
  /\ prod.at = "gather" /\ (prod.closed \/ Stopped)
  /\ prod' = [prod EXCEPT !.at = "end"]
  /\ UNCHANGED <<feedVars, worker, laneVars, flagVars>>

\* Woken on `room`: the loop looks again.
Roused ==
  /\ prod.at = "roused"
  /\ feed' = [feed EXCEPT !.full = Waits(feed.tasks)]
  /\ prod' = AfterRoom(prod, feed.tasks)
  /\ UNCHANGED <<run, stealable, worker, laneVars, flagVars>>

\* The producer thread's CloseOnDrop.
ProducerEnd ==
  /\ prod.at = "end"
  /\ Close(worker, [prod EXCEPT !.at = "gone"])
  /\ UNCHANGED <<run, stealable, laneVars, flagVars>>

Produce == Admit \/ Gather \/ PushDue \/ PushFull \/ PushLast \/ Abandon
             \/ Roused \/ ProducerEnd

----------------------------------------------------------------------------
(* Taking a task.                                                          *)

SizeOf(tasks) == MapThenSumSet(LAMBDA i : mode.size[tasks[i]], DOMAIN tasks)

\* fill_run: how many tasks of rest follow the one just taken into the run.
RunLength(first, rest) ==
  Max({0} \cup {n \in 1..Len(rest) :
         /\ n < RunTasks
         /\ mode.size[first] + SizeOf(SubSeq(rest, 1, n)) <= RunBytes})

Got(w, task, place) == [worker EXCEPT ![w].task = task, ![w].at = place]

\* The near end of the worker's own run, under the run's lock alone.  The
\* stop was checked just before.
TakeOwn(w) ==
  /\ At(w) = "top" /\ ~Stopped /\ run[w] # <<>>
  /\ run' = [run EXCEPT ![w] = Tail(@)]
  /\ worker' = Got(w, Head(run[w]), "counted")
  /\ UNCHANGED <<feed, stealable, prod, laneVars, flagVars>>

\* The count is lowered after the removal.
CountOwn(w) ==
  /\ At(w) = "counted"
  /\ stealable' = stealable - 1
  /\ worker' = [worker EXCEPT ![w].at = "reserve"]
  /\ UNCHANGED <<feed, run, prod, laneVars, flagVars>>

\* At the feed lock: first from the top of the loop, later from a wait.
AtFeed(w) == (At(w) = "top" /\ ~Stopped /\ run[w] = <<>>) \/ At(w) = "woken"

\* One critical section of a take: n tasks of the feed go to the run and raise
\* the count by raise; a sleeper is woken to steal from them.
Taking(w, n, raise) ==
  LET rest == Tail(feed.tasks)
      left == SubSeq(rest, n + 1, Len(rest))
      roomy == feed.full /\ Len(left) <= Capacity \div 2
      ws == Got(w, Head(feed.tasks), "reserve")
  IN /\ run' = [run EXCEPT ![w] = @ \o SubSeq(rest, 1, n)]
     /\ stealable' = stealable + raise
     /\ feed' = [feed EXCEPT !.tasks = left, !.full = @ /\ ~roomy]
     /\ prod' = IF roomy THEN Rouse(prod) ELSE prod
     /\ worker' \in IF n > 0 /\ Sleeping(ws) > 0 THEN NotifyOne(ws) ELSE {ws}
     /\ UNCHANGED <<laneVars, flagVars>>

Runs == IF mode.indexed THEN RunLength(Head(feed.tasks), Tail(feed.tasks)) ELSE 0

\* A variant: the run is not counted.
TakeFeedUncounted(w) == AtFeed(w) /\ feed.tasks # <<>> /\ Taking(w, Runs, 0)

\* A task of the feed and, indexed, a run after it; a sleeper is woken to
\* steal from the run, and a full feed that is half empty wakes its producer.
TakeFeed(w) == AtFeed(w) /\ feed.tasks # <<>> /\ Taking(w, Runs, Runs)

\* The run a thief finds first, looking round from its own.
Beside(w, offset) == ((w + offset - 1) % Threads) + 1
Victims(w) == {offset \in 1..(Threads - 1) : run[Beside(w, offset)] # <<>>}
CanSteal(w) == mode.indexed /\ stealable > 0 /\ Victims(w) # {}

\* The far half of another worker's run; whoever sleeps may steal again.
Steal(w) ==
  /\ AtFeed(w) /\ feed.tasks = <<>> /\ CanSteal(w)
  /\ LET victim == Beside(w, Min(Victims(w)))
         theirs == run[victim]
         half == Len(theirs) \div 2
         mine == SubSeq(theirs, half + 1, Len(theirs))
         ws == Got(w, Head(mine), "reserve")
     IN /\ run' = [run EXCEPT ![victim] = SubSeq(theirs, 1, half), ![w] = Tail(mine)]
        /\ stealable' = stealable - 1
        /\ worker' \in IF Len(theirs) > 1 /\ Sleeping(ws) > 0
                       THEN NotifyOne(ws) ELSE {ws}
  /\ UNCHANGED <<feed, prod, laneVars, flagVars>>

\* Nothing to take: the worker leaves a closed feed, or sleeps.
TakeNothing(w) ==
  /\ AtFeed(w) /\ feed.tasks = <<>> /\ ~CanSteal(w)
  /\ worker' = [worker EXCEPT ![w].at = IF feed.closed THEN "flush" ELSE "asleep"]
  /\ UNCHANGED <<feedVars, prod, laneVars, flagVars>>

Take(w) == TakeOwn(w) \/ CountOwn(w) \/ TakeFeed(w) \/ Steal(w) \/ TakeNothing(w)
============================================================================
