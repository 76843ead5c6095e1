----------------------------- MODULE QueryTasks -----------------------------
(***************************************************************************)
(* A parallel grep (ferret-query/src/completion.rs and budget.rs, with the  *)
(* locks ferret/src/grep/groups/publish.rs puts round them).  Workers take  *)
(* tasks from the feed of TaskFeed, reserve input bytes and a descriptor    *)
(* admission, work, and hand completed groups to the caller in batches,     *)
(* through a held slot each and one bounded queue.  The caller publishes,   *)
(* sweeps the slots and ends the run.  A run may be cancelled, its output   *)
(* may fail, and a worker may panic.                                        *)
(*                                                                          *)
(* Group t is the completed group of task t; group -t the open stream that  *)
(* task t hands over while it works.  A stream's own channel holds one      *)
(* message, so its worker ends only against a publisher that reads it.      *)
(***************************************************************************)
EXTENDS TaskFeed

CONSTANTS Bytes,          \* IN_FLIGHT_BYTES
          HandoffBytes,   \* HANDOFF_BYTES
          HandoffGroups   \* HANDOFF_GROUPS

ASSUME LaneAssumption == /\ Bytes \in Nat /\ HandoffBytes \in Nat
                         /\ HandoffGroups \in Nat \ {0}

\* Held::default, and what take leaves behind
NoneHeld == [groups |-> <<>>, bytes |-> 0]

vars == <<mode, feed, run, stealable, prod, worker, budget, held, queue, caller,
          emitted, stop, cancelled>>

Init ==
  /\ mode \in Modes
  /\ feed = [tasks |-> <<>>, closed |-> FALSE, full |-> FALSE]
  /\ run = [w \in Worker |-> <<>>]
  /\ stealable = 0
  /\ prod = [at |-> IF mode.fed THEN "gather" ELSE "gone", next |-> 1,
             batch |-> <<>>, flushed |-> FALSE, closed |-> FALSE]
  /\ worker = [w \in Worker |-> [at |-> IF w \in mode.started THEN "top" ELSE "gone",
                                 task |-> None, out |-> <<>>]]
  /\ budget = [used |-> 0, waiting |-> 0, lock |-> None]
  /\ held = [w \in Worker |-> NoneHeld]
  /\ queue = <<>>
  /\ caller = [at |-> IF mode.fed THEN "collect" ELSE "unfed", batch |-> <<>>,
               clean |-> 0, slot |-> 1]
  /\ emitted = <<>>
  /\ stop = FALSE /\ cancelled = FALSE

----------------------------------------------------------------------------
(* The input-byte budget.                                                  *)

Reserves(t) == Min({mode.size[t], Bytes})
Fits(t) == budget.used = 0 \/ budget.used + Reserves(t) <= Bytes

\* Every sleeper on `freed` is notified.
Freed(ws) == [w \in Worker |-> IF ws[w].at = "parked" THEN [ws[w] EXCEPT !.at = "unparked"]
                               ELSE ws[w]]

\* The lock is taken before `freed` is notified, so a worker between its check
\* and its sleep is asleep by then.
Unlocked == budget.lock = None

\* The task is dropped if the run has stopped; bytes that fit are reserved.
Reserve(w) ==
  /\ At(w) = "reserve"
  /\ \/ /\ Stopped
        /\ worker' = Got(w, None, "flush")
        /\ UNCHANGED budget
     \/ /\ ~Stopped /\ Fits(worker[w].task)
        /\ worker' = [worker EXCEPT ![w].at = IF Unbounded THEN "read" ELSE "admit"]
        /\ budget' = [budget EXCEPT !.used = @ + Reserves(worker[w].task)]
  /\ UNCHANGED <<feedVars, prod, held, queue, caller, emitted, flagVars>>

\* Bytes that do not fit: the worker counts itself under the lock, checks
\* again and goes to sleep, in two steps.
ReserveWait(w) ==
  /\ At(w) = "reserve" /\ ~Stopped /\ ~Fits(worker[w].task)
  /\ Unlocked
  /\ worker' = [worker EXCEPT ![w].at = "parking"]
  /\ budget' = [budget EXCEPT !.waiting = @ + 1, !.lock = w]
  /\ UNCHANGED <<feedVars, prod, held, queue, caller, emitted, flagVars>>

Park(w) ==
  /\ At(w) = "parking"
  /\ worker' = [worker EXCEPT ![w].at = "parked"]
  /\ budget' = [budget EXCEPT !.lock = None]
  /\ UNCHANGED <<feedVars, prod, held, queue, caller, emitted, flagVars>>

Unpark(w) ==
  /\ At(w) = "unparked" /\ Unlocked
  /\ worker' = [worker EXCEPT ![w].at = "reserve"]
  /\ budget' = [budget EXCEPT !.waiting = @ - 1]
  /\ UNCHANGED <<feedVars, prod, held, queue, caller, emitted, flagVars>>

\* Dropping a reservation gives its bytes back; the notification follows.
Release(w) == budget' = [budget EXCEPT !.used = @ - Reserves(worker[w].task)]

----------------------------------------------------------------------------
(* A worker's task.                                                        *)

\* Search::work's admission, refused once the run has stopped.
AdmitReader(w) ==
  /\ At(w) = "admit"
  /\ \/ /\ ~Stopped /\ Admitted < mode.permits
        /\ worker' = [worker EXCEPT ![w].at = "read"]
        /\ UNCHANGED budget
     \/ /\ Stopped
        /\ worker' = [worker EXCEPT ![w].at = "worked"]
        /\ Release(w)
  /\ UNCHANGED <<feedVars, prod, held, queue, caller, emitted, flagVars>>

\* The work of a task that is captured whole.  A stuck one reads until the
\* run stops.
Work(w) ==
  /\ At(w) = "read"
  /\ Stopped \/ worker[w].task \notin mode.streamed \cup mode.stuck
  /\ worker' = [worker EXCEPT ![w].at = "worked"]
  /\ Release(w)
  /\ UNCHANGED <<feedVars, prod, held, queue, caller, emitted, flagVars>>

\* Lane::handoff: the held batch first, then the open stream.
Handoff(w) ==
  /\ At(w) = "read" /\ worker[w].task \in mode.streamed
  /\ LET flushed == IF held[w].groups = <<>> THEN <<>> ELSE <<held[w].groups>>
     IN worker' = [worker EXCEPT ![w].out = Append(flushed, <<-worker[w].task>>),
                                 ![w].at = "handoff"]
  /\ held' = [held EXCEPT ![w] = NoneHeld]
  /\ UNCHANGED <<feedVars, prod, budget, queue, caller, emitted, flagVars>>

\* The caller has dropped the receiving end.
ReceiverGone == caller.at \in {"waking", "joining", "returned"}

HandoffSend(w) ==
  /\ At(w) = "handoff"
  /\ LET out == worker[w].out
         last == Len(out) = 1
     IN \/ /\ ReceiverGone \/ (last /\ Stopped)
           /\ worker' = [worker EXCEPT ![w].out = <<>>, ![w].at = "worked"]
           /\ Release(w)
           /\ UNCHANGED queue
        \/ /\ ~ReceiverGone /\ ~(last /\ Stopped)
           /\ Len(queue) < Threads
           /\ queue' = Append(queue, Head(out))
           /\ worker' = [worker EXCEPT ![w].out = Tail(out),
                                       ![w].at = IF last THEN "stream" ELSE "handoff"]
           /\ UNCHANGED budget
  /\ UNCHANGED <<feedVars, prod, held, caller, emitted, flagVars>>

\* The stream's last message is read, or its worker sees the stop, or its
\* receiver has been dropped unread.
StreamEnd(w) ==
  /\ At(w) = "stream"
  /\ \/ Publishing /\ Head(caller.batch) = -worker[w].task
     \/ Stopped
     \/ ReceiverGone
  /\ worker' = [worker EXCEPT ![w].at = "worked"]
  /\ Release(w)
  /\ UNCHANGED <<feedVars, prod, held, queue, caller, emitted, flagVars>>

\* Held::add: the batches a completed group t sends, and what stays held.
Add(slot, t) ==
  LET weight == mode.weight[t]
      flushed == IF slot.groups = <<>> THEN <<>> ELSE <<slot.groups>>
      crosses == slot.bytes + weight > HandoffBytes
      base == IF crosses THEN NoneHeld ELSE slot
      kept == [groups |-> Append(base.groups, t), bytes |-> base.bytes + weight]
      full == Len(kept.groups) >= HandoffGroups
  IN IF weight >= HandoffBytes
     THEN [out |-> Append(flushed, <<t>>), keep |-> NoneHeld]
     ELSE [out |-> (IF crosses THEN flushed ELSE <<>>)
                     \o (IF full THEN <<kept.groups>> ELSE <<>>),
           keep |-> IF full THEN NoneHeld ELSE kept]

Handing(w) ==
  LET added == Add(held[w], worker[w].task)
      left == IF Stopped THEN Got(w, None, "flush")
              ELSE [Got(w, None, IF added.out = <<>> THEN "top" ELSE "send")
                      EXCEPT ![w].out = added.out]
  IN /\ worker' = IF budget.waiting > 0 THEN Freed(left) ELSE left
     /\ held' = IF Stopped THEN held ELSE [held EXCEPT ![w] = added.keep]
     /\ UNCHANGED <<feedVars, prod, budget, queue, caller, emitted, flagVars>>

\* A variant: the waiters are notified without taking their lock first.
HandUnlocked(w) == At(w) = "worked" /\ Handing(w)

\* The work has returned: waiters for bytes are woken, and unless the run has
\* stopped the group is held or sent.
Hand(w) == At(w) = "worked" /\ (budget.waiting > 0 => Unlocked) /\ Handing(w)

\* One batch of several into the bounded queue; a gone receiver ends the loop.
Send(w) ==
  /\ At(w) = "send"
  /\ \/ /\ ReceiverGone
        /\ worker' = [worker EXCEPT ![w].out = <<>>, ![w].at = "flush"]
        /\ UNCHANGED queue
     \/ /\ ~ReceiverGone /\ Len(queue) < Threads
        /\ queue' = Append(queue, Head(worker[w].out))
        /\ worker' = [worker EXCEPT ![w].out = Tail(@),
                        ![w].at = IF Len(worker[w].out) = 1 THEN "top" ELSE "send"]
  /\ UNCHANGED <<feedVars, prod, budget, held, caller, emitted, flagVars>>

\* The top of the loop sees the stop.
StopWork(w) ==
  /\ At(w) = "top" /\ Stopped
  /\ worker' = [worker EXCEPT ![w].at = "flush"]
  /\ UNCHANGED <<feedVars, prod, laneVars, flagVars>>

\* A variant: a worker that leaves drops what it holds.
FlushNothing(w) ==
  /\ At(w) = "flush"
  /\ held' = [held EXCEPT ![w] = NoneHeld]
  /\ worker' = Got(w, None, "leave")
  /\ UNCHANGED <<feedVars, prod, budget, queue, caller, emitted, flagVars>>

\* Lane::flush takes what is held and, unless the run stopped, sends it.
Flush(w) ==
  /\ At(w) = "flush"
  /\ held' = [held EXCEPT ![w] = NoneHeld]
  /\ worker' = IF Stopped \/ held[w].groups = <<>> THEN Got(w, None, "leave")
               ELSE [worker EXCEPT ![w].out = <<held[w].groups>>, ![w].at = "sendlast"]
  /\ UNCHANGED <<feedVars, prod, budget, queue, caller, emitted, flagVars>>

SendLast(w) ==
  /\ At(w) = "sendlast"
  /\ ReceiverGone \/ Len(queue) < Threads
  /\ queue' = IF ReceiverGone THEN queue ELSE Append(queue, Head(worker[w].out))
  /\ worker' = [worker EXCEPT ![w].out = <<>>, ![w].at = "leave"]
  /\ UNCHANGED <<feedVars, prod, budget, held, caller, emitted, flagVars>>

\* The worker drops its sender and closes the feed.
Leave(w) ==
  /\ At(w) = "leave"
  /\ Close([worker EXCEPT ![w].at = "gone"], prod)
  /\ UNCHANGED <<run, stealable, laneVars, flagVars>>

\* A variant: the reservation is not dropped as the task unwinds.
PanicKeeps(w) ==
  /\ worker[w].task \in mode.panics /\ At(w) \in {"read", "stream"}
  /\ worker' = [worker EXCEPT ![w].at = "unwinding"]
  /\ UNCHANGED <<feedVars, prod, laneVars, flagVars>>

\* A task panics.  Unwinding drops the reservation and wakes the waiters,
\* drops the sender, closes the feed, stops the run and wakes them again.
Panic(w) ==
  /\ worker[w].task \in mode.panics /\ At(w) \in {"read", "stream"}
  /\ worker' = [worker EXCEPT ![w].at = "unwinding"]
  /\ Release(w)
  /\ UNCHANGED <<feedVars, prod, held, queue, caller, emitted, flagVars>>

Unwind(w) ==
  /\ At(w) = "unwinding" /\ Unlocked
  /\ Close(Freed(Got(w, None, "halting")), prod)
  /\ stop' = TRUE
  /\ UNCHANGED <<run, stealable, laneVars, mode, cancelled>>

HaltWake(w) ==
  /\ At(w) = "halting" /\ Unlocked
  /\ worker' = Freed([worker EXCEPT ![w].at = "gone"])
  /\ UNCHANGED <<feedVars, prod, laneVars, flagVars>>

WorkerStep(w) ==
  \/ Take(w) \/ Reserve(w) \/ ReserveWait(w) \/ Park(w) \/ Unpark(w)
  \/ AdmitReader(w) \/ Work(w) \/ Handoff(w) \/ HandoffSend(w) \/ StreamEnd(w)
  \/ Hand(w) \/ Send(w) \/ StopWork(w) \/ Flush(w) \/ SendLast(w) \/ Leave(w)
  \/ Unwind(w) \/ HaltWake(w)

----------------------------------------------------------------------------
(* The caller.                                                             *)

Senders == {w \in Worker : At(w) \notin {"gone", "halting"}}

Receives == [caller EXCEPT !.batch = Head(queue), !.clean = 0, !.at = "publish"]

Collecting(timeout) ==
  /\ caller.at = "collect"
  /\ IF queue # <<>>
     THEN /\ caller' = Receives
          /\ queue' = Tail(queue)
     ELSE /\ caller' = IF Senders = {} THEN [caller EXCEPT !.at = "ending"]
                       ELSE IF caller.clean < Threads THEN [caller EXCEPT !.at = "sweep"]
                       ELSE timeout
          /\ UNCHANGED queue
  /\ UNCHANGED <<feedVars, prod, worker, budget, held, emitted, flagVars>>

\* A variant: a sleep that times out does not look at the slots again.
CollectOnce == Collecting(caller)

\* A queued handoff; the end of every sender; a look at the next slot, until
\* all have been seen empty in a row; then a sleep of at most SWEEP.
Collect == Collecting([caller EXCEPT !.clean = 0])

\* Takes one slot's batch, whatever reached the queue since it was empty.
Sweep ==
  /\ caller.at = "sweep"
  /\ LET batch == held[caller.slot].groups
     IN caller' = [caller EXCEPT !.batch = batch, !.slot = (@ % Threads) + 1,
                                 !.clean = IF batch = <<>> THEN @ + 1 ELSE 0,
                                 !.at = IF batch = <<>> THEN "collect" ELSE "publish"]
  /\ held' = [held EXCEPT ![caller.slot] = NoneHeld]
  /\ UNCHANGED <<feedVars, prod, worker, budget, queue, emitted, flagVars>>

\* What remains of the batch once its head is emitted; the batch is dropped
\* when emit breaks.
Emitted(breaks) ==
  IF breaks THEN [caller EXCEPT !.batch = <<>>, !.at = "ending"]
  ELSE [caller EXCEPT !.batch = Tail(@),
                      !.at = IF Len(caller.batch) = 1 THEN "collect" ELSE "publish"]

\* One group of the batch, under the publication lock.  A group's output may
\* fail, which cancels the run and breaks.
Publish ==
  /\ caller.at = "publish"
  /\ LET group == Head(caller.batch)
     IN \/ /\ Stopped
           /\ caller' = [caller EXCEPT !.batch = <<>>, !.at = "ending"]
           /\ UNCHANGED <<emitted, cancelled>>
        \/ /\ ~Stopped
           /\ emitted' = Append(emitted, group)
           /\ IF group < 0 THEN caller' = [caller EXCEPT !.at = "stream"] /\ UNCHANGED cancelled
              ELSE \E breaks \in mode.breaks : /\ caller' = Emitted(breaks)
                                           /\ cancelled' = (cancelled \/ breaks)
  /\ UNCHANGED <<feedVars, prod, worker, budget, held, queue, mode, stop>>

\* The stream's worker has finished, or has dropped its end.
StreamDone ==
  /\ Publishing
  /\ ~\E w \in Worker : At(w) = "stream" /\ Head(caller.batch) = -worker[w].task
  /\ \E breaks \in mode.breaks : caller' = Emitted(breaks) /\ cancelled' = (cancelled \/ breaks)
  /\ UNCHANGED <<feedVars, prod, worker, budget, held, queue, emitted, mode, stop>>

\* The scope's end: the receiver is dropped, the feed closed, the gate halted.
End ==
  /\ caller.at = "ending"
  /\ caller' = [caller EXCEPT !.at = "waking"]
  /\ queue' = <<>>
  /\ Close(worker, prod)
  /\ stop' = TRUE
  /\ UNCHANGED <<run, stealable, budget, held, emitted, mode, cancelled>>

Halt ==
  /\ caller.at = "waking" /\ Unlocked
  /\ worker' = Freed(worker)
  /\ caller' = [caller EXCEPT !.at = "joining"]
  /\ UNCHANGED <<feedVars, prod, budget, held, queue, emitted, flagVars>>

Join ==
  /\ caller.at = "joining"
  /\ prod.at = "gone" /\ \A w \in Worker : At(w) = "gone"
  /\ caller' = [caller EXCEPT !.at = "returned"]
  /\ UNCHANGED <<feedVars, prod, worker, budget, held, queue, emitted, flagVars>>

\* No producer could start: the caller closes the feed and works alone.
CloseUnfed ==
  /\ caller.at = "unfed"
  /\ caller' = [caller EXCEPT !.at = "alone"]
  /\ Close(worker, prod)
  /\ UNCHANGED <<run, stealable, budget, held, queue, emitted, flagVars>>

\* One task of the source after another, each published before the next.
Alone ==
  /\ caller.at = "alone"
  /\ IF Stopped \/ prod.next > mode.count
     THEN caller' = [caller EXCEPT !.at = "ending"] /\ UNCHANGED <<prod, emitted, cancelled>>
     ELSE \E breaks \in mode.breaks :
            /\ prod' = [prod EXCEPT !.next = @ + 1]
            /\ emitted' = emitted \o (IF prod.next \in mode.streamed
                                      THEN <<-prod.next>> ELSE <<>>) \o <<prod.next>>
            /\ cancelled' = (cancelled \/ breaks)
            /\ caller' = IF breaks THEN [caller EXCEPT !.at = "ending"] ELSE caller
  /\ UNCHANGED <<feedVars, worker, budget, held, queue, mode, stop>>

CallerStep == Collect \/ Sweep \/ Publish \/ StreamDone \/ End \/ Halt
                \/ Join \/ CloseUnfed \/ Alone

----------------------------------------------------------------------------

\* A signal, a quiet hit or a fatal error elsewhere cancels the run.
Cancel ==
  /\ mode.cancels /\ ~cancelled /\ caller.at # "returned"
  /\ cancelled' = TRUE
  /\ UNCHANGED <<feedVars, prod, worker, laneVars, mode, stop>>

Returned == caller.at = "returned" /\ UNCHANGED vars

Next == Produce \/ (\E w \in Worker : WorkerStep(w) \/ Panic(w)) \/ CallerStep
          \/ Cancel \/ Returned

Spec == Init /\ [][Next]_vars

\* Every thread is scheduled; SWEEP and BATCH_WAIT pass.  Nothing need cancel
\* or panic.
Fairness == /\ WF_vars(Produce) /\ WF_vars(CallerStep)
            /\ \A w \in Worker : WF_vars(WorkerStep(w))

FairSpec == Spec /\ Fairness

----------------------------------------------------------------------------
(* Properties.                                                             *)

Groups == Task \cup {-t : t \in Task}

TypeOK ==
  /\ mode \in Modes
  /\ feed \in [tasks : Seq(Task), closed : BOOLEAN, full : BOOLEAN]
  /\ Len(feed.tasks) < Capacity + RunTasks
  /\ run \in [Worker -> Seq(Task)] /\ \A w \in Worker : Len(run[w]) < RunTasks
  /\ stealable \in Nat
  /\ prod.next \in 1..(MaxTasks + 1) /\ Len(prod.batch) <= BatchLen
  /\ \A w \in Worker : worker[w].task \in Task \cup {None} /\ Len(worker[w].out) <= 2
  /\ budget \in [used : 0..Bytes, waiting : 0..Threads, lock : Worker \cup {None}]
  /\ held \in [Worker -> [groups : Seq(Task), bytes : 0..HandoffBytes]]
  /\ \A w \in Worker : Len(held[w].groups) < HandoffGroups
  /\ Len(queue) <= Threads
  /\ emitted \in Seq(Groups)
  /\ stop \in BOOLEAN /\ cancelled \in BOOLEAN

\* A run that ends of itself has published the group of every task, no group
\* is published twice, and a stream is published before the group of the task
\* that fed it.  Covers stealing, early exits of workers, sweeps that race
\* sends, and lane flushes that race the collection's end.
EveryGroupOnce ==
  /\ IsInjective(emitted)
  /\ caller.at = "ending" /\ ~Stopped => 1..mode.count \subseteq ToSet(emitted)
  /\ \A i \in DOMAIN emitted : emitted[i] \in mode.streamed =>
       \E j \in 1..(i - 1) : emitted[j] = -emitted[i]

\* The bytes each worker has reserved, those of the groups in a slot, and the
\* tasks in each run.
InFlight ==
  UNION {{w} \X (1..Reserves(worker[w].task)) :
           w \in {v \in Worker : At(v) \in {"admit", "read", "handoff", "stream"}}}

Weights(groups) == UNION {{i} \X (1..mode.weight[groups[i]]) : i \in DOMAIN groups}

InRuns == UNION {{w} \X DOMAIN run[w] : w \in Worker}

\* The bytes in flight are those of the tasks that hold a reservation, through
\* panics, stops and broken handoffs, and the waiters are counted exactly.
\* The feed, the runs and what a worker holds back stay within their bounds.
BytesExact ==
  /\ TypeOK
  /\ budget.used = Cardinality(InFlight)
  /\ \A w \in Worker : held[w].bytes = Cardinality(Weights(held[w].groups))
  /\ budget.waiting = Cardinality({w \in Worker :
       At(w) \in {"parking", "parked", "unparked"}})

\* The comment on Feed.stealable: "Tasks in `runs`, never fewer".  A worker
\* that reads zero and sleeps leaves nothing behind it.
StealableNeverFewer ==
  stealable >= Cardinality(InRuns)

\* While a streaming worker sleeps unnotified, every task in the feed has a
\* notified worker on its way: a producer that blocks on that task's work is
\* released (the comment on Feed).
StreamingWakes ==
  ~mode.indexed /\ ~feed.closed /\ (\E w \in Worker : At(w) = "asleep") =>
    Len(feed.tasks) <= Cardinality({w \in Worker : At(w) = "woken"})

\* A task blocked in its read holds up no other: the rest of its run is
\* stolen, and groups its worker holds are swept to the caller.
OthersPublished ==
  <>(Stopped \/ 1..mode.count \subseteq ToSet(emitted) \cup mode.stuck)

\* A run whose tasks all end returns, and so does every run that is cancelled,
\* whose output fails or whose worker panics: no thread waits for room, for a
\* task, for bytes, for an admission, for the queue or for the publisher.
RunEnds ==
  (Stopped \/ mode.stuck = {}) ~> caller.at = "returned"
============================================================================
