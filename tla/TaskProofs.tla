------------------------------ MODULE TaskProofs -------------------------------
(***************************************************************************)
(* The feed and the lanes of a parallel grep, for any number of workers    *)
(* and any source: the counts that are kept beside what they count, the    *)
(* wakeups that depend on them, and that every group is published once.    *)
(***************************************************************************)
EXTENDS QueryTasks, Counting, FiniteSetTheorems, SequenceTheorems,
        NaturalsInduction, WellFoundedInduction, TLAPS

Places == {"top", "counted", "reserve", "parking", "parked", "unparked", "admit", "read",
           "handoff", "stream", "worked", "send", "flush", "sendlast", "leave", "gone",
           "asleep", "woken", "unwinding", "halting"}

\* Where a worker has a reservation, waits for one, and has a task.
HoldsBytes == {"admit", "read", "handoff", "stream"}
WaitsBytes == {"parking", "parked", "unparked"}
HasTask == {"counted", "reserve", "worked", "unwinding"} \cup HoldsBytes \cup WaitsBytes

Batch == Seq(Groups) \ {<<>>}

WorkerRecord == [at : Places, task : Task \cup {None}, out : Seq(Batch)]

SlotRecord == [groups : Seq(Task), bytes : 0..HandoffBytes]

BudgetRecord == [used : Int, waiting : Int, lock : Worker \cup {None}]

ProdRecord == [at : {"gather", "admitted", "push", "room", "roused", "end", "gone"},
               next : 1..(MaxTasks + 1), batch : Seq(Task), flushed : BOOLEAN,
               closed : BOOLEAN]

CallerPlaces == {"collect", "sweep", "publish", "stream", "ending", "waking", "joining",
                 "returned", "unfed", "alone"}

CallerRecord == [at : CallerPlaces,
                 batch : Seq(Groups), clean : Nat, slot : Worker]

\* The types, finer than TypeOK.
TypeInv ==
  /\ mode \in Modes
  /\ feed \in [tasks : Seq(Task), closed : BOOLEAN, full : BOOLEAN]
  /\ run \in [Worker -> Seq(Task)]
  /\ prod \in ProdRecord
  /\ worker \in [Worker -> WorkerRecord]
  /\ budget \in BudgetRecord
  /\ held \in [Worker -> SlotRecord]
  /\ queue \in Seq(Batch) /\ Len(queue) <= Threads
  /\ caller \in CallerRecord
  /\ emitted \in Seq(Groups)
  /\ stop \in BOOLEAN /\ cancelled \in BOOLEAN

\* How far a producer at this place is ahead: n tasks in the feed and b in its
\* batch, of at most L.
Ahead(L, n, b, at, flushed, closed) ==
  LET gathers == at \in {"gather", "admitted"}
  IN  /\ n < Capacity + L /\ b <= L
      /\ gathers => b < L
      /\ ~closed => /\ gathers /\ ~flushed => n < Capacity
                    /\ gathers /\ flushed => b = 0 /\ n < Capacity + L - 1
                    /\ at = "push" => n + b < Capacity + L
                    /\ at \in {"room", "roused"} => b = 0

FeedInv ==
  /\ Ahead(BatchLen, Len(feed.tasks), Len(prod.batch), prod.at, prod.flushed, feed.closed)
  /\ prod.at = "admitted" => prod.next <= mode.count
  /\ caller.at \in {"unfed", "alone"} => prod.at = "gone"

\* The tasks in these runs.
Slots(runs) == [w \in Worker |-> 1..Len(runs[w])]
Tasks(runs) == Cardinality(Pool(Worker, Slots(runs)))

Counted == {w \in Worker : worker[w].at = "counted"}

\* The count of stealable tasks is late by the workers that have yet to lower it.
RunInv ==
  /\ stealable = Tasks(run) + Cardinality(Counted)
  /\ \A w \in Worker : /\ Len(run[w]) < RunTasks
                       /\ worker[w].at \in {"asleep", "woken"} => run[w] = <<>>

\* A slot that keeps within its bounds and knows its bytes.
SlotExact(slot) ==
  /\ slot \in SlotRecord
  /\ Len(slot.groups) < HandoffGroups
  /\ slot.bytes = Cardinality(Weights(slot.groups))

\* What a worker has at each place, what its slot holds, and what the caller has.
LaneInv ==
  /\ \A w \in Worker : /\ worker[w].at \in HasTask => worker[w].task \in Task
                       /\ worker[w].at \in {"handoff", "send", "sendlast"} => worker[w].out # <<>>
                       /\ Len(worker[w].out) <= 2
                       /\ SlotExact(held[w])
  /\ caller.at \in {"publish", "stream"} => caller.batch # <<>>

ByteSlots ==
  [w \in Worker |-> IF worker[w].at \in HoldsBytes THEN 1..Reserves(worker[w].task) ELSE {}]

Waiters == {w \in Worker : worker[w].at \in WaitsBytes}

ByteInv ==
  /\ budget.used = Cardinality(Pool(Worker, ByteSlots)) /\ budget.used <= Bytes
  /\ budget.waiting = Cardinality(Waiters)

TaskInv == TypeInv /\ FeedInv /\ RunInv /\ LaneInv /\ ByteInv /\ StreamingWakes

----------------------------------------------------------------------------
(* What a step does to the workers: one moves, and a notification may move  *)
(* others on from their sleep.                                              *)

\* ws is the workers with w put elsewhere.
Moved(w, ws, at, task, out) ==
  /\ ws \in [Worker -> WorkerRecord]
  /\ ws[w].at = at /\ ws[w].task = task /\ ws[w].out = out
  /\ \A v \in Worker \ {w} : ws[v] = worker[v]

\* A worker before and after a notification.
Slides(a, b) ==
  /\ b.task = a.task /\ b.out = a.out
  /\ \/ b.at = a.at
     \/ a.at = "asleep" /\ b.at = "woken"
     \/ a.at = "parked" /\ b.at = "unparked"

Nudged(ws, vs) ==
  /\ vs \in [Worker -> WorkerRecord]
  /\ \A v \in Worker : Slides(ws[v], vs[v])

Turned(w, at, task, out) ==
  /\ worker' \in [Worker -> WorkerRecord]
  /\ worker'[w].at = at /\ worker'[w].task = task /\ worker'[w].out = out
  /\ \A v \in Worker \ {w} : Slides(worker[v], worker'[v])

\* A step that only moves its worker.
LEMMA PlacedMoves ==
  ASSUME worker \in [Worker -> WorkerRecord], NEW w \in Worker, NEW at \in Places
  PROVE  Moved(w, [worker EXCEPT ![w].at = at], at, worker[w].task, worker[w].out)
BY DEF Moved, WorkerRecord

\* A step that gives its worker a task, or takes it away.
LEMMA GotMoves ==
  ASSUME worker \in [Worker -> WorkerRecord], NEW w \in Worker, NEW at \in Places,
         NEW task \in Task \cup {None}
  PROVE  Moved(w, Got(w, task, at), at, task, worker[w].out)
<1>1. Got(w, task, at) =
        [worker EXCEPT ![w] = [[worker[w] EXCEPT !.task = task] EXCEPT !.at = at]]
  BY DEF Got, WorkerRecord
<1>2. [[worker[w] EXCEPT !.task = task] EXCEPT !.at = at] \in WorkerRecord
  BY DEF WorkerRecord
<1> QED BY <1>1, <1>2 DEF Moved, WorkerRecord

\* A step that changes the batches in its worker's hand.
LEMMA SentMoves ==
  ASSUME worker \in [Worker -> WorkerRecord], NEW w \in Worker, NEW at \in Places,
         NEW out \in Seq(Batch)
  PROVE  Moved(w, [worker EXCEPT ![w].out = out, ![w].at = at], at, worker[w].task, out)
<1>1. [worker EXCEPT ![w].out = out, ![w].at = at] =
        [worker EXCEPT ![w] = [[worker[w] EXCEPT !.out = out] EXCEPT !.at = at]]
  BY DEF WorkerRecord
<1>2. [[worker[w] EXCEPT !.out = out] EXCEPT !.at = at] \in WorkerRecord
  BY DEF WorkerRecord
<1> QED BY <1>1, <1>2 DEF Moved, WorkerRecord

\* A step that changes both.
LEMMA GotSentMoves ==
  ASSUME worker \in [Worker -> WorkerRecord], NEW w \in Worker, NEW at \in Places,
         NEW task \in Task \cup {None}, NEW out \in Seq(Batch)
  PROVE  Moved(w, [Got(w, task, at) EXCEPT ![w].out = out], at, task, out)
<1>1. Moved(w, Got(w, task, at), at, task, worker[w].out)
  BY GotMoves
<1> DEFINE g == Got(w, task, at)
<1> HIDE DEF g
<1>2. [g EXCEPT ![w].out = out] \in [Worker -> WorkerRecord]
  BY <1>1 DEF Moved, WorkerRecord, g
<1> QED BY <1>1, <1>2 DEF Moved, WorkerRecord, g

\* What the notifications of the feed and of the budget do to workers.
LEMMA Nudges ==
  ASSUME NEW ws \in [Worker -> WorkerRecord]
  PROVE  /\ Nudged(ws, ws) /\ Nudged(ws, NotifyAll(ws)) /\ Nudged(ws, Freed(ws))
         /\ \A vs \in NotifyOne(ws) : Nudged(ws, vs)
<1> USE DEF Places
<1>1. Nudged(ws, ws)
  BY DEF Nudged, Slides, WorkerRecord
<1>2. Nudged(ws, NotifyAll(ws))
  <2>1. \A w \in Worker : ws[w].at = "asleep" => [ws[w] EXCEPT !.at = "woken"] \in WorkerRecord
    BY DEF WorkerRecord
  <2> QED BY <2>1 DEF Nudged, Slides, NotifyAll, WorkerRecord
<1>3. Nudged(ws, Freed(ws))
  <2>1. \A w \in Worker : ws[w].at = "parked" => [ws[w] EXCEPT !.at = "unparked"] \in WorkerRecord
    BY DEF WorkerRecord
  <2> QED BY <2>1 DEF Nudged, Slides, Freed, WorkerRecord
<1>4. ASSUME NEW vs \in NotifyOne(ws) PROVE Nudged(ws, vs)
  <2>1. CASE vs = ws
    BY <2>1, <1>1
  <2>2. CASE vs # ws
    <3>1. PICK w \in Worker : ws[w].at = "asleep" /\ vs = [ws EXCEPT ![w].at = "woken"]
      BY <2>2 DEF NotifyOne
    <3> QED BY <3>1 DEF Nudged, Slides, WorkerRecord
  <2> QED BY <2>1, <2>2
<1> QED BY <1>1, <1>2, <1>3, <1>4

\* Two notifications are as one.
LEMMA NudgedTwice ==
  ASSUME NEW us, NEW ws, NEW vs, Nudged(us, ws), Nudged(ws, vs)
  PROVE  Nudged(us, vs)
BY DEF Nudged, Slides

\* One worker's move, with or without a notification of the others, is its turn.
LEMMA MovedTurns ==
  ASSUME worker \in [Worker -> WorkerRecord], NEW w \in Worker, NEW ws,
         NEW at, NEW task, NEW out, Moved(w, ws, at, task, out),
         \/ worker' = ws
         \/ Nudged(ws, worker') /\ at \notin {"asleep", "parked"}
  PROVE  Turned(w, at, task, out)
<1>1. CASE worker' = ws
  BY <1>1 DEF Moved, Turned, Slides
<1>2. CASE Nudged(ws, worker') /\ at \notin {"asleep", "parked"}
  BY <1>2 DEF Moved, Turned, Nudged, Slides
<1> QED BY <1>1, <1>2

----------------------------------------------------------------------------
(* What a slot holds.                                                      *)

\* The constants, with a search's own sizes and weights.
LEMMA ModeFacts ==
  ASSUME mode \in Modes
  PROVE  /\ mode.count \in Task /\ mode.indexed \in BOOLEAN
         /\ mode.size \in [Task -> Nat] /\ mode.weight \in [Task -> Nat]
         /\ mode.breaks \in {{FALSE}, BOOLEAN} /\ MaxTasks \in Nat
         /\ BatchLen \in Nat \ {0} /\ RunTasks \in Nat \ {0} /\ BatchLen <= RunTasks
         /\ mode.indexed \/ BatchLen = 1
<1>1. mode \in ModeType
  BY FeedAssumption
<1>2. RunTasks \in Nat \ {0} /\ MaxTasks \in Nat
  BY FeedAssumption
<1>3. /\ mode.count \in Task /\ mode.indexed \in BOOLEAN
      /\ mode.size \in [Task -> Nat] /\ mode.weight \in [Task -> Nat]
  BY <1>1 DEF ModeType
<1>4. mode.breaks \in {{FALSE}, BOOLEAN}
  BY <1>1 DEF ModeType
<1>5. BatchLen \in Nat \ {0} /\ BatchLen <= RunTasks /\ (mode.indexed \/ BatchLen = 1)
  BY <1>2 DEF BatchLen
<1> QED BY <1>2, <1>3, <1>4, <1>5

\* The workers are numbered, finitely many and at least one.
LEMMA WorkerFacts ==
  /\ IsFiniteSet(Worker) /\ Threads \in Nat \ {0} /\ Worker = 1 .. Threads
  /\ Capacity \in Nat
<1>1. IsFiniteSet(Worker) /\ Worker # {} /\ Worker = 1 .. Cardinality(Worker)
  BY FeedAssumption
<1>2. Cardinality(Worker) \in Nat
  BY <1>1, FS_CardinalityType
<1> QED BY <1>1, <1>2, FeedAssumption DEF Threads

\* Groups make batches.
LEMMA Batches ==
  /\ \A g \in Seq(Task) : g \in Seq(Groups) /\ (g # <<>> => g \in Batch)
  /\ \A t \in Groups : <<t>> \in Batch
  /\ <<>> \in Seq(Batch)
<1>1. \A g \in Seq(Task) : g \in Seq(Groups)
  BY DEF Groups
<1>2. \A t \in Groups : <<t>> \in Seq(Groups) /\ <<t>> # <<>>
  OBVIOUS
<1>3. <<>> \in Seq(Batch)
  OBVIOUS
<1> QED BY <1>1, <1>2, <1>3 DEF Batch

\* One group more weighs its weight more, and no groups weigh nothing.
LEMMA WeightsAdd ==
  ASSUME mode \in Modes, NEW g \in Seq(Task), NEW t \in Task
  PROVE  /\ Cardinality(Weights(<<>>)) = 0
         /\ Cardinality(Weights(g)) \in Nat
         /\ Cardinality(Weights(Append(g, t))) = Cardinality(Weights(g)) + mode.weight[t]
<1>1. mode.weight \in [Task -> Nat]
  BY ModeFacts
<1>2. Weights(<<>>) = {}
  BY DEF Weights
<1> DEFINE n == Len(g)
           I == 1 .. (n + 1)
           h == Append(g, t)
           S == [i \in I |-> 1 .. mode.weight[h[i]]]
           R == UNION {{i} \X S[i] : i \in I \ {n + 1}}
<1>3. n \in Nat /\ h \in Seq(Task) /\ DOMAIN h = I /\ h[n + 1] = t /\ DOMAIN g = 1 .. n
      /\ \A i \in 1 .. n : h[i] = g[i] /\ g[i] \in Task
  OBVIOUS
<1>4. \A i \in I : mode.weight[h[i]] \in Nat
  BY <1>1, <1>3
<1>5. \A i \in I : IsFiniteSet(S[i]) /\ Cardinality(S[i]) = mode.weight[h[i]]
  <2> TAKE i \in I
  <2>1. S[i] = 1 .. mode.weight[h[i]]
    OBVIOUS
  <2> HIDE DEF S, h
  <2> QED BY <1>4, <2>1, IntervalSize
<1>6. IsFiniteSet(I) /\ n + 1 \in I
  <2>1. n + 1 \in Nat
    BY <1>3
  <2> QED BY <2>1, IntervalSize
<1>7. Weights(h) = Pool(I, S)
  <2>1. {{i} \X (1 .. mode.weight[h[i]]) : i \in DOMAIN h} = {{i} \X S[i] : i \in I}
    BY <1>3
  <2> QED BY <2>1 DEF Weights, Pool
<1>8. Weights(g) = R
  <2>1. I \ {n + 1} = 1 .. n
    BY <1>3
  <2>2. \A i \in 1 .. n : S[i] = 1 .. mode.weight[g[i]]
    BY <1>3
  <2>3. {{i} \X (1 .. mode.weight[g[i]]) : i \in DOMAIN g} = {{i} \X S[i] : i \in I \ {n + 1}}
    BY <1>3, <2>1, <2>2
  <2> QED BY <2>3 DEF Weights
<1>9. /\ Cardinality(R) \in Nat /\ Cardinality(S[n + 1]) \in Nat
      /\ Cardinality(Pool(I, S)) = Cardinality(R) + Cardinality(S[n + 1])
  <2> HIDE DEF I, S, n
  <2> QED BY <1>5, <1>6, PoolSplit
<1>10. Cardinality(S[n + 1]) = mode.weight[t]
  BY <1>3, <1>5, <1>6
<1>11. Cardinality(Weights(<<>>)) = 0
  BY <1>2, FS_EmptySet
<1> HIDE DEF n, I, S, R
<1> QED BY <1>7, <1>8, <1>9, <1>10, <1>11

\* An empty slot knows its bytes.
LEMMA NoneHeldExact ==
  ASSUME mode \in Modes
  PROVE  SlotExact(NoneHeld)
<1>1. Cardinality(Weights(<<>>)) = 0
  BY FS_EmptySet DEF Weights
<1>2. HandoffBytes \in Nat /\ HandoffGroups \in Nat \ {0}
  BY LaneAssumption
<1>3. <<>> \in Seq(Task) /\ Len(<<>>) = 0
  OBVIOUS
<1> QED BY <1>1, <1>2, <1>3 DEF SlotExact, SlotRecord, NoneHeld

\* Held::add keeps a slot so, and sends at most two batches, none empty.
LEMMA AddExact ==
  ASSUME mode \in Modes, NEW slot, SlotExact(slot), NEW t \in Task
  PROVE  /\ SlotExact(Add(slot, t).keep)
         /\ Add(slot, t).out \in Seq(Batch) /\ Len(Add(slot, t).out) <= 2
<1> DEFINE weight == mode.weight[t]
           flushed == IF slot.groups = <<>> THEN <<>> ELSE <<slot.groups>>
           crosses == slot.bytes + weight > HandoffBytes
           base == IF crosses THEN NoneHeld ELSE slot
           kept == [groups |-> Append(base.groups, t), bytes |-> base.bytes + weight]
           full == Len(kept.groups) >= HandoffGroups
<1>1. weight \in Nat
  BY ModeFacts
<1>2. HandoffBytes \in Nat /\ HandoffGroups \in Nat \ {0}
  BY LaneAssumption
<1>3. slot.groups \in Seq(Task) /\ slot.bytes \in Nat /\ slot.bytes <= HandoffBytes
  BY <1>2 DEF SlotExact, SlotRecord
<1>4. SlotExact(NoneHeld) /\ SlotExact(base)
  BY NoneHeldExact
<1>5. t \in Groups /\ <<t>> \in Batch
  BY Batches DEF Groups
<1>6. flushed \in Seq(Batch) /\ Len(flushed) <= 1
  <2>1. CASE slot.groups = <<>>
    BY <2>1, Batches
  <2>2. CASE slot.groups # <<>>
    <3>1. slot.groups \in Batch
      BY <2>2, <1>3, Batches
    <3> HIDE DEF flushed
    <3>2. flushed = <<slot.groups>>
      BY <2>2 DEF flushed
    <3> QED BY <3>1, <3>2
  <2> QED BY <2>1, <2>2
<1>7. base.groups \in Seq(Task) /\ base.bytes \in Nat
      /\ base.bytes = Cardinality(Weights(base.groups))
  <2> HIDE DEF base
  <2> QED BY <1>4, <1>2 DEF SlotExact, SlotRecord
<1>8. kept.groups \in Seq(Task) /\ kept.groups # <<>> /\ kept.bytes = base.bytes + weight
      /\ kept.groups = Append(base.groups, t)
  <2> HIDE DEF base, weight
  <2> QED BY <1>7
<1>9. kept.bytes = Cardinality(Weights(kept.groups)) /\ kept.bytes \in Nat
  <2>1. Cardinality(Weights(Append(base.groups, t))) = Cardinality(Weights(base.groups)) + weight
    <3> HIDE DEF base
    <3> QED BY <1>7, WeightsAdd
  <2> HIDE DEF kept, base, weight
  <2> QED BY <1>1, <1>7, <1>8, <2>1
<1>10. weight < HandoffBytes => kept.bytes <= HandoffBytes
  <2>1. CASE crosses
    <3>1. base.bytes = 0
      BY <2>1 DEF NoneHeld
    <3> HIDE DEF kept, base, weight
    <3> QED BY <1>1, <1>2, <1>8, <3>1
  <2>2. CASE ~crosses
    <3>1. base = slot
      BY <2>2
    <3> HIDE DEF kept, base, weight
    <3> QED BY <1>1, <1>2, <1>3, <1>8, <2>2, <3>1
  <2> QED BY <2>1, <2>2
<1>11. kept.groups \in Batch /\ <<kept.groups>> \in Seq(Batch) /\ Len(<<kept.groups>>) = 1
  <2>1. kept.groups \in Batch
    <3> HIDE DEF kept
    <3> QED BY <1>8, Batches
  <2> HIDE DEF kept
  <2> QED BY <2>1
<1>12. kept = [groups |-> kept.groups, bytes |-> kept.bytes]
  OBVIOUS
<1>13. CASE weight >= HandoffBytes
  <2>1. Add(slot, t) = [out |-> Append(flushed, <<t>>), keep |-> NoneHeld]
    BY <1>13 DEF Add
  <2> HIDE DEF flushed
  <2>2. Append(flushed, <<t>>) \in Seq(Batch) /\ Len(Append(flushed, <<t>>)) = Len(flushed) + 1
    BY <1>5, <1>6
  <2>3. Len(flushed) \in Nat
    BY <1>6
  <2> QED BY <1>4, <1>6, <2>1, <2>2, <2>3
<1>14. CASE ~(weight >= HandoffBytes)
  <2> DEFINE a == IF crosses THEN flushed ELSE <<>>
             b == IF full THEN <<kept.groups>> ELSE <<>>
             k == IF full THEN NoneHeld ELSE kept
  <2>1. Add(slot, t) = [out |-> a \o b, keep |-> k]
    BY <1>14 DEF Add
  <2>2. a \in Seq(Batch) /\ Len(a) <= 1
    <3> HIDE DEF flushed
    <3> QED BY <1>6, Batches
  <2>3. b \in Seq(Batch) /\ Len(b) <= 1
    <3> HIDE DEF kept
    <3> QED BY <1>11, Batches
  <2>4. SlotExact(k)
    <3>1. CASE full
      BY <1>4, <3>1
    <3>2. CASE ~full
      <4>1. k = kept
        BY <3>2
      <4>2. kept.bytes \in 0 .. HandoffBytes
        <5> HIDE DEF kept, weight
        <5> QED BY <1>1, <1>2, <1>9, <1>10, <1>14
      <4>3. kept \in SlotRecord
        <5> HIDE DEF kept
        <5> QED BY <1>8, <1>12, <4>2 DEF SlotRecord
      <4>4. Len(kept.groups) < HandoffGroups
        <5>1. Len(kept.groups) \in Nat
          <6> HIDE DEF kept
          <6> QED BY <1>8
        <5> HIDE DEF kept
        <5> QED BY <1>2, <3>2, <5>1
      <4> HIDE DEF kept
      <4> QED BY <1>9, <4>1, <4>3, <4>4 DEF SlotExact
    <3> QED BY <3>1, <3>2
  <2>5. a \o b \in Seq(Batch) /\ Len(a \o b) = Len(a) + Len(b)
    <3> HIDE DEF a, b
    <3> QED BY <2>2, <2>3
  <2>6. Len(a) \in Nat /\ Len(b) \in Nat
    <3> HIDE DEF a, b
    <3> QED BY <2>2, <2>3
  <2> HIDE DEF a, b, k
  <2> QED BY <2>1, <2>2, <2>3, <2>4, <2>5, <2>6
<1> QED BY <1>13, <1>14

----------------------------------------------------------------------------
(* What a take finds.                                                      *)

\* The least of some natural numbers is one of them.
LEMMA MinIn ==
  ASSUME NEW S \in SUBSET Nat, S # {}
  PROVE  Min(S) \in S /\ \A i \in S : Min(S) <= i
<1> DEFINE R == OpToRel(<, Nat)
<1>1. IsWellFoundedOn(R, Nat)
  BY NatLessThanWellFounded
<1>2. PICK k \in S : \A i \in S : ~ (<<i, k>> \in R)
  <2> HIDE DEF R
  <2> QED BY <1>1, WFMin
<1>3. \A i \in S : k <= i
  <2> TAKE i \in S
  <2>1. ~ (i < k)
    BY <1>2 DEF OpToRel
  <2> QED BY <2>1
<1> QED BY <1>3 DEF Min

\* So is the greatest of some bounded ones.
LEMMA MaxIn ==
  ASSUME NEW K \in Nat, NEW S \in SUBSET (0 .. K), S # {}
  PROVE  Max(S) \in S
<1> DEFINE T == {K - i : i \in S}
<1>1. T \in SUBSET Nat
  OBVIOUS
<1>2. T # {}
  OBVIOUS
<1> HIDE DEF T
<1>3. Min(T) \in T /\ \A i \in T : Min(T) <= i
  BY <1>1, <1>2, MinIn
<1>4. PICK k \in S : Min(T) = K - k
  BY <1>3 DEF T
<1>5. \A i \in S : k >= i
  <2> TAKE i \in S
  <2>1. K - i \in T
    BY DEF T
  <2>2. K - k <= K - i
    BY <1>3, <1>4, <2>1
  <2> QED BY <2>2
<1> QED BY <1>5 DEF Max

\* A run is no longer than what is left of the feed, and shorter than RUN_TASKS.
LEMMA RunsBounded ==
  ASSUME TypeInv, feed.tasks # <<>>
  PROVE  /\ Runs \in 0 .. (Len(feed.tasks) - 1) /\ Runs < RunTasks
         /\ ~mode.indexed => Runs = 0
<1> DEFINE first == Head(feed.tasks)
           rest == Tail(feed.tasks)
           K == Len(rest)
           S == {0} \cup {n \in 1 .. K :
                  /\ n < RunTasks
                  /\ mode.size[first] + SizeOf(SubSeq(rest, 1, n)) <= RunBytes}
<1>1. feed.tasks \in Seq(Task) /\ mode \in Modes
  BY DEF TypeInv
<1>2. K \in Nat /\ K = Len(feed.tasks) - 1
  BY <1>1
<1>3. RunTasks \in Nat \ {0}
  BY <1>1, ModeFacts
<1>4. S \in SUBSET (0 .. K) /\ S # {}
  <2> HIDE DEF K
  <2> QED BY <1>2
<1>5. RunLength(first, rest) = Max(S)
  BY DEF RunLength
<1>6. \A n \in S : n < RunTasks
  BY <1>3
<1>7. Max(S) \in S
  <2> HIDE DEF S, K
  <2> QED BY <1>2, <1>4, MaxIn
<1>8. Runs = IF mode.indexed THEN Max(S) ELSE 0
  BY <1>5 DEF Runs
<1> DEFINE m == Max(S)
<1> HIDE DEF S, K
<1>9. m \in 0 .. K /\ m < RunTasks
  BY <1>4, <1>6, <1>7
<1>10. Runs = IF mode.indexed THEN m ELSE 0
  BY <1>8
<1> HIDE DEF m
<1> QED BY <1>2, <1>3, <1>9, <1>10

\* The victim of a thief is another worker, with something to steal.
LEMMA VictimFacts ==
  ASSUME TypeInv, NEW w \in Worker, CanSteal(w), run[w] = <<>>
  PROVE  LET victim == Beside(w, Min(Victims(w)))
         IN  victim \in Worker /\ victim # w /\ run[victim] # <<>>
<1> DEFINE V == Victims(w)
           k == Min(V)
<1>1. Threads \in Nat \ {0} /\ Worker = 1 .. Threads
  BY WorkerFacts
<1>2. V \in SUBSET Nat /\ V # {}
  BY <1>1 DEF Victims, CanSteal
<1>3. k \in V
  <2> HIDE DEF V
  <2> QED BY <1>2, MinIn
<1> HIDE DEF k
<1>4. k \in 1 .. (Threads - 1) /\ run[Beside(w, k)] # <<>>
  BY <1>3 DEF Victims
<1>5. Beside(w, k) \in 1 .. Threads
  BY <1>1, <1>4 DEF Beside
<1>6. Beside(w, k) # w
  BY <1>4
<1> QED BY <1>1, <1>4, <1>5, <1>6 DEF k

----------------------------------------------------------------------------
(* The turn each action of a worker takes.                                 *)

\* The turns of Feed::take that rob nobody.
LEMMA FeedTurns ==
  ASSUME TypeInv, NEW w \in Worker
  PROVE  /\ TakeOwn(w) => /\ Head(run[w]) \in Task
                          /\ Turned(w, "counted", Head(run[w]), worker[w].out)
         /\ CountOwn(w) => Turned(w, "reserve", worker[w].task, worker[w].out)
         /\ TakeFeed(w) => /\ Head(feed.tasks) \in Task
                           /\ Turned(w, "reserve", Head(feed.tasks), worker[w].out)
         /\ TakeNothing(w) => Turned(w, IF feed.closed THEN "flush" ELSE "asleep",
                                     worker[w].task, worker[w].out)
         /\ StopWork(w) => Turned(w, "flush", worker[w].task, worker[w].out)
<1>0. worker \in [Worker -> WorkerRecord] /\ run[w] \in Seq(Task) /\ feed.tasks \in Seq(Task)
  BY DEF TypeInv
<1>1. ASSUME TakeOwn(w)
      PROVE  Head(run[w]) \in Task /\ Turned(w, "counted", Head(run[w]), worker[w].out)
  <2>1. Head(run[w]) \in Task
    BY <1>0, <1>1 DEF TakeOwn
  <2>2. Moved(w, Got(w, Head(run[w]), "counted"), "counted", Head(run[w]), worker[w].out)
    BY <1>0, <2>1, GotMoves DEF Places
  <2> QED BY <1>0, <1>1, <2>1, <2>2, MovedTurns DEF TakeOwn
<1>2. ASSUME CountOwn(w)
      PROVE  Turned(w, "reserve", worker[w].task, worker[w].out)
  <2>1. Moved(w, [worker EXCEPT ![w].at = "reserve"], "reserve", worker[w].task, worker[w].out)
    BY <1>0, PlacedMoves DEF Places
  <2> QED BY <1>0, <1>2, <2>1, MovedTurns DEF CountOwn
<1>3. ASSUME TakeFeed(w)
      PROVE  Head(feed.tasks) \in Task
             /\ Turned(w, "reserve", Head(feed.tasks), worker[w].out)
  <2> DEFINE ws == Got(w, Head(feed.tasks), "reserve")
  <2>1. Head(feed.tasks) \in Task
    BY <1>0, <1>3 DEF TakeFeed
  <2>2. Moved(w, ws, "reserve", Head(feed.tasks), worker[w].out)
    BY <1>0, <2>1, GotMoves DEF Places
  <2>3. worker' = ws \/ worker' \in NotifyOne(ws)
    BY <1>3 DEF TakeFeed, Taking
  <2> HIDE DEF ws
  <2>4. ws \in [Worker -> WorkerRecord]
    BY <2>2 DEF Moved
  <2>5. Nudged(ws, worker')
    BY <2>3, <2>4, Nudges
  <2> QED BY <1>0, <2>1, <2>2, <2>5, MovedTurns
<1>4. ASSUME TakeNothing(w)
      PROVE  Turned(w, IF feed.closed THEN "flush" ELSE "asleep", worker[w].task,
                    worker[w].out)
  <2> DEFINE at == IF feed.closed THEN "flush" ELSE "asleep"
  <2>1. at \in Places
    BY DEF Places
  <2>2. worker' = [worker EXCEPT ![w].at = at]
    BY <1>4 DEF TakeNothing
  <2> HIDE DEF at
  <2>3. Moved(w, [worker EXCEPT ![w].at = at], at, worker[w].task, worker[w].out)
    BY <1>0, <2>1, PlacedMoves
  <2>4. Turned(w, at, worker[w].task, worker[w].out)
    BY <1>0, <2>2, <2>3, MovedTurns
  <2> QED BY <2>4 DEF at
<1>5. ASSUME StopWork(w)
      PROVE  Turned(w, "flush", worker[w].task, worker[w].out)
  <2>1. Moved(w, [worker EXCEPT ![w].at = "flush"], "flush", worker[w].task, worker[w].out)
    BY <1>0, PlacedMoves DEF Places
  <2> QED BY <1>0, <1>5, <2>1, MovedTurns DEF StopWork
<1> QED BY <1>1, <1>2, <1>3, <1>4, <1>5

\* What a thief takes: the far half of another run, of which the first task is worked.
Robs(w, u) ==
  LET theirs == run[u]
      half == Len(theirs) \div 2
      mine == SubSeq(theirs, half + 1, Len(theirs))
  IN  /\ u \in Worker \ {w} /\ run[w] = <<>>
      /\ half \in Nat /\ half < Len(theirs)
      /\ mine \in Seq(Task) /\ mine # <<>> /\ Len(mine) = Len(theirs) - half
      /\ run' = [run EXCEPT ![u] = SubSeq(theirs, 1, half), ![w] = Tail(mine)]
      /\ stealable' = stealable - 1
      /\ Head(mine) \in Task
      /\ Turned(w, "reserve", Head(mine), worker[w].out)

\* A thief takes the far half of one other worker's run.
LEMMA StealTurns ==
  ASSUME TypeInv, RunInv, NEW w \in Worker, Steal(w)
  PROVE  \E u \in Worker : Robs(w, u)
<1> DEFINE u == Beside(w, Min(Victims(w)))
           theirs == run[u]
           half == Len(theirs) \div 2
           mine == SubSeq(theirs, half + 1, Len(theirs))
           ws == Got(w, Head(mine), "reserve")
<1>0. worker \in [Worker -> WorkerRecord] /\ run \in [Worker -> Seq(Task)]
  BY DEF TypeInv
<1>1. run[w] = <<>> /\ CanSteal(w)
  BY DEF Steal, AtFeed, At, RunInv
<1>2. u \in Worker /\ u # w /\ theirs # <<>>
  BY <1>1, VictimFacts
<1>3. /\ run' = [run EXCEPT ![u] = SubSeq(theirs, 1, half), ![w] = Tail(mine)]
      /\ stealable' = stealable - 1
      /\ worker' = ws \/ worker' \in NotifyOne(ws)
  BY DEF Steal
<1> HIDE DEF u
<1>4. theirs \in Seq(Task) /\ Len(theirs) \in Nat \ {0}
  BY <1>0, <1>2
<1>5. half \in Nat /\ half < Len(theirs)
  <2> HIDE DEF theirs
  <2> QED BY <1>4
<1>6. mine \in Seq(Task) /\ mine # <<>> /\ Len(mine) = Len(theirs) - half
  <2> HIDE DEF theirs, half
  <2>1. half + 1 \in 1 .. Len(theirs)
    BY <1>4, <1>5
  <2>2. mine \in Seq(Task) /\ Len(mine) = Len(theirs) - (half + 1) + 1
    BY <1>4, <1>5, <2>1
  <2>3. Len(mine) = Len(theirs) - half /\ Len(mine) > 0
    BY <1>4, <1>5, <2>2
  <2> HIDE DEF mine
  <2> QED BY <2>2, <2>3
<1>7. Head(mine) \in Task
  <2> HIDE DEF mine
  <2> QED BY <1>6
<1> HIDE DEF mine, half
<1>8. Moved(w, ws, "reserve", Head(mine), worker[w].out)
  BY <1>0, <1>7, GotMoves DEF Places
<1> HIDE DEF ws
<1>9. ws \in [Worker -> WorkerRecord]
  BY <1>8 DEF Moved
<1>10. Nudged(ws, worker')
  BY <1>3, <1>9, Nudges
<1>11. Turned(w, "reserve", Head(mine), worker[w].out)
  BY <1>0, <1>8, <1>10, MovedTurns
<1>12. Robs(w, u)
  BY <1>1, <1>2, <1>3, <1>5, <1>6, <1>7, <1>11 DEF Robs, mine, half
<1> QED BY <1>2, <1>12

\* The turns of Budget::reserve.
LEMMA BudgetTurns ==
  ASSUME TypeInv, NEW w \in Worker
  PROVE  /\ Reserve(w) =>
              \/ Stopped /\ Turned(w, "flush", None, worker[w].out) /\ UNCHANGED budget
              \/ /\ ~Stopped /\ Fits(worker[w].task)
                 /\ budget' = [budget EXCEPT !.used = @ + Reserves(worker[w].task)]
                 /\ \E at \in {"read", "admit"} :
                      Turned(w, at, worker[w].task, worker[w].out)
         /\ ReserveWait(w) => Turned(w, "parking", worker[w].task, worker[w].out)
         /\ Park(w) => Turned(w, "parked", worker[w].task, worker[w].out)
         /\ Unpark(w) => Turned(w, "reserve", worker[w].task, worker[w].out)
         /\ AdmitReader(w) =>
              \/ Turned(w, "read", worker[w].task, worker[w].out) /\ UNCHANGED budget
              \/ Turned(w, "worked", worker[w].task, worker[w].out) /\ Release(w)
         /\ Work(w) => Turned(w, "worked", worker[w].task, worker[w].out)
         /\ StreamEnd(w) => Turned(w, "worked", worker[w].task, worker[w].out)
         /\ Panic(w) => Turned(w, "unwinding", worker[w].task, worker[w].out)
<1>0. worker \in [Worker -> WorkerRecord]
  BY DEF TypeInv
<1>1. ASSUME NEW at \in Places, worker' = [worker EXCEPT ![w].at = at]
      PROVE  Turned(w, at, worker[w].task, worker[w].out)
  <2>1. Moved(w, [worker EXCEPT ![w].at = at], at, worker[w].task, worker[w].out)
    BY <1>0, PlacedMoves
  <2> QED BY <1>0, <1>1, <2>1, MovedTurns
<1>2. {"parking", "parked", "reserve", "read", "admit", "worked", "unwinding", "flush"}
        \subseteq Places
  BY DEF Places
<1>3. ASSUME Reserve(w)
      PROVE  \/ Stopped /\ Turned(w, "flush", None, worker[w].out) /\ UNCHANGED budget
             \/ /\ ~Stopped /\ Fits(worker[w].task)
                /\ budget' = [budget EXCEPT !.used = @ + Reserves(worker[w].task)]
                /\ \E at \in {"read", "admit"} : Turned(w, at, worker[w].task, worker[w].out)
  <2>1. ASSUME Stopped, worker' = Got(w, None, "flush"), UNCHANGED budget
        PROVE  Turned(w, "flush", None, worker[w].out)
    <3>1. Moved(w, Got(w, None, "flush"), "flush", None, worker[w].out)
      BY <1>0, <1>2, GotMoves
    <3> QED BY <1>0, <2>1, <3>1, MovedTurns
  <2>2. ASSUME worker' = [worker EXCEPT ![w].at = IF Unbounded THEN "read" ELSE "admit"]
        PROVE  \E at \in {"read", "admit"} : Turned(w, at, worker[w].task, worker[w].out)
    <3> DEFINE at == IF Unbounded THEN "read" ELSE "admit"
    <3>1. at \in {"read", "admit"}
      OBVIOUS
    <3> HIDE DEF at
    <3>2. worker' = [worker EXCEPT ![w].at = at]
      BY <2>2 DEF at
    <3>3. Turned(w, at, worker[w].task, worker[w].out)
      BY <1>1, <1>2, <3>1, <3>2
    <3> QED BY <3>1, <3>3
  <2> QED BY <1>3, <2>1, <2>2 DEF Reserve
<1>4. ReserveWait(w) => Turned(w, "parking", worker[w].task, worker[w].out)
  BY <1>1, <1>2 DEF ReserveWait
<1>5. Park(w) => Turned(w, "parked", worker[w].task, worker[w].out)
  BY <1>1, <1>2 DEF Park
<1>6. Unpark(w) => Turned(w, "reserve", worker[w].task, worker[w].out)
  BY <1>1, <1>2 DEF Unpark
<1>7. AdmitReader(w) =>
        \/ Turned(w, "read", worker[w].task, worker[w].out) /\ UNCHANGED budget
        \/ Turned(w, "worked", worker[w].task, worker[w].out) /\ Release(w)
  BY <1>1, <1>2 DEF AdmitReader
<1>8. Work(w) => Turned(w, "worked", worker[w].task, worker[w].out)
  BY <1>1, <1>2 DEF Work
<1>9. StreamEnd(w) => Turned(w, "worked", worker[w].task, worker[w].out)
  BY <1>1, <1>2 DEF StreamEnd
<1>10. Panic(w) => Turned(w, "unwinding", worker[w].task, worker[w].out)
  BY <1>1, <1>2 DEF Panic
<1> QED BY <1>3, <1>4, <1>5, <1>6, <1>7, <1>8, <1>9, <1>10

\* Batches a worker at this place may have in hand, and a queue that takes one.
InHand(at, out) ==
  /\ out \in Seq(Batch) /\ Len(out) <= 2
  /\ at \in {"handoff", "send", "sendlast"} => out # <<>>

Fills == Len(queue) < Threads /\ \E batch \in Batch : queue' = Append(queue, batch)

\* At most two batches are in hand, and a send leaves fewer.
LEMMA FewBatches ==
  ASSUME NEW out \in Seq(Batch), out # <<>>, Len(out) <= 2
  PROVE  /\ Tail(out) \in Seq(Batch) /\ Len(Tail(out)) <= 2 /\ Head(out) \in Batch
         /\ Len(out) # 1 => Tail(out) # <<>>
<1>1. Len(out) \in Nat /\ Len(out) # 0
  BY EmptySeq
<1>2. Tail(out) \in Seq(Batch) /\ Len(Tail(out)) = Len(out) - 1 /\ Head(out) \in Batch
  OBVIOUS
<1>3. ASSUME Tail(out) = <<>> PROVE Len(Tail(out)) = 0
  <2> DEFINE rest == Tail(out)
  <2> HIDE DEF rest
  <2>1. rest = <<>> => Len(rest) = 0
    OBVIOUS
  <2> QED BY <1>3, <2>1 DEF rest
<1> QED BY <1>1, <1>2, <1>3

\* A batch leaves the hand for the queue; the last one moves the worker on.
LEMMA OneSent ==
  ASSUME worker \in [Worker -> WorkerRecord], NEW w \in Worker, NEW on \in Places, NEW stay \in Places,
         InHand("send", worker[w].out), on \notin {"handoff", "send", "sendlast"},
         Len(queue) < Threads, queue' = Append(queue, Head(worker[w].out)),
         worker' = [worker EXCEPT ![w].out = Tail(worker[w].out),
                                  ![w].at = IF Len(worker[w].out) = 1 THEN on ELSE stay]
  PROVE  /\ Fills
         /\ \E at \in {on, stay}, out \in Seq(Batch) :
              InHand(at, out) /\ Turned(w, at, worker[w].task, out)
<1> DEFINE o == worker[w].out
           out == Tail(o)
           at == IF Len(o) = 1 THEN on ELSE stay
<1>1. o \in Seq(Batch) /\ o # <<>> /\ Len(o) <= 2
  BY DEF InHand
<1>2. worker' = [worker EXCEPT ![w].out = out, ![w].at = at]
  OBVIOUS
<1> HIDE DEF o
<1>3. out \in Seq(Batch) /\ Len(out) <= 2 /\ Head(o) \in Batch /\ (Len(o) # 1 => out # <<>>)
  BY <1>1, FewBatches
<1>4. Fills
  BY <1>3 DEF Fills, o
<1>5. at \in {on, stay} /\ at \in Places /\ (at # on => Len(o) # 1)
  OBVIOUS
<1> HIDE DEF out, at
<1>6. at \in {"handoff", "send", "sendlast"} => at # on
  OBVIOUS
<1>7. InHand(at, out)
  BY <1>3, <1>5, <1>6 DEF InHand
<1>8. Moved(w, [worker EXCEPT ![w].out = out, ![w].at = at], at, worker[w].task, out)
  BY <1>3, <1>5, SentMoves
<1>9. Turned(w, at, worker[w].task, out)
  BY <1>2, <1>8, MovedTurns
<1> QED BY <1>3, <1>4, <1>5, <1>7, <1>9

\* The hand is emptied.
LEMMA HandEmptied ==
  ASSUME worker \in [Worker -> WorkerRecord], NEW w \in Worker, NEW at \in Places,
         worker' = [worker EXCEPT ![w].out = <<>>, ![w].at = at]
  PROVE  Turned(w, at, worker[w].task, <<>>)
<1>1. <<>> \in Seq(Batch)
  BY Batches
<1>2. Moved(w, [worker EXCEPT ![w].out = <<>>, ![w].at = at], at, worker[w].task, <<>>)
  BY <1>1, SentMoves
<1> QED BY <1>2, MovedTurns

\* The turns of Lane::handoff and of a streamed group.
LEMMA HandoffTurns ==
  ASSUME TypeInv, LaneInv, NEW w \in Worker
  PROVE  /\ Handoff(w) => \E out \in Seq(Batch) :
              InHand("handoff", out) /\ Turned(w, "handoff", worker[w].task, out)
         /\ HandoffSend(w) =>
              \/ Turned(w, "worked", worker[w].task, <<>>) /\ Release(w) /\ UNCHANGED queue
              \/ /\ UNCHANGED budget /\ Fills
                 /\ \E at \in {"stream", "handoff"}, out \in Seq(Batch) :
                      InHand(at, out) /\ Turned(w, at, worker[w].task, out)
<1>0. worker \in [Worker -> WorkerRecord] /\ worker[w].out \in Seq(Batch)
  BY DEF TypeInv, WorkerRecord
<1>1. ASSUME Handoff(w)
      PROVE  \E out \in Seq(Batch) :
               InHand("handoff", out) /\ Turned(w, "handoff", worker[w].task, out)
  <2> DEFINE g == held[w].groups
             flushed == IF g = <<>> THEN <<>> ELSE <<g>>
             out == Append(flushed, <<-worker[w].task>>)
  <2>1. g \in Seq(Task)
    BY DEF TypeInv, SlotRecord
  <2>2. flushed \in Seq(Batch) /\ Len(flushed) <= 1
    <3>1. CASE g = <<>>
      BY <3>1, Batches
    <3>2. CASE g # <<>>
      <4>1. g \in Batch
        BY <2>1, <3>2, Batches
      <4> HIDE DEF g
      <4> QED BY <3>2, <4>1
    <3> QED BY <3>1, <3>2
  <2>3. worker[w].task \in Task
    BY <1>1 DEF LaneInv, Handoff, At, HasTask, HoldsBytes
  <2>4. <<-worker[w].task>> \in Batch
    BY <2>3, Batches DEF Groups
  <2> HIDE DEF flushed, g
  <2>5. out \in Seq(Batch) /\ Len(out) = Len(flushed) + 1 /\ Len(flushed) \in Nat /\ out # <<>>
    BY <2>2, <2>4
  <2>6. worker' = [worker EXCEPT ![w].out = out, ![w].at = "handoff"]
    BY <1>1 DEF Handoff, flushed, g
  <2> HIDE DEF out
  <2>7. InHand("handoff", out)
    BY <2>2, <2>5 DEF InHand
  <2>8. "handoff" \in Places
    BY DEF Places
  <2>9. Moved(w, [worker EXCEPT ![w].out = out, ![w].at = "handoff"], "handoff",
              worker[w].task, out)
    BY <1>0, <2>5, <2>8, SentMoves
  <2>10. Turned(w, "handoff", worker[w].task, out)
    BY <1>0, <2>6, <2>9, MovedTurns
  <2> QED BY <2>5, <2>7, <2>10
<1>2. ASSUME HandoffSend(w)
      PROVE  \/ Turned(w, "worked", worker[w].task, <<>>) /\ Release(w) /\ UNCHANGED queue
             \/ /\ UNCHANGED budget /\ Fills
                /\ \E at \in {"stream", "handoff"}, out \in Seq(Batch) :
                     InHand(at, out) /\ Turned(w, at, worker[w].task, out)
  <2>1. "worked" \in Places /\ "stream" \in Places /\ "handoff" \in Places
    BY DEF Places
  <2>2. ASSUME worker' = [worker EXCEPT ![w].out = <<>>, ![w].at = "worked"]
        PROVE  Turned(w, "worked", worker[w].task, <<>>)
    BY <1>0, <2>1, <2>2, HandEmptied
  <2>3. ASSUME Len(queue) < Threads, queue' = Append(queue, Head(worker[w].out)),
               worker' = [worker EXCEPT ![w].out = Tail(worker[w].out),
                                  ![w].at = IF Len(worker[w].out) = 1 THEN "stream" ELSE "handoff"]
        PROVE  /\ Fills
               /\ \E at \in {"stream", "handoff"}, out \in Seq(Batch) :
                    InHand(at, out) /\ Turned(w, at, worker[w].task, out)
    <3>1. InHand("send", worker[w].out)
      BY <1>0, <1>2 DEF HandoffSend, At, LaneInv, InHand
    <3> QED BY <1>0, <2>1, <2>3, <3>1, OneSent
  <2> QED BY <1>2, <2>2, <2>3 DEF HandoffSend
<1> QED BY <1>1, <1>2

\* The turns of a worker with batches to send.
LEMMA SendTurns ==
  ASSUME TypeInv, LaneInv, NEW w \in Worker
  PROVE  /\ Send(w) =>
              \/ Turned(w, "flush", worker[w].task, <<>>) /\ UNCHANGED queue
              \/ /\ Fills
                 /\ \E at \in {"top", "send"}, out \in Seq(Batch) :
                      InHand(at, out) /\ Turned(w, at, worker[w].task, out)
         /\ SendLast(w) => /\ Turned(w, "leave", worker[w].task, <<>>)
                           /\ UNCHANGED queue \/ Fills
<1>0. worker \in [Worker -> WorkerRecord] /\ worker[w].out \in Seq(Batch)
  BY DEF TypeInv, WorkerRecord
<1>1. {"flush", "top", "send", "leave"} \subseteq Places
  BY DEF Places
<1>2. ASSUME Send(w)
      PROVE  \/ Turned(w, "flush", worker[w].task, <<>>) /\ UNCHANGED queue
             \/ /\ Fills
                /\ \E at \in {"top", "send"}, out \in Seq(Batch) :
                     InHand(at, out) /\ Turned(w, at, worker[w].task, out)
  <2>1. ASSUME worker' = [worker EXCEPT ![w].out = <<>>, ![w].at = "flush"]
        PROVE  Turned(w, "flush", worker[w].task, <<>>)
    BY <1>0, <1>1, <2>1, HandEmptied
  <2>2. ASSUME Len(queue) < Threads, queue' = Append(queue, Head(worker[w].out)),
               worker' = [worker EXCEPT ![w].out = Tail(worker[w].out),
                                  ![w].at = IF Len(worker[w].out) = 1 THEN "top" ELSE "send"]
        PROVE  /\ Fills
               /\ \E at \in {"top", "send"}, out \in Seq(Batch) :
                    InHand(at, out) /\ Turned(w, at, worker[w].task, out)
    <3>1. InHand("send", worker[w].out)
      BY <1>0, <1>2 DEF Send, At, LaneInv, InHand
    <3>2. "top" \in Places /\ "send" \in Places
      BY <1>1
    <3> QED BY <1>0, <2>2, <3>1, <3>2, OneSent
  <2> QED BY <1>2, <2>1, <2>2 DEF Send
<1>3. ASSUME SendLast(w)
      PROVE  Turned(w, "leave", worker[w].task, <<>>) /\ (UNCHANGED queue \/ Fills)
  <2>1. Turned(w, "leave", worker[w].task, <<>>)
    BY <1>0, <1>1, <1>3, HandEmptied DEF SendLast
  <2>2. worker[w].out # <<>>
    BY <1>3 DEF SendLast, At, LaneInv
  <2>3. Head(worker[w].out) \in Batch
    BY <1>0, <2>2
  <2>4. UNCHANGED queue \/ Fills
    BY <1>3, <2>3 DEF SendLast, Fills
  <2> QED BY <2>1, <2>4
<1> QED BY <1>2, <1>3

\* The turn of Lane::hand.
LEMMA HandTurns ==
  ASSUME TypeInv, LaneInv, NEW w \in Worker, Hand(w)
  PROVE  /\ \E at \in {"flush", "top", "send"}, out \in Seq(Batch) :
              InHand(at, out) /\ Turned(w, at, None, out)
         /\ \E slot \in SlotRecord : SlotExact(slot) /\ held' = [held EXCEPT ![w] = slot]
<1> DEFINE added == Add(held[w], worker[w].task)
           a == IF added.out = <<>> THEN "top" ELSE "send"
           at == IF Stopped THEN "flush" ELSE a
           out == IF Stopped THEN worker[w].out ELSE added.out
           slot == IF Stopped THEN held[w] ELSE added.keep
           left == IF Stopped THEN Got(w, None, "flush")
                   ELSE [Got(w, None, a) EXCEPT ![w].out = added.out]
<1>0. /\ worker \in [Worker -> WorkerRecord] /\ worker[w].out \in Seq(Batch) /\ mode \in Modes
      /\ held \in [Worker -> SlotRecord]
  BY DEF TypeInv, WorkerRecord
<1>1. worker[w].task \in Task /\ SlotExact(held[w]) /\ Len(worker[w].out) <= 2
  BY DEF LaneInv, Hand, At, HasTask
<1>2. /\ SlotExact(added.keep) /\ added.out \in Seq(Batch) /\ Len(added.out) <= 2
  BY <1>0, <1>1, AddExact
<1>3. /\ worker' = left \/ worker' = Freed(left)
      /\ held' = IF Stopped THEN held ELSE [held EXCEPT ![w] = added.keep]
  BY DEF Hand, Handing
<1> HIDE DEF added
<1>4. "flush" \in Places /\ a \in Places /\ None \in Task \cup {None}
  BY DEF Places
<1>5. /\ at \in {"flush", "top", "send"} /\ out \in Seq(Batch) /\ InHand(at, out)
  BY <1>0, <1>1, <1>2 DEF InHand
<1>6. Moved(w, left, at, None, out)
  <2>1. CASE Stopped
    <3>1. Moved(w, Got(w, None, "flush"), "flush", None, worker[w].out)
      BY <1>0, <1>4, GotMoves
    <3> QED BY <2>1, <3>1
  <2>2. CASE ~Stopped
    <3> HIDE DEF a
    <3>1. Moved(w, [Got(w, None, a) EXCEPT ![w].out = added.out], a, None, added.out)
      BY <1>0, <1>2, <1>4, GotSentMoves
    <3> QED BY <2>2, <3>1
  <2> QED BY <2>1, <2>2
<1>7. Turned(w, at, None, out)
  <2> HIDE DEF left, at, out, a
  <2>1. left \in [Worker -> WorkerRecord]
    BY <1>6 DEF Moved
  <2>2. Nudged(left, worker')
    BY <1>3, <2>1, Nudges
  <2>3. at \notin {"asleep", "parked"}
    BY <1>5
  <2> QED BY <1>0, <1>6, <2>2, <2>3, MovedTurns
<1>8. slot \in SlotRecord /\ SlotExact(slot)
  BY <1>1, <1>2 DEF SlotExact
<1>9. held' = [held EXCEPT ![w] = slot]
  <2>1. [held EXCEPT ![w] = held[w]] = held
    BY <1>0
  <2> QED BY <1>3, <2>1
<1> HIDE DEF at, out, slot
<1> QED BY <1>5, <1>7, <1>8, <1>9

\* The turns of a worker that leaves or unwinds.
LEMMA LeaveTurns ==
  ASSUME TypeInv, LaneInv, NEW w \in Worker
  PROVE  /\ Flush(w) => \E at \in {"leave", "sendlast"}, task \in Task \cup {None},
                           out \in Seq(Batch) : InHand(at, out) /\ Turned(w, at, task, out)
         /\ Leave(w) => Turned(w, "gone", worker[w].task, worker[w].out)
         /\ Unwind(w) => Turned(w, "halting", None, worker[w].out)
         /\ HaltWake(w) => Turned(w, "gone", worker[w].task, worker[w].out)
<1>0. /\ worker \in [Worker -> WorkerRecord] /\ worker[w].out \in Seq(Batch)
      /\ worker[w].task \in Task \cup {None} /\ Len(worker[w].out) <= 2
  BY DEF TypeInv, WorkerRecord, LaneInv
<1>1. {"leave", "sendlast", "gone", "halting"} \subseteq Places
  BY DEF Places
<1>2. ASSUME Flush(w)
      PROVE  \E at \in {"leave", "sendlast"}, task \in Task \cup {None},
                out \in Seq(Batch) : InHand(at, out) /\ Turned(w, at, task, out)
  <2>1. CASE worker' = Got(w, None, "leave")
    <3>1. Moved(w, Got(w, None, "leave"), "leave", None, worker[w].out)
      BY <1>0, <1>1, GotMoves
    <3>2. Turned(w, "leave", None, worker[w].out)
      BY <1>0, <2>1, <3>1, MovedTurns
    <3>3. InHand("leave", worker[w].out)
      BY <1>0 DEF InHand
    <3> QED BY <1>0, <3>2, <3>3
  <2>2. CASE worker' # Got(w, None, "leave")
    <3> DEFINE out == <<held[w].groups>>
    <3>1. held[w].groups # <<>> /\ worker' = [worker EXCEPT ![w].out = out, ![w].at = "sendlast"]
      BY <1>2, <2>2 DEF Flush
    <3>2. held[w].groups \in Seq(Task)
      BY DEF TypeInv, SlotRecord
    <3>3. held[w].groups \in Batch
      BY <3>1, <3>2, Batches
    <3>4. out \in Seq(Batch) /\ Len(out) = 1 /\ out # <<>>
      BY <3>3
    <3> HIDE DEF out
    <3>5. Moved(w, [worker EXCEPT ![w].out = out, ![w].at = "sendlast"], "sendlast",
                worker[w].task, out)
      BY <1>0, <1>1, <3>4, SentMoves
    <3>6. Turned(w, "sendlast", worker[w].task, out)
      BY <1>0, <3>1, <3>5, MovedTurns
    <3>7. InHand("sendlast", out)
      BY <3>4 DEF InHand
    <3> QED BY <1>0, <3>4, <3>6, <3>7
  <2> QED BY <2>1, <2>2
<1>3. ASSUME Leave(w)
      PROVE  Turned(w, "gone", worker[w].task, worker[w].out)
  <2> DEFINE ws == [worker EXCEPT ![w].at = "gone"]
  <2>1. Moved(w, ws, "gone", worker[w].task, worker[w].out)
    BY <1>0, <1>1, PlacedMoves
  <2>2. worker' = NotifyAll(ws)
    BY <1>3 DEF Leave, Close
  <2> HIDE DEF ws
  <2>3. ws \in [Worker -> WorkerRecord]
    BY <2>1 DEF Moved
  <2>4. Nudged(ws, worker')
    BY <2>2, <2>3, Nudges
  <2> QED BY <1>0, <2>1, <2>4, MovedTurns
<1>4. ASSUME Unwind(w)
      PROVE  Turned(w, "halting", None, worker[w].out)
  <2> DEFINE ws == Got(w, None, "halting")
  <2>1. Moved(w, ws, "halting", None, worker[w].out)
    BY <1>0, <1>1, GotMoves
  <2>2. worker' = NotifyAll(Freed(ws))
    BY <1>4 DEF Unwind, Close
  <2> HIDE DEF ws
  <2>3. ws \in [Worker -> WorkerRecord]
    BY <2>1 DEF Moved
  <2>4. Nudged(ws, Freed(ws)) /\ Freed(ws) \in [Worker -> WorkerRecord]
    BY <2>3, Nudges DEF Nudged
  <2>5. Nudged(Freed(ws), worker')
    BY <2>2, <2>4, Nudges
  <2>6. Nudged(ws, worker')
    BY <2>4, <2>5, NudgedTwice
  <2> QED BY <1>0, <2>1, <2>6, MovedTurns
<1>5. ASSUME HaltWake(w)
      PROVE  Turned(w, "gone", worker[w].task, worker[w].out)
  <2> DEFINE ws == [worker EXCEPT ![w].at = "gone"]
  <2>1. Moved(w, ws, "gone", worker[w].task, worker[w].out)
    BY <1>0, <1>1, PlacedMoves
  <2>2. worker' = Freed(ws)
    BY <1>5 DEF HaltWake
  <2> HIDE DEF ws
  <2>3. ws \in [Worker -> WorkerRecord]
    BY <2>1 DEF Moved
  <2>4. Nudged(ws, worker')
    BY <2>2, <2>3, Nudges
  <2> QED BY <1>0, <2>1, <2>4, MovedTurns
<1> QED BY <1>2, <1>3, <1>4, <1>5

\* The producer's and the caller's steps only notify.
LEMMA OthersNotify ==
  ASSUME TypeInv, Produce \/ CallerStep \/ Cancel \/ UNCHANGED vars
  PROVE  Nudged(worker, worker')
<1>0. worker \in [Worker -> WorkerRecord]
  BY DEF TypeInv
<1>1. \/ worker' = worker \/ worker' \in NotifyOne(worker) \/ worker' = NotifyAll(worker)
      \/ worker' = Freed(worker)
  <2>1. CASE Produce
    BY <2>1 DEF Produce, Admit, Gather, PushDue, PushFull, PushLast, Abandon, Roused,
                ProducerEnd, Push, Close
  <2>2. CASE CallerStep
    BY <2>2 DEF CallerStep, Collect, Collecting, Sweep, Publish, StreamDone, End, Halt, Join,
                CloseUnfed, Alone, Close
  <2>3. CASE Cancel
    BY <2>3 DEF Cancel
  <2>4. CASE UNCHANGED vars
    BY <2>4 DEF vars
  <2> QED BY <2>1, <2>2, <2>3, <2>4
<1> QED BY <1>0, <1>1, Nudges

----------------------------------------------------------------------------
(* The types.                                                              *)

\* Types: a producer that waits for room, and is woken.
LEMMA RoomType ==
  ASSUME NEW p \in ProdRecord, feed.closed \in BOOLEAN, NEW tasks
  PROVE  AfterRoom(p, tasks) \in ProdRecord /\ Rouse(p) \in ProdRecord
<1>1. [p EXCEPT !.at = "room"] \in ProdRecord /\ [p EXCEPT !.at = "roused"] \in ProdRecord
  BY DEF ProdRecord
<1>2. ASSUME NEW at \in {"end", "gather"}
      PROVE  [p EXCEPT !.at = at, !.closed = feed.closed, !.flushed = FALSE] \in ProdRecord
  BY DEF ProdRecord
<1>3. (IF feed.closed THEN "end" ELSE "gather") \in {"end", "gather"}
  OBVIOUS
<1>4. AfterRoom(p, tasks) \in ProdRecord
  BY <1>1, <1>2, <1>3 DEF AfterRoom
<1> QED BY <1>1, <1>4 DEF Rouse

\* Types: a feed that is closed.
LEMMA CloseType ==
  ASSUME TypeInv, NEW ws, NEW p \in ProdRecord, Close(ws, p)
  PROVE  /\ feed' \in [tasks : Seq(Task), closed : BOOLEAN, full : BOOLEAN]
         /\ feed'.closed /\ feed'.tasks = feed.tasks
         /\ prod' = Rouse(p) /\ prod' \in ProdRecord
<1>1. feed \in [tasks : Seq(Task), closed : BOOLEAN, full : BOOLEAN]
  BY DEF TypeInv
<1>2. prod' = Rouse(p) /\ prod' \in ProdRecord
  BY <1>1, RoomType DEF Close
<1>3. feed' = [feed EXCEPT !.closed = TRUE]
  BY DEF Close
<1> QED BY <1>1, <1>2, <1>3

\* Types: a batch that is pushed.
LEMMA PushType ==
  ASSUME TypeInv, NEW room \in BOOLEAN, NEW place \in {"gather", "admitted", "end"},
         Push(room, place)
  PROVE  TypeInv'
<1> DEFINE tasks == IF feed.closed THEN feed.tasks ELSE feed.tasks \o prod.batch
           batch == IF feed.closed THEN prod.batch ELSE <<>>
           pushed == [prod EXCEPT !.batch = batch]
           full == IF room THEN Waits(tasks) ELSE feed.full
<1>0. feed \in [tasks : Seq(Task), closed : BOOLEAN, full : BOOLEAN] /\ prod \in ProdRecord
  BY DEF TypeInv
<1>1. prod.batch \in Seq(Task)
  BY <1>0 DEF ProdRecord
<1>2. tasks \in Seq(Task) /\ full \in BOOLEAN
  <2>1. tasks \in Seq(Task)
    BY <1>0, <1>1
  <2>2. Waits(tasks) \in BOOLEAN
    BY DEF Waits
  <2> HIDE DEF tasks
  <2> QED BY <1>0, <2>1, <2>2
<1>3. batch \in Seq(Task)
  <2>1. <<>> \in Seq(Task)
    OBVIOUS
  <2> QED BY <1>1, <2>1
<1>4. /\ feed' = [feed EXCEPT !.tasks = tasks, !.full = full]
      /\ prod' = IF room THEN AfterRoom(pushed, tasks)
                 ELSE [pushed EXCEPT !.at = place, !.closed = feed.closed, !.flushed = TRUE]
      /\ UNCHANGED <<run, stealable, laneVars, flagVars>>
  BY DEF Push
<1>5. Nudged(worker, worker')
  <2>1. worker' = worker \/ worker' \in NotifyOne(worker)
    BY DEF Push
  <2>2. worker \in [Worker -> WorkerRecord]
    BY DEF TypeInv
  <2> QED BY <2>1, <2>2, Nudges
<1> HIDE DEF tasks, full, batch
<1>6. pushed \in ProdRecord
  BY <1>0, <1>3 DEF ProdRecord
<1> HIDE DEF pushed
<1>7. prod' \in ProdRecord
  <2>1. CASE room
    BY <1>0, <1>4, <1>6, <2>1, RoomType
  <2>2. CASE ~room
    <3>1. [pushed EXCEPT !.at = place, !.closed = feed.closed, !.flushed = TRUE] \in ProdRecord
      BY <1>0, <1>6 DEF ProdRecord
    <3> QED BY <1>4, <2>2, <3>1
  <2> QED BY <2>1, <2>2
<1>8. feed' \in [tasks : Seq(Task), closed : BOOLEAN, full : BOOLEAN]
  <2>1. feed' = [[feed EXCEPT !.tasks = tasks] EXCEPT !.full = full]
    BY <1>0, <1>4
  <2> QED BY <1>0, <1>2, <2>1
<1>9. worker' \in [Worker -> WorkerRecord]
  BY <1>5 DEF Nudged
<1> QED BY <1>4, <1>7, <1>8, <1>9 DEF TypeInv, laneVars, flagVars

\* Types: the producer's steps.
LEMMA ProduceType ==
  ASSUME TypeInv, FeedInv, Produce
  PROVE  TypeInv'
<1>0. /\ feed \in [tasks : Seq(Task), closed : BOOLEAN, full : BOOLEAN] /\ prod \in ProdRecord
      /\ mode \in Modes
  BY DEF TypeInv
<1>w. worker' \in [Worker -> WorkerRecord]
  BY OthersNotify DEF Nudged
<1>1. ASSUME Admit PROVE TypeInv'
  <2>1. prod' \in ProdRecord
    BY <1>0, <1>1 DEF Admit, ProdRecord
  <2> QED BY <1>1, <1>w, <2>1 DEF Admit, TypeInv, feedVars, laneVars, flagVars
<1>2. ASSUME Gather PROVE TypeInv'
  <2>1. prod.next <= mode.count
    BY <1>2 DEF Gather, Seeks, FeedInv
  <2>2. mode.count \in Task /\ MaxTasks \in Nat
    BY <1>0, ModeFacts
  <2>3. prod.next \in Task /\ prod.next + 1 \in 1 .. (MaxTasks + 1)
    BY <1>0, <2>1, <2>2 DEF ProdRecord, Task
  <2>4. PICK at \in {"push", "gather"} :
          prod' = [prod EXCEPT !.batch = Append(prod.batch, prod.next),
                               !.next = prod.next + 1, !.at = at]
    BY <1>2 DEF Gather
  <2>5. Append(prod.batch, prod.next) \in Seq(Task)
    BY <1>0, <2>3 DEF ProdRecord
  <2>6. prod' \in ProdRecord
    <3> DEFINE batch == Append(prod.batch, prod.next)
               next == prod.next + 1
    <3>1. prod' = [[[prod EXCEPT !.batch = batch] EXCEPT !.next = next] EXCEPT !.at = at]
      BY <1>0, <2>4 DEF ProdRecord
    <3>2. batch \in Seq(Task) /\ next \in 1 .. (MaxTasks + 1)
      BY <2>3, <2>5
    <3> HIDE DEF batch, next
    <3> QED BY <1>0, <3>1, <3>2 DEF ProdRecord
  <2> QED BY <1>2, <1>w, <2>6 DEF Gather, TypeInv, feedVars, laneVars, flagVars
<1>3. ASSUME PushDue PROVE TypeInv'
  <2>1. prod.at \in {"gather", "admitted"} /\ Push(FALSE, prod.at)
    BY <1>3 DEF PushDue
  <2> QED BY <2>1, PushType
<1>4. ASSUME PushFull PROVE TypeInv'
  BY <1>4, PushType DEF PushFull
<1>5. ASSUME PushLast PROVE TypeInv'
  BY <1>5, PushType DEF PushLast
<1>6. ASSUME Abandon PROVE TypeInv'
  <2>1. prod' \in ProdRecord
    BY <1>0, <1>6 DEF Abandon, ProdRecord
  <2> QED BY <1>6, <1>w, <2>1 DEF Abandon, TypeInv, feedVars, laneVars, flagVars
<1>7. ASSUME Roused PROVE TypeInv'
  <2>1. prod' \in ProdRecord
    BY <1>0, <1>7, RoomType DEF Roused
  <2>2. feed' \in [tasks : Seq(Task), closed : BOOLEAN, full : BOOLEAN]
    BY <1>0, <1>7 DEF Roused, Waits
  <2> QED BY <1>7, <1>w, <2>1, <2>2 DEF Roused, TypeInv, laneVars, flagVars
<1>8. ASSUME ProducerEnd PROVE TypeInv'
  <2> DEFINE p == [prod EXCEPT !.at = "gone"]
  <2>1. p \in ProdRecord
    BY <1>0 DEF ProdRecord
  <2>2. Close(worker, p)
    BY <1>8 DEF ProducerEnd
  <2> HIDE DEF p
  <2>3. /\ feed' \in [tasks : Seq(Task), closed : BOOLEAN, full : BOOLEAN]
        /\ prod' \in ProdRecord
    BY <2>1, <2>2, CloseType
  <2> QED BY <1>8, <1>w, <2>3 DEF ProducerEnd, TypeInv, laneVars, flagVars
<1> QED BY <1>1, <1>2, <1>3, <1>4, <1>5, <1>6, <1>7, <1>8 DEF Produce

\* The budget after each of the ways it is changed.
LEMMA BudgetSet ==
  ASSUME budget \in BudgetRecord
  PROVE  /\ \A n \in Int : /\ [budget EXCEPT !.used = @ + n] \in BudgetRecord
                           /\ [budget EXCEPT !.used = @ - n] \in BudgetRecord
         /\ [budget EXCEPT !.waiting = @ - 1] \in BudgetRecord
         /\ [budget EXCEPT !.lock = None] \in BudgetRecord
         /\ \A w \in Worker : [budget EXCEPT !.waiting = @ + 1, !.lock = w] \in BudgetRecord
<1>1. ASSUME NEW x \in Int PROVE [budget EXCEPT !.used = x] \in BudgetRecord
  BY DEF BudgetRecord
<1>2. ASSUME NEW x \in Int PROVE [budget EXCEPT !.waiting = x] \in BudgetRecord
  BY DEF BudgetRecord
<1>3. ASSUME NEW x \in Int, NEW w \in Worker
      PROVE  [budget EXCEPT !.waiting = x, !.lock = w] \in BudgetRecord
  <2>1. [budget EXCEPT !.waiting = x, !.lock = w]
          = [[budget EXCEPT !.waiting = x] EXCEPT !.lock = w]
    BY DEF BudgetRecord
  <2> QED BY <2>1 DEF BudgetRecord
<1>4. [budget EXCEPT !.lock = None] \in BudgetRecord
  BY DEF BudgetRecord
<1>5. budget.used \in Int /\ budget.waiting \in Int
  BY DEF BudgetRecord
<1>6. ASSUME NEW n \in Int
      PROVE  /\ budget.used + n \in Int /\ budget.used - n \in Int
             /\ budget.waiting + 1 \in Int /\ budget.waiting - 1 \in Int
  BY <1>5
<1>7. budget.waiting + 1 \in Int /\ budget.waiting - 1 \in Int
  BY <1>5
<1> QED BY <1>1, <1>2, <1>3, <1>4, <1>6, <1>7

\* A worker's step, by what it may change besides the workers.
LEMMA WorkerType ==
  ASSUME TypeInv, RunInv, LaneInv, NEW w \in Worker, WorkerStep(w) \/ Panic(w)
  PROVE  TypeInv'
<1>0. /\ feed \in [tasks : Seq(Task), closed : BOOLEAN, full : BOOLEAN] /\ prod \in ProdRecord
      /\ mode \in Modes /\ run \in [Worker -> Seq(Task)] /\ queue \in Seq(Batch)
      /\ held \in [Worker -> SlotRecord] /\ Len(queue) <= Threads
      /\ budget \in BudgetRecord
  BY DEF TypeInv
<1>n. NoneHeld \in SlotRecord
  BY <1>0, NoneHeldExact DEF SlotExact
<1>r. ASSUME worker[w].task \in Task
      PROVE  Reserves(worker[w].task) \in Int
  <2>1. mode.size[worker[w].task] \in Nat /\ Bytes \in Nat
    BY <1>0, <1>r, ModeFacts, LaneAssumption
  <2> DEFINE a == mode.size[worker[w].task]
  <2> HIDE DEF a
  <2>2. a \in Nat /\ Min({a, Bytes}) \in Nat
    <3>1. a \in Nat /\ Bytes \in Nat
      BY <2>1 DEF a
    <3>2. {a, Bytes} \in SUBSET Nat
      BY <3>1
    <3>3. Min({a, Bytes}) \in {a, Bytes}
      BY <3>2, MinIn
    <3> QED BY <3>1, <3>3
  <2> QED BY <2>2 DEF Reserves, a
<1>e. ASSUME worker[w].task \in Task, Release(w)
      PROVE  budget' \in BudgetRecord
  <2>1. budget' = [budget EXCEPT !.used = budget.used - Reserves(worker[w].task)]
    BY <1>e DEF Release
  <2> QED BY <1>0, <1>e, <1>r, <2>1, BudgetSet
<1>q. ASSUME Fills \/ UNCHANGED queue
      PROVE  queue' \in Seq(Batch) /\ Len(queue') <= Threads
  <2>1. Threads \in Nat
    BY WorkerFacts
  <2>2. ASSUME Fills PROVE queue' \in Seq(Batch) /\ Len(queue') <= Threads
    <3>1. PICK b \in Batch : queue' = Append(queue, b)
      BY <2>2 DEF Fills
    <3>2. Len(queue) < Threads /\ Len(queue) \in Nat
      BY <1>0, <2>2 DEF Fills
    <3>3. queue' \in Seq(Batch) /\ Len(queue') = Len(queue) + 1
      BY <1>0, <3>1
    <3> QED BY <2>1, <3>2, <3>3
  <2> QED BY <1>0, <1>q, <2>2
<1>t. ASSUME NEW at, NEW task, NEW out, Turned(w, at, task, out)
      PROVE  worker' \in [Worker -> WorkerRecord]
  BY <1>t DEF Turned
<1>1. ASSUME TakeOwn(w) PROVE TypeInv'
  <2>1. worker' \in [Worker -> WorkerRecord]
    BY <1>1, <1>t, FeedTurns
  <2>2. run' \in [Worker -> Seq(Task)]
    BY <1>0, <1>1 DEF TakeOwn
  <2> QED BY <1>1, <2>1, <2>2 DEF TakeOwn, TypeInv, laneVars, flagVars
<1>2. ASSUME CountOwn(w) PROVE TypeInv'
  <2>1. worker' \in [Worker -> WorkerRecord]
    BY <1>2, <1>t, FeedTurns
  <2> QED BY <1>2, <2>1 DEF CountOwn, TypeInv, laneVars, flagVars
<1>3. ASSUME TakeFeed(w) PROVE TypeInv'
  <2> DEFINE rest == Tail(feed.tasks)
             left == SubSeq(rest, Runs + 1, Len(rest))
             mine == SubSeq(rest, 1, Runs)
  <2>1. worker' \in [Worker -> WorkerRecord]
    BY <1>3, <1>t, FeedTurns
  <2>2. feed.tasks # <<>> /\ Taking(w, Runs, Runs)
    BY <1>3 DEF TakeFeed
  <2>3. rest \in Seq(Task) /\ Len(rest) = Len(feed.tasks) - 1
    BY <1>0, <2>2
  <2>4. Runs \in 0 .. Len(rest)
    BY <2>2, <2>3, RunsBounded
  <2> HIDE DEF rest
  <2>5. left \in Seq(Task) /\ mine \in Seq(Task)
    BY <2>3, <2>4
  <2>6. /\ run' = [run EXCEPT ![w] = run[w] \o mine]
        /\ \E full \in BOOLEAN : feed' = [feed EXCEPT !.tasks = left, !.full = full]
        /\ prod' = prod \/ prod' = Rouse(prod)
        /\ UNCHANGED <<laneVars, flagVars>>
    BY <1>0, <2>2 DEF Taking, rest
  <2> HIDE DEF left, mine
  <2>7. run' \in [Worker -> Seq(Task)]
    BY <1>0, <2>5, <2>6
  <2>8. feed' \in [tasks : Seq(Task), closed : BOOLEAN, full : BOOLEAN]
    <3>1. PICK full \in BOOLEAN : feed' = [feed EXCEPT !.tasks = left, !.full = full]
      BY <2>6
    <3>2. feed' = [[feed EXCEPT !.tasks = left] EXCEPT !.full = full]
      BY <1>0, <3>1
    <3> QED BY <1>0, <2>5, <3>2
  <2>9. prod' \in ProdRecord
    BY <1>0, <2>6, RoomType
  <2> QED BY <2>1, <2>6, <2>7, <2>8, <2>9 DEF TypeInv, laneVars, flagVars
<1>4. ASSUME Steal(w) PROVE TypeInv'
  <2>1. PICK u \in Worker : Robs(w, u)
    BY <1>4, StealTurns
  <2>2. worker' \in [Worker -> WorkerRecord]
    BY <2>1, <1>t DEF Robs
  <2> DEFINE theirs == run[u]
             half == Len(theirs) \div 2
             mine == SubSeq(theirs, half + 1, Len(theirs))
  <2>3. /\ half \in Nat /\ half < Len(theirs) /\ mine \in Seq(Task) /\ mine # <<>>
        /\ run' = [run EXCEPT ![u] = SubSeq(theirs, 1, half), ![w] = Tail(mine)]
    BY <2>1 DEF Robs
  <2> HIDE DEF mine, half
  <2>4. SubSeq(theirs, 1, half) \in Seq(Task) /\ Tail(mine) \in Seq(Task)
    BY <1>0, <2>3
  <2>5. run' \in [Worker -> Seq(Task)]
    BY <1>0, <2>3, <2>4
  <2> QED BY <1>4, <2>2, <2>5 DEF Steal, TypeInv, laneVars, flagVars
<1>5. ASSUME TakeNothing(w) PROVE TypeInv'
  <2>1. worker' \in [Worker -> WorkerRecord]
    BY <1>5, <1>t, FeedTurns
  <2> QED BY <1>5, <2>1 DEF TakeNothing, TypeInv, feedVars, laneVars, flagVars
<1>6. ASSUME Reserve(w) PROVE TypeInv'
  <2>1. worker' \in [Worker -> WorkerRecord]
    BY <1>6, <1>t, BudgetTurns
  <2>2. worker[w].task \in Task
    BY <1>6 DEF Reserve, At, LaneInv, HasTask
  <2>3. budget' \in BudgetRecord
    BY <1>0, <1>r, <1>6, <2>2, BudgetSet DEF Reserve
  <2> QED BY <1>6, <2>1, <2>3 DEF Reserve, TypeInv, feedVars, flagVars
<1>7. ASSUME ReserveWait(w) PROVE TypeInv'
  <2>1. worker' \in [Worker -> WorkerRecord]
    BY <1>7, <1>t, BudgetTurns
  <2>3. budget' \in BudgetRecord
    BY <1>0, <1>7, BudgetSet DEF ReserveWait
  <2> QED BY <1>7, <2>1, <2>3 DEF ReserveWait, TypeInv, feedVars, flagVars
<1>8. ASSUME Park(w) PROVE TypeInv'
  <2>1. worker' \in [Worker -> WorkerRecord]
    BY <1>8, <1>t, BudgetTurns
  <2>3. budget' \in BudgetRecord
    BY <1>0, <1>8, BudgetSet DEF Park
  <2> QED BY <1>8, <2>1, <2>3 DEF Park, TypeInv, feedVars, flagVars
<1>9. ASSUME Unpark(w) PROVE TypeInv'
  <2>1. worker' \in [Worker -> WorkerRecord]
    BY <1>9, <1>t, BudgetTurns
  <2>3. budget' \in BudgetRecord
    BY <1>0, <1>9, BudgetSet DEF Unpark
  <2> QED BY <1>9, <2>1, <2>3 DEF Unpark, TypeInv, feedVars, flagVars
<1>10. ASSUME AdmitReader(w) PROVE TypeInv'
  <2>1. worker' \in [Worker -> WorkerRecord]
    BY <1>10, <1>t, BudgetTurns
  <2>2. worker[w].task \in Task
    BY <1>10 DEF AdmitReader, At, LaneInv, HasTask, HoldsBytes
  <2>3. budget' \in BudgetRecord
    BY <1>0, <1>e, <1>10, <2>2 DEF AdmitReader
  <2> QED BY <1>10, <2>1, <2>3 DEF AdmitReader, TypeInv, feedVars, flagVars
<1>11. ASSUME Work(w) PROVE TypeInv'
  <2>1. worker' \in [Worker -> WorkerRecord]
    BY <1>11, <1>t, BudgetTurns
  <2>2. worker[w].task \in Task
    BY <1>11 DEF Work, At, LaneInv, HasTask, HoldsBytes
  <2>3. budget' \in BudgetRecord
    BY <1>e, <1>11, <2>2 DEF Work
  <2> QED BY <1>11, <2>1, <2>3 DEF Work, TypeInv, feedVars, flagVars
<1>12. ASSUME Handoff(w) PROVE TypeInv'
  <2>1. worker' \in [Worker -> WorkerRecord]
    BY <1>12, <1>t, HandoffTurns
  <2>2. held' \in [Worker -> SlotRecord]
    BY <1>0, <1>n, <1>12 DEF Handoff
  <2> QED BY <1>12, <2>1, <2>2 DEF Handoff, TypeInv, feedVars, flagVars
<1>13. ASSUME HandoffSend(w) PROVE TypeInv'
  <2>1. worker' \in [Worker -> WorkerRecord]
    BY <1>13, <1>t, HandoffTurns
  <2>2. worker[w].task \in Task
    BY <1>13 DEF HandoffSend, At, LaneInv, HasTask, HoldsBytes
  <2>3. budget' \in BudgetRecord
    BY <1>0, <1>e, <1>13, <2>2, HandoffTurns
  <2>4. queue' \in Seq(Batch) /\ Len(queue') <= Threads
    BY <1>q, <1>13, HandoffTurns
  <2> QED BY <1>13, <2>1, <2>3, <2>4 DEF HandoffSend, TypeInv, feedVars, flagVars
<1>14. ASSUME StreamEnd(w) PROVE TypeInv'
  <2>1. worker' \in [Worker -> WorkerRecord]
    BY <1>14, <1>t, BudgetTurns
  <2>2. worker[w].task \in Task
    BY <1>14 DEF StreamEnd, At, LaneInv, HasTask, HoldsBytes
  <2>3. budget' \in BudgetRecord
    BY <1>e, <1>14, <2>2 DEF StreamEnd
  <2> QED BY <1>14, <2>1, <2>3 DEF StreamEnd, TypeInv, feedVars, flagVars
<1>15. ASSUME Hand(w) PROVE TypeInv'
  <2>1. worker' \in [Worker -> WorkerRecord]
    BY <1>15, <1>t, HandTurns
  <2>2. held' \in [Worker -> SlotRecord]
    BY <1>0, <1>15, HandTurns
  <2> QED BY <1>15, <2>1, <2>2 DEF Hand, Handing, TypeInv, feedVars, flagVars
<1>16. ASSUME Send(w) PROVE TypeInv'
  <2>1. worker' \in [Worker -> WorkerRecord]
    BY <1>16, <1>t, SendTurns
  <2>2. queue' \in Seq(Batch) /\ Len(queue') <= Threads
    BY <1>q, <1>16, SendTurns
  <2> QED BY <1>16, <2>1, <2>2 DEF Send, TypeInv, feedVars, flagVars
<1>17. ASSUME StopWork(w) PROVE TypeInv'
  <2>1. worker' \in [Worker -> WorkerRecord]
    BY <1>17, <1>t, FeedTurns
  <2> QED BY <1>17, <2>1 DEF StopWork, TypeInv, feedVars, laneVars, flagVars
<1>18. ASSUME Flush(w) PROVE TypeInv'
  <2>1. worker' \in [Worker -> WorkerRecord]
    BY <1>18, <1>t, LeaveTurns
  <2>2. held' \in [Worker -> SlotRecord]
    BY <1>0, <1>n, <1>18 DEF Flush
  <2> QED BY <1>18, <2>1, <2>2 DEF Flush, TypeInv, feedVars, flagVars
<1>19. ASSUME SendLast(w) PROVE TypeInv'
  <2>1. worker' \in [Worker -> WorkerRecord]
    BY <1>19, <1>t, SendTurns
  <2>2. queue' \in Seq(Batch) /\ Len(queue') <= Threads
    BY <1>q, <1>19, SendTurns
  <2> QED BY <1>19, <2>1, <2>2 DEF SendLast, TypeInv, feedVars, flagVars
<1>20. ASSUME Leave(w) PROVE TypeInv'
  <2>1. worker' \in [Worker -> WorkerRecord]
    BY <1>20, <1>t, LeaveTurns
  <2>2. /\ feed' \in [tasks : Seq(Task), closed : BOOLEAN, full : BOOLEAN]
        /\ prod' \in ProdRecord
    BY <1>0, <1>20, CloseType DEF Leave
  <2> QED BY <1>20, <2>1, <2>2 DEF Leave, TypeInv, laneVars, flagVars
<1>21. ASSUME Unwind(w) PROVE TypeInv'
  <2>1. worker' \in [Worker -> WorkerRecord]
    BY <1>21, <1>t, LeaveTurns
  <2>2. /\ feed' \in [tasks : Seq(Task), closed : BOOLEAN, full : BOOLEAN]
        /\ prod' \in ProdRecord
    BY <1>0, <1>21, CloseType DEF Unwind
  <2>3. stop' \in BOOLEAN
    BY <1>21 DEF Unwind
  <2> QED BY <1>21, <2>1, <2>2, <2>3 DEF Unwind, TypeInv, laneVars
<1>22. ASSUME HaltWake(w) PROVE TypeInv'
  <2>1. worker' \in [Worker -> WorkerRecord]
    BY <1>22, <1>t, LeaveTurns
  <2> QED BY <1>22, <2>1 DEF HaltWake, TypeInv, feedVars, laneVars, flagVars
<1>23. ASSUME Panic(w) PROVE TypeInv'
  <2>1. worker' \in [Worker -> WorkerRecord]
    BY <1>23, <1>t, BudgetTurns
  <2>2. worker[w].task \in Task
    BY <1>23 DEF Panic, At, LaneInv, HasTask, HoldsBytes
  <2>3. budget' \in BudgetRecord
    BY <1>e, <1>23, <2>2 DEF Panic
  <2> QED BY <1>23, <2>1, <2>3 DEF Panic, TypeInv, feedVars, flagVars
<1> QED BY <1>1, <1>2, <1>3, <1>4, <1>5, <1>6, <1>7, <1>8, <1>9, <1>10, <1>11, <1>12, <1>13,
           <1>14, <1>15, <1>16, <1>17, <1>18, <1>19, <1>20, <1>21, <1>22, <1>23
        DEF WorkerStep, Take

\* The caller after each of the ways it is changed.
LEMMA CallerSet ==
  ASSUME caller \in CallerRecord
  PROVE  /\ \A at \in CallerPlaces : [caller EXCEPT !.at = at] \in CallerRecord
         /\ [caller EXCEPT !.clean = 0] \in CallerRecord
         /\ \A at \in CallerPlaces, batch \in Seq(Groups) :
              [caller EXCEPT !.batch = batch, !.at = at] \in CallerRecord
         /\ \A at \in CallerPlaces, batch \in Seq(Groups), clean \in Nat :
              [caller EXCEPT !.batch = batch, !.clean = clean, !.at = at] \in CallerRecord
         /\ \A at \in CallerPlaces, batch \in Seq(Groups), clean \in Nat, slot \in Worker :
              [caller EXCEPT !.batch = batch, !.slot = slot, !.clean = clean, !.at = at]
                \in CallerRecord
<1> USE DEF CallerRecord, CallerPlaces
<1>1. \A at \in CallerPlaces : [caller EXCEPT !.at = at] \in CallerRecord
  OBVIOUS
<1>2. [caller EXCEPT !.clean = 0] \in CallerRecord
  OBVIOUS
<1>3. ASSUME NEW at \in CallerPlaces, NEW batch \in Seq(Groups)
      PROVE  [caller EXCEPT !.batch = batch, !.at = at] \in CallerRecord
  OBVIOUS
<1>4. ASSUME NEW at \in CallerPlaces, NEW batch \in Seq(Groups), NEW clean \in Nat
      PROVE  [caller EXCEPT !.batch = batch, !.clean = clean, !.at = at] \in CallerRecord
  OBVIOUS
<1>5. ASSUME NEW at \in CallerPlaces, NEW batch \in Seq(Groups), NEW clean \in Nat,
             NEW slot \in Worker
      PROVE  [caller EXCEPT !.batch = batch, !.slot = slot, !.clean = clean, !.at = at]
                \in CallerRecord
  OBVIOUS
<1> HIDE DEF CallerRecord, CallerPlaces
<1> QED BY <1>1, <1>2, <1>3, <1>4, <1>5

\* Types: a caller that has emitted a group.
LEMMA EmittedType ==
  ASSUME TypeInv, LaneInv, caller.at \in {"publish", "stream"}, NEW breaks \in BOOLEAN
  PROVE  /\ Emitted(breaks) \in CallerRecord /\ Head(caller.batch) \in Groups
         /\ Emitted(breaks).at \in {"publish", "collect", "ending"}
         /\ Emitted(breaks).at = "publish" => Emitted(breaks).batch # <<>>
<1>1. caller \in CallerRecord /\ caller.batch \in Seq(Groups) /\ caller.batch # <<>>
  BY DEF TypeInv, LaneInv, CallerRecord
<1> DEFINE b == caller.batch
           rest == Tail(b)
           at == IF Len(b) = 1 THEN "collect" ELSE "publish"
<1>2. b \in Seq(Groups) /\ b # <<>>
  BY <1>1
<1> HIDE DEF b
<1>3. Head(b) \in Groups /\ rest \in Seq(Groups) /\ Len(b) \in Nat \ {0} /\ Len(rest) = Len(b) - 1
  BY <1>2, EmptySeq
<1> HIDE DEF rest
<1>4. Len(b) # 1 => rest # <<>>
  BY <1>3, EmptySeq
<1>5. <<>> \in Seq(Groups)
  OBVIOUS
<1>6. at \in CallerPlaces /\ "ending" \in CallerPlaces /\ at \in {"collect", "publish"}
      /\ (at = "publish" => Len(b) # 1)
  BY DEF CallerPlaces
<1>7. Emitted(breaks) = IF breaks THEN [caller EXCEPT !.batch = <<>>, !.at = "ending"]
                        ELSE [caller EXCEPT !.batch = rest, !.at = at]
  BY DEF Emitted, b, rest
<1> HIDE DEF at
<1>8. [caller EXCEPT !.batch = <<>>, !.at = "ending"] \in CallerRecord
      /\ [caller EXCEPT !.batch = rest, !.at = at] \in CallerRecord
  BY <1>1, <1>3, <1>5, <1>6, CallerSet
<1>9. /\ [caller EXCEPT !.batch = <<>>, !.at = "ending"].at = "ending"
      /\ [caller EXCEPT !.batch = rest, !.at = at].at = at
      /\ [caller EXCEPT !.batch = rest, !.at = at].batch = rest
  BY <1>1 DEF CallerRecord
<1> QED BY <1>3, <1>4, <1>6, <1>7, <1>8, <1>9 DEF b

\* Types: the caller's steps.
LEMMA CallerType ==
  ASSUME TypeInv, LaneInv, CallerStep \/ Cancel \/ UNCHANGED vars
  PROVE  TypeInv'
<1>0. /\ caller \in CallerRecord /\ mode \in Modes /\ queue \in Seq(Batch)
      /\ held \in [Worker -> SlotRecord] /\ emitted \in Seq(Groups) /\ cancelled \in BOOLEAN
      /\ prod \in ProdRecord /\ Len(queue) <= Threads
  BY DEF TypeInv
<1>w. worker' \in [Worker -> WorkerRecord]
  BY OthersNotify DEF Nudged
<1>p. /\ {"collect", "sweep", "publish", "stream", "ending", "waking", "joining", "returned",
         "alone"} \subseteq CallerPlaces
      /\ \A at \in CallerPlaces : [caller EXCEPT !.at = at] \in CallerRecord
  BY <1>0, CallerSet DEF CallerPlaces
<1>b. \A breaks \in mode.breaks : breaks \in BOOLEAN
  <2>1. mode.breaks = {FALSE} \/ mode.breaks = BOOLEAN
    BY <1>0, ModeFacts
  <2> QED BY <2>1
<1>1. ASSUME Collect PROVE TypeInv'
  <2>1. caller' \in CallerRecord
    <3>1. CASE queue # <<>>
      <4>1. Head(queue) \in Batch
        BY <1>0, <3>1
      <4>2. Head(queue) \in Seq(Groups)
        BY <4>1 DEF Batch
      <4>3. caller' = [caller EXCEPT !.batch = Head(queue), !.clean = 0, !.at = "publish"]
        BY <1>1, <3>1 DEF Collect, Collecting, Receives
      <4>4. "publish" \in CallerPlaces /\ 0 \in Nat
        BY <1>p
      <4> QED BY <1>0, <4>2, <4>3, <4>4, CallerSet
    <3>2. CASE queue = <<>>
      BY <1>0, <1>1, <1>p, <3>2, CallerSet DEF Collect, Collecting
    <3> QED BY <3>1, <3>2
  <2>2. queue' \in Seq(Batch) /\ Len(queue') <= Threads
    <3>1. CASE queue # <<>>
      <4>1. queue' = Tail(queue) /\ Len(queue) \in Nat
        BY <1>0, <1>1, <3>1 DEF Collect, Collecting
      <4>2. queue' \in Seq(Batch) /\ Len(queue') = Len(queue) - 1
        BY <1>0, <3>1, <4>1
      <4>3. Threads \in Nat
        BY WorkerFacts
      <4> QED BY <1>0, <4>1, <4>2, <4>3
    <3>2. CASE queue = <<>>
      BY <1>0, <1>1, <3>2 DEF Collect, Collecting
    <3> QED BY <3>1, <3>2
  <2> QED BY <1>1, <1>w, <2>1, <2>2 DEF Collect, Collecting, TypeInv, feedVars, flagVars
<1>2. ASSUME Sweep PROVE TypeInv'
  <2> DEFINE batch == held[caller.slot].groups
             slot == (caller.slot % Threads) + 1
             clean == IF batch = <<>> THEN caller.clean + 1 ELSE 0
             at == IF batch = <<>> THEN "collect" ELSE "publish"
  <2>1. caller.slot \in Worker /\ caller.clean \in Nat
    BY <1>0 DEF CallerRecord
  <2>2. batch \in Seq(Task)
    BY <1>0, <2>1 DEF SlotRecord
  <2>3. batch \in Seq(Groups)
    BY <2>2, Batches
  <2>4. slot \in Worker
    <3>1. Threads \in Nat \ {0} /\ Worker = 1 .. Threads
      BY WorkerFacts
    <3> QED BY <2>1, <3>1
  <2>5. clean \in Nat /\ at \in CallerPlaces
    BY <1>p, <2>1
  <2>6. caller' = [caller EXCEPT !.batch = batch, !.slot = slot, !.clean = clean, !.at = at]
    BY <1>2 DEF Sweep
  <2> HIDE DEF batch, slot, clean, at
  <2>7. caller' \in CallerRecord
    BY <1>0, <2>3, <2>4, <2>5, <2>6, CallerSet
  <2>8. held' \in [Worker -> SlotRecord]
    <3>1. NoneHeld \in SlotRecord
      BY <1>0, NoneHeldExact DEF SlotExact
    <3> QED BY <1>0, <1>2, <3>1 DEF Sweep
  <2> QED BY <1>2, <1>w, <2>7, <2>8 DEF Sweep, TypeInv, feedVars, flagVars
<1>3. ASSUME Publish PROVE TypeInv'
  <2>1. caller.at = "publish"
    BY <1>3 DEF Publish
  <2>2. Head(caller.batch) \in Groups
        /\ \A breaks \in mode.breaks : Emitted(breaks) \in CallerRecord
    BY <1>b, <2>1, EmittedType
  <2>3. caller' \in CallerRecord
    <3>1. [caller EXCEPT !.batch = <<>>, !.at = "ending"] \in CallerRecord
      <4>1. <<>> \in Seq(Groups)
        OBVIOUS
      <4> QED BY <1>0, <1>p, <4>1, CallerSet
    <3> QED BY <1>3, <1>p, <2>2, <3>1 DEF Publish
  <2>4. emitted' \in Seq(Groups)
    <3>1. Append(emitted, Head(caller.batch)) \in Seq(Groups)
      BY <1>0, <2>2
    <3> QED BY <1>0, <1>3, <3>1 DEF Publish
  <2>5. cancelled' \in BOOLEAN
    BY <1>0, <1>3, <1>b DEF Publish
  <2> QED BY <1>3, <1>w, <2>3, <2>4, <2>5 DEF Publish, TypeInv, feedVars
<1>4. ASSUME StreamDone PROVE TypeInv'
  <2>1. caller.at = "stream"
    BY <1>4 DEF StreamDone, Publishing
  <2>2. \A breaks \in mode.breaks : Emitted(breaks) \in CallerRecord
    BY <1>b, <2>1, EmittedType
  <2>3. caller' \in CallerRecord /\ cancelled' \in BOOLEAN
    BY <1>0, <1>4, <1>b, <2>2 DEF StreamDone
  <2> QED BY <1>4, <1>w, <2>3 DEF StreamDone, TypeInv, feedVars
<1>5. ASSUME End PROVE TypeInv'
  <2>1. caller' \in CallerRecord
    BY <1>5, <1>p DEF End
  <2>2. <<>> \in Seq(Batch) /\ Len(<<>>) = 0
    BY Batches
  <2>3. Threads \in Nat
    BY WorkerFacts
  <2>4. queue' \in Seq(Batch) /\ Len(queue') <= Threads
    BY <1>5, <2>2, <2>3 DEF End
  <2>5. /\ feed' \in [tasks : Seq(Task), closed : BOOLEAN, full : BOOLEAN]
        /\ prod' \in ProdRecord
    BY <1>0, <1>5, CloseType DEF End
  <2>6. stop' \in BOOLEAN
    BY <1>5 DEF End
  <2> QED BY <1>5, <1>w, <2>1, <2>4, <2>5, <2>6 DEF End, TypeInv
<1>6. ASSUME Halt PROVE TypeInv'
  <2>1. caller' \in CallerRecord
    BY <1>6, <1>p DEF Halt
  <2> QED BY <1>6, <1>w, <2>1 DEF Halt, TypeInv, feedVars, flagVars
<1>7. ASSUME Join PROVE TypeInv'
  <2>1. caller' \in CallerRecord
    BY <1>7, <1>p DEF Join
  <2> QED BY <1>7, <1>w, <2>1 DEF Join, TypeInv, feedVars, flagVars
<1>8. ASSUME CloseUnfed PROVE TypeInv'
  <2>1. caller' \in CallerRecord
    BY <1>8, <1>p DEF CloseUnfed
  <2>2. /\ feed' \in [tasks : Seq(Task), closed : BOOLEAN, full : BOOLEAN]
        /\ prod' \in ProdRecord
    BY <1>0, <1>8, CloseType DEF CloseUnfed
  <2> QED BY <1>8, <1>w, <2>1, <2>2 DEF CloseUnfed, TypeInv, flagVars
<1>9. ASSUME Alone PROVE TypeInv'
  <2>1. caller' \in CallerRecord
    BY <1>0, <1>9, <1>p DEF Alone
  <2>2. cancelled' \in BOOLEAN
    BY <1>0, <1>9, <1>b DEF Alone
  <2>3. CASE Stopped \/ prod.next > mode.count
    <3>1. UNCHANGED <<prod, emitted>>
      BY <1>9, <2>3 DEF Alone
    <3> QED BY <1>9, <1>w, <2>1, <2>2, <3>1 DEF Alone, TypeInv, feedVars
  <2>4. CASE ~(Stopped \/ prod.next > mode.count)
    <3>1. mode.count \in Task /\ MaxTasks \in Nat /\ prod.next \in 1 .. (MaxTasks + 1)
      BY <1>0, ModeFacts DEF ProdRecord
    <3>2. prod.next \in Task /\ prod.next + 1 \in 1 .. (MaxTasks + 1)
      BY <2>4, <3>1 DEF Task
    <3> DEFINE next == prod.next + 1
               open == IF prod.next \in mode.streamed THEN <<-prod.next>> ELSE <<>>
    <3>3. prod' = [prod EXCEPT !.next = next] /\ emitted' = emitted \o open \o <<prod.next>>
      BY <1>9, <2>4 DEF Alone
    <3>4. prod.next \in Groups /\ -prod.next \in Groups
      BY <3>2 DEF Groups
    <3>5. open \in Seq(Groups)
      <4>1. <<-prod.next>> \in Seq(Groups) /\ <<>> \in Seq(Groups)
        BY <3>4
      <4> QED BY <4>1
    <3> HIDE DEF open
    <3>6. emitted' \in Seq(Groups)
      <4>1. <<prod.next>> \in Seq(Groups)
        BY <3>4
      <4>2. emitted \o open \in Seq(Groups)
        BY <1>0, <3>5
      <4> QED BY <3>3, <4>1, <4>2
    <3>7. next \in 1 .. (MaxTasks + 1)
      BY <3>2
    <3> HIDE DEF next
    <3>8. prod' \in ProdRecord
      BY <1>0, <3>3, <3>7 DEF ProdRecord
    <3> QED BY <1>9, <1>w, <2>1, <2>2, <3>6, <3>8 DEF Alone, TypeInv, feedVars
  <2> QED BY <2>3, <2>4
<1>10. ASSUME Cancel PROVE TypeInv'
  BY <1>10 DEF Cancel, TypeInv, feedVars, laneVars
<1>11. ASSUME UNCHANGED vars PROVE TypeInv'
  BY <1>11 DEF vars, TypeInv
<1> QED BY <1>1, <1>2, <1>3, <1>4, <1>5, <1>6, <1>7, <1>8, <1>9, <1>10, <1>11 DEF CallerStep

\* Every step leaves the types.
LEMMA TypeStep ==
  ASSUME TypeInv, FeedInv, RunInv, LaneInv, [Next]_vars
  PROVE  TypeInv'
<1>1. CASE Produce
  BY <1>1, ProduceType
<1>2. CASE \E w \in Worker : WorkerStep(w) \/ Panic(w)
  BY <1>2, WorkerType
<1>3. CASE CallerStep \/ Cancel \/ UNCHANGED vars
  BY <1>3, CallerType
<1> QED BY <1>1, <1>2, <1>3 DEF Next, Returned

----------------------------------------------------------------------------
(* How far the producer is ahead.                                          *)

\* The feed only shrinks or closes, and the producer is at most notified.
LEMMA FeedKept ==
  ASSUME TypeInv, TypeInv', FeedInv, UNCHANGED mode,
         prod' = prod \/ prod' = Rouse(prod),
         Len(feed'.tasks) <= Len(feed.tasks), feed.closed => feed'.closed,
         caller'.at \in {"unfed", "alone"} => caller.at \in {"unfed", "alone"}
  PROVE  FeedInv'
<1>1. /\ prod'.batch = prod.batch /\ prod'.next = prod.next /\ prod'.flushed = prod.flushed
      /\ prod'.at = prod.at \/ (prod.at = "room" /\ prod'.at = "roused")
  <2>1. prod \in ProdRecord
    BY DEF TypeInv
  <2> QED BY <2>1 DEF Rouse, ProdRecord
<1> DEFINE n == Len(feed.tasks)
           m == Len(feed'.tasks)
<1>2. n \in Nat /\ m \in Nat /\ m <= n /\ Len(prod.batch) \in Nat
  BY DEF TypeInv, ProdRecord
<1>3. Capacity \in Nat /\ BatchLen \in Nat /\ BatchLen' = BatchLen
  <2>1. mode \in Modes
    BY DEF TypeInv
  <2>2. BatchLen \in Nat
    BY <2>1, ModeFacts
  <2> QED BY <2>2, WorkerFacts DEF BatchLen
<1>4. Ahead(BatchLen, n, Len(prod.batch), prod.at, prod.flushed, feed.closed)
  BY DEF FeedInv
<1> DEFINE b == Len(prod.batch)
           L == BatchLen
<1>5. Ahead(L, m, b, prod'.at, prod.flushed, feed'.closed)
  <2> HIDE DEF n, m, b, L
  <2>1. Ahead(L, n, b, prod.at, prod.flushed, feed.closed)
    BY <1>4 DEF b, L
  <2>2. /\ n \in Nat /\ m \in Nat /\ m <= n /\ b \in Nat /\ L \in Nat /\ Capacity \in Nat
    BY <1>2, <1>3 DEF n, m, b, L
  <2>3. ~feed'.closed => ~feed.closed
    OBVIOUS
  <2>4. prod'.at = prod.at \/ (prod.at = "room" /\ prod'.at = "roused")
    BY <1>1
  <2> QED BY <2>1, <2>2, <2>3, <2>4 DEF Ahead
<1>6. Ahead(BatchLen, Len(feed.tasks), Len(prod.batch), prod.at, prod.flushed, feed.closed)'
  BY <1>1, <1>3, <1>5
<1> QED BY <1>1, <1>6 DEF FeedInv

\* A push leaves the producer at the place it was called from, or at a batch's end
\* with room or waiting for it.
LEMMA FeedPush ==
  ASSUME TypeInv, FeedInv, NEW room \in BOOLEAN, NEW place, Push(room, place),
         \/ room /\ prod.at = "push"
         \/ ~room /\ prod.at \in {"gather", "admitted"} /\ place \in {prod.at, "end"}
  PROVE  FeedInv'
<1> DEFINE tasks == IF feed.closed THEN feed.tasks ELSE feed.tasks \o prod.batch
           batch == IF feed.closed THEN prod.batch ELSE <<>>
           pushed == [prod EXCEPT !.batch = batch]
           after == IF room THEN AfterRoom(pushed, tasks)
                    ELSE [pushed EXCEPT !.at = place, !.closed = feed.closed, !.flushed = TRUE]
           waits == Waits(tasks)
           at == IF ~room THEN place
                 ELSE IF waits THEN "room" ELSE IF feed.closed THEN "end" ELSE "gather"
           flushed == IF ~room THEN TRUE ELSE IF waits THEN prod.flushed ELSE FALSE
           full == IF room THEN Waits(tasks) ELSE feed.full
           n == Len(feed.tasks)
           b == Len(prod.batch)
           L == BatchLen
           closed == feed.closed
<1>0. /\ feed \in [tasks : Seq(Task), closed : BOOLEAN, full : BOOLEAN] /\ prod \in ProdRecord
      /\ mode \in Modes
  BY DEF TypeInv
<1>1. prod.batch \in Seq(Task)
  BY <1>0 DEF ProdRecord
<1>2. /\ feed' = [feed EXCEPT !.tasks = tasks, !.full = full]
      /\ prod' = after
      /\ UNCHANGED <<laneVars, flagVars>>
  BY DEF Push
<1>3. n \in Nat /\ b \in Nat /\ Len(tasks) = IF closed THEN n ELSE n + b
  BY <1>0, <1>1
<1>4. Len(batch) = IF closed THEN b ELSE 0
  OBVIOUS
<1>5. feed'.tasks = tasks /\ feed'.closed = closed
  <2> HIDE DEF tasks, full
  <2> QED BY <1>0, <1>2
<1>6. prod'.batch = batch /\ prod'.at = at /\ prod'.next = prod.next /\ prod'.flushed = flushed
  <2> HIDE DEF batch, tasks
  <2>1. pushed = [prod EXCEPT !.batch = batch] /\ DOMAIN pushed = DOMAIN prod
        /\ pushed.batch = batch /\ pushed.next = prod.next /\ pushed.flushed = prod.flushed
        /\ "at" \in DOMAIN pushed /\ "flushed" \in DOMAIN pushed
    BY <1>0 DEF ProdRecord
  <2> HIDE DEF pushed
  <2>2. /\ after.batch = batch /\ after.at = at /\ after.next = prod.next
        /\ after.flushed = flushed
    <3>1. CASE ~room
      BY <2>1, <3>1
    <3>2. CASE room /\ waits
      BY <2>1, <3>2 DEF AfterRoom
    <3>3. CASE room /\ ~waits
      BY <2>1, <3>3 DEF AfterRoom
    <3> QED BY <3>1, <3>2, <3>3
  <2> QED BY <1>2, <2>2
<1>7. mode' = mode /\ caller' = caller /\ BatchLen' = BatchLen
  BY <1>2 DEF flagVars, laneVars, BatchLen
<1>8. L \in Nat \ {0} /\ Capacity \in Nat
  BY <1>0, ModeFacts, WorkerFacts
<1>9. Ahead(L, n, b, prod.at, prod.flushed, closed)
  BY DEF FeedInv
<1>10. waits <=> Len(tasks) >= Capacity /\ ~closed
  BY DEF Waits
<1>11. Ahead(L, Len(tasks), Len(batch), at, flushed, closed)
  <2> DEFINE m == Len(tasks)
             c == Len(batch)
  <2>1. /\ m = IF closed THEN n ELSE n + b
        /\ c = IF closed THEN b ELSE 0
        /\ waits <=> m >= Capacity /\ ~closed
    BY <1>3, <1>4, <1>10
  <2>2. n \in Nat /\ b \in Nat /\ m \in Nat /\ c \in Nat /\ closed \in BOOLEAN
    <3>1. n \in Nat /\ b \in Nat /\ closed \in BOOLEAN
      BY <1>0, <1>3
    <3> HIDE DEF n, b, m, c, closed
    <3> QED BY <2>1, <3>1
  <2> SUFFICES Ahead(L, m, c, at, flushed, closed)
    OBVIOUS
  <2> HIDE DEF m, c, n, b, L, waits, tasks, batch, closed
  <2>3. CASE ~room
    <3>1. flushed = TRUE /\ at = place
      BY <2>3
    <3> HIDE DEF flushed, at
    <3>2. prod.at \in {"gather", "admitted"} /\ at \in {prod.at, "end"}
      BY <2>3, <3>1
    <3>3. /\ n < Capacity + L /\ b < L
          /\ ~closed => (n < Capacity \/ (b = 0 /\ n < Capacity + L - 1))
      BY <1>9, <3>2 DEF Ahead
    <3>4. /\ m < Capacity + L /\ c < L
          /\ ~closed => c = 0 /\ m < Capacity + L - 1
      BY <1>8, <2>1, <2>2, <3>3
    <3>5. at \in {"gather", "admitted", "end"}
      BY <3>2
    <3> QED BY <1>8, <2>2, <3>1, <3>4, <3>5 DEF Ahead
  <2>4. CASE room
    <3>1. prod.at = "push"
      BY <2>4
    <3>2. /\ n < Capacity + L /\ b <= L /\ (~closed => n + b < Capacity + L)
      BY <1>9, <3>1 DEF Ahead
    <3>3. /\ m < Capacity + L /\ c <= L /\ (~closed => c = 0)
      BY <1>8, <2>1, <2>2, <3>2
    <3>4. CASE closed
      <4>1. at = "end"
        BY <2>1, <2>4, <3>4 DEF closed
      <4> QED BY <3>3, <3>4, <4>1 DEF Ahead
    <3>5. CASE ~closed /\ waits
      <4>1. at = "room"
        BY <2>4, <3>5
      <4> QED BY <3>3, <3>5, <4>1 DEF Ahead
    <3>6. CASE ~closed /\ ~waits
      <4>1. at = "gather" /\ flushed = FALSE
        BY <2>4, <3>6 DEF closed
      <4>2. m < Capacity
        BY <1>8, <2>1, <2>2, <3>6
      <4> QED BY <1>8, <3>3, <3>6, <4>1, <4>2 DEF Ahead
    <3> QED BY <3>4, <3>5, <3>6
  <2> QED BY <2>3, <2>4
<1>12. Ahead(BatchLen, Len(feed.tasks), Len(prod.batch), prod.at, prod.flushed, feed.closed)'
  BY <1>5, <1>6, <1>7, <1>11
<1>13. prod'.at = "admitted" => prod'.next <= mode'.count
  <2>1. at = "admitted" => prod.at = "admitted"
    OBVIOUS
  <2> HIDE DEF at
  <2> QED BY <1>6, <1>7, <2>1 DEF FeedInv
<1>14. caller'.at \notin {"unfed", "alone"}
  BY <1>7 DEF FeedInv
<1> QED BY <1>12, <1>13, <1>14 DEF FeedInv

\* The producer's own steps.
LEMMA FeedProduce ==
  ASSUME TypeInv, FeedInv, Produce
  PROVE  FeedInv'
<1> DEFINE n == Len(feed.tasks)
           b == Len(prod.batch)
           L == BatchLen
<1>0. /\ feed \in [tasks : Seq(Task), closed : BOOLEAN, full : BOOLEAN] /\ prod \in ProdRecord
      /\ mode \in Modes
  BY DEF TypeInv
<1>a. Ahead(L, n, b, prod.at, prod.flushed, feed.closed)
  BY DEF FeedInv
<1>t. n \in Nat /\ b \in Nat /\ L \in Nat \ {0} /\ Capacity \in Nat
  <2>1. prod.batch \in Seq(Task)
    BY <1>0 DEF ProdRecord
  <2>2. L \in Nat \ {0} /\ Capacity \in Nat
    BY <1>0, ModeFacts, WorkerFacts
  <2> QED BY <1>0, <2>1, <2>2
<1>1. ASSUME Admit PROVE FeedInv'
  <2>1. /\ prod'.at = "admitted" /\ prod'.batch = prod.batch /\ prod'.next = prod.next
        /\ prod'.flushed = prod.flushed /\ prod.at = "gather" /\ prod.next <= mode.count
        /\ feed' = feed /\ mode' = mode /\ caller' = caller
    BY <1>0, <1>1 DEF Admit, Seeks, ProdRecord, feedVars, laneVars, flagVars
  <2>2. BatchLen' = BatchLen
    BY <2>1 DEF BatchLen
  <2>3. Ahead(L, n, b, "admitted", prod.flushed, feed.closed)
    BY <1>a, <2>1 DEF Ahead
  <2>4. Ahead(BatchLen, Len(feed.tasks), Len(prod.batch), prod.at, prod.flushed, feed.closed)'
    BY <2>1, <2>2, <2>3
  <2>5. caller.at \notin {"unfed", "alone"}
    BY <2>1 DEF FeedInv
  <2> QED BY <2>1, <2>4, <2>5 DEF FeedInv
<1>2. ASSUME Gather PROVE FeedInv'
  <2>1. PICK due \in BOOLEAN :
          prod' = [prod EXCEPT !.batch = Append(prod.batch, prod.next), !.next = @ + 1,
                     !.at = IF due \/ prod.flushed \/ Len(Append(prod.batch, prod.next)) >= BatchLen
                            THEN "push" ELSE "gather"]
    BY <1>2 DEF Gather
  <2>2. /\ prod'.batch = Append(prod.batch, prod.next) /\ prod'.flushed = prod.flushed
        /\ prod'.at = IF due \/ prod.flushed \/ Len(Append(prod.batch, prod.next)) >= BatchLen
                      THEN "push" ELSE "gather"
    BY <1>0, <2>1 DEF ProdRecord
  <2>3. Len(Append(prod.batch, prod.next)) = b + 1
    BY <1>0 DEF ProdRecord
  <2>4. /\ prod.at \in {"gather", "admitted"} /\ feed' = feed /\ mode' = mode /\ caller' = caller
    BY <1>2 DEF Gather, Seeks, feedVars, laneVars, flagVars
  <2>5. BatchLen' = BatchLen
    BY <2>4 DEF BatchLen
  <2>6. /\ prod'.at \in {"push", "gather"} /\ (prod'.at = "gather" => ~prod.flushed /\ b + 1 < L)
    <3>1. prod'.at = IF due \/ prod.flushed \/ b + 1 >= L THEN "push" ELSE "gather"
      BY <2>2, <2>3
    <3> HIDE DEF b, L
    <3> QED BY <1>t, <3>1
  <2>7. Ahead(L, n, b + 1, prod'.at, prod.flushed, feed.closed)
    <3> DEFINE at == prod'.at
               closed == feed.closed
               flushed == prod.flushed
    <3>1. /\ n < Capacity + L /\ b < L
          /\ ~closed /\ ~flushed => n < Capacity
          /\ ~closed /\ flushed => b = 0 /\ n < Capacity + L - 1
      BY <1>a, <2>4 DEF Ahead
    <3>2. at \in {"push", "gather"} /\ (at = "gather" => ~flushed /\ b + 1 < L)
      BY <2>6
    <3> HIDE DEF at, closed, flushed, n, b, L
    <3>3. b + 1 <= L /\ (~closed => n + (b + 1) < Capacity + L)
      BY <1>t, <3>1
    <3>4. Ahead(L, n, b + 1, at, flushed, closed)
      BY <3>1, <3>2, <3>3 DEF Ahead
    <3> QED BY <3>4 DEF at, closed, flushed
  <2>8. Ahead(BatchLen, Len(feed.tasks), Len(prod.batch), prod.at, prod.flushed, feed.closed)'
    BY <2>2, <2>3, <2>4, <2>5, <2>7
  <2>9. caller.at \notin {"unfed", "alone"}
    BY <2>4 DEF FeedInv
  <2> QED BY <2>4, <2>6, <2>8, <2>9 DEF FeedInv
<1>3. ASSUME PushDue PROVE FeedInv'
  <2>1. prod.at \in {"gather", "admitted"} /\ Push(FALSE, prod.at)
    BY <1>3 DEF PushDue
  <2> QED BY <2>1, FeedPush
<1>4. ASSUME PushFull PROVE FeedInv'
  BY <1>4, FeedPush DEF PushFull
<1>5. ASSUME PushLast PROVE FeedInv'
  <2>1. prod.at \in {"gather", "admitted"} /\ Push(FALSE, "end")
    BY <1>5 DEF PushLast
  <2> QED BY <2>1, FeedPush
<1>6. ASSUME Abandon PROVE FeedInv'
  <2>1. /\ prod'.at = "end" /\ prod'.batch = prod.batch /\ prod.at = "gather"
        /\ prod'.flushed = prod.flushed
        /\ feed' = feed /\ mode' = mode /\ caller' = caller
    BY <1>0, <1>6 DEF Abandon, ProdRecord, feedVars, laneVars, flagVars
  <2>2. BatchLen' = BatchLen
    BY <2>1 DEF BatchLen
  <2>3. Ahead(L, n, b, "end", prod.flushed, feed.closed)
    BY <1>a DEF Ahead
  <2>4. Ahead(BatchLen, Len(feed.tasks), Len(prod.batch), prod.at, prod.flushed, feed.closed)'
    BY <2>1, <2>2, <2>3
  <2>5. caller.at \notin {"unfed", "alone"}
    BY <2>1 DEF FeedInv
  <2> QED BY <2>1, <2>4, <2>5 DEF FeedInv
<1>7. ASSUME Roused PROVE FeedInv'
  <2> DEFINE waits == Waits(feed.tasks)
             at == IF waits THEN "room" ELSE IF feed.closed THEN "end" ELSE "gather"
             flushed == IF waits THEN prod.flushed ELSE FALSE
  <2>1. /\ prod' = AfterRoom(prod, feed.tasks) /\ feed' = [feed EXCEPT !.full = waits]
        /\ prod.at = "roused" /\ mode' = mode /\ caller' = caller
    BY <1>7 DEF Roused, laneVars, flagVars
  <2>2. /\ prod'.at = at /\ prod'.batch = prod.batch /\ prod'.flushed = flushed
    <3>1. CASE waits
      BY <1>0, <2>1, <3>1 DEF AfterRoom, ProdRecord
    <3>2. CASE ~waits
      BY <1>0, <2>1, <3>2 DEF AfterRoom, ProdRecord
    <3> QED BY <3>1, <3>2
  <2>3. feed'.tasks = feed.tasks /\ feed'.closed = feed.closed
    BY <1>0, <2>1
  <2>4. BatchLen' = BatchLen
    BY <2>1 DEF BatchLen
  <2>5. waits <=> n >= Capacity /\ ~feed.closed
    BY DEF Waits
  <2>6. Ahead(L, n, b, at, flushed, feed.closed)
    <3>1. n < Capacity + L /\ b <= L /\ (~feed.closed => b = 0)
      BY <1>a, <2>1 DEF Ahead
    <3> HIDE DEF n, b, L, waits
    <3>2. CASE feed.closed
      <4>1. at = "end"
        BY <2>5, <3>2
      <4> QED BY <3>1, <3>2, <4>1 DEF Ahead
    <3>3. CASE ~feed.closed /\ waits
      <4>1. at = "room"
        BY <3>3
      <4> QED BY <3>1, <3>3, <4>1 DEF Ahead
    <3>4. CASE ~feed.closed /\ ~waits
      <4>1. at = "gather" /\ flushed = FALSE
        BY <3>4
      <4>2. n < Capacity /\ b < L
        BY <1>t, <2>5, <3>1, <3>4
      <4> QED BY <3>1, <3>4, <4>1, <4>2 DEF Ahead
    <3> QED BY <3>2, <3>3, <3>4
  <2>7. Ahead(BatchLen, Len(feed.tasks), Len(prod.batch), prod.at, prod.flushed, feed.closed)'
    BY <2>2, <2>3, <2>4, <2>6
  <2>8. prod'.at # "admitted"
    BY <2>2
  <2>9. caller.at \notin {"unfed", "alone"}
    BY <2>1 DEF FeedInv
  <2> QED BY <2>1, <2>7, <2>8, <2>9 DEF FeedInv
<1>8. ASSUME ProducerEnd PROVE FeedInv'
  <2> DEFINE p == [prod EXCEPT !.at = "gone"]
  <2>1. p \in ProdRecord /\ p.at = "gone" /\ p.batch = prod.batch
    BY <1>0 DEF ProdRecord
  <2>2. Close(worker, p)
    BY <1>8 DEF ProducerEnd
  <2> HIDE DEF p
  <2>3. feed'.closed /\ feed'.tasks = feed.tasks /\ prod' = Rouse(p)
    BY <2>1, <2>2, CloseType
  <2>4. prod'.at = "gone" /\ prod'.batch = prod.batch
    BY <2>1, <2>3 DEF Rouse
  <2>5. mode' = mode
    BY <1>8 DEF ProducerEnd, flagVars
  <2>6. BatchLen' = BatchLen
    BY <2>5 DEF BatchLen
  <2>7. n < Capacity + L /\ b <= L
    BY <1>a DEF Ahead
  <2>8. Ahead(L, n, b, "gone", prod'.flushed, TRUE)
    BY <2>7 DEF Ahead
  <2>9. feed'.closed = TRUE
    <3>1. feed' \in [tasks : Seq(Task), closed : BOOLEAN, full : BOOLEAN]
      BY <2>1, <2>2, CloseType
    <3> QED BY <2>3, <3>1
  <2>10. Ahead(BatchLen, Len(feed.tasks), Len(prod.batch), prod.at, prod.flushed, feed.closed)'
    BY <2>3, <2>4, <2>6, <2>8, <2>9
  <2> QED BY <2>4, <2>10 DEF FeedInv
<1> QED BY <1>1, <1>2, <1>3, <1>4, <1>5, <1>6, <1>7, <1>8 DEF Produce

\* The feed a take leaves.
LEMMA TakeShortens ==
  ASSUME TypeInv, NEW w \in Worker, TakeFeed(w)
  PROVE  /\ feed'.closed = feed.closed
         /\ Len(feed.tasks) \in Nat /\ Len(feed.tasks) > 0
         /\ Runs \in Nat /\ Runs < Len(feed.tasks)
         /\ Len(feed'.tasks) = Len(feed.tasks) - 1 - Runs
<1> DEFINE rest == Tail(feed.tasks)
           left == SubSeq(rest, Runs + 1, Len(rest))
<1>0. feed \in [tasks : Seq(Task), closed : BOOLEAN, full : BOOLEAN]
  BY DEF TypeInv
<1>1. feed.tasks # <<>> /\ Taking(w, Runs, Runs)
  BY DEF TakeFeed
<1>2. /\ rest \in Seq(Task) /\ Len(rest) = Len(feed.tasks) - 1 /\ Len(feed.tasks) \in Nat
      /\ Len(feed.tasks) > 0
  BY <1>0, <1>1
<1>3. Runs \in 0 .. Len(rest)
  BY <1>1, <1>2, RunsBounded
<1>4. feed'.tasks = left /\ feed'.closed = feed.closed
  <2>1. \E full : feed' = [feed EXCEPT !.tasks = left, !.full = full]
    BY <1>1 DEF Taking
  <2> HIDE DEF left
  <2> QED BY <1>0, <2>1
<1>5. Len(left) = Len(rest) - Runs
  <2> HIDE DEF rest
  <2>1. Len(rest) \in Nat /\ Runs \in Nat /\ Runs <= Len(rest)
    BY <1>2, <1>3
  <2>2. Len(left) = IF Runs + 1 <= Len(rest) THEN Len(rest) - (Runs + 1) + 1 ELSE 0
    BY <1>2, <2>1
  <2> HIDE DEF left
  <2> QED BY <2>1, <2>2
<1> HIDE DEF rest, left
<1> QED BY <1>2, <1>3, <1>4, <1>5

\* Every step keeps the feed within its bound.
LEMMA FeedStep ==
  ASSUME TypeInv, TypeInv', FeedInv, [Next]_vars
  PROVE  FeedInv'
<1>0. prod \in ProdRecord /\ Len(feed.tasks) \in Nat
  BY DEF TypeInv
<1>k. ASSUME UNCHANGED <<mode, feed, prod>>,
             caller'.at \in {"unfed", "alone"} => caller.at \in {"unfed", "alone"}
      PROVE  FeedInv'
  <2>1. Len(feed'.tasks) <= Len(feed.tasks)
    BY <1>0, <1>k
  <2> QED BY <1>k, <2>1, FeedKept
<1>c. ASSUME NEW ws, Close(ws, prod), UNCHANGED mode,
             caller'.at \in {"unfed", "alone"} => caller.at \in {"unfed", "alone"}
      PROVE  FeedInv'
  <2>1. feed'.closed /\ feed'.tasks = feed.tasks /\ prod' = Rouse(prod)
    BY <1>0, <1>c, CloseType
  <2>2. Len(feed'.tasks) <= Len(feed.tasks)
    BY <1>0, <2>1
  <2> QED BY <1>c, <2>1, <2>2, FeedKept
<1>1. CASE Produce
  BY <1>1, FeedProduce
<1>2. ASSUME NEW w \in Worker, WorkerStep(w) \/ Panic(w)
      PROVE  FeedInv'
  <2>1. ASSUME TakeFeed(w) PROVE FeedInv'
    <3>1. /\ feed'.closed = feed.closed /\ Len(feed'.tasks) <= Len(feed.tasks)
      BY <2>1, TakeShortens
    <3>2. prod' = prod \/ prod' = Rouse(prod)
      BY <2>1 DEF TakeFeed, Taking
    <3>3. mode' = mode /\ caller' = caller
      BY <2>1 DEF TakeFeed, Taking, laneVars, flagVars
    <3> QED BY <3>1, <3>2, <3>3, FeedKept
  <2>2. ASSUME Leave(w) PROVE FeedInv'
    BY <1>c, <2>2 DEF Leave, laneVars, flagVars
  <2>3. ASSUME Unwind(w) PROVE FeedInv'
    BY <1>c, <2>3 DEF Unwind, laneVars
  <2>4. ASSUME TakeOwn(w) \/ CountOwn(w) \/ Steal(w) \/ TakeNothing(w) PROVE FeedInv'
    <3>1. UNCHANGED <<mode, feed, prod, caller>>
      BY <2>4 DEF TakeOwn, CountOwn, Steal, TakeNothing, feedVars, laneVars, flagVars
    <3> QED BY <1>k, <3>1
  <2>5. ASSUME \/ Reserve(w) \/ ReserveWait(w) \/ Park(w) \/ Unpark(w) \/ AdmitReader(w)
               \/ Work(w) \/ Handoff(w) \/ HandoffSend(w) \/ StreamEnd(w) \/ Hand(w)
        PROVE  FeedInv'
    <3>1. UNCHANGED <<mode, feed, prod, caller>>
      BY <2>5 DEF Reserve, ReserveWait, Park, Unpark, AdmitReader, Work, Handoff, HandoffSend,
                  StreamEnd, Hand, Handing, feedVars, flagVars
    <3> QED BY <1>k, <3>1
  <2>6. ASSUME \/ Send(w) \/ StopWork(w) \/ Flush(w) \/ SendLast(w) \/ HaltWake(w) \/ Panic(w)
        PROVE  FeedInv'
    <3>1. UNCHANGED <<mode, feed, prod, caller>>
      BY <2>6 DEF Send, StopWork, Flush, SendLast, HaltWake, Panic, feedVars, laneVars, flagVars
    <3> QED BY <1>k, <3>1
  <2> QED BY <1>2, <2>1, <2>2, <2>3, <2>4, <2>5, <2>6 DEF WorkerStep, Take
<1>3. CASE CallerStep
  <2>0. caller \in CallerRecord /\ mode \in Modes
    BY DEF TypeInv
  <2>1. ASSUME Collect \/ Sweep \/ Halt \/ Join PROVE FeedInv'
    <3>1. UNCHANGED <<mode, feed, prod>> /\ caller'.at \notin {"unfed", "alone"}
      BY <2>0, <2>1 DEF Collect, Collecting, Receives, Sweep, Halt, Join, feedVars, flagVars,
                        CallerRecord
    <3> QED BY <1>k, <3>1
  <2>2. ASSUME Publish \/ StreamDone PROVE FeedInv'
    <3>1. \A breaks \in mode.breaks : Emitted(breaks).at \notin {"unfed", "alone"}
      BY <2>0 DEF Emitted, CallerRecord
    <3>2. caller'.at \notin {"unfed", "alone"}
      BY <2>0, <2>2, <3>1 DEF Publish, StreamDone, CallerRecord
    <3>3. UNCHANGED <<mode, feed, prod>>
      BY <2>2 DEF Publish, StreamDone, feedVars
    <3> QED BY <1>k, <3>2, <3>3
  <2>3. ASSUME End PROVE FeedInv'
    <3>1. caller'.at = "waking"
      BY <2>0, <2>3 DEF End, CallerRecord
    <3> QED BY <1>c, <2>3, <3>1 DEF End
  <2>4. ASSUME CloseUnfed PROVE FeedInv'
    BY <1>c, <2>4 DEF CloseUnfed, flagVars
  <2>5. ASSUME Alone PROVE FeedInv'
    <3>1. prod.at = "gone"
      BY <2>5 DEF Alone, FeedInv
    <3>2. prod'.at = "gone" /\ prod'.batch = prod.batch /\ prod'.flushed = prod.flushed
      BY <1>0, <2>5, <3>1 DEF Alone, ProdRecord
    <3>3. feed' = feed /\ mode' = mode /\ BatchLen' = BatchLen
      BY <2>5 DEF Alone, feedVars, BatchLen
    <3>4. Ahead(BatchLen, Len(feed.tasks), Len(prod.batch), prod.at, prod.flushed, feed.closed)'
      BY <3>1, <3>2, <3>3 DEF FeedInv
    <3> QED BY <3>2, <3>4 DEF FeedInv
  <2> QED BY <1>3, <2>1, <2>2, <2>3, <2>4, <2>5 DEF CallerStep
<1>4. CASE Cancel \/ UNCHANGED vars
  <2>1. UNCHANGED <<mode, feed, prod, caller>>
    BY <1>4 DEF Cancel, vars, feedVars, laneVars
  <2> QED BY <1>k, <2>1
<1> QED BY <1>1, <1>2, <1>3, <1>4 DEF Next, Returned

----------------------------------------------------------------------------
(* The tasks in runs.                                                      *)

\* The tasks in runs after one run has changed.
LEMMA OneRunChanges ==
  ASSUME NEW r \in [Worker -> Seq(Task)], NEW s \in [Worker -> Seq(Task)], NEW w \in Worker,
         \A v \in Worker \ {w} : s[v] = r[v]
  PROVE  /\ Tasks(r) \in Nat /\ Tasks(s) \in Nat /\ Len(r[w]) \in Nat /\ Len(s[w]) \in Nat
         /\ Tasks(s) = Tasks(r) - Len(r[w]) + Len(s[w])
<1>1. \A v \in Worker : /\ Slots(r)[v] = 1 .. Len(r[v]) /\ Len(r[v]) \in Nat
                        /\ Slots(s)[v] = 1 .. Len(s[v]) /\ Len(s[v]) \in Nat
  BY DEF Slots
<1>2. \A v \in Worker : /\ IsFiniteSet(Slots(r)[v]) /\ Cardinality(Slots(r)[v]) = Len(r[v])
                        /\ IsFiniteSet(Slots(s)[v]) /\ Cardinality(Slots(s)[v]) = Len(s[v])
  BY <1>1, IntervalSize
<1>3. \A v \in Worker \ {w} : Slots(s)[v] = Slots(r)[v]
  BY DEF Slots
<1>4. IsFiniteSet(Worker)
  BY WorkerFacts
<1>5. OneChanges(Worker, Slots(r), Slots(s), w)
  BY <1>2, <1>3, <1>4 DEF OneChanges
<1>6. PoolMoves(Worker, Slots(r), Slots(s), w)
  BY <1>5, PoolChange
<1>7. Cardinality(Slots(r)[w]) = Len(r[w]) /\ Cardinality(Slots(s)[w]) = Len(s[w])
  BY <1>2
<1> QED BY <1>1, <1>6, <1>7 DEF PoolMoves, Tasks

\* The workers that have yet to lower the count.
LEMMA CountedTurn ==
  ASSUME NEW w \in Worker, NEW at, NEW task, NEW out, Turned(w, at, task, out)
  PROVE  /\ Cardinality(Counted) \in Nat /\ Cardinality(Counted') \in Nat
         /\ worker[w].at # "counted" /\ at # "counted" => Cardinality(Counted') = Cardinality(Counted)
         /\ worker[w].at # "counted" /\ at = "counted" => Cardinality(Counted') = Cardinality(Counted) + 1
         /\ worker[w].at = "counted" /\ at # "counted" => Cardinality(Counted') = Cardinality(Counted) - 1
<1>1. Counted \ {w} = Counted' \ {w}
  BY DEF Counted, Turned, Slides
<1>2. IsFiniteSet(Counted)
  <2>1. IsFiniteSet(Worker) /\ Counted \subseteq Worker
    BY WorkerFacts DEF Counted
  <2> QED BY <2>1, FS_Subset
<1>3. (w \in Counted <=> worker[w].at = "counted") /\ (w \in Counted' <=> at = "counted")
  BY DEF Counted, Turned
<1> QED BY <1>1, <1>2, <1>3, MemberChange

\* The runs and their count stay, and so do the workers that have yet to lower it.
LEMMA RunTurn ==
  ASSUME RunInv, NEW w \in Worker, NEW at, NEW task, NEW out, Turned(w, at, task, out),
         worker[w].at # "counted", at # "counted", at \in {"asleep", "woken"} => run[w] = <<>>,
         UNCHANGED <<run, stealable>>
  PROVE  RunInv'
<1>1. Cardinality(Counted') = Cardinality(Counted)
  BY CountedTurn
<1>2. Tasks(run') = Tasks(run)
  OBVIOUS
<1>3. ASSUME NEW v \in Worker, worker'[v].at \in {"asleep", "woken"}
      PROVE  run[v] = <<>>
  BY <1>3 DEF RunInv, Turned, Slides
<1> QED BY <1>1, <1>2, <1>3 DEF RunInv

\* Notifications move no task.
LEMMA RunNudge ==
  ASSUME RunInv, Nudged(worker, worker'), UNCHANGED <<run, stealable>>
  PROVE  RunInv'
<1>1. Counted' = Counted
  BY DEF Counted, Nudged, Slides
<1>2. Tasks(run') = Tasks(run) /\ Cardinality(Counted') = Cardinality(Counted)
  BY <1>1
<1>3. ASSUME NEW v \in Worker, worker'[v].at \in {"asleep", "woken"}
      PROVE  run[v] = <<>>
  BY <1>3 DEF RunInv, Nudged, Slides
<1> QED BY <1>2, <1>3 DEF RunInv

\* The steps that move tasks.
LEMMA RunTake ==
  ASSUME TypeInv, TypeInv', RunInv, NEW w \in Worker, Take(w)
  PROVE  RunInv'
<1>0. /\ run \in [Worker -> Seq(Task)] /\ run' \in [Worker -> Seq(Task)]
      /\ feed.tasks \in Seq(Task) /\ mode \in Modes
  BY DEF TypeInv
<1>r. RunTasks \in Nat \ {0}
  BY <1>0, ModeFacts
<1>1. ASSUME TakeOwn(w) PROVE RunInv'
  <2>1. Turned(w, "counted", Head(run[w]), worker[w].out)
    BY <1>1, FeedTurns
  <2>2. worker[w].at = "top" /\ run[w] # <<>> /\ stealable' = stealable
        /\ run' = [run EXCEPT ![w] = Tail(run[w])]
    BY <1>1 DEF TakeOwn, At
  <2>3. run'[w] = Tail(run[w]) /\ \A v \in Worker \ {w} : run'[v] = run[v]
    BY <1>0, <2>2
  <2>4. Len(run'[w]) = Len(run[w]) - 1
    BY <1>0, <2>2, <2>3
  <2>5. Tasks(run') \in Nat /\ Tasks(run) \in Nat /\ Tasks(run') = Tasks(run) - 1
        /\ Len(run[w]) \in Nat
    <3>1. /\ Tasks(run) \in Nat /\ Tasks(run') \in Nat /\ Len(run[w]) \in Nat
          /\ Tasks(run') = Tasks(run) - Len(run[w]) + Len(run'[w])
      BY <1>0, <2>3, OneRunChanges
    <3> QED BY <2>4, <3>1
  <2>6. Cardinality(Counted') = Cardinality(Counted) + 1 /\ Cardinality(Counted) \in Nat
    BY <2>1, <2>2, CountedTurn
  <2>7. stealable' = Tasks(run') + Cardinality(Counted')
    BY <2>2, <2>5, <2>6 DEF RunInv
  <2>8. ASSUME NEW v \in Worker
        PROVE  Len(run'[v]) < RunTasks /\ (worker'[v].at \in {"asleep", "woken"} => run'[v] = <<>>)
    <3>1. CASE v = w
      <4>1. Len(run[w]) < RunTasks /\ worker'[w].at = "counted"
        BY <2>1 DEF RunInv, Turned
      <4> QED BY <1>r, <2>4, <2>5, <3>1, <4>1
    <3>2. CASE v # w
      BY <2>1, <2>3, <3>2 DEF RunInv, Turned, Slides
    <3> QED BY <3>1, <3>2
  <2> QED BY <2>7, <2>8 DEF RunInv
<1>2. ASSUME CountOwn(w) PROVE RunInv'
  <2>1. Turned(w, "reserve", worker[w].task, worker[w].out)
    BY <1>2, FeedTurns
  <2>2. worker[w].at = "counted" /\ stealable' = stealable - 1 /\ run' = run
    BY <1>2 DEF CountOwn, At
  <2>3. Cardinality(Counted') = Cardinality(Counted) - 1 /\ Cardinality(Counted) \in Nat
    BY <2>1, <2>2, CountedTurn
  <2>4. Tasks(run) \in Nat
    BY <1>0, OneRunChanges
  <2>5. stealable' = Tasks(run') + Cardinality(Counted')
    BY <2>2, <2>3, <2>4 DEF RunInv
  <2>6. ASSUME NEW v \in Worker
        PROVE  worker'[v].at \in {"asleep", "woken"} => run[v] = <<>>
    BY <2>1, <2>2 DEF RunInv, Turned, Slides
  <2> QED BY <2>2, <2>5, <2>6 DEF RunInv
<1>3. ASSUME TakeFeed(w) PROVE RunInv'
  <2> DEFINE rest == Tail(feed.tasks)
             mine == SubSeq(rest, 1, Runs)
  <2>1. Turned(w, "reserve", Head(feed.tasks), worker[w].out)
    BY <1>3, FeedTurns
  <2>2. /\ worker[w].at # "counted" /\ run[w] = <<>> /\ feed.tasks # <<>>
        /\ stealable' = stealable + Runs /\ run' = [run EXCEPT ![w] = run[w] \o mine]
    BY <1>3 DEF TakeFeed, Taking, AtFeed, At, RunInv
  <2>3. Runs \in 0 .. (Len(feed.tasks) - 1) /\ Runs < RunTasks
    BY <2>2, RunsBounded
  <2>4. rest \in Seq(Task) /\ Len(rest) = Len(feed.tasks) - 1
    BY <1>0, <2>2
  <2>5. mine \in Seq(Task) /\ Len(mine) = Runs
    <3> HIDE DEF rest
    <3>1. Runs \in 0 .. Len(rest)
      BY <2>3, <2>4
    <3> QED BY <2>4, <3>1
  <2> HIDE DEF mine, rest
  <2>6. Len(run'[w]) = Runs /\ \A v \in Worker \ {w} : run'[v] = run[v]
    <3>1. run'[w] = run[w] \o mine
      BY <1>0, <2>2
    <3>2. Len(<<>> \o mine) = Len(mine)
      BY <2>5
    <3> QED BY <1>0, <2>2, <2>5, <3>1, <3>2
  <2>7. Tasks(run') \in Nat /\ Tasks(run) \in Nat /\ Tasks(run') = Tasks(run) + Runs
    <3>1. /\ Tasks(run) \in Nat /\ Tasks(run') \in Nat /\ Len(run[w]) \in Nat
          /\ Tasks(run') = Tasks(run) - Len(run[w]) + Len(run'[w])
      BY <1>0, <2>6, OneRunChanges
    <3>2. Len(run[w]) = 0
      BY <2>2
    <3> QED BY <2>6, <3>1, <3>2
  <2>8. Cardinality(Counted') = Cardinality(Counted) /\ Cardinality(Counted) \in Nat
    BY <2>1, <2>2, CountedTurn
  <2>9. stealable' = Tasks(run') + Cardinality(Counted')
    <3>1. stealable = Tasks(run) + Cardinality(Counted)
      BY DEF RunInv
    <3> QED BY <2>2, <2>3, <2>7, <2>8, <3>1
  <2>10. ASSUME NEW v \in Worker
         PROVE  Len(run'[v]) < RunTasks /\ (worker'[v].at \in {"asleep", "woken"} => run'[v] = <<>>)
    <3>1. CASE v = w
      BY <2>1, <2>3, <2>6, <3>1 DEF Turned
    <3>2. CASE v # w
      BY <2>1, <2>6, <3>2 DEF RunInv, Turned, Slides
    <3> QED BY <3>1, <3>2
  <2> QED BY <2>9, <2>10 DEF RunInv
<1>4. ASSUME Steal(w) PROVE RunInv'
  <2>1. PICK u \in Worker : Robs(w, u)
    BY <1>4, StealTurns
  <2> DEFINE theirs == run[u]
             half == Len(theirs) \div 2
             mine == SubSeq(theirs, half + 1, Len(theirs))
             near == SubSeq(theirs, 1, half)
             mid == [run EXCEPT ![u] = near]
  <2>2. /\ u # w /\ run[w] = <<>> /\ half \in Nat /\ half < Len(theirs)
        /\ mine \in Seq(Task) /\ mine # <<>> /\ Len(mine) = Len(theirs) - half
        /\ run' = [run EXCEPT ![u] = near, ![w] = Tail(mine)] /\ stealable' = stealable - 1
        /\ Turned(w, "reserve", Head(mine), worker[w].out)
    BY <2>1 DEF Robs
  <2>3. theirs \in Seq(Task) /\ Len(theirs) \in Nat
    BY <1>0
  <2>4. near \in Seq(Task) /\ Len(near) = half
    <3> HIDE DEF theirs, half
    <3> QED BY <2>2, <2>3
  <2>5. Tail(mine) \in Seq(Task) /\ Len(Tail(mine)) = Len(theirs) - half - 1
    <3> HIDE DEF mine, half, theirs
    <3>1. Tail(mine) \in Seq(Task) /\ Len(Tail(mine)) = Len(mine) - 1
      BY <2>2
    <3> QED BY <2>2, <3>1
  <2> HIDE DEF near, mine, half
  <2>6. /\ mid \in [Worker -> Seq(Task)] /\ mid[u] = near /\ mid[w] = run[w]
        /\ \A v \in Worker \ {u} : mid[v] = run[v]
    BY <1>0, <2>2, <2>4
  <2>7. /\ run'[w] = Tail(mine) /\ run'[u] = near /\ \A v \in Worker \ {w} : run'[v] = mid[v]
    BY <1>0, <2>2, <2>6
  <2> HIDE DEF mid
  <2>8. /\ Tasks(run) \in Nat /\ Tasks(mid) \in Nat
        /\ Tasks(mid) = Tasks(run) - Len(theirs) + half
    <3>1. /\ Tasks(run) \in Nat /\ Tasks(mid) \in Nat
          /\ Tasks(mid) = Tasks(run) - Len(run[u]) + Len(mid[u])
      BY <1>0, <2>6, OneRunChanges
    <3> QED BY <2>4, <2>6, <3>1
  <2>9. /\ Tasks(run') \in Nat /\ Tasks(run') = Tasks(mid) + (Len(theirs) - half - 1)
    <3>1. /\ Tasks(run') \in Nat /\ Tasks(mid) \in Nat
          /\ Tasks(run') = Tasks(mid) - Len(mid[w]) + Len(run'[w])
      BY <1>0, <2>6, <2>7, OneRunChanges
    <3>2. Len(mid[w]) = 0
      BY <2>2, <2>6
    <3>3. Len(run'[w]) = Len(theirs) - half - 1
      BY <2>5, <2>7
    <3> HIDE DEF theirs
    <3> QED BY <2>2, <2>3, <3>1, <3>2, <3>3
  <2> HIDE DEF theirs
  <2>10. worker[w].at # "counted"
    BY <1>4 DEF Steal, AtFeed, At
  <2>11. Cardinality(Counted') = Cardinality(Counted) /\ Cardinality(Counted) \in Nat
    BY <2>2, <2>10, CountedTurn
  <2>12. stealable' = Tasks(run') + Cardinality(Counted')
    <3>1. stealable = Tasks(run) + Cardinality(Counted)
      BY DEF RunInv
    <3>2. Tasks(run') = Tasks(run) - 1
      BY <2>2, <2>3, <2>8, <2>9
    <3> QED BY <2>2, <2>8, <2>11, <3>1, <3>2
  <2>13. ASSUME NEW v \in Worker
         PROVE  Len(run'[v]) < RunTasks /\ (worker'[v].at \in {"asleep", "woken"} => run'[v] = <<>>)
    <3>0. Len(theirs) < RunTasks
      BY DEF RunInv, theirs
    <3>1. CASE v = w
      <4>1. worker'[w].at = "reserve"
        BY <2>2 DEF Turned
      <4>2. Len(run'[w]) = Len(theirs) - half - 1
        BY <2>5, <2>7
      <4>3. Len(run'[w]) < RunTasks
        BY <1>r, <2>2, <2>3, <3>0, <4>2
      <4> QED BY <3>1, <4>1, <4>3
    <3>2. CASE v = u
      <4>1. Len(run'[u]) < RunTasks
        BY <1>r, <2>2, <2>3, <2>4, <2>7, <3>0
      <4>2. worker[u].at \notin {"asleep", "woken"}
        <5>1. run[u] # <<>>
          BY <2>2, <2>3 DEF theirs
        <5> QED BY <5>1 DEF RunInv
      <4>3. worker'[u].at \notin {"asleep", "woken"}
        BY <2>2, <4>2 DEF Turned, Slides
      <4> QED BY <3>2, <4>1, <4>3
    <3>3. CASE v # w /\ v # u
      <4>1. run'[v] = run[v]
        BY <2>6, <2>7, <3>3
      <4> QED BY <2>2, <3>3, <4>1 DEF RunInv, Turned, Slides
    <3> QED BY <3>1, <3>2, <3>3
  <2> QED BY <2>12, <2>13 DEF RunInv
<1>5. ASSUME TakeNothing(w) PROVE RunInv'
  <2> DEFINE at == IF feed.closed THEN "flush" ELSE "asleep"
  <2>1. Turned(w, at, worker[w].task, worker[w].out)
    BY <1>5, FeedTurns
  <2>2. worker[w].at # "counted" /\ run[w] = <<>> /\ UNCHANGED <<run, stealable>>
    BY <1>5 DEF TakeNothing, AtFeed, At, RunInv, feedVars
  <2>3. at # "counted"
    OBVIOUS
  <2> HIDE DEF at
  <2> QED BY <2>1, <2>2, <2>3, RunTurn
<1> QED BY <1>1, <1>2, <1>3, <1>4, <1>5 DEF Take

----------------------------------------------------------------------------
(* A worker that is not at the feed.                                       *)

AtFeedOnly == {"counted", "asleep", "woken"}

\* A step that neither starts nor ends at the feed, and takes nothing from it.
Elsewhere(w) ==
  /\ worker[w].at \notin AtFeedOnly
  /\ \E at, task, out : at \notin AtFeedOnly /\ Turned(w, at, task, out)
  /\ UNCHANGED <<run, stealable, mode>>
  /\ UNCHANGED feed \/ feed'.closed

Worked(w) ==
  \/ Reserve(w) \/ ReserveWait(w) \/ Park(w) \/ Unpark(w) \/ AdmitReader(w) \/ Work(w)
  \/ Handoff(w) \/ HandoffSend(w) \/ StreamEnd(w) \/ Hand(w) \/ Send(w) \/ StopWork(w)
  \/ Flush(w) \/ SendLast(w) \/ Leave(w) \/ Unwind(w) \/ HaltWake(w) \/ Panic(w)

\* A worker with a task in hand is nowhere near the feed.
LEMMA WorkedElsewhere ==
  ASSUME TypeInv, LaneInv, NEW w \in Worker, Worked(w)
  PROVE  Elsewhere(w)
<1>1. worker[w].at \notin AtFeedOnly
  BY DEF Worked, Reserve, ReserveWait, Park, Unpark, AdmitReader, Work, Handoff, HandoffSend,
         StreamEnd, Hand, Send, StopWork, Flush, SendLast, Leave, Unwind, HaltWake, Panic, At,
         AtFeedOnly
<1>2. UNCHANGED <<run, stealable, mode>>
  BY DEF Worked, Reserve, ReserveWait, Park, Unpark, AdmitReader, Work, Handoff, HandoffSend,
         StreamEnd, Hand, Handing, Send, StopWork, Flush, SendLast, Leave, Unwind, HaltWake,
         Panic, feedVars, flagVars
<1>3. UNCHANGED feed \/ feed'.closed
  <2>1. CASE Leave(w)
    <3>1. prod \in ProdRecord
      BY DEF TypeInv
    <3> QED BY <2>1, <3>1, CloseType DEF Leave
  <2>2. CASE Unwind(w)
    <3>1. prod \in ProdRecord
      BY DEF TypeInv
    <3> QED BY <2>2, <3>1, CloseType DEF Unwind
  <2>3. CASE ~Leave(w) /\ ~Unwind(w)
    BY <2>3 DEF Worked, Reserve, ReserveWait, Park, Unpark, AdmitReader, Work, Handoff,
         HandoffSend, StreamEnd, Hand, Handing, Send, StopWork, Flush, SendLast, HaltWake,
         Panic, feedVars
  <2> QED BY <2>1, <2>2, <2>3
<1>4. \E at, task, out : at \notin AtFeedOnly /\ Turned(w, at, task, out)
  <2> USE DEF AtFeedOnly
  <2>1. ASSUME Reserve(w) PROVE \E at, task, out : at \notin AtFeedOnly /\ Turned(w, at, task, out)
    <3>1. CASE Turned(w, "flush", None, worker[w].out)
      BY <3>1
    <3>2. CASE Turned(w, "read", worker[w].task, worker[w].out)
      BY <3>2
    <3>3. CASE Turned(w, "admit", worker[w].task, worker[w].out)
      BY <3>3
    <3> QED BY <2>1, <3>1, <3>2, <3>3, BudgetTurns
  <2>2. ASSUME ReserveWait(w) \/ Park(w) \/ Unpark(w)
        PROVE  \E at, task, out : at \notin AtFeedOnly /\ Turned(w, at, task, out)
    <3>1. CASE Turned(w, "parking", worker[w].task, worker[w].out)
      BY <3>1
    <3>2. CASE Turned(w, "parked", worker[w].task, worker[w].out)
      BY <3>2
    <3>3. CASE Turned(w, "reserve", worker[w].task, worker[w].out)
      BY <3>3
    <3> QED BY <2>2, <3>1, <3>2, <3>3, BudgetTurns
  <2>3. ASSUME AdmitReader(w) \/ Work(w) \/ StreamEnd(w) \/ Panic(w)
        PROVE  \E at, task, out : at \notin AtFeedOnly /\ Turned(w, at, task, out)
    <3>1. CASE Turned(w, "read", worker[w].task, worker[w].out)
      BY <3>1
    <3>2. CASE Turned(w, "worked", worker[w].task, worker[w].out)
      BY <3>2
    <3>3. CASE Turned(w, "unwinding", worker[w].task, worker[w].out)
      BY <3>3
    <3> QED BY <2>3, <3>1, <3>2, <3>3, BudgetTurns
  <2>4. ASSUME Handoff(w)
        PROVE  \E at, task, out : at \notin AtFeedOnly /\ Turned(w, at, task, out)
    <3>1. PICK out : Turned(w, "handoff", worker[w].task, out)
      BY <2>4, HandoffTurns
    <3> QED BY <3>1
  <2>5. ASSUME HandoffSend(w)
        PROVE  \E at, task, out : at \notin AtFeedOnly /\ Turned(w, at, task, out)
    <3>1. PICK at, out :
            at \in {"worked", "stream", "handoff"} /\ Turned(w, at, worker[w].task, out)
      BY <2>5, HandoffTurns
    <3>2. at \notin AtFeedOnly
      BY <3>1
    <3> QED BY <3>1, <3>2
  <2>6. ASSUME Hand(w)
        PROVE  \E at, task, out : at \notin AtFeedOnly /\ Turned(w, at, task, out)
    <3>1. PICK at, out :
            at \in {"flush", "top", "send"} /\ Turned(w, at, None, out)
      BY <2>6, HandTurns
    <3>2. at \notin AtFeedOnly
      BY <3>1
    <3> QED BY <3>1, <3>2
  <2>7. ASSUME Send(w)
        PROVE  \E at, task, out : at \notin AtFeedOnly /\ Turned(w, at, task, out)
    <3>1. PICK at, out :
            at \in {"flush", "top", "send"} /\ Turned(w, at, worker[w].task, out)
      BY <2>7, SendTurns
    <3>2. at \notin AtFeedOnly
      BY <3>1
    <3> QED BY <3>1, <3>2
  <2>8. ASSUME SendLast(w) \/ StopWork(w)
        PROVE  \E at, task, out : at \notin AtFeedOnly /\ Turned(w, at, task, out)
    <3>1. CASE Turned(w, "leave", worker[w].task, <<>>)
      BY <3>1
    <3>2. CASE Turned(w, "flush", worker[w].task, worker[w].out)
      BY <3>2
    <3> QED BY <2>8, <3>1, <3>2, SendTurns, FeedTurns
  <2>9. ASSUME Flush(w)
        PROVE  \E at, task, out : at \notin AtFeedOnly /\ Turned(w, at, task, out)
    <3>1. PICK at, task, out :
            at \in {"leave", "sendlast"} /\ Turned(w, at, task, out)
      BY <2>9, LeaveTurns
    <3>2. at \notin AtFeedOnly
      BY <3>1
    <3> QED BY <3>1, <3>2
  <2>10. ASSUME Leave(w) \/ Unwind(w) \/ HaltWake(w)
         PROVE  \E at, task, out : at \notin AtFeedOnly /\ Turned(w, at, task, out)
    <3>1. CASE Turned(w, "gone", worker[w].task, worker[w].out)
      BY <3>1
    <3>2. CASE Turned(w, "halting", None, worker[w].out)
      BY <3>2
    <3> QED BY <2>10, <3>1, <3>2, LeaveTurns
  <2> HIDE DEF AtFeedOnly
  <2> QED BY <2>1, <2>2, <2>3, <2>4, <2>5, <2>6, <2>7, <2>8, <2>9, <2>10 DEF Worked
<1> QED BY <1>1, <1>2, <1>3, <1>4 DEF Elsewhere

\* Who steps.
LEMMA Steps ==
  ASSUME [Next]_vars
  PROVE  \/ Produce \/ CallerStep \/ Cancel \/ UNCHANGED vars
         \/ \E w \in Worker : Take(w) \/ Worked(w)
BY DEF Next, Returned, WorkerStep, Worked

\* Every step keeps stealable exact.
LEMMA RunStep ==
  ASSUME TypeInv, TypeInv', RunInv, LaneInv, [Next]_vars
  PROVE  RunInv'
<1>1. ASSUME Produce \/ CallerStep \/ Cancel \/ UNCHANGED vars PROVE RunInv'
  <2>1. Nudged(worker, worker')
    BY <1>1, OthersNotify
  <2>2. UNCHANGED <<run, stealable>>
    <3>1. CASE Produce
      BY <3>1 DEF Produce, Admit, Gather, PushDue, PushFull, PushLast, Abandon, Roused,
                  ProducerEnd, Push, feedVars
    <3>2. CASE CallerStep
      BY <3>2 DEF CallerStep, Collect, Collecting, Sweep, Publish, StreamDone, End, Halt, Join,
                  CloseUnfed, Alone, feedVars
    <3>3. CASE Cancel \/ UNCHANGED vars
      BY <3>3 DEF Cancel, vars, feedVars
    <3> QED BY <1>1, <3>1, <3>2, <3>3
  <2> QED BY <2>1, <2>2, RunNudge
<1>2. ASSUME NEW w \in Worker, Take(w) PROVE RunInv'
  BY <1>2, RunTake
<1>3. ASSUME NEW w \in Worker, Worked(w) PROVE RunInv'
  <2>1. Elsewhere(w)
    BY <1>3, WorkedElsewhere
  <2>2. PICK at, task, out : at \notin AtFeedOnly /\ Turned(w, at, task, out)
    BY <2>1 DEF Elsewhere
  <2>3. /\ worker[w].at # "counted" /\ at # "counted" /\ at \notin {"asleep", "woken"}
        /\ UNCHANGED <<run, stealable>>
    BY <2>1, <2>2 DEF Elsewhere, AtFeedOnly
  <2> QED BY <2>2, <2>3, RunTurn
<1> QED BY <1>1, <1>2, <1>3, Steps

----------------------------------------------------------------------------
(* What workers and slots hold.                                            *)

\* Weights are those of the mode, which no step changes.
LEMMA SlotsKept ==
  ASSUME mode' = mode, NEW w, SlotExact(held'[w])
  PROVE  SlotExact(held[w])'
BY DEF SlotExact, Weights

\* A turn that leaves its worker what its place calls for keeps the lanes.
LEMMA LaneTurn ==
  ASSUME TypeInv, LaneInv, NEW w \in Worker, NEW at, NEW task, NEW out,
         Turned(w, at, task, out), InHand(at, out), at \in HasTask => task \in Task,
         UNCHANGED <<mode, caller>>,
         held' = held \/ \E slot : SlotExact(slot) /\ held' = [held EXCEPT ![w] = slot]
  PROVE  LaneInv'
<1>0. held \in [Worker -> SlotRecord]
  BY DEF TypeInv
<1>1. \A v \in Worker : SlotExact(held[v])
  BY DEF LaneInv
<1>2. ASSUME NEW v \in Worker PROVE SlotExact(held'[v])
  <2>1. CASE held' = held
    BY <1>1, <2>1
  <2>2. CASE held' # held
    <3>1. PICK slot : SlotExact(slot) /\ held' = [held EXCEPT ![w] = slot]
      BY <2>2
    <3> QED BY <1>0, <1>1, <3>1
  <2> QED BY <2>1, <2>2
<1>3. ASSUME NEW v \in Worker PROVE SlotExact(held[v])'
  BY <1>2, SlotsKept
<1>4. ASSUME NEW v \in Worker
      PROVE  /\ worker'[v].at \in HasTask => worker'[v].task \in Task
             /\ worker'[v].at \in {"handoff", "send", "sendlast"} => worker'[v].out # <<>>
             /\ Len(worker'[v].out) <= 2
  <2>1. CASE v = w
    BY <2>1 DEF Turned, InHand
  <2>2. CASE v # w
    BY <2>2 DEF Turned, Slides, LaneInv, HasTask, HoldsBytes, WaitsBytes
  <2> QED BY <2>1, <2>2
<1> QED BY <1>3, <1>4 DEF LaneInv

\* Notifications, and a sweep of a slot, keep the lanes.
LEMMA LaneNudge ==
  ASSUME TypeInv, LaneInv, Nudged(worker, worker'), UNCHANGED mode,
         caller'.at \in {"publish", "stream"} => caller'.batch # <<>>,
         held' = held \/ \E w \in Worker : held' = [held EXCEPT ![w] = NoneHeld]
  PROVE  LaneInv'
<1>0. held \in [Worker -> SlotRecord] /\ mode \in Modes
  BY DEF TypeInv
<1>1. (\A v \in Worker : SlotExact(held[v])) /\ SlotExact(NoneHeld)
  BY <1>0, NoneHeldExact DEF LaneInv
<1>2. ASSUME NEW v \in Worker PROVE SlotExact(held'[v])
  BY <1>0, <1>1
<1>3. ASSUME NEW v \in Worker PROVE SlotExact(held[v])'
  BY <1>2, SlotsKept
<1>4. ASSUME NEW v \in Worker
      PROVE  /\ worker'[v].at \in HasTask => worker'[v].task \in Task
             /\ worker'[v].at \in {"handoff", "send", "sendlast"} => worker'[v].out # <<>>
             /\ Len(worker'[v].out) <= 2
  BY DEF Nudged, Slides, LaneInv, HasTask, HoldsBytes, WaitsBytes
<1> QED BY <1>3, <1>4 DEF LaneInv

\* The workers' steps keep the lanes.
LEMMA LaneWorker ==
  ASSUME TypeInv, LaneInv, RunInv, NEW w \in Worker, Take(w) \/ Worked(w)
  PROVE  LaneInv'
<1> DEFINE task == worker[w].task
           out == worker[w].out
<1>o. ASSUME NEW at, at \notin {"handoff", "send", "sendlast"}
      PROVE  InHand(at, worker[w].out) /\ InHand(at, <<>>)
  <2>1. out \in Seq(Batch) /\ Len(out) <= 2
    BY DEF TypeInv, WorkerRecord, LaneInv
  <2>2. <<>> \in Seq(Batch) /\ Len(<<>>) <= 2
    BY Batches
  <2> QED BY <1>o, <2>1, <2>2 DEF InHand
<1>k. worker[w].at \in HasTask => task \in Task
  BY DEF LaneInv
<1>n. SlotExact(NoneHeld)
  BY NoneHeldExact DEF TypeInv
<1>u. /\ (TakeOwn(w) \/ CountOwn(w) \/ TakeFeed(w) \/ Steal(w) \/ TakeNothing(w)) =>
           UNCHANGED <<mode, caller, held>>
      /\ (Reserve(w) \/ ReserveWait(w) \/ Park(w) \/ Unpark(w) \/ AdmitReader(w) \/ Work(w)
           \/ HandoffSend(w) \/ StreamEnd(w) \/ Panic(w)) =>
           UNCHANGED <<mode, caller, held>>
      /\ (Send(w) \/ StopWork(w) \/ SendLast(w) \/ Leave(w) \/ Unwind(w) \/ HaltWake(w)) =>
           UNCHANGED <<mode, caller, held>>
      /\ (Handoff(w) \/ Flush(w)) =>
           UNCHANGED <<mode, caller>> /\ held' = [held EXCEPT ![w] = NoneHeld]
      /\ Hand(w) => UNCHANGED <<mode, caller>>
  <2>1. (TakeOwn(w) \/ CountOwn(w) \/ TakeFeed(w) \/ Steal(w) \/ TakeNothing(w)) =>
           UNCHANGED <<mode, caller, held>>
    BY DEF TakeOwn, CountOwn, TakeFeed, Taking, Steal, TakeNothing, laneVars, flagVars
  <2>2. (Reserve(w) \/ ReserveWait(w) \/ Park(w) \/ Unpark(w) \/ AdmitReader(w) \/ Work(w)
           \/ HandoffSend(w) \/ StreamEnd(w) \/ Panic(w)) =>
           UNCHANGED <<mode, caller, held>>
    BY DEF Reserve, ReserveWait, Park, Unpark, AdmitReader, Work, HandoffSend, StreamEnd, Panic,
           flagVars
  <2>3. (Send(w) \/ StopWork(w) \/ SendLast(w) \/ Leave(w) \/ Unwind(w) \/ HaltWake(w)) =>
           UNCHANGED <<mode, caller, held>>
    BY DEF Send, StopWork, SendLast, Leave, Unwind, HaltWake, laneVars, flagVars
  <2>4. (Handoff(w) \/ Flush(w)) =>
           UNCHANGED <<mode, caller>> /\ held' = [held EXCEPT ![w] = NoneHeld]
    BY DEF Handoff, Flush, flagVars
  <2>5. Hand(w) => UNCHANGED <<mode, caller>>
    BY DEF Hand, Handing, flagVars
  <2> QED BY <2>1, <2>2, <2>3, <2>4, <2>5
<1>s. ASSUME NEW at, at \notin {"handoff", "send", "sendlast"}, NEW t, NEW o \in {out, <<>>},
             Turned(w, at, t, o), at \in HasTask => t \in Task, UNCHANGED <<mode, caller, held>>
      PROVE  LaneInv'
  <2>1. InHand(at, o)
    BY <1>o, <1>s
  <2> QED BY <1>s, <2>1, LaneTurn
<1>1. ASSUME TakeOwn(w) PROVE LaneInv'
  BY <1>1, <1>s, <1>u, FeedTurns
<1>2. ASSUME CountOwn(w) PROVE LaneInv'
  <2>1. task \in Task
    BY <1>2, <1>k DEF CountOwn, At, HasTask
  <2> QED BY <1>2, <1>s, <1>u, <2>1, FeedTurns
<1>3. ASSUME TakeFeed(w) PROVE LaneInv'
  BY <1>3, <1>s, <1>u, FeedTurns
<1>4. ASSUME Steal(w) PROVE LaneInv'
  <2>1. PICK u \in Worker : Robs(w, u)
    BY <1>4, StealTurns
  <2>2. PICK t \in Task : Turned(w, "reserve", t, worker[w].out)
    BY <2>1 DEF Robs
  <2> QED BY <1>4, <1>s, <1>u, <2>2
<1>5. ASSUME TakeNothing(w) PROVE LaneInv'
  <2>1. PICK at \in {"flush", "asleep"} : Turned(w, at, worker[w].task, worker[w].out)
    BY <1>5, FeedTurns
  <2>2. at \notin HasTask /\ at \notin {"handoff", "send", "sendlast"}
    BY DEF HasTask, HoldsBytes, WaitsBytes
  <2> QED BY <1>5, <1>s, <1>u, <2>1, <2>2
<1>6. ASSUME Reserve(w) PROVE LaneInv'
  <2>1. task \in Task
    BY <1>6, <1>k DEF Reserve, At, HasTask
  <2>2. PICK at, t :
          /\ at \in {"flush", "read", "admit"} /\ (at # "flush" => t = task)
          /\ Turned(w, at, t, worker[w].out)
    BY <1>6, BudgetTurns
  <2>3. (at \in HasTask => t \in Task) /\ at \notin {"handoff", "send", "sendlast"}
    BY <2>1, <2>2 DEF HasTask, HoldsBytes, WaitsBytes
  <2> QED BY <1>6, <1>s, <1>u, <2>2, <2>3
<1>7. ASSUME ReserveWait(w) \/ Park(w) \/ Unpark(w) PROVE LaneInv'
  <2>1. task \in Task
    BY <1>7, <1>k DEF ReserveWait, Park, Unpark, At, HasTask, WaitsBytes
  <2>2. PICK at \in {"parking", "parked", "reserve"} : Turned(w, at, worker[w].task, worker[w].out)
    BY <1>7, BudgetTurns
  <2> QED BY <1>7, <1>s, <1>u, <2>1, <2>2
<1>8. ASSUME AdmitReader(w) \/ Work(w) \/ StreamEnd(w) \/ Panic(w) PROVE LaneInv'
  <2>1. task \in Task
    BY <1>8, <1>k DEF AdmitReader, Work, StreamEnd, Panic, At, HasTask, HoldsBytes
  <2>2. PICK at \in {"read", "worked", "unwinding"} : Turned(w, at, worker[w].task, worker[w].out)
    BY <1>8, BudgetTurns
  <2> QED BY <1>8, <1>s, <1>u, <2>1, <2>2
<1>9. ASSUME Handoff(w) PROVE LaneInv'
  <2>1. task \in Task
    BY <1>9, <1>k DEF Handoff, At, HasTask, HoldsBytes
  <2>2. PICK o \in Seq(Batch) : InHand("handoff", o) /\ Turned(w, "handoff", worker[w].task, o)
    BY <1>9, HandoffTurns
  <2> QED BY <1>9, <1>n, <1>u, <2>1, <2>2, LaneTurn
<1>10. ASSUME HandoffSend(w) PROVE LaneInv'
  <2>1. task \in Task
    BY <1>10, <1>k DEF HandoffSend, At, HasTask, HoldsBytes
  <2>2. CASE Turned(w, "worked", worker[w].task, <<>>)
    BY <1>10, <1>s, <1>u, <2>1, <2>2
  <2>3. CASE \E at \in {"stream", "handoff"}, o \in Seq(Batch) :
               InHand(at, o) /\ Turned(w, at, worker[w].task, o)
    BY <1>10, <1>u, <2>1, <2>3, LaneTurn
  <2> QED BY <1>10, <2>2, <2>3, HandoffTurns
<1>11. ASSUME Hand(w) PROVE LaneInv'
  <2>1. PICK at \in {"flush", "top", "send"}, o \in Seq(Batch) :
          InHand(at, o) /\ Turned(w, at, None, o)
    BY <1>11, HandTurns
  <2>2. \E slot : SlotExact(slot) /\ held' = [held EXCEPT ![w] = slot]
    BY <1>11, HandTurns
  <2>3. at \notin HasTask
    BY DEF HasTask, HoldsBytes, WaitsBytes
  <2> QED BY <1>11, <1>u, <2>1, <2>2, <2>3, LaneTurn
<1>12. ASSUME Send(w) PROVE LaneInv'
  <2>1. PICK at, o :
          at \in {"flush", "top", "send"} /\ InHand(at, o) /\ Turned(w, at, worker[w].task, o)
    <3>1. InHand("flush", <<>>)
      BY <1>o
    <3> QED BY <1>12, <3>1, SendTurns
  <2>2. at \notin HasTask
    BY <2>1 DEF HasTask, HoldsBytes, WaitsBytes
  <2> QED BY <1>12, <1>u, <2>1, <2>2, LaneTurn
<1>13. ASSUME StopWork(w) \/ SendLast(w) PROVE LaneInv'
  <2>1. PICK at \in {"flush", "leave"}, o \in {out, <<>>} : Turned(w, at, worker[w].task, o)
    BY <1>13, FeedTurns, SendTurns
  <2>2. at \notin HasTask /\ at \notin {"handoff", "send", "sendlast"}
    BY DEF HasTask, HoldsBytes, WaitsBytes
  <2> QED BY <1>13, <1>s, <1>u, <2>1, <2>2
<1>14. ASSUME Flush(w) PROVE LaneInv'
  <2>1. PICK at, t, o :
          at \in {"leave", "sendlast"} /\ InHand(at, o) /\ Turned(w, at, t, o)
    BY <1>14, LeaveTurns
  <2>2. at \notin HasTask
    BY <2>1 DEF HasTask, HoldsBytes, WaitsBytes
  <2> QED BY <1>14, <1>n, <1>u, <2>1, <2>2, LaneTurn
<1>15. ASSUME Leave(w) \/ Unwind(w) \/ HaltWake(w) PROVE LaneInv'
  <2>1. PICK at, t : at \in {"gone", "halting"} /\ Turned(w, at, t, worker[w].out)
    BY <1>15, LeaveTurns
  <2>2. at \notin HasTask /\ at \notin {"handoff", "send", "sendlast"}
    BY <2>1 DEF HasTask, HoldsBytes, WaitsBytes
  <2> QED BY <1>15, <1>s, <1>u, <2>1, <2>2
<1> QED BY <1>1, <1>2, <1>3, <1>4, <1>5, <1>6, <1>7, <1>8, <1>9, <1>10, <1>11, <1>12, <1>13,
           <1>14, <1>15 DEF Take, Worked

\* Every step keeps the lanes.
LEMMA LaneStep ==
  ASSUME TypeInv, LaneInv, RunInv, [Next]_vars
  PROVE  LaneInv'
<1>1. ASSUME Produce \/ CallerStep \/ Cancel \/ UNCHANGED vars PROVE LaneInv'
  <2>0. caller \in CallerRecord /\ queue \in Seq(Batch) /\ mode \in Modes
    BY DEF TypeInv
  <2>1. Nudged(worker, worker')
    BY <1>1, OthersNotify
  <2>c. caller.at \in {"publish", "stream"} => caller.batch # <<>>
    BY DEF LaneInv
  <2>2. CASE Produce
    <3>1. UNCHANGED <<mode, caller, held>>
      BY <2>2 DEF Produce, Admit, Gather, PushDue, PushFull, PushLast, Abandon, Roused,
                  ProducerEnd, Push, laneVars, flagVars
    <3> QED BY <2>1, <2>c, <3>1, LaneNudge
  <2>3. CASE Cancel \/ UNCHANGED vars
    <3>1. UNCHANGED <<mode, caller, held>>
      BY <2>3 DEF Cancel, vars, laneVars
    <3> QED BY <2>1, <2>c, <3>1, LaneNudge
  <2>4. ASSUME Collect PROVE LaneInv'
    <3>1. UNCHANGED <<mode, held>>
      BY <2>4 DEF Collect, Collecting, flagVars
    <3>2. caller'.at \in {"publish", "stream"} => caller'.batch # <<>>
      <4>1. CASE queue # <<>>
        <5>1. Head(queue) \in Batch
          BY <2>0, <4>1
        <5>2. caller'.batch = Head(queue)
          BY <2>0, <2>4, <4>1 DEF Collect, Collecting, Receives, CallerRecord
        <5> QED BY <5>1, <5>2 DEF Batch
      <4>2. CASE queue = <<>>
        BY <2>0, <2>4, <4>2 DEF Collect, Collecting, CallerRecord
      <4> QED BY <4>1, <4>2
    <3> QED BY <2>1, <3>1, <3>2, LaneNudge
  <2>5. ASSUME Sweep PROVE LaneInv'
    <3>1. mode' = mode /\ held' = [held EXCEPT ![caller.slot] = NoneHeld]
      BY <2>5 DEF Sweep, flagVars
    <3>2. caller.slot \in Worker
      BY <2>0 DEF CallerRecord
    <3>3. caller'.at \in {"publish", "stream"} => caller'.batch # <<>>
      BY <2>0, <2>5 DEF Sweep, CallerRecord
    <3> QED BY <2>1, <3>1, <3>2, <3>3, LaneNudge
  <2>6. ASSUME Publish \/ StreamDone PROVE LaneInv'
    <3>1. UNCHANGED <<mode, held>>
      BY <2>6 DEF Publish, StreamDone
    <3>2. caller.at \in {"publish", "stream"}
      BY <2>6 DEF Publish, StreamDone, Publishing
    <3>3. \A breaks \in mode.breaks : breaks \in BOOLEAN
      <4>1. mode.breaks = {FALSE} \/ mode.breaks = BOOLEAN
        BY <2>0, ModeFacts
      <4> QED BY <4>1
    <3>4. \A breaks \in mode.breaks :
            Emitted(breaks).at \in {"publish", "stream"} => Emitted(breaks).batch # <<>>
      BY <3>2, <3>3, EmittedType
    <3>5. \/ \E breaks \in mode.breaks : caller' = Emitted(breaks)
          \/ caller' = [caller EXCEPT !.batch = <<>>, !.at = "ending"]
          \/ caller' = [caller EXCEPT !.at = "stream"]
      BY <2>6 DEF Publish, StreamDone
    <3>6. caller'.at \in {"publish", "stream"} => caller'.batch # <<>>
      <4>1. CASE \E breaks \in mode.breaks : caller' = Emitted(breaks)
        BY <3>4, <4>1
      <4>2. CASE caller' = [caller EXCEPT !.batch = <<>>, !.at = "ending"]
        BY <2>0, <4>2 DEF CallerRecord
      <4>3. CASE caller' = [caller EXCEPT !.at = "stream"]
        BY <2>0, <2>c, <3>2, <4>3 DEF CallerRecord
      <4> QED BY <3>5, <4>1, <4>2, <4>3
    <3> QED BY <2>1, <3>1, <3>6, LaneNudge
  <2>7. ASSUME End \/ Halt \/ Join \/ CloseUnfed \/ Alone PROVE LaneInv'
    <3>1. UNCHANGED <<mode, held>>
      BY <2>7 DEF End, Halt, Join, CloseUnfed, Alone, flagVars
    <3>2. caller'.at \in {"waking", "joining", "returned", "alone", "ending"}
      BY <2>0, <2>7 DEF End, Halt, Join, CloseUnfed, Alone, CallerRecord
    <3> QED BY <2>1, <3>1, <3>2, LaneNudge
  <2> QED BY <1>1, <2>2, <2>3, <2>4, <2>5, <2>6, <2>7 DEF CallerStep
<1>2. ASSUME NEW w \in Worker, Take(w) \/ Worked(w) PROVE LaneInv'
  BY <1>2, LaneWorker
<1> QED BY <1>1, <1>2, Steps

----------------------------------------------------------------------------
(* The bytes in flight and the workers that wait for some.                 *)

\* What a worker at this place, with this task, has reserved; and all of it.
Share(at, task) == IF at \in HoldsBytes THEN Reserves(task) ELSE 0

InUse == Cardinality(Pool(Worker, ByteSlots))

\* A reservation is capped at the whole budget.
LEMMA ReservesFacts ==
  ASSUME mode \in Modes, NEW t \in Task
  PROVE  Reserves(t) \in Nat /\ Reserves(t) <= Bytes /\ Bytes \in Nat
<1> DEFINE a == mode.size[t]
<1>1. a \in Nat /\ Bytes \in Nat
  BY ModeFacts, LaneAssumption
<1>2. {a, Bytes} \in SUBSET Nat /\ {a, Bytes} # {} /\ Reserves(t) = Min({a, Bytes})
  BY <1>1 DEF Reserves
<1> HIDE DEF a
<1>3. Min({a, Bytes}) \in {a, Bytes} /\ \A i \in {a, Bytes} : Min({a, Bytes}) <= i
  BY <1>2, MinIn
<1> QED BY <1>1, <1>2, <1>3

\* One worker's turn changes the bytes in use by the change of its share.
LEMMA ByteTurn ==
  ASSUME TypeInv, LaneInv, LaneInv', NEW w \in Worker, NEW at, NEW task, NEW out,
         Turned(w, at, task, out), UNCHANGED mode
  PROVE  LET old == Share(worker[w].at, worker[w].task)
             new == Share(at, task)
         IN  /\ InUse \in Nat /\ InUse' \in Nat /\ old \in Nat /\ new \in Nat
             /\ old <= InUse /\ InUse' = InUse - old + new
<1> DEFINE S == ByteSlots
           T == ByteSlots'
           old == Share(worker[w].at, worker[w].task)
           new == Share(at, task)
<1>0. mode \in Modes /\ HoldsBytes \subseteq HasTask
  BY DEF TypeInv, HasTask
<1>1. \A v \in Worker :
        /\ S[v] = IF worker[v].at \in HoldsBytes THEN 1 .. Reserves(worker[v].task) ELSE {}
        /\ T[v] = IF worker'[v].at \in HoldsBytes THEN 1 .. Reserves(worker'[v].task) ELSE {}
  BY DEF ByteSlots, Reserves
<1>2. \A v \in Worker :
        /\ worker[v].at \in HoldsBytes => worker[v].task \in Task
        /\ worker'[v].at \in HoldsBytes => worker'[v].task \in Task
  BY <1>0 DEF LaneInv
<1>3. \A v \in Worker :
        /\ worker[v].at \in HoldsBytes => Reserves(worker[v].task) \in Nat
        /\ worker'[v].at \in HoldsBytes => Reserves(worker'[v].task) \in Nat
  BY <1>0, <1>2, ReservesFacts
<1>4. \A v \in Worker :
        /\ IsFiniteSet(S[v]) /\ Cardinality(S[v]) = Share(worker[v].at, worker[v].task)
        /\ IsFiniteSet(T[v]) /\ Cardinality(T[v]) = Share(worker'[v].at, worker'[v].task)
  <2> HIDE DEF S, T
  <2>1. IsFiniteSet({}) /\ Cardinality({}) = 0
    BY FS_EmptySet
  <2>2. ASSUME NEW v \in Worker
        PROVE  IsFiniteSet(S[v]) /\ Cardinality(S[v]) = Share(worker[v].at, worker[v].task)
    <3>1. CASE worker[v].at \in HoldsBytes
      BY <1>1, <1>3, <3>1, IntervalSize DEF Share
    <3>2. CASE worker[v].at \notin HoldsBytes
      BY <1>1, <2>1, <3>2 DEF Share
    <3> QED BY <3>1, <3>2
  <2>3. ASSUME NEW v \in Worker
        PROVE  IsFiniteSet(T[v]) /\ Cardinality(T[v]) = Share(worker'[v].at, worker'[v].task)
    <3>1. CASE worker'[v].at \in HoldsBytes
      BY <1>1, <1>3, <3>1, IntervalSize DEF Share
    <3>2. CASE worker'[v].at \notin HoldsBytes
      BY <1>1, <2>1, <3>2 DEF Share
    <3> QED BY <3>1, <3>2
  <2> QED BY <2>2, <2>3
<1>5. \A v \in Worker \ {w} : T[v] = S[v]
  <2>1. ASSUME NEW v \in Worker \ {w}
        PROVE  /\ worker'[v].task = worker[v].task
               /\ worker'[v].at \in HoldsBytes <=> worker[v].at \in HoldsBytes
    BY DEF Turned, Slides, HoldsBytes
  <2> HIDE DEF S, T
  <2> QED BY <1>1, <2>1
<1>6. IsFiniteSet(Worker)
  BY WorkerFacts
<1>7. PoolMoves(Worker, S, T, w)
  <2> HIDE DEF S, T
  <2>1. OneChanges(Worker, S, T, w)
    BY <1>4, <1>5, <1>6 DEF OneChanges
  <2> QED BY <2>1, PoolChange
<1>8. Cardinality(S[w]) = old /\ Cardinality(T[w]) = new
  <2>1. worker'[w].at = at /\ worker'[w].task = task
    BY DEF Turned
  <2> HIDE DEF S, T
  <2> QED BY <1>4, <2>1
<1>9. InUse = Cardinality(Pool(Worker, S)) /\ InUse' = Cardinality(Pool(Worker, T))
  BY DEF InUse
<1> HIDE DEF S, T, old, new
<1>10. /\ InUse \in Nat /\ InUse' \in Nat /\ old \in Nat /\ new \in Nat
       /\ old <= InUse /\ InUse' = InUse - old + new
  BY <1>7, <1>8, <1>9 DEF PoolMoves
<1> QED BY <1>10 DEF old, new

\* How the number of waiting workers changes with one worker's turn.
LEMMA WaitersTurn ==
  ASSUME NEW w \in Worker, NEW at, NEW task, NEW out, Turned(w, at, task, out)
  PROVE  /\ Cardinality(Waiters) \in Nat /\ Cardinality(Waiters') \in Nat
         /\ (worker[w].at \in WaitsBytes <=> at \in WaitsBytes) =>
              Cardinality(Waiters') = Cardinality(Waiters)
         /\ worker[w].at \notin WaitsBytes /\ at \in WaitsBytes =>
              Cardinality(Waiters') = Cardinality(Waiters) + 1
         /\ worker[w].at \in WaitsBytes /\ at \notin WaitsBytes =>
              Cardinality(Waiters') = Cardinality(Waiters) - 1
<1>1. Waiters \ {w} = Waiters' \ {w}
  BY DEF Waiters, Turned, Slides, WaitsBytes
<1>2. IsFiniteSet(Waiters)
  <2>1. IsFiniteSet(Worker) /\ Waiters \subseteq Worker
    BY WorkerFacts DEF Waiters
  <2> QED BY <2>1, FS_Subset
<1>3. (w \in Waiters <=> worker[w].at \in WaitsBytes) /\ (w \in Waiters' <=> at \in WaitsBytes)
  BY DEF Waiters, Turned
<1> QED BY <1>1, <1>2, <1>3, MemberChange

\* A turn that keeps its share and its wait, and one that gives its share back.
LEMMA ByteKept ==
  ASSUME TypeInv, LaneInv, LaneInv', ByteInv, NEW w \in Worker, NEW at, NEW task, NEW out,
         Turned(w, at, task, out), UNCHANGED mode,
         worker[w].at \in HoldsBytes <=> at \in HoldsBytes,
         at \in HoldsBytes => task = worker[w].task,
         worker[w].at \in WaitsBytes <=> at \in WaitsBytes,
         budget'.used = budget.used, budget'.waiting = budget.waiting
  PROVE  ByteInv'
<1> DEFINE old == Share(worker[w].at, worker[w].task)
           new == Share(at, task)
<1>1. /\ InUse \in Nat /\ InUse' \in Nat /\ old \in Nat /\ new \in Nat
      /\ old <= InUse /\ InUse' = InUse - old + new
  BY ByteTurn
<1>2. old = new
  BY DEF Share
<1>3. Cardinality(Waiters') = Cardinality(Waiters)
  BY WaitersTurn
<1> HIDE DEF old, new
<1>4. InUse' = InUse
  BY <1>1, <1>2
<1> QED BY <1>3, <1>4 DEF ByteInv, InUse

\* A release gives back what was reserved.
LEMMA ByteReleased ==
  ASSUME TypeInv, LaneInv, LaneInv', ByteInv, NEW w \in Worker, NEW at, NEW task, NEW out,
         Turned(w, at, task, out), UNCHANGED mode, worker[w].at \in HoldsBytes,
         at \notin HoldsBytes \cup WaitsBytes, Release(w)
  PROVE  ByteInv'
<1> DEFINE old == Share(worker[w].at, worker[w].task)
           new == Share(at, task)
           R == Reserves(worker[w].task)
<1>1. /\ InUse \in Nat /\ InUse' \in Nat /\ old \in Nat /\ new \in Nat
      /\ old <= InUse /\ InUse' = InUse - old + new
  BY ByteTurn
<1>2. old = R /\ new = 0
  BY DEF Share
<1>3. worker[w].at \notin WaitsBytes
  BY DEF WaitsBytes, HoldsBytes
<1>4. Cardinality(Waiters') = Cardinality(Waiters)
  BY <1>3, WaitersTurn
<1>5. budget'.used = budget.used - R /\ budget'.waiting = budget.waiting
  BY DEF Release, TypeInv, BudgetRecord
<1>6. budget.used = InUse /\ budget.used <= Bytes /\ budget.waiting = Cardinality(Waiters)
  BY DEF ByteInv, InUse
<1>7. Bytes \in Nat
  BY LaneAssumption
<1> HIDE DEF old, new, R
<1>8. budget'.used = InUse' /\ budget'.used <= Bytes
  BY <1>1, <1>2, <1>5, <1>6, <1>7
<1>9. budget'.waiting = Cardinality(Waiters')
  BY <1>4, <1>5, <1>6
<1> QED BY <1>8, <1>9 DEF ByteInv, InUse

\* Notifications reserve nothing.
LEMMA ByteNudge ==
  ASSUME ByteInv, Nudged(worker, worker'), UNCHANGED <<mode, budget>>
  PROVE  ByteInv'
<1>1. Waiters' = Waiters
  BY DEF Waiters, Nudged, Slides, WaitsBytes
<1>2. ASSUME NEW v \in Worker
      PROVE  /\ worker'[v].task = worker[v].task
             /\ worker'[v].at \in HoldsBytes <=> worker[v].at \in HoldsBytes
  BY DEF Nudged, Slides, HoldsBytes
<1>3. ByteSlots' = ByteSlots
  BY <1>2 DEF ByteSlots, Reserves
<1> QED BY <1>1, <1>3 DEF ByteInv

\* The workers' steps keep the budget exact.
LEMMA ByteWorker ==
  ASSUME TypeInv, LaneInv, LaneInv', RunInv, ByteInv, NEW w \in Worker, Take(w) \/ Worked(w)
  PROVE  ByteInv'
<1>0. budget \in BudgetRecord /\ mode \in Modes
  BY DEF TypeInv
<1>m. mode' = mode
  <2>1. CASE Take(w)
    BY <2>1 DEF Take, TakeOwn, CountOwn, TakeFeed, Taking, Steal, TakeNothing, flagVars
  <2>2. CASE Worked(w)
    BY <2>2, WorkedElsewhere DEF Elsewhere
  <2> QED BY <2>1, <2>2
<1>b. ASSUME NEW at, NEW task, NEW out, Turned(w, at, task, out), UNCHANGED budget,
             worker[w].at \notin HoldsBytes \cup WaitsBytes, at \notin HoldsBytes \cup WaitsBytes
      PROVE  ByteInv'
  BY <1>b, <1>m, ByteKept
<1>1. ASSUME Take(w) PROVE ByteInv'
  <2>1. UNCHANGED budget
    BY <1>1 DEF Take, TakeOwn, CountOwn, TakeFeed, Taking, Steal, TakeNothing, laneVars
  <2>2. worker[w].at \notin HoldsBytes \cup WaitsBytes
    BY <1>1 DEF Take, TakeOwn, CountOwn, TakeFeed, Steal, TakeNothing, AtFeed, At, HoldsBytes,
                WaitsBytes
  <2>3. PICK at, task :
          at \in {"counted", "reserve", "flush", "asleep"} /\ Turned(w, at, task, worker[w].out)
    <3>1. CASE Steal(w)
      <4>1. \E task : Turned(w, "reserve", task, worker[w].out)
        BY <3>1, StealTurns DEF Robs
      <4> QED BY <4>1
    <3>2. CASE ~Steal(w)
      BY <1>1, <3>2, FeedTurns DEF Take
    <3> QED BY <3>1, <3>2
  <2>4. at \notin HoldsBytes \cup WaitsBytes
    BY <2>3 DEF HoldsBytes, WaitsBytes
  <2> QED BY <1>b, <2>1, <2>2, <2>3, <2>4
<1>2. ASSUME Reserve(w) PROVE ByteInv'
  <2>1. worker[w].at = "reserve" /\ worker[w].task \in Task
    BY <1>2 DEF Reserve, At, LaneInv, HasTask
  <2>2. worker[w].at \notin HoldsBytes \cup WaitsBytes
    BY <2>1 DEF HoldsBytes, WaitsBytes
  <2>3. CASE Turned(w, "flush", None, worker[w].out) /\ UNCHANGED budget
    <3>1. "flush" \notin HoldsBytes \cup WaitsBytes
      BY DEF HoldsBytes, WaitsBytes
    <3> QED BY <1>b, <2>2, <2>3, <3>1
  <2>4. ASSUME NEW at \in {"read", "admit"}, Turned(w, at, worker[w].task, worker[w].out),
               Fits(worker[w].task),
               budget' = [budget EXCEPT !.used = @ + Reserves(worker[w].task)]
        PROVE  ByteInv'
    <3> DEFINE old == Share(worker[w].at, worker[w].task)
               new == Share(at, worker[w].task)
               R == Reserves(worker[w].task)
    <3>1. /\ InUse \in Nat /\ InUse' \in Nat /\ old \in Nat /\ new \in Nat
          /\ old <= InUse /\ InUse' = InUse - old + new
      BY <1>m, <2>4, ByteTurn
    <3>2. at \in HoldsBytes /\ at \notin WaitsBytes
      BY DEF HoldsBytes, WaitsBytes
    <3>3. old = 0 /\ new = R
      BY <2>2, <3>2 DEF Share
    <3>4. budget'.used = budget.used + R /\ budget'.waiting = budget.waiting
      BY <1>0, <2>4 DEF BudgetRecord
    <3>5. budget.used = 0 \/ budget.used + R <= Bytes
      BY <2>4 DEF Fits
    <3>6. R \in Nat /\ R <= Bytes /\ Bytes \in Nat
      BY <1>0, <2>1, ReservesFacts
    <3>7. budget.used = InUse /\ budget.waiting = Cardinality(Waiters)
      BY DEF ByteInv, InUse
    <3>8. Cardinality(Waiters') = Cardinality(Waiters)
      BY <2>2, <2>4, <3>2, WaitersTurn
    <3> HIDE DEF old, new, R
    <3>9. budget'.used = InUse' /\ budget'.used <= Bytes
      BY <3>1, <3>3, <3>4, <3>5, <3>6, <3>7
    <3>10. budget'.waiting = Cardinality(Waiters')
      BY <3>4, <3>7, <3>8
    <3> QED BY <3>9, <3>10 DEF ByteInv, InUse
  <2> QED BY <1>2, <2>3, <2>4, BudgetTurns
<1>3. ASSUME ReserveWait(w) \/ Unpark(w) PROVE ByteInv'
  <2> DEFINE at == IF ReserveWait(w) THEN "parking" ELSE "reserve"
             n == IF ReserveWait(w) THEN 1 ELSE -1
  <2>1. Turned(w, at, worker[w].task, worker[w].out)
    BY <1>3, BudgetTurns
  <2>2. /\ worker[w].at = IF ReserveWait(w) THEN "reserve" ELSE "unparked"
        /\ budget'.used = budget.used /\ budget'.waiting = budget.waiting + n
    <3>1. budget.waiting - 1 = budget.waiting + (-1)
      BY <1>0 DEF BudgetRecord
    <3>2. CASE ReserveWait(w)
      BY <1>0, <3>2 DEF ReserveWait, At, BudgetRecord
    <3>3. CASE ~ReserveWait(w)
      BY <1>0, <1>3, <3>1, <3>3 DEF Unpark, At, BudgetRecord
    <3> QED BY <3>2, <3>3
  <2> DEFINE old == Share(worker[w].at, worker[w].task)
             new == Share(at, worker[w].task)
  <2>3. /\ InUse \in Nat /\ InUse' \in Nat /\ old \in Nat /\ new \in Nat
        /\ old <= InUse /\ InUse' = InUse - old + new
    <3> HIDE DEF at
    <3> QED BY <1>m, <2>1, ByteTurn
  <2>4. old = 0 /\ new = 0
    BY <2>2 DEF Share, HoldsBytes
  <2>5. Cardinality(Waiters') = Cardinality(Waiters) + n /\ Cardinality(Waiters) \in Nat
    <3>1. CASE ReserveWait(w)
      <4>1. worker[w].at \notin WaitsBytes /\ at \in WaitsBytes
        BY <2>2, <3>1 DEF WaitsBytes
      <4> HIDE DEF at
      <4> QED BY <2>1, <3>1, <4>1, WaitersTurn
    <3>2. CASE ~ReserveWait(w)
      <4>1. worker[w].at \in WaitsBytes /\ at \notin WaitsBytes
        BY <2>2, <3>2 DEF WaitsBytes
      <4>2. /\ Cardinality(Waiters') = Cardinality(Waiters) - 1 /\ Cardinality(Waiters) \in Nat
        <5> HIDE DEF at
        <5> QED BY <2>1, <4>1, WaitersTurn
      <4> QED BY <3>2, <4>2
    <3> QED BY <3>1, <3>2
  <2> HIDE DEF at, n, old, new
  <2>6. budget.used = InUse /\ budget.used <= Bytes /\ budget.waiting = Cardinality(Waiters)
    BY DEF ByteInv, InUse
  <2>7. InUse' = InUse
    BY <2>3, <2>4
  <2> QED BY <2>2, <2>5, <2>6, <2>7 DEF ByteInv, InUse
<1>4. ASSUME Park(w) PROVE ByteInv'
  <2>1. Turned(w, "parked", worker[w].task, worker[w].out)
    BY <1>4, BudgetTurns
  <2>2. /\ worker[w].at = "parking" /\ budget'.used = budget.used
        /\ budget'.waiting = budget.waiting
    BY <1>0, <1>4 DEF Park, At, BudgetRecord
  <2>3. /\ worker[w].at \in HoldsBytes <=> "parked" \in HoldsBytes
        /\ "parked" \notin HoldsBytes
        /\ worker[w].at \in WaitsBytes <=> "parked" \in WaitsBytes
    BY <2>2 DEF HoldsBytes, WaitsBytes
  <2> QED BY <1>m, <2>1, <2>2, <2>3, ByteKept
<1>5. ASSUME Work(w) \/ StreamEnd(w) \/ Panic(w) PROVE ByteInv'
  <2>1. PICK at \in {"worked", "unwinding"} : Turned(w, at, worker[w].task, worker[w].out)
    BY <1>5, BudgetTurns
  <2>2. worker[w].at \in HoldsBytes /\ Release(w)
    BY <1>5 DEF Work, StreamEnd, Panic, At, HoldsBytes
  <2>3. at \notin HoldsBytes \cup WaitsBytes
    BY DEF HoldsBytes, WaitsBytes
  <2> QED BY <1>m, <2>1, <2>2, <2>3, ByteReleased
<1>6. ASSUME AdmitReader(w) PROVE ByteInv'
  <2>1. worker[w].at = "admit"
    BY <1>6 DEF AdmitReader, At
  <2>2. /\ "admit" \in HoldsBytes /\ "read" \in HoldsBytes /\ "admit" \notin WaitsBytes
        /\ "read" \notin WaitsBytes /\ "worked" \notin HoldsBytes \cup WaitsBytes
    BY DEF HoldsBytes, WaitsBytes
  <2>3. CASE Turned(w, "read", worker[w].task, worker[w].out) /\ UNCHANGED budget
    BY <1>m, <2>1, <2>2, <2>3, ByteKept
  <2>4. CASE Turned(w, "worked", worker[w].task, worker[w].out) /\ Release(w)
    BY <1>m, <2>1, <2>2, <2>4, ByteReleased
  <2> QED BY <1>6, <2>3, <2>4, BudgetTurns
<1>7. ASSUME Handoff(w) PROVE ByteInv'
  <2>1. worker[w].at = "read" /\ UNCHANGED budget
    BY <1>7 DEF Handoff, At
  <2>2. PICK out : Turned(w, "handoff", worker[w].task, out)
    BY <1>7, HandoffTurns
  <2>3. /\ "read" \in HoldsBytes /\ "handoff" \in HoldsBytes /\ "read" \notin WaitsBytes
        /\ "handoff" \notin WaitsBytes
    BY DEF HoldsBytes, WaitsBytes
  <2> QED BY <1>m, <2>1, <2>2, <2>3, ByteKept
<1>8. ASSUME HandoffSend(w) PROVE ByteInv'
  <2>1. worker[w].at = "handoff"
    BY <1>8 DEF HandoffSend, At
  <2>2. /\ "handoff" \in HoldsBytes /\ "stream" \in HoldsBytes /\ "handoff" \notin WaitsBytes
        /\ "stream" \notin WaitsBytes /\ "worked" \notin HoldsBytes \cup WaitsBytes
    BY DEF HoldsBytes, WaitsBytes
  <2>3. CASE Turned(w, "worked", worker[w].task, <<>>) /\ Release(w)
    BY <1>m, <2>1, <2>2, <2>3, ByteReleased
  <2>4. ASSUME NEW at \in {"stream", "handoff"}, NEW out, Turned(w, at, worker[w].task, out),
               UNCHANGED budget
        PROVE  ByteInv'
    BY <1>m, <2>1, <2>2, <2>4, ByteKept
  <2> QED BY <1>8, <2>3, <2>4, HandoffTurns
<1>9. ASSUME Hand(w) \/ Send(w) \/ StopWork(w) \/ Flush(w) \/ SendLast(w) PROVE ByteInv'
  <2>1. UNCHANGED budget /\ worker[w].at \notin HoldsBytes \cup WaitsBytes
    BY <1>9 DEF Hand, Handing, Send, StopWork, Flush, SendLast, At, HoldsBytes, WaitsBytes,
                laneVars
  <2>2. PICK at, task, out :
          at \in {"flush", "top", "send", "leave", "sendlast"} /\ Turned(w, at, task, out)
    <3>1. CASE Hand(w)
      BY <3>1, HandTurns
    <3>2. CASE Send(w) \/ SendLast(w)
      BY <3>2, SendTurns
    <3>3. CASE StopWork(w)
      BY <3>3, FeedTurns
    <3>4. CASE Flush(w)
      BY <3>4, LeaveTurns
    <3> QED BY <1>9, <3>1, <3>2, <3>3, <3>4
  <2>3. at \notin HoldsBytes \cup WaitsBytes
    BY <2>2 DEF HoldsBytes, WaitsBytes
  <2> QED BY <1>b, <2>1, <2>2, <2>3
<1>10. ASSUME Leave(w) \/ Unwind(w) \/ HaltWake(w) PROVE ByteInv'
  <2>1. UNCHANGED budget /\ worker[w].at \notin HoldsBytes \cup WaitsBytes
    BY <1>10 DEF Leave, Unwind, HaltWake, At, HoldsBytes, WaitsBytes, laneVars
  <2>2. PICK at, task, out :
          at \in {"gone", "halting"} /\ Turned(w, at, task, out)
    BY <1>10, LeaveTurns
  <2>3. at \notin HoldsBytes \cup WaitsBytes
    BY <2>2 DEF HoldsBytes, WaitsBytes
  <2> QED BY <1>b, <2>1, <2>2, <2>3
<1> QED BY <1>1, <1>2, <1>3, <1>4, <1>5, <1>6, <1>7, <1>8, <1>9, <1>10 DEF Worked

\* Every step keeps the budget exact.
LEMMA ByteStep ==
  ASSUME TypeInv, LaneInv, LaneInv', RunInv, ByteInv, [Next]_vars
  PROVE  ByteInv'
<1>1. ASSUME Produce \/ CallerStep \/ Cancel \/ UNCHANGED vars PROVE ByteInv'
  <2>1. Nudged(worker, worker')
    BY <1>1, OthersNotify
  <2>2. UNCHANGED <<mode, budget>>
    <3>1. CASE Produce
      BY <3>1 DEF Produce, Admit, Gather, PushDue, PushFull, PushLast, Abandon, Roused,
                  ProducerEnd, Push, laneVars, flagVars
    <3>2. CASE CallerStep
      BY <3>2 DEF CallerStep, Collect, Collecting, Sweep, Publish, StreamDone, End, Halt, Join,
                  CloseUnfed, Alone, flagVars
    <3>3. CASE Cancel \/ UNCHANGED vars
      BY <3>3 DEF Cancel, vars, laneVars
    <3> QED BY <1>1, <3>1, <3>2, <3>3
  <2> QED BY <2>1, <2>2, ByteNudge
<1>2. ASSUME NEW w \in Worker, Take(w) \/ Worked(w) PROVE ByteInv'
  BY <1>2, ByteWorker
<1> QED BY <1>1, <1>2, Steps

----------------------------------------------------------------------------
(* Sleepers and the tasks they were woken for.                             *)

Woken == {w \in Worker : worker[w].at = "woken"}

\* The woken workers are finitely many.
LEMMA WokenFinite ==
  IsFiniteSet(Woken) /\ Cardinality(Woken) \in Nat
<1>1. IsFiniteSet(Worker) /\ Woken \subseteq Worker
  BY WorkerFacts DEF Woken
<1> QED BY <1>1, FS_Subset, FS_CardinalityType

\* And after a step.
LEMMA WokenFiniteNext ==
  IsFiniteSet(Woken') /\ Cardinality(Woken') \in Nat
<1>1. IsFiniteSet(Worker) /\ Woken' \subseteq Worker
  BY WorkerFacts DEF Woken
<1> QED BY <1>1, FS_Subset, FS_CardinalityType

\* Nobody goes to sleep, who is woken stays so, and the feed does not grow.
LEMMA WakeKept ==
  ASSUME TypeInv, TypeInv', StreamingWakes, UNCHANGED mode,
         ~feed'.closed => ~feed.closed /\ Len(feed'.tasks) <= Len(feed.tasks),
         \A v \in Worker : worker'[v].at = "asleep" => worker[v].at = "asleep",
         \A v \in Worker : worker[v].at = "woken" => worker'[v].at = "woken"
  PROVE  StreamingWakes'
<1>1. Cardinality(Woken) <= Cardinality(Woken') /\ Cardinality(Woken) \in Nat
      /\ Cardinality(Woken') \in Nat
  <2>1. Woken \subseteq Woken'
    BY DEF Woken
  <2> QED BY <2>1, WokenFinite, WokenFiniteNext, FS_Subset
<1>2. Len(feed.tasks) \in Nat /\ Len(feed'.tasks) \in Nat
  BY DEF TypeInv
<1>3. ASSUME ~mode.indexed, ~feed'.closed, NEW v \in Worker, worker'[v].at = "asleep"
      PROVE  Len(feed'.tasks) <= Cardinality(Woken')
  <2>1. Len(feed.tasks) <= Cardinality(Woken)
    BY <1>3 DEF StreamingWakes, At, Woken
  <2>2. Len(feed'.tasks) <= Len(feed.tasks)
    BY <1>3
  <2> QED BY <1>1, <1>2, <2>1, <2>2
<1> QED BY <1>3 DEF StreamingWakes, At, Woken

\* A push while somebody sleeps adds one task and wakes one worker.
LEMMA WakePush ==
  ASSUME TypeInv, TypeInv', FeedInv, StreamingWakes, NEW room \in BOOLEAN, NEW place,
         Push(room, place)
  PROVE  StreamingWakes'
<1> DEFINE tasks == IF feed.closed THEN feed.tasks ELSE feed.tasks \o prod.batch
           n == Len(feed.tasks)
           b == Len(prod.batch)
<1>0. /\ feed \in [tasks : Seq(Task), closed : BOOLEAN, full : BOOLEAN] /\ prod \in ProdRecord
      /\ mode \in Modes /\ worker \in [Worker -> WorkerRecord]
  BY DEF TypeInv
<1>1. /\ worker' \in IF ~feed.closed /\ Wakes(Len(tasks)) THEN NotifyOne(worker) ELSE {worker}
      /\ mode' = mode /\ \E full : feed' = [feed EXCEPT !.tasks = tasks, !.full = full]
  BY DEF Push, flagVars
<1>2. feed'.tasks = tasks /\ feed'.closed = feed.closed
  <2> HIDE DEF tasks
  <2> QED BY <1>0, <1>1
<1>3. prod.batch \in Seq(Task) /\ n \in Nat /\ b \in Nat
  BY <1>0 DEF ProdRecord
<1>4. ~feed.closed => Len(tasks) = n + b
  BY <1>0, <1>3
<1>5. Nudged(worker, worker')
  BY <1>0, <1>1, Nudges
<1>6. /\ \A v \in Worker : worker'[v].at = "asleep" => worker[v].at = "asleep"
      /\ \A v \in Worker : worker[v].at = "woken" => worker'[v].at = "woken"
  BY <1>5 DEF Nudged, Slides
<1>7. ASSUME ~mode.indexed, ~feed'.closed, NEW v \in Worker, worker'[v].at = "asleep"
      PROVE  Len(feed'.tasks) <= Cardinality(Woken')
  <2>1. b <= 1
    <3>1. BatchLen = 1
      BY <1>0, <1>7, ModeFacts
    <3> QED BY <3>1 DEF FeedInv, Ahead
  <2>2. n <= Cardinality(Woken) /\ worker[v].at = "asleep" /\ ~feed.closed
    BY <1>2, <1>6, <1>7 DEF StreamingWakes, At, Woken
  <2>3. Cardinality(Woken) \in Nat /\ Cardinality(Woken') \in Nat
    BY WokenFinite, WokenFiniteNext
  <2>4. Len(feed'.tasks) = n + b
    BY <1>2, <1>4, <2>2
  <2>5. CASE b = 0
    <3>1. Woken \subseteq Woken'
      BY <1>6 DEF Woken
    <3>2. Cardinality(Woken) <= Cardinality(Woken')
      BY <3>1, WokenFiniteNext, FS_Subset
    <3> HIDE DEF n, b
    <3> QED BY <1>3, <2>2, <2>3, <2>4, <2>5, <3>2
  <2>6. CASE b = 1
    <3> DEFINE S == {u \in Worker : worker[u].at \in {"asleep", "woken"}}
               V == Woken \cup {v}
    <3>1. Cardinality(V) = Cardinality(Woken) + 1
      <4>1. v \notin Woken
        BY <2>2 DEF Woken
      <4> QED BY <4>1, WokenFinite, FS_AddElement
    <3>2. Cardinality(V) <= Cardinality(S) /\ Cardinality(S) \in Nat
      <4>1. IsFiniteSet(Worker) /\ S \subseteq Worker /\ V \subseteq S
        BY <2>2, WorkerFacts DEF Woken
      <4>2. IsFiniteSet(S)
        <5> HIDE DEF S
        <5> QED BY <4>1, FS_Subset
      <4> HIDE DEF S, V
      <4> QED BY <4>1, <4>2, FS_Subset, FS_CardinalityType
    <3>3. Sleeping(worker) = Cardinality(S)
      BY DEF Sleeping
    <3>4. Sleeping(worker) >= n + 1
      <4> HIDE DEF S, V, n
      <4> QED BY <1>3, <2>2, <2>3, <3>1, <3>2, <3>3
    <3>5. Wakes(Len(tasks))
      <4>1. Len(tasks) = n + 1
        BY <1>4, <2>2, <2>6
      <4> QED BY <1>7, <3>4, <4>1 DEF Wakes
    <3>6. worker' \in NotifyOne(worker)
      BY <1>1, <2>2, <3>5
    <3>7. PICK u \in Worker : worker[u].at = "asleep" /\ worker' = [worker EXCEPT ![u].at = "woken"]
      BY <2>2, <3>6 DEF NotifyOne
    <3>8. Woken' = Woken \cup {u} /\ u \notin Woken
      BY <1>0, <3>7 DEF Woken, WorkerRecord
    <3>9. Cardinality(Woken') = Cardinality(Woken) + 1
      BY <3>8, WokenFinite, FS_AddElement
    <3> HIDE DEF n, b
    <3> QED BY <1>3, <2>2, <2>3, <2>4, <2>6, <3>9
  <2> HIDE DEF b
  <2> QED BY <1>3, <2>1, <2>5, <2>6
<1> QED BY <1>1, <1>7 DEF StreamingWakes, At, Woken

\* A worker that takes a task was awake for it.
LEMMA WakeTake ==
  ASSUME TypeInv, TypeInv', RunInv, StreamingWakes, NEW w \in Worker, Take(w)
  PROVE  StreamingWakes'
<1>m. mode' = mode
  BY DEF Take, TakeOwn, CountOwn, TakeFeed, Taking, Steal, TakeNothing, flagVars
<1>1. ASSUME TakeOwn(w) \/ CountOwn(w) PROVE StreamingWakes'
  <2>1. PICK at, task :
          at \in {"counted", "reserve"} /\ Turned(w, at, task, worker[w].out)
    BY <1>1, FeedTurns
  <2>2. feed' = feed /\ worker[w].at # "woken"
    BY <1>1 DEF TakeOwn, CountOwn, At
  <2>3. /\ \A v \in Worker : worker'[v].at = "asleep" => worker[v].at = "asleep"
        /\ \A v \in Worker : worker[v].at = "woken" => worker'[v].at = "woken"
    BY <2>1, <2>2 DEF Turned, Slides
  <2>4. Len(feed'.tasks) <= Len(feed.tasks)
    <3>1. Len(feed.tasks) \in Nat
      BY DEF TypeInv
    <3> QED BY <2>2, <3>1
  <2> QED BY <1>m, <2>2, <2>3, <2>4, WakeKept
<1>2. ASSUME TakeFeed(w) PROVE StreamingWakes'
  <2>1. Turned(w, "reserve", Head(feed.tasks), worker[w].out)
    BY <1>2, FeedTurns
  <2>2. /\ feed'.closed = feed.closed /\ Len(feed.tasks) \in Nat
        /\ Len(feed'.tasks) \in Nat /\ Len(feed'.tasks) <= Len(feed.tasks) - 1
    BY <1>2, TakeShortens
  <2>3. ASSUME ~mode.indexed, ~feed'.closed, NEW v \in Worker, worker'[v].at = "asleep"
        PROVE  Len(feed'.tasks) <= Cardinality(Woken')
    <3>1. worker[v].at = "asleep"
      BY <2>1, <2>3 DEF Turned, Slides
    <3>2. Len(feed.tasks) <= Cardinality(Woken)
      BY <2>2, <2>3, <3>1 DEF StreamingWakes, At, Woken
    <3>3. /\ IsFiniteSet(Woken \ {w}) /\ Cardinality(Woken \ {w}) >= Cardinality(Woken) - 1
          /\ Cardinality(Woken \ {w}) \in Nat
      <4>1. /\ IsFiniteSet(Woken \ {w})
            /\ Cardinality(Woken \ {w}) = IF w \in Woken THEN Cardinality(Woken) - 1
                                          ELSE Cardinality(Woken)
        BY WokenFinite, FS_RemoveElement
      <4>2. Cardinality(Woken \ {w}) \in Nat /\ Cardinality(Woken) \in Nat
        BY <4>1, WokenFinite, FS_CardinalityType
      <4> DEFINE c == Cardinality(Woken \ {w})
                 d == Cardinality(Woken)
      <4>3. c \in Nat /\ d \in Nat /\ (c = d - 1 \/ c = d)
        BY <4>1, <4>2
      <4> HIDE DEF c, d
      <4>4. c >= d - 1
        BY <4>3
      <4> QED BY <4>1, <4>2, <4>4 DEF c, d
    <3>4. Woken \ {w} \subseteq Woken'
      BY <2>1 DEF Woken, Turned, Slides
    <3>5. Cardinality(Woken \ {w}) <= Cardinality(Woken')
      BY <3>4, WokenFiniteNext, FS_Subset
    <3>6. Cardinality(Woken) \in Nat /\ Cardinality(Woken') \in Nat
      BY WokenFinite, WokenFiniteNext
    <3> QED BY <2>2, <3>2, <3>3, <3>5, <3>6
  <2> QED BY <1>m, <2>3 DEF StreamingWakes, At, Woken
<1>3. ASSUME Steal(w) PROVE StreamingWakes'
  BY <1>3, <1>m DEF Steal, CanSteal, StreamingWakes
<1>4. ASSUME TakeNothing(w) PROVE StreamingWakes'
  <2>1. Len(feed'.tasks) = 0
    BY <1>4 DEF TakeNothing, feedVars
  <2>2. Len(feed'.tasks) <= Cardinality(Woken')
    BY <2>1, WokenFiniteNext
  <2> QED BY <2>2 DEF StreamingWakes, At, Woken
<1> QED BY <1>1, <1>2, <1>3, <1>4 DEF Take

\* Every step keeps a woken worker for each task in the feed.
LEMMA WakeStep ==
  ASSUME TypeInv, TypeInv', FeedInv, RunInv, LaneInv, StreamingWakes, [Next]_vars
  PROVE  StreamingWakes'
<1>0. /\ feed \in [tasks : Seq(Task), closed : BOOLEAN, full : BOOLEAN] /\ prod \in ProdRecord
      /\ Len(feed.tasks) \in Nat
  BY DEF TypeInv
<1>n. ASSUME Produce \/ CallerStep \/ Cancel \/ UNCHANGED vars, mode' = mode,
             ~feed'.closed => ~feed.closed /\ Len(feed'.tasks) <= Len(feed.tasks)
      PROVE  StreamingWakes'
  <2>1. Nudged(worker, worker')
    BY <1>n, OthersNotify
  <2>2. /\ \A v \in Worker : worker'[v].at = "asleep" => worker[v].at = "asleep"
        /\ \A v \in Worker : worker[v].at = "woken" => worker'[v].at = "woken"
    BY <2>1 DEF Nudged, Slides
  <2> QED BY <1>n, <2>2, WakeKept
<1>1. CASE Produce
  <2>1. ASSUME PushDue \/ PushFull \/ PushLast PROVE StreamingWakes'
    <3>1. PICK room \in BOOLEAN, place \in {"gather", "admitted", "end"} : Push(room, place)
      BY <2>1 DEF PushDue, PushFull, PushLast
    <3> QED BY <3>1, WakePush
  <2>2. ASSUME Admit \/ Gather \/ Abandon PROVE StreamingWakes'
    <3>1. feed' = feed /\ mode' = mode
      BY <2>2 DEF Admit, Gather, Abandon, feedVars, flagVars
    <3> QED BY <1>0, <1>1, <1>n, <3>1
  <2>3. ASSUME Roused PROVE StreamingWakes'
    <3>1. feed'.tasks = feed.tasks /\ feed'.closed = feed.closed /\ mode' = mode
      BY <1>0, <2>3 DEF Roused, flagVars
    <3> QED BY <1>0, <1>1, <1>n, <3>1
  <2>4. ASSUME ProducerEnd PROVE StreamingWakes'
    <3> DEFINE p == [prod EXCEPT !.at = "gone"]
    <3>1. p \in ProdRecord
      BY <1>0 DEF ProdRecord
    <3>2. Close(worker, p) /\ mode' = mode
      BY <2>4 DEF ProducerEnd, flagVars
    <3> HIDE DEF p
    <3>3. feed'.closed
      BY <3>1, <3>2, CloseType
    <3> QED BY <1>1, <1>n, <3>2, <3>3
  <2> QED BY <1>1, <2>1, <2>2, <2>3, <2>4 DEF Produce
<1>2. CASE CallerStep
  <2>1. ASSUME End \/ CloseUnfed PROVE StreamingWakes'
    <3>1. Close(worker, prod) /\ mode' = mode
      BY <2>1 DEF End, CloseUnfed, flagVars
    <3>2. feed'.closed
      BY <1>0, <3>1, CloseType
    <3> QED BY <1>2, <1>n, <3>1, <3>2
  <2>2. ASSUME Collect \/ Sweep \/ Publish \/ StreamDone \/ Halt \/ Join \/ Alone
        PROVE  StreamingWakes'
    <3>1. feed' = feed /\ mode' = mode
      BY <2>2 DEF Collect, Collecting, Sweep, Publish, StreamDone, Halt, Join, Alone,
                  feedVars, flagVars
    <3> QED BY <1>0, <1>2, <1>n, <3>1
  <2> QED BY <1>2, <2>1, <2>2 DEF CallerStep
<1>3. CASE Cancel \/ UNCHANGED vars
  <2>1. feed' = feed /\ mode' = mode
    BY <1>3 DEF Cancel, vars, feedVars
  <2> QED BY <1>0, <1>3, <1>n, <2>1
<1>4. ASSUME NEW w \in Worker, Take(w) PROVE StreamingWakes'
  BY <1>4, WakeTake
<1>5. ASSUME NEW w \in Worker, Worked(w) PROVE StreamingWakes'
  <2>1. Elsewhere(w)
    BY <1>5, WorkedElsewhere
  <2>2. PICK at, task, out : at \notin AtFeedOnly /\ Turned(w, at, task, out)
    BY <2>1 DEF Elsewhere
  <2>3. /\ \A v \in Worker : worker'[v].at = "asleep" => worker[v].at = "asleep"
        /\ \A v \in Worker : worker[v].at = "woken" => worker'[v].at = "woken"
    BY <2>1, <2>2 DEF Elsewhere, AtFeedOnly, Turned, Slides
  <2>4. mode' = mode /\ (feed' = feed \/ feed'.closed)
    BY <2>1 DEF Elsewhere
  <2>5. ~feed'.closed => ~feed.closed /\ Len(feed'.tasks) <= Len(feed.tasks)
    BY <1>0, <2>4
  <2> QED BY <2>3, <2>4, <2>5, WakeKept
<1> QED BY <1>1, <1>2, <1>3, <1>4, <1>5, Steps

----------------------------------------------------------------------------
(* The invariant of the specification, and what follows from it.           *)

\* A pool of empty sets is empty.
LEMMA NothingPooled ==
  ASSUME NEW S, \A w \in Worker : S[w] = {}
  PROVE  Cardinality(Pool(Worker, S)) = 0
<1>1. Pool(Worker, S) = {}
  BY DEF Pool
<1> QED BY <1>1, FS_EmptySet

\* The invariant holds when a run starts.
LEMMA InitInv ==
  ASSUME Init
  PROVE  TaskInv
<1>0. mode \in Modes /\ mode \in ModeType
  BY FeedAssumption DEF Init
<1>1. Threads \in Nat \ {0} /\ Worker = 1 .. Threads /\ IsFiniteSet(Worker)
  BY WorkerFacts
<1>2. SlotExact(NoneHeld) /\ NoneHeld \in SlotRecord
  BY <1>0, NoneHeldExact DEF SlotExact
<1>3. /\ <<>> \in Seq(Task) /\ <<>> \in Seq(Batch) /\ <<>> \in Seq(Groups) /\ Len(<<>>) = 0
  BY Batches
<1>4. MaxTasks \in Nat /\ BatchLen \in Nat \ {0} /\ BatchLen <= RunTasks /\ RunTasks \in Nat \ {0}
  BY <1>0, ModeFacts
<1>5. Capacity \in Nat /\ Capacity >= RunTasks /\ Bytes \in Nat
  BY FeedAssumption, LaneAssumption
<1>w. /\ worker \in [Worker -> WorkerRecord]
      /\ \A w \in Worker : worker[w].at \in {"top", "gone"} /\ worker[w].out = <<>>
  <2>1. \A w \in Worker :
          [at |-> IF w \in mode.started THEN "top" ELSE "gone", task |-> None, out |-> <<>>]
            \in WorkerRecord
    BY <1>3 DEF WorkerRecord, Places
  <2> QED BY <2>1 DEF Init
<1>p. prod \in ProdRecord /\ prod.at \in {"gather", "gone"} /\ prod.batch = <<>>
      /\ prod.flushed = FALSE
  <2>1. 1 \in 1 .. (MaxTasks + 1)
    BY <1>4
  <2> QED BY <1>3, <2>1 DEF Init, ProdRecord
<1>c. caller \in CallerRecord /\ caller.at \in {"collect", "unfed"}
  <2>1. 1 \in Worker
    BY <1>1
  <2> QED BY <1>3, <2>1 DEF Init, CallerRecord, CallerPlaces
<1>6. TypeInv
  <2>1. feed \in [tasks : Seq(Task), closed : BOOLEAN, full : BOOLEAN]
    BY <1>3 DEF Init
  <2>2. run \in [Worker -> Seq(Task)] /\ held \in [Worker -> SlotRecord]
    BY <1>2, <1>3 DEF Init
  <2>3. budget \in BudgetRecord
    BY DEF Init, BudgetRecord
  <2>4. queue \in Seq(Batch) /\ Len(queue) <= Threads
    BY <1>1, <1>3 DEF Init
  <2>5. emitted \in Seq(Groups) /\ stop \in BOOLEAN /\ cancelled \in BOOLEAN
    BY <1>3 DEF Init
  <2> QED BY <1>0, <1>w, <1>p, <1>c, <2>1, <2>2, <2>3, <2>4, <2>5 DEF TypeInv
<1>7. FeedInv
  <2>1. feed.tasks = <<>> /\ feed.closed = FALSE
    BY DEF Init
  <2>2. caller.at = "unfed" => prod.at = "gone"
    BY DEF Init
  <2>3. Ahead(BatchLen, 0, 0, prod.at, FALSE, FALSE)
    BY <1>4, <1>5, <1>p DEF Ahead
  <2>4. Ahead(BatchLen, Len(feed.tasks), Len(prod.batch), prod.at, prod.flushed, feed.closed)
    BY <1>3, <1>p, <2>1, <2>3
  <2> QED BY <1>c, <1>p, <2>2, <2>4 DEF FeedInv
<1>8. RunInv
  <2>1. stealable = 0 /\ \A w \in Worker : run[w] = <<>>
    BY DEF Init
  <2>2. \A w \in Worker : Slots(run)[w] = {}
    BY <2>1 DEF Slots
  <2>3. Tasks(run) = 0
    BY <2>2, NothingPooled DEF Tasks
  <2>4. Counted = {}
    BY <1>w DEF Counted
  <2>5. Cardinality(Counted) = 0
    BY <2>4, FS_EmptySet
  <2>6. \A w \in Worker : Len(run[w]) < RunTasks
    BY <1>3, <1>4, <2>1
  <2> QED BY <2>1, <2>3, <2>5, <2>6 DEF RunInv
<1>9. LaneInv
  <2>1. \A w \in Worker : held[w] = NoneHeld
    BY DEF Init
  <2>2. \A w \in Worker : SlotExact(held[w])
    BY <1>2, <2>1
  <2>3. \A w \in Worker : Len(worker[w].out) <= 2
    BY <1>3, <1>w
  <2>4. \A w \in Worker : /\ worker[w].at \notin HasTask
                          /\ worker[w].at \notin {"handoff", "send", "sendlast"}
    BY <1>w DEF HasTask, HoldsBytes, WaitsBytes
  <2> QED BY <1>c, <2>2, <2>3, <2>4 DEF LaneInv
<1>10. ByteInv
  <2>1. \A w \in Worker : ByteSlots[w] = {}
    BY <1>w DEF ByteSlots, HoldsBytes
  <2>2. Cardinality(Pool(Worker, ByteSlots)) = 0
    BY <2>1, NothingPooled
  <2>3. Waiters = {}
    BY <1>w DEF Waiters, WaitsBytes
  <2>4. Cardinality(Waiters) = 0
    BY <2>3, FS_EmptySet
  <2>5. budget.used = 0 /\ budget.waiting = 0
    BY DEF Init
  <2> QED BY <1>5, <2>2, <2>4, <2>5 DEF ByteInv
<1>11. StreamingWakes
  BY <1>w DEF StreamingWakes, At
<1> QED BY <1>6, <1>7, <1>8, <1>9, <1>10, <1>11 DEF TaskInv

\* Every step keeps the invariant.
LEMMA StepInv ==
  ASSUME TaskInv, [Next]_vars
  PROVE  TaskInv'
<1>1. TypeInv /\ FeedInv /\ RunInv /\ LaneInv /\ ByteInv /\ StreamingWakes
  BY DEF TaskInv
<1>2. TypeInv'
  BY <1>1, TypeStep
<1>3. LaneInv'
  BY <1>1, LaneStep
<1>4. FeedInv' /\ RunInv' /\ ByteInv' /\ StreamingWakes'
  BY <1>1, <1>2, <1>3, FeedStep, RunStep, ByteStep, WakeStep
<1> QED BY <1>2, <1>3, <1>4 DEF TaskInv

\* The counts of a parallel grep, its feed's bounds and its wakeups, as one
\* inductive invariant.
THEOREM TaskInvariant == Spec => []TaskInv
<1>1. Init => TaskInv
  BY InitInv
<1>2. TaskInv /\ [Next]_vars => TaskInv'
  BY StepInv
<1> QED BY <1>1, <1>2, PTL DEF Spec

\* What stealable counts, in the property's terms.
LEMMA RunsAreCounted ==
  ASSUME TaskInv
  PROVE  /\ Cardinality(InRuns) = Tasks(run) /\ Tasks(run) \in Nat
         /\ stealable = Tasks(run) + Cardinality(Counted) /\ Cardinality(Counted) \in Nat
<1>0. run \in [Worker -> Seq(Task)] /\ RunInv
  BY DEF TaskInv, TypeInv
<1>1. \A w \in Worker : DOMAIN run[w] = Slots(run)[w]
  BY <1>0 DEF Slots
<1>2. {{w} \X DOMAIN run[w] : w \in Worker} = {{w} \X Slots(run)[w] : w \in Worker}
  BY <1>1
<1>3. InRuns = Pool(Worker, Slots(run))
  BY <1>2 DEF InRuns, Pool
<1>4. Tasks(run) \in Nat
  <2>1. PICK w : w \in Worker
    BY FeedAssumption
  <2> QED BY <1>0, <2>1, OneRunChanges
<1>5. Cardinality(Counted) \in Nat
  <2>1. IsFiniteSet(Worker) /\ Counted \subseteq Worker
    BY WorkerFacts DEF Counted
  <2> QED BY <2>1, FS_Subset, FS_CardinalityType
<1> QED BY <1>0, <1>3, <1>4, <1>5 DEF RunInv, Tasks

\* Feed.stealable counts "Tasks in `runs`, never fewer": a worker that reads
\* zero under the feed lock, and sleeps, leaves no task behind in a run.
THEOREM NoTaskUncounted == Spec => []StealableNeverFewer
<1>1. TaskInv => StealableNeverFewer
  <2>1. ASSUME TaskInv PROVE StealableNeverFewer
    BY <2>1, RunsAreCounted DEF StealableNeverFewer
  <2> QED BY <2>1
<1> QED BY <1>1, TaskInvariant, PTL

\* While a streaming worker sleeps unnotified, every task in the feed has a
\* notified worker on its way: Feed::push may leave out a notification when
\* fewer sleep than there are tasks.
THEOREM SleepersAreWoken == Spec => []StreamingWakes
<1>1. TaskInv => StreamingWakes
  BY DEF TaskInv
<1> QED BY <1>1, TaskInvariant, PTL

\* The input bytes in flight are those the workers have reserved and at most
\* IN_FLIGHT_BYTES, the waiters are counted, each slot knows its bytes, and
\* the feed, the runs, the slots and the queue stay within their bounds.
THEOREM BytesAreExact == Spec => []BytesExact
<1>1. ASSUME TaskInv PROVE BytesExact
  <2>0. TypeInv /\ FeedInv /\ RunInv /\ LaneInv /\ ByteInv
    BY <1>1 DEF TaskInv
  <2>1. mode \in Modes /\ budget \in BudgetRecord /\ prod \in ProdRecord
        /\ worker \in [Worker -> WorkerRecord]
    BY <2>0 DEF TypeInv
  <2>2. BatchLen \in Nat /\ RunTasks \in Nat /\ BatchLen <= RunTasks /\ Capacity \in Nat
    BY <2>1, ModeFacts, WorkerFacts
  <2>3. Bytes \in Nat /\ HandoffBytes \in Nat
    BY LaneAssumption
  <2>4. InFlight = Pool(Worker, ByteSlots)
    <3> DEFINE H == {v \in Worker : worker[v].at \in HoldsBytes}
    <3>1. InFlight = UNION {{w} \X (1..Reserves(worker[w].task)) : w \in H}
      BY DEF InFlight, At, HoldsBytes
    <3>2. \A w \in H : ByteSlots[w] = 1..Reserves(worker[w].task)
      BY DEF ByteSlots
    <3>3. \A w \in Worker \ H : ByteSlots[w] = {}
      BY DEF ByteSlots
    <3>4. H \subseteq Worker
      OBVIOUS
    <3>5. {{w} \X (1..Reserves(worker[w].task)) : w \in H} = {{w} \X ByteSlots[w] : w \in H}
      BY <3>2
    <3> HIDE DEF H
    <3>6. UNION {{w} \X ByteSlots[w] : w \in H} = UNION {{w} \X ByteSlots[w] : w \in Worker}
      BY <3>3, <3>4
    <3> QED BY <3>1, <3>5, <3>6 DEF Pool
  <2>5. budget.used = Cardinality(InFlight) /\ budget.used <= Bytes
        /\ budget.waiting = Cardinality(Waiters)
    BY <2>0, <2>4 DEF ByteInv
  <2>6. /\ Cardinality(Waiters) \in Nat /\ Cardinality(Waiters) <= Threads /\ Threads \in Nat
    <3>1. IsFiniteSet(Worker) /\ Waiters \subseteq Worker
      BY WorkerFacts DEF Waiters
    <3> QED BY <3>1, FS_Subset, FS_CardinalityType DEF Threads
  <2>7. Waiters = {w \in Worker : At(w) \in {"parking", "parked", "unparked"}}
    BY DEF Waiters, WaitsBytes, At
  <2>8. budget.used \in Nat
    <3>1. IsFiniteSet(Worker) /\ \A w \in Worker : IsFiniteSet(ByteSlots[w])
      <4>1. ASSUME NEW w \in Worker PROVE IsFiniteSet(ByteSlots[w])
        <5>1. CASE worker[w].at \in HoldsBytes
          <6>1. worker[w].task \in Task
            BY <2>0, <5>1 DEF LaneInv, HasTask
          <6>2. Reserves(worker[w].task) \in Nat
            BY <2>1, <6>1, ReservesFacts
          <6>3. ByteSlots[w] = 1..Reserves(worker[w].task)
            BY <5>1 DEF ByteSlots
          <6> QED BY <6>2, <6>3, IntervalSize
        <5>2. CASE worker[w].at \notin HoldsBytes
          <6>1. ByteSlots[w] = {}
            BY <5>2 DEF ByteSlots
          <6> QED BY <6>1, FS_EmptySet
        <5> QED BY <5>1, <5>2
      <4> QED BY <4>1, WorkerFacts
    <3>2. Cardinality(Pool(Worker, ByteSlots)) \in Nat
      BY <3>1, PoolFinite
    <3> QED BY <2>4, <2>5, <3>2
  <2>9. budget \in [used : 0..Bytes, waiting : 0..Threads, lock : Worker \cup {None}]
    <3>1. budget.used \in 0..Bytes /\ budget.waiting \in 0..Threads
      BY <2>3, <2>5, <2>6, <2>8
    <3> QED BY <2>1, <3>1 DEF BudgetRecord
  <2>10. Len(feed.tasks) < Capacity + RunTasks /\ Len(prod.batch) <= BatchLen
    <3>1. Len(feed.tasks) < Capacity + BatchLen /\ Len(prod.batch) <= BatchLen
      BY <2>0 DEF FeedInv, Ahead
    <3>2. Len(feed.tasks) \in Nat
      BY <2>0 DEF TypeInv
    <3> QED BY <2>2, <3>1, <3>2
  <2>11. stealable \in Nat
    BY <1>1, RunsAreCounted
  <2>12. held \in [Worker -> [groups : Seq(Task), bytes : 0..HandoffBytes]]
    BY <2>0 DEF TypeInv, SlotRecord
  <2>13. prod.next \in 1..(MaxTasks + 1)
    BY <2>1 DEF ProdRecord
  <2>14. /\ \A w \in Worker : worker[w].task \in Task \cup {None} /\ Len(worker[w].out) <= 2
         /\ \A w \in Worker : Len(held[w].groups) < HandoffGroups
         /\ \A w \in Worker : held[w].bytes = Cardinality(Weights(held[w].groups))
    BY <2>0, <2>1 DEF WorkerRecord, LaneInv, SlotExact
  <2>15. TypeOK
    BY <2>0, <2>9, <2>10, <2>11, <2>12, <2>13, <2>14 DEF TypeOK, TypeInv, RunInv
  <2> QED BY <2>5, <2>7, <2>14, <2>15 DEF BytesExact
<1>2. TaskInv => BytesExact
  BY <1>1
<1> QED BY <1>2, TaskInvariant, PTL

----------------------------------------------------------------------------
(***************************************************************************)
(* Every group is published once.  Each task the source has yielded is at  *)
(* exactly one spot between the producer's batch and the output; a step    *)
(* moves tasks from one spot to another.                                   *)
(***************************************************************************)

----------------------------------------------------------------------------
(* Sequences without repetition, and the sets of their elements.           *)

\* A batch and a group more.
LEMMA InjAppend ==
  ASSUME NEW A, NEW s \in Seq(A), NEW e \in A, IsInjective(s), e \notin ToSet(s)
  PROVE  IsInjective(Append(s, e)) /\ ToSet(Append(s, e)) = ToSet(s) \cup {e}
<1> DEFINE t == Append(s, e)
           n == Len(s)
<1>1. n \in Nat /\ DOMAIN s = 1..n /\ DOMAIN t = 1..(n + 1)
  OBVIOUS
<1>2. t[n + 1] = e /\ \A i \in 1..n : t[i] = s[i]
  OBVIOUS
<1>3. \A i \in 1..n : s[i] # e
  BY <1>1 DEF ToSet
<1> HIDE DEF t, n
<1>4. IsInjective(t)
  BY <1>1, <1>2, <1>3 DEF IsInjective
<1>5. ToSet(t) = ToSet(s) \cup {e}
  BY <1>1, <1>2 DEF ToSet
<1> QED BY <1>4, <1>5 DEF t

\* What is left when the first is taken.
LEMMA InjTail ==
  ASSUME NEW A, NEW s \in Seq(A), s # <<>>, IsInjective(s)
  PROVE  /\ IsInjective(Tail(s)) /\ ToSet(Tail(s)) = ToSet(s) \ {Head(s)}
         /\ Head(s) \in ToSet(s) /\ Tail(s) \in Seq(A) /\ Head(s) \in A
<1> DEFINE t == Tail(s)
           n == Len(s)
<1>1. /\ n \in Nat \ {0} /\ DOMAIN s = 1..n /\ DOMAIN t = 1..(n - 1) /\ t \in Seq(A)
      /\ Head(s) \in A
  OBVIOUS
<1>2. Head(s) = s[1] /\ \A i \in 1..(n - 1) : t[i] = s[i + 1]
  OBVIOUS
<1> HIDE DEF t, n
<1>3. IsInjective(t)
  <2> SUFFICES ASSUME NEW i \in 1..(n - 1), NEW j \in 1..(n - 1), t[i] = t[j]
               PROVE  i = j
    BY <1>1 DEF IsInjective
  <2>1. i + 1 \in DOMAIN s /\ j + 1 \in DOMAIN s /\ s[i + 1] = s[j + 1]
    BY <1>1, <1>2
  <2>2. i + 1 = j + 1
    BY <2>1 DEF IsInjective
  <2> QED BY <2>2
<1>4. ToSet(t) = ToSet(s) \ {Head(s)}
  <2>1. ASSUME NEW x \in ToSet(t) PROVE x \in ToSet(s) \ {Head(s)}
    <3>1. PICK i \in 1..(n - 1) : x = t[i]
      BY <1>1 DEF ToSet
    <3>2. x = s[i + 1] /\ i + 1 \in 1..n /\ i + 1 # 1 /\ 1 \in 1..n
      BY <1>1, <1>2, <3>1
    <3> QED BY <1>1, <1>2, <3>2 DEF ToSet, IsInjective
  <2>2. ASSUME NEW x \in ToSet(s) \ {Head(s)} PROVE x \in ToSet(t)
    <3>1. PICK i \in 1..n : x = s[i]
      BY <1>1 DEF ToSet
    <3>2. i # 1 /\ i - 1 \in 1..(n - 1) /\ t[i - 1] = s[(i - 1) + 1] /\ (i - 1) + 1 = i
      BY <1>1, <1>2, <3>1
    <3> QED BY <1>1, <3>1, <3>2 DEF ToSet
  <2> QED BY <2>1, <2>2
<1>5. Head(s) \in ToSet(s)
  BY <1>1, <1>2 DEF ToSet
<1> QED BY <1>1, <1>3, <1>4, <1>5 DEF t

\* One batch after another.
LEMMA InjConcat ==
  ASSUME NEW A, NEW s \in Seq(A), NEW t \in Seq(A), IsInjective(s), IsInjective(t),
         ToSet(s) \cap ToSet(t) = {}
  PROVE  IsInjective(s \o t) /\ ToSet(s \o t) = ToSet(s) \cup ToSet(t)
<1> DEFINE u == s \o t
           n == Len(s)
           m == Len(t)
<1>1. /\ n \in Nat /\ m \in Nat /\ DOMAIN s = 1..n /\ DOMAIN t = 1..m /\ DOMAIN u = 1..(n + m)
  OBVIOUS
<1>2. /\ \A i \in 1..n : u[i] = s[i]
      /\ \A i \in 1..(n + m) : i > n => u[i] = t[i - n] /\ i - n \in 1..m
  OBVIOUS
<1>3. \A i \in 1..n, j \in 1..m : s[i] # t[j]
  BY <1>1 DEF ToSet
<1> HIDE DEF u, n, m
<1>4. IsInjective(u)
  <2> SUFFICES ASSUME NEW i \in 1..(n + m), NEW j \in 1..(n + m), u[i] = u[j]
               PROVE  i = j
    BY <1>1 DEF IsInjective
  <2>1. CASE i <= n /\ j <= n
    <3>1. i \in DOMAIN s /\ j \in DOMAIN s /\ s[i] = s[j]
      BY <1>1, <1>2, <2>1
    <3> QED BY <3>1 DEF IsInjective
  <2>2. CASE i > n /\ j > n
    <3>1. i - n \in DOMAIN t /\ j - n \in DOMAIN t /\ t[i - n] = t[j - n]
      BY <1>1, <1>2, <2>2
    <3>2. i - n = j - n
      BY <3>1 DEF IsInjective
    <3> QED BY <1>1, <3>2
  <2>3. CASE ~(i <= n <=> j <= n)
    BY <1>1, <1>2, <1>3, <2>3
  <2> QED BY <1>1, <2>1, <2>2, <2>3
<1>5. ToSet(u) = ToSet(s) \cup ToSet(t)
  <2>1. ASSUME NEW x \in ToSet(u) PROVE x \in ToSet(s) \cup ToSet(t)
    <3>1. PICK i \in 1..(n + m) : x = u[i]
      BY <1>1 DEF ToSet
    <3>2. i \in 1..n \/ i > n
      BY <1>1
    <3> QED BY <1>1, <1>2, <3>1, <3>2 DEF ToSet
  <2>2. ASSUME NEW x \in ToSet(s) PROVE x \in ToSet(u)
    <3>1. PICK i \in 1..n : x = s[i]
      BY <1>1 DEF ToSet
    <3>2. i \in 1..(n + m) /\ u[i] = s[i]
      BY <1>1, <1>2
    <3> QED BY <1>1, <3>1, <3>2 DEF ToSet
  <2>3. ASSUME NEW x \in ToSet(t) PROVE x \in ToSet(u)
    <3>1. PICK i \in 1..m : x = t[i]
      BY <1>1 DEF ToSet
    <3>2. n + i \in 1..(n + m) /\ n + i > n /\ (n + i) - n = i
      BY <1>1
    <3>3. u[n + i] = t[i]
      BY <1>2, <3>2
    <3> QED BY <1>1, <3>1, <3>2, <3>3 DEF ToSet
  <2> QED BY <2>1, <2>2, <2>3
<1> QED BY <1>4, <1>5 DEF u

\* A run cut in two.
LEMMA InjCut ==
  ASSUME NEW A, NEW s \in Seq(A), NEW k \in Nat, k <= Len(s), IsInjective(s)
  PROVE  LET near == SubSeq(s, 1, k)
             far == SubSeq(s, k + 1, Len(s))
         IN  /\ near \in Seq(A) /\ far \in Seq(A) /\ IsInjective(near) /\ IsInjective(far)
             /\ ToSet(near) \subseteq ToSet(s) /\ ToSet(far) = ToSet(s) \ ToSet(near)
<1> DEFINE n == Len(s)
           near == SubSeq(s, 1, k)
           far == SubSeq(s, k + 1, n)
<1>1. n \in Nat /\ k \in Nat /\ k <= n /\ DOMAIN s = 1..n /\ \A i \in 1..n : s[i] \in A
  OBVIOUS
<1>4. near \in Seq(A) /\ Len(near) = k /\ \A i \in 1..k : near[i] = s[i]
  <2>1. CASE k = 0
    BY <1>1, <2>1
  <2>2. CASE k # 0
    BY <1>1, <2>2
  <2> QED BY <2>1, <2>2
<1>5. far \in Seq(A) /\ Len(far) = n - k /\ \A i \in 1..(n - k) : far[i] = s[i + k]
  <2> HIDE DEF n
  <2>1. \A i \in (k + 1)..n : s[i] \in A
    BY <1>1
  <2>2. /\ far \in Seq(A) /\ Len(far) = IF k + 1 <= n THEN n - (k + 1) + 1 ELSE 0
        /\ \A i \in 1..(n - (k + 1) + 1) : far[i] = s[(k + 1) + i - 1]
    BY <1>1, <2>1, SubSeqProperties
  <2> HIDE DEF far
  <2>3. n - (k + 1) + 1 = n - k /\ \A i \in 1..(n - k) : (k + 1) + i - 1 = i + k
    BY <1>1
  <2>4. Len(far) = n - k
    BY <1>1, <2>2
  <2> QED BY <2>2, <2>3, <2>4
<1>d. DOMAIN near = 1..k /\ DOMAIN far = 1..(n - k)
      /\ (\A i \in 1..k : near[i] = s[i]) /\ (\A i \in 1..(n - k) : far[i] = s[i + k])
  BY <1>4, <1>5
<1> HIDE DEF n
<1> HIDE DEF near, far
<1>i. \A i, j \in 1..n : s[i] = s[j] => i = j
  BY <1>1 DEF IsInjective
<1>6. IsInjective(near) /\ IsInjective(far)
  <2>1. IsInjective(near)
    <3>1. \A i \in 1..k : i \in 1..n
      BY <1>1
    <3> QED BY <1>d, <1>i, <3>1 DEF IsInjective
  <2>2. ASSUME NEW i \in 1..(n - k), NEW j \in 1..(n - k), far[i] = far[j] PROVE i = j
    <3>1. i + k \in 1..n /\ j + k \in 1..n
      BY <1>1
    <3>2. i + k = j + k
      BY <1>d, <1>i, <2>2, <3>1
    <3> QED BY <1>1, <3>2
  <2> QED BY <1>d, <2>1, <2>2 DEF IsInjective
<1>7. ToSet(near) \subseteq ToSet(s)
  BY <1>1, <1>d DEF ToSet
<1>8. ToSet(far) = ToSet(s) \ ToSet(near)
  <2>1. ASSUME NEW x \in ToSet(far) PROVE x \in ToSet(s) \ ToSet(near)
    <3>1. PICK i \in 1..(n - k) : x = s[i + k]
      BY <1>d DEF ToSet
    <3>2. i + k \in 1..n /\ i + k > k
      BY <1>1
    <3>3. ASSUME NEW j \in 1..k, near[j] = x PROVE FALSE
      BY <1>1, <1>d, <1>i, <3>1, <3>2, <3>3
    <3> QED BY <1>1, <1>d, <3>1, <3>2, <3>3 DEF ToSet
  <2>2. ASSUME NEW x \in ToSet(s) \ ToSet(near) PROVE x \in ToSet(far)
    <3>1. PICK i \in 1..n : x = s[i]
      BY <1>1 DEF ToSet
    <3>2. i \notin 1..k
      BY <1>d, <3>1 DEF ToSet
    <3>3. i - k \in 1..(n - k) /\ (i - k) + k = i
      BY <1>1, <3>2
    <3> QED BY <1>d, <3>1, <3>3 DEF ToSet
  <2> QED BY <2>1, <2>2
<1> QED BY <1>4, <1>5, <1>6, <1>7, <1>8 DEF near, far, n

\* The groups of several batches.
Flat(batches) == UNION {ToSet(batches[i]) : i \in DOMAIN batches}

\* No batch has a group twice, and no two of a sequence of them have one.
FlatApart(batches) ==
  \A i, j \in DOMAIN batches : \A a \in DOMAIN batches[i], b \in DOMAIN batches[j] :
    batches[i][a] = batches[j][b] => i = j /\ a = b

\* The batches of a sequence, by their members.
LEMMA FlatMembers ==
  ASSUME NEW q
  PROVE  \A x : x \in Flat(q) <=> \E i \in DOMAIN q : \E a \in DOMAIN q[i] : x = q[i][a]
  BY DEF Flat, ToSet

\* One batch more in the queue or in a worker's hand.
LEMMA FlatAppend ==
  ASSUME NEW B, NEW q \in Seq(B), NEW b \in B, FlatApart(q), IsInjective(b),
         ToSet(b) \cap Flat(q) = {}
  PROVE  FlatApart(Append(q, b)) /\ Flat(Append(q, b)) = Flat(q) \cup ToSet(b)
<1> DEFINE t == Append(q, b)
           n == Len(q)
<1>1. n \in Nat /\ DOMAIN q = 1..n /\ DOMAIN t = 1..(n + 1)
  OBVIOUS
<1>2. t[n + 1] = b /\ \A i \in 1..n : t[i] = q[i]
  OBVIOUS
<1> HIDE DEF t, n
<1>3. \A i \in 1..(n + 1) : i = n + 1 \/ i \in 1..n
  BY <1>1
<1>4. \A x \in ToSet(b) : \A i \in 1..n : \A a \in DOMAIN q[i] : q[i][a] # x
  BY <1>1, FlatMembers
<1>5. FlatApart(t)
  <2> SUFFICES ASSUME NEW i \in 1..(n + 1), NEW j \in 1..(n + 1),
                      NEW a \in DOMAIN t[i], NEW c \in DOMAIN t[j], t[i][a] = t[j][c]
               PROVE  i = j /\ a = c
    BY <1>1 DEF FlatApart
  <2>1. CASE i \in 1..n /\ j \in 1..n
    BY <1>1, <1>2, <2>1 DEF FlatApart
  <2>2. CASE i = n + 1 /\ j = n + 1
    BY <1>2, <2>2 DEF IsInjective
  <2>3. CASE i = n + 1 /\ j \in 1..n
    BY <1>2, <1>4, <2>3 DEF ToSet
  <2>4. CASE i \in 1..n /\ j = n + 1
    BY <1>2, <1>4, <2>4 DEF ToSet
  <2> QED BY <1>3, <2>1, <2>2, <2>3, <2>4
<1>6. Flat(t) = Flat(q) \cup ToSet(b)
  <2>1. \A i \in 1..n : i \in 1..(n + 1)
    BY <1>1
  <2>2. n + 1 \in 1..(n + 1)
    BY <1>1
  <2> QED BY <1>1, <1>2, <1>3, <2>1, <2>2 DEF Flat
<1> QED BY <1>5, <1>6 DEF t

\* The first batch is taken.
LEMMA FlatTail ==
  ASSUME NEW B, NEW q \in Seq(B), q # <<>>, FlatApart(q)
  PROVE  /\ FlatApart(Tail(q)) /\ IsInjective(Head(q))
         /\ ToSet(Head(q)) \subseteq Flat(q) /\ Flat(Tail(q)) = Flat(q) \ ToSet(Head(q))
<1> DEFINE t == Tail(q)
           n == Len(q)
<1>1. n \in Nat \ {0} /\ DOMAIN q = 1..n /\ DOMAIN t = 1..(n - 1)
  OBVIOUS
<1>2. Head(q) = q[1] /\ \A i \in 1..(n - 1) : t[i] = q[i + 1]
  OBVIOUS
<1> HIDE DEF t, n
<1>3. 1 \in 1..n /\ \A i \in 1..(n - 1) : i + 1 \in 1..n /\ i + 1 # 1
  BY <1>1
<1>4. FlatApart(t)
  <2> SUFFICES ASSUME NEW i \in 1..(n - 1), NEW j \in 1..(n - 1),
                      NEW a \in DOMAIN t[i], NEW c \in DOMAIN t[j], t[i][a] = t[j][c]
               PROVE  i = j /\ a = c
    BY <1>1 DEF FlatApart
  <2>0. /\ i + 1 \in DOMAIN q /\ j + 1 \in DOMAIN q /\ t[i] = q[i + 1] /\ t[j] = q[j + 1]
    BY <1>1, <1>2, <1>3
  <2>1. i + 1 = j + 1 /\ a = c
    BY <2>0 DEF FlatApart
  <2> QED BY <1>1, <2>1
<1>5. IsInjective(Head(q))
  BY <1>1, <1>2, <1>3 DEF FlatApart, IsInjective
<1>6. ToSet(Head(q)) \subseteq Flat(q)
  BY <1>1, <1>2, <1>3 DEF Flat
<1>7. Flat(t) = Flat(q) \ ToSet(Head(q))
  <2>1. ASSUME NEW x \in Flat(t) PROVE x \in Flat(q) \ ToSet(Head(q))
    <3>1. PICK i \in 1..(n - 1) : \E a \in DOMAIN t[i] : x = t[i][a]
      BY <1>1, FlatMembers
    <3>2. PICK a \in DOMAIN t[i] : x = t[i][a]
      BY <3>1
    <3>3. x = q[i + 1][a] /\ a \in DOMAIN q[i + 1] /\ i + 1 \in DOMAIN q /\ i + 1 # 1
      BY <1>1, <1>2, <1>3, <3>2
    <3>4. x \in Flat(q)
      BY <3>3, FlatMembers
    <3>5. ASSUME NEW c \in DOMAIN q[1], x = q[1][c] PROVE FALSE
      <4>1. 1 \in DOMAIN q /\ q[i + 1][a] = q[1][c]
        BY <1>1, <1>3, <3>3, <3>5
      <4>2. i + 1 = 1
        BY <3>3, <4>1 DEF FlatApart
      <4> QED BY <3>3, <4>2
    <3> QED BY <1>2, <3>4, <3>5 DEF ToSet
  <2>2. ASSUME NEW x \in Flat(q), x \notin ToSet(Head(q)) PROVE x \in Flat(t)
    <3>1. PICK i \in 1..n : \E a \in DOMAIN q[i] : x = q[i][a]
      BY <1>1, FlatMembers
    <3>2. i # 1
      BY <1>2, <2>2, <3>1 DEF ToSet
    <3>3. i - 1 \in 1..(n - 1) /\ t[i - 1] = q[(i - 1) + 1] /\ (i - 1) + 1 = i
      BY <1>1, <1>2, <3>2
    <3> QED BY <1>1, <3>1, <3>3, FlatMembers
  <2> QED BY <2>1, <2>2
<1> QED BY <1>4, <1>5, <1>6, <1>7 DEF t

\* Nothing, and one batch.
LEMMA FlatSmall ==
  /\ ToSet(<<>>) = {} /\ IsInjective(<<>>) /\ Flat(<<>>) = {} /\ FlatApart(<<>>)
  /\ \A x : ToSet(<<x>>) = {x} /\ IsInjective(<<x>>)
  /\ \A b : IsInjective(b) => Flat(<<b>>) = ToSet(b) /\ FlatApart(<<b>>)
<1>1. ToSet(<<>>) = {} /\ IsInjective(<<>>) /\ Flat(<<>>) = {} /\ FlatApart(<<>>)
  BY DEF ToSet, IsInjective, Flat, FlatApart
<1>2. ASSUME NEW x PROVE ToSet(<<x>>) = {x} /\ IsInjective(<<x>>)
  BY DEF ToSet, IsInjective
<1>3. ASSUME NEW b, IsInjective(b) PROVE Flat(<<b>>) = ToSet(b) /\ FlatApart(<<b>>)
  <2>1. DOMAIN <<b>> = {1} /\ <<b>>[1] = b
    OBVIOUS
  <2>2. Flat(<<b>>) = ToSet(b)
    BY <2>1 DEF Flat
  <2>3. FlatApart(<<b>>)
    BY <1>3, <2>1 DEF FlatApart, IsInjective
  <2> QED BY <2>2, <2>3
<1> QED BY <1>1, <1>2, <1>3

----------------------------------------------------------------------------
(* The spots of a group, and what may be where.                            *)

\* A worker before its task may hand groups over, and while it does.
Before == {"counted", "reserve", "admit", "read"} \cup WaitsBytes
During == {"handoff", "stream", "unwinding"}

\* The kinds of spots a group passes, in order; "busy" is between.
Early == {"batch", "feed", "run", "todo"}
Late == {"worked", "held", "out", "queue", "caller", "emitted"}

\* One spot of each shared kind, and one of each other kind for each worker.
Shared == {"batch", "feed", "queue", "caller", "emitted"}
Own == {"run", "todo", "busy", "worked", "held", "out"}
Spot == (Shared \X {None}) \cup (Own \X Worker)

OfAll(kind) == <<kind, None>>
Emission == OfAll("emitted")

Apart(S) == \A a, b \in Spot : \A g \in S[a] : g \in S[b] => a = b

Somewhere(S, g) == \E a \in Spot : g \in S[a]

\* S tells which groups are at each spot.  Every task the source has yielded
\* is at one spot, every other at none; a task's stream is opened once its work
\* has begun, and emitted before the task's group leaves its worker.
Sorted(S, next, streamed) ==
  /\ Apart(S)
  /\ \A t \in Task : t < next <=> Somewhere(S, t)
  /\ \A t \in Task : Somewhere(S, -t) =>
       t < next /\ \A a \in Spot : t \in S[a] => a[1] \notin Early
  /\ \A t \in streamed, a \in Spot : t \in S[a] /\ a[1] \in Late => -t \in S[Emission]

\* The groups M leave one spot for another.
Shift(S, from, to, M) ==
  [a \in Spot |-> IF a = from THEN S[a] \ M ELSE IF a = to THEN S[a] \cup M ELSE S[a]]

\* Emission is a spot, and kinds are apart.
LEMMA SpotKinds ==
  /\ Emission \in Spot /\ Emission[1] \in Late
  /\ Early \cap Late = {} /\ "busy" \notin Early \cup Late
  BY DEF Emission, OfAll, Spot, Shared, Own, Early, Late

\* A group that moves on keeps the order, if it leaves for a late spot only
\* with its stream emitted.
LEMMA ShiftSorted ==
  ASSUME NEW S, NEW next, NEW streamed \in SUBSET Task, Sorted(S, next, streamed),
         NEW from \in Spot, NEW to \in Spot, from # to, NEW M \in SUBSET S[from],
         from # Emission,
         to[1] \in Early => from[1] \in Early,
         to[1] \in Late /\ from[1] \notin Late =>
           \A t \in streamed : t \in M => -t \in S[Emission]
  PROVE  Sorted(Shift(S, from, to, M), next, streamed)
<1> DEFINE T == Shift(S, from, to, M)
<1>1. /\ T[from] = S[from] \ M /\ T[to] = S[to] \cup M
      /\ \A a \in Spot : a # from /\ a # to => T[a] = S[a]
  BY DEF Shift
<1> HIDE DEF T
<1>2. Apart(S)
  BY DEF Sorted
<1>3. \A a \in Spot : \A g \in T[a] : g \in S[a] \/ (a = to /\ g \in M)
  BY <1>1
<1>4. \A g : Somewhere(T, g) <=> Somewhere(S, g)
  BY <1>1 DEF Somewhere
<1>5. Apart(T)
  <2> SUFFICES ASSUME NEW a \in Spot, NEW b \in Spot, NEW g \in T[a], g \in T[b]
               PROVE  a = b
    BY DEF Apart
  <2>1. CASE g \in M
    <3>1. \A c \in Spot : g \in S[c] => c = from
      BY <1>2, <2>1 DEF Apart
    <3> QED BY <1>1, <2>1, <3>1
  <2>2. CASE g \notin M
    BY <1>2, <1>3, <2>2 DEF Apart
  <2> QED BY <2>1, <2>2
<1>6. \A t \in Task : t < next <=> Somewhere(T, t)
  BY <1>4 DEF Sorted
<1>7. ASSUME NEW t \in Task, Somewhere(T, -t), NEW a \in Spot, t \in T[a]
      PROVE  a[1] \notin Early
  <2>1. \A b \in Spot : t \in S[b] => b[1] \notin Early
    BY <1>4, <1>7 DEF Sorted
  <2> QED BY <1>3, <1>7, <2>1
<1>8. \A t \in Task : Somewhere(T, -t) => t < next
  BY <1>4 DEF Sorted
<1>9. ASSUME NEW t \in streamed, NEW a \in Spot, t \in T[a], a[1] \in Late
      PROVE  -t \in T[Emission]
  <2>1. S[Emission] \subseteq T[Emission]
    BY <1>1, SpotKinds
  <2>2. -t \in S[Emission]
    <3>1. CASE t \in S[a]
      BY <1>9, <3>1 DEF Sorted
    <3>2. CASE a = to /\ t \in M
      <4>1. t \in S[from]
        BY <3>2
      <4> QED BY <1>9, <3>2, <4>1 DEF Sorted
    <3> QED BY <1>3, <1>9, <3>1, <3>2
  <2> QED BY <2>1, <2>2
<1>10. Sorted(T, next, streamed)
  BY <1>5, <1>6, <1>7, <1>8, <1>9 DEF Sorted
<1> QED BY <1>10 DEF T

\* The groups X enter at a spot.
Entered(S, to, X) == [a \in Spot |-> IF a = to THEN S[a] \cup X ELSE S[a]]

\* The source yields a task: to the batch, or to a caller that works alone and
\* publishes its stream with it.
LEMMA YieldSorted ==
  ASSUME NEW S, NEW next \in Task, NEW streamed \in SUBSET Task, Sorted(S, next, streamed),
         NEW to \in Spot, NEW X, next \in X, X \subseteq {next, -next},
         to[1] \in Early => -next \notin X,
         to[1] \in Late /\ next \in streamed => to = Emission /\ -next \in X
  PROVE  Sorted(Entered(S, to, X), next + 1, streamed)
<1> DEFINE T == Entered(S, to, X)
<1>0. next \in Int /\ next > 0 /\ \A t \in Task : t \in Int /\ t > 0
  BY DEF Task
<1>1. T[to] = S[to] \cup X /\ \A a \in Spot : a # to => T[a] = S[a]
  BY DEF Entered
<1> HIDE DEF T
<1>2. ~Somewhere(S, next) /\ ~Somewhere(S, -next)
  BY <1>0 DEF Sorted
<1>3. \A x \in X : ~Somewhere(S, x)
  BY <1>2
<1>4. \A g : Somewhere(T, g) <=> Somewhere(S, g) \/ g \in X
  BY <1>1 DEF Somewhere
<1>5. Apart(T)
  <2> SUFFICES ASSUME NEW a \in Spot, NEW b \in Spot, NEW g \in T[a], g \in T[b]
               PROVE  a = b
    BY DEF Apart
  <2>1. CASE g \in X
    BY <1>1, <1>3, <2>1 DEF Somewhere
  <2>2. CASE g \notin X
    <3>1. g \in S[a] /\ g \in S[b]
      BY <1>1, <2>2
    <3> QED BY <3>1 DEF Apart, Sorted
  <2> QED BY <2>1, <2>2
<1>6. ASSUME NEW t \in Task PROVE t < next + 1 <=> Somewhere(T, t)
  <2>1. t \in X <=> t = next
    BY <1>0
  <2>2. t < next + 1 <=> t < next \/ t = next
    BY <1>0
  <2> QED BY <1>4, <2>1, <2>2 DEF Sorted
<1>7. ASSUME NEW t \in Task, Somewhere(T, -t)
      PROVE  t < next + 1 /\ \A a \in Spot : t \in T[a] => a[1] \notin Early
  <2>1. CASE t = next
    <3>1. -next \in X
      BY <1>2, <1>4, <1>7, <2>1
    <3>2. \A a \in Spot : t \in T[a] => a = to
      BY <1>1, <1>2, <2>1 DEF Somewhere
    <3> QED BY <1>0, <2>1, <3>1, <3>2
  <2>2. CASE t # next
    <3>1. t \notin X /\ -t \notin X
      BY <1>0, <2>2
    <3>2. Somewhere(S, -t)
      BY <1>4, <1>7, <3>1
    <3>3. t < next /\ \A a \in Spot : t \in S[a] => a[1] \notin Early
      BY <3>2 DEF Sorted
    <3>4. t < next + 1
      BY <1>0, <3>3
    <3>5. \A a \in Spot : t \in T[a] => t \in S[a]
      BY <1>1, <3>1
    <3> QED BY <3>3, <3>4, <3>5
  <2> QED BY <2>1, <2>2
<1>8. ASSUME NEW t \in streamed, NEW a \in Spot, t \in T[a], a[1] \in Late
      PROVE  -t \in T[Emission]
  <2>1. S[Emission] \subseteq T[Emission]
    BY <1>1, SpotKinds
  <2>2. CASE t = next
    <3>1. a = to
      BY <1>1, <1>2, <1>8, <2>2 DEF Somewhere
    <3> QED BY <1>1, <1>8, <2>2, <3>1
  <2>3. CASE t # next
    <3>1. t \notin X
      BY <1>0, <2>3
    <3>2. t \in S[a]
      BY <1>1, <1>8, <3>1
    <3> QED BY <1>8, <2>1, <3>2 DEF Sorted
  <2> QED BY <2>2, <2>3
<1>9. Sorted(T, next + 1, streamed)
  BY <1>5, <1>6, <1>7, <1>8 DEF Sorted
<1> QED BY <1>9 DEF T

\* A task at work opens its stream.
LEMMA OpenSorted ==
  ASSUME NEW S, NEW next, NEW streamed \in SUBSET Task, Sorted(S, next, streamed),
         NEW t \in Task, NEW at \in Spot, t \in S[at], at[1] = "busy", ~Somewhere(S, -t),
         NEW to \in Spot
  PROVE  Sorted(Entered(S, to, {-t}), next, streamed)
<1> DEFINE T == Entered(S, to, {-t})
<1>0. t \in Int /\ t > 0 /\ \A u \in Task : u \in Int /\ u > 0
  BY DEF Task
<1>1. T[to] = S[to] \cup {-t} /\ \A a \in Spot : a # to => T[a] = S[a]
  BY DEF Entered
<1> HIDE DEF T
<1>2. \A g : Somewhere(T, g) <=> Somewhere(S, g) \/ g = -t
  BY <1>1 DEF Somewhere
<1>3. Apart(T)
  <2> SUFFICES ASSUME NEW a \in Spot, NEW b \in Spot, NEW g \in T[a], g \in T[b]
               PROVE  a = b
    BY DEF Apart
  <2>1. CASE g = -t
    BY <1>1, <2>1 DEF Somewhere
  <2>2. CASE g # -t
    <3>1. g \in S[a] /\ g \in S[b]
      BY <1>1, <2>2
    <3> QED BY <3>1 DEF Apart, Sorted
  <2> QED BY <2>1, <2>2
<1>4. \A u \in Task, a \in Spot : u \in T[a] => u \in S[a]
  BY <1>0, <1>1
<1>5. \A u \in Task : u < next <=> Somewhere(T, u)
  <2>1. \A u \in Task : u # -t
    BY <1>0
  <2> QED BY <1>2, <2>1 DEF Sorted
<1>6. ASSUME NEW u \in Task, Somewhere(T, -u)
      PROVE  u < next /\ \A a \in Spot : u \in T[a] => a[1] \notin Early
  <2>1. CASE u = t
    <3>1. t < next
      BY DEF Sorted, Somewhere
    <3>2. \A a \in Spot : t \in S[a] => a = at
      BY DEF Sorted, Apart
    <3> QED BY <1>4, <2>1, <3>1, <3>2, SpotKinds
  <2>2. CASE u # t
    <3>1. Somewhere(S, -u)
      <4>1. -u # -t
        BY <1>0, <2>2
      <4> QED BY <1>2, <1>6, <4>1
    <3> QED BY <1>4, <3>1 DEF Sorted
  <2> QED BY <2>1, <2>2
<1>7. ASSUME NEW u \in streamed, NEW a \in Spot, u \in T[a], a[1] \in Late
      PROVE  -u \in T[Emission]
  <2>1. S[Emission] \subseteq T[Emission]
    BY <1>1, SpotKinds
  <2> QED BY <1>4, <1>7, <2>1 DEF Sorted
<1>8. Sorted(T, next, streamed)
  BY <1>3, <1>5, <1>6, <1>7 DEF Sorted
<1> QED BY <1>8 DEF T

\* Only what is at the spots matters.
LEMMA SameSorted ==
  ASSUME NEW S, NEW T, NEW next, NEW streamed, Sorted(S, next, streamed),
         \A a \in Spot : T[a] = S[a]
  PROVE  Sorted(T, next, streamed)
<1>1. Apart(T) /\ (\A g : Somewhere(T, g) <=> Somewhere(S, g)) /\ T[Emission] = S[Emission]
  BY SpotKinds DEF Sorted, Apart, Somewhere
<1> QED BY <1>1 DEF Sorted


\* One spot's groups leave for another.
Shifts(S, T, from, to, M) ==
  /\ M \subseteq S[from] /\ T[from] = S[from] \ M /\ T[to] = S[to] \cup M
  /\ \A a \in Spot \ {from, to} : T[a] = S[a]

\* The same, in terms of ShiftSorted.
LEMMA ShiftsSorted ==
  ASSUME NEW S, NEW T, NEW next, NEW streamed \in SUBSET Task, Sorted(S, next, streamed),
         NEW from \in Spot, NEW to \in Spot, from # to, NEW M, Shifts(S, T, from, to, M),
         from # Emission,
         to[1] \in Early => from[1] \in Early,
         to[1] \in Late /\ from[1] \notin Late =>
           \A t \in streamed : t \in M => -t \in S[Emission]
  PROVE  Sorted(T, next, streamed)
<1>1. M \in SUBSET S[from]
  BY DEF Shifts
<1>2. Sorted(Shift(S, from, to, M), next, streamed)
  BY <1>1, ShiftSorted
<1>3. \A a \in Spot : T[a] = Shift(S, from, to, M)[a]
  BY DEF Shift, Shifts
<1> QED BY <1>2, <1>3, SameSorted

\* A shift shifts.
LEMMA ShiftShifts ==
  ASSUME NEW S, NEW from \in Spot, NEW to \in Spot, from # to, NEW M \in SUBSET S[from]
  PROVE  Shifts(S, Shift(S, from, to, M), from, to, M)
  BY DEF Shift, Shifts

----------------------------------------------------------------------------
(* The groups of a state.                                                  *)

TaskAt(record, places) == IF record.at \in places THEN {record.task} ELSE {}

\* A stream is emitted before it is read to its end.
Pending(c) == IF c.at = "stream" THEN ToSet(Tail(c.batch)) ELSE ToSet(c.batch)

SharedLot(kind, p, f, q, c, e) ==
  CASE kind = "batch"   -> ToSet(p.batch)
    [] kind = "feed"    -> ToSet(f.tasks)
    [] kind = "queue"   -> Flat(q)
    [] kind = "caller"  -> Pending(c)
    [] kind = "emitted" -> ToSet(e)

OwnLot(kind, w, r, ws, h) ==
  CASE kind = "run"     -> ToSet(r[w])
    [] kind = "todo"    -> TaskAt(ws[w], Before)
    [] kind = "busy"    -> TaskAt(ws[w], During)
    [] kind = "worked"  -> TaskAt(ws[w], {"worked"})
    [] kind = "held"    -> ToSet(h[w].groups)
    [] kind = "out"     -> Flat(ws[w].out)

LotsOf(p, f, r, ws, h, q, c, e) ==
  [a \in Spot |-> IF a[1] \in Shared THEN SharedLot(a[1], p, f, q, c, e)
                  ELSE OwnLot(a[1], a[2], r, ws, h)]

Lots == LotsOf(prod, feed, run, worker, held, queue, caller, emitted)

\* The table, spot by spot.
SharedLaid(S, p, f, q, c, e) ==
  /\ S[OfAll("batch")] = ToSet(p.batch)
  /\ S[OfAll("feed")] = ToSet(f.tasks)
  /\ S[OfAll("queue")] = Flat(q)
  /\ S[OfAll("caller")] = Pending(c)
  /\ S[OfAll("emitted")] = ToSet(e)

OwnLaid(S, w, r, ws, h) ==
  /\ S[<<"run", w>>] = ToSet(r[w])
  /\ S[<<"todo", w>>] = TaskAt(ws[w], Before)
  /\ S[<<"busy", w>>] = TaskAt(ws[w], During)
  /\ S[<<"worked", w>>] = TaskAt(ws[w], {"worked"})
  /\ S[<<"held", w>>] = ToSet(h[w].groups)
  /\ S[<<"out", w>>] = Flat(ws[w].out)

\* What the table says of each spot.
LEMMA LotsAre ==
  ASSUME NEW p, NEW f, NEW r, NEW ws, NEW h, NEW q, NEW c, NEW e
  PROVE  /\ SharedLaid(LotsOf(p, f, r, ws, h, q, c, e), p, f, q, c, e)
         /\ \A w \in Worker : OwnLaid(LotsOf(p, f, r, ws, h, q, c, e), w, r, ws, h)
<1> DEFINE S == LotsOf(p, f, r, ws, h, q, c, e)
<1>1. ASSUME NEW k \in Shared PROVE S[OfAll(k)] = SharedLot(k, p, f, q, c, e)
  <2>1. OfAll(k) \in Spot /\ OfAll(k)[1] = k
    BY DEF OfAll, Spot
  <2> QED BY <2>1 DEF LotsOf
<1>2. ASSUME NEW k \in Own, NEW w \in Worker PROVE S[<<k, w>>] = OwnLot(k, w, r, ws, h)
  <2>1. <<k, w>> \in Spot /\ <<k, w>>[1] = k /\ <<k, w>>[2] = w /\ k \notin Shared
    BY DEF Spot, Shared, Own
  <2> QED BY <2>1 DEF LotsOf
<1> HIDE DEF S
<1>3. SharedLaid(S, p, f, q, c, e)
  BY <1>1 DEF SharedLaid, SharedLot, Shared
<1>4. \A w \in Worker : OwnLaid(S, w, r, ws, h)
  BY <1>2 DEF OwnLaid, OwnLot, Own
<1> QED BY <1>3, <1>4 DEF S

\* Two tables that agree on every kind of spot agree.
LEMMA SpotsCover ==
  ASSUME NEW a \in Spot
  PROVE  (\E k \in Shared : a = OfAll(k)) \/ (\E k \in Own, w \in Worker : a = <<k, w>>)
  BY DEF Spot, OfAll

\* A notified worker's groups stay where they are.
LEMMA SlidesSame ==
  ASSUME NEW a, NEW b, Slides(a, b)
  PROVE  /\ TaskAt(b, Before) = TaskAt(a, Before) /\ TaskAt(b, During) = TaskAt(a, During)
         /\ TaskAt(b, {"worked"}) = TaskAt(a, {"worked"}) /\ b.out = a.out
  BY DEF Slides, TaskAt, Before, During, WaitsBytes

\* Where a worker's step may change the table: in its own row, in the feed and
\* the queue, and in the run u that it steals from.
InReach(w, u) == (Own \X {w}) \cup {OfAll("feed"), OfAll("queue"), <<"run", u>>}

Row(w, at, task, out, u) ==
  /\ Turned(w, at, task, out)
  /\ \A v \in Worker \ {w} : held'[v] = held[v] /\ (v # u => run'[v] = run[v])
  /\ prod'.batch = prod.batch /\ UNCHANGED <<caller, emitted>>

\* And nowhere else.
LEMMA RowLots ==
  ASSUME NEW w \in Worker, NEW u \in Worker, NEW at, NEW task, NEW out,
         Row(w, at, task, out, u)
  PROVE  /\ \A a \in Spot \ InReach(w, u) : Lots'[a] = Lots[a]
         /\ SharedLaid(Lots, prod, feed, queue, caller, emitted)
         /\ SharedLaid(Lots', prod', feed', queue', caller', emitted')
         /\ \A v \in Worker : /\ OwnLaid(Lots, v, run, worker, held)
                              /\ OwnLaid(Lots', v, run', worker', held')
<1>1. /\ SharedLaid(Lots, prod, feed, queue, caller, emitted)
      /\ SharedLaid(Lots', prod', feed', queue', caller', emitted')
      /\ \A v \in Worker : OwnLaid(Lots, v, run, worker, held)
      /\ \A v \in Worker : OwnLaid(Lots', v, run', worker', held')
  BY LotsAre DEF Lots
<1>2. ASSUME NEW k \in Shared, OfAll(k) \notin InReach(w, u) PROVE Lots'[OfAll(k)] = Lots[OfAll(k)]
  <2>1. k \in {"batch", "caller", "emitted"}
    BY <1>2 DEF InReach, Shared
  <2> QED BY <1>1, <2>1 DEF SharedLaid, Row
<1>3. ASSUME NEW k \in Own, NEW v \in Worker, <<k, v>> \notin InReach(w, u)
      PROVE  Lots'[<<k, v>>] = Lots[<<k, v>>]
  <2>1. v # w /\ ~(k = "run" /\ v = u)
    BY <1>3 DEF InReach
  <2>2. Slides(worker[v], worker'[v]) /\ held'[v] = held[v] /\ (v # u => run'[v] = run[v])
    BY <2>1 DEF Row, Turned
  <2>3. /\ TaskAt(worker'[v], Before) = TaskAt(worker[v], Before)
        /\ TaskAt(worker'[v], During) = TaskAt(worker[v], During)
        /\ TaskAt(worker'[v], {"worked"}) = TaskAt(worker[v], {"worked"})
        /\ worker'[v].out = worker[v].out
    BY <2>2, SlidesSame
  <2>4. OwnLaid(Lots, v, run, worker, held) /\ OwnLaid(Lots', v, run', worker', held')
    BY <1>1
  <2>5. CASE k = "run"
    BY <2>1, <2>2, <2>4, <2>5 DEF OwnLaid
  <2>6. CASE k \in Own \ {"run"}
    BY <2>2, <2>3, <2>4, <2>6 DEF OwnLaid, Own
  <2> QED BY <2>5, <2>6
<1>4. ASSUME NEW a \in Spot, a \notin InReach(w, u) PROVE Lots'[a] = Lots[a]
  BY <1>2, <1>3, <1>4, SpotsCover
<1> QED BY <1>1, <1>4

\* A step of the producer or the caller wakes workers at most.
LEMMA NudgeLots ==
  ASSUME Nudged(worker, worker'), UNCHANGED run
  PROVE  /\ \A k \in Own \ {"held"}, v \in Worker : Lots'[<<k, v>>] = Lots[<<k, v>>]
         /\ \A v \in Worker : held'[v] = held[v] => Lots'[<<"held", v>>] = Lots[<<"held", v>>]
         /\ SharedLaid(Lots, prod, feed, queue, caller, emitted)
         /\ SharedLaid(Lots', prod', feed', queue', caller', emitted')
         /\ \A v \in Worker : /\ OwnLaid(Lots, v, run, worker, held)
                              /\ OwnLaid(Lots', v, run', worker', held')
<1>1. /\ SharedLaid(Lots, prod, feed, queue, caller, emitted)
      /\ SharedLaid(Lots', prod', feed', queue', caller', emitted')
      /\ \A v \in Worker : OwnLaid(Lots, v, run, worker, held)
      /\ \A v \in Worker : OwnLaid(Lots', v, run', worker', held')
  BY LotsAre DEF Lots
<1>2. ASSUME NEW k \in Own, k # "held", NEW v \in Worker PROVE Lots'[<<k, v>>] = Lots[<<k, v>>]
  <2>1. Slides(worker[v], worker'[v])
    BY DEF Nudged
  <2>3. /\ TaskAt(worker'[v], Before) = TaskAt(worker[v], Before)
        /\ TaskAt(worker'[v], During) = TaskAt(worker[v], During)
        /\ TaskAt(worker'[v], {"worked"}) = TaskAt(worker[v], {"worked"})
        /\ worker'[v].out = worker[v].out
    BY <2>1, SlidesSame
  <2>4. OwnLaid(Lots, v, run, worker, held) /\ OwnLaid(Lots', v, run', worker', held')
    BY <1>1
  <2>5. k \in {"run", "todo", "busy", "worked", "out"}
    BY <1>2 DEF Own
  <2> QED BY <2>3, <2>4, <2>5 DEF OwnLaid
<1>3. ASSUME NEW v \in Worker, held'[v] = held[v]
      PROVE  Lots'[<<"held", v>>] = Lots[<<"held", v>>]
  BY <1>1, <1>3 DEF OwnLaid
<1> QED BY <1>1, <1>2, <1>3


----------------------------------------------------------------------------
(* The invariant.                                                          *)

\* No group is twice in a sequence.
Tidy ==
  /\ IsInjective(prod.batch) /\ IsInjective(feed.tasks) /\ IsInjective(caller.batch)
  /\ FlatApart(queue)
  /\ \A w \in Worker : /\ IsInjective(run[w]) /\ IsInjective(held[w].groups)
                       /\ FlatApart(worker[w].out)

Exits == {"flush", "sendlast", "leave", "gone"}
Sends == {"handoff", "send", "sendlast"}

\* A worker leaves with nothing, and not before the feed is closed and empty.
Leaving ==
  \A w \in Worker :
    /\ w \notin mode.started => worker[w].at = "gone"
    /\ worker[w].at \in Exits => run[w] = <<>>
    /\ worker[w].at \in Exits \ {"flush"} => held[w].groups = <<>>
    /\ worker[w].at \notin Sends => worker[w].out = <<>>
    /\ worker[w].at = "sendlast" => Len(worker[w].out) = 1
    /\ w \in mode.started /\ worker[w].at \in Exits => feed.closed /\ feed.tasks = <<>>

\* The feed is closed when the source is at its end.
Feeding ==
  /\ ~mode.fed => prod.at = "gone"
  /\ mode.fed => /\ feed.closed => prod.at = "gone"
                 /\ prod.at \in {"end", "gone"} => prod.next > mode.count /\ prod.batch = <<>>
                 /\ ~prod.closed

\* What the caller has, and what it has published when it works alone.
Calling ==
  /\ caller.at \in {"unfed", "alone"} =>
       ~mode.fed /\ \A t \in 1..(prod.next - 1) : t \in ToSet(emitted)
  /\ caller.at \in {"collect", "sweep", "publish", "stream"} => mode.fed
  /\ caller.at \notin {"publish", "stream"} => caller.batch = <<>>
  /\ caller.at = "stream" => Head(caller.batch) \in ToSet(emitted)

Live == Sorted(Lots, prod.next, mode.streamed) /\ Tidy /\ Leaving /\ Feeding /\ Calling

\* The receiver is dropped, and a panic is past its close, in a stopped run.
Stopping == ReceiverGone \/ (\E w \in Worker : worker[w].at = "halting") => stop

\* A run that has stopped drops tasks wherever they are.
GroupInv == EveryGroupOnce /\ Stopping /\ (~Stopped => Live)

----------------------------------------------------------------------------
(* A worker's step in a run that goes on.                                  *)

\* What the worker's row and the feed are left as.
RowTidy(w, at, out, u) ==
  /\ IsInjective(feed'.tasks) /\ FlatApart(queue') /\ FlatApart(out)
  /\ IsInjective(run'[w]) /\ IsInjective(run'[u]) /\ IsInjective(held'[w].groups)
  /\ u # w => run[u] # <<>>
  /\ at \in Exits => run'[w] = <<>> /\ feed.closed /\ feed.tasks = <<>>
  /\ at \in Exits \ {"flush"} => held'[w].groups = <<>>
  /\ at \notin Sends => out = <<>>
  /\ at = "sendlast" => Len(out) = 1
  /\ feed'.closed = feed.closed /\ (feed.tasks = <<>> => feed'.tasks = <<>>)
  /\ prod' = prod \/ prod' = Rouse(prod)

\* A worker that is not gone was started.
LEMMA RowLive ==
  ASSUME TypeInv, Live, UNCHANGED mode,
         NEW w \in Worker, NEW u \in Worker, NEW at, NEW task, NEW out,
         Row(w, at, task, out, u), RowTidy(w, at, out, u), worker[w].at # "gone",
         Sorted(Lots', prod.next, mode.streamed)
  PROVE  Live'
<1>1. prod'.at \in {prod.at, "roused"} /\ prod'.next = prod.next /\ prod'.closed = prod.closed
      /\ (prod'.at \in {"end", "gone"} <=> prod.at \in {"end", "gone"})
      /\ (prod.at = "gone" => prod'.at = "gone")
  BY DEF RowTidy, Rouse, TypeInv, ProdRecord
<1>2. prod'.batch = prod.batch /\ caller' = caller /\ emitted' = emitted
  BY DEF Row
<1>3. Sorted(Lots, prod.next, mode.streamed)'
  BY <1>1
<1>4. Tidy'
  <2>1. IsInjective(prod'.batch) /\ IsInjective(caller'.batch)
    BY <1>2 DEF Live, Tidy
  <2>2. ASSUME NEW v \in Worker
        PROVE  IsInjective(run'[v]) /\ IsInjective(held'[v].groups) /\ FlatApart(worker'[v].out)
    <3>1. CASE v = w
      BY <3>1 DEF RowTidy, Row, Turned
    <3>2. CASE v # w
      <4>1. held'[v] = held[v] /\ worker'[v].out = worker[v].out
        BY <3>2 DEF Row, Turned, Slides
      <4>2. v = u \/ run'[v] = run[v]
        BY <3>2 DEF Row
      <4> QED BY <4>1, <4>2 DEF RowTidy, Live, Tidy
    <3> QED BY <3>1, <3>2
  <2> QED BY <2>1, <2>2 DEF Tidy, RowTidy
<1>5. Leaving'
  <2> SUFFICES ASSUME NEW v \in Worker
               PROVE  /\ v \notin mode.started => worker'[v].at = "gone"
                      /\ worker'[v].at \in Exits => run'[v] = <<>>
                      /\ worker'[v].at \in Exits \ {"flush"} => held'[v].groups = <<>>
                      /\ worker'[v].at \notin Sends => worker'[v].out = <<>>
                      /\ worker'[v].at = "sendlast" => Len(worker'[v].out) = 1
                      /\ v \in mode.started /\ worker'[v].at \in Exits =>
                           feed'.closed /\ feed'.tasks = <<>>
    BY DEF Leaving
  <2>1. CASE v = w
    <3>1. w \in mode.started
      BY DEF Live, Leaving
    <3>2. worker'[w].at = at /\ worker'[w].out = out
      BY DEF Row, Turned
    <3> QED BY <2>1, <3>1, <3>2 DEF RowTidy
  <2>2. CASE v # w
    <3>1. Slides(worker[v], worker'[v]) /\ held'[v] = held[v]
          /\ (v = u \/ run'[v] = run[v])
      BY <2>2 DEF Row, Turned
    <3>2. /\ worker'[v].out = worker[v].out
          /\ worker'[v].at \in Exits => worker'[v].at = worker[v].at
          /\ worker[v].at = "gone" => worker'[v].at = "gone"
          /\ worker'[v].at \notin Sends => worker[v].at \notin Sends
          /\ worker'[v].at = "sendlast" => worker[v].at = "sendlast"
      BY <3>1 DEF Slides, Exits, Sends
    <3>3. worker'[v].at \in Exits => run'[v] = <<>>
      BY <2>2, <3>1, <3>2 DEF Live, Leaving, RowTidy
    <3> QED BY <3>1, <3>2, <3>3 DEF Live, Leaving, RowTidy
  <2> QED BY <2>1, <2>2
<1>6. Feeding'
  BY <1>1, <1>2 DEF Live, Feeding, RowTidy
<1>7. Calling'
  BY <1>1, <1>2 DEF Live, Calling
<1> QED BY <1>3, <1>4, <1>5, <1>6, <1>7 DEF Live

\* A step after which every group is where it was.
LEMMA RowStays ==
  ASSUME TypeInv, Live, UNCHANGED <<mode, run, held, queue>>,
         NEW w \in Worker, NEW at, NEW task, Turned(w, at, task, worker[w].out),
         worker[w].at # "gone", UNCHANGED <<caller, emitted>>,
         prod' = prod \/ prod' = Rouse(prod),
         feed'.tasks = feed.tasks, feed'.closed = feed.closed,
         worker[w].at \in Before <=> at \in Before,
         worker[w].at \in During <=> at \in During,
         worker[w].at = "worked" <=> at = "worked",
         at \in Before \cup During \cup {"worked"} => task = worker[w].task,
         at \in Exits /\ worker[w].at \notin Exits =>
           at = "flush" /\ run[w] = <<>> /\ feed.closed /\ feed.tasks = <<>>,
         at \in Exits /\ worker[w].at = "flush" => at = "flush",
         at \notin Sends => worker[w].at \notin Sends, at # "sendlast"
  PROVE  Live'
<1> DEFINE out == worker[w].out
<1>1. prod'.batch = prod.batch
  BY DEF Rouse, TypeInv, ProdRecord
<1>2. Row(w, at, task, out, w)
  BY <1>1 DEF Row
<1>3. w \in mode.started
  BY DEF Live, Leaving
<1>4. RowTidy(w, at, out, w)
  BY <1>3 DEF RowTidy, Live, Tidy, Leaving
<1> HIDE DEF out
<1>5. /\ \A a \in Spot \ InReach(w, w) : Lots'[a] = Lots[a]
      /\ SharedLaid(Lots, prod, feed, queue, caller, emitted)
      /\ SharedLaid(Lots', prod', feed', queue', caller', emitted')
      /\ OwnLaid(Lots, w, run, worker, held)
      /\ OwnLaid(Lots', w, run', worker', held')
  BY <1>2, RowLots
<1>6. /\ worker'[w].at = at /\ worker'[w].task = task /\ worker'[w].out = worker[w].out
  BY DEF Turned
<1>7. /\ TaskAt(worker'[w], Before) = TaskAt(worker[w], Before)
      /\ TaskAt(worker'[w], During) = TaskAt(worker[w], During)
      /\ TaskAt(worker'[w], {"worked"}) = TaskAt(worker[w], {"worked"})
  BY <1>6 DEF TaskAt
<1>8. \A k \in Own : Lots'[<<k, w>>] = Lots[<<k, w>>]
  BY <1>5, <1>6, <1>7 DEF OwnLaid, Own
<1>9. Lots'[OfAll("feed")] = Lots[OfAll("feed")] /\ Lots'[OfAll("queue")] = Lots[OfAll("queue")]
  BY <1>5 DEF SharedLaid
<1>10. \A a \in Spot : Lots'[a] = Lots[a]
  BY <1>5, <1>8, <1>9 DEF InReach, Own
<1>11. Sorted(Lots', prod.next, mode.streamed)
  BY <1>10, SameSorted DEF Live
<1> QED BY <1>2, <1>4, <1>11, RowLive


\* The steps at the feed and at the budget that move no group.
Pauses(w) ==
  \/ CountOwn(w) \/ TakeNothing(w) \/ Reserve(w) \/ ReserveWait(w) \/ Park(w) \/ Unpark(w)
  \/ AdmitReader(w) \/ Leave(w)

\* They keep every group where it is.
LEMMA PausesLive ==
  ASSUME TypeInv, LaneInv, RunInv, Live, ~Stopped, NEW w \in Worker, Pauses(w)
  PROVE  Live'
<1> USE DEF Before, During, WaitsBytes, Exits, Sends
<1>1. CASE CountOwn(w)
  <2>1. Turned(w, "reserve", worker[w].task, worker[w].out)
    BY <1>1, FeedTurns
  <2>2. worker[w].at = "counted" /\ UNCHANGED <<mode, run, held, queue, caller, emitted, prod, feed>>
    BY <1>1 DEF CountOwn, At, laneVars, flagVars
  <2> QED BY <2>1, <2>2, RowStays
<1>2. CASE TakeNothing(w)
  <2> DEFINE at == IF feed.closed THEN "flush" ELSE "asleep"
  <2>1. Turned(w, at, worker[w].task, worker[w].out)
    BY <1>2, FeedTurns
  <2>2. /\ worker[w].at \in {"top", "woken"} /\ run[w] = <<>> /\ feed.tasks = <<>>
        /\ UNCHANGED <<mode, run, held, queue, caller, emitted, prod, feed>>
    BY <1>2 DEF TakeNothing, AtFeed, At, laneVars, flagVars, feedVars, RunInv
  <2>3. at \in {"flush", "asleep"} /\ (at = "flush" => feed.closed)
    OBVIOUS
  <2> HIDE DEF at
  <2> QED BY <2>1, <2>2, <2>3, RowStays
<1>3. CASE Reserve(w)
  <2>1. PICK at \in {"read", "admit"} : Turned(w, at, worker[w].task, worker[w].out)
    BY <1>3, BudgetTurns
  <2>2. worker[w].at = "reserve" /\ UNCHANGED <<mode, run, held, queue, caller, emitted, prod, feed>>
    BY <1>3 DEF Reserve, At, feedVars, flagVars
  <2> QED BY <2>1, <2>2, RowStays
<1>4. CASE ReserveWait(w)
  <2>1. Turned(w, "parking", worker[w].task, worker[w].out)
    BY <1>4, BudgetTurns
  <2>2. worker[w].at = "reserve" /\ UNCHANGED <<mode, run, held, queue, caller, emitted, prod, feed>>
    BY <1>4 DEF ReserveWait, At, feedVars, flagVars
  <2> QED BY <2>1, <2>2, RowStays
<1>5. CASE Park(w)
  <2>1. Turned(w, "parked", worker[w].task, worker[w].out)
    BY <1>5, BudgetTurns
  <2>2. worker[w].at = "parking" /\ UNCHANGED <<mode, run, held, queue, caller, emitted, prod, feed>>
    BY <1>5 DEF Park, At, feedVars, flagVars
  <2> QED BY <2>1, <2>2, RowStays
<1>6. CASE Unpark(w)
  <2>1. Turned(w, "reserve", worker[w].task, worker[w].out)
    BY <1>6, BudgetTurns
  <2>2. worker[w].at = "unparked" /\ UNCHANGED <<mode, run, held, queue, caller, emitted, prod, feed>>
    BY <1>6 DEF Unpark, At, feedVars, flagVars
  <2> QED BY <2>1, <2>2, RowStays
<1>7. CASE AdmitReader(w)
  <2>1. worker' = [worker EXCEPT ![w].at = "read"]
    BY <1>7 DEF AdmitReader
  <2>2. Turned(w, "read", worker[w].task, worker[w].out)
    <3>1. worker \in [Worker -> WorkerRecord]
      BY DEF TypeInv
    <3> QED BY <2>1, <3>1, PlacedMoves, MovedTurns DEF Places
  <2>3. worker[w].at = "admit" /\ UNCHANGED <<mode, run, held, queue, caller, emitted, prod, feed>>
    BY <1>7 DEF AdmitReader, At, feedVars, flagVars
  <2> QED BY <2>2, <2>3, RowStays
<1>8. CASE Leave(w)
  <2>1. Turned(w, "gone", worker[w].task, worker[w].out)
    BY <1>8, LeaveTurns
  <2>2. worker[w].at = "leave" /\ UNCHANGED <<mode, run, held, queue, caller, emitted>>
    BY <1>8 DEF Leave, At, laneVars, flagVars
  <2>3. feed.closed
    BY <2>2 DEF Live, Leaving
  <2>4. feed'.tasks = feed.tasks /\ feed'.closed /\ prod' = Rouse(prod)
    <3>1. prod \in ProdRecord
      BY DEF TypeInv
    <3> QED BY <1>8, <3>1, CloseType DEF Leave
  <2>5. feed'.closed = feed.closed
    <3>1. feed' = [feed EXCEPT !.closed = TRUE] /\ feed.closed \in BOOLEAN
      BY <1>8 DEF Leave, Close, TypeInv
    <3>2. feed'.closed = TRUE
      BY <3>1 DEF TypeInv
    <3> QED BY <2>3, <3>1, <3>2
  <2> QED BY <2>1, <2>2, <2>4, <2>5, RowStays
<1> QED BY <1>1, <1>2, <1>3, <1>4, <1>5, <1>6, <1>7, <1>8 DEF Pauses

\* The next task of the worker's own run.
LEMMA TakeOwnLive ==
  ASSUME TypeInv, Live, NEW w \in Worker, TakeOwn(w)
  PROVE  Live'
<1> DEFINE h == Head(run[w])
           from == <<"run", w>>
           to == <<"todo", w>>
<1>0. run \in [Worker -> Seq(Task)] /\ mode \in Modes /\ mode.streamed \in SUBSET Task
  BY FeedAssumption DEF TypeInv, ModeType
<1>1. h \in Task /\ Turned(w, "counted", h, worker[w].out)
  BY FeedTurns
<1>2. /\ worker[w].at = "top" /\ run[w] # <<>> /\ run' = [run EXCEPT ![w] = Tail(run[w])]
      /\ UNCHANGED <<mode, held, queue, caller, emitted, prod, feed>>
  BY DEF TakeOwn, At, laneVars, flagVars
<1>3. run'[w] = Tail(run[w]) /\ \A v \in Worker \ {w} : run'[v] = run[v]
  BY <1>0, <1>2
<1>4. /\ IsInjective(run'[w]) /\ ToSet(run'[w]) = ToSet(run[w]) \ {h} /\ h \in ToSet(run[w])
  BY <1>0, <1>2, <1>3, InjTail DEF Live, Tidy
<1>5. Row(w, "counted", h, worker[w].out, w)
  BY <1>1, <1>2, <1>3 DEF Row
<1>6. RowTidy(w, "counted", worker[w].out, w)
  BY <1>2, <1>4 DEF RowTidy, Live, Tidy, Leaving, Exits, Sends
<1>7. /\ \A a \in Spot \ InReach(w, w) : Lots'[a] = Lots[a]
      /\ SharedLaid(Lots, prod, feed, queue, caller, emitted)
      /\ SharedLaid(Lots', prod', feed', queue', caller', emitted')
      /\ OwnLaid(Lots, w, run, worker, held)
      /\ OwnLaid(Lots', w, run', worker', held')
  BY <1>5, RowLots
<1> HIDE DEF h
<1>8. worker'[w].at = "counted" /\ worker'[w].task = h /\ worker'[w].out = worker[w].out
  BY <1>1 DEF Turned
<1>9. Shifts(Lots, Lots', from, to, {h})
  <2>1. /\ Lots'[from] = Lots[from] \ {h} /\ h \in Lots[from]
        /\ Lots'[to] = {h} /\ Lots[to] = {}
        /\ \A k \in Own \ {"run", "todo"} : Lots'[<<k, w>>] = Lots[<<k, w>>]
    BY <1>2, <1>4, <1>7, <1>8 DEF OwnLaid, Own, TaskAt, Before, During, WaitsBytes
  <2>2. Lots'[OfAll("feed")] = Lots[OfAll("feed")] /\ Lots'[OfAll("queue")] = Lots[OfAll("queue")]
    BY <1>2, <1>7 DEF SharedLaid
  <2>3. \A a \in Spot \ {from, to} : Lots'[a] = Lots[a]
    BY <1>7, <2>1, <2>2 DEF InReach
  <2> QED BY <2>1, <2>3 DEF Shifts
<1>10. /\ from \in Spot /\ to \in Spot /\ from # to /\ from # Emission
       /\ from[1] \in Early /\ to[1] \notin Late
  BY DEF Spot, Own, Emission, OfAll, Early, Late
<1>11. Sorted(Lots', prod.next, mode.streamed)
  BY <1>0, <1>9, <1>10, ShiftsSorted DEF Live
<1> QED BY <1>2, <1>5, <1>6, <1>11, RowLive


\* A task of the feed, and the run after it.
LEMMA TakeFeedLive ==
  ASSUME TypeInv, RunInv, Live, NEW w \in Worker, TakeFeed(w)
  PROVE  Live'
<1> DEFINE tasks == feed.tasks
           h == Head(tasks)
           rest == Tail(tasks)
           near == SubSeq(rest, 1, Runs)
           left == SubSeq(rest, Runs + 1, Len(rest))
           from == OfAll("feed")
           todo == <<"todo", w>>
           to == <<"run", w>>
           R == Shift(Lots, from, todo, {h})
<1>0. /\ run \in [Worker -> Seq(Task)] /\ mode.streamed \in SUBSET Task /\ tasks \in Seq(Task)
      /\ feed \in [tasks : Seq(Task), closed : BOOLEAN, full : BOOLEAN]
  BY FeedAssumption DEF TypeInv, ModeType
<1>1. h \in Task /\ Turned(w, "reserve", h, worker[w].out)
  BY FeedTurns
<1>2. /\ worker[w].at \in {"top", "woken"} /\ run[w] = <<>> /\ tasks # <<>>
      /\ run' = [run EXCEPT ![w] = run[w] \o near]
      /\ \E full : feed' = [feed EXCEPT !.tasks = left, !.full = full]
      /\ prod' = prod \/ prod' = Rouse(prod)
      /\ UNCHANGED <<mode, held, queue, caller, emitted>>
  BY DEF TakeFeed, Taking, AtFeed, At, laneVars, flagVars, RunInv
<1>3. feed'.tasks = left /\ feed'.closed = feed.closed /\ prod'.batch = prod.batch
  BY <1>0, <1>2 DEF TypeInv, ProdRecord, Rouse
<1>4. /\ Runs \in Nat /\ Runs <= Len(rest) /\ rest \in Seq(Task)
  <2>1. Runs \in 0..(Len(tasks) - 1)
    BY <1>2, RunsBounded
  <2>2. Len(rest) = Len(tasks) - 1 /\ rest \in Seq(Task) /\ Len(tasks) \in Nat
    BY <1>0, <1>2
  <2> HIDE DEF rest, tasks
  <2> QED BY <2>1, <2>2
<1>5. /\ IsInjective(rest) /\ ToSet(rest) = ToSet(tasks) \ {h} /\ h \in ToSet(tasks)
  BY <1>0, <1>2, InjTail DEF Live, Tidy
<1>6. /\ near \in Seq(Task) /\ IsInjective(near) /\ IsInjective(left)
      /\ ToSet(near) \subseteq ToSet(rest) /\ ToSet(left) = ToSet(rest) \ ToSet(near)
  <2> HIDE DEF rest
  <2> QED BY <1>4, <1>5, InjCut
<1> HIDE DEF rest, near, left, h, tasks
<1>7. run'[w] = near /\ \A v \in Worker \ {w} : run'[v] = run[v]
  <2>1. <<>> \o near = near
    BY <1>6
  <2> QED BY <1>0, <1>2, <2>1
<1>8. Row(w, "reserve", h, worker[w].out, w)
  BY <1>1, <1>2, <1>3, <1>7 DEF Row
<1>9. RowTidy(w, "reserve", worker[w].out, w)
  BY <1>2, <1>3, <1>6, <1>7 DEF RowTidy, Live, Tidy, Leaving, Exits, Sends, tasks
<1>10. /\ \A a \in Spot \ InReach(w, w) : Lots'[a] = Lots[a]
       /\ SharedLaid(Lots, prod, feed, queue, caller, emitted)
       /\ SharedLaid(Lots', prod', feed', queue', caller', emitted')
       /\ OwnLaid(Lots, w, run, worker, held)
       /\ OwnLaid(Lots', w, run', worker', held')
  BY <1>8, RowLots
<1>11. worker'[w].at = "reserve" /\ worker'[w].task = h /\ worker'[w].out = worker[w].out
  BY <1>1 DEF Turned
<1>12. /\ from \in Spot /\ todo \in Spot /\ to \in Spot /\ from # todo /\ from # to /\ todo # to
       /\ from # Emission /\ from[1] \in Early /\ todo[1] \notin Late /\ to[1] \notin Late
  BY DEF Spot, Own, Shared, Emission, OfAll, Early, Late
<1>13. h \in Lots[from]
  BY <1>5, <1>10 DEF SharedLaid, tasks
<1>14. Shifts(Lots, R, from, todo, {h})
  BY <1>12, <1>13, ShiftShifts
<1>15. Sorted(R, prod.next, mode.streamed)
  BY <1>0, <1>12, <1>14, ShiftsSorted DEF Live
<1>16. Shifts(R, Lots', from, to, ToSet(near))
  <2>0. /\ R[from] = Lots[from] \ {h} /\ R[todo] = Lots[todo] \cup {h} /\ R[to] = Lots[to]
        /\ \A a \in Spot \ {from, todo} : R[a] = Lots[a]
    BY <1>12, <1>14 DEF Shifts
  <2> HIDE DEF R
  <2>1. /\ Lots'[todo] = {h} /\ Lots[todo] = {} /\ Lots'[to] = ToSet(near) /\ Lots[to] = {}
        /\ \A k \in Own \ {"run", "todo"} : Lots'[<<k, w>>] = Lots[<<k, w>>]
    <3>1. Lots'[todo] = {h} /\ Lots[todo] = {}
      BY <1>2, <1>10, <1>11 DEF OwnLaid, TaskAt, Before, WaitsBytes
    <3>2. Lots'[to] = ToSet(near) /\ Lots[to] = {}
      BY <1>2, <1>7, <1>10, FlatSmall DEF OwnLaid
    <3>3. \A k \in Own \ {"run", "todo"} : Lots'[<<k, w>>] = Lots[<<k, w>>]
      BY <1>2, <1>7, <1>10, <1>11 DEF OwnLaid, Own, TaskAt, Before, During, WaitsBytes
    <3> QED BY <3>1, <3>2, <3>3
  <2>2. /\ Lots'[OfAll("queue")] = Lots[OfAll("queue")]
        /\ Lots[from] = ToSet(tasks) /\ Lots'[from] = ToSet(left)
    BY <1>2, <1>3, <1>10 DEF SharedLaid, tasks
  <2>3. \A a \in Spot \ {from, to, todo} : Lots'[a] = Lots[a]
    BY <1>10, <2>1, <2>2 DEF InReach
  <2>4. \A a \in Spot \ {from, to} : Lots'[a] = R[a]
    BY <2>0, <2>1, <2>3
  <2> QED BY <1>5, <1>6, <2>0, <2>1, <2>2, <2>4 DEF Shifts
<1> HIDE DEF R
<1>17. Sorted(Lots', prod.next, mode.streamed)
  BY <1>0, <1>12, <1>15, <1>16, ShiftsSorted
<1> QED BY <1>2, <1>8, <1>9, <1>17, RowLive

\* The far half of another worker's run.
LEMMA StealLive ==
  ASSUME TypeInv, RunInv, Live, NEW w \in Worker, Steal(w)
  PROVE  Live'
<1>1. PICK u \in Worker : Robs(w, u)
  BY StealTurns
<1> DEFINE theirs == run[u]
           half == Len(theirs) \div 2
           near == SubSeq(theirs, 1, half)
           mine == SubSeq(theirs, half + 1, Len(theirs))
           h == Head(mine)
           rest == Tail(mine)
           from == <<"run", u>>
           todo == <<"todo", w>>
           to == <<"run", w>>
           R == Shift(Lots, from, todo, {h})
<1>0. run \in [Worker -> Seq(Task)] /\ mode.streamed \in SUBSET Task /\ theirs \in Seq(Task)
  BY FeedAssumption DEF TypeInv, ModeType
<1>2. /\ u # w /\ run[w] = <<>> /\ half \in Nat /\ half < Len(theirs)
      /\ mine \in Seq(Task) /\ mine # <<>>
      /\ run' = [run EXCEPT ![u] = near, ![w] = rest]
      /\ Turned(w, "reserve", h, worker[w].out)
  BY <1>1 DEF Robs
<1>3. /\ worker[w].at \in {"top", "woken"}
      /\ UNCHANGED <<mode, held, queue, caller, emitted, prod, feed>>
  BY DEF Steal, AtFeed, At, laneVars, flagVars
<1>4. theirs # <<>> /\ half <= Len(theirs)
  <2>1. Len(theirs) \in Nat
    BY <1>0
  <2> HIDE DEF half
  <2> QED BY <1>0, <1>2, <2>1
<1>5. /\ IsInjective(near) /\ IsInjective(mine) /\ near \in Seq(Task)
      /\ ToSet(near) \subseteq ToSet(theirs) /\ ToSet(mine) = ToSet(theirs) \ ToSet(near)
  <2>1. IsInjective(theirs)
    BY DEF Live, Tidy
  <2> HIDE DEF theirs, half
  <2> QED BY <1>0, <1>2, <1>4, <2>1, InjCut
<1> HIDE DEF half, near, mine
<1>6. /\ IsInjective(rest) /\ ToSet(rest) = ToSet(mine) \ {h} /\ h \in ToSet(mine)
  BY <1>2, <1>5, InjTail
<1> HIDE DEF h, rest
<1>7. run'[w] = rest /\ run'[u] = near /\ \A v \in Worker \ {w, u} : run'[v] = run[v]
  BY <1>0, <1>2
<1>8. Row(w, "reserve", h, worker[w].out, u)
  BY <1>2, <1>3, <1>7 DEF Row
<1>9. RowTidy(w, "reserve", worker[w].out, u)
  BY <1>2, <1>3, <1>4, <1>5, <1>6, <1>7 DEF RowTidy, Live, Tidy, Leaving, Exits, Sends
<1>10. /\ \A a \in Spot \ InReach(w, u) : Lots'[a] = Lots[a]
       /\ SharedLaid(Lots, prod, feed, queue, caller, emitted)
       /\ SharedLaid(Lots', prod', feed', queue', caller', emitted')
       /\ OwnLaid(Lots, w, run, worker, held)
       /\ OwnLaid(Lots', w, run', worker', held')
       /\ OwnLaid(Lots, u, run, worker, held)
       /\ OwnLaid(Lots', u, run', worker', held')
  BY <1>8, RowLots
<1>11. worker'[w].at = "reserve" /\ worker'[w].task = h /\ worker'[w].out = worker[w].out
  BY <1>2 DEF Turned
<1>12. /\ from \in Spot /\ todo \in Spot /\ to \in Spot /\ from # todo /\ from # to /\ todo # to
       /\ from # Emission /\ from[1] \in Early /\ todo[1] \notin Late /\ to[1] \notin Late
  BY <1>2 DEF Spot, Own, Shared, Emission, OfAll, Early, Late
<1>13. h \in Lots[from]
  BY <1>5, <1>6, <1>10 DEF OwnLaid
<1>14. Shifts(Lots, R, from, todo, {h})
  BY <1>12, <1>13, ShiftShifts
<1>15. Sorted(R, prod.next, mode.streamed)
  BY <1>0, <1>12, <1>14, ShiftsSorted DEF Live
<1>16. Shifts(R, Lots', from, to, ToSet(rest))
  <2>0. /\ R[from] = Lots[from] \ {h} /\ R[todo] = Lots[todo] \cup {h} /\ R[to] = Lots[to]
        /\ \A a \in Spot \ {from, todo} : R[a] = Lots[a]
    BY <1>12, <1>14 DEF Shifts
  <2> HIDE DEF R
  <2>1. /\ Lots'[todo] = {h} /\ Lots[todo] = {} /\ Lots'[to] = ToSet(rest) /\ Lots[to] = {}
        /\ \A k \in Own \ {"run", "todo"} : Lots'[<<k, w>>] = Lots[<<k, w>>]
    <3>1. Lots'[todo] = {h} /\ Lots[todo] = {} /\ Lots'[to] = ToSet(rest) /\ Lots[to] = {}
      BY <1>2, <1>3, <1>7, <1>10, <1>11, FlatSmall DEF OwnLaid, TaskAt, Before, WaitsBytes
    <3>2. \A k \in Own \ {"run", "todo"} : Lots'[<<k, w>>] = Lots[<<k, w>>]
      BY <1>2, <1>3, <1>7, <1>10, <1>11 DEF OwnLaid, Own, TaskAt, Before, During, WaitsBytes
    <3> QED BY <3>1, <3>2
  <2>2. /\ Lots'[OfAll("queue")] = Lots[OfAll("queue")]
        /\ Lots'[OfAll("feed")] = Lots[OfAll("feed")]
    BY <1>3, <1>10 DEF SharedLaid
  <2>5. Lots[from] = ToSet(theirs) /\ Lots'[from] = ToSet(near)
    BY <1>7, <1>10 DEF OwnLaid
  <2>3. \A a \in Spot \ {from, to, todo} : Lots'[a] = Lots[a]
    BY <1>10, <2>1, <2>2 DEF InReach
  <2>4. \A a \in Spot \ {from, to} : Lots'[a] = R[a]
    BY <2>0, <2>1, <2>3
  <2> QED BY <1>5, <1>6, <2>0, <2>1, <2>5, <2>4 DEF Shifts
<1> HIDE DEF R
<1>17. Sorted(Lots', prod.next, mode.streamed)
  BY <1>0, <1>12, <1>15, <1>16, ShiftsSorted
<1> QED BY <1>3, <1>8, <1>9, <1>17, RowLive


\* Groups move on within a worker's row.
LEMMA RowShift ==
  ASSUME NEW w \in Worker, NEW at, NEW task, NEW out, Row(w, at, task, out, w),
         UNCHANGED queue, feed'.tasks = feed.tasks,
         NEW k \in Own, NEW l \in Own, k # l, NEW M \in SUBSET Lots[<<k, w>>],
         Lots'[<<k, w>>] = Lots[<<k, w>>] \ M, Lots'[<<l, w>>] = Lots[<<l, w>>] \cup M,
         \A j \in Own \ {k, l} : Lots'[<<j, w>>] = Lots[<<j, w>>]
  PROVE  Shifts(Lots, Lots', <<k, w>>, <<l, w>>, M)
<1>1. /\ \A a \in Spot \ InReach(w, w) : Lots'[a] = Lots[a]
      /\ SharedLaid(Lots, prod, feed, queue, caller, emitted)
      /\ SharedLaid(Lots', prod', feed', queue', caller', emitted')
  BY RowLots
<1>2. Lots'[OfAll("feed")] = Lots[OfAll("feed")] /\ Lots'[OfAll("queue")] = Lots[OfAll("queue")]
  BY <1>1 DEF SharedLaid
<1>3. \A a \in Spot \ {<<k, w>>, <<l, w>>} : Lots'[a] = Lots[a]
  BY <1>1, <1>2 DEF InReach, Own
<1> QED BY <1>3 DEF Shifts

\* A task's work ends or unwinds: the task moves on, nothing else does.
LEMMA TaskMoves ==
  ASSUME TypeInv, LaneInv, Live, ~Stopped, NEW w \in Worker, NEW at,
         Turned(w, at, worker[w].task, worker[w].out),
         UNCHANGED <<mode, feed, run, prod, held, queue, caller, emitted>>,
         \/ worker[w].at \in Before /\ at \in During
         \/ worker[w].at \in Before /\ at = "worked" /\ worker[w].task \notin mode.streamed
         \/ /\ worker[w].at = "stream" /\ at = "worked"
            /\ worker[w].task \in mode.streamed => -worker[w].task \in ToSet(emitted)
         \/ worker[w].at = "stream" /\ at = "unwinding",
         at # "handoff"
  PROVE  Live'
<1> USE DEF Before, During, WaitsBytes
<1> DEFINE t == worker[w].task
           k == IF worker[w].at \in Before THEN "todo" ELSE "busy"
           l == IF at = "worked" THEN "worked" ELSE "busy"
<1>0. mode.streamed \in SUBSET Task
  BY FeedAssumption DEF TypeInv, ModeType
<1>1. Row(w, at, t, worker[w].out, w)
  BY DEF Row
<1>2. RowTidy(w, at, worker[w].out, w)
  BY DEF RowTidy, Live, Tidy, Leaving, Exits, Sends
<1>3. /\ OwnLaid(Lots, w, run, worker, held) /\ OwnLaid(Lots', w, run', worker', held')
      /\ SharedLaid(Lots, prod, feed, queue, caller, emitted)
  BY <1>1, RowLots
<1>4. worker'[w].at = at /\ worker'[w].task = t /\ worker'[w].out = worker[w].out
  BY DEF Turned
<1>5. CASE worker[w].at = "stream" /\ at = "unwinding"
  BY <1>5, RowStays DEF Exits, Sends
<1>6. CASE ~(worker[w].at = "stream" /\ at = "unwinding")
  <2>1. k \in Own /\ l \in Own /\ k # l
    BY <1>6 DEF Own
  <2>2. /\ Lots[<<k, w>>] = {t} /\ Lots'[<<k, w>>] = {} /\ Lots[<<l, w>>] = {} /\ Lots'[<<l, w>>] = {t}
        /\ \A j \in Own \ {k, l} : Lots'[<<j, w>>] = Lots[<<j, w>>]
    BY <1>3, <1>4, <1>6 DEF OwnLaid, Own, TaskAt
  <2>3. Shifts(Lots, Lots', <<k, w>>, <<l, w>>, {t})
    <3> HIDE DEF k, l
    <3> QED BY <1>1, <2>1, <2>2, RowShift
  <2>4. /\ <<k, w>> \in Spot /\ <<l, w>> \in Spot /\ <<k, w>> # <<l, w>> /\ <<k, w>> # Emission
        /\ <<l, w>>[1] \notin Early
    BY <2>1 DEF Spot, Own, Emission, OfAll, Early
  <2>5. ASSUME l \in Late PROVE \A u \in mode.streamed : u \in {t} => -u \in Lots[Emission]
    BY <1>3, <1>6, <2>5 DEF SharedLaid, Emission, Late
  <2>6. <<l, w>>[1] = l
    OBVIOUS
  <2> HIDE DEF k, l
  <2>7. Sorted(Lots', prod.next, mode.streamed)
    BY <1>0, <2>3, <2>4, <2>5, <2>6, ShiftsSorted DEF Live
  <2> QED BY <1>1, <1>2, <2>7, RowLive
<1> QED BY <1>5, <1>6

\* The work of a task ends, or panics.
LEMMA WorkLive ==
  ASSUME TypeInv, LaneInv, Live, ~Stopped, Stopping, NEW w \in Worker,
         Work(w) \/ StreamEnd(w) \/ Panic(w)
  PROVE  Live'
<1> USE DEF Before, During, WaitsBytes
<1>1. CASE Work(w)
  <2>1. Turned(w, "worked", worker[w].task, worker[w].out)
    BY <1>1, BudgetTurns
  <2>2. /\ worker[w].at = "read" /\ worker[w].task \notin mode.streamed
        /\ UNCHANGED <<mode, feed, run, prod, held, queue, caller, emitted>>
    BY <1>1 DEF Work, At, feedVars, flagVars
  <2> QED BY <2>1, <2>2, TaskMoves
<1>2. CASE StreamEnd(w)
  <2>1. Turned(w, "worked", worker[w].task, worker[w].out)
    BY <1>2, BudgetTurns
  <2>2. /\ worker[w].at = "stream" /\ caller.at = "stream" /\ Head(caller.batch) = -worker[w].task
        /\ UNCHANGED <<mode, feed, run, prod, held, queue, caller, emitted>>
    BY <1>2 DEF StreamEnd, At, feedVars, flagVars, Publishing, Stopping, Stopped
  <2>3. -worker[w].task \in ToSet(emitted)
    BY <2>2 DEF Live, Calling
  <2> QED BY <2>1, <2>2, <2>3, TaskMoves
<1>3. CASE Panic(w)
  <2>1. Turned(w, "unwinding", worker[w].task, worker[w].out)
    BY <1>3, BudgetTurns
  <2>2. /\ worker[w].at \in {"read", "stream"}
        /\ UNCHANGED <<mode, feed, run, prod, held, queue, caller, emitted>>
    BY <1>3 DEF Panic, At, feedVars, flagVars
  <2> QED BY <2>1, <2>2, TaskMoves
<1> QED BY <1>1, <1>2, <1>3

\* A worker that leaves takes what it holds in hand.
LEMMA FlushLive ==
  ASSUME TypeInv, LaneInv, Live, ~Stopped, NEW w \in Worker, Flush(w)
  PROVE  Live'
<1> DEFINE g == held[w].groups
<1>0. /\ mode.streamed \in SUBSET Task /\ held \in [Worker -> SlotRecord]
      /\ worker \in [Worker -> WorkerRecord]
  BY FeedAssumption DEF TypeInv, ModeType
<1>1. PICK at \in {"leave", "sendlast"}, task \in Task \cup {None}, out \in Seq(Batch) :
        InHand(at, out) /\ Turned(w, at, task, out)
  BY LeaveTurns
<1>2. /\ worker[w].at = "flush" /\ held' = [held EXCEPT ![w] = NoneHeld]
      /\ UNCHANGED <<mode, feed, run, prod, queue, caller, emitted>>
      /\ worker' = IF g = <<>> THEN Got(w, None, "leave")
                   ELSE [worker EXCEPT ![w].out = <<g>>, ![w].at = "sendlast"]
  BY DEF Flush, At, feedVars, flagVars
<1>3. held'[w] = NoneHeld /\ \A v \in Worker \ {w} : held'[v] = held[v]
  BY <1>0, <1>2
<1>4. worker[w].out = <<>> /\ IsInjective(g) /\ run[w] = <<>> /\ feed.closed /\ feed.tasks = <<>>
  BY <1>2 DEF Live, Leaving, Tidy, Exits, Sends
<1>5. /\ out = IF g = <<>> THEN <<>> ELSE <<g>>
      /\ at = IF g = <<>> THEN "leave" ELSE "sendlast"
  <2>1. worker'[w].out = out /\ worker'[w].at = at
    BY <1>1 DEF Turned
  <2>2. CASE g = <<>>
    <3>1. worker'[w].out = worker[w].out /\ worker'[w].at = "leave"
      BY <1>0, <1>2, <2>2 DEF Got, WorkerRecord
    <3> QED BY <1>4, <2>1, <2>2, <3>1
  <2>3. CASE g # <<>>
    <3>1. worker'[w].out = <<g>> /\ worker'[w].at = "sendlast"
      BY <1>0, <1>2, <2>3 DEF WorkerRecord
    <3> QED BY <2>1, <2>3, <3>1
  <2> QED BY <2>2, <2>3
<1>6. held'[w].groups = <<>> /\ ToSet(<<>>) = {} /\ IsInjective(<<>>) /\ Flat(<<>>) = {}
  BY <1>3, FlatSmall DEF NoneHeld
<1>7. FlatApart(out) /\ Flat(out) = ToSet(g)
  BY <1>4, <1>5, FlatSmall
<1>8. Row(w, at, task, out, w)
  BY <1>1, <1>2, <1>3 DEF Row
<1>9. RowTidy(w, at, out, w)
  BY <1>1, <1>2, <1>4, <1>5, <1>6, <1>7 DEF RowTidy, Live, Tidy, Exits, Sends
<1>10. OwnLaid(Lots, w, run, worker, held) /\ OwnLaid(Lots', w, run', worker', held')
  BY <1>8, RowLots
<1>11. worker'[w].at \in {"leave", "sendlast"} /\ worker'[w].out = out
  BY <1>1 DEF Turned
<1>12. Shifts(Lots, Lots', <<"held", w>>, <<"out", w>>, ToSet(g))
  <2>1. /\ Lots[<<"held", w>>] = ToSet(g) /\ Lots'[<<"held", w>>] = {}
        /\ Lots[<<"out", w>>] = {} /\ Lots'[<<"out", w>>] = ToSet(g)
        /\ \A j \in Own \ {"held", "out"} : Lots'[<<j, w>>] = Lots[<<j, w>>]
    <3>1. /\ Lots[<<"held", w>>] = ToSet(g) /\ Lots'[<<"held", w>>] = {}
          /\ Lots[<<"out", w>>] = {} /\ Lots'[<<"out", w>>] = ToSet(g)
      BY <1>2, <1>4, <1>6, <1>7, <1>10, <1>11 DEF OwnLaid
    <3>2. \A j \in Own \ {"held", "out"} : Lots'[<<j, w>>] = Lots[<<j, w>>]
      BY <1>2, <1>10, <1>11 DEF OwnLaid, Own, TaskAt, Before, During, WaitsBytes
    <3> QED BY <3>1, <3>2
  <2>2. "held" \in Own /\ "out" \in Own
    BY DEF Own
  <2> HIDE DEF g
  <2> QED BY <1>2, <1>8, <2>1, <2>2, RowShift
<1>13. /\ <<"held", w>> \in Spot /\ <<"out", w>> \in Spot /\ <<"held", w>> # <<"out", w>>
       /\ <<"held", w>> # Emission /\ <<"held", w>>[1] \in Late /\ <<"out", w>>[1] \notin Early
  BY DEF Spot, Own, Emission, OfAll, Early, Late
<1> HIDE DEF g
<1>14. Sorted(Lots', prod.next, mode.streamed)
  BY <1>0, <1>12, <1>13, ShiftsSorted DEF Live
<1> QED BY <1>2, <1>8, <1>9, <1>14, RowLive


\* A batch goes from a worker's hand to the queue.
LEMMA SentLive ==
  ASSUME TypeInv, LaneInv, Live, NEW w \in Worker, NEW at,
         worker[w].at \in Sends, Turned(w, at, worker[w].task, Tail(worker[w].out)),
         queue' = Append(queue, Head(worker[w].out)),
         UNCHANGED <<mode, feed, run, prod, held, caller, emitted>>,
         \/ worker[w].at = "handoff" /\ at \in {"handoff", "stream"}
         \/ worker[w].at = "send" /\ at \in {"send", "top"}
         \/ worker[w].at = "sendlast" /\ at = "leave",
         at \notin Sends => Tail(worker[w].out) = <<>>
  PROVE  Live'
<1> DEFINE o == worker[w].out
           b == Head(o)
           out == Tail(o)
           from == <<"out", w>>
           to == OfAll("queue")
<1>0. /\ mode.streamed \in SUBSET Task /\ o \in Seq(Batch) /\ o # <<>> /\ queue \in Seq(Batch)
  BY FeedAssumption DEF TypeInv, ModeType, WorkerRecord, LaneInv, Sends
<1>1. /\ FlatApart(out) /\ IsInjective(b) /\ ToSet(b) \subseteq Flat(o)
      /\ Flat(out) = Flat(o) \ ToSet(b) /\ b \in Batch
  BY <1>0, FlatTail DEF Live, Tidy
<1>2. Row(w, at, worker[w].task, out, w)
  BY DEF Row
<1>3. /\ \A a \in Spot \ InReach(w, w) : Lots'[a] = Lots[a]
      /\ SharedLaid(Lots, prod, feed, queue, caller, emitted)
      /\ SharedLaid(Lots', prod', feed', queue', caller', emitted')
      /\ OwnLaid(Lots, w, run, worker, held)
      /\ OwnLaid(Lots', w, run', worker', held')
  BY <1>2, RowLots
<1>4. /\ from \in Spot /\ to \in Spot /\ from # to /\ from # Emission
      /\ from[1] \in Late /\ to[1] \notin Early
  BY DEF Spot, Own, Shared, Emission, OfAll, Early, Late
<1>5. ToSet(b) \cap Flat(queue) = {}
  <2>1. Lots[from] = Flat(o) /\ Lots[to] = Flat(queue)
    BY <1>3 DEF OwnLaid, SharedLaid
  <2> HIDE DEF b, o
  <2> QED BY <1>1, <1>4, <2>1 DEF Live, Sorted, Apart
<1>6. FlatApart(queue') /\ Flat(queue') = Flat(queue) \cup ToSet(b)
  <2>1. FlatApart(queue) /\ queue' = Append(queue, b)
    BY DEF Live, Tidy
  <2> HIDE DEF b
  <2> QED BY <1>0, <1>1, <1>5, <2>1, FlatAppend
<1>7. RowTidy(w, at, out, w)
  <2>1. at = "leave" => run[w] = <<>> /\ feed.closed /\ feed.tasks = <<>> /\ held[w].groups = <<>>
    <3>1. w \in mode.started \/ worker[w].at = "gone"
      BY DEF Live, Leaving
    <3> QED BY <3>1 DEF Live, Leaving, Exits
  <2> HIDE DEF out
  <2> QED BY <1>1, <1>6, <2>1 DEF RowTidy, Live, Tidy, Exits, Sends, out
<1>8. worker'[w].at = at /\ worker'[w].task = worker[w].task /\ worker'[w].out = out
  BY DEF Turned
<1> HIDE DEF out, b
<1>9. Shifts(Lots, Lots', from, to, ToSet(b))
  <2>1. /\ Lots[from] = Flat(o) /\ Lots'[from] = Flat(o) \ ToSet(b)
        /\ \A j \in Own \ {"out"} : Lots'[<<j, w>>] = Lots[<<j, w>>]
    BY <1>1, <1>3, <1>8 DEF OwnLaid, Own, TaskAt, Before, During, WaitsBytes
  <2>2. /\ Lots'[to] = Lots[to] \cup ToSet(b)
        /\ Lots'[OfAll("feed")] = Lots[OfAll("feed")]
    BY <1>3, <1>6 DEF SharedLaid
  <2>3. \A a \in Spot \ {from, to} : Lots'[a] = Lots[a]
    BY <1>3, <2>1, <2>2 DEF InReach, Own
  <2> QED BY <1>1, <2>1, <2>2, <2>3 DEF Shifts
<1>10. Sorted(Lots', prod.next, mode.streamed)
  BY <1>0, <1>4, <1>9, ShiftsSorted DEF Live
<1> QED BY <1>2, <1>7, <1>8, <1>10, RowLive DEF Sends

\* The sends of a handoff, of a full lane, and of a worker that leaves.
LEMMA SendsLive ==
  ASSUME TypeInv, LaneInv, Live, ~Stopped, Stopping, NEW w \in Worker,
         HandoffSend(w) \/ Send(w) \/ SendLast(w)
  PROVE  Live'
<1> DEFINE o == worker[w].out
<1>0. /\ worker \in [Worker -> WorkerRecord] /\ o \in Seq(Batch) /\ ~ReceiverGone
      /\ {"handoff", "stream", "send", "top", "leave"} \subseteq Places
  BY DEF TypeInv, WorkerRecord, Stopping, Stopped, Places
<1>1. worker[w].at \in Sends /\ o # <<>> /\ Len(o) <= 2
  BY DEF HandoffSend, Send, SendLast, At, Sends, LaneInv
<1>2. /\ Tail(o) \in Seq(Batch) /\ (Len(o) = 1 => Tail(o) = <<>>)
  <2> HIDE DEF o
  <2>1. Tail(o) \in Seq(Batch) /\ Len(Tail(o)) = Len(o) - 1
    BY <1>0, <1>1
  <2> DEFINE rest == Tail(o)
  <2>2. rest \in Seq(Batch) /\ (Len(o) = 1 => Len(rest) = 0)
    BY <2>1
  <2> HIDE DEF rest
  <2>3. Len(o) = 1 => rest = <<>>
    BY <2>2, EmptySeq
  <2> QED BY <2>1, <2>3 DEF rest
<1>3. ASSUME NEW at \in Places, worker' = [worker EXCEPT ![w].out = Tail(o), ![w].at = at]
      PROVE  Turned(w, at, worker[w].task, Tail(o))
  <2>1. Moved(w, [worker EXCEPT ![w].out = Tail(o), ![w].at = at], at, worker[w].task, Tail(o))
    BY <1>0, <1>2, SentMoves
  <2> QED BY <1>0, <1>3, <2>1, MovedTurns
<1>4. CASE HandoffSend(w)
  <2> DEFINE at == IF Len(o) = 1 THEN "stream" ELSE "handoff"
  <2>1. /\ worker[w].at = "handoff" /\ queue' = Append(queue, Head(o))
        /\ worker' = [worker EXCEPT ![w].out = Tail(o), ![w].at = at]
        /\ UNCHANGED <<mode, feed, run, prod, held, caller, emitted>>
    BY <1>0, <1>4 DEF HandoffSend, At, feedVars, flagVars
  <2>2. at \in {"handoff", "stream"} /\ (at \notin Sends => Len(o) = 1)
    BY DEF Sends
  <2> HIDE DEF at
  <2>3. Turned(w, at, worker[w].task, Tail(o))
    BY <1>0, <1>3, <2>1, <2>2
  <2> QED BY <1>1, <1>2, <2>1, <2>2, <2>3, SentLive
<1>5. CASE Send(w)
  <2> DEFINE at == IF Len(o) = 1 THEN "top" ELSE "send"
  <2>1. /\ worker[w].at = "send" /\ queue' = Append(queue, Head(o))
        /\ worker' = [worker EXCEPT ![w].out = Tail(o), ![w].at = at]
        /\ UNCHANGED <<mode, feed, run, prod, held, caller, emitted>>
    BY <1>0, <1>5 DEF Send, At, feedVars, flagVars
  <2>2. at \in {"send", "top"} /\ (at \notin Sends => Len(o) = 1)
    BY DEF Sends
  <2> HIDE DEF at
  <2>3. Turned(w, at, worker[w].task, Tail(o))
    BY <1>0, <1>3, <2>1, <2>2
  <2> QED BY <1>1, <1>2, <2>1, <2>2, <2>3, SentLive
<1>6. CASE SendLast(w)
  <2>1. /\ worker[w].at = "sendlast" /\ queue' = Append(queue, Head(o))
        /\ worker' = [worker EXCEPT ![w].out = <<>>, ![w].at = "leave"]
        /\ UNCHANGED <<mode, feed, run, prod, held, caller, emitted>>
    BY <1>0, <1>6 DEF SendLast, At, feedVars, flagVars
  <2>2. Tail(o) = <<>>
    BY <1>2, <2>1 DEF Live, Leaving
  <2>3. Turned(w, "leave", worker[w].task, Tail(o))
    BY <1>0, <1>3, <2>1, <2>2
  <2> QED BY <1>1, <2>1, <2>2, <2>3, SentLive
<1> QED BY <1>4, <1>5, <1>6


\* A shift loses no group and makes none.
LEMMA ShiftSomewhere ==
  ASSUME NEW S, NEW T, NEW from \in Spot, NEW to \in Spot, NEW M, Shifts(S, T, from, to, M)
  PROVE  \A g : Somewhere(T, g) <=> Somewhere(S, g)
  BY DEF Shifts, Somewhere

\* The groups a worker holds, as batches in its hand.
LEMMA FlushedFlat ==
  ASSUME NEW g \in Seq(Task), IsInjective(g)
  PROVE  LET flushed == IF g = <<>> THEN <<>> ELSE <<g>>
         IN  flushed \in Seq(Batch) /\ FlatApart(flushed) /\ Flat(flushed) = ToSet(g)
<1>1. CASE g = <<>>
  BY <1>1, FlatSmall, Batches
<1>2. CASE g # <<>>
  <2>1. g \in Batch
    BY <1>2, Batches
  <2>2. <<g>> \in Seq(Batch)
    BY <2>1
  <2> QED BY <1>2, <2>2, FlatSmall
<1> QED BY <1>1, <1>2

\* Lane::handoff: the task is at work, and what is held goes before its stream.
LEMMA HandoffLive ==
  ASSUME TypeInv, LaneInv, Live, NEW w \in Worker, Handoff(w)
  PROVE  Live'
<1> DEFINE t == worker[w].task
           g == held[w].groups
           flushed == IF g = <<>> THEN <<>> ELSE <<g>>
           out == Append(flushed, <<-t>>)
           todo == <<"todo", w>>
           busy == <<"busy", w>>
           hold == <<"held", w>>
           hand == <<"out", w>>
           R == Shift(Lots, todo, busy, {t})
           Q == Shift(R, hold, hand, ToSet(g))
<1>0. /\ mode.streamed \in SUBSET Task /\ held \in [Worker -> SlotRecord]
      /\ worker \in [Worker -> WorkerRecord] /\ g \in Seq(Task)
  BY FeedAssumption DEF TypeInv, ModeType, SlotRecord
<1>1. /\ worker[w].at = "read" /\ held' = [held EXCEPT ![w] = NoneHeld]
      /\ UNCHANGED <<mode, feed, run, prod, queue, caller, emitted>>
      /\ worker' = [worker EXCEPT ![w].out = out, ![w].at = "handoff"]
  BY DEF Handoff, At, feedVars, flagVars
<1>2. t \in Task
  BY <1>1 DEF LaneInv, HasTask, HoldsBytes
<1>3. flushed \in Seq(Batch) /\ FlatApart(flushed) /\ Flat(flushed) = ToSet(g) /\ IsInjective(g)
  <2>1. IsInjective(g)
    BY DEF Live, Tidy
  <2> QED BY <1>0, <2>1, FlushedFlat
<1>4. <<-t>> \in Batch /\ IsInjective(<<-t>>) /\ ToSet(<<-t>>) = {-t} /\ -t \notin ToSet(g)
  <2>1. -t \notin ToSet(g)
    <3>1. \A x \in ToSet(g) : x \in Task
      <4> HIDE DEF g
      <4> QED BY <1>0 DEF ToSet
    <3> QED BY <1>2, <3>1 DEF Task
  <2>2. <<-t>> \in Batch
    BY <1>2, Batches DEF Groups
  <2> QED BY <2>1, <2>2, FlatSmall
<1>5. out \in Seq(Batch) /\ FlatApart(out) /\ Flat(out) = ToSet(g) \cup {-t}
  <2> HIDE DEF flushed
  <2>1. out \in Seq(Batch)
    BY <1>3, <1>4
  <2>2. FlatApart(out) /\ Flat(out) = Flat(flushed) \cup ToSet(<<-t>>)
    BY <1>3, <1>4, FlatAppend
  <2> QED BY <1>3, <1>4, <2>1, <2>2
<1> HIDE DEF out, flushed
<1>6. Turned(w, "handoff", t, out)
  <2>1. Moved(w, [worker EXCEPT ![w].out = out, ![w].at = "handoff"], "handoff", t, out)
    BY <1>0, <1>5, SentMoves DEF Places
  <2> QED BY <1>0, <1>1, <2>1, MovedTurns
<1>7. held'[w].groups = <<>> /\ \A v \in Worker \ {w} : held'[v] = held[v]
  BY <1>0, <1>1 DEF NoneHeld
<1>8. Row(w, "handoff", t, out, w)
  BY <1>1, <1>6, <1>7 DEF Row
<1>9. RowTidy(w, "handoff", out, w)
  BY <1>1, <1>5, <1>7, FlatSmall DEF RowTidy, Live, Tidy, Exits, Sends
<1>10. /\ \A a \in Spot \ InReach(w, w) : Lots'[a] = Lots[a]
       /\ SharedLaid(Lots, prod, feed, queue, caller, emitted)
       /\ SharedLaid(Lots', prod', feed', queue', caller', emitted')
       /\ OwnLaid(Lots, w, run, worker, held)
       /\ OwnLaid(Lots', w, run', worker', held')
  BY <1>8, RowLots
<1>11. worker'[w].at = "handoff" /\ worker'[w].task = t /\ worker'[w].out = out
  BY <1>6 DEF Turned
<1>12. worker[w].out = <<>>
  BY <1>1 DEF Live, Leaving, Sends
<1>13. /\ Lots[todo] = {t} /\ Lots[busy] = {} /\ Lots[hold] = ToSet(g) /\ Lots[hand] = {}
       /\ Lots'[todo] = {} /\ Lots'[busy] = {t} /\ Lots'[hold] = {}
       /\ Lots'[hand] = ToSet(g) \cup {-t}
       /\ \A k \in {"run", "worked"} : Lots'[<<k, w>>] = Lots[<<k, w>>]
  BY <1>1, <1>5, <1>7, <1>10, <1>11, <1>12, FlatSmall
     DEF OwnLaid, TaskAt, Before, During, WaitsBytes
<1>14. \A a \in Spot \ {todo, busy, hold, hand} : Lots'[a] = Lots[a]
  <2>1. Lots'[OfAll("feed")] = Lots[OfAll("feed")] /\ Lots'[OfAll("queue")] = Lots[OfAll("queue")]
    BY <1>1, <1>10 DEF SharedLaid
  <2> QED BY <1>10, <1>13, <2>1 DEF InReach, Own
<1>15. /\ todo \in Spot /\ busy \in Spot /\ hold \in Spot /\ hand \in Spot
       /\ todo # busy /\ hold # hand /\ todo # hold /\ todo # hand /\ busy # hold /\ busy # hand
       /\ todo # Emission /\ hold # Emission
       /\ busy[1] = "busy" /\ hold[1] \in Late /\ hand[1] \notin Early
  BY DEF Spot, Own, Shared, Emission, OfAll, Early, Late
<1>16. ~Somewhere(Lots, -t)
  <2>1. todo[1] \in Early /\ t \in Lots[todo]
    BY <1>13 DEF Early
  <2> QED BY <1>2, <1>15, <2>1 DEF Live, Sorted
<1> HIDE DEF g, t, todo, busy, hold, hand
<1>17. Shifts(Lots, R, todo, busy, {t})
  BY <1>13, <1>15, ShiftShifts
<1>18. /\ R[todo] = {} /\ R[busy] = {t} /\ R[hold] = ToSet(g) /\ R[hand] = {}
       /\ \A a \in Spot \ {todo, busy} : R[a] = Lots[a]
  BY <1>13, <1>15, <1>17 DEF Shifts
<1>19. Sorted(R, prod.next, mode.streamed)
  <2>1. busy[1] \notin Early /\ busy[1] \notin Late
    BY <1>15, SpotKinds
  <2> QED BY <1>0, <1>15, <1>17, <2>1, ShiftsSorted DEF Live
<1> HIDE DEF R
<1>20. Shifts(R, Q, hold, hand, ToSet(g))
  BY <1>15, <1>18, ShiftShifts
<1>21. /\ Q[hold] = {} /\ Q[hand] = ToSet(g) /\ \A a \in Spot \ {hold, hand} : Q[a] = R[a]
  BY <1>15, <1>18, <1>20 DEF Shifts
<1>22. Sorted(Q, prod.next, mode.streamed)
  BY <1>0, <1>15, <1>19, <1>20, ShiftsSorted
<1> HIDE DEF Q
<1>23. ~Somewhere(Q, -t)
  BY <1>15, <1>16, <1>17, <1>20, ShiftSomewhere
<1>24. Sorted(Entered(Q, hand, {-t}), prod.next, mode.streamed)
  <2>1. t \in Q[busy]
    BY <1>15, <1>18, <1>21
  <2> QED BY <1>0, <1>2, <1>15, <1>22, <1>23, <2>1, OpenSorted
<1>25. \A a \in Spot : Lots'[a] = Entered(Q, hand, {-t})[a]
  <2>1. /\ Entered(Q, hand, {-t})[hand] = ToSet(g) \cup {-t}
        /\ \A a \in Spot \ {hand} : Entered(Q, hand, {-t})[a] = Q[a]
    BY <1>15, <1>21 DEF Entered
  <2> HIDE DEF Entered
  <2>2. Lots'[hand] = Entered(Q, hand, {-t})[hand]
    BY <1>13, <2>1
  <2>3. Lots'[hold] = Q[hold] /\ Lots'[todo] = Q[todo] /\ Lots'[busy] = Q[busy]
    BY <1>13, <1>15, <1>18, <1>21
  <2>4. \A a \in Spot \ {todo, busy, hold, hand} : Lots'[a] = Q[a]
    BY <1>14, <1>18, <1>21
  <2>5. \A a \in Spot \ {hand} : Lots'[a] = Q[a]
    BY <2>3, <2>4
  <2> QED BY <2>1, <2>2, <2>5
<1>26. Sorted(Lots', prod.next, mode.streamed)
  BY <1>24, <1>25, SameSorted
<1> QED BY <1>1, <1>8, <1>9, <1>26, RowLive

\* Held::add sends or keeps each group once.
LEMMA AddTidy ==
  ASSUME mode \in Modes, NEW slot, SlotExact(slot), NEW t \in Task,
         IsInjective(slot.groups), t \notin ToSet(slot.groups)
  PROVE  LET added == Add(slot, t)
         IN  /\ FlatApart(added.out) /\ IsInjective(added.keep.groups)
             /\ Flat(added.out) \cup ToSet(added.keep.groups) = ToSet(slot.groups) \cup {t}
             /\ Flat(added.out) \cap ToSet(added.keep.groups) = {}
<1> DEFINE weight == mode.weight[t]
           g == slot.groups
           flushed == IF g = <<>> THEN <<>> ELSE <<g>>
           crosses == slot.bytes + weight > HandoffBytes
           base == IF crosses THEN NoneHeld ELSE slot
           kept == [groups |-> Append(base.groups, t), bytes |-> base.bytes + weight]
           full == Len(kept.groups) >= HandoffGroups
           added == Add(slot, t)
<1>0. g \in Seq(Task)
  BY DEF SlotExact, SlotRecord
<1>1. flushed \in Seq(Batch) /\ FlatApart(flushed) /\ Flat(flushed) = ToSet(g)
  BY <1>0, FlushedFlat
<1>2. <<t>> \in Batch /\ IsInjective(<<t>>) /\ ToSet(<<t>>) = {t} /\ t \in Groups
  BY Batches, FlatSmall DEF Groups
<1>3. /\ FlatApart(Append(flushed, <<t>>)) /\ Flat(Append(flushed, <<t>>)) = ToSet(g) \cup {t}
  <2> HIDE DEF flushed, g
  <2> QED BY <1>1, <1>2, FlatAppend DEF g
<1>4. /\ ToSet(<<>>) = {} /\ IsInjective(<<>>) /\ Flat(<<>>) = {} /\ FlatApart(<<>>)
      /\ NoneHeld.groups = <<>>
  BY FlatSmall DEF NoneHeld
<1>5. IsInjective(Append(g, t)) /\ ToSet(Append(g, t)) = ToSet(g) \cup {t}
  BY <1>0, InjAppend
<1>6. Append(<<>>, t) = <<t>>
  OBVIOUS
<1>7. CASE weight >= HandoffBytes
  <2>1. added.out = Append(flushed, <<t>>) /\ added.keep = NoneHeld
    BY <1>7 DEF Add
  <2> HIDE DEF added, flushed, g
  <2> QED BY <1>3, <1>4, <2>1 DEF added, g
<1>8. CASE ~(weight >= HandoffBytes)
  <2>1. /\ added.out = (IF crosses THEN flushed ELSE <<>>)
                          \o (IF full THEN <<kept.groups>> ELSE <<>>)
        /\ added.keep = IF full THEN NoneHeld ELSE kept
        /\ kept.groups = IF crosses THEN Append(<<>>, t) ELSE Append(g, t)
    BY <1>4, <1>8 DEF Add
  <2>2. Append(g, t) \in Batch
    <3>1. Append(g, t) \in Seq(Task) /\ Append(g, t) # <<>>
      BY <1>0
    <3> QED BY <3>1, Batches
  <2> HIDE DEF added, flushed, g, crosses, full, kept
  <2>3. CASE crosses /\ full
    <3>1. added.out = flushed \o <<<<t>>>> /\ added.keep = NoneHeld
      BY <1>6, <2>1, <2>3
    <3>2. flushed \o <<<<t>>>> = Append(flushed, <<t>>)
      BY <1>1, <1>2
    <3> QED BY <1>3, <1>4, <3>1, <3>2 DEF added, g
  <2>4. CASE crosses /\ ~full
    <3>1. added.out = flushed \o <<>> /\ added.keep.groups = <<t>>
      BY <1>6, <2>1, <2>4
    <3>2. flushed \o <<>> = flushed
      BY <1>1
    <3> QED BY <1>1, <1>2, <3>1, <3>2 DEF added, g
  <2>5. CASE ~crosses /\ full
    <3>1. added.out = <<>> \o <<Append(g, t)>> /\ added.keep = NoneHeld
      BY <2>1, <2>5
    <3>2. <<>> \o <<Append(g, t)>> = <<Append(g, t)>>
      BY <2>2
    <3>3. Flat(<<Append(g, t)>>) = ToSet(Append(g, t)) /\ FlatApart(<<Append(g, t)>>)
      BY <1>5, FlatSmall
    <3> QED BY <1>4, <1>5, <3>1, <3>2, <3>3 DEF added, g
  <2>6. CASE ~crosses /\ ~full
    <3>1. added.out = <<>> \o <<>> /\ added.keep.groups = Append(g, t)
      BY <2>1, <2>6
    <3>2. <<>> \o <<>> = <<>>
      OBVIOUS
    <3> QED BY <1>4, <1>5, <3>1, <3>2 DEF added, g
  <2> QED BY <2>3, <2>4, <2>5, <2>6
<1> QED BY <1>7, <1>8


\* Lane::hand: the task's group is held, and what is full is in hand.
LEMMA HandLive ==
  ASSUME TypeInv, LaneInv, Live, ~Stopped, NEW w \in Worker, Hand(w)
  PROVE  Live'
<1> DEFINE t == worker[w].task
           g == held[w].groups
           added == Add(held[w], t)
           out == added.out
           at == IF out = <<>> THEN "top" ELSE "send"
           left == [Got(w, None, at) EXCEPT ![w].out = out]
           done == <<"worked", w>>
           hold == <<"held", w>>
           hand == <<"out", w>>
           R == Shift(Lots, done, hold, {t})
<1>0. /\ mode \in Modes /\ mode.streamed \in SUBSET Task /\ held \in [Worker -> SlotRecord]
      /\ worker \in [Worker -> WorkerRecord]
  BY FeedAssumption DEF TypeInv, ModeType
<1>1. /\ worker[w].at = "worked" /\ held' = [held EXCEPT ![w] = added.keep]
      /\ worker' = left \/ worker' = Freed(left)
      /\ UNCHANGED <<mode, feed, run, prod, queue, caller, emitted>>
  BY DEF Hand, Handing, At, feedVars, flagVars
<1>2. t \in Task /\ SlotExact(held[w]) /\ IsInjective(g) /\ worker[w].out = <<>>
  BY <1>1 DEF LaneInv, HasTask, Live, Tidy, Leaving, Sends
<1>3. out \in Seq(Batch)
  BY <1>0, <1>2, AddExact
<1>4. /\ done \in Spot /\ hold \in Spot /\ hand \in Spot
      /\ done # hold /\ hold # hand /\ done # hand
      /\ done # Emission /\ hold # Emission
      /\ done[1] \in Late /\ hold[1] \in Late /\ hold[1] \notin Early /\ hand[1] \notin Early
  BY DEF Spot, Own, Shared, Emission, OfAll, Early, Late
<1>5. OwnLaid(Lots, w, run, worker, held)
  BY LotsAre DEF Lots
<1>6. Lots[done] = {t} /\ Lots[hold] = ToSet(g) /\ Lots[hand] = {}
  BY <1>1, <1>2, <1>5, FlatSmall DEF OwnLaid, TaskAt
<1>7. t \notin ToSet(g)
  <2> HIDE DEF done, hold, hand
  <2> QED BY <1>4, <1>6 DEF Live, Sorted, Apart
<1>8. /\ FlatApart(out) /\ IsInjective(added.keep.groups)
      /\ Flat(out) \cup ToSet(added.keep.groups) = ToSet(g) \cup {t}
      /\ Flat(out) \cap ToSet(added.keep.groups) = {}
  BY <1>0, <1>2, <1>7, AddTidy
<1> HIDE DEF added
<1>9. Turned(w, at, None, out)
  <2>1. at \in Places /\ None \in Task \cup {None} /\ at \notin {"asleep", "parked"}
    BY DEF Places
  <2> HIDE DEF at
  <2>2. Moved(w, left, at, None, out)
    BY <1>0, <1>3, <2>1, GotSentMoves
  <2> HIDE DEF left
  <2>3. left \in [Worker -> WorkerRecord]
    BY <2>2 DEF Moved
  <2>4. Nudged(left, worker')
    BY <1>1, <2>3, Nudges
  <2> QED BY <1>0, <2>1, <2>2, <2>4, MovedTurns
<1>10. held'[w] = added.keep /\ \A v \in Worker \ {w} : held'[v] = held[v]
  BY <1>0, <1>1
<1>11. at \in {"top", "send"} /\ (at \notin Sends => out = <<>>)
  BY DEF Sends
<1> HIDE DEF at, out
<1>12. Row(w, at, None, out, w)
  BY <1>1, <1>9, <1>10 DEF Row
<1>13. RowTidy(w, at, out, w)
  BY <1>1, <1>8, <1>10, <1>11 DEF RowTidy, Live, Tidy, Exits
<1>14. /\ \A a \in Spot \ InReach(w, w) : Lots'[a] = Lots[a]
       /\ SharedLaid(Lots, prod, feed, queue, caller, emitted)
       /\ SharedLaid(Lots', prod', feed', queue', caller', emitted')
       /\ OwnLaid(Lots', w, run', worker', held')
  BY <1>12, RowLots
<1>15. worker'[w].at = at /\ worker'[w].out = out
  BY <1>9 DEF Turned
<1>16. /\ Lots'[done] = {} /\ Lots'[hold] = ToSet(added.keep.groups) /\ Lots'[hand] = Flat(out)
       /\ \A k \in {"run", "todo", "busy"} : Lots'[<<k, w>>] = Lots[<<k, w>>]
  BY <1>1, <1>5, <1>10, <1>11, <1>14, <1>15 DEF OwnLaid, TaskAt, Before, During, WaitsBytes
<1>17. \A a \in Spot \ {done, hold, hand} : Lots'[a] = Lots[a]
  <2>1. Lots'[OfAll("feed")] = Lots[OfAll("feed")] /\ Lots'[OfAll("queue")] = Lots[OfAll("queue")]
    BY <1>1, <1>14 DEF SharedLaid
  <2> QED BY <1>14, <1>16, <2>1 DEF InReach, Own
<1> HIDE DEF g, t, done, hold, hand
<1>18. Shifts(Lots, R, done, hold, {t})
  BY <1>4, <1>6, ShiftShifts
<1>19. /\ R[done] = {} /\ R[hold] = ToSet(g) \cup {t} /\ R[hand] = {}
       /\ \A a \in Spot \ {done, hold} : R[a] = Lots[a]
  BY <1>4, <1>6, <1>18 DEF Shifts
<1>20. Sorted(R, prod.next, mode.streamed)
  BY <1>0, <1>4, <1>18, ShiftsSorted DEF Live
<1> HIDE DEF R
<1>21. Shifts(R, Lots', hold, hand, Flat(out))
  <2>1. Lots'[hold] = R[hold] \ Flat(out) /\ Flat(out) \subseteq R[hold]
    BY <1>8, <1>16, <1>19
  <2>2. Lots'[hand] = R[hand] \cup Flat(out)
    BY <1>16, <1>19
  <2>3. \A a \in Spot \ {hold, hand} : Lots'[a] = R[a]
    BY <1>16, <1>17, <1>19
  <2> QED BY <2>1, <2>2, <2>3 DEF Shifts
<1>22. Sorted(Lots', prod.next, mode.streamed)
  BY <1>0, <1>4, <1>20, <1>21, ShiftsSorted
<1> QED BY <1>1, <1>12, <1>13, <1>22, RowLive

\* A worker's step keeps the order, or ends a run that goes on.
LEMMA WorkerLive ==
  ASSUME TypeInv, LaneInv, RunInv, Live, ~Stopped, Stopping, NEW w \in Worker,
         Take(w) \/ Worked(w)
  PROVE  Stopped' \/ Live'
<1>1. CASE Unwind(w)
  BY <1>1 DEF Unwind, Stopped
<1>2. CASE HaltWake(w)
  BY <1>2 DEF HaltWake, At, Stopping, Stopped
<1>3. CASE StopWork(w)
  BY <1>3 DEF StopWork
<1>4. CASE ~Unwind(w) /\ ~HaltWake(w) /\ ~StopWork(w)
  <2>1. \/ Pauses(w) \/ TakeOwn(w) \/ TakeFeed(w) \/ Steal(w)
        \/ Work(w) \/ StreamEnd(w) \/ Panic(w) \/ Flush(w) \/ Handoff(w) \/ Hand(w)
        \/ HandoffSend(w) \/ Send(w) \/ SendLast(w)
    BY <1>4 DEF Take, Worked, Pauses
  <2> QED BY <2>1, PausesLive, TakeOwnLive, TakeFeedLive, StealLive, WorkLive, FlushLive,
             HandoffLive, HandLive, SendsLive
<1> QED BY <1>1, <1>2, <1>3, <1>4


----------------------------------------------------------------------------
(* The producer and the caller in a run that goes on.                      *)

\* Workers are notified at most, and no slot is filled.
LEMMA OthersLive ==
  ASSUME TypeInv, Live, UNCHANGED <<mode, run>>, Nudged(worker, worker'),
         \A v \in Worker : held'[v] = held[v] \/ held'[v].groups = <<>>,
         feed.closed /\ feed.tasks = <<>> => feed'.closed /\ feed'.tasks = <<>>,
         IsInjective(prod'.batch), IsInjective(feed'.tasks), IsInjective(caller'.batch),
         FlatApart(queue'), Feeding', Calling',
         Sorted(Lots', prod'.next, mode.streamed)
  PROVE  Live'
<1>1. Sorted(Lots, prod.next, mode.streamed)'
  OBVIOUS
<1>2. \A v \in Worker : Slides(worker[v], worker'[v])
  BY DEF Nudged
<1>3. \A v \in Worker :
        /\ worker'[v].out = worker[v].out
        /\ worker'[v].at \in Exits => worker'[v].at = worker[v].at
        /\ worker[v].at = "gone" => worker'[v].at = "gone"
        /\ worker'[v].at \notin Sends => worker[v].at \notin Sends
        /\ worker'[v].at = "sendlast" => worker[v].at = "sendlast"
  BY <1>2 DEF Slides, Exits, Sends
<1>4. Tidy'
  BY <1>3, FlatSmall DEF Live, Tidy
<1>5. Leaving'
  BY <1>3 DEF Live, Leaving
<1> QED BY <1>1, <1>4, <1>5 DEF Live

\* The shared spots that may change; the slot u may be emptied.
LEMMA OthersSpots ==
  ASSUME Nudged(worker, worker'), UNCHANGED run, NEW u \in Worker,
         \A v \in Worker \ {u} : held'[v] = held[v],
         NEW K \in SUBSET Shared,
         \A k \in Shared \ K : Lots'[OfAll(k)] = Lots[OfAll(k)]
  PROVE  \A a \in Spot : a = <<"held", u>> \/ (\E k \in K : a = OfAll(k)) \/ Lots'[a] = Lots[a]
<1>1. /\ \A k \in Own \ {"held"}, v \in Worker : Lots'[<<k, v>>] = Lots[<<k, v>>]
      /\ \A v \in Worker : held'[v] = held[v] => Lots'[<<"held", v>>] = Lots[<<"held", v>>]
  BY NudgeLots
<1>2. ASSUME NEW a \in Spot, a # <<"held", u>>, ~\E k \in K : a = OfAll(k)
      PROVE  Lots'[a] = Lots[a]
  <2>1. CASE \E k \in Shared : a = OfAll(k)
    BY <1>2, <2>1
  <2>2. CASE \E k \in Own, v \in Worker : a = <<k, v>>
    <3>1. PICK k \in Own, v \in Worker : a = <<k, v>>
      BY <2>2
    <3>2. CASE k = "held"
      <4>1. v # u
        BY <1>2, <3>1, <3>2
      <4> QED BY <1>1, <3>1, <3>2, <4>1
    <3>3. CASE k # "held"
      BY <1>1, <3>1, <3>3
    <3> QED BY <3>2, <3>3
  <2> QED BY <2>1, <2>2, SpotsCover
<1> QED BY <1>2

\* A step that moves no group.
LEMMA OthersStay ==
  ASSUME TypeInv, Live, UNCHANGED <<mode, run, held>>, Nudged(worker, worker'),
         prod'.batch = prod.batch, feed'.tasks = feed.tasks, UNCHANGED <<queue, emitted>>,
         Pending(caller') = Pending(caller), IsInjective(caller'.batch),
         prod'.next = prod.next, feed.closed => feed'.closed, Feeding', Calling'
  PROVE  Live'
<1>1. /\ SharedLaid(Lots, prod, feed, queue, caller, emitted)
      /\ SharedLaid(Lots', prod', feed', queue', caller', emitted')
  BY NudgeLots
<1>2. \A k \in Shared : Lots'[OfAll(k)] = Lots[OfAll(k)]
  BY <1>1 DEF SharedLaid, Shared
<1>3. PICK u : u \in Worker
  BY FeedAssumption
<1>4. \A v \in Worker : held'[v] = held[v]
  OBVIOUS
<1>5. Lots'[<<"held", u>>] = Lots[<<"held", u>>]
  BY <1>3, <1>4, NudgeLots
<1>6. \A a \in Spot : a = <<"held", u>> \/ (\E k \in {} : a = OfAll(k)) \/ Lots'[a] = Lots[a]
  BY <1>2, <1>3, <1>4, OthersSpots
<1>7. \A a \in Spot : Lots'[a] = Lots[a]
  BY <1>5, <1>6
<1>8. Sorted(Lots', prod'.next, mode.streamed)
  BY <1>7, SameSorted DEF Live
<1> QED BY <1>4, <1>8, OthersLive DEF Live, Tidy


\* The source yields its next task into the batch.
LEMMA GatherLive ==
  ASSUME TypeInv, FeedInv, Live, Gather
  PROVE  Live'
<1> DEFINE n == prod.next
           to == OfAll("batch")
<1>0. /\ mode \in Modes /\ mode.streamed \in SUBSET Task /\ prod \in ProdRecord
      /\ prod.batch \in Seq(Task)
  BY FeedAssumption DEF TypeInv, ModeType, ProdRecord
<1>1. PICK at \in {"push", "gather"} :
        prod' = [prod EXCEPT !.batch = Append(prod.batch, n), !.next = n + 1, !.at = at]
  BY DEF Gather
<1>2. /\ prod.at \in {"gather", "admitted"} /\ n <= mode.count
      /\ UNCHANGED <<mode, feed, run, worker, held, queue, caller, emitted>>
  BY DEF Gather, Seeks, FeedInv, feedVars, laneVars, flagVars
<1>3. n \in Task
  BY <1>0, <1>2, ModeFacts DEF Task, ProdRecord
<1>4. /\ prod'.batch = Append(prod.batch, n) /\ prod'.next = n + 1 /\ prod'.at = at
      /\ prod'.closed = prod.closed
  BY <1>0, <1>1 DEF ProdRecord
<1>5. Nudged(worker, worker')
  BY OthersNotify DEF Produce
<1>6. /\ SharedLaid(Lots, prod, feed, queue, caller, emitted)
      /\ SharedLaid(Lots', prod', feed', queue', caller', emitted')
  BY <1>2, <1>5, NudgeLots
<1>7. to \in Spot /\ to[1] = "batch"
  BY DEF to, OfAll, Spot, Shared
<1>8. n \notin ToSet(prod.batch)
  <2>1. ~Somewhere(Lots, n)
    BY <1>3 DEF Live, Sorted, Task
  <2>2. Lots[to] = ToSet(prod.batch)
    BY <1>6 DEF SharedLaid
  <2> QED BY <1>7, <2>1, <2>2 DEF Somewhere
<1>9. IsInjective(prod'.batch) /\ ToSet(prod'.batch) = ToSet(prod.batch) \cup {n}
  BY <1>0, <1>3, <1>4, <1>8, InjAppend DEF Live, Tidy
<1>10. Sorted(Entered(Lots, to, {n}), n + 1, mode.streamed)
  <2>1. n \in {n} /\ {n} \subseteq {n, -n} /\ -n \notin {n}
    BY <1>3 DEF Task
  <2>2. to[1] \notin Late
    BY <1>7 DEF Late
  <2>3. Sorted(Lots, n, mode.streamed)
    BY DEF Live
  <2> HIDE DEF n, to
  <2> QED BY <1>0, <1>3, <1>7, <2>1, <2>2, <2>3, YieldSorted
<1>11. \A a \in Spot : Lots'[a] = Entered(Lots, to, {n})[a]
  <2>1. \A k \in Shared \ {"batch"} : Lots'[OfAll(k)] = Lots[OfAll(k)]
    BY <1>2, <1>6 DEF SharedLaid, Shared
  <2>2. PICK u : u \in Worker
    BY FeedAssumption
  <2>3. "batch" \in Shared /\ \A v \in Worker : held'[v] = held[v]
    BY <1>2 DEF Shared
  <2>4. \A a \in Spot : a = <<"held", u>> \/ (\E k \in {"batch"} : a = OfAll(k)) \/ Lots'[a] = Lots[a]
    BY <1>2, <1>5, <2>1, <2>2, <2>3, OthersSpots
  <2>5. Lots'[<<"held", u>>] = Lots[<<"held", u>>]
    BY <1>2, <1>5, <2>2, <2>3, NudgeLots
  <2>6. Lots'[to] = Lots[to] \cup {n}
    BY <1>6, <1>9 DEF SharedLaid
  <2> QED BY <2>4, <2>5, <2>6 DEF Entered
<1>12. Sorted(Lots', prod'.next, mode.streamed)
  BY <1>4, <1>10, <1>11, SameSorted
<1>13. Feeding'
  BY <1>2, <1>4 DEF Live, Feeding
<1>14. Calling'
  <2>1. caller.at \notin {"unfed", "alone"}
    BY <1>2 DEF FeedInv
  <2> QED BY <1>2, <2>1 DEF Live, Calling
<1> QED BY <1>2, <1>5, <1>9, <1>12, <1>13, <1>14, OthersLive DEF Live, Tidy

\* The batch goes to the feed.
LEMMA PushLive ==
  ASSUME TypeInv, FeedInv, Live, Produce, NEW room \in BOOLEAN, NEW place, Push(room, place),
         prod.at \in {"gather", "admitted", "push"},
         place = "end" => prod.next > mode.count, place # "gone"
  PROVE  Live'
<1> DEFINE from == OfAll("batch")
           to == OfAll("feed")
<1>0. /\ mode \in Modes /\ mode.streamed \in SUBSET Task /\ prod \in ProdRecord
      /\ prod.batch \in Seq(Task) /\ feed.tasks \in Seq(Task)
      /\ feed \in [tasks : Seq(Task), closed : BOOLEAN, full : BOOLEAN]
  BY FeedAssumption DEF TypeInv, ModeType, ProdRecord
<1>1. mode.fed /\ ~feed.closed
  BY DEF Live, Feeding
<1>2. /\ \E full : feed' = [feed EXCEPT !.tasks = feed.tasks \o prod.batch, !.full = full]
      /\ UNCHANGED <<mode, run, held, queue, caller, emitted>>
      /\ \E at, flushed : /\ prod' = [prod EXCEPT !.batch = <<>>, !.at = at,
                                                  !.closed = prod'.closed, !.flushed = flushed]
                          /\ at \in {"room", "gather", place} /\ ~prod'.closed
  <2>1. /\ \E full : feed' = [feed EXCEPT !.tasks = feed.tasks \o prod.batch, !.full = full]
        /\ UNCHANGED <<mode, run, held, queue, caller, emitted>>
    BY <1>1 DEF Push, laneVars, flagVars
  <2> DEFINE tasks == feed.tasks \o prod.batch
             pushed == [prod EXCEPT !.batch = <<>>]
  <2>2. prod' = IF room THEN AfterRoom(pushed, tasks)
                ELSE [pushed EXCEPT !.at = place, !.closed = feed.closed, !.flushed = TRUE]
    BY <1>1 DEF Push
  <2>3. CASE ~room
    <3>1. prod' = [prod EXCEPT !.batch = <<>>, !.at = place, !.closed = feed.closed, !.flushed = TRUE]
      BY <2>2, <2>3
    <3>2. prod'.closed = feed.closed
      BY <1>0, <3>1 DEF ProdRecord
    <3> QED BY <1>1, <2>1, <3>1, <3>2
  <2>4. CASE room /\ Waits(tasks)
    <3>1. prod' = [pushed EXCEPT !.at = "room"]
      BY <2>2, <2>4 DEF AfterRoom
    <3>2. prod' = [prod EXCEPT !.batch = <<>>, !.at = "room", !.closed = prod.closed,
                               !.flushed = prod.flushed]
      BY <1>0, <3>1 DEF ProdRecord
    <3>3. prod'.closed = prod.closed /\ ~prod.closed
      BY <1>0, <1>1, <3>2 DEF ProdRecord, Live, Feeding
    <3> QED BY <2>1, <3>2, <3>3
  <2>5. CASE room /\ ~Waits(tasks)
    <3>1. prod' = [pushed EXCEPT !.at = "gather", !.closed = feed.closed, !.flushed = FALSE]
      BY <1>1, <2>2, <2>5 DEF AfterRoom
    <3>2. prod' = [prod EXCEPT !.batch = <<>>, !.at = "gather", !.closed = feed.closed,
                               !.flushed = FALSE]
      BY <3>1
    <3>3. prod'.closed = feed.closed
      BY <1>0, <3>2 DEF ProdRecord
    <3> QED BY <1>1, <2>1, <3>2, <3>3
  <2> QED BY <2>3, <2>4, <2>5
<1>3. feed'.tasks = feed.tasks \o prod.batch /\ feed'.closed = feed.closed
  BY <1>0, <1>2
<1>4. /\ prod'.batch = <<>> /\ prod'.next = prod.next /\ ~prod'.closed
      /\ prod'.at \in {"room", "gather", place}
  BY <1>0, <1>2 DEF ProdRecord
<1>5. Nudged(worker, worker')
  BY OthersNotify
<1>6. /\ SharedLaid(Lots, prod, feed, queue, caller, emitted)
      /\ SharedLaid(Lots', prod', feed', queue', caller', emitted')
  BY <1>2, <1>5, NudgeLots
<1>7. /\ from \in Spot /\ to \in Spot /\ from # to /\ from # Emission
      /\ from[1] \in Early /\ to[1] \notin Late
  BY DEF Emission, OfAll, Spot, Shared, Early, Late
<1>8. ToSet(feed.tasks) \cap ToSet(prod.batch) = {}
  <2>1. Lots[from] = ToSet(prod.batch) /\ Lots[to] = ToSet(feed.tasks)
    BY <1>6 DEF SharedLaid
  <2> HIDE DEF from, to
  <2> QED BY <1>7, <2>1 DEF Live, Sorted, Apart
<1>9. IsInjective(feed'.tasks) /\ ToSet(feed'.tasks) = ToSet(feed.tasks) \cup ToSet(prod.batch)
  BY <1>0, <1>3, <1>8, InjConcat DEF Live, Tidy
<1>10. Shifts(Lots, Lots', from, to, ToSet(prod.batch))
  <2>1. \A k \in Shared \ {"batch", "feed"} : Lots'[OfAll(k)] = Lots[OfAll(k)]
    BY <1>2, <1>6 DEF SharedLaid, Shared
  <2>2. PICK u : u \in Worker
    BY FeedAssumption
  <2>3. {"batch", "feed"} \subseteq Shared /\ \A v \in Worker : held'[v] = held[v]
    BY <1>2 DEF Shared
  <2>4. \A a \in Spot : \/ a = <<"held", u>> \/ Lots'[a] = Lots[a]
                        \/ \E k \in {"batch", "feed"} : a = OfAll(k)
    BY <1>2, <1>5, <2>1, <2>2, <2>3, OthersSpots
  <2>5. Lots'[<<"held", u>>] = Lots[<<"held", u>>]
    BY <1>2, <1>5, <2>2, <2>3, NudgeLots
  <2>6. /\ Lots[from] = ToSet(prod.batch) /\ Lots'[from] = {}
        /\ Lots'[to] = Lots[to] \cup ToSet(prod.batch)
    BY <1>4, <1>6, <1>9, FlatSmall DEF SharedLaid
  <2>7. \A a \in Spot \ {from, to} : Lots'[a] = Lots[a]
    BY <2>4, <2>5
  <2> QED BY <2>6, <2>7 DEF Shifts
<1>11. Sorted(Lots', prod'.next, mode.streamed)
  BY <1>0, <1>4, <1>7, <1>10, ShiftsSorted DEF Live
<1>12. Feeding'
  BY <1>1, <1>2, <1>3, <1>4 DEF Feeding
<1>13. Calling'
  <2>1. caller.at \notin {"unfed", "alone"}
    BY DEF FeedInv
  <2> QED BY <1>2, <2>1 DEF Live, Calling
<1>14. IsInjective(prod'.batch)
  BY <1>4, FlatSmall
<1>15. \A v \in Worker : held'[v] = held[v]
  BY <1>2
<1> QED BY <1>1, <1>2, <1>3, <1>5, <1>9, <1>11, <1>12, <1>13, <1>14, <1>15, OthersLive
           DEF Live, Tidy

\* Every step of the producer keeps the order.
LEMMA ProduceLive ==
  ASSUME TypeInv, FeedInv, Live, ~Stopped, Produce
  PROVE  Live'
<1>0. /\ prod \in ProdRecord /\ feed \in [tasks : Seq(Task), closed : BOOLEAN, full : BOOLEAN]
  BY DEF TypeInv
<1>1. Nudged(worker, worker') /\ UNCHANGED <<mode, run, held, queue, caller, emitted>>
  BY OthersNotify DEF Produce, Admit, Gather, PushDue, PushFull, PushLast, Abandon, Roused,
                      ProducerEnd, Push, feedVars, laneVars, flagVars
<1>2. ASSUME prod'.batch = prod.batch, prod'.next = prod.next, feed'.tasks = feed.tasks,
             feed.closed => feed'.closed, Feeding', prod.at # "gone"
      PROVE  Live'
  <2>1. caller.at \notin {"unfed", "alone"}
    BY <1>2 DEF FeedInv
  <2>2. Calling'
    BY <1>1, <2>1 DEF Live, Calling
  <2> QED BY <1>1, <1>2, <2>2, OthersStay DEF Live, Tidy
<1>3. prod.at # "gone" /\ mode.fed
  BY DEF Produce, Admit, Gather, PushDue, PushFull, PushLast, Abandon, Roused, ProducerEnd,
         Seeks, Live, Feeding
<1>4. CASE Admit
  <2>1. prod' = [prod EXCEPT !.at = "admitted"] /\ feed' = feed
    BY <1>4 DEF Admit, feedVars
  <2>2. /\ prod'.batch = prod.batch /\ prod'.next = prod.next /\ prod'.at = "admitted"
        /\ prod'.closed = prod.closed
    BY <1>0, <2>1 DEF ProdRecord
  <2>3. Feeding'
    BY <1>1, <1>3, <2>1, <2>2 DEF Live, Feeding
  <2> QED BY <1>2, <1>3, <2>1, <2>2, <2>3
<1>5. CASE Gather
  BY <1>5, GatherLive
<1>6. CASE PushDue
  BY <1>6, PushLive DEF PushDue
<1>7. CASE PushFull
  BY <1>7, PushLive DEF PushFull
<1>8. CASE PushLast
  BY <1>8, PushLive DEF PushLast
<1>9. CASE Abandon
  BY <1>3, <1>9 DEF Abandon, Live, Feeding
<1>10. CASE Roused
  <2>1. ~feed.closed /\ ~prod.closed
    BY <1>3, <1>10 DEF Roused, Live, Feeding
  <2>2. \E full : feed' = [feed EXCEPT !.full = full]
    BY <1>10 DEF Roused
  <2>3. \/ prod' = [prod EXCEPT !.at = "room"]
        \/ prod' = [prod EXCEPT !.at = "gather", !.closed = feed.closed, !.flushed = FALSE]
    BY <1>10, <2>1 DEF Roused, AfterRoom
  <2>4. feed'.tasks = feed.tasks /\ feed'.closed = feed.closed
    BY <1>0, <2>2
  <2>5. /\ prod'.batch = prod.batch /\ prod'.next = prod.next /\ prod'.at \in {"room", "gather"}
        /\ prod'.closed \in {prod.closed, feed.closed}
    BY <1>0, <2>3 DEF ProdRecord
  <2>6. Feeding'
    BY <1>1, <1>3, <2>1, <2>4, <2>5 DEF Feeding
  <2> QED BY <1>2, <1>3, <2>4, <2>5, <2>6
<1>11. CASE ProducerEnd
  <2>1. /\ prod' = Rouse([prod EXCEPT !.at = "gone"]) /\ feed' = [feed EXCEPT !.closed = TRUE]
        /\ prod.at = "end"
    BY <1>11 DEF ProducerEnd, Close
  <2>2. /\ prod'.batch = prod.batch /\ prod'.next = prod.next /\ prod'.at = "gone"
        /\ prod'.closed = prod.closed
    BY <1>0, <2>1 DEF ProdRecord, Rouse
  <2>3. feed'.tasks = feed.tasks /\ feed'.closed
    BY <1>0, <2>1
  <2>4. Feeding'
    BY <1>1, <1>3, <2>1, <2>2 DEF Live, Feeding
  <2> QED BY <1>2, <1>3, <2>2, <2>3, <2>4
<1> QED BY <1>4, <1>5, <1>6, <1>7, <1>8, <1>9, <1>10, <1>11 DEF Produce


\* What EveryGroupOnce says of the groups emitted so far.
Once(e, streamed) ==
  /\ IsInjective(e)
  /\ \A i \in DOMAIN e : e[i] \in streamed => \E j \in 1..(i - 1) : e[j] = -e[i]

\* One group more.
LEMMA OnceMore ==
  ASSUME NEW streamed, NEW e \in Seq(Groups), Once(e, streamed), NEW g \in Groups,
         g \notin ToSet(e), g \in streamed => -g \in ToSet(e)
  PROVE  /\ Append(e, g) \in Seq(Groups) /\ Once(Append(e, g), streamed)
         /\ ToSet(Append(e, g)) = ToSet(e) \cup {g}
<1> DEFINE d == Append(e, g)
           n == Len(e)
<1>1. /\ n \in Nat /\ DOMAIN e = 1..n /\ DOMAIN d = 1..(n + 1) /\ d \in Seq(Groups)
      /\ d[n + 1] = g /\ \A i \in 1..n : d[i] = e[i]
  OBVIOUS
<1>2. IsInjective(d) /\ ToSet(d) = ToSet(e) \cup {g}
  BY InjAppend DEF Once
<1> HIDE DEF d, n
<1>3. ASSUME NEW i \in 1..(n + 1), d[i] \in streamed
      PROVE  \E j \in 1..(i - 1) : d[j] = -d[i]
  <2>1. CASE i = n + 1
    <3>1. PICK j \in 1..n : e[j] = -g
      BY <1>1, <1>3, <2>1 DEF ToSet
    <3>2. j \in 1..(i - 1) /\ d[j] = -d[i]
      BY <1>1, <2>1, <3>1
    <3> QED BY <3>2
  <2>2. CASE i # n + 1
    <3>1. i \in 1..n /\ d[i] = e[i]
      BY <1>1, <2>2
    <3>2. PICK j \in 1..(i - 1) : e[j] = -e[i]
      BY <1>1, <1>3, <3>1 DEF Once
    <3>3. j \in 1..n
      BY <1>1, <3>1
    <3> QED BY <1>1, <3>1, <3>2, <3>3
  <2> QED BY <2>1, <2>2
<1> QED BY <1>1, <1>2, <1>3 DEF Once, d

\* What the caller takes from the queue or from a slot.
LEMMA ReceiveLive ==
  ASSUME TypeInv, Live, ~Stopped, Collect \/ Sweep
  PROVE  Live'
<1> DEFINE to == OfAll("caller")
<1>0. /\ mode \in Modes /\ mode.streamed \in SUBSET Task /\ caller \in CallerRecord
      /\ queue \in Seq(Batch) /\ held \in [Worker -> SlotRecord] /\ caller.slot \in Worker
  BY FeedAssumption DEF TypeInv, ModeType, CallerRecord
<1>1. Nudged(worker, worker') /\ UNCHANGED <<mode, run, prod, feed, emitted>>
  BY OthersNotify DEF CallerStep, Collect, Collecting, Sweep, feedVars, flagVars
<1>2. mode.fed /\ caller.batch = <<>> /\ caller.at \in {"collect", "sweep"}
  BY DEF Collect, Collecting, Sweep, Live, Calling
<1>3. Feeding'
  BY <1>1 DEF Live, Feeding
<1>4. /\ SharedLaid(Lots, prod, feed, queue, caller, emitted)
      /\ SharedLaid(Lots', prod', feed', queue', caller', emitted')
      /\ \A v \in Worker : OwnLaid(Lots, v, run, worker, held)
      /\ \A v \in Worker : OwnLaid(Lots', v, run', worker', held')
  BY <1>1, NudgeLots
<1>5. Pending(caller) = {}
  BY <1>2, FlatSmall DEF Pending
<1>6. CASE Collect /\ queue = <<>>
  <2>1. \/ \E at \in {"ending", "sweep"} : caller' = [caller EXCEPT !.at = at]
        \/ caller' = [caller EXCEPT !.clean = 0]
    BY <1>6 DEF Collect, Collecting
  <2>2. caller'.batch = <<>> /\ caller'.at \in {"ending", "sweep", "collect"}
    BY <1>0, <1>2, <1>6, <2>1 DEF CallerRecord, Collect, Collecting
  <2>3. UNCHANGED <<queue, held>>
    BY <1>6 DEF Collect, Collecting
  <2>4. Calling'
    BY <1>1, <1>2, <2>2 DEF Calling
  <2>5. Pending(caller') = {} /\ IsInjective(caller'.batch)
    BY <2>2, FlatSmall DEF Pending
  <2> QED BY <1>1, <1>3, <1>5, <2>3, <2>4, <2>5, OthersStay
<1>7. CASE Collect /\ queue # <<>>
  <2> DEFINE b == Head(queue)
             from == OfAll("queue")
  <2>1. caller' = [caller EXCEPT !.batch = b, !.clean = 0, !.at = "publish"]
        /\ queue' = Tail(queue) /\ held' = held
    BY <1>7 DEF Collect, Collecting, Receives
  <2>2. caller'.batch = b /\ caller'.at = "publish"
    BY <1>0, <2>1 DEF CallerRecord
  <2>3. /\ FlatApart(queue') /\ IsInjective(b) /\ ToSet(b) \subseteq Flat(queue)
        /\ Flat(queue') = Flat(queue) \ ToSet(b)
    BY <1>0, <1>7, <2>1, FlatTail DEF Live, Tidy
  <2> HIDE DEF b
  <2>4. Pending(caller') = ToSet(b) /\ Calling'
    BY <1>1, <1>2, <2>2 DEF Pending, Calling
  <2>5. /\ from \in Spot /\ to \in Spot /\ from # to /\ from # Emission
        /\ from[1] \in Late /\ to[1] \notin Early
    BY DEF Emission, OfAll, Spot, Shared, Early, Late
  <2>6. Shifts(Lots, Lots', from, to, ToSet(b))
    <3>1. \A k \in Shared \ {"queue", "caller"} : Lots'[OfAll(k)] = Lots[OfAll(k)]
      BY <1>1, <1>4 DEF SharedLaid, Shared
    <3>2. PICK u : u \in Worker
      BY FeedAssumption
    <3>3. {"queue", "caller"} \subseteq Shared /\ \A v \in Worker : held'[v] = held[v]
      BY <2>1 DEF Shared
    <3>4. \A a \in Spot : \/ a = <<"held", u>> \/ Lots'[a] = Lots[a]
                          \/ \E k \in {"queue", "caller"} : a = OfAll(k)
      BY <1>1, <3>1, <3>2, <3>3, OthersSpots
    <3>5. Lots'[<<"held", u>>] = Lots[<<"held", u>>]
      BY <1>1, <3>2, <3>3, NudgeLots
    <3>6. /\ Lots[from] = Flat(queue) /\ Lots'[from] = Flat(queue')
          /\ Lots[to] = {} /\ Lots'[to] = ToSet(b)
      BY <1>4, <1>5, <2>4 DEF SharedLaid
    <3>7. \A a \in Spot \ {from, to} : Lots'[a] = Lots[a]
      BY <3>4, <3>5
    <3> QED BY <2>3, <3>6, <3>7 DEF Shifts
  <2>7. Sorted(Lots', prod'.next, mode.streamed)
    BY <1>0, <1>1, <2>5, <2>6, ShiftsSorted DEF Live
  <2>8. IsInjective(caller'.batch) /\ \A v \in Worker : held'[v] = held[v]
    BY <2>1, <2>2, <2>3
  <2> QED BY <1>1, <1>3, <2>3, <2>4, <2>7, <2>8, OthersLive DEF Live, Tidy
<1>8. CASE Sweep
  <2> DEFINE u == caller.slot
             b == held[u].groups
             at == IF b = <<>> THEN "collect" ELSE "publish"
             from == <<"held", u>>
  <2>1. /\ \E slot, clean : caller' = [caller EXCEPT !.batch = b, !.slot = slot, !.clean = clean,
                                                     !.at = at]
        /\ held' = [held EXCEPT ![u] = NoneHeld] /\ queue' = queue
    BY <1>8 DEF Sweep
  <2>2. caller'.batch = b /\ caller'.at = at
    BY <1>0, <2>1 DEF CallerRecord
  <2>3. held'[u].groups = <<>> /\ \A v \in Worker \ {u} : held'[v] = held[v]
    BY <1>0, <2>1 DEF NoneHeld
  <2>4. Pending(caller') = ToSet(b) /\ Calling'
    BY <1>1, <1>2, <2>2 DEF Pending, Calling
  <2>5. /\ from \in Spot /\ to \in Spot /\ from # to /\ from # Emission
        /\ from[1] \in Late /\ to[1] \notin Early
    BY <1>0 DEF Emission, OfAll, Spot, Shared, Own, Early, Late
  <2>6. Shifts(Lots, Lots', from, to, ToSet(b))
    <3>1. \A k \in Shared \ {"caller"} : Lots'[OfAll(k)] = Lots[OfAll(k)]
      BY <1>1, <1>4, <2>1 DEF SharedLaid, Shared
    <3>2. "caller" \in Shared
      BY DEF Shared
    <3>3. \A a \in Spot : \/ a = <<"held", u>> \/ Lots'[a] = Lots[a]
                          \/ \E k \in {"caller"} : a = OfAll(k)
      <4>1. /\ Nudged(worker, worker') /\ UNCHANGED run /\ u \in Worker
            /\ {"caller"} \in SUBSET Shared
        BY <1>0, <1>1, <3>2
      <4>2. \A v \in Worker \ {u} : held'[v] = held[v]
        BY <2>3
      <4> HIDE DEF u
      <4> QED BY <3>1, <4>1, <4>2, OthersSpots
    <3>4. /\ Lots[to] = {} /\ Lots'[to] = ToSet(b)
      BY <1>4, <1>5, <2>4 DEF SharedLaid
    <3>5. Lots[from] = ToSet(b) /\ Lots'[from] = {}
      BY <1>0, <1>4, <2>3, FlatSmall DEF OwnLaid
    <3>6. \A a \in Spot \ {from, to} : Lots'[a] = Lots[a]
      BY <3>3
    <3> QED BY <3>4, <3>5, <3>6 DEF Shifts
  <2>7. Sorted(Lots', prod'.next, mode.streamed)
    BY <1>0, <1>1, <2>5, <2>6, ShiftsSorted DEF Live
  <2>8. IsInjective(caller'.batch) /\ \A v \in Worker : held'[v] = held[v] \/ held'[v].groups = <<>>
    BY <1>0, <2>2, <2>3 DEF Live, Tidy
  <2> QED BY <1>1, <1>3, <2>1, <2>4, <2>7, <2>8, OthersLive DEF Live, Tidy
<1> QED BY <1>6, <1>7, <1>8

\* A stream is read to its end; or a caller without a producer closes the feed.
LEMMA ReadLive ==
  ASSUME TypeInv, LaneInv, FeedInv, Live, ~Stopped, StreamDone \/ CloseUnfed
  PROVE  Stopped' \/ Live'
<1>0. caller \in CallerRecord /\ prod \in ProdRecord
      /\ feed \in [tasks : Seq(Task), closed : BOOLEAN, full : BOOLEAN]
  BY DEF TypeInv
<1>1. /\ Nudged(worker, worker') /\ UNCHANGED <<mode, run, held, queue, emitted>>
  BY OthersNotify DEF CallerStep, StreamDone, CloseUnfed, feedVars, flagVars
<1>2. CASE StreamDone
  <2>1. PICK breaks \in mode.breaks : caller' = Emitted(breaks) /\ cancelled' = (cancelled \/ breaks)
    BY <1>2 DEF StreamDone
  <2>2. CASE breaks
    BY <2>1, <2>2 DEF Stopped
  <2>3. CASE ~breaks
    <3>1. /\ caller.at = "stream" /\ caller.batch # <<>> /\ caller.batch \in Seq(Groups)
          /\ mode.fed /\ IsInjective(caller.batch)
          /\ UNCHANGED <<prod, feed>>
      BY <1>0, <1>2 DEF StreamDone, Publishing, LaneInv, CallerRecord, Live, Calling, Tidy,
                        feedVars
    <3>2. /\ caller'.batch = Tail(caller.batch) /\ caller'.at \in {"collect", "publish"}
          /\ caller'.at = "collect" => Len(caller.batch) = 1
      BY <1>0, <2>1, <2>3 DEF Emitted, CallerRecord
    <3>3. caller'.at = "collect" => caller'.batch = <<>>
      <4> DEFINE b == caller.batch
      <4>1. Len(b) = 1 => Len(Tail(b)) = 0 /\ Tail(b) \in Seq(Groups)
        BY <3>1
      <4>2. Len(b) = 1 => Tail(b) = <<>>
        BY <4>1, EmptySeq
      <4> QED BY <3>2, <4>2
    <3>4. Pending(caller') = Pending(caller)
      BY <3>1, <3>2 DEF Pending
    <3>5. Feeding' /\ Calling'
      BY <1>1, <3>1, <3>2, <3>3 DEF Live, Feeding, Calling
    <3>6. IsInjective(caller'.batch)
      BY <3>1, <3>2, InjTail
    <3>7. Live'
      BY <1>1, <3>1, <3>4, <3>5, <3>6, OthersStay
    <3> QED BY <3>7
  <2> QED BY <2>2, <2>3
<1>3. CASE CloseUnfed
  <2>1. /\ caller.at = "unfed" /\ caller' = [caller EXCEPT !.at = "alone"]
        /\ feed' = [feed EXCEPT !.closed = TRUE] /\ prod' = Rouse(prod) /\ prod.at = "gone"
    BY <1>3 DEF CloseUnfed, Close, FeedInv
  <2>2. /\ caller'.at = "alone" /\ caller'.batch = caller.batch /\ feed'.tasks = feed.tasks
        /\ feed'.closed /\ prod' = prod
    BY <1>0, <2>1 DEF CallerRecord, Rouse
  <2>3. Feeding' /\ Calling'
    BY <1>1, <2>1, <2>2 DEF Live, Feeding, Calling
  <2>4. Pending(caller') = Pending(caller) /\ IsInjective(caller'.batch)
    BY <2>1, <2>2 DEF Pending, Live, Tidy
  <2>5. Live'
    BY <1>1, <2>2, <2>3, <2>4, OthersStay
  <2> QED BY <2>5
<1> QED BY <1>2, <1>3


\* The caller emits the first group of its batch.
LEMMA PublishLive ==
  ASSUME TypeInv, LaneInv, Live, Once(emitted, mode.streamed), ~Stopped, Publish
  PROVE  Once(emitted', mode.streamed) /\ (Stopped' \/ Live')
<1> DEFINE b == caller.batch
           g == Head(b)
           from == OfAll("caller")
<1>0. /\ mode \in Modes /\ mode.streamed \in SUBSET Task /\ caller \in CallerRecord
      /\ emitted \in Seq(Groups)
  BY FeedAssumption DEF TypeInv, ModeType
<1>1. /\ Nudged(worker, worker') /\ UNCHANGED <<mode, run, held, queue, prod, feed, stop>>
  BY OthersNotify DEF CallerStep, Publish, feedVars
<1>2. /\ caller.at = "publish" /\ b \in Seq(Groups) /\ b # <<>> /\ IsInjective(b) /\ mode.fed
  BY <1>0 DEF Publish, CallerRecord, LaneInv, Live, Tidy, Calling
<1>3. /\ emitted' = Append(emitted, g)
      /\ \/ caller' = [caller EXCEPT !.at = "stream"]
         \/ \E breaks \in mode.breaks : caller' = Emitted(breaks) /\ cancelled' = (cancelled \/ breaks)
  BY DEF Publish
<1>4. /\ IsInjective(Tail(b)) /\ ToSet(Tail(b)) = ToSet(b) \ {g} /\ g \in ToSet(b) /\ g \in Groups
  BY <1>2, InjTail
<1>5. Len(b) = 1 => Tail(b) = <<>>
  <2>1. Len(b) = 1 => Len(Tail(b)) = 0 /\ Tail(b) \in Seq(Groups)
    BY <1>2
  <2> QED BY <2>1, EmptySeq
<1> HIDE DEF b, g
<1>6. /\ SharedLaid(Lots, prod, feed, queue, caller, emitted)
      /\ SharedLaid(Lots', prod', feed', queue', caller', emitted')
  BY <1>1, NudgeLots
<1>7. /\ from \in Spot /\ from # Emission /\ from[1] \in Late /\ Emission \in Spot
      /\ Emission[1] \notin Early
  BY DEF Emission, OfAll, Spot, Shared, Early, Late
<1>8. Lots[from] = ToSet(b) /\ Lots[Emission] = ToSet(emitted)
  BY <1>2, <1>6 DEF SharedLaid, Pending, Emission, b
<1>9. g \notin ToSet(emitted) /\ (g \in mode.streamed => -g \in ToSet(emitted))
  <2>1. g \in Lots[Emission] => from = Emission
    BY <1>4, <1>7, <1>8 DEF Live, Sorted, Apart
  <2>2. g \in mode.streamed => -g \in Lots[Emission]
    BY <1>4, <1>7, <1>8 DEF Live, Sorted
  <2> QED BY <1>7, <1>8, <2>1, <2>2
<1>10. Once(emitted', mode.streamed) /\ ToSet(emitted') = ToSet(emitted) \cup {g}
  BY <1>0, <1>3, <1>4, <1>9, OnceMore
<1>11. ASSUME Pending(caller') = ToSet(b) \ {g}, Calling', IsInjective(caller'.batch)
       PROVE  Live'
  <2>1. Shifts(Lots, Lots', from, Emission, {g})
    <3>1. \A k \in Shared \ {"emitted", "caller"} : Lots'[OfAll(k)] = Lots[OfAll(k)]
      BY <1>1, <1>6 DEF SharedLaid, Shared
    <3>2. PICK u : u \in Worker
      BY FeedAssumption
    <3>3. {"emitted", "caller"} \subseteq Shared /\ \A v \in Worker : held'[v] = held[v]
      BY <1>1 DEF Shared
    <3>4. \A a \in Spot : \/ a = <<"held", u>> \/ Lots'[a] = Lots[a]
                          \/ \E k \in {"emitted", "caller"} : a = OfAll(k)
      BY <1>1, <3>1, <3>2, <3>3, OthersSpots
    <3>5. Lots'[<<"held", u>>] = Lots[<<"held", u>>]
      BY <1>1, <3>2, <3>3, NudgeLots
    <3>6. Lots'[from] = ToSet(b) \ {g} /\ Lots'[Emission] = ToSet(emitted) \cup {g}
      BY <1>6, <1>10, <1>11 DEF SharedLaid, Emission
    <3>7. \A a \in Spot \ {from, Emission} : Lots'[a] = Lots[a]
      BY <3>4, <3>5 DEF Emission
    <3> QED BY <1>4, <1>8, <3>6, <3>7 DEF Shifts
  <2>2. Sorted(Lots', prod'.next, mode.streamed)
    BY <1>0, <1>1, <1>7, <2>1, ShiftsSorted, SpotKinds DEF Live
  <2>3. Feeding' /\ \A v \in Worker : held'[v] = held[v]
    BY <1>1 DEF Live, Feeding
  <2>4. IsInjective(prod'.batch) /\ IsInjective(feed'.tasks) /\ FlatApart(queue')
    BY <1>1 DEF Live, Tidy
  <2> QED BY <1>1, <1>11, <2>2, <2>3, <2>4, OthersLive
<1>12. CASE caller' = [caller EXCEPT !.at = "stream"]
  <2>1. caller'.at = "stream" /\ caller'.batch = b
    BY <1>0, <1>12 DEF CallerRecord, b
  <2>2. Pending(caller') = ToSet(b) \ {g} /\ IsInjective(caller'.batch)
    BY <1>2, <1>4, <2>1 DEF Pending
  <2>3. Calling'
    BY <1>1, <1>2, <1>10, <2>1 DEF Calling, g
  <2> QED BY <1>10, <1>11, <2>2, <2>3
<1>13. CASE \E breaks \in mode.breaks : caller' = Emitted(breaks) /\ cancelled' = (cancelled \/ breaks)
  <2>1. PICK breaks \in mode.breaks : caller' = Emitted(breaks) /\ cancelled' = (cancelled \/ breaks)
    BY <1>13
  <2>2. CASE breaks
    BY <1>10, <2>1, <2>2 DEF Stopped
  <2>3. CASE ~breaks
    <3>1. /\ caller'.batch = Tail(b) /\ caller'.at \in {"collect", "publish"}
          /\ caller'.at = "collect" => Len(b) = 1
      BY <1>0, <2>1, <2>3 DEF Emitted, CallerRecord, b
    <3>2. Pending(caller') = ToSet(b) \ {g} /\ IsInjective(caller'.batch)
      BY <1>4, <3>1 DEF Pending
    <3>3. Calling'
      BY <1>1, <1>2, <1>5, <3>1 DEF Calling
    <3> QED BY <1>10, <1>11, <3>2, <3>3
  <2> QED BY <2>2, <2>3
<1> QED BY <1>3, <1>12, <1>13

\* A caller that works alone emits the next task's group, and its stream before.
LEMMA AloneLive ==
  ASSUME TypeInv, FeedInv, Live, Once(emitted, mode.streamed), ~Stopped, Alone
  PROVE  Once(emitted', mode.streamed) /\ (Stopped' \/ Live')
<1> DEFINE n == prod.next
<1>0. /\ mode \in Modes /\ mode.streamed \in SUBSET Task /\ caller \in CallerRecord
      /\ emitted \in Seq(Groups) /\ prod \in ProdRecord /\ mode.count \in Task
      /\ MaxTasks \in Nat
  BY FeedAssumption DEF TypeInv, ModeType
<1>1. /\ Nudged(worker, worker') /\ UNCHANGED <<mode, run, held, queue, feed, stop>>
  BY OthersNotify DEF CallerStep, Alone, feedVars
<1>2. caller.at = "alone" /\ ~mode.fed /\ prod.at = "gone" /\ caller.batch = <<>>
  BY DEF Alone, Live, Calling, Feeding
<1>3. n \in 1..(MaxTasks + 1) /\ \A t \in 1..(n - 1) : t \in ToSet(emitted)
  BY <1>0, <1>2 DEF ProdRecord, Live, Calling
<1>4. CASE n > mode.count
  <2>1. caller' = [caller EXCEPT !.at = "ending"] /\ UNCHANGED <<prod, emitted>>
    BY <1>4 DEF Alone
  <2>2. caller'.at = "ending" /\ caller'.batch = <<>>
    BY <1>0, <1>2, <2>1 DEF CallerRecord
  <2>3. Pending(caller') = Pending(caller) /\ IsInjective(caller'.batch)
    BY <1>2, <2>2, FlatSmall DEF Pending
  <2>4. Feeding' /\ Calling'
    BY <1>1, <2>1, <2>2 DEF Live, Feeding, Calling
  <2>5. Live'
    BY <1>1, <2>1, <2>3, <2>4, OthersStay
  <2> QED BY <1>1, <2>1, <2>5
<1>5. CASE ~(n > mode.count)
  <2> DEFINE X == IF n \in mode.streamed THEN {n, -n} ELSE {n}
             more == IF n \in mode.streamed THEN <<-n>> ELSE <<>>
  <2>0. n \in Task /\ n \in Int /\ n > 0 /\ n \in Groups /\ -n \in Groups /\ n # -n
        /\ -n \notin Task
    BY <1>0, <1>3, <1>5 DEF Task, Groups
  <2>1. PICK breaks \in mode.breaks :
          /\ prod' = [prod EXCEPT !.next = n + 1]
          /\ emitted' = emitted \o more \o <<n>>
          /\ cancelled' = (cancelled \/ breaks)
          /\ caller' = IF breaks THEN [caller EXCEPT !.at = "ending"] ELSE caller
    BY <1>5 DEF Alone
  <2>2. /\ prod'.next = n + 1 /\ prod'.at = "gone" /\ prod'.batch = prod.batch
        /\ prod'.closed = prod.closed
    BY <1>0, <1>2, <2>1 DEF ProdRecord
  <2>3. /\ SharedLaid(Lots, prod, feed, queue, caller, emitted)
        /\ SharedLaid(Lots', prod', feed', queue', caller', emitted')
    BY <1>1, NudgeLots
  <2>4. n \notin ToSet(emitted) /\ -n \notin ToSet(emitted)
    <3>1. ~Somewhere(Lots, n) /\ ~Somewhere(Lots, -n)
      BY <2>0 DEF Live, Sorted
    <3> QED BY <2>3, <3>1, SpotKinds DEF Somewhere, SharedLaid, Emission
  <2>5. Once(emitted', mode.streamed) /\ ToSet(emitted') = ToSet(emitted) \cup X
    <3>1. CASE n \in mode.streamed
      <4> DEFINE d == Append(emitted, -n)
      <4>1. -n \in mode.streamed => -(-n) \in ToSet(emitted)
        BY <1>0, <2>0
      <4>2. /\ d \in Seq(Groups) /\ Once(d, mode.streamed)
            /\ ToSet(d) = ToSet(emitted) \cup {-n}
        BY <1>0, <2>0, <2>4, <4>1, OnceMore
      <4>3. emitted' = Append(d, n)
        BY <1>0, <2>0, <2>1, <3>1
      <4> HIDE DEF d
      <4>4. n \notin ToSet(d) /\ -n \in ToSet(d)
        BY <2>0, <2>4, <4>2
      <4>5. /\ Once(emitted', mode.streamed) /\ ToSet(emitted') = ToSet(d) \cup {n}
        BY <2>0, <4>2, <4>3, <4>4, OnceMore
      <4> QED BY <3>1, <4>2, <4>5
    <3>2. CASE n \notin mode.streamed
      <4>1. emitted' = Append(emitted, n)
        BY <1>0, <2>0, <2>1, <3>2
      <4> QED BY <1>0, <2>0, <2>4, <3>2, <4>1, OnceMore
    <3> QED BY <3>1, <3>2
  <2>6. CASE breaks
    BY <2>1, <2>5, <2>6 DEF Stopped
  <2>7. CASE ~breaks
    <3>1. UNCHANGED caller
      BY <2>1, <2>7
    <3>2. Feeding'
      BY <1>1, <1>2, <2>2 DEF Feeding
    <3>3. Calling'
      <4>1. \A t \in 1..(prod'.next - 1) : t \in ToSet(emitted')
        BY <1>3, <2>2, <2>5
      <4> QED BY <1>1, <1>2, <3>1, <4>1 DEF Calling
    <3>4. Sorted(Lots', prod'.next, mode.streamed)
      <4>1. /\ n \in X /\ X \subseteq {n, -n} /\ (n \in mode.streamed => -n \in X)
        OBVIOUS
      <4> HIDE DEF X
      <4>2. Emission[1] \notin Early
        BY SpotKinds
      <4>3. Sorted(Entered(Lots, Emission, X), n + 1, mode.streamed)
        BY <1>0, <2>0, <4>1, <4>2, YieldSorted, SpotKinds DEF Live
      <4>4. \A k \in Shared \ {"emitted"} : Lots'[OfAll(k)] = Lots[OfAll(k)]
        BY <1>1, <2>2, <2>3, <3>1 DEF SharedLaid, Shared
      <4>5. PICK u : u \in Worker
        BY FeedAssumption
      <4>6. {"emitted"} \subseteq Shared /\ \A v \in Worker : held'[v] = held[v]
        BY <1>1 DEF Shared
      <4>7. \A a \in Spot : \/ a = <<"held", u>> \/ Lots'[a] = Lots[a]
                            \/ \E k \in {"emitted"} : a = OfAll(k)
        BY <1>1, <4>4, <4>5, <4>6, OthersSpots
      <4>8. Lots'[<<"held", u>>] = Lots[<<"held", u>>]
        BY <1>1, <4>5, <4>6, NudgeLots
      <4>9. Lots'[Emission] = Lots[Emission] \cup X
        BY <2>3, <2>5 DEF SharedLaid, Emission
      <4>10. \A a \in Spot : Lots'[a] = Entered(Lots, Emission, X)[a]
        BY <4>7, <4>8, <4>9 DEF Entered, Emission
      <4> QED BY <2>2, <4>3, <4>10, SameSorted
    <3>5. /\ IsInjective(prod'.batch) /\ IsInjective(feed'.tasks) /\ FlatApart(queue')
          /\ IsInjective(caller'.batch) /\ \A v \in Worker : held'[v] = held[v]
      BY <1>1, <2>2, <3>1 DEF Live, Tidy
    <3>6. Live'
      BY <1>1, <3>2, <3>3, <3>4, <3>5, OthersLive
    <3> QED BY <2>5, <3>6
  <2> QED BY <2>6, <2>7
<1> QED BY <1>4, <1>5


\* A step of the caller in a run that goes on.
LEMMA CallerLive ==
  ASSUME TypeInv, LaneInv, FeedInv, Live, Stopping, Once(emitted, mode.streamed), ~Stopped,
         CallerStep
  PROVE  Once(emitted', mode.streamed) /\ (Stopped' \/ Live')
<1>1. CASE Publish
  BY <1>1, PublishLive
<1>2. CASE Alone
  BY <1>2, AloneLive
<1>3. CASE Collect \/ Sweep
  <2>1. UNCHANGED emitted
    BY <1>3 DEF Collect, Collecting, Sweep
  <2> QED BY <1>3, <2>1, ReceiveLive
<1>4. CASE StreamDone \/ CloseUnfed
  <2>1. UNCHANGED emitted
    BY <1>4 DEF StreamDone, CloseUnfed
  <2> QED BY <1>4, <2>1, ReadLive
<1>5. CASE End
  BY <1>5 DEF End, Stopped
<1>6. CASE Halt \/ Join
  BY <1>6 DEF Halt, Join, Stopping, ReceiverGone, Stopped
<1> QED BY <1>1, <1>2, <1>3, <1>4, <1>5, <1>6 DEF CallerStep

\* A collection ends when every worker is gone; then nothing is left anywhere.
LEMMA CollectedAll ==
  ASSUME TypeInv, Live, Stopping, ~Stopped, caller.at = "collect", queue = <<>>, Senders = {}
  PROVE  1..mode.count \subseteq ToSet(emitted)
<1>0. /\ mode.fed => mode.started # {}
      /\ mode.started \in SUBSET Worker /\ mode.count \in Task
      /\ worker \in [Worker -> WorkerRecord] /\ prod \in ProdRecord /\ MaxTasks \in Nat
  BY FeedAssumption DEF TypeInv, ModeType
<1>1. \A w \in Worker : worker[w].at = "gone"
  BY DEF Senders, At, Stopping, Stopped
<1>2. PICK w \in mode.started : w \in Worker
  BY <1>0 DEF Live, Calling
<1>3. feed.closed /\ feed.tasks = <<>>
  BY <1>1, <1>2 DEF Live, Leaving, Exits
<1>4. prod.next > mode.count /\ prod.batch = <<>> /\ caller.batch = <<>>
  BY <1>3 DEF Live, Feeding, Calling
<1>5. /\ SharedLaid(Lots, prod, feed, queue, caller, emitted)
      /\ \A v \in Worker : OwnLaid(Lots, v, run, worker, held)
  BY LotsAre DEF Lots
<1>6. ASSUME NEW k \in Shared, k # "emitted" PROVE Lots[OfAll(k)] = {}
  <2>1. Pending(caller) = {}
    BY <1>4, FlatSmall DEF Pending
  <2>2. k \in {"batch", "feed", "queue", "caller"}
    BY <1>6 DEF Shared
  <2> QED BY <1>3, <1>4, <1>5, <2>1, <2>2, FlatSmall DEF SharedLaid
<1>7. ASSUME NEW k \in Own, NEW v \in Worker PROVE Lots[<<k, v>>] = {}
  <2>1. worker[v].at = "gone" /\ OwnLaid(Lots, v, run, worker, held)
    BY <1>1, <1>5
  <2>2. run[v] = <<>> /\ held[v].groups = <<>> /\ worker[v].out = <<>>
    BY <2>1 DEF Live, Leaving, Exits, Sends
  <2>3. /\ TaskAt(worker[v], Before) = {} /\ TaskAt(worker[v], During) = {}
        /\ TaskAt(worker[v], {"worked"}) = {}
    BY <2>1 DEF TaskAt, Before, During, WaitsBytes
  <2>4. k \in {"run", "todo", "busy", "worked", "held", "out"}
    BY DEF Own
  <2> QED BY <2>1, <2>2, <2>3, <2>4, FlatSmall DEF OwnLaid
<1>8. ASSUME NEW t \in 1..mode.count PROVE t \in ToSet(emitted)
  <2>1. t \in Task /\ t < prod.next
    BY <1>0, <1>4 DEF Task, ProdRecord
  <2>2. PICK a \in Spot : t \in Lots[a]
    BY <2>1 DEF Live, Sorted, Somewhere
  <2>3. a = OfAll("emitted")
    BY <1>6, <1>7, <2>2, SpotsCover
  <2> QED BY <1>5, <2>2, <2>3 DEF SharedLaid
<1> QED BY <1>8

\* A caller comes to its end in a run that is not stopped with all published.
LEMMA EndsWithAll ==
  ASSUME TypeInv, Live, Stopping, ~Stopped, ~Stopped', CallerStep, caller'.at = "ending"
  PROVE  1..mode.count \subseteq ToSet(emitted')
<1>0. caller \in CallerRecord /\ prod \in ProdRecord /\ mode \in Modes /\ mode.count \in Task
      /\ MaxTasks \in Nat
  BY FeedAssumption DEF TypeInv, ModeType
<1>1. CASE Collect
  <2>1. queue = <<>> /\ Senders = {} /\ caller.at = "collect" /\ emitted' = emitted
    <3>1. queue = <<>>
      <4>1. queue # <<>> => caller' = Receives
        BY <1>1 DEF Collect, Collecting
      <4> QED BY <1>0, <4>1 DEF Receives, CallerRecord
    <3>2. Senders = {}
      <4>1. Senders # {} => \/ caller' = [caller EXCEPT !.at = "sweep"]
                            \/ caller' = [caller EXCEPT !.clean = 0]
        BY <1>1, <3>1 DEF Collect, Collecting
      <4> QED BY <1>0, <1>1, <4>1 DEF CallerRecord, Collect, Collecting
    <3> QED BY <1>1, <3>1, <3>2 DEF Collect, Collecting
  <2> QED BY <2>1, CollectedAll
<1>2. CASE Alone
  <2>1. prod.next > mode.count
    BY <1>0, <1>2 DEF Alone, Stopped, CallerRecord
  <2>2. /\ emitted' = emitted /\ \A t \in 1..(prod.next - 1) : t \in ToSet(emitted)
    BY <1>2, <2>1 DEF Alone, Live, Calling
  <2>3. 1..mode.count \subseteq 1..(prod.next - 1)
    BY <1>0, <2>1 DEF ProdRecord, Task
  <2> QED BY <2>2, <2>3
<1>3. ASSUME NEW breaks \in mode.breaks, caller' = Emitted(breaks),
             cancelled' = (cancelled \/ breaks)
      PROVE  FALSE
  <2>1. ~breaks
    BY <1>3 DEF Stopped
  <2> QED BY <1>0, <1>3, <2>1 DEF Emitted, CallerRecord
<1>4. CASE Publish
  BY <1>0, <1>3, <1>4 DEF Publish, CallerRecord
<1>5. CASE StreamDone
  BY <1>3, <1>5 DEF StreamDone
<1>6. CASE Sweep \/ End \/ Halt \/ Join \/ CloseUnfed
  BY <1>0, <1>6 DEF Sweep, End, Halt, Join, CloseUnfed, CallerRecord
<1> QED BY <1>1, <1>2, <1>4, <1>5, <1>6 DEF CallerStep

----------------------------------------------------------------------------
(* Every step.                                                             *)

\* What a step of another thread leaves the caller.
LEMMA OthersLeave ==
  ASSUME Produce \/ Cancel \/ UNCHANGED vars \/ \E w \in Worker : Take(w) \/ Worked(w)
  PROVE  UNCHANGED <<mode, caller, emitted>>
<1>1. CASE Produce
  BY <1>1 DEF Produce, Admit, Gather, PushDue, PushFull, PushLast, Abandon, Roused, ProducerEnd,
              Push, laneVars, flagVars
<1>2. CASE Cancel \/ UNCHANGED vars
  BY <1>2 DEF Cancel, vars, laneVars
<1>3. ASSUME NEW w \in Worker, Take(w) PROVE UNCHANGED <<mode, caller, emitted>>
  BY <1>3 DEF Take, TakeOwn, CountOwn, TakeFeed, Taking, Steal, TakeNothing, laneVars, flagVars
<1>4. ASSUME NEW w \in Worker, Worked(w) PROVE UNCHANGED <<mode, caller, emitted>>
  <2>1. Reserve(w) \/ ReserveWait(w) \/ Park(w) \/ Unpark(w) \/ AdmitReader(w) \/ Work(w)
          \/ Handoff(w) \/ HandoffSend(w) \/ StreamEnd(w) => UNCHANGED <<mode, caller, emitted>>
    BY DEF Reserve, ReserveWait, Park, Unpark, AdmitReader, Work, Handoff, HandoffSend,
           StreamEnd, flagVars
  <2>2. Hand(w) \/ Send(w) \/ StopWork(w) \/ Flush(w) \/ SendLast(w) \/ Leave(w) \/ Unwind(w)
          \/ HaltWake(w) \/ Panic(w) => UNCHANGED <<mode, caller, emitted>>
    BY DEF Hand, Handing, Send, StopWork, Flush, SendLast, Leave, Unwind, HaltWake, Panic,
           laneVars, flagVars
  <2> QED BY <1>4, <2>1, <2>2 DEF Worked
<1> QED BY <1>1, <1>2, <1>3, <1>4

\* A run that has stopped stays so.
LEMMA StopStays ==
  ASSUME [Next]_vars
  PROVE  (stop => stop') /\ (cancelled => cancelled')
<1>1. ASSUME Produce PROVE stop' = stop /\ cancelled' = cancelled
  BY <1>1 DEF Produce, Admit, Gather, PushDue, PushFull, PushLast, Abandon, Roused, ProducerEnd,
              Push, flagVars
<1>2. CASE Cancel \/ UNCHANGED vars
  BY <1>2 DEF Cancel, vars
<1>3. ASSUME NEW w \in Worker, Take(w) PROVE stop' = stop /\ cancelled' = cancelled
  BY <1>3 DEF Take, TakeOwn, CountOwn, TakeFeed, Taking, Steal, TakeNothing, flagVars
<1>4. ASSUME NEW w \in Worker, Worked(w) PROVE stop' \in {stop, TRUE} /\ cancelled' = cancelled
  <2>1. Reserve(w) \/ ReserveWait(w) \/ Park(w) \/ Unpark(w) \/ AdmitReader(w) \/ Work(w)
          \/ Handoff(w) \/ HandoffSend(w) \/ StreamEnd(w) => UNCHANGED <<stop, cancelled>>
    BY DEF Reserve, ReserveWait, Park, Unpark, AdmitReader, Work, Handoff, HandoffSend,
           StreamEnd, flagVars
  <2>2. Hand(w) \/ Send(w) \/ StopWork(w) \/ Flush(w) \/ SendLast(w) \/ Leave(w)
          \/ HaltWake(w) \/ Panic(w) => UNCHANGED <<stop, cancelled>>
    BY DEF Hand, Handing, Send, StopWork, Flush, SendLast, Leave, HaltWake, Panic, flagVars
  <2>3. Unwind(w) => stop' = TRUE /\ cancelled' = cancelled
    BY DEF Unwind
  <2> QED BY <1>4, <2>1, <2>2, <2>3 DEF Worked
<1>5. ASSUME CallerStep PROVE stop' \in {stop, TRUE} /\ (cancelled => cancelled')
  <2>1. CASE Publish \/ StreamDone \/ Alone
    BY <2>1 DEF Publish, StreamDone, Alone
  <2>2. CASE Collect \/ Sweep \/ Halt \/ Join \/ CloseUnfed
    <3>1. UNCHANGED flagVars
      BY <2>2 DEF Collect, Collecting, Sweep, Halt, Join, CloseUnfed
    <3> QED BY <3>1 DEF flagVars
  <2>3. CASE End
    BY <2>3 DEF End
  <2> QED BY <1>5, <2>1, <2>2, <2>3 DEF CallerStep
<1>6. (stop' \in {stop, TRUE} => (stop => stop')) /\ (stop' = stop => (stop => stop'))
      /\ (cancelled' = cancelled => (cancelled => cancelled'))
  BY Zenon
<1>7. ASSUME NEW w \in Worker, Take(w) \/ Worked(w)
      PROVE  (stop => stop') /\ (cancelled => cancelled')
  BY <1>3, <1>4, <1>6, <1>7, Zenon
<1>8. CASE Produce
  BY <1>1, <1>6, <1>8, Zenon
<1>9. CASE CallerStep
  BY <1>5, <1>6, <1>9, Zenon
<1> QED BY <1>2, <1>7, <1>8, <1>9, Steps, Zenon

\* Only unwinding leads to a halt.
LEMMA Halting ==
  ASSUME TypeInv, LaneInv, RunInv, NEW w \in Worker, Take(w) \/ Worked(w), ~Unwind(w)
  PROVE  \E at, task, out : at # "halting" /\ Turned(w, at, task, out)
<1>1. CASE Take(w)
  <2>1. CASE Steal(w)
    <3>1. PICK u \in Worker : Robs(w, u)
      BY <2>1, StealTurns
    <3>2. \E task, out : Turned(w, "reserve", task, out)
      BY <3>1 DEF Robs
    <3> QED BY <3>2
  <2>2. CASE TakeOwn(w) \/ CountOwn(w) \/ TakeFeed(w) \/ TakeNothing(w)
    <3>1. \E at \in {"counted", "reserve", "flush", "asleep"} : \E task, out : Turned(w, at, task, out)
      BY <2>2, FeedTurns
    <3> QED BY <3>1
  <2> QED BY <1>1, <2>1, <2>2 DEF Take
<1>2. CASE Worked(w)
  <2>1. CASE Reserve(w) \/ ReserveWait(w) \/ Park(w) \/ Unpark(w) \/ AdmitReader(w) \/ Work(w)
               \/ StreamEnd(w) \/ Panic(w)
    <3>1. \E at \in {"flush", "read", "admit", "parking", "parked", "reserve", "worked",
                     "unwinding"} : \E task, out : Turned(w, at, task, out)
      BY <2>1, BudgetTurns
    <3> QED BY <3>1
  <2>2. CASE Handoff(w) \/ HandoffSend(w)
    <3>1. \E at \in {"handoff", "worked", "stream"} : \E task, out : Turned(w, at, task, out)
      BY <2>2, HandoffTurns
    <3> QED BY <3>1
  <2>3. CASE Send(w) \/ SendLast(w)
    <3>1. \E at \in {"flush", "top", "send", "leave"} : \E task, out : Turned(w, at, task, out)
      BY <2>3, SendTurns
    <3> QED BY <3>1
  <2>4. CASE Hand(w)
    <3>1. \E at \in {"flush", "top", "send"} : \E task, out : Turned(w, at, task, out)
      BY <2>4, HandTurns
    <3> QED BY <3>1
  <2>5. CASE StopWork(w)
    BY <2>5, FeedTurns
  <2>6. CASE Flush(w) \/ Leave(w) \/ HaltWake(w)
    <3>1. \E at \in {"leave", "sendlast", "gone"} : \E task, out : Turned(w, at, task, out)
      BY <2>6, LeaveTurns
    <3> QED BY <3>1
  <2> QED BY <1>2, <2>1, <2>2, <2>3, <2>4, <2>5, <2>6 DEF Worked
<1> QED BY <1>1, <1>2

\* The receiver is gone, and a panicked worker halts, only once stop is set.
LEMMA StoppingStep ==
  ASSUME TypeInv, LaneInv, RunInv, Stopping, [Next]_vars
  PROVE  Stopping'
<1>1. stop => stop'
  BY StopStays
<1>2. CASE CallerStep
  <2>1. Nudged(worker, worker')
    BY <1>2, OthersNotify
  <2>2. (\E v \in Worker : worker'[v].at = "halting") => \E v \in Worker : worker[v].at = "halting"
    BY <2>1 DEF Nudged, Slides
  <2>3. ReceiverGone' => ReceiverGone \/ stop'
    <3>1. caller \in CallerRecord
      BY DEF TypeInv
    <3>2. CASE Publish \/ StreamDone
      <4>1. \/ caller' = [caller EXCEPT !.batch = <<>>, !.at = "ending"]
            \/ caller' = [caller EXCEPT !.at = "stream"]
            \/ \E breaks : caller' = Emitted(breaks)
        BY <3>2 DEF Publish, StreamDone
      <4> QED BY <3>1, <4>1 DEF Emitted, CallerRecord, ReceiverGone
    <3>3. CASE Collect
      <4>1. \/ caller' = Receives \/ caller' = [caller EXCEPT !.clean = 0]
            \/ \E at \in {"ending", "sweep"} : caller' = [caller EXCEPT !.at = at]
        BY <3>3 DEF Collect, Collecting
      <4> QED BY <3>1, <4>1 DEF Receives, CallerRecord, ReceiverGone
    <3>4. CASE Sweep
      BY <3>1, <3>4 DEF Sweep, CallerRecord, ReceiverGone
    <3>5. CASE CloseUnfed \/ Alone
      BY <3>1, <3>5 DEF CloseUnfed, Alone, CallerRecord, ReceiverGone
    <3>6. CASE End
      BY <3>6 DEF End
    <3>7. CASE Halt \/ Join
      BY <3>7 DEF Halt, Join, ReceiverGone
    <3> QED BY <1>2, <3>2, <3>3, <3>4, <3>5, <3>6, <3>7 DEF CallerStep
  <2> QED BY <1>1, <2>2, <2>3 DEF Stopping
<1>3. CASE Produce \/ Cancel \/ UNCHANGED vars
  <2>1. Nudged(worker, worker') /\ UNCHANGED caller
    BY <1>3, OthersNotify, OthersLeave
  <2>2. (\E v \in Worker : worker'[v].at = "halting") => \E v \in Worker : worker[v].at = "halting"
    BY <2>1 DEF Nudged, Slides
  <2> QED BY <1>1, <2>1, <2>2 DEF Stopping, ReceiverGone
<1>4. ASSUME NEW w \in Worker, Take(w) \/ Worked(w) PROVE Stopping'
  <2>1. UNCHANGED caller
    BY <1>4, OthersLeave
  <2>2. CASE Unwind(w)
    BY <2>2 DEF Unwind, Stopping
  <2>3. CASE ~Unwind(w)
    <3>1. PICK at, task, out : at # "halting" /\ Turned(w, at, task, out)
      BY <1>4, <2>3, Halting
    <3>2. (\E v \in Worker : worker'[v].at = "halting") => \E v \in Worker : worker[v].at = "halting"
      BY <3>1 DEF Turned, Slides
    <3> QED BY <1>1, <2>1, <3>2 DEF Stopping, ReceiverGone
  <2> QED BY <2>2, <2>3
<1> QED BY <1>2, <1>3, <1>4, Steps

\* The invariant holds when a run starts.
LEMMA InitGroups ==
  ASSUME Init
  PROVE  GroupInv
<1>0. /\ mode \in Modes /\ mode.streamed \in SUBSET Task /\ TypeInv
      /\ \A t \in Task : t \in Int /\ t > 0
  <2>1. TypeInv
    BY InitInv DEF TaskInv
  <2>2. mode \in Modes /\ mode.streamed \in SUBSET Task
    BY <2>1, FeedAssumption DEF TypeInv, ModeType
  <2>3. \A t \in Task : t \in Int /\ t > 0
    BY FeedAssumption DEF Task
  <2> QED BY <2>1, <2>2, <2>3
<1>1. /\ prod.next = 1 /\ prod.batch = <<>> /\ feed.tasks = <<>> /\ ~feed.closed /\ queue = <<>>
      /\ caller.batch = <<>> /\ emitted = <<>> /\ prod.at = (IF mode.fed THEN "gather" ELSE "gone")
      /\ caller.at = (IF mode.fed THEN "collect" ELSE "unfed") /\ ~prod.closed
      /\ \A w \in Worker : /\ run[w] = <<>> /\ held[w].groups = <<>> /\ worker[w].out = <<>>
                           /\ worker[w].at = (IF w \in mode.started THEN "top" ELSE "gone")
  BY DEF Init, NoneHeld
<1>2. EveryGroupOnce /\ Stopping
  <2>1. IsInjective(emitted) /\ DOMAIN emitted = {}
    BY <1>1, FlatSmall
  <2>2. caller.at \in {"collect", "unfed"} /\ \A w \in Worker : worker[w].at \in {"top", "gone"}
    BY <1>1
  <2> QED BY <2>1, <2>2 DEF EveryGroupOnce, Stopping, ReceiverGone
<1>3. \A a \in Spot : Lots[a] = {}
  <2>1. /\ SharedLaid(Lots, prod, feed, queue, caller, emitted)
        /\ \A v \in Worker : OwnLaid(Lots, v, run, worker, held)
    BY LotsAre DEF Lots
  <2>2. Pending(caller) = {}
    BY <1>1, FlatSmall DEF Pending
  <2>3. \A k \in Shared : Lots[OfAll(k)] = {}
    BY <1>1, <2>1, <2>2, FlatSmall DEF SharedLaid, Shared
  <2>4. ASSUME NEW k \in Own, NEW v \in Worker PROVE Lots[<<k, v>>] = {}
    <3>1. worker[v].at \in {"top", "gone"} /\ OwnLaid(Lots, v, run, worker, held)
      BY <1>1, <2>1
    <3>2. /\ TaskAt(worker[v], Before) = {} /\ TaskAt(worker[v], During) = {}
          /\ TaskAt(worker[v], {"worked"}) = {}
      BY <3>1 DEF TaskAt, Before, During, WaitsBytes
    <3>3. k \in {"run", "todo", "busy", "worked", "held", "out"}
      BY DEF Own
    <3> QED BY <1>1, <3>1, <3>2, <3>3, FlatSmall DEF OwnLaid
  <2> QED BY <2>3, <2>4, SpotsCover
<1>4. Sorted(Lots, prod.next, mode.streamed)
  <2>1. \A g : ~Somewhere(Lots, g)
    BY <1>3 DEF Somewhere
  <2>2. Apart(Lots)
    BY <1>3 DEF Apart
  <2>3. \A t \in Task : ~(t < prod.next)
    BY <1>0, <1>1
  <2> QED BY <1>0, <1>3, <2>1, <2>2, <2>3 DEF Sorted
<1>5. Tidy
  BY <1>1, FlatSmall DEF Tidy
<1>6. Leaving
  BY <1>1 DEF Leaving, Exits, Sends
<1>7. Feeding /\ Calling
  BY <1>1 DEF Feeding, Calling
<1> QED BY <1>2, <1>4, <1>5, <1>6, <1>7 DEF GroupInv, Live

\* Every step keeps it.
LEMMA StepGroups ==
  ASSUME TaskInv, TypeInv', GroupInv, [Next]_vars
  PROVE  GroupInv'
<1>0. TypeInv /\ LaneInv /\ RunInv /\ FeedInv /\ Stopping /\ Once(emitted, mode.streamed)
  BY DEF TaskInv, GroupInv, EveryGroupOnce, Once
<1>1. Stopping'
  BY <1>0, StoppingStep
<1>2. Stopped => Stopped'
  BY StopStays DEF Stopped
<1>3. UNCHANGED mode
  <2>1. CASE CallerStep
    BY <2>1 DEF CallerStep, Collect, Collecting, Sweep, Publish, StreamDone, End, Halt, Join,
                CloseUnfed, Alone, flagVars
  <2> QED BY <2>1, Steps, OthersLeave
<1>4. ASSUME Once(emitted', mode.streamed), ~Stopped' => Live',
             ~Stopped' /\ caller'.at = "ending" => 1..mode.count \subseteq ToSet(emitted')
      PROVE  GroupInv'
  <2>1. EveryGroupOnce'
    BY <1>3, <1>4 DEF Once, EveryGroupOnce
  <2> QED BY <1>1, <1>4, <2>1 DEF GroupInv
<1>5. CASE Stopped
  <2>1. UNCHANGED emitted
    <3>1. CASE CallerStep
      BY <1>5, <3>1 DEF CallerStep, Collect, Collecting, Sweep, Publish, StreamDone, End, Halt,
                        Join, CloseUnfed, Alone
    <3> QED BY <3>1, Steps, OthersLeave
  <2> QED BY <1>0, <1>2, <1>4, <1>5, <2>1
<1>6. CASE ~Stopped
  <2>0. Live
    BY <1>6 DEF GroupInv
  <2>1. CASE CallerStep
    <3>1. Once(emitted', mode.streamed) /\ (Stopped' \/ Live')
      BY <1>0, <1>6, <2>0, <2>1, CallerLive
    <3>2. ~Stopped' /\ caller'.at = "ending" => 1..mode.count \subseteq ToSet(emitted')
      BY <1>0, <1>6, <2>0, <2>1, EndsWithAll
    <3> QED BY <1>4, <3>1, <3>2
  <2>2. ASSUME UNCHANGED <<mode, caller, emitted>>, Stopped' \/ Live'
        PROVE  GroupInv'
    <3>1. caller'.at = "ending" => 1..mode.count \subseteq ToSet(emitted')
      BY <1>6, <2>2 DEF GroupInv, EveryGroupOnce
    <3> QED BY <1>0, <1>4, <2>2, <3>1
  <2>3. CASE Produce
    <3>1. Live'
      BY <1>0, <1>6, <2>0, <2>3, ProduceLive
    <3> QED BY <2>2, <2>3, <3>1, OthersLeave
  <2>4. ASSUME NEW w \in Worker, Take(w) \/ Worked(w) PROVE GroupInv'
    <3>1. Stopped' \/ Live'
      BY <1>0, <1>6, <2>0, <2>4, WorkerLive
    <3> QED BY <2>2, <2>4, <3>1, OthersLeave
  <2>5. CASE Cancel
    <3>1. Stopped'
      BY <2>5 DEF Cancel, Stopped
    <3> QED BY <2>2, <2>5, <3>1, OthersLeave
  <2>6. CASE UNCHANGED vars
    <3>1. /\ Lots' = Lots /\ Tidy' /\ Leaving' /\ Feeding' /\ Calling'
          /\ prod' = prod /\ mode' = mode
      BY <2>0, <2>6 DEF vars, Lots, Live, Tidy, Leaving, Feeding, Calling
    <3>2. Live'
      BY <2>0, <3>1 DEF Live
    <3> QED BY <2>2, <2>6, <3>2, OthersLeave
  <2> QED BY <2>1, <2>3, <2>4, <2>5, <2>6, Steps
<1> QED BY <1>5, <1>6

\* No group is published twice, a stream before its task's group, and a run
\* that ends of itself has published every group: for any number of workers, any
\* source, any schedule of takes, steals, sweeps and flushes, and any cancellation
\* or panic (completion.rs, Feed, Lane and the caller's collection).
THEOREM GroupsOnce == Spec => []EveryGroupOnce
<1>1. Init => GroupInv
  BY InitGroups
<1>2. TaskInv /\ TaskInv' /\ GroupInv /\ [Next]_vars => GroupInv'
  BY StepGroups DEF TaskInv
<1>3. GroupInv => EveryGroupOnce
  BY DEF GroupInv
<1> QED BY <1>1, <1>2, <1>3, TaskInvariant, PTL DEF Spec

================================================================================
