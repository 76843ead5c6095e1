------------------------------ MODULE WalkProofs -------------------------------
(***************************************************************************)
(* The workers of a walk, for any number of them and any tree: the counts  *)
(* they share without a common lock agree with the jobs there are, and     *)
(* nobody leaves or sleeps while there is one for him.                     *)
(***************************************************************************)
EXTENDS WalkSchedule, Counting, FiniteSetTheorems, FunctionTheorems, SequenceTheorems,
        NaturalsInduction, WellFoundedInduction, TLAPS

OpenIn(s) == {i \in 1 .. Len(s) : s[i].fd}

OpenSlots == [w \in Worker |-> OpenIn(local[w])]

LocalSlots == [w \in Worker |-> 1 .. Len(local[w])]

\* Workers with a job in hand, or one just done and not yet counted off.
Busy == {w \in Worker : current[w] # NoJob \/ at[w] = "finish"}

\* Workers that `idle` counts, and those on the way to the shared stack.
Idle == {w \in Worker : at[w] \in {"check", "sleep", "wait", "woken"}}

Coming == {w \in Worker : at[w] \in {"woken", "check", "take"}}

\* The three atomics count what their names say.
CountInv ==
  /\ outstanding = Len(jobs) + Cardinality(Pool(Worker, LocalSlots)) + Cardinality(Busy)
  /\ open = Cardinality(OpenIn(jobs)) + Cardinality(Pool(Worker, OpenSlots))
  /\ idle = Cardinality(Idle)

\* What a worker has at each place, and that no stacked job is finished.
Unfinished(s) == \A i \in 1 .. Len(s) : s[i] # NoJob

Holds(w) ==
  /\ at[w] = "run" => current[w] # NoJob
  /\ at[w] \in {"take", "check", "sleep", "wait", "woken", "next", "finish", "tell"}
        => current[w] = NoJob
  /\ at[w] \in {"take", "check", "sleep", "wait", "woken"} => local[w] = <<>>
  /\ at[w] = "push" => local[w] # <<>>
  /\ at[w] = "cancel" => cancelled
  /\ Unfinished(local[w])

PlaceInv == Unfinished(jobs) /\ \A w \in Worker : Holds(w)

\* Between looking at the stack and sleeping a worker holds the lock, so that
\* what it saw still holds.
LockInv ==
  \A w \in Worker :
    /\ lock = w => at[w] \in {"check", "sleep", "take"}
    /\ at[w] \in {"check", "sleep"} => lock = w
    /\ at[w] = "sleep" => jobs = <<>>

\* Leaving, and sleeping.
LeaveInv ==
  /\ (~cancelled /\ \E w \in Worker : at[w] = "exit") => outstanding = 0
  /\ WakePerJob

WalkInv == TypeOK /\ CountInv /\ PlaceInv /\ LockInv /\ LeaveInv

--------------------------------------------------------------------------------
(* Descriptors in a stack.                                                 *)

\* How many of a stack's jobs hold a descriptor, and how that changes.
OpenCount(s) == Cardinality(OpenIn(s))

One(job) == IF job.fd THEN 1 ELSE 0

\* The open jobs of a stack are finitely many.
LEMMA OpenFinite ==
  ASSUME NEW s \in Seq(Job)
  PROVE  IsFiniteSet(OpenIn(s)) /\ OpenCount(s) \in Nat
<1>1. IsFiniteSet(1 .. Len(s))
  BY FS_Interval
<1>2. IsFiniteSet(OpenIn(s))
  BY <1>1, FS_Subset DEF OpenIn
<1> QED BY <1>2, FS_CardinalityType DEF OpenCount

\* A push adds the descriptor of the job pushed.
LEMMA OpenAppend ==
  ASSUME NEW s \in Seq(Job), NEW j \in Job
  PROVE  OpenCount(Append(s, j)) = OpenCount(s) + One(j)
<1> DEFINE t == Append(s, j)
           k == Len(s) + 1
<1>1. /\ Len(t) = k /\ t[k] = j /\ \A i \in 1 .. Len(s) : t[i] = s[i]
  BY AppendProperties
<1>2. Len(s) \in Nat /\ j.fd \in BOOLEAN
  BY DEF Job
<1> HIDE DEF t
<1>3. OpenIn(s) \ {k} = OpenIn(t) \ {k}
  BY <1>1, <1>2 DEF OpenIn
<1>4. k \notin OpenIn(s) /\ (k \in OpenIn(t) <=> j.fd)
  BY <1>1, <1>2 DEF OpenIn
<1>5. IsFiniteSet(OpenIn(s))
  BY OpenFinite
<1> HIDE DEF k
<1>6. /\ k \notin OpenIn(s) /\ k \in OpenIn(t)
            => Cardinality(OpenIn(t)) = Cardinality(OpenIn(s)) + 1
      /\ (k \in OpenIn(s) <=> k \in OpenIn(t))
            => Cardinality(OpenIn(t)) = Cardinality(OpenIn(s))
  BY <1>3, <1>5, MemberChange
<1>7. Cardinality(OpenIn(s)) \in Nat
  BY <1>5, FS_CardinalityType
<1>8. OpenCount(t) = OpenCount(s) + One(j)
  BY <1>2, <1>4, <1>6, <1>7 DEF OpenCount, One
<1> QED BY <1>8 DEF t

\* A pop takes the descriptor of the newest job away.
LEMMA OpenFront ==
  ASSUME NEW s \in Seq(Job), s # <<>>
  PROVE  /\ SubSeq(s, 1, Len(s) - 1) \in Seq(Job)
         /\ Len(SubSeq(s, 1, Len(s) - 1)) = Len(s) - 1
         /\ Len(s) \in Nat \ {0} /\ s[Len(s)] \in Job
         /\ \A i \in 1 .. Len(s) - 1 : SubSeq(s, 1, Len(s) - 1)[i] = s[i]
         /\ OpenCount(s) = OpenCount(SubSeq(s, 1, Len(s) - 1)) + One(s[Len(s)])
<1> DEFINE n == Len(s)
           t == SubSeq(s, 1, n - 1)
<1>1. n \in Nat /\ n # 0 /\ s[n] \in Job
  OBVIOUS
<1>2. \A i \in 1 .. n - 1 : s[i] \in Job
  OBVIOUS
<1>3. t \in Seq(Job) /\ Len(t) = n - 1 /\ \A i \in 1 .. n - 1 : t[i] = s[i]
  <2> DEFINE m == n - 1
  <2>1. m \in Nat /\ \A i \in 1 .. m : s[i] \in Job
    BY <1>1, <1>2
  <2> HIDE DEF m
  <2>2. /\ SubSeq(s, 1, m) \in Seq(Job)
        /\ Len(SubSeq(s, 1, m)) = m
        /\ \A i \in 1 .. m : SubSeq(s, 1, m)[i] = s[i]
    BY <2>1, SubSeqProperties, SMT
  <2> QED BY <2>2 DEF m
<1> HIDE DEF t
<1>4. /\ Append(t, s[n]) \in Seq(Job) /\ Len(Append(t, s[n])) = Len(t) + 1
      /\ \A i \in 1 .. Len(t) : Append(t, s[n])[i] = t[i]
      /\ Append(t, s[n])[Len(t) + 1] = s[n]
  BY <1>1, <1>3, AppendProperties
<1>5. Append(t, s[n]) = s
  <2>1. Len(Append(t, s[n])) = n
    BY <1>1, <1>3, <1>4
  <2>2. \A i \in 1 .. n : Append(t, s[n])[i] = s[i]
    <3> TAKE i \in 1 .. n
    <3>1. CASE i = n
      BY <1>1, <1>3, <1>4, <3>1
    <3>2. CASE i # n
      <4>1. i \in 1 .. n - 1
        BY <1>1, <3>2
      <4> QED BY <1>3, <1>4, <4>1
    <3> QED BY <3>1, <3>2
  <2> QED BY <1>4, <2>1, <2>2, SeqEqual
<1>6. OpenCount(s) = OpenCount(t) + One(s[n])
  BY <1>1, <1>3, <1>5, OpenAppend
<1> QED BY <1>1, <1>3, <1>6 DEF t

\* Sharing takes the descriptor of the oldest job away.
LEMMA OpenTail ==
  ASSUME NEW s \in Seq(Job), s # <<>>
  PROVE  /\ Tail(s) \in Seq(Job) /\ Head(s) \in Job
         /\ Len(Tail(s)) = Len(s) - 1 /\ Len(s) \in Nat \ {0}
         /\ \A i \in 1 .. Len(Tail(s)) : Tail(s)[i] = s[i + 1]
         /\ Head(s) = s[1]
         /\ OpenCount(s) = OpenCount(Tail(s)) + One(Head(s))
<1> DEFINE t == Tail(s)
           T == OpenIn(t)
           S == OpenIn(s) \ {1}
           f == [i \in T |-> i + 1]
<1>1. /\ t \in Seq(Job) /\ Head(s) \in Job /\ Head(s) = s[1]
      /\ Len(t) = Len(s) - 1 /\ Len(s) \in Nat /\ Len(s) # 0
      /\ \A i \in 1 .. Len(t) : t[i] = s[i + 1]
  OBVIOUS
<1> HIDE DEF t
<1>2. \A i \in T : i \in Nat /\ i + 1 \in S
  BY <1>1 DEF OpenIn
<1>3. \A k \in S : k - 1 \in T /\ k - 1 \in Nat /\ (k - 1) + 1 = k
  <2> TAKE k \in S
  <2>1. k \in 2 .. Len(s) /\ s[k].fd
    BY <1>1 DEF OpenIn
  <2>2. k - 1 \in 1 .. Len(t) /\ (k - 1) + 1 = k
    BY <1>1, <2>1
  <2>3. t[k - 1] = s[k]
    BY <1>1, <2>2
  <2> QED BY <2>1, <2>2, <2>3 DEF OpenIn
<1> HIDE DEF T, S
<1>4. f \in [T -> S]
  BY <1>2
<1>5. \A a, b \in T : f[a] = f[b] => a = b
  BY <1>2
<1>6. \A k \in S : \E i \in T : f[i] = k
  BY <1>3
<1>7. f \in Bijection(T, S)
  <2> HIDE DEF f
  <2> QED BY <1>4, <1>5, <1>6, Fun_IsBij
<1>8. ExistsBijection(T, S)
  BY <1>7 DEF ExistsBijection
<1>9. IsFiniteSet(T) /\ IsFiniteSet(OpenIn(s))
  BY <1>1, OpenFinite DEF T
<1>10. Cardinality(S) = Cardinality(T)
  BY <1>8, <1>9, FS_Bijection
<1>11. Cardinality(S) = IF 1 \in OpenIn(s) THEN Cardinality(OpenIn(s)) - 1
                                          ELSE Cardinality(OpenIn(s))
  BY <1>9, FS_RemoveElement DEF S
<1>12. 1 \in OpenIn(s) <=> s[1].fd
  BY <1>1 DEF OpenIn
<1>13. Cardinality(OpenIn(s)) \in Nat /\ Cardinality(T) \in Nat /\ s[1].fd \in BOOLEAN
  BY <1>1, <1>9, FS_CardinalityType DEF Job
<1>14. OpenCount(s) = OpenCount(t) + One(Head(s))
  BY <1>1, <1>10, <1>11, <1>12, <1>13 DEF OpenCount, One, T
<1> QED BY <1>1, <1>14 DEF t

--------------------------------------------------------------------------------
(* What a step of one worker does to the others, and to itself.            *)

Place == {"take", "check", "sleep", "wait", "woken", "run", "share", "push",
          "finish", "tell", "next", "cancel", "exit"}

AnyStep(w) == Step(w) \/ ReopenFail(w) \/ Panic(w)

\* Others keep their places, unless they are woken.
LEMMA OthersStill ==
  ASSUME TypeOK, NEW w \in Worker, AnyStep(w)
  PROVE  /\ at' \in [Worker -> Place]
         /\ \A v \in Worker \ {w} : /\ at'[v] = at[v] \/ (at[v] = "wait" /\ at'[v] = "woken")
                                    /\ current'[v] = current[v] /\ local'[v] = local[v]
<1>0. /\ at \in [Worker -> Place] /\ local \in [Worker -> Seq(Job)]
      /\ current \in [Worker -> Job]
  BY DEF TypeOK, Place
<1> DEFINE Goal == /\ at' \in [Worker -> Place]
                   /\ \A v \in Worker \ {w} :
                        /\ at'[v] = at[v] \/ (at[v] = "wait" /\ at'[v] = "woken")
                        /\ current'[v] = current[v] /\ local'[v] = local[v]
<1>1. ASSUME NEW p \in Place, Goto(w, p),
             current' = current \/ (\E j : current' = [current EXCEPT ![w] = j]),
             local' = local \/ (\E q : local' = [local EXCEPT ![w] = q])
      PROVE  Goal
  BY <1>0, <1>1 DEF Goto
<1>2. ASSUME NEW p \in Place, at' = [NotifiedAll EXCEPT ![w] = p],
             current' = current, local' = local
      PROVE  Goal
  BY <1>0, <1>2 DEF NotifiedAll, Waiting, Place
<1>3. CASE TakeJob(w)
  BY <1>1, <1>3 DEF TakeJob, Place
<1>4. CASE TakeNothing(w) \/ TakeIdle(w) \/ Sleeps(w) \/ Wakes(w) \/ RunCancelled(w)
             \/ NextShared(w)
  BY <1>1, <1>4 DEF TakeNothing, TakeIdle, Sleeps, Wakes, RunCancelled, NextShared, Place
<1>5. CASE Check(w)
  <2>1. \E p \in {"sleep", "take"} : Goto(w, p)
    BY <1>5 DEF Check
  <2> QED BY <1>1, <1>5, <2>1 DEF Check, Place
<1>6. CASE Descend(w)
  <2>1. \E j : current' = [current EXCEPT ![w] = j]
    BY <1>6 DEF Descend
  <2>2. CASE UNCHANGED <<local, at>>
    BY <1>0, <2>1, <2>2
  <2>3. CASE Goto(w, "share") /\ \E q : local' = [local EXCEPT ![w] = q]
    BY <1>1, <2>1, <2>3 DEF Place
  <2> QED BY <1>6, <2>2, <2>3 DEF Descend, Kept
<1>7. CASE Exhaust(w) \/ ReopenFail(w)
  BY <1>1, <1>7 DEF Exhaust, ReopenFail, Place
<1>8. CASE Finish(w)
  <2>1. \E p \in {"tell", "share"} : Goto(w, p)
    BY <1>8 DEF Finish
  <2> QED BY <1>1, <1>8, <2>1 DEF Finish, Place
<1>9. CASE Tell(w)
  BY <1>2, <1>9 DEF Tell, Place
<1>10. CASE CancelTell(w)
  BY <1>2, <1>10 DEF CancelTell, Place
<1>11. CASE ShareLook(w)
  <2>1. \E p \in {"push", "run", "next"} : Goto(w, p)
    BY <1>11 DEF ShareLook
  <2> QED BY <1>1, <1>11, <2>1 DEF ShareLook, Place
<1>12. CASE SharePush(w)
  <2>1. current' = current /\ local' = [local EXCEPT ![w] = Tail(local[w])] /\ at[w] = "push"
    BY <1>12 DEF SharePush
  <2>2. PICK p \in {"run", "next"} :
          \/ Goto(w, p)
          \/ \E v \in Waiting : at' = [at EXCEPT ![w] = p, ![v] = "woken"]
    BY <1>12 DEF SharePush
  <2>3. CASE Goto(w, p)
    BY <1>1, <2>1, <2>3 DEF Place
  <2>4. CASE \E v \in Waiting : at' = [at EXCEPT ![w] = p, ![v] = "woken"]
    BY <1>0, <2>1, <2>4 DEF Waiting, Place
  <2> QED BY <2>2, <2>3, <2>4
<1>13. CASE NextLocal(w)
  BY <1>1, <1>13 DEF NextLocal, Place
<1>14. CASE Panic(w)
  BY <1>1, <1>14 DEF Panic, Place
<1> QED BY <1>3, <1>4, <1>5, <1>6, <1>7, <1>8, <1>9, <1>10, <1>11, <1>12, <1>13, <1>14
        DEF AnyStep, Step

\* Where each step finds its worker and where it leaves it.
LEMMA OwnPlace ==
  ASSUME TypeOK, NEW w \in Worker
  PROVE  /\ TakeJob(w) => at[w] = "take" /\ at'[w] = "run"
         /\ TakeNothing(w) => at[w] = "take" /\ at'[w] = "exit"
         /\ TakeIdle(w) => at[w] = "take" /\ at'[w] = "check"
         /\ Check(w) => at[w] = "check" /\ at'[w] \in {"sleep", "take"}
         /\ Sleeps(w) => at[w] = "sleep" /\ at'[w] = "wait"
         /\ Wakes(w) => at[w] = "woken" /\ at'[w] = "check"
         /\ Descend(w) => at[w] = "run" /\ at'[w] \in {"run", "share"}
         /\ Exhaust(w) \/ ReopenFail(w) => at[w] = "run" /\ at'[w] = "finish"
         /\ RunCancelled(w) => at[w] = "run" /\ at'[w] = "exit"
         /\ Finish(w) => at[w] = "finish" /\ at'[w] \in {"tell", "share"}
         /\ Tell(w) => at[w] = "tell" /\ at'[w] = "share"
         /\ ShareLook(w) => /\ at[w] = "share"
                            /\ at'[w] = IF local[w] # <<>> /\ idle # 0 THEN "push"
                                        ELSE IF Working(w) THEN "run" ELSE "next"
         /\ SharePush(w) => /\ at[w] = "push"
                            /\ at'[w] = IF Working(w) THEN "run" ELSE "next"
         /\ NextLocal(w) => at[w] = "next" /\ at'[w] = "run"
         /\ NextShared(w) => at[w] = "next" /\ at'[w] = "take"
         /\ Panic(w) => at[w] = "run" /\ at'[w] = "cancel"
         /\ CancelTell(w) => at[w] = "cancel" /\ at'[w] = "exit"
<1>1. at \in [Worker -> Place]
  BY DEF TypeOK, Place
<1>2. \A p : Goto(w, p) => at'[w] = p
  BY <1>1 DEF Goto
<1>3. \A p : at' = [NotifiedAll EXCEPT ![w] = p] => at'[w] = p
  BY DEF NotifiedAll
<1>4. SharePush(w) => /\ at[w] = "push"
                      /\ at'[w] = IF Working(w) THEN "run" ELSE "next"
  <2> SUFFICES ASSUME SharePush(w)
               PROVE  /\ at[w] = "push"
                      /\ at'[w] = IF Working(w) THEN "run" ELSE "next"
    OBVIOUS
  <2> DEFINE then == IF Working(w) THEN "run" ELSE "next"
  <2>1. at[w] = "push" /\ (\/ Goto(w, then)
                           \/ \E v \in Waiting : at' = [at EXCEPT ![w] = then, ![v] = "woken"])
    BY DEF SharePush
  <2> HIDE DEF then
  <2>2. at'[w] = then
    BY <1>1, <1>2, <2>1 DEF Waiting
  <2> QED BY <2>1, <2>2 DEF then
<1>5. /\ TakeJob(w) => at[w] = "take" /\ at'[w] = "run"
      /\ TakeNothing(w) => at[w] = "take" /\ at'[w] = "exit"
      /\ TakeIdle(w) => at[w] = "take" /\ at'[w] = "check"
      /\ Check(w) => at[w] = "check" /\ at'[w] \in {"sleep", "take"}
      /\ Sleeps(w) => at[w] = "sleep" /\ at'[w] = "wait"
      /\ Wakes(w) => at[w] = "woken" /\ at'[w] = "check"
  BY <1>2 DEF TakeJob, TakeNothing, TakeIdle, Check, Sleeps, Wakes
<1>6. /\ Descend(w) => at[w] = "run" /\ at'[w] \in {"run", "share"}
      /\ Exhaust(w) \/ ReopenFail(w) => at[w] = "run" /\ at'[w] = "finish"
      /\ RunCancelled(w) => at[w] = "run" /\ at'[w] = "exit"
      /\ Finish(w) => at[w] = "finish" /\ at'[w] \in {"tell", "share"}
      /\ Panic(w) => at[w] = "run" /\ at'[w] = "cancel"
  <2>1. Descend(w) => at[w] = "run" /\ at'[w] \in {"run", "share"}
    BY <1>2 DEF Descend
  <2>2. Finish(w) => at[w] = "finish" /\ at'[w] \in {"tell", "share"}
    BY <1>2 DEF Finish
  <2> QED BY <1>2, <2>1, <2>2 DEF Exhaust, ReopenFail, RunCancelled, Panic
<1>7. /\ Tell(w) => at[w] = "tell" /\ at'[w] = "share"
      /\ CancelTell(w) => at[w] = "cancel" /\ at'[w] = "exit"
  BY <1>3 DEF Tell, CancelTell
<1>8. /\ ShareLook(w) => /\ at[w] = "share"
                         /\ at'[w] = IF local[w] # <<>> /\ idle # 0 THEN "push"
                                     ELSE IF Working(w) THEN "run" ELSE "next"
      /\ NextLocal(w) => at[w] = "next" /\ at'[w] = "run"
      /\ NextShared(w) => at[w] = "next" /\ at'[w] = "take"
  BY <1>2 DEF ShareLook, NextLocal, NextShared
<1> QED BY <1>4, <1>5, <1>6, <1>7, <1>8

\* idle is changed only where a worker enters or leaves the places it counts.
LEMMA IdleStep ==
  ASSUME WalkInv, NEW w \in Worker, AnyStep(w)
  PROVE  idle' = Cardinality(Idle') /\ idle' \in 0 .. Cardinality(Worker)
<1>1. TypeOK /\ idle = Cardinality(Idle) /\ IsFiniteSet(Worker)
  BY WalkAssumption DEF WalkInv, CountInv
<1>2. /\ at' \in [Worker -> Place]
      /\ \A v \in Worker \ {w} : at'[v] = at[v] \/ (at[v] = "wait" /\ at'[v] = "woken")
  BY <1>1, OthersStill
<1>3. Idle \ {w} = Idle' \ {w}
  BY <1>2 DEF Idle
<1>4. IsFiniteSet(Idle) /\ IsFiniteSet(Idle') /\ Cardinality(Idle') <= Cardinality(Worker)
  BY <1>1, FS_Subset DEF Idle
<1>5. /\ Cardinality(Idle) \in Nat /\ Cardinality(Idle') \in Nat
      /\ w \in Idle /\ w \notin Idle' => Cardinality(Idle') = Cardinality(Idle) - 1
      /\ w \notin Idle /\ w \in Idle' => Cardinality(Idle') = Cardinality(Idle) + 1
      /\ (w \in Idle <=> w \in Idle') => Cardinality(Idle') = Cardinality(Idle)
  BY <1>3, <1>4, MemberChange
<1>6. /\ w \in Idle <=> at[w] \in {"check", "sleep", "wait", "woken"}
      /\ w \in Idle' <=> at'[w] \in {"check", "sleep", "wait", "woken"}
  BY DEF Idle
<1>7. idle' = Cardinality(Idle')
  <2>1. CASE TakeIdle(w)
    <3>1. at[w] = "take" /\ at'[w] = "check" /\ idle' = idle + 1
      BY <1>1, <2>1, OwnPlace DEF TakeIdle
    <3> QED BY <1>1, <1>5, <1>6, <3>1
  <2>2. CASE Check(w)
    <3>1. /\ at[w] = "check"
          /\ \/ at'[w] = "sleep" /\ idle' = idle
             \/ at'[w] = "take" /\ idle' = idle - 1
      <4>1. \A p : Goto(w, p) => at'[w] = p
        BY <1>1 DEF Goto, TypeOK
      <4> QED BY <2>2, <4>1 DEF Check
    <3> QED BY <1>1, <1>5, <1>6, <3>1
  <2>3. CASE ~TakeIdle(w) /\ ~Check(w)
    <3>1. idle' = idle
      BY <2>3 DEF AnyStep, Step, TakeJob, TakeNothing, Sleeps, Wakes, Descend, Exhaust,
                  ReopenFail, RunCancelled, Finish, Tell, ShareLook, SharePush, NextLocal,
                  NextShared, Panic, CancelTell
    <3>2. w \in Idle <=> w \in Idle'
      BY <1>1, <1>6, <2>3, OwnPlace DEF AnyStep, Step
    <3> QED BY <1>1, <1>5, <3>1, <3>2
  <2> QED BY <2>1, <2>2, <2>3
<1>8. Cardinality(Worker) \in Nat
  BY <1>1, FS_CardinalityType
<1> QED BY <1>4, <1>5, <1>7, <1>8

--------------------------------------------------------------------------------
(* Jobs and their types.                                                   *)

\* process considers entries up to the first directory, or all of them.
LEMMA ReachType ==
  ASSUME NEW rest \in Seq(Entry)
  PROVE  /\ Reach(rest) \in 0 .. Len(rest)
         /\ \A i \in 1 .. Len(rest) : i < Reach(rest) => ~Directory(rest[i])
<1> DEFINE dirs == {i \in 1 .. Len(rest) : Directory(rest[i])}
           R == OpToRel(<, Nat)
<1>1. CASE dirs = {}
  <2>1. Reach(rest) = Len(rest)
    BY <1>1 DEF Reach
  <2> QED BY <1>1, <2>1
<1>2. CASE dirs # {}
  <2>1. dirs \subseteq Nat
    OBVIOUS
  <2>2. IsWellFoundedOn(R, Nat)
    BY NatLessThanWellFounded
  <2>3. PICK k \in dirs : \A i \in dirs : ~ (<<i, k>> \in R)
    <3> HIDE DEF R, dirs
    <3> QED BY <1>2, <2>1, <2>2, WFMin
  <2>4. \A i \in dirs : k <= i
    <3> TAKE i \in dirs
    <3>1. ~ (i < k)
      BY <2>1, <2>3 DEF OpToRel
    <3> QED BY <2>1, <3>1
  <2> DEFINE n == CHOOSE i \in dirs : \A j \in dirs : i <= j
  <2>5. n \in dirs /\ \A j \in dirs : n <= j
    <3> HIDE DEF dirs
    <3> QED BY <2>4
  <2>6. Reach(rest) = n
    BY <1>2 DEF Reach
  <2> HIDE DEF n
  <2> QED BY <2>5, <2>6
<1> QED BY <1>1, <1>2

\* A directory's listing makes a job.
LEMMA ListingType ==
  ASSUME NEW d \in DOMAIN Listing
  PROVE  Listing[d] \in Seq(Entry) /\ JobOf(d) \in Job /\ JobOf(d) # NoJob
<1>1. Listing[d] \in Seq(Entry \ {Root})
  BY WalkAssumption
<1>2. Listing[d] \in Seq(Entry)
  BY <1>1, SeqMonotonic
<1> QED BY <1>2 DEF JobOf, Job, NoJob

\* An empty hand has its type.
LEMMA NoJobType ==
  NoJob \in Job
<1>1. <<>> \in Seq(Entry)
  OBVIOUS
<1> QED BY <1>1 DEF NoJob, Job

\* Considering entries keeps their counts natural numbers.
LEMMA ConsiderType ==
  ASSUME considered \in [Entry -> Nat], NEW rest, NEW n \in Int, Consider(rest, n)
  PROVE  considered' \in [Entry -> Nat]
<1>1. ASSUME NEW e \in Entry
      PROVE  Cardinality({i \in 1 .. n : rest[i] = e}) \in Nat
  <2>1. IsFiniteSet(1 .. n)
    BY FS_Interval
  <2>2. IsFiniteSet({i \in 1 .. n : rest[i] = e})
    BY <2>1, FS_Subset
  <2> QED BY <2>2, FS_CardinalityType
<1> DEFINE c(e) == Cardinality({i \in 1 .. n : rest[i] = e})
<1>2. considered' = [e \in Entry |-> considered[e] + c(e)]
  BY DEF Consider
<1>3. \A e \in Entry : c(e) \in Nat
  BY <1>1
<1> HIDE DEF c
<1> QED BY <1>2, <1>3

\* A parent that is left behind, and whether it keeps its descriptor.
LEMMA DescendFacts ==
  ASSUME WalkInv, NEW w \in Worker, Descend(w)
  PROVE  /\ \E d \in DOMAIN Listing : current' = [current EXCEPT ![w] = JobOf(d)]
         /\ considered' \in [Entry -> Nat]
         /\ \/ UNCHANGED <<outstanding, open, local, at>>
            \/ \E parent \in Job :
                 /\ parent # NoJob
                 /\ outstanding' = outstanding + 1
                 /\ open' = open + One(parent) /\ (parent.fd => open < MaxOpen)
                 /\ local' = [local EXCEPT ![w] = Append(@, parent)]
                 /\ Goto(w, "share")
<1> DEFINE rest == current[w].rest
           n    == Reach(rest)
           left == SubSeq(rest, n + 1, Len(rest))
<1>1. rest \in Seq(Entry)
  BY DEF WalkInv, TypeOK, Job
<1>2. n \in 0 .. Len(rest) /\ Len(rest) \in Nat
  BY <1>1, ReachType
<1>3. /\ n > 0 /\ Directory(rest[n])
      /\ Consider(rest, n)
      /\ current' = [current EXCEPT ![w] = JobOf(rest[n])]
      /\ \/ left # <<>> /\ Kept(w, [rest |-> left, fd |-> TRUE]) /\ Goto(w, "share")
         \/ left = <<>> /\ UNCHANGED <<outstanding, open, local, at>>
  BY DEF Descend
<1> HIDE DEF n, rest
<1>4. left \in Seq(Entry)
  <2>1. \A i \in n + 1 .. Len(rest) : rest[i] \in Entry
    BY <1>1, <1>2
  <2>2. n + 1 \in Int /\ Len(rest) \in Int
    BY <1>2
  <2> QED BY <2>1, <2>2, SubSeqProperties
<1>5. considered' \in [Entry -> Nat]
  <2>1. n \in Int /\ considered \in [Entry -> Nat]
    BY <1>2 DEF WalkInv, TypeOK
  <2> QED BY <1>3, <2>1, ConsiderType
<1>6. \E d \in DOMAIN Listing : current' = [current EXCEPT ![w] = JobOf(d)]
  BY <1>3 DEF Directory
<1> HIDE DEF left
<1>7. ASSUME left # <<>>, Kept(w, [rest |-> left, fd |-> TRUE]), Goto(w, "share")
      PROVE  \E parent \in Job :
                 /\ parent # NoJob
                 /\ outstanding' = outstanding + 1
                 /\ open' = open + One(parent) /\ (parent.fd => open < MaxOpen)
                 /\ local' = [local EXCEPT ![w] = Append(@, parent)]
                 /\ Goto(w, "share")
  <2> DEFINE fits == open < MaxOpen
             parent == [rest |-> left, fd |-> fits]
  <2>1. [[rest |-> left, fd |-> TRUE] EXCEPT !.fd = fits] = parent
    OBVIOUS
  <2>2. parent \in Job /\ parent # NoJob /\ parent.fd = fits
    BY <1>4, <1>7 DEF Job, NoJob
  <2>3. open \in Nat
    BY WalkAssumption DEF WalkInv, TypeOK
  <2>4. /\ outstanding' = outstanding + 1
        /\ open' = IF fits THEN open + 1 ELSE open
        /\ local' = [local EXCEPT ![w] = Append(@, parent)]
    BY <1>7, <2>1 DEF Kept
  <2>a. parent.fd <=> open < MaxOpen
    BY <2>2
  <2>5. open' = open + One(parent) /\ (parent.fd => open < MaxOpen)
    <3> HIDE DEF parent
    <3>1. CASE open < MaxOpen
      <4>1. One(parent) = 1 /\ open' = open + 1
        BY <2>a, <2>4, <3>1 DEF One
      <4> QED BY <2>a, <4>1
    <3>2. CASE ~(open < MaxOpen)
      <4>1. One(parent) = 0 /\ open' = open
        BY <2>a, <2>4, <3>2 DEF One
      <4> QED BY <2>a, <2>3, <3>2, <4>1
    <3> QED BY <3>1, <3>2
  <2> HIDE DEF parent
  <2> QED BY <1>7, <2>2, <2>4, <2>5
<1> QED BY <1>3, <1>5, <1>6, <1>7

\* What the invariant says of one worker.
LEMMA StackFacts ==
  ASSUME WalkInv, NEW w \in Worker
  PROVE  /\ jobs \in Seq(Job) /\ Unfinished(jobs) /\ Holds(w)
         /\ local \in [Worker -> Seq(Job)] /\ local[w] \in Seq(Job)
         /\ current \in [Worker -> Job] /\ current[w] \in Job
         /\ at \in [Worker -> Place]
         /\ considered \in [Entry -> Nat]
BY DEF WalkInv, TypeOK, PlaceInv, Place

\* The steps that touch no job.
Bare(w) ==
  \/ TakeNothing(w) \/ TakeIdle(w) \/ Check(w) \/ Sleeps(w) \/ Wakes(w)
  \/ RunCancelled(w) \/ Finish(w) \/ Tell(w) \/ ShareLook(w) \/ NextShared(w)
  \/ CancelTell(w)

\* The steps that only move a worker touch no job.
LEMMA BareStill ==
  ASSUME NEW w \in Worker, Bare(w)
  PROVE  UNCHANGED <<jobs, open, cancelled, local, current, considered, panics, faults>>
BY DEF Bare, TakeNothing, TakeIdle, Check, Sleeps, Wakes, RunCancelled, Finish, Tell,
       ShareLook, NextShared, CancelTell

\* Types: the jobs, the lock and the counters that bound the model.
LEMMA DataStep ==
  ASSUME WalkInv, NEW w \in Worker, AnyStep(w)
  PROVE  /\ jobs' \in Seq(Job) /\ lock' \in Worker \cup {NoWorker} /\ cancelled' \in BOOLEAN
         /\ local' \in [Worker -> Seq(Job)] /\ current' \in [Worker -> Job]
         /\ considered' \in [Entry -> Nat] /\ panics' \in Nat /\ faults' \in Nat
<1>1. /\ jobs \in Seq(Job) /\ local \in [Worker -> Seq(Job)] /\ local[w] \in Seq(Job)
      /\ current \in [Worker -> Job] /\ considered \in [Entry -> Nat]
      /\ current[w] \in Job
  BY StackFacts
<1>2. lock \in Worker \cup {NoWorker} /\ cancelled \in BOOLEAN /\ panics \in Nat /\ faults \in Nat
  BY DEF WalkInv, TypeOK
<1>3. lock' \in Worker \cup {NoWorker} /\ cancelled' \in BOOLEAN /\ panics' \in Nat /\ faults' \in Nat
  <2>1. /\ lock' = lock \/ lock' = w \/ lock' = NoWorker
        /\ cancelled' = cancelled \/ cancelled' = TRUE
        /\ panics' = panics \/ panics' = panics + 1
        /\ faults' = faults \/ faults' = faults + 1
    BY DEF AnyStep, Step, TakeJob, TakeNothing, TakeIdle, Check, Sleeps, Wakes, Descend,
           Exhaust, ReopenFail, RunCancelled, Finish, Tell, ShareLook, SharePush,
           NextLocal, NextShared, Panic, CancelTell
  <2>2. lock' \in Worker \cup {NoWorker}
    BY <1>2, <2>1
  <2>3. cancelled' \in BOOLEAN
    BY <1>2, <2>1
  <2> QED BY <1>2, <2>1, <2>2, <2>3
<1>4. CASE Bare(w)
  BY <1>1, <1>3, <1>4, BareStill
<1>5. CASE TakeJob(w)
  <2>1. jobs # <<>>
    BY <1>5 DEF TakeJob
  <2>2. SubSeq(jobs, 1, Len(jobs) - 1) \in Seq(Job) /\ jobs[Len(jobs)] \in Job
    BY <1>1, <2>1, OpenFront
  <2> QED BY <1>1, <1>3, <1>5, <2>2 DEF TakeJob
<1>6. CASE Descend(w)
  <2>1. PICK d \in DOMAIN Listing : current' = [current EXCEPT ![w] = JobOf(d)]
    BY <1>6, DescendFacts
  <2>2. current' \in [Worker -> Job]
    BY <1>1, <2>1, ListingType
  <2>3. local' = local \/ \E parent \in Job : local' = [local EXCEPT ![w] = Append(@, parent)]
    BY <1>6, DescendFacts
  <2>4. \A parent \in Job : Append(local[w], parent) \in Seq(Job)
    BY <1>1, AppendProperties
  <2>5. local' \in [Worker -> Seq(Job)]
    BY <1>1, <2>3, <2>4
  <2>6. considered' \in [Entry -> Nat]
    BY <1>6, DescendFacts
  <2> QED BY <1>1, <1>3, <1>6, <2>2, <2>5, <2>6 DEF Descend
<1>7. CASE Exhaust(w) \/ ReopenFail(w)
  <2>1. current' \in [Worker -> Job]
    BY <1>1, <1>7, NoJobType DEF Exhaust, ReopenFail
  <2>2. Len(current[w].rest) \in Int
    BY <1>1 DEF Job
  <2>3. considered' \in [Entry -> Nat]
    BY <1>1, <1>7, <2>2, ConsiderType DEF Exhaust, ReopenFail
  <2> QED BY <1>1, <1>3, <1>7, <2>1, <2>3 DEF Exhaust, ReopenFail
<1>8. CASE SharePush(w)
  <2>1. local[w] # <<>>
    BY <1>8, StackFacts DEF SharePush, Holds
  <2>2. Tail(local[w]) \in Seq(Job) /\ Head(local[w]) \in Job
    BY <1>1, <2>1, OpenTail
  <2>3. Append(jobs, Head(local[w])) \in Seq(Job)
    BY <1>1, <2>2, AppendProperties
  <2> QED BY <1>1, <1>3, <1>8, <2>2, <2>3 DEF SharePush
<1>9. CASE NextLocal(w)
  <2>1. local[w] # <<>>
    BY <1>9 DEF NextLocal
  <2>2. SubSeq(local[w], 1, Len(local[w]) - 1) \in Seq(Job) /\ local[w][Len(local[w])] \in Job
    BY <1>1, <2>1, OpenFront
  <2> QED BY <1>1, <1>3, <1>9, <2>2 DEF NextLocal
<1>10. CASE Panic(w)
  <2>1. current[w].rest \in Seq(Entry)
    BY <1>1 DEF Job
  <2>2. Reach(current[w].rest) \in Int
    BY <2>1, ReachType
  <2>3. \E n \in Int : Consider(current[w].rest, n)
    BY <1>10, <2>2 DEF Panic
  <2>4. considered' \in [Entry -> Nat]
    BY <1>1, <2>3, ConsiderType
  <2> QED BY <1>1, <1>3, <1>10, <2>4 DEF Panic
<1> QED BY <1>4, <1>5, <1>6, <1>7, <1>8, <1>9, <1>10 DEF AnyStep, Step, Bare

\* What a worker holds at its next place.
LEMMA PlaceStep ==
  ASSUME WalkInv, NEW w \in Worker, AnyStep(w)
  PROVE  PlaceInv'
<1>1. /\ jobs \in Seq(Job) /\ local \in [Worker -> Seq(Job)] /\ local[w] \in Seq(Job)
      /\ current \in [Worker -> Job] /\ current[w] \in Job
      /\ Unfinished(jobs) /\ Holds(w) /\ TypeOK
  BY StackFacts DEF WalkInv
<1>2. \A v \in Worker \ {w} : Holds(v)'
  <2> TAKE v \in Worker \ {w}
  <2>1. Holds(v)
    BY StackFacts
  <2>2. /\ at'[v] = at[v] \/ (at[v] = "wait" /\ at'[v] = "woken")
        /\ current'[v] = current[v] /\ local'[v] = local[v]
    BY <1>1, OthersStill
  <2>3. cancelled => cancelled'
    BY DEF AnyStep, Step, TakeJob, TakeNothing, TakeIdle, Check, Sleeps, Wakes, Descend,
           Exhaust, ReopenFail, RunCancelled, Finish, Tell, ShareLook, SharePush,
           NextLocal, NextShared, Panic, CancelTell
  <2> QED BY <2>1, <2>2, <2>3 DEF Holds, Unfinished
<1> SUFFICES Unfinished(jobs') /\ Holds(w)'
  BY <1>2 DEF PlaceInv, Unfinished
<1>3. CASE Bare(w)
  <2>1. UNCHANGED <<jobs, cancelled, local, current>>
    BY <1>3, BareStill
  <2>2. \/ at[w] = "share" /\ at'[w] = IF local[w] # <<>> /\ idle # 0 THEN "push"
                                      ELSE IF Working(w) THEN "run" ELSE "next"
        \/ at[w] = "take" /\ at'[w] \in {"exit", "check"}
        \/ at[w] = "check" /\ at'[w] \in {"sleep", "take"}
        \/ at[w] = "sleep" /\ at'[w] = "wait"
        \/ at[w] = "woken" /\ at'[w] = "check"
        \/ at[w] = "run" /\ at'[w] = "exit"
        \/ at[w] = "finish" /\ at'[w] \in {"tell", "share"}
        \/ at[w] = "tell" /\ at'[w] = "share"
        \/ at[w] = "next" /\ at'[w] = "take" /\ local[w] = <<>>
        \/ at[w] = "cancel" /\ at'[w] = "exit"
    BY <1>1, <1>3, OwnPlace DEF Bare, NextShared
  <2> QED BY <1>1, <2>1, <2>2 DEF Holds, Unfinished, Working
<1>4. CASE TakeJob(w)
  <2>1. jobs # <<>> /\ jobs' = SubSeq(jobs, 1, Len(jobs) - 1) /\ local' = local
        /\ current'[w] = jobs[Len(jobs)]
    BY <1>1, <1>4 DEF TakeJob
  <2>2. /\ Len(jobs') = Len(jobs) - 1 /\ Len(jobs) \in Nat \ {0}
        /\ \A i \in 1 .. Len(jobs) - 1 : jobs'[i] = jobs[i]
    BY <1>1, <2>1, OpenFront
  <2>3. Unfinished(jobs') /\ jobs[Len(jobs)] # NoJob
    BY <1>1, <2>2 DEF Unfinished
  <2>4. at'[w] = "run"
    BY <1>1, <1>4, OwnPlace
  <2> QED BY <1>1, <2>1, <2>3, <2>4 DEF Holds, Unfinished
<1>5. CASE Descend(w)
  <2>1. PICK d \in DOMAIN Listing : current' = [current EXCEPT ![w] = JobOf(d)]
    BY <1>5, DescendFacts
  <2>2. current'[w] # NoJob
    BY <1>1, <2>1, ListingType
  <2>3. Unfinished(local'[w])
    <3>1. CASE local' = local
      BY <1>1, <3>1 DEF Holds
    <3>2. CASE \E parent \in Job : parent # NoJob /\ local' = [local EXCEPT ![w] = Append(@, parent)]
      <4>1. PICK parent \in Job : parent # NoJob /\ local'[w] = Append(local[w], parent)
        BY <1>1, <3>2
      <4>2. /\ Len(Append(local[w], parent)) = Len(local[w]) + 1
            /\ \A i \in 1 .. Len(local[w]) : Append(local[w], parent)[i] = local[w][i]
            /\ Append(local[w], parent)[Len(local[w]) + 1] = parent
        BY <1>1, AppendProperties
      <4>3. Len(local[w]) \in Nat /\ \A i \in 1 .. Len(local[w]) : local[w][i] # NoJob
        BY <1>1 DEF Holds, Unfinished
      <4> QED BY <4>1, <4>2, <4>3 DEF Unfinished
    <3> QED BY <1>5, <3>1, <3>2, DescendFacts
  <2>4. at'[w] \in {"run", "share"} /\ jobs' = jobs
    BY <1>1, <1>5, OwnPlace DEF Descend
  <2> QED BY <1>1, <2>2, <2>3, <2>4 DEF Holds, Unfinished
<1>6. CASE Exhaust(w) \/ ReopenFail(w)
  <2>1. UNCHANGED <<jobs, local>> /\ current'[w] = NoJob
    BY <1>1, <1>6 DEF Exhaust, ReopenFail
  <2>2. at'[w] = "finish"
    BY <1>1, <1>6, OwnPlace
  <2> QED BY <1>1, <2>1, <2>2 DEF Holds, Unfinished
<1>7. CASE SharePush(w)
  <2>1. /\ jobs' = Append(jobs, Head(local[w])) /\ local'[w] = Tail(local[w])
        /\ current' = current /\ local[w] # <<>>
    BY <1>1, <1>7 DEF SharePush, Holds
  <2>2. /\ Head(local[w]) \in Job /\ Head(local[w]) = local[w][1]
        /\ Len(Tail(local[w])) = Len(local[w]) - 1 /\ Len(local[w]) \in Nat \ {0}
        /\ \A i \in 1 .. Len(Tail(local[w])) : Tail(local[w])[i] = local[w][i + 1]
    BY <1>1, <2>1, OpenTail
  <2>3. \A i \in 1 .. Len(local[w]) : local[w][i] # NoJob
    BY <1>1 DEF Holds, Unfinished
  <2>4. Unfinished(local'[w])
    BY <2>1, <2>2, <2>3 DEF Unfinished
  <2>5. Head(local[w]) # NoJob
    BY <2>2, <2>3
  <2>6. /\ Len(jobs') = Len(jobs) + 1 /\ Len(jobs) \in Nat
        /\ \A i \in 1 .. Len(jobs) : jobs'[i] = jobs[i]
        /\ jobs'[Len(jobs) + 1] = Head(local[w])
    BY <1>1, <2>1, <2>2, AppendProperties
  <2>7. Unfinished(jobs')
    BY <1>1, <2>5, <2>6 DEF Unfinished
  <2>8. at'[w] = IF Working(w) THEN "run" ELSE "next"
    BY <1>1, <1>7, OwnPlace
  <2> QED BY <2>1, <2>4, <2>7, <2>8 DEF Holds, Working, Unfinished
<1>8. CASE NextLocal(w)
  <2>1. /\ local[w] # <<>> /\ local'[w] = SubSeq(local[w], 1, Len(local[w]) - 1)
        /\ jobs' = jobs /\ current'[w] = local[w][Len(local[w])]
    BY <1>1, <1>8 DEF NextLocal
  <2>2. /\ Len(local'[w]) = Len(local[w]) - 1 /\ Len(local[w]) \in Nat \ {0}
        /\ \A i \in 1 .. Len(local[w]) - 1 : local'[w][i] = local[w][i]
    BY <1>1, <2>1, OpenFront
  <2>3. Unfinished(local'[w]) /\ local[w][Len(local[w])] # NoJob
    BY <1>1, <2>2 DEF Holds, Unfinished
  <2>4. at'[w] = "run"
    BY <1>1, <1>8, OwnPlace
  <2> QED BY <1>1, <2>1, <2>3, <2>4 DEF Holds, Unfinished
<1>9. CASE Panic(w)
  <2>1. UNCHANGED <<jobs, local, current>> /\ cancelled'
    BY <1>9 DEF Panic
  <2>2. at'[w] = "cancel"
    BY <1>1, <1>9, OwnPlace
  <2> QED BY <1>1, <2>1, <2>2 DEF Holds, Unfinished
<1> QED BY <1>3, <1>4, <1>5, <1>6, <1>7, <1>8, <1>9 DEF AnyStep, Step, Bare

--------------------------------------------------------------------------------
(* outstanding and open_jobs.                                              *)

LocalCount == Cardinality(Pool(Worker, LocalSlots))

LocalOpen == Cardinality(Pool(Worker, OpenSlots))

\* One worker's own stack changes.
LEMMA LocalsMove ==
  ASSUME local \in [Worker -> Seq(Job)], local' \in [Worker -> Seq(Job)], NEW w \in Worker,
         \A v \in Worker \ {w} : local'[v] = local[v]
  PROVE  /\ LocalCount \in Nat /\ LocalCount' \in Nat
         /\ Len(local[w]) \in Nat /\ Len(local[w]) <= LocalCount
         /\ Len(local'[w]) \in Nat
         /\ LocalCount' = LocalCount - Len(local[w]) + Len(local'[w])
         /\ LocalOpen \in Nat /\ LocalOpen' \in Nat
         /\ OpenCount(local[w]) \in Nat /\ OpenCount(local[w]) <= LocalOpen
         /\ OpenCount(local'[w]) \in Nat
         /\ LocalOpen' = LocalOpen - OpenCount(local[w]) + OpenCount(local'[w])
<1>1. \A v \in Worker : local[v] \in Seq(Job) /\ local'[v] \in Seq(Job)
  OBVIOUS
<1>2. \A v \in Worker : LocalSlots[v] = 1 .. Len(local[v]) /\ LocalSlots'[v] = 1 .. Len(local'[v])
  BY DEF LocalSlots
<1>3. \A v \in Worker : OpenSlots[v] = OpenIn(local[v]) /\ OpenSlots'[v] = OpenIn(local'[v])
  BY DEF OpenSlots
<1>4. \A v \in Worker : /\ IsFiniteSet(1 .. Len(local[v])) /\ IsFiniteSet(1 .. Len(local'[v]))
                        /\ Cardinality(1 .. Len(local[v])) = Len(local[v])
                        /\ Cardinality(1 .. Len(local'[v])) = Len(local'[v])
  <2> TAKE v \in Worker
  <2>1. Len(local[v]) \in Nat /\ Len(local'[v]) \in Nat
    BY <1>1
  <2> QED BY <2>1, IntervalSize
<1>5. \A v \in Worker : IsFiniteSet(OpenIn(local[v])) /\ IsFiniteSet(OpenIn(local'[v]))
  BY <1>1, OpenFinite
<1>6. \A v \in Worker : IsFiniteSet(LocalSlots[v]) /\ IsFiniteSet(LocalSlots'[v])
  BY <1>2, <1>4
<1>7. \A v \in Worker : IsFiniteSet(OpenSlots[v]) /\ IsFiniteSet(OpenSlots'[v])
  BY <1>3, <1>5
<1>8. \A v \in Worker \ {w} : LocalSlots'[v] = LocalSlots[v]
  BY <1>2
<1>a. \A v \in Worker \ {w} : OpenSlots'[v] = OpenSlots[v]
  BY <1>3
<1>9. PoolMoves(Worker, LocalSlots, LocalSlots', w)
  <2>1. OneChanges(Worker, LocalSlots, LocalSlots', w)
    BY <1>6, <1>8, WalkAssumption DEF OneChanges
  <2> QED BY <2>1, PoolChange
<1>10. PoolMoves(Worker, OpenSlots, OpenSlots', w)
  <2>1. OneChanges(Worker, OpenSlots, OpenSlots', w)
    BY <1>7, <1>a, WalkAssumption DEF OneChanges
  <2> QED BY <2>1, PoolChange
<1>11. /\ LocalCount' = Cardinality(Pool(Worker, LocalSlots'))
       /\ LocalOpen' = Cardinality(Pool(Worker, OpenSlots'))
  BY DEF LocalCount, LocalOpen
<1> QED BY <1>2, <1>3, <1>4, <1>9, <1>10, <1>11
        DEF LocalCount, LocalOpen, OpenCount, PoolMoves

\* The counts before a step.
LEMMA CountsNow ==
  ASSUME WalkInv
  PROVE  /\ outstanding = Len(jobs) + LocalCount + Cardinality(Busy)
         /\ open = OpenCount(jobs) + LocalOpen
         /\ Len(jobs) \in Nat /\ OpenCount(jobs) \in Nat
         /\ open \in 0 .. MaxOpen /\ MaxOpen \in Nat /\ outstanding \in Nat
BY WalkAssumption, OpenFinite DEF WalkInv, TypeOK, CountInv, LocalCount, LocalOpen, OpenCount

\* How the number of workers with a job in hand changes with one worker.
LEMMA BusyChange ==
  ASSUME WalkInv, NEW w \in Worker, AnyStep(w)
  PROVE  /\ Cardinality(Busy) \in Nat /\ Cardinality(Busy') \in Nat
         /\ w \in Busy /\ w \notin Busy' => Cardinality(Busy') = Cardinality(Busy) - 1
         /\ w \notin Busy /\ w \in Busy' => Cardinality(Busy') = Cardinality(Busy) + 1
         /\ (w \in Busy <=> w \in Busy') => Cardinality(Busy') = Cardinality(Busy)
         /\ w \in Busy => Cardinality(Busy) # 0
<1>1. \A v \in Worker \ {w} : /\ at'[v] = at[v] \/ (at[v] = "wait" /\ at'[v] = "woken")
                              /\ current'[v] = current[v]
  BY OthersStill DEF WalkInv
<1>2. Busy \ {w} = Busy' \ {w}
  BY <1>1 DEF Busy
<1>3. IsFiniteSet(Busy)
  BY WalkAssumption, FS_Subset DEF Busy
<1>4. w \in Busy => Cardinality(Busy) # 0
  BY <1>3, FS_EmptySet
<1> QED BY <1>2, <1>3, <1>4, MemberChange

\* A worker is busy from taking a job to finish_one's decrement.
LEMMA BusyIs ==
  ASSUME NEW w \in Worker
  PROVE  /\ w \in Busy <=> current[w] # NoJob \/ at[w] = "finish"
         /\ w \in Busy' <=> current'[w] # NoJob \/ at'[w] = "finish"
BY DEF Busy

\* Every step keeps outstanding and open_jobs exact.
LEMMA CountStep ==
  ASSUME WalkInv, NEW w \in Worker, AnyStep(w)
  PROVE  /\ outstanding' = Len(jobs') + LocalCount' + Cardinality(Busy')
         /\ open' = OpenCount(jobs') + LocalOpen'
         /\ open' \in 0 .. MaxOpen /\ outstanding' \in Nat
<1> DEFINE B == Cardinality(Busy)
           C == Cardinality(Busy')
<1>1. /\ jobs \in Seq(Job) /\ local \in [Worker -> Seq(Job)] /\ local[w] \in Seq(Job)
      /\ current \in [Worker -> Job] /\ current[w] \in Job
      /\ Unfinished(jobs) /\ Holds(w) /\ TypeOK
  BY StackFacts DEF WalkInv
<1>2. jobs' \in Seq(Job) /\ local' \in [Worker -> Seq(Job)]
  BY DataStep
<1>3. /\ LocalCount \in Nat /\ LocalCount' \in Nat
      /\ Len(local[w]) \in Nat /\ Len(local[w]) <= LocalCount /\ Len(local'[w]) \in Nat
      /\ LocalCount' = LocalCount - Len(local[w]) + Len(local'[w])
      /\ LocalOpen \in Nat /\ LocalOpen' \in Nat
      /\ OpenCount(local[w]) \in Nat /\ OpenCount(local[w]) <= LocalOpen
      /\ OpenCount(local'[w]) \in Nat
      /\ LocalOpen' = LocalOpen - OpenCount(local[w]) + OpenCount(local'[w])
  <2>1. \A v \in Worker \ {w} : local'[v] = local[v]
    BY <1>1, OthersStill
  <2> QED BY <1>1, <1>2, <2>1, LocalsMove
<1>4. /\ outstanding = Len(jobs) + LocalCount + B
      /\ open = OpenCount(jobs) + LocalOpen
      /\ Len(jobs) \in Nat /\ OpenCount(jobs) \in Nat
      /\ open \in 0 .. MaxOpen /\ MaxOpen \in Nat /\ outstanding \in Nat
  BY CountsNow
<1>5. /\ B \in Nat /\ C \in Nat
      /\ w \in Busy /\ w \notin Busy' => C = B - 1
      /\ w \notin Busy /\ w \in Busy' => C = B + 1
      /\ (w \in Busy <=> w \in Busy') => C = B
      /\ w \in Busy => B # 0
  BY BusyChange
<1>6. /\ w \in Busy <=> current[w] # NoJob \/ at[w] = "finish"
      /\ w \in Busy' <=> current'[w] # NoJob \/ at'[w] = "finish"
  BY BusyIs
<1>7. Len(jobs') \in Nat /\ OpenCount(jobs') \in Nat
  BY <1>2, OpenFinite
<1> HIDE DEF B, C
<1> DEFINE j == Len(jobs)  j1 == Len(jobs')  s == Len(local[w])  s1 == Len(local'[w])
           l == LocalCount  l1 == LocalCount'
           p == OpenCount(jobs)  p1 == OpenCount(jobs')
           q == OpenCount(local[w])  q1 == OpenCount(local'[w])
           m == LocalOpen  m1 == LocalOpen'
<1>a. /\ outstanding \in Nat /\ outstanding = j + l + B /\ l1 = l - s + s1
      /\ j \in Nat /\ j1 \in Nat /\ s \in Nat /\ s1 \in Nat /\ l \in Nat /\ l1 \in Nat
      /\ B \in Nat /\ C \in Nat
  BY <1>3, <1>4, <1>5, <1>7
<1>b. /\ open \in 0 .. MaxOpen /\ MaxOpen \in Nat /\ open = p + m /\ m1 = m - q + q1
      /\ p \in Nat /\ p1 \in Nat /\ q \in Nat /\ q1 \in Nat /\ m \in Nat /\ m1 \in Nat
  BY <1>3, <1>4, <1>7
<1> HIDE DEF j, j1, s, s1, l, l1, p, p1, q, q1, m, m1
<1>c. ASSUME NEW d \in {0, 1}, outstanding' = outstanding + d, j1 + s1 + C = j + s + B + d
      PROVE  outstanding' = j1 + l1 + C /\ outstanding' \in Nat
  BY <1>a, <1>c
<1>d. ASSUME NEW d \in {-1, 0, 1}, open' = open + d, p1 + q1 = p + q + d,
             d = 1 => open < MaxOpen
      PROVE  open' = p1 + m1 /\ open' \in 0 .. MaxOpen
  <2>1. open' = p1 + m1
    BY <1>b, <1>d
  <2> QED BY <1>b, <1>d, <2>1
<1> DEFINE Goal == /\ outstanding' = Len(jobs') + LocalCount' + C
                   /\ open' = OpenCount(jobs') + LocalOpen'
                   /\ open' \in 0 .. MaxOpen /\ outstanding' \in Nat
<1>8. ASSUME UNCHANGED <<jobs, local, open, outstanding>>, C = B
      PROVE  Goal
  BY <1>3, <1>4, <1>5, <1>8
<1>9. CASE Bare(w) /\ ~Finish(w)
  <2>1. UNCHANGED <<jobs, local, open, current>>
    BY <1>9, BareStill
  <2>2. outstanding' = outstanding
    BY <1>9 DEF Bare, TakeNothing, TakeIdle, Check, Sleeps, Wakes, RunCancelled, Tell,
                ShareLook, NextShared, CancelTell
  <2>3. at[w] # "finish" /\ at'[w] # "finish"
    BY <1>1, <1>9, OwnPlace DEF Bare
  <2>4. C = B
    BY <1>5, <1>6, <2>1, <2>3
  <2> HIDE DEF Goal
  <2>5. Goal
    BY <1>8, <2>1, <2>2, <2>4
  <2> QED BY <2>5 DEF Goal, C
<1>10. CASE Finish(w)
  <2>1. /\ UNCHANGED <<jobs, local, open, current>>
        /\ outstanding' = outstanding - 1
    BY <1>10 DEF Finish
  <2>2. at[w] = "finish" /\ at'[w] # "finish" /\ current[w] = NoJob
    BY <1>1, <1>10, OwnPlace DEF Holds
  <2>3. C = B - 1 /\ B # 0
    BY <1>5, <1>6, <2>1, <2>2
  <2> QED BY <1>3, <1>4, <1>5, <2>1, <2>3 DEF C
<1>11. CASE TakeJob(w)
  <2>1. /\ jobs # <<>> /\ jobs' = SubSeq(jobs, 1, Len(jobs) - 1)
        /\ current'[w] = jobs[Len(jobs)] /\ open' = Closed(jobs[Len(jobs)])
        /\ UNCHANGED <<local, outstanding>>
    BY <1>1, <1>11 DEF TakeJob
  <2>2. /\ Len(jobs') = Len(jobs) - 1 /\ Len(jobs) \in Nat \ {0} /\ jobs[Len(jobs)] \in Job
        /\ OpenCount(jobs) = OpenCount(jobs') + One(jobs[Len(jobs)])
    BY <1>1, <2>1, OpenFront
  <2>3. jobs[Len(jobs)] # NoJob
    BY <1>1, <2>2 DEF Unfinished
  <2>4. at[w] = "take" /\ at'[w] = "run" /\ current[w] = NoJob
    BY <1>1, <1>11, OwnPlace DEF Holds
  <2>5. C = B + 1
    BY <1>5, <1>6, <2>1, <2>3, <2>4
  <2>6. open' = open - One(jobs[Len(jobs)])
    BY <1>4, <2>1 DEF Closed, One
  <2>7. One(jobs[Len(jobs)]) \in {0, 1}
    BY DEF One
  <2>8. outstanding' = j1 + l1 + C /\ outstanding' \in Nat
    <3>1. j1 = j - 1 /\ s1 = s /\ outstanding' = outstanding
      BY <2>1, <2>2 DEF j, j1, s, s1
    <3>2. outstanding' = outstanding + 0 /\ j1 + s1 + C = j + s + B + 0
      BY <1>a, <2>5, <3>1
    <3> QED BY <1>c, <3>2
  <2>9. open' = p1 + m1 /\ open' \in 0 .. MaxOpen
    <3> DEFINE d == 0 - One(jobs[Len(jobs)])
    <3>1. p = p1 - d /\ q1 = q /\ d \in {-1, 0} /\ open' = open + d
      <4>1. p = p1 + One(jobs[Len(jobs)]) /\ q1 = q
        BY <2>1, <2>2 DEF p, p1, q, q1
      <4> QED BY <1>b, <2>6, <2>7, <4>1
    <3> HIDE DEF d
    <3>2. p1 + q1 = p + q + d /\ d \in {-1, 0, 1} /\ d # 1
      BY <1>b, <3>1
    <3> QED BY <1>d, <3>1, <3>2
  <2> QED BY <2>8, <2>9 DEF C, j1, l1, p1, m1
<1>12. CASE Descend(w)
  <2>1. PICK e \in DOMAIN Listing : current' = [current EXCEPT ![w] = JobOf(e)]
    BY <1>12, DescendFacts
  <2>2. current'[w] # NoJob /\ current[w] # NoJob
    BY <1>1, <1>12, <2>1, ListingType, OwnPlace DEF Holds
  <2>3. C = B /\ jobs' = jobs
    BY <1>5, <1>6, <1>12, <2>2 DEF Descend
  <2>4. CASE UNCHANGED <<outstanding, open, local>>
    <3> HIDE DEF Goal
    <3>1. Goal
      BY <1>8, <2>3, <2>4
    <3> QED BY <3>1 DEF Goal, C
  <2>5. CASE \E parent \in Job :
               /\ outstanding' = outstanding + 1
               /\ open' = open + One(parent) /\ (parent.fd => open < MaxOpen)
               /\ local' = [local EXCEPT ![w] = Append(@, parent)]
    <3>1. PICK parent \in Job :
               /\ outstanding' = outstanding + 1
               /\ open' = open + One(parent) /\ (parent.fd => open < MaxOpen)
               /\ local'[w] = Append(local[w], parent)
      BY <1>1, <2>5
    <3>2. Len(local'[w]) = Len(local[w]) + 1
      BY <1>1, <3>1, AppendProperties
    <3>3. OpenCount(local'[w]) = OpenCount(local[w]) + One(parent)
      BY <1>1, <3>1, OpenAppend
    <3>4. One(parent) \in {0, 1} /\ (One(parent) = 1 => open < MaxOpen)
      BY <3>1 DEF One
    <3>5. outstanding' = j1 + l1 + C /\ outstanding' \in Nat
      <4>1. j1 = j /\ s1 = s + 1 /\ outstanding' = outstanding + 1
        BY <2>3, <3>1, <3>2 DEF j, j1, s, s1
      <4>2. j1 + s1 + C = j + s + B + 1
        BY <1>a, <2>3, <4>1
      <4> QED BY <1>c, <4>1, <4>2
    <3>6. open' = p1 + m1 /\ open' \in 0 .. MaxOpen
      <4> DEFINE d == One(parent)
      <4>1. p1 = p /\ q1 = q + d /\ open' = open + d /\ d \in {0, 1} /\ (d = 1 => open < MaxOpen)
        BY <2>3, <3>1, <3>3, <3>4 DEF p, p1, q, q1
      <4> HIDE DEF d
      <4>2. p1 + q1 = p + q + d /\ d \in {-1, 0, 1}
        BY <1>b, <4>1
      <4> QED BY <1>d, <4>1, <4>2
    <3> QED BY <3>5, <3>6 DEF C, j1, l1, p1, m1
  <2> QED BY <1>12, <2>4, <2>5, DescendFacts
<1>13. CASE Exhaust(w) \/ ReopenFail(w) \/ Panic(w)
  <2>1. UNCHANGED <<jobs, local, open, outstanding>>
    BY <1>13 DEF Exhaust, ReopenFail, Panic
  <2>2. current[w] # NoJob
    BY <1>1, <1>13, OwnPlace DEF Holds
  <2>3. at'[w] = "finish" \/ current'[w] = current[w]
    BY <1>1, <1>13, OwnPlace DEF Panic
  <2>4. C = B
    BY <1>5, <1>6, <2>2, <2>3
  <2> HIDE DEF Goal
  <2>5. Goal
    BY <1>8, <2>1, <2>4
  <2> QED BY <2>5 DEF Goal, C
<1>14. CASE SharePush(w)
  <2>1. /\ jobs' = Append(jobs, Head(local[w])) /\ local'[w] = Tail(local[w])
        /\ UNCHANGED <<current, outstanding, open>> /\ local[w] # <<>>
    BY <1>1, <1>14 DEF SharePush, Holds
  <2>2. /\ Head(local[w]) \in Job
        /\ Len(Tail(local[w])) = Len(local[w]) - 1 /\ Len(local[w]) \in Nat \ {0}
        /\ OpenCount(local[w]) = OpenCount(Tail(local[w])) + One(Head(local[w]))
    BY <1>1, <2>1, OpenTail
  <2>3. Len(jobs') = Len(jobs) + 1
    BY <1>1, <2>1, <2>2, AppendProperties
  <2>4. OpenCount(jobs') = OpenCount(jobs) + One(Head(local[w]))
    BY <1>1, <2>1, <2>2, OpenAppend
  <2>5. at[w] = "push" /\ at'[w] # "finish"
    BY <1>1, <1>14, OwnPlace
  <2>6. C = B
    BY <1>5, <1>6, <2>1, <2>5
  <2>7. One(Head(local[w])) \in {0, 1}
    BY DEF One
  <2>a. /\ Len(local'[w]) = Len(local[w]) - 1
        /\ OpenCount(local[w]) = OpenCount(local'[w]) + One(Head(local[w]))
    BY <2>1, <2>2
  <2>8. outstanding' = j1 + l1 + C /\ outstanding' \in Nat
    <3>1. j1 = j + 1 /\ s1 = s - 1 /\ outstanding' = outstanding
      BY <2>1, <2>3, <2>a DEF j, j1, s, s1
    <3>2. outstanding' = outstanding + 0 /\ j1 + s1 + C = j + s + B + 0
      BY <1>a, <2>6, <3>1
    <3> QED BY <1>c, <3>2
  <2>9. open' = p1 + m1 /\ open' \in 0 .. MaxOpen
    <3> DEFINE o == One(Head(local[w]))
    <3>1. p1 = p + o /\ q = q1 + o /\ o \in {0, 1} /\ open' = open
      BY <2>1, <2>4, <2>7, <2>a DEF p, p1, q, q1
    <3> HIDE DEF o
    <3>2. p1 + q1 = p + q + 0 /\ open' = open + 0
      BY <1>b, <3>1
    <3> QED BY <1>d, <3>2
  <2> QED BY <2>8, <2>9 DEF C, j1, l1, p1, m1
<1>15. CASE NextLocal(w)
  <2>1. /\ local[w] # <<>> /\ local'[w] = SubSeq(local[w], 1, Len(local[w]) - 1)
        /\ current'[w] = local[w][Len(local[w])] /\ open' = Closed(local[w][Len(local[w])])
        /\ UNCHANGED <<jobs, outstanding>>
    BY <1>1, <1>15 DEF NextLocal
  <2>2. /\ Len(local'[w]) = Len(local[w]) - 1 /\ Len(local[w]) \in Nat \ {0}
        /\ OpenCount(local[w]) = OpenCount(local'[w]) + One(local[w][Len(local[w])])
    BY <1>1, <2>1, OpenFront
  <2>3. local[w][Len(local[w])] # NoJob
    BY <1>1, <2>2 DEF Holds, Unfinished
  <2>4. at[w] = "next" /\ at'[w] = "run" /\ current[w] = NoJob
    BY <1>1, <1>15, OwnPlace DEF Holds
  <2>5. C = B + 1
    BY <1>5, <1>6, <2>1, <2>3, <2>4
  <2>6. open' = open - One(local[w][Len(local[w])])
    BY <1>4, <2>1 DEF Closed, One
  <2>7. One(local[w][Len(local[w])]) \in {0, 1}
    BY DEF One
  <2>8. outstanding' = j1 + l1 + C /\ outstanding' \in Nat
    <3>1. j1 = j /\ s1 = s - 1 /\ outstanding' = outstanding
      BY <2>1, <2>2 DEF j, j1, s, s1
    <3>2. outstanding' = outstanding + 0 /\ j1 + s1 + C = j + s + B + 0
      BY <1>a, <2>5, <3>1
    <3> QED BY <1>c, <3>2
  <2>9. open' = p1 + m1 /\ open' \in 0 .. MaxOpen
    <3> DEFINE d == 0 - One(local[w][Len(local[w])])
    <3>1. q = q1 - d /\ p1 = p /\ d \in {-1, 0} /\ open' = open + d
      <4>1. q = q1 + One(local[w][Len(local[w])]) /\ p1 = p
        BY <2>1, <2>2 DEF p, p1, q, q1
      <4> QED BY <1>b, <2>6, <2>7, <4>1
    <3> HIDE DEF d
    <3>2. p1 + q1 = p + q + d /\ d \in {-1, 0, 1} /\ d # 1
      BY <1>b, <3>1
    <3> QED BY <1>d, <3>1, <3>2
  <2> QED BY <2>8, <2>9 DEF C, j1, l1, p1, m1
<1> QED BY <1>9, <1>10, <1>11, <1>12, <1>13, <1>14, <1>15 DEF AnyStep, Step, Bare

--------------------------------------------------------------------------------
(* The lock, leaving and sleeping.                                         *)

\* Who may hold the lock after a step, and what the shared stack then is.
LEMMA LockStep ==
  ASSUME WalkInv, NEW w \in Worker, AnyStep(w)
  PROVE  LockInv'
<1>1. /\ TypeOK /\ LockInv /\ NoWorker \notin Worker
      /\ lock \in Worker \cup {NoWorker}
  BY WalkAssumption DEF WalkInv, TypeOK
<1>2. \A v \in Worker \ {w} : at'[v] = at[v] \/ (at[v] = "wait" /\ at'[v] = "woken")
  BY <1>1, OthersStill
<1> DEFINE Goal == \A v \in Worker :
                     /\ lock' = v => at'[v] \in {"check", "sleep", "take"}
                     /\ at'[v] \in {"check", "sleep"} => lock' = v
                     /\ at'[v] = "sleep" => jobs' = <<>>
<1>3. ASSUME Free(w), lock' \in {NoWorker, w}, at[w] \in {"take", "woken", "check", "sleep"},
             at'[w] \in {"check", "sleep"} => lock' = w,
             lock' = w => at'[w] \in {"check", "sleep", "take"},
             at'[w] = "sleep" => jobs' = <<>>
      PROVE  Goal
  <2>1. \A v \in Worker \ {w} : lock # v /\ lock' # v
    BY <1>1, <1>3 DEF Free
  <2>2. \A v \in Worker \ {w} : at[v] \notin {"check", "sleep"}
    BY <1>1, <2>1 DEF LockInv
  <2>3. \A v \in Worker \ {w} : at'[v] \notin {"check", "sleep"}
    BY <1>2, <2>2
  <2> QED BY <1>3, <2>1, <2>3
<1>4. ASSUME lock' = lock, jobs' = jobs \/ lock = NoWorker,
             at[w] \notin {"check", "sleep", "take"}, at'[w] \notin {"check", "sleep"}
      PROVE  Goal
  <2>1. lock # w /\ lock' # w
    BY <1>1, <1>4 DEF LockInv
  <2>2. \A v \in Worker \ {w} : /\ lock = v => at[v] \in {"check", "sleep", "take"}
                                /\ at[v] \in {"check", "sleep"} => lock = v
                                /\ at[v] = "sleep" => jobs = <<>>
    BY <1>1 DEF LockInv
  <2>3. \A v \in Worker \ {w} : /\ lock' = v => at'[v] \in {"check", "sleep", "take"}
                                /\ at'[v] \in {"check", "sleep"} => lock' = v
    BY <1>2, <1>4, <2>2
  <2>4. \A v \in Worker \ {w} : at'[v] = "sleep" => jobs' = <<>>
    <3> TAKE v \in Worker \ {w}
    <3>1. at'[v] = "sleep" => at[v] = "sleep" /\ lock = v /\ jobs = <<>>
      BY <1>2, <2>2
    <3> QED BY <1>1, <1>4, <3>1
  <2> QED BY <1>4, <2>1, <2>3, <2>4
<1>5. CASE TakeJob(w) \/ TakeNothing(w) \/ TakeIdle(w) \/ Wakes(w)
  <2>1. /\ Free(w) /\ at[w] \in {"take", "woken"}
        /\ \/ lock' = NoWorker /\ at'[w] \in {"run", "exit"}
           \/ lock' = w /\ at'[w] = "check"
    BY <1>1, <1>5, OwnPlace DEF TakeJob, TakeNothing, TakeIdle, Wakes
  <2>2. Goal
    <3> HIDE DEF Goal
    <3> QED BY <1>1, <1>3, <2>1
  <2> QED BY <2>2 DEF LockInv
<1>6. CASE Check(w) \/ Sleeps(w)
  <2>1. at[w] \in {"check", "sleep"}
    BY <1>1, <1>6, OwnPlace
  <2>2. lock = w
    BY <1>1, <2>1 DEF LockInv
  <2>3. Free(w)
    BY <2>2 DEF Free
  <2>4. /\ \/ lock' = NoWorker /\ at'[w] = "wait"
           \/ lock' = w /\ at'[w] \in {"sleep", "take"}
    BY <1>1, <1>6, <2>2, OwnPlace DEF Check, Sleeps
  <2>5. at'[w] = "sleep" => jobs' = <<>>
    <3>1. \A q : Goto(w, q) => at'[w] = q
      BY <1>1 DEF Goto, TypeOK
    <3> QED BY <1>6, <3>1 DEF Check, Sleeps
  <2>6. Goal
    <3> HIDE DEF Goal
    <3> QED BY <1>1, <1>3, <2>1, <2>3, <2>4, <2>5
  <2> QED BY <2>6 DEF LockInv
<1>7. CASE \/ Descend(w) \/ Exhaust(w) \/ ReopenFail(w) \/ RunCancelled(w) \/ Finish(w)
           \/ Tell(w) \/ ShareLook(w) \/ SharePush(w) \/ NextLocal(w) \/ NextShared(w)
           \/ Panic(w) \/ CancelTell(w)
  <2>1. lock' = lock /\ (jobs' = jobs \/ lock = NoWorker)
    BY <1>7 DEF Descend, Exhaust, ReopenFail, RunCancelled, Finish, Tell, ShareLook,
                SharePush, NextLocal, NextShared, Panic, CancelTell
  <2>2. at[w] \notin {"check", "sleep", "take"} /\ at'[w] \notin {"check", "sleep"}
    BY <1>1, <1>7, OwnPlace
  <2>3. Goal
    <3> HIDE DEF Goal
    <3> QED BY <1>4, <2>1, <2>2
  <2> QED BY <2>3 DEF LockInv
<1> QED BY <1>5, <1>6, <1>7 DEF AnyStep, Step

\* With nothing outstanding there is no job on any stack or in any hand.
LEMMA NothingLeft ==
  ASSUME WalkInv, outstanding = 0
  PROVE  /\ jobs = <<>> /\ Busy = {}
         /\ \A w \in Worker : local[w] = <<>>
<1>1. /\ outstanding = Len(jobs) + Cardinality(Pool(Worker, LocalSlots)) + Cardinality(Busy)
      /\ jobs \in Seq(Job) /\ local \in [Worker -> Seq(Job)]
  BY DEF WalkInv, CountInv, TypeOK
<1>2. IsFiniteSet(Busy) /\ Cardinality(Busy) \in Nat
  BY WalkAssumption, FS_Subset, FS_CardinalityType DEF Busy
<1>3. \A v \in Worker : Len(local[v]) \in Nat /\ LocalSlots[v] = 1 .. Len(local[v])
  BY <1>1 DEF LocalSlots
<1>4. \A v \in Worker : IsFiniteSet(LocalSlots[v])
  BY <1>3, IntervalSize
<1>5. Cardinality(Pool(Worker, LocalSlots)) \in Nat
  BY <1>4, WalkAssumption, PoolFinite
<1>6. Len(jobs) = 0 /\ Cardinality(Pool(Worker, LocalSlots)) = 0 /\ Cardinality(Busy) = 0
  <2>1. Len(jobs) \in Nat
    BY <1>1
  <2> QED BY <1>1, <1>2, <1>5, <2>1
<1>7. jobs = <<>> /\ Busy = {}
  BY <1>1, <1>2, <1>6, FS_EmptySet
<1>8. \A v \in Worker : LocalSlots[v] = {}
  BY <1>4, <1>6, WalkAssumption, PoolEmpty
<1>9. ASSUME NEW v \in Worker
      PROVE  local[v] = <<>>
  <2>1. 1 .. Len(local[v]) = {} /\ Len(local[v]) \in Nat /\ local[v] \in Seq(Job)
    BY <1>1, <1>3, <1>8
  <2>2. Len(local[v]) = 0
    <3>1. Cardinality(1 .. Len(local[v])) = Len(local[v])
      BY <2>1, IntervalSize
    <3> QED BY <2>1, <3>1, FS_EmptySet
  <2> QED BY <2>1, <2>2
<1> QED BY <1>7, <1>9

\* Nobody adds work once there is none, so that leaving stays right.
LEMMA ExitStep ==
  ASSUME WalkInv, NEW w \in Worker, AnyStep(w)
  PROVE  (~cancelled' /\ \E v \in Worker : at'[v] = "exit") => outstanding' = 0
<1> SUFFICES ASSUME ~cancelled', NEW v \in Worker, at'[v] = "exit"
             PROVE  outstanding' = 0
  OBVIOUS
<1>1. TypeOK /\ Holds(w)
  BY StackFacts DEF WalkInv
<1>2. ~cancelled
  BY DEF AnyStep, Step, TakeJob, TakeNothing, TakeIdle, Check, Sleeps, Wakes, Descend,
         Exhaust, ReopenFail, RunCancelled, Finish, Tell, ShareLook, SharePush,
         NextLocal, NextShared, Panic, CancelTell
<1>3. CASE at[v] = "exit"
  <2>1. outstanding = 0
    BY <1>2, <1>3 DEF WalkInv, LeaveInv
  <2>2. w \notin Busy
    BY <2>1, NothingLeft
  <2>3. ~Finish(w) /\ ~Descend(w)
    BY <1>1, <2>2, OwnPlace DEF Busy, Holds
  <2>4. outstanding' = outstanding
    BY <2>3 DEF AnyStep, Step, TakeJob, TakeNothing, TakeIdle, Check, Sleeps, Wakes,
         Exhaust, ReopenFail, RunCancelled, Tell, ShareLook, SharePush,
         NextLocal, NextShared, Panic, CancelTell
  <2> QED BY <2>1, <2>4
<1>4. CASE at[v] # "exit"
  <2>1. v = w
    BY <1>1, <1>4, OthersStill
  <2>2. TakeNothing(w)
    <3>1. ~RunCancelled(w) /\ ~CancelTell(w)
      BY <1>1, <1>2 DEF RunCancelled, CancelTell, Holds
    <3>2. at'[w] = "exit"
      BY <2>1
    <3> QED BY <1>1, <3>1, <3>2, OwnPlace DEF AnyStep, Step
  <2> QED BY <1>2, <2>2 DEF TakeNothing
<1> QED BY <1>3, <1>4

\* While one sleeps, every shared job has a worker on its way.
LEMMA WakeStep ==
  ASSUME WalkInv, NEW w \in Worker, AnyStep(w)
  PROVE  (~cancelled' /\ Waiting' # {}) => Len(jobs') <= Cardinality(Coming')
<1> SUFFICES ASSUME ~cancelled', Waiting' # {}
             PROVE  Len(jobs') <= Cardinality(Coming')
  OBVIOUS
<1>1. /\ TypeOK /\ LockInv /\ jobs \in Seq(Job) /\ Len(jobs) \in Nat
      /\ idle = Cardinality(Idle)
  BY DEF WalkInv, TypeOK, CountInv
<1>2. \A v \in Worker \ {w} : at'[v] = at[v] \/ (at[v] = "wait" /\ at'[v] = "woken")
  BY <1>1, OthersStill
<1>3. ~cancelled
  BY DEF AnyStep, Step, TakeJob, TakeNothing, TakeIdle, Check, Sleeps, Wakes, Descend,
         Exhaust, ReopenFail, RunCancelled, Finish, Tell, ShareLook, SharePush,
         NextLocal, NextShared, Panic, CancelTell
<1>4. /\ IsFiniteSet(Coming) /\ IsFiniteSet(Coming') /\ IsFiniteSet(Idle)
      /\ Cardinality(Coming) \in Nat /\ Cardinality(Coming') \in Nat
  BY WalkAssumption, FS_Subset, FS_CardinalityType DEF Coming, Idle
<1>5. jobs' = <<>> => Len(jobs') <= Cardinality(Coming')
  BY <1>4
<1>6. Waiting # {} => Len(jobs) <= Cardinality(Coming)
  BY <1>3 DEF WalkInv, LeaveInv, WakePerJob, Coming
<1>7. Waiting # {} \/ Sleeps(w)
  <2>1. PICK v \in Worker : at'[v] = "wait"
    BY DEF Waiting
  <2>2. CASE v # w
    BY <1>2, <2>1, <2>2 DEF Waiting
  <2>3. CASE v = w
    BY <1>1, <2>1, <2>3, OwnPlace DEF AnyStep, Step
  <2> QED BY <2>2, <2>3
<1>8. ASSUME Waiting # {}, jobs' = jobs, w \in Coming => w \in Coming'
      PROVE  Len(jobs') <= Cardinality(Coming')
  <2>1. Coming \subseteq Coming'
    BY <1>2, <1>8 DEF Coming
  <2>2. Cardinality(Coming) <= Cardinality(Coming')
    BY <1>4, <2>1, FS_Subset
  <2> QED BY <1>1, <1>4, <1>6, <1>8, <2>2
<1>9. CASE Sleeps(w)
  <2>1. jobs = <<>> /\ jobs' = jobs
    BY <1>1, <1>9 DEF Sleeps, LockInv
  <2> QED BY <1>5, <2>1
<1>10. CASE TakeNothing(w)
  BY <1>3, <1>5, <1>10 DEF TakeNothing
<1>11. CASE Check(w)
  <2>1. \A q : Goto(w, q) => at'[w] = q
    BY <1>1 DEF Goto, TypeOK
  <2>2. jobs' = jobs /\ (jobs = <<>> \/ at'[w] = "take")
    BY <1>11, <2>1 DEF Check
  <2>3. CASE jobs = <<>>
    BY <1>5, <2>2, <2>3
  <2>4. CASE at'[w] = "take"
    <3>1. w \in Coming' /\ ~Sleeps(w)
      BY <1>11, <2>4 DEF Coming, Check, Sleeps
    <3> QED BY <1>7, <1>8, <2>2, <3>1
  <2> QED BY <2>2, <2>3, <2>4
<1>12. CASE \/ TakeIdle(w) \/ Wakes(w) \/ Descend(w) \/ Exhaust(w) \/ ReopenFail(w)
            \/ RunCancelled(w) \/ Finish(w) \/ ShareLook(w) \/ NextLocal(w) \/ NextShared(w)
  <2>1. jobs' = jobs
    BY <1>12 DEF TakeIdle, Wakes, Descend, Exhaust, ReopenFail, RunCancelled, Finish,
                 ShareLook, NextLocal, NextShared
  <2>2. at[w] # "sleep" /\ (at[w] \in {"woken", "check", "take"} => at'[w] \in {"woken", "check", "take"})
    BY <1>1, <1>12, OwnPlace
  <2>3. ~Sleeps(w) /\ (w \in Coming => w \in Coming')
    BY <2>2 DEF Sleeps, Coming
  <2> QED BY <1>7, <1>8, <2>1, <2>3
<1>13. CASE Tell(w) \/ CancelTell(w)
  <2>1. PICK q \in {"share", "exit"} : at' = [NotifiedAll EXCEPT ![w] = q]
    BY <1>13 DEF Tell, CancelTell
  <2>2. \A v \in Worker : at'[v] # "wait"
    BY <2>1 DEF NotifiedAll, Waiting
  <2> QED BY <2>2 DEF Waiting
<1>14. CASE TakeJob(w)
  <2>1. jobs # <<>> /\ jobs' = SubSeq(jobs, 1, Len(jobs) - 1) /\ at[w] = "take"
    BY <1>14 DEF TakeJob
  <2>2. Len(jobs') = Len(jobs) - 1
    BY <1>1, <2>1, OpenFront
  <2>3. Waiting # {}
    BY <1>7, <2>1 DEF Sleeps
  <2>4. Coming \ {w} \subseteq Coming' /\ w \in Coming
    BY <1>2, <2>1 DEF Coming
  <2>5. IsFiniteSet(Coming \ {w}) /\ Cardinality(Coming \ {w}) = Cardinality(Coming) - 1
    BY <1>4, <2>4, FS_RemoveElement
  <2>6. Cardinality(Coming \ {w}) <= Cardinality(Coming')
    BY <1>4, <2>4, FS_Subset
  <2> QED BY <1>1, <1>4, <1>6, <2>2, <2>3, <2>5, <2>6
<1>15. CASE SharePush(w)
  <2>1. /\ jobs' = Append(jobs, Head(local[w])) /\ local[w] # <<>> /\ local[w] \in Seq(Job)
        /\ at[w] = "push"
    BY <1>15, StackFacts DEF SharePush, Holds
  <2>2. Len(jobs') = Len(jobs) + 1
    <3>1. Head(local[w]) \in Job
      BY <2>1, OpenTail
    <3> QED BY <1>1, <2>1, <3>1, AppendProperties
  <2>3. Waiting # {}
    BY <1>7, <2>1 DEF Sleeps
  <2>4. idle # 0
    <3>1. Idle # {}
      BY <2>3 DEF Waiting, Idle
    <3> QED BY <1>1, <1>4, <3>1, FS_EmptySet
  <2>5. PICK v \in Waiting, q \in {"run", "next"} : at' = [at EXCEPT ![w] = q, ![v] = "woken"]
    BY <1>15, <2>3, <2>4 DEF SharePush
  <2>6. v \in Worker /\ v # w /\ at'[v] = "woken" /\ v \notin Coming
    BY <1>1, <2>1, <2>5 DEF Waiting, Coming, TypeOK
  <2>7. Coming \cup {v} \subseteq Coming'
    BY <1>2, <2>1, <2>6 DEF Coming
  <2>8. IsFiniteSet(Coming \cup {v}) /\ Cardinality(Coming \cup {v}) = Cardinality(Coming) + 1
    BY <1>4, <2>6, FS_AddElement
  <2>9. Cardinality(Coming \cup {v}) <= Cardinality(Coming')
    BY <1>4, <2>7, FS_Subset
  <2> QED BY <1>1, <1>4, <1>6, <2>2, <2>3, <2>8, <2>9
<1>16. ~Panic(w)
  BY DEF Panic
<1> QED BY <1>9, <1>10, <1>11, <1>12, <1>13, <1>14, <1>15, <1>16 DEF AnyStep, Step

--------------------------------------------------------------------------------
(* The invariant.                                                          *)

\* One job, the root's, on the shared stack.
LEMMA WalkInit ==
  Init => WalkInv
<1> SUFFICES ASSUME Init
             PROVE  WalkInv
  OBVIOUS
<1> DEFINE first == JobOf(Root)
<1>1. first \in Job /\ first # NoJob /\ first.fd
  BY WalkAssumption, ListingType DEF JobOf
<1>2. /\ jobs = <<first>> /\ lock = NoWorker /\ idle = 0 /\ outstanding = 1 /\ open = 1
      /\ cancelled = FALSE /\ at = [w \in Worker |-> "take"]
      /\ local = [w \in Worker |-> <<>>] /\ current = [w \in Worker |-> NoJob]
      /\ considered = [e \in Entry |-> 0] /\ panics = 0 /\ faults = 0
  BY DEF Init
<1> HIDE DEF first
<1>3. jobs \in Seq(Job) /\ Len(jobs) = 1 /\ jobs[1] = first
  BY <1>1, <1>2
<1>4. \A w \in Worker : /\ at[w] = "take" /\ local[w] = <<>> /\ Len(local[w]) = 0
                        /\ current[w] = NoJob
  BY <1>2
<1>5. TypeOK
  <2>1. local \in [Worker -> Seq(Job)]
    <3>1. <<>> \in Seq(Job)
      OBVIOUS
    <3> QED BY <1>2, <3>1
  <2>2. current \in [Worker -> Job]
    BY <1>2, NoJobType
  <2>3. open \in 0 .. MaxOpen
    BY <1>2, WalkAssumption
  <2>4. idle \in 0 .. Cardinality(Worker)
    BY <1>2, WalkAssumption, FS_CardinalityType
  <2>5. at \in [Worker -> {"take", "check", "sleep", "wait", "woken", "run", "share", "push",
                           "finish", "tell", "next", "cancel", "exit"}]
    BY <1>2
  <2> QED BY <1>2, <1>3, <2>1, <2>2, <2>3, <2>4, <2>5 DEF TypeOK
<1>6. CountInv
  <2>1. Busy = {} /\ Idle = {}
    BY <1>4 DEF Busy, Idle
  <2>2. Pool(Worker, LocalSlots) = {}
    <3>1. \A w \in Worker : LocalSlots[w] = {}
      BY <1>4 DEF LocalSlots
    <3> QED BY <3>1 DEF Pool
  <2>3. Pool(Worker, OpenSlots) = {}
    <3>1. \A w \in Worker : OpenSlots[w] = {}
      BY <1>4 DEF OpenSlots, OpenIn
    <3> QED BY <3>1 DEF Pool
  <2>4. OpenIn(jobs) = {1}
    BY <1>1, <1>3 DEF OpenIn
  <2>5. Cardinality({}) = 0 /\ Cardinality({1}) = 1
    BY FS_EmptySet, FS_Singleton
  <2>6. /\ Cardinality(Busy) = 0 /\ Cardinality(Idle) = 0
        /\ Cardinality(Pool(Worker, LocalSlots)) = 0
        /\ Cardinality(Pool(Worker, OpenSlots)) = 0
        /\ Cardinality(OpenIn(jobs)) = 1
    BY <2>1, <2>2, <2>3, <2>4, <2>5
  <2> QED BY <1>2, <1>3, <2>6 DEF CountInv
<1>7. PlaceInv
  BY <1>1, <1>3, <1>4 DEF PlaceInv, Holds, Unfinished
<1>8. LockInv
  BY <1>2, <1>4, WalkAssumption DEF LockInv
<1>9. LeaveInv
  BY <1>4 DEF LeaveInv, WakePerJob, Waiting
<1> QED BY <1>5, <1>6, <1>7, <1>8, <1>9 DEF WalkInv

\* Every step of a worker keeps the invariant.
LEMMA WalkStep ==
  ASSUME WalkInv, NEW w \in Worker, AnyStep(w)
  PROVE  WalkInv'
<1>1. /\ outstanding' = Len(jobs') + LocalCount' + Cardinality(Busy')
      /\ open' = OpenCount(jobs') + LocalOpen'
      /\ open' \in 0 .. MaxOpen /\ outstanding' \in Nat
  BY CountStep
<1>2. idle' = Cardinality(Idle') /\ idle' \in 0 .. Cardinality(Worker)
  BY IdleStep
<1>3. /\ jobs' \in Seq(Job) /\ lock' \in Worker \cup {NoWorker} /\ cancelled' \in BOOLEAN
      /\ local' \in [Worker -> Seq(Job)] /\ current' \in [Worker -> Job]
      /\ considered' \in [Entry -> Nat] /\ panics' \in Nat /\ faults' \in Nat
  BY DataStep
<1>4. at' \in [Worker -> Place]
  BY OthersStill DEF WalkInv
<1>5. TypeOK'
  BY <1>1, <1>2, <1>3, <1>4 DEF TypeOK, Place
<1>6. CountInv'
  BY <1>1, <1>2 DEF CountInv, LocalCount, LocalOpen, OpenCount
<1>7. PlaceInv' /\ LockInv'
  BY PlaceStep, LockStep
<1>8. LeaveInv'
  BY ExitStep, WakeStep DEF LeaveInv, WakePerJob, Coming
<1> QED BY <1>5, <1>6, <1>7, <1>8 DEF WalkInv

\* Every reachable state of a walk satisfies the invariant.
THEOREM WalkInvariant == Spec => []WalkInv
<1>1. WalkInv /\ [Next]_vars => WalkInv'
  <2> SUFFICES ASSUME WalkInv, [Next]_vars
               PROVE  WalkInv'
    OBVIOUS
  <2>1. CASE Next
    BY <2>1, WalkStep DEF Next, AnyStep
  <2>2. CASE UNCHANGED vars
    BY <2>2 DEF vars, WalkInv, TypeOK, CountInv, PlaceInv, LockInv, LeaveInv, WakePerJob,
                Holds, Unfinished, Pool, LocalSlots, OpenSlots, OpenIn, Busy, Idle, Waiting
  <2> QED BY <2>1, <2>2
<1> QED BY <1>1, WalkInit, PTL DEF Spec

\* A worker leaves (take returns None) only when no directory is left on any
\* stack or in any hand, however the count raced with the stacks it counts.
THEOREM WorkNotAbandoned == Spec => []NoWorkAbandoned
<1>1. WalkInv => NoWorkAbandoned
  <2> SUFFICES ASSUME WalkInv, ~cancelled, \E w \in Worker : at[w] = "exit"
               PROVE  /\ jobs = <<>>
                      /\ \A w \in Worker : local[w] = <<>> /\ at[w] \notin {"run", "finish"}
    BY DEF NoWorkAbandoned
  <2>1. outstanding = 0
    BY DEF WalkInv, LeaveInv
  <2>2. /\ jobs = <<>> /\ Busy = {}
        /\ \A w \in Worker : local[w] = <<>>
    BY <2>1, NothingLeft
  <2>3. \A w \in Worker : Holds(w)
    BY DEF WalkInv, PlaceInv
  <2> QED BY <2>2, <2>3 DEF Busy, Holds
<1> QED BY <1>1, WalkInvariant, PTL

\* open_jobs is the number of descriptors that queued jobs hold, and stays
\* within MAX_OPEN_JOBS, for any number of workers and any tree.
THEOREM OpenCountExact == Spec => []OpenExact
<1>1. WalkInv => OpenExact
  <2> SUFFICES ASSUME WalkInv
               PROVE  OpenExact
    OBVIOUS
  <2>1. OpenShared = OpenIn(jobs)
    BY DEF OpenShared, OpenIn
  <2>2. OpenLocal = Pool(Worker, OpenSlots)
    <3>1. \A w \in Worker : OpenSlots[w] = {i \in 1 .. Len(local[w]) : local[w][i].fd}
      BY DEF OpenSlots, OpenIn
    <3> QED BY <3>1 DEF OpenLocal, Pool
  <2> QED BY <2>1, <2>2 DEF WalkInv, CountInv, OpenExact
<1> QED BY <1>1, WalkInvariant, PTL

\* While a worker sleeps on the condition variable, every job on the shared
\* stack has a worker of its own on the way to it: no notification is lost.
THEOREM WakeIsPerJob == Spec => []WakePerJob
<1>1. WalkInv => WakePerJob
  BY DEF WalkInv, LeaveInv
<1> QED BY <1>1, WalkInvariant, PTL

--------------------------------------------------------------------------------
(* Every entry once.  A shelf is the shared stack or a worker's own; the   *)
(* job in a worker's hand lies at place 0 of its shelf.                    *)

Spot == (Worker \cup {NoWorker}) \X Nat

Stack(x) == IF x = NoWorker THEN jobs ELSE local[x]

\* A spot is a shelf and a place on it.
LEMMA SpotIs ==
  /\ \A a \in Spot : \E x \in Worker \cup {NoWorker}, i \in Nat : a = <<x, i>>
  /\ \A x \in Worker \cup {NoWorker}, i \in Nat : <<x, i>> \in Spot
BY DEF Spot

\* The entries of the job at each spot that are not considered yet.
Rests ==
  [a \in Spot |->
     IF a[2] = 0 THEN IF a[1] = NoWorker THEN <<>> ELSE current[a[1]].rest
     ELSE IF a[2] \in 1 .. Len(Stack(a[1])) THEN Stack(a[1])[a[2]].rest ELSE <<>>]

\* No entry waits twice.
Apart(S) ==
  \A a, b \in Spot : \A i \in 1 .. Len(S[a]), k \in 1 .. Len(S[b]) :
    S[a][i] = S[b][k] => a = b /\ i = k

Waits(S, e) == \E a \in Spot : \E i \in 1 .. Len(S[a]) : S[a][i] = e

\* An entry waits, has been considered, or is below a directory that has not
\* been entered yet, and only one of these.
Exclusive(S, c) ==
  /\ Apart(S)
  /\ ~Waits(S, Root)
  /\ \A e \in Entry : c[e] # 0 => ~Waits(S, e)
  /\ \A d \in DOMAIN Listing \ {Root} :
       c[d] = 0 => \A e \in Listed(d) : c[e] = 0 /\ ~Waits(S, e)

\* Nothing of a directory that was entered is forgotten.
Complete(S, c) ==
  \A d \in DOMAIN Listing :
    d = Root \/ c[d] # 0 => \A e \in Listed(d) : c[e] # 0 \/ Waits(S, e)

OnceInv ==
  /\ \A e \in Entry : considered[e] <= 1
  /\ ~cancelled => Exclusive(Rests, considered)
  /\ ~cancelled /\ faults = 0 => Complete(Rests, considered)

\* Jobs that change their spots: m says where each was before.
Carried(S, T, m) ==
  /\ S \in [Spot -> Seq(Entry)] /\ T \in [Spot -> Seq(Entry)] /\ m \in [Spot -> Spot]
  /\ \A a \in Spot : T[a] # <<>> => T[a] = S[m[a]]
  /\ \A a, b \in Spot : T[a] # <<>> /\ T[b] # <<>> /\ m[a] = m[b] => a = b
  /\ \A a \in Spot : S[a] # <<>> => \E b \in Spot : T[b] = S[a]

\* An entry waits as long as its job is on some stack or in some hand.
LEMMA CarriedWaits ==
  ASSUME NEW S, NEW T, NEW m, Carried(S, T, m)
  PROVE  /\ Apart(S) => Apart(T)
         /\ \A e : Waits(S, e) <=> Waits(T, e)
<1>1. \A a \in Spot : /\ S[a] \in Seq(Entry) /\ T[a] \in Seq(Entry) /\ m[a] \in Spot
                      /\ \A i \in 1 .. Len(S[a]) : S[a] # <<>>
                      /\ \A i \in 1 .. Len(T[a]) : T[a] # <<>>
  BY DEF Carried
<1>2. ASSUME Apart(S), NEW a \in Spot, NEW b \in Spot,
             NEW i \in 1 .. Len(T[a]), NEW k \in 1 .. Len(T[b]), T[a][i] = T[b][k]
      PROVE  a = b /\ i = k
  <2>1. T[a] = S[m[a]] /\ T[b] = S[m[b]] /\ T[a] # <<>> /\ T[b] # <<>>
    BY <1>1 DEF Carried
  <2>2. m[a] \in Spot /\ m[b] \in Spot
    BY <1>1
  <2>3. m[a] = m[b] /\ i = k
    BY <1>2, <2>1, <2>2 DEF Apart
  <2> QED BY <2>1, <2>3 DEF Carried
<1>3. ASSUME NEW e, Waits(S, e)
      PROVE  Waits(T, e)
  BY <1>1, <1>3 DEF Carried, Waits
<1>4. ASSUME NEW e, Waits(T, e)
      PROVE  Waits(S, e)
  BY <1>1, <1>4 DEF Carried, Waits
<1>5. Apart(S) => Apart(T)
  BY <1>2 DEF Apart
<1> QED BY <1>3, <1>4, <1>5

\* Moving jobs neither loses nor doubles an entry.
LEMMA CarriedOnce ==
  ASSUME NEW S, NEW T, NEW m, NEW c, Carried(S, T, m)
  PROVE  /\ Exclusive(S, c) => Exclusive(T, c)
         /\ Complete(S, c) => Complete(T, c)
BY CarriedWaits DEF Exclusive, Complete

\* A job that is dropped forgets entries, and doubles none.
LEMMA DroppedOnce ==
  ASSUME NEW S, NEW T, NEW c, \A a \in Spot : T[a] = S[a] \/ T[a] = <<>>, Exclusive(S, c)
  PROVE  Exclusive(T, c)
<1>1. \A a \in Spot : \A i \in 1 .. Len(T[a]) : T[a] = S[a]
  <2>1. 1 .. Len(<<>>) = {}
    OBVIOUS
  <2> QED BY <2>1
<1>2. Apart(T) /\ \A e : Waits(T, e) => Waits(S, e)
  BY <1>1 DEF Exclusive, Apart, Waits
<1> QED BY <1>2 DEF Exclusive

\* How often each of the first n entries of a listing is counted.
LEMMA CountedOnce ==
  ASSUME NEW s \in Seq(Entry), NEW n \in 0 .. Len(s), NEW e,
         \A i, k \in 1 .. Len(s) : s[i] = s[k] => i = k
  PROVE  Cardinality({i \in 1 .. n : s[i] = e}) = IF \E i \in 1 .. n : s[i] = e THEN 1 ELSE 0
<1>1. CASE \E i \in 1 .. n : s[i] = e
  <2>1. PICK i \in 1 .. n : s[i] = e
    BY <1>1
  <2>2. {k \in 1 .. n : s[k] = e} = {i}
    BY <2>1
  <2> QED BY <1>1, <2>2, FS_Singleton
<1>2. CASE ~ \E i \in 1 .. n : s[i] = e
  <2>1. {k \in 1 .. n : s[k] = e} = {}
    BY <1>2
  <2> QED BY <1>2, <2>1, FS_EmptySet
<1> QED BY <1>1, <1>2

Among(s, n, e) == \E i \in 1 .. n : s[i] = e

\* The first n entries of the job at h are considered.
Handed(S, c, c1, h, n) ==
  /\ S \in [Spot -> Seq(Entry)] /\ h \in Spot /\ n \in 0 .. Len(S[h])
  /\ c \in [Entry -> Nat] /\ c1 \in [Entry -> Nat]
  /\ \A e \in Entry : c1[e] = IF Among(S[h], n, e) THEN c[e] + 1 ELSE c[e]

\* They were waiting, and none of them was considered before.
LEMMA HandedFacts ==
  ASSUME NEW S, NEW c, NEW c1, NEW h, NEW n, Handed(S, c, c1, h, n), Exclusive(S, c)
  PROVE  \A e \in Entry :
           /\ Among(S[h], n, e) => Waits(S, e) /\ c[e] = 0 /\ c1[e] = 1 /\ e # Root
           /\ ~Among(S[h], n, e) => c1[e] = c[e]
<1> TAKE e \in Entry
<1>1. CASE Among(S[h], n, e)
  <2>1. Len(S[h]) \in Nat
    BY DEF Handed
  <2>2. Waits(S, e)
    BY <1>1, <2>1 DEF Among, Waits, Handed
  <2>3. c[e] = 0 /\ e # Root
    BY <2>2 DEF Exclusive
  <2> QED BY <1>1, <2>2, <2>3 DEF Handed
<1>2. CASE ~Among(S[h], n, e)
  BY <1>2 DEF Handed
<1> QED BY <1>1, <1>2

\* What is listed is an entry, and never the root.
LEMMA ListedType ==
  \A d \in DOMAIN Listing : Listed(d) \subseteq Entry /\ Root \notin Listed(d)
<1> TAKE d \in DOMAIN Listing
<1>1. Listing[d] \in Seq(Entry \ {Root})
  BY WalkAssumption
<1> QED BY <1>1 DEF Listed

\* A job that is at its end: what was left of it is considered.
LEMMA ExhaustedOnce ==
  ASSUME NEW S, NEW T, NEW c, NEW c1, NEW h, Handed(S, c, c1, h, Len(S[h])), Exclusive(S, c),
         T[h] = <<>>, \A a \in Spot \ {h} : T[a] = S[a],
         \A i \in 1 .. Len(S[h]) : ~Directory(S[h][i])
  PROVE  /\ Exclusive(T, c1)
         /\ Complete(S, c) => Complete(T, c1)
<1> DEFINE n == Len(S[h])
<1>0. /\ h \in Spot /\ n \in Nat /\ Root \in Entry /\ DOMAIN Listing \subseteq Entry
      /\ \A d \in DOMAIN Listing : Listed(d) \subseteq Entry
  BY ListedType, WalkAssumption DEF Handed
<1>1. \A e \in Entry :
        /\ Among(S[h], n, e) => Waits(S, e) /\ c[e] = 0 /\ c1[e] = 1 /\ e # Root
        /\ ~Among(S[h], n, e) => c1[e] = c[e]
  BY HandedFacts
<1>2. \A e : Waits(T, e) <=> Waits(S, e) /\ ~Among(S[h], n, e)
  <2>0. 1 .. Len(T[h]) = {}
    OBVIOUS
  <2> TAKE e
  <2>1. ASSUME Waits(T, e)
        PROVE  Waits(S, e) /\ ~Among(S[h], n, e)
    <3>1. PICK a \in Spot : \E i \in 1 .. Len(T[a]) : T[a][i] = e
      BY <2>1 DEF Waits
    <3>2. a # h /\ T[a] = S[a]
      BY <2>0, <3>1
    <3> QED BY <1>0, <3>1, <3>2 DEF Waits, Among, Exclusive, Apart
  <2>2. ASSUME Waits(S, e), ~Among(S[h], n, e)
        PROVE  Waits(T, e)
    <3>1. PICK a \in Spot : \E i \in 1 .. Len(S[a]) : S[a][i] = e
      BY <2>2 DEF Waits
    <3>2. a # h
      BY <2>2, <3>1 DEF Among
    <3> QED BY <3>1, <3>2 DEF Waits
  <2> QED BY <2>1, <2>2
<1>3. Apart(T)
  <2>1. \A a \in Spot : \A i \in 1 .. Len(T[a]) : T[a] = S[a]
    <3>1. 1 .. Len(T[h]) = {}
      OBVIOUS
    <3> QED BY <3>1
  <2> QED BY <2>1 DEF Exclusive, Apart
<1>4. \A d \in DOMAIN Listing : ~Among(S[h], n, d)
  BY DEF Among, Directory
<1> HIDE DEF n
<1>5. Exclusive(T, c1)
  <2>1. ~Waits(T, Root) /\ \A e \in Entry : c1[e] # 0 => ~Waits(T, e)
    BY <1>0, <1>1, <1>2 DEF Exclusive
  <2>2. ASSUME NEW d \in DOMAIN Listing \ {Root}, c1[d] = 0, NEW e \in Listed(d)
        PROVE  c1[e] = 0 /\ ~Waits(T, e)
    <3>1. c[d] = 0 /\ e \in Entry
      BY <1>0, <1>1, <1>4, <2>2
    <3>2. c[e] = 0 /\ ~Waits(S, e)
      BY <2>2, <3>1 DEF Exclusive
    <3> QED BY <1>1, <1>2, <3>1, <3>2
  <2> QED BY <1>3, <2>1, <2>2 DEF Exclusive
<1>6. ASSUME Complete(S, c)
      PROVE  Complete(T, c1)
  <2> SUFFICES ASSUME NEW d \in DOMAIN Listing, d = Root \/ c1[d] # 0, NEW e \in Listed(d)
               PROVE  c1[e] # 0 \/ Waits(T, e)
    BY DEF Complete
  <2>1. d = Root \/ c[d] # 0
    BY <1>0, <1>1, <1>4
  <2>2. c[e] # 0 \/ Waits(S, e)
    BY <1>6, <2>1 DEF Complete
  <2> QED BY <1>0, <1>1, <1>2, <2>2
<1> QED BY <1>5, <1>6

\* The directory d, the n-th entry of the job at h, is entered: its listing is
\* the job at h now, and what is left of the parent lies at p.
Enters(S, T, h, p, n, d) ==
  /\ T \in [Spot -> Seq(Entry)] /\ p \in Spot \ {h} /\ S[p] = <<>>
  /\ n > 0 /\ d = S[h][n] /\ d \in DOMAIN Listing
  /\ \A i \in 1 .. Len(S[h]) : i < n => ~Directory(S[h][i])
  /\ T[h] = Listing[d] /\ T[p] = SubSeq(S[h], n + 1, Len(S[h]))
  /\ \A a \in Spot \ {h, p} : T[a] = S[a]

\* Where each entry was before: in the listing of d, or waiting.
LEMMA EntersFrom ==
  ASSUME NEW S, NEW T, NEW c, NEW c1, NEW h, NEW p, NEW n, NEW d,
         Handed(S, c, c1, h, n), Enters(S, T, h, p, n, d)
  PROVE  /\ \A i \in 1 .. Len(T[h]) : T[h][i] \in Listed(d)
         /\ \A i \in 1 .. Len(T[p]) : n + i \in 1 .. Len(S[h]) /\ T[p][i] = S[h][n + i]
         /\ \A i \in 1 .. Len(S[h]) : i > n => /\ i - n \in 1 .. Len(T[p])
                                               /\ T[p][i - n] = S[h][i]
<1>1. \A i \in 1 .. Len(T[h]) : T[h][i] \in Listed(d)
  BY DEF Enters, Listed
<1> DEFINE s == S[h]
           t == T[p]
<1>2. s \in Seq(Entry) /\ Len(s) \in Nat /\ n \in Nat /\ n <= Len(s) /\ t = SubSeq(s, n + 1, Len(s))
  BY DEF Handed, Enters
<1>3. Len(t) = Len(s) - n /\ \A i \in 1 .. Len(s) - n : t[i] = s[n + i]
  <2>1. \A i \in n + 1 .. Len(s) : s[i] \in Entry
    BY <1>2
  <2> HIDE DEF s, t
  <2>2. /\ Len(SubSeq(s, n + 1, Len(s))) =
             IF n + 1 <= Len(s) THEN Len(s) - (n + 1) + 1 ELSE 0
        /\ \A i \in 1 .. Len(s) - (n + 1) + 1 : SubSeq(s, n + 1, Len(s))[i] = s[n + 1 + i - 1]
    BY <1>2, <2>1, SubSeqProperties
  <2> QED BY <1>2, <2>2
<1> HIDE DEF s, t
<1>4. \A i \in 1 .. Len(t) : n + i \in 1 .. Len(s) /\ t[i] = s[n + i]
  BY <1>2, <1>3
<1>5. ASSUME NEW i \in 1 .. Len(s), i > n
      PROVE  i - n \in 1 .. Len(t) /\ t[i - n] = s[i]
  <2>1. i - n \in 1 .. Len(s) - n /\ n + (i - n) = i
    BY <1>2, <1>5
  <2>2. t[i - n] = s[n + (i - n)]
    BY <1>3, <2>1
  <2> QED BY <1>3, <2>1, <2>2
<1> QED BY <1>1, <1>4, <1>5 DEF s, t

\* Entering a directory neither loses nor doubles an entry.
LEMMA EnteredOnce ==
  ASSUME NEW S, NEW T, NEW c, NEW c1, NEW h, NEW p, NEW n, NEW d,
         Handed(S, c, c1, h, n), Exclusive(S, c), Enters(S, T, h, p, n, d)
  PROVE  /\ Exclusive(T, c1)
         /\ Complete(S, c) => Complete(T, c1)
<1> DEFINE Seen(e) == Among(S[h], n, e)
<1>0. /\ h \in Spot /\ p \in Spot /\ p # h /\ n \in Nat /\ Len(S[h]) \in Nat /\ n <= Len(S[h])
      /\ Root \in Entry /\ DOMAIN Listing \subseteq Entry /\ n > 0
      /\ d = S[h][n] /\ d \in DOMAIN Listing
      /\ \A b \in DOMAIN Listing : Listed(b) \subseteq Entry /\ Root \notin Listed(b)
  <2>1. /\ h \in Spot /\ n \in 0 .. Len(S[h]) /\ S[h] \in Seq(Entry)
    BY DEF Handed
  <2>2. p \in Spot /\ p # h /\ n > 0 /\ d = S[h][n] /\ d \in DOMAIN Listing
    BY DEF Enters
  <2>3. n \in Nat /\ Len(S[h]) \in Nat /\ n <= Len(S[h])
    BY <2>1
  <2>4. Root \in Entry /\ DOMAIN Listing \subseteq Entry
    BY WalkAssumption
  <2> QED BY <2>1, <2>2, <2>3, <2>4, ListedType
<1>1. \A e \in Entry :
        /\ Seen(e) => Waits(S, e) /\ c[e] = 0 /\ c1[e] = 1 /\ e # Root
        /\ ~Seen(e) => c1[e] = c[e]
  BY HandedFacts
<1>2. Seen(d) /\ d # Root /\ c[d] = 0 /\ c1[d] = 1 /\ d \in Entry
  <2>1. Seen(d)
    BY <1>0 DEF Among
  <2> QED BY <1>0, <1>1, <2>1
<1>3. \A e \in Listed(d) : c[e] = 0 /\ ~Waits(S, e) /\ ~Seen(e) /\ e \in Entry
  <2>1. \A e \in Listed(d) : c[e] = 0 /\ ~Waits(S, e)
    BY <1>0, <1>2 DEF Exclusive
  <2> QED BY <1>0, <1>1, <2>1
<1>4. /\ \A i \in 1 .. Len(T[h]) : T[h][i] \in Listed(d)
      /\ \A i \in 1 .. Len(T[p]) : n + i \in 1 .. Len(S[h]) /\ T[p][i] = S[h][n + i]
      /\ \A i \in 1 .. Len(S[h]) : i > n => /\ i - n \in 1 .. Len(T[p])
                                            /\ T[p][i - n] = S[h][i]
  BY EntersFrom
<1>5. \A b \in DOMAIN Listing : b # d => ~Seen(b)
  <2> SUFFICES ASSUME NEW b \in DOMAIN Listing, b # d, Seen(b)
               PROVE  FALSE
    OBVIOUS
  <2>1. PICK i \in 1 .. n : S[h][i] = b
    BY DEF Among
  <2>2. i \in 1 .. Len(S[h]) /\ i < n
    BY <1>0, <2>1
  <2> QED BY <2>1, <2>2 DEF Enters, Directory
<1>6. \A e : Waits(T, e) <=> e \in Listed(d) \/ (Waits(S, e) /\ ~Seen(e))
  <2> TAKE e
  <2>1. ASSUME NEW a \in Spot, NEW i \in 1 .. Len(T[a]), T[a][i] = e
        PROVE  e \in Listed(d) \/ (Waits(S, e) /\ ~Seen(e))
    <3>1. CASE a = h
      BY <1>4, <2>1, <3>1
    <3>2. CASE a = p
      <4>1. n + i \in 1 .. Len(S[h]) /\ e = S[h][n + i]
        BY <1>4, <2>1, <3>2
      <4>2. ~Seen(e)
        <5> SUFFICES ASSUME NEW k \in 1 .. n, S[h][k] = e
                     PROVE  FALSE
          BY DEF Among
        <5>1. k \in 1 .. Len(S[h]) /\ k # n + i
          BY <1>0
        <5> QED BY <1>0, <4>1, <5>1 DEF Exclusive, Apart
      <4> QED BY <1>0, <4>1, <4>2 DEF Waits
    <3>3. CASE a \notin {h, p}
      <4>1. T[a] = S[a]
        BY <3>3 DEF Enters
      <4>2. ~Seen(e)
        <5> SUFFICES ASSUME NEW k \in 1 .. n, S[h][k] = e
                     PROVE  FALSE
          BY DEF Among
        <5>1. k \in 1 .. Len(S[h])
          BY <1>0
        <5> QED BY <1>0, <2>1, <3>3, <4>1, <5>1 DEF Exclusive, Apart
      <4> QED BY <2>1, <4>1, <4>2 DEF Waits
    <3> QED BY <3>1, <3>2, <3>3
  <2>2. ASSUME e \in Listed(d)
        PROVE  Waits(T, e)
    BY <1>0, <2>2 DEF Listed, Waits, Enters
  <2>3. ASSUME NEW a \in Spot, NEW i \in 1 .. Len(S[a]), S[a][i] = e, ~Seen(e)
        PROVE  Waits(T, e)
    <3>1. CASE a = h
      <4>1. i > n
        BY <1>0, <2>3, <3>1 DEF Among
      <4>2. i - n \in 1 .. Len(T[p]) /\ T[p][i - n] = e
        BY <1>4, <2>3, <3>1, <4>1
      <4> QED BY <1>0, <4>2 DEF Waits
    <3>2. a # p
      <4>1. S[p] = <<>> /\ 1 .. Len(<<>>) = {}
        BY DEF Enters
      <4> QED BY <2>3, <4>1
    <3>3. CASE a \notin {h, p}
      <4>1. T[a] = S[a]
        BY <3>3 DEF Enters
      <4> QED BY <2>3, <4>1 DEF Waits
    <3> QED BY <3>1, <3>2, <3>3
  <2> QED BY <2>1, <2>2, <2>3 DEF Waits
<1>7. Apart(T)
  <2> SUFFICES ASSUME NEW a \in Spot, NEW b \in Spot, NEW i \in 1 .. Len(T[a]),
                      NEW k \in 1 .. Len(T[b]), T[a][i] = T[b][k]
               PROVE  a = b /\ i = k
    BY DEF Apart
  <2> DEFINE e == T[a][i]
  <2>1. ASSUME NEW x \in Spot, NEW j \in 1 .. Len(T[x]), T[x][j] = e, x # h
        PROVE  /\ e \notin Listed(d)
               /\ x = p => n + j \in 1 .. Len(S[h]) /\ S[h][n + j] = e
               /\ x # p => j \in 1 .. Len(S[x]) /\ S[x][j] = e
    <3>1. /\ x = p => n + j \in 1 .. Len(S[h]) /\ S[h][n + j] = e
          /\ x # p => j \in 1 .. Len(S[x]) /\ S[x][j] = e
      BY <1>4, <2>1 DEF Enters
    <3>2. Waits(S, e)
      BY <1>0, <2>1, <3>1 DEF Waits
    <3> QED BY <1>3, <3>1, <3>2
  <2>2. CASE a = h \/ b = h
    <3>1. e \in Listed(d)
      BY <1>4, <2>2
    <3>2. a = h /\ b = h
      BY <2>1, <3>1
    <3>3. T[h] = Listing[d]
      BY DEF Enters
    <3> QED BY <1>0, <3>2, <3>3, TreeAssumption
  <2>3. CASE a # h /\ b # h
    <3>1. /\ a = p => n + i \in 1 .. Len(S[h]) /\ S[h][n + i] = e
          /\ a # p => i \in 1 .. Len(S[a]) /\ S[a][i] = e
          /\ b = p => n + k \in 1 .. Len(S[h]) /\ S[h][n + k] = e
          /\ b # p => k \in 1 .. Len(S[b]) /\ S[b][k] = e
      BY <2>1, <2>3
    <3> HIDE DEF e
    <3>2. Apart(S)
      BY DEF Exclusive
    <3>3. CASE a = p /\ b = p
      <4>1. n + i = n + k
        BY <1>0, <3>1, <3>2, <3>3 DEF Apart
      <4>2. i \in Int /\ k \in Int
        OBVIOUS
      <4> QED BY <1>0, <3>3, <4>1, <4>2
    <3>4. CASE a # p /\ b # p
      BY <3>1, <3>2, <3>4 DEF Apart
    <3>5. CASE a = p /\ b # p
      BY <1>0, <2>3, <3>1, <3>2, <3>5 DEF Apart
    <3>6. CASE a # p /\ b = p
      BY <1>0, <2>3, <3>1, <3>2, <3>6 DEF Apart
    <3> QED BY <3>3, <3>4, <3>5, <3>6
  <2> QED BY <2>2, <2>3
<1> HIDE DEF Seen
<1>8. Exclusive(T, c1)
  <2>1. ~Waits(T, Root) /\ \A e \in Entry : c1[e] # 0 => ~Waits(T, e)
    BY <1>0, <1>1, <1>3, <1>6 DEF Exclusive
  <2>2. ASSUME NEW b \in DOMAIN Listing \ {Root}, c1[b] = 0, NEW e \in Listed(b)
        PROVE  c1[e] = 0 /\ ~Waits(T, e)
    <3>1. b # d /\ c[b] = 0 /\ e \in Entry
      BY <1>0, <1>1, <1>2, <1>5, <2>2
    <3>2. c[e] = 0 /\ ~Waits(S, e)
      BY <2>2, <3>1 DEF Exclusive
    <3>3. e \notin Listed(d)
      BY <1>0, <2>2, <3>1, TreeAssumption DEF Listed
    <3> QED BY <1>1, <1>6, <3>1, <3>2, <3>3
  <2> QED BY <1>7, <2>1, <2>2 DEF Exclusive
<1>9. ASSUME Complete(S, c)
      PROVE  Complete(T, c1)
  <2> SUFFICES ASSUME NEW b \in DOMAIN Listing, b = Root \/ c1[b] # 0, NEW e \in Listed(b)
               PROVE  c1[e] # 0 \/ Waits(T, e)
    BY DEF Complete
  <2>1. CASE b = d
    BY <1>6, <2>1
  <2>2. CASE b # d
    <3>1. b = Root \/ c[b] # 0
      BY <1>0, <1>1, <1>5, <2>2
    <3>2. c[e] # 0 \/ Waits(S, e)
      BY <1>9, <3>1 DEF Complete
    <3> QED BY <1>0, <1>1, <1>6, <3>2
  <2> QED BY <2>1, <2>2
<1> QED BY <1>8, <1>9

\* A job is taken from one spot and put down at another.
LEMMA RelocatedOnce ==
  ASSUME NEW S \in [Spot -> Seq(Entry)], NEW T \in [Spot -> Seq(Entry)], NEW c,
         NEW from \in Spot, NEW to \in Spot, from # to,
         S[to] = <<>>, T[to] = S[from], T[from] = <<>>,
         \A a \in Spot \ {from, to} : T[a] = S[a]
  PROVE  /\ Exclusive(S, c) => Exclusive(T, c)
         /\ Complete(S, c) => Complete(T, c)
<1> DEFINE m == [a \in Spot |-> IF a = to THEN from ELSE a]
<1>1. Carried(S, T, m)
  BY DEF Carried
<1> QED BY <1>1, CarriedOnce

\* The oldest job of w goes to place k of the shared stack, and its others
\* move up.
Shares(S, T, w, k) ==
  /\ S[<<NoWorker, k>>] = <<>> /\ T[<<NoWorker, k>>] = S[<<w, 1>>]
  /\ \A i \in Nat : i # 0 => T[<<w, i>>] = S[<<w, i + 1>>]
  /\ \A a \in Spot : a # <<NoWorker, k>> /\ (a[1] # w \/ a[2] = 0) => T[a] = S[a]

\* Sharing neither loses nor doubles an entry.
LEMMA SharedOnce ==
  ASSUME NEW S \in [Spot -> Seq(Entry)], NEW T \in [Spot -> Seq(Entry)], NEW c,
         NEW w \in Worker, NEW k \in Nat, k # 0, Shares(S, T, w, k)
  PROVE  /\ Exclusive(S, c) => Exclusive(T, c)
         /\ Complete(S, c) => Complete(T, c)
<1> /\ S[<<NoWorker, k>>] = <<>> /\ T[<<NoWorker, k>>] = S[<<w, 1>>]
    /\ \A i \in Nat : i # 0 => T[<<w, i>>] = S[<<w, i + 1>>]
    /\ \A a \in Spot : a # <<NoWorker, k>> /\ (a[1] # w \/ a[2] = 0) => T[a] = S[a]
  BY DEF Shares
<1> DEFINE top == <<NoWorker, k>>
           m == [a \in Spot |-> IF a = top THEN <<w, 1>>
                                ELSE IF a[1] = w /\ a[2] # 0 THEN <<w, a[2] + 1>> ELSE a]
<1>0. w # NoWorker /\ top \in Spot
  BY WalkAssumption DEF Spot
<1>1. m \in [Spot -> Spot]
  BY DEF Spot
<1>2. \A a \in Spot : T[a] # <<>> => T[a] = S[m[a]]
  <2> TAKE a \in Spot
  <2>1. CASE a = top
    BY <1>0, <2>1
  <2>2. CASE a[1] = w /\ a[2] # 0
    <3>1. a = <<w, a[2]>> /\ a[2] \in Nat /\ a # top
      BY <1>0, <2>2 DEF Spot
    <3>2. T[a] = S[<<w, a[2] + 1>>]
      BY <2>2, <3>1
    <3> QED BY <2>2, <3>1, <3>2
  <2>3. CASE a # top /\ (a[1] # w \/ a[2] = 0)
    BY <2>3
  <2> QED BY <2>1, <2>2, <2>3
<1>3. ASSUME NEW a \in Spot, NEW b \in Spot, T[a] # <<>>, T[b] # <<>>, m[a] = m[b]
      PROVE  a = b
  <2>1. PICK x \in Worker \cup {NoWorker}, i \in Nat : a = <<x, i>>
    BY SpotIs
  <2>2. PICK y \in Worker \cup {NoWorker}, j \in Nat : b = <<y, j>>
    BY SpotIs
  <2>3. /\ m[a] = IF x = NoWorker /\ i = k THEN <<w, 1>>
                  ELSE IF x = w /\ i # 0 THEN <<w, i + 1>> ELSE <<x, i>>
        /\ m[b] = IF y = NoWorker /\ j = k THEN <<w, 1>>
                  ELSE IF y = w /\ j # 0 THEN <<w, j + 1>> ELSE <<y, j>>
    BY <2>1, <2>2
  <2> HIDE DEF m
  <2> QED BY <1>0, <1>3, <2>1, <2>2, <2>3
<1>4. ASSUME NEW a \in Spot, S[a] # <<>>
      PROVE  \E b \in Spot : T[b] = S[a]
  <2>1. PICK x \in Worker \cup {NoWorker}, i \in Nat : a = <<x, i>>
    BY SpotIs
  <2>2. CASE x = w /\ i = 1
    BY <1>0, <2>1, <2>2
  <2>3. CASE x = w /\ i \notin {0, 1}
    <3>1. i - 1 \in Nat /\ i - 1 # 0 /\ (i - 1) + 1 = i
      BY <2>3
    <3>2. <<w, i - 1>> \in Spot /\ T[<<w, i - 1>>] = S[<<w, i>>]
      <4>1. T[<<w, i - 1>>] = S[<<w, (i - 1) + 1>>]
        BY <3>1
      <4> QED BY <3>1, <4>1 DEF Spot
    <3> QED BY <2>1, <2>3, <3>2
  <2>4. CASE x # w \/ i = 0
    <3>1. a # top
      BY <1>4
    <3>2. T[a] = S[a]
      BY <2>1, <2>4, <3>1
    <3> QED BY <3>2
  <2> QED BY <2>2, <2>3, <2>4
<1>5. Carried(S, T, m)
  <2> HIDE DEF m
  <2> QED BY <1>1, <1>2, <1>3, <1>4 DEF Carried
<1> QED BY <1>5, CarriedOnce

\* S says what is left of the job at each spot: in a hand, on the shared stack
\* or on a worker's own.
Laid(S, shared, own, hand) ==
  /\ S \in [Spot -> Seq(Entry)]
  /\ S[<<NoWorker, 0>>] = <<>>
  /\ \A w \in Worker : S[<<w, 0>>] = hand[w].rest
  /\ \A i \in Nat \ {0} :
       S[<<NoWorker, i>>] = IF i <= Len(shared) THEN shared[i].rest ELSE <<>>
  /\ \A w \in Worker, i \in Nat \ {0} :
       S[<<w, i>>] = IF i <= Len(own[w]) THEN own[w][i].rest ELSE <<>>

\* What lies at a spot.
LEMMA RestsAre ==
  TypeOK => Laid(Rests, jobs, local, current)
<1> SUFFICES ASSUME TypeOK
             PROVE  Laid(Rests, jobs, local, current)
  OBVIOUS
<1>0. /\ jobs \in Seq(Job) /\ local \in [Worker -> Seq(Job)] /\ current \in [Worker -> Job]
      /\ NoWorker \notin Worker
  BY WalkAssumption DEF TypeOK
<1>1. \A x \in Worker \cup {NoWorker} : Stack(x) \in Seq(Job)
  BY <1>0 DEF Stack
<1>2. \A x \in Worker \cup {NoWorker}, i \in Nat :
        <<x, i>> \in Spot /\ Rests[<<x, i>>] =
          IF i = 0 THEN IF x = NoWorker THEN <<>> ELSE current[x].rest
          ELSE IF i \in 1 .. Len(Stack(x)) THEN Stack(x)[i].rest ELSE <<>>
  BY DEF Rests, Spot
<1>3. \A x \in Worker \cup {NoWorker}, i \in Nat : Rests[<<x, i>>] \in Seq(Entry)
  <2> TAKE x \in Worker \cup {NoWorker}, i \in Nat
  <2>1. <<>> \in Seq(Entry)
    OBVIOUS
  <2>2. i \in 1 .. Len(Stack(x)) => Stack(x)[i].rest \in Seq(Entry)
    <3>1. \A j \in Job : j.rest \in Seq(Entry)
      BY DEF Job
    <3>2. ASSUME NEW q \in Seq(Job), NEW k \in 1 .. Len(q)
          PROVE  q[k] \in Job
      OBVIOUS
    <3> QED BY <1>1, <3>1, <3>2
  <2>3. x \in Worker => current[x].rest \in Seq(Entry)
    BY <1>0 DEF Job
  <2> QED BY <1>2, <2>1, <2>2, <2>3
<1>4. Rests \in [Spot -> Seq(Entry)]
  <2>1. \A a \in Spot : Rests[a] \in Seq(Entry)
    BY <1>3 DEF Spot
  <2>2. Rests = [a \in Spot |-> Rests[a]]
    BY DEF Rests
  <2> HIDE DEF Rests
  <2> QED BY <2>1, <2>2
<1>5. \A i \in Nat \ {0} :
        Rests[<<NoWorker, i>>] = IF i <= Len(jobs) THEN jobs[i].rest ELSE <<>>
  <2> TAKE i \in Nat \ {0}
  <2>1. Stack(NoWorker) = jobs /\ Len(jobs) \in Nat
    BY <1>0 DEF Stack
  <2> QED BY <1>2, <2>1
<1>6. \A w \in Worker, i \in Nat \ {0} :
        Rests[<<w, i>>] = IF i <= Len(local[w]) THEN local[w][i].rest ELSE <<>>
  <2> TAKE w \in Worker, i \in Nat \ {0}
  <2>1. Stack(w) = local[w] /\ Len(local[w]) \in Nat
    BY <1>0 DEF Stack
  <2> QED BY <1>2, <2>1
<1> QED BY <1>0, <1>2, <1>4, <1>5, <1>6 DEF Laid

\* What process hands to the visitor is counted for the entries it hands.
LEMMA ConsiderHands ==
  ASSUME TypeOK, considered' \in [Entry -> Nat], Exclusive(Rests, considered),
         NEW w \in Worker, NEW n \in 0 .. Len(current[w].rest),
         Consider(current[w].rest, n), \A e \in Entry : considered[e] <= 1
  PROVE  /\ Handed(Rests, considered, considered', <<w, 0>>, n)
         /\ \A e \in Entry : considered'[e] <= 1
<1> DEFINE h == <<w, 0>>
           s == current[w].rest
<1>1. h \in Spot /\ Rests \in [Spot -> Seq(Entry)] /\ Rests[h] = s /\ s \in Seq(Entry)
  <2>1. Laid(Rests, jobs, local, current) /\ h \in Spot
    BY RestsAre DEF Spot
  <2> QED BY <2>1 DEF Laid
<1>2. \A i, k \in 1 .. Len(s) : s[i] = s[k] => i = k
  BY <1>1 DEF Exclusive, Apart
<1> HIDE DEF h
<1>3. \A e \in Entry : considered'[e] = considered[e] + Cardinality({i \in 1 .. n : s[i] = e})
  BY DEF Consider
<1>4. considered \in [Entry -> Nat]
  BY DEF TypeOK
<1>5. ASSUME NEW e \in Entry
      PROVE  considered'[e] = IF Among(s, n, e) THEN considered[e] + 1 ELSE considered[e]
  <2> HIDE DEF s
  <2>1. Cardinality({i \in 1 .. n : s[i] = e}) = IF \E i \in 1 .. n : s[i] = e THEN 1 ELSE 0
    BY <1>1, <1>2, CountedOnce DEF s
  <2> QED BY <1>3, <1>4, <1>5, <2>1 DEF Among
<1>6. Handed(Rests, considered, considered', h, n)
  BY <1>1, <1>4, <1>5 DEF Handed
<1>7. \A e \in Entry : considered'[e] <= 1
  <2> TAKE e \in Entry
  <2>1. considered'[e] = 1 \/ considered'[e] = considered[e]
    BY <1>6, HandedFacts
  <2> QED BY <2>1
<1> QED BY <1>6, <1>7 DEF h

\* A step of w changes what lies in its hand, on its stack and on the shared
\* stack, and only where it changes those.
LEMMA Untouched ==
  ASSUME WalkInv, WalkInv', NEW w \in Worker, AnyStep(w)
  PROVE  /\ Laid(Rests, jobs, local, current) /\ Laid(Rests', jobs', local', current')
         /\ \A v \in Worker \ {w}, i \in Nat : Rests'[<<v, i>>] = Rests[<<v, i>>]
         /\ jobs' = jobs => \A i \in Nat : Rests'[<<NoWorker, i>>] = Rests[<<NoWorker, i>>]
         /\ local'[w] = local[w] =>
              \A i \in Nat : i # 0 => Rests'[<<w, i>>] = Rests[<<w, i>>]
         /\ current'[w] = current[w] => Rests'[<<w, 0>>] = Rests[<<w, 0>>]
         /\ w # NoWorker
<1>1. Laid(Rests, jobs, local, current)
  BY RestsAre DEF WalkInv
<1>2. Laid(Rests, jobs, local, current)'
  <2>1. TypeOK' => Laid(Rests, jobs, local, current)'
    BY RestsAre, PTL
  <2> QED BY <2>1 DEF WalkInv
<1>3. Laid(Rests', jobs', local', current')
  BY <1>2 DEF Laid
<1>4. \A v \in Worker \ {w} : current'[v] = current[v] /\ local'[v] = local[v]
  BY OthersStill DEF WalkInv
<1> DEFINE S == Rests
           T == Rests'
<1> HIDE DEF S, T
<1>5. Laid(S, jobs, local, current) /\ Laid(T, jobs', local', current')
  BY <1>1, <1>3 DEF S, T
<1>6. ASSUME NEW v \in Worker \ {w}, NEW i \in Nat
      PROVE  T[<<v, i>>] = S[<<v, i>>]
  <2>1. CASE i = 0
    BY <1>4, <1>5, <2>1 DEF Laid
  <2>2. CASE i # 0
    <3>1. T[<<v, i>>] = IF i <= Len(local'[v]) THEN local'[v][i].rest ELSE <<>>
      BY <1>5, <2>2 DEF Laid
    <3>2. S[<<v, i>>] = IF i <= Len(local[v]) THEN local[v][i].rest ELSE <<>>
      BY <1>5, <2>2 DEF Laid
    <3> QED BY <1>4, <3>1, <3>2
  <2> QED BY <2>1, <2>2
<1>7. ASSUME jobs' = jobs, NEW i \in Nat
      PROVE  T[<<NoWorker, i>>] = S[<<NoWorker, i>>]
  <2>1. CASE i = 0
    BY <1>5, <2>1 DEF Laid
  <2>2. CASE i # 0
    BY <1>5, <1>7, <2>2 DEF Laid
  <2> QED BY <2>1, <2>2
<1>8. ASSUME local'[w] = local[w], NEW i \in Nat, i # 0
      PROVE  T[<<w, i>>] = S[<<w, i>>]
  <2>1. T[<<w, i>>] = IF i <= Len(local'[w]) THEN local'[w][i].rest ELSE <<>>
    BY <1>5, <1>8 DEF Laid
  <2>2. S[<<w, i>>] = IF i <= Len(local[w]) THEN local[w][i].rest ELSE <<>>
    BY <1>5, <1>8 DEF Laid
  <2> QED BY <1>8, <2>1, <2>2
<1>9. current'[w] = current[w] => T[<<w, 0>>] = S[<<w, 0>>]
  BY <1>5 DEF Laid
<1>10. w # NoWorker
  BY WalkAssumption
<1> QED BY <1>1, <1>3, <1>6, <1>7, <1>8, <1>9, <1>10 DEF S, T

\* take: the newest shared job comes into the worker's hand.
LEMMA TakeJobOnce ==
  ASSUME WalkInv, WalkInv', NEW w \in Worker, TakeJob(w), NEW c
  PROVE  /\ Exclusive(Rests, c) => Exclusive(Rests', c)
         /\ Complete(Rests, c) => Complete(Rests', c)
<1> DEFINE S == Rests
           T == Rests'
           from == <<NoWorker, Len(jobs)>>
           to == <<w, 0>>
<1>0. AnyStep(w)
  BY DEF AnyStep, Step
<1>1. /\ Laid(S, jobs, local, current) /\ Laid(T, jobs', local', current')
      /\ \A v \in Worker \ {w}, i \in Nat : T[<<v, i>>] = S[<<v, i>>]
      /\ local'[w] = local[w] => \A i \in Nat : i # 0 => T[<<w, i>>] = S[<<w, i>>]
      /\ w # NoWorker
  BY <1>0, Untouched
<1> HIDE DEF S, T
<1>2. /\ at[w] = "take" /\ jobs # <<>> /\ jobs \in Seq(Job) /\ local' = local
      /\ current'[w] = jobs[Len(jobs)] /\ current[w] = NoJob
      /\ jobs' = SubSeq(jobs, 1, Len(jobs) - 1)
  BY StackFacts DEF TakeJob, Holds
<1>3. /\ Len(jobs) \in Nat \ {0} /\ Len(jobs') = Len(jobs) - 1
      /\ \A i \in 1 .. Len(jobs) - 1 : jobs'[i] = jobs[i]
  BY <1>2, OpenFront
<1>4. S[to] = <<>> /\ T[to] = jobs[Len(jobs)].rest
  BY <1>1, <1>2 DEF Laid, NoJob
<1>5. S[from] = jobs[Len(jobs)].rest /\ T[from] = <<>>
  BY <1>1, <1>3 DEF Laid
<1>6. ASSUME NEW i \in Nat, i # Len(jobs)
      PROVE  T[<<NoWorker, i>>] = S[<<NoWorker, i>>]
  <2>1. CASE i = 0
    BY <1>1, <2>1 DEF Laid
  <2>2. CASE i # 0
    <3>1. T[<<NoWorker, i>>] = IF i <= Len(jobs) - 1 THEN jobs'[i].rest ELSE <<>>
      BY <1>1, <1>3, <2>2 DEF Laid
    <3>2. S[<<NoWorker, i>>] = IF i <= Len(jobs) THEN jobs[i].rest ELSE <<>>
      BY <1>1, <2>2 DEF Laid
    <3> QED BY <1>3, <1>6, <2>2, <3>1, <3>2
  <2> QED BY <2>1, <2>2
<1>7. from \in Spot /\ to \in Spot /\ from # to
  BY <1>1, <1>3 DEF Spot
<1>8. ASSUME NEW a \in Spot, a # from, a # to
      PROVE  T[a] = S[a]
  <2>1. PICK x \in Worker \cup {NoWorker}, i \in Nat : a = <<x, i>>
    BY SpotIs
  <2>2. CASE x = NoWorker
    BY <1>6, <1>8, <2>1, <2>2
  <2>3. CASE x = w
    BY <1>1, <1>2, <1>8, <2>1, <2>3
  <2>4. CASE x \in Worker \ {w}
    BY <1>1, <2>1, <2>4
  <2> QED BY <2>2, <2>3, <2>4
<1>9. S \in [Spot -> Seq(Entry)] /\ T \in [Spot -> Seq(Entry)]
  BY <1>1 DEF Laid
<1> HIDE DEF from, to
<1>10. /\ Exclusive(S, c) => Exclusive(T, c)
       /\ Complete(S, c) => Complete(T, c)
  BY <1>4, <1>5, <1>7, <1>8, <1>9, RelocatedOnce
<1> QED BY <1>10 DEF S, T

\* The newest of the worker's own jobs comes into its hand.
LEMMA NextLocalOnce ==
  ASSUME WalkInv, WalkInv', NEW w \in Worker, NextLocal(w), NEW c
  PROVE  /\ Exclusive(Rests, c) => Exclusive(Rests', c)
         /\ Complete(Rests, c) => Complete(Rests', c)
<1> DEFINE S == Rests
           T == Rests'
           q == local[w]
           from == <<w, Len(q)>>
           to == <<w, 0>>
<1>0. AnyStep(w)
  BY DEF AnyStep, Step
<1>1. /\ Laid(S, jobs, local, current) /\ Laid(T, jobs', local', current')
      /\ \A v \in Worker \ {w}, i \in Nat : T[<<v, i>>] = S[<<v, i>>]
      /\ jobs' = jobs => \A i \in Nat : T[<<NoWorker, i>>] = S[<<NoWorker, i>>]
      /\ w # NoWorker
  BY <1>0, Untouched
<1> HIDE DEF S, T
<1>2. /\ at[w] = "next" /\ q # <<>> /\ q \in Seq(Job) /\ jobs' = jobs
      /\ current'[w] = q[Len(q)] /\ current[w] = NoJob
      /\ local'[w] = SubSeq(q, 1, Len(q) - 1)
  BY StackFacts DEF NextLocal, Holds
<1>3. /\ Len(q) \in Nat \ {0} /\ Len(local'[w]) = Len(q) - 1
      /\ \A i \in 1 .. Len(q) - 1 : local'[w][i] = q[i]
  BY <1>2, OpenFront
<1>4. S[to] = <<>> /\ T[to] = q[Len(q)].rest
  BY <1>1, <1>2 DEF Laid, NoJob
<1>5. S[from] = q[Len(q)].rest /\ T[from] = <<>>
  BY <1>1, <1>3 DEF Laid
<1>6. ASSUME NEW i \in Nat, i # Len(q), i # 0
      PROVE  T[<<w, i>>] = S[<<w, i>>]
  <2>1. T[<<w, i>>] = IF i <= Len(q) - 1 THEN local'[w][i].rest ELSE <<>>
    BY <1>1, <1>3, <1>6 DEF Laid
  <2>2. S[<<w, i>>] = IF i <= Len(q) THEN q[i].rest ELSE <<>>
    BY <1>1, <1>6 DEF Laid
  <2> QED BY <1>3, <1>6, <2>1, <2>2
<1>7. from \in Spot /\ to \in Spot /\ from # to
  BY <1>1, <1>3 DEF Spot
<1>8. ASSUME NEW a \in Spot, a # from, a # to
      PROVE  T[a] = S[a]
  <2>1. PICK x \in Worker \cup {NoWorker}, i \in Nat : a = <<x, i>>
    BY SpotIs
  <2>2. CASE x = NoWorker
    BY <1>1, <1>2, <2>1, <2>2
  <2>3. CASE x = w
    BY <1>6, <1>8, <2>1, <2>3
  <2>4. CASE x \in Worker \ {w}
    BY <1>1, <2>1, <2>4
  <2> QED BY <2>2, <2>3, <2>4
<1>9. S \in [Spot -> Seq(Entry)] /\ T \in [Spot -> Seq(Entry)]
  BY <1>1 DEF Laid
<1> HIDE DEF from, to
<1>10. /\ Exclusive(S, c) => Exclusive(T, c)
       /\ Complete(S, c) => Complete(T, c)
  BY <1>4, <1>5, <1>7, <1>8, <1>9, RelocatedOnce
<1> QED BY <1>10 DEF S, T

\* share_oldest: the worker's oldest job goes on top of the shared stack.
LEMMA SharePushOnce ==
  ASSUME WalkInv, WalkInv', NEW w \in Worker, SharePush(w), NEW c
  PROVE  /\ Exclusive(Rests, c) => Exclusive(Rests', c)
         /\ Complete(Rests, c) => Complete(Rests', c)
<1> DEFINE S == Rests
           T == Rests'
           q == local[w]
           k == Len(jobs) + 1
<1>0. AnyStep(w)
  BY DEF AnyStep, Step
<1>1. /\ Laid(S, jobs, local, current) /\ Laid(T, jobs', local', current')
      /\ \A v \in Worker \ {w}, i \in Nat : T[<<v, i>>] = S[<<v, i>>]
      /\ current'[w] = current[w] => T[<<w, 0>>] = S[<<w, 0>>]
      /\ w # NoWorker
  BY <1>0, Untouched
<1> HIDE DEF S, T
<1>2. /\ at[w] = "push" /\ q # <<>> /\ q \in Seq(Job) /\ jobs \in Seq(Job)
      /\ jobs' = Append(jobs, Head(q)) /\ local'[w] = Tail(q) /\ current' = current
  BY StackFacts DEF SharePush, Holds
<1>3. /\ Head(q) \in Job /\ Head(q) = q[1] /\ Len(q) \in Nat \ {0}
      /\ Len(local'[w]) = Len(q) - 1 /\ \A i \in 1 .. Len(local'[w]) : local'[w][i] = q[i + 1]
  BY <1>2, OpenTail
<1>4. /\ Len(jobs) \in Nat /\ Len(jobs') = k /\ jobs'[k] = q[1]
      /\ \A i \in 1 .. Len(jobs) : jobs'[i] = jobs[i]
  BY <1>2, <1>3, AppendProperties
<1>5. S[<<NoWorker, k>>] = <<>> /\ T[<<NoWorker, k>>] = q[1].rest
  BY <1>1, <1>4 DEF Laid
<1>6. S[<<w, 1>>] = q[1].rest
  BY <1>1, <1>3 DEF Laid
<1>7. ASSUME NEW i \in Nat, i # 0
      PROVE  T[<<w, i>>] = S[<<w, i + 1>>]
  <2>1. T[<<w, i>>] = IF i <= Len(q) - 1 THEN local'[w][i].rest ELSE <<>>
    BY <1>1, <1>3, <1>7 DEF Laid
  <2>2. i + 1 \in Nat \ {0} /\ (i + 1 <= Len(q) <=> i <= Len(q) - 1)
    BY <1>3
  <2>3. S[<<w, i + 1>>] = IF i + 1 <= Len(q) THEN q[i + 1].rest ELSE <<>>
    BY <1>1, <2>2 DEF Laid
  <2> QED BY <1>3, <1>7, <2>1, <2>2, <2>3
<1>8. ASSUME NEW i \in Nat, i # k
      PROVE  T[<<NoWorker, i>>] = S[<<NoWorker, i>>]
  <2>1. CASE i = 0
    BY <1>1, <2>1 DEF Laid
  <2>2. CASE i # 0
    <3>1. T[<<NoWorker, i>>] = IF i <= k THEN jobs'[i].rest ELSE <<>>
      BY <1>1, <1>4, <2>2 DEF Laid
    <3>2. S[<<NoWorker, i>>] = IF i <= Len(jobs) THEN jobs[i].rest ELSE <<>>
      BY <1>1, <2>2 DEF Laid
    <3> QED BY <1>4, <1>8, <2>2, <3>1, <3>2
  <2> QED BY <2>1, <2>2
<1>9. ASSUME NEW a \in Spot, a # <<NoWorker, k>>, a[1] # w \/ a[2] = 0
      PROVE  T[a] = S[a]
  <2>1. PICK x \in Worker \cup {NoWorker}, i \in Nat : a = <<x, i>>
    BY SpotIs
  <2>2. CASE x = NoWorker
    BY <1>8, <1>9, <2>1, <2>2
  <2>3. CASE x = w
    BY <1>1, <1>2, <1>9, <2>1, <2>3
  <2>4. CASE x \in Worker \ {w}
    BY <1>1, <2>1, <2>4
  <2> QED BY <2>2, <2>3, <2>4
<1>10. S \in [Spot -> Seq(Entry)] /\ T \in [Spot -> Seq(Entry)] /\ k \in Nat /\ k # 0
  BY <1>1, <1>4 DEF Laid
<1> HIDE DEF k
<1>11. /\ Exclusive(S, c) => Exclusive(T, c)
       /\ Complete(S, c) => Complete(T, c)
  <2>1. T[<<NoWorker, k>>] = S[<<w, 1>>]
    BY <1>5, <1>6
  <2>2. S[<<NoWorker, k>>] = <<>>
    BY <1>5
  <2>3. \A i \in Nat : i # 0 => T[<<w, i>>] = S[<<w, i + 1>>]
    BY <1>7
  <2>4. \A a \in Spot : a # <<NoWorker, k>> /\ (a[1] # w \/ a[2] = 0) => T[a] = S[a]
    BY <1>9
  <2>5. Shares(S, T, w, k)
    BY <2>1, <2>2, <2>3, <2>4 DEF Shares
  <2> QED BY <1>10, <2>5, SharedOnce
<1> QED BY <1>11 DEF S, T

\* process comes to a directory: its listing is the job in hand, and what is
\* left of its parent goes on top of the worker's own stack.
LEMMA DescendOnce ==
  ASSUME WalkInv, WalkInv', NEW w \in Worker, Descend(w),
         Exclusive(Rests, considered), \A e \in Entry : considered[e] <= 1
  PROVE  /\ \A e \in Entry : considered'[e] <= 1
         /\ Exclusive(Rests', considered')
         /\ Complete(Rests, considered) => Complete(Rests', considered')
<1> DEFINE S == Rests
           T == Rests'
           q == local[w]
           rest == current[w].rest
           n == Reach(rest)
           d == rest[n]
           left == SubSeq(rest, n + 1, Len(rest))
           h == <<w, 0>>
           p == <<w, Len(q) + 1>>
<1>0. AnyStep(w)
  BY DEF AnyStep, Step
<1>1. /\ Laid(S, jobs, local, current) /\ Laid(T, jobs', local', current')
      /\ \A v \in Worker \ {w}, i \in Nat : T[<<v, i>>] = S[<<v, i>>]
      /\ jobs' = jobs => \A i \in Nat : T[<<NoWorker, i>>] = S[<<NoWorker, i>>]
      /\ local'[w] = local[w] => \A i \in Nat : i # 0 => T[<<w, i>>] = S[<<w, i>>]
      /\ w # NoWorker
  BY <1>0, Untouched
<1>2. /\ q \in Seq(Job) /\ rest \in Seq(Entry) /\ considered' \in [Entry -> Nat]
      /\ current \in [Worker -> Job] /\ local \in [Worker -> Seq(Job)] /\ TypeOK
  BY <1>0, StackFacts, DataStep DEF Job, WalkInv
<1>3. n \in 0 .. Len(rest) /\ \A i \in 1 .. Len(rest) : i < n => ~Directory(rest[i])
  BY <1>2, ReachType
<1>4. /\ n > 0 /\ d \in DOMAIN Listing /\ Consider(rest, n) /\ jobs' = jobs
      /\ current' = [current EXCEPT ![w] = JobOf(d)]
      /\ \/ left # <<>> /\ Kept(w, [rest |-> left, fd |-> TRUE])
         \/ left = <<>> /\ local' = local
  BY DEF Descend, Directory
<1>5. /\ Handed(S, considered, considered', h, n)
      /\ \A e \in Entry : considered'[e] <= 1
  BY <1>2, <1>3, <1>4, ConsiderHands
<1> HIDE DEF S, T, n
<1>6. S[h] = rest /\ T[h] = Listing[d]
  BY <1>1, <1>2, <1>4 DEF Laid, JobOf
<1> HIDE DEF rest, d
<1>7. Len(q) \in Nat /\ S[p] = <<>> /\ h \in Spot /\ p \in Spot /\ p # h
  BY <1>1, <1>2 DEF Laid, Spot
<1>8. /\ T[p] = left
      /\ \A i \in Nat : i # 0 /\ i # Len(q) + 1 => T[<<w, i>>] = S[<<w, i>>]
  <2>1. CASE left = <<>> /\ local' = local
    <3>1. \A i \in Nat : i # 0 => T[<<w, i>>] = S[<<w, i>>]
      BY <1>1, <2>1
    <3>2. Len(q) + 1 \in Nat /\ Len(q) + 1 # 0
      BY <1>7
    <3>3. T[p] = S[p]
      BY <3>1, <3>2
    <3> QED BY <1>7, <2>1, <3>1, <3>3
  <2>2. CASE left # <<>> /\ Kept(w, [rest |-> left, fd |-> TRUE])
    <3>1. PICK f \in BOOLEAN : local' = [local EXCEPT ![w] = Append(q, [rest |-> left, fd |-> f])]
      <4> DEFINE fits == open < MaxOpen
                 parent == [rest |-> left, fd |-> TRUE]
      <4>1. local' = [local EXCEPT ![w] = Append(q, [parent EXCEPT !.fd = fits])]
        BY <2>2 DEF Kept
      <4>2. fits \in BOOLEAN
        OBVIOUS
      <4> HIDE DEF fits, left
      <4>3. [parent EXCEPT !.fd = fits] = [rest |-> left, fd |-> fits]
        OBVIOUS
      <4> HIDE DEF parent
      <4> QED BY <4>1, <4>2, <4>3
    <3>2. local'[w] = Append(q, [rest |-> left, fd |-> f])
      BY <1>2, <3>1
    <3>3. /\ Len(local'[w]) = Len(q) + 1
          /\ local'[w][Len(q) + 1] = [rest |-> left, fd |-> f]
          /\ \A i \in 1 .. Len(q) : local'[w][i] = q[i]
      <4> HIDE DEF q, left
      <4> QED BY <1>2, <3>2
    <3>4. T[p] = left
      <4>1. Len(q) + 1 \in Nat \ {0} /\ Len(q) + 1 <= Len(local'[w])
        BY <1>7, <3>3
      <4>2. T[p] = IF Len(q) + 1 <= Len(local'[w]) THEN local'[w][Len(q) + 1].rest ELSE <<>>
        BY <1>1, <4>1 DEF Laid
      <4>3. local'[w][Len(q) + 1].rest = left
        <5> HIDE DEF left
        <5> QED BY <3>3
      <4> HIDE DEF p, left, q
      <4> QED BY <4>1, <4>2, <4>3
    <3>5. ASSUME NEW i \in Nat, i # 0, i # Len(q) + 1
          PROVE  T[<<w, i>>] = S[<<w, i>>]
      <4>1. T[<<w, i>>] = IF i <= Len(q) + 1 THEN local'[w][i].rest ELSE <<>>
        BY <1>1, <3>3, <3>5 DEF Laid
      <4>2. S[<<w, i>>] = IF i <= Len(q) THEN q[i].rest ELSE <<>>
        BY <1>1, <3>5 DEF Laid
      <4> QED BY <1>7, <3>3, <3>5, <4>1, <4>2
    <3> QED BY <3>4, <3>5
  <2> QED BY <1>4, <2>1, <2>2
<1>9. ASSUME NEW a \in Spot, a # h, a # p
      PROVE  T[a] = S[a]
  <2>1. PICK x \in Worker \cup {NoWorker}, i \in Nat : a = <<x, i>>
    BY SpotIs
  <2>2. CASE x = NoWorker
    BY <1>1, <1>4, <2>1, <2>2
  <2>3. CASE x = w
    BY <1>8, <1>9, <2>1, <2>3
  <2>4. CASE x \in Worker \ {w}
    BY <1>1, <2>1, <2>4
  <2> QED BY <2>2, <2>3, <2>4
<1>10. d = S[h][n] /\ T \in [Spot -> Seq(Entry)]
  BY <1>1, <1>6 DEF Laid, d
<1>11. Enters(S, T, h, p, n, d)
  <2> HIDE DEF h, p
  <2>1. left = SubSeq(S[h], n + 1, Len(S[h]))
    BY <1>6
  <2> HIDE DEF left
  <2> QED BY <1>3, <1>4, <1>6, <1>7, <1>8, <1>9, <1>10, <2>1 DEF Enters
<1>12. /\ Exclusive(T, considered')
       /\ Complete(S, considered) => Complete(T, considered')
  BY <1>5, <1>11, EnteredOnce DEF S
<1> QED BY <1>5, <1>12 DEF S, T

\* process comes to the end, or the directory cannot be read again.
LEMMA EndedOnce ==
  ASSUME WalkInv, WalkInv', NEW w \in Worker, Exhaust(w) \/ ReopenFail(w),
         Exclusive(Rests, considered), \A e \in Entry : considered[e] <= 1
  PROVE  /\ \A e \in Entry : considered'[e] <= 1
         /\ Exclusive(Rests', considered')
         /\ faults' = 0 /\ Complete(Rests, considered) => Complete(Rests', considered')
<1> DEFINE S == Rests
           T == Rests'
           rest == current[w].rest
           h == <<w, 0>>
<1>0. AnyStep(w)
  BY DEF AnyStep, Step
<1>1. /\ Laid(S, jobs, local, current) /\ Laid(T, jobs', local', current')
      /\ \A v \in Worker \ {w}, i \in Nat : T[<<v, i>>] = S[<<v, i>>]
      /\ jobs' = jobs => \A i \in Nat : T[<<NoWorker, i>>] = S[<<NoWorker, i>>]
      /\ local'[w] = local[w] => \A i \in Nat : i # 0 => T[<<w, i>>] = S[<<w, i>>]
      /\ w # NoWorker
  BY <1>0, Untouched
<1>2. /\ rest \in Seq(Entry) /\ considered' \in [Entry -> Nat]
      /\ current \in [Worker -> Job] /\ TypeOK
  BY <1>0, StackFacts, DataStep DEF Job, WalkInv
<1>3. jobs' = jobs /\ local' = local /\ current' = [current EXCEPT ![w] = NoJob]
  BY DEF Exhaust, ReopenFail
<1> HIDE DEF S, T
<1>4. S[h] = rest /\ T[h] = <<>> /\ h \in Spot
  BY <1>1, <1>2, <1>3 DEF Laid, NoJob, Spot
<1>5. ASSUME NEW a \in Spot, a # h
      PROVE  T[a] = S[a]
  <2>1. PICK x \in Worker \cup {NoWorker}, i \in Nat : a = <<x, i>>
    BY SpotIs
  <2>2. CASE x = NoWorker
    BY <1>1, <1>3, <2>1, <2>2
  <2>3. CASE x = w
    BY <1>1, <1>3, <1>5, <2>1, <2>3
  <2>4. CASE x \in Worker \ {w}
    BY <1>1, <2>1, <2>4
  <2> QED BY <2>2, <2>3, <2>4
<1>6. CASE Exhaust(w)
  <2>1. /\ \A i \in 1 .. Len(rest) : ~Directory(rest[i])
        /\ Consider(rest, Len(rest)) /\ faults' = faults
    BY <1>6 DEF Exhaust
  <2>2. Len(rest) \in 0 .. Len(rest)
    BY <1>2
  <2>3. /\ Handed(S, considered, considered', h, Len(S[h]))
        /\ \A e \in Entry : considered'[e] <= 1
    BY <1>2, <1>4, <2>1, <2>2, ConsiderHands DEF S
  <2> HIDE DEF h, rest
  <2>4. /\ Exclusive(T, considered')
        /\ Complete(S, considered) => Complete(T, considered')
    BY <1>4, <1>5, <2>1, <2>3, ExhaustedOnce DEF S
  <2> QED BY <2>3, <2>4 DEF S, T
<1>7. CASE ReopenFail(w)
  <2>1. considered' = considered /\ faults' = faults + 1
    BY <1>7 DEF ReopenFail
  <2>2. faults' # 0
    BY <1>2, <2>1 DEF TypeOK
  <2>3. Exclusive(T, considered)
    BY <1>4, <1>5, DroppedOnce DEF S
  <2> QED BY <2>1, <2>2, <2>3 DEF S, T
<1> QED BY <1>6, <1>7

\* Every step of a worker keeps it.
LEMMA OnceStep ==
  ASSUME WalkInv, WalkInv', OnceInv, NEW w \in Worker, AnyStep(w)
  PROVE  OnceInv'
<1>0. /\ \A e \in Entry : considered[e] <= 1
      /\ ~cancelled => Exclusive(Rests, considered)
      /\ ~cancelled /\ faults = 0 => Complete(Rests, considered)
      /\ faults \in Nat
  BY DEF OnceInv, WalkInv, TypeOK
<1>1. CASE Bare(w)
  <2>1. UNCHANGED <<jobs, cancelled, local, current, considered, faults>>
    BY <1>1, BareStill
  <2>2. Rests' = Rests
    BY <2>1 DEF Rests, Stack
  <2> QED BY <1>0, <2>1, <2>2 DEF OnceInv, Exclusive, Complete, Apart, Waits
<1>2. CASE TakeJob(w) \/ NextLocal(w) \/ SharePush(w)
  <2>1. UNCHANGED <<cancelled, considered, faults>>
    BY <1>2 DEF TakeJob, NextLocal, SharePush
  <2>2. /\ Exclusive(Rests, considered) => Exclusive(Rests', considered)
        /\ Complete(Rests, considered) => Complete(Rests', considered)
    BY <1>2, TakeJobOnce, NextLocalOnce, SharePushOnce
  <2>3. /\ ~cancelled => Exclusive(Rests', considered')
        /\ ~cancelled /\ faults = 0 => Complete(Rests', considered')
    BY <1>0, <2>1, <2>2
  <2> QED BY <1>0, <2>1, <2>3 DEF OnceInv, Exclusive, Complete, Apart, Waits
<1>3. CASE Descend(w) \/ Exhaust(w) \/ ReopenFail(w)
  <2>1. /\ ~cancelled /\ cancelled' = cancelled
        /\ faults' = faults \/ faults' = faults + 1
    BY <1>3 DEF Descend, Exhaust, ReopenFail
  <2>2. faults' = 0 => faults = 0
    BY <1>0, <2>1
  <2>3. /\ \A e \in Entry : considered'[e] <= 1
        /\ Exclusive(Rests', considered')
        /\ faults' = 0 /\ Complete(Rests, considered) => Complete(Rests', considered')
    BY <1>0, <1>3, <2>1, DescendOnce, EndedOnce
  <2> QED BY <1>0, <2>1, <2>2, <2>3 DEF OnceInv, Exclusive, Complete, Apart, Waits
<1>4. CASE Panic(w)
  <2>1. cancelled' /\ ~cancelled
    BY <1>4 DEF Panic
  <2>2. PICK n \in 1 .. Reach(current[w].rest) : Consider(current[w].rest, n)
    BY <1>4 DEF Panic
  <2>3. /\ current[w].rest \in Seq(Entry) /\ TypeOK
    BY StackFacts DEF Job, WalkInv
  <2>4. considered' \in [Entry -> Nat]
    BY DataStep
  <2>5. n \in 0 .. Len(current[w].rest)
    BY <2>2, <2>3, ReachType
  <2>6. \A e \in Entry : considered'[e] <= 1
    BY <1>0, <2>1, <2>2, <2>3, <2>4, <2>5, ConsiderHands
  <2> QED BY <2>1, <2>6 DEF OnceInv
<1> QED BY <1>1, <1>2, <1>3, <1>4 DEF AnyStep, Step, Bare

\* At first the root's listing waits, and nothing else.
LEMMA OnceInit ==
  Init => OnceInv
<1> SUFFICES ASSUME Init
             PROVE  OnceInv
  OBVIOUS
<1> DEFINE S == Rests
           h == <<NoWorker, 1>>
<1>1. Laid(S, jobs, local, current)
  BY WalkInit, RestsAre DEF WalkInv
<1>2. /\ considered = [e \in Entry |-> 0] /\ jobs = <<JobOf(Root)>>
      /\ \A w \in Worker : local[w] = <<>> /\ current[w] = NoJob
  BY DEF Init
<1>3. Root \in DOMAIN Listing /\ DOMAIN Listing \subseteq Entry
  BY WalkAssumption
<1> HIDE DEF S
<1>4. S[h] = Listing[Root] /\ h \in Spot
  BY <1>1, <1>2 DEF Laid, JobOf, Spot
<1>5. ASSUME NEW a \in Spot, a # h
      PROVE  S[a] = <<>>
  <2>1. PICK x \in Worker \cup {NoWorker}, i \in Nat : a = <<x, i>>
    BY SpotIs
  <2>2. CASE i = 0
    BY <1>1, <1>2, <2>1, <2>2 DEF Laid, NoJob
  <2>3. CASE i # 0 /\ x = NoWorker
    BY <1>1, <1>2, <1>5, <2>1, <2>3 DEF Laid
  <2>4. CASE i # 0 /\ x \in Worker
    BY <1>1, <1>2, <2>1, <2>4 DEF Laid
  <2> QED BY <2>2, <2>3, <2>4
<1>6. \A a \in Spot : \A i \in 1 .. Len(S[a]) : a = h
  <2>1. 1 .. Len(<<>>) = {}
    OBVIOUS
  <2> QED BY <1>5, <2>1
<1>7. Apart(S)
  BY <1>3, <1>4, <1>6, TreeAssumption DEF Apart
<1>8. \A e : Waits(S, e) <=> e \in Listed(Root)
  BY <1>4, <1>6 DEF Waits, Listed
<1>9. Exclusive(S, considered)
  <2>1. ~Waits(S, Root)
    BY <1>3, <1>8, ListedType
  <2>2. ASSUME NEW d \in DOMAIN Listing \ {Root}, NEW e \in Listed(d)
        PROVE  considered[e] = 0 /\ ~Waits(S, e)
    <3>1. e \in Entry
      BY ListedType
    <3>2. e \notin Listed(Root)
      BY <1>3, TreeAssumption DEF Listed
    <3> QED BY <1>2, <1>8, <3>1, <3>2
  <2> QED BY <1>2, <1>7, <2>1, <2>2 DEF Exclusive
<1>10. Complete(S, considered)
  BY <1>2, <1>3, <1>8 DEF Complete
<1> QED BY <1>2, <1>9, <1>10 DEF OnceInv, S

\* However the jobs of a walk move between its workers, every entry is handed
\* to a visitor once: never twice, and when the walk ends without a panic and
\* without a fault, none is left out.
THEOREM EntriesOnce == Spec => []ConsideredOnce
<1>1. WalkInv /\ WalkInv' /\ OnceInv /\ [Next]_vars => OnceInv'
  <2> SUFFICES ASSUME WalkInv, WalkInv', OnceInv, [Next]_vars
               PROVE  OnceInv'
    OBVIOUS
  <2>1. CASE Next
    BY <2>1, OnceStep DEF Next, AnyStep
  <2>2. CASE UNCHANGED vars
    <3>1. UNCHANGED <<jobs, cancelled, local, current, considered, faults>>
      BY <2>2 DEF vars
    <3>2. Rests' = Rests
      BY <3>1 DEF Rests, Stack
    <3> QED BY <3>1, <3>2 DEF OnceInv, Exclusive, Complete, Apart, Waits
  <2> QED BY <2>1, <2>2
<1>2. WalkInv /\ OnceInv => ConsideredOnce
  <2> SUFFICES ASSUME WalkInv, OnceInv
               PROVE  ConsideredOnce
    OBVIOUS
  <2>1. \A e \in Entry : considered[e] <= 1
    BY DEF OnceInv
  <2>2. ASSUME Ended, ~cancelled, faults = 0
        PROVE  \A e \in Entry \ {Root} : considered[e] = 1
    <3> DEFINE S == Rests
               new == {e \in Entry \ {Root} : considered[e] = 0}
    <3>1. outstanding = 0
      BY <2>2, WalkAssumption DEF Ended, WalkInv, LeaveInv
    <3>2. jobs = <<>> /\ \A w \in Worker : local[w] = <<>> /\ current[w] = NoJob
      BY <3>1, NothingLeft DEF Busy
    <3>3. Laid(S, jobs, local, current)
      BY RestsAre DEF WalkInv
    <3>4. Complete(S, considered)
      BY <2>2 DEF OnceInv
    <3> HIDE DEF S
    <3>5. ASSUME NEW a \in Spot
          PROVE  S[a] = <<>>
      <4>1. PICK x \in Worker \cup {NoWorker}, i \in Nat : a = <<x, i>>
        BY SpotIs
      <4>2. Len(jobs) = 0 /\ \A w \in Worker : Len(local[w]) = 0 /\ current[w].rest = <<>>
        BY <3>2 DEF NoJob
      <4>3. CASE i = 0
        BY <3>3, <4>1, <4>2, <4>3 DEF Laid
      <4>4. CASE i # 0 /\ x = NoWorker
        BY <3>3, <4>1, <4>2, <4>4 DEF Laid
      <4>5. CASE i # 0 /\ x \in Worker
        BY <3>3, <4>1, <4>2, <4>5 DEF Laid
      <4> QED BY <4>3, <4>4, <4>5
    <3>6. \A e : ~Waits(S, e)
      <4>1. 1 .. Len(<<>>) = {}
        OBVIOUS
      <4> QED BY <3>5, <4>1 DEF Waits
    <3>7. new = {}
      <4> SUFFICES ASSUME new # {}
                   PROVE  FALSE
        OBVIOUS
      <4>1. new \in SUBSET (Entry \ {Root})
        OBVIOUS
      <4>2. PICK d \in DOMAIN Listing \ new : Listed(d) \cap new # {}
        BY <4>1, TreeAssumption
      <4>3. d = Root \/ considered[d] # 0
        BY <4>2, WalkAssumption
      <4> QED BY <3>4, <3>6, <4>2, <4>3 DEF Complete
    <3>8. considered \in [Entry -> Nat]
      BY DEF WalkInv, TypeOK
    <3> QED BY <2>1, <3>7, <3>8
  <2> QED BY <2>1, <2>2 DEF ConsideredOnce
<1> QED BY <1>1, <1>2, WalkInvariant, OnceInit, PTL DEF Spec

================================================================================
