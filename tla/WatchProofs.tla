------------------------------ MODULE WatchProofs ------------------------------
(***************************************************************************)
(* The inotify watch, for any roots, directories, caps and faults: hints   *)
(* that wait are due, and hints, watches and remembered failures stay      *)
(* within their caps.                                                      *)
(***************************************************************************)
EXTENDS Watch, FiniteSetTheorems, FunctionTheorems, WellFoundedInduction, TLAPS

\* The watch but for its hints: types, room for watches, failures kept one by one.
Capped(w) ==
  /\ w \in StateType
  /\ Installed(w) <= WatchCap
  /\ \A r \in Root : Exact(w.failures[r]) <= ExactFailures

\* Its hints: within their cap, and due.
Timed(w) ==
  /\ IsFiniteSet(w.pending)
  /\ Cardinality(w.pending) <= ScopeCap
  /\ w.pending # {} => w.first /\ w.last

Good(w) == Capped(w) /\ Timed(w)

\* The kernel watches an inode with one descriptor.
LiveOnce(k) ==
  \A x, y \in Wd : k.live[x] = k.live[y] /\ k.live[x] # None => x = y

Sane(k) == k \in KernelType /\ LiveOnce(k)

\* What the walk has found is there; a burst with hints left the watch with a time.
Walks(x, timed) ==
  /\ x \in WriterType
  /\ IsFiniteSet(x.burst.pending)
  /\ x.burst.pending # {} => timed
  /\ \A c \in x.left : x.found[c] # None
  /\ x.at = "sub" => x.sub \in Sub /\ x.found[x.sub] # None
  /\ x.at = "list" => x.root \in Root

WriterInv == Walks(writer, watch.inflight)

\* The disk and the catalog; only directories below a root come and go.
TreeInv ==
  /\ disk \in Tree /\ view \in Tree
  /\ \A c \in Sub : disk[c] \in SubId \cup {None}
  /\ dirty \subseteq Place /\ retained \subseteq Place
  /\ dead \subseteq SubId

SpentInv ==
  spent \in [changes : 0 .. MaxChanges, faults : 0 .. MaxFaults,
             timers : 0 .. MaxTimers, commands : 0 .. MaxCommands]

WatchInv == TreeInv /\ Sane(kernel) /\ Good(watch) /\ WriterInv /\ SpentInv

----------------------------------------------------------------------------
(* Constants and counts.                                                   *)

LEMMA Constants ==
  /\ WatchCap \in Nat /\ ScopeCap \in Nat /\ ExactFailures \in Nat /\ MaxWd \in Nat
  /\ RootOf \in [Sub -> Root] /\ Network \subseteq Root
  /\ None \notin Identity /\ None \notin Sub /\ Outer \in Identity /\ Root \subseteq Identity
  /\ SubId \subseteq Identity /\ 0 \notin Wd /\ Wd \subseteq 0 .. MaxWd
  /\ \A p \in Place : Home(p) \in Root
<1>1. WatchCap \in Nat /\ ScopeCap \in Nat /\ ExactFailures \in Nat /\ MaxWd \in Nat
  BY WatchAssumption
<1>2. RootOf \in [Sub -> Root] /\ Network \subseteq Root
  BY WatchAssumption
<1>3. /\ None \notin Identity /\ None \notin Sub /\ Outer \in Identity /\ Root \subseteq Identity
      /\ SubId \subseteq Identity
  BY WatchAssumption DEF Identity, None, Outer
<1>4. 0 \notin Wd /\ Wd \subseteq 0 .. MaxWd
  BY <1>1 DEF Wd
<1>5. \A p \in Place : Home(p) \in Root
  BY <1>2 DEF Home, Place
<1> QED BY <1>1, <1>2, <1>3, <1>4, <1>5

LEMMA IdentityFinite ==
  /\ IsFiniteSet(Identity)
  /\ \A id \in Identity : Cardinality(Identity \ {id}) <= Cardinality(Root) + Cardinality(SubId)
<1> DEFINE U == Root \cup SubId
<1>1. IsFiniteSet(Root) /\ IsFiniteSet(SubId)
  BY WatchAssumption
<1>2. /\ Cardinality(Root) \in Nat /\ Cardinality(SubId) \in Nat
      /\ IsFiniteSet(Root \cap SubId)
  BY <1>1, FS_CardinalityType, FS_Intersection
<1>3. Cardinality(Root \cap SubId) \in Nat
  BY <1>2, FS_CardinalityType
<1>4. /\ IsFiniteSet(U)
      /\ Cardinality(U) = Cardinality(Root) + Cardinality(SubId) - Cardinality(Root \cap SubId)
  BY <1>1, FS_Union
<1>5. Cardinality(U) \in Nat /\ Cardinality(U) <= Cardinality(Root) + Cardinality(SubId)
  BY <1>2, <1>3, <1>4, FS_CardinalityType
<1> HIDE DEF U
<1>6. /\ IsFiniteSet(U \cup {Outer})
      /\ Cardinality(U \cup {Outer}) \in {Cardinality(U), Cardinality(U) + 1}
  BY <1>4, <1>5, FS_AddElement
<1>7. Identity = U \cup {Outer}
  BY DEF U, Identity
<1>8. Cardinality(Identity) \in Nat /\ IsFiniteSet(Identity)
  BY <1>6, <1>7, FS_CardinalityType
<1>9. ASSUME NEW id \in Identity
      PROVE  Cardinality(Identity \ {id}) = Cardinality(Identity) - 1
  BY <1>8, FS_RemoveElement
<1>10. Cardinality(Identity) - 1 <= Cardinality(Root) + Cardinality(SubId)
  BY <1>2, <1>5, <1>6, <1>7
<1> QED BY <1>8, <1>9, <1>10

\* The identities among some are finitely many.
LEMMA IdentitiesFinite ==
  ASSUME NEW S \in SUBSET Identity
  PROVE  IsFiniteSet(S) /\ Cardinality(S) \in Nat
BY IdentityFinite, FS_Subset, FS_CardinalityType

\* One identity more, or fewer of them.
LEMMA IdentitiesGrow ==
  ASSUME NEW S \in SUBSET Identity, NEW T \in SUBSET Identity, NEW id \in Identity,
         T \subseteq S \cup {id}
  PROVE  /\ Cardinality(T) <= Cardinality(S) + 1
         /\ id \in S => Cardinality(T) <= Cardinality(S)
         /\ T \subseteq S => Cardinality(T) <= Cardinality(S)
<1>1. /\ IsFiniteSet(S) /\ Cardinality(S) \in Nat /\ Cardinality(T) \in Nat
  BY IdentitiesFinite
<1>2. IsFiniteSet(S \cup {id}) /\ Cardinality(S \cup {id}) \in {Cardinality(S), Cardinality(S) + 1}
  BY <1>1, FS_AddElement
<1>3. Cardinality(T) <= Cardinality(S \cup {id})
  BY <1>2, FS_Subset
<1>4. ASSUME T \subseteq S
      PROVE  Cardinality(T) <= Cardinality(S)
  BY <1>1, <1>4, FS_Subset
<1>5. id \in S => T \subseteq S
  OBVIOUS
<1> QED BY <1>1, <1>2, <1>3, <1>4, <1>5

----------------------------------------------------------------------------
(* The kernel.                                                             *)

\* An inode without a watch finds a free descriptor.
LEMMA FreeIn ==
  ASSUME NEW k, Sane(k), NEW id \in Identity, LiveWds(k, id) = {}
  PROVE  FreeWd(k) \in Wd /\ k.live[FreeWd(k)] = None
<1> DEFINE after(wd) == (wd - k.next + MaxWd) % MaxWd
           F == {wd \in Wd : k.live[wd] = None}
           S == {after(wd) : wd \in F}
           R == OpToRel(<, Nat)
<1>1. k.live \in [Wd -> Identity \cup {None}] /\ k.next \in Wd
  BY DEF Sane, KernelType
<1>2. MaxWd \in Nat /\ MaxWd > Cardinality(Root) + Cardinality(SubId)
  BY WatchAssumption
<1>3. F # {}
  <2> SUFFICES ASSUME F = {}
               PROVE  FALSE
    OBVIOUS
  <2>1. k.live \in [Wd -> Identity \ {id}]
    BY <1>1 DEF LiveWds
  <2>2. IsFiniteSet(Wd) /\ Cardinality(Wd) = MaxWd
    <3>1. IsFiniteSet(1 .. MaxWd) /\ Cardinality(1 .. MaxWd) = IF 1 > MaxWd THEN 0 ELSE MaxWd - 1 + 1
      BY <1>2, FS_Interval
    <3> QED BY <1>2, <3>1 DEF Wd
  <2>3. /\ IsFiniteSet(Identity \ {id})
        /\ Cardinality(Identity \ {id}) <= Cardinality(Root) + Cardinality(SubId)
        /\ Cardinality(Identity \ {id}) \in Nat
    BY IdentityFinite, IdentitiesFinite
  <2>4. Cardinality(Root) \in Nat /\ Cardinality(SubId) \in Nat
    BY WatchAssumption, FS_CardinalityType
  <2>5. Cardinality(Identity \ {id}) < Cardinality(Wd)
    BY <1>2, <2>2, <2>3, <2>4
  <2>6. \E x, y \in Wd : x # y /\ k.live[x] = k.live[y]
    BY <2>1, <2>2, <2>3, <2>5, FS_PigeonHole
  <2>7. \A x \in Wd : k.live[x] # None
    BY <2>1, Constants
  <2> QED BY <2>6, <2>7 DEF Sane, LiveOnce
<1>4. \A wd \in Wd : after(wd) \in Nat
  BY <1>1, <1>2 DEF Wd
<1>5. S \subseteq Nat /\ S # {}
  BY <1>3, <1>4
<1>6. IsWellFoundedOn(R, Nat)
  BY NatLessThanWellFounded
<1>7. PICK m \in S : \A i \in S : ~ (<<i, m>> \in R)
  <2> HIDE DEF R, S
  <2> QED BY <1>5, <1>6, WFMin
<1>8. \A i \in S : m <= i
  <2> TAKE i \in S
  <2> m \in Nat /\ i \in Nat
    BY <1>5
  <2> HIDE DEF S
  <2>1. ~ (i < m)
    BY <1>7 DEF OpToRel
  <2> QED BY <2>1
<1>9. PICK wd \in F : after(wd) = m
  OBVIOUS
<1>10. wd \in Wd /\ k.live[wd] = None
       /\ \A other \in Wd : k.live[other] = None => after(wd) <= after(other)
  <2> HIDE DEF after
  <2> QED BY <1>8, <1>9
<1>11. FreeWd(k) = CHOOSE x \in Wd :
             /\ k.live[x] = None
             /\ \A other \in Wd : k.live[other] = None => after(x) <= after(other)
  BY DEF FreeWd
<1> HIDE DEF after
<1> QED BY <1>10, <1>11

LEMMA WdForIn ==
  ASSUME NEW k, Sane(k), NEW id \in Identity
  PROVE  WdFor(k, id) \in Wd
<1>1. CASE LiveWds(k, id) = {}
  BY <1>1, FreeIn DEF WdFor
<1>2. CASE LiveWds(k, id) # {}
  <2>1. LiveWds(k, id) \subseteq Wd
    BY DEF LiveWds
  <2> QED BY <1>2, <2>1 DEF WdFor
<1> QED BY <1>1, <1>2

\* An event is queued, merged or lost.
LEMMA QueuedIn ==
  ASSUME NEW q \in Seq(Event), NEW e \in Event
  PROVE  Queued(q, e) \in Seq(Event)
<1>1. Overflow \in Event
  BY DEF Event
<1> HIDE DEF Event
<1> QED BY <1>1 DEF Queued

LEMMA AddWatchSane ==
  ASSUME NEW k, Sane(k), NEW id \in Identity
  PROVE  Sane(AddWatch(k, id))
<1>1. CASE LiveWds(k, id) # {}
  BY <1>1 DEF AddWatch
<1>2. CASE LiveWds(k, id) = {}
  <2> DEFINE f == FreeWd(k)
             n == [k EXCEPT !.live[f] = id, !.next = (f % MaxWd) + 1]
  <2>1. f \in Wd /\ k.live[f] = None
    BY <1>2, FreeIn
  <2> HIDE DEF f
  <2>2. (f % MaxWd) + 1 \in Wd
    BY <2>1, Constants DEF Wd
  <2>3. n \in KernelType
    BY <2>1, <2>2 DEF Sane, KernelType
  <2>4. k.live \in [Wd -> Identity \cup {None}] /\ n.live = [k.live EXCEPT ![f] = id]
    BY <2>1 DEF Sane, KernelType
  <2>5. LiveOnce(n)
    BY <1>2, <2>1, <2>4 DEF Sane, LiveOnce, LiveWds
  <2>6. AddWatch(k, id) = n
    BY <1>2 DEF AddWatch, f
  <2> QED BY <2>3, <2>5, <2>6 DEF Sane
<1> QED BY <1>1, <1>2

\* Descriptors the kernel drops leave the others as they are.
LEMMA DropSane ==
  ASSUME NEW k, Sane(k), NEW drop \in SUBSET Wd, NEW q \in Seq(Event)
  PROVE  Sane([k EXCEPT !.live = [wd \in Wd |-> IF wd \in drop THEN None ELSE @[wd]], !.queue = q])
<1> DEFINE n == [k EXCEPT !.live = [wd \in Wd |-> IF wd \in drop THEN None ELSE @[wd]], !.queue = q]
<1>1. k.live \in [Wd -> Identity \cup {None}] /\ k.next \in Wd
  BY DEF Sane, KernelType
<1>2. n.live = [wd \in Wd |-> IF wd \in drop THEN None ELSE k.live[wd]]
  BY DEF Sane, KernelType
<1>3. n \in KernelType
  BY <1>1 DEF Sane, KernelType
<1>4. LiveOnce(n)
  <2> HIDE DEF n
  <2> QED BY <1>2 DEF Sane, LiveOnce
<1> QED BY <1>3, <1>4 DEF Sane

LEMMA RemoveWatchSane ==
  ASSUME NEW k, Sane(k), NEW wd \in Wd
  PROVE  Sane(RemoveWatch(k, wd))
<1> DEFINE e == [wd |-> wd, name |-> "IGNORED"]
           n == [k EXCEPT !.live[wd] = None, !.queue = Queued(@, e)]
<1>1. e \in Event
  BY DEF Event
<1>2. k.queue \in Seq(Event) /\ k.live \in [Wd -> Identity \cup {None}]
  BY DEF Sane, KernelType
<1>3. Queued(k.queue, e) \in Seq(Event)
  BY <1>1, <1>2, QueuedIn
<1> HIDE DEF e
<1>4. n \in KernelType
  BY <1>2, <1>3 DEF Sane, KernelType
<1>5. n.live = [k.live EXCEPT ![wd] = None]
  BY DEF Sane, KernelType
<1>6. LiveOnce(n)
  <2> HIDE DEF n
  <2> QED BY <1>2, <1>5 DEF Sane, LiveOnce
<1>7. RemoveWatch(k, wd) = IF k.live[wd] = None THEN k ELSE n
  BY DEF RemoveWatch, e
<1> QED BY <1>4, <1>6, <1>7 DEF Sane

LEMMA ToldSane ==
  ASSUME NEW k, Sane(k), NEW id \in Identity, NEW name \in Name \cup {"IGNORED"}
  PROVE  Sane(Told(k, id, name)) /\ Told(k, id, name).live = k.live
<1> DEFINE e == [wd |-> WdFor(k, id), name |-> name]
           n == [k EXCEPT !.queue = Queued(@, e)]
<1>1. e \in Event
  BY WdForIn DEF Event
<1>2. k.queue \in Seq(Event)
  BY DEF Sane, KernelType
<1>3. Queued(k.queue, e) \in Seq(Event)
  BY <1>1, <1>2, QueuedIn
<1> HIDE DEF e
<1>4. n \in KernelType /\ n.live = k.live
  BY <1>3 DEF Sane, KernelType
<1>5. LiveOnce(n)
  BY <1>4 DEF Sane, LiveOnce
<1>6. Told(k, id, name) = IF LiveWds(k, id) = {} THEN k ELSE n
  BY DEF Told, e
<1> QED BY <1>4, <1>5, <1>6 DEF Sane

----------------------------------------------------------------------------
(* Losses, events and bursts.                                              *)

InstalledIds(w) == {i \in Identity : w.identities[i] # 0}

\* A step that changes neither failures nor which identities are watched
LEMMA CappedSame ==
  ASSUME NEW w, Capped(w), NEW n \in StateType, n.identities = w.identities, n.failures = w.failures
  PROVE  Capped(n)
BY DEF Capped, Installed

\* or that only forgets identities.
LEMMA CappedFewer ==
  ASSUME NEW w, Capped(w), NEW n \in StateType, InstalledIds(n) \subseteq InstalledIds(w),
         n.failures = w.failures
  PROVE  Capped(n)
<1>1. InstalledIds(n) \subseteq Identity /\ InstalledIds(w) \subseteq Identity
  BY DEF InstalledIds
<1>2. /\ IsFiniteSet(InstalledIds(w)) /\ Cardinality(InstalledIds(n)) \in Nat
      /\ Cardinality(InstalledIds(w)) \in Nat
  BY <1>1, IdentitiesFinite
<1>3. Cardinality(InstalledIds(n)) <= Cardinality(InstalledIds(w))
  BY <1>2, FS_Subset
<1>4. Installed(n) = Cardinality(InstalledIds(n)) /\ Installed(w) = Cardinality(InstalledIds(w))
  BY DEF Installed, InstalledIds
<1> QED BY <1>2, <1>3, <1>4, Constants DEF Capped

LEMMA NoHints ==
  ASSUME NEW w, w.pending = {}
  PROVE  Timed(w)
BY FS_EmptySet, Constants DEF Timed

LEMMA LossGood ==
  ASSUME NEW w, Capped(w), NEW reason \in Reason
  PROVE  /\ Good(Loss(w, reason)) /\ Loss(w, reason).inflight = w.inflight
         /\ Loss(w, reason).identities = w.identities
<1> DEFINE m == [serial |-> w.serial + 1,
                 reason |-> IF w.backstop.reason = "Overflow" THEN "Overflow" ELSE reason]
           n == [w EXCEPT !.serial = @ + 1, !.backstop = m, !.pending = {},
                          !.first = TRUE, !.last = TRUE]
<1>1. w.serial + 1 \in Nat /\ m \in Marker
  BY DEF Capped, StateType, Marker, Reason
<1>2. w \in StateType /\ Loss(w, reason) = n
  BY DEF Loss, Capped, StateType
<1> HIDE DEF m
<1>3. n \in StateType /\ n.identities = w.identities /\ n.failures = w.failures
      /\ n.pending = {} /\ n.inflight = w.inflight
  BY <1>1, <1>2 DEF StateType
<1> HIDE DEF n
<1> QED BY <1>2, <1>3, CappedSame, NoHints DEF Good

LEMMA ForgetCapped ==
  ASSUME NEW w, Capped(w), NEW wd \in Wd
  PROVE  Capped(Forget(w, wd)) /\ Forget(w, wd).pending = w.pending
         /\ Forget(w, wd).first = w.first /\ Forget(w, wd).last = w.last
         /\ Forget(w, wd).inflight = w.inflight
         /\ InstalledIds(Forget(w, wd)) \subseteq InstalledIds(w)
<1> DEFINE ids == [i \in Identity |-> IF w.identities[i] = wd THEN 0 ELSE w.identities[i]]
           n == [w EXCEPT !.descriptors[wd] = {}, !.identities = ids]
<1>0. ids \in [Identity -> 0 .. MaxWd] /\ Forget(w, wd) = n
  BY Constants DEF Forget, Capped, StateType
<1>1. /\ n \in StateType /\ n.failures = w.failures
      /\ n.identities = ids
      /\ n.pending = w.pending /\ n.first = w.first /\ n.last = w.last /\ n.inflight = w.inflight
  <2> HIDE DEF ids
  <2> QED BY <1>0 DEF Capped, StateType
<1> HIDE DEF n
<1>2. InstalledIds(n) \subseteq InstalledIds(w)
  BY <1>1 DEF InstalledIds
<1> QED BY <1>0, <1>1, <1>2, CappedFewer

LEMMA IgnoredGood ==
  ASSUME NEW w, Good(w), NEW wd \in Wd
  PROVE  Good(Ignored(w, wd)) /\ Ignored(w, wd).inflight = w.inflight
<1> DEFINE a == [w EXCEPT !.removed = @ \ {wd}]
           f == Forget(w, wd)
           n == [f EXCEPT !.policies[wd] = {}, !.gaps = @ \cup {i.root : i \in w.policies[wd]}]
<1>1. /\ a \in StateType /\ a.identities = w.identities /\ a.failures = w.failures
      /\ a.pending = w.pending /\ a.first = w.first /\ a.last = w.last /\ a.inflight = w.inflight
  BY DEF Good, Capped, StateType
<1>2. Good(a)
  BY <1>1, CappedSame DEF Good, Timed
<1>3. Capped(f) /\ f.inflight = w.inflight
  BY ForgetCapped DEF Good
<1>4. {i.root : i \in w.policies[wd]} \subseteq Root
  BY DEF Good, Capped, StateType, Input
<1> HIDE DEF f
<1>5. /\ n \in StateType /\ n.identities = f.identities /\ n.failures = f.failures
      /\ n.inflight = f.inflight
  BY <1>3, <1>4 DEF Capped, StateType
<1> HIDE DEF n
<1>6. Capped(n)
  BY <1>3, <1>5, CappedSame
<1>7. Good(Loss(n, "Overflow")) /\ Loss(n, "Overflow").inflight = n.inflight
  BY <1>6, LossGood DEF Reason
<1>8. Ignored(w, wd) = IF wd \in w.removed THEN a ELSE Loss(n, "Overflow")
  BY DEF Ignored, n, f
<1> QED BY <1>1, <1>2, <1>3, <1>5, <1>7, <1>8

LEMMA ScopeGood ==
  ASSUME NEW w, Good(w), NEW e, e.wd \in Wd
  PROVE  /\ Good(ScopePolicyRoots(w, e)) /\ ScopePolicyRoots(w, e).inflight = w.inflight
         /\ ScopePolicyRoots(w, e).descriptors = w.descriptors
<1> DEFINE touched == {i.root : i \in {j \in w.policies[e.wd] : e.name \in {"self", "rules"}}}
           n == [w EXCEPT !.scoped = @ \cup touched, !.first = TRUE]
<1>1. touched \subseteq Root
  BY DEF Good, Capped, StateType, Input
<1>2. ScopePolicyRoots(w, e) = IF touched = {} THEN w ELSE n
  BY DEF ScopePolicyRoots
<1> HIDE DEF touched
<1>3. /\ n \in StateType /\ n.identities = w.identities /\ n.failures = w.failures
      /\ n.pending = w.pending /\ n.first /\ n.last = w.last /\ n.inflight = w.inflight
      /\ n.descriptors = w.descriptors
  BY <1>1 DEF Good, Capped, StateType
<1> HIDE DEF n
<1>4. Good(n)
  BY <1>3, CappedSame DEF Good, Timed
<1> QED BY <1>2, <1>3, <1>4

LEMMA HintedGood ==
  ASSUME NEW w, Good(w), NEW e, e.wd \in Wd, e.name \in Name
  PROVE  Good(Hinted(w, e)) /\ Hinted(w, e).inflight = w.inflight
<1> DEFINE h == [wd |-> e.wd, name |-> e.name, dirs |-> w.descriptors[e.wd]]
           a == [w EXCEPT !.first = TRUE, !.last = TRUE]
           n == [w EXCEPT !.first = TRUE, !.last = TRUE, !.pending = @ \cup {h}]
<1>1. h \in Hint
  BY DEF Good, Capped, StateType, Hint
<1>2. Hinted(w, e) = IF \E x \in w.pending : x.wd = e.wd /\ x.name = e.name THEN a
                     ELSE IF Cardinality(w.pending) >= ScopeCap THEN Loss(w, "Overflow") ELSE n
  BY DEF Hinted
<1> HIDE DEF h
<1>3. /\ a \in StateType /\ a.identities = w.identities /\ a.failures = w.failures
      /\ a.pending = w.pending /\ a.first /\ a.last /\ a.inflight = w.inflight
  BY DEF Good, Capped, StateType
<1>4. /\ n \in StateType /\ n.identities = w.identities /\ n.failures = w.failures
      /\ n.pending = w.pending \cup {h} /\ n.first /\ n.last /\ n.inflight = w.inflight
  BY <1>1 DEF Good, Capped, StateType
<1>5. Good(Loss(w, "Overflow")) /\ Loss(w, "Overflow").inflight = w.inflight
  BY LossGood DEF Good, Reason
<1> HIDE DEF a, n
<1>6. Good(a)
  BY <1>3, CappedSame DEF Good, Timed
<1>7. ASSUME ~ (Cardinality(w.pending) >= ScopeCap)
      PROVE  Good(n)
  <2>1. IsFiniteSet(w.pending) /\ Cardinality(w.pending) \in Nat
    BY FS_CardinalityType DEF Good, Timed
  <2>2. /\ IsFiniteSet(n.pending)
        /\ Cardinality(n.pending) \in {Cardinality(w.pending), Cardinality(w.pending) + 1}
    BY <1>4, <2>1, FS_AddElement
  <2>3. Cardinality(n.pending) <= ScopeCap
    BY <1>7, <2>1, <2>2, Constants
  <2> QED BY <1>4, <2>2, <2>3, CappedSame DEF Good, Timed
<1> QED BY <1>2, <1>3, <1>4, <1>5, <1>6, <1>7

\* Watch::event
LEMMA TakenGood ==
  ASSUME NEW w, Good(w), NEW e \in Event
  PROVE  Good(Taken(w, e)) /\ Taken(w, e).inflight = w.inflight
<1> DEFINE a == [w EXCEPT !.removed = {}]
           s == ScopePolicyRoots(w, e)
<1>1. /\ a \in StateType /\ a.identities = w.identities /\ a.failures = w.failures
      /\ a.inflight = w.inflight
  BY DEF Good, Capped, StateType
<1> HIDE DEF a
<1>2. Good(Loss(a, "Overflow")) /\ Loss(a, "Overflow").inflight = w.inflight
  <2>1. Capped(a)
    BY <1>1, CappedSame DEF Good
  <2> QED BY <1>1, <2>1, LossGood DEF Reason
<1>3. CASE e = Overflow
  BY <1>2, <1>3 DEF Taken, a, Overflow
<1>4. CASE e # Overflow
  <2>1. e.wd \in Wd /\ e.name \in Name \cup {"IGNORED"}
    BY <1>4 DEF Event
  <2>2. CASE e.name = "IGNORED"
    BY <1>4, <2>1, <2>2, IgnoredGood DEF Taken
  <2>3. CASE e.name # "IGNORED"
    <3>1. e.name \in Name
      BY <2>1, <2>3
    <3>2. Good(s) /\ s.inflight = w.inflight /\ s.descriptors = w.descriptors
      BY <2>1, ScopeGood
    <3>3. Taken(w, e) = IF w.descriptors[e.wd] # {} THEN Hinted(s, e)
                        ELSE IF w.policies[e.wd] # {} THEN s ELSE Loss(s, "Overflow")
      BY <1>4, <2>3 DEF Taken
    <3> HIDE DEF s
    <3>4. Good(Hinted(s, e)) /\ Hinted(s, e).inflight = s.inflight
      BY <2>1, <3>1, <3>2, HintedGood
    <3>5. Good(Loss(s, "Overflow")) /\ Loss(s, "Overflow").inflight = s.inflight
      BY <3>2, LossGood DEF Good, Reason
    <3> QED BY <3>2, <3>3, <3>4, <3>5
  <2> QED BY <2>2, <2>3
<1> QED BY <1>3, <1>4

\* take_admitted
LEMMA DetachedGood ==
  ASSUME NEW w, Good(w)
  PROVE  Good(Detached(w)) /\ Detached(w).inflight = w.first
<1> DEFINE n == Detached(w)
<1>1. /\ n \in StateType /\ n.identities = w.identities /\ n.failures = w.failures
      /\ n.pending = {} /\ n.inflight = w.first
  BY DEF Good, Capped, StateType, Detached
<1> HIDE DEF n
<1> QED BY <1>1, CappedSame, NoHints DEF Good, n

\* finish
LEMMA FinishedGood ==
  ASSUME NEW w, Good(w), NEW burst \in Burst, NEW success \in BOOLEAN
  PROVE  Good(Finished(w, burst, success))
<1> DEFINE ended == [w EXCEPT !.running = FALSE, !.inflight = FALSE]
           a == [ended EXCEPT !.backstop = NoMarker]
           f == [ended EXCEPT !.first = @ \/ w.inflight, !.refreshed = {}]
           why == IF burst.marker = NoMarker THEN "Backstop" ELSE burst.marker.reason
<1>1. /\ ended \in StateType /\ ended.identities = w.identities /\ ended.failures = w.failures
      /\ ended.pending = w.pending /\ ended.first = w.first /\ ended.last = w.last
  BY DEF Good, Capped, StateType
<1>2. Finished(w, burst, success) =
          IF success THEN IF burst.marker # NoMarker /\ w.backstop = burst.marker THEN a ELSE ended
          ELSE Loss(f, why)
  BY DEF Finished
<1>3. NoMarker \in Marker /\ why \in Reason
  BY DEF NoMarker, Marker, Reason, Burst
<1>4. w.inflight \in BOOLEAN
  BY DEF Good, Capped, StateType
<1> HIDE DEF ended, why
<1>5. /\ a \in StateType /\ a.identities = w.identities /\ a.failures = w.failures
      /\ a.pending = w.pending /\ a.first = w.first /\ a.last = w.last
  BY <1>1, <1>3 DEF StateType
<1>6. f \in StateType /\ f.identities = w.identities /\ f.failures = w.failures
  BY <1>1, <1>4 DEF StateType
<1> HIDE DEF a, f
<1>7. Good(ended) /\ Good(a)
  BY <1>1, <1>5, CappedSame DEF Good, Timed
<1>8. Capped(f)
  BY <1>6, CappedSame DEF Good
<1>9. Good(Loss(f, why))
  BY <1>3, <1>8, LossGood
<1> QED BY <1>2, <1>7, <1>9

\* defer: a hint that is put back is due, for the burst had a time
LEMMA DeferredGood ==
  ASSUME NEW w, Good(w), NEW burst \in Burst, IsFiniteSet(burst.pending),
         burst.pending # {} => w.inflight
  PROVE  Good(Deferred(w, burst))
<1> DEFINE older == {h \in burst.pending : ~\E n \in w.pending : n.wd = h.wd /\ n.name = h.name}
           kept == Restored(w, burst)
           lost == Loss(kept, "Overflow")
           x == IF Cardinality(kept.pending) > ScopeCap THEN lost ELSE kept
           due == [x EXCEPT !.last = @ \/ x.pending # {} \/ x.scoped # {} \/ x.backstop # NoMarker]
<1>1. older \subseteq Hint /\ older \subseteq burst.pending /\ IsFiniteSet(older)
  <2>1. older \subseteq burst.pending
    OBVIOUS
  <2> HIDE DEF older
  <2> QED BY <2>1, FS_Subset DEF Burst
<1>2. kept = [w EXCEPT
            !.running = FALSE, !.inflight = FALSE,
            !.first = @ \/ w.inflight,
            !.refreshed = {},
            !.pending = @ \cup older,
            !.scoped = @ \cup burst.roots,
            !.backstop = IF burst.marker # NoMarker /\ @.serial < burst.marker.serial
                         THEN burst.marker ELSE @]
  BY DEF Restored
<1> HIDE DEF older, kept
<1>3. /\ kept \in StateType /\ kept.identities = w.identities /\ kept.failures = w.failures
      /\ kept.pending = w.pending \cup older /\ kept.first = (w.first \/ w.inflight)
  BY <1>1, <1>2 DEF Good, Capped, StateType, Burst
<1>4. Capped(kept) /\ Good(lost)
  <2>1. Capped(kept)
    BY <1>3, CappedSame DEF Good
  <2> QED BY <2>1, LossGood DEF Reason
<1>5. IsFiniteSet(kept.pending) /\ Cardinality(kept.pending) \in Nat
  BY <1>1, <1>3, FS_Union, FS_CardinalityType DEF Good, Timed
<1>6. kept.pending # {} => kept.first
  BY <1>1, <1>3 DEF Good, Timed
<1>7. /\ Capped(x) /\ IsFiniteSet(x.pending) /\ Cardinality(x.pending) <= ScopeCap
      /\ x.pending # {} => x.first
  <2> HIDE DEF lost
  <2>1. CASE Cardinality(kept.pending) > ScopeCap
    BY <1>4, <2>1 DEF Good, Timed
  <2>2. CASE ~ (Cardinality(kept.pending) > ScopeCap)
    BY <1>4, <1>5, <1>6, <2>2, Constants
  <2> QED BY <2>1, <2>2
<1>8. Deferred(w, burst) = due
  BY DEF Deferred, Due, kept
<1> HIDE DEF x
<1>9. /\ due \in StateType /\ due.identities = x.identities /\ due.failures = x.failures
      /\ due.pending = x.pending /\ due.first = x.first /\ (x.pending # {} => due.last)
  BY <1>7 DEF Capped, StateType
<1> HIDE DEF due
<1> QED BY <1>7, <1>8, <1>9, CappedSame DEF Good, Timed

----------------------------------------------------------------------------
(* Failures that are remembered one by one.                                *)

\* The four sets a record keeps
LEMMA ExactSets ==
  ASSUME NEW f \in Failures
  PROVE  LET ld == f.latest.dirs    lp == f.latest.policies
             ed == f.earlier.dirs   ep == f.earlier.policies
         IN /\ {ld, lp, ed, ep} \subseteq SUBSET Identity
            /\ Exact(f) = Cardinality(ld) + Cardinality(lp) + Cardinality(ed) + Cardinality(ep)
            /\ Cardinality(ld) \in Nat /\ Cardinality(lp) \in Nat
            /\ Cardinality(ed) \in Nat /\ Cardinality(ep) \in Nat
            /\ Exact(f) \in Nat
<1>1. f.latest \in Failed /\ f.earlier \in Failed
  BY DEF Failures
<1>2. /\ f.latest.dirs \subseteq Identity /\ f.latest.policies \subseteq Identity
      /\ f.earlier.dirs \subseteq Identity /\ f.earlier.policies \subseteq Identity
  BY <1>1 DEF Failed
<1>3. /\ Cardinality(f.latest.dirs) \in Nat /\ Cardinality(f.latest.policies) \in Nat
      /\ Cardinality(f.earlier.dirs) \in Nat /\ Cardinality(f.earlier.policies) \in Nat
  BY <1>2, IdentitiesFinite
<1> QED BY <1>2, <1>3 DEF Exact

\* Fewer entries
LEMMA ExactFewer ==
  ASSUME NEW f \in Failures, NEW g \in Failures,
         g.latest.dirs \subseteq f.latest.dirs, g.latest.policies \subseteq f.latest.policies,
         g.earlier.dirs \subseteq f.earlier.dirs, g.earlier.policies \subseteq f.earlier.policies
  PROVE  Exact(g) <= Exact(f)
<1>1. ASSUME NEW S \in SUBSET Identity, NEW T \in SUBSET S
      PROVE  Cardinality(T) <= Cardinality(S)
  <2>1. IsFiniteSet(S)
    BY IdentitiesFinite
  <2> QED BY <2>1, FS_Subset
<1>2. /\ Cardinality(g.latest.dirs) <= Cardinality(f.latest.dirs)
      /\ Cardinality(g.latest.policies) <= Cardinality(f.latest.policies)
      /\ Cardinality(g.earlier.dirs) <= Cardinality(f.earlier.dirs)
      /\ Cardinality(g.earlier.policies) <= Cardinality(f.earlier.policies)
  BY <1>1, ExactSets
<1> QED BY <1>2, ExactSets

\* A new epoch joins the two halves.
LEMMA AdvancedExact ==
  ASSUME NEW f \in Failures
  PROVE  Advanced(f) \in Failures /\ Exact(Advanced(f)) <= Exact(f)
<1> DEFINE D == f.earlier.dirs \cup f.latest.dirs
           P == f.earlier.policies \cup f.latest.policies
           e == [dirs |-> D, policies |-> P, counted |-> f.earlier.counted \/ f.latest.counted]
           g == [now |-> TRUE, latest |-> NoFailed, earlier |-> e]
<1>1. f.latest \in Failed /\ f.earlier \in Failed /\ NoFailed \in Failed
  BY DEF Failures, Failed, NoFailed
<1>2. e \in Failed
  BY <1>1 DEF Failed
<1>3. g \in Failures
  BY <1>1, <1>2 DEF Failures
<1>4. ASSUME NEW S \in SUBSET Identity, NEW T \in SUBSET Identity
      PROVE  Cardinality(S \cup T) <= Cardinality(S) + Cardinality(T)
  <2>1. /\ IsFiniteSet(S) /\ IsFiniteSet(T) /\ Cardinality(S) \in Nat /\ Cardinality(T) \in Nat
        /\ Cardinality(S \cap T) \in Nat
    BY IdentitiesFinite
  <2>2. Cardinality(S \cup T) = Cardinality(S) + Cardinality(T) - Cardinality(S \cap T)
    BY <2>1, FS_Union
  <2> QED BY <2>1, <2>2
<1>5. /\ Cardinality(D) <= Cardinality(f.earlier.dirs) + Cardinality(f.latest.dirs)
      /\ Cardinality(P) <= Cardinality(f.earlier.policies) + Cardinality(f.latest.policies)
  BY <1>4, ExactSets
<1>6. /\ g.latest.dirs = {} /\ g.latest.policies = {}
      /\ g.earlier.dirs = D /\ g.earlier.policies = P
  BY DEF NoFailed
<1>7. Cardinality({}) = 0
  BY FS_EmptySet
<1>8. Exact(g) = Cardinality(D) + Cardinality(P) /\ Cardinality(D) \in Nat /\ Cardinality(P) \in Nat
  <2> HIDE DEF g, D, P
  <2>1. Cardinality(g.earlier.dirs) \in Nat /\ Cardinality(g.earlier.policies) \in Nat
    BY <1>3, ExactSets
  <2> QED BY <1>6, <1>7, <2>1 DEF Exact
<1>9. Exact(g) <= Exact(f)
  <2> HIDE DEF g, D, P
  <2> QED BY <1>5, <1>8, ExactSets
<1>10. Advanced(f) = IF f.now THEN f ELSE g
  BY DEF Advanced
<1> HIDE DEF g
<1> QED BY <1>3, <1>9, <1>10, ExactSets

\* An entry that was there moves to the latest half, another is added if there is room.
LEMMA KeepDirectory ==
  ASSUME NEW f \in Failures, Exact(f) <= ExactFailures, NEW id \in Identity
  PROVE  LET g == [f EXCEPT !.earlier.dirs = @ \ {id}]
             keep == id \in f.earlier.dirs \/ id \in f.latest.dirs \/ Exact(g) < ExactFailures
             n == IF keep THEN [g EXCEPT !.latest.dirs = @ \cup {id}]
                          ELSE [g EXCEPT !.latest.counted = TRUE]
         IN  n \in Failures /\ Exact(n) <= ExactFailures
<1> DEFINE g == [f EXCEPT !.earlier.dirs = @ \ {id}]
           a == [g EXCEPT !.latest.dirs = @ \cup {id}]
           b == [g EXCEPT !.latest.counted = TRUE]
           keep == id \in f.earlier.dirs \/ id \in f.latest.dirs \/ Exact(g) < ExactFailures
<1>1. /\ g \in Failures /\ g.latest = f.latest /\ g.earlier.policies = f.earlier.policies
      /\ g.earlier.dirs = f.earlier.dirs \ {id}
  BY DEF Failures, Failed
<1> HIDE DEF g
<1>2. /\ a \in Failures /\ a.latest.dirs = g.latest.dirs \cup {id}
      /\ a.latest.policies = g.latest.policies /\ a.earlier = g.earlier
  BY <1>1 DEF Failures, Failed
<1>3. /\ b \in Failures /\ b.latest.dirs = g.latest.dirs
      /\ b.latest.policies = g.latest.policies /\ b.earlier = g.earlier
  BY <1>1 DEF Failures, Failed
<1> HIDE DEF a, b
<1>4. Exact(g) <= Exact(f) /\ Exact(b) <= Exact(f)
  <2>1. Exact(g) <= Exact(f)
    BY <1>1, ExactFewer
  <2>2. Exact(b) <= Exact(f)
    BY <1>1, <1>3, ExactFewer
  <2> QED BY <2>1, <2>2
<1>5. id \in f.earlier.dirs => Cardinality(g.earlier.dirs) = Cardinality(f.earlier.dirs) - 1
  <2>1. IsFiniteSet(f.earlier.dirs)
    BY ExactSets, IdentitiesFinite
  <2> QED BY <1>1, <2>1, FS_RemoveElement
<1>6. /\ Cardinality(a.latest.dirs) <= Cardinality(g.latest.dirs) + 1
      /\ id \in g.latest.dirs => Cardinality(a.latest.dirs) <= Cardinality(g.latest.dirs)
  <2>1. g.latest.dirs \in SUBSET Identity /\ a.latest.dirs \in SUBSET Identity
    BY <1>1, <1>2, ExactSets
  <2> QED BY <1>2, <2>1, IdentitiesGrow
<1>7. /\ Exact(a) <= Exact(g) + 1
      /\ id \in f.latest.dirs => Exact(a) <= Exact(g)
      /\ id \in f.earlier.dirs => Exact(g) + 1 <= Exact(f)
      /\ Exact(a) \in Nat /\ Exact(b) \in Nat /\ Exact(g) \in Nat /\ Exact(f) \in Nat
  <2>1. \A x \in {a, b, g, f} :
           /\ Cardinality(x.latest.dirs) \in Nat /\ Cardinality(x.latest.policies) \in Nat
           /\ Cardinality(x.earlier.dirs) \in Nat /\ Cardinality(x.earlier.policies) \in Nat
    BY <1>1, <1>2, <1>3, ExactSets
  <2>2. Exact(a) <= Exact(g) + 1 /\ (id \in f.latest.dirs => Exact(a) <= Exact(g))
    <3>1. /\ Cardinality(a.latest.policies) = Cardinality(g.latest.policies)
          /\ Cardinality(a.earlier.dirs) = Cardinality(g.earlier.dirs)
          /\ Cardinality(a.earlier.policies) = Cardinality(g.earlier.policies)
      BY <1>2
    <3>2. /\ Cardinality(a.latest.dirs) \in Nat /\ Cardinality(g.latest.dirs) \in Nat
          /\ Cardinality(g.latest.policies) \in Nat
          /\ Cardinality(g.earlier.dirs) \in Nat /\ Cardinality(g.earlier.policies) \in Nat
      BY <2>1
    <3>3. id \in f.latest.dirs <=> id \in g.latest.dirs
      BY <1>1
    <3> QED BY <1>6, <3>1, <3>2, <3>3 DEF Exact
  <2>3. id \in f.earlier.dirs => Exact(g) + 1 <= Exact(f)
    BY <1>1, <1>5, <2>1 DEF Exact
  <2>4. \A x \in {a, b, g, f} : Exact(x) \in Nat
    BY <2>1 DEF Exact
  <2> QED BY <2>2, <2>3, <2>4
<1>8. keep => Exact(a) <= ExactFailures
  BY <1>4, <1>7, Constants
<1>9. Exact(b) <= ExactFailures
  BY <1>4, <1>7, Constants
<1> QED BY <1>2, <1>3, <1>8, <1>9 DEF a, b, g

LEMMA KeepPolicy ==
  ASSUME NEW f \in Failures, Exact(f) <= ExactFailures, NEW id \in Identity
  PROVE  LET g == [f EXCEPT !.earlier.policies = @ \ {id}]
             full == f.earlier.policies = {} /\ Exact(f) >= ExactFailures
             keep == ~full /\ (id \in f.earlier.policies \/ id \in f.latest.policies
                                   \/ Exact(g) < ExactFailures)
             n == IF keep THEN [g EXCEPT !.latest.policies = @ \cup {id}]
                          ELSE [g EXCEPT !.latest.counted = TRUE]
         IN  n \in Failures /\ Exact(n) <= ExactFailures
<1> DEFINE g == [f EXCEPT !.earlier.policies = @ \ {id}]
           a == [g EXCEPT !.latest.policies = @ \cup {id}]
           b == [g EXCEPT !.latest.counted = TRUE]
           keep == id \in f.earlier.policies \/ id \in f.latest.policies
                       \/ Exact(g) < ExactFailures
<1>1. /\ g \in Failures /\ g.latest = f.latest /\ g.earlier.dirs = f.earlier.dirs
      /\ g.earlier.policies = f.earlier.policies \ {id}
  BY DEF Failures, Failed
<1> HIDE DEF g
<1>2. /\ a \in Failures /\ a.latest.policies = g.latest.policies \cup {id}
      /\ a.latest.dirs = g.latest.dirs /\ a.earlier = g.earlier
  BY <1>1 DEF Failures, Failed
<1>3. /\ b \in Failures /\ b.latest.dirs = g.latest.dirs
      /\ b.latest.policies = g.latest.policies /\ b.earlier = g.earlier
  BY <1>1 DEF Failures, Failed
<1> HIDE DEF a, b
<1>4. Exact(g) <= Exact(f) /\ Exact(b) <= Exact(f)
  <2>1. Exact(g) <= Exact(f)
    BY <1>1, ExactFewer
  <2>2. Exact(b) <= Exact(f)
    BY <1>1, <1>3, ExactFewer
  <2> QED BY <2>1, <2>2
<1>5. id \in f.earlier.policies
          => Cardinality(g.earlier.policies) = Cardinality(f.earlier.policies) - 1
  <2>1. IsFiniteSet(f.earlier.policies)
    BY ExactSets, IdentitiesFinite
  <2> QED BY <1>1, <2>1, FS_RemoveElement
<1>6. /\ Cardinality(a.latest.policies) <= Cardinality(g.latest.policies) + 1
      /\ id \in g.latest.policies
             => Cardinality(a.latest.policies) <= Cardinality(g.latest.policies)
  <2>1. g.latest.policies \in SUBSET Identity /\ a.latest.policies \in SUBSET Identity
    BY <1>1, <1>2, ExactSets
  <2> QED BY <1>2, <2>1, IdentitiesGrow
<1>7. /\ Exact(a) <= Exact(g) + 1
      /\ id \in f.latest.policies => Exact(a) <= Exact(g)
      /\ id \in f.earlier.policies => Exact(g) + 1 <= Exact(f)
      /\ Exact(a) \in Nat /\ Exact(b) \in Nat /\ Exact(g) \in Nat /\ Exact(f) \in Nat
  <2>1. \A x \in {a, b, g, f} :
           /\ Cardinality(x.latest.dirs) \in Nat /\ Cardinality(x.latest.policies) \in Nat
           /\ Cardinality(x.earlier.dirs) \in Nat /\ Cardinality(x.earlier.policies) \in Nat
    BY <1>1, <1>2, <1>3, ExactSets
  <2>2. Exact(a) <= Exact(g) + 1 /\ (id \in f.latest.policies => Exact(a) <= Exact(g))
    <3>1. /\ Cardinality(a.latest.dirs) = Cardinality(g.latest.dirs)
          /\ Cardinality(a.earlier.dirs) = Cardinality(g.earlier.dirs)
          /\ Cardinality(a.earlier.policies) = Cardinality(g.earlier.policies)
      BY <1>2
    <3>2. /\ Cardinality(a.latest.policies) \in Nat /\ Cardinality(g.latest.policies) \in Nat
          /\ Cardinality(g.latest.dirs) \in Nat
          /\ Cardinality(g.earlier.dirs) \in Nat /\ Cardinality(g.earlier.policies) \in Nat
      BY <2>1
    <3>3. id \in f.latest.policies <=> id \in g.latest.policies
      BY <1>1
    <3> QED BY <1>6, <3>1, <3>2, <3>3 DEF Exact
  <2>3. id \in f.earlier.policies => Exact(g) + 1 <= Exact(f)
    BY <1>1, <1>5, <2>1 DEF Exact
  <2>4. \A x \in {a, b, g, f} : Exact(x) \in Nat
    BY <2>1 DEF Exact
  <2> QED BY <2>2, <2>3, <2>4
<1>8. keep => Exact(a) <= ExactFailures
  BY <1>4, <1>7, Constants
<1>9. Exact(b) <= ExactFailures
  BY <1>4, <1>7, Constants
<1> QED BY <1>2, <1>3, <1>8, <1>9 DEF a, b, g

----------------------------------------------------------------------------
(* Arming.                                                                 *)

\* The hints and the time of the burst are as they were.
SameHints(n, w) ==
  n.pending = w.pending /\ n.first = w.first /\ n.last = w.last /\ n.inflight = w.inflight

\* A failure of a root is recorded as F.
Recorded(n, w, root, F) == n = [w EXCEPT !.gaps = @ \cup {root}, !.failures[root] = F]

LEMMA FailGood ==
  ASSUME NEW w, Good(w), NEW root \in Root, NEW F \in Failures, Exact(F) <= ExactFailures,
         NEW n, Recorded(n, w, root, F)
  PROVE  Good(n) /\ n.inflight = w.inflight
<1>1. /\ n \in StateType /\ SameHints(n, w) /\ n.identities = w.identities
      /\ n.failures = [w.failures EXCEPT ![root] = F]
  BY DEF Good, Capped, StateType, SameHints, Recorded
<1>2. \A r \in Root : Exact(n.failures[r]) <= ExactFailures
  <2>1. w.failures \in [Root -> Failures] /\ \A r \in Root : Exact(w.failures[r]) <= ExactFailures
    BY DEF Good, Capped, StateType
  <2> QED BY <1>1, <2>1
<1>3. Good(n)
  BY <1>1, <1>2 DEF Good, Capped, Timed, SameHints, Installed
<1> QED BY <1>1, <1>3 DEF SameHints

\* fail
LEMMA FailsGood ==
  ASSUME NEW w, Good(w), NEW root \in Root, NEW id \in Identity
  PROVE  /\ Good(FailDirectory(w, root, id)) /\ FailDirectory(w, root, id).inflight = w.inflight
         /\ Good(FailPolicy(w, root, id)) /\ FailPolicy(w, root, id).inflight = w.inflight
         /\ Good(FailLost(w, root)) /\ FailLost(w, root).inflight = w.inflight
<1> DEFINE f == Advanced(w.failures[root])
<1>1. f \in Failures /\ Exact(f) <= ExactFailures
  <2>1. w.failures[root] \in Failures /\ Exact(w.failures[root]) <= ExactFailures
    BY DEF Good, Capped, StateType
  <2>2. f \in Failures /\ Exact(f) <= Exact(w.failures[root])
    BY <2>1, AdvancedExact
  <2> HIDE DEF f
  <2>3. Exact(f) \in Nat /\ Exact(w.failures[root]) \in Nat
    BY <2>1, <2>2, ExactSets
  <2> QED BY <2>1, <2>2, <2>3, Constants
<1> HIDE DEF f
<1>2. /\ Good(FailDirectory(w, root, id)) /\ FailDirectory(w, root, id).inflight = w.inflight
  <2> DEFINE g == [f EXCEPT !.earlier.dirs = @ \ {id}]
             keep == id \in f.earlier.dirs \/ id \in f.latest.dirs \/ Exact(g) < ExactFailures
             F == IF keep THEN [g EXCEPT !.latest.dirs = @ \cup {id}]
                          ELSE [g EXCEPT !.latest.counted = TRUE]
  <2>1. F \in Failures /\ Exact(F) <= ExactFailures
    BY <1>1, KeepDirectory
  <2>2. Recorded(FailDirectory(w, root, id), w, root, F)
    BY DEF FailDirectory, f, Recorded
  <2> HIDE DEF F
  <2> QED BY <2>1, <2>2, FailGood
<1>3. /\ Good(FailPolicy(w, root, id)) /\ FailPolicy(w, root, id).inflight = w.inflight
  <2> DEFINE g == [f EXCEPT !.earlier.policies = @ \ {id}]
             full == f.earlier.policies = {} /\ Exact(f) >= ExactFailures
             keep == ~full /\ (id \in f.earlier.policies \/ id \in f.latest.policies
                                   \/ Exact(g) < ExactFailures)
             F == IF keep THEN [g EXCEPT !.latest.policies = @ \cup {id}]
                          ELSE [g EXCEPT !.latest.counted = TRUE]
  <2>1. F \in Failures /\ Exact(F) <= ExactFailures
    BY <1>1, KeepPolicy
  <2>2. Recorded(FailPolicy(w, root, id), w, root, F)
    BY DEF FailPolicy, f, Recorded
  <2> HIDE DEF F
  <2> QED BY <2>1, <2>2, FailGood
<1>4. Good(FailLost(w, root)) /\ FailLost(w, root).inflight = w.inflight
  <2> DEFINE F == [f EXCEPT !.latest.counted = TRUE]
  <2>1. /\ F \in Failures /\ F.latest.dirs = f.latest.dirs /\ F.latest.policies = f.latest.policies
        /\ F.earlier = f.earlier
    BY <1>1 DEF Failures, Failed
  <2>2. Recorded(FailLost(w, root), w, root, F)
    BY DEF FailLost, f, Recorded
  <2> HIDE DEF F
  <2>3. Exact(F) <= ExactFailures
    BY <1>1, <2>1 DEF Exact
  <2> QED BY <2>1, <2>2, <2>3, FailGood
<1> QED BY <1>2, <1>3, <1>4

\* A descriptor's identity is noted and the root's failures lose one.
LEMMA NotedGood ==
  ASSUME NEW w, Capped(w), NEW m, Good(m), InstalledIds(m) \subseteq InstalledIds(w),
         NEW n \in StateType, SameHints(n, m), NEW id \in Identity, NEW wd \in Wd,
         Installed(w) < WatchCap \/ w.identities[id] # 0,
         n.identities = [m.identities EXCEPT ![id] = wd],
         NEW root \in Root, NEW F \in Failures, n.failures = [m.failures EXCEPT ![root] = F],
         F.latest.dirs \subseteq m.failures[root].latest.dirs,
         F.latest.policies \subseteq m.failures[root].latest.policies,
         F.earlier.dirs \subseteq m.failures[root].earlier.dirs,
         F.earlier.policies \subseteq m.failures[root].earlier.policies
  PROVE  Good(n)
<1>1. InstalledIds(n) \subseteq InstalledIds(w) \cup {id}
  <2>1. m.identities \in [Identity -> 0 .. MaxWd]
    BY DEF Good, Capped, StateType
  <2>2. InstalledIds(n) \subseteq InstalledIds(m) \cup {id}
    BY <2>1 DEF InstalledIds
  <2> QED BY <2>2
<1>2. Installed(n) <= WatchCap
  <2>1. /\ InstalledIds(n) \in SUBSET Identity /\ InstalledIds(w) \in SUBSET Identity
        /\ Installed(n) = Cardinality(InstalledIds(n))
        /\ Installed(w) = Cardinality(InstalledIds(w)) /\ Installed(w) <= WatchCap
    BY DEF Capped, Installed, InstalledIds
  <2>2. Cardinality(InstalledIds(n)) \in Nat /\ Cardinality(InstalledIds(w)) \in Nat
    BY <2>1, IdentitiesFinite
  <2>3. /\ Installed(n) <= Installed(w) + 1
        /\ id \in InstalledIds(w) => Installed(n) <= Installed(w)
    BY <1>1, <2>1, IdentitiesGrow
  <2>4. w.identities[id] # 0 => id \in InstalledIds(w)
    BY DEF InstalledIds
  <2> QED BY <2>1, <2>2, <2>3, <2>4, Constants
<1>3. \A r \in Root : Exact(n.failures[r]) <= ExactFailures
  <2>1. m.failures \in [Root -> Failures] /\ \A r \in Root : Exact(m.failures[r]) <= ExactFailures
    BY DEF Good, Capped, StateType
  <2>2. Exact(F) <= Exact(m.failures[root])
    BY <2>1, ExactFewer
  <2>3. Exact(F) \in Nat /\ Exact(m.failures[root]) \in Nat
    BY <2>1, ExactSets
  <2>4. Exact(F) <= ExactFailures
    BY <2>1, <2>2, <2>3, Constants
  <2> QED BY <2>1, <2>4
<1> QED BY <1>2, <1>3 DEF Good, Capped, Timed, SameHints

\* What was expected to be ignored is given out again: a loss
LEMMA ReusedGood ==
  ASSUME NEW w, Good(w), NEW wd \in Wd
  PROVE  /\ Good(Reused(w, wd)) /\ Reused(w, wd).inflight = w.inflight
         /\ Reused(w, wd).identities = w.identities
<1> DEFINE a == [w EXCEPT !.removed = @ \ {wd}]
<1>1. /\ a \in StateType /\ a.identities = w.identities /\ a.failures = w.failures
      /\ a.inflight = w.inflight
  BY DEF Good, Capped, StateType
<1> HIDE DEF a
<1>2. Capped(a)
  BY <1>1, CappedSame DEF Good
<1>3. /\ Good(Loss(a, "Overflow")) /\ Loss(a, "Overflow").inflight = a.inflight
      /\ Loss(a, "Overflow").identities = a.identities
  BY <1>2, LossGood DEF Reason
<1> QED BY <1>1, <1>3 DEF a, Reused

\* repair_directory, repair_policy
LEMMA RepairFewer ==
  ASSUME NEW f \in Failures, NEW id, NEW g \in {RepairDirectory(f, id), RepairPolicy(f, id)}
  PROVE  /\ g \in Failures
         /\ g.latest.dirs \subseteq f.latest.dirs /\ g.latest.policies \subseteq f.latest.policies
         /\ g.earlier.dirs \subseteq f.earlier.dirs
         /\ g.earlier.policies \subseteq f.earlier.policies
<1>1. CASE g = RepairDirectory(f, id)
  BY <1>1 DEF Failures, Failed, RepairDirectory
<1>2. CASE g = RepairPolicy(f, id)
  BY <1>2 DEF Failures, Failed, RepairPolicy
<1> QED BY <1>1, <1>2

LEMMA AddDirectoryGood ==
  ASSUME NEW w, Good(w), NEW wd \in Wd, NEW id \in Identity, NEW place \in Place,
         Installed(w) < WatchCap \/ w.identities[id] # 0
  PROVE  LET n == AddDirectory(w, wd, id, place) IN Good(n) /\ n.inflight = w.inflight
<1> DEFINE reused == Reused(w, wd)
           mine == IF \E d \in reused.descriptors[wd] : d.id # id
                   THEN Loss(Forget(reused, wd), "Overflow") ELSE reused
           h == Home(place)
           F == RepairDirectory(mine.failures[h], id)
           n == [mine EXCEPT !.descriptors[wd] = @ \cup {[id |-> id, place |-> place]},
                             !.identities[id] = wd, !.failures[h] = F]
<1>1. Good(reused) /\ reused.inflight = w.inflight /\ reused.identities = w.identities
  BY ReusedGood
<1>2. AddDirectory(w, wd, id, place) =
         [mine EXCEPT !.descriptors[wd] = @ \cup {[id |-> id, place |-> place]},
                      !.identities[id] = wd,
                      !.failures[h] = RepairDirectory(@, id)]
  BY DEF AddDirectory
<1> HIDE DEF reused
<1>3. /\ Good(mine) /\ mine.inflight = w.inflight /\ InstalledIds(mine) \subseteq InstalledIds(w)
  <2>1. /\ Capped(Forget(reused, wd)) /\ Forget(reused, wd).inflight = w.inflight
        /\ InstalledIds(Forget(reused, wd)) \subseteq InstalledIds(reused)
    BY <1>1, ForgetCapped DEF Good
  <2>2. LET l == Loss(Forget(reused, wd), "Overflow")
        IN  Good(l) /\ l.inflight = w.inflight /\ l.identities = Forget(reused, wd).identities
    BY <2>1, LossGood DEF Reason
  <2> QED BY <1>1, <2>1, <2>2 DEF InstalledIds
<1> HIDE DEF mine
<1>4. h \in Root
  BY Constants
<1> HIDE DEF h
<1>5. mine \in StateType /\ mine.failures[h] \in Failures /\ mine.failures \in [Root -> Failures]
  BY <1>3, <1>4 DEF Good, Capped, StateType
<1>6. /\ F \in Failures
      /\ F.latest.dirs \subseteq mine.failures[h].latest.dirs
      /\ F.latest.policies \subseteq mine.failures[h].latest.policies
      /\ F.earlier.dirs \subseteq mine.failures[h].earlier.dirs
      /\ F.earlier.policies \subseteq mine.failures[h].earlier.policies
  BY <1>5, RepairFewer
<1>7. AddDirectory(w, wd, id, place) = n
  BY <1>2
<1> HIDE DEF F
<1>8. wd \in 0 .. MaxWd /\ [id |-> id, place |-> place] \in Directory
  BY Constants DEF Directory
<1>9. /\ n \in StateType /\ SameHints(n, mine) /\ n.identities = [mine.identities EXCEPT ![id] = wd]
      /\ n.failures = [mine.failures EXCEPT ![h] = F]
  BY <1>4, <1>5, <1>6, <1>8 DEF StateType, SameHints
<1> HIDE DEF n
<1>10. Good(n)
  BY <1>3, <1>4, <1>6, <1>9, NotedGood DEF Good
<1> QED BY <1>3, <1>7, <1>9, <1>10 DEF SameHints

\* arm_at
LEMMA ArmAtGood ==
  ASSUME NEW w, Good(w), NEW k, Sane(k), NEW place \in Place, NEW id \in Identity,
         NEW ok \in BOOLEAN
  PROVE  LET n == ArmAt(w, k, place, id, ok)
         IN  Good(n.watch) /\ Sane(n.kernel) /\ n.watch.inflight = w.inflight
<1> DEFINE root == Home(place)
           a == [w EXCEPT !.unreliable = @ \cup {root}]
           c == IF root \in Network THEN a ELSE w
           refused == [watch |-> FailDirectory(c, root, id), kernel |-> k]
           added == [watch |-> AddDirectory(c, WdFor(k, id), id, place), kernel |-> AddWatch(k, id)]
<1>1. root \in Root
  BY Constants
<1>2. ArmAt(w, k, place, id, ok) =
         IF ~ParentWatched(w, place) THEN refused
         ELSE IF Watched(w, id, place) THEN [watch |-> c, kernel |-> k]
         ELSE IF Installed(w) >= WatchCap /\ w.identities[id] = 0 THEN refused
         ELSE IF ~ok THEN refused ELSE added
  BY DEF ArmAt
<1> HIDE DEF root
<1>3. /\ a \in StateType /\ SameHints(a, w) /\ a.identities = w.identities /\ a.failures = w.failures
  BY <1>1 DEF Good, Capped, StateType, SameHints
<1> HIDE DEF a
<1>4. Good(c) /\ c.inflight = w.inflight /\ c.identities = w.identities
  BY <1>3, CappedSame DEF Good, Timed, SameHints
<1> HIDE DEF c
<1>5. Good(refused.watch) /\ Sane(refused.kernel) /\ refused.watch.inflight = w.inflight
  BY <1>1, <1>4, FailsGood
<1>6. ASSUME ~ (Installed(w) >= WatchCap /\ w.identities[id] = 0)
      PROVE  Good(added.watch) /\ Sane(added.kernel) /\ added.watch.inflight = w.inflight
  <2>1. Installed(c) < WatchCap \/ c.identities[id] # 0
    <3>1. Installed(c) = Cardinality(InstalledIds(w)) /\ Installed(w) = Cardinality(InstalledIds(w))
      BY <1>4 DEF Installed, InstalledIds
    <3>2. Cardinality(InstalledIds(w)) \in Nat
      BY IdentitiesFinite DEF InstalledIds
    <3> QED BY <1>4, <1>6, <3>1, <3>2, Constants
  <2>2. WdFor(k, id) \in Wd /\ Sane(AddWatch(k, id))
    BY WdForIn, AddWatchSane
  <2> QED BY <1>4, <2>1, <2>2, AddDirectoryGood
<1> HIDE DEF refused, added
<1> QED BY <1>2, <1>4, <1>5, <1>6

LEMMA AddInputGood ==
  ASSUME NEW w, Good(w), NEW wd \in Wd, NEW id \in Identity, NEW root \in Root,
         Installed(w) < WatchCap \/ w.identities[id] # 0
  PROVE  LET n == AddInput(w, wd, id, root) IN Good(n) /\ n.inflight = w.inflight
<1> DEFINE mine == Reused(w, wd)
           F == RepairPolicy(mine.failures[root], id)
           n == [mine EXCEPT !.identities[id] = wd,
                     !.policies[wd] = {i \in @ : i.root # root} \cup {[root |-> root, now |-> TRUE]},
                     !.failures[root] = F]
<1>1. AddInput(w, wd, id, root) = n
  BY DEF AddInput
<1>2. Good(mine) /\ mine.inflight = w.inflight /\ InstalledIds(mine) \subseteq InstalledIds(w)
  BY ReusedGood DEF InstalledIds
<1> HIDE DEF mine
<1>3. mine \in StateType /\ mine.failures[root] \in Failures
  BY <1>2 DEF Good, Capped, StateType
<1>4. /\ F \in Failures
      /\ F.latest.dirs \subseteq mine.failures[root].latest.dirs
      /\ F.latest.policies \subseteq mine.failures[root].latest.policies
      /\ F.earlier.dirs \subseteq mine.failures[root].earlier.dirs
      /\ F.earlier.policies \subseteq mine.failures[root].earlier.policies
  BY <1>3, RepairFewer
<1> HIDE DEF F
<1>5. wd \in 0 .. MaxWd /\ [root |-> root, now |-> TRUE] \in Input
  BY Constants DEF Input
<1>6. /\ n \in StateType /\ SameHints(n, mine) /\ n.identities = [mine.identities EXCEPT ![id] = wd]
      /\ n.failures = [mine.failures EXCEPT ![root] = F]
  BY <1>3, <1>4, <1>5 DEF StateType, SameHints
<1> HIDE DEF n
<1>7. Good(n)
  BY <1>2, <1>4, <1>6, NotedGood DEF Good
<1> QED BY <1>1, <1>2, <1>6, <1>7 DEF SameHints

\* watch_input
LEMMA WatchInputGood ==
  ASSUME NEW w, Good(w), NEW k, Sane(k), NEW root \in Root, NEW id \in Identity,
         NEW ok \in BOOLEAN
  PROVE  LET n == WatchInput(w, k, root, id, ok)
         IN  Good(n.watch) /\ Sane(n.kernel) /\ n.watch.inflight = w.inflight
<1> DEFINE full == Installed(w) >= WatchCap
           known == w.identities[id] # 0
           wd == IF known THEN w.identities[id] ELSE WdFor(k, id)
           refused == [watch |-> FailPolicy(w, root, id), kernel |-> k]
           a == [w EXCEPT !.removed = @ \cup {wd}]
           undone == [watch |-> FailPolicy(a, root, id), kernel |-> RemoveWatch(k, wd)]
           added == [watch |-> AddInput(w, wd, id, root),
                     kernel |-> IF known THEN k ELSE AddWatch(k, id)]
<1>1. WatchInput(w, k, root, id, ok) =
         IF full /\ ~known THEN refused
         ELSE IF ~known /\ ~ok THEN refused
         ELSE IF full /\ w.policies[wd] = {} /\ w.descriptors[wd] = {} THEN undone ELSE added
  BY DEF WatchInput
<1>2. wd \in Wd
  <2>1. CASE known
    BY <2>1 DEF Good, Capped, StateType, Wd
  <2>2. CASE ~known
    BY <2>2, WdForIn
  <2> QED BY <2>1, <2>2
<1> HIDE DEF wd
<1>3. Good(refused.watch) /\ Sane(refused.kernel) /\ refused.watch.inflight = w.inflight
  BY FailsGood
<1>4. Good(undone.watch) /\ Sane(undone.kernel) /\ undone.watch.inflight = w.inflight
  <2>1. a \in StateType /\ SameHints(a, w) /\ a.identities = w.identities /\ a.failures = w.failures
    BY <1>2 DEF Good, Capped, StateType, SameHints
  <2> HIDE DEF a
  <2>2. Good(a) /\ a.inflight = w.inflight
    BY <2>1, CappedSame DEF Good, Timed, SameHints
  <2> QED BY <1>2, <2>2, FailsGood, RemoveWatchSane
<1>5. ASSUME ~ (full /\ ~known)
      PROVE  Good(added.watch) /\ Sane(added.kernel) /\ added.watch.inflight = w.inflight
  <2>1. Installed(w) < WatchCap \/ w.identities[id] # 0
    <3>1. Installed(w) \in Nat
      BY IdentitiesFinite DEF Installed
    <3> QED BY <1>5, <3>1, Constants
  <2>2. Sane(AddWatch(k, id))
    BY AddWatchSane
  <2> HIDE DEF known
  <2> QED BY <1>2, <2>1, <2>2, AddInputGood
<1> HIDE DEF refused, undone, added, full, known
<1> QED BY <1>1, <1>3, <1>4, <1>5

----------------------------------------------------------------------------
(* Epochs and retiring.                                                    *)

\* begin_policy_root
LEMMA BeginGood ==
  ASSUME NEW w, Good(w), NEW root \in Root
  PROVE  Good(BeginPolicyRoot(w, root)) /\ BeginPolicyRoot(w, root).inflight = w.inflight
<1> DEFINE pol == [wd \in Wd |-> {IF i.root = root THEN [i EXCEPT !.now = FALSE] ELSE i :
                                      i \in w.policies[wd]}]
           F == [w.failures[root] EXCEPT !.now = FALSE]
           n == [w EXCEPT !.policies = pol, !.failures[root] = F,
                          !.refreshed = @ \cup {root}, !.unreliable = @ \ {root}]
<1>1. w \in StateType /\ w.failures[root] \in Failures /\ w.policies \in [Wd -> SUBSET Input]
  BY DEF Good, Capped, StateType
<1>2. BeginPolicyRoot(w, root) = n
  BY <1>1 DEF BeginPolicyRoot
<1>3. pol \in [Wd -> SUBSET Input]
  <2>1. \A i \in Input : (IF i.root = root THEN [i EXCEPT !.now = FALSE] ELSE i) \in Input
    BY DEF Input
  <2> QED BY <1>1, <2>1
<1>4. F \in Failures /\ F.latest = w.failures[root].latest /\ F.earlier = w.failures[root].earlier
  BY <1>1 DEF Failures
<1> HIDE DEF pol, F
<1>5. /\ n \in StateType /\ SameHints(n, w) /\ n.identities = w.identities
      /\ n.failures = [w.failures EXCEPT ![root] = F]
  BY <1>1, <1>3, <1>4 DEF StateType, SameHints
<1> HIDE DEF n
<1>6. Exact(F) = Exact(w.failures[root])
  BY <1>4 DEF Exact
<1>7. \A r \in Root : Exact(n.failures[r]) <= ExactFailures
  <2>1. w.failures \in [Root -> Failures] /\ \A r \in Root : Exact(w.failures[r]) <= ExactFailures
    BY DEF Good, Capped, StateType
  <2> QED BY <1>5, <1>6, <2>1
<1>8. Good(n)
  BY <1>5, <1>7 DEF Good, Capped, Timed, SameHints, Installed
<1> QED BY <1>2, <1>5, <1>8 DEF SameHints

LEMMA KeptFailuresExact ==
  ASSUME NEW w, Good(w), NEW protected, NEW root \in Root
  PROVE  /\ KeptFailures(w, protected, root) \in Failures
         /\ Exact(KeptFailures(w, protected, root)) <= ExactFailures
<1> DEFINE f == w.failures[root]
           h == [f EXCEPT !.earlier = NoFailed]
           g == IF root \in w.refreshed /\ root \notin protected THEN h ELSE f
<1>1. f \in Failures /\ Exact(f) <= ExactFailures /\ NoFailed \in Failed
  BY DEF Good, Capped, StateType, Failed, NoFailed
<1>2. KeptFailures(w, protected, root)
         = IF ~Empty(g) /\ Renewed(w, protected, root, g.now) THEN g ELSE NoFailures
  BY DEF KeptFailures
<1> HIDE DEF f
<1>3. /\ h \in Failures /\ h.latest = f.latest /\ h.earlier.dirs = {} /\ h.earlier.policies = {}
  BY <1>1 DEF Failures, NoFailed
<1>4. NoFailures \in Failures /\ Exact(NoFailures) = 0
  <2>1. NoFailures \in Failures
    BY <1>1 DEF NoFailures, Failures
  <2> QED BY <2>1, FS_EmptySet DEF Exact, NoFailures, NoFailed
<1> HIDE DEF h
<1>5. Exact(h) <= Exact(f)
  BY <1>1, <1>3, ExactFewer
<1>6. Exact(h) \in Nat /\ Exact(f) \in Nat
  BY <1>1, <1>3, ExactSets
<1>7. g \in Failures /\ Exact(g) <= ExactFailures
  BY <1>1, <1>3, <1>5, <1>6, Constants
<1> HIDE DEF g
<1> QED BY <1>2, <1>4, <1>7, Constants

\* retire_policies
LEMMA RetirePoliciesGood ==
  ASSUME NEW w, Good(w), NEW protected
  PROVE  LET n == RetirePolicies(w, protected) IN Good(n) /\ n.inflight = w.inflight
<1> DEFINE fail == [r \in Root |-> KeptFailures(w, protected, r)]
           ids == [i \in Identity |->
                      IF w.identities[i] \in Retired(w, protected) THEN 0 ELSE w.identities[i]]
           pol == KeptPolicies(w, protected)
           gaps == w.unreliable \cup {r \in Root : ~Empty(fail[r])}
           n == [w EXCEPT !.refreshed = {}, !.failures = fail, !.policies = pol,
                          !.identities = ids, !.gaps = gaps]
<1>1. RetirePolicies(w, protected) = n
  <2>1. w \in StateType
    BY DEF Good, Capped
  <2> QED BY <2>1 DEF RetirePolicies, StateType
<1>2. /\ fail \in [Root -> Failures] /\ \A r \in Root : Exact(fail[r]) <= ExactFailures
  BY KeptFailuresExact
<1>3. /\ w \in StateType /\ w.identities \in [Identity -> 0 .. MaxWd] /\ w.unreliable \subseteq Root
      /\ w.policies \in [Wd -> SUBSET Input]
  BY DEF Good, Capped, StateType
<1>4. ids \in [Identity -> 0 .. MaxWd]
  BY <1>3, Constants
<1>5. \A i \in Identity : ids[i] # 0 => w.identities[i] # 0
  BY <1>3
<1>6. pol \in [Wd -> SUBSET Input] /\ gaps \subseteq Root
  BY <1>3 DEF KeptPolicies
<1> HIDE DEF fail, ids, pol, gaps
<1>7. n \in StateType /\ SameHints(n, w) /\ n.identities = ids /\ n.failures = fail
  BY <1>2, <1>3, <1>4, <1>6 DEF StateType, SameHints
<1> DEFINE u == [w EXCEPT !.identities = ids]
<1>8. u \in StateType /\ u.failures = w.failures /\ u.identities = ids
  BY <1>3, <1>4 DEF StateType
<1> HIDE DEF n, u
<1>9. Capped(u)
  <2>1. InstalledIds(u) \subseteq InstalledIds(w)
    BY <1>5, <1>8 DEF InstalledIds
  <2> QED BY <1>8, <2>1, CappedFewer DEF Good
<1>10. Good(n)
  BY <1>2, <1>7, <1>8, <1>9 DEF Good, Capped, Timed, SameHints, Installed
<1> QED BY <1>1, <1>7, <1>10 DEF SameHints

\* A watch is removed.
LEMMA RemoveKnownGood ==
  ASSUME NEW w, Good(w), NEW k, Sane(k), NEW wd \in Wd
  PROVE  LET n == RemoveKnown(w, k, wd)
         IN  Good(n.watch) /\ Sane(n.kernel) /\ n.watch.inflight = w.inflight
<1> DEFINE a == [w EXCEPT !.removed = @ \cup {x \in {wd} : k.live[x] # None}]
<1>1. a \in StateType /\ SameHints(a, w) /\ a.identities = w.identities /\ a.failures = w.failures
  BY DEF Good, Capped, StateType, SameHints
<1>2. RemoveKnown(w, k, wd) = [watch |-> a, kernel |-> RemoveWatch(k, wd)]
  BY DEF RemoveKnown
<1> HIDE DEF a
<1>3. Good(a) /\ a.inflight = w.inflight
  BY <1>1, CappedSame DEF Good, Timed, SameHints
<1> QED BY <1>2, <1>3, RemoveWatchSane

\* retire_descriptor
LEMMA RetireDescriptorGood ==
  ASSUME NEW w, Good(w), NEW k, Sane(k), NEW v, NEW wd \in Wd, NEW dirs \in SUBSET Directory
  PROVE  LET n == RetireDescriptor(w, k, v, wd, dirs)
         IN  Good(n.watch) /\ Sane(n.kernel) /\ n.watch.inflight = w.inflight
<1> DEFINE kept == {d \in dirs : Resolves(v, d)}
           dropped == [w EXCEPT !.descriptors[wd] = {}]
           some == [w EXCEPT !.descriptors[wd] = kept]
           r == RemoveKnown(Forget(dropped, wd), k, wd)
<1>1. RetireDescriptor(w, k, v, wd, dirs) =
         IF w.descriptors[wd] # dirs THEN [watch |-> w, kernel |-> k]
         ELSE IF kept # {} THEN [watch |-> some, kernel |-> k]
         ELSE IF ~ (w.policies[wd] = {}) THEN [watch |-> dropped, kernel |-> k]
         ELSE r
  BY DEF RetireDescriptor
<1>2. kept \subseteq Directory
  OBVIOUS
<1> HIDE DEF kept
<1>3. /\ dropped \in StateType /\ SameHints(dropped, w)
      /\ dropped.identities = w.identities /\ dropped.failures = w.failures
  BY DEF Good, Capped, StateType, SameHints
<1>4. /\ some \in StateType /\ SameHints(some, w)
      /\ some.identities = w.identities /\ some.failures = w.failures
  BY <1>2 DEF Good, Capped, StateType, SameHints
<1> HIDE DEF dropped, some
<1>5. Good(dropped) /\ Good(some) /\ dropped.inflight = w.inflight /\ some.inflight = w.inflight
  BY <1>3, <1>4, CappedSame DEF Good, Timed, SameHints
<1>6. Good(Forget(dropped, wd)) /\ Forget(dropped, wd).inflight = w.inflight
  BY <1>5, ForgetCapped DEF Good, Timed
<1>7. Good(r.watch) /\ Sane(r.kernel) /\ r.watch.inflight = w.inflight
  BY <1>6, RemoveKnownGood
<1> HIDE DEF r
<1> QED BY <1>1, <1>5, <1>7

----------------------------------------------------------------------------
(* Changes of the disk, and the intake thread.                             *)

LEMMA SpendInv ==
  ASSUME SpentInv, \/ Spend("changes", MaxChanges) \/ Spend("faults", MaxFaults)
                   \/ Spend("timers", MaxTimers) \/ Spend("commands", MaxCommands)
                   \/ UNCHANGED spent
  PROVE  SpentInv'
<1>1. MaxChanges \in Nat /\ MaxFaults \in Nat /\ MaxTimers \in Nat /\ MaxCommands \in Nat
  BY DiskAssumption
<1>2. CASE Spend("changes", MaxChanges)
  BY <1>1, <1>2 DEF SpentInv, Spend
<1>3. CASE Spend("faults", MaxFaults)
  BY <1>1, <1>3 DEF SpentInv, Spend
<1>4. CASE Spend("timers", MaxTimers)
  BY <1>1, <1>4 DEF SpentInv, Spend
<1>5. CASE Spend("commands", MaxCommands)
  BY <1>1, <1>5 DEF SpentInv, Spend
<1>6. CASE UNCHANGED spent
  BY <1>6 DEF SpentInv
<1> QED BY <1>2, <1>3, <1>4, <1>5, <1>6

\* What was read of some places is old.
LEMMA OutdatedInv ==
  ASSUME WriterInv, NEW places, Outdated(places), UNCHANGED watch
  PROVE  WriterInv'
<1> DEFINE old == [p \in Place |-> IF p \in places /\ writer.seen[p] = "current"
                                   THEN "behind" ELSE writer.seen[p]]
<1>1. old \in [Place -> {"no", "current", "behind", "fault"}]
  BY DEF WriterInv, Walks, WriterType
<1>2. writer' = [writer EXCEPT !.seen = old]
  BY DEF Outdated, WriterInv, Walks, WriterType
<1> HIDE DEF old
<1>3. /\ writer' \in WriterType /\ writer'.burst = writer.burst /\ writer'.left = writer.left
      /\ writer'.found = writer.found /\ writer'.at = writer.at /\ writer'.sub = writer.sub
      /\ writer'.root = writer.root
  BY <1>1, <1>2 DEF WriterInv, Walks, WriterType
<1> QED BY <1>3 DEF WriterInv, Walks

LEMMA ChangedInv ==
  ASSUME WatchInv, NEW places \in SUBSET Place, NEW told, Sane(told), Changed(places, told),
         disk' \in Tree, \A c \in Sub : disk'[c] \in SubId \cup {None}, dead' \subseteq SubId
  PROVE  WatchInv'
<1>1. /\ dirty' \subseteq Place /\ UNCHANGED <<view, retained, watch>>
      /\ Outdated(places) /\ Spend("changes", MaxChanges) /\ kernel' \in {told, kernel}
  BY DEF Changed
<1>2. TreeInv'
  BY <1>1 DEF WatchInv, TreeInv
<1>3. Sane(kernel') /\ Good(watch')
  BY <1>1 DEF WatchInv
<1>4. WriterInv'
  BY <1>1, OutdatedInv DEF WatchInv
<1>5. SpentInv'
  BY <1>1, SpendInv DEF WatchInv
<1> QED BY <1>2, <1>3, <1>4, <1>5 DEF WatchInv

\* The identities on the disk
LEMMA OnDisk ==
  ASSUME TreeInv
  PROVE  /\ \A p \in Place : disk[p] # None => disk[p] \in Identity
         /\ \A c \in Sub : disk[c] # None => disk[c] \in SubId
         /\ Sub \subseteq Place /\ Root \subseteq Place
         /\ disk \in [Place -> Identity \cup {None}]
BY DEF TreeInv, Tree, Place

LEMMA EditInv ==
  ASSUME WatchInv, NEW p, (p \in Place /\ (EditFile(p) \/ EditRules(p))) \/ EditGlobalRules
  PROVE  WatchInv'
<1>1. Sane(kernel) /\ TreeInv /\ UNCHANGED <<disk, dead>>
  BY DEF WatchInv, EditFile, EditRules, EditGlobalRules
<1>2. disk' \in Tree /\ (\A c \in Sub : disk'[c] \in SubId \cup {None}) /\ dead' \subseteq SubId
  BY <1>1 DEF TreeInv
<1>3. CASE p \in Place /\ EditFile(p)
  <2>1. disk[p] \in Identity
    BY <1>1, <1>3, OnDisk DEF EditFile
  <2>2. Sane(Told(kernel, disk[p], "file"))
    BY <1>1, <2>1, ToldSane DEF Name
  <2>3. Changed({p}, Told(kernel, disk[p], "file")) /\ {p} \in SUBSET Place
    BY <1>3 DEF EditFile
  <2> QED BY <1>2, <2>2, <2>3, ChangedInv
<1>4. CASE p \in Place /\ EditRules(p)
  <2> DEFINE places == IF p \in Root THEN PlacesOf({p}) ELSE {p}
  <2>1. disk[p] \in Identity /\ places \in SUBSET Place
    BY <1>1, <1>4, OnDisk DEF EditRules, PlacesOf
  <2>2. Sane(Told(kernel, disk[p], "rules"))
    BY <1>1, <2>1, ToldSane DEF Name
  <2>3. Changed(places, Told(kernel, disk[p], "rules"))
    BY <1>4 DEF EditRules
  <2> HIDE DEF places
  <2> QED BY <1>2, <2>1, <2>2, <2>3, ChangedInv
<1>5. CASE EditGlobalRules
  <2>1. Sane(Told(kernel, Outer, "rules"))
    BY <1>1, ToldSane, Constants DEF Name
  <2>2. Changed(Place, Told(kernel, Outer, "rules"))
    BY <1>5 DEF EditGlobalRules
  <2> QED BY <1>2, <2>1, <2>2, ChangedInv
<1> QED BY <1>3, <1>4, <1>5

LEMMA MakeInv ==
  ASSUME WatchInv, NEW c \in Sub, NEW id \in SubId, MakeDir(c, id)
  PROVE  WatchInv'
<1>1. /\ Sane(kernel) /\ TreeInv /\ UNCHANGED dead /\ disk' = [disk EXCEPT ![c] = id]
      /\ Changed({c}, Told(kernel, RootOf[c], c))
  BY DEF WatchInv, MakeDir
<1>2. disk' \in Tree /\ (\A x \in Sub : disk'[x] \in SubId \cup {None}) /\ dead' \subseteq SubId
  <2>1. c \in Place /\ Sub \subseteq Place /\ id \in Identity
    BY <1>1, OnDisk, Constants
  <2> QED BY <1>1, <2>1 DEF TreeInv, Tree
<1>3. Sane(Told(kernel, RootOf[c], c))
  <2>1. RootOf[c] \in Identity /\ c \in Name
    BY Constants DEF Name
  <2> QED BY <1>1, <2>1, ToldSane
<1>4. {c} \in SUBSET Place
  BY DEF Place
<1> QED BY <1>1, <1>2, <1>3, <1>4, ChangedInv

LEMMA MoveInv ==
  ASSUME WatchInv, NEW c \in Sub, NEW d \in Sub, MoveDirOut(c) \/ MoveDir(c, d)
  PROVE  WatchInv'
<1>1. Sane(kernel) /\ TreeInv /\ UNCHANGED dead /\ disk[c] # None
  BY DEF WatchInv, MoveDirOut, MoveDir
<1>2. /\ disk[c] \in Identity /\ disk[c] \in SubId /\ c \in Place /\ d \in Place
      /\ RootOf[c] \in Identity /\ RootOf[d] \in Identity /\ c \in Name /\ d \in Name
      /\ "self" \in Name
  BY <1>1, OnDisk, Constants DEF Name
<1>3. /\ Sub \subseteq Place /\ disk \in [Place -> Identity \cup {None}] /\ dead' \subseteq SubId
      /\ \A x \in Sub : disk[x] \in SubId \cup {None}
  BY <1>1, OnDisk DEF TreeInv
<1> DEFINE k1 == Told(kernel, RootOf[c], c)
           k2 == Told(k1, RootOf[d], d)
<1>4. Sane(k1)
  BY <1>1, <1>2, ToldSane
<1> HIDE DEF k1
<1>5. Sane(k2) /\ Sane(Told(k1, disk[c], "self"))
  BY <1>2, <1>4, ToldSane
<1> HIDE DEF k2
<1>6. Sane(Told(k2, disk[c], "self"))
  BY <1>2, <1>5, ToldSane
<1>7. CASE MoveDirOut(c)
  <2>1. /\ disk' = [disk EXCEPT ![c] = None] /\ Changed({c}, Told(k1, disk[c], "self"))
    BY <1>7 DEF MoveDirOut, k1
  <2>2. disk' \in Tree /\ (\A x \in Sub : disk'[x] \in SubId \cup {None})
    BY <1>2, <1>3, <2>1 DEF Tree
  <2>3. {c} \in SUBSET Place
    BY <1>2
  <2> QED BY <1>3, <1>5, <2>1, <2>2, <2>3, ChangedInv
<1>8. CASE MoveDir(c, d)
  <2>1. /\ disk' = [disk EXCEPT ![c] = None, ![d] = disk[c]]
        /\ Changed({c, d}, Told(k2, disk[c], "self"))
    BY <1>8 DEF MoveDir, k1, k2
  <2>2. disk' \in Tree /\ (\A x \in Sub : disk'[x] \in SubId \cup {None})
    BY <1>2, <1>3, <2>1 DEF Tree
  <2>3. {c, d} \in SUBSET Place
    BY <1>2
  <2> QED BY <1>3, <1>6, <2>1, <2>2, <2>3, ChangedInv
<1> QED BY <1>7, <1>8

LEMMA RemoveInv ==
  ASSUME WatchInv, NEW c \in Sub, RemoveDir(c)
  PROVE  WatchInv'
<1>1. Sane(kernel) /\ TreeInv /\ disk[c] # None
  BY DEF WatchInv, RemoveDir
<1>2. /\ disk[c] \in Identity /\ disk[c] \in SubId /\ c \in Place
      /\ RootOf[c] \in Identity /\ c \in Name /\ "self" \in Name
  BY <1>1, OnDisk, Constants DEF Name
<1> DEFINE k1 == Told(kernel, disk[c], "self")
           k2 == Told(k1, disk[c], "IGNORED")
           k3 == Told(k2, RootOf[c], c)
           drop == {wd \in Wd : k3.live[wd] = disk[c]}
<1>3. Sane(k3)
  <2>1. Sane(k1)
    BY <1>1, <1>2, ToldSane
  <2> HIDE DEF k1
  <2>2. Sane(k2)
    BY <1>2, <2>1, ToldSane
  <2> HIDE DEF k2
  <2> QED BY <1>2, <2>2, ToldSane
<1>4. kernel' = [k3 EXCEPT !.live = [wd \in Wd |-> IF @[wd] = disk[c] THEN None ELSE @[wd]]]
  BY DEF RemoveDir
<1> HIDE DEF k3
<1>5. Sane(kernel')
  <2>1. k3.queue \in Seq(Event) /\ k3 \in KernelType
    BY <1>3 DEF Sane, KernelType
  <2>2. kernel' = [k3 EXCEPT !.live = [wd \in Wd |-> IF wd \in drop THEN None ELSE @[wd]],
                             !.queue = k3.queue]
    BY <1>4, <2>1 DEF KernelType
  <2> HIDE DEF drop
  <2>3. drop \in SUBSET Wd
    BY DEF drop
  <2> QED BY <1>3, <2>1, <2>2, <2>3, DropSane
<1>6. /\ disk' = [disk EXCEPT ![c] = None] /\ dead' = dead \cup {disk[c]}
      /\ Spend("changes", MaxChanges) /\ dirty' = dirty \ {c} /\ Outdated({c})
      /\ UNCHANGED <<view, retained, watch>>
  BY DEF RemoveDir
<1>7. TreeInv'
  <2>1. Sub \subseteq Place
    BY <1>1, OnDisk
  <2> QED BY <1>1, <1>2, <1>6, <2>1 DEF TreeInv, Tree
<1>8. WriterInv' /\ Good(watch') /\ SpentInv'
  BY <1>6, OutdatedInv, SpendInv DEF WatchInv
<1> QED BY <1>5, <1>7, <1>8 DEF WatchInv

LEMMA IntakeInv ==
  ASSUME WatchInv, Intake
  PROVE  WatchInv'
<1>1. /\ kernel.queue # <<>> /\ watch' = Taken(watch, Head(kernel.queue))
      /\ kernel' = [kernel EXCEPT !.queue = Tail(@)]
      /\ UNCHANGED <<disk, view, dirty, retained, dead, writer, spent>>
  BY DEF Intake
<1>2. kernel \in KernelType /\ kernel.queue \in Seq(Event)
  BY DEF WatchInv, Sane, KernelType
<1>3. Head(kernel.queue) \in Event /\ Tail(kernel.queue) \in Seq(Event)
  <2> DEFINE q == kernel.queue
  <2> q \in Seq(Event) /\ q # <<>>
    BY <1>1, <1>2
  <2> HIDE DEF q
  <2>1. Head(q) \in Event /\ Tail(q) \in Seq(Event)
    OBVIOUS
  <2> QED BY <2>1 DEF q
<1>4. Good(watch') /\ watch'.inflight = watch.inflight
  BY <1>1, <1>3, TakenGood DEF WatchInv
<1>5. Sane(kernel')
  <2>1. kernel' \in KernelType /\ kernel'.live = kernel.live
    BY <1>1, <1>2, <1>3 DEF KernelType
  <2> QED BY <2>1 DEF WatchInv, Sane, LiveOnce
<1>6. TreeInv' /\ SpentInv' /\ WriterInv'
  BY <1>1, <1>4 DEF WatchInv, TreeInv, SpentInv, WriterInv
<1> QED BY <1>4, <1>5, <1>6 DEF WatchInv

----------------------------------------------------------------------------
(* The writer.                                                             *)

LEMMA MayFailInv ==
  ASSUME SpentInv, NEW ok, NEW id, MayFail(ok, id)
  PROVE  SpentInv'
<1>1. Spend("faults", MaxFaults) \/ UNCHANGED spent
  BY DEF MayFail
<1> QED BY <1>1, SpendInv

\* A step of the writer that leaves disk and catalog alone
LEMMA WriterStep ==
  ASSUME WatchInv, UNCHANGED <<disk, view, dirty, retained, dead>>, SpentInv',
         Sane(kernel'), Good(watch'), Walks(writer', watch'.inflight)
  PROVE  WatchInv'
<1>1. TreeInv'
  BY DEF WatchInv, TreeInv
<1> QED BY <1>1 DEF WatchInv, WriterInv

LEMMA IdleWalks ==
  ASSUME NEW timed
  PROVE  Walks(IdleWriter, timed)
<1>1. NoBurst \in Burst /\ NoBurst.pending = {}
  BY DEF NoBurst, Burst, NoMarker, Marker, Reason
<1>2. IdleWriter \in WriterType
  BY <1>1 DEF IdleWriter, WriterType
<1>3. /\ IdleWriter.burst = NoBurst /\ IdleWriter.left = {} /\ IdleWriter.at = "idle"
  BY DEF IdleWriter
<1> QED BY <1>1, <1>2, <1>3, FS_EmptySet DEF Walks

LEMMA PollInv ==
  ASSUME WatchInv, Poll \/ BackstopDue
  PROVE  WatchInv'
<1>1. CASE Poll
  <2>1. Polled \subseteq Root
    BY Constants DEF Polled, WatchInv, TreeInv, Good, Capped, StateType
  <2>2. /\ watch' = [watch EXCEPT !.scoped = @ \cup Polled]
        /\ UNCHANGED <<disk, view, dirty, retained, dead, kernel, writer, spent>>
    BY <1>1 DEF Poll
  <2>3. /\ watch' \in StateType /\ SameHints(watch', watch)
        /\ watch'.identities = watch.identities /\ watch'.failures = watch.failures
    BY <2>1, <2>2 DEF WatchInv, Good, Capped, StateType, SameHints
  <2>4. Good(watch') /\ watch'.inflight = watch.inflight
    BY <2>3, CappedSame DEF WatchInv, Good, Timed, SameHints
  <2>5. SpentInv'
    BY <2>2, SpendInv DEF WatchInv
  <2> QED BY <2>2, <2>4, <2>5, WriterStep DEF WatchInv, WriterInv
<1>2. CASE BackstopDue
  <2>1. /\ watch' = Loss(watch, "Backstop") /\ Spend("timers", MaxTimers)
        /\ UNCHANGED <<disk, view, dirty, retained, dead, kernel, writer>>
    BY <1>2 DEF BackstopDue
  <2>2. Good(watch') /\ watch'.inflight = watch.inflight
    BY <2>1, LossGood DEF WatchInv, Good, Reason
  <2>3. SpentInv'
    BY <2>1, SpendInv DEF WatchInv
  <2> QED BY <2>1, <2>2, <2>3, WriterStep DEF WatchInv, WriterInv
<1> QED BY <1>1, <1>2

\* What a burst asks for
LEMMA RequestIn ==
  ASSUME NEW burst \in Burst, NEW v
  PROVE  RequestRoots(burst, v) \subseteq Root /\ RequestPlaces(burst, v) \subseteq Place
<1>1. \A h \in burst.pending : h.dirs \subseteq Directory
  BY DEF Burst, Hint
<1>2. \A d \in Directory : d.place \in Place /\ Home(d.place) \in Root
  BY Constants DEF Directory
<1>3. burst.roots \subseteq Root
  BY DEF Burst
<1>4. RequestRoots(burst, v) \subseteq Root
  BY <1>1, <1>2, <1>3 DEF RequestRoots
<1>5. RequestPlaces(burst, v) \subseteq Place
  <2>1. PlacesOf(RequestRoots(burst, v)) \subseteq Place
    BY DEF PlacesOf
  <2>2. ASSUME NEW h \in burst.pending, NEW d \in h.dirs, h.name \in {"file"} \cup Sub
        PROVE  (IF h.name = "file" THEN d.place ELSE h.name) \in Place
    BY <1>1, <1>2, <2>2 DEF Place
  <2> QED BY <2>1, <2>2 DEF RequestPlaces
<1> QED BY <1>4, <1>5

LEMMA TakeInv ==
  ASSUME WatchInv, NEW bulk, Take(bulk)
  PROVE  WatchInv'
<1> DEFINE burst == BurstOf(watch)
           places == RequestPlaces(burst, view)
           roots == RequestRoots(burst, view)
           todo == {Home(p) : p \in places}
<1>1. /\ writer.at = "idle" /\ watch' = Detached(watch)
      /\ writer' = [writer EXCEPT !.at = "admit", !.burst = burst, !.inputs = Root,
                                   !.places = places, !.complete = roots, !.todo = todo]
      /\ UNCHANGED <<disk, view, dirty, retained, dead, kernel, spent>>
  BY DEF Take
<1>2. /\ burst \in Burst /\ IsFiniteSet(burst.pending)
      /\ burst.pending # {} => watch.first
  BY DEF BurstOf, Burst, WatchInv, Good, Capped, Timed, StateType
<1>3. places \subseteq Place /\ roots \subseteq Root
  BY <1>2, RequestIn
<1>4. todo \subseteq Root
  BY <1>3, Constants
<1>5. Good(watch') /\ watch'.inflight = watch.first
  BY <1>1, DetachedGood DEF WatchInv
<1> HIDE DEF burst, places, roots, todo
<1>6. /\ writer' \in WriterType /\ writer'.at = "admit" /\ writer'.burst = burst
      /\ writer'.left = writer.left /\ writer'.found = writer.found
  BY <1>1, <1>2, <1>3, <1>4 DEF WatchInv, WriterInv, Walks, WriterType
<1>7. Walks(writer', watch'.inflight)
  BY <1>2, <1>5, <1>6 DEF WatchInv, WriterInv, Walks
<1>8. SpentInv'
  BY <1>1, SpendInv DEF WatchInv
<1> QED BY <1>1, <1>5, <1>7, <1>8, WriterStep DEF WatchInv

\* A step of the walk that keeps the burst and does not enter "sub" or "list"
LEMMA GoesOn ==
  ASSUME WriterInv, NEW x \in WriterType, x.burst = writer.burst,
         \A c \in x.left : x.found[c] # None, x.at \notin {"sub", "list"}
  PROVE  Walks(x, watch.inflight)
BY DEF WriterInv, Walks

LEMMA CommandInv ==
  ASSUME WatchInv, NEW roots \in SUBSET Root, Command(roots)
  PROVE  WatchInv'
<1>1. /\ writer' = [writer EXCEPT !.at = "walk", !.command = TRUE, !.complete = roots,
                                   !.places = PlacesOf(roots), !.todo = roots]
      /\ Spend("commands", MaxCommands)
      /\ UNCHANGED <<disk, view, dirty, retained, dead, kernel, watch>>
  BY DEF Command
<1>2. PlacesOf(roots) \subseteq Place
  BY DEF PlacesOf
<1>3. /\ writer' \in WriterType /\ writer'.at = "walk" /\ writer'.burst = writer.burst
      /\ writer'.left = writer.left /\ writer'.found = writer.found
  BY <1>1, <1>2 DEF WatchInv, WriterInv, Walks, WriterType
<1>4. Walks(writer', watch'.inflight)
  BY <1>1, <1>3, GoesOn DEF WatchInv, WriterInv, Walks
<1>5. SpentInv'
  BY <1>1, SpendInv DEF WatchInv
<1> QED BY <1>1, <1>4, <1>5, WriterStep DEF WatchInv

LEMMA ProceedInv ==
  ASSUME WatchInv, Proceed
  PROVE  WatchInv'
<1>1. /\ writer' = [writer EXCEPT !.at = "walk"]
      /\ UNCHANGED <<disk, view, dirty, retained, dead, kernel, watch, spent>>
  BY DEF Proceed
<1>2. /\ writer' \in WriterType /\ writer'.at = "walk" /\ writer'.burst = writer.burst
      /\ writer'.left = writer.left /\ writer'.found = writer.found
  BY <1>1 DEF WatchInv, WriterInv, Walks, WriterType
<1>3. Walks(writer', watch'.inflight)
  BY <1>1, <1>2, GoesOn DEF WatchInv, WriterInv, Walks
<1>4. SpentInv'
  BY <1>1, SpendInv DEF WatchInv
<1> QED BY <1>1, <1>3, <1>4, WriterStep DEF WatchInv

\* The burst is put back or given up, or the command fails.
LEMMA AbortGood ==
  ASSUME WatchInv
  PROVE  /\ Good(Deferred(watch, writer.burst))
         /\ \A success \in BOOLEAN : Good(Finished(watch, writer.burst, success))
         /\ Good([watch EXCEPT !.refreshed = {}])
         /\ Good([Loss(watch, "Backstop") EXCEPT !.refreshed = {}])
         /\ Good(Loss([watch EXCEPT !.refreshed = {}], "Backstop"))
<1>1. /\ writer.burst \in Burst /\ IsFiniteSet(writer.burst.pending)
      /\ writer.burst.pending # {} => watch.inflight
  BY DEF WatchInv, WriterInv, Walks, WriterType
<1>2. Good(Deferred(watch, writer.burst))
  BY <1>1, DeferredGood DEF WatchInv
<1>3. \A success \in BOOLEAN : Good(Finished(watch, writer.burst, success))
  BY <1>1, FinishedGood DEF WatchInv
<1>4. ASSUME NEW w, Good(w)
      PROVE  Good([w EXCEPT !.refreshed = {}])
  <2> DEFINE n == [w EXCEPT !.refreshed = {}]
  <2>1. n \in StateType /\ SameHints(n, w) /\ n.identities = w.identities /\ n.failures = w.failures
    BY <1>4 DEF Good, Capped, StateType, SameHints
  <2> HIDE DEF n
  <2>2. Good(n)
    BY <1>4, <2>1, CappedSame DEF Good, Timed, SameHints
  <2> QED BY <2>2 DEF n
<1>5. ASSUME NEW w, Good(w)
      PROVE  Good(Loss(w, "Backstop"))
  BY <1>5, LossGood DEF Good, Reason
<1>6. Good(watch)
  BY DEF WatchInv
<1>7. Good([watch EXCEPT !.refreshed = {}])
  BY <1>4, <1>6
<1>8. Good([Loss(watch, "Backstop") EXCEPT !.refreshed = {}])
  BY <1>4, <1>5, <1>6
<1>9. Good(Loss([watch EXCEPT !.refreshed = {}], "Backstop"))
  BY <1>5, <1>7
<1> QED BY <1>2, <1>3, <1>7, <1>8, <1>9

LEMMA AbortInv ==
  ASSUME WatchInv, NEW wrote \in BOOLEAN,
         DeferBulk \/ RetryFromCurrent \/ CommitFails(wrote) \/ Finish
  PROVE  WatchInv'
<1>1. /\ UNCHANGED <<disk, view, dirty, retained, dead, kernel>> /\ writer' = IdleWriter
      /\ Spend("faults", MaxFaults) \/ UNCHANGED spent
  BY DEF DeferBulk, RetryFromCurrent, CommitFails, Finish
<1>2. Walks(writer', watch'.inflight)
  BY <1>1, IdleWalks
<1>3. Good(watch')
  <2>1. CASE DeferBulk
    BY <2>1, AbortGood DEF DeferBulk
  <2>2. CASE RetryFromCurrent
    BY <2>2, AbortGood DEF RetryFromCurrent
  <2>3. CASE CommitFails(wrote)
    BY <2>3, AbortGood DEF CommitFails
  <2>4. CASE Finish
    BY <2>4, AbortGood DEF Finish, WatchInv
  <2> QED BY <2>1, <2>2, <2>3, <2>4
<1>4. SpentInv'
  BY <1>1, SpendInv DEF WatchInv
<1> QED BY <1>1, <1>2, <1>3, <1>4, WriterStep DEF WatchInv

----------------------------------------------------------------------------
(* The walk.                                                               *)

LEMMA GlobalInputInv ==
  ASSUME WatchInv, NEW root \in Root, NEW ok \in BOOLEAN, GlobalInput(root, ok)
  PROVE  WatchInv'
<1>1. /\ MayFail(ok, Outer) /\ Now(WatchInput(watch, kernel, root, Outer, ok))
      /\ writer.at \in {"admit", "settle"} /\ writer' = [writer EXCEPT !.inputs = @ \ {root}]
      /\ UNCHANGED <<disk, view, dirty, retained, dead>>
  BY DEF GlobalInput
<1>2. Good(watch') /\ Sane(kernel') /\ watch'.inflight = watch.inflight
  BY <1>1, WatchInputGood, Constants DEF WatchInv, Now
<1>3. /\ writer' \in WriterType /\ writer'.at = writer.at /\ writer'.burst = writer.burst
      /\ writer'.left = writer.left /\ writer'.found = writer.found
  BY <1>1 DEF WatchInv, WriterInv, Walks, WriterType
<1>4. Walks(writer', watch'.inflight)
  BY <1>1, <1>2, <1>3, GoesOn DEF WatchInv, WriterInv, Walks
<1>5. SpentInv'
  BY <1>1, MayFailInv DEF WatchInv
<1> QED BY <1>1, <1>2, <1>4, <1>5, WriterStep DEF WatchInv

LEMMA StartRootInv ==
  ASSUME WatchInv, NEW root \in Root, NEW ok \in BOOLEAN, StartRoot(root, ok)
  PROVE  WatchInv'
<1> DEFINE begun == IF root \in writer.complete THEN BeginPolicyRoot(watch, root) ELSE watch
<1>1. /\ MayFail(ok, root) /\ Now(ArmAt(begun, kernel, root, root, ok))
      /\ writer' = [writer EXCEPT !.at = "list", !.root = root, !.places = Promoted(root)]
      /\ UNCHANGED <<disk, view, dirty, retained, dead>>
  BY DEF StartRoot
<1>2. Good(begun) /\ begun.inflight = watch.inflight
  BY BeginGood DEF WatchInv
<1> HIDE DEF begun
<1>3. Good(watch') /\ Sane(kernel') /\ watch'.inflight = watch.inflight
  <2>1. root \in Place /\ root \in Identity /\ Sane(kernel)
    BY Constants DEF Place, WatchInv
  <2> QED BY <1>1, <1>2, <2>1, ArmAtGood DEF Now
<1>4. Promoted(root) \subseteq Place
  BY DEF Promoted, PlacesOf, WatchInv, WriterInv, Walks, WriterType
<1>5. /\ writer' \in WriterType /\ writer'.at = "list" /\ writer'.burst = writer.burst
      /\ writer'.left = writer.left /\ writer'.found = writer.found /\ writer'.root = root
  BY <1>1, <1>4 DEF WatchInv, WriterInv, Walks, WriterType
<1>6. Walks(writer', watch'.inflight)
  BY <1>3, <1>5 DEF WatchInv, WriterInv, Walks
<1>7. SpentInv'
  BY <1>1, MayFailInv DEF WatchInv
<1> QED BY <1>1, <1>3, <1>6, <1>7, WriterStep DEF WatchInv

\* Where the walk goes on
LEMMA OnwardWalks ==
  ASSUME WriterInv, NEW x \in WriterType, x.burst = writer.burst,
         \A c \in x.left : x.found[c] # None
  PROVE  Walks(Onward(x), watch.inflight)
<1> DEFINE rest == x.todo \ {x.root}
           a == [x EXCEPT !.at = "subs", !.sub = None]
           b == [x EXCEPT !.at = IF rest = {} THEN "commit" ELSE "walk",
                          !.todo = rest, !.root = None, !.sub = None]
<1>1. Onward(x) = IF x.left # {} THEN a ELSE b
  BY DEF Onward
<1>2. /\ a \in WriterType /\ a.at = "subs" /\ a.burst = x.burst /\ a.left = x.left
      /\ a.found = x.found
  BY DEF WriterType
<1>3. rest \subseteq Root
  BY DEF WriterType
<1> HIDE DEF rest
<1>4. /\ b \in WriterType /\ b.at \in {"commit", "walk"} /\ b.burst = x.burst /\ b.left = x.left
      /\ b.found = x.found
  BY <1>3 DEF WriterType
<1> HIDE DEF a, b
<1>5. Walks(a, watch.inflight)
  BY <1>2, GoesOn
<1>6. Walks(b, watch.inflight)
  BY <1>4, GoesOn
<1> QED BY <1>1, <1>5, <1>6

LEMMA ListRootInv ==
  ASSUME WatchInv, NEW ok \in BOOLEAN, ListRoot(ok)
  PROVE  WatchInv'
<1> DEFINE root == writer.root
           mine == ChildrenOf(root) \cap writer.places
           now == [c \in Sub |-> IF c \in mine THEN disk[c] ELSE writer.found[c]]
           left == {c \in mine : disk[c] # None}
           seen == [p \in Place |-> IF p \in ({root} \cap writer.places)
                                            \cup {c \in mine : disk[c] = None}
                                    THEN "current" ELSE writer.seen[p]]
           x == [writer EXCEPT !.found = now, !.left = left, !.seen = seen]
<1>1. writer \in WriterType /\ writer.at = "list" /\ root \in Root
  BY DEF ListRoot, WatchInv, WriterInv, Walks
<1>2. /\ MayFail(ok, root) /\ Now(WatchInput(watch, kernel, root, root, ok))
      /\ writer' = Onward(x)
      /\ UNCHANGED <<disk, view, dirty, retained, dead>>
  BY <1>1 DEF ListRoot, WriterType
<1>3. mine \subseteq Sub
  BY DEF ChildrenOf
<1>4. now \in [Sub -> SubId \cup {None}] /\ left \subseteq Sub /\ \A c \in left : now[c] # None
  BY <1>1, <1>3 DEF WatchInv, TreeInv, WriterType
<1>5. seen \in [Place -> {"no", "current", "behind", "fault"}]
  BY <1>1 DEF WriterType
<1> HIDE DEF now, left, seen
<1>6. x \in WriterType /\ x.burst = writer.burst /\ x.left = left /\ x.found = now
  BY <1>1, <1>4, <1>5 DEF WriterType
<1> HIDE DEF x
<1>7. Walks(writer', watch.inflight)
  BY <1>2, <1>4, <1>6, OnwardWalks DEF WatchInv
<1>8. Good(watch') /\ Sane(kernel') /\ watch'.inflight = watch.inflight
  BY <1>1, <1>2, WatchInputGood, Constants DEF WatchInv, Now
<1>9. SpentInv'
  BY <1>2, MayFailInv DEF WatchInv
<1> QED BY <1>2, <1>7, <1>8, <1>9, WriterStep DEF WatchInv

LEMMA ListRootFaultInv ==
  ASSUME WatchInv, ListRootFault
  PROVE  WatchInv'
<1> DEFINE seen == [p \in Place |-> IF p \in PlacesOf({writer.root}) THEN "fault" ELSE writer.seen[p]]
           x == [writer EXCEPT !.left = {}, !.seen = seen]
<1>1. writer \in WriterType
  BY DEF WatchInv, WriterInv, Walks
<1>2. /\ Spend("faults", MaxFaults) /\ writer' = Onward(x)
      /\ UNCHANGED <<disk, view, dirty, retained, dead, kernel, watch>>
  BY <1>1 DEF ListRootFault, WriterType
<1>3. seen \in [Place -> {"no", "current", "behind", "fault"}]
  BY <1>1 DEF WriterType
<1> HIDE DEF seen
<1>4. x \in WriterType /\ x.burst = writer.burst /\ x.left = {}
  BY <1>1, <1>3 DEF WriterType
<1> HIDE DEF x
<1>5. Walks(writer', watch.inflight)
  BY <1>2, <1>4, OnwardWalks DEF WatchInv
<1>6. SpentInv'
  BY <1>2, SpendInv DEF WatchInv
<1> QED BY <1>2, <1>5, <1>6, WriterStep DEF WatchInv

LEMMA ArmSubInv ==
  ASSUME WatchInv, NEW c \in Sub, NEW ok \in BOOLEAN, ArmSub(c, ok)
  PROVE  WatchInv'
<1> DEFINE root == RootOf[c]
           lost == FailLost(watch, root)
           same == ArmAt(watch, kernel, c, disk[c], ok)
           gone == [watch |-> lost, kernel |-> kernel]
           other == [watch |-> Loss(lost, "Overflow"), kernel |-> kernel]
<1>0. \/ disk[c] = writer.found[c] /\ Now(same)
      \/ Now(gone)
      \/ Now(other)
  <2>1. CASE disk[c] = writer.found[c]
    BY <2>1 DEF ArmSub
  <2>2. CASE disk[c] # writer.found[c] /\ disk[c] = None
    BY <2>2 DEF ArmSub
  <2>3. CASE disk[c] # writer.found[c] /\ disk[c] # None
    BY <2>3 DEF ArmSub
  <2> QED BY <2>1, <2>2, <2>3
<1>1. /\ MayFail(ok, disk[c]) /\ c \in writer.left
      /\ writer' = [writer EXCEPT !.at = "sub", !.sub = c, !.left = @ \ {c}]
      /\ UNCHANGED <<disk, view, dirty, retained, dead>>
  BY DEF ArmSub
<1>2. writer \in WriterType /\ writer.found[c] # None
  BY <1>1 DEF WatchInv, WriterInv, Walks
<1>3. root \in Root /\ c \in Place
  BY Constants DEF Place
<1>4. ASSUME disk[c] = writer.found[c]
      PROVE  Good(same.watch) /\ Sane(same.kernel) /\ same.watch.inflight = watch.inflight
  <2>1. disk[c] \in Identity
    BY <1>2, <1>3, <1>4, OnDisk DEF WatchInv
  <2> QED BY <1>3, <2>1, ArmAtGood DEF WatchInv
<1>5. Good(lost) /\ lost.inflight = watch.inflight
  BY <1>3, FailsGood, Constants DEF WatchInv
<1>6. Good(Loss(lost, "Overflow")) /\ Loss(lost, "Overflow").inflight = watch.inflight
  BY <1>5, LossGood DEF Good, Reason
<1> HIDE DEF same, lost, root
<1>7. Good(watch') /\ Sane(kernel') /\ watch'.inflight = watch.inflight
  BY <1>0, <1>4, <1>5, <1>6 DEF Now, WatchInv
<1>8. /\ writer' \in WriterType /\ writer'.at = "sub" /\ writer'.burst = writer.burst
      /\ writer'.left \subseteq writer.left /\ writer'.found = writer.found /\ writer'.sub = c
  BY <1>1, <1>2 DEF WriterType
<1>9. Walks(writer', watch'.inflight)
  BY <1>2, <1>7, <1>8 DEF WatchInv, WriterInv, Walks
<1>10. SpentInv'
  BY <1>1, MayFailInv DEF WatchInv
<1> QED BY <1>1, <1>7, <1>9, <1>10, WriterStep DEF WatchInv

LEMMA ListSubInv ==
  ASSUME WatchInv, NEW ok \in BOOLEAN, ListSub(ok)
  PROVE  WatchInv'
<1> DEFINE c == writer.sub
           armed == ArmAt(watch, kernel, c, disk[c], ok)
           x == [writer EXCEPT !.seen[c] = "current"]
<1>1. /\ writer.at = "sub" /\ disk[c] = writer.found[c] /\ MayFail(ok, disk[c])
      /\ Now(WatchInput(armed.watch, armed.kernel, RootOf[c], disk[c], ok))
      /\ writer' = Onward(x) /\ UNCHANGED <<disk, view, dirty, retained, dead>>
  BY DEF ListSub
<1>2. writer \in WriterType /\ c \in Sub /\ writer.found[c] # None
  BY <1>1 DEF WatchInv, WriterInv, Walks
<1>3. /\ RootOf[c] \in Root /\ c \in Place /\ disk[c] \in Identity
  <2>1. c \in Place /\ RootOf[c] \in Root
    BY <1>2, Constants DEF Place
  <2> QED BY <1>1, <1>2, <2>1, OnDisk DEF WatchInv
<1>4. Good(armed.watch) /\ Sane(armed.kernel) /\ armed.watch.inflight = watch.inflight
  BY <1>3, ArmAtGood DEF WatchInv
<1>5. Good(watch') /\ Sane(kernel') /\ watch'.inflight = watch.inflight
  <2> HIDE DEF armed, c
  <2> QED BY <1>1, <1>3, <1>4, WatchInputGood DEF Now
<1>6. /\ x \in WriterType /\ x.burst = writer.burst /\ x.left = writer.left
      /\ x.found = writer.found
  <2> HIDE DEF c
  <2> QED BY <1>2, <1>3 DEF WriterType
<1> HIDE DEF x
<1>7. Walks(writer', watch.inflight)
  BY <1>1, <1>6, OnwardWalks DEF WatchInv, WriterInv, Walks
<1>8. SpentInv'
  BY <1>1, MayFailInv DEF WatchInv
<1> QED BY <1>1, <1>5, <1>7, <1>8, WriterStep DEF WatchInv

LEMMA ListSubFaultInv ==
  ASSUME WatchInv, ListSubFault
  PROVE  WatchInv'
<1> DEFINE c == writer.sub
           x == [writer EXCEPT !.seen[c] = "fault"]
<1>1. /\ writer.at = "sub" /\ writer' = Onward(x)
      /\ Spend("faults", MaxFaults) \/ UNCHANGED spent
      /\ UNCHANGED <<disk, view, dirty, retained, dead, kernel, watch>>
  BY DEF ListSubFault
<1>2. writer \in WriterType /\ c \in Place
  BY <1>1 DEF WatchInv, WriterInv, Walks, Place
<1>3. /\ x \in WriterType /\ x.burst = writer.burst /\ x.left = writer.left
      /\ x.found = writer.found
  <2> HIDE DEF c
  <2> QED BY <1>2 DEF WriterType
<1> HIDE DEF x
<1>4. Walks(writer', watch.inflight)
  BY <1>1, <1>3, OnwardWalks DEF WatchInv, WriterInv, Walks
<1>5. SpentInv'
  BY <1>1, SpendInv DEF WatchInv
<1> QED BY <1>1, <1>4, <1>5, WriterStep DEF WatchInv

LEMMA CommitInv ==
  ASSUME WatchInv, Commit
  PROVE  WatchInv'
<1>1. /\ writer' = [writer EXCEPT !.at = "settle", !.inputs = Root]
      /\ UNCHANGED <<disk, dead, kernel, watch, spent>>
      /\ dirty' \subseteq dirty /\ retained' \subseteq Place
  BY DEF Commit, WatchInv, TreeInv
<1>2. view' \in Tree
  <2>1. writer.found \in [Sub -> SubId \cup {None}] /\ view \in [Place -> Identity \cup {None}]
    BY DEF WatchInv, WriterInv, Walks, WriterType, TreeInv, Tree
  <2>2. view' = [p \in Place |->
                    IF p \in {q \in Place : writer.seen[q] \in {"current", "behind"}} \cap Sub
                    THEN writer.found[p] ELSE view[p]]
    BY DEF Commit
  <2> QED BY <2>1, <2>2, Constants DEF Tree
<1>3. TreeInv'
  BY <1>1, <1>2 DEF WatchInv, TreeInv
<1>4. /\ writer' \in WriterType /\ writer'.at = "settle" /\ writer'.burst = writer.burst
      /\ writer'.left = writer.left /\ writer'.found = writer.found
  BY <1>1 DEF WatchInv, WriterInv, Walks, WriterType
<1>5. WriterInv'
  BY <1>1, <1>4, GoesOn DEF WatchInv, WriterInv, Walks
<1>6. SpentInv' /\ Good(watch') /\ Sane(kernel')
  BY <1>1, SpendInv DEF WatchInv
<1> QED BY <1>3, <1>5, <1>6 DEF WatchInv

LEMMA ReconcileInv ==
  ASSUME WatchInv, Reconcile
  PROVE  WatchInv'
<1> DEFINE protected == {Home(p) : p \in retained}
           listed == {wd \in Wd : watch.descriptors[wd] # {}}
           sweep == {[wd |-> wd, dirs |-> watch.descriptors[wd]] : wd \in listed}
           gone == Retired(watch, protected)
           x == [writer EXCEPT !.at = "sweep", !.gone = gone, !.sweep = sweep]
           y == [writer EXCEPT !.at = "sweep"]
<1>1. /\ \/ watch' = RetirePolicies(watch, protected) /\ writer' = x
         \/ watch' = watch /\ writer' = y
      /\ UNCHANGED <<disk, view, dirty, retained, dead, kernel, spent>>
  BY DEF Reconcile
<1>2. writer \in WriterType /\ watch \in StateType
  BY DEF WatchInv, WriterInv, Walks, Good, Capped
<1>3. sweep \subseteq [wd : Wd, dirs : SUBSET Directory] /\ gone \subseteq Wd
  BY <1>2 DEF StateType, Retired
<1>4. Good(RetirePolicies(watch, protected))
      /\ RetirePolicies(watch, protected).inflight = watch.inflight
  BY RetirePoliciesGood DEF WatchInv
<1> HIDE DEF sweep, gone, protected
<1>5. /\ x \in WriterType /\ x.at = "sweep" /\ x.burst = writer.burst
      /\ x.left = writer.left /\ x.found = writer.found
  BY <1>2, <1>3 DEF WriterType
<1>6. /\ y \in WriterType /\ y.at = "sweep" /\ y.burst = writer.burst
      /\ y.left = writer.left /\ y.found = writer.found
  BY <1>2 DEF WriterType
<1> HIDE DEF x, y
<1>7. Walks(x, watch.inflight) /\ Walks(y, watch.inflight)
  BY <1>5, <1>6, GoesOn DEF WatchInv, WriterInv, Walks
<1>8. Good(watch') /\ Walks(writer', watch'.inflight)
  BY <1>1, <1>4, <1>7 DEF WatchInv
<1>9. SpentInv'
  BY <1>1, SpendInv DEF WatchInv
<1> QED BY <1>1, <1>8, <1>9, WriterStep DEF WatchInv

LEMMA RetireInv ==
  ASSUME WatchInv, RemoveRetired \/ Sweep
  PROVE  WatchInv'
<1>1. writer \in WriterType
  BY DEF WatchInv, WriterInv, Walks
<1>2. CASE RemoveRetired
  <2>1. PICK wd \in writer.gone : /\ Now(RemoveKnown(watch, kernel, wd))
                                  /\ writer' = [writer EXCEPT !.gone = @ \ {wd}]
    BY <1>2 DEF RemoveRetired
  <2>2. UNCHANGED <<disk, view, dirty, retained, dead, spent>> /\ wd \in Wd
    BY <1>1, <1>2 DEF RemoveRetired, WriterType
  <2>3. Good(watch') /\ Sane(kernel') /\ watch'.inflight = watch.inflight
    BY <2>1, <2>2, RemoveKnownGood DEF WatchInv, Now
  <2>4. /\ writer' \in WriterType /\ writer'.at = writer.at /\ writer'.burst = writer.burst
        /\ writer'.left = writer.left /\ writer'.found = writer.found
        /\ writer'.sub = writer.sub /\ writer'.root = writer.root
    BY <1>1, <2>1 DEF WriterType
  <2>5. Walks(writer', watch'.inflight)
    BY <2>3, <2>4 DEF WatchInv, WriterInv, Walks
  <2>6. SpentInv'
    BY <2>2, SpendInv DEF WatchInv
  <2> QED BY <2>2, <2>3, <2>5, <2>6, WriterStep DEF WatchInv
<1>3. CASE Sweep
  <2>1. PICK s \in writer.sweep : /\ Now(RetireDescriptor(watch, kernel, view, s.wd, s.dirs))
                                  /\ writer' = [writer EXCEPT !.sweep = @ \ {s}]
    BY <1>3 DEF Sweep
  <2>2. /\ UNCHANGED <<disk, view, dirty, retained, dead, spent>>
        /\ s.wd \in Wd /\ s.dirs \in SUBSET Directory
    BY <1>1, <1>3 DEF Sweep, WriterType
  <2>3. Good(watch') /\ Sane(kernel') /\ watch'.inflight = watch.inflight
    BY <2>1, <2>2, RetireDescriptorGood DEF WatchInv, Now
  <2>4. /\ writer' \in WriterType /\ writer'.at = writer.at /\ writer'.burst = writer.burst
        /\ writer'.left = writer.left /\ writer'.found = writer.found
        /\ writer'.sub = writer.sub /\ writer'.root = writer.root
    BY <1>1, <2>1 DEF WriterType
  <2>5. Walks(writer', watch'.inflight)
    BY <2>3, <2>4 DEF WatchInv, WriterInv, Walks
  <2>6. SpentInv'
    BY <2>2, SpendInv DEF WatchInv
  <2> QED BY <2>2, <2>3, <2>5, <2>6, WriterStep DEF WatchInv
<1> QED BY <1>2, <1>3

----------------------------------------------------------------------------
(* The specification.                                                      *)

LEMMA NewGood == Capped(NewState)
<1>1. NewState \in StateType
  <2>1. NoMarker \in Marker /\ NoFailed \in Failed
    BY DEF NoMarker, Marker, Reason, NoFailed, Failed
  <2>2. [r \in Root |-> [now |-> TRUE, latest |-> NoFailed, earlier |-> NoFailed]]
          \in [Root -> Failures]
    BY <2>1 DEF Failures
  <2>3. [i \in Identity |-> 0] \in [Identity -> 0 .. MaxWd]
    BY Constants
  <2> QED BY <2>1, <2>2, <2>3 DEF NewState, StateType
<1>2. Installed(NewState) <= WatchCap
  <2>1. {i \in Identity : NewState.identities[i] # 0} = {}
    BY DEF NewState
  <2> QED BY <2>1, FS_EmptySet, Constants DEF Installed
<1>3. ASSUME NEW r \in Root
      PROVE  Exact(NewState.failures[r]) <= ExactFailures
  <2>1. NewState.failures[r] = [now |-> TRUE, latest |-> NoFailed, earlier |-> NoFailed]
    BY DEF NewState
  <2>2. Cardinality({}) = 0
    BY FS_EmptySet
  <2>3. Exact(NewState.failures[r]) = 0
    BY <2>1, <2>2 DEF Exact, NoFailed
  <2> QED BY <2>3, Constants
<1> QED BY <1>1, <1>2, <1>3 DEF Capped

LEMMA InitInv == Init => WatchInv
<1> SUFFICES ASSUME Init PROVE WatchInv
  OBVIOUS
<1>1. TreeInv
  <2>1. ASSUME NEW subs \in [Sub -> SubId \cup {None}]
        PROVE  /\ DiskTree(subs) \in Tree
               /\ \A c \in Sub : DiskTree(subs)[c] \in SubId \cup {None}
    <3>1. Root \subseteq Identity /\ SubId \subseteq Identity /\ Root \cap Sub = {}
      BY Constants, WatchAssumption
    <3> QED BY <3>1 DEF DiskTree, Tree, Place
  <2>2. InitDisk \in [Sub -> SubId \cup {None}]
    BY DiskAssumption
  <2>3. [c \in Sub |-> None] \in [Sub -> SubId \cup {None}]
    OBVIOUS
  <2> QED BY <2>1, <2>2, <2>3 DEF Init, TreeInv
<1>2. Sane(kernel)
  <2>1. 1 \in Wd
    BY FS_CardinalityType, WatchAssumption DEF Wd
  <2> QED BY <2>1 DEF Init, Sane, KernelType, LiveOnce
<1>3. Good(watch)
  BY NewGood, LossGood DEF Init, Reason
<1>4. WriterInv
  BY IdleWalks DEF Init, WriterInv
<1>5. SpentInv
  BY DiskAssumption DEF Init, SpentInv
<1> QED BY <1>1, <1>2, <1>3, <1>4, <1>5 DEF WatchInv

LEMMA NextInv == WatchInv /\ [Next]_vars => WatchInv'
<1> SUFFICES ASSUME WatchInv, [Next]_vars PROVE WatchInv'
  OBVIOUS
<1>1. CASE UNCHANGED vars
  <2>1. WriterInv' /\ SpentInv' /\ TreeInv'
    BY <1>1 DEF vars, WatchInv, WriterInv, SpentInv, TreeInv
  <2> QED BY <1>1, <2>1 DEF vars, WatchInv
<1>2. CASE DiskStep
  BY <1>2, EditInv, MakeInv, MoveInv, RemoveInv DEF DiskStep
<1>3. CASE Intake
  BY <1>3, IntakeInv
<1>4. CASE Poll \/ BackstopDue
  BY <1>4, PollInv
<1>5. CASE \E bulk \in BOOLEAN : Take(bulk)
  BY <1>5, TakeInv
<1>6. CASE \E roots \in SUBSET Root : Command(roots)
  BY <1>6, CommandInv
<1>7. CASE WalkStep
  <2>1. CASE \/ Proceed \/ ListRootFault \/ ListSubFault \/ Commit \/ Reconcile
             \/ RemoveRetired \/ Sweep
    BY <2>1, ProceedInv, ListRootFaultInv, ListSubFaultInv, CommitInv, ReconcileInv, RetireInv
  <2>2. CASE \E root \in Root, ok \in BOOLEAN : GlobalInput(root, ok) \/ StartRoot(root, ok)
    BY <2>2, GlobalInputInv, StartRootInv
  <2>3. CASE \E ok \in BOOLEAN : ListRoot(ok) \/ ListSub(ok)
    BY <2>3, ListRootInv, ListSubInv
  <2>4. CASE \E c \in Sub, ok \in BOOLEAN : ArmSub(c, ok)
    BY <2>4, ArmSubInv
  <2>5. CASE \/ DeferBulk \/ RetryFromCurrent \/ Finish
             \/ \E wrote \in BOOLEAN : CommitFails(wrote)
    BY <2>5, AbortInv
  <2> QED BY <1>7, <2>1, <2>2, <2>3, <2>4, <2>5 DEF WalkStep
<1> QED BY <1>1, <1>2, <1>3, <1>4, <1>5, <1>6, <1>7 DEF Next

LEMMA InvDue == WatchInv => HintsAreDue
BY DEF WatchInv, TreeInv, Sane, Good, Capped, Timed, WriterInv, Walks, SpentInv, HintsAreDue, TypeOK

\* Hints that wait have a time at which they are due, however events, walks, failures,
\* deferrals and commands interleave; and the state has its types, with the hints,
\* the installed watches and the failures kept one by one within their caps
\* (watch.rs event, take, finish and defer; watch/failures.rs).  For any trees, caps,
\* queue length and number of changes and faults.
THEOREM HintsDue == Spec => []HintsAreDue
BY InitInv, NextInv, InvDue, PTL DEF Spec

=============================================================================
