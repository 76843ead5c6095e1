----------------------------- MODULE ContentProofs -----------------------------
(***************************************************************************)
(* ContentEngine keeps the invariant of ContentInvariants, and therefore   *)
(* its properties: first what the operators of Documents and               *)
(* ContentManifest preserve, then one lemma for each action.               *)
(***************************************************************************)
EXTENDS ContentInvariants, TLAPS, FiniteSetTheorems

----------------------------------------------------------------------------
(* The operators.                                                          *)

\* A catalog view is a later view of itself.
LEMMA EvolvesRefl ==
    ASSUME NEW k \in Catalog
    PROVE  Evolves(k, k)
  BY DEF Evolves, Catalog

\* Commits add up: a later view of a later view is a later view.
LEMMA EvolvesTrans ==
    ASSUME NEW k1 \in Catalog, NEW k2 \in Catalog, NEW k3 \in Catalog,
           Evolves(k1, k2), Evolves(k2, k3)
    PROVE  Evolves(k1, k3)
<1>1. \A p \in Potential(k3) : p \in Document
  BY DEF Potential, Catalog
<1>2. ASSUME NEW p \in Potential(k3)
      PROVE  p \in Potential(k1) \/ p.id >= k1.next
  <2>1. CASE p \in Potential(k2)
    BY <2>1 DEF Evolves
  <2>2. CASE p.id >= k2.next
    BY <1>1, <2>2 DEF Evolves, Catalog, Document
  <2> QED BY <2>1, <2>2 DEF Evolves
<1> QED BY <1>2 DEF Evolves, Catalog

\* An index view that fits and is sound for a catalog view stays so for every
\* later one: commits only take potential documents away, or number new ones
\* above the index's high water mark.
LEMMA SoundLater ==
    ASSUME NEW k1 \in Catalog, NEW k2 \in Catalog, NEW c \in Manifest,
           Evolves(k1, k2), c.frontier <= c.high, Fits(c, k1), Sound(c, k1)
    PROVE  Fits(c, k2) /\ Sound(c, k2)
<1>1. Fits(c, k2)
  BY DEF Fits, Evolves, Catalog, Manifest
<1>2. ASSUME NEW p \in Potential(k2), Covers(c, p.id)
      PROVE  p \in Indexed(c)
  <2>1. p.id \in Nat
    BY DEF Potential, Catalog, Document
  <2>2. p.id < k1.next
    BY <1>2, <2>1 DEF Covers, Fits, Catalog, Manifest
  <2>3. p \in Potential(k1)
    BY <2>1, <2>2 DEF Evolves, Catalog
  <2> QED BY <1>2, <2>3 DEF Sound
<1> QED BY <1>1, <1>2 DEF Sound

\* An index covers all that it covers.
LEMMA AheadRefl ==
    ASSUME NEW m \in Manifest
    PROVE  Ahead(m, m)
  BY DEF Ahead, Manifest

\* Permissions backed by an index are backed by one that covers no less.
LEMMA AheadBacked ==
    ASSUME NEW k \in Catalog, NEW c \in Manifest, NEW m \in Manifest,
           Backed(k, c), Ahead(c, m)
    PROVE  Backed(k, m)
<1> SUFFICES ASSUME NEW p \in k.dormant PROVE Covers(m, p.id)
  BY DEF Backed
<1>1. p.id \in Nat
  BY DEF Catalog, Document
<1>2. Covers(c, p.id)
  BY DEF Backed
<1> QED BY <1>1, <1>2 DEF Covers, Ahead, Manifest

\* WriterSession::forget_dormant leaves the live documents and drops exactly
\* the permissions named.
LEMMA ForgetDormantFacts ==
    ASSUME NEW k \in Catalog, NEW ids
    PROVE  /\ ForgetDormant(k, ids) \in Catalog
           /\ ForgetDormant(k, ids).live = k.live
           /\ ForgetDormant(k, ids).next = k.next
           /\ ForgetDormant(k, ids).dormant = {p \in k.dormant : p.id \notin ids}
           /\ Evolves(k, ForgetDormant(k, ids))
<1> DEFINE new == [k EXCEPT !.dormant = {p \in k.dormant : p.id \notin ids}]
           f == ForgetDormant(k, ids)
<1>1. new \in Catalog /\ new.dormant = {p \in k.dormant : p.id \notin ids}
  BY DEF Catalog
<1>2. new.inc = k.inc /\ new.live = k.live /\ new.next = k.next
  BY DEF Catalog
<1>3. f = IF new = k THEN k ELSE [new EXCEPT !.seq = k.seq + 1]
  BY DEF ForgetDormant, Successor
<1>4. /\ f \in Catalog
      /\ f.inc = k.inc /\ f.live = k.live /\ f.next = k.next
      /\ f.dormant = {p \in k.dormant : p.id \notin ids}
  <2> HIDE DEF new, f
  <2>1. CASE new = k
    BY <1>1, <1>3, <2>1
  <2>2. CASE new # k
    BY <1>1, <1>2, <1>3, <2>2 DEF Catalog
  <2> QED BY <2>1, <2>2
<1>5. Evolves(k, f)
  <2> HIDE DEF f
  <2> QED BY <1>4 DEF Evolves, Potential, Catalog
<1> QED BY <1>4, <1>5

\* WriterSession::clear_dormant leaves the live documents and no permission.
LEMMA ClearDormantFacts ==
    ASSUME NEW k \in Catalog
    PROVE  /\ ClearDormant(k) \in Catalog
           /\ ClearDormant(k).live = k.live
           /\ ClearDormant(k).next = k.next
           /\ ClearDormant(k).dormant = {}
           /\ Evolves(k, ClearDormant(k))
  BY ForgetDormantFacts DEF ClearDormant, Ids

\* The revocation before a merge leaves no permission in the runs' ranges.
LEMMA RevokedFacts ==
    ASSUME NEW k \in Catalog, NEW runs
    PROVE  /\ Revoked(k, runs) \in Catalog
           /\ Revoked(k, runs).live = k.live
           /\ Revoked(k, runs).next = k.next
           /\ Revoked(k, runs).dormant \subseteq k.dormant
           /\ Evolves(k, Revoked(k, runs))
           /\ \A p \in Revoked(k, runs).dormant, r \in runs :
                 \A s \in r : ~InRange(p.id, s)
  BY ForgetDormantFacts DEF Revoked, Ids

\* dormant::prepare grants a permission only to what already had one, or to a
\* dying document that the host's coverage covers.
LEMMA RetainedFacts ==
    ASSUME NEW k \in Catalog, NEW cov, NEW tree
    PROVE  \A p \in Retained(k, cov, tree) :
              \/ p \in k.dormant
              \/ p \in k.live /\ \E c \in cov : Covers(c, p.id)
<1> DEFINE untouched == k.dormant \ Returning(k, cov, tree)
           eligible  == {p \in Dying(k, tree) : \E c \in cov : Covers(c, p.id)}
           kept      == {p \in eligible : \A q \in untouched :
                            q.hash = p.hash => q.id < p.id}
           revoked   == {q \in untouched : \E p \in kept : q.hash = p.hash}
<1>1. Retained(k, cov, tree) = IF eligible = {} THEN untouched
                ELSE Newest((untouched \ revoked) \cup kept, DormantCap)
  BY DEF Retained
<1>2. Retained(k, cov, tree) \subseteq untouched \cup eligible
  <2>1. (untouched \ revoked) \cup kept \subseteq untouched \cup eligible
    OBVIOUS
  <2> HIDE DEF untouched, eligible, kept, revoked
  <2> QED BY <1>1, <2>1 DEF Newest
<1>3. eligible \subseteq {p \in k.live : \E c \in cov : Covers(c, p.id)}
  BY DEF Dying
<1> QED BY <1>2, <1>3

\* A recrawl's transaction makes a later view of the catalog, with permissions
\* for covered documents only.
LEMMA RecrawlFacts ==
    ASSUME NEW k \in Catalog, NEW cov \in SUBSET CoverageType,
           NEW tree \in SUBSET Hash, NEW last \in Nat, k.next <= last,
           NEW ids \in Bijection(Unknown(k, cov, tree), k.next .. last - 1)
    PROVE  LET r == Recrawl(k, cov, tree, ids, last)
           IN  /\ r \in Catalog
               /\ Evolves(k, r)
               /\ \A p \in r.dormant :
                     \/ p \in k.dormant
                     \/ p \in k.live /\ \E c \in cov : Covers(c, p.id)
               /\ Allocated(k) => Allocated(r)
<1> DEFINE kept  == {p \in k.live : p.hash \in tree}
           back  == Returning(k, cov, tree)
           fresh == {[id |-> ids[h], hash |-> h] : h \in DOMAIN ids}
           dorm  == Retained(k, cov, tree)
           new   == [k EXCEPT !.next = last, !.live = kept \cup back \cup fresh,
                              !.dormant = dorm]
           r     == Recrawl(k, cov, tree, ids, last)
<1>1. ids \in [Unknown(k, cov, tree) -> k.next .. last - 1]
  BY DEF Bijection, Injection
<1>2. DOMAIN ids \subseteq Hash
  BY <1>1 DEF Unknown
<1>3. \A h \in DOMAIN ids : ids[h] \in Nat /\ k.next <= ids[h] /\ ids[h] < last
  BY <1>1 DEF Catalog
<1>4. fresh \subseteq Document /\ \A p \in fresh : k.next <= p.id /\ p.id < last
  BY <1>2, <1>3 DEF Document
<1>5. kept \subseteq k.live /\ back \subseteq k.dormant
  BY DEF Returning
<1>6. /\ dorm \subseteq k.dormant \cup k.live
      /\ \A p \in dorm : \/ p \in k.dormant
                         \/ p \in k.live /\ \E c \in cov : Covers(c, p.id)
  BY RetainedFacts
<1>7. r = IF new = k THEN k ELSE [new EXCEPT !.seq = k.seq + 1]
  BY DEF Recrawl, Successor
<1>8. IsFiniteSet(fresh)
  <2> DEFINE f == [h \in DOMAIN ids |-> [id |-> ids[h], hash |-> h]]
  <2>1. f \in Surjection(DOMAIN ids, fresh)
    BY DEF Surjection
  <2>2. IsFiniteSet(DOMAIN ids)
    BY <1>2, HashAssumption, FS_Subset
  <2> QED BY <2>1, <2>2, FS_Surjection
<1> HIDE DEF kept, back, fresh, dorm
<1>9. /\ new \in Catalog
      /\ new.inc = k.inc /\ new.next = last
      /\ new.live = kept \cup back \cup fresh /\ new.dormant = dorm
  BY <1>4, <1>5, <1>6 DEF Catalog
<1> HIDE DEF new
<1>10. /\ r \in Catalog
       /\ r.inc = k.inc /\ r.next = last
       /\ r.live = kept \cup back \cup fresh /\ r.dormant = dorm
  <2> HIDE DEF r
  <2>1. CASE new = k
    BY <1>7, <1>9, <2>1
  <2>2. CASE new # k
    BY <1>7, <1>9, <2>2 DEF Catalog
  <2> QED BY <2>1, <2>2
<1> HIDE DEF r
<1>11. Evolves(k, r)
  BY <1>4, <1>5, <1>6, <1>10 DEF Evolves, Potential, Catalog
<1>12. ASSUME Allocated(k) PROVE Allocated(r)
  <2>1. IsFiniteSet(k.dormant) /\ IsFiniteSet(k.live)
    BY <1>12 DEF Allocated
  <2>2. IsFiniteSet(k.dormant \cup k.live)
    BY <2>1, FS_Union
  <2>3. IsFiniteSet(kept \cup back \cup fresh)
    BY <1>5, <1>8, <2>1, FS_Union, FS_Subset
  <2>4. IsFiniteSet(r.live) /\ IsFiniteSet(r.dormant)
    BY <1>6, <1>10, <2>2, <2>3, FS_Subset
  <2>5. \A p \in Potential(r) : p \in fresh \/ p \in Potential(k)
    BY <1>5, <1>6, <1>10 DEF Potential
  <2>6. \A p \in Potential(k) : p.id \in Nat /\ p.id < k.next
    BY <1>12 DEF Allocated, Potential, Catalog, Document
  <2>7. \A p \in Potential(r) : p.id < r.next
    BY <1>4, <1>10, <2>5, <2>6 DEF Catalog
  <2> QED BY <2>4, <2>7 DEF Allocated
<1> QED BY <1>6, <1>10, <1>11, <1>12 DEF r

\* A nonempty set of naturals has the minimum that Min chooses.
LEMMA MinNat ==
    ASSUME NEW S, S \subseteq Nat, S # {}
    PROVE  Min(S) \in S /\ \A x \in S : Min(S) <= x
<1> DEFINE R == OpToRel(<, Nat)
<1>1. PICK x \in S : \A y \in S : ~ (<<y, x>> \in R)
  <2>1. IsWellFoundedOn(R, Nat)
    BY NatLessThanWellFounded
  <2> HIDE DEF R
  <2> QED BY <2>1, WFMin
<1>2. \A y \in S : x <= y
  <2> TAKE y \in S
  <2>1. ~ (y < x)
    BY <1>1 DEF OpToRel
  <2> QED BY <2>1
<1> QED BY <1>2 DEF Min

\* A nonempty bounded set of naturals has the maximum that Max chooses.
LEMMA MaxNat ==
    ASSUME NEW S, S \subseteq Nat, S # {}, NEW n \in Nat, \A x \in S : x <= n
    PROVE  Max(S) \in S /\ \A x \in S : x <= Max(S)
<1> DEFINE T == {n - x : x \in S}
<1>1. T \subseteq Nat
  OBVIOUS
<1>2. T # {}
  OBVIOUS
<1>3. Min(T) \in T /\ \A t \in T : Min(T) <= t
  <2> HIDE DEF T
  <2> QED BY <1>1, <1>2, MinNat
<1>4. PICK x \in S : Min(T) = n - x
  BY <1>3
<1>5. \A y \in S : x >= y
  <2> TAKE y \in S
  <2>1. n - y \in T
    OBVIOUS
  <2>2. n - x <= n - y
    BY <2>1, <1>3, <1>4
  <2> QED BY <2>2
<1> QED BY <1>5 DEF Max

\* The segment a follow pass writes holds what it read, within its range and
\* below the place where the pass stopped.
LEMMA FollowSegmentFacts ==
    ASSUME NEW reached \in SUBSET Document, IsFiniteSet(reached), reached # {},
           NEW faulty, NEW stop \in Nat, \A p \in reached : p.id < stop
    PROVE  LET s == FollowSegment(reached, faulty)
           IN  /\ s \in Segment
               /\ s.docs = {p \in reached : p.id \notin faulty}
               /\ s.last < stop
               /\ \A p \in s.docs : InRange(p.id, s)
<1> DEFINE s == FollowSegment(reached, faulty)
           docs == {p \in reached : p.id \notin faulty}
<1>1. Ids(reached) \subseteq Nat /\ \A i \in Ids(reached) : i < stop
  BY DEF Ids, Document
<1>2. Ids(reached) # {}
  BY DEF Ids
<1>3. \A i \in Ids(reached) : i <= stop
  BY <1>1
<1>4. Min(Ids(reached)) \in Nat /\ \A i \in Ids(reached) : Min(Ids(reached)) <= i
  BY <1>1, <1>2, MinNat
<1>5. /\ Max(Ids(reached)) \in Ids(reached)
      /\ \A i \in Ids(reached) : i <= Max(Ids(reached))
  BY <1>1, <1>2, <1>3, MaxNat
<1>6. docs \in SUBSET Document /\ Cardinality(docs) \in Nat
  BY FS_Subset, FS_CardinalityType
<1>7. /\ s.first = Min(Ids(reached)) /\ s.last = Max(Ids(reached))
      /\ s.docs = docs /\ s \in Segment
  BY <1>1, <1>4, <1>5, <1>6 DEF FollowSegment, Segment
<1>8. \A p \in docs : p.id \in Ids(reached)
  BY DEF Ids
<1> HIDE DEF s, docs
<1>9. \A p \in s.docs : InRange(p.id, s)
  BY <1>4, <1>5, <1>7, <1>8 DEF InRange
<1>10. s.last < stop
  BY <1>1, <1>5, <1>7
<1> QED BY <1>7, <1>9, <1>10 DEF s, docs

\* A publication of a follow pass is sound for the view it read, provided no
\* dormant document lies at or above the old frontier.
LEMMA FollowedFacts ==
    ASSUME NEW m \in Manifest, NEW k \in Catalog, Allocated(k),
           WellFormed(m), Fits(m, k), Sound(m, k), Backed(k, m),
           NEW stop \in Stops(m, k), NEW faulty \in SUBSET Ids(k.live),
           faulty \subseteq Ids(Reached(m, k, stop))
    PROVE  LET n == Followed(m, k, stop, faulty)
           IN  /\ n \in Manifest /\ n.seq = m.seq + 1 /\ n.inc = m.inc
               /\ WellFormed(n)
               /\ Fits(n, k)
               /\ Sound(n, k)
               /\ Ahead(m, n)
<1> DEFINE reached == Reached(m, k, stop)
           segs == m.segs \cup (IF reached = {} THEN {}
                                ELSE {FollowSegment(reached, faulty)})
           high == IF m.high < k.next THEN k.next ELSE m.high
           unreadable == Pruned(m, k.live) \cup faulty
           n == Followed(m, k, stop, faulty)
<1>1. /\ \A p \in k.live : p \in Document /\ p.id \in Nat /\ p.id < k.next
      /\ Ids(k.live) \subseteq Nat
      /\ \A i \in Ids(k.live) : i < k.next
  BY DEF Allocated, Potential, Catalog, Document, Ids
<1>2. stop \in Nat /\ m.frontier <= stop /\ stop <= k.next
  BY <1>1 DEF Stops, Fits, WellFormed, Manifest, Catalog
<1>3. /\ reached \in SUBSET Document
      /\ reached \subseteq k.live
      /\ IsFiniteSet(reached)
      /\ \A p \in reached : m.frontier <= p.id /\ p.id < stop
  BY <1>1, FS_Subset DEF Reached, Allocated
<1>4. \A i \in faulty : i \in Nat /\ m.frontier <= i
  BY <1>1, <1>3 DEF Ids
<1>5. ASSUME reached # {}
      PROVE  LET s == FollowSegment(reached, faulty)
             IN  /\ s \in Segment
                 /\ s.docs = {p \in reached : p.id \notin faulty}
                 /\ s.last < stop
                 /\ \A p \in s.docs : InRange(p.id, s)
  BY <1>2, <1>3, <1>5, FollowSegmentFacts
<1>6. segs \in SUBSET Segment /\ m.segs \subseteq segs
  BY <1>5 DEF Manifest
<1>7. \A p \in reached : p.id \notin faulty => \E s \in segs : p \in s.docs
  BY <1>5
<1>8. \A s \in segs : s.last < stop /\ \A p \in s.docs : InRange(p.id, s)
  <2> SUFFICES ASSUME NEW s \in segs
               PROVE  s.last < stop /\ \A p \in s.docs : InRange(p.id, s)
    OBVIOUS
  <2>1. CASE s \in m.segs
    BY <1>2, <2>1 DEF WellFormed, Manifest, Segment
  <2>2. CASE reached # {} /\ s = FollowSegment(reached, faulty)
    BY <1>5, <2>2
  <2> QED BY <2>1, <2>2
<1>9. unreadable \in SUBSET Nat /\ high \in Nat
  BY <1>4 DEF Pruned, Manifest, Catalog
<1>10. k.next <= high /\ high <= k.next
  BY DEF Fits, Manifest, Catalog
<1>11. n = [inc |-> m.inc, seq |-> m.seq + 1, frontier |-> stop, high |-> high,
            segs |-> segs, unreadable |-> unreadable]
  BY DEF Followed
<1> HIDE DEF segs, high, unreadable, reached, n
<1>12. /\ n \in Manifest /\ n.seq = m.seq + 1 /\ n.inc = m.inc
       /\ n.frontier = stop /\ n.high = high
       /\ n.unreadable = unreadable /\ n.segs = segs
  BY <1>2, <1>6, <1>9, <1>11 DEF Manifest
<1>13. WellFormed(n)
  BY <1>2, <1>8, <1>9, <1>10, <1>12 DEF WellFormed, Catalog
<1>14. Fits(n, k)
  BY <1>10, <1>12 DEF Fits, Catalog
<1>15. Ahead(m, n)
  <2>1. \A id \in unreadable : id < m.frontier => id \in m.unreadable
    BY <1>4 DEF unreadable, Pruned, Manifest
  <2> QED BY <1>2, <1>12, <2>1 DEF Ahead
<1>16. Sound(n, k)
  <2> SUFFICES ASSUME NEW p \in Potential(k), Covers(n, p.id)
               PROVE  p \in Indexed(n)
    BY DEF Sound
  <2>1. p.id \in Nat /\ p.id < stop /\ p.id \notin unreadable
    BY <1>12 DEF Covers, Potential, Catalog, Document
  <2>2. CASE p \in k.dormant
    <3>1. Covers(m, p.id)
      BY <2>2 DEF Backed
    <3>2. p \in Indexed(m)
      BY <3>1 DEF Sound
    <3> QED BY <1>6, <1>12, <3>2 DEF Indexed
  <2>3. CASE p \in k.live /\ p.id >= m.frontier
    <3>1. p \in reached /\ p.id \notin faulty
      BY <2>1, <2>3 DEF reached, Reached, unreadable
    <3> QED BY <1>7, <1>12, <3>1 DEF Indexed
  <2>4. CASE p \in k.live /\ p.id < m.frontier
    <3>1. p.id \notin m.unreadable
      BY <2>1, <2>4 DEF unreadable, Pruned, Ids
    <3>2. p \in Indexed(m)
      BY <2>4, <3>1 DEF Sound, Covers
    <3> QED BY <1>6, <1>12, <3>2 DEF Indexed
  <2> QED BY <2>1, <2>2, <2>3, <2>4 DEF Potential, Manifest
<1> QED BY <1>12, <1>13, <1>14, <1>15, <1>16 DEF n

\* A merge's output holds the inputs' postings of the documents live in the
\* pinned view, within its range.
LEMMA OutputFacts ==
    ASSUME NEW m \in Manifest, NEW pin \in Catalog, Allocated(pin),
           WellFormed(m), NEW run, run # {}, run \subseteq m.segs,
           NEW o \in Output(m, run, pin)
    PROVE  /\ o \in Segment
           /\ o.docs = {p \in UNION {s.docs : s \in run} : p.id \in Ids(pin.live)}
           /\ o.last < m.frontier
           /\ \A p \in o.docs : InRange(p.id, o)
<1> DEFINE firsts == {s.first : s \in run}
           lasts == {s.last : s \in run}
           docs == {p \in UNION {s.docs : s \in run} : p.id \in Ids(pin.live)}
           survivors == Survivors(run, pin.live, Pruned(m, pin.live))
<1>1. \A s \in run : /\ s \in Segment /\ s.first \in Nat /\ s.last \in Nat
                     /\ s.last < m.frontier /\ s.docs \subseteq Document
                     /\ \A p \in s.docs : InRange(p.id, s)
  BY DEF WellFormed, Manifest, Segment
<1>2. firsts \subseteq Nat /\ firsts # {} /\ lasts \subseteq Nat /\ lasts # {}
  BY <1>1
<1>3. \A x \in lasts : x < m.frontier /\ x <= m.frontier
  BY <1>1 DEF Manifest, Segment
<1>4. Min(firsts) \in Nat /\ \A x \in firsts : Min(firsts) <= x
  <2> HIDE DEF firsts
  <2> QED BY <1>2, MinNat
<1>5. Max(lasts) \in lasts /\ \A x \in lasts : x <= Max(lasts)
  <2>1. m.frontier \in Nat
    BY DEF Manifest
  <2> HIDE DEF lasts
  <2> QED BY <1>2, <1>3, <2>1, MaxNat
<1>6. docs \in SUBSET Document
  BY <1>1
<1>7. Cardinality(survivors) \in Nat
  BY FS_Subset, FS_CardinalityType DEF Survivors, Allocated
<1>8. o = [first |-> Min(firsts), last |-> Max(lasts), docs |-> docs,
           count |-> Cardinality(survivors)]
  BY DEF Output
<1>9. \A p \in docs : \E s \in run : InRange(p.id, s)
  BY <1>1
<1>10. \A s \in run : s.first \in firsts /\ s.last \in lasts
  OBVIOUS
<1>11. \A p \in docs : p.id \in Nat
  BY <1>6 DEF Document
<1> HIDE DEF firsts, lasts, docs, survivors
<1>12. o \in Segment /\ o.docs = docs /\ o.last = Max(lasts) /\ o.first = Min(firsts)
  BY <1>2, <1>4, <1>5, <1>6, <1>7, <1>8 DEF Segment
<1>13. \A p \in docs : InRange(p.id, o)
  <2> SUFFICES ASSUME NEW p \in docs PROVE InRange(p.id, o)
    OBVIOUS
  <2>1. PICK s \in run : InRange(p.id, s)
    BY <1>9
  <2>2. Min(firsts) <= s.first /\ s.last <= Max(lasts)
    BY <1>4, <1>5, <1>10
  <2>3. Max(lasts) \in Nat
    BY <1>2, <1>5
  <2> QED BY <1>1, <1>4, <1>11, <1>12, <2>1, <2>2, <2>3 DEF InRange
<1> QED BY <1>3, <1>5, <1>12, <1>13 DEF docs

\* A publication of a merge is sound for every later view than its pin,
\* provided no document dormant at the pin lies in the inputs.
LEMMA MergedFacts ==
    ASSUME NEW m \in Manifest, NEW pin \in Catalog, NEW k \in Catalog,
           Allocated(pin), WellFormed(m), Fits(m, k), Sound(m, k),
           Evolves(pin, k), m.frontier <= pin.next, Backed(pin, m),
           NEW run, run # {}, run \subseteq m.segs,
           \A p \in pin.dormant : \A s \in run : ~InRange(p.id, s)
    PROVE  LET n == Merged(m, run, pin)
           IN  /\ n \in Manifest /\ n.seq = m.seq + 1 /\ n.inc = m.inc
               /\ n.frontier = m.frontier
               /\ m.segs \ run \subseteq n.segs
               /\ WellFormed(n)
               /\ Fits(n, k)
               /\ Sound(n, k)
               /\ Ahead(m, n)
<1> DEFINE out == Output(m, run, pin)
           unreadable == Pruned(m, pin.live)
           n == Merged(m, run, pin)
<1>1. \A o \in out :
         /\ o \in Segment
         /\ o.docs = {p \in UNION {s.docs : s \in run} : p.id \in Ids(pin.live)}
         /\ o.last < m.frontier
         /\ \A p \in o.docs : InRange(p.id, o)
  BY OutputFacts
<1>2. unreadable \in SUBSET Nat /\ unreadable \subseteq m.unreadable
  BY DEF Pruned, Manifest
<1>3. Survivors(run, pin.live, unreadable) # {} => out # {}
  BY DEF Output
<1>4. n = [inc |-> m.inc, seq |-> m.seq + 1, frontier |-> m.frontier,
           high |-> m.high, segs |-> (m.segs \ run) \cup out,
           unreadable |-> unreadable]
  BY DEF Merged
<1>10. m.segs \subseteq Segment
  BY DEF Manifest
<1> HIDE DEF out, n, unreadable
<1>11. (m.segs \ run) \cup out \in SUBSET Segment
  BY <1>1, <1>10
<1>5. /\ n \in Manifest /\ n.seq = m.seq + 1 /\ n.inc = m.inc
      /\ n.frontier = m.frontier /\ n.high = m.high
      /\ n.unreadable = unreadable /\ n.segs = (m.segs \ run) \cup out
  BY <1>2, <1>4, <1>11 DEF Manifest
<1>6. WellFormed(n)
  BY <1>1, <1>5 DEF WellFormed
<1>7. Fits(n, k)
  BY <1>5 DEF Fits
<1>8. Ahead(m, n)
  BY <1>2, <1>5 DEF Ahead, Manifest
<1>9. Sound(n, k)
  <2> SUFFICES ASSUME NEW p \in Potential(k), Covers(n, p.id)
               PROVE  p \in Indexed(n)
    BY DEF Sound
  <2>1. p.id \in Nat /\ p.id < m.frontier /\ p.id \notin unreadable
    BY <1>5 DEF Covers, Potential, Catalog, Document
  <2>2. p \in Potential(pin)
    BY <2>1 DEF Evolves, Catalog, Manifest
  <2>3. p.id \notin m.unreadable
    <3>1. CASE p \in pin.live
      BY <2>1, <3>1 DEF unreadable, Pruned, Ids
    <3>2. CASE p \in pin.dormant
      BY <3>2 DEF Backed, Covers
    <3> QED BY <2>2, <3>1, <3>2 DEF Potential
  <2>4. PICK s \in m.segs : p \in s.docs
    BY <2>1, <2>3 DEF Sound, Covers, Indexed
  <2>5. CASE s \notin run
    BY <1>5, <2>4, <2>5 DEF Indexed
  <2>6. CASE s \in run
    <3>1. InRange(p.id, s)
      BY <2>4 DEF WellFormed
    <3>2. p \in pin.live
      BY <2>2, <2>6, <3>1 DEF Potential
    <3>3. p \in Survivors(run, pin.live, unreadable)
      BY <2>1, <2>6, <3>1, <3>2 DEF Survivors
    <3>4. PICK o \in out : TRUE
      BY <1>3, <3>3
    <3>5. p \in o.docs
      BY <1>1, <2>4, <2>6, <3>2, <3>4 DEF Ids
    <3> QED BY <1>5, <3>5 DEF Indexed
  <2> QED BY <2>5, <2>6
<1> QED BY <1>5, <1>6, <1>7, <1>8, <1>9 DEF n

\* An empty index is sound for any view of its incarnation.
LEMMA EmptiedFacts ==
    ASSUME NEW m \in Manifest, NEW k \in Catalog
    PROVE  LET e == Emptied(m, k.inc)
           IN  /\ e \in Manifest /\ e.seq = m.seq + 1 /\ e.inc = k.inc
               /\ e.segs = {}
               /\ WellFormed(e)
               /\ Fits(e, k)
               /\ Sound(e, k)
               /\ Ahead(e, e)
<1> DEFINE e == Emptied(m, k.inc)
<1>1. /\ e \in Manifest /\ e.seq = m.seq + 1 /\ e.inc = k.inc /\ e.segs = {}
      /\ e.frontier = 0 /\ e.high = 0 /\ e.unreadable = {}
  BY DEF Emptied, EmptyManifest, Manifest, Catalog
<1> HIDE DEF e
<1>2. WellFormed(e) /\ Fits(e, k) /\ Ahead(e, e)
  BY <1>1 DEF WellFormed, Fits, Ahead, Catalog
<1>3. Sound(e, k)
  BY <1>1 DEF Sound, Covers, Potential, Catalog, Document
<1> QED BY <1>1, <1>2, <1>3 DEF e

----------------------------------------------------------------------------
(* The actions.                                                            *)


\* Covering no less is transitive.
LEMMA AheadTrans ==
    ASSUME NEW a, NEW b, NEW c,
           a.frontier \in Nat, b.frontier \in Nat, c.frontier \in Nat,
           c.unreadable \in SUBSET Nat, Ahead(a, b), Ahead(b, c)
    PROVE  Ahead(a, c)
  BY DEF Ahead

\* The catalog moves on; the index does not.
LEMMA CatalogMove ==
    ASSUME IInv, TypeOK',
           Evolves(selCat, selCat'), Evolves(disk, disk'),
           cur' \subseteq cur, UNCHANGED <<man, rdFresh, rdCat, rdSel>>,
           sel' \subseteq sel, coverage' \subseteq coverage
    PROVE  CurrentInv' /\ PublishedInv' /\ SelectedInv' /\ ReaderInv'
<1> USE DEF IInv
<1>1. selCat \in Catalog /\ selCat' \in Catalog /\ disk \in Catalog /\ disk' \in Catalog
  BY DEF TypeOK
<1>2. /\ cur \subseteq Manifest /\ man \subseteq Manifest /\ sel \subseteq Manifest
      /\ rdFresh \subseteq Manifest
  BY DEF TypeOK
<1>3. \A c \in Manifest : c.frontier <= c.high /\ Fits(c, selCat) /\ Sound(c, selCat)
         => Fits(c, selCat') /\ Sound(c, selCat')
  BY <1>1, SoundLater
<1>4. \A c \in Manifest : c.frontier <= c.high /\ Fits(c, disk) /\ Sound(c, disk)
         => Fits(c, disk') /\ Sound(c, disk')
  BY <1>1, SoundLater
<1>5. disk'.inc = disk.inc
  BY DEF Evolves
<1>6. CurrentInv'
  BY <1>2, <1>3 DEF CurrentInv, WellFormed
<1>7. PublishedInv'
  BY <1>2, <1>3, <1>5 DEF PublishedInv, WellFormed
<1>8. SelectedInv'
  BY <1>2, <1>3 DEF SelectedInv
<1>9. ReaderInv'
  BY <1>2, <1>4, <1>5 DEF ReaderInv
<1> QED BY <1>6, <1>7, <1>8, <1>9

\* The index moves on; the catalog does not.
LEMMA IndexMove ==
    ASSUME IInv, NEW m \in cur, NEW n \in Manifest,
           WellFormed(n), Fits(n, selCat), Sound(n, selCat), Ahead(m, n),
           m.seq <= n.seq, n.inc = m.inc, wr # "attach", ~damaged,
           cur' \in {cur, {n}}, man' \in {man, {n}},
           cur' = {n} => man' = {n},
           UNCHANGED <<catalogVars, sel, coverage>>
    PROVE  CurrentInv' /\ PublishedInv' /\ SelectedInv' /\ DormantInv'
<1> USE DEF IInv, catalogVars
<1>1. /\ selCat \in Catalog /\ disk \in Catalog /\ m \in Manifest
      /\ man = cur /\ cur = {m}
      /\ sel \subseteq Manifest /\ coverage \subseteq CoverageType
  BY DEF TypeOK, PhaseInv
<1>2. n.inc = disk.inc
  BY <1>1 DEF CurrentInv, CatalogInv, Fits, Evolves
<1>3. cur' \subseteq {m, n} /\ man' \subseteq {m, n}
  BY <1>1
<1>4. Ahead(n, n) /\ Ahead(m, m)
  BY <1>1, AheadRefl
<1>5. CurrentInv'
  <2>1. \A c \in cur' : WellFormed(c) /\ Fits(c, selCat) /\ Sound(c, selCat)
    BY <1>3 DEF CurrentInv
  <2>2. \A c \in cur', x \in man' : Ahead(c, x)
    BY <1>1, <1>4
  <2> QED BY <2>1, <2>2 DEF CurrentInv
<1>6. PublishedInv'
  BY <1>1, <1>2, <1>3 DEF PublishedInv, Catalog
<1>7. \A c \in sel \cup coverage : Ahead(c, n)
  <2> SUFFICES ASSUME NEW c \in sel \cup coverage PROVE Ahead(c, n)
    OBVIOUS
  <2>1. c.frontier \in Nat
    BY <1>1 DEF Manifest, CoverageType
  <2>2. m.frontier \in Nat /\ n.frontier \in Nat /\ n.unreadable \in SUBSET Nat
    BY <1>1 DEF Manifest
  <2>3. Ahead(c, m)
    BY DEF SelectedInv
  <2> QED BY <2>1, <2>2, <2>3, AheadTrans
<1>8. \A c \in sel : c.seq <= n.seq
  BY <1>1 DEF SelectedInv, Manifest
<1>9. SelectedInv'
  BY <1>3, <1>7, <1>8 DEF SelectedInv
<1>10. Backed(disk, m) /\ Backed(selCat, m)
  BY DEF DormantInv
<1>11. Backed(disk, n) /\ Backed(selCat, n)
  BY <1>1, <1>10, AheadBacked
<1>12. DormantInv'
  BY <1>3, <1>10, <1>11 DEF DormantInv
<1> QED BY <1>5, <1>6, <1>9, <1>12

\* The attached view is always one that select_content takes.
LEMMA SelectCurrent ==
    ASSUME IInv, NEW m \in cur
    PROVE  SelectContent(m, sel, selCat) = {m}
  BY DEF IInv, CurrentInv, SelectedInv, SelectContent

\* A catalog made from nothing, without an index, satisfies the invariant.
LEMMA InitStep == Init => IInv
<1> SUFFICES ASSUME Init PROVE IInv
  OBVIOUS
<1> DEFINE k == FreshCatalog(0)
<1>1. /\ k \in Catalog /\ k.live = {} /\ k.dormant = {} /\ k.next = 0 /\ k.inc = 0
  BY DEF FreshCatalog, Catalog
<1>2. disk = k /\ selCat = k /\ merge = {}
  BY DEF Init
<1> HIDE DEF k
<1>3. TypeOK
  BY <1>1, <1>2 DEF Init, TypeOK
<1>4. AllocatedInv
  BY <1>1, <1>2, FS_EmptySet DEF AllocatedInv, Allocated, Potential
<1>5. CatalogInv
  BY <1>1, <1>2, EvolvesRefl DEF CatalogInv
<1> QED BY <1>3, <1>4, <1>5
       DEF IInv, Init, PhaseInv, CurrentInv, PublishedInv, SelectedInv,
           DormantInv, MergeInv, ReaderInv

\* Beginning a refresh: authorize_content hands over no more coverage than the
\* selected view has.
LEMMA RefreshBeginStep == IInv /\ RefreshBegin => IInv'
<1> SUFFICES ASSUME IInv, RefreshBegin PROVE IInv'
  OBVIOUS
<1> USE DEF IInv, RefreshBegin, catalogVars, indexVars, readerVars
<1>1. sel \subseteq Manifest /\ selCat \in Catalog
  BY DEF TypeOK
<1>2. \A v \in coverage' : /\ v \in CoverageType
                           /\ \E c \in sel : v.frontier = c.frontier
                                             /\ v.unreadable = c.unreadable
  BY <1>1 DEF Authorized, CoverageType, Manifest
<1>3. TypeOK'
  BY <1>2 DEF TypeOK
<1>4. SelectedInv'
  <2>1. \A v \in coverage', m \in cur \cup man : Ahead(v, m)
    BY <1>2 DEF SelectedInv, Ahead
  <2> QED BY <2>1 DEF SelectedInv
<1>5. PhaseInv'
  BY <1>2 DEF PhaseInv
<1>6. AllocatedInv' /\ CatalogInv' /\ CurrentInv' /\ PublishedInv'
  BY DEF AllocatedInv, CatalogInv, CurrentInv, PublishedInv
<1>7. DormantInv' /\ MergeInv' /\ ReaderInv'
  BY DEF DormantInv, MergeInv, ReaderInv
<1> QED BY <1>3, <1>4, <1>5, <1>6, <1>7

\* The writer mutex is released, or a failed refresh goes on to recover,
\* with nothing published.
LEMMA RefreshReleaseStep == IInv /\ (RefreshAbort \/ RefreshRefused) => IInv'
<1> SUFFICES ASSUME IInv, RefreshAbort \/ RefreshRefused PROVE IInv'
  OBVIOUS
<1>1. /\ UNCHANGED <<disk, poisoned, selCat, man, cur, damaged, sel, merge,
                     rdPhase, rdFresh, rdCat, rdSel, failures, reads>>
      /\ wr = "refresh" /\ wr' \in {"free", "failed"} /\ coverage' = {}
  BY DEF RefreshAbort, RefreshRefused, catalogVars, indexVars, readerVars
<1>2. TypeOK'
  BY <1>1 DEF IInv, TypeOK
<1>3. PhaseInv' /\ SelectedInv'
  BY <1>1 DEF IInv, PhaseInv, SelectedInv
<1>4. AllocatedInv' /\ CatalogInv' /\ CurrentInv' /\ PublishedInv'
  BY <1>1 DEF IInv, AllocatedInv, CatalogInv, CurrentInv, PublishedInv
<1>5. DormantInv' /\ MergeInv' /\ ReaderInv'
  BY <1>1 DEF IInv, DormantInv, MergeInv, ReaderInv
<1> QED BY <1>2, <1>3, <1>4, <1>5 DEF IInv

\* Whatever a recrawl makes of the writer's view.
LEMMA RecrawledFacts ==
    ASSUME IInv, NEW k, RecrawledTo(k)
    PROVE  /\ k \in Catalog
           /\ Evolves(selCat, k)
           /\ Allocated(k)
           /\ \A c \in cur \cup man : Backed(selCat, c) => Backed(k, c)
<1> USE DEF IInv
<1>1. PICK tree \in SUBSET Hash, last \in selCat.next .. MaxDoc :
         \E ids \in Bijection(Unknown(selCat, coverage, tree),
                              selCat.next .. last - 1) :
            k = Recrawl(selCat, coverage, tree, ids, last)
  BY DEF RecrawledTo
<1>2. PICK ids \in Bijection(Unknown(selCat, coverage, tree),
                             selCat.next .. last - 1) :
            k = Recrawl(selCat, coverage, tree, ids, last)
  BY <1>1
<1>3. selCat \in Catalog /\ coverage \in SUBSET CoverageType
  BY DEF TypeOK
<1>4. last \in Nat /\ selCat.next <= last
  BY <1>1, <1>3, BoundsAssumption DEF Catalog
<1>5. /\ k \in Catalog
      /\ Evolves(selCat, k)
      /\ \A p \in k.dormant :
            \/ p \in selCat.dormant
            \/ p \in selCat.live /\ \E v \in coverage : Covers(v, p.id)
      /\ Allocated(selCat) => Allocated(k)
  BY <1>2, <1>3, <1>4, RecrawlFacts
<1>6. Allocated(selCat)
  BY DEF AllocatedInv
<1>7. ASSUME NEW c \in cur \cup man, Backed(selCat, c), NEW p \in k.dormant
      PROVE  Covers(c, p.id)
  <2>1. p.id \in Nat
    BY <1>5 DEF Catalog, Document
  <2>2. CASE p \in selCat.dormant
    BY <1>7, <2>2 DEF Backed
  <2>3. ASSUME NEW v \in coverage, Covers(v, p.id) PROVE Covers(c, p.id)
    <3>1. Ahead(v, c)
      BY DEF SelectedInv
    <3>2. v.frontier \in Nat /\ c.frontier \in Nat
      BY <1>3 DEF TypeOK, CoverageType, Manifest
    <3> QED BY <2>1, <2>3, <3>1, <3>2 DEF Covers, Ahead
  <2> QED BY <1>5, <2>2, <2>3
<1> QED BY <1>5, <1>6, <1>7 DEF Backed

\* A refresh publishes its transaction, before it is selected.
LEMMA RefreshCommitStep == IInv /\ RefreshCommit => IInv'
<1> SUFFICES ASSUME IInv, RefreshCommit PROVE IInv'
  OBVIOUS
<1> USE DEF IInv
<1>1. /\ UNCHANGED <<poisoned, selCat, man, cur, damaged, sel, coverage, merge,
                     rdPhase, rdFresh, rdCat, rdSel, failures, reads>>
      /\ wr = "refresh" /\ wr' = "committed" /\ ~poisoned /\ RecrawledTo(disk')
  BY DEF RefreshCommit, indexVars, readerVars
<1>2. disk = selCat
  BY <1>1 DEF CatalogInv
<1>3. /\ disk' \in Catalog /\ Evolves(selCat, disk') /\ Allocated(disk')
      /\ \A c \in cur \cup man : Backed(selCat, c) => Backed(disk', c)
  BY <1>1, RecrawledFacts
<1>4. TypeOK'
  BY <1>1, <1>3 DEF TypeOK
<1>5. Evolves(selCat, selCat')
  BY <1>1, EvolvesRefl DEF TypeOK
<1>6. CurrentInv' /\ PublishedInv' /\ SelectedInv' /\ ReaderInv'
  BY <1>1, <1>2, <1>3, <1>4, <1>5, CatalogMove
<1>7. AllocatedInv' /\ CatalogInv' /\ PhaseInv' /\ MergeInv'
  BY <1>1, <1>3 DEF AllocatedInv, CatalogInv, PhaseInv, MergeInv
<1>8. disk'.inc = disk.inc
  BY <1>2, <1>3 DEF Evolves
<1>9. DormantInv'
  BY <1>1, <1>3, <1>8 DEF DormantInv
<1> QED BY <1>4, <1>6, <1>7, <1>9

\* A refresh's publication fails, before or after the rename.
LEMMA RefreshFailStep == IInv /\ RefreshFail => IInv'
<1> SUFFICES ASSUME IInv, RefreshFail PROVE IInv'
  OBVIOUS
<1> USE DEF IInv
<1>1. /\ UNCHANGED <<selCat, man, cur, damaged, sel, merge,
                     rdPhase, rdFresh, rdCat, rdSel, reads>>
      /\ wr = "refresh" /\ wr' = "failed" /\ ~poisoned /\ poisoned' = TRUE
      /\ coverage' = {} /\ failures' = failures + 1
      /\ disk' = disk \/ RecrawledTo(disk')
  BY DEF RefreshFail, Failing, indexVars, readerVars
<1>2. disk = selCat /\ selCat \in Catalog /\ Evolves(selCat, selCat)
  BY <1>1, EvolvesRefl DEF CatalogInv, TypeOK
<1>3. /\ disk' \in Catalog /\ Evolves(selCat, disk') /\ Allocated(disk')
      /\ \A c \in cur \cup man : Backed(selCat, c) => Backed(disk', c)
  BY <1>1, <1>2, RecrawledFacts DEF AllocatedInv
<1>4. TypeOK'
  BY <1>1, <1>3 DEF TypeOK
<1>5. CurrentInv' /\ PublishedInv' /\ SelectedInv' /\ ReaderInv'
  BY <1>1, <1>2, <1>3, <1>4, CatalogMove
<1>6. AllocatedInv' /\ CatalogInv' /\ PhaseInv' /\ MergeInv'
  BY <1>1, <1>3 DEF AllocatedInv, CatalogInv, PhaseInv, MergeInv
<1>7. disk'.inc = disk.inc
  BY <1>2, <1>3 DEF Evolves
<1>8. DormantInv'
  BY <1>1, <1>3, <1>7 DEF DormantInv
<1> QED BY <1>4, <1>5, <1>6, <1>8

\* A streaming merge's pin stays an earlier view of the selected catalog.
LEMMA MergeLater ==
    ASSUME IInv, selCat' \in Catalog, Evolves(selCat, selCat'),
           UNCHANGED <<cur, merge>>
    PROVE  MergeInv'
<1>1. \A g \in merge : Evolves(g.pin, selCat')
  BY EvolvesTrans DEF IInv, TypeOK, MergeInv
<1> QED BY <1>1 DEF IInv, MergeInv

\* Engine::select of the published catalog.
LEMMA SelectDisk ==
    ASSUME IInv, wr \in {"committed", "failed"}, wr' = "free",
           selCat' = disk, sel' = KeptContent(disk),
           coverage' = {}, poisoned' \in BOOLEAN,
           UNCHANGED <<disk, indexVars, merge, readerVars, failures>>
    PROVE  IInv'
<1> USE DEF IInv, indexVars, readerVars
<1>1. sel' \subseteq sel /\ disk \in Catalog /\ Evolves(disk, disk)
  BY EvolvesRefl DEF KeptContent, TypeOK
<1>2. TypeOK'
  BY <1>1 DEF TypeOK
<1>3. Evolves(selCat, selCat')
  BY DEF CatalogInv
<1>4. CurrentInv' /\ PublishedInv' /\ SelectedInv' /\ ReaderInv'
  BY <1>1, <1>2, <1>3, CatalogMove
<1>5. MergeInv'
  BY <1>1, <1>3, MergeLater
<1>6. AllocatedInv' /\ CatalogInv' /\ PhaseInv'
  BY <1>1 DEF AllocatedInv, CatalogInv, PhaseInv
<1>7. DormantInv'
  BY DEF DormantInv
<1> QED BY <1>2, <1>4, <1>5, <1>6, <1>7

\* Engine::select of what the refresh published.
LEMMA RefreshSelectStep == IInv /\ RefreshSelect => IInv'
  BY SelectDisk DEF RefreshSelect, IInv, TypeOK

\* recover_failed_write, whether the writer reopens or stays poisoned.
LEMMA RecoverStep == IInv /\ Recover => IInv'
<1> SUFFICES ASSUME IInv, Recover PROVE IInv'
  OBVIOUS
<1>1. CASE poisoned' = FALSE /\ selCat' = disk /\ sel' = KeptContent(disk)
  <2>1. coverage' = {}
    BY DEF Recover, IInv, PhaseInv
  <2> QED BY <1>1, <2>1, SelectDisk DEF Recover
<1>2. CASE poisoned' = TRUE /\ UNCHANGED <<selCat, sel>>
  <2>1. /\ UNCHANGED <<disk, selCat, man, cur, damaged, sel, coverage, merge,
                       rdPhase, rdFresh, rdCat, rdSel, failures, reads>>
        /\ wr = "failed" /\ wr' = "free"
    BY <1>2 DEF Recover, indexVars, readerVars
  <2>2. TypeOK' /\ AllocatedInv' /\ CatalogInv' /\ PhaseInv'
    BY <1>2, <2>1 DEF IInv, TypeOK, AllocatedInv, CatalogInv, PhaseInv
  <2>3. CurrentInv' /\ PublishedInv' /\ SelectedInv'
    BY <2>1 DEF IInv, CurrentInv, PublishedInv, SelectedInv
  <2>4. DormantInv' /\ MergeInv' /\ ReaderInv'
    BY <2>1 DEF IInv, DormantInv, MergeInv, ReaderInv
  <2> QED BY <2>2, <2>3, <2>4 DEF IInv
<1> QED BY <1>1, <1>2 DEF Recover

\* attach_content opens the index writer, on the old index or an empty one.
LEMMA AttachOpenStep == IInv /\ AttachOpen => IInv'
<1> SUFFICES ASSUME IInv, AttachOpen PROVE IInv'
  OBVIOUS
<1> USE DEF IInv
<1> DEFINE e == Emptied(EmptyManifest(selCat.inc), selCat.inc)
<1>1. /\ UNCHANGED <<disk, poisoned, selCat, coverage, merge,
                     rdPhase, rdFresh, rdCat, rdSel, failures, reads>>
      /\ wr = "free" /\ merge = {} /\ sel' = {} /\ damaged' = FALSE
      /\ wr' = "attach"
      /\ \/ \E m \in man : Fits(m, selCat) /\ cur' = {m} /\ man' = man
         \/ man' = {e} /\ cur' = {e}
  BY DEF AttachOpen, catalogVars, readerVars
<1>2. selCat \in Catalog /\ disk \in Catalog /\ disk.inc = selCat.inc
  BY DEF TypeOK, CatalogInv, Evolves
<1>3. /\ EmptyManifest(selCat.inc) \in Manifest
      /\ e \in Manifest /\ e.inc = selCat.inc /\ e.segs = {}
      /\ WellFormed(e) /\ Fits(e, selCat) /\ Sound(e, selCat) /\ Ahead(e, e)
  <2>1. EmptyManifest(selCat.inc) \in Manifest
    BY <1>2 DEF EmptyManifest, Manifest, Catalog
  <2> QED BY <1>2, <2>1, EmptiedFacts
<1> HIDE DEF e
<1>4. PICK m \in Manifest :
         /\ man' = {m} /\ cur' = {m} /\ m.inc = selCat.inc
         /\ WellFormed(m) /\ Fits(m, selCat) /\ Sound(m, selCat)
         /\ (m.segs = {} \/ (Backed(disk, m) /\ Backed(selCat, m)))
  <2>1. CASE man' = {e} /\ cur' = {e}
    BY <1>3, <2>1
  <2>2. ASSUME NEW m \in man, Fits(m, selCat), cur' = {m}, man' = man
        PROVE  /\ m \in Manifest /\ man' = {m} /\ m.inc = selCat.inc
               /\ WellFormed(m) /\ Sound(m, selCat)
               /\ (m.segs = {} \/ (Backed(disk, m) /\ Backed(selCat, m)))
    <3>1. m \in Manifest /\ man = {m} /\ m.inc = selCat.inc
      BY <2>2 DEF TypeOK, PhaseInv, Fits
    <3>2. WellFormed(m) /\ Sound(m, selCat)
      BY <1>2, <2>2, <3>1 DEF PublishedInv
    <3>3. (m.segs = {} \/ (Backed(disk, m) /\ Backed(selCat, m)))
      BY <1>2, <2>2, <3>1 DEF DormantInv
    <3> QED BY <2>2, <3>1, <3>2, <3>3
  <2> QED BY <1>1, <2>1, <2>2
<1>5. TypeOK'
  BY <1>1, <1>4 DEF TypeOK
<1>6. AllocatedInv' /\ CatalogInv' /\ PhaseInv'
  BY <1>1, <1>4 DEF AllocatedInv, CatalogInv, PhaseInv
<1>7. CurrentInv' /\ PublishedInv'
  BY <1>1, <1>2, <1>4, AheadRefl DEF CurrentInv, PublishedInv, Catalog
<1>8. SelectedInv' /\ MergeInv' /\ ReaderInv'
  BY <1>1 DEF SelectedInv, MergeInv, ReaderInv, PhaseInv
<1>9. DormantInv'
  BY <1>1, <1>4 DEF DormantInv
<1> QED BY <1>5, <1>6, <1>7, <1>8, <1>9

\* attach_content fails while it opens the index writer.
LEMMA AttachErrorStep == IInv /\ AttachError => IInv'
<1> SUFFICES ASSUME IInv, AttachError PROVE IInv'
  OBVIOUS
<1> USE DEF IInv
<1> DEFINE e == Emptied(EmptyManifest(selCat.inc), selCat.inc)
<1>1. /\ UNCHANGED <<disk, poisoned, selCat, damaged, coverage, wr, merge,
                     rdPhase, rdFresh, rdCat, rdSel, reads>>
      /\ wr = "free" /\ merge = {} /\ sel' = {} /\ cur' = {}
      /\ failures' = failures + 1 /\ man' \in {man, {e}}
  BY DEF AttachError, Failing, catalogVars, readerVars
<1>2. selCat \in Catalog /\ disk \in Catalog /\ disk.inc = selCat.inc
  BY DEF TypeOK, CatalogInv, Evolves
<1>3. /\ EmptyManifest(selCat.inc) \in Manifest
      /\ e \in Manifest /\ e.inc = selCat.inc /\ e.segs = {}
      /\ WellFormed(e) /\ Fits(e, selCat) /\ Sound(e, selCat)
  <2>1. EmptyManifest(selCat.inc) \in Manifest
    BY <1>2 DEF EmptyManifest, Manifest, Catalog
  <2> QED BY <1>2, <2>1, EmptiedFacts
<1> HIDE DEF e
<1>4. TypeOK'
  BY <1>1, <1>3 DEF TypeOK
<1>5. AllocatedInv' /\ CatalogInv' /\ PhaseInv'
  BY <1>1, <1>3 DEF AllocatedInv, CatalogInv, PhaseInv
<1>6. CurrentInv' /\ PublishedInv'
  BY <1>1, <1>2, <1>3 DEF CurrentInv, PublishedInv, Catalog
<1>7. SelectedInv' /\ MergeInv' /\ ReaderInv'
  BY <1>1 DEF SelectedInv, MergeInv, ReaderInv, PhaseInv
<1>8. DormantInv'
  BY <1>1, <1>3 DEF DormantInv
<1> QED BY <1>4, <1>5, <1>6, <1>7, <1>8

\* The empty set of permissions is backed by any index.
LEMMA NoneBacked ==
    ASSUME NEW k, k.dormant = {}
    PROVE  \A c : Backed(k, c)
  BY DEF Backed

\* attach_content clears the permissions if it must and selects the view.
LEMMA AttachInstallStep == IInv /\ AttachInstall => IInv'
<1> SUFFICES ASSUME IInv, AttachInstall PROVE IInv'
  OBVIOUS
<1> USE DEF IInv
<1>1. PICK m \in cur :
         /\ \/ m.segs # {} /\ UNCHANGED catalogVars
            \/ /\ m.segs = {} /\ ~poisoned
               /\ disk' = ClearDormant(selCat) /\ selCat' = disk'
               /\ UNCHANGED poisoned
         /\ sel' = SelectContent(m, sel, selCat')
  BY DEF AttachInstall
<1>2. /\ UNCHANGED <<man, cur, damaged, coverage, merge, poisoned,
                     rdPhase, rdFresh, rdCat, rdSel, failures, reads>>
      /\ wr = "attach" /\ wr' = "free"
  BY <1>1 DEF AttachInstall, indexVars, readerVars, catalogVars
<1>3. /\ merge = {} /\ sel = {} /\ coverage = {} /\ ~damaged
      /\ cur = {m} /\ man = {m} /\ m \in Manifest
  BY <1>1, <1>2 DEF PhaseInv, TypeOK
<1>4. /\ selCat' \in Catalog /\ disk' \in Catalog
      /\ Evolves(selCat, selCat') /\ Evolves(disk, disk')
      /\ Evolves(selCat', disk') /\ (~poisoned => disk' = selCat')
      /\ Allocated(selCat') /\ Allocated(disk')
      /\ Backed(disk', m) /\ Backed(selCat', m)
  <2>1. CASE m.segs # {} /\ UNCHANGED catalogVars
    <3>1. Backed(disk, m) /\ Backed(selCat, m)
      BY <1>1, <2>1 DEF DormantInv
    <3> QED BY <1>2, <2>1, <3>1, EvolvesRefl
            DEF catalogVars, TypeOK, CatalogInv, AllocatedInv
  <2>2. CASE ~poisoned /\ disk' = ClearDormant(selCat) /\ selCat' = disk'
    <3>1. disk = selCat /\ selCat \in Catalog /\ Allocated(selCat)
      BY <1>2, <2>2 DEF CatalogInv, TypeOK, AllocatedInv
    <3>2. /\ disk' \in Catalog /\ disk'.live = selCat.live /\ disk'.dormant = {}
          /\ disk'.next = selCat.next /\ Evolves(selCat, disk')
      BY <2>2, <3>1, ClearDormantFacts
    <3>3. Allocated(disk')
      BY <3>1, <3>2, FS_EmptySet DEF Allocated, Potential
    <3> QED BY <2>2, <3>1, <3>2, <3>3, NoneBacked, EvolvesRefl
  <2> QED BY <1>1, <2>1, <2>2
<1>5. Fits(m, selCat')
  BY <1>3, <1>4, SoundLater DEF CurrentInv, TypeOK, WellFormed
<1>6. sel' = {m}
  BY <1>1, <1>3, <1>5 DEF SelectContent
<1>7. TypeOK'
  BY <1>2, <1>3, <1>4, <1>6 DEF TypeOK
<1>8. CurrentInv' /\ PublishedInv' /\ ReaderInv'
  <2>1. \A c \in Manifest : c.frontier <= c.high /\ Fits(c, selCat) /\ Sound(c, selCat)
         => Fits(c, selCat') /\ Sound(c, selCat')
    BY <1>4, SoundLater DEF TypeOK
  <2>2. \A c \in Manifest : c.frontier <= c.high /\ Fits(c, disk) /\ Sound(c, disk)
         => Fits(c, disk') /\ Sound(c, disk')
    BY <1>4, SoundLater DEF TypeOK
  <2>3. disk'.inc = disk.inc
    BY <1>4 DEF Evolves
  <2>4. CurrentInv'
    BY <1>2, <1>3, <2>1 DEF CurrentInv, WellFormed
  <2>5. PublishedInv'
    BY <1>2, <1>3, <2>1, <2>3 DEF PublishedInv, WellFormed
  <2>6. ReaderInv'
    BY <1>2, <2>2, <2>3 DEF ReaderInv, TypeOK
  <2> QED BY <2>4, <2>5, <2>6
<1>9. SelectedInv'
  BY <1>2, <1>3, <1>6, <1>8, AheadRefl
     DEF SelectedInv, CurrentInv, WellFormed, Manifest
<1>10. AllocatedInv' /\ CatalogInv' /\ PhaseInv' /\ MergeInv'
  BY <1>2, <1>3, <1>4 DEF AllocatedInv, CatalogInv, PhaseInv, MergeInv
<1>11. DormantInv'
  BY <1>2, <1>3, <1>4 DEF DormantInv
<1> QED BY <1>7, <1>8, <1>9, <1>10, <1>11

\* Revoking permissions leaves what is live, and what is left stays backed.
LEMMA ClearedView ==
    ASSUME NEW k \in Catalog, Allocated(k)
    PROVE  /\ ClearDormant(k) \in Catalog
           /\ Evolves(k, ClearDormant(k))
           /\ Allocated(ClearDormant(k))
           /\ \A c : Backed(ClearDormant(k), c)
<1>1. /\ ClearDormant(k) \in Catalog
      /\ ClearDormant(k).live = k.live
      /\ ClearDormant(k).next = k.next
      /\ ClearDormant(k).dormant = {}
      /\ Evolves(k, ClearDormant(k))
  BY ClearDormantFacts
<1>2. Allocated(ClearDormant(k))
  BY <1>1, FS_EmptySet DEF Allocated, Potential
<1> QED BY <1>1, <1>2, NoneBacked

\* The catalog after a merge's revocations: still allocated, and as backed.
LEMMA RevokedView ==
    ASSUME NEW k \in Catalog, Allocated(k), NEW runs
    PROVE  /\ Revoked(k, runs) \in Catalog
           /\ Revoked(k, runs).next = k.next
           /\ Evolves(k, Revoked(k, runs))
           /\ Allocated(Revoked(k, runs))
           /\ \A c : Backed(k, c) => Backed(Revoked(k, runs), c)
           /\ \A p \in Revoked(k, runs).dormant, r \in runs :
                 \A s \in r : ~InRange(p.id, s)
<1>1. /\ Revoked(k, runs) \in Catalog
      /\ Revoked(k, runs).live = k.live
      /\ Revoked(k, runs).next = k.next
      /\ Revoked(k, runs).dormant \subseteq k.dormant
      /\ Evolves(k, Revoked(k, runs))
      /\ \A p \in Revoked(k, runs).dormant, r \in runs :
            \A s \in r : ~InRange(p.id, s)
  BY RevokedFacts
<1>2. Allocated(Revoked(k, runs))
  BY <1>1, FS_Subset DEF Allocated, Potential
<1>3. \A c : Backed(k, c) => Backed(Revoked(k, runs), c)
  BY <1>1 DEF Backed
<1> QED BY <1>1, <1>2, <1>3

\* attach_content fails to clear the permissions.
LEMMA AttachFailStep == IInv /\ AttachFail => IInv'
<1> SUFFICES ASSUME IInv, AttachFail PROVE IInv'
  OBVIOUS
<1> USE DEF IInv
<1>1. /\ UNCHANGED <<selCat, man, damaged, sel, coverage, merge,
                     rdPhase, rdFresh, rdCat, rdSel, reads>>
      /\ wr = "attach" /\ wr' = "free" /\ cur' = {}
      /\ \/ UNCHANGED <<disk, poisoned, failures>>
         \/ /\ ~poisoned /\ disk' \in {disk, ClearDormant(selCat)}
            /\ poisoned' = TRUE /\ failures' = failures + 1
  BY DEF AttachFail, Failing, readerVars
<1>2. merge = {} /\ sel = {} /\ coverage = {}
  BY <1>1 DEF PhaseInv
<1>3. selCat \in Catalog /\ Allocated(selCat) /\ disk \in Catalog
  BY DEF TypeOK, AllocatedInv
<1>4. disk' = disk \/ (disk = selCat /\ disk' = ClearDormant(selCat))
  BY <1>1 DEF CatalogInv
<1>5. /\ disk' \in Catalog /\ Evolves(selCat, disk') /\ Evolves(disk, disk')
      /\ Allocated(disk') /\ \A c : Backed(disk, c) => Backed(disk', c)
  <2>1. CASE disk' = disk
    BY <1>3, <2>1, EvolvesRefl DEF CatalogInv, AllocatedInv
  <2>2. CASE disk = selCat /\ disk' = ClearDormant(selCat)
    BY <1>3, <2>2, ClearedView
  <2> QED BY <1>4, <2>1, <2>2
<1>6. Evolves(selCat, selCat')
  BY <1>1, <1>3, EvolvesRefl
<1>7. TypeOK'
  <2>1. poisoned' \in BOOLEAN
    BY <1>1 DEF TypeOK
  <2>2. failures' \in Nat
    BY <1>1 DEF TypeOK
  <2> QED BY <1>1, <1>5, <2>1, <2>2 DEF TypeOK
<1>8. CurrentInv' /\ PublishedInv' /\ SelectedInv' /\ ReaderInv'
  BY <1>1, <1>2, <1>5, <1>6, <1>7, CatalogMove
<1>9. AllocatedInv' /\ CatalogInv' /\ PhaseInv' /\ MergeInv'
  BY <1>1, <1>2, <1>5 DEF AllocatedInv, CatalogInv, PhaseInv, MergeInv
<1>10. disk'.inc = disk.inc
  BY <1>5 DEF Evolves
<1>11. DormantInv'
  BY <1>1, <1>5, <1>10 DEF DormantInv
<1> QED BY <1>7, <1>8, <1>9, <1>11

\* reset_content fails to clear the permissions.
LEMMA ResetFailStep == IInv /\ ResetFail => IInv'
<1> SUFFICES ASSUME IInv, ResetFail PROVE IInv'
  OBVIOUS
<1> USE DEF IInv
<1>1. /\ UNCHANGED <<selCat, man, cur, damaged, sel, coverage, wr, merge,
                     rdPhase, rdFresh, rdCat, rdSel, reads>>
      /\ wr = "free" /\ merge = {}
      /\ ~poisoned /\ disk' \in {disk, ClearDormant(selCat)}
      /\ poisoned' = TRUE /\ failures' = failures + 1
  BY DEF ResetFail, Failing, indexVars, readerVars
<1>2. selCat \in Catalog /\ Allocated(selCat) /\ disk = selCat
  BY <1>1 DEF TypeOK, AllocatedInv, CatalogInv
<1>3. /\ disk' \in Catalog /\ Evolves(selCat, disk')
      /\ Allocated(disk') /\ \A c : Backed(disk, c) => Backed(disk', c)
  BY <1>1, <1>2, ClearedView, EvolvesRefl
<1>4. Evolves(selCat, selCat')
  BY <1>1, <1>2, EvolvesRefl
<1>5. TypeOK'
  BY <1>1, <1>3 DEF TypeOK
<1>6. CurrentInv' /\ PublishedInv' /\ SelectedInv' /\ ReaderInv'
  BY <1>1, <1>2, <1>3, <1>4, <1>5, CatalogMove
<1>7. AllocatedInv' /\ CatalogInv' /\ PhaseInv' /\ MergeInv'
  BY <1>1, <1>3 DEF AllocatedInv, CatalogInv, PhaseInv, MergeInv
<1>8. disk'.inc = disk.inc
  BY <1>2, <1>3 DEF Evolves
<1>9. DormantInv'
  BY <1>1, <1>3, <1>8 DEF DormantInv
<1> QED BY <1>5, <1>6, <1>7, <1>9

\* A merge is planned, its permissions revoked, its catalog view pinned.
LEMMA MergePrepareStep == IInv /\ MergePrepare => IInv'
<1> SUFFICES ASSUME IInv, MergePrepare PROVE IInv'
  OBVIOUS
<1> USE DEF IInv
<1>1. PICK m \in cur : \E runs \in Plans(m) :
         /\ disk' = Revoked(selCat, runs)
         /\ selCat' = disk'
         /\ merge' = {[pin |-> disk', runs |-> runs]}
  BY DEF MergePrepare
<1>2. PICK runs \in Plans(m) :
         /\ disk' = Revoked(selCat, runs)
         /\ selCat' = disk'
         /\ merge' = {[pin |-> disk', runs |-> runs]}
  BY <1>1
<1>3. /\ UNCHANGED <<poisoned, man, cur, damaged, sel, coverage, wr,
                     rdPhase, rdFresh, rdCat, rdSel, failures, reads>>
      /\ wr = "free" /\ ~damaged /\ ~poisoned
  BY DEF MergePrepare, indexVars, readerVars
<1>4. selCat \in Catalog /\ Allocated(selCat) /\ disk = selCat
  BY <1>3 DEF TypeOK, AllocatedInv, CatalogInv
<1>5. /\ disk' \in Catalog /\ disk'.next = selCat.next
      /\ Evolves(selCat, disk') /\ Allocated(disk')
      /\ \A c : Backed(selCat, c) => Backed(disk', c)
      /\ \A p \in disk'.dormant, r \in runs : \A s \in r : ~InRange(p.id, s)
  BY <1>2, <1>4, RevokedView
<1>6. m \in Manifest /\ cur = {m}
  BY <1>1 DEF TypeOK, PhaseInv
<1>7. /\ runs \in SUBSET (SUBSET Segment)
      /\ \A r \in runs : r # {} /\ r \subseteq m.segs
      /\ \A r, t \in runs : r # t => r \cap t = {}
  <2>1. m.segs \subseteq Segment
    BY <1>6 DEF Manifest
  <2> QED BY <1>2, <2>1 DEF Plans, IsRun
<1>8. merge' \in SUBSET [pin : Catalog, runs : SUBSET (SUBSET Segment)]
  BY <1>2, <1>5, <1>7
<1>9. TypeOK'
  BY <1>2, <1>3, <1>5, <1>8 DEF TypeOK
<1>10. CurrentInv' /\ PublishedInv' /\ SelectedInv' /\ ReaderInv'
  BY <1>2, <1>3, <1>4, <1>5, <1>9, CatalogMove
<1>11. AllocatedInv' /\ PhaseInv'
  BY <1>2, <1>3, <1>5, <1>6 DEF AllocatedInv, PhaseInv
<1>12. CatalogInv' /\ Evolves(disk', disk')
  BY <1>2, <1>5, EvolvesRefl DEF CatalogInv
<1>13. disk'.inc = disk.inc
  BY <1>4, <1>5 DEF Evolves
<1>14. DormantInv'
  BY <1>2, <1>3, <1>4, <1>5, <1>13 DEF DormantInv
<1>15. m.frontier <= disk'.next
  BY <1>4, <1>5, <1>6 DEF CurrentInv, WellFormed, Fits, Manifest, Catalog
<1>16. Backed(disk', m)
  BY <1>3, <1>5, <1>6 DEF DormantInv
<1>17. MergeInv'
  <2> SUFFICES ASSUME NEW g \in merge'
               PROVE  /\ Evolves(g.pin, selCat')
                      /\ \A c \in cur' : c.frontier <= g.pin.next /\ Backed(g.pin, c)
                      /\ \A c \in cur', r \in g.runs : r # {} /\ r \subseteq c.segs
                      /\ \A r, t \in g.runs : r # t => r \cap t = {}
                      /\ \A p \in g.pin.dormant, r \in g.runs :
                            \A s \in r : ~InRange(p.id, s)
    BY DEF MergeInv
  <2>1. g.pin = disk' /\ g.runs = runs
    BY <1>2
  <2> QED BY <1>2, <1>3, <1>5, <1>6, <1>7, <1>12, <1>15, <1>16, <2>1
<1> QED BY <1>9, <1>10, <1>11, <1>12, <1>14, <1>17

\* A revocation's publication fails, and the merge does not start.
LEMMA MergePrepareFailStep == IInv /\ MergePrepareFail => IInv'
<1> SUFFICES ASSUME IInv, MergePrepareFail PROVE IInv'
  OBVIOUS
<1> USE DEF IInv
<1>1. \E runs, done : /\ selCat' = Revoked(selCat, done)
                      /\ disk' \in {selCat', Revoked(selCat, runs)}
                      /\ done \subseteq runs
  BY DEF MergePrepareFail
<1>2. PICK runs, done : /\ selCat' = Revoked(selCat, done)
                        /\ disk' \in {selCat', Revoked(selCat, runs)}
                        /\ done \subseteq runs
  BY <1>1
<1>3. /\ UNCHANGED <<man, cur, damaged, sel, coverage, wr, merge,
                     rdPhase, rdFresh, rdCat, rdSel, reads>>
      /\ wr = "free" /\ merge = {} /\ ~poisoned
      /\ poisoned' = TRUE /\ failures' = failures + 1
  BY DEF MergePrepareFail, Failing, indexVars, readerVars
<1>4. selCat \in Catalog /\ Allocated(selCat) /\ disk = selCat
  BY <1>3 DEF TypeOK, AllocatedInv, CatalogInv
<1>5. \A rs : /\ Revoked(selCat, rs) \in Catalog
              /\ Evolves(selCat, Revoked(selCat, rs))
              /\ Allocated(Revoked(selCat, rs))
              /\ \A c : Backed(selCat, c) => Backed(Revoked(selCat, rs), c)
  BY <1>4, RevokedView
<1>6. /\ selCat' \in Catalog /\ disk' \in Catalog
      /\ Evolves(selCat, selCat') /\ Evolves(disk, disk')
      /\ Allocated(selCat') /\ Allocated(disk')
      /\ \A c : Backed(selCat, c) => Backed(selCat', c) /\ Backed(disk', c)
  BY <1>2, <1>4, <1>5
<1>7. Evolves(selCat', disk')
  <2>1. CASE disk' = selCat'
    BY <1>6, <2>1, EvolvesRefl
  <2>2. CASE disk' = Revoked(selCat, runs)
    <3> DEFINE gone(rs) == {id \in Ids(selCat.dormant) :
                               \E s \in UNION rs : InRange(id, s)}
    <3>1. gone(done) \subseteq gone(runs)
      BY <1>2
    <3>2. /\ selCat'.live = selCat.live /\ selCat'.next = selCat.next
          /\ selCat'.dormant = {p \in selCat.dormant : p.id \notin gone(done)}
      BY <1>2, <1>4, ForgetDormantFacts DEF Revoked
    <3>3. /\ disk'.live = selCat.live /\ disk'.next = selCat.next
          /\ disk'.dormant = {p \in selCat.dormant : p.id \notin gone(runs)}
      BY <2>2, <1>4, ForgetDormantFacts DEF Revoked
    <3> HIDE DEF gone
    <3>4. Potential(disk') \subseteq Potential(selCat')
      BY <3>1, <3>2, <3>3 DEF Potential
    <3>5. selCat'.inc = disk'.inc
      BY <1>4, <1>6 DEF Evolves
    <3> QED BY <1>4, <3>2, <3>3, <3>4, <3>5 DEF Evolves, Catalog
  <2> QED BY <1>2, <2>1, <2>2
<1>8. TypeOK'
  BY <1>3, <1>6 DEF TypeOK
<1>9. CurrentInv' /\ PublishedInv' /\ SelectedInv' /\ ReaderInv'
  BY <1>3, <1>6, <1>8, CatalogMove
<1>10. AllocatedInv' /\ CatalogInv' /\ PhaseInv' /\ MergeInv'
  BY <1>3, <1>6, <1>7 DEF AllocatedInv, CatalogInv, PhaseInv, MergeInv
<1>11. disk'.inc = disk.inc
  BY <1>6 DEF Evolves
<1>12. DormantInv'
  BY <1>3, <1>4, <1>6, <1>11 DEF DormantInv
<1> QED BY <1>8, <1>9, <1>10, <1>12

\* What one publication of a follow pass writes.
LEMMA FollowResultFacts ==
    ASSUME IInv, NEW m \in cur, wr # "attach", NEW n \in FollowResults(m)
    PROVE  /\ n \in Manifest /\ n.seq = m.seq + 1 /\ n.inc = m.inc
           /\ WellFormed(n) /\ Fits(n, selCat) /\ Sound(n, selCat)
           /\ Ahead(m, n)
<1> USE DEF IInv
<1>1. /\ m \in Manifest /\ selCat \in Catalog /\ Allocated(selCat)
      /\ WellFormed(m) /\ Fits(m, selCat) /\ Sound(m, selCat) /\ Backed(selCat, m)
  BY DEF TypeOK, AllocatedInv, CurrentInv, DormantInv
<1>2. FollowBase(m) = m
  BY <1>1 DEF FollowBase
<1>3. PICK x \in Stops(m, selCat) \X SUBSET Ids(selCat.live) :
         /\ x[2] \subseteq Ids(Reached(m, selCat, x[1]))
         /\ n = Followed(m, selCat, x[1], x[2])
  BY <1>2 DEF FollowResults
<1>4. x[1] \in Stops(m, selCat) /\ x[2] \in SUBSET Ids(selCat.live)
  OBVIOUS
<1> QED BY <1>1, <1>3, <1>4, FollowedFacts

\* A follow pass publishes.
LEMMA FollowPublishStep == IInv /\ FollowPublish => IInv'
<1> SUFFICES ASSUME IInv, FollowPublish PROVE IInv'
  OBVIOUS
<1> USE DEF IInv
<1>1. PICK m \in cur : \E new \in FollowResults(m) : man' = {new} /\ cur' = {new}
  BY DEF FollowPublish
<1>2. PICK n \in FollowResults(m) : man' = {n} /\ cur' = {n}
  BY <1>1
<1>3. /\ UNCHANGED <<disk, poisoned, selCat, damaged, sel, coverage, merge,
                     rdPhase, rdFresh, rdCat, rdSel, failures, reads>>
      /\ wr \in {"free", "follow"} /\ wr' = "follow" /\ merge = {} /\ ~damaged
  BY DEF FollowPublish, catalogVars, readerVars
<1>4. /\ n \in Manifest /\ n.seq = m.seq + 1 /\ n.inc = m.inc
      /\ WellFormed(n) /\ Fits(n, selCat) /\ Sound(n, selCat) /\ Ahead(m, n)
  BY <1>2, <1>3, FollowResultFacts
<1>5. m.seq <= n.seq
  BY <1>4 DEF TypeOK, Manifest
<1>6. TypeOK'
  BY <1>2, <1>3, <1>4 DEF TypeOK
<1>7. CurrentInv' /\ PublishedInv' /\ SelectedInv' /\ DormantInv'
  BY <1>2, <1>3, <1>4, <1>5, IndexMove DEF catalogVars
<1>8. AllocatedInv' /\ CatalogInv' /\ PhaseInv'
  BY <1>2, <1>3 DEF AllocatedInv, CatalogInv, PhaseInv
<1>9. MergeInv' /\ ReaderInv'
  BY <1>3 DEF MergeInv, ReaderInv
<1> QED BY <1>6, <1>7, <1>8, <1>9

\* A follow pass fails, before or after the rename.
LEMMA FollowFailStep == IInv /\ FollowFail => IInv'
<1> SUFFICES ASSUME IInv, FollowFail PROVE IInv'
  OBVIOUS
<1> USE DEF IInv
<1>1. PICK m \in cur : man' \in {man} \cup {{new} : new \in FollowResults(m)}
  BY DEF FollowFail
<1>2. /\ UNCHANGED <<disk, poisoned, selCat, cur, sel, coverage, merge,
                     rdPhase, rdFresh, rdCat, rdSel, reads>>
      /\ wr \in {"free", "follow"} /\ wr' = "follow" /\ merge = {}
      /\ ~damaged /\ damaged' = TRUE /\ failures' = failures + 1
  BY DEF FollowFail, Failing, catalogVars, readerVars
<1>3. m \in Manifest /\ cur = {m} /\ man = cur
  BY <1>2 DEF TypeOK, PhaseInv
<1>4. PICK n \in Manifest :
         /\ man' \in {man, {n}} /\ m.seq <= n.seq /\ n.inc = m.inc
         /\ WellFormed(n) /\ Fits(n, selCat) /\ Sound(n, selCat) /\ Ahead(m, n)
  <2>1. CASE man' = man
    BY <1>3, <2>1, AheadRefl DEF CurrentInv, Manifest
  <2>2. ASSUME NEW n \in FollowResults(m), man' = {n}
        PROVE  /\ n \in Manifest /\ m.seq <= n.seq /\ n.inc = m.inc
               /\ WellFormed(n) /\ Fits(n, selCat) /\ Sound(n, selCat)
               /\ Ahead(m, n)
    BY <1>2, <1>3, FollowResultFacts DEF Manifest
  <2> QED BY <1>1, <2>1, <2>2
<1>5. TypeOK'
  BY <1>2, <1>4 DEF TypeOK
<1>6. CurrentInv' /\ PublishedInv' /\ SelectedInv' /\ DormantInv'
  <2>1. cur' = {n} => man' = {n}
    BY <1>2, <1>3, <1>4
  <2> QED BY <1>2, <1>4, <2>1, IndexMove DEF catalogVars
<1>7. AllocatedInv' /\ CatalogInv' /\ PhaseInv'
  BY <1>2, <1>3, <1>4 DEF AllocatedInv, CatalogInv, PhaseInv
<1>8. MergeInv' /\ ReaderInv'
  BY <1>2 DEF MergeInv, ReaderInv
<1> QED BY <1>5, <1>6, <1>7, <1>8

\* Engine::select_content of the attached view, by a follow pass or a merge.
LEMMA SelectStep ==
    ASSUME IInv, \E m \in cur : sel' = SelectContent(m, sel, selCat),
           wr # "attach", wr' = wr \/ (wr = "follow" /\ wr' = "free"),
           merge' \subseteq merge,
           UNCHANGED <<catalogVars, indexVars, coverage, readerVars, failures>>
    PROVE  IInv'
<1> USE DEF IInv, catalogVars, indexVars, readerVars
<1>1. PICK m \in cur : sel' = {m}
  BY SelectCurrent
<1>2. cur = {m} /\ m \in Manifest
  BY <1>1 DEF PhaseInv, TypeOK
<1>3. TypeOK'
  BY <1>1, <1>2 DEF TypeOK
<1>4. SelectedInv'
  BY <1>1, <1>2, AheadRefl DEF SelectedInv, CurrentInv, WellFormed, Manifest
<1>5. AllocatedInv' /\ CurrentInv' /\ PublishedInv'
  BY DEF AllocatedInv, CurrentInv, PublishedInv
<1>6. CASE wr' = wr
  BY <1>1, <1>3, <1>4, <1>5, <1>6
     DEF PhaseInv, CatalogInv, DormantInv, MergeInv, ReaderInv
<1>7. CASE wr = "follow" /\ wr' = "free"
  BY <1>1, <1>3, <1>4, <1>5, <1>7
     DEF PhaseInv, CatalogInv, DormantInv, MergeInv, ReaderInv
<1> QED BY <1>6, <1>7

\* A follow pass gives its view to queries.
LEMMA FollowSelectStep == IInv /\ FollowSelect => IInv'
<1> SUFFICES ASSUME IInv, FollowSelect PROVE IInv'
  OBVIOUS
<1> QED BY SelectStep DEF FollowSelect

\* A merge ends and gives its view to queries.
LEMMA MergeSelectStep == IInv /\ MergeSelect => IInv'
<1> SUFFICES ASSUME IInv, MergeSelect PROVE IInv'
  OBVIOUS
<1>1. wr # "attach"
  BY DEF MergeSelect, IInv, PhaseInv
<1> QED BY <1>1, SelectStep DEF MergeSelect

\* What one publication of a merge writes.
LEMMA MergeResultFacts ==
    ASSUME IInv, NEW g \in merge, NEW m \in cur, NEW run \in g.runs
    PROVE  LET n == Merged(m, run, g.pin)
           IN  /\ n \in Manifest /\ n.seq = m.seq + 1 /\ n.inc = m.inc
               /\ n.frontier = m.frontier
               /\ m.segs \ run \subseteq n.segs
               /\ WellFormed(n) /\ Fits(n, selCat) /\ Sound(n, selCat)
               /\ Ahead(m, n)
<1> USE DEF IInv
<1>1. /\ m \in Manifest /\ selCat \in Catalog /\ g.pin \in Catalog
      /\ Allocated(g.pin)
      /\ WellFormed(m) /\ Fits(m, selCat) /\ Sound(m, selCat)
  BY DEF TypeOK, AllocatedInv, CurrentInv
<1>2. /\ Evolves(g.pin, selCat) /\ m.frontier <= g.pin.next /\ Backed(g.pin, m)
      /\ run # {} /\ run \subseteq m.segs
      /\ \A p \in g.pin.dormant : \A s \in run : ~InRange(p.id, s)
  BY DEF MergeInv
<1> QED BY <1>1, <1>2, MergedFacts

\* A merge publishes one run beside whatever refreshes ran since its pin.
LEMMA MergePublishStep == IInv /\ MergePublish => IInv'
<1> SUFFICES ASSUME IInv, MergePublish PROVE IInv'
  OBVIOUS
<1> USE DEF IInv
<1>1. PICK g \in merge, m \in cur : \E run \in g.runs :
         /\ man' = {Merged(m, run, g.pin)}
         /\ cur' = {Merged(m, run, g.pin)}
         /\ merge' = {[g EXCEPT !.runs = g.runs \ {run}]}
  BY DEF MergePublish
<1>2. PICK run \in g.runs :
         /\ man' = {Merged(m, run, g.pin)}
         /\ cur' = {Merged(m, run, g.pin)}
         /\ merge' = {[g EXCEPT !.runs = g.runs \ {run}]}
  BY <1>1
<1> DEFINE n == Merged(m, run, g.pin)
           h == [g EXCEPT !.runs = g.runs \ {run}]
<1>3. /\ n \in Manifest /\ n.seq = m.seq + 1 /\ n.inc = m.inc
      /\ n.frontier = m.frontier /\ m.segs \ run \subseteq n.segs
      /\ WellFormed(n) /\ Fits(n, selCat) /\ Sound(n, selCat) /\ Ahead(m, n)
  BY MergeResultFacts
<1>4. /\ UNCHANGED <<disk, poisoned, selCat, damaged, sel, coverage, wr,
                     rdPhase, rdFresh, rdCat, rdSel, failures, reads>>
      /\ ~damaged /\ wr # "attach" /\ wr # "follow"
  BY DEF MergePublish, catalogVars, readerVars, PhaseInv
<1>5. g \in [pin : Catalog, runs : SUBSET (SUBSET Segment)]
  BY DEF TypeOK
<1>6. /\ h \in [pin : Catalog, runs : SUBSET (SUBSET Segment)]
      /\ h.pin = g.pin /\ h.runs = g.runs \ {run}
  BY <1>5
<1>7. m \in Manifest /\ cur = {m}
  BY DEF TypeOK, PhaseInv
<1>8. m.seq <= n.seq
  BY <1>3, <1>7 DEF Manifest
<1>9. man' = {n} /\ cur' = {n} /\ merge' = {h}
  BY <1>2
<1> HIDE DEF n, h
<1>10. TypeOK'
  BY <1>3, <1>4, <1>6, <1>9 DEF TypeOK
<1>11. CurrentInv' /\ PublishedInv' /\ SelectedInv' /\ DormantInv'
  BY <1>3, <1>4, <1>8, <1>9, IndexMove DEF catalogVars
<1>12. AllocatedInv' /\ CatalogInv' /\ PhaseInv' /\ ReaderInv'
  BY <1>4, <1>6, <1>9 DEF AllocatedInv, CatalogInv, PhaseInv, ReaderInv
<1>13. Backed(g.pin, n)
  BY <1>3, <1>5, <1>7, AheadBacked DEF MergeInv
<1>14. \A r \in h.runs : r # {} /\ r \subseteq n.segs
  <2> SUFFICES ASSUME NEW r \in h.runs PROVE r # {} /\ r \subseteq n.segs
    OBVIOUS
  <2>1. r \in g.runs /\ r # run
    BY <1>6
  <2>2. r # {} /\ r \subseteq m.segs /\ r \cap run = {}
    BY <2>1, <1>2 DEF MergeInv
  <2> QED BY <1>3, <2>2
<1>15. MergeInv'
  <2>1. Evolves(h.pin, selCat) /\ n.frontier <= h.pin.next /\ Backed(h.pin, n)
    BY <1>3, <1>6, <1>13 DEF MergeInv
  <2>2. \A r, t \in h.runs : r # t => r \cap t = {}
    BY <1>6 DEF MergeInv
  <2>3. \A p \in h.pin.dormant, r \in h.runs : \A s \in r : ~InRange(p.id, s)
    BY <1>6 DEF MergeInv
  <2> QED BY <1>4, <1>9, <1>14, <2>1, <2>2, <2>3 DEF MergeInv
<1> QED BY <1>10, <1>11, <1>12, <1>15

\* A merge fails, before or after the rename.
LEMMA MergeFailStep == IInv /\ MergeFail => IInv'
<1> SUFFICES ASSUME IInv, MergeFail PROVE IInv'
  OBVIOUS
<1> USE DEF IInv
<1>1. PICK g \in merge, m \in cur : \E run \in g.runs :
         man' \in {man, {Merged(m, run, g.pin)}}
  BY DEF MergeFail
<1>2. PICK run \in g.runs : man' \in {man, {Merged(m, run, g.pin)}}
  BY <1>1
<1> DEFINE n == Merged(m, run, g.pin)
<1>3. /\ n \in Manifest /\ n.seq = m.seq + 1 /\ n.inc = m.inc
      /\ WellFormed(n) /\ Fits(n, selCat) /\ Sound(n, selCat) /\ Ahead(m, n)
  BY MergeResultFacts
<1>4. /\ UNCHANGED <<disk, poisoned, selCat, cur, sel, coverage, wr, merge,
                     rdPhase, rdFresh, rdCat, rdSel, reads>>
      /\ ~damaged /\ damaged' = TRUE /\ failures' = failures + 1
      /\ wr # "attach" /\ wr # "follow"
  BY DEF MergeFail, Failing, catalogVars, readerVars, PhaseInv
<1>5. m \in Manifest /\ cur = {m} /\ man = cur
  BY <1>4 DEF TypeOK, PhaseInv
<1>6. m.seq <= n.seq /\ m # n
  BY <1>3, <1>5 DEF Manifest
<1>7. man' \in {man, {n}} /\ cur' # {n}
  BY <1>2, <1>4, <1>5, <1>6
<1> HIDE DEF n
<1>8. TypeOK'
  BY <1>3, <1>4, <1>7 DEF TypeOK
<1>9. CurrentInv' /\ PublishedInv' /\ SelectedInv' /\ DormantInv'
  BY <1>3, <1>4, <1>6, <1>7, IndexMove DEF catalogVars
<1>10. AllocatedInv' /\ CatalogInv' /\ PhaseInv'
  BY <1>4, <1>5, <1>7 DEF AllocatedInv, CatalogInv, PhaseInv
<1>11. MergeInv' /\ ReaderInv'
  BY <1>4 DEF MergeInv, ReaderInv
<1> QED BY <1>8, <1>9, <1>10, <1>11

\* reset_content clears the permissions and publishes an empty index, or loses
\* the index.
LEMMA ResetStep == IInv /\ Reset => IInv'
<1> SUFFICES ASSUME IInv, Reset PROVE IInv'
  OBVIOUS
<1> USE DEF IInv
<1>1. PICK m \in cur :
         \/ /\ ~damaged
            /\ man' = {Emptied(m, selCat.inc)} /\ cur' = {Emptied(m, selCat.inc)}
            /\ sel' = SelectContent(Emptied(m, selCat.inc), sel, disk')
            /\ UNCHANGED failures
         \/ /\ \/ damaged /\ UNCHANGED <<man, failures>>
               \/ /\ ~damaged /\ man' \in {man, {Emptied(m, selCat.inc)}}
                  /\ Failing
            /\ cur' = {} /\ sel' = {}
  BY DEF Reset
<1>2. /\ UNCHANGED <<poisoned, damaged, coverage, wr, merge,
                     rdPhase, rdFresh, rdCat, rdSel, reads>>
      /\ wr = "free" /\ merge = {} /\ ~poisoned
      /\ disk' = ClearDormant(selCat) /\ selCat' = disk'
  BY DEF Reset, readerVars
<1> DEFINE e == Emptied(m, selCat.inc)
<1>3. selCat \in Catalog /\ Allocated(selCat) /\ disk = selCat /\ m \in Manifest
  BY <1>2 DEF TypeOK, AllocatedInv, CatalogInv
<1>4. /\ disk' \in Catalog /\ Evolves(selCat, disk') /\ Allocated(disk')
      /\ \A c : Backed(disk', c)
  BY <1>2, <1>3, ClearedView
<1>5. disk'.inc = selCat.inc /\ selCat' \in Catalog /\ coverage = {}
  BY <1>2, <1>4 DEF Evolves, PhaseInv
<1>6. /\ e \in Manifest /\ e.seq = m.seq + 1 /\ e.inc = disk'.inc
      /\ WellFormed(e) /\ Fits(e, disk') /\ Sound(e, disk') /\ Ahead(e, e)
  BY <1>3, <1>4, <1>5, EmptiedFacts
<1>7. /\ man' \in {man, {e}} /\ (cur' = {} \/ cur' = {e}) /\ failures' \in Nat
      /\ cur' = {} => sel' = {}
      /\ cur' = {e} => man' = {e} /\ sel' = {e}
  <2>1. \A s \in sel : s.seq <= m.seq + 1
    BY <1>3 DEF SelectedInv, TypeOK, Manifest
  <2>2. SelectContent(e, sel, disk') = {e}
    BY <1>6, <2>1 DEF SelectContent
  <2>3. {e} # {} /\ failures \in Nat
    BY DEF TypeOK
  <2>4. CASE /\ man' = {e} /\ cur' = {e}
             /\ sel' = SelectContent(e, sel, disk') /\ UNCHANGED failures
    <3> HIDE DEF e
    <3> QED BY <2>2, <2>3, <2>4
  <2>5. CASE /\ \/ UNCHANGED <<man, failures>>
                \/ man' \in {man, {e}} /\ Failing
             /\ cur' = {} /\ sel' = {}
    <3> HIDE DEF e
    <3> QED BY <2>3, <2>5 DEF Failing
  <2> QED BY <1>1, <2>4, <2>5
<1> HIDE DEF e
<1>8. TypeOK'
  BY <1>2, <1>4, <1>5, <1>6, <1>7 DEF TypeOK
<1>9. AllocatedInv' /\ CatalogInv' /\ PhaseInv'
  BY <1>2, <1>4, <1>5, <1>6, <1>7, EvolvesRefl DEF AllocatedInv, CatalogInv, PhaseInv
<1>10. CurrentInv' /\ SelectedInv'
  BY <1>2, <1>5, <1>6, <1>7 DEF CurrentInv, SelectedInv, WellFormed, Manifest
<1>11. PublishedInv' /\ ReaderInv'
  <2>1. \A c \in Manifest : c.frontier <= c.high /\ Fits(c, selCat) /\ Sound(c, selCat)
           => Fits(c, disk') /\ Sound(c, disk')
    BY <1>3, <1>4, SoundLater
  <2>2. ASSUME NEW c \in man'
        PROVE  /\ WellFormed(c) /\ c.inc <= disk'.inc
               /\ c.inc = disk'.inc => Fits(c, disk') /\ Sound(c, disk')
    <3>1. CASE c \in man
      BY <1>3, <1>5, <2>1, <3>1 DEF PublishedInv, WellFormed, TypeOK
    <3>2. CASE c = e
      BY <1>4, <1>6, <3>2 DEF Catalog
    <3> QED BY <1>7, <2>2, <3>1, <3>2
  <2>3. PublishedInv'
    BY <1>2, <2>2 DEF PublishedInv
  <2>4. ReaderInv'
    BY <1>2, <1>3, <1>5, <2>1 DEF ReaderInv, TypeOK
  <2> QED BY <2>3, <2>4
<1>12. DormantInv' /\ MergeInv'
  BY <1>2, <1>4 DEF DormantInv, MergeInv
<1> QED BY <1>8, <1>9, <1>10, <1>11, <1>12

\* A new process on a catalog and a manifest that belong together, or on a
\* catalog of a later incarnation.
LEMMA StartedStep ==
    ASSUME IInv, NEW k \in Catalog, Allocated(k), NEW ms \in SUBSET Manifest,
           StartedOn(k, ms), ReaderInv',
           rdPhase' \in {"idle", "pinned"}, rdFresh' \in SUBSET Manifest,
           rdCat' \in SUBSET Catalog, rdSel' \in SUBSET Manifest, reads' \in Nat,
           \A m, n \in ms : m = n,
           \A m \in ms : /\ WellFormed(m) /\ m.inc <= k.inc
                         /\ m.inc = k.inc => /\ Fits(m, k) /\ Sound(m, k)
                                             /\ m.segs = {} \/ Backed(k, m)
    PROVE  IInv'
<1>1. /\ disk' = k /\ selCat' = k /\ man' = ms /\ cur' = {} /\ sel' = {}
      /\ merge' = {} /\ coverage' = {} /\ wr' = "free" /\ Evolves(k, k)
      /\ poisoned' = FALSE /\ damaged' = FALSE /\ failures' = failures + 1
  BY EvolvesRefl DEF StartedOn, Failing
<1>5. failures' \in Nat
  BY <1>1 DEF IInv, TypeOK
<1>6. TypeOK'
  BY <1>1, <1>5 DEF TypeOK
<1>2. AllocatedInv' /\ CatalogInv' /\ PhaseInv'
  BY <1>1 DEF AllocatedInv, CatalogInv, PhaseInv
<1>3. CurrentInv' /\ PublishedInv' /\ SelectedInv'
  BY <1>1 DEF CurrentInv, PublishedInv, SelectedInv
<1>4. DormantInv' /\ MergeInv'
  BY <1>1 DEF DormantInv, MergeInv
<1> QED BY <1>2, <1>3, <1>4, <1>6 DEF IInv

\* Either catalog and either manifest that a power loss may leave.
LEMMA SurvivingPair ==
    ASSUME IInv, NEW k \in {disk, selCat}, NEW ms \in {man, cur}
    PROVE  /\ k \in Catalog /\ Allocated(k) /\ ms \in SUBSET Manifest
           /\ \A m, n \in ms : m = n
           /\ \A m \in ms : /\ WellFormed(m) /\ m.inc <= k.inc
                            /\ m.inc = k.inc => /\ Fits(m, k) /\ Sound(m, k)
                                                /\ m.segs = {} \/ Backed(k, m)
<1> USE DEF IInv
<1>1. /\ k \in Catalog /\ Allocated(k) /\ ms \in SUBSET Manifest
      /\ selCat \in Catalog /\ Evolves(selCat, k) /\ k.inc = disk.inc
      /\ disk \in Catalog
  BY EvolvesRefl DEF TypeOK, AllocatedInv, CatalogInv, Evolves
<1>2. \A m, n \in ms : m = n
  BY DEF PhaseInv
<1>3. ASSUME NEW m \in ms
      PROVE  /\ WellFormed(m) /\ m.inc <= k.inc
             /\ m.inc = k.inc => /\ Fits(m, k) /\ Sound(m, k)
                                 /\ m.segs = {} \/ Backed(k, m)
  <2>1. /\ WellFormed(m) /\ m.inc <= k.inc
        /\ m.inc = k.inc => Fits(m, selCat) /\ Sound(m, selCat)
    BY <1>1 DEF PublishedInv, CurrentInv, Fits, Evolves, Catalog
  <2>2. m.inc = k.inc => Fits(m, k) /\ Sound(m, k)
    BY <1>1, <2>1, SoundLater DEF WellFormed
  <2>3. m.inc = k.inc => m.segs = {} \/ Backed(k, m)
    BY <1>1 DEF DormantInv
  <2> QED BY <2>1, <2>2, <2>3
<1> QED BY <1>1, <1>2, <1>3

\* The process dies anywhere and another starts on the same files.
LEMMA RestartStep == IInv /\ Restart => IInv'
<1> SUFFICES ASSUME IInv, Restart PROVE IInv'
  OBVIOUS
<1>1. StartedOn(disk, man) /\ UNCHANGED <<rdPhase, rdFresh, rdCat, rdSel, reads>>
  BY DEF Restart, readerVars
<1>2. disk' = disk
  BY <1>1 DEF StartedOn
<1>3. ReaderInv'
  BY <1>1, <1>2 DEF IInv, ReaderInv
<1>4. /\ rdPhase' \in {"idle", "pinned"} /\ rdFresh' \in SUBSET Manifest
      /\ rdCat' \in SUBSET Catalog /\ rdSel' \in SUBSET Manifest /\ reads' \in Nat
  BY <1>1 DEF IInv, TypeOK
<1> QED BY <1>1, <1>3, <1>4, SurvivingPair, StartedStep

\* Power is lost and renames that were not durable may be undone.
LEMMA PowerLossStep == IInv /\ PowerLoss => IInv'
<1> SUFFICES ASSUME IInv, PowerLoss PROVE IInv'
  OBVIOUS
<1>1. PICK k \in {disk, selCat}, ms \in {man, cur} : StartedOn(k, ms)
  BY DEF PowerLoss
<1>2. rdPhase' = "idle" /\ rdFresh' = {} /\ rdCat' = {} /\ rdSel' = {} /\ reads' = reads
  BY DEF PowerLoss
<1>3. ReaderInv'
  BY <1>2 DEF ReaderInv
<1>4. /\ rdPhase' \in {"idle", "pinned"} /\ rdFresh' \in SUBSET Manifest
      /\ rdCat' \in SUBSET Catalog /\ rdSel' \in SUBSET Manifest /\ reads' \in Nat
  BY <1>2 DEF IInv, TypeOK
<1> QED BY <1>1, <1>3, <1>4, SurvivingPair, StartedStep

\* A process starts on a catalog that replaces an unreadable one.
LEMMA ReincarnateStep == IInv /\ Reincarnate => IInv'
<1> SUFFICES ASSUME IInv, Reincarnate PROVE IInv'
  OBVIOUS
<1> DEFINE k == FreshCatalog(disk.inc + 1)
<1>1. StartedOn(k, man) /\ UNCHANGED <<rdPhase, rdFresh, rdCat, rdSel, reads>>
  BY DEF Reincarnate, readerVars
<1>2. disk \in Catalog /\ disk.inc \in Nat /\ man \in SUBSET Manifest
      /\ rdFresh \in SUBSET Manifest
  BY DEF IInv, TypeOK, Catalog
<1>3. k \in Catalog /\ k.inc = disk.inc + 1 /\ k.live = {} /\ k.dormant = {}
  BY <1>2 DEF FreshCatalog, Catalog
<1> HIDE DEF k
<1>4. Allocated(k)
  BY <1>3, FS_EmptySet DEF Allocated, Potential
<1>5. disk' = k
  BY <1>1 DEF StartedOn
<1>6. /\ rdPhase' \in {"idle", "pinned"} /\ rdFresh' \in SUBSET Manifest
      /\ rdCat' \in SUBSET Catalog /\ rdSel' \in SUBSET Manifest /\ reads' \in Nat
  BY <1>1 DEF IInv, TypeOK
<1>7. ReaderInv'
  <2>1. \A c \in rdFresh : c.frontier <= c.high /\ c.inc <= k.inc /\ c.inc # k.inc
    BY <1>2, <1>3 DEF IInv, ReaderInv, Manifest
  <2> QED BY <1>1, <1>5, <2>1 DEF IInv, ReaderInv
<1>8. \A m \in man : WellFormed(m) /\ m.inc <= k.inc /\ m.inc # k.inc
  BY <1>2, <1>3 DEF IInv, PublishedInv, Manifest
<1>9. \A m, n \in man : m = n
  BY DEF IInv, PhaseInv
<1> QED BY <1>1, <1>2, <1>3, <1>4, <1>6, <1>7, <1>8, <1>9, StartedStep

\* Another process pins the index.
LEMMA ReaderPinStep == IInv /\ ReaderPin => IInv'
<1> SUFFICES ASSUME IInv, ReaderPin PROVE IInv'
  OBVIOUS
<1> USE DEF IInv
<1>1. /\ UNCHANGED <<disk, poisoned, selCat, man, cur, damaged, sel, coverage,
                     wr, merge, rdCat, rdSel, failures>>
      /\ rdPhase' = "pinned" /\ reads' = reads + 1 /\ rdFresh' \in {man, {}}
  BY DEF ReaderPin, catalogVars, indexVars
<1>2. TypeOK'
  BY <1>1 DEF TypeOK
<1>3. \A m \in man : m.inc = disk.inc => Fits(m, disk) /\ Sound(m, disk)
  BY SoundLater DEF TypeOK, PublishedInv, CatalogInv, WellFormed
<1>4. ReaderInv'
  BY <1>1, <1>3 DEF ReaderInv, PublishedInv, WellFormed
<1>5. AllocatedInv' /\ CatalogInv' /\ PhaseInv' /\ CurrentInv'
  BY <1>1 DEF AllocatedInv, CatalogInv, PhaseInv, CurrentInv
<1>6. PublishedInv' /\ SelectedInv' /\ DormantInv' /\ MergeInv'
  BY <1>1 DEF PublishedInv, SelectedInv, DormantInv, MergeInv
<1> QED BY <1>2, <1>4, <1>5, <1>6

\* Another process pairs its pinned index with the catalog it then reads.
LEMMA ReaderPairStep == IInv /\ ReaderPair => IInv'
<1> SUFFICES ASSUME IInv, ReaderPair PROVE IInv'
  OBVIOUS
<1> USE DEF IInv
<1>1. /\ UNCHANGED <<disk, poisoned, selCat, man, cur, damaged, sel, coverage,
                     wr, merge, failures, reads>>
      /\ rdPhase' = "idle" /\ rdFresh' = {} /\ rdCat' = {disk}
      /\ \/ rdSel' = UNION {SelectContent(c, {}, disk) : c \in rdFresh}
         \/ /\ disk \in rdCat
            /\ rdSel' = IF rdFresh = {} THEN rdSel
                        ELSE UNION {SelectContent(c, rdSel, disk) : c \in rdFresh}
  BY DEF ReaderPair, catalogVars, indexVars
<1>2. \A c \in rdSel' : \/ c \in rdFresh /\ Fits(c, disk)
                        \/ c \in rdSel /\ disk \in rdCat
  BY <1>1 DEF SelectContent
<1>3. \A c \in rdSel' : c \in Manifest /\ Fits(c, disk) /\ Sound(c, disk)
  BY <1>2 DEF TypeOK, ReaderInv, Fits
<1>4. TypeOK'
  BY <1>1, <1>3 DEF TypeOK
<1>5. ReaderInv'
  BY <1>1, <1>3 DEF ReaderInv
<1>6. AllocatedInv' /\ CatalogInv' /\ PhaseInv' /\ CurrentInv'
  BY <1>1 DEF AllocatedInv, CatalogInv, PhaseInv, CurrentInv
<1>7. PublishedInv' /\ SelectedInv' /\ DormantInv' /\ MergeInv'
  BY <1>1 DEF PublishedInv, SelectedInv, DormantInv, MergeInv
<1> QED BY <1>4, <1>5, <1>6, <1>7

\* A step that leaves the engine alone.
LEMMA StutterStep == IInv /\ UNCHANGED vars => IInv'
<1> SUFFICES ASSUME IInv, UNCHANGED vars PROVE IInv'
  OBVIOUS
<1> USE DEF vars
<1>1. TypeOK' /\ AllocatedInv' /\ CatalogInv' /\ PhaseInv'
  BY DEF IInv, TypeOK, AllocatedInv, CatalogInv, PhaseInv
<1>2. CurrentInv' /\ PublishedInv' /\ SelectedInv'
  BY DEF IInv, CurrentInv, PublishedInv, SelectedInv
<1>3. DormantInv' /\ MergeInv' /\ ReaderInv'
  BY DEF IInv, DormantInv, MergeInv, ReaderInv
<1> QED BY <1>1, <1>2, <1>3 DEF IInv

\* Every reachable state of the engine satisfies the inductive invariant, for
\* every set of hashes, dormant cap and bounds.
THEOREM Invariance == Spec => []IInv
<1>1. IInv /\ [Next]_vars => IInv'
  BY RefreshBeginStep, RefreshCommitStep, RefreshSelectStep, RefreshReleaseStep,
     RefreshFailStep, RecoverStep, AttachOpenStep, AttachErrorStep,
     AttachInstallStep, AttachFailStep, FollowPublishStep, FollowFailStep,
     FollowSelectStep, MergePrepareStep, MergePrepareFailStep, MergePublishStep,
     MergeFailStep, MergeSelectStep, ResetStep, ResetFailStep, RestartStep,
     PowerLossStep, ReincarnateStep, ReaderPinStep, ReaderPairStep, StutterStep
     DEF Next
<1> QED BY <1>1, InitStep, PTL DEF Spec

\* What the index claims, a query finds.
LEMMA SoundAnswers ==
    ASSUME NEW c \in Manifest, NEW k \in Catalog, Sound(c, k)
    PROVE  Answers(c, k)
<1> SUFFICES ASSUME NEW p \in k.live, p \notin Uncovered(c, k)
             PROVE  p \in Indexed(c)
  BY DEF Answers
<1>1. p.id \in Nat /\ c.frontier \in Nat
  BY DEF Catalog, Document, Manifest
<1>2. Covers(c, p.id)
  BY <1>1 DEF Uncovered, Covers
<1> QED BY <1>2 DEF Sound, Potential

\* Every variable of the engine keeps its type (TypeOK).
THEOREM TypeCorrect == Spec => []TypeOK
<1>1. IInv => TypeOK
  BY DEF IInv
<1> QED BY <1>1, Invariance, PTL

\* No query misses a live document, whatever refreshes, follow passes, merges,
\* failures and restarts came before its pin (Engine::pin).
THEOREM QueriesComplete == Spec => []QueryComplete
<1>1. IInv => QueryComplete
  <2> SUFFICES ASSUME IInv, NEW c \in sel
               PROVE  Fits(c, selCat) /\ Answers(c, selCat)
    BY DEF QueryComplete
  <2>1. c \in Manifest /\ selCat \in Catalog /\ Fits(c, selCat) /\ Sound(c, selCat)
    BY DEF IInv, TypeOK, SelectedInv
  <2> QED BY <2>1, SoundAnswers
<1> QED BY <1>1, Invariance, PTL

\* Nor does a query of another process, which pairs an index and a catalog it
\* read at different times (Engine::open_pair).
THEOREM ReadersComplete == Spec => []ReaderComplete
<1>1. IInv => ReaderComplete
  <2> SUFFICES ASSUME IInv, NEW c \in rdSel, NEW k \in rdCat
               PROVE  Fits(c, k) /\ Answers(c, k)
    BY DEF ReaderComplete
  <2>1. c \in Manifest /\ k \in Catalog /\ Fits(c, k) /\ Sound(c, k)
    BY DEF IInv, TypeOK, ReaderInv
  <2> QED BY <2>1, SoundAnswers
<1> QED BY <1>1, Invariance, PTL

\* An index found on disk at any moment answers for the catalog beside it
\* whenever fits_bounds accepts it (IndexWriter::open_with).
THEOREM RestartsComplete == Spec => []RestartComplete
<1>1. IInv => RestartComplete
  <2> SUFFICES ASSUME IInv, NEW m \in man, Fits(m, disk)
               PROVE  Answers(m, disk)
    BY DEF RestartComplete
  <2>1. m \in Manifest /\ disk \in Catalog /\ Sound(m, disk)
    BY SoundLater DEF IInv, TypeOK, PublishedInv, CatalogInv, WellFormed, Fits
  <2> QED BY <2>1, SoundAnswers
<1> QED BY <1>1, Invariance, PTL

\* A dormant permission is published only for a document the attached index
\* holds (dormant::prepare, forget_dormant, clear_dormant).
THEOREM PermissionsAreBacked == Spec => []PermissionsBacked
<1>1. IInv => PermissionsBacked
  <2> SUFFICES ASSUME IInv, wr # "attach", NEW m \in cur, NEW p \in disk.dormant
               PROVE  Covers(m, p.id) /\ p \in Indexed(m)
    BY DEF PermissionsBacked
  <2>1. Covers(m, p.id)
    BY DEF IInv, DormantInv, Backed
  <2>2. Sound(m, disk)
    BY SoundLater DEF IInv, TypeOK, CurrentInv, CatalogInv, WellFormed
  <2> QED BY <2>1, <2>2 DEF Sound, Potential
<1> QED BY <1>1, Invariance, PTL

\* IndexWriter::reconcile never finds the attached index foreign to the
\* writer's catalog view, so it never throws it away.
THEOREM ReconcileNeverDiscards == Spec => []NeverDiscarded
<1>1. IInv => NeverDiscarded
  BY DEF IInv, CurrentInv, NeverDiscarded
<1> QED BY <1>1, Invariance, PTL

--------------------------------------------------------------------------------
(* What is published passes its readers' checks: the catalog.              *)

\* The newest documents below the cap are no more than the cap.
LEMMA NewestFits ==
    ASSUME NEW docs \in SUBSET Document, IsFiniteSet(docs), NEW cap \in Nat,
           \A p, q \in docs : p.id = q.id => p = q
    PROVE  Cardinality(Newest(docs, cap)) <= cap
<1> DEFINE new == Newest(docs, cap)
           Above(p) == {q \in docs : q.id > p.id}
<1>1. new \subseteq docs /\ \A p \in new : Cardinality(Above(p)) < cap
  BY DEF Newest
<1>2. IsFiniteSet(new) /\ Cardinality(new) \in Nat
  BY <1>1, FS_Subset, FS_CardinalityType
<1>3. CASE new = {}
  BY <1>3, FS_EmptySet
<1>4. CASE new # {}
  <2>1. Ids(new) \subseteq Nat /\ Ids(new) # {}
    BY <1>1, <1>4 DEF Ids, Document
  <2>2. Min(Ids(new)) \in Ids(new) /\ \A x \in Ids(new) : Min(Ids(new)) <= x
    BY <2>1, MinNat
  <2>3. PICK p \in new : p.id = Min(Ids(new))
    BY <2>2 DEF Ids
  <2>4. ASSUME NEW q \in new, q # p PROVE q \in Above(p)
    <3>1. q.id \in Ids(new) /\ q \in docs /\ p \in docs /\ q.id \in Nat /\ p.id \in Nat
      BY <1>1, <2>4 DEF Ids, Document
    <3>2. p.id <= q.id /\ p.id # q.id
      BY <2>2, <2>3, <2>4, <3>1
    <3> QED BY <3>1, <3>2
  <2>5. new \ {p} \subseteq Above(p) /\ IsFiniteSet(Above(p))
    BY <2>4, FS_Subset
  <2> HIDE DEF new, Above
  <2>6. Cardinality(new \ {p}) <= Cardinality(Above(p)) /\ Cardinality(Above(p)) \in Nat
    BY <2>5, FS_Subset, FS_CardinalityType
  <2>7. Cardinality(new \ {p}) = Cardinality(new) - 1
    BY <1>2, FS_RemoveElement
  <2>8. Cardinality(Above(p)) < cap
    BY <1>1
  <2>9. Cardinality(new) <= cap
    BY <1>2, <2>6, <2>7, <2>8
  <2> QED BY <2>9 DEF new
<1> QED BY <1>3, <1>4

\* dormant::prepare: who is retained, with one id for each hash.
LEMMA RetainedProper ==
    ASSUME NEW k \in Catalog, Allocated(k), Proper(k), NEW cov, NEW tree
    PROVE  /\ \A p \in Retained(k, cov, tree) :
                 p \in k.dormant \ Returning(k, cov, tree) \/ p \in Dying(k, tree)
           /\ \A p, q \in Retained(k, cov, tree) : p.hash = q.hash => p = q
           /\ Cardinality(Retained(k, cov, tree)) <= DormantCap
<1> DEFINE untouched == k.dormant \ Returning(k, cov, tree)
           eligible  == {p \in Dying(k, tree) : \E c \in cov : Covers(c, p.id)}
           kept      == {p \in eligible : \A q \in untouched :
                            q.hash = p.hash => q.id < p.id}
           revoked   == {q \in untouched : \E p \in kept : q.hash = p.hash}
           docs      == (untouched \ revoked) \cup kept
           r         == Retained(k, cov, tree)
<1>1. r = IF eligible = {} THEN untouched ELSE Newest(docs, DormantCap)
  BY DEF Retained
<1>2. /\ untouched \subseteq k.dormant /\ kept \subseteq eligible /\ eligible \subseteq k.live
      /\ eligible \subseteq Dying(k, tree)
  BY DEF Dying
<1>3. \A p \in untouched \ revoked, q \in kept : p.hash # q.hash
  OBVIOUS
<1> HIDE DEF r, untouched, eligible, kept, revoked
<1>4. \A p, q \in docs : p.hash = q.hash => p = q
  <2> SUFFICES ASSUME NEW p \in docs, NEW q \in docs, p.hash = q.hash PROVE p = q
    OBVIOUS
  <2>1. CASE p \in untouched \ revoked /\ q \in untouched \ revoked
    BY <1>2, <2>1 DEF Proper
  <2>2. CASE p \in kept /\ q \in kept
    <3>1. p \in k.live /\ q \in k.live
      BY <1>2, <2>2
    <3> QED BY <3>1 DEF Proper
  <2> QED BY <1>3, <2>1, <2>2
<1>5. docs \subseteq Potential(k) /\ docs \in SUBSET Document /\ IsFiniteSet(docs)
  <2>1. docs \subseteq k.live \cup k.dormant
    BY <1>2
  <2>2. IsFiniteSet(k.live \cup k.dormant)
    BY FS_Union DEF Allocated
  <2>3. k.live \cup k.dormant \subseteq Document
    BY DEF Catalog
  <2> HIDE DEF docs
  <2> QED BY <2>1, <2>2, <2>3, FS_Subset DEF Potential
<1>6. r \subseteq untouched \/ r \subseteq docs
  <2> HIDE DEF docs
  <2> QED BY <1>1 DEF Newest
<1>7. \A p, q \in r : p.hash = q.hash => p = q
  <2>1. \A p, q \in untouched : p.hash = q.hash => p = q
    BY <1>2 DEF Proper
  <2> HIDE DEF docs
  <2> QED BY <1>4, <1>6, <2>1
<1>8. \A p \in r : p \in untouched \/ p \in Dying(k, tree)
  BY <1>2, <1>6
<1>9. Cardinality(r) <= DormantCap
  <2>1. CASE eligible = {}
    <3>1. r \in SUBSET k.dormant
      BY <1>1, <1>2, <2>1
    <3>2. Cardinality(r) <= Cardinality(k.dormant) /\ Cardinality(r) \in Nat
          /\ Cardinality(k.dormant) \in Nat
      BY <3>1, FS_Subset, FS_CardinalityType DEF Allocated
    <3> QED BY <3>2, CapAssumption DEF Proper
  <2>2. CASE eligible # {}
    <3>1. \A p, q \in docs : p.id = q.id => p = q
      BY <1>5 DEF Proper
    <3>2. r = Newest(docs, DormantCap)
      BY <1>1, <2>2
    <3> HIDE DEF docs
    <3> QED BY <1>5, <3>1, <3>2, CapAssumption, NewestFits
  <2> QED BY <2>1, <2>2
<1> QED BY <1>7, <1>8, <1>9 DEF r, untouched

\* The live documents a recrawl finds again, and those it numbers.
Staying(k, tree) == {p \in k.live : p.hash \in tree}
Numbered(ids) == {[id |-> ids[h], hash |-> h] : h \in DOMAIN ids}

\* The documents a recrawl leaves.
LEMMA RecrawlDocs ==
    ASSUME NEW k \in Catalog, NEW cov, NEW tree, NEW last, NEW ids
    PROVE  /\ Recrawl(k, cov, tree, ids, last).live =
                 Staying(k, tree) \cup Returning(k, cov, tree) \cup Numbered(ids)
           /\ Recrawl(k, cov, tree, ids, last).dormant = Retained(k, cov, tree)
<1> DEFINE live == Staying(k, tree) \cup Returning(k, cov, tree) \cup Numbered(ids)
           dorm == Retained(k, cov, tree)
           new == [k EXCEPT !.next = last, !.live = live, !.dormant = dorm]
           r == Recrawl(k, cov, tree, ids, last)
<1>1. r = IF new = k THEN k ELSE [new EXCEPT !.seq = k.seq + 1]
  BY DEF Recrawl, Successor, Staying, Numbered
<1> HIDE DEF live, dorm, r
<1>2. /\ new \in [inc : Nat, seq : Nat, next : {last}, live : {live}, dormant : {dorm}]
      /\ new.live = live /\ new.dormant = dorm
  BY DEF Catalog
<1> HIDE DEF new
<1>3. [new EXCEPT !.seq = k.seq + 1].live = live /\ [new EXCEPT !.seq = k.seq + 1].dormant = dorm
  BY <1>2
<1>4. r.live = live /\ r.dormant = dorm
  BY <1>1, <1>2, <1>3
<1> QED BY <1>4 DEF r, live, dorm

\* A recrawl's transaction keeps every id and hash unambiguous.
LEMMA RecrawlProper ==
    ASSUME NEW k \in Catalog, Allocated(k), Proper(k), NEW cov \in SUBSET CoverageType,
           NEW tree \in SUBSET Hash, NEW last \in Nat, k.next <= last,
           NEW ids \in Bijection(Unknown(k, cov, tree), k.next .. last - 1)
    PROVE  Proper(Recrawl(k, cov, tree, ids, last))
<1> DEFINE r == Recrawl(k, cov, tree, ids, last)
           kept  == Staying(k, tree)
           back  == Returning(k, cov, tree)
           fresh == Numbered(ids)
           dorm  == Retained(k, cov, tree)
           new   == Unknown(k, cov, tree)
<1>1. r.live = kept \cup back \cup fresh /\ r.dormant = dorm
  BY RecrawlDocs
<1>2. /\ kept \subseteq k.live /\ back \subseteq k.dormant
      /\ \A p \in kept : p.hash \in tree
      /\ \A p \in back : p.hash \in tree /\ p.hash \notin Hashes(k.live)
  BY DEF Returning, Staying
<1>3. ids \in [new -> k.next .. last - 1] /\ \A g, h \in new : ids[g] = ids[h] => g = h
  BY DEF Bijection, Injection, IsInjective
<1>4. \A p \in fresh : p.hash \in new /\ p.id = ids[p.hash] /\ p = [id |-> p.id, hash |-> p.hash]
  BY <1>3 DEF Numbered
<1>5. \A p \in fresh : p.id \in Nat /\ p.id >= k.next
  BY <1>3, <1>4 DEF Catalog
<1>6. \A p, q \in fresh : (p.id = q.id \/ p.hash = q.hash) => p = q
  BY <1>3, <1>4
<1>7. \A p \in fresh : p.hash \notin Hashes(k.live) /\ p.hash \notin Hashes(back)
  BY <1>4 DEF Unknown
<1>8. /\ \A p \in dorm : p \in k.dormant \ back \/ (p \in k.live /\ p.hash \notin tree)
      /\ \A p, q \in dorm : p.hash = q.hash => p = q
      /\ Cardinality(dorm) <= DormantCap
  BY RetainedProper DEF Dying
<1>9. \A p \in Potential(k) : p.id \in Nat /\ p.id < k.next /\ k.next \in Nat
  BY DEF Allocated, Potential, Catalog, Document
<1> HIDE DEF r, kept, back, fresh, dorm, new
<1>10. \A p \in Potential(r) : p \in Potential(k) \/ p \in fresh
  BY <1>1, <1>2, <1>8 DEF Potential
<1>11. ASSUME NEW p \in Potential(r), NEW q \in Potential(r), p.id = q.id PROVE p = q
  <2>1. CASE p \in Potential(k) /\ q \in Potential(k)
    BY <1>11, <2>1 DEF Proper
  <2>2. CASE p \in fresh /\ q \in fresh
    BY <1>6, <1>11, <2>2
  <2>3. CASE (p \in fresh /\ q \in Potential(k)) \/ (q \in fresh /\ p \in Potential(k))
    BY <1>5, <1>9, <1>11, <2>3
  <2> QED BY <1>10, <2>1, <2>2, <2>3
<1>12. ASSUME NEW p \in r.live, NEW q \in r.live, p.hash = q.hash PROVE p = q
  <2>1. \A a \in kept, b \in kept : a.hash = b.hash => a = b
    BY <1>2 DEF Proper
  <2>2. \A a \in back, b \in back : a.hash = b.hash => a = b
    BY <1>2 DEF Proper
  <2>3. \A a \in kept, b \in back : a.hash # b.hash
    BY <1>2 DEF Hashes
  <2>4. \A a \in kept \cup back, b \in fresh : a.hash # b.hash
    BY <1>2, <1>7 DEF Hashes
  <2>5. p \in kept \/ p \in back \/ p \in fresh
    BY <1>1
  <2>6. q \in kept \/ q \in back \/ q \in fresh
    BY <1>1
  <2> QED BY <1>6, <1>12, <2>1, <2>2, <2>3, <2>4, <2>5, <2>6
<1>13. ASSUME NEW p \in r.dormant, NEW q \in r.live
       PROVE  p # q /\ (p.hash = q.hash => p.id < q.id)
  <2>1. p \in dorm /\ p \in Potential(k) /\ p.id \in Nat /\ p.id < k.next
    BY <1>1, <1>8, <1>9 DEF Potential
  <2>2. CASE q \in fresh
    BY <1>5, <1>9, <2>1, <2>2
  <2>3. CASE q \in kept
    BY <1>2, <1>8, <2>1, <2>3 DEF Proper
  <2>4. CASE q \in back
    <3>1. CASE p \in k.dormant \ back
      BY <1>2, <2>4, <3>1 DEF Proper
    <3>2. CASE p \in k.live /\ p.hash \notin tree
      BY <1>2, <2>4, <3>2
    <3> QED BY <1>8, <2>1, <3>1, <3>2
  <2> QED BY <1>1, <2>2, <2>3, <2>4
<1>14. Proper(r)
  BY <1>1, <1>8, <1>11, <1>12, <1>13 DEF Proper
<1> QED BY <1>14 DEF r

\* Revocation takes permissions away only.
LEMMA ForgetProper ==
    ASSUME NEW k \in Catalog, Allocated(k), Proper(k), NEW ids
    PROVE  Proper(ForgetDormant(k, ids))
<1> DEFINE f == ForgetDormant(k, ids)
<1>1. f.live = k.live /\ f.dormant \in SUBSET k.dormant
  BY ForgetDormantFacts
<1> HIDE DEF f
<1>2. Potential(f) \subseteq Potential(k)
  BY <1>1 DEF Potential
<1>3. Cardinality(f.dormant) <= DormantCap
  <2>1. Cardinality(f.dormant) <= Cardinality(k.dormant) /\ Cardinality(f.dormant) \in Nat
        /\ Cardinality(k.dormant) \in Nat
    BY <1>1, FS_Subset, FS_CardinalityType DEF Allocated
  <2> QED BY <2>1, CapAssumption DEF Proper
<1>4. Proper(f)
  BY <1>1, <1>2, <1>3 DEF Proper
<1> QED BY <1>4 DEF f

\* A catalog made from nothing has no document.
LEMMA FreshProper ==
    ASSUME NEW inc
    PROVE  Proper(FreshCatalog(inc))
<1>1. FreshCatalog(inc).live = {} /\ FreshCatalog(inc).dormant = {}
  BY DEF FreshCatalog
<1>2. Cardinality({}) = 0
  BY FS_EmptySet
<1> QED BY <1>1, <1>2, CapAssumption DEF Proper, Potential


--------------------------------------------------------------------------------
(* What is published passes its readers' checks: the index.                *)

\* An empty index passes.
LEMMA EmptiedValid ==
    ASSUME NEW m, NEW inc
    PROVE  Valid(Emptied(m, inc))
<1>1. /\ Emptied(m, inc).segs = {} /\ Emptied(m, inc).unreadable = {}
      /\ Emptied(m, inc).frontier = 0 /\ Emptied(m, inc).high = 0
  BY DEF Emptied, EmptyManifest
<1> QED BY <1>1 DEF Valid, IsConsistent

\* The checks imply the part of them that the invariant of queries uses.
LEMMA ValidFacts ==
    ASSUME NEW m \in Manifest, Valid(m)
    PROVE  /\ WellFormed(m)
           /\ m.frontier \in Nat /\ m.high \in Nat /\ m.unreadable \in SUBSET Nat
           /\ \A s \in m.segs : /\ s \in Segment /\ s.first \in Nat /\ s.last \in Nat
                                /\ s.docs \in SUBSET Document
                                /\ s.first <= s.last /\ s.last < m.frontier
  BY DEF Valid, IsConsistent, Exact, WellFormed, Manifest, Segment

\* The segment of a follow pass lies between the old frontier and the new.
LEMMA FollowSegmentExact ==
    ASSUME NEW reached \in SUBSET Document, IsFiniteSet(reached), reached # {},
           NEW faulty, NEW from \in Nat, NEW stop \in Nat,
           \A p \in reached : from <= p.id /\ p.id < stop,
           \A p, q \in reached : p.id = q.id => p = q
    PROVE  LET s == FollowSegment(reached, faulty)
           IN  /\ s \in Segment /\ from <= s.first /\ s.first <= s.last /\ s.last < stop
               /\ Exact(s, faulty) /\ \A p \in s.docs : from <= p.id
<1> DEFINE s == FollowSegment(reached, faulty)
           docs == {p \in reached : p.id \notin faulty}
<1>1. /\ Ids(reached) \subseteq Nat /\ Ids(reached) # {}
      /\ \A x \in Ids(reached) : from <= x /\ x < stop /\ x <= stop
  BY DEF Ids, Document
<1>2. /\ Min(Ids(reached)) \in Ids(reached) /\ Max(Ids(reached)) \in Ids(reached)
      /\ \A x \in Ids(reached) : Min(Ids(reached)) <= x /\ x <= Max(Ids(reached))
  BY <1>1, MinNat, MaxNat
<1>3. s = [first |-> Min(Ids(reached)), last |-> Max(Ids(reached)), docs |-> docs,
           count |-> Cardinality(docs)]
  BY DEF FollowSegment
<1>4. /\ IsFiniteSet(docs) /\ Cardinality(docs) \in Nat /\ docs \in SUBSET Document
  BY FS_Subset, FS_CardinalityType
<1>5. \A p \in docs : p.id \notin faulty /\ p.id \in Ids(reached) /\ from <= p.id
  BY DEF Ids
<1>6. \A p, q \in docs : p.id = q.id => p = q
  OBVIOUS
<1> HIDE DEF docs, s
<1>7. /\ s \in Segment /\ s.first = Min(Ids(reached)) /\ s.last = Max(Ids(reached))
      /\ s.docs = docs /\ s.count = Cardinality(docs)
  BY <1>1, <1>2, <1>3, <1>4 DEF Segment
<1>8. Exact(s, faulty)
  BY <1>2, <1>4, <1>5, <1>6, <1>7 DEF Exact, InRange
<1>9. from <= s.first /\ s.first <= s.last /\ s.last < stop
  BY <1>1, <1>2, <1>7
<1> QED BY <1>5, <1>7, <1>8, <1>9 DEF s

\* A follow pass publishes a manifest that passes.
LEMMA FollowedValid ==
    ASSUME NEW m \in Manifest, NEW k \in Catalog, Allocated(k), Proper(k), Valid(m),
           Fits(m, k), NEW stop \in Stops(m, k), NEW faulty \in SUBSET Ids(k.live),
           faulty \subseteq Ids(Reached(m, k, stop))
    PROVE  Valid(Followed(m, k, stop, faulty))
<1> DEFINE reached == Reached(m, k, stop)
           seg == FollowSegment(reached, faulty)
           segs == m.segs \cup (IF reached = {} THEN {} ELSE {seg})
           pruned == Pruned(m, k.live)
           n == Followed(m, k, stop, faulty)
<1>1. /\ m.frontier \in Nat /\ m.high \in Nat /\ m.frontier <= m.high /\ k.next \in Nat
      /\ m.high <= k.next
      /\ \A s \in m.segs : /\ s \in Segment /\ s.first \in Nat /\ s.last \in Nat
                           /\ s.docs \in SUBSET Document
                           /\ s.first <= s.last /\ s.last < m.frontier
  BY ValidFacts DEF Fits, Catalog, Valid, IsConsistent
<1>2. \A p \in k.live : p \in Document /\ p.id \in Nat /\ p.id < k.next
  BY DEF Allocated, Potential, Catalog, Document
<1>3. stop \in Nat /\ m.frontier <= stop /\ stop <= k.next
  BY <1>1, <1>2 DEF Stops, Ids
<1>4. /\ reached \in SUBSET Document /\ IsFiniteSet(reached)
      /\ \A p \in reached : m.frontier <= p.id /\ p.id < stop
      /\ \A p, q \in reached : p.id = q.id => p = q
  <2>1. reached \subseteq k.live
    BY DEF Reached
  <2>2. IsFiniteSet(reached)
    BY <2>1, FS_Subset DEF Allocated
  <2> QED BY <1>2, <2>1, <2>2 DEF Reached, Proper, Potential
<1>5. \A id \in faulty : id \in Nat /\ m.frontier <= id /\ id < stop
  BY <1>2, <1>4 DEF Ids
<1>6. \A id \in pruned : id \in m.unreadable /\ id \in Nat /\ id < m.frontier
  BY ValidFacts DEF Pruned, Valid, IsConsistent
<1>7. /\ n.frontier = stop /\ n.segs = segs /\ n.unreadable = pruned \cup faulty
      /\ n.high = IF m.high < k.next THEN k.next ELSE m.high
  BY DEF Followed
<1>8. reached # {} => /\ seg \in Segment /\ m.frontier <= seg.first /\ seg.first <= seg.last
                      /\ seg.last < stop /\ Exact(seg, faulty)
                      /\ \A p \in seg.docs : m.frontier <= p.id
  <2> HIDE DEF reached
  <2> QED BY <1>1, <1>3, <1>4, FollowSegmentExact
<1>9. \A s \in segs : s \in m.segs \/ (reached # {} /\ s = seg)
  OBVIOUS
<1> HIDE DEF reached, seg, segs, pruned, n
<1>10. ASSUME NEW s \in segs PROVE s.first <= s.last /\ s.last < stop
  <2>1. CASE s \in m.segs
    BY <1>1, <1>3, <2>1
  <2>2. CASE reached # {} /\ s = seg
    BY <1>8, <2>2
  <2> QED BY <1>9, <1>10, <2>1, <2>2
<1>11. ASSUME NEW s \in segs, NEW t \in segs, s # t
       PROVE  s.last < t.first \/ t.last < s.first
  <2>1. CASE s \in m.segs /\ t \in m.segs
    BY <1>11, <2>1 DEF Valid, IsConsistent
  <2>2. ASSUME NEW a \in m.segs, reached # {} PROVE a.last < seg.first
    BY <1>1, <1>8, <2>2 DEF Segment
  <2> QED BY <1>9, <1>11, <2>1, <2>2
<1>12. ASSUME NEW s \in segs PROVE Exact(s, pruned \cup faulty)
  <2>1. CASE s \in m.segs
    <3>1. Exact(s, m.unreadable)
      BY <2>1 DEF Valid
    <3>2. \A p \in s.docs : p.id \in Nat /\ p.id < m.frontier
      BY <1>1, <2>1, <3>1 DEF Exact, InRange, Document
    <3>3. \A p \in s.docs : p.id \notin pruned \cup faulty
      BY <1>1, <1>5, <1>6, <3>1, <3>2 DEF Exact
    <3> QED BY <3>1, <3>3 DEF Exact
  <2>2. CASE reached # {} /\ s = seg
    <3>1. \A p \in seg.docs : p.id \in Nat /\ p.id \notin pruned
      BY <1>1, <1>6, <1>8, <2>2 DEF Segment, Document
    <3> QED BY <1>8, <2>2, <3>1 DEF Exact
  <2> QED BY <1>9, <1>12, <2>1, <2>2
<1>13. \A id \in pruned \cup faulty : id < stop
  BY <1>1, <1>3, <1>5, <1>6
<1>14. stop <= n.high
  BY <1>1, <1>3, <1>7
<1>15. Valid(n)
  BY <1>7, <1>10, <1>11, <1>12, <1>13, <1>14 DEF Valid, IsConsistent
<1> QED BY <1>15 DEF n

\* The inputs of a merge hold the pin's live documents in their ranges.
Holds(run, pin, unreadable) ==
    \A s \in run, p \in pin.live :
       InRange(p.id, s) /\ p.id \notin unreadable => p \in s.docs

\* A merged segment replaces its run: it stays clear of the other segments, and
\* counts the documents it keeps.
LEMMA OutputExact ==
    ASSUME NEW m \in Manifest, NEW pin \in Catalog, Allocated(pin), Valid(m),
           NEW run, IsRun(run, m), Holds(run, pin, m.unreadable),
           NEW o \in Output(m, run, pin)
    PROVE  /\ o \in Segment /\ o.first <= o.last /\ o.last < m.frontier
           /\ \A s \in m.segs \ run : s.last < o.first \/ o.last < s.first
           /\ Exact(o, Pruned(m, pin.live))
           /\ \E a \in run : o.first = a.first
<1> DEFINE firsts == {s.first : s \in run}
           lasts == {s.last : s \in run}
           docs == {p \in UNION {s.docs : s \in run} : p.id \in Ids(pin.live)}
           pruned == Pruned(m, pin.live)
           survivors == Survivors(run, pin.live, pruned)
<1>1. /\ WellFormed(m) /\ m.frontier \in Nat
      /\ \A s \in m.segs : /\ s \in Segment /\ s.first \in Nat /\ s.last \in Nat
                           /\ s.docs \in SUBSET Document
                           /\ s.first <= s.last /\ s.last < m.frontier
  BY ValidFacts
<1>2. run # {} /\ run \subseteq m.segs
  BY DEF IsRun
<1>3. /\ o \in Segment /\ o.docs = docs /\ o.last < m.frontier
      /\ \A p \in o.docs : InRange(p.id, o)
  BY <1>1, <1>2, OutputFacts
<1>4. o.first = Min(firsts) /\ o.last = Max(lasts) /\ o.count = Cardinality(survivors)
  BY DEF Output
<1>5. /\ firsts \subseteq Nat /\ firsts # {} /\ lasts \subseteq Nat /\ lasts # {}
      /\ \A x \in lasts : x <= m.frontier
  BY <1>1, <1>2
<1>6. /\ o.first \in firsts /\ o.last \in lasts
      /\ \A x \in firsts : o.first <= x
      /\ \A x \in lasts : x <= o.last
  <2> HIDE DEF firsts, lasts
  <2>1. o.first \in firsts /\ \A x \in firsts : o.first <= x
    BY <1>4, <1>5, MinNat
  <2>2. o.last \in lasts /\ \A x \in lasts : x <= o.last
    BY <1>1, <1>4, <1>5, MaxNat
  <2> QED BY <2>1, <2>2
<1>7. PICK a \in run, b \in run : o.first = a.first /\ o.last = b.last
  BY <1>6
<1>8. \A s \in run : o.first <= s.first /\ s.last <= o.last
  BY <1>6
<1>9. o.first <= o.last
  BY <1>1, <1>2, <1>3, <1>7, <1>8 DEF Segment
<1>10. ASSUME NEW s \in m.segs \ run PROVE s.last < o.first \/ o.last < s.first
  <2>1. /\ a \in m.segs /\ b \in m.segs /\ s # a /\ s # b
        /\ a.first <= a.last /\ b.first <= b.last /\ s.first <= s.last
        /\ a.first \in Nat /\ a.last \in Nat /\ b.first \in Nat /\ b.last \in Nat
        /\ s.first \in Nat /\ s.last \in Nat
    BY <1>1, <1>2
  <2>2. (s.last < a.first \/ a.last < s.first) /\ (s.last < b.first \/ b.last < s.first)
    BY <2>1 DEF Valid, IsConsistent
  <2>3. ~(a.first <= s.first /\ s.first <= b.first)
    BY DEF IsRun
  <2> QED BY <1>7, <2>1, <2>2, <2>3
<1>11. \A s \in run : Exact(s, m.unreadable)
  BY <1>2 DEF Valid
<1>12. ASSUME NEW p \in docs
       PROVE  p.id \notin m.unreadable /\ p \in survivors
  <2>1. PICK s \in run : p \in s.docs
    OBVIOUS
  <2>2. PICK q \in pin.live : q.id = p.id
    BY DEF Ids
  <2>3. InRange(p.id, s) /\ p.id \notin m.unreadable
    BY <1>11, <2>1 DEF Exact
  <2>4. q \in s.docs
    BY <2>2, <2>3 DEF Holds
  <2>5. p = q
    BY <1>11, <2>1, <2>2, <2>4 DEF Exact
  <2> QED BY <2>2, <2>3, <2>5 DEF Survivors, Pruned
<1>13. ASSUME NEW p \in survivors PROVE p \in docs
  <2>1. p \in pin.live /\ p.id \notin pruned
    BY DEF Survivors
  <2>2. PICK s \in run : InRange(p.id, s)
    BY DEF Survivors
  <2>3. p.id \in Ids(pin.live) /\ p.id \notin m.unreadable
    BY <2>1 DEF Pruned, Ids
  <2>4. p \in s.docs
    BY <2>1, <2>2, <2>3 DEF Holds
  <2> QED BY <2>3, <2>4
<1>14. ASSUME NEW p \in docs, NEW q \in docs, p.id = q.id PROVE p = q
  <2>1. PICK s \in run : p \in s.docs
    OBVIOUS
  <2>2. PICK t \in run : q \in t.docs
    OBVIOUS
  <2>3. InRange(p.id, s) /\ InRange(q.id, t)
    BY <1>11, <2>1, <2>2 DEF Exact
  <2>4. /\ s.first \in Nat /\ s.last \in Nat /\ t.first \in Nat /\ t.last \in Nat
        /\ s \in m.segs /\ t \in m.segs /\ p.id \in Nat
    BY <1>1, <1>2, <2>1 DEF Document
  <2>5. s = t
    BY <1>14, <2>3, <2>4 DEF InRange, Valid, IsConsistent
  <2> QED BY <1>11, <1>14, <2>1, <2>2, <2>5 DEF Exact
<1>15. docs = survivors /\ IsFiniteSet(docs)
  <2>1. docs = survivors
    BY <1>12, <1>13
  <2>2. survivors \subseteq pin.live
    BY DEF Survivors
  <2> HIDE DEF docs, survivors
  <2> QED BY <2>1, <2>2, FS_Subset DEF Allocated
<1>16. \A p \in docs : p.id \notin pruned
  BY <1>12 DEF Pruned
<1> HIDE DEF docs, survivors, pruned
<1>17. Exact(o, pruned)
  BY <1>3, <1>4, <1>14, <1>15, <1>16 DEF Exact
<1> QED BY <1>3, <1>7, <1>9, <1>10, <1>17 DEF pruned


\* replace_run publishes a manifest that passes.
LEMMA MergedValid ==
    ASSUME NEW m \in Manifest, NEW pin \in Catalog, Allocated(pin), Valid(m),
           NEW run, IsRun(run, m), Holds(run, pin, m.unreadable)
    PROVE  Valid(Merged(m, run, pin))
<1> DEFINE out == Output(m, run, pin)
           pruned == Pruned(m, pin.live)
           n == Merged(m, run, pin)
<1>1. /\ n.frontier = m.frontier /\ n.high = m.high /\ n.unreadable = pruned
      /\ n.segs = (m.segs \ run) \cup out
  BY DEF Merged
<1>2. pruned \subseteq m.unreadable
  BY DEF Pruned
<1>3. \A o \in out :
         /\ o \in Segment /\ o.first <= o.last /\ o.last < m.frontier
         /\ \A s \in m.segs \ run : s.last < o.first \/ o.last < s.first
         /\ Exact(o, pruned)
  BY OutputExact
<1>4. \A o, q \in out : o = q
  BY DEF Output
<1>5. \A s \in m.segs : Exact(s, pruned)
  BY <1>2 DEF Valid, Exact
<1> HIDE DEF out, pruned, n
<1>6. \A s \in n.segs : s.first <= s.last /\ s.last < n.frontier /\ Exact(s, n.unreadable)
  BY <1>1, <1>3, <1>5 DEF Valid, IsConsistent
<1>7. ASSUME NEW s \in n.segs, NEW t \in n.segs, s # t
      PROVE  s.last < t.first \/ t.last < s.first
  <2>1. CASE s \in m.segs \ run /\ t \in m.segs \ run
    BY <1>7, <2>1 DEF Valid, IsConsistent
  <2>2. CASE s \in out /\ t \in m.segs \ run
    BY <1>3, <2>2
  <2>3. CASE s \in m.segs \ run /\ t \in out
    BY <1>3, <2>3
  <2> QED BY <1>1, <1>4, <1>7, <2>1, <2>2, <2>3
<1>8. Valid(n)
  BY <1>1, <1>2, <1>6, <1>7 DEF Valid, IsConsistent
<1> QED BY <1>8 DEF n

\* A merge's publication leaves the other runs as they are.
LEMMA OtherRun ==
    ASSUME NEW m \in Manifest, NEW pin \in Catalog, Allocated(pin), Valid(m),
           NEW run, IsRun(run, m), Holds(run, pin, m.unreadable),
           NEW other, IsRun(other, m), Holds(other, pin, m.unreadable),
           other \cap run = {}
    PROVE  /\ IsRun(other, Merged(m, run, pin))
           /\ Holds(other, pin, Merged(m, run, pin).unreadable)
<1> DEFINE n == Merged(m, run, pin)
<1>1. n.segs = (m.segs \ run) \cup Output(m, run, pin) /\ n.unreadable = Pruned(m, pin.live)
  BY DEF Merged
<1>2. \A o \in Output(m, run, pin) : \E t \in run : o.first = t.first
  BY OutputExact
<1>3. run \subseteq m.segs /\ other \subseteq m.segs /\ other # {}
  BY DEF IsRun
<1> HIDE DEF n
<1>4. ASSUME NEW a \in other, NEW b \in other, NEW s \in n.segs,
             a.first <= s.first, s.first <= b.first
      PROVE  s \in other
  <2>1. CASE s \in m.segs
    BY <1>4, <2>1 DEF IsRun
  <2>2. ASSUME NEW t \in run, s.first = t.first PROVE FALSE
    <3>1. t \in m.segs
      BY <1>3
    <3>2. t \in other
      BY <1>4, <2>2, <3>1 DEF IsRun
    <3> QED BY <3>2
  <2> QED BY <1>1, <1>2, <2>1, <2>2
<1>5. IsRun(other, n)
  BY <1>1, <1>3, <1>4 DEF IsRun
<1>6. Holds(other, pin, n.unreadable)
  BY <1>1 DEF Holds, Pruned, Ids
<1> QED BY <1>5, <1>6 DEF n

\* A segment of a sound index holds every document in its range that the
\* index has not marked unreadable.
LEMMA SegmentHolds ==
    ASSUME NEW m \in Manifest, NEW k \in Catalog, Valid(m), Sound(m, k),
           NEW s \in m.segs, NEW p \in k.live, InRange(p.id, s), p.id \notin m.unreadable
    PROVE  p \in s.docs
<1>1. /\ p.id \in Nat /\ m.frontier \in Nat /\ s.last \in Nat /\ s.last < m.frontier
      /\ s.first \in Nat
  BY ValidFacts DEF Catalog, Document
<1>2. Covers(m, p.id)
  BY <1>1 DEF Covers, InRange
<1>3. PICK t \in m.segs : p \in t.docs
  BY <1>2 DEF Sound, Potential, Indexed
<1>4. InRange(p.id, t)
  BY <1>3 DEF Valid, Exact
<1>5. t.first \in Nat /\ t.last \in Nat
  BY ValidFacts
<1>6. s = t
  BY <1>1, <1>4, <1>5 DEF InRange, Valid, IsConsistent
<1> QED BY <1>3, <1>6


--------------------------------------------------------------------------------
(* What is published passes its readers' checks: the actions.              *)

\* The catalog views of the writer, and its index views.
CatalogViews == {disk, selCat} \cup {g.pin : g \in merge}
IndexViews == man \cup cur \cup sel

\* Where a catalog view comes from.
CatalogSource(k) ==
    \/ k \in CatalogViews
    \/ RecrawledTo(k)
    \/ \E ids : k = ForgetDormant(selCat, ids)
    \/ \E inc : k = FreshCatalog(inc)

\* Where an index view comes from.
IndexSource(m) ==
    \/ m \in IndexViews
    \/ \E x, inc : m = Emptied(x, inc)
    \/ \E c \in cur : m \in FollowResults(c)
    \/ \E g \in merge, c \in cur : \E run \in g.runs : m = Merged(c, run, g.pin)

\* Revocations and clearings are the same operation on different ids.
LEMMA ForgetSource ==
    /\ CatalogSource(disk) /\ CatalogSource(selCat)
    /\ CatalogSource(ClearDormant(selCat))
    /\ \A runs : CatalogSource(Revoked(selCat, runs))
<1>1. CatalogSource(disk) /\ CatalogSource(selCat)
  BY DEF CatalogSource, CatalogViews
<1>2. CatalogSource(ClearDormant(selCat))
  BY DEF CatalogSource, ClearDormant
<1>3. \A runs : CatalogSource(Revoked(selCat, runs))
  BY DEF CatalogSource, Revoked
<1> QED BY <1>1, <1>2, <1>3

\* No action makes a catalog view in another way.
LEMMA CatalogViewsStep ==
    ASSUME IInv, [Next]_vars
    PROVE  /\ CatalogSource(disk') /\ CatalogSource(selCat')
           /\ \A g \in merge' : CatalogSource(g.pin)
<1> DEFINE Here == /\ CatalogSource(disk') /\ CatalogSource(selCat')
                   /\ merge' = {} \/ merge' = merge
<1>1. \A g \in merge : CatalogSource(g.pin)
  BY DEF CatalogSource, CatalogViews
<1>2. ASSUME UNCHANGED <<disk, selCat, merge>> PROVE Here
  BY <1>2, ForgetSource
<1>3. ASSUME RefreshBegin \/ RefreshAbort \/ RefreshRefused \/ AttachOpen \/ AttachError
             \/ FollowPublish \/ FollowFail \/ FollowSelect \/ MergeFail
             \/ ReaderPin \/ ReaderPair \/ UNCHANGED vars
      PROVE  Here
  <2>1. UNCHANGED <<disk, selCat, merge>>
    BY <1>3 DEF RefreshBegin, RefreshAbort, RefreshRefused, AttachOpen, AttachError,
                FollowPublish, FollowFail, FollowSelect, MergeFail, ReaderPin,
                ReaderPair, vars, catalogVars
  <2> QED BY <1>2, <2>1
<1>4. ASSUME RefreshCommit \/ RefreshFail PROVE Here
  <2>1. (disk' = disk \/ RecrawledTo(disk')) /\ selCat' = selCat /\ merge' = merge
    BY <1>4 DEF RefreshCommit, RefreshFail
  <2> QED BY <2>1, ForgetSource DEF CatalogSource
<1>5. ASSUME RefreshSelect \/ Recover PROVE Here
  <2>1. disk' = disk /\ (selCat' = disk \/ selCat' = selCat) /\ merge' = merge
    BY <1>5 DEF RefreshSelect, Recover
  <2> QED BY <2>1, ForgetSource
<1>6. ASSUME AttachInstall \/ AttachFail \/ Reset \/ ResetFail PROVE Here
  <2>1. /\ disk' = disk \/ disk' = ClearDormant(selCat)
        /\ selCat' = selCat \/ selCat' = ClearDormant(selCat)
        /\ merge' = merge
    BY <1>6 DEF AttachInstall, AttachFail, Reset, ResetFail, catalogVars
  <2> QED BY <2>1, ForgetSource
<1>7. ASSUME MergePrepare
      PROVE  CatalogSource(disk') /\ selCat' = disk' /\ \A g \in merge' : g.pin = disk'
  <2>1. PICK runs : /\ disk' = Revoked(selCat, runs) /\ selCat' = disk'
                    /\ merge' = {[pin |-> disk', runs |-> runs]}
    BY <1>7 DEF MergePrepare
  <2> QED BY <2>1, ForgetSource
<1>8. ASSUME MergePrepareFail PROVE Here
  <2>1. PICK runs, done : /\ selCat' = Revoked(selCat, done)
                          /\ disk' \in {selCat', Revoked(selCat, runs)}
    BY <1>8 DEF MergePrepareFail
  <2>2. merge' = merge
    BY <1>8 DEF MergePrepareFail
  <2> QED BY <2>1, <2>2, ForgetSource
<1>9. ASSUME MergePublish
      PROVE  /\ disk' = disk /\ selCat' = selCat
             /\ \A g \in merge' : \E h \in merge : g.pin = h.pin
  <2>1. PICK h \in merge : \E run : merge' = {[h EXCEPT !.runs = h.runs \ {run}]}
    BY <1>9 DEF MergePublish
  <2>2. \A run : [h EXCEPT !.runs = h.runs \ {run}].pin = h.pin
    BY DEF IInv, TypeOK
  <2> QED BY <1>9, <2>1, <2>2 DEF MergePublish, catalogVars
<1>10. ASSUME MergeSelect PROVE Here
  BY <1>10, ForgetSource DEF MergeSelect, catalogVars
<1>11. ASSUME Restart \/ PowerLoss \/ Reincarnate PROVE Here
  <2>1. PICK k, m : StartedOn(k, m) /\ (k = disk \/ k = selCat \/ \E inc : k = FreshCatalog(inc))
    BY <1>11 DEF Restart, PowerLoss, Reincarnate
  <2> QED BY <2>1, ForgetSource DEF StartedOn, CatalogSource
<1>12. CASE Here
  BY <1>1, <1>12
<1>13. CASE MergePrepare
  BY <1>7, <1>13
<1>14. CASE MergePublish
  BY <1>1, <1>9, <1>14, ForgetSource
<1> HIDE DEF Here
<1> QED BY <1>3, <1>4, <1>5, <1>6, <1>8, <1>10, <1>11, <1>12, <1>13, <1>14 DEF Next

\* Every catalog view stays proper.
LEMMA ProperStep ==
    ASSUME IInv, ProperInv, [Next]_vars
    PROVE  ProperInv'
<1>1. selCat \in Catalog /\ coverage \in SUBSET CoverageType
  BY DEF IInv, TypeOK
<1>2. Allocated(selCat) /\ Proper(selCat)
  BY DEF IInv, AllocatedInv, ProperInv
<1>3. ASSUME NEW k, RecrawledTo(k) PROVE Proper(k)
  <2>1. PICK tree \in SUBSET Hash, last \in selCat.next .. MaxDoc :
           \E ids \in Bijection(Unknown(selCat, coverage, tree),
                                selCat.next .. last - 1) :
              k = Recrawl(selCat, coverage, tree, ids, last)
    BY <1>3 DEF RecrawledTo
  <2>2. PICK ids \in Bijection(Unknown(selCat, coverage, tree),
                               selCat.next .. last - 1) :
              k = Recrawl(selCat, coverage, tree, ids, last)
    BY <2>1
  <2>3. last \in Nat /\ selCat.next <= last
    BY <1>1, BoundsAssumption DEF Catalog
  <2> QED BY <1>1, <1>2, <2>2, <2>3, RecrawlProper
<1>4. ASSUME NEW k, CatalogSource(k) PROVE Proper(k)
  BY <1>1, <1>2, <1>3, <1>4, ForgetProper, FreshProper
     DEF CatalogSource, CatalogViews, ProperInv
<1> QED BY <1>4, CatalogViewsStep DEF ProperInv


\* No action makes an index view in another way.
LEMMA IndexViewsStep ==
    ASSUME [Next]_vars
    PROVE  \A m \in man' \cup cur' \cup sel' : IndexSource(m)
<1>1. \A m \in man \cup cur \cup sel : IndexSource(m)
  BY DEF IndexSource, IndexViews
<1>2. \A m, k : SelectContent(m, sel, k) \subseteq sel \cup {m}
  BY DEF SelectContent
<1>3. \A x, inc : IndexSource(Emptied(x, inc))
  BY DEF IndexSource
<1>4. \A k : KeptContent(k) \subseteq sel
  BY DEF KeptContent
<1> DEFINE Old == man' \cup cur' \cup sel' \subseteq man \cup cur \cup sel
<1>5. ASSUME RefreshBegin \/ RefreshCommit \/ RefreshAbort \/ RefreshFail \/ RefreshRefused
             \/ AttachFail \/ MergePrepare \/ MergePrepareFail \/ ResetFail
             \/ ReaderPin \/ ReaderPair \/ UNCHANGED vars
      PROVE  Old
  <2>1. man' = man /\ sel' = sel /\ (cur' = cur \/ cur' = {})
    BY <1>5 DEF RefreshBegin, RefreshCommit, RefreshAbort, RefreshFail, RefreshRefused,
                AttachFail, MergePrepare, MergePrepareFail, ResetFail, ReaderPin,
                ReaderPair, vars, indexVars
  <2> QED BY <2>1
<1>6. ASSUME RefreshSelect \/ Recover PROVE Old
  <2>1. man' = man /\ cur' = cur /\ (sel' = sel \/ sel' = KeptContent(disk))
    BY <1>6 DEF RefreshSelect, Recover, indexVars
  <2> QED BY <1>4, <2>1
<1>7. ASSUME AttachInstall \/ FollowSelect \/ MergeSelect PROVE Old
  <2>1. man' = man /\ cur' = cur /\ \E m \in cur : \E k : sel' = SelectContent(m, sel, k)
    BY <1>7 DEF AttachInstall, FollowSelect, MergeSelect, indexVars
  <2> QED BY <1>2, <2>1
<1>8. ASSUME Restart \/ PowerLoss \/ Reincarnate PROVE Old
  <2>1. PICK k, m : StartedOn(k, m) /\ (m = man \/ m = cur)
    BY <1>8 DEF Restart, PowerLoss, Reincarnate
  <2> QED BY <2>1 DEF StartedOn
<1>9. ASSUME AttachOpen \/ AttachError \/ Reset
      PROVE  \A m \in man' \cup cur' \cup sel' :
                m \in man \cup cur \cup sel \/ \E x, inc : m = Emptied(x, inc)
  <2>1. CASE AttachOpen \/ AttachError
    BY <2>1 DEF AttachOpen, AttachError
  <2>2. CASE Reset
    <3>1. PICK e : /\ \E x, inc : e = Emptied(x, inc)
                   /\ man' = man \/ man' = {e}
                   /\ cur' = {e} \/ cur' = {}
                   /\ sel' = {} \/ \E k : sel' = SelectContent(e, sel, k)
      BY <2>2 DEF Reset
    <3>2. \A m \in man' \cup cur' \cup sel' : m \in man \cup sel \/ m = e
      BY <1>2, <3>1
    <3> QED BY <3>1, <3>2
  <2> QED BY <1>9, <2>1, <2>2
<1>10. ASSUME FollowPublish \/ FollowFail
       PROVE  \A m \in man' \cup cur' \cup sel' :
                 m \in man \cup cur \cup sel \/ \E c \in cur : m \in FollowResults(c)
  BY <1>10 DEF FollowPublish, FollowFail
<1>11. ASSUME MergePublish \/ MergeFail
       PROVE  \A m \in man' \cup cur' \cup sel' :
                 \/ m \in man \cup cur \cup sel
                 \/ \E g \in merge, c \in cur : \E run \in g.runs : m = Merged(c, run, g.pin)
  BY <1>11 DEF MergePublish, MergeFail
<1>12. CASE Old
  BY <1>1, <1>12
<1>13. CASE AttachOpen \/ AttachError \/ Reset
  BY <1>1, <1>3, <1>9, <1>13
<1>14. CASE FollowPublish \/ FollowFail
  BY <1>1, <1>10, <1>14 DEF IndexSource
<1>15. CASE MergePublish \/ MergeFail
  BY <1>1, <1>11, <1>15 DEF IndexSource
<1> HIDE DEF Old
<1> QED BY <1>5, <1>6, <1>7, <1>8, <1>12, <1>13, <1>14, <1>15 DEF Next

\* Every index view stays valid.
LEMMA ValidStep ==
    ASSUME IInv, ChecksInv, [Next]_vars
    PROVE  ValidInv'
<1>1. /\ selCat \in Catalog /\ Allocated(selCat) /\ Proper(selCat) /\ cur \subseteq Manifest
  BY DEF IInv, TypeOK, AllocatedInv, ChecksInv, ProperInv
<1>2. ASSUME NEW c \in cur, NEW m \in FollowResults(c) PROVE Valid(m)
  <2>1. c \in Manifest /\ Valid(c) /\ Fits(c, selCat)
    BY <1>1 DEF IInv, CurrentInv, ChecksInv, ValidInv
  <2>2. FollowBase(c) = c
    BY <2>1 DEF FollowBase
  <2>3. PICK x \in Stops(c, selCat) \X SUBSET Ids(selCat.live) :
           /\ x[2] \subseteq Ids(Reached(c, selCat, x[1]))
           /\ m = Followed(c, selCat, x[1], x[2])
    BY <2>2 DEF FollowResults
  <2>4. x[1] \in Stops(c, selCat) /\ x[2] \in SUBSET Ids(selCat.live)
    OBVIOUS
  <2> QED BY <1>1, <2>1, <2>3, <2>4, FollowedValid
<1>3. ASSUME NEW g \in merge, NEW c \in cur, NEW run \in g.runs
      PROVE  Valid(Merged(c, run, g.pin))
  <2>1. c \in Manifest /\ Valid(c) /\ g.pin \in Catalog /\ Allocated(g.pin)
    BY <1>1 DEF IInv, TypeOK, AllocatedInv, ChecksInv, ValidInv
  <2>2. IsRun(run, c) /\ Holds(run, g.pin, c.unreadable)
    BY DEF ChecksInv, InputsInv, Holds
  <2> QED BY <2>1, <2>2, MergedValid
<1>4. ASSUME NEW m, IndexSource(m) PROVE Valid(m)
  BY <1>2, <1>3, <1>4, EmptiedValid DEF IndexSource, IndexViews, ChecksInv, ValidInv
<1> QED BY <1>4, IndexViewsStep DEF ValidInv

\* The inputs of a merge stay contiguous and keep the pin's documents, whatever
\* is committed beside it and whichever of its runs are published first.
LEMMA InputsStep ==
    ASSUME IInv, ChecksInv, [Next]_vars
    PROVE  InputsInv'
<1>1. ASSUME NEW g \in merge, NEW m \in cur, NEW run \in g.runs,
             cur' = {Merged(m, run, g.pin)}, merge' = {[g EXCEPT !.runs = g.runs \ {run}]}
      PROVE  InputsInv'
  <2> DEFINE n == Merged(m, run, g.pin)
             h == [g EXCEPT !.runs = g.runs \ {run}]
  <2>1. h.pin = g.pin /\ h.runs = g.runs \ {run}
    BY DEF IInv, TypeOK
  <2>2. m \in Manifest /\ g.pin \in Catalog /\ Allocated(g.pin) /\ Valid(m)
    BY DEF IInv, TypeOK, AllocatedInv, ChecksInv, ValidInv
  <2>3. \A r \in g.runs : IsRun(r, m) /\ Holds(r, g.pin, m.unreadable)
    BY DEF ChecksInv, InputsInv, Holds
  <2>4. \A r \in h.runs : r \in g.runs /\ r \cap run = {}
    BY <2>1 DEF IInv, MergeInv
  <2>5. \A r \in h.runs : IsRun(r, n) /\ Holds(r, g.pin, n.unreadable)
    BY <2>2, <2>3, <2>4, OtherRun
  <2>6. cur' = {n} /\ merge' = {h}
    BY <1>1
  <2> HIDE DEF n, h
  <2> QED BY <2>1, <2>5, <2>6 DEF InputsInv, Holds
<1>2. CASE MergePublish
  BY <1>1, <1>2 DEF MergePublish
<1>3. CASE MergePrepare
  <2>1. PICK m \in cur : \E runs \in Plans(m) :
           /\ disk' = Revoked(selCat, runs)
           /\ merge' = {[pin |-> disk', runs |-> runs]}
    BY <1>3 DEF MergePrepare
  <2>2. PICK runs \in Plans(m) :
           /\ disk' = Revoked(selCat, runs)
           /\ merge' = {[pin |-> disk', runs |-> runs]}
    BY <2>1
  <2>3. cur' = cur /\ cur = {m} /\ m \in Manifest /\ selCat \in Catalog
    BY <1>3 DEF MergePrepare, indexVars, IInv, PhaseInv, TypeOK
  <2>4. disk'.live = selCat.live
    BY <2>2, <2>3, RevokedFacts
  <2>5. Sound(m, selCat) /\ Valid(m)
    BY DEF IInv, CurrentInv, ChecksInv, ValidInv
  <2>6. \A r \in runs : IsRun(r, m) /\ r \subseteq m.segs
    BY DEF Plans, IsRun
  <2>7. ASSUME NEW r \in runs, NEW s \in r, NEW p \in disk'.live,
               InRange(p.id, s), p.id \notin m.unreadable
        PROVE  p \in s.docs
    BY <2>3, <2>4, <2>5, <2>6, <2>7, SegmentHolds
  <2>8. \A g \in merge' : g.pin = disk' /\ g.runs = runs
    BY <2>2
  <2> QED BY <2>3, <2>6, <2>7, <2>8 DEF InputsInv
<1>4. ASSUME merge' = {} PROVE InputsInv'
  BY <1>4 DEF InputsInv
<1>5. ASSUME merge' = merge, cur' \subseteq cur PROVE InputsInv'
  BY <1>5 DEF ChecksInv, InputsInv
<1>6. CASE \/ RefreshBegin \/ RefreshCommit \/ RefreshSelect \/ RefreshAbort \/ RefreshFail
           \/ RefreshRefused \/ Recover \/ AttachInstall \/ AttachFail \/ FollowFail
           \/ FollowSelect \/ MergePrepareFail \/ MergeFail \/ ResetFail
           \/ ReaderPin \/ ReaderPair \/ UNCHANGED vars
  <2>1. merge' = merge /\ (cur' = cur \/ cur' = {})
    BY <1>6 DEF RefreshBegin, RefreshCommit, RefreshSelect, RefreshAbort, RefreshFail,
                RefreshRefused, Recover, AttachInstall, AttachFail, FollowFail,
                FollowSelect, MergePrepareFail, MergeFail, ResetFail, ReaderPin,
                ReaderPair, vars, indexVars
  <2> QED BY <1>5, <2>1
<1>7. CASE AttachOpen \/ AttachError \/ FollowPublish \/ MergeSelect \/ Reset
           \/ Restart \/ PowerLoss \/ Reincarnate
  BY <1>4, <1>7 DEF AttachOpen, AttachError, FollowPublish, MergeSelect, Reset,
                    Restart, PowerLoss, Reincarnate, StartedOn
<1> QED BY <1>2, <1>3, <1>6, <1>7 DEF Next

\* No live document of the published catalog lies in a segment's range without
\* postings there, unless marked unreadable: `alive` is at most the count.
LEMMA AliveWithin ==
    ASSUME NEW m \in Manifest, NEW k \in Catalog, Valid(m), Sound(m, k), NEW s \in m.segs
    PROVE  Alive(s, k.live, m.unreadable) <= s.count
<1> DEFINE alive == Survivors({s}, k.live, m.unreadable)
<1>1. alive \subseteq s.docs
  BY SegmentHolds DEF Survivors
<1>2. IsFiniteSet(s.docs) /\ s.count = Cardinality(s.docs)
  BY DEF Valid, Exact
<1> HIDE DEF alive
<1>3. Cardinality(alive) <= Cardinality(s.docs)
  BY <1>1, <1>2, FS_Subset
<1> QED BY <1>2, <1>3 DEF Alive, alive

\* What the engine publishes passes its readers' checks, whatever commits,
\* publications, failures and restarts came before: Manifest::is_consistent,
\* the counts of the segment entries against `alive`, and the dormant table of
\* dormant::check (PublishedValid).
THEOREM PublicationsValid == Spec => []PublishedValid
<1>1. Init => ChecksInv
  <2> SUFFICES ASSUME Init PROVE ChecksInv
    OBVIOUS
  <2> QED BY FreshProper DEF Init, ChecksInv, ProperInv, ValidInv, InputsInv
<1>2. IInv /\ ChecksInv /\ [Next]_vars => ChecksInv'
  BY ProperStep, ValidStep, InputsStep DEF ChecksInv
<1>3. IInv /\ ChecksInv => PublishedValid
  <2> SUFFICES ASSUME IInv, ChecksInv PROVE PublishedValid
    OBVIOUS
  <2>1. /\ disk \in Catalog /\ selCat \in Catalog
        /\ man \subseteq Manifest /\ cur \subseteq Manifest /\ sel \subseteq Manifest
        /\ Evolves(selCat, disk)
    BY DEF IInv, TypeOK, CatalogInv
  <2>2. ASSUME NEW m \in cur \cup man \cup sel, Fits(m, disk)
        PROVE  Sound(m, disk)
    <3>1. m.frontier <= m.high /\ Fits(m, selCat) /\ Sound(m, selCat)
      BY <2>2 DEF IInv, CurrentInv, PublishedInv, SelectedInv, WellFormed, Fits
    <3> QED BY <2>1, <3>1, SoundLater
  <2>3. ASSUME NEW m \in cur \cup man \cup sel, NEW s \in m.segs
        PROVE  /\ s.count = Cardinality(s.docs)
               /\ Fits(m, disk) => Alive(s, disk.live, m.unreadable) <= s.count
    <3>1. m \in Manifest /\ Valid(m)
      BY <2>1 DEF ChecksInv, ValidInv
    <3> QED BY <2>1, <2>2, <3>1, AliveWithin DEF Valid, Exact
  <2>4. \A m \in man \cup cur : IsConsistent(m)
    BY DEF ChecksInv, ValidInv, Valid
  <2>5. Proper(disk)
    BY DEF ChecksInv, ProperInv
  <2>6. \A p \in disk.dormant, q \in disk.live : p.id # q.id /\ (p.hash = q.hash => p.id < q.id)
    BY <2>5 DEF Proper, Potential
  <2> QED BY <2>3, <2>4, <2>5, <2>6 DEF PublishedValid, Proper
<1> QED BY <1>1, <1>2, <1>3, Invariance, PTL DEF Spec

================================================================================
