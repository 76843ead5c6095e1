--------------------------- MODULE ContentInvariants ---------------------------
(***************************************************************************)
(* Why a pinned index is safe to answer from: the inductive invariant of   *)
(* ContentEngine.                                                          *)
(*                                                                         *)
(* The documents that are live or may revive (Potential) only shrink, new  *)
(* DocIds apart; an index view, once sound for a catalog view, therefore   *)
(* stays sound for every later one.  What must be shown of each            *)
(* publication is that it starts sound, and there the dormant documents    *)
(* are the difficulty: a follow pass and a merge read only live documents, *)
(* so no dormant one may lie in what they newly cover or throw away.       *)
(***************************************************************************)
EXTENDS ContentEngine

\* Catalog view k2 is a later view of the catalog that k1 shows.
Evolves(k1, k2) ==
    /\ k1.inc = k2.inc
    /\ k1.next <= k2.next
    /\ \A p \in Potential(k2) : p \in Potential(k1) \/ p.id >= k1.next

\* What the index claims to cover of k it holds, live and dormant alike.
Sound(c, k) == \A p \in Potential(k) : Covers(c, p.id) => p \in Indexed(c)

\* Every permission of k is for a document the index covers.
Backed(k, c) == \A p \in k.dormant : Covers(c, p.id)

\* `new` covers all that `old` covers.
Ahead(old, new) ==
    /\ old.frontier <= new.frontier
    /\ \A id \in new.unreadable : id < old.frontier => id \in old.unreadable

\* Segments below the frontier, with postings in their own ranges only.
WellFormed(c) ==
    /\ c.frontier <= c.high
    /\ \A s \in c.segs :
          s.last < c.frontier /\ \A p \in s.docs : InRange(p.id, s)

\* Finitely many documents, every one of them allocated.
Allocated(k) ==
    /\ IsFiniteSet(k.live)
    /\ IsFiniteSet(k.dormant)
    /\ \A p \in Potential(k) : p.id < k.next

\* Every catalog view in use is Allocated.
AllocatedInv ==
    \A k \in {disk, selCat} \cup {g.pin : g \in merge} : Allocated(k)

\* What is published is what the writer holds, or a successor of it that is
\* not selected yet or may not be durable.
CatalogInv ==
    /\ Evolves(selCat, disk)
    /\ wr # "committed" /\ ~poisoned => disk = selCat

\* The locks, and what follows from the order in which they are taken.
PhaseInv ==
    /\ \A m, n \in man : m = n
    /\ \A c, d \in cur : c = d
    /\ cur # {} /\ ~damaged => man = cur
    /\ cur = {} => sel = {} /\ merge = {} /\ coverage = {}
    /\ wr \notin {"refresh", "committed"} => coverage = {}
    /\ wr = "attach" => sel = {} /\ merge = {} /\ ~damaged
    /\ wr = "follow" => merge = {}

\* The attached index fits the writer's view and is sound for it, and what a
\* failed publication may have left on disk covers no less.
CurrentInv ==
    /\ \A c \in cur : WellFormed(c) /\ Fits(c, selCat) /\ Sound(c, selCat)
    /\ \A c \in cur, m \in man : Ahead(c, m)

\* The manifest on disk, attached or not, unless an earlier catalog made it.
PublishedInv ==
    \A m \in man :
        /\ WellFormed(m)
        /\ m.inc <= disk.inc
        /\ m.inc = disk.inc => Fits(m, selCat) /\ Sound(m, selCat)

\* The index view that queries pin, and the coverage a refresh was given,
\* never claim more than the index on disk.
SelectedInv ==
    /\ \A c \in sel : c.frontier <= c.high /\ Fits(c, selCat) /\ Sound(c, selCat)
    /\ \A c \in sel, m \in cur : c.seq <= m.seq
    /\ \A c \in sel \cup coverage, m \in cur \cup man : Ahead(c, m)

\* No permission lies where a follow pass has yet to read, except below an
\* empty index that attach has not installed.
DormantInv ==
    /\ \A c \in cur :
          \/ wr = "attach" /\ c.segs = {}
          \/ Backed(disk, c) /\ Backed(selCat, c)
    /\ \A m \in man : m.inc = disk.inc =>
          \/ m.segs = {} /\ (cur = {} \/ wr = "attach")
          \/ Backed(disk, m) /\ Backed(selCat, m)

\* A streaming merge: its pin is a past view, its inputs are still current
\* and disjoint, and no document dormant at the pin lies in them.
MergeInv ==
    \A g \in merge :
        /\ Evolves(g.pin, selCat)
        /\ \A c \in cur : c.frontier <= g.pin.next /\ Backed(g.pin, c)
        /\ \A c \in cur, r \in g.runs : r # {} /\ r \subseteq c.segs
        /\ \A r, t \in g.runs : r # t => r \cap t = {}
        /\ \A p \in g.pin.dormant, r \in g.runs : \A s \in r : ~InRange(p.id, s)

\* An index view pinned by another process stays sound until it has read the
\* catalog, and is sound for the catalog it was paired with.
ReaderInv ==
    /\ \A c \in rdFresh :
          /\ c.frontier <= c.high
          /\ c.inc <= disk.inc
          /\ c.inc = disk.inc => Fits(c, disk) /\ Sound(c, disk)
    /\ \A c \in rdSel, k \in rdCat : Fits(c, k) /\ Sound(c, k)

\* The inductive invariant of the engine: every property above rests on it.
IInv ==
    /\ TypeOK
    /\ AllocatedInv
    /\ CatalogInv
    /\ PhaseInv
    /\ CurrentInv
    /\ PublishedInv
    /\ SelectedInv
    /\ DormantInv
    /\ MergeInv
    /\ ReaderInv

--------------------------------------------------------------------------------
(* What is published passes the checks its readers make of it.  The counts *)
(* of a merged segment are those of the postings it keeps, because         *)
(* postings and live documents in a segment's range are the same, one for  *)
(* each DocId.                                                             *)

\* A DocId names one document of k, live or dormant; a hash names one of each
\* kind, the dormant one the older; and the dormant ones are within the cap.
Proper(k) ==
    /\ \A p, q \in Potential(k) : p.id = q.id => p = q
    /\ \A p, q \in k.live : p.hash = q.hash => p = q
    /\ \A p, q \in k.dormant : p.hash = q.hash => p = q
    /\ \A p \in k.dormant, q \in k.live : p # q /\ (p.hash = q.hash => p.id < q.id)
    /\ Cardinality(k.dormant) <= DormantCap

\* A segment's postings: one for each DocId, within its range, and counted.
Exact(s, unreadable) ==
    /\ IsFiniteSet(s.docs)
    /\ s.count = Cardinality(s.docs)
    /\ \A p \in s.docs : InRange(p.id, s) /\ p.id \notin unreadable
    /\ \A p, q \in s.docs : p.id = q.id => p = q

Valid(m) == IsConsistent(m) /\ \A s \in m.segs : Exact(s, m.unreadable)

\* Every catalog and index view of the writer.
ProperInv == \A k \in {disk, selCat} \cup {g.pin : g \in merge} : Proper(k)

ValidInv == \A m \in man \cup cur \cup sel : Valid(m)

\* The inputs of a streaming merge are contiguous still, and hold the documents
\* live at the pin that lie in them.
InputsInv ==
    \A g \in merge, c \in cur : \A r \in g.runs :
        /\ IsRun(r, c)
        /\ \A s \in r, p \in g.pin.live :
              InRange(p.id, s) /\ p.id \notin c.unreadable => p \in s.docs

\* With IInv an inductive invariant, of which PublishedValid is a consequence.
ChecksInv == ProperInv /\ ValidInv /\ InputsInv
================================================================================
