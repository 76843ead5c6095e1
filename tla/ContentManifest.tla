---------------------------- MODULE ContentManifest ----------------------------
(***************************************************************************)
(* The content index's published state and the three publications that     *)
(* replace it: an empty index, a follow pass and a merge.                  *)
(*                                                                         *)
(*   ferret-index manifest.rs, store.rs, store/follow.rs, store/merging.rs *)
(*                                                                         *)
(* A manifest is a record.  A segment is a range of DocIds, the documents  *)
(* whose postings it holds, each with the content that was indexed, and    *)
(* the document count its entry records.                                   *)
(***************************************************************************)
EXTENDS Documents, FiniteSetsExt

Segment == [first : Nat, last : Nat, docs : SUBSET Document, count : Nat]

Manifest == [inc : Nat, seq : Nat, frontier : Nat, high : Nat,
             segs : SUBSET Segment, unreadable : SUBSET Nat]

\* Manifest::empty
EmptyManifest(inc) ==
    [inc |-> inc, seq |-> 0, frontier |-> 0, high |-> 0,
     segs |-> {}, unreadable |-> {}]

\* Every posting the manifest's segments hold.
Indexed(m) == UNION {s.docs : s \in m.segs}

\* fits_bounds: the index belongs to this catalog view.
Fits(m, k) == m.inc = k.inc /\ m.high <= k.next

\* View::uncovered: the live documents a query must read for itself.
Uncovered(m, k) ==
    {p \in k.live : p.id >= m.frontier \/ p.id \in m.unreadable}

InRange(id, s) == s.first <= id /\ id <= s.last

\* The live documents in some segments' ranges that have postings there.
Survivors(segs, live, unreadable) ==
    {p \in live : p.id \notin unreadable /\ \E s \in segs : InRange(p.id, s)}

\* alive: what a merge will keep of one segment.
Alive(s, live, unreadable) == Cardinality(Survivors({s}, live, unreadable))

\* A variant of Pruned that carries nothing on.
PrunedAll(m, live) == {}

\* The unreadable documents a pass carries on: the catalog dropped the rest.
Pruned(m, live) == m.unreadable \cap Ids(live)

\* manifest_only: an empty index in place of `m`.
Emptied(m, inc) == [EmptyManifest(inc) EXCEPT !.seq = m.seq + 1]

(***************************************************************************)
(* A follow pass over catalog view k.  It reads the live documents from    *)
(* the frontier up in DocId order, and stops before a document (budget,    *)
(* pause, full buffer), after an oversized one, or at the catalog's bound. *)
(***************************************************************************)

Stops(m, k) ==
    {k.next} \cup UNION {{id, id + 1} : id \in {i \in Ids(k.live) : i >= m.frontier}}

Reached(m, k, stop) == {p \in k.live : m.frontier <= p.id /\ p.id < stop}

\* A variant of FollowSegment that takes the faults off the count twice.
FollowSegmentTwice(reached, faults) ==
    [first |-> Min(Ids(reached)), last |-> Max(Ids(reached)),
     docs |-> {p \in reached : p.id \notin faults},
     count |-> Cardinality(reached) - 2 * Cardinality(faults)]

\* `faults` are the reached documents that could not be read with their hash
\* intact.  Those sit in the segment's range without postings.
FollowSegment(reached, faults) ==
    [first |-> Min(Ids(reached)), last |-> Max(Ids(reached)),
     docs |-> {p \in reached : p.id \notin faults},
     count |-> Cardinality({p \in reached : p.id \notin faults})]

\* publish_pass / publish_written
Followed(m, k, stop, faults) ==
    LET reached == Reached(m, k, stop)
    IN  [inc |-> m.inc,
         seq |-> m.seq + 1,
         frontier |-> stop,
         high |-> IF m.high < k.next THEN k.next ELSE m.high,
         segs |-> m.segs \cup (IF reached = {} THEN {}
                               ELSE {FollowSegment(reached, faults)}),
         unreadable |-> Pruned(m, k.live) \cup faults]

\* A pass that read, skipped and pruned nothing publishes nothing.
FollowIdle(m, k, stop) ==
    /\ Reached(m, k, stop) = {}
    /\ stop = m.frontier
    /\ Pruned(m, k.live) = m.unreadable

(***************************************************************************)
(* A merge of the adjacent segments `run`, filtered by the pinned view k.  *)
(***************************************************************************)

\* A run is contiguous in DocId order.
IsRun(run, m) ==
    /\ run # {}
    /\ run \subseteq m.segs
    /\ \A a, b \in run, s \in m.segs :
          a.first <= s.first /\ s.first <= b.first => s \in run

\* A variant of Output whose entry counts the input's postings.
OutputStaleCount(m, run, k) ==
    LET docs == UNION {s.docs : s \in run}
    IN  IF Survivors(run, k.live, Pruned(m, k.live)) = {} THEN {}
        ELSE {[first |-> Min({s.first : s \in run}),
               last  |-> Max({s.last : s \in run}),
               docs  |-> {p \in docs : p.id \in Ids(k.live)},
               count |-> Cardinality(docs)]}

\* merge_run / plan_run / write_run: the replacement of the run, or nothing
\* when no document survives.
Output(m, run, k) ==
    LET unreadable == Pruned(m, k.live)
        survivors  == Survivors(run, k.live, unreadable)
    IN  IF survivors = {} THEN {}
        ELSE {[first |-> Min({s.first : s \in run}),
               last  |-> Max({s.last : s \in run}),
               docs  |-> {p \in UNION {s.docs : s \in run} : p.id \in Ids(k.live)},
               count |-> Cardinality(survivors)]}

\* replace_run
Merged(m, run, k) ==
    [inc |-> m.inc,
     seq |-> m.seq + 1,
     frontier |-> m.frontier,
     high |-> m.high,
     segs |-> (m.segs \ run) \cup Output(m, run, k),
     unreadable |-> Pruned(m, k.live)]

\* Manifest::is_consistent, which every read of the file requires.
IsConsistent(m) ==
    /\ \A s \in m.segs : s.first <= s.last /\ s.last < m.frontier
    /\ \A s, t \in m.segs : s # t => s.last < t.first \/ t.last < s.first
    /\ \A id \in m.unreadable : id < m.frontier
    /\ m.frontier <= m.high
================================================================================
