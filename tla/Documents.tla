------------------------------- MODULE Documents -------------------------------
(***************************************************************************)
(* Document identities of one catalog view: which DocIds are live, which   *)
(* dead ones may come back, and what one catalog transaction does to them. *)
(*                                                                         *)
(*   ferret-crawl   reconcile.rs, reconcile/finish.rs   (ids of a recrawl) *)
(*   ferret-catalog session.rs, dormant.rs, transaction.rs, build.rs       *)
(*                                                                         *)
(* A document is a DocId bound to a content hash.  A catalog view is a     *)
(* record: its incarnation, its sequence, the next unused DocId, the live  *)
(* documents and the dormant ones: the dead documents whose DocId a        *)
(* returning hash may take again.  An Option is a set of at most one       *)
(* element throughout.                                                     *)
(***************************************************************************)
EXTENDS Integers, FiniteSets, Functions

CONSTANTS
    Hash,         \* content hashes
    DormantCap    \* dormant::CAP

ASSUME CapAssumption == DormantCap \in Nat
ASSUME HashAssumption == IsFiniteSet(Hash)

Document == [id : Nat, hash : Hash]

Catalog == [inc : Nat, seq : Nat, next : Nat,
            live : SUBSET Document, dormant : SUBSET Document]

\* Committed coverage as the host hands it to the catalog: dormant::Coverage.
CoverageType == [frontier : Nat, unreadable : SUBSET Nat]

Ids(docs) == {p.id : p \in docs}

Hashes(docs) == {p.hash : p \in docs}

\* The documents that are live or may become live again under their own id.
Potential(k) == k.live \cup k.dormant

\* The first generation of a catalog: Generation::fresh, nothing allocated.
FreshCatalog(inc) ==
    [inc |-> inc, seq |-> 0, next |-> 0, live |-> {}, dormant |-> {}]

\* Coverage::covers
Covers(coverage, id) ==
    id < coverage.frontier /\ id \notin coverage.unreadable

\* canonicalize's cap, and the eviction loop of dormant::prepare: the lowest
\* ids go first.
Newest(docs, cap) ==
    {p \in docs : Cardinality({q \in docs : q.id > p.id}) < cap}

\* WriterSession::returning_document over one recrawl: the dormant documents
\* taken back by the hashes the tree now holds.  A live hash wins, and
\* without host coverage no dormant id is consumed.
Returning(k, coverage, tree) ==
    {p \in k.dormant : coverage # {} /\ p.hash \in tree \ Hashes(k.live)}

\* The hashes of the tree that need a new DocId.
Unknown(k, coverage, tree) ==
    tree \ (Hashes(k.live) \cup Hashes(Returning(k, coverage, tree)))

\* Live documents whose last reference the recrawl removed.
Dying(k, tree) == {p \in k.live : p.hash \notin tree}

\* A variant of Retained that does not ask whether a dying document is covered.
RetainedUncovered(k, coverage, tree) ==
    LET untouched == k.dormant \ Returning(k, coverage, tree)
        eligible  == {p \in Dying(k, tree) : coverage # {}}
        hidden    == {q \in untouched : q.hash \in Hashes(eligible)}
    IN  Newest((untouched \ hidden) \cup eligible, DormantCap)

\* dormant::prepare and Transaction::publish: of the dying documents the
\* covered ones become dormant.  A hash keeps its highest id only.
Retained(k, coverage, tree) ==
    LET untouched == k.dormant \ Returning(k, coverage, tree)
        eligible  == {p \in Dying(k, tree) :
                         \E c \in coverage : Covers(c, p.id)}
        kept      == {p \in eligible : \A q \in untouched :
                         q.hash = p.hash => q.id < p.id}
        revoked   == {q \in untouched : \E p \in kept : q.hash = p.hash}
    IN  IF eligible = {}
        THEN untouched
        ELSE Newest((untouched \ revoked) \cup kept, DormantCap)

\* A transaction with no record publishes nothing and keeps its generation.
Successor(k, new) ==
    IF new = k THEN k ELSE [new EXCEPT !.seq = k.seq + 1]

\* One recrawl that finds exactly the contents `tree`.  `ids` gives the new
\* documents the DocIds from k.next on, without a gap.
Recrawl(k, coverage, tree, ids, last) ==
    Successor(k,
        [k EXCEPT
            !.next = last,
            !.live = {p \in k.live : p.hash \in tree}
                     \cup Returning(k, coverage, tree)
                     \cup {[id |-> ids[h], hash |-> h] : h \in DOMAIN ids},
            !.dormant = Retained(k, coverage, tree)])

\* WriterSession::forget_dormant: durable revocation of some permissions.
ForgetDormant(k, ids) ==
    Successor(k, [k EXCEPT !.dormant = {p \in k.dormant : p.id \notin ids}])

\* WriterSession::clear_dormant
ClearDormant(k) == ForgetDormant(k, Ids(k.dormant))
================================================================================
