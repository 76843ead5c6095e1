------------------------------- MODULE LogProofs -------------------------------
(***************************************************************************)
(* The catalog's files under any number of transactions, checkpoints,      *)
(* failures and power losses: the invariant that every step of the writer  *)
(* and every power loss preserves, and from it the safety properties of    *)
(* CatalogLog and its refinement of CommitHistory.                         *)
(***************************************************************************)
EXTENDS CatalogLog, SequenceTheorems, NaturalsInduction, WellFoundedInduction, TLAPS

Entries == Tx \cup {Torn}

AtMostOne(S) == \A a, b \in S : a = b

\* Two logs hold the same first k transactions.
AgreeOn(c, d, k) == k <= Len(c) /\ k <= Len(d) /\ \A i \in 1 .. k : c[i] = d[i]

Shown(m) == ViewOf(m, snap[m.cp], log[m.cp])

\* A manifest's files are in place and durable, and the prefix of the log
\* that it names is whole and has reached the disk.
Backed(m) ==
  /\ Pair(m.cp) \subseteq names \cap stNames
  /\ Checks(m, snap[m.cp], log[m.cp])
  /\ AgreeOn(log[m.cp], synced[m.cp], m.end)

\* A power loss keeps one of two manifests; the older one's log, when they
\* share it, is a prefix of the newer one's.
FileInv ==
  /\ AtMostOne(cur) /\ AtMostOne(stCur)
  /\ cur = {} => stCur = {}
  /\ \A m \in cur \cup stCur : Backed(m)
  /\ \A m \in cur, s \in stCur : s.cp = m.cp => s.end <= m.end

\* A writer that has taken over: its manifest is published and durable.
Settled == cur = {mem} /\ stCur = {mem} /\ view = Shown(mem)

Extends(v, w) == v = w \/ \E t \in Tx : v = Append(w, t)

\* The publication in progress appends one transaction.
Appending ==
  /\ job.kind = "append"
  /\ job.man = [mem EXCEPT !.seq = @ + 1, !.end = @ + 1]
  /\ \E t \in Tx : job.view = Append(view, t)

\* The transaction is in the log, behind the prefix of the manifest.
Appended ==
  /\ Len(log[mem.cp]) = mem.end + 1
  /\ log[mem.cp][mem.end + 1] = job.view[Len(job.view)]

\* The publication in progress makes a pair that no manifest names yet.
Pairing ==
  /\ job.man.end = 0 /\ job.man.seq = Len(job.view)
  /\ \/ /\ job.kind \in {"checkpoint", "rebuild"}
        /\ Settled /\ mem.cp < job.man.cp
        /\ Extends(job.view, view)
     \/ /\ job.kind = "create"
        /\ cur = {} /\ stCur = {} /\ job.view = <<>>

PairWritten ==
  /\ Pair(job.man.cp) \subseteq names
  /\ snap[job.man.cp] = job.view
  /\ log[job.man.cp] = <<>> /\ synced[job.man.cp] = <<>>

\* The writer has adopted the published manifest, but not yet accepted it.
Adopting == cur = {job.man} /\ job.view = Shown(job.man)

\* How the writer's own state is related to the files at each of its steps.
WriterInv ==
  /\ nextTx # 0
  /\ pc = "idle" => Settled
  /\ pc = "append" => Settled /\ Appending
  /\ pc = "logsync" => Settled /\ Appending /\ Appended
  /\ pc \in {"snapshot", "header", "pairsync"} => Pairing
  /\ pc = "header" => <<"snapshot", job.man.cp>> \in names /\ snap[job.man.cp] = job.view
  /\ pc = "pairsync" => PairWritten
  /\ pc = "manifest" =>
        \/ Settled /\ Appending /\ Appended /\ synced[mem.cp] = log[mem.cp]
        \/ Pairing /\ PairWritten /\ Pair(job.man.cp) \subseteq stNames
  /\ pc = "dirsync" =>
        /\ Adopting
        /\ job.kind \in {"append", "checkpoint", "rebuild", "create"}
        /\ job.kind = "rebuild" => mem.cp # job.man.cp
  /\ pc \in {"truncsync", "opensync"} => Adopting /\ job.kind = "open"
  /\ pc = "cleanup" =>
        /\ Adopting /\ stCur = {job.man}
        /\ job.kind = "rebuild" => mem.cp # job.man.cp

Leads(v, w) == Len(v) <= Len(w) /\ SubSeq(w, 1, Len(v)) = v

\* Between two power losses the published checkpoint only grows, so what a
\* reader's manifest names is intact or replaced by a later one.
ReaderInv ==
  /\ AtMostOne(rdMan)
  /\ rdPc \in {"manifest", "snapshot", "missing"} => rdMan # {}
  /\ \A r \in rdMan :
        /\ cur # {}
        /\ Checks(r, snap[r.cp], log[r.cp])
        /\ \A m \in cur : /\ r.cp <= m.cp
                          /\ r.cp = m.cp => r.end <= m.end
                          /\ Leads(Shown(r), Shown(m))
        /\ rdPc = "snapshot" => rdSnap = snap[r.cp]
        /\ rdPc = "missing" => \A m \in cur : m.cp # r.cp
        /\ \A v \in rdView : Leads(v, Shown(r))
  /\ rdView # {} => rdMan # {}
  /\ ReaderNeverFails

LogInv == TypeOK /\ FileInv /\ WriterInv /\ ReaderInv

--------------------------------------------------------------------------------
(* Sequences: prefixes, views and torn logs.                               *)

\* What a view holds, when the manifest's prefix of the log is whole.
LEMMA ViewFacts ==
  ASSUME NEW m \in Published, NEW s \in Seq(Tx), NEW c \in Seq(Entries), Checks(m, s, c)
  PROVE  /\ ViewOf(m, s, c) \in Seq(Tx)
         /\ Len(ViewOf(m, s, c)) = Len(s) + m.end
         /\ \A i \in 1 .. Len(s) : ViewOf(m, s, c)[i] = s[i]
         /\ \A i \in 1 .. m.end : ViewOf(m, s, c)[Len(s) + i] = c[i]
<1> DEFINE d == SubSeq(c, 1, m.end)
<1>1. m.end \in Nat /\ m.end <= Len(c) /\ Len(s) \in Nat /\ Len(c) \in Nat
  BY DEF Checks, Published
<1>2. \A i \in 1 .. m.end : c[i] \in Tx
  <2> TAKE i \in 1 .. m.end
  <2>1. i \in 1 .. Len(c)
    BY <1>1
  <2>2. c[i] \in Entries /\ c[i] # Torn
    BY <2>1 DEF Checks
  <2> QED BY <2>2 DEF Entries
<1>3. d \in Seq(Tx) /\ Len(d) = m.end /\ \A i \in 1 .. m.end : d[i] = c[i]
  BY <1>1, <1>2, SubSeqProperties, SMT
<1> HIDE DEF d
<1>4. /\ s \o d \in Seq(Tx)
      /\ Len(s \o d) = Len(s) + Len(d)
      /\ \A i \in 1 .. Len(s) + Len(d) :
            (s \o d)[i] = IF i <= Len(s) THEN s[i] ELSE d[i - Len(s)]
  BY <1>3, ConcatProperties
<1>5. ViewOf(m, s, c) = s \o d
  BY DEF ViewOf, d
<1>6. \A i \in 1 .. Len(s) : (s \o d)[i] = s[i]
  BY <1>1, <1>3, <1>4
<1>7. \A i \in 1 .. m.end : (s \o d)[Len(s) + i] = c[i]
  <2> TAKE i \in 1 .. m.end
  <2>1. Len(s) + i \in 1 .. Len(s) + Len(d) /\ ~(Len(s) + i <= Len(s))
    BY <1>1, <1>3
  <2>2. (s \o d)[Len(s) + i] = d[(Len(s) + i) - Len(s)]
    BY <1>4, <2>1
  <2>3. (Len(s) + i) - Len(s) = i
    BY <1>1
  <2> QED BY <1>3, <2>2, <2>3
<1> QED BY <1>3, <1>4, <1>5, <1>6, <1>7

\* A manifest says the same of two logs that agree on its prefix.
LEMMA Agreeing ==
  ASSUME NEW m \in Published, NEW s \in Seq(Tx),
         NEW c \in Seq(Entries), NEW d \in Seq(Entries),
         AgreeOn(c, d, m.end), Checks(m, s, c)
  PROVE  Checks(m, s, d) /\ ViewOf(m, s, d) = ViewOf(m, s, c)
<1>1. Checks(m, s, d)
  BY DEF Checks, AgreeOn
<1> DEFINE v == ViewOf(m, s, c)
           w == ViewOf(m, s, d)
<1>2. /\ v \in Seq(Tx) /\ Len(v) = Len(s) + m.end
      /\ \A i \in 1 .. Len(s) : v[i] = s[i]
      /\ \A i \in 1 .. m.end : v[Len(s) + i] = c[i]
  BY ViewFacts
<1>3. /\ w \in Seq(Tx) /\ Len(w) = Len(s) + m.end
      /\ \A i \in 1 .. Len(s) : w[i] = s[i]
      /\ \A i \in 1 .. m.end : w[Len(s) + i] = d[i]
  BY <1>1, ViewFacts
<1>4. m.end \in Nat /\ Len(s) \in Nat /\ \A i \in 1 .. m.end : c[i] = d[i]
  BY DEF AgreeOn, Published
<1> HIDE DEF v, w
<1>5. \A i \in 1 .. Len(w) : w[i] = v[i]
  <2> TAKE i \in 1 .. Len(w)
  <2>1. CASE i <= Len(s)
    BY <2>1, <1>2, <1>3, <1>4
  <2>2. CASE ~(i <= Len(s))
    <3>1. i - Len(s) \in 1 .. m.end /\ i = Len(s) + (i - Len(s))
      BY <2>2, <1>3, <1>4
    <3>2. w[Len(s) + (i - Len(s))] = v[Len(s) + (i - Len(s))]
      BY <3>1, <1>2, <1>3, <1>4
    <3> QED BY <3>1, <3>2
  <2> QED BY <2>1, <2>2
<1>6. w = v
  BY <1>2, <1>3, <1>5, SeqEqual
<1> QED BY <1>1, <1>6 DEF v, w

\* A log with one transaction more shows one transaction more.
LEMMA ViewAppend ==
  ASSUME NEW m \in Published, NEW n \in Published, NEW s \in Seq(Tx), NEW c \in Seq(Entries),
         Checks(m, s, c), Len(c) = m.end + 1, c[m.end + 1] \in Tx,
         n.seq = m.seq + 1, n.end = m.end + 1
  PROVE  Checks(n, s, c) /\ ViewOf(n, s, c) = Append(ViewOf(m, s, c), c[m.end + 1])
<1> DEFINE v == ViewOf(m, s, c)
           w == ViewOf(n, s, c)
           t == c[m.end + 1]
<1>1. m.end \in Nat /\ Len(s) \in Nat /\ m.seq \in Nat
  BY DEF Published
<1>2. Checks(n, s, c)
  <2>1. \A i \in 1 .. n.end : c[i] # Torn
    <3> TAKE i \in 1 .. n.end
    <3>1. CASE i \in 1 .. m.end
      BY <3>1 DEF Checks
    <3>2. CASE i = m.end + 1
      BY <3>2 DEF Tx, Torn
    <3> QED BY <3>1, <3>2, <1>1
  <2> QED BY <2>1, <1>1 DEF Checks
<1>3. /\ v \in Seq(Tx) /\ Len(v) = Len(s) + m.end
      /\ \A i \in 1 .. Len(s) : v[i] = s[i]
      /\ \A i \in 1 .. m.end : v[Len(s) + i] = c[i]
  BY ViewFacts
<1>4. /\ w \in Seq(Tx) /\ Len(w) = Len(s) + m.end + 1
      /\ \A i \in 1 .. Len(s) : w[i] = s[i]
      /\ \A i \in 1 .. m.end + 1 : w[Len(s) + i] = c[i]
  BY <1>1, <1>2, ViewFacts
<1> HIDE DEF v, w
<1>5. /\ Append(v, t) \in Seq(Tx) /\ Len(Append(v, t)) = Len(v) + 1
      /\ \A i \in 1 .. Len(v) : Append(v, t)[i] = v[i]
      /\ Append(v, t)[Len(v) + 1] = t
  BY <1>3, AppendProperties
<1>6. \A i \in 1 .. Len(w) : w[i] = Append(v, t)[i]
  <2> TAKE i \in 1 .. Len(w)
  <2>1. CASE i <= Len(s)
    BY <2>1, <1>1, <1>3, <1>4, <1>5
  <2>2. CASE ~(i <= Len(s)) /\ i <= Len(s) + m.end
    <3>1. i - Len(s) \in 1 .. m.end /\ i = Len(s) + (i - Len(s))
      BY <2>2, <1>1, <1>4
    <3>2. w[Len(s) + (i - Len(s))] = v[Len(s) + (i - Len(s))]
      BY <3>1, <1>1, <1>3, <1>4
    <3>3. i \in 1 .. Len(v)
      BY <2>2, <1>1, <1>3, <1>4
    <3> QED BY <3>1, <3>2, <3>3, <1>5
  <2>3. CASE i = Len(s) + m.end + 1
    <3>1. m.end + 1 \in 1 .. m.end + 1 /\ i = Len(s) + (m.end + 1)
      <4> DEFINE a == Len(s)
                 b == m.end
      <4>1. a \in Nat /\ b \in Nat /\ i = a + b + 1
        BY <1>1, <2>3
      <4> HIDE DEF a, b
      <4>2. b + 1 \in 1 .. b + 1 /\ i = a + (b + 1)
        BY <4>1
      <4> QED BY <4>2 DEF a, b
    <3>2. w[Len(s) + (m.end + 1)] = t
      BY <3>1, <1>4
    <3>3. i = Len(v) + 1
      BY <2>3, <1>3
    <3> QED BY <3>1, <3>2, <3>3, <1>5
  <2>4. i \in Nat /\ i <= (Len(s) + m.end) + 1
    BY <1>1, <1>4
  <2>5. i <= Len(s) + m.end \/ i = (Len(s) + m.end) + 1
    BY <2>4, <1>1
  <2> QED BY <2>1, <2>2, <2>3, <2>5
<1>7. w = Append(v, t)
  <2>1. Len(w) = Len(Append(v, t))
    BY <1>1, <1>3, <1>4, <1>5
  <2> HIDE DEF t
  <2> QED BY <1>4, <1>5, <1>6, <2>1, SeqEqual
<1> QED BY <1>2, <1>7 DEF v, w, t

\* Cutting a log and adding to it leave what is before the cut.
LEMMA CutFacts ==
  ASSUME NEW c \in Seq(Entries), NEW k \in Nat, k <= Len(c), NEW e \in Entries
  PROVE  /\ SubSeq(c, 1, k) \in Seq(Entries)
         /\ Len(SubSeq(c, 1, k)) = k
         /\ \A j \in Nat : j <= k => AgreeOn(c, SubSeq(c, 1, k), j)
         /\ Append(SubSeq(c, 1, k), e) \in Seq(Entries)
         /\ Len(Append(SubSeq(c, 1, k), e)) = k + 1
         /\ Append(SubSeq(c, 1, k), e)[k + 1] = e
         /\ \A j \in Nat : j <= k => AgreeOn(c, Append(SubSeq(c, 1, k), e), j)
<1> DEFINE d == SubSeq(c, 1, k)
<1>1. \A i \in 1 .. k : c[i] \in Entries
  OBVIOUS
<1>2. d \in Seq(Entries) /\ Len(d) = k /\ \A i \in 1 .. k : d[i] = c[i]
  BY <1>1, SubSeqProperties, SMT
<1> HIDE DEF d
<1>3. /\ Append(d, e) \in Seq(Entries) /\ Len(Append(d, e)) = k + 1
      /\ \A i \in 1 .. k : Append(d, e)[i] = d[i]
      /\ Append(d, e)[k + 1] = e
  BY <1>2, AppendProperties
<1>4. \A j \in Nat : j <= k => AgreeOn(c, d, j)
  BY <1>2 DEF AgreeOn
<1>5. \A j \in Nat : j <= k => AgreeOn(c, Append(d, e), j)
  BY <1>2, <1>3 DEF AgreeOn
<1> QED BY <1>2, <1>3, <1>4, <1>5 DEF d

\* A nonempty bounded set of naturals has a greatest member.
LEMMA Greatest ==
  ASSUME NEW S, S \subseteq Nat, S # {}, NEW n \in Nat, \A x \in S : x <= n
  PROVE  \E k \in S : \A i \in S : i <= k
<1> DEFINE R == OpToRel(<, Nat)
           T == {n - x : x \in S}
<1>a. T \subseteq Nat
  OBVIOUS
<1>b. T # {}
  OBVIOUS
<1>1. T \subseteq Nat /\ T # {}
  BY <1>a, <1>b
<1>2. IsWellFoundedOn(R, Nat)
  BY NatLessThanWellFounded
<1>3. PICK t \in T : \A u \in T : ~ (<<u, t>> \in R)
  <2> HIDE DEF R, T
  <2> QED BY <1>1, <1>2, WFMin
<1>4. PICK k \in S : t = n - k
  OBVIOUS
<1>5. \A i \in S : i <= k
  <2> TAKE i \in S
  <2>1. n - i \in T /\ n - i \in Nat /\ t \in Nat
    BY <1>1
  <2>2. ~ (n - i < t)
    BY <2>1, <1>3 DEF OpToRel
  <2> QED BY <2>2, <1>4
<1> QED BY <1>5

\* A torn log keeps all that the log and its last sync agree on.
LEMMA TornFacts ==
  ASSUME NEW n, log[n] \in Seq(Entries), synced[n] \in Seq(Entries)
  PROVE  /\ TornLog(n) \in Seq(Entries)
         /\ \A j \in Nat : AgreeOn(log[n], synced[n], j) => AgreeOn(log[n], TornLog(n), j)
<1> DEFINE c == log[n]
           d == synced[n]
           same == {k \in 0 .. Len(c) : k <= Len(d) /\ SubSeq(c, 1, k) = SubSeq(d, 1, k)}
           g == CHOOSE k \in same : \A i \in same : i <= k
<1>1. c \in Seq(Entries) /\ d \in Seq(Entries) /\ Len(c) \in Nat /\ Len(d) \in Nat
  OBVIOUS
<1>2. TornLog(n) = Append(SubSeq(c, 1, g), Torn)
  BY DEF TornLog
<1> HIDE DEF c, d
<1>3. 0 \in same
  <2>1. SubSeq(c, 1, 0) = <<>> /\ SubSeq(d, 1, 0) = <<>>
    BY SubSeqEmpty, SMT
  <2> QED BY <2>1, <1>1
<1>4. same \subseteq Nat /\ \A x \in same : x <= Len(c)
  BY <1>1
<1>5. \E k \in same : \A i \in same : i <= k
  <2> HIDE DEF same
  <2> QED BY <1>1, <1>3, <1>4, Greatest
<1>6. g \in same /\ \A i \in same : i <= g
  <2> HIDE DEF same
  <2> QED BY <1>5
<1> HIDE DEF g
<1>7. g \in Nat /\ g <= Len(c)
  BY <1>6, <1>1
<1>8. Torn \in Entries
  BY DEF Entries
<1>9. /\ Append(SubSeq(c, 1, g), Torn) \in Seq(Entries)
      /\ \A j \in Nat : j <= g => AgreeOn(c, Append(SubSeq(c, 1, g), Torn), j)
  BY <1>1, <1>7, <1>8, CutFacts
<1>10. ASSUME NEW j \in Nat, AgreeOn(c, d, j)
       PROVE  j <= g
  <2>1. j <= Len(c) /\ j <= Len(d) /\ \A i \in 1 .. j : c[i] = d[i]
    BY <1>10 DEF AgreeOn
  <2>2. /\ SubSeq(c, 1, j) \in Seq(Entries) /\ Len(SubSeq(c, 1, j)) = j
        /\ AgreeOn(c, SubSeq(c, 1, j), j)
    BY <1>1, <1>8, <2>1, CutFacts
  <2>3. /\ SubSeq(d, 1, j) \in Seq(Entries) /\ Len(SubSeq(d, 1, j)) = j
        /\ AgreeOn(d, SubSeq(d, 1, j), j)
    BY <1>1, <1>8, <2>1, CutFacts
  <2>4. \A i \in 1 .. j : SubSeq(c, 1, j)[i] = SubSeq(d, 1, j)[i]
    BY <2>1, <2>2, <2>3 DEF AgreeOn
  <2>5. SubSeq(c, 1, j) = SubSeq(d, 1, j)
    BY <2>2, <2>3, <2>4, SeqEqual
  <2>6. j \in same
    BY <2>1, <2>5, <1>1
  <2> HIDE DEF same
  <2> QED BY <2>6, <1>6
<1>11. \A j \in Nat : AgreeOn(c, d, j) => AgreeOn(c, Append(SubSeq(c, 1, g), Torn), j)
  BY <1>9, <1>10
<1> QED BY <1>2, <1>9, <1>11 DEF c, d

\* A prefix, element by element.
LEMMA LeadsPoint ==
  ASSUME NEW v \in Seq(Tx), NEW w \in Seq(Tx)
  PROVE  Leads(v, w) <=> Len(v) <= Len(w) /\ \A i \in 1 .. Len(v) : w[i] = v[i]
<1> SUFFICES ASSUME Len(v) <= Len(w)
             PROVE  SubSeq(w, 1, Len(v)) = v <=> \A i \in 1 .. Len(v) : w[i] = v[i]
  BY DEF Leads
<1> DEFINE u == SubSeq(w, 1, Len(v))
<1>1. Len(v) \in Nat /\ Len(w) \in Nat /\ \A i \in 1 .. Len(v) : w[i] \in Tx
  OBVIOUS
<1>2. u \in Seq(Tx) /\ Len(u) = Len(v) /\ \A i \in 1 .. Len(v) : u[i] = w[i]
  BY <1>1, SubSeqProperties, SMT
<1> HIDE DEF u
<1>3. ASSUME \A i \in 1 .. Len(v) : w[i] = v[i]
      PROVE  u = v
  <2>1. \A i \in 1 .. Len(u) : u[i] = v[i]
    BY <1>2, <1>3
  <2> QED BY <1>2, <2>1, SeqEqual
<1>4. ASSUME u = v
      PROVE  \A i \in 1 .. Len(v) : w[i] = v[i]
  BY <1>2, <1>4
<1> QED BY <1>3, <1>4 DEF u

\* Prefixes of prefixes, and of what extends them.
LEMMA LeadsTrans ==
  ASSUME NEW u \in Seq(Tx), NEW v \in Seq(Tx), NEW w \in Seq(Tx), Leads(u, v), Leads(v, w)
  PROVE  Leads(u, w)
<1>1. Len(u) <= Len(v) /\ \A i \in 1 .. Len(u) : v[i] = u[i]
  BY LeadsPoint
<1>2. Len(v) <= Len(w) /\ \A i \in 1 .. Len(v) : w[i] = v[i]
  BY LeadsPoint
<1>3. Len(u) \in Nat /\ Len(v) \in Nat /\ Len(w) \in Nat
  OBVIOUS
<1>4. Len(u) <= Len(w) /\ \A i \in 1 .. Len(u) : w[i] = u[i]
  BY <1>1, <1>2, <1>3
<1> QED BY <1>4, LeadsPoint

\* A history leads to its own extensions.
LEMMA LeadsExtends ==
  ASSUME NEW v \in Seq(Tx), NEW w \in Seq(Tx), Extends(w, v)
  PROVE  Leads(v, w)
<1>1. CASE w = v
  BY <1>1, LeadsPoint
<1>2. CASE \E t \in Tx : w = Append(v, t)
  <2>1. PICK t \in Tx : w = Append(v, t)
    BY <1>2
  <2>2. Len(w) = Len(v) + 1 /\ \A i \in 1 .. Len(v) : w[i] = v[i]
    BY <2>1, AppendProperties
  <2> QED BY <2>2, LeadsPoint
<1> QED BY <1>1, <1>2 DEF Extends

--------------------------------------------------------------------------------
(* Types.                                                                  *)

\* The manifest of an empty catalog, and one that counts one more.
LEMMA ManifestTypes ==
  /\ NoManifest \in Published
  /\ \A m \in Published : [m EXCEPT !.seq = @ + 1, !.end = @ + 1] \in Published
  /\ \A n \in Checkpoint, k \in Nat : [cp |-> n, seq |-> k, end |-> 0] \in Published
<1>1. 0 \in Checkpoint
  BY LogBoundsAssumption DEF Checkpoint
<1>2. NoManifest \in Published
  BY <1>1 DEF NoManifest, Published
<1>3. ASSUME NEW m \in Published
      PROVE  [m EXCEPT !.seq = @ + 1, !.end = @ + 1] \in Published
  <2> DEFINE n == [m EXCEPT !.seq = @ + 1]
  <2>1. n \in Published
    BY DEF Published
  <2>2. [n EXCEPT !.end = @ + 1] \in Published
    <3> HIDE DEF n
    <3> QED BY <2>1 DEF Published
  <2>3. [m EXCEPT !.seq = @ + 1, !.end = @ + 1] = [n EXCEPT !.end = @ + 1]
    BY SMT DEF Published
  <2> QED BY <2>2, <2>3
<1>4. ASSUME NEW n \in Checkpoint, NEW k \in Nat
      PROVE  [cp |-> n, seq |-> k, end |-> 0] \in Published
  BY DEF Published
<1> QED BY <1>2, <1>3, <1>4

\* The empty job has its type.
LEMMA NoJobType ==
  NoJob \in [kind : {"open", "append", "checkpoint", "rebuild", "create"},
             man : Published, view : Seq(Tx)]
<1>1. NoManifest \in Published
  BY ManifestTypes
<1>2. <<>> \in Seq(Tx)
  OBVIOUS
<1> QED BY <1>1, <1>2 DEF NoJob

\* Types: a writer that dies or gives up.
LEMMA DownTypes ==
  ASSUME Down
  PROVE  /\ pc' \in {"down", "idle"} /\ mem' \in Published /\ view' \in Seq(Tx)
         /\ job' \in [kind : {"open", "append", "checkpoint", "rebuild", "create"},
                      man : Published, view : Seq(Tx)]
<1>1. NoManifest \in Published
  BY ManifestTypes
<1>2. <<>> \in Seq(Tx)
  OBVIOUS
<1> QED BY <1>1, <1>2, NoJobType DEF Down

\* Types: a writer that accepts a view.
LEMMA AcceptTypes ==
  ASSUME NEW m \in Published, NEW v \in Seq(Tx), Accept(m, v)
  PROVE  /\ pc' \in {"down", "idle"} /\ mem' \in Published /\ view' \in Seq(Tx)
         /\ job' \in [kind : {"open", "append", "checkpoint", "rebuild", "create"},
                      man : Published, view : Seq(Tx)]
BY NoJobType DEF Accept

\* Types: the job of a new pair.
LEMMA PairTypes ==
  ASSUME NEW kind \in {"checkpoint", "rebuild", "create"}, NEW from, NEW new \in Seq(Tx),
         BeginPair(kind, from, new)
  PROVE  job' \in [kind : {"open", "append", "checkpoint", "rebuild", "create"},
                   man : Published, view : Seq(Tx)]
<1>1. PICK n \in Checkpoint :
        job' = [kind |-> kind, man |-> [cp |-> n, seq |-> Len(new), end |-> 0], view |-> new]
  BY DEF BeginPair
<1>2. [cp |-> n, seq |-> Len(new), end |-> 0] \in Published
  <2>1. Len(new) \in Nat
    OBVIOUS
  <2> QED BY <2>1, ManifestTypes
<1> QED BY <1>1, <1>2

\* Every name of a checkpoint's files is one.
LEMMA PairNames ==
  \A n \in Checkpoint : /\ Pair(n) \subseteq Name
                        /\ <<"snapshot", n>> \in Pair(n) /\ <<"changes", n>> \in Pair(n)
BY DEF Name, Pair

\* Every step keeps the types.
LEMMA TypeStep ==
  ASSUME LogInv, Next
  PROVE  TypeOK'
<1> USE DEF LogInv
<1>1. /\ view \in Seq(Tx) /\ mem \in Published /\ job.man \in Published /\ job.view \in Seq(Tx)
      /\ mem.cp \in Checkpoint /\ job.man.cp \in Checkpoint /\ mem.end \in Nat
  BY DEF TypeOK, Published
<1>2. CASE BeginAppend
  <2>1. nextTx \in Tx
    BY <1>2 DEF BeginAppend, TypeOK, WriterInv, Tx
  <2>2. Append(view, nextTx) \in Seq(Tx)
    BY <1>1, <2>1, AppendProperties
  <2>3. job' \in [kind : {"open", "append", "checkpoint", "rebuild", "create"},
                  man : Published, view : Seq(Tx)]
    BY <1>1, <1>2, <2>2, ManifestTypes DEF BeginAppend
  <2> QED BY <1>2, <2>3 DEF BeginAppend, TypeOK, fileVars, readerVars
<1>3. CASE WriteLog
  <2>1. \A e \in Entries : Append(SubSeq(log[mem.cp], 1, mem.end), e) \in Seq(Entries)
    <3>1. Settled
      BY <1>3 DEF WriteLog, WriterInv
    <3>2. log[mem.cp] \in Seq(Entries) /\ mem.end <= Len(log[mem.cp])
      BY <3>1, <1>1 DEF Settled, FileInv, Backed, Checks, TypeOK, Entries
    <3> QED BY <3>2, <1>1, CutFacts
  <2>2. job.view[Len(job.view)] \in Entries
    <3>1. PICK t \in Tx : job.view = Append(view, t)
      BY <1>3 DEF WriteLog, WriterInv, Appending
    <3>2. job.view[Len(job.view)] = t
      BY <1>1, <3>1, AppendProperties
    <3> QED BY <3>2 DEF Entries
  <2>3. Torn \in Entries
    BY DEF Entries
  <2>4. log' \in [Checkpoint -> Seq(Entries)]
    BY <1>1, <1>3, <2>1, <2>2, <2>3 DEF WriteLog, TypeOK, Entries
  <2>5. failures' \in Nat
    BY <1>3 DEF WriteLog, Failing, TypeOK
  <2>6. /\ pc' \in {"down", "idle", "logsync"} /\ mem' \in Published /\ view' \in Seq(Tx)
        /\ job' \in [kind : {"open", "append", "checkpoint", "rebuild", "create"},
                     man : Published, view : Seq(Tx)]
    BY <1>3, DownTypes DEF WriteLog, TypeOK
  <2> QED BY <1>3, <2>4, <2>5, <2>6 DEF WriteLog, TypeOK, Entries, readerVars
<1>4. CASE SyncLog
  BY <1>1, <1>4 DEF SyncLog, TypeOK, readerVars
<1>5. CASE RenameManifest
  BY <1>1, <1>5 DEF RenameManifest, TypeOK, readerVars
<1>6. CASE SyncDirectory
  <2>1. /\ pc' \in {"down", "idle", "cleanup"} /\ mem' \in Published /\ view' \in Seq(Tx)
        /\ job' \in [kind : {"open", "append", "checkpoint", "rebuild", "create"},
                     man : Published, view : Seq(Tx)]
    BY <1>1, <1>6, DownTypes, AcceptTypes DEF SyncDirectory, TypeOK
  <2> QED BY <1>6, <2>1 DEF SyncDirectory, TypeOK, readerVars
<1>7. CASE BeginCheckpoint \/ BeginRebuild \/ BeginCreate
  <2>1. nextTx <= MaxTx => Append(view, nextTx) \in Seq(Tx)
    <3>1. nextTx <= MaxTx => nextTx \in Tx
      BY DEF TypeOK, WriterInv, Tx
    <3> QED BY <1>1, <3>1, AppendProperties
  <2>2. <<>> \in Seq(Tx)
    OBVIOUS
  <2>3. /\ job' \in [kind : {"open", "append", "checkpoint", "rebuild", "create"},
                     man : Published, view : Seq(Tx)]
        /\ pc' = "snapshot" /\ nextTx' \in Nat
        /\ UNCHANGED <<fileVars, mem, view, failures, readerVars>>
    <3>1. CASE BeginCheckpoint
      <4>1. PICK new \in {view, Append(view, nextTx)} :
              /\ BeginPair("checkpoint", mem.cp + 1, new)
              /\ new \in Seq(Tx)
              /\ nextTx' \in {nextTx, nextTx + 1}
        BY <3>1, <1>1, <2>1 DEF BeginCheckpoint
      <4>2. job' \in [kind : {"open", "append", "checkpoint", "rebuild", "create"},
                      man : Published, view : Seq(Tx)]
        BY <4>1, PairTypes
      <4> QED BY <4>1, <4>2 DEF BeginPair, TypeOK
    <3>2. CASE BeginRebuild
      <4>1. job' \in [kind : {"open", "append", "checkpoint", "rebuild", "create"},
                      man : Published, view : Seq(Tx)]
        BY <3>2, <2>1, PairTypes DEF BeginRebuild
      <4> QED BY <3>2, <4>1 DEF BeginRebuild, BeginPair, TypeOK
    <3>3. CASE BeginCreate
      <4>1. job' \in [kind : {"open", "append", "checkpoint", "rebuild", "create"},
                      man : Published, view : Seq(Tx)]
        BY <3>3, <2>2, PairTypes DEF BeginCreate
      <4> QED BY <3>3, <4>1 DEF BeginCreate, BeginPair, TypeOK
    <3> QED BY <1>7, <3>1, <3>2, <3>3
  <2> QED BY <2>3 DEF TypeOK, fileVars, readerVars
<1>8. CASE RenameSnapshot
  <2>1. names' \subseteq Name
    BY <1>1, <1>8, PairNames DEF RenameSnapshot, TypeOK
  <2> QED BY <1>1, <1>8, <2>1 DEF RenameSnapshot, TypeOK, readerVars
<1>9. CASE RenameHeader
  <2>1. names' \subseteq Name
    BY <1>1, <1>9, PairNames DEF RenameHeader, TypeOK
  <2> QED BY <1>1, <1>9, <2>1 DEF RenameHeader, TypeOK, readerVars
<1>10. CASE SyncPair
  BY <1>10 DEF SyncPair, TypeOK, readerVars
<1>11. CASE Stop
  BY <1>11, DownTypes DEF Stop, Failing, TypeOK, fileVars, readerVars
<1>12. CASE RebuildFail
  <2>1. Accept(mem, view)
    BY <1>12 DEF RebuildFail
  <2>2. /\ pc' \in {"down", "idle"} /\ mem' \in Published /\ view' \in Seq(Tx)
        /\ job' \in [kind : {"open", "append", "checkpoint", "rebuild", "create"},
                     man : Published, view : Seq(Tx)]
    BY <1>1, <2>1, AcceptTypes
  <2> QED BY <1>12, <2>2 DEF RebuildFail, Failing, TypeOK, fileVars, readerVars
<1>13. CASE Open
  <2>1. PICK m \in cur :
          /\ Checks(m, snap[m.cp], log[m.cp])
          /\ job' = [kind |-> "open", man |-> m, view |-> ViewOf(m, snap[m.cp], log[m.cp])]
          /\ log' = [log EXCEPT ![m.cp] = SubSeq(@, 1, m.end)]
          /\ pc' \in {"truncsync", "opensync"}
    BY <1>13 DEF Open
  <2>2. m \in Published /\ m.cp \in Checkpoint /\ m.end \in Nat
    BY DEF TypeOK, Published
  <2>3. snap[m.cp] \in Seq(Tx) /\ log[m.cp] \in Seq(Entries) /\ m.end <= Len(log[m.cp])
    BY <2>1, <2>2 DEF TypeOK, Entries, Checks
  <2>4. ViewOf(m, snap[m.cp], log[m.cp]) \in Seq(Tx)
    BY <2>1, <2>2, <2>3, ViewFacts
  <2>5. SubSeq(log[m.cp], 1, m.end) \in Seq(Entries)
    <3>1. Torn \in Entries
      BY DEF Entries
    <3> QED BY <2>2, <2>3, <3>1, CutFacts
  <2>6. log' \in [Checkpoint -> Seq(Entries)]
    BY <2>1, <2>2, <2>5 DEF TypeOK, Entries
  <2>7. job' \in [kind : {"open", "append", "checkpoint", "rebuild", "create"},
                  man : Published, view : Seq(Tx)]
    BY <2>1, <2>2, <2>4
  <2> QED BY <1>13, <2>1, <2>6, <2>7 DEF Open, TypeOK, Entries, readerVars
<1>14. CASE SyncTruncated
  BY <1>1, <1>14 DEF SyncTruncated, TypeOK, readerVars
<1>15. CASE SyncOpened
  BY <1>15 DEF SyncOpened, TypeOK, readerVars
<1>16. CASE Remove
  BY <1>16 DEF Remove, TypeOK, writerVars, readerVars
<1>17. CASE Ready
  BY <1>1, <1>17, AcceptTypes DEF Ready, TypeOK, fileVars, readerVars
<1>18. CASE PowerLoss
  <2>1. log' \in [Checkpoint -> Seq(Entries)]
    <3>1. \A n \in Checkpoint : log[n] \in Seq(Entries) /\ synced[n] \in Seq(Entries)
      BY DEF TypeOK, Entries
    <3>2. \A n \in Checkpoint : TornLog(n) \in Seq(Entries)
      BY <3>1, TornFacts
    <3>3. PICK kept, torn \in SUBSET Unsynced :
            log' = [n \in Checkpoint |-> IF n \in kept THEN log[n]
                                         ELSE IF n \in torn THEN TornLog(n)
                                         ELSE synced[n]]
      BY <1>18 DEF PowerLoss
    <3> QED BY <3>1, <3>2, <3>3
  <2>2. names' \subseteq Name
    BY <1>18 DEF PowerLoss, TypeOK
  <2>3. cur' \in SUBSET Published /\ failures' \in Nat
    BY <1>18 DEF PowerLoss, TypeOK, Failing
  <2> QED BY <1>18, <2>1, <2>2, <2>3, DownTypes DEF PowerLoss, TypeOK, Entries
<1>19. CASE ReadManifest \/ OpenSnapshot \/ Recheck
  <2>1. \A m \in rdMan : snap[m.cp] \in Seq(Tx)
    BY DEF TypeOK, Published
  <2>2. CASE ReadManifest
    BY <2>2 DEF ReadManifest, TypeOK, fileVars, writerVars
  <2>3. CASE OpenSnapshot
    BY <2>1, <2>3 DEF OpenSnapshot, TypeOK, fileVars, writerVars
  <2>4. CASE Recheck
    BY <2>4 DEF Recheck, TypeOK, fileVars, writerVars
  <2> QED BY <1>19, <2>2, <2>3, <2>4
<1>20. CASE OpenLog
  <2>1. PICK m \in rdMan :
          \/ UNCHANGED rdView
          \/ /\ Checks(m, rdSnap, log[m.cp])
             /\ rdView' = {ViewOf(m, rdSnap, log[m.cp])}
    BY <1>20 DEF OpenLog
  <2>2. m \in Published /\ log[m.cp] \in Seq(Entries) /\ rdSnap \in Seq(Tx)
    BY DEF TypeOK, Published, Entries
  <2>3. rdView' \in SUBSET Seq(Tx)
    BY <2>1, <2>2, ViewFacts DEF TypeOK
  <2>4. rdPc' \in {"idle", "missing", "corrupt"}
    BY <1>20 DEF OpenLog
  <2> QED BY <1>20, <2>3, <2>4 DEF OpenLog, TypeOK, fileVars, writerVars
<1> QED BY <1>2, <1>3, <1>4, <1>5, <1>6, <1>7, <1>8, <1>9, <1>10, <1>11, <1>12, <1>13,
           <1>14, <1>15, <1>16, <1>17, <1>18, <1>19, <1>20 DEF Next

--------------------------------------------------------------------------------
(* What a step keeps of the files that a manifest names.                   *)

KeptLog(m) == snap'[m.cp] = snap[m.cp] /\ AgreeOn(log[m.cp], log'[m.cp], m.end)

KeptFiles(m) ==
  /\ KeptLog(m)
  /\ AgreeOn(synced[m.cp], synced'[m.cp], m.end)
  /\ Pair(m.cp) \subseteq names' \cap stNames'

\* No manifest is new; at most one of the two takes the other's place.
FileMove ==
  \/ cur' = cur /\ stCur' = stCur
  \/ cur' \in {cur, stCur} /\ stCur' = cur'

\* Agreeing on a prefix is reflexive, symmetric and transitive.
LEMMA AgreeFacts ==
  ASSUME NEW c, NEW d, NEW e, NEW k
  PROVE  /\ k <= Len(c) => AgreeOn(c, c, k)
         /\ AgreeOn(c, d, k) => AgreeOn(d, c, k)
         /\ AgreeOn(c, d, k) /\ AgreeOn(d, e, k) => AgreeOn(c, e, k)
BY DEF AgreeOn

\* The fields of a manifest and the files it names.
LEMMA FieldTypes ==
  ASSUME TypeOK, NEW m \in Published
  PROVE  /\ m.cp \in Checkpoint /\ m.end \in Nat /\ m.seq \in Nat
         /\ snap[m.cp] \in Seq(Tx)
         /\ log[m.cp] \in Seq(Entries)
         /\ synced[m.cp] \in Seq(Entries)
BY DEF TypeOK, Published, Entries

\* A view does not change when its files are kept.
LEMMA ViewKept ==
  ASSUME TypeOK, TypeOK', NEW m \in Published,
         Checks(m, snap[m.cp], log[m.cp]), KeptLog(m)
  PROVE  Checks(m, snap[m.cp], log[m.cp])' /\ Shown(m)' = Shown(m)
<1>1. /\ snap[m.cp] \in Seq(Tx) /\ log[m.cp] \in Seq(Entries)
      /\ log'[m.cp] \in Seq(Entries)
  BY DEF TypeOK, Published, Entries
<1>2. /\ Checks(m, snap[m.cp], log'[m.cp])
      /\ ViewOf(m, snap[m.cp], log'[m.cp]) = ViewOf(m, snap[m.cp], log[m.cp])
  BY <1>1, Agreeing DEF KeptLog
<1> QED BY <1>2 DEF KeptLog, Shown

\* A manifest whose files are kept stays backed and shows what it showed.
LEMMA StillBacked ==
  ASSUME TypeOK, TypeOK', NEW m \in Published, Backed(m), KeptFiles(m)
  PROVE  Backed(m)' /\ Shown(m)' = Shown(m)
<1>1. Checks(m, snap[m.cp], log[m.cp])' /\ Shown(m)' = Shown(m)
  BY ViewKept DEF Backed, KeptFiles
<1>2. AgreeOn(log'[m.cp], synced'[m.cp], m.end)
  BY AgreeFacts DEF KeptFiles, KeptLog, Backed
<1> QED BY <1>1, <1>2 DEF Backed, KeptFiles

\* A step that keeps the files of every manifest keeps FileInv.
LEMMA FilesKept ==
  ASSUME TypeOK, TypeOK', FileInv, FileMove, \A m \in cur \cup stCur : KeptFiles(m)
  PROVE  FileInv' /\ \A m \in cur \cup stCur : Backed(m)' /\ Shown(m)' = Shown(m)
<1>1. cur \subseteq Published /\ stCur \subseteq Published
  BY DEF TypeOK
<1>2. \A m \in cur \cup stCur : Backed(m)' /\ Shown(m)' = Shown(m)
  BY <1>1, StillBacked DEF FileInv
<1>3. cur' \cup stCur' \subseteq cur \cup stCur
  BY DEF FileMove
<1>4. \A m \in cur' \cup stCur' : Backed(m)'
  BY <1>2, <1>3
<1>5. AtMostOne(cur)' /\ AtMostOne(stCur)' /\ (cur' = {} => stCur' = {})
  BY DEF FileMove, FileInv, AtMostOne
<1>6. ASSUME NEW m \in cur', NEW s \in stCur', s.cp = m.cp
      PROVE  s.end <= m.end
  <2>1. CASE cur' = cur /\ stCur' = stCur
    BY <1>6, <2>1 DEF FileInv
  <2>2. CASE cur' \in {cur, stCur} /\ stCur' = cur'
    <3>1. m = s
      BY <1>5, <1>6, <2>2 DEF AtMostOne
    <3>2. m.end \in Nat
      BY <1>1, <1>6, <2>2 DEF Published
    <3> QED BY <3>1, <3>2
  <2> QED BY <2>1, <2>2 DEF FileMove
<1>7. FileInv'
  BY <1>4, <1>5, <1>6 DEF FileInv
<1> QED BY <1>2, <1>7

\* Nothing a reader relies on changes when its files and the manifest's do not.
LEMMA ReaderKept ==
  ASSUME TypeOK, TypeOK', FileInv, ReaderInv, cur' = cur, UNCHANGED readerVars,
         \A m \in cur \cup rdMan : KeptLog(m)
  PROVE  ReaderInv'
<1>1. cur \subseteq Published /\ rdMan \subseteq Published
  BY DEF TypeOK
<1>2. \A m \in cur \cup rdMan : Checks(m, snap[m.cp], log[m.cp])
  BY DEF FileInv, ReaderInv, Backed
<1>3. \A m \in cur \cup rdMan :
        /\ Checks(m, snap[m.cp], log[m.cp])' /\ Shown(m)' = Shown(m)
        /\ snap'[m.cp] = snap[m.cp]
  BY <1>1, <1>2, ViewKept DEF KeptLog
<1>4. UNCHANGED <<rdPc, rdMan, rdSnap, rdView>>
  BY DEF readerVars
<1>5. ASSUME NEW r \in rdMan
      PROVE  /\ cur' # {}
             /\ Checks(r, snap[r.cp], log[r.cp])'
             /\ \A m \in cur' : /\ r.cp <= m.cp
                                /\ r.cp = m.cp => r.end <= m.end
                                /\ Leads(Shown(r), Shown(m))'
             /\ rdPc' = "snapshot" => rdSnap' = snap'[r.cp]
             /\ rdPc' = "missing" => \A m \in cur' : m.cp # r.cp
             /\ \A v \in rdView' : Leads(v, Shown(r))'
  <2>1. Checks(r, snap[r.cp], log[r.cp])' /\ Shown(r)' = Shown(r) /\ snap'[r.cp] = snap[r.cp]
    BY <1>3
  <2>2. \A m \in cur' : /\ r.cp <= m.cp
                        /\ r.cp = m.cp => r.end <= m.end
                        /\ Leads(Shown(r), Shown(m))'
    <3> TAKE m \in cur'
    <3>1. Shown(m)' = Shown(m) /\ m \in cur
      BY <1>3
    <3>2. Leads(Shown(r), Shown(m))
      BY <3>1 DEF ReaderInv
    <3>3. Leads(Shown(r)', Shown(m)')
      BY <2>1, <3>1, <3>2
    <3> QED BY <3>1, <3>3 DEF ReaderInv, Leads
  <2>3. \A v \in rdView' : Leads(v, Shown(r)')
    BY <2>1, <1>4 DEF ReaderInv
  <2> QED BY <2>1, <2>2, <2>3, <1>4 DEF ReaderInv, Leads
<1> QED BY <1>4, <1>5 DEF ReaderInv, ReaderNeverFails

\* Who relies on the files: the two manifests and a reader.
Relied == cur \cup stCur \cup rdMan

\* What holds of a manifest that the disk or a reader relies on.
LEMMA ReliedFacts ==
  ASSUME LogInv, NEW m \in Relied
  PROVE  /\ m \in Published
         /\ m.cp \in Checkpoint /\ m.end \in Nat
         /\ log[m.cp] \in Seq(Entries)
         /\ Checks(m, snap[m.cp], log[m.cp]) /\ m.end <= Len(log[m.cp])
         /\ cur # {}
         /\ \A c \in cur : c.cp = m.cp => m.end <= c.end
<1>1. m \in Published
  BY DEF Relied, LogInv, TypeOK
<1>2. m.cp \in Checkpoint /\ m.end \in Nat /\ log[m.cp] \in Seq(Entries)
  BY <1>1 DEF Published, LogInv, TypeOK, Entries
<1>3. Checks(m, snap[m.cp], log[m.cp])
  BY DEF Relied, LogInv, FileInv, ReaderInv, Backed
<1>4. m.end <= Len(log[m.cp])
  BY <1>3 DEF Checks
<1>5. cur # {}
  BY DEF Relied, LogInv, FileInv, ReaderInv
<1>6. ASSUME NEW c \in cur, c.cp = m.cp
      PROVE  m.end <= c.end
  <2>1. CASE m \in cur
    BY <1>2, <1>6, <2>1 DEF LogInv, FileInv, AtMostOne
  <2>2. CASE m \in stCur
    BY <1>6, <2>2 DEF LogInv, FileInv
  <2>3. CASE m \in rdMan
    BY <1>6, <2>3 DEF LogInv, ReaderInv
  <2> QED BY <2>1, <2>2, <2>3 DEF Relied
<1> QED BY <1>1, <1>2, <1>3, <1>4, <1>5, <1>6

\* A step that writes no log keeps every log.
LEMMA LogUnchanged ==
  ASSUME LogInv, UNCHANGED <<snap, log>>
  PROVE  \A m \in Relied : KeptLog(m)
BY ReliedFacts, AgreeFacts DEF KeptLog

\* A log that is cut at the published end, and perhaps added to.
LEMMA LogCut ==
  ASSUME LogInv, NEW c \in cur, NEW e \in Entries, snap' = snap,
         \/ log' = [log EXCEPT ![c.cp] = SubSeq(@, 1, c.end)]
         \/ log' = [log EXCEPT ![c.cp] = Append(SubSeq(@, 1, c.end), e)]
  PROVE  \A m \in Relied : KeptLog(m)
<1> TAKE m \in Relied
<1>1. /\ m.cp \in Checkpoint /\ m.end \in Nat /\ m.end <= Len(log[m.cp])
      /\ c.cp = m.cp => m.end <= c.end
  BY ReliedFacts
<1>2. c.cp \in Checkpoint /\ c.end \in Nat /\ log[c.cp] \in Seq(Entries) /\ c.end <= Len(log[c.cp])
  BY ReliedFacts DEF Relied
<1>3. log \in [Checkpoint -> Seq(Entries)]
  BY DEF LogInv, TypeOK, Entries
<1>4. CASE m.cp = c.cp
  <2>1. /\ AgreeOn(log[c.cp], SubSeq(log[c.cp], 1, c.end), m.end)
        /\ AgreeOn(log[c.cp], Append(SubSeq(log[c.cp], 1, c.end), e), m.end)
    BY <1>1, <1>2, <1>4, CutFacts
  <2>2. log'[c.cp] \in {SubSeq(log[c.cp], 1, c.end), Append(SubSeq(log[c.cp], 1, c.end), e)}
    BY <1>2, <1>3
  <2> QED BY <1>4, <2>1, <2>2 DEF KeptLog
<1>5. CASE m.cp # c.cp
  <2>1. log'[m.cp] = log[m.cp]
    BY <1>1, <1>3, <1>5
  <2> QED BY <1>1, <2>1, AgreeFacts DEF KeptLog
<1> QED BY <1>4, <1>5

\* A log's sync, wherever it happens, changes nothing a manifest names.
LEMMA SyncedKept ==
  ASSUME LogInv, NEW n, \/ synced' = synced
                        \/ synced' = [synced EXCEPT ![n] = log[n]]
  PROVE  \A m \in cur \cup stCur : AgreeOn(synced[m.cp], synced'[m.cp], m.end)
<1> TAKE m \in cur \cup stCur
<1>1. AgreeOn(log[m.cp], synced[m.cp], m.end)
  BY DEF LogInv, FileInv, Backed
<1>2. AgreeOn(synced[m.cp], synced[m.cp], m.end) /\ AgreeOn(synced[m.cp], log[m.cp], m.end)
  BY <1>1, AgreeFacts DEF AgreeOn
<1>3. m.cp \in Checkpoint
  BY ReliedFacts DEF Relied
<1>4. synced'[m.cp] \in {synced[m.cp], log[m.cp]}
  BY <1>3 DEF LogInv, TypeOK
<1> QED BY <1>2, <1>4

\* Two checkpoint numbers share no file.
LEMMA PairsApart ==
  \A n, k : n # k => Pair(n) \cap Pair(k) = {}
BY DEF Pair

\* A pair in the making is nobody's yet.
LEMMA PairingApart ==
  ASSUME LogInv, Pairing, NEW m \in Relied
  PROVE  m.cp # job.man.cp
<1>1. cur # {}
  BY ReliedFacts
<1>2. Settled /\ mem.cp < job.man.cp
  BY <1>1 DEF Pairing
<1>3. mem.cp \in Checkpoint /\ m.cp \in Checkpoint /\ job.man.cp \in Checkpoint
  BY ReliedFacts DEF LogInv, TypeOK, Published
<1>4. m.cp <= mem.cp
  <2>1. CASE m \in cur \cup stCur
    BY <2>1, <1>2, <1>3 DEF Settled, Checkpoint
  <2>2. CASE m \in rdMan
    BY <2>2, <1>2 DEF Settled, LogInv, ReaderInv
  <2> QED BY <2>1, <2>2 DEF Relied
<1> QED BY <1>2, <1>3, <1>4 DEF Checkpoint

\* From what a step keeps to the invariant of files and reader.
LEMMA KeptStep ==
  ASSUME LogInv, TypeOK', cur' = cur, stCur' \in {cur, stCur}, UNCHANGED readerVars,
         \A m \in Relied : KeptLog(m),
         \A m \in cur \cup stCur : /\ AgreeOn(synced[m.cp], synced'[m.cp], m.end)
                                   /\ Pair(m.cp) \subseteq names' \cap stNames'
  PROVE  /\ FileInv' /\ ReaderInv'
         /\ \A m \in cur \cup stCur : Backed(m)' /\ Shown(m)' = Shown(m)
<1>1. FileMove
  BY DEF FileMove
<1>2. \A m \in cur \cup stCur : KeptFiles(m)
  BY DEF KeptFiles, Relied
<1>3. \A m \in cur \cup rdMan : KeptLog(m)
  BY DEF Relied
<1> QED BY <1>1, <1>2, <1>3, FilesKept, ReaderKept DEF LogInv

\* The pair of a manifest on disk stands, and would survive a power loss.
LEMMA PairsNamed ==
  ASSUME LogInv, NEW m \in cur \cup stCur
  PROVE  Pair(m.cp) \subseteq names /\ Pair(m.cp) \subseteq stNames
BY DEF LogInv, FileInv, Backed

\* The steps of the writer that leave the published manifest in place.
Behind ==
  \/ BeginAppend \/ WriteLog \/ SyncLog \/ SyncDirectory
  \/ BeginCheckpoint \/ BeginRebuild \/ BeginCreate
  \/ RenameSnapshot \/ RenameHeader \/ SyncPair
  \/ Stop \/ RebuildFail
  \/ Open \/ SyncTruncated \/ SyncOpened \/ Remove \/ Ready

\* None of them changes what is published, durable or being read.
LEMMA BehindStep ==
  ASSUME LogInv, TypeOK', Behind
  PROVE  /\ FileInv' /\ ReaderInv'
         /\ cur' = cur /\ stCur' \in {cur, stCur}
         /\ \A m \in cur \cup stCur : Backed(m)' /\ Shown(m)' = Shown(m)
<1> DEFINE Kept == /\ cur' = cur /\ stCur' \in {cur, stCur} /\ UNCHANGED readerVars
                   /\ \A m \in Relied : KeptLog(m)
                   /\ \A m \in cur \cup stCur :
                         /\ AgreeOn(synced[m.cp], synced'[m.cp], m.end)
                         /\ Pair(m.cp) \subseteq names' \cap stNames'
<1> SUFFICES Kept
  BY KeptStep
<1>0. Torn \in Entries
  BY DEF Entries
<1>1. ASSUME UNCHANGED fileVars, UNCHANGED readerVars
      PROVE  Kept
  <2>1. UNCHANGED <<cur, stCur, names, stNames, snap, log, synced>>
    BY <1>1 DEF fileVars
  <2>2. \A m \in Relied : KeptLog(m)
    BY <2>1, LogUnchanged
  <2>3. \A m \in cur \cup stCur : AgreeOn(synced[m.cp], synced'[m.cp], m.end)
    BY <2>1, SyncedKept
  <2> QED BY <1>1, <2>1, <2>2, <2>3, PairsNamed
<1>2. ASSUME BeginAppend \/ BeginCheckpoint \/ BeginRebuild \/ BeginCreate \/ Stop
               \/ RebuildFail \/ Ready
      PROVE  Kept
  <2>1. UNCHANGED fileVars /\ UNCHANGED readerVars
    BY <1>2 DEF BeginAppend, BeginCheckpoint, BeginRebuild, BeginCreate, BeginPair, Stop,
                RebuildFail, Ready
  <2> HIDE DEF Kept
  <2> QED BY <2>1, <1>1
<1>3. ASSUME WriteLog
      PROVE  Kept
  <2>1. Settled /\ Appending
    BY <1>3 DEF WriteLog, LogInv, WriterInv
  <2>2. mem \in cur
    BY <2>1 DEF Settled
  <2>3. job.view[Len(job.view)] \in Entries
    <3>1. PICK t \in Tx : job.view = Append(view, t)
      BY <2>1 DEF Appending
    <3>2. job.view[Len(job.view)] = t
      BY <3>1, AppendProperties DEF LogInv, TypeOK
    <3> QED BY <3>2 DEF Entries
  <2>4. \E e \in Entries : log' = [log EXCEPT ![mem.cp] = Append(SubSeq(@, 1, mem.end), e)]
    BY <1>0, <1>3, <2>3 DEF WriteLog
  <2>5. UNCHANGED <<cur, stCur, names, stNames, snap, synced, readerVars>>
    BY <1>3 DEF WriteLog
  <2>6. \A m \in Relied : KeptLog(m)
    BY <2>2, <2>4, <2>5, LogCut
  <2>7. \A m \in cur \cup stCur : AgreeOn(synced[m.cp], synced'[m.cp], m.end)
    BY <2>5, SyncedKept
  <2> QED BY <2>5, <2>6, <2>7, PairsNamed
<1>4. ASSUME SyncLog \/ SyncTruncated
      PROVE  Kept
  <2>1. UNCHANGED <<cur, stCur, names, stNames, snap, log, readerVars>>
    BY <1>4 DEF SyncLog, SyncTruncated
  <2>2. \E n : synced' = [synced EXCEPT ![n] = log[n]]
    BY <1>4 DEF SyncLog, SyncTruncated
  <2>3. \A m \in cur \cup stCur : AgreeOn(synced[m.cp], synced'[m.cp], m.end)
    BY <2>2, SyncedKept
  <2>4. \A m \in Relied : KeptLog(m)
    BY <2>1, LogUnchanged
  <2> QED BY <2>1, <2>3, <2>4, PairsNamed
<1>5. ASSUME SyncDirectory \/ SyncPair \/ SyncOpened
      PROVE  Kept
  <2>1. /\ UNCHANGED <<cur, names, snap, log, synced, readerVars>>
        /\ stCur' = cur /\ stNames' = names
    BY <1>5 DEF SyncDirectory, SyncPair, SyncOpened
  <2>2. \A m \in cur \cup stCur : AgreeOn(synced[m.cp], synced'[m.cp], m.end)
    BY <2>1, SyncedKept
  <2>3. \A m \in Relied : KeptLog(m)
    BY <2>1, LogUnchanged
  <2> QED BY <2>1, <2>2, <2>3, PairsNamed
<1>6. ASSUME RenameSnapshot
      PROVE  Kept
  <2>1. Pairing
    BY <1>6 DEF RenameSnapshot, LogInv, WriterInv
  <2>2. /\ UNCHANGED <<cur, stCur, stNames, log, synced, readerVars>>
        /\ names \subseteq names'
        /\ snap' = [snap EXCEPT ![job.man.cp] = job.view]
    BY <1>6 DEF RenameSnapshot
  <2>3. \A m \in Relied : KeptLog(m)
    <3> TAKE m \in Relied
    <3>1. m.cp # job.man.cp
      BY <2>1, PairingApart
    <3>2. m.cp \in Checkpoint /\ m.end <= Len(log[m.cp])
      BY ReliedFacts
    <3>3. snap'[m.cp] = snap[m.cp]
      BY <2>2, <3>1, <3>2 DEF LogInv, TypeOK
    <3> QED BY <2>2, <3>2, <3>3, AgreeFacts DEF KeptLog
  <2>4. \A m \in cur \cup stCur : AgreeOn(synced[m.cp], synced'[m.cp], m.end)
    BY <2>2, SyncedKept
  <2> QED BY <2>2, <2>3, <2>4, PairsNamed
<1>7. ASSUME RenameHeader
      PROVE  Kept
  <2>1. Pairing
    BY <1>7 DEF RenameHeader, LogInv, WriterInv
  <2>2. /\ UNCHANGED <<cur, stCur, stNames, snap, readerVars>>
        /\ names \subseteq names'
        /\ log' = [log EXCEPT ![job.man.cp] = <<>>]
        /\ synced' = [synced EXCEPT ![job.man.cp] = <<>>]
    BY <1>7 DEF RenameHeader
  <2>3. \A m \in Relied : KeptLog(m) /\ synced'[m.cp] = synced[m.cp]
    <3> TAKE m \in Relied
    <3>1. m.cp # job.man.cp
      BY <2>1, PairingApart
    <3>2. m.cp \in Checkpoint /\ m.end <= Len(log[m.cp])
      BY ReliedFacts
    <3>3. log'[m.cp] = log[m.cp] /\ synced'[m.cp] = synced[m.cp]
      BY <2>2, <3>1, <3>2 DEF LogInv, TypeOK
    <3> QED BY <2>2, <3>2, <3>3, AgreeFacts DEF KeptLog
  <2>4. \A m \in cur \cup stCur : AgreeOn(synced[m.cp], synced'[m.cp], m.end)
    <3> TAKE m \in cur \cup stCur
    <3>1. m.end <= Len(synced[m.cp])
      BY DEF LogInv, FileInv, Backed, AgreeOn
    <3>2. synced'[m.cp] = synced[m.cp]
      BY <2>3 DEF Relied
    <3> QED BY <3>1, <3>2, AgreeFacts
  <2> QED BY <2>2, <2>3, <2>4, PairsNamed
<1>8. ASSUME Open
      PROVE  Kept
  <2>1. UNCHANGED <<cur, stCur, names, stNames, snap, synced, readerVars>>
    BY <1>8 DEF Open
  <2>2. \E m \in cur : log' = [log EXCEPT ![m.cp] = SubSeq(@, 1, m.end)]
    BY <1>8 DEF Open
  <2>3. \A m \in Relied : KeptLog(m)
    BY <1>0, <2>1, <2>2, LogCut
  <2>4. \A m \in cur \cup stCur : AgreeOn(synced[m.cp], synced'[m.cp], m.end)
    BY <2>1, SyncedKept
  <2> QED BY <2>1, <2>3, <2>4, PairsNamed
<1>9. ASSUME Remove
      PROVE  Kept
  <2>1. UNCHANGED <<cur, stCur, stNames, snap, log, synced, readerVars>>
    BY <1>9 DEF Remove
  <2>2. /\ cur = {job.man} /\ stCur = {job.man}
        /\ job.kind = "rebuild" => mem.cp # job.man.cp
    BY <1>9 DEF Remove, LogInv, WriterInv, Adopting
  <2>3. PICK x \in Obsolete : names' = names \ {x}
    BY <1>9 DEF Remove
  <2>4. x \notin Pair(job.man.cp)
    BY <2>2, PairsApart DEF Obsolete
  <2>5. Pair(job.man.cp) \subseteq names'
    BY <2>2, <2>3, <2>4, PairsNamed
  <2>6. \A m \in Relied : KeptLog(m)
    BY <2>1, LogUnchanged
  <2>7. \A m \in cur \cup stCur : AgreeOn(synced[m.cp], synced'[m.cp], m.end)
    BY <2>1, SyncedKept
  <2>8. \A m \in cur \cup stCur : Pair(m.cp) \subseteq names' \cap stNames'
    BY <2>1, <2>2, <2>5, PairsNamed
  <2> QED BY <2>1, <2>6, <2>7, <2>8
<1> HIDE DEF Kept
<1> QED BY <1>2, <1>3, <1>4, <1>5, <1>6, <1>7, <1>8, <1>9 DEF Behind

--------------------------------------------------------------------------------
(* The writer's own state.                                                 *)

\* A settled writer stays settled while the manifest stays in place.
LEMMA SettledKept ==
  ASSUME LogInv, TypeOK', Behind, Settled, mem' = mem, view' = view
  PROVE  Settled'
<1>1. cur' = {mem} /\ stCur' = {mem}
  BY BehindStep DEF Settled
<1>2. Shown(mem) = ViewOf(mem, snap'[mem.cp], log'[mem.cp])
  BY BehindStep DEF Settled, Shown
<1> QED BY <1>1, <1>2 DEF Settled, Shown

\* So does one that is adopting what it opened.
LEMMA AdoptingKept ==
  ASSUME LogInv, TypeOK', Behind, Adopting, job' = job
  PROVE  Adopting'
<1>1. cur' = {job.man}
  BY BehindStep DEF Adopting
<1>2. Shown(job.man) = ViewOf(job.man, snap'[job.man.cp], log'[job.man.cp])
  BY BehindStep DEF Adopting, Shown
<1> QED BY <1>1, <1>2 DEF Adopting, Shown

\* A writer that accepts the manifest it adopted is settled.
LEMMA AdoptedSettled ==
  ASSUME LogInv, TypeOK', Behind, Adopting, Accept(job.man, job.view),
         stCur = {job.man} \/ stCur' = cur
  PROVE  Settled'
<1>1. cur' = {job.man} /\ stCur' = {job.man}
  BY BehindStep DEF Adopting
<1>2. Shown(job.man) = ViewOf(job.man, snap'[job.man.cp], log'[job.man.cp])
  BY BehindStep DEF Adopting, Shown
<1> QED BY <1>1, <1>2 DEF Adopting, Shown, Settled, Accept

\* A new pair starts from an unused number, or from nothing.
LEMMA PairingBegun ==
  ASSUME LogInv, TypeOK', Behind, NEW kind, NEW from, NEW new, BeginPair(kind, from, new),
         \/ /\ kind \in {"checkpoint", "rebuild"} /\ from = mem.cp + 1
            /\ pc = "idle" /\ Extends(new, view)
         \/ /\ kind = "create" /\ cur = {} /\ new = <<>>
  PROVE  Pairing'
<1>1. PICK n \in Checkpoint :
        /\ Unused(from, n)
        /\ job' = [kind |-> kind, man |-> [cp |-> n, seq |-> Len(new), end |-> 0], view |-> new]
  BY DEF BeginPair
<1>2. /\ job'.kind = kind /\ job'.view = new
      /\ job'.man.cp = n /\ job'.man.seq = Len(new) /\ job'.man.end = 0
  BY <1>1
<1>3. mem' = mem /\ view' = view /\ cur' = cur /\ stCur' = stCur
  BY DEF BeginPair, fileVars
<1>4. CASE kind \in {"checkpoint", "rebuild"} /\ from = mem.cp + 1
             /\ pc = "idle" /\ Extends(new, view)
  <2>1. Settled
    BY <1>4 DEF LogInv, WriterInv
  <2>2. Settled'
    BY <1>3, <2>1, SettledKept
  <2>3. mem.cp < n
    <3>1. mem.cp \in Int /\ n \in Int
      BY DEF LogInv, TypeOK, Published, Checkpoint
    <3>2. mem.cp + 1 <= n
      BY <1>1, <1>4 DEF Unused
    <3> QED BY <3>1, <3>2
  <2>4. Extends(job.view, view)'
    BY <1>2, <1>3, <1>4 DEF Extends
  <2> QED BY <1>2, <1>3, <1>4, <2>2, <2>3, <2>4 DEF Pairing
<1>5. CASE kind = "create" /\ cur = {} /\ new = <<>>
  <2>1. stCur = {}
    BY <1>5 DEF LogInv, FileInv
  <2> QED BY <1>2, <1>3, <1>5, <2>1 DEF Pairing
<1> QED BY <1>4, <1>5

\* A pair in the making stays one while the manifest stays in place.
LEMMA PairingKept ==
  ASSUME LogInv, TypeOK', Behind, Pairing, job' = job, mem' = mem, view' = view
  PROVE  Pairing'
<1>1. cur' = cur /\ stCur' \in {cur, stCur}
  BY BehindStep
<1>2. CASE job.kind \in {"checkpoint", "rebuild"} /\ Settled
  <2>1. Settled'
    BY <1>2, SettledKept
  <2>2. Extends(job.view, view)'
    BY <1>2 DEF Pairing, Extends
  <2> QED BY <1>2, <2>1, <2>2 DEF Pairing
<1>3. CASE job.kind = "create" /\ cur = {} /\ stCur = {}
  BY <1>1, <1>3 DEF Pairing
<1> QED BY <1>2, <1>3 DEF Pairing

\* The steps behind a published manifest keep the writer's invariant.
LEMMA BehindWriter ==
  ASSUME LogInv, TypeOK', Behind
  PROVE  WriterInv'
<1>0. nextTx' # 0
  <2>1. nextTx \in Nat /\ nextTx # 0
    BY DEF LogInv, TypeOK, WriterInv
  <2>2. nextTx' \in {nextTx, nextTx + 1}
    BY DEF Behind, BeginAppend, WriteLog, SyncLog, SyncDirectory, BeginCheckpoint,
           BeginRebuild, BeginCreate, RenameSnapshot, RenameHeader, SyncPair, Stop,
           RebuildFail, Open, SyncTruncated, SyncOpened, Remove, Ready, writerVars
  <2> QED BY <2>1, <2>2
<1>1. ASSUME pc' = "idle", Settled'
      PROVE  WriterInv'
  BY <1>0, <1>1 DEF WriterInv
<1>2. ASSUME pc' = "down"
      PROVE  WriterInv'
  BY <1>0, <1>2 DEF WriterInv
<1>3. CASE BeginAppend
  <2>1. /\ mem' = mem /\ view' = view /\ pc' = "append"
        /\ job' = [kind |-> "append",
                   man |-> [mem EXCEPT !.seq = @ + 1, !.end = @ + 1],
                   view |-> Append(view, nextTx)]
    BY <1>3 DEF BeginAppend
  <2>2. Settled'
    BY <1>3, <2>1, SettledKept DEF BeginAppend, LogInv, WriterInv
  <2>3. nextTx \in Tx
    BY <1>3 DEF BeginAppend, LogInv, TypeOK, WriterInv, Tx
  <2>4. Appending'
    BY <2>1, <2>3 DEF Appending
  <2> QED BY <1>0, <2>1, <2>2, <2>4 DEF WriterInv
<1>4. CASE WriteLog
  <2>1. Settled /\ Appending
    BY <1>4 DEF WriteLog, LogInv, WriterInv
  <2>2. CASE Down
    BY <1>2, <2>2 DEF Down
  <2>3. ASSUME log' = [log EXCEPT ![mem.cp] =
                         Append(SubSeq(@, 1, mem.end), job.view[Len(job.view)])],
               pc' = "logsync", UNCHANGED <<job, mem, view>>
        PROVE  WriterInv'
    <3>1. Settled' /\ Appending'
      BY <2>1, <2>3, SettledKept DEF Appending
    <3>2. /\ mem.cp \in Checkpoint /\ mem.end \in Nat
          /\ log[mem.cp] \in Seq(Entries) /\ mem.end <= Len(log[mem.cp])
      BY <2>1, ReliedFacts DEF Relied, Settled
    <3>3. job.view[Len(job.view)] \in Entries
      <4>1. PICK t \in Tx : job.view = Append(view, t)
        BY <2>1 DEF Appending
      <4>2. job.view[Len(job.view)] = t
        BY <4>1, AppendProperties DEF LogInv, TypeOK
      <4> QED BY <4>2 DEF Entries
    <3>4. log'[mem.cp] = Append(SubSeq(log[mem.cp], 1, mem.end), job.view[Len(job.view)])
      BY <2>3, <3>2 DEF LogInv, TypeOK
    <3>5. /\ Len(log'[mem.cp]) = mem.end + 1
          /\ log'[mem.cp][mem.end + 1] = job.view[Len(job.view)]
      BY <3>2, <3>3, <3>4, CutFacts
    <3>6. Appended'
      BY <2>3, <3>5 DEF Appended
    <3> QED BY <1>0, <2>3, <3>1, <3>6 DEF WriterInv
  <2> QED BY <1>4, <2>2, <2>3 DEF WriteLog
<1>5. CASE SyncLog
  <2>1. Settled /\ Appending /\ Appended
    BY <1>5 DEF SyncLog, LogInv, WriterInv
  <2>2. UNCHANGED <<job, mem, view, log>> /\ pc' = "manifest"
    BY <1>5 DEF SyncLog
  <2>3. Settled' /\ Appending' /\ Appended'
    BY <2>1, <2>2, SettledKept DEF Appending, Appended
  <2>4. synced'[mem.cp] = log[mem.cp]
    BY <1>5 DEF SyncLog, LogInv, TypeOK, Published
  <2> QED BY <1>0, <2>2, <2>3, <2>4 DEF WriterInv
<1>6. CASE SyncDirectory
  <2>1. job.kind = "rebuild" => mem.cp # job.man.cp
    BY <1>6 DEF SyncDirectory, LogInv, WriterInv
  <2>2. Adopting /\ stCur' = cur /\ cur' = cur
    BY <1>6 DEF SyncDirectory, LogInv, WriterInv
  <2>3. CASE Accept(job.man, job.view)
    BY <1>1, <2>2, <2>3, AdoptedSettled DEF Accept
  <2>4. CASE Down
    BY <1>2, <2>4 DEF Down
  <2>5. CASE job.kind \in {"checkpoint", "rebuild"} /\ pc' = "cleanup" /\ UNCHANGED <<job, mem, view>>
    <3>1. Adopting' /\ stCur' = {job.man}
      BY <2>2, <2>5, AdoptingKept DEF Adopting
    <3> QED BY <1>0, <2>1, <2>2, <2>5, <3>1 DEF WriterInv
  <2> QED BY <1>6, <2>3, <2>4, <2>5 DEF SyncDirectory
<1>7. CASE BeginCheckpoint \/ BeginRebuild \/ BeginCreate
  <2>1. nextTx <= MaxTx => nextTx \in Tx
    BY DEF LogInv, TypeOK, WriterInv, Tx
  <2>2. CASE BeginCheckpoint
    <3>1. PICK new \in {view, Append(view, nextTx)} :
            /\ BeginPair("checkpoint", mem.cp + 1, new)
            /\ Extends(new, view)
      BY <2>1, <2>2 DEF BeginCheckpoint, Extends
    <3>2. Pairing'
      BY <2>2, <3>1, PairingBegun DEF BeginCheckpoint
    <3> QED BY <1>0, <3>1, <3>2 DEF BeginPair, WriterInv
  <2>3. CASE BeginRebuild
    <3>1. BeginPair("rebuild", mem.cp + 1, Append(view, nextTx))
          /\ Extends(Append(view, nextTx), view)
      BY <2>1, <2>3 DEF BeginRebuild, Extends
    <3>2. Pairing'
      BY <2>3, <3>1, PairingBegun DEF BeginRebuild
    <3> QED BY <1>0, <3>1, <3>2 DEF BeginPair, WriterInv
  <2>4. CASE BeginCreate
    <3>1. BeginPair("create", 0, <<>>) /\ cur = {}
      BY <2>4 DEF BeginCreate
    <3>2. Pairing'
      BY <3>1, PairingBegun
    <3> QED BY <1>0, <3>1, <3>2 DEF BeginPair, WriterInv
  <2> QED BY <1>7, <2>2, <2>3, <2>4
<1>8. CASE RenameSnapshot
  <2>1. UNCHANGED <<job, mem, view>> /\ pc' = "header"
    BY <1>8 DEF RenameSnapshot
  <2>2. Pairing'
    BY <1>8, <2>1, PairingKept DEF RenameSnapshot, LogInv, WriterInv
  <2>3. <<"snapshot", job.man.cp>> \in names' /\ snap'[job.man.cp] = job.view
    BY <1>8 DEF RenameSnapshot, LogInv, TypeOK, Published
  <2> QED BY <1>0, <2>1, <2>2, <2>3 DEF WriterInv
<1>9. CASE RenameHeader
  <2>1. UNCHANGED <<job, mem, view>> /\ pc' = "pairsync"
    BY <1>9 DEF RenameHeader
  <2>2. Pairing'
    BY <1>9, <2>1, PairingKept DEF RenameHeader, LogInv, WriterInv
  <2>3. <<"snapshot", job.man.cp>> \in names /\ snap[job.man.cp] = job.view
    BY <1>9 DEF RenameHeader, LogInv, WriterInv
  <2>4. job.man.cp \in Checkpoint
    BY DEF LogInv, TypeOK, Published
  <2>5. Pair(job.man.cp) \subseteq names'
    BY <1>9, <2>3 DEF RenameHeader, Pair
  <2>6. snap'[job.man.cp] = job.view /\ log'[job.man.cp] = <<>> /\ synced'[job.man.cp] = <<>>
    BY <1>9, <2>3, <2>4 DEF RenameHeader, LogInv, TypeOK
  <2>7. PairWritten'
    BY <2>1, <2>5, <2>6 DEF PairWritten
  <2> QED BY <1>0, <2>1, <2>2, <2>7 DEF WriterInv
<1>10. CASE SyncPair
  <2>1. UNCHANGED <<job, mem, view, names, snap, log, synced>> /\ pc' = "manifest" /\ stNames' = names
    BY <1>10 DEF SyncPair
  <2>2. Pairing'
    BY <1>10, <2>1, PairingKept DEF SyncPair, LogInv, WriterInv
  <2>3. PairWritten' /\ Pair(job.man.cp) \subseteq stNames'
    BY <1>10, <2>1 DEF SyncPair, LogInv, WriterInv, PairWritten
  <2> QED BY <1>0, <2>1, <2>2, <2>3 DEF WriterInv
<1>11. CASE Stop
  BY <1>2, <1>11 DEF Stop, Down
<1>12. CASE RebuildFail
  <2>1. Settled
    BY <1>12 DEF RebuildFail, LogInv, WriterInv, Pairing, Appending
  <2>2. mem' = mem /\ view' = view /\ pc' = "idle"
    BY <1>12 DEF RebuildFail, Accept
  <2> QED BY <1>1, <2>1, <2>2, SettledKept
<1>13. CASE Open
  <2>1. PICK m \in cur :
          /\ job' = [kind |-> "open", man |-> m, view |-> Shown(m)]
          /\ pc' \in {"truncsync", "opensync"}
    BY <1>13 DEF Open, Shown
  <2>2. cur' = {m}
    BY BehindStep DEF LogInv, FileInv, AtMostOne
  <2>3. Shown(m) = ViewOf(m, snap'[m.cp], log'[m.cp])
    BY BehindStep DEF Shown
  <2>4. job'.kind = "open" /\ job'.man = m /\ job'.view = Shown(m)
    BY <2>1
  <2>5. Adopting'
    BY <2>2, <2>3, <2>4 DEF Adopting, Shown
  <2> QED BY <1>0, <2>1, <2>4, <2>5 DEF WriterInv
<1>14. CASE SyncTruncated
  <2>1. job' = job /\ pc' = "opensync"
    BY <1>14 DEF SyncTruncated
  <2>2. Adopting' /\ job'.kind = "open"
    BY <1>14, <2>1, AdoptingKept DEF SyncTruncated, LogInv, WriterInv
  <2> QED BY <1>0, <2>1, <2>2 DEF WriterInv
<1>15. CASE SyncOpened
  <2>1. job' = job /\ pc' = "cleanup" /\ stCur' = cur
    BY <1>15 DEF SyncOpened
  <2>2. Adopting /\ job.kind = "open"
    BY <1>15 DEF SyncOpened, LogInv, WriterInv
  <2>3. Adopting' /\ stCur' = {job.man}
    BY <2>1, <2>2, AdoptingKept DEF Adopting
  <2> QED BY <1>0, <2>1, <2>2, <2>3 DEF WriterInv
<1>16. CASE Remove
  <2>1. UNCHANGED <<job, mem, stCur>> /\ pc' = "cleanup"
    BY <1>16 DEF Remove, writerVars
  <2>2. /\ Adopting /\ stCur = {job.man}
        /\ job.kind = "rebuild" => mem.cp # job.man.cp
    BY <1>16 DEF Remove, LogInv, WriterInv
  <2>3. Adopting'
    BY <2>1, <2>2, AdoptingKept
  <2> QED BY <1>0, <2>1, <2>2, <2>3 DEF WriterInv
<1>17. CASE Ready
  <2>1. Adopting /\ stCur = {job.man} /\ Accept(job.man, job.view)
    BY <1>17 DEF Ready, LogInv, WriterInv
  <2> QED BY <1>1, <2>1, AdoptedSettled DEF Accept
<1> QED BY <1>3, <1>4, <1>5, <1>6, <1>7, <1>8, <1>9, <1>10, <1>11, <1>12, <1>13, <1>14,
           <1>15, <1>16, <1>17 DEF Behind

--------------------------------------------------------------------------------
(* The publication itself.                                                 *)

\* What the manifest about to be published names, and how it is related to
\* the one it replaces.
LEMMA ManifestReady ==
  ASSUME LogInv, pc = "manifest"
  PROVE  /\ job.man \in Published
         /\ Backed(job.man)
         /\ Shown(job.man) = job.view
         /\ job.kind \in {"append", "checkpoint", "rebuild", "create"}
         /\ \/ /\ Settled /\ Extends(job.view, view)
               /\ \/ job.man.cp = mem.cp /\ job.man.end = mem.end + 1 /\ job.kind = "append"
                  \/ mem.cp < job.man.cp /\ job.kind # "append"
            \/ cur = {} /\ stCur = {} /\ job.view = <<>> /\ job.kind = "create"
<1> DEFINE n == job.man
<1>1. n \in Published /\ job.view \in Seq(Tx) /\ view \in Seq(Tx) /\ mem \in Published
  BY DEF LogInv, TypeOK
<1>2. CASE Settled /\ Appending /\ Appended /\ synced[mem.cp] = log[mem.cp]
  <2>1. PICK t \in Tx : job.view = Append(view, t)
    BY <1>2 DEF Appending
  <2>2. job.view[Len(job.view)] = t
    BY <1>1, <2>1, AppendProperties
  <2>3. n.cp = mem.cp /\ n.seq = mem.seq + 1 /\ n.end = mem.end + 1
    BY <1>1, <1>2 DEF Appending, Published
  <2>4. /\ Backed(mem) /\ log[mem.cp] \in Seq(Entries) /\ mem.end \in Nat
        /\ snap[mem.cp] \in Seq(Tx)
    BY <1>1, <1>2 DEF Settled, LogInv, FileInv, TypeOK, Entries, Published
  <2>5. Len(log[mem.cp]) = mem.end + 1 /\ log[mem.cp][mem.end + 1] = t
    BY <1>2, <2>2 DEF Appended
  <2>6. Checks(mem, snap[mem.cp], log[mem.cp])
    BY <2>4 DEF Backed
  <2>7. /\ Checks(n, snap[mem.cp], log[mem.cp])
        /\ ViewOf(n, snap[mem.cp], log[mem.cp])
             = Append(ViewOf(mem, snap[mem.cp], log[mem.cp]), t)
    <3> HIDE DEF n
    <3> QED BY <1>1, <2>3, <2>4, <2>5, <2>6, ViewAppend
  <2>8. Shown(n) = job.view
    BY <1>2, <2>1, <2>3, <2>7 DEF Shown, Settled
  <2>9. AgreeOn(log[n.cp], synced[n.cp], n.end)
    <3>1. n.end <= Len(log[mem.cp])
      BY <2>3, <2>4, <2>5
    <3> QED BY <1>2, <2>3, <3>1, AgreeFacts
  <2>10. Pair(n.cp) \subseteq names \cap stNames
    BY <2>3, <2>4 DEF Backed
  <2>11. Backed(n)
    BY <2>3, <2>7, <2>9, <2>10 DEF Backed
  <2> QED BY <1>1, <1>2, <2>1, <2>3, <2>8, <2>11 DEF Extends, Appending
<1>3. CASE Pairing /\ PairWritten /\ Pair(n.cp) \subseteq stNames
  <2>1. /\ n.end = 0 /\ n.seq = Len(job.view) /\ snap[n.cp] = job.view
        /\ log[n.cp] = <<>> /\ synced[n.cp] = <<>> /\ Pair(n.cp) \subseteq names
    BY <1>3 DEF Pairing, PairWritten
  <2>2. Len(<<>>) = 0 /\ <<>> \in Seq(Entries)
    OBVIOUS
  <2>3. Checks(n, job.view, <<>>)
    <3>1. Len(job.view) \in Nat
      BY <1>1
    <3> QED BY <2>1, <2>2, <3>1 DEF Checks
  <2>4. AgreeOn(<<>>, <<>>, 0)
    BY <2>2 DEF AgreeOn
  <2>5. Backed(n)
    BY <1>3, <2>1, <2>3, <2>4 DEF Backed
  <2>6. Shown(n) = job.view
    <3> DEFINE w == ViewOf(n, job.view, <<>>)
    <3>1. /\ w \in Seq(Tx) /\ Len(w) = Len(job.view) + n.end
          /\ \A i \in 1 .. Len(job.view) : w[i] = job.view[i]
      BY <1>1, <2>2, <2>3, ViewFacts
    <3>2. Len(w) = Len(job.view)
      <4>1. Len(job.view) \in Nat
        BY <1>1
      <4> QED BY <2>1, <3>1, <4>1
    <3>3. w = job.view
      <4> HIDE DEF w, n
      <4> QED BY <1>1, <3>1, <3>2, SeqEqual
    <3> QED BY <2>1, <3>3 DEF Shown
  <2> QED BY <1>1, <1>3, <2>5, <2>6 DEF Pairing
<1> QED BY <1>2, <1>3 DEF LogInv, WriterInv

\* What a manifest shows is a history.
LEMMA ShownTypes ==
  ASSUME LogInv, NEW m \in Relied
  PROVE  Shown(m) \in Seq(Tx)
<1>1. /\ m \in Published /\ log[m.cp] \in Seq(Entries)
      /\ Checks(m, snap[m.cp], log[m.cp])
  BY ReliedFacts
<1>2. snap[m.cp] \in Seq(Tx)
  BY <1>1 DEF LogInv, TypeOK, Published
<1> QED BY <1>1, <1>2, ViewFacts DEF Shown

\* The rename publishes a manifest that is backed and leads on.
LEMMA ManifestStep ==
  ASSUME LogInv, TypeOK', RenameManifest
  PROVE  FileInv' /\ WriterInv' /\ ReaderInv'
<1> DEFINE n == job.man
<1>1. /\ pc = "manifest" /\ cur' = {n} /\ pc' = "dirsync" /\ nextTx' = nextTx
      /\ UNCHANGED <<stCur, names, stNames, snap, log, synced, job, mem, view>>
      /\ UNCHANGED <<rdPc, rdMan, rdSnap, rdView>>
  BY DEF RenameManifest, readerVars
<1>2. /\ n \in Published /\ Backed(n) /\ Shown(n) = job.view
      /\ job.kind \in {"append", "checkpoint", "rebuild", "create"}
      /\ \/ /\ Settled /\ Extends(job.view, view)
            /\ \/ n.cp = mem.cp /\ n.end = mem.end + 1 /\ job.kind = "append"
               \/ mem.cp < n.cp /\ job.kind # "append"
         \/ cur = {} /\ stCur = {} /\ job.view = <<>> /\ job.kind = "create"
  BY <1>1, ManifestReady
<1>3. mem \in Published /\ mem.cp \in Nat /\ mem.end \in Nat /\ n.cp \in Nat
  BY <1>2 DEF LogInv, TypeOK, Published, Checkpoint
<1>4. \A m : Shown(m)' = Shown(m) /\ (Backed(m)' <=> Backed(m))
             /\ (Checks(m, snap[m.cp], log[m.cp])' <=> Checks(m, snap[m.cp], log[m.cp]))
  BY <1>1 DEF Shown, Backed, AgreeOn
<1>5. FileInv'
  <2>1. \A m \in cur' \cup stCur' : Backed(m)'
    BY <1>1, <1>2, <1>4 DEF LogInv, FileInv
  <2>2. \A m \in cur', s \in stCur' : s.cp = m.cp => s.end <= m.end
    <3>1. CASE stCur = {}
      BY <1>1, <3>1
    <3>2. CASE Settled /\ n.cp = mem.cp /\ n.end = mem.end + 1
      BY <1>1, <1>3, <3>2 DEF Settled
    <3>3. CASE Settled /\ mem.cp < n.cp
      BY <1>1, <1>3, <3>3 DEF Settled
    <3> QED BY <1>2, <3>1, <3>2, <3>3
  <2>3. AtMostOne(cur') /\ AtMostOne(stCur') /\ cur' # {}
    BY <1>1 DEF LogInv, FileInv, AtMostOne
  <2> QED BY <2>1, <2>2, <2>3 DEF FileInv, AtMostOne
<1>6. WriterInv'
  <2>1. Adopting'
    BY <1>1, <1>2 DEF Adopting, Shown
  <2>2. job.kind = "rebuild" => mem.cp # n.cp
    BY <1>2, <1>3
  <2>3. nextTx' # 0
    BY <1>1 DEF LogInv, WriterInv
  <2> QED BY <1>1, <1>2, <2>1, <2>2, <2>3 DEF WriterInv
<1>7. ReaderInv'
  <2>1. ASSUME NEW r \in rdMan
        PROVE  /\ r.cp <= n.cp
               /\ r.cp = n.cp => r.end <= n.end
               /\ Leads(Shown(r), Shown(n))
               /\ rdPc = "missing" => n.cp # r.cp
    <3>1. cur # {} /\ r \in Relied
      BY DEF LogInv, ReaderInv, Relied
    <3>2. Settled /\ Extends(job.view, view)
      BY <1>2, <3>1
    <3>3. /\ r.cp <= mem.cp /\ (r.cp = mem.cp => r.end <= mem.end)
          /\ Leads(Shown(r), Shown(mem))
          /\ rdPc = "missing" => mem.cp # r.cp
      BY <3>2 DEF Settled, LogInv, ReaderInv
    <3>4. r.cp \in Nat /\ r.end \in Nat
      BY <3>1, ReliedFacts DEF Checkpoint
    <3>5. Leads(Shown(r), Shown(n))
      <4>1. Shown(r) \in Seq(Tx) /\ view \in Seq(Tx) /\ job.view \in Seq(Tx)
        BY <3>1, ShownTypes DEF LogInv, TypeOK
      <4>2. Leads(Shown(r), view)
        BY <3>2, <3>3 DEF Settled
      <4>3. Leads(view, job.view)
        BY <3>2, <4>1, LeadsExtends
      <4>4. Leads(Shown(r), job.view)
        BY <4>1, <4>2, <4>3, LeadsTrans
      <4> QED BY <1>2, <4>4
    <3>6. \/ n.cp = mem.cp /\ n.end = mem.end + 1
          \/ mem.cp < n.cp
      BY <1>2, <3>1
    <3>7. r.cp <= n.cp /\ (r.cp = n.cp => r.end <= n.end)
      BY <1>3, <3>3, <3>4, <3>6
    <3>8. rdPc = "missing" => n.cp # r.cp
      BY <1>3, <3>3, <3>4, <3>6
    <3> QED BY <3>5, <3>7, <3>8
  <2>2. ASSUME NEW r \in rdMan'
        PROVE  /\ cur' # {}
               /\ Checks(r, snap[r.cp], log[r.cp])'
               /\ \A m \in cur' : /\ r.cp <= m.cp
                                  /\ r.cp = m.cp => r.end <= m.end
                                  /\ Leads(Shown(r), Shown(m))'
               /\ rdPc' = "snapshot" => rdSnap' = snap'[r.cp]
               /\ rdPc' = "missing" => \A m \in cur' : m.cp # r.cp
               /\ \A v \in rdView' : Leads(v, Shown(r))'
    <3>1. r \in rdMan
      BY <1>1
    <3>2. /\ Checks(r, snap[r.cp], log[r.cp])'
          /\ rdPc' = "snapshot" => rdSnap' = snap'[r.cp]
      BY <1>1, <1>4, <3>1 DEF LogInv, ReaderInv
    <3>3. \A v \in rdView' : Leads(v, Shown(r)')
      BY <1>1, <1>4, <3>1 DEF LogInv, ReaderInv
    <3>4. \A m \in cur' : /\ r.cp <= m.cp
                          /\ r.cp = m.cp => r.end <= m.end
                          /\ Leads(Shown(r)', Shown(m)')
                          /\ rdPc' = "missing" => m.cp # r.cp
      BY <1>1, <1>4, <2>1, <3>1
    <3> QED BY <1>1, <3>2, <3>3, <3>4 DEF Leads
  <2>3. /\ AtMostOne(rdMan)'
        /\ rdPc' \in {"manifest", "snapshot", "missing"} => rdMan' # {}
        /\ rdView' # {} => rdMan' # {}
        /\ ReaderNeverFails'
    BY <1>1 DEF LogInv, ReaderInv, ReaderNeverFails, AtMostOne
  <2> QED BY <2>2, <2>3 DEF ReaderInv
<1> QED BY <1>5, <1>6, <1>7

--------------------------------------------------------------------------------
(* A power loss, and the steps of a reader.                                *)

\* A power loss keeps the files of both manifests it may leave.
LEMMA LossKeeps ==
  ASSUME LogInv, TypeOK', PowerLoss
  PROVE  \A m \in cur \cup stCur : KeptFiles(m)
<1> TAKE m \in cur \cup stCur
<1>1. /\ m.cp \in Checkpoint /\ m.end \in Nat
      /\ log[m.cp] \in Seq(Entries) /\ m.end <= Len(log[m.cp])
  BY ReliedFacts DEF Relied
<1>2. synced[m.cp] \in Seq(Entries)
  BY <1>1 DEF LogInv, TypeOK, Entries
<1>3. AgreeOn(log[m.cp], synced[m.cp], m.end)
  BY DEF LogInv, FileInv, Backed
<1>4. log'[m.cp] \in {log[m.cp], TornLog(m.cp), synced[m.cp]}
  <2>1. PICK kept, torn \in SUBSET Unsynced :
          log' = [n \in Checkpoint |-> IF n \in kept THEN log[n]
                                       ELSE IF n \in torn THEN TornLog(n)
                                       ELSE synced[n]]
    BY DEF PowerLoss
  <2> QED BY <1>1, <2>1
<1>5. AgreeOn(log[m.cp], TornLog(m.cp), m.end)
  BY <1>1, <1>2, <1>3, TornFacts
<1>6. AgreeOn(log[m.cp], log'[m.cp], m.end)
  BY <1>1, <1>3, <1>4, <1>5, AgreeFacts
<1>7. AgreeOn(synced[m.cp], log'[m.cp], m.end)
  BY <1>3, <1>6, AgreeFacts
<1>8. snap' = snap /\ synced' = log' /\ stNames' = names'
  BY DEF PowerLoss
<1>9. Pair(m.cp) \subseteq names'
  BY PairsNamed DEF PowerLoss
<1> QED BY <1>6, <1>7, <1>8, <1>9 DEF KeptFiles, KeptLog

\* A power loss keeps the invariant.
LEMMA LossStep ==
  ASSUME LogInv, TypeOK', PowerLoss
  PROVE  FileInv' /\ WriterInv' /\ ReaderInv'
<1>1. FileMove
  BY DEF FileMove, PowerLoss
<1>2. FileInv'
  BY <1>1, LossKeeps, FilesKept DEF LogInv
<1>3. WriterInv'
  BY DEF LogInv, WriterInv, PowerLoss, Down
<1>4. ReaderInv'
  BY DEF PowerLoss, ReaderInv, ReaderNeverFails, AtMostOne
<1> QED BY <1>2, <1>3, <1>4

\* The files and the writer do not move while a reader does.
LEMMA FilesStill ==
  ASSUME LogInv, UNCHANGED <<fileVars, writerVars>>
  PROVE  /\ FileInv' /\ WriterInv'
         /\ \A m : Shown(m)' = Shown(m)
<1>1. UNCHANGED <<cur, stCur, names, stNames, snap, log, synced, pc, job, mem, view, nextTx>>
  BY DEF fileVars, writerVars
<1>2. \A m : Shown(m)' = Shown(m) /\ (Backed(m)' <=> Backed(m))
  BY <1>1 DEF Shown, Backed, AgreeOn
<1>3. FileInv'
  BY <1>1, <1>2 DEF LogInv, FileInv, AtMostOne
<1>4. (Settled' <=> Settled) /\ (Adopting' <=> Adopting)
  BY <1>1 DEF Settled, Adopting, Shown
<1>5. (Appending' <=> Appending) /\ (Appended' <=> Appended) /\ (PairWritten' <=> PairWritten)
  BY <1>1 DEF Appending, Appended, PairWritten
<1>6. Pairing' <=> Pairing
  BY <1>1, <1>4 DEF Pairing, Extends
<1>7. WriterInv'
  BY <1>1, <1>4, <1>5, <1>6 DEF LogInv, WriterInv
<1> QED BY <1>2, <1>3, <1>7

\* What a reader's manifest can rely on, in the form ReaderInv has it.
ReaderFacts(r) ==
  /\ cur # {}
  /\ Checks(r, snap[r.cp], log[r.cp])
  /\ \A m \in cur : /\ r.cp <= m.cp
                    /\ r.cp = m.cp => r.end <= m.end
                    /\ Leads(Shown(r), Shown(m))

\* A reader's steps, between any two of the writer's.
LEMMA ReaderStep ==
  ASSUME LogInv, TypeOK', ReadManifest \/ OpenSnapshot \/ OpenLog \/ Recheck
  PROVE  FileInv' /\ WriterInv' /\ ReaderInv'
<1>1. UNCHANGED <<fileVars, writerVars>>
  BY DEF ReadManifest, OpenSnapshot, OpenLog, Recheck
<1>2. UNCHANGED <<cur, snap, log, names>>
  BY <1>1 DEF fileVars
<1>3. FileInv' /\ WriterInv' /\ \A m : Shown(m)' = Shown(m)
  BY <1>1, FilesStill
<1>4. \A r : ReaderFacts(r)' <=> ReaderFacts(r)
  BY <1>2 DEF ReaderFacts, Shown
<1>5. \A v \in rdView : v \in Seq(Tx)
  BY DEF LogInv, TypeOK
<1>6. \A r \in rdMan : ReaderFacts(r)
  BY DEF LogInv, ReaderInv, ReaderFacts
<1>7. \A m \in cur : ReaderFacts(m) /\ \A v \in rdView : Leads(v, Shown(m))
  <2> TAKE m \in cur
  <2>1. m \in Relied /\ Shown(m) \in Seq(Tx)
    BY ShownTypes DEF Relied
  <2>2. Leads(Shown(m), Shown(m))
    BY <2>1, LeadsExtends DEF Extends
  <2>3. ReaderFacts(m)
    <3>1. cur = {m}
      BY DEF LogInv, FileInv, AtMostOne
    <3>2. m.cp \in Nat /\ m.end \in Nat /\ Checks(m, snap[m.cp], log[m.cp])
      BY <2>1, ReliedFacts DEF Checkpoint
    <3> QED BY <2>2, <3>1, <3>2 DEF ReaderFacts
  <2>4. ASSUME NEW v \in rdView
        PROVE  Leads(v, Shown(m))
    <3>1. PICK r \in rdMan : Leads(v, Shown(r)) /\ Leads(Shown(r), Shown(m))
      BY DEF LogInv, ReaderInv
    <3>2. Shown(r) \in Seq(Tx)
      BY ShownTypes DEF Relied
    <3> QED BY <1>5, <2>1, <3>1, <3>2, LeadsTrans
  <2> QED BY <2>3, <2>4
<1>8. ASSUME /\ AtMostOne(rdMan')
             /\ rdMan' # {} /\ rdPc' \notin {"failed", "corrupt"}
             /\ \A r \in rdMan' :
                  /\ ReaderFacts(r)
                  /\ rdPc' = "snapshot" => rdSnap' = snap[r.cp]
                  /\ rdPc' = "missing" => \A m \in cur : m.cp # r.cp
                  /\ \A v \in rdView' : Leads(v, Shown(r))
      PROVE  ReaderInv'
  <2>1. \A r \in rdMan' :
          /\ ReaderFacts(r)'
          /\ rdPc' = "snapshot" => rdSnap' = snap'[r.cp]
          /\ rdPc' = "missing" => \A m \in cur' : m.cp # r.cp
          /\ \A v \in rdView' : Leads(v, Shown(r)')
    BY <1>2, <1>3, <1>4, <1>8
  <2> QED BY <1>8, <2>1 DEF ReaderInv, ReaderFacts, ReaderNeverFails, AtMostOne, Leads
<1>9. CASE ReadManifest
  <2>1. rdMan' = cur /\ cur # {} /\ rdPc' = "manifest" /\ rdView' = rdView
    BY <1>9 DEF ReadManifest
  <2>2. AtMostOne(rdMan')
    BY <2>1 DEF LogInv, FileInv, AtMostOne
  <2> QED BY <1>3, <1>7, <1>8, <2>1, <2>2
<1>10. \A r \in rdMan, m \in cur :
         {<<"snapshot", r.cp>>, <<"changes", r.cp>>} \subseteq names \/ m.cp # r.cp
  <2>1. \A m \in cur : Pair(m.cp) \subseteq names
    BY PairsNamed
  <2> QED BY <2>1 DEF Pair
<1>11. /\ AtMostOne(rdMan)
       /\ \A r \in rdMan : \A v \in rdView : Leads(v, Shown(r))
  BY DEF LogInv, ReaderInv
<1>12. CASE OpenSnapshot
  <2>1. UNCHANGED <<rdMan, rdView>> /\ rdMan # {}
    BY <1>12 DEF OpenSnapshot
  <2>2. rdPc' \in {"snapshot", "missing"}
    BY <1>12 DEF OpenSnapshot
  <2>3. \A r \in rdMan : /\ rdPc' = "snapshot" => rdSnap' = snap[r.cp]
                         /\ rdPc' = "missing" => <<"snapshot", r.cp>> \notin names
    BY <1>11, <1>12 DEF OpenSnapshot, AtMostOne
  <2>4. \A r \in rdMan : rdPc' = "missing" => \A m \in cur : m.cp # r.cp
    BY <1>10, <2>3
  <2> QED BY <1>3, <1>6, <1>8, <1>11, <2>1, <2>2, <2>3, <2>4
<1>13. CASE OpenLog
  <2>1. rdMan' = rdMan /\ rdMan # {} /\ rdPc = "snapshot"
    BY <1>13 DEF OpenLog
  <2>2. \A r \in rdMan : rdSnap = snap[r.cp] /\ Checks(r, snap[r.cp], log[r.cp])
    BY <2>1 DEF LogInv, ReaderInv
  <2>3. \/ rdPc' = "missing" /\ rdView' = rdView
           /\ \A r \in rdMan : <<"changes", r.cp>> \notin names
        \/ rdPc' = "idle" /\ \A r \in rdMan : rdView' = {Shown(r)}
    BY <1>11, <1>13, <2>2 DEF OpenLog, AtMostOne, Shown
  <2>4. \A r \in rdMan : rdPc' = "missing" => \A m \in cur : m.cp # r.cp
    BY <1>10, <2>3
  <2>5. \A r \in rdMan : Leads(Shown(r), Shown(r))
    BY ShownTypes, LeadsExtends DEF Relied, Extends
  <2>6. \A r \in rdMan : \A v \in rdView' : Leads(v, Shown(r))
    BY <1>11, <2>3, <2>5
  <2>7. rdPc' \in {"missing", "idle"}
    BY <2>3
  <2> QED BY <1>3, <1>6, <1>8, <1>11, <2>1, <2>4, <2>6, <2>7
<1>14. CASE Recheck
  <2>1. UNCHANGED <<rdMan, rdView>> /\ rdPc = "missing"
    BY <1>14 DEF Recheck
  <2>2. rdMan # {} /\ \A r \in rdMan : cur # {} /\ \A m \in cur : m.cp # r.cp
    BY <2>1 DEF LogInv, ReaderInv
  <2>3. rdPc' = "again"
    BY <1>14, <2>2 DEF Recheck
  <2> QED BY <1>3, <1>6, <1>8, <1>11, <2>1, <2>2, <2>3
<1> QED BY <1>9, <1>12, <1>13, <1>14

--------------------------------------------------------------------------------
(* The theorems.                                                           *)

\* An empty directory satisfies the invariant.
LEMMA LogInit ==
  Init => LogInv
<1> SUFFICES ASSUME Init
             PROVE  LogInv
  OBVIOUS
<1>1. <<>> \in Seq(Tx) /\ <<>> \in Seq(Tx \cup {Torn})
  OBVIOUS
<1>2. NoManifest \in Published
  BY ManifestTypes
<1>3. TypeOK
  BY <1>1, <1>2, NoJobType DEF Init, TypeOK
<1>4. FileInv /\ WriterInv
  BY DEF Init, FileInv, WriterInv, AtMostOne
<1>5. ReaderInv
  BY DEF Init, ReaderInv, ReaderNeverFails, AtMostOne
<1> QED BY <1>3, <1>4, <1>5 DEF LogInv

\* Every step keeps the invariant.
LEMMA LogStep ==
  LogInv /\ [Next]_vars => LogInv'
<1> SUFFICES ASSUME LogInv, [Next]_vars
             PROVE  LogInv'
  OBVIOUS
<1>1. CASE Next
  <2>1. TypeOK'
    BY <1>1, TypeStep
  <2>2. CASE Behind
    BY <2>1, <2>2, BehindStep, BehindWriter DEF LogInv
  <2>3. CASE RenameManifest
    BY <2>1, <2>3, ManifestStep DEF LogInv
  <2>4. CASE PowerLoss
    BY <2>1, <2>4, LossStep DEF LogInv
  <2>5. CASE ReadManifest \/ OpenSnapshot \/ OpenLog \/ Recheck
    BY <2>1, <2>5, ReaderStep DEF LogInv
  <2> QED BY <1>1, <2>2, <2>3, <2>4, <2>5 DEF Next, Behind
<1>2. CASE UNCHANGED vars
  <2>1. UNCHANGED <<fileVars, writerVars, failures, readerVars>>
    BY <1>2 DEF vars, fileVars, writerVars, readerVars
  <2>2. TypeOK'
    BY <1>2 DEF vars, LogInv, TypeOK
  <2>3. FileInv' /\ WriterInv'
    BY <2>1, FilesStill
  <2>4. UNCHANGED <<snap, log, cur>>
    BY <1>2 DEF vars
  <2>5. \A m \in cur \cup rdMan : KeptLog(m)
    BY <2>4, LogUnchanged DEF Relied
  <2>6. ReaderInv'
    BY <2>1, <2>2, <2>4, <2>5, ReaderKept DEF LogInv
  <2> QED BY <2>2, <2>3, <2>6 DEF LogInv
<1> QED BY <1>1, <1>2

\* The invariant holds under any number of transactions, checkpoints, failed
\* steps, process deaths and power losses, at any point of a publication, of
\* a recovery or of a cleanup.
THEOREM LogInvariant == Spec => []LogInv
<1> QED BY LogInit, LogStep, PTL DEF Spec

\* The view that is published, and the one that is durable.
LEMMA VisibleIs ==
  LogInv => /\ cur = {} => Visible = <<>>
            /\ \A m \in cur : Visible = Shown(m)
<1> SUFFICES ASSUME LogInv
             PROVE  /\ cur = {} => Visible = <<>>
                    /\ \A m \in cur : Visible = Shown(m)
  OBVIOUS
<1>1. cur = {} => Visible = <<>>
  BY DEF Visible
<1>2. ASSUME NEW m \in cur
      PROVE  Visible = Shown(m)
  <2>1. (CHOOSE c \in cur : TRUE) = m
    BY DEF LogInv, FileInv, AtMostOne
  <2> QED BY <2>1 DEF Visible, Shown
<1> QED BY <1>1, <1>2

\* What a power loss now would leave, in terms of the manifest synced last.
LEMMA DurableIs ==
  LogInv => /\ stCur = {} => Durable = <<>>
            /\ \A m \in stCur : Durable = Shown(m)
<1> SUFFICES ASSUME LogInv
             PROVE  /\ stCur = {} => Durable = <<>>
                    /\ \A m \in stCur : Durable = Shown(m)
  OBVIOUS
<1>1. stCur = {} => Durable = <<>>
  BY DEF Durable
<1>2. ASSUME NEW m \in stCur
      PROVE  Durable = Shown(m)
  <2>1. (CHOOSE c \in stCur : TRUE) = m
    BY DEF LogInv, FileInv, AtMostOne
  <2>2. Backed(m)
    BY DEF LogInv, FileInv
  <2>3. /\ m \in Published /\ snap[m.cp] \in Seq(Tx)
        /\ log[m.cp] \in Seq(Entries) /\ synced[m.cp] \in Seq(Entries)
    BY FieldTypes DEF LogInv, TypeOK
  <2>4. ViewOf(m, snap[m.cp], synced[m.cp]) = ViewOf(m, snap[m.cp], log[m.cp])
    BY <2>2, <2>3, Agreeing DEF Backed
  <2> QED BY <2>1, <2>4 DEF Durable, Shown
<1> QED BY <1>1, <1>2

\* Whatever a power loss does to the entries and log bytes that were not yet
\* synced, the manifest it leaves names a pair that Log::open accepts.
THEOREM EveryOutcomeOpens == Spec => []OutcomesOpen
<1>1. LogInv => OutcomesOpen
  <2> SUFFICES ASSUME LogInv, NEW m \in cur \cup stCur
               PROVE  /\ Pair(m.cp) \subseteq names \cap stNames
                      /\ Checks(m, snap[m.cp], log[m.cp])
                      /\ Checks(m, snap[m.cp], synced[m.cp])
    BY DEF OutcomesOpen
  <2>1. Backed(m)
    BY DEF LogInv, FileInv
  <2>2. /\ m \in Published /\ snap[m.cp] \in Seq(Tx)
        /\ log[m.cp] \in Seq(Entries) /\ synced[m.cp] \in Seq(Entries)
    BY FieldTypes DEF LogInv, TypeOK
  <2>3. Checks(m, snap[m.cp], synced[m.cp])
    BY <2>1, <2>2, Agreeing DEF Backed
  <2> QED BY <2>1, <2>3 DEF Backed
<1> QED BY <1>1, LogInvariant, PTL

\* A writer that accepts a transaction, after an append, a checkpoint, a
\* recovery or an abandoned rebuild, has published and made durable all that
\* its view holds.
THEOREM ReadyWritersAreDurable == Spec => []ReadyIsDurable
<1>1. LogInv => ReadyIsDurable
  <2> SUFFICES ASSUME LogInv, pc = "idle"
               PROVE  cur = {mem} /\ stCur = {mem} /\ Visible = view /\ Durable = view
    BY DEF ReadyIsDurable, LogInv
  <2>1. cur = {mem} /\ stCur = {mem} /\ view = Shown(mem)
    BY DEF LogInv, WriterInv, Settled
  <2> QED BY <2>1, VisibleIs, DurableIs
<1> QED BY <1>1, LogInvariant, PTL

\* A reader without the lock is never failed by cleanup, by a checkpoint or by
\* a writer's recovery beside it.
THEOREM ReadersNeverFail == Spec => []ReaderNeverFails
<1>1. LogInv => ReaderNeverFails
  BY DEF LogInv, ReaderInv
<1> QED BY <1>1, LogInvariant, PTL

\* A reader that opens the catalog again sees an extension of what it saw.
THEOREM ReadersAdvance == Spec => ReaderAdvances
<1>1. LogInv /\ [Next]_vars =>
        [\A v \in rdView, w \in rdView' :
            Len(v) <= Len(w) /\ SubSeq(w, 1, Len(v)) = v]_rdView
  <2> SUFFICES ASSUME LogInv, [Next]_vars, rdView' # rdView
               PROVE  \A v \in rdView, w \in rdView' : Leads(v, w)
    BY DEF Leads
  <2>1. CASE PowerLoss
    BY <2>1 DEF PowerLoss
  <2>2. CASE OpenLog
    <3> TAKE v \in rdView, w \in rdView'
    <3>1. PICK r \in rdMan : rdPc = "snapshot" /\ rdView' = {ViewOf(r, rdSnap, log[r.cp])}
      BY <2>2 DEF OpenLog
    <3>2. rdSnap = snap[r.cp] /\ Leads(v, Shown(r))
      BY <3>1 DEF LogInv, ReaderInv
    <3> QED BY <3>1, <3>2 DEF Shown
  <2>3. ~PowerLoss /\ ~OpenLog => UNCHANGED rdView
    BY DEF Next, vars, readerVars, BeginAppend, WriteLog, SyncLog, RenameManifest,
           SyncDirectory, BeginCheckpoint, BeginRebuild, BeginCreate, BeginPair,
           RenameSnapshot, RenameHeader, SyncPair, Stop, RebuildFail, Open, SyncTruncated,
           SyncOpened, Remove, Ready, ReadManifest, OpenSnapshot, Recheck
  <2> QED BY <2>1, <2>2, <2>3
<1> QED BY <1>1, LogInvariant, PTL DEF Spec, ReaderAdvances

\* The steps of the files, seen as steps of one history.
LEMMA HistoryStep ==
  LogInv /\ LogInv' /\ [Next]_vars => [History!Next]_(History!vars)
<1> SUFFICES ASSUME LogInv, LogInv', [Next]_vars
             PROVE  [History!Next]_(History!vars)
  OBVIOUS
<1>1. /\ cur = {} => Visible = <<>>
      /\ \A m \in cur : Visible = Shown(m)
  BY VisibleIs
<1>2. /\ stCur = {} => Durable = <<>>
      /\ \A m \in stCur : Durable = Shown(m)
  BY DurableIs
<1>3. /\ cur' = {} => Visible' = <<>>
      /\ \A m \in cur' : Visible' = Shown(m)'
  <2>1. (/\ cur = {} => Visible = <<>>
         /\ \A m \in cur : Visible = Shown(m))'
    BY VisibleIs, PTL
  <2> QED BY <2>1
<1>4. /\ stCur' = {} => Durable' = <<>>
      /\ \A m \in stCur' : Durable' = Shown(m)'
  <2>1. (/\ stCur = {} => Durable = <<>>
         /\ \A m \in stCur : Durable = Shown(m))'
    BY DurableIs, PTL
  <2> QED BY <2>1
<1>5. TypeOK'
  BY DEF LogInv
<1>6. ASSUME FileMove, \A m \in cur \cup stCur : Shown(m)' = Shown(m)
      PROVE  [History!Next]_(History!vars)
  <2>1. /\ cur' = cur => Visible' = Visible
        /\ cur' = stCur => Visible' = Durable
        /\ stCur' = stCur => Durable' = Durable
        /\ stCur' = cur => Durable' = Visible
    BY <1>1, <1>2, <1>3, <1>4, <1>6
  <2> QED BY <1>6, <2>1 DEF FileMove, History!Next, History!Settle, History!Lose, History!vars
<1>7. CASE Behind
  <2>1. FileMove
    BY <1>5, <1>7, BehindStep DEF FileMove
  <2> QED BY <1>5, <1>6, <1>7, <2>1, BehindStep
<1>8. CASE PowerLoss
  <2>1. FileMove
    BY <1>8 DEF PowerLoss, FileMove
  <2>2. \A m \in cur \cup stCur : Shown(m)' = Shown(m)
    BY <1>5, <1>8, <2>1, LossKeeps, FilesKept DEF LogInv
  <2> QED BY <1>6, <2>1, <2>2
<1>9. CASE RenameManifest
  <2>1. /\ cur' = {job.man} /\ stCur' = stCur /\ snap' = snap /\ log' = log
    BY <1>9 DEF RenameManifest
  <2>2. \A m : Shown(m)' = Shown(m)
    BY <2>1 DEF Shown
  <2>3. Durable' = Durable
    BY <1>2, <1>4, <2>1, <2>2
  <2>4. /\ Shown(job.man) = job.view
        /\ \/ Settled /\ Extends(job.view, view)
           \/ cur = {} /\ stCur = {} /\ job.view = <<>>
    BY <1>9, ManifestReady DEF RenameManifest
  <2>5. Visible' = job.view
    BY <1>3, <2>1, <2>2, <2>4
  <2>6. CASE Settled /\ Extends(job.view, view)
    <3>1. Visible = view /\ Durable = view
      BY <1>1, <1>2, <2>6 DEF Settled
    <3> QED BY <2>3, <2>5, <2>6, <3>1 DEF Extends, History!Next, History!Publish, History!vars
  <2>7. CASE cur = {} /\ stCur = {} /\ job.view = <<>>
    BY <1>1, <2>3, <2>5, <2>7 DEF History!vars
  <2> QED BY <2>4, <2>6, <2>7
<1>10. CASE (ReadManifest \/ OpenSnapshot \/ OpenLog \/ Recheck) \/ UNCHANGED vars
  <2>1. UNCHANGED <<cur, stCur, snap, log>>
    BY <1>10 DEF ReadManifest, OpenSnapshot, OpenLog, Recheck, vars, fileVars
  <2>2. FileMove /\ \A m \in cur \cup stCur : Shown(m)' = Shown(m)
    BY <2>1 DEF FileMove, Shown
  <2> QED BY <1>6, <2>2
<1> QED BY <1>7, <1>8, <1>9, <1>10 DEF Next, Behind

\* The manifest, the snapshots and the logs implement one history of
\* transactions: each is published whole and only once those before it are
\* durable, and a power loss takes back at most the last of them.
THEOREM LogImplementsHistory == Spec => RefinesHistory
<1>1. Init => History!Init
  BY DEF Init, History!Init, Visible, Durable
<1>2. LogInv /\ LogInv' /\ [Next]_vars => [History!Next]_(History!vars)
  BY HistoryStep
<1> QED BY <1>1, <1>2, LogInvariant, PTL DEF Spec, RefinesHistory, History!Spec

================================================================================
