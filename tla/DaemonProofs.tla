----------------------------- MODULE DaemonProofs ------------------------------
(***************************************************************************)
(* DaemonHost and Connections, for any number of connections, slots and    *)
(* failures: the counts that Host keeps are exact, a command is lost only  *)
(* with a failure, a permit never, and the host leaves nothing behind.     *)
(***************************************************************************)
EXTENDS DaemonHost, FiniteSetTheorems, TLAPS

\* The connections that Host.clients, Host.queries and writer_pending count.
Active == {c \in Client : conn[c].at \notin {"out", "queued", "bye", "gone"}}
Querying == {c \in Client : conn[c].at = "query"}
Sending == {c \in Client : conn[c].at \in {"send", "refuse"}}

\* ClientCount and QueryPermit count what they stand for.
CountInv ==
    /\ host.clients = Cardinality(Active)
    /\ host.queries = Cardinality(Querying)

\* A command is in the queue once, and its client waits for the reply until
\* the writer has taken it and answered.
QueueInv ==
    /\ \A i, j \in 1 .. Len(inbox.queue) :
          inbox.queue[i] = inbox.queue[j] /\ inbox.queue[i] \in Client => i = j
    /\ \A c \in Queued : conn[c].at = "await" /\ conn[c].reply = "none"
    /\ \A c \in Client : conn[c].at # "await" => conn[c].reply = "none"
    /\ writer.at \in {"command", "lane"} =>
          \A c \in writer.command :
             c \notin Queued /\ conn[c].at = "await" /\ conn[c].reply = "none"

\* The order of leaving: the clients, then stop, then the writer and its merge.
LeaveInv ==
    /\ server.at \in {"stop", "join", "exited"} /\ ~server.broken => host.clients = 0
    /\ host.stop => server.at \in {"join", "exited"}
    /\ writer.at = "teardown" => host.stop
    /\ writer.at \in {"load", "unloaded", "failed", "ended"} => writer.merge = "none"
    /\ server.at = "exited" => writer.at = "ended"
    /\ writer.at = "load" => host.loaded = "loading"

PendingInv ==
    Receiving /\ ~At("failing") =>
        host.pending = Cardinality(Sending) + Cardinality(Queued)
                         + (IF writer.at \in {"command", "lane", "reply"} THEN 1 ELSE 0)

HostInv == CountInv /\ QueueInv /\ LeaveInv /\ PendingInv /\ CommandsNotDropped

\* Who will take a free query slot, or pass it on.
Asleep == {c \in Client : conn[c].at = "AdmitWait"}
Movers == {c \in Client : conn[c].at = "notify" \/ (conn[c].at = "admit" /\ ~conn[c].cancelled)}

\* While a query sleeps there are at least as many movers as free slots, and
\* nobody sleeps through its own cancellation or a drain.
PermitInv ==
    /\ Asleep # {} => ~host.draining /\ QueryLimit - host.queries <= Cardinality(Movers)
    /\ \A c \in Asleep : ~conn[c].cancelled

DaemonInv == TypeOK /\ HostInv /\ PermitInv

--------------------------------------------------------------------------------
(* Counting.                                                               *)

One(p) == IF p THEN 1 ELSE 0

\* Sets of clients that differ in one member.
LEMMA OneMore ==
    ASSUME NEW c \in Client, NEW S \in SUBSET Client, NEW T \in SUBSET Client,
           S \ {c} = T \ {c}
    PROVE  /\ Cardinality(S) \in Nat /\ Cardinality(T) \in Nat
           /\ Cardinality(T) = Cardinality(S) + One(c \in T) - One(c \in S)
           /\ c \in S => Cardinality(S) > 0
<1>1. IsFiniteSet(S) /\ IsFiniteSet(T)
  BY ClientAssumption, FS_Subset
<1>2. Cardinality(S) \in Nat /\ Cardinality(T) \in Nat
  BY <1>1, FS_CardinalityType
<1>3. c \in S => Cardinality(S) > 0
  BY <1>1, <1>2, FS_EmptySet
<1>4. CASE c \in S /\ c \in T
  <2>1. S = T
    BY <1>4
  <2> QED BY <2>1, <1>2, <1>3, <1>4 DEF One
<1>5. CASE c \notin S /\ c \notin T
  <2>1. S = T
    BY <1>5
  <2> QED BY <2>1, <1>2, <1>5 DEF One
<1>6. CASE c \in S /\ c \notin T
  <2>1. T = S \ {c}
    BY <1>6
  <2> QED BY <2>1, <1>1, <1>2, <1>3, <1>6, FS_RemoveElement DEF One
<1>7. CASE c \notin S /\ c \in T
  <2>1. T = S \cup {c}
    BY <1>7
  <2> QED BY <2>1, <1>1, <1>2, <1>7, FS_AddElement DEF One
<1> QED BY <1>4, <1>5, <1>6, <1>7

--------------------------------------------------------------------------------
(* What the notifications and drops do to the connections.                 *)

\* The connections keep their places but for those woken.
Calm(d) ==
    /\ \/ conn'[d].at = conn[d].at
       \/ conn[d].at = "GreetWait" /\ conn'[d].at = "regreet"
       \/ conn[d].at = "AdmitWait" /\ conn'[d].at = "admit"
    /\ conn'[d].reply = conn[d].reply
    /\ conn'[d].cancelled = conn[d].cancelled

\* engine_ready.notify_all
LEMMA ReadyTyped ==
    ASSUME NEW cs \in [Client -> ConnType]
    PROVE  LET ds == ReadyNotified(cs) IN
           /\ ds \in [Client -> ConnType]
           /\ \A d \in Client :
                 /\ ds[d].at = IF cs[d].at = "GreetWait" THEN "regreet" ELSE cs[d].at
                 /\ ds[d].reply = cs[d].reply /\ ds[d].cancelled = cs[d].cancelled
  BY DEF ConnType, HandlerPc, ReadyNotified

\* cancel and drain wake readers and leave every connection where it counts.
LEMMA ReadyCalm ==
    ASSUME TypeOK, conn' = ReadyNotified(conn)
    PROVE  /\ conn' \in [Client -> ConnType]
           /\ \A d \in Client : Calm(d) /\ (conn[d].at = "AdmitWait" => conn'[d].at = "AdmitWait")
<1>1. conn \in [Client -> ConnType]
  BY DEF TypeOK
<1>2. /\ conn' \in [Client -> ConnType]
      /\ \A d \in Client :
            /\ conn'[d].at = IF conn[d].at = "GreetWait" THEN "regreet" ELSE conn[d].at
            /\ conn'[d].reply = conn[d].reply /\ conn'[d].cancelled = conn[d].cancelled
  BY <1>1, ReadyTyped
<1> QED BY <1>1, <1>2 DEF Calm

\* lifecycle_changed.notify_all
LEMMA ChangeCalm ==
    ASSUME NEW cs \in [Client -> ConnType]
    PROVE  LET ds == ChangeNotified(cs) IN
           /\ ds \in [Client -> ConnType]
           /\ \A d \in Client :
                 /\ ds[d].at = IF cs[d].at = "AdmitWait" THEN "admit" ELSE cs[d].at
                 /\ ds[d].reply = cs[d].reply /\ ds[d].cancelled = cs[d].cancelled
  BY DEF ConnType, HandlerPc, ChangeNotified

\* drain
LEMMA DrainCalm ==
    ASSUME TypeOK, conn' = Drained(conn)
    PROVE  /\ conn' \in [Client -> ConnType]
           /\ \A d \in Client : Calm(d) /\ conn'[d].at # "AdmitWait"
<1> DEFINE woken == [c \in Client |-> IF conn[c].registered /\ conn[c].chan = "none"
                                      THEN [conn[c] EXCEPT !.chan = "wake"] ELSE conn[c]]
<1>1. /\ woken \in [Client -> ConnType]
      /\ \A d \in Client :
            /\ woken[d].at = conn[d].at /\ woken[d].reply = conn[d].reply
            /\ woken[d].cancelled = conn[d].cancelled
  BY DEF TypeOK, ConnType
<1> DEFINE ready == ReadyNotified(woken)
<1>2. conn' = ChangeNotified(ready)
  BY DEF Drained
<1> HIDE DEF woken
<1>3. /\ ready \in [Client -> ConnType]
      /\ \A d \in Client :
            /\ ready[d].at = IF woken[d].at = "GreetWait" THEN "regreet" ELSE woken[d].at
            /\ ready[d].reply = woken[d].reply /\ ready[d].cancelled = woken[d].cancelled
  BY <1>1, ReadyTyped
<1> HIDE DEF ready
<1>4. /\ conn' \in [Client -> ConnType]
      /\ \A d \in Client :
            /\ conn'[d].at = IF ready[d].at = "AdmitWait" THEN "admit" ELSE ready[d].at
            /\ conn'[d].reply = ready[d].reply /\ conn'[d].cancelled = ready[d].cancelled
  BY <1>2, <1>3, ChangeCalm
<1> QED BY <1>1, <1>3, <1>4 DEF Calm

\* cancel
LEMMA CancelCalm ==
    ASSUME TypeOK, NEW c \in Client, ReaderCancel(c)
    PROVE  /\ conn' \in [Client -> ConnType]
           /\ \A d \in Client \ {c} : Calm(d)
           /\ \A d \in Client : conn'[d].at # "AdmitWait" /\ conn'[d].reply = conn[d].reply
           /\ \/ conn'[c].at = conn[c].at
              \/ conn[c].at = "GreetWait" /\ conn'[c].at = "regreet"
              \/ conn[c].at = "AdmitWait" /\ conn'[c].at = "admit"
<1> DEFINE marked == [conn EXCEPT ![c].cancelled = TRUE]
<1>1. /\ marked \in [Client -> ConnType]
      /\ \A d \in Client :
            /\ marked[d].at = conn[d].at /\ marked[d].reply = conn[d].reply
            /\ d # c => marked[d] = conn[d]
  BY DEF TypeOK, ConnType
<1> DEFINE ready == ReadyNotified(marked)
           woken == ChangeNotified(ready)
<1>2. conn' = [woken EXCEPT ![c].reader = "unregister"]
  BY DEF ReaderCancel, Cancelled
<1> HIDE DEF marked
<1>3. /\ ready \in [Client -> ConnType]
      /\ \A d \in Client :
            /\ ready[d].at = IF marked[d].at = "GreetWait" THEN "regreet" ELSE marked[d].at
            /\ ready[d].reply = marked[d].reply /\ ready[d].cancelled = marked[d].cancelled
  BY <1>1, ReadyTyped
<1> HIDE DEF ready
<1>4. /\ woken \in [Client -> ConnType]
      /\ \A d \in Client :
            /\ woken[d].at = IF ready[d].at = "AdmitWait" THEN "admit" ELSE ready[d].at
            /\ woken[d].reply = ready[d].reply /\ woken[d].cancelled = ready[d].cancelled
  BY <1>3, ChangeCalm
<1> HIDE DEF woken
<1>5. /\ conn' \in [Client -> ConnType]
      /\ \A d \in Client :
            /\ conn'[d].at = woken[d].at /\ conn'[d].reply = woken[d].reply
            /\ d # c => conn'[d] = woken[d]
  <2>1. conn' = [woken EXCEPT ![c] = [woken[c] EXCEPT !.reader = "unregister"]]
    BY <1>2
  <2>2. /\ [woken[c] EXCEPT !.reader = "unregister"] \in ConnType
        /\ [woken[c] EXCEPT !.reader = "unregister"].at = woken[c].at
        /\ [woken[c] EXCEPT !.reader = "unregister"].reply = woken[c].reply
    BY <1>4 DEF ConnType
  <2> QED BY <1>4, <2>1, <2>2
<1>6. \A d \in Client :
         /\ conn'[d].reply = conn[d].reply
         /\ \/ conn'[d].at = conn[d].at
            \/ conn[d].at = "GreetWait" /\ conn'[d].at = "regreet"
            \/ conn[d].at = "AdmitWait" /\ conn'[d].at = "admit"
  BY <1>1, <1>3, <1>4, <1>5
<1>7. \A d \in Client \ {c} : conn'[d].cancelled = conn[d].cancelled
  BY <1>1, <1>3, <1>4, <1>5
<1>8. \A d \in Client : conn'[d].at # "AdmitWait"
  BY <1>4, <1>5
<1> QED BY <1>5, <1>6, <1>7, <1>8 DEF Calm

\* A handler moves, and nobody else.
LEMMA MoveCalm ==
    ASSUME TypeOK, NEW c \in Client, NEW x \in HandlerPc, Move(c, x)
    PROVE  /\ conn' \in [Client -> ConnType]
           /\ \A d \in Client \ {c} : conn'[d] = conn[d]
           /\ conn'[c].at = x /\ conn'[c].reply = conn[c].reply
           /\ conn'[c].cancelled = conn[c].cancelled
<1>1. conn \in [Client -> ConnType] /\ conn' = [conn EXCEPT ![c] = [conn[c] EXCEPT !.at = x]]
  BY DEF TypeOK, Move
<1>2. LET r == [conn[c] EXCEPT !.at = x] IN
      /\ r \in ConnType /\ r.at = x /\ r.reply = conn[c].reply
      /\ r.cancelled = conn[c].cancelled
  BY <1>1 DEF ConnType
<1> QED BY <1>1, <1>2

\* The running command's client is answered, or its sender dropped.
LEMMA ReplyCalm ==
    ASSUME TypeOK, NEW r \in {"done", "dropped"},
           conn' = [c \in Client |-> IF c \in writer.command
                                     THEN [conn[c] EXCEPT !.reply = r] ELSE conn[c]]
    PROVE  /\ conn' \in [Client -> ConnType]
           /\ \A d \in Client :
                 /\ conn'[d].at = conn[d].at /\ conn'[d].cancelled = conn[d].cancelled
                 /\ d \notin writer.command => conn'[d] = conn[d]
                 /\ d \in writer.command => conn'[d].reply = r
<1>1. conn \in [Client -> ConnType]
  BY DEF TypeOK
<1>2. \A d \in Client : LET x == [conn[d] EXCEPT !.reply = r] IN
         /\ x \in ConnType /\ x.at = conn[d].at /\ x.cancelled = conn[d].cancelled
         /\ x.reply = r
  BY <1>1 DEF ConnType
<1> QED BY <1>1, <1>2

\* The receiver goes: the queued commands' reply senders are dropped.
LEMMA DropCalm ==
    ASSUME TypeOK, conn' = RepliesDropped(conn)
    PROVE  /\ conn' \in [Client -> ConnType]
           /\ \A d \in Client :
                 /\ conn'[d].at = conn[d].at /\ conn'[d].cancelled = conn[d].cancelled
                 /\ d \in Queued => conn'[d].reply = "dropped"
                 /\ d \notin Queued => conn'[d] = conn[d]
<1>1. conn \in [Client -> ConnType]
  BY DEF TypeOK
<1>2. \A d \in Client : LET r == [conn[d] EXCEPT !.reply = "dropped"] IN
         /\ r \in ConnType /\ r.at = conn[d].at /\ r.cancelled = conn[d].cancelled
         /\ r.reply = "dropped"
  BY <1>1 DEF ConnType
<1>3. conn' = [d \in Client |-> IF d \in Queued THEN [conn[d] EXCEPT !.reply = "dropped"]
                                ELSE conn[d]]
  BY DEF RepliesDropped, Queued
<1> QED BY <1>1, <1>2, <1>3

--------------------------------------------------------------------------------
(* Types.                                                                  *)

SpentType == [events : Nat, merges : Nat, failures : Nat]

\* OperationDropped and the updates it follows keep the type.
LEMMA DroppedTyped ==
    ASSUME NEW h \in HostType
    PROVE  OperationDropped(h) \in HostType
  BY DEF HostType, OperationDropped

\* A failure is spent within its bound.
LEMMA FailingTyped ==
    ASSUME TypeOK, Failing \/ UNCHANGED spent
    PROVE  spent' \in SpentType
  BY DEF TypeOK, Failing, SpentType

\* The queue: dropped, taken from, added to.
LEMMA QueueTyped ==
    ASSUME TypeOK
    PROVE  /\ QueueDropped \in InboxType /\ QueueDropped.queue = <<>> /\ 0 <= Capacity
           /\ \A x \in Client \cup {Intake} : Room =>
                 LET q == Append(inbox.queue, x) IN
                 q \in Seq(Client \cup {Intake}) /\ Len(q) <= Capacity
           /\ Taken => /\ inbox' \in InboxType /\ Len(inbox'.queue) <= Capacity
                       /\ inbox.queue # <<>> /\ inbox'.queue = Tail(inbox.queue)
                       /\ Head(inbox.queue) \in Client \cup {Intake}
<1>1. inbox \in InboxType /\ inbox.queue \in Seq(Client \cup {Intake}) /\ Len(inbox.queue) <= Capacity
  BY DEF TypeOK, InboxType
<1>2. \A q \in Seq(Client \cup {Intake}) :
         [inbox EXCEPT !.queue = q] \in InboxType /\ [inbox EXCEPT !.queue = q].queue = q
  BY <1>1 DEF InboxType
<1>3. QueueDropped \in InboxType /\ QueueDropped.queue = <<>>
  <2>1. <<>> \in Seq(Client \cup {Intake})
    OBVIOUS
  <2> QED BY <1>2, <2>1 DEF QueueDropped
<1>4. ASSUME Taken
      PROVE  /\ inbox' \in InboxType /\ Len(inbox'.queue) <= Capacity
             /\ inbox.queue # <<>> /\ inbox'.queue = Tail(inbox.queue)
             /\ Head(inbox.queue) \in Client \cup {Intake}
  <2>1. inbox.queue # <<>> /\ inbox' = [inbox EXCEPT !.queue = Tail(inbox.queue)]
    BY <1>4 DEF Taken
  <2>2. /\ Tail(inbox.queue) \in Seq(Client \cup {Intake})
        /\ Head(inbox.queue) \in Client \cup {Intake}
        /\ Len(Tail(inbox.queue)) = Len(inbox.queue) - 1 /\ Len(inbox.queue) \in Nat
    BY <1>1, <2>1
  <2>3. inbox' \in InboxType /\ inbox'.queue = Tail(inbox.queue)
    BY <1>2, <2>1, <2>2
  <2> QED BY <1>1, <2>1, <2>2, <2>3, HostAssumption
<1>5. \A x \in Client \cup {Intake} : Room =>
         LET q == Append(inbox.queue, x) IN
         q \in Seq(Client \cup {Intake}) /\ Len(q) <= Capacity
  <2>1. SUFFICES ASSUME NEW x \in Client \cup {Intake}, Len(inbox.queue) < Capacity
                 PROVE  /\ Append(inbox.queue, x) \in Seq(Client \cup {Intake})
                        /\ Len(Append(inbox.queue, x)) <= Capacity
    BY DEF Room
  <2>2. /\ Append(inbox.queue, x) \in Seq(Client \cup {Intake})
        /\ Len(Append(inbox.queue, x)) = Len(inbox.queue) + 1 /\ Len(inbox.queue) \in Nat
    BY <1>1
  <2>3. Capacity \in Nat
    BY HostAssumption
  <2> QED BY <2>1, <2>2, <2>3
<1>6. 0 <= Capacity
  BY HostAssumption
<1> QED BY <1>3, <1>4, <1>5, <1>6

\* The writer's own steps.
LEMMA WriterType1 ==
    ASSUME TypeOK,
           \/ LoadReady \/ LoadFail \/ LoadFailed \/ Top \/ TryRecv \/ Empty \/ Blocked
           \/ TimeoutSoon \/ TimeoutFar \/ Took
    PROVE  TypeOK'
<1> USE DEF Goto
<1>1. CASE LoadReady
  <2>1. writer' \in WriterType
    BY <1>1 DEF LoadReady, TypeOK, WriterType, WriterPc
  <2>2. spent' \in SpentType
    BY <1>1, FailingTyped DEF LoadReady
  <2>3. [host EXCEPT !.loaded = "ready"] \in HostType
    BY <1>1 DEF TypeOK, HostType
  <2>4. host' \in HostType
    BY <1>1, <2>3, DroppedTyped DEF LoadReady
  <2>5. conn' \in [Client -> ConnType]
    BY <1>1, ReadyCalm DEF LoadReady
  <2> QED BY <1>1, <2>1, <2>2, <2>3, <2>4, <2>5 DEF LoadReady, TypeOK, SpentType
<1>2. CASE LoadFail
  <2>1. writer' \in WriterType
    BY <1>2 DEF LoadFail, TypeOK, WriterType, WriterPc
  <2>2. spent' \in SpentType
    BY <1>2, FailingTyped DEF LoadFail
  <2>3. host' \in HostType
    BY <1>2, DroppedTyped DEF LoadFail, TypeOK
  <2>4. inbox' \in InboxType /\ Len(inbox'.queue) <= Capacity
    BY <1>2, QueueTyped DEF LoadFail
  <2>5. conn' \in [Client -> ConnType]
    BY <1>2, DropCalm DEF LoadFail
  <2> QED BY <1>2, <2>1, <2>2, <2>3, <2>4, <2>5 DEF LoadFail, TypeOK, SpentType
<1>3. CASE LoadFailed
  BY <1>3, ReadyCalm DEF LoadFailed, TypeOK, HostType, WriterType, WriterPc
<1>4. CASE Top
  BY <1>4 DEF Top, TypeOK, WriterType, WriterPc
<1>5. CASE TryRecv
  <2>1. CASE Taken
    BY <1>5, <2>1, QueueTyped DEF TryRecv, Taken, TypeOK, WriterType, WriterPc
  <2>2. CASE ~Taken
    BY <1>5, <2>2 DEF TryRecv, TypeOK, WriterType, WriterPc
  <2> QED BY <1>5, <2>1, <2>2 DEF TryRecv, TypeOK, SpentType
<1>6. CASE Empty
  BY <1>6 DEF Empty, TypeOK, InboxType, WriterType, WriterPc
<1>7. CASE Blocked
  <2>1. Taken /\ inbox' \in InboxType /\ Len(inbox'.queue) <= Capacity
    BY <1>7, QueueTyped DEF Blocked
  <2>2. writer' \in WriterType
    BY <2>1, QueueTyped DEF Taken, TypeOK, WriterType, WriterPc
  <2> QED BY <1>7, <2>1, <2>2 DEF Blocked, TypeOK
<1>8. CASE TimeoutSoon
  BY <1>8 DEF TimeoutSoon, TypeOK, WriterType, WriterPc
<1>9. CASE TimeoutFar
  <2>1. writer' \in WriterType
    BY <1>9 DEF TimeoutFar, TypeOK, WriterType, WriterPc
  <2>2. spent' \in SpentType
    BY <1>9 DEF TimeoutFar, TypeOK, SpentType
  <2> QED BY <1>9, <2>1, <2>2 DEF TimeoutFar, TypeOK, SpentType
<1>10. CASE Took
  BY <1>10 DEF Took, TypeOK, InboxType, WriterType, WriterPc
<1> QED BY <1>1, <1>2, <1>3, <1>4, <1>5, <1>6, <1>7, <1>8, <1>9, <1>10

\* Types: the turns and the commands of the writer.
LEMMA WriterType2 ==
    ASSUME TypeOK,
           \/ TurnNothing \/ TurnRefresh \/ RefreshEnd \/ TurnContent \/ ContentEnd
           \/ CommandStart \/ CommandReply \/ CommandEnd \/ CommandFail
    PROVE  TypeOK'
<1> USE DEF Goto
<1>1. CASE TurnNothing
  BY <1>1 DEF TurnNothing, TypeOK, WriterType, WriterPc
<1>2. CASE TurnRefresh
  BY <1>2 DEF TurnRefresh, TypeOK, HostType, WriterType, WriterPc
<1>3. CASE RefreshEnd
  <2>1. writer' \in WriterType
    BY <1>3 DEF RefreshEnd, TypeOK, WriterType, WriterPc
  <2>2. spent' \in SpentType
    BY <1>3, FailingTyped DEF RefreshEnd
  <2>3. host' \in HostType
    BY <1>3, DroppedTyped DEF RefreshEnd, TypeOK
  <2> QED BY <1>3, <2>1, <2>2, <2>3 DEF RefreshEnd, TypeOK, SpentType
<1>4. CASE TurnContent
  <2>1. writer' \in WriterType
    BY <1>4 DEF TurnContent, TypeOK, WriterType, WriterPc
  <2>2. host' \in HostType
    BY <1>4 DEF TurnContent, TypeOK, HostType
  <2> QED BY <1>4, <2>1, <2>2 DEF TurnContent, TypeOK, SpentType
<1>5. CASE ContentEnd
  <2>1. writer' \in WriterType
    BY <1>5 DEF ContentEnd, TypeOK, WriterType, WriterPc
  <2>2. spent' \in SpentType
    <3>1. CASE Failing \/ UNCHANGED spent
      BY <3>1, FailingTyped
    <3>2. CASE spent' = [spent EXCEPT !.merges = @ + 1]
      BY <3>2 DEF TypeOK, SpentType
    <3> QED BY <1>5, <3>1, <3>2 DEF ContentEnd
  <2>3. host' \in HostType
    BY <1>5, DroppedTyped DEF ContentEnd, TypeOK
  <2> QED BY <1>5, <2>1, <2>2, <2>3 DEF ContentEnd, TypeOK, SpentType
<1>6. CASE CommandStart
  BY <1>6 DEF CommandStart, TypeOK, HostType, WriterType, WriterPc
<1>7. CASE CommandReply
  <2>1. writer' \in WriterType
    BY <1>7 DEF CommandReply, TypeOK, WriterType, WriterPc
  <2>2. spent' \in SpentType
    BY <1>7, FailingTyped DEF CommandReply
  <2>3. conn' \in [Client -> ConnType]
    BY <1>7, ReplyCalm DEF CommandReply
  <2> QED BY <1>7, <2>1, <2>2, <2>3 DEF CommandReply, TypeOK, SpentType
<1>8. CASE CommandEnd
  <2>1. writer' \in WriterType
    BY <1>8 DEF CommandEnd, TypeOK, WriterType, WriterPc
  <2>2. Released \in Nat
    BY <1>8 DEF TypeOK, HostType, Released
  <2>3. [host EXCEPT !.pending = Released] \in HostType
    BY <1>8, <2>2 DEF TypeOK, HostType
  <2>4. host' \in HostType
    BY <1>8, <2>3, DroppedTyped DEF CommandEnd
  <2> QED BY <1>8, <2>1, <2>2, <2>3, <2>4 DEF CommandEnd, TypeOK, SpentType
<1>9. CASE CommandFail
  <2>1. writer' \in WriterType
    BY <1>9 DEF CommandFail, TypeOK, WriterType, WriterPc
  <2>2. spent' \in SpentType
    BY <1>9, FailingTyped DEF CommandFail
  <2>3. host' \in HostType
    BY <1>9, DroppedTyped DEF CommandFail, TypeOK
  <2>4. conn' \in [Client -> ConnType]
    BY <1>9, ReplyCalm DEF CommandFail
  <2> QED BY <1>9, <2>1, <2>2, <2>3, <2>4 DEF CommandFail, TypeOK, SpentType
<1> QED BY <1>1, <1>2, <1>3, <1>4, <1>5, <1>6, <1>7, <1>8, <1>9

\* Types: teardown, failure, the merge worker and the wakers.
LEMMA WriterType3 ==
    ASSUME TypeOK,
           \/ Teardown \/ WriterFailing \/ WriterFailed \/ MergeEnd \/ MergeBye
           \/ Event \/ IntakeFail \/ \E w \in Waker : Wake(w)
    PROVE  TypeOK'
<1> USE DEF Goto
<1>1. CASE Teardown
  <2>1. writer' \in WriterType
    BY <1>1 DEF Teardown, TypeOK, WriterType, WriterPc
  <2>2. inbox' \in InboxType /\ Len(inbox'.queue) <= Capacity
    BY <1>1, QueueTyped DEF Teardown
  <2>3. conn' \in [Client -> ConnType]
    BY <1>1, DropCalm DEF Teardown
  <2> QED BY <1>1, <2>1, <2>2, <2>3 DEF Teardown, TypeOK, SpentType
<1>2. CASE WriterFailing
  <2>1. writer' \in WriterType
    BY <1>2 DEF WriterFailing, TypeOK, WriterType, WriterPc
  <2>2. inbox' \in InboxType /\ Len(inbox'.queue) <= Capacity
    BY <1>2, QueueTyped DEF WriterFailing
  <2>3. conn' \in [Client -> ConnType]
    BY <1>2, DropCalm DEF WriterFailing
  <2> QED BY <1>2, <2>1, <2>2, <2>3 DEF WriterFailing, TypeOK, SpentType
<1>3. CASE WriterFailed
  BY <1>3, DrainCalm DEF WriterFailed, TypeOK, HostType, WriterType, WriterPc
<1>4. CASE MergeEnd
  BY <1>4 DEF MergeEnd, TypeOK, InboxType, Waker, WriterType
<1>5. CASE MergeBye
  <2>1. writer' \in WriterType
    BY <1>5 DEF MergeBye, TypeOK, WriterType, WriterPc
  <2>2. spent' \in SpentType
    BY <1>5, FailingTyped DEF MergeBye
  <2>3. host' \in HostType
    BY <1>5 DEF MergeBye, TypeOK, HostType
  <2> QED BY <1>5, <2>1, <2>2, <2>3 DEF MergeBye, TypeOK, SpentType
<1>6. CASE Event
  <2>1. writer' \in WriterType
    BY <1>6 DEF Event, TypeOK, WriterType, WriterPc
  <2>2. spent' \in SpentType
    BY <1>6 DEF Event, TypeOK, SpentType
  <2>3. inbox' \in InboxType /\ Len(inbox'.queue) <= Capacity
    BY <1>6 DEF Event, Waker, QueueDropped, TypeOK, InboxType
  <2> QED BY <1>6, <2>1, <2>2, <2>3 DEF Event, TypeOK, SpentType
<1>7. CASE IntakeFail
  <2>1. writer' \in WriterType
    BY <1>7 DEF IntakeFail, TypeOK, WriterType, WriterPc
  <2>2. spent' \in SpentType
    BY <1>7, FailingTyped DEF IntakeFail
  <2>3. host' \in HostType
    BY <1>7 DEF IntakeFail, TypeOK, HostType
  <2>4. conn' \in [Client -> ConnType]
    BY <1>7, DrainCalm DEF IntakeFail
  <2> QED BY <1>7, <2>1, <2>2, <2>3, <2>4 DEF IntakeFail, TypeOK, SpentType
<1>8. ASSUME NEW w \in Waker, WakeSwap(w) PROVE TypeOK'
  BY <1>8 DEF WakeSwap, TypeOK, InboxType
<1>9. ASSUME NEW w \in Waker, WakeSend(w) PROVE TypeOK'
  <2>1. CASE Room
    BY <1>9, <2>1, QueueTyped DEF WakeSend, TypeOK, InboxType
  <2>2. CASE ~Room
    BY <1>9, <2>2 DEF WakeSend, TypeOK, InboxType
  <2> QED BY <1>9, <2>1, <2>2 DEF WakeSend, TypeOK, SpentType
<1> QED BY <1>1, <1>2, <1>3, <1>4, <1>5, <1>6, <1>7, <1>8, <1>9 DEF Wake

\* The server loop.
LEMMA ServerType1 ==
    ASSUME TypeOK, ServerStep \/ IdleTimeout \/ AcceptError
    PROVE  TypeOK'
<1>1. CASE Look
  BY <1>1 DEF Look, Looked, TypeOK, HostType, ServerType
<1>2. CASE ServeWake
  BY <1>2 DEF ServeWake, TypeOK, HostType, ServerType
<1>3. ASSUME NEW c \in Client, Accept(c) PROVE TypeOK'
  <2>1. host' \in HostType
    BY <1>3 DEF Accept, TypeOK, HostType
  <2>2. server' \in ServerType
    BY <1>3 DEF Accept, TypeOK, ServerType
  <2>3. conn' \in [Client -> ConnType]
    BY <1>3, MoveCalm DEF Accept, HandlerPc
  <2> QED BY <1>3, <2>1, <2>2, <2>3 DEF Accept, TypeOK, SpentType
<1>4. CASE IdleTimeout
  BY <1>4 DEF IdleTimeout, TypeOK, ServerType
<1>5. CASE AcceptError
  <2>1. server' \in ServerType
    BY <1>5 DEF AcceptError, TypeOK, ServerType
  <2>2. spent' \in SpentType
    BY <1>5, FailingTyped DEF AcceptError
  <2> QED BY <1>5, <2>1, <2>2 DEF AcceptError, TypeOK, SpentType
<1>6. CASE StopWriter
  BY <1>6 DEF StopWriter, TypeOK, HostType, InboxType, Waker, ServerType
<1>7. CASE Join
  BY <1>7 DEF Join, TypeOK, ServerType
<1> QED BY <1>1, <1>2, <1>3, <1>4, <1>5, <1>6, <1>7 DEF ServerStep
--------------------------------------------------------------------------------
(* The connections' steps that no count and no queue is about.             *)

\* d stays among the connections each count and the queue are about.
Keeps(d) ==
    /\ conn'[d].at \in {"out", "queued", "bye", "gone"}
         <=> conn[d].at \in {"out", "queued", "bye", "gone"}
    /\ conn'[d].at = "query" <=> conn[d].at = "query"
    /\ conn'[d].at \in {"send", "refuse"} <=> conn[d].at \in {"send", "refuse"}
    /\ conn[d].at = "await" => conn'[d].at = "await"
    /\ conn'[d].reply = conn[d].reply

\* d stays asleep or awake, and ready to take or pass on a slot.
Still(d) ==
    /\ conn'[d].at = "AdmitWait" <=> conn[d].at = "AdmitWait"
    /\ conn[d].at = "notify" => conn'[d].at = "notify"
    /\ conn[d].at = "admit" => conn'[d].at = "admit"
    /\ conn'[d].cancelled = conn[d].cancelled

\* A step that ends in a place none of them names.
LEMMA PlainStill ==
    ASSUME NEW d, conn'[d].reply = conn[d].reply, conn'[d].cancelled = conn[d].cancelled,
           LET plain == {"start", "greet", "regreet", "GreetWait", "top", "recv", "answer",
                         "count", "after", "close", "leave"} IN
           \/ conn'[d].at = conn[d].at
           \/ conn[d].at \in plain /\ conn'[d].at \in plain \cup {"admit"}
           \/ conn[d].at = "out" /\ conn'[d].at = "queued"
           \/ conn[d].at = "bye" /\ conn'[d].at = "gone"
    PROVE  Keeps(d) /\ Still(d)
  BY DEF Keeps, Still

\* One connection's record is replaced.
LEMMA UpdateCalm ==
    ASSUME TypeOK, NEW c \in Client, NEW r \in ConnType, conn' = [conn EXCEPT ![c] = r]
    PROVE  /\ conn' \in [Client -> ConnType] /\ conn'[c] = r
           /\ \A d \in Client \ {c} : conn'[d] = conn[d]
  BY DEF TypeOK

QuietStep(c) ==
    \/ Connect(c) \/ Register(c) \/ Greet(c) \/ Regreet(c) \/ LoopTop(c) \/ RecvLine(c)
    \/ RecvWake(c) \/ RecvClosed(c) \/ Answer(c) \/ After(c) \/ Close(c) \/ Bye(c)
    \/ ReadLine(c) \/ ReadEnd(c) \/ ReadShut(c) \/ ReaderDone(c)

\* What the steps of a connection that touch no counter leave alone.
LEMMA QuietKeeps ==
    ASSUME TypeOK, NEW c \in Client, QuietStep(c)
    PROVE  /\ TypeOK' /\ \A d \in Client : Keeps(d) /\ Still(d)
           /\ host' \in {host, [host EXCEPT !.wake = TRUE]}
           /\ UNCHANGED <<inbox, writer, server, spent>>
<1>0. conn \in [Client -> ConnType] /\ conn[c] \in ConnType /\ host \in HostType
  BY DEF TypeOK
<1>1. /\ UNCHANGED <<inbox, writer, server, spent>>
      /\ host' \in {host, [host EXCEPT !.wake = TRUE]}
  BY DEF QuietStep, Connect, Register, Greet, Regreet, LoopTop, RecvLine, RecvWake,
         RecvClosed, Answer, After, Close, Bye, ReadLine, ReadEnd, ReadShut, ReaderDone,
         StaysPut
<1>2. host' \in HostType
  BY <1>0, <1>1 DEF HostType
<1> DEFINE Goal == /\ conn' \in [Client -> ConnType]
                   /\ \A d \in Client \ {c} : conn'[d] = conn[d]
                   /\ Keeps(c) /\ Still(c)
<1>3. ASSUME Connect(c) \/ Greet(c) \/ Regreet(c) \/ LoopTop(c) \/ RecvClosed(c)
               \/ Answer(c) \/ After(c) \/ Bye(c)
      PROVE  Goal
  <2>1. PICK x \in HandlerPc :
          /\ Move(c, x)
          /\ \/ conn[c].at = "out" /\ x = "queued"
             \/ conn[c].at = "bye" /\ x = "gone"
             \/ /\ conn[c].at \in {"greet", "regreet", "top", "recv", "answer", "after"}
                /\ x \in {"regreet", "GreetWait", "top", "recv", "close", "count", "after",
                          "admit"}
    BY <1>3 DEF Connect, Greet, Regreet, LoopTop, RecvClosed, Answer, After, Bye, Is, HandlerPc
  <2>2. Goal
    BY <2>1, MoveCalm, PlainStill
  <2> QED BY <2>2
<1>4. ASSUME NEW r \in ConnType, conn' = [conn EXCEPT ![c] = r],
             r.reply = conn[c].reply, r.cancelled = conn[c].cancelled,
             \/ r.at = conn[c].at
             \/ conn[c].at = "start" /\ r.at \in {"greet", "leave"}
             \/ conn[c].at = "recv" /\ r.at \in {"answer", "close", "top"}
             \/ conn[c].at = "close" /\ r.at = "leave"
      PROVE  Goal
  BY <1>4, UpdateCalm, PlainStill
<1>5. ASSUME Register(c) PROVE Goal
  <2>1. CASE Move(c, "leave")
    <3>1. [conn[c] EXCEPT !.at = "leave"] \in ConnType
      BY <1>0 DEF ConnType, HandlerPc
    <3> QED BY <1>4, <1>5, <2>1, <3>1 DEF Register, Move, Is, ConnType
  <2>2. CASE ~Move(c, "leave")
    <3> DEFINE r == [conn[c] EXCEPT !.at = "greet", !.registered = TRUE, !.reader = "reading"]
    <3>1. /\ r \in ConnType /\ r.reply = conn[c].reply /\ r.cancelled = conn[c].cancelled
          /\ r.at = "greet" /\ conn[c].at = "start" /\ conn' = [conn EXCEPT ![c] = r]
      BY <1>0, <1>5, <2>2 DEF Register, Is, ConnType, HandlerPc
    <3> QED BY <1>4, <3>1
  <2> QED BY <2>1, <2>2
<1>6. ASSUME RecvLine(c) PROVE Goal
  <2> DEFINE r == [conn[c] EXCEPT !.chan = "none", !.at = "answer"]
  <2>1. /\ r \in ConnType /\ r.reply = conn[c].reply /\ r.cancelled = conn[c].cancelled
        /\ r.at = "answer" /\ conn[c].at = "recv" /\ conn' = [conn EXCEPT ![c] = r]
    BY <1>0, <1>6 DEF RecvLine, Is, ConnType, HandlerPc
  <2> QED BY <1>4, <2>1
<1>7. ASSUME RecvWake(c) PROVE Goal
  <2> DEFINE x == IF conn[c].cancelled \/ host.draining THEN "close" ELSE "top"
             r == [conn[c] EXCEPT !.chan = "none", !.at = x]
  <2>0. x \in {"close", "top"}
    OBVIOUS
  <2>1. conn[c].at = "recv" /\ conn' = [conn EXCEPT ![c] = r]
    BY <1>7 DEF RecvWake, Is
  <2> HIDE DEF x
  <2>2. /\ r \in ConnType /\ r.reply = conn[c].reply /\ r.cancelled = conn[c].cancelled
        /\ r.at = x
    BY <1>0, <2>0 DEF ConnType, HandlerPc
  <2> HIDE DEF r
  <2> QED BY <1>4, <2>0, <2>1, <2>2
<1>8. ASSUME Close(c) PROVE Goal
  <2> DEFINE r == [conn[c] EXCEPT !.at = "leave", !.registered = FALSE]
  <2>1. /\ r \in ConnType /\ r.reply = conn[c].reply /\ r.cancelled = conn[c].cancelled
        /\ r.at = "leave" /\ conn[c].at = "close" /\ conn' = [conn EXCEPT ![c] = r]
    BY <1>0, <1>8 DEF Close, Is, ConnType, HandlerPc
  <2> QED BY <1>4, <2>1
<1>9. ASSUME ReadLine(c) PROVE Goal
  <2> DEFINE fits == conn[c].chan = "none" /\ conn[c].at \notin Ending
             r == [conn[c] EXCEPT !.lines = conn[c].lines - 1,
                                  !.chan = IF fits THEN "line" ELSE conn[c].chan,
                                  !.reader = IF fits THEN conn[c].reader ELSE "exit"]
  <2>1. conn[c].lines > 0 /\ conn' = [conn EXCEPT ![c] = r]
    BY <1>9 DEF ReadLine
  <2> HIDE DEF fits
  <2>2. /\ r \in ConnType /\ r.reply = conn[c].reply /\ r.cancelled = conn[c].cancelled
        /\ r.at = conn[c].at
    <3>1. conn[c].lines - 1 \in Nat
      BY <1>0, <2>1 DEF ConnType
    <3> QED BY <1>0, <3>1 DEF ConnType
  <2> HIDE DEF r
  <2> QED BY <1>4, <2>1, <2>2
<1>10. ASSUME ReadEnd(c) \/ ReadShut(c) PROVE Goal
  <2> DEFINE r == [conn[c] EXCEPT !.reader = "exit"]
  <2>1. /\ r \in ConnType /\ r.reply = conn[c].reply /\ r.cancelled = conn[c].cancelled
        /\ r.at = conn[c].at /\ conn' = [conn EXCEPT ![c] = r]
    BY <1>0, <1>10 DEF ReadEnd, ReadShut, ConnType
  <2> QED BY <1>4, <2>1
<1>11. ASSUME ReaderDone(c) PROVE Goal
  <2> DEFINE r == [conn[c] EXCEPT !.reader = "done", !.registered = FALSE]
  <2>1. /\ r \in ConnType /\ r.reply = conn[c].reply /\ r.cancelled = conn[c].cancelled
        /\ r.at = conn[c].at /\ conn' = [conn EXCEPT ![c] = r]
    BY <1>0, <1>11 DEF ReaderDone, ConnType
  <2> QED BY <1>4, <2>1
<1>12. Goal
  BY <1>3, <1>5, <1>6, <1>7, <1>8, <1>9, <1>10, <1>11 DEF QuietStep
<1>13. \A d \in Client \ {c} : Keeps(d) /\ Still(d)
  BY <1>12 DEF Keeps, Still
<1> QED BY <1>1, <1>2, <1>12, <1>13 DEF TypeOK
--------------------------------------------------------------------------------
(* Steps that change neither a count nor the queue.                        *)

Serves == Receiving /\ ~At("failing")

Commanded == writer.at \in {"command", "lane", "reply"}

\* The writer goes on serving the same command, or none.
WriterKeeps ==
    /\ writer'.at \in {"command", "lane"} =>
          writer.at \in {"command", "lane"} /\ writer'.command = writer.command
    /\ Serves' => Serves /\ (Commanded' <=> Commanded)

\* Why a reply may have been dropped.
Excused ==
    \/ host.fatal \/ server.broken \/ host.loaded = "failed"
    \/ writer.at \in {"failing", "failed", "unloaded"}

\* A step in which nobody enters or leaves a counted place, and no counter
\* moves, keeps the host's invariant.
LEMMA KeepsInv ==
    ASSUME TypeOK, HostInv, \A d \in Client : Keeps(d), WriterKeeps, LeaveInv', Excused => Excused',
           host'.clients = host.clients, host'.queries = host.queries,
           host'.pending = host.pending \/ ~Serves', inbox'.queue = inbox.queue
    PROVE  HostInv'
<1> USE DEF HostInv
<1>1. Active' = Active /\ Querying' = Querying /\ Sending' = Sending
  BY DEF Active, Querying, Sending, Keeps
<1>2. Queued' = Queued
  BY DEF Queued
<1>3. CountInv'
  BY <1>1 DEF CountInv
<1>4. QueueInv'
  <2>1. \A c \in Queued' : conn'[c].at = "await" /\ conn'[c].reply = "none"
    BY <1>2 DEF QueueInv, Keeps, Queued
  <2>2. ASSUME writer'.at \in {"command", "lane"}, NEW c \in writer'.command
        PROVE  c \notin Queued' /\ conn'[c].at = "await" /\ conn'[c].reply = "none"
    <3>1. c \in writer.command /\ c \in Client
      BY <2>2 DEF WriterKeeps, TypeOK, WriterType
    <3> QED BY <1>2, <2>2, <3>1 DEF QueueInv, Keeps, WriterKeeps
  <2>3. \A c \in Client : conn'[c].at # "await" => conn'[c].reply = "none"
    BY DEF QueueInv, Keeps
  <2> QED BY <2>1, <2>2, <2>3 DEF QueueInv
<1>5. PendingInv'
  BY <1>1, <1>2 DEF PendingInv, WriterKeeps, Serves, Commanded
<1>6. CommandsNotDropped'
  BY DEF CommandsNotDropped, Excused, Keeps
<1> QED BY <1>3, <1>4, <1>5, <1>6
\* What a drain or a notify_all does is quiet, too.
LEMMA CalmKeeps ==
    ASSUME \A d \in Client : Calm(d)
    PROVE  \A d \in Client : Keeps(d)
  BY DEF Calm, Keeps

\* Connections as they were.
LEMMA SameKeeps ==
    ASSUME \/ UNCHANGED conn
           \/ \A d \in Client : conn'[d].at = conn[d].at /\ conn'[d].reply = conn[d].reply
    PROVE  \A d \in Client : Keeps(d)
  BY DEF Keeps

QuietWriter ==
    \/ LoadReady \/ Top \/ Empty \/ TimeoutSoon \/ TimeoutFar \/ Took \/ TurnNothing
    \/ TurnRefresh \/ RefreshEnd \/ TurnContent \/ ContentEnd \/ CommandStart
    \/ MergeEnd \/ MergeBye \/ Event \/ IntakeFail \/ WriterFailed \/ LoadFailed

\* The writer's steps that neither take a command nor answer one.
LEMMA QuietWriterInv ==
    ASSUME TypeOK, HostInv, TypeOK', QuietWriter
    PROVE  HostInv'
<1> USE DEF At, Goto, OperationDropped
<1>1. \A d \in Client : Keeps(d)
  <2>1. CASE LoadReady \/ LoadFailed
    BY <2>1, ReadyCalm, CalmKeeps DEF LoadReady, LoadFailed
  <2>2. CASE IntakeFail \/ WriterFailed
    BY <2>2, DrainCalm, CalmKeeps DEF IntakeFail, WriterFailed
  <2>3. CASE UNCHANGED conn
    BY <2>3, SameKeeps
  <2> QED BY <2>1, <2>2, <2>3
          DEF QuietWriter, Top, Empty, TimeoutSoon, TimeoutFar, Took, TurnNothing,
              TurnRefresh, RefreshEnd, TurnContent, ContentEnd, CommandStart, MergeEnd,
              MergeBye, Event
<1>2. inbox'.queue = inbox.queue
  BY DEF QuietWriter, LoadReady, LoadFailed, IntakeFail, WriterFailed, Top, Empty,
         TimeoutSoon, TimeoutFar, Took, TurnNothing, TurnRefresh, RefreshEnd, TurnContent,
         ContentEnd, CommandStart, MergeEnd, MergeBye, Event, TypeOK, InboxType
<1> DEFINE Goal == /\ WriterKeeps /\ LeaveInv' /\ (Excused => Excused')
                   /\ host'.clients = host.clients /\ host'.queries = host.queries
                   /\ (host'.pending = host.pending \/ ~Serves')
<1>2a. LoadReady => /\ writer.at = "load" /\ writer'.at \in {"top", "failing"}
                    /\ server' = server /\ writer'.merge = writer.merge
  BY DEF LoadReady, TypeOK, WriterType
<1>2b. Empty \/ TimeoutSoon \/ TimeoutFar \/ Took \/ TurnNothing =>
         /\ host' = host /\ server' = server
         /\ writer.at \in {"empty", "block", "took", "turn"}
         /\ writer'.at \in {"turn", "block", "top"} /\ writer'.merge = writer.merge
  BY DEF Empty, TimeoutSoon, TimeoutFar, Took, TurnNothing, TypeOK, WriterType
<1>2c. Top => /\ host' = host /\ server' = server /\ writer.at = "top"
              /\ writer'.merge = writer.merge
              /\ writer'.at = IF host.stop THEN "teardown" ELSE "try"
  BY DEF Top, TypeOK, WriterType
<1> USE DEF HostInv, WriterKeeps, LeaveInv, Excused, Serves, Commanded, Receiving,
            TypeOK, HostType, WriterType, ServerType
<1>3. ASSUME LoadReady PROVE Goal
  <2>1. /\ host'.clients = host.clients /\ host'.queries = host.queries
        /\ host'.pending = host.pending /\ host'.stop = host.stop
        /\ host'.fatal = host.fatal
    BY <1>3 DEF LoadReady
  <2> QED BY <1>3, <1>2a, <2>1
<1>4. ASSUME Top PROVE Goal
  BY <1>4, <1>2c
<1>5. ASSUME Empty \/ TimeoutSoon \/ TimeoutFar \/ Took \/ TurnNothing PROVE Goal
  BY <1>5, <1>2b
<1>6. ASSUME TurnRefresh PROVE Goal
  BY <1>6 DEF TurnRefresh
<1>7. ASSUME RefreshEnd PROVE Goal
  <2>1. /\ host'.clients = host.clients /\ host'.queries = host.queries
        /\ host'.pending = host.pending /\ host'.stop = host.stop
        /\ host'.fatal = host.fatal /\ host'.loaded = host.loaded
    BY <1>7 DEF RefreshEnd
  <2>2. /\ writer.at = "refresh" /\ writer'.at \in {"top"} /\ server' = server
    BY <1>7 DEF RefreshEnd
  <2> QED BY <2>1, <2>2
<1>8. ASSUME TurnContent PROVE Goal
  <2>1. /\ host'.clients = host.clients /\ host'.queries = host.queries
        /\ host'.pending = host.pending /\ host'.stop = host.stop
        /\ host'.fatal = host.fatal /\ host'.loaded = host.loaded
    BY <1>8 DEF TurnContent
  <2>2. /\ writer.at = "turn" /\ writer'.at \in {"failing", "content", "top"}
        /\ server' = server
    BY <1>8 DEF TurnContent
  <2> QED BY <2>1, <2>2
<1>9. ASSUME ContentEnd PROVE Goal
  <2>1. /\ host'.clients = host.clients /\ host'.queries = host.queries
        /\ host'.pending = host.pending /\ host'.stop = host.stop
        /\ host'.fatal = host.fatal /\ host'.loaded = host.loaded
    BY <1>9 DEF ContentEnd
  <2>2. /\ writer.at = "content" /\ writer'.at \in {"top", "failing"} /\ server' = server
    BY <1>9 DEF ContentEnd
  <2> QED BY <2>1, <2>2
<1>10. ASSUME CommandStart PROVE Goal
  BY <1>10 DEF CommandStart
<1>11. ASSUME MergeEnd \/ MergeBye PROVE Goal
  BY <1>11 DEF MergeEnd, MergeBye
<1>12. ASSUME Event PROVE Goal
  BY <1>12 DEF Event
<1>13. ASSUME IntakeFail PROVE Goal
  BY <1>13 DEF IntakeFail
<1>14. ASSUME WriterFailed PROVE Goal
  BY <1>14 DEF WriterFailed
<1>15. ASSUME LoadFailed PROVE Goal
  BY <1>15 DEF LoadFailed
<1>16. Goal
  BY <1>3, <1>4, <1>5, <1>6, <1>7, <1>8, <1>9, <1>10, <1>11, <1>12, <1>13, <1>14, <1>15
  DEF QuietWriter
<1> QED BY <1>1, <1>2, <1>16, KeepsInv
--------------------------------------------------------------------------------
(* The queue.                                                              *)

InQueue(q) == {c \in Client : \E i \in 1 .. Len(q) : q[i] = c}

Once(q) == \A i, j \in 1 .. Len(q) : q[i] = q[j] /\ q[i] \in Client => i = j

\* Queue::receive takes the head, and its connection is queued no more.
LEMMA TailOnce ==
    ASSUME NEW q \in Seq(Client \cup {Intake}), q # <<>>, Once(q)
    PROVE  Once(Tail(q)) /\ InQueue(Tail(q)) = InQueue(q) \ {Head(q)}
           /\ (Head(q) \in Client => Head(q) \in InQueue(q))
<1>1. /\ Len(q) \in Nat /\ Len(q) > 0 /\ Head(q) = q[1] /\ Len(Tail(q)) = Len(q) - 1
      /\ \A i \in 1 .. Len(Tail(q)) : i + 1 \in 1 .. Len(q) /\ Tail(q)[i] = q[i + 1]
  OBVIOUS
<1>2. Once(Tail(q))
  BY <1>1 DEF Once
<1>3. ASSUME NEW c \in InQueue(Tail(q)) PROVE c \in InQueue(q) \ {Head(q)}
  <2>1. PICK i \in 1 .. Len(Tail(q)) : Tail(q)[i] = c
    BY <1>3 DEF InQueue
  <2>2. i + 1 \in 1 .. Len(q) /\ q[i + 1] = c /\ 1 \in 1 .. Len(q) /\ i + 1 # 1
    BY <1>1, <2>1
  <2>3. c \in Client
    BY <1>3 DEF InQueue
  <2>4. c # q[1]
    BY <2>2, <2>3 DEF Once
  <2> QED BY <1>1, <2>2, <2>3, <2>4 DEF InQueue
<1>4. ASSUME NEW c \in InQueue(q) \ {Head(q)} PROVE c \in InQueue(Tail(q))
  <2>1. PICK i \in 1 .. Len(q) : q[i] = c
    BY <1>4 DEF InQueue
  <2>2. i # 1
    BY <1>1, <1>4, <2>1
  <2>3. i - 1 \in 1 .. Len(Tail(q)) /\ Tail(q)[i - 1] = c
    BY <1>1, <2>1, <2>2
  <2> QED BY <1>4, <2>3 DEF InQueue
<1>5. Head(q) \in Client => Head(q) \in InQueue(q)
  BY <1>1 DEF InQueue
<1> QED BY <1>2, <1>3, <1>4, <1>5

\* A send adds a connection that was not queued.
LEMMA AppendOnce ==
    ASSUME NEW q \in Seq(Client \cup {Intake}), NEW x \in Client \cup {Intake}, Once(q),
           x \notin InQueue(q)
    PROVE  Once(Append(q, x)) /\ InQueue(Append(q, x)) = InQueue(q) \cup ({x} \cap Client)
<1> DEFINE r == Append(q, x)
<1>1. /\ Len(q) \in Nat /\ Len(r) = Len(q) + 1 /\ r[Len(q) + 1] = x
      /\ \A i \in 1 .. Len(q) : r[i] = q[i]
  OBVIOUS
<1> HIDE DEF r
<1>2. \A i \in 1 .. Len(r) : i \in 1 .. Len(q) \/ i = Len(q) + 1
  BY <1>1
<1>3. \A i \in 1 .. Len(q) : i \in 1 .. Len(r)
  BY <1>1
<1>4. Once(r)
  <2> SUFFICES ASSUME NEW i \in 1 .. Len(r), NEW j \in 1 .. Len(r), r[i] = r[j],
                      r[i] \in Client
               PROVE  i = j
    BY DEF Once
  <2>1. CASE i \in 1 .. Len(q) /\ j \in 1 .. Len(q)
    BY <1>1, <2>1 DEF Once
  <2>2. CASE i \in 1 .. Len(q) /\ j = Len(q) + 1
    BY <1>1, <2>2 DEF InQueue
  <2>3. CASE i = Len(q) + 1 /\ j \in 1 .. Len(q)
    BY <1>1, <2>3 DEF InQueue
  <2>4. CASE i = Len(q) + 1 /\ j = Len(q) + 1
    BY <2>4
  <2> QED BY <1>2, <2>1, <2>2, <2>3, <2>4
<1>5. InQueue(r) = InQueue(q) \cup ({x} \cap Client)
  <2>1. Len(q) + 1 \in 1 .. Len(r)
    BY <1>1
  <2> QED BY <1>1, <1>2, <1>3, <2>1 DEF InQueue
<1> QED BY <1>4, <1>5 DEF r
\* Nobody moves: the counts of connections stay.
LEMMA PlacesKept ==
    ASSUME \A d \in Client : conn'[d].at = conn[d].at
    PROVE  Active' = Active /\ Querying' = Querying /\ Sending' = Sending
  BY DEF Active, Querying, Sending

\* The counted sets are finite, and a member makes its count positive.
LEMMA CountsTyped ==
    /\ Cardinality(Active) \in Nat /\ Cardinality(Querying) \in Nat
    /\ Cardinality(Sending) \in Nat /\ Cardinality(Queued) \in Nat
    /\ \A c \in Active : Cardinality(Active) > 0
    /\ \A c \in Sending : Cardinality(Sending) > 0
<1>1. /\ Active \in SUBSET Client /\ Querying \in SUBSET Client /\ Sending \in SUBSET Client
      /\ Queued \in SUBSET Client
  BY DEF Active, Querying, Sending, Queued
<1>2. \A S \in SUBSET Client : IsFiniteSet(S)
  BY ClientAssumption, FS_Subset
<1>3. \A S \in SUBSET Client : Cardinality(S) \in Nat /\ (Cardinality(S) = 0 <=> S = {})
  BY <1>2, FS_CardinalityType, FS_EmptySet
<1> QED BY <1>1, <1>3

\* TryRecv and Blocked take a message.
LEMMA TakenInv ==
    ASSUME TypeOK, HostInv, writer.at \in {"try", "block"}, Taken,
           UNCHANGED <<host, conn, server, spent>>
    PROVE  HostInv'
<1> USE DEF HostInv
<1> DEFINE q == inbox.queue
           x == Head(inbox.queue)
<1>1. q \in Seq(Client \cup {Intake}) /\ Once(q) /\ Queued = InQueue(q) /\ Queued' = InQueue(q')
  BY DEF TypeOK, InboxType, QueueInv, Queued, Once, InQueue
<1>2. q # <<>> /\ inbox'.queue = Tail(q) /\ x \in Client \cup {Intake}
  BY QueueTyped
<1>3. /\ Once(inbox'.queue) /\ Queued' = Queued \ {x} /\ (x \in Client => x \in Queued)
  BY <1>1, <1>2, TailOnce
<1>4. Active' = Active /\ Querying' = Querying /\ Sending' = Sending
  BY PlacesKept
<1>5. /\ writer'.merge = writer.merge
      /\ \/ x \notin Client /\ writer'.at = "took"
         \/ x \in Client /\ writer'.at = "command" /\ writer'.command = {x}
  BY <1>2, ClientAssumption DEF Taken, TypeOK, WriterType
<1>6. CountInv'
  BY <1>4 DEF CountInv
<1>7. QueueInv'
  BY <1>3, <1>5 DEF QueueInv, Once
<1>8. LeaveInv'
  BY <1>5 DEF LeaveInv
<1>9. PendingInv'
  <2>1. CASE x \notin Client
    <3>1. Queued' = Queued
      BY <1>3, <2>1 DEF Queued
    <3> QED BY <1>4, <1>5, <2>1, <3>1 DEF PendingInv, Receiving, At
  <2>2. CASE x \in Client
    <3>1. Cardinality(Queued') = Cardinality(Queued) - 1
      <4>1. Queued \in SUBSET Client /\ Queued' \in SUBSET Client /\ Queued \ {x} = Queued' \ {x}
        BY <1>3 DEF Queued
      <4> QED BY <1>3, <2>2, <4>1, OneMore DEF One
    <3> QED BY <1>4, <1>5, <2>2, <3>1, CountsTyped DEF PendingInv, Receiving, At
  <2> QED BY <2>1, <2>2
<1>10. CommandsNotDropped'
  BY <1>5 DEF CommandsNotDropped
<1> QED BY <1>6, <1>7, <1>8, <1>9, <1>10

\* The receiver goes.  At the teardown no command is left in the queue unless
\* the listener broke: a queued command's client is still counted.
LEMMA DropInv ==
    ASSUME TypeOK, HostInv, LoadFail \/ Teardown \/ WriterFailing
    PROVE  HostInv'
<1> USE DEF HostInv
<1>1. /\ \A d \in Client :
            /\ conn'[d].at = conn[d].at
            /\ d \in Queued => conn'[d].reply = "dropped"
            /\ d \notin Queued => conn'[d] = conn[d]
      /\ inbox'.queue = <<>>
  BY DropCalm, QueueTyped DEF LoadFail, Teardown, WriterFailing
<1>2. Active' = Active /\ Querying' = Querying /\ Sending' = Sending
  BY <1>1, PlacesKept
<1>3. /\ host'.clients = host.clients /\ host'.queries = host.queries
      /\ host'.stop = host.stop /\ host'.fatal = host.fatal /\ host'.loaded = host.loaded
      /\ server' = server
  BY DEF LoadFail, Teardown, WriterFailing, OperationDropped, TypeOK, HostType
<1>4. \/ LoadFail /\ writer.at = "load" /\ writer'.at = "unloaded" /\ writer'.merge = writer.merge
      \/ Teardown /\ writer.at = "teardown" /\ writer'.at = "ended" /\ writer'.merge = "none"
      \/ WriterFailing /\ writer.at = "failing" /\ writer'.at = "failed" /\ writer'.merge = "none"
  BY DEF LoadFail, Teardown, WriterFailing, At, Goto, TypeOK, WriterType
<1>5. CountInv'
  BY <1>2, <1>3 DEF CountInv
<1>6. QueueInv'
  BY <1>1, <1>4 DEF QueueInv, Queued
<1>7. LeaveInv'
  BY <1>3, <1>4 DEF LeaveInv
<1>8. PendingInv'
  BY <1>4 DEF PendingInv, Receiving
<1>9. CommandsNotDropped'
  <2>1. CASE writer'.at # "ended"
    BY <1>4, <2>1 DEF CommandsNotDropped
  <2>2. CASE writer'.at = "ended" /\ Queued = {}
    BY <1>1, <1>3, <1>4, <2>2 DEF CommandsNotDropped
  <2>3. CASE writer'.at = "ended" /\ Queued # {}
    <3>1. PICK c \in Client : c \in Queued
      BY <2>3 DEF Queued
    <3>2. c \in Active
      BY <3>1 DEF QueueInv, Active
    <3>3. host.clients > 0
      BY <3>2, CountsTyped DEF CountInv
    <3>4. server.broken
      BY <1>4, <2>3, <3>3 DEF LeaveInv
    <3> QED BY <1>3, <3>4 DEF CommandsNotDropped
  <2> QED BY <2>1, <2>2, <2>3
<1> QED BY <1>5, <1>6, <1>7, <1>8, <1>9
\* A command runs, and its client hears of it or loses the sender.
LEMMA CommandInv ==
    ASSUME TypeOK, HostInv, CommandReply \/ CommandEnd \/ CommandFail
    PROVE  HostInv'
<1> USE DEF HostInv
<1>1. /\ \A d \in Client : /\ conn'[d].at = conn[d].at
                           /\ d \notin writer.command \/ CommandEnd => conn'[d] = conn[d]
                           /\ d \in writer.command /\ CommandReply => conn'[d].reply = "done"
      /\ inbox' = inbox
  BY ReplyCalm DEF CommandReply, CommandEnd, CommandFail
<1>2. Active' = Active /\ Querying' = Querying /\ Sending' = Sending /\ Queued' = Queued
  BY <1>1, PlacesKept DEF Queued
<1>3. /\ host'.clients = host.clients /\ host'.queries = host.queries
      /\ host'.stop = host.stop /\ host'.fatal = host.fatal /\ host'.loaded = host.loaded
      /\ server' = server
      /\ host'.pending = IF CommandEnd THEN Released ELSE host.pending
  <2>1. CASE CommandReply
    BY <2>1 DEF CommandReply, CommandEnd, At
  <2>2. CASE CommandEnd
    BY <2>2 DEF CommandEnd, OperationDropped, TypeOK, HostType
  <2>3. CASE CommandFail
    BY <2>3 DEF CommandFail, CommandEnd, At, OperationDropped, TypeOK, HostType
  <2> QED BY <2>1, <2>2, <2>3
<1>4. /\ writer'.merge = writer.merge
      /\ \/ CommandReply /\ writer.at = "lane" /\ writer'.at = "reply"
         \/ CommandEnd /\ writer.at = "reply" /\ writer'.at = "top"
         \/ CommandFail /\ writer.at = "lane" /\ writer'.at = "failing"
  BY DEF CommandReply, CommandEnd, CommandFail, At, Goto, TypeOK, WriterType
<1>5. CountInv'
  BY <1>2, <1>3 DEF CountInv
<1>6. QueueInv'
  <2>1. \A c \in Queued' : conn'[c].at = "await" /\ conn'[c].reply = "none"
    BY <1>1, <1>2, <1>4 DEF QueueInv, Queued
  <2> QED BY <1>1, <1>2, <1>4, <2>1 DEF QueueInv
<1>7. LeaveInv'
  BY <1>3, <1>4 DEF LeaveInv
<1>8. PendingInv'
  <2>1. CASE CommandReply
    BY <1>2, <1>3, <1>4, <2>1 DEF PendingInv, Receiving, At, CommandEnd, CommandReply
  <2>2. CASE CommandEnd
    <3>1. /\ writer.at = "reply" /\ writer'.at = "top"
          /\ host.pending = Cardinality(Sending) + Cardinality(Queued) + 1
      BY <1>4, <2>2 DEF PendingInv, Receiving, At, CommandEnd
    <3>2. host'.pending = host.pending - 1
      BY <1>3, <2>2, <3>1, CountsTyped DEF Released
    <3> QED BY <1>2, <3>1, <3>2, CountsTyped DEF PendingInv
  <2>3. CASE CommandFail
    BY <1>4, <2>3 DEF PendingInv, Receiving, At, CommandEnd, CommandFail
  <2> QED BY <2>1, <2>2, <2>3
<1>9. CommandsNotDropped'
  <2>1. CASE CommandReply \/ CommandEnd
    <3>1. \A d \in Client : conn'[d].reply = "dropped" => conn[d].reply = "dropped"
      <4>1. CASE CommandReply
        BY <1>1, <4>1
      <4>2. CASE CommandEnd
        BY <1>1, <4>2
      <4> QED BY <2>1, <4>1, <4>2
    <3>2. writer.at \in {"lane", "reply"}
      BY <2>1 DEF CommandReply, CommandEnd, At
    <3> QED BY <1>3, <3>1, <3>2 DEF CommandsNotDropped
  <2>2. CASE CommandFail
    BY <2>2 DEF CommandFail, CommandsNotDropped, TypeOK, WriterType
  <2> QED BY <2>1, <2>2
<1> QED BY <1>5, <1>6, <1>7, <1>8, <1>9

\* Queue::wake puts a message in the queue that is nobody's command.
LEMMA WakeInv ==
    ASSUME TypeOK, HostInv, NEW w \in Waker, Wake(w)
    PROVE  HostInv'
<1> USE DEF HostInv
<1>1. UNCHANGED <<host, conn, writer, server>>
  BY DEF Wake, WakeSwap, WakeSend
<1>2. inbox.queue \in Seq(Client \cup {Intake}) /\ Once(inbox.queue) /\ Queued = InQueue(inbox.queue)
  BY DEF TypeOK, InboxType, QueueInv, Queued, Once, InQueue
<1>3. inbox'.queue = inbox.queue \/ inbox'.queue = Append(inbox.queue, Intake)
  BY DEF Wake, WakeSwap, WakeSend, TypeOK, InboxType
<1>4. Once(inbox'.queue) /\ InQueue(inbox'.queue) = InQueue(inbox.queue)
  <2>1. Intake \notin InQueue(inbox.queue) /\ {Intake} \cap Client = {}
    BY ClientAssumption DEF InQueue
  <2> QED BY <1>2, <1>3, <2>1, AppendOnce
<1>5. Queued' = Queued
  BY <1>2, <1>4 DEF Queued, InQueue
<1>6. Active' = Active /\ Querying' = Querying /\ Sending' = Sending
  BY <1>1, PlacesKept
<1>7. CountInv' /\ LeaveInv'
  BY <1>1, <1>6 DEF CountInv, LeaveInv
<1>8. QueueInv'
  BY <1>1, <1>4, <1>5 DEF QueueInv, Once
<1>9. PendingInv'
  BY <1>1, <1>5, <1>6 DEF PendingInv, Receiving, At
<1>10. CommandsNotDropped'
  BY <1>1 DEF CommandsNotDropped
<1> QED BY <1>7, <1>8, <1>9, <1>10

\* The writer, its merge worker and watch intake.
LEMMA WriterInv ==
    ASSUME TypeOK, HostInv, TypeOK',
           \/ WriterStep \/ MergeStep \/ TimeoutFar \/ LoadFail \/ CommandFail \/ Event
           \/ IntakeFail
    PROVE  HostInv'
<1>1. CASE TryRecv \/ Blocked
  <2>1. CASE Taken
    BY <1>1, <2>1, TakenInv DEF TryRecv, Blocked, At
  <2>2. CASE ~Taken
    <3>1. /\ UNCHANGED <<host, inbox, conn, server>> /\ writer.at = "try"
          /\ writer'.at = "empty" /\ writer'.merge = writer.merge
      BY <1>1, <2>2 DEF TryRecv, Blocked, At, Goto, TypeOK, WriterType
    <3>2. \A d \in Client : Keeps(d)
      BY <3>1, SameKeeps
    <3>3. WriterKeeps /\ (Excused => Excused')
      BY <3>1 DEF WriterKeeps, Serves, Commanded, Receiving, At, Excused
    <3>4. LeaveInv'
      BY <3>1 DEF HostInv, LeaveInv
    <3> QED BY <3>1, <3>2, <3>3, <3>4, KeepsInv
  <2> QED BY <2>1, <2>2
<1>2. CASE QuietWriter
  BY <1>2, QuietWriterInv
<1>3. CASE LoadFail \/ Teardown \/ WriterFailing
  BY <1>3, DropInv
<1>4. CASE CommandReply \/ CommandEnd \/ CommandFail
  BY <1>4, CommandInv
<1> QED BY <1>1, <1>2, <1>3, <1>4 DEF WriterStep, MergeStep, QuietWriter
--------------------------------------------------------------------------------
(* The server loop, and the steps by which a connection is counted.        *)

\* The server loop and the exit.
LEMMA ServerInv ==
    ASSUME TypeOK, HostInv,
           \/ Look \/ ServeWake \/ IdleTimeout \/ AcceptError \/ StopWriter \/ Join
    PROVE  HostInv'
<1>1. \A d \in Client : Keeps(d)
  <2>1. UNCHANGED conn
    BY DEF Look, Looked, ServeWake, IdleTimeout, AcceptError, StopWriter, Join
  <2> QED BY <2>1, SameKeeps
<1>2. /\ writer' = writer /\ inbox'.queue = inbox.queue
      /\ host'.clients = host.clients /\ host'.queries = host.queries
      /\ host'.pending = host.pending /\ host'.loaded = host.loaded
      /\ host'.fatal = host.fatal
  BY DEF Look, Looked, ServeWake, IdleTimeout, AcceptError, StopWriter, Join,
         TypeOK, HostType, InboxType
<1>3. WriterKeeps
  BY <1>2 DEF WriterKeeps, Serves, Commanded, Receiving, At
<1> USE DEF HostInv, Serving
<1>4. ASSUME Look PROVE LeaveInv' /\ (Excused => Excused')
  <2>1. CASE server'.at = "stop"
    <3>1. server'.broken = server.broken /\ host' = host /\ host.clients = 0
      BY <1>4, <2>1 DEF Look, Looked, Done, TypeOK, ServerType
    <3> QED BY <1>2, <1>4, <2>1, <3>1 DEF Look, Looked, LeaveInv, Excused
  <2>2. CASE server'.at # "stop"
    <3>1. /\ server'.broken = server.broken /\ host' = host /\ server'.at = "recv"
          /\ server.at = "look"
      BY <1>4, <2>2 DEF Look, Looked, TypeOK, ServerType
    <3> QED BY <1>2, <3>1 DEF LeaveInv, Excused
  <2> QED BY <2>1, <2>2
<1>5. ASSUME ServeWake \/ IdleTimeout PROVE LeaveInv' /\ (Excused => Excused')
  <2>1. /\ server.at = "recv" /\ server'.at = "look" /\ server'.broken = server.broken
        /\ host'.stop = host.stop
    BY <1>5 DEF ServeWake, IdleTimeout, TypeOK, ServerType, HostType
  <2> QED BY <1>2, <2>1 DEF LeaveInv, Excused
<1>6. ASSUME AcceptError PROVE LeaveInv' /\ (Excused => Excused')
  <2>1. /\ server.at = "recv" /\ server'.at = "stop" /\ server'.broken /\ host' = host
    BY <1>6 DEF AcceptError, TypeOK, ServerType
  <2> QED BY <1>2, <2>1 DEF LeaveInv, Excused
<1>7. ASSUME StopWriter PROVE LeaveInv' /\ (Excused => Excused')
  <2>1. /\ server.at = "stop" /\ server'.at = "join" /\ server'.broken = server.broken
        /\ host'.stop
    BY <1>7 DEF StopWriter, TypeOK, ServerType, HostType
  <2> QED BY <1>2, <2>1 DEF LeaveInv, Excused
<1>8. ASSUME Join PROVE LeaveInv' /\ (Excused => Excused')
  <2>1. /\ server.at = "join" /\ server'.at = "exited" /\ server'.broken = server.broken
        /\ host' = host /\ writer.at = "ended"
    BY <1>8 DEF Join, TypeOK, ServerType
  <2> QED BY <1>2, <2>1 DEF LeaveInv, Excused
<1> QED BY <1>1, <1>2, <1>3, <1>4, <1>5, <1>6, <1>7, <1>8, KeepsInv

\* One connection moves.
LEMMA MoveCounts ==
    ASSUME NEW c \in Client, \A d \in Client \ {c} : Keeps(d)
    PROVE  /\ Cardinality(Active') = Cardinality(Active) + One(c \in Active') - One(c \in Active)
           /\ Cardinality(Querying')
                = Cardinality(Querying) + One(c \in Querying') - One(c \in Querying)
           /\ Cardinality(Sending')
                = Cardinality(Sending) + One(c \in Sending') - One(c \in Sending)
<1>1. /\ Active \in SUBSET Client /\ Active' \in SUBSET Client
      /\ Querying \in SUBSET Client /\ Querying' \in SUBSET Client
      /\ Sending \in SUBSET Client /\ Sending' \in SUBSET Client
  BY DEF Active, Querying, Sending
<1>2. /\ Active \ {c} = Active' \ {c} /\ Querying \ {c} = Querying' \ {c}
      /\ Sending \ {c} = Sending' \ {c}
  BY DEF Active, Querying, Sending, Keeps
<1> QED BY <1>1, <1>2, OneMore

\* The queue and the writer stay, and c was not waiting for a reply.
LEMMA MoveQueue ==
    ASSUME TypeOK, HostInv, NEW c \in Client, \A d \in Client \ {c} : Keeps(d),
           conn[c].at # "await", conn'[c].reply = conn[c].reply, UNCHANGED <<inbox, writer>>
    PROVE  QueueInv' /\ Queued' = Queued
<1>1. Queued' = Queued
  BY DEF Queued
<1>2. c \notin Queued /\ (writer.at \in {"command", "lane"} => c \notin writer.command)
  BY DEF HostInv, QueueInv
<1>3. writer.command \subseteq Client /\ Queued \subseteq Client
  BY DEF TypeOK, WriterType, Queued
<1> QED BY <1>1, <1>2, <1>3 DEF HostInv, QueueInv, Keeps

\* A step whose changes of the counts are those of the connection that moves.
LEMMA CountedStep ==
    ASSUME TypeOK, HostInv, NEW c \in Client, \A d \in Client \ {c} : Keeps(d),
           conn[c].at # "await", conn'[c].reply = conn[c].reply,
           UNCHANGED <<inbox, writer>>, LeaveInv', Excused => Excused',
           host'.clients = host.clients + One(c \in Active') - One(c \in Active),
           host'.queries = host.queries + One(c \in Querying') - One(c \in Querying),
           Serves => host'.pending = host.pending + One(c \in Sending') - One(c \in Sending)
    PROVE  HostInv'
<1> USE DEF HostInv
<1>1. CountInv'
  BY MoveCounts DEF CountInv
<1>2. QueueInv' /\ Queued' = Queued
  BY MoveQueue
<1>3. PendingInv'
  <2>1. Serves' => Serves /\ (Commanded' <=> Commanded)
    BY DEF Serves, Receiving, At, Commanded
  <2>2. SUFFICES ASSUME Serves
                 PROVE  host'.pending = Cardinality(Sending') + Cardinality(Queued)
                                          + (IF Commanded THEN 1 ELSE 0)
    BY <1>2, <2>1 DEF PendingInv, Serves, Receiving, At, Commanded
  <2>3. host.pending = Cardinality(Sending) + Cardinality(Queued)
                         + (IF Commanded THEN 1 ELSE 0)
    BY <2>2 DEF PendingInv, Serves, Commanded
  <2>4. One(c \in Sending') \in Nat /\ One(c \in Sending) \in Nat
    BY DEF One
  <2> HIDE DEF HostInv
  <2> QED BY <2>2, <2>3, <2>4, MoveCounts, CountsTyped
<1>4. CommandsNotDropped'
  BY DEF CommandsNotDropped, Excused, Keeps
<1> QED BY <1>1, <1>2, <1>3, <1>4

\* Accept, QueryPermit, ClientCount's drop, and execute's count and refusal.
LEMMA AcceptInv ==
    ASSUME TypeOK, HostInv, NEW c \in Client, Accept(c)
    PROVE  HostInv'
<1>1. /\ conn[c].at = "queued" /\ server.at = "recv"
      /\ UNCHANGED <<inbox, writer>> /\ server'.at = "look" /\ server'.broken = server.broken
      /\ \/ Move(c, "start") /\ host' = [host EXCEPT !.clients = @ + 1]
         \/ Move(c, "gone") /\ host' = host
  BY DEF Accept, Is, Serving, TypeOK, ServerType
<1>2. /\ \A d \in Client \ {c} : conn'[d] = conn[d]
      /\ conn'[c].reply = conn[c].reply
      /\ \/ conn'[c].at = "start" /\ host'.clients = host.clients + 1
         \/ conn'[c].at = "gone" /\ host'.clients = host.clients
      /\ host'.queries = host.queries /\ host'.pending = host.pending
      /\ host'.stop = host.stop /\ host'.fatal = host.fatal /\ host'.loaded = host.loaded
  <2>1. "start" \in HandlerPc /\ "gone" \in HandlerPc
    BY DEF HandlerPc
  <2>2. CASE Move(c, "start") /\ host' = [host EXCEPT !.clients = @ + 1]
    BY <2>1, <2>2, MoveCalm DEF TypeOK, HostType
  <2>3. CASE Move(c, "gone") /\ host' = host
    BY <2>1, <2>3, MoveCalm
  <2> QED BY <1>1, <2>2, <2>3
<1>3. \A d \in Client \ {c} : Keeps(d)
  BY <1>2 DEF Keeps
<1>4. LeaveInv' /\ (Excused => Excused')
  BY <1>1, <1>2 DEF HostInv, LeaveInv, Excused
<1>5. /\ host'.clients = host.clients + One(c \in Active') - One(c \in Active)
      /\ host'.queries = host.queries + One(c \in Querying') - One(c \in Querying)
      /\ host'.pending = host.pending + One(c \in Sending') - One(c \in Sending)
  BY <1>1, <1>2 DEF One, Active, Querying, Sending, TypeOK, HostType
<1> QED BY <1>1, <1>2, <1>3, <1>4, <1>5, CountedStep
\* A handler's step that moves c, with what it does to the counts in Host.
Counts(c) ==
    /\ UNCHANGED <<inbox, writer, server, spent>>
    /\ host' \in HostType /\ conn' \in [Client -> ConnType]
    /\ host'.stop = host.stop /\ host'.fatal = host.fatal /\ host'.loaded = host.loaded
    /\ host'.draining = host.draining
    /\ \A d \in Client \ {c} : Calm(d)
    /\ conn'[c].reply = conn[c].reply /\ conn'[c].cancelled = conn[c].cancelled

\* admit_query: refused while draining, given a slot, or put to sleep.
LEMMA AdmitFacts ==
    ASSUME TypeOK, NEW c \in Client, Admit(c)
    PROVE  /\ Counts(c) /\ \A d \in Client \ {c} : conn'[d] = conn[d]
           /\ conn[c].at = "admit" /\ host'.clients = host.clients
           /\ host'.pending = host.pending
           /\ \/ /\ conn'[c].at = "close" /\ host'.queries = host.queries
                 /\ host.draining \/ conn[c].cancelled
              \/ /\ conn'[c].at = "query" /\ host'.queries = host.queries + 1
                 /\ ~conn[c].cancelled
              \/ /\ conn'[c].at = "AdmitWait" /\ host'.queries = host.queries
                 /\ ~host.draining /\ ~conn[c].cancelled /\ host.queries >= QueryLimit
<1>1. conn[c].at = "admit" /\ UNCHANGED <<inbox, writer, server, spent>>
  BY DEF Admit, Is, StaysPut
<1>2. "close" \in HandlerPc /\ "query" \in HandlerPc /\ "AdmitWait" \in HandlerPc
  BY DEF HandlerPc
<1>3. CASE Move(c, "close") /\ host' = host /\ (host.draining \/ conn[c].cancelled)
  BY <1>1, <1>2, <1>3, MoveCalm DEF Counts, Calm, TypeOK
<1>4. CASE Move(c, "query") /\ host' = [host EXCEPT !.queries = @ + 1] /\ ~conn[c].cancelled
  <2>1. /\ host' \in HostType /\ host'.queries = host.queries + 1
        /\ host'.clients = host.clients /\ host'.pending = host.pending
        /\ host'.stop = host.stop /\ host'.fatal = host.fatal /\ host'.loaded = host.loaded
        /\ host'.draining = host.draining
    BY <1>4 DEF TypeOK, HostType
  <2> QED BY <1>1, <1>2, <1>4, <2>1, MoveCalm DEF Counts, Calm
<1>5. CASE /\ Move(c, "AdmitWait") /\ host' = host
           /\ ~host.draining /\ ~conn[c].cancelled /\ host.queries >= QueryLimit
  BY <1>1, <1>2, <1>5, MoveCalm DEF Counts, Calm, TypeOK
<1> QED BY <1>3, <1>4, <1>5 DEF Admit

\* QueryPermit::drop lowers the count of queries.
LEMMA ReleaseFacts ==
    ASSUME TypeOK, HostInv, NEW c \in Client, Release(c)
    PROVE  /\ Counts(c) /\ \A d \in Client \ {c} : conn'[d] = conn[d]
           /\ conn[c].at = "query" /\ conn'[c].at = "notify"
           /\ host'.clients = host.clients /\ host'.pending = host.pending
           /\ host'.queries = host.queries - 1
<1>1. /\ conn[c].at = "query" /\ Move(c, "notify") /\ UNCHANGED <<inbox, writer, server, spent>>
      /\ host' = [host EXCEPT !.queries = @ - 1]
  BY DEF Release, Is, StaysPut
<1>2. "notify" \in HandlerPc
  BY DEF HandlerPc
<1>3. host.queries - 1 \in Nat
  <2>1. Querying \in SUBSET Client /\ c \in Querying
    BY <1>1 DEF Querying
  <2>2. Cardinality(Querying) > 0 /\ Cardinality(Querying) \in Nat
    BY <2>1, OneMore
  <2> QED BY <2>2 DEF HostInv, CountInv
<1>4. /\ host' \in HostType /\ host'.queries = host.queries - 1
      /\ host'.clients = host.clients /\ host'.pending = host.pending
      /\ host'.stop = host.stop /\ host'.fatal = host.fatal /\ host'.loaded = host.loaded
      /\ host'.draining = host.draining
  BY <1>1, <1>3 DEF TypeOK, HostType
<1> QED BY <1>1, <1>2, <1>4, MoveCalm DEF Counts, Calm

\* execute announces a command before it is sent, and takes it back when the
\* queue refuses it.
LEMMA CountFacts ==
    ASSUME TypeOK, NEW c \in Client, Count(c) \/ Refuse(c)
    PROVE  /\ Counts(c) /\ \A d \in Client \ {c} : conn'[d] = conn[d]
           /\ host'.clients = host.clients /\ host'.queries = host.queries
           /\ \/ /\ conn[c].at = "count" /\ conn'[c].at = "send"
                 /\ host'.pending = host.pending + 1
              \/ /\ conn[c].at = "refuse" /\ conn'[c].at = "after"
                 /\ host'.pending = Released
<1>0. UNCHANGED <<inbox, writer, server, spent>> /\ host.pending \in Nat /\ Released \in Nat
  BY DEF Count, Refuse, StaysPut, TypeOK, HostType, Released
<1>1. "send" \in HandlerPc /\ "after" \in HandlerPc
  BY DEF HandlerPc
<1>2. \A n \in Nat : LET h == [host EXCEPT !.pending = n] IN
         /\ h \in HostType /\ h.pending = n /\ h.clients = host.clients
         /\ h.queries = host.queries /\ h.stop = host.stop /\ h.fatal = host.fatal
         /\ h.loaded = host.loaded /\ h.draining = host.draining
  BY DEF TypeOK, HostType
<1>3. CASE Count(c)
  <2>1. Move(c, "send") /\ conn[c].at = "count" /\ host' = [host EXCEPT !.pending = host.pending + 1]
    BY <1>3 DEF Count, Is
  <2> QED BY <1>0, <1>1, <1>2, <2>1, MoveCalm DEF Counts, Calm
<1>4. CASE Refuse(c)
  <2>1. Move(c, "after") /\ conn[c].at = "refuse" /\ host' = [host EXCEPT !.pending = Released]
    BY <1>4 DEF Refuse, Is
  <2> QED BY <1>0, <1>1, <1>2, <2>1, MoveCalm DEF Counts, Calm
<1> QED BY <1>3, <1>4

\* ClientCount::drop lowers the count of clients.
LEMMA LeaveFacts ==
    ASSUME TypeOK, HostInv, NEW c \in Client, Leave(c)
    PROVE  /\ Counts(c) /\ conn[c].at = "leave" /\ conn'[c].at = "bye"
           /\ \A d \in Client : conn'[d].at # "AdmitWait"
           /\ host.clients > 0 /\ host'.clients = host.clients - 1
           /\ host'.pending = host.pending /\ host'.queries = host.queries
<1>1. /\ conn[c].at = "leave" /\ UNCHANGED <<inbox, writer, server, spent>>
      /\ host' = [host EXCEPT !.clients = @ - 1]
  BY DEF Leave, Is, StaysPut
<1>2. host.clients \in Nat /\ host.clients > 0
  <2>1. c \in Active
    BY <1>1 DEF Active
  <2> QED BY <2>1, CountsTyped DEF HostInv, CountInv
<1>3. /\ host' \in HostType /\ host'.clients = host.clients - 1
      /\ host'.queries = host.queries /\ host'.pending = host.pending
      /\ host'.stop = host.stop /\ host'.fatal = host.fatal /\ host'.loaded = host.loaded
      /\ host'.draining = host.draining
  BY <1>1, <1>2 DEF TypeOK, HostType
<1> DEFINE moved == [conn EXCEPT ![c] = [conn[c] EXCEPT !.at = "bye"]]
<1>4. conn' = ChangeNotified(moved)
  BY DEF Leave
<1>5. /\ moved \in [Client -> ConnType] /\ moved[c].at = "bye"
      /\ moved[c].reply = conn[c].reply /\ moved[c].cancelled = conn[c].cancelled
      /\ \A d \in Client \ {c} : moved[d] = conn[d]
  <2>1. conn \in [Client -> ConnType]
    BY DEF TypeOK
  <2>2. LET r == [conn[c] EXCEPT !.at = "bye"] IN
        /\ r \in ConnType /\ r.at = "bye" /\ r.reply = conn[c].reply
        /\ r.cancelled = conn[c].cancelled
    BY <2>1 DEF ConnType, HandlerPc
  <2> QED BY <2>1, <2>2
<1> HIDE DEF moved
<1>6. /\ conn' \in [Client -> ConnType]
      /\ \A d \in Client :
            /\ conn'[d].at = IF moved[d].at = "AdmitWait" THEN "admit" ELSE moved[d].at
            /\ conn'[d].reply = moved[d].reply /\ conn'[d].cancelled = moved[d].cancelled
  BY <1>4, <1>5, ChangeCalm
<1>7. conn'[c].at = "bye" /\ \A d \in Client : conn'[d].at # "AdmitWait"
  BY <1>5, <1>6
<1>8. \A d \in Client \ {c} : Calm(d)
  BY <1>5, <1>6 DEF Calm
<1> QED BY <1>1, <1>2, <1>3, <1>5, <1>6, <1>7, <1>8 DEF Counts

\* notify_one wakes one sleeping query, if one sleeps.
LEMMA NotifyFacts ==
    ASSUME TypeOK, NEW c \in Client, Notify(c)
    PROVE  /\ Counts(c) /\ host' = host
           /\ conn[c].at = "notify" /\ conn'[c].at = "after"
           /\ \/ Asleep = {} /\ \A d \in Client \ {c} : conn'[d] = conn[d]
              \/ \E d \in Asleep :
                    /\ d # c /\ conn'[d].at = "admit" /\ conn'[d].cancelled = conn[d].cancelled
                    /\ \A e \in Client \ {c, d} : conn'[e] = conn[e]
<1>1. /\ conn[c].at = "notify" /\ UNCHANGED <<host, inbox, writer, server, spent>>
      /\ \/ Asleep = {} /\ Move(c, "after")
         \/ \E d \in Asleep : conn' = [conn EXCEPT ![c].at = "after", ![d].at = "admit"]
  BY DEF Notify, Is, StaysPut, Asleep
<1>2. host' \in HostType
  BY <1>1 DEF TypeOK
<1>3. CASE Asleep = {} /\ Move(c, "after")
  <2>1. "after" \in HandlerPc
    BY DEF HandlerPc
  <2> QED BY <1>1, <1>2, <1>3, <2>1, MoveCalm DEF Counts, Calm
<1>4. ASSUME NEW d \in Asleep, conn' = [conn EXCEPT ![c].at = "after", ![d].at = "admit"]
      PROVE  /\ Counts(c) /\ conn'[c].at = "after"
             /\ d # c /\ conn'[d].at = "admit" /\ conn'[d].cancelled = conn[d].cancelled
             /\ \A e \in Client \ {c, d} : conn'[e] = conn[e]
  <2>1. d \in Client /\ d # c /\ conn[d].at = "AdmitWait"
    BY <1>1 DEF Asleep
  <2>2. /\ conn \in [Client -> ConnType]
        /\ conn' = [conn EXCEPT ![c] = [conn[c] EXCEPT !.at = "after"],
                                ![d] = [conn[d] EXCEPT !.at = "admit"]]
    BY <1>4, <2>1 DEF TypeOK
  <2>3. LET r == [conn[c] EXCEPT !.at = "after"] IN
        /\ r \in ConnType /\ r.at = "after" /\ r.reply = conn[c].reply
        /\ r.cancelled = conn[c].cancelled
    BY <2>2 DEF ConnType, HandlerPc
  <2>4. LET r == [conn[d] EXCEPT !.at = "admit"] IN
        /\ r \in ConnType /\ r.at = "admit" /\ r.reply = conn[d].reply
        /\ r.cancelled = conn[d].cancelled
    BY <2>1, <2>2 DEF ConnType, HandlerPc
  <2>5. /\ conn' \in [Client -> ConnType] /\ \A e \in Client \ {c, d} : conn'[e] = conn[e]
        /\ conn'[c] = [conn[c] EXCEPT !.at = "after"] /\ conn'[d] = [conn[d] EXCEPT !.at = "admit"]
    BY <2>1, <2>2, <2>3, <2>4
  <2>6. \A e \in Client \ {c} : Calm(e)
    BY <2>1, <2>4, <2>5 DEF Calm
  <2> QED BY <1>1, <1>2, <2>1, <2>3, <2>4, <2>5, <2>6 DEF Counts
<1> QED BY <1>1, <1>3, <1>4

\* Types: the steps of a connection that touch a counter.
LEMMA CountsType ==
    ASSUME TypeOK, NEW c \in Client, Counts(c)
    PROVE  TypeOK' /\ \A d \in Client \ {c} : Keeps(d)
<1>1. \A d \in Client \ {c} : Keeps(d)
  BY DEF Counts, Calm, Keeps
<1> QED BY <1>1 DEF Counts, TypeOK

\* The steps of a connection that touch a counter keep the host's invariant.
LEMMA CountedInv ==
    ASSUME TypeOK, HostInv, NEW c \in Client,
           Admit(c) \/ Release(c) \/ Notify(c) \/ Count(c) \/ Refuse(c) \/ Leave(c)
    PROVE  TypeOK' /\ HostInv'
<1>1. Counts(c)
  BY AdmitFacts, ReleaseFacts, NotifyFacts, CountFacts, LeaveFacts
<1>2. TypeOK' /\ \A d \in Client \ {c} : Keeps(d)
  BY <1>1, CountsType
<1>3. /\ UNCHANGED <<inbox, writer, server>> /\ conn'[c].reply = conn[c].reply
      /\ host'.stop = host.stop /\ host'.fatal = host.fatal /\ host'.loaded = host.loaded
  BY <1>1 DEF Counts
<1>4. Excused => Excused'
  BY <1>3 DEF Excused
<1>5. host.clients \in Nat /\ host.queries \in Nat /\ host.pending \in Nat
  BY DEF TypeOK, HostType
<1>6. CASE Leave(c)
  <2>1. /\ conn[c].at = "leave" /\ conn'[c].at = "bye"
        /\ host.clients > 0 /\ host'.clients = host.clients - 1
        /\ host'.pending = host.pending /\ host'.queries = host.queries
    BY <1>6, LeaveFacts
  <2>2. LeaveInv'
    BY <1>3, <1>5, <2>1 DEF HostInv, LeaveInv
  <2>3. /\ host'.clients = host.clients + One(c \in Active') - One(c \in Active)
        /\ host'.queries = host.queries + One(c \in Querying') - One(c \in Querying)
        /\ host'.pending = host.pending + One(c \in Sending') - One(c \in Sending)
    BY <1>5, <2>1 DEF One, Active, Querying, Sending
  <2> QED BY <1>2, <1>3, <1>4, <2>1, <2>2, <2>3, CountedStep
<1>7. ASSUME host'.clients = host.clients PROVE LeaveInv'
  BY <1>3, <1>7 DEF HostInv, LeaveInv
<1>8. CASE Admit(c)
  <2>1. /\ conn[c].at = "admit" /\ host'.clients = host.clients /\ host'.pending = host.pending
        /\ \/ conn'[c].at \in {"close", "AdmitWait"} /\ host'.queries = host.queries
           \/ conn'[c].at = "query" /\ host'.queries = host.queries + 1
    BY <1>8, AdmitFacts
  <2>2. /\ host'.clients = host.clients + One(c \in Active') - One(c \in Active)
        /\ host'.queries = host.queries + One(c \in Querying') - One(c \in Querying)
        /\ host'.pending = host.pending + One(c \in Sending') - One(c \in Sending)
    BY <1>5, <2>1 DEF One, Active, Querying, Sending
  <2> QED BY <1>2, <1>3, <1>4, <1>7, <2>1, <2>2, CountedStep
<1>9. CASE Release(c)
  <2>1. /\ conn[c].at = "query" /\ host'.clients = host.clients /\ host'.pending = host.pending
        /\ conn'[c].at = "notify" /\ host'.queries = host.queries - 1
    BY <1>9, ReleaseFacts
  <2>2. /\ host'.clients = host.clients + One(c \in Active') - One(c \in Active)
        /\ host'.queries = host.queries + One(c \in Querying') - One(c \in Querying)
        /\ host'.pending = host.pending + One(c \in Sending') - One(c \in Sending)
    BY <1>5, <2>1 DEF One, Active, Querying, Sending
  <2> QED BY <1>2, <1>3, <1>4, <1>7, <2>1, <2>2, CountedStep
<1>10. CASE Notify(c)
  <2>1. conn[c].at = "notify" /\ conn'[c].at = "after" /\ host' = host
    BY <1>10, NotifyFacts
  <2>2. /\ host'.clients = host.clients + One(c \in Active') - One(c \in Active)
        /\ host'.queries = host.queries + One(c \in Querying') - One(c \in Querying)
        /\ host'.pending = host.pending + One(c \in Sending') - One(c \in Sending)
    BY <1>5, <2>1 DEF One, Active, Querying, Sending
  <2> QED BY <1>2, <1>3, <1>4, <1>7, <2>1, <2>2, CountedStep
<1>11. CASE Count(c) \/ Refuse(c)
  <2>1. /\ host'.clients = host.clients /\ host'.queries = host.queries
        /\ \/ /\ conn[c].at = "count" /\ conn'[c].at = "send"
              /\ host'.pending = host.pending + 1
           \/ /\ conn[c].at = "refuse" /\ conn'[c].at = "after"
              /\ host'.pending = Released
    BY <1>11, CountFacts
  <2>2. Serves /\ conn[c].at = "refuse" => Released = host.pending - 1
    <3>1. SUFFICES ASSUME Serves, conn[c].at = "refuse" PROVE host.pending > 0
      BY DEF Released
    <3>2. c \in Sending
      BY <3>1 DEF Sending
    <3> QED BY <3>1, <3>2, CountsTyped DEF HostInv, PendingInv, Serves
  <2>3. /\ host'.clients = host.clients + One(c \in Active') - One(c \in Active)
        /\ host'.queries = host.queries + One(c \in Querying') - One(c \in Querying)
        /\ Serves => host'.pending = host.pending + One(c \in Sending') - One(c \in Sending)
    BY <1>5, <2>1, <2>2 DEF One, Active, Querying, Sending
  <2>4. conn[c].at # "await"
    BY <2>1
  <2> QED BY <1>2, <1>3, <1>4, <1>7, <2>1, <2>3, <2>4, CountedStep
<1> QED BY <1>6, <1>8, <1>9, <1>10, <1>11

\* A command goes into the queue, or is turned away.
LEMMA SendInv ==
    ASSUME TypeOK, HostInv, NEW c \in Client, Send(c)
    PROVE  /\ TypeOK' /\ HostInv' /\ host' = host
           /\ \A d \in Client : Still(d)
<1>1. /\ conn[c].at = "send" /\ UNCHANGED <<host, writer, server, spent>>
      /\ \/ Room /\ inbox' = [inbox EXCEPT !.queue = Append(@, c)] /\ Move(c, "await")
         \/ ~Room /\ inbox' = inbox /\ Move(c, "refuse")
  BY DEF Send, Is
<1>2. "await" \in HandlerPc /\ "refuse" \in HandlerPc
  BY DEF HandlerPc
<1>3. /\ conn' \in [Client -> ConnType] /\ \A d \in Client \ {c} : conn'[d] = conn[d]
      /\ conn'[c].reply = conn[c].reply /\ conn'[c].cancelled = conn[c].cancelled
      /\ \/ Room /\ inbox' = [inbox EXCEPT !.queue = Append(@, c)] /\ conn'[c].at = "await"
         \/ ~Room /\ inbox' = inbox /\ conn'[c].at = "refuse"
  BY <1>1, <1>2, MoveCalm
<1>4. \A d \in Client : Still(d)
  BY <1>1, <1>3 DEF Still
<1>5. TypeOK'
  <2>1. CASE Room
    <3>1. inbox' = [inbox EXCEPT !.queue = Append(@, c)]
      BY <1>3, <2>1
    <3>2. inbox' \in InboxType /\ Len(inbox'.queue) <= Capacity
      BY <2>1, <3>1, QueueTyped DEF TypeOK, InboxType
    <3> QED BY <1>1, <1>3, <3>2 DEF TypeOK
  <2>2. CASE ~Room
    BY <1>1, <1>3, <2>2 DEF TypeOK
  <2> QED BY <2>1, <2>2
<1>6. \A d \in Client \ {c} : Keeps(d)
  BY <1>3 DEF Keeps
<1>7. c \notin Queued /\ Queued = InQueue(inbox.queue) /\ Queued' = InQueue(inbox'.queue)
  BY <1>1 DEF HostInv, QueueInv, Queued, InQueue
<1>8. CASE ~Room
  <2>1. LeaveInv' /\ (Excused => Excused')
    BY <1>1 DEF HostInv, LeaveInv, Excused
  <2>2. /\ host'.clients = host.clients + One(c \in Active') - One(c \in Active)
        /\ host'.queries = host.queries + One(c \in Querying') - One(c \in Querying)
        /\ host'.pending = host.pending + One(c \in Sending') - One(c \in Sending)
    BY <1>1, <1>3, <1>8 DEF One, Active, Querying, Sending, TypeOK, HostType
  <2>3. HostInv'
    BY <1>1, <1>3, <1>6, <1>8, <2>1, <2>2, CountedStep
  <2> QED BY <1>1, <1>4, <1>5, <2>3
<1>9. CASE Room
  <2>1. /\ inbox'.queue = Append(inbox.queue, c) /\ conn'[c].at = "await"
        /\ inbox.queue \in Seq(Client \cup {Intake}) /\ Once(inbox.queue)
    BY <1>3, <1>9 DEF TypeOK, InboxType, HostInv, QueueInv, Once
  <2>2. Once(inbox'.queue) /\ Queued' = Queued \cup {c}
    <3>1. {c} \cap Client = {c}
      OBVIOUS
    <3> QED BY <1>7, <2>1, <3>1, AppendOnce
  <2>3. Cardinality(Queued') = Cardinality(Queued) + 1
    <3>1. Queued \in SUBSET Client /\ Queued' \in SUBSET Client /\ Queued \ {c} = Queued' \ {c}
      BY <2>2 DEF Queued
    <3> QED BY <1>7, <2>2, <3>1, OneMore, CountsTyped DEF One
  <2>4. CountInv'
    <3>1. /\ One(c \in Active') = One(c \in Active) /\ One(c \in Active) \in Nat
          /\ One(c \in Querying') = One(c \in Querying) /\ One(c \in Querying) \in Nat
      BY <1>1, <2>1 DEF One, Active, Querying
    <3> QED BY <1>1, <1>6, <3>1, MoveCounts, CountsTyped DEF HostInv, CountInv
  <2>5. Cardinality(Sending') = Cardinality(Sending) - 1
    <3>1. One(c \in Sending') = 0 /\ One(c \in Sending) = 1
      BY <1>1, <2>1 DEF One, Sending
    <3> QED BY <1>6, <3>1, MoveCounts, CountsTyped
  <2>6. PendingInv'
    BY <1>1, <2>3, <2>5, CountsTyped DEF HostInv, PendingInv, Receiving, At
  <2>7. LeaveInv'
    BY <1>1 DEF HostInv, LeaveInv
  <2>8. CommandsNotDropped'
    BY <1>1, <1>3 DEF HostInv, CommandsNotDropped
  <2>9. QueueInv'
    <3>1. conn[c].reply = "none"
      BY <1>1 DEF HostInv, QueueInv
    <3>2. \A d \in Queued' : conn'[d].at = "await" /\ conn'[d].reply = "none"
      BY <1>3, <2>1, <2>2, <3>1 DEF HostInv, QueueInv, Queued
    <3>3. \A d \in Client : conn'[d].at # "await" => conn'[d].reply = "none"
      BY <1>3, <3>1 DEF HostInv, QueueInv
    <3>4. writer.at \in {"command", "lane"} =>
             \A d \in writer.command : d \in Client /\ d # c /\ d \notin Queued
      BY <1>1 DEF HostInv, QueueInv, TypeOK, WriterType
    <3>5. writer'.at \in {"command", "lane"} =>
             \A d \in writer'.command :
                d \notin Queued' /\ conn'[d].at = "await" /\ conn'[d].reply = "none"
      BY <1>1, <1>3, <2>2, <3>4 DEF HostInv, QueueInv
    <3> QED BY <2>2, <3>2, <3>3, <3>5 DEF QueueInv, Once
  <2> QED BY <1>1, <1>4, <1>5, <2>4, <2>6, <2>7, <2>8, <2>9 DEF HostInv
<1> QED BY <1>8, <1>9
\* The reply arrives: by then the writer has taken the command and settled it.
LEMMA AwaitInv ==
    ASSUME TypeOK, HostInv, NEW c \in Client, Await(c)
    PROVE  TypeOK' /\ HostInv' /\ host' = host /\ \A d \in Client : Still(d)
<1> DEFINE r == [conn[c] EXCEPT !.at = "after", !.reply = "none"]
<1>1. /\ conn[c].at = "await" /\ conn[c].reply # "none" /\ conn' = [conn EXCEPT ![c] = r]
      /\ UNCHANGED <<host, inbox, writer, server, spent>>
  BY DEF Await, Is, StaysPut
<1>2. /\ r \in ConnType /\ r.at = "after" /\ r.reply = "none"
      /\ r.cancelled = conn[c].cancelled
  BY DEF TypeOK, ConnType, HandlerPc
<1> HIDE DEF r
<1>3. /\ conn' \in [Client -> ConnType] /\ \A d \in Client \ {c} : conn'[d] = conn[d]
      /\ conn'[c].at = "after" /\ conn'[c].reply = "none"
      /\ conn'[c].cancelled = conn[c].cancelled
  BY <1>1, <1>2, UpdateCalm
<1>4. TypeOK' /\ \A d \in Client : Still(d)
  BY <1>1, <1>3 DEF TypeOK, Still
<1>5. Active' = Active /\ Querying' = Querying /\ Sending' = Sending /\ Queued' = Queued
  BY <1>1, <1>3 DEF Active, Querying, Sending, Queued
<1>6. c \notin Queued /\ (writer.at \in {"command", "lane"} => c \notin writer.command)
  BY <1>1 DEF HostInv, QueueInv
<1>7. writer.command \subseteq Client /\ Queued \subseteq Client
  BY DEF TypeOK, WriterType, Queued
<1>8. QueueInv'
  BY <1>1, <1>3, <1>5, <1>6, <1>7 DEF HostInv, QueueInv
<1>9. CountInv' /\ LeaveInv'
  BY <1>1, <1>5 DEF HostInv, CountInv, LeaveInv
<1>10. PendingInv'
  BY <1>1, <1>5 DEF HostInv, PendingInv, Receiving, At
<1>11. CommandsNotDropped'
  BY <1>1, <1>3 DEF HostInv, CommandsNotDropped
<1> QED BY <1>1, <1>4, <1>8, <1>9, <1>10, <1>11 DEF HostInv

\* A reader drains the host or cancels its own connection.
LEMMA ReaderInv ==
    ASSUME TypeOK, HostInv, NEW c \in Client, ReadDrain(c) \/ ReaderCancel(c)
    PROVE  TypeOK' /\ HostInv' /\ \A d \in Client : conn'[d].at # "AdmitWait"
<1>1. /\ UNCHANGED <<inbox, writer, server, spent>> /\ host' \in HostType
      /\ host'.clients = host.clients /\ host'.queries = host.queries
      /\ host'.pending = host.pending /\ host'.loaded = host.loaded
      /\ host'.fatal = host.fatal /\ host'.stop = host.stop
  BY DEF ReadDrain, ReaderCancel, Drain, StaysPut, TypeOK, HostType
<1>2. /\ conn' \in [Client -> ConnType]
      /\ \A d \in Client : Keeps(d) /\ conn'[d].at # "AdmitWait"
  <2>1. CASE ReadDrain(c)
    BY <2>1, DrainCalm, CalmKeeps DEF ReadDrain, Drain
  <2>2. CASE ReaderCancel(c)
    BY <2>2, CancelCalm DEF Calm, Keeps
  <2> QED BY <2>1, <2>2
<1>3. LeaveInv' /\ (Excused => Excused')
  BY <1>1 DEF HostInv, LeaveInv, Excused
<1>4. WriterKeeps
  BY <1>1 DEF WriterKeeps, Serves, Commanded, Receiving, At
<1>5. HostInv'
  BY <1>1, <1>2, <1>3, <1>4, KeepsInv
<1> QED BY <1>1, <1>2, <1>5 DEF TypeOK

--------------------------------------------------------------------------------
(* Permits.                                                                *)

\* The threads awake for a slot are finitely many.
LEMMA MoversTyped ==
    /\ Movers \in SUBSET Client /\ Movers' \in SUBSET Client
    /\ Cardinality(Movers) \in Nat /\ Cardinality(Movers') \in Nat
    /\ Movers \subseteq Movers' => Cardinality(Movers) <= Cardinality(Movers')
<1>1. Movers \in SUBSET Client /\ Movers' \in SUBSET Client
  BY DEF Movers
<1>2. IsFiniteSet(Movers) /\ IsFiniteSet(Movers')
  BY <1>1, ClientAssumption, FS_Subset
<1> QED BY <1>1, <1>2, FS_CardinalityType, FS_Subset

\* Nobody falls asleep, wakes, takes a slot or gives one back.
LEMMA StillPermits ==
    ASSUME TypeOK, PermitInv, \A d \in Client : Still(d),
           host'.queries = host.queries, host'.draining = host.draining
    PROVE  PermitInv'
<1>1. Asleep' = Asleep /\ \A d \in Asleep : conn'[d].cancelled = conn[d].cancelled
  BY DEF Asleep, Still
<1>2. Movers \subseteq Movers'
  BY DEF Movers, Still
<1>3. QueryLimit \in Nat /\ host.queries \in Nat
  BY HostAssumption DEF TypeOK, HostType
<1> QED BY <1>1, <1>2, <1>3, MoversTyped DEF PermitInv

\* Everybody is awake.
LEMMA AwakePermits ==
    ASSUME \A d \in Client : conn'[d].at # "AdmitWait"
    PROVE  PermitInv'
  BY DEF PermitInv, Asleep

\* admit, QueryPermit's drop and its notify_one.
LEMMA PermitSteps ==
    ASSUME TypeOK, HostInv, PermitInv, NEW c \in Client, Admit(c) \/ Release(c) \/ Notify(c)
    PROVE  PermitInv'
<1>1. QueryLimit \in Nat /\ host.queries \in Nat
  BY HostAssumption DEF TypeOK, HostType
<1>2. Cardinality(Movers) \in Nat /\ Cardinality(Movers') \in Nat
  BY MoversTyped
<1>3. ASSUME NEW d \in Client, Movers \ {d} = Movers' \ {d}
      PROVE  Cardinality(Movers') = Cardinality(Movers) + One(d \in Movers') - One(d \in Movers)
  BY <1>3, MoversTyped, OneMore
<1>4. CASE Admit(c)
  <2>1. /\ host'.draining = host.draining /\ conn'[c].cancelled = conn[c].cancelled
        /\ \A d \in Client \ {c} : conn'[d] = conn[d]
        /\ conn[c].at = "admit"
        /\ \/ /\ conn'[c].at = "close" /\ host'.queries = host.queries
              /\ host.draining \/ conn[c].cancelled
           \/ /\ conn'[c].at = "query" /\ host'.queries = host.queries + 1
              /\ ~conn[c].cancelled
           \/ /\ conn'[c].at = "AdmitWait" /\ host'.queries = host.queries
              /\ ~host.draining /\ ~conn[c].cancelled /\ host.queries >= QueryLimit
    BY <1>4, AdmitFacts DEF Counts
  <2>2. CASE conn'[c].at = "close"
    <3>1. Asleep' = Asleep /\ c \notin Asleep
      BY <2>1, <2>2 DEF Asleep
    <3>2. CASE host.draining
      BY <3>1, <3>2 DEF PermitInv, Asleep
    <3>3. CASE conn[c].cancelled
      <4>1. Movers' = Movers
        BY <2>1, <2>2, <3>3 DEF Movers
      <4> QED BY <2>1, <2>2, <3>1, <4>1 DEF PermitInv, Asleep
    <3> QED BY <2>1, <2>2, <3>2, <3>3
  <2>3. CASE conn'[c].at = "query"
    <3>1. Asleep' = Asleep /\ c \notin Asleep
      BY <2>1, <2>3 DEF Asleep
    <3>2. Movers \ {c} = Movers' \ {c} /\ c \in Movers /\ c \notin Movers'
      BY <2>1, <2>3 DEF Movers
    <3>3. Cardinality(Movers') = Cardinality(Movers) - 1
      BY <1>2, <1>3, <3>2 DEF One
    <3> QED BY <1>1, <1>2, <2>1, <2>3, <3>1, <3>3 DEF PermitInv, Asleep
  <2>4. CASE conn'[c].at = "AdmitWait"
    BY <1>1, <1>2, <2>1, <2>4 DEF PermitInv, Asleep
  <2> QED BY <2>1, <2>2, <2>3, <2>4
<1>5. CASE Release(c)
  <2>1. /\ host'.draining = host.draining /\ conn'[c].cancelled = conn[c].cancelled
        /\ \A d \in Client \ {c} : conn'[d] = conn[d]
        /\ conn[c].at = "query" /\ conn'[c].at = "notify" /\ host'.queries = host.queries - 1
    BY <1>5, ReleaseFacts DEF Counts
  <2>2. Asleep' = Asleep /\ c \notin Asleep
    BY <2>1 DEF Asleep
  <2>3. Movers \ {c} = Movers' \ {c} /\ c \notin Movers /\ c \in Movers'
    BY <2>1 DEF Movers
  <2>4. Cardinality(Movers') = Cardinality(Movers) + 1
    BY <1>2, <1>3, <2>3 DEF One
  <2> QED BY <1>1, <1>2, <2>1, <2>2, <2>4 DEF PermitInv, Asleep
<1>6. CASE Notify(c)
  <2>1. /\ host' = host /\ conn[c].at = "notify" /\ conn'[c].at = "after"
        /\ \/ Asleep = {} /\ \A d \in Client \ {c} : conn'[d] = conn[d]
           \/ \E d \in Asleep :
                 /\ d # c /\ conn'[d].at = "admit" /\ conn'[d].cancelled = conn[d].cancelled
                 /\ \A e \in Client \ {c, d} : conn'[e] = conn[e]
    BY <1>6, NotifyFacts
  <2>2. CASE Asleep = {} /\ \A d \in Client \ {c} : conn'[d] = conn[d]
    <3>1. Asleep' = {}
      BY <2>1, <2>2 DEF Asleep
    <3> QED BY <3>1 DEF PermitInv
  <2>3. ASSUME NEW d \in Asleep, d # c, conn'[d].at = "admit",
               conn'[d].cancelled = conn[d].cancelled,
               \A e \in Client \ {c, d} : conn'[e] = conn[e]
        PROVE  PermitInv'
    <3>1. d \in Client /\ conn[d].at = "AdmitWait" /\ ~conn[d].cancelled
      BY <2>3 DEF Asleep, PermitInv
    <3>2. Asleep' \subseteq Asleep /\ \A e \in Asleep' : e \in Client \ {c, d}
      BY <2>1, <2>3 DEF Asleep
    <3>3. Movers' = (Movers \ {c}) \cup {d} /\ c \in Movers /\ d \notin Movers
      BY <2>1, <2>3, <3>1 DEF Movers
    <3>4. Cardinality(Movers') = Cardinality(Movers)
      <4>1. IsFiniteSet(Movers)
        BY MoversTyped, ClientAssumption, FS_Subset
      <4>2. IsFiniteSet(Movers \ {c}) /\ Cardinality(Movers \ {c}) = Cardinality(Movers) - 1
        BY <3>3, <4>1, FS_RemoveElement
      <4>3. Cardinality((Movers \ {c}) \cup {d}) = Cardinality(Movers \ {c}) + 1
        BY <3>3, <4>2, FS_AddElement
      <4> QED BY <1>2, <3>3, <4>2, <4>3
    <3> QED BY <2>1, <2>3, <3>2, <3>4 DEF PermitInv
  <2> QED BY <2>1, <2>2, <2>3
<1> QED BY <1>4, <1>5, <1>6
--------------------------------------------------------------------------------
(* Every step.                                                             *)

\* What the writer's side does to the sleepers: nothing, or it drains.
LEMMA WriterPermits ==
    ASSUME TypeOK, PermitInv,
           \/ WriterStep \/ MergeStep \/ TimeoutFar \/ LoadFail \/ CommandFail \/ Event
           \/ IntakeFail
    PROVE  PermitInv'
<1>1. CASE IntakeFail \/ WriterFailed
  BY <1>1, DrainCalm, AwakePermits DEF IntakeFail, WriterFailed
<1>2. ASSUME \A d \in Client : Still(d), host'.queries = host.queries,
             host'.draining = host.draining
      PROVE  PermitInv'
  BY <1>2, StillPermits
<1>3. CASE LoadReady \/ LoadFailed
  <2>1. \A d \in Client : Still(d)
    BY <1>3, ReadyCalm DEF LoadReady, LoadFailed, Calm, Still
  <2> QED BY <1>2, <1>3, <2>1 DEF LoadReady, LoadFailed, OperationDropped, TypeOK, HostType
<1>4. CASE LoadFail \/ Teardown \/ WriterFailing
  <2>1. \A d \in Client : Still(d)
    BY <1>4, DropCalm DEF LoadFail, Teardown, WriterFailing, Still
  <2> QED BY <1>2, <1>4, <2>1
          DEF LoadFail, Teardown, WriterFailing, OperationDropped, TypeOK, HostType
<1>5. CASE CommandReply \/ CommandFail
  <2>1. \A d \in Client : Still(d)
    BY <1>5, ReplyCalm DEF CommandReply, CommandFail, Still
  <2> QED BY <1>2, <1>5, <2>1
          DEF CommandReply, CommandFail, OperationDropped, TypeOK, HostType
<1>6. ASSUME UNCHANGED conn, host'.queries = host.queries, host'.draining = host.draining
      PROVE  PermitInv'
  BY <1>2, <1>6 DEF Still
<1>7. CASE Top \/ TryRecv \/ Empty \/ Blocked \/ TimeoutSoon \/ TimeoutFar \/ Took
             \/ TurnNothing \/ MergeEnd \/ Event
  BY <1>6, <1>7 DEF Top, TryRecv, Empty, Blocked, TimeoutSoon, TimeoutFar, Took,
                    TurnNothing, MergeEnd, Event
<1>8. CASE TurnRefresh \/ RefreshEnd \/ TurnContent \/ ContentEnd \/ CommandStart
             \/ CommandEnd \/ MergeBye
  BY <1>6, <1>8 DEF TurnRefresh, RefreshEnd, TurnContent, ContentEnd, CommandStart,
                    CommandEnd, MergeBye, OperationDropped, TypeOK, HostType
<1> QED BY <1>1, <1>3, <1>4, <1>5, <1>7, <1>8 DEF WriterStep, MergeStep

\* The server loop and the wakers neither hold slots nor wait for one.
LEMMA ServerPermits ==
    ASSUME TypeOK, PermitInv,
           \/ Look \/ ServeWake \/ IdleTimeout \/ AcceptError \/ StopWriter \/ Join
           \/ (\E c \in Client : Accept(c)) \/ (\E w \in Waker : Wake(w))
    PROVE  PermitInv'
<1>1. host'.queries = host.queries /\ host'.draining = host.draining
  BY DEF Look, Looked, ServeWake, IdleTimeout, AcceptError, StopWriter, Join, Accept,
         Wake, WakeSwap, WakeSend, TypeOK, HostType
<1>2. \A d \in Client : Still(d)
  <2>1. CASE UNCHANGED conn
    BY <2>1 DEF Still
  <2>2. ASSUME NEW c \in Client, Accept(c) PROVE \A d \in Client : Still(d)
    <3>1. conn[c].at = "queued" /\ (Move(c, "start") \/ Move(c, "gone"))
      BY <2>2 DEF Accept, Is
    <3>2. "start" \in HandlerPc /\ "gone" \in HandlerPc
      BY DEF HandlerPc
    <3>3. /\ \A d \in Client \ {c} : conn'[d] = conn[d]
          /\ conn'[c].at \in {"start", "gone"} /\ conn'[c].cancelled = conn[c].cancelled
      BY <3>1, <3>2, MoveCalm
    <3> QED BY <3>1, <3>3 DEF Still
  <2> QED BY <2>1, <2>2 DEF Look, Looked, ServeWake, IdleTimeout, AcceptError, StopWriter,
                            Join, Wake, WakeSwap, WakeSend
<1> QED BY <1>1, <1>2, StillPermits

\* A step of a connection's threads or of its client.
LEMMA HandlerInv ==
    ASSUME DaemonInv, NEW c \in Client, HandlerStep(c) \/ ReaderStep(c) \/ ClientStep(c)
    PROVE  DaemonInv'
<1> USE DEF DaemonInv
<1>1. CASE QuietStep(c)
  <2>1. /\ TypeOK' /\ \A d \in Client : Keeps(d) /\ Still(d)
        /\ host' \in {host, [host EXCEPT !.wake = TRUE]}
        /\ UNCHANGED <<inbox, writer, server, spent>>
    BY <1>1, QuietKeeps
  <2>2. /\ host'.clients = host.clients /\ host'.queries = host.queries
        /\ host'.pending = host.pending /\ host'.loaded = host.loaded
        /\ host'.fatal = host.fatal /\ host'.stop = host.stop
        /\ host'.draining = host.draining
    BY <2>1 DEF TypeOK, HostType
  <2>3. LeaveInv' /\ (Excused => Excused')
    BY <2>1, <2>2 DEF HostInv, LeaveInv, Excused
  <2>4. WriterKeeps
    BY <2>1 DEF WriterKeeps, Serves, Commanded, Receiving, At
  <2>5. HostInv'
    BY <2>1, <2>2, <2>3, <2>4, KeepsInv
  <2> QED BY <2>1, <2>2, <2>5, StillPermits
<1>2. CASE Admit(c) \/ Release(c) \/ Notify(c)
  BY <1>2, CountedInv, PermitSteps
<1>3. CASE Count(c) \/ Refuse(c)
  <2>1. TypeOK' /\ HostInv'
    BY <1>3, CountedInv
  <2>2. /\ \A d \in Client : Still(d)
        /\ host'.queries = host.queries /\ host'.draining = host.draining
    BY <1>3, CountFacts DEF Counts, Still
  <2> QED BY <2>1, <2>2, StillPermits
<1>4. CASE Leave(c)
  BY <1>4, CountedInv, LeaveFacts, AwakePermits
<1>5. CASE Send(c) \/ Await(c)
  BY <1>5, SendInv, AwaitInv, StillPermits
<1>6. CASE ReadDrain(c) \/ ReaderCancel(c)
  BY <1>6, ReaderInv, AwakePermits
<1> QED BY <1>1, <1>2, <1>3, <1>4, <1>5, <1>6
        DEF HandlerStep, QueryStep, ReaderStep, ClientStep, ReadStep, QuietStep

\* Every step of the daemon keeps the invariant.
LEMMA NextInv == DaemonInv /\ [Next]_vars => DaemonInv'
<1> SUFFICES ASSUME DaemonInv, [Next]_vars PROVE DaemonInv'
  OBVIOUS
<1>1. CASE UNCHANGED vars
  BY <1>1 DEF vars, DaemonInv, TypeOK, HostInv, CountInv, QueueInv, LeaveInv, PendingInv,
              CommandsNotDropped, PermitInv, Active, Querying, Sending, Queued, Asleep,
              Movers, Receiving, At
<1>2. CASE \/ WriterStep \/ MergeStep \/ TimeoutFar \/ LoadFail \/ CommandFail \/ Event
           \/ IntakeFail
  <2>1. TypeOK'
    BY <1>2, WriterType1, WriterType2, WriterType3 DEF DaemonInv, WriterStep, MergeStep
  <2> QED BY <1>2, <2>1, WriterInv, WriterPermits DEF DaemonInv
<1>3. ASSUME NEW w \in Waker, Wake(w) PROVE DaemonInv'
  BY <1>3, WakeInv, WriterType3, ServerPermits DEF DaemonInv
<1>4. CASE ServerStep \/ IdleTimeout \/ AcceptError
  BY <1>4, ServerType1, ServerInv, AcceptInv, ServerPermits DEF DaemonInv, ServerStep
<1>5. ASSUME NEW c \in Client, HandlerStep(c) \/ ReaderStep(c) \/ ClientStep(c)
      PROVE  DaemonInv'
  BY <1>5, HandlerInv
<1> QED BY <1>1, <1>2, <1>3, <1>4, <1>5 DEF Next

\* Both of the initial states: a daemon that starts, and one that has loaded
\* and accepted everybody.
LEMMA InitInv == Init \/ ConnInit => DaemonInv
<1>0. /\ Cardinality({}) = 0 /\ Cardinality(Client) \in Nat
      /\ {MaxLines, Capacity, QueryLimit} \subseteq Nat
  BY ClientAssumption, HostAssumption, FS_EmptySet, FS_CardinalityType
<1> SUFFICES ASSUME Init \/ ConnInit PROVE DaemonInv
  OBVIOUS
<1>1. /\ Asleep = {} /\ Querying = {} /\ Sending = {} /\ Queued = {}
      /\ Init => Active = {}
      /\ ConnInit => Active = Client
  BY DEF Init, ConnInit, NewConn, Asleep, Querying, Sending, Queued, Active
<1>2. TypeOK
  <2>1. CASE Init
    <3>1. host \in HostType
      BY <1>0, <2>1 DEF Init, HostType
    <3>2. inbox \in InboxType /\ Len(inbox.queue) <= Capacity
      <4>1. inbox.queue = <<>> /\ <<>> \in Seq(Client \cup {Intake}) /\ Len(<<>>) = 0
        BY <2>1 DEF Init
      <4> QED BY <1>0, <2>1, <4>1 DEF Init, InboxType
    <3>3. conn \in [Client -> ConnType]
      BY <1>0, <2>1 DEF Init, NewConn, ConnType, HandlerPc
    <3>4. writer \in WriterType
      BY <2>1 DEF Init, WriterType, WriterPc
    <3>5. server \in ServerType /\ spent \in [events : Nat, merges : Nat, failures : Nat]
      BY <1>0, <2>1 DEF Init, ServerType
    <3> QED BY <3>1, <3>2, <3>3, <3>4, <3>5 DEF TypeOK
  <2>2. CASE ConnInit
    <3>1. host \in HostType
      BY <1>0, <2>2 DEF ConnInit, HostType
    <3>2. inbox \in InboxType /\ Len(inbox.queue) <= Capacity
      <4>1. inbox.queue = <<>> /\ <<>> \in Seq(Client \cup {Intake}) /\ Len(<<>>) = 0
        BY <2>2 DEF ConnInit
      <4> QED BY <1>0, <2>2, <4>1 DEF ConnInit, InboxType
    <3>3. conn \in [Client -> ConnType]
      BY <1>0, <2>2 DEF ConnInit, NewConn, ConnType, HandlerPc
    <3>4. writer \in WriterType
      BY <2>2 DEF ConnInit, WriterType, WriterPc
    <3>5. server \in ServerType /\ spent \in [events : Nat, merges : Nat, failures : Nat]
      BY <1>0, <2>2 DEF ConnInit, ServerType
    <3> QED BY <3>1, <3>2, <3>3, <3>4, <3>5 DEF TypeOK
  <2> QED BY <2>1, <2>2
<1>3. CountInv
  <2>1. CASE Init
    BY <1>0, <1>1, <2>1 DEF Init, CountInv
  <2>2. CASE ConnInit
    BY <1>0, <1>1, <2>2 DEF ConnInit, CountInv
  <2> QED BY <2>1, <2>2
<1>4. QueueInv
  BY <1>1 DEF Init, ConnInit, NewConn, QueueInv
<1>5. LeaveInv
  BY DEF Init, ConnInit, LeaveInv
<1>6. PendingInv
  BY <1>0, <1>1 DEF Init, ConnInit, PendingInv
<1>7. CommandsNotDropped
  BY DEF Init, ConnInit, NewConn, CommandsNotDropped
<1>8. PermitInv
  BY <1>1 DEF PermitInv
<1> QED BY <1>2, <1>3, <1>4, <1>5, <1>6, <1>7, <1>8 DEF DaemonInv, HostInv

\* The invariant holds throughout the daemon's life.
LEMMA DaemonInductive == Spec => []DaemonInv
  BY InitInv, NextInv, PTL DEF Spec

\* And throughout that of connections alone, which take some of its steps.
LEMMA ConnInductive == ConnSpec => []DaemonInv
<1>1. DaemonInv /\ [ConnNext]_vars => DaemonInv'
  <2> SUFFICES ASSUME DaemonInv, [ConnNext]_vars PROVE DaemonInv'
    OBVIOUS
  <2>1. CASE UNCHANGED vars
    BY <2>1, NextInv
  <2>2. ASSUME NEW c \in Client, QueryStep(c) \/ ReaderStep(c) \/ ReadStep(c)
        PROVE  DaemonInv'
    BY <2>2, HandlerInv DEF HandlerStep, ClientStep
  <2> QED BY <2>1, <2>2 DEF ConnNext
<1> QED BY <1>1, InitInv, PTL DEF ConnSpec

\* writer_pending is exact while the writer serves, for any number of clients
\* and slots: execute's increments and decrements, the refusals at a full
\* queue and the writer's releases balance, so writer::busy is never stuck and
\* never early.
THEOREM PendingIsExact == Spec => []PendingExact
<1>1. DaemonInv => PendingExact
  <2> SUFFICES ASSUME DaemonInv PROVE PendingExact
    OBVIOUS
  <2>1. Sending = {c \in Client : conn[c].at \in {"send", "refuse"}}
    BY DEF Sending
  <2> QED BY <2>1 DEF DaemonInv, HostInv, PendingInv, PendingExact
<1> QED BY <1>1, DaemonInductive, PTL

\* An idle or drained host never leaves beside an accepted command: a reply is
\* dropped only by a failed load or writer, or after the listener broke.
THEOREM DropsHaveCause == Spec => []CommandsNotDropped
<1>1. DaemonInv => CommandsNotDropped
  BY DEF DaemonInv, HostInv
<1> QED BY <1>1, DaemonInductive, PTL

\* When run returns, the writer has ended, its merge worker is joined and,
\* unless accept failed, every connection has left ClientCount.
THEOREM ExitIsClean == Spec => []ExitsClean
<1>1. DaemonInv => ExitsClean
  <2> SUFFICES ASSUME DaemonInv, server.at = "exited" PROVE ExitsClean
    BY DEF ExitsClean, Serving
  <2>1. writer.at = "ended" /\ writer.merge = "none"
    BY DEF DaemonInv, HostInv, LeaveInv
  <2>2. ASSUME ~server.broken, NEW c \in Client PROVE c \notin Active
    BY <2>2, CountsTyped DEF DaemonInv, HostInv, LeaveInv, CountInv
  <2> QED BY <2>1, <2>2 DEF ExitsClean, Active
<1> QED BY <1>1, DaemonInductive, PTL

\* The invariant leaves no sleeping query beside an unclaimed free slot.
LEMMA PermitsKept == DaemonInv => NoLostPermit
<1> SUFFICES ASSUME DaemonInv, host.queries < QueryLimit, Asleep # {}
             PROVE  Movers # {}
  BY DEF NoLostPermit, Asleep, Movers, Is
<1>1. QueryLimit - host.queries <= Cardinality(Movers)
  BY DEF DaemonInv, PermitInv
<1>2. QueryLimit \in Nat /\ host.queries \in Nat
  BY HostAssumption DEF DaemonInv, TypeOK, HostType
<1>3. Movers = {} => Cardinality(Movers) = 0
  BY FS_EmptySet
<1> QED BY <1>1, <1>2, <1>3

\* QueryPermit's notify_one is never wasted, for every query limit and any
\* number of connections: while a query sleeps, as many threads as there are
\* free slots are awake to take one or to notify.
THEOREM PermitsNotLost == ConnSpec => []NoLostPermit
  BY PermitsKept, ConnInductive, PTL

\* The same of the whole daemon, where watch intake or the writer may drain
\* the host while queries sleep.
THEOREM DaemonPermitsNotLost == Spec => []NoLostPermit
  BY PermitsKept, DaemonInductive, PTL
================================================================================
