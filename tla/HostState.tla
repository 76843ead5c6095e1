------------------------------- MODULE HostState -------------------------------
(***************************************************************************)
(* The state that ferretd's threads share, and the calls by which one      *)
(* thread wakes others.                                                    *)
(*                                                                         *)
(*   ferret/src/daemon.rs (Host, drain, cancel), daemon/writer.rs (Queue)  *)
(*                                                                         *)
(* The threads are the server loop, the writer, its merge worker, watch    *)
(* intake and, for each connection, a handler and a reader.  A thread      *)
(* asleep on a condition variable has a location of its own (GreetWait,    *)
(* AdmitWait) and leaves it only when another notifies.                    *)
(***************************************************************************)
EXTENDS Integers, Sequences, FiniteSets

CONSTANTS
    Client,        \* the connections that are made
    Capacity,      \* slots of the writer's queue (32)
    QueryLimit,    \* Host.query_limit
    MaxClients,    \* CLIENTS
    Idle,          \* whether the host has an idle timeout
    Requests,      \* what clients ask: "query", "command", "drain", "other"
    MaxLines,      \* bound: requests on a connection
    MaxEvents,     \* bound: inotify events and far timeouts
    MaxMerges,     \* bound: background merges
    MaxFailures    \* bound: failed loads, refreshes, commands, merges, accepts

ASSUME HostAssumption ==
    /\ Capacity \in Nat \ {0}
    /\ QueryLimit \in Nat \ {0}
    /\ MaxClients \in Nat \ {0}
    /\ Idle \in BOOLEAN
    /\ Requests \subseteq {"query", "command", "drain", "other"}
    /\ {MaxLines, MaxEvents, MaxMerges, MaxFailures} \subseteq Nat

Intake == "intake"    \* Message::Intake

ASSUME ClientAssumption == Intake \notin Client /\ IsFiniteSet(Client)

Waker == {"intake", "merge", "server"}    \* the threads that call Queue::wake

VARIABLES
    host,     \* Host
    inbox,    \* Queue: its channel and its flag, and each waker's place in wake
    conn,     \* each connection
    writer,   \* the writer thread, the watch and the merge worker
    server,   \* the server loop
    spent     \* how much of each bound is used

vars == <<host, inbox, conn, writer, server, spent>>

HostType ==
    [loaded : {"loading", "ready", "failed"},
     draining : BOOLEAN, stop : BOOLEAN, fatal : BOOLEAN,
     wake : BOOLEAN,                 \* a ServerEvent::Wake is queued
     clients : Nat, queries : Nat,
     running : BOOLEAN, pending : Nat]

InboxType ==
    [queue : Seq(Client \cup {Intake}),
     woken : BOOLEAN,
     waker : [Waker -> {"idle", "swap", "send"}]]

HandlerPc ==
    {"out", "queued", "start", "greet", "regreet", "GreetWait", "top", "recv", "answer",
     "admit", "AdmitWait", "query", "notify",
     "count", "send", "refuse", "await", "after", "close", "leave", "bye", "gone"}

ConnType ==
    [at : HandlerPc,
     reader : {"none", "reading", "exit", "unregister", "done"},
     chan : {"none", "line", "wake"},    \* sync_channel(1)
     registered : BOOLEAN, cancelled : BOOLEAN,
     reply : {"none", "done", "dropped"},
     lines : Nat]

WriterPc ==
    {"load", "unloaded", "top", "try", "empty", "block", "took", "turn",
     "refresh", "content", "command", "lane", "reply",
     "teardown", "failing", "failed", "ended"}

WriterType ==
    [at : WriterPc,
     timeout : {"never", "far", "soon"},    \* of the receive it is in
     command : SUBSET Client,               \* the one it runs
     events : BOOLEAN,                      \* the watch holds a burst or a backstop
     intake : BOOLEAN,                      \* the intake thread runs
     merge : {"none", "running", "bye", "finished", "broken"}]

ServerType ==
    [at : {"look", "recv", "stop", "join", "exited"},
     draining : BOOLEAN, clients : Nat,     \* as it last read them
     broken : BOOLEAN]                      \* it left for an accept error

\* The type of every variable.
TypeOK ==
    /\ host \in HostType
    /\ inbox \in InboxType
    /\ Len(inbox.queue) <= Capacity
    /\ conn \in [Client -> ConnType]
    /\ writer \in WriterType
    /\ server \in ServerType
    /\ spent \in [events : Nat, merges : Nat, failures : Nat]

NewConn ==
    [at |-> "out", reader |-> "none", chan |-> "none", registered |-> FALSE,
     cancelled |-> FALSE, reply |-> "none", lines |-> MaxLines]

Init ==
    /\ host = [loaded |-> "loading", draining |-> FALSE, stop |-> FALSE, fatal |-> FALSE,
               wake |-> FALSE, clients |-> 0, queries |-> 0, running |-> TRUE, pending |-> 0]
    /\ inbox = [queue |-> <<>>, woken |-> FALSE, waker |-> [w \in Waker |-> "idle"]]
    /\ conn = [c \in Client |-> NewConn]
    /\ writer = [at |-> "load", timeout |-> "never", command |-> {}, events |-> FALSE,
                 intake |-> FALSE, merge |-> "none"]
    /\ server = [at |-> "look", draining |-> FALSE, clients |-> 0, broken |-> FALSE]
    /\ spent = [events |-> 0, merges |-> 0, failures |-> 0]

Failing ==
    /\ spent.failures < MaxFailures
    /\ spent' = [spent EXCEPT !.failures = @ + 1]

--------------------------------------------------------------------------------
(* Condition variables.                                                    *)

\* engine_ready.notify_all
ReadyNotified(cs) ==
    [c \in Client |-> IF cs[c].at = "GreetWait" THEN [cs[c] EXCEPT !.at = "regreet"] ELSE cs[c]]

\* lifecycle_changed.notify_all
ChangeNotified(cs) ==
    [c \in Client |-> IF cs[c].at = "AdmitWait" THEN [cs[c] EXCEPT !.at = "admit"] ELSE cs[c]]

\* What drain does to the connections: each registered channel with room gets
\* a Wake, and everyone asleep is notified.
Drained(cs) ==
    ChangeNotified(ReadyNotified(
        [c \in Client |-> IF cs[c].registered /\ cs[c].chan = "none"
                          THEN [cs[c] EXCEPT !.chan = "wake"] ELSE cs[c]]))

\* drain, under the engine's and the lifecycle's locks.
Drain ==
    /\ host' = [host EXCEPT !.draining = TRUE, !.wake = TRUE]
    /\ conn' = Drained(conn)

\* A variant of Cancelled that leaves the queries asleep.
CancelledQuietly(c) ==
    ReadyNotified([conn EXCEPT ![c].cancelled = TRUE])

\* cancel, under the same locks.
Cancelled(c) ==
    ChangeNotified(ReadyNotified([conn EXCEPT ![c].cancelled = TRUE]))

--------------------------------------------------------------------------------
(* Queue::wake: the swap, then the try_send.                               *)

Receiving == writer.at \notin {"unloaded", "failed", "ended"}

Room == Receiving /\ Len(inbox.queue) < Capacity

WakeSwap(w) ==
    /\ inbox.waker[w] = "swap"
    /\ inbox' = [inbox EXCEPT !.woken = TRUE,
                              !.waker[w] = IF inbox.woken THEN "idle" ELSE "send"]
    /\ UNCHANGED <<host, conn, writer, server, spent>>

WakeSend(w) ==
    /\ inbox.waker[w] = "send"
    /\ inbox' = [inbox EXCEPT !.queue = IF Room THEN Append(@, Intake) ELSE @,
                              !.waker[w] = "idle"]
    /\ UNCHANGED <<host, conn, writer, server, spent>>

Wake(w) == WakeSwap(w) \/ WakeSend(w)

\* The receiver is gone: what it had not taken is dropped, with the clients'
\* reply senders.
QueueDropped == [inbox EXCEPT !.queue = <<>>]

RepliesDropped(cs) ==
    [c \in Client |-> IF \E i \in 1 .. Len(inbox.queue) : inbox.queue[i] = c
                      THEN [cs[c] EXCEPT !.reply = "dropped"] ELSE cs[c]]

\* writer::busy
Busy == host.loaded = "loading" \/ host.running \/ host.pending # 0

\* release_pending saturates.
Released == IF host.pending = 0 THEN 0 ELSE host.pending - 1
================================================================================
