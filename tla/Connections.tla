------------------------------ MODULE Connections ------------------------------
(***************************************************************************)
(* The connections of the daemon: for each a reader thread, which hands    *)
(* request lines over and acts on `cancel` and `drain` at once, and a      *)
(* handler, which answers them.                                            *)
(*                                                                         *)
(*   ferret/src/daemon/requests.rs, daemon/permits.rs,                     *)
(*   daemon/writer.rs (execute)                                            *)
(*                                                                         *)
(* Each member of Client is one connection: it is made, and ends, once.    *)
(***************************************************************************)
EXTENDS HostState

Is(c, at) == conn[c].at = at

Move(c, at) == conn' = [conn EXCEPT ![c].at = at]

StaysPut == UNCHANGED <<inbox, writer, server, spent>>

Ending == {"close", "leave", "bye", "gone"}    \* the handler dropped its receiver

Connect(c) ==
    /\ Is(c, "out") /\ Move(c, "queued")
    /\ UNCHANGED host /\ StaysPut

\* connection: a drained host registers nobody; without descriptors for the
\* two copies of the socket the connection ends, too.
Register(c) ==
    /\ Is(c, "start")
    /\ \/ Move(c, "leave")
       \/ /\ ~host.draining
          /\ conn' = [conn EXCEPT ![c].at = "greet", ![c].registered = TRUE,
                                  ![c].reader = "reading"]
    /\ UNCHANGED host /\ StaysPut

--------------------------------------------------------------------------------
(* greet.  A hello that cannot be written ends the connection.             *)

Greet(c) ==
    /\ Is(c, "greet")
    /\ \/ Move(c, IF host.loaded = "loading" THEN "regreet" ELSE "top")
       \/ Move(c, "close")
    /\ UNCHANGED host /\ StaysPut

Regreet(c) ==
    /\ Is(c, "regreet")
    /\ \/ /\ conn[c].cancelled \/ host.draining \/ host.loaded # "loading"
          /\ Move(c, "close")
       \/ /\ ~conn[c].cancelled /\ ~host.draining
          /\ Move(c, IF host.loaded = "loading" THEN "GreetWait" ELSE "top")
    /\ UNCHANGED host /\ StaysPut

--------------------------------------------------------------------------------
(* answer_requests                                                         *)

LoopTop(c) ==
    /\ Is(c, "top")
    /\ Move(c, IF host.draining THEN "close" ELSE "recv")
    /\ UNCHANGED host /\ StaysPut

RecvLine(c) ==
    /\ Is(c, "recv") /\ conn[c].chan = "line"
    /\ conn' = [conn EXCEPT ![c].chan = "none", ![c].at = "answer"]
    /\ UNCHANGED host /\ StaysPut

RecvWake(c) ==
    /\ Is(c, "recv") /\ conn[c].chan = "wake"
    /\ conn' = [conn EXCEPT ![c].chan = "none",
                            ![c].at = IF conn[c].cancelled \/ host.draining THEN "close" ELSE "top"]
    /\ UNCHANGED host /\ StaysPut

\* Both senders are gone: the reader's and the registry's.
RecvClosed(c) ==
    /\ Is(c, "recv") /\ conn[c].chan = "none"
    /\ ~conn[c].registered /\ conn[c].reader = "done"
    /\ Move(c, "close")
    /\ UNCHANGED host /\ StaysPut

\* answer: a query is admitted first, a command goes to the writer; anything
\* else is answered or rejected here.
Answer(c) ==
    /\ Is(c, "answer")
    /\ \/ "query" \in Requests /\ Move(c, "admit")
       \/ "command" \in Requests /\ Move(c, "count")
       \/ "other" \in Requests /\ (Move(c, "after") \/ Move(c, "top"))
    /\ UNCHANGED host /\ StaysPut

\* Ran: the connection ends when it was cancelled or its socket is broken.
After(c) ==
    /\ Is(c, "after")
    /\ \/ ~conn[c].cancelled /\ Move(c, "top")
       \/ Move(c, "close")
    /\ UNCHANGED host /\ StaysPut

--------------------------------------------------------------------------------
(* admit and QueryPermit                                                   *)

Admit(c) ==
    /\ Is(c, "admit")
    /\ \/ /\ host.draining \/ conn[c].cancelled
          /\ Move(c, "close")
          /\ UNCHANGED host
       \/ /\ ~host.draining /\ ~conn[c].cancelled
          /\ host.queries < QueryLimit
          /\ host' = [host EXCEPT !.queries = @ + 1]
          /\ Move(c, "query")
       \/ /\ ~host.draining /\ ~conn[c].cancelled
          /\ host.queries >= QueryLimit
          /\ Move(c, "AdmitWait")
          /\ UNCHANGED host
    /\ StaysPut

\* The query has run, or panicked.
Release(c) ==
    /\ Is(c, "query") /\ Move(c, "notify")
    /\ host' = [host EXCEPT !.queries = @ - 1]
    /\ StaysPut

\* lifecycle_changed.notify_one
Notify(c) ==
    /\ Is(c, "notify")
    /\ LET asleep == {d \in Client : Is(d, "AdmitWait")} IN
       \/ asleep = {} /\ Move(c, "after")
       \/ \E d \in asleep : conn' = [conn EXCEPT ![c].at = "after", ![d].at = "admit"]
    /\ UNCHANGED host /\ StaysPut

--------------------------------------------------------------------------------
(* writer::execute                                                         *)

Count(c) ==
    /\ Is(c, "count") /\ Move(c, "send")
    /\ host' = [host EXCEPT !.pending = @ + 1]
    /\ StaysPut

Send(c) ==
    /\ Is(c, "send")
    /\ \/ Room /\ inbox' = [inbox EXCEPT !.queue = Append(@, c)] /\ Move(c, "await")
       \/ ~Room /\ UNCHANGED inbox /\ Move(c, "refuse")
    /\ UNCHANGED <<host, writer, server, spent>>

\* A variant of Refuse that keeps the count.
RefuseCounted(c) ==
    /\ Is(c, "refuse") /\ Move(c, "after")
    /\ UNCHANGED host /\ StaysPut

Refuse(c) ==
    /\ Is(c, "refuse") /\ Move(c, "after")
    /\ host' = [host EXCEPT !.pending = Released]
    /\ StaysPut

Await(c) ==
    /\ Is(c, "await") /\ conn[c].reply # "none"
    /\ conn' = [conn EXCEPT ![c].at = "after", ![c].reply = "none"]
    /\ UNCHANGED host /\ StaysPut

--------------------------------------------------------------------------------
(* The end of connection, and ClientCount's drop.                          *)

\* The shutdown ends the reader, which is joined.
Close(c) ==
    /\ Is(c, "close") /\ conn[c].reader = "done"
    /\ conn' = [conn EXCEPT ![c].at = "leave", ![c].registered = FALSE]
    /\ UNCHANGED host /\ StaysPut

Leave(c) ==
    /\ Is(c, "leave")
    /\ host' = [host EXCEPT !.clients = @ - 1]
    /\ conn' = ChangeNotified([conn EXCEPT ![c].at = "bye"])
    /\ StaysPut

\* A variant of Bye that leaves the server asleep.
ByeQuietly(c) ==
    /\ Is(c, "bye") /\ Move(c, "gone")
    /\ UNCHANGED host /\ StaysPut

\* wake_listener
Bye(c) ==
    /\ Is(c, "bye") /\ Move(c, "gone")
    /\ host' = [host EXCEPT !.wake = TRUE]
    /\ StaysPut

--------------------------------------------------------------------------------
(* read_requests                                                           *)

\* A line for which there is no room, or no receiver, ends the connection.
ReadLine(c) ==
    /\ conn[c].reader = "reading" /\ conn[c].lines > 0
    /\ LET fits == conn[c].chan = "none" /\ conn[c].at \notin Ending IN
       conn' = [conn EXCEPT ![c].lines = @ - 1,
                            ![c].chan = IF fits THEN "line" ELSE @,
                            ![c].reader = IF fits THEN @ ELSE "exit"]
    /\ UNCHANGED host /\ StaysPut

ReadDrain(c) ==
    /\ "drain" \in Requests
    /\ conn[c].reader = "reading"
    /\ Drain
    /\ StaysPut

\* The client hangs up or cancels.
ReadEnd(c) ==
    /\ conn[c].reader = "reading"
    /\ conn' = [conn EXCEPT ![c].reader = "exit"]
    /\ UNCHANGED host /\ StaysPut

\* The handler shut the socket down.
ReadShut(c) ==
    /\ conn[c].reader = "reading" /\ Is(c, "close")
    /\ conn' = [conn EXCEPT ![c].reader = "exit"]
    /\ UNCHANGED host /\ StaysPut

ReaderCancel(c) ==
    /\ conn[c].reader = "exit"
    /\ conn' = [Cancelled(c) EXCEPT ![c].reader = "unregister"]
    /\ UNCHANGED host /\ StaysPut

\* A variant of ReaderDone that leaves the registry its sender.
ReaderDoneRegistered(c) ==
    /\ conn[c].reader = "unregister"
    /\ conn' = [conn EXCEPT ![c].reader = "done"]
    /\ UNCHANGED host /\ StaysPut

ReaderDone(c) ==
    /\ conn[c].reader = "unregister"
    /\ conn' = [conn EXCEPT ![c].reader = "done", ![c].registered = FALSE]
    /\ UNCHANGED host /\ StaysPut

\* What a handler does that has been accepted by a loaded host and is sent no
\* command.
QueryStep(c) ==
    \/ Register(c) \/ Greet(c)
    \/ LoopTop(c) \/ RecvLine(c) \/ RecvWake(c) \/ RecvClosed(c) \/ Answer(c) \/ After(c)
    \/ Admit(c) \/ Release(c) \/ Notify(c)
    \/ Close(c) \/ Leave(c) \/ Bye(c)

HandlerStep(c) ==
    QueryStep(c) \/ Regreet(c) \/ Count(c) \/ Send(c) \/ Refuse(c) \/ Await(c)

ReaderStep(c) == ReadShut(c) \/ ReaderCancel(c) \/ ReaderDone(c)

ReadStep(c) == ReadLine(c) \/ ReadDrain(c) \/ ReadEnd(c)

ClientStep(c) == Connect(c) \/ ReadStep(c)

--------------------------------------------------------------------------------
(* The connections by themselves: every client was accepted by a host that *)
(* has loaded, and its writer waits for work.                              *)

ConnInit ==
    /\ host = [loaded |-> "ready", draining |-> FALSE, stop |-> FALSE, fatal |-> FALSE,
               wake |-> FALSE, clients |-> Cardinality(Client), queries |-> 0,
               running |-> FALSE, pending |-> 0]
    /\ inbox = [queue |-> <<>>, woken |-> FALSE, waker |-> [w \in Waker |-> "idle"]]
    /\ conn = [c \in Client |-> [NewConn EXCEPT !.at = "start"]]
    /\ writer = [at |-> "block", timeout |-> "far", command |-> {}, events |-> FALSE,
                 intake |-> TRUE, merge |-> "none"]
    /\ server = [at |-> "recv", draining |-> FALSE, clients |-> Cardinality(Client),
                 broken |-> FALSE]
    /\ spent = [events |-> 0, merges |-> 0, failures |-> 0]

ConnNext == \E c \in Client : QueryStep(c) \/ ReaderStep(c) \/ ReadStep(c)

ConnSpec == ConnInit /\ [][ConnNext]_vars

\* Whenever a query slot is free while a query sleeps on the condition
\* variable, some thread is awake that will take the slot or notify: the
\* notify_one in QueryPermit's drop is never wasted on a query that gives up.
NoLostPermit ==
    (host.queries < QueryLimit /\ \E c \in Client : Is(c, "AdmitWait"))
        => \E d \in Client : conn[d].at \in {"admit", "notify"}

\* A connection whose client hung up or cancelled ends, though a line filled
\* its channel or its command is still with the writer.
HangupsEnd ==
    \A c \in Client : conn[c].cancelled ~> (Is(c, "gone") \/ server.at = "exited")
================================================================================
