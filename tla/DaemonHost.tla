------------------------------ MODULE DaemonHost -------------------------------
(***************************************************************************)
(* ferretd: the server loop of ferret/src/daemon.rs, composed with the     *)
(* writer's threads and the connections.                                   *)
(***************************************************************************)
EXTENDS WriterLoop, Connections

Serving(s) == server.at = s

--------------------------------------------------------------------------------
(* serve.  Its reads of the state are one step: whoever changes what it    *)
(* read queues a ServerEvent afterwards, and only it adds clients.         *)

Done == host.clients = 0 /\ ~Busy

\* The idle deadline may or may not have passed.
Looked(leaves) ==
    /\ Serving("look")
    /\ \/ /\ leaves \/ (Idle /\ Done)
          /\ server' = [server EXCEPT !.at = "stop"]
       \/ /\ ~leaves
          /\ server' = [server EXCEPT !.at = "recv", !.draining = host.draining,
                                      !.clients = host.clients]
    /\ UNCHANGED <<host, inbox, conn, writer, spent>>

\* A variant of Look for which a drained host has nothing to wait for.
LookOnce == Looked(host.fatal \/ host.draining)

Look ==
    Looked((host.fatal /\ host.clients = 0) \/ (host.draining /\ Done))

ServeWake ==
    /\ Serving("recv")
    /\ host.wake
    /\ host' = [host EXCEPT !.wake = FALSE]
    /\ server' = [server EXCEPT !.at = "look"]
    /\ UNCHANGED <<inbox, conn, writer, spent>>

\* A connection is handed to a thread of its own, or dropped.
Accept(c) ==
    /\ Serving("recv")
    /\ Is(c, "queued")
    /\ server' = [server EXCEPT !.at = "look"]
    /\ \/ /\ ~server.draining /\ server.clients < MaxClients
          /\ host' = [host EXCEPT !.clients = @ + 1]
          /\ Move(c, "start")
       \/ /\ server.draining \/ server.clients >= MaxClients
          /\ Move(c, "gone")
          /\ UNCHANGED host
    /\ UNCHANGED <<inbox, writer, spent>>

IdleTimeout ==
    /\ Serving("recv") /\ Idle /\ server.clients = 0
    /\ server' = [server EXCEPT !.at = "look"]
    /\ UNCHANGED <<host, inbox, conn, writer, spent>>

AcceptError ==
    /\ Serving("recv")
    /\ Failing
    /\ server' = [server EXCEPT !.at = "stop", !.broken = TRUE]
    /\ UNCHANGED <<host, inbox, conn, writer>>

--------------------------------------------------------------------------------
(* The rest of run: stop and join the writer, then close it.               *)

StopWriter ==
    /\ Serving("stop")
    /\ host' = [host EXCEPT !.stop = TRUE]
    /\ inbox' = [inbox EXCEPT !.waker["server"] = "swap"]
    /\ server' = [server EXCEPT !.at = "join"]
    /\ UNCHANGED <<conn, writer, spent>>

\* A variant of Join that does not wait.
JoinNothing ==
    /\ Serving("join")
    /\ inbox.waker["server"] = "idle"
    /\ server' = [server EXCEPT !.at = "exited"]
    /\ UNCHANGED <<host, inbox, conn, writer, spent>>

Join ==
    /\ Serving("join")
    /\ inbox.waker["server"] = "idle"
    /\ writer.at = "ended"
    /\ server' = [server EXCEPT !.at = "exited"]
    /\ UNCHANGED <<host, inbox, conn, writer, spent>>

ServerStep == Look \/ ServeWake \/ (\E c \in Client : Accept(c)) \/ StopWriter \/ Join

--------------------------------------------------------------------------------
Next ==
    /\ ~Serving("exited")
    /\ \/ WriterStep \/ MergeStep \/ ServerStep
       \/ TimeoutFar \/ LoadFail \/ CommandFail \/ Event \/ IntakeFail
       \/ IdleTimeout \/ AcceptError
       \/ \E w \in Waker : Wake(w)
       \/ \E c \in Client : HandlerStep(c) \/ ReaderStep(c) \/ ClientStep(c)

Spec == Init /\ [][Next]_vars

\* Threads run, calls and queries end, and a burst becomes due.  Nothing is
\* assumed of clients, failures, or the far timeouts.
Fairness ==
    /\ WF_vars(WriterStep /\ ~Serving("exited"))
    /\ SF_vars(TurnRefresh /\ writer.events /\ ~Serving("exited"))
    /\ WF_vars((MergeStep \/ Wake("merge")) /\ ~Serving("exited"))
    /\ WF_vars((ServerStep \/ Wake("server")) /\ ~Serving("exited"))
    /\ WF_vars(Wake("intake") /\ ~Serving("exited"))
    /\ \A c \in Client : /\ WF_vars(HandlerStep(c) /\ ~Serving("exited"))
                         /\ WF_vars(ReaderStep(c) /\ ~Serving("exited"))

FairSpec == Spec /\ Fairness

--------------------------------------------------------------------------------
(* Properties.                                                             *)

Queued == {c \in Client : \E i \in 1 .. Len(inbox.queue) : inbox.queue[i] = c}

\* While the writer serves, writer_pending counts exactly the commands that
\* are announced and not yet settled, so writer::busy is never stuck.
PendingExact ==
    /\ TypeOK
    /\ (Receiving /\ ~At("failing")) =>
          host.pending =
              Cardinality({c \in Client : conn[c].at \in {"send", "refuse"}})
            + Cardinality(Queued)
            + (IF writer.at \in {"command", "lane", "reply"} THEN 1 ELSE 0)

\* A command the queue accepted is dropped only when the writer failed or
\* the listener did: an idle or drained host never leaves beside one.
CommandsNotDropped ==
    (\E c \in Client : conn[c].reply = "dropped") =>
        host.fatal \/ server.broken \/ host.loaded = "failed"
            \/ writer.at \in {"failing", "failed", "unloaded"}

\* close_writer gives up the catalog's lock: by then no thread that writes
\* is left, and except after an accept error no connection is either.
ExitsClean ==
    Serving("exited") =>
        /\ writer.at = "ended" /\ writer.merge = "none"
        /\ ~server.broken => \A c \in Client : conn[c].at \in {"out", "queued", "bye", "gone"}

\* A drained host exits, however the drain races connections being made,
\* channels that are full, commands and loads.
DrainExits == host.draining ~> Serving("exited")

\* A burst the watch holds is refreshed, though its wakeup met a full queue
\* or was coalesced, unless the host is leaving.
EventsServed == writer.events ~> (~writer.events \/ host.draining \/ host.stop)

\* A client whose command was accepted hears from the writer.
CommandsAnswered ==
    \A c \in Client : Is(c, "await") ~> (~Is(c, "await") \/ Serving("exited"))
================================================================================
