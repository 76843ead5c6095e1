------------------------------ MODULE Endpoint ------------------------------
(***************************************************************************)
(* One index's endpoint: the processes that start, own and leave it         *)
(* (ferret/src/daemon.rs) and the clients that look for an owner            *)
(* (ferret/src/daemon/client.rs and client/connect.rs).  Three files are    *)
(* shared: the endpoint lock, held for an owner's lifetime, the socket, and *)
(* the catalog's writer lock.  What happens inside an owner is the matter   *)
(* of DaemonHost; here an owner loads, answers, drains and leaves.          *)
(*                                                                          *)
(* Each daemon process runs once and binds at most one socket, so a socket  *)
(* is named by the process that bound it (its device and inode in the       *)
(* code).  Locks are flocks: a process that dies releases them.             *)
(***************************************************************************)
EXTENDS Naturals, FiniteSets

CONSTANTS Daemon,      \* ferretd processes that may start
          Old,         \* those of another build, started by hand
          Writer,      \* clients that run `ferret index` or `roots remove`
          Query,       \* clients that search
          None,
          MaxCrashes,  \* how many owners or starters may be killed
          Idles,       \* BOOLEAN: an idle timeout is configured
          Fails        \* BOOLEAN: a load or a ready writer may fail of itself

Client == Writer \cup Query

ASSUME EndpointAssumption ==
  /\ Old \subseteq Daemon /\ Writer \cap Query = {} /\ Client \cap Daemon = {}
  /\ None \notin Daemon \cup Client /\ MaxCrashes \in Nat

VARIABLES
  daemon,       \* [Daemon -> [at, loaded, draining]]
  client,       \* [Client -> [at, on, seen, waits, by]]
  endpointLock, \* the process holding the endpoint lock, or None
  socket,       \* the process that bound the endpoint's socket file, or None
  catalogLock,  \* the daemon or client holding the writer lock, or None
  crashes

vars == <<daemon, client, endpointLock, socket, catalogLock, crashes>>

(* A daemon's places: "none" (not started), "lock" (win_singleton), "probe", *)
(* "bind", "bound" (the socket is not yet private), "serving", then the      *)
(* teardown "stopping", "closed", "removed", and "gone", or "expired" for a  *)
(* starter whose deadline passed.                                            *)
Up(d) == daemon[d].at \notin {"none", "gone", "expired"}
Listens(d) == daemon[d].at \in {"bound", "serving", "stopping", "closed", "removed"}

\* Connections are taken and greeted.
Answers(d) == daemon[d].at = "serving" /\ ~daemon[d].draining

Init ==
  /\ daemon = [d \in Daemon |-> [at |-> "none", loaded |-> "loading", draining |-> FALSE]]
  /\ client = [c \in Client |-> [at |-> "idle", on |-> None, seen |-> None,
                                 waits |-> None, by |-> None]]
  /\ endpointLock = None /\ socket = None /\ catalogLock = None
  /\ crashes = 0

----------------------------------------------------------------------------
(* Starting.                                                               *)

Moved(d, place) == [daemon EXCEPT ![d].at = place]

\* An old ferretd, started by hand or left from before an upgrade.
Launch(d) ==
  /\ d \in Old /\ daemon[d].at = "none"
  /\ daemon' = Moved(d, "lock")
  /\ UNCHANGED <<client, endpointLock, socket, catalogLock, crashes>>

\* owner_responds: the holder's socket accepts and says hello.
OwnerResponds == socket # None /\ Answers(socket)

\* A variant: an owner that does not answer is taken for dead; a starter that
\* finds the lock held leaves at once.
TryLockSilent(d) ==
  /\ daemon[d].at = "lock"
  /\ \/ /\ endpointLock = None \/ ~OwnerResponds
        /\ endpointLock' = d /\ daemon' = Moved(d, "probe")
     \/ /\ endpointLock # None /\ OwnerResponds
        /\ daemon' = Moved(d, "gone") /\ UNCHANGED endpointLock
  /\ UNCHANGED <<client, socket, catalogLock, crashes>>

TryLockOnce(d) ==
  /\ daemon[d].at = "lock"
  /\ \/ /\ endpointLock = None
        /\ endpointLock' = d /\ daemon' = Moved(d, "probe")
     \/ /\ endpointLock # None
        /\ daemon' = Moved(d, "gone") /\ UNCHANGED endpointLock
  /\ UNCHANGED <<client, socket, catalogLock, crashes>>

\* win_singleton: takes the lifetime lock, or retries until the holder answers.
TryLock(d) ==
  /\ daemon[d].at = "lock"
  /\ \/ /\ endpointLock = None
        /\ endpointLock' = d /\ daemon' = Moved(d, "probe")
     \/ /\ endpointLock # None /\ OwnerResponds
        /\ daemon' = Moved(d, "gone") /\ UNCHANGED endpointLock
  /\ UNCHANGED <<client, socket, catalogLock, crashes>>

\* win_singleton's deadline passes while the holder keeps the lock, silent.
Expire(d) ==
  /\ daemon[d].at = "lock" /\ endpointLock # None /\ ~OwnerResponds
  /\ daemon' = Moved(d, "expired")
  /\ UNCHANGED <<client, endpointLock, socket, catalogLock, crashes>>

\* The winner leaves a socket that accepts alone, and unlinks any other.
Probe(d) ==
  /\ daemon[d].at = "probe"
  /\ IF socket # None /\ Listens(socket)
     THEN daemon' = Moved(d, "gone") /\ endpointLock' = None /\ UNCHANGED socket
     ELSE daemon' = Moved(d, "bind") /\ socket' = None /\ UNCHANGED endpointLock
  /\ UNCHANGED <<client, catalogLock, crashes>>

Bind(d) ==
  /\ daemon[d].at = "bind"
  /\ socket' = d
  /\ daemon' = Moved(d, "bound")
  /\ UNCHANGED <<client, endpointLock, catalogLock, crashes>>

\* The socket is made private; the accept and the writer threads start.
Start(d) ==
  /\ daemon[d].at = "bound"
  /\ daemon' = Moved(d, "serving")
  /\ UNCHANGED <<client, endpointLock, socket, catalogLock, crashes>>

\* The writer takes the catalog's lock for good, or the host stays as failed.
Load(d) ==
  /\ daemon[d].at = "serving" /\ daemon[d].loaded = "loading"
  /\ \/ /\ catalogLock = None
        /\ catalogLock' = d
        /\ daemon' = [daemon EXCEPT ![d].loaded = "ready"]
     \/ /\ catalogLock # None \/ Fails
        /\ daemon' = [daemon EXCEPT ![d].loaded = "failed"]
        /\ UNCHANGED catalogLock
  /\ UNCHANGED <<client, endpointLock, socket, crashes>>

----------------------------------------------------------------------------
(* Leaving.                                                                *)

\* A ready writer stops with an error: the host drains.
Fatal(d) ==
  /\ Fails /\ daemon[d].at = "serving" /\ daemon[d].loaded = "ready"
  /\ ~daemon[d].draining
  /\ daemon' = [daemon EXCEPT ![d].draining = TRUE]
  /\ UNCHANGED <<client, endpointLock, socket, catalogLock, crashes>>

\* Connections the server loop has taken.
Connected(d) == {c \in Client : client[c].on = d /\ client[c].at \in {"hello", "served"}}

Leaves(d) ==
  /\ daemon[d].at = "serving" /\ daemon[d].loaded # "loading" /\ Connected(d) = {}
  /\ daemon' = Moved(d, "stopping")
  /\ UNCHANGED <<client, endpointLock, socket, catalogLock, crashes>>

IdleOut(d) == Idles /\ Leaves(d)
DrainOut(d) == daemon[d].draining /\ Leaves(d)

Unlocks(d) == catalogLock' = IF catalogLock = d THEN None ELSE catalogLock
Unlinks(d) == socket' = IF socket = d THEN None ELSE socket

\* A variant: the socket is removed as soon as the exit is decided (D110's A).
TeardownUnlinksFirst(d) ==
  \/ /\ daemon[d].at = "stopping"
     /\ Unlinks(d) /\ daemon' = Moved(d, "closed")
     /\ UNCHANGED <<client, endpointLock, catalogLock, crashes>>
  \/ /\ daemon[d].at = "closed"
     /\ Unlocks(d) /\ daemon' = Moved(d, "removed")
     /\ UNCHANGED <<client, endpointLock, socket, crashes>>
  \/ /\ daemon[d].at = "removed"
     /\ endpointLock' = None /\ daemon' = Moved(d, "gone")
     /\ UNCHANGED <<client, socket, catalogLock, crashes>>

\* The writer is joined and its lock released, then the own socket removed,
\* then, with the process, the endpoint lock released.
Teardown(d) ==
  \/ /\ daemon[d].at = "stopping"
     /\ Unlocks(d) /\ daemon' = Moved(d, "closed")
     /\ UNCHANGED <<client, endpointLock, socket, crashes>>
  \/ /\ daemon[d].at = "closed"
     /\ Unlinks(d) /\ daemon' = Moved(d, "removed")
     /\ UNCHANGED <<client, endpointLock, catalogLock, crashes>>
  \/ /\ daemon[d].at = "removed"
     /\ endpointLock' = None /\ daemon' = Moved(d, "gone")
     /\ UNCHANGED <<client, socket, catalogLock, crashes>>

\* A process is killed: its locks go with it, its socket file stays.
Crash(d) ==
  /\ crashes < MaxCrashes /\ Up(d)
  /\ crashes' = crashes + 1
  /\ daemon' = Moved(d, "gone")
  /\ endpointLock' = IF endpointLock = d THEN None ELSE endpointLock
  /\ Unlocks(d)
  /\ UNCHANGED <<client, socket>>

----------------------------------------------------------------------------
(* Clients.                                                                *)

Stays == UNCHANGED <<endpointLock, socket, catalogLock, crashes>>

Begin(c) ==
  /\ client[c].at = "idle"
  /\ client' = [client EXCEPT ![c].at = "look"]
  /\ UNCHANGED daemon /\ Stays

\* spawn: a new ferretd.  The pool of processes bounds how many.
Spawned == {d \in Daemon \ Old : daemon[d].at = "none"}
Spawn == IF Spawned = {} THEN UNCHANGED daemon
         ELSE \E d \in Spawned : daemon' = Moved(d, "lock")

\* Nobody to connect to.  A writer runs in its own process; a query starts a
\* daemon and answers itself.
Miss(c) ==
  IF c \in Writer
  THEN client' = [client EXCEPT ![c].at = "direct"] /\ UNCHANGED daemon
  ELSE client' = [client EXCEPT ![c].at = "done"] /\ Spawn

\* Ends without an answer from an owner: a query answers itself, a writer
\* reports the error.
GiveUp(c) ==
  client' = [client EXCEPT ![c].at = IF c \in Writer THEN "error" ELSE "done",
                           ![c].on = None]

\* open_socket's check of the file, once the socket waited for is gone.
Look(c) ==
  /\ client[c].at = "look"
  /\ socket = None \/ socket # client[c].waits
  /\ IF socket = None \/ daemon[socket].at = "bound" THEN Miss(c)
     ELSE /\ client' = [client EXCEPT ![c].at = "connect", ![c].seen = socket]
          /\ UNCHANGED daemon
  /\ Stays

\* The connection, to whatever has the path by now.
Connect(c) ==
  /\ client[c].at = "connect"
  /\ IF socket = None \/ ~Listens(socket) THEN Miss(c)
     ELSE /\ client' = [client EXCEPT ![c].at = "greet", ![c].on = socket]
          /\ UNCHANGED daemon
  /\ Stays

\* The owner takes the connection and says hello.
Greeted(c) ==
  /\ client[c].at = "greet" /\ Answers(client[c].on)
  /\ client' = [client EXCEPT ![c].at = "hello"]
  /\ UNCHANGED daemon /\ Stays

\* The owner closes before any hello, or dies: a writer waits for the socket
\* it saw to go.
ClosedUnmet(c) ==
  /\ client[c].at = "greet"
  /\ LET d == client[c].on
     IN daemon[d].at = "gone" \/ (daemon[d].at = "serving" /\ daemon[d].draining)
  /\ IF c \in Writer
     THEN client' = [client EXCEPT ![c].at = "look", ![c].waits = client[c].seen,
                                   ![c].on = None]
     ELSE GiveUp(c)
  /\ UNCHANGED daemon /\ Stays

\* What a hello leaves to do.  A writer reads on while the owner loads.
Hello(c) ==
  /\ client[c].at = "hello"
  /\ LET d == client[c].on
         state == daemon[d].loaded
     IN /\ Answers(d) /\ ~(c \in Writer /\ state = "loading")
        /\ CASE d \in Old /\ c \in Query ->
                  \* Another build: asked to drain, and waited for.
                  /\ daemon' = [daemon EXCEPT ![d].draining = TRUE]
                  /\ client' = [client EXCEPT ![c].at = "look", ![c].waits = socket,
                                              ![c].on = None]
             [] d \notin Old /\ state = "ready" ->
                  client' = [client EXCEPT ![c].at = "served"] /\ UNCHANGED daemon
             [] OTHER -> GiveUp(c) /\ UNCHANGED daemon
  /\ Stays

\* The owner leaves or dies under a client it has greeted.
ClosedMet(c) ==
  /\ client[c].at \in {"hello", "served"} /\ ~Answers(client[c].on)
  /\ GiveUp(c)
  /\ UNCHANGED daemon /\ Stays

Served(c) ==
  /\ client[c].at = "served" /\ Up(client[c].on)
  /\ client' = [client EXCEPT ![c].at = "done", ![c].on = None]
  /\ UNCHANGED daemon /\ Stays

\* The startup deadline passes while the client waits.
TimeOut(c) ==
  /\ client[c].at \in {"look", "greet", "hello"}
  /\ GiveUp(c)
  /\ UNCHANGED daemon /\ Stays

\* The in-process index takes the catalog's lock, or is refused.
Direct(c) ==
  /\ client[c].at = "direct"
  /\ IF catalogLock = None
     THEN catalogLock' = c /\ client' = [client EXCEPT ![c].at = "indexing"]
     ELSE /\ client' = [client EXCEPT ![c].at = "refused", ![c].by = catalogLock]
          /\ UNCHANGED catalogLock
  /\ UNCHANGED <<daemon, endpointLock, socket, crashes>>

\* The index is published, its lock dropped, and ferretd started.
Indexed(c) ==
  /\ client[c].at = "indexing"
  /\ catalogLock' = None
  /\ client' = [client EXCEPT ![c].at = "indexed"]
  /\ Spawn
  /\ UNCHANGED <<endpointLock, socket, crashes>>

----------------------------------------------------------------------------

DaemonStep(d) == TryLock(d) \/ Probe(d) \/ Bind(d) \/ Start(d) \/ Load(d)
                   \/ DrainOut(d) \/ Teardown(d)

ClientStep(c) == Look(c) \/ Connect(c) \/ Greeted(c) \/ ClosedUnmet(c) \/ Hello(c)
                   \/ ClosedMet(c) \/ Served(c) \/ Direct(c) \/ Indexed(c)

Next == \/ \E d \in Daemon : \/ DaemonStep(d) \/ Launch(d) \/ Expire(d)
                               \/ Fatal(d) \/ IdleOut(d) \/ Crash(d)
        \/ \E c \in Client : ClientStep(c) \/ Begin(c) \/ TimeOut(c)

Spec == Init /\ [][Next]_vars

\* Processes that run are scheduled.  Nothing need start, fail or idle
\* out, and no deadline need pass.
Fairness == (\A d \in Daemon : WF_vars(DaemonStep(d)))
              /\ (\A c \in Client : WF_vars(ClientStep(c)))

FairSpec == Spec /\ Fairness

----------------------------------------------------------------------------
(* Properties.                                                             *)

TypeOK ==
  /\ daemon \in [Daemon -> [at : {"none", "lock", "probe", "bind", "bound", "serving",
                                  "stopping", "closed", "removed", "gone", "expired"},
                            loaded : {"loading", "ready", "failed"}, draining : BOOLEAN]]
  /\ client \in [Client -> [at : {"idle", "look", "connect", "greet", "hello", "served",
                                  "direct", "indexing", "indexed", "refused", "error",
                                  "done"},
                            on : Daemon \cup {None}, seen : Daemon \cup {None},
                            waits : Daemon \cup {None}, by : Daemon \cup Client \cup {None}]]
  /\ endpointLock \in Daemon \cup {None} /\ socket \in Daemon \cup {None}
  /\ catalogLock \in Daemon \cup Client \cup {None} /\ crashes \in 0..MaxCrashes
  \* The locks are held exactly where the processes that took them think so.
  /\ \A d \in Daemon : Up(d) /\ daemon[d].at # "lock" <=> endpointLock = d
  /\ \A c \in Client : client[c].at = "indexing" <=> catalogLock = c

\* While an owner runs, from its bind to its own removal, the endpoint's socket
\* is the one it bound: no starter, however many race it or find it silent,
\* unlinks it or binds over it.  run's comment: "The lifetime-held endpoint
\* lock excludes starters through cleanup."
LiveSocket ==
  /\ TypeOK
  /\ \A d \in Daemon :
       daemon[d].at \in {"bound", "serving", "stopping", "closed"} => socket = d

\* A writer that waited out a leaving owner is not refused by that owner's
\* catalog lock, and a daemon holds that lock only while its socket stands
\* (D110: writer lock released, then socket removed, then endpoint lock).
NotRefusedByLeaver ==
  /\ \A c \in Writer : client[c].at = "refused" /\ client[c].by \in Daemon =>
       client[c].by # client[c].waits
  /\ catalogLock \in Daemon => socket = catalogLock

\* A started daemon ends with an owner that answers, itself or the one that
\* made it leave, though an old owner drains, holds the lock or has crashed;
\* only its own deadline may end it first.
StartedServes ==
  \A d \in Daemon :
    daemon[d].at = "lock" /\ crashes = MaxCrashes
      ~> daemon[d].at = "expired" \/ \E e \in Daemon : Answers(e)
============================================================================
