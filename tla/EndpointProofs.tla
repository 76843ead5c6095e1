--------------------------- MODULE EndpointProofs ---------------------------
(***************************************************************************)
(* The lock order of an endpoint, for any number of daemons and clients:    *)
(* one lemma for each kind of step, then the two safety properties.         *)
(***************************************************************************)
EXTENDS Endpoint, TLAPS

\* Processes whose socket has been bound; they never bind another.
HasBound(d) ==
  daemon[d].at \in {"bound", "serving", "stopping", "closed", "removed", "gone"}

\* A running owner's socket stands until it removes it, and only a process that
\* has bound is named by the socket file or remembered by a client.
SocketInv ==
  /\ \A d \in Daemon :
       daemon[d].at \in {"bound", "serving", "stopping", "closed"} => socket = d
  /\ socket \in Daemon => HasBound(socket)
  /\ \A c \in Client :
       /\ client[c].seen \in Daemon => HasBound(client[c].seen)
       /\ client[c].waits \in Daemon => HasBound(client[c].waits)

\* The writer lock is a daemon's only from its load to the join of its writer.
CatalogInv ==
  \A d \in Daemon : catalogLock = d => daemon[d].at \in {"serving", "stopping"}

\* A client past the wait has seen the owner it waited for remove its socket,
\* or die.
WaitInv ==
  \A c \in Client :
    /\ client[c].at \in {"connect", "greet", "hello", "served", "direct"}
         /\ client[c].waits \in Daemon
         => daemon[client[c].waits].at \in {"removed", "gone"}
    /\ client[c].at = "refused" /\ client[c].by \in Daemon =>
         client[c].by # client[c].waits

EndpointInv == TypeOK /\ SocketInv /\ CatalogInv /\ WaitInv

\* A daemon's record, as TypeOK has it.
Process ==
  [at : {"none", "lock", "probe", "bind", "bound", "serving",
         "stopping", "closed", "removed", "gone", "expired"},
   loaded : {"loading", "ready", "failed"}, draining : BOOLEAN]

\* No process runs, no lock is held and no socket stands.
LEMMA InitInv == Init => EndpointInv
  BY EndpointAssumption
  DEF Init, EndpointInv, TypeOK, SocketInv, CatalogInv, WaitInv, HasBound, Up, Client

\* A request to drain moves nobody.
LEMMA Drained ==
    ASSUME TypeOK, NEW d \in Daemon, daemon' = [daemon EXCEPT ![d].draining = TRUE]
    PROVE  /\ daemon' \in [Daemon -> Process]
           /\ \A e \in Daemon : daemon'[e].at = daemon[e].at
<1>1. daemon \in [Daemon -> Process]
  BY DEF TypeOK, Process
<1>2. [daemon[d] EXCEPT !.draining = TRUE] \in Process
  BY <1>1 DEF Process
<1>3. daemon' = [daemon EXCEPT ![d] = [daemon[d] EXCEPT !.draining = TRUE]]
  OBVIOUS
<1>4. daemon' \in [Daemon -> Process]
  BY <1>1, <1>2, <1>3
<1>5. daemon'[d].at = daemon[d].at /\ \A e \in Daemon \ {d} : daemon'[e] = daemon[e]
  BY <1>1, <1>3 DEF Process
<1> QED BY <1>4, <1>5

\* What a daemon does to itself, its locks and its socket.
LEMMA DaemonInv ==
    ASSUME EndpointInv, NEW d \in Daemon,
           DaemonStep(d) \/ Launch(d) \/ Expire(d) \/ Fatal(d) \/ IdleOut(d) \/ Crash(d)
    PROVE  EndpointInv'
<1> USE EndpointAssumption DEF EndpointInv, Moved, Up, Client
<1>0. UNCHANGED client
  BY DEF DaemonStep, Launch, Expire, Fatal, IdleOut, Crash, TryLock, Probe, Bind, Start,
         Load, DrainOut, Leaves, Teardown
<1>1. CASE TryLock(d)
  BY <1>0, <1>1 DEF TryLock, TypeOK, SocketInv, CatalogInv, WaitInv, HasBound
<1>2. CASE Probe(d)
  BY <1>0, <1>2 DEF Probe, Listens, TypeOK, SocketInv, CatalogInv, WaitInv, HasBound
<1>3. CASE Bind(d)
  BY <1>0, <1>3 DEF Bind, TypeOK, SocketInv, CatalogInv, WaitInv, HasBound
<1>4. CASE Start(d)
  BY <1>0, <1>4 DEF Start, TypeOK, SocketInv, CatalogInv, WaitInv, HasBound
<1>5. CASE Load(d)
  BY <1>0, <1>5 DEF Load, TypeOK, SocketInv, CatalogInv, WaitInv, HasBound
<1>6. CASE Leaves(d)
  BY <1>0, <1>6 DEF Leaves, TypeOK, SocketInv, CatalogInv, WaitInv, HasBound
<1>7. CASE Teardown(d)
  <2>1. CASE daemon[d].at = "stopping"
    BY <1>0, <1>7, <2>1
    DEF Teardown, Unlocks, TypeOK, SocketInv, CatalogInv, WaitInv, HasBound
  <2>2. CASE daemon[d].at = "closed"
    BY <1>0, <1>7, <2>2
    DEF Teardown, Unlinks, TypeOK, SocketInv, CatalogInv, WaitInv, HasBound
  <2>3. CASE daemon[d].at = "removed"
    BY <1>0, <1>7, <2>3
    DEF Teardown, TypeOK, SocketInv, CatalogInv, WaitInv, HasBound
  <2> QED BY <1>7, <2>1, <2>2, <2>3 DEF Teardown
<1>8. CASE Launch(d)
  BY <1>0, <1>8 DEF Launch, TypeOK, SocketInv, CatalogInv, WaitInv, HasBound
<1>9. CASE Expire(d)
  BY <1>0, <1>9 DEF Expire, TypeOK, SocketInv, CatalogInv, WaitInv, HasBound
<1>10. CASE Fatal(d)
  <2>1. /\ daemon' = [daemon EXCEPT ![d].draining = TRUE]
        /\ UNCHANGED <<endpointLock, socket, catalogLock, crashes>>
    BY <1>10 DEF Fatal
  <2>2. /\ daemon' \in [Daemon -> Process]
        /\ \A e \in Daemon : daemon'[e].at = daemon[e].at
    BY <2>1, Drained
  <2> QED BY <1>0, <2>1, <2>2 DEF Process, TypeOK, SocketInv, CatalogInv, WaitInv, HasBound
<1>11. CASE Crash(d)
  BY <1>0, <1>11 DEF Crash, Unlocks, TypeOK, SocketInv, CatalogInv, WaitInv, HasBound
<1> QED
  BY <1>1, <1>2, <1>3, <1>4, <1>5, <1>6, <1>7, <1>8, <1>9, <1>10, <1>11
  DEF DaemonStep, DrainOut, IdleOut

\* A client starts at most one daemon, which goes on to take the lock.
LEMMA SpawnMoves ==
    ASSUME Spawn
    PROVE  UNCHANGED daemon \/ \E d \in Daemon : daemon[d].at = "none" /\ daemon' = Moved(d, "lock")
  BY DEF Spawn, Spawned

\* A daemon that is started has neither lock nor socket, and nobody knows it.
LEMMA SpawnInv ==
    ASSUME EndpointInv, Spawn
    PROVE  /\ daemon' \in [Daemon -> Process]
           /\ \A d \in Daemon :
                daemon'[d] = daemon[d] \/ (daemon[d].at = "none" /\ daemon'[d].at = "lock")
<1>1. CASE UNCHANGED daemon
  BY <1>1 DEF EndpointInv, TypeOK, Process
<1>2. ASSUME NEW d \in Daemon, daemon[d].at = "none", daemon' = Moved(d, "lock")
      PROVE  /\ daemon' \in [Daemon -> Process]
             /\ \A e \in Daemon :
                  daemon'[e] = daemon[e] \/ (daemon[e].at = "none" /\ daemon'[e].at = "lock")
  BY <1>2 DEF EndpointInv, TypeOK, Moved, Process
<1> QED BY <1>1, <1>2, SpawnMoves

\* What a client does; it leaves the endpoint lock and the socket alone.
LEMMA ClientInv ==
    ASSUME EndpointInv, NEW c \in Client,
           ClientStep(c) \/ Begin(c) \/ TimeOut(c)
    PROVE  EndpointInv'
<1> USE EndpointAssumption DEF EndpointInv, Client
<1>1. CASE Begin(c)
  BY <1>1 DEF Begin, Stays, TypeOK, SocketInv, CatalogInv, WaitInv, HasBound, Up
<1>2. CASE Look(c)
  <2>1. CASE socket = None \/ daemon[socket].at = "bound"
    <3>1. TypeOK'
      <4>1. CASE c \in Writer
        BY <1>2, <2>1, <4>1 DEF Look, Miss, Stays, TypeOK, Up
      <4>2. CASE c \notin Writer
        <5>1. /\ Spawn /\ UNCHANGED <<endpointLock, socket, catalogLock, crashes>>
              /\ client' = [client EXCEPT ![c].at = "done"] /\ client[c].at = "look"
          BY <1>2, <2>1, <4>2 DEF Look, Miss, Stays
        <5> QED BY <5>1, SpawnInv DEF TypeOK, Up, Process
      <4> QED BY <4>1, <4>2
    <3>2. SocketInv' /\ CatalogInv'
      BY <1>2, <2>1, SpawnInv DEF Look, Miss, Stays, TypeOK, SocketInv, CatalogInv, HasBound
    <3>3. WaitInv'
      BY <1>2, <2>1, SpawnInv DEF Look, Miss, Stays, TypeOK, SocketInv, WaitInv, HasBound
    <3> QED BY <3>1, <3>2, <3>3
  <2>2. CASE ~(socket = None \/ daemon[socket].at = "bound")
    <3>1. /\ UNCHANGED <<daemon, endpointLock, socket, catalogLock, crashes>>
          /\ client' = [client EXCEPT ![c].at = "connect", ![c].seen = socket]
          /\ client[c].at = "look" /\ socket # client[c].waits
      BY <1>2, <2>2 DEF Look, Stays
    <3> QED BY <3>1 DEF TypeOK, SocketInv, CatalogInv, WaitInv, HasBound, Up
  <2> QED BY <2>1, <2>2
<1>3. CASE Connect(c)
  BY <1>3, SpawnInv
  DEF Process, Connect, Miss, Stays, TypeOK, SocketInv, CatalogInv, WaitInv, HasBound, Up
<1>4. CASE Greeted(c)
  BY <1>4 DEF Greeted, Stays, TypeOK, SocketInv, CatalogInv, WaitInv, HasBound, Up
<1>5. CASE ClosedUnmet(c)
  BY <1>5 DEF ClosedUnmet, GiveUp, Stays, TypeOK, SocketInv, CatalogInv, WaitInv, HasBound, Up
<1>6. CASE Hello(c)
  BY <1>6 DEF Hello, GiveUp, Stays, TypeOK, SocketInv, CatalogInv, WaitInv, HasBound, Up
<1>7. CASE ClosedMet(c)
  BY <1>7 DEF ClosedMet, GiveUp, Stays, TypeOK, SocketInv, CatalogInv, WaitInv, HasBound, Up
<1>8. CASE Served(c)
  BY <1>8 DEF Served, Stays, TypeOK, SocketInv, CatalogInv, WaitInv, HasBound, Up
<1>9. CASE TimeOut(c)
  BY <1>9 DEF TimeOut, GiveUp, Stays, TypeOK, SocketInv, CatalogInv, WaitInv, HasBound, Up
<1>10. CASE Direct(c)
  BY <1>10 DEF Direct, Stays, TypeOK, SocketInv, CatalogInv, WaitInv, HasBound, Up
<1>11. CASE Indexed(c)
  <2>1. TypeOK'
    <3>1. /\ Spawn /\ UNCHANGED <<endpointLock, socket, crashes>> /\ catalogLock' = None
          /\ client' = [client EXCEPT ![c].at = "indexed"]
          /\ client[c].at = "indexing" /\ catalogLock = c
      BY <1>11 DEF Indexed, TypeOK
    <3>2. \A e \in Client : client'[e].at = "indexing" <=> catalogLock' = e
      BY <3>1 DEF TypeOK
    <3>3. \A e \in Daemon : Up(e)' /\ daemon'[e].at # "lock" <=> endpointLock' = e
      BY <3>1, SpawnInv DEF TypeOK, Up
    <3> QED BY <3>1, <3>2, <3>3, SpawnInv DEF TypeOK, Process
  <2>2. SocketInv' /\ CatalogInv' /\ WaitInv'
    BY <1>11, SpawnInv DEF Indexed, TypeOK, SocketInv, CatalogInv, WaitInv, HasBound
  <2> QED BY <2>1, <2>2
<1> QED
  BY <1>1, <1>2, <1>3, <1>4, <1>5, <1>6, <1>7, <1>8, <1>9, <1>10, <1>11 DEF ClientStep

\* Every step of a daemon, of a client and of a crash keeps the invariant.
LEMMA StepInv == EndpointInv /\ [Next]_vars => EndpointInv'
<1> SUFFICES ASSUME EndpointInv, [Next]_vars PROVE EndpointInv'
  OBVIOUS
<1>1. CASE UNCHANGED vars
  BY <1>1 DEF vars, EndpointInv, TypeOK, SocketInv, CatalogInv, WaitInv, HasBound, Up
<1>2. CASE Next
  BY <1>2, DaemonInv, ClientInv DEF Next
<1> QED BY <1>1, <1>2

\* The invariant holds throughout.
LEMMA Inductive == Spec => []EndpointInv
  BY InitInv, StepInv, PTL DEF Spec

\* run's comment "The lifetime-held endpoint lock excludes starters through
\* cleanup", for any number of processes and crashes: win_singleton, the probe
\* and the teardown keep an owner's socket in place while it runs.
THEOREM SocketStands == Spec => []LiveSocket
<1>1. EndpointInv => LiveSocket
  BY DEF EndpointInv, SocketInv, LiveSocket
<1> QED BY <1>1, Inductive, PTL

\* D110's order of teardown: a writer that waited out a leaving owner is never
\* refused by it, and a daemon's writer lock never outlives its socket.
THEOREM LeaverNeverRefuses == Spec => []NotRefusedByLeaver
<1>1. EndpointInv => NotRefusedByLeaver
  BY DEF EndpointInv, SocketInv, CatalogInv, WaitInv, NotRefusedByLeaver, Client
<1> QED BY <1>1, Inductive, PTL
============================================================================
