-------------------------- MODULE ReconnectingConnector --------------------------
(***************************************************************************)
(* How a process goes on after DuckDB has invalidated its instance of a    *)
(* database (database/reconnect.go).  Connections are handed out by        *)
(* Connect, at most GateLimit at a time; a fatal error marks the instance  *)
(* dead, and when its last connection was returned the next Connect runs   *)
(* the recovery, outside the mutex, and opens a new instance.  A watchdog  *)
(* reports a drain that takes too long.                                    *)
(*                                                                         *)
(* Everything done in one critical section of c.mu is one step.            *)
(*                                                                         *)
(* Simplifications.  One connector has the gate for itself.  What the      *)
(* recovery does to the file, and which error it is told, is left out.     *)
(***************************************************************************)
EXTENDS Naturals, FiniteSets

CONSTANTS
    Client,         \* goroutines that use the database
    GateLimit,      \* the capacity of the connection gate
    MaxDeaths       \* bound: fatal errors of an instance

ASSUME ConnectorAssumption ==
    /\ IsFiniteSet(Client)
    /\ GateLimit \in Nat \ {0}
    /\ MaxDeaths \in Nat

VARIABLES
    client,         \* what each goroutine does, and the instance it is connected to
    gate,           \* tokens taken from the gate
    inner,          \* the number of the instance, 0 for none
    opened,         \* instances opened so far
    openConns, dead, recovering,
    drainTimer,     \* "off", "armed", or "fired" and waiting for the mutex
    watchdogs,      \* watchdog callbacks that wait for the mutex
    reported,       \* a fatal problem was reported: the process is to restart
    dbClosed        \* sql.DB.Close was called

connectorVars == <<client, gate, inner, opened, openConns, dead, recovering,
                   drainTimer, watchdogs, reported, dbClosed>>
watchVars == <<drainTimer, watchdogs>>

Connections == {c \in Client : client[c].at = "open"}
Doing(c, at) == client[c].at = at
Becomes(c, at, inst) == client' = [client EXCEPT ![c] = [at |-> at, inst |-> inst]]

ConnectorInit ==
    /\ client = [c \in Client |-> [at |-> "away", inst |-> 0]]
    /\ gate = 0
    /\ inner = 0
    /\ opened = 0
    /\ openConns = 0
    /\ dead = FALSE
    /\ recovering = FALSE
    /\ drainTimer = "off"
    /\ watchdogs = 0
    /\ reported = FALSE
    /\ dbClosed = FALSE

-----------------------------------------------------------------------------
(* Connect.                                                                *)

RequestConn(c) ==
    /\ Doing(c, "away")
    /\ ~dbClosed
    /\ Becomes(c, "waiting", 0)
    /\ UNCHANGED <<gate, inner, opened, openConns, dead, recovering, watchVars, reported, dbClosed>>

\* connectionGate.acquire, and its context that ends while the gate is full.
AcquireGate(c) ==
    /\ Doing(c, "waiting")
    /\ gate < GateLimit
    /\ gate' = gate + 1
    /\ Becomes(c, "admitted", 0)
    /\ UNCHANGED <<inner, opened, openConns, dead, recovering, watchVars, reported, dbClosed>>

GiveUp(c) ==
    /\ Doing(c, "waiting")
    /\ gate = GateLimit
    /\ Becomes(c, "away", 0)
    /\ UNCHANGED <<gate, inner, opened, openConns, dead, recovering, watchVars, reported, dbClosed>>

\* The factory, when there is no instance, and inner.Connect: either may fail,
\* and the instance stays when only the second does.
OpenConn(c) ==
    \/ /\ inner = 0
       /\ gate' = gate - 1
       /\ Becomes(c, "away", 0)
       /\ UNCHANGED <<inner, opened, openConns>>
    \/ /\ opened' = IF inner = 0 THEN opened + 1 ELSE opened
       /\ inner' = IF inner = 0 THEN opened' ELSE inner
       /\ \/ /\ openConns' = openConns + 1
             /\ Becomes(c, "open", inner')
             /\ UNCHANGED gate
          \/ /\ gate' = gate - 1
             /\ Becomes(c, "away", 0)
             /\ UNCHANGED openConns

\* A live instance, or none yet.
ConnectLive(c) ==
    /\ Doing(c, "admitted")
    /\ ~dead
    /\ OpenConn(c)
    /\ UNCHANGED <<dead, recovering, watchVars, reported, dbClosed>>

\* Mutant: a refused Connect keeps its token.
ConnectRefusedHolding(c) ==
    /\ Doing(c, "admitted")
    /\ dead /\ (openConns > 0 \/ recovering)
    /\ Becomes(c, "away", 0)
    /\ UNCHANGED <<gate, inner, opened, openConns, dead, recovering, watchVars, reported, dbClosed>>

\* ErrDatabaseRecovering.
ConnectRefused(c) ==
    /\ Doing(c, "admitted")
    /\ dead /\ (openConns > 0 \/ recovering)
    /\ gate' = gate - 1
    /\ Becomes(c, "away", 0)
    /\ UNCHANGED <<inner, opened, openConns, dead, recovering, watchVars, reported, dbClosed>>

\* Mutant: the recovery does not wait for the connections.
BeginRecoveryAtOnce(c) ==
    /\ Doing(c, "admitted")
    /\ dead /\ ~recovering
    /\ inner' = 0
    /\ recovering' = TRUE
    /\ Becomes(c, "recovering", 0)
    /\ UNCHANGED <<gate, opened, openConns, dead, watchVars, reported, dbClosed>>

BeginRecovery(c) ==
    /\ Doing(c, "admitted")
    /\ dead /\ openConns = 0 /\ ~recovering
    /\ inner' = 0
    /\ recovering' = TRUE
    /\ Becomes(c, "recovering", 0)
    /\ UNCHANGED <<gate, opened, openConns, dead, watchVars, reported, dbClosed>>

RecoverySucceeds(c) ==
    /\ Doing(c, "recovering")
    /\ recovering' = FALSE
    /\ dead' = FALSE
    /\ OpenConn(c)
    /\ UNCHANGED <<watchVars, reported, dbClosed>>

\* recover has called reportFatal; the instance stays dead.
RecoveryGivesUp(c) ==
    /\ Doing(c, "recovering")
    /\ recovering' = FALSE
    /\ reported' = TRUE
    /\ gate' = gate - 1
    /\ Becomes(c, "away", 0)
    /\ UNCHANGED <<inner, opened, openConns, dead, watchVars, dbClosed>>

-----------------------------------------------------------------------------
(* Connections.                                                            *)

\* Mutant: nobody watches the drain.
FatalErrorUnwatched(c) ==
    /\ Doing(c, "open")
    /\ ~dead
    /\ opened <= MaxDeaths
    /\ dead' = TRUE
    /\ UNCHANGED <<client, gate, inner, opened, openConns, recovering, watchVars, reported, dbClosed>>

\* An operation returns the fatal error: markDead.
FatalError(c) ==
    /\ Doing(c, "open")
    /\ ~dead
    /\ opened <= MaxDeaths
    /\ dead' = TRUE
    /\ drainTimer' = IF openConns > 0 /\ drainTimer = "off" THEN "armed" ELSE drainTimer
    /\ UNCHANGED <<client, gate, inner, opened, openConns, recovering, watchdogs, reported, dbClosed>>

\* reconnectingConn.Close, and connClosed: the last one closes the instance.
ReturnConn(c) ==
    /\ Doing(c, "open")
    /\ openConns' = openConns - 1
    /\ gate' = gate - 1
    /\ Becomes(c, "away", 0)
    /\ IF dead /\ openConns = 1
       THEN inner' = 0 /\ drainTimer' = "off"
       ELSE UNCHANGED <<inner, drainTimer>>
    /\ UNCHANGED <<opened, dead, recovering, watchdogs, reported, dbClosed>>

\* drainTimeout passes, and the callback gets the mutex; stopping the timer
\* in between is too late.
DrainTimeout ==
    /\ drainTimer = "armed"
    /\ drainTimer' = "fired"
    /\ watchdogs' = watchdogs + 1
    /\ UNCHANGED <<client, gate, inner, opened, openConns, dead, recovering, reported, dbClosed>>

RunWatchdog ==
    /\ watchdogs > 0
    /\ watchdogs' = watchdogs - 1
    /\ drainTimer' = "off"
    /\ reported' = (reported \/ (dead /\ openConns > 0))
    /\ UNCHANGED <<client, gate, inner, opened, openConns, dead, recovering, dbClosed>>

\* sql.DB.Close: connections in use are returned later, and a Connect that
\* has begun goes on.
CloseDatabase ==
    /\ ~dbClosed
    /\ dbClosed' = TRUE
    /\ inner' = 0
    /\ dead' = FALSE
    /\ recovering' = FALSE
    /\ drainTimer' = "off"
    /\ UNCHANGED <<client, gate, opened, openConns, watchdogs, reported>>

-----------------------------------------------------------------------------
ConnectStep(c) == AcquireGate(c) \/ ConnectLive(c) \/ ConnectRefused(c) \/ BeginRecovery(c)
                  \/ RecoverySucceeds(c) \/ RecoveryGivesUp(c)

ConnectorNext ==
    \/ \E c \in Client : \/ RequestConn(c) \/ GiveUp(c) \/ ConnectStep(c)
                         \/ FatalError(c) \/ ReturnConn(c)
    \/ DrainTimeout \/ RunWatchdog \/ CloseDatabase

\* The database is asked for again and again (the minute worker queries it);
\* nobody has to return a connection.
ConnectorFairness ==
    /\ WF_connectorVars(\E c \in Client : RequestConn(c))
    /\ \A c \in Client : WF_connectorVars(ConnectStep(c))
    /\ WF_connectorVars(DrainTimeout)
    /\ WF_connectorVars(RunWatchdog)

ConnectorSpec == ConnectorInit /\ [][ConnectorNext]_connectorVars /\ ConnectorFairness

-----------------------------------------------------------------------------
(* Properties.                                                             *)

ConnectorTypeOK ==
    /\ client \in [Client -> [at : {"away", "waiting", "admitted", "recovering", "open"},
                              inst : 0 .. MaxDeaths + 2]]
    /\ gate \in 0 .. GateLimit
    /\ inner \in 0 .. opened
    /\ opened \in 0 .. MaxDeaths + 2
    /\ openConns \in 0 .. Cardinality(Client)
    /\ dead \in BOOLEAN /\ recovering \in BOOLEAN
    /\ drainTimer \in {"off", "armed", "fired"}
    /\ watchdogs \in Nat
    /\ reported \in BOOLEAN /\ dbClosed \in BOOLEAN

(* A dead instance is gone before another one is opened: until the         *)
(* database is closed all connections belong to the instance at hand, and  *)
(* nobody is connected while the file is being recovered.                  *)
OneInstance ==
    ~dbClosed =>
        /\ \A c \in Connections : client[c].inst = inner
        /\ (\E c \in Client : Doing(c, "recovering")) => inner = 0 /\ Connections = {}
        /\ Cardinality({c \in Client : Doing(c, "recovering")}) <= 1

(* However a Connect ends, its token goes back to the gate exactly once:   *)
(* the gate never refuses a connection that could be had, and never lets   *)
(* more than GateLimit through, also after Close.                          *)
GateAccounted ==
    /\ openConns = Cardinality(Connections)
    /\ gate = Cardinality({c \in Client : client[c].at \in {"admitted", "recovering", "open"}})

(* A dead instance is replaced or its problem reported, also when some     *)
(* goroutine never returns its connection, unless the database is closed.  *)
DeathIsDealtWith == dead ~> (~dead \/ reported \/ dbClosed)
=============================================================================
