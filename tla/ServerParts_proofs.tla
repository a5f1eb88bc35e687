------------------------ MODULE ServerParts_proofs --------------------------
(***************************************************************************)
(* Proofs about the parts of a running server, of which none shares a      *)
(* variable with another: ReconnectingConnector, for any goroutines,       *)
(* capacity of the gate and number of fatal errors; OAuthGrants, for any   *)
(* providers and number of pairs; ClusterLeader, for any nodes and number  *)
(* of starts and wrong notifications; and RealtimeBroker, for any viewers, *)
(* limits and number of events.                                            *)
(***************************************************************************)
EXTENDS ReconnectingConnector, OAuthGrants, ClusterLeader, RealtimeBroker,
        FiniteSetTheorems, SequenceTheorems, WellFoundedInduction, TLAPS

-----------------------------------------------------------------------------
(* ReconnectingConnector.                                                  *)

Holding == {"admitted", "recovering", "open"}
Holders == {c \in Client : client[c].at \in Holding}
Activity == {"away", "waiting", "admitted", "recovering", "open"}

-----------------------------------------------------------------------------
(* ReconnectingConnector: the inductive invariant.                         *)

Types ==
    /\ client \in [Client -> [at : Activity, inst : Nat]]
    /\ gate \in Nat /\ openConns \in Nat /\ inner \in Nat /\ opened \in Nat /\ watchdogs \in Nat
    /\ dead \in BOOLEAN /\ recovering \in BOOLEAN
    /\ drainTimer \in {"off", "armed", "fired"}
    /\ reported \in BOOLEAN /\ dbClosed \in BOOLEAN

Counts ==
    /\ openConns = Cardinality(Connections)
    /\ gate = Cardinality(Holders)
    /\ gate <= GateLimit

\* Instances are numbered as they are opened.  One is opened when none is at
\* hand: at first, after a death, and after Close.
Numbers ==
    /\ inner <= opened
    /\ \A c \in Client : client[c].inst <= opened
    /\ dead => opened <= MaxDeaths
    /\ ~dbClosed => opened <= MaxDeaths + 1
    /\ inner = 0 /\ ~dbClosed => opened <= MaxDeaths
    /\ inner = 0 => opened <= MaxDeaths + 1
    /\ opened <= MaxDeaths + 2

\* Until the database is closed one goroutine recovers at a time, a dead
\* instance that is gone.
Exclusive ==
    ~dbClosed =>
        /\ \A c \in Connections : client[c].inst = inner
        /\ inner = 0 => Connections = {}
        /\ recovering => dead /\ inner = 0
        /\ \A c \in Client : Doing(c, "recovering") => recovering
        /\ \A c, d \in Client : Doing(c, "recovering") /\ Doing(d, "recovering") => c = d

ConnectorInv == Types /\ Counts /\ Numbers /\ Exclusive

-----------------------------------------------------------------------------
(* ReconnectingConnector: counting connections and tokens.                 *)

LEMMA FiniteClients == IsFiniteSet(Connections) /\ IsFiniteSet(Holders)
    BY FS_Subset, ConnectorAssumption DEF Connections, Holders

\* The change of what one goroutine does.
LEMMA BecomesFacts ==
    ASSUME Types, NEW c \in Client, NEW at \in Activity, NEW inst \in Nat, Becomes(c, at, inst)
    PROVE  /\ client' \in [Client -> [at : Activity, inst : Nat]]
           /\ client'[c].at = at /\ client'[c].inst = inst
           /\ \A d \in Client : d # c => client'[d] = client[d]
           /\ Connections' = IF at = "open" THEN Connections \cup {c} ELSE Connections \ {c}
           /\ Holders' = IF at \in Holding THEN Holders \cup {c} ELSE Holders \ {c}
    <1>1. /\ client' \in [Client -> [at : Activity, inst : Nat]]
          /\ client'[c].at = at /\ client'[c].inst = inst
          /\ \A d \in Client : d # c => client'[d] = client[d]
      BY DEF Types, Becomes
    <1>2. Connections' = IF at = "open" THEN Connections \cup {c} ELSE Connections \ {c}
      BY <1>1 DEF Connections
    <1>3. Holders' = IF at \in Holding THEN Holders \cup {c} ELSE Holders \ {c}
      BY <1>1 DEF Holders
    <1> QED
      BY <1>1, <1>2, <1>3

LEMMA CountOneMore ==
    ASSUME NEW S, IsFiniteSet(S), NEW c
    PROVE  /\ c \notin S => Cardinality(S \cup {c}) = Cardinality(S) + 1
           /\ c \in S => S \cup {c} = S /\ Cardinality(S \ {c}) = Cardinality(S) - 1
           /\ c \notin S => S \ {c} = S
    BY FS_AddElement, FS_RemoveElement

\* And of the two counts.
LEMMA CountsChange ==
    ASSUME Types, Counts, NEW c \in Client, NEW at \in Activity, NEW inst \in Nat,
           Becomes(c, at, inst)
    PROVE  /\ at = "open" /\ ~Doing(c, "open") => Cardinality(Connections') = openConns + 1
           /\ at # "open" /\ Doing(c, "open") => Cardinality(Connections') = openConns - 1
           /\ (at = "open" <=> Doing(c, "open")) => Connections' = Connections
           /\ at \in Holding /\ client[c].at \notin Holding => Cardinality(Holders') = gate + 1
           /\ at \notin Holding /\ client[c].at \in Holding => Cardinality(Holders') = gate - 1
           /\ (at \in Holding <=> client[c].at \in Holding) => Holders' = Holders
    <1>1. c \in Connections <=> Doing(c, "open")
      BY DEF Connections, Doing
    <1>2. c \in Holders <=> client[c].at \in Holding
      BY DEF Holders
    <1>3. /\ c \notin Connections => Cardinality(Connections \cup {c}) = openConns + 1
          /\ c \in Connections => Connections \cup {c} = Connections
                                  /\ Cardinality(Connections \ {c}) = openConns - 1
          /\ c \notin Connections => Connections \ {c} = Connections
      BY CountOneMore, FiniteClients DEF Counts
    <1>4. /\ c \notin Holders => Cardinality(Holders \cup {c}) = gate + 1
          /\ c \in Holders => Holders \cup {c} = Holders /\ Cardinality(Holders \ {c}) = gate - 1
          /\ c \notin Holders => Holders \ {c} = Holders
      BY CountOneMore, FiniteClients DEF Counts
    <1>5. Connections' = IF at = "open" THEN Connections \cup {c} ELSE Connections \ {c}
      BY BecomesFacts
    <1>6. Holders' = IF at \in Holding THEN Holders \cup {c} ELSE Holders \ {c}
      BY BecomesFacts
    <1>7. /\ at = "open" /\ ~Doing(c, "open") => Cardinality(Connections') = openConns + 1
          /\ at # "open" /\ Doing(c, "open") => Cardinality(Connections') = openConns - 1
          /\ (at = "open" <=> Doing(c, "open")) => Connections' = Connections
      BY <1>1, <1>3, <1>5
    <1>8. /\ at \in Holding /\ client[c].at \notin Holding => Cardinality(Holders') = gate + 1
          /\ at \notin Holding /\ client[c].at \in Holding => Cardinality(Holders') = gate - 1
          /\ (at \in Holding <=> client[c].at \in Holding) => Holders' = Holders
      BY <1>2, <1>4, <1>6
    <1> QED
      BY <1>7, <1>8

\* No connections, and none counted.
LEMMA NoneCounted ==
    ASSUME Counts
    PROVE  openConns = 0 <=> Connections = {}
    BY FiniteClients, FS_EmptySet DEF Counts

-----------------------------------------------------------------------------
(* ReconnectingConnector: the initial state.                               *)

LEMMA ConnectorInitInv == ConnectorInit => ConnectorInv
    <1> SUFFICES ASSUME ConnectorInit PROVE ConnectorInv
      OBVIOUS
    <1>1. Types
      BY DEF ConnectorInit, Types, Activity
    <1>2. Connections = {} /\ Holders = {}
      BY DEF ConnectorInit, Connections, Holders, Holding
    <1>3. Counts
      BY <1>2, FS_EmptySet, ConnectorAssumption DEF ConnectorInit, Counts
    <1>4. Numbers
      BY ConnectorAssumption DEF ConnectorInit, Numbers
    <1>5. Exclusive
      BY <1>2 DEF ConnectorInit, Exclusive, Doing
    <1> QED
      BY <1>1, <1>3, <1>4, <1>5 DEF ConnectorInv

-----------------------------------------------------------------------------
(* ReconnectingConnector: steps of no goroutine, and FatalError.           *)

LEMMA StillInv ==
    ASSUME ConnectorInv,
           UNCHANGED connectorVars \/ DrainTimeout \/ RunWatchdog \/ CloseDatabase
           \/ \E c \in Client : FatalError(c)
    PROVE  ConnectorInv'
    <1>1. UNCHANGED <<client, gate, openConns, opened>>
      BY DEF connectorVars, DrainTimeout, RunWatchdog, CloseDatabase, FatalError, watchVars
    <1>2. Types'
      <2>1. CASE UNCHANGED connectorVars
        BY <2>1 DEF ConnectorInv, Types, connectorVars
      <2>2. CASE DrainTimeout
        BY <2>2 DEF ConnectorInv, Types, DrainTimeout
      <2>3. CASE RunWatchdog
        <3>1. watchdogs' \in Nat
          BY <2>3 DEF ConnectorInv, Types, RunWatchdog
        <3>2. reported' \in BOOLEAN
          BY <2>3 DEF ConnectorInv, Types, RunWatchdog
        <3> QED
          BY <2>3, <3>1, <3>2 DEF ConnectorInv, Types, RunWatchdog
      <2>4. CASE CloseDatabase
        BY <2>4 DEF ConnectorInv, Types, CloseDatabase
      <2>5. CASE \E c \in Client : FatalError(c)
        BY <2>5 DEF ConnectorInv, Types, FatalError
      <2> QED
        BY <2>1, <2>2, <2>3, <2>4, <2>5
    <1>3. Counts'
      BY <1>1 DEF ConnectorInv, Counts, Connections, Holders
    <1>4. Numbers'
      BY <1>1, ConnectorAssumption
      DEF ConnectorInv, Types, Numbers, connectorVars, DrainTimeout, RunWatchdog, CloseDatabase,
          FatalError, watchVars
    <1>5. Exclusive'
      BY <1>1 DEF ConnectorInv, Exclusive, Connections, Doing, connectorVars, DrainTimeout,
                  RunWatchdog, CloseDatabase, FatalError, watchVars
    <1> QED
      BY <1>2, <1>3, <1>4, <1>5 DEF ConnectorInv

-----------------------------------------------------------------------------
(* ReconnectingConnector: Connect, until there is an instance at hand.     *)

\* A goroutine goes on without a connection, after the instance at hand, or the
\* one that the factory has just made, refused one.
LEMMA MoveInv ==
    ASSUME ConnectorInv, NEW c \in Client, NEW at \in Activity \ {"open", "recovering"},
           Becomes(c, at, 0), ~Doing(c, "open"),
           \/ at \in Holding /\ client[c].at \notin Holding /\ gate' = gate + 1 /\ gate < GateLimit
           \/ at \notin Holding /\ client[c].at \in Holding /\ gate' = gate - 1
           \/ at \notin Holding /\ client[c].at \notin Holding /\ gate' = gate,
           \/ UNCHANGED <<inner, opened>>
           \/ /\ inner = 0 /\ opened' = opened + 1 /\ inner' = opened + 1
              /\ ~dead' /\ client[c].at \in Holding,
           UNCHANGED <<openConns, watchVars, dbClosed>>,
           dead' \in BOOLEAN, dead' => dead, dead /\ ~dead' => Doing(c, "recovering"),
           recovering' = IF Doing(c, "recovering") THEN FALSE ELSE recovering,
           reported' \in BOOLEAN
    PROVE  ConnectorInv'
    <1>1. Types /\ Counts /\ Numbers /\ Exclusive
      BY DEF ConnectorInv
    <1>2. at \in Activity /\ at # "open" /\ at # "recovering" /\ 0 \in Nat
      OBVIOUS
    <1>3. /\ client' \in [Client -> [at : Activity, inst : Nat]]
          /\ client'[c].at = at /\ client'[c].inst = 0
          /\ \A d \in Client : d # c => client'[d] = client[d]
      BY <1>1, <1>2, BecomesFacts
    <1>4. /\ Connections' = Connections
          /\ at \in Holding /\ client[c].at \notin Holding => Cardinality(Holders') = gate + 1
          /\ at \notin Holding /\ client[c].at \in Holding => Cardinality(Holders') = gate - 1
          /\ (at \in Holding <=> client[c].at \in Holding) => Holders' = Holders
      BY <1>1, <1>2, CountsChange
    <1>5. Counts'
      BY <1>1, <1>4, ConnectorAssumption DEF Counts, Types
    <1>6. gate' \in Nat
      <2>1. gate' = Cardinality(Holders')
        BY <1>5 DEF Counts
      <2>2. IsFiniteSet(Holders')
        BY FS_Subset, ConnectorAssumption DEF Holders
      <2> QED
        BY <2>1, <2>2, FS_CardinalityType
    <1>7. Types'
      <2>1. inner' \in Nat /\ opened' \in Nat
        BY <1>1 DEF Types
      <2>2. recovering' \in BOOLEAN
        BY <1>1 DEF Types
      <2> QED
        BY <1>1, <1>3, <1>6, <2>1, <2>2 DEF Types, watchVars
    <1>8. Numbers'
      BY <1>1, <1>3, ConnectorAssumption DEF Numbers, Types
    <1>9. Exclusive'
      <2>1. SUFFICES ASSUME ~dbClosed PROVE Exclusive'
        BY DEF Exclusive
      <2>2. \A d \in Client : Doing(d, "recovering")' <=> Doing(d, "recovering") /\ d # c
        BY <1>2, <1>3 DEF Doing
      <2>3. \A d \in Connections : d \in Client /\ d # c
        BY DEF Connections, Doing
      <2>4. recovering' => inner' = 0
        <3>1. CASE Doing(c, "recovering")
          BY <3>1
        <3>2. CASE ~Doing(c, "recovering")
          BY <1>1, <2>1, <3>2 DEF Exclusive
        <3> QED
          BY <3>1, <3>2
      <2>5. recovering' => dead'
        <3>1. CASE Doing(c, "recovering")
          BY <3>1
        <3>2. CASE ~Doing(c, "recovering")
          <4>1. recovering => dead
            BY <1>1, <2>1 DEF Exclusive
          <4> QED
            BY <3>2, <4>1
        <3> QED
          BY <3>1, <3>2
      <2>6. inner' = inner \/ (inner = 0 /\ inner' # 0 /\ Connections = {})
        <3>1. opened \in Nat /\ opened + 1 # 0
          BY <1>1 DEF Types
        <3>2. inner = 0 => Connections = {}
          BY <1>1, <2>1 DEF Exclusive
        <3> QED
          BY <3>1, <3>2
      <2>7. /\ \A d \in Connections' : client'[d].inst = inner'
            /\ inner' = 0 => Connections' = {}
        BY <1>1, <1>3, <1>4, <2>1, <2>3, <2>6 DEF Exclusive
      <2>8. /\ \A d \in Client : Doing(d, "recovering")' => recovering'
            /\ \A d, e \in Client : Doing(d, "recovering")' /\ Doing(e, "recovering")' => d = e
        BY <1>1, <2>1, <2>2 DEF Exclusive
      <2> QED
        BY <2>4, <2>5, <2>7, <2>8 DEF Exclusive
    <1> QED
      BY <1>5, <1>7, <1>8, <1>9 DEF ConnectorInv

LEMMA WaitInv ==
    ASSUME ConnectorInv, NEW c \in Client,
           RequestConn(c) \/ AcquireGate(c) \/ GiveUp(c) \/ ConnectRefused(c) \/ RecoveryGivesUp(c)
    PROVE  ConnectorInv'
    <1>1. client[c].at \in Activity /\ reported \in BOOLEAN /\ dead \in BOOLEAN
      BY DEF ConnectorInv, Types
    <1>2. CASE RequestConn(c)
      BY <1>1, <1>2, MoveInv DEF RequestConn, Doing, Activity, Holding
    <1>3. CASE AcquireGate(c)
      BY <1>1, <1>3, MoveInv DEF AcquireGate, Doing, Activity, Holding
    <1>4. CASE GiveUp(c)
      BY <1>1, <1>4, MoveInv DEF GiveUp, Doing, Activity, Holding
    <1>5. CASE ConnectRefused(c)
      BY <1>1, <1>5, MoveInv DEF ConnectRefused, Doing, Activity, Holding
    <1>6. CASE RecoveryGivesUp(c)
      BY <1>1, <1>6, MoveInv DEF RecoveryGivesUp, Doing, Activity, Holding
    <1> QED
      BY <1>2, <1>3, <1>4, <1>5, <1>6

\* The instance is taken down by the goroutine that recovers it.
LEMMA BeginRecoveryInv ==
    ASSUME ConnectorInv, NEW c \in Client, BeginRecovery(c)
    PROVE  ConnectorInv'
    <1>1. Types /\ Counts /\ Numbers /\ Exclusive
      BY DEF ConnectorInv
    <1>2. Doing(c, "admitted") /\ dead /\ openConns = 0 /\ ~recovering /\ Becomes(c, "recovering", 0)
      BY DEF BeginRecovery
    <1>3. "recovering" \in Activity /\ 0 \in Nat
      BY DEF Activity
    <1>4. /\ client' \in [Client -> [at : Activity, inst : Nat]]
          /\ client'[c].at = "recovering" /\ client'[c].inst = 0
          /\ \A d \in Client : d # c => client'[d] = client[d]
      BY <1>1, <1>2, <1>3, BecomesFacts
    <1>5. Connections' = Connections /\ Holders' = Holders
      <2>1. /\ ("recovering" = "open" <=> Doing(c, "open")) => Connections' = Connections
            /\ ("recovering" \in Holding <=> client[c].at \in Holding) => Holders' = Holders
        BY <1>1, <1>2, <1>3, CountsChange
      <2> QED
        BY <1>2, <2>1 DEF Doing, Holding
    <1>6. Counts'
      BY <1>1, <1>5 DEF BeginRecovery, Counts
    <1>7. Types'
      BY <1>1, <1>4 DEF Types, BeginRecovery, watchVars
    <1>8. Numbers'
      BY <1>1, <1>2, <1>4, ConnectorAssumption DEF Numbers, Types, BeginRecovery
    <1>9. Exclusive'
      <2>1. Connections' = {}
        BY <1>1, <1>2, <1>5, NoneCounted
      <2>2. \A d \in Client : d # c => (Doing(d, "recovering")' <=> Doing(d, "recovering"))
        BY <1>4 DEF Doing
      <2> QED
        BY <1>1, <1>2, <2>1, <2>2 DEF Exclusive, BeginRecovery
    <1> QED
      BY <1>6, <1>7, <1>8, <1>9 DEF ConnectorInv

-----------------------------------------------------------------------------
(* ReconnectingConnector: connections.                                     *)

\* A goroutine is connected to the instance at hand, or to a new one.
LEMMA OpenedInv ==
    ASSUME ConnectorInv, NEW c \in Client, NEW inst \in Nat, Becomes(c, "open", inst),
           client[c].at \in {"admitted", "recovering"},
           inner = 0 => inst = opened + 1 /\ opened' = opened + 1,
           inner # 0 => inst = inner /\ opened' = opened,
           inner' = inst, openConns' = openConns + 1,
           dead' = FALSE, dead => Doing(c, "recovering"),
           recovering' = IF Doing(c, "recovering") THEN FALSE ELSE recovering,
           UNCHANGED <<gate, watchVars, reported, dbClosed>>
    PROVE  ConnectorInv'
    <1>1. Types /\ Counts /\ Numbers /\ Exclusive
      BY DEF ConnectorInv
    <1>2. "open" \in Activity
      BY DEF Activity
    <1>3. /\ client' \in [Client -> [at : Activity, inst : Nat]]
          /\ client'[c].at = "open" /\ client'[c].inst = inst
          /\ \A d \in Client : d # c => client'[d] = client[d]
          /\ Connections' = Connections \cup {c}
      <2>1. Connections' = IF "open" = "open" THEN Connections \cup {c} ELSE Connections \ {c}
        BY <1>1, <1>2, BecomesFacts
      <2> QED
        BY <1>1, <1>2, <2>1, BecomesFacts
    <1>4. Cardinality(Connections') = openConns + 1 /\ Holders' = Holders
      <2>1. /\ "open" = "open" /\ ~Doing(c, "open") => Cardinality(Connections') = openConns + 1
            /\ ("open" \in Holding <=> client[c].at \in Holding) => Holders' = Holders
        BY <1>1, <1>2, CountsChange
      <2> QED
        BY <2>1 DEF Doing, Holding
    <1>5. Counts'
      BY <1>1, <1>4 DEF Counts
    <1>6. Types'
      <2>1. openConns' \in Nat /\ opened' \in Nat /\ inner' \in Nat
        BY <1>1 DEF Types
      <2>2. recovering' \in BOOLEAN /\ dead' \in BOOLEAN
        BY <1>1 DEF Types
      <2> QED
        BY <1>1, <1>3, <2>1, <2>2 DEF Types, watchVars
    <1>7. Numbers'
      BY <1>1, <1>3, ConnectorAssumption DEF Numbers, Types
    <1>8. Exclusive'
      <2>1. SUFFICES ASSUME ~dbClosed PROVE Exclusive'
        BY DEF Exclusive
      <2>2. \A d \in Client : Doing(d, "recovering")' <=> Doing(d, "recovering") /\ d # c
        BY <1>3 DEF Doing
      <2>3. inst # 0
        BY <1>1 DEF Types
      <2>4. \A d \in Connections' : client'[d].inst = inst
        <3>1. \A d \in Connections : d # c /\ d \in Client /\ client'[d] = client[d]
          BY <1>3 DEF Connections
        <3>2. \A d \in Connections : client[d].inst = inner /\ inner # 0
          BY <1>1, <2>1 DEF Exclusive
        <3> QED
          BY <1>3, <3>1, <3>2
      <2>5. ~recovering'
        <3>1. CASE Doing(c, "recovering")
          BY <3>1
        <3>2. CASE ~Doing(c, "recovering")
          BY <1>1, <2>1, <3>2 DEF Exclusive
        <3> QED
          BY <3>1, <3>2
      <2>6. \A d \in Client : ~Doing(d, "recovering")'
        <3>1. CASE Doing(c, "recovering")
          BY <1>1, <2>1, <2>2, <3>1 DEF Exclusive
        <3>2. CASE ~Doing(c, "recovering")
          BY <1>1, <2>1, <2>2, <2>5, <3>2 DEF Exclusive
        <3> QED
          BY <3>1, <3>2
      <2> QED
        BY <2>3, <2>4, <2>5, <2>6 DEF Exclusive
    <1> QED
      BY <1>5, <1>6, <1>7, <1>8 DEF ConnectorInv

LEMMA ConnectInv ==
    ASSUME ConnectorInv, NEW c \in Client, ConnectLive(c) \/ RecoverySucceeds(c)
    PROVE  ConnectorInv'
    <1> DEFINE inst == IF inner = 0 THEN opened + 1 ELSE inner
    <1>1. inst \in Nat /\ (inner = 0 => inst = opened + 1) /\ (inner # 0 => inst = inner)
      BY DEF ConnectorInv, Types
    <1>2. \/ /\ inner' = inst
             /\ (inner = 0 => opened' = opened + 1) /\ (inner # 0 => opened' = opened)
             /\ openConns' = openConns + 1 /\ Becomes(c, "open", inst)
             /\ gate' = gate
          \/ /\ gate' = gate - 1 /\ Becomes(c, "away", 0)
             /\ UNCHANGED openConns
             /\ \/ UNCHANGED <<inner, opened>>
                \/ inner = 0 /\ inner' = opened + 1 /\ opened' = opened + 1
      BY DEF ConnectLive, RecoverySucceeds, OpenConn
    <1> HIDE DEF inst
    <1>3. /\ client[c].at \in {"admitted", "recovering"} /\ dead' = FALSE
          /\ dead => Doing(c, "recovering")
          /\ recovering' = IF Doing(c, "recovering") THEN FALSE ELSE recovering
          /\ UNCHANGED <<watchVars, reported, dbClosed>>
      <2>1. CASE ConnectLive(c)
        BY <2>1 DEF ConnectLive, Doing, ConnectorInv, Types
      <2>2. CASE RecoverySucceeds(c)
        BY <2>2 DEF RecoverySucceeds, Doing
      <2> QED
        BY <2>1, <2>2
    <1>4. CASE inner' = inst /\ openConns' = openConns + 1
      <2>1. Becomes(c, "open", inst)
        BY <1>2, <1>4 DEF ConnectorInv, Types
      <2>2. (inner = 0 => opened' = opened + 1) /\ (inner # 0 => opened' = opened) /\ gate' = gate
        BY <1>2, <1>4 DEF ConnectorInv, Types
      <2> QED
        BY <1>1, <1>3, <1>4, <2>1, <2>2, OpenedInv
    <1>5. CASE /\ gate' = gate - 1 /\ Becomes(c, "away", 0) /\ UNCHANGED openConns
               /\ \/ UNCHANGED <<inner, opened>>
                  \/ inner = 0 /\ inner' = opened + 1 /\ opened' = opened + 1
      <2>1. reported' \in BOOLEAN /\ dead' \in BOOLEAN
        BY <1>3 DEF ConnectorInv, Types
      <2>2. "away" \in Activity \ {"open", "recovering"} /\ "away" \notin Holding
            /\ client[c].at \in Holding /\ ~Doing(c, "open")
        BY <1>3 DEF Activity, Holding, Doing
      <2>3. (dead' => dead) /\ (dead /\ ~dead' => Doing(c, "recovering"))
        BY <1>3
      <2> QED
        BY <1>3, <1>5, <2>1, <2>2, <2>3, MoveInv
    <1> QED
      BY <1>2, <1>4, <1>5

LEMMA ReturnInv ==
    ASSUME ConnectorInv, NEW c \in Client, ReturnConn(c)
    PROVE  ConnectorInv'
    <1>1. Types /\ Counts /\ Numbers /\ Exclusive
      BY DEF ConnectorInv
    <1>2. Doing(c, "open") /\ Becomes(c, "away", 0) /\ openConns' = openConns - 1 /\ gate' = gate - 1
      BY DEF ReturnConn
    <1>3. "away" \in Activity /\ "away" \notin Holding /\ "away" # "open" /\ 0 \in Nat
          /\ client[c].at \in Holding
      BY <1>2 DEF Activity, Holding, Doing
    <1>4. /\ client' \in [Client -> [at : Activity, inst : Nat]]
          /\ client'[c].at = "away" /\ client'[c].inst = 0
          /\ \A d \in Client : d # c => client'[d] = client[d]
          /\ Connections' = Connections \ {c}
      <2>1. Connections' = IF "away" = "open" THEN Connections \cup {c} ELSE Connections \ {c}
        BY <1>1, <1>2, <1>3, BecomesFacts
      <2> QED
        BY <1>1, <1>2, <1>3, <2>1, BecomesFacts
    <1>5. Cardinality(Connections') = openConns - 1 /\ Cardinality(Holders') = gate - 1
      <2>1. /\ "away" # "open" /\ Doing(c, "open") => Cardinality(Connections') = openConns - 1
            /\ "away" \notin Holding /\ client[c].at \in Holding => Cardinality(Holders') = gate - 1
        BY <1>1, <1>2, <1>3, CountsChange
      <2> QED
        BY <1>2, <1>3, <2>1
    <1>6. openConns' \in Nat /\ gate' \in Nat
      <2>1. IsFiniteSet(Connections') /\ IsFiniteSet(Holders')
        BY FS_Subset, ConnectorAssumption DEF Connections, Holders
      <2> QED
        BY <1>2, <1>5, <2>1, FS_CardinalityType
    <1>7. Counts'
      BY <1>1, <1>2, <1>5, ConnectorAssumption DEF Counts, Types
    <1>8. /\ inner' \in {inner, 0} /\ drainTimer' \in {drainTimer, "off"}
          /\ inner' = 0 => inner = 0 \/ (dead /\ openConns = 1)
          /\ dead /\ openConns = 1 => inner' = 0
      <2>1. CASE dead /\ openConns = 1
        BY <2>1 DEF ReturnConn
      <2>2. CASE ~(dead /\ openConns = 1)
        <3>1. UNCHANGED <<inner, drainTimer>>
          BY <2>2, Zenon DEF ReturnConn
        <3>2. inner' = inner /\ drainTimer' = drainTimer
          BY <3>1
        <3> QED
          BY <2>2, <3>2, Zenon
      <2> QED
        BY <2>1, <2>2
    <1>12. UNCHANGED <<opened, dead, recovering, watchdogs, reported, dbClosed>>
      BY DEF ReturnConn
    <1>9. Types'
      <2>1. inner' \in Nat /\ drainTimer' \in {"off", "armed", "fired"}
        BY <1>1, <1>8, <1>12 DEF Types
      <2> QED
        BY <1>1, <1>4, <1>6, <1>8, <1>12, <2>1 DEF Types
    <1>10. Numbers'
      <2>1. opened \in Nat /\ inner \in Nat /\ inner' \in {inner, 0} /\ opened' = opened
        BY <1>1, <1>8, <1>12 DEF Types
      <2>2. inner' <= opened' /\ \A d \in Client : client'[d].inst <= opened'
        BY <1>1, <1>4, <2>1 DEF Numbers
      <2>3. inner' = 0 /\ inner # 0 => opened <= MaxDeaths
        BY <1>1, <1>8, <1>12 DEF Numbers
      <2> QED
        BY <1>1, <1>8, <1>12, <2>1, <2>2, <2>3, ConnectorAssumption DEF Numbers
    <1>11. Exclusive'
      <2>1. SUFFICES ASSUME ~dbClosed PROVE Exclusive'
        BY <1>8, <1>12 DEF Exclusive
      <2>2. c \in Connections /\ inner # 0 /\ ~recovering
        BY <1>1, <1>2, <2>1 DEF Exclusive, Connections, Doing
      <2>3. \A d \in Client : ~Doing(d, "recovering")'
        BY <1>1, <1>4, <2>1, <2>2 DEF Exclusive, Doing
      <2>4. inner' = 0 => Connections' = {}
        <3>1. IsFiniteSet(Connections')
          BY FS_Subset, ConnectorAssumption DEF Connections
        <3> QED
          BY <1>5, <1>8, <1>12, <2>2, <3>1, FS_EmptySet
      <2>5. \A d \in Connections' : client'[d].inst = inner
        BY <1>1, <1>4, <2>1 DEF Exclusive, Connections
      <2> QED
        BY <1>8, <1>12, <2>2, <2>3, <2>4, <2>5 DEF Exclusive
    <1> QED
      BY <1>7, <1>9, <1>10, <1>11 DEF ConnectorInv

-----------------------------------------------------------------------------
(* ReconnectingConnector: the theorems.                                    *)

LEMMA NextConnectorInv ==
    ConnectorInv /\ [ConnectorNext]_connectorVars => ConnectorInv'
    <1> SUFFICES ASSUME ConnectorInv, [ConnectorNext]_connectorVars PROVE ConnectorInv'
      OBVIOUS
    <1>1. ASSUME NEW c \in Client,
                 RequestConn(c) \/ GiveUp(c) \/ ConnectStep(c) \/ FatalError(c) \/ ReturnConn(c)
          PROVE  ConnectorInv'
      BY <1>1, WaitInv, ConnectInv, BeginRecoveryInv, StillInv, ReturnInv DEF ConnectStep
    <1>2. CASE DrainTimeout \/ RunWatchdog \/ CloseDatabase \/ UNCHANGED connectorVars
      BY <1>2, StillInv
    <1> QED
      BY <1>1, <1>2 DEF ConnectorNext

LEMMA PropertiesFollow ==
    ASSUME ConnectorInv
    PROVE  ConnectorTypeOK /\ OneInstance /\ GateAccounted
    <1>1. Types /\ Counts /\ Numbers /\ Exclusive
      BY DEF ConnectorInv
    <1>2. ConnectorTypeOK
      <2>1. \A c \in Client : client[c].inst \in 0 .. MaxDeaths + 2
        BY <1>1, ConnectorAssumption DEF Types, Numbers
      <2>2. client \in [Client -> [at : Activity, inst : 0 .. MaxDeaths + 2]]
        BY <1>1, <2>1 DEF Types
      <2>3. gate \in 0 .. GateLimit /\ inner \in 0 .. opened /\ opened \in 0 .. MaxDeaths + 2
        BY <1>1, ConnectorAssumption DEF Types, Counts, Numbers
      <2>4. openConns \in 0 .. Cardinality(Client)
        <3>1. Connections \in SUBSET Client
          BY DEF Connections
        <3>2. Cardinality(Connections) <= Cardinality(Client) /\ Cardinality(Client) \in Nat
          BY <3>1, FS_Subset, FS_CardinalityType, ConnectorAssumption
        <3> QED
          BY <1>1, <3>2 DEF Types, Counts
      <2> QED
        BY <1>1, <2>2, <2>3, <2>4 DEF Types, ConnectorTypeOK, Activity
    <1>3. OneInstance
      <2>1. SUFFICES ASSUME ~dbClosed PROVE OneInstance
        BY DEF OneInstance
      <2> DEFINE Recoverers == {c \in Client : Doing(c, "recovering")}
      <2>2. Cardinality(Recoverers) <= 1
        <3>1. CASE Recoverers = {}
          BY <3>1, FS_EmptySet
        <3>2. CASE \E c \in Client : Recoverers = {c}
          BY <3>2, FS_Singleton
        <3> QED
          BY <1>1, <2>1, <3>1, <3>2 DEF Exclusive
      <2> QED
        BY <1>1, <2>1, <2>2 DEF Exclusive, OneInstance
    <1>4. GateAccounted
      BY <1>1 DEF Counts, GateAccounted, Holders, Holding
    <1> QED
      BY <1>2, <1>3, <1>4

\* Every variable of the connector keeps its type: in particular no more
\* connections than the gate admits are open.
THEOREM ConnectorTypes == ConnectorSpec => []ConnectorTypeOK
    BY ConnectorInitInv, NextConnectorInv, PropertiesFollow, PTL DEF ConnectorSpec

\* All connections belong to one instance, and the recovery has the file for
\* itself.
THEOREM OneInstanceAtATime == ConnectorSpec => []OneInstance
    BY ConnectorInitInv, NextConnectorInv, PropertiesFollow, PTL DEF ConnectorSpec

\* Every token of the gate is held by somebody who will return it.
THEOREM TokensAreAccounted == ConnectorSpec => []GateAccounted
    BY ConnectorInitInv, NextConnectorInv, PropertiesFollow, PTL DEF ConnectorSpec

-----------------------------------------------------------------------------
(* OAuthGrants: types                                                      *)

OpType == [at : {"idle", "loaded", "exchanged", "reused", "waiting", "revoking", "revoked"},
           cred : Exchangeable, pair : Exchangeable,
           seen : {"none", "fresh", "used"}, active : BOOLEAN]

LEMMA NoOpType == NoOp \in OpType
    <1>1. 0 \in Exchangeable
      BY OAuthAssumption DEF Exchangeable
    <1> QED
      BY <1>1 DEF NoOp, OpType

LEMMA OAuthInitTypes == OAuthInit => OAuthTypeOK
    <1> SUFFICES ASSUME OAuthInit PROVE OAuthTypeOK
      OBVIOUS
    <1>1. made \in 0 .. MaxPairs
      BY OAuthAssumption DEF OAuthInit
    <1>2. exchangeable \in [Exchangeable -> {"none", "fresh", "used"}]
      BY DEF OAuthInit
    <1>3. access \in [Pair -> {"none", "live", "revoked"}]
      BY DEF OAuthInit
    <1>4. op \in [Provider -> OpType]
      BY NoOpType DEF OAuthInit
    <1> QED
      BY <1>1, <1>2, <1>3, <1>4 DEF OAuthInit, OAuthTypeOK, OpType

\* The ways in which a provider goes on.
LEMMA EndsType ==
    ASSUME OAuthTypeOK, NEW p \in Provider, Ends(p)
    PROVE  op' \in [Provider -> OpType]
    BY NoOpType DEF OAuthTypeOK, Ends, OpType

LEMMA GoesType ==
    ASSUME OAuthTypeOK, NEW p \in Provider, Goes(p, "reused") \/ Goes(p, "waiting") \/ Goes(p, "revoked")
    PROVE  op' \in [Provider -> OpType]
    BY DEF OAuthTypeOK, Goes, OpType

LEMMA SnapshotType ==
    ASSUME OAuthTypeOK, NEW p \in Provider, NEW k \in Exchangeable, Snapshot(p, k)
    PROVE  op' \in [Provider -> OpType]
    <1>1. 0 \in Exchangeable
      BY OAuthAssumption DEF Exchangeable
    <1>2. exchangeable[k] \in {"none", "fresh", "used"} /\ granted \in BOOLEAN
      BY DEF OAuthTypeOK
    <1> DEFINE new == [at |-> "loaded", cred |-> k, pair |-> 0,
                       seen |-> exchangeable[k], active |-> granted]
    <1>3. new \in OpType
      BY <1>1, <1>2 DEF OpType
    <1>4. op' = [op EXCEPT ![p] = new]
      BY DEF Snapshot
    <1> HIDE DEF new
    <1> QED
      BY <1>3, <1>4 DEF OAuthTypeOK, OpType

\* Every action keeps the types.
LEMMA OAuthNextTypes == OAuthTypeOK /\ [OAuthNext]_oauthVars => OAuthTypeOK'
    <1> SUFFICES ASSUME OAuthTypeOK, [OAuthNext]_oauthVars PROVE OAuthTypeOK'
      OBVIOUS
    <1>1. CASE UNCHANGED oauthVars
      BY <1>1 DEF OAuthTypeOK, oauthVars
    <1>2. ASSUME NEW p \in Provider, NEW k \in Exchangeable, PresentCredential(p, k)
          PROVE  OAuthTypeOK'
      <2>1. op' \in [Provider -> OpType]
        BY <1>2, SnapshotType DEF PresentCredential
      <2> QED
        BY <1>2, <2>1 DEF OAuthTypeOK, PresentCredential, OpType
    <1>3. ASSUME NEW p \in Provider,
                 \/ RefuseInactive(p) \/ TokenFails(p) \/ CommitReuse(p) \/ CommitRevocation(p)
                 \/ RevocationErrorHidden(p)
          PROVE  OAuthTypeOK'
      <2>1. op' \in [Provider -> OpType]
        BY <1>3, EndsType DEF RefuseInactive, RevocationErrorHidden, TokenFails, CommitReuse,
                              CommitRevocation
      <2>2. 0 \in Exchangeable /\ op[p].cred \in Exchangeable
        BY OAuthAssumption DEF OAuthTypeOK, Exchangeable
      <2> QED
        BY <1>3, <2>1, <2>2 DEF OAuthTypeOK, RefuseInactive, RevocationErrorHidden, TokenFails,
                          CommitReuse, CommitRevocation, OpType
    <1>4. ASSUME NEW p \in Provider, RevokeFamily(p) \/ ConflictFound(p) \/ RevokeGrant(p)
          PROVE  OAuthTypeOK'
      <2>1. op' \in [Provider -> OpType]
        BY <1>4, GoesType DEF RevokeFamily, ConflictFound, RevokeGrant
      <2> QED
        BY <1>4, <2>1 DEF OAuthTypeOK, RevokeFamily, ConflictFound, RevokeGrant, OpType
    <1>5. ASSUME NEW p \in Provider, ExchangeCredential(p) PROVE OAuthTypeOK'
      <2>1. made' \in 0 .. MaxPairs /\ made + 1 \in Exchangeable
        BY <1>5, OAuthAssumption DEF OAuthTypeOK, ExchangeCredential, Exchangeable
      <2> DEFINE new == [op[p] EXCEPT !.at = "exchanged", !.pair = made + 1]
      <2>a. op \in [Provider -> OpType]
        BY DEF OAuthTypeOK, OpType
      <2>b. new \in OpType
        BY <2>1, <2>a DEF OpType
      <2>c. op' = [op EXCEPT ![p] = new]
        BY <1>5 DEF ExchangeCredential
      <2> HIDE DEF new
      <2>2. op' \in [Provider -> OpType]
        BY <2>a, <2>b, <2>c
      <2> QED
        BY <1>5, <2>1, <2>2 DEF OAuthTypeOK, ExchangeCredential, OpType
    <1>6. ASSUME NEW p \in Provider, TryAgain(p) PROVE OAuthTypeOK'
      <2>1. op[p].cred \in Exchangeable
        BY DEF OAuthTypeOK
      <2>2. op' \in [Provider -> OpType]
        BY <1>6, <2>1, SnapshotType DEF TryAgain
      <2> QED
        BY <1>6, <2>2 DEF OAuthTypeOK, TryAgain, OpType
    <1>7. ASSUME NEW p \in Provider, CommitExchange(p) PROVE OAuthTypeOK'
      <2>1. op' \in [Provider -> OpType]
        BY <1>7, EndsType DEF CommitExchange
      <2>2. exchangeable' \in [Exchangeable -> {"none", "fresh", "used"}]
        BY <1>7 DEF OAuthTypeOK, CommitExchange
      <2>3. access' \in [Pair -> {"none", "live", "revoked"}]
        BY <1>7 DEF OAuthTypeOK, CommitExchange
      <2> QED
        BY <1>7, <2>1, <2>2, <2>3 DEF OAuthTypeOK, CommitExchange, OpType
    <1>8. ASSUME NEW p \in Provider, RevokeToken(p) PROVE OAuthTypeOK'
      <2>1. op' \in [Provider -> OpType]
        BY <1>8, NoOpType DEF OAuthTypeOK, RevokeToken, NoOp, OpType
      <2> QED
        BY <1>8, <2>1 DEF OAuthTypeOK, RevokeToken, OpType
    <1>9. CASE UserRevokes \/ UserCommits \/ UserFails
      BY <1>9 DEF OAuthTypeOK, UserRevokes, UserCommits, UserFails
    <1> QED
      BY <1>1, <1>2, <1>3, <1>4, <1>5, <1>6, <1>7, <1>8, <1>9 DEF OAuthNext

\* Every variable of the grant keeps its type.
THEOREM OAuthTypes == OAuthSpec => []OAuthTypeOK
    BY OAuthInitTypes, OAuthNextTypes, PTL DEF OAuthSpec

-----------------------------------------------------------------------------
(* OAuthGrants: one pair                                                   *)

Exchanging(p) == op[p].at = "exchanged"

\* A number that was not given to a pair yet is nobody's.
NoLaterPair == \A k \in Exchangeable : k > made => exchangeable[k] = "none"

\* An exchange that is not committed: what it consumes is still unused for
\* everyone else, and the pair it makes is its own.
PendingExchange(p) ==
    Exchanging(p) =>
        /\ exchangeable[op[p].cred] = "fresh"
        /\ op[p].pair \in 1 .. made
        /\ exchangeable[op[p].pair] = "none"

\* There is no second one.
OneExchange == \A p, q \in Provider : Exchanging(p) /\ Exchanging(q) => p = q

PairInv ==
    /\ OneTokenPair
    /\ NoLaterPair
    /\ \A p \in Provider : PendingExchange(p)
    /\ OneExchange

LEMMA InitPair == OAuthInit => PairInv
    BY OAuthAssumption
    DEF OAuthInit, PairInv, OneTokenPair, NoLaterPair, PendingExchange, OneExchange, Exchanging,
        NoOp, Exchangeable, Pair

\* A step that begins no exchange and commits none.
LEMMA PairFrame ==
    ASSUME OAuthTypeOK, PairInv, UNCHANGED <<exchangeable, access, made>>,
           \A p \in Provider : Exchanging(p)' => op'[p] = op[p]
    PROVE  PairInv'
    BY DEF PairInv, OneTokenPair, NoLaterPair, PendingExchange, OneExchange, Exchanging

\* A provider that goes on to something else than an exchange.
LEMMA PairOther ==
    ASSUME OAuthTypeOK, PairInv, UNCHANGED <<exchangeable, access, made>>,
           NEW p \in Provider, NEW new, new.at # "exchanged", op' = [op EXCEPT ![p] = new]
    PROVE  PairInv'
    <1>1. ASSUME NEW q \in Provider, Exchanging(q)' PROVE op'[q] = op[q]
      BY <1>1 DEF Exchanging, OAuthTypeOK
    <1> QED
      BY <1>1, PairFrame

LEMMA NextPair == OAuthTypeOK /\ PairInv /\ [OAuthNext]_oauthVars => PairInv'
    <1> SUFFICES ASSUME OAuthTypeOK, PairInv, [OAuthNext]_oauthVars PROVE PairInv'
      OBVIOUS
    <1>1. CASE UNCHANGED oauthVars
      BY <1>1, PairFrame DEF oauthVars, Exchanging
    <1>2. ASSUME NEW p \in Provider, NEW k \in Exchangeable, PresentCredential(p, k)
          PROVE  PairInv'
      BY <1>2, PairOther DEF PresentCredential, Snapshot
    <1>3. ASSUME NEW p \in Provider,
                 \/ RefuseInactive(p) \/ TokenFails(p) \/ CommitReuse(p) \/ CommitRevocation(p)
                 \/ RevocationErrorHidden(p)
          PROVE  PairInv'
      <2>1. NoOp.at # "exchanged"
        BY DEF NoOp
      <2> QED
        BY <1>3, <2>1, PairOther
        DEF RefuseInactive, RevocationErrorHidden, TokenFails, CommitReuse, CommitRevocation, Ends
    <1>4. ASSUME NEW p \in Provider, RevokeFamily(p) \/ ConflictFound(p) \/ RevokeGrant(p)
          PROVE  PairInv'
      <2>1. ASSUME NEW q \in Provider, Exchanging(q)' PROVE op'[q] = op[q]
        BY <1>4, <2>1 DEF RevokeFamily, ConflictFound, RevokeGrant, Goes, Exchanging, OAuthTypeOK
      <2> QED
        BY <1>4, <2>1, PairFrame DEF RevokeFamily, ConflictFound, RevokeGrant
    <1>5. ASSUME NEW p \in Provider, ExchangeCredential(p) PROVE PairInv'
      <2>1. exchangeable[op[p].cred] = "fresh" /\ op[p].cred \in Exchangeable
        BY <1>5 DEF ExchangeCredential, CredentialRowTaken, OAuthTypeOK
      <2>2. ASSUME NEW q \in Provider, Exchanging(q) PROVE FALSE
        <3>1. exchangeable[op[q].cred] = "fresh" /\ op[q].cred \in Exchangeable
          BY <2>2 DEF PairInv, PendingExchange, OAuthTypeOK
        <3>2. op[q].cred = op[p].cred
          BY <2>1, <3>1 DEF PairInv, OneTokenPair
        <3>3. q # p
          BY <1>5, <2>2 DEF ExchangeCredential, Exchanging, At
        <3> QED
          BY <1>5, <2>2, <3>2, <3>3 DEF ExchangeCredential, CredentialRowTaken, Exchanging, At
      <2>3. made + 1 \in Exchangeable /\ made \in Nat /\ made' = made + 1
        BY <1>5, OAuthAssumption DEF OAuthTypeOK, ExchangeCredential, Exchangeable
      <2>4. exchangeable[made + 1] = "none"
        BY <2>3 DEF PairInv, NoLaterPair
      <2>5. /\ op'[p].cred = op[p].cred /\ op'[p].pair = made + 1
            /\ \A q \in Provider \ {p} : op'[q] = op[q]
        BY <1>5 DEF ExchangeCredential, OAuthTypeOK
      <2>6. UNCHANGED <<exchangeable, access>>
        BY <1>5 DEF ExchangeCredential
      <2>7. \A q \in Provider : Exchanging(q)' => q = p
        BY <2>2, <2>5 DEF Exchanging
      <2>8. \A q \in Provider : PendingExchange(q)'
        BY <2>1, <2>3, <2>4, <2>5, <2>6, <2>7 DEF PendingExchange
      <2>9. NoLaterPair'
        BY <2>3, <2>6 DEF PairInv, NoLaterPair, Exchangeable
      <2> QED
        BY <2>6, <2>7, <2>8, <2>9 DEF PairInv, OneTokenPair, OneExchange
    <1>6. ASSUME NEW p \in Provider, TryAgain(p) PROVE PairInv'
      BY <1>6, PairOther DEF TryAgain, Snapshot
    <1>7. ASSUME NEW p \in Provider, CommitExchange(p) PROVE PairInv'
      <2> DEFINE c == op[p].cred
                 n == op[p].pair
      <2>1. /\ c \in Exchangeable /\ exchangeable[c] = "fresh"
            /\ n \in 1 .. made /\ n \in Exchangeable /\ exchangeable[n] = "none"
        BY <1>7 DEF CommitExchange, PairInv, PendingExchange, Exchanging, At, OAuthTypeOK
      <2>2. n \in Pair /\ made \in 0 .. MaxPairs /\ c # n
        BY <2>1, OAuthAssumption DEF OAuthTypeOK, Pair, Exchangeable
      <2>3. \A q \in Provider : ~Exchanging(q)'
        <3>1. Exchanging(p)
          BY <1>7 DEF CommitExchange, Exchanging, At
        <3>2. \A q \in Provider \ {p} : ~Exchanging(q) /\ op'[q] = op[q]
          BY <1>7, <3>1 DEF PairInv, OneExchange, CommitExchange, Ends, OAuthTypeOK
        <3>3. op'[p] = NoOp
          BY <1>7 DEF CommitExchange, Ends, OAuthTypeOK
        <3> QED
          BY <3>2, <3>3 DEF Exchanging, NoOp
      <2>4. \A k \in Exchangeable :
                exchangeable'[k] = IF k = n THEN "fresh" ELSE IF k = c THEN "used"
                                   ELSE exchangeable[k]
        BY <1>7, <2>1, <2>2 DEF CommitExchange, OAuthTypeOK
      <2>5. \A k \in Pair :
                access'[k] = IF k = n THEN "live" ELSE IF k = c THEN "revoked" ELSE access[k]
        BY <1>7 DEF CommitExchange
      <2>6. \A k \in Exchangeable : k # c => exchangeable[k] # "fresh"
        BY <2>1 DEF PairInv, OneTokenPair
      <2>7. made' = made
        BY <1>7 DEF CommitExchange
      <2> HIDE DEF c, n
      <2>8. \A k \in Exchangeable : exchangeable'[k] = "fresh" <=> k = n
        BY <2>4, <2>6
      <2>9. \A k \in Pair : access'[k] = "live" <=> k = n
        <3>1. \A k \in Pair : k \in Exchangeable
          BY OAuthAssumption DEF Pair, Exchangeable
        <3> QED
          BY <2>5, <2>6, <3>1 DEF PairInv, OneTokenPair
      <2>10. OneTokenPair'
        <3>1. \A k \in Pair : k \in Exchangeable
          BY OAuthAssumption DEF Pair, Exchangeable
        <3> QED
          BY <2>8, <2>9, <3>1 DEF OneTokenPair
      <2>11. NoLaterPair'
        <3> SUFFICES ASSUME NEW k \in Exchangeable, k > made PROVE exchangeable'[k] = "none"
          BY <2>7 DEF NoLaterPair
        <3>1. exchangeable[k] = "none"
          BY DEF PairInv, NoLaterPair
        <3>2. k # n
          BY <2>1, <2>2 DEF Exchangeable
        <3> QED
          BY <2>1, <2>4, <3>1, <3>2
      <2> QED
        BY <2>3, <2>10, <2>11 DEF PairInv, PendingExchange, OneExchange
    <1>8. ASSUME NEW p \in Provider, RevokeToken(p) PROVE PairInv'
      BY <1>8, PairOther DEF RevokeToken, NoOp
    <1>9. CASE UserRevokes \/ UserCommits \/ UserFails
      BY <1>9, PairFrame DEF UserRevokes, UserCommits, UserFails
    <1> QED
      BY <1>1, <1>2, <1>3, <1>4, <1>5, <1>6, <1>7, <1>8, <1>9 DEF OAuthNext

\* A grant never has two credentials that can be exchanged, nor an access token
\* beside that of the pair in force.
THEOREM OnePairInForce == OAuthSpec => []OneTokenPair
    <1>1. OAuthInit => OAuthTypeOK /\ PairInv
      BY OAuthInitTypes, InitPair
    <1>2. OAuthTypeOK /\ PairInv /\ [OAuthNext]_oauthVars => (OAuthTypeOK /\ PairInv)'
      BY OAuthNextTypes, NextPair
    <1>3. PairInv => OneTokenPair
      BY DEF PairInv
    <1> QED
      BY <1>1, <1>2, <1>3, PTL DEF OAuthSpec

-----------------------------------------------------------------------------
(* OAuthGrants: a refusal                                                  *)

\* A transaction whose snapshot has no active grant: there is none any more.
\* And one that has seen its credential used: it stays used.
RefusalInv ==
    /\ \A p \in Provider : op[p].at = "loaded" /\ ~op[p].active => ~granted
    /\ \A p \in Provider :
          op[p].at = "loaded" /\ op[p].seen = "used" => exchangeable[op[p].cred] = "used"
    /\ RefusalIsFinal

LEMMA InitRefusal == OAuthInit => RefusalInv
    BY DEF OAuthInit, RefusalInv, RefusalIsFinal, NoOp

LEMMA NextRefusal == OAuthTypeOK /\ PairInv /\ RefusalInv /\ [OAuthNext]_oauthVars => RefusalInv'
    <1> SUFFICES ASSUME OAuthTypeOK, PairInv, RefusalInv, [OAuthNext]_oauthVars PROVE RefusalInv'
      OBVIOUS
    <1> USE DEF RefusalInv, RefusalIsFinal
    <1>1. CASE UNCHANGED oauthVars
      BY <1>1 DEF oauthVars
    <1>2. ASSUME NEW p \in Provider, NEW k \in Exchangeable, PresentCredential(p, k)
          PROVE  RefusalInv'
      BY <1>2 DEF PresentCredential, Snapshot, OAuthTypeOK
    <1>3. ASSUME NEW p \in Provider,
                 \/ RefuseInactive(p) \/ TokenFails(p) \/ CommitReuse(p) \/ CommitRevocation(p)
                 \/ RevocationErrorHidden(p)
          PROVE  RefusalInv'
      BY <1>3 DEF RefuseInactive, RevocationErrorHidden, TokenFails, CommitReuse, CommitRevocation, Ends, NoOp, At,
                  OAuthTypeOK
    <1>4. ASSUME NEW p \in Provider, RevokeFamily(p) \/ ConflictFound(p) \/ RevokeGrant(p)
          PROVE  RefusalInv'
      BY <1>4 DEF RevokeFamily, ConflictFound, RevokeGrant, Goes, OAuthTypeOK
    <1>5. ASSUME NEW p \in Provider, ExchangeCredential(p) PROVE RefusalInv'
      <2>1. op'[p].at = "exchanged" /\ \A q \in Provider \ {p} : op'[q] = op[q]
        BY <1>5 DEF ExchangeCredential, OAuthTypeOK
      <2> QED
        BY <1>5, <2>1 DEF ExchangeCredential
    <1>6. ASSUME NEW p \in Provider, TryAgain(p) PROVE RefusalInv'
      BY <1>6 DEF TryAgain, Snapshot, OAuthTypeOK
    <1>7. ASSUME NEW p \in Provider, CommitExchange(p) PROVE RefusalInv'
      <2>1. /\ exchangeable[op[p].cred] = "fresh" /\ exchangeable[op[p].pair] = "none"
            /\ op[p].cred \in Exchangeable /\ op[p].pair \in Exchangeable
        BY <1>7 DEF CommitExchange, PairInv, PendingExchange, Exchanging, At, OAuthTypeOK
      <2>2. \A k \in Exchangeable : exchangeable[k] = "used" => exchangeable'[k] = "used"
        BY <1>7, <2>1 DEF CommitExchange, OAuthTypeOK
      <2>3. op'[p].at = "idle" /\ \A q \in Provider \ {p} : op'[q] = op[q]
        BY <1>7 DEF CommitExchange, Ends, NoOp, OAuthTypeOK
      <2>4. 0 \in Exchangeable /\ \A q \in Provider : op[q].cred \in Exchangeable
        BY OAuthAssumption DEF OAuthTypeOK, Exchangeable
      <2> QED
        BY <1>7, <2>2, <2>3, <2>4 DEF CommitExchange
    <1>8. ASSUME NEW p \in Provider, RevokeToken(p) PROVE RefusalInv'
      <2>1. op'[p].at = "revoking" /\ \A q \in Provider \ {p} : op'[q] = op[q]
        BY <1>8 DEF RevokeToken, NoOp, OAuthTypeOK
      <2> QED
        BY <1>8, <2>1 DEF RevokeToken
    <1>9. CASE UserRevokes \/ UserCommits \/ UserFails
      BY <1>9 DEF UserRevokes, UserCommits, UserFails
    <1> QED
      BY <1>1, <1>2, <1>3, <1>4, <1>5, <1>6, <1>7, <1>8, <1>9 DEF OAuthNext

\* A client that is told invalid_grant has lost a grant that is revoked for
\* good, unless what it presented was a code that had been used already: then
\* the code is lost for certain, the grant only if its revocation succeeded.
THEOREM RefusalsAreFinal == OAuthSpec => []RefusalIsFinal
    <1>1. OAuthInit => OAuthTypeOK /\ PairInv /\ RefusalInv
      BY OAuthInitTypes, InitPair, InitRefusal
    <1>2. OAuthTypeOK /\ PairInv /\ RefusalInv /\ [OAuthNext]_oauthVars
              => (OAuthTypeOK /\ PairInv /\ RefusalInv)'
      BY OAuthNextTypes, NextPair, NextRefusal
    <1>3. RefusalInv => RefusalIsFinal
      BY DEF RefusalInv
    <1> QED
      BY <1>1, <1>2, <1>3, PTL DEF OAuthSpec

-----------------------------------------------------------------------------
(* ClusterLeader: types                                                    *)

HopType == [at : Node, step : {"none", "arrived", "follower", "sent"}, to : Node]

LEMMA NoHopType == NoHop \in HopType
    BY ClusterAssumption DEF NoHop, AnyNode, HopType

LEMMA ClusterInitTypes == ClusterInit => ClusterTypeOK
    BY NoHopType, ClusterAssumption DEF ClusterInit, ClusterTypeOK, Phase, HopType

\* What a node comes to know, and what it forgets.
LEMMA SeesTypes ==
    ASSUME ClusterTypeOK, NEW n \in Node, NEW view \in SUBSET Node, Sees(n, view)
    PROVE  peers' \in [Node -> SUBSET Node] /\ leader' \in [Node -> Node]
    BY DEF ClusterTypeOK, Sees

LEMMA ForgetsTypes ==
    ASSUME ClusterTypeOK, NEW n \in Node, Forgets(n)
    PROVE  peers' \in [Node -> SUBSET Node] /\ leader' \in [Node -> Node]
    BY DEF ClusterTypeOK, Forgets

\* Every action keeps the types.
LEMMA ClusterNextTypes == ClusterTypeOK /\ [ClusterNext]_clusterVars => ClusterTypeOK'
    <1> SUFFICES ASSUME ClusterTypeOK, [ClusterNext]_clusterVars PROVE ClusterTypeOK'
      OBVIOUS
    <1>1. CASE UNCHANGED clusterVars
      BY <1>1 DEF ClusterTypeOK, clusterVars
    <1>2. ASSUME NEW n \in Node, NEW x \in Node, NotifyJoin(n, x) \/ NotifyLeave(n, x)
          PROVE  ClusterTypeOK'
      <2>1. peers[n] \cup {x} \in SUBSET Node /\ peers[n] \ {x} \in SUBSET Node
        BY DEF ClusterTypeOK
      <2>2. peers' \in [Node -> SUBSET Node] /\ leader' \in [Node -> Node]
        BY <1>2, <2>1, SeesTypes DEF NotifyJoin, NotifyLeave
      <2> QED
        BY <1>2, <2>2 DEF ClusterTypeOK, NotifyJoin, NotifyLeave
    <1>3. ASSUME NEW n \in Node, NEW x \in Node, FalseView(n, x) PROVE ClusterTypeOK'
      <2>1. peers[n] \cup {x} \in SUBSET Node /\ peers[n] \ {x} \in SUBSET Node
        BY DEF ClusterTypeOK
      <2>2. peers' \in [Node -> SUBSET Node] /\ leader' \in [Node -> Node]
        BY <1>3, <2>1, SeesTypes DEF FalseView
      <2>3. falseViews' \in 0 .. MaxFalseViews
        BY <1>3, ClusterAssumption DEF ClusterTypeOK, FalseView
      <2> QED
        BY <1>3, <2>2, <2>3 DEF ClusterTypeOK, FalseView
    <1>4. ASSUME NEW n \in Node, CreateList(n) PROVE ClusterTypeOK'
      <2>1. peers' \in [Node -> SUBSET Node] /\ leader' \in [Node -> Node]
        BY <1>4, SeesTypes DEF CreateList
      <2>2. starts' \in 0 .. MaxStarts
        BY <1>4, ClusterAssumption DEF ClusterTypeOK, CreateList
      <2>3. phase' \in [Node -> Phase]
        BY <1>4 DEF ClusterTypeOK, CreateList, Becoming, Phase
      <2> QED
        BY <1>4, <2>1, <2>2, <2>3 DEF ClusterTypeOK, CreateList
    <1>5. ASSUME NEW n \in Node, FinishJoin(n) PROVE ClusterTypeOK'
      <2>1. peers[n] \cup {n, Seed} \in SUBSET Node
        BY ClusterAssumption DEF ClusterTypeOK
      <2>2. peers' \in [Node -> SUBSET Node] /\ leader' \in [Node -> Node]
        BY <1>5, <2>1, SeesTypes DEF FinishJoin
      <2>3. phase' \in [Node -> Phase]
        BY <1>5 DEF ClusterTypeOK, FinishJoin, Becoming, Phase
      <2> QED
        BY <1>5, <2>2, <2>3 DEF ClusterTypeOK, FinishJoin
    <1>6. ASSUME NEW n \in Node, ShutdownHTTP(n) PROVE ClusterTypeOK'
      BY <1>6 DEF ClusterTypeOK, ShutdownHTTP, Becoming, Phase
    <1>7. ASSUME NEW n \in Node, ExitProcess(n) PROVE ClusterTypeOK'
      <2>1. peers' \in [Node -> SUBSET Node] /\ leader' \in [Node -> Node]
        BY <1>7, ForgetsTypes DEF ExitProcess
      <2>2. phase' \in [Node -> Phase]
        BY <1>7 DEF ClusterTypeOK, ExitProcess, Becoming, Phase
      <2>3. hop' \in HopType
        BY <1>7, NoHopType DEF ClusterTypeOK, ExitProcess, HopType
      <2> QED
        BY <1>7, <2>1, <2>2, <2>3 DEF ClusterTypeOK, ExitProcess, HopType
    <1>8. ASSUME NEW n \in Node, Arrive(n) PROVE ClusterTypeOK'
      BY <1>8 DEF ClusterTypeOK, Arrive
    <1>9. CASE RequestStep
      <2>1. hop \in HopType
        BY DEF ClusterTypeOK, HopType
      <2>2. hop' \in HopType
        <3>1. CASE CheckLeader
          BY <2>1, <3>1, NoHopType DEF CheckLeader, HopType
        <3>2. CASE LookupLeader
          <4>1. leader[hop.at] \in Node
            BY <2>1 DEF ClusterTypeOK, HopType
          <4> QED
            BY <2>1, <3>2, <4>1, NoHopType DEF LookupLeader, HopType
        <3>3. CASE ReachLeader
          BY <2>1, <3>3 DEF ReachLeader, HopType
        <3>4. CASE ForwardFails
          BY <3>4, NoHopType DEF ForwardFails
        <3> QED
          BY <1>9, <3>1, <3>2, <3>3, <3>4 DEF RequestStep
      <2>3. UNCHANGED <<phase, peers, leader, starts, falseViews>>
        BY <1>9 DEF RequestStep, CheckLeader, LookupLeader, ReachLeader, ForwardFails
      <2> QED
        BY <2>2, <2>3 DEF ClusterTypeOK, HopType
    <1> QED
      BY <1>1, <1>2, <1>3, <1>4, <1>5, <1>6, <1>7, <1>8, <1>9 DEF ClusterNext

\* Every variable of the cluster keeps its type.
THEOREM ClusterTypes == ClusterSpec => []ClusterTypeOK
    BY ClusterInitTypes, ClusterNextTypes, PTL DEF ClusterSpec

-----------------------------------------------------------------------------
(* ClusterLeader: where requests go                                        *)

\* A process that runs is among its own peers, so that no leader it takes has a
\* greater name.
OwnPeer(n) == n \in Members => n \in peers[n] /\ leader[n] <= n

HopInv ==
    /\ \A n \in Node : OwnPeer(n)
    /\ hop.step # "none" => hop.at \in Members
    /\ hop.step = "sent" => hop.to <= hop.at

\* A view with the node in it elects nobody greater.
LEMMA SeesSelf ==
    ASSUME ClusterTypeOK, HopInv, NEW n \in Node, NEW view \in SUBSET Node, n \in view,
           Sees(n, view), \A m \in Node \ {n} : m \in Members' => m \in Members
    PROVE  \A m \in Node : OwnPeer(m)'
    <1>1. peers'[n] = view /\ leader'[n] <= n
      BY DEF ClusterTypeOK, Sees, Elect
    <1>2. \A m \in Node \ {n} : peers'[m] = peers[m] /\ leader'[m] = leader[m]
      BY DEF ClusterTypeOK, Sees
    <1> QED
      BY <1>1, <1>2 DEF HopInv, OwnPeer

\* A step of the request alone.
LEMMA HopFrame ==
    ASSUME HopInv, UNCHANGED <<phase, peers, leader>>,
           hop'.step # "none" => hop'.at \in Members,
           hop'.step = "sent" => hop'.to <= hop'.at
    PROVE  HopInv'
    BY DEF HopInv, OwnPeer, Members

LEMMA InitHop == ClusterInit => HopInv
    BY DEF ClusterInit, HopInv, OwnPeer, Members, NoHop

LEMMA NextHop == ClusterTypeOK /\ HopInv /\ [ClusterNext]_clusterVars => HopInv'
    <1> SUFFICES ASSUME ClusterTypeOK, HopInv, [ClusterNext]_clusterVars PROVE HopInv'
      OBVIOUS
    <1>1. CASE UNCHANGED clusterVars
      BY <1>1 DEF HopInv, OwnPeer, Members, clusterVars
    <1>2. ASSUME NEW n \in Node, NEW x \in Node,
                 NotifyJoin(n, x) \/ NotifyLeave(n, x) \/ FalseView(n, x)
          PROVE  HopInv'
      <2>1. n \in Members /\ x # n /\ Members' = Members /\ hop' = hop
        BY <1>2 DEF NotifyJoin, NotifyLeave, FalseView, Members
      <2>2. n \in peers[n]
        BY <2>1 DEF HopInv, OwnPeer
      <2>3. PICK view \in SUBSET Node : n \in view /\ Sees(n, view)
        BY <1>2, <2>1, <2>2 DEF NotifyJoin, NotifyLeave, FalseView, ClusterTypeOK
      <2>4. \A m \in Node : OwnPeer(m)'
        BY <2>1, <2>3, SeesSelf
      <2> QED
        BY <2>1, <2>4 DEF HopInv
    <1>3. ASSUME NEW n \in Node, CreateList(n) PROVE HopInv'
      <2>1. Members' = Members \cup {n} /\ hop' = hop
        BY <1>3 DEF CreateList, Becoming, Members, ClusterTypeOK
      <2>2. \A m \in Node : OwnPeer(m)'
        BY <1>3, <2>1, SeesSelf DEF CreateList
      <2> QED
        BY <2>1, <2>2 DEF HopInv
    <1>4. ASSUME NEW n \in Node, FinishJoin(n) PROVE HopInv'
      <2>1. Members' = Members /\ hop' = hop
        BY <1>4 DEF FinishJoin, Becoming, Members, ClusterTypeOK
      <2>2. peers[n] \cup {n, Seed} \in SUBSET Node
        BY ClusterAssumption DEF ClusterTypeOK
      <2>3. \A m \in Node : OwnPeer(m)'
        BY <1>4, <2>1, <2>2, SeesSelf DEF FinishJoin
      <2> QED
        BY <2>1, <2>3 DEF HopInv
    <1>5. ASSUME NEW n \in Node, ShutdownHTTP(n) PROVE HopInv'
      <2>1. Members' = Members
        BY <1>5 DEF ShutdownHTTP, Becoming, Members, ClusterTypeOK
      <2> QED
        BY <1>5, <2>1 DEF ShutdownHTTP, HopInv, OwnPeer
    <1>6. ASSUME NEW n \in Node, ExitProcess(n) PROVE HopInv'
      <2>1. Members' = Members \ {n}
        BY <1>6 DEF ExitProcess, Becoming, Members, ClusterTypeOK
      <2>2. \A m \in Node \ {n} : peers'[m] = peers[m] /\ leader'[m] = leader[m]
        BY <1>6 DEF ExitProcess, Forgets, ClusterTypeOK
      <2>3. \A m \in Node : OwnPeer(m)'
        BY <2>1, <2>2 DEF HopInv, OwnPeer
      <2>4. CASE hop.at = n
        BY <1>6, <2>3, <2>4 DEF ExitProcess, NoHop, HopInv
      <2>5. CASE hop.at # n
        BY <1>6, <2>1, <2>3, <2>5 DEF ExitProcess, HopInv
      <2> QED
        BY <2>4, <2>5
    <1>7. ASSUME NEW n \in Node, Arrive(n) PROVE HopInv'
      BY <1>7, HopFrame DEF Arrive, Members
    <1>8. CASE CheckLeader
      BY <1>8, HopFrame DEF CheckLeader, NoHop, HopInv, ClusterTypeOK
    <1>9. CASE LookupLeader
      <2>1. hop.at \in Members /\ leader[hop.at] <= hop.at
        BY <1>9 DEF LookupLeader, HopInv, OwnPeer, ClusterTypeOK
      <2>2. CASE leader[hop.at] \in peers[hop.at]
        <3>1. hop'.at = hop.at /\ hop'.to = leader[hop.at]
          BY <1>9, <2>2 DEF LookupLeader, ClusterTypeOK
        <3> QED
          BY <1>9, <2>1, <3>1, HopFrame DEF LookupLeader
      <2>3. CASE leader[hop.at] \notin peers[hop.at]
        BY <1>9, <2>3, HopFrame DEF LookupLeader, NoHop
      <2> QED
        BY <2>2, <2>3
    <1>10. CASE ReachLeader
      BY <1>10, HopFrame DEF ReachLeader, Members, ClusterTypeOK
    <1>11. CASE ForwardFails
      BY <1>11, HopFrame DEF ForwardFails, NoHop
    <1> QED
      BY <1>1, <1>2, <1>3, <1>4, <1>5, <1>6, <1>7, <1>8, <1>9, <1>10, <1>11
      DEF ClusterNext, RequestStep

\* Only ReachLeader takes a request that was sent to another node.
LEMMA StepDescends ==
    ASSUME HopInv, [ClusterNext]_clusterVars, hop.step = "sent", hop'.step = "arrived"
    PROVE  hop'.at <= hop.at
    <1>1. CASE ReachLeader
      BY <1>1 DEF ReachLeader, HopInv
    <1>2. CASE UNCHANGED hop
      BY <1>2
    <1>3. ASSUME NEW n \in Node, ExitProcess(n) PROVE FALSE
      BY <1>3 DEF ExitProcess, NoHop
    <1>4. ASSUME NEW n \in Node, Arrive(n) PROVE FALSE
      BY <1>4 DEF Arrive
    <1>5. CASE CheckLeader \/ LookupLeader \/ ForwardFails
      BY <1>5 DEF CheckLeader, LookupLeader, ForwardFails, NoHop
    <1> QED
      BY <1>1, <1>2, <1>3, <1>4, <1>5
      DEF ClusterNext, RequestStep, NotifyJoin, NotifyLeave, FalseView, CreateList,
          FinishJoin, ShutdownHTTP, clusterVars

\* A request is never forwarded to a node of a greater name.
THEOREM RequestsDescend == ClusterSpec => HopsDescend
    <1>1. ClusterInit => ClusterTypeOK /\ HopInv
      BY ClusterInitTypes, InitHop
    <1>2. ClusterTypeOK /\ HopInv /\ [ClusterNext]_clusterVars => (ClusterTypeOK /\ HopInv)'
      BY ClusterNextTypes, NextHop
    <1>3. HopInv /\ [ClusterNext]_clusterVars
          => [hop.step = "sent" /\ hop'.step = "arrived" => hop'.at <= hop.at]_clusterVars
      BY StepDescends
    <1> QED
      BY <1>1, <1>2, <1>3, PTL DEF ClusterSpec, HopsDescend

-----------------------------------------------------------------------------
(* RealtimeBroker: the invariant.                                          *)

\* The viewer's last ID is one that this process gave.
Own(v) == lastID[v] # 0 /\ ~foreign[v]
Ascends(h) == \A i, j \in 1 .. Len(h) : i < j => h[i] < h[j]
Ordered(s) == \A i, j \in 1 .. Len(s) : i < j => s[i].id < s[j].id
Warned(v) == backlog[v] = <<ResyncAt(0)>>

\* The history ascends to the last ID that was given, and is there only as
\* long as somebody is subscribed.
HistoryInv ==
    /\ Ascends(history)
    /\ \A x \in Items(history) : x <= nextID
    /\ Subscribed = {} /\ severed = 0 => history = <<>>
    /\ ~brokerOpen => history = <<>> /\ severed = 0 /\ Subscribed = {}

\* What is to come is written in the order of the IDs, the replay first, and
\* has an ID unless it is the resync that stands for a replay.
QueueInv(v) ==
    /\ Ordered(backlog[v]) /\ Ordered(channel[v])
    /\ Warned(v) \/ \A e \in Items(backlog[v]) : e.id > 0 /\ ~e.resync
    /\ \A e \in Items(channel[v]) : e.id > 0
    /\ \A e \in ToCome(v) : e.id <= nextID
    /\ \A e \in Items(backlog[v]), f \in Items(channel[v]) : e.id < f.id
    /\ stream[v] \in {"away", "failed"} => backlog[v] = <<>> /\ channel[v] = <<>>

\* What a viewer is owed and the history reaches back to is in the history,
\* and if the history reaches back to its last ID, what it is owed came later:
\* so a replay from there has all of it.
OwedInv(v) ==
    /\ \A i \in owed[v] : i <= nextID
    /\ ~foreign[v] => lastID[v] <= nextID
    /\ stream[v] = "draining" => ~brokerOpen
    /\ stream[v] = "away" /\ ~Own(v) => owed[v] = {}
    /\ stream[v] = "subscribed" /\ 0 \in owed[v] => Warned(v)
    /\ history # <<>> =>
         \A i \in owed[v] : i >= history[1] => i \in Items(history)
    /\ Own(v) /\ history # <<>> /\ lastID[v] >= history[1] =>
         /\ 0 \notin owed[v]
         /\ \/ \A i \in owed[v] : i > lastID[v]
            \/ stream[v] = "subscribed" /\ \E e \in Items(channel[v]) : e.resync

\* NoSilentGap, of one viewer.
Covered(v) == \/ \E e \in ToCome(v) : e.resync
              \/ owed[v] \subseteq {e.id : e \in ToCome(v)}

ViewerInv(v) == QueueInv(v) /\ OwedInv(v) /\ (stream[v] = "subscribed" => Covered(v))

RealtimeInv == RealtimeTypeOK /\ HistoryInv /\ \A v \in Viewer : ViewerInv(v)

-----------------------------------------------------------------------------
(* RealtimeBroker: sequences.                                              *)

LEMMA LeastNatural ==
    ASSUME NEW T, T \subseteq Nat, T # {}
    PROVE  \E m \in T : \A k \in T : m <= k
    <1> DEFINE R == OpToRel(<, Nat)
    <1>1. IsWellFoundedOn(R, Nat)
      BY NatLessThanWellFounded
    <1>2. PICK m \in T : \A k \in T : ~(<<k, m>> \in R)
      BY <1>1, WFMin
    <1>3. \A k \in T : ~(k < m)
      BY <1>2 DEF OpToRel
    <1> HIDE DEF R
    <1>4. \A k \in T : m <= k
      BY <1>3
    <1> QED
      BY <1>4

LEMMA ItemsFacts ==
    ASSUME NEW S, NEW s \in Seq(S)
    PROVE  /\ Items(s) \subseteq S
           /\ \A i \in 1 .. Len(s) : s[i] \in Items(s)
           /\ Items(s) = {} <=> s = <<>>
    <1>1. Len(s) \in Nat /\ \A i \in 1 .. Len(s) : s[i] \in S
      BY LenProperties, ElementOfSeq
    <1>2. s # <<>> => Len(s) \in Nat \ {0}
      BY EmptySeq
    <1>3. Items(s) \subseteq S /\ \A i \in 1 .. Len(s) : s[i] \in Items(s)
      BY <1>1 DEF Items
    <1>4. CASE s = <<>>
      <2>1. 1 .. Len(s) = {}
        BY <1>4
      <2> QED
        BY <1>3, <1>4, <2>1 DEF Items
    <1>5. CASE s # <<>>
      <2>1. 1 \in 1 .. Len(s)
        BY <1>2, <1>5
      <2> QED
        BY <1>3, <1>5, <2>1
    <1> QED
      BY <1>3, <1>4, <1>5

LEMMA ItemsAppend ==
    ASSUME NEW S, NEW s \in Seq(S), NEW x \in S
    PROVE  /\ Append(s, x) \in Seq(S) /\ Append(s, x) # <<>>
           /\ Items(Append(s, x)) = Items(s) \cup {x}
    <1> DEFINE t == Append(s, x)
    <1>1. /\ t \in Seq(S) /\ t # <<>> /\ Len(t) = Len(s) + 1
          /\ \A i \in 1 .. Len(s) : t[i] = s[i]
          /\ t[Len(s) + 1] = x
      BY AppendProperties
    <1>2. Len(s) \in Nat
      BY LenProperties
    <1> HIDE DEF t
    <1>3. \A y : y \in Items(t) <=> \E i \in 1 .. Len(s) + 1 : y = t[i]
      BY <1>1 DEF Items
    <1>4. \A y : y \in Items(s) <=> \E i \in 1 .. Len(s) : y = s[i]
      BY DEF Items
    <1>5. \A i : i \in 1 .. Len(s) + 1 <=> i \in 1 .. Len(s) \/ i = Len(s) + 1
      BY <1>2
    <1>6. Items(t) = Items(s) \cup {x}
      BY <1>1, <1>3, <1>4, <1>5
    <1> QED
      BY <1>1, <1>6 DEF t

LEMMA ItemsTail ==
    ASSUME NEW S, NEW s \in Seq(S), s # <<>>
    PROVE  /\ Head(s) \in S /\ Head(s) = s[1] /\ Tail(s) \in Seq(S)
           /\ Items(s) = Items(Tail(s)) \cup {Head(s)}
    <1> DEFINE t == Tail(s)
    <1>1. /\ Head(s) \in S /\ t \in Seq(S) /\ Len(t) = Len(s) - 1
          /\ \A i \in 1 .. Len(t) : t[i] = s[i + 1]
      BY HeadTailProperties
    <1>2. Len(s) \in Nat \ {0}
      BY EmptySeq
    <1>3. Head(s) = s[1]
      BY <1>2
    <1> HIDE DEF t
    <1>4. \A y : y \in Items(t) <=> \E i \in 1 .. Len(t) : y = t[i]
      BY DEF Items
    <1>5. \A y : y \in Items(s) <=> \E i \in 1 .. Len(s) : y = s[i]
      BY DEF Items
    <1>6. ASSUME NEW i \in 1 .. Len(s) PROVE s[i] \in Items(t) \cup {s[1]}
      <2>1. CASE i = 1
        BY <2>1
      <2>2. CASE i # 1
        <3>1. i - 1 \in 1 .. Len(t) /\ (i - 1) + 1 = i
          BY <1>1, <1>2, <2>2
        <3> QED
          BY <1>1, <1>4, <3>1
      <2> QED
        BY <2>1, <2>2
    <1>7. ASSUME NEW i \in 1 .. Len(t) PROVE t[i] \in Items(s)
      <2>1. i + 1 \in 1 .. Len(s)
        BY <1>1, <1>2
      <2> QED
        BY <1>1, <1>5, <2>1
    <1>8. s[1] \in Items(s)
      BY <1>2, <1>5
    <1>9. Items(s) = Items(t) \cup {s[1]}
      BY <1>4, <1>5, <1>6, <1>7, <1>8
    <1> QED
      BY <1>1, <1>3, <1>9 DEF t

\* Sequences of events, and of IDs, that ascend.
LEMMA OrderedTail ==
    ASSUME NEW s \in Seq(StreamEvent), s # <<>>, Ordered(s)
    PROVE  Ordered(Tail(s)) /\ \A e \in Items(Tail(s)) : Head(s).id < e.id
    <1> DEFINE t == Tail(s)
    <1>1. /\ Head(s) = s[1] /\ Len(s) \in Nat \ {0} /\ Len(t) = Len(s) - 1
          /\ \A i \in 1 .. Len(t) : t[i] = s[i + 1]
      BY HeadTailProperties, ItemsTail, EmptySeq
    <1> HIDE DEF t
    <1>2. ASSUME NEW i \in 1 .. Len(t)
          PROVE  i + 1 \in 1 .. Len(s) /\ 1 \in 1 .. Len(s) /\ 1 < i + 1
      BY <1>1
    <1>3. ASSUME NEW i \in 1 .. Len(t), NEW j \in 1 .. Len(t), i < j PROVE t[i].id < t[j].id
      <2>1. i + 1 < j + 1
        BY <1>1, <1>3
      <2> QED
        BY <1>1, <1>2, <2>1 DEF Ordered
    <1>4. ASSUME NEW i \in 1 .. Len(t) PROVE s[1].id < t[i].id
      BY <1>1, <1>2 DEF Ordered
    <1>5. Ordered(t) /\ \A e \in Items(t) : s[1].id < e.id
      BY <1>3, <1>4 DEF Ordered, Items
    <1> QED
      BY <1>1, <1>5 DEF t

LEMMA OrderedAppend ==
    ASSUME NEW s \in Seq(StreamEvent), NEW x \in StreamEvent, Ordered(s),
           \A e \in Items(s) : e.id < x.id
    PROVE  Ordered(Append(s, x))
    <1> DEFINE t == Append(s, x)
    <1>1. /\ Len(t) = Len(s) + 1 /\ Len(s) \in Nat
          /\ \A i \in 1 .. Len(s) : t[i] = s[i]
          /\ t[Len(s) + 1] = x
      BY AppendProperties, LenProperties
    <1> HIDE DEF t
    <1>2. ASSUME NEW i \in 1 .. Len(t), NEW j \in 1 .. Len(t), i < j PROVE t[i].id < t[j].id
      <2>1. i \in 1 .. Len(s)
        BY <1>1, <1>2
      <2>2. t[i] = s[i] /\ s[i] \in Items(s)
        BY <1>1, <2>1, ItemsFacts
      <2>3. CASE j = Len(s) + 1
        BY <1>1, <2>2, <2>3
      <2>4. CASE j # Len(s) + 1
        <3>1. j \in 1 .. Len(s)
          BY <1>1, <2>4
        <3> QED
          BY <1>1, <1>2, <2>1, <2>2, <3>1 DEF Ordered
      <2> QED
        BY <2>3, <2>4
    <1>3. Ordered(t)
      BY <1>2 DEF Ordered
    <1> QED
      BY <1>3 DEF t

LEMMA AscendsTail ==
    ASSUME NEW h \in Seq(EventID), h # <<>>, Ascends(h)
    PROVE  Ascends(Tail(h)) /\ \A x \in Items(Tail(h)) : Head(h) < x
    <1> DEFINE t == Tail(h)
    <1>1. /\ Head(h) = h[1] /\ Len(h) \in Nat \ {0} /\ Len(t) = Len(h) - 1
          /\ \A i \in 1 .. Len(t) : t[i] = h[i + 1]
      BY HeadTailProperties, ItemsTail, EmptySeq
    <1> HIDE DEF t
    <1>2. ASSUME NEW i \in 1 .. Len(t)
          PROVE  i + 1 \in 1 .. Len(h) /\ 1 \in 1 .. Len(h) /\ 1 < i + 1
      BY <1>1
    <1>3. ASSUME NEW i \in 1 .. Len(t), NEW j \in 1 .. Len(t), i < j PROVE t[i] < t[j]
      <2>1. i + 1 < j + 1
        BY <1>1, <1>3
      <2> QED
        BY <1>1, <1>2, <2>1 DEF Ascends
    <1>4. ASSUME NEW i \in 1 .. Len(t) PROVE h[1] < t[i]
      BY <1>1, <1>2 DEF Ascends
    <1>5. Ascends(t) /\ \A x \in Items(t) : h[1] < x
      BY <1>3, <1>4 DEF Ascends, Items
    <1> QED
      BY <1>1, <1>5 DEF t

LEMMA AscendsAppend ==
    ASSUME NEW h \in Seq(EventID), NEW x \in EventID, Ascends(h), \A y \in Items(h) : y < x
    PROVE  Ascends(Append(h, x))
    <1> DEFINE t == Append(h, x)
    <1>1. /\ Len(t) = Len(h) + 1 /\ Len(h) \in Nat
          /\ \A i \in 1 .. Len(h) : t[i] = h[i]
          /\ t[Len(h) + 1] = x
      BY AppendProperties, LenProperties
    <1> HIDE DEF t
    <1>2. ASSUME NEW i \in 1 .. Len(t), NEW j \in 1 .. Len(t), i < j PROVE t[i] < t[j]
      <2>1. i \in 1 .. Len(h)
        BY <1>1, <1>2
      <2>2. t[i] = h[i] /\ h[i] \in Items(h)
        BY <1>1, <2>1, ItemsFacts
      <2>3. CASE j = Len(h) + 1
        BY <1>1, <2>2, <2>3
      <2>4. CASE j # Len(h) + 1
        <3>1. j \in 1 .. Len(h)
          BY <1>1, <2>4
        <3> QED
          BY <1>1, <1>2, <2>1, <2>2, <3>1 DEF Ascends
      <2> QED
        BY <2>3, <2>4
    <1>3. Ascends(t)
      BY <1>2 DEF Ascends
    <1> QED
      BY <1>3 DEF t

-----------------------------------------------------------------------------
(* RealtimeBroker: what a publication and a subscription make of a history *)
(* and of a channel.                                                       *)

\* Trimming a history forgets its oldest event only.
LEMMA RememberedFacts ==
    ASSUME NEW h \in Seq(EventID), NEW i \in EventID, Len(h) <= HistoryLimit,
           Ascends(h), \A x \in Items(h) : x < i
    PROVE  LET t == Remembered(h, i)
           IN  /\ t \in Seq(EventID) /\ Len(t) <= HistoryLimit /\ t # <<>>
               /\ Ascends(t)
               /\ Items(t) \subseteq Items(h) \cup {i} /\ i \in Items(t)
               /\ \A x \in Items(h) : x >= t[1] => x \in Items(t)
               /\ t[1] \in EventID
               /\ IF h = <<>> THEN t[1] = i ELSE h[1] \in EventID /\ h[1] <= t[1]
    <1> DEFINE t == Remembered(h, i)
    <1>1. HistoryLimit \in Nat \ {0} /\ Len(h) \in Nat /\ MaxEventID \in Nat
      BY RealtimeAssumption, LenProperties
    <1>2. \A u \in Seq(EventID) : u # <<>> => u[1] \in Items(u) /\ u[1] \in EventID
      BY ItemsTail
    <1>3. CASE Len(h) < HistoryLimit
      <2>1. t = Append(h, i)
        BY <1>3 DEF Remembered
      <2>2. /\ t \in Seq(EventID) /\ t # <<>> /\ Len(t) = Len(h) + 1
            /\ Items(t) = Items(h) \cup {i} /\ Ascends(t)
            /\ \A k \in 1 .. Len(h) : t[k] = h[k]
            /\ t[Len(h) + 1] = i
        BY <2>1, ItemsAppend, AppendProperties, AscendsAppend
      <2>3. CASE h = <<>>
        BY <1>1, <1>2, <1>3, <2>2, <2>3
      <2>4. CASE h # <<>>
        <3>1. t[1] = h[1]
          BY <2>2, <2>4, EmptySeq
        <3> QED
          BY <1>1, <1>2, <1>3, <2>2, <2>4, <3>1 DEF EventID
      <2> QED
        BY <2>3, <2>4
    <1>4. CASE ~(Len(h) < HistoryLimit)
      <2>1. t = Append(Tail(h), i) /\ h # <<>>
        BY <1>1, <1>4, EmptySeq DEF Remembered
      <2>2. /\ Tail(h) \in Seq(EventID) /\ Len(Tail(h)) = Len(h) - 1
            /\ Items(h) = Items(Tail(h)) \cup {h[1]} /\ Ascends(Tail(h))
            /\ \A x \in Items(Tail(h)) : h[1] < x
        BY <2>1, ItemsTail, HeadTailProperties, AscendsTail
      <2>3. /\ t \in Seq(EventID) /\ t # <<>> /\ Len(t) = Len(h)
            /\ Items(t) = Items(Tail(h)) \cup {i} /\ Ascends(t)
        <3> DEFINE u == Tail(h)
        <3>1. u \in Seq(EventID) /\ Ascends(u) /\ (\A x \in Items(u) : x < i) /\ t = Append(u, i)
          BY <2>1, <2>2
        <3>2. Len(u) = Len(h) - 1
          BY <2>2
        <3> HIDE DEF u, t
        <3>3. t \in Seq(EventID) /\ t # <<>> /\ Items(t) = Items(u) \cup {i} /\ Ascends(t)
          BY <3>1, ItemsAppend, AscendsAppend
        <3>4. Len(t) = Len(u) + 1
          BY <3>1, AppendProperties
        <3> QED
          BY <1>1, <3>2, <3>3, <3>4 DEF u
      <2>4. t[1] \in Items(t) /\ t[1] \in EventID /\ h[1] \in EventID /\ h[1] < i
        BY <1>2, <2>1, <2>3
      <2>5. h[1] < t[1]
        BY <2>2, <2>3, <2>4
      <2>6. \A x \in Items(h) : x >= t[1] => x \in Items(t)
        BY <2>2, <2>3, <2>4, <2>5 DEF EventID
      <2> QED
        BY <1>1, <1>4, <2>1, <2>2, <2>3, <2>4, <2>5, <2>6 DEF EventID
    <1> QED
      BY <1>3, <1>4

\* A full channel loses an event only for a resync.
LEMMA EnqueueFacts ==
    ASSUME NEW c \in Seq(StreamEvent), NEW i \in EventID, Len(c) <= BufferSize,
           Ordered(c), \A e \in Items(c) : e.id < i
    PROVE  LET t == Enqueue(c, i)
           IN  /\ t \in Seq(StreamEvent) /\ Len(t) <= BufferSize /\ Ordered(t)
               /\ Items(t) \subseteq Items(c) \cup {Changed(i), ResyncAt(i)}
               /\ \/ Items(t) = Items(c) \cup {Changed(i)}
                  \/ ResyncAt(i) \in Items(t)
    <1> DEFINE t == Enqueue(c, i)
    <1>1. BufferSize \in Nat \ {0} /\ Len(c) \in Nat
      BY RealtimeAssumption, LenProperties
    <1>2. Changed(i) \in StreamEvent /\ ResyncAt(i) \in StreamEvent
      BY DEF Changed, ResyncAt, StreamEvent, EventID
    <1>3. Changed(i).id = i /\ ResyncAt(i).id = i
      BY DEF Changed, ResyncAt
    <1>4. CASE Len(c) < BufferSize
      <2>1. t = Append(c, Changed(i))
        BY <1>4 DEF Enqueue
      <2>2. /\ t \in Seq(StreamEvent) /\ Len(t) = Len(c) + 1 /\ Items(t) = Items(c) \cup {Changed(i)}
            /\ Ordered(t)
        BY <1>2, <1>3, <2>1, ItemsAppend, AppendProperties, OrderedAppend
      <2> QED
        BY <1>1, <1>4, <2>2
    <1>5. CASE ~(Len(c) < BufferSize)
      <2>1. t = Append(Tail(c), ResyncAt(i)) /\ c # <<>>
        BY <1>1, <1>5, EmptySeq DEF Enqueue
      <2>2. /\ Tail(c) \in Seq(StreamEvent) /\ Len(Tail(c)) = Len(c) - 1
            /\ Items(Tail(c)) \subseteq Items(c) /\ Ordered(Tail(c))
        BY <2>1, ItemsTail, HeadTailProperties, OrderedTail
      <2>3. /\ t \in Seq(StreamEvent) /\ Len(t) = Len(c) /\ Items(t) = Items(Tail(c)) \cup {ResyncAt(i)}
            /\ Ordered(t)
        <3> DEFINE u == Tail(c)
                   e == ResyncAt(i)
        <3>1. /\ u \in Seq(StreamEvent) /\ Ordered(u) /\ t = Append(u, e) /\ e \in StreamEvent
              /\ \A f \in Items(u) : f.id < e.id
          BY <1>2, <1>3, <2>1, <2>2
        <3>2. Len(u) = Len(c) - 1
          BY <2>2
        <3> HIDE DEF u, t, e
        <3>3. t \in Seq(StreamEvent) /\ Items(t) = Items(u) \cup {e} /\ Ordered(t)
          BY <3>1, ItemsAppend, OrderedAppend
        <3>4. Len(t) = Len(u) + 1
          BY <3>1, AppendProperties
        <3> QED
          BY <1>1, <3>2, <3>3, <3>4 DEF u, e
      <2> QED
        BY <1>1, <1>5, <2>2, <2>3
    <1> QED
      BY <1>4, <1>5

\* A replay has the later events of the history and no others, in their order.
LEMMA ReplayFacts ==
    ASSUME NEW i \in Nat, history \in Seq(EventID), Ascends(history)
    PROVE  LET r == ReplayAfter(i)
           IN  /\ r \in Seq(StreamEvent) /\ Ordered(r)
               /\ \A e \in Items(r) : ~e.resync /\ e.id > i /\ e.id \in Items(history)
               /\ \A x \in Items(history) : x > i => \E e \in Items(r) : e.id = x
    <1> DEFINE n == Len(history)
               Later(k) == \A j \in 1 .. n : history[j] > i <=> j >= k
               first == CHOOSE k \in 1 .. n + 1 : Later(k)
               r == [k \in 1 .. n + 1 - first |-> Changed(history[first + k - 1])]
    <1>1. n \in Nat /\ MaxEventID \in Nat /\ \A j \in 1 .. n : history[j] \in EventID
      BY RealtimeAssumption, LenProperties, ElementOfSeq
    <1>2. \E k \in 1 .. n + 1 : Later(k)
      <2> DEFINE T == {k \in 1 .. n + 1 : k = n + 1 \/ history[k] > i}
      <2>1. T \subseteq Nat /\ n + 1 \in T
        BY <1>1
      <2>2. PICK k \in T : \A j \in T : k <= j
        BY <2>1, LeastNatural
      <2>3. k \in 1 .. n + 1 /\ (k = n + 1 \/ history[k] > i)
        OBVIOUS
      <2>4. ASSUME NEW j \in 1 .. n, history[j] > i PROVE j >= k
        <3>1. j \in T
          BY <1>1, <2>4
        <3>2. k \in Nat
          BY <2>1
        <3> QED
          BY <2>2, <3>1, <3>2
      <2>5. ASSUME NEW j \in 1 .. n, j >= k PROVE history[j] > i
        <3>1. k \in 1 .. n /\ history[k] > i
          BY <1>1, <2>3, <2>5
        <3>2. k = j \/ history[k] < history[j]
          BY <1>1, <2>5, <3>1 DEF Ascends
        <3> QED
          BY <1>1, <3>1, <3>2 DEF EventID
      <2> QED
        BY <2>3, <2>4, <2>5
    <1>3. first \in 1 .. n + 1 /\ Later(first)
      BY <1>2
    <1>4. ReplayAfter(i) = r
      BY DEF ReplayAfter
    <1> HIDE DEF first
    <1>5. n + 1 - first \in Nat
      BY <1>1, <1>3
    <1>6. ASSUME NEW k \in 1 .. n + 1 - first
          PROVE  first + k - 1 \in 1 .. n /\ first + k - 1 >= first
      BY <1>1, <1>3
    <1>7. \A x \in EventID : Changed(x) \in StreamEvent
      BY DEF EventID, Changed, StreamEvent
    <1>8. /\ r \in Seq(StreamEvent) /\ Len(r) = n + 1 - first
          /\ \A k \in 1 .. n + 1 - first : r[k] = Changed(history[first + k - 1])
      <2>1. \A k \in 1 .. n + 1 - first : Changed(history[first + k - 1]) \in StreamEvent
        BY <1>1, <1>6, <1>7
      <2>2. r \in Seq(StreamEvent)
        BY <1>5, <2>1, IsASeq
      <2>3. Len(r) = n + 1 - first
        BY <1>5
      <2> QED
        BY <2>2, <2>3
    <1> HIDE DEF r
    <1>9. Ordered(r)
      <2>1. ASSUME NEW k \in 1 .. Len(r), NEW l \in 1 .. Len(r), k < l
            PROVE  r[k].id < r[l].id
        <3>1. first + k - 1 < first + l - 1
          BY <1>1, <1>3, <1>8, <2>1
        <3>2. history[first + k - 1] < history[first + l - 1]
          BY <1>6, <1>8, <3>1 DEF Ascends
        <3> QED
          BY <1>8, <3>2 DEF Changed
      <2> QED
        BY <2>1 DEF Ordered
    <1>10. ASSUME NEW e \in Items(r) PROVE ~e.resync /\ e.id > i /\ e.id \in Items(history)
      <2>1. PICK k \in 1 .. n + 1 - first : e = Changed(history[first + k - 1])
        BY <1>8 DEF Items
      <2>2. first + k - 1 \in 1 .. n /\ history[first + k - 1] > i
        BY <1>3, <1>6
      <2>3. history[first + k - 1] \in Items(history)
        BY <2>2, ItemsFacts
      <2> QED
        BY <2>1, <2>2, <2>3 DEF Changed
    <1>11. ASSUME NEW x \in Items(history), x > i PROVE \E e \in Items(r) : e.id = x
      <2>1. PICK j \in 1 .. n : x = history[j]
        BY DEF Items
      <2>2. j >= first
        BY <1>3, <1>11, <2>1
      <2> DEFINE k == j - first + 1
      <2>3. k \in 1 .. n + 1 - first /\ first + k - 1 = j
        BY <1>1, <1>3, <2>2
      <2> HIDE DEF k
      <2>4. r[k] = Changed(x) /\ r[k] \in Items(r)
        BY <1>8, <2>1, <2>3, ItemsFacts
      <2> QED
        BY <2>4 DEF Changed
    <1> QED
      BY <1>4, <1>8, <1>9, <1>10, <1>11

-----------------------------------------------------------------------------
(* RealtimeBroker: the steps keep the invariant.                           *)

LEMMA RealtimeTyped ==
    ASSUME RealtimeTypeOK
    PROVE  /\ nextID \in Nat /\ MaxEventID \in Nat /\ severed \in Nat
           /\ \A v \in Viewer :
                /\ backlog[v] \in Seq(StreamEvent) /\ channel[v] \in Seq(StreamEvent)
                /\ Items(backlog[v]) \subseteq StreamEvent /\ Items(channel[v]) \subseteq StreamEvent
                /\ lastID[v] \in Nat /\ foreign[v] \in BOOLEAN
                /\ owed[v] \subseteq Nat /\ owed[v] \subseteq 0 .. MaxEventID
           /\ history # <<>> => history[1] \in EventID
           /\ Items(history) \subseteq EventID
    <1>1. nextID \in Nat /\ MaxEventID \in Nat /\ severed \in Nat
      BY RealtimeAssumption DEF RealtimeTypeOK
    <1>2. ASSUME NEW v \in Viewer
          PROVE  /\ backlog[v] \in Seq(StreamEvent) /\ channel[v] \in Seq(StreamEvent)
                 /\ lastID[v] \in Nat /\ foreign[v] \in BOOLEAN
                 /\ owed[v] \subseteq Nat /\ owed[v] \subseteq 0 .. MaxEventID
      BY <1>1 DEF RealtimeTypeOK
    <1>3. \A v \in Viewer : Items(backlog[v]) \subseteq StreamEvent /\ Items(channel[v]) \subseteq StreamEvent
      BY <1>2, ItemsFacts
    <1>4. history # <<>> => history[1] \in EventID
      BY ItemsTail DEF RealtimeTypeOK
    <1>5. Items(history) \subseteq EventID
      BY ItemsFacts DEF RealtimeTypeOK
    <1> QED
      BY <1>1, <1>2, <1>3, <1>4, <1>5

LEMMA NothingToItems == Items(<<>>) = {} /\ Ordered(<<>>) /\ Ascends(<<>>)
    <1>1. <<>> \in Seq(StreamEvent) /\ 1 .. Len(<<>>) = {}
      BY EmptySeq
    <1> QED
      BY <1>1 DEF Items, Ordered, Ascends

\* A viewer is not touched by the others, by time, or by events elsewhere.
LEMMA ViewerKept ==
    ASSUME RealtimeTypeOK, NEW v \in Viewer, ViewerInv(v),
           UNCHANGED <<stream[v], backlog[v], channel[v], lastID[v], foreign[v], owed[v]>>,
           nextID' \in {nextID, nextID + 1}, brokerOpen' = brokerOpen, history' \in {history, <<>>}
    PROVE  ViewerInv(v)'
    <1>1. /\ nextID \in Nat /\ lastID[v] \in Nat /\ owed[v] \subseteq Nat
          /\ \A e \in ToCome(v) : e.id \in Nat
      BY RealtimeTyped DEF ToCome, StreamEvent
    <1>2. QueueInv(v)'
      <2>1. \A e \in ToCome(v) : e.id <= nextID'
        BY <1>1 DEF ViewerInv, QueueInv
      <2>2. Items(backlog[v])' = Items(backlog[v]) /\ Items(channel[v])' = Items(channel[v])
        BY DEF Items
      <2>3. ToCome(v)' = ToCome(v) /\ Warned(v)' = Warned(v)
        BY <2>2 DEF ToCome, Warned
      <2>4. Ordered(backlog[v])' /\ Ordered(channel[v])'
        BY DEF ViewerInv, QueueInv, Ordered
      <2> QED
        BY <2>1, <2>2, <2>3, <2>4 DEF ViewerInv, QueueInv
    <1>3. Items(channel[v])' = Items(channel[v]) /\ Items(backlog[v])' = Items(backlog[v])
      BY DEF Items
    <1>4. OwedInv(v)'
      <2>1. /\ \A i \in owed[v] : i <= nextID'
            /\ ~foreign[v] => lastID[v] <= nextID'
        BY <1>1 DEF ViewerInv, OwedInv
      <2>2. Own(v)' = Own(v) /\ Warned(v)' = Warned(v)
        BY DEF Own, Warned
      <2> QED
        BY <1>3, <2>1, <2>2 DEF ViewerInv, OwedInv, Items
    <1>5. Covered(v)' = Covered(v)
      BY <1>3 DEF Covered, ToCome
    <1> QED
      BY <1>2, <1>4, <1>5 DEF ViewerInv

\* A stream ends, and what is still owed is what the history has.
LEMMA LeavesKeeps ==
    ASSUME RealtimeTypeOK, HistoryInv, NEW v \in Viewer, ViewerInv(v), Leaves(v),
           UNCHANGED <<brokerOpen, nextID, lastID, foreign>>, history' \in {history, <<>>}
    PROVE  ViewerInv(v)'
    <1>1. /\ stream'[v] = "away" /\ backlog'[v] = <<>> /\ channel'[v] = <<>>
          /\ owed'[v] = IF lastID[v] = 0 \/ foreign[v] THEN {}
                        ELSE IF \E e \in Items(channel[v]) : e.resync THEN owed[v] \ (1 .. lastID[v])
                        ELSE owed[v]
      BY DEF Leaves, RealtimeTypeOK
    <1>2. lastID[v] \in Nat /\ owed[v] \subseteq Nat
      BY RealtimeTyped
    <1>3. QueueInv(v)'
      BY <1>1, NothingToItems DEF QueueInv, Ordered, ToCome, Items
    <1>4. owed'[v] \subseteq owed[v] /\ Own(v)' = Own(v) /\ (~Own(v) => owed'[v] = {})
      BY <1>1 DEF Own
    <1>5. ASSUME Own(v), history' # <<>>, lastID[v] >= history[1]
          PROVE  0 \notin owed'[v] /\ \A i \in owed'[v] : i > lastID[v]
      <2>1. history # <<>>
        BY <1>5
      <2>2. 0 \notin owed[v]
        BY <1>5, <2>1 DEF ViewerInv, OwedInv
      <2>3. CASE \A i \in owed[v] : i > lastID[v]
        BY <1>4, <2>2, <2>3
      <2>4. CASE \E e \in Items(channel[v]) : e.resync
        <3>1. owed'[v] \subseteq owed[v] \ (1 .. lastID[v])
          BY <1>1, <2>4
        <3> QED
          BY <1>2, <2>2, <3>1
      <2> QED
        BY <1>5, <2>1, <2>3, <2>4 DEF ViewerInv, OwedInv
    <1>6. OwedInv(v)'
      <2>1. /\ \A i \in owed'[v] : i <= nextID'
            /\ ~foreign'[v] => lastID'[v] <= nextID'
            /\ \A i \in owed'[v] : history' # <<>> /\ i >= history'[1] => i \in Items(history)'
        BY <1>4 DEF ViewerInv, OwedInv, Items
      <2>2. history' # <<>> => history' = history
        OBVIOUS
      <2> QED
        BY <1>1, <1>4, <1>5, <2>1, <2>2 DEF OwedInv
    <1> QED
      BY <1>1, <1>3, <1>6 DEF ViewerInv

\* The next event is written, be it of the replay or of the subscription.
LEMMA ReceiveKeeps ==
    ASSUME RealtimeTypeOK, HistoryInv, NEW v \in Viewer, ViewerInv(v),
           stream[v] \in {"subscribed", "draining"},
           NEW e \in StreamEvent, Receive(v, e),
           UNCHANGED <<brokerOpen, nextID, history, stream>>,
           \/ /\ backlog[v] # <<>> /\ e = Head(backlog[v])
              /\ backlog'[v] = Tail(backlog[v]) /\ channel'[v] = channel[v]
           \/ /\ backlog[v] = <<>> /\ channel[v] # <<>> /\ e = Head(channel[v])
              /\ backlog'[v] = backlog[v] /\ channel'[v] = Tail(channel[v])
    PROVE  ViewerInv(v)'
    <1> DEFINE B == backlog[v]
               C == channel[v]
               Rest == Items(backlog'[v]) \cup Items(channel'[v])
    <1>1. /\ nextID \in Nat /\ lastID[v] \in Nat /\ foreign[v] \in BOOLEAN /\ owed[v] \subseteq Nat
          /\ B \in Seq(StreamEvent) /\ C \in Seq(StreamEvent)
          /\ Items(B) \subseteq StreamEvent /\ Items(C) \subseteq StreamEvent
      BY RealtimeTyped
    <1>2. /\ lastID'[v] = IF e.id = 0 THEN lastID[v] ELSE e.id
          /\ foreign'[v] = (foreign[v] /\ e.id = 0)
          /\ owed'[v] = IF e.resync THEN {} ELSE owed[v] \ {e.id}
      BY DEF Receive, RealtimeTypeOK
    <1>3. /\ Ordered(backlog'[v]) /\ Ordered(channel'[v])
          /\ Items(backlog'[v]) \subseteq Items(B) /\ Items(channel'[v]) \subseteq Items(C)
          /\ ToCome(v) = Rest \cup {e}
          /\ \A f \in Rest : e.id < f.id
      <2>1. Ordered(B) /\ Ordered(C) /\ \A f \in Items(B), g \in Items(C) : f.id < g.id
        BY DEF ViewerInv, QueueInv
      <2>2. CASE B # <<>> /\ e = Head(B) /\ backlog'[v] = Tail(B) /\ channel'[v] = C
        <3>1. Items(B) = Items(Tail(B)) \cup {e} /\ Ordered(Tail(B)) /\ \A f \in Items(Tail(B)) : e.id < f.id
          BY <1>1, <2>1, <2>2, ItemsTail, OrderedTail
        <3> QED
          BY <2>1, <2>2, <3>1 DEF ToCome
      <2>3. CASE B = <<>> /\ C # <<>> /\ e = Head(C) /\ backlog'[v] = B /\ channel'[v] = Tail(C)
        <3>1. Items(C) = Items(Tail(C)) \cup {e} /\ Ordered(Tail(C)) /\ \A f \in Items(Tail(C)) : e.id < f.id
          BY <1>1, <2>1, <2>3, ItemsTail, OrderedTail
        <3> QED
          BY <2>1, <2>3, <3>1, NothingToItems DEF ToCome
      <2> QED
        BY <2>2, <2>3
    <1>4. e \in ToCome(v) /\ e.id \in Nat /\ e.id <= nextID /\ e.resync \in BOOLEAN
      BY <1>3 DEF ViewerInv, QueueInv, StreamEvent
    <1>5. Warned(v) => backlog'[v] = <<>> /\ e.resync
      <2>1. ASSUME Warned(v) PROVE backlog'[v] = <<>> /\ e = ResyncAt(0)
        <3>1. <<ResyncAt(0)>> # <<>> /\ Head(<<ResyncAt(0)>>) = ResyncAt(0) /\ Tail(<<ResyncAt(0)>>) = <<>>
          OBVIOUS
        <3> QED
          BY <2>1, <3>1 DEF Warned
      <2> QED
        BY <2>1 DEF ResyncAt
    <1>6. ~Warned(v) => e.id > 0
      <2>1. e \in Items(B) \/ e \in Items(C)
        BY <1>4 DEF ToCome
      <2> QED
        BY <2>1 DEF ViewerInv, QueueInv
    <1>7. QueueInv(v)'
      <2>1. Warned(v)' \/ \A f \in Items(backlog'[v]) : f.id > 0 /\ ~f.resync
        BY <1>3, <1>5, NothingToItems DEF ViewerInv, QueueInv
      <2>2. /\ \A f \in Items(channel'[v]) : f.id > 0
            /\ \A f \in Items(backlog'[v]), g \in Items(channel'[v]) : f.id < g.id
            /\ \A f \in Rest : f.id <= nextID'
        BY <1>3 DEF ViewerInv, QueueInv
      <2> QED
        BY <1>3, <2>1, <2>2 DEF QueueInv, ToCome, Ordered, Items
    <1>8. owed'[v] \subseteq owed[v]
      BY <1>2
    <1>9. ASSUME stream[v] = "subscribed", ~e.resync
          PROVE  /\ 0 \notin owed'[v] /\ e.id > 0
                 /\ \/ \E f \in Items(channel'[v]) : f.resync
                    \/ owed'[v] \subseteq {f.id : f \in Rest}
      <2>1. ~Warned(v) /\ 0 \notin owed'[v] /\ e.id > 0
        BY <1>5, <1>6, <1>8, <1>9 DEF ViewerInv, OwedInv
      <2>2. CASE \E f \in ToCome(v) : f.resync
        <3>1. PICK f \in Rest : f.resync
          BY <1>3, <1>9, <2>2
        <3>2. f \notin Items(B)
          BY <2>1, <3>1 DEF ViewerInv, QueueInv
        <3> QED
          BY <1>3, <2>1, <3>1, <3>2
      <2>3. CASE owed[v] \subseteq {f.id : f \in ToCome(v)}
        <3>1. ASSUME NEW i \in owed'[v] PROVE \E f \in Rest : i = f.id
          <4>1. i \in owed[v] /\ i # e.id
            BY <1>2, <1>9
          <4> QED
            BY <1>3, <2>3, <4>1
        <3> QED
          BY <2>1, <3>1
      <2> QED
        BY <1>9, <2>2, <2>3 DEF ViewerInv, Covered
    <1>10. stream'[v] = "subscribed" => Covered(v)'
      <2>1. ToCome(v)' = Rest
        BY DEF ToCome, Items
      <2>2. stream[v] = "subscribed" => \/ \E f \in Rest : f.resync
                                        \/ owed'[v] \subseteq {f.id : f \in Rest}
        <3>1. CASE e.resync
          BY <1>2, <3>1
        <3>2. CASE ~e.resync
          BY <1>9, <3>2
        <3> QED
          BY <3>1, <3>2
      <2> QED
        BY <2>1, <2>2 DEF Covered
    <1>11. OwedInv(v)'
      <2>1. \A i \in owed'[v] : i <= nextID'
        BY <1>8 DEF ViewerInv, OwedInv
      <2>2. ~foreign'[v] => lastID'[v] <= nextID'
        BY <1>2, <1>4 DEF ViewerInv, OwedInv
      <2>3. stream'[v] = "subscribed" => 0 \notin owed'[v]
        BY <1>2, <1>9
      <2>4. stream'[v] # "away" /\ (stream'[v] = "draining" => ~brokerOpen')
        BY DEF ViewerInv, OwedInv
      <2>5. history' # <<>> => \A i \in owed'[v] : i >= history'[1] => i \in Items(history)'
        BY <1>8 DEF ViewerInv, OwedInv, Items
      <2>6. ASSUME history' # <<>>
            PROVE  /\ 0 \notin owed'[v]
                   /\ \/ \A i \in owed'[v] : i > lastID'[v]
                      \/ stream'[v] = "subscribed" /\ \E f \in Items(channel'[v]) : f.resync
        <3>1. stream[v] = "subscribed"
          BY <2>6 DEF ViewerInv, OwedInv, HistoryInv
        <3>2. CASE e.resync
          BY <1>2, <3>2
        <3>3. CASE ~e.resync
          <4>1. lastID'[v] = e.id
            BY <1>2, <1>9, <3>1, <3>3, <1>4
          <4>2. owed'[v] \subseteq {f.id : f \in Rest} => \A i \in owed'[v] : i > lastID'[v]
            BY <1>3, <4>1
          <4> QED
            BY <1>9, <3>1, <3>3, <4>2
        <3> QED
          BY <3>2, <3>3
      <2>7. Items(channel[v])' = Items(channel'[v])
        BY DEF Items
      <2> QED
        BY <2>1, <2>2, <2>3, <2>4, <2>5, <2>6, <2>7 DEF OwedInv
    <1> QED
      BY <1>7, <1>10, <1>11 DEF ViewerInv

\* A viewer that subscribes is replayed what it is owed, or is told to reload.
LEMMA SubscribeKeeps ==
    ASSUME RealtimeInv, NEW v \in Viewer, Subscribe(v)
    PROVE  ViewerInv(v)'
    <1> DEFINE B == backlog'[v]
    <1>1. /\ RealtimeTypeOK /\ HistoryInv /\ ViewerInv(v)
          /\ history \in Seq(EventID) /\ Ascends(history)
      BY DEF RealtimeInv, HistoryInv, RealtimeTypeOK
    <1>2. /\ nextID \in Nat /\ lastID[v] \in Nat /\ foreign[v] \in BOOLEAN /\ owed[v] \subseteq Nat
          /\ Items(history) \subseteq EventID
      BY <1>1, RealtimeTyped
    <1>3. /\ stream[v] = "away" /\ stream'[v] = "subscribed" /\ channel'[v] = <<>>
          /\ UNCHANGED <<brokerOpen, nextID, history, lastID, foreign, owed>>
          /\ B = IF lastID[v] = 0 THEN <<>>
                 ELSE IF Missed(lastID[v]) THEN <<ResyncAt(0)>>
                 ELSE ReplayAfter(lastID[v])
      BY <1>1 DEF Subscribe, RealtimeTypeOK, ViewerInv, QueueInv
    <1> HIDE DEF B
    <1>4. /\ ~Own(v) => owed[v] = {}
          /\ Own(v) /\ history # <<>> /\ lastID[v] >= history[1] =>
               0 \notin owed[v] /\ \A i \in owed[v] : i > lastID[v]
      BY <1>1, <1>3 DEF ViewerInv, OwedInv
    <1>5. /\ Ordered(B)
          /\ \A e \in Items(B) : e.id <= nextID
          /\ \/ B = <<ResyncAt(0)>>
             \/ /\ \A e \in Items(B) : e.id > 0 /\ ~e.resync
                /\ 0 \notin owed[v] /\ owed[v] \subseteq {e.id : e \in Items(B)}
      <2>1. CASE lastID[v] = 0
        <3>1. owed[v] = {}
          BY <1>4, <2>1 DEF Own
        <3> QED
          BY <1>3, <2>1, <3>1, NothingToItems
      <2>2. CASE lastID[v] # 0 /\ Missed(lastID[v])
        <3>1. B = <<ResyncAt(0)>>
          BY <1>3, <2>2
        <3>2. Len(B) = 1 /\ B[1] = ResyncAt(0) /\ ResyncAt(0).id = 0
          BY <3>1 DEF ResyncAt
        <3> QED
          BY <1>2, <3>1, <3>2 DEF Items, Ordered
      <2>3. CASE lastID[v] # 0 /\ ~Missed(lastID[v])
        <3>1. B = ReplayAfter(lastID[v])
          BY <1>3, <2>3
        <3>2. history # <<>> /\ history[1] \in EventID /\ lastID[v] >= history[1]
          BY <1>1, <1>2, <2>3, ItemsTail DEF Missed, EventID
        <3>3. /\ Ordered(B)
              /\ \A e \in Items(B) : ~e.resync /\ e.id > lastID[v] /\ e.id \in Items(history)
              /\ \A x \in Items(history) : x > lastID[v] => \E e \in Items(B) : e.id = x
          BY <1>1, <1>2, <3>1, ReplayFacts
        <3>4. \A e \in Items(B) : e.id <= nextID /\ e.id > 0 /\ ~e.resync
          BY <1>1, <1>2, <3>3 DEF HistoryInv, EventID
        <3>5. 0 \notin owed[v] /\ \A i \in owed[v] : i > lastID[v]
          BY <1>4, <3>2
        <3>6. ASSUME NEW i \in owed[v] PROVE \E e \in Items(B) : e.id = i
          <4>1. i > lastID[v] /\ i >= history[1]
            BY <1>2, <3>2, <3>5 DEF EventID
          <4>2. i \in Items(history)
            BY <1>1, <3>2, <4>1 DEF ViewerInv, OwedInv
          <4> QED
            BY <3>3, <4>1, <4>2
        <3> QED
          BY <3>3, <3>4, <3>5, <3>6
      <2> QED
        BY <2>1, <2>2, <2>3
    <1>6. B = <<ResyncAt(0)>> => ResyncAt(0) \in Items(B) /\ ResyncAt(0).resync
      <2>1. ASSUME B = <<ResyncAt(0)>> PROVE Len(B) = 1 /\ B[1] = ResyncAt(0)
        BY <2>1
      <2>2. ASSUME B = <<ResyncAt(0)>> PROVE ResyncAt(0) \in Items(B)
        BY <2>1, <2>2 DEF Items
      <2> QED
        BY <2>2 DEF ResyncAt
    <1>7. Items(backlog[v])' = Items(B) /\ Items(channel[v])' = {} /\ Ordered(channel'[v])
      BY <1>3, NothingToItems DEF Items, B
    <1>8. QueueInv(v)'
      <2>1. /\ Ordered(backlog[v])' /\ Ordered(channel[v])'
            /\ (Warned(v)' <=> B = <<ResyncAt(0)>>)
        BY <1>5, <1>7 DEF B, Warned, Ordered
      <2> QED
        BY <1>3, <1>5, <1>7, <2>1 DEF QueueInv, ToCome
    <1>9. OwedInv(v)'
      <2>1. Own(v)' = Own(v) /\ Items(history)' = Items(history) /\ (Warned(v)' <=> B = <<ResyncAt(0)>>)
        BY <1>3 DEF Own, B, Warned, Items
      <2>2. /\ \A i \in owed'[v] : i <= nextID'
            /\ ~foreign'[v] => lastID'[v] <= nextID'
            /\ history' # <<>> => \A i \in owed'[v] : i >= history'[1] => i \in Items(history)'
        BY <1>1, <1>3, <2>1 DEF ViewerInv, OwedInv
      <2>3. 0 \in owed'[v] => Warned(v)'
        BY <1>3, <1>5, <2>1
      <2> QED
        BY <1>3, <1>4, <2>1, <2>2, <2>3 DEF OwedInv
    <1>10. Covered(v)'
      BY <1>3, <1>5, <1>6, <1>7 DEF Covered, ToCome
    <1> QED
      BY <1>8, <1>9, <1>10 DEF ViewerInv

\* An event reaches a viewer's channel, or a resync takes its place there.
LEMMA PublishKeeps ==
    ASSUME RealtimeInv, NEW v \in Viewer, Publish
    PROVE  ViewerInv(v)' /\ channel'[v] \in Seq(StreamEvent) /\ Len(channel'[v]) <= BufferSize
    <1> DEFINE i == nextID + 1
               C == channel[v]
               D == channel'[v]
    <1>1. /\ RealtimeTypeOK /\ HistoryInv /\ ViewerInv(v)
          /\ history \in Seq(EventID) /\ Len(history) <= HistoryLimit /\ Len(C) <= BufferSize
      BY DEF RealtimeInv, RealtimeTypeOK
    <1>2. /\ nextID \in Nat /\ lastID[v] \in Nat /\ foreign[v] \in BOOLEAN /\ owed[v] \subseteq Nat
          /\ Items(history) \subseteq EventID /\ C \in Seq(StreamEvent)
          /\ \A e \in ToCome(v) : e.id \in Nat
      <2>1. ToCome(v) \subseteq StreamEvent
        BY <1>1, RealtimeTyped DEF ToCome
      <2>2. \A e \in ToCome(v) : e.id \in Nat
        BY <2>1 DEF StreamEvent
      <2> QED
        BY <1>1, <2>2, RealtimeTyped
    <1>3. /\ brokerOpen /\ i \in EventID /\ nextID' = i
          /\ history' = Remembered(history, i)
          /\ D = IF stream[v] = "subscribed" THEN Enqueue(C, i) ELSE C
          /\ owed'[v] = IF stream[v] = "subscribed" \/ Own(v) THEN owed[v] \cup {i} ELSE owed[v]
          /\ UNCHANGED <<brokerOpen, stream, backlog, lastID, foreign>>
      BY <1>1, <1>2, RealtimeAssumption
      DEF Publish, Owe, Promised, Subscribed, Own, EventID, RealtimeTypeOK
    <1>4. /\ history' # <<>> /\ history'[1] \in EventID
          /\ Items(history') \subseteq Items(history) \cup {i} /\ i \in Items(history')
          /\ \A x \in Items(history) : x >= history'[1] => x \in Items(history')
          /\ IF history = <<>> THEN history'[1] = i
             ELSE history[1] \in EventID /\ history[1] <= history'[1]
      <2>1. Ascends(history) /\ \A x \in Items(history) : x < i
        BY <1>1, <1>2 DEF HistoryInv, EventID
      <2> QED
        BY <1>1, <1>3, <2>1, RememberedFacts
    <1>5. /\ D \in Seq(StreamEvent) /\ Len(D) <= BufferSize /\ Ordered(D)
          /\ \A e \in Items(D) : e \in Items(C) \/ e.id = i
          /\ \/ Items(C) \subseteq Items(D)
             \/ \E e \in Items(D) : e.resync
          /\ stream[v] = "subscribed" => \/ \E e \in Items(D) : e.id = i
                                         \/ \E e \in Items(D) : e.resync
      <2>1. CASE stream[v] = "subscribed"
        <3>1. Ordered(C) /\ \A e \in Items(C) : e.id < i
          BY <1>1, <1>2 DEF ViewerInv, QueueInv, ToCome
        <3>2. /\ D \in Seq(StreamEvent) /\ Len(D) <= BufferSize /\ Ordered(D)
              /\ Items(D) \subseteq Items(C) \cup {Changed(i), ResyncAt(i)}
              /\ \/ Items(D) = Items(C) \cup {Changed(i)}
                 \/ ResyncAt(i) \in Items(D)
          BY <1>1, <1>2, <1>3, <2>1, <3>1, EnqueueFacts
        <3>3. Changed(i).id = i /\ ResyncAt(i).id = i /\ ResyncAt(i).resync
          BY DEF Changed, ResyncAt
        <3> HIDE DEF i, C, D
        <3> QED
          BY <3>2, <3>3
      <2>2. CASE stream[v] # "subscribed"
        BY <1>1, <1>2, <1>3, <2>2 DEF ViewerInv, QueueInv
      <2> QED
        BY <2>1, <2>2
    <1> HIDE DEF D
    <1>6. /\ Items(backlog[v])' = Items(backlog[v]) /\ Items(channel[v])' = Items(D)
          /\ Items(history)' = Items(history')
          /\ Own(v)' = Own(v) /\ Warned(v)' = Warned(v)
      BY <1>3 DEF Items, Own, Warned, D
    <1>7. QueueInv(v)'
      <2>1. Ordered(backlog[v])' /\ Ordered(channel[v])'
        BY <1>1, <1>3, <1>5 DEF ViewerInv, QueueInv, Ordered, D
      <2>2. /\ \A e \in Items(D) : e.id > 0 /\ e.id <= i
            /\ \A e \in Items(backlog[v]) : e.id <= i /\ \A f \in Items(D) : e.id < f.id
        BY <1>1, <1>2, <1>5 DEF ViewerInv, QueueInv, ToCome
      <2>3. stream'[v] \in {"away", "failed"} => backlog'[v] = <<>> /\ channel'[v] = <<>>
        BY <1>1, <1>3 DEF ViewerInv, QueueInv, D
      <2>4. Warned(v)' \/ \A e \in Items(backlog[v])' : e.id > 0 /\ ~e.resync
        BY <1>1, <1>6 DEF ViewerInv, QueueInv
      <2> QED
        BY <1>3, <1>6, <2>1, <2>2, <2>3, <2>4 DEF QueueInv, ToCome
    <1>8. ASSUME NEW j \in owed'[v] PROVE j = i \/ (j \in owed[v] /\ j <= nextID /\ j \in Nat)
      BY <1>1, <1>2, <1>3 DEF ViewerInv, OwedInv
    <1>9. OwedInv(v)'
      <2>1. \A j \in owed'[v] : j <= nextID'
        BY <1>2, <1>3, <1>8
      <2>2. ~foreign'[v] => lastID'[v] <= nextID' /\ lastID[v] < i
        BY <1>1, <1>2, <1>3 DEF ViewerInv, OwedInv
      <2>3. (stream'[v] = "draining" => ~brokerOpen') /\ (stream'[v] = "away" /\ ~Own(v)' => owed'[v] = {})
        BY <1>1, <1>3, <1>6 DEF ViewerInv, OwedInv
      <2>4. stream'[v] = "subscribed" /\ 0 \in owed'[v] => Warned(v)'
        BY <1>1, <1>2, <1>3, <1>6, <1>8 DEF ViewerInv, OwedInv
      <2>5. ASSUME NEW j \in owed'[v], j >= history'[1] PROVE j \in Items(history')
        <3>1. CASE j = i
          BY <1>4, <3>1
        <3>2. CASE j # i
          <4>1. j \in owed[v] /\ j <= nextID /\ j \in Nat
            BY <1>8, <3>2
          <4>2. history # <<>> /\ j >= history[1]
            BY <1>2, <1>4, <2>5, <4>1 DEF EventID
          <4> QED
            BY <1>1, <1>4, <2>5, <4>1, <4>2 DEF ViewerInv, OwedInv
        <3> QED
          BY <3>1, <3>2
      <2>6. ASSUME Own(v), lastID[v] >= history'[1]
            PROVE  /\ 0 \notin owed'[v]
                   /\ \/ \A j \in owed'[v] : j > lastID[v]
                      \/ stream[v] = "subscribed" /\ \E e \in Items(D) : e.resync
        <3>1. lastID[v] < i
          BY <2>2, <2>6, <1>3 DEF Own
        <3>2. history # <<>> /\ lastID[v] >= history[1]
          BY <1>2, <1>4, <2>6, <3>1 DEF EventID
        <3>3. /\ 0 \notin owed[v]
              /\ \/ \A j \in owed[v] : j > lastID[v]
                 \/ stream[v] = "subscribed" /\ \E e \in Items(C) : e.resync
          BY <1>1, <2>6, <3>2 DEF ViewerInv, OwedInv
        <3>4. 0 \notin owed'[v]
          BY <1>2, <1>8, <3>3
        <3>5. CASE \A j \in owed[v] : j > lastID[v]
          BY <1>8, <3>1, <3>4, <3>5
        <3>6. CASE stream[v] = "subscribed" /\ \E e \in Items(C) : e.resync
          BY <1>5, <3>4, <3>6
        <3> QED
          BY <3>3, <3>5, <3>6
      <2> QED
        BY <1>3, <1>6, <2>1, <2>2, <2>3, <2>4, <2>5, <2>6 DEF OwedInv
    <1>10. stream'[v] = "subscribed" => Covered(v)'
      <2>1. SUFFICES ASSUME stream[v] = "subscribed", \A e \in Items(backlog[v]) \cup Items(D) : ~e.resync
                     PROVE  owed'[v] \subseteq {e.id : e \in Items(backlog[v]) \cup Items(D)}
        BY <1>3, <1>6 DEF Covered, ToCome
      <2>2. Items(C) \subseteq Items(D) /\ \E e \in Items(D) : e.id = i
        BY <1>5, <2>1
      <2>3. owed[v] \subseteq {e.id : e \in ToCome(v)}
        BY <1>1, <2>1, <2>2 DEF ViewerInv, Covered, ToCome
      <2> QED
        BY <1>8, <2>2, <2>3 DEF ToCome
    <1> QED
      BY <1>5, <1>7, <1>9, <1>10 DEF ViewerInv, D

\* What no one is subscribed to finds no history that it could be lacking in.
LEMMA UnheardKeeps ==
    ASSUME RealtimeInv, NEW v \in Viewer, PublishUnheard
    PROVE  ViewerInv(v)'
    <1>1. /\ RealtimeTypeOK /\ HistoryInv /\ ViewerInv(v) /\ nextID \in Nat /\ owed[v] \subseteq Nat
      BY RealtimeTyped DEF RealtimeInv
    <1>2. /\ history = <<>> /\ stream[v] # "subscribed"
          /\ owed'[v] \subseteq owed[v] \cup {0} /\ (~Own(v) => owed'[v] = owed[v])
          /\ UNCHANGED <<brokerOpen, nextID, history, stream, backlog, channel, lastID, foreign>>
      BY <1>1 DEF PublishUnheard, HistoryInv, Subscribed, Owe, Promised, Own
    <1>3. /\ Items(backlog[v])' = Items(backlog[v]) /\ Items(channel[v])' = Items(channel[v])
          /\ Own(v)' = Own(v) /\ Warned(v)' = Warned(v)
      BY <1>2 DEF Items, Own, Warned
    <1>4. QueueInv(v)'
      BY <1>1, <1>2, <1>3 DEF ViewerInv, QueueInv, ToCome, Ordered
    <1>5. OwedInv(v)'
      BY <1>1, <1>2, <1>3 DEF ViewerInv, OwedInv
    <1> QED
      BY <1>2, <1>4, <1>5 DEF ViewerInv

\* The broker's close turns the subscriptions into what they still hold.
LEMMA CloseKeeps ==
    ASSUME RealtimeInv, NEW v \in Viewer, CloseBroker
    PROVE  ViewerInv(v)'
    <1>1. RealtimeTypeOK /\ ViewerInv(v)
      BY DEF RealtimeInv
    <1>2. /\ history' = <<>> /\ ~brokerOpen'
          /\ stream'[v] = IF stream[v] = "subscribed" THEN "draining" ELSE stream[v]
          /\ UNCHANGED <<nextID, backlog, channel, lastID, foreign, owed>>
      BY DEF CloseBroker, Subscribed
    <1>3. /\ Items(backlog[v])' = Items(backlog[v]) /\ Items(channel[v])' = Items(channel[v])
          /\ Own(v)' = Own(v) /\ Warned(v)' = Warned(v)
      BY <1>2 DEF Items, Own, Warned
    <1>4. QueueInv(v)'
      BY <1>1, <1>2, <1>3 DEF ViewerInv, QueueInv, ToCome, Ordered
    <1>5. OwedInv(v)'
      BY <1>1, <1>2, <1>3 DEF ViewerInv, OwedInv
    <1> QED
      BY <1>2, <1>4, <1>5 DEF ViewerInv

\* An ID that another process gave is owed nothing.
LEMMA RestartKeeps ==
    ASSUME RealtimeInv, NEW v \in Viewer, RestartBroker
    PROVE  ViewerInv(v)'
    <1>1. lastID[v] \in Nat
      BY RealtimeTyped DEF RealtimeInv
    <1>2. /\ nextID' = 0 /\ history' = <<>> /\ stream'[v] \in {"failed", "away"}
          /\ backlog'[v] = <<>> /\ channel'[v] = <<>> /\ owed'[v] = {}
          /\ (~foreign'[v] => lastID'[v] = 0)
      BY DEF RestartBroker
    <1>3. /\ Items(backlog[v])' = {} /\ Items(channel[v])' = {}
          /\ Ordered(backlog[v])' /\ Ordered(channel[v])'
      BY <1>2, NothingToItems DEF Items, Ordered
    <1>4. QueueInv(v)'
      BY <1>2, <1>3 DEF QueueInv, ToCome
    <1>5. OwedInv(v)'
      BY <1>1, <1>2 DEF OwedInv
    <1> QED
      BY <1>2, <1>4, <1>5 DEF ViewerInv

LEMMA HistoryNext ==
    ASSUME RealtimeInv, RealtimeNext
    PROVE  HistoryInv'
    <1>1. RealtimeTypeOK /\ HistoryInv /\ severed \in Nat /\ nextID \in Nat /\ Items(history) \subseteq EventID
      BY RealtimeTyped DEF RealtimeInv
    <1>2. ASSUME history' = <<>> PROVE Ascends(history)' /\ \A x \in Items(history)' : x <= nextID'
      BY <1>2, NothingToItems DEF Items, Ascends
    <1>3. ASSUME history' = history, nextID' \in {nextID, nextID + 1}
          PROVE  Ascends(history)' /\ \A x \in Items(history)' : x <= nextID'
      <2>1. Items(history)' = Items(history) /\ Ascends(history)'
        BY <1>1, <1>3 DEF HistoryInv, Items, Ascends
      <2> QED
        BY <1>1, <1>3, <2>1 DEF HistoryInv, EventID
    <1>4. ASSUME NEW v \in Viewer, ViewerNext(v) PROVE HistoryInv'
      <2>1. history' \in {history, <<>>} /\ nextID' = nextID /\ brokerOpen' = brokerOpen
        BY <1>4 DEF ViewerNext, Subscribe, SubscribeRefused, Reopen, WriteBacklog, WriteEvent, EndStream,
                    Sever, Unsubscribed, DropHistory
      <2>2. Ascends(history)' /\ \A x \in Items(history)' : x <= nextID'
        BY <1>2, <1>3, <2>1
      <2>3. \A w \in Viewer : w # v => stream'[w] = stream[w]
        BY <1>1, <1>4 DEF ViewerNext, Subscribe, SubscribeRefused, Reopen, WriteBacklog, WriteEvent, EndStream,
                          Sever, Leaves, RealtimeTypeOK
      <2>4. Subscribed' = IF stream'[v] = "subscribed" THEN Subscribed \cup {v} ELSE Subscribed \ {v}
        BY <2>3 DEF Subscribed
      <2>5. CASE Subscribe(v)
        <3>1. stream'[v] = "subscribed" /\ brokerOpen
          BY <1>1, <2>5 DEF Subscribe, RealtimeTypeOK
        <3> QED
          BY <2>1, <2>2, <2>4, <3>1 DEF HistoryInv
      <2>6. CASE SubscribeRefused(v) \/ Reopen(v) \/ WriteBacklog(v) \/ WriteEvent(v)
        <3>1. (stream'[v] = "subscribed" <=> stream[v] = "subscribed") /\ history' = history /\ severed' = severed
          BY <1>1, <2>6 DEF SubscribeRefused, Reopen, WriteBacklog, WriteEvent, RealtimeTypeOK
        <3>2. Subscribed' = Subscribed
          BY <2>4, <3>1 DEF Subscribed
        <3> QED
          BY <1>1, <2>1, <2>2, <3>1, <3>2 DEF HistoryInv
      <2>7. CASE EndStream(v)
        <3>1. stream'[v] = "away" /\ severed' = severed
          BY <1>1, <2>7 DEF EndStream, Leaves, RealtimeTypeOK
        <3>2. Subscribed' = Subscribed \ {v}
          BY <2>4, <3>1
        <3>3. CASE v \in Subscribed
          <4>1. history' = IF Subscribed' = {} /\ severed = 0 THEN <<>> ELSE history
            BY <2>7, <3>2, <3>3 DEF EndStream, Unsubscribed, DropHistory, Subscribed
          <4>2. brokerOpen
            BY <1>1, <3>3 DEF HistoryInv
          <4> QED
            BY <2>1, <2>2, <3>1, <4>1, <4>2 DEF HistoryInv
        <3>4. CASE v \notin Subscribed
          <4>1. history' = history /\ Subscribed' = Subscribed
            BY <2>7, <3>2, <3>4 DEF EndStream, Unsubscribed, Subscribed
          <4> QED
            BY <1>1, <2>1, <2>2, <3>1, <4>1 DEF HistoryInv
        <3> QED
          BY <3>3, <3>4
      <2>8. CASE Sever(v)
        <3>1. severed' # 0 /\ brokerOpen
          BY <1>1, <2>8 DEF Sever, HistoryInv
        <3> QED
          BY <2>1, <2>2, <3>1 DEF HistoryInv
      <2> QED
        BY <1>4, <2>5, <2>6, <2>7, <2>8 DEF ViewerNext
    <1>5. CASE PublishUnheard \/ PublishElsewhere
      <2>1. /\ history' = history /\ severed' = severed /\ Subscribed' = Subscribed /\ brokerOpen' = brokerOpen
            /\ nextID' \in {nextID, nextID + 1}
        BY <1>5 DEF PublishUnheard, PublishElsewhere, Subscribed
      <2> QED
        BY <1>1, <1>3, <2>1 DEF HistoryInv
    <1>6. CASE Publish
      <2> DEFINE i == nextID + 1
      <2>1. /\ history \in Seq(EventID) /\ Len(history) <= HistoryLimit /\ Ascends(history)
            /\ i \in EventID /\ \A x \in Items(history) : x < i /\ x <= i
        BY <1>1, <1>6, RealtimeAssumption DEF RealtimeTypeOK, HistoryInv, Publish, EventID
      <2>2. Ascends(Remembered(history, i)) /\ Items(Remembered(history, i)) \subseteq Items(history) \cup {i}
        BY <2>1, RememberedFacts
      <2>3. /\ history' = Remembered(history, i) /\ nextID' = i /\ brokerOpen /\ brokerOpen' = brokerOpen
            /\ (Subscribed # {} \/ severed # 0) /\ Subscribed' = Subscribed /\ severed' = severed
        BY <1>1, <1>6 DEF Publish, Subscribed
      <2>4. Ascends(history)' /\ Items(history)' \subseteq Items(history) \cup {i}
        BY <2>2, <2>3 DEF Ascends, Items
      <2>5. \A x \in Items(history)' : x <= nextID'
        BY <1>1, <2>1, <2>3, <2>4
      <2> QED
        BY <2>3, <2>4, <2>5 DEF HistoryInv
    <1>7. CASE NoticeSevered
      <2>1. /\ history' = IF Subscribed = {} /\ severed' = 0 THEN <<>> ELSE history
            /\ severed # 0 /\ Subscribed' = Subscribed /\ UNCHANGED <<brokerOpen, nextID>>
        BY <1>1, <1>7 DEF NoticeSevered, DropHistory, Subscribed
      <2> QED
        BY <1>1, <1>2, <1>3, <2>1 DEF HistoryInv
    <1>8. CASE CloseBroker
      <2>1. history' = <<>> /\ severed' = 0 /\ Subscribed' = {}
        BY <1>8 DEF CloseBroker, Subscribed
      <2> QED
        BY <1>2, <2>1 DEF HistoryInv
    <1>9. CASE RestartBroker
      <2>1. history' = <<>> /\ brokerOpen'
        BY <1>9 DEF RestartBroker
      <2> QED
        BY <1>2, <2>1 DEF HistoryInv
    <1> QED
      BY <1>4, <1>5, <1>6, <1>7, <1>8, <1>9 DEF RealtimeNext

LEMMA RealtimeTypesNext ==
    ASSUME RealtimeInv, RealtimeNext
    PROVE  RealtimeTypeOK'
    <1>1. /\ RealtimeTypeOK /\ HistoryInv
          /\ severed \in Nat /\ nextID \in Nat /\ MaxEventID \in Nat
          /\ MaxSevered \in Nat /\ MaxBrokerRestarts \in Nat /\ HistoryLimit \in Nat /\ BufferSize \in Nat
          /\ \A v \in Viewer : lastID[v] \in Nat
      BY RealtimeTyped, RealtimeAssumption DEF RealtimeInv
    <1>2. <<>> \in Seq(EventID) /\ Len(<<>>) = 0 /\ <<>> \in Seq(StreamEvent)
      BY EmptySeq
    <1>3. ASSUME history' \in {history, <<>>}
          PROVE  history' \in Seq(EventID) /\ Len(history') <= HistoryLimit
      <2>1. history \in Seq(EventID) /\ Len(history) <= HistoryLimit
        BY <1>1 DEF RealtimeTypeOK
      <2>2. CASE history' = <<>>
        BY <1>1, <1>2, <2>2
      <2> QED
        BY <1>3, <2>1, <2>2
    <1>4. ASSUME NEW v \in Viewer, ViewerNext(v) PROVE RealtimeTypeOK'
      <2>1. CASE Subscribe(v)
        <3>1. backlog'[v] \in Seq(StreamEvent)
          <4>1. history \in Seq(EventID) /\ Ascends(history) /\ lastID[v] \in Nat
            BY <1>1 DEF RealtimeTypeOK, HistoryInv
          <4>2. ReplayAfter(lastID[v]) \in Seq(StreamEvent)
            BY <4>1, ReplayFacts
          <4>3. <<ResyncAt(0)>> \in Seq(StreamEvent)
            <5>1. ResyncAt(0) \in StreamEvent
              BY <1>1 DEF ResyncAt, StreamEvent
            <5> QED
              BY <5>1
          <4>4. backlog'[v] \in {<<>>, <<ResyncAt(0)>>, ReplayAfter(lastID[v])}
            BY <1>1, <2>1 DEF Subscribe, RealtimeTypeOK
          <4> QED
            BY <1>2, <4>2, <4>3, <4>4
        <3>2. backlog' \in [Viewer -> Seq(StreamEvent)]
          <4>1. backlog' = [backlog EXCEPT ![v] = backlog'[v]]
            BY <1>1, <2>1 DEF Subscribe, RealtimeTypeOK
          <4> QED
            BY <1>1, <3>1, <4>1 DEF RealtimeTypeOK
        <3> QED
          BY <1>1, <2>1, <3>2 DEF Subscribe, RealtimeTypeOK
      <2>2. CASE SubscribeRefused(v)
        BY <1>1, <2>2 DEF SubscribeRefused, RealtimeTypeOK
      <2>3. CASE Reopen(v)
        BY <1>1, <2>3 DEF Reopen, RealtimeTypeOK
      <2>4. ASSUME NEW e \in StreamEvent, Receive(v, e)
            PROVE  /\ lastID' \in [Viewer -> 0 .. MaxEventID] /\ foreign' \in [Viewer -> BOOLEAN]
                   /\ owed' \in [Viewer -> SUBSET (0 .. MaxEventID)]
        <3>1. e.id \in 0 .. MaxEventID
          BY DEF StreamEvent
        <3> QED
          BY <1>1, <2>4, <3>1 DEF Receive, RealtimeTypeOK
      <2>5. ASSUME NEW s \in Seq(StreamEvent), s # <<>>
            PROVE  Head(s) \in StreamEvent /\ Tail(s) \in Seq(StreamEvent) /\ Len(Tail(s)) <= Len(s)
        <3>1. Len(s) \in Nat /\ Len(Tail(s)) = Len(s) - 1
          BY <2>5, HeadTailProperties, LenProperties
        <3> QED
          BY <2>5, <3>1, HeadTailProperties
      <2>6. CASE WriteBacklog(v)
        <3>1. Head(backlog[v]) \in StreamEvent /\ Tail(backlog[v]) \in Seq(StreamEvent)
          BY <1>1, <2>5, <2>6 DEF WriteBacklog, RealtimeTypeOK
        <3>2. backlog' \in [Viewer -> Seq(StreamEvent)]
          BY <1>1, <2>6, <3>1 DEF WriteBacklog, RealtimeTypeOK
        <3> QED
          BY <1>1, <2>4, <2>6, <3>1, <3>2 DEF WriteBacklog, RealtimeTypeOK
      <2>7. CASE WriteEvent(v)
        <3>1. /\ Head(channel[v]) \in StreamEvent /\ Tail(channel[v]) \in Seq(StreamEvent)
              /\ Len(Tail(channel[v])) <= BufferSize
          <4>1. channel[v] \in Seq(StreamEvent) /\ channel[v] # <<>> /\ Len(channel[v]) <= BufferSize
            BY <1>1, <2>7 DEF WriteEvent, RealtimeTypeOK
          <4>2. Len(channel[v]) \in Nat /\ Len(Tail(channel[v])) = Len(channel[v]) - 1
            BY <4>1, HeadTailProperties, LenProperties
          <4> QED
            BY <1>1, <2>5, <4>1, <4>2
        <3>2. channel' = [channel EXCEPT ![v] = Tail(channel[v])]
          BY <2>7 DEF WriteEvent
        <3>3. channel' \in [Viewer -> Seq(StreamEvent)] /\ \A w \in Viewer : Len(channel'[w]) <= BufferSize
          BY <1>1, <3>1, <3>2 DEF RealtimeTypeOK
        <3> QED
          BY <1>1, <2>4, <2>7, <3>1, <3>3 DEF WriteEvent, RealtimeTypeOK
      <2>8. ASSUME Leaves(v)
            PROVE  /\ stream' \in [Viewer -> {"away", "subscribed", "draining", "failed"}]
                   /\ backlog' \in [Viewer -> Seq(StreamEvent)] /\ channel' \in [Viewer -> Seq(StreamEvent)]
                   /\ \A w \in Viewer : Len(channel'[w]) <= BufferSize
                   /\ owed' \in [Viewer -> SUBSET (0 .. MaxEventID)]
        BY <1>1, <1>2, <2>8 DEF Leaves, RealtimeTypeOK
      <2>9. CASE EndStream(v)
        <3>1. history' \in {history, <<>>}
          BY <2>9 DEF EndStream, Unsubscribed, DropHistory
        <3> QED
          BY <1>1, <1>3, <2>8, <2>9, <3>1 DEF EndStream, RealtimeTypeOK
      <2>10. CASE Sever(v)
        <3>1. severed' \in 0 .. MaxSevered
          BY <1>1, <2>10 DEF Sever
        <3> QED
          BY <1>1, <2>8, <2>10, <3>1 DEF Sever, RealtimeTypeOK
      <2> QED
        BY <1>4, <2>1, <2>2, <2>3, <2>6, <2>7, <2>9, <2>10 DEF ViewerNext
    <1>5. ASSUME NEW i \in 0 .. MaxEventID, Owe(i) PROVE owed' \in [Viewer -> SUBSET (0 .. MaxEventID)]
      BY <1>1, <1>5 DEF Owe, RealtimeTypeOK
    <1>6. CASE PublishUnheard
      BY <1>1, <1>5, <1>6 DEF PublishUnheard, RealtimeTypeOK
    <1>7. CASE Publish
      <2>1. nextID + 1 \in EventID /\ nextID + 1 \in 0 .. MaxEventID
        BY <1>1, <1>7 DEF Publish, EventID
      <2>2. \A x \in Items(history) : x < nextID + 1
        <3>1. Items(history) \subseteq EventID
          BY <1>1, RealtimeTyped
        <3> QED
          BY <1>1, <3>1 DEF HistoryInv, EventID
      <2>3. history' \in Seq(EventID) /\ Len(history') <= HistoryLimit
        BY <1>1, <1>7, <2>1, <2>2, RememberedFacts DEF Publish, HistoryInv, RealtimeTypeOK
      <2>4. \A v \in Viewer : channel'[v] \in Seq(StreamEvent) /\ Len(channel'[v]) <= BufferSize
        BY <1>7, PublishKeeps
      <2>5. channel' \in [Viewer -> Seq(StreamEvent)]
        BY <1>7, <2>4 DEF Publish
      <2> QED
        BY <1>1, <1>5, <1>7, <2>1, <2>3, <2>4, <2>5 DEF Publish, RealtimeTypeOK
    <1>8. CASE PublishElsewhere
      BY <1>1, <1>8 DEF PublishElsewhere, RealtimeTypeOK
    <1>9. CASE NoticeSevered
      <2>1. history' \in {history, <<>>} /\ severed > 0 /\ severed' = severed - 1
        BY <1>9 DEF NoticeSevered, DropHistory
      <2>2. severed' \in 0 .. MaxSevered
        BY <1>1, <2>1 DEF RealtimeTypeOK
      <2> QED
        BY <1>1, <1>3, <1>9, <2>1, <2>2 DEF NoticeSevered, RealtimeTypeOK
    <1>10. CASE CloseBroker
      <2>1. history' = <<>>
        BY <1>10 DEF CloseBroker
      <2>2. stream' \in [Viewer -> {"away", "subscribed", "draining", "failed"}]
        BY <1>1, <1>10 DEF CloseBroker, RealtimeTypeOK
      <2>3. brokerOpen' \in BOOLEAN
        BY <1>10 DEF CloseBroker
      <2>4. severed' \in 0 .. MaxSevered
        <3>1. severed' = 0
          BY <1>10 DEF CloseBroker
        <3> QED
          BY <1>1, <3>1
      <2> QED
        BY <1>1, <1>3, <1>10, <2>1, <2>2, <2>3, <2>4 DEF CloseBroker, RealtimeTypeOK
    <1>11. CASE RestartBroker
      <2>1. history' = <<>>
        BY <1>11 DEF RestartBroker
      <2> QED
        BY <1>1, <1>2, <1>3, <1>11, <2>1 DEF RestartBroker, RealtimeTypeOK
    <1> QED
      BY <1>4, <1>6, <1>7, <1>8, <1>9, <1>10, <1>11 DEF RealtimeNext

LEMMA ViewersNext ==
    ASSUME RealtimeInv, RealtimeNext, NEW v \in Viewer
    PROVE  ViewerInv(v)'
    <1>1. RealtimeTypeOK /\ HistoryInv /\ ViewerInv(v)
      BY DEF RealtimeInv
    <1>2. ASSUME NEW w \in Viewer, ViewerNext(w), w # v PROVE ViewerInv(v)'
      <2>1. history' \in {history, <<>>} /\ UNCHANGED <<nextID, brokerOpen>>
        BY <1>2 DEF ViewerNext, Subscribe, SubscribeRefused, Reopen, WriteBacklog, WriteEvent, EndStream,
                    Sever, Unsubscribed, DropHistory
      <2>2. UNCHANGED <<stream[v], backlog[v], channel[v], lastID[v], foreign[v], owed[v]>>
        BY <1>1, <1>2 DEF ViewerNext, Subscribe, SubscribeRefused, Reopen, WriteBacklog, WriteEvent, EndStream,
                          Sever, Leaves, Receive, RealtimeTypeOK
      <2> QED
        BY <1>1, <2>1, <2>2, ViewerKept
    <1>3. CASE Subscribe(v)
      BY <1>3, SubscribeKeeps
    <1>4. CASE SubscribeRefused(v)
      <2>1. /\ stream[v] = "away" /\ stream'[v] = "failed" /\ ~brokerOpen /\ history = <<>>
            /\ UNCHANGED <<brokerOpen, nextID, history, backlog, channel, lastID, foreign, owed>>
        BY <1>1, <1>4 DEF SubscribeRefused, HistoryInv, RealtimeTypeOK
      <2>2. /\ Items(backlog[v])' = Items(backlog[v]) /\ Items(channel[v])' = Items(channel[v])
            /\ Own(v)' = Own(v) /\ Warned(v)' = Warned(v)
        BY <2>1 DEF Items, Own, Warned
      <2>3. QueueInv(v)'
        BY <1>1, <2>1, <2>2 DEF ViewerInv, QueueInv, ToCome, Ordered
      <2>4. OwedInv(v)'
        BY <1>1, <2>1, <2>2 DEF ViewerInv, OwedInv
      <2> QED
        BY <2>1, <2>3, <2>4 DEF ViewerInv
    <1>5. CASE Reopen(v)
      <2>1. /\ stream[v] \in {"away", "failed"} /\ stream'[v] = "away" /\ lastID'[v] = 0 /\ owed'[v] = {}
            /\ UNCHANGED <<brokerOpen, nextID, history, backlog, channel>>
        BY <1>1, <1>5 DEF Reopen, RealtimeTypeOK
      <2>2. /\ Items(backlog[v])' = Items(backlog[v]) /\ Items(channel[v])' = Items(channel[v])
            /\ Own(v)' = FALSE /\ Warned(v)' = Warned(v)
        BY <2>1 DEF Items, Own, Warned
      <2>3. QueueInv(v)'
        BY <1>1, <2>1, <2>2 DEF ViewerInv, QueueInv, ToCome, Ordered
      <2>4. OwedInv(v)'
        BY <1>1, <2>1, <2>2, RealtimeTyped DEF OwedInv
      <2> QED
        BY <2>1, <2>3, <2>4 DEF ViewerInv
    <1>6. ASSUME NEW s \in Seq(StreamEvent), s # <<>> PROVE Head(s) \in StreamEvent
      BY <1>6, HeadTailProperties
    <1>7. CASE WriteBacklog(v)
      <2>1. /\ stream[v] \in {"subscribed", "draining"} /\ backlog[v] # <<>>
            /\ Head(backlog[v]) \in StreamEvent /\ Receive(v, Head(backlog[v]))
            /\ backlog'[v] = Tail(backlog[v]) /\ channel'[v] = channel[v]
            /\ UNCHANGED <<brokerOpen, nextID, history, stream>>
        BY <1>1, <1>6, <1>7 DEF WriteBacklog, RealtimeTypeOK
      <2> QED
        BY <1>1, <2>1, ReceiveKeeps
    <1>8. CASE WriteEvent(v)
      <2>1. /\ stream[v] \in {"subscribed", "draining"} /\ backlog[v] = <<>> /\ channel[v] # <<>>
            /\ Head(channel[v]) \in StreamEvent /\ Receive(v, Head(channel[v]))
            /\ backlog'[v] = backlog[v] /\ channel'[v] = Tail(channel[v])
            /\ UNCHANGED <<brokerOpen, nextID, history, stream>>
        BY <1>1, <1>6, <1>8 DEF WriteEvent, RealtimeTypeOK
      <2> QED
        BY <1>1, <2>1, ReceiveKeeps
    <1>9. CASE EndStream(v) \/ Sever(v)
      <2>1. Leaves(v) /\ history' \in {history, <<>>} /\ UNCHANGED <<brokerOpen, nextID, lastID, foreign>>
        BY <1>9 DEF EndStream, Sever, Unsubscribed, DropHistory
      <2> QED
        BY <1>1, <2>1, LeavesKeeps
    <1>10. CASE Publish
      BY <1>10, PublishKeeps
    <1>11. CASE PublishUnheard
      BY <1>11, UnheardKeeps
    <1>12. CASE PublishElsewhere \/ NoticeSevered
      <2>1. /\ UNCHANGED <<stream[v], backlog[v], channel[v], lastID[v], foreign[v], owed[v], brokerOpen>>
            /\ nextID' \in {nextID, nextID + 1} /\ history' \in {history, <<>>}
        BY <1>12 DEF PublishElsewhere, NoticeSevered, DropHistory
      <2> QED
        BY <1>1, <2>1, ViewerKept
    <1>13. CASE CloseBroker
      BY <1>13, CloseKeeps
    <1>14. CASE RestartBroker
      BY <1>14, RestartKeeps
    <1> QED
      BY <1>2, <1>3, <1>4, <1>5, <1>7, <1>8, <1>9, <1>10, <1>11, <1>12, <1>13, <1>14
      DEF RealtimeNext, ViewerNext

LEMMA RealtimeInvInit ==
    ASSUME RealtimeInit
    PROVE  RealtimeInv
    <1>1. <<>> \in Seq(EventID) /\ <<>> \in Seq(StreamEvent) /\ Len(<<>>) = 0
      BY EmptySeq
    <1>2. RealtimeTypeOK
      BY <1>1, RealtimeAssumption DEF RealtimeInit, RealtimeTypeOK
    <1>3. HistoryInv
      <2>1. history = <<>> /\ brokerOpen = TRUE
        BY DEF RealtimeInit
      <2> QED
        BY <2>1, NothingToItems DEF HistoryInv
    <1>4. ASSUME NEW v \in Viewer PROVE ViewerInv(v)
      <2>1. /\ backlog[v] = <<>> /\ channel[v] = <<>> /\ owed[v] = {} /\ stream[v] = "away"
            /\ lastID[v] = 0 /\ nextID = 0
        BY DEF RealtimeInit
      <2>2. QueueInv(v)
        BY <2>1, NothingToItems DEF QueueInv, ToCome
      <2>3. OwedInv(v)
        BY <2>1 DEF OwedInv, Own
      <2> QED
        BY <2>1, <2>2, <2>3 DEF ViewerInv
    <1> QED
      BY <1>2, <1>3, <1>4 DEF RealtimeInv

LEMMA RealtimeInvStutter ==
    ASSUME RealtimeInv, UNCHANGED realtimeVars
    PROVE  RealtimeInv'
    <1>1. RealtimeTypeOK' /\ HistoryInv'
      <2>1. Subscribed' = Subscribed
        BY DEF realtimeVars, Subscribed
      <2> QED
        BY <2>1 DEF RealtimeInv, RealtimeTypeOK, HistoryInv, realtimeVars, Items, Ascends
    <1>2. ASSUME NEW v \in Viewer PROVE ViewerInv(v)'
      <2>1. UNCHANGED <<stream[v], backlog[v], channel[v], lastID[v], foreign[v], owed[v],
                        nextID, brokerOpen, history>>
        BY DEF realtimeVars
      <2> QED
        BY <2>1, ViewerKept DEF RealtimeInv
    <1> QED
      BY <1>1, <1>2 DEF RealtimeInv

LEMMA RealtimeInvNext ==
    ASSUME RealtimeInv, [RealtimeNext]_realtimeVars
    PROVE  RealtimeInv'
    <1>1. CASE RealtimeNext
      BY <1>1, HistoryNext, RealtimeTypesNext, ViewersNext DEF RealtimeInv
    <1> QED
      BY <1>1, RealtimeInvStutter

LEMMA RealtimeInvAlways == RealtimeSpec => []RealtimeInv
    BY RealtimeInvInit, RealtimeInvNext, PTL DEF RealtimeSpec

LEMMA RealtimeInvMeans ==
    ASSUME RealtimeInv
    PROVE  RealtimeTypeOK /\ NoSilentGap
    BY DEF RealtimeInv, ViewerInv, Covered, NoSilentGap, Subscribed

(* Every variable of the broker and of its viewers keeps its type: in      *)
(* particular the history and each subscription's channel stay within      *)
(* their limits whatever is published.                                     *)
THEOREM RealtimeTypes == RealtimeSpec => []RealtimeTypeOK
    BY RealtimeInvMeans, RealtimeInvAlways, PTL

(* A viewer with a stream is told of every change since its first          *)
(* subscription or is told to reload, for any number of viewers and any    *)
(* limits of the history and of the channels (broker.go, Publish,          *)
(* Subscribe and missedEvents, with the replay by ID of an EventSource).   *)
THEOREM NoGapIsSilent == RealtimeSpec => []NoSilentGap
    BY RealtimeInvMeans, RealtimeInvAlways, PTL
=============================================================================
