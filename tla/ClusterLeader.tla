------------------------------ MODULE ClusterLeader ------------------------------
(***************************************************************************)
(* Leadership in a cluster (cluster/cluster.go) and the forwarding of      *)
(* ingest requests that relies on it (server/ingest/handlers.go).  Every   *)
(* node keeps the set of members it knows of, takes the one with the least *)
(* name for the leader, and forwards what it is asked to store, unless it  *)
(* is the leader itself.  Nothing coordinates the views: each node is told *)
(* of joins and leaves by memberlist, in its own order, and sometimes      *)
(* wrongly.                                                                *)
(*                                                                         *)
(* Names are numbers, compared as the names are.  One node is started      *)
(* without a JoinAddr, and the others join through it, once, when they     *)
(* start (compose.cluster.yaml).  memberlist is an external library: it    *)
(* tells a node of itself when it is created and when it leaves, and of    *)
(* the others by exchanges with those it knows or that know it.  Members   *)
(* that have lost each other may still meet, for it goes on for a while to *)
(* send to those it takes for dead, but nothing in cluster.go sees to it.  *)
(*                                                                         *)
(* Simplifications.  One request at a time: requests do not meet.  What a  *)
(* leader does with a request is IngestPipeline's.  A handler's steps      *)
(* before the proxy's call do not outlast the ten seconds that the HTTP    *)
(* server is given to shut down: nothing is asked of a manager that has    *)
(* left the cluster, which it does at the end of its process.              *)
(***************************************************************************)
EXTENDS Naturals, FiniteSets

CONSTANTS
    Node,           \* the nodes, by name
    Seed,           \* the one that is JoinAddr of the others
    MaxStarts,      \* bound: starts of a process
    MaxFalseViews   \* bound: wrong notifications

ASSUME ClusterAssumption ==
    /\ Node \subseteq Nat
    /\ IsFiniteSet(Node) /\ Seed \in Node
    /\ MaxStarts \in Nat
    /\ MaxFalseViews \in Nat

VARIABLES
    phase,          \* how far each process has come
    peers,          \* Manager.peers
    leader,         \* Manager.leader
    hop,            \* the request: the node that has it, what is done with it, and its next node
    starts, falseViews

clusterVars == <<phase, peers, leader, hop, starts, falseViews>>

Phase == {"down", "joining", "serving", "draining"}
Members == {n \in Node : phase[n] # "down"}
AnyNode == CHOOSE n \in Node : TRUE
NoHop == [at |-> AnyNode, step |-> "none", to |-> AnyNode]

ClusterInit ==
    /\ phase = [n \in Node |-> "down"]
    /\ peers = [n \in Node |-> {}]
    /\ leader = [n \in Node |-> n]
    /\ hop = NoHop
    /\ starts = 0
    /\ falseViews = 0

Becoming(n, p) == phase' = [phase EXCEPT ![n] = p]

\* reElectLeaderLocked: the first of the sorted names.  With no name the leader stays.
Elect(n, view, l) ==
    \/ view = {} /\ l = leader[n]
    \/ l \in view /\ \A x \in view : l <= x

\* What a node knows, and the leader it takes from it, in one critical section.
Sees(n, view) ==
    /\ peers' = [peers EXCEPT ![n] = view]
    /\ \E l \in Node : /\ Elect(n, view, l)
                       /\ leader' = [leader EXCEPT ![n] = l]

\* The manager's memory ends with its process.
Forgets(n) ==
    /\ peers' = [peers EXCEPT ![n] = {}]
    /\ leader' = [leader EXCEPT ![n] = n]

-----------------------------------------------------------------------------
(* memberlist's notifications.                                             *)

\* n and x exchange what they know when one of them knows the other, and so
\* x is announced to n by itself or by a third that knows it.
Linked(n, x) == x \in peers[n] \/ n \in peers[x]
Heard(n, x) == \E m \in Members : Linked(n, m) /\ (m = x \/ x \in peers[m])

\* To a member, the members that are up are announced and the others withdrawn.
NotifyJoin(n, x) ==
    /\ n \in Members /\ x \in Members \ peers[n] /\ x # n
    /\ Sees(n, peers[n] \cup {x})
    /\ UNCHANGED <<phase, hop, starts, falseViews>>

\* Mutant: only the map of the peers is changed.
NotifyLeaveKeepsLeader(n, x) ==
    /\ n \in Members /\ x \in peers[n] \ Members /\ x # n
    /\ peers' = [peers EXCEPT ![n] = @ \ {x}]
    /\ UNCHANGED <<phase, leader, hop, starts, falseViews>>

NotifyLeave(n, x) ==
    /\ n \in Members /\ x \in peers[n] \ Members /\ x # n
    /\ Sees(n, peers[n] \ {x})
    /\ UNCHANGED <<phase, hop, starts, falseViews>>

\* A lost probe withdraws a member that is up, and late gossip announces one that is not.
FalseView(n, x) ==
    /\ falseViews < MaxFalseViews
    /\ n \in Members /\ x # n
    /\ \/ x \in Members \cap peers[n] /\ Sees(n, peers[n] \ {x})
       \/ x \notin Members \cup peers[n] /\ Sees(n, peers[n] \cup {x})
    /\ falseViews' = falseViews + 1
    /\ UNCHANGED <<phase, hop, starts>>

-----------------------------------------------------------------------------
(* The process: NewManager, the HTTP server, and the deferred Shutdown.    *)

\* memberlist.Create announces the node to itself.
CreateList(n) ==
    /\ phase[n] = "down" /\ starts < MaxStarts
    /\ starts' = starts + 1
    /\ Becoming(n, "joining")
    /\ Sees(n, {n})
    /\ UNCHANGED <<hop, falseViews>>

\* list.Join, with a JoinAddr: one exchange with the seed, which must be up.
\* The end of NewManager puts the node among the peers once more; then the
\* leader's services start, and ListenAndServe.
FinishJoin(n) ==
    /\ phase[n] = "joining"
    /\ Seed \in Members
    /\ Becoming(n, "serving")
    /\ Sees(n, peers[n] \cup {n, Seed})
    /\ UNCHANGED <<hop, starts, falseViews>>

\* Mutant: the cluster is left first, and the HTTP server shut down after it.
LeaveFirst(n) ==
    /\ phase[n] = "serving"
    /\ Becoming(n, "draining")
    /\ Sees(n, peers[n] \ {n})
    /\ UNCHANGED <<hop, starts, falseViews>>

\* httpServer.Shutdown: no request is accepted any more, those in hand go on.
ShutdownHTTP(n) ==
    /\ phase[n] = "serving"
    /\ Becoming(n, "draining")
    /\ UNCHANGED <<peers, leader, hop, starts, falseViews>>

\* The process is killed, or it ends with Manager.Shutdown: when the node could not
\* join, the leader's services did not start, or g.Wait has returned.  What it has
\* in hand ends with it.
ExitProcess(n) ==
    /\ phase[n] # "down"
    /\ Becoming(n, "down")
    /\ hop' = IF hop.at = n THEN NoHop ELSE hop
    /\ Forgets(n)
    /\ UNCHANGED <<starts, falseViews>>

-----------------------------------------------------------------------------
(* A request to store something: handleIngest and forwardToLeader.         *)

Arrive(n) ==
    /\ hop.step = "none" /\ phase[n] = "serving"
    /\ hop' = [at |-> n, step |-> "arrived", to |-> n]
    /\ UNCHANGED <<phase, peers, leader, starts, falseViews>>

\* isLeader: the leader's handler answers.
CheckLeader ==
    /\ hop.step = "arrived"
    /\ hop' = IF leader[hop.at] = hop.at THEN NoHop ELSE [hop EXCEPT !.step = "follower"]
    /\ UNCHANGED <<phase, peers, leader, starts, falseViews>>

\* GetLeaderAddr, under a lock of its own: no address is answered 503.
LookupLeader ==
    /\ hop.step = "follower"
    /\ hop' = IF leader[hop.at] \in peers[hop.at]
              THEN [hop EXCEPT !.step = "sent", !.to = leader[hop.at]]
              ELSE NoHop
    /\ UNCHANGED <<phase, peers, leader, starts, falseViews>>

\* The proxy's call reaches the node, which treats it like any other request ...
ReachLeader ==
    /\ hop.step = "sent" /\ phase[hop.to] = "serving"
    /\ hop' = [at |-> hop.to, step |-> "arrived", to |-> hop.to]
    /\ UNCHANGED <<phase, peers, leader, starts, falseViews>>

\* ... or fails, and is answered 502.
ForwardFails ==
    /\ hop.step = "sent"
    /\ hop' = NoHop
    /\ UNCHANGED <<phase, peers, leader, starts, falseViews>>

RequestStep == CheckLeader \/ LookupLeader \/ ReachLeader \/ ForwardFails

Notify == \E n, x \in Node : (Heard(n, x) /\ NotifyJoin(n, x)) \/ NotifyLeave(n, x)

ClusterNext ==
    \/ \E n \in Node : \/ CreateList(n) \/ FinishJoin(n)
                       \/ ShutdownHTTP(n) \/ ExitProcess(n) \/ Arrive(n)
    \/ \E n, x \in Node : NotifyJoin(n, x) \/ NotifyLeave(n, x) \/ FalseView(n, x)
    \/ RequestStep

\* While there is something to deliver among members that know each other
\* memberlist delivers something, and a handler goes on.
ClusterFairness ==
    /\ WF_clusterVars(Notify)
    /\ WF_clusterVars(RequestStep)

ClusterSpec == ClusterInit /\ [][ClusterNext]_clusterVars /\ ClusterFairness

-----------------------------------------------------------------------------
(* Properties.                                                             *)

(* Every variable keeps its type (the fields of cluster.go's Manager).     *)
ClusterTypeOK ==
    /\ phase \in [Node -> Phase]
    /\ peers \in [Node -> SUBSET Node]
    /\ leader \in [Node -> Node]
    /\ hop \in [at : Node, step : {"none", "arrived", "follower", "sent"}, to : Node]
    /\ starts \in 0 .. MaxStarts
    /\ falseViews \in 0 .. MaxFalseViews

(* However the views differ, a request is never forwarded to a greater     *)
(* name, so no two nodes can hand it to and fro: a node that serves is     *)
(* among its own peers (cluster.go:100, and Shutdown deferred until the     *)
(* HTTP server has stopped, cmd/hitkeep.go:87).  It may be sent to the     *)
(* node itself, which became the leader between its two questions.         *)
HopsDescend == [][hop.step = "sent" /\ hop'.step = "arrived" => hop'.at <= hop.at]_clusterVars

(* When no more processes start or end, members that know of each other    *)
(* come to agree: whoever is among a node's peers is up and takes the same *)
(* one of these peers for the leader (cluster.go:36-50).  Members that     *)
(* have lost each other need not: a seed that restarts after it was        *)
(* withdrawn has nobody to join (cluster.go:94) and leads itself, while    *)
(* another leads the rest.                                                 *)
LeadersSettle ==
    <>[](\A n \in Members : /\ leader[n] \in peers[n]
                           /\ \A x \in peers[n] : x \in Members /\ leader[x] = leader[n])
=============================================================================
