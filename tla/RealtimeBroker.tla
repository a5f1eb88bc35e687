----------------------------- MODULE RealtimeBroker -----------------------------
(***************************************************************************)
(* The broker of change events (realtime/broker.go) and the streams that   *)
(* carry them (server/shared/realtime_stream.go), for the viewers of one   *)
(* site.  A dashboard loads its figures once and then reloads what an      *)
(* event names, or everything on a resync.  An event that is not sent, and *)
(* that no resync stands for, leaves a dashboard with old figures that     *)
(* nothing corrects: it reloads by itself only while its stream is not     *)
(* open.                                                                   *)
(*                                                                         *)
(* A viewer is a browser's EventSource, which is external: it connects     *)
(* again when its stream ends, with the last ID it was sent, and gives up  *)
(* when it is answered with an error.                                      *)
(*                                                                         *)
(* Simplifications.  An event is its ID, and whether it is a resync: kinds *)
(* and counts are left out, every viewer shows every kind.  The write of   *)
(* an event and its receipt are one step, and what was written in vain is  *)
(* a stream that is cut (Sever).  Subscribe and the stream's head are one  *)
(* step: a failed write there is an end of the stream.                     *)
(***************************************************************************)
EXTENDS Naturals, Sequences, FiniteSets

CONSTANTS
    Viewer,                 \* the dashboards of the site
    HistoryLimit,           \* Broker.historyLimit
    BufferSize,             \* Broker.bufferSize
    MaxEventID,             \* bound: events with an ID, in a process
    MaxSevered,             \* bound: cut streams that the server still serves
    MaxBrokerRestarts       \* bound: restarts of the process

ASSUME RealtimeAssumption ==
    /\ HistoryLimit \in Nat \ {0}
    /\ BufferSize \in Nat \ {0}
    /\ MaxEventID \in Nat
    /\ MaxSevered \in Nat
    /\ MaxBrokerRestarts \in Nat

VARIABLES
    brokerOpen,             \* not Broker.closed
    nextID,                 \* Broker.nextID, of every site
    history,                \* Broker.history of the site: IDs
    stream,                 \* what each viewer's EventSource has come to
    backlog,                \* what the stream writes before it reads the subscription
    channel,                \* Subscription.ch
    severed,                \* subscriptions whose viewer is gone, unnoticed
    lastID,                 \* the EventSource's last event ID, 0 for none
    foreign,                \* whether that ID is of an earlier process
    owed,                   \* ghost: the changes the viewer was not told of, 0 for those without an ID
    brokerRestarts

realtimeVars == <<brokerOpen, nextID, history, stream, backlog, channel, severed,
                  lastID, foreign, owed, brokerRestarts>>

EventID == 1 .. MaxEventID
StreamEvent == [id : 0 .. MaxEventID, resync : BOOLEAN]
Changed(i) == [id |-> i, resync |-> FALSE]
ResyncAt(i) == [id |-> i, resync |-> TRUE]

Subscribed == {v \in Viewer : stream[v] = "subscribed"}
Items(s) == {s[i] : i \in 1 .. Len(s)}
ToCome(v) == Items(backlog[v]) \cup Items(channel[v])

RealtimeInit ==
    /\ brokerOpen = TRUE
    /\ nextID = 0
    /\ history = <<>>
    /\ stream = [v \in Viewer |-> "away"]
    /\ backlog = [v \in Viewer |-> <<>>]
    /\ channel = [v \in Viewer |-> <<>>]
    /\ severed = 0
    /\ lastID = [v \in Viewer |-> 0]
    /\ foreign = [v \in Viewer |-> FALSE]
    /\ owed = [v \in Viewer |-> {}]
    /\ brokerRestarts = 0

-----------------------------------------------------------------------------
(* Publish.                                                                *)

\* appendHistoryLocked
Remembered(h, i) ==
    IF Len(h) < HistoryLimit THEN Append(h, i) ELSE Append(Tail(h), i)

\* A full channel loses its first event for a resync at its end.
Enqueue(ch, i) ==
    IF Len(ch) < BufferSize THEN Append(ch, Changed(i)) ELSE Append(Tail(ch), ResyncAt(i))

\* What the broker promises holds from a viewer's subscription, and over its
\* end from an ID that this process gave.
Promised(v) == v \in Subscribed \/ (lastID[v] # 0 /\ ~foreign[v])

Owe(i) == owed' = [v \in Viewer |-> IF Promised(v) THEN owed[v] \cup {i} ELSE owed[v]]

\* An event that no one has subscribed to gets no ID.
PublishUnheard ==
    /\ ~brokerOpen \/ (Subscribed = {} /\ severed = 0)
    /\ Owe(0)
    /\ UNCHANGED <<brokerOpen, nextID, history, stream, backlog, channel, severed,
                   lastID, foreign, brokerRestarts>>

Publish ==
    /\ brokerOpen /\ (Subscribed # {} \/ severed > 0)
    /\ nextID < MaxEventID
    /\ nextID' = nextID + 1
    /\ history' = Remembered(history, nextID + 1)
    /\ channel' = [v \in Viewer |-> IF v \in Subscribed THEN Enqueue(channel[v], nextID + 1)
                                    ELSE channel[v]]
    /\ Owe(nextID + 1)
    /\ UNCHANGED <<brokerOpen, stream, backlog, severed, lastID, foreign, brokerRestarts>>

\* The IDs are those of every site.
PublishElsewhere ==
    /\ brokerOpen
    /\ nextID < MaxEventID
    /\ nextID' = nextID + 1
    /\ UNCHANGED <<brokerOpen, history, stream, backlog, channel, severed, lastID,
                   foreign, owed, brokerRestarts>>

-----------------------------------------------------------------------------
(* The streams.                                                            *)

\* Mutant: the ID before the oldest is held to be followed by it.
MissedFrom(i) ==
    \/ history = <<>>
    \/ i + 1 < history[1] \/ i > history[Len(history)]

\* Whether the history may lack an event after the given ID.
Missed(i) ==
    \/ history = <<>>
    \/ i < history[1] \/ i > history[Len(history)]

\* The IDs ascend, so that the later ones are the end of the history.
ReplayAfter(i) ==
    LET first == CHOOSE k \in 1 .. Len(history) + 1 :
                     \A j \in 1 .. Len(history) : history[j] > i <=> j >= k
    IN  [k \in 1 .. Len(history) + 1 - first |-> Changed(history[first + k - 1])]

Subscribe(v) ==
    /\ stream[v] = "away"
    /\ brokerOpen
    /\ stream' = [stream EXCEPT ![v] = "subscribed"]
    /\ backlog' = [backlog EXCEPT ![v] =
                     IF lastID[v] = 0 THEN <<>>
                     ELSE IF Missed(lastID[v]) THEN <<ResyncAt(0)>>
                     ELSE ReplayAfter(lastID[v])]
    /\ UNCHANGED <<brokerOpen, nextID, history, channel, severed, lastID, foreign,
                   owed, brokerRestarts>>

\* The answer is 503, on which an EventSource does not try again.
SubscribeRefused(v) ==
    /\ stream[v] = "away"
    /\ ~brokerOpen
    /\ stream' = [stream EXCEPT ![v] = "failed"]
    /\ UNCHANGED <<brokerOpen, nextID, history, backlog, channel, severed, lastID,
                   foreign, owed, brokerRestarts>>

\* The dashboard is opened anew, or turns to the site again.
Reopen(v) ==
    /\ stream[v] \in {"away", "failed"}
    /\ stream' = [stream EXCEPT ![v] = "away"]
    /\ lastID' = [lastID EXCEPT ![v] = 0]
    /\ foreign' = [foreign EXCEPT ![v] = FALSE]
    /\ owed' = [owed EXCEPT ![v] = {}]
    /\ UNCHANGED <<brokerOpen, nextID, history, backlog, channel, severed, brokerRestarts>>

\* writeRealtimeEvent, and what the dashboard makes of the event.
Receive(v, e) ==
    /\ lastID' = [lastID EXCEPT ![v] = IF e.id = 0 THEN @ ELSE e.id]
    /\ foreign' = [foreign EXCEPT ![v] = @ /\ e.id = 0]
    /\ owed' = [owed EXCEPT ![v] = IF e.resync THEN {} ELSE @ \ {e.id}]

WriteBacklog(v) ==
    /\ stream[v] \in {"subscribed", "draining"}
    /\ backlog[v] # <<>>
    /\ Receive(v, Head(backlog[v]))
    /\ backlog' = [backlog EXCEPT ![v] = Tail(@)]
    /\ UNCHANGED <<brokerOpen, nextID, history, stream, channel, severed, brokerRestarts>>

\* A closed subscription still gives what its channel holds.
WriteEvent(v) ==
    /\ stream[v] \in {"subscribed", "draining"}
    /\ backlog[v] = <<>> /\ channel[v] # <<>>
    /\ Receive(v, Head(channel[v]))
    /\ channel' = [channel EXCEPT ![v] = Tail(@)]
    /\ UNCHANGED <<brokerOpen, nextID, history, stream, backlog, severed, brokerRestarts>>

\* The history goes with the last subscription.
DropHistory(subs, cut) ==
    history' = IF subs = {} /\ cut = 0 THEN <<>> ELSE history

\* The viewer has lost its stream.  Without an ID of this process its next one
\* begins anew.  A resync that it did not get is not repeated for the events
\* up to its last ID.
Leaves(v) ==
    /\ stream' = [stream EXCEPT ![v] = "away"]
    /\ backlog' = [backlog EXCEPT ![v] = <<>>]
    /\ channel' = [channel EXCEPT ![v] = <<>>]
    /\ owed' = [owed EXCEPT ![v] =
                  IF lastID[v] = 0 \/ foreign[v] THEN {}
                  ELSE IF \E e \in Items(channel[v]) : e.resync THEN @ \ (1 .. lastID[v])
                  ELSE @]

\* Subscription.Close, at the end of the handler.
Unsubscribed(v) ==
    IF stream[v] = "subscribed" THEN DropHistory(Subscribed \ {v}, severed)
    ELSE history' = history

\* The stream's minute is over, a write fails, or the dashboard turns away.
EndStream(v) ==
    /\ stream[v] \in {"subscribed", "draining"}
    /\ Leaves(v)
    /\ Unsubscribed(v)
    /\ UNCHANGED <<brokerOpen, nextID, severed, lastID, foreign, brokerRestarts>>

\* The viewer's connection is gone, and the server writes on until it notices.
Sever(v) ==
    /\ v \in Subscribed
    /\ severed < MaxSevered
    /\ severed' = severed + 1
    /\ Leaves(v)
    /\ UNCHANGED <<brokerOpen, nextID, history, lastID, foreign, brokerRestarts>>

NoticeSevered ==
    /\ severed > 0
    /\ severed' = severed - 1
    /\ DropHistory(Subscribed, severed - 1)
    /\ UNCHANGED <<brokerOpen, nextID, stream, backlog, channel, lastID, foreign, owed,
                   brokerRestarts>>

-----------------------------------------------------------------------------
(* The process.                                                            *)

\* Broker.Close, at the start of a shutdown.
CloseBroker ==
    /\ brokerOpen
    /\ brokerOpen' = FALSE
    /\ history' = <<>>
    /\ severed' = 0
    /\ stream' = [v \in Viewer |-> IF v \in Subscribed THEN "draining" ELSE stream[v]]
    /\ UNCHANGED <<nextID, backlog, channel, lastID, foreign, owed, brokerRestarts>>

\* The process ends, closed or not, and another begins with a new broker.
RestartBroker ==
    /\ brokerRestarts < MaxBrokerRestarts
    /\ brokerRestarts' = brokerRestarts + 1
    /\ brokerOpen' = TRUE
    /\ nextID' = 0
    /\ history' = <<>>
    /\ severed' = 0
    /\ stream' = [v \in Viewer |-> IF stream[v] = "failed" THEN "failed" ELSE "away"]
    /\ backlog' = [v \in Viewer |-> <<>>]
    /\ channel' = [v \in Viewer |-> <<>>]
    /\ foreign' = [v \in Viewer |-> lastID[v] # 0]
    /\ owed' = [v \in Viewer |-> {}]
    /\ UNCHANGED lastID

ViewerNext(v) ==
    \/ Subscribe(v) \/ SubscribeRefused(v) \/ Reopen(v)
    \/ WriteBacklog(v) \/ WriteEvent(v)
    \/ EndStream(v) \/ Sever(v)

RealtimeNext ==
    \/ \E v \in Viewer : ViewerNext(v)
    \/ PublishUnheard \/ Publish \/ PublishElsewhere
    \/ NoticeSevered \/ CloseBroker \/ RestartBroker

RealtimeSpec == RealtimeInit /\ [][RealtimeNext]_realtimeVars

-----------------------------------------------------------------------------
(* Every variable keeps its type.                                          *)
RealtimeTypeOK ==
    /\ brokerOpen \in BOOLEAN
    /\ nextID \in 0 .. MaxEventID
    /\ history \in Seq(EventID) /\ Len(history) <= HistoryLimit
    /\ stream \in [Viewer -> {"away", "subscribed", "draining", "failed"}]
    /\ backlog \in [Viewer -> Seq(StreamEvent)]
    /\ channel \in [Viewer -> Seq(StreamEvent)]
    /\ \A v \in Viewer : Len(channel[v]) <= BufferSize
    /\ severed \in 0 .. MaxSevered
    /\ lastID \in [Viewer -> 0 .. MaxEventID]
    /\ foreign \in [Viewer -> BOOLEAN]
    /\ owed \in [Viewer -> SUBSET (0 .. MaxEventID)]
    /\ brokerRestarts \in 0 .. MaxBrokerRestarts

(* A viewer with a stream is told of every change that the broker          *)
(* published since its first subscription, through full channels, trimmed  *)
(* and dropped histories, and streams that end and are taken up again:     *)
(* what it does not know of yet is on its way, or a resync is.  Excepted   *)
(* are the changes before a subscription without an ID of this process,    *)
(* and those for which a resync was on its way when an earlier stream      *)
(* ended.                                                                  *)
NoSilentGap ==
    \A v \in Subscribed :
        \/ \E e \in ToCome(v) : e.resync
        \/ owed[v] \subseteq {e.id : e \in ToCome(v)}
=============================================================================
