------------------------------ MODULE EventStream ------------------------------
(* Push events on their way from the backend to one consumer: the bounded queue  *)
(* of its _Subscriber in the daemon and, for a remote client, the push task of   *)
(* its connection, the connection, and the bounded queue of its _Subscriber in   *)
(* WebSocketBackend.  Subscribers do not touch one another, so one is enough.    *)
EXTENDS Integers, Sequences

SE == INSTANCE SequencesExt

CONSTANTS
    Session,
    LocalFilter,    \* what a consumer in the daemon's process may ask for: a session,
                    \* or NoSession for all of them
    RemoteFilter,   \* what one behind a WebSocket may ask for
    QueueMax,       \* SUBSCRIBER_QUEUE_MAX
    GapDrop,        \* SUBSCRIBER_GAP_DROP
    WireMax,        \* bound on the frames between send_text and the receive loop
    MaxSeq,         \* bound on the events
    NoSession

\* Assumed of the constants, by the modules that instantiate this one, too.
StreamAssumption ==
    /\ NoSession \notin Session
    /\ LocalFilter \cup RemoteFilter \subseteq Session \cup {NoSession}
    /\ GapDrop \in Nat \ {0}
    /\ QueueMax \in Nat /\ QueueMax >= GapDrop
    /\ WireMax \in Nat \ {0}
    /\ MaxSeq \in Nat

VARIABLES
    remote,         \* is the consumer behind a WebSocket?
    filter,         \* the session it asks for
    seq,            \* the backend's _seq
    queue,          \* the queue of the daemon's subscriber
    subscribed,     \* is it in the backend's list, and not closed?
    wire,           \* frames sent and not yet received
    remoteQueue,    \* the queue of the client's subscriber
    remoteOpen,     \* is that one not closed?
    received,       \* what the consumer has taken
    reading,        \* does the consumer's iterator go on?
    unended,        \* history: was there no room for the end marker?
    offered         \* history: the events emitted while the consumer was subscribed
                    \*          that it asked for
consumerVars == <<remote, filter>>
streamVars == <<consumerVars, seq, queue, subscribed, wire, remoteQueue, remoteOpen, received,
          reading, unended, offered>>

Item == [kind : {"event", "gap", "end"}, seq : 0 .. MaxSeq, session : Session \cup {NoSession}]

Event(n, s) == [kind |-> "event", seq |-> n, session |-> s]
Gap(n) == [kind |-> "gap", seq |-> n, session |-> NoSession]
End == [kind |-> "end", seq |-> seq, session |-> NoSession]

StreamTypeOK ==
    /\ remote \in BOOLEAN
    /\ filter \in Session \cup {NoSession}
    /\ seq \in 0 .. MaxSeq
    /\ queue \in Seq(Item) /\ Len(queue) <= QueueMax
    /\ wire \in Seq(Item) /\ Len(wire) <= WireMax
    /\ remoteQueue \in Seq(Item) /\ Len(remoteQueue) <= QueueMax
    /\ received \in Seq(Item)
    /\ subscribed \in BOOLEAN
    /\ remoteOpen \in BOOLEAN
    /\ reading \in BOOLEAN
    /\ unended \in BOOLEAN
    /\ offered \in SUBSET (1 .. MaxSeq)

StreamInit ==
    /\ remote \in BOOLEAN
    /\ filter \in IF remote THEN RemoteFilter ELSE LocalFilter
    /\ seq = 0
    /\ queue = <<>>
    /\ subscribed = TRUE
    /\ wire = <<>>
    /\ remoteQueue = <<>>
    /\ remoteOpen = remote
    /\ received = <<>>
    /\ reading = TRUE
    /\ unended = FALSE
    /\ offered = {}

--------------------------------------------------------------------------------
(* _Subscriber.                                                                 *)

\* matches: a gap names no session.
Matches(wanted, item) == wanted = NoSession \/ item.session = wanted

Truncated(q) == SubSeq(q, 1, IF Len(q) <= QueueMax THEN Len(q) ELSE QueueMax)

\* Mutant: the oldest events are dropped and no gap is queued.
PushSilently(q, item) ==
    IF Len(q) < QueueMax THEN Append(q, item)
    ELSE Append(SubSeq(q, GapDrop + 1, Len(q)), item)

\* push, to a subscriber that is not closed.
Push(q, item) ==
    IF Len(q) < QueueMax THEN Append(q, item)
    ELSE Truncated(SubSeq(q, GapDrop + 1, Len(q)) \o <<Gap(item.seq), item>>)

\* close: a full queue gets no end.
Closed(q) == Truncated(Append(q, End))

--------------------------------------------------------------------------------
(* The daemon.                                                                  *)

\* The connection's subscriber asks for every session.
DaemonFilter == IF remote THEN NoSession ELSE filter

\* _emit.
Emit(s) ==
    /\ seq < MaxSeq
    /\ seq' = seq + 1
    /\ LET item == Event(seq + 1, s)
       IN  /\ queue' = IF subscribed /\ Matches(DaemonFilter, item) THEN Push(queue, item) ELSE queue
           /\ offered' = IF subscribed /\ Matches(filter, item)
                         THEN offered \cup {item.seq} ELSE offered
    /\ UNCHANGED <<consumerVars, unended, subscribed, wire, remoteQueue, remoteOpen, received, reading>>

\* aclose of the backend: the subscribers are closed and let go.
SubscribersClose ==
    /\ subscribed
    /\ subscribed' = FALSE
    /\ queue' = Closed(queue)
    /\ unended' = (Len(queue) >= QueueMax)
    /\ UNCHANGED <<consumerVars, seq, wire, remoteQueue, remoteOpen, received, reading, offered>>

\* push_pump: send_text waits while the connection takes no more.  The end of the
\* iterator ends the push task and sends nothing.
Pump ==
    /\ remote /\ remoteOpen
    /\ queue # <<>>
    /\ Len(wire) < WireMax
    /\ wire' = IF Head(queue).kind = "end" THEN wire ELSE Append(wire, Head(queue))
    /\ queue' = Tail(queue)
    /\ UNCHANGED <<consumerVars, unended, seq, subscribed, remoteQueue, remoteOpen, received, reading, offered>>

--------------------------------------------------------------------------------
(* The client of a remote consumer.                                             *)

\* Mutant: every frame is handled in a task of its own.
DispatchAny ==
    /\ \E i \in DOMAIN wire :
        /\ remoteQueue' = IF reading /\ Matches(filter, wire[i])
                          THEN Push(remoteQueue, wire[i]) ELSE remoteQueue
        /\ wire' = SE!RemoveAt(wire, i)
    /\ UNCHANGED <<consumerVars, unended, seq, queue, subscribed, remoteOpen, received, reading, offered>>

\* _dispatch_push, of the frame the receive loop read.
Dispatch ==
    /\ wire # <<>>
    /\ remoteQueue' = IF reading /\ Matches(filter, Head(wire))
                      THEN Push(remoteQueue, Head(wire)) ELSE remoteQueue
    /\ wire' = Tail(wire)
    /\ UNCHANGED <<consumerVars, unended, seq, queue, subscribed, remoteOpen, received, reading, offered>>

\* The connection is lost, or the client closes: frames on their way and the
\* daemon's subscriber are gone, the client's subscriber is closed.
ConnectionEnds ==
    /\ remoteOpen
    /\ remoteOpen' = FALSE
    /\ subscribed' = FALSE
    /\ queue' = <<>>
    /\ wire' = <<>>
    /\ remoteQueue' = IF reading THEN Closed(remoteQueue) ELSE remoteQueue
    /\ UNCHANGED <<consumerVars, unended, seq, received, reading, offered>>

--------------------------------------------------------------------------------
(* The consumer.                                                                *)

Consumed(item) ==
    /\ received' = IF item.kind = "end" THEN received ELSE Append(received, item)
    /\ reading' = (item.kind # "end")

\* The iterator of subscribe() yields, or returns.
Take ==
    /\ reading
    /\ \/ /\ ~remote
          /\ queue # <<>>
          /\ Consumed(Head(queue))
          /\ queue' = Tail(queue)
          /\ UNCHANGED remoteQueue
       \/ /\ remote
          /\ remoteQueue # <<>>
          /\ Consumed(Head(remoteQueue))
          /\ remoteQueue' = Tail(remoteQueue)
          /\ UNCHANGED queue
    /\ UNCHANGED <<consumerVars, unended, seq, subscribed, wire, remoteOpen, offered>>

\* The consumer breaks out of its loop: the subscriber is closed and removed.
ConsumerLeaves ==
    /\ reading
    /\ reading' = FALSE
    /\ \/ ~remote /\ subscribed' = FALSE /\ queue' = <<>> /\ UNCHANGED remoteQueue
       \/ remote /\ remoteQueue' = <<>> /\ UNCHANGED <<subscribed, queue>>
    /\ UNCHANGED <<consumerVars, unended, seq, wire, remoteOpen, received, offered>>

--------------------------------------------------------------------------------

StreamNext ==
    \/ \E s \in Session : Emit(s)
    \/ SubscribersClose
    \/ Pump
    \/ Dispatch
    \/ ConnectionEnds
    \/ Take
    \/ ConsumerLeaves

StreamSpec == StreamInit /\ [][StreamNext]_streamVars

\* The event loops of the daemon and of the client run what is ready, and the
\* consumer goes on reading.
StreamFairness == WF_streamVars(Pump) /\ WF_streamVars(Dispatch) /\ WF_streamVars(Take)
FairStream == StreamSpec /\ StreamFairness

--------------------------------------------------------------------------------

\* What the consumer has, followed by what is on its way to it.
Stream == received \o remoteQueue \o wire \o queue

Connected == reading /\ (remote => remoteOpen)

\* Whatever overflows on the way, the consumer gets the events in the order of their
\* numbers, none twice, and a gap before the event it names as the next one
\* (expected_next_seq).
StreamInOrder ==
    \A i, j \in DOMAIN Stream :
        i < j => /\ Stream[i].seq <= Stream[j].seq
                 /\ Stream[i].kind = "event" /\ Stream[j].kind = "event"
                        => Stream[i].seq < Stream[j].seq

Accounts(item, n) ==
    \/ item.kind = "event" /\ item.seq = n
    \/ item.kind = "gap" /\ item.seq >= n

\* An event the consumer asked for reaches it, or a gap later in the stream says
\* that it has to reload ("drop the oldest events and emit a synthetic gap"), also
\* when that gap is itself the oldest item of a queue that overflows again.
LossIsAnnounced ==
    Connected => \A n \in offered : \E i \in DOMAIN Stream : Accounts(Stream[i], n)

\* What a consumer may rely on when it folds the stream into its view.
StreamIsComplete == StreamInOrder /\ LossIsAnnounced

\* And the consumer comes to know: events are never held back for good.  (Both sets
\* only grow, and MaxSeq ends the events.)
LossIsReported ==
    []<>(Connected => \A n \in offered : \E i \in DOMAIN received : Accounts(received[i], n))

\* The backend's aclose releases a consumer in its process: the iterator ends
\* ("Release subscribers"), unless the queue had no room for the end marker.
CloseReleases == ~remote /\ ~subscribed ~> ~reading \/ unended
================================================================================
