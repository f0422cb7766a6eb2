----------------------- MODULE HAPPlatformTCPStreamManager -----------------------
(***************************************************************************)
(* The TCP streams of the POSIX platform.  The listener's file handle is   *)
(* armed as long as another stream can be accepted.  The run loop collects *)
(* the events of all file handles, then invokes their callbacks one after  *)
(* the other, which open, close and re-arm streams that are still waiting  *)
(* for their turn.                                                         *)
(***************************************************************************)
EXTENDS Naturals, FiniteSets

CONSTANTS
    MaxTCPStreams,      \* maxConcurrentTCPStreams
    MaxBacklog          \* connections that wait to be accepted (64)

ASSUME StreamAssumption == MaxTCPStreams \in Nat \ {0} /\ MaxBacklog \in Nat \ {0}

Streams == 1 .. MaxTCPStreams
Interests == {"hasBytesAvailable", "hasSpaceAvailable"}

VARIABLES
    tcpListener,        \* tcpStreamListener: whether it is open, whether it is armed
    tcpStreams,         \* fileDescriptor # -1, interests, whether there are bytes to be read
    numTCPStreams,
    backlog,
    ready,              \* the file handles whose callbacks are due, with their events
    delivered           \* the last event that a stream's owner got

tcpVars == <<tcpListener, tcpStreams, numTCPStreams, backlog, ready, delivered>>

NoTCPStream == [open |-> FALSE, interests |-> {}, bytes |-> FALSE]
NotDelivered == [stream |-> 0, events |-> {}]
OpenStreams == {i \in Streams : tcpStreams[i].open}

TCPInit ==
    /\ tcpListener = [open |-> FALSE, armed |-> FALSE]
    /\ tcpStreams = [i \in Streams |-> NoTCPStream]
    /\ numTCPStreams = 0
    /\ backlog = 0
    /\ ready = {}
    /\ delivered = NotDelivered

\* HAPPlatformTCPStreamManagerOpenListener: when the accessory server starts, which has
\* closed its streams.  The file handle is armed for reading.
OpenListener ==
    /\ ~tcpListener.open
    /\ OpenStreams = {}
    /\ tcpListener' = [open |-> TRUE, armed |-> TRUE]
    /\ UNCHANGED <<tcpStreams, numTCPStreams, backlog, ready, delivered>>

\* A file handle that is deregistered gets no event any more.
Deregistered(owner) == ready' = {r \in ready : r.owner # owner}

\* HAPPlatformTCPStreamManagerCloseListener: connections not accepted are reset.
CloseListener ==
    /\ tcpListener.open
    /\ tcpListener' = [open |-> FALSE, armed |-> FALSE]
    /\ backlog' = 0
    /\ Deregistered(0)
    /\ UNCHANGED <<tcpStreams, numTCPStreams, delivered>>

\* Controllers connect, give up before they are accepted, and send.
Controllers ==
    /\ \/ /\ tcpListener.open
          /\ backlog < MaxBacklog
          /\ backlog' = backlog + 1
          /\ UNCHANGED tcpStreams
       \/ /\ backlog > 0
          /\ backlog' = backlog - 1
          /\ UNCHANGED tcpStreams
       \/ \E i \in OpenStreams : tcpStreams' = [tcpStreams EXCEPT ![i].bytes = TRUE] /\ UNCHANGED backlog
    /\ UNCHANGED <<tcpListener, numTCPStreams, ready, delivered>>

\* The run loop's wait for file handles that are ready; sockets can be written.
EventsOf(i) ==
    tcpStreams[i].interests \ (IF tcpStreams[i].bytes THEN {} ELSE {"hasBytesAvailable"})

Collect ==
    /\ ready = {}
    /\ ready' = {[owner |-> i, events |-> EventsOf(i)] : i \in {i \in OpenStreams : EventsOf(i) # {}}}
            \cup (IF tcpListener.armed /\ backlog > 0 THEN {[owner |-> 0, events |-> {}]} ELSE {})
    /\ ready' # {}
    /\ UNCHANGED <<tcpListener, tcpStreams, numTCPStreams, backlog, delivered>>

\* HAPPlatformTCPStreamManagerAcceptTCPStream, from the listener's callback: into the
\* first free element; the last one disarms the listener.  It fails without a change
\* when the connection is gone (kHAPError_Busy or kHAPError_Unknown).
FreeStream == CHOOSE i \in Streams \ OpenStreams : \A j \in Streams \ OpenStreams : i <= j

AcceptTCPStream ==
    /\ \E r \in ready : r.owner = 0
    /\ Deregistered(0)
    /\ IF backlog > 0 /\ numTCPStreams < MaxTCPStreams
       THEN /\ tcpStreams' = [tcpStreams EXCEPT ![FreeStream] = [NoTCPStream EXCEPT !.open = TRUE]]
            /\ numTCPStreams' = numTCPStreams + 1
            /\ backlog' = backlog - 1
            /\ tcpListener' = [tcpListener EXCEPT !.armed = @ /\ numTCPStreams' < MaxTCPStreams]
       ELSE UNCHANGED <<tcpStreams, numTCPStreams, backlog, tcpListener>>
    /\ UNCHANGED delivered

\* HAPPlatformTCPStreamClose: the first element that gets free arms the listener.
CloseTCPStream(i) ==
    /\ i \in OpenStreams
    /\ tcpStreams' = [tcpStreams EXCEPT ![i] = NoTCPStream]
    /\ numTCPStreams' = numTCPStreams - 1
    /\ tcpListener' = [tcpListener EXCEPT
            !.armed = @ \/ (tcpListener.open /\ MaxTCPStreams - numTCPStreams' = 1)]
    /\ Deregistered(i)
    /\ UNCHANGED <<backlog, delivered>>

\* HAPPlatformTCPStreamUpdateInterests.
UpdateInterests(i, interests) ==
    /\ i \in OpenStreams
    /\ tcpStreams' = [tcpStreams EXCEPT ![i].interests = interests]
    /\ UNCHANGED <<tcpListener, numTCPStreams, backlog, ready, delivered>>

\* HAPPlatformTCPStreamRead takes what there is; without it, kHAPError_Busy.
ReadTCPStream(i) ==
    /\ i \in OpenStreams
    /\ tcpStreams[i].bytes
    /\ tcpStreams' = [tcpStreams EXCEPT ![i].bytes = FALSE]
    /\ UNCHANGED <<tcpListener, numTCPStreams, backlog, ready, delivered>>

\* HandleTCPStreamFileHandleCallback: the events that are still of interest, if any.
StillWantedFaulty(r) == r.events   \* Faulty: interests of the time of the wait

StillWanted(r) == r.events \cap tcpStreams[r.owner].interests

DeliverEvent(r) ==
    /\ r \in ready
    /\ r.owner # 0
    /\ ready' = ready \ {r}
    /\ delivered' = IF StillWanted(r) = {} THEN NotDelivered
                    ELSE [stream |-> r.owner, events |-> StillWanted(r)]
    /\ UNCHANGED <<tcpListener, tcpStreams, numTCPStreams, backlog>>

TCPNext ==
    \/ OpenListener \/ CloseListener
    \/ Controllers \/ Collect
    \/ AcceptTCPStream
    \/ \E i \in Streams :
        \/ CloseTCPStream(i)
        \/ ReadTCPStream(i)
        \/ \E interests \in SUBSET Interests : UpdateInterests(i, interests)
    \/ \E r \in ready : DeliverEvent(r)

TCPSpec == TCPInit /\ [][TCPNext]_tcpVars
-----------------------------------------------------------------------------
\* A controller that connects is accepted as soon as there is room, and a full manager
\* does not spin: the listener is armed exactly if a stream is free, in whatever order
\* streams and the listener are opened and closed.
ArmedWhileThereIsRoom ==
    /\ numTCPStreams = Cardinality(OpenStreams)
    /\ tcpListener.armed <=> tcpListener.open /\ numTCPStreams < MaxTCPStreams

\* A stream's owner gets no event that it has given up, although the event was collected
\* before, and none for a stream that it has closed.
OnlyWantedEvents ==
    delivered' # delivered /\ delivered' # NotDelivered =>
        /\ tcpStreams[delivered'.stream].open
        /\ delivered'.events \subseteq tcpStreams[delivered'.stream].interests

\* Who connects is accepted as soon as there is room, and who holds a stream hears of
\* it what it asked for.
StreamsAreServed == [][ArmedWhileThereIsRoom' /\ OnlyWantedEvents]_tcpVars
==================================================================================
