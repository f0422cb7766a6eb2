------------------------- MODULE HAPIPAccessoryServer -------------------------
(***************************************************************************)
(* The IP accessory server, from start to stop: session descriptors, the   *)
(* TCP streams behind them, event notifications, and the five timers that  *)
(* drive the server (garbage collection, idle time, state transition,      *)
(* event notifications, callback).  Bluetooth LE is there as far as it     *)
(* takes part in stopping.                                                 *)
(*                                                                         *)
(* One action is one callback of the run loop.  A handler is an operator   *)
(* from the state of the world to its next state.                          *)
(***************************************************************************)
EXTENDS Naturals, FiniteSets

CONSTANTS Sessions,      \* the session descriptors of the storage
          Chars,         \* characteristics that support event notification
          SwitchEvents,  \* those that are Programmable Switch Events
          MaxFill,       \* capacity of an inbound buffer, in pieces of input
          MaxParts,      \* the longest response, in writes to the stream
          HasBLE,        \* whether there is a Bluetooth LE transport
          Pipelining     \* whether controllers send requests ahead

ASSUME ServerAssumption ==
    /\ IsFiniteSet(Sessions) /\ Sessions # {}
    /\ SwitchEvents \subseteq Chars
    /\ MaxFill \in Nat \ {0, 1} /\ MaxParts \in Nat \ {0}
    /\ HasBLE \in BOOLEAN /\ Pipelining \in BOOLEAN

VARIABLES server,    \* HAPAccessoryServer: state and callback timer
          ip,        \* server->ip: state, listener and timers
          session,   \* per descriptor
          ble,       \* the BLE connection, as far as stopping needs it
          told,      \* the state the application saw in its last callback
          failed     \* an assertion does not hold

vars == <<server, ip, session, ble, told, failed>>

World == [server |-> server, ip |-> ip, session |-> session, ble |-> ble,
          told |-> told, failed |-> failed]

Becomes(w) ==
    /\ server' = w.server /\ ip' = w.ip /\ session' = w.session
    /\ ble' = w.ble /\ told' = w.told /\ failed' = w.failed

-----------------------------------------------------------------------------
(* Sessions.  owed is bookkeeping of the model: the characteristics that    *)
(* changed since the controller last received their value; sent: those     *)
(* whose value the message being written carries.                          *)

Silence == [kind |-> "None", left |-> 0]

Unused == [state |-> "Free", inbound |-> 0, out |-> Silence,
           isSecured |-> FALSE, verified |-> FALSE, transient |-> FALSE,
           subscribed |-> {},
           flags |-> {}, due |-> TRUE, old |-> FALSE, owed |-> {}, sent |-> {}]

Used(w) == {s \in Sessions : w.session[s].state # "Free"}
Open(w) == {s \in Sessions : w.session[s].state \in {"Reading", "Writing"}}

\* Nothing of a next request has arrived.
AtRest(w, s) == w.session[s].state = "Reading" /\ w.session[s].inbound = 0

Stopping(w) == w.ip.state = "Stopping"
AtLimit(w)  == Used(w) = Sessions

HAPAssert(w, holds) == [w EXCEPT !.failed = @ \/ ~holds]
CloseSession(w, s) ==
    [w EXCEPT !.session[s] = [Unused EXCEPT !.state = "Idle"], !.ip.gcTimer = TRUE]

\* Several sessions, in the order of the storage, which does not matter.
CloseSessions(w, S) ==
    [w EXCEPT !.session = [s \in Sessions |->
                   IF s \in S THEN [Unused EXCEPT !.state = "Idle"] ELSE @[s]],
              !.ip.gcTimer = @ \/ S # {}]

-----------------------------------------------------------------------------
(* The server and its application.                                         *)

GetState(w) == w.ip.state

HandleUpdatedState(w) == [w EXCEPT !.told = GetState(w)]

ScheduleHandleUpdatedState(w) == [w EXCEPT !.server.callbackTimer = TRUE]

CompleteShutdown(w) ==
    HandleUpdatedState([HAPAssert(w, ~w.ip.discoverable) EXCEPT !.server.state = "Idle"])
\* Faulty: sessions are given their time only while the server stops.
MaxIdleWhenStopping(w) ==
    LET close == {s \in Open(w) : Stopping(w) /\ (AtRest(w, s) \/ w.session[s].old)}
    IN  [CloseSessions(w, close) EXCEPT
             !.ip.listener     = @ /\ ~Stopping(w),
             !.ip.maxIdleTimer = Stopping(w) /\ Open(w) \ close # {},
             !.ip.gcTimer      = TRUE]

schedule_max_idle_time_timer(w) ==
    LET limited == AtLimit(w) \/ Stopping(w)
        close   == {s \in Open(w) : \/ AtRest(w, s) /\ Stopping(w)
                                    \/ w.session[s].old /\ limited}
    IN  [CloseSessions(w, close) EXCEPT
             !.ip.listener     = @ /\ ~Stopping(w),
             !.ip.maxIdleTimer = limited /\ Open(w) \ close # {},
             !.ip.gcTimer      = TRUE]

HAPIPSessionDestroy(w) ==
    [w EXCEPT !.session = [s \in Sessions |-> IF @[s].state = "Idle" THEN Unused ELSE @[s]]]

\* The last session is gone: the server is stopped.
EndTransition(w) ==
    ScheduleHandleUpdatedState(
        [HAPAssert(w, Stopping(w) /\ w.ip.nextState = "Idle") EXCEPT
             !.ip = [@ EXCEPT !.transitionTimer = FALSE, !.maxIdleTimer = FALSE,
                              !.discoverable = FALSE,
                              !.state = "Idle", !.nextState = "Undefined"]])

collect_garbage(w) ==
    LET swept == HAPIPSessionDestroy([w EXCEPT !.ip.gcTimer = FALSE])
    IN  IF swept.ip.listener \/ Used(swept) # {} THEN swept ELSE EndTransition(swept)
engine_stop(w) ==
    IF w.ip.state = "Running"
    THEN ScheduleHandleUpdatedState(
             [HAPAssert(w, w.ip.nextState = "Undefined") EXCEPT
                  !.ip.state = "Stopping", !.ip.nextState = "Idle",
                  !.ip.transitionTimer = TRUE])
    ELSE w

\* The BLE transport: a connection that may be cut is cut, otherwise the
\* timer of the last response sees to it.
Cancel(w) == [w EXCEPT !.ble.cancelled = TRUE]
TryStop(w) ==
    IF w.ble.link = "Connected"
    THEN IF w.ble.safeTimer = "Off" THEN Cancel(w) ELSE w
    ELSE [w EXCEPT !.ble.link = "Off"]
HAPAccessoryServerStop(w) ==
    IF w.server.state = "Idle"
    THEN w
    ELSE LET stopped == TryStop([w EXCEPT !.server.state = "Stopping"])
         IN  IF stopped.ble.link = "Off" THEN engine_stop(stopped) ELSE stopped

-----------------------------------------------------------------------------
(* Event notifications.  due: a second has passed since the last message,  *)
(* so that events are no longer held back.                                 *)
\* Faulty: events that are held back are forgotten.
WriteEventsDropping(v) ==
    LET now == IF v.due THEN v.flags ELSE v.flags \cap SwitchEvents
    IN  IF now = {} THEN [v EXCEPT !.flags = {}]
        ELSE [v EXCEPT !.flags = {}, !.due = FALSE, !.sent = now,
                       !.state = "Writing", !.out = [kind |-> "Event", left |-> 1]]

write_event_notifications(v) ==
    LET now == IF v.due THEN v.flags ELSE v.flags \cap SwitchEvents
    IN  IF ~v.isSecured
        THEN [v EXCEPT !.flags = {}, !.due = FALSE]
        ELSE IF now = {}
        THEN v
        ELSE [v EXCEPT !.flags = @ \ now, !.due = FALSE, !.sent = now,
                       !.state = "Writing", !.out = [kind |-> "Event", left |-> 1]]

Flagged(w) == {s \in Sessions : AtRest(w, s) /\ w.session[s].flags # {}}
schedule_event_notifications(w) ==
    LET written == [w EXCEPT !.session = [s \in Sessions |->
                        IF s \in Flagged(w) THEN write_event_notifications(w.session[s])
                        ELSE w.session[s]]]
    IN  [written EXCEPT !.ip.eventTimer = Flagged(written) # {}]

\* The application raises an event, on no session but those in S.
engine_raise_event(w, c, S) ==
    LET raised == {s \in S : c \in w.session[s].subscribed /\ ~w.session[s].transient}
        new    == {s \in raised : c \notin w.session[s].flags}
    IN  [w EXCEPT !.session = [s \in Sessions |->
                      LET v == w.session[s]
                      IN  IF s \in raised
                          THEN [v EXCEPT !.flags = @ \cup {c}, !.owed = @ \cup {c},
                                         !.sent = @ \ {c}]
                          ELSE v],
                  !.ip.eventTimer = @ \/ new # {}]

-----------------------------------------------------------------------------
(* Input and output.                                                       *)
\* Faulty: events raised during a request are left to the timer.
IOProgressionSilent(w, s) ==
    IF AtRest(w, s) /\ Stopping(w) THEN CloseSession(w, s) ELSE w

handle_io_progression(w, s) ==
    IF w.session[s].state = "Idle"
    THEN HAPAssert(w, w.ip.gcTimer)
    ELSE IF ~AtRest(w, s)
    THEN w
    ELSE IF Stopping(w)
    THEN CloseSession(w, s)
    ELSE LET checked == HAPAssert(w, w.ip.state = "Running")
         IN  IF w.session[s].flags = {} THEN checked ELSE schedule_event_notifications(checked)

\* Requests, as far as the server's sessions are concerned.  Verify: the last
\* message of Pair Verify; SetUp: transient Pair Setup, which secures a session
\* without a pairing; Pairings: a request that removes the pairing of the
\* sessions in it; Accessories: the response is written in chunks.
Requests ==
    [kind : {"Verify", "SetUp", "Other", "Accessories"}, chr : {"-"}, sessions : {{}}]
        \cup [kind : {"Subscribe", "Unsubscribe", "Write"}, chr : Chars, sessions : {{}}]
        \cup [kind : {"Pairings"}, chr : {"-"}, sessions : SUBSET Sessions]
\* Faulty: sessions whose pairing is removed stay open.
PairingsRequestOpen(w, s, removed) ==
    [w EXCEPT !.session = [t \in Sessions |->
         IF t \in removed /\ ~@[t].transient
         THEN [@[t] EXCEPT !.verified = FALSE] ELSE @[t]]]

handle_pairings_request(w, s, removed) ==
    LET unpaired == [w EXCEPT !.session = [t \in Sessions |->
                        IF t \in removed /\ ~@[t].transient
                        THEN [@[t] EXCEPT !.verified = FALSE] ELSE @[t]]]
    IN  CloseSessions(unpaired, {t \in Sessions \ {s} :
            LET v == unpaired.session[t]
            IN  v.state = "Reading" /\ v.isSecured /\ ~v.verified})

\* Any other transient session is closed, whatever it is doing.
handle_pair_setup_request(w, s) ==
    [CloseSessions(w, {t \in Sessions \ {s} : w.session[t].transient}) EXCEPT
         !.session[s].verified = TRUE, !.session[s].transient = TRUE]

handle_http_request(w, s, r) ==
    LET plain   == ~w.session[s].isSecured
        secured == w.session[s].isSecured /\ ~w.session[s].transient
    IN  CASE r.kind = "Verify" /\ plain ->
                 [w EXCEPT !.session[s].verified = TRUE]
          [] r.kind = "SetUp" /\ plain ->
                 handle_pair_setup_request(w, s)
          [] r.kind = "Subscribe" /\ secured ->
                 [w EXCEPT !.session[s].subscribed = @ \cup {r.chr}]
          [] r.kind = "Unsubscribe" /\ secured ->
                 [w EXCEPT !.session[s] =
                      [w.session[s] EXCEPT !.subscribed = @ \ {r.chr}, !.flags = @ \ {r.chr},
                                           !.owed = @ \ {r.chr}, !.sent = @ \ {r.chr}]]
          [] r.kind = "Write" /\ secured ->
                 engine_raise_event(w, r.chr, Sessions \ {s})
          [] r.kind = "Pairings" /\ secured ->
                 handle_pairings_request(w, s, r.sessions)
          [] OTHER -> w

\* The response takes parts writes.
handle_http(w, s, r, parts) ==
    [handle_http_request(w, s, r) EXCEPT
         !.session[s] = [@ EXCEPT !.state = "Writing",
                                  !.out   = [kind |-> IF r.kind = "Accessories"
                                                      THEN "Accessories" ELSE "Response",
                                             left |-> parts]]]

\* What the bytes in the inbound buffer turn out to be: part of a request, a
\* request with ahead pieces of the next one behind it, or neither.
Inputs ==
    [kind : {"Partial", "Bad"}, request : {"-"}, parts : {1}, ahead : {0}]
        \cup [kind : {"Request"}, request : Requests, parts : 1 .. MaxParts,
              ahead : IF Pipelining THEN {0, 1} ELSE {0}]
handle_input(w, s, i) ==
    LET v       == w.session[s]
        checked == IF v.verified THEN [w EXCEPT !.session[s].isSecured = TRUE]
                                 ELSE HAPAssert(w, ~v.isSecured)
    IN  CASE i.kind = "Bad" -> CloseSession(checked, s)
          [] i.kind = "Partial" ->
                 IF v.inbound = MaxFill THEN CloseSession(checked, s) ELSE checked
          [] i.kind = "Request" ->
                 handle_http([checked EXCEPT !.session[s].inbound = i.ahead],
                             s, i.request, i.parts)

Fits(i, pieces) == i.ahead < pieces

\* A request that changes nothing is answered like any other.
Matters(v, r) ==
    CASE r.kind \in {"Other", "Accessories"} -> TRUE
      [] r.kind \in {"Verify", "SetUp"} -> ~v.verified
      [] r.kind = "Subscribe" -> v.verified /\ ~v.transient /\ r.chr \notin v.subscribed
      [] r.kind = "Unsubscribe" -> r.chr \in v.subscribed
      [] r.kind = "Write" -> v.verified /\ ~v.transient
      [] r.kind = "Pairings" ->
             /\ v.verified /\ ~v.transient
             /\ r.sessions \subseteq {t \in Sessions : session[t].verified}
             /\ r.sessions # {}

handle_output_completion(w, s, i) ==
    LET v    == w.session[s]
        next == [w EXCEPT !.session[s] =
                     [v EXCEPT !.state = "Reading", !.out = Silence,
                               !.owed = @ \ v.sent, !.sent = {}]]
    IN  IF v.inbound = 0 THEN next ELSE handle_input(next, s, i)

WriteOutboundData(w, s, i) ==
    LET v == w.session[s]
    IN  IF /\ v.out.left = 1 \/ v.out.kind = "Accessories"
           /\ v.isSecured /\ ~v.verified
        THEN CloseSession(w, s)
        ELSE IF v.out.left = 1
        THEN handle_output_completion(w, s, i)
        ELSE [w EXCEPT !.session[s].out.left = @ - 1]

-----------------------------------------------------------------------------
(* The run loop: streams.                                                  *)

NewSession == [Unused EXCEPT !.state = "Reading"]

HandlePendingTCPStream(s) ==
    /\ ip.listener /\ session[s].state = "Free"
    /\ LET opened == [World EXCEPT !.session[s] = NewSession]
       IN  Becomes(IF AtLimit(opened) THEN schedule_max_idle_time_timer(opened) ELSE opened)

\* The stream failed, or its input was closed by the controller.
StreamLost(s) ==
    /\ s \in Open(World)
    /\ Becomes(handle_io_progression(CloseSession(World, s), s))

ReadInboundData(s) ==
    /\ session[s].state = "Reading"
    /\ LET filled == [World EXCEPT !.session[s].old = FALSE, !.session[s].inbound = @ + 1]
       IN  \E i \in Inputs :
               /\ Fits(i, filled.session[s].inbound)
               /\ i.kind = "Request" => Matters(session[s], i.request)
               /\ Becomes(handle_io_progression(handle_input(filled, s, i), s))

HandleSpaceAvailable(s) ==
    /\ session[s].state = "Writing"
    /\ LET fresh == [World EXCEPT !.session[s].old = FALSE]
       IN  \E i \in IF session[s].out.left = 1 /\ session[s].inbound # 0
                    THEN {j \in Inputs :
                            /\ Fits(j, session[s].inbound)
                            /\ j.kind = "Request" => Matters(session[s], j.request)}
                    ELSE {[kind |-> "Partial", request |-> "-", parts |-> 1, ahead |-> 0]} :
               Becomes(handle_io_progression(WriteOutboundData(fresh, s, i), s))

-----------------------------------------------------------------------------
(* The run loop: timers.                                                   *)

handle_garbage_collection_timer ==
    ip.gcTimer /\ Becomes(collect_garbage(World))

handle_max_idle_time_timer ==
    ip.maxIdleTimer /\ Becomes(schedule_max_idle_time_timer(World))

handle_server_state_transition_timer ==
    /\ ip.transitionTimer
    /\ Becomes(schedule_max_idle_time_timer(
           HAPAssert([World EXCEPT !.ip.transitionTimer = FALSE], Stopping(World))))

handle_event_notification_timer ==
    ip.eventTimer /\ Becomes(schedule_event_notifications(World))

CallbackTimerExpired ==
    /\ server.callbackTimer
    /\ LET w == [World EXCEPT !.server.callbackTimer = FALSE]
       IN  Becomes(IF GetState(w) = "Idle" THEN CompleteShutdown(w) ELSE HandleUpdatedState(w))

SafeToDisconnectTimerExpired ==
    /\ ble.safeTimer = "Ripe"
    /\ LET w == [World EXCEPT !.ble.safeTimer = "Off"]
       IN  Becomes(IF server.state = "Running" THEN w ELSE Cancel(w))

\* Time passes: a second since the last event message, a minute since the
\* last input or output, a fifth of a second since the last BLE response.
Second(s) ==
    /\ s \in Open(World) /\ ~session[s].due
    /\ Becomes([World EXCEPT !.session[s].due = TRUE])

Minute(s) ==
    /\ s \in Open(World) /\ ~session[s].old
    /\ Becomes([World EXCEPT !.session[s].old = TRUE])

Moment ==
    /\ ble.safeTimer = "Fresh"
    /\ Becomes([World EXCEPT !.ble.safeTimer = "Ripe"])

-----------------------------------------------------------------------------
(* The application.                                                        *)

engine_start(w) ==
    [ScheduleHandleUpdatedState(
         HAPAssert(HAPAssert(w, w.ip.state = "Idle"), ~w.ip.listener)) EXCEPT
             !.ip.state = "Running", !.ip.listener = TRUE, !.ip.discoverable = TRUE]

PrepareStart(w) ==
    ScheduleHandleUpdatedState([w EXCEPT !.server.state = "Running"])

HAPAccessoryServerStart ==
    /\ server.state = "Idle"
    /\ Becomes(engine_start([PrepareStart(World) EXCEPT
                                 !.ble.link = IF HasBLE THEN "Listening" ELSE "Off"]))

\* The firmware is older than the one that ran before.
StartRefused ==
    /\ server.state = "Idle"
    /\ Becomes([PrepareStart(World) EXCEPT !.server.state = "Idle"])

Stop == Becomes(HAPAccessoryServerStop(World))

RaiseEvent(c) ==
    /\ server.state = "Running"
    /\ Becomes(engine_raise_event(World, c, Sessions))

-----------------------------------------------------------------------------
(* The BLE connection.                                                     *)

HandleConnectedCentral ==
    /\ ble.link = "Listening"
    /\ Becomes([World EXCEPT !.ble = [@ EXCEPT !.link = "Connected"]])

DidSendGATTResponse ==
    /\ ble.link = "Connected"
    /\ Becomes([World EXCEPT !.ble.safeTimer = "Fresh"])
\* Faulty: the server does not go on stopping.
DisconnectedForgetful ==
    /\ ble.link = "Connected"
    /\ Becomes([World EXCEPT !.ble = [link |-> "Listening", safeTimer |-> "Off",
                                      cancelled |-> FALSE]])

HandleDisconnectedCentral ==
    /\ ble.link = "Connected"
    /\ LET w == [World EXCEPT !.ble = [link |-> "Listening", safeTimer |-> "Off",
                                       cancelled |-> FALSE]]
       IN  Becomes(IF server.state = "Running" THEN w ELSE HAPAccessoryServerStop(w))

-----------------------------------------------------------------------------

Init ==
    /\ server = [state |-> "Idle", callbackTimer |-> FALSE]
    /\ ip = [state |-> "Idle", nextState |-> "Undefined", listener |-> FALSE,
             discoverable |-> FALSE, gcTimer |-> FALSE, maxIdleTimer |-> FALSE,
             transitionTimer |-> FALSE, eventTimer |-> FALSE]
    /\ session = [s \in Sessions |-> Unused]
    /\ ble = [link |-> "Off", safeTimer |-> "Off", cancelled |-> FALSE]
    /\ told = "Idle"
    /\ failed = FALSE

Timers ==
    \/ handle_garbage_collection_timer
    \/ handle_max_idle_time_timer
    \/ handle_server_state_transition_timer
    \/ handle_event_notification_timer
    \/ CallbackTimerExpired
    \/ SafeToDisconnectTimerExpired

Streams(s) ==
    \/ HandlePendingTCPStream(s)
    \/ StreamLost(s)
    \/ ReadInboundData(s)
    \/ HandleSpaceAvailable(s)

Time ==
    \/ \E s \in Sessions : Second(s)
    \/ \E s \in Sessions : Minute(s)
    \/ Moment

Application ==
    \/ HAPAccessoryServerStart
    \/ StartRefused
    \/ Stop
    \/ \E c \in Chars : RaiseEvent(c)

BLE ==
    \/ HandleConnectedCentral
    \/ DidSendGATTResponse
    \/ HandleDisconnectedCentral

Next ==
    \/ Timers
    \/ \E s \in Sessions : Streams(s)
    \/ Time
    \/ Application
    \/ BLE

Spec == Init /\ [][Next]_vars

(* Timers fire, time passes, a central the accessory drops is gone after a *)
(* while.  A central that asks for a response every 200 ms keeps the safe  *)
(* to disconnect timer from firing: it is assumed to pause now and again.  *)
Fairness ==
    /\ WF_vars(handle_garbage_collection_timer)
    /\ WF_vars(handle_max_idle_time_timer)
    /\ WF_vars(handle_server_state_transition_timer)
    /\ WF_vars(handle_event_notification_timer)
    /\ WF_vars(CallbackTimerExpired)
    /\ SF_vars(SafeToDisconnectTimerExpired)
    /\ WF_vars(Moment)
    /\ \A s \in Sessions : WF_vars(Second(s)) /\ WF_vars(Minute(s))
    /\ WF_vars(ble.cancelled /\ HandleDisconnectedCentral)

FairSpec == Spec /\ Fairness

\* Controllers that take what is written to them.
DrainingSpec == FairSpec /\ \A s \in Sessions : WF_vars(HandleSpaceAvailable(s))

-----------------------------------------------------------------------------
(* Properties.                                                             *)

TypeOK ==
    /\ server \in [state : {"Idle", "Running", "Stopping"}, callbackTimer : BOOLEAN]
    /\ ip \in [state : {"Idle", "Running", "Stopping"}, nextState : {"Undefined", "Idle"},
                listener : BOOLEAN, discoverable : BOOLEAN, gcTimer : BOOLEAN,
                maxIdleTimer : BOOLEAN, transitionTimer : BOOLEAN, eventTimer : BOOLEAN]
    /\ session \in [Sessions ->
           [state : {"Free", "Idle", "Reading", "Writing"}, inbound : 0 .. MaxFill,
            out : [kind : {"None", "Response", "Accessories", "Event"}, left : 0 .. MaxParts],
            isSecured : BOOLEAN, verified : BOOLEAN, transient : BOOLEAN,
            subscribed : SUBSET Chars, flags : SUBSET Chars, due : BOOLEAN, old : BOOLEAN,
            owed : SUBSET Chars, sent : SUBSET Chars]]
    /\ ble \in [link : {"Off", "Listening", "Connected"},
                 safeTimer : {"Off", "Fresh", "Ripe"}, cancelled : BOOLEAN]
    /\ told \in {"Idle", "Running", "Stopping"}
    /\ failed \in BOOLEAN

\* No assertion on the way of start, stop, input, output and collection fails:
\* above all the one in handle_input, that plain text is not taken from a session
\* that was secured once and whose pairing is gone, and the one in
\* collect_garbage, that the last session goes only while the server stops.
NeverFails == ~failed

\* A subscribed change is never lost between the event queue of a session and
\* the messages written to it, whatever is being read or written meanwhile.
EventsNotLost ==
    \A s \in Sessions : session[s].owed \subseteq session[s].flags \cup session[s].sent

\* A session that could be sent its events and has some is never left without
\* the timer that will do it.
EventTimerArmed == Flagged(World) # {} => ip.eventTimer

\* A server that is idle has taken everything down: no session, listener,
\* advertised service or BLE link outlives it, and it may be started again.
IdleMeansDown ==
    server.state = "Idle" =>
        /\ ip.state = "Idle" /\ ~ip.listener /\ ~ip.discoverable /\ Used(World) = {}
        /\ ~ip.transitionTimer /\ ~ip.maxIdleTimer
        /\ ble.link = "Off"

\* The application has seen the present state, or its callback is pending.
AppIsTold == server.callbackTimer \/ told = GetState(World)

\* Stop ends in the Idle state, and the application is told so.
StopEnds == server.state = "Stopping" ~> (server.state = "Idle" /\ told = "Idle")

\* A session that is at rest again and again is sent each event raised for it,
\* or is closed, or unsubscribes.
EventsDelivered ==
    \A s \in Sessions, c \in Chars :
        ([]<>(AtRest(World, s) \/ s \notin Open(World))) =>
            [](c \in session[s].flags => <>(c \notin session[s].flags))

\* At the limit, room is made or a controller leaves: some descriptor becomes
\* free, or some controller keeps its session busy.
RoomIsMade ==
    (AtLimit(World) /\ \A s \in Open(World) : session[s].old)
        ~> (~AtLimit(World) \/ \E s \in Open(World) : ~session[s].old)

\* The server is in one of its states, no assertion has failed, an idle server is
\* down and the application knows the state or is about to be told it.
ServerIsSound == TypeOK /\ NeverFails /\ IdleMeansDown /\ AppIsTold

\* An event that was raised for a subscriber is flagged or sent, and what is flagged
\* and may be sent has its timer.
EventsAreKept == EventsNotLost /\ EventTimerArmed
=============================================================================
