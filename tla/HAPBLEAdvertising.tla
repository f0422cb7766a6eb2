--------------------------- MODULE HAPBLEAdvertising ---------------------------
(***************************************************************************)
(* What an accessory tells those who are not connected to it: Bluetooth LE *)
(* advertisements with the GSN and the configuration number, encrypted     *)
(* broadcasts of events, and for an accessory on IP the configuration      *)
(* number of its Bonjour record.  The state behind it survives power       *)
(* losses, restarts, firmware updates and resets, each of which may be cut *)
(* off between two writes of the key-value store.                          *)
(***************************************************************************)
EXTENDS HAPAccessoryServerStorage

CONSTANTS Notifying,        \* characteristics with disconnected notifications
          Broadcastable,    \* and those that can be broadcast
          Images,           \* firmware versions
          FirstContents,    \* of the Configuration domain
          MaxLeft           \* bounds the keys that a reset leaves when it is cut off

ASSUME AdvertisingAssumption ==
    /\ Broadcastable \subseteq Notifying /\ Notifying \subseteq Nat \ {0}
    /\ Images \subseteq Nat \ {0} /\ MaxLeft \in Nat
    /\ \A s \in FirstContents :              \* well-formed, and without a broadcast key
           /\ DOMAIN s \subseteq {"CN", "GSN", "Version", "LTSK"}
           /\ StoredCN(s) \in 1 .. UINT32_MAX
           /\ GSN(s) \in [gsn : 1 .. UINT16_MAX, didIncrement : BOOLEAN]
           /\ "Version" \in DOMAIN s => s["Version"] \in Images

VARIABLES hardware,     \* "BLE" or "IP": the transport of the accessory
          store, broadcasts, pairings,           \* the key-value store
          image, server, adv, air, failed,       \* the process, and what is on the air
          outdated,     \* the event that is announced was raised before a reset or an update
          sent, seen, asked, last, interrupted   \* history

persistent == <<store, broadcasts, pairings>>
process == <<image, server, adv, air, failed, outdated>>
history == <<sent, seen, asked, last, interrupted>>
vars == <<hardware, persistent, process, history>>

Quiet == [connected |-> FALSE, iid |-> 0, interval |-> 0, timer |-> FALSE,
          fastTimer |-> FALSE, fastStarted |-> FALSE]
Silent == [kind |-> "None"]
NothingSeen == [image |-> 0, cn |-> 0, changed |-> FALSE]

World == [store |-> store, broadcasts |-> broadcasts, pairings |-> pairings,
          image |-> image, server |-> server, adv |-> adv, air |-> air,
          outdated |-> outdated, failed |-> "None", kept |-> store]

\* The process is gone.
Off(w) == [w EXCEPT !.image = 0, !.server = "None", !.adv = Quiet, !.air = Silent]

\* An assertion that fails ends the process: of its step, only what was written before
\* the assertion is kept.
Asserts(w, condition, name) ==
    IF condition \/ w.failed # "None" THEN w ELSE [w EXCEPT !.failed = name, !.kept = w.store]

Outcome(w) == IF w.failed = "None" THEN w ELSE [Off(w) EXCEPT !.store = w.kept]

Becomes(w) ==
    LET u == Outcome(w)
    IN  /\ store' = u.store /\ broadcasts' = u.broadcasts /\ pairings' = u.pairings
        /\ image' = u.image /\ server' = u.server
        /\ adv' = u.adv /\ air' = u.air /\ failed' = u.failed
        /\ outdated' = (u.outdated /\ (u.failed # "None" \/ u.adv.timer))
        /\ UNCHANGED hardware

Init ==
    /\ hardware \in {"BLE", "IP"} /\ store \in FirstContents
    /\ broadcasts = <<>> /\ pairings = "None"
    /\ image = 0 /\ server = "None" /\ adv = Quiet /\ air = Silent /\ failed = "None"
    /\ outdated = FALSE
    /\ sent = [offset |-> 0, again |-> FALSE] /\ seen = 0
    /\ asked = [c \in Broadcastable |-> 0] /\ last = NothingSeen /\ interrupted = 0

-------------------------------------------------------------------------------
\* Advertising.

\* Advertise every 20 ms: an event, or the first half minute.
Fast(a) == a.timer \/ ~a.fastStarted \/ a.fastTimer

\* HAPBLEAccessoryServerGetAdvertisingParameters, for a key-value store that works.
Advertised(w) ==
    IF w.adv.connected THEN Silent
    ELSE IF w.adv.iid # 0
    THEN [kind |-> "Event", iid |-> w.adv.iid, interval |-> w.adv.interval,
          gsn |-> GSN(w.store).gsn]
    ELSE [kind |-> "State", gsn |-> GSN(w.store).gsn, cn |-> ShortCN(w.store),
          fast |-> Fast(w.adv)]

\* HAPBLEAccessoryServerDidStartAdvertising.
DidStartAdvertising(w, ok) ==
    IF w.adv.fastStarted THEN w
    ELSE [Asserts(w, ~w.adv.fastTimer, "DidStartAdvertising") EXCEPT
             !.adv.fastStarted = TRUE, !.adv.fastTimer = ok]

\* UpdateAdvertisingData of the BLE transport: an event without a key is fatal.
UpdateAdvertisingData(w, ok) ==
    LET a == Advertised(w)
        b == [w EXCEPT !.air = a, !.store = IF a.kind = "State" THEN CNCreated(@) ELSE @]
    IN  IF w.server # "Running" THEN [w EXCEPT !.air = Silent]
        ELSE IF a.kind = "None" THEN b
        ELSE DidStartAdvertising(Asserts(b, a.kind = "Event" => HasKey(w.store),
                                         "GetAdvertisingParameters"), ok)

\* HAPIPServiceDiscoverySetHAPService: c# and the "not paired" flag of sf.
SetHAPService(w) ==
    [w EXCEPT !.store = CNCreated(@),
              !.air = [kind |-> "Record", cn |-> CN(w.store), free |-> w.pairings = "None"]]

\* AdvertisingTimerExpired: the GSN is announced for as long as the event was.
TimerExpired(w, ok) ==
    LET b == [Asserts(w, ~w.adv.connected, "AdvertisingTimerExpired") EXCEPT
                 !.adv.timer = w.adv.iid # 0 /\ ok, !.adv.iid = 0, !.adv.interval = 0]
    IN  UpdateAdvertisingData(b, ok)

FastTimerExpired(w, ok) ==
    LET b == [Asserts(w, ~w.adv.connected, "AdvertisingTimerExpired") EXCEPT
                 !.adv.fastTimer = FALSE]
        c == IF b.adv.iid # 0 /\ ~b.adv.timer
             THEN [b EXCEPT !.adv.iid = 0, !.adv.interval = 0, !.adv.timer = ok] ELSE b
    IN  UpdateAdvertisingData(c, ok)

\* HAPBLEAccessoryServerDidConnect.
DidConnect(w) ==
    UpdateAdvertisingData(
        [Asserts(w, ~w.adv.connected, "DidConnect") EXCEPT
            !.adv = [@ EXCEPT !.connected = TRUE, !.fastTimer = FALSE, !.timer = FALSE,
                              !.iid = 0, !.interval = 0],
            !.store = Reconnected(@)], FALSE)

\* Faulty: what was incremented in the connection counts for the time after it.
DidDisconnectFaulty(w, ok) ==
    UpdateAdvertisingData([w EXCEPT !.adv.connected = FALSE, !.adv.fastTimer = ok], ok)

\* HAPBLEAccessoryServerDidDisconnect.
DidDisconnect(w, ok) ==
    LET free == w.adv.fastStarted /\ ~w.adv.fastTimer /\ ~w.adv.timer /\ w.adv.iid = 0
    IN  UpdateAdvertisingData(
            [Asserts(w, free, "DidDisconnect") EXCEPT
                !.adv.connected = FALSE, !.adv.fastTimer = ok, !.store = Reconnected(@)], ok)

-------------------------------------------------------------------------------
\* Events.

MayBroadcast(w, c) ==
    /\ c \in Broadcastable /\ ~w.adv.connected
    /\ HasKey(w.store) /\ Broadcast(w.store).expiration # GSN(w.store).gsn
    /\ BroadcastInterval(w.broadcasts, c) # 0

Incremented(w) == [w EXCEPT !.store = IncrementGSN(@)[2]]

\* The broadcast part of HAPBLEAccessoryServerDidRaiseEvent: the event on the air is
\* given up before the value is read, and not replaced when the handler fails.
BroadcastEvent(w, c, read, ok) ==
    LET a == UpdateAdvertisingData([w EXCEPT !.adv.timer = FALSE, !.adv.iid = 0], ok)
        b == [Incremented(a) EXCEPT !.adv.timer = ok]
        d == IF ok THEN [b EXCEPT !.adv.iid = c,
                                  !.adv.interval = BroadcastInterval(w.broadcasts, c)]
                   ELSE b
    IN  UpdateAdvertisingData(IF read THEN d ELSE a, ok)

\* Its last part: the first event since the last connection increments the GSN.
NotifyDisconnected(w, ok) ==
    LET b == Asserts(w, w.adv.iid = 0 /\ ~w.adv.timer, "DidRaiseEvent")
    IN  IF GSN(w.store).didIncrement THEN w
        ELSE IF w.adv.connected THEN Incremented(b)
        ELSE UpdateAdvertisingData([Incremented(b) EXCEPT !.adv.timer = ok], ok)

DidRaiseEvent(w, c, read, ok) ==
    IF MayBroadcast(w, c) THEN BroadcastEvent(w, c, read, ok) ELSE NotifyDisconnected(w, ok)

\* HAPBLEAccessoryServerDidSendEventNotification.
DidSendEventNotification(w) ==
    IF GSN(w.store).didIncrement THEN w
    ELSE Incremented(Asserts(w, w.adv.iid = 0 /\ ~w.adv.timer, "DidSendEventNotification"))

\* GSNs since the key was generated.
Offset(w) ==
    LET begin == Broadcast(w.store).expiration - KeyLife + 1
    IN  (GSN(w.store).gsn - begin) % UINT16_MAX

\* An event that is raised before an update is never on the air.
RaiseEvent(c, read, ok) ==
    LET w == DidRaiseEvent(World, c, read, ok)
    IN  /\ server # "None" /\ hardware = "BLE"
        /\ Becomes(w)
        /\ sent' = IF MayBroadcast(World, c) /\ read /\ sent.offset >= 0
                      /\ ~Updates(store, image)
                   THEN [offset |-> Offset(w), again |-> Offset(w) <= sent.offset] ELSE sent
        /\ UNCHANGED <<seen, asked, last, interrupted>>

\* The connected central is sent an indication.
SendEventNotification ==
    /\ adv.connected /\ Becomes(DidSendEventNotification(World)) /\ UNCHANGED history

-------------------------------------------------------------------------------
\* The central.

Connect ==
    /\ server = "Running" /\ air.kind \in {"State", "Event"} /\ Becomes(DidConnect(World))
    /\ UNCHANGED history

\* Stop continues when the central is gone.
Disconnect(ok) ==
    LET w == DidDisconnect(World, ok)
    IN  /\ adv.connected
        /\ Becomes(IF server = "Running" THEN w ELSE [w EXCEPT !.server = "Idle"])
        /\ seen' = GSN(w.store).gsn
        /\ UNCHANGED <<sent, asked, last, interrupted>>

Paired == adv.connected /\ pairings = "Current"

\* HAPBLEProtocolHandleConfigurationRequest, when it asks for a new key.
GenerateKey ==
    /\ Paired /\ Becomes([World EXCEPT !.store = KeyGenerated(@)])
    /\ sent' = [offset |-> 0, again |-> FALSE]
    /\ UNCHANGED <<seen, asked, last, interrupted>>

\* HAPBLECharacteristicHandleConfigurationRequest, with properties that enable (an
\* interval) or disable (zero) broadcasts; a list that is full is an error.
ConfigureBroadcast(c, interval) ==
    LET list == IF interval = 0 THEN DisableBroadcast(broadcasts, c)
                                ELSE EnableBroadcast(broadcasts, c, interval)
    IN  /\ Paired /\ (interval # 0 => ~CannotEnable(broadcasts, c))
        /\ Becomes([World EXCEPT !.broadcasts = list])
        /\ asked' = [asked EXCEPT ![c] = interval]
        /\ UNCHANGED <<sent, seen, last, interrupted>>

\* Pair Setup, and the removal of the last pairing.
Pair ==
    /\ server = "Running" /\ pairings = "None" /\ (hardware = "BLE" => adv.connected)
    /\ LET w == [World EXCEPT !.pairings = "Current"]
       IN  Becomes(IF hardware = "IP" THEN SetHAPService(w) ELSE w)
    /\ UNCHANGED history

RemovePairing ==
    /\ server = "Running" /\ pairings = "Current" /\ (hardware = "BLE" => adv.connected)
    /\ LET w == [World EXCEPT !.pairings = "None"]
       IN  Becomes(IF hardware = "IP" THEN SetHAPService(w) ELSE w)
    /\ UNCHANGED history

-------------------------------------------------------------------------------
\* Start, stop and reset of the server.

\* Bound: an update that was cut off is not rolled back.
Boot(i) ==
    /\ server = "None"
    /\ i >= interrupted
    /\ Becomes([World EXCEPT !.image = i, !.server = "Idle"])
    /\ UNCHANGED history

\* Faulty: pairings are kept when their key is gone.
LTSKWritesFaulty(w) ==
    IF "LTSK" \in DOMAIN w.store THEN <<>> ELSE <<[w EXCEPT !.store = LoadLTSK(@)]>>

\* HAPAccessoryServerLoadLTSK.
LTSKWrites(w) ==
    IF "LTSK" \in DOMAIN w.store THEN <<>>
    ELSE LET purged == [w EXCEPT !.pairings = "None"]
         IN  <<purged, [purged EXCEPT !.store = LoadLTSK(@)]>>

\* The writes of HAPAccessoryServerPrepareStart, and of StartBridge after it.
StartWrites(changed) ==
    LET versions == VersionWrites(store, image, hardware = "BLE")
        worlds == [i \in DOMAIN versions |-> [World EXCEPT !.store = versions[i]]]
        keys == LTSKWrites(Last(worlds))
        ready == Last(worlds \o keys)
    IN  worlds \o keys \o
            (IF changed THEN <<[ready EXCEPT !.store = IncrementCN(@)]>> ELSE <<>>)

\* What a central knows of the GSN is void after a firmware update.
SeenAfterStart == IF GSN(store') = GSN(store) THEN seen ELSE 0

ReportedCN(s) == IF hardware = "IP" THEN CN(s) ELSE ShortCN(s)

\* HAPAccessoryServerStart, and StartBridge on IP.  The number is published at the start,
\* or when the event that is announced is over.
\* Bound: the numbers are not followed over a start that fails.
Start(changed, ok) ==
    LET ready == [Last(StartWrites(changed)) EXCEPT
                     !.server = "Running", !.outdated = @ \/ Updates(store, image)]
        w == IF hardware = "IP" THEN SetHAPService(ready) ELSE UpdateAdvertisingData(ready, ok)
    IN  /\ server = "Idle" /\ (changed => hardware = "IP") /\ ~IsDowngrade(store, image)
        /\ Becomes(w)
        /\ last' = IF w.failed # "None" THEN NothingSeen
                   ELSE IF "CN" \notin DOMAIN w.store THEN last
                   ELSE [image |-> image, cn |-> ReportedCN(w.store), changed |-> changed]
        /\ interrupted' = 0 /\ seen' = SeenAfterStart
        /\ UNCHANGED <<sent, asked>>

\* HAPAccessoryServerStop; without a connection it completes at once.
Stop ==
    /\ server = "Running"
    /\ Becomes([UpdateAdvertisingData([World EXCEPT !.server = "Stopping"], FALSE) EXCEPT
                   !.server = IF adv.connected THEN "Stopping" ELSE "Idle"])
    /\ UNCHANGED history

\* Bound: a broadcast key that is left by a reset that was cut off is not followed.
NoHistory ==
    /\ sent' = [offset |-> IF HasKey(store') THEN -1 ELSE 0, again |-> FALSE] /\ seen' = 0
    /\ asked' = [c \in Broadcastable |-> BroadcastInterval(broadcasts', c)]
    /\ last' = NothingSeen /\ interrupted' = 0

\* HAPRestoreFactorySettings, also while an event is announced.
RestoreFactorySettings ==
    /\ server = "Idle"
    /\ Becomes([World EXCEPT !.store = KVSPurged, !.broadcasts = <<>>, !.pairings = "None",
                            !.outdated = TRUE])
    /\ NoHistory

\* HAPRemoveAllPairings.
RemoveAllPairings ==
    /\ server = "Idle"
    /\ Becomes([World EXCEPT !.pairings = "None"]) /\ UNCHANGED history

-------------------------------------------------------------------------------
\* Timers, power losses and the end of the process.

AdvertisingTimer(ok) == /\ adv.timer /\ Becomes(TimerExpired(World, ok))
                        /\ UNCHANGED history
FastTimer(ok) == /\ adv.fastTimer /\ Becomes(FastTimerExpired(World, ok))
                 /\ UNCHANGED history

\* A central that was connected does not know the GSN for sure.
PowerLoss ==
    /\ server # "None" /\ Becomes(Off(World))
    /\ seen' = IF adv.connected THEN 0 ELSE seen
    /\ UNCHANGED <<sent, asked, last, interrupted>>

\* Bound: one power loss in a start, before one completes.
PowerLossInStart(changed) ==
    /\ server = "Idle" /\ (changed => hardware = "IP") /\ ~IsDowngrade(store, image)
    /\ interrupted = 0
    /\ \E i \in DOMAIN StartWrites(changed) : Becomes(Off(StartWrites(changed)[i]))
    /\ interrupted' = image /\ seen' = SeenAfterStart
    /\ UNCHANGED <<sent, asked, last>>

\* The key may have been expired before the GSN is written.
PowerLossInIncrement ==
    /\ hardware = "BLE" /\ server # "None"
    /\ ~GSN(store).didIncrement /\ adv.iid = 0 /\ ~adv.timer
    /\ Becomes(Off([World EXCEPT !.store = IncrementGSN(@)[1]]))
    /\ seen' = IF adv.connected THEN 0 ELSE seen
    /\ UNCHANGED <<sent, asked, last, interrupted>>

\* The pairings that are left were made with the key that may be gone.
PowerLossInReset ==
    /\ server = "Idle"
    /\ \E rest \in {r \in KVSPartlyPurged(store) : Cardinality(DOMAIN r) <= MaxLeft},
          list \in {broadcasts, <<>>} :
          /\ list = <<>> => rest = KVSPurged
          /\ Becomes(Off([World EXCEPT !.store = rest, !.broadcasts = list,
                             !.pairings = IF @ # "None" /\ "LTSK" \notin DOMAIN rest
                                          THEN "Stale" ELSE @]))
    /\ NoHistory

Next ==
    \/ \E i \in Images : Boot(i)
    \/ \E changed, ok \in BOOLEAN : Start(changed, ok)
    \/ Stop \/ RestoreFactorySettings \/ RemoveAllPairings
    \/ Connect \/ Pair \/ RemovePairing \/ GenerateKey
    \/ SendEventNotification
    \/ \E ok \in BOOLEAN : Disconnect(ok) \/ AdvertisingTimer(ok) \/ FastTimer(ok)
    \/ \E c \in Notifying, read, ok \in BOOLEAN : RaiseEvent(c, read, ok)
    \/ \E c \in Broadcastable, i \in Intervals \cup {0} : ConfigureBroadcast(c, i)
    \/ PowerLoss \/ PowerLossInIncrement \/ PowerLossInReset
    \/ \E changed \in BOOLEAN : PowerLossInStart(changed)

Spec == Init /\ [][Next]_vars

-------------------------------------------------------------------------------
\* Properties.

\* Types.
StateTypeOK ==
    /\ hardware \in {"BLE", "IP"} /\ pairings \in {"None", "Current", "Stale"}
    /\ image \in Images \cup {0} /\ server \in {"None", "Idle", "Running", "Stopping"}
    /\ DOMAIN store \subseteq {"CN", "GSN", "Broadcast", "Version", "LTSK"}
    /\ StoredCN(store) \in 1 .. UINT32_MAX /\ GSN(store).gsn \in 1 .. UINT16_MAX
    /\ CN(store) \in 1 .. UINT16_MAX /\ ShortCN(store) \in 1 .. UINT8_MAX
    /\ Broadcast(store).expiration \in 0 .. UINT16_MAX
    /\ Len(broadcasts) <= BroadcastsPerKey
    /\ adv \in [connected : BOOLEAN, iid : Broadcastable \cup {0},
                interval : Intervals \cup {0}, timer : BOOLEAN,
                fastTimer : BOOLEAN, fastStarted : BOOLEAN]

\* No assertion on the advertising state fails, and no event is announced without a key
\* (HAPFatalError in UpdateAdvertisingData) -- but for an event that is still announced
\* when the factory settings have been restored or the firmware was updated: the next one
\* that is raised, or the start, ends the process.
FailsOnlyWhenOutdated ==
    failed # "None" => outdated /\ failed \in {"DidRaiseEvent", "GetAdvertisingParameters"}

\* What is on the air is what the state says now: the GSN and the configuration number
\* are never stale, and advertising is fast while an event or a start asks for it.
AdvertisingIsCurrent ==
    server = "Running" =>
        IF hardware = "IP" THEN air = SetHAPService(World).air
        ELSE LET now == Advertised(World)
             IN  /\ air.kind = now.kind
                 /\ air.kind = "Event" => air = now
                 /\ air.kind = "State" =>
                        air.gsn = now.gsn /\ air.cn = now.cn /\ (now.fast => air.fast)

\* The GSN is the nonce of a broadcast: under one key every event has a later one, through
\* connections, power losses, firmware updates and the wrap of the GSN.
NoncesAreFresh == ~sent.again

\* A central that was told the GSN when it disconnected sees another one when events have
\* been raised since (didIncrement), also when there were events in the connection.
EventsAreTold ==
    ~adv.connected /\ GSN(store).didIncrement /\ seen # 0 => GSN(store).gsn # seen

\* The sorted list holds what the controllers configured last, for each characteristic.
ConfiguredAsAsked ==
    /\ \A c \in Broadcastable : BroadcastInterval(broadcasts, c) = asked[c]
    /\ \A i, j \in DOMAIN broadcasts : i < j => broadcasts[i].cid < broadcasts[j].cid

\* A running accessory has no pairings that were made with a key it has lost.
PairingsMatchKey == server = "Running" => pairings # "Stale"

\* The configuration number that is published after a firmware update or a change of the
\* bridge differs from the one published before, however often the start was cut off.
ChangesAreNumbered ==
    [][ last # NothingSeen /\ last' # NothingSeen
        /\ (last'.image # last.image \/ (last' # last /\ last'.changed))
        => last'.cn # last.cn ]_vars

\* Whatever fails or fires first, an event is announced only while the timer that takes it
\* off the air is registered.
EventsAreTimed == adv.iid # 0 => adv.timer

\* What the accessory keeps is consistent after any sequence of connections, events,
\* updates, resets and power losses, and no assertion on it fails but for an event that
\* is outdated.
StateIsSound == StateTypeOK /\ FailsOnlyWhenOutdated /\ ConfiguredAsAsked /\ PairingsMatchKey

\* Centrals learn of what changed: from an advertisement that is current, that stops to
\* announce an event in time, and by a GSN that differs from the one they saw.
ChangesAreAnnounced == AdvertisingIsCurrent /\ EventsAreTimed /\ EventsAreTold
===============================================================================
