---------------------- MODULE HAPIPAccessoryServer_proofs ----------------------
(***************************************************************************)
(* Theorems about HAPIPAccessoryServer, for any number of session          *)
(* descriptors and characteristics.  A handler takes a world to the next   *)
(* one, so the invariants are predicates on worlds, each handler has a     *)
(* lemma, and a step becomes what its handlers make of the world.          *)
(***************************************************************************)
EXTENDS HAPIPAccessoryServer, TLAPS

ServerStates == {"Idle", "Running", "Stopping"}

SessionStates ==
    [state : {"Free", "Idle", "Reading", "Writing"}, inbound : 0 .. MaxFill,
     out : [kind : {"None", "Response", "Accessories", "Event"}, left : 0 .. MaxParts],
     isSecured : BOOLEAN, verified : BOOLEAN, transient : BOOLEAN,
     subscribed : SUBSET Chars, flags : SUBSET Chars, due : BOOLEAN, old : BOOLEAN,
     owed : SUBSET Chars, sent : SUBSET Chars]

IPStates ==
    [state : ServerStates, nextState : {"Undefined", "Idle"},
     listener : BOOLEAN, discoverable : BOOLEAN, gcTimer : BOOLEAN,
     maxIdleTimer : BOOLEAN, transitionTimer : BOOLEAN, eventTimer : BOOLEAN]

BLEStates ==
    [link : {"Off", "Listening", "Connected"},
     safeTimer : {"Off", "Fresh", "Ripe"}, cancelled : BOOLEAN]

Worlds ==
    [server : [state : ServerStates, callbackTimer : BOOLEAN], ip : IPStates,
     session : [Sessions -> SessionStates], ble : BLEStates,
     told : ServerStates, failed : BOOLEAN]

\* A session between the steps of a handler: what it owes its controller is flagged or
\* being sent, and who subscribed was secured.
Settled(v) ==
    /\ v.inbound # MaxFill
    /\ v.owed \subseteq v.flags \cup v.sent
    /\ v.flags \subseteq v.subscribed
    /\ v.subscribed # {} => v.isSecured

\* A session between handlers: it reads under the pairing that secured it, and it
\* writes as long as there is something to be written.
SessionSound(v) ==
    /\ Settled(v)
    /\ v.state = "Reading" => v.sent = {} /\ (v.isSecured => v.verified)
    /\ v.state = "Writing" => v.out.left # 0

\* A session that could be sent its events.
Waiting(v) == v.state = "Reading" /\ v.inbound = 0 /\ v.flags # {}

\* The stages of start and stop: what each state of the engine has and has not.
EngineSound(w) ==
    /\ w.ip.state = "Idle" =>
           /\ ~w.ip.listener /\ ~w.ip.discoverable
           /\ ~w.ip.transitionTimer /\ ~w.ip.maxIdleTimer /\ ~w.ip.gcTimer
           /\ w.ip.nextState = "Undefined"
           /\ \A s \in Sessions : w.session[s].state = "Free"
    /\ w.ip.state = "Running" =>
           w.ip.listener /\ ~w.ip.transitionTimer /\ w.ip.nextState = "Undefined"
    /\ w.ip.state = "Stopping" => w.ip.nextState = "Idle"
    /\ \A s \in Sessions : w.session[s].state = "Idle" => w.ip.gcTimer

ServerSound(w) ==
    /\ ~w.failed
    /\ w.server.callbackTimer \/ w.told = w.ip.state
    /\ w.server.state = "Idle" => w.ip.state = "Idle"
    /\ w.server.state = "Running" => w.ip.state = "Running"
    /\ w.ip.state # "Running" => w.ble.link = "Off"

\* A world whose sessions in S are sound and, when they wait for it, timed: a handler
\* may leave the others until it is done with them.
Sound(w, S) ==
    /\ w \in Worlds /\ EngineSound(w) /\ ServerSound(w)
    /\ \A s \in S : /\ SessionSound(w.session[s])
                    /\ Waiting(w.session[s]) => w.ip.eventTimer

\* The inductive invariant.
IInv == Sound(World, Sessions)

-------------------------------------------------------------------------------
\* Changes to a world.

LEMMA WorldFields ==
    ASSUME NEW w \in Worlds
    PROVE  /\ w.server \in [state : ServerStates, callbackTimer : BOOLEAN]
           /\ w.ip \in IPStates /\ w.ble \in BLEStates
           /\ w.session \in [Sessions -> SessionStates]
           /\ w.told \in ServerStates /\ w.failed \in BOOLEAN
BY DEF Worlds

\* One session changes.
With(w, s, x) == [w EXCEPT !.session[s] = x]

LEMMA WithFields ==
    ASSUME NEW w \in Worlds, NEW s \in Sessions, NEW x \in SessionStates
    PROVE  /\ With(w, s, x).server = w.server /\ With(w, s, x).ip = w.ip
           /\ With(w, s, x).ble = w.ble /\ With(w, s, x).told = w.told
           /\ With(w, s, x).failed = w.failed
           /\ With(w, s, x).session = [w.session EXCEPT ![s] = x]
           /\ With(w, s, x).session[s] = x
           /\ With(w, s, x) \in Worlds
BY DEF Worlds, With

LEMMA SessionChanged ==
    ASSUME NEW S \in SUBSET Sessions, NEW w, Sound(w, S),
           NEW s \in Sessions, NEW x \in SessionStates,
           x.state # "Free" => w.ip.state # "Idle", x.state = "Idle" => w.ip.gcTimer,
           NEW T \in SUBSET (S \cup {s}),
           s \in T => SessionSound(x) /\ (Waiting(x) => w.ip.eventTimer)
    PROVE  Sound(With(w, s, x), T)
<1> DEFINE u == With(w, s, x)
<1>1. w \in Worlds
  BY DEF Sound
<1>2. /\ u.server = w.server /\ u.ip = w.ip /\ u.ble = w.ble /\ u.told = w.told
      /\ u.failed = w.failed /\ u.session = [w.session EXCEPT ![s] = x] /\ u \in Worlds
  BY <1>1, WithFields
<1> HIDE DEF u
<1>3. \A t \in Sessions : u.session[t] = IF t = s THEN x ELSE w.session[t]
  BY <1>1, <1>2, WorldFields
<1>4. ServerSound(u)
  BY <1>2 DEF Sound, ServerSound
<1>5. EngineSound(u)
  BY <1>2, <1>3 DEF Sound, EngineSound
<1>6. Sound(u, T)
  BY <1>2, <1>3, <1>4, <1>5 DEF Sound
<1> QED
  BY <1>6 DEF u

\* The engine stays where it is, and the garbage collection timer is not turned off.
SameStage(i, j) ==
    /\ j \in IPStates
    /\ j.state = i.state /\ j.nextState = i.nextState
    /\ j.listener = i.listener /\ j.discoverable = i.discoverable
    /\ j.transitionTimer = i.transitionTimer /\ j.maxIdleTimer = i.maxIdleTimer
    /\ i.gcTimer => j.gcTimer

LEMMA TimersChanged ==
    ASSUME NEW i \in IPStates, NEW b \in BOOLEAN
    PROVE  /\ SameStage(i, i)
           /\ SameStage(i, [i EXCEPT !.eventTimer = b])
           /\ [i EXCEPT !.eventTimer = b].eventTimer = b
           /\ (i.gcTimer => b) => SameStage(i, [i EXCEPT !.gcTimer = b])
           /\ [i EXCEPT !.gcTimer = b].gcTimer = b
           /\ [i EXCEPT !.gcTimer = b].eventTimer = i.eventTimer
BY DEF IPStates, SameStage

\* Some sessions change, and timers go on.
LEMMA SessionsChanged ==
    ASSUME NEW S \in SUBSET Sessions, NEW w, Sound(w, S),
           NEW f \in [Sessions -> SessionStates], NEW i, SameStage(w.ip, i),
           w.ip.state = "Idle" => ~i.gcTimer /\ \A s \in Sessions : f[s].state = "Free",
           \A s \in Sessions : f[s].state = "Idle" => i.gcTimer,
           NEW T \in SUBSET Sessions,
           \A s \in T : SessionSound(f[s]) /\ (Waiting(f[s]) => i.eventTimer)
    PROVE  Sound([w EXCEPT !.session = f, !.ip = i], T)
<1> DEFINE u == [w EXCEPT !.session = f, !.ip = i]
<1>1. w \in Worlds
  BY DEF Sound
<1>2. /\ u.server = w.server /\ u.ble = w.ble /\ u.told = w.told
      /\ u.failed = w.failed /\ u.session = f /\ u.ip = i
  BY <1>1 DEF Worlds
<1>3. u \in Worlds
  BY <1>1 DEF Worlds, SameStage
<1> HIDE DEF u
<1>4. /\ u.ip.state = w.ip.state /\ u.ip.nextState = w.ip.nextState
      /\ u.ip.listener = w.ip.listener /\ u.ip.discoverable = w.ip.discoverable
      /\ u.ip.transitionTimer = w.ip.transitionTimer
      /\ u.ip.maxIdleTimer = w.ip.maxIdleTimer
  BY <1>2 DEF SameStage
<1>5. ServerSound(u)
  BY <1>2, <1>4 DEF Sound, ServerSound
<1>6. EngineSound(u)
  BY <1>2, <1>4 DEF Sound, EngineSound
<1>7. Sound(u, T)
  BY <1>2, <1>3, <1>5, <1>6 DEF Sound
<1> QED
  BY <1>7 DEF u

LEMMA UnusedSound ==
    /\ Unused \in SessionStates /\ SessionSound(Unused) /\ Unused.state = "Free"
    /\ \A l \in {"Idle", "Reading"} :
           /\ [Unused EXCEPT !.state = l] \in SessionStates
           /\ SessionSound([Unused EXCEPT !.state = l])
           /\ ~Waiting([Unused EXCEPT !.state = l])
           /\ [Unused EXCEPT !.state = l].state = l
<1>1. 0 \in 0 .. MaxFill /\ 0 \in 0 .. MaxParts /\ MaxFill # 0
  BY ServerAssumption
<1>2. Unused \in SessionStates
  BY <1>1 DEF Unused, SessionStates, Silence
<1>3. SessionSound(Unused) /\ Unused.state = "Free"
  BY <1>1 DEF Unused, SessionSound, Settled
<1>4. ASSUME NEW l \in {"Idle", "Reading"}
      PROVE  /\ [Unused EXCEPT !.state = l] \in SessionStates
             /\ SessionSound([Unused EXCEPT !.state = l])
             /\ ~Waiting([Unused EXCEPT !.state = l])
             /\ [Unused EXCEPT !.state = l].state = l
  <2>1. [Unused EXCEPT !.state = l] \in SessionStates
    BY <1>2 DEF SessionStates
  <2>2. [Unused EXCEPT !.state = l].state = l
    BY <1>2 DEF SessionStates
  <2>3. SessionSound([Unused EXCEPT !.state = l]) /\ ~Waiting([Unused EXCEPT !.state = l])
    BY <1>1 DEF Unused, SessionSound, Settled, Waiting
  <2> QED
    BY <2>1, <2>2, <2>3
<1> QED
  BY <1>2, <1>3, <1>4

LEMMA CloseSessionSound ==
    ASSUME NEW S \in SUBSET Sessions, NEW w, Sound(w, S),
           NEW s \in Sessions, w.ip.state # "Idle"
    PROVE  /\ Sound(CloseSession(w, s), S \cup {s})
           /\ CloseSession(w, s).ip.gcTimer /\ CloseSession(w, s).ip.state = w.ip.state
           /\ CloseSession(w, s).session[s].state = "Idle"
<1> DEFINE x == [Unused EXCEPT !.state = "Idle"]
           f == [w.session EXCEPT ![s] = x]
           i == [w.ip EXCEPT !.gcTimer = TRUE]
           u == [w EXCEPT !.session = f, !.ip = i]
<1>1. w \in Worlds
  BY DEF Sound
<1>2. CloseSession(w, s) = u
  BY <1>1 DEF CloseSession, Worlds
<1>3. x \in SessionStates /\ SessionSound(x) /\ x.state = "Idle" /\ ~Waiting(x)
  BY UnusedSound
<1> HIDE DEF x
<1>4. f \in [Sessions -> SessionStates]
  BY <1>1, <1>3, WorldFields
<1>5. SameStage(w.ip, i) /\ i.gcTimer /\ i.eventTimer = w.ip.eventTimer
  BY <1>1, WorldFields, TimersChanged
<1>6. \A t \in S \cup {s} : SessionSound(f[t]) /\ (Waiting(f[t]) => i.eventTimer)
  BY <1>1, <1>3, <1>5, WorldFields DEF Sound
<1>7. u.session = f /\ f[s] = x /\ u.ip = i
  BY <1>1, WorldFields DEF Worlds
<1> HIDE DEF f, i
<1>8. Sound(u, S \cup {s})
  BY <1>4, <1>5, <1>6, SessionsChanged
<1> QED
  BY <1>2, <1>3, <1>5, <1>7, <1>8 DEF SameStage

LEMMA CloseSessionsFields ==
    ASSUME NEW w \in Worlds, NEW C \in SUBSET Sessions
    PROVE  /\ SameStage(w.ip, CloseSessions(w, C).ip)
           /\ \A t \in Sessions \ C : CloseSessions(w, C).session[t] = w.session[t]
<1> DEFINE f == [t \in Sessions |-> IF t \in C THEN [Unused EXCEPT !.state = "Idle"]
                                    ELSE w.session[t]]
           b == w.ip.gcTimer \/ C # {}
<1>1. CloseSessions(w, C) = [w EXCEPT !.session = f, !.ip = [w.ip EXCEPT !.gcTimer = b]]
  BY DEF CloseSessions, Worlds
<1>2. b \in BOOLEAN /\ (w.ip.gcTimer => b) /\ w.ip \in IPStates
  BY WorldFields DEF IPStates
<1>3. \A t \in Sessions \ C : f[t] = w.session[t]
  OBVIOUS
<1> HIDE DEF b, f
<1>4. SameStage(w.ip, [w.ip EXCEPT !.gcTimer = b])
  BY <1>2, TimersChanged
<1> QED
  BY <1>1, <1>3, <1>4 DEF Worlds

LEMMA CloseSessionsSound ==
    ASSUME NEW S \in SUBSET Sessions, NEW w, Sound(w, S),
           NEW C \in SUBSET Sessions, w.ip.state # "Idle"
    PROVE  Sound(CloseSessions(w, C), S \cup C)
<1> DEFINE x == [Unused EXCEPT !.state = "Idle"]
           f == [t \in Sessions |-> IF t \in C THEN x ELSE w.session[t]]
           b == w.ip.gcTimer \/ C # {}
           i == [w.ip EXCEPT !.gcTimer = b]
           u == [w EXCEPT !.session = f, !.ip = i]
<1>1. w \in Worlds
  BY DEF Sound
<1>2. CloseSessions(w, C) = u
  BY <1>1 DEF CloseSessions, Worlds
<1>3. x \in SessionStates /\ SessionSound(x) /\ x.state = "Idle" /\ ~Waiting(x)
  BY UnusedSound
<1> HIDE DEF x
<1>5. f \in [Sessions -> SessionStates]
  BY <1>1, <1>3, WorldFields
<1>6. b \in BOOLEAN /\ (w.ip.gcTimer => b)
  BY <1>1, WorldFields DEF IPStates
<1>7. SameStage(w.ip, i) /\ i.gcTimer = b /\ i.eventTimer = w.ip.eventTimer
  <2> HIDE DEF b
  <2> QED
    BY ZenonT(40), <1>1, <1>6, WorldFields, TimersChanged
<1>8. /\ \A t \in S \cup C : SessionSound(f[t]) /\ (Waiting(f[t]) => i.eventTimer)
      /\ \A t \in Sessions : f[t].state = "Idle" => i.gcTimer
  BY <1>1, <1>3, <1>7, WorldFields DEF Sound, EngineSound
<1> HIDE DEF f, i
<1>10. Sound(u, S \cup C)
  BY <1>5, <1>7, <1>8, SessionsChanged
<1> QED
  BY <1>2, <1>10

\* An event that is raised is flagged, owed and timed.
LEMMA RaiseEventSound ==
    ASSUME NEW S \in SUBSET Sessions, NEW w, Sound(w, S), w.ip.state # "Idle",
           NEW c \in Chars, NEW T \in SUBSET Sessions
    PROVE  /\ Sound(engine_raise_event(w, c, T), S)
           /\ SameStage(w.ip, engine_raise_event(w, c, T).ip)
           /\ \A t \in Sessions \ T : engine_raise_event(w, c, T).session[t] = w.session[t]
<1> DEFINE raised == {s \in T : c \in w.session[s].subscribed /\ ~w.session[s].transient}
           new == {s \in raised : c \notin w.session[s].flags}
           Flag(v) == [v EXCEPT !.flags = @ \cup {c}, !.owed = @ \cup {c}, !.sent = @ \ {c}]
           f == [s \in Sessions |-> IF s \in raised THEN Flag(w.session[s]) ELSE w.session[s]]
           b == w.ip.eventTimer \/ new # {}
           i == [w.ip EXCEPT !.eventTimer = b]
           u == [w EXCEPT !.session = f, !.ip = i]
<1>1. w \in Worlds
  BY DEF Sound
<1>2. engine_raise_event(w, c, T) = u
  <2>1. engine_raise_event(w, c, T) = [w EXCEPT !.session = f, !.ip.eventTimer = @ \/ new # {}]
    BY DEF engine_raise_event
  <2> HIDE DEF f, new
  <2> QED
    BY <1>1, <2>1 DEF Worlds
<1>3. ASSUME NEW v \in SessionStates
      PROVE  /\ Flag(v) \in SessionStates
             /\ Flag(v).state = v.state /\ Flag(v).inbound = v.inbound /\ Flag(v).out = v.out
             /\ Flag(v).isSecured = v.isSecured /\ Flag(v).verified = v.verified
             /\ Flag(v).subscribed = v.subscribed
             /\ Flag(v).flags = v.flags \cup {c} /\ Flag(v).owed = v.owed \cup {c}
             /\ Flag(v).sent = v.sent \ {c}
  BY DEF SessionStates
<1> HIDE DEF Flag
<1>4. f \in [Sessions -> SessionStates]
  BY <1>1, <1>3, WorldFields
<1>5. b \in BOOLEAN /\ (w.ip.eventTimer => b) /\ (new # {} => b)
  BY <1>1, WorldFields DEF IPStates
<1>6. SameStage(w.ip, i) /\ i.gcTimer = w.ip.gcTimer /\ i.eventTimer = b
  <2>1. w.ip \in IPStates
    BY <1>1, WorldFields
  <2>2. [w.ip EXCEPT !.eventTimer = b].gcTimer = w.ip.gcTimer
    BY <2>1 DEF IPStates
  <2> HIDE DEF b
  <2> QED
    BY ZenonT(40), <2>1, <2>2, <1>5, TimersChanged
<1>7. ASSUME NEW s \in S
      PROVE  SessionSound(f[s]) /\ (Waiting(f[s]) => b)
  <2>1. /\ s \in Sessions /\ w.session[s] \in SessionStates /\ SessionSound(w.session[s])
        /\ Waiting(w.session[s]) => b
    BY <1>1, <1>5, WorldFields DEF Sound
  <2>2. CASE s \notin raised
    BY <2>1, <2>2
  <2>3. CASE s \in raised
    <3>1. f[s] = Flag(w.session[s]) /\ c \in w.session[s].subscribed
      BY <2>1, <2>3
    <3>2. SessionSound(Flag(w.session[s]))
      BY <1>3, <2>1, <3>1 DEF SessionSound, Settled
    <3>3. CASE c \in w.session[s].flags
      BY <1>3, <2>1, <3>1, <3>2, <3>3 DEF Waiting
    <3>4. CASE c \notin w.session[s].flags
      BY <1>5, <2>3, <3>1, <3>2, <3>4
    <3> QED
      BY <3>3, <3>4
  <2> QED
    BY <2>2, <2>3
<1>8. \A s \in Sessions : f[s].state = "Idle" => i.gcTimer
  BY <1>1, <1>3, <1>6, WorldFields DEF Sound, EngineSound
<1>9. u.session = f /\ u.ip = i /\ \A t \in Sessions \ T : f[t] = w.session[t]
  BY <1>1, WorldFields DEF Worlds
<1> HIDE DEF f, i, b
<1>10. Sound(u, S)
  BY <1>4, <1>6, <1>7, <1>8, SessionsChanged
<1> QED
  BY <1>2, <1>6, <1>9, <1>10

\* What is written is owed no more, once it is written.
LEMMA WriteEventsSound ==
    ASSUME NEW v \in SessionStates, SessionSound(v), Waiting(v)
    PROVE  /\ write_event_notifications(v) \in SessionStates
           /\ SessionSound(write_event_notifications(v))
           /\ write_event_notifications(v).state \in {"Reading", "Writing"}
<1> DEFINE now == IF v.due THEN v.flags ELSE v.flags \cap SwitchEvents
           e == [kind |-> "Event", left |-> 1]
           x == [v EXCEPT !.flags = @ \ now, !.due = FALSE, !.sent = now,
                          !.state = "Writing", !.out = e]
<1>1. v.isSecured /\ v.flags \subseteq Chars /\ v.sent = {} /\ v.state = "Reading"
  BY DEF SessionStates, SessionSound, Settled, Waiting
<1>2. CASE now = {}
  BY <1>1, <1>2 DEF write_event_notifications
<1>3. CASE now # {}
  <2>1. write_event_notifications(v) = x
    BY <1>1, <1>3 DEF write_event_notifications
  <2>2. now \subseteq v.flags
    OBVIOUS
  <2>3. e \in [kind : {"None", "Response", "Accessories", "Event"}, left : 0 .. MaxParts]
        /\ e.left = 1
    BY ServerAssumption
  <2> HIDE DEF now, e
  <2>4. x \in SessionStates
    BY <1>1, <2>2, <2>3 DEF SessionStates
  <2>5. /\ x.flags = v.flags \ now /\ x.sent = now /\ x.state = "Writing" /\ x.out = e
        /\ x.inbound = v.inbound /\ x.owed = v.owed /\ x.subscribed = v.subscribed
        /\ x.isSecured = v.isSecured
    BY DEF SessionStates
  <2> HIDE DEF x
  <2>6. SessionSound(x)
    BY <1>1, <2>2, <2>3, <2>5 DEF SessionSound, Settled
  <2> QED
    BY <2>1, <2>4, <2>5, <2>6
<1> QED
  BY <1>2, <1>3

LEMMA ScheduleEventsSound ==
    ASSUME NEW w, Sound(w, {}), \A s \in Sessions : SessionSound(w.session[s])
    PROVE  Sound(schedule_event_notifications(w), Sessions)
<1> DEFINE f == [s \in Sessions |->
                     IF s \in Flagged(w) THEN write_event_notifications(w.session[s])
                     ELSE w.session[s]]
           written == [w EXCEPT !.session = f]
           b == Flagged(written) # {}
           i == [w.ip EXCEPT !.eventTimer = b]
           u == [w EXCEPT !.session = f, !.ip = i]
<1>1. w \in Worlds
  BY DEF Sound
<1>2. schedule_event_notifications(w) = u
  <2>1. schedule_event_notifications(w) = [written EXCEPT !.ip.eventTimer = b]
    BY DEF schedule_event_notifications
  <2> HIDE DEF f, b
  <2> QED
    BY <1>1, <2>1 DEF Worlds
<1>3. \A s \in Sessions : s \in Flagged(w) <=> Waiting(w.session[s])
  BY DEF Flagged, AtRest, Waiting
<1>4. \A s \in Sessions :
        /\ f[s] \in SessionStates /\ SessionSound(f[s])
        /\ s \in Flagged(w) => f[s].state \in {"Reading", "Writing"}
        /\ s \notin Flagged(w) => f[s] = w.session[s]
  BY <1>1, <1>3, WorldFields, WriteEventsSound
<1>5. f \in [Sessions -> SessionStates]
  BY <1>4
<1>6. written.session = f
  BY <1>1 DEF Worlds
<1>7. \A s \in Sessions : Waiting(f[s]) => b
  <2> HIDE DEF f, written
  <2> QED
    BY <1>6 DEF Flagged, AtRest, Waiting
<1>8. SameStage(w.ip, i) /\ i.gcTimer = w.ip.gcTimer /\ i.eventTimer = b
  <2>1. w.ip \in IPStates /\ b \in BOOLEAN
    BY <1>1, WorldFields
  <2>2. [w.ip EXCEPT !.eventTimer = b].gcTimer = w.ip.gcTimer
    BY <2>1 DEF IPStates
  <2> HIDE DEF b
  <2> QED
    BY <2>1, <2>2, TimersChanged
<1>9. /\ \A s \in Sessions : f[s].state = "Idle" => i.gcTimer
      /\ w.ip.state = "Idle" => ~i.gcTimer /\ \A s \in Sessions : f[s].state = "Free"
  <2>1. \A s \in Sessions : w.session[s].state = "Free" => s \notin Flagged(w)
    BY DEF Flagged, AtRest
  <2> QED
    BY <1>4, <1>8, <2>1 DEF Sound, EngineSound
<1>10. {} \in SUBSET Sessions /\ Sessions \in SUBSET Sessions
  OBVIOUS
<1>11. \A s \in Sessions : SessionSound(f[s]) /\ (Waiting(f[s]) => i.eventTimer)
  BY <1>4, <1>7, <1>8
<1> HIDE DEF f, i, b
<1>12. Sound(u, Sessions)
  BY <1>5, <1>8, <1>9, <1>10, <1>11, SessionsChanged
<1> QED
  BY <1>2, <1>12

\* The engine changes under the sessions.
LEMMA EngineChanged ==
    ASSUME NEW S \in SUBSET Sessions, NEW w, Sound(w, S), NEW j \in IPStates,
           j.state = w.ip.state, j.eventTimer = w.ip.eventTimer,
           EngineSound([w EXCEPT !.ip = j])
    PROVE  Sound([w EXCEPT !.ip = j], S)
<1> DEFINE u == [w EXCEPT !.ip = j]
<1>1. w \in Worlds
  BY DEF Sound
<1>2. /\ u.server = w.server /\ u.ble = w.ble /\ u.told = w.told
      /\ u.failed = w.failed /\ u.session = w.session /\ u.ip = j /\ u \in Worlds
  BY <1>1 DEF Worlds
<1>3. EngineSound(u)
  OBVIOUS
<1> HIDE DEF u
<1>4. ServerSound(u)
  BY <1>2 DEF Sound, ServerSound
<1>5. Sound(u, S)
  BY <1>2, <1>3, <1>4 DEF Sound
<1> QED
  BY <1>5 DEF u

LEMMA MaxIdleTimeSound ==
    ASSUME NEW w, Sound(w, Sessions), w.ip.state # "Idle"
    PROVE  Sound(schedule_max_idle_time_timer(w), Sessions)
<1> DEFINE limited == AtLimit(w) \/ Stopping(w)
           close == {s \in Open(w) : \/ AtRest(w, s) /\ Stopping(w)
                                     \/ w.session[s].old /\ limited}
           c == CloseSessions(w, close)
           busy == limited /\ Open(w) \ close # {}
           j == [c.ip EXCEPT !.listener = @ /\ ~Stopping(w), !.maxIdleTimer = busy,
                             !.gcTimer = TRUE]
           u == [c EXCEPT !.ip = j]
<1>1. close \in SUBSET Sessions
  BY DEF Open
<1>2. Sound(c, Sessions) /\ SameStage(w.ip, c.ip)
  <2> HIDE DEF close
  <2>1. Sessions \cup close = Sessions
    BY <1>1
  <2>2. Sound(c, Sessions)
    BY <1>1, <2>1, CloseSessionsSound
  <2> QED
    BY <1>1, <2>2, CloseSessionsFields DEF Sound
<1>3. schedule_max_idle_time_timer(w) = u
  <2>1. schedule_max_idle_time_timer(w) =
            [c EXCEPT !.ip.listener = @ /\ ~Stopping(w), !.ip.maxIdleTimer = busy,
                      !.ip.gcTimer = TRUE]
    BY DEF schedule_max_idle_time_timer
  <2>2. c \in Worlds
    BY <1>2 DEF Sound
  <2> HIDE DEF c, busy
  <2> QED
    BY <2>1, <2>2 DEF Worlds
<1> HIDE DEF c
<1>4. c \in Worlds /\ c.ip \in IPStates /\ EngineSound(c)
  BY <1>2, WorldFields DEF Sound
<1>5. /\ j \in IPStates /\ j.state = c.ip.state /\ j.eventTimer = c.ip.eventTimer
      /\ j.nextState = c.ip.nextState /\ j.discoverable = c.ip.discoverable
      /\ j.transitionTimer = c.ip.transitionTimer /\ j.gcTimer
      /\ j.listener = (c.ip.listener /\ ~Stopping(w))
  <2>1. busy \in BOOLEAN /\ Stopping(w) \in BOOLEAN
    BY DEF Stopping, AtLimit
  <2> HIDE DEF busy
  <2> QED
    BY <1>4, <2>1 DEF IPStates
<1>6. EngineSound(u)
  <2>1. u.ip = j /\ u.session = c.session
    BY <1>4 DEF Worlds
  <2> HIDE DEF j, u
  <2> QED
    BY <1>2, <1>4, <1>5, <2>1 DEF EngineSound, SameStage, Stopping
<1> HIDE DEF j
<1> QED
  BY <1>2, <1>3, <1>5, <1>6, EngineChanged

\* An assertion that holds changes nothing.
LEMMA AssertHolds ==
    ASSUME NEW w \in Worlds, NEW holds, holds
    PROVE  HAPAssert(w, holds) = w
BY DEF HAPAssert, Worlds

\* The last session goes while the server stops, and the engine is down with it.
LEMMA EndTransitionSound ==
    ASSUME NEW w, Sound(w, Sessions), w.ip.state # "Idle", ~w.ip.listener, ~w.ip.gcTimer,
           Used(w) = {}
    PROVE  Sound(EndTransition(w), Sessions)
<1> DEFINE j == [w.ip EXCEPT !.transitionTimer = FALSE, !.maxIdleTimer = FALSE,
                             !.discoverable = FALSE, !.state = "Idle", !.nextState = "Undefined"]
           v == [w.server EXCEPT !.callbackTimer = TRUE]
           u == [w EXCEPT !.ip = j, !.server = v]
<1>1. w \in Worlds /\ EngineSound(w) /\ ServerSound(w)
  BY DEF Sound
<1>2. Stopping(w) /\ w.ip.nextState = "Idle"
  BY <1>1, WorldFields DEF Stopping, EngineSound, IPStates, ServerStates
<1>3. EndTransition(w) = u
  <2>1. HAPAssert(w, Stopping(w) /\ w.ip.nextState = "Idle") = w
    BY <1>1, <1>2, AssertHolds
  <2>2. EndTransition(w) = [[w EXCEPT !.ip = j] EXCEPT !.server.callbackTimer = TRUE]
    BY <2>1 DEF EndTransition, ScheduleHandleUpdatedState
  <2> HIDE DEF j
  <2> QED
    BY <1>1, <2>2 DEF Worlds
<1>4. /\ j \in IPStates /\ j.state = "Idle" /\ j.nextState = "Undefined" /\ ~j.listener
      /\ ~j.discoverable /\ ~j.transitionTimer /\ ~j.maxIdleTimer /\ ~j.gcTimer
      /\ j.eventTimer = w.ip.eventTimer
  BY <1>1, WorldFields DEF IPStates, ServerStates
<1>5. v \in [state : ServerStates, callbackTimer : BOOLEAN] /\ v.callbackTimer
      /\ v.state = w.server.state
  BY <1>1, WorldFields
<1> HIDE DEF j, v
<1>6. /\ u.server = v /\ u.ip = j /\ u.session = w.session /\ u.ble = w.ble
      /\ u.told = w.told /\ u.failed = w.failed /\ u \in Worlds
  BY <1>1, <1>4, <1>5 DEF Worlds
<1> HIDE DEF u
<1>7. EngineSound(u)
  BY <1>4, <1>6 DEF EngineSound, Used
<1>8. ServerSound(u)
  BY <1>1, <1>2, <1>4, <1>5, <1>6 DEF ServerSound, Stopping
<1>9. Sound(u, Sessions)
  BY <1>4, <1>6, <1>7, <1>8 DEF Sound
<1> QED
  BY <1>3, <1>9

LEMMA CollectGarbageSound ==
    ASSUME NEW w, Sound(w, Sessions), w.ip.gcTimer
    PROVE  Sound(collect_garbage(w), Sessions)
<1> DEFINE f == [s \in Sessions |-> IF w.session[s].state = "Idle" THEN Unused ELSE w.session[s]]
           i == [w.ip EXCEPT !.gcTimer = FALSE]
           u == [w EXCEPT !.session = f, !.ip = i]
<1>1. w \in Worlds /\ EngineSound(w) /\ ServerSound(w)
  BY DEF Sound
<1>2. HAPIPSessionDestroy([w EXCEPT !.ip.gcTimer = FALSE]) = u
  BY <1>1 DEF HAPIPSessionDestroy, Worlds
<1>3. Unused \in SessionStates /\ SessionSound(Unused) /\ Unused.state = "Free"
  BY UnusedSound
<1>4. f \in [Sessions -> SessionStates]
  BY <1>1, <1>3, WorldFields
<1>5. /\ i \in IPStates /\ ~i.gcTimer /\ i.state = w.ip.state /\ i.nextState = w.ip.nextState
      /\ i.listener = w.ip.listener /\ i.discoverable = w.ip.discoverable
      /\ i.transitionTimer = w.ip.transitionTimer /\ i.maxIdleTimer = w.ip.maxIdleTimer
      /\ i.eventTimer = w.ip.eventTimer
  BY <1>1, WorldFields DEF IPStates
<1>6. /\ u.server = w.server /\ u.ip = i /\ u.session = f /\ u.ble = w.ble
      /\ u.told = w.told /\ u.failed = w.failed
  BY <1>1 DEF Worlds
<1>7. u \in Worlds
  BY <1>1, <1>4, <1>5 DEF Worlds
<1>8. \A s \in Sessions : /\ f[s].state # "Idle" /\ SessionSound(f[s])
                          /\ Waiting(f[s]) => i.eventTimer
  BY <1>3, <1>5 DEF Sound, Waiting
<1>9. w.ip.state # "Idle"
  BY <1>1 DEF EngineSound
<1> HIDE DEF f, i, u
<1>10. EngineSound(u)
  BY <1>1, <1>5, <1>6, <1>8, <1>9 DEF EngineSound
<1>11. ServerSound(u)
  BY <1>1, <1>5, <1>6 DEF ServerSound
<1>12. Sound(u, Sessions)
  BY <1>6, <1>7, <1>8, <1>10, <1>11 DEF Sound
<1>13. CASE u.ip.listener \/ Used(u) # {}
  BY <1>2, <1>12, <1>13 DEF collect_garbage
<1>14. CASE ~(u.ip.listener \/ Used(u) # {})
  BY <1>2, <1>5, <1>6, <1>9, <1>12, <1>14, EndTransitionSound DEF collect_garbage
<1> QED
  BY <1>13, <1>14

LEMMA ProgressionSound ==
    ASSUME NEW w, NEW s \in Sessions, Sound(w, Sessions \ {s}), SessionSound(w.session[s]),
           w.session[s].state # "Free"
    PROVE  Sound(handle_io_progression(w, s), Sessions)
<1> DEFINE h == handle_io_progression(w, s)
           v == w.session[s]
<1>1. w \in Worlds /\ EngineSound(w) /\ Sound(w, {})
      /\ \A t \in Sessions : SessionSound(w.session[t])
  BY DEF Sound
<1>2. w.ip.state # "Idle"
  BY <1>1 DEF EngineSound
<1>3. Waiting(v) <=> AtRest(w, s) /\ v.flags # {}
  BY DEF Waiting, AtRest
<1>4. ~Waiting(v) => Sound(w, Sessions)
  BY DEF Sound
<1>5. CASE v.state = "Idle"
  <2>1. w.ip.gcTimer
    BY <1>1, <1>5 DEF EngineSound
  <2>2. h = w
    BY <1>1, <1>5, <2>1, AssertHolds DEF handle_io_progression
  <2> QED
    BY <1>4, <1>5, <2>2 DEF Waiting
<1>6. CASE v.state # "Idle" /\ ~AtRest(w, s)
  BY <1>3, <1>4, <1>6 DEF handle_io_progression
<1>7. CASE v.state # "Idle" /\ AtRest(w, s) /\ Stopping(w)
  <2>1. h = CloseSession(w, s)
    BY <1>7 DEF handle_io_progression
  <2>2. Sessions \ {s} \in SUBSET Sessions /\ (Sessions \ {s}) \cup {s} = Sessions
    OBVIOUS
  <2> QED
    BY <1>2, <2>1, <2>2, CloseSessionSound
<1>8. CASE v.state # "Idle" /\ AtRest(w, s) /\ ~Stopping(w)
  <2>1. w.ip.state = "Running"
    BY <1>1, <1>2, <1>8, WorldFields DEF Stopping, IPStates, ServerStates
  <2>2. HAPAssert(w, w.ip.state = "Running") = w
    BY <1>1, <2>1, AssertHolds
  <2>3. h = IF v.flags = {} THEN w ELSE schedule_event_notifications(w)
    BY <1>8, <2>2 DEF handle_io_progression
  <2> QED
    BY <1>1, <1>3, <1>4, <2>3, ScheduleEventsSound
<1> QED
  BY <1>5, <1>6, <1>7, <1>8

-------------------------------------------------------------------------------
\* Requests.

LEMMA RequestTypes ==
    /\ \A r \in Requests :
           /\ r.kind \in {"Subscribe", "Unsubscribe", "Write"} => r.chr \in Chars
           /\ r.kind = "Pairings" => r.sessions \in SUBSET Sessions
    /\ \A i \in Inputs :
           /\ i.kind \in {"Partial", "Bad", "Request"}
           /\ i.kind = "Request" =>
                  i.request \in Requests /\ i.parts \in 1 .. MaxParts /\ i.ahead \in {0, 1}
<1>1. ASSUME NEW r \in Requests
      PROVE  /\ r.kind \in {"Subscribe", "Unsubscribe", "Write"} => r.chr \in Chars
             /\ r.kind = "Pairings" => r.sessions \in SUBSET Sessions
  BY DEF Requests
<1>2. ASSUME NEW i \in Inputs
      PROVE  /\ i.kind \in {"Partial", "Bad", "Request"}
             /\ i.kind = "Request" =>
                    i.request \in Requests /\ i.parts \in 1 .. MaxParts /\ i.ahead \in {0, 1}
  <2> DEFINE ahead == IF Pipelining THEN {0, 1} ELSE {0}
  <2>1. ahead \subseteq {0, 1}
    OBVIOUS
  <2>2. i \in [kind : {"Partial", "Bad"}, request : {"-"}, parts : {1}, ahead : {0}]
             \cup [kind : {"Request"}, request : Requests, parts : 1 .. MaxParts, ahead : ahead]
    BY DEF Inputs
  <2> HIDE DEF ahead
  <2> QED
    BY <2>1, <2>2
<1> QED
  BY <1>1, <1>2

\* The middle of the handler of a session.
Between(w, s) ==
    /\ Sound(w, Sessions \ {s}) /\ w.ip.state # "Idle"
    /\ w.session[s].state = "Reading" /\ Settled(w.session[s])

LEMMA SessionSettled ==
    ASSUME NEW s \in Sessions, NEW w, Sound(w, Sessions \ {s}), w.ip.state # "Idle",
           NEW x \in SessionStates, x.state # "Idle"
    PROVE  /\ Sound(With(w, s, x), Sessions \ {s}) /\ With(w, s, x).ip = w.ip
           /\ With(w, s, x).session[s] = x
<1> DEFINE S == Sessions \ {s}
<1>1. S \in SUBSET Sessions /\ S \in SUBSET (S \cup {s}) /\ s \notin S /\ Sound(w, S)
  OBVIOUS
<1>2. w \in Worlds
  BY DEF Sound
<1> HIDE DEF S
<1>3. Sound(With(w, s, x), S)
  BY <1>1, SessionChanged
<1>4. With(w, s, x).ip = w.ip /\ With(w, s, x).session[s] = x
  BY <1>2 DEF Worlds, With
<1> QED
  BY <1>3, <1>4 DEF S

LEMMA PairingsRequestSound ==
    ASSUME NEW s \in Sessions, NEW w, Between(w, s), NEW removed \in SUBSET Sessions
    PROVE  Between(handle_pairings_request(w, s, removed), s)
<1> USE DEF Between
<1> DEFINE u == handle_pairings_request(w, s, removed)
           Unpaired(v) == [v EXCEPT !.verified = FALSE]
           f == [t \in Sessions |-> IF t \in removed /\ ~w.session[t].transient
                                    THEN Unpaired(w.session[t]) ELSE w.session[t]]
           unpaired == [w EXCEPT !.session = f]
           C == {t \in Sessions \ {s} : /\ f[t].state = "Reading" /\ f[t].isSecured
                                        /\ ~f[t].verified}
           S == (Sessions \ {s}) \ C
<1>1. w \in Worlds /\ EngineSound(w)
  BY DEF Sound
<1>2. unpaired.session = f /\ unpaired.ip = w.ip /\ unpaired = [w EXCEPT !.session = f, !.ip = w.ip]
  BY <1>1 DEF Worlds
<1>3. u = CloseSessions(unpaired, C)
  <2>1. u = CloseSessions(unpaired, {t \in Sessions \ {s} :
                LET v == unpaired.session[t]
                IN  v.state = "Reading" /\ v.isSecured /\ ~v.verified})
    BY DEF handle_pairings_request
  <2> HIDE DEF f, unpaired
  <2> QED
    BY <1>2, <2>1
<1>4. ASSUME NEW v \in SessionStates
      PROVE  /\ Unpaired(v) \in SessionStates /\ Unpaired(v).state = v.state
             /\ Unpaired(v).isSecured = v.isSecured /\ Unpaired(v).inbound = v.inbound
             /\ Unpaired(v).flags = v.flags /\ Unpaired(v).sent = v.sent
             /\ Unpaired(v).owed = v.owed /\ Unpaired(v).subscribed = v.subscribed
             /\ Unpaired(v).out = v.out /\ ~Unpaired(v).verified
  BY DEF SessionStates
<1> HIDE DEF Unpaired
<1>5. \A t \in Sessions : f[t] = w.session[t] \/ f[t] = Unpaired(w.session[t])
  OBVIOUS
<1>6. f \in [Sessions -> SessionStates]
  BY <1>1, <1>4, WorldFields
<1>7. ASSUME NEW t \in S
      PROVE  SessionSound(f[t]) /\ (Waiting(f[t]) => w.ip.eventTimer)
  <2>1. /\ t \in Sessions /\ w.session[t] \in SessionStates /\ SessionSound(w.session[t])
        /\ Waiting(w.session[t]) => w.ip.eventTimer
        /\ ~(f[t].state = "Reading" /\ f[t].isSecured /\ ~f[t].verified)
    BY <1>1, WorldFields DEF Sound
  <2> HIDE DEF f
  <2> QED
    BY <1>4, <1>5, <2>1 DEF SessionSound, Settled, Waiting
<1>8. Settled(f[s]) /\ f[s].state = "Reading"
  <2>1. w.session[s] \in SessionStates
    BY <1>1, WorldFields
  <2> HIDE DEF f
  <2> QED
    BY <1>4, <1>5, <2>1 DEF Settled
<1>9. \A t \in Sessions : f[t].state = w.session[t].state
  <2>1. \A t \in Sessions : w.session[t] \in SessionStates
    BY <1>1, WorldFields
  <2> HIDE DEF f
  <2> QED
    BY <1>4, <1>5, <2>1
<1>10. SameStage(w.ip, w.ip)
  BY <1>1, WorldFields, TimersChanged
<1> HIDE DEF f
<1>11. \A t \in Sessions : f[t].state = "Idle" => w.ip.gcTimer
  BY <1>1, <1>9 DEF EngineSound
<1>12. Sessions \ {s} \in SUBSET Sessions /\ S \in SUBSET Sessions /\ C \in SUBSET Sessions
       /\ S \cup C = Sessions \ {s} /\ s \notin C
  OBVIOUS
<1> HIDE DEF S, C
<1>13. Sound(unpaired, S)
  BY <1>2, <1>6, <1>7, <1>10, <1>11, <1>12, SessionsChanged
<1> HIDE DEF unpaired
<1>15. unpaired.ip.state # "Idle"
  BY <1>2
<1>14. Sound(CloseSessions(unpaired, C), S \cup C)
  BY <1>12, <1>13, <1>15, CloseSessionsSound
<1>16. /\ SameStage(unpaired.ip, CloseSessions(unpaired, C).ip)
       /\ CloseSessions(unpaired, C).session[s] = unpaired.session[s]
  BY <1>12, <1>13, CloseSessionsFields DEF Sound
<1> QED
  BY <1>2, <1>3, <1>8, <1>12, <1>14, <1>16 DEF SameStage

LEMMA PairSetupRequestSound ==
    ASSUME NEW s \in Sessions, NEW w, Between(w, s)
    PROVE  Between(handle_pair_setup_request(w, s), s)
<1> USE DEF Between
<1> DEFINE u == handle_pair_setup_request(w, s)
           C == {t \in Sessions \ {s} : w.session[t].transient}
           c == CloseSessions(w, C)
           x == [c.session[s] EXCEPT !.verified = TRUE, !.transient = TRUE]
<1>1. C \in SUBSET Sessions /\ s \notin C /\ Sessions \ {s} \in SUBSET Sessions
      /\ (Sessions \ {s}) \cup C = Sessions \ {s}
  OBVIOUS
<1>2. u = [[c EXCEPT !.session[s].verified = TRUE] EXCEPT !.session[s].transient = TRUE]
  BY DEF handle_pair_setup_request
<1> HIDE DEF C
<1>3. Sound(c, Sessions \ {s}) /\ SameStage(w.ip, c.ip) /\ c.session[s] = w.session[s]
  BY <1>1, CloseSessionsSound, CloseSessionsFields DEF Sound
<1> HIDE DEF c
<1>4. c \in Worlds /\ c.session \in [Sessions -> SessionStates] /\ c.session[s] \in SessionStates
  BY <1>3, WorldFields DEF Sound
<1>5. u = With(c, s, x)
  BY <1>2, <1>4 DEF Worlds, SessionStates, With
<1>6. x \in SessionStates /\ x.state = "Reading" /\ Settled(x)
  BY <1>3, <1>4 DEF SessionStates, Settled
<1> HIDE DEF x
<1>7. /\ Sound(With(c, s, x), Sessions \ {s}) /\ With(c, s, x).ip = c.ip
      /\ With(c, s, x).session[s] = x
  BY <1>3, <1>6, SessionSettled DEF SameStage
<1> QED
  BY <1>3, <1>5, <1>6, <1>7 DEF SameStage

\* One field of a session.
LEMMA BetweenChanged ==
    ASSUME NEW s \in Sessions, NEW w, Between(w, s),
           NEW x \in SessionStates, x.state = "Reading", Settled(x)
    PROVE  Between(With(w, s, x), s)
BY ZenonT(40), SessionSettled DEF Between

LEMMA RequestSound ==
    ASSUME NEW s \in Sessions, NEW w, Between(w, s), NEW r \in Requests
    PROVE  Between(handle_http_request(w, s, r), s)
<1> DEFINE v == w.session[s]
           u == handle_http_request(w, s, r)
           plain == ~v.isSecured
           secured == v.isSecured /\ ~v.transient
<1>1. /\ w \in Worlds /\ v \in SessionStates /\ v.state = "Reading" /\ Settled(v)
      /\ Sound(w, Sessions \ {s}) /\ w.ip.state # "Idle"
  BY WorldFields DEF Between, Sound
<1>2. /\ r.kind \in {"Subscribe", "Unsubscribe", "Write"} => r.chr \in Chars
      /\ r.kind = "Pairings" => r.sessions \in SUBSET Sessions
  BY RequestTypes
<1>3. CASE r.kind = "Verify" /\ plain
  <2> DEFINE x == [v EXCEPT !.verified = TRUE]
  <2>1. u = With(w, s, x)
    BY <1>1, <1>3 DEF handle_http_request, With
  <2>2. x \in SessionStates /\ x.state = "Reading" /\ Settled(x)
    BY <1>1 DEF SessionStates, Settled
  <2> HIDE DEF x
  <2> QED
    BY <2>1, <2>2, BetweenChanged
<1>4. CASE r.kind = "SetUp" /\ plain
  <2>1. u = handle_pair_setup_request(w, s)
    BY <1>4 DEF handle_http_request
  <2> QED
    BY <2>1, PairSetupRequestSound
<1>5. CASE r.kind = "Subscribe" /\ secured
  <2> DEFINE x == [v EXCEPT !.subscribed = @ \cup {r.chr}]
  <2>1. u = With(w, s, x)
    BY <1>1, <1>5 DEF handle_http_request, With
  <2>2. x \in SessionStates /\ x.state = "Reading" /\ Settled(x)
    BY <1>1, <1>2, <1>5 DEF SessionStates, Settled
  <2> HIDE DEF x
  <2> QED
    BY <2>1, <2>2, BetweenChanged
<1>6. CASE r.kind = "Unsubscribe" /\ secured
  <2> DEFINE x == [v EXCEPT !.subscribed = @ \ {r.chr}, !.flags = @ \ {r.chr},
                            !.owed = @ \ {r.chr}, !.sent = @ \ {r.chr}]
  <2>1. u = With(w, s, x)
    BY <1>1, <1>6 DEF handle_http_request, With
  <2>2. x \in SessionStates
    BY <1>1 DEF SessionStates
  <2>3. /\ x.state = v.state /\ x.inbound = v.inbound /\ x.isSecured = v.isSecured
        /\ x.subscribed = v.subscribed \ {r.chr} /\ x.flags = v.flags \ {r.chr}
        /\ x.owed = v.owed \ {r.chr} /\ x.sent = v.sent \ {r.chr}
    BY <1>1 DEF SessionStates
  <2> HIDE DEF x
  <2>4. Settled(x)
    BY <1>1, <2>3 DEF Settled
  <2> QED
    BY <1>1, <2>1, <2>2, <2>3, <2>4, BetweenChanged
<1>7. CASE r.kind = "Write" /\ secured
  <2> DEFINE T == Sessions \ {s}
             e == engine_raise_event(w, r.chr, T)
  <2>1. u = e
    BY <1>7 DEF handle_http_request
  <2>2. T \in SUBSET Sessions /\ s \in Sessions \ T /\ Sound(w, T)
    BY <1>1
  <2> HIDE DEF T
  <2>3. /\ Sound(e, T) /\ SameStage(w.ip, e.ip) /\ e.session[s] = w.session[s]
    BY ZenonT(40), <1>1, <1>2, <1>7, <2>2, RaiseEventSound
  <2> HIDE DEF e
  <2> QED
    BY <1>1, <2>1, <2>3 DEF Between, SameStage, T
<1>8. CASE r.kind = "Pairings" /\ secured
  <2>1. u = handle_pairings_request(w, s, r.sessions)
    BY <1>8 DEF handle_http_request
  <2> QED
    BY <1>2, <1>8, <2>1, PairingsRequestSound
<1>9. CASE /\ ~(r.kind = "Verify" /\ plain) /\ ~(r.kind = "SetUp" /\ plain)
           /\ ~(r.kind = "Subscribe" /\ secured) /\ ~(r.kind = "Unsubscribe" /\ secured)
           /\ ~(r.kind = "Write" /\ secured) /\ ~(r.kind = "Pairings" /\ secured)
  <2>1. u = w
    BY <1>9 DEF handle_http_request
  <2> QED
    BY <2>1
<1> QED
  BY <1>3, <1>4, <1>5, <1>6, <1>7, <1>8, <1>9

-------------------------------------------------------------------------------
\* Input and output.

\* The handler of a session is done, but for handle_io_progression.
Handled(w, s) ==
    /\ Sound(w, Sessions \ {s})
    /\ SessionSound(w.session[s]) /\ w.session[s].state # "Free"

\* A session whose input is looked at: there may be no room left for more.
Reads(w, s) ==
    /\ Sound(w, Sessions \ {s}) /\ w.ip.state # "Idle"
    /\ LET v == w.session[s]
       IN  /\ v.state = "Reading" /\ v.sent = {} /\ v.owed \subseteq v.flags
           /\ v.flags \subseteq v.subscribed
           /\ v.subscribed # {} => v.isSecured
           /\ v.isSecured => v.verified

\* A session that is not waiting to be sent events is handled to the end.
LEMMA SessionDone ==
    ASSUME NEW s \in Sessions, NEW w, Sound(w, Sessions \ {s}), w.ip.state # "Idle",
           NEW x \in SessionStates, x.state \in {"Reading", "Writing"}, SessionSound(x)
    PROVE  Handled(With(w, s, x), s)
<1>1. x.state # "Idle" /\ x.state # "Free"
  OBVIOUS
<1> QED
  BY <1>1, SessionSettled DEF Handled

LEMMA CloseHandled ==
    ASSUME NEW s \in Sessions, NEW w, Sound(w, Sessions \ {s}), w.ip.state # "Idle"
    PROVE  Handled(CloseSession(w, s), s)
<1>1. Sessions \ {s} \in SUBSET Sessions /\ (Sessions \ {s}) \cup {s} = Sessions
  OBVIOUS
<1>2. Sound(CloseSession(w, s), Sessions) /\ CloseSession(w, s).session[s].state = "Idle"
  BY <1>1, CloseSessionSound
<1> QED
  BY <1>2 DEF Sound, Handled

LEMMA HTTPSound ==
    ASSUME NEW s \in Sessions, NEW w, Between(w, s), NEW r \in Requests,
           NEW parts \in 1 .. MaxParts
    PROVE  Handled(handle_http(w, s, r, parts), s)
<1> DEFINE u == handle_http_request(w, s, r)
           v == u.session[s]
           out == [kind |-> IF r.kind = "Accessories" THEN "Accessories" ELSE "Response",
                   left |-> parts]
           x == [v EXCEPT !.state = "Writing", !.out = out]
<1>1. Between(u, s)
  BY RequestSound
<1>2. handle_http(w, s, r, parts) = [u EXCEPT !.session[s] = [@ EXCEPT !.state = "Writing", !.out = out]]
  BY DEF handle_http
<1> HIDE DEF u
<1>3. u \in Worlds /\ v \in SessionStates /\ Sound(u, Sessions \ {s}) /\ u.ip.state # "Idle"
  BY <1>1, WorldFields DEF Between, Sound
<1>4. out \in [kind : {"None", "Response", "Accessories", "Event"}, left : 0 .. MaxParts]
      /\ out.left # 0
  BY ServerAssumption
<1> HIDE DEF out
<1>5. handle_http(w, s, r, parts) = With(u, s, x)
  BY <1>2, <1>3 DEF With, Worlds
<1>6. x \in SessionStates /\ x.state = "Writing" /\ SessionSound(x)
  BY <1>1, <1>3, <1>4 DEF SessionStates, SessionSound, Settled, Between
<1> HIDE DEF x
<1> QED
  BY <1>3, <1>5, <1>6, SessionDone

LEMMA InputSound ==
    ASSUME NEW s \in Sessions, NEW w, Reads(w, s), NEW i \in Inputs
    PROVE  Handled(handle_input(w, s, i), s)
<1> DEFINE v == w.session[s]
           x == IF v.verified THEN [v EXCEPT !.isSecured = TRUE] ELSE v
           u == With(w, s, x)
           checked == IF v.verified THEN [w EXCEPT !.session[s].isSecured = TRUE]
                      ELSE HAPAssert(w, ~v.isSecured)
<1>1. /\ w \in Worlds /\ v \in SessionStates /\ Sound(w, Sessions \ {s}) /\ w.ip.state # "Idle"
      /\ v.state = "Reading" /\ v.sent = {} /\ v.owed \subseteq v.flags
      /\ v.flags \subseteq v.subscribed
      /\ v.subscribed # {} => v.isSecured
      /\ v.isSecured => v.verified
  BY WorldFields DEF Reads, Sound
<1>2. checked = u
  <2>1. CASE v.verified
    BY <1>1, <2>1 DEF With, Worlds
  <2>2. CASE ~v.verified
    <3>1. HAPAssert(w, ~v.isSecured) = w
      BY <1>1, <2>2, AssertHolds
    <3>2. With(w, s, v) = w
      BY <1>1 DEF With, Worlds
    <3> QED
      BY <2>2, <3>1, <3>2
  <2> QED
    BY <2>1, <2>2
<1>3. /\ x \in SessionStates /\ x.state = "Reading" /\ x.sent = {} /\ x.owed \subseteq x.flags
      /\ x.flags \subseteq x.subscribed /\ x.inbound = v.inbound
      /\ x.subscribed # {} => x.isSecured
      /\ x.isSecured => x.verified
  BY <1>1 DEF SessionStates
<1> HIDE DEF x, checked
<1>4. Sound(u, Sessions \ {s}) /\ u.ip = w.ip /\ u.session[s] = x
  BY <1>1, <1>3, SessionSettled
<1>5. CASE i.kind = "Bad"
  <2>1. handle_input(w, s, i) = CloseSession(u, s)
    BY <1>2, <1>5 DEF handle_input, checked
  <2> HIDE DEF u
  <2> QED
    BY <1>1, <1>4, <2>1, CloseHandled
<1>6. CASE i.kind = "Partial"
  <2>1. handle_input(w, s, i) = IF v.inbound = MaxFill THEN CloseSession(u, s) ELSE u
    BY <1>2, <1>6 DEF handle_input, checked
  <2>2. v.inbound # MaxFill => SessionSound(x)
    BY <1>3 DEF SessionSound, Settled
  <2> HIDE DEF u
  <2>3. CASE v.inbound = MaxFill
    BY <1>1, <1>4, <2>1, <2>3, CloseHandled
  <2>4. CASE v.inbound # MaxFill
    BY <1>3, <1>4, <2>1, <2>2, <2>4 DEF Handled
  <2> QED
    BY <2>3, <2>4
<1>7. CASE i.kind = "Request"
  <2> DEFINE y == [x EXCEPT !.inbound = i.ahead]
             z == With(u, s, y)
  <2>1. i.request \in Requests /\ i.parts \in 1 .. MaxParts /\ i.ahead \in {0, 1}
    BY <1>7, RequestTypes
  <2>2. u \in Worlds
    BY <1>4 DEF Sound
  <2>3. handle_input(w, s, i) = handle_http([u EXCEPT !.session[s].inbound = i.ahead],
                                            s, i.request, i.parts)
    BY <1>2, <1>7 DEF handle_input, checked
  <2> HIDE DEF u
  <2>4. [u EXCEPT !.session[s].inbound = i.ahead] = z
    BY <1>4, <2>2 DEF With, Worlds
  <2>5. /\ i.ahead \in 0 .. MaxFill /\ i.ahead # MaxFill
    BY <2>1, ServerAssumption
  <2>6. y \in SessionStates /\ y.state = "Reading" /\ Settled(y)
    BY <1>3, <2>5 DEF SessionStates, Settled
  <2> HIDE DEF y
  <2>9. u.ip.state # "Idle" /\ y.state # "Idle"
    BY <1>1, <1>4, <2>6
  <2>7. Sound(z, Sessions \ {s}) /\ z.ip = u.ip /\ z.session[s] = y
    BY <1>4, <2>6, <2>9, SessionSettled
  <2>8. Between(z, s)
    BY <1>1, <1>4, <2>6, <2>7 DEF Between
  <2> HIDE DEF z
  <2> QED
    BY <2>1, <2>3, <2>4, <2>8, HTTPSound
<1> QED
  BY <1>5, <1>6, <1>7, RequestTypes

LEMMA OutputCompletionSound ==
    ASSUME NEW s \in Sessions, NEW w, Sound(w, Sessions \ {s}), w.ip.state # "Idle",
           SessionSound(w.session[s]), w.session[s].state = "Writing",
           w.session[s].isSecured => w.session[s].verified, NEW i \in Inputs
    PROVE  Handled(handle_output_completion(w, s, i), s)
<1> DEFINE v == w.session[s]
           x == [v EXCEPT !.state = "Reading", !.out = Silence, !.owed = @ \ v.sent, !.sent = {}]
           u == With(w, s, x)
<1>1. w \in Worlds /\ v \in SessionStates /\ Settled(v)
  BY WorldFields DEF Sound, SessionSound
<1>2. handle_output_completion(w, s, i) = IF v.inbound = 0 THEN u ELSE handle_input(u, s, i)
  BY DEF handle_output_completion, With
<1>3. Silence \in [kind : {"None", "Response", "Accessories", "Event"}, left : 0 .. MaxParts]
  BY ServerAssumption DEF Silence
<1>4. /\ x \in SessionStates /\ x.state = "Reading" /\ x.sent = {} /\ x.owed = v.owed \ v.sent
      /\ x.flags = v.flags /\ x.subscribed = v.subscribed /\ x.inbound = v.inbound
      /\ x.isSecured = v.isSecured /\ x.verified = v.verified
  BY <1>1, <1>3 DEF SessionStates
<1> HIDE DEF x
<1>5. x.owed \subseteq x.flags /\ SessionSound(x)
  BY <1>1, <1>4 DEF SessionSound, Settled
<1>6. Sound(u, Sessions \ {s}) /\ u.ip = w.ip /\ u.session[s] = x
  BY <1>4, SessionSettled
<1>7. Handled(u, s)
  BY <1>4, <1>5, <1>6 DEF Handled
<1>8. Reads(u, s)
  BY <1>4, <1>5, <1>6 DEF Reads, SessionSound, Settled
<1> HIDE DEF u
<1> QED
  BY <1>2, <1>7, <1>8, InputSound

LEMMA WriteSound ==
    ASSUME NEW s \in Sessions, NEW w, Sound(w, Sessions \ {s}), w.ip.state # "Idle",
           SessionSound(w.session[s]), w.session[s].state = "Writing", NEW i \in Inputs
    PROVE  Handled(WriteOutboundData(w, s, i), s)
<1> DEFINE v == w.session[s]
<1>1. w \in Worlds /\ v \in SessionStates /\ v.isSecured \in BOOLEAN /\ v.verified \in BOOLEAN
      /\ v.out.left \in 0 .. MaxParts
  BY WorldFields DEF Sound, SessionStates
<1>2. CASE (v.out.left = 1 \/ v.out.kind = "Accessories") /\ v.isSecured /\ ~v.verified
  BY <1>2, CloseHandled DEF WriteOutboundData
<1>3. CASE /\ ~((v.out.left = 1 \/ v.out.kind = "Accessories") /\ v.isSecured /\ ~v.verified)
           /\ v.out.left = 1
  <2>1. v.isSecured => v.verified
    BY <1>3
  <2>2. WriteOutboundData(w, s, i) = handle_output_completion(w, s, i)
    BY <1>3 DEF WriteOutboundData
  <2> QED
    BY <2>1, <2>2, OutputCompletionSound
<1>4. CASE /\ ~((v.out.left = 1 \/ v.out.kind = "Accessories") /\ v.isSecured /\ ~v.verified)
           /\ v.out.left # 1
  <2> DEFINE x == [v EXCEPT !.out.left = @ - 1]
  <2>1. WriteOutboundData(w, s, i) = [w EXCEPT !.session[s].out.left = @ - 1]
    BY <1>4 DEF WriteOutboundData
  <2>2. WriteOutboundData(w, s, i) = With(w, s, x)
    BY <1>1, <2>1 DEF With, Worlds
  <2>3. v.out.left - 1 \in 0 .. MaxParts /\ v.out.left - 1 # 0
    BY <1>1, <1>4, ServerAssumption DEF SessionSound
  <2>4. x \in SessionStates /\ x.state = "Writing" /\ SessionSound(x)
    BY <1>1, <2>3 DEF SessionStates, SessionSound, Settled
  <2> HIDE DEF x
  <2> QED
    BY <2>2, <2>4, SessionDone
<1> QED
  BY <1>2, <1>3, <1>4

-------------------------------------------------------------------------------
\* The callbacks of the streams.

LEMMA StreamSound ==
    ASSUME NEW w, Sound(w, Sessions), NEW s \in Sessions
    PROVE  /\ w \in Worlds /\ w.session[s] \in SessionStates /\ SessionSound(w.session[s])
           /\ Sound(w, Sessions \ {s})
           /\ w.session[s].state # "Free" => w.ip.state # "Idle"
BY WorldFields DEF Sound, EngineSound

LEMMA PendingStreamSound ==
    ASSUME NEW w, Sound(w, Sessions), NEW s \in Sessions, w.ip.listener
    PROVE  LET opened == [w EXCEPT !.session[s] = NewSession]
           IN  Sound(IF AtLimit(opened) THEN schedule_max_idle_time_timer(opened) ELSE opened,
                     Sessions)
<1> DEFINE x == NewSession
           u == With(w, s, x)
<1>1. /\ x \in SessionStates /\ x.state = "Reading" /\ SessionSound(x) /\ ~Waiting(x)
  BY UnusedSound DEF NewSession
<1>2. w.ip.state # "Idle" /\ w \in Worlds
  BY DEF Sound, EngineSound
<1>3. [w EXCEPT !.session[s] = NewSession] = u
  BY DEF With
<1> HIDE DEF x
<1>4. u.ip = w.ip
  BY <1>2 DEF Worlds, With
<1>5. Sessions \in SUBSET Sessions /\ Sessions \in SUBSET (Sessions \cup {s})
  OBVIOUS
<1>6. Sound(u, Sessions)
  BY <1>1, <1>2, <1>5, SessionChanged
<1> HIDE DEF u
<1>7. Sound(schedule_max_idle_time_timer(u), Sessions)
  BY <1>2, <1>4, <1>6, MaxIdleTimeSound
<1> QED
  BY <1>3, <1>6, <1>7

LEMMA HandledSound ==
    ASSUME NEW w, NEW s \in Sessions, Handled(w, s)
    PROVE  Sound(handle_io_progression(w, s), Sessions)
BY ProgressionSound DEF Handled

LEMMA StreamLostSound ==
    ASSUME NEW w, Sound(w, Sessions), NEW s \in Sessions, w.session[s].state # "Free"
    PROVE  Sound(handle_io_progression(CloseSession(w, s), s), Sessions)
<1>1. Handled(CloseSession(w, s), s)
  BY StreamSound, CloseHandled
<1> QED
  BY <1>1, HandledSound

LEMMA ReadSound ==
    ASSUME NEW w, Sound(w, Sessions), NEW s \in Sessions, w.session[s].state = "Reading",
           NEW i \in Inputs
    PROVE  LET filled == [w EXCEPT !.session[s].old = FALSE, !.session[s].inbound = @ + 1]
           IN  Sound(handle_io_progression(handle_input(filled, s, i), s), Sessions)
<1> DEFINE v == w.session[s]
           x == [v EXCEPT !.old = FALSE, !.inbound = v.inbound + 1]
           u == With(w, s, x)
<1>1. /\ w \in Worlds /\ v \in SessionStates /\ SessionSound(v)
      /\ Sound(w, Sessions \ {s}) /\ w.ip.state # "Idle"
  BY StreamSound
<1>2. [w EXCEPT !.session[s].old = FALSE, !.session[s].inbound = @ + 1] = u
  BY <1>1 DEF With, Worlds, SessionStates
<1>3. v.inbound + 1 \in 0 .. MaxFill
  BY <1>1, ServerAssumption DEF SessionStates, SessionSound, Settled
<1>4. /\ x \in SessionStates /\ x.state = "Reading" /\ x.sent = v.sent /\ x.owed = v.owed
      /\ x.flags = v.flags /\ x.subscribed = v.subscribed
      /\ x.isSecured = v.isSecured /\ x.verified = v.verified
  BY <1>1, <1>3 DEF SessionStates
<1> HIDE DEF x
<1>5. Sound(u, Sessions \ {s}) /\ u.ip = w.ip /\ u.session[s] = x
  BY <1>1, <1>4, SessionSettled
<1>6. Reads(u, s)
  BY <1>1, <1>4, <1>5 DEF Reads, SessionSound, Settled
<1> HIDE DEF u
<1>7. Sound(handle_io_progression(handle_input(u, s, i), s), Sessions)
  BY <1>6, InputSound, HandledSound
<1> QED
  BY <1>2, <1>7

LEMMA SpaceAvailableSound ==
    ASSUME NEW w, Sound(w, Sessions), NEW s \in Sessions, w.session[s].state = "Writing",
           NEW i \in Inputs
    PROVE  LET fresh == [w EXCEPT !.session[s].old = FALSE]
           IN  Sound(handle_io_progression(WriteOutboundData(fresh, s, i), s), Sessions)
<1> DEFINE v == w.session[s]
           x == [v EXCEPT !.old = FALSE]
           u == With(w, s, x)
<1>1. /\ w \in Worlds /\ v \in SessionStates /\ SessionSound(v)
      /\ Sound(w, Sessions \ {s}) /\ w.ip.state # "Idle"
  BY StreamSound
<1>2. [w EXCEPT !.session[s].old = FALSE] = u
  BY <1>1 DEF With, Worlds, SessionStates
<1>3. x \in SessionStates /\ x.state = "Writing" /\ SessionSound(x)
  BY <1>1 DEF SessionStates, SessionSound, Settled
<1> HIDE DEF x
<1>4. Sound(u, Sessions \ {s}) /\ u.ip = w.ip /\ u.session[s] = x
  BY <1>1, <1>3, SessionSettled
<1> HIDE DEF u
<1>5. Handled(WriteOutboundData(u, s, i), s)
  BY <1>1, <1>3, <1>4, WriteSound
<1> QED
  BY <1>2, <1>5, HandledSound

\* Time passes for a session.
LEMMA TimeSound ==
    ASSUME NEW w, Sound(w, Sessions), NEW s \in Sessions, s \in Open(w)
    PROVE  /\ Sound([w EXCEPT !.session[s].due = TRUE], Sessions)
           /\ Sound([w EXCEPT !.session[s].old = TRUE], Sessions)
<1> DEFINE v == w.session[s]
           x == [v EXCEPT !.due = TRUE]
           y == [v EXCEPT !.old = TRUE]
<1>1. /\ w \in Worlds /\ v \in SessionStates /\ SessionSound(v) /\ w.ip.state # "Idle"
      /\ v.state # "Free" /\ v.state # "Idle"
      /\ Waiting(v) => w.ip.eventTimer
  BY StreamSound DEF Open, Sound
<1>2. Sessions \in SUBSET Sessions /\ Sessions \in SUBSET (Sessions \cup {s})
  OBVIOUS
<1>3. /\ [w EXCEPT !.session[s].due = TRUE] = With(w, s, x)
      /\ [w EXCEPT !.session[s].old = TRUE] = With(w, s, y)
  BY <1>1 DEF With, Worlds, SessionStates
<1>4. /\ x \in SessionStates /\ x.state # "Idle" /\ SessionSound(x)
      /\ Waiting(x) => w.ip.eventTimer
  BY <1>1 DEF SessionStates, SessionSound, Settled, Waiting
<1>5. /\ y \in SessionStates /\ y.state # "Idle" /\ SessionSound(y)
      /\ Waiting(y) => w.ip.eventTimer
  BY <1>1 DEF SessionStates, SessionSound, Settled, Waiting
<1> HIDE DEF x, y
<1>6. Sound(With(w, s, x), Sessions)
  BY <1>1, <1>2, <1>4, SessionChanged
<1>7. Sound(With(w, s, y), Sessions)
  BY <1>1, <1>2, <1>5, SessionChanged
<1> QED
  BY <1>3, <1>6, <1>7

-------------------------------------------------------------------------------
\* The server, its application and the BLE connection.

\* The server, the BLE transport and what the application was told change.
Serve(w, v, b, t) == [w EXCEPT !.server = v, !.ble = b, !.told = t]

LEMMA ServerChanged ==
    ASSUME NEW w, Sound(w, Sessions), NEW v \in [state : ServerStates, callbackTimer : BOOLEAN],
           NEW b \in BLEStates, NEW t \in ServerStates,
           v.callbackTimer \/ t = w.ip.state,
           v.state = "Idle" => w.ip.state = "Idle",
           v.state = "Running" => w.ip.state = "Running",
           w.ip.state # "Running" => b.link = "Off"
    PROVE  Sound(Serve(w, v, b, t), Sessions)
<1> DEFINE u == [w EXCEPT !.server = v, !.ble = b, !.told = t]
<1>1. w \in Worlds
  BY DEF Sound
<1>2. /\ u.server = v /\ u.ble = b /\ u.told = t /\ u.ip = w.ip
      /\ u.failed = w.failed /\ u.session = w.session /\ u \in Worlds
  BY <1>1 DEF Worlds
<1> HIDE DEF u
<1>3. EngineSound(u)
  BY <1>2 DEF Sound, EngineSound
<1>4. ServerSound(u)
  BY <1>2 DEF Sound, ServerSound
<1>5. Sound(u, Sessions)
  BY <1>2, <1>3, <1>4 DEF Sound
<1> QED
  BY <1>5 DEF u, Serve

LEMMA ServeFields ==
    ASSUME NEW w \in Worlds, NEW v, NEW b, NEW t
    PROVE  /\ Serve(w, v, b, t).server = v /\ Serve(w, v, b, t).ble = b
           /\ Serve(w, v, b, t).told = t /\ Serve(w, v, b, t).ip = w.ip
BY DEF Serve, Worlds

LEMMA CallbackSound ==
    ASSUME NEW w, Sound(w, Sessions)
    PROVE  LET u == [w EXCEPT !.server.callbackTimer = FALSE]
           IN  Sound(IF GetState(u) = "Idle" THEN CompleteShutdown(u) ELSE HandleUpdatedState(u),
                     Sessions)
<1> DEFINE idle == w.ip.state = "Idle"
           v == [w.server EXCEPT !.callbackTimer = FALSE]
           x == IF idle THEN [v EXCEPT !.state = "Idle"] ELSE v
           u == [w EXCEPT !.server = v]
           t == Serve(w, x, w.ble, w.ip.state)
           z == [w EXCEPT !.server.callbackTimer = FALSE]
           result == IF GetState(z) = "Idle" THEN CompleteShutdown(z) ELSE HandleUpdatedState(z)
<1>1. w \in Worlds /\ EngineSound(w) /\ ServerSound(w)
  BY DEF Sound
<1>2. /\ w.server \in [state : ServerStates, callbackTimer : BOOLEAN]
      /\ w.ip.state \in ServerStates /\ w.ble \in BLEStates
  BY <1>1, WorldFields DEF IPStates
<1>3. /\ x \in [state : ServerStates, callbackTimer : BOOLEAN]
      /\ x.state = "Idle" => w.ip.state = "Idle"
      /\ x.state = "Running" => w.ip.state = "Running"
  BY <1>1, <1>2 DEF ServerSound, ServerStates
<1>4. z = u /\ u \in Worlds /\ u.ip = w.ip
  BY <1>1, <1>2 DEF Worlds
<1>5. ASSUME idle PROVE result = t
  <2>1. HAPAssert(u, ~u.ip.discoverable) = u
    BY <1>1, <1>4, <1>5, AssertHolds DEF EngineSound
  <2>2. CompleteShutdown(u) = HandleUpdatedState([u EXCEPT !.server.state = "Idle"])
    BY <2>1 DEF CompleteShutdown
  <2>3. [u EXCEPT !.server.state = "Idle"] = [w EXCEPT !.server = x]
    BY <1>1, <1>2, <1>5 DEF Worlds
  <2>4. HandleUpdatedState([w EXCEPT !.server = x]) = t
    BY <1>1 DEF HandleUpdatedState, GetState, Serve, Worlds
  <2> QED
    BY <1>4, <1>5, <2>2, <2>3, <2>4 DEF GetState
<1>6. ASSUME ~idle PROVE result = t
  <2>1. HandleUpdatedState(u) = t
    BY <1>1, <1>6 DEF HandleUpdatedState, GetState, Serve, Worlds
  <2> QED
    BY <1>4, <1>6, <2>1 DEF GetState
<1> HIDE DEF x, result
<1>7. result = t
  BY <1>5, <1>6
<1>8. Sound(t, Sessions)
  BY <1>1, <1>2, <1>3, ServerChanged DEF ServerSound
<1> QED
  BY <1>7, <1>8 DEF result

LEMMA TransitionSound ==
    ASSUME NEW w, Sound(w, Sessions), w.ip.transitionTimer
    PROVE  Sound(schedule_max_idle_time_timer(
                     HAPAssert([w EXCEPT !.ip.transitionTimer = FALSE], Stopping(w))), Sessions)
<1> DEFINE j == [w.ip EXCEPT !.transitionTimer = FALSE]
           u == [w EXCEPT !.ip = j]
<1>1. w \in Worlds /\ EngineSound(w) /\ w.ip \in IPStates
  BY WorldFields DEF Sound
<1>2. Stopping(w)
  BY <1>1 DEF EngineSound, Stopping, IPStates, ServerStates
<1>3. /\ j \in IPStates /\ j.state = w.ip.state /\ j.eventTimer = w.ip.eventTimer
      /\ j.gcTimer = w.ip.gcTimer /\ j.nextState = w.ip.nextState
  BY <1>1 DEF IPStates
<1>4. u.ip = j /\ u.session = w.session /\ u \in Worlds
  BY <1>1, <1>3 DEF Worlds
<1>5. HAPAssert([w EXCEPT !.ip.transitionTimer = FALSE], Stopping(w)) = u
  <2>1. [w EXCEPT !.ip.transitionTimer = FALSE] = u
    BY <1>1 DEF Worlds
  <2> QED
    BY <1>2, <1>4, <2>1, AssertHolds
<1>6. EngineSound(u)
  <2> HIDE DEF u, j
  <2> QED
    BY <1>1, <1>2, <1>3, <1>4 DEF EngineSound, Stopping
<1> HIDE DEF j
<1>7. Sound(u, Sessions) /\ u.ip.state # "Idle"
  BY <1>2, <1>3, <1>4, <1>6, EngineChanged DEF Stopping
<1> HIDE DEF u
<1> QED
  BY <1>5, <1>7, MaxIdleTimeSound

LEMMA StartSound ==
    ASSUME NEW w, Sound(w, Sessions), w.server.state = "Idle", NEW l \in {"Listening", "Off"}
    PROVE  Sound(engine_start([PrepareStart(w) EXCEPT !.ble.link = l]), Sessions)
<1> DEFINE v == [w.server EXCEPT !.state = "Running", !.callbackTimer = TRUE]
           b == [w.ble EXCEPT !.link = l]
           j == [w.ip EXCEPT !.state = "Running", !.listener = TRUE, !.discoverable = TRUE]
           p == [w EXCEPT !.server = v, !.ble = b]
           u == [w EXCEPT !.server = v, !.ble = b, !.ip = j]
<1>1. w \in Worlds /\ EngineSound(w) /\ ServerSound(w)
  BY DEF Sound
<1>2. w.ip.state = "Idle" /\ ~w.ip.listener
  BY <1>1 DEF EngineSound, ServerSound
<1>3. /\ v \in [state : ServerStates, callbackTimer : BOOLEAN] /\ v.callbackTimer
      /\ v.state = "Running"
  BY <1>1, WorldFields DEF ServerStates
<1>4. b \in BLEStates
  BY <1>1, WorldFields DEF BLEStates
<1>5. /\ j \in IPStates /\ j.state = "Running" /\ j.listener /\ j.eventTimer = w.ip.eventTimer
      /\ j.nextState = w.ip.nextState /\ j.transitionTimer = w.ip.transitionTimer
  BY <1>1, WorldFields DEF IPStates, ServerStates
<1>6. [PrepareStart(w) EXCEPT !.ble.link = l] = p /\ p \in Worlds /\ p.ip = w.ip
  BY <1>1, <1>3, <1>4, WorldFields DEF PrepareStart, ScheduleHandleUpdatedState, Worlds
<1>7. engine_start(p) = u
  <2>1. HAPAssert(p, p.ip.state = "Idle") = p
    BY <1>2, <1>6, AssertHolds
  <2>2. HAPAssert(p, ~p.ip.listener) = p
    BY <1>2, <1>6, AssertHolds
  <2>3. engine_start(p) = [[p EXCEPT !.server.callbackTimer = TRUE] EXCEPT
                               !.ip.state = "Running", !.ip.listener = TRUE,
                               !.ip.discoverable = TRUE]
    BY <2>1, <2>2 DEF engine_start, ScheduleHandleUpdatedState
  <2>4. [p EXCEPT !.server.callbackTimer = TRUE] = p
    BY <1>1, WorldFields DEF Worlds
  <2>5. [p EXCEPT !.ip.state = "Running", !.ip.listener = TRUE, !.ip.discoverable = TRUE] = u
    BY <1>1 DEF Worlds
  <2> QED
    BY <2>3, <2>4, <2>5
<1> HIDE DEF p
<1>8. /\ u.server = v /\ u.ble = b /\ u.ip = j /\ u.told = w.told
      /\ u.failed = w.failed /\ u.session = w.session
  BY <1>1 DEF Worlds
<1>9. u \in Worlds
  BY <1>1, <1>3, <1>4, <1>5 DEF Worlds
<1>10. \A s \in Sessions : w.session[s].state = "Free"
  BY <1>1, <1>2 DEF EngineSound
<1> HIDE DEF u, v, b, j
<1>11. EngineSound(u) /\ ServerSound(u)
  BY <1>1, <1>2, <1>3, <1>5, <1>8, <1>10 DEF EngineSound, ServerSound
<1>12. Sound(u, Sessions)
  BY <1>5, <1>8, <1>9, <1>10, <1>11 DEF Sound, Waiting
<1> QED
  BY <1>6, <1>7, <1>12

\* The engine starts to stop when the BLE transport is down, and with it nothing but
\* the engine is left to stop.
LEMMA EngineStopSound ==
    ASSUME NEW w, Sound(w, Sessions), w.server.state = "Stopping", w.ble.link = "Off"
    PROVE  Sound(engine_stop(w), Sessions)
<1>1. w \in Worlds /\ EngineSound(w) /\ ServerSound(w) /\ w.ip \in IPStates
  BY WorldFields DEF Sound
<1>2. CASE w.ip.state # "Running"
  BY <1>2 DEF engine_stop
<1>3. CASE w.ip.state = "Running"
  <2> DEFINE v == [w.server EXCEPT !.callbackTimer = TRUE]
             j == [w.ip EXCEPT !.state = "Stopping", !.nextState = "Idle",
                               !.transitionTimer = TRUE]
             u == [w EXCEPT !.server = v, !.ip = j]
  <2>1. HAPAssert(w, w.ip.nextState = "Undefined") = w
    BY <1>1, <1>3, AssertHolds DEF EngineSound
  <2>2. engine_stop(w) = u
    <3>1. engine_stop(w) = ScheduleHandleUpdatedState(
                               [w EXCEPT !.ip.state = "Stopping", !.ip.nextState = "Idle",
                                         !.ip.transitionTimer = TRUE])
      BY <1>3, <2>1 DEF engine_stop
    <3>2. [w EXCEPT !.ip.state = "Stopping", !.ip.nextState = "Idle",
                    !.ip.transitionTimer = TRUE] = [w EXCEPT !.ip = j]
      BY <1>1 DEF Worlds
    <3> HIDE DEF j
    <3>3. ScheduleHandleUpdatedState([w EXCEPT !.ip = j]) = u
      BY <1>1 DEF ScheduleHandleUpdatedState, Worlds
    <3> QED
      BY <3>1, <3>2, <3>3
  <2>3. /\ v \in [state : ServerStates, callbackTimer : BOOLEAN] /\ v.callbackTimer
        /\ v.state = "Stopping"
    BY <1>1, WorldFields DEF ServerStates
  <2>4. /\ j \in IPStates /\ j.state = "Stopping" /\ j.nextState = "Idle"
        /\ j.eventTimer = w.ip.eventTimer /\ j.gcTimer = w.ip.gcTimer
    BY <1>1 DEF IPStates, ServerStates
  <2>5. /\ u.server = v /\ u.ble = w.ble /\ u.ip = j /\ u.told = w.told
        /\ u.failed = w.failed /\ u.session = w.session
    BY <1>1 DEF Worlds
  <2>6. u \in Worlds
    BY <1>1, <2>3, <2>4 DEF Worlds
  <2> HIDE DEF u, v, j
  <2>7. EngineSound(u) /\ ServerSound(u)
    BY <1>1, <2>3, <2>4, <2>5 DEF EngineSound, ServerSound
  <2>8. Sound(u, Sessions)
    BY <2>4, <2>5, <2>6, <2>7 DEF Sound
  <2> QED
    BY <2>2, <2>8
<1> QED
  BY <1>2, <1>3

LEMMA StopSound ==
    ASSUME NEW w, Sound(w, Sessions)
    PROVE  Sound(HAPAccessoryServerStop(w), Sessions)
<1> DEFINE v == [w.server EXCEPT !.state = "Stopping"]
           b == IF w.ble.link = "Connected"
                THEN IF w.ble.safeTimer = "Off" THEN [w.ble EXCEPT !.cancelled = TRUE] ELSE w.ble
                ELSE [w.ble EXCEPT !.link = "Off"]
           u == Serve(w, v, b, w.told)
<1>1. w \in Worlds /\ ServerSound(w) /\ w.ble \in BLEStates /\ w.told \in ServerStates
  BY WorldFields DEF Sound
<1>2. CASE w.server.state = "Idle"
  BY <1>2 DEF HAPAccessoryServerStop
<1>3. CASE w.server.state # "Idle"
  <2>1. TryStop([w EXCEPT !.server.state = "Stopping"]) = u
    BY <1>1 DEF TryStop, Cancel, Serve, Worlds
  <2>2. /\ v \in [state : ServerStates, callbackTimer : BOOLEAN]
        /\ v.callbackTimer = w.server.callbackTimer /\ v.state = "Stopping"
    BY <1>1, WorldFields DEF ServerStates
  <2>3. b \in BLEStates /\ (w.ble.link = "Off" => b.link = "Off")
    BY <1>1 DEF BLEStates
  <2>4. HAPAccessoryServerStop(w) = IF u.ble.link = "Off" THEN engine_stop(u) ELSE u
    BY <1>3, <2>1 DEF HAPAccessoryServerStop
  <2> HIDE DEF v, b
  <2>5. Sound(u, Sessions)
    BY <1>1, <2>2, <2>3, ServerChanged DEF ServerSound
  <2>6. u.server.state = "Stopping"
    BY <1>1, <2>2, ServeFields
  <2> HIDE DEF u
  <2> QED
    BY <2>4, <2>5, <2>6, EngineStopSound
<1> QED
  BY <1>2, <1>3

\* The BLE connection comes and goes, and answers, while its link is up.
LEMMA LinkSound ==
    ASSUME NEW w, Sound(w, Sessions), NEW b \in BLEStates,
           w.ble.link # "Off" \/ b.link = w.ble.link
    PROVE  Sound([w EXCEPT !.ble = b], Sessions)
<1>1. w \in Worlds /\ ServerSound(w)
  BY DEF Sound
<1>2. [w EXCEPT !.ble = b] = Serve(w, w.server, b, w.told)
  BY <1>1 DEF Serve, Worlds
<1>3. /\ w.server \in [state : ServerStates, callbackTimer : BOOLEAN]
      /\ w.told \in ServerStates /\ (w.ip.state # "Running" => b.link = "Off")
  BY <1>1, WorldFields DEF ServerSound
<1> QED
  BY <1>1, <1>2, <1>3, ServerChanged DEF ServerSound

-------------------------------------------------------------------------------
\* The steps.

LEMMA WorldIs ==
    /\ World.server = server /\ World.ip = ip /\ World.session = session
    /\ World.ble = ble /\ World.told = told /\ World.failed = failed
BY DEF World

\* A handler that leaves the world sound is a step that keeps the invariant.
LEMMA StepSound ==
    ASSUME NEW w, Sound(w, Sessions), Becomes(w)
    PROVE  IInv'
<1>1. w \in Worlds
  BY DEF Sound
<1>2. World' = w
  BY <1>1 DEF World, Becomes, Worlds
<1> QED
  BY <1>2 DEF IInv

LEMMA InitSound == Init => IInv
<1> SUFFICES ASSUME Init
             PROVE  Sound(World, Sessions)
  BY DEF IInv
<1>1. Unused \in SessionStates /\ SessionSound(Unused) /\ Unused.state = "Free"
  BY UnusedSound
<1>2. \A s \in Sessions : session[s] = Unused
  BY DEF Init
<1>3. World \in Worlds
  BY <1>1 DEF Init, World, Worlds, IPStates, BLEStates, ServerStates
<1>4. EngineSound(World)
  BY <1>1, <1>2, WorldIs DEF Init, EngineSound
<1>5. ServerSound(World)
  BY WorldIs DEF Init, ServerSound
<1> QED
  BY <1>1, <1>2, <1>3, <1>4, <1>5, WorldIs DEF Sound, Waiting

LEMMA StreamsStep ==
    ASSUME IInv, NEW s \in Sessions, Streams(s)
    PROVE  IInv'
<1>1. Sound(World, Sessions)
  BY DEF IInv
<1>2. CASE HandlePendingTCPStream(s)
  <2> DEFINE opened == [World EXCEPT !.session[s] = NewSession]
             w == IF AtLimit(opened) THEN schedule_max_idle_time_timer(opened) ELSE opened
  <2>1. Becomes(w) /\ World.ip.listener
    BY <1>2, WorldIs DEF HandlePendingTCPStream
  <2>2. Sound(w, Sessions)
    BY <1>1, <2>1, PendingStreamSound
  <2> HIDE DEF w
  <2> QED
    BY <2>1, <2>2, StepSound
<1>3. CASE StreamLost(s)
  <2> DEFINE w == handle_io_progression(CloseSession(World, s), s)
  <2>1. Becomes(w) /\ World.session[s].state # "Free"
    BY <1>3 DEF StreamLost, Open
  <2>2. Sound(w, Sessions)
    BY <1>1, <2>1, StreamLostSound
  <2> HIDE DEF w
  <2> QED
    BY <2>1, <2>2, StepSound
<1>4. CASE ReadInboundData(s)
  <2> DEFINE filled == [World EXCEPT !.session[s].old = FALSE, !.session[s].inbound = @ + 1]
  <2>1. PICK i \in Inputs : Becomes(handle_io_progression(handle_input(filled, s, i), s))
    BY <1>4 DEF ReadInboundData
  <2> DEFINE w == handle_io_progression(handle_input(filled, s, i), s)
  <2>2. World.session[s].state = "Reading"
    BY <1>4, WorldIs DEF ReadInboundData
  <2>3. Sound(w, Sessions)
    BY <1>1, <2>2, ReadSound
  <2>4. Becomes(w)
    BY <2>1
  <2> HIDE DEF w
  <2> QED
    BY <2>3, <2>4, StepSound
<1>5. CASE HandleSpaceAvailable(s)
  <2> DEFINE fresh == [World EXCEPT !.session[s].old = FALSE]
             partial == [kind |-> "Partial", request |-> "-", parts |-> 1, ahead |-> 0]
             I == IF session[s].out.left = 1 /\ session[s].inbound # 0
                  THEN {j \in Inputs :
                            /\ Fits(j, session[s].inbound)
                            /\ j.kind = "Request" => Matters(session[s], j.request)}
                  ELSE {partial}
  <2>1. PICK i \in I : Becomes(handle_io_progression(WriteOutboundData(fresh, s, i), s))
    BY <1>5 DEF HandleSpaceAvailable
  <2>2. i \in Inputs
    <3>1. partial \in Inputs
      BY DEF Inputs
    <3> HIDE DEF partial
    <3> QED
      BY <3>1
  <2> DEFINE w == handle_io_progression(WriteOutboundData(fresh, s, i), s)
  <2>3. World.session[s].state = "Writing"
    BY <1>5, WorldIs DEF HandleSpaceAvailable
  <2>4. Sound(w, Sessions)
    BY <1>1, <2>2, <2>3, SpaceAvailableSound
  <2>5. Becomes(w)
    BY <2>1
  <2> HIDE DEF w
  <2> QED
    BY <2>4, <2>5, StepSound
<1> QED
  BY <1>2, <1>3, <1>4, <1>5 DEF Streams

LEMMA TimersStep ==
    ASSUME IInv, Timers
    PROVE  IInv'
<1>1. Sound(World, Sessions) /\ EngineSound(World) /\ World \in Worlds
  BY DEF IInv, Sound
<1>2. CASE handle_garbage_collection_timer
  <2>1. Becomes(collect_garbage(World)) /\ World.ip.gcTimer
    BY <1>2, WorldIs DEF handle_garbage_collection_timer
  <2>2. Sound(collect_garbage(World), Sessions)
    BY <1>1, <2>1, CollectGarbageSound
  <2> QED
    BY <2>1, <2>2, StepSound
<1>3. CASE handle_max_idle_time_timer
  <2>1. Becomes(schedule_max_idle_time_timer(World)) /\ World.ip.maxIdleTimer
    BY <1>3, WorldIs DEF handle_max_idle_time_timer
  <2>2. World.ip.state # "Idle"
    BY <1>1, <2>1 DEF EngineSound
  <2>3. Sound(schedule_max_idle_time_timer(World), Sessions)
    BY <1>1, <2>2, MaxIdleTimeSound
  <2> QED
    BY <2>1, <2>3, StepSound
<1>4. CASE handle_server_state_transition_timer
  <2> DEFINE w == schedule_max_idle_time_timer(
                      HAPAssert([World EXCEPT !.ip.transitionTimer = FALSE], Stopping(World)))
  <2>1. Becomes(w) /\ World.ip.transitionTimer
    BY <1>4, WorldIs DEF handle_server_state_transition_timer
  <2>2. Sound(w, Sessions)
    BY <1>1, <2>1, TransitionSound
  <2> HIDE DEF w
  <2> QED
    BY <2>1, <2>2, StepSound
<1>5. CASE handle_event_notification_timer
  <2>1. Becomes(schedule_event_notifications(World))
    BY <1>5 DEF handle_event_notification_timer
  <2>2. Sound(World, {}) /\ \A s \in Sessions : SessionSound(World.session[s])
    BY <1>1 DEF Sound
  <2>3. Sound(schedule_event_notifications(World), Sessions)
    BY <2>2, ScheduleEventsSound
  <2> QED
    BY <2>1, <2>3, StepSound
<1>6. CASE CallbackTimerExpired
  <2> DEFINE u == [World EXCEPT !.server.callbackTimer = FALSE]
             w == IF GetState(u) = "Idle" THEN CompleteShutdown(u) ELSE HandleUpdatedState(u)
  <2>1. Becomes(w)
    BY <1>6 DEF CallbackTimerExpired
  <2>2. Sound(w, Sessions)
    BY <1>1, CallbackSound
  <2> HIDE DEF w
  <2> QED
    BY <2>1, <2>2, StepSound
<1>7. CASE SafeToDisconnectTimerExpired
  <2> DEFINE b == [World.ble EXCEPT !.safeTimer = "Off"]
             c == [World.ble EXCEPT !.safeTimer = "Off", !.cancelled = TRUE]
  <2>1. Becomes([World EXCEPT !.ble = b]) \/ Becomes([World EXCEPT !.ble = c])
    <3>1. [World EXCEPT !.ble.safeTimer = "Off"] = [World EXCEPT !.ble = b]
      BY <1>1 DEF Worlds
    <3>2. Cancel([World EXCEPT !.ble = b]) = [World EXCEPT !.ble = c]
      BY <1>1, WorldFields DEF Cancel, Worlds, BLEStates
    <3> HIDE DEF b, c
    <3> QED
      BY <1>7, <3>1, <3>2 DEF SafeToDisconnectTimerExpired
  <2>2. /\ b \in BLEStates /\ b.link = World.ble.link
        /\ c \in BLEStates /\ c.link = World.ble.link
    BY <1>1, WorldFields DEF BLEStates
  <2> HIDE DEF b, c
  <2>3. Sound([World EXCEPT !.ble = b], Sessions)
    BY <1>1, <2>2, LinkSound
  <2>4. Sound([World EXCEPT !.ble = c], Sessions)
    BY <1>1, <2>2, LinkSound
  <2> QED
    BY <2>1, <2>3, <2>4, StepSound
<1> QED
  BY <1>2, <1>3, <1>4, <1>5, <1>6, <1>7 DEF Timers

LEMMA TimeStep ==
    ASSUME IInv, Time
    PROVE  IInv'
<1>1. Sound(World, Sessions) /\ World \in Worlds
  BY DEF IInv, Sound
<1>2. ASSUME NEW s \in Sessions, Second(s)
      PROVE  IInv'
  <2> DEFINE w == [World EXCEPT !.session[s].due = TRUE]
  <2>1. Becomes(w) /\ Sound(w, Sessions)
    BY <1>1, <1>2, TimeSound DEF Second
  <2> HIDE DEF w
  <2> QED
    BY <2>1, StepSound
<1>3. ASSUME NEW s \in Sessions, Minute(s)
      PROVE  IInv'
  <2> DEFINE w == [World EXCEPT !.session[s].old = TRUE]
  <2>1. Becomes(w) /\ Sound(w, Sessions)
    BY <1>1, <1>3, TimeSound DEF Minute
  <2> HIDE DEF w
  <2> QED
    BY <2>1, StepSound
<1>4. CASE Moment
  <2> DEFINE b == [World.ble EXCEPT !.safeTimer = "Ripe"]
             w == [World EXCEPT !.ble = b]
  <2>1. Becomes(w)
    BY <1>1, <1>4 DEF Moment, Worlds
  <2>2. b \in BLEStates /\ b.link = World.ble.link
    BY <1>1, WorldFields DEF BLEStates
  <2> HIDE DEF b
  <2>3. Sound(w, Sessions)
    BY <1>1, <2>2, LinkSound
  <2> HIDE DEF w
  <2> QED
    BY <2>1, <2>3, StepSound
<1> QED
  BY <1>2, <1>3, <1>4 DEF Time

LEMMA ApplicationStep ==
    ASSUME IInv, Application
    PROVE  IInv'
<1>1. Sound(World, Sessions) /\ World \in Worlds /\ ServerSound(World)
  BY DEF IInv, Sound
<1>2. CASE HAPAccessoryServerStart
  <2> DEFINE l == IF HasBLE THEN "Listening" ELSE "Off"
             w == engine_start([PrepareStart(World) EXCEPT !.ble.link = l])
  <2>1. Becomes(w) /\ World.server.state = "Idle"
    BY <1>2, WorldIs DEF HAPAccessoryServerStart
  <2>2. l \in {"Listening", "Off"}
    OBVIOUS
  <2> HIDE DEF l
  <2>3. Sound(w, Sessions)
    BY <1>1, <2>1, <2>2, StartSound
  <2> HIDE DEF w
  <2> QED
    BY <2>1, <2>3, StepSound
<1>3. CASE StartRefused
  <2> DEFINE v == [World.server EXCEPT !.callbackTimer = TRUE]
             w == Serve(World, v, World.ble, World.told)
             u == [PrepareStart(World) EXCEPT !.server.state = "Idle"]
  <2>1. Becomes(u) /\ World.server.state = "Idle"
    BY <1>3, WorldIs DEF StartRefused
  <2>2. w = u
    BY ZenonT(40), <1>1, <2>1, WorldFields DEF PrepareStart, ScheduleHandleUpdatedState, Serve, Worlds
  <2>3. /\ v \in [state : ServerStates, callbackTimer : BOOLEAN] /\ v.callbackTimer
        /\ v.state = "Idle"
    BY <1>1, <2>1, WorldFields
  <2> HIDE DEF v, u
  <2>4. Sound(w, Sessions)
    BY <1>1, <2>1, <2>3, WorldFields, ServerChanged DEF ServerSound
  <2> HIDE DEF w
  <2> QED
    BY <2>1, <2>2, <2>4, StepSound
<1>4. CASE Stop
  <2>1. Becomes(HAPAccessoryServerStop(World))
    BY <1>4 DEF Stop
  <2>2. Sound(HAPAccessoryServerStop(World), Sessions)
    BY <1>1, StopSound
  <2> QED
    BY <2>1, <2>2, StepSound
<1>5. ASSUME NEW c \in Chars, RaiseEvent(c)
      PROVE  IInv'
  <2> DEFINE w == engine_raise_event(World, c, Sessions)
  <2>1. Becomes(w) /\ World.server.state = "Running"
    BY <1>5, WorldIs DEF RaiseEvent
  <2>2. World.ip.state # "Idle" /\ Sessions \in SUBSET Sessions
    BY <1>1, <2>1 DEF ServerSound
  <2>3. Sound(w, Sessions)
    BY <1>1, <2>2, RaiseEventSound
  <2> HIDE DEF w
  <2> QED
    BY <2>1, <2>3, StepSound
<1> QED
  BY <1>2, <1>3, <1>4, <1>5 DEF Application

LEMMA BLEStep ==
    ASSUME IInv, BLE
    PROVE  IInv'
<1>1. Sound(World, Sessions) /\ World \in Worlds
  BY DEF IInv, Sound
<1>2. CASE HandleConnectedCentral
  <2> DEFINE b == [World.ble EXCEPT !.link = "Connected"]
             w == [World EXCEPT !.ble = b]
  <2>1. Becomes(w) /\ World.ble.link # "Off"
    BY <1>1, <1>2, WorldIs DEF HandleConnectedCentral, Worlds
  <2>2. b \in BLEStates
    BY <1>1, WorldFields DEF BLEStates
  <2> HIDE DEF b
  <2>3. Sound(w, Sessions)
    BY <1>1, <2>1, <2>2, LinkSound
  <2> HIDE DEF w
  <2> QED
    BY <2>1, <2>3, StepSound
<1>3. CASE DidSendGATTResponse
  <2> DEFINE b == [World.ble EXCEPT !.safeTimer = "Fresh"]
             w == [World EXCEPT !.ble = b]
  <2>1. Becomes(w) /\ World.ble.link # "Off"
    BY <1>1, <1>3, WorldIs DEF DidSendGATTResponse, Worlds
  <2>2. b \in BLEStates
    BY <1>1, WorldFields DEF BLEStates
  <2> HIDE DEF b
  <2>3. Sound(w, Sessions)
    BY <1>1, <2>1, <2>2, LinkSound
  <2> HIDE DEF w
  <2> QED
    BY <2>1, <2>3, StepSound
<1>4. CASE HandleDisconnectedCentral
  <2> DEFINE b == [link |-> "Listening", safeTimer |-> "Off", cancelled |-> FALSE]
             w == [World EXCEPT !.ble = b]
  <2>1. /\ Becomes(w) \/ Becomes(HAPAccessoryServerStop(w))
        /\ World.ble.link # "Off"
    BY <1>4, WorldIs DEF HandleDisconnectedCentral
  <2>2. b \in BLEStates
    BY DEF BLEStates
  <2> HIDE DEF b
  <2>3. Sound(w, Sessions)
    BY <1>1, <2>1, <2>2, LinkSound
  <2> HIDE DEF w
  <2> QED
    BY <2>1, <2>3, StopSound, StepSound
<1> QED
  BY <1>2, <1>3, <1>4 DEF BLE

\* Every step keeps the invariant.
THEOREM ServerInvariance == Spec => []IInv
<1>1. Init => IInv
  BY InitSound
<1>2. IInv /\ [Next]_vars => IInv'
  <2>1. IInv /\ Next => IInv'
    BY StreamsStep, TimersStep, TimeStep, ApplicationStep, BLEStep DEF Next
  <2>2. IInv /\ UNCHANGED vars => IInv'
    BY DEF IInv, World, vars
  <2> QED
    BY <2>1, <2>2
<1> QED
  BY <1>1, <1>2, PTL DEF Spec

\* The server is in one of its states, no assertion of its handlers fails (plain text is
\* never taken from a session whose pairing is gone, the last session goes only while the
\* server stops), an idle server has taken everything down, and the application knows the
\* state or is about to be told it.
THEOREM ServerAlwaysSound == Spec => []ServerIsSound
<1>1. IInv => ServerIsSound
  <2> SUFFICES ASSUME Sound(World, Sessions)
               PROVE  ServerIsSound
    BY DEF IInv
  <2>1. World \in Worlds /\ EngineSound(World) /\ ServerSound(World)
    BY DEF Sound
  <2>2. TypeOK
    BY <2>1, WorldFields, WorldIs DEF TypeOK, SessionStates, IPStates, BLEStates, ServerStates
  <2>3. NeverFails
    BY <2>1, WorldIs DEF ServerSound, NeverFails
  <2>4. IdleMeansDown
    BY <2>1, WorldIs DEF ServerSound, EngineSound, IdleMeansDown, Used
  <2>5. AppIsTold
    BY <2>1, WorldIs DEF ServerSound, AppIsTold, GetState
  <2> QED
    BY <2>2, <2>3, <2>4, <2>5 DEF ServerIsSound
<1> QED
  BY <1>1, ServerInvariance, PTL

\* An event that was raised for a subscriber is flagged or being sent, whatever is read or
\* written meanwhile, and a session that could be sent what is flagged has its timer.
THEOREM EventsAlwaysKept == Spec => []EventsAreKept
<1>1. IInv => EventsAreKept
  <2> SUFFICES ASSUME Sound(World, Sessions)
               PROVE  EventsAreKept
    BY DEF IInv
  <2>1. EventsNotLost
    BY WorldIs DEF Sound, SessionSound, Settled, EventsNotLost
  <2>2. EventTimerArmed
    BY WorldIs DEF Sound, Waiting, EventTimerArmed, Flagged, AtRest
  <2> QED
    BY <2>1, <2>2 DEF EventsAreKept
<1> QED
  BY <1>1, ServerInvariance, PTL
================================================================================
