------------------------ MODULE HAPBLEPeripheralManager ------------------------
(***************************************************************************)
(* The Bluetooth LE link of an accessory and its central: GATT writes and  *)
(* reads, one full-featured procedure and a fallback procedure on every    *)
(* other characteristic, subscriptions and indications, and the timers     *)
(* that end what is not finished.  The central may do anything; as long as *)
(* it follows the protocol, its pairing stays and no timer runs out, the   *)
(* history "clean" is TRUE.                                                *)
(***************************************************************************)
EXTENDS HAPBLEProcedure

CONSTANTS Initially,    \* the values of the characteristics
          Requests,     \* the requests of the central: characteristic, header, body
          Outcomes,     \* what handlers answer
          Spaces,       \* what fits a GATT read besides the body: "Tag", "Header", "Body"
          Lengths       \* tokens a fragment of the central may have

ASSUME LinkAssumption ==
    /\ Initially \in [Chars -> Seq(STRING)] /\ Lengths \subseteq Nat
    /\ Requests \subseteq
           [char : Chars, body : Seq(STRING),
            header : [opcode : STRING, tid : Nat, iid : STRING, total : Nat]]

VARIABLES link,      \* connected, cancelled by the accessory, indication unconfirmed
          running,   \* the accessory server is running
          pairing,   \* the central's pairing: stored, with admin permission
          session,   \* HAPSession and HAPBLESession
          proc,      \* the procedure of the storage
          attr,      \* connection state of the GATT table's elements
          value,     \* the values of the characteristics
          told,      \* subscriptions the application was told of
          gap,       \* how far the nonces of the two ends are apart
          asked,     \* per characteristic, the request the central works on
          prepared,  \* the bodies of timed writes that were confirmed to the central
          clean      \* nobody gave reason to end the link

vars == <<link, running, pairing, session, proc, attr, value, told, gap,
          asked, prepared, clean>>

NoFallback == [timer |-> FALSE, tid |-> 0, status |-> "None", remaining |-> 0]
Fresh == [subscribed |-> FALSE, pending |-> FALSE, fallback |-> NoFallback]
NoCall == [err |-> "None", procedure |-> "None", new |-> FALSE]
NotAsked == [on |-> FALSE, header |-> NoHeader, body |-> <<>>, sent |-> 0, sealed |-> FALSE]

NonePrepared == [c \in Chars |-> <<>>]

Accessory ==
    [link |-> link, running |-> running, pairing |-> pairing, session |-> session,
     proc |-> proc, attr |-> attr, value |-> value, told |-> told, gap |-> gap,
     call |-> NoCall]

Becomes(w) ==
    /\ link' = w.link /\ running' = w.running /\ pairing' = w.pairing
    /\ session' = w.session /\ proc' = w.proc /\ attr' = w.attr
    /\ value' = w.value /\ told' = w.told /\ gap' = w.gap

\* A link that is to end is left alone by all but its timers and the central.
Lasts == link.connected /\ ~session.terminal

Init ==
    /\ link = [connected |-> FALSE, cancelled |-> FALSE, blocked |-> FALSE]
    /\ running = TRUE
    /\ pairing = [stored |-> TRUE, admin |-> TRUE]
    /\ session = [SessionCreated EXCEPT !.linkTimer = "Off"]
    /\ proc = Detached
    /\ attr = [c \in Chars |-> Fresh]
    /\ value = Initially
    /\ told = {} /\ gap = InStep
    /\ asked = [c \in Chars |-> NotAsked]
    /\ prepared = NonePrepared
    /\ clean = TRUE

-----------------------------------------------------------------------------
(* Procedures of the characteristics.                                      *)

AbortAllFallbackProcedures(w) ==
    [w EXCEPT !.attr = [c \in Chars |-> [w.attr[c] EXCEPT !.fallback = NoFallback]]]

ResetEventState(w) ==
    [w EXCEPT !.attr = [c \in Chars |->
                           [w.attr[c] EXCEPT !.subscribed = FALSE, !.pending = FALSE]]]

Uses(w, procedure, new) == [w EXCEPT !.call.procedure = procedure, !.call.new = new]
RefusesCall(w) == Error(CancelCentralConnection(w), "InvalidState")

Settled(w, c) == IF DropsSecuritySession(c) THEN AbortAllFallbackProcedures(w) ELSE w

GetProcedure(w, c) ==
    LET s == Settled(w, c)
    IN IF w.session.terminal THEN RefusesCall(w)
       ELSE IF s.attr[c].fallback.timer THEN Uses(s, "Fallback", FALSE)
       ELSE IF s.proc.char = c THEN Uses(s, "Full", FALSE)
       ELSE Error(s, "InvalidState")

StartFallback(w, c) ==
    DidStartBLEProcedure(Uses([w EXCEPT !.attr[c].fallback.timer = TRUE], "Fallback", TRUE))

\* One procedure at a time has the buffer.  A characteristic that drops the
\* security session takes it from the procedure that has it.
AttachProcedure(w, c) ==
    LET s == Settled(w, c)
    IN IF w.session.terminal \/ (~w.running /\ ~IsInProgress(w)) THEN RefusesCall(w)
       ELSE IF s.attr[c].fallback.timer THEN Uses(s, "Fallback", FALSE)
       ELSE IF s.proc.char = c THEN Uses(s, "Full", FALSE)
       ELSE IF IsInProgress(s) /\ ~DropsSecuritySession(c) THEN StartFallback(s, c)
       ELSE Uses(Attach(s, c), "Full", TRUE)

\* What a fallback procedure will answer to its request.
FallbackStatus(header) ==
    IF header.opcode \notin Opcodes \/ header.iid = "Own" THEN "MaxProcedures"
    ELSE IF header.opcode = "ServiceSignatureRead" /\ header.iid = "Zero"
    THEN "ZeroInstanceIDServiceSignatureRead"
    ELSE "InvalidInstanceID"

FallbackTakes(w, c, m) ==
    LET f == w.attr[c].fallback
    IN IF w.call.new
       THEN IF ~IsRequest(m) THEN Error(w, "InvalidData")
            ELSE [w EXCEPT !.attr[c].fallback =
                     [timer |-> TRUE, tid |-> m.header.tid, status |-> FallbackStatus(m.header),
                      remaining |-> m.header.total - Len(m.chunk)]]
       ELSE IF ~Continues(m, f.tid, f.remaining) THEN Error(w, "InvalidData")
       ELSE [w EXCEPT !.attr[c].fallback.remaining = @ - Len(m.chunk)]

\* Whether to decrypt is asked of the session, for every message.
FallbackWrite(w, c, m, seal) ==
    LET opened == IF IsSecured(w) THEN Decrypt(w, seal) ELSE w
        taken  == FallbackTakes(opened, c, IF IsSecured(w) THEN m ELSE InTheOpen(m, seal))
    IN IF Failed(opened) THEN opened ELSE IF Failed(taken) THEN taken
       ELSE DidSendGATTResponse(taken)

FallbackRead(w, c, space) ==
    LET sealed == IF IsSecured(w) THEN Encrypt(w) ELSE w
    IN IF w.attr[c].fallback.remaining # 0 THEN Error(w, "InvalidState")
       ELSE IF space # "Body" THEN Error(w, "OutOfResources")
       ELSE DidSendGATTResponse([sealed EXCEPT !.attr[c].fallback = NoFallback])

\* An error ends the link, otherwise events that waited may go.
Concluded(w) == IF Failed(w) THEN Terminate(w) ELSE SendPendingEventNotifications(w)

HandleWriteRequest(w, c, m, seal) ==
    LET a == AttachProcedure(w, c)
    IN Concluded(IF Failed(a) THEN a
                 ELSE IF a.call.procedure = "Full" THEN HandleGATTWrite(a, m, seal)
                 ELSE FallbackWrite(a, c, m, seal))

HandleReadRequest(w, c, space, room, outcome) ==
    LET g == GetProcedure(w, c)
    IN Concluded(IF Failed(g) THEN g
                 ELSE IF g.call.procedure = "Full" THEN HandleGATTRead(g, space, room, outcome)
                 ELSE FallbackRead(g, c, space))

-----------------------------------------------------------------------------
(* Subscriptions.                                                          *)

\* The application is told of the subscriptions of a secured session.
Tells(w, c, enable) ==
    IF ~IsSecured(w) THEN w
    ELSE [w EXCEPT !.told = IF enable THEN @ \cup {c} ELSE @ \ {c}]

\* Faulty: an event that waits for its subscriber is not looked for.
SetWithoutSending(w, c, enable) ==
    IF w.attr[c].subscribed = enable THEN w
    ELSE Tells([w EXCEPT !.attr[c].subscribed = enable], c, enable)

SetNotificationsEnabled(w, c, enable) ==
    IF w.attr[c].subscribed = enable THEN w
    ELSE SendPendingEventNotifications(
             Tells([w EXCEPT !.attr[c].subscribed = enable], c, enable))

RaiseEvent(w, c) == SendPendingEventNotifications([w EXCEPT !.attr[c].pending = TRUE])

HandleReadyToUpdateSubscribers(w) ==
    SendPendingEventNotifications([w EXCEPT !.link.blocked = FALSE])

-----------------------------------------------------------------------------
(* The link.                                                               *)

HandleConnectedCentral(w) ==
    LET reset == ResetEventState(AbortAllFallbackProcedures(w))
    IN [reset EXCEPT !.link = [connected |-> TRUE, cancelled |-> FALSE, blocked |-> FALSE],
                     !.session = SessionCreated, !.told = {}]

HandleDisconnectedCentral(w) ==
    LET cut == [w EXCEPT !.link = [connected |-> FALSE, cancelled |-> FALSE, blocked |-> FALSE],
                         !.proc = Detached]
    IN ResetEventState(SessionRelease(AbortAllFallbackProcedures(cut)))

FallbackProcedureTimerExpired(w, c) == Terminate([w EXCEPT !.attr[c].fallback = NoFallback])

-----------------------------------------------------------------------------
(* The central.  asked[c] is what it knows of its procedure on c.           *)

Exchanging == \E c \in Chars : DropsSecuritySession(c) /\ asked[c].on
Busy == \E c \in Chars : asked[c].on

\* By the protocol a request is sealed if and only if the session is secured,
\* nothing goes on beside an exchange of the pairing service, and a prepared
\* write is executed, on the characteristic that it was prepared on, next.
BeginsWell(r, seal) ==
    LET c == r.char
    IN /\ ~asked[c].on /\ ~Exchanging
       /\ seal = IF session.active /\ ~DropsSecuritySession(c) THEN "Next" ELSE "None"
       /\ r.header.opcode = "CharacteristicTimedWrite" => r.body # <<>>
       /\ (r.header.opcode = "CharacteristicExecuteWrite") = (prepared[c] # <<>>)

ContinuesWell(c, tid, n, seal) ==
    /\ asked[c].on /\ tid = asked[c].header.tid
    /\ n > 0
    /\ seal = IF asked[c].sealed THEN "Next" ELSE "None"

\* What follows in the body.
Chunk(body, sent, n) == SubSeq(body, sent + 1, IF sent + n < Len(body) THEN sent + n ELSE Len(body))

\* A bound: on a link that the accessory has asked to be cut nothing more happens.
Carries == link.connected /\ ~link.cancelled

ReadsWell(c, space) == asked[c].on /\ asked[c].sent = asked[c].header.total /\ space = "Body"

\* A bound: the central makes one mistake in a connection.
Behaves(well) == (clean \/ well) /\ clean' = (clean /\ well)

\* The nonce of the central moves with every message it seals.
Seals(w, seal) == IF seal = "Next" THEN [w EXCEPT !.gap.in = Wider(@)] ELSE w

\* What opens if its reader expects it sealed.
Reads(w, c) ==
    IF asked[c].sealed THEN [w EXCEPT !.gap.out = IF @ = 1 THEN 0 ELSE 2] ELSE w

\* A request is gone with its procedure, and on a link that is to end.
Kept(w, a) ==
    [d \in Chars |-> IF /\ ~w.session.terminal
                        /\ w.proc.char = d \/ w.attr[d].fallback.timer
                     THEN a[d] ELSE NotAsked]

\* a: what the central works on, p: what it has prepared, as far as it is kept.
Answered(w, a, p) ==
    /\ Becomes(w)
    /\ asked' = Kept(w, a)
    /\ prepared' = IF w.session.terminal THEN NonePrepared ELSE p

Happens(w) == Answered(w, asked, prepared)

BeginRequest ==
    \E r \in Requests, n \in Lengths, seal \in {"Next", "Old", "None"} :
        LET c == r.char
            header == [r.header EXCEPT !.total = Len(r.body)]
            chunk == Chunk(r.body, 0, n)
            w == HandleWriteRequest(Seals(Accessory, seal), c, First(header, chunk), seal)
        IN /\ Carries
           /\ Behaves(BeginsWell(r, seal))
           /\ Answered(w,
                  [asked EXCEPT ![c] = [on |-> TRUE, header |-> header, body |-> r.body,
                                        sent |-> Len(chunk), sealed |-> seal = "Next"]],
                  IF DropsSecuritySession(c) THEN [NonePrepared EXCEPT ![c] = prepared[c]]
                  ELSE prepared)

ContinueRequest ==
    \E c \in Chars, tid \in {r.header.tid : r \in Requests}, n \in Lengths,
       seal \in {"Next", "None"} :
        LET chunk == Chunk(asked[c].body, asked[c].sent, n)
            w == HandleWriteRequest(Seals(Accessory, seal), c, Continuation(tid, chunk), seal)
        IN /\ Carries /\ Busy
           /\ Behaves(ContinuesWell(c, tid, Len(chunk), seal))
           /\ Answered(w, [asked EXCEPT ![c].sent = @ + Len(chunk)], prepared)

WriteGarbage ==
    \E c \in Chars, seal \in {"Next", "None"} :
        /\ Carries /\ Behaves(FALSE)
        /\ Happens(HandleWriteRequest(Seals(Accessory, seal), c, Malformed, seal))

\* The response is complete when the accessory has done with the transaction.
Over(w, c) ==
    \/ attr[c].fallback.timer /\ ~w.attr[c].fallback.timer
    \/ w.proc.char = c /\ w.proc.txn.state = "WaitingForInitialWrite"

Prepares(w, c) == w.proc.char = c /\ w.proc.multi = "TimedWrite"
Confirmed(c) ==
    IF asked[c].header.opcode = "CharacteristicTimedWrite" /\ prepared[c] = <<>>
    THEN asked[c].body ELSE prepared[c]

ReadResponse ==
    \E c \in Chars, space \in Spaces, outcome \in Outcomes :
        /\ Carries
        /\ Behaves(ReadsWell(c, space))
        /\ \E w \in {HandleReadRequest(Accessory, c, space, 1, outcome)} :
              IF asked[c].on /\ ~Failed(w) /\ Over(w, c)
              THEN Answered(Reads(w, c), [asked EXCEPT ![c] = NotAsked],
                            [prepared EXCEPT ![c] = IF Prepares(w, c) THEN Confirmed(c) ELSE <<>>])
              ELSE Happens(IF Failed(w) THEN w ELSE Reads(w, c))

Subscribe ==
    \E c \in Chars, enable \in BOOLEAN :
        /\ Lasts /\ Db(c).events
        /\ UNCHANGED clean
        /\ Happens(SetNotificationsEnabled(Accessory, c, enable))

ConfirmIndication ==
    /\ link.blocked /\ Carries /\ UNCHANGED clean
    /\ Happens(HandleReadyToUpdateSubscribers(Accessory))

Connect ==
    /\ ~link.connected /\ running
    /\ clean' = TRUE
    /\ Happens(HandleConnectedCentral(Accessory))

Disconnect ==
    /\ link.connected
    /\ asked' = [c \in Chars |-> NotAsked] /\ prepared' = NonePrepared
    /\ clean' = TRUE
    /\ Becomes(HandleDisconnectedCentral(Accessory))

-----------------------------------------------------------------------------
(* The application, the other transport and time.                          *)

Raise == \E c \in Chars :
    /\ Db(c).events /\ Lasts /\ UNCHANGED clean
    /\ Happens(RaiseEvent(Accessory, c))

\* Another controller removes the pairing of the central, or makes it a user.
LosePairing ==
    /\ pairing.stored /\ Lasts /\ clean /\ clean' = FALSE
    /\ Happens([Accessory EXCEPT !.pairing = [stored |-> FALSE, admin |-> FALSE]])

LoseAdmin ==
    /\ pairing.admin /\ Lasts /\ UNCHANGED clean
    /\ Happens([Accessory EXCEPT !.pairing.admin = FALSE])

\* HAPAccessoryServerStop: BLE tries to stop.
Stop ==
    /\ running /\ Lasts /\ clean /\ clean' = FALSE
    /\ LET stopped == [Accessory EXCEPT !.running = FALSE]
       IN Happens(IF session.safe THEN CancelCentralConnection(stopped) ELSE stopped)

LinkTimerRunsLate ==
    /\ session.linkTimer = "On" /\ clean' = FALSE
    /\ Happens([Accessory EXCEPT !.session.linkTimer = "Late"])

LinkTimer ==
    /\ session.linkTimer = "Late" /\ clean' = FALSE
    /\ Happens(LinkTimerOrPairingProcedureTimerExpired(Accessory, "Link"))

PairingTimer ==
    /\ session.pairingTimer /\ Carries /\ clean' = FALSE
    /\ Happens(LinkTimerOrPairingProcedureTimerExpired(Accessory, "Pairing"))

ProcedureTimer ==
    /\ proc.timer /\ Carries /\ clean' = FALSE
    /\ Happens(ProcedureTimerExpired(Accessory))

FallbackTimer(c) ==
    /\ attr[c].fallback.timer /\ Carries /\ clean' = FALSE
    /\ Happens(FallbackProcedureTimerExpired(Accessory, c))

SafeTimer ==
    /\ ~session.safe /\ Carries /\ UNCHANGED clean
    /\ Happens(SafeToDisconnectTimerExpired(Accessory))

TimedWriteExpires ==
    /\ proc.multi = "TimedWrite" /\ ~proc.timed.expired /\ UNCHANGED clean
    /\ Happens([Accessory EXCEPT !.proc.timed.expired = TRUE])

Next ==
    \/ BeginRequest \/ ContinueRequest \/ WriteGarbage \/ ReadResponse
    \/ Subscribe \/ ConfirmIndication \/ Connect \/ Disconnect
    \/ Raise \/ LosePairing \/ LoseAdmin \/ Stop
    \/ LinkTimerRunsLate \/ LinkTimer \/ PairingTimer \/ ProcedureTimer
    \/ (\E c \in Chars : FallbackTimer(c)) \/ SafeTimer \/ TimedWriteExpires

Spec == Init /\ [][Next]_vars

\* No timer of a procedure stays on for ever, nor the one that makes a terminal
\* link safe to cut: each expires if nothing turns it off.  The platform cuts the
\* link that it was asked to cut.  (As a timer's action turns it off, this is weak
\* fairness of ProcedureTimer, FallbackTimer(c), session.terminal /\ SafeTimer and
\* link.cancelled /\ Disconnect.)
Fairness ==
    /\ []<>~proc.timer
    /\ \A c \in Chars : []<>~attr[c].fallback.timer
    /\ []<>~(session.terminal /\ ~session.safe /\ Carries)
    /\ []<>~link.cancelled

FairSpec == Spec /\ Fairness

-----------------------------------------------------------------------------
(* Properties.                                                             *)

\* The variables have their types.
TypeOK ==
    /\ link \in [connected : BOOLEAN, cancelled : BOOLEAN, blocked : BOOLEAN]
    /\ running \in BOOLEAN /\ clean \in BOOLEAN
    /\ pairing \in [stored : BOOLEAN, admin : BOOLEAN]
    /\ session \in [active : BOOLEAN, transient : BOOLEAN, exchange : [Exchanges -> 0 .. ErrorPending],
                    terminal : BOOLEAN, safe : BOOLEAN, linkTimer : {"Off", "On", "Late"},
                    pairingTimer : BOOLEAN]
    /\ proc.char \in Chars \cup {NotAttached} /\ proc.multi \in {"None", "TimedWrite"}
    /\ proc.txn.err = "None" \/ session.terminal
    /\ \A c \in Chars : attr[c] \in [subscribed : BOOLEAN, pending : BOOLEAN,
           fallback : [timer : BOOLEAN, tid : Nat, remaining : Nat,
                       status : {"None", "MaxProcedures", "InvalidInstanceID",
                                 "ZeroInstanceIDServiceSignatureRead"}]]
    /\ told \subseteq Chars
    /\ gap \in [in : 0 .. 2, out : 0 .. 2]

\* A central that follows the protocol keeps its link, and every message that
\* one end seals the other opens, whatever procedures it runs next to each other
\* and whatever session it makes anew.  (HAPBLEProcedureHandleGATTWrite and
\* HandleGATTRead, AttachProcedure)
GoodCentralsAreServed ==
    link.connected /\ clean => ~session.terminal /\ ~link.cancelled /\ gap = InStep

\* A response carries the transaction identifier of the request that the central
\* made on that characteristic, from a full or a fallback procedure.
\* (HAPBLETransactionSetResponse, HandleReadRequest)
AnswersMatch ==
    ~session.terminal =>
        /\ proc.txn.state \in {"WaitingForInitialRead", "WritingResponse"} =>
               asked[proc.char].on /\ proc.txn.response.tid = asked[proc.char].header.tid
        /\ \A c \in Chars : attr[c].fallback.timer =>
               asked[c].on /\ attr[c].fallback.tid = asked[c].header.tid

\* A value is written only as the central sent it, whole: the body of the write
\* request, or the body of the timed write that was confirmed before the request
\* that executes it, in time, and where a timed write is required only so.
\* (HAPBLEProcedureProcessTransaction, CompleteTransaction)
WrittenAsSent ==
    [][\A c \in Chars : value'[c] # value[c] =>
          LET opcode == asked[c].header.opcode
          IN /\ asked[c].on /\ asked[c].sent = asked[c].header.total
             /\ \/ /\ opcode = "CharacteristicWrite" /\ ~Db(c).timed
                   /\ value'[c] = ValueIn(asked[c].body)
                \/ /\ opcode = "CharacteristicExecuteWrite" /\ ~proc.timed.expired
                   /\ value'[c] = ValueIn(prepared[c])
             /\ Db(c).openWrite \/ IsSecured(Accessory)]_vars

\* A value that needs a secured session leaves in a procedure that began secured,
\* whose responses are sealed.  (HAPBLEProcedureHandleGATTRead)
SecretsAreSealed ==
    /\ ~session.terminal /\ proc.txn.response.total # 0
    /\ ~Db(proc.char).openRead
    /\ asked[proc.char].header.opcode \in {"CharacteristicRead", "CharacteristicWrite",
                                            "CharacteristicExecuteWrite"}
    => proc.startedSecured

\* The application has been told of the subscriptions of a secured session, all
\* and no others, and of none when there is no session.  (SetNotificationsEnabled,
\* HAPBLEPeripheralManagerHandleSessionAccept and HandleSessionInvalidate)
SubscriptionsAreTold ==
    link.connected /\ pairing.stored =>
        /\ session.active => told = Subscribed(Accessory)
        /\ ~session.active /\ ~session.terminal => told = {}

\* An event that a subscriber may have does not wait for anything but the
\* confirmation of the indication before it.  (SendPendingEventNotifications and
\* the places that call it)
EventsAreNotStuck ==
    link.connected /\ IsSecured(Accessory) /\ ~IsTransient(Accessory) /\ ~link.blocked
        => DueEvents(Accessory) = {}

\* An indication goes to a subscriber in a secured session that may read the
\* value.  (SendPendingEventNotifications)
IndicationsAreAuthorized ==
    \A c \in Chars :
          attr[c].pending /\ ~attr'[c].pending /\ link.connected /\ link'.connected =>
              /\ attr'[c].subscribed /\ pairing'.stored /\ ~session.terminal
              /\ session'.active \/ session'.terminal
              /\ Db(c).adminRead => pairing'.admin

\* What has begun has a timer that ends it: a transaction, a prepared write, a
\* fallback procedure, and the link of a session that Pair Verify made.
\* (CompleteTransaction, HAPBLESessionDidCompletePairingProcedure)
UnfinishedIsTimed ==
    ~session.terminal =>
        /\ proc.txn.state # "WaitingForInitialWrite" \/ proc.multi # "None" => proc.timer
        /\ \A c \in Chars : attr[c].fallback.status # "None" => attr[c].fallback.timer
        /\ session.active /\ ~session.transient /\ pairing.stored => session.linkTimer # "Off"

\* A link that is to end ends, also if a response was under way.
\* (HAPBLESessionInvalidate, SafeToDisconnectTimerExpired)
TerminalLinksEnd == session.terminal /\ link.connected ~> ~link.connected

\* What the central asked for is answered or ends with the link.
\* (ProcedureTimerExpired, FallbackProcedureTimerExpired)
RequestsEnd == \A c \in Chars : asked[c].on ~> ~asked[c].on

\* What is in progress on the link has a timer, is answered as it was asked and in the
\* security it began in.
TransactionsAreSound == TypeOK /\ AnswersMatch /\ SecretsAreSealed /\ UnfinishedIsTimed

\* A subscription is known to the application and served as soon as it can be, to a
\* central that may have the value.
SubscribersAreServed ==
    [][SubscriptionsAreTold' /\ EventsAreNotStuck' /\ IndicationsAreAuthorized]_vars

\* Nothing that was begun stays for good: requests are answered, links that are to end
\* end.
EverythingEnds == RequestsEnd /\ TerminalLinksEnd
=============================================================================
