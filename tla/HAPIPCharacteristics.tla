------------------------- MODULE HAPIPCharacteristics -------------------------
(***************************************************************************)
(* GET and PUT /characteristics, PUT /prepare and the event message: what  *)
(* the sessions of an IP accessory server do to the values of the          *)
(* application, to their event tables and to their timed writes            *)
(* (HAPIPAccessoryServer.c).  One action is one request of a controller,   *)
(* which the server serves to its end before it looks at the next.         *)
(***************************************************************************)
EXTENDS HAPIPAccessoryProtocol

CONSTANTS
    Sessions,        \* sessions with a verified controller
    Queries,         \* queries of GET /characteristics
    Bodies,          \* bodies of PUT /characteristics
    Preparations,    \* bodies of PUT /prepare
    Refusals,        \* what the application's handlers answer, per path
    InitialValues,   \* the application's values
    UpdatedValues,   \* per path, values the application changes to
    MaxEventNotifications,   \* entries of the event table of a session
    ScratchBytes,            \* the scratch buffer of the IP storage
    OutboundBytes            \* room for a body in the outbound buffer

VARIABLES value,     \* the application's value of each path
          session,   \* per session: permission, event table, timed write
          told,      \* subscriptions the application was told of
          response   \* the last response: bookkeeping for the properties

charVars == <<value, session, told, response>>

InsufficientPrivileges            == -70401
UnableToPerformOperation          == -70402
ResourceIsBusy                    == -70403
WriteToReadOnlyCharacteristic     == -70404
ReadFromWriteOnlyCharacteristic   == -70405
NotificationNotSupported          == -70406
OutOfResources                    == -70407
ResourceDoesNotExist              == -70409
InvalidValueInWrite               == -70410
InsufficientAuthorization         == -70411

ConvertCharacteristicReadErrorToStatusCode ==
    [None |-> Success, Unknown |-> UnableToPerformOperation,
     InvalidState |-> UnableToPerformOperation, OutOfResources |-> OutOfResources,
     NotAuthorized |-> InsufficientAuthorization, Busy |-> ResourceIsBusy]

ConvertCharacteristicWriteErrorToStatusCodeFaulty ==   \* Faulty: hides a refusal
    [None |-> Success, Unknown |-> UnableToPerformOperation,
     InvalidState |-> UnableToPerformOperation, InvalidData |-> InvalidValueInWrite,
     OutOfResources |-> OutOfResources, NotAuthorized |-> Success,
     Busy |-> ResourceIsBusy]

ConvertCharacteristicWriteErrorToStatusCode ==
    [None |-> Success, Unknown |-> UnableToPerformOperation,
     InvalidState |-> UnableToPerformOperation, InvalidData |-> InvalidValueInWrite,
     OutOfResources |-> OutOfResources,
     NotAuthorized |-> InsufficientAuthorization, Busy |-> ResourceIsBusy]

\* What the requests are made of, and what the application answers and holds: a
\* value that breaks its constraints fails an assertion when it is read.
ASSUME RequestsAssumption ==
    /\ Queries \subseteq Seq(QueryParameters)
    /\ Bodies \subseteq Seq(BodyMembers) /\ Preparations \subseteq Seq(ObjectMembers)

ASSUME ApplicationAssumption ==
    /\ Refusals \subseteq [Paths -> [read  : DOMAIN ConvertCharacteristicReadErrorToStatusCode,
                                     write : DOMAIN ConvertCharacteristicWriteErrorToStatusCode]]
    /\ InitialValues \in [Paths -> JSONValues]
    /\ \A path \in Paths : Fulfils(get_db_ctx(path), InitialValues[path])
    /\ DOMAIN UpdatedValues \subseteq Paths
    /\ \A path \in DOMAIN UpdatedValues : \A v \in UpdatedValues[path] :
           v \in JSONValues /\ Fulfils(get_db_ctx(path), v)

ASSUME StorageAssumption ==
    MaxEventNotifications \in Nat /\ ScratchBytes \in Nat /\ OutboundBytes \in Nat

NoTimedWrite == [isSet |-> FALSE, left |-> 0, pid |-> 0]

-----------------------------------------------------------------------------
(* Reading.  The result is the status, the value and the room that is left *)
(* in the scratch buffer: a text is kept there with its terminator.        *)

Encoded(n) == 4 * ((n + 2) \div 3)   \* bytes of n bytes in base64
Decoded(n) == (3 * n) \div 4

ReadText(status, v, numBytes, room) ==
    CASE status # Success  -> [status |-> status, value |-> NoValue, room |-> room]
      [] numBytes >= room  -> [status |-> OutOfResources, value |-> NoValue, room |-> room]
      [] OTHER -> [status |-> Success, value |-> [v EXCEPT !.numBytes = numBytes],
                   room |-> room - numBytes - 1]

handle_characteristic_read_request(chr, v, err, room) ==
    LET status == ConvertCharacteristicReadErrorToStatusCode
    IN  CASE chr.format = "string" ->
               ReadText(status[HAPStringCharacteristicHandleRead(v, err, room)],
                        v, v.numBytes, room)
          [] chr.format \in {"data", "tlv8"} ->
               ReadText(status[HAPDataCharacteristicHandleRead(v, err, room)],
                        [v EXCEPT !.extra = 0], Encoded(v.numBytes), room)
          [] OTHER ->
               [status |-> status[err], room |-> room,
                value |-> CASE err # "None" -> NoValue
                            [] chr.format = "float" ->
                                   HAPFloatCharacteristicHandleRead(chr, v)
                            [] OTHER -> v]

\* One context of a request; all but an event message hide a switch event.
ReadRequest(s, purpose, refusal, r, c) ==
    LET chr == get_db_ctx(c.path)
        read == handle_characteristic_read_request(chr, value[c.path],
                                                   refusal[c.path].read, r.room)
        Answer(status, v) ==
            Append(r.contexts,
                   [c EXCEPT !.status = status, !.value = v,
                             !.ev = c.path \in ToSet(session[s].events)])
    IN  CASE ~Known(c.path) ->
               [r EXCEPT !.contexts = Append(@, [c EXCEPT !.status = ResourceDoesNotExist])]
          [] Known(c.path) /\ ~MayRead(chr, session[s].admin) ->
               [r EXCEPT !.contexts = Answer(InsufficientPrivileges, NoValue)]
          [] Known(c.path) /\ MayRead(chr, session[s].admin) /\ ~Has(chr, "readable") ->
               [r EXCEPT !.contexts = Answer(ReadFromWriteOnlyCharacteristic, NoValue)]
          [] Known(c.path) /\ MayRead(chr, session[s].admin) /\ Has(chr, "readable")
             /\ purpose # "EventNotification" /\ chr.type = "ProgrammableSwitchEvent" ->
               [r EXCEPT !.contexts = Answer(Success, NoValue)]
          [] OTHER ->
               [contexts |-> Answer(read.status, read.value), room |-> read.room]

\* The answers after each context, and the room that is left.
ReadRun(s, purpose, refusal, contexts) ==
    LET run[i \in 0 .. Len(contexts)] ==
            IF i = 0 THEN [contexts |-> <<>>, room |-> ScratchBytes]
            ELSE ReadRequest(s, purpose, refusal, run[i - 1], contexts[i])
    IN  run

handle_characteristic_read_requests(s, purpose, refusal, contexts) ==
    ReadRun(s, purpose, refusal, contexts)[Len(contexts)].contexts

-----------------------------------------------------------------------------
(* Writing.  w is what a write changes: [value, events, told, room].       *)

TableIsFull(w) == Len(w.events) = MaxEventNotifications

Subscribed(w, path) == path \in ToSet(w.events)

Subscribe(w, s, path) ==
    [w EXCEPT !.events = Append(@, path), !.told = @ \cup {<<s, path>>}]

\* The entries after an entry move down.
Without(events, path) ==
    LET at == CHOOSE i \in DOMAIN events : events[i] = path
    IN  [i \in 1 .. Len(events) - 1 |-> IF i < at THEN events[i] ELSE events[i + 1]]

UnsubscribeFaulty(w, s, path) ==   \* Faulty: the application is not told
    [w EXCEPT !.events = Without(@, path)]

Unsubscribe(w, s, path) ==
    [w EXCEPT !.events = Without(@, path), !.told = @ \ {<<s, path>>}]

\* The member "ev".
WriteEvent(w, s, c) ==
    LET chr == get_db_ctx(c.path)
        Answer(status, u) == [status |-> status, world |-> u]
    IN  CASE ~MayRead(chr, session[s].admin) -> Answer(InsufficientPrivileges, w)
          [] MayRead(chr, session[s].admin) /\ ~Has(chr, "supportsEventNotification") ->
               Answer(NotificationNotSupported, w)
          [] OTHER ->
               CASE c.ev = "Enabled" /\ ~Subscribed(w, c.path) ->
                      IF TableIsFull(w) THEN Answer(OutOfResources, w)
                      ELSE Answer(Success, Subscribe(w, s, c.path))
                 [] c.ev = "Disabled" /\ Subscribed(w, c.path) ->
                      Answer(Success, Unsubscribe(w, s, c.path))
                 [] OTHER -> Answer(Success, w)

\* A value in the type of its characteristic.
UIntUpTo(c, max) == c.type = "UInt" /\ c.value.n <= max

Typed(c, chr) ==
    CASE chr.format \in {"data", "tlv8"} -> c.type = "String" /\ c.value.base64
      [] chr.format = "bool"   -> UIntUpTo(c, 1)
      [] chr.format = "uint8"  -> UIntUpTo(c, UINT8_MAX)
      [] chr.format = "uint16" -> UIntUpTo(c, UINT16_MAX)
      [] chr.format = "uint32" -> UIntUpTo(c, UINT32_MAX)
      [] chr.format = "uint64" -> UIntUpTo(c, UINT64_MAX)
      [] chr.format = "int"    -> c.type = "Int" \/ UIntUpTo(c, INT32_MAX)
      [] chr.format = "float"  -> c.type # "String"
      [] OTHER                 -> c.type = "String" /\ c.value.numBytes <= 256

Converted(c, chr) ==
    IF chr.format \in {"data", "tlv8"}
    THEN [c.value EXCEPT !.numBytes = Decoded(@)] ELSE c.value

HandleWrite(chr, v, err) ==
    CASE chr.format = "data"   -> HAPDataCharacteristicHandleWrite(chr, v, err)
      [] chr.format = "bool"   -> HAPBoolCharacteristicHandleWrite(chr, v, err)
      [] chr.format = "uint8"  -> HAPUInt8CharacteristicHandleWrite(chr, v, err)
      [] chr.format = "uint16" -> HAPUInt16CharacteristicHandleWrite(chr, v, err)
      [] chr.format = "uint32" -> HAPUInt32CharacteristicHandleWrite(chr, v, err)
      [] chr.format = "uint64" -> HAPUInt64CharacteristicHandleWrite(chr, v, err)
      [] chr.format = "int"    -> HAPIntCharacteristicHandleWrite(chr, v, err)
      [] chr.format = "float"  -> HAPFloatCharacteristicHandleWrite(chr, v, err)
      [] chr.format = "string" -> HAPStringCharacteristicHandleWrite(chr, v, err)
      [] OTHER                 -> HAPTLV8CharacteristicHandleWrite(chr, v, err)

\* The value goes to the application.  A string is copied into what is left of
\* the scratch buffer; a TLV8 value that is no string is ignored.
WriteValue(w, c, err) ==
    LET chr == get_db_ctx(c.path)
        write == HandleWrite(chr, Converted(c, chr), err)
    IN  CASE chr.format = "tlv8" /\ c.type # "String" ->
               [status |-> Success, world |-> w]
          [] ~Typed(c, chr) -> [status |-> InvalidValueInWrite, world |-> w]
          [] Typed(c, chr) /\ chr.format = "string" /\ c.value.numBytes >= w.room ->
               [status |-> OutOfResources, world |-> w]
          [] OTHER ->
               [status |-> ConvertCharacteristicWriteErrorToStatusCode[write.err],
                world  |-> IF write.err = "None" THEN [w EXCEPT !.value[c.path] = write.value]
                           ELSE w]

\* A characteristic with write responses is read back, asked or not.
WriteResponse(w, c, err) ==
    LET chr  == get_db_ctx(c.path)
        read == handle_characteristic_read_request(chr, w.value[c.path], err, w.room)
    IN  CASE ~Has(chr, "supportsWriteResponse") ->
               [world |-> w, context |-> [c EXCEPT !.status =
                   IF c.response THEN ReadFromWriteOnlyCharacteristic ELSE Success]]
          [] Has(chr, "supportsWriteResponse") /\ read.status = Success /\ c.response ->
               [world |-> [w EXCEPT !.room = read.room],
                context |-> [c EXCEPT !.status = Success, !.value = read.value]]
          [] OTHER -> [world |-> w, context |-> [c EXCEPT !.status = read.status]]

\* After the value: what is answered, or read back.
AfterWrite(write, u, c, err) ==
    IF write.status = Success THEN WriteResponse(write.world, c, err.read)
    ELSE [world |-> u, context |-> [c EXCEPT !.status = write.status]]

\* After the subscription, with its status.
AfterEvent(event, admin, c, err) ==
    LET chr == get_db_ctx(c.path)
        Answer(status) == [world |-> event.world, context |-> [c EXCEPT !.status = status]]
    IN  CASE c.type = "None" /\ c.ev = "Undefined" -> Answer(InvalidValueInWrite)
          [] c.type = "None" /\ c.ev # "Undefined" -> Answer(event.status)
          [] c.type # "None" /\ ~MayWrite(chr, admin) -> Answer(InsufficientPrivileges)
          [] c.type # "None" /\ MayWrite(chr, admin) /\ ~MayRead(chr, admin)
             /\ (Has(chr, "supportsWriteResponse") \/ c.response) ->
               Answer(InsufficientPrivileges)
          [] OTHER ->
               CASE ~Has(chr, "writable") -> Answer(WriteToReadOnlyCharacteristic)
                 [] Has(chr, "writable") /\ c.authData = "Malformed" ->
                      Answer(InvalidValueInWrite)
                 [] OTHER -> AfterWrite(WriteValue(event.world, c, err.write),
                                        event.world, c, err)

handle_characteristic_write_request(w, s, c, err) ==
    AfterEvent(IF c.ev = "Undefined" THEN [status |-> Success, world |-> w]
               ELSE WriteEvent(w, s, c), session[s].admin, c, err)

WriteRequest(s, refusal, timedWrite, r, c) ==
    LET Answer(status) == [r EXCEPT !.contexts = Append(@, [c EXCEPT !.status = status])]
        Done(done) == [world |-> done.world, contexts |-> Append(r.contexts, done.context)]
    IN  CASE ~Known(c.path) -> Answer(ResourceDoesNotExist)
          [] Known(c.path) /\ c.type # "None" /\ ~timedWrite
             /\ Has(get_db_ctx(c.path), "requiresTimedWrite") ->
               Answer(InvalidValueInWrite)
          [] OTHER -> Done(handle_characteristic_write_request(r.world, s, c, refusal[c.path]))

\* What is written and answered after each context.
WriteRun(s, refusal, contexts, timedWrite) ==
    LET run[i \in 0 .. Len(contexts)] ==
            IF i = 0 THEN [world |-> [value |-> value, events |-> session[s].events,
                                      told |-> told, room |-> ScratchBytes],
                           contexts |-> <<>>]
            ELSE WriteRequest(s, refusal, timedWrite, run[i - 1], contexts[i])
    IN  run

handle_characteristic_write_requests(s, refusal, contexts, timedWrite) ==
    WriteRun(s, refusal, contexts, timedWrite)[Len(contexts)]

-----------------------------------------------------------------------------
(* Responses.  A body is counted, then written; text is appended with a    *)
(* terminator, so that a body needs one byte more than it has.  The        *)
(* assertion that it was written ends the process ("Fatal").               *)

Response(kind, s, contexts) ==
    [kind |-> kind, s |-> s, contexts |-> contexts, outcome |-> "NoContent",
     length |-> 0, parameters |-> NoParameters, timed |-> FALSE]

NoResponse == Response("None", "nobody", <<>>)

BodyTokens(r) ==
    CASE r.kind = "Read"  -> GetCharacteristicReadResponseBytes(r.contexts, r.parameters)
      [] r.kind = "Write" -> GetCharacteristicWriteResponseBytes(r.contexts)
      [] OTHER            -> GetEventNotificationBytes(r.contexts)

BodyLength(r) ==
    CASE r.kind = "Read"  -> GetNumCharacteristicReadResponseBytes(r.contexts, r.parameters)
      [] r.kind = "Write" -> GetNumCharacteristicWriteResponseBytes(r.contexts)
      [] OTHER            -> GetNumEventNotificationBytes(r.contexts)

write_response(r) ==
    LET length  == BodyLength(r)
        written == NumBytes(BodyTokens(r)) < OutboundBytes
    IN  CASE length > OutboundBytes -> [r EXCEPT !.outcome = "OutOfResources"]
          [] length <= OutboundBytes /\ ~written -> [r EXCEPT !.outcome = "Fatal"]
          [] OTHER -> [r EXCEPT !.outcome = "Body", !.length = length]

Refused(err) ==
    [NoResponse EXCEPT !.outcome =
        IF err = "OutOfResources" THEN err ELSE "BadRequest"]

-----------------------------------------------------------------------------
(* Actions.                                                                *)

get_characteristics(s) ==
    /\ UNCHANGED <<value, session, told>>
    /\ \E query \in Queries, refusal \in Refusals :
           LET request == GetCharacteristicReadRequests(query)
               answers == handle_characteristic_read_requests(
                              s, "GetCharacteristics", refusal, request.contexts)
           IN  response' =
                   CASE request.err # "None" -> Refused(request.err)
                     [] request.err = "None" /\ request.contexts = <<>> ->
                            Response("Read", s, <<>>)
                     [] OTHER -> write_response(
                            [Response("Read", s, answers)
                                EXCEPT !.parameters = request.parameters])

TimedWriteFailsFaulty(s, pid) ==   \* Faulty: an expired write is carried out
    pid # <<>> /\ (~session[s].timed.isSet \/ session[s].timed.pid # pid[1])

TimedWriteFails(s, pid) ==
    LET timed == session[s].timed
    IN  pid # <<>> /\ (~timed.isSet \/ timed.left < 0 \/ timed.pid # pid[1])

\* A body of a timed write ends it, carried out or not.
TimedWriteDone(s, request) ==
    IF request.pid # <<>> THEN NoTimedWrite ELSE session[s].timed

\* Nothing is written back when all writes succeed and none wants a response.
WriteAnswer(s, contexts) ==
    IF \A c \in ToSet(contexts) : c.status = Success /\ ~c.response
    THEN Response("Write", s, contexts)
    ELSE write_response(Response("Write", s, contexts))

\* The timed write fails: each of its writes does.
RejectWrites(s, request) ==
    /\ response' = write_response(Response("Write", s,
           [i \in 1 .. Len(request.contexts) |->
               [request.contexts[i] EXCEPT !.status = InvalidValueInWrite]]))
    /\ session' = [session EXCEPT ![s].timed = TimedWriteDone(s, request)]
    /\ UNCHANGED <<value, told>>

CarryOutWrites(s, refusal, request) ==
    \E r \in {handle_characteristic_write_requests(
                  s, refusal, request.contexts, request.pid # <<>>)} :
        /\ response' = [WriteAnswer(s, r.contexts) EXCEPT !.timed = request.pid # <<>>]
        /\ session' = [session EXCEPT ![s].events = r.world.events,
                                      ![s].timed = TimedWriteDone(s, request)]
        /\ value' = r.world.value /\ told' = r.world.told

put_characteristics(s) ==
    \E body \in Bodies, refusal \in Refusals :
        \E request \in {GetCharacteristicWriteRequests(body)} :
            \/ /\ request.err # "None"
               /\ response' = Refused(request.err)
               /\ UNCHANGED <<value, session, told>>
            \/ /\ request.err = "None" /\ TimedWriteFails(s, request.pid)
               /\ RejectWrites(s, request)
            \/ /\ request.err = "None" /\ ~TimedWriteFails(s, request.pid)
               /\ CarryOutWrites(s, refusal, request)

put_prepare(s) ==
    /\ UNCHANGED <<value, told>>
    /\ \E body \in Preparations :
           LET p == GetCharacteristicWritePreparation(body)
           IN  IF p.err = "None"
               THEN /\ session' = [session EXCEPT ![s].timed =
                                      [isSet |-> TRUE, left |-> p.ttl, pid |-> p.pid]]
                    /\ response' = NoResponse
               ELSE /\ response' = Refused(p.err) /\ UNCHANGED session

\* n of m places, in their order.
InOrder(n, m) ==
    {at \in [1 .. n -> 1 .. m] : \A i, j \in 1 .. n : i < j => at[i] < at[j]}

\* Some of the raised events are sent; HAPIPAccessoryServer says when.
write_event_notifications(s) ==
    /\ UNCHANGED <<value, session, told>>
    /\ \E n \in 1 .. Len(session[s].events), refusal \in Refusals :
           \E raised \in InOrder(n, Len(session[s].events)) :
               response' = write_response(Response("Event", s,
                   handle_characteristic_read_requests(
                       s, "EventNotification", refusal,
                       [i \in 1 .. n |-> ReadContext(session[s].events[raised[i]])])))

\* Another controller takes the descriptor.
CloseSession(s) ==
    /\ told' = told \ {<<s, path>> : path \in ToSet(session[s].events)}
    /\ \E admin \in BOOLEAN :
           session' = [session EXCEPT ![s] =
                          [admin |-> admin, events |-> <<>>, timed |-> NoTimedWrite]]
    /\ response' = NoResponse
    /\ UNCHANGED value

\* Add Pairing changes the permissions of a controller with a session.
SetPermissions(s) ==
    /\ session' = [session EXCEPT ![s].admin = ~@]
    /\ response' = NoResponse
    /\ UNCHANGED <<value, told>>

ApplicationUpdates ==
    /\ \E path \in DOMAIN UpdatedValues :
           \E v \in UpdatedValues[path] : value' = [value EXCEPT ![path] = v]
    /\ response' = NoResponse
    /\ UNCHANGED <<session, told>>

Tick ==
    /\ session' = [s \in Sessions |-> [session[s] EXCEPT !.timed.left =
                      IF session[s].timed.isSet /\ @ >= 0 THEN @ - 1 ELSE @]]
    /\ response' = NoResponse
    /\ UNCHANGED <<value, told>>

CharInit ==
    /\ value = InitialValues
    /\ session \in [Sessions -> [admin : BOOLEAN, events : {<<>>}, timed : {NoTimedWrite}]]
    /\ told = {}
    /\ response = NoResponse

\* The response is on its way; the server looks at the next request.
ResponseSent ==
    /\ response # NoResponse /\ response.outcome # "Fatal" /\ response' = NoResponse
    /\ UNCHANGED <<value, session, told>>

Requests ==
    \/ \E s \in Sessions :
           \/ get_characteristics(s) \/ put_characteristics(s) \/ put_prepare(s)
           \/ write_event_notifications(s)
           \/ CloseSession(s) \/ SetPermissions(s)
    \/ ApplicationUpdates
    \/ Tick

CharNext == (response = NoResponse /\ Requests) \/ ResponseSent

CharSpec == CharInit /\ [][CharNext]_charVars

-----------------------------------------------------------------------------
(* Properties.                                                             *)

CharTypeOK ==
    /\ DOMAIN value = Paths
    /\ \A s \in Sessions :
           /\ session[s].admin \in BOOLEAN
           /\ Len(session[s].events) <= MaxEventNotifications
           /\ session[s].timed.isSet \in BOOLEAN /\ session[s].timed.left >= -1
    /\ told \subseteq Sessions \X Paths

\* Whatever is sent, the application is only given values its characteristics
\* allow (the HandleWrite functions of HAPCharacteristic.c).
ValuesFulfilConstraints == \A path \in Paths : Fulfils(get_db_ctx(path), value[path])

\* The Content-Length of each body is the length of what is written
\* (HAPIPAccessoryServer.c:667, 1884, 3366 assert it).
BodiesAreCounted ==
    response.outcome = "Body" => response.length = NumBytes(BodyTokens(response))

\* A body is one JSON object, but for one kind of response: what perms, ev and meta ask
\* for, up to the format, is written behind the object of its characteristic
\* (HAPIPAccessoryProtocol.c:663-740), and the body is then no JSON.
HasMembersBehindObject ==
    /\ response.kind = "Read"
    /\ \E c \in ToSet(response.contexts) :
        /\ Known(c.path)
        /\ \/ response.parameters["perms"] \/ response.parameters["ev"]
           \/ response.parameters["meta"] /\ Metadata(get_db_ctx(c.path)) # <<>>

BodiesAreJSON ==
    response.outcome = "Body" => (WellFormed(BodyTokens(response)) <=> ~HasMembersBehindObject)

\* The application knows who is subscribed: it is told of each entry of an event
\* table once, and of its removal, by request or with the session.
SubscriptionsAreTold ==
    /\ told = UNION {{<<s, path>> : path \in ToSet(session[s].events)} : s \in Sessions}
    /\ \A s \in Sessions : IsInjective(session[s].events)

\* No value that needs admin permissions reaches another controller, not in an
\* event or a write response, even after its permissions were withdrawn.
ValuesStayWithAdmins ==
    \A c \in ToSet(response.contexts) :
        (/\ Known(c.path) /\ ~session[response.s].admin
         /\ Has(get_db_ctx(c.path), "readRequiresAdminPermissions")) =>
            \/ c.status # Success
            \/ response.kind = "Write" /\ ~c.response

IsPut == response'.kind = "Write"

Changed(path) == value'[path] # value[path]

\* Controllers write what they may write, and a timed characteristic only with
\* the pid of a prepared write that has not expired and is used up.
WritesAreAuthorized ==
    [][\A path \in Paths :
          LET chr == get_db_ctx(path) s == response'.s
          IN  (IsPut /\ Changed(path)) =>
                 /\ Has(chr, "writable")
                 /\ Has(chr, "writeRequiresAdminPermissions") => session[s].admin
                 /\ Has(chr, "requiresTimedWrite") =>
                        /\ response'.timed /\ session[s].timed.isSet
                        /\ session[s].timed.left >= 0 /\ ~session'[s].timed.isSet]_charVars

\* The values that a response reports as written are the values of the
\* application, and a value changes by no write that is reported to have failed.
\* A write that asks a characteristic for a response it does not give, or whose
\* value cannot be read back, is carried out and reported as an error.
\* A TLV8 value that is no string is ignored and reported as a success.
CarriedOut(c) ==
    /\ get_db_ctx(c.path).format = "tlv8" => c.type = "String"
    /\ \/ c.status = Success
       \/ c.status = ReadFromWriteOnlyCharacteristic /\ c.response
       \/ /\ Has(get_db_ctx(c.path), "supportsWriteResponse")
          /\ c.status \notin {InvalidValueInWrite, InsufficientPrivileges}

WritesAreReported ==
    [][\A path \in Paths :
          LET chr     == get_db_ctx(path)
              c(i)    == response'.contexts[i]
              written == {i \in DOMAIN response'.contexts :
                             c(i).path = path /\ c(i).type # "None" /\ CarriedOut(c(i))}
              v       == c(Max(written)).value.n
          IN  IsPut =>
                 IF written = {} THEN ~Changed(path)
                 ELSE ~Has(chr, "supportsWriteResponse") =>
                          value'[path].n = IF chr.format = "float"
                                           THEN HAPFloatCharacteristicRoundValueToStep(chr, v)
                                           ELSE v]_charVars

\* A body is announced if and only if it is written, but for the body that is as long as
\* its room: it is announced, cannot be written for want of the terminator's byte, and the
\* assertion behind it fails (HAPIPAccessoryServer.c:667, 1876, 1884, 3366).
BodiesFit ==
    response.kind # "None" /\ response.outcome # "NoContent" =>
        LET n == NumBytes(BodyTokens(response))
        IN  /\ response.outcome = "Body" <=> n < OutboundBytes
            /\ response.outcome = "Fatal" <=> n = OutboundBytes
            /\ response.outcome = "OutOfResources" <=> n > OutboundBytes

\* The event tables, prepared writes and values that the requests work on are sound,
\* whatever mix of them failed half-way, and no session is told a value that it may
\* not read.
SessionsAreSound ==
    CharTypeOK /\ ValuesFulfilConstraints /\ SubscriptionsAreTold /\ ValuesStayWithAdmins

\* A body is counted as it is written, is written if it has one byte to spare, and is JSON
\* unless members of a characteristic come behind its object.
BodiesAreSound == BodiesAreCounted /\ BodiesFit /\ BodiesAreJSON
=============================================================================
