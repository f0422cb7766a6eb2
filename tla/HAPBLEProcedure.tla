---------------------------- MODULE HAPBLEProcedure ----------------------------
(***************************************************************************)
(* The full-featured HAP-BLE procedure: it is attached to a characteristic,*)
(* takes GATT writes and reads of it, decrypts and encrypts them, and      *)
(* handles the request of each transaction.  A timed write is a procedure  *)
(* of two transactions.  call.err of the world is the error of the call.   *)
(***************************************************************************)
EXTENDS HAPBLESession

CONSTANT MaxBody    \* capacity of the procedure's scratch buffer, in tokens

NotAttached == "None"

ASSUME BufferAssumption == MaxBody \in Nat /\ NotAttached \notin Chars

\* timed is the reader of the request of a timed write, so many tokens at the
\* start of the scratch buffer, and whether its time is over.
Nothing == [length |-> 0, expired |-> FALSE]

\* A transaction with the whole buffer, into which nobody points.
FreeBuffer == NewTransaction(<<>>, MaxBody)

Detached == [char |-> NotAttached, timer |-> FALSE, startedSecured |-> FALSE,
             multi |-> "None", timed |-> Nothing, txn |-> FreeBuffer]

Attach(w, c) == [w EXCEPT !.proc = [Detached EXCEPT !.char = c]]
IsInProgress(w) == w.proc.timer
\* HAPBLEProcedureReset keeps what the procedure is attached to.
Reset(w) == Attach(w, w.proc.char)

\* Faulty: the link of a procedure that has run out of time goes on.
ExpireQuietly(w) == Reset(w)

ProcedureTimerExpired(w) == Terminate(Reset(w))

Error(w, error) == [w EXCEPT !.call.err = error]
Failed(w) == w.call.err # "None"

-----------------------------------------------------------------------------
(* Requests.  A body is the value, after an "R" if a response is asked     *)
(* for.  outcome is what the handler of the application, or the lower      *)
(* layer, answers: "None", "NotAuthorized" or "Unknown", or "Unread" if    *)
(* only the read behind a write fails.                                     *)

\* A response without a body leaves the buffer as it is.
SendEmpty(w, status) == [w EXCEPT !.proc.txn = SetResponse(@, status, 0)]
SendError(w, status) == SendEmpty(w, status)
DestroyRequestBodyAndWrite(w, body) == [w EXCEPT !.proc.txn = Serialize(@, body)]
SendResponse(w, body) ==
    LET written == DestroyRequestBodyAndWrite(w, body)
    IN [written EXCEPT !.proc.txn = SetResponse(@, "Success", Len(body))]
SendUnless(w, refused, body) ==
    IF refused THEN SendError(w, "UnsupportedPDU") ELSE SendResponse(w, body)

Opcodes == {"ServiceSignatureRead", "CharacteristicSignatureRead",
            "CharacteristicConfiguration", "ProtocolConfiguration", "Token", "TokenUpdate",
            "Info", "CharacteristicTimedWrite", "CharacteristicExecuteWrite",
            "CharacteristicWrite", "CharacteristicRead"}
\* iid is "Own", the instance ID of what the request goes to, or "Other".
ServiceSignatureRead(w) ==
    SendUnless(w, ~Db(w.proc.char).signature,
               IF w.proc.txn.header.iid = "Own" THEN <<"service">> ELSE <<"none">>)

CharacteristicSignatureRead(w) ==
    SendUnless(w, IsSecured(w) /\ DropsSecuritySession(w.proc.char), <<"signature">>)

CharacteristicConfiguration(w, outcome) ==
    IF IsTransient(w) \/ ~IsSecured(w) THEN SendError(w, "UnsupportedPDU")
    ELSE IF outcome # "None" THEN SendError(w, "InvalidRequest")
    ELSE SendResponse(w, <<"configuration">>)

ProtocolConfiguration(w, outcome) ==
    IF \/ IsTransient(w) \/ ~IsSecured(w)
       \/ ~Db(w.proc.char).signature \/ ~Db(w.proc.char).configurable
    THEN SendError(w, "UnsupportedPDU")
    ELSE IF outcome # "None" THEN SendError(w, "InvalidRequest")
    ELSE SendResponse(w, RequestBody(w.proc.txn))

\* Token, TokenUpdate and Info.
ProtocolInformation(w, outcome, body) ==
    IF ~Db(w.proc.char).information \/ ~IsSecured(w) THEN SendError(w, "UnsupportedPDU")
    ELSE IF outcome # "None" THEN SendError(w, "InvalidRequest")
    ELSE SendResponse(w, body)

Token(w, outcome) == ProtocolInformation(w, outcome, <<"token">>)
TokenUpdate(w, outcome) == ProtocolInformation(w, outcome, <<>>)
Info(w, outcome) == ProtocolInformation(w, outcome, <<"info">>)

-----------------------------------------------------------------------------
(* Reading and writing the value.                                          *)

WantsResponse(body) == body # <<>> /\ Head(body) = "R"
ValueIn(body) == IF WantsResponse(body) THEN Tail(body) ELSE body

\* HAPBLECharacteristicReadAndSerializeValue; the value of a characteristic of
\* the pairing service is its next message.
Read(w, outcome, returned) ==
    LET c    == w.proc.char
        open == IF IsSecured(w) THEN Db(c).readable ELSE Db(c).openRead
        read == IF Db(c).pairing # "None" THEN HandleExchangeRead(w, Db(c).pairing, outcome = "None")
                ELSE IF outcome = "None" THEN w ELSE Error(w, "Unknown")
    IN IF IsTransient(w) \/ ~open
       THEN SendError(w, IF ~IsSecured(w) /\ Db(c).readable
                         THEN "InsufficientAuthentication" ELSE "UnsupportedPDU")
       ELSE IF Db(c).adminRead /\ ~ControllerIsAdmin(w)
       THEN SendError(w, "InsufficientAuthentication")
       ELSE IF Failed(read) THEN SendError(Error(read, "None"), "InvalidRequest")
       ELSE IF returned THEN SendResponse(read, w.value[c])
       ELSE SendEmpty(DestroyRequestBodyAndWrite(read, w.value[c]), "Success")

Refuses(outcome) == outcome \in {"NotAuthorized", "Unknown"}

\* HAPBLECharacteristicParseAndWriteValue: the error, or what was written.
WriteValue(w, body, late, outcome) ==
    LET c == w.proc.char
    IN IF ValueIn(body) = <<>> THEN Error(w, "InvalidData")
       ELSE IF late THEN Error(w, "Expired")
       ELSE IF Db(c).pairing # "None"
       THEN HandleExchangeWrite(w, Db(c).pairing, Head(ValueIn(body)), ~Refuses(outcome))
       ELSE IF Refuses(outcome) THEN Error(w, outcome)
       ELSE [w EXCEPT !.value[c] = ValueIn(body)]

StatusOf(error) ==
    CASE error = "NotAuthorized" -> "InsufficientAuthorization"
      [] error = "Expired"       -> "UnsupportedPDU"
      [] OTHER                   -> "InvalidRequest"

MayWrite(w, c) == IF IsSecured(w) THEN Db(c).writable ELSE Db(c).openWrite

Write(w, body, executes, outcome) ==
    LET c       == w.proc.char
        written == WriteValue(w, body, executes /\ w.proc.timed.expired, outcome)
    IN IF IsTransient(w) \/ ~MayWrite(w, c)
       THEN SendError(w, IF ~IsSecured(w) /\ Db(c).writable
                         THEN "InsufficientAuthentication" ELSE "UnsupportedPDU")
       ELSE IF Db(c).adminWrite /\ ~ControllerIsAdmin(w)
       THEN SendError(w, "InsufficientAuthentication")
       ELSE IF Db(c).timed /\ ~executes THEN SendError(w, "InvalidRequest")
       ELSE IF Failed(written) THEN SendError(Error(written, "None"), StatusOf(written.call.err))
       ELSE IF ~WantsResponse(body) /\ ~Db(c).writeResponse THEN SendEmpty(written, "Success")
       ELSE Read(written, outcome, WantsResponse(body))

TimedWrite(w) ==
    IF IsTransient(w) THEN SendError(w, "UnsupportedPDU")
    ELSE SendEmpty([w EXCEPT !.proc.multi = "TimedWrite",
                             !.proc.timed = [Nothing EXCEPT !.length = w.proc.txn.header.total]],
                   "Success")

\* What the reader that was kept finds in the buffer now.
TimedBody(p) == SubSeq(p.txn.memory, 1, p.timed.length)

\* Faulty: the time limit is not looked at.
ExecuteLate(w, outcome) ==
    Write([w EXCEPT !.proc.multi = "None", !.proc.timed.expired = FALSE],
          TimedBody(w.proc), TRUE, outcome)

ExecuteWrite(w, outcome) ==
    Write([w EXCEPT !.proc.multi = "None"], TimedBody(w.proc), TRUE, outcome)

HandleRequest(w, outcome) ==
    LET opcode == w.proc.txn.header.opcode
    IN CASE opcode = "ServiceSignatureRead"        -> ServiceSignatureRead(w)
         [] opcode = "CharacteristicSignatureRead" -> CharacteristicSignatureRead(w)
         [] opcode = "CharacteristicConfiguration" -> CharacteristicConfiguration(w, outcome)
         [] opcode = "ProtocolConfiguration"       -> ProtocolConfiguration(w, outcome)
         [] opcode = "Token"                       -> Token(w, outcome)
         [] opcode = "TokenUpdate"                 -> TokenUpdate(w, outcome)
         [] opcode = "Info"                        -> Info(w, outcome)
         [] opcode = "CharacteristicTimedWrite"    -> TimedWrite(w)
         [] opcode = "CharacteristicExecuteWrite"  -> ExecuteWrite(w, outcome)
         [] opcode = "CharacteristicWrite"         -> Write(w, RequestBody(w.proc.txn), FALSE, outcome)
         [] opcode = "CharacteristicRead"          -> Read(w, outcome, TRUE)

\* A procedure of two transactions takes the request that ends it and no other.
ProcessTransaction(w, outcome) ==
    LET got == [w EXCEPT !.proc.txn = GetRequest(@)]
        h   == got.proc.txn.header
    IN IF got.proc.txn.err # "None" THEN SendError(got, "InvalidRequest")
       ELSE IF h.opcode \notin Opcodes THEN SendError(got, "UnsupportedPDU")
       ELSE IF h.iid # "Own" /\ h.opcode # "ServiceSignatureRead"
       THEN SendError(got, "InvalidInstanceID")
       ELSE IF (h.opcode = "CharacteristicExecuteWrite") # (w.proc.multi = "TimedWrite")
       THEN Error(got, "InvalidState")
       ELSE HandleRequest(got, outcome)

-----------------------------------------------------------------------------
(* GATT.                                                                   *)

\* The first write of a procedure.  A characteristic that drops the security
\* session starts in the open.
StartProcedure(w) ==
    LET open == IF IsSecured(w) /\ DropsSecuritySession(w.proc.char)
                THEN Reset(SessionInvalidate(w, FALSE)) ELSE w
    IN DidStartBLEProcedure(
           [open EXCEPT !.proc.startedSecured = IsSecured(open), !.proc.timer = TRUE])

\* What a message is to a reader that does not decrypt.
InTheOpen(m, seal) == IF seal = "None" THEN m ELSE Malformed

HandleGATTWrite(w, m, seal) ==
    LET started == IF IsInProgress(w) THEN w ELSE StartProcedure(w)
        opened  == IF started.proc.startedSecured THEN Decrypt(started, seal) ELSE started
        taken   == [opened EXCEPT !.proc.txn = HandleWrite(@,
                       IF opened.proc.startedSecured THEN m ELSE InTheOpen(m, seal))]
    IN IF w.session.terminal \/ (~IsInProgress(w) /\ IsTerminalSoon(w))
       THEN Error(w, "InvalidState")
       ELSE IF Failed(opened) THEN opened
       ELSE IF taken.proc.txn.err # "None" THEN Error(taken, taken.proc.txn.err)
       ELSE DidSendGATTResponse(taken)

\* Faulty: the request that follows a timed write gets the buffer it waits in.
CompleteWithBuffer(w) ==
    IF w.proc.multi = "None"
    THEN [w EXCEPT !.proc.timer = FALSE, !.proc.txn = FreeBuffer]
    ELSE [w EXCEPT !.proc.txn = NewTransaction(w.proc.txn.memory, MaxBody)]

CompleteTransaction(w) ==
    IF w.proc.multi = "None"
    THEN [w EXCEPT !.proc.timer = FALSE, !.proc.txn = FreeBuffer]
    ELSE [w EXCEPT !.proc.txn = NewTransaction(w.proc.txn.memory, 0)]

\* The end of a read: what does not end the transaction goes on, and a session that
\* was lost in the procedure ends with it.
CompletedIfFinal(w) == IF IsFinalFragment(w.proc.txn) THEN CompleteTransaction(w) ELSE w
LostSecurity(w, secured) == ~IsInProgress(w) /\ secured /\ ~IsSecured(w)
ClosedIfLost(w, secured) == IF LostSecurity(w, secured) THEN Terminate(w) ELSE w

SendRead(w, secured) ==
    IF Failed(w) THEN w
    ELSE ClosedIfLost(DidSendGATTResponse(CompletedIfFinal(w)), secured)
SealRead(w, secured) ==
    IF w.proc.txn.err # "None" THEN Error(w, w.proc.txn.err)
    ELSE SendRead(IF secured THEN Encrypt(w) ELSE w, secured)
ReadFragment(w, secured, space, room) ==
    IF Failed(w) THEN w
    ELSE SealRead([w EXCEPT !.proc.txn = HandleRead(@, space = "Body", room)], secured)

\* space: "Tag", not even the tag of a sealed message fits, "Header" or "Body".
HandleGATTRead(w, space, room, outcome) ==
    IF w.session.terminal THEN Error(w, "InvalidState")
    ELSE IF w.proc.startedSecured /\ space = "Tag" THEN Error(w, "OutOfResources")
    ELSE ReadFragment(IF IsRequestAvailable(w.proc.txn) THEN ProcessTransaction(w, outcome)
                      ELSE w, w.proc.startedSecured, space, room)
=============================================================================
