-------------------------- MODULE HAPBLETransaction --------------------------
(***************************************************************************)
(* A HAP-BLE transaction: a request arrives in fragments, is handled, and  *)
(* its response leaves in fragments.  A body is a sequence of tokens, and  *)
(* a fragment carries some of them.  Request and response have no memory   *)
(* of their own: both lie at the start of the buffer, which others point   *)
(* into as well and which outlives the transaction.  Each operator returns *)
(* the transaction after the call with err, "None" or the error.           *)
(***************************************************************************)
EXTENDS Naturals, Sequences

NoHeader == [opcode |-> "None", tid |-> 0, iid |-> "None", total |-> 0]
NoAnswer == [tid |-> 0, status |-> "None", total |-> 0]

\* The union of request and response is two fields here: SetResponse keeps
\* the transaction identifier and drops the rest.  memory is what the buffer
\* holds, as far as somebody points into it; of that the transaction may use max
\* tokens, none if it is created without a buffer.
NewTransaction(memory, max) ==
    [state |-> "WaitingForInitialWrite", max |-> max, header |-> NoHeader,
     memory |-> memory, offset |-> 0, response |-> NoAnswer, err |-> "None"]

Overwrite(memory, offset, chunk) ==
    SubSeq(memory, 1, offset) \o chunk
        \o SubSeq(memory, offset + Len(chunk) + 1, Len(memory))

Fails(t, error) == [t EXCEPT !.err = error]
Result(t) == [t EXCEPT !.err = "None"]

-----------------------------------------------------------------------------
(* The fragments a central may write, as the PDU layer reads them.         *)

First(header, chunk) == [kind |-> "First", header |-> header, chunk |-> chunk]
Continuation(tid, chunk) == [kind |-> "Continuation", tid |-> tid, chunk |-> chunk]
Malformed == [kind |-> "Malformed"]

\* HAPBLEPDUDeserialize of a request: no more than the body it announces.
IsRequest(m) == m.kind = "First" /\ Len(m.chunk) <= m.header.total

\* HAPBLEPDUDeserializeContinuation: no more than the body still lacks.
Continues(m, tid, room) == m.kind = "Continuation" /\ m.tid = tid /\ Len(m.chunk) <= room

-----------------------------------------------------------------------------
(* Request.                                                                *)

\* TryAppendBodyFragment: a body that cannot fit is counted and not kept.
TryAppendBodyFragment(t, chunk) ==
    [t EXCEPT !.memory = IF t.header.total > t.max THEN @ ELSE Overwrite(@, t.offset, chunk),
              !.offset = @ + Len(chunk)]

Begins(t, m) ==
    LET reading == [t EXCEPT !.state = "ReadingRequest"]
    IN IF IsRequest(m)
       THEN TryAppendBodyFragment([reading EXCEPT !.header = m.header], m.chunk)
       ELSE Fails(reading, "InvalidData")

Gathers(t, m) ==
    IF Continues(m, t.header.tid, t.header.total - t.offset)
    THEN TryAppendBodyFragment(t, m.chunk)
    ELSE Fails(t, "InvalidData")

HandleWrite(t, m) ==
    CASE t.state = "WaitingForInitialWrite" -> Begins(Result(t), m)
      [] t.state = "ReadingRequest"         -> Gathers(Result(t), m)
      [] t.state = "WaitingForInitialRead"  ->
            IF Continues(m, t.response.tid, 0) THEN Result(t) ELSE Fails(t, "InvalidData")
      [] OTHER -> Fails(t, "InvalidState")

IsRequestAvailable(t) == t.state = "ReadingRequest" /\ t.offset = t.header.total

\* What the reader of the request finds when it reads.
RequestBody(t) == SubSeq(t.memory, 1, t.header.total)

GetRequest(t) ==
    IF t.header.total > t.max
    THEN Fails([t EXCEPT !.state = "HandlingRequest"], "OutOfResources")
    ELSE Result([t EXCEPT !.state = "HandlingRequest"])

-----------------------------------------------------------------------------
(* Response.                                                               *)

\* The writer of a response body starts at the beginning of the buffer.
Serialize(t, body) == [t EXCEPT !.memory = Overwrite(@, 0, body)]

\* Faulty: the identifier is read after the union was overwritten.
SetResponseLate(t, status, total) ==
    [NewTransaction(t.memory, t.max) EXCEPT !.state = "WaitingForInitialRead",
        !.response = [tid |-> 0, status |-> status, total |-> total]]

\* total tokens of the buffer are the body.
SetResponse(t, status, total) ==
    [NewTransaction(t.memory, t.max) EXCEPT !.state = "WaitingForInitialRead",
        !.response = [tid |-> t.header.tid, status |-> status, total |-> total]]

\* How much of the body the next read carries.
FragmentLength(t, room) ==
    LET rest == t.response.total - t.offset IN IF rest <= room THEN rest ELSE room

IsFinalFragment(t) == t.state = "WritingResponse" /\ t.offset = t.response.total

\* fits: the header of the fragment has room.
HandleRead(t, fits, room) ==
    IF t.state \notin {"WaitingForInitialRead", "WritingResponse"}
    THEN Fails(t, "InvalidState")
    ELSE LET writing == [t EXCEPT !.state = "WritingResponse"]
         IN IF ~fits THEN Fails(writing, "OutOfResources")
            ELSE Result([writing EXCEPT !.offset = @ + FragmentLength(t, room)])
=============================================================================
