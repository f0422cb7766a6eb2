------------------------------- MODULE HAPTLVReader -------------------------------
(***************************************************************************)
(* A reader that is used in any order on a received buffer: the elements   *)
(* of the types that its format uses are read one by one, as values that   *)
(* stay in the buffer.                                                     *)
(***************************************************************************)
EXTENDS HAPTLV, FiniteSets

CONSTANTS
    ReceivedBuffers,
    WantedTypes         \* the types the format uses

VARIABLES
    buffer, received, reserved,
    mode,               \* "new", "open" or "failed" (kHAPError_InvalidData)
    values              \* the values handed out: where they are and what they were

readerVars == <<buffer, received, reserved, mode, values>>

ReaderInitOn(buffers) ==
    /\ received \in buffers
    /\ buffer = received
    /\ reserved = <<>>
    /\ mode = "new"
    /\ values = {}

ReaderInit == ReaderInitOn(ReceivedBuffers)

\* EnableNonSequentialAccessWithFormat: the first three types that the format does not
\* use; elements of these types are marked as read at once.
UnusedTypes == SelectSeq([i \in 1 .. MaxByte + 1 |-> i - 1], LAMBDA t : t \notin WantedTypes)

RECURSIVE MarkedFrom(_, _, _)
MarkedFrom(b, o, types) ==
    IF o > Len(b) THEN b
    ELSE LET end == ElementEnd(b, o, FALSE)
         IN MarkedFrom(IF b[o] \in Reserved(types) THEN ReadTLV(b, o, end, types, TRUE).bytes ELSE b,
                       end, types)

EnableNonSequentialAccess ==
    /\ mode = "new"
    /\ IF Len(UnusedTypes) >= 3 /\ AllFrom(received, 1, FALSE).valid
       THEN /\ reserved' = SubSeq(UnusedTypes, 1, 3)
            /\ buffer' = MarkedFrom(received, 1, reserved')
            /\ mode' = "open"
       ELSE mode' = "failed" /\ UNCHANGED <<buffer, reserved>>
    /\ UNCHANGED <<received, values>>

Read(element, mayContainNull) ==
    LET tlv == ReadTLV(buffer, element.at, element.end, reserved, mayContainNull)
    IN /\ buffer' = tlv.bytes
       /\ IF tlv.valid
          THEN /\ values' = values \cup {[type |-> buffer[element.at], at |-> tlv.start,
                                          bytes |-> tlv.value, terminated |-> tlv.terminated]}
               /\ UNCHANGED mode
          ELSE mode' = "failed" /\ UNCHANGED values

\* FindTLVInfo and ReadTLV: the first unread element of a type.
FindAndReadFaulty(type, mayContainNull) ==   \* Faulty: what was read is not marked
    /\ mode = "open"
    /\ LET found == SelectSeq(Unread(buffer, 1, reserved), LAMBDA e : buffer[e.at] = type)
           tlv == ReadTLV(buffer, found[1].at, found[1].end, reserved, TRUE)
       IN /\ found # <<>>
          /\ values' = values \cup {[type |-> type, at |-> tlv.start, bytes |-> tlv.value,
                                     terminated |-> FALSE]}
    /\ UNCHANGED <<buffer, received, reserved, mode>>

FindAndRead(type, mayContainNull) ==
    /\ mode = "open"
    /\ LET found == SelectSeq(Unread(buffer, 1, reserved), LAMBDA e : buffer[e.at] = type)
       IN found # <<>> /\ Read(found[1], mayContainNull)
    /\ UNCHANGED <<received, reserved>>

\* SkipUnexpectedValues: elements of types that the format does not use are read too.
SkipUnexpected ==
    /\ mode = "open"
    /\ LET left == SelectSeq(Unread(buffer, 1, reserved), LAMBDA e : buffer[e.at] \notin WantedTypes)
       IN left # <<>> /\ Read(left[1], TRUE)
    /\ UNCHANGED <<received, reserved>>

ReaderNext ==
    \/ EnableNonSequentialAccess
    \/ \E type \in WantedTypes, mayContainNull \in BOOLEAN : FindAndRead(type, mayContainNull)
    \/ SkipUnexpected

ReaderSpec == ReaderInit /\ [][ReaderNext]_readerVars
-----------------------------------------------------------------------------
\* A value that was handed out stays where it is, unchanged and terminated if it was,
\* whatever is read afterwards.
ValuesAreStable ==
    \A v \in values :
        /\ SubSeq(buffer, v.at, v.at + Len(v.bytes) - 1) = v.bytes
        /\ v.terminated => buffer[v.at + Len(v.bytes)] = 0

\* In whatever order elements are read, each of the wanted types is handed out once,
\* and a walk over the buffer still finds exactly the others.
EachIsReadOnce ==
    mode = "open" =>
        LET wanted == SelectSeq(AllFrom(received, 1, FALSE).tlvs, LAMBDA tlv : tlv.type \in WantedTypes)
            unread == SelectSeq(Unread(buffer, 1, reserved), LAMBDA e : buffer[e.at] \in WantedTypes)
        IN /\ Len(wanted) = Len(unread) + Cardinality({v \in values : v.type \in WantedTypes})
           /\ \A k \in 1 .. Len(unread) :
                SubSeq(buffer, unread[k].at, unread[k].end - 1)
                    = SubSeq(received, unread[k].at, unread[k].end - 1)

\* What both readers accept they read alike, and it is what the writer makes of the
\* elements; the reader in any order takes one more: an empty last fragment.
ReadersAgree ==
    LET sequential == AllFrom(received, 1, TRUE)
        free == AllFrom(received, 1, FALSE)
    IN /\ sequential.valid => free = sequential
       /\ sequential.valid =>
            Written(sequential.tlvs, Len(received)) = [bytes |-> received, max |-> Len(received), error |-> "None"]
       /\ free.valid /\ ~sequential.valid => Written(free.tlvs, Len(received)).bytes # received

\* Nothing is written past the end of a buffer: a list is written if and only if all of
\* it fits, and what a failure leaves behind is where the list begins.
WriterNeedsItsSize ==
    LET tlvs == AllFrom(received, 1, TRUE)
    IN tlvs.valid =>
        \A max \in 0 .. Len(received) + 1 :
            LET written == Written(tlvs.tlvs, max)
            IN /\ Len(written.bytes) <= max
               /\ IsPrefix(written.bytes, received)
               /\ written.error = "None" <=> max >= Len(received)

\* What was received is what is read, in any order and by either reader, and what the
\* writer makes of it.
ReadsAreFaithful == ValuesAreStable /\ EachIsReadOnce /\ ReadersAgree /\ WriterNeedsItsSize
==================================================================================
