---------------------------------- MODULE HAPTLV ----------------------------------
(***************************************************************************)
(* TLV8 buffers: the writer, which splits long values into fragments, and  *)
(* the reader, which works inside the buffer it was given.  In the mode    *)
(* for access in any order, an element that was read is overwritten in     *)
(* place: its type is replaced by one of three reserved types and its      *)
(* value is moved so that the element keeps its length.  MaxByte is      *)
(* small here, so that buffers of a few bytes have long values.            *)
(***************************************************************************)
EXTENDS Naturals, Sequences, SequencesExt

CONSTANT MaxByte

Byte == 0 .. MaxByte
Zeros(n) == [i \in 1 .. n |-> 0]

-----------------------------------------------------------------------------
\* What a value looks like, and HAPTLVWriterAppend: the header and all that is left of the
\* value must fit before each fragment; those before the one that does not stay behind.
RECURSIVE Fragmented(_, _)
Fragmented(type, value) ==
    IF Len(value) <= MaxByte THEN <<type, Len(value)>> \o value
    ELSE <<type, MaxByte>> \o SubSeq(value, 1, MaxByte)
            \o Fragmented(type, SubSeq(value, MaxByte + 1, Len(value)))

RECURSIVE Append8(_, _)
Append8(writer, tlv) ==
    LET n == IF Len(tlv.value) > MaxByte THEN MaxByte ELSE Len(tlv.value)
        fragment == <<tlv.type, n>> \o SubSeq(tlv.value, 1, n)
        appended == [writer EXCEPT !.bytes = @ \o fragment]
    IN IF 2 + Len(tlv.value) > writer.max - Len(writer.bytes)
       THEN [writer EXCEPT !.error = "OutOfResources"]
       ELSE IF n = Len(tlv.value) THEN appended
       ELSE Append8(appended, [tlv EXCEPT !.value = SubSeq(@, n + 1, Len(@))])

Written(tlvs, maxBytes) ==
    FoldLeft(LAMBDA w, tlv : IF w.error = "None" THEN Append8(w, tlv) ELSE w,
             [bytes |-> <<>>, max |-> maxBytes, error |-> "None"], tlvs)

-----------------------------------------------------------------------------
\* The end of the element at o, or 0 if its header, its value or one of its further
\* fragments is malformed.  HAPTLVReaderGetNext refuses an empty further fragment,
\* GetNextTLVInfo does not.
Fits(b, o) == o + 1 <= Len(b) /\ o + 1 + b[o + 1] <= Len(b)

RECURSIVE ElementEnd(_, _, _)
ElementEnd(b, o, sequential) ==
    LET next == o + 2 + b[o + 1]
    IN IF ~Fits(b, o) THEN 0
       ELSE IF next > Len(b) \/ b[next] # b[o] THEN next
       ELSE IF b[o + 1] # MaxByte THEN 0
       ELSE IF sequential /\ next < Len(b) /\ b[next + 1] = 0 THEN 0
       ELSE ElementEnd(b, next, sequential)

RECURSIVE Assembled(_, _, _)
Assembled(b, o, end) ==
    IF o = end THEN <<>>
    ELSE SubSeq(b, o + 2, o + 1 + b[o + 1]) \o Assembled(b, o + 2 + b[o + 1], end)

\* HAPTLVReaderGetNext until the buffer is empty; fragments are joined in place.
RECURSIVE AllFrom(_, _, _)
AllFrom(b, o, sequential) ==
    IF o > Len(b) THEN [valid |-> TRUE, tlvs |-> <<>>]
    ELSE LET end == ElementEnd(b, o, sequential)
             rest == AllFrom(b, end, sequential)
         IN IF end = 0 THEN [valid |-> FALSE, tlvs |-> <<>>]
            ELSE [valid |-> rest.valid,
                  tlvs |-> <<[type |-> b[o], value |-> Assembled(b, o, end)]>> \o rest.tlvs]

\* HAPTLVReaderGetAll: the elements of the types asked for; twice the same is an error.
GetAll(b, types) ==
    LET all == AllFrom(b, 1, TRUE)
        asked == SelectSeq(all.tlvs, LAMBDA tlv : tlv.type \in types)
    IN [valid |-> /\ all.valid
                  /\ \A i, j \in 1 .. Len(asked) : asked[i].type = asked[j].type => i = j,
        found |-> {asked[i] : i \in 1 .. Len(asked)}]

-----------------------------------------------------------------------------
\* Access in any order.  The reserved types mark elements that were read:
\* <<type, length, value>>, <<type, value, 0>> and
\* <<type, fragments - 2, length of the last fragment, zeros, value, 0>>.
Reserved(types) == {types[i] : i \in 1 .. 3}

\* The number of fragments behind the first two, a sum of bytes up to one that is not
\* MaxByte: its value and the bytes it takes.
RECURSIVE Count(_, _)
Count(b, o) ==
    IF b[o] # MaxByte THEN [sum |-> b[o], bytes |-> 1]
    ELSE LET rest == Count(b, o + 1) IN [sum |-> b[o] + rest.sum, bytes |-> 1 + rest.bytes]

Counted(n) == [i \in 1 .. n \div MaxByte |-> MaxByte] \o <<n % MaxByte>>

\* GetNextTLVInfo of a reader whose access in any order is enabled (types) or not (<<>>).
InfoEnd(b, o, types) ==
    IF types = <<>> \/ b[o] \notin Reserved(types) THEN ElementEnd(b, o, FALSE)
    ELSE IF b[o] = types[1] THEN o + 2 + b[o + 1]
    ELSE IF b[o] = types[2]
         THEN 1 + (CHOOSE i \in o + 1 .. Len(b) : b[i] = 0 /\ \A j \in o + 1 .. i - 1 : b[j] # 0)
    ELSE LET count == Count(b, o + 1)
             zeros == 2 * count.sum - (count.bytes - 1)
             last == b[o + 1 + count.bytes]
         IN o + 3 + count.bytes + zeros + (count.sum + 1) * MaxByte + last

\* An element that was read, left where it is or moved to make room for a terminator.
InPlace(types, value) == <<types[1], Len(value)>> \o value

Terminated(types, value) == <<types[2]>> \o value \o <<0>>

\* ReadTLV of the element at o .. end - 1: the buffer it leaves and where the value is;
\* a value that is wanted terminated must not contain a zero byte itself.
ReadTLV(b, o, end, types, mayContainNull) ==
    LET value == Assembled(b, o, end)
        n == Len(value)
        fragments == (end - o - n) \div 2
        count == Counted(fragments - 2)
        bytes ==
            IF end - o > 2 + MaxByte
            THEN <<types[3]>> \o count \o <<b[o + (fragments - 1) * (2 + MaxByte) + 1]>>
                    \o Zeros(2 * (fragments - 2) - (Len(count) - 1)) \o value \o <<0>>
            ELSE IF mayContainNull THEN InPlace(types, value)
            ELSE Terminated(types, value)
    IN [bytes |-> SubSeq(b, 1, o - 1) \o bytes \o SubSeq(b, end, Len(b)),
        valid |-> end - o > 2 + MaxByte \/ mayContainNull \/ \A i \in 1 .. n : value[i] # 0,
        start |-> IF end - o > 2 + MaxByte THEN end - 1 - n
                  ELSE IF mayContainNull THEN o + 2 ELSE o + 1,
        terminated |-> end - o > 2 + MaxByte \/ ~mayContainNull,
        value |-> value]

\* The elements that a walk over the buffer meets and that have not been read.
RECURSIVE Unread(_, _, _)
Unread(b, o, types) ==
    IF o > Len(b) THEN <<>>
    ELSE LET end == InfoEnd(b, o, types)
         IN (IF b[o] \in Reserved(types) THEN <<>> ELSE <<[at |-> o, end |-> end]>>)
                \o Unread(b, end, types)
==================================================================================
