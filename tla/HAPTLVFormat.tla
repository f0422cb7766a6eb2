------------------------------- MODULE HAPTLVFormat -------------------------------
(***************************************************************************)
(* Encoding and decoding TLV8 buffers by a format: scalars with their      *)
(* constraints, structures with optional and flat members, unions, and     *)
(* sequences whose items are separated.  A structure's value is the        *)
(* sequence of its members' values, an optional one <<>> or <<value>>; a   *)
(* union's value is <<type, value>>; a sequence is enumerated at once.     *)
(***************************************************************************)
EXTENDS HAPTLV, Integers
LOCAL INSTANCE Bitwise

CONSTANTS
    IntBytes,           \* sizeof(int)
    Samples,            \* formats and values of them: [format, value]
    Capacities          \* the sizes of the buffer they are encoded into

ASSUME BytesAreBits == \E bits \in 1 .. 8 : MaxByte + 1 = 2 ^ bits

VARIABLES
    shiftsWrap,         \* what the processor does with a shift by more than the width
    sample, phase,
    sent,               \* the elements in the buffer
    change,             \* what the other side did differently
    result              \* of HAPTLVReaderDecode

formatVars == <<shiftsWrap, sample, phase, sent, change, result>>

-----------------------------------------------------------------------------
\* Formats.
IsAggregate(format) == format.kind \in {"sequence", "struct", "union"}

RECURSIVE UsesType(_, _)
UsesType(format, type) ==
    CASE format.kind = "sequence" ->
            \/ type = format.separator
            \/ IF format.item.flat THEN UsesType(format.item.format, type) ELSE type = format.item.type
      [] format.kind \in {"struct", "union"} ->
            \E i \in DOMAIN format.members :
                LET m == format.members[i]
                IN IF m.flat THEN UsesType(m.format, type) ELSE type = m.type
      [] OTHER -> FALSE

\* Looks at the type of a flat item or member, which is otherwise ignored.
HaveConflictingTypes(format, other) ==
    /\ IsAggregate(format) /\ IsAggregate(other)
    /\ \/ format.kind = "sequence" /\ format.item.flat /\ UsesType(other, format.item.type)
       \/ /\ format.kind = "struct"
          /\ \E i \in DOMAIN format.members :
                format.members[i].flat /\ UsesType(other, format.members[i].type)

MembersConflict(m, other) ==
    \/ m.flat /\ (~IsAggregate(m.format) \/ m.optional)
    \/ m.flat /\ other.flat /\ HaveConflictingTypes(m.format, other.format)
    \/ m.flat /\ ~other.flat /\ UsesType(m.format, other.type)
    \/ ~m.flat /\ other.flat /\ UsesType(other.format, m.type)
    \/ ~m.flat /\ ~other.flat /\ m.type = other.type

RECURSIVE FormatIsValid(_)
FormatIsValid(format) ==
    CASE format.kind \in {"int", "data", "string"} -> format.min <= format.max
      [] format.kind = "sequence" ->
            /\ FormatIsValid(format.item.format)
            /\ IF format.item.flat
               THEN /\ format.item.format.kind = "union"
                    /\ ~UsesType(format.item.format, format.separator)
               ELSE format.item.type # format.separator
      [] format.kind \in {"struct", "union"} ->
            \A i \in DOMAIN format.members :
                /\ FormatIsValid(format.members[i].format)
                /\ \A j \in 1 .. i - 1 : ~MembersConflict(format.members[i], format.members[j])
      [] OTHER -> TRUE

-----------------------------------------------------------------------------
\* HAPTLVWriterEncodeScalar: integers in as many bytes as their type has, the lowest
\* first.
Radix == MaxByte + 1
Wrapped(n, size) == (n + Radix ^ size) % (Radix ^ size)

ScalarBytes(format, value) ==
    CASE format.kind = "enum" -> <<value>>
      [] format.kind = "int" ->
            [i \in 1 .. format.size |-> (Wrapped(value, format.size) \div Radix ^ (i - 1)) % Radix]
      [] OTHER -> value

\* HAPTLVWriterEncodeTLV and HAPTLVWriterEncodeAggregate: what is nested is encoded into
\* the rest of the buffer, then moved behind its header.  Only separators may have the
\* format without a value: that of a member, a variant or an item has a place for one.
NewWriter(max) == [bytes |-> <<>>, max |-> max, error |-> "None"]

RECURSIVE EncodeTLV(_, _, _, _), EncodeMembers(_, _, _, _), EncodeItems(_, _, _, _)
EncodeAggregate(writer, format, value) ==
    IF format.kind = "sequence" THEN EncodeItems(writer, format, value, 1)
    ELSE EncodeMembers(writer, format, value, 1)

EncodeTLV(writer, type, format, value) ==
    LET room == writer.max - Len(writer.bytes)
        nested == IF IsAggregate(format) THEN EncodeAggregate(NewWriter(room), format, value)
                  ELSE IF format.kind = "none" THEN [NewWriter(room) EXCEPT !.error = "HAPPrecondition"]
                  ELSE [NewWriter(room) EXCEPT !.bytes = ScalarBytes(format, value)]
    IN IF nested.error = "HAPPrecondition" THEN [writer EXCEPT !.error = nested.error]
       ELSE IF nested.error # "None" \/ Len(nested.bytes) > room
       THEN [writer EXCEPT !.error = "OutOfResources"]
       ELSE Append8(writer, [type |-> type, value |-> nested.bytes])

EncodeMembers(writer, format, value, i) ==
    LET m == format.members[i]
        encoded ==
            CASE format.kind = "union" ->
                    IF m.type = value[1] THEN EncodeTLV(writer, m.type, m.format, value[2]) ELSE writer
              [] m.flat -> EncodeAggregate(writer, m.format, value[i])
              [] m.optional -> IF value[i] = <<>> THEN writer
                               ELSE EncodeTLV(writer, m.type, m.format, value[i][1])
              [] OTHER -> EncodeTLV(writer, m.type, m.format, value[i])
    IN IF writer.error # "None" \/ i > Len(format.members) THEN writer
       ELSE EncodeMembers(encoded, format, value, i + 1)

EncodeItems(writer, format, items, i) ==
    LET separated == IF i = 1 THEN writer
                     ELSE Append8(writer, [type |-> format.separator, value |-> <<>>])
        encoded == CASE separated.error # "None" -> separated
                     [] format.item.flat -> EncodeAggregate(separated, format.item.format, items[i])
                     [] OTHER -> EncodeTLV(separated, format.item.type, format.item.format, items[i])
    IN IF writer.error # "None" \/ i > Len(items) THEN writer
       ELSE EncodeItems(encoded, format, items, i + 1)

-----------------------------------------------------------------------------
\* What decoding returns: a value, kHAPError_InvalidData or a failed HAPPrecondition.
Invalid == [valid |-> FALSE, failed |-> FALSE, value |-> <<>>]
Failed == [valid |-> FALSE, failed |-> TRUE, value |-> <<>>]
Valid(value) == [valid |-> TRUE, failed |-> FALSE, value |-> value]

\* The value of a type of so many bytes that byte << (i * CHAR_BIT) is converted to.  The
\* byte is an int when it is shifted: at the int's last byte it sets the sign, which fills
\* a type that is wider; a shift by the width of int is undefined, and comes to a shift by
\* what is left of the distance or to nothing.
Shifted(byte, i, size) ==
    LET n == byte * Radix ^ (i % IntBytes)
        negative == n >= (Radix ^ IntBytes) \div 2
    IN IF i >= IntBytes /\ ~shiftsWrap THEN 0
       ELSE IF negative /\ size > IntBytes THEN Wrapped(n - Radix ^ IntBytes, size)
       ELSE n

\* PROCESS_INTEGER_FORMAT: an integer may come in fewer bytes than its type has.
Unsigned(size, bytes) ==
    FoldLeft(LAMBDA n, shifted : n | shifted, 0,
             [i \in DOMAIN bytes |-> Shifted(bytes[i], i - 1, size)])

IntegerOfFaulty(format, bytes) == Unsigned(format.size, bytes)   \* Faulty: no sign

IntegerOf(format, bytes) ==
    LET n == Unsigned(format.size, bytes)
    IN IF format.signed /\ n >= (Radix ^ format.size) \div 2 THEN n - (Radix ^ format.size) ELSE n

\* HAPTLVReaderDecodeScalar.
DecodeScalar(format, bytes) ==
    CASE format.kind = "none" -> Failed
      [] format.kind = "enum" ->
            IF Len(bytes) = 1 /\ bytes[1] \in format.values THEN Valid(bytes[1]) ELSE Invalid
      [] format.kind = "int" ->
            IF Len(bytes) <= format.size /\ IntegerOf(format, bytes) \in format.min .. format.max
            THEN Valid(IntegerOf(format, bytes)) ELSE Invalid
      [] OTHER ->
            IF Len(bytes) \in format.min .. format.max
               /\ (format.kind = "string" => \A i \in DOMAIN bytes : bytes[i] # 0)
            THEN Valid(bytes) ELSE Invalid

\* HAPTLVReaderDecodeAggregate on the elements not read yet: those that the format does
\* not use are skipped, for good.  The elements left are part of what it returns.
OfType(tlvs, type) == SelectSeq(tlvs, LAMBDA tlv : tlv.type = type)
NotOfType(tlvs, type) == SelectSeq(tlvs, LAMBDA tlv : tlv.type # type)
SkipUnexpectedValues(format, tlvs) == SelectSeq(tlvs, LAMBDA tlv : UsesType(format, tlv.type))

RECURSIVE DecodeAggregate(_, _), DecodeMembers(_, _, _), DecodeVariants(_, _), DecodeItems(_, _)

\* HAPTLVReaderDecodeVoid: a buffer of its own.
DecodeVoid(format, bytes) ==
    LET all == AllFrom(bytes, 1, FALSE)
    IN IF all.valid THEN DecodeAggregate(format, all.tlvs) ELSE Invalid

\* HAPTLVReaderFindAndDecodeTLV: an element that comes twice is refused.
DecodeTLV(type, format, tlvs) ==
    LET found == OfType(tlvs, type)
    IN IF Len(found) > 1 THEN Invalid
       ELSE IF IsAggregate(format) THEN DecodeVoid(format, found[1].value)
       ELSE DecodeScalar(format, found[1].value)

DecodeAggregate(format, tlvs) ==
    LET expected == SkipUnexpectedValues(format, tlvs)
    IN CASE format.kind = "sequence" -> DecodeItems(format, expected)
         [] format.kind = "struct" -> DecodeMembers(format, expected, 1)
         [] OTHER -> DecodeVariants(format, expected)

DecodeMembers(format, tlvs, i) ==
    IF i > Len(format.members) THEN Valid(<<>>)
    ELSE LET m == format.members[i]
             found == m.flat \/ OfType(tlvs, m.type) # <<>>
             value == IF m.flat THEN DecodeAggregate(m.format, tlvs)
                      ELSE IF found THEN DecodeTLV(m.type, m.format, tlvs)
                      ELSE IF m.optional THEN Valid(<<>>) ELSE Invalid
             left == CASE ~m.flat -> NotOfType(tlvs, m.type)
                       [] m.format.kind = "sequence" -> SkipUnexpectedValues(m.format, tlvs)
                       [] OTHER -> <<>>
             rest == DecodeMembers(format, left, i + 1)
         IN IF ~value.valid THEN value
            ELSE IF ~rest.valid THEN rest
            ELSE Valid(<<IF m.optional /\ found THEN <<value.value>> ELSE value.value>> \o rest.value)

\* Variants are decoded in their order up to the first that is refused, be it as a second.
DecodeVariants(format, tlvs) ==
    LET found == SelectSeq(format.members, LAMBDA m : OfType(tlvs, m.type) # <<>>)
        value(k) == DecodeTLV(found[k].type, found[k].format, tlvs)
    IN IF format.members = <<>> THEN Valid(<<>>)
       ELSE IF found = <<>> THEN Invalid
       ELSE IF ~value(1).valid THEN value(1)
       ELSE IF Len(found) = 1 THEN Valid(<<found[1].type, value(1).value>>)
       ELSE IF ~value(2).valid THEN value(2)
       ELSE Invalid

\* EnumerateSequenceTLV: separators are not required.
DecodeItems(format, tlvs) ==
    LET item == IF format.item.flat THEN DecodeAggregate(format.item.format, <<Head(tlvs)>>)
                ELSE DecodeTLV(format.item.type, format.item.format, <<Head(tlvs)>>)
        rest == DecodeItems(format, Tail(tlvs))
    IN IF tlvs = <<>> THEN Valid(<<>>)
       ELSE IF Head(tlvs).type = format.separator THEN rest
       ELSE IF ~item.valid THEN item
       ELSE IF ~rest.valid THEN rest
       ELSE Valid(<<item.value>> \o rest.value)

-----------------------------------------------------------------------------
FormatInitOn(samples) ==
    /\ shiftsWrap \in BOOLEAN
    /\ sample \in samples
    /\ phase = "value"
    /\ sent = <<>>
    /\ change = "none"
    /\ result = Invalid

FormatInit == FormatInitOn(Samples)

Encode(max) ==
    LET writer == EncodeAggregate(NewWriter(max), sample.format, sample.value)
    IN /\ phase = "value"
       /\ FormatIsValid(sample.format)              \* HAPPrecondition
       /\ IF writer.error = "None"
          THEN phase' = "encoded" /\ sent' = AllFrom(writer.bytes, 1, TRUE).tlvs /\ UNCHANGED result
          ELSE /\ phase' = "failed"
               /\ result' = IF writer.error = "HAPPrecondition" THEN Failed ELSE Invalid
               /\ UNCHANGED sent
       /\ UNCHANGED <<shiftsWrap, sample, change>>

\* The other side is not this writer: it may order the elements of a buffer otherwise,
\* know more of them, send one twice or with another type, leave one out or shorten its
\* value.
Changed(what, tlvs) ==
    /\ phase = "encoded" /\ change = "none"
    /\ change' = what
    /\ sent' = tlvs
    /\ UNCHANGED <<shiftsWrap, sample, phase, result>>

Change(i) ==
    \/ i < Len(sent) /\ Changed("swapped", [sent EXCEPT ![i] = sent[i + 1], ![i + 1] = sent[i]])
    \/ \E type \in Byte : ~UsesType(sample.format, type)
            /\ Changed("extended", InsertAt(sent, i, [type |-> type, value |-> <<1, 0>>]))
    \/ Changed("repeated", Append(sent, sent[i]))
    \/ \E type \in Byte : UsesType(sample.format, type)
            /\ Changed("replaced", [sent EXCEPT ![i].type = type])
    \/ Changed("removed", RemoveAt(sent, i))
    \/ /\ sent[i].value # <<>>
       /\ Changed("shortened", [sent EXCEPT ![i].value = Front(@)])

Decode ==
    /\ phase = "encoded"
    /\ phase' = "decoded"
    /\ result' = DecodeVoid(sample.format, FlattenSeq([i \in DOMAIN sent |->
                                Fragmented(sent[i].type, sent[i].value)]))
    /\ UNCHANGED <<shiftsWrap, sample, sent, change>>

FormatNext ==
    \/ \E max \in Capacities : Encode(max)
    \/ \E i \in DOMAIN sent : Change(i)
    \/ Decode

FormatSpec == FormatInit /\ [][FormatNext]_formatVars
-----------------------------------------------------------------------------
\* The scalars of a value, with their formats.
RECURSIVE ScalarsOf(_, _)
ScalarsOf(format, value) ==
    CASE format.kind = "sequence" ->
            UNION {ScalarsOf(format.item.format, value[i]) : i \in DOMAIN value}
      [] format.kind = "union" ->
            UNION {ScalarsOf(format.members[i].format, value[2]) :
                    i \in {k \in DOMAIN format.members : format.members[k].type = value[1]}}
      [] format.kind = "struct" ->
            UNION {LET m == format.members[i]
                   IN IF ~m.optional THEN ScalarsOf(m.format, value[i])
                      ELSE UNION {ScalarsOf(m.format, value[i][k]) : k \in DOMAIN value[i]} :
                    i \in DOMAIN format.members}
      [] OTHER -> {<<format, value>>}

SentScalars == ScalarsOf(sample.format, sample.value)

\* The numbers that a type wider than int keeps, and those it takes for negative ones.
IntHalf == (Radix ^ IntBytes) \div 2
IsWide(format) == format.kind = "int" /\ format.size > IntBytes
IntegersAreCarried == \A s \in SentScalars : IsWide(s[1]) => s[2] \in 0 .. IntHalf - 1
TakenForNegative == \E s \in SentScalars : IsWide(s[1]) /\ s[2] \in IntHalf .. 2 * IntHalf - 1

\* A flat member takes the elements of the members behind it with it: they are missing.
BehindFlat(j) == \E i \in 1 .. j - 1 : sample.format.members[i].flat
HasMembersBehindFlat == sample.format.kind = "struct" /\ \E j \in DOMAIN sample.format.members : BehindFlat(j)
Expected ==
    IF ~HasMembersBehindFlat THEN Valid(sample.value)
    ELSE IF \E j \in DOMAIN sample.value : BehindFlat(j) /\ ~sample.format.members[j].optional THEN Invalid
    ELSE Valid([j \in DOMAIN sample.value |-> IF BehindFlat(j) THEN <<>> ELSE sample.value[j]])

\* What is encoded by a format is decoded to the same value, with the elements of a
\* structure or a union in any order and with unknown ones between them, up to the members
\* behind a flat one, and up to integers in 64 bits: below 2^31 they are kept, from there
\* to 2^32 never, and beyond it depends on the processor (HAPTLVReader.c:995).
InAnyOrder == change \in {"none", "extended"} \/ (change = "swapped" /\ sample.format.kind # "sequence")

RoundTrip ==
    phase = "decoded" /\ InAnyOrder =>
        /\ IntegersAreCarried => result = Expected
        /\ TakenForNegative => result # Expected

\* A member of a structure that is left out or shortened changes no other, and what is
\* left of an integer is what its bytes say, without a sign.
ChangesAreLocal ==
    /\ phase = "decoded" /\ result.valid /\ change \in {"removed", "shortened"}
    /\ sample.format.kind = "struct" /\ ~HasMembersBehindFlat /\ IntegersAreCarried
    => \E j \in DOMAIN sample.value :
        LET m == sample.format.members[j]
        IN /\ \A k \in DOMAIN sample.value \ {j} : result.value[k] = sample.value[k]
           /\ change = "removed" => m.optional /\ result.value[j] = <<>>
           /\ change = "shortened" /\ m.format.kind = "int" /\ ~m.optional =>
                result.value[j] = Wrapped(sample.value[j], m.format.size) % Radix ^ (m.format.size - 1)

\* What is decoded satisfies the constraints of its format, whatever was received.
Satisfies(format, value) ==
    CASE format.kind = "enum" -> value \in format.values
      [] format.kind = "int" -> value \in format.min .. format.max
      [] OTHER -> Len(value) \in format.min .. format.max

\* A structure or a union that has an element twice is refused, what is accepted satisfies
\* its format, and no precondition fails but that of a value in the format of separators.
AcceptedIsWellFormed ==
    /\ phase = "decoded" /\ result.valid =>
        /\ \A s \in ScalarsOf(sample.format, result.value) : Satisfies(s[1], s[2])
        /\ sample.format.kind # "sequence" => change # "repeated"
    /\ result = Failed => change = "replaced" \/ \E s \in SentScalars : s[1].kind = "none"

\* Encoding and decoding by a format are inverse to each other as far as the code keeps
\* what it was given, a change of one element is a change of one member, and decoding
\* accepts nothing that the format excludes.
FormatsAreKept == RoundTrip /\ ChangesAreLocal /\ AcceptedIsWellFormed
==================================================================================
