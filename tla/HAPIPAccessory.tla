---------------------------- MODULE HAPIPAccessory ----------------------------
(***************************************************************************)
(* GET /accessories (HAPIPAccessory.c): the attribute database is written  *)
(* by an automaton that stops wherever a chunk is full and goes on when    *)
(* the chunk was sent.  Its states are those of the code, except that a    *)
(* name and its colon are one step, and so is a range of valid values.     *)
(***************************************************************************)
EXTENDS HAPIPAccessoryProtocol

CONSTANTS MaxFrameBytes,   \* plaintext bytes of a frame (1024 in the code)
          OutboundBytes,   \* capacity of the outbound buffer
          FrameOverhead,   \* length field and tag of an encrypted frame
          ReadLengths      \* lengths of the texts the application answers

VARIABLES context,   \* HAPIPAccessorySerializationContext
          stream,    \* the tokens written so far
          outbound,  \* outboundBuffer: bytes of the frame, and bytes behind it
          accSession \* state of the session: Reading or Writing

accVars == <<context, stream, outbound, accSession>>

-----------------------------------------------------------------------------
(* The position in the database.  Indices of the services and of the       *)
(* characteristics skip what IP does not offer.                            *)

HAPIPAccessoryCreateSerializationContext ==
    [state |-> "Begin", field |-> "Response", accessoryIndex |-> 1,
     serviceIndex |-> 1, characteristicIndex |-> 1, index |-> 1]

HAPIPAccessorySerializationIsComplete(c) == c.state = "Complete"

GetCurrentAccessory(c) == Accessories[c.accessoryIndex]

GetCurrentService(c) == IPServices(GetCurrentAccessory(c))[c.serviceIndex]

GetCurrentCharacteristic(c) ==
    IPCharacteristics(GetCurrentService(c))[c.characteristicIndex]

JSONName ==
    [Accessories |-> "accessories", AccessoryID |-> "aid", Services |-> "services",
     ServiceID |-> "iid", ServiceType |-> "type", ServicePropertyPrimary |-> "primary",
     ServicePropertyHidden |-> "hidden", LinkedServices |-> "linked",
     Characteristics |-> "characteristics", CharacteristicID |-> "iid",
     CharacteristicType |-> "type", CharacteristicFormat |-> "format",
     CharacteristicValue |-> "value", CharacteristicPermissions |-> "perms",
     CharacteristicEventNotifications |-> "ev",
     CharacteristicDescription |-> "description", CharacteristicUnit |-> "unit",
     CharacteristicMinimumValue |-> "minValue", CharacteristicMaximumValue |-> "maxValue",
     CharacteristicStepValue |-> "minStep", CharacteristicMaxLength |-> "maxLen",
     CharacteristicMaxDataLength |-> "maxDataLen",
     CharacteristicValidValues |-> "valid-values",
     CharacteristicValidValuesRanges |-> "valid-values-range"]

IndexOf ==
    [Accessories |-> "accessoryIndex", Services |-> "serviceIndex",
     Characteristics |-> "characteristicIndex", LinkedServices |-> "index",
     CharacteristicPermissions |-> "index", CharacteristicValidValues |-> "index",
     CharacteristicValidValuesRanges |-> "index"]

\* The member an object of an array starts with.
FirstMember == [Accessories |-> "AccessoryID", Services |-> "ServiceID",
                Characteristics |-> "CharacteristicID"]

Elements(c, field) ==
    CASE field = "Accessories"     -> Accessories
      [] field = "Services"        -> IPServices(GetCurrentAccessory(c))
      [] field = "LinkedServices"  -> GetCurrentService(c).linkedServices
      [] field = "Characteristics" -> IPCharacteristics(GetCurrentService(c))
      [] field = "CharacteristicPermissions" -> Permissions(GetCurrentCharacteristic(c))
      [] field = "CharacteristicValidValues" ->
             GetCurrentCharacteristic(c).constraints.validValues
      [] OTHER -> GetCurrentCharacteristic(c).constraints.validValuesRanges

-----------------------------------------------------------------------------
(* What follows a member of a characteristic; "" when nothing does.        *)

AfterValidValues(chr) ==
    IF chr.constraints.validValuesRanges # <<>>
    THEN "CharacteristicValidValuesRanges" ELSE ""

AfterStepValueFaulty(chr) ==   \* Faulty: ranges are written after values only
    CASE chr.format # "uint8" \/ ~chr.apple  -> ""
      [] chr.constraints.validValues # <<>>  -> "CharacteristicValidValues"
      [] OTHER                               -> ""

AfterStepValue(chr) ==
    CASE chr.format # "uint8" \/ ~chr.apple  -> ""
      [] chr.constraints.validValues # <<>>  -> "CharacteristicValidValues"
      [] OTHER                               -> AfterValidValues(chr)

AfterUnit(chr) ==
    CASE chr.format \in {"bool", "tlv8"} -> ""
      [] chr.format = "string" ->
            IF chr.constraints.maxLength # 64 THEN "CharacteristicMaxLength" ELSE ""
      [] chr.format = "data" ->
            IF chr.constraints.maxLength # 2097152
            THEN "CharacteristicMaxDataLength" ELSE ""
      [] OTHER ->
            IF \/ Constrained(chr)
               \/ chr.constraints.step > (IF chr.format = "float" THEN 0 ELSE 1)
            THEN "CharacteristicMinimumValue" ELSE AfterStepValue(chr)

AfterDescription(chr) ==
    IF HAPCharacteristicGetUnit(chr) # "none" THEN "CharacteristicUnit"
    ELSE AfterUnit(chr)

AfterEventNotifications(chr) ==
    IF chr.description # 0 THEN "CharacteristicDescription" ELSE AfterDescription(chr)

AfterPermissions(chr) ==
    IF Has(chr, "readable") THEN "CharacteristicEventNotifications"
    ELSE AfterEventNotifications(chr)

NextServiceMember ==
    [ServiceID |-> "ServiceType", ServiceType |-> "ServicePropertyPrimary",
     ServicePropertyPrimary |-> "ServicePropertyHidden",
     ServicePropertyHidden |-> "LinkedServices", LinkedServices |-> "Characteristics"]

NextCharacteristicMember(field, chr) ==
    CASE field = "CharacteristicID"     -> "CharacteristicType"
      [] field = "CharacteristicType"   -> "CharacteristicFormat"
      [] field = "CharacteristicFormat" ->
            IF Has(chr, "readable") THEN "CharacteristicValue"
            ELSE "CharacteristicPermissions"
      [] field = "CharacteristicValue"       -> "CharacteristicPermissions"
      [] field = "CharacteristicPermissions" -> AfterPermissions(chr)
      [] field = "CharacteristicEventNotifications" -> AfterEventNotifications(chr)
      [] field = "CharacteristicDescription"  -> AfterDescription(chr)
      [] field = "CharacteristicUnit"         -> AfterUnit(chr)
      [] field = "CharacteristicMinimumValue" -> "CharacteristicMaximumValue"
      [] field = "CharacteristicMaximumValue" -> "CharacteristicStepValue"
      [] field = "CharacteristicStepValue"    -> AfterStepValue(chr)
      [] field = "CharacteristicValidValues"  -> AfterValidValues(chr)
      [] OTHER -> ""

NextMember(c) ==
    CASE c.field = "AccessoryID" -> "Services"
      [] c.field \in DOMAIN NextServiceMember -> NextServiceMember[c.field]
      [] OTHER -> NextCharacteristicMember(c.field, GetCurrentCharacteristic(c))

-----------------------------------------------------------------------------
(* Tokens of the values.  The length of a value that is read, and whether  *)
(* the session has subscribed, depend on when they are written.            *)

Varying(n) == [text |-> "*", bytes |-> n, name |-> FALSE]

\* read is the length of the text that the application answers, 0 when it
\* fails: null for a switch event or a failure, "" for a control point.
ValueBytes(chr, read) ==
    CASE chr.type = "ProgrammableSwitchEvent"              -> 4
      [] chr.format = "tlv8" /\ Has(chr, "controlPoint")   -> 2
      [] read = 0 -> IF chr.format = "tlv8" THEN 2 ELSE 4
      [] OTHER    -> IF IsText(chr) THEN 2 + read ELSE 1

Number(n) == Raw(HAPInt32GetNumDescriptionBytes(n))

Truth(b) == L(IF b THEN "true" ELSE "false")

ServiceValue(svc, field) ==
    CASE field = "ServiceID"              -> Number(svc.iid)
      [] field = "ServiceType"            -> Quoted(svc.type)
      [] field = "ServicePropertyPrimary" -> Truth(svc.primary)
      [] OTHER                            -> Truth(svc.hidden)

LimitOf == [CharacteristicMinimumValue |-> "min", CharacteristicMaximumValue |-> "max",
            CharacteristicStepValue |-> "step"]

LimitValue(chr, field) == Raw(Bound(chr, chr.constraints[LimitOf[field]]))

CharacteristicValue(chr, field, read) ==
    CASE field = "CharacteristicID"     -> Number(chr.iid)
      [] field = "CharacteristicType"   -> Quoted(chr.type)
      [] field = "CharacteristicFormat" -> Quoted(chr.format)
      [] field = "CharacteristicValue"  -> Varying(ValueBytes(chr, read))
      [] field = "CharacteristicEventNotifications" -> Varying(4 + (read % 2))
      [] field = "CharacteristicDescription" -> Raw(chr.description + 2)
      [] field = "CharacteristicUnit"   -> Quoted(chr.units)
      [] field \in DOMAIN LimitOf       -> LimitValue(chr, field)
      [] OTHER                          -> Number(chr.constraints.maxLength)

MemberValue(c, read) ==
    CASE c.field = "AccessoryID" -> Number(GetCurrentAccessory(c).aid)
      [] c.field \in {"ServiceID", "ServiceType", "ServicePropertyPrimary",
                      "ServicePropertyHidden"} ->
             ServiceValue(GetCurrentService(c), c.field)
      [] OTHER -> CharacteristicValue(GetCurrentCharacteristic(c), c.field, read)

ElementValue(c) ==
    LET x == Elements(c, c.field)[c.index]
    IN  CASE c.field = "CharacteristicPermissions"       -> x
          [] c.field = "CharacteristicValidValuesRanges" ->
                 <<L("["), Number(x[1]), Comma, Number(x[2]), L("]")>>
          [] OTHER                                       -> <<Number(x)>>

-----------------------------------------------------------------------------
(* One step: the tokens it appends, and the state it leads to.             *)

ObjectArrays == DOMAIN FirstMember

Step(tokens, c, state, field) ==
    [tokens |-> tokens, context |-> [c EXCEPT !.state = state, !.field = field]]

SerializeStep(c, read) ==
    LET array   == IndexOf[c.field]
        Next(d) == IF d[array] <= Len(Elements(d, d.field)) THEN "Separator" ELSE "End"
        Last_(s, d) == Step(s, d, Next(d), d.field)
        AfterArray ==
            CASE c.field = "Accessories"     -> <<"ObjectEnd", "Response">>
              [] c.field = "Services"        -> <<"ObjectEnd", "Accessories">>
              [] c.field = "Characteristics" -> <<"ObjectEnd", "Services">>
              [] c.field = "CharacteristicValidValuesRanges" ->
                                                <<"ObjectEnd", "Characteristics">>
              [] OTHER                       -> <<"ValueSeparator", c.field>>
    IN  CASE c.state = "Begin" /\ c.field = "Response" ->
               Step(<<L("{")>>, c, "Name", "Accessories")
          [] c.state = "Name" ->
               Step(<<Name(JSONName[c.field])>>, c,
                    IF c.field \in DOMAIN IndexOf THEN "Begin" ELSE "Value", c.field)
          [] c.state = "Value" ->
               Step(<<MemberValue(c, read)>>, c, "ValueSeparator", c.field)
          [] c.state = "ValueSeparator" ->
               IF NextMember(c) = "" THEN Step(<<>>, c, "ObjectEnd", "Characteristics")
               ELSE Step(<<Comma>>, c, "Name", NextMember(c))
          [] c.state = "Begin" /\ c.field # "Response" ->
               LET d == [c EXCEPT ![array] = 1]
               IN  Step(<<L("[")>>, d,
                        IF Elements(d, c.field) = <<>> THEN "End" ELSE "Element", c.field)
          [] c.state = "Element" /\ c.field \in ObjectArrays ->
               Step(<<L("{")>>, c, "Name", FirstMember[c.field])
          [] c.state = "Element" /\ c.field \notin ObjectArrays ->
               Last_(ElementValue(c), [c EXCEPT ![array] = @ + 1])
          [] c.state = "ObjectEnd" /\ c.field = "Response" ->
               Step(<<L("}")>>, c, "Complete", "Response")
          [] c.state = "ObjectEnd" /\ c.field # "Response" ->
               Last_(<<L("}")>>, [c EXCEPT ![array] = @ + 1])
          [] c.state = "Separator" -> Step(<<Comma>>, c, "Element", c.field)
          [] c.state = "End" -> Step(<<L("]")>>, c, AfterArray[1], AfterArray[2])

-----------------------------------------------------------------------------
(* HAPIPAccessorySerializeReadResponse takes steps until the chunk has     *)
(* minBytes.                                                               *)

RECURSIVE SerializeReadResponse(_, _, _, _, _)
SerializeReadResponse(c, tokens, numBytes, minBytes, read) ==
    IF numBytes >= minBytes \/ HAPIPAccessorySerializationIsComplete(c)
    THEN [context |-> c, tokens |-> tokens, numBytes |-> numBytes]
    ELSE LET step == SerializeStep(c, read)
         IN  SerializeReadResponse(step.context, tokens \o step.tokens,
                                   numBytes + NumBytes(step.tokens), minBytes, read)

RECURSIVE HexDigits(_)
HexDigits(n) == IF n < 16 THEN 1 ELSE 1 + HexDigits(n \div 16)

\* What is compared with the database: not the values, which change.
Masked(tokens) ==
    [i \in 1 .. Len(tokens) |->
        IF tokens[i].text = "*" THEN Varying(0) ELSE tokens[i]]

-----------------------------------------------------------------------------
(* handle_accessory_serialization: the next chunk is serialized behind what *)
(* is left in the outbound buffer, and one frame of it is sent.            *)

\* position bytes are in the buffer.
SendFrame(position) ==
    LET frame == IF position < MaxFrameBytes THEN position ELSE MaxFrameBytes
    IN  /\ outbound' = position - frame
        /\ accSession' = IF frame + FrameOverhead > OutboundBytes - outbound'
                         THEN "Fatal" ELSE "Writing"

MinBytes(room) == IF MaxFrameBytes < room THEN MaxFrameBytes ELSE room

\* The hexadecimal length of the chunk, the two ends of line and the last chunk.
Framing(chunk) ==
    HexDigits(chunk.numBytes) + 2
    + IF HAPIPAccessorySerializationIsComplete(chunk.context) THEN 7 ELSE 2

\* The chunk goes behind position bytes, which leave room bytes of the buffer.
AddChunk(chunk, s, position, room) ==
    /\ context' = chunk.context
    /\ stream' = s \o Masked(chunk.tokens)
    /\ IF chunk.numBytes + Framing(chunk) > room
       THEN outbound' = position /\ accSession' = "Fatal"
       ELSE SendFrame(position + chunk.numBytes + Framing(chunk))

handle_accessory_serialization(c, s, position, read) ==
    LET room == OutboundBytes - position
    IN  IF /\ position < OutboundBytes /\ position < MaxFrameBytes
           /\ ~HAPIPAccessorySerializationIsComplete(c)
        THEN \E chunk \in {SerializeReadResponse(c, <<>>, 0, MinBytes(room), read)} :
                AddChunk(chunk, s, position, room)
        ELSE /\ UNCHANGED <<context, stream>>
             /\ IF position > 0 THEN SendFrame(position)
                ELSE outbound' = 0 /\ accSession' = "Reading"

HeaderBytes == 83   \* the status line and the headers

get_accessories ==
    /\ accSession = "Reading"
    /\ \E read \in ReadLengths :
           handle_accessory_serialization(HAPIPAccessoryCreateSerializationContext,
                                          <<>>, HeaderBytes, read)

\* The frame was sent: handle_output_completion goes on.
FrameSent ==
    /\ accSession = "Writing"
    /\ \E read \in ReadLengths :
           handle_accessory_serialization(context, stream, outbound, read)

AccInit == /\ context = HAPIPAccessoryCreateSerializationContext
           /\ stream = <<>> /\ outbound = 0 /\ accSession = "Reading"

AccNext == get_accessories \/ FrameSent

-----------------------------------------------------------------------------
(* The database as one JSON text.                                          *)

Member(name, tokens) == <<Name(name)>> \o tokens

Object(members) == <<L("{")>> \o Joined(members) \o <<L("}")>>

Array(elements) == <<L("[")>> \o Joined(elements) \o <<L("]")>>

Each(F(_), seq) == [i \in 1 .. Len(seq) |-> F(seq[i])]

If(condition, members) == IF condition THEN members ELSE <<>>

CharacteristicText(chr) ==
    LET k == chr.constraints
        numeric == chr.format \in {"uint8", "uint16", "uint32", "uint64", "int", "float"}
        Limit(name, n) == Member(name, <<Raw(Bound(chr, n))>>)
        Pair(r) == Array(Each(LAMBDA n : <<Number(n)>>, r))
    IN  Object(
          <<Member("iid", <<Number(chr.iid)>>), Member("type", <<Quoted(chr.type)>>),
            Member("format", <<Quoted(chr.format)>>)>>
          \o If(Has(chr, "readable"), <<Member("value", <<Varying(0)>>)>>)
          \o <<Member("perms", Array(Permissions(chr)))>>
          \o If(Has(chr, "readable"), <<Member("ev", <<Varying(0)>>)>>)
          \o If(chr.description # 0,
                <<Member("description", <<Raw(chr.description + 2)>>)>>)
          \o If(numeric /\ chr.units # "none", <<Member("unit", <<Quoted(chr.units)>>)>>)
          \o If(numeric /\ (Constrained(chr) \/ k.step > (IF chr.format = "float" THEN 0 ELSE 1)),
                <<Limit("minValue", k.min), Limit("maxValue", k.max),
                  Limit("minStep", k.step)>>)
          \o If(chr.format = "string" /\ k.maxLength # 64,
                <<Member("maxLen", <<Number(k.maxLength)>>)>>)
          \o If(chr.format = "data" /\ k.maxLength # 2097152,
                <<Member("maxDataLen", <<Number(k.maxLength)>>)>>)
          \o If(chr.format = "uint8" /\ chr.apple /\ k.validValues # <<>>,
                <<Member("valid-values",
                         Array(Each(LAMBDA n : <<Number(n)>>, k.validValues)))>>)
          \o If(chr.format = "uint8" /\ chr.apple /\ k.validValuesRanges # <<>>,
                <<Member("valid-values-range", Array(Each(Pair, k.validValuesRanges)))>>))

ServiceText(svc) ==
    Object(<<Member("iid", <<Number(svc.iid)>>), Member("type", <<Quoted(svc.type)>>),
             Member("primary", <<Truth(svc.primary)>>),
             Member("hidden", <<Truth(svc.hidden)>>),
             Member("linked", Array(Each(LAMBDA n : <<Number(n)>>, svc.linkedServices))),
             Member("characteristics",
                    Array(Each(CharacteristicText, IPCharacteristics(svc))))>>)

AccessoryText(acc) ==
    Object(<<Member("aid", <<Number(acc.aid)>>),
             Member("services", Array(Each(ServiceText, IPServices(acc))))>>)

DatabaseText ==
    Object(<<Member("accessories", Array(Each(AccessoryText, Accessories)))>>)

\* Wherever the chunks were cut, the stream is the text of the database
\* (HAPIPAccessory.c keeps its place in state and four indices).
StreamIsDatabase ==
    stream # <<>> =>
        LET text == DatabaseText
        IN  /\ stream = SubSeq(text, 1, Len(stream))
            /\ HAPIPAccessorySerializationIsComplete(context) =>
                   Len(stream) = Len(text)
            /\ accSession = "Reading" =>
                   HAPIPAccessorySerializationIsComplete(context)

\* A buffer with room for what is left of a frame, a chunk and its framing
\* never runs out: the assertions after each copy hold.
ChunksFit == accSession # "Fatal"

\* The accessory database is written whole, whatever room each chunk finds.
DatabaseIsWritten == StreamIsDatabase /\ ChunksFit
=============================================================================
