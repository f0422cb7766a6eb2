----------------------------- MODULE MCBuildingBlocks -----------------------------
(* The parts that the transports are built from, each explored on its own: a  *)
(* behaviour is one of the part that subject names, the others stay as they   *)
(* began.                                                                     *)
EXTENDS HAPPlatformKeyValueStore, HAPPlatformTimer, HAPPairingBLESessionCache,
        HAPPlatformTCPStreamManager, HAPMFiHWAuth, HAPTLVReader, HAPTLVFormat,
        HAPIPHTTPReader, HAPIPAccessory, TLC

VARIABLE subject

DB == INSTANCE MCDatabase
AccessoriesOf == DB!AllFormats
MinInt32 == -200

-----------------------------------------------------------------------------
\* A key in each of two domains.
KeyFiles == {<<1, 1>>, <<2, 1>>}

-----------------------------------------------------------------------------
\* All buffers of up to four bytes, and three elements of which each may be empty,
\* short, just not fragmented or of many fragments.
Lengths == {0, 7, 8, 58}
Bytes(n) == [i \in 1 .. n |-> 1 + (i % MaxByte)]
Buffers ==
    UNION {[1 .. n -> Byte] : n \in 0 .. 4}
    \cup {Fragmented(t, Bytes(k)) \o Fragmented(u, Bytes(l)) \o Fragmented(v, Bytes(m)) :
            t, u \in {0, 3, 4, 5}, v \in {4, 5}, k, l, m \in Lengths}

-----------------------------------------------------------------------------
\* Formats with every kind of scalar, member and item, and their smallest and
\* largest values; those of four bytes, twice as wide as an int, on both sides of
\* what an int has.
IntOf(size, signed, min, max) ==
    [kind |-> "int", size |-> size, signed |-> signed, min |-> min, max |-> max]
Unsigned8 == IntOf(1, FALSE, 0, 6)
Signed16 == IntOf(2, TRUE, -32, 31)
Unsigned64 == IntOf(4, FALSE, 0, 4095)
Signed64 == IntOf(4, TRUE, -2048, 2047)
Data == [kind |-> "data", min |-> 0, max |-> 15]
Name16 == [kind |-> "string", min |-> 1, max |-> 8]
Enumeration == [kind |-> "enum", values |-> {1, 3}]
None == [kind |-> "none"]
MemberOf(type, format, optional, flat) ==
    [type |-> type, format |-> format, optional |-> optional, flat |-> flat]
Of(type, format) == MemberOf(type, format, FALSE, FALSE)
Maybe(type, format) == MemberOf(type, format, TRUE, FALSE)
Flat(format) == MemberOf(0, format, FALSE, TRUE)
Struct(members) == [kind |-> "struct", members |-> members]
Union(members) == [kind |-> "union", members |-> members]
SequenceOf(item, separator) == [kind |-> "sequence", item |-> item, separator |-> separator]

RECURSIVE ValuesOf(_), Products(_)
Products(sets) ==
    IF sets = <<>> THEN {<<>>}
    ELSE {<<v>> \o rest : v \in sets[1], rest \in Products(Tail(sets))}
ValuesOf(format) ==
    CASE format.kind = "none" -> {<<>>}
      [] format.kind = "enum" -> format.values
      [] format.kind = "int" ->
            {n \in {format.min, format.max, 1} \cup (IF format.size = 4 THEN {-1, 31, 32, 64} ELSE {}) :
                n \in format.min .. format.max}
      [] format.kind = "data" -> {Zeros(n) : n \in {format.min, format.max}}
      [] format.kind = "string" -> {Bytes(n) : n \in {format.min, format.max}}
      [] format.kind = "sequence" ->
            LET items == ValuesOf(format.item.format)
            IN {<<>>} \cup {<<v>> : v \in items} \cup {<<v, w>> : v, w \in items}
      [] format.kind = "union" ->
            UNION {{<<format.members[i].type, v>> : v \in ValuesOf(format.members[i].format)} :
                    i \in DOMAIN format.members}
      [] format.kind = "struct" ->
            Products([i \in DOMAIN format.members |->
                LET m == format.members[i]
                IN IF m.optional THEN {<<>>} \cup {<<v>> : v \in ValuesOf(m.format)}
                   ELSE ValuesOf(m.format)])

Couple == Struct(<<Of(1, Unsigned8), Maybe(2, Data)>>)
Choice == Union(<<Of(1, Enumeration), Of(2, None), Of(3, Struct(<<Of(0, Signed16)>>))>>)
Formats == {
    Struct(<<Of(1, Signed16), Maybe(2, Name16), Of(4, Data)>>),
    Struct(<<Of(1, Unsigned64)>>), Struct(<<Maybe(1, Unsigned8), Of(2, Signed64)>>),
    Struct(<<Of(1, Unsigned8), Maybe(2, Couple), Of(0, SequenceOf(Of(1, Unsigned8), 0))>>),
    SequenceOf(Of(1, Couple), 0), SequenceOf(Of(1, None), 1),
    SequenceOf(Flat(Choice), 0), SequenceOf(Flat(Choice), 2), Choice,
    Struct(<<Of(4, Unsigned8), Flat(Choice)>>), Struct(<<Flat(Choice), Of(4, Unsigned8)>>),
    Struct(<<Flat(Choice), Maybe(4, Unsigned8)>>),
    Struct(<<Of(1, Unsigned8), Of(1, Signed16)>>), Struct(<<Flat(Choice), Of(1, Unsigned8)>>)}
FormatSamples == UNION {{[format |-> f, value |-> v] : v \in ValuesOf(f)} : f \in Formats}

-----------------------------------------------------------------------------
\* Two pipelined requests: the first with no, one or two of the headers below and
\* either end of line, the second with a body that looks like the end of a line; requests
\* that repeat or fold a header; and requests that lack one byte.
KnownTypes == (<<"j", "s">> :> "JSON" @@ <<"t">> :> "TLV8")
NoHeader == [text |-> <<>>, type |-> "Unknown", body |-> <<>>]
LengthHeader == [text |-> <<"C", "L", ":", "SP", "2">>, type |-> "Unknown", body |-> <<"LF", "x">>]
TypeHeader == [text |-> <<"C", "T", ":", "j", "s", "SP">>, type |-> "JSON", body |-> <<>>]
OtherHeader == [text |-> <<"X", ":", "quote", "backslash", "LF", "backslash", "quote", "quote">>,
                type |-> "Unknown", body |-> <<>>]
SecondTypeHeader == [text |-> <<"C", "T", ":", "t">>, type |-> "TLV8", body |-> <<>>]
FoldedHeader == [text |-> <<"X", ":", "a", "LF", "SP", "b">>, type |-> "Unknown", body |-> <<>>]
RequestWith(h, k, eol) ==
    LET Ended(text) == IF text = <<>> THEN <<>> ELSE text \o eol
    IN [bytes |-> <<"P", "T", "SP", "/", "a", "SP", "H">> \o eol \o Ended(h.text) \o Ended(k.text)
                    \o eol \o h.body \o k.body,
        request |-> [method |-> <<"P", "T">>, uri |-> <<"/", "a">>,
                     type |-> IF k.type = "Unknown" THEN h.type ELSE k.type, body |-> h.body \o k.body]]
HeaderPairs == {<<NoHeader, NoHeader>>, <<LengthHeader, NoHeader>>, <<TypeHeader, LengthHeader>>,
                <<LengthHeader, OtherHeader>>, <<OtherHeader, TypeHeader>>}
FirstRequests == {RequestWith(p[1], p[2], <<"LF">>) : p \in HeaderPairs}
            \cup {RequestWith(TypeHeader, LengthHeader, <<"CR", "LF">>)}
LastRequest == RequestWith(NoHeader, LengthHeader, <<"LF">>)
StreamOf(fate, request) ==
    [fate |-> fate, bytes |-> request.bytes \o LastRequest.bytes,
     requests |-> <<request.request, LastRequest.request>>]
ByteStreams ==
    {StreamOf("served", r) : r \in FirstRequests}
    \cup {StreamOf("depends", RequestWith(TypeHeader, SecondTypeHeader, <<"LF">>)),
          StreamOf("Closed", RequestWith(LengthHeader, LengthHeader, <<"LF">>)),
          StreamOf("Failed", RequestWith(TypeHeader, FoldedHeader, <<"LF">>))}
    \cup {[fate |-> "any", bytes |-> RemoveAt(LastRequest.bytes, i), requests |-> <<>>] :
            i \in DOMAIN LastRequest.bytes}

-----------------------------------------------------------------------------
\* What the other parts begin with.
Only(part, chosen) == subject # part => chosen
AmongOf(part, all, one) == IF subject = part THEN all ELSE {one}
AnySample == CHOOSE s \in FormatSamples : TRUE
AnyStream == CHOOSE s \in ByteStreams : TRUE

Init ==
    /\ subject \in {"store", "timers", "cache", "streams", "coprocessor", "reader", "format",
                    "requests", "accessories"}
    /\ KVSInit /\ Only("store", privileged)
    /\ TimerInit
    /\ CacheInit
    /\ TCPInit
    /\ MFiInit /\ Only("coprocessor", chip.version = 2)
    /\ ReaderInitOn(AmongOf("reader", ReceivedBuffers, <<>>))
    /\ FormatInitOn(AmongOf("format", Samples, AnySample)) /\ Only("format", shiftsWrap)
    /\ HTTPInitOn(AmongOf("requests", Connections, AnyStream))
    /\ AccInit

\* One part steps, the other parts and subject do not.
vars == <<kvsVars, timerVars, cacheVars, tcpVars, mfiVars, readerVars, formatVars, httpVars, accVars>>

Next ==
    /\ UNCHANGED subject
    /\ \/ subject = "store" /\ KVSNext
       \/ subject # "store" /\ UNCHANGED kvsVars
    /\ \/ subject = "timers" /\ TimerNext
       \/ subject # "timers" /\ UNCHANGED timerVars
    /\ \/ subject = "cache" /\ CacheNext
       \/ subject # "cache" /\ UNCHANGED cacheVars
    /\ \/ subject = "streams" /\ TCPNext
       \/ subject # "streams" /\ UNCHANGED tcpVars
    /\ \/ subject = "coprocessor" /\ MFiNext
       \/ subject # "coprocessor" /\ UNCHANGED mfiVars
    /\ \/ subject = "reader" /\ ReaderNext
       \/ subject # "reader" /\ UNCHANGED readerVars
    /\ \/ subject = "format" /\ FormatNext
       \/ subject # "format" /\ UNCHANGED formatVars
    /\ \/ subject = "requests" /\ HTTPNext
       \/ subject # "requests" /\ UNCHANGED httpVars
    /\ \/ subject = "accessories" /\ AccNext
       \/ subject # "accessories" /\ UNCHANGED accVars

Spec == Init /\ [][Next]_<<subject, vars>>
====================================================================================
