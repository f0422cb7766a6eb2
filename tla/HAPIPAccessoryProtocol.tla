----------------------- MODULE HAPIPAccessoryProtocol ------------------------
(***************************************************************************)
(* The bodies of the characteristic protocol (HAPIPAccessoryProtocol.c):    *)
(* requests are read from the parameters of a query and the members of a   *)
(* JSON object, responses are counted first and then written.  A JSON text *)
(* is a sequence of tokens with their lengths.                             *)
(***************************************************************************)
EXTENDS HAPCharacteristic

CONSTANTS MaxReadContexts, MaxWriteContexts   \* contexts in the IP storage

ASSUME ContextsAssumption == MaxReadContexts \in Nat /\ MaxWriteContexts \in Nat

Success == 0

-----------------------------------------------------------------------------
(* Tokens.                                                                 *)

L(text) == [text |-> text, bytes |-> Len(text), name |-> FALSE]

Name(text) == [text |-> text, bytes |-> Len(text) + 3, name |-> TRUE]

Quoted(text) == [text |-> text, bytes |-> Len(text) + 2, name |-> FALSE]

Raw(n) == [text |-> "#", bytes |-> n, name |-> FALSE]

Comma == L(",")

Total(numbers) ==
    LET sum[i \in 0 .. Len(numbers)] == IF i = 0 THEN 0 ELSE sum[i - 1] + numbers[i]
    IN  sum[Len(numbers)]

NumBytes(tokens) == Total([i \in 1 .. Len(tokens) |-> tokens[i].bytes])

\* The digits of a number and its sign (HAPBase+Int.c).
digits[n \in Nat] == IF n < 10 THEN 1 ELSE 1 + digits[n \div 10]

HAPUInt64GetNumDescriptionBytes(n) == digits[n]

HAPInt32GetNumDescriptionBytes(n) ==
    IF n < 0 THEN 1 + HAPUInt64GetNumDescriptionBytes(-n)
             ELSE HAPUInt64GetNumDescriptionBytes(n)

\* Infinity has no JSON form: "null" is written.
HAPJSONUtilsGetFloatNumDescriptionBytes(v) ==
    IF v \in {FLT_INF, -FLT_INF} THEN 4 ELSE HAPInt32GetNumDescriptionBytes(v)

\* extra bytes are added by the backslashes of a string.
HAPJSONUtilsGetNumEscapedStringDataBytes(v) == v.numBytes + v.extra

Joined(seqs) ==
    LET join[i \in 0 .. Len(seqs)] ==
            CASE i = 0 -> <<>>
              [] i = 1 -> seqs[1]
              [] OTHER -> join[i - 1] \o <<Comma>> \o seqs[i]
    IN  join[Len(seqs)]

(* A JSON text is well formed: brackets match, and a name stands in an     *)
(* object.                                                                 *)
Nesting(tokens) ==
    LET Push(stack, t) ==
            LET top == IF stack = <<>> THEN "" ELSE Last(stack)
            IN  CASE top = "bad" -> stack
                  [] t.name -> IF top = "{" THEN stack ELSE <<"bad">>
                  [] t.text \in {"{", "["} -> Append(stack, t.text)
                  [] t.text = "}" -> IF top = "{" THEN Front(stack) ELSE <<"bad">>
                  [] t.text = "]" -> IF top = "[" THEN Front(stack) ELSE <<"bad">>
                  [] OTHER -> stack
    IN  FoldLeft(Push, <<>>, tokens)

WellFormed(tokens) == Nesting(tokens) = <<>>

-----------------------------------------------------------------------------
(* GET /characteristics?...: a parameter is [key, paths, number] with the  *)
(* paths of "id" or the number of the others; a path of another form (<<>>) *)
(* and a number other than 0 and 1 are errors.                             *)

PathsRead == {<<>>} \cup (Nat \X Nat)

QueryParameters == [key : STRING, paths : Seq(PathsRead), number : Int]

NoParameters == [name \in {"meta", "perms", "type", "ev"} |-> FALSE]

JSONValues == [kind : {"none", "number", "boolean", "string", "other"},
           fraction : BOOLEAN, base64 : BOOLEAN, n : Int, numBytes : Nat, extra : Nat]

\* Zero, and no text.
NoValue == [kind |-> "none", fraction |-> FALSE, base64 |-> FALSE,
            n |-> 0, numBytes |-> 0, extra |-> 0]

ReadContexts == [path : PathsRead, status : Int, value : JSONValues, ev : BOOLEAN]

ReadContext(path) == [path |-> path, status |-> Success, value |-> NoValue, ev |-> FALSE]

ReadParameter(r, p) ==
    CASE r.err # "None" -> r
      [] p.key = "id" ->
            LET all == r.contexts \o [i \in 1 .. Len(p.paths) |-> ReadContext(p.paths[i])]
            IN  CASE <<>> \in ToSet(p.paths) -> [r EXCEPT !.err = "InvalidData"]
                  [] Len(all) > MaxReadContexts -> [r EXCEPT !.err = "OutOfResources"]
                  [] OTHER -> [r EXCEPT !.contexts = all]
      [] p.key \in DOMAIN NoParameters /\ p.number \in {0, 1} ->
            [r EXCEPT !.parameters[p.key] = (p.number = 1)]
      [] OTHER -> [r EXCEPT !.err = "InvalidData"]

\* The requests after each parameter.
QueryRun(query) ==
    LET run[i \in 0 .. Len(query)] ==
            IF i = 0 THEN [err |-> "None", contexts |-> <<>>, parameters |-> NoParameters]
            ELSE ReadParameter(run[i - 1], query[i])
    IN  run

GetCharacteristicReadRequests(query) == QueryRun(query)[Len(query)]

-----------------------------------------------------------------------------
(* PUT /characteristics: an object is a sequence of members [name, value],  *)
(* [name, objects] for the array of its objects; "...Run" is what has been *)
(* read after each member.                                                 *)
(* A value is [kind |-> "number", n, fraction], [kind |-> "boolean", n],   *)
(* [kind |-> "string", n, numBytes, extra, base64] or of another kind.     *)

ObjectMembers == [name : STRING, value : JSONValues]

BodyMembers == [name : STRING, value : JSONValues, objects : Seq(Seq(ObjectMembers))]

WriteContexts ==
    [path : PathsRead, type : {"None", "UInt", "Int", "Float", "String"}, value : JSONValues,
     ev : {"Undefined", "Enabled", "Disabled"}, authData : {"None", "Decodes", "Malformed"},
     remote : BOOLEAN, response : BOOLEAN, status : Int]

NoWrite == [path |-> <<>>, type |-> "None", value |-> NoValue, ev |-> "Undefined",
            authData |-> "None", remote |-> FALSE, response |-> FALSE, status |-> Success]

IsIndex(v) == v.kind = "number" /\ ~v.fraction /\ v.n >= 0

IsFlag(v) == \/ v.kind = "boolean"
             \/ v.kind = "number" /\ ~v.fraction /\ v.n \in {0, 1}

WriteValueType(v) ==
    CASE v.kind = "number" /\ v.fraction -> "Float"
      [] v.kind = "number" /\ v.n < 0    -> "Int"
      [] v.kind = "string"               -> "String"
      [] OTHER                           -> "UInt"

\* A number has to fit INT32 or UINT64; null, arrays and objects are refused.
IsValue(v) ==
    \/ v.kind \in {"boolean", "string"}
    \/ v.kind = "number" /\ (v.fraction \/ v.n \in INT32_MIN .. UINT64_MAX)

\* A member of a write: whether it is well typed, and the write with it.
ValueMember(w, v) ==
    [ok |-> IsValue(v), write |-> [w EXCEPT !.type = WriteValueType(v), !.value = v]]

EvMember(w, v) ==
    [ok |-> IsFlag(v),
     write |-> [w EXCEPT !.ev = IF v.n = 1 THEN "Enabled" ELSE "Disabled"]]

AuthDataMember(w, v) ==
    [ok |-> v.kind = "string",
     write |-> [w EXCEPT !.authData = IF v.base64 THEN "Decodes" ELSE "Malformed"]]

RemoteMember(w, v) == [ok |-> IsFlag(v), write |-> [w EXCEPT !.remote = (v.n = 1)]]

ResponseMember(w, v) == [ok |-> IsFlag(v), write |-> [w EXCEPT !.response = (v.n = 1)]]

\* An ill-typed member is refused, a member with another name is skipped, and
\* the last of two members counts.
read_characteristic_write_request_parameters(p, m) ==
    LET v == m.value
        Index(q) == IF IsIndex(v) THEN q ELSE [p EXCEPT !.err = "InvalidData"]
        Take(member) == IF member.ok THEN [p EXCEPT !.write = member.write]
                                     ELSE [p EXCEPT !.err = "InvalidData"]
    IN  CASE p.err # "None"      -> p
          [] m.name = "aid"      -> Index([p EXCEPT !.aid = <<v.n>>])
          [] m.name = "iid"      -> Index([p EXCEPT !.iid = <<v.n>>])
          [] m.name = "value"    -> Take(ValueMember(p.write, v))
          [] m.name = "ev"       -> Take(EvMember(p.write, v))
          [] m.name = "authData" -> Take(AuthDataMember(p.write, v))
          [] m.name = "remote"   -> Take(RemoteMember(p.write, v))
          [] m.name = "r"        -> Take(ResponseMember(p.write, v))
          [] OTHER               -> p

ObjectRun(object) ==
    LET run[i \in 0 .. Len(object)] ==
            IF i = 0 THEN [err |-> IF object = <<>> THEN "InvalidData" ELSE "None",
                           aid |-> <<>>, iid |-> <<>>, write |-> NoWrite]
            ELSE read_characteristic_write_request_parameters(run[i - 1], object[i])
    IN  run

read_characteristic_write_request(r, object) ==
    LET p == ObjectRun(object)[Len(object)]
        err == CASE p.err # "None"               -> p.err
                 [] p.aid = <<>> \/ p.iid = <<>> -> "InvalidData"
                 [] Len(r.contexts) = MaxWriteContexts -> "OutOfResources"
                 [] OTHER                        -> "None"
    IN  CASE r.err # "None" -> r
          [] err # "None"   -> [r EXCEPT !.err = err]
          [] OTHER -> [r EXCEPT !.contexts =
                          Append(@, [p.write EXCEPT !.path = <<p.aid[1], p.iid[1]>>])]

ObjectsRun(r, objects) ==
    LET run[i \in 0 .. Len(objects)] ==
            IF i = 0 THEN r ELSE read_characteristic_write_request(run[i - 1], objects[i])
    IN  run

ReadBodyMember(r, m) ==
    CASE r.err # "None" -> r
      [] m.name = "characteristics" ->
            IF m.objects = <<>> THEN [r EXCEPT !.err = "InvalidData"]
            ELSE ObjectsRun(r, m.objects)[Len(m.objects)]
      [] m.name = "pid" ->
            IF r.pid # <<>> \/ ~IsIndex(m.value) THEN [r EXCEPT !.err = "InvalidData"]
            ELSE [r EXCEPT !.pid = <<m.value.n>>]
      [] OTHER -> r

BodyRun(body) ==
    LET run[i \in 0 .. Len(body)] ==
            IF i = 0 THEN [err |-> IF body = <<>> THEN "InvalidData" ELSE "None",
                           contexts |-> <<>>, pid |-> <<>>]
            ELSE ReadBodyMember(run[i - 1], body[i])
    IN  run

GetCharacteristicWriteRequests(body) == BodyRun(body)[Len(body)]

\* PUT /prepare: both members, each once.  (The cap of 2^53 - 1 on ttl exceeds
\* the numbers of the model.)
GetCharacteristicWritePreparation(body) ==
    LET Named(name) == {i \in 1 .. Len(body) : body[i].name = name}
        Number(name) == body[CHOOSE i \in Named(name) : TRUE].value
    IN  IF \A name \in {"ttl", "pid"} :
               Cardinality(Named(name)) = 1 /\ IsIndex(Number(name))
        THEN [err |-> "None", ttl |-> Number("ttl").n, pid |-> Number("pid").n]
        ELSE [err |-> "InvalidData"]

-----------------------------------------------------------------------------
(* Values and metadata, counted and written.                               *)

IsText(chr) == chr.format \in {"string", "tlv8", "data"}

Known(path) == path \in Paths

NumValueBytes(chr, v) ==
    CASE chr.format = "bool"  -> 1
      [] chr.format = "int"   -> HAPInt32GetNumDescriptionBytes(v.n)
      [] chr.format = "float" -> HAPJSONUtilsGetFloatNumDescriptionBytes(v.n)
      [] IsText(chr)          -> 2 + HAPJSONUtilsGetNumEscapedStringDataBytes(v)
      [] OTHER                -> HAPUInt64GetNumDescriptionBytes(v.n)

\* HAPJSONUtilsEscapeStringData rewrites the text in place between its quotes.
Value(chr, v) ==
    IF IsText(chr) THEN <<L("\""), Raw(v.numBytes + v.extra), L("\"")>>
    ELSE <<Raw(NumValueBytes(chr, v))>>

\* Whether the range of a number differs from the range of its type.
Constrained(chr) ==
    LET k == chr.constraints
    IN  CASE chr.format = "uint8"  -> k.min # 0 \/ k.max # UINT8_MAX
          [] chr.format = "uint16" -> k.min # 0 \/ k.max # UINT16_MAX
          [] chr.format = "uint32" -> k.min # 0 \/ k.max # UINT32_MAX
          [] chr.format = "uint64" -> k.min # 0 \/ k.max # UINT64_MAX
          [] chr.format = "int"    -> k.min # INT32_MIN \/ k.max # INT32_MAX
          [] chr.format = "float"  -> k.min # -FLT_INF \/ k.max # FLT_INF
          [] OTHER -> FALSE

Bound(chr, n) == NumValueBytes(chr, [n |-> n, numBytes |-> 0, extra |-> 0])

UnitBytes == [none |-> 0, celsius |-> 17, arcdegrees |-> 20, percentage |-> 20,
              lux |-> 13, seconds |-> 17]

FormatBytes == [bool |-> 16, uint8 |-> 17, uint16 |-> 18, uint32 |-> 18,
                uint64 |-> 18, int |-> 15, float |-> 17, string |-> 18,
                tlv8 |-> 16, data |-> 16]

NumMetadataBytes(chr) ==
    UnitBytes[HAPCharacteristicGetUnit(chr)]
    + CASE Constrained(chr) -> 35 + Bound(chr, chr.constraints.min)
                                  + Bound(chr, chr.constraints.max)
                                  + Bound(chr, chr.constraints.step)
        [] chr.format = "string" /\ chr.constraints.maxLength # 64 ->
               10 + HAPUInt64GetNumDescriptionBytes(chr.constraints.maxLength)
        [] chr.format = "data" /\ chr.constraints.maxLength # 2097152 ->
               14 + HAPUInt64GetNumDescriptionBytes(chr.constraints.maxLength)
        [] OTHER -> 0

UnitMember(chr) ==
    LET unit == HAPCharacteristicGetUnit(chr)
    IN  IF unit = "none" THEN <<>> ELSE <<Comma, Name("unit"), Quoted(unit)>>

RangeMembers(chr) ==
    LET Number(name, n) == <<Comma, Name(name), Raw(Bound(chr, n))>>
    IN  Number("minValue", chr.constraints.min)
        \o Number("maxValue", chr.constraints.max)
        \o Number("minStep", chr.constraints.step)

LengthMember(chr, name) ==
    <<Comma, Name(name), Raw(HAPUInt64GetNumDescriptionBytes(chr.constraints.maxLength))>>

Metadata(chr) ==
    UnitMember(chr)
    \o CASE Constrained(chr) -> RangeMembers(chr)
         [] chr.format = "string" /\ chr.constraints.maxLength # 64 ->
                LengthMember(chr, "maxLen")
         [] chr.format = "data" /\ chr.constraints.maxLength # 2097152 ->
                LengthMember(chr, "maxDataLen")
         [] OTHER -> <<>>

Permissions(chr) ==
    LET Code(property, code) == IF Has(chr, property) THEN <<<<Quoted(code)>>>> ELSE <<>>
    IN  Code("readable", "pr") \o Code("writable", "pw")
        \o Code("supportsEventNotification", "ev")
        \o Code("supportsAuthorizationData", "aa")
        \o Code("requiresTimedWrite", "tw")
        \o Code("supportsWriteResponse", "wr") \o Code("hidden", "hd")

PathDigits(path) == HAPUInt64GetNumDescriptionBytes(path[1])
                    + HAPUInt64GetNumDescriptionBytes(path[2])

PathMembers(path) ==
    <<Name("aid"), Raw(HAPUInt64GetNumDescriptionBytes(path[1])), Comma,
      Name("iid"), Raw(HAPUInt64GetNumDescriptionBytes(path[2]))>>

SumOver(F(_), contexts) == FoldLeft(LAMBDA n, c : n + F(c), 0, contexts)

SeparatorsFaulty(contexts) == Len(contexts)   \* Faulty: one after the last, too

Separators(contexts) == IF contexts = <<>> THEN 0 ELSE Len(contexts) - 1

Characteristics_(entries) ==
    <<L("{"), Name("characteristics"), L("[")>> \o Joined(entries) \o <<L("]"), L("}")>>

-----------------------------------------------------------------------------
(* The response to GET /characteristics.                                   *)

AllSucceed(contexts) == \A c \in ToSet(contexts) : c.status = Success

GetNumCharacteristicReadResponseBytes(contexts, parameters) ==
    LET When(flag, n) == IF flag THEN n ELSE 0
        Entry(c) ==
            LET chr == get_db_ctx(c.path)
                Asked(name) == parameters[name] /\ Known(c.path)
                n == HAPCharacteristicGetNumEnabledProperties(chr)
            IN  15 + PathDigits(c.path)
                + (IF Asked("type") THEN 10 + Len(chr.type) ELSE 0)
                + (IF Asked("meta") THEN FormatBytes[chr.format] ELSE 0)
                + (IF c.status = Success
                   THEN (IF AllSucceed(contexts) THEN 9 ELSE 20)
                        + (IF chr.type = "ProgrammableSwitchEvent" THEN 4
                           ELSE NumValueBytes(chr, c.value))
                   ELSE 10 + HAPInt32GetNumDescriptionBytes(c.status))
                + (IF Asked("perms") THEN 11 + (IF n = 0 THEN 0 ELSE 5 * n - 1) ELSE 0)
                + (IF Asked("ev") THEN 6 + (IF c.ev THEN 4 ELSE 5) ELSE 0)
                + (IF Asked("meta") THEN NumMetadataBytes(chr) ELSE 0)
    IN  22 + Separators(contexts) + SumOver(Entry, contexts)

\* The object is closed right after its value or its status: what perms, ev
\* and meta ask for comes after the brace.
GetCharacteristicReadResponseBytes(contexts, parameters) ==
    LET Entry(c) ==
            LET chr == get_db_ctx(c.path)
                Asked(name) == parameters[name] /\ Known(c.path)
            IN  <<L("{")>> \o PathMembers(c.path)
                \o (IF Asked("type")
                    THEN <<Comma, Name("type"), Quoted(chr.type)>> ELSE <<>>)
                \o (IF Asked("meta")
                    THEN <<Comma, Name("format"), Quoted(chr.format)>> ELSE <<>>)
                \o (IF c.status = Success
                    THEN (IF AllSucceed(contexts) THEN <<>>
                          ELSE <<Comma, Name("status"), L("0")>>)
                         \o <<Comma, Name("value")>>
                         \o (IF chr.type = "ProgrammableSwitchEvent" THEN <<L("null")>>
                             ELSE Value(chr, c.value))
                    ELSE <<Comma, Name("status"),
                           Raw(HAPInt32GetNumDescriptionBytes(c.status))>>)
                \o <<L("}")>>
                \o (IF Asked("perms")
                    THEN <<Comma, Name("perms"), L("[")>> \o Joined(Permissions(chr))
                         \o <<L("]")>> ELSE <<>>)
                \o (IF Asked("ev")
                    THEN <<Comma, Name("ev"), L(IF c.ev THEN "true" ELSE "false")>>
                    ELSE <<>>)
                \o (IF Asked("meta") THEN Metadata(chr) ELSE <<>>)
    IN  Characteristics_([i \in 1 .. Len(contexts) |-> Entry(contexts[i])])

-----------------------------------------------------------------------------
(* The response to PUT /characteristics and the event notification.        *)

GetNumCharacteristicWriteResponseBytes(contexts) ==
    LET Entry(c) ==
            25 + PathDigits(c.path) + HAPInt32GetNumDescriptionBytes(c.status)
            + (IF c.status = Success /\ c.response
               THEN 9 + NumValueBytes(get_db_ctx(c.path), c.value) ELSE 0)
    IN  22 + Separators(contexts) + SumOver(Entry, contexts)

GetCharacteristicWriteResponseBytes(contexts) ==
    LET Entry(c) ==
            <<L("{")>> \o PathMembers(c.path)
            \o <<Comma, Name("status"), Raw(HAPInt32GetNumDescriptionBytes(c.status))>>
            \o (IF c.status = Success /\ c.response
                THEN <<Comma, Name("value")>> \o Value(get_db_ctx(c.path), c.value)
                ELSE <<>>)
            \o <<L("}")>>
    IN  Characteristics_([i \in 1 .. Len(contexts) |-> Entry(contexts[i])])

GetNumEventNotificationBytes(contexts) ==
    LET Entry(c) ==
            24 + PathDigits(c.path)
            + (IF c.status = Success THEN NumValueBytes(get_db_ctx(c.path), c.value) ELSE 4)
    IN  22 + Separators(contexts) + SumOver(Entry, contexts)

GetEventNotificationBytes(contexts) ==
    LET Entry(c) ==
            <<L("{")>> \o PathMembers(c.path) \o <<Comma, Name("value")>>
            \o (IF c.status = Success THEN Value(get_db_ctx(c.path), c.value)
                                      ELSE <<L("null")>>)
            \o <<L("}")>>
    IN  Characteristics_([i \in 1 .. Len(contexts) |-> Entry(contexts[i])])
=============================================================================
