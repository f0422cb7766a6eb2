-------------------------- MODULE HAPCharacteristic --------------------------
(***************************************************************************)
(* The attribute database and the checks every value passes on its way to  *)
(* the application (HAP.h, HAPCharacteristic.c, HAPIPCharacteristic.c).    *)
(* A number keeps its order and its distances; the limits of the integer   *)
(* types are constants, a float is a fixed-point number with FLT_INF for   *)
(* infinity.  A string or a blob is a tag n with its length.               *)
(***************************************************************************)
EXTENDS Integers, Sequences, FiniteSets, SequencesExt

CONSTANTS UINT8_MAX, UINT16_MAX, UINT32_MAX, UINT64_MAX,
          INT32_MIN, INT32_MAX, FLT_INF,
          Accessories   \* the primary accessory followed by the bridged ones

ASSUME WidthsOrdered ==
    /\ {UINT8_MAX, UINT16_MAX, UINT32_MAX, UINT64_MAX, INT32_MIN, INT32_MAX, FLT_INF} \subseteq Int
    /\ INT32_MIN < 0 /\ 0 < UINT8_MAX /\ UINT8_MAX < UINT16_MAX
    /\ UINT16_MAX < INT32_MAX /\ INT32_MAX < UINT32_MAX
    /\ UINT32_MAX < UINT64_MAX /\ UINT64_MAX < FLT_INF

Properties == {"readable", "writable", "supportsEventNotification", "hidden",
               "readRequiresAdminPermissions", "writeRequiresAdminPermissions",
               "requiresTimedWrite", "supportsAuthorizationData",
               "controlPoint", "supportsWriteResponse"}

Units == {"none", "celsius", "arcdegrees", "percentage", "lux", "seconds"}

NumberRange(lo, hi) == [min : lo .. hi, max : lo .. hi, step : Nat]

BaseCharacteristic(format, units, constraints) ==
    [iid : Nat, format : {format}, type : STRING, apple : BOOLEAN,
     description : Nat, units : units, properties : SUBSET Properties,
     constraints : constraints]

DataCharacteristic   == BaseCharacteristic("data", {"none"}, [maxLength : Nat])
BoolCharacteristic   == BaseCharacteristic("bool", {"none"}, {<<>>})
UInt8Characteristic  ==
    BaseCharacteristic("uint8", Units,
        [min : 0 .. UINT8_MAX, max : 0 .. UINT8_MAX, step : Nat,
         validValues : Seq(0 .. UINT8_MAX),
         validValuesRanges : Seq(Seq(0 .. UINT8_MAX))])
UInt16Characteristic == BaseCharacteristic("uint16", Units, NumberRange(0, UINT16_MAX))
UInt32Characteristic == BaseCharacteristic("uint32", Units, NumberRange(0, UINT32_MAX))
UInt64Characteristic == BaseCharacteristic("uint64", Units, NumberRange(0, UINT64_MAX))
IntCharacteristic    == BaseCharacteristic("int", Units, NumberRange(INT32_MIN, INT32_MAX))
FloatCharacteristic  == BaseCharacteristic("float", Units, NumberRange(-FLT_INF, FLT_INF))
StringCharacteristic == BaseCharacteristic("string", {"none"}, [maxLength : Nat])
TLV8Characteristic   == BaseCharacteristic("tlv8", {"none"}, {<<>>})

IsCharacteristic(chr) ==
    \/ chr \in DataCharacteristic   \/ chr \in BoolCharacteristic
    \/ chr \in UInt8Characteristic  \/ chr \in UInt16Characteristic
    \/ chr \in UInt32Characteristic \/ chr \in UInt64Characteristic
    \/ chr \in IntCharacteristic    \/ chr \in FloatCharacteristic
    \/ chr \in StringCharacteristic \/ chr \in TLV8Characteristic

IsService(svc) ==
    /\ svc.iid \in Nat /\ svc.type \in STRING
    /\ svc.primary \in BOOLEAN /\ svc.hidden \in BOOLEAN
    /\ svc.linkedServices \in Seq(Nat)
    /\ \A chr \in ToSet(svc.characteristics) : IsCharacteristic(chr)

IsAccessory(acc) ==
    /\ acc.aid \in Nat
    /\ \A svc \in ToSet(acc.services) : IsService(svc)

ASSUME DatabaseTyped == \A acc \in ToSet(Accessories) : IsAccessory(acc)

-----------------------------------------------------------------------------
(* What IP offers of the database, and how it is looked up.                *)

HAPAccessoryServerSupportsService(svc) == svc.type # "Pairing"

HAPIPCharacteristicIsSupported(chr) == chr.type # "ServiceSignature"

IPServices(acc) == SelectSeq(acc.services, HAPAccessoryServerSupportsService)

IPCharacteristics(svc) ==
    SelectSeq(svc.characteristics, HAPIPCharacteristicIsSupported)

Offered(svc) == {chr \in ToSet(svc.characteristics) : HAPIPCharacteristicIsSupported(chr)}

OfAccessory(acc) ==
    UNION {{<<acc.aid, chr>> : chr \in Offered(svc)} :
               svc \in {svc \in ToSet(acc.services) : HAPAccessoryServerSupportsService(svc)}}

IPDatabase == UNION {OfAccessory(acc) : acc \in ToSet(Accessories)}

Path(entry) == <<entry[1], entry[2].iid>>

Paths == {Path(entry) : entry \in IPDatabase}

\* GetCharacteristic finds the same characteristic as get_db_ctx.
AttributeDatabase ==
    [path \in Paths |-> (CHOOSE entry \in IPDatabase : Path(entry) = path)[2]]

get_db_ctx(path) == AttributeDatabase[path]

Has(chr, property) == property \in chr.properties

HAPCharacteristicGetNumEnabledProperties(chr) ==
    Cardinality(chr.properties \cap
        {"readable", "writable", "supportsEventNotification",
         "supportsAuthorizationData", "requiresTimedWrite",
         "supportsWriteResponse", "hidden"})

HAPCharacteristicGetUnit(chr) ==
    IF chr.format \in {"uint8", "uint16", "uint32", "uint64", "int", "float"}
    THEN chr.units ELSE "none"

MayReadFaulty(chr, admin) ==   \* Faulty: the permission to write is asked for
    Has(chr, "writeRequiresAdminPermissions") /\ ~Has(chr, "readable") => admin

MayRead(chr, admin) == Has(chr, "readRequiresAdminPermissions") => admin

MayWrite(chr, admin) == Has(chr, "writeRequiresAdminPermissions") => admin

-----------------------------------------------------------------------------
(* Constraints.                                                            *)

IS_VALUE_IN_RANGE(v, k) ==
    /\ v >= k.min /\ v <= k.max
    /\ k.step = 0 \/ (v - k.min) % k.step = 0

\* How far the value lies from the nearest step, and above or below it.
Remainder(v, k) ==
    LET over == (v - k.min) % k.step
    IN  IF 2 * over >= k.step THEN over - k.step ELSE over

IS_VALUE_IN_RANGE_WITH_TOLERANCE(v, k) ==
    /\ v >= k.min /\ v <= k.max
    /\ \/ k.step = 0
       \/ 10 * Remainder(v, k) \in -k.step .. k.step

ROUND_VALUE_TO_STEP(v, k) == v - Remainder(v, k)

IsInValidValues(v, k) == v \in ToSet(k.validValues)

IsInValidValuesRanges(v, k) ==
    \E r \in ToSet(k.validValuesRanges) : v >= r[1] /\ v <= r[2]

HAPUInt8CharacteristicIsValueFulfillingConstraints(chr, v) ==
    /\ IS_VALUE_IN_RANGE(v, chr.constraints)
    /\ \/ ~chr.apple
       \/ chr.constraints.validValues = <<>> /\ chr.constraints.validValuesRanges = <<>>
       \/ IsInValidValues(v, chr.constraints)
       \/ IsInValidValuesRanges(v, chr.constraints)

HAPFloatCharacteristicIsValueFulfillingConstraints(chr, v) ==
    CASE v = FLT_INF  -> chr.constraints.max = FLT_INF
      [] v = -FLT_INF -> chr.constraints.min = -FLT_INF
      [] OTHER        -> IS_VALUE_IN_RANGE_WITH_TOLERANCE(v, chr.constraints)

HAPFloatCharacteristicRoundValueToStep(chr, v) ==
    IF chr.constraints.step = 0 \/ v \in {FLT_INF, -FLT_INF} THEN v
    ELSE ROUND_VALUE_TO_STEP(v, chr.constraints)

IsLengthInRange(chr, numBytes) == numBytes <= chr.constraints.maxLength

-----------------------------------------------------------------------------
(* HAP<Format>CharacteristicHandleWrite: the value is checked, a float is   *)
(* rounded, and the application's handler decides (err is its answer).     *)
(* The result is the error and the value the application was given.        *)

Passed(ok, v, err) == [err   |-> IF ok THEN err ELSE "InvalidData",
                       value |-> v, called |-> ok]

HAPDataCharacteristicHandleWrite(chr, v, err) ==
    Passed(IsLengthInRange(chr, v.numBytes), v, err)

HAPBoolCharacteristicHandleWrite(chr, v, err) == Passed(v.n \in {0, 1}, v, err)

HAPUInt8CharacteristicHandleWrite(chr, v, err) ==
    Passed(HAPUInt8CharacteristicIsValueFulfillingConstraints(chr, v.n), v, err)

HAPUInt16CharacteristicHandleWrite(chr, v, err) ==
    Passed(IS_VALUE_IN_RANGE(v.n, chr.constraints), v, err)

HAPUInt32CharacteristicHandleWrite(chr, v, err) ==
    Passed(IS_VALUE_IN_RANGE(v.n, chr.constraints), v, err)

HAPUInt64CharacteristicHandleWrite(chr, v, err) ==
    Passed(IS_VALUE_IN_RANGE(v.n, chr.constraints), v, err)

HAPIntCharacteristicHandleWrite(chr, v, err) ==
    Passed(IS_VALUE_IN_RANGE(v.n, chr.constraints), v, err)

HAPFloatCharacteristicHandleWrite(chr, v, err) ==
    LET ok == HAPFloatCharacteristicIsValueFulfillingConstraints(chr, v.n)
    IN  Passed(ok, IF ok THEN [v EXCEPT !.n =
                                HAPFloatCharacteristicRoundValueToStep(chr, @)]
                         ELSE v, err)

HAPStringCharacteristicHandleWrite(chr, v, err) ==
    Passed(IsLengthInRange(chr, v.numBytes), v, err)

HAPTLV8CharacteristicHandleWrite(chr, v, err) == Passed(TRUE, v, err)

\* The value fulfils the constraints of its characteristic.
Fulfils(chr, v) ==
    CASE chr.format = "bool"  -> v.n \in {0, 1}
      [] chr.format = "uint8" ->
            HAPUInt8CharacteristicIsValueFulfillingConstraints(chr, v.n)
      [] chr.format \in {"uint16", "uint32", "uint64", "int"} ->
            IS_VALUE_IN_RANGE(v.n, chr.constraints)
      [] chr.format = "float" ->
            HAPFloatCharacteristicIsValueFulfillingConstraints(chr, v.n)
      [] chr.format \in {"string", "data"} -> IsLengthInRange(chr, v.numBytes)
      [] OTHER -> TRUE

\* HAP<Format>CharacteristicHandleRead: room is the space for the value.  The
\* application answers with err or with its value; a value that breaks the
\* constraints fails an assertion, and a string needs its terminator.
HAPStringCharacteristicHandleRead(v, err, room) ==
    IF room = 0 \/ (err = "None" /\ v.numBytes >= room) THEN "OutOfResources" ELSE err

HAPDataCharacteristicHandleRead(v, err, room) ==
    IF err = "None" /\ v.numBytes > room THEN "OutOfResources" ELSE err

HAPFloatCharacteristicHandleRead(chr, v) ==
    [v EXCEPT !.n = HAPFloatCharacteristicRoundValueToStep(chr, @)]
=============================================================================
