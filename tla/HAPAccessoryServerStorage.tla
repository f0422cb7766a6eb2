----------------------- MODULE HAPAccessoryServerStorage -----------------------
(***************************************************************************)
(* What the accessory server keeps in the key-value store besides its      *)
(* pairings: configuration number, firmware version, long-term secret key, *)
(* global state number (GSN) and broadcast parameters in the Configuration *)
(* domain "store", and the characteristics that may be broadcast in the    *)
(* list "broadcasts" of the CharacteristicConfiguration domain.  Operators *)
(* only; an operation that writes several keys is the sequence of contents *)
(* its writes leave, since power may be lost between any two of them.      *)
(***************************************************************************)
EXTENDS Integers, Sequences, FiniteSets, SequencesExt, HAPKeyValueStore

CONSTANTS UINT8_MAX, UINT16_MAX, UINT32_MAX,   \* widths of the integer types
          BroadcastsPerKey,                    \* 42 elements in the buffer of one key
          Intervals                            \* broadcast intervals

ASSUME StorageAssumption ==
    /\ UINT8_MAX \in Nat /\ UINT16_MAX \in Nat /\ UINT32_MAX \in Nat
    /\ 3 <= UINT8_MAX /\ UINT8_MAX <= UINT16_MAX /\ UINT16_MAX <= UINT32_MAX
    /\ UINT16_MAX % UINT8_MAX = 0 /\ UINT32_MAX % UINT16_MAX = 0
    /\ BroadcastsPerKey \in Nat \ {0}

\* What a key holds, or the default that is used when it is not found.
Stored(store, key, default) == IF key \in DOMAIN store THEN store[key] ELSE default

-------------------------------------------------------------------------------
\* The configuration number: kept in 32 bits, reported in 16, and in 8 over BLE.
\* HAPAccessoryServerGetCN stores the 1 it reports for a missing number.

StoredCN(store) == Stored(store, "CN", 1)
CNCreated(store) == KVSSet(store, "CN", StoredCN(store))
CN(store) == ((StoredCN(store) - 1) % UINT16_MAX) + 1

ShortCN(store) == ((CN(store) - 1) % UINT8_MAX) + 1

\* Faulty: the number stays at its maximum.
IncrementCNFaulty(store) ==
    KVSSet(store, "CN", IF StoredCN(store) = UINT32_MAX THEN UINT32_MAX
                        ELSE StoredCN(store) + 1)

IncrementCN(store) ==
    KVSSet(store, "CN", IF "CN" \notin DOMAIN store \/ store["CN"] = UINT32_MAX THEN 1
                        ELSE store["CN"] + 1)

-------------------------------------------------------------------------------
\* The GSN and the broadcast encryption key.

GSN(store) == Stored(store, "GSN", [gsn |-> 1, didIncrement |-> FALSE])
SetGSN(store, gsn, didIncrement) ==
    KVSSet(store, "GSN", [gsn |-> gsn, didIncrement |-> didIncrement])
Reconnected(store) == SetGSN(store, GSN(store).gsn, FALSE)

\* An expiration of zero says that there is no key.
Broadcast(store) == Stored(store, "Broadcast", [expiration |-> 0])
HasKey(store) == Broadcast(store).expiration # 0

\* HAPBLEAccessoryServerBroadcastGenerateKey: the key expires half the GSNs from now.
KeyLife == UINT16_MAX \div 2
KeyGenerated(store) ==
    LET end == GSN(store).gsn + KeyLife - 1
    IN  KVSSet(store, "Broadcast",
               [expiration |-> IF end > UINT16_MAX THEN end - UINT16_MAX ELSE end])
ExpireKey(store) == KVSSet(store, "Broadcast", [expiration |-> 0])

\* HAPBLEAccessoryServerIncrementGSN: the contents its two writes leave.
IncrementGSN(store) ==
    LET g == GSN(store).gsn
        kept == IF g = Broadcast(store).expiration THEN ExpireKey(store) ELSE store
    IN  <<kept, SetGSN(kept, IF g = UINT16_MAX THEN 1 ELSE g + 1, TRUE)>>

-------------------------------------------------------------------------------
\* The list of characteristics to broadcast, ascending by instance ID.

\* Where the loop over the list stops, and whether it stops at the characteristic.
Position(list, cid) == Cardinality({i \in DOMAIN list : list[i].cid < cid}) + 1

IsListed(list, cid) ==
    Position(list, cid) <= Len(list) /\ list[Position(list, cid)].cid = cid

\* HAPBLECharacteristicGetBroadcastConfiguration: zero says that it is disabled.
BroadcastInterval(list, cid) ==
    IF IsListed(list, cid) THEN list[Position(list, cid)].interval ELSE 0

\* numBytes >= sizeof bytes - 1 - 3: 2 bytes for the accessory, 3 for each element.
ListIsFull(list) == 2 + 3 * Len(list) >= 2 + 3 * BroadcastsPerKey + 1 - 1 - 3

\* HAPBLECharacteristicEnableBroadcastNotifications on a list that is not full.
EnableBroadcast(list, cid, interval) ==
    LET element == [cid |-> cid, interval |-> interval]
    IN  IF IsListed(list, cid) THEN ReplaceAt(list, Position(list, cid), element)
                               ELSE InsertAt(list, Position(list, cid), element)
CannotEnable(list, cid) == ~IsListed(list, cid) /\ ListIsFull(list)

DisableBroadcast(list, cid) ==
    IF IsListed(list, cid) THEN RemoveAt(list, Position(list, cid)) ELSE list

-------------------------------------------------------------------------------
\* Start of the server and reset.

\* Faulty: the version is stored before the work that depends on it.
HandleFirmwareUpdateFaulty(store, image, ble) ==
    LET a == KVSSet(store, "Version", image)
        b == IncrementCN(a)
        c == KVSRemove(b, "GSN")
    IN  IF ble THEN <<a, b, c, ExpireKey(c)>> ELSE <<a, b>>

\* HAPHandleFirmwareUpdate, and the version that PrepareStart stores after it; GSN and
\* key are those of the BLE transport.
HandleFirmwareUpdate(store, image, ble) ==
    LET a == IncrementCN(store)
        b == KVSRemove(a, "GSN")
        c == ExpireKey(b)
    IN  IF ble THEN <<a, b, c, KVSSet(c, "Version", image)>>
               ELSE <<a, KVSSet(a, "Version", image)>>

\* A firmware update is due.
Updates(store, image) == "Version" \in DOMAIN store /\ store["Version"] < image

VersionWrites(store, image, ble) ==
    IF "Version" \notin DOMAIN store THEN <<KVSSet(store, "Version", image)>>
    ELSE IF Updates(store, image) THEN HandleFirmwareUpdate(store, image, ble)
    ELSE <<store>>

\* A server of an older version does not start.
IsDowngrade(store, image) == "Version" \in DOMAIN store /\ store["Version"] > image

\* HAPAccessoryServerLoadLTSK drops pairings that were made with another key.
LoadLTSK(store) == KVSSet(store, "LTSK", TRUE)
===============================================================================
