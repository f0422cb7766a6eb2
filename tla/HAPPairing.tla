------------------------------ MODULE HAPPairing ------------------------------
(***************************************************************************)
(* The pairing list: the kHAPKeyValueStoreDomain_Pairings domain of the    *)
(* key-value store, one entry per paired controller, and what the pairing  *)
(* procedures do to it.  A pairing is the controller's pairing identifier, *)
(* which stands for the long-term public key registered with it, and the   *)
(* admin bit of its permissions.                                           *)
(***************************************************************************)
EXTENDS Integers, FiniteSets, HAPKeyValueStore

CONSTANTS
    Controllers,   \* pairing identifiers of controllers
    Nobody,        \* an empty identifier
    MaxPairings    \* server->maxPairings

ASSUME PairingAssumption ==
    /\ Nobody \notin Controllers
    /\ MaxPairings \in Nat \ {0}

Slots == 0 .. MaxPairings - 1

Pairing == [id : Controllers, admin : BOOLEAN]
PairingStores == KVSDomain(Slots, Pairing)

-------------------------------------------------------------------------------
\* Faulty variants of operators below; the specification does not use them.

\* The pairings that are left without an admin stay.
CleanupPairingsNever(store) == store

-------------------------------------------------------------------------------
\* HAPPairingFind: the keys under which an identifier is stored, and the one
\* the enumeration stops at.
HAPPairingFind(store, id) == {k \in DOMAIN store : store[k].id = id}
PairingKey(store, id) == CHOOSE k \in HAPPairingFind(store, id) : TRUE

\* The slots Add Pairing M1 may take: the first key that holds no pairing.
FreeSlot(store) ==
    {k \in Slots \ DOMAIN store : \A j \in Slots : j < k => j \in DOMAIN store}

IsPaired(store) == DOMAIN store # {}

AdminFound(store) == \E k \in DOMAIN store : store[k].admin

\* HAPAccessoryServerCleanupPairings: without an admin every pairing goes.
CleanupPairings(store) == IF AdminFound(store) THEN store ELSE KVSPurged

-------------------------------------------------------------------------------
\* Add Pairing M1.  A known identifier that comes with its registered public key
\* gets the new permissions; an unknown one gets the first free slot.
AddUpdates(store, m) == m.sameKey /\ HAPPairingFind(store, m.id) # {}
AddCreates(store, m) == HAPPairingFind(store, m.id) = {} /\ FreeSlot(store) # {}
AddRefused(store, m) == ~AddUpdates(store, m) /\ ~AddCreates(store, m)

\* The list after the Set, and after the clean-up that follows an update.
AddPairingSet(store, m) ==
    LET key == IF AddUpdates(store, m) THEN PairingKey(store, m.id)
                                       ELSE CHOOSE k \in FreeSlot(store) : TRUE
    IN  IF AddRefused(store, m) THEN store
        ELSE KVSSet(store, key, [id |-> m.id, admin |-> m.admin])

AddPairing(store, m) ==
    IF AddUpdates(store, m) THEN CleanupPairings(AddPairingSet(store, m))
                            ELSE AddPairingSet(store, m)

\* Remove Pairing M2: the list after the Remove, and after the clean-up.  An
\* unknown identifier succeeds and changes nothing.
RemovePairingKey(store, id) ==
    IF HAPPairingFind(store, id) = {} THEN store
    ELSE KVSRemove(store, PairingKey(store, id))

RemovePairing(store, id) ==
    IF HAPPairingFind(store, id) = {} THEN store
    ELSE CleanupPairings(RemovePairingKey(store, id))
===============================================================================
