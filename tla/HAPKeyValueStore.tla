--------------------------- MODULE HAPKeyValueStore ---------------------------
(***************************************************************************)
(* One domain of the platform's key-value store, as the ADK uses it: a     *)
(* partial function from keys to values.  Get reports "found" exactly on   *)
(* the domain of the function.  Set and Remove take effect in one step (a  *)
(* temporary file is renamed, a file is unlinked).  PurgeDomain removes    *)
(* one key after the other in directory order, so that a power loss can    *)
(* leave any of the keys behind.                                           *)
(***************************************************************************)

\* HAPPlatformKeyValueStoreSet: creates or overwrites one key.
KVSSet(store, key, value) ==
    [k \in DOMAIN store \cup {key} |-> IF k = key THEN value ELSE store[k]]

\* The store reduced to some of its keys.
KVSRestrict(store, keys) == [k \in keys |-> store[k]]

\* HAPPlatformKeyValueStoreRemove: a missing key is not an error.
KVSRemove(store, key) == KVSRestrict(store, DOMAIN store \ {key})

\* HAPPlatformKeyValueStorePurgeDomain: what it leaves when it completes, and
\* what it may leave when it is cut off.
KVSPurged == [k \in {} |-> k]
KVSPartlyPurged(store) == {KVSRestrict(store, keys) : keys \in SUBSET DOMAIN store}

\* The contents a domain with these keys and values can have.
KVSDomain(Keys, Values) == UNION {[keys -> Values] : keys \in SUBSET Keys}
===============================================================================
