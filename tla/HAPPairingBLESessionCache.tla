------------------------- MODULE HAPPairingBLESessionCache -------------------------
(***************************************************************************)
(* The cache of Pair Resume: a few elements that each keep a session, its  *)
(* pairing and the time stamp of its saving (0: invalid).  The time stamp  *)
(* overflows after MaxTimestamp savings of a long run.                     *)
(***************************************************************************)
EXTENDS Naturals

CONSTANTS
    NumElements,        \* numSessionCacheElements
    MaxTimestamp,       \* UINT32_MAX
    SessionIDs, CachedPairings

ASSUME CacheAssumption == NumElements \in Nat \ {0} /\ MaxTimestamp \in Nat /\ MaxTimestamp > 1

VARIABLES
    elements,           \* sessionCacheElements
    timestamp,          \* sessionCacheTimestamp
    newest              \* the session saved last

cacheVars == <<elements, timestamp, newest>>

Indices == 1 .. NumElements
NoElement == [session |-> "zero", pairing |-> 0, lastUsed |-> 0]
Holds(i, session) == elements[i].lastUsed # 0 /\ elements[i].session = session
Cached(session) == \E i \in Indices : Holds(i, session)

CacheInit ==
    /\ elements = [i \in Indices |-> NoElement]
    /\ timestamp = 0
    /\ newest = "zero"

Zeroed(indices) == [i \in Indices |-> IF i \in indices THEN NoElement ELSE elements[i]]

\* HAPPairingBLESessionCacheFetch: a session that is found is taken out.
Fetch(session) ==
    /\ \E i \in Indices :
        /\ Holds(i, session)
        /\ \A j \in 1 .. i - 1 : ~Holds(j, session)
        /\ elements' = Zeroed({i})
    /\ UNCHANGED <<timestamp, newest>>

\* The first of the least recently used elements, invalid ones before all others.
LeastRecentlyUsed ==
    CHOOSE i \in Indices :
        \A j \in Indices :
            \/ elements[i].lastUsed < elements[j].lastUsed
            \/ elements[i].lastUsed = elements[j].lastUsed /\ i <= j

\* The time stamps after an overflow: what is in the cache is older than what comes.
AgedFaulty(element) == element   \* Faulty: old time stamps stay

Aged(element) == [element EXCEPT !.lastUsed = IF @ = 0 THEN 0 ELSE 1]

\* HAPPairingBLESessionCacheSave of a session whose random ID is new.
Save(session, pairing) ==
    LET index == LeastRecentlyUsed
        overflow == timestamp = MaxTimestamp
        used == IF overflow THEN 2 ELSE timestamp + 1
    IN /\ ~Cached(session)
       /\ elements' = [i \in Indices |->
            IF i = index THEN [session |-> session, pairing |-> pairing, lastUsed |-> used]
            ELSE IF overflow THEN Aged(elements[i]) ELSE elements[i]]
       /\ timestamp' = used
       /\ newest' = session

\* HAPPairingBLESessionCacheInvalidateEntriesForPairing.
Invalidate(pairing) ==
    /\ elements' = Zeroed({i \in Indices : elements[i].pairing = pairing})
    /\ UNCHANGED <<timestamp, newest>>

\* PrepareStart of the BLE accessory server, and HAPAccessoryServerCleanupPairings once
\* no admin controller is left.
Clear ==
    /\ elements' = Zeroed(Indices)
    /\ UNCHANGED <<timestamp, newest>>

CacheNext ==
    \/ \E session \in SessionIDs :
        \/ Fetch(session)
        \/ \E pairing \in CachedPairings : Save(session, pairing)
    \/ \E pairing \in CachedPairings : Invalidate(pairing)
    \/ Clear

CacheSpec == CacheInit /\ [][CacheNext]_cacheVars
-----------------------------------------------------------------------------
\* The time stamps tell which session is the newest, also after an overflow: it has
\* the current time stamp and no other element has it.
NewestIsLast ==
    \A i \in Indices :
        /\ elements[i].lastUsed <= timestamp
        /\ elements[i].lastUsed = timestamp /\ timestamp # 0 => elements[i].session = newest
        /\ Holds(i, newest) => elements[i].lastUsed = timestamp

\* Saving a session never evicts the one that was saved just before, in a cache of
\* two elements or more: a controller that reconnects can resume.
NewestSurvives ==
    [][\A session \in SessionIDs :
        newest = session /\ newest' # session /\ Cached(session) /\ NumElements > 1
            => Cached(session)']_cacheVars
==================================================================================
