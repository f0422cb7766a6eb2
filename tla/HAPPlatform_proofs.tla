---------------------------- MODULE HAPPlatform_proofs ----------------------------
(***************************************************************************)
(* Theorems about the small state machines that the accessory server       *)
(* stands on: the Pair Resume cache, the TCP streams, the authentication   *)
(* coprocessor, the timer queue, and the key-value store with its          *)
(* implementation of the durable store.                                    *)
(***************************************************************************)
EXTENDS HAPPlatformKeyValueStore, HAPPairingBLESessionCache, HAPPlatformTCPStreamManager,
        HAPMFiHWAuth, HAPPlatformTimer, TLAPS, FiniteSetTheorems, SequenceTheorems,
        WellFoundedInduction

\* A set of natural numbers has a least one.
LEMMA LeastElement ==
    ASSUME NEW S \in SUBSET Nat, S # {}
    PROVE  \E n \in S : \A m \in S : n <= m
<1> DEFINE R == {p \in Nat \X Nat : p[1] < p[2]}
<1>1. IsWellFoundedOn(R, Nat)
  BY NatLessThanWellFounded DEF OpToRel
<1>2. PICK n \in S : \A m \in S : <<m, n>> \notin R
  BY <1>1, WFMin
<1>3. ASSUME NEW m \in S
      PROVE  n <= m
  <2>1. m \in Nat /\ n \in Nat /\ <<m, n>> \notin R
    BY <1>2
  <2> QED
    BY <2>1
<1> QED
  BY <1>3

-----------------------------------------------------------------------------------
\* The cache of Pair Resume.

Elements ==
    [session : SessionIDs \cup {"zero"}, pairing : CachedPairings \cup {0},
     lastUsed : 0 .. MaxTimestamp]

\* A session is in one element at most.
SessionsAreUnique ==
    \A i, j \in Indices :
        /\ elements[i].lastUsed # 0 /\ elements[j].lastUsed # 0
        /\ elements[i].session = elements[j].session
        => i = j

CacheInv ==
    /\ elements \in [Indices -> Elements]
    /\ timestamp \in 0 .. MaxTimestamp
    /\ SessionsAreUnique
    /\ NewestIsLast

\* There is a least recently used element, and no element is older.
LEMMA LeastRecentlyUsedIs ==
    ASSUME CacheInv
    PROVE  /\ LeastRecentlyUsed \in Indices
           /\ \A j \in Indices : elements[LeastRecentlyUsed].lastUsed <= elements[j].lastUsed
<1> DEFINE used == [i \in Indices |-> elements[i].lastUsed]
           T == {used[i] : i \in Indices}
           I(t) == {i \in Indices : used[i] = t}
<1>1. \A i \in Indices : used[i] \in Nat /\ used[i] = elements[i].lastUsed
  BY CacheAssumption DEF CacheInv, Elements
<1>2. 1 \in Indices /\ Indices \subseteq Nat
  BY CacheAssumption DEF Indices
<1> HIDE DEF used
<1>3. T \in SUBSET Nat /\ T # {}
  BY <1>1, <1>2
<1>4. PICK t \in T : \A u \in T : t <= u
  BY <1>3, LeastElement
<1>5. I(t) \in SUBSET Nat /\ I(t) # {}
  BY <1>2
<1>6. PICK i \in I(t) : \A j \in I(t) : i <= j
  BY <1>5, LeastElement
<1>7. ASSUME NEW j \in Indices
      PROVE  used[i] < used[j] \/ (used[i] = used[j] /\ i <= j)
  <2>1. used[i] = t /\ t \in Nat /\ used[j] \in Nat /\ t <= used[j]
    BY <1>1, <1>3, <1>4, <1>6
  <2>2. used[j] = t => i <= j
    BY <1>6
  <2> QED
    BY <2>1, <2>2
<1>8. \E k \in Indices : \A j \in Indices :
          \/ elements[k].lastUsed < elements[j].lastUsed
          \/ elements[k].lastUsed = elements[j].lastUsed /\ k <= j
  BY <1>1, <1>6, <1>7
<1>9. /\ LeastRecentlyUsed \in Indices
      /\ \A j \in Indices :
             \/ elements[LeastRecentlyUsed].lastUsed < elements[j].lastUsed
             \/ /\ elements[LeastRecentlyUsed].lastUsed = elements[j].lastUsed
                /\ LeastRecentlyUsed <= j
  BY <1>8 DEF LeastRecentlyUsed
<1>10. \A j \in Indices : elements[j].lastUsed \in Nat
  BY <1>1
<1> QED
  BY <1>9, <1>10

\* A step that only takes elements out keeps the invariant.
LEMMA ZeroedSound ==
    ASSUME CacheInv, NEW I \in SUBSET Indices, elements' = Zeroed(I),
           UNCHANGED <<timestamp, newest>>
    PROVE  CacheInv'
<1>1. 0 \in 0 .. MaxTimestamp
  BY CacheAssumption
<1>2. NoElement \in Elements /\ NoElement.lastUsed = 0
  BY <1>1 DEF NoElement, Elements
<1>3. \A i \in Indices : elements'[i] = IF i \in I THEN NoElement ELSE elements[i]
  BY DEF Zeroed
<1>4. elements' \in [Indices -> Elements] /\ timestamp' \in 0 .. MaxTimestamp
  BY <1>2 DEF Zeroed, CacheInv
<1>5. SessionsAreUnique'
  BY <1>2, <1>3 DEF CacheInv, SessionsAreUnique
<1>6. NewestIsLast'
  BY <1>2, <1>3 DEF CacheInv, NewestIsLast, Holds
<1> QED
  BY <1>4, <1>5, <1>6 DEF CacheInv

\* What a saved session is next to: elements keep their sessions, and are older.
LEMMA SaveSound ==
    ASSUME CacheInv, NEW session \in SessionIDs, NEW pairing \in CachedPairings,
           Save(session, pairing)
    PROVE  CacheInv'
<1> DEFINE index == LeastRecentlyUsed
           overflow == timestamp = MaxTimestamp
           used == IF overflow THEN 2 ELSE timestamp + 1
           saved == [session |-> session, pairing |-> pairing, lastUsed |-> used]
           Kept(i) == IF overflow THEN Aged(elements[i]) ELSE elements[i]
<1>1. used \in 1 .. MaxTimestamp
  BY CacheAssumption DEF CacheInv
<1>2. /\ ~Cached(session)
      /\ elements' = [i \in Indices |-> IF i = index THEN saved ELSE Kept(i)]
      /\ timestamp' = used /\ newest' = session
  BY DEF Save
<1>3. ASSUME NEW i \in Indices
      PROVE  /\ Kept(i) \in Elements /\ Kept(i).session = elements[i].session
             /\ Kept(i).lastUsed = 0 <=> elements[i].lastUsed = 0
             /\ Kept(i).lastUsed < used
  <2>1. elements[i] \in Elements /\ elements[i].lastUsed <= timestamp
    BY DEF CacheInv, NewestIsLast
  <2>2. 0 \in 0 .. MaxTimestamp /\ 1 \in 0 .. MaxTimestamp
    BY CacheAssumption
  <2> QED
    BY <2>1, <2>2, CacheAssumption DEF CacheInv, Elements, Aged
<1>4. saved \in Elements /\ saved.session = session /\ saved.lastUsed = used
  BY <1>1 DEF Elements
<1> HIDE DEF index, overflow, used, saved, Kept
<1>5. \A i \in Indices : elements'[i] = IF i = index THEN saved ELSE Kept(i)
  BY <1>2
<1>6. elements' \in [Indices -> Elements] /\ timestamp' \in 0 .. MaxTimestamp
  BY <1>1, <1>2, <1>3, <1>4
<1>7. \A i \in Indices : elements[i].lastUsed # 0 => elements[i].session # session
  BY <1>2 DEF Cached, Holds
<1>8. SessionsAreUnique'
  BY <1>3, <1>4, <1>5, <1>7 DEF CacheInv, SessionsAreUnique
<1>9. NewestIsLast'
  <2> SUFFICES ASSUME NEW i \in Indices
               PROVE  /\ elements'[i].lastUsed <= used
                      /\ elements'[i].lastUsed = used => elements'[i].session = session
                      /\ elements'[i].lastUsed # 0 /\ elements'[i].session = session
                         => elements'[i].lastUsed = used
    BY <1>2 DEF NewestIsLast, Holds
  <2>1. Kept(i).lastUsed \in Int /\ used \in Int
    BY <1>1, <1>3 DEF Elements
  <2> QED
    BY <1>3, <1>4, <1>5, <1>7, <2>1
<1> QED
  BY <1>6, <1>8, <1>9 DEF CacheInv

THEOREM CacheInvariance == CacheSpec => []CacheInv
<1>1. CacheInit => CacheInv
  <2> SUFFICES ASSUME CacheInit
               PROVE  CacheInv
    OBVIOUS
  <2>1. 0 \in 0 .. MaxTimestamp
    BY CacheAssumption
  <2>2. NoElement \in Elements /\ NoElement.lastUsed = 0
    BY <2>1 DEF NoElement, Elements
  <2>3. elements \in [Indices -> Elements] /\ timestamp = 0 /\ newest = "zero"
        /\ \A i \in Indices : elements[i] = NoElement
    BY <2>2 DEF CacheInit
  <2> QED
    BY <2>1, <2>2, <2>3 DEF CacheInv, SessionsAreUnique, NewestIsLast, Holds
<1>2. CacheInv /\ [CacheNext]_cacheVars => CacheInv'
  <2> SUFFICES ASSUME CacheInv, [CacheNext]_cacheVars
               PROVE  CacheInv'
    OBVIOUS
  <2>1. ASSUME NEW session \in SessionIDs, Fetch(session)
        PROVE  CacheInv'
    <3>1. PICK i \in Indices : elements' = Zeroed({i})
      BY <2>1 DEF Fetch
    <3>2. {i} \in SUBSET Indices /\ UNCHANGED <<timestamp, newest>>
      BY <2>1 DEF Fetch
    <3> QED
      BY <3>1, <3>2, ZeroedSound
  <2>2. ASSUME NEW session \in SessionIDs, NEW pairing \in CachedPairings, Save(session, pairing)
        PROVE  CacheInv'
    BY <2>2, SaveSound
  <2>3. ASSUME NEW pairing \in CachedPairings, Invalidate(pairing)
        PROVE  CacheInv'
    <3> DEFINE I == {i \in Indices : elements[i].pairing = pairing}
    <3>1. I \in SUBSET Indices /\ elements' = Zeroed(I) /\ UNCHANGED <<timestamp, newest>>
      BY <2>3 DEF Invalidate
    <3> HIDE DEF I
    <3> QED
      BY <3>1, ZeroedSound
  <2>4. CASE Clear
    <3>1. Indices \in SUBSET Indices /\ elements' = Zeroed(Indices)
          /\ UNCHANGED <<timestamp, newest>>
      BY <2>4 DEF Clear
    <3> QED
      BY <3>1, ZeroedSound
  <2>5. CASE UNCHANGED cacheVars
    BY <2>5 DEF cacheVars, CacheInv, SessionsAreUnique, NewestIsLast, Holds
  <2> QED
    BY <2>1, <2>2, <2>3, <2>4, <2>5 DEF CacheNext
<1> QED
  BY <1>1, <1>2, PTL DEF CacheSpec

\* The element of the newest session is not the least recently used one when there is
\* another: only one element has its time stamp, and all others have smaller ones.
LEMMA NewestIsNotEvicted ==
    ASSUME CacheInv, NumElements > 1, NEW i \in Indices, Holds(i, newest)
    PROVE  LeastRecentlyUsed # i
<1>1. elements[i].lastUsed = timestamp /\ timestamp # 0 /\ timestamp \in Nat
  BY CacheAssumption DEF CacheInv, NewestIsLast, Holds
<1>2. PICK j \in Indices : j # i
  <2>1. 1 \in Indices /\ 2 \in Indices
    BY CacheAssumption DEF Indices
  <2> QED
    BY <2>1
<1>3. elements[j].lastUsed # timestamp
  <2> SUFFICES ASSUME elements[j].lastUsed = timestamp
               PROVE  FALSE
    OBVIOUS
  <2>1. elements[j].session = newest /\ elements[i].session = newest
    BY <1>1 DEF CacheInv, NewestIsLast, Holds
  <2> QED
    BY <1>1, <1>2, <2>1 DEF CacheInv, SessionsAreUnique
<1>4. elements[j].lastUsed \in Nat /\ elements[j].lastUsed <= timestamp
  BY CacheAssumption DEF CacheInv, Elements, NewestIsLast
<1>5. elements[LeastRecentlyUsed].lastUsed <= elements[j].lastUsed
  BY LeastRecentlyUsedIs
<1> QED
  BY <1>1, <1>3, <1>4, <1>5

\* Saving a session never evicts the one that was saved just before, in a cache of two
\* elements or more, also when the time stamps overflow: a controller that reconnects can
\* resume.
THEOREM NewestAlwaysSurvives == CacheSpec => NewestSurvives
<1>1. ASSUME CacheInv, [CacheNext]_cacheVars, NEW session \in SessionIDs,
             newest = session, newest' # session, Cached(session), NumElements > 1
      PROVE  Cached(session)'
  <2>1. PICK saved \in SessionIDs, pairing \in CachedPairings : Save(saved, pairing)
    BY <1>1 DEF CacheNext, cacheVars, Fetch, Invalidate, Clear
  <2>2. PICK i \in Indices : Holds(i, session)
    BY <1>1 DEF Cached
  <2>3. LeastRecentlyUsed # i
    BY <1>1, <2>2, NewestIsNotEvicted
  <2>4. elements'[i] = elements[i] \/ elements'[i] = Aged(elements[i])
    BY <2>1, <2>3 DEF Save
  <2>5. elements[i] \in Elements
    BY <1>1 DEF CacheInv
  <2>6. /\ Aged(elements[i]).session = elements[i].session
        /\ elements[i].lastUsed # 0 => Aged(elements[i]).lastUsed # 0
    BY <2>5 DEF Aged, Elements
  <2> QED
    BY <2>2, <2>4, <2>6 DEF Cached, Holds
<1>2. CacheInv /\ [CacheNext]_cacheVars =>
          [\A session \in SessionIDs :
               newest = session /\ newest' # session /\ Cached(session) /\ NumElements > 1
               => Cached(session)']_cacheVars
  BY <1>1
<1> QED
  BY <1>2, CacheInvariance, PTL DEF CacheSpec, NewestSurvives

-----------------------------------------------------------------------------------
\* The TCP streams.

StreamStates == [open : BOOLEAN, interests : SUBSET Interests, bytes : BOOLEAN]

TCPTypeOK ==
    /\ tcpListener \in [open : BOOLEAN, armed : BOOLEAN]
    /\ tcpStreams \in [Streams -> StreamStates]
    /\ backlog \in Nat
    /\ ready \in SUBSET [owner : Streams \cup {0}, events : SUBSET Interests]

\* A callback that is due is the listener's or that of an open stream.
ReadyIsOpen == \A r \in ready : r.owner # 0 => tcpStreams[r.owner].open

TCPInv == TCPTypeOK /\ ArmedWhileThereIsRoom /\ ReadyIsOpen

LEMMA OpenStreamsFinite ==
    /\ IsFiniteSet(Streams) /\ Cardinality(Streams) = MaxTCPStreams
    /\ IsFiniteSet(OpenStreams) /\ Cardinality(OpenStreams) \in 0 .. MaxTCPStreams
    /\ Cardinality(OpenStreams) = MaxTCPStreams => OpenStreams = Streams
<1>1. IsFiniteSet(Streams) /\ Cardinality(Streams) = MaxTCPStreams
  BY StreamAssumption, FS_Interval DEF Streams
<1>2. OpenStreams \in SUBSET Streams
  BY DEF OpenStreams
<1>3. /\ IsFiniteSet(OpenStreams) /\ Cardinality(OpenStreams) <= MaxTCPStreams
      /\ Cardinality(OpenStreams) = MaxTCPStreams => OpenStreams = Streams
  BY <1>1, <1>2, FS_Subset
<1>4. Cardinality(OpenStreams) \in Nat
  BY <1>3, FS_CardinalityType
<1> QED
  BY <1>1, <1>3, <1>4, StreamAssumption

\* Streams that stay open or closed, and a listener that stays as it is.
LEMMA StreamsUnchanged ==
    ASSUME TCPInv, TCPTypeOK',
           \A i \in Streams : tcpStreams'[i].open = tcpStreams[i].open,
           UNCHANGED <<tcpListener, numTCPStreams>>,
           \A r \in ready' : r \in ready \/ (r.owner # 0 => tcpStreams[r.owner].open)
    PROVE  TCPInv'
<1>1. OpenStreams' = OpenStreams
  BY DEF OpenStreams
<1>2. ArmedWhileThereIsRoom'
  BY <1>1 DEF TCPInv, ArmedWhileThereIsRoom
<1>3. ReadyIsOpen'
  BY DEF TCPInv, TCPTypeOK, ReadyIsOpen
<1> QED
  BY <1>2, <1>3 DEF TCPInv

\* One stream changes, and stays open or closed.
LEMMA StreamChanged ==
    ASSUME TCPTypeOK, NEW i \in Streams, NEW x \in StreamStates, x.open = tcpStreams[i].open,
           tcpStreams' = [tcpStreams EXCEPT ![i] = x]
    PROVE  /\ tcpStreams' \in [Streams -> StreamStates]
           /\ \A j \in Streams : tcpStreams'[j].open = tcpStreams[j].open
BY DEF TCPTypeOK

LEMMA FreeStreamIs ==
    ASSUME TCPInv, numTCPStreams < MaxTCPStreams
    PROVE  FreeStream \in Streams \ OpenStreams
<1>1. Streams \ OpenStreams \in SUBSET Nat
  BY DEF Streams
<1>2. OpenStreams \subseteq Streams
  BY DEF OpenStreams
<1>3. Cardinality(OpenStreams) # MaxTCPStreams
  BY StreamAssumption DEF TCPInv, ArmedWhileThereIsRoom
<1>4. OpenStreams # Streams
  BY <1>3, OpenStreamsFinite
<1>5. \E i \in Streams \ OpenStreams : \A j \in Streams \ OpenStreams : i <= j
  BY <1>1, <1>2, <1>4, LeastElement
<1> QED
  BY <1>5 DEF FreeStream

LEMMA AcceptSound ==
    ASSUME TCPInv, AcceptTCPStream
    PROVE  TCPInv'
<1>1. /\ ready' \subseteq ready /\ \A r \in ready' : r \in ready
  BY DEF AcceptTCPStream, Deregistered
<1>2. CASE backlog > 0 /\ numTCPStreams < MaxTCPStreams
  <2> DEFINE x == [NoTCPStream EXCEPT !.open = TRUE]
             i == FreeStream
  <2>1. i \in Streams \ OpenStreams
    BY <1>2, FreeStreamIs
  <2>2. x \in StreamStates /\ x.open
    BY DEF NoTCPStream, StreamStates
  <2>3. /\ tcpStreams' = [tcpStreams EXCEPT ![i] = x] /\ numTCPStreams' = numTCPStreams + 1
        /\ backlog' = backlog - 1
        /\ tcpListener' = [tcpListener EXCEPT !.armed = @ /\ numTCPStreams' < MaxTCPStreams]
    BY <1>2 DEF AcceptTCPStream
  <2> HIDE DEF i, x
  <2>4. /\ numTCPStreams = Cardinality(OpenStreams) /\ numTCPStreams \in Nat
        /\ tcpListener.armed <=> tcpListener.open /\ numTCPStreams < MaxTCPStreams
        /\ tcpListener \in [open : BOOLEAN, armed : BOOLEAN] /\ backlog \in Nat
    BY OpenStreamsFinite DEF TCPInv, ArmedWhileThereIsRoom, TCPTypeOK
  <2>5. TCPTypeOK'
    <3>1. backlog' \in Nat
      BY <1>2, <2>3, <2>4
    <3>2. tcpListener' \in [open : BOOLEAN, armed : BOOLEAN]
      BY <2>3, <2>4
    <3>3. tcpStreams' \in [Streams -> StreamStates]
      BY <2>2, <2>3 DEF TCPInv, TCPTypeOK
    <3> QED
      BY <1>1, <3>1, <3>2, <3>3 DEF TCPInv, TCPTypeOK
  <2>6. OpenStreams' = OpenStreams \cup {i}
    BY <2>1, <2>2, <2>3 DEF OpenStreams, TCPInv, TCPTypeOK
  <2>7. numTCPStreams' = Cardinality(OpenStreams')
    BY <2>1, <2>3, <2>4, <2>6, OpenStreamsFinite, FS_AddElement
  <2>8. tcpListener'.armed <=> tcpListener'.open /\ numTCPStreams' < MaxTCPStreams
    BY <1>2, <2>3, <2>4
  <2>9. ReadyIsOpen'
    BY <1>1, <2>1, <2>2, <2>3 DEF ReadyIsOpen, TCPInv, TCPTypeOK
  <2> QED
    BY <2>5, <2>7, <2>8, <2>9 DEF TCPInv, ArmedWhileThereIsRoom
<1>3. CASE ~(backlog > 0 /\ numTCPStreams < MaxTCPStreams)
  <2>1. UNCHANGED <<tcpStreams, numTCPStreams, backlog, tcpListener>>
    BY <1>3 DEF AcceptTCPStream
  <2>2. TCPTypeOK'
    BY <1>1, <2>1 DEF TCPInv, TCPTypeOK
  <2> QED
    BY <1>1, <2>1, <2>2, StreamsUnchanged
<1> QED
  BY <1>2, <1>3

LEMMA CloseSound ==
    ASSUME TCPInv, NEW i \in Streams, CloseTCPStream(i)
    PROVE  TCPInv'
<1>1. /\ i \in OpenStreams /\ tcpStreams' = [tcpStreams EXCEPT ![i] = NoTCPStream]
      /\ numTCPStreams' = numTCPStreams - 1
      /\ tcpListener' = [tcpListener EXCEPT
              !.armed = @ \/ (tcpListener.open /\ MaxTCPStreams - numTCPStreams' = 1)]
      /\ ready' = {r \in ready : r.owner # i} /\ backlog' = backlog
  BY DEF CloseTCPStream, Deregistered
<1>2. NoTCPStream \in StreamStates /\ ~NoTCPStream.open
  BY DEF NoTCPStream, StreamStates
<1>3. /\ numTCPStreams = Cardinality(OpenStreams)
      /\ tcpListener.armed <=> tcpListener.open /\ numTCPStreams < MaxTCPStreams
      /\ tcpListener \in [open : BOOLEAN, armed : BOOLEAN]
  BY DEF TCPInv, ArmedWhileThereIsRoom, TCPTypeOK
<1>4. numTCPStreams \in 0 .. MaxTCPStreams
  BY <1>3, OpenStreamsFinite
<1>5. TCPTypeOK'
  BY <1>1, <1>2, <1>3 DEF TCPInv, TCPTypeOK
<1>6. OpenStreams' = OpenStreams \ {i}
  BY <1>1, <1>2 DEF OpenStreams, TCPInv, TCPTypeOK
<1>7. numTCPStreams' = Cardinality(OpenStreams')
  BY <1>1, <1>3, <1>6, OpenStreamsFinite, FS_RemoveElement
<1>8. tcpListener'.armed <=> tcpListener'.open /\ numTCPStreams' < MaxTCPStreams
  BY <1>1, <1>3, <1>4, StreamAssumption
<1>9. ReadyIsOpen'
  BY <1>1 DEF ReadyIsOpen, TCPInv, TCPTypeOK
<1> QED
  BY <1>5, <1>7, <1>8, <1>9 DEF TCPInv, ArmedWhileThereIsRoom

LEMMA TCPStep ==
    ASSUME TCPInv, [TCPNext]_tcpVars
    PROVE  TCPInv'
<1> USE DEF TCPInv
<1>1. CASE OpenListener
  <2>1. /\ OpenStreams = {} /\ tcpListener' = [open |-> TRUE, armed |-> TRUE]
        /\ UNCHANGED <<tcpStreams, numTCPStreams, backlog, ready>>
    BY <1>1 DEF OpenListener
  <2>2. numTCPStreams = 0
    BY <2>1, FS_EmptySet DEF ArmedWhileThereIsRoom
  <2> QED
    BY <2>1, <2>2, StreamAssumption
    DEF TCPTypeOK, ArmedWhileThereIsRoom, ReadyIsOpen, OpenStreams
<1>2. CASE CloseListener
  BY <1>2 DEF CloseListener, Deregistered, TCPTypeOK, ArmedWhileThereIsRoom, ReadyIsOpen,
              OpenStreams
<1>3. CASE Controllers
  <2>1. /\ UNCHANGED <<tcpListener, numTCPStreams, ready>> /\ backlog' \in Nat
        /\ \/ tcpStreams' = tcpStreams
           \/ \E i \in Streams : tcpStreams' = [tcpStreams EXCEPT ![i].bytes = TRUE]
    BY <1>3 DEF Controllers, TCPTypeOK, OpenStreams
  <2>4. ASSUME NEW i \in Streams, tcpStreams' = [tcpStreams EXCEPT ![i].bytes = TRUE]
        PROVE  /\ tcpStreams' \in [Streams -> StreamStates]
               /\ \A j \in Streams : tcpStreams'[j].open = tcpStreams[j].open
    <3> DEFINE x == [tcpStreams[i] EXCEPT !.bytes = TRUE]
    <3>1. tcpStreams' = [tcpStreams EXCEPT ![i] = x] /\ tcpStreams[i] \in StreamStates
      BY <2>4 DEF TCPTypeOK
    <3>2. x \in StreamStates /\ x.open = tcpStreams[i].open
      BY <3>1 DEF StreamStates
    <3> HIDE DEF x
    <3> QED
      BY <3>1, <3>2, StreamChanged
  <2>2. /\ tcpStreams' \in [Streams -> StreamStates]
        /\ \A i \in Streams : tcpStreams'[i].open = tcpStreams[i].open
    BY <2>1, <2>4 DEF TCPTypeOK
  <2>3. TCPTypeOK'
    BY <2>1, <2>2 DEF TCPTypeOK
  <2> QED
    BY <2>1, <2>2, <2>3, StreamsUnchanged
<1>4. CASE Collect
  <2>1. /\ UNCHANGED <<tcpListener, tcpStreams, numTCPStreams, backlog>>
        /\ ready' = {[owner |-> i, events |-> EventsOf(i)] :
                         i \in {i \in OpenStreams : EventsOf(i) # {}}}
             \cup (IF tcpListener.armed /\ backlog > 0 THEN {[owner |-> 0, events |-> {}]}
                   ELSE {})
    BY <1>4 DEF Collect
  <2>2. \A i \in OpenStreams : i \in Streams /\ EventsOf(i) \in SUBSET Interests
    BY DEF OpenStreams, EventsOf, TCPTypeOK, StreamStates
  <2>3. ASSUME NEW r \in ready'
        PROVE  /\ r \in [owner : Streams \cup {0}, events : SUBSET Interests]
               /\ r.owner # 0 => tcpStreams[r.owner].open
    <3>1. CASE r = [owner |-> 0, events |-> {}]
      BY <3>1
    <3>2. CASE \E i \in OpenStreams : r = [owner |-> i, events |-> EventsOf(i)]
      <4>1. PICK i \in OpenStreams : r = [owner |-> i, events |-> EventsOf(i)]
        BY <3>2
      <4>2. i \in Streams /\ tcpStreams[i].open /\ r.owner = i
        BY <4>1 DEF OpenStreams
      <4> QED
        BY <2>2, <4>1, <4>2
    <3> QED
      BY <2>1, <3>1, <3>2
  <2>4. TCPTypeOK'
    BY <2>1, <2>3 DEF TCPTypeOK
  <2> QED
    BY <2>1, <2>3, <2>4, StreamsUnchanged
<1>5. CASE AcceptTCPStream
  BY <1>5, AcceptSound
<1>6. ASSUME NEW i \in Streams, CloseTCPStream(i)
      PROVE  TCPInv'
  BY <1>6, CloseSound
<1>7. ASSUME NEW i \in Streams,
             \/ ReadTCPStream(i)
             \/ \E interests \in SUBSET Interests : UpdateInterests(i, interests)
      PROVE  TCPInv'
  <2> DEFINE v == tcpStreams[i]
  <2>1. /\ UNCHANGED <<tcpListener, numTCPStreams, ready, backlog>>
        /\ \/ tcpStreams' = [tcpStreams EXCEPT ![i] = [v EXCEPT !.bytes = FALSE]]
           \/ \E interests \in SUBSET Interests :
                  tcpStreams' = [tcpStreams EXCEPT ![i] = [v EXCEPT !.interests = interests]]
    BY <1>7 DEF ReadTCPStream, UpdateInterests, TCPTypeOK
  <2>4. v \in StreamStates
    BY DEF TCPTypeOK
  <2> HIDE DEF v
  <2>5. PICK x \in StreamStates : x.open = v.open /\ tcpStreams' = [tcpStreams EXCEPT ![i] = x]
    <3>1. [v EXCEPT !.bytes = FALSE] \in StreamStates /\ [v EXCEPT !.bytes = FALSE].open = v.open
      BY <2>4 DEF StreamStates
    <3>2. \A interests \in SUBSET Interests :
              /\ [v EXCEPT !.interests = interests] \in StreamStates
              /\ [v EXCEPT !.interests = interests].open = v.open
      BY <2>4 DEF StreamStates
    <3> QED
      BY <2>1, <3>1, <3>2
  <2>2. /\ tcpStreams' \in [Streams -> StreamStates]
        /\ \A j \in Streams : tcpStreams'[j].open = tcpStreams[j].open
    BY <2>5, StreamChanged DEF v
  <2>3. TCPTypeOK'
    BY <2>1, <2>2 DEF TCPTypeOK
  <2> QED
    BY <2>1, <2>2, <2>3, StreamsUnchanged
<1>8. ASSUME NEW r \in ready, DeliverEvent(r)
      PROVE  TCPInv'
  <2>1. /\ UNCHANGED <<tcpListener, tcpStreams, numTCPStreams, backlog>> /\ ready' \subseteq ready
    BY <1>8 DEF DeliverEvent
  <2>2. TCPTypeOK'
    BY <2>1 DEF TCPTypeOK
  <2> QED
    BY <2>1, <2>2, StreamsUnchanged
<1>9. CASE UNCHANGED tcpVars
  BY <1>9 DEF tcpVars, TCPTypeOK, ArmedWhileThereIsRoom, ReadyIsOpen, OpenStreams
<1> QED
  BY <1>1, <1>2, <1>3, <1>4, <1>5, <1>6, <1>7, <1>8, <1>9 DEF TCPNext

\* The listener is armed exactly if it is open and a stream is free, in whatever order
\* streams come and go, and the owner of a stream gets no event that it has given up since
\* the run loop collected it.
THEOREM StreamsAlwaysServed == TCPSpec => StreamsAreServed
<1>1. TCPInit => TCPInv
  <2> SUFFICES ASSUME TCPInit
               PROVE  TCPInv
    OBVIOUS
  <2>1. NoTCPStream \in StreamStates /\ ~NoTCPStream.open
    BY DEF NoTCPStream, StreamStates
  <2>2. OpenStreams = {}
    BY <2>1 DEF TCPInit, OpenStreams
  <2>3. ArmedWhileThereIsRoom
    BY <2>2, FS_EmptySet DEF TCPInit, ArmedWhileThereIsRoom
  <2> QED
    BY <2>1, <2>3 DEF TCPInit, TCPInv, TCPTypeOK, ReadyIsOpen
<1>2. TCPInv /\ [TCPNext]_tcpVars => TCPInv'
  BY TCPStep
<1>3. ASSUME TCPInv, [TCPNext]_tcpVars
      PROVE  OnlyWantedEvents
  <2> SUFFICES ASSUME delivered' # delivered, delivered' # NotDelivered
               PROVE  /\ tcpStreams[delivered'.stream].open
                      /\ delivered'.events \subseteq tcpStreams[delivered'.stream].interests
    BY DEF OnlyWantedEvents
  <2>1. PICK r \in ready : DeliverEvent(r)
    BY <1>3 DEF TCPNext, tcpVars, OpenListener, CloseListener, Controllers, Collect,
                AcceptTCPStream, CloseTCPStream, ReadTCPStream, UpdateInterests
  <2>2. /\ r.owner # 0
        /\ delivered' = [stream |-> r.owner, events |-> StillWanted(r)]
    BY <2>1 DEF DeliverEvent
  <2>3. tcpStreams[r.owner].open
    BY <1>3, <2>2 DEF TCPInv, ReadyIsOpen
  <2> QED
    BY <2>2, <2>3 DEF StillWanted
<1>4. TCPInv /\ [TCPNext]_tcpVars => [ArmedWhileThereIsRoom' /\ OnlyWantedEvents]_tcpVars
  BY <1>2, <1>3 DEF TCPInv
<1> QED
  BY <1>1, <1>2, <1>4, PTL DEF TCPSpec, StreamsAreServed

-----------------------------------------------------------------------------------
\* The authentication coprocessor.

Registers == Challenges \cup {"none"}

ChipStates ==
    [version : ProtocolVersions, powered : BOOLEAN, counter : 0 .. MaxEventCounter,
     challenge : Registers, response : Registers, status : {"none", "done", "error"}]

MFiInv ==
    /\ chip \in ChipStates
    /\ powerOffTimer \in BOOLEAN /\ untimed \in BOOLEAN
    /\ PowerIsTimed /\ SignatureIsFresh

\* A chip that is needed is on, and turning it on or asking it to sign changes nothing
\* else than its registers and its counter.
LEMMA PoweredOnIs ==
    ASSUME chip \in ChipStates
    PROVE  /\ PoweredOn(chip) \in ChipStates /\ PoweredOn(chip).powered
           /\ \A challenge \in Challenges :
                  /\ Challenged(challenge) \in ChipStates /\ Challenged(challenge).powered
                  /\ Signed(challenge) \in ChipStates /\ Signed(challenge).powered
                  /\ Signed(challenge).response = challenge
                  /\ Refused(challenge) \in ChipStates /\ Refused(challenge).powered
                  /\ Refused(challenge).status = "error"
<1>1. PoweredOn(chip) \in ChipStates /\ PoweredOn(chip).powered
  BY DEF PoweredOn, Cleared, ChipStates, Registers
<1>2. ASSUME NEW challenge \in Challenges
      PROVE  /\ Challenged(challenge) \in ChipStates /\ Challenged(challenge).powered
             /\ Signed(challenge) \in ChipStates /\ Signed(challenge).powered
             /\ Signed(challenge).response = challenge
             /\ Refused(challenge) \in ChipStates /\ Refused(challenge).powered
             /\ Refused(challenge).status = "error"
  <2> DEFINE c == Challenged(challenge)
             n == IF c.counter < MaxEventCounter THEN c.counter + 1 ELSE c.counter
  <2>1. c \in ChipStates /\ c.powered
    BY <1>1 DEF Challenged, ChipStates, Registers
  <2>2. n \in 0 .. MaxEventCounter
    BY <2>1, ChipAssumption DEF ChipStates
  <2>3. /\ Signed(challenge) = [c EXCEPT !.response = challenge, !.status = "done", !.counter = n]
        /\ Refused(challenge) = [c EXCEPT !.status = "error", !.counter = n]
    BY <2>1 DEF Signed, Refused, ChipStates
  <2> HIDE DEF c, n
  <2>4. /\ [c EXCEPT !.response = challenge, !.status = "done", !.counter = n] \in ChipStates
        /\ [c EXCEPT !.response = challenge, !.status = "done", !.counter = n].powered
        /\ [c EXCEPT !.response = challenge, !.status = "done", !.counter = n].response = challenge
    BY <2>1, <2>2 DEF ChipStates, Registers
  <2>5. /\ [c EXCEPT !.status = "error", !.counter = n] \in ChipStates
        /\ [c EXCEPT !.status = "error", !.counter = n].powered
        /\ [c EXCEPT !.status = "error", !.counter = n].status = "error"
    BY <2>1, <2>2 DEF ChipStates
  <2> QED
    BY <2>1, <2>3, <2>4, <2>5 DEF c
<1> QED
  BY <1>1, <1>2

\* A chip that is on after it was needed is timed as HAPMFiHWAuthEnable left it.
LEMMA EnableSound ==
    ASSUME MFiInv, NEW timersLeft \in BOOLEAN, HAPMFiHWAuthEnable(timersLeft),
           chip' \in ChipStates, chip'.powered
    PROVE  powerOffTimer' \in BOOLEAN /\ untimed' \in BOOLEAN /\ PowerIsTimed'
BY DEF MFiInv, HAPMFiHWAuthEnable, PowerIsTimed, ChipStates

LEMMA MFiStep ==
    ASSUME MFiInv, [MFiNext]_mfiVars
    PROVE  MFiInv' /\ EventsHaveFaded
<1> USE DEF MFiInv
<1>1. chip \in ChipStates /\ chip.powered \in BOOLEAN
  BY DEF ChipStates
<1>2. ASSUME NEW timersLeft \in BOOLEAN, Query(timersLeft)
      PROVE  MFiInv' /\ EventsHaveFaded
  <2>1. /\ HAPMFiHWAuthEnable(timersLeft) /\ chip' = PoweredOn(chip) /\ signature' = signature
    BY <1>2 DEF Query
  <2>2. chip' \in ChipStates /\ chip'.powered
    BY <1>1, <2>1, PoweredOnIs
  <2> QED
    BY <2>1, <2>2, EnableSound DEF SignatureIsFresh, EventsHaveFaded
<1>3. ASSUME NEW challenge \in Challenges, CreateSignature(challenge)
      PROVE  MFiInv' /\ EventsHaveFaded
  <2>1. /\ HAPMFiHWAuthEnable(TRUE) /\ chip' \in {Signed(challenge), Refused(challenge)}
    BY <1>3 DEF CreateSignature
  <2>2. chip' \in ChipStates /\ chip'.powered
    BY <1>1, <2>1, PoweredOnIs
  <2>3. SignatureIsFresh'
    <3>1. CASE SignatureGenerated(chip')
      <4>1. chip' = Signed(challenge)
        BY <1>1, <2>1, <3>1, PoweredOnIs DEF SignatureGenerated
      <4>2. signature' = [challenge |-> challenge, signed |-> chip'.response]
        BY <1>3, <3>1 DEF CreateSignature
      <4> QED
        BY <1>1, <4>1, <4>2, PoweredOnIs DEF SignatureIsFresh
    <3>2. CASE ~SignatureGenerated(chip')
      BY <1>3, <3>2 DEF CreateSignature, SignatureIsFresh
    <3> QED
      BY <3>1, <3>2
  <2> QED
    BY <2>1, <2>2, <2>3, EnableSound DEF EventsHaveFaded
<1>4. ASSUME NEW challenge \in Challenges, FailToSign(challenge)
      PROVE  MFiInv' /\ EventsHaveFaded
  <2>1. /\ HAPMFiHWAuthEnable(TRUE) /\ signature' = signature
        /\ chip' \in {PoweredOn(chip), Challenged(challenge), Signed(challenge)}
    BY <1>4 DEF FailToSign
  <2>2. chip' \in ChipStates /\ chip'.powered
    BY <1>1, <2>1, PoweredOnIs
  <2> QED
    BY <2>1, <2>2, EnableSound DEF SignatureIsFresh, EventsHaveFaded
<1>5. ASSUME NEW timersLeft \in BOOLEAN, NEW busFails \in BOOLEAN,
             PowerOffTimerExpired(busFails, timersLeft)
      PROVE  MFiInv' /\ EventsHaveFaded
  <2>1. powerOffTimer /\ chip.powered /\ ~untimed /\ signature' = signature
    BY <1>5 DEF PowerOffTimerExpired, PowerIsTimed
  <2>2. CASE IsSafeToRelease(busFails)
    <3>1. /\ powerOffTimer' = FALSE /\ chip' = [chip EXCEPT !.powered = FALSE]
          /\ misjudged' = busFails /\ untimed' = untimed
      BY <1>5, <2>2 DEF PowerOffTimerExpired
    <3>2. chip' \in ChipStates /\ ~chip'.powered
      BY <1>1, <3>1 DEF ChipStates
    <3> QED
      BY <2>1, <2>2, <3>1, <3>2
      DEF PowerIsTimed, SignatureIsFresh, EventsHaveFaded, IsSafeToRelease
  <2>3. CASE ~IsSafeToRelease(busFails)
    <3>1. powerOffTimer' = timersLeft /\ untimed' = ~timersLeft /\ chip' = chip
      BY <1>5, <2>3 DEF PowerOffTimerExpired
    <3> QED
      BY <1>1, <2>1, <3>1 DEF PowerIsTimed, SignatureIsFresh, EventsHaveFaded
  <2> QED
    BY <2>2, <2>3
<1>6. CASE ReleaseAndCreate
  BY <1>1, <1>6 DEF ReleaseAndCreate, PowerIsTimed, SignatureIsFresh, EventsHaveFaded
<1>7. CASE CountDown
  <2>1. /\ chip.counter > 0 /\ chip' = [chip EXCEPT !.counter = @ - 1]
        /\ UNCHANGED <<powerOffTimer, untimed, signature>>
    BY <1>7 DEF CountDown
  <2>2. chip.counter - 1 \in 0 .. MaxEventCounter
    BY <1>1, <2>1, ChipAssumption DEF ChipStates
  <2>3. chip' \in ChipStates /\ chip'.powered = chip.powered
    BY <1>1, <2>1, <2>2 DEF ChipStates
  <2> QED
    BY <2>1, <2>3 DEF PowerIsTimed, SignatureIsFresh, EventsHaveFaded
<1>8. CASE UNCHANGED mfiVars
  BY <1>8 DEF mfiVars, PowerIsTimed, SignatureIsFresh, EventsHaveFaded
<1> QED
  BY <1>2, <1>3, <1>4, <1>5, <1>6, <1>7, <1>8 DEF MFiNext

\* A chip that is on has its timer unless none was left, it is turned off only when its
\* event counter allows it or the bus fails, and a signature is that of the challenge it
\* was asked for.
THEOREM ChipAlwaysUsedWell == MFiSpec => ChipIsUsedWell
<1>1. MFiInit => MFiInv
  <2> SUFFICES ASSUME MFiInit
               PROVE  MFiInv
    OBVIOUS
  <2>1. 0 \in 0 .. MaxEventCounter
    BY ChipAssumption
  <2>2. chip \in ChipStates /\ ~chip.powered
    BY <2>1 DEF MFiInit, ChipStates, Registers
  <2> QED
    BY <2>2 DEF MFiInit, MFiInv, PowerIsTimed, SignatureIsFresh
<1>2. MFiInv /\ [MFiNext]_mfiVars => MFiInv'
  BY MFiStep
<1>3. MFiInv /\ [MFiNext]_mfiVars => [PowerIsTimed' /\ SignatureIsFresh' /\ EventsHaveFaded]_mfiVars
  BY MFiStep DEF MFiInv
<1> QED
  BY <1>1, <1>2, <1>3, PTL DEF MFiSpec, ChipIsUsedWell

-----------------------------------------------------------------------------------
\* The key-value store.

Steps == {"open", "write", "fsync", "directory", "rename", "renamed"}

SetOperations == [kind : {"set"}, file : Files, value : Values, step : Steps]
RemoveOperations ==
    [kind : {"remove"}, of : SUBSET Files, todo : SUBSET Files, unlinked : SUBSET Files]
Operations == {Idle} \cup SetOperations \cup RemoveOperations

\* What a file may be while v is being written: synchronised or not.
Drafts(v) == {Torn(v), Whole(v)}

\* The temporary file has the value that is being set from the time it is opened until it
\* is renamed, and a removal touches the files that it is asked to remove.
StoreInv ==
    /\ dir \in Directories /\ dirs \subseteq Directories /\ dir \in dirs
    /\ op \in Operations
    /\ op \in SetOperations =>
           (op.step \in {"write", "fsync", "directory", "rename"} =>
                dir.tmp[op.file] \in Drafts(op.value))
    /\ op \in RemoveOperations => op.todo \cup op.unlinked \subseteq op.of

LEMMA EntriesAre ==
    /\ Absent \in Entries /\ \A v \in Values : Drafts(v) \subseteq Entries
    /\ \A v \in Values : Whole(v) # Absent /\ Torn(v) # Absent
    /\ \A v : Whole(v).data = v /\ Torn(v).data = v /\ Whole(v).whole /\ ~Torn(v).whole
    /\ Absent.whole
<1>1. \A v \in Values : v # "none"
  BY StoreAssumption
<1> QED
  BY <1>1 DEF Absent, Whole, Torn, Entries, Drafts

LEMMA OperationsAre ==
    ASSUME NEW o \in Operations
    PROVE  /\ o.kind = "set" <=> o \in SetOperations
           /\ o.kind = "remove" <=> o \in RemoveOperations
           /\ o = Idle <=> o \notin SetOperations \cup RemoveOperations
           /\ o = Idle <=> o.kind = "idle"
BY DEF Operations, SetOperations, RemoveOperations, Idle

LEMMA ContinueIs ==
    ASSUME op \in SetOperations, NEW step \in Steps, Continue(step)
    PROVE  /\ op' \in SetOperations /\ op'.file = op.file /\ op'.value = op.value
           /\ op'.step = step
BY DEF Continue, SetOperations

\* A call that ends, whatever became of it.
LEMMA EndSound ==
    ASSUME StoreInv, op' = Idle, dir' \in dirs', dirs' \subseteq dirs
    PROVE  StoreInv'
<1>1. Idle \in Operations /\ Idle \notin SetOperations /\ Idle \notin RemoveOperations
  BY DEF Operations, SetOperations, RemoveOperations, Idle
<1> QED
  BY <1>1 DEF StoreInv

\* Changes to a directory.
LEMMA DirectoryChanged ==
    ASSUME NEW d \in Directories, NEW f \in Files, NEW e \in Entries
    PROVE  /\ [d EXCEPT !.tmp[f] = e] \in Directories
           /\ [d EXCEPT !.tmp[f] = e].file = d.file
           /\ [d EXCEPT !.tmp[f] = e].tmp = [d.tmp EXCEPT ![f] = e]
           /\ [d EXCEPT !.file[f] = e] \in Directories
           /\ [d EXCEPT !.file[f] = e].file = [d.file EXCEPT ![f] = e]
           /\ [d EXCEPT !.file[f] = e].tmp = d.tmp
BY DEF Directories

LEMMA FlushIs ==
    ASSUME NEW d \in Directories, op \in SetOperations
    PROVE  /\ Flush(d, op.file) \in Directories /\ Flush(d, op.file).file = d.file
           /\ Flush(d, op.file).tmp[op.file] = IF d.tmp[op.file] = Torn(op.value)
                                               THEN Whole(op.value) ELSE d.tmp[op.file]
<1>1. op.file \in Files /\ Whole(op.value) \in Entries
  BY EntriesAre DEF SetOperations, Drafts
<1>2. d.tmp \in [Files -> Entries]
  BY DEF Directories
<1> DEFINE f == op.file
           e == Whole(op.value)
           x == [d EXCEPT !.tmp[f] = e]
<1>3. Flush(d, f) = IF d.tmp[f] = Torn(op.value) THEN x ELSE d
  BY DEF Flush
<1>6. f \in Files /\ e \in Entries
  BY <1>1
<1> HIDE DEF f, e
<1>4. x \in Directories /\ x.file = d.file /\ x.tmp = [d.tmp EXCEPT ![f] = e]
  BY <1>6 DEF Directories
<1> HIDE DEF x
<1>5. x.tmp[f] = e
  BY <1>1, <1>2, <1>4 DEF f
<1> QED
  BY <1>3, <1>4, <1>5 DEF f, e

\* The abstract state: what the callers see of a directory and of an operation.
CallOf(o) ==
    CASE o.kind = "set" -> [files |-> {o.file}, value |-> o.value]
      [] o.kind = "remove" -> [files |-> o.of, value |-> "none"]
      [] OTHER -> [files |-> {}, value |-> "none"]

Stable(ds) == {Contents(d) : d \in ds}

StoreStep == [Store!SNext]_(Store!storeVars)

LEMMA CallIs ==
    /\ Call = CallOf(op) /\ Call' = CallOf(op') /\ CallOf(Idle) = Store!NoCall
    /\ \A o \in SetOperations : CallOf(o) = [files |-> {o.file}, value |-> o.value]
    /\ \A o \in RemoveOperations : CallOf(o) = [files |-> o.of, value |-> "none"]
<1>1. Call = CallOf(op) /\ Call' = CallOf(op')
  BY DEF Call, CallOf
<1>2. CallOf(Idle) = Store!NoCall
  BY DEF CallOf, Idle, Store!NoCall
<1>3. ASSUME NEW o \in SetOperations
      PROVE  CallOf(o) = [files |-> {o.file}, value |-> o.value]
  BY DEF CallOf, SetOperations
<1>4. ASSUME NEW o \in RemoveOperations
      PROVE  CallOf(o) = [files |-> o.of, value |-> "none"]
  BY DEF CallOf, RemoveOperations
<1> QED
  BY <1>1, <1>2, <1>3, <1>4

LEMMA ContentsSame ==
    ASSUME NEW d, NEW e, d.file = e.file
    PROVE  Contents(d) = Contents(e)
BY DEF Contents

LEMMA ContentsSet ==
    ASSUME NEW d \in Directories, NEW e \in Directories, NEW f \in Files, NEW v \in Values,
           NEW x \in Drafts(v), e.file = [d.file EXCEPT ![f] = x]
    PROVE  Contents(e) = Store!KVSSet(Contents(d), f, v)
<1>1. x # Absent /\ x.data = v
  BY EntriesAre DEF Drafts
<1>2. d.file \in [Files -> Entries] /\ e.file \in [Files -> Entries]
  BY DEF Directories
<1>3. \A g \in Files : e.file[g] = IF g = f THEN x ELSE d.file[g]
  BY <1>2
<1>4. DOMAIN Contents(e) = DOMAIN Contents(d) \cup {f}
  BY <1>1, <1>3 DEF Contents
<1>5. \A g \in DOMAIN Contents(e) : Contents(e)[g] = IF g = f THEN v ELSE Contents(d)[g]
  BY <1>1, <1>3 DEF Contents
<1>6. Contents(e) = [g \in DOMAIN Contents(e) |-> Contents(e)[g]]
  BY DEF Contents
<1> QED
  BY <1>4, <1>5, <1>6 DEF Store!KVSSet

LEMMA ContentsRemoved ==
    ASSUME NEW d \in Directories, NEW e \in Directories, NEW f \in Files,
           e.file = [d.file EXCEPT ![f] = Absent]
    PROVE  Contents(e) = Store!KVSRemove(Contents(d), f)
<1>2. d.file \in [Files -> Entries] /\ e.file \in [Files -> Entries]
  BY DEF Directories
<1>3. \A g \in Files : e.file[g] = IF g = f THEN Absent ELSE d.file[g]
  BY <1>2
<1>4. DOMAIN Contents(e) = DOMAIN Contents(d) \ {f}
  BY <1>3 DEF Contents
<1>5. \A g \in DOMAIN Contents(e) : Contents(e)[g] = Contents(d)[g]
  BY <1>3 DEF Contents
<1>6. Contents(e) = [g \in DOMAIN Contents(e) |-> Contents(e)[g]]
  BY DEF Contents
<1> QED
  BY <1>4, <1>5, <1>6 DEF Store!KVSRemove, Store!KVSRestrict

\* The abstract steps, in the terms of the directories.
LEMMA AbstractStutter ==
    ASSUME Contents(dir') = Contents(dir), Stable(dirs') = Stable(dirs),
           CallOf(op') = CallOf(op)
    PROVE  StoreStep
BY CallIs DEF StoreStep, Store!storeVars, Stable

LEMMA AbstractReturn ==
    ASSUME Contents(dir') = Contents(dir), op' = Idle,
           Stable(dirs') = Stable(dirs) \/ Stable(dirs') = {Contents(dir)}
    PROVE  StoreStep
<1>1. Call' = Store!NoCall
  BY CallIs
<1>2. Store!SReturn
  BY <1>1 DEF Store!SReturn, Stable
<1> QED
  BY <1>2 DEF StoreStep, Store!SNext

LEMMA AbstractSync ==
    ASSUME dir' = dir, dirs' = {dir}, CallOf(op') = CallOf(op)
    PROVE  StoreStep
<1>1. Store!SSync
  BY CallIs DEF Store!SSync
<1> QED
  BY <1>1 DEF StoreStep, Store!SNext

LEMMA AbstractChange ==
    ASSUME NEW f \in Files, f \in CallOf(op).files, CallOf(op') = CallOf(op),
           dirs' = dirs \cup {dir'},
           Contents(dir') = IF CallOf(op).value = "none"
                            THEN Store!KVSRemove(Contents(dir), f)
                            ELSE Store!KVSSet(Contents(dir), f, CallOf(op).value)
    PROVE  StoreStep
<1>1. Stable(dirs') = Stable(dirs) \cup {Contents(dir')}
  BY DEF Stable
<1>2. Store!SChange(f)
  BY <1>1, CallIs DEF Store!SChange, Stable
<1> QED
  BY <1>2 DEF StoreStep, Store!SNext

LEMMA AbstractCall ==
    ASSUME op = Idle, dir' = dir, dirs' = dirs, CallOf(op') \in Store!Calls
    PROVE  StoreStep
<1>1. Store!SCall
  BY CallIs DEF Store!SCall
<1> QED
  BY <1>1 DEF StoreStep, Store!SNext

\* A step of Set goes on with a directory of its own making.
LEMMA ContinueSound ==
    ASSUME StoreInv, op \in SetOperations, NEW step \in Steps, Continue(step),
           dir' \in Directories, dirs' \subseteq Directories, dir' \in dirs',
           step \in {"write", "fsync", "directory", "rename"} =>
               dir'.tmp[op.file] \in Drafts(op.value)
    PROVE  StoreInv' /\ CallOf(op') = CallOf(op)
<1>1. /\ op' \in SetOperations /\ op'.file = op.file /\ op'.value = op.value
      /\ op'.step = step
  BY ContinueIs
<1>2. op' \in Operations /\ op' \notin RemoveOperations
  BY <1>1 DEF Operations, SetOperations, RemoveOperations
<1>3. StoreInv'
  BY <1>1, <1>2 DEF StoreInv
<1> QED
  BY <1>1, <1>3, CallIs

LEMMA SetStepIs ==
    ASSUME StoreInv, NEW step, SetStep(step)
    PROVE  /\ op \in SetOperations /\ op.step = step /\ op.file \in Files /\ op.value \in Values
           /\ dir \in Directories /\ dirs \subseteq Directories /\ dir \in dirs
           /\ step \in {"write", "fsync", "directory", "rename"} =>
                  dir.tmp[op.file] \in Drafts(op.value)
<1>1. op \in SetOperations /\ op.step = step
  BY OperationsAre DEF StoreInv, SetStep
<1> QED
  BY <1>1 DEF StoreInv, SetOperations

LEMMA FailSetSound ==
    ASSUME StoreInv, NEW step, FailSet(step)
    PROVE  StoreInv' /\ StoreStep
<1>1. op' = Idle /\ dir' = dir /\ dirs' = dirs
  BY DEF FailSet
<1>2. StoreInv'
  BY <1>1, EndSound DEF StoreInv
<1> QED
  BY <1>1, <1>2, AbstractReturn

LEMMA OpenSound ==
    ASSUME StoreInv, OpenTemporary
    PROVE  StoreInv' /\ StoreStep
<1>1. SetStep("open")
  BY DEF OpenTemporary
<1>2. /\ op \in SetOperations /\ op.file \in Files /\ op.value \in Values
      /\ dir \in Directories /\ dirs \subseteq Directories /\ dir \in dirs
  BY <1>1, SetStepIs
<1>3. CASE CanOpen(op.file)
  <2> DEFINE f == op.file
             x == Torn(op.value)
  <2>1. dir' = [dir EXCEPT !.tmp[f] = x] /\ dirs' = dirs \cup {dir'} /\ Continue("write")
    BY <1>3 DEF OpenTemporary, Unsynced
  <2>2. f \in Files /\ x \in Entries /\ x \in Drafts(op.value)
    BY <1>2, EntriesAre DEF Drafts
  <2> HIDE DEF f, x
  <2>3. /\ dir' \in Directories /\ dir'.file = dir.file
        /\ dir'.tmp = [dir.tmp EXCEPT ![f] = x]
    BY <1>2, <2>1, <2>2 DEF Directories
  <2>4. dir'.tmp[f] = x
    BY <1>2, <2>2, <2>3 DEF Directories
  <2>5. "write" \in Steps
    BY DEF Steps
  <2>6. StoreInv' /\ CallOf(op') = CallOf(op)
    BY <1>2, <2>1, <2>2, <2>3, <2>4, <2>5, ContinueSound DEF f
  <2>7. Contents(dir') = Contents(dir)
    BY <2>3, ContentsSame
  <2>8. Stable(dirs') = Stable(dirs)
    BY <1>2, <2>1, <2>7 DEF Stable
  <2> QED
    BY <2>6, <2>7, <2>8, AbstractStutter
<1>4. CASE ~CanOpen(op.file)
  <2>1. op' = Idle /\ dir' = dir /\ dirs' = dirs
    BY <1>4 DEF OpenTemporary
  <2>2. StoreInv'
    BY <1>2, <2>1, EndSound
  <2> QED
    BY <2>1, <2>2, AbstractReturn
<1> QED
  BY <1>3, <1>4

LEMMA WriteTemporarySound ==
    ASSUME StoreInv, WriteTemporary
    PROVE  StoreInv' /\ StoreStep
<1>1. SetStep("write") /\ Continue("fsync") /\ dir' = dir /\ dirs' = dirs /\ "fsync" \in Steps
  BY DEF WriteTemporary, Steps
<1>2. /\ op \in SetOperations /\ dir \in Directories /\ dirs \subseteq Directories /\ dir \in dirs
      /\ dir.tmp[op.file] \in Drafts(op.value)
  BY <1>1, SetStepIs
<1>3. StoreInv' /\ CallOf(op') = CallOf(op)
  BY <1>1, <1>2, ContinueSound
<1> QED
  BY <1>1, <1>3, AbstractStutter

LEMMA SyncTemporarySound ==
    ASSUME StoreInv, SyncTemporary
    PROVE  StoreInv' /\ StoreStep
<1>1. SetStep("fsync") /\ Continue("directory") /\ "directory" \in Steps
  BY DEF SyncTemporary, Steps
<1>2. /\ op \in SetOperations /\ dir \in Directories /\ dirs \subseteq Directories /\ dir \in dirs
      /\ dir.tmp[op.file] \in Drafts(op.value)
  BY <1>1, SetStepIs
<1>3. CASE dir' = Flush(dir, op.file) /\ dirs' = {Flush(d, op.file) : d \in dirs}
  <2>1. \A d \in dirs : /\ Flush(d, op.file) \in Directories
                        /\ Contents(Flush(d, op.file)) = Contents(d)
    BY <1>2, FlushIs, ContentsSame
  <2>2. dir' \in Directories /\ dirs' \subseteq Directories /\ dir' \in dirs'
    BY <1>2, <1>3, <2>1
  <2>3. dir'.tmp[op.file] \in Drafts(op.value)
    BY <1>2, <1>3, FlushIs DEF Drafts
  <2>4. StoreInv' /\ CallOf(op') = CallOf(op)
    BY <1>1, <1>2, <2>2, <2>3, ContinueSound
  <2>5. Contents(dir') = Contents(dir)
    BY <1>2, <1>3, <2>1
  <2>6. Stable(dirs') = Stable(dirs)
    BY <1>3, <2>1 DEF Stable
  <2> QED
    BY <2>4, <2>5, <2>6, AbstractStutter
<1>4. CASE dir' = dir /\ dirs' = dirs
  <2>1. StoreInv' /\ CallOf(op') = CallOf(op)
    BY <1>1, <1>2, <1>4, ContinueSound
  <2> QED
    BY <1>4, <2>1, AbstractStutter
<1> QED
  BY <1>3, <1>4 DEF SyncTemporary

LEMMA SyncDirectorySound ==
    ASSUME StoreInv, SyncDirectory
    PROVE  StoreInv' /\ StoreStep
<1>1. SetStep("directory") /\ Continue("rename") /\ dir' = dir /\ dirs' = {dir}
      /\ "rename" \in Steps
  BY DEF SyncDirectory, Synced, Steps
<1>2. /\ op \in SetOperations /\ dir \in Directories
      /\ dir.tmp[op.file] \in Drafts(op.value)
  BY <1>1, SetStepIs
<1>3. StoreInv' /\ CallOf(op') = CallOf(op)
  BY <1>1, <1>2, ContinueSound
<1> QED
  BY <1>1, <1>3, AbstractSync

LEMMA RenameSound ==
    ASSUME StoreInv, Rename
    PROVE  StoreInv' /\ StoreStep
<1> DEFINE f == op.file
           x == dir.tmp[f]
<1>1. /\ SetStep("rename") /\ Continue("renamed") /\ "renamed" \in Steps
      /\ dir' = [dir EXCEPT !.file[f] = x, !.tmp[f] = Absent] /\ dirs' = dirs \cup {dir'}
  BY DEF Rename, Unsynced, Steps
<1>2. /\ op \in SetOperations /\ dir \in Directories /\ dirs \subseteq Directories
      /\ x \in Drafts(op.value) /\ f \in Files /\ op.value \in Values
  BY <1>1, SetStepIs
<1>3. x \in Entries /\ Absent \in Entries
  BY <1>2, EntriesAre
<1> HIDE DEF x, f
<1>4. dir' \in Directories /\ dir'.file = [dir.file EXCEPT ![f] = x]
  BY <1>1, <1>2, <1>3 DEF Directories
<1>5. StoreInv' /\ CallOf(op') = CallOf(op)
  BY <1>1, <1>2, <1>4, ContinueSound
<1>6. Contents(dir') = Store!KVSSet(Contents(dir), f, op.value)
  BY <1>2, <1>4, ContentsSet
<1>7. f \in CallOf(op).files /\ CallOf(op).value = op.value /\ op.value # "none"
  BY <1>2, CallIs, StoreAssumption DEF f
<1> QED
  BY <1>1, <1>2, <1>5, <1>6, <1>7, AbstractChange

LEMMA SyncRenamedSound ==
    ASSUME StoreInv, SyncRenamed
    PROVE  StoreInv' /\ StoreStep
<1>1. op' = Idle /\ dir' = dir /\ dirs' = {dir}
  BY DEF SyncRenamed, Synced
<1>2. StoreInv'
  BY <1>1, EndSound DEF StoreInv
<1>3. Stable(dirs') = {Contents(dir)}
  BY <1>1 DEF Stable
<1> QED
  BY <1>1, <1>2, <1>3, AbstractReturn

LEMMA RemovingIs ==
    ASSUME StoreInv, Removing
    PROVE  /\ op \in RemoveOperations /\ op.of \subseteq Files /\ op.todo \cup op.unlinked \subseteq op.of
           /\ dir \in Directories /\ dirs \subseteq Directories /\ dir \in dirs
<1>1. op \in RemoveOperations
  BY OperationsAre DEF StoreInv, Removing
<1> QED
  BY <1>1 DEF StoreInv, RemoveOperations

\* A removal goes on with fewer files to remove.
LEMMA RemovalSound ==
    ASSUME StoreInv, op \in RemoveOperations, NEW t \in SUBSET op.of, NEW u \in SUBSET op.of,
           op' = [op EXCEPT !.todo = t, !.unlinked = u],
           dir' \in Directories, dirs' \subseteq Directories, dir' \in dirs'
    PROVE  StoreInv' /\ CallOf(op') = CallOf(op)
<1>1. /\ op' \in RemoveOperations /\ op'.of = op.of /\ op'.todo = t /\ op'.unlinked = u
  BY DEF RemoveOperations
<1>2. op' \in Operations /\ op' \notin SetOperations
  BY <1>1 DEF Operations, SetOperations, RemoveOperations
<1>3. StoreInv'
  BY <1>1, <1>2 DEF StoreInv
<1> QED
  BY <1>1, <1>3, CallIs

LEMMA UnlinkSound ==
    ASSUME StoreInv, NEW f \in Files, Unlink(f)
    PROVE  StoreInv' /\ StoreStep
<1>1. /\ Removing /\ f \in op.todo /\ dir' = [dir EXCEPT !.file[f] = Absent]
      /\ dirs' = dirs \cup {dir'} /\ op' = [op EXCEPT !.todo = @ \ {f}, !.unlinked = {f}]
  BY DEF Unlink, Unsynced
<1>2. /\ op \in RemoveOperations /\ op.of \subseteq Files /\ op.todo \cup op.unlinked \subseteq op.of
      /\ dir \in Directories /\ dirs \subseteq Directories
  BY <1>1, RemovingIs
<1>3. Absent \in Entries
  BY EntriesAre
<1>4. dir' \in Directories /\ dir'.file = [dir.file EXCEPT ![f] = Absent]
  BY <1>1, <1>2, <1>3 DEF Directories
<1> DEFINE t == op.todo \ {f}
           u == {f}
<1>5. t \in SUBSET op.of /\ u \in SUBSET op.of /\ op' = [op EXCEPT !.todo = t, !.unlinked = u]
  BY <1>1, <1>2
<1>9. dirs' \subseteq Directories /\ dir' \in dirs'
  BY <1>1, <1>2, <1>4
<1> HIDE DEF t, u
<1>6. StoreInv' /\ CallOf(op') = CallOf(op)
  BY <1>2, <1>4, <1>5, <1>9, RemovalSound
<1>7. f \in CallOf(op).files /\ CallOf(op).value = "none"
  BY <1>1, <1>2, CallIs
<1>8. Contents(dir') = Store!KVSRemove(Contents(dir), f)
  BY <1>2, <1>4, ContentsRemoved
<1> QED
  BY <1>1, <1>6, <1>7, <1>8, AbstractChange

LEMMA SyncUnlinkedSound ==
    ASSUME StoreInv, NEW f \in Files, SyncUnlinked(f)
    PROVE  StoreInv' /\ StoreStep
<1>1. /\ Removing /\ dir' = dir /\ (dirs' = {dir} \/ dirs' = dirs)
      /\ op' = [op EXCEPT !.unlinked = {}]
  BY DEF SyncUnlinked, Synced
<1>2. /\ op \in RemoveOperations /\ op.of \subseteq Files /\ op.todo \cup op.unlinked \subseteq op.of
      /\ dir \in Directories /\ dirs \subseteq Directories /\ dir \in dirs
  BY <1>1, RemovingIs
<1> DEFINE t == op.todo
           u == {}
<1>3. t \in SUBSET op.of /\ u \in SUBSET op.of /\ op' = [op EXCEPT !.todo = t, !.unlinked = u]
  BY <1>1, <1>2 DEF RemoveOperations
<1>4. dir' \in Directories /\ dirs' \subseteq Directories /\ dir' \in dirs'
  BY <1>1, <1>2
<1> HIDE DEF t, u
<1>5. StoreInv' /\ CallOf(op') = CallOf(op)
  BY <1>2, <1>3, <1>4, RemovalSound
<1> QED
  BY <1>1, <1>5, AbstractSync, AbstractStutter

LEMMA EndsSound ==
    ASSUME StoreInv, EndRemove \/ Kill
    PROVE  StoreInv' /\ StoreStep
<1>1. op' = Idle /\ dir' = dir /\ dirs' = dirs
  BY DEF EndRemove, Kill
<1>2. StoreInv'
  BY <1>1, EndSound DEF StoreInv
<1> QED
  BY <1>1, <1>2, AbstractReturn

LEMMA PowerLossSound ==
    ASSUME StoreInv, PowerLoss
    PROVE  StoreInv' /\ StoreStep
<1>1. PICK d \in dirs : dir' = d /\ dirs' = {d}
  BY DEF PowerLoss
<1>2. op' = Idle
  BY DEF PowerLoss
<1>3. StoreInv'
  BY <1>1, <1>2, EndSound
<1>4. /\ Contents(dir') \in Stable(dirs) /\ Stable(dirs') = {Contents(dir')}
      /\ Call' = Store!NoCall
  BY <1>1, <1>2, CallIs DEF Stable
<1>5. Store!SPowerLoss
  BY <1>4 DEF Store!SPowerLoss, Stable
<1> QED
  BY <1>3, <1>5 DEF StoreStep, Store!SNext

\* A call begins.
LEMMA CallSound ==
    ASSUME StoreInv, op = Idle, dir' = dir, dirs' = dirs,
           \/ /\ op' \in SetOperations /\ op'.step = "open"
           \/ /\ op' \in RemoveOperations /\ op'.todo \cup op'.unlinked \subseteq op'.of
    PROVE  StoreInv' /\ StoreStep
<1>1. /\ op' \in Operations
      /\ ~(op' \in SetOperations /\ op' \in RemoveOperations)
  BY DEF Operations, SetOperations, RemoveOperations
<1>2. StoreInv'
  BY <1>1 DEF StoreInv
<1>3. CallOf(op') \in Store!Calls
  BY CallIs DEF Store!Calls, SetOperations, RemoveOperations
<1> QED
  BY <1>2, <1>3, AbstractCall

LEMMA StoreStepSound ==
    ASSUME StoreInv, [KVSNext]_kvsVars
    PROVE  StoreInv' /\ StoreStep
<1>1. ASSUME NEW f \in Files, NEW v \in Values, CallSet(f, v)
      PROVE  StoreInv' /\ StoreStep
  <2>1. /\ op = Idle /\ dir' = dir /\ dirs' = dirs
        /\ op' \in SetOperations /\ op'.step = "open"
    BY <1>1 DEF CallSet, SetOperations, Steps
  <2> QED
    BY <2>1, CallSound
<1>2. ASSUME NEW f \in Files, CallRemove(f)
      PROVE  StoreInv' /\ StoreStep
  <2>1. /\ op = Idle /\ dir' = dir /\ dirs' = dirs
        /\ op' \in RemoveOperations /\ op'.todo \cup op'.unlinked \subseteq op'.of
    BY <1>2 DEF CallRemove, RemoveOperations
  <2> QED
    BY <2>1, CallSound
<1>3. ASSUME NEW domain \in Domains, CallPurge(domain)
      PROVE  StoreInv' /\ StoreStep
  <2> DEFINE of == {f \in Files : f[1] = domain}
  <2>1. Enumerated(dir, domain) \subseteq of
    BY DEF Enumerated, Contents
  <2>2. /\ op = Idle /\ dir' = dir /\ dirs' = dirs
        /\ op' = [kind |-> "remove", of |-> of, todo |-> Enumerated(dir, domain), unlinked |-> {}]
    BY <1>3 DEF CallPurge
  <2>3. of \in SUBSET Files
    OBVIOUS
  <2> HIDE DEF of
  <2>4. op' \in RemoveOperations /\ op'.todo \cup op'.unlinked \subseteq op'.of
    BY <2>1, <2>2, <2>3 DEF RemoveOperations
  <2> QED
    BY <2>2, <2>4, CallSound
<1>4. CASE UNCHANGED kvsVars
  <2>1. op' = op /\ dir' = dir /\ dirs' = dirs
    BY <1>4 DEF kvsVars
  <2> QED
    BY <2>1, AbstractStutter DEF StoreInv
<1> QED
  BY <1>1, <1>2, <1>3, <1>4, FailSetSound, OpenSound, WriteTemporarySound, SyncTemporarySound,
     SyncDirectorySound, RenameSound, SyncRenamedSound, UnlinkSound, SyncUnlinkedSound,
     EndsSound, PowerLossSound
  DEF KVSNext

LEMMA StoreInitSound ==
    ASSUME KVSInit
    PROVE  StoreInv /\ Store!SInit
<1>1. EmptyDirectory \in Directories /\ \A f \in Files : EmptyDirectory.file[f] = Absent
  BY EntriesAre DEF EmptyDirectory, Directories
<1>2. dir = EmptyDirectory /\ dirs = {dir} /\ op = Idle
  BY DEF KVSInit
<1>3. Idle \in Operations /\ Idle \notin SetOperations /\ Idle \notin RemoveOperations
  BY DEF Operations, SetOperations, RemoveOperations, Idle
<1>4. StoreInv
  BY <1>1, <1>2, <1>3 DEF StoreInv
<1>5. DOMAIN Contents(dir) = {}
  BY <1>1, <1>2 DEF Contents
<1>6. Contents(dir) \in [{} -> Values] /\ {} \in SUBSET Files
  BY <1>5 DEF Contents
<1>7. Contents(dir) \in Store!KVSDomain(Files, Values)
  BY <1>6 DEF Store!KVSDomain
<1>8. Stable(dirs) = {Contents(dir)}
  BY <1>2 DEF Stable
<1> QED
  BY <1>2, <1>4, <1>7, <1>8, CallIs DEF Store!SInit, Stable

THEOREM StoreInvariance == KVSSpec => []StoreInv
<1>1. KVSInit => StoreInv
  BY StoreInitSound
<1>2. StoreInv /\ [KVSNext]_kvsVars => StoreInv'
  BY StoreStepSound
<1> QED
  BY <1>1, <1>2, PTL DEF KVSSpec

\* The POSIX store implements the durable store that every other module relies on, whatever
\* system call fails and wherever the process is killed or power is lost: a call changes
\* its own keys only, one at a time, to the value it brings or not at all, and what was
\* synchronised stays.
THEOREM StoreAlwaysDurable == KVSSpec => StoreIsDurable
<1>1. KVSInit => Store!SInit
  BY StoreInitSound
<1>2. StoreInv /\ [KVSNext]_kvsVars => [Store!SNext]_(Store!storeVars)
  BY StoreStepSound DEF StoreStep
<1> QED
  BY <1>1, <1>2, StoreInvariance, PTL DEF KVSSpec, StoreIsDurable, Store!SSpec

-----------------------------------------------------------------------------------
\* What the callers were promised, as long as an fsync that fails leaves a file torn only
\* if the caller is told.

FilesSound == FilesAreWhole /\ PromisesAreKept

\* The operation under way has been promised, and what it synchronised is whole.
OperationSound ==
    /\ op \in SetOperations =>
           /\ Whole(op.value) \in promised[op.file]
           /\ op.step \in {"directory", "rename"} => dir.tmp[op.file] = Whole(op.value)
           /\ op.step = "renamed" => dir.file[op.file] = Whole(op.value)
    /\ op \in RemoveOperations =>
           /\ \A f \in op.of : Absent \in promised[f]
           /\ \A f \in op.unlinked : dir.file[f] = Absent

PromiseInv ==
    /\ promised \in [Files -> SUBSET Entries]
    /\ LeftoversAreOverwritten /\ FilesSound /\ OperationSound

\* Directories whose files were there before.
LEMMA FilesStay ==
    ASSUME StoreInv, PromiseInv, dir' \in dirs',
           \A d \in dirs' : \E e \in dirs : d.file = e.file,
           \A f \in Files : promised[f] \subseteq promised'[f]
    PROVE  FilesSound'
BY DEF PromiseInv, FilesSound, FilesAreWhole, PromisesAreKept, KVSGet

\* A new directory, with another file under a name.
LEMMA FileChanges ==
    ASSUME StoreInv, PromiseInv, NEW f \in Files, NEW x, x.whole, x \in promised[f],
           dir'.file = [dir.file EXCEPT ![f] = x], dirs' = dirs \cup {dir'},
           promised' = promised
    PROVE  FilesSound'
<1>1. dir.file \in [Files -> Entries] /\ dir \in dirs
  BY DEF StoreInv, Directories
<1>2. \A g \in Files : dir'.file[g] = IF g = f THEN x ELSE dir.file[g]
  BY <1>1
<1> QED
  BY <1>1, <1>2 DEF PromiseInv, FilesSound, FilesAreWhole, PromisesAreKept, KVSGet

\* A change that is synchronised: from now on nothing else is found.
LEMMA FileSettled ==
    ASSUME StoreInv, PromiseInv, NEW f \in Files, NEW x \in Entries, dir.file[f] = x,
           dir' = dir, dirs' = {dir}, promised' = [promised EXCEPT ![f] = {x}]
    PROVE  FilesSound' /\ promised' \in [Files -> SUBSET Entries]
<1>1. promised \in [Files -> SUBSET Entries] /\ dir \in dirs
  BY DEF PromiseInv, StoreInv
<1>2. \A g \in Files : promised'[g] = IF g = f THEN {x} ELSE promised[g]
  BY <1>1
<1> QED
  BY <1>1, <1>2 DEF PromiseInv, FilesSound, FilesAreWhole, PromisesAreKept, KVSGet

LEMMA IdlePromises ==
    ASSUME op' = Idle
    PROVE  OperationSound'
BY DEF OperationSound, SetOperations, RemoveOperations, Idle

\* A step that ends a call and leaves what is promised.
LEMMA EndPromises ==
    ASSUME StoreInv, PromiseInv, op' = Idle, dir' \in dirs', dirs' \subseteq dirs,
           promised' = promised, privileged' = privileged, refused' = refused
    PROVE  PromiseInv'
<1>1. FilesSound'
  BY FilesStay
<1> QED
  BY <1>1, IdlePromises DEF PromiseInv, LeftoversAreOverwritten

\* A step of Set under way.
LEMMA ContinuePromises ==
    ASSUME StoreInv, PromiseInv, op \in SetOperations, NEW step \in Steps, Continue(step),
           promised' = promised, privileged' = privileged, refused' = refused, FilesSound',
           step \in {"directory", "rename"} => dir'.tmp[op.file] = Whole(op.value),
           step = "renamed" => dir'.file[op.file] = Whole(op.value)
    PROVE  PromiseInv'
<1>1. /\ op' \in SetOperations /\ op'.file = op.file /\ op'.value = op.value
      /\ op'.step = step /\ op' \notin RemoveOperations
  BY ContinueIs DEF SetOperations, RemoveOperations
<1>2. OperationSound'
  BY <1>1 DEF OperationSound, PromiseInv
<1> QED
  BY <1>2 DEF PromiseInv, LeftoversAreOverwritten

LEMMA SetPromises ==
    ASSUME ~FileSyncFails, StoreInv, PromiseInv,
           \/ OpenTemporary \/ WriteTemporary \/ SyncTemporary \/ SyncDirectory \/ Rename
           \/ SyncRenamed
    PROVE  PromiseInv'
<1>1. \A step : SetStep(step) =>
          /\ op \in SetOperations /\ op.step = step /\ op.file \in Files /\ op.value \in Values
          /\ dir \in Directories /\ dirs \subseteq Directories /\ dir \in dirs
          /\ step \in {"write", "fsync", "directory", "rename"} =>
                 dir.tmp[op.file] \in Drafts(op.value)
  BY SetStepIs
<1>2. CASE OpenTemporary
  <2>1. /\ op \in SetOperations /\ op.file \in Files /\ op.value \in Values
        /\ dir \in Directories /\ dir \in dirs /\ promised' = promised
        /\ privileged' = privileged
    BY <1>1, <1>2 DEF OpenTemporary
  <2>2. CASE CanOpen(op.file)
    <3> DEFINE x == Torn(op.value)
    <3>1. /\ dir' = [dir EXCEPT !.tmp[op.file] = x] /\ dirs' = dirs \cup {dir'}
          /\ Continue("write") /\ refused' = refused /\ "write" \in Steps
      BY <1>2, <2>2 DEF OpenTemporary, Unsynced, Steps
    <3> HIDE DEF x
    <3>2. dir'.file = dir.file
      BY <2>1, <3>1 DEF Directories
    <3>3. FilesSound'
      BY <2>1, <3>1, <3>2, FilesStay
    <3> QED
      BY <2>1, <3>1, <3>3, ContinuePromises
  <2>3. CASE ~CanOpen(op.file)
    <3>1. op' = Idle /\ refused' = TRUE /\ dir' = dir /\ dirs' = dirs /\ ~privileged
      BY <1>2, <2>3 DEF OpenTemporary, CanOpen
    <3>2. FilesSound'
      BY <2>1, <3>1, FilesStay
    <3> QED
      BY <2>1, <3>1, <3>2, IdlePromises DEF PromiseInv, LeftoversAreOverwritten
  <2> QED
    BY <2>2, <2>3
<1>3. CASE WriteTemporary
  <2>1. /\ op \in SetOperations /\ dir \in dirs /\ Continue("fsync") /\ "fsync" \in Steps
        /\ UNCHANGED <<dir, dirs, privileged, promised, refused>>
    BY <1>1, <1>3 DEF WriteTemporary, Steps
  <2>2. FilesSound'
    BY <2>1, FilesStay
  <2> QED
    BY <2>1, <2>2, ContinuePromises
<1>4. CASE SyncTemporary
  <2>1. /\ op \in SetOperations /\ dir \in dirs /\ dirs \subseteq Directories
        /\ dir.tmp[op.file] \in Drafts(op.value)
        /\ Continue("directory") /\ "directory" \in Steps
        /\ dir' = Flush(dir, op.file) /\ dirs' = {Flush(d, op.file) : d \in dirs}
        /\ UNCHANGED <<privileged, promised, refused>>
    BY <1>1, <1>4 DEF SyncTemporary, Steps
  <2>2. \A d \in dirs : Flush(d, op.file).file = d.file
    BY <2>1, FlushIs
  <2>3. FilesSound'
    BY <2>1, <2>2, FilesStay
  <2>4. dir'.tmp[op.file] = Whole(op.value)
    BY <2>1, FlushIs DEF Drafts
  <2> QED
    BY <2>1, <2>3, <2>4, ContinuePromises
<1>5. CASE SyncDirectory
  <2>1. /\ op \in SetOperations /\ op.step = "directory" /\ dir \in dirs
        /\ Continue("rename") /\ "rename" \in Steps /\ dir' = dir /\ dirs' = {dir}
        /\ UNCHANGED <<privileged, promised, refused>>
    BY <1>1, <1>5 DEF SyncDirectory, Synced, Steps
  <2>2. FilesSound'
    BY <2>1, FilesStay
  <2>3. dir'.tmp[op.file] = Whole(op.value)
    BY <2>1 DEF PromiseInv, OperationSound
  <2> QED
    BY <2>1, <2>2, <2>3, ContinuePromises
<1>6. CASE Rename
  <2> DEFINE f == op.file
             x == dir.tmp[f]
  <2>1. /\ op \in SetOperations /\ op.step = "rename" /\ f \in Files /\ dir \in Directories
        /\ Continue("renamed") /\ "renamed" \in Steps
        /\ dir' = [dir EXCEPT !.file[f] = x, !.tmp[f] = Absent] /\ dirs' = dirs \cup {dir'}
        /\ UNCHANGED <<privileged, promised, refused>>
    BY <1>1, <1>6 DEF Rename, Unsynced, Steps
  <2>2. x = Whole(op.value) /\ x \in promised[f] /\ x.whole
    BY <2>1, EntriesAre DEF PromiseInv, OperationSound
  <2> HIDE DEF x, f
  <2>3. dir'.file = [dir.file EXCEPT ![f] = x] /\ dir.file \in [Files -> Entries]
    BY <2>1 DEF Directories
  <2>4. FilesSound'
    BY <2>1, <2>2, <2>3, FileChanges
  <2>5. dir'.file[op.file] = Whole(op.value)
    BY <2>1, <2>2, <2>3 DEF f
  <2> QED
    BY <2>1, <2>4, <2>5, ContinuePromises
<1>7. CASE SyncRenamed
  <2> DEFINE f == op.file
             x == Whole(op.value)
  <2>1. /\ op \in SetOperations /\ op.step = "renamed" /\ f \in Files /\ op.value \in Values
        /\ op' = Idle /\ dir' = dir /\ dirs' = {dir}
        /\ promised' = [promised EXCEPT ![f] = {x}]
        /\ UNCHANGED <<privileged, refused>>
    BY <1>1, <1>7 DEF SyncRenamed, Synced
  <2>2. dir.file[f] = x /\ x \in Entries
    BY <2>1, EntriesAre DEF PromiseInv, OperationSound, Drafts
  <2> HIDE DEF x, f
  <2>3. FilesSound' /\ promised' \in [Files -> SUBSET Entries]
    BY <2>1, <2>2, FileSettled
  <2> QED
    BY <2>1, <2>3, IdlePromises DEF PromiseInv, LeftoversAreOverwritten
<1> QED
  BY <1>2, <1>3, <1>4, <1>5, <1>6, <1>7

\* A removal goes on: what it is asked to remove stays promised to be absent.
LEMMA RemovalPromises ==
    ASSUME op \in RemoveOperations, NEW t \in SUBSET op.of, NEW u \in SUBSET op.of,
           op' = [op EXCEPT !.todo = t, !.unlinked = u],
           \A f \in op.of : Absent \in promised'[f], \A f \in u : dir'.file[f] = Absent
    PROVE  OperationSound'
<1>1. op' \in RemoveOperations /\ op'.of = op.of /\ op'.unlinked = u
  BY DEF RemoveOperations
<1>2. op' \notin SetOperations
  BY <1>1 DEF SetOperations, RemoveOperations
<1> QED
  BY <1>1, <1>2 DEF OperationSound

LEMMA UnlinkPromises ==
    ASSUME StoreInv, PromiseInv, NEW f \in Files, Unlink(f)
    PROVE  PromiseInv'
<1>1. /\ Removing /\ f \in op.todo /\ dir' = [dir EXCEPT !.file[f] = Absent]
      /\ dirs' = dirs \cup {dir'} /\ op' = [op EXCEPT !.todo = @ \ {f}, !.unlinked = {f}]
      /\ promised' = promised /\ privileged' = privileged /\ refused' = refused
  BY DEF Unlink, Unsynced
<1>2. /\ op \in RemoveOperations /\ op.todo \cup op.unlinked \subseteq op.of
      /\ dir \in Directories
  BY <1>1, RemovingIs
<1>3. \A g \in op.of : Absent \in promised[g]
  BY <1>2 DEF PromiseInv, OperationSound
<1>4. dir'.file = [dir.file EXCEPT ![f] = Absent] /\ dir'.file[f] = Absent /\ Absent.whole
  BY <1>1, <1>2, EntriesAre DEF Directories
<1>5. FilesSound'
  BY <1>1, <1>2, <1>3, <1>4, FileChanges
<1> DEFINE t == op.todo \ {f}
           u == {f}
<1>6. t \in SUBSET op.of /\ u \in SUBSET op.of /\ op' = [op EXCEPT !.todo = t, !.unlinked = u]
  BY <1>1, <1>2
<1>7. \A g \in u : dir'.file[g] = Absent
  BY <1>4
<1> HIDE DEF t, u
<1>8. OperationSound'
  BY <1>1, <1>2, <1>3, <1>6, <1>7, RemovalPromises
<1> QED
  BY <1>1, <1>5, <1>8 DEF PromiseInv, LeftoversAreOverwritten

LEMMA SyncUnlinkedPromises ==
    ASSUME StoreInv, PromiseInv, NEW f \in Files, SyncUnlinked(f)
    PROVE  PromiseInv'
<1>1. /\ Removing /\ op.unlinked = {f} /\ dir' = dir /\ op' = [op EXCEPT !.unlinked = {}]
      /\ \/ dirs' = {dir} /\ promised' = [promised EXCEPT ![f] = {Absent}]
         \/ dirs' = dirs /\ promised' = promised
      /\ privileged' = privileged /\ refused' = refused
  BY DEF SyncUnlinked, Synced
<1>2. /\ op \in RemoveOperations /\ op.todo \cup op.unlinked \subseteq op.of /\ op.of \subseteq Files
      /\ dir \in dirs
  BY <1>1, RemovingIs
<1>3. /\ \A g \in op.of : Absent \in promised[g]
      /\ dir.file[f] = Absent /\ Absent \in Entries /\ promised \in [Files -> SUBSET Entries]
  BY <1>1, <1>2, EntriesAre DEF PromiseInv, OperationSound
<1>4. FilesSound' /\ promised' \in [Files -> SUBSET Entries]
  <2>1. CASE dirs' = {dir} /\ promised' = [promised EXCEPT ![f] = {Absent}]
    BY <1>1, <1>3, <2>1, FileSettled
  <2>2. CASE dirs' = dirs /\ promised' = promised
    BY <1>1, <1>2, <1>3, <2>2, FilesStay
  <2> QED
    BY <1>1, <2>1, <2>2
<1>5. \A g \in op.of : Absent \in promised'[g]
  BY <1>1, <1>2, <1>3
<1> DEFINE t == op.todo
           u == {}
<1>6. t \in SUBSET op.of /\ u \in SUBSET op.of /\ op' = [op EXCEPT !.todo = t, !.unlinked = u]
  BY <1>1, <1>2 DEF RemoveOperations
<1>7. \A g \in u : dir'.file[g] = Absent
  OBVIOUS
<1> HIDE DEF t, u
<1>8. OperationSound'
  BY <1>2, <1>5, <1>6, <1>7, RemovalPromises
<1> QED
  BY <1>1, <1>4, <1>8 DEF PromiseInv, LeftoversAreOverwritten

\* A call begins: what it brings is promised from now on, beside what was.
LEMMA CallPromises ==
    ASSUME StoreInv, PromiseInv, op = Idle,
           \/ \E f \in Files, v \in Values : CallSet(f, v)
           \/ \E f \in Files : CallRemove(f)
           \/ \E domain \in Domains : CallPurge(domain)
    PROVE  PromiseInv'
<1>1. promised \in [Files -> SUBSET Entries] /\ dir \in dirs
  BY DEF PromiseInv, StoreInv
<1>2. Absent \in Entries /\ \A v \in Values : Whole(v) \in Entries
  BY EntriesAre DEF Drafts
<1>3. /\ dir' = dir /\ dirs' = dirs /\ privileged' = privileged /\ refused' = refused
      /\ promised' \in [Files -> SUBSET Entries]
      /\ \A f \in Files : promised[f] \subseteq promised'[f]
  <2>1. ASSUME NEW f \in Files, NEW v \in Values, CallSet(f, v)
        PROVE  <1>3!:
    <3> DEFINE p == promised[f] \cup {Whole(v)}
    <3>1. promised' = [promised EXCEPT ![f] = p] /\ p \in SUBSET Entries /\ promised[f] \subseteq p
      BY <1>1, <1>2, <2>1 DEF CallSet
    <3> HIDE DEF p
    <3> QED
      BY <1>1, <2>1, <3>1 DEF CallSet
  <2>2. ASSUME NEW f \in Files, CallRemove(f)
        PROVE  <1>3!:
    <3> DEFINE p == promised[f] \cup {Absent}
    <3>1. promised' = [promised EXCEPT ![f] = p] /\ p \in SUBSET Entries /\ promised[f] \subseteq p
      BY <1>1, <1>2, <2>2 DEF CallRemove
    <3> HIDE DEF p
    <3> QED
      BY <1>1, <2>2, <3>1 DEF CallRemove
  <2>3. ASSUME NEW domain \in Domains, CallPurge(domain)
        PROVE  <1>3!:
    BY <1>1, <1>2, <2>3 DEF CallPurge
  <2> QED
    BY <2>1, <2>2, <2>3
<1>4. FilesSound'
  BY <1>1, <1>3, FilesStay
<1>5. OperationSound'
  <2>1. ASSUME NEW f \in Files, NEW v \in Values, CallSet(f, v)
        PROVE  OperationSound'
    <3>1. op' \notin RemoveOperations /\ op'.file = f /\ op'.value = v /\ op'.step = "open"
      BY <2>1 DEF CallSet, RemoveOperations
    <3>2. Whole(v) \in promised'[f]
      BY <1>1, <2>1 DEF CallSet
    <3> QED
      BY <3>1, <3>2 DEF OperationSound
  <2>2. ASSUME NEW f \in Files, CallRemove(f)
        PROVE  OperationSound'
    <3>1. op' \notin SetOperations /\ op'.of = {f} /\ op'.unlinked = {}
      BY <2>2 DEF CallRemove, SetOperations
    <3>2. Absent \in promised'[f]
      BY <1>1, <2>2 DEF CallRemove
    <3> QED
      BY <3>1, <3>2 DEF OperationSound
  <2>3. ASSUME NEW domain \in Domains, CallPurge(domain)
        PROVE  OperationSound'
    <3>1. op' \notin SetOperations /\ op'.of = {f \in Files : f[1] = domain} /\ op'.unlinked = {}
      BY <2>3 DEF CallPurge, SetOperations
    <3>2. \A f \in Files : f[1] = domain => Absent \in promised'[f]
      BY <2>3 DEF CallPurge
    <3> QED
      BY <3>1, <3>2 DEF OperationSound
  <2> QED
    BY <2>1, <2>2, <2>3
<1> QED
  BY <1>3, <1>4, <1>5 DEF PromiseInv, LeftoversAreOverwritten

LEMMA PromiseStep ==
    ASSUME ~FileSyncFails, StoreInv, PromiseInv, [KVSNext]_kvsVars
    PROVE  PromiseInv'
<1>1. dir \in dirs
  BY DEF StoreInv
<1>2. ASSUME \/ \E step : FailSet(step)
             \/ EndRemove \/ Kill \/ PowerLoss
      PROVE  PromiseInv'
  <2>1. /\ op' = Idle /\ promised' = promised /\ privileged' = privileged /\ refused' = refused
        /\ dir' \in dirs' /\ dirs' \subseteq dirs
    BY <1>1, <1>2 DEF FailSet, EndRemove, Kill, PowerLoss
  <2> QED
    BY <2>1, EndPromises
<1>3. CASE UNCHANGED kvsVars
  BY <1>3 DEF kvsVars, PromiseInv, LeftoversAreOverwritten, FilesSound, FilesAreWhole,
     PromisesAreKept, KVSGet, OperationSound
<1>4. ASSUME \/ \E f \in Files, v \in Values : CallSet(f, v)
             \/ \E f \in Files : CallRemove(f)
             \/ \E domain \in Domains : CallPurge(domain)
      PROVE  PromiseInv'
  <2>1. op = Idle
    BY <1>4 DEF CallSet, CallRemove, CallPurge
  <2> QED
    BY <1>4, <2>1, CallPromises
<1> QED
  BY <1>2, <1>3, <1>4, SetPromises, UnlinkPromises, SyncUnlinkedPromises DEF KVSNext

\* A file holds what its callers were promised, whole, through every kill and power loss
\* and whichever system call fails, except for the fsync of the temporary file, whose
\* failure HAPPlatformFileManagerWriteFile only logs.
THEOREM FilesAlwaysKept == ASSUME ~FileSyncFails PROVE KVSSpec => []FilesAreKept
<1>1. KVSInit => PromiseInv
  <2>1. SUFFICES ASSUME KVSInit PROVE PromiseInv
    OBVIOUS
  <2>2. /\ dir = EmptyDirectory /\ dirs = {dir} /\ op = Idle /\ refused = FALSE
        /\ promised = [f \in Files |-> {Absent}]
    BY <2>1 DEF KVSInit
  <2>3. \A f \in Files : dir.file[f] = Absent /\ promised[f] = {Absent}
    BY <2>2 DEF EmptyDirectory
  <2>4. promised \in [Files -> SUBSET Entries]
    BY <2>2, EntriesAre
  <2>5. FilesSound
    BY <2>2, <2>3, EntriesAre DEF FilesSound, FilesAreWhole, PromisesAreKept, KVSGet
  <2>6. OperationSound
    BY <2>2 DEF OperationSound, SetOperations, RemoveOperations, Idle
  <2> QED
    BY <2>2, <2>4, <2>5, <2>6 DEF PromiseInv, LeftoversAreOverwritten
<1>2. StoreInv /\ PromiseInv /\ [KVSNext]_kvsVars => PromiseInv'
  BY PromiseStep
<1>3. PromiseInv => FilesAreKept
  BY DEF PromiseInv, FilesSound, FilesAreKept
<1> QED
  BY <1>1, <1>2, <1>3, StoreInvariance, PTL DEF KVSSpec

-----------------------------------------------------------------------------
(* The timer queue.                                                        *)

TimerEntries == [id : 0 .. MaxTimers, deadline : Nat, callback : BOOLEAN]
Places == 1 .. MaxTimers

\* The entry is of a timer that is held.
Queued(i) == i \in 1 .. numActive /\ timers[i].callback /\ i # firing

QueueTyped ==
    /\ timers \in [Places -> TimerEntries]
    /\ numActive \in 0 .. MaxTimers /\ numExpired \in 0 .. numActive
    /\ firing \in 0 .. numExpired /\ (firing = 0) = (numExpired = 0)
    /\ peak \in numActive .. MaxTimers /\ now \in Nat
    /\ DOMAIN held \subseteq Places
    /\ held \in [DOMAIN held -> [deadline : Nat, round : BOOLEAN, earlier : SUBSET Places]]

\* An identifier is in one place, whoever has it or is to have it next.
IdentifiersSound ==
    /\ \A i \in Places : (timers[i].id # 0) = (i <= peak) /\ timers[i].id <= peak
    /\ \A i, j \in Places : timers[i].id = timers[j].id /\ timers[i].id # 0 => i = j

\* What is queued is what is held.  Those that expired are called in turn.
HeldSound ==
    /\ \A id \in DOMAIN held : \E i \in Places : Queued(i) /\ timers[i].id = id
    /\ \A i \in Places : Queued(i) => /\ timers[i].id \in DOMAIN held
                                      /\ timers[i].deadline = held[timers[i].id].deadline
    /\ \A i \in Places : i < firing => ~timers[i].callback
    /\ \A i \in Places : i \in numExpired + 1 .. numActive => timers[i].callback

\* One timer fires before another: its deadline is earlier, or it was registered earlier.
Precedes(i, j) ==
    \/ timers[i].deadline < timers[j].deadline
    \/ /\ timers[i].deadline = timers[j].deadline
       /\ timers[i].id \in held[timers[j].id].earlier

\* The expired timers and the others are sorted.  Between them only those are out of order
\* that were registered since the round began.
OrderSound ==
    /\ \A i, j \in Places : Queued(i) /\ Queued(j) /\ i < j =>
           \/ Precedes(i, j)
           \/ i <= numExpired /\ j > numExpired /\ held[timers[j].id].round
    /\ \A i \in Places : Queued(i) /\ i <= numExpired =>
           timers[i].deadline <= now /\ ~held[timers[i].id].round
    /\ firing = 0 => \A id \in DOMAIN held : ~held[id].round

TimerInv == QueueTyped /\ IdentifiersSound /\ HeldSound /\ OrderSound

-----------------------------------------------------------------------------
(* What the operators of the queue do.                                     *)

\* Where the entry at place i comes from if the one at place from is moved to place to.
Source(i, from, to) ==
    IF i = to THEN from
    ELSE IF from <= i /\ i < to THEN i + 1
    ELSE IF to < i /\ i <= from THEN i - 1
    ELSE i

LEMMA SourceIs ==
    ASSUME NEW from \in Places, NEW to \in Places, NEW i \in Places, NEW j \in Places
    PROVE  /\ Source(i, from, to) \in Places
           /\ Source(i, from, to) = Source(j, from, to) => i = j
BY TimerAssumption DEF Source, Places

LEMMA MovedIs ==
    ASSUME timers \in [Places -> TimerEntries], NEW from \in Places, NEW to \in Places
    PROVE  /\ Moved(from, to) \in [Places -> TimerEntries]
           /\ \A i \in Places : Moved(from, to)[i] = timers[Source(i, from, to)]
<1> DEFINE n == MaxTimers
           low == SubSeq(timers, 1, from - 1)
           high == SubSeq(timers, from + 1, n)
           rest == low \o high
           front == SubSeq(rest, 1, to - 1)
           back == SubSeq(rest, to, n - 1)
<1>1. /\ n \in Nat /\ from \in 1 .. n /\ to \in 1 .. n /\ Places = 1 .. n
      /\ timers \in Seq(TimerEntries) /\ Len(timers) = n
  BY TimerAssumption DEF Places
<1>2. /\ low \in Seq(TimerEntries) /\ Len(low) = from - 1
      /\ \A i \in 1 .. from - 1 : low[i] = timers[i]
  BY <1>1, SubSeqProperties
<1>3. /\ high \in Seq(TimerEntries) /\ Len(high) = n - from
      /\ \A i \in 1 .. n - from : high[i] = timers[i + from]
  BY <1>1, SubSeqProperties
<1> HIDE DEF low, high
<1>4. /\ rest \in Seq(TimerEntries) /\ Len(rest) = n - 1
      /\ \A i \in 1 .. n - 1 : rest[i] = IF i < from THEN timers[i] ELSE timers[i + 1]
  <2>1. /\ rest \in Seq(TimerEntries) /\ Len(rest) = Len(low) + Len(high)
        /\ \A i \in 1 .. Len(low) + Len(high) :
               rest[i] = IF i <= Len(low) THEN low[i] ELSE high[i - Len(low)]
    BY <1>2, <1>3, ConcatProperties
  <2>2. Len(low) + Len(high) = n - 1
    BY <1>1, <1>2, <1>3
  <2>3. ASSUME NEW i \in 1 .. n - 1
        PROVE  rest[i] = IF i < from THEN timers[i] ELSE timers[i + 1]
    <3>1. CASE i < from
      BY <1>1, <1>2, <2>1, <2>2, <3>1
    <3>2. CASE ~(i < from)
      <4>1. i - (from - 1) \in 1 .. n - from /\ i - (from - 1) + from = i + 1
        BY <1>1, <3>2
      <4> QED
        BY <1>1, <1>2, <1>3, <2>1, <2>2, <3>2, <4>1
    <3> QED
      BY <3>1, <3>2
  <2> QED
    BY <2>1, <2>2, <2>3
<1> HIDE DEF rest
<1>5. /\ front \in Seq(TimerEntries) /\ Len(front) = to - 1
      /\ \A i \in 1 .. to - 1 : front[i] = rest[i]
  BY <1>1, <1>4, SubSeqProperties
<1>6. /\ back \in Seq(TimerEntries) /\ Len(back) = n - to
      /\ \A i \in 1 .. n - to : back[i] = rest[i + to - 1]
  BY <1>1, <1>4, SubSeqProperties
<1> DEFINE moved == front \o <<timers[from]>> \o back
           one == <<timers[from]>>
<1>7. Moved(from, to) = moved
  BY <1>1, <1>4 DEF Moved, InsertAt, RemoveAt, rest, low, high
<1>8. one \in Seq(TimerEntries) /\ Len(one) = 1 /\ one[1] = timers[from]
  BY <1>1
<1> DEFINE begin == front \o one
<1>9. moved = begin \o back
  BY DEF one, begin
<1> HIDE DEF front, back, one
<1>10. /\ begin \in Seq(TimerEntries) /\ Len(begin) = to
       /\ \A i \in 1 .. to : begin[i] = IF i < to THEN front[i] ELSE timers[from]
  <2>1. /\ begin \in Seq(TimerEntries) /\ Len(begin) = Len(front) + Len(one)
        /\ \A i \in 1 .. Len(front) + Len(one) :
               begin[i] = IF i <= Len(front) THEN front[i] ELSE one[i - Len(front)]
    BY <1>5, <1>8, ConcatProperties
  <2>2. Len(front) + Len(one) = to
    BY <1>1, <1>5, <1>8
  <2>3. ASSUME NEW i \in 1 .. to
        PROVE  begin[i] = IF i < to THEN front[i] ELSE timers[from]
    <3>1. CASE i < to
      BY <1>1, <1>5, <2>1, <2>2, <3>1
    <3>2. CASE i = to
      <4>1. i - Len(front) = 1 /\ ~(i <= Len(front))
        BY <1>1, <1>5, <3>2
      <4> QED
        BY <1>8, <2>1, <2>2, <3>2, <4>1
    <3>3. i < to \/ i = to
      BY <1>1
    <3> QED
      BY <3>1, <3>2, <3>3
  <2> QED
    BY <2>1, <2>2, <2>3
<1> HIDE DEF begin, moved
<1>11. /\ moved \in Seq(TimerEntries) /\ Len(moved) = n
       /\ \A i \in 1 .. n : moved[i] = IF i <= to THEN begin[i] ELSE back[i - to]
  <2>1. /\ moved \in Seq(TimerEntries) /\ Len(moved) = Len(begin) + Len(back)
        /\ \A i \in 1 .. Len(begin) + Len(back) :
               moved[i] = IF i <= Len(begin) THEN begin[i] ELSE back[i - Len(begin)]
    BY <1>6, <1>9, <1>10, ConcatProperties
  <2>2. Len(begin) + Len(back) = n
    BY <1>1, <1>6, <1>10
  <2> QED
    BY <1>10, <2>1, <2>2
<1>12. ASSUME NEW i \in 1 .. n
       PROVE  moved[i] = timers[Source(i, from, to)]
  <2>1. CASE i < to
    <3>1. moved[i] = rest[i]
      BY <1>1, <1>5, <1>10, <1>11, <2>1
    <3>2. i \in 1 .. n - 1
      BY <1>1, <2>1
    <3> QED
      BY <1>1, <1>4, <2>1, <3>1, <3>2 DEF Source
  <2>2. CASE i = to
    BY <1>1, <1>10, <1>11, <2>2 DEF Source
  <2>3. CASE i > to
    <3>1. moved[i] = rest[i - 1]
      <4>1. i - to \in 1 .. n - to /\ i - to + to - 1 = i - 1
        BY <1>1, <2>3
      <4>2. moved[i] = back[i - to]
        BY <1>1, <1>11, <2>3
      <4> QED
        BY <1>6, <4>1, <4>2
    <3>2. rest[i - 1] = IF i - 1 < from THEN timers[i - 1] ELSE timers[i]
      BY <1>1, <1>4, <2>3
    <3> QED
      BY <1>1, <2>3, <3>1, <3>2 DEF Source
  <2> QED
    BY <1>1, <2>1, <2>2, <2>3
<1> QED
  BY <1>1, <1>7, <1>11, <1>12

LEMMA FirstLaterIs ==
    ASSUME QueueTyped, NEW n \in 0 .. numActive, NEW t \in Nat
    PROVE  /\ FirstLater(n, t) \in n + 1 .. numActive + 1
           /\ \A i \in n + 1 .. FirstLater(n, t) - 1 : timers[i].deadline <= t
           /\ FirstLater(n, t) <= numActive => timers[FirstLater(n, t)].deadline > t
<1> DEFINE later == {i \in n + 1 .. numActive : timers[i].deadline > t} \cup {numActive + 1}
<1>1. numActive \in Nat /\ n \in Nat /\ n <= numActive
  BY TimerAssumption DEF QueueTyped
<1>2. later \in SUBSET Nat /\ later # {}
  BY <1>1
<1>3. \E k \in later : \A m \in later : k <= m
  BY <1>2, LeastElement
<1>4. FirstLater(n, t) \in later /\ \A m \in later : FirstLater(n, t) <= m
  BY <1>3 DEF FirstLater, Min
<1>5. \A i \in n + 1 .. numActive : timers[i].deadline \in Nat
  BY <1>1, TimerAssumption DEF QueueTyped, TimerEntries, Places
<1> DEFINE k == FirstLater(n, t)
<1> HIDE DEF k
<1>6. k \in later /\ \A m \in later : k <= m
  BY <1>4 DEF k
<1>7. k \in n + 1 .. numActive + 1 /\ (k <= numActive => timers[k].deadline > t)
  BY <1>1, <1>6
<1>8. ASSUME NEW i \in n + 1 .. k - 1 PROVE timers[i].deadline <= t
  BY <1>1, <1>5, <1>6, <1>7
<1> QED
  BY <1>7, <1>8 DEF k

LEMMA NextToFireIs ==
    ASSUME QueueTyped, NEW a \in 0 .. numActive, NEW e \in 0 .. numActive
    PROVE  LET i == NextToFire(a, e)
           IN /\ i \in 0 .. numActive
              /\ i # 0 => i \in a + 1 .. e /\ timers[i].callback
              /\ \A j \in a + 1 .. e : timers[j].callback => i # 0 /\ i <= j
<1> DEFINE left == {i \in a + 1 .. e : timers[i].callback}
<1>1. /\ numActive \in Nat /\ a \in Nat /\ e \in Nat /\ e <= numActive
      /\ a + 1 .. e \subseteq 1 .. numActive
  BY TimerAssumption DEF QueueTyped
<1>2. CASE left = {}
  BY <1>1, <1>2 DEF NextToFire
<1>3. CASE left # {}
  <2>1. left \in SUBSET Nat
    BY <1>1
  <2>2. \E k \in left : \A m \in left : k <= m
    BY <1>3, <2>1, LeastElement
  <2>3. NextToFire(a, e) \in left /\ \A m \in left : NextToFire(a, e) <= m
    BY <1>3, <2>2 DEF NextToFire, Min
  <2> QED
    BY <1>1, <2>3
<1> QED
  BY <1>2, <1>3

-----------------------------------------------------------------------------
(* The steps of the queue.                                                 *)

LEMMA ForgetIs ==
    ASSUME QueueTyped, NEW id, Forget(id)
    PROVE  /\ DOMAIN held' = DOMAIN held \ {id}
           /\ held' \in [DOMAIN held' -> [deadline : Nat, round : BOOLEAN, earlier : SUBSET Places]]
           /\ \A h \in DOMAIN held' : /\ held'[h].deadline = held[h].deadline
                                      /\ held'[h].round = held[h].round
                                      /\ held'[h].earlier = held[h].earlier \ {id}
<1>1. \A h \in DOMAIN held : held[h] \in [deadline : Nat, round : BOOLEAN, earlier : SUBSET Places]
  BY DEF QueueTyped
<1>2. /\ DOMAIN held' = DOMAIN held \ {id}
      /\ held' = [h \in DOMAIN held \ {id} |-> [held[h] EXCEPT !.earlier = @ \ {id}]]
  BY DEF Forget
<1>3. ASSUME NEW h \in DOMAIN held \ {id}
      PROVE  /\ held'[h] \in [deadline : Nat, round : BOOLEAN, earlier : SUBSET Places]
             /\ held'[h].deadline = held[h].deadline
             /\ held'[h].round = held[h].round
             /\ held'[h].earlier = held[h].earlier \ {id}
  <2>1. held'[h] = [held[h] EXCEPT !.earlier = held[h].earlier \ {id}]
    BY <1>2
  <2> QED
    BY <1>1, <2>1
<1> QED
  BY <1>2, <1>3

\* Places and who is at them.
LEMMA QueueFields ==
    ASSUME QueueTyped
    PROVE  /\ MaxTimers \in Nat /\ numActive \in Nat /\ numExpired \in Nat /\ firing \in Nat
           /\ peak \in Nat /\ numActive <= MaxTimers /\ numExpired <= numActive
           /\ firing <= numExpired /\ numActive <= peak /\ peak <= MaxTimers
           /\ 1 .. numActive \subseteq Places
           /\ \A i \in Places : /\ timers[i] \in TimerEntries /\ timers[i].id \in Nat
                                /\ timers[i].deadline \in Nat /\ timers[i].callback \in BOOLEAN
BY TimerAssumption DEF QueueTyped, Places, TimerEntries

LEMMA RegisterKeeps ==
    ASSUME TimerInv, NEW deadline \in 0 .. MaxTime, Register(deadline)
    PROVE  TimerInv'
<1>0. PICK i : i = PlaceOf(deadline)
  OBVIOUS
<1> DEFINE a == numActive + 1
           old == timers[a].id
           id == IF old = 0 THEN peak + 1 ELSE old
           e == [id |-> id, deadline |-> deadline, callback |-> TRUE]
           from(j) == Source(j, a, i)
<1>1. QueueTyped /\ IdentifiersSound /\ HeldSound /\ OrderSound
  BY DEF TimerInv
<1>2. /\ MaxTimers \in Nat /\ numActive \in Nat /\ numExpired \in Nat /\ firing \in Nat
      /\ peak \in Nat /\ numActive < MaxTimers /\ numExpired <= numActive
      /\ firing <= numExpired /\ numActive <= peak /\ peak <= MaxTimers
      /\ \A j \in Places : /\ timers[j] \in TimerEntries /\ timers[j].id \in Nat
                           /\ timers[j].deadline \in Nat /\ timers[j].callback \in BOOLEAN
      /\ deadline \in Nat
  BY <1>1, QueueFields, TimerAssumption DEF Register
<1>3. /\ i \in numExpired + 1 .. a
      /\ \A j \in numExpired + 1 .. i - 1 : timers[j].deadline <= deadline
      /\ i <= numActive => timers[i].deadline > deadline
  <2>1. numExpired \in 0 .. numActive
    BY <1>2
  <2> QED
    BY <1>0, <1>1, <1>2, <2>1, FirstLaterIs DEF PlaceOf
<1>4. /\ numActive' = a /\ numExpired' = numExpired /\ firing' = firing /\ now' = now
      /\ timers' = [Moved(a, i) EXCEPT ![i] = e]
      /\ peak' = IF old = 0 THEN id ELSE peak
      /\ held' = [h \in DOMAIN held \cup {id} |->
                    IF h = id THEN [deadline |-> deadline, round |-> firing # 0,
                                    earlier |-> DOMAIN held]
                    ELSE held[h]]
  BY <1>0 DEF Register
<1>5. a \in Places /\ i \in Places
  BY <1>2, <1>3 DEF Places
<1>6. /\ id \in 1 .. MaxTimers
      /\ old = 0 => peak = numActive /\ peak' = a /\ id = a
      /\ old # 0 => a <= peak /\ peak' = peak /\ id = old
  BY <1>1, <1>2, <1>4, <1>5 DEF IdentifiersSound, Places
<1>7. e \in TimerEntries /\ e.id = id /\ e.deadline = deadline /\ e.callback
  BY <1>2, <1>6 DEF TimerEntries
<1>8. id \notin DOMAIN held
  <2>1. SUFFICES ASSUME id \in DOMAIN held PROVE FALSE
    OBVIOUS
  <2>2. PICK k \in Places : Queued(k) /\ timers[k].id = id
    BY <1>1, <2>1 DEF HeldSound
  <2>3. k # a /\ timers[k].id <= peak
    BY <1>1, <1>2, <2>2 DEF Queued, IdentifiersSound
  <2> QED
    BY <1>1, <1>2, <1>5, <1>6, <2>2, <2>3 DEF IdentifiersSound
<1> HIDE DEF id, e, old
<1>9. /\ timers' \in [Places -> TimerEntries] /\ timers'[i] = e
      /\ \A j \in Places \ {i} : timers'[j] = timers[from(j)]
  <2>1. /\ Moved(a, i) \in [Places -> TimerEntries]
        /\ \A j \in Places : Moved(a, i)[j] = timers[from(j)]
    BY <1>1, <1>5, MovedIs DEF QueueTyped
  <2> QED
    BY <1>4, <1>5, <1>7, <2>1
<1>10. \A j \in Places : /\ from(j) \in Places
                         /\ j < i => from(j) = j
                         /\ i < j /\ j <= a => from(j) = j - 1
                         /\ a < j => from(j) = j
                         /\ from(i) = a
  BY <1>2, <1>3, <1>5 DEF Source, Places
<1> HIDE DEF from
<1>11. /\ DOMAIN held' = DOMAIN held \cup {id}
       /\ held'[id].deadline = deadline /\ held'[id].round = (firing # 0)
       /\ held'[id].earlier = DOMAIN held
       /\ \A h \in DOMAIN held : held'[h] = held[h]
  BY <1>4, <1>8
<1>12. QueueTyped'
  <2>1. peak' \in numActive' .. MaxTimers /\ numActive' \in 0 .. MaxTimers
    BY <1>2, <1>4, <1>5, <1>6 DEF Places
  <2>2. /\ DOMAIN held' \subseteq Places
        /\ held' \in [DOMAIN held' -> [deadline : Nat, round : BOOLEAN, earlier : SUBSET Places]]
    BY <1>1, <1>2, <1>4, <1>6 DEF QueueTyped, Places
  <2> QED
    BY <1>1, <1>2, <1>4, <1>9, <2>1, <2>2 DEF QueueTyped
<1>13. \A j \in Places : timers'[j].id = IF j = i THEN id ELSE timers[from(j)].id
  BY <1>7, <1>9
<1>14. IdentifiersSound'
  <2>1. CASE old # 0
    <3>1. \A j \in Places : timers'[j].id = timers[from(j)].id
      BY <1>6, <1>10, <1>13, <2>1 DEF old
    <3>2. \A j \in Places : (from(j) <= peak) = (j <= peak)
      BY <1>2, <1>3, <1>5, <1>6, <1>10, <2>1 DEF Places
    <3>3. \A j, k \in Places : from(j) = from(k) => j = k
      BY <1>5, SourceIs DEF from
    <3>4. \A j \in Places : (timers'[j].id # 0) = (j <= peak') /\ timers'[j].id <= peak'
      BY <1>1, <1>6, <1>10, <2>1, <3>1, <3>2 DEF IdentifiersSound
    <3>5. \A j, k \in Places : timers'[j].id = timers'[k].id /\ timers'[j].id # 0 => j = k
      BY <1>1, <1>10, <3>1, <3>3 DEF IdentifiersSound
    <3> QED
      BY <3>4, <3>5 DEF IdentifiersSound
  <2>2. CASE old = 0
    <3>1. \A j \in Places \ {i} : (from(j) <= numActive) = (j <= a)
      BY <1>2, <1>3, <1>5, <1>10 DEF Places
    <3>2. \A j \in Places \ {i} :
              (timers'[j].id # 0) = (j <= a) /\ timers'[j].id <= numActive
      BY <1>1, <1>6, <1>10, <1>13, <2>2, <3>1 DEF IdentifiersSound
    <3>3. timers'[i].id = a /\ peak' = a /\ i <= a /\ a # 0
      BY <1>2, <1>3, <1>5, <1>6, <1>13, <2>2
    <3>4. \A j \in Places : (timers'[j].id # 0) = (j <= peak') /\ timers'[j].id <= peak'
      BY <1>2, <1>9, <1>10, <3>2, <3>3
    <3>5. \A j, k \in Places : from(j) = from(k) => j = k
      BY <1>5, SourceIs DEF from
    <3>6. \A j, k \in Places \ {i} : timers'[j].id = timers'[k].id /\ timers'[j].id # 0 => j = k
      BY <1>1, <1>10, <1>13, <3>5 DEF IdentifiersSound
    <3>7. \A j \in Places \ {i} : timers'[j].id # timers'[i].id
      BY <1>2, <1>10, <1>13, <3>2, <3>3
    <3> QED
      BY <3>4, <3>6, <3>7 DEF IdentifiersSound
  <2> QED
    BY <2>1, <2>2
<1>15. Queued(i)'
  <2>1. i \in 1 .. a /\ i # firing
    BY <1>2, <1>3
  <2>2. timers'[i].callback
    BY <1>7, <1>9
  <2> QED
    BY <1>4, <2>1, <2>2 DEF Queued
<1>16. \A j \in Places \ {i} : /\ Queued(j)' = Queued(from(j))
                               /\ Queued(j)' => (from(j) <= numExpired) = (j <= numExpired)
  <2>1. ASSUME NEW j \in Places \ {i}
        PROVE  Queued(j)' = Queued(from(j))
    <3>1. (j \in 1 .. a) = (from(j) \in 1 .. numActive)
      BY <1>2, <1>3, <1>5, <1>10, SMTT(20) DEF Places
    <3>2. (j = firing) = (from(j) = firing)
      BY <1>2, <1>3, <1>5, <1>10, SMTT(20) DEF Places
    <3> QED
      BY <1>4, <1>9, <3>1, <3>2 DEF Queued
  <2>2. \A j \in Places \ {i} : (from(j) <= numExpired) = (j <= numExpired)
    BY <1>2, <1>3, <1>5, <1>10 DEF Places
  <2> QED
    BY <2>1, <2>2
<1>17. HeldSound'
  <2>1. ASSUME NEW h \in DOMAIN held
        PROVE  \E j \in Places : Queued(j)' /\ timers'[j].id = h
    <3>1. PICK k \in Places : Queued(k) /\ timers[k].id = h
      BY <1>1 DEF HeldSound
    <3>2. PICK j \in Places \ {i} : from(j) = k
      <4>1. k \in 1 .. numActive
        BY <3>1 DEF Queued
      <4>2. CASE k < i
        <5>1. k \in Places \ {i}
          BY <1>2, <1>3, <4>1, <4>2
        <5> QED
          BY <1>10, <4>2, <5>1
      <4>3. CASE ~(k < i)
        <5>1. k + 1 \in Places \ {i} /\ i < k + 1 /\ k + 1 <= a
          BY <1>2, <1>3, <4>1, <4>3 DEF Places
        <5> QED
          BY <1>2, <1>10, <4>1, <5>1
      <4> QED
        BY <4>2, <4>3
    <3> QED
      BY <1>9, <1>16, <3>1, <3>2
  <2>2. \A h \in DOMAIN held' : \E j \in Places : Queued(j)' /\ timers'[j].id = h
    <3>1. timers'[i].id = id
      BY <1>5, <1>13
    <3>2. \E j \in Places : Queued(j)' /\ timers'[j].id = id
      BY <1>5, <1>15, <3>1
    <3> QED
      BY <1>11, <2>1, <3>2
  <2>3. ASSUME NEW j \in Places, Queued(j)'
        PROVE  /\ timers'[j].id \in DOMAIN held'
               /\ timers'[j].deadline = held'[timers'[j].id].deadline
    <3>1. CASE j = i
      BY <1>7, <1>9, <1>11, <3>1
    <3>2. CASE j # i
      <4>1. Queued(from(j)) /\ timers'[j] = timers[from(j)] /\ from(j) \in Places
        BY <1>9, <1>10, <1>16, <2>3, <3>2
      <4> QED
        BY <1>1, <1>11, <4>1 DEF HeldSound
    <3> QED
      BY <3>1, <3>2
  <2>4. \A j \in Places : j < firing' => ~timers'[j].callback
    <3>1. \A j \in Places : j < firing => j < i /\ j # i
      BY <1>2, <1>3, <1>5 DEF Places
    <3> QED
      BY <1>1, <1>4, <1>9, <1>10, <3>1 DEF HeldSound
  <2>5. ASSUME NEW j \in Places, j \in numExpired' + 1 .. numActive'
        PROVE  timers'[j].callback
    <3>1. CASE j = i
      BY <1>7, <1>9, <3>1
    <3>2. CASE j # i
      <4>1. from(j) \in numExpired + 1 .. numActive /\ from(j) \in Places
        BY <1>2, <1>3, <1>4, <1>10, <2>5, <3>2
      <4> QED
        BY <1>1, <1>9, <3>2, <4>1 DEF HeldSound
    <3> QED
      BY <3>1, <3>2
  <2> QED
    BY <2>2, <2>3, <2>4, <2>5 DEF HeldSound
<1>18. ASSUME NEW j \in Places \ {i}, NEW k \in Places \ {i}, Queued(j)', Queued(k)'
       PROVE  Precedes(j, k)' = Precedes(from(j), from(k))
  <2>1. /\ timers'[j] = timers[from(j)] /\ timers'[k] = timers[from(k)]
        /\ timers[from(k)].id \in DOMAIN held
    BY <1>1, <1>9, <1>10, <1>16, <1>18 DEF HeldSound
  <2>2. held'[timers'[k].id] = held[timers[from(k)].id]
    BY <1>11, <2>1
  <2> QED
    BY <2>1, <2>2 DEF Precedes
<1>19. ASSUME NEW j \in Places, NEW k \in Places, Queued(j)', Queued(k)', j < k
       PROVE  \/ Precedes(j, k)'
              \/ j <= numExpired /\ k > numExpired /\ held'[timers'[k].id].round
  <2>1. CASE j = i
    <3>1. k # i /\ from(k) = k - 1 /\ k - 1 \in i .. numActive /\ k - 1 \in Places
      BY <1>2, <1>3, <1>4, <1>5, <1>10, <1>19, <2>1 DEF Queued, Places
    <3>2. timers[i].deadline > deadline
      BY <1>2, <1>3, <1>5, <3>1
    <3>3. timers[k - 1].deadline >= timers[i].deadline
      <4>1. CASE k - 1 = i
        BY <1>2, <1>5, <4>1
      <4>2. CASE k - 1 # i
        <5>1. i < k - 1 /\ numExpired < i
          BY <1>2, <1>3, <3>1, <4>2
        <5>2. Queued(i) /\ Queued(k - 1)
          BY <1>1, <1>2, <1>3, <1>5, <3>1, <5>1 DEF HeldSound, Queued, Places
        <5>3. Precedes(i, k - 1)
          <6>1. \/ Precedes(i, k - 1)
                \/ i <= numExpired
            BY <1>1, <1>5, <3>1, <5>1, <5>2 DEF OrderSound
          <6> QED
            BY <1>2, <1>3, <5>1, <6>1
        <5> QED
          BY <1>2, <1>5, <3>1, <5>3 DEF Precedes
      <4> QED
        BY <4>1, <4>2
    <3>4. timers'[j].deadline = deadline /\ timers'[k].deadline = timers[k - 1].deadline
      BY <1>7, <1>9, <2>1, <3>1
    <3>5. timers'[j].deadline < timers'[k].deadline
      BY <1>2, <1>5, <3>1, <3>2, <3>3, <3>4
    <3> QED
      BY <3>5 DEF Precedes
  <2>2. CASE k = i
    <3>1. j # i /\ from(j) = j /\ timers'[j] = timers[j] /\ Queued(j)
      <4>1. j < i /\ j # i
        BY <1>2, <1>3, <1>19, <2>2 DEF Places
      <4> QED
        BY <1>9, <1>10, <1>16, <1>19, <4>1
    <3>2. CASE j > numExpired
      <4>1. timers'[j].deadline <= timers'[k].deadline
        BY <1>2, <1>3, <1>5, <1>7, <1>9, <1>19, <2>2, <3>1, <3>2 DEF Places
      <4>2. timers'[j].id \in held'[timers'[k].id].earlier
        BY <1>1, <1>7, <1>9, <1>11, <2>2, <3>1 DEF HeldSound
      <4>3. timers'[j].deadline \in Nat /\ timers'[k].deadline \in Nat
        BY <1>2, <1>7, <1>9, <2>2, <3>1
      <4>4. \/ timers'[j].deadline < timers'[k].deadline
            \/ timers'[j].deadline = timers'[k].deadline
        BY <4>1, <4>3
      <4> QED
        BY <4>2, <4>4 DEF Precedes
    <3>3. CASE ~(j > numExpired)
      <4>1. j \in 1 .. numExpired
        BY <1>2, <3>1, <3>3 DEF Queued
      <4>2. firing # 0
        BY <1>1, <1>2, <4>1 DEF QueueTyped
      <4>3. held'[timers'[k].id].round
        BY <1>7, <1>9, <1>11, <2>2, <4>2
      <4> QED
        BY <1>2, <1>3, <2>2, <3>3, <4>1, <4>3
    <3> QED
      BY <3>2, <3>3
  <2>3. CASE j # i /\ k # i
    <3>1. /\ Queued(from(j)) /\ Queued(from(k)) /\ from(j) \in Places /\ from(k) \in Places
          /\ timers'[k] = timers[from(k)]
          /\ (from(j) <= numExpired) = (j <= numExpired)
          /\ (from(k) <= numExpired) = (k <= numExpired)
      BY <1>9, <1>10, <1>16, <1>19, <2>3
    <3>2. from(j) < from(k)
      BY <1>2, <1>3, <1>4, <1>5, <1>10, <1>19, <2>3 DEF Places, Queued
    <3>3. \/ Precedes(from(j), from(k))
          \/ from(j) <= numExpired /\ from(k) > numExpired /\ held[timers[from(k)].id].round
      BY <1>1, <3>1, <3>2 DEF OrderSound
    <3>4. held'[timers'[k].id] = held[timers[from(k)].id]
      BY <1>1, <1>11, <3>1 DEF HeldSound
    <3>5. (from(k) > numExpired) = (k > numExpired)
      BY <1>2, <3>1 DEF Places
    <3> QED
      BY <1>18, <1>19, <2>3, <3>1, <3>3, <3>4, <3>5
  <2> QED
    BY <2>1, <2>2, <2>3
<1>20. ASSUME NEW j \in Places, Queued(j)', j <= numExpired
       PROVE  timers'[j].deadline <= now' /\ ~held'[timers'[j].id].round
  <2>1. j # i /\ from(j) = j /\ timers'[j] = timers[j] /\ Queued(j)
    <3>1. j < i
      BY <1>2, <1>3, <1>20 DEF Places
    <3> QED
      BY <1>9, <1>10, <1>16, <1>20, <3>1, <1>2, <1>3 DEF Places
  <2>2. timers[j].id \in DOMAIN held
    BY <1>1, <2>1 DEF HeldSound
  <2> QED
    BY <1>1, <1>4, <1>11, <1>20, <2>1, <2>2 DEF OrderSound
<1>21. firing' = 0 => \A h \in DOMAIN held' : ~held'[h].round
  BY <1>1, <1>4, <1>11 DEF OrderSound
<1> QED
  BY <1>4, <1>12, <1>14, <1>17, <1>19, <1>20, <1>21 DEF TimerInv, OrderSound

\* A timer that is held is in one place.
LEMMA HeldPlace ==
    ASSUME TimerInv, NEW i \in Places, timers[i].id \in DOMAIN held, i <= numActive
    PROVE  Queued(i)
<1>1. PICK k \in Places : Queued(k) /\ timers[k].id = timers[i].id
  BY DEF TimerInv, HeldSound
<1>2. timers[i].id # 0
  BY DEF TimerInv, QueueTyped, Places
<1> QED
  BY <1>1, <1>2 DEF TimerInv, IdentifiersSound

\* What is no longer queued is no longer held.
LEMMA LeavingKeeps ==
    ASSUME TimerInv, NEW i \in Places, Queued(i), Forget(timers[i].id),
           timers' \in [Places -> TimerEntries],
           \A j \in Places : /\ timers'[j].id = timers[j].id
                             /\ timers'[j].deadline = timers[j].deadline
                             /\ Queued(j)' = (Queued(j) /\ j # i),
           \A j \in Places : Queued(j) /\ j <= numExpired' =>
               timers[j].deadline <= now' /\ ~held[timers[j].id].round,
           \A j, k \in Places : Queued(j) /\ Queued(k) /\ j < k =>
               \/ Precedes(j, k)
               \/ j <= numExpired' /\ k > numExpired' /\ held[timers[k].id].round,
           firing' = 0 => \A id \in DOMAIN held : ~held[id].round
    PROVE  /\ OrderSound'
           /\ \A id \in DOMAIN held' : \E j \in Places : Queued(j)' /\ timers'[j].id = id
           /\ \A j \in Places : Queued(j)' =>
                  /\ timers'[j].id \in DOMAIN held'
                  /\ timers'[j].deadline = held'[timers'[j].id].deadline
<1>1. QueueTyped /\ IdentifiersSound /\ HeldSound
  BY DEF TimerInv
<1>2. /\ DOMAIN held' = DOMAIN held \ {timers[i].id}
      /\ \A h \in DOMAIN held' : /\ held'[h].deadline = held[h].deadline
                                 /\ held'[h].round = held[h].round
                                 /\ held'[h].earlier = held[h].earlier \ {timers[i].id}
  BY <1>1, ForgetIs
<1>3. ASSUME NEW j \in Places, Queued(j), j # i
      PROVE  timers[j].id # timers[i].id /\ timers[j].id \in DOMAIN held'
  <2>1. timers[j].id \in DOMAIN held
    BY <1>1, <1>3 DEF HeldSound
  <2>2. timers[j].id # 0
    BY <1>1, <2>1, TimerAssumption DEF QueueTyped, Places
  <2> QED
    BY <1>1, <1>2, <1>3, <2>1, <2>2 DEF IdentifiersSound
<1>4. ASSUME NEW id \in DOMAIN held'
      PROVE  \E j \in Places : Queued(j)' /\ timers'[j].id = id
  <2>1. PICK j \in Places : Queued(j) /\ timers[j].id = id
    BY <1>1, <1>2 DEF HeldSound
  <2> QED
    BY <1>2, <2>1
<1>5. ASSUME NEW j \in Places, Queued(j)'
      PROVE  /\ timers'[j].id \in DOMAIN held'
             /\ timers'[j].deadline = held'[timers'[j].id].deadline
  <2>1. Queued(j) /\ j # i /\ timers'[j].id = timers[j].id /\ timers'[j].deadline = timers[j].deadline
    BY <1>5
  <2>2. timers[j].id \in DOMAIN held'
    BY <1>3, <2>1
  <2>3. timers[j].deadline = held[timers[j].id].deadline
    BY <1>1, <2>1 DEF HeldSound
  <2> QED
    BY <1>2, <2>1, <2>2, <2>3
<1>6. ASSUME NEW j \in Places, NEW k \in Places, Queued(j)', Queued(k)', Precedes(j, k)
      PROVE  Precedes(j, k)'
  <2>1. /\ timers[j].id # timers[i].id /\ timers[k].id \in DOMAIN held'
    BY <1>3, <1>6
  <2>2. held'[timers'[k].id].earlier = held[timers[k].id].earlier \ {timers[i].id}
    BY <1>2, <2>1
  <2> QED
    BY <1>6, <2>1, <2>2 DEF Precedes
<1>7. ASSUME NEW j \in Places, Queued(j)'
      PROVE  held'[timers'[j].id].round = held[timers[j].id].round
  BY <1>2, <1>3, <1>7
<1>8. \A j, k \in Places : Queued(j)' /\ Queued(k)' /\ j < k =>
          \/ Precedes(j, k)'
          \/ j <= numExpired' /\ k > numExpired' /\ held'[timers'[k].id].round
  BY <1>6, <1>7
<1>9. \A j \in Places : Queued(j)' /\ j <= numExpired' =>
          timers'[j].deadline <= now' /\ ~held'[timers'[j].id].round
  BY <1>7
<1>10. firing' = 0 => \A id \in DOMAIN held' : ~held'[id].round
  BY <1>2
<1> QED
  BY <1>4, <1>5, <1>8, <1>9, <1>10 DEF OrderSound

LEMMA FireKeeps ==
    ASSUME TimerInv, NEW i \in 1 .. numActive, Fire(i), Queued(i), timers' \in [Places -> TimerEntries],
           \A j \in Places : /\ timers'[j].id = timers[j].id
                             /\ timers'[j].deadline = timers[j].deadline
                             /\ timers'[j].callback = (timers[j].callback /\ j # firing),
           numExpired' \in numExpired .. numActive, i <= numExpired',
           \A j \in Places : firing < j /\ j < i => ~timers[j].callback,
           firing < i, firing # 0 => numExpired' = numExpired,
           \A j \in Places : Queued(j) /\ j <= numExpired' =>
               timers[j].deadline <= now /\ ~held[timers[j].id].round,
           UNCHANGED <<numActive, peak, now>>
    PROVE  TimerInv'
<1>1. QueueTyped /\ IdentifiersSound /\ HeldSound /\ OrderSound
  BY DEF TimerInv
<1>2. /\ MaxTimers \in Nat /\ numActive \in Nat /\ numExpired \in Nat /\ firing \in Nat
      /\ numExpired <= numActive /\ firing <= numExpired /\ i \in Places
      /\ \A j \in Places : timers[j].callback \in BOOLEAN
  BY <1>1, QueueFields
<1>3. firing' = i /\ Forget(timers[i].id)
  BY DEF Fire
<1>4. \A j \in Places : Queued(j)' = (Queued(j) /\ j # i)
  BY <1>2, <1>3 DEF Queued
<1>5. ASSUME NEW j \in Places, NEW k \in Places, Queued(j), Queued(k), j < k
      PROVE  \/ Precedes(j, k)
             \/ j <= numExpired' /\ k > numExpired' /\ held[timers[k].id].round
  <2>1. CASE firing # 0
    BY <1>1, <1>5, <2>1 DEF OrderSound
  <2>2. CASE firing = 0
    BY <1>1, <1>5, <2>2 DEF OrderSound, HeldSound
  <2> QED
    BY <2>1, <2>2
<1>6. i # 0 /\ firing' # 0
  BY <1>3
<1>7. /\ OrderSound'
      /\ \A id \in DOMAIN held' : \E j \in Places : Queued(j)' /\ timers'[j].id = id
      /\ \A j \in Places : Queued(j)' =>
             /\ timers'[j].id \in DOMAIN held'
             /\ timers'[j].deadline = held'[timers'[j].id].deadline
  <2>1. \A j, k \in Places : Queued(j) /\ Queued(k) /\ j < k =>
               \/ Precedes(j, k)
               \/ j <= numExpired' /\ k > numExpired' /\ held[timers[k].id].round
    BY <1>5
  <2>2. \A j \in Places : Queued(j) /\ j <= numExpired' =>
               timers[j].deadline <= now' /\ ~held[timers[j].id].round
    OBVIOUS
  <2>3. \A j \in Places : /\ timers'[j].id = timers[j].id
                          /\ timers'[j].deadline = timers[j].deadline
                          /\ Queued(j)' = (Queued(j) /\ j # i)
    BY <1>4
  <2>4. firing' = 0 => \A id \in DOMAIN held : ~held[id].round
    BY <1>6
  <2> QED
    BY <1>2, <1>3, <2>1, <2>2, <2>3, <2>4, LeavingKeeps
<1>8. QueueTyped'
  <2>1. /\ DOMAIN held' = DOMAIN held \ {timers[i].id}
        /\ held' \in [DOMAIN held' -> [deadline : Nat, round : BOOLEAN, earlier : SUBSET Places]]
    BY <1>1, <1>3, ForgetIs
  <2>2. /\ numExpired' \in 0 .. numActive' /\ firing' \in 0 .. numExpired'
        /\ (firing' = 0) = (numExpired' = 0)
    BY <1>2, <1>3
  <2> QED
    BY <1>1, <2>1, <2>2 DEF QueueTyped
<1>9. IdentifiersSound'
  BY <1>1 DEF IdentifiersSound
<1>10. \A j \in Places : j < firing' => ~timers'[j].callback
  <2>1. ASSUME NEW j \in Places, j < i PROVE ~timers'[j].callback
    <3>1. j < firing \/ j = firing \/ (firing < j /\ j < i)
      BY <1>2, <2>1 DEF Places
    <3> QED
      BY <1>1, <3>1 DEF HeldSound
  <2> QED
    BY <1>3, <2>1
<1>11. \A j \in Places : j \in numExpired' + 1 .. numActive' => timers'[j].callback
  <2>1. ASSUME NEW j \in Places, j \in numExpired' + 1 .. numActive'
        PROVE  j \in numExpired + 1 .. numActive /\ j # firing
    BY <1>2, <2>1
  <2> QED
    BY <1>1, <2>1 DEF HeldSound
<1> QED
  BY <1>7, <1>8, <1>9, <1>10, <1>11 DEF TimerInv, HeldSound

LEMMA ProcessKeeps ==
    ASSUME TimerInv, ProcessExpiredTimers
    PROVE  TimerInv'
<1> DEFINE e == Expired
           i == NextToFire(0, Expired)
<1>1. QueueTyped /\ HeldSound /\ OrderSound
  BY DEF TimerInv
<1>2. /\ firing = 0 /\ e > 0 /\ numExpired' = e /\ Fire(i)
      /\ UNCHANGED <<timers, numActive, peak, now>>
  BY DEF ProcessExpiredTimers
<1>3. /\ numActive \in Nat /\ numExpired = 0 /\ numActive <= MaxTimers /\ MaxTimers \in Nat
      /\ 1 .. numActive \subseteq Places
      /\ \A j \in Places : timers[j].callback \in BOOLEAN
  BY <1>1, <1>2, QueueFields DEF QueueTyped
<1>4. /\ FirstLater(0, now) \in 1 .. numActive + 1
      /\ \A j \in 1 .. FirstLater(0, now) - 1 : timers[j].deadline <= now
  <2>1. 0 \in 0 .. numActive /\ now \in Nat
    BY <1>1, <1>3 DEF QueueTyped
  <2> QED
    BY <1>1, <2>1, FirstLaterIs
<1>5. e \in 1 .. numActive /\ \A j \in 1 .. e : timers[j].deadline <= now
  BY <1>2, <1>3, <1>4 DEF Expired
<1>6. \A j \in 1 .. numActive : Queued(j) /\ timers[j].callback
  BY <1>1, <1>2, <1>3 DEF HeldSound, Queued
<1>7. i \in 0 .. numActive /\ i # 0 /\ i <= 1
  <2>1. 0 \in 0 .. numActive /\ e \in 0 .. numActive /\ 1 \in 0 + 1 .. e /\ timers[1].callback
    BY <1>3, <1>5, <1>6
  <2> QED
    BY <1>1, <2>1, NextToFireIs
<1> HIDE DEF e, i
<1>8. i = 1 /\ i \in 1 .. numActive
  BY <1>3, <1>7
<1>9. \A j \in Places : Queued(j) /\ j <= numExpired' =>
               timers[j].deadline <= now /\ ~held[timers[j].id].round
  <2>1. ASSUME NEW j \in Places, Queued(j), j <= e
        PROVE  timers[j].deadline <= now /\ ~held[timers[j].id].round
    <3>1. j \in 1 .. e
      BY <1>3, <1>5, <2>1 DEF Places
    <3>2. timers[j].id \in DOMAIN held
      BY <1>1, <2>1 DEF HeldSound
    <3> QED
      BY <1>1, <1>2, <1>5, <3>1, <3>2 DEF OrderSound
  <2> QED
    BY <1>2, <2>1
<1>10. timers' \in [Places -> TimerEntries]
  BY <1>1, <1>2 DEF QueueTyped
<1>11. \A j \in Places : /\ timers'[j].id = timers[j].id
                         /\ timers'[j].deadline = timers[j].deadline
                         /\ timers'[j].callback = (timers[j].callback /\ j # firing)
  BY <1>2, <1>3 DEF Places
<1>12. /\ numExpired' \in numExpired .. numActive /\ i <= numExpired'
       /\ \A j \in Places : firing < j /\ j < i => ~timers[j].callback
       /\ firing < i /\ (firing # 0 => numExpired' = numExpired) /\ Queued(i)
  BY <1>2, <1>3, <1>5, <1>6, <1>8 DEF Places
<1> QED
  BY <1>2, <1>8, <1>9, <1>10, <1>11, <1>12, FireKeeps

\* An entry whose callback is cleared.
LEMMA ClearedIs ==
    ASSUME QueueTyped, NEW i \in Places
    PROVE  /\ Silenced(i) \in [Places -> TimerEntries]
           /\ \A j \in Places : /\ Silenced(i)[j].id = timers[j].id
                                /\ Silenced(i)[j].deadline = timers[j].deadline
                                /\ Silenced(i)[j].callback = (timers[j].callback /\ j # i)
<1> DEFINE marked == [timers[i] EXCEPT !.callback = FALSE]
           c == [timers EXCEPT ![i] = marked]
<1>1. Silenced(i) = c /\ timers \in [Places -> TimerEntries]
  BY DEF QueueTyped, Silenced
<1>2. /\ marked \in TimerEntries /\ marked.id = timers[i].id
      /\ marked.deadline = timers[i].deadline /\ marked.callback = FALSE
  BY <1>1 DEF TimerEntries
<1> HIDE DEF marked
<1>3. \A j \in Places : timers[j].callback \in BOOLEAN
  BY <1>1 DEF TimerEntries
<1>4. c \in [Places -> TimerEntries] /\ c[i] = marked /\ \A j \in Places \ {i} : c[j] = timers[j]
  BY <1>1, <1>2
<1> HIDE DEF c
<1>5. ASSUME NEW j \in Places
      PROVE  /\ c[j].id = timers[j].id
             /\ c[j].deadline = timers[j].deadline
             /\ c[j].callback = (timers[j].callback /\ j # i)
  <2>1. CASE j = i
    BY <1>2, <1>4, <2>1
  <2>2. CASE j # i
    BY <1>3, <1>4, <2>2
  <2> QED
    BY <2>1, <2>2
<1> QED
  BY <1>1, <1>4, <1>5

LEMMA DeregisterKeeps ==
    ASSUME TimerInv, NEW id \in 1 .. MaxTimers, Deregister(id)
    PROVE  TimerInv'
<1> DEFINE n == numActive
<1>1. QueueTyped /\ IdentifiersSound /\ HeldSound /\ OrderSound
  BY DEF TimerInv
<1>2. /\ MaxTimers \in Nat /\ n \in Nat /\ numExpired \in Nat /\ firing \in Nat /\ peak \in Nat
      /\ n <= MaxTimers /\ numExpired <= n /\ firing <= numExpired /\ n <= peak
      /\ 1 .. n \subseteq Places
      /\ \A j \in Places : timers[j] \in TimerEntries /\ timers[j].callback \in BOOLEAN
  BY <1>1, QueueFields
<1>3. PICK i \in 1 .. n :
          /\ timers[i].id = id
          /\ IF i > numExpired
             THEN /\ timers' = [Moved(i, n) EXCEPT ![n] = Unused(id)]
                  /\ numActive' = n - 1
             ELSE /\ timers' = Silenced(i)
                  /\ UNCHANGED numActive
  BY DEF Deregister
<1>4. /\ id \in DOMAIN held /\ Forget(id) /\ firing' = firing /\ numExpired' = numExpired
      /\ peak' = peak /\ now' = now /\ i \in Places /\ n \in Places
  BY <1>2, <1>3 DEF Deregister, Places
<1>5. Queued(i) /\ i # firing
  BY <1>2, <1>3, <1>4, HeldPlace DEF Queued
<1>6. /\ DOMAIN held' = DOMAIN held \ {id}
      /\ held' \in [DOMAIN held' -> [deadline : Nat, round : BOOLEAN, earlier : SUBSET Places]]
      /\ \A h \in DOMAIN held' : /\ held'[h].deadline = held[h].deadline
                                 /\ held'[h].round = held[h].round
                                 /\ held'[h].earlier = held[h].earlier \ {id}
  BY <1>1, <1>4, ForgetIs
<1>7. CASE i <= numExpired
  <2>1. timers' = Silenced(i) /\ numActive' = n
    BY <1>2, <1>3, <1>7
  <2>3. /\ timers' \in [Places -> TimerEntries]
        /\ \A j \in Places : /\ timers'[j].id = timers[j].id
                             /\ timers'[j].deadline = timers[j].deadline
                             /\ timers'[j].callback = (timers[j].callback /\ j # i)
    BY <1>1, <1>4, <2>1, ClearedIs
  <2>4. \A j \in Places : Queued(j)' = (Queued(j) /\ j # i)
    BY <1>4, <2>1, <2>3 DEF Queued
  <2>5. /\ \A j \in Places : Queued(j) /\ j <= numExpired' =>
               timers[j].deadline <= now' /\ ~held[timers[j].id].round
        /\ \A j, k \in Places : Queued(j) /\ Queued(k) /\ j < k =>
               \/ Precedes(j, k)
               \/ j <= numExpired' /\ k > numExpired' /\ held[timers[k].id].round
        /\ firing' = 0 => \A h \in DOMAIN held : ~held[h].round
    BY <1>1, <1>4 DEF OrderSound
  <2>6. \A j \in Places : /\ timers'[j].id = timers[j].id
                          /\ timers'[j].deadline = timers[j].deadline
                          /\ Queued(j)' = (Queued(j) /\ j # i)
    BY <2>3, <2>4
  <2>7. /\ OrderSound'
        /\ \A h \in DOMAIN held' : \E j \in Places : Queued(j)' /\ timers'[j].id = h
        /\ \A j \in Places : Queued(j)' =>
               /\ timers'[j].id \in DOMAIN held'
               /\ timers'[j].deadline = held'[timers'[j].id].deadline
    BY <1>3, <1>4, <1>5, <2>3, <2>5, <2>6, LeavingKeeps
  <2>8. QueueTyped'
    BY <1>1, <1>4, <1>6, <2>1, <2>3 DEF QueueTyped
  <2>9. IdentifiersSound'
    BY <1>1, <1>4, <2>3 DEF IdentifiersSound
  <2>10. \A j \in Places : j < firing' => ~timers'[j].callback
    BY <1>1, <1>4, <2>3 DEF HeldSound
  <2>11. \A j \in Places : j \in numExpired' + 1 .. numActive' => timers'[j].callback
    <3>1. \A j \in Places : j \in numExpired + 1 .. n => j # i
      BY <1>2, <1>7
    <3> QED
      BY <1>1, <1>4, <2>1, <2>3, <3>1 DEF HeldSound
  <2> QED
    BY <2>7, <2>8, <2>9, <2>10, <2>11 DEF TimerInv, HeldSound
<1>8. CASE i > numExpired
  <2> DEFINE from(j) == Source(j, i, n)
             e == Unused(id)
  <2>1. timers' = [Moved(i, n) EXCEPT ![n] = e] /\ numActive' = n - 1
    BY <1>3, <1>8
  <2>2. e \in TimerEntries /\ e.id = id /\ e.callback = FALSE
    BY <1>2 DEF TimerEntries, Unused
  <2> HIDE DEF e
  <2>3. /\ timers' \in [Places -> TimerEntries] /\ timers'[n] = e
        /\ \A j \in Places \ {n} : timers'[j] = timers[from(j)]
    <3>1. /\ Moved(i, n) \in [Places -> TimerEntries]
          /\ \A j \in Places : Moved(i, n)[j] = timers[from(j)]
      BY <1>1, <1>4, MovedIs DEF QueueTyped
    <3> QED
      BY <1>4, <2>1, <2>2, <3>1
  <2>4. /\ from(n) = i
        /\ \A j \in Places : /\ from(j) \in Places
                             /\ j < i => from(j) = j
                             /\ i <= j /\ j < n => from(j) = j + 1
                             /\ n < j => from(j) = j
    BY <1>2, <1>4 DEF Source, Places
  <2>5. \A j, k \in Places : from(j) = from(k) => j = k
    BY <1>4, SourceIs
  <2> HIDE DEF from
  <2>6. \A j \in Places : timers'[j].id = timers[from(j)].id
    BY <1>3, <2>2, <2>3, <2>4
  <2>7. IdentifiersSound'
    <3>1. \A j \in Places : (from(j) <= peak) = (j <= peak)
      BY <1>2, <1>3, <1>4, <2>4, SMTT(20) DEF Places
    <3>2. ASSUME NEW j \in Places
          PROVE  (timers'[j].id # 0) = (j <= peak') /\ timers'[j].id <= peak'
      <4>1. from(j) \in Places /\ (from(j) <= peak) = (j <= peak)
        BY <2>4, <3>1
      <4>2. /\ (timers[from(j)].id # 0) = (from(j) <= peak)
            /\ timers[from(j)].id <= peak
        BY <1>1, <4>1 DEF IdentifiersSound
      <4>3. timers'[j].id = timers[from(j)].id /\ peak' = peak
        BY <1>4, <2>6
      <4> QED
        BY <4>1, <4>2, <4>3
    <3>3. \A j, k \in Places : timers'[j].id = timers'[k].id /\ timers'[j].id # 0 => j = k
      BY <1>1, <2>4, <2>5, <2>6 DEF IdentifiersSound
    <3> QED
      BY <3>2, <3>3 DEF IdentifiersSound
  <2>8. QueueTyped'
    <3>1. /\ numActive' \in 0 .. MaxTimers /\ numExpired' \in 0 .. numActive'
          /\ peak' \in numActive' .. MaxTimers
      BY <1>1, <1>2, <1>3, <1>4, <1>8, <2>1 DEF QueueTyped
    <3> QED
      BY <1>1, <1>4, <1>6, <2>3, <3>1 DEF QueueTyped
  <2>9. \A j \in Places : Queued(j)' => j # n /\ Queued(from(j)) /\ from(j) # i
    <3>1. ASSUME NEW j \in Places, Queued(j)'
          PROVE  j # n /\ Queued(from(j)) /\ from(j) # i
      <4>1. j \in 1 .. n - 1 /\ j # firing /\ timers'[j].callback
        BY <1>4, <2>1, <3>1 DEF Queued
      <4>2. j # n /\ from(j) \in 1 .. n /\ from(j) # i /\ from(j) # firing
        BY <1>2, <1>3, <1>4, <1>8, <2>4, <4>1 DEF Places
      <4> QED
        BY <2>3, <4>1, <4>2 DEF Queued
    <3> QED
      BY <3>1
  <2>10. \A j \in Places : j < n => (from(j) <= numExpired) = (j <= numExpired)
                                    /\ (from(j) > numExpired) = (j > numExpired)
    BY <1>2, <1>3, <1>8, <2>4 DEF Places
  <2>11. ASSUME NEW k \in Places, Queued(k), k # i
         PROVE  \E j \in Places : Queued(j)' /\ from(j) = k
    <3>1. k \in 1 .. n /\ k # firing /\ timers[k].callback
      BY <2>11 DEF Queued
    <3>2. CASE k < i
      <4>1. k \in 1 .. n - 1 /\ from(k) = k /\ k # n
        BY <1>2, <1>3, <2>4, <3>1, <3>2
      <4> QED
        BY <1>4, <2>1, <2>3, <3>1, <4>1 DEF Queued
    <3>3. CASE ~(k < i)
      <4>1. /\ k - 1 \in 1 .. n - 1 /\ k - 1 \in Places \ {n} /\ from(k - 1) = k
            /\ k - 1 # firing
        <5>1. k - 1 \in i .. n - 1 /\ k - 1 \in Places
          BY <1>2, <1>3, <1>4, <2>11, <3>1, <3>3 DEF Places
        <5>2. from(k - 1) = k
          BY <1>2, <2>4, <3>1, <5>1
        <5> QED
          BY <1>2, <1>3, <1>8, <5>1, <5>2
      <4> QED
        BY <1>4, <2>1, <2>3, <3>1, <4>1 DEF Queued
    <3> QED
      BY <3>2, <3>3
  <2>12. ASSUME NEW k \in Places, Queued(k), k # i
         PROVE  timers[k].id # id /\ timers[k].id \in DOMAIN held'
    <3>1. timers[k].id \in DOMAIN held
      BY <1>1, <2>12 DEF HeldSound
    <3>2. timers[k].id # 0
      BY <1>1, <1>2, <3>1 DEF QueueTyped, Places
    <3> QED
      BY <1>1, <1>3, <1>4, <1>6, <2>12, <3>1, <3>2 DEF IdentifiersSound
  <2>13. ASSUME NEW j \in Places, Queued(j)'
         PROVE  /\ timers'[j] = timers[from(j)] /\ Queued(from(j)) /\ from(j) \in Places
                /\ timers'[j].id \in DOMAIN held'
                /\ timers'[j].id # id
                /\ j < n
    <3>1. j # n /\ Queued(from(j)) /\ from(j) # i /\ from(j) \in Places
      BY <2>4, <2>9, <2>13
    <3>2. timers'[j] = timers[from(j)]
      BY <2>3, <3>1
    <3>3. j < n
      BY <1>2, <2>1, <2>13 DEF Queued
    <3> QED
      BY <2>12, <3>1, <3>2, <3>3
  <2>14. \A h \in DOMAIN held' : \E j \in Places : Queued(j)' /\ timers'[j].id = h
    <3>1. ASSUME NEW h \in DOMAIN held'
          PROVE  \E j \in Places : Queued(j)' /\ timers'[j].id = h
      <4>1. PICK k \in Places : Queued(k) /\ timers[k].id = h
        BY <1>1, <1>6, <3>1 DEF HeldSound
      <4>2. k # i
        BY <1>3, <1>6, <3>1, <4>1
      <4>3. PICK j \in Places : Queued(j)' /\ from(j) = k
        BY <2>11, <4>1, <4>2
      <4> QED
        BY <2>6, <4>1, <4>3
    <3> QED
      BY <3>1
  <2>15. \A j \in Places : Queued(j)' => /\ timers'[j].id \in DOMAIN held'
                                         /\ timers'[j].deadline = held'[timers'[j].id].deadline
    BY <1>1, <1>6, <2>13 DEF HeldSound
  <2>16. \A j \in Places : j < firing' => ~timers'[j].callback
    <3>1. \A j \in Places : j < firing => j < i /\ j # n
      BY <1>2, <1>3, <1>8 DEF Places
    <3> QED
      BY <1>1, <1>4, <2>3, <2>4, <3>1 DEF HeldSound
  <2>17. \A j \in Places : j \in numExpired' + 1 .. numActive' => timers'[j].callback
    <3>1. \A j \in Places : j \in numExpired + 1 .. n - 1 =>
              from(j) \in numExpired + 1 .. n /\ j # n
      BY <1>2, <1>3, <1>8, <2>4 DEF Places
    <3> QED
      BY <1>1, <1>4, <2>1, <2>3, <2>4, <3>1 DEF HeldSound
  <2>18. ASSUME NEW j \in Places, NEW k \in Places, Queued(j)', Queued(k)', j < k
         PROVE  \/ Precedes(j, k)'
                \/ j <= numExpired' /\ k > numExpired' /\ held'[timers'[k].id].round
    <3>1. from(j) < from(k)
      BY <1>2, <1>3, <2>4, <2>13, <2>18 DEF Places
    <3>2. \/ Precedes(from(j), from(k))
          \/ /\ from(j) <= numExpired /\ from(k) > numExpired
             /\ held[timers[from(k)].id].round
      BY <1>1, <2>13, <2>18, <3>1 DEF OrderSound
    <3>3. /\ held'[timers'[k].id].earlier = held[timers[from(k)].id].earlier \ {id}
          /\ held'[timers'[k].id].round = held[timers[from(k)].id].round
          /\ timers'[j].id # id /\ timers'[j] = timers[from(j)] /\ timers'[k] = timers[from(k)]
      BY <1>6, <2>13, <2>18
    <3>4. CASE Precedes(from(j), from(k))
      BY <3>3, <3>4 DEF Precedes
    <3>5. CASE /\ from(j) <= numExpired /\ from(k) > numExpired
               /\ held[timers[from(k)].id].round
      BY <1>4, <2>10, <2>13, <2>18, <3>3, <3>5
    <3> QED
      BY <3>2, <3>4, <3>5
  <2>19. \A j \in Places : Queued(j)' /\ j <= numExpired' =>
             timers'[j].deadline <= now' /\ ~held'[timers'[j].id].round
    <3>1. ASSUME NEW j \in Places, Queued(j)', j <= numExpired
          PROVE  timers'[j].deadline <= now /\ ~held'[timers'[j].id].round
      <4>1. /\ timers'[j] = timers[from(j)] /\ Queued(from(j)) /\ from(j) \in Places
            /\ timers'[j].id \in DOMAIN held' /\ from(j) <= numExpired
        BY <2>10, <2>13, <3>1
      <4> QED
        BY <1>1, <1>6, <4>1 DEF OrderSound
    <3> QED
      BY <1>4, <3>1
  <2>20. firing' = 0 => \A h \in DOMAIN held' : ~held'[h].round
    BY <1>1, <1>4, <1>6 DEF OrderSound
  <2> QED
    BY <2>7, <2>8, <2>14, <2>15, <2>16, <2>17, <2>18, <2>19, <2>20
       DEF TimerInv, HeldSound, OrderSound
<1> QED
  BY <1>2, <1>7, <1>8

LEMMA ReturnKeeps ==
    ASSUME TimerInv, CallbackReturns
    PROVE  TimerInv'
<1> DEFINE i == NextToFire(firing, numExpired)
           cleared == Silenced(firing)
<1>1. QueueTyped /\ IdentifiersSound /\ HeldSound /\ OrderSound
  BY DEF TimerInv
<1>2. /\ MaxTimers \in Nat /\ numActive \in Nat /\ numExpired \in Nat /\ firing \in Nat /\ peak \in Nat
      /\ numActive <= MaxTimers /\ numExpired <= numActive /\ firing <= numExpired
      /\ numActive <= peak /\ 1 .. numActive \subseteq Places
      /\ \A j \in Places : timers[j] \in TimerEntries /\ timers[j].callback \in BOOLEAN
  BY <1>1, QueueFields
<1>3. firing # 0 /\ peak' = peak /\ now' = now /\ firing \in Places
  BY <1>2 DEF CallbackReturns
<1>4. /\ cleared \in [Places -> TimerEntries]
      /\ \A j \in Places : /\ cleared[j].id = timers[j].id
                           /\ cleared[j].deadline = timers[j].deadline
                           /\ cleared[j].callback = (timers[j].callback /\ j # firing)
  BY <1>1, <1>3, ClearedIs
<1>5. /\ i \in 0 .. numActive
      /\ i # 0 => i \in firing + 1 .. numExpired /\ timers[i].callback
      /\ \A j \in firing + 1 .. numExpired : timers[j].callback => i # 0 /\ i <= j
  <2>1. firing \in 0 .. numActive /\ numExpired \in 0 .. numActive
    BY <1>2
  <2> QED
    BY <1>1, <2>1, NextToFireIs
<1>6. \/ i # 0 /\ timers' = cleared /\ Fire(i) /\ numActive' = numActive /\ numExpired' = numExpired
      \/ /\ i = 0 /\ timers' = Freed(cleared) /\ numActive' = numActive - numExpired
         /\ numExpired' = 0 /\ firing' = 0
         /\ held' = [h \in DOMAIN held |-> [held[h] EXCEPT !.round = FALSE]]
  BY DEF CallbackReturns
<1> HIDE DEF i, cleared
<1>7. CASE i # 0
  <2>1. /\ i \in 1 .. numActive /\ firing < i /\ i <= numExpired /\ Queued(i)
    BY <1>2, <1>5, <1>7 DEF Queued
  <2>2. \A j \in Places : firing < j /\ j < i => ~timers[j].callback
    BY <1>2, <1>5, <1>7 DEF Places
  <2>3. /\ timers' = cleared /\ Fire(i) /\ numActive' = numActive /\ numExpired' = numExpired
    BY <1>6, <1>7
  <2>4. \A j \in Places : Queued(j) /\ j <= numExpired' =>
               timers[j].deadline <= now /\ ~held[timers[j].id].round
    BY <1>1, <2>3 DEF OrderSound
  <2>5. numExpired' \in numExpired .. numActive /\ i <= numExpired'
    BY <1>2, <2>1, <2>3
  <2> QED
    BY <1>3, <1>4, <2>1, <2>2, <2>3, <2>4, <2>5, FireKeeps
<1>8. CASE i = 0
  <2> DEFINE n == numActive
             m == n - numExpired
             from == [j \in Places |-> IF j <= m THEN j + numExpired
                                       ELSE IF j <= n THEN n + 1 - j ELSE j]
  <2>1. /\ timers' = Freed(cleared) /\ numActive' = m /\ numExpired' = 0 /\ firing' = 0
        /\ held' = [h \in DOMAIN held |-> [held[h] EXCEPT !.round = FALSE]]
    BY <1>6, <1>8
  <2>2. /\ m \in Nat /\ m <= n
        /\ \A j \in Places : /\ from[j] \in Places
                             /\ j <= m => from[j] = j + numExpired
                             /\ (from[j] <= n) = (j <= n)
                             /\ (from[j] <= peak) = (j <= peak)
    BY <1>2 DEF Places
  <2>3. \A j, k \in Places : from[j] = from[k] => j = k
    BY <1>2 DEF Places
  <2>4. /\ timers' \in [Places -> TimerEntries]
        /\ \A j \in Places : timers'[j].id = cleared[from[j]].id
        /\ \A j \in Places : j <= m => timers'[j] = cleared[j + numExpired]
    <3>1. timers' = [j \in Places |->
              IF j <= m THEN cleared[j + numExpired]
              ELSE IF j <= n THEN Unused(cleared[n + 1 - j].id)
              ELSE cleared[j]]
      BY <2>1 DEF Freed, Places
    <3>2. ASSUME NEW j \in Places
          PROVE  /\ timers'[j] \in TimerEntries /\ timers'[j].id = cleared[from[j]].id
                 /\ j <= m => timers'[j] = cleared[j + numExpired]
      <4>1. CASE j <= m
        BY <1>4, <2>2, <3>1, <4>1
      <4>2. CASE ~(j <= m) /\ j <= n
        <5> DEFINE x == cleared[n + 1 - j].id
        <5>1. from[j] = n + 1 - j /\ x \in 0 .. MaxTimers
          BY <1>4, <2>2, <4>2 DEF TimerEntries
        <5> HIDE DEF x
        <5>3. timers'[j] = [id |-> x, deadline |-> 0, callback |-> FALSE]
          BY <3>1, <4>2 DEF x, Unused
        <5>4. timers'[j] \in TimerEntries /\ timers'[j].id = x
          BY <5>1, <5>3 DEF TimerEntries
        <5> QED
          BY <4>2, <5>1, <5>4 DEF x
      <4>3. CASE ~(j <= m) /\ ~(j <= n)
        BY <1>2, <1>4, <2>2, <3>1, <4>3
      <4> QED
        BY <4>1, <4>2, <4>3
    <3> QED
      BY <3>1, <3>2
  <2> HIDE DEF from
  <2>5. \A j \in Places : timers'[j].id = timers[from[j]].id
    BY <1>4, <2>2, <2>4
  <2>6. IdentifiersSound'
    <3>1. \A j \in Places : (timers'[j].id # 0) = (j <= peak') /\ timers'[j].id <= peak'
      BY <1>1, <1>3, <2>2, <2>5 DEF IdentifiersSound
    <3>2. \A j, k \in Places : timers'[j].id = timers'[k].id /\ timers'[j].id # 0 => j = k
      BY <1>1, <2>2, <2>3, <2>5 DEF IdentifiersSound
    <3> QED
      BY <3>1, <3>2 DEF IdentifiersSound
  <2>7. /\ DOMAIN held' = DOMAIN held
        /\ held' \in [DOMAIN held' -> [deadline : Nat, round : BOOLEAN, earlier : SUBSET Places]]
        /\ \A h \in DOMAIN held : /\ held'[h].deadline = held[h].deadline /\ ~held'[h].round
                                  /\ held'[h].earlier = held[h].earlier
    <3>1. \A h \in DOMAIN held : held[h] \in [deadline : Nat, round : BOOLEAN, earlier : SUBSET Places]
      BY <1>1 DEF QueueTyped
    <3>2. \A h \in DOMAIN held : held'[h] = [held[h] EXCEPT !.round = FALSE]
      BY <2>1
    <3>3. ASSUME NEW h \in DOMAIN held
          PROVE  /\ held'[h] \in [deadline : Nat, round : BOOLEAN, earlier : SUBSET Places]
                 /\ held'[h].deadline = held[h].deadline /\ ~held'[h].round
                 /\ held'[h].earlier = held[h].earlier
      BY <3>1, <3>2
    <3> QED
      BY <2>1, <3>3
  <2>8. QueueTyped'
    <3>1. numActive' \in 0 .. MaxTimers /\ peak' \in numActive' .. MaxTimers
      BY <1>1, <1>2, <1>3, <2>1, <2>2 DEF QueueTyped
    <3> QED
      BY <1>1, <1>3, <2>1, <2>4, <2>7, <3>1 DEF QueueTyped
  <2>9. \A j \in Places : Queued(j) => j \in numExpired + 1 .. n
    <3>1. ASSUME NEW j \in Places, Queued(j) PROVE j \in numExpired + 1 .. n
      <4>1. ~(j < firing) /\ j # firing /\ j \in 1 .. n
        BY <1>1, <3>1 DEF HeldSound, Queued
      <4>2. j \notin firing + 1 .. numExpired
        BY <1>5, <1>8, <3>1 DEF Queued
      <4> QED
        BY <1>2, <4>1, <4>2
    <3> QED
      BY <3>1
  <2>10. ASSUME NEW j \in Places, j <= m
         PROVE  /\ j + numExpired \in Places /\ j + numExpired \in numExpired + 1 .. n
                /\ Queued(j + numExpired) /\ timers'[j] = timers[j + numExpired]
                /\ Queued(j)'
    <3>1. j + numExpired \in numExpired + 1 .. n /\ j + numExpired \in Places
      BY <1>2, <2>2, <2>10 DEF Places
    <3>2. timers[j + numExpired].callback /\ j + numExpired # firing
      BY <1>1, <1>2, <3>1 DEF HeldSound
    <3>3. cleared[j + numExpired] = timers[j + numExpired]
      BY <1>2, <1>3, <1>4, <3>1, <3>2 DEF TimerEntries
    <3>4. timers'[j] = timers[j + numExpired]
      BY <2>4, <2>10, <3>3
    <3>5. Queued(j + numExpired)
      BY <1>2, <3>1, <3>2 DEF Queued
    <3>6. Queued(j)'
      BY <2>1, <2>2, <2>10, <3>2, <3>4 DEF Queued, Places
    <3> QED
      BY <3>1, <3>4, <3>5, <3>6
  <2>11. \A j \in Places : Queued(j)' => j <= m
    BY <2>1, <2>2 DEF Queued
  <2>12. HeldSound'
    <3>1. ASSUME NEW h \in DOMAIN held'
          PROVE  \E j \in Places : Queued(j)' /\ timers'[j].id = h
      <4>1. PICK k \in Places : Queued(k) /\ timers[k].id = h
        BY <1>1, <2>7, <3>1 DEF HeldSound
      <4>2. k \in numExpired + 1 .. n
        BY <2>9, <4>1
      <4>3. k - numExpired \in Places /\ k - numExpired <= m /\ k - numExpired + numExpired = k
        BY <1>2, <4>2 DEF Places
      <4> QED
        BY <2>10, <4>1, <4>3
    <3>2. ASSUME NEW j \in Places, Queued(j)'
          PROVE  /\ timers'[j].id \in DOMAIN held'
                 /\ timers'[j].deadline = held'[timers'[j].id].deadline
      BY <1>1, <2>7, <2>10, <2>11, <3>2 DEF HeldSound
    <3>3. \A j \in Places : ~(j < firing')
      BY <2>1 DEF Places
    <3>4. \A j \in Places : j \in numExpired' + 1 .. numActive' => timers'[j].callback
      BY <2>1, <2>2, <2>10 DEF Queued
    <3> QED
      BY <3>1, <3>2, <3>3, <3>4 DEF HeldSound
  <2>13. ASSUME NEW j \in Places, NEW k \in Places, Queued(j)', Queued(k)', j < k
         PROVE  Precedes(j, k)'
    <3>1. /\ timers'[j] = timers[j + numExpired] /\ timers'[k] = timers[k + numExpired]
          /\ j + numExpired \in Places /\ k + numExpired \in Places
          /\ Queued(j + numExpired) /\ Queued(k + numExpired) /\ ~(j + numExpired <= numExpired)
          /\ j + numExpired < k + numExpired
      BY <1>2, <2>10, <2>11, <2>13 DEF Places
    <3>2. Precedes(j + numExpired, k + numExpired)
      BY <1>1, <3>1 DEF OrderSound
    <3>3. timers[k + numExpired].id \in DOMAIN held
      BY <1>1, <3>1 DEF HeldSound
    <3> QED
      BY <2>7, <3>1, <3>2, <3>3 DEF Precedes
  <2>14. \A j \in Places : ~(j <= numExpired')
    BY <2>1 DEF Places
  <2> QED
    BY <2>1, <2>6, <2>7, <2>8, <2>12, <2>13, <2>14 DEF TimerInv, OrderSound
<1> QED
  BY <1>7, <1>8

LEMMA InitTimers == TimerInit => TimerInv
<1> SUFFICES ASSUME TimerInit PROVE TimerInv
  OBVIOUS
<1>1. /\ timers = [i \in Places |-> Unused(0)] /\ numActive = 0 /\ numExpired = 0 /\ firing = 0
      /\ peak = 0 /\ now = 0 /\ held = <<>> /\ MaxTimers \in Nat
  BY TimerAssumption DEF TimerInit, Places
<1>2. Unused(0) \in TimerEntries /\ Unused(0).id = 0
  BY <1>1 DEF Unused, TimerEntries
<1>3. DOMAIN held = {} /\ held \in [{} -> [deadline : Nat, round : BOOLEAN, earlier : SUBSET Places]]
  BY <1>1
<1>4. QueueTyped
  BY <1>1, <1>2, <1>3 DEF QueueTyped
<1>5. IdentifiersSound
  BY <1>1, <1>2 DEF IdentifiersSound, Places
<1>6. \A i \in Places : ~Queued(i) /\ ~(i < firing) /\ i \notin numExpired + 1 .. numActive
  BY <1>1 DEF Queued, Places
<1> QED
  BY <1>3, <1>4, <1>5, <1>6 DEF TimerInv, HeldSound, OrderSound

LEMMA NextTimers ==
    ASSUME TimerInv, [TimerNext]_timerVars
    PROVE  TimerInv'
<1>1. CASE Tick
  <2>1. now' \in Nat /\ now' = now + 1 /\ now \in Nat
    BY <1>1 DEF Tick, TimerInv, QueueTyped
  <2>2. UNCHANGED <<timers, numActive, numExpired, firing, peak, held>>
    BY <1>1 DEF Tick
  <2>3. QueueTyped' /\ IdentifiersSound' /\ HeldSound'
    BY <2>1, <2>2 DEF TimerInv, QueueTyped, IdentifiersSound, HeldSound, Queued
  <2>4. \A i \in Places : timers[i].deadline \in Nat
    BY QueueFields DEF TimerInv
  <2>5. OrderSound'
    BY <2>1, <2>2, <2>4 DEF TimerInv, OrderSound, Queued, Precedes
  <2> QED
    BY <2>3, <2>5 DEF TimerInv
<1>2. CASE UNCHANGED timerVars
  <2>1. UNCHANGED <<timers, numActive, numExpired, firing, peak, now, held>>
    BY <1>2 DEF timerVars
  <2> QED
    BY <2>1 DEF TimerInv, QueueTyped, IdentifiersSound, HeldSound, OrderSound, Queued, Precedes
<1> QED
  BY <1>1, <1>2, RegisterKeeps, DeregisterKeeps, ProcessKeeps, ReturnKeeps DEF TimerNext

\* Which timer fires.
LEMMA NextFires ==
    ASSUME TimerInv, TimerInv', [TimerNext]_timerVars
    PROVE  FiresInOrder
<1> SUFFICES ASSUME NEW id \in DOMAIN held, firing' # 0, firing' # firing, timers[firing'].id = id
             PROVE  /\ held[id].deadline <= now
                    /\ ~held[id].round
                    /\ \A other \in DOMAIN held \ {id} :
                        \/ held[other].round
                        \/ held[other].deadline > held[id].deadline
                        \/ /\ held[other].deadline = held[id].deadline
                           /\ id \in held[other].earlier
  BY DEF FiresInOrder
<1> DEFINE i == firing'
<1>1. QueueTyped /\ HeldSound /\ OrderSound /\ QueueTyped' /\ OrderSound'
  BY DEF TimerInv
<1>2. /\ numActive \in Nat /\ numExpired \in Nat /\ firing \in Nat /\ numExpired <= numActive
      /\ firing <= numExpired /\ 1 .. numActive \subseteq Places
      /\ \A j \in Places : timers[j].deadline \in Nat
  BY <1>1, QueueFields
<1>3. \/ ProcessExpiredTimers \/ CallbackReturns
  BY DEF TimerNext, timerVars, Register, Deregister, Tick
<1>4. /\ i \in 1 .. numActive /\ Queued(i) /\ timers[i].deadline <= now
      /\ ~held[id].round /\ firing < i
      /\ \A j \in Places : Queued(j) /\ j < i => FALSE
  <2>1. CASE ProcessExpiredTimers
    <3>1. /\ firing = 0 /\ numExpired = 0 /\ Expired > 0 /\ i = NextToFire(0, Expired)
      BY <1>1, <2>1 DEF ProcessExpiredTimers, Fire, QueueTyped
    <3>2. /\ FirstLater(0, now) \in 1 .. numActive + 1
          /\ \A j \in 1 .. FirstLater(0, now) - 1 : timers[j].deadline <= now
      <4>1. 0 \in 0 .. numActive /\ now \in Nat
        BY <1>1, <1>2 DEF QueueTyped
      <4> QED
        BY <1>1, <4>1, FirstLaterIs
    <3>3. Expired \in 1 .. numActive /\ \A j \in 1 .. Expired : timers[j].deadline <= now
      BY <1>2, <3>1, <3>2 DEF Expired
    <3>4. /\ i \in 0 .. numActive
          /\ i # 0 => i \in 0 + 1 .. Expired /\ timers[i].callback
          /\ \A j \in 0 + 1 .. Expired : timers[j].callback => i # 0 /\ i <= j
      <4>1. 0 \in 0 .. numActive /\ Expired \in 0 .. numActive
        BY <1>2, <3>3
      <4> QED
        BY <1>1, <3>1, <4>1, NextToFireIs
    <3> HIDE DEF i
    <3>5. i \in 1 .. Expired /\ i \in 1 .. numActive /\ timers[i].callback /\ firing < i
      BY <1>2, <3>1, <3>3, <3>4 DEF i
    <3>6. Queued(i)
      BY <3>1, <3>5 DEF Queued
    <3>7. \A j \in Places : Queued(j) /\ j < i => FALSE
      BY <1>2, <3>3, <3>4, <3>5 DEF Queued, Places
    <3> QED
      BY <1>1, <3>1, <3>3, <3>5, <3>6, <3>7 DEF OrderSound
  <2>2. CASE CallbackReturns
    <3>1. firing # 0 /\ i = NextToFire(firing, numExpired)
      BY <2>2 DEF CallbackReturns, Fire
    <3>2. /\ i \in 0 .. numActive
          /\ i # 0 => i \in firing + 1 .. numExpired /\ timers[i].callback
          /\ \A j \in firing + 1 .. numExpired : timers[j].callback => i # 0 /\ i <= j
      <4>1. firing \in 0 .. numActive /\ numExpired \in 0 .. numActive
        BY <1>2
      <4> QED
        BY <1>1, <3>1, <4>1, NextToFireIs
    <3> HIDE DEF i
    <3>3. /\ i \in 1 .. numActive /\ i \in Places /\ timers[i].callback /\ firing < i
          /\ i <= numExpired
      BY <1>2, <3>2 DEF i
    <3>4. Queued(i)
      BY <1>2, <3>3 DEF Queued
    <3>5. \A j \in Places : Queued(j) /\ j < i => FALSE
      <4>1. ASSUME NEW j \in Places, Queued(j), j < i PROVE FALSE
        <5>1. ~(j < firing) /\ j # firing /\ timers[j].callback
          BY <1>1, <4>1 DEF HeldSound, Queued
        <5>2. j \in firing + 1 .. numExpired
          BY <1>2, <3>3, <4>1, <5>1 DEF Places
        <5> QED
          BY <3>2, <3>3, <4>1, <5>1, <5>2
      <4> QED
        BY <4>1
    <3>6. timers[i].deadline <= now /\ ~held[timers[i].id].round
      BY <1>1, <3>3, <3>4 DEF OrderSound
    <3> QED
      BY <3>3, <3>4, <3>5, <3>6 DEF i
  <2> QED
    BY <1>3, <2>1, <2>2
<1> HIDE DEF i
<1>5. i \in Places /\ timers[i].id = id /\ held[id].deadline = timers[i].deadline
  BY <1>1, <1>2, <1>4 DEF HeldSound, i
<1>6. ASSUME NEW other \in DOMAIN held \ {id}
      PROVE  \/ held[other].round
             \/ held[other].deadline > held[id].deadline
             \/ /\ held[other].deadline = held[id].deadline
                /\ id \in held[other].earlier
  <2>1. PICK j \in Places : Queued(j) /\ timers[j].id = other
    BY <1>1 DEF HeldSound
  <2>2. i < j
    BY <1>2, <1>4, <1>5, <2>1 DEF Places
  <2>3. Precedes(i, j) \/ held[other].round
    BY <1>1, <1>4, <1>5, <2>1, <2>2 DEF OrderSound
  <2>4. held[other].deadline = timers[j].deadline
    BY <1>1, <2>1 DEF HeldSound
  <2> QED
    BY <1>2, <1>5, <2>1, <2>3, <2>4 DEF Precedes
<1> QED
  BY <1>4, <1>5, <1>6

LEMMA QueueServes == TimerInv => HeldTimersAreQueued
<1> SUFFICES ASSUME TimerInv PROVE HeldTimersAreQueued
  OBVIOUS
<1>1. QueueTyped /\ IdentifiersSound /\ HeldSound
  BY DEF TimerInv
<1>2. \A i \in 1 .. numActive : i \in Places /\ timers[i] \in TimerEntries
  BY <1>1, QueueFields
<1>3. ASSUME NEW id \in DOMAIN held
      PROVE  \E i \in 1 .. numActive :
                 /\ timers[i] = [id |-> id, deadline |-> held[id].deadline, callback |-> TRUE]
                 /\ i # firing
  <2>1. PICK i \in Places : Queued(i) /\ timers[i].id = id
    BY <1>1 DEF HeldSound
  <2>2. i \in 1 .. numActive /\ i # firing /\ timers[i].callback
    BY <2>1 DEF Queued
  <2>3. timers[i].deadline = held[id].deadline
    BY <1>1, <2>1 DEF HeldSound
  <2>4. timers[i] = [id |-> id, deadline |-> held[id].deadline, callback |-> TRUE]
    BY <1>2, <2>1, <2>2, <2>3 DEF TimerEntries
  <2> QED
    BY <2>2, <2>4
<1>4. \A i, j \in 1 .. MaxTimers : timers[i].id = timers[j].id /\ timers[i].id # 0 => i = j
  BY <1>1 DEF IdentifiersSound, Places
<1>5. \A i \in 1 .. numActive : timers[i].callback /\ i # firing => timers[i].id \in DOMAIN held
  BY <1>1, <1>2 DEF HeldSound, Queued
<1> QED
  BY <1>3, <1>4, <1>5 DEF HeldTimersAreQueued

\* What is registered stays queued under its identifier until it fires or is deregistered,
\* and timers fire by deadline and order of registration, whatever callbacks do to the
\* queue.  (HAPPlatformTimerRegister, HAPPlatformTimerDeregister,
\* HAPPlatformTimerProcessExpiredTimers)
THEOREM TimersAlwaysKept == TimerSpec => TimersAreKept
<1>1. TimerInv /\ [TimerNext]_timerVars => TimerInv'
  BY NextTimers
<1>2. TimerSpec => []TimerInv
  BY InitTimers, <1>1, PTL DEF TimerSpec
<1>3. TimerInv /\ TimerInv' /\ [TimerNext]_timerVars => [HeldTimersAreQueued' /\ FiresInOrder]_timerVars
  <2>1. TimerInv' => HeldTimersAreQueued'
    BY QueueServes, PTL
  <2> QED
    BY <2>1, NextFires
<1> QED
  BY <1>2, <1>3, PTL DEF TimerSpec, TimersAreKept
===================================================================================
