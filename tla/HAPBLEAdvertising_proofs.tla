----------------------- MODULE HAPBLEAdvertising_proofs -----------------------
(***************************************************************************)
(* Theorems about HAPBLEAdvertising, for any widths of its numbers, any    *)
(* characteristics and any firmware versions: what is on the air, the      *)
(* nonces of broadcasts, the GSN that a central is told and the            *)
(* configuration number.  A handler takes a world to the next one, so      *)
(* the invariants are predicates on worlds.                                *)
(***************************************************************************)
EXTENDS HAPBLEAdvertising, TLAPS, FiniteSetTheorems, SequenceTheorems,
        WellFoundedInduction

-------------------------------------------------------------------------------
\* Numbers that wrap.

LEMMA ModuloIs ==
    ASSUME NEW m \in Nat \ {0}, NEW q \in Int, NEW r \in 0 .. m - 1
    PROVE  (m * q + r) % m = r
OBVIOUS

LEMMA ModuloSmall ==
    ASSUME NEW m \in Nat \ {0}, NEW r \in 0 .. m - 1
    PROVE  r % m = r /\ (r + m) % m = r /\ (r - m) % m = r
OBVIOUS

LEMMA ModuloNext ==
    ASSUME NEW m \in Nat \ {0}, NEW x \in Nat
    PROVE  /\ x % m \in 0 .. m - 1
           /\ (x + 1) % m = IF x % m = m - 1 THEN 0 ELSE (x % m) + 1
<1> DEFINE q == x \div m
           r == x % m
<1>1. q \in Int /\ r \in 0 .. m - 1 /\ x = m * q + r
  OBVIOUS
<1> HIDE DEF q, r
<1>2. CASE r = m - 1
  <2>1. x + 1 = m * (q + 1) + 0
    BY <1>1, <1>2
  <2>2. (m * (q + 1) + 0) % m = 0
    BY <1>1, ModuloIs
  <2> QED
    BY <1>1, <1>2, <2>1, <2>2 DEF r
<1>3. CASE r # m - 1
  <2>1. x + 1 = m * q + (r + 1) /\ r + 1 \in 0 .. m - 1
    BY <1>1, <1>3
  <2>2. (m * q + (r + 1)) % m = r + 1
    BY <1>1, <2>1, ModuloIs
  <2> QED
    BY <1>1, <1>3, <2>1, <2>2 DEF r
<1> QED
  BY <1>2, <1>3

\* A number below m, and the one after it.
Up(c, m) == IF c = m THEN 1 ELSE c + 1

\* Steps from one number to another, round the wrap.
Distance(m, from, to) == IF from <= to THEN to - from ELSE to - from + m

LEMMA DistanceIs ==
    ASSUME NEW m \in Nat \ {0}, NEW c \in 1 .. m, NEW d \in 1 .. m
    PROVE  /\ Up(d, m) \in 1 .. m /\ Distance(m, c, d) \in 0 .. m - 1
           /\ Distance(m, c, d) = 0 <=> c = d
           /\ Distance(m, c, Up(d, m)) =
                  IF Distance(m, c, d) = m - 1 THEN 0 ELSE Distance(m, c, d) + 1
           /\ c # d => Distance(m, Up(c, m), d) = Distance(m, c, d) - 1
BY DEF Distance, Up

\* The same number in fewer bits.
Short(n, m) == ((n - 1) % m) + 1

LEMMA ShortIs ==
    ASSUME NEW m \in Nat \ {0}, NEW n \in Nat \ {0}
    PROVE  Short(n, m) \in 1 .. m /\ Short(n + 1, m) = Up(Short(n, m), m)
<1>1. n - 1 \in Nat /\ (n - 1) + 1 = n /\ (n + 1) - 1 = n
  OBVIOUS
<1>2. /\ (n - 1) % m \in 0 .. m - 1
      /\ n % m = IF (n - 1) % m = m - 1 THEN 0 ELSE ((n - 1) % m) + 1
  BY <1>1, ModuloNext
<1> QED
  BY <1>1, <1>2 DEF Short, Up

\* What the wider number does when it wraps, the shorter one does.
LEMMA ShortWraps ==
    ASSUME NEW m \in Nat \ {0}, NEW M \in Nat \ {0}, M % m = 0
    PROVE  Short(M, m) = m /\ Short(1, m) = 1
<1>1. M - 1 \in Nat /\ (M - 1) + 1 = M
  OBVIOUS
<1>2. /\ (M - 1) % m \in 0 .. m - 1
      /\ M % m = IF (M - 1) % m = m - 1 THEN 0 ELSE ((M - 1) % m) + 1
  BY <1>1, ModuloNext
<1>3. 0 % m = 0
  BY ModuloSmall
<1> QED
  BY <1>2, <1>3 DEF Short

LEMMA ShortUp ==
    ASSUME NEW m \in Nat \ {0}, NEW M \in Nat \ {0}, M % m = 0, NEW n \in 1 .. M
    PROVE  Short(Up(n, M), m) = Up(Short(n, m), m)
<1>1. CASE n = M
  <2>1. Up(n, M) = 1 /\ Short(n, m) = m /\ Short(1, m) = 1
    BY <1>1, ShortWraps DEF Up
  <2> QED
    BY <2>1 DEF Up
<1>2. CASE n # M
  <2>1. Up(n, M) = n + 1
    BY <1>2 DEF Up
  <2> QED
    BY <2>1, ShortIs
<1> QED
  BY <1>1, <1>2

-------------------------------------------------------------------------------
\* The Configuration domain.

Keys == {"CN", "GSN", "Broadcast", "Version", "LTSK"}
GSNs == 1 .. UINT16_MAX

StoreOK(s) ==
    /\ DOMAIN s \subseteq Keys
    /\ "CN" \in DOMAIN s => s["CN"] \in 1 .. UINT32_MAX
    /\ "GSN" \in DOMAIN s => s["GSN"] \in [gsn : GSNs, didIncrement : BOOLEAN]
    /\ "Broadcast" \in DOMAIN s => s["Broadcast"] \in [expiration : 0 .. UINT16_MAX]
    /\ "Version" \in DOMAIN s => s["Version"] \in Images

\* Contents that agree on a key.
Agree(s, t, k) ==
    /\ k \in DOMAIN t <=> k \in DOMAIN s
    /\ k \in DOMAIN s => t[k] = s[k]

Number(s, t) == Agree(s, t, "CN")
State(s, t) == Agree(s, t, "GSN")
Key(s, t) == Agree(s, t, "Broadcast")
Program(s, t) == Agree(s, t, "Version")
Secret(s, t) == Agree(s, t, "LTSK")

\* How many more GSNs the key lasts.
Rest(s) == Distance(UINT16_MAX, GSN(s).gsn, Broadcast(s).expiration)

LEMMA StoreIs ==
    ASSUME NEW s, StoreOK(s)
    PROVE  /\ StoredCN(s) \in 1 .. UINT32_MAX /\ CN(s) \in 1 .. UINT16_MAX
           /\ CN(s) = Short(StoredCN(s), UINT16_MAX)
           /\ ShortCN(s) \in 1 .. UINT8_MAX /\ ShortCN(s) = Short(CN(s), UINT8_MAX)
           /\ GSN(s) \in [gsn : GSNs, didIncrement : BOOLEAN]
           /\ Broadcast(s) \in [expiration : 0 .. UINT16_MAX]
           /\ HasKey(s) => Broadcast(s).expiration \in GSNs /\ Rest(s) \in 0 .. UINT16_MAX - 1
<1>1. /\ UINT8_MAX \in Nat \ {0} /\ UINT16_MAX \in Nat \ {0} /\ UINT32_MAX \in Nat \ {0}
      /\ 1 \in GSNs
  BY StorageAssumption DEF GSNs
<1>2. StoredCN(s) \in 1 .. UINT32_MAX
  BY <1>1 DEF StoredCN, Stored, StoreOK
<1>3. CN(s) = Short(StoredCN(s), UINT16_MAX) /\ ShortCN(s) = Short(CN(s), UINT8_MAX)
  BY DEF CN, ShortCN, Short
<1>4. CN(s) \in 1 .. UINT16_MAX
  BY <1>1, <1>2, <1>3, ShortIs
<1>9. ShortCN(s) \in 1 .. UINT8_MAX
  BY <1>1, <1>3, <1>4, ShortIs
<1>5. GSN(s) \in [gsn : GSNs, didIncrement : BOOLEAN]
  BY <1>1 DEF GSN, Stored, StoreOK
<1>6. Broadcast(s) \in [expiration : 0 .. UINT16_MAX]
  BY <1>1 DEF Broadcast, Stored, StoreOK
<1>7. HasKey(s) => Broadcast(s).expiration \in GSNs
  BY <1>6 DEF HasKey, GSNs
<1>8. HasKey(s) => Rest(s) \in 0 .. UINT16_MAX - 1
  BY <1>1, <1>5, <1>7, DistanceIs DEF Rest, GSNs
<1> QED
  BY <1>2, <1>3, <1>4, <1>5, <1>6, <1>7, <1>8, <1>9

LEMMA SameNumber ==
    ASSUME NEW s, NEW t, Number(s, t)
    PROVE  /\ StoredCN(t) = StoredCN(s) /\ CN(t) = CN(s) /\ ShortCN(t) = ShortCN(s)
           /\ "CN" \in DOMAIN t <=> "CN" \in DOMAIN s
BY DEF Number, Agree, StoredCN, CN, ShortCN, Stored

LEMMA SameState ==
    ASSUME NEW s, NEW t, State(s, t)
    PROVE  GSN(t) = GSN(s)
BY DEF State, Agree, GSN, Stored

LEMMA SameKey ==
    ASSUME NEW s, NEW t, Key(s, t)
    PROVE  Broadcast(t) = Broadcast(s) /\ (HasKey(t) <=> HasKey(s))
BY DEF Key, Agree, Broadcast, HasKey, Stored

LEMMA CNCreatedIs ==
    ASSUME NEW s, StoreOK(s)
    PROVE  LET t == CNCreated(s)
           IN  /\ StoreOK(t) /\ State(s, t) /\ Key(s, t) /\ Program(s, t) /\ Secret(s, t)
               /\ "CN" \in DOMAIN t /\ StoredCN(t) = StoredCN(s)
               /\ CN(t) = CN(s) /\ ShortCN(t) = ShortCN(s)
<1> DEFINE t == CNCreated(s)
<1>1. /\ DOMAIN t = DOMAIN s \cup {"CN"} /\ t["CN"] = StoredCN(s)
      /\ \A k : k # "CN" => Agree(s, t, k)
      /\ StoredCN(t) = StoredCN(s)
  BY DEF KVSSet, Agree, Stored, CNCreated, StoredCN
<1> HIDE DEF t
<1>2. StoreOK(t)
  BY <1>1, StoreIs DEF StoreOK, Agree, Keys
<1>3. CN(t) = CN(s) /\ ShortCN(t) = ShortCN(s)
  BY <1>1 DEF CN, ShortCN
<1> QED
  BY <1>1, <1>2, <1>3 DEF t, State, Key, Program, Secret

\* The reported numbers go on by one, and wrap with their own widths.
LEMMA IncrementCNIs ==
    ASSUME NEW s, StoreOK(s)
    PROVE  LET t == IncrementCN(s)
           IN  /\ StoreOK(t) /\ State(s, t) /\ Key(s, t) /\ Program(s, t) /\ Secret(s, t)
               /\ "CN" \in DOMAIN t
               /\ "CN" \in DOMAIN s => /\ CN(t) = Up(CN(s), UINT16_MAX)
                                       /\ ShortCN(t) = Up(ShortCN(s), UINT8_MAX)
<1> DEFINE t == IncrementCN(s)
           n == IF "CN" \notin DOMAIN s \/ s["CN"] = UINT32_MAX THEN 1 ELSE s["CN"] + 1
<1>1. /\ DOMAIN t = DOMAIN s \cup {"CN"} /\ t["CN"] = n
      /\ \A k : k # "CN" => Agree(s, t, k)
      /\ StoredCN(t) = n
  BY DEF KVSSet, Agree, Stored, IncrementCN, StoredCN
<1>2. /\ UINT8_MAX \in Nat \ {0} /\ UINT16_MAX \in Nat \ {0} /\ UINT32_MAX \in Nat \ {0}
      /\ UINT16_MAX % UINT8_MAX = 0 /\ UINT32_MAX % UINT16_MAX = 0
  BY StorageAssumption
<1>3. n \in 1 .. UINT32_MAX
  BY <1>2 DEF StoreOK
<1>4. "CN" \in DOMAIN s => n = Up(StoredCN(s), UINT32_MAX)
  BY DEF StoredCN, Stored, Up
<1> HIDE DEF t, n
<1>5. StoreOK(t)
  BY <1>1, <1>3 DEF StoreOK, Agree, Keys
<1>6. "CN" \in DOMAIN s => CN(t) = Up(CN(s), UINT16_MAX)
  BY <1>1, <1>2, <1>4, <1>5, StoreIs, ShortUp
<1>7. "CN" \in DOMAIN s => ShortCN(t) = Up(ShortCN(s), UINT8_MAX)
  BY <1>2, <1>5, <1>6, StoreIs, ShortUp
<1> QED
  BY <1>1, <1>5, <1>6, <1>7 DEF t, State, Key, Program, Secret

LEMMA SetGSNIs ==
    ASSUME NEW s, StoreOK(s), NEW g \in GSNs, NEW b \in BOOLEAN
    PROVE  LET t == SetGSN(s, g, b)
           IN  /\ StoreOK(t) /\ Number(s, t) /\ Key(s, t) /\ Program(s, t) /\ Secret(s, t)
               /\ GSN(t) = [gsn |-> g, didIncrement |-> b]
<1> DEFINE t == SetGSN(s, g, b)
<1>1. /\ DOMAIN t = DOMAIN s \cup {"GSN"} /\ t["GSN"] = [gsn |-> g, didIncrement |-> b]
      /\ \A k : k # "GSN" => Agree(s, t, k)
      /\ GSN(t) = [gsn |-> g, didIncrement |-> b]
  BY DEF KVSSet, Agree, Stored, SetGSN, GSN
<1> HIDE DEF t
<1>2. StoreOK(t)
  BY <1>1 DEF StoreOK, Agree, Keys
<1> QED
  BY <1>1, <1>2 DEF t, Number, Key, Program, Secret

LEMMA SetKeyIs ==
    ASSUME NEW s, StoreOK(s), NEW e \in 0 .. UINT16_MAX
    PROVE  LET t == KVSSet(s, "Broadcast", [expiration |-> e])
           IN  /\ StoreOK(t) /\ Number(s, t) /\ State(s, t) /\ Program(s, t) /\ Secret(s, t)
               /\ Broadcast(t).expiration = e /\ (HasKey(t) <=> e # 0)
<1> DEFINE t == KVSSet(s, "Broadcast", [expiration |-> e])
<1>1. /\ DOMAIN t = DOMAIN s \cup {"Broadcast"} /\ t["Broadcast"] = [expiration |-> e]
      /\ \A k : k # "Broadcast" => Agree(s, t, k)
      /\ Broadcast(t).expiration = e
  BY DEF KVSSet, Agree, Stored, Broadcast
<1> HIDE DEF t
<1>2. StoreOK(t)
  BY <1>1 DEF StoreOK, Agree, Keys
<1> QED
  BY <1>1, <1>2 DEF t, Number, State, Program, Secret, HasKey

LEMMA SetVersionIs ==
    ASSUME NEW s, StoreOK(s), NEW i \in Images
    PROVE  LET t == KVSSet(s, "Version", i)
           IN  /\ StoreOK(t) /\ Number(s, t) /\ State(s, t) /\ Key(s, t) /\ Secret(s, t)
               /\ "Version" \in DOMAIN t /\ t["Version"] = i
<1> DEFINE t == KVSSet(s, "Version", i)
<1>1. /\ DOMAIN t = DOMAIN s \cup {"Version"} /\ t["Version"] = i
      /\ \A k : k # "Version" => Agree(s, t, k)
  BY DEF KVSSet, Agree
<1> HIDE DEF t
<1>2. StoreOK(t)
  BY <1>1 DEF StoreOK, Agree, Keys
<1> QED
  BY <1>1, <1>2 DEF t, Number, State, Key, Secret

LEMMA LoadLTSKIs ==
    ASSUME NEW s, StoreOK(s)
    PROVE  LET t == LoadLTSK(s)
           IN  /\ StoreOK(t) /\ Number(s, t) /\ State(s, t) /\ Key(s, t) /\ Program(s, t)
               /\ "LTSK" \in DOMAIN t
<1> DEFINE t == LoadLTSK(s)
<1>1. DOMAIN t = DOMAIN s \cup {"LTSK"} /\ \A k : k # "LTSK" => Agree(s, t, k)
  BY DEF KVSSet, Agree, LoadLTSK
<1> HIDE DEF t
<1>2. StoreOK(t)
  BY <1>1 DEF StoreOK, Agree, Keys
<1> QED
  BY <1>1, <1>2 DEF t, Number, State, Key, Program

LEMMA RemoveGSNIs ==
    ASSUME NEW s, StoreOK(s)
    PROVE  LET t == KVSRemove(s, "GSN")
           IN  /\ StoreOK(t) /\ Number(s, t) /\ Key(s, t) /\ Program(s, t) /\ Secret(s, t)
               /\ GSN(t) = [gsn |-> 1, didIncrement |-> FALSE]
<1> DEFINE t == KVSRemove(s, "GSN")
<1>1. /\ DOMAIN t = DOMAIN s \ {"GSN"} /\ \A k : k # "GSN" => Agree(s, t, k)
      /\ GSN(t) = [gsn |-> 1, didIncrement |-> FALSE]
  BY DEF KVSRemove, KVSRestrict, GSN, Stored, Agree
<1> HIDE DEF t
<1>2. StoreOK(t)
  BY <1>1 DEF StoreOK, Agree, Keys
<1> QED
  BY <1>1, <1>2 DEF t, Number, Key, Program, Secret

\* What a reset that is cut off leaves.
LEMMA RestrictIs ==
    ASSUME NEW s, StoreOK(s), NEW r \in KVSPartlyPurged(s)
    PROVE  StoreOK(r) /\ DOMAIN r \subseteq DOMAIN s
<1>1. PICK K \in SUBSET DOMAIN s : r = [k \in K |-> s[k]]
  BY DEF KVSPartlyPurged, KVSRestrict
<1> QED
  BY <1>1 DEF StoreOK

LEMMA AgreeIs ==
    ASSUME NEW r, NEW s, NEW t, NEW k, Agree(r, s, k), Agree(s, t, k)
    PROVE  Agree(r, t, k)
BY DEF Agree

LEMMA KeyLifeIs == KeyLife \in Nat /\ 1 <= KeyLife /\ 2 * KeyLife <= UINT16_MAX
BY StorageAssumption DEF KeyLife

LEMMA KeyGeneratedIs ==
    ASSUME NEW s, StoreOK(s)
    PROVE  LET t == KeyGenerated(s)
           IN  /\ StoreOK(t) /\ Number(s, t) /\ State(s, t) /\ Program(s, t) /\ Secret(s, t)
               /\ HasKey(t) /\ Rest(t) < KeyLife
<1> DEFINE t == KeyGenerated(s)
           g == GSN(s).gsn
           end == g + KeyLife - 1
           e == IF end > UINT16_MAX THEN end - UINT16_MAX ELSE end
<1>1. t = KVSSet(s, "Broadcast", [expiration |-> e])
  BY DEF KeyGenerated
<1>2. g \in GSNs /\ UINT16_MAX \in Nat
  BY StoreIs, StorageAssumption
<1>3. e \in GSNs /\ Distance(UINT16_MAX, g, e) = KeyLife - 1
  <2> HIDE DEF g
  <2> QED
    BY <1>2, KeyLifeIs DEF GSNs, Distance
<1> HIDE DEF e, t
<1>4. e \in 0 .. UINT16_MAX /\ e # 0
  BY <1>3 DEF GSNs
<1>5. /\ StoreOK(t) /\ Number(s, t) /\ State(s, t) /\ Program(s, t) /\ Secret(s, t)
      /\ Broadcast(t).expiration = e /\ HasKey(t)
  BY <1>1, <1>4, SetKeyIs
<1>6. Rest(t) = KeyLife - 1
  BY <1>3, <1>5, SameState DEF Rest
<1> QED
  BY <1>5, <1>6, KeyLifeIs DEF t

\* Each GSN takes one from what is left of the key, and the last one takes the key.
LEMMA IncrementGSNIs ==
    ASSUME NEW s, StoreOK(s)
    PROVE  LET r == IncrementGSN(s)[1]
               t == IncrementGSN(s)[2]
           IN  /\ StoreOK(r) /\ Number(s, r) /\ State(s, r) /\ Program(s, r) /\ Secret(s, r)
               /\ HasKey(r) => HasKey(s) /\ Rest(r) = Rest(s)
               /\ StoreOK(t) /\ Number(s, t) /\ Program(s, t) /\ Secret(s, t)
               /\ GSN(t) = [gsn |-> Up(GSN(s).gsn, UINT16_MAX), didIncrement |-> TRUE]
               /\ HasKey(t) <=> HasKey(s) /\ Broadcast(s).expiration # GSN(s).gsn
               /\ HasKey(t) => Rest(t) = Rest(s) - 1
<1> DEFINE g == GSN(s).gsn
           e == Broadcast(s).expiration
           r == IF g = e THEN ExpireKey(s) ELSE s
           n == IF g = UINT16_MAX THEN 1 ELSE g + 1
           t == SetGSN(r, n, TRUE)
<1>1. IncrementGSN(s)[1] = r /\ IncrementGSN(s)[2] = t
  BY DEF IncrementGSN
<1>2. g \in GSNs /\ e \in 0 .. UINT16_MAX /\ UINT16_MAX \in Nat \ {0}
  BY StoreIs, StorageAssumption
<1>3. n \in GSNs /\ n = Up(g, UINT16_MAX)
  BY <1>2 DEF Up, GSNs
<1>4. /\ StoreOK(r) /\ Number(s, r) /\ State(s, r) /\ Program(s, r) /\ Secret(s, r)
      /\ Broadcast(r).expiration = IF g = e THEN 0 ELSE e
  <2>1. CASE g = e
    <3>1. r = KVSSet(s, "Broadcast", [expiration |-> 0]) /\ 0 \in 0 .. UINT16_MAX
      BY <1>2, <2>1 DEF ExpireKey
    <3> QED
      BY <2>1, <3>1, SetKeyIs
  <2>2. CASE g # e
    BY <2>2 DEF Number, State, Program, Secret, Agree
  <2> QED
    BY <2>1, <2>2
<1> HIDE DEF r, n
<1>5. /\ StoreOK(t) /\ Number(r, t) /\ Key(r, t) /\ Program(r, t) /\ Secret(r, t)
      /\ GSN(t) = [gsn |-> n, didIncrement |-> TRUE]
  BY <1>3, <1>4, SetGSNIs
<1> HIDE DEF t
<1>6. Number(s, t) /\ Program(s, t) /\ Secret(s, t)
  BY <1>4, <1>5, AgreeIs DEF Number, Program, Secret
<1>7. Broadcast(t) = Broadcast(r) /\ GSN(r) = GSN(s)
  BY <1>4, <1>5, SameKey, SameState
<1>8. HasKey(r) => HasKey(s) /\ Rest(r) = Rest(s)
  BY <1>4, <1>7 DEF HasKey, Rest
<1>9. HasKey(t) <=> HasKey(s) /\ e # g
  BY <1>2, <1>4, <1>7 DEF HasKey
<1>10. HasKey(t) => Rest(t) = Rest(s) - 1
  <2>1. SUFFICES ASSUME HasKey(t) PROVE Rest(t) = Rest(s) - 1
    OBVIOUS
  <2>2. e # g /\ e \in GSNs /\ Broadcast(t).expiration = e
    BY <1>2, <1>4, <1>7, <1>9, <2>1 DEF HasKey, GSNs
  <2>3. Rest(t) = Distance(UINT16_MAX, n, e)
    BY <1>5, <2>2 DEF Rest
  <2>4. Distance(UINT16_MAX, Up(g, UINT16_MAX), e) = Distance(UINT16_MAX, g, e) - 1
    BY <1>2, <2>2, DistanceIs DEF GSNs
  <2> QED
    BY <1>3, <2>3, <2>4 DEF Rest
<1> QED
  BY <1>1, <1>3, <1>4, <1>5, <1>6, <1>8, <1>9, <1>10

-------------------------------------------------------------------------------
\* Worlds.

AdvStates ==
    [connected : BOOLEAN, iid : Broadcastable \cup {0}, interval : Intervals \cup {0},
     timer : BOOLEAN, fastTimer : BOOLEAN, fastStarted : BOOLEAN]

IsWorld(w) ==
    /\ w = [store |-> w.store, broadcasts |-> w.broadcasts, pairings |-> w.pairings,
            image |-> w.image, server |-> w.server, adv |-> w.adv, air |-> w.air,
            outdated |-> w.outdated, failed |-> w.failed, kept |-> w.kept]
    /\ StoreOK(w.store) /\ w.adv \in AdvStates

\* What the handlers of advertising leave alone.
Aside(w, u) ==
    /\ u.broadcasts = w.broadcasts /\ u.pairings = w.pairings
    /\ u.image = w.image /\ u.server = w.server /\ u.outdated = w.outdated

LEMMA Changes ==
    ASSUME NEW w, IsWorld(w)
    PROVE  /\ \A x : LET u == [w EXCEPT !.air = x]
                     IN  /\ IsWorld(u) /\ Aside(w, u) /\ u.store = w.store /\ u.adv = w.adv
                         /\ u.air = x /\ u.failed = w.failed /\ u.kept = w.kept
           /\ \A x \in AdvStates :
                     LET u == [w EXCEPT !.adv = x]
                     IN  /\ IsWorld(u) /\ Aside(w, u) /\ u.store = w.store /\ u.adv = x
                         /\ u.air = w.air /\ u.failed = w.failed /\ u.kept = w.kept
           /\ \A x : StoreOK(x) =>
                     LET u == [w EXCEPT !.store = x]
                     IN  /\ IsWorld(u) /\ Aside(w, u) /\ u.store = x /\ u.adv = w.adv
                         /\ u.air = w.air /\ u.failed = w.failed /\ u.kept = w.kept
BY DEF IsWorld, Aside

LEMMA StageChanged ==
    ASSUME NEW w, IsWorld(w), NEW x
    PROVE  LET u == [w EXCEPT !.server = x]
           IN  /\ IsWorld(u) /\ u.store = w.store /\ u.adv = w.adv /\ u.air = w.air
               /\ u.failed = w.failed /\ u.broadcasts = w.broadcasts
               /\ u.pairings = w.pairings /\ u.image = w.image /\ u.server = x
               /\ u.outdated = w.outdated
BY DEF IsWorld

\* An assertion fails in a world.
Failed(w, x) == [w EXCEPT !.failed = x, !.kept = w.store]

LEMMA FailedIs ==
    ASSUME NEW w, IsWorld(w), NEW x
    PROVE  LET u == Failed(w, x)
           IN  /\ IsWorld(u) /\ Aside(w, u) /\ u.store = w.store /\ u.adv = w.adv
               /\ u.failed = x /\ u.kept = w.store
<1> DEFINE v == [w EXCEPT !.failed = x]
           u == Failed(w, x)
<1>1. /\ IsWorld(v) /\ Aside(w, v) /\ v.store = w.store /\ v.adv = w.adv /\ v.failed = x
  BY DEF IsWorld, Aside
<1>2. u = [v EXCEPT !.kept = w.store]
  BY DEF Failed
<1> HIDE DEF u, v
<1>3. /\ IsWorld(u) /\ Aside(v, u) /\ u.store = v.store /\ u.adv = v.adv
      /\ u.failed = v.failed /\ u.kept = w.store
  BY <1>1, <1>2 DEF IsWorld, Aside
<1> QED
  BY <1>1, <1>3 DEF Aside, u

\* A world with another advertising state and another store.
With(w, x, t) == [w EXCEPT !.adv = x, !.store = t]

LEMMA WithIs ==
    ASSUME NEW w, IsWorld(w), NEW x \in AdvStates, NEW t, StoreOK(t)
    PROVE  LET v == With(w, x, t)
           IN  /\ IsWorld(v) /\ Aside(w, v) /\ v.store = t /\ v.adv = x /\ v.failed = w.failed
               /\ v.kept = w.kept
<1> DEFINE y == [w EXCEPT !.adv = x]
           v == With(w, x, t)
<1>1. /\ IsWorld(y) /\ Aside(w, y) /\ y.store = w.store /\ y.adv = x /\ y.failed = w.failed
      /\ y.kept = w.kept
  BY Changes
<1>2. v = [y EXCEPT !.store = t]
  BY DEF IsWorld, With
<1> HIDE DEF y, v
<1>3. LET z == [y EXCEPT !.store = t]
      IN  /\ IsWorld(z) /\ Aside(y, z) /\ z.store = t /\ z.adv = y.adv /\ z.failed = y.failed
          /\ z.kept = y.kept
  BY <1>1, Changes
<1>4. /\ IsWorld(v) /\ Aside(w, v) /\ v.store = t /\ v.adv = x /\ v.failed = w.failed
      /\ v.kept = w.kept
  BY <1>1, <1>2, <1>3 DEF Aside
<1> QED
  BY <1>4 DEF v

\* Contents that are as good as others to those who are told.
StoreKept(s, t) ==
    /\ StoreOK(t) /\ State(s, t) /\ Key(s, t) /\ Program(s, t) /\ Secret(s, t)
    /\ CN(t) = CN(s) /\ ShortCN(t) = ShortCN(s)
    /\ "CN" \in DOMAIN s => "CN" \in DOMAIN t

\* What is on the air of an accessory on BLE.
OnAir(w) ==
    w.server = "Running" =>
        LET now == Advertised(w)
        IN  /\ w.air.kind = now.kind
            /\ now.kind = "Event" => w.air = now
            /\ now.kind = "State" =>
                   w.air.gsn = now.gsn /\ w.air.cn = now.cn /\ (now.fast => w.air.fast)

\* What an update of the advertising data takes for granted.
MayUpdate(w) ==
    /\ w.failed = "None"
    /\ w.adv.fastTimer => w.adv.fastStarted
    /\ w.server = "Running" /\ w.adv.iid # 0 => HasKey(w.store)

\* What it makes of a world.
Updated(w, u) ==
    /\ IsWorld(u) /\ Aside(w, u) /\ StoreKept(w.store, u.store)
    /\ u.adv.connected = w.adv.connected /\ u.adv.iid = w.adv.iid
    /\ u.adv.interval = w.adv.interval /\ u.adv.timer = w.adv.timer
    /\ u.adv.fastTimer => u.adv.fastStarted
    /\ w.adv.fastStarted \/ w.server # "Running" => u.adv = w.adv
    /\ w.server = "Running" /\ ~w.adv.connected => u.adv.fastStarted
    /\ u.failed = "None"
    /\ OnAir(u)

LEMMA AdvertisedIs ==
    ASSUME NEW w
    PROVE  LET a == Advertised(w)
           IN  /\ a.kind = "None" <=> w.adv.connected
               /\ a.kind = "Event" <=> ~w.adv.connected /\ w.adv.iid # 0
               /\ a.kind = "State" <=> ~w.adv.connected /\ w.adv.iid = 0
               /\ a.kind = "State" => /\ a.fast = Fast(w.adv) /\ a.gsn = GSN(w.store).gsn
                                      /\ a.cn = ShortCN(w.store)
               /\ a.kind = "Event" => a = [kind |-> "Event", iid |-> w.adv.iid,
                                           interval |-> w.adv.interval,
                                           gsn |-> GSN(w.store).gsn]
BY DEF Advertised, Silent

LEMMA UpdateIs ==
    ASSUME NEW w, IsWorld(w), MayUpdate(w), NEW ok \in BOOLEAN
    PROVE  Updated(w, UpdateAdvertisingData(w, ok))
<1> DEFINE a == Advertised(w)
           t == IF a.kind = "State" THEN CNCreated(w.store) ELSE w.store
           b == [w EXCEPT !.air = a, !.store = t]
           u == UpdateAdvertisingData(w, ok)
<1>1. StoreOK(w.store) /\ w.adv \in AdvStates
  BY DEF IsWorld
<1>2. StoreKept(w.store, t)
  BY <1>1, CNCreatedIs DEF StoreKept, State, Key, Program, Secret, Agree
<1>3. UpdateAdvertisingData(w, ok) =
          IF w.server # "Running" THEN [w EXCEPT !.air = Silent]
          ELSE IF a.kind = "None" THEN b
          ELSE DidStartAdvertising(Asserts(b, a.kind = "Event" => HasKey(w.store),
                                           "GetAdvertisingParameters"), ok)
  <2>1. b = [w EXCEPT !.air = a, !.store = IF a.kind = "State" THEN CNCreated(@) ELSE @]
    BY DEF IsWorld
  <2> QED
    BY <2>1 DEF UpdateAdvertisingData
<1>4. /\ a.kind = "None" <=> w.adv.connected
      /\ a.kind = "Event" <=> ~w.adv.connected /\ w.adv.iid # 0
      /\ a.kind = "State" <=> ~w.adv.connected /\ w.adv.iid = 0
      /\ a.kind = "State" => /\ a.fast = Fast(w.adv) /\ a.gsn = GSN(w.store).gsn
                             /\ a.cn = ShortCN(w.store)
      /\ a.kind = "Event" => a = [kind |-> "Event", iid |-> w.adv.iid,
                                  interval |-> w.adv.interval, gsn |-> GSN(w.store).gsn]
  BY AdvertisedIs
<1> HIDE DEF t, a
<1>5. /\ IsWorld(b) /\ Aside(w, b) /\ b.store = t /\ b.adv = w.adv /\ b.air = a /\ b.failed = "None"
  <2>1. StoreOK(t) /\ w.failed = "None"
    BY <1>2 DEF StoreKept, MayUpdate
  <2> DEFINE c == [w EXCEPT !.air = a]
  <2>2. b = [c EXCEPT !.store = t]
    BY DEF IsWorld
  <2>3. /\ IsWorld(c) /\ Aside(w, c) /\ c.store = w.store /\ c.adv = w.adv /\ c.air = a
        /\ c.failed = w.failed
    BY Changes
  <2> HIDE DEF c
  <2>4. LET z == [c EXCEPT !.store = t]
        IN  /\ IsWorld(z) /\ Aside(c, z) /\ z.store = t /\ z.adv = c.adv
            /\ z.air = c.air /\ z.failed = c.failed /\ z.kept = c.kept
    BY ZenonT(40), <2>1, <2>3, Changes
  <2> QED
    BY <2>1, <2>2, <2>3, <2>4 DEF Aside
<1>6. StoreKept(w.store, w.store)
  BY <1>1 DEF StoreKept, State, Key, Program, Secret, Agree
<1>7. CASE w.server # "Running"
  <2>1. u = [w EXCEPT !.air = Silent]
    BY <1>3, <1>7
  <2>2. /\ IsWorld(u) /\ Aside(w, u) /\ u.store = w.store /\ u.adv = w.adv
        /\ u.failed = w.failed
    BY <2>1, Changes
  <2> QED
    BY <1>6, <1>7, <2>2 DEF Updated, MayUpdate, OnAir, Aside
<1> HIDE DEF b
<1>8. CASE w.server = "Running" /\ w.adv.connected
  <2>1. u = b
    BY <1>3, <1>4, <1>8
  <2>2. b.server = "Running" /\ Advertised(b).kind = "None" /\ a.kind = "None"
    BY <1>4, <1>5, <1>8, AdvertisedIs DEF Aside
  <2>3. OnAir(b)
    BY <1>5, <2>2 DEF OnAir
  <2> QED
    BY <1>2, <1>5, <1>8, <2>1, <2>3 DEF Updated, MayUpdate
<1>9. CASE w.server = "Running" /\ ~w.adv.connected
  <2>1. u = DidStartAdvertising(b, ok)
    <3>1. a.kind # "None" /\ (a.kind = "Event" => HasKey(w.store))
      BY <1>4, <1>9 DEF MayUpdate
    <3> QED
      BY <1>3, <1>9, <3>1 DEF Asserts
  <2>2. /\ IsWorld(u) /\ Aside(w, u) /\ u.store = t /\ u.air = a /\ u.failed = "None"
        /\ u.adv = IF w.adv.fastStarted THEN w.adv
                   ELSE [[w.adv EXCEPT !.fastStarted = TRUE] EXCEPT !.fastTimer = ok]
    <3>1. CASE w.adv.fastStarted
      BY <1>5, <2>1, <3>1 DEF DidStartAdvertising
    <3>2. CASE ~w.adv.fastStarted
      <4> DEFINE x == [[w.adv EXCEPT !.fastStarted = TRUE] EXCEPT !.fastTimer = ok]
      <4>1. x \in AdvStates
        BY <1>1 DEF AdvStates
      <4>2. u = [b EXCEPT !.adv.fastStarted = TRUE, !.adv.fastTimer = ok]
        BY <1>5, <2>1, <3>2 DEF DidStartAdvertising, Asserts, MayUpdate
      <4>3. u = [b EXCEPT !.adv = x]
        BY <1>5, <4>2 DEF IsWorld
      <4> HIDE DEF x, u
      <4>4. /\ IsWorld(u) /\ Aside(b, u) /\ u.store = b.store /\ u.adv = x /\ u.air = b.air
            /\ u.failed = b.failed
        BY ZenonT(40), <1>5, <4>1, <4>3, Changes
      <4>5. u.adv = [[w.adv EXCEPT !.fastStarted = TRUE] EXCEPT !.fastTimer = ok]
        BY <4>4 DEF x
      <4> QED
        BY <1>5, <3>2, <4>4, <4>5 DEF Aside
    <3> QED
      BY <3>1, <3>2
  <2> HIDE DEF u
  <2>3. /\ u.adv.connected = w.adv.connected /\ u.adv.iid = w.adv.iid
        /\ u.adv.interval = w.adv.interval /\ u.adv.timer = w.adv.timer
        /\ u.adv.fastStarted /\ (w.adv.fastStarted => u.adv = w.adv)
    BY <1>1, <2>2 DEF AdvStates
  <2>4. Fast(u.adv) => Fast(w.adv)
    BY <2>3 DEF Fast
  <2>5. GSN(t) = GSN(w.store) /\ ShortCN(t) = ShortCN(w.store)
    BY <1>2, SameState DEF StoreKept
  <2>6. OnAir(u)
    BY ZenonT(40), <1>4, <2>2, <2>3, <2>4, <2>5, AdvertisedIs DEF OnAir
  <2>7. Updated(w, u)
    BY <1>2, <1>9, <2>2, <2>3, <2>6 DEF Updated
  <2> QED
    BY <2>7 DEF u
<1> QED
  BY <1>7, <1>8, <1>9

\* No assertion has failed.
Works(w) == w.failed = "None"

\* An assertion that has failed: nothing that follows it in the step counts.
LEMMA StartFailed ==
    ASSUME NEW w, IsWorld(w), ~Works(w), NEW ok \in BOOLEAN
    PROVE  LET u == DidStartAdvertising(w, ok)
           IN  IsWorld(u) /\ Aside(w, u) /\ u.failed = w.failed /\ u.kept = w.kept
<1> DEFINE x == [[w.adv EXCEPT !.fastStarted = TRUE] EXCEPT !.fastTimer = ok]
           v == [w EXCEPT !.adv = x]
           u == DidStartAdvertising(w, ok)
<1>1. \A c, n : Asserts(w, c, n) = w
  BY DEF Asserts, Works
<1>2. v = [w EXCEPT !.adv.fastStarted = TRUE, !.adv.fastTimer = ok]
  BY DEF IsWorld
<1>3. u = IF w.adv.fastStarted THEN w ELSE v
  <2>1. Asserts(w, ~w.adv.fastTimer, "DidStartAdvertising") = w
    BY <1>1
  <2> HIDE DEF v
  <2> QED
    BY <1>2, <2>1 DEF DidStartAdvertising
<1>4. x \in AdvStates
  BY DEF IsWorld, AdvStates
<1> HIDE DEF u, x
<1>5. IsWorld(v) /\ Aside(w, v) /\ v.failed = w.failed /\ v.kept = w.kept
  BY <1>4, Changes
<1> HIDE DEF v
<1> QED
  BY <1>3, <1>5 DEF Aside, u

LEMMA UpdateFailed ==
    ASSUME NEW w, IsWorld(w), ~Works(w), NEW ok \in BOOLEAN
    PROVE  LET u == UpdateAdvertisingData(w, ok)
           IN  IsWorld(u) /\ Aside(w, u) /\ u.failed = w.failed /\ u.kept = w.kept
<1> DEFINE a == Advertised(w)
           t == IF a.kind = "State" THEN CNCreated(w.store) ELSE w.store
           c == [w EXCEPT !.air = a]
           b == [w EXCEPT !.air = a, !.store = t]
           d == [w EXCEPT !.air = Silent]
           u == UpdateAdvertisingData(w, ok)
<1>1. /\ b = [w EXCEPT !.air = a, !.store = IF a.kind = "State" THEN CNCreated(@) ELSE @]
      /\ b = [c EXCEPT !.store = t]
  BY DEF IsWorld
<1>2. u = IF w.server # "Running" THEN d
          ELSE IF a.kind = "None" THEN b
          ELSE DidStartAdvertising(Asserts(b, a.kind = "Event" => HasKey(w.store),
                                           "GetAdvertisingParameters"), ok)
  BY <1>1 DEF UpdateAdvertisingData
<1>3. StoreOK(t)
  BY CNCreatedIs DEF IsWorld
<1> HIDE DEF a, b, t, u
<1>4. /\ IsWorld(c) /\ Aside(w, c) /\ c.failed = w.failed /\ c.kept = w.kept
      /\ IsWorld(d) /\ Aside(w, d) /\ d.failed = w.failed /\ d.kept = w.kept
  BY Changes
<1> HIDE DEF c, d
<1>5. IsWorld(b) /\ Aside(c, b) /\ b.failed = c.failed /\ b.kept = c.kept
  <2>1. b = [c EXCEPT !.store = t]
    BY <1>1
  <2> QED
    BY <1>3, <1>4, <2>1, Changes
<1>6. ~Works(b)
  BY <1>4, <1>5 DEF Works
<1>7. \A x, n : Asserts(b, x, n) = b
  BY <1>6 DEF Asserts, Works
<1>8. LET z == DidStartAdvertising(b, ok)
      IN  IsWorld(z) /\ Aside(b, z) /\ z.failed = b.failed /\ z.kept = b.kept
  BY <1>5, <1>6, StartFailed
<1>9. u = d \/ u = b \/ u = DidStartAdvertising(b, ok)
  BY <1>2, <1>7
<1> QED
  BY <1>4, <1>5, <1>8, <1>9 DEF Aside, u

\* An event that is announced without a key.
LEMMA UpdateFails ==
    ASSUME NEW w, IsWorld(w), Works(w), w.server = "Running", ~w.adv.connected,
           w.adv.iid # 0, ~HasKey(w.store), NEW ok \in BOOLEAN
    PROVE  LET u == UpdateAdvertisingData(w, ok)
           IN  /\ IsWorld(u) /\ Aside(w, u)
               /\ u.failed = "GetAdvertisingParameters" /\ u.kept = w.store
<1> DEFINE a == Advertised(w)
           b == [w EXCEPT !.air = a]
           c == Failed(b, "GetAdvertisingParameters")
           u == UpdateAdvertisingData(w, ok)
<1>1. a.kind = "Event"
  BY AdvertisedIs
<1>2. b = [w EXCEPT !.air = a, !.store = IF a.kind = "State" THEN CNCreated(@) ELSE @]
  BY <1>1 DEF IsWorld
<1> HIDE DEF a
<1>3. IsWorld(b) /\ Aside(w, b) /\ b.store = w.store /\ b.failed = w.failed
  BY Changes
<1>4. u = DidStartAdvertising(Asserts(b, a.kind = "Event" => HasKey(w.store),
                                      "GetAdvertisingParameters"), ok)
  BY <1>1, <1>2 DEF UpdateAdvertisingData, a
<1> HIDE DEF b, u
<1>5. Asserts(b, a.kind = "Event" => HasKey(w.store), "GetAdvertisingParameters") = c
  BY <1>1, <1>3 DEF Asserts, Works, Failed
<1>6. /\ IsWorld(c) /\ Aside(b, c) /\ c.failed = "GetAdvertisingParameters"
      /\ c.kept = b.store
  BY <1>3, FailedIs
<1> HIDE DEF c
<1>7. ~Works(c)
  BY <1>6 DEF Works
<1>8. IsWorld(u) /\ Aside(c, u) /\ u.failed = c.failed /\ u.kept = c.kept
  BY <1>4, <1>5, <1>6, <1>7, StartFailed
<1> QED
  BY <1>3, <1>6, <1>8 DEF Aside, u

-------------------------------------------------------------------------------
\* The inductive invariant.

\* The list of characteristics to broadcast.
Ascending(list) == \A i, j \in DOMAIN list : i < j => list[i].cid < list[j].cid
ListOK(list) ==
    /\ list \in Seq([cid : Broadcastable, interval : Intervals])
    /\ Len(list) <= BroadcastsPerKey
    /\ Ascending(list)

WorldOK(w) ==
    /\ IsWorld(w) /\ ListOK(w.broadcasts) /\ w.pairings \in {"None", "Current", "Stale"}
    /\ w.image \in Images \cup {0} /\ w.server \in {"None", "Idle", "Running", "Stopping"}

\* What each stage of the process has and has not.
ProcessSound(h, w) ==
    /\ w.server = "None" => w.adv = Quiet
    /\ w.server # "None" => w.image \in Images
    /\ w.server = "Idle" => ~w.adv.connected
    /\ w.server = "Stopping" => w.adv.connected
    /\ h = "IP" => w.adv = Quiet /\ ~HasKey(w.store)
    /\ w.server = "Running" /\ h = "BLE" => w.adv.fastStarted
    /\ w.server = "Running" => w.pairings # "Stale"
    /\ w.pairings = "Stale" => "LTSK" \notin DOMAIN w.store

\* Timers and events of advertising: none in a connection, an event with a timer and a
\* key, a timer after an increment of the GSN that is not forgotten -- but for those that
\* are left from before a reset or an update, which has taken the key.
AdvSound(w) ==
    /\ w.failed = "None" /\ w.outdated \in BOOLEAN
    /\ w.adv.connected => /\ ~w.adv.timer /\ w.adv.iid = 0 /\ ~w.adv.fastTimer
                          /\ w.adv.fastStarted
    /\ w.adv.fastTimer => w.adv.fastStarted
    /\ w.adv.iid # 0 => w.adv.timer /\ (w.outdated \/ HasKey(w.store))
    /\ w.adv.timer => GSN(w.store).didIncrement \/ w.outdated
    /\ w.outdated => ~HasKey(w.store)
    /\ w.server = "Running" /\ w.adv.iid # 0 => HasKey(w.store)

AirSound(h, w) ==
    /\ h = "BLE" => OnAir(w)
    /\ h = "IP" /\ w.server = "Running" =>
           w.air = [kind |-> "Record", cn |-> CN(w.store), free |-> w.pairings = "None"]

Sound(h, w) == WorldOK(w) /\ ProcessSound(h, w) /\ AdvSound(w) /\ AirSound(h, w)

\* The key that was generated last has not been used for the GSNs that it has left,
\* unless an update that was cut off has removed the GSN: the next start goes on with it
\* and expires the key before anything is sent.
NonceSound(w, s, i) ==
    /\ ~s.again
    /\ s.offset >= 0 /\ HasKey(w.store) =>
           \/ Rest(w.store) + s.offset < KeyLife
           \/ Updates(w.store, i)

\* A central that is not connected knows the GSN as long as nothing was raised; from then
\* on the GSN goes on with the key at most, which ends before all GSNs are through.
ToldSound(w, g) ==
    ~w.adv.connected /\ g # 0 =>
        IF GSN(w.store).didIncrement
        THEN /\ GSN(w.store).gsn # g
             /\ HasKey(w.store) =>
                    Distance(UINT16_MAX, g, GSN(w.store).gsn) + Rest(w.store) < UINT16_MAX
        ELSE GSN(w.store).gsn = g

Reported(h, s) == IF h = "IP" THEN CN(s) ELSE ShortCN(s)
Modulus(h) == IF h = "IP" THEN UINT16_MAX ELSE UINT8_MAX
Added(h, s, l) == Distance(Modulus(h), l.cn, Reported(h, s))

\* The configuration number since it was published: the starts that were cut off have
\* made as many increments as the version says that the update got to, and one more for a
\* change of the bridge.
NumberSound(h, w, l, i) ==
    l # NothingSeen =>
        LET n == Added(h, w.store, l)
            updated == IF l.image < i THEN 1 ELSE 0
        IN  /\ l.cn \in 1 .. Modulus(h)
            /\ "CN" \in DOMAIN w.store /\ "Version" \in DOMAIN w.store
            /\ i = 0 => w.store["Version"] = l.image /\ n = 0
            /\ i # 0 =>
                   \/ w.store["Version"] = l.image /\ l.image < i /\ n = 1
                   \/ /\ w.store["Version"] = i /\ l.image <= i
                      /\ n = updated \/ (h = "IP" /\ n = updated + 1)

\* A start that was cut off: no other has completed since.
CutOffSound(w, i) ==
    i # 0 => /\ w.server \in {"None", "Idle"}
             /\ w.server # "None" => w.image >= i

History(h, w, s, g, l, i) ==
    /\ s \in [offset : Int, again : BOOLEAN] /\ g \in 0 .. UINT16_MAX
    /\ l.image \in Images \cup {0} /\ i \in Images \cup {0}
    /\ NonceSound(w, s, i) /\ ToldSound(w, g) /\ NumberSound(h, w, l, i) /\ CutOffSound(w, i)

Configured(list, a) ==
    /\ a \in [Broadcastable -> Intervals \cup {0}]
    /\ \A c \in Broadcastable : BroadcastInterval(list, c) = a[c]

IInv ==
    /\ hardware \in {"BLE", "IP"}
    /\ Sound(hardware, World)
    /\ History(hardware, World, sent, seen, last, interrupted)
    /\ Configured(broadcasts, asked)
    /\ outdated => adv.timer \/ server = "None"
    /\ FailsOnlyWhenOutdated

-------------------------------------------------------------------------------
\* What was told before, after a step.

LEMMA CutOffIs ==
    ASSUME NEW h, NEW w, NEW s, NEW g, NEW l, NEW i, History(h, w, s, g, l, i),
           w.server \in {"Running", "Stopping"}
    PROVE  i = 0
BY DEF History, CutOffSound

\* The contents say the same.
LEMMA HistoryKept ==
    ASSUME NEW h, NEW w, NEW u, NEW s, NEW g, NEW l, NEW i, IsWorld(w),
           History(h, w, s, g, l, i), StoreKept(w.store, u.store),
           u.adv.connected = w.adv.connected,
           i = 0 \/ (u.server = w.server /\ u.image = w.image)
    PROVE  History(h, u, s, g, l, i)
<1>1. /\ GSN(u.store) = GSN(w.store) /\ Broadcast(u.store) = Broadcast(w.store)
      /\ HasKey(u.store) <=> HasKey(w.store)
  BY SameState, SameKey DEF StoreKept
<1>2. Rest(u.store) = Rest(w.store)
  BY <1>1 DEF Rest
<1>3. /\ "Version" \in DOMAIN u.store <=> "Version" \in DOMAIN w.store
      /\ "Version" \in DOMAIN w.store => u.store["Version"] = w.store["Version"]
  BY DEF StoreKept, Program, Agree
<1>4. NonceSound(u, s, i)
  BY <1>1, <1>2, <1>3 DEF History, NonceSound, Updates
<1>5. ToldSound(u, g)
  BY <1>1, <1>2 DEF History, ToldSound
<1>6. NumberSound(h, u, l, i)
  BY <1>3 DEF History, NumberSound, StoreKept, Added, Reported
<1> QED
  BY <1>4, <1>5, <1>6 DEF History, CutOffSound

\* The GSN goes on by one.
Stepped(s, t) ==
    /\ StoreOK(t) /\ Program(s, t) /\ Secret(s, t)
    /\ CN(t) = CN(s) /\ ShortCN(t) = ShortCN(s)
    /\ "CN" \in DOMAIN s => "CN" \in DOMAIN t
    /\ GSN(t) = [gsn |-> Up(GSN(s).gsn, UINT16_MAX), didIncrement |-> TRUE]
    /\ HasKey(t) <=> HasKey(s) /\ Broadcast(s).expiration # GSN(s).gsn
    /\ HasKey(t) => Rest(t) = Rest(s) - 1

LEMMA HistoryStepped ==
    ASSUME NEW h, NEW w, NEW u, NEW s, NEW g, NEW l, NEW i, IsWorld(w),
           History(h, w, s, g, l, i), Stepped(w.store, u.store),
           u.adv.connected = w.adv.connected, u.server = w.server, u.image = w.image,
           \/ ~GSN(w.store).didIncrement
           \/ HasKey(w.store) /\ Broadcast(w.store).expiration # GSN(w.store).gsn
    PROVE  History(h, u, s, g, l, i)
<1>1. /\ "Version" \in DOMAIN u.store <=> "Version" \in DOMAIN w.store
      /\ "Version" \in DOMAIN w.store => u.store["Version"] = w.store["Version"]
  BY DEF Stepped, Program, Agree
<1>3. /\ GSN(w.store).gsn \in GSNs /\ GSN(w.store).didIncrement \in BOOLEAN
      /\ HasKey(w.store) => Rest(w.store) \in 0 .. UINT16_MAX - 1
      /\ UINT16_MAX \in Nat \ {0} /\ UINT16_MAX >= 3
  BY StoreIs, StorageAssumption DEF IsWorld
<1>4. NonceSound(u, s, i)
  BY <1>1, <1>3, KeyLifeIs DEF History, NonceSound, Stepped, Updates
<1>5. ToldSound(u, g)
  <2>1. SUFFICES ASSUME ~w.adv.connected, g # 0 PROVE ToldSound(u, g)
    BY DEF ToldSound
  <2> DEFINE x == GSN(w.store).gsn
             D(n) == Distance(UINT16_MAX, g, n)
  <2>2. g \in GSNs
    BY <2>1, <1>3 DEF History, GSNs
  <2>3. /\ D(x) \in 0 .. UINT16_MAX - 1 /\ (D(x) = 0 <=> g = x)
        /\ Up(x, UINT16_MAX) \in GSNs
        /\ D(Up(x, UINT16_MAX)) = IF D(x) = UINT16_MAX - 1 THEN 0 ELSE D(x) + 1
        /\ D(Up(x, UINT16_MAX)) = 0 <=> g = Up(x, UINT16_MAX)
    <3>1. x \in GSNs
      BY <1>3
    <3>2. x \in 1 .. UINT16_MAX /\ g \in 1 .. UINT16_MAX /\ UINT16_MAX \in Nat \ {0}
      BY <1>3, <2>2, <3>1 DEF GSNs
    <3> HIDE DEF x
    <3>3. Up(x, UINT16_MAX) \in 1 .. UINT16_MAX
      BY <3>2, DistanceIs
    <3> QED
      BY <3>2, <3>3, DistanceIs DEF GSNs
  <2>4. GSN(u.store).gsn = Up(x, UINT16_MAX) /\ GSN(u.store).didIncrement
    BY DEF Stepped
  <2> HIDE DEF D
  <2>5. CASE ~GSN(w.store).didIncrement
    <3>1. D(x) = 0
      BY <2>1, <2>3, <2>5 DEF History, ToldSound
    <3>2. D(Up(x, UINT16_MAX)) = 1 /\ g # Up(x, UINT16_MAX)
      BY <1>3, <2>3, <3>1
    <3> QED
      BY <1>3, <2>4, <3>2 DEF ToldSound, Stepped, D
  <2>6. CASE GSN(w.store).didIncrement
    <3>1. HasKey(w.store) /\ HasKey(u.store) /\ Rest(u.store) = Rest(w.store) - 1
      BY <1>3, <2>6 DEF Stepped
    <3>2. D(x) + Rest(w.store) < UINT16_MAX
      BY <2>1, <2>6, <3>1 DEF History, ToldSound, D
    <3>3. Rest(u.store) \in Nat
      BY <3>1, StoreIs, StorageAssumption DEF Stepped
    <3>4. D(Up(x, UINT16_MAX)) = D(x) + 1 /\ g # Up(x, UINT16_MAX)
      BY <1>3, <2>3, <3>1, <3>2, <3>3
    <3> QED
      BY <1>3, <2>3, <2>4, <3>1, <3>2, <3>4 DEF ToldSound, D
  <2> QED
    BY <1>3, <2>5, <2>6
<1>6. NumberSound(h, u, l, i)
  BY <1>1 DEF History, NumberSound, Stepped, Added, Reported
<1> QED
  BY <1>4, <1>5, <1>6 DEF History, CutOffSound

-------------------------------------------------------------------------------
\* Advertising on BLE.

\* A world whose advertising data are to be updated.
Stage(w) ==
    /\ w.server # "None" /\ w.image \in Images
    /\ w.server = "Idle" => ~w.adv.connected
    /\ w.server = "Stopping" => w.adv.connected
    /\ w.server = "Running" => w.pairings # "Stale"
    /\ w.pairings = "Stale" => "LTSK" \notin DOMAIN w.store

LEMMA SoundStage ==
    ASSUME NEW w, Sound("BLE", w), w.server # "None"
    PROVE  Stage(w) /\ IsWorld(w) /\ MayUpdate(w)
BY DEF Sound, WorldOK, ProcessSound, AdvSound, Stage, MayUpdate

LEMMA UpdatedSound ==
    ASSUME NEW w, WorldOK(w), Stage(w), AdvSound(w), NEW ok \in BOOLEAN
    PROVE  LET u == UpdateAdvertisingData(w, ok)
           IN  Sound("BLE", u) /\ Updated(w, u)
<1> DEFINE u == UpdateAdvertisingData(w, ok)
<1>1. IsWorld(w) /\ MayUpdate(w)
  BY DEF WorldOK, AdvSound, MayUpdate
<1>2. Updated(w, u)
  BY <1>1, UpdateIs
<1> HIDE DEF u
<1>3. /\ GSN(u.store) = GSN(w.store) /\ (HasKey(u.store) <=> HasKey(w.store))
      /\ "LTSK" \in DOMAIN u.store <=> "LTSK" \in DOMAIN w.store
  BY <1>2, SameState, SameKey DEF Updated, StoreKept, Secret, Agree
<1>4. /\ u.pairings = w.pairings /\ u.image = w.image /\ u.server = w.server
      /\ u.broadcasts = w.broadcasts /\ u.outdated = w.outdated
  BY <1>2 DEF Updated, Aside
<1>5. WorldOK(u)
  BY <1>2, <1>4 DEF WorldOK, Updated
<1>6. w.adv.fastStarted => u.adv.fastStarted
  BY <1>2 DEF Updated
<1>7. w.server = "Running" => u.adv.fastStarted
  BY <1>2, <1>6 DEF Updated, AdvSound
<1>8. w.server # "Running" => u.adv = w.adv
  BY <1>2 DEF Updated
<1>9. ProcessSound("BLE", u)
  BY <1>2, <1>3, <1>4, <1>7, <1>8 DEF ProcessSound, Stage, Updated
<1>10. AdvSound(u)
  <2>1. u.adv.connected => /\ ~u.adv.timer /\ u.adv.iid = 0 /\ ~u.adv.fastTimer
                           /\ u.adv.fastStarted
    BY <1>2, <1>6 DEF AdvSound, Updated
  <2> QED
    BY <1>2, <1>3, <1>4, <2>1 DEF AdvSound, Updated
<1>11. AirSound("BLE", u)
  BY <1>2 DEF AirSound, Updated
<1>12. Sound("BLE", u)
  BY <1>5, <1>9, <1>10, <1>11 DEF Sound
<1> QED
  BY <1>2, <1>12 DEF u

\* The advertising state changes, and the data are updated.
LEMMA AdvStep ==
    ASSUME NEW w, Sound("BLE", w), w.server # "None", NEW x \in AdvStates,
           x.connected = w.adv.connected, x.fastStarted = w.adv.fastStarted,
           x.fastTimer => w.adv.fastTimer,
           x.connected => ~x.timer /\ x.iid = 0,
           x.iid # 0 => x.timer /\ w.adv.iid = x.iid,
           x.timer => GSN(w.store).didIncrement \/ w.outdated, NEW ok \in BOOLEAN
    PROVE  LET v == [w EXCEPT !.adv = x]
               u == UpdateAdvertisingData(v, ok)
           IN  Sound("BLE", u) /\ Updated(v, u) /\ Aside(w, v) /\ v.store = w.store /\ v.adv = x
<1> DEFINE v == [w EXCEPT !.adv = x]
<1>1. Stage(w) /\ IsWorld(w) /\ WorldOK(w) /\ AdvSound(w)
  BY SoundStage DEF Sound
<1>2. /\ IsWorld(v) /\ Aside(w, v) /\ v.store = w.store /\ v.adv = x /\ v.failed = w.failed
  BY <1>1, Changes
<1> HIDE DEF v
<1>3. WorldOK(v) /\ Stage(v)
  BY <1>1, <1>2 DEF WorldOK, Stage, Aside
<1>4. AdvSound(v)
  BY <1>1, <1>2 DEF AdvSound, Aside
<1>5. LET u == UpdateAdvertisingData(v, ok) IN Sound("BLE", u) /\ Updated(v, u)
  BY <1>3, <1>4, UpdatedSound
<1> QED
  BY <1>2, <1>5 DEF v

LEMMA TimerExpiredSound ==
    ASSUME NEW w, Sound("BLE", w), w.adv.timer, NEW ok \in BOOLEAN
    PROVE  LET u == TimerExpired(w, ok)
           IN  /\ Sound("BLE", u) /\ StoreKept(w.store, u.store) /\ Aside(w, u)
               /\ u.adv.connected = w.adv.connected
<1> DEFINE t == w.adv.iid # 0 /\ ok
           x == [w.adv EXCEPT !.timer = t, !.iid = 0, !.interval = 0]
           b == [w EXCEPT !.adv = x]
<1>8. w.server # "None"
  BY DEF Sound, ProcessSound, Quiet
<1>1. /\ IsWorld(w) /\ w.adv \in AdvStates /\ w.failed = "None" /\ w.server # "None"
      /\ ~w.adv.connected /\ (GSN(w.store).didIncrement \/ w.outdated)
  BY <1>8 DEF Sound, WorldOK, IsWorld, AdvSound
<1>2. TimerExpired(w, ok) = UpdateAdvertisingData(b, ok)
  <2>1. b = [Asserts(w, ~w.adv.connected, "AdvertisingTimerExpired") EXCEPT
                 !.adv.timer = w.adv.iid # 0 /\ ok, !.adv.iid = 0, !.adv.interval = 0]
    BY <1>1 DEF Asserts, IsWorld
  <2> QED
    BY <2>1 DEF TimerExpired
<1>3. t \in BOOLEAN
  OBVIOUS
<1> HIDE DEF t
<1>4. /\ x \in AdvStates /\ x.connected = w.adv.connected /\ x.iid = 0 /\ ~x.connected
      /\ x.fastStarted = w.adv.fastStarted /\ x.fastTimer = w.adv.fastTimer
  BY <1>1, <1>3 DEF AdvStates
<1> HIDE DEF x
<1>5. LET u == UpdateAdvertisingData(b, ok)
      IN  /\ Sound("BLE", u) /\ Updated(b, u) /\ Aside(w, b) /\ b.store = w.store
          /\ b.adv = x
  BY <1>1, <1>4, AdvStep
<1> QED
  BY <1>2, <1>4, <1>5 DEF Updated, Aside

LEMMA FastTimerExpiredSound ==
    ASSUME NEW w, Sound("BLE", w), w.adv.fastTimer, NEW ok \in BOOLEAN
    PROVE  LET u == FastTimerExpired(w, ok)
           IN  /\ Sound("BLE", u) /\ StoreKept(w.store, u.store) /\ Aside(w, u)
               /\ u.adv.connected = w.adv.connected
<1> DEFINE x == [w.adv EXCEPT !.fastTimer = FALSE]
           b == [w EXCEPT !.adv = x]
<1>8. w.server # "None"
  BY DEF Sound, ProcessSound, Quiet
<1>1. /\ IsWorld(w) /\ w.adv \in AdvStates /\ w.failed = "None" /\ w.server # "None"
      /\ ~w.adv.connected
      /\ w.adv.timer => GSN(w.store).didIncrement \/ w.outdated
      /\ w.adv.iid # 0 => w.adv.timer
  BY <1>8 DEF Sound, WorldOK, IsWorld, AdvSound
<1>2. /\ x \in AdvStates /\ x.connected = w.adv.connected /\ x.iid = w.adv.iid
      /\ ~x.connected /\ x.timer = w.adv.timer /\ x.fastStarted = w.adv.fastStarted
      /\ ~x.fastTimer
  BY <1>1 DEF AdvStates
<1>3. FastTimerExpired(w, ok) = UpdateAdvertisingData(b, ok)
  <2>1. b = [Asserts(w, ~w.adv.connected, "AdvertisingTimerExpired") EXCEPT
                 !.adv.fastTimer = FALSE]
    BY <1>1 DEF Asserts, IsWorld
  <2>2. b.adv = x
    BY <1>1 DEF IsWorld
  <2>3. ~(b.adv.iid # 0 /\ ~b.adv.timer)
    BY <1>1, <1>2, <2>2
  <2> QED
    BY <2>1, <2>3 DEF FastTimerExpired
<1> HIDE DEF x
<1>5. LET u == UpdateAdvertisingData(b, ok)
      IN  /\ Sound("BLE", u) /\ Updated(b, u) /\ Aside(w, b) /\ b.store = w.store
          /\ b.adv = x
  BY ZenonT(40), <1>1, <1>2, AdvStep
<1> QED
  BY <1>2, <1>3, <1>5 DEF Updated, Aside

LEMMA ReconnectedIs ==
    ASSUME NEW s, StoreOK(s)
    PROVE  LET t == Reconnected(s)
           IN  /\ StoreOK(t) /\ Number(s, t) /\ Key(s, t) /\ Program(s, t) /\ Secret(s, t)
               /\ GSN(t) = [gsn |-> GSN(s).gsn, didIncrement |-> FALSE]
BY StoreIs, SetGSNIs DEF Reconnected

\* A connection begins or ends: nothing is announced, and the GSN is told.
LEMMA ConnectionStep ==
    ASSUME NEW w, Sound("BLE", w), w.server \in {"Running", "Stopping"}, NEW ok \in BOOLEAN,
           NEW x \in AdvStates, x.iid = 0, ~x.timer, x.fastStarted, x.connected => ~x.fastTimer,
           w.server = "Stopping" => x.connected
    PROVE  LET t == Reconnected(w.store)
               v == With(w, x, t)
               u == UpdateAdvertisingData(v, ok)
           IN  Sound("BLE", u) /\ Updated(v, u) /\ Aside(w, v) /\ v.adv = x /\ v.store = t
<1> DEFINE t == Reconnected(w.store)
           v == With(w, x, t)
<1>1. Stage(w) /\ IsWorld(w) /\ WorldOK(w) /\ AdvSound(w)
  BY SoundStage DEF Sound
<1>3. /\ StoreOK(t) /\ Number(w.store, t) /\ Key(w.store, t) /\ Program(w.store, t)
      /\ Secret(w.store, t)
  BY <1>1, ReconnectedIs DEF IsWorld
<1> HIDE DEF t
<1>5. /\ IsWorld(v) /\ Aside(w, v) /\ v.store = t /\ v.adv = x /\ v.failed = w.failed
  BY <1>1, <1>3, WithIs
<1> HIDE DEF v
<1>6. /\ HasKey(t) <=> HasKey(w.store)
      /\ "LTSK" \in DOMAIN t <=> "LTSK" \in DOMAIN w.store
  BY <1>3, SameKey DEF Secret, Agree
<1>7. WorldOK(v) /\ Stage(v)
  BY <1>1, <1>5, <1>6 DEF WorldOK, Stage, Aside
<1>8. v.outdated = w.outdated
  BY <1>5 DEF Aside
<1>9. AdvSound(v)
  BY <1>1, <1>5, <1>6, <1>8 DEF AdvSound
<1>10. LET u == UpdateAdvertisingData(v, ok) IN Sound("BLE", u) /\ Updated(v, u)
  BY <1>7, <1>9, UpdatedSound
<1> QED
  BY <1>5, <1>10 DEF v, t

\* The server becomes idle: what was on the air is taken off it.
LEMMA BecomesIdle ==
    ASSUME NEW w, WorldOK(w), AdvSound(w), w.server = "Stopping", w.image \in Images,
           ~w.adv.connected, w.pairings = "Stale" => "LTSK" \notin DOMAIN w.store,
           NEW h, h = "IP" => w.adv = Quiet /\ ~HasKey(w.store), NEW ok \in BOOLEAN
    PROVE  LET u == [UpdateAdvertisingData(w, ok) EXCEPT !.server = "Idle"]
           IN  /\ Sound(h, u) /\ StoreKept(w.store, u.store) /\ u.adv = w.adv
               /\ u.broadcasts = w.broadcasts /\ u.outdated = w.outdated
               /\ u.store = UpdateAdvertisingData(w, ok).store
               /\ u.image = w.image /\ u.server = "Idle"
<1> DEFINE u == [UpdateAdvertisingData(w, ok) EXCEPT !.server = "Idle"]
<1>1. UpdateAdvertisingData(w, ok) = [w EXCEPT !.air = Silent]
  BY DEF UpdateAdvertisingData
<1>2. IsWorld(w)
  BY DEF WorldOK
<1>3. /\ IsWorld(u) /\ u.store = w.store /\ u.adv = w.adv /\ u.failed = w.failed
      /\ u.broadcasts = w.broadcasts /\ u.pairings = w.pairings /\ u.image = w.image
      /\ u.server = "Idle" /\ u.store = UpdateAdvertisingData(w, ok).store
      /\ u.outdated = w.outdated
  <2> DEFINE b == [w EXCEPT !.air = Silent]
  <2>1. /\ IsWorld(b) /\ Aside(w, b) /\ b.store = w.store /\ b.adv = w.adv
        /\ b.failed = w.failed
    BY <1>2, Changes
  <2>2. u = [b EXCEPT !.server = "Idle"]
    BY <1>1
  <2>3. UpdateAdvertisingData(w, ok) = b
    BY <1>1
  <2> HIDE DEF b, u
  <2> QED
    BY <2>1, <2>2, <2>3, StageChanged DEF Aside
<1> HIDE DEF u
<1>4. StoreKept(w.store, w.store)
  BY <1>2 DEF IsWorld, StoreKept, State, Key, Program, Secret, Agree
<1>5. WorldOK(u)
  BY <1>3 DEF WorldOK
<1>6. ProcessSound(h, u)
  BY <1>3 DEF ProcessSound
<1>7. AdvSound(u)
  BY <1>3 DEF AdvSound
<1>8. AirSound(h, u)
  BY <1>3 DEF AirSound, OnAir
<1> QED
  BY <1>3, <1>4, <1>5, <1>6, <1>7, <1>8 DEF u, Sound

LEMMA HistoryReconnected ==
    ASSUME NEW h, NEW w, NEW u, NEW s, NEW g, NEW l, IsWorld(w), History(h, w, s, g, l, 0),
           StoreKept(Reconnected(w.store), u.store),
           NEW k, k = GSN(u.store).gsn \/ (u.adv.connected /\ k = g)
    PROVE  History(h, u, s, k, l, 0)
<1> DEFINE t == Reconnected(w.store)
<1>1. /\ StoreOK(t) /\ Number(w.store, t) /\ Key(w.store, t) /\ Program(w.store, t)
      /\ GSN(t) = [gsn |-> GSN(w.store).gsn, didIncrement |-> FALSE]
  BY ReconnectedIs DEF IsWorld
<1> HIDE DEF t
<1>2. StoreKept(t, u.store)
  BY DEF t
<1>3. /\ GSN(u.store) = GSN(t) /\ Broadcast(u.store) = Broadcast(w.store)
      /\ HasKey(u.store) <=> HasKey(w.store)
      /\ CN(u.store) = CN(w.store) /\ ShortCN(u.store) = ShortCN(w.store)
      /\ "CN" \in DOMAIN w.store => "CN" \in DOMAIN u.store
  BY <1>1, <1>2, SameNumber, SameState, SameKey DEF StoreKept
<1>4. Rest(u.store) = Rest(w.store)
  BY <1>1, <1>3 DEF Rest
<1>5. /\ "Version" \in DOMAIN u.store <=> "Version" \in DOMAIN w.store
      /\ "Version" \in DOMAIN w.store => u.store["Version"] = w.store["Version"]
  BY <1>1, <1>2 DEF StoreKept, Program, Agree
<1>6. ~Updates(w.store, 0)
  BY AdvertisingAssumption DEF IsWorld, StoreOK, Updates
<1>7. NonceSound(u, s, 0)
  BY <1>3, <1>4, <1>6 DEF History, NonceSound
<1>8. ToldSound(u, k)
  BY <1>1, <1>3 DEF ToldSound
<1>9. NumberSound(h, u, l, 0)
  BY <1>3, <1>5 DEF History, NumberSound, Added, Reported
<1>10. k \in 0 .. UINT16_MAX
  BY <1>2, StoreIs, StorageAssumption DEF History, StoreKept, GSNs
<1> QED
  BY <1>7, <1>8, <1>9, <1>10 DEF History, CutOffSound

LEMMA ConnectSound ==
    ASSUME NEW w, Sound("BLE", w), w.server = "Running", ~w.adv.connected
    PROVE  LET u == DidConnect(w)
           IN  /\ Sound("BLE", u) /\ StoreKept(Reconnected(w.store), u.store)
               /\ u.adv.connected /\ Aside(w, u)
<1> DEFINE x == [w.adv EXCEPT !.connected = TRUE, !.fastTimer = FALSE, !.timer = FALSE,
                              !.iid = 0, !.interval = 0]
           t == Reconnected(w.store)
           v == With(w, x, t)
<1>1. IsWorld(w) /\ w.adv \in AdvStates /\ w.failed = "None" /\ w.adv.fastStarted
  BY DEF Sound, WorldOK, IsWorld, AdvSound, ProcessSound
<1>2. DidConnect(w) = UpdateAdvertisingData(v, FALSE)
  <2>1. v = [Asserts(w, ~w.adv.connected, "DidConnect") EXCEPT
                !.adv = [@ EXCEPT !.connected = TRUE, !.fastTimer = FALSE, !.timer = FALSE,
                                  !.iid = 0, !.interval = 0],
                !.store = Reconnected(@)]
    BY <1>1 DEF Asserts, IsWorld, With
  <2> QED
    BY <2>1 DEF DidConnect
<1>3. /\ x \in AdvStates /\ x.iid = 0 /\ ~x.timer /\ x.fastStarted /\ ~x.fastTimer
      /\ x.connected
  BY <1>1 DEF AdvStates
<1> HIDE DEF x
<1>4. LET u == UpdateAdvertisingData(v, FALSE)
      IN  Sound("BLE", u) /\ Updated(v, u) /\ Aside(w, v) /\ v.adv = x /\ v.store = t
  BY <1>3, ConnectionStep
<1> QED
  BY <1>2, <1>3, <1>4 DEF Updated, Aside

LEMMA DisconnectSound ==
    ASSUME NEW w, Sound("BLE", w), w.adv.connected, NEW ok \in BOOLEAN
    PROVE  LET d == DidDisconnect(w, ok)
               u == IF w.server = "Running" THEN d ELSE [d EXCEPT !.server = "Idle"]
           IN  /\ Sound("BLE", u) /\ StoreKept(Reconnected(w.store), u.store)
               /\ u.store = d.store /\ u.broadcasts = w.broadcasts
               /\ u.outdated = w.outdated
<1> DEFINE x == [w.adv EXCEPT !.connected = FALSE, !.fastTimer = ok]
           t == Reconnected(w.store)
           v == With(w, x, t)
           d == UpdateAdvertisingData(v, ok)
<1>1. /\ IsWorld(w) /\ w.adv \in AdvStates /\ w.failed = "None" /\ w.adv.fastStarted
      /\ w.adv.iid = 0 /\ ~w.adv.timer /\ ~w.adv.fastTimer
  BY DEF Sound, WorldOK, IsWorld, AdvSound
<1>2. w.server \in {"Running", "Stopping"}
  BY DEF Sound, WorldOK, ProcessSound, Quiet
<1>3. DidDisconnect(w, ok) = d
  <2>1. v = [w EXCEPT !.adv.connected = FALSE, !.adv.fastTimer = ok, !.store = Reconnected(@)]
    BY <1>1 DEF IsWorld, With
  <2>2. Asserts(w, w.adv.fastStarted /\ ~w.adv.fastTimer /\ ~w.adv.timer /\ w.adv.iid = 0,
                "DidDisconnect") = w
    BY <1>1 DEF Asserts
  <2> QED
    BY <2>1, <2>2 DEF DidDisconnect
<1>4. /\ x \in AdvStates /\ x.iid = 0 /\ ~x.timer /\ x.fastStarted /\ ~x.connected
  BY <1>1 DEF AdvStates
<1>5. IsWorld(w) /\ WorldOK(w) /\ AdvSound(w) /\ Stage(w)
  BY <1>2, SoundStage DEF Sound
<1> HIDE DEF x
<1>6. CASE w.server = "Running"
  <2>1. Sound("BLE", d) /\ Updated(v, d) /\ Aside(w, v) /\ v.store = t
    BY <1>4, <1>6, ConnectionStep
  <2> QED
    BY <1>3, <1>6, <2>1 DEF Updated, Aside
<1>7. CASE w.server = "Stopping"
  <2>1. StoreOK(t) /\ Number(w.store, t) /\ Program(w.store, t) /\ Secret(w.store, t)
        /\ Key(w.store, t)
    BY <1>1, ReconnectedIs DEF IsWorld
  <2> HIDE DEF t
  <2>9. IsWorld(w) /\ x \in AdvStates /\ StoreOK(t)
    BY <1>4, <1>5, <2>1
  <2>8. /\ IsWorld(v) /\ Aside(w, v) /\ v.store = t /\ v.adv = x /\ v.failed = w.failed
        /\ v.kept = w.kept
    BY <2>9, WithIs
  <2> HIDE DEF v
  <2>2. /\ IsWorld(v) /\ v.store = t /\ v.adv = x /\ v.failed = w.failed
        /\ v.broadcasts = w.broadcasts /\ v.pairings = w.pairings /\ v.image = w.image
        /\ v.server = w.server /\ v.outdated = w.outdated
    BY <2>8 DEF Aside
  <2>3. WorldOK(v)
    BY <1>5, <2>2 DEF WorldOK
  <2>4. /\ (HasKey(t) <=> HasKey(w.store))
        /\ "LTSK" \in DOMAIN t <=> "LTSK" \in DOMAIN w.store
    BY <2>1, SameKey DEF Secret, Agree
  <2>5. AdvSound(v)
    BY <1>1, <1>4, <1>5, <2>2, <2>4 DEF AdvSound
  <2>6. v.pairings = "Stale" => "LTSK" \notin DOMAIN v.store
    BY <1>5, <2>2, <2>4 DEF Stage
  <2>7. LET u == [d EXCEPT !.server = "Idle"]
        IN  /\ Sound("BLE", u) /\ StoreKept(v.store, u.store)
            /\ u.broadcasts = v.broadcasts /\ u.store = d.store
            /\ u.outdated = v.outdated
    BY <1>4, <1>5, <1>7, <2>2, <2>3, <2>5, <2>6, BecomesIdle DEF Stage
  <2> QED
    BY <1>3, <1>7, <2>2, <2>7 DEF t
<1> QED
  BY <1>2, <1>6, <1>7

-------------------------------------------------------------------------------
\* The list of characteristics to broadcast.

\* A set of natural numbers has a least one.
LEMMA LeastElement ==
    ASSUME NEW S \in SUBSET Nat, S # {}
    PROVE  \E n \in S : \A m \in S : n <= m
<1> DEFINE R == {p \in Nat \X Nat : p[1] < p[2]}
<1>1. IsWellFoundedOn(R, Nat)
  BY NatLessThanWellFounded DEF OpToRel
<1>2. PICK n \in S : \A m \in S : <<m, n>> \notin R
  BY <1>1, WFMin
<1>3. ASSUME NEW m \in S
      PROVE  n <= m
  <2>1. m \in Nat /\ n \in Nat /\ <<m, n>> \notin R
    BY <1>2
  <2> QED
    BY <2>1
<1> QED
  BY <1>3

\* What the lists are made of.
Elements == [cid : Broadcastable, interval : Intervals]

LEMMA ElementsAre == \A e \in Elements : e.cid \in Nat \ {0} /\ e.cid \in Broadcastable /\ e.interval \in Intervals
BY AdvertisingAssumption DEF Elements

LEMMA ListIs ==
    ASSUME NEW list, ListOK(list)
    PROVE  /\ list \in Seq(Elements) /\ Len(list) \in Nat /\ DOMAIN list = 1 .. Len(list)
           /\ \A i \in 1 .. Len(list) : list[i] \in Elements
           /\ \A i \in 1 .. Len(list) : list[i].cid \in Nat /\ list[i].interval \in Intervals
           /\ \A i, j \in 1 .. Len(list) : i < j => list[i].cid < list[j].cid
<1>1. list \in Seq(Elements)
  BY DEF ListOK, Elements
<1>2. Len(list) \in Nat /\ DOMAIN list = 1 .. Len(list)
  BY <1>1, LenProperties
<1>3. \A i \in 1 .. Len(list) : list[i] \in Elements
  BY <1>1, ElementOfSeq
<1>4. \A i \in 1 .. Len(list) : list[i].cid \in Nat /\ list[i].interval \in Intervals
  BY <1>3, ElementsAre
<1>5. \A i, j \in 1 .. Len(list) : i < j => list[i].cid < list[j].cid
  BY <1>2 DEF ListOK, Ascending
<1> QED
  BY <1>1, <1>2, <1>3, <1>4, <1>5

\* The place of a characteristic: everything before it has a smaller instance ID.
LEMMA PositionIs ==
    ASSUME NEW list, ListOK(list), NEW c \in Nat
    PROVE  /\ Position(list, c) \in 1 .. Len(list) + 1
           /\ \A i \in 1 .. Len(list) : list[i].cid < c <=> i < Position(list, c)
<1> DEFINE n == Len(list)
           L == {i \in DOMAIN list : list[i].cid < c}
           U == {i \in 1 .. n + 1 : i \notin L}
<1>1. /\ n \in Nat /\ DOMAIN list = 1 .. n
      /\ \A i \in 1 .. n : list[i].cid \in Nat
      /\ \A i, j \in 1 .. n : i < j => list[i].cid < list[j].cid
  BY ListIs
<1>2. n + 1 \in U /\ U \subseteq Nat
  BY <1>1
<1>3. PICK p \in U : \A m \in U : p <= m
  BY <1>2, LeastElement
<1>4. L = 1 .. p - 1
  <2>1. ASSUME NEW i \in 1 .. p - 1 PROVE i \in L
    BY <1>1, <1>3
  <2>2. ASSUME NEW i \in L PROVE i \in 1 .. p - 1
    <3>1. CASE i > p
      BY <1>1, <1>3, <3>1
    <3> QED
      BY <1>1, <1>3, <3>1
  <2> QED
    BY <2>1, <2>2
<1>5. Cardinality(1 .. p - 1) = p - 1
  <2>1. p - 1 \in Int /\ 1 \in Int /\ p - 1 >= 0
    BY <1>1, <1>3
  <2>2. Cardinality(1 .. p - 1) = IF 1 > p - 1 THEN 0 ELSE p - 1 - 1 + 1
    BY <2>1, FS_Interval
  <2> QED
    BY <2>1, <2>2
<1>6. Position(list, c) = p
  <2>1. Position(list, c) = Cardinality(L) + 1
    BY DEF Position
  <2>2. Cardinality(L) = p - 1
    BY <1>4, <1>5
  <2> HIDE DEF L
  <2>3. p \in Int
    BY <1>2, <1>3
  <2> QED
    BY <2>1, <2>2, <2>3
<1> QED
  BY <1>1, <1>3, <1>4, <1>6

LEMMA ListedIs ==
    ASSUME NEW list, ListOK(list), NEW c \in Nat, NEW i \in 1 .. Len(list)
    PROVE  list[i].cid = c <=> IsListed(list, c) /\ i = Position(list, c)
<1>1. /\ Position(list, c) \in 1 .. Len(list) + 1
      /\ \A j \in 1 .. Len(list) : list[j].cid < c <=> j < Position(list, c)
  BY PositionIs
<1>2. /\ Len(list) \in Nat
      /\ \A j \in 1 .. Len(list) : list[j].cid \in Nat
      /\ \A j, k \in 1 .. Len(list) : j < k => list[j].cid < list[k].cid
  BY ListIs
<1> DEFINE p == Position(list, c)
<1> HIDE DEF p
<1>3. IsListed(list, c) <=> p <= Len(list) /\ list[p].cid = c
  BY DEF IsListed, p
<1> QED
  BY <1>1, <1>2, <1>3 DEF p

\* What is broadcast of a characteristic: what its element says.
LEMMA IntervalIs ==
    ASSUME NEW list, ListOK(list), NEW c \in Nat
    PROVE  /\ BroadcastInterval(list, c) \in Intervals \cup {0}
           /\ \A i \in 1 .. Len(list) : list[i].cid = c => BroadcastInterval(list, c) = list[i].interval
           /\ (\A i \in 1 .. Len(list) : list[i].cid # c) => BroadcastInterval(list, c) = 0
<1>1. /\ Len(list) \in Nat /\ \A i \in 1 .. Len(list) : list[i].interval \in Intervals
  BY ListIs
<1>2. IsListed(list, c) => Position(list, c) \in 1 .. Len(list) /\ list[Position(list, c)].cid = c
  BY <1>1, PositionIs DEF IsListed
<1>3. \A i \in 1 .. Len(list) : list[i].cid = c => IsListed(list, c) /\ i = Position(list, c)
  BY ListedIs
<1> QED
  BY <1>1, <1>2, <1>3 DEF BroadcastInterval

LEMMA InsertAtIs ==
    ASSUME NEW T, NEW list \in Seq(T), NEW e \in T, NEW p \in 1 .. Len(list) + 1
    PROVE  LET r == InsertAt(list, p, e)
           IN  /\ r \in Seq(T) /\ Len(r) = Len(list) + 1
               /\ \A i \in 1 .. Len(r) : r[i] = IF i < p THEN list[i] ELSE IF i = p THEN e ELSE list[i - 1]
<1> DEFINE a == SubSeq(list, 1, p - 1)
           b == <<e>>
           d == SubSeq(list, p, Len(list))
           n == Len(list)
<1>1. n \in Nat /\ \A i \in 1 .. n : list[i] \in T
  BY LenProperties, ElementOfSeq
<1>2. /\ a \in Seq(T) /\ Len(a) = p - 1 /\ \A i \in 1 .. p - 1 : a[i] = list[i]
  <2>1. 1 \in Int /\ p - 1 \in Int /\ \A i \in 1 .. p - 1 : list[i] \in T
    BY <1>1
  <2>2. /\ a \in Seq(T) /\ Len(a) = IF 1 <= p - 1 THEN (p - 1) - 1 + 1 ELSE 0
        /\ \A i \in 1 .. (p - 1) - 1 + 1 : a[i] = list[1 + i - 1]
    BY <2>1, SubSeqProperties
  <2> HIDE DEF a
  <2> QED
    BY <1>1, <2>2
<1>3. /\ d \in Seq(T) /\ Len(d) = n - p + 1 /\ \A i \in 1 .. n - p + 1 : d[i] = list[p + i - 1]
  <2>1. p \in Int /\ n \in Int /\ \A i \in p .. n : list[i] \in T
    BY <1>1
  <2>2. /\ d \in Seq(T) /\ Len(d) = IF p <= n THEN n - p + 1 ELSE 0
        /\ \A i \in 1 .. n - p + 1 : d[i] = list[p + i - 1]
    BY <2>1, SubSeqProperties
  <2> HIDE DEF d
  <2> QED
    BY <1>1, <2>2
<1>4. b \in Seq(T) /\ Len(b) = 1 /\ b[1] = e
  OBVIOUS
<1>5. InsertAt(list, p, e) = (a \o b) \o d
  BY DEF InsertAt
<1> HIDE DEF a, b, d
<1>6. /\ a \o b \in Seq(T) /\ Len(a \o b) = p
      /\ \A i \in 1 .. p : (a \o b)[i] = IF i < p THEN list[i] ELSE e
  <2>1. /\ a \o b \in Seq(T) /\ Len(a \o b) = Len(a) + Len(b)
        /\ \A i \in 1 .. Len(a) + Len(b) : (a \o b)[i] =
               IF i <= Len(a) THEN a[i] ELSE b[i - Len(a)]
    BY <1>2, <1>4, ConcatProperties
  <2> DEFINE f == a \o b
  <2> HIDE DEF f
  <2> QED
    BY <1>1, <1>2, <1>4, <2>1 DEF f
<1> DEFINE f == a \o b
<1>7. f \in Seq(T) /\ Len(f) = p /\ \A i \in 1 .. p : f[i] = IF i < p THEN list[i] ELSE e
  BY <1>6
<1>8. InsertAt(list, p, e) = f \o d
  BY <1>5
<1> HIDE DEF f
<1>9. /\ f \o d \in Seq(T) /\ Len(f \o d) = Len(f) + Len(d)
      /\ \A i \in 1 .. Len(f) + Len(d) : (f \o d)[i] = IF i <= Len(f) THEN f[i] ELSE d[i - Len(f)]
  BY <1>3, <1>7, ConcatProperties
<1> DEFINE r == f \o d
<1> HIDE DEF r
<1>10. r \in Seq(T) /\ Len(r) = n + 1
  BY <1>1, <1>3, <1>7, <1>9 DEF r
<1>11. ASSUME NEW i \in 1 .. n + 1
       PROVE  r[i] = IF i < p THEN list[i] ELSE IF i = p THEN e ELSE list[i - 1]
  <2>1. CASE i <= p
    BY <1>1, <1>3, <1>7, <1>9, <2>1 DEF r
  <2>2. CASE i > p
    <3>1. r[i] = d[i - p] /\ i - p \in 1 .. n - p + 1
      BY <1>1, <1>3, <1>7, <1>9, <2>2 DEF r
    <3>2. d[i - p] = list[p + (i - p) - 1] /\ p + (i - p) - 1 = i - 1
      BY <1>1, <1>3, <3>1
    <3> QED
      BY <2>2, <3>1, <3>2
  <2> QED
    BY <1>1, <2>1, <2>2
<1> QED
  BY <1>8, <1>10, <1>11 DEF r

LEMMA RemoveAtIs ==
    ASSUME NEW T, NEW list \in Seq(T), NEW p \in 1 .. Len(list)
    PROVE  LET r == RemoveAt(list, p)
           IN  /\ r \in Seq(T) /\ Len(r) = Len(list) - 1
               /\ \A i \in 1 .. Len(r) : r[i] = IF i < p THEN list[i] ELSE list[i + 1]
<1> DEFINE a == SubSeq(list, 1, p - 1)
           d == SubSeq(list, p + 1, Len(list))
           n == Len(list)
<1>1. n \in Nat /\ \A i \in 1 .. n : list[i] \in T
  BY LenProperties, ElementOfSeq
<1>2. /\ a \in Seq(T) /\ Len(a) = p - 1 /\ \A i \in 1 .. p - 1 : a[i] = list[i]
  <2>1. 1 \in Int /\ p - 1 \in Int /\ \A i \in 1 .. p - 1 : list[i] \in T
    BY <1>1
  <2>2. /\ a \in Seq(T) /\ Len(a) = IF 1 <= p - 1 THEN (p - 1) - 1 + 1 ELSE 0
        /\ \A i \in 1 .. (p - 1) - 1 + 1 : a[i] = list[1 + i - 1]
    BY <2>1, SubSeqProperties
  <2> HIDE DEF a
  <2> QED
    BY <1>1, <2>2
<1>3. /\ d \in Seq(T) /\ Len(d) = n - p /\ \A i \in 1 .. n - p : d[i] = list[p + i]
  <2>1. p + 1 \in Int /\ n \in Int /\ \A i \in p + 1 .. n : list[i] \in T
    BY <1>1
  <2>2. /\ d \in Seq(T) /\ Len(d) = IF p + 1 <= n THEN n - (p + 1) + 1 ELSE 0
        /\ \A i \in 1 .. n - (p + 1) + 1 : d[i] = list[(p + 1) + i - 1]
    BY <2>1, SubSeqProperties
  <2> HIDE DEF d
  <2> QED
    BY <1>1, <2>2
<1>4. RemoveAt(list, p) = a \o d
  BY DEF RemoveAt
<1> HIDE DEF a, d
<1>5. /\ a \o d \in Seq(T) /\ Len(a \o d) = Len(a) + Len(d)
      /\ \A i \in 1 .. Len(a) + Len(d) : (a \o d)[i] = IF i <= Len(a) THEN a[i] ELSE d[i - Len(a)]
  BY <1>2, <1>3, ConcatProperties
<1> DEFINE r == a \o d
<1> HIDE DEF r
<1>6. r \in Seq(T) /\ Len(r) = n - 1
  BY <1>1, <1>2, <1>3, <1>5 DEF r
<1>7. ASSUME NEW i \in 1 .. n - 1
      PROVE  r[i] = IF i < p THEN list[i] ELSE list[i + 1]
  <2>1. CASE i < p
    BY <1>1, <1>2, <1>3, <1>5, <2>1 DEF r
  <2>2. CASE i >= p
    <3>1. r[i] = d[i - (p - 1)] /\ i - (p - 1) \in 1 .. n - p
      BY <1>1, <1>2, <1>3, <1>5, <2>2 DEF r
    <3>2. d[i - (p - 1)] = list[p + (i - (p - 1))] /\ p + (i - (p - 1)) = i + 1
      BY <1>1, <1>3, <3>1
    <3> QED
      BY <2>2, <3>1, <3>2
  <2> QED
    BY <1>1, <2>1, <2>2
<1> QED
  BY <1>4, <1>6, <1>7 DEF r

\* What is broadcast of a characteristic d changes for the element c only.
OnlyFor(list, r, c, v) ==
    \A d \in Broadcastable :
        BroadcastInterval(r, d) = IF d = c THEN v ELSE BroadcastInterval(list, d)

LEMMA EnableIs ==
    ASSUME NEW list, ListOK(list), NEW c \in Broadcastable, NEW v \in Intervals,
           ~CannotEnable(list, c)
    PROVE  LET r == EnableBroadcast(list, c, v)
           IN  ListOK(r) /\ OnlyFor(list, r, c, v)
<1> DEFINE n == Len(list)
           p == Position(list, c)
           e == [cid |-> c, interval |-> v]
           r == EnableBroadcast(list, c, v)
<1>1. /\ c \in Nat /\ \A d \in Broadcastable : d \in Nat
      /\ e \in Elements /\ e.cid = c /\ e.interval = v
  BY AdvertisingAssumption DEF Elements
<1>2. /\ list \in Seq(Elements) /\ n \in Nat
      /\ \A i \in 1 .. n : list[i].cid \in Nat /\ list[i].interval \in Intervals
      /\ \A i, j \in 1 .. n : i < j => list[i].cid < list[j].cid
  BY ListIs
<1>3. p \in 1 .. n + 1 /\ \A i \in 1 .. n : list[i].cid < c <=> i < p
  BY <1>1, PositionIs
<1>4. IsListed(list, c) => p \in 1 .. n /\ list[p].cid = c
  BY <1>3 DEF IsListed
<1>5. ~IsListed(list, c) => \A i \in 1 .. n : list[i].cid # c
  BY <1>1, ListedIs
<1>6. r = IF IsListed(list, c) THEN ReplaceAt(list, p, e) ELSE InsertAt(list, p, e)
  BY DEF EnableBroadcast
<1> HIDE DEF e, p, r
<1>7. CASE IsListed(list, c)
  <2>1. /\ r \in Seq(Elements) /\ Len(r) = n
        /\ \A i \in 1 .. n : r[i] = IF i = p THEN e ELSE list[i]
    BY <1>1, <1>2, <1>4, <1>6, <1>7, ExceptSeq DEF ReplaceAt
  <2>2. \A i \in 1 .. n : r[i].cid = list[i].cid
    BY <1>1, <1>4, <1>7, <2>1
  <2>3. ListOK(r)
    <3>1. DOMAIN r = 1 .. n
      BY <2>1, LenProperties
    <3>2. Ascending(r)
      BY <1>2, <2>2, <3>1 DEF Ascending
    <3> QED
      BY <2>1, <3>2 DEF ListOK, Elements
  <2>4. ASSUME NEW d \in Broadcastable
        PROVE  BroadcastInterval(r, d) = IF d = c THEN v ELSE BroadcastInterval(list, d)
    <3>1. d \in Nat
      BY <1>1
    <3>2. CASE d = c
      <4>1. r[p].cid = d /\ r[p].interval = v
        BY <1>1, <1>4, <1>7, <2>1, <3>2
      <4> QED
        BY <1>4, <1>7, <2>1, <2>3, <3>1, <3>2, <4>1, IntervalIs
    <3>3. CASE d # c /\ \E i \in 1 .. n : list[i].cid = d
      <4>1. PICK i \in 1 .. n : list[i].cid = d
        BY <3>3
      <4>2. i # p /\ r[i] = list[i]
        BY <1>4, <1>7, <2>1, <3>3, <4>1
      <4>3. BroadcastInterval(list, d) = list[i].interval
        BY <3>1, <4>1, IntervalIs
      <4>4. BroadcastInterval(r, d) = r[i].interval
        BY <2>1, <2>3, <3>1, <4>1, <4>2, IntervalIs
      <4> QED
        BY <3>3, <4>2, <4>3, <4>4
    <3>4. CASE d # c /\ \A i \in 1 .. n : list[i].cid # d
      <4>1. BroadcastInterval(list, d) = 0
        BY <3>1, <3>4, IntervalIs
      <4>2. BroadcastInterval(r, d) = 0
        BY <2>1, <2>2, <2>3, <3>1, <3>4, IntervalIs
      <4> QED
        BY <3>4, <4>1, <4>2
    <3> QED
      BY <3>2, <3>3, <3>4
  <2> QED
    BY <2>3, <2>4 DEF r, OnlyFor
<1>8. CASE ~IsListed(list, c)
  <2>1. /\ r \in Seq(Elements) /\ Len(r) = n + 1
        /\ \A i \in 1 .. n + 1 :
               r[i] = IF i < p THEN list[i] ELSE IF i = p THEN e ELSE list[i - 1]
    <3>1. LET q == InsertAt(list, p, e)
          IN  /\ q \in Seq(Elements) /\ Len(q) = n + 1
              /\ \A i \in 1 .. Len(q) :
                     q[i] = IF i < p THEN list[i] ELSE IF i = p THEN e ELSE list[i - 1]
      BY <1>1, <1>2, <1>3, InsertAtIs
    <3> QED
      BY <1>6, <1>8, <3>1
  <2>2. \A i \in 1 .. n : IF i < p THEN list[i].cid < c ELSE c < list[i].cid
    BY <1>1, <1>2, <1>3, <1>5, <1>8
  <2>3. ListOK(r)
    <3>1. DOMAIN r = 1 .. n + 1
      BY <2>1, LenProperties
    <3>2. ASSUME NEW i \in 1 .. n + 1, NEW j \in 1 .. n + 1, i < j
          PROVE  r[i].cid < r[j].cid
      <4>1. CASE j < p
        BY <1>2, <1>3, <2>1, <3>2, <4>1
      <4>2. CASE j = p
        BY <1>1, <1>2, <1>3, <2>1, <2>2, <3>2, <4>2
      <4>3. CASE j > p /\ i < p
        <5>1. r[i] = list[i] /\ r[j] = list[j - 1] /\ i \in 1 .. n /\ j - 1 \in 1 .. n /\ i < j - 1
          BY <1>2, <1>3, <2>1, <3>2, <4>3
        <5> QED
          BY <1>2, <5>1
      <4>4. CASE j > p /\ i = p
        <5>1. r[i] = e /\ r[j] = list[j - 1] /\ j - 1 \in 1 .. n /\ ~(j - 1 < p)
          BY <1>2, <1>3, <2>1, <3>2, <4>4
        <5> QED
          BY <1>1, <2>2, <5>1
      <4>5. CASE j > p /\ i > p
        <5>1. /\ r[i] = list[i - 1] /\ r[j] = list[j - 1] /\ i - 1 \in 1 .. n /\ j - 1 \in 1 .. n
              /\ i - 1 < j - 1
          BY <1>2, <1>3, <2>1, <3>2, <4>5
        <5> QED
          BY <1>2, <5>1
      <4> QED
        BY <1>2, <1>3, <4>1, <4>2, <4>3, <4>4, <4>5
    <3>3. Ascending(r)
      BY <3>1, <3>2 DEF Ascending
    <3>4. n + 1 <= BroadcastsPerKey
      BY <1>2, <1>8, StorageAssumption DEF CannotEnable, ListIsFull
    <3> QED
      BY <2>1, <3>3, <3>4 DEF ListOK, Elements
  <2>4. ASSUME NEW d \in Broadcastable
        PROVE  BroadcastInterval(r, d) = IF d = c THEN v ELSE BroadcastInterval(list, d)
    <3>1. d \in Nat
      BY <1>1
    <3>2. CASE d = c
      <4>1. p \in 1 .. n + 1 /\ r[p].cid = d /\ r[p].interval = v
        BY <1>1, <1>3, <2>1, <3>2
      <4> QED
        BY <2>1, <2>3, <3>1, <3>2, <4>1, IntervalIs
    <3>3. CASE d # c /\ \E i \in 1 .. n : list[i].cid = d
      <4>1. PICK i \in 1 .. n : list[i].cid = d
        BY <3>3
      <4> DEFINE k == IF i < p THEN i ELSE i + 1
      <4>2. k \in 1 .. n + 1 /\ r[k] = list[i]
        <5>1. n \in Nat /\ i \in 1 .. n /\ p \in 1 .. n + 1
          BY <1>2, <1>3
        <5>2. /\ k \in 1 .. n + 1
              /\ i < p => k < p /\ k = i
              /\ ~(i < p) => ~(k < p) /\ k # p /\ k - 1 = i
          BY <5>1
        <5> HIDE DEF k
        <5> QED
          BY <2>1, <5>2
      <4> HIDE DEF k
      <4>3. BroadcastInterval(list, d) = list[i].interval
        BY <3>1, <4>1, IntervalIs
      <4>4. BroadcastInterval(r, d) = r[k].interval
        BY <2>1, <2>3, <3>1, <4>1, <4>2, IntervalIs
      <4> QED
        BY <3>3, <4>2, <4>3, <4>4
    <3>4. CASE d # c /\ \A i \in 1 .. n : list[i].cid # d
      <4>1. BroadcastInterval(list, d) = 0
        BY <3>1, <3>4, IntervalIs
      <4>2. ASSUME NEW i \in 1 .. n + 1 PROVE r[i].cid # d
        <5>1. CASE i < p
          BY <1>2, <1>3, <2>1, <3>4, <5>1
        <5>2. CASE i = p
          BY <1>1, <1>2, <1>3, <2>1, <3>4, <5>2
        <5>3. CASE i > p
          <6>1. r[i] = list[i - 1] /\ i - 1 \in 1 .. n
            BY <1>2, <1>3, <2>1, <5>3
          <6> QED
            BY <3>4, <6>1
        <5> QED
          BY <1>2, <1>3, <5>1, <5>2, <5>3
      <4>3. BroadcastInterval(r, d) = 0
        BY <2>1, <2>3, <3>1, <4>2, IntervalIs
      <4> QED
        BY <3>4, <4>1, <4>3
    <3> QED
      BY <3>2, <3>3, <3>4
  <2> QED
    BY <2>3, <2>4 DEF r, OnlyFor
<1> QED
  BY <1>7, <1>8

LEMMA DisableIs ==
    ASSUME NEW list, ListOK(list), NEW c \in Broadcastable
    PROVE  LET r == DisableBroadcast(list, c)
           IN  ListOK(r) /\ OnlyFor(list, r, c, 0)
<1> DEFINE n == Len(list)
           p == Position(list, c)
           r == DisableBroadcast(list, c)
<1>1. c \in Nat /\ \A d \in Broadcastable : d \in Nat
  BY AdvertisingAssumption
<1>2. /\ list \in Seq(Elements) /\ n \in Nat
      /\ \A i \in 1 .. n : list[i].cid \in Nat /\ list[i].interval \in Intervals
      /\ \A i, j \in 1 .. n : i < j => list[i].cid < list[j].cid
  BY ListIs
<1>3. p \in 1 .. n + 1
  BY <1>1, PositionIs
<1>4. IsListed(list, c) => p \in 1 .. n /\ list[p].cid = c
  BY <1>2, <1>3 DEF IsListed
<1>5. ~IsListed(list, c) => \A i \in 1 .. n : list[i].cid # c
  BY <1>1, ListedIs
<1>6. r = IF IsListed(list, c) THEN RemoveAt(list, p) ELSE list
  BY DEF DisableBroadcast
<1> HIDE DEF p, r
<1>7. CASE ~IsListed(list, c)
  <2>1. BroadcastInterval(list, c) = 0
    BY <1>1, <1>5, <1>7, IntervalIs
  <2> QED
    BY <1>6, <1>7, <2>1 DEF r, OnlyFor
<1>8. CASE IsListed(list, c)
  <2>1. /\ r \in Seq(Elements) /\ Len(r) = n - 1
        /\ \A i \in 1 .. n - 1 : r[i] = IF i < p THEN list[i] ELSE list[i + 1]
    <3>1. LET q == RemoveAt(list, p)
          IN  /\ q \in Seq(Elements) /\ Len(q) = n - 1
              /\ \A i \in 1 .. Len(q) : q[i] = IF i < p THEN list[i] ELSE list[i + 1]
      BY <1>2, <1>4, <1>8, RemoveAtIs
    <3> QED
      BY <1>6, <1>8, <3>1
  <2>2. \A i \in 1 .. n : list[i].cid = c => i = p
    BY <1>1, ListedIs DEF p
  <2>3. ListOK(r)
    <3>1. DOMAIN r = 1 .. n - 1
      BY <2>1, LenProperties
    <3>4. ASSUME NEW i \in 1 .. n - 1, NEW j \in 1 .. n - 1, i < j
          PROVE  r[i].cid < r[j].cid
      <4> DEFINE a == IF i < p THEN i ELSE i + 1
                 b == IF j < p THEN j ELSE j + 1
      <4>1. a \in 1 .. n /\ b \in 1 .. n /\ a < b
        BY <1>2, <1>3, <3>4
      <4>2. r[i] = list[a] /\ r[j] = list[b]
        BY <2>1
      <4> HIDE DEF a, b
      <4> QED
        BY <1>2, <4>1, <4>2
    <3>2. Ascending(r)
      BY <3>1, <3>4 DEF Ascending
    <3>3. n - 1 <= BroadcastsPerKey
      BY <1>2, StorageAssumption DEF ListOK
    <3> QED
      BY <2>1, <3>2, <3>3 DEF ListOK, Elements
  <2>4. ASSUME NEW d \in Broadcastable
        PROVE  BroadcastInterval(r, d) = IF d = c THEN 0 ELSE BroadcastInterval(list, d)
    <3>1. d \in Nat
      BY <1>1
    <3>2. CASE d = c
      <4>1. \A i \in 1 .. n - 1 : r[i].cid # d
        BY <1>2, <1>3, <2>1, <2>2, <3>2
      <4> QED
        BY <2>1, <2>3, <3>1, <3>2, <4>1, IntervalIs
    <3>3. CASE d # c /\ \E i \in 1 .. n : list[i].cid = d
      <4>1. PICK i \in 1 .. n : list[i].cid = d
        BY <3>3
      <4> DEFINE k == IF i < p THEN i ELSE i - 1
      <4>2. i # p
        BY <1>4, <1>8, <3>3, <4>1
      <4>3. k \in 1 .. n - 1 /\ r[k] = list[i]
        BY <1>2, <1>4, <1>8, <2>1, <4>2
      <4> HIDE DEF k
      <4>4. BroadcastInterval(list, d) = list[i].interval
        BY <3>1, <4>1, IntervalIs
      <4>5. BroadcastInterval(r, d) = r[k].interval
        BY <2>1, <2>3, <3>1, <4>1, <4>3, IntervalIs
      <4> QED
        BY <3>3, <4>3, <4>4, <4>5
    <3>4. CASE d # c /\ \A i \in 1 .. n : list[i].cid # d
      <4>1. BroadcastInterval(list, d) = 0
        BY <3>1, <3>4, IntervalIs
      <4>2. \A i \in 1 .. n - 1 : r[i].cid # d
        BY <1>2, <1>3, <2>1, <3>4
      <4>3. BroadcastInterval(r, d) = 0
        BY <2>1, <2>3, <3>1, <4>2, IntervalIs
      <4> QED
        BY <3>4, <4>1, <4>3
    <3> QED
      BY <3>2, <3>3, <3>4
  <2> QED
    BY <2>3, <2>4 DEF r, OnlyFor
<1> QED
  BY <1>7, <1>8

-------------------------------------------------------------------------------
\* Events.

LEMMA KeptSame == \A s : StoreOK(s) => StoreKept(s, s)
BY DEF StoreKept, State, Key, Program, Secret, Agree

LEMMA KeptTwice ==
    ASSUME NEW r, NEW s, NEW t, StoreKept(r, s), StoreKept(s, t)
    PROVE  StoreKept(r, t)
BY DEF StoreKept, State, Key, Program, Secret, Agree

LEMMA SteppedThenKept ==
    ASSUME NEW r, NEW s, NEW t, Stepped(r, s), StoreKept(s, t)
    PROVE  Stepped(r, t)
<1>1. /\ GSN(t) = GSN(s) /\ Broadcast(t) = Broadcast(s) /\ (HasKey(t) <=> HasKey(s))
  BY SameState, SameKey DEF StoreKept
<1>2. Rest(t) = Rest(s)
  BY <1>1 DEF Rest
<1>3. Program(r, t) /\ Secret(r, t)
  BY DEF Stepped, StoreKept, Program, Secret, Agree
<1> QED
  BY <1>1, <1>2, <1>3 DEF Stepped, StoreKept

LEMMA KeptThenStepped ==
    ASSUME NEW r, NEW s, NEW t, StoreKept(r, s), Stepped(s, t)
    PROVE  Stepped(r, t)
<1>1. /\ GSN(s) = GSN(r) /\ Broadcast(s) = Broadcast(r) /\ (HasKey(s) <=> HasKey(r))
  BY SameState, SameKey DEF StoreKept
<1>2. Rest(s) = Rest(r)
  BY <1>1 DEF Rest
<1>3. Program(r, t) /\ Secret(r, t)
  BY DEF Stepped, StoreKept, Program, Secret, Agree
<1> QED
  BY <1>1, <1>2, <1>3 DEF Stepped, StoreKept

LEMMA IncrementIsStep ==
    ASSUME NEW s, StoreOK(s)
    PROVE  Stepped(s, IncrementGSN(s)[2])
<1> DEFINE t == IncrementGSN(s)[2]
<1>1. /\ StoreOK(t) /\ Number(s, t) /\ Program(s, t) /\ Secret(s, t)
      /\ GSN(t) = [gsn |-> Up(GSN(s).gsn, UINT16_MAX), didIncrement |-> TRUE]
      /\ HasKey(t) <=> HasKey(s) /\ Broadcast(s).expiration # GSN(s).gsn
      /\ HasKey(t) => Rest(t) = Rest(s) - 1
  BY IncrementGSNIs
<1> HIDE DEF t
<1>2. CN(t) = CN(s) /\ ShortCN(t) = ShortCN(s) /\ ("CN" \in DOMAIN s => "CN" \in DOMAIN t)
  BY <1>1, SameNumber
<1> QED
  BY <1>1, <1>2 DEF t, Stepped

\* The data are updated as they are.
LEMMA UpdateStep ==
    ASSUME NEW w, Sound("BLE", w), w.server # "None", NEW ok \in BOOLEAN
    PROVE  LET u == UpdateAdvertisingData(w, ok)
           IN  /\ Sound("BLE", u) /\ StoreKept(w.store, u.store) /\ Aside(w, u)
               /\ u.adv.connected = w.adv.connected
<1>1. WorldOK(w) /\ Stage(w) /\ AdvSound(w)
  BY SoundStage DEF Sound
<1>2. LET u == UpdateAdvertisingData(w, ok) IN Sound("BLE", u) /\ Updated(w, u)
  BY <1>1, UpdatedSound
<1> QED
  BY <1>2 DEF Updated, Aside

\* The GSN is incremented, in an advertising state that knows of it.
LEMMA SteppedWith ==
    ASSUME NEW w, Sound("BLE", w), w.server # "None", NEW x \in AdvStates,
           x.connected = w.adv.connected, x.fastStarted = w.adv.fastStarted,
           x.fastTimer => w.adv.fastTimer, x.connected => ~x.timer /\ x.iid = 0,
           x.iid # 0 => x.timer /\ HasKey(IncrementGSN(w.store)[2])
    PROVE  LET v == With(w, x, IncrementGSN(w.store)[2])
           IN  /\ WorldOK(v) /\ Stage(v) /\ AdvSound(v) /\ Stepped(w.store, v.store)
               /\ Aside(w, v) /\ v.adv = x /\ IsWorld(v) /\ v.store = IncrementGSN(w.store)[2]
<1> DEFINE t == IncrementGSN(w.store)[2]
           v == With(w, x, t)
<1>1. Stage(w) /\ IsWorld(w) /\ WorldOK(w) /\ AdvSound(w)
  BY SoundStage DEF Sound
<1>2. Stepped(w.store, t) /\ StoreOK(t)
  BY <1>1, IncrementIsStep DEF IsWorld, Stepped
<1>3. x.iid # 0 => x.timer /\ HasKey(t)
  OBVIOUS
<1> HIDE DEF t
<1>4. /\ IsWorld(v) /\ Aside(w, v) /\ v.store = t /\ v.adv = x /\ v.failed = w.failed
  BY <1>1, <1>2, WithIs
<1> HIDE DEF v
<1>5. /\ HasKey(t) => HasKey(w.store)
      /\ "LTSK" \in DOMAIN t <=> "LTSK" \in DOMAIN w.store
      /\ GSN(t).didIncrement
  BY <1>2 DEF Stepped, Secret, Agree
<1>6. WorldOK(v) /\ Stage(v)
  BY <1>1, <1>4, <1>5 DEF WorldOK, Stage, Aside
<1>7. AdvSound(v)
  BY <1>1, <1>3, <1>4, <1>5 DEF AdvSound, Aside
<1> QED
  BY <1>2, <1>4, <1>6, <1>7 DEF v, t

LEMMA SteppedUpdate ==
    ASSUME NEW w, Sound("BLE", w), w.server # "None", NEW x \in AdvStates,
           x.connected = w.adv.connected, x.fastStarted = w.adv.fastStarted,
           x.fastTimer => w.adv.fastTimer, x.connected => ~x.timer /\ x.iid = 0,
           x.iid # 0 => x.timer /\ HasKey(IncrementGSN(w.store)[2]), NEW ok \in BOOLEAN
    PROVE  LET u == UpdateAdvertisingData(With(w, x, IncrementGSN(w.store)[2]), ok)
           IN  /\ Sound("BLE", u) /\ Stepped(w.store, u.store) /\ Aside(w, u)
               /\ u.adv.connected = w.adv.connected
<1> DEFINE v == With(w, x, IncrementGSN(w.store)[2])
           u == UpdateAdvertisingData(v, ok)
<1>1. /\ WorldOK(v) /\ Stage(v) /\ AdvSound(v) /\ Stepped(w.store, v.store)
      /\ Aside(w, v) /\ v.adv = x
  BY SteppedWith
<1> HIDE DEF v
<1>2. Sound("BLE", u) /\ Updated(v, u)
  BY <1>1, UpdatedSound
<1> HIDE DEF u
<1>3. Stepped(w.store, u.store)
  BY <1>1, <1>2, SteppedThenKept DEF Updated
<1> QED
  BY <1>1, <1>2, <1>3 DEF Updated, Aside, u, v

\* Without an update of the data: in a connection nothing is on the air.
LEMMA IncrementedSound ==
    ASSUME NEW w, Sound("BLE", w), w.adv.connected
    PROVE  LET u == Incremented(w)
           IN  /\ Sound("BLE", u) /\ Stepped(w.store, u.store) /\ Aside(w, u)
               /\ u.adv.connected = w.adv.connected
<1> DEFINE u == Incremented(w)
           t == IncrementGSN(w.store)[2]
<1>1. IsWorld(w) /\ WorldOK(w) /\ AdvSound(w) /\ ProcessSound("BLE", w) /\ OnAir(w)
  BY DEF Sound, WorldOK, AirSound
<1>2. Stepped(w.store, t) /\ StoreOK(t)
  BY <1>1, IncrementIsStep DEF IsWorld, Stepped
<1>3. u = [w EXCEPT !.store = t]
  BY DEF Incremented
<1> HIDE DEF t, u
<1>4. /\ IsWorld(u) /\ Aside(w, u) /\ u.store = t /\ u.adv = w.adv /\ u.air = w.air
      /\ u.failed = w.failed
  BY <1>1, <1>2, <1>3, Changes
<1>5. /\ "LTSK" \in DOMAIN t <=> "LTSK" \in DOMAIN w.store
      /\ HasKey(t) => HasKey(w.store)
  BY <1>2 DEF Stepped, Secret, Agree
<1>6. WorldOK(u)
  BY <1>1, <1>4 DEF WorldOK, Aside
<1>7. ProcessSound("BLE", u)
  BY <1>1, <1>4, <1>5 DEF ProcessSound, Aside
<1>8. AdvSound(u)
  BY <1>1, <1>4, <1>5 DEF AdvSound, Aside
<1>9. Advertised(u).kind = "None" /\ Advertised(w).kind = "None"
  BY <1>4, AdvertisedIs
<1>10. OnAir(u)
  BY <1>1, <1>4, <1>9 DEF OnAir, Aside
<1> QED
  BY <1>2, <1>4, <1>6, <1>7, <1>8, <1>10 DEF Sound, AirSound, Aside, u

\* What raising an event makes of a world: the contents stay, or the GSN goes on by one.
Raised(w, u, stepped) ==
    /\ Sound("BLE", u) /\ u.adv.connected = w.adv.connected /\ Aside(w, u)
    /\ IF stepped THEN Stepped(w.store, u.store) ELSE StoreKept(w.store, u.store)

\* An assertion that does not expect an event from before a reset or an update.
Fails(w, u) ==
    /\ u.failed \in {"DidRaiseEvent", "GetAdvertisingParameters"}
    /\ u.kept = w.store /\ IsWorld(u) /\ Aside(w, u) /\ w.outdated

LEMMA BroadcastSound ==
    ASSUME NEW w, Sound("BLE", w), w.server # "None", NEW c,
           MayBroadcast(w, c), NEW read \in BOOLEAN, NEW ok \in BOOLEAN
    PROVE  Raised(w, BroadcastEvent(w, c, read, ok), read)
<1> DEFINE x == [w.adv EXCEPT !.timer = FALSE, !.iid = 0]
           v == [w EXCEPT !.adv = x]
           a == UpdateAdvertisingData(v, ok)
           i == BroadcastInterval(w.broadcasts, c)
           y == IF ok THEN [a.adv EXCEPT !.timer = TRUE, !.iid = c, !.interval = i]
                      ELSE [a.adv EXCEPT !.timer = FALSE]
           d == With(a, y, IncrementGSN(a.store)[2])
<1>1. /\ IsWorld(w) /\ w.adv \in AdvStates /\ ListOK(w.broadcasts) /\ StoreOK(w.store)
      /\ ~w.adv.connected /\ c \in Broadcastable /\ c \in Nat
      /\ HasKey(w.store) /\ Broadcast(w.store).expiration # GSN(w.store).gsn
  BY AdvertisingAssumption DEF Sound, WorldOK, IsWorld, MayBroadcast
<1>2. /\ x \in AdvStates /\ x.connected = w.adv.connected /\ x.iid = 0 /\ ~x.timer
      /\ ~x.connected /\ x.fastStarted = w.adv.fastStarted /\ x.fastTimer = w.adv.fastTimer
  BY <1>1 DEF AdvStates
<1>3. v = [w EXCEPT !.adv.timer = FALSE, !.adv.iid = 0]
  BY <1>1 DEF IsWorld
<1> HIDE DEF x
<1>4. /\ Sound("BLE", a) /\ Updated(v, a) /\ Aside(w, v) /\ v.store = w.store /\ v.adv = x
  BY <1>2, AdvStep
<1> HIDE DEF v
<1>5. /\ StoreKept(w.store, a.store) /\ a.server # "None" /\ a.adv \in AdvStates
      /\ a.adv.connected = w.adv.connected /\ Aside(w, a) /\ IsWorld(a) /\ a.adv.iid = 0
  BY <1>2, <1>4 DEF Updated, Aside, IsWorld
<1>6. CASE ~read
  <2>1. BroadcastEvent(w, c, read, ok) = UpdateAdvertisingData(a, ok)
    BY <1>3, <1>6 DEF BroadcastEvent
  <2> HIDE DEF a
  <2> DEFINE u == UpdateAdvertisingData(a, ok)
  <2>2. /\ Sound("BLE", u) /\ StoreKept(a.store, u.store) /\ Aside(a, u)
        /\ u.adv.connected = a.adv.connected
    BY <1>4, <1>5, UpdateStep
  <2> HIDE DEF u
  <2>3. StoreKept(w.store, u.store)
    BY <1>5, <2>2, KeptTwice
  <2> QED
    BY <1>5, <1>6, <2>1, <2>2, <2>3 DEF Raised, Aside, u
<1>7. CASE read
  <2>1. i \in Intervals \cup {0}
    BY <1>1, IntervalIs
  <2>2. BroadcastEvent(w, c, read, ok) = UpdateAdvertisingData(d, ok)
    <3> DEFINE b == [Incremented(a) EXCEPT !.adv.timer = ok]
               e == IF ok THEN [b EXCEPT !.adv.iid = c, !.adv.interval = i] ELSE b
    <3>1. BroadcastEvent(w, c, read, ok) = UpdateAdvertisingData(e, ok)
      BY <1>3, <1>7 DEF BroadcastEvent
    <3> HIDE DEF a, i
    <3>2. b = [a EXCEPT !.store = IncrementGSN(a.store)[2], !.adv.timer = ok]
      BY <1>5 DEF Incremented, IsWorld
    <3>3. e = d
      BY <1>5, <3>2 DEF IsWorld, With, AdvStates
    <3> QED
      BY <3>1, <3>3
  <2> HIDE DEF a, i
  <2>3. /\ y \in AdvStates /\ y.connected = a.adv.connected /\ ~y.connected
        /\ y.fastStarted = a.adv.fastStarted /\ y.fastTimer = a.adv.fastTimer
        /\ y.iid # 0 => y.timer
    BY <1>1, <1>5, <2>1 DEF AdvStates
  <2>4. HasKey(IncrementGSN(a.store)[2])
    <3>1. Stepped(a.store, IncrementGSN(a.store)[2])
      BY <1>5, IncrementIsStep DEF IsWorld
    <3>2. GSN(a.store) = GSN(w.store) /\ Broadcast(a.store) = Broadcast(w.store)
          /\ HasKey(a.store)
      BY <1>1, <1>5, SameState, SameKey DEF StoreKept
    <3> QED
      BY <1>1, <3>1, <3>2 DEF Stepped
  <2> HIDE DEF y
  <2> DEFINE u == UpdateAdvertisingData(d, ok)
  <2>5. /\ Sound("BLE", u) /\ Stepped(a.store, u.store) /\ Aside(a, u)
        /\ u.adv.connected = a.adv.connected
    BY <1>4, <1>5, <2>3, <2>4, SteppedUpdate
  <2> HIDE DEF u
  <2>6. Stepped(w.store, u.store)
    BY <1>5, <2>5, KeptThenStepped
  <2> QED
    BY <1>5, <1>7, <2>2, <2>5, <2>6 DEF Raised, Aside, u
<1> QED
  BY <1>6, <1>7

LEMMA NotifySound ==
    ASSUME NEW w, Sound("BLE", w), w.server # "None", NEW ok \in BOOLEAN
    PROVE  LET u == NotifyDisconnected(w, ok)
           IN  Raised(w, u, ~GSN(w.store).didIncrement) \/ Fails(w, u)
<1>1. IsWorld(w) /\ w.adv \in AdvStates /\ AdvSound(w) /\ StoreOK(w.store) /\ w.failed = "None"
  BY DEF Sound, WorldOK, IsWorld, AdvSound
<1>2. CASE GSN(w.store).didIncrement
  BY <1>1, <1>2, KeptSame DEF NotifyDisconnected, Raised, Aside
<1>3. CASE ~GSN(w.store).didIncrement /\ ~w.adv.timer
  <2>1. w.adv.iid = 0
    BY <1>1, <1>3 DEF AdvSound
  <2>2. Asserts(w, w.adv.iid = 0 /\ ~w.adv.timer, "DidRaiseEvent") = w
    BY <1>3, <2>1 DEF Asserts
  <2>3. CASE w.adv.connected
    <3>1. NotifyDisconnected(w, ok) = Incremented(w)
      BY <1>3, <2>2, <2>3 DEF NotifyDisconnected
    <3> QED
      BY <1>3, <2>3, <3>1, IncrementedSound DEF Raised
  <2>4. CASE ~w.adv.connected
    <3> DEFINE x == [w.adv EXCEPT !.timer = ok]
               v == With(w, x, IncrementGSN(w.store)[2])
               u == UpdateAdvertisingData(v, ok)
    <3>1. NotifyDisconnected(w, ok) = u
      <4>1. v = [Incremented(w) EXCEPT !.adv.timer = ok]
        BY <1>1 DEF Incremented, IsWorld, With
      <4> QED
        BY <1>3, <2>2, <2>4, <4>1 DEF NotifyDisconnected
    <3>2. /\ x \in AdvStates /\ x.connected = w.adv.connected /\ x.iid = 0 /\ ~x.connected
          /\ x.fastStarted = w.adv.fastStarted /\ x.fastTimer = w.adv.fastTimer
      BY <1>1, <2>1, <2>4 DEF AdvStates
    <3> HIDE DEF x
    <3>3. /\ Sound("BLE", u) /\ Stepped(w.store, u.store) /\ Aside(w, u)
          /\ u.adv.connected = w.adv.connected
      BY <3>2, SteppedUpdate
    <3> QED
      BY <1>3, <3>1, <3>3 DEF Raised
  <2> QED
    BY <2>3, <2>4
\* An event from before a reset or an update is still announced.
<1>4. CASE ~GSN(w.store).didIncrement /\ w.adv.timer
  <2> DEFINE b == Failed(w, "DidRaiseEvent")
             x == [w.adv EXCEPT !.timer = ok]
             t == IncrementGSN(w.store)[2]
             v == With(b, x, t)
             u == UpdateAdvertisingData(v, ok)
  <2>1. w.outdated /\ ~w.adv.connected
    BY <1>1, <1>4 DEF AdvSound
  <2>2. Asserts(w, w.adv.iid = 0 /\ ~w.adv.timer, "DidRaiseEvent") = b
    BY <1>1, <1>4 DEF Asserts, Failed
  <2>3. /\ IsWorld(b) /\ Aside(w, b) /\ b.store = w.store /\ b.adv = w.adv
        /\ b.failed = "DidRaiseEvent" /\ b.kept = w.store
    BY <1>1, FailedIs
  <2> HIDE DEF b
  <2>4. NotifyDisconnected(w, ok) = u
    <3>1. v = [Incremented(b) EXCEPT !.adv.timer = ok]
      BY <2>3 DEF Incremented, IsWorld, With
    <3> QED
      BY <1>4, <2>1, <2>2, <3>1 DEF NotifyDisconnected
  <2>5. x \in AdvStates /\ StoreOK(t)
    BY <1>1, IncrementIsStep DEF AdvStates, Stepped
  <2> HIDE DEF x, t
  <2>6. /\ IsWorld(v) /\ Aside(b, v) /\ v.store = t /\ v.adv = x /\ v.failed = b.failed
        /\ v.kept = b.kept
    BY <2>3, <2>5, WithIs
  <2> HIDE DEF v
  <2>7. ~Works(v)
    BY <2>3, <2>6 DEF Works
  <2>8. IsWorld(u) /\ Aside(v, u) /\ u.failed = v.failed /\ u.kept = v.kept
    BY <2>6, <2>7, UpdateFailed
  <2> QED
    BY <2>1, <2>3, <2>4, <2>6, <2>8 DEF Fails, Aside
<1> QED
  BY <1>2, <1>3, <1>4

LEMMA RaiseSound ==
    ASSUME NEW w, Sound("BLE", w), w.server # "None", NEW c,
           NEW read \in BOOLEAN, NEW ok \in BOOLEAN
    PROVE  LET u == DidRaiseEvent(w, c, read, ok)
           IN  \/ Raised(w, u, IF MayBroadcast(w, c) THEN read ELSE ~GSN(w.store).didIncrement)
               \/ Fails(w, u) /\ ~MayBroadcast(w, c)
BY BroadcastSound, NotifySound DEF DidRaiseEvent

LEMMA SendSound ==
    ASSUME NEW w, Sound("BLE", w), w.adv.connected
    PROVE  Raised(w, DidSendEventNotification(w), ~GSN(w.store).didIncrement)
<1>1. AdvSound(w) /\ StoreOK(w.store)
  BY DEF Sound, WorldOK, IsWorld
<1>2. Asserts(w, w.adv.iid = 0 /\ ~w.adv.timer, "DidSendEventNotification") = w
  BY <1>1 DEF AdvSound, Asserts
<1> QED
  BY <1>1, <1>2, IncrementedSound, KeptSame DEF DidSendEventNotification, Raised, Aside

-------------------------------------------------------------------------------
\* Actions: a handler, and what it does to the history.

LEMMA WorldIs ==
    /\ World.store = store /\ World.broadcasts = broadcasts /\ World.pairings = pairings
    /\ World.image = image /\ World.server = server /\ World.adv = adv /\ World.air = air
    /\ World.outdated = outdated /\ World.failed = "None" /\ World.kept = store
BY DEF World

\* An event that is no longer announced is not outdated either.
LEMMA SoundSame ==
    ASSUME NEW h, NEW w, NEW u, Sound(h, w), IsWorld(u), Works(u),
           u.store = w.store, u.broadcasts = w.broadcasts, u.pairings = w.pairings,
           u.image = w.image, u.server = w.server, u.adv = w.adv, u.air = w.air,
           u.outdated \in BOOLEAN, u.outdated => w.outdated,
           w.outdated => u.outdated \/ ~w.adv.timer
    PROVE  Sound(h, u)
<1>1. WorldOK(u) /\ ProcessSound(h, u)
  BY DEF Sound, WorldOK, ProcessSound
<1>2. AdvSound(u)
  BY DEF Sound, AdvSound, Works
<1>3. Advertised(u) = Advertised(w)
  BY DEF Advertised
<1>4. AirSound(h, u)
  BY <1>3 DEF Sound, AirSound, OnAir
<1> QED
  BY <1>1, <1>2, <1>4 DEF Sound

LEMMA HistorySame ==
    ASSUME NEW h, NEW w, NEW u, NEW s, NEW g, NEW l, NEW i, History(h, w, s, g, l, i),
           u.store = w.store, u.adv = w.adv, CutOffSound(u, i)
    PROVE  History(h, u, s, g, l, i)
BY DEF History, NonceSound, ToldSound, NumberSound

\* A step to a sound world, with a history that fits it.
LEMMA StepKeeps ==
    ASSUME IInv, NEW w, Becomes(w), Sound(hardware, w),
           History(hardware, w, sent', seen', last', interrupted'),
           Configured(w.broadcasts, asked')
    PROVE  IInv'
<1>1. IsWorld(w) /\ w.failed = "None" /\ w.outdated \in BOOLEAN /\ StoreOK(w.store)
      /\ w.adv \in AdvStates
  BY DEF Sound, WorldOK, AdvSound, IsWorld
<1>2. Outcome(w) = w
  BY <1>1 DEF Outcome
<1>3. /\ store' = w.store /\ broadcasts' = w.broadcasts /\ pairings' = w.pairings
      /\ image' = w.image /\ server' = w.server /\ adv' = w.adv /\ air' = w.air
      /\ failed' = "None" /\ hardware' = hardware /\ outdated' = (w.outdated /\ w.adv.timer)
  BY <1>1, <1>2 DEF Becomes
<1> DEFINE u == World'
<1>4. /\ u = [store |-> store', broadcasts |-> broadcasts', pairings |-> pairings',
              image |-> image', server |-> server', adv |-> adv', air |-> air',
              outdated |-> outdated', failed |-> "None", kept |-> store']
  BY DEF World
<1> HIDE DEF u
<1>5. /\ u.store = w.store /\ u.broadcasts = w.broadcasts /\ u.pairings = w.pairings
      /\ u.image = w.image /\ u.server = w.server /\ u.adv = w.adv /\ u.air = w.air
      /\ u.outdated = outdated' /\ u.failed = "None"
  BY <1>3, <1>4
<1>6. IsWorld(u) /\ Works(u)
  BY <1>1, <1>3, <1>4, <1>5 DEF IsWorld, Works
<1>7. outdated' \in BOOLEAN
  BY <1>3
<1>8. Sound(hardware, u)
  BY <1>3, <1>5, <1>6, <1>7, SoundSame
<1>9. History(hardware, u, sent', seen', last', interrupted')
  <2>1. CutOffSound(u, interrupted')
    BY <1>5 DEF History, CutOffSound
  <2> QED
    BY <1>5, <2>1, HistorySame
<1>10. outdated' => adv'.timer
  BY <1>3
<1>11. FailsOnlyWhenOutdated'
  BY <1>3 DEF FailsOnlyWhenOutdated
<1>12. hardware \in {"BLE", "IP"}
  BY DEF IInv
<1> QED
  BY <1>3, <1>8, <1>9, <1>10, <1>11, <1>12 DEF IInv, u

LEMMA InvIs ==
    ASSUME IInv
    PROVE  /\ IsWorld(World) /\ Sound(hardware, World) /\ Configured(broadcasts, asked)
           /\ History(hardware, World, sent, seen, last, interrupted)
           /\ adv \in AdvStates /\ StoreOK(store) /\ ListOK(broadcasts)
           /\ hardware \in {"BLE", "IP"} /\ server \in {"None", "Idle", "Running", "Stopping"}
           /\ image \in Images \cup {0} /\ pairings \in {"None", "Current", "Stale"}
           /\ outdated \in BOOLEAN /\ (outdated => adv.timer \/ server = "None")
           /\ outdated => ~HasKey(store)
           /\ hardware = "IP" => adv = Quiet /\ ~HasKey(store)
<1>1. /\ outdated \in BOOLEAN /\ (outdated => ~HasKey(store))
      /\ hardware = "IP" => adv = Quiet /\ ~HasKey(store)
  BY WorldIs DEF IInv, Sound, AdvSound, ProcessSound
<1> QED
  BY <1>1, WorldIs DEF IInv, Sound, WorldOK, IsWorld

\* An accessory on IP does not advertise, and a connection ends what was announced.
LEMMA OnBLE ==
    ASSUME IInv, adv.connected \/ adv.timer \/ adv.fastTimer \/ adv.fastStarted
    PROVE  /\ hardware = "BLE" /\ server # "None"
           /\ adv.connected => interrupted = 0 /\ ~outdated
<1>1. Sound(hardware, World)
  BY InvIs
<1>2. hardware = "BLE" /\ server # "None"
  BY <1>1, WorldIs, InvIs DEF Sound, ProcessSound, Quiet
<1>3. ASSUME adv.connected PROVE interrupted = 0 /\ ~outdated
  <2>1. server \in {"Running", "Stopping"}
    BY <1>1, <1>2, <1>3, WorldIs, InvIs DEF Sound, ProcessSound
  <2>2. interrupted = 0
    BY <2>1, WorldIs, InvIs, CutOffIs
  <2>3. ~adv.timer
    BY <1>1, <1>3, WorldIs DEF Sound, AdvSound
  <2> QED
    BY <1>2, <2>2, <2>3, InvIs
<1> QED
  BY <1>2, <1>3

LEMMA TimerKeeps ==
    ASSUME IInv, NEW ok \in BOOLEAN, AdvertisingTimer(ok) \/ FastTimer(ok)
    PROVE  IInv'
<1>1. hardware = "BLE" /\ UNCHANGED history
  BY OnBLE DEF AdvertisingTimer, FastTimer
<1>2. /\ IsWorld(World) /\ Sound("BLE", World) /\ Configured(broadcasts, asked)
      /\ History("BLE", World, sent, seen, last, interrupted)
  BY <1>1, InvIs
<1>3. PICK w : /\ Becomes(w) /\ Sound("BLE", w) /\ StoreKept(World.store, w.store)
               /\ w.adv.connected = World.adv.connected /\ Aside(World, w)
  <2>1. CASE AdvertisingTimer(ok)
    BY <1>2, <2>1, WorldIs, TimerExpiredSound DEF AdvertisingTimer
  <2>2. CASE FastTimer(ok)
    BY <1>2, <2>2, WorldIs, FastTimerExpiredSound DEF FastTimer
  <2> QED
    BY <2>1, <2>2
<1>4. /\ w.server = World.server /\ w.image = World.image /\ w.broadcasts = broadcasts
  BY <1>3, WorldIs DEF Aside
<1>5. History("BLE", w, sent, seen, last, interrupted)
  BY <1>2, <1>3, <1>4, HistoryKept
<1> QED
  BY <1>1, <1>2, <1>3, <1>4, <1>5, StepKeeps DEF history

LEMMA ConnectKeeps ==
    ASSUME IInv, Connect
    PROVE  IInv'
<1> DEFINE w == DidConnect(World)
<1>1. server = "Running" /\ air.kind \in {"State", "Event"} /\ Becomes(w) /\ UNCHANGED history
  BY DEF Connect
<1> HIDE DEF w
<1>2. hardware = "BLE"
  BY <1>1, WorldIs, InvIs DEF Sound, AirSound
<1>3. ~adv.connected
  <2>1. air.kind = Advertised(World).kind
    BY <1>1, <1>2, WorldIs, InvIs DEF Sound, AirSound, OnAir
  <2> QED
    BY <1>1, <1>2, <2>1, WorldIs, InvIs, AdvertisedIs
<1>4. interrupted = 0
  BY <1>1, WorldIs, InvIs, CutOffIs
<1>5. /\ IsWorld(World) /\ Sound("BLE", World) /\ Configured(broadcasts, asked)
      /\ History("BLE", World, sent, seen, last, 0)
  BY <1>2, <1>4, InvIs
<1>6. /\ Sound("BLE", w) /\ StoreKept(Reconnected(World.store), w.store)
      /\ w.adv.connected /\ w.broadcasts = broadcasts
  BY <1>1, <1>3, <1>5, WorldIs, ConnectSound DEF w, Aside
<1>7. History("BLE", w, sent, seen, last, 0)
  BY <1>5, <1>6, HistoryReconnected
<1> QED
  BY <1>1, <1>2, <1>4, <1>5, <1>6, <1>7, StepKeeps DEF history

LEMMA DisconnectKeeps ==
    ASSUME IInv, NEW ok \in BOOLEAN, Disconnect(ok)
    PROVE  IInv'
<1> DEFINE d == DidDisconnect(World, ok)
           w == IF server = "Running" THEN d ELSE [d EXCEPT !.server = "Idle"]
<1>1. /\ adv.connected /\ Becomes(w) /\ seen' = GSN(d.store).gsn
      /\ UNCHANGED <<sent, asked, last, interrupted>>
  BY DEF Disconnect
<1>2. hardware = "BLE" /\ interrupted = 0
  BY <1>1, OnBLE
<1>3. /\ IsWorld(World) /\ Sound("BLE", World) /\ Configured(broadcasts, asked)
      /\ History("BLE", World, sent, seen, last, 0)
  BY <1>2, InvIs
<1>4. /\ Sound("BLE", w) /\ StoreKept(Reconnected(World.store), w.store)
      /\ w.store = d.store /\ w.broadcasts = broadcasts
  BY <1>1, <1>3, WorldIs, DisconnectSound
<1> HIDE DEF w, d
<1>5. History("BLE", w, sent, seen', last, 0)
  BY <1>1, <1>3, <1>4, HistoryReconnected
<1> QED
  BY <1>1, <1>2, <1>3, <1>4, <1>5, StepKeeps

\* The GSNs since the key was generated are those that it does not have left.
LEMMA OffsetIs ==
    ASSUME NEW w, StoreOK(w.store), HasKey(w.store), Rest(w.store) < KeyLife
    PROVE  Offset(w) = KeyLife - 1 - Rest(w.store)
<1> DEFINE g == GSN(w.store).gsn
           e == Broadcast(w.store).expiration
           r == Rest(w.store)
           M == UINT16_MAX
<1>1. g \in GSNs /\ e \in GSNs /\ r \in 0 .. M - 1 /\ r = Distance(M, g, e)
  BY StoreIs DEF Rest
<1>2. M \in Nat \ {0} /\ KeyLife \in Nat /\ 2 * KeyLife <= M
  BY StorageAssumption, KeyLifeIs
<1>3. Offset(w) = (g - (e - KeyLife + 1)) % M
  BY DEF Offset
<1>4. r < KeyLife
  OBVIOUS
<1> HIDE DEF g, e, r, M
<1>5. KeyLife - 1 - r \in 0 .. M - 1
  BY <1>1, <1>2, <1>4
<1>6. \/ g - (e - KeyLife + 1) = KeyLife - 1 - r
      \/ g - (e - KeyLife + 1) = (KeyLife - 1 - r) + M
  BY <1>1, <1>2 DEF Distance, GSNs, M
<1>7. (KeyLife - 1 - r) % M = KeyLife - 1 - r /\ ((KeyLife - 1 - r) + M) % M = KeyLife - 1 - r
  BY <1>2, <1>5, ModuloSmall
<1> QED
  BY <1>3, <1>6, <1>7 DEF r

\* Another nonce is remembered.
LEMMA HistorySent ==
    ASSUME NEW h, NEW w, NEW s, NEW z, NEW g, NEW l, NEW i, History(h, w, s, g, l, i),
           z \in [offset : Int, again : BOOLEAN], NonceSound(w, z, i)
    PROVE  History(h, w, z, g, l, i)
BY DEF History

LEMMA SendKeeps ==
    ASSUME IInv, SendEventNotification
    PROVE  IInv'
<1> DEFINE w == DidSendEventNotification(World)
<1>1. adv.connected /\ Becomes(w) /\ UNCHANGED history
  BY DEF SendEventNotification
<1>2. hardware = "BLE" /\ interrupted = 0
  BY <1>1, OnBLE
<1>3. /\ IsWorld(World) /\ Sound("BLE", World) /\ Configured(broadcasts, asked)
      /\ History("BLE", World, sent, seen, last, 0) /\ StoreOK(store)
  BY <1>2, InvIs
<1>4. Raised(World, w, ~GSN(store).didIncrement)
  BY <1>1, <1>3, WorldIs, SendSound
<1> HIDE DEF w
<1>5. /\ w.adv.connected = World.adv.connected /\ w.broadcasts = broadcasts /\ Sound("BLE", w)
      /\ w.server = World.server /\ w.image = World.image
  BY <1>4, WorldIs DEF Raised, Aside
<1>6. History("BLE", w, sent, seen, last, 0)
  <2>1. CASE GSN(store).didIncrement
    <3>1. StoreKept(World.store, w.store)
      BY <1>4, <2>1 DEF Raised
    <3> QED
      BY <1>3, <1>5, <3>1, HistoryKept
  <2>2. CASE ~GSN(store).didIncrement
    <3>1. Stepped(World.store, w.store)
      BY <1>4, <2>2 DEF Raised
    <3> QED
      BY <1>3, <1>5, <2>2, <3>1, WorldIs, HistoryStepped
  <2> QED
    BY <2>1, <2>2
<1> QED
  BY <1>1, <1>2, <1>3, <1>5, <1>6, StepKeeps DEF history

-------------------------------------------------------------------------------
\* Actions that change one part of the world.

LEMMA PairingsChanged ==
    ASSUME NEW w, IsWorld(w), NEW x
    PROVE  LET u == [w EXCEPT !.pairings = x]
           IN  /\ IsWorld(u) /\ u.store = w.store /\ u.adv = w.adv /\ u.air = w.air
               /\ u.failed = w.failed /\ u.broadcasts = w.broadcasts
               /\ u.server = w.server /\ u.image = w.image /\ u.pairings = x
               /\ u.outdated = w.outdated
BY DEF IsWorld

LEMMA BroadcastsChanged ==
    ASSUME NEW w, IsWorld(w), NEW x
    PROVE  LET u == [w EXCEPT !.broadcasts = x]
           IN  /\ IsWorld(u) /\ u.store = w.store /\ u.adv = w.adv /\ u.air = w.air
               /\ u.failed = w.failed /\ u.pairings = w.pairings
               /\ u.server = w.server /\ u.image = w.image /\ u.broadcasts = x
               /\ u.outdated = w.outdated
BY DEF IsWorld

\* What is on the air of a world does not depend on its list and its pairings.
LEMMA OnAirSame ==
    ASSUME NEW w, NEW u, OnAir(w), u.adv = w.adv, u.store = w.store, u.air = w.air,
           u.server = w.server
    PROVE  OnAir(u)
<1>1. Advertised(u) = Advertised(w)
  BY DEF Advertised
<1> QED
  BY <1>1 DEF OnAir

LEMMA ConfigureKeeps ==
    ASSUME IInv, NEW c \in Broadcastable, NEW v \in Intervals \cup {0},
           ConfigureBroadcast(c, v)
    PROVE  IInv'
<1> DEFINE r == IF v = 0 THEN DisableBroadcast(broadcasts, c)
                         ELSE EnableBroadcast(broadcasts, c, v)
           w == [World EXCEPT !.broadcasts = r]
<1>1. /\ adv.connected /\ pairings = "Current" /\ (v # 0 => ~CannotEnable(broadcasts, c))
      /\ Becomes(w) /\ asked' = [asked EXCEPT ![c] = v]
      /\ UNCHANGED <<sent, seen, last, interrupted>>
  BY DEF ConfigureBroadcast, Paired
<1>2. /\ IsWorld(World) /\ Sound(hardware, World) /\ Configured(broadcasts, asked)
      /\ History(hardware, World, sent, seen, last, interrupted) /\ ListOK(broadcasts)
  BY InvIs
<1>3. ListOK(r) /\ OnlyFor(broadcasts, r, c, v)
  <2>1. CASE v = 0
    BY <1>2, <2>1, DisableIs
  <2>2. CASE v # 0
    <3>1. v \in Intervals /\ ~CannotEnable(broadcasts, c)
      BY <1>1, <2>2
    <3>2. LET q == EnableBroadcast(broadcasts, c, v) IN ListOK(q) /\ OnlyFor(broadcasts, q, c, v)
      BY <1>2, <3>1, EnableIs
    <3> QED
      BY <2>2, <3>2
  <2> QED
    BY <2>1, <2>2
<1> HIDE DEF r
<1>4. /\ IsWorld(w) /\ w.store = store /\ w.adv = adv /\ w.air = air
      /\ w.failed = "None" /\ w.outdated = outdated /\ w.pairings = pairings
      /\ w.server = server /\ w.image = image /\ w.broadcasts = r
  BY <1>2, WorldIs, BroadcastsChanged
<1> HIDE DEF w
<1>5. Sound(hardware, w)
  <2>1. WorldOK(w)
    BY <1>2, <1>3, <1>4, WorldIs DEF Sound, WorldOK
  <2>2. ProcessSound(hardware, w) /\ AdvSound(w)
    BY <1>2, <1>4, WorldIs DEF Sound, ProcessSound, AdvSound
  <2>3. AirSound(hardware, w)
    BY <1>2, <1>4, WorldIs, OnAirSame DEF Sound, AirSound
  <2> QED
    BY <2>1, <2>2, <2>3 DEF Sound
<1>6. History(hardware, w, sent, seen, last, interrupted)
  <2>1. CutOffSound(w, interrupted)
    BY <1>2, <1>4, WorldIs DEF History, CutOffSound
  <2> QED
    BY <1>2, <1>4, <2>1, WorldIs, HistorySame
<1>7. Configured(r, asked')
  BY <1>1, <1>2, <1>3 DEF Configured, OnlyFor
<1> QED
  BY <1>1, <1>4, <1>5, <1>6, <1>7, StepKeeps

LEMMA QuietIs ==
    /\ Quiet.connected = FALSE /\ Quiet.timer = FALSE /\ Quiet.fastTimer = FALSE
    /\ Quiet.fastStarted = FALSE /\ Quiet.iid = 0 /\ Quiet \in AdvStates
<1>1. Quiet.iid = 0 /\ Quiet \in AdvStates
  BY DEF Quiet, AdvStates
<1>2. /\ Quiet.connected = FALSE /\ Quiet.timer = FALSE /\ Quiet.fastTimer = FALSE
      /\ Quiet.fastStarted = FALSE
  BY Zenon DEF Quiet
<1> QED
  BY <1>1, <1>2

LEMMA QuietAdvSound ==
    ASSUME NEW w, w.adv = Quiet, w.failed = "None", w.outdated \in BOOLEAN,
           w.outdated => ~HasKey(w.store)
    PROVE  AdvSound(w)
BY QuietIs DEF AdvSound

\* A Bonjour record is published.
LEMMA ServiceSound ==
    ASSUME NEW w, WorldOK(w), AdvSound(w), w.server = "Running", w.image \in Images,
           w.adv = Quiet, w.pairings # "Stale", ~HasKey(w.store)
    PROVE  LET u == SetHAPService(w)
           IN  /\ Sound("IP", u) /\ StoreKept(w.store, u.store) /\ "CN" \in DOMAIN u.store
               /\ u.adv = w.adv /\ u.broadcasts = w.broadcasts
               /\ u.image = w.image /\ u.server = w.server /\ u.outdated = w.outdated
<1> DEFINE t == CNCreated(w.store)
           y == [w EXCEPT !.store = t]
           a == [kind |-> "Record", cn |-> CN(w.store), free |-> w.pairings = "None"]
           u == SetHAPService(w)
<1>1. IsWorld(w) /\ StoreOK(w.store)
  BY DEF WorldOK, IsWorld
<1>2. /\ StoreKept(w.store, t) /\ StoreOK(t) /\ "CN" \in DOMAIN t /\ CN(t) = CN(w.store)
      /\ ~HasKey(t)
  BY <1>1, CNCreatedIs, SameKey DEF StoreKept
<1>3. u = [y EXCEPT !.air = a]
  BY <1>1 DEF SetHAPService, IsWorld
<1> HIDE DEF t
<1>4. /\ IsWorld(y) /\ Aside(w, y) /\ y.store = t /\ y.adv = w.adv /\ y.failed = w.failed
  <2>1. /\ IsWorld(y) /\ Aside(w, y) /\ y.store = t /\ y.adv = w.adv
        /\ y.air = w.air /\ y.failed = w.failed /\ y.kept = w.kept
    BY ZenonT(40), <1>1, <1>2, Changes
  <2> QED
    BY <2>1
<1> HIDE DEF y, a, u
<1>5. /\ IsWorld(u) /\ Aside(y, u) /\ u.store = t /\ u.adv = w.adv /\ u.failed = w.failed
      /\ u.air = a
  <2>1. LET z == [y EXCEPT !.air = a]
        IN  /\ IsWorld(z) /\ Aside(y, z) /\ z.store = y.store /\ z.adv = y.adv
            /\ z.air = a /\ z.failed = y.failed /\ z.kept = y.kept
    BY ZenonT(40), <1>4, Changes
  <2> QED
    BY <1>3, <1>4, <2>1
<1>6. /\ u.broadcasts = w.broadcasts /\ u.pairings = w.pairings
      /\ u.image = w.image /\ u.server = w.server /\ u.outdated = w.outdated
  BY <1>4, <1>5 DEF Aside
<1>7. WorldOK(u)
  BY <1>5, <1>6 DEF WorldOK
<1>8. ProcessSound("IP", u)
  BY <1>2, <1>5, <1>6, QuietIs DEF ProcessSound
<1>9. AdvSound(u)
  <2>1. u.failed = "None" /\ u.outdated \in BOOLEAN
    BY <1>5, <1>6 DEF AdvSound
  <2> QED
    BY <1>2, <1>5, <2>1, QuietAdvSound
<1>10. AirSound("IP", u)
  BY <1>2, <1>5, <1>6 DEF AirSound, a
<1> QED
  BY <1>2, <1>5, <1>6, <1>7, <1>8, <1>9, <1>10 DEF Sound, u

\* Pairings come and go: in a connection on BLE, and with a new record on IP.
LEMMA PairingsStep ==
    ASSUME IInv, server = "Running", hardware = "BLE" => adv.connected,
           NEW x \in {"None", "Current"},
           LET w == [World EXCEPT !.pairings = x]
           IN  Becomes(IF hardware = "IP" THEN SetHAPService(w) ELSE w),
           UNCHANGED history
    PROVE  IInv'
<1> DEFINE w == [World EXCEPT !.pairings = x]
           u == SetHAPService(w)
<1>1. /\ IsWorld(World) /\ Sound(hardware, World) /\ Configured(broadcasts, asked)
      /\ History(hardware, World, sent, seen, last, interrupted) /\ hardware \in {"BLE", "IP"}
  BY InvIs
<1>2. /\ IsWorld(w) /\ w.store = store /\ w.adv = adv /\ w.air = air
      /\ w.failed = "None" /\ w.outdated = outdated /\ w.broadcasts = broadcasts
      /\ w.server = server /\ w.image = image /\ w.pairings = x
  BY <1>1, WorldIs, PairingsChanged
<1>3. Becomes(IF hardware = "IP" THEN u ELSE w)
  OBVIOUS
<1> HIDE DEF w, u
<1>4. WorldOK(w) /\ AdvSound(w) /\ ProcessSound(hardware, w) /\ image \in Images
  BY <1>1, <1>2, WorldIs DEF Sound, WorldOK, AdvSound, ProcessSound
<1>5. interrupted = 0
  BY <1>1, WorldIs, CutOffIs
<1>6. CASE hardware = "BLE"
  <2>1. OnAir(w)
    BY <1>1, <1>2, <1>6, WorldIs, OnAirSame DEF Sound, AirSound
  <2>2. Sound(hardware, w)
    BY <1>4, <1>6, <2>1 DEF Sound, AirSound
  <2>3. CutOffSound(w, interrupted)
    BY <1>5 DEF CutOffSound
  <2>4. History(hardware, w, sent, seen, last, interrupted)
    BY <1>1, <1>2, <2>3, WorldIs, HistorySame
  <2>5. Becomes(w)
    BY <1>3, <1>6
  <2> QED
    BY <1>1, <1>2, <2>2, <2>4, <2>5, StepKeeps DEF history
<1>7. CASE hardware = "IP"
  <2>1. w.adv = Quiet /\ ~HasKey(w.store)
    BY <1>4, <1>7 DEF ProcessSound
  <2>2. /\ Sound("IP", u) /\ StoreKept(w.store, u.store) /\ u.adv = w.adv
        /\ u.broadcasts = w.broadcasts /\ u.image = w.image /\ u.server = w.server
    BY <1>2, <1>4, <2>1, ServiceSound DEF u
  <2>3. History("IP", u, sent, seen, last, 0)
    <3>1. History("IP", World, sent, seen, last, 0)
      BY <1>1, <1>5, <1>7
    <3>2. /\ StoreKept(World.store, u.store) /\ u.adv.connected = World.adv.connected
          /\ u.server = World.server /\ u.image = World.image
      BY <1>2, <2>2, WorldIs
    <3> QED
      BY <1>1, <3>1, <3>2, HistoryKept
  <2>4. Becomes(u)
    BY <1>3, <1>7
  <2> QED
    BY <1>1, <1>2, <1>5, <1>7, <2>2, <2>3, <2>4, StepKeeps DEF history
<1> QED
  BY <1>1, <1>6, <1>7

LEMMA PairKeeps ==
    ASSUME IInv, Pair \/ RemovePairing
    PROVE  IInv'
<1>1. CASE Pair
  BY <1>1, PairingsStep DEF Pair
<1>2. CASE RemovePairing
  BY <1>2, PairingsStep DEF RemovePairing
<1> QED
  BY <1>1, <1>2

LEMMA RemoveAllKeeps ==
    ASSUME IInv, RemoveAllPairings
    PROVE  IInv'
<1> DEFINE w == [World EXCEPT !.pairings = "None"]
<1>1. server = "Idle" /\ Becomes(w) /\ UNCHANGED history
  BY DEF RemoveAllPairings
<1>2. /\ IsWorld(World) /\ Sound(hardware, World) /\ Configured(broadcasts, asked)
      /\ History(hardware, World, sent, seen, last, interrupted) /\ hardware \in {"BLE", "IP"}
  BY InvIs
<1>3. /\ IsWorld(w) /\ w.store = store /\ w.adv = adv /\ w.air = air
      /\ w.failed = "None" /\ w.outdated = outdated /\ w.broadcasts = broadcasts
      /\ w.server = server /\ w.image = image /\ w.pairings = "None"
  BY <1>2, WorldIs, PairingsChanged
<1> HIDE DEF w
<1>4. WorldOK(w) /\ AdvSound(w) /\ ProcessSound(hardware, w)
  BY ZenonT(40), <1>2, <1>3, WorldIs DEF Sound, WorldOK, AdvSound, ProcessSound
<1>5. Sound(hardware, w)
  BY <1>1, <1>3, <1>4 DEF Sound, AirSound, OnAir
<1>6. CutOffSound(w, interrupted)
  BY <1>2, <1>3, WorldIs DEF History, CutOffSound
<1>7. History(hardware, w, sent, seen, last, interrupted)
  BY <1>2, <1>3, <1>6, WorldIs, HistorySame
<1> QED
  BY <1>1, <1>2, <1>3, <1>5, <1>7, StepKeeps DEF history

LEMMA BootKeeps ==
    ASSUME IInv, NEW i \in Images, Boot(i)
    PROVE  IInv'
<1> DEFINE w == [World EXCEPT !.image = i, !.server = "Idle"]
<1>1. server = "None" /\ i >= interrupted /\ Becomes(w) /\ UNCHANGED history
  BY DEF Boot
<1>2. /\ IsWorld(World) /\ Sound(hardware, World) /\ Configured(broadcasts, asked)
      /\ History(hardware, World, sent, seen, last, interrupted) /\ hardware \in {"BLE", "IP"}
  BY InvIs
<1>3. /\ IsWorld(w) /\ w.store = store /\ w.adv = adv /\ w.air = air
      /\ w.failed = "None" /\ w.outdated = outdated /\ w.broadcasts = broadcasts
      /\ w.server = "Idle" /\ w.image = i /\ w.pairings = pairings
  <2> DEFINE y == [World EXCEPT !.image = i]
  <2>1. /\ IsWorld(y) /\ y.store = store /\ y.adv = adv /\ y.air = air
        /\ y.failed = "None" /\ y.outdated = outdated /\ y.broadcasts = broadcasts
        /\ y.image = i /\ y.pairings = pairings
    BY <1>2, WorldIs DEF IsWorld
  <2>2. w = [y EXCEPT !.server = "Idle"]
    OBVIOUS
  <2> HIDE DEF y, w
  <2> QED
    BY <2>1, <2>2, StageChanged
<1> HIDE DEF w
<1>4. adv = Quiet
  BY <1>1, <1>2, WorldIs DEF Sound, ProcessSound
<1>5. WorldOK(w) /\ AdvSound(w) /\ ProcessSound(hardware, w)
  <2>1. WorldOK(w)
    BY <1>2, <1>3, WorldIs DEF Sound, WorldOK
  <2>2. w.failed = "None" /\ ~w.adv.connected
    BY <1>3, <1>4, QuietIs
  <2>3. AdvSound(w)
    BY <1>3, <1>4, InvIs, QuietAdvSound
  <2>4. ProcessSound(hardware, w)
    BY <1>2, <1>3, <1>4, <2>2, WorldIs DEF Sound, ProcessSound
  <2> QED
    BY <2>1, <2>3, <2>4
<1>6. Sound(hardware, w)
  BY <1>1, <1>3, <1>5 DEF Sound, AirSound, OnAir
<1>7. CutOffSound(w, interrupted)
  BY <1>1, <1>3 DEF CutOffSound
<1>8. History(hardware, w, sent, seen, last, interrupted)
  BY <1>2, <1>3, <1>7, WorldIs, HistorySame
<1> QED
  BY <1>1, <1>2, <1>3, <1>6, <1>8, StepKeeps DEF history

LEMMA GenerateKeeps ==
    ASSUME IInv, GenerateKey
    PROVE  IInv'
<1> DEFINE t == KeyGenerated(store)
           w == [World EXCEPT !.store = t]
<1>1. /\ adv.connected /\ Becomes(w) /\ sent' = [offset |-> 0, again |-> FALSE]
      /\ UNCHANGED <<seen, asked, last, interrupted>>
  BY WorldIs DEF GenerateKey, Paired
<1>2. hardware = "BLE" /\ interrupted = 0 /\ ~outdated
  BY <1>1, OnBLE
<1>3. /\ IsWorld(World) /\ Sound("BLE", World) /\ Configured(broadcasts, asked)
      /\ History("BLE", World, sent, seen, last, 0) /\ StoreOK(store)
  BY <1>2, InvIs
<1>4. /\ StoreOK(t) /\ Number(store, t) /\ State(store, t) /\ Program(store, t)
      /\ Secret(store, t) /\ HasKey(t) /\ Rest(t) < KeyLife
  BY <1>3, KeyGeneratedIs
<1> HIDE DEF t
<1>5. /\ IsWorld(w) /\ Aside(World, w) /\ w.store = t /\ w.adv = adv /\ w.air = air
      /\ w.failed = "None" /\ w.outdated = outdated
  BY <1>3, <1>4, WorldIs, Changes
<1> HIDE DEF w
<1>6. /\ w.broadcasts = broadcasts /\ w.pairings = pairings
      /\ w.image = image /\ w.server = server
  BY <1>5, WorldIs DEF Aside
<1>7. /\ "CN" \in DOMAIN t <=> "CN" \in DOMAIN store
      /\ "Version" \in DOMAIN t <=> "Version" \in DOMAIN store
      /\ "Version" \in DOMAIN store => t["Version"] = store["Version"]
      /\ "LTSK" \in DOMAIN t <=> "LTSK" \in DOMAIN store
      /\ GSN(t) = GSN(store) /\ CN(t) = CN(store) /\ ShortCN(t) = ShortCN(store)
  BY <1>4, SameNumber, SameState DEF Number, Program, Secret, Agree
<1>8. WorldOK(w)
  BY <1>3, <1>5, <1>6, WorldIs DEF Sound, WorldOK
<1>9. AdvSound(w)
  BY <1>1, <1>2, <1>3, <1>4, <1>5, <1>6, <1>7, WorldIs DEF Sound, AdvSound
<1>10. ProcessSound("BLE", w)
  BY <1>3, <1>5, <1>6, <1>7, WorldIs DEF Sound, ProcessSound
<1>11. OnAir(w)
  <2>1. Advertised(w).kind = "None" /\ Advertised(World).kind = "None"
    BY <1>1, <1>5, WorldIs, AdvertisedIs
  <2> QED
    BY <1>3, <1>5, <1>6, <2>1, WorldIs DEF OnAir, Sound, AirSound
<1>12. Sound("BLE", w)
  BY <1>8, <1>9, <1>10, <1>11 DEF Sound, AirSound
<1>13. History("BLE", w, sent', seen, last, 0)
  <2>1. NonceSound(w, sent', 0)
    BY <1>1, <1>3, <1>4, <1>5, StoreIs DEF NonceSound
  <2>2. NumberSound("BLE", w, last, 0)
    BY <1>3, <1>5, <1>7, WorldIs DEF History, NumberSound, Added, Reported
  <2>3. ToldSound(w, seen) /\ CutOffSound(w, 0)
    BY <1>1, <1>5 DEF ToldSound, CutOffSound
  <2> QED
    BY <1>1, <1>3, <2>1, <2>2, <2>3 DEF History
<1> QED
  BY <1>1, <1>2, <1>3, <1>6, <1>12, <1>13, StepKeeps

LEMMA StopKeeps ==
    ASSUME IInv, Stop
    PROVE  IInv'
<1> DEFINE v == [World EXCEPT !.server = "Stopping"]
           b == UpdateAdvertisingData(v, FALSE)
           u == [b EXCEPT !.server = IF adv.connected THEN "Stopping" ELSE "Idle"]
<1>1. server = "Running" /\ Becomes(u) /\ UNCHANGED history
  BY DEF Stop
<1>2. /\ IsWorld(World) /\ Sound(hardware, World) /\ Configured(broadcasts, asked)
      /\ History(hardware, World, sent, seen, last, interrupted) /\ hardware \in {"BLE", "IP"}
  BY InvIs
<1>3. /\ IsWorld(v) /\ v.store = store /\ v.adv = adv /\ v.air = air
      /\ v.failed = "None" /\ v.outdated = outdated /\ v.broadcasts = broadcasts
      /\ v.server = "Stopping" /\ v.image = image /\ v.pairings = pairings
  BY <1>2, WorldIs, StageChanged
<1> HIDE DEF v
<1>4. interrupted = 0
  BY <1>1, <1>2, WorldIs, CutOffIs
<1>5. /\ WorldOK(v) /\ AdvSound(v) /\ image \in Images
      /\ pairings = "Stale" => "LTSK" \notin DOMAIN store
      /\ hardware = "IP" => adv = Quiet /\ ~HasKey(store)
  <2>1. WorldOK(v) /\ AdvSound(v)
    BY <1>1, <1>2, <1>3, WorldIs DEF Sound, WorldOK, AdvSound
  <2> QED
    BY <1>1, <1>2, <2>1, WorldIs, InvIs DEF Sound, ProcessSound
<1>6. /\ Sound(hardware, u) /\ StoreKept(store, u.store) /\ u.broadcasts = broadcasts
      /\ u.adv = adv /\ u.image = image
  <2>1. CASE ~adv.connected
    <3>1. LET z == [b EXCEPT !.server = "Idle"]
          IN  /\ Sound(hardware, z) /\ StoreKept(v.store, z.store) /\ z.adv = v.adv
              /\ z.broadcasts = v.broadcasts /\ z.outdated = v.outdated
              /\ z.store = UpdateAdvertisingData(v, FALSE).store
              /\ z.image = v.image /\ z.server = "Idle"
      BY <1>3, <1>5, <2>1, BecomesIdle
    <3>2. u = [b EXCEPT !.server = "Idle"]
      BY <2>1
    <3> HIDE DEF b, u
    <3> QED
      BY <1>3, <3>1, <3>2
  <2>2. CASE adv.connected
    <3>1. hardware = "BLE"
      BY <2>2, OnBLE
    <3>2. Stage(v)
      BY <1>3, <1>5, <2>2 DEF Stage
    <3>3. Sound("BLE", b) /\ Updated(v, b)
      BY <1>3, <1>5, <3>2, UpdatedSound
    <3> HIDE DEF b
    <3>4. IsWorld(b) /\ b.server = "Stopping"
      BY <1>3, <3>3 DEF Updated, Aside
    <3>5. u = b
      BY <2>2, <3>4 DEF IsWorld
    <3>6. b.adv = adv
      BY <1>3, <3>3 DEF Updated
    <3> QED
      BY <1>3, <3>1, <3>3, <3>5, <3>6 DEF Updated, Aside
  <2> QED
    BY <2>1, <2>2
<1> HIDE DEF u
<1>7. History(hardware, u, sent, seen, last, 0)
  <2>1. StoreKept(World.store, u.store) /\ u.adv.connected = World.adv.connected
    BY <1>6, WorldIs
  <2> QED
    BY <1>2, <1>4, <2>1, HistoryKept
<1> QED
  BY <1>1, <1>2, <1>4, <1>6, <1>7, StepKeeps DEF history

-------------------------------------------------------------------------------
\* Power losses and resets.

\* A world with other contents, another list and other pairings.
Left(w, t, list, x) == [w EXCEPT !.store = t, !.broadcasts = list, !.pairings = x]

LEMMA LeftIs ==
    ASSUME NEW w, IsWorld(w), NEW t, StoreOK(t), NEW list, NEW x
    PROVE  LET u == Left(w, t, list, x)
           IN  /\ IsWorld(u) /\ u.store = t /\ u.broadcasts = list /\ u.pairings = x
               /\ u.adv = w.adv /\ u.air = w.air /\ u.failed = w.failed
               /\ u.image = w.image /\ u.server = w.server /\ u.outdated = w.outdated
<1> DEFINE y == [w EXCEPT !.store = t]
           z == [y EXCEPT !.broadcasts = list]
           u == Left(w, t, list, x)
<1>1. /\ IsWorld(y) /\ Aside(w, y) /\ y.store = t /\ y.adv = w.adv
      /\ y.air = w.air /\ y.failed = w.failed /\ y.kept = w.kept
  BY Changes
<1>2. u = [z EXCEPT !.pairings = x]
  BY DEF Left
<1> HIDE DEF y
<1>3. /\ IsWorld(z) /\ z.store = y.store /\ z.adv = y.adv /\ z.air = y.air
      /\ z.failed = y.failed /\ z.pairings = y.pairings
      /\ z.server = y.server /\ z.image = y.image /\ z.broadcasts = list
      /\ z.outdated = y.outdated
  BY <1>1, BroadcastsChanged
<1> HIDE DEF z, u
<1>4. LET v == [z EXCEPT !.pairings = x]
      IN  /\ IsWorld(v) /\ v.store = z.store /\ v.adv = z.adv /\ v.air = z.air
          /\ v.failed = z.failed /\ v.broadcasts = z.broadcasts
          /\ v.server = z.server /\ v.image = z.image /\ v.pairings = x
          /\ v.outdated = z.outdated
  BY <1>3, PairingsChanged
<1> QED
  BY <1>1, <1>2, <1>3, <1>4 DEF Aside, u

LEMMA OffIs ==
    ASSUME NEW w, IsWorld(w)
    PROVE  LET u == Off(w)
           IN  /\ IsWorld(u) /\ u.store = w.store /\ u.broadcasts = w.broadcasts
               /\ u.pairings = w.pairings /\ u.failed = w.failed
               /\ u.image = 0 /\ u.server = "None" /\ u.adv = Quiet
               /\ u.outdated = w.outdated
<1> DEFINE a == [w EXCEPT !.image = 0]
           b == [a EXCEPT !.server = "None"]
           d == [b EXCEPT !.adv = Quiet]
           u == Off(w)
<1>1. /\ IsWorld(a) /\ a.store = w.store /\ a.broadcasts = w.broadcasts
      /\ a.pairings = w.pairings /\ a.failed = w.failed /\ a.image = 0
      /\ a.outdated = w.outdated
  BY DEF IsWorld
<1>2. u = [d EXCEPT !.air = Silent]
  BY DEF Off
<1> HIDE DEF a, u
<1>3. /\ IsWorld(b) /\ b.store = a.store /\ b.broadcasts = a.broadcasts
      /\ b.pairings = a.pairings /\ b.failed = a.failed /\ b.image = 0 /\ b.server = "None"
      /\ b.outdated = a.outdated
  BY <1>1, StageChanged
<1> HIDE DEF b
<1>4. /\ IsWorld(d) /\ Aside(b, d) /\ d.store = b.store /\ d.failed = b.failed
      /\ d.adv = Quiet
  <2>1. /\ IsWorld(d) /\ Aside(b, d) /\ d.store = b.store /\ d.adv = Quiet
        /\ d.air = b.air /\ d.failed = b.failed /\ d.kept = b.kept
    BY ZenonT(40), <1>3, QuietIs, Changes
  <2> QED
    BY <2>1
<1> HIDE DEF d
<1>5. LET z == [d EXCEPT !.air = Silent]
      IN  /\ IsWorld(z) /\ Aside(d, z) /\ z.store = d.store /\ z.adv = d.adv
          /\ z.air = Silent /\ z.failed = d.failed /\ z.kept = d.kept
  BY ZenonT(40), <1>4, Changes
<1>6. /\ IsWorld(u) /\ Aside(d, u) /\ u.store = d.store /\ u.adv = Quiet
      /\ u.failed = d.failed
  BY <1>2, <1>4, <1>5
<1> QED
  BY <1>1, <1>3, <1>4, <1>6 DEF Aside, u

LEMMA OffSound ==
    ASSUME NEW w, IsWorld(w), w.failed = "None", ListOK(w.broadcasts),
           w.pairings \in {"None", "Current", "Stale"},
           w.pairings = "Stale" => "LTSK" \notin DOMAIN w.store,
           w.outdated \in BOOLEAN, w.outdated => ~HasKey(w.store),
           NEW h, h = "IP" => ~HasKey(w.store)
    PROVE  Sound(h, Off(w))
<1> DEFINE u == Off(w)
<1>1. /\ IsWorld(u) /\ u.store = w.store /\ u.broadcasts = w.broadcasts
      /\ u.pairings = w.pairings /\ u.failed = w.failed
      /\ u.image = 0 /\ u.server = "None" /\ u.adv = Quiet /\ u.outdated = w.outdated
  BY OffIs
<1> HIDE DEF u
<1>2. WorldOK(u)
  BY <1>1 DEF WorldOK
<1>3. AdvSound(u)
  BY <1>1, QuietAdvSound
<1>4. ProcessSound(h, u) /\ AirSound(h, u)
  BY <1>1 DEF ProcessSound, AirSound, OnAir
<1> QED
  BY <1>2, <1>3, <1>4 DEF Sound, u

\* Contents that say the same, but may have lost the key.
StoreLeft(s, t) ==
    /\ State(s, t) /\ Program(s, t) /\ Number(s, t)
    /\ HasKey(t) => HasKey(s) /\ Rest(t) = Rest(s)

LEMMA HistoryOff ==
    ASSUME NEW h, NEW w, NEW u, NEW s, NEW g, NEW l, NEW i, IsWorld(w),
           History(h, w, s, g, l, i), StoreLeft(w.store, u.store), u.adv = Quiet,
           u.server = "None"
    PROVE  History(h, u, s, IF w.adv.connected THEN 0 ELSE g, l, i)
<1> DEFINE k == IF w.adv.connected THEN 0 ELSE g
<1>1. /\ GSN(u.store) = GSN(w.store) /\ CN(u.store) = CN(w.store)
      /\ ShortCN(u.store) = ShortCN(w.store)
      /\ "CN" \in DOMAIN u.store <=> "CN" \in DOMAIN w.store
      /\ "Version" \in DOMAIN u.store <=> "Version" \in DOMAIN w.store
      /\ "Version" \in DOMAIN w.store => u.store["Version"] = w.store["Version"]
      /\ HasKey(u.store) => HasKey(w.store) /\ Rest(u.store) = Rest(w.store)
  BY SameNumber, SameState DEF StoreLeft, Program, Agree
<1>2. ~u.adv.connected
  BY QuietIs
<1>3. NonceSound(u, s, i)
  BY <1>1, <1>2 DEF History, NonceSound, Updates
<1>4. ToldSound(u, k)
  BY <1>1, <1>2 DEF History, ToldSound
<1>5. NumberSound(h, u, l, i)
  BY <1>1 DEF History, NumberSound, Added, Reported
<1>6. CutOffSound(u, i)
  BY <1>2 DEF CutOffSound
<1>7. k \in 0 .. UINT16_MAX
  BY StorageAssumption DEF History
<1> QED
  BY <1>3, <1>4, <1>5, <1>6, <1>7 DEF History

\* What an assertion that fails leaves.
LEMMA EndsIs ==
    ASSUME NEW w, Becomes(w), IsWorld(w), w.failed # "None", w.outdated = TRUE
    PROVE  /\ store' = w.kept /\ broadcasts' = w.broadcasts /\ pairings' = w.pairings
           /\ image' = 0 /\ server' = "None" /\ adv' = Quiet /\ failed' = w.failed
           /\ outdated' = TRUE /\ hardware' = hardware
<1> DEFINE o == Off(w)
           z == Outcome(w)
<1>1. /\ IsWorld(o) /\ o.broadcasts = w.broadcasts /\ o.pairings = w.pairings
      /\ o.failed = w.failed /\ o.image = 0 /\ o.server = "None" /\ o.adv = Quiet
      /\ o.outdated = w.outdated
  BY OffIs
<1>2. z = [o EXCEPT !.store = w.kept]
  BY DEF Outcome
<1> HIDE DEF o
<1>3. /\ z.store = w.kept /\ z.broadcasts = w.broadcasts /\ z.pairings = w.pairings
      /\ z.failed = w.failed /\ z.image = 0 /\ z.server = "None" /\ z.adv = Quiet
      /\ z.outdated = TRUE
  BY <1>1, <1>2 DEF IsWorld
<1> HIDE DEF z
<1>4. /\ store' = z.store /\ broadcasts' = z.broadcasts /\ pairings' = z.pairings
      /\ image' = z.image /\ server' = z.server
      /\ adv' = z.adv /\ failed' = z.failed /\ hardware' = hardware
      /\ outdated' = (z.outdated /\ (z.failed # "None" \/ z.adv.timer))
  BY DEF Becomes, z
<1> QED
  BY <1>3, <1>4

\* The process ends at an assertion; an event that is announced was raised before a reset
\* or an update, so no key is left.
LEMMA FailKeeps ==
    ASSUME IInv, NEW w, Becomes(w), IsWorld(w), w.outdated = TRUE,
           w.failed \in {"DidRaiseEvent", "GetAdvertisingParameters"},
           ListOK(w.broadcasts), w.pairings \in {"None", "Current", "Stale"},
           StoreOK(w.kept), w.pairings = "Stale" => "LTSK" \notin DOMAIN w.kept,
           ~HasKey(w.kept), Configured(w.broadcasts, asked'),
           \A u : u.store = w.kept /\ u.adv = Quiet /\ u.server = "None"
                      => History(hardware, u, sent', seen', last', interrupted')
    PROVE  IInv'
<1> DEFINE u == World'
<1>1. w.failed # "None"
  OBVIOUS
<1>2. /\ store' = w.kept /\ broadcasts' = w.broadcasts /\ pairings' = w.pairings
      /\ image' = 0 /\ server' = "None" /\ adv' = Quiet /\ failed' = w.failed
      /\ outdated' = TRUE /\ hardware' = hardware
  BY <1>1, EndsIs
<1>3. u = [store |-> store', broadcasts |-> broadcasts', pairings |-> pairings',
           image |-> image', server |-> server', adv |-> adv', air |-> air',
           outdated |-> outdated', failed |-> "None", kept |-> store']
  BY DEF World
<1> HIDE DEF u
<1>4. /\ u.store = w.kept /\ u.broadcasts = w.broadcasts /\ u.pairings = w.pairings
      /\ u.image = 0 /\ u.server = "None" /\ u.adv = Quiet /\ u.outdated = TRUE
      /\ u.failed = "None" /\ IsWorld(u)
  BY <1>2, <1>3, QuietIs DEF IsWorld
<1>5. Sound(hardware, u)
  <2>1. WorldOK(u)
    BY <1>4 DEF WorldOK
  <2>2. AdvSound(u)
    BY <1>4, QuietAdvSound
  <2>3. ProcessSound(hardware, u) /\ AirSound(hardware, u)
    BY <1>4 DEF ProcessSound, AirSound, OnAir
  <2> QED
    BY <2>1, <2>2, <2>3 DEF Sound
<1>6. History(hardware, u, sent', seen', last', interrupted')
  BY <1>4
<1>7. FailsOnlyWhenOutdated'
  BY <1>2 DEF FailsOnlyWhenOutdated
<1> QED
  BY <1>2, <1>5, <1>6, <1>7 DEF IInv, u

\* The image that runs is not older than the one of a start that was cut off.
LEMMA NotInUpdate ==
    ASSUME IInv, server # "None", ~Updates(store, image)
    PROVE  ~Updates(store, interrupted)
<1>1. History(hardware, World, sent, seen, last, interrupted) /\ StoreOK(store)
      /\ image \in Images \cup {0}
  BY InvIs
<1>3. interrupted # 0 => image >= interrupted
  BY <1>1, WorldIs DEF History, CutOffSound
<1>4. image \in Nat /\ interrupted \in Nat
  BY <1>1, AdvertisingAssumption DEF History
<1>2. "Version" \in DOMAIN store => store["Version"] \in Nat \ {0}
  BY <1>1, AdvertisingAssumption DEF StoreOK
<1> QED
  BY <1>2, <1>3, <1>4 DEF Updates

\* An event: the GSN goes on, and what was sent is remembered -- or it is an event of
\* before a reset or an update that is still announced, and the process ends.
LEMMA RaiseKeeps ==
    ASSUME IInv, NEW c \in Notifying, NEW read \in BOOLEAN, NEW ok \in BOOLEAN,
           RaiseEvent(c, read, ok)
    PROVE  IInv'
<1> DEFINE w == DidRaiseEvent(World, c, read, ok)
           stepped == IF MayBroadcast(World, c) THEN read ELSE ~GSN(store).didIncrement
           new == MayBroadcast(World, c) /\ read /\ sent.offset >= 0 /\ ~Updates(store, image)
<1>1. /\ server # "None" /\ hardware = "BLE" /\ Becomes(w)
      /\ sent' = IF new THEN [offset |-> Offset(w), again |-> Offset(w) <= sent.offset] ELSE sent
      /\ UNCHANGED <<seen, asked, last, interrupted>>
  BY DEF RaiseEvent
<1>2. /\ IsWorld(World) /\ Sound("BLE", World) /\ Configured(broadcasts, asked)
      /\ History("BLE", World, sent, seen, last, interrupted) /\ StoreOK(store)
  BY <1>1, InvIs
<1>3. \/ Raised(World, w, stepped)
      \/ Fails(World, w) /\ ~MayBroadcast(World, c)
  BY <1>1, <1>2, WorldIs, RaiseSound
<1> HIDE DEF w
<1>4. GSN(store).didIncrement \in BOOLEAN
  BY <1>2, StoreIs
<1>5. CASE Raised(World, w, stepped)
  <2>1. /\ w.adv.connected = World.adv.connected /\ w.broadcasts = broadcasts
        /\ Sound("BLE", w) /\ w.server = World.server /\ w.image = World.image
    BY <1>5, WorldIs DEF Raised, Aside
  <2>2. History("BLE", w, sent, seen, last, interrupted)
    <3>1. CASE ~stepped
      <4>1. StoreKept(World.store, w.store)
        BY <1>5, <3>1 DEF Raised
      <4> QED
        BY <1>2, <2>1, <4>1, HistoryKept
    <3>2. CASE stepped
      <4>1. Stepped(World.store, w.store)
        BY <1>5, <3>2 DEF Raised
      <4>2. \/ ~GSN(World.store).didIncrement
            \/ HasKey(World.store) /\ Broadcast(World.store).expiration # GSN(World.store).gsn
        BY <3>2, WorldIs DEF MayBroadcast
      <4> QED
        BY <1>2, <2>1, <4>1, <4>2, HistoryStepped
    <3> QED
      BY <3>1, <3>2
  <2>3. History("BLE", w, sent', seen, last, interrupted)
    <3>1. CASE ~new
      BY <1>1, <2>2, <3>1
    <3>2. CASE new
      <4> DEFINE z == [offset |-> Offset(w), again |-> Offset(w) <= sent.offset]
                 r == Rest(store)
      <4>1. /\ Stepped(store, w.store) /\ HasKey(store)
            /\ Broadcast(store).expiration # GSN(store).gsn
        BY <1>5, <3>2, WorldIs DEF Raised, MayBroadcast
      <4>2. HasKey(w.store) /\ Rest(w.store) = r - 1 /\ StoreOK(w.store)
        BY <4>1 DEF Stepped
      <4>3. r + sent.offset < KeyLife /\ sent.offset \in Int
        <5>1. ~Updates(store, interrupted)
          BY <1>1, <1>2, <3>2, InvIs, NotInUpdate
        <5> QED
          BY <1>1, <1>2, <3>2, <4>1, <5>1, WorldIs DEF History, NonceSound
      <4>4. r \in Nat /\ Rest(w.store) \in Nat /\ KeyLife \in Nat
        BY <1>2, <4>1, <4>2, StoreIs, StorageAssumption, KeyLifeIs
      <4> HIDE DEF r
      <4>5. Rest(w.store) < KeyLife
        BY <3>2, <4>2, <4>3, <4>4
      <4>6. Offset(w) = KeyLife - 1 - Rest(w.store)
        BY <4>2, <4>5, OffsetIs
      <4>7. Offset(w) \in Int /\ Offset(w) > sent.offset /\ Rest(w.store) + Offset(w) < KeyLife
        BY <3>2, <4>2, <4>3, <4>4, <4>6
      <4>8. (Offset(w) <= sent.offset) = FALSE
        BY <4>3, <4>7
      <4>9. z = [offset |-> Offset(w), again |-> FALSE]
        BY <4>8, Zenon
      <4>10. z \in [offset : Int, again : BOOLEAN] /\ NonceSound(w, z, interrupted)
        BY <4>7, <4>9 DEF NonceSound
      <4> QED
        BY <1>1, <2>2, <3>2, <4>10, HistorySent
    <3> QED
      BY <3>1, <3>2
  <2> QED
    BY <1>1, <1>2, <2>1, <2>3, StepKeeps
<1>6. CASE Fails(World, w) /\ ~MayBroadcast(World, c)
  <2>1. /\ w.failed \in {"DidRaiseEvent", "GetAdvertisingParameters"} /\ w.kept = store
        /\ IsWorld(w) /\ w.broadcasts = broadcasts /\ w.pairings = pairings
        /\ outdated = TRUE /\ w.outdated = TRUE /\ sent' = sent
    BY <1>1, <1>6, WorldIs, InvIs DEF Fails, Aside
  <2>2. adv.timer /\ ~adv.connected /\ ~HasKey(store)
    BY <1>1, <1>2, <2>1, WorldIs, InvIs DEF Sound, AdvSound
  <2>3. /\ ListOK(broadcasts) /\ pairings \in {"None", "Current", "Stale"}
        /\ pairings = "Stale" => "LTSK" \notin DOMAIN store
    BY <1>2, WorldIs DEF Sound, WorldOK, ProcessSound
  <2>4. ASSUME NEW u, u.store = w.kept, u.adv = Quiet, u.server = "None"
        PROVE  History(hardware, u, sent', seen', last', interrupted')
    <3>1. StoreLeft(World.store, u.store)
      BY <2>1, <2>4, WorldIs DEF StoreLeft, State, Program, Number, Agree
    <3>2. World.adv.connected = FALSE
      BY <1>2, <2>2, WorldIs DEF IsWorld, AdvStates
    <3>3. History("BLE", u, sent, IF World.adv.connected THEN 0 ELSE seen, last, interrupted)
      BY <1>2, <2>4, <3>1, HistoryOff
    <3> QED
      BY <1>1, <2>1, <3>2, <3>3
  <2>5. asked' = asked
    BY <1>1
  <2> QED
    BY <1>1, <1>2, <2>1, <2>2, <2>3, <2>4, <2>5, FailKeeps
<1> QED
  BY <1>3, <1>5, <1>6

LEMMA PowerLossKeeps ==
    ASSUME IInv, PowerLoss
    PROVE  IInv'
<1> DEFINE w == Off(World)
<1>1. /\ Becomes(w) /\ seen' = (IF adv.connected THEN 0 ELSE seen)
      /\ UNCHANGED <<sent, asked, last, interrupted>>
  BY DEF PowerLoss
<1>2. /\ IsWorld(World) /\ Sound(hardware, World) /\ Configured(broadcasts, asked)
      /\ History(hardware, World, sent, seen, last, interrupted)
  BY InvIs
<1>3. /\ IsWorld(w) /\ w.store = store /\ w.broadcasts = broadcasts
      /\ w.server = "None" /\ w.adv = Quiet
  BY <1>2, WorldIs, OffIs
<1>4. Sound(hardware, w)
  <2>1. /\ ListOK(broadcasts) /\ pairings \in {"None", "Current", "Stale"}
        /\ pairings = "Stale" => "LTSK" \notin DOMAIN store
    BY <1>2, WorldIs DEF Sound, WorldOK, ProcessSound
  <2> QED
    BY <1>2, <2>1, WorldIs, InvIs, OffSound
<1> HIDE DEF w
<1>5. StoreLeft(World.store, w.store)
  BY <1>3, WorldIs DEF StoreLeft, State, Program, Number, Agree
<1>6. History(hardware, w, sent, seen', last, interrupted)
  BY <1>1, <1>2, <1>3, <1>5, WorldIs, HistoryOff
<1> QED
  BY <1>1, <1>2, <1>3, <1>4, <1>6, StepKeeps

LEMMA PowerLossInIncrementKeeps ==
    ASSUME IInv, PowerLossInIncrement
    PROVE  IInv'
<1> DEFINE t == IncrementGSN(store)[1]
           v == [World EXCEPT !.store = t]
           w == Off(v)
<1>1. /\ hardware = "BLE" /\ Becomes(w) /\ seen' = (IF adv.connected THEN 0 ELSE seen)
      /\ UNCHANGED <<sent, asked, last, interrupted>>
  BY WorldIs DEF PowerLossInIncrement
<1>2. /\ IsWorld(World) /\ Sound(hardware, World) /\ Configured(broadcasts, asked)
      /\ History(hardware, World, sent, seen, last, interrupted) /\ StoreOK(store)
  BY InvIs
<1>3. /\ StoreOK(t) /\ Number(store, t) /\ State(store, t) /\ Program(store, t)
      /\ Secret(store, t)
      /\ HasKey(t) => HasKey(store) /\ Rest(t) = Rest(store)
  BY <1>2, IncrementGSNIs
<1> HIDE DEF t
<1>4. /\ IsWorld(v) /\ Aside(World, v) /\ v.store = t /\ v.adv = adv /\ v.failed = "None"
  BY <1>2, <1>3, WorldIs, Changes
<1> HIDE DEF v
<1>5. v.broadcasts = broadcasts /\ v.pairings = pairings /\ v.outdated = outdated
  BY <1>4, WorldIs DEF Aside
<1>6. /\ IsWorld(w) /\ w.store = t /\ w.broadcasts = broadcasts
      /\ w.server = "None" /\ w.adv = Quiet
  BY <1>4, <1>5, OffIs
<1>7. Sound(hardware, w)
  <2>1. /\ ListOK(broadcasts) /\ pairings \in {"None", "Current", "Stale"}
        /\ pairings = "Stale" => "LTSK" \notin DOMAIN store
    BY <1>2, WorldIs DEF Sound, WorldOK, ProcessSound
  <2>2. "LTSK" \in DOMAIN t <=> "LTSK" \in DOMAIN store
    BY <1>3 DEF Secret, Agree
  <2>3. outdated \in BOOLEAN /\ (outdated => ~HasKey(t))
    BY <1>3, InvIs
  <2> QED
    BY <1>1, <1>4, <1>5, <2>1, <2>2, <2>3, OffSound
<1> HIDE DEF w
<1>8. StoreLeft(World.store, w.store)
  BY <1>3, <1>6, WorldIs DEF StoreLeft
<1>9. History(hardware, w, sent, seen', last, interrupted)
  BY <1>1, <1>2, <1>6, <1>8, WorldIs, HistoryOff
<1> QED
  BY <1>1, <1>2, <1>6, <1>7, <1>9, StepKeeps

\* The history starts again: a key that a reset has left is not followed.
LEMMA NewHistory ==
    ASSUME NEW w, w.failed = "None", Becomes(w), NoHistory, NEW h
    PROVE  History(h, w, sent', seen', last', interrupted')
<1>1. /\ store' = w.store
      /\ sent' = [offset |-> IF HasKey(store') THEN -1 ELSE 0, again |-> FALSE]
      /\ seen' = 0 /\ last' = NothingSeen /\ interrupted' = 0
  BY DEF Becomes, Outcome, NoHistory
<1>2. sent' \in [offset : Int, again : BOOLEAN]
  BY <1>1
<1>3. NonceSound(w, sent', 0)
  <2>1. HasKey(w.store) => sent'.offset = -1
    BY <1>1
  <2>2. ~sent'.again
    BY <1>1
  <2> QED
    BY <2>1, <2>2 DEF NonceSound
<1>4. ToldSound(w, 0) /\ NumberSound(h, w, NothingSeen, 0) /\ CutOffSound(w, 0)
  BY DEF ToldSound, NumberSound, CutOffSound
<1>5. NothingSeen.image = 0 /\ 0 \in 0 .. UINT16_MAX
  BY StorageAssumption DEF NothingSeen
<1> QED
  BY <1>1, <1>2, <1>3, <1>4, <1>5 DEF History

LEMMA NewConfiguration ==
    ASSUME NEW w, w.failed = "None", Becomes(w), ListOK(w.broadcasts), NoHistory
    PROVE  Configured(w.broadcasts, asked')
<1>1. /\ broadcasts' = w.broadcasts
      /\ asked' = [c \in Broadcastable |-> BroadcastInterval(broadcasts', c)]
  BY DEF Becomes, Outcome, NoHistory
<1>2. ASSUME NEW c \in Broadcastable
      PROVE  BroadcastInterval(w.broadcasts, c) \in Intervals \cup {0}
  <2>1. c \in Nat
    BY AdvertisingAssumption
  <2> QED
    BY <2>1, IntervalIs
<1> QED
  BY <1>1, <1>2 DEF Configured

LEMMA EmptyListOK == ListOK(<<>>)
<1>1. <<>> \in Seq([cid : Broadcastable, interval : Intervals]) /\ Len(<<>>) = 0
  BY EmptySeq
<1>2. Ascending(<<>>)
  BY DEF Ascending
<1> QED
  BY <1>1, <1>2, StorageAssumption DEF ListOK

LEMMA PurgedIs == StoreOK(KVSPurged) /\ DOMAIN KVSPurged = {} /\ ~HasKey(KVSPurged)
BY DEF KVSPurged, StoreOK, HasKey, Broadcast, Stored

\* An event that is announced is outdated, or not.
Outdated(w, x) == [w EXCEPT !.outdated = x]

LEMMA OutdatedIs ==
    ASSUME NEW w, IsWorld(w), NEW x
    PROVE  LET u == Outdated(w, x)
           IN  /\ IsWorld(u) /\ u.store = w.store /\ u.broadcasts = w.broadcasts
               /\ u.pairings = w.pairings /\ u.adv = w.adv /\ u.air = w.air
               /\ u.failed = w.failed /\ u.image = w.image /\ u.server = w.server
               /\ u.outdated = x
BY DEF IsWorld, Outdated

LEMMA RestoreKeeps ==
    ASSUME IInv, RestoreFactorySettings
    PROVE  IInv'
<1> DEFINE v == Left(World, KVSPurged, <<>>, "None")
           w == Outdated(v, TRUE)
<1>1. server = "Idle" /\ Becomes(w) /\ NoHistory
  <2>1. w = [World EXCEPT !.store = KVSPurged, !.broadcasts = <<>>, !.pairings = "None",
                          !.outdated = TRUE]
    BY DEF World, Left, Outdated
  <2> QED
    BY <2>1 DEF RestoreFactorySettings
<1>2. IsWorld(World) /\ Sound(hardware, World)
  BY InvIs
<1>3. /\ IsWorld(v) /\ v.store = KVSPurged /\ v.broadcasts = <<>> /\ v.pairings = "None"
      /\ v.adv = adv /\ v.failed = "None" /\ v.image = image /\ v.server = "Idle"
  BY <1>1, <1>2, WorldIs, PurgedIs, LeftIs
<1> HIDE DEF v
<1>4. /\ IsWorld(w) /\ w.store = KVSPurged /\ w.broadcasts = <<>> /\ w.pairings = "None"
      /\ w.adv = adv /\ w.failed = "None" /\ w.image = image /\ w.server = "Idle"
      /\ w.outdated = TRUE
  BY <1>3, OutdatedIs
<1> HIDE DEF w
<1>5. WorldOK(w)
  BY <1>2, <1>4, WorldIs, EmptyListOK DEF Sound, WorldOK
<1>6. ProcessSound(hardware, w)
  BY <1>1, <1>2, <1>4, WorldIs, PurgedIs DEF Sound, ProcessSound
<1>7. AdvSound(w)
  BY <1>1, <1>2, <1>4, WorldIs, PurgedIs DEF Sound, AdvSound, ProcessSound
<1>8. Sound(hardware, w)
  BY <1>4, <1>5, <1>6, <1>7 DEF Sound, AirSound, OnAir
<1> QED
  BY <1>1, <1>4, <1>8, EmptyListOK, NewHistory, NewConfiguration, StepKeeps

\* No reset makes a key.
LEMMA PartlyKey ==
    ASSUME NEW s, NEW r \in KVSPartlyPurged(s), HasKey(r)
    PROVE  HasKey(s)
<1>1. PICK K \in SUBSET DOMAIN s : r = [k \in K |-> s[k]]
  BY DEF KVSPartlyPurged, KVSRestrict
<1>2. "Broadcast" \in DOMAIN r
  BY DEF HasKey, Broadcast, Stored
<1>3. "Broadcast" \in DOMAIN s /\ r["Broadcast"] = s["Broadcast"]
  BY <1>1, <1>2
<1> QED
  BY <1>2, <1>3 DEF HasKey, Broadcast, Stored

LEMMA PowerLossInResetKeeps ==
    ASSUME IInv, PowerLossInReset
    PROVE  IInv'
<1>1. PICK rest \in KVSPartlyPurged(store), list \in {broadcasts, <<>>} :
          LET x == IF pairings # "None" /\ "LTSK" \notin DOMAIN rest THEN "Stale" ELSE pairings
          IN  Becomes(Off(Left(World, rest, list, x))) /\ NoHistory
  <2>1. PICK rest \in KVSPartlyPurged(store), list \in {broadcasts, <<>>} :
            /\ Becomes(Off([World EXCEPT !.store = rest, !.broadcasts = list,
                           !.pairings = IF @ # "None" /\ "LTSK" \notin DOMAIN rest
                                        THEN "Stale" ELSE @]))
            /\ NoHistory
    BY DEF PowerLossInReset
  <2>2. [World EXCEPT !.store = rest, !.broadcasts = list,
                      !.pairings = IF @ # "None" /\ "LTSK" \notin DOMAIN rest
                                   THEN "Stale" ELSE @]
            = Left(World, rest, list,
                   IF pairings # "None" /\ "LTSK" \notin DOMAIN rest THEN "Stale" ELSE pairings)
    BY DEF World, Left
  <2> QED
    BY <2>1, <2>2
<1> DEFINE x == IF pairings # "None" /\ "LTSK" \notin DOMAIN rest THEN "Stale" ELSE pairings
           v == Left(World, rest, list, x)
           w == Off(v)
<1>2. Becomes(w) /\ NoHistory
  BY <1>1
<1>3. IsWorld(World) /\ Sound(hardware, World) /\ StoreOK(store)
  BY InvIs
<1>4. StoreOK(rest) /\ DOMAIN rest \subseteq DOMAIN store
  BY <1>3, RestrictIs
<1>5. /\ ListOK(list) /\ x \in {"None", "Current", "Stale"}
      /\ x = "Stale" => "LTSK" \notin DOMAIN rest
      /\ HasKey(rest) => HasKey(store)
  <2>1. HasKey(rest) => HasKey(store)
    BY <1>3, <1>4, PartlyKey
  <2> QED
    BY <1>3, <1>4, <2>1, WorldIs, EmptyListOK DEF Sound, WorldOK, ProcessSound
<1> HIDE DEF x
<1>6. /\ IsWorld(v) /\ v.store = rest /\ v.broadcasts = list /\ v.pairings = x
      /\ v.failed = "None" /\ v.outdated = outdated
  BY <1>3, <1>4, WorldIs, LeftIs
<1> HIDE DEF v
<1>7. w.broadcasts = list /\ w.failed = "None"
  BY <1>6, OffIs
<1>8. Sound(hardware, w)
  BY <1>5, <1>6, InvIs, OffSound
<1> HIDE DEF w
<1> QED
  BY <1>2, <1>5, <1>7, <1>8, NewHistory, NewConfiguration, StepKeeps

-------------------------------------------------------------------------------
\* The writes of a start.

Ups(k, c, m) == IF k = 0 THEN c ELSE IF k = 1 THEN Up(c, m) ELSE Up(Up(c, m), m)

LEMMA UpsIs ==
    ASSUME NEW m \in Nat \ {0}, NEW c \in 1 .. m, NEW d \in 1 .. m, NEW k \in {0, 1, 2},
           Distance(m, c, d) + k < m
    PROVE  Distance(m, c, Ups(k, d, m)) = Distance(m, c, d) + k
<1>1. Up(d, m) \in 1 .. m /\ Distance(m, c, d) \in 0 .. m - 1
  BY DistanceIs
<1>2. Distance(m, c, Up(d, m)) =
          IF Distance(m, c, d) = m - 1 THEN 0 ELSE Distance(m, c, d) + 1
  BY DistanceIs
<1>3. Distance(m, c, Up(Up(d, m), m)) =
          IF Distance(m, c, Up(d, m)) = m - 1 THEN 0 ELSE Distance(m, c, Up(d, m)) + 1
  BY <1>1, DistanceIs
<1>4. CASE k = 0
  BY <1>1, <1>4 DEF Ups
<1>5. CASE k = 1
  <2>1. Distance(m, c, d) # m - 1
    BY <1>1, <1>5
  <2> QED
    BY <1>2, <1>5, <2>1 DEF Ups
<1>6. CASE k = 2
  <2>1. Distance(m, c, d) # m - 1 /\ Distance(m, c, d) + 1 # m - 1
    BY <1>1, <1>6
  <2>2. (Distance(m, c, d) + 1) + 1 = Distance(m, c, d) + 2
    BY <1>1
  <2> QED
    BY <1>2, <1>3, <1>6, <2>1, <2>2 DEF Ups
<1> QED
  BY <1>4, <1>5, <1>6

\* The configuration number has gone on by k.
Numbered(s, t, k) ==
    "CN" \in DOMAIN s => /\ "CN" \in DOMAIN t
                         /\ CN(t) = Ups(k, CN(s), UINT16_MAX)
                         /\ ShortCN(t) = Ups(k, ShortCN(s), UINT8_MAX)

FirstGSN == [gsn |-> 1, didIncrement |-> FALSE]

\* An update is under way: it is not over before GSN and key are gone.
UnderWay(s, i, t) ==
    /\ StoreOK(t) /\ Updates(s, i) /\ Program(s, t) /\ Numbered(s, t, 1)
    /\ HasKey(t) => Key(s, t)
    /\ GSN(t) = GSN(s) \/ GSN(t) = FirstGSN

\* The version is stored, and k changes of the bridge are numbered.
Finished(s, i, t, k) ==
    /\ StoreOK(t) /\ "Version" \in DOMAIN t /\ t["Version"] = i
    /\ GSN(t) = GSN(s) \/ GSN(t) = FirstGSN
    /\ IF Updates(s, i) THEN Numbered(s, t, k + 1) /\ ~HasKey(t)
                        ELSE Numbered(s, t, k) /\ Key(s, t) /\ GSN(t) = GSN(s)

LEMMA NumberedSame ==
    ASSUME NEW s, NEW t, NEW u, NEW k, Numbered(s, t, k), Number(t, u)
    PROVE  Numbered(s, u, k)
BY SameNumber DEF Numbered

LEMMA NumberedOnce ==
    ASSUME NEW s, StoreOK(s)
    PROVE  Numbered(s, s, 0) /\ Numbered(s, IncrementCN(s), 1)
BY IncrementCNIs DEF Numbered, Ups

LEMMA FinishedSame ==
    ASSUME NEW s, NEW t, NEW u, NEW i, NEW k \in {0, 1}, Finished(s, i, t, k),
           StoreOK(u), Number(t, u), State(t, u), Key(t, u), Program(t, u)
    PROVE  Finished(s, i, u, k)
<1>1. GSN(u) = GSN(t) /\ (HasKey(u) <=> HasKey(t))
  BY SameState, SameKey
<1>2. "Version" \in DOMAIN u /\ u["Version"] = i
  BY DEF Finished, Program, Agree
<1>3. Updates(s, i) => Numbered(s, u, k + 1)
  BY NumberedSame DEF Finished
<1>4. ~Updates(s, i) => Numbered(s, u, k) /\ Key(s, u)
  BY NumberedSame, AgreeIs DEF Finished, Key
<1> QED
  BY <1>1, <1>2, <1>3, <1>4 DEF Finished

LEMMA FinishedAgain ==
    ASSUME NEW s, NEW t, NEW i, Finished(s, i, t, 0)
    PROVE  Finished(s, i, IncrementCN(t), 1)
<1> DEFINE u == IncrementCN(t)
<1>1. /\ StoreOK(u) /\ State(t, u) /\ Key(t, u) /\ Program(t, u)
      /\ "CN" \in DOMAIN u
      /\ "CN" \in DOMAIN t => /\ CN(u) = Up(CN(t), UINT16_MAX)
                              /\ ShortCN(u) = Up(ShortCN(t), UINT8_MAX)
  BY IncrementCNIs DEF Finished
<1> HIDE DEF u
<1>2. GSN(u) = GSN(t) /\ (HasKey(u) <=> HasKey(t))
  BY <1>1, SameState, SameKey
<1>3. "Version" \in DOMAIN u /\ u["Version"] = i
  BY <1>1 DEF Finished, Program, Agree
<1>4. Updates(s, i) => Numbered(s, u, 2)
  BY <1>1 DEF Finished, Numbered, Ups
<1>5. ~Updates(s, i) => Numbered(s, u, 1) /\ Key(s, u)
  BY <1>1, AgreeIs DEF Finished, Numbered, Ups, Key
<1> QED
  BY <1>1, <1>2, <1>3, <1>4, <1>5 DEF Finished, u

\* What VersionWrites leaves, write by write.
VersionsOK(s, i, v) ==
    /\ Len(v) \in Nat \ {0} /\ DOMAIN v = 1 .. Len(v)
    /\ \A k \in 1 .. Len(v) :
           Secret(s, v[k]) /\ (UnderWay(s, i, v[k]) \/ Finished(s, i, v[k], 0))
    /\ Finished(s, i, v[Len(v)], 0)

LEMMA VersionsAre ==
    ASSUME NEW s, StoreOK(s), NEW i \in Images, ~IsDowngrade(s, i), NEW ble \in BOOLEAN,
           ~ble => ~HasKey(s)
    PROVE  VersionsOK(s, i, VersionWrites(s, i, ble))
<1>1. \A x \in Images : x \in Nat /\ x # 0
  BY AdvertisingAssumption
<1>2. CASE "Version" \notin DOMAIN s
  <2> DEFINE t == KVSSet(s, "Version", i)
  <2>1. /\ StoreOK(t) /\ Number(s, t) /\ State(s, t) /\ Key(s, t) /\ Secret(s, t)
        /\ "Version" \in DOMAIN t /\ t["Version"] = i
    BY SetVersionIs
  <2>2. VersionWrites(s, i, ble) = <<t>>
    BY <1>2 DEF VersionWrites
  <2> HIDE DEF t
  <2>3. Finished(s, i, t, 0)
    BY <1>2, <2>1, SameState, NumberedOnce, NumberedSame DEF Finished, Updates
  <2> QED
    BY <2>1, <2>2, <2>3 DEF VersionsOK
<1>3. CASE "Version" \in DOMAIN s /\ s["Version"] < i /\ ble
  <2> DEFINE a == IncrementCN(s)
             b == KVSRemove(a, "GSN")
             c == KVSSet(b, "Broadcast", [expiration |-> 0])
             d == KVSSet(c, "Version", i)
  <2>1. VersionWrites(s, i, ble) = <<a, b, c, d>>
    BY <1>3 DEF VersionWrites, HandleFirmwareUpdate, ExpireKey, Updates
  <2>2. /\ StoreOK(a) /\ State(s, a) /\ Key(s, a) /\ Program(s, a) /\ Secret(s, a)
        /\ Numbered(s, a, 1)
    BY IncrementCNIs, NumberedOnce
  <2> HIDE DEF a
  <2>3. /\ StoreOK(b) /\ Number(a, b) /\ Key(a, b) /\ Program(a, b) /\ Secret(a, b)
        /\ GSN(b) = FirstGSN
    BY <2>2, RemoveGSNIs DEF FirstGSN
  <2> HIDE DEF b
  <2>4. /\ StoreOK(c) /\ Number(b, c) /\ State(b, c) /\ Program(b, c) /\ Secret(b, c)
        /\ ~HasKey(c)
    <3>1. 0 \in 0 .. UINT16_MAX
      BY StorageAssumption
    <3> QED
      BY <2>3, <3>1, SetKeyIs
  <2> HIDE DEF c
  <2>5. /\ StoreOK(d) /\ Number(c, d) /\ State(c, d) /\ Key(c, d) /\ Secret(c, d)
        /\ "Version" \in DOMAIN d /\ d["Version"] = i
    BY <2>4, SetVersionIs
  <2> HIDE DEF d
  <2>6. /\ GSN(a) = GSN(s) /\ GSN(c) = FirstGSN /\ GSN(d) = FirstGSN /\ ~HasKey(d)
    BY <2>2, <2>3, <2>4, <2>5, SameState, SameKey
  <2>7. Numbered(s, b, 1) /\ Numbered(s, c, 1) /\ Numbered(s, d, 1)
    BY <2>2, <2>3, <2>4, <2>5, NumberedSame
  <2>8. /\ Program(s, b) /\ Program(s, c) /\ Key(s, b)
        /\ Secret(s, b) /\ Secret(s, c) /\ Secret(s, d)
    BY <2>2, <2>3, <2>4, <2>5, AgreeIs DEF Program, Key, Secret
  <2>9. Updates(s, i)
    BY <1>3 DEF Updates
  <2>10. UnderWay(s, i, a) /\ UnderWay(s, i, b) /\ UnderWay(s, i, c)
    BY <2>2, <2>3, <2>4, <2>6, <2>7, <2>8, <2>9 DEF UnderWay
  <2>11. Finished(s, i, d, 0)
    BY <2>5, <2>6, <2>7, <2>9 DEF Finished
  <2> DEFINE v == <<a, b, c, d>>
  <2>12. /\ Len(v) = 4 /\ DOMAIN v = 1 .. 4 /\ v[1] = a /\ v[2] = b /\ v[3] = c /\ v[4] = d
    OBVIOUS
  <2> HIDE DEF v
  <2>13. \A k \in 1 .. 4 : v[k] \in {a, b, c, d}
    BY <2>12
  <2>14. \A x \in {a, b, c, d} : Secret(s, x) /\ (UnderWay(s, i, x) \/ Finished(s, i, x, 0))
    BY <2>2, <2>8, <2>10, <2>11
  <2>15. VersionsOK(s, i, v)
    BY <2>11, <2>12, <2>13, <2>14 DEF VersionsOK
  <2> QED
    BY <2>1, <2>15 DEF v
<1>4. CASE "Version" \in DOMAIN s /\ s["Version"] < i /\ ~ble
  <2> DEFINE a == IncrementCN(s)
             d == KVSSet(a, "Version", i)
             v == <<a, d>>
  <2>1. VersionWrites(s, i, ble) = v
    BY <1>4 DEF VersionWrites, HandleFirmwareUpdate, Updates
  <2>2. /\ StoreOK(a) /\ State(s, a) /\ Key(s, a) /\ Program(s, a) /\ Secret(s, a)
        /\ Numbered(s, a, 1)
    BY IncrementCNIs, NumberedOnce
  <2> HIDE DEF a
  <2>3. /\ StoreOK(d) /\ Number(a, d) /\ State(a, d) /\ Key(a, d) /\ Secret(a, d)
        /\ "Version" \in DOMAIN d /\ d["Version"] = i
    BY <2>2, SetVersionIs
  <2> HIDE DEF d
  <2>4. GSN(a) = GSN(s) /\ GSN(d) = GSN(s) /\ ~HasKey(d)
    BY <1>4, <2>2, <2>3, SameState, SameKey
  <2>5. Numbered(s, d, 1) /\ Secret(s, d) /\ Updates(s, i)
    BY <1>4, <2>2, <2>3, NumberedSame, AgreeIs DEF Secret, Updates
  <2>6. UnderWay(s, i, a)
    BY <2>2, <2>4, <2>5 DEF UnderWay
  <2>7. Finished(s, i, d, 0)
    BY <2>3, <2>4, <2>5 DEF Finished
  <2>8. Len(v) = 2 /\ DOMAIN v = 1 .. 2 /\ v[1] = a /\ v[2] = d
    OBVIOUS
  <2> HIDE DEF v
  <2>9. VersionsOK(s, i, v)
    BY <2>2, <2>5, <2>6, <2>7, <2>8 DEF VersionsOK
  <2> QED
    BY <2>1, <2>9
<1>5. CASE "Version" \in DOMAIN s /\ ~(s["Version"] < i)
  <2>1. s["Version"] = i
    BY <1>1, <1>5 DEF StoreOK, IsDowngrade
  <2>2. VersionWrites(s, i, ble) = <<s>>
    BY <1>5 DEF VersionWrites, Updates
  <2>3. Finished(s, i, s, 0)
    BY <1>5, <2>1, NumberedOnce DEF Finished, Updates, Key, Agree
  <2> QED
    BY <2>2, <2>3 DEF VersionsOK, Secret, Agree
<1> QED
  BY <1>2, <1>3, <1>4, <1>5

\* One sequence of writes after another.
LEMMA Joined ==
    ASSUME NEW T, NEW a \in Seq(T), NEW b \in Seq(T), Len(a) # 0
    PROVE  /\ a \o b \in Seq(T) /\ Len(a \o b) # 0
           /\ Last(a \o b) = IF Len(b) = 0 THEN Last(a) ELSE Last(b)
           /\ \A i \in DOMAIN (a \o b) : \/ \E j \in DOMAIN a : (a \o b)[i] = a[j]
                                         \/ \E j \in DOMAIN b : (a \o b)[i] = b[j]
<1>1. /\ Len(a) \in Nat /\ DOMAIN a = 1 .. Len(a) /\ Len(b) \in Nat /\ DOMAIN b = 1 .. Len(b)
  BY LenProperties
<1>2. /\ a \o b \in Seq(T) /\ Len(a \o b) = Len(a) + Len(b)
      /\ \A i \in 1 .. Len(a) + Len(b) : (a \o b)[i] =
             IF i <= Len(a) THEN a[i] ELSE b[i - Len(a)]
  BY ConcatProperties
<1>3. DOMAIN (a \o b) = 1 .. Len(a) + Len(b)
  BY <1>2, LenProperties
<1> DEFINE r == a \o b
<1> HIDE DEF r
<1>4. /\ r \in Seq(T) /\ Len(r) = Len(a) + Len(b) /\ DOMAIN r = 1 .. Len(a) + Len(b)
      /\ \A i \in 1 .. Len(a) + Len(b) : r[i] = IF i <= Len(a) THEN a[i] ELSE b[i - Len(a)]
  BY <1>2, <1>3 DEF r
<1>5. Last(r) = r[Len(r)] /\ Last(a) = a[Len(a)] /\ Last(b) = b[Len(b)]
  BY DEF Last
<1>6. Last(r) = IF Len(b) = 0 THEN Last(a) ELSE Last(b)
  <2>1. CASE Len(b) = 0
    BY <1>1, <1>4, <1>5, <2>1
  <2>2. CASE Len(b) # 0
    <3>1. Len(a) + Len(b) \in 1 .. Len(a) + Len(b) /\ ~(Len(a) + Len(b) <= Len(a))
          /\ (Len(a) + Len(b)) - Len(a) = Len(b)
      BY <1>1, <2>2
    <3>2. r[Len(a) + Len(b)] = b[(Len(a) + Len(b)) - Len(a)]
      BY <1>4, <3>1
    <3> QED
      BY <1>4, <1>5, <2>2, <3>1, <3>2
  <2> QED
    BY <2>1, <2>2
<1>7. ASSUME NEW i \in DOMAIN r
      PROVE  \/ \E j \in DOMAIN a : r[i] = a[j]
             \/ \E j \in DOMAIN b : r[i] = b[j]
  <2>1. CASE i <= Len(a)
    BY <1>1, <1>4, <2>1
  <2>2. CASE ~(i <= Len(a))
    <3>1. i - Len(a) \in DOMAIN b /\ r[i] = b[i - Len(a)]
      BY <1>1, <1>4, <2>2
    <3> QED
      BY <3>1
  <2> QED
    BY <2>1, <2>2
<1>8. Len(r) # 0
  BY <1>1, <1>4
<1> QED
  BY <1>4, <1>6, <1>7, <1>8 DEF r

-------------------------------------------------------------------------------
\* A start, whole or cut off.

\* The worlds that the writes of a start leave, and the last one.
Partial(w, changed) ==
    /\ IsWorld(w) /\ w.broadcasts = broadcasts /\ w.image = image /\ w.server = server
    /\ w.adv = adv /\ w.failed = "None" /\ w.outdated = outdated
    /\ w.pairings \in {"None", "Current", "Stale"}
    /\ w.pairings = "Stale" => "LTSK" \notin DOMAIN w.store
    /\ \/ UnderWay(store, image, w.store)
       \/ \E k \in {0, 1} : Finished(store, image, w.store, k) /\ (k = 1 => changed)

Complete(w, changed) ==
    /\ Partial(w, changed) /\ w.pairings # "Stale"
    /\ Finished(store, image, w.store, IF changed THEN 1 ELSE 0)

LEMMA StartWritesAre ==
    ASSUME IInv, server = "Idle", ~IsDowngrade(store, image), NEW changed \in BOOLEAN
    PROVE  /\ \A k \in DOMAIN StartWrites(changed) : Partial(StartWrites(changed)[k], changed)
           /\ Complete(Last(StartWrites(changed)), changed)
<1> DEFINE v == VersionWrites(store, image, hardware = "BLE")
           n == Len(v)
           V(k) == [World EXCEPT !.store = v[k]]
           worlds == [k \in DOMAIN v |-> V(k)]
           y == V(n)
           purged == [y EXCEPT !.pairings = "None"]
           loaded == [purged EXCEPT !.store = LoadLTSK(y.store)]
           keys == LTSKWrites(Last(worlds))
           a == worlds \o keys
           ready == Last(a)
           final == [ready EXCEPT !.store = IncrementCN(ready.store)]
           more == IF changed THEN <<final>> ELSE <<>>
           T == {V(k) : k \in 1 .. n} \cup {purged, loaded, final}
<1>1. /\ IsWorld(World) /\ Sound(hardware, World) /\ StoreOK(store) /\ image \in Images
      /\ pairings \in {"None", "Current", "Stale"}
      /\ pairings = "Stale" => "LTSK" \notin DOMAIN store
  BY InvIs, WorldIs DEF Sound, ProcessSound
<1>2. VersionsOK(store, image, v)
  <2>1. (hardware = "BLE") \in BOOLEAN /\ (hardware # "BLE" => ~HasKey(store))
    BY InvIs
  <2> QED
    BY <1>1, <2>1, VersionsAre
<1> HIDE DEF v
<1>3. n \in Nat \ {0} /\ DOMAIN v = 1 .. n
  BY <1>2 DEF VersionsOK
<1>4. ASSUME NEW k \in 1 .. n
      PROVE  /\ Partial(V(k), changed) /\ V(k).store = v[k] /\ V(k).pairings = pairings
             /\ IsWorld(V(k))
  <2>1. /\ StoreOK(v[k]) /\ Secret(store, v[k])
        /\ UnderWay(store, image, v[k]) \/ Finished(store, image, v[k], 0)
    BY <1>2 DEF VersionsOK, UnderWay, Finished
  <2> DEFINE w == V(k)
  <2>2. /\ IsWorld(w) /\ Aside(World, w) /\ w.store = v[k] /\ w.adv = adv /\ w.failed = "None"
    <3>1. /\ IsWorld(w) /\ Aside(World, w) /\ w.store = v[k] /\ w.adv = World.adv
          /\ w.air = World.air /\ w.failed = World.failed /\ w.kept = World.kept
      BY ZenonT(40), <1>1, <2>1, Changes
    <3> QED
      BY <3>1, WorldIs
  <2> HIDE DEF w
  <2>3. /\ w.broadcasts = broadcasts /\ w.pairings = pairings
        /\ w.image = image /\ w.server = server /\ w.outdated = outdated
    BY <2>2, WorldIs DEF Aside
  <2>4. "LTSK" \in DOMAIN v[k] <=> "LTSK" \in DOMAIN store
    BY <2>1 DEF Secret, Agree
  <2>5. Partial(w, changed)
    BY <1>1, <2>1, <2>2, <2>3, <2>4 DEF Partial
  <2> QED
    BY <2>2, <2>3, <2>5 DEF w
<1> HIDE DEF V
<1>5. /\ Partial(y, changed) /\ IsWorld(y) /\ y.pairings = pairings
      /\ Finished(store, image, y.store, 0) /\ StoreOK(y.store)
  BY <1>2, <1>3, <1>4 DEF VersionsOK, IsWorld
<1>6. worlds \in Seq(T) /\ Len(worlds) = n /\ \A k \in 1 .. n : worlds[k] = V(k)
  <2> HIDE DEF purged, loaded, final
  <2> QED
    BY <1>3
<1>7. Last(worlds) = y /\ DOMAIN worlds = 1 .. n /\ Len(worlds) # 0
  BY <1>3, <1>6 DEF Last
<1> HIDE DEF y, worlds
<1>8. /\ IsWorld(purged) /\ purged.store = y.store /\ purged.adv = y.adv
      /\ purged.failed = y.failed /\ purged.broadcasts = y.broadcasts
      /\ purged.server = y.server /\ purged.image = y.image /\ purged.pairings = "None"
      /\ purged.outdated = y.outdated
  BY <1>5, PairingsChanged
<1> HIDE DEF purged
<1>9. Partial(purged, changed)
  BY <1>5, <1>8 DEF Partial
<1>10. LET t == LoadLTSK(y.store)
       IN  /\ StoreOK(t) /\ Number(y.store, t) /\ State(y.store, t) /\ Key(y.store, t)
           /\ Program(y.store, t) /\ "LTSK" \in DOMAIN t
  BY <1>5, LoadLTSKIs
<1>11. /\ Partial(loaded, changed) /\ loaded.pairings = "None" /\ IsWorld(loaded)
       /\ Finished(store, image, loaded.store, 0)
  <2> DEFINE t == LoadLTSK(y.store)
  <2> HIDE DEF t
  <2>1. Finished(store, image, t, 0) /\ StoreOK(t)
    BY <1>5, <1>10, FinishedSame DEF t
  <2>2. loaded = [purged EXCEPT !.store = t]
    BY DEF t
  <2> HIDE DEF loaded
  <2>3. LET z == [purged EXCEPT !.store = t]
        IN  /\ IsWorld(z) /\ Aside(purged, z) /\ z.store = t /\ z.adv = purged.adv
            /\ z.air = purged.air /\ z.failed = purged.failed /\ z.kept = purged.kept
    BY ZenonT(40), <1>8, <2>1, Changes
  <2>4. /\ IsWorld(loaded) /\ loaded.store = t /\ loaded.adv = purged.adv
        /\ loaded.failed = purged.failed /\ loaded.pairings = "None"
        /\ loaded.broadcasts = purged.broadcasts /\ loaded.image = purged.image
        /\ loaded.server = purged.server /\ loaded.outdated = purged.outdated
    BY <1>8, <2>2, <2>3 DEF Aside
  <2> QED
    BY <1>9, <2>1, <2>4 DEF Partial
<1>12. keys = IF "LTSK" \in DOMAIN y.store THEN <<>> ELSE <<purged, loaded>>
  <2>1. loaded = [purged EXCEPT !.store = LoadLTSK(@)]
    BY <1>8
  <2> HIDE DEF loaded
  <2> QED
    BY <1>7, <2>1 DEF LTSKWrites, purged
<1> HIDE DEF loaded
<1>13. keys \in Seq(T)
  <2>1. purged \in T /\ loaded \in T
    OBVIOUS
  <2> HIDE DEF T
  <2>2. <<>> \in Seq(T) /\ <<purged, loaded>> \in Seq(T)
    BY <2>1
  <2> HIDE DEF keys
  <2> QED
    BY <1>12, <2>2
<1> HIDE DEF keys
<1>14. /\ a \in Seq(T) /\ Len(a) # 0
       /\ Last(a) = IF Len(keys) = 0 THEN Last(worlds) ELSE Last(keys)
       /\ \A i \in DOMAIN a : \/ \E j \in DOMAIN worlds : a[i] = worlds[j]
                              \/ \E j \in DOMAIN keys : a[i] = keys[j]
  <2> HIDE DEF T
  <2>1. worlds \in Seq(T) /\ keys \in Seq(T) /\ Len(worlds) # 0
    BY <1>6, <1>7, <1>13
  <2> QED
    BY <2>1, Joined
<1>15. /\ ready = IF "LTSK" \in DOMAIN y.store THEN y ELSE loaded
       /\ \A j \in DOMAIN keys : keys[j] \in {purged, loaded}
  BY <1>7, <1>12, <1>14 DEF Last
<1> HIDE DEF a
<1>16. /\ Partial(ready, changed) /\ IsWorld(ready) /\ Finished(store, image, ready.store, 0)
       /\ ready.pairings # "Stale"
  BY <1>5, <1>11, <1>15 DEF Partial
<1> HIDE DEF ready
<1>17. /\ IsWorld(final) /\ Aside(ready, final) /\ final.adv = ready.adv
       /\ final.failed = ready.failed /\ final.store = IncrementCN(ready.store)
  <2>1. StoreOK(IncrementCN(ready.store))
    BY <1>16, IncrementCNIs DEF IsWorld
  <2> DEFINE t == IncrementCN(ready.store)
  <2>2. final = [ready EXCEPT !.store = t]
    OBVIOUS
  <2> HIDE DEF t, final
  <2>3. LET z == [ready EXCEPT !.store = t]
        IN  /\ IsWorld(z) /\ Aside(ready, z) /\ z.store = t /\ z.adv = ready.adv
            /\ z.air = ready.air /\ z.failed = ready.failed /\ z.kept = ready.kept
    <3>1. StoreOK(t)
      BY <2>1 DEF t
    <3> QED
      BY ZenonT(40), <1>16, <3>1, Changes
  <2> QED
    BY <2>2, <2>3 DEF t
<1> HIDE DEF final
<1>18. changed => /\ Partial(final, changed) /\ final.pairings # "Stale"
                  /\ Finished(store, image, final.store, 1)
  <2>1. Finished(store, image, final.store, 1)
    BY <1>16, <1>17, FinishedAgain
  <2> QED
    BY <1>16, <1>17, <2>1 DEF Partial, Aside
<1> HIDE DEF T
<1>19. StartWrites(changed) = a \o more
  <2>1. worlds = [i \in DOMAIN v |-> [World EXCEPT !.store = v[i]]]
    BY DEF worlds, V
  <2>2. final = [ready EXCEPT !.store = IncrementCN(@)]
    BY <1>16 DEF final, IsWorld
  <2> QED
    BY <2>1, <2>2 DEF StartWrites, a, ready, keys, v
<1> HIDE DEF StartWrites
<1>20. /\ more \in Seq(T)
       /\ changed => Len(more) = 1 /\ DOMAIN more = {1} /\ more[1] = final
       /\ ~changed => Len(more) = 0 /\ DOMAIN more = {}
  <2>1. final \in T
    BY DEF T
  <2>2. <<>> \in Seq(T) /\ <<final>> \in Seq(T)
    BY <2>1
  <2>3. CASE changed
    <3>1. more = <<final>>
      BY <2>3
    <3> QED
      BY <2>2, <2>3, <3>1
  <2>4. CASE ~changed
    <3>1. more = <<>>
      BY <2>4
    <3> QED
      BY <2>2, <2>4, <3>1
  <2> QED
    BY <2>3, <2>4
<1> HIDE DEF more
<1>21. /\ Last(a \o more) = IF Len(more) = 0 THEN Last(a) ELSE Last(more)
       /\ \A i \in DOMAIN (a \o more) : \/ \E j \in DOMAIN a : (a \o more)[i] = a[j]
                                        \/ \E j \in DOMAIN more : (a \o more)[i] = more[j]
  BY <1>14, <1>20, Joined
<1>22. \A j \in DOMAIN a : Partial(a[j], changed)
  BY <1>4, <1>6, <1>7, <1>9, <1>11, <1>14, <1>15
<1>23. \A j \in DOMAIN more : Partial(more[j], changed)
  BY <1>18, <1>20
<1>25. ready = Last(a)
  BY DEF ready
<1>26. changed => Last(more) = final
  BY <1>20 DEF Last
<1>24. Last(a \o more) = IF changed THEN final ELSE ready
  BY <1>20, <1>21, <1>25, <1>26
<1> QED
  BY <1>16, <1>18, <1>19, <1>21, <1>22, <1>23, <1>24 DEF Complete

\* What a start has done to the configuration number since it was published.
LEMMA AddedIs ==
    ASSUME NEW h \in {"BLE", "IP"}, NEW s, StoreOK(s), NEW t, NEW l, l.cn \in 1 .. Modulus(h),
           "CN" \in DOMAIN s, NEW k \in {0, 1, 2}, Numbered(s, t, k),
           Added(h, s, l) + k < Modulus(h)
    PROVE  "CN" \in DOMAIN t /\ Added(h, t, l) = Added(h, s, l) + k
<1>1. /\ UINT8_MAX \in Nat \ {0} /\ UINT16_MAX \in Nat \ {0}
      /\ CN(s) \in 1 .. UINT16_MAX /\ ShortCN(s) \in 1 .. UINT8_MAX
  BY StorageAssumption, StoreIs
<1>2. Modulus(h) \in Nat \ {0} /\ Reported(h, s) \in 1 .. Modulus(h)
  BY <1>1 DEF Modulus, Reported
<1>3. "CN" \in DOMAIN t /\ Reported(h, t) = Ups(k, Reported(h, s), Modulus(h))
  BY DEF Numbered, Modulus, Reported
<1>4. Distance(Modulus(h), l.cn, Reported(h, s)) + k < Modulus(h)
  BY DEF Added
<1>5. Distance(Modulus(h), l.cn, Ups(k, Reported(h, s), Modulus(h))) =
          Distance(Modulus(h), l.cn, Reported(h, s)) + k
  BY <1>2, <1>4, UpsIs
<1> QED
  BY <1>3, <1>5 DEF Added

LEMMA ModulusIs ==
    ASSUME NEW h \in {"BLE", "IP"}
    PROVE  Modulus(h) \in Nat /\ Modulus(h) >= 3
BY StorageAssumption DEF Modulus

\* A start that is cut off is numbered as the version says.
LEMMA NumberCutOff ==
    ASSUME NEW h \in {"BLE", "IP"}, NEW w, StoreOK(w.store), NEW u, NEW l,
           NumberSound(h, w, l, 0), NEW i \in Images, ~IsDowngrade(w.store, i),
           NEW changed \in BOOLEAN, changed => h = "IP",
           \/ UnderWay(w.store, i, u.store)
           \/ \E k \in {0, 1} : Finished(w.store, i, u.store, k) /\ (k = 1 => changed)
    PROVE  NumberSound(h, u, l, i)
<1> SUFFICES ASSUME l # NothingSeen
             PROVE  NumberSound(h, u, l, i)
  BY DEF NumberSound
<1>1. /\ l.cn \in 1 .. Modulus(h) /\ "CN" \in DOMAIN w.store /\ "Version" \in DOMAIN w.store
      /\ w.store["Version"] = l.image /\ Added(h, w.store, l) = 0
  BY DEF NumberSound
<1>2. Modulus(h) \in Nat /\ Modulus(h) >= 3
  BY ModulusIs
<1>3. i \in Nat /\ i # 0 /\ l.image \in Nat /\ l.image <= i
  <2>1. \A x \in Images : x \in Nat /\ x # 0
    BY AdvertisingAssumption
  <2>2. w.store["Version"] \in Images /\ ~(w.store["Version"] > i)
    BY <1>1 DEF StoreOK, IsDowngrade
  <2> QED
    BY <1>1, <2>1, <2>2
<1>4. CASE UnderWay(w.store, i, u.store)
  <2>1. Numbered(w.store, u.store, 1) /\ l.image < i
    BY <1>1, <1>4 DEF UnderWay, Updates
  <2>2. "Version" \in DOMAIN u.store /\ u.store["Version"] = l.image
    BY <1>1, <1>4 DEF UnderWay, Program, Agree
  <2>3. "CN" \in DOMAIN u.store /\ Added(h, u.store, l) = 0 + 1
    BY <1>1, <1>2, <2>1, AddedIs
  <2> QED
    BY <1>1, <1>3, <2>1, <2>2, <2>3 DEF NumberSound
<1>5. ASSUME NEW k \in {0, 1}, Finished(w.store, i, u.store, k), k = 1 => changed
      PROVE  NumberSound(h, u, l, i)
  <2>1. "Version" \in DOMAIN u.store /\ u.store["Version"] = i
    BY <1>5 DEF Finished
  <2>2. CASE Updates(w.store, i)
    <3>1. Numbered(w.store, u.store, k + 1) /\ k + 1 \in {0, 1, 2} /\ l.image < i
      BY <1>1, <1>5, <2>2 DEF Finished, Updates
    <3>2. "CN" \in DOMAIN u.store /\ Added(h, u.store, l) = 0 + (k + 1)
      BY <1>1, <1>2, <3>1, AddedIs
    <3>3. Added(h, u.store, l) = 1 \/ (h = "IP" /\ Added(h, u.store, l) = 2)
      BY <1>5, <3>2
    <3> QED
      BY <1>1, <1>3, <2>1, <3>1, <3>2, <3>3 DEF NumberSound
  <2>3. CASE ~Updates(w.store, i)
    <3>1. Numbered(w.store, u.store, k) /\ l.image = i /\ ~(l.image < i)
      BY <1>1, <1>3, <1>5, <2>3 DEF Finished, Updates
    <3>2. "CN" \in DOMAIN u.store /\ Added(h, u.store, l) = 0 + k
      <4>1. k \in {0, 1, 2} /\ Added(h, w.store, l) + k < Modulus(h)
        BY <1>1, <1>2
      <4>2. Numbered(w.store, u.store, k)
        BY <3>1
      <4>3. "CN" \in DOMAIN u.store /\ Added(h, u.store, l) = Added(h, w.store, l) + k
        <5> DEFINE v == w.store
                   t == u.store
        <5>1. /\ StoreOK(v) /\ l.cn \in 1 .. Modulus(h) /\ "CN" \in DOMAIN v
              /\ Numbered(v, t, k) /\ Added(h, v, l) + k < Modulus(h)
          BY <1>1, <4>1, <4>2
        <5> HIDE DEF v, t
        <5>2. "CN" \in DOMAIN t /\ Added(h, t, l) = Added(h, v, l) + k
          BY <4>1, <5>1, AddedIs
        <5> QED
          BY <5>2 DEF v, t
      <4> QED
        BY <1>1, <4>3
    <3>3. Added(h, u.store, l) = 0 \/ (h = "IP" /\ Added(h, u.store, l) = 1)
      BY <1>5, <3>2
    <3> QED
      BY <1>1, <1>3, <2>1, <3>1, <3>2, <3>3 DEF NumberSound
  <2> QED
    BY <2>2, <2>3
<1> QED
  BY <1>4, <1>5

\* A start that is over has no use for a key whose GSNs are gone.
LEMMA NonceFinished ==
    ASSUME NEW h, NEW w, NEW u, NEW s, NEW g, NEW l, NEW j, History(h, w, s, g, l, j),
           StoreOK(w.store), w.image \in Images, w.server # "None", NEW k \in {0, 1},
           Finished(w.store, w.image, u.store, k), NEW i
    PROVE  NonceSound(u, s, i)
<1>1. NonceSound(w, s, j) /\ CutOffSound(w, j) /\ j \in Images \cup {0}
  BY DEF History
<1>2. ~s.again
  BY <1>1 DEF NonceSound
<1>3. CASE Updates(w.store, w.image)
  BY <1>2, <1>3 DEF Finished, NonceSound
<1>4. CASE ~Updates(w.store, w.image)
  <2>1. Key(w.store, u.store) /\ GSN(u.store) = GSN(w.store)
    BY <1>4 DEF Finished
  <2>2. /\ HasKey(u.store) <=> HasKey(w.store)
        /\ Rest(u.store) = Rest(w.store)
    BY <2>1, SameKey DEF Rest
  <2>3. ~Updates(w.store, j)
    <3>1. j # 0 => w.image >= j
      BY <1>1 DEF CutOffSound
    <3>2. \A x \in Images : x \in Nat /\ x # 0
      BY AdvertisingAssumption
    <3>3. "Version" \in DOMAIN w.store =>
              w.store["Version"] \in Images /\ ~(w.store["Version"] < w.image)
      BY <1>4 DEF Updates, StoreOK
    <3> QED
      BY <1>1, <3>1, <3>2, <3>3 DEF Updates
  <2> QED
    BY <1>1, <2>2, <2>3 DEF NonceSound
<1> QED
  BY <1>3, <1>4

\* Until then the version says that the update has to go on.
LEMMA NonceUnderWay ==
    ASSUME NEW w, NEW u, NEW s, NEW i, ~s.again, UnderWay(w.store, i, u.store)
    PROVE  NonceSound(u, s, i)
<1>1. Updates(u.store, i)
  BY DEF UnderWay, Updates, Program, Agree
<1> QED
  BY <1>1 DEF NonceSound

\* The GSN that was told is still the last one, or void.
LEMMA ToldStarted ==
    ASSUME NEW w, NEW u, NEW g \in 0 .. UINT16_MAX, ToldSound(w, g), ~w.adv.connected,
           NEW i, NEW changed,
           \/ UnderWay(w.store, i, u.store)
           \/ \E k \in {0, 1} : Finished(w.store, i, u.store, k) /\ (k = 1 => changed)
    PROVE  LET x == IF GSN(u.store) = GSN(w.store) THEN g ELSE 0
           IN  ToldSound(u, x) /\ x \in 0 .. UINT16_MAX
<1>1. HasKey(u.store) => Key(w.store, u.store)
  BY DEF UnderWay, Finished
<1>2. HasKey(u.store) /\ GSN(u.store) = GSN(w.store) =>
          HasKey(w.store) /\ Rest(u.store) = Rest(w.store)
  BY <1>1, SameKey DEF Rest
<1>3. UINT16_MAX \in Nat
  BY StorageAssumption
<1>4. CASE GSN(u.store) = GSN(w.store)
  BY <1>2, <1>4 DEF ToldSound
<1>5. CASE GSN(u.store) # GSN(w.store)
  BY <1>3, <1>5 DEF ToldSound
<1> QED
  BY <1>4, <1>5

\* Another configuration number is published.
LEMMA NumberPublished ==
    ASSUME NEW h \in {"BLE", "IP"}, NEW u, StoreOK(u.store), NEW s, NEW g, NEW l,
           History(h, u, s, g, l, 0), "CN" \in DOMAIN u.store, "Version" \in DOMAIN u.store,
           NEW p, p.image = u.store["Version"], p.cn = Reported(h, u.store)
    PROVE  History(h, u, s, g, p, 0)
<1>1. /\ UINT8_MAX \in Nat \ {0} /\ UINT16_MAX \in Nat \ {0}
      /\ CN(u.store) \in 1 .. UINT16_MAX /\ ShortCN(u.store) \in 1 .. UINT8_MAX
  BY StorageAssumption, StoreIs
<1>2. Modulus(h) \in Nat \ {0} /\ p.cn \in 1 .. Modulus(h)
  BY <1>1 DEF Modulus, Reported
<1>3. Distance(Modulus(h), p.cn, p.cn) = 0
  BY <1>2, DistanceIs
<1>4. Added(h, u.store, p) = 0
  BY <1>3 DEF Added
<1>5. NumberSound(h, u, p, 0)
  BY <1>2, <1>4 DEF NumberSound
<1> QED
  BY <1>5 DEF History, StoreOK

\* The advertising of a process that starts again fits what the start has written, unless
\* an event is announced and its key is gone.
LEMMA ReadyAdvSound ==
    ASSUME NEW h, NEW w, Sound(h, w), w.server = "Idle", NEW u, u.adv = w.adv,
           u.failed = "None", NEW k \in {0, 1}, Finished(w.store, w.image, u.store, k),
           u.outdated = (w.outdated \/ Updates(w.store, w.image)),
           u.adv.iid = 0 \/ HasKey(u.store)
    PROVE  AdvSound(u) /\ ~u.adv.connected /\ w.image \in Images
<1>1. ~w.adv.connected /\ w.image \in Images /\ AdvSound(w)
  BY DEF Sound, ProcessSound
<1>2. ~Updates(w.store, w.image) =>
          GSN(u.store) = GSN(w.store) /\ (HasKey(u.store) <=> HasKey(w.store))
  BY SameKey DEF Finished
<1>3. Updates(w.store, w.image) => ~HasKey(u.store)
  BY DEF Finished
<1> QED
  BY <1>1, <1>2, <1>3 DEF AdvSound

\* A start that is over, and what it puts on the air.
LEMMA StartedSound ==
    ASSUME NEW h \in {"BLE", "IP"}, NEW w, Sound(h, w), w.server = "Idle", NEW r, IsWorld(r),
           r.server = "Running", r.adv = w.adv, r.failed = "None", r.image = w.image,
           r.broadcasts = w.broadcasts, r.pairings \in {"None", "Current"},
           r.outdated = (w.outdated \/ Updates(w.store, w.image)),
           NEW k \in {0, 1}, Finished(w.store, w.image, r.store, k), NEW ok \in BOOLEAN,
           r.adv.iid = 0 \/ HasKey(r.store)
    PROVE  LET u == IF h = "IP" THEN SetHAPService(r) ELSE UpdateAdvertisingData(r, ok)
           IN  /\ Sound(h, u) /\ StoreKept(r.store, u.store)
               /\ u.adv.connected = r.adv.connected /\ u.broadcasts = r.broadcasts
<1>1. AdvSound(r) /\ ~r.adv.connected /\ r.image \in Images
  BY ReadyAdvSound
<1>2. WorldOK(r)
  BY <1>1 DEF Sound, WorldOK
<1>3. CASE h = "IP"
  <2>1. r.adv = Quiet /\ ~HasKey(w.store)
    BY <1>3 DEF Sound, ProcessSound
  <2>2. ~HasKey(r.store)
    BY <2>1, SameKey DEF Finished
  <2> DEFINE u == SetHAPService(r)
  <2>3. /\ Sound("IP", u) /\ StoreKept(r.store, u.store) /\ "CN" \in DOMAIN u.store
        /\ u.adv = r.adv /\ u.broadcasts = r.broadcasts
    BY <1>1, <1>2, <2>1, <2>2, ServiceSound
  <2> HIDE DEF u
  <2> QED
    BY <1>3, <2>3 DEF u
<1>4. CASE h = "BLE"
  <2>1. Stage(r)
    BY <1>1 DEF Stage
  <2> DEFINE u == UpdateAdvertisingData(r, ok)
  <2>2. Sound("BLE", u) /\ Updated(r, u)
    BY <1>1, <1>2, <2>1, UpdatedSound
  <2> HIDE DEF u
  <2>3. /\ StoreKept(r.store, u.store) /\ u.adv.connected = r.adv.connected
        /\ u.broadcasts = r.broadcasts
    BY <2>2 DEF Updated, Aside
  <2> QED
    BY <1>4, <2>2, <2>3 DEF u
<1> QED
  BY <1>3, <1>4

\* A start goes from what its writes have left to what it has put on the air.
Started(changed, r, u) ==
    /\ Sound(hardware, u) /\ StoreKept(r.store, u.store)
    /\ u.adv.connected = r.adv.connected /\ u.broadcasts = r.broadcasts
    /\ last' = IF "CN" \notin DOMAIN u.store THEN last
               ELSE [image |-> image, cn |-> Reported(hardware, u.store), changed |-> changed]

\* Or it ends the process: an event is announced whose key is gone.
StartFails(r, u) ==
    /\ r.outdated = TRUE /\ hardware = "BLE" /\ ~HasKey(r.store)
    /\ IsWorld(u) /\ Aside(r, u) /\ u.kept = r.store
    /\ u.failed = "GetAdvertisingParameters" /\ last' = NothingSeen

StartEnds(changed, r, u) ==
    /\ IsWorld(r) /\ r.adv = adv /\ r.broadcasts = broadcasts
    /\ r.pairings \in {"None", "Current"}
    /\ Finished(store, image, r.store, IF changed THEN 1 ELSE 0)
    /\ Becomes(u) /\ (Started(changed, r, u) \/ StartFails(r, u))

LEMMA StartIs ==
    ASSUME IInv, NEW changed \in BOOLEAN, NEW ok \in BOOLEAN, Start(changed, ok)
    PROVE  \E r, u : StartEnds(changed, r, u)
<1>1. server = "Idle" /\ ~IsDowngrade(store, image)
  BY DEF Start
<1>2. /\ IsWorld(World) /\ Sound(hardware, World) /\ hardware \in {"BLE", "IP"}
  BY InvIs
<1> DEFINE z == Last(StartWrites(changed))
           a == [z EXCEPT !.server = "Running"]
           x == outdated \/ Updates(store, image)
           r == Outdated(a, x)
           u == IF hardware = "IP" THEN SetHAPService(r) ELSE UpdateAdvertisingData(r, ok)
           k == IF changed THEN 1 ELSE 0
<1>3. Complete(z, changed)
  BY <1>1, StartWritesAre
<1>4. /\ Becomes(u)
      /\ last' = IF u.failed # "None" THEN NothingSeen
                 ELSE IF "CN" \notin DOMAIN u.store THEN last
                 ELSE [image |-> image, cn |-> Reported(hardware, u.store),
                       changed |-> changed]
  <2>1. r = [z EXCEPT !.server = "Running", !.outdated = @ \/ Updates(store, image)]
    <3>1. z.outdated = outdated /\ IsWorld(z)
      BY <1>3 DEF Complete, Partial
    <3> HIDE DEF z
    <3> QED
      BY <3>1 DEF Outdated, IsWorld
  <2> QED
    BY <2>1 DEF Start, ReportedCN, Reported
<1> HIDE DEF z, u
<1>5. /\ IsWorld(a) /\ a.server = "Running" /\ a.adv = adv /\ a.failed = "None"
      /\ a.image = image /\ a.broadcasts = broadcasts /\ a.pairings \in {"None", "Current"}
      /\ Finished(store, image, a.store, k) /\ k \in {0, 1}
  BY <1>3, StageChanged DEF Complete, Partial
<1> HIDE DEF a, k, x
<1>6. /\ IsWorld(r) /\ r.server = "Running" /\ r.adv = adv /\ r.failed = "None"
      /\ r.image = image /\ r.broadcasts = broadcasts /\ r.pairings \in {"None", "Current"}
      /\ Finished(store, image, r.store, k) /\ r.outdated = x
  BY <1>5, OutdatedIs
<1> HIDE DEF r
<1>7. /\ World.server = "Idle" /\ World.adv = adv /\ World.image = image
      /\ World.broadcasts = broadcasts /\ World.store = store /\ World.outdated = outdated
  BY <1>1, WorldIs
<1>8. hardware = "IP" => adv.iid = 0
  BY InvIs, QuietIs
<1>9. CASE r.adv.iid = 0 \/ HasKey(r.store)
  <2>1. /\ Sound(hardware, u) /\ StoreKept(r.store, u.store)
        /\ u.adv.connected = r.adv.connected /\ u.broadcasts = r.broadcasts
    BY <1>2, <1>5, <1>6, <1>7, <1>9, StartedSound DEF u, x
  <2>2. u.failed = "None"
    BY <2>1 DEF Sound, AdvSound
  <2>3. Started(changed, r, u)
    BY <1>4, <2>1, <2>2 DEF Started
  <2> QED
    BY <1>4, <1>6, <2>3 DEF StartEnds, k
<1>10. CASE r.adv.iid # 0 /\ ~HasKey(r.store)
  <2>1. hardware = "BLE" /\ ~adv.connected /\ u = UpdateAdvertisingData(r, ok)
    BY <1>2, <1>6, <1>7, <1>8, <1>10 DEF Sound, ProcessSound, u
  <2>2. Works(r)
    BY <1>6 DEF Works
  <2>3. /\ IsWorld(u) /\ Aside(r, u)
        /\ u.failed = "GetAdvertisingParameters" /\ u.kept = r.store
    BY <1>6, <1>10, <2>1, <2>2, UpdateFails
  <2>4. r.outdated = TRUE
    <3>1. outdated \/ HasKey(store)
      BY <1>2, <1>6, <1>7, <1>10 DEF Sound, AdvSound
    <3>2. ~Updates(store, image) => (HasKey(r.store) <=> HasKey(store))
      BY <1>6, SameKey DEF Finished
    <3>3. x \in BOOLEAN /\ (outdated \/ Updates(store, image) => x)
      BY DEF x
    <3> QED
      BY <1>6, <1>10, <3>1, <3>2, <3>3
  <2>5. StartFails(r, u)
    BY <1>4, <1>10, <2>1, <2>3, <2>4 DEF StartFails
  <2> QED
    BY <1>4, <1>6, <2>5 DEF StartEnds, k
<1> QED
  BY <1>9, <1>10

LEMMA StartKeeps ==
    ASSUME IInv, NEW changed \in BOOLEAN, NEW ok \in BOOLEAN, Start(changed, ok)
    PROVE  IInv'
<1>1. /\ server = "Idle" /\ interrupted' = 0 /\ sent' = sent /\ asked' = asked
      /\ seen' = SeenAfterStart
  BY DEF Start
<1>2. /\ IsWorld(World) /\ Sound(hardware, World) /\ Configured(broadcasts, asked)
      /\ History(hardware, World, sent, seen, last, interrupted)
      /\ hardware \in {"BLE", "IP"} /\ StoreOK(store) /\ ListOK(broadcasts)
  BY InvIs
<1>3. PICK r, u : StartEnds(changed, r, u)
  BY StartIs
<1> DEFINE k == IF changed THEN 1 ELSE 0
<1>4. /\ IsWorld(r) /\ r.adv = adv /\ r.broadcasts = broadcasts
      /\ r.pairings \in {"None", "Current"}
      /\ Finished(store, image, r.store, k) /\ k \in {0, 1} /\ Becomes(u)
  BY <1>3 DEF StartEnds
<1> HIDE DEF k
<1>5. World.server = "Idle" /\ World.adv = adv /\ World.image = image /\ World.store = store
  BY <1>1, WorldIs
<1>6. ~adv.connected /\ image \in Images
  BY <1>2, <1>5 DEF Sound, ProcessSound
<1>7. NonceSound(r, sent, 0)
  BY <1>2, <1>4, <1>5, <1>6, NonceFinished
<1> DEFINE x == IF GSN(r.store) = GSN(store) THEN seen ELSE 0
<1>8. ToldSound(r, x) /\ x \in 0 .. UINT16_MAX
  <2>1. seen \in 0 .. UINT16_MAX /\ ToldSound(World, seen)
    BY <1>2 DEF History
  <2>2. \E m \in {0, 1} : Finished(store, image, r.store, m) /\ (m = 1 => TRUE)
    BY <1>4
  <2> QED
    BY <1>5, <1>6, <2>1, <2>2, ToldStarted
<1>9. sent \in [offset : Int, again : BOOLEAN]
  BY <1>2 DEF History
<1>10. NothingSeen.image = 0
  BY DEF NothingSeen
<1>11. History(hardware, r, sent', x, NothingSeen, 0)
  <2> HIDE DEF x
  <2> QED
    BY <1>1, <1>7, <1>8, <1>9, <1>10 DEF History, NumberSound, CutOffSound
<1>12. CASE Started(changed, r, u)
  <2>1. /\ Sound(hardware, u) /\ StoreKept(r.store, u.store)
        /\ u.adv.connected = r.adv.connected /\ u.broadcasts = r.broadcasts
        /\ last' = IF "CN" \notin DOMAIN u.store THEN last
                   ELSE [image |-> image, cn |-> Reported(hardware, u.store),
                         changed |-> changed]
    BY <1>12 DEF Started
  <2>2. store' = u.store /\ GSN(u.store) = GSN(r.store)
    <3>1. u.failed = "None"
      BY <2>1 DEF Sound, AdvSound
    <3> QED
      BY <1>4, <2>1, <3>1, SameState DEF Becomes, Outcome, StoreKept
  <2>3. seen' = x
    BY <1>1, <2>2 DEF SeenAfterStart
  <2>4. History(hardware, u, sent', seen', NothingSeen, 0)
    BY <1>4, <1>11, <2>1, <2>3, HistoryKept
  <2>5. /\ "Version" \in DOMAIN u.store /\ u.store["Version"] = image /\ StoreOK(u.store)
        /\ "CN" \in DOMAIN r.store => "CN" \in DOMAIN u.store
    BY <1>4, <2>1 DEF StoreKept, Program, Agree, Finished
  <2>6. History(hardware, u, sent', seen', last', 0)
    <3>1. CASE "CN" \in DOMAIN u.store
      <4>1. last'.image = u.store["Version"] /\ last'.cn = Reported(hardware, u.store)
        BY <2>1, <2>5, <3>1
      <4> QED
        BY <1>2, <2>4, <2>5, <3>1, <4>1, NumberPublished
    <3>2. CASE "CN" \notin DOMAIN u.store
      <4>1. "CN" \notin DOMAIN store
        BY <1>4, <2>5, <3>2 DEF Finished, Numbered
      <4>2. last = NothingSeen
        BY <1>2, <1>5, <4>1 DEF History, NumberSound
      <4> QED
        BY <2>1, <2>4, <3>2, <4>2
    <3> QED
      BY <3>1, <3>2
  <2> QED
    BY <1>1, <1>2, <1>4, <2>1, <2>6, StepKeeps
<1>13. CASE StartFails(r, u)
  <2>1. /\ r.outdated = TRUE /\ ~HasKey(r.store) /\ IsWorld(u) /\ u.kept = r.store
        /\ u.failed = "GetAdvertisingParameters" /\ last' = NothingSeen
        /\ u.broadcasts = broadcasts /\ u.pairings = r.pairings /\ u.outdated = TRUE
    BY <1>4, <1>13 DEF StartFails, Aside
  <2>2. store' = r.store
    BY <1>4, <2>1, EndsIs
  <2>3. seen' = x
    BY <1>1, <2>2 DEF SeenAfterStart
  <2>4. ASSUME NEW v, v.store = u.kept, v.adv = Quiet, v.server = "None"
        PROVE  History(hardware, v, sent', seen', last', interrupted')
    <3>1. GSN(v.store) = GSN(r.store) /\ ~HasKey(v.store) /\ r.adv.connected = adv.connected
      BY <1>4, <2>1, <2>4
    <3>2. NonceSound(v, sent, 0)
      BY <1>7, <3>1 DEF NonceSound
    <3>3. ToldSound(v, x)
      <4> HIDE DEF x
      <4> QED
        BY <1>6, <1>8, <3>1 DEF ToldSound
    <3>4. CutOffSound(v, 0)
      BY DEF CutOffSound
    <3> HIDE DEF x
    <3> QED
      BY <1>1, <1>8, <1>9, <1>10, <2>1, <2>3, <3>2, <3>3, <3>4 DEF History, NumberSound
  <2>5. StoreOK(u.kept) /\ u.pairings # "Stale" /\ u.pairings \in {"None", "Current", "Stale"}
    BY <1>4, <2>1 DEF IsWorld
  <2>6. Configured(u.broadcasts, asked')
    BY <1>1, <1>2, <2>1
  <2>7. u.failed \in {"DidRaiseEvent", "GetAdvertisingParameters"} /\ ~HasKey(u.kept)
        /\ ListOK(u.broadcasts)
    BY <1>2, <2>1
  <2> QED
    BY <1>4, <2>1, <2>4, <2>5, <2>6, <2>7, FailKeeps
<1> QED
  BY <1>3, <1>12, <1>13 DEF StartEnds

LEMMA PowerLossInStartKeeps ==
    ASSUME IInv, NEW changed \in BOOLEAN, PowerLossInStart(changed)
    PROVE  IInv'
<1>1. /\ server = "Idle" /\ interrupted = 0
      /\ ~IsDowngrade(store, image) /\ interrupted' = image
      /\ sent' = sent /\ asked' = asked /\ last' = last
  BY DEF PowerLossInStart
<1>2. changed => hardware = "IP"
  BY DEF PowerLossInStart
<1>3. /\ IsWorld(World) /\ Sound(hardware, World) /\ Configured(broadcasts, asked)
      /\ History(hardware, World, sent, seen, last, 0)
      /\ hardware \in {"BLE", "IP"} /\ StoreOK(store) /\ ListOK(broadcasts)
  BY <1>1, InvIs
<1>4. PICK n \in DOMAIN StartWrites(changed) : Becomes(Off(StartWrites(changed)[n]))
  BY DEF PowerLossInStart
<1> DEFINE z == StartWrites(changed)[n]
           u == Off(z)
<1>5. Partial(z, changed)
  BY <1>1, StartWritesAre
<1>6. Becomes(u) /\ seen' = SeenAfterStart
  BY <1>4 DEF PowerLossInStart
<1> HIDE DEF z
<1>7. /\ IsWorld(z) /\ z.broadcasts = broadcasts /\ z.adv = adv /\ z.failed = "None"
      /\ z.outdated = outdated
      /\ z.pairings \in {"None", "Current", "Stale"}
      /\ z.pairings = "Stale" => "LTSK" \notin DOMAIN z.store
  BY <1>5 DEF Partial
<1>8. \/ UnderWay(store, image, z.store)
      \/ \E k \in {0, 1} : Finished(store, image, z.store, k) /\ (k = 1 => changed)
  BY <1>5 DEF Partial
<1>9. /\ World.server = "Idle" /\ World.adv = adv
      /\ World.image = image /\ World.broadcasts = broadcasts /\ World.store = store
  BY <1>1, WorldIs
<1>10. ~adv.connected /\ image \in Images
  BY <1>3, <1>9 DEF Sound, ProcessSound
<1>13. HasKey(z.store) => HasKey(store)
  BY <1>8, SameKey DEF UnderWay, Finished
<1>11. Sound(hardware, u)
  <2>1. /\ outdated \in BOOLEAN /\ (outdated => ~HasKey(store))
        /\ hardware = "IP" => ~HasKey(store)
    BY InvIs
  <2>2. (z.outdated => ~HasKey(z.store)) /\ (hardware = "IP" => ~HasKey(z.store))
    BY <1>7, <1>13, <2>1
  <2> QED
    BY <1>3, <1>7, <2>1, <2>2, OffSound
<1>12. /\ u.store = z.store /\ u.broadcasts = broadcasts /\ u.failed = "None"
       /\ u.image = 0 /\ u.server = "None" /\ u.adv = Quiet
  BY <1>7, OffIs
<1> HIDE DEF u
<1>14. NonceSound(u, sent, image)
  <2>1. CASE UnderWay(store, image, z.store)
    <3>1. ~sent.again
      BY <1>3 DEF History, NonceSound
    <3> QED
      BY <1>9, <1>12, <2>1, <3>1, NonceUnderWay
  <2>2. ASSUME NEW k \in {0, 1}, Finished(store, image, z.store, k)
        PROVE  NonceSound(u, sent, image)
    BY <1>3, <1>9, <1>10, <1>12, <2>2, NonceFinished
  <2> QED
    BY <1>8, <2>1, <2>2
<1>15. ToldSound(u, seen') /\ seen' \in 0 .. UINT16_MAX
  <2> DEFINE x == IF GSN(u.store) = GSN(store) THEN seen ELSE 0
  <2>1. seen \in 0 .. UINT16_MAX /\ ToldSound(World, seen)
    BY <1>3 DEF History
  <2>2. ToldSound(u, x) /\ x \in 0 .. UINT16_MAX
    <3>1. \/ UnderWay(World.store, image, u.store)
          \/ \E k \in {0, 1} : Finished(World.store, image, u.store, k) /\ (k = 1 => changed)
      BY <1>8, <1>9, <1>12
    <3> HIDE DEF World
    <3> QED
      BY ZenonT(40), <1>9, <1>10, <2>1, <3>1, ToldStarted
  <2>3. store' = u.store
    BY <1>6, <1>12 DEF Becomes, Outcome
  <2>4. seen' = x
    BY <1>6, <2>3 DEF SeenAfterStart
  <2> QED
    BY <2>2, <2>4
<1>16. NumberSound(hardware, u, last, image)
  <2>1. NumberSound(hardware, World, last, 0)
    BY <1>3 DEF History
  <2> QED
    BY <1>1, <1>2, <1>3, <1>8, <1>9, <1>10, <1>12, <2>1, NumberCutOff
<1>17. CutOffSound(u, image)
  BY <1>12 DEF CutOffSound
<1>18. History(hardware, u, sent', seen', last', interrupted')
  <2>1. /\ sent \in [offset : Int, again : BOOLEAN] /\ last.image \in Images \cup {0}
    BY <1>3 DEF History
  <2> QED
    BY <1>1, <1>10, <1>14, <1>15, <1>16, <1>17, <2>1 DEF History
<1>19. Configured(u.broadcasts, asked')
  BY <1>1, <1>3, <1>12
<1> QED
  BY <1>6, <1>11, <1>18, <1>19, StepKeeps

-------------------------------------------------------------------------------
\* The theorems.

LEMMA FirstIsOK ==
    ASSUME NEW s \in FirstContents
    PROVE  StoreOK(s) /\ ~HasKey(s)
<1>1. /\ DOMAIN s \subseteq {"CN", "GSN", "Version", "LTSK"}
      /\ StoredCN(s) \in 1 .. UINT32_MAX
      /\ GSN(s) \in [gsn : 1 .. UINT16_MAX, didIncrement : BOOLEAN]
      /\ "Version" \in DOMAIN s => s["Version"] \in Images
  BY AdvertisingAssumption
<1>2. ~HasKey(s) /\ "Broadcast" \notin DOMAIN s
  BY <1>1 DEF HasKey, Broadcast, Stored
<1>3. "CN" \in DOMAIN s => s["CN"] = StoredCN(s)
  BY DEF StoredCN, Stored
<1>4. "GSN" \in DOMAIN s => s["GSN"] = GSN(s)
  BY DEF GSN, Stored
<1> QED
  BY <1>1, <1>2, <1>3, <1>4 DEF StoreOK, Keys, GSNs

LEMMA InitIs ==
    ASSUME Init
    PROVE  IInv
<1>1. /\ hardware \in {"BLE", "IP"} /\ store \in FirstContents /\ broadcasts = <<>>
      /\ pairings = "None" /\ image = 0 /\ server = "None" /\ adv = Quiet /\ failed = "None"
      /\ outdated = FALSE
  BY DEF Init
<1>2. /\ sent = [offset |-> 0, again |-> FALSE] /\ seen = 0
      /\ asked = [c \in Broadcastable |-> 0] /\ last = NothingSeen /\ interrupted = 0
  BY DEF Init
<1>3. StoreOK(store) /\ ~HasKey(store)
  BY <1>1, FirstIsOK
<1>4. IsWorld(World)
  BY <1>1, <1>3, QuietIs DEF IsWorld, World
<1> DEFINE w == World
<1>5. /\ w.store = store /\ w.broadcasts = <<>> /\ w.pairings = "None" /\ w.image = 0
      /\ w.server = "None" /\ w.adv = Quiet /\ w.failed = "None" /\ w.outdated = FALSE
  BY <1>1, WorldIs
<1> HIDE DEF w
<1>6. WorldOK(w)
  BY <1>4, <1>5, EmptyListOK DEF WorldOK, w
<1>7. AdvSound(w)
  BY <1>5, QuietAdvSound
<1>8. ProcessSound(hardware, w) /\ AirSound(hardware, w)
  BY <1>3, <1>5, QuietIs DEF ProcessSound, AirSound, OnAir
<1>9. History(hardware, w, sent, seen, last, interrupted)
  <2>1. sent.again = FALSE
    BY <1>2
  <2>2. sent \in [offset : Int, again : BOOLEAN] /\ last.image = 0 /\ UINT16_MAX \in Nat
    BY <1>2, StorageAssumption DEF NothingSeen
  <2>3. NonceSound(w, sent, 0)
    BY <1>3, <1>5, <2>1 DEF NonceSound
  <2>4. ToldSound(w, 0) /\ NumberSound(hardware, w, NothingSeen, 0) /\ CutOffSound(w, 0)
    BY DEF ToldSound, NumberSound, CutOffSound
  <2>5. 0 \in 0 .. UINT16_MAX
    BY <2>2
  <2> QED
    BY <1>2, <2>2, <2>3, <2>4, <2>5 DEF History
<1>10. Configured(broadcasts, asked)
  <2>1. ASSUME NEW c \in Broadcastable
        PROVE  BroadcastInterval(<<>>, c) = 0
    <3>1. \A i \in 1 .. Len(<<>>) : <<>>[i].cid # c
      OBVIOUS
    <3>2. c \in Nat
      BY AdvertisingAssumption
    <3> QED
      BY <3>1, <3>2, EmptyListOK, IntervalIs
  <2>2. asked \in [Broadcastable -> Intervals \cup {0}] /\ \A c \in Broadcastable : asked[c] = 0
    BY <1>2
  <2> QED
    BY <1>1, <2>1, <2>2 DEF Configured
<1>11. FailsOnlyWhenOutdated
  BY <1>1 DEF FailsOnlyWhenOutdated
<1> QED
  BY <1>1, <1>6, <1>7, <1>8, <1>9, <1>10, <1>11 DEF IInv, Sound, w

LEMMA StutterKeeps ==
    ASSUME IInv, UNCHANGED vars
    PROVE  IInv'
<1>1. /\ hardware' = hardware /\ store' = store /\ broadcasts' = broadcasts
      /\ pairings' = pairings /\ image' = image /\ server' = server /\ adv' = adv
      /\ air' = air /\ failed' = failed /\ outdated' = outdated
  BY DEF vars, persistent, process
<1>2. /\ sent' = sent /\ seen' = seen /\ asked' = asked /\ last' = last
      /\ interrupted' = interrupted
  BY DEF vars, history
<1>3. World' = World
  BY <1>1 DEF World
<1>4. FailsOnlyWhenOutdated'
  BY <1>1 DEF IInv, FailsOnlyWhenOutdated
<1> QED
  BY <1>1, <1>2, <1>3, <1>4 DEF IInv

LEMMA NextKeeps ==
    ASSUME IInv, [Next]_vars
    PROVE  IInv'
<1>1. ASSUME NEW i \in Images, Boot(i)
      PROVE  IInv'
  BY <1>1, BootKeeps
<1>2. ASSUME NEW changed \in BOOLEAN, NEW ok \in BOOLEAN, Start(changed, ok)
      PROVE  IInv'
  BY <1>2, StartKeeps
<1>3. CASE Stop \/ RestoreFactorySettings \/ RemoveAllPairings
  BY <1>3, StopKeeps, RestoreKeeps, RemoveAllKeeps
<1>4. CASE Connect \/ Pair \/ RemovePairing \/ GenerateKey
  BY <1>4, ConnectKeeps, PairKeeps, GenerateKeeps
<1>5. CASE SendEventNotification
  BY <1>5, SendKeeps
<1>6. ASSUME NEW ok \in BOOLEAN, Disconnect(ok) \/ AdvertisingTimer(ok) \/ FastTimer(ok)
      PROVE  IInv'
  BY <1>6, DisconnectKeeps, TimerKeeps
<1>7. ASSUME NEW c \in Notifying, NEW read \in BOOLEAN, NEW ok \in BOOLEAN,
             RaiseEvent(c, read, ok)
      PROVE  IInv'
  BY <1>7, RaiseKeeps
<1>8. ASSUME NEW c \in Broadcastable, NEW i \in Intervals \cup {0}, ConfigureBroadcast(c, i)
      PROVE  IInv'
  BY <1>8, ConfigureKeeps
<1>9. CASE PowerLoss \/ PowerLossInIncrement \/ PowerLossInReset
  BY <1>9, PowerLossKeeps, PowerLossInIncrementKeeps, PowerLossInResetKeeps
<1>10. ASSUME NEW changed \in BOOLEAN, PowerLossInStart(changed)
       PROVE  IInv'
  BY <1>10, PowerLossInStartKeeps
<1>11. CASE UNCHANGED vars
  BY <1>11, StutterKeeps
<1> QED
  BY <1>1, <1>2, <1>3, <1>4, <1>5, <1>6, <1>7, <1>8, <1>9, <1>10, <1>11 DEF Next

\* Whatever happens, and wherever power is lost, what the accessory keeps, what is on the
\* air and what was told before stay consistent.
THEOREM Invariance ==
    Spec => []IInv
<1>1. Init => IInv
  BY InitIs
<1>2. IInv /\ [Next]_vars => IInv'
  BY NextKeeps
<1> QED
  BY <1>1, <1>2, PTL DEF Spec

LEMMA StateSound ==
    ASSUME IInv
    PROVE  StateIsSound
<1>1. /\ Sound(hardware, World) /\ Configured(broadcasts, asked) /\ adv \in AdvStates
      /\ StoreOK(store) /\ ListOK(broadcasts) /\ hardware \in {"BLE", "IP"}
      /\ server \in {"None", "Idle", "Running", "Stopping"}
      /\ image \in Images \cup {0} /\ pairings \in {"None", "Current", "Stale"}
  BY InvIs
<1>2. StateTypeOK
  <2>1. DOMAIN store \subseteq {"CN", "GSN", "Broadcast", "Version", "LTSK"}
    BY <1>1 DEF StoreOK, Keys
  <2>2. /\ StoredCN(store) \in 1 .. UINT32_MAX /\ CN(store) \in 1 .. UINT16_MAX
        /\ ShortCN(store) \in 1 .. UINT8_MAX /\ GSN(store).gsn \in 1 .. UINT16_MAX
        /\ Broadcast(store).expiration \in 0 .. UINT16_MAX
    BY <1>1, StoreIs DEF GSNs
  <2>3. Len(broadcasts) <= BroadcastsPerKey
    BY <1>1 DEF ListOK
  <2> QED
    BY <1>1, <2>1, <2>2, <2>3 DEF StateTypeOK, AdvStates
<1>3. FailsOnlyWhenOutdated
  BY DEF IInv
<1>4. ConfiguredAsAsked
  BY <1>1 DEF ConfiguredAsAsked, Configured, ListOK, Ascending
<1>5. PairingsMatchKey
  BY <1>1, WorldIs DEF PairingsMatchKey, Sound, ProcessSound
<1> QED
  BY <1>2, <1>3, <1>4, <1>5 DEF StateIsSound

LEMMA ChangesAnnounced ==
    ASSUME IInv
    PROVE  ChangesAreAnnounced
<1>1. /\ Sound(hardware, World) /\ hardware \in {"BLE", "IP"}
      /\ ToldSound(World, seen) /\ AdvSound(World)
  BY InvIs DEF Sound, History
<1>2. AdvertisingIsCurrent
  <2>1. CASE hardware = "IP"
    <3>1. server = "Running" =>
              air = [kind |-> "Record", cn |-> CN(store), free |-> pairings = "None"]
      BY <1>1, <2>1, WorldIs DEF Sound, AirSound
    <3>2. SetHAPService(World).air =
              [kind |-> "Record", cn |-> CN(store), free |-> pairings = "None"]
      BY Zenon, WorldIs DEF SetHAPService, World
    <3> QED
      BY <2>1, <3>1, <3>2 DEF AdvertisingIsCurrent
  <2>2. CASE hardware = "BLE"
    <3>1. OnAir(World)
      BY <1>1, <2>2 DEF Sound, AirSound
    <3> DEFINE now == Advertised(World)
    <3> HIDE DEF now
    <3>2. server = "Running" =>
              /\ air.kind = now.kind
              /\ now.kind = "Event" => air = now
              /\ now.kind = "State" =>
                     air.gsn = now.gsn /\ air.cn = now.cn /\ (now.fast => air.fast)
      BY <3>1, WorldIs DEF OnAir, now
    <3>3. hardware # "IP"
      BY <2>2
    <3> QED
      BY <3>2, <3>3 DEF AdvertisingIsCurrent, now
  <2> QED
    BY <1>1, <2>1, <2>2
<1>3. EventsAreTimed
  BY <1>1, WorldIs DEF EventsAreTimed, AdvSound
<1>4. EventsAreTold
  BY <1>1, WorldIs DEF EventsAreTold, ToldSound
<1> QED
  BY <1>2, <1>3, <1>4 DEF ChangesAreAnnounced

LEMMA NoncesFresh ==
    ASSUME IInv
    PROVE  NoncesAreFresh
BY InvIs DEF History, NonceSound, NoncesAreFresh

\* What the accessory keeps is consistent after any sequence of connections, events,
\* updates, resets and power losses, resets and updates while an event is announced
\* included, and no assertion fails but for such an event, whose key is gone.
THEOREM StateAlwaysSound ==
    Spec => []StateIsSound
BY Invariance, StateSound, PTL

\* What is advertised is current, an event that is announced has a timer that takes it off
\* the air, and a central that was told the GSN sees another one after an event.
THEOREM ChangesAlwaysAnnounced ==
    Spec => []ChangesAreAnnounced
BY Invariance, ChangesAnnounced, PTL

\* No GSN is used twice under one broadcast key, through connections, power losses,
\* firmware updates and the wrap of the GSN.
THEOREM NoncesAlwaysFresh ==
    Spec => []NoncesAreFresh
BY Invariance, NoncesFresh, PTL

-------------------------------------------------------------------------------
\* The configuration number differs after every change.

LEMMA NumberedKept ==
    ASSUME NEW s, NEW t, NEW u, NEW k, Numbered(s, t, k), StoreKept(t, u)
    PROVE  Numbered(s, u, k)
BY DEF Numbered, StoreKept

\* A start that is over has numbered what changed since the number was published, however
\* many starts were cut off between.
LEMMA NumberDiffers ==
    ASSUME UINT16_MAX >= 5, NEW h \in {"BLE", "IP"}, NEW w, StoreOK(w.store), NEW l,
           l # NothingSeen, l.image \in Images \cup {0}, NEW j \in Images \cup {0}, NumberSound(h, w, l, j),
           NEW i \in Images, i >= j, ~IsDowngrade(w.store, i), NEW k \in {0, 1},
           k = 1 => h = "IP", k = 1 \/ l.image # i, NEW t,
           IF Updates(w.store, i) THEN Numbered(w.store, t, k + 1) ELSE Numbered(w.store, t, k)
    PROVE  Reported(h, t) # l.cn
<1> DEFINE n == Added(h, w.store, l)
           v == w.store["Version"]
           m == IF v < i THEN k + 1 ELSE k
<1>1. /\ l.cn \in 1 .. Modulus(h) /\ "CN" \in DOMAIN w.store /\ "Version" \in DOMAIN w.store
      /\ j = 0 => v = l.image /\ n = 0
      /\ j # 0 =>
             \/ v = l.image /\ l.image < j /\ n = 1
             \/ /\ v = j /\ l.image <= j
                /\ \/ n = IF l.image < j THEN 1 ELSE 0
                   \/ h = "IP" /\ n = (IF l.image < j THEN 1 ELSE 0) + 1
  BY DEF NumberSound
<1>2. \A x \in Images : x \in Nat /\ x # 0
  BY AdvertisingAssumption
<1>3. v \in Images /\ ~(v > i)
  BY <1>1 DEF StoreOK, IsDowngrade
<1>4. Modulus(h) \in Nat /\ Modulus(h) >= 3 /\ (h = "IP" => Modulus(h) >= 5)
  BY ModulusIs DEF Modulus
<1>5. Numbered(w.store, t, m)
  BY <1>1 DEF Updates
<1> HIDE DEF n, v
<1>6. m \in {0, 1, 2} /\ n + m < Modulus(h) /\ n + m # 0
  <2>1. v \in Nat /\ i \in Nat /\ j \in Nat /\ v <= i /\ j <= i
    BY <1>2, <1>3
  <2>6. l.image \in Nat
    BY <1>2
  <2>2. CASE j = 0
    BY <1>1, <1>4, <2>1, <2>2
  <2>3. CASE j # 0 /\ v = l.image /\ l.image < j /\ n = 1
    BY <1>4, <2>1, <2>3
  <2>4. CASE j # 0 /\ v = j /\ l.image <= j /\ n = IF l.image < j THEN 1 ELSE 0
    BY <1>4, <2>1, <2>4, <2>6
  <2>5. CASE j # 0 /\ v = j /\ h = "IP" /\ n = (IF l.image < j THEN 1 ELSE 0) + 1
    BY <1>4, <2>1, <2>5
  <2> QED
    BY <1>1, <2>2, <2>3, <2>4, <2>5
<1> HIDE DEF m
<1>7. Added(h, t, l) = n + m
  BY <1>1, <1>5, <1>6, AddedIs DEF n
<1>8. Distance(Modulus(h), l.cn, l.cn) = 0
  BY <1>1, <1>4, DistanceIs
<1> QED
  BY <1>6, <1>7, <1>8 DEF Added

LEMMA StartNumbers ==
    ASSUME UINT16_MAX >= 5, IInv, NEW changed \in BOOLEAN, NEW ok \in BOOLEAN,
           Start(changed, ok), last # NothingSeen, last' # NothingSeen,
           last'.image # last.image \/ (last' # last /\ last'.changed)
    PROVE  last'.cn # last.cn
<1>1. /\ server = "Idle" /\ ~IsDowngrade(store, image)
  BY DEF Start
<1>2. changed => hardware = "IP"
  BY DEF Start
<1>3. /\ Sound(hardware, World) /\ StoreOK(store) /\ hardware \in {"BLE", "IP"}
      /\ NumberSound(hardware, World, last, interrupted) /\ CutOffSound(World, interrupted)
      /\ interrupted \in Images \cup {0} /\ last.image \in Images \cup {0}
  BY InvIs DEF History
<1>4. /\ World.server = "Idle" /\ World.image = image /\ World.store = store
  BY <1>1, WorldIs
<1>5. image \in Images
  BY <1>3, <1>4 DEF Sound, ProcessSound
<1>6. image >= interrupted
  <2>1. interrupted # 0 => image >= interrupted
    BY <1>3, <1>4 DEF CutOffSound
  <2>2. image \in Nat
    BY <1>5, AdvertisingAssumption
  <2> QED
    BY <2>1, <2>2
<1>7. PICK r, u : StartEnds(changed, r, u)
  BY StartIs
<1> DEFINE k == IF changed THEN 1 ELSE 0
<1>15. Started(changed, r, u)
  BY <1>7 DEF StartEnds, StartFails
<1>8. /\ Finished(store, image, r.store, k) /\ StoreKept(r.store, u.store)
      /\ last' = [image |-> image, cn |-> Reported(hardware, u.store), changed |-> changed]
  <2>1. /\ Finished(store, image, r.store, k) /\ StoreKept(r.store, u.store)
    BY <1>7, <1>15 DEF StartEnds, Started
  <2>2. last' # last
    OBVIOUS
  <2> QED
    BY <1>15, <2>1, <2>2 DEF Started
<1>9. k \in {0, 1} /\ (k = 1 <=> changed)
  OBVIOUS
<1> HIDE DEF k
<1>10. /\ last'.image = image /\ last'.cn = Reported(hardware, u.store)
       /\ last'.changed = changed
  BY <1>8
<1>11. IF Updates(store, image) THEN Numbered(store, u.store, k + 1)
                                ELSE Numbered(store, u.store, k)
  BY <1>8, NumberedKept DEF Finished
<1>12. k = 1 \/ last.image # image
  BY <1>9, <1>10
<1>13. k = 1 => hardware = "IP"
  BY <1>2, <1>9
<1> DEFINE w == World
<1>14. /\ StoreOK(w.store) /\ NumberSound(hardware, w, last, interrupted)
       /\ ~IsDowngrade(w.store, image)
       /\ IF Updates(w.store, image) THEN Numbered(w.store, u.store, k + 1)
                                     ELSE Numbered(w.store, u.store, k)
  BY <1>1, <1>3, <1>4, <1>11
<1> HIDE DEF w
<1> QED
  BY <1>3, <1>5, <1>6, <1>9, <1>10, <1>12, <1>13, <1>14, NumberDiffers

\* The other actions publish no number.
LEMMA OthersPublishNothing ==
    ASSUME [Next]_vars, last' # NothingSeen,
           \A changed, ok \in BOOLEAN : ~Start(changed, ok)
    PROVE  last' = last
<1>1. NoHistory => last' = NothingSeen
  BY DEF NoHistory
<1> QED
  BY <1>1 DEF Next, vars, history, Boot, Stop, RestoreFactorySettings, RemoveAllPairings,
              Connect, Pair, RemovePairing, GenerateKey, SendEventNotification, Disconnect,
              AdvertisingTimer, FastTimer, RaiseEvent, ConfigureBroadcast, PowerLoss,
              PowerLossInIncrement, PowerLossInReset, PowerLossInStart

\* The configuration number that is published after a firmware update or a change of the
\* bridge differs from the one published before, however often the start was cut off; with
\* fewer than five numbers they could wrap to the one that was seen.
THEOREM ChangesAlwaysNumbered ==
    ASSUME UINT16_MAX >= 5
    PROVE  Spec => ChangesAreNumbered
<1> DEFINE Step == last # NothingSeen /\ last' # NothingSeen
                   /\ (last'.image # last.image \/ (last' # last /\ last'.changed))
                   => last'.cn # last.cn
<1>1. IInv /\ [Next]_vars => Step
  <2> SUFFICES ASSUME IInv, [Next]_vars, last # NothingSeen, last' # NothingSeen,
                      last'.image # last.image \/ (last' # last /\ last'.changed)
               PROVE  last'.cn # last.cn
    OBVIOUS
  <2>1. ASSUME NEW changed \in BOOLEAN, NEW ok \in BOOLEAN, Start(changed, ok)
        PROVE  last'.cn # last.cn
    BY <2>1, StartNumbers
  <2>2. CASE \A changed, ok \in BOOLEAN : ~Start(changed, ok)
    <3>1. last' = last
      BY <2>2, OthersPublishNothing
    <3> QED
      BY <3>1
  <2> QED
    BY <2>1, <2>2
<1>2. Spec => []IInv
  BY Invariance
<1> QED
  BY <1>1, <1>2, PTL DEF Spec, ChangesAreNumbered

===============================================================================
