----------------------- MODULE HAPPairingSessions_proofs -----------------------
(***************************************************************************)
(* Theorems about HAPPairingSessions, for any number of controllers,       *)
(* pairing slots, IP sessions and resume cache elements.  The last one is  *)
(* that it implements PairingList.                                         *)
(***************************************************************************)
EXTENDS HAPPairingSessions, TLAPS, FiniteSetTheorems

-------------------------------------------------------------------------------
(* What the operators of HAPPairing preserve: pairing lists stay pairing       *)
(* lists, no identifier is stored twice, and a list that is changed by an      *)
(* admin is empty afterwards or still has an admin.                            *)

Unique(store) ==
    \A j, k \in DOMAIN store : store[j].id = store[k].id => j = k

\* A request to add a pairing.
IsAdd(m) == m.id \in Controllers /\ m.admin \in BOOLEAN

-------------------------------------------------------------------------------
\* A store is one of a domain if its keys and its values are.
LEMMA KVSDomainIntro ==
    ASSUME NEW K, NEW V, NEW D \in SUBSET K, NEW f \in [D -> V]
    PROVE  f \in KVSDomain(K, V)
BY DEF KVSDomain

LEMMA KVSDomainElim ==
    ASSUME NEW K, NEW V, NEW f \in KVSDomain(K, V)
    PROVE  /\ DOMAIN f \subseteq K
           /\ f \in [DOMAIN f -> V]
<1>1. PICK D \in SUBSET K : f \in [D -> V]
  BY DEF KVSDomain
<1>2. DOMAIN f = D
  BY <1>1
<1> QED
  BY <1>1, <1>2

\* HAPPlatformKeyValueStoreSet keeps a store in its domain.
LEMMA KVSSetType ==
    ASSUME NEW K, NEW V, NEW f \in KVSDomain(K, V), NEW k \in K, NEW v \in V
    PROVE  KVSSet(f, k, v) \in KVSDomain(K, V)
<1>1. DOMAIN f \subseteq K /\ f \in [DOMAIN f -> V]
  BY KVSDomainElim
<1>2. KVSSet(f, k, v) \in [DOMAIN f \cup {k} -> V]
  BY <1>1 DEF KVSSet
<1> QED
  BY <1>1, <1>2, KVSDomainIntro

\* So does leaving some keys out.
LEMMA KVSRestrictType ==
    ASSUME NEW K, NEW V, NEW f \in KVSDomain(K, V), NEW D \in SUBSET DOMAIN f
    PROVE  KVSRestrict(f, D) \in KVSDomain(K, V)
<1>1. DOMAIN f \subseteq K /\ f \in [DOMAIN f -> V]
  BY KVSDomainElim
<1>2. KVSRestrict(f, D) \in [D -> V]
  BY <1>1 DEF KVSRestrict
<1> QED
  BY <1>1, <1>2, KVSDomainIntro

LEMMA KVSRemoveType ==
    ASSUME NEW K, NEW V, NEW f \in KVSDomain(K, V), NEW k
    PROVE  KVSRemove(f, k) \in KVSDomain(K, V)
BY KVSRestrictType DEF KVSRemove

LEMMA KVSPurgedType ==
    ASSUME NEW K, NEW V
    PROVE  KVSPurged \in KVSDomain(K, V) /\ DOMAIN KVSPurged = {}
<1>1. KVSPurged \in [{} -> V] /\ DOMAIN KVSPurged = {}
  BY DEF KVSPurged
<1> QED
  BY <1>1, KVSDomainIntro

LEMMA KVSPartlyPurgedType ==
    ASSUME NEW K, NEW V, NEW f \in KVSDomain(K, V), NEW g \in KVSPartlyPurged(f)
    PROVE  g \in KVSDomain(K, V)
BY KVSRestrictType DEF KVSPartlyPurged

-------------------------------------------------------------------------------
LEMMA PairingStoreElim ==
    ASSUME NEW store \in PairingStores
    PROVE  /\ DOMAIN store \subseteq Slots
           /\ \A k \in DOMAIN store : /\ store[k].id \in Controllers
                                      /\ store[k].admin \in BOOLEAN
<1>1. DOMAIN store \subseteq Slots /\ store \in [DOMAIN store -> Pairing]
  BY KVSDomainElim DEF PairingStores
<1> QED
  BY <1>1 DEF Pairing

\* Of a restricted list, what is left is unchanged.
LEMMA RestrictedList ==
    ASSUME NEW store \in PairingStores, NEW D \in SUBSET DOMAIN store, Unique(store)
    PROVE  /\ KVSRestrict(store, D) \in PairingStores
           /\ Unique(KVSRestrict(store, D))
           /\ AdminFound(KVSRestrict(store, D)) => AdminFound(store)
<1>1. KVSRestrict(store, D) \in PairingStores
  BY KVSRestrictType DEF PairingStores
<1>2. DOMAIN KVSRestrict(store, D) = D /\ \A k \in D : KVSRestrict(store, D)[k] = store[k]
  BY DEF KVSRestrict
<1> QED
  BY <1>1, <1>2 DEF Unique, AdminFound

LEMMA PurgedList ==
    /\ KVSPurged \in PairingStores
    /\ Unique(KVSPurged)
    /\ ~IsPaired(KVSPurged)
    /\ ~AdminFound(KVSPurged)
BY KVSPurgedType DEF PairingStores, Unique, IsPaired, AdminFound

LEMMA PartlyPurgedList ==
    ASSUME NEW store \in PairingStores, Unique(store), NEW g \in KVSPartlyPurged(store)
    PROVE  g \in PairingStores /\ Unique(g)
BY RestrictedList DEF KVSPartlyPurged

\* HAPAccessoryServerCleanupPairings leaves a list with an admin or an empty one.
LEMMA CleanList ==
    ASSUME NEW store \in PairingStores, Unique(store)
    PROVE  /\ CleanupPairings(store) \in PairingStores
           /\ Unique(CleanupPairings(store))
           /\ IsPaired(CleanupPairings(store)) => AdminFound(CleanupPairings(store))
BY PurgedList DEF CleanupPairings

\* HAPPairingFind, when it finds something, finds it under a key of the list.
LEMMA FoundKey ==
    ASSUME NEW store, NEW id, HAPPairingFind(store, id) # {}
    PROVE  /\ PairingKey(store, id) \in DOMAIN store
           /\ store[PairingKey(store, id)].id = id
<1>1. PairingKey(store, id) \in HAPPairingFind(store, id)
  BY DEF PairingKey
<1> QED
  BY <1>1 DEF HAPPairingFind

LEMMA FreeKey ==
    ASSUME NEW store, FreeSlot(store) # {}
    PROVE  (CHOOSE k \in FreeSlot(store) : TRUE) \in Slots \ DOMAIN store
<1>1. (CHOOSE k \in FreeSlot(store) : TRUE) \in FreeSlot(store)
  OBVIOUS
<1> QED
  BY <1>1 DEF FreeSlot

-------------------------------------------------------------------------------
\* Add Pairing M1, before and after its clean-up, keeps the list a pairing list
\* without duplicates.
LEMMA AddPairingSetList ==
    ASSUME NEW store \in PairingStores, Unique(store), NEW m, IsAdd(m)
    PROVE  /\ AddPairingSet(store, m) \in PairingStores
           /\ Unique(AddPairingSet(store, m))
<1>1. CASE AddRefused(store, m)
  BY <1>1 DEF AddPairingSet
<1>2. CASE ~AddRefused(store, m)
  <2> DEFINE key == IF AddUpdates(store, m) THEN PairingKey(store, m.id)
                                            ELSE CHOOSE k \in FreeSlot(store) : TRUE
             new == [id |-> m.id, admin |-> m.admin]
  <2>1. AddPairingSet(store, m) = KVSSet(store, key, new)
    BY <1>2 DEF AddPairingSet
  <2>2. new \in Pairing
    BY DEF IsAdd, Pairing
  <2>3. key \in Slots /\ \A k \in DOMAIN store : store[k].id = m.id => k = key
    <3>1. CASE AddUpdates(store, m)
      BY <3>1, FoundKey, PairingStoreElim DEF AddUpdates, Unique
    <3>2. CASE ~AddUpdates(store, m)
      BY <1>2, <3>2, FreeKey DEF AddRefused, AddCreates, HAPPairingFind
    <3> QED
      BY <3>1, <3>2
  <2> HIDE DEF key
  <2>4. KVSSet(store, key, new) \in PairingStores
    BY <2>2, <2>3, KVSSetType DEF PairingStores
  <2>5. Unique(KVSSet(store, key, new))
    BY <2>3 DEF KVSSet, Unique
  <2> QED
    BY <2>1, <2>4, <2>5
<1> QED
  BY <1>1, <1>2

\* A new pairing takes nobody's admin bit away.
LEMMA AddCreatesAdmin ==
    ASSUME NEW store \in PairingStores, NEW m, ~AddUpdates(store, m), AdminFound(store)
    PROVE  AdminFound(AddPairingSet(store, m))
<1>1. CASE AddRefused(store, m)
  BY <1>1 DEF AddPairingSet
<1>2. CASE ~AddRefused(store, m)
  <2> DEFINE key == CHOOSE k \in FreeSlot(store) : TRUE
             new == [id |-> m.id, admin |-> m.admin]
  <2>1. AddPairingSet(store, m) = KVSSet(store, key, new)
    BY <1>2 DEF AddPairingSet
  <2>2. key \notin DOMAIN store
    BY <1>2, FreeKey DEF AddRefused, AddCreates
  <2> HIDE DEF key
  <2>3. AdminFound(KVSSet(store, key, new))
    BY <2>2 DEF KVSSet, AdminFound
  <2> QED
    BY <2>1, <2>3
<1> QED
  BY <1>1, <1>2

LEMMA AddPairingList ==
    ASSUME NEW store \in PairingStores, Unique(store), AdminFound(store), NEW m, IsAdd(m)
    PROVE  /\ AddPairing(store, m) \in PairingStores
           /\ Unique(AddPairing(store, m))
           /\ IsPaired(AddPairing(store, m)) => AdminFound(AddPairing(store, m))
<1>1. CASE AddUpdates(store, m)
  BY <1>1, AddPairingSetList, CleanList DEF AddPairing
<1>2. CASE ~AddUpdates(store, m)
  BY <1>2, AddPairingSetList, AddCreatesAdmin DEF AddPairing
<1> QED
  BY <1>1, <1>2

\* Remove Pairing M2, before and after its clean-up.
LEMMA RemovePairingKeyList ==
    ASSUME NEW store \in PairingStores, Unique(store), NEW id
    PROVE  /\ RemovePairingKey(store, id) \in PairingStores
           /\ Unique(RemovePairingKey(store, id))
<1>1. KVSRemove(store, PairingKey(store, id)) \in PairingStores
      /\ Unique(KVSRemove(store, PairingKey(store, id)))
  BY RestrictedList DEF KVSRemove
<1> QED
  BY <1>1 DEF RemovePairingKey

LEMMA RemovePairingList ==
    ASSUME NEW store \in PairingStores, Unique(store), AdminFound(store), NEW id
    PROVE  /\ RemovePairing(store, id) \in PairingStores
           /\ Unique(RemovePairing(store, id))
           /\ IsPaired(RemovePairing(store, id)) => AdminFound(RemovePairing(store, id))
BY RemovePairingKeyList, CleanList DEF RemovePairing

\* The first pairing.
LEMMA FirstPairingList ==
    ASSUME PairingAssumption, NEW store \in PairingStores, ~IsPaired(store),
           NEW c \in Controllers
    PROVE  /\ KVSSet(store, 0, [id |-> c, admin |-> TRUE]) \in PairingStores
           /\ Unique(KVSSet(store, 0, [id |-> c, admin |-> TRUE]))
           /\ AdminFound(KVSSet(store, 0, [id |-> c, admin |-> TRUE]))
<1> DEFINE first == KVSSet(store, 0, [id |-> c, admin |-> TRUE])
<1>1. DOMAIN first = {0} /\ first[0] = [id |-> c, admin |-> TRUE]
  BY DEF KVSSet, IsPaired
<1>2. 0 \in Slots /\ [id |-> c, admin |-> TRUE] \in Pairing
  BY DEF PairingAssumption, Slots, Pairing
<1>3. first \in PairingStores
  BY <1>2, KVSSetType DEF PairingStores
<1>4. first[0].admin
  BY <1>1
<1>5. Unique(first) /\ AdminFound(first)
  BY <1>1, <1>4 DEF Unique, AdminFound
<1> QED
  BY <1>3, <1>5

-------------------------------------------------------------------------------
(* The sessions.                                                               *)

Caches == KVSDomain(CacheElements, CacheEntry)

\* A Pair Verify procedure that is about to start the session knows its pairing.
Ready(v) == StartsSession(v) => v.pairingID \in Slots /\ v.peer \in Controllers

ReadySessions == {x \in SessionStates : Ready(x.verify)}

\* The inductive invariant.
ListInv == pairings \in PairingStores /\ Unique(pairings) /\ AdminExists
SessionInv == session \in [Sessions -> ReadySessions]

IInv ==
    /\ running \in BOOLEAN
    /\ failed \in Failures
    /\ ListInv
    /\ cache \in Caches
    /\ SessionInv

-------------------------------------------------------------------------------
\* Pair Verify.

LEMMA SlotsExist == 0 \in Slots /\ \A k \in Slots : k \in Nat
BY PairingAssumption DEF Slots

LEMMA ReleasedType ==
    /\ Released \in ReadySessions
    /\ \A l \in {"Reading", "Connected", "Terminal"} : NewSession(l) \in ReadySessions
    /\ VerifyReset \in VerifyStates /\ Ready(VerifyReset)
    /\ PairingsReset \in RequestStates
BY SlotsExist DEF Released, ReadySessions, SessionStates, Ready, StartsSession,
   NewSession, VerifyReset, VerifyIn, PairingsReset, NoSession, NoProcedure, HapStates, VerifyStates,
   RequestStates, ProcedureStates

LEMMA CacheElim ==
    ASSUME cache \in Caches, NEW e \in DOMAIN cache
    PROVE  cache[e].pairingID \in Slots /\ cache[e].peer \in Controllers
<1>1. DOMAIN cache \subseteq CacheElements /\ cache \in [DOMAIN cache -> CacheEntry]
  BY KVSDomainElim DEF Caches
<1> QED
  BY <1>1 DEF CacheEntry

LEMMA VerifyMessageType ==
    ASSUME NEW m \in VerifyMessages
    PROVE  /\ m.type \in {"Start", "Malformed", "Finish", "Resume"}
           /\ m.type = "Finish" => m.id \in Controllers /\ m.valid \in BOOLEAN
           /\ m.type = "Resume" => m.element \in CacheElements /\ m.valid \in BOOLEAN
BY DEF VerifyMessages

LEMMA VerifyWriteType ==
    ASSUME pairings \in PairingStores, cache \in Caches,
           NEW s \in Sessions, NEW v \in VerifyStates, NEW m \in VerifyMessages
    PROVE  /\ AfterVerifyWrite(s, v, m) \in VerifyStates
           /\ Ready(AfterVerifyWrite(s, v, m))
<1> USE VerifyMessageType
<1>1. CASE m.type = "Resume" /\ s \in BLESessions /\ m.element \in DOMAIN cache
  <2>1. AfterVerifyWrite(s, v, m) = Resumed(cache[m.element], m)
    BY <1>1 DEF AfterVerifyWrite
  <2>2. cache[m.element].pairingID \in Slots /\ cache[m.element].peer \in Controllers
    BY <1>1, CacheElim
  <2> QED
    BY <1>1, <2>1, <2>2 DEF Resumed, VerifyStates, Ready, StartsSession
<1>2. CASE m.type = "Start" \/ (m.type = "Resume" /\ s \in BLESessions
                                               /\ m.element \notin DOMAIN cache)
  <2>1. AfterVerifyWrite(s, v, m) = VerifyIn(1)
    BY <1>2 DEF AfterVerifyWrite
  <2> QED
    BY <2>1 DEF VerifyIn, VerifyStates, Ready, StartsSession
<1>3. CASE m.type = "Finish" /\ v.state = 2
  <2>1. AfterVerifyWrite(s, v, m) = Finished(v, m)
    BY <1>3 DEF AfterVerifyWrite
  <2>2. CASE HAPPairingFind(pairings, m.id) = {}
    <3>1. Finished(v, m) = [state |-> 3, method |-> v.method, error |-> TRUE,
                            pairingID |-> v.pairingID, peer |-> v.peer]
      BY <2>2 DEF Finished
    <3> QED
      BY <2>1, <3>1 DEF VerifyStates, Ready, StartsSession
  <2>3. CASE HAPPairingFind(pairings, m.id) # {}
    <3>1. PairingKey(pairings, m.id) \in Slots
      BY <2>3, FoundKey, PairingStoreElim
    <3> QED
      BY <1>3, <2>1, <2>3, <3>1 DEF Finished, VerifyStates, Ready, StartsSession
  <2> QED
    BY <2>2, <2>3
<1>4. CASE /\ ~(m.type = "Resume" /\ s \in BLESessions)
           /\ m.type # "Start"
           /\ ~(m.type = "Finish" /\ v.state = 2)
  <2>1. AfterVerifyWrite(s, v, m) = VerifyReset
    BY <1>4 DEF AfterVerifyWrite
  <2> QED
    BY <2>1, ReleasedType
<1> QED
  BY <1>1, <1>2, <1>3, <1>4

LEMMA VerifyReadType ==
    ASSUME NEW v \in VerifyStates, Ready(v), NEW hap \in HapStates
    PROVE  /\ AfterVerifyRead(v) \in VerifyStates
           /\ Ready(AfterVerifyRead(v))
           /\ HapAfterVerifyRead(hap, v) \in HapStates
<1>1. AfterVerifyRead(v) \in VerifyStates /\ Ready(AfterVerifyRead(v))
  BY ReleasedType DEF AfterVerifyRead, VerifyIn, VerifyStates, Ready, StartsSession
<1>2. HapAfterVerifyRead(hap, v) \in HapStates
  BY DEF HapAfterVerifyRead, HapStates, Ready
<1> QED
  BY <1>1, <1>2

LEMMA CacheAfterVerifyWriteType ==
    ASSUME cache \in Caches, NEW s, NEW m
    PROVE  CacheAfterVerifyWrite(s, m) \in Caches
BY KVSRemoveType DEF CacheAfterVerifyWrite, Caches

LEMMA CachesAfterVerifyReadType ==
    ASSUME NEW s, NEW store \in Caches, NEW v \in VerifyStates, Ready(v),
           NEW c \in CachesAfterVerifyRead(s, store, v)
    PROVE  c \in Caches
<1> DEFINE entry == [pairingID |-> v.pairingID, peer |-> v.peer]
<1>1. CASE StartsSession(v) /\ s \in BLESessions
  <2>1. entry \in CacheEntry
    BY <1>1 DEF Ready, CacheEntry
  <2>2. PICK e \in CacheElements : c = KVSSet(store, e, entry)
    BY <1>1 DEF CachesAfterVerifyRead, CachesAfterSave
  <2> QED
    BY <2>1, <2>2, KVSSetType DEF Caches
<1>2. CASE ~(StartsSession(v) /\ s \in BLESessions)
  BY <1>2 DEF CachesAfterVerifyRead
<1> QED
  BY <1>1, <1>2

-------------------------------------------------------------------------------
\* Updates of a session.
LEMMA UpdateSession ==
    ASSUME NEW x \in ReadySessions
    PROVE  /\ \A l \in {"Reading", "Writing", "Connected"} :
                [x EXCEPT !.link = l] \in ReadySessions
           /\ \A b \in BOOLEAN : [x EXCEPT !.isSecured = b] \in ReadySessions
           /\ \A q \in RequestStates : [x EXCEPT !.request = q] \in ReadySessions
           /\ \A p \in ProcedureStates : [x EXCEPT !.procedure = p] \in ReadySessions
           /\ \A v \in VerifyStates :
                Ready(v) => [x EXCEPT !.verify = v] \in ReadySessions
           /\ \A v \in VerifyStates, h \in HapStates :
                Ready(v) => [x EXCEPT !.verify = v, !.hap = h] \in ReadySessions
BY DEF ReadySessions, SessionStates

LEMMA SessionUpdated ==
    ASSUME SessionInv, NEW s \in Sessions, NEW x \in ReadySessions,
           session' = [session EXCEPT ![s] = x]
    PROVE  SessionInv'
BY DEF SessionInv

LEMMA RespondsUpdates ==
    ASSUME SessionInv, NEW s, NEW x \in ReadySessions, NEW store, Responds(s, x, store)
    PROVE  SessionInv'
BY ReleasedType, UpdateSession DEF SessionInv, Responds

LEMMA RespondsErrorUpdates ==
    ASSUME SessionInv, NEW s \in Sessions, NEW x \in ReadySessions, RespondsError(s, x)
    PROVE  SessionInv'
BY SessionUpdated, UpdateSession DEF RespondsError

LEMMA CompletesUpdates ==
    ASSUME SessionInv, NEW s \in Sessions, NEW x \in ReadySessions, NEW store,
           Completes(s, x, store)
    PROVE  SessionInv'
<1>1. NoProcedure \in ProcedureStates
  BY DEF NoProcedure, ProcedureStates
<1>2. [x EXCEPT !.procedure = NoProcedure] \in ReadySessions
  BY <1>1, UpdateSession
<1> QED
  BY <1>2, ReleasedType, SessionUpdated DEF Completes, Terminal

LEMMA HaltUpdates ==
    ASSUME Halt
    PROVE  running' = FALSE /\ SessionInv' /\ cache' \in Caches
BY ReleasedType, KVSPurgedType DEF Halt, SessionInv, Caches

-------------------------------------------------------------------------------
\* The Pairings procedure.

LEMMA PairingsMessageType ==
    ASSUME NEW m \in PairingsMessages
    PROVE  /\ m.method \in {"List", "Malformed", "Add", "Remove"}
           /\ m.method = "Add" => IsAdd(m)
           /\ m.method = "Remove" => m.id \in Controllers
BY DEF PairingsMessages, IsAdd

LEMMA RequestType ==
    ASSUME NEW hap \in HapStates, NEW q \in RequestStates, NEW m \in PairingsMessages
    PROVE  AfterPairingsWrite(hap, q, m) \in RequestStates
BY PairingsMessageType, ReleasedType DEF AfterPairingsWrite, RequestStates

\* The pairing list of a running accessory.
Settled(store) ==
    /\ store \in PairingStores
    /\ Unique(store)
    /\ IsPaired(store) => AdminFound(store)

\* A request that passes the admin check finds an admin in the list, its own.
LEMMA AdminInFound ==
    ASSUME NEW hap, NEW store, AdminIn(hap, store)
    PROVE  AdminFound(store)
BY DEF AdminIn, SecuredIn, AdminFound

LEMMA ListAfterWriteSettled ==
    ASSUME Settled(pairings), NEW hap, NEW q, NEW m \in PairingsMessages
    PROVE  Settled(ListAfterWrite(hap, q, m))
<1>1. CASE Adds(hap, q, m)
  <2>1. AdminFound(pairings) /\ IsAdd(m)
    BY <1>1, AdminInFound, PairingsMessageType DEF Adds
  <2> QED
    BY <1>1, <2>1, AddPairingList DEF ListAfterWrite, Settled
<1>2. CASE ~Adds(hap, q, m)
  BY <1>2 DEF ListAfterWrite
<1> QED
  BY <1>1, <1>2

LEMMA ListAfterReadSettled ==
    ASSUME NEW store, Settled(store), NEW hap, NEW q
    PROVE  Settled(ListAfterRead(hap, q, store))
<1>1. CASE Removes(hap, q, store)
  <2>1. AdminFound(store)
    BY <1>1, AdminInFound DEF Removes
  <2> QED
    BY <1>1, <2>1, RemovePairingList DEF ListAfterRead, Settled
<1>2. CASE ~Removes(hap, q, store)
  BY <1>2 DEF ListAfterRead
<1> QED
  BY <1>1, <1>2

LEMMA CacheAfterCleanupType ==
    ASSUME NEW elements \in Caches, NEW store
    PROVE  CacheAfterCleanup(elements, store) \in Caches
BY KVSPurgedType DEF CacheAfterCleanup, Caches

LEMMA CacheAfterWriteType ==
    ASSUME cache \in Caches, NEW hap, NEW q, NEW m
    PROVE  CacheAfterWrite(hap, q, m) \in Caches
BY CacheAfterCleanupType DEF CacheAfterWrite

LEMMA CacheAfterReadType ==
    ASSUME NEW elements \in Caches, NEW hap, NEW q, NEW store
    PROVE  CacheAfterRead(hap, q, store, elements) \in Caches
<1>1. WithoutPairing(elements, PairingKey(store, q.removed)) \in Caches
  BY KVSRestrictType DEF WithoutPairing, Caches
<1> QED
  BY <1>1, CacheAfterCleanupType DEF CacheAfterRead

-------------------------------------------------------------------------------
\* The invariant is kept by every action.

LEMMA RunningList ==
    ASSUME IInv, running
    PROVE  Settled(pairings)
BY DEF IInv, ListInv, AdminExists, Settled

\* Most actions end the run, or change the list to a settled one.
LEMMA SettledInv ==
    ASSUME IInv, running' = running, failed' = failed,
           Settled(pairings'), cache' \in Caches, SessionInv'
    PROVE  IInv'
BY DEF IInv, ListInv, AdminExists, Settled

LEMMA HaltInv ==
    ASSUME Halt, failed' \in Failures, pairings' \in PairingStores, Unique(pairings')
    PROVE  IInv'
BY HaltUpdates DEF IInv, ListInv, AdminExists

LEMMA FailInv ==
    ASSUME IInv, NEW assertion \in Failures, Fail(assertion)
    PROVE  IInv'
BY HaltInv DEF Fail, IInv, ListInv

LEMMA PurgeInv ==
    ASSUME IInv, NEW store \in PairingStores, Unique(store), PowerLossInPurge(store)
    PROVE  IInv'
BY HaltInv, PartlyPurgedList DEF PowerLossInPurge, IInv

LEMMA InitInv == Init => IInv
BY PurgedList, KVSPurgedType, ReleasedType
   DEF Init, IInv, ListInv, AdminExists, SessionInv, Failures, Caches

LEMMA ServerInv ==
    ASSUME IInv, ServerNext
    PROVE  IInv'
<1>1. CASE Start
  <2>1. /\ pairings' \in PairingStores /\ Unique(pairings')
        /\ IsPaired(pairings') => AdminFound(pairings')
    BY <1>1, CleanList DEF Start, IInv, ListInv
  <2>2. cache' \in Caches
    BY <1>1, CacheAfterCleanupType DEF Start, IInv
  <2> QED
    BY <1>1, <2>1, <2>2 DEF Start, IInv, ListInv, AdminExists, SessionInv, Failures
<1>2. CASE Stop
  BY <1>2 DEF Stop, IInv, ListInv, AdminExists, SessionInv
<1>3. CASE PowerOff
  BY <1>3, HaltInv DEF PowerOff, IInv, ListInv
<1>4. CASE HAPRemoveAllPairings
  BY <1>4, PurgedList DEF HAPRemoveAllPairings, IInv, ListInv, AdminExists, SessionInv
<1>5. CASE PowerLossInRemoveAllPairings
  BY <1>5, HaltInv, PartlyPurgedList DEF PowerLossInRemoveAllPairings, IInv, ListInv
<1> QED
  BY <1>1, <1>2, <1>3, <1>4, <1>5 DEF ServerNext

LEMMA CutOffInv ==
    ASSUME IInv, running, NEW hap, NEW q, NEW m \in PairingsMessages,
           AddCutOff(hap, q, m) \/ RemoveCutOff(hap, q)
    PROVE  IInv'
<1>1. CASE AddCutOff(hap, q, m)
  BY <1>1, RunningList, PairingsMessageType, AddPairingSetList, PurgeInv
     DEF AddCutOff, Adds, Settled
<1>2. CASE RemoveCutOff(hap, q)
  BY <1>2, RunningList, RemovePairingKeyList, PurgeInv DEF RemoveCutOff, Settled
<1> QED
  BY <1>1, <1>2

LEMMA IPInv ==
    ASSUME IInv, NEW s \in Sessions, IPNext(s)
    PROVE  IInv'
<1> DEFINE x == session[s]
<1>0. x \in ReadySessions /\ x.hap \in HapStates /\ x.verify \in VerifyStates
      /\ Ready(x.verify) /\ SessionInv
  BY DEF IInv, SessionInv, ReadySessions, SessionStates
<1>1. CASE IPAccept(s)
  <2>1. SessionInv'
    BY <1>0, <1>1, SessionUpdated, ReleasedType DEF IPAccept
  <2> QED
    BY <1>1, <2>1, RunningList, SettledInv DEF IPAccept, IInv
<1>2. CASE IPClose(s)
  <2>1. SessionInv'
    BY <1>0, <1>2, SessionUpdated, ReleasedType DEF IPClose
  <2> QED
    BY <1>2, <2>1, RunningList, SettledInv DEF IPClose, IInv
<1>3. CASE IPWriteCompletes(s)
  <2>1. SessionInv'
    BY <1>0, <1>3, SessionUpdated, UpdateSession, ReleasedType DEF IPWriteCompletes
  <2> QED
    BY <1>3, <2>1, RunningList, SettledInv DEF IPWriteCompletes, IInv
<1>4. CASE IPInputFails(s)
  BY <1>4, FailInv DEF IPInputFails, Failures
<1>5. CASE IPPairVerifyFails(s)
  BY <1>5, FailInv DEF IPPairVerifyFails, Failures
<1>6. ASSUME NEW secured \in BOOLEAN, IPOtherRequest(s, secured)
      PROVE  IInv'
  <2>1. SessionInv'
    BY <1>0, <1>6, RespondsErrorUpdates, UpdateSession DEF IPOtherRequest
  <2> QED
    BY <1>6, <2>1, RunningList, SettledInv DEF IPOtherRequest, IPReceives, IPReads, IInv
<1>7. ASSUME NEW c \in Controllers, IPPairSetup(s, c)
      PROVE  IInv'
  <2>1. SessionInv'
    BY <1>0, <1>7, RespondsUpdates DEF IPPairSetup
  <2>2. Settled(pairings')
    BY <1>7, FirstPairingList, PairingAssumption DEF IPPairSetup, IInv, ListInv, Settled
  <2> QED
    BY <1>7, <2>1, <2>2, SettledInv DEF IPPairSetup, IInv
<1>8. ASSUME NEW m \in VerifyMessages, IPPairVerify(s, m)
      PROVE  IInv'
  <2> DEFINE v == AfterVerifyWrite(s, x.verify, m)
  <2>1. v \in VerifyStates /\ Ready(v)
    BY <1>0, VerifyWriteType DEF IInv, ListInv
  <2>2. /\ AfterVerifyRead(v) \in VerifyStates /\ Ready(AfterVerifyRead(v))
        /\ HapAfterVerifyRead(x.hap, v) \in HapStates
    BY <1>0, <2>1, VerifyReadType
  <2>3. /\ [x EXCEPT !.verify = v] \in ReadySessions
        /\ [x EXCEPT !.verify = AfterVerifyRead(v),
                     !.hap = HapAfterVerifyRead(x.hap, v)] \in ReadySessions
    BY <1>0, <2>1, <2>2, UpdateSession
  <2>4. \/ RespondsError(s, [x EXCEPT !.verify = v])
        \/ Responds(s, [x EXCEPT !.verify = AfterVerifyRead(v),
                                 !.hap = HapAfterVerifyRead(x.hap, v)], pairings)
    BY <1>8 DEF IPPairVerify
  <2>5. SessionInv'
    BY <1>0, <2>3, <2>4, RespondsUpdates, RespondsErrorUpdates
  <2> QED
    BY <1>8, <2>5, RunningList, SettledInv DEF IPPairVerify, IPReceives, IPReads, IInv
<1>9. ASSUME NEW m \in PairingsMessages, IPPairings(s, m)
      PROVE  IInv'
  <2> DEFINE written == ListAfterWrite(x.hap, PairingsReset, m)
             q == AfterPairingsWrite(x.hap, PairingsReset, m)
  <2>1. Settled(pairings)
    BY <1>9, RunningList DEF IPPairings, IPReceives, IPReads
  <2>2. Settled(pairings')
    BY <1>9, <2>1, ListAfterWriteSettled, ListAfterReadSettled DEF IPPairings
  <2>3. cache' \in Caches
    BY <1>9, CacheAfterWriteType, CacheAfterReadType DEF IPPairings, IInv
  <2>4. [x EXCEPT !.isSecured = TRUE] \in ReadySessions
    BY <1>0, UpdateSession
  <2>5. SessionInv'
    BY <1>0, <1>9, <2>4, RespondsUpdates, RespondsErrorUpdates DEF IPPairings
  <2> QED
    BY <1>9, <2>2, <2>3, <2>5, SettledInv DEF IPPairings, IInv
<1>10. ASSUME NEW m \in PairingsMessages, IPPairingsReadFails(s, m)
       PROVE  IInv'
  <2>1. Settled(pairings)
    BY <1>10, RunningList DEF IPPairingsReadFails, IPReceives, IPReads
  <2>2. Settled(pairings')
    BY <1>10, <2>1, ListAfterWriteSettled DEF IPPairingsReadFails
  <2> QED
    BY <1>10, <2>2, HaltInv DEF IPPairingsReadFails, Settled, Failures
<1>11. ASSUME NEW m \in PairingsMessages, IPPairingsCutOff(s, m)
       PROVE  IInv'
  BY <1>11, CutOffInv DEF IPPairingsCutOff, IPReceives, IPReads
<1> QED
  BY <1>1, <1>2, <1>3, <1>4, <1>5, <1>6, <1>7, <1>8, <1>9, <1>10, <1>11 DEF IPNext

LEMMA BLEInv ==
    ASSUME IInv, NEW s \in Sessions, BLENext(s)
    PROVE  IInv'
<1> DEFINE x == session[s]
<1>0. x \in ReadySessions /\ x.hap \in HapStates /\ x.verify \in VerifyStates
      /\ x.request \in RequestStates /\ Ready(x.verify) /\ SessionInv
  BY DEF IInv, SessionInv, ReadySessions, SessionStates
<1>1. CASE BLEConnect(s)
  <2>1. SessionInv'
    BY <1>0, <1>1, SessionUpdated, ReleasedType DEF BLEConnect
  <2> QED
    BY <1>1, <2>1, RunningList, SettledInv DEF BLEConnect, IInv
<1>2. CASE BLEDisconnect(s)
  <2>1. SessionInv'
    BY <1>0, <1>2, SessionUpdated, ReleasedType DEF BLEDisconnect
  <2> QED
    BY <1>2, <2>1, RunningList, SettledInv DEF BLEDisconnect, IInv
<1>3. CASE BLEInvalidate(s)
  <2>1. SessionInv'
    BY <1>0, <1>3, SessionUpdated, ReleasedType DEF BLEInvalidate, Terminal
  <2> QED
    BY <1>3, <2>1, RunningList, SettledInv DEF BLEInvalidate, BLEConnected, IInv
<1>4. ASSUME NEW c \in Characteristics, BLEStart(s, c)
      PROVE  IInv'
  <2>1. \A b \in BOOLEAN : [characteristic |-> c, startedSecured |-> b] \in ProcedureStates
    BY DEF ProcedureStates
  <2>2. NewSession("Connected") \in ReadySessions
    BY ReleasedType
  <2>3. Secured(s) \in BOOLEAN
    BY DEF Secured, SecuredIn
  <2>4. /\ [NewSession("Connected") EXCEPT !.procedure =
              [characteristic |-> c, startedSecured |-> FALSE]] \in ReadySessions
        /\ [x EXCEPT !.procedure =
              [characteristic |-> c, startedSecured |-> Secured(s)]] \in ReadySessions
    BY <1>0, <2>1, <2>2, <2>3, UpdateSession
  <2>5. SessionInv'
    BY <1>0, <1>4, <2>4, SessionUpdated DEF BLEStart
  <2> QED
    BY <1>4, <2>5, RunningList, SettledInv DEF BLEStart, BLEConnected, IInv
<1>5. ASSUME NEW c \in Characteristics, BLEOtherRequest(s, c)
      PROVE  IInv'
  <2>1. SessionInv'
    BY <1>0, <1>5, CompletesUpdates DEF BLEOtherRequest
  <2> QED
    BY <1>5, <2>1, RunningList, SettledInv
       DEF BLEOtherRequest, BLETransaction, BLEConnected, IInv
<1>6. ASSUME NEW c \in Controllers, BLEPairSetup(s, c)
      PROVE  IInv'
  <2>1. SessionInv'
    BY <1>0, <1>6, CompletesUpdates DEF BLEPairSetup
  <2>2. Settled(pairings')
    BY <1>6, FirstPairingList, PairingAssumption DEF BLEPairSetup, IInv, ListInv, Settled
  <2> QED
    BY <1>6, <2>1, <2>2, SettledInv DEF BLEPairSetup, IInv
<1>7. ASSUME NEW m \in VerifyMessages, NEW response \in BOOLEAN,
             BLEPairVerify(s, m, response)
      PROVE  IInv'
  <2> DEFINE v == AfterVerifyWrite(s, x.verify, m)
             elements == CacheAfterVerifyWrite(s, m)
  <2>1. v \in VerifyStates /\ Ready(v) /\ elements \in Caches
    BY <1>0, VerifyWriteType, CacheAfterVerifyWriteType DEF IInv, ListInv
  <2>2. /\ AfterVerifyRead(v) \in VerifyStates /\ Ready(AfterVerifyRead(v))
        /\ HapAfterVerifyRead(x.hap, v) \in HapStates
    BY <1>0, <2>1, VerifyReadType
  <2>3. /\ [x EXCEPT !.verify = v] \in ReadySessions
        /\ [x EXCEPT !.verify = AfterVerifyRead(v),
                     !.hap = HapAfterVerifyRead(x.hap, v)] \in ReadySessions
    BY <1>0, <2>1, <2>2, UpdateSession
  <2>4. \/ Completes(s, [x EXCEPT !.verify = v], pairings)
        \/ Completes(s, [x EXCEPT !.verify = AfterVerifyRead(v),
                                  !.hap = HapAfterVerifyRead(x.hap, v)], pairings)
    BY <1>7 DEF BLEPairVerify
  <2>5. SessionInv'
    BY <1>0, <2>3, <2>4, CompletesUpdates
  <2>6. cache' \in CachesAfterVerifyRead(s, elements, v) \/ cache' = elements
    BY <1>7 DEF BLEPairVerify
  <2>7. cache' \in Caches
    BY <2>1, <2>6, CachesAfterVerifyReadType
  <2> QED
    BY <1>7, <2>5, <2>7, RunningList, SettledInv
       DEF BLEPairVerify, BLETransaction, BLEConnected, IInv
<1>8. CASE BLEPairVerifyRead(s)
  <2> DEFINE v == x.verify
  <2>1. /\ AfterVerifyRead(v) \in VerifyStates /\ Ready(AfterVerifyRead(v))
        /\ HapAfterVerifyRead(x.hap, v) \in HapStates
    BY <1>0, VerifyReadType
  <2>2. [x EXCEPT !.verify = AfterVerifyRead(v),
                  !.hap = HapAfterVerifyRead(x.hap, v)] \in ReadySessions
    BY <1>0, <2>1, UpdateSession
  <2>3. Completes(s, [x EXCEPT !.verify = AfterVerifyRead(v),
                               !.hap = HapAfterVerifyRead(x.hap, v)], pairings)
    BY <1>8 DEF BLEPairVerifyRead
  <2>4. SessionInv'
    BY <1>0, <2>2, <2>3, CompletesUpdates
  <2>5. cache' \in Caches
    BY <1>0, <1>8, CachesAfterVerifyReadType DEF BLEPairVerifyRead, IInv
  <2> QED
    BY <1>8, <2>4, <2>5, RunningList, SettledInv
       DEF BLEPairVerifyRead, BLETransaction, BLEConnected, IInv
<1>9. CASE BLEPairVerifyFails(s)
  BY <1>9, FailInv DEF BLEPairVerifyFails, Failures
<1>10. ASSUME NEW m \in PairingsMessages, NEW response \in BOOLEAN,
              BLEPairings(s, m, response)
       PROVE  IInv'
  <2> DEFINE written == ListAfterWrite(x.hap, x.request, m)
             q == AfterPairingsWrite(x.hap, x.request, m)
             elements == CacheAfterWrite(x.hap, x.request, m)
  <2>1. Settled(pairings)
    BY <1>10, RunningList DEF BLEPairings, BLETransaction, BLEConnected
  <2>2. Settled(pairings')
    BY <1>10, <2>1, ListAfterWriteSettled, ListAfterReadSettled DEF BLEPairings
  <2>3. elements \in Caches
    BY CacheAfterWriteType DEF IInv
  <2>4. cache' \in Caches
    BY <1>10, <2>3, CacheAfterReadType DEF BLEPairings
  <2>5. q \in RequestStates
    BY <1>0, RequestType
  <2>6. [x EXCEPT !.request = q] \in ReadySessions
        /\ [x EXCEPT !.request = PairingsReset] \in ReadySessions
    BY <1>0, <2>5, ReleasedType, UpdateSession
  <2>7. \/ Completes(s, [x EXCEPT !.request = q], pairings')
        \/ Completes(s, [x EXCEPT !.request = PairingsReset], pairings')
    BY <1>10 DEF BLEPairings
  <2>8. SessionInv'
    BY <1>0, <2>6, <2>7, CompletesUpdates
  <2> QED
    BY <1>10, <2>2, <2>4, <2>8, SettledInv DEF BLEPairings, IInv
<1>11. CASE BLEPairingsRead(s)
  <2>1. Settled(pairings)
    BY <1>11, RunningList DEF BLEPairingsRead, BLETransaction, BLEConnected
  <2>2. Settled(pairings')
    BY <1>11, <2>1, ListAfterReadSettled DEF BLEPairingsRead
  <2>3. cache' \in Caches
    BY <1>11, CacheAfterReadType DEF BLEPairingsRead, IInv
  <2>4. [x EXCEPT !.request = PairingsReset] \in ReadySessions
    BY <1>0, ReleasedType, UpdateSession
  <2>5. SessionInv'
    BY <1>0, <1>11, <2>4, CompletesUpdates DEF BLEPairingsRead
  <2> QED
    BY <1>11, <2>2, <2>3, <2>5, SettledInv DEF BLEPairingsRead, IInv
<1>12. ASSUME NEW m \in PairingsMessages, BLEPairingsCutOff(s, m)
       PROVE  IInv'
  BY <1>12, CutOffInv DEF BLEPairingsCutOff, BLETransaction, BLEConnected
<1> QED
  BY <1>1, <1>2, <1>3, <1>4, <1>5, <1>6, <1>7, <1>8, <1>9, <1>10, <1>11, <1>12 DEF BLENext

LEMMA StutterInv == IInv /\ UNCHANGED vars => IInv'
BY DEF vars, IInv, ListInv, AdminExists, SessionInv

LEMMA Invariance == Spec => []IInv
<1>1. Init => IInv
  BY InitInv
<1>2. IInv /\ [Next]_vars => IInv'
  BY ServerInv, IPInv, BLEInv, StutterInv DEF Next
<1> QED
  BY <1>1, <1>2, PTL DEF Spec

-------------------------------------------------------------------------------
\* The variables keep their types; in particular a session that becomes active
\* knows the key of its pairing, as HAPPairingPairVerifyStartSession requires.
THEOREM TypeCorrect == Spec => []TypeOK
<1>1. IInv => TypeOK
  BY DEF IInv, ListInv, SessionInv, ReadySessions, Caches, TypeOK
<1> QED
  BY <1>1, Invariance, PTL

\* A running accessory with pairings has an admin: no order of requests, over any
\* number of sessions, and no power loss leaves it with users only.
THEOREM AdminAlwaysExists == Spec => []AdminExists
<1>1. IInv => AdminExists
  BY DEF IInv, ListInv
<1> QED
  BY <1>1, Invariance, PTL

\* No identifier is stored under two keys.
THEOREM IdentifiersUnique == Spec => []UniqueIdentifiers
<1>1. IInv => UniqueIdentifiers
  BY DEF IInv, ListInv, Unique, UniqueIdentifiers
<1> QED
  BY <1>1, Invariance, PTL

\* The stored list can always be administered, through every request of every session,
\* purge that is cut off, and restart.
THEOREM PairingListAlwaysSound == Spec => []PairingListIsSound
  BY AdminAlwaysExists, IdentifiersUnique, PTL DEF PairingListIsSound

-------------------------------------------------------------------------------
(* What an accessory has that speaks over one transport only, and one with     *)
(* both does not.  Over IP alone the flag that a session keeps, that it is     *)
(* secured, is current when it is used; a BLE session removes pairings and     *)
(* closes no IP session.  Over BLE alone the session acts for the controller   *)
(* it verified, what it can resume belongs to a controller that is still       *)
(* paired, and only an admin changes the pairing list; IP sessions remove      *)
(* pairings between the transactions of the BLE session.                       *)


-------------------------------------------------------------------------------
\* IP alone.

\* A stopped accessory has no sessions.
IdleWhenStopped == ~running => \A s \in Sessions : session[s].link = "Idle"

FlagInv == IInv /\ IdleWhenStopped /\ SecuredFlagIsCurrent

-------------------------------------------------------------------------------
LEMMA HaltFlags ==
    ASSUME Halt
    PROVE  IdleWhenStopped' /\ SecuredFlagIsCurrent'
BY DEF Halt, IdleWhenStopped, SecuredFlagIsCurrent, Released, NewSession

LEMMA RespondsFlags ==
    ASSUME IInv, running, running' = running, NEW s \in IPSessions, NEW x \in ReadySessions,
           Responds(s, x, pairings')
    PROVE  IdleWhenStopped' /\ SecuredFlagIsCurrent'
<1>1. ASSUME NEW t \in IPSessions, session'[t].link = "Reading", session'[t].isSecured
      PROVE  SecuredIn(session'[t].hap, pairings')
  <2>1. t \in Sessions
    BY DEF Sessions
  <2>2. CASE t = s
    <3>1. session'[t] = [x EXCEPT !.link = "Writing"]
      BY <2>1, <2>2 DEF Responds
    <3>2. session'[t].link = "Writing"
      BY <3>1 DEF ReadySessions, SessionStates
    <3> QED
      BY <1>1, <3>2
  <2>3. CASE t # s /\ Stale(t, pairings')
    <3>1. session'[t] = Released
      BY <2>1, <2>3 DEF Responds
    <3> QED
      BY <1>1, <3>1 DEF Released, NewSession
  <2>4. CASE t # s /\ ~Stale(t, pairings')
    <3>1. session'[t] = session[t]
      BY <2>1, <2>4 DEF Responds
    <3> QED
      BY <1>1, <2>4, <3>1 DEF Stale
  <2> QED
    BY <2>2, <2>3, <2>4
<1> QED
  BY <1>1 DEF SecuredFlagIsCurrent, IdleWhenStopped, Secured

\* A step of one session that leaves the list alone, and leaves that session not
\* flagged, secured, or not waiting for input.
LEMMA OneSessionFlags ==
    ASSUME FlagInv, running, UNCHANGED <<running, pairings>>,
           NEW s \in Sessions, NEW x, session' = [session EXCEPT ![s] = x],
           x.link = "Reading" /\ x.isSecured => SecuredIn(x.hap, pairings)
    PROVE  IdleWhenStopped' /\ SecuredFlagIsCurrent'
<1>1. ASSUME NEW t \in IPSessions, session'[t].link = "Reading", session'[t].isSecured
      PROVE  SecuredIn(session'[t].hap, pairings')
  <2>1. t \in Sessions /\ session'[t] = IF t = s THEN x ELSE session[t]
    BY DEF Sessions, FlagInv, IInv, SessionInv
  <2> QED
    BY <1>1, <2>1 DEF FlagInv, SecuredFlagIsCurrent, Secured
<1> QED
  BY <1>1 DEF SecuredFlagIsCurrent, IdleWhenStopped, Secured

LEMMA RespondsErrorFlags ==
    ASSUME FlagInv, running, UNCHANGED <<running, pairings>>,
           NEW s \in Sessions, NEW x \in ReadySessions, RespondsError(s, x)
    PROVE  IdleWhenStopped' /\ SecuredFlagIsCurrent'
<1>1. [x EXCEPT !.link = "Writing"].link = "Writing"
  BY DEF ReadySessions, SessionStates
<1> QED
  BY <1>1, OneSessionFlags DEF RespondsError

LEMMA ServerFlags ==
    ASSUME FlagInv, ServerNext
    PROVE  IdleWhenStopped' /\ SecuredFlagIsCurrent'
<1>1. CASE Start
  BY <1>1 DEF Start, FlagInv, IdleWhenStopped, SecuredFlagIsCurrent, Sessions
<1>2. CASE Stop
  BY <1>2 DEF Stop, IdleWhenStopped, SecuredFlagIsCurrent
<1>3. CASE PowerOff
  BY <1>3, HaltFlags DEF PowerOff
<1>4. CASE HAPRemoveAllPairings
  BY <1>4 DEF HAPRemoveAllPairings, FlagInv, IdleWhenStopped, SecuredFlagIsCurrent
<1>5. CASE PowerLossInRemoveAllPairings
  BY <1>5, HaltFlags DEF PowerLossInRemoveAllPairings
<1> QED
  BY <1>1, <1>2, <1>3, <1>4, <1>5 DEF ServerNext

LEMMA IPFlags ==
    ASSUME FlagInv, NEW s \in Sessions, IPNext(s)
    PROVE  IdleWhenStopped' /\ SecuredFlagIsCurrent'
<1> DEFINE x == session[s]
<1>0. IInv /\ x \in ReadySessions /\ x.hap \in HapStates /\ x.verify \in VerifyStates
      /\ Ready(x.verify) /\ SessionInv
  BY DEF FlagInv, IInv, SessionInv, ReadySessions, SessionStates
<1>1. CASE IPAccept(s)
  <2>1. ~NewSession("Reading").isSecured
    BY DEF NewSession
  <2> QED
    BY <1>1, <2>1, OneSessionFlags DEF IPAccept
<1>2. CASE IPClose(s)
  <2>1. ~Released.isSecured
    BY DEF Released, NewSession
  <2> QED
    BY <1>2, <2>1, OneSessionFlags DEF IPClose
<1>3. CASE IPWriteCompletes(s)
  <2> DEFINE y == IF x.isSecured /\ ~Secured(s) THEN Released
                  ELSE [x EXCEPT !.link = "Reading"]
  <2>1. y.isSecured => SecuredIn(y.hap, pairings)
    <3>1. CASE x.isSecured /\ ~Secured(s)
      BY <3>1 DEF Released, NewSession
    <3>2. CASE ~(x.isSecured /\ ~Secured(s))
      <4>1. y = [x EXCEPT !.link = "Reading"]
        BY <3>2
      <4>2. y.isSecured = x.isSecured /\ y.hap = x.hap
        BY <1>0, <4>1 DEF ReadySessions, SessionStates
      <4> QED
        BY <3>2, <4>2 DEF Secured
    <3> QED
      BY <3>1, <3>2
  <2>2. session' = [session EXCEPT ![s] = y]
    BY <1>3 DEF IPWriteCompletes
  <2> HIDE DEF y
  <2> QED
    BY <1>3, <2>1, <2>2, OneSessionFlags DEF IPWriteCompletes
<1>4. CASE IPInputFails(s)
  BY <1>4, HaltFlags DEF IPInputFails, Fail
<1>5. CASE IPPairVerifyFails(s)
  BY <1>5, HaltFlags DEF IPPairVerifyFails, Fail
<1>6. ASSUME NEW secured \in BOOLEAN, IPOtherRequest(s, secured)
      PROVE  IdleWhenStopped' /\ SecuredFlagIsCurrent'
  <2>1. [x EXCEPT !.isSecured = secured] \in ReadySessions
    BY <1>0, UpdateSession
  <2> QED
    BY <1>6, <2>1, RespondsErrorFlags DEF IPOtherRequest, IPReceives, IPReads
<1>7. ASSUME NEW c \in Controllers, IPPairSetup(s, c)
      PROVE  IdleWhenStopped' /\ SecuredFlagIsCurrent'
  BY <1>0, <1>7, RespondsFlags DEF IPPairSetup, IPReceives, IPReads
<1>8. ASSUME NEW m \in VerifyMessages, IPPairVerify(s, m)
      PROVE  IdleWhenStopped' /\ SecuredFlagIsCurrent'
  <2> DEFINE v == AfterVerifyWrite(s, x.verify, m)
  <2>1. v \in VerifyStates /\ Ready(v)
    BY <1>0, VerifyWriteType DEF IInv, ListInv
  <2>2. /\ AfterVerifyRead(v) \in VerifyStates /\ Ready(AfterVerifyRead(v))
        /\ HapAfterVerifyRead(x.hap, v) \in HapStates
    BY <1>0, <2>1, VerifyReadType
  <2>3. /\ [x EXCEPT !.verify = v] \in ReadySessions
        /\ [x EXCEPT !.verify = AfterVerifyRead(v),
                     !.hap = HapAfterVerifyRead(x.hap, v)] \in ReadySessions
    BY <1>0, <2>1, <2>2, UpdateSession
  <2>4. \/ RespondsError(s, [x EXCEPT !.verify = v])
        \/ Responds(s, [x EXCEPT !.verify = AfterVerifyRead(v),
                                 !.hap = HapAfterVerifyRead(x.hap, v)], pairings')
    BY <1>8 DEF IPPairVerify
  <2> QED
    BY <1>0, <1>8, <2>3, <2>4, RespondsFlags, RespondsErrorFlags
       DEF IPPairVerify, IPReceives, IPReads
<1>9. ASSUME NEW m \in PairingsMessages, IPPairings(s, m)
      PROVE  IdleWhenStopped' /\ SecuredFlagIsCurrent'
  <2> DEFINE q == AfterPairingsWrite(x.hap, PairingsReset, m)
  <2>1. [x EXCEPT !.isSecured = TRUE] \in ReadySessions
    BY <1>0, UpdateSession
  <2>2. CASE q.state = 0
    <3>1. m.method = "Malformed"
      BY <2>2 DEF AfterPairingsWrite, PairingsReset
    <3>2. pairings' = pairings
      BY <1>9, <2>2, <3>1 DEF IPPairings, ListAfterWrite, ListAfterRead, Adds, Removes
    <3> QED
      BY <1>9, <2>1, <2>2, <3>2, RespondsErrorFlags DEF IPPairings, IPReceives, IPReads
  <2>3. CASE q.state # 0
    BY <1>0, <1>9, <2>1, <2>3, RespondsFlags DEF IPPairings, IPReceives, IPReads
  <2> QED
    BY <2>2, <2>3
<1>10. ASSUME NEW m \in PairingsMessages, IPPairingsReadFails(s, m)
       PROVE  IdleWhenStopped' /\ SecuredFlagIsCurrent'
  BY <1>10, HaltFlags DEF IPPairingsReadFails
<1>11. ASSUME NEW m \in PairingsMessages, IPPairingsCutOff(s, m)
       PROVE  IdleWhenStopped' /\ SecuredFlagIsCurrent'
  BY <1>11, HaltFlags
     DEF IPPairingsCutOff, AddCutOff, RemoveCutOff, PowerLossInPurge
<1> QED
  BY <1>1, <1>2, <1>3, <1>4, <1>5, <1>6, <1>7, <1>8, <1>9, <1>10, <1>11 DEF IPNext

LEMMA BLEActionsAreBLE ==
    ASSUME NEW s, BLENext(s)
    PROVE  s \in BLESessions
BY DEF BLENext, BLEConnect, BLEDisconnect, BLEInvalidate, BLEStart, BLEOtherRequest,
   BLEPairSetup, BLEPairVerify, BLEPairVerifyRead, BLEPairVerifyFails, BLEPairings,
   BLEPairingsRead, BLEPairingsCutOff, BLETransaction, BLEConnected

\* Over IP alone a session that waits for input and is flagged as secured still has
\* its pairing, so that handle_input never takes the input of such a session for
\* plain text.
THEOREM FlagsAlwaysCurrent ==
    ASSUME BLESessions = {}
    PROVE  Spec => []SecuredFlagIsCurrent
<1>1. Init => FlagInv
  BY InitInv DEF Init, FlagInv, IdleWhenStopped, SecuredFlagIsCurrent, Released, NewSession
<1>2. FlagInv /\ [Next]_vars => FlagInv'
  <2> SUFFICES ASSUME FlagInv, [Next]_vars PROVE FlagInv'
    OBVIOUS
  <2>1. IInv'
    BY ServerInv, IPInv, BLEInv, StutterInv DEF Next, FlagInv
  <2>2. CASE ServerNext
    BY <2>1, <2>2, ServerFlags DEF FlagInv
  <2>3. ASSUME NEW s \in Sessions, IPNext(s) \/ BLENext(s)
        PROVE  FlagInv'
    BY <2>1, <2>3, IPFlags, BLEActionsAreBLE DEF FlagInv
  <2>4. CASE UNCHANGED vars
    BY <2>1, <2>4 DEF vars, FlagInv, IdleWhenStopped, SecuredFlagIsCurrent, Secured
  <2> QED
    BY <2>2, <2>3, <2>4 DEF Next
<1>3. FlagInv => SecuredFlagIsCurrent
  BY DEF FlagInv
<1> QED
  BY <1>1, <1>2, <1>3, PTL DEF Spec

-------------------------------------------------------------------------------
\* BLE alone.

\* A reference to a pairing, from a session, a procedure or the cache, is to the
\* pairing of its controller.
Bound(ref, store) ==
    ref.pairingID \in DOMAIN store /\ store[ref.pairingID].id = ref.peer

BoundCache(elements, store) == \A e \in DOMAIN elements : Bound(elements[e], store)

\* A session is secured or about to be, never both.
BoundSession(x, store) ==
    /\ x.hap.active => Bound(x.hap, store) /\ x.verify.state = 0
    /\ StartsSession(x.verify) => Bound(x.verify, store)

\* The Pairings procedure runs in the session it started in.
ProcedureCurrent(x) ==
    x.procedure.characteristic = "Pairings" => x.procedure.startedSecured = x.hap.active

IdleIsReleased(x) == x.link = "Idle" => x = Released

\* The inductive invariant.
BoundInv ==
    /\ IInv
    /\ running \/ AdminFound(pairings) => BoundCache(cache, pairings)
    /\ \A s \in Sessions : /\ ~running => session[s] = Released
                           /\ IdleIsReleased(session[s])
                           /\ BoundSession(session[s], pairings)
                           /\ ProcedureCurrent(session[s])

-------------------------------------------------------------------------------
\* References to pairings under changes of the list: a pairing that stays keeps its
\* identifier.
KeepsIds(store, new) == \A k \in DOMAIN new : k \in DOMAIN store => new[k].id = store[k].id

LEMMA AddKeepsIds ==
    ASSUME NEW store, NEW m
    PROVE  /\ KeepsIds(store, AddPairingSet(store, m))
           /\ DOMAIN store \subseteq DOMAIN AddPairingSet(store, m)
<1>1. CASE AddRefused(store, m)
  BY <1>1 DEF AddPairingSet, KeepsIds
<1>2. CASE ~AddRefused(store, m)
  <2> DEFINE key == IF AddUpdates(store, m) THEN PairingKey(store, m.id)
                                            ELSE CHOOSE k \in FreeSlot(store) : TRUE
             new == [id |-> m.id, admin |-> m.admin]
  <2>1. AddPairingSet(store, m) = KVSSet(store, key, new)
    BY <1>2 DEF AddPairingSet
  <2>2. key \in DOMAIN store => store[key].id = m.id
    <3>1. CASE AddUpdates(store, m)
      BY <3>1, FoundKey DEF AddUpdates
    <3>2. CASE ~AddUpdates(store, m)
      BY <1>2, <3>2, FreeKey DEF AddRefused, AddCreates
    <3> QED
      BY <3>1, <3>2
  <2> HIDE DEF key
  <2> QED
    BY <2>1, <2>2 DEF KVSSet, KeepsIds
<1> QED
  BY <1>1, <1>2

LEMMA PurgeKeepsIds ==
    ASSUME NEW store
    PROVE  KeepsIds(store, KVSPurged) /\ DOMAIN KVSPurged = {}
BY DEF KVSPurged, KeepsIds

LEMMA WriteKeepsIds ==
    ASSUME NEW hap, NEW q, NEW m
    PROVE  KeepsIds(pairings, ListAfterWrite(hap, q, m))
BY AddKeepsIds, PurgeKeepsIds DEF ListAfterWrite, AddPairing, CleanupPairings, KeepsIds

LEMMA ReadKeepsIds ==
    ASSUME NEW store, NEW hap, NEW q
    PROVE  /\ KeepsIds(store, ListAfterRead(hap, q, store))
           /\ DOMAIN ListAfterRead(hap, q, store) \subseteq DOMAIN store
<1>1. \A k : /\ KeepsIds(store, KVSRemove(store, k))
             /\ DOMAIN KVSRemove(store, k) \subseteq DOMAIN store
  BY DEF KVSRemove, KVSRestrict, KeepsIds
<1> QED
  BY <1>1, PurgeKeepsIds
     DEF ListAfterRead, RemovePairing, RemovePairingKey, CleanupPairings, KeepsIds

\* The cache after a Pairings request is bound to the list after it.
LEMMA WriteBoundCache ==
    ASSUME BoundCache(cache, pairings), NEW hap, NEW q, NEW m
    PROVE  BoundCache(CacheAfterWrite(hap, q, m), ListAfterWrite(hap, q, m))
<1> DEFINE set == AddPairingSet(pairings, m)
<1>1. BoundCache(cache, set)
  BY AddKeepsIds DEF BoundCache, Bound, KeepsIds
<1>2. \A store : BoundCache(KVSPurged, store)
  BY PurgeKeepsIds DEF BoundCache
<1>3. CASE ~Adds(hap, q, m)
  BY <1>3 DEF CacheAfterWrite, ListAfterWrite
<1>4. CASE Adds(hap, q, m) /\ ~AddUpdates(pairings, m)
  BY <1>1, <1>4 DEF CacheAfterWrite, ListAfterWrite, AddPairing
<1>5. CASE Adds(hap, q, m) /\ AddUpdates(pairings, m) /\ AdminFound(set)
  BY <1>1, <1>5
     DEF CacheAfterWrite, CacheAfterCleanup, ListAfterWrite, AddPairing, CleanupPairings
<1>6. CASE Adds(hap, q, m) /\ AddUpdates(pairings, m) /\ ~AdminFound(set)
  BY <1>2, <1>6 DEF CacheAfterWrite, CacheAfterCleanup
<1> QED
  BY <1>3, <1>4, <1>5, <1>6

LEMMA ReadBoundCache ==
    ASSUME NEW elements, NEW store, BoundCache(elements, store), NEW hap, NEW q
    PROVE  BoundCache(CacheAfterRead(hap, q, store, elements), ListAfterRead(hap, q, store))
<1> DEFINE key == PairingKey(store, q.removed)
           left == KVSRemove(store, key)
<1>1. BoundCache(WithoutPairing(elements, key), left)
  BY DEF BoundCache, Bound, WithoutPairing, KVSRestrict, KVSRemove
<1>2. \A any : BoundCache(KVSPurged, any)
  BY PurgeKeepsIds DEF BoundCache
<1>3. CASE ~(Removes(hap, q, store) /\ HAPPairingFind(store, q.removed) # {})
  BY <1>3 DEF CacheAfterRead, ListAfterRead, RemovePairing
<1>4. CASE Removes(hap, q, store) /\ HAPPairingFind(store, q.removed) # {}
  <2>1. RemovePairingKey(store, q.removed) = left
    BY <1>4 DEF RemovePairingKey
  <2>2. /\ CacheAfterRead(hap, q, store, elements)
             = CacheAfterCleanup(WithoutPairing(elements, key), left)
        /\ ListAfterRead(hap, q, store) = CleanupPairings(left)
    BY <1>4, <2>1 DEF CacheAfterRead, ListAfterRead, RemovePairing
  <2> QED
    BY <1>1, <1>2, <2>2 DEF CacheAfterCleanup, CleanupPairings
<1> QED
  BY <1>3, <1>4

-------------------------------------------------------------------------------
\* Pair Verify.
LEMMA VerifyWriteBound ==
    ASSUME BoundCache(cache, pairings), NEW s, NEW m,
           NEW v, StartsSession(v) => Bound(v, pairings)
    PROVE  LET w == AfterVerifyWrite(s, v, m) IN StartsSession(w) => Bound(w, pairings)
<1> DEFINE w == AfterVerifyWrite(s, v, m)
<1>1. CASE m.type = "Resume" /\ s \in BLESessions /\ m.element \in DOMAIN cache
  <2>1. w = Resumed(cache[m.element], m)
    BY <1>1 DEF AfterVerifyWrite
  <2> QED
    BY <1>1, <2>1 DEF Resumed, BoundCache, Bound
<1>2. CASE m.type = "Start" \/ (m.type = "Resume" /\ s \in BLESessions
                                               /\ m.element \notin DOMAIN cache)
  <2>1. w = VerifyIn(1)
    BY <1>2 DEF AfterVerifyWrite
  <2> QED
    BY <2>1 DEF VerifyIn, StartsSession
<1>3. CASE m.type = "Finish" /\ v.state = 2
  <2>1. w = Finished(v, m)
    BY <1>3 DEF AfterVerifyWrite
  <2>2. CASE HAPPairingFind(pairings, m.id) = {}
    <3>1. w = [state |-> 3, method |-> v.method, error |-> TRUE,
               pairingID |-> v.pairingID, peer |-> v.peer]
      BY <2>1, <2>2 DEF Finished
    <3> QED
      BY <3>1 DEF StartsSession
  <2>3. CASE HAPPairingFind(pairings, m.id) # {}
    BY <2>1, <2>3, FoundKey DEF Finished, Bound
  <2> QED
    BY <2>2, <2>3
<1>4. CASE /\ ~(m.type = "Resume" /\ s \in BLESessions)
           /\ m.type # "Start"
           /\ ~(m.type = "Finish" /\ v.state = 2)
  <2>1. w = VerifyReset
    BY <1>4 DEF AfterVerifyWrite
  <2> QED
    BY <2>1 DEF VerifyReset, VerifyIn, StartsSession
<1> QED
  BY <1>1, <1>2, <1>3, <1>4

LEMMA VerifyReadBound ==
    ASSUME NEW s, NEW v, StartsSession(v) => Bound(v, pairings), NEW hap, ~hap.active,
           NEW elements, BoundCache(elements, pairings)
    PROVE  /\ ~StartsSession(AfterVerifyRead(v))
           /\ LET h == HapAfterVerifyRead(hap, v)
              IN  h.active => Bound(h, pairings) /\ AfterVerifyRead(v).state = 0
           /\ \A c \in CachesAfterVerifyRead(s, elements, v) : BoundCache(c, pairings)
<1>1. ~StartsSession(AfterVerifyRead(v))
  BY DEF AfterVerifyRead, VerifyReset, VerifyIn, StartsSession
<1>2. StartsSession(v) => AfterVerifyRead(v).state = 0
  BY DEF AfterVerifyRead, VerifyReset, VerifyIn, StartsSession
<1>3. HapAfterVerifyRead(hap, v).active
        => StartsSession(v) /\ Bound(HapAfterVerifyRead(hap, v), pairings)
  BY DEF HapAfterVerifyRead, Bound
<1>4. ASSUME NEW c \in CachesAfterVerifyRead(s, elements, v)
      PROVE  BoundCache(c, pairings)
  <2>1. CASE StartsSession(v) /\ s \in BLESessions
    <3>1. PICK e \in CacheElements :
              c = KVSSet(elements, e, [pairingID |-> v.pairingID, peer |-> v.peer])
      BY <2>1 DEF CachesAfterVerifyRead, CachesAfterSave
    <3> QED
      BY <2>1, <3>1 DEF KVSSet, BoundCache, Bound
  <2>2. CASE ~(StartsSession(v) /\ s \in BLESessions)
    BY <1>4, <2>2 DEF CachesAfterVerifyRead
  <2> QED
    BY <2>1, <2>2
<1> QED
  BY <1>1, <1>2, <1>3, <1>4

-------------------------------------------------------------------------------
\* Steps of the session.

LEMMA NewSessionBound ==
    ASSUME NEW l, NEW store
    PROVE  /\ BoundSession(NewSession(l), store)
           /\ ProcedureCurrent(NewSession(l))
           /\ l # "Idle" => IdleIsReleased(NewSession(l))
           /\ BoundSession(Released, store)
           /\ ProcedureCurrent(Released)
           /\ IdleIsReleased(Released)
BY DEF BoundSession, ProcedureCurrent, IdleIsReleased, Released, NewSession, NoSession,
   NoProcedure, VerifyReset, VerifyIn, StartsSession

\* The run ends: nothing is left that refers to a pairing.
LEMMA HaltBound ==
    ASSUME Halt, IInv'
    PROVE  BoundInv'
<1>1. BoundCache(KVSPurged, pairings')
  BY PurgeKeepsIds DEF BoundCache
<1> QED
  BY <1>1, NewSessionBound DEF Halt, BoundInv

\* A step of the session, the only one.
LEMMA SessionStepBound ==
    ASSUME IPSessions = {}, IInv, IInv', NEW s \in Sessions, running, running',
           NEW y, session' = [session EXCEPT ![s] = y],
           BoundCache(cache', pairings'), BoundSession(y, pairings'),
           ProcedureCurrent(y), IdleIsReleased(y)
    PROVE  BoundInv'
<1>1. \A t \in Sessions : session'[t] = y
  BY SessionAssumption DEF Sessions, IInv, SessionInv
<1> QED
  BY <1>1 DEF BoundInv

\* The end of a transaction, on the list that it leaves.
LEMMA CompletesBound ==
    ASSUME IPSessions = {}, IInv, IInv', NEW s \in Sessions, running, running',
           NEW x \in ReadySessions, x.link = "Connected", Completes(s, x, pairings'),
           BoundCache(cache', pairings'),
           BoundSession(x, pairings')
             \/ (x.procedure.startedSecured /\ ~SecuredIn(x.hap, pairings'))
    PROVE  BoundInv'
<1>1. CASE x.procedure.startedSecured /\ ~SecuredIn(x.hap, pairings')
  <2>1. session' = [session EXCEPT ![s] = Terminal]
    BY <1>1 DEF Completes
  <2> QED
    BY <2>1, NewSessionBound, SessionStepBound DEF Terminal
<1>2. CASE ~(x.procedure.startedSecured /\ ~SecuredIn(x.hap, pairings'))
  <2> DEFINE y == [x EXCEPT !.procedure = NoProcedure]
  <2>1. session' = [session EXCEPT ![s] = y]
    BY <1>2 DEF Completes
  <2>2. /\ y.hap = x.hap /\ y.verify = x.verify /\ y.link = "Connected"
        /\ y.procedure = NoProcedure
    BY DEF ReadySessions, SessionStates
  <2>3. BoundSession(y, pairings') /\ ProcedureCurrent(y) /\ IdleIsReleased(y)
    BY <1>2, <2>2 DEF BoundSession, ProcedureCurrent, NoProcedure, IdleIsReleased
  <2> HIDE DEF y
  <2> QED
    BY <2>1, <2>3, SessionStepBound
<1> QED
  BY <1>1, <1>2

\* A session that is secured for its own procedure, on the list after its request.
LEMMA PairingsCompletesBound ==
    ASSUME IPSessions = {}, BoundInv, IInv', NEW s \in Sessions, running',
           BLETransaction(s, "Pairings", TRUE), NEW q \in RequestStates,
           Completes(s, [session[s] EXCEPT !.request = q], pairings'),
           KeepsIds(pairings, pairings'), BoundCache(cache', pairings')
    PROVE  BoundInv'
<1> DEFINE x == session[s]
           y == [x EXCEPT !.request = q]
<1>1. x \in ReadySessions /\ x.link = "Connected" /\ running
      /\ x.hap.active /\ x.procedure.startedSecured
      /\ Bound(x.hap, pairings) /\ x.verify.state = 0
  BY DEF BoundInv, IInv, SessionInv, BLETransaction, BLEConnected, ProcedureCurrent,
     Secured, SecuredIn, BoundSession
<1>2. y \in ReadySessions /\ Completes(s, y, pairings')
  BY <1>1, UpdateSession
<1>3. /\ y.hap = x.hap /\ y.verify = x.verify
      /\ y.procedure = x.procedure /\ y.link = x.link
  BY <1>1 DEF ReadySessions, SessionStates
<1>4. ~StartsSession(x.verify)
  BY <1>1 DEF StartsSession
<1>5. SecuredIn(x.hap, pairings') => BoundSession(y, pairings')
  BY <1>1, <1>3, <1>4 DEF SecuredIn, BoundSession, Bound, KeepsIds
<1> HIDE DEF y
<1> QED
  BY <1>1, <1>2, <1>3, <1>5, CompletesBound DEF BoundInv

LEMMA ServerBound ==
    ASSUME BoundInv, IInv', ServerNext
    PROVE  BoundInv'
<1>1. CASE Start
  <2>1. \A store : BoundCache(KVSPurged, store)
    BY PurgeKeepsIds DEF BoundCache
  <2>2. BoundCache(cache', pairings')
    BY <1>1, <2>1 DEF Start, CacheAfterCleanup, CleanupPairings, BoundInv
  <2>3. \A s \in Sessions : session'[s] = Released
    BY <1>1 DEF Start, BoundInv
  <2> QED
    BY <1>1, <2>2, <2>3, NewSessionBound DEF Start, BoundInv
<1>2. CASE Stop
  BY <1>2 DEF Stop, BoundInv, IdleIsReleased
<1>3. CASE PowerOff
  BY <1>3, HaltBound DEF PowerOff
<1>4. CASE HAPRemoveAllPairings
  <2>1. ~running' /\ ~AdminFound(pairings')
    BY <1>4, PurgedList DEF HAPRemoveAllPairings
  <2>2. \A s \in Sessions : session'[s] = Released
    BY <1>4 DEF HAPRemoveAllPairings, BoundInv
  <2> QED
    BY <2>1, <2>2, NewSessionBound DEF BoundInv
<1>5. CASE PowerLossInRemoveAllPairings
  BY <1>5, HaltBound DEF PowerLossInRemoveAllPairings
<1> QED
  BY <1>1, <1>2, <1>3, <1>4, <1>5 DEF ServerNext

LEMMA BLEBound ==
    ASSUME IPSessions = {}, BoundInv, IInv', NEW s \in Sessions, BLENext(s)
    PROVE  BoundInv'
<1> DEFINE x == session[s]
<1>session. /\ IInv /\ x \in ReadySessions /\ x.verify \in VerifyStates /\ x.request \in RequestStates
      /\ x.hap \in HapStates /\ Ready(x.verify)
      /\ BoundSession(x, pairings) /\ ProcedureCurrent(x)
  BY DEF BoundInv, IInv, SessionInv, ReadySessions, SessionStates
<1>bound. running => BoundCache(cache, pairings)
  BY DEF BoundInv
\* A session that is not secured has nothing to lose by a change of the list.
<1>unsecured. ~Secured(s) => ~x.hap.active
  BY <1>session DEF Secured, SecuredIn, BoundSession, Bound
<1>1. CASE BLEConnect(s)
  BY <1>session, <1>bound, <1>1, NewSessionBound, SessionStepBound DEF BLEConnect
<1>2. CASE BLEDisconnect(s)
  BY <1>session, <1>bound, <1>2, NewSessionBound, SessionStepBound DEF BLEDisconnect
<1>3. CASE BLEInvalidate(s)
  BY <1>session, <1>bound, <1>3, NewSessionBound, SessionStepBound
     DEF BLEInvalidate, BLEConnected, Terminal
<1>4. ASSUME NEW c \in Characteristics, BLEStart(s, c)
      PROVE  BoundInv'
  <2> DEFINE p == [characteristic |-> c, startedSecured |-> Secured(s)]
             y == [x EXCEPT !.procedure = p]
             z == [NewSession("Connected") EXCEPT !.procedure =
                      [characteristic |-> c, startedSecured |-> FALSE]]
  <2>1. CASE c \in DropsSecuritySession /\ Secured(s)
    <3>1. session' = [session EXCEPT ![s] = z]
      BY <1>4, <2>1 DEF BLEStart
    <3>2. /\ z.hap = NoSession /\ z.verify = VerifyReset /\ z.link = "Connected"
          /\ z.procedure.characteristic # "Pairings"
      BY <2>1 DEF NewSession, DropsSecuritySession
    <3>3. BoundSession(z, pairings) /\ ProcedureCurrent(z) /\ IdleIsReleased(z)
      BY <3>2 DEF BoundSession, ProcedureCurrent, IdleIsReleased, NoSession, VerifyReset,
         VerifyIn, StartsSession
    <3> HIDE DEF z
    <3> QED
      BY <1>session, <1>bound, <1>4, <3>1, <3>3, SessionStepBound DEF BLEStart, BLEConnected
  <2>2. CASE ~(c \in DropsSecuritySession /\ Secured(s))
    <3>1. session' = [session EXCEPT ![s] = y]
      BY <1>4, <2>2 DEF BLEStart
    <3>2. /\ y.hap = x.hap /\ y.verify = x.verify /\ y.link = x.link /\ y.procedure = p
      BY <1>session DEF ReadySessions, SessionStates
    <3>3. Secured(s) = x.hap.active
      BY <1>session, <1>unsecured DEF Secured, SecuredIn, HapStates
    <3>4. BoundSession(y, pairings) /\ ProcedureCurrent(y) /\ IdleIsReleased(y)
      BY <1>session, <1>4, <3>2, <3>3
         DEF BoundSession, ProcedureCurrent, IdleIsReleased, BLEStart, BLEConnected
    <3> HIDE DEF y
    <3> QED
      BY <1>session, <1>bound, <1>4, <3>1, <3>4, SessionStepBound DEF BLEStart, BLEConnected
  <2> QED
    BY <2>1, <2>2
<1>5. ASSUME NEW c \in Characteristics, BLEOtherRequest(s, c)
      PROVE  BoundInv'
  BY <1>session, <1>bound, <1>5, CompletesBound DEF BLEOtherRequest, BLETransaction, BLEConnected
<1>6. ASSUME NEW c \in Controllers, BLEPairSetup(s, c)
      PROVE  BoundInv'
  <2>1. /\ running /\ running' /\ x.link = "Connected" /\ Completes(s, x, pairings')
        /\ cache' = cache /\ ~Secured(s) /\ DOMAIN pairings = {}
    BY <1>6 DEF BLEPairSetup, BLETransaction, BLEConnected, IsPaired
  <2>2. BoundCache(cache', pairings')
    BY <1>bound, <2>1 DEF BoundCache, Bound
  <2>3. BoundSession(x, pairings')
    BY <1>session, <1>unsecured, <2>1 DEF BoundSession, Bound
  <2> QED
    BY <1>session, <2>1, <2>2, <2>3, CompletesBound
<1>7. ASSUME NEW m \in VerifyMessages, NEW response \in BOOLEAN,
             BLEPairVerify(s, m, response)
      PROVE  BoundInv'
  <2> DEFINE v == AfterVerifyWrite(s, x.verify, m)
             elements == CacheAfterVerifyWrite(s, m)
             y == [x EXCEPT !.verify = v]
             z == [x EXCEPT !.verify = AfterVerifyRead(v),
                            !.hap = HapAfterVerifyRead(x.hap, v)]
  <2>1. /\ running /\ running' /\ pairings' = pairings
        /\ x.link = "Connected" /\ ~x.hap.active
    BY <1>unsecured, <1>7 DEF BLEPairVerify, BLETransaction, BLEConnected
  <2>2. v \in VerifyStates /\ Ready(v)
    BY <1>session, VerifyWriteType DEF IInv, ListInv
  <2>3. StartsSession(v) => Bound(v, pairings)
    BY <1>session, <1>bound, <2>1, VerifyWriteBound DEF BoundSession
  <2>4. BoundCache(elements, pairings)
    BY <1>bound, <2>1 DEF CacheAfterVerifyWrite, KVSRemove, KVSRestrict, BoundCache
  <2>5. /\ AfterVerifyRead(v) \in VerifyStates /\ Ready(AfterVerifyRead(v))
        /\ HapAfterVerifyRead(x.hap, v) \in HapStates
    BY <1>session, <2>2, VerifyReadType
  <2>6. y \in ReadySessions /\ z \in ReadySessions
    BY <1>session, <2>2, <2>5, UpdateSession
  <2>7. /\ y.link = "Connected" /\ y.hap = x.hap /\ y.verify = v
        /\ z.link = "Connected" /\ z.hap = HapAfterVerifyRead(x.hap, v)
        /\ z.verify = AfterVerifyRead(v)
    BY <1>session, <2>1 DEF ReadySessions, SessionStates
  <2>8. BoundSession(y, pairings)
    BY <2>1, <2>3, <2>7 DEF BoundSession
  <2>9. BoundSession(z, pairings)
    BY <2>1, <2>3, <2>4, <2>7, VerifyReadBound DEF BoundSession
  <2>10. BoundCache(cache', pairings')
    <3>1. cache' \in CachesAfterVerifyRead(s, elements, v) \/ cache' = elements
      BY <1>7 DEF BLEPairVerify
    <3> QED
      BY <2>1, <2>3, <2>4, <3>1, VerifyReadBound
  <2>11. Completes(s, y, pairings') \/ Completes(s, z, pairings')
    BY <1>7, <2>1 DEF BLEPairVerify
  <2> HIDE DEF y, z
  <2> QED
    BY <1>session, <2>1, <2>6, <2>7, <2>8, <2>9, <2>10, <2>11, CompletesBound
<1>8. CASE BLEPairVerifyRead(s)
  <2> DEFINE v == x.verify
             z == [x EXCEPT !.verify = AfterVerifyRead(v),
                            !.hap = HapAfterVerifyRead(x.hap, v)]
  <2>1. /\ running /\ running' /\ pairings' = pairings /\ Completes(s, z, pairings')
        /\ x.link = "Connected" /\ ~x.hap.active
    BY <1>unsecured, <1>8 DEF BLEPairVerifyRead, BLETransaction, BLEConnected
  <2>2. /\ AfterVerifyRead(v) \in VerifyStates /\ Ready(AfterVerifyRead(v))
        /\ HapAfterVerifyRead(x.hap, v) \in HapStates
    BY <1>session, VerifyReadType
  <2>3. z \in ReadySessions
    BY <1>session, <2>2, UpdateSession
  <2>4. /\ z.link = "Connected" /\ z.hap = HapAfterVerifyRead(x.hap, v)
        /\ z.verify = AfterVerifyRead(v)
    BY <1>session, <2>1 DEF ReadySessions, SessionStates
  <2>5. BoundSession(z, pairings')
    BY <1>session, <1>bound, <2>1, <2>4, VerifyReadBound DEF BoundSession
  <2>6. BoundCache(cache', pairings')
    BY <1>session, <1>bound, <1>8, <2>1, VerifyReadBound DEF BLEPairVerifyRead, BoundSession
  <2> HIDE DEF z
  <2> QED
    BY <1>session, <2>1, <2>3, <2>4, <2>5, <2>6, CompletesBound
<1>9. CASE BLEPairVerifyFails(s)
  BY <1>9, HaltBound DEF BLEPairVerifyFails, Fail
<1>10. ASSUME NEW m \in PairingsMessages, NEW response \in BOOLEAN,
              BLEPairings(s, m, response)
       PROVE  BoundInv'
  <2> DEFINE written == ListAfterWrite(x.hap, x.request, m)
             q == AfterPairingsWrite(x.hap, x.request, m)
             elements == CacheAfterWrite(x.hap, x.request, m)
  <2>1. running /\ running' /\ BLETransaction(s, "Pairings", TRUE)
    BY <1>10 DEF BLEPairings, BLETransaction, BLEConnected
  <2>2. BoundCache(elements, written)
    BY <1>bound, <2>1, WriteBoundCache
  <2>3. BoundCache(cache', pairings')
    BY <1>10, <2>2, ReadBoundCache DEF BLEPairings
  <2>4. KeepsIds(pairings, written)
    BY WriteKeepsIds
  <2>5. KeepsIds(pairings, ListAfterRead(x.hap, q, written))
    BY <2>4, ReadKeepsIds DEF KeepsIds
  <2>6. KeepsIds(pairings, pairings')
    BY <1>10, <2>4, <2>5 DEF BLEPairings
  <2>7. q \in RequestStates /\ PairingsReset \in RequestStates
    BY <1>session, RequestType, ReleasedType
  <2>8. \/ Completes(s, [x EXCEPT !.request = q], pairings')
        \/ Completes(s, [x EXCEPT !.request = PairingsReset], pairings')
    BY <1>10 DEF BLEPairings
  <2> QED
    BY <2>1, <2>3, <2>6, <2>7, <2>8, PairingsCompletesBound
<1>11. CASE BLEPairingsRead(s)
  <2>1. running /\ running' /\ BLETransaction(s, "Pairings", TRUE)
    BY <1>11 DEF BLEPairingsRead, BLETransaction, BLEConnected
  <2>2. BoundCache(cache', pairings') /\ KeepsIds(pairings, pairings')
    BY <1>bound, <1>11, <2>1, ReadBoundCache, ReadKeepsIds DEF BLEPairingsRead
  <2>3. Completes(s, [x EXCEPT !.request = PairingsReset], pairings')
    BY <1>11 DEF BLEPairingsRead
  <2> QED
    BY <2>1, <2>2, <2>3, PairingsCompletesBound, ReleasedType
<1>12. ASSUME NEW m \in PairingsMessages, BLEPairingsCutOff(s, m)
       PROVE  BoundInv'
  BY <1>12, HaltBound DEF BLEPairingsCutOff, AddCutOff, RemoveCutOff, PowerLossInPurge
<1> QED
  BY <1>1, <1>2, <1>3, <1>4, <1>5, <1>6, <1>7, <1>8, <1>9, <1>10, <1>11, <1>12 DEF BLENext

LEMMA IPActionsAreIP ==
    ASSUME NEW s, IPNext(s)
    PROVE  s \in IPSessions
BY DEF IPNext, IPAccept, IPClose, IPWriteCompletes, IPInputFails, IPPairVerifyFails,
   IPOtherRequest, IPPairSetup, IPPairVerify, IPPairings, IPPairingsReadFails,
   IPPairingsCutOff, IPReceives, IPReads

LEMMA BoundInvariance ==
    ASSUME IPSessions = {}
    PROVE  Spec => []BoundInv
<1>1. Init => BoundInv
  BY InitInv, PurgeKeepsIds, NewSessionBound DEF Init, BoundInv, BoundCache
<1>2. BoundInv /\ [Next]_vars => BoundInv'
  <2> SUFFICES ASSUME BoundInv, [Next]_vars PROVE BoundInv'
    OBVIOUS
  <2>1. IInv'
    BY ServerInv, IPInv, BLEInv, StutterInv DEF Next, BoundInv
  <2>2. CASE ServerNext
    BY <2>1, <2>2, ServerBound
  <2>3. ASSUME NEW s \in Sessions, IPNext(s) \/ BLENext(s)
        PROVE  BoundInv'
    BY <2>1, <2>3, BLEBound, IPActionsAreIP
  <2>4. CASE UNCHANGED vars
    BY <2>1, <2>4 DEF vars, BoundInv
  <2> QED
    BY <2>2, <2>3, <2>4 DEF Next
<1> QED
  BY <1>1, <1>2, PTL DEF Spec

\* The request that changes the list is one of an admin.
LEMMA ChangeIsAuthorized ==
    ASSUME IPSessions = {}, BoundInv, Next, running, IsPaired(pairings),
           pairings' # pairings
    PROVE  \E s \in Sessions : /\ Secured(s)
                              /\ \E k \in HAPPairingFind(pairings, session[s].hap.peer) :
                                    pairings[k].admin
<1>1. ~ServerNext
  BY DEF ServerNext, Start, Stop, PowerOff, HAPRemoveAllPairings,
     PowerLossInRemoveAllPairings
<1>2. PICK s \in Sessions : BLENext(s)
  BY <1>1, IPActionsAreIP DEF Next
<1> DEFINE hap == session[s].hap
<1>3. AdminIn(hap, pairings)
  <2>1. CASE \E m \in PairingsMessages, response \in BOOLEAN : BLEPairings(s, m, response)
    <3>1. PICK m \in PairingsMessages, response \in BOOLEAN : BLEPairings(s, m, response)
      BY <2>1
    <3> DEFINE q == AfterPairingsWrite(hap, session[s].request, m)
               written == ListAfterWrite(hap, session[s].request, m)
    <3>2. CASE Adds(hap, session[s].request, m)
      BY <3>2 DEF Adds
    <3>3. CASE ~Adds(hap, session[s].request, m)
      <4>1. written = pairings
        BY <3>3 DEF ListAfterWrite
      <4>2. pairings' = ListAfterRead(hap, q, pairings)
        BY <3>1, <4>1 DEF BLEPairings
      <4> QED
        BY <4>2 DEF ListAfterRead, Removes
    <3> QED
      BY <3>2, <3>3
  <2>2. CASE BLEPairingsRead(s)
    BY <2>2 DEF BLEPairingsRead, ListAfterRead, Removes
  <2>3. CASE \E m \in PairingsMessages : BLEPairingsCutOff(s, m)
    BY <2>3 DEF BLEPairingsCutOff, AddCutOff, RemoveCutOff, Adds, Removes
  <2>4. \A c \in Controllers : ~BLEPairSetup(s, c)
    BY DEF BLEPairSetup
  <2>5. /\ ~BLEConnect(s) /\ ~BLEDisconnect(s) /\ ~BLEInvalidate(s)
        /\ \A c \in Characteristics : ~BLEStart(s, c) /\ ~BLEOtherRequest(s, c)
        /\ \A m \in VerifyMessages, response \in BOOLEAN : ~BLEPairVerify(s, m, response)
        /\ ~BLEPairVerifyRead(s) /\ ~BLEPairVerifyFails(s)
    BY DEF BLEConnect, BLEDisconnect, BLEInvalidate, BLEStart, BLEOtherRequest,
       BLEPairVerify, BLEPairVerifyRead, BLEPairVerifyFails, Fail
  <2> QED
    BY <1>2, <2>1, <2>2, <2>3, <2>4, <2>5 DEF BLENext
<1>4. Secured(s) /\ Bound(hap, pairings) /\ pairings[hap.pairingID].admin
  BY <1>3 DEF AdminIn, Secured, SecuredIn, BoundInv, BoundSession
<1>5. hap.pairingID \in HAPPairingFind(pairings, hap.peer)
  BY <1>4 DEF Bound, HAPPairingFind
<1> QED
  BY <1>4, <1>5

-------------------------------------------------------------------------------
\* A secured BLE session acts for the controller it verified: the key it remembers,
\* session->hap.pairingID, is never given to another controller under it.
THEOREM BLESessionsBound ==
    ASSUME IPSessions = {}
    PROVE  Spec => []SessionsBound
<1>1. BoundInv => SessionsBound
  BY DEF BoundInv, BoundSession, Bound, SessionsBound, Secured, SecuredIn
<1> QED
  BY <1>1, BoundInvariance, PTL

\* An element of the resume cache is one of a paired controller, so that Pair Resume
\* never opens a session for one that was removed.
THEOREM BLEResumeEntriesBound ==
    ASSUME IPSessions = {}
    PROVE  Spec => []ResumeEntriesBound
<1>1. BoundInv => ResumeEntriesBound
  BY DEF BoundInv, BoundCache, Bound, ResumeEntriesBound
<1> QED
  BY <1>1, BoundInvariance, PTL

\* The list of a paired accessory changes only by a request of a session whose
\* controller, the one that verified, is an admin.
THEOREM BLEPeerAuthorized ==
    ASSUME IPSessions = {}
    PROVE  Spec => PeerAuthorized
<1>1. BoundInv /\ [Next]_vars =>
        [ running /\ IsPaired(pairings) /\ pairings' # pairings =>
            \E s \in Sessions : /\ Secured(s)
                                /\ \E k \in HAPPairingFind(pairings, session[s].hap.peer) :
                                      pairings[k].admin ]_vars
  BY ChangeIsAuthorized
<1> QED
  BY <1>1, BoundInvariance, PTL DEF Spec, PeerAuthorized

-------------------------------------------------------------------------------
\* The roles of PairingList in a stored list.

Roles(store) == [c \in Controllers |-> RoleOf(store, c)]

Role(p) == IF p.admin THEN "admin" ELSE "user"

\* A role is that of the one pairing that is stored for a controller.
LEMMA RoleOfPaired ==
    ASSUME NEW store \in PairingStores, Unique(store), AdminFound(store),
           NEW k \in DOMAIN store
    PROVE  /\ store[k].id \in Controllers
           /\ Roles(store)[store[k].id] = Role(store[k])
<1>1. store[k].id \in Controllers
  BY PairingStoreElim
<1>2. HAPPairingFind(store, store[k].id) = {k}
  BY DEF HAPPairingFind, Unique
<1> QED
  BY <1>1, <1>2 DEF Roles, RoleOf, Role

\* Who is not stored, or is stored in a list without an admin, has no role.
LEMMA RoleOfOthers ==
    ASSUME NEW store, NEW c \in Controllers, HAPPairingFind(store, c) = {} \/ ~AdminFound(store)
    PROVE  Roles(store)[c] = "none"
BY DEF Roles, RoleOf

\* Without an admin nobody has a role.
LEMMA NobodyHasARole ==
    ASSUME NEW store, ~AdminFound(store)
    PROVE  Roles(store) = List!Nothing
BY RoleOfOthers DEF Roles, List!Nothing

\* The list has an admin exactly if a controller has that role.
LEMMA HasAdminRole ==
    ASSUME NEW store \in PairingStores, Unique(store)
    PROVE  List!HasAdmin(Roles(store)) <=> AdminFound(store)
<1>1. ASSUME AdminFound(store) PROVE List!HasAdmin(Roles(store))
  <2>1. PICK k \in DOMAIN store : store[k].admin
    BY <1>1 DEF AdminFound
  <2> QED
    BY <1>1, <2>1, RoleOfPaired DEF List!HasAdmin, Role
<1>2. ASSUME ~AdminFound(store), List!HasAdmin(Roles(store)) PROVE FALSE
  BY <1>2, RoleOfOthers DEF List!HasAdmin
<1> QED
  BY <1>1, <1>2

\* A list whose pairings have the roles r, admin or not, has the settled roles of r.
LEMMA SettledRoles ==
    ASSUME NEW store \in PairingStores, Unique(store),
           NEW r \in [Controllers -> {"none", "user", "admin"}],
           \A k \in DOMAIN store : r[store[k].id] = Role(store[k]),
           \A c \in Controllers : HAPPairingFind(store, c) = {} => r[c] = "none"
    PROVE  Roles(store) = List!Settled(r)
<1>1. ASSUME NEW c \in Controllers, HAPPairingFind(store, c) # {}
      PROVE  \E k \in DOMAIN store : store[k].id = c
  BY <1>1 DEF HAPPairingFind
<1>2. CASE AdminFound(store)
  <2>1. ASSUME NEW c \in Controllers PROVE Roles(store)[c] = r[c]
    BY <1>1, <1>2, RoleOfPaired, RoleOfOthers
  <2>2. Roles(store) = r
    BY <2>1 DEF Roles
  <2> QED
    BY <1>2, <2>2, HasAdminRole DEF List!Settled
<1>3. CASE ~AdminFound(store)
  <2>1. ASSUME NEW c \in Controllers, r[c] = "admin" PROVE FALSE
    <3>1. PICK k \in DOMAIN store : store[k].id = c
      BY <1>1, <2>1
    <3> QED
      BY <1>3, <2>1, <3>1 DEF AdminFound, Role
  <2> QED
    BY <1>3, <2>1, NobodyHasARole DEF List!Settled, List!HasAdmin
<1> QED
  BY <1>2, <1>3

LEMMA RolesType ==
    ASSUME NEW store
    PROVE  Roles(store) \in [Controllers -> {"none", "user", "admin"}]
BY DEF Roles, RoleOf

-------------------------------------------------------------------------------
\* What the operations do to the roles.

\* HAPAccessoryServerCleanupPairings does not change the roles.
LEMMA CleanRoles ==
    ASSUME NEW store
    PROVE  Roles(CleanupPairings(store)) = Roles(store)
BY PurgedList, NobodyHasARole DEF CleanupPairings

\* A purge of a list without an admin may be cut off anywhere.
LEMMA PurgedRoles ==
    ASSUME NEW store, ~AdminFound(store), NEW rest \in KVSPartlyPurged(store)
    PROVE  Roles(rest) = List!Nothing
<1>1. ~AdminFound(rest)
  BY DEF KVSPartlyPurged, KVSRestrict, AdminFound
<1> QED
  BY <1>1, NobodyHasARole

\* A purge that is cut off clears the list but for what it left.
LEMMA PartlyPurgedRoles ==
    ASSUME NEW store \in PairingStores, Unique(store), NEW rest \in KVSPartlyPurged(store)
    PROVE  \E kept \in SUBSET Controllers :
               Roles(rest) = List!Settled([c \in Controllers |->
                                 IF c \in kept THEN Roles(store)[c] ELSE "none"])
<1> DEFINE kept == {c \in Controllers : HAPPairingFind(rest, c) # {}}
           r == [c \in Controllers |-> IF c \in kept THEN Roles(store)[c] ELSE "none"]
<1>1. rest \in PairingStores /\ Unique(rest)
  BY PartlyPurgedList
<1>2. PICK D \in SUBSET DOMAIN store : rest = KVSRestrict(store, D)
  BY DEF KVSPartlyPurged
<1>3. DOMAIN rest = D /\ \A k \in D : rest[k] = store[k]
  BY <1>2 DEF KVSRestrict
<1>4. r \in [Controllers -> {"none", "user", "admin"}]
  BY RolesType
<1>5. CASE AdminFound(store)
  <2>1. ASSUME NEW k \in DOMAIN rest PROVE r[rest[k].id] = Role(rest[k])
    <3>1. k \in DOMAIN store /\ rest[k] = store[k]
      BY <1>3
    <3>2. rest[k].id \in Controllers /\ Roles(store)[rest[k].id] = Role(rest[k])
      BY <1>5, <3>1, RoleOfPaired
    <3>3. rest[k].id \in kept
      BY <3>2 DEF HAPPairingFind
    <3> QED
      BY <3>2, <3>3
  <2>2. \A c \in Controllers : HAPPairingFind(rest, c) = {} => r[c] = "none"
    OBVIOUS
  <2> HIDE DEF r
  <2>3. Roles(rest) = List!Settled(r)
    BY <1>1, <1>4, <2>1, <2>2, SettledRoles
  <2> QED
    BY <2>3 DEF r
<1>6. CASE ~AdminFound(store)
  <2>1. Roles(rest) = List!Nothing
    BY <1>6, PurgedRoles
  <2>2. r = List!Nothing
    BY <1>6, RoleOfOthers DEF List!Nothing
  <2>3. List!Settled(r) = List!Nothing
    BY <2>2 DEF List!Settled
  <2> QED
    BY <2>1, <2>3
<1> QED
  BY <1>5, <1>6

\* A list with a free slot has fewer controllers than keys.
LEMMA RoomForOne ==
    ASSUME NEW store \in PairingStores, FreeSlot(store) # {}
    PROVE  Cardinality(List!Paired(Roles(store))) < MaxPairings
<1> DEFINE taken == DOMAIN store
           ids == {store[k].id : k \in taken}
           idOf == [k \in taken |-> store[k].id]
<1>1. PICK free \in Slots \ taken : TRUE
  BY FreeKey
<1>2. MaxPairings \in Nat /\ Slots = 0 .. MaxPairings - 1
  BY PairingAssumption DEF Slots
<1>3. IsFiniteSet(Slots) /\ Cardinality(Slots) = MaxPairings
  BY <1>2, FS_Interval
<1>4. taken \subseteq Slots \ {free}
  BY <1>1, PairingStoreElim
<1>5. IsFiniteSet(Slots \ {free}) /\ Cardinality(Slots \ {free}) = MaxPairings - 1
  BY <1>1, <1>3, FS_RemoveElement
<1>6. IsFiniteSet(taken) /\ Cardinality(taken) <= MaxPairings - 1 /\ Cardinality(taken) \in Nat
  BY <1>4, <1>5, FS_Subset, FS_CardinalityType
<1>7. IsFiniteSet(ids) /\ Cardinality(ids) <= Cardinality(taken) /\ Cardinality(ids) \in Nat
  <2>1. idOf \in Surjection(taken, ids)
    BY DEF Surjection
  <2> HIDE DEF idOf, ids, taken
  <2> QED
    BY <1>6, <2>1, FS_Surjection, FS_CardinalityType
<1>8. ASSUME NEW c \in Controllers, Roles(store)[c] # "none" PROVE c \in ids
  BY <1>8, RoleOfOthers DEF HAPPairingFind
<1>9. List!Paired(Roles(store)) \subseteq ids
  BY <1>8 DEF List!Paired
<1>10. Cardinality(List!Paired(Roles(store))) <= Cardinality(ids)
       /\ Cardinality(List!Paired(Roles(store))) \in Nat
  BY <1>7, <1>9, FS_Subset, FS_CardinalityType
<1> HIDE DEF ids
<1> QED
  BY <1>2, <1>6, <1>7, <1>10

\* Storing a pairing gives its controller the role; the other pairings keep theirs.
LEMMA SetRoles ==
    ASSUME NEW store \in PairingStores, Unique(store), AdminFound(store),
           NEW key \in Slots, NEW p \in Pairing,
           \A k \in DOMAIN store : store[k].id = p.id <=> k = key,
           key \in DOMAIN store \/ HAPPairingFind(store, p.id) = {}
    PROVE  Roles(KVSSet(store, key, p)) = List!Settled([Roles(store) EXCEPT ![p.id] = Role(p)])
<1> DEFINE set == KVSSet(store, key, p)
           r == [Roles(store) EXCEPT ![p.id] = Role(p)]
<1>1. set \in PairingStores
  BY KVSSetType DEF PairingStores
<1>2. DOMAIN set = DOMAIN store \cup {key} /\ set[key] = p
      /\ \A k \in DOMAIN store : k # key => set[k] = store[k]
  BY DEF KVSSet
<1>3. p.id \in Controllers /\ Role(p) \in {"user", "admin"}
  BY DEF Pairing, Role
<1>4. \A k \in DOMAIN store : k # key => store[k].id # p.id
  OBVIOUS
<1> HIDE DEF set
<1>5. Unique(set)
  BY <1>2, <1>4 DEF Unique
<1>6. r \in [Controllers -> {"none", "user", "admin"}] /\ r[p.id] = Role(p)
      /\ \A c \in Controllers : c # p.id => r[c] = Roles(store)[c]
  BY <1>3, RolesType
<1> HIDE DEF r
<1>7. ASSUME NEW k \in DOMAIN set PROVE r[set[k].id] = Role(set[k])
  <2>1. CASE k = key
    BY <1>2, <1>6, <2>1
  <2>2. CASE k # key
    <3>1. k \in DOMAIN store /\ set[k] = store[k] /\ store[k].id # p.id
      BY <1>2, <1>4, <2>2
    <3>2. store[k].id \in Controllers /\ Roles(store)[store[k].id] = Role(store[k])
      BY <3>1, RoleOfPaired
    <3> QED
      BY <1>6, <3>1, <3>2
  <2> QED
    BY <2>1, <2>2
<1>8. ASSUME NEW c \in Controllers, HAPPairingFind(set, c) = {} PROVE r[c] = "none"
  <2>1. c # p.id
    BY <1>2, <1>8 DEF HAPPairingFind
  <2>2. HAPPairingFind(store, c) = {}
    <3>1. ASSUME NEW k \in DOMAIN store, store[k].id = c PROVE FALSE
      <4>1. k # key
        BY <2>1, <3>1
      <4> QED
        BY <1>2, <1>8, <3>1, <4>1 DEF HAPPairingFind
    <3> QED
      BY <3>1 DEF HAPPairingFind
  <2> QED
    BY <1>6, <2>1, <2>2, RoleOfOthers
<1>9. Roles(set) = List!Settled(r)
  BY <1>1, <1>5, <1>6, <1>7, <1>8, SettledRoles
<1> QED
  BY <1>9 DEF set, r

\* Add Pairing, before and after its clean-up.
LEMMA AddRoles ==
    ASSUME NEW store \in PairingStores, Unique(store), AdminFound(store),
           NEW m, IsAdd(m), ~AddRefused(store, m)
    PROVE  /\ Roles(AddPairingSet(store, m)) =
                 List!Settled([Roles(store) EXCEPT ![m.id] = Role(m)])
           /\ Roles(AddPairing(store, m)) = Roles(AddPairingSet(store, m))
           /\ Roles(store)[m.id] = "none" =>
                 Cardinality(List!Paired(Roles(store))) < MaxPairings
<1> DEFINE key == IF AddUpdates(store, m) THEN PairingKey(store, m.id)
                                          ELSE CHOOSE k \in FreeSlot(store) : TRUE
           new == [id |-> m.id, admin |-> m.admin]
<1>1. AddPairingSet(store, m) = KVSSet(store, key, new)
  BY DEF AddPairingSet
<1>2. new \in Pairing /\ new.id = m.id /\ Role(new) = Role(m)
  BY DEF IsAdd, Pairing, Role
<1>3. CASE AddUpdates(store, m)
  <2>1. PairingKey(store, m.id) \in DOMAIN store /\ store[PairingKey(store, m.id)].id = m.id
    BY <1>3, FoundKey DEF AddUpdates
  <2>2. key \in DOMAIN store /\ store[key].id = m.id
    BY <1>3, <2>1
  <2> HIDE DEF key
  <2>3. key \in Slots /\ \A k \in DOMAIN store : store[k].id = m.id <=> k = key
    BY <2>2, PairingStoreElim DEF Unique
  <2>4. Roles(store)[m.id] # "none"
    BY <2>2, RoleOfPaired DEF Role
  <2> HIDE DEF new
  <2>5. Roles(KVSSet(store, key, new)) = List!Settled([Roles(store) EXCEPT ![new.id] = Role(new)])
    BY <1>2, <2>2, <2>3, SetRoles
  <2> QED
    BY <1>1, <1>2, <1>3, <2>4, <2>5, CleanRoles DEF AddPairing
<1>4. CASE ~AddUpdates(store, m)
  <2>1. HAPPairingFind(store, m.id) = {} /\ FreeSlot(store) # {}
    BY <1>4 DEF AddRefused, AddCreates
  <2>2. key \in Slots \ DOMAIN store
    BY <1>4, <2>1, FreeKey
  <2> HIDE DEF key
  <2>3. \A k \in DOMAIN store : store[k].id = m.id <=> k = key
    BY <2>1, <2>2 DEF HAPPairingFind
  <2> HIDE DEF new
  <2>4. Roles(KVSSet(store, key, new)) = List!Settled([Roles(store) EXCEPT ![new.id] = Role(new)])
    BY <1>2, <2>1, <2>2, <2>3, SetRoles
  <2> QED
    BY <1>1, <1>2, <1>4, <2>1, <2>4, RoomForOne DEF AddPairing
<1> QED
  BY <1>3, <1>4

\* Remove Pairing, before and after its clean-up.
LEMMA RemoveRoles ==
    ASSUME NEW store \in PairingStores, Unique(store), AdminFound(store),
           NEW id, HAPPairingFind(store, id) # {}
    PROVE  /\ id \in Controllers
           /\ Roles(RemovePairingKey(store, id)) =
                 List!Settled([Roles(store) EXCEPT ![id] = "none"])
           /\ Roles(RemovePairing(store, id)) = Roles(RemovePairingKey(store, id))
<1> DEFINE key == PairingKey(store, id)
           rest == RemovePairingKey(store, id)
           r == [Roles(store) EXCEPT ![id] = "none"]
<1>1. key \in DOMAIN store /\ store[key].id = id
  BY FoundKey
<1>2. id \in Controllers
  BY <1>1, PairingStoreElim
<1>3. DOMAIN rest = DOMAIN store \ {key} /\ \A k \in DOMAIN rest : rest[k] = store[k]
  BY DEF RemovePairingKey, KVSRemove, KVSRestrict
<1>4. rest \in PairingStores /\ Unique(rest)
  BY RemovePairingKeyList
<1>5. r \in [Controllers -> {"none", "user", "admin"}] /\ r[id] = "none"
      /\ \A c \in Controllers : c # id => r[c] = Roles(store)[c]
  BY <1>2, RolesType
<1>6. Roles(RemovePairing(store, id)) = Roles(rest)
  BY CleanRoles DEF RemovePairing
<1> HIDE DEF rest, r, key
<1>7. ASSUME NEW k \in DOMAIN rest PROVE r[rest[k].id] = Role(rest[k])
  <2>1. k \in DOMAIN store /\ rest[k] = store[k] /\ store[k].id # id
    BY <1>1, <1>3 DEF Unique
  <2>2. store[k].id \in Controllers /\ Roles(store)[store[k].id] = Role(store[k])
    BY <2>1, RoleOfPaired
  <2> QED
    BY <1>5, <2>1, <2>2
<1>8. ASSUME NEW c \in Controllers, HAPPairingFind(rest, c) = {} PROVE r[c] = "none"
  <2>1. CASE c = id
    BY <1>5, <2>1
  <2>2. CASE c # id
    <3>1. HAPPairingFind(store, c) = {}
      BY <1>1, <1>3, <1>8, <2>2 DEF HAPPairingFind
    <3> QED
      BY <1>5, <2>2, <3>1, RoleOfOthers
  <2> QED
    BY <2>1, <2>2
<1>9. Roles(rest) = List!Settled(r)
  BY <1>4, <1>5, <1>7, <1>8, SettledRoles
<1> QED
  BY <1>2, <1>6, <1>9 DEF r, rest

\* Pair Setup on an empty list.
LEMMA FirstRoles ==
    ASSUME PairingAssumption, NEW store \in PairingStores, ~IsPaired(store),
           NEW c \in Controllers
    PROVE  /\ Roles(store) = List!Nothing
           /\ Roles(KVSSet(store, 0, [id |-> c, admin |-> TRUE])) =
                 [List!Nothing EXCEPT ![c] = "admin"]
<1> DEFINE first == KVSSet(store, 0, [id |-> c, admin |-> TRUE])
           r == [List!Nothing EXCEPT ![c] = "admin"]
<1>1. Roles(store) = List!Nothing
  BY NobodyHasARole DEF IsPaired, AdminFound
<1>2. first \in PairingStores /\ Unique(first) /\ AdminFound(first)
  BY FirstPairingList
<1>3. DOMAIN first = {0} /\ first[0] = [id |-> c, admin |-> TRUE]
  BY DEF KVSSet, IsPaired
<1>4. first[0].id = c /\ Role(first[0]) = "admin"
  BY <1>3 DEF Role
<1> HIDE DEF first
<1>5. Roles(first)[c] = "admin"
  BY <1>2, <1>3, <1>4, RoleOfPaired
<1>6. ASSUME NEW d \in Controllers, d # c PROVE Roles(first)[d] = "none"
  BY <1>3, <1>4, <1>6, RoleOfOthers DEF HAPPairingFind
<1>7. Roles(first) = r
  BY <1>5, <1>6 DEF Roles, List!Nothing
<1> QED
  BY <1>1, <1>7 DEF first

-------------------------------------------------------------------------------
\* A free descriptor has no session, and a stopped accessory only those.

IdleIsInactive(x) == x.link = "Idle" => ~x.hap.active

Closed ==
    \A s \in Sessions : /\ IdleIsInactive(session[s])
                        /\ ~running => session[s].link = "Idle"

RoleInv == IInv /\ Closed

LEMMA NewSessionsInactive ==
    /\ Released.link = "Idle" /\ ~Released.hap.active
    /\ \A l : ~NewSession(l).hap.active
BY DEF Released, NewSession, NoSession

\* The updates of the sessions that the actions are made of.
LEMMA HaltCloses ==
    ASSUME Halt
    PROVE  Closed'
BY NewSessionsInactive DEF Halt, Closed, IdleIsInactive

LEMMA SessionStepCloses ==
    ASSUME SessionInv, Closed, running, running' = running,
           NEW s \in Sessions, NEW x, IdleIsInactive(x),
           session' = [session EXCEPT ![s] = x]
    PROVE  Closed'
BY DEF Closed, SessionInv

LEMMA WritingIsOpen ==
    ASSUME NEW x \in ReadySessions
    PROVE  /\ IdleIsInactive([x EXCEPT !.link = "Writing"])
           /\ IdleIsInactive([x EXCEPT !.link = "Reading"])
BY DEF IdleIsInactive, ReadySessions, SessionStates

LEMMA RespondsCloses ==
    ASSUME SessionInv, Closed, running, running' = running,
           NEW s, NEW x \in ReadySessions, NEW store, Responds(s, x, store)
    PROVE  Closed'
BY NewSessionsInactive, WritingIsOpen DEF Closed, Responds, IdleIsInactive

LEMMA RespondsErrorCloses ==
    ASSUME SessionInv, Closed, running, running' = running,
           NEW s \in Sessions, NEW x \in ReadySessions, RespondsError(s, x)
    PROVE  Closed'
BY WritingIsOpen, SessionStepCloses DEF RespondsError

LEMMA CompletesCloses ==
    ASSUME SessionInv, Closed, running, running' = running,
           NEW s \in Sessions, NEW x \in ReadySessions, x.link = "Connected", NEW store,
           Completes(s, x, store)
    PROVE  Closed'
<1> DEFINE y == IF x.procedure.startedSecured /\ ~SecuredIn(x.hap, store)
                THEN Terminal ELSE [x EXCEPT !.procedure = NoProcedure]
<1>1. Terminal.link = "Terminal"
  BY DEF Terminal, NewSession
<1>2. [x EXCEPT !.procedure = NoProcedure].link = "Connected"
  BY DEF ReadySessions, SessionStates
<1>3. IdleIsInactive(y)
  BY <1>1, <1>2 DEF IdleIsInactive
<1>4. session' = [session EXCEPT ![s] = y]
  BY DEF Completes
<1> HIDE DEF y
<1> QED
  BY <1>3, <1>4, SessionStepCloses

\* Whoever acts has a role.
Acting(store, sessions) ==
    {store[sessions[s].hap.pairingID].id :
        s \in {t \in Sessions : SecuredIn(sessions[t].hap, store)}}

ActorsHaveRoles ==
    Acting(pairings, session) \subseteq
        IF running THEN List!Paired(Roles(pairings)) ELSE {}

LEMMA ActingHaveRoles == RoleInv => ActorsHaveRoles
<1> SUFFICES ASSUME RoleInv,
                    NEW s \in Sessions, SecuredIn(session[s].hap, pairings)
             PROVE  /\ running
                    /\ pairings[session[s].hap.pairingID].id \in List!Paired(Roles(pairings))
  BY DEF ActorsHaveRoles, Acting
<1>1. session[s].hap.active /\ session[s].hap.pairingID \in DOMAIN pairings
  BY DEF SecuredIn
<1>2. running
  BY <1>1 DEF RoleInv, Closed, IdleIsInactive
<1>3. pairings \in PairingStores /\ Unique(pairings) /\ AdminFound(pairings)
  BY <1>1, <1>2 DEF RoleInv, IInv, ListInv, AdminExists, IsPaired
<1> QED
  BY <1>1, <1>2, <1>3, RoleOfPaired DEF List!Paired, Role

-------------------------------------------------------------------------------
\* The requests of the Pairings procedure change one role, for an admin.

\* "new" has the role of one controller changed, and "hap" acts for an admin.
OneRoleChanges(hap, new) ==
    /\ AdminIn(hap, pairings)
    /\ \E c \in Controllers, r \in List!Roles :
          /\ Roles(new) = List!Settled([Roles(pairings) EXCEPT ![c] = r])
          /\ Roles(pairings)[c] = "none" /\ r # "none" =>
                Cardinality(List!Paired(Roles(pairings))) < MaxPairings

\* Add Pairing M1 and Remove Pairing M2, with their clean-up and cut off before it.
LEMMA AddChanges ==
    ASSUME Settled(pairings), NEW hap, NEW q, NEW m \in PairingsMessages,
           Adds(hap, q, m), ~AddRefused(pairings, m)
    PROVE  /\ OneRoleChanges(hap, AddPairing(pairings, m))
           /\ OneRoleChanges(hap, AddPairingSet(pairings, m))
<1>1. AdminIn(hap, pairings) /\ AdminFound(pairings) /\ IsAdd(m)
  BY AdminInFound, PairingsMessageType DEF Adds
<1>2. m.id \in Controllers /\ Role(m) \in List!Roles
  BY <1>1 DEF IsAdd, Role, List!Roles
<1> QED
  BY <1>1, <1>2, AddRoles DEF OneRoleChanges, Settled

LEMMA RemoveChanges ==
    ASSUME Settled(pairings), NEW hap, AdminIn(hap, pairings),
           NEW id, HAPPairingFind(pairings, id) # {}
    PROVE  /\ OneRoleChanges(hap, RemovePairing(pairings, id))
           /\ OneRoleChanges(hap, RemovePairingKey(pairings, id))
<1>1. AdminFound(pairings) /\ "none" \in List!Roles
  BY AdminInFound DEF List!Roles
<1> QED
  BY <1>1, RemoveRoles DEF OneRoleChanges, Settled

\* The write and the read of a request, each of them.
LEMMA WriteRoles ==
    ASSUME Settled(pairings), NEW hap, NEW q, NEW m \in PairingsMessages
    PROVE  \/ ListAfterWrite(hap, q, m) = pairings
           \/ OneRoleChanges(hap, ListAfterWrite(hap, q, m))
<1>1. CASE Adds(hap, q, m) /\ ~AddRefused(pairings, m)
  BY <1>1, AddChanges DEF ListAfterWrite
<1>2. CASE Adds(hap, q, m) /\ AddRefused(pairings, m)
  BY <1>2 DEF ListAfterWrite, AddPairing, AddPairingSet, AddRefused
<1>3. CASE ~Adds(hap, q, m)
  BY <1>3 DEF ListAfterWrite
<1> QED
  BY <1>1, <1>2, <1>3

LEMMA ReadRoles ==
    ASSUME Settled(pairings), NEW hap, NEW q
    PROVE  \/ ListAfterRead(hap, q, pairings) = pairings
           \/ OneRoleChanges(hap, ListAfterRead(hap, q, pairings))
BY RemoveChanges DEF ListAfterRead, Removes, RemovePairing

\* A request that adds removes nothing.
LEMMA RequestRoles ==
    ASSUME Settled(pairings), NEW hap, NEW q, NEW m \in PairingsMessages,
           NEW new, new = ListAfterRead(hap, AfterPairingsWrite(hap, q, m),
                                        ListAfterWrite(hap, q, m))
    PROVE  new = pairings \/ OneRoleChanges(hap, new)
<1> DEFINE after == AfterPairingsWrite(hap, q, m)
           written == ListAfterWrite(hap, q, m)
<1>1. CASE Adds(hap, q, m)
  <2>1. after.method = "Add"
    BY <1>1 DEF Adds, AfterPairingsWrite
  <2>2. new = written
    BY <2>1 DEF ListAfterRead, Removes
  <2> QED
    BY <2>2, WriteRoles
<1>2. CASE ~Adds(hap, q, m)
  BY <1>2, ReadRoles DEF ListAfterWrite
<1> QED
  BY <1>1, <1>2

\* A request that is cut off took the last admin away: nobody has a role.
LEMMA PurgedAreNobody ==
    ASSUME NEW store, PowerLossInPurge(store)
    PROVE  Roles(pairings') = Roles(store) /\ ~AdminFound(store)
BY PurgedRoles, NobodyHasARole DEF PowerLossInPurge

LEMMA CutOffRoles ==
    ASSUME Settled(pairings), NEW hap, NEW q, NEW m \in PairingsMessages,
           AddCutOff(hap, q, m) \/ RemoveCutOff(hap, q)
    PROVE  OneRoleChanges(hap, pairings')
<1>1. CASE AddCutOff(hap, q, m)
  <2>1. OneRoleChanges(hap, AddPairingSet(pairings, m))
    BY <1>1, AddChanges DEF AddCutOff, AddRefused
  <2> QED
    BY <1>1, <2>1, PurgedAreNobody DEF AddCutOff, OneRoleChanges
<1>2. CASE RemoveCutOff(hap, q)
  <2>1. AdminIn(hap, pairings) /\ ~AdminFound(RemovePairingKey(pairings, q.removed))
    BY <1>2, PurgedAreNobody DEF RemoveCutOff, Removes
  <2>2. HAPPairingFind(pairings, q.removed) # {}
    BY <2>1, AdminInFound DEF RemovePairingKey
  <2>3. OneRoleChanges(hap, RemovePairingKey(pairings, q.removed))
    BY <2>1, <2>2, RemoveChanges
  <2> QED
    BY <1>2, <2>3, PurgedAreNobody DEF RemoveCutOff, OneRoleChanges
<1> QED
  BY <1>1, <1>2

-------------------------------------------------------------------------------
\* Every action is a step of PairingList.

\* A step changes no role, or one as PairingList has it.
RolesChange ==
    \/ pairings' = pairings \/ Roles(pairings') = Roles(pairings)
    \/ /\ running /\ running' = running
       /\ Roles(pairings) = List!Nothing
       /\ \E c \in Controllers : Roles(pairings') = [List!Nothing EXCEPT ![c] = "admin"]
    \/ \E s \in Sessions : OneRoleChanges(session[s].hap, pairings')
    \/ /\ ~running /\ running' = running
       /\ \E kept \in SUBSET Controllers :
             Roles(pairings') = List!Settled([c \in Controllers |->
                                   IF c \in kept THEN Roles(pairings)[c] ELSE "none"])

LEMMA ServerChanges ==
    ASSUME RoleInv, ServerNext
    PROVE  Closed' /\ RolesChange
<1>0. pairings \in PairingStores /\ Unique(pairings) /\ running \in BOOLEAN
  BY DEF RoleInv, IInv, ListInv
<1>1. CASE Start
  BY <1>1, CleanRoles DEF Start, RoleInv, Closed, IdleIsInactive, RolesChange
<1>2. CASE Stop
  BY <1>2 DEF Stop, RoleInv, Closed, IdleIsInactive, RolesChange
<1>3. CASE PowerOff
  BY <1>3, HaltCloses DEF PowerOff, RolesChange
<1>4. CASE HAPRemoveAllPairings
  <2>1. KVSRestrict(pairings, {}) = KVSPurged
    BY DEF KVSPurged, KVSRestrict
  <2>2. KVSPurged \in KVSPartlyPurged(pairings)
    BY <2>1 DEF KVSPartlyPurged
  <2>3. Closed'
    BY <1>4 DEF HAPRemoveAllPairings, RoleInv, Closed, IdleIsInactive
  <2>4. pairings' \in KVSPartlyPurged(pairings) /\ ~running /\ running' = running
    BY <1>4, <2>2 DEF HAPRemoveAllPairings
  <2>5. PICK kept \in SUBSET Controllers :
            Roles(pairings') = List!Settled([c \in Controllers |->
                                  IF c \in kept THEN Roles(pairings)[c] ELSE "none"])
    BY <1>0, <2>4, PartlyPurgedRoles
  <2> QED
    BY <2>3, <2>4, <2>5 DEF RolesChange
<1>5. CASE PowerLossInRemoveAllPairings
  BY <1>0, <1>5, PartlyPurgedRoles, HaltCloses
     DEF PowerLossInRemoveAllPairings, Halt, RolesChange
<1> QED
  BY <1>1, <1>2, <1>3, <1>4, <1>5 DEF ServerNext

\* Pair Setup M5 over either transport.
LEMMA FirstChange ==
    ASSUME RoleInv, running, running' = running, ~IsPaired(pairings), NEW c \in Controllers,
           pairings' = KVSSet(pairings, 0, [id |-> c, admin |-> TRUE])
    PROVE  RolesChange
BY FirstRoles, PairingAssumption DEF RoleInv, IInv, ListInv, RolesChange

LEMMA IPChanges ==
    ASSUME RoleInv, NEW s \in Sessions, IPNext(s)
    PROVE  Closed' /\ RolesChange
<1> DEFINE x == session[s]
<1>0. IInv /\ Closed /\ x \in ReadySessions /\ x.hap \in HapStates
      /\ x.verify \in VerifyStates /\ Ready(x.verify) /\ SessionInv
  BY DEF RoleInv, IInv, SessionInv, ReadySessions, SessionStates
<1>1. CASE IPAccept(s)
  <2>1. IdleIsInactive(NewSession("Reading"))
    BY NewSessionsInactive DEF IdleIsInactive
  <2> QED
    BY <1>0, <1>1, <2>1, SessionStepCloses DEF IPAccept, RolesChange
<1>2. CASE IPClose(s)
  <2>1. IdleIsInactive(Released)
    BY NewSessionsInactive DEF IdleIsInactive
  <2> QED
    BY <1>0, <1>2, <2>1, SessionStepCloses DEF IPClose, RolesChange
<1>3. CASE IPWriteCompletes(s)
  <2> DEFINE y == IF x.isSecured /\ ~Secured(s) THEN Released
                  ELSE [x EXCEPT !.link = "Reading"]
  <2>1. IdleIsInactive(y)
    BY <1>0, NewSessionsInactive, WritingIsOpen DEF IdleIsInactive
  <2>2. session' = [session EXCEPT ![s] = y]
    BY <1>3 DEF IPWriteCompletes
  <2> HIDE DEF y
  <2> QED
    BY <1>0, <1>3, <2>1, <2>2, SessionStepCloses DEF IPWriteCompletes, RolesChange
<1>4. CASE IPInputFails(s)
  BY <1>4, HaltCloses DEF IPInputFails, Fail, RolesChange
<1>5. CASE IPPairVerifyFails(s)
  BY <1>5, HaltCloses DEF IPPairVerifyFails, Fail, RolesChange
<1>6. ASSUME NEW secured \in BOOLEAN, IPOtherRequest(s, secured)
      PROVE  Closed' /\ RolesChange
  <2>1. [x EXCEPT !.isSecured = secured] \in ReadySessions
    BY <1>0, UpdateSession
  <2> QED
    BY <1>0, <1>6, <2>1, RespondsErrorCloses
       DEF IPOtherRequest, IPReceives, IPReads, RolesChange
<1>7. ASSUME NEW c \in Controllers, IPPairSetup(s, c)
      PROVE  Closed' /\ RolesChange
  BY <1>0, <1>7, RespondsCloses, FirstChange DEF IPPairSetup, IPReceives, IPReads
<1>8. ASSUME NEW m \in VerifyMessages, IPPairVerify(s, m)
      PROVE  Closed' /\ RolesChange
  <2> DEFINE v == AfterVerifyWrite(s, x.verify, m)
  <2>1. v \in VerifyStates /\ Ready(v)
    BY <1>0, VerifyWriteType DEF IInv, ListInv
  <2>2. /\ AfterVerifyRead(v) \in VerifyStates /\ Ready(AfterVerifyRead(v))
        /\ HapAfterVerifyRead(x.hap, v) \in HapStates
    BY <1>0, <2>1, VerifyReadType
  <2>3. /\ [x EXCEPT !.verify = v] \in ReadySessions
        /\ [x EXCEPT !.verify = AfterVerifyRead(v),
                     !.hap = HapAfterVerifyRead(x.hap, v)] \in ReadySessions
    BY <1>0, <2>1, <2>2, UpdateSession
  <2>4. \/ RespondsError(s, [x EXCEPT !.verify = v])
        \/ Responds(s, [x EXCEPT !.verify = AfterVerifyRead(v),
                                 !.hap = HapAfterVerifyRead(x.hap, v)], pairings)
    BY <1>8 DEF IPPairVerify
  <2>5. running /\ running' = running /\ pairings' = pairings
    BY <1>8 DEF IPPairVerify, IPReceives, IPReads
  <2>6. Closed'
    BY <1>0, <2>3, <2>4, <2>5, RespondsCloses, RespondsErrorCloses
  <2> QED
    BY <2>5, <2>6 DEF RolesChange
<1>9. ASSUME NEW m \in PairingsMessages, IPPairings(s, m)
      PROVE  Closed' /\ RolesChange
  <2>1. running /\ running' = running /\ Settled(pairings)
    BY <1>0, <1>9, RunningList DEF IPPairings, IPReceives, IPReads
  <2>2. [x EXCEPT !.isSecured = TRUE] \in ReadySessions
    BY <1>0, UpdateSession
  <2>3. \/ RespondsError(s, [x EXCEPT !.isSecured = TRUE])
        \/ Responds(s, [x EXCEPT !.isSecured = TRUE], pairings')
    BY <1>9 DEF IPPairings
  <2>4. Closed'
    BY <1>0, <2>1, <2>2, <2>3, RespondsCloses, RespondsErrorCloses
  <2>5. pairings' = ListAfterRead(x.hap, AfterPairingsWrite(x.hap, PairingsReset, m),
                                  ListAfterWrite(x.hap, PairingsReset, m))
    BY <1>9 DEF IPPairings
  <2>6. pairings' = pairings \/ OneRoleChanges(x.hap, pairings')
    BY <2>1, <2>5, RequestRoles
  <2> QED
    BY <2>4, <2>6 DEF RolesChange
<1>10. ASSUME NEW m \in PairingsMessages, IPPairingsReadFails(s, m)
       PROVE  Closed' /\ RolesChange
  <2>1. Settled(pairings) /\ Closed'
    BY <1>0, <1>10, RunningList, HaltCloses DEF IPPairingsReadFails, IPReceives, IPReads
  <2>2. pairings' = pairings \/ OneRoleChanges(x.hap, pairings')
    BY <1>10, <2>1, WriteRoles DEF IPPairingsReadFails
  <2> QED
    BY <2>1, <2>2 DEF RolesChange
<1>11. ASSUME NEW m \in PairingsMessages, IPPairingsCutOff(s, m)
       PROVE  Closed' /\ RolesChange
  <2>1. Settled(pairings)
    BY <1>0, <1>11, RunningList DEF IPPairingsCutOff, IPReceives, IPReads
  <2>2. Closed'
    BY <1>11, HaltCloses DEF IPPairingsCutOff, AddCutOff, RemoveCutOff, PowerLossInPurge
  <2>3. OneRoleChanges(x.hap, pairings')
    BY <1>11, <2>1, CutOffRoles DEF IPPairingsCutOff
  <2> QED
    BY <2>2, <2>3 DEF RolesChange
<1> QED
  BY <1>1, <1>2, <1>3, <1>4, <1>5, <1>6, <1>7, <1>8, <1>9, <1>10, <1>11 DEF IPNext

LEMMA BLEChanges ==
    ASSUME RoleInv, NEW s \in Sessions, BLENext(s)
    PROVE  Closed' /\ RolesChange
<1> DEFINE x == session[s]
<1>0. IInv /\ Closed /\ x \in ReadySessions /\ x.hap \in HapStates
      /\ x.verify \in VerifyStates /\ x.request \in RequestStates
      /\ Ready(x.verify) /\ SessionInv
  BY DEF RoleInv, IInv, SessionInv, ReadySessions, SessionStates
<1>a. /\ \A v : [x EXCEPT !.verify = v].link = x.link
      /\ \A v, h : [x EXCEPT !.verify = v, !.hap = h].link = x.link
      /\ \A q : [x EXCEPT !.request = q].link = x.link
      /\ \A p : [x EXCEPT !.procedure = p].link = x.link
  BY <1>0 DEF ReadySessions, SessionStates
<1>1. CASE BLEConnect(s)
  <2>1. IdleIsInactive(NewSession("Connected"))
    BY NewSessionsInactive DEF IdleIsInactive
  <2> QED
    BY <1>0, <1>1, <2>1, SessionStepCloses DEF BLEConnect, RolesChange
<1>2. CASE BLEDisconnect(s)
  <2>1. IdleIsInactive(Released)
    BY NewSessionsInactive DEF IdleIsInactive
  <2> QED
    BY <1>0, <1>2, <2>1, SessionStepCloses DEF BLEDisconnect, RolesChange
<1>3. CASE BLEInvalidate(s)
  <2>1. IdleIsInactive(Terminal)
    BY NewSessionsInactive DEF IdleIsInactive, Terminal
  <2> QED
    BY <1>0, <1>3, <2>1, SessionStepCloses DEF BLEInvalidate, BLEConnected, RolesChange
<1>4. ASSUME NEW c \in Characteristics, BLEStart(s, c)
      PROVE  Closed' /\ RolesChange
  <2> DEFINE first == [NewSession("Connected") EXCEPT !.procedure =
                          [characteristic |-> c, startedSecured |-> FALSE]]
             next == [x EXCEPT !.procedure = [characteristic |-> c,
                                              startedSecured |-> Secured(s)]]
             y == IF c \in DropsSecuritySession /\ Secured(s) THEN first ELSE next
  <2>1. first.link = "Connected"
    BY DEF NewSession
  <2>2. next.link = "Connected"
    BY <1>a, <1>4 DEF BLEStart, BLEConnected
  <2>3. session' = [session EXCEPT ![s] = y]
    BY <1>4 DEF BLEStart
  <2> HIDE DEF first, next
  <2>4. IdleIsInactive(y)
    BY <2>1, <2>2 DEF IdleIsInactive
  <2> HIDE DEF y
  <2> QED
    BY <1>0, <1>4, <2>3, <2>4, SessionStepCloses DEF BLEStart, BLEConnected, RolesChange
<1>5. ASSUME NEW c \in Characteristics, BLEOtherRequest(s, c)
      PROVE  Closed' /\ RolesChange
  BY <1>0, <1>5, CompletesCloses
     DEF BLEOtherRequest, BLETransaction, BLEConnected, RolesChange
<1>6. ASSUME NEW c \in Controllers, BLEPairSetup(s, c)
      PROVE  Closed' /\ RolesChange
  BY <1>0, <1>6, CompletesCloses, FirstChange DEF BLEPairSetup, BLETransaction, BLEConnected
<1>7. ASSUME NEW m \in VerifyMessages, NEW response \in BOOLEAN,
             BLEPairVerify(s, m, response)
      PROVE  Closed' /\ RolesChange
  <2> DEFINE v == AfterVerifyWrite(s, x.verify, m)
  <2>1. v \in VerifyStates /\ Ready(v)
    BY <1>0, VerifyWriteType DEF IInv, ListInv
  <2>2. /\ AfterVerifyRead(v) \in VerifyStates /\ Ready(AfterVerifyRead(v))
        /\ HapAfterVerifyRead(x.hap, v) \in HapStates
    BY <1>0, <2>1, VerifyReadType
  <2>3. /\ [x EXCEPT !.verify = v] \in ReadySessions
        /\ [x EXCEPT !.verify = AfterVerifyRead(v),
                     !.hap = HapAfterVerifyRead(x.hap, v)] \in ReadySessions
    BY <1>0, <2>1, <2>2, UpdateSession
  <2>4. \/ Completes(s, [x EXCEPT !.verify = v], pairings)
        \/ Completes(s, [x EXCEPT !.verify = AfterVerifyRead(v),
                                  !.hap = HapAfterVerifyRead(x.hap, v)], pairings)
    BY <1>7 DEF BLEPairVerify
  <2>5. running /\ running' = running /\ pairings' = pairings /\ x.link = "Connected"
    BY <1>7 DEF BLEPairVerify, BLETransaction, BLEConnected
  <2>6. Closed'
    BY <1>0, <1>a, <2>3, <2>4, <2>5, CompletesCloses
  <2> QED
    BY <2>5, <2>6 DEF RolesChange
<1>8. CASE BLEPairVerifyRead(s)
  <2> DEFINE v == x.verify
  <2>1. /\ AfterVerifyRead(v) \in VerifyStates /\ Ready(AfterVerifyRead(v))
        /\ HapAfterVerifyRead(x.hap, v) \in HapStates
    BY <1>0, VerifyReadType
  <2>2. [x EXCEPT !.verify = AfterVerifyRead(v),
                  !.hap = HapAfterVerifyRead(x.hap, v)] \in ReadySessions
    BY <1>0, <2>1, UpdateSession
  <2>3. Completes(s, [x EXCEPT !.verify = AfterVerifyRead(v),
                               !.hap = HapAfterVerifyRead(x.hap, v)], pairings)
    BY <1>8 DEF BLEPairVerifyRead
  <2>4. running /\ running' = running /\ pairings' = pairings /\ x.link = "Connected"
    BY <1>8 DEF BLEPairVerifyRead, BLETransaction, BLEConnected
  <2>5. Closed'
    BY <1>0, <1>a, <2>2, <2>3, <2>4, CompletesCloses
  <2> QED
    BY <2>4, <2>5 DEF RolesChange
<1>9. CASE BLEPairVerifyFails(s)
  BY <1>9, HaltCloses DEF BLEPairVerifyFails, Fail, RolesChange
<1>10. ASSUME NEW m \in PairingsMessages, NEW response \in BOOLEAN,
              BLEPairings(s, m, response)
       PROVE  Closed' /\ RolesChange
  <2> DEFINE written == ListAfterWrite(x.hap, x.request, m)
             q == AfterPairingsWrite(x.hap, x.request, m)
  <2>1. running /\ running' = running /\ x.link = "Connected" /\ Settled(pairings)
    BY <1>0, <1>10, RunningList DEF BLEPairings, BLETransaction, BLEConnected
  <2>2. q \in RequestStates
    BY <1>0, RequestType
  <2>3. [x EXCEPT !.request = q] \in ReadySessions
        /\ [x EXCEPT !.request = PairingsReset] \in ReadySessions
    BY <1>0, <2>2, ReleasedType, UpdateSession
  <2>4. \/ Completes(s, [x EXCEPT !.request = q], pairings')
        \/ Completes(s, [x EXCEPT !.request = PairingsReset], pairings')
    BY <1>10 DEF BLEPairings
  <2>5. Closed'
    BY <1>0, <1>a, <2>1, <2>3, <2>4, CompletesCloses
  <2>6. pairings' = written \/ pairings' = ListAfterRead(x.hap, q, written)
    BY <1>10 DEF BLEPairings
  <2>7. pairings' = pairings \/ OneRoleChanges(x.hap, pairings')
    BY <2>1, <2>6, RequestRoles, WriteRoles
  <2> QED
    BY <2>5, <2>7 DEF RolesChange
<1>11. CASE BLEPairingsRead(s)
  <2>1. running /\ running' = running /\ x.link = "Connected" /\ Settled(pairings)
    BY <1>0, <1>11, RunningList DEF BLEPairingsRead, BLETransaction, BLEConnected
  <2>2. [x EXCEPT !.request = PairingsReset] \in ReadySessions
    BY <1>0, ReleasedType, UpdateSession
  <2>3. Closed'
    BY <1>0, <1>a, <1>11, <2>1, <2>2, CompletesCloses DEF BLEPairingsRead
  <2>4. pairings' = pairings \/ OneRoleChanges(x.hap, pairings')
    BY <1>11, <2>1, ReadRoles DEF BLEPairingsRead
  <2> QED
    BY <2>3, <2>4 DEF RolesChange
<1>12. ASSUME NEW m \in PairingsMessages, BLEPairingsCutOff(s, m)
       PROVE  Closed' /\ RolesChange
  <2>1. Settled(pairings)
    BY <1>0, <1>12, RunningList DEF BLEPairingsCutOff, BLETransaction, BLEConnected
  <2>2. Closed'
    BY <1>12, HaltCloses DEF BLEPairingsCutOff, AddCutOff, RemoveCutOff, PowerLossInPurge
  <2>3. OneRoleChanges(x.hap, pairings')
    BY <1>12, <2>1, CutOffRoles DEF BLEPairingsCutOff
  <2> QED
    BY <2>2, <2>3 DEF RolesChange
<1> QED
  BY <1>1, <1>2, <1>3, <1>4, <1>5, <1>6, <1>7, <1>8, <1>9, <1>10, <1>11, <1>12 DEF BLENext

-------------------------------------------------------------------------------
\* The instance has a copy of the operator.
LEMMA SameCardinality == \A S : List!Cardinality(S) = Cardinality(S)
BY DEF Cardinality, List!Cardinality

\* Such a step is one of PairingList, in which sessions open and close as well.
LEMMA MappedStep ==
    ASSUME RoleInv, RoleInv', RolesChange
    PROVE  List!Next
<1> DEFINE actors == {pairings[session[s].hap.pairingID].id : s \in SecuredSessions}
<1>1. Roles(pairings) = [c \in Controllers |-> RoleOf(pairings, c)]
      /\ Roles(pairings') = [c \in Controllers |-> RoleOf(pairings, c)]'
  BY DEF Roles
<1>2. actors = Acting(pairings, session) /\ actors' = Acting(pairings', session')
  BY DEF SecuredSessions, Secured, Acting
<1>3. running \in BOOLEAN /\ running' \in BOOLEAN
  BY DEF RoleInv, IInv
<1>4. List!Sessions
  <2>1. ActorsHaveRoles'
    BY ActingHaveRoles, PTL
  <2> QED
    BY <1>1, <1>2, <2>1 DEF List!Sessions, ActorsHaveRoles
<1>5. CASE pairings' = pairings \/ Roles(pairings') = Roles(pairings)
  <2>1. List!Switch
    BY <1>1, <1>3, <1>5 DEF List!Switch, Roles
  <2> QED
    BY <1>4, <2>1 DEF List!Next
<1>6. ASSUME running, running' = running, Roles(pairings) = List!Nothing,
             NEW c \in Controllers, Roles(pairings') = [List!Nothing EXCEPT ![c] = "admin"]
      PROVE  List!Next
  <2>1. List!PairFirst(c)
    BY <1>1, <1>6 DEF List!PairFirst
  <2> QED
    BY <1>4, <2>1 DEF List!Next
<1>7. ASSUME NEW s \in Sessions, OneRoleChanges(session[s].hap, pairings')
      PROVE  List!Next
  <2> DEFINE by == pairings[session[s].hap.pairingID].id
  <2>1. PICK c \in Controllers, r \in List!Roles :
          /\ Roles(pairings') = List!Settled([Roles(pairings) EXCEPT ![c] = r])
          /\ Roles(pairings)[c] = "none" /\ r # "none" =>
                Cardinality(List!Paired(Roles(pairings))) < MaxPairings
    BY <1>7 DEF OneRoleChanges
  <2>2. AdminIn(session[s].hap, pairings)
    BY <1>7 DEF OneRoleChanges
  <2>3. session[s].hap.pairingID \in DOMAIN pairings /\ Secured(s)
    BY <2>2 DEF AdminIn, SecuredIn, Secured
  <2>4. by \in actors
    BY <2>3 DEF SecuredSessions
  <2>5. Roles(pairings)[by] = "admin"
    BY <2>2, <2>3, RoleOfPaired, AdminInFound DEF RoleInv, IInv, ListInv, AdminIn, Role
  <2> HIDE DEF by, actors
  <2>6. List!ChangeRole(by, c, r)
    BY <1>1, <1>3, <2>1, <2>5, SameCardinality DEF List!ChangeRole
  <2> QED
    BY <1>4, <2>4, <2>6 DEF List!Next, actors
<1>8. ASSUME ~running, running' = running, NEW kept \in SUBSET Controllers,
             Roles(pairings') = List!Settled([c \in Controllers |->
                                   IF c \in kept THEN Roles(pairings)[c] ELSE "none"])
      PROVE  List!Next
  <2>1. List!Clear(kept)
    BY <1>1, <1>8 DEF List!Clear
  <2> QED
    BY <1>4, <2>1 DEF List!Next
<1> QED
  BY <1>5, <1>6, <1>7, <1>8 DEF RolesChange

\* The pairing procedures of all sessions, their clean-ups, power losses and restarts
\* implement PairingList: from the first admin on, roles change one at a time, at the
\* request of a session that acts for an admin, and nobody acts who has no role.
THEOREM PairingListImplemented == Spec => ImplementsPairingList
<1>1. Init => RoleInv /\ List!Init
  <2> SUFFICES ASSUME Init PROVE RoleInv /\ List!Init
    OBVIOUS
  <2>1. RoleInv
    BY InitInv, NewSessionsInactive DEF Init, RoleInv, Closed, IdleIsInactive
  <2>2. [c \in Controllers |-> RoleOf(pairings, c)] = List!Nothing
    BY NobodyHasARole, PurgedList DEF Init, Roles
  <2>3. SecuredSessions = {}
    BY PurgedList, NewSessionsInactive DEF Init, SecuredSessions, Secured, SecuredIn
  <2> QED
    BY <2>1, <2>2, <2>3 DEF Init, List!Init
<1>2. RoleInv /\ [Next]_vars => RoleInv'
  <2> SUFFICES ASSUME RoleInv, [Next]_vars PROVE RoleInv'
    OBVIOUS
  <2>1. IInv'
    BY ServerInv, IPInv, BLEInv, StutterInv DEF Next, RoleInv
  <2>2. Closed'
    <3>1. CASE UNCHANGED vars
      BY <3>1 DEF vars, RoleInv, Closed, IdleIsInactive
    <3> QED
      BY <3>1, ServerChanges, IPChanges, BLEChanges DEF Next
  <2> QED
    BY <2>1, <2>2 DEF RoleInv
<1>3. RoleInv /\ RoleInv' /\ [Next]_vars =>
          [List!Next]_<<[c \in Controllers |-> RoleOf(pairings, c)],
                        {pairings[session[s].hap.pairingID].id : s \in SecuredSessions},
                        running>>
  <2>1. CASE UNCHANGED vars
    BY <2>1 DEF vars, RoleOf, HAPPairingFind, AdminFound, SecuredSessions, Secured, SecuredIn
  <2>2. ASSUME RoleInv, RoleInv', Next PROVE List!Next
    BY <2>2, MappedStep, ServerChanges, IPChanges, BLEChanges DEF Next
  <2> QED
    BY <2>1, <2>2
<1> QED
  BY <1>1, <1>2, <1>3, PTL DEF Spec, List!Spec, ImplementsPairingList
===============================================================================
