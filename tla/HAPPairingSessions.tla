-------------------------- MODULE HAPPairingSessions --------------------------
(***************************************************************************)
(* The pairing list and the sessions that use it: Pair Verify, Pair Resume *)
(* and the Pairings procedure (Add, Remove, List) over IP and Bluetooth    *)
(* LE.  A session remembers the pairing it verified by its key in the      *)
(* list, hap.pairingID, and nothing else: whether the session is still     *)
(* secured is decided by looking whether that key still holds a pairing.   *)
(* Over IP a request is written and its response read in one step of the   *)
(* run loop; over BLE they are two transactions, with steps of the IP      *)
(* sessions between them.  Pair Setup is represented by the step that      *)
(* stores the first pairing.                                               *)
(*                                                                         *)
(* The field "peer" is a history: the controller that proved possession of *)
(* the long-term key when the session was established.                     *)
(***************************************************************************)
EXTENDS HAPPairing

CONSTANTS
    IPSessions,    \* IP session descriptors
    BLESessions,   \* the BLE session: the transport has one, or is absent
    CacheSize      \* server->ble.storage->numSessionCacheElements

ASSUME SessionAssumption ==
    /\ IPSessions \cap BLESessions = {}
    /\ \A s, t \in BLESessions : s = t
    /\ CacheSize \in Nat \ {0}

VARIABLES
    running,       \* the accessory server runs
    pairings,      \* the Pairings domain of the key-value store (persistent)
    cache,         \* BLE Pair Resume cache: used elements only
    session,       \* the sessions, with their transport's connection state
    failed         \* the assertion that ended the last run, or "none"

vars == <<running, pairings, cache, session, failed>>

Sessions == IPSessions \cup BLESessions
CacheElements == 1 .. CacheSize
CacheEntry == [pairingID : Slots, peer : Controllers]

-------------------------------------------------------------------------------
\* Session state.

NoSession == [active |-> FALSE, pairingID |-> 0, peer |-> Nobody]
VerifyIn(state) == [state |-> state, method |-> "PairVerify", error |-> FALSE,
                    pairingID |-> -1, peer |-> Nobody]
VerifyReset == VerifyIn(0)
PairingsReset == [state |-> 0, method |-> "None", error |-> FALSE, removed |-> Nobody]
NoProcedure == [characteristic |-> "None", startedSecured |-> FALSE]

\* Characteristics of the pairing service.  The first two drop the security session
\* (HAPBLECharacteristicDropsSecuritySession).
DropsSecuritySession == {"PairSetup", "PairVerify"}
Characteristics == DropsSecuritySession \cup {"Pairings"}

\* link: "Idle" is a descriptor that is free; an IP session is Reading or Writing,
\* a BLE session Connected, or Terminal once its link is to be dropped.
NewSession(link) == [link |-> link, isSecured |-> FALSE, hap |-> NoSession,
                     verify |-> VerifyReset, request |-> PairingsReset,
                     procedure |-> NoProcedure]
Released == NewSession("Idle")

HapStates == [active : BOOLEAN, pairingID : Slots, peer : Controllers \cup {Nobody}]
VerifyStates == [state : 0 .. 3, method : {"PairVerify", "PairResume"}, error : BOOLEAN,
                 pairingID : Slots \cup {-1}, peer : Controllers \cup {Nobody}]
RequestStates == [state : {0, 1}, method : {"None", "Add", "Remove", "List"},
                  error : BOOLEAN, removed : Controllers \cup {Nobody}]
ProcedureStates == [characteristic : {"None"} \cup Characteristics,
                    startedSecured : BOOLEAN]

SessionStates ==
    [link : {"Idle", "Reading", "Writing", "Connected", "Terminal"},
     isSecured : BOOLEAN, hap : HapStates, verify : VerifyStates,
     request : RequestStates, procedure : ProcedureStates]

Failures == {"none", "handle_input", "PairVerifyProcessM1", "PairingsRead"}

TypeOK ==
    /\ running \in BOOLEAN
    /\ pairings \in PairingStores
    /\ cache \in KVSDomain(CacheElements, CacheEntry)
    /\ session \in [Sessions -> SessionStates]
    /\ failed \in Failures

Init ==
    /\ running = FALSE
    /\ pairings = KVSPurged
    /\ cache = KVSPurged
    /\ session = [s \in Sessions |-> Released]
    /\ failed = "none"

\* HAPSessionIsSecured: the pairing of an active session is looked up again.
SecuredIn(hap, store) == hap.active /\ hap.pairingID \in DOMAIN store
Secured(s) == SecuredIn(session[s].hap, pairings)

\* Faulty: any paired controller is taken for an admin.
AdminInAnyUser(hap, store) == SecuredIn(hap, store)

\* HAPSessionControllerIsAdmin, and the admin check of the Pairings procedure.
AdminIn(hap, store) == SecuredIn(hap, store) /\ store[hap.pairingID].admin

-------------------------------------------------------------------------------
\* Pair Verify.  A Finish (M3) carries an identifier and a signature, valid or
\* not; a Resume (M1) names an element of the cache and is sealed with the
\* secret stored there, or not.

VerifyMessages ==
    [type : {"Start", "Malformed"}]
    \cup [type : {"Finish"}, id : Controllers, valid : BOOLEAN]
    \cup [type : {"Resume"}, element : CacheElements, valid : BOOLEAN]

\* A Start or Resume abandons the procedure in progress.
StartsOver(m) == m.type \in {"Start", "Resume"}

\* ProcessM1 is entered, also by a Finish nobody asked for.
EntersM1(v, m) == StartsOver(m) \/ (v.state = 0 /\ m.type = "Finish")

Resumed(entry, m) == [state |-> 1, method |-> "PairResume", error |-> ~m.valid,
                      pairingID |-> entry.pairingID, peer |-> entry.peer]

Finished(v, m) ==
    LET found == HAPPairingFind(pairings, m.id) # {}
    IN  [state |-> 3, method |-> v.method, error |-> ~(found /\ m.valid),
         pairingID |-> IF found THEN PairingKey(pairings, m.id) ELSE v.pairingID,
         peer |-> IF found THEN m.id ELSE v.peer]

\* State after HAPPairingPairVerifyHandleWrite; state 0 means it returned an error.
AfterVerifyWrite(s, v, m) ==
    CASE m.type = "Resume" /\ s \in BLESessions /\ m.element \in DOMAIN cache ->
            Resumed(cache[m.element], m)
      [] m.type = "Start" \/ (m.type = "Resume" /\ s \in BLESessions
                                               /\ m.element \notin DOMAIN cache) ->
            VerifyIn(1)
      [] m.type = "Finish" /\ v.state = 2 -> Finished(v, m)
      [] OTHER -> VerifyReset

\* HAPPairingBLESessionCacheFetch takes the element out of the cache.
CacheAfterVerifyWrite(s, m) ==
    IF m.type = "Resume" /\ s \in BLESessions THEN KVSRemove(cache, m.element)
                                              ELSE cache

\* HAPPairingPairVerifyHandleRead: M4 and the M2 of Pair Resume start the session.
StartsSession(v) ==
    ~v.error /\ (v.state = 3 \/ (v.state = 1 /\ v.method = "PairResume"))

AfterVerifyRead(v) ==
    IF ~v.error /\ v.state = 1 /\ v.method = "PairVerify"
    THEN VerifyIn(2) ELSE VerifyReset

HapAfterVerifyRead(hap, v) ==
    IF StartsSession(v)
    THEN [active |-> TRUE, pairingID |-> v.pairingID, peer |-> v.peer] ELSE hap

\* HAPPairingBLESessionCacheSave: a free element, or a used one that is evicted.
CachesAfterSave(store, entry) ==
    LET free == CacheElements \ DOMAIN store
    IN  {KVSSet(store, e, entry) : e \in IF free = {} THEN CacheElements ELSE free}

CachesAfterVerifyRead(s, store, v) ==
    IF StartsSession(v) /\ s \in BLESessions
    THEN CachesAfterSave(store, [pairingID |-> v.pairingID, peer |-> v.peer])
    ELSE {store}

-------------------------------------------------------------------------------
\* The Pairings procedure.

PairingsMessages ==
    [method : {"List", "Malformed"}]
    \cup [method : {"Add"}, id : Controllers, admin : BOOLEAN, sameKey : BOOLEAN]
    \cup [method : {"Remove"}, id : Controllers]

\* HAPPairingPairingsHandleWrite; state 0 means it returned an error.
Adds(hap, q, m) == q.state = 0 /\ m.method = "Add" /\ AdminIn(hap, pairings)

AfterPairingsWrite(hap, q, m) ==
    IF q.state # 0 \/ m.method = "Malformed" THEN PairingsReset
    ELSE [state |-> 1, method |-> m.method,
          error |-> \/ ~AdminIn(hap, pairings)
                    \/ m.method = "Add" /\ AddRefused(pairings, m),
          removed |-> IF m.method = "Remove" THEN m.id ELSE Nobody]

ListAfterWrite(hap, q, m) ==
    IF Adds(hap, q, m) THEN AddPairing(pairings, m) ELSE pairings

\* HAPPairingPairingsHandleRead, on the list "store"; it always ends in a reset.
Removes(hap, q, store) ==
    q.state = 1 /\ ~q.error /\ q.method = "Remove" /\ AdminIn(hap, store)

ListAfterRead(hap, q, store) ==
    IF Removes(hap, q, store) THEN RemovePairing(store, q.removed) ELSE store

\* The clean-up zeroes the resume cache; a removal also drops the elements of the
\* removed key.
CacheAfterCleanup(elements, store) ==
    IF AdminFound(store) THEN elements ELSE KVSPurged

CacheAfterWrite(hap, q, m) ==
    IF Adds(hap, q, m) /\ AddUpdates(pairings, m)
    THEN CacheAfterCleanup(cache, AddPairingSet(pairings, m)) ELSE cache

\* Faulty: the elements of the removed key stay.
WithoutPairingKept(elements, key) == elements

WithoutPairing(elements, key) ==
    KVSRestrict(elements, {e \in DOMAIN elements : elements[e].pairingID # key})

CacheAfterRead(hap, q, store, elements) ==
    IF Removes(hap, q, store) /\ HAPPairingFind(store, q.removed) # {}
    THEN CacheAfterCleanup(WithoutPairing(elements, PairingKey(store, q.removed)),
                           RemovePairingKey(store, q.removed))
    ELSE elements

-------------------------------------------------------------------------------
\* The accessory server as a whole.

Halt ==
    /\ running' = FALSE
    /\ session' = [s \in Sessions |-> Released]
    /\ cache' = KVSPurged

\* A failed assertion or precondition aborts the process.
Fail(assertion) ==
    /\ Halt
    /\ failed' = assertion
    /\ UNCHANGED pairings

\* HAPAccessoryServerPrepareStart repairs the pairing list.
Start ==
    /\ ~running
    /\ running' = TRUE
    /\ failed' = "none"
    /\ pairings' = CleanupPairings(pairings)
    /\ cache' = CacheAfterCleanup(cache, pairings)
    /\ UNCHANGED session

\* HAPAccessoryServerStop has come to its end: the sessions are closed, and the
\* memory of the process, the resume cache in it, is kept.
Stop ==
    /\ running
    /\ \A s \in Sessions : session[s].link = "Idle"
    /\ running' = FALSE
    /\ UNCHANGED <<pairings, cache, session, failed>>

PowerOff ==
    /\ running
    /\ Halt
    /\ UNCHANGED <<pairings, failed>>

\* The power goes before or during the purge that follows a lost last admin.
PowerLossInPurge(store) ==
    /\ ~AdminFound(store)
    /\ pairings' \in KVSPartlyPurged(store)
    /\ Halt
    /\ UNCHANGED failed

\* HAPRemoveAllPairings, called by the application while the server is stopped,
\* completes or is cut off.
HAPRemoveAllPairings ==
    /\ ~running
    /\ pairings' = KVSPurged
    /\ UNCHANGED <<running, cache, session, failed>>

PowerLossInRemoveAllPairings ==
    /\ ~running
    /\ pairings' \in KVSPartlyPurged(pairings)
    /\ Halt
    /\ UNCHANGED failed

-------------------------------------------------------------------------------
\* IP sessions.

\* A descriptor takes part in request handling in these two states.
IPReads(s) == running /\ s \in IPSessions /\ session[s].link = "Reading"

\* handle_input: the input of a secured session is decrypted and the session is
\* flagged; other input is taken as plain text.
IPReceives(s, secured) ==
    /\ IPReads(s)
    /\ Secured(s) = secured
    /\ secured \/ ~session[s].isSecured

IPInputFails(s) ==
    /\ IPReads(s)
    /\ session[s].isSecured
    /\ ~Secured(s)
    /\ Fail("handle_input")

\* After a successful pairing request the sessions waiting for input whose pairing
\* is gone are closed.
Stale(t, store) ==
    /\ t \in IPSessions
    /\ session[t].link = "Reading"
    /\ session[t].isSecured
    /\ ~SecuredIn(session[t].hap, store)

Responds(s, state, store) ==
    session' = [t \in Sessions |->
                   IF t = s THEN [state EXCEPT !.link = "Writing"]
                   ELSE IF Stale(t, store) THEN Released ELSE session[t]]

\* An error response: nothing else happens.
RespondsError(s, state) ==
    session' = [session EXCEPT ![s] = [state EXCEPT !.link = "Writing"]]

IPAccept(s) ==
    /\ running
    /\ s \in IPSessions
    /\ session[s].link = "Idle"
    /\ session' = [session EXCEPT ![s] = NewSession("Reading")]
    /\ UNCHANGED <<running, pairings, cache, failed>>

\* CloseSession: the peer closed the stream, or a message was not understood.
IPClose(s) ==
    /\ running
    /\ s \in IPSessions
    /\ session[s].link # "Idle"
    /\ session' = [session EXCEPT ![s] = Released]
    /\ UNCHANGED <<running, pairings, cache, failed>>

\* Faulty: the session is not checked after its response is out.
IPWriteCompletesUnchecked(s) ==
    /\ running
    /\ s \in IPSessions
    /\ session[s].link = "Writing"
    /\ session' = [session EXCEPT ![s].link = "Reading"]
    /\ UNCHANGED <<running, pairings, cache, failed>>

\* WriteOutboundData, when the last byte of the response is out.
IPWriteCompletes(s) ==
    /\ running
    /\ s \in IPSessions
    /\ session[s].link = "Writing"
    /\ session' = [session EXCEPT ![s] =
                      IF @.isSecured /\ ~Secured(s) THEN Released
                      ELSE [@ EXCEPT !.link = "Reading"]]
    /\ UNCHANGED <<running, pairings, cache, failed>>

\* A request that is no business of the pairing procedures, or is refused.
IPOtherRequest(s, secured) ==
    /\ IPReceives(s, secured)
    /\ RespondsError(s, [session[s] EXCEPT !.isSecured = secured])
    /\ UNCHANGED <<running, pairings, cache, failed>>

\* Pair Setup M5: the first controller is stored under key 0, as an admin.
IPPairSetup(s, c) ==
    /\ IPReceives(s, FALSE)
    /\ ~IsPaired(pairings)
    /\ pairings' = KVSSet(pairings, 0, [id |-> c, admin |-> TRUE])
    /\ Responds(s, session[s], pairings')
    /\ UNCHANGED <<running, cache, failed>>

IPPairVerify(s, m) ==
    LET x == session[s]
        v == AfterVerifyWrite(s, x.verify, m)
    IN  /\ IPReceives(s, FALSE)
        /\ ~(EntersM1(x.verify, m) /\ x.hap.active)
        /\ IF v.state = 0
           THEN RespondsError(s, [x EXCEPT !.verify = v])
           ELSE Responds(s, [x EXCEPT !.verify = AfterVerifyRead(v),
                                      !.hap = HapAfterVerifyRead(@, v)], pairings)
        /\ UNCHANGED <<running, pairings, cache, failed>>

\* HAPPrecondition(!session->hap.active) in HAPPairingPairVerifyProcessM1.
IPPairVerifyFails(s) ==
    /\ IPReceives(s, FALSE)
    /\ session[s].hap.active
    /\ Fail("PairVerifyProcessM1")

\* The response is read only if the write succeeded.
IPPairings(s, m) ==
    LET x == session[s]
        q == AfterPairingsWrite(x.hap, PairingsReset, m)
        written == ListAfterWrite(x.hap, PairingsReset, m)
    IN  /\ IPReceives(s, TRUE)
        /\ q.state = 0 \/ q.error \/ SecuredIn(x.hap, written)
        /\ pairings' = ListAfterRead(x.hap, q, written)
        /\ cache' = CacheAfterRead(x.hap, q, written,
                                   CacheAfterWrite(x.hap, PairingsReset, m))
        /\ IF q.state = 0
           THEN RespondsError(s, [x EXCEPT !.isSecured = TRUE])
           ELSE Responds(s, [x EXCEPT !.isSecured = TRUE], pairings')
        /\ UNCHANGED <<running, failed>>

\* The read does not find the pairing of its own session and returns
\* kHAPError_Unknown: HAPAssert in HAPSessionHandlePairingsRead.
IPPairingsReadFails(s, m) ==
    LET hap == session[s].hap
        q == AfterPairingsWrite(hap, PairingsReset, m)
        written == ListAfterWrite(hap, PairingsReset, m)
    IN  /\ IPReceives(s, TRUE)
        /\ q.state = 1 /\ ~q.error
        /\ ~SecuredIn(hap, written)
        /\ pairings' = written
        /\ Halt
        /\ failed' = "PairingsRead"

\* Power loss between the Set or the Remove of a request and the end of its purge.
AddCutOff(hap, q, m) ==
    /\ Adds(hap, q, m) /\ AddUpdates(pairings, m)
    /\ PowerLossInPurge(AddPairingSet(pairings, m))

RemoveCutOff(hap, q) ==
    /\ Removes(hap, q, pairings)
    /\ PowerLossInPurge(RemovePairingKey(pairings, q.removed))

IPPairingsCutOff(s, m) ==
    LET hap == session[s].hap
    IN  /\ IPReceives(s, TRUE)
        /\ \/ AddCutOff(hap, PairingsReset, m)
           \/ RemoveCutOff(hap, AfterPairingsWrite(hap, PairingsReset, m))

-------------------------------------------------------------------------------
\* The BLE session.

BLEConnected(s) == running /\ s \in BLESessions /\ session[s].link = "Connected"

BLEConnect(s) ==
    /\ running
    /\ s \in BLESessions
    /\ session[s].link = "Idle"
    /\ session' = [session EXCEPT ![s] = NewSession("Connected")]
    /\ UNCHANGED <<running, pairings, cache, failed>>

BLEDisconnect(s) ==
    /\ running
    /\ s \in BLESessions
    /\ session[s].link # "Idle"
    /\ session' = [session EXCEPT ![s] = Released]
    /\ UNCHANGED <<running, pairings, cache, failed>>

\* HAPSessionInvalidate with terminateLink: the timer of the link, of a procedure or
\* of a pairing procedure expires, or a request cannot be decrypted or parsed.
Terminal == NewSession("Terminal")

BLEInvalidate(s) ==
    /\ BLEConnected(s)
    /\ session' = [session EXCEPT ![s] = Terminal]
    /\ UNCHANGED <<running, pairings, cache, failed>>

\* The first GATT write to a characteristic.  One that drops the security session
\* also displaces the procedure of another characteristic.
BLEStart(s, c) ==
    /\ BLEConnected(s)
    /\ \/ session[s].procedure.characteristic = "None"
       \/ c \in DropsSecuritySession /\ session[s].procedure.characteristic # c
    /\ session' = [session EXCEPT ![s] =
          IF c \in DropsSecuritySession /\ Secured(s)
          THEN [NewSession("Connected") EXCEPT !.procedure =
                   [characteristic |-> c, startedSecured |-> FALSE]]
          ELSE [@ EXCEPT !.procedure = [characteristic |-> c,
                                        startedSecured |-> Secured(s)]]]
    /\ UNCHANGED <<running, pairings, cache, failed>>

\* The last GATT read executes the request and completes the procedure.
BLETransaction(s, c, secured) ==
    /\ BLEConnected(s)
    /\ session[s].procedure.characteristic = c
    /\ Secured(s) = secured

\* Faulty: the session that lost its pairing is kept.
CompletesUnchecked(s, state, store) ==
    session' = [session EXCEPT ![s] = [state EXCEPT !.procedure = NoProcedure]]

Completes(s, state, store) ==
    session' = [session EXCEPT ![s] =
        IF state.procedure.startedSecured /\ ~SecuredIn(state.hap, store)
        THEN Terminal ELSE [state EXCEPT !.procedure = NoProcedure]]

\* Refused for the session's security, or nothing that matters here.
BLEOtherRequest(s, c) ==
    /\ \/ BLETransaction(s, c, c \in DropsSecuritySession)
       \/ BLETransaction(s, "PairSetup", FALSE)
    /\ Completes(s, session[s], pairings)
    /\ UNCHANGED <<running, pairings, cache, failed>>

BLEPairSetup(s, c) ==
    /\ BLETransaction(s, "PairSetup", FALSE)
    /\ ~IsPaired(pairings)
    /\ pairings' = KVSSet(pairings, 0, [id |-> c, admin |-> TRUE])
    /\ Completes(s, session[s], pairings')
    /\ UNCHANGED <<running, cache, failed>>

\* A write may ask for the response, or leave it to a read of its own.
BLEPairVerify(s, m, response) ==
    LET x == session[s]
        v == AfterVerifyWrite(s, x.verify, m)
        reads == response /\ v.state # 0
        elements == CacheAfterVerifyWrite(s, m)
    IN  /\ BLETransaction(s, "PairVerify", FALSE)
        /\ ~(EntersM1(x.verify, m) /\ x.hap.active)
        /\ cache' \in IF reads THEN CachesAfterVerifyRead(s, elements, v) ELSE {elements}
        /\ Completes(s, IF reads THEN [x EXCEPT !.verify = AfterVerifyRead(v),
                                                !.hap = HapAfterVerifyRead(@, v)]
                                 ELSE [x EXCEPT !.verify = v], pairings)
        /\ UNCHANGED <<running, pairings, failed>>

BLEPairVerifyRead(s) ==
    LET x == session[s]
    IN  /\ BLETransaction(s, "PairVerify", FALSE)
        /\ cache' \in CachesAfterVerifyRead(s, cache, x.verify)
        /\ Completes(s, [x EXCEPT !.verify = AfterVerifyRead(@),
                                  !.hap = HapAfterVerifyRead(@, x.verify)], pairings)
        /\ UNCHANGED <<running, pairings, failed>>

BLEPairVerifyFails(s) ==
    /\ BLETransaction(s, "PairVerify", FALSE)
    /\ session[s].hap.active
    /\ Fail("PairVerifyProcessM1")

\* Before the response is read the session's security is checked again.
BLEPairings(s, m, response) ==
    LET x == session[s]
        q == AfterPairingsWrite(x.hap, x.request, m)
        written == ListAfterWrite(x.hap, x.request, m)
        elements == CacheAfterWrite(x.hap, x.request, m)
        reads == response /\ q.state # 0 /\ SecuredIn(x.hap, written)
    IN  /\ BLETransaction(s, "Pairings", TRUE)
        /\ pairings' = IF reads THEN ListAfterRead(x.hap, q, written) ELSE written
        /\ cache' = IF reads THEN CacheAfterRead(x.hap, q, written, elements) ELSE elements
        /\ Completes(s, [x EXCEPT !.request = IF reads THEN PairingsReset ELSE q], pairings')
        /\ UNCHANGED <<running, failed>>

BLEPairingsRead(s) ==
    LET x == session[s]
    IN  /\ BLETransaction(s, "Pairings", TRUE)
        /\ pairings' = ListAfterRead(x.hap, x.request, pairings)
        /\ cache' = CacheAfterRead(x.hap, x.request, pairings, cache)
        /\ Completes(s, [x EXCEPT !.request = PairingsReset], pairings')
        /\ UNCHANGED <<running, failed>>

BLEPairingsCutOff(s, m) ==
    LET x == session[s]
    IN  /\ BLETransaction(s, "Pairings", TRUE)
        /\ \/ AddCutOff(x.hap, x.request, m)
           \/ RemoveCutOff(x.hap, x.request)
           \/ RemoveCutOff(x.hap, AfterPairingsWrite(x.hap, x.request, m))

-------------------------------------------------------------------------------
ServerNext ==
    \/ Start \/ Stop \/ PowerOff
    \/ HAPRemoveAllPairings \/ PowerLossInRemoveAllPairings

IPNext(s) ==
    \/ IPAccept(s) \/ IPClose(s) \/ IPWriteCompletes(s)
    \/ IPInputFails(s) \/ IPPairVerifyFails(s)
    \/ \E secured \in BOOLEAN : IPOtherRequest(s, secured)
    \/ \E c \in Controllers : IPPairSetup(s, c)
    \/ \E m \in VerifyMessages : IPPairVerify(s, m)
    \/ \E m \in PairingsMessages :
          IPPairings(s, m) \/ IPPairingsReadFails(s, m) \/ IPPairingsCutOff(s, m)

BLENext(s) ==
    \/ BLEConnect(s) \/ BLEDisconnect(s) \/ BLEInvalidate(s)
    \/ \E c \in Characteristics : BLEStart(s, c) \/ BLEOtherRequest(s, c)
    \/ \E c \in Controllers : BLEPairSetup(s, c)
    \/ \E m \in VerifyMessages, response \in BOOLEAN : BLEPairVerify(s, m, response)
    \/ BLEPairVerifyRead(s) \/ BLEPairVerifyFails(s)
    \/ \E m \in PairingsMessages, response \in BOOLEAN : BLEPairings(s, m, response)
    \/ BLEPairingsRead(s)
    \/ \E m \in PairingsMessages : BLEPairingsCutOff(s, m)

Next == ServerNext \/ \E s \in Sessions : IPNext(s) \/ BLENext(s)

Spec == Init /\ [][Next]_vars

-------------------------------------------------------------------------------
\* While the accessory runs, a pairing list that is not empty has an admin: the list
\* is purged with its last admin, by whichever request takes that admin away, and a
\* purge that was cut off is finished at the next start.
AdminExists == running /\ IsPaired(pairings) => AdminFound(pairings)

\* No controller is stored twice, so that removing it removes it.
UniqueIdentifiers ==
    \A j, k \in DOMAIN pairings : pairings[j].id = pairings[k].id => j = k

\* An IP session that waits for input and was flagged as secured still has its
\* pairing: handle_input relies on it (HAPAssert), CloseSession in
\* handle_pairing_data and in WriteOutboundData provide it.
SecuredFlagIsCurrent ==
    \A s \in IPSessions :
        running /\ session[s].link = "Reading" /\ session[s].isSecured => Secured(s)

\* A secured session acts for the controller it verified: the pairing stored under
\* its key is that controller's.
SessionsBound ==
    \A s \in Sessions :
        Secured(s) => pairings[session[s].hap.pairingID].id = session[s].hap.peer

\* A session that can be resumed is one of a controller that is still paired.
ResumeEntriesBound ==
    running => \A e \in DOMAIN cache :
        /\ cache[e].pairingID \in DOMAIN pairings
        /\ pairings[cache[e].pairingID].id = cache[e].peer

\* Once there is a pairing, a running accessory changes its list only while a secured
\* session of a controller that is an admin is open.
PeerAuthorized ==
    [][ running /\ IsPaired(pairings) /\ pairings' # pairings =>
          \E s \in Sessions : /\ Secured(s)
                              /\ \E k \in HAPPairingFind(pairings, session[s].hap.peer) :
                                    pairings[k].admin ]_vars

\* The roles of the controllers.  A list without an admin counts as empty: it is
\* purged before the accessory runs again.
RoleOf(store, c) ==
    LET found == HAPPairingFind(store, c)
    IN  IF found = {} \/ ~AdminFound(store) THEN "none"
        ELSE IF \E k \in found : store[k].admin THEN "admin" ELSE "user"

SecuredSessions == {s \in Sessions : Secured(s)}

List == INSTANCE PairingList WITH
            role <- [c \in Controllers |-> RoleOf(pairings, c)],
            acting <- {pairings[session[s].hap.pairingID].id : s \in SecuredSessions},
            on <- running

\* The pairing procedures, their clean-up and the repair at start implement the
\* pairing list of PairingList, where a session acts for the controller that is stored
\* under its key.
ImplementsPairingList == List!Spec

\* The stored list is one that can be administered: it has an admin, and no controller
\* twice.
PairingListIsSound == AdminExists /\ UniqueIdentifiers
===============================================================================
