---------------------------- MODULE HAPPairingSetup ----------------------------
(***************************************************************************)
(* Pair Setup (M1 to M6) on several sessions, with the setup code it uses. *)
(* One session at a time owns the procedure: it claims it with its first   *)
(* message and loses it when the procedure ends, when the session is       *)
(* closed, or to another session once it has timed out.  Over IP a message *)
(* is written and its response read in one step; over BLE they are two     *)
(* transactions.  The first pairing is key 0 of the Pairings domain;       *)
(* everything later that happens to the list is "Unpair".                  *)
(*                                                                         *)
(* A handler is an operator from world to world: the record of all state   *)
(* it can reach, so that an IP request is the read after the write.        *)
(***************************************************************************)
EXTENDS Integers, HAPAccessorySetupInfo

CONSTANTS
    Controllers,   \* pairing identifiers
    Nobody,        \* no controller, no session
    MaxAttempts,   \* 100 in HAPPairingPairSetupGetM2
    IPSessions,    \* IP session descriptors
    BLESessions    \* the BLE session: the transport has one, or is absent

ASSUME SetupAssumption ==
    /\ Nobody \notin Controllers \cup IPSessions \cup BLESessions
    /\ MaxAttempts \in Nat \ {0}
    /\ IPSessions \cap BLESessions = {}
    /\ \A s, t \in BLESessions : s = t

Sessions == IPSessions \cup BLESessions

VARIABLES
    running,       \* the accessory server is not Idle
    pairing,       \* the first pairing (persistent)
    attempts,      \* NumUnsuccessfulAuthAttempts (persistent)
    pairSetup,     \* server->pairSetup
    setup,         \* server->accessorySetup, with display and tag
    session,       \* per session: connected, state.pairSetup, hap
    updatePending, \* server->callbackTimer is registered
    failed         \* the assertion that ended the last run, or "none"

vars == <<running, pairing, attempts, pairSetup, setup, session, updatePending, failed>>

\* What an M3 proves: knowledge of a code, or nothing, because its key is illegal.
Proofs == AnyCode \cup {"IllegalKey"}

\* verifier: the code that B was derived from.  proof: from M3.  expired:
\* operationStartTime is longer ago than kHAPPairing_PairSetupProcedureTimeout.
PairSetup == [owner : Sessions \cup {Nobody}, transient : BOOLEAN, split : BOOLEAN,
              verifier : AnyCode \cup {NoCode}, proof : Proofs \cup {NoCode},
              expired : BOOLEAN]
NoPairSetup == [owner |-> Nobody, transient |-> FALSE, split |-> FALSE,
                verifier |-> NoCode, proof |-> NoCode, expired |-> FALSE]

\* auth: the method is PairSetupWithAuth.  transient: a transient session is active.
SessionState == [open : BOOLEAN, state : 0 .. 5, auth : BOOLEAN, error : BOOLEAN,
                 transient : BOOLEAN]
Opened == [open |-> TRUE, state |-> 0, auth |-> FALSE, error |-> FALSE,
           transient |-> FALSE]
Closed == [Opened EXCEPT !.open = FALSE]

Failures == {"none", "SetupInfo", "HAPSessionIsTransient"}

TypeOK ==
    /\ running \in BOOLEAN
    /\ pairing \in Controllers \cup {Nobody}
    /\ attempts \in 0 .. MaxAttempts
    /\ pairSetup \in PairSetup
    /\ setup \in SetupInfo
    /\ session \in [Sessions -> SessionState]
    /\ updatePending \in BOOLEAN
    /\ failed \in Failures

Init ==
    /\ running = FALSE
    /\ pairing = Nobody
    /\ attempts = 0
    /\ pairSetup = NoPairSetup
    /\ setup = NoSetupInfo
    /\ session = [s \in Sessions |-> Closed]
    /\ updatePending = FALSE
    /\ failed = "none"

World == [pairing |-> pairing, attempts |-> attempts, pairSetup |-> pairSetup,
          setup |-> setup, session |-> session]

IsPaired(w) == w.pairing # Nobody
Owns(w, s) == w.pairSetup.owner = s

\* HAPPairingPairSetupResetForSession.
ResetForSession(w, s, keepSetupInfo, fresh) ==
    [w EXCEPT !.session[s] = [@ EXCEPT !.state = 0, !.auth = FALSE, !.error = FALSE],
              !.pairSetup = IF Owns(w, s) THEN NoPairSetup ELSE @,
              !.setup = IF Owns(w, s)
                        THEN HandlePairingStop(@, keepSetupInfo, fresh, IsPaired(w))
                        ELSE @]

\* The setup code survives this reset, for an attempt that follows at once.
Abandon(w, s, fresh) ==
    [ResetForSession(w, s, TRUE, fresh) EXCEPT !.setup.keep = FALSE]

-------------------------------------------------------------------------------
\* HAPPairingPairSetupHandleWrite.  A message is one of M1, M3, M5 or cannot be parsed;
\* one that arrives in the wrong state is refused.

Messages ==
    [type : {"M1"}, ok : BOOLEAN, auth : BOOLEAN, transient : BOOLEAN, split : BOOLEAN]
    \cup [type : {"M3"}, proof : Proofs]
    \cup [type : {"M5"}, id : Controllers, valid : BOOLEAN]
    \cup [type : {"Malformed"}]

\* Faulty: another session takes over without resetting the one that timed out.
TakesOverWithoutReset(w, s, fresh) ==
    IF w.pairSetup.owner # s /\ w.pairSetup.expired
    THEN [w EXCEPT !.pairSetup = NoPairSetup] ELSE w

TakesOver(w, s, fresh) ==
    IF w.pairSetup.owner \notin {s, Nobody} /\ w.pairSetup.expired
    THEN Abandon(w, w.pairSetup.owner, fresh) ELSE w

Claims(w, s, fresh) ==
    LET v == TakesOver(w, s, fresh)
    IN  IF w.session[s].state # 0 \/ IsPaired(w) THEN w
        ELSE IF v.pairSetup.owner # Nobody THEN v
        ELSE [v EXCEPT !.pairSetup.owner = s,
                       !.setup = HandlePairingStart(@, fresh, IsPaired(v))]

ProcessM1(w, s, m) ==
    [w EXCEPT !.session[s] = [@ EXCEPT !.state = 1, !.auth = m.auth],
              !.pairSetup = IF Owns(w, s)
                            THEN [@ EXCEPT !.transient = m.transient, !.split = m.split]
                            ELSE @]

ProcessM3(w, s, m) ==
    [w EXCEPT !.session[s].state = 3, !.pairSetup.proof = m.proof]

\* The pairing is stored before M6 is sent.
ProcessM5(w, s, m) ==
    [w EXCEPT !.session[s].state = 5, !.session[s].error = ~m.valid,
              !.pairing = IF m.valid THEN m.id ELSE @]

\* State 0 afterwards means that it returned an error.
HandleWrite(w, s, m, fresh) ==
    LET restarted == IF Owns(w, s) /\ m.type = "M1" THEN Abandon(w, s, fresh) ELSE w
        v == IF m.type = "Malformed" THEN w ELSE Claims(restarted, s, fresh)
        state == v.session[s].state
    IN  IF state = 0 /\ m.type = "M1" /\ m.ok THEN ProcessM1(v, s, m)
        ELSE IF state = 2 /\ m.type = "M3" THEN ProcessM3(v, s, m)
        ELSE IF state = 4 /\ m.type = "M5" THEN ProcessM5(v, s, m)
        ELSE ResetForSession(v, s, FALSE, fresh)

-------------------------------------------------------------------------------
\* HAPPairingPairSetupHandleRead; "mfi": the authentication coprocessor answers.

\* Faulty: the accessory stays open to guesses.
M2RefusesNotTheLocked(w, s) ==
    \/ w.pairSetup.owner = Nobody \/ IsPaired(w)
    \/ w.attempts > MaxAttempts \/ ~Owns(w, s)

\* Unavailable, MaxTries and Busy.
M2Refuses(w, s) ==
    \/ w.pairSetup.owner = Nobody \/ IsPaired(w)
    \/ w.attempts >= MaxAttempts
    \/ ~Owns(w, s)

GetM2(w, s, fresh) ==
    LET restore == /\ w.pairSetup.split /\ ~w.pairSetup.transient
                   /\ ~w.session[s].auth
        got == SetupInfoAfterGet(w.setup, restore, fresh, IsPaired(w))
    IN  IF M2Refuses(w, s) \/ (restore /\ w.setup.code = NoCode)
        THEN ResetForSession(w, s, FALSE, fresh)
        ELSE [w EXCEPT !.session[s].state = 2, !.setup = got,
                       !.pairSetup.verifier = got.code]

\* Transient sessions have the keys of the proof and no pairing.
GetM4(w, s, mfi, fresh) ==
    LET p == w.pairSetup
        got == [w EXCEPT !.setup = SetupInfoAfterGet(@, p.split /\ ~p.transient, fresh,
                                                     IsPaired(w))]
        proven == [got EXCEPT !.attempts = 0]
    IN  IF p.proof = "IllegalKey" THEN ResetForSession(got, s, FALSE, fresh)
        ELSE IF p.proof # got.setup.code \/ p.verifier # got.setup.code
        THEN ResetForSession([got EXCEPT !.attempts = @ + 1], s, FALSE, fresh)
        ELSE IF w.session[s].auth /\ ~mfi THEN ResetForSession(proven, s, FALSE, fresh)
        ELSE IF p.transient /\ ~w.session[s].auth
        THEN ResetForSession([proven EXCEPT !.session[s].transient = TRUE], s, p.split,
                             fresh)
        ELSE [proven EXCEPT !.session[s].state = 4]

HandleRead(w, s, mfi, fresh) ==
    LET x == w.session[s]
    IN  IF ~x.error /\ x.state = 1 THEN GetM2(w, s, fresh)
        ELSE IF ~x.error /\ x.state = 3 THEN GetM4(w, s, mfi, fresh)
        ELSE ResetForSession(w, s, FALSE, fresh)

-------------------------------------------------------------------------------
\* The accessory server.

\* Nothing that is not persistent survives; the display and the tag go dark.
Halt ==
    /\ running' = FALSE
    /\ pairSetup' = NoPairSetup
    /\ setup' = NoSetupInfo
    /\ session' = [s \in Sessions |-> Closed]
    /\ updatePending' = FALSE

\* The world after a callback, which a failed assertion ends.
Become(w) ==
    /\ pairing' = w.pairing
    /\ attempts' = w.attempts
    /\ IF w.setup.asserts
       THEN Halt /\ failed' = "SetupInfo"
       ELSE /\ pairSetup' = w.pairSetup
            /\ setup' = w.setup
            /\ session' = w.session
            /\ updatePending' = (updatePending \/ IsPaired(w) # (pairing # Nobody))
            /\ UNCHANGED <<running, failed>>

BecomeSetup(u) == Become([World EXCEPT !.setup = u])

Start(fresh) ==
    /\ ~running
    /\ running' = TRUE
    /\ updatePending' = TRUE
    /\ setup' = HandleAccessoryServerStart(setup, fresh, pairing # Nobody)
    /\ failed' = "none"
    /\ UNCHANGED <<pairing, attempts, pairSetup, session>>

\* Faulty: the callback timer survives the server.
StopKeepsTimer ==
    /\ running
    /\ \A s \in Sessions : ~session[s].open
    /\ running' = FALSE
    /\ setup' = HandleAccessoryServerStop(pairing # Nobody)
    /\ UNCHANGED <<pairing, attempts, pairSetup, session, updatePending, failed>>

\* CompleteShutdown.  The server engine of IP calls it from the callback timer; without
\* it, it is called directly and the timer may be left.
Stop ==
    /\ running
    /\ \A s \in Sessions : ~session[s].open
    /\ running' = FALSE
    /\ setup' = HandleAccessoryServerStop(pairing # Nobody)
    /\ updatePending' = (updatePending /\ IPSessions = {})
    /\ UNCHANGED <<pairing, attempts, pairSetup, session, failed>>

PowerOff ==
    /\ running
    /\ Halt
    /\ UNCHANGED <<pairing, attempts, failed>>

\* HAPRestoreFactorySettings: the accessory server is not running.
RestoreFactorySettings ==
    /\ ~running
    /\ pairing' = Nobody
    /\ attempts' = 0
    /\ UNCHANGED <<running, pairSetup, setup, session, updatePending, failed>>

\* The last pairing is removed, by a session that is none of this module's.
Unpair ==
    /\ running
    /\ pairing # Nobody
    /\ Become([World EXCEPT !.pairing = Nobody])

\* The callback timer; it does not look whether the server runs.
CallbackTimerExpired(fresh) ==
    LET u == HandleAccessoryServerStateUpdate(setup, fresh, pairing # Nobody)
    IN  /\ updatePending
        /\ IF u.asserts THEN Halt /\ failed' = "SetupInfo"
           ELSE setup' = u /\ updatePending' = FALSE
                /\ UNCHANGED <<running, pairSetup, session, failed>>
        /\ UNCHANGED <<pairing, attempts>>

DynamicRefresh(fresh) ==
    /\ setup.refresh
    /\ BecomeSetup(DynamicSetupInfoExpired(setup, fresh, pairing # Nobody))

\* The application asks for a new code, enters or leaves NFC pairing mode, or that
\* mode times out.
Refresh(fresh) ==
    /\ running
    /\ BecomeSetup(RefreshSetupPayload(setup, fresh, pairing # Nobody))

EnterNFC(fresh) ==
    /\ running /\ HasNFC
    /\ BecomeSetup(EnterNFCPairingMode(setup, fresh, pairing # Nobody))

ExitNFC ==
    /\ setup.nfc
    /\ BecomeSetup(ExitNFCPairingMode(setup, pairing # Nobody))

\* Time passes kHAPPairing_PairSetupProcedureTimeout.
ProcedureTimesOut ==
    /\ pairSetup.owner # Nobody
    /\ ~pairSetup.expired
    /\ Become([World EXCEPT !.pairSetup.expired = TRUE])

-------------------------------------------------------------------------------
\* Sessions.

Open(s) ==
    /\ running
    /\ ~session[s].open
    /\ Become([World EXCEPT !.session[s] = Opened])

\* HAPSessionRelease, of which HAPSessionInvalidate is a part.
Release(w, s, fresh) ==
    [ResetForSession(w, s, FALSE, fresh) EXCEPT !.session[s] = Closed]

Close(s, fresh) ==
    /\ session[s].open
    /\ Become(Release(World, s, fresh))

\* HAPAssert in HAPSessionIsTransient, which every use of the session reaches.
TransientFails(s) ==
    /\ session[s].transient
    /\ pairing # Nobody
    /\ Halt
    /\ failed' = "HAPSessionIsTransient"
    /\ UNCHANGED <<pairing, attempts>>

\* Faulty: transient sessions are not closed.
WithoutOtherTransientNone(w, s) == w

\* handle_http_request closes the other transient session.  It is not the owner.
WithoutOtherTransient(w, s) ==
    [w EXCEPT !.session = [t \in Sessions |->
        IF t \in IPSessions \ {s} /\ w.session[t].transient THEN Closed
        ELSE w.session[t]]]

NoAssertOnTransient ==
    pairing = Nobody \/ \A t \in IPSessions : ~session[t].transient

IPPairSetup(s, m, mfi, fresh) ==
    LET written == HandleWrite(WithoutOtherTransient(World, s), s, m, fresh)
    IN  /\ s \in IPSessions /\ session[s].open /\ ~session[s].transient
        /\ NoAssertOnTransient
        /\ Become(IF written.session[s].state = 0 THEN written
                  ELSE HandleRead(written, s, mfi, fresh))

\* A BLE session: Pair Setup drops its security first.
BLEInvalidate(s, fresh) ==
    /\ s \in BLESessions /\ session[s].open
    /\ Become([Release(World, s, fresh) EXCEPT !.session[s] = Opened])

BLEPairSetupWrite(s, m, fresh) ==
    /\ s \in BLESessions /\ session[s].open /\ ~session[s].transient
    /\ Become(HandleWrite(World, s, m, fresh))

BLEPairSetupRead(s, mfi, fresh) ==
    /\ s \in BLESessions /\ session[s].open /\ ~session[s].transient
    /\ Become(HandleRead(World, s, mfi, fresh))

-------------------------------------------------------------------------------
\* What happens to the setup code without a session.
SetupInfoNext(fresh) ==
    \/ CallbackTimerExpired(fresh) \/ DynamicRefresh(fresh) \/ Refresh(fresh)
    \/ EnterNFC(fresh) \/ ExitNFC

ServerNext(fresh) ==
    \/ Start(fresh) \/ Stop \/ PowerOff \/ RestoreFactorySettings
    \/ Unpair \/ ProcedureTimesOut

SessionNext(s, fresh) ==
    \/ Open(s) \/ Close(s, fresh) \/ TransientFails(s)
    \/ \E m \in Messages, mfi \in BOOLEAN : IPPairSetup(s, m, mfi, fresh)
    \/ BLEInvalidate(s, fresh)
    \/ \E m \in Messages : BLEPairSetupWrite(s, m, fresh)
    \/ \E mfi \in BOOLEAN : BLEPairSetupRead(s, mfi, fresh)

Next == \E fresh \in Codes :
            ServerNext(fresh) \/ SetupInfoNext(fresh) \/ \E s \in Sessions : SessionNext(s, fresh)

Spec == Init /\ [][Next]_vars

-------------------------------------------------------------------------------
\* Only the owner gets past M2, which ProcessM3 to GetM6 require (HAPPrecondition), and
\* the owner is a session that is open and in the procedure, never a stale pointer.
ProcedureOwned ==
    /\ \A s \in Sessions : session[s].state >= 2 => pairSetup.owner = s
    /\ \A s \in Sessions : pairSetup.owner = s => session[s].open /\ session[s].state >= 1

\* From its start to its end an attempt has one locked setup code, which no timer
\* replaces, and M4 checks the proof against the verifier that M2 used.
CodeLocked ==
    \A s \in Sessions : pairSetup.owner = s =>
        /\ setup.code # NoCode /\ setup.lock /\ ~setup.refresh
        /\ session[s].state \in 2 .. 4 => pairSetup.verifier = setup.code

\* The display shows the setup code that is in force, and the tag does in NFC mode.
ShownCodeIsCurrent ==
    running => /\ setup.display = IF HasDisplay THEN setup.code ELSE NoCode
               /\ setup.tag = IF HasNFC /\ setup.nfc THEN setup.code ELSE NoCode

\* Pair Setup never overwrites the pairing it stored: M5 sets key 0 without looking.
PairingNeverReplaced == [][pairing # Nobody => pairing' \in {pairing, Nobody}]_vars

\* Once the attempts are used up, no procedure that is under way succeeds: until a
\* factory reset the counter stays where it is, and nobody is paired.
LockoutIsFinal ==
    [][running /\ attempts = MaxAttempts =>
          attempts' = MaxAttempts /\ pairing' \in {pairing, Nobody}]_vars

\* Neither timers nor the application replace a setup code that is kept for the next
\* attempt after a transient one.
KeptCodeStays ==
    [][ \A fresh \in Codes : setup.keep /\ SetupInfoNext(fresh) =>
            setup'.keep /\ setup'.code = setup.code ]_vars

\* HAPAssert(!HAPAccessoryServerIsPaired(session->server)) of HAPSessionIsTransient.
NoTransientWhilePaired == failed # "HAPSessionIsTransient"

\* HAPAssert(!flags.isPaired) of SynchronizeDisplayAndNFC: no payload for pairing is
\* made for a paired accessory.  With it, the lock on a code that is kept.
SetupInfoAsserts == failed # "SetupInfo"

\* After the attempt that paired the accessory, its setup code is no longer there.
PairedHidesCode == pairing # Nobody /\ pairSetup.owner = Nobody => setup.code = NoCode

\* A stopped accessory shows no setup code.
StoppedHidesCode == ~running => setup.display = NoCode

\* The assertions of Pair Setup hold: on transient sessions and on the setup info.
AssertionsHold == NoTransientWhilePaired /\ SetupInfoAsserts

\* The setup code can be seen only on an accessory that runs and is not paired.
CodeIsHidden == PairedHidesCode /\ StoppedHidesCode
===============================================================================
