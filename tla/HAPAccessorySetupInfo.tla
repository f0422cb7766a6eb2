------------------------- MODULE HAPAccessorySetupInfo -------------------------
(***************************************************************************)
(* The setup code of an accessory, and what of it the display and the      *)
(* programmable NFC tag show.  With a display the code is random and       *)
(* replaced every few minutes, unless a pairing attempt has locked it; a   *)
(* transient attempt may ask to keep it for the next attempt.  Without a   *)
(* display the code is static.  Operators only, over the record            *)
(* server->accessorySetup; "paired" is HAPAccessoryServerIsPaired and      *)
(* "fresh" the code that the random generator would deliver.               *)
(***************************************************************************)

CONSTANTS
    Codes,         \* setup codes that are generated
    StaticCode,    \* the provisioned setup code
    NoCode,        \* no setup code or setup info is available
    HasDisplay,    \* platform.setupDisplay
    HasNFC         \* platform.setupNFC; it comes with a setup ID

ASSUME SetupInfoAssumption ==
    /\ StaticCode \notin Codes
    /\ NoCode \notin Codes \cup {StaticCode}
    /\ HasDisplay \in BOOLEAN /\ HasNFC \in BOOLEAN

AnyCode == Codes \cup {StaticCode}

\* refresh and nfc: dynamicRefreshTimer and nfcPairingModeTimer are registered.
\* display and tag: the code that is shown.  asserts: a HAPAssert has failed.
SetupInfo == [code : AnyCode \cup {NoCode}, lock : BOOLEAN, keep : BOOLEAN,
              refresh : BOOLEAN, nfc : BOOLEAN,
              display : AnyCode \cup {NoCode}, tag : AnyCode \cup {NoCode},
              asserts : BOOLEAN]

NoSetupInfo == [code |-> NoCode, lock |-> FALSE, keep |-> FALSE, refresh |-> FALSE,
                nfc |-> FALSE, display |-> NoCode, tag |-> NoCode, asserts |-> FALSE]

-------------------------------------------------------------------------------
\* Faulty variants of operators below; the specification does not use them.

\* Leaving NFC pairing mode does not respect the lock.
CompleteExitingUnlocks(u, paired) == [u EXCEPT !.code = NoCode, !.lock = FALSE,
                                               !.keep = FALSE, !.display = NoCode,
                                               !.tag = NoCode]

-------------------------------------------------------------------------------
\* SynchronizeDisplayAndNFC.  A tag that is not in pairing mode, or without a code,
\* gets a payload that is not pairable.  A pairable payload is not generated for a
\* paired accessory: HAPAssert(!flags.isPaired).
Pairable(u) == u.code # NoCode /\ (HasDisplay \/ (HasNFC /\ u.nfc))

SynchronizeDisplayAndNFC(u, paired) ==
    [u EXCEPT !.asserts = @ \/ (Pairable(u) /\ paired),
              !.display = IF HasDisplay THEN u.code ELSE NoCode,
              !.tag = IF HasNFC /\ u.nfc THEN u.code ELSE NoCode]

ClearSetupInfo(u) ==
    IF u.code = NoCode THEN u
    ELSE [u EXCEPT !.code = NoCode, !.lock = FALSE, !.keep = FALSE, !.refresh = FALSE]

\* A code that is there stays, and can be locked.
PrepareSetupInfo(u, lock, fresh, paired) ==
    IF u.code # NoCode
    THEN IF lock THEN [u EXCEPT !.lock = TRUE, !.refresh = FALSE] ELSE u
    ELSE SynchronizeDisplayAndNFC(
            [u EXCEPT !.code = IF HasDisplay THEN fresh ELSE StaticCode,
                      !.lock = lock, !.keep = FALSE,
                      !.refresh = HasDisplay /\ ~lock], paired)

\* HAPAccessorySetupInfoGetSetupInfo: the code its result is made from, and the
\* record after the call.
SetupInfoAfterGet(u, restorePrevious, fresh, paired) ==
    IF ~restorePrevious /\ u.keep
    THEN PrepareSetupInfo(ClearSetupInfo(u), TRUE, fresh, paired)
    ELSE u

-------------------------------------------------------------------------------
\* Pairing attempts.

HandlePairingStart(u, fresh, paired) == PrepareSetupInfo(u, TRUE, fresh, paired)

\* HAPAssert(lockSetupInfo) when the code is kept.
HandlePairingStop(u, keepSetupInfo, fresh, paired) ==
    LET v == IF keepSetupInfo
             THEN [u EXCEPT !.keep = TRUE, !.asserts = @ \/ ~u.lock]
             ELSE SynchronizeDisplayAndNFC(ClearSetupInfo(u), paired)
    IN  IF HasDisplay /\ ~paired THEN PrepareSetupInfo(v, FALSE, fresh, paired) ELSE v

-------------------------------------------------------------------------------
\* Timers, and calls of the accessory server and the application.

DynamicSetupInfoExpired(u, fresh, paired) ==
    LET v == ClearSetupInfo([u EXCEPT !.refresh = FALSE])
    IN  IF HasDisplay THEN PrepareSetupInfo(v, FALSE, fresh, paired) ELSE v

RefreshSetupPayload(u, fresh, paired) ==
    IF u.refresh THEN PrepareSetupInfo(ClearSetupInfo(u), FALSE, fresh, paired) ELSE u

CompleteExitingNFCPairingMode(u, paired) ==
    SynchronizeDisplayAndNFC(IF u.lock \/ u.refresh THEN u ELSE ClearSetupInfo(u), paired)

\* Also NFCPairingModeExpired, which is the same for a registered timer.
ExitNFCPairingMode(u, paired) ==
    IF u.nfc THEN CompleteExitingNFCPairingMode([u EXCEPT !.nfc = FALSE], paired) ELSE u

EnterNFCPairingMode(u, fresh, paired) ==
    LET v == [u EXCEPT !.nfc = TRUE]
    IN  IF paired THEN u
        ELSE IF u.code = NoCode THEN PrepareSetupInfo(v, FALSE, fresh, paired)
        ELSE IF u.nfc THEN v ELSE SynchronizeDisplayAndNFC(v, paired)

HandleAccessoryServerStart(u, fresh, paired) ==
    IF HasDisplay /\ ~paired THEN PrepareSetupInfo(u, FALSE, fresh, paired) ELSE u

HandleAccessoryServerStop(paired) == SynchronizeDisplayAndNFC(NoSetupInfo, paired)

HandleAccessoryServerStateUpdate(u, fresh, paired) ==
    IF paired THEN IF HasNFC THEN ExitNFCPairingMode(u, paired) ELSE u
    ELSE IF HasDisplay THEN PrepareSetupInfo(u, FALSE, fresh, paired)
    ELSE SynchronizeDisplayAndNFC(u, paired)
===============================================================================
