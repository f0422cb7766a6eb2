------------------------ MODULE HAPPairingSetup_proofs ------------------------
(***************************************************************************)
(* Theorems about HAPPairingSetup, for any number of controllers, setup    *)
(* codes, attempts and IP sessions, with or without a display, NFC and the *)
(* BLE session.                                                            *)
(***************************************************************************)
EXTENDS HAPPairingSetup, TLAPS

\* A code that its timer refreshes is there and not locked; one that is kept is locked.
Sane(u) ==
    /\ u.refresh => HasDisplay /\ u.code # NoCode /\ ~u.lock
    /\ u.keep => u.code # NoCode /\ u.lock

\* The display and the tag show the code in force.
Shown(u) ==
    /\ u.display = (IF HasDisplay THEN u.code ELSE NoCode)
    /\ u.tag = (IF HasNFC /\ u.nfc THEN u.code ELSE NoCode)

Consistent(u) == u \in SetupInfo /\ Sane(u) /\ Shown(u)

\* An attempt can rely on the setup code.
Locked(u) == u.code # NoCode /\ u.lock /\ ~u.refresh

-------------------------------------------------------------------------------
\* The setup code.

\* SynchronizeDisplayAndNFC makes any record consistent, and fails only for a paired
\* accessory with a code.
LEMMA Synchronized ==
    ASSUME NEW u \in SetupInfo, NEW paired \in BOOLEAN, Sane(u)
    PROVE  LET v == SynchronizeDisplayAndNFC(u, paired)
           IN  /\ Consistent(v)
               /\ v.code = u.code /\ v.lock = u.lock /\ v.keep = u.keep
               /\ v.refresh = u.refresh /\ v.nfc = u.nfc
               /\ v.asserts => u.asserts \/ (paired /\ u.code # NoCode)
<1> DEFINE v == SynchronizeDisplayAndNFC(u, paired)
           shown == IF HasDisplay THEN u.code ELSE NoCode
           tagged == IF HasNFC /\ u.nfc THEN u.code ELSE NoCode
           fails == u.asserts \/ (Pairable(u) /\ paired)
<1>1. /\ u.code \in AnyCode \cup {NoCode} /\ u.asserts \in BOOLEAN
      /\ shown \in AnyCode \cup {NoCode} /\ tagged \in AnyCode \cup {NoCode}
  BY DEF SetupInfo
<1>2. fails \in BOOLEAN /\ (fails => u.asserts \/ (paired /\ u.code # NoCode))
  BY <1>1 DEF Pairable
<1>3. v = [u EXCEPT !.asserts = fails, !.display = shown, !.tag = tagged]
  BY DEF SynchronizeDisplayAndNFC
<1> HIDE DEF v, shown, tagged, fails
<1>4. /\ v \in SetupInfo
      /\ v.code = u.code /\ v.lock = u.lock /\ v.keep = u.keep
      /\ v.refresh = u.refresh /\ v.nfc = u.nfc
      /\ v.asserts = fails /\ v.display = shown /\ v.tag = tagged
  BY <1>1, <1>2, <1>3 DEF SetupInfo
<1>5. Consistent(v)
  BY <1>4 DEF Consistent, Sane, Shown, shown, tagged
<1> QED
  BY <1>2, <1>4, <1>5 DEF v

LEMMA Cleared ==
    ASSUME NEW u \in SetupInfo, Sane(u)
    PROVE  LET v == ClearSetupInfo(u)
           IN  /\ v \in SetupInfo /\ Sane(v)
               /\ v.code = NoCode /\ ~v.refresh
               /\ v.nfc = u.nfc /\ v.asserts = u.asserts
BY SetupInfoAssumption DEF ClearSetupInfo, SetupInfo, AnyCode, Sane

\* PrepareSetupInfo keeps a code that is there, and shows one that is not.
LEMMA Prepared ==
    ASSUME NEW u \in SetupInfo, NEW lock \in BOOLEAN, NEW fresh \in Codes,
           NEW paired \in BOOLEAN,
           u.code # NoCode => Consistent(u)
    PROVE  LET v == PrepareSetupInfo(u, lock, fresh, paired)
           IN  /\ Consistent(v)
               /\ v.code # NoCode
               /\ lock => Locked(v)
               /\ u.code # NoCode => v.code = u.code /\ v.keep = u.keep
               /\ u.code # NoCode /\ Locked(u) => Locked(v)
               /\ v.asserts => u.asserts \/ paired
<1> DEFINE v == PrepareSetupInfo(u, lock, fresh, paired)
<1>1. CASE u.code # NoCode
  <2>1. v = IF lock THEN [u EXCEPT !.lock = TRUE, !.refresh = FALSE] ELSE u
    BY <1>1 DEF PrepareSetupInfo
  <2> QED
    BY <1>1, <2>1 DEF Consistent, Sane, Shown, SetupInfo, Locked
<1>2. CASE u.code = NoCode
  <2> DEFINE x == [u EXCEPT !.code = IF HasDisplay THEN fresh ELSE StaticCode,
                            !.lock = lock, !.keep = FALSE,
                            !.refresh = HasDisplay /\ ~lock]
  <2>1. v = SynchronizeDisplayAndNFC(x, paired)
    BY <1>2 DEF PrepareSetupInfo
  <2>2. /\ x \in SetupInfo
        /\ x.code # NoCode /\ x.lock = lock /\ x.refresh = (HasDisplay /\ ~lock)
        /\ x.asserts = u.asserts /\ ~x.keep
    BY ZenonT(40), SetupInfoAssumption DEF SetupInfo, AnyCode
  <2>3. Sane(x)
    BY <2>2 DEF Sane
  <2> HIDE DEF x
  <2>4. /\ Consistent(v) /\ v.code = x.code /\ v.lock = x.lock /\ v.refresh = x.refresh
        /\ v.asserts => x.asserts \/ paired
    BY <2>1, <2>2, <2>3, Synchronized
  <2> QED
    BY <1>2, <2>2, <2>4 DEF Locked
<1> QED
  BY <1>1, <1>2

\* The same for a record that is consistent already and is not locked by the call.
Prepares(u, v, paired) ==
    /\ Consistent(v)
    /\ u.code # NoCode => v = u
    /\ v.asserts => u.asserts \/ paired

LEMMA PreparedAgain ==
    ASSUME NEW u, Consistent(u), NEW fresh \in Codes, NEW paired \in BOOLEAN
    PROVE  Prepares(u, PrepareSetupInfo(u, FALSE, fresh, paired), paired)
<1>1. CASE u.code = NoCode
  BY <1>1, Prepared DEF Consistent, Prepares
<1>2. CASE u.code # NoCode
  <2>1. PrepareSetupInfo(u, FALSE, fresh, paired) = u
    BY <1>2 DEF PrepareSetupInfo
  <2> QED
    BY <1>2, <2>1 DEF Prepares
<1> QED
  BY <1>1, <1>2

\* What a change of the setup code outside a reset may do: a locked code stays as it
\* is, an assertion fails only for a paired accessory that still has a code, and a
\* paired accessory gets no code.
Careful(u, v, paired) ==
    /\ Consistent(v)
    /\ Locked(u) => Locked(v) /\ v.code = u.code /\ v.keep = u.keep
    /\ v.asserts => u.asserts \/ (paired /\ u.code # NoCode)
    /\ paired /\ u.code = NoCode => v.code = NoCode

LEMMA ExpiryCareful ==
    ASSUME NEW u, Consistent(u), NEW fresh \in Codes, NEW paired \in BOOLEAN
    PROVE  /\ u.refresh => Careful(u, DynamicSetupInfoExpired(u, fresh, paired), paired)
           /\ Careful(u, RefreshSetupPayload(u, fresh, paired), paired)
<1>1. u \in SetupInfo /\ Sane(u)
  BY DEF Consistent
<1>2. ASSUME u.refresh
      PROVE  Careful(u, DynamicSetupInfoExpired(u, fresh, paired), paired)
  <2> DEFINE x == [u EXCEPT !.refresh = FALSE]
             y == ClearSetupInfo(x)
             v == DynamicSetupInfoExpired(u, fresh, paired)
  <2>1. x \in SetupInfo /\ Sane(x) /\ x.asserts = u.asserts
    BY <1>1 DEF SetupInfo, Sane
  <2>2. y \in SetupInfo /\ y.code = NoCode /\ y.asserts = u.asserts
    BY <2>1, Cleared
  <2>3. v = PrepareSetupInfo(y, FALSE, fresh, paired)
    BY <1>1, <1>2 DEF DynamicSetupInfoExpired, Sane
  <2> HIDE DEF x, y, v
  <2>4. Consistent(v) /\ (v.asserts => y.asserts \/ paired)
    BY <2>2, <2>3, Prepared
  <2> QED
    BY <1>1, <1>2, <2>2, <2>4 DEF Careful, Locked, Sane, v
<1>3. Careful(u, RefreshSetupPayload(u, fresh, paired), paired)
  <2> DEFINE y == ClearSetupInfo(u)
             v == RefreshSetupPayload(u, fresh, paired)
  <2>1. CASE u.refresh
    <3>1. y \in SetupInfo /\ y.code = NoCode /\ y.asserts = u.asserts
      BY <1>1, Cleared
    <3>2. v = PrepareSetupInfo(y, FALSE, fresh, paired)
      BY <2>1 DEF RefreshSetupPayload
    <3> HIDE DEF y, v
    <3>3. Consistent(v) /\ (v.asserts => y.asserts \/ paired)
      BY <3>1, <3>2, Prepared
    <3> QED
      BY <1>1, <2>1, <3>1, <3>3 DEF Careful, Locked, Sane, v
  <2>2. CASE ~u.refresh
    BY <2>2 DEF RefreshSetupPayload, Careful
  <2> QED
    BY <2>1, <2>2
<1> QED
  BY <1>2, <1>3

LEMMA NFCCareful ==
    ASSUME NEW u, Consistent(u), NEW fresh \in Codes, NEW paired \in BOOLEAN
    PROVE  /\ Careful(u, ExitNFCPairingMode(u, paired), paired)
           /\ Careful(u, EnterNFCPairingMode(u, fresh, paired), paired)
<1>1. u \in SetupInfo /\ Sane(u)
  BY DEF Consistent
<1>2. Careful(u, u, paired)
  BY DEF Careful
<1>3. ASSUME u.nfc
      PROVE  Careful(u, ExitNFCPairingMode(u, paired), paired)
  <2> DEFINE x == [u EXCEPT !.nfc = FALSE]
             y == IF x.lock \/ x.refresh THEN x ELSE ClearSetupInfo(x)
             v == ExitNFCPairingMode(u, paired)
  <2>1. /\ x \in SetupInfo /\ Sane(x)
        /\ x.asserts = u.asserts /\ x.code = u.code /\ x.lock = u.lock
        /\ x.refresh = u.refresh /\ x.keep = u.keep
    BY <1>1 DEF SetupInfo, Sane
  <2>2. /\ y \in SetupInfo /\ Sane(y) /\ y.asserts = u.asserts
        /\ y.code # u.code => y.code = NoCode
        /\ Locked(u) => Locked(y) /\ y.code = u.code /\ y.keep = u.keep
    BY <2>1, Cleared DEF Locked
  <2>3. v = SynchronizeDisplayAndNFC(y, paired)
    BY <1>3 DEF ExitNFCPairingMode, CompleteExitingNFCPairingMode
  <2> HIDE DEF x, y, v
  <2>4. /\ Consistent(v)
        /\ v.code = y.code /\ v.lock = y.lock /\ v.keep = y.keep /\ v.refresh = y.refresh
        /\ v.asserts => y.asserts \/ (paired /\ y.code # NoCode)
    BY <2>2, <2>3, Synchronized
  <2> QED
    BY <2>2, <2>4 DEF Careful, Locked, v
<1>4. ASSUME ~u.nfc
      PROVE  Careful(u, ExitNFCPairingMode(u, paired), paired)
  BY <1>2, <1>4 DEF ExitNFCPairingMode
<1>5. ASSUME ~paired
      PROVE  Careful(u, EnterNFCPairingMode(u, fresh, paired), paired)
  <2> DEFINE x == [u EXCEPT !.nfc = TRUE]
             v == EnterNFCPairingMode(u, fresh, paired)
  <2>1. /\ x \in SetupInfo /\ Sane(x)
        /\ x.asserts = u.asserts /\ x.code = u.code /\ x.lock = u.lock
        /\ x.refresh = u.refresh /\ x.keep = u.keep
        /\ u.nfc => Shown(x)
    BY <1>1 DEF SetupInfo, Sane, Consistent, Shown
  <2> HIDE DEF x
  <2>2. CASE u.code = NoCode
    <3>1. v = PrepareSetupInfo(x, FALSE, fresh, paired)
      BY <1>5, <2>2 DEF EnterNFCPairingMode, x
    <3> HIDE DEF v
    <3>2. Consistent(v) /\ (v.asserts => x.asserts \/ paired)
      BY <2>1, <2>2, <3>1, Prepared
    <3> QED
      BY <1>5, <2>1, <2>2, <3>2 DEF Careful, Locked, v
  <2>3. CASE u.code # NoCode /\ u.nfc
    <3>1. v = x
      BY <1>5, <2>3 DEF EnterNFCPairingMode, x
    <3> QED
      BY <2>1, <2>3, <3>1 DEF Careful, Locked, Consistent
  <2>4. CASE u.code # NoCode /\ ~u.nfc
    <3>1. v = SynchronizeDisplayAndNFC(x, paired)
      BY <1>5, <2>4 DEF EnterNFCPairingMode, x
    <3> HIDE DEF v
    <3>2. /\ Consistent(v)
          /\ v.code = x.code /\ v.lock = x.lock /\ v.keep = x.keep
          /\ v.refresh = x.refresh /\ (v.asserts => x.asserts \/ paired)
      BY <2>1, <3>1, Synchronized
    <3> QED
      BY <1>5, <2>1, <3>2 DEF Careful, Locked, v
  <2> QED
    BY <2>2, <2>3, <2>4
<1>6. ASSUME paired
      PROVE  Careful(u, EnterNFCPairingMode(u, fresh, paired), paired)
  BY <1>2, <1>6 DEF EnterNFCPairingMode
<1> QED
  BY <1>3, <1>4, <1>5, <1>6

LEMMA ServerCareful ==
    ASSUME NEW u, Consistent(u), NEW fresh \in Codes, NEW paired \in BOOLEAN
    PROVE  /\ Careful(u, HandleAccessoryServerStateUpdate(u, fresh, paired), paired)
           /\ Careful(u, HandleAccessoryServerStart(u, fresh, paired), paired)
<1>1. u \in SetupInfo /\ Sane(u)
  BY DEF Consistent
<1>2. Careful(u, u, paired)
  BY DEF Careful
<1>3. ASSUME ~paired
      PROVE  Careful(u, PrepareSetupInfo(u, FALSE, fresh, paired), paired)
  <2> DEFINE v == PrepareSetupInfo(u, FALSE, fresh, paired)
  <2>1. Prepares(u, v, paired)
    BY PreparedAgain
  <2> HIDE DEF v
  <2> QED
    BY <1>3, <2>1 DEF Careful, Locked, Prepares, v
<1>4. Careful(u, SynchronizeDisplayAndNFC(u, paired), paired)
  <2> DEFINE v == SynchronizeDisplayAndNFC(u, paired)
  <2> HIDE DEF v
  <2>1. /\ Consistent(v)
        /\ v.code = u.code /\ v.lock = u.lock /\ v.keep = u.keep /\ v.refresh = u.refresh
        /\ v.asserts => u.asserts \/ (paired /\ u.code # NoCode)
    BY <1>1, Synchronized DEF v
  <2> QED
    BY <2>1 DEF Careful, Locked, v
<1>5. Careful(u, ExitNFCPairingMode(u, paired), paired)
  BY NFCCareful
<1> QED
  BY <1>2, <1>3, <1>4, <1>5
  DEF HandleAccessoryServerStateUpdate, HandleAccessoryServerStart

\* A stopped or restarted accessory has no code and shows none.
LEMMA StoppedSetup ==
    ASSUME NEW paired \in BOOLEAN
    PROVE  /\ Consistent(NoSetupInfo)
           /\ Consistent(HandleAccessoryServerStop(paired))
           /\ HandleAccessoryServerStop(paired).code = NoCode
           /\ ~HandleAccessoryServerStop(paired).keep
           /\ ~HandleAccessoryServerStop(paired).nfc
           /\ ~HandleAccessoryServerStop(paired).asserts
<1>1. /\ NoSetupInfo \in SetupInfo
      /\ NoSetupInfo.code = NoCode /\ ~NoSetupInfo.asserts
      /\ ~NoSetupInfo.keep /\ ~NoSetupInfo.refresh /\ ~NoSetupInfo.nfc
      /\ NoSetupInfo.display = NoCode /\ NoSetupInfo.tag = NoCode
  BY DEF NoSetupInfo, SetupInfo
<1>2. Consistent(NoSetupInfo)
  BY <1>1 DEF Consistent, Sane, Shown
<1> QED
  BY <1>1, <1>2, Synchronized DEF HandleAccessoryServerStop, Consistent

-------------------------------------------------------------------------------
\* The setup code in a pairing attempt.

\* HAPAccessorySetupInfoHandlePairingStart, for an accessory that is not paired.
LEMMA PairingStarts ==
    ASSUME NEW u, Consistent(u), NEW fresh \in Codes, NEW paired \in BOOLEAN
    PROVE  LET v == HandlePairingStart(u, fresh, paired)
           IN  Consistent(v) /\ Locked(v) /\ (v.asserts => u.asserts \/ paired)
<1>1. u \in SetupInfo
  BY DEF Consistent
<1> QED
  BY <1>1, Prepared DEF HandlePairingStart

\* HAPAccessorySetupInfoHandlePairingStop: nothing fails if the code was locked, and
\* a paired accessory is left without a code unless the code is kept.
LEMMA PairingStops ==
    ASSUME NEW u, Consistent(u), Locked(u), NEW keep \in BOOLEAN,
           NEW fresh \in Codes, NEW paired \in BOOLEAN
    PROVE  LET v == HandlePairingStop(u, keep, fresh, paired)
           IN  /\ Consistent(v)
               /\ keep => Locked(v) /\ v.code = u.code
               /\ ~keep /\ paired => v.code = NoCode
               /\ v.asserts => u.asserts
<1> DEFINE x == [u EXCEPT !.keep = TRUE, !.asserts = @ \/ ~u.lock]
           y == SynchronizeDisplayAndNFC(ClearSetupInfo(u), paired)
           z == IF keep THEN x ELSE y
           v == HandlePairingStop(u, keep, fresh, paired)
<1>1. u \in SetupInfo /\ Sane(u) /\ Shown(u)
  BY DEF Consistent
<1>2. x = [u EXCEPT !.keep = TRUE]
  BY <1>1 DEF SetupInfo, Locked
<1>3. /\ x \in SetupInfo
      /\ x.code = u.code /\ x.lock = u.lock /\ x.refresh = u.refresh /\ x.nfc = u.nfc
      /\ x.display = u.display /\ x.tag = u.tag /\ x.asserts = u.asserts
  BY <1>1, <1>2 DEF SetupInfo
<1>4. Consistent(x) /\ Locked(x)
  BY <1>1, <1>3 DEF Consistent, Sane, Shown, Locked
<1>5. Consistent(y) /\ y.code = NoCode /\ (y.asserts => u.asserts)
  <2>1. /\ ClearSetupInfo(u) \in SetupInfo /\ Sane(ClearSetupInfo(u))
        /\ ClearSetupInfo(u).code = NoCode /\ ClearSetupInfo(u).asserts = u.asserts
    BY <1>1, Cleared
  <2> QED
    BY <2>1, Synchronized
<1>6. v = IF HasDisplay /\ ~paired THEN PrepareSetupInfo(z, FALSE, fresh, paired) ELSE z
  BY DEF HandlePairingStop
<1> HIDE DEF x, y, v
<1>7. /\ Consistent(z) /\ z \in SetupInfo
      /\ keep => Locked(z) /\ z.code = u.code
      /\ ~keep => z.code = NoCode
      /\ z.asserts => u.asserts
  BY <1>3, <1>4, <1>5 DEF Consistent
<1> HIDE DEF z
<1>8. CASE HasDisplay /\ ~paired
  <2>1. v = PrepareSetupInfo(z, FALSE, fresh, paired)
    BY <1>6, <1>8
  <2>2. Prepares(z, v, paired)
    BY <1>7, <2>1, PreparedAgain
  <2> QED
    BY <1>7, <1>8, <2>2 DEF v, Locked, Prepares
<1>9. CASE ~(HasDisplay /\ ~paired)
  BY <1>6, <1>7, <1>9 DEF v
<1> QED
  BY <1>8, <1>9

\* HAPAccessorySetupInfoGetSetupInfo gives an attempt a locked code.
LEMMA GotSetupInfo ==
    ASSUME NEW u, Consistent(u), Locked(u), NEW restore \in BOOLEAN,
           NEW fresh \in Codes, NEW paired \in BOOLEAN
    PROVE  LET v == SetupInfoAfterGet(u, restore, fresh, paired)
           IN  Consistent(v) /\ Locked(v) /\ (v.asserts => u.asserts \/ paired)
<1>1. u \in SetupInfo /\ Sane(u)
  BY DEF Consistent
<1>2. /\ ClearSetupInfo(u) \in SetupInfo
      /\ ClearSetupInfo(u).code = NoCode /\ ClearSetupInfo(u).asserts = u.asserts
  BY <1>1, Cleared
<1> DEFINE w == PrepareSetupInfo(ClearSetupInfo(u), TRUE, fresh, paired)
<1>3. Consistent(w) /\ Locked(w) /\ (w.asserts => u.asserts \/ paired)
  BY <1>2, Prepared
<1> QED
  BY <1>3 DEF SetupInfoAfterGet

-------------------------------------------------------------------------------
\* Worlds.

Worlds == [pairing : Controllers \cup {Nobody}, attempts : 0 .. MaxAttempts,
           pairSetup : PairSetup, setup : SetupInfo,
           session : [Sessions -> SessionState]]

\* A session past M2 is the owner; the owner has a locked code, the verifier of that
\* code, and guesses left; and only its M5 pairs the accessory under it.  Of s, in the
\* middle of a handler, nothing is said.
ProperBut(w, s) ==
    /\ w \in Worlds
    /\ Consistent(w.setup) /\ ~w.setup.asserts
    /\ w.pairSetup.owner # Nobody => Locked(w.setup)
    /\ \A t \in Sessions \ {s} :
          w.session[t].state >= 2 => w.pairSetup.owner = t /\ w.attempts < MaxAttempts
    /\ \A t \in Sessions \ {s} : w.pairSetup.owner = t =>
          /\ w.session[t].state \in 2 .. 4 => w.pairSetup.verifier = w.setup.code
          /\ w.pairing # Nobody => w.session[t].state = 5

Proper(w) == ProperBut(w, Nobody)

\* The owner is a session that is open and in the procedure; s may just have claimed it.
EngagedBut(w, s) ==
    \A t \in Sessions : w.pairSetup.owner = t =>
        w.session[t].open /\ (w.session[t].state >= 1 \/ t = s)

Engaged(w) == EngagedBut(w, Nobody)

LEMMA NobodyIsNoSession == Nobody \notin Sessions /\ Nobody \notin Controllers
BY SetupAssumption DEF Sessions

LEMMA WorldElim ==
    ASSUME NEW w \in Worlds, NEW s \in Sessions
    PROVE  /\ w.pairing \in Controllers \cup {Nobody}
           /\ w.attempts \in Nat /\ w.attempts \in 0 .. MaxAttempts
           /\ w.pairSetup \in PairSetup /\ w.setup \in SetupInfo
           /\ w.session \in [Sessions -> SessionState]
           /\ w.session[s] \in SessionState /\ w.session[s].state \in 0 .. 5
           /\ IsPaired(w) \in BOOLEAN
BY SetupAssumption DEF Worlds, SessionState, IsPaired

LEMMA PairSetupElim ==
    ASSUME NEW p \in PairSetup
    PROVE  /\ p.owner \in Sessions \cup {Nobody}
           /\ p.transient \in BOOLEAN /\ p.split \in BOOLEAN
           /\ p.verifier \in AnyCode \cup {NoCode}
BY DEF PairSetup

LEMMA NoPairSetupType ==
    NoPairSetup \in PairSetup /\ NoPairSetup.owner = Nobody
BY DEF NoPairSetup, PairSetup

\* A world with its session s left open to the next steps of a handler.
LEMMA ProperElim ==
    ASSUME NEW w, Proper(w), NEW s \in Sessions
    PROVE  /\ ProperBut(w, s)
           /\ w.session[s].state >= 2 => Owns(w, s) /\ w.attempts < MaxAttempts
           /\ Owns(w, s) =>
                 /\ w.session[s].state \in 2 .. 4 => w.pairSetup.verifier = w.setup.code
                 /\ w.pairing # Nobody => w.session[s].state = 5
BY NobodyIsNoSession DEF Proper, ProperBut, Owns

LEMMA ProperIntro ==
    ASSUME NEW w, NEW s \in Sessions, ProperBut(w, s),
           w.session[s].state >= 2 => Owns(w, s) /\ w.attempts < MaxAttempts,
           Owns(w, s) =>
              /\ w.session[s].state \in 2 .. 4 => w.pairSetup.verifier = w.setup.code
              /\ w.pairing # Nobody => w.session[s].state = 5
    PROVE  Proper(w)
BY NobodyIsNoSession DEF Proper, ProperBut, Owns

\* What a step of session s leaves alone: the sessions other than s, the connections,
\* the transient sessions, and the pairing.
Frame(w, v, s) ==
    /\ v.pairing = w.pairing
    /\ \A t \in Sessions : t # s => v.session[t] = w.session[t]
    /\ \A t \in Sessions : /\ v.session[t].open = w.session[t].open
                           /\ v.session[t].transient = w.session[t].transient

LEMMA ResetSession ==
    ASSUME NEW x \in SessionState
    PROVE  LET y == [x EXCEPT !.state = 0, !.auth = FALSE, !.error = FALSE]
           IN  /\ y \in SessionState /\ y.state = 0
               /\ y.open = x.open /\ y.transient = x.transient
<1> DEFINE y == [x EXCEPT !.state = 0, !.auth = FALSE, !.error = FALSE]
<1>1. y \in SessionState
  <2> DEFINE a == [x EXCEPT !.state = 0]
             b == [a EXCEPT !.auth = FALSE]
  <2>1. a \in SessionState
    BY DEF SessionState
  <2> HIDE DEF a
  <2>2. b \in SessionState
    BY <2>1 DEF SessionState
  <2> HIDE DEF b
  <2>3. [b EXCEPT !.error = FALSE] \in SessionState
    BY <2>2 DEF SessionState
  <2> QED
    BY <2>3 DEF a, b
<1>2. y.state = 0 /\ y.open = x.open /\ y.transient = x.transient
  BY DEF SessionState
<1> QED
  BY <1>1, <1>2

\* HAPPairingPairSetupResetForSession.
Resets(w, v, s, keep) ==
    /\ Proper(v)
    /\ EngagedBut(w, s) => Engaged(v)
    /\ Frame(w, v, s) /\ v.attempts = w.attempts
    /\ v.session[s].state = 0 /\ v.pairSetup.owner # s
    /\ ~Owns(w, s) => v.setup = w.setup /\ v.pairSetup = w.pairSetup
    /\ Owns(w, s) => v.pairSetup.owner = Nobody
    /\ Owns(w, s) /\ ~keep /\ IsPaired(w) => v.setup.code = NoCode

LEMMA Reset ==
    ASSUME NEW w, NEW s \in Sessions, ProperBut(w, s), NEW keep \in BOOLEAN,
           NEW fresh \in Codes
    PROVE  Resets(w, ResetForSession(w, s, keep, fresh), s, keep)
<1> DEFINE x == [w.session[s] EXCEPT !.state = 0, !.auth = FALSE, !.error = FALSE]
           p == IF Owns(w, s) THEN NoPairSetup ELSE w.pairSetup
           u == IF Owns(w, s) THEN HandlePairingStop(w.setup, keep, fresh, IsPaired(w))
                ELSE w.setup
           v == ResetForSession(w, s, keep, fresh)
<1>1. /\ w \in Worlds /\ Consistent(w.setup) /\ ~w.setup.asserts
      /\ w.pairSetup \in PairSetup /\ w.session \in [Sessions -> SessionState]
      /\ w.session[s] \in SessionState /\ IsPaired(w) \in BOOLEAN
  BY WorldElim DEF ProperBut
<1>2. /\ x \in SessionState /\ x.state = 0
      /\ x.open = w.session[s].open /\ x.transient = w.session[s].transient
  BY <1>1, ResetSession
<1>3. p \in PairSetup /\ p.owner # s /\ (Owns(w, s) => p.owner = Nobody)
  BY <1>1, NoPairSetupType, NobodyIsNoSession DEF Owns
<1>4. /\ Consistent(u) /\ ~u.asserts /\ (p.owner # Nobody => Locked(u))
      /\ Owns(w, s) /\ ~keep /\ IsPaired(w) => u.code = NoCode
  <2>1. CASE Owns(w, s)
    <3>1. Locked(w.setup)
      BY <2>1, NobodyIsNoSession DEF Owns, ProperBut
    <3>2. u = HandlePairingStop(w.setup, keep, fresh, IsPaired(w))
      BY <2>1
    <3> QED
      BY <1>1, <1>3, <2>1, <3>1, <3>2, PairingStops
  <2>2. CASE ~Owns(w, s)
    BY <1>1, <2>2 DEF ProperBut
  <2> QED
    BY <2>1, <2>2
<1>5. v = [w EXCEPT !.session[s] = x, !.pairSetup = p, !.setup = u]
  BY DEF ResetForSession
<1>6. ~Owns(w, s) => u = w.setup /\ p = w.pairSetup
  OBVIOUS
<1> HIDE DEF x, p, u, v
<1>7. /\ v \in Worlds
      /\ v.pairing = w.pairing /\ v.attempts = w.attempts
      /\ v.pairSetup = p /\ v.setup = u /\ v.session = [w.session EXCEPT ![s] = x]
  BY <1>1, <1>2, <1>3, <1>4, <1>5 DEF Worlds, Consistent
<1>8. /\ v.session[s] = x
      /\ \A t \in Sessions : t # s => v.session[t] = w.session[t]
  BY <1>1, <1>7
<1>9. Frame(w, v, s)
  BY <1>2, <1>7, <1>8 DEF Frame
<1>10. Proper(v)
  BY <1>2, <1>3, <1>4, <1>6, <1>7, <1>8, NobodyIsNoSession DEF Proper, ProperBut, Owns
<1>11. EngagedBut(w, s) => Engaged(v)
  BY <1>3, <1>6, <1>7, <1>8, NobodyIsNoSession DEF EngagedBut, Engaged, Owns
<1> QED
  BY <1>2, <1>3, <1>4, <1>6, <1>7, <1>8, <1>9, <1>10, <1>11 DEF v, Resets

-------------------------------------------------------------------------------
\* Writes.

\* The owner s is reset and its code, which was locked for it, stays.
LEMMA Abandoned ==
    ASSUME NEW w, Proper(w), NEW s \in Sessions, Owns(w, s), Engaged(w), NEW fresh \in Codes
    PROVE  LET v == Abandon(w, s, fresh)
           IN  /\ Proper(v) /\ Engaged(v) /\ Frame(w, v, s)
               /\ v.attempts = w.attempts
               /\ v.session[s].state = 0 /\ v.pairSetup.owner = Nobody
<1> DEFINE r == ResetForSession(w, s, TRUE, fresh)
           v == Abandon(w, s, fresh)
<1>1. ProperBut(w, s) /\ EngagedBut(w, s) /\ TRUE \in BOOLEAN
  BY ProperElim, NobodyIsNoSession DEF Engaged, EngagedBut
<1>2. /\ Proper(r) /\ Engaged(r) /\ Frame(w, r, s) /\ r.attempts = w.attempts
      /\ r.session[s].state = 0 /\ r.pairSetup.owner = Nobody
  <2>1. Resets(w, r, s, TRUE)
    BY <1>1, Reset
  <2> QED
    BY <1>1, <2>1 DEF Resets
<1>3. v = [r EXCEPT !.setup.keep = FALSE]
  BY DEF Abandon
<1> HIDE DEF r, v
<1> DEFINE u == [r.setup EXCEPT !.keep = FALSE]
<1>4. r \in Worlds /\ Consistent(r.setup) /\ ~r.setup.asserts /\ r.setup \in SetupInfo
  BY <1>2 DEF Proper, ProperBut, Consistent
<1>5. u \in SetupInfo
  BY <1>4 DEF SetupInfo
<1>6. /\ u.code = r.setup.code /\ u.lock = r.setup.lock /\ u.refresh = r.setup.refresh
      /\ u.nfc = r.setup.nfc /\ u.display = r.setup.display /\ u.tag = r.setup.tag
      /\ u.asserts = r.setup.asserts /\ ~u.keep
  BY <1>4 DEF SetupInfo
<1>7. Consistent(u)
  BY <1>4, <1>5, <1>6 DEF Consistent, Sane, Shown
<1>8. v = [r EXCEPT !.setup = u]
  BY <1>3, <1>4 DEF Worlds
<1> HIDE DEF u
<1>9. /\ v \in Worlds
      /\ v.pairing = r.pairing /\ v.attempts = r.attempts
      /\ v.pairSetup = r.pairSetup /\ v.setup = u /\ v.session = r.session
  BY <1>4, <1>5, <1>8 DEF Worlds
<1>10. Proper(v)
  BY <1>2, <1>4, <1>6, <1>7, <1>9 DEF Proper, ProperBut, Locked
<1>11. Engaged(v) /\ Frame(w, v, s)
  BY <1>2, <1>9 DEF Engaged, EngagedBut, Frame
<1> QED
  BY <1>2, <1>9, <1>10, <1>11 DEF v

\* What a write leaves alone: the connections and the transient sessions.
Links(w, v) ==
    \A t \in Sessions : /\ v.session[t].open = w.session[t].open
                        /\ v.session[t].transient = w.session[t].transient

\* Claiming the procedure leaves the session itself as it was.
LEMMA Claimed ==
    ASSUME NEW w, Proper(w), Engaged(w), NEW s \in Sessions, w.session[s].open,
           NEW fresh \in Codes
    PROVE  LET v == Claims(w, s, fresh)
           IN  /\ Proper(v) /\ EngagedBut(v, s) /\ Links(w, v)
               /\ v.session[s] = w.session[s]
               /\ v.pairing = w.pairing /\ v.attempts = w.attempts
               /\ v.pairSetup.owner \in {w.pairSetup.owner, Nobody, s}
               /\ IsPaired(w) => v = w
               /\ w.session[s].state # 0 => v = w
<1> DEFINE o == w.pairSetup.owner
           x == TakesOver(w, s, fresh)
           u == HandlePairingStart(x.setup, fresh, IsPaired(x))
           v == Claims(w, s, fresh)
<1>1. EngagedBut(w, s) /\ Links(w, w)
  BY NobodyIsNoSession DEF Engaged, EngagedBut, Links
<1>2. CASE w.session[s].state # 0 \/ IsPaired(w)
  <2>1. v = w
    BY <1>2 DEF Claims
  <2> QED
    BY <1>1, <1>2, <2>1
<1>3. CASE w.session[s].state = 0 /\ ~IsPaired(w)
  <2>1. /\ Proper(x) /\ Engaged(x) /\ Links(w, x) /\ x.session[s] = w.session[s]
        /\ x.pairing = w.pairing /\ x.attempts = w.attempts
        /\ x.pairSetup.owner \in {o, Nobody}
    <3>1. CASE o \notin {s, Nobody} /\ w.pairSetup.expired
      <4>1. o \in Sessions /\ o # s /\ Owns(w, o)
        BY <3>1, WorldElim, PairSetupElim DEF Proper, ProperBut, Owns
      <4>2. x = Abandon(w, o, fresh)
        BY <3>1 DEF TakesOver
      <4> HIDE DEF o, x
      <4>3. /\ Proper(x) /\ Engaged(x) /\ Frame(w, x, o) /\ x.attempts = w.attempts
            /\ x.pairSetup.owner = Nobody
        BY <4>1, <4>2, Abandoned
      <4> QED
        BY <4>1, <4>3 DEF Frame, Links
    <3>2. CASE ~(o \notin {s, Nobody} /\ w.pairSetup.expired)
      <4>1. x = w
        BY <3>2 DEF TakesOver
      <4> QED
        BY <1>1, <4>1
    <3> QED
      BY <3>1, <3>2
  <2>2. v = IF x.pairSetup.owner # Nobody THEN x
            ELSE [x EXCEPT !.pairSetup.owner = s, !.setup = u]
    BY <1>3 DEF Claims
  <2> HIDE DEF x, v
  <2>3. CASE x.pairSetup.owner # Nobody
    BY <1>3, <2>1, <2>2, <2>3 DEF v, Engaged, EngagedBut
  <2>4. CASE x.pairSetup.owner = Nobody
    <3> DEFINE p == [x.pairSetup EXCEPT !.owner = s]
    <3>1. /\ x \in Worlds /\ Consistent(x.setup) /\ ~x.setup.asserts
          /\ x.pairSetup \in PairSetup /\ ~IsPaired(x) /\ IsPaired(x) \in BOOLEAN
      BY <1>3, <2>1, WorldElim DEF Proper, ProperBut, IsPaired
    <3>2. p \in PairSetup /\ p.owner = s
      BY <3>1 DEF PairSetup
    <3>3. Consistent(u) /\ Locked(u) /\ ~u.asserts /\ u \in SetupInfo
      BY <3>1, PairingStarts DEF Consistent
    <3>4. v = [x EXCEPT !.pairSetup = p, !.setup = u]
      BY <2>2, <2>4, <3>1 DEF Worlds
    <3> HIDE DEF p, u
    <3>5. /\ v \in Worlds /\ v.pairing = x.pairing /\ v.attempts = x.attempts
          /\ v.pairSetup = p /\ v.setup = u /\ v.session = x.session
      BY <3>1, <3>2, <3>3, <3>4 DEF Worlds
    <3>6. \A t \in Sessions : x.session[t].state \in {0, 1}
      BY <2>1, <2>4, <3>1, WorldElim, NobodyIsNoSession DEF Proper, ProperBut
    <3>7. Proper(v)
      BY <2>1, <3>1, <3>2, <3>3, <3>5, <3>6 DEF Proper, ProperBut, IsPaired
    <3>8. EngagedBut(v, s) /\ Links(w, v)
      BY <2>1, <3>2, <3>5 DEF EngagedBut, Links
    <3> QED
      BY <1>3, <2>1, <3>2, <3>5, <3>7, <3>8 DEF v
  <2> QED
    BY <2>3, <2>4
<1> QED
  BY <1>2, <1>3

LEMMA MessageElim ==
    ASSUME NEW m \in Messages
    PROVE  /\ m.type \in {"M1", "M3", "M5", "Malformed"}
           /\ m.type = "M1" => /\ m.auth \in BOOLEAN /\ m.transient \in BOOLEAN
                               /\ m.split \in BOOLEAN
           /\ m.type = "M3" => m.proof \in Proofs
           /\ m.type = "M5" => m.id \in Controllers /\ m.valid \in BOOLEAN
BY DEF Messages

\* A write keeps a proper world proper; it pairs an accessory that was not paired and
\* had guesses left, and leaves session s at M6; a paired accessory without an owner
\* keeps its setup code as it is.
Writes(w, v, s) ==
    /\ Proper(v) /\ Engaged(v) /\ Links(w, v)
    /\ v.attempts = w.attempts
    /\ v.pairSetup.owner \in {w.pairSetup.owner, Nobody, s}
    /\ v.pairing # w.pairing =>
          /\ w.pairing = Nobody /\ w.attempts < MaxAttempts
          /\ Owns(v, s) /\ v.session[s].state = 5
    /\ w.pairing # Nobody /\ w.pairSetup.owner = Nobody =>
          v.setup = w.setup /\ v.pairSetup.owner = Nobody

LEMMA ProcessesM1 ==
    ASSUME NEW w, Proper(w), NEW s \in Sessions, EngagedBut(w, s),
           w.session[s].state = 0, NEW m \in Messages, m.type = "M1"
    PROVE  Writes(w, ProcessM1(w, s, m), s)
<1> DEFINE x == [w.session[s] EXCEPT !.state = 1, !.auth = m.auth]
           p == IF Owns(w, s)
                THEN [w.pairSetup EXCEPT !.transient = m.transient, !.split = m.split]
                ELSE w.pairSetup
           v == ProcessM1(w, s, m)
<1>1. /\ w \in Worlds /\ w.pairSetup \in PairSetup /\ w.session[s] \in SessionState
      /\ w.session \in [Sessions -> SessionState]
      /\ m.auth \in BOOLEAN /\ m.transient \in BOOLEAN /\ m.split \in BOOLEAN
  BY WorldElim, MessageElim DEF Proper, ProperBut
<1>2. /\ x \in SessionState /\ x.state = 1
      /\ x.open = w.session[s].open /\ x.transient = w.session[s].transient
  <2> DEFINE a == [w.session[s] EXCEPT !.state = 1]
  <2>1. /\ a \in SessionState /\ a.state = 1
        /\ a.open = w.session[s].open /\ a.transient = w.session[s].transient
    BY <1>1 DEF SessionState
  <2> HIDE DEF a
  <2>2. LET b == [a EXCEPT !.auth = m.auth]
        IN  /\ b \in SessionState /\ b.state = a.state
            /\ b.open = a.open /\ b.transient = a.transient
    BY <1>1, <2>1 DEF SessionState
  <2> QED
    BY <2>1, <2>2 DEF a
<1>3. p \in PairSetup /\ p.owner = w.pairSetup.owner /\ p.verifier = w.pairSetup.verifier
  <2> DEFINE a == [w.pairSetup EXCEPT !.transient = m.transient]
  <2>1. a \in PairSetup /\ a.owner = w.pairSetup.owner /\ a.verifier = w.pairSetup.verifier
    BY <1>1 DEF PairSetup
  <2> HIDE DEF a
  <2>2. LET b == [a EXCEPT !.split = m.split]
        IN  b \in PairSetup /\ b.owner = a.owner /\ b.verifier = a.verifier
    BY <1>1, <2>1 DEF PairSetup
  <2> QED
    BY <1>1, <2>1, <2>2 DEF a
<1>4. v = [w EXCEPT !.session[s] = x, !.pairSetup = p]
  BY DEF ProcessM1
<1> HIDE DEF x, p, v
<1>5. /\ v \in Worlds /\ v.pairing = w.pairing /\ v.attempts = w.attempts
      /\ v.pairSetup = p /\ v.setup = w.setup /\ v.session = [w.session EXCEPT ![s] = x]
  BY <1>1, <1>2, <1>3, <1>4 DEF Worlds
<1>6. v.session[s] = x /\ \A t \in Sessions : t # s => v.session[t] = w.session[t]
  BY <1>1, <1>5
<1>7. ProperBut(v, s)
  BY <1>3, <1>5, <1>6, ProperElim DEF ProperBut
<1>8. ~(Owns(w, s) /\ w.pairing # Nobody)
  BY ProperElim
<1>9. Proper(v)
  BY <1>2, <1>3, <1>5, <1>6, <1>7, <1>8, ProperIntro DEF Owns
<1>10. Engaged(v) /\ Links(w, v)
  BY <1>2, <1>3, <1>5, <1>6 DEF Engaged, EngagedBut, Links
<1> QED
  BY <1>3, <1>5, <1>9, <1>10 DEF Writes, v

LEMMA ProcessesM3 ==
    ASSUME NEW w, Proper(w), NEW s \in Sessions, EngagedBut(w, s),
           w.session[s].state = 2, NEW m \in Messages, m.type = "M3"
    PROVE  Writes(w, ProcessM3(w, s, m), s)
<1> DEFINE x == [w.session[s] EXCEPT !.state = 3]
           p == [w.pairSetup EXCEPT !.proof = m.proof]
           v == ProcessM3(w, s, m)
<1>1. /\ w \in Worlds /\ w.pairSetup \in PairSetup /\ w.session[s] \in SessionState
      /\ w.session \in [Sessions -> SessionState] /\ m.proof \in Proofs
  BY WorldElim, MessageElim DEF Proper, ProperBut
<1>2. /\ x \in SessionState /\ x.state = 3
      /\ x.open = w.session[s].open /\ x.transient = w.session[s].transient
  BY <1>1 DEF SessionState
<1>3. p \in PairSetup /\ p.owner = w.pairSetup.owner /\ p.verifier = w.pairSetup.verifier
  BY <1>1 DEF PairSetup
<1>4. v = [w EXCEPT !.session[s] = x, !.pairSetup = p]
  BY <1>1 DEF ProcessM3, Worlds
<1> HIDE DEF x, p, v
<1>5. /\ v \in Worlds /\ v.pairing = w.pairing /\ v.attempts = w.attempts
      /\ v.pairSetup = p /\ v.setup = w.setup /\ v.session = [w.session EXCEPT ![s] = x]
  BY <1>1, <1>2, <1>3, <1>4 DEF Worlds
<1>6. v.session[s] = x /\ \A t \in Sessions : t # s => v.session[t] = w.session[t]
  BY <1>1, <1>5
<1>7. /\ Owns(w, s) /\ w.attempts < MaxAttempts /\ w.pairing = Nobody
      /\ w.pairSetup.verifier = w.setup.code
  BY ProperElim
<1>8. ProperBut(v, s)
  BY <1>3, <1>5, <1>6, ProperElim DEF ProperBut
<1>9. Proper(v)
  BY <1>2, <1>3, <1>5, <1>6, <1>7, <1>8, ProperIntro DEF Owns
<1>10. Engaged(v) /\ Links(w, v)
  BY <1>2, <1>3, <1>5, <1>6 DEF Engaged, EngagedBut, Links
<1> QED
  BY <1>3, <1>5, <1>7, <1>9, <1>10 DEF Writes, v

LEMMA ProcessesM5 ==
    ASSUME NEW w, Proper(w), NEW s \in Sessions, EngagedBut(w, s),
           w.session[s].state = 4, NEW m \in Messages, m.type = "M5"
    PROVE  Writes(w, ProcessM5(w, s, m), s)
<1> DEFINE x == [w.session[s] EXCEPT !.state = 5, !.error = ~m.valid]
           c == IF m.valid THEN m.id ELSE w.pairing
           v == ProcessM5(w, s, m)
<1>1. /\ w \in Worlds /\ w.pairSetup \in PairSetup /\ w.session[s] \in SessionState
      /\ w.session \in [Sessions -> SessionState] /\ w.pairing \in Controllers \cup {Nobody}
      /\ m.id \in Controllers /\ m.valid \in BOOLEAN
  BY WorldElim, MessageElim DEF Proper, ProperBut
<1>2. /\ x \in SessionState /\ x.state = 5
      /\ x.open = w.session[s].open /\ x.transient = w.session[s].transient
  <2> DEFINE a == [w.session[s] EXCEPT !.state = 5]
             e == ~m.valid
  <2>1. /\ a \in SessionState /\ a.state = 5
        /\ a.open = w.session[s].open /\ a.transient = w.session[s].transient
    BY <1>1 DEF SessionState
  <2>2. e \in BOOLEAN
    OBVIOUS
  <2> HIDE DEF a, e
  <2>3. LET b == [a EXCEPT !.error = e]
        IN  /\ b \in SessionState /\ b.state = a.state
            /\ b.open = a.open /\ b.transient = a.transient
    BY <2>1, <2>2 DEF SessionState
  <2> QED
    BY <2>1, <2>3 DEF a, e
<1>3. c \in Controllers \cup {Nobody}
  BY <1>1
<1>4. v = [w EXCEPT !.session[s] = x, !.pairing = c]
  BY <1>1 DEF ProcessM5, Worlds
<1> HIDE DEF x, c, v
<1>5. /\ v \in Worlds /\ v.pairing = c /\ v.attempts = w.attempts
      /\ v.pairSetup = w.pairSetup /\ v.setup = w.setup
      /\ v.session = [w.session EXCEPT ![s] = x]
  BY <1>1, <1>2, <1>3, <1>4 DEF Worlds
<1>6. v.session[s] = x /\ \A t \in Sessions : t # s => v.session[t] = w.session[t]
  BY <1>1, <1>5
<1>7. Owns(w, s) /\ w.attempts < MaxAttempts /\ w.pairing = Nobody
  BY ProperElim
<1>8. ProperBut(v, s)
  BY <1>5, <1>6, <1>7, ProperElim DEF ProperBut, Owns
<1>9. Proper(v)
  BY <1>2, <1>5, <1>6, <1>7, <1>8, ProperIntro DEF Owns
<1>10. Engaged(v) /\ Links(w, v)
  BY <1>2, <1>5, <1>6 DEF Engaged, EngagedBut, Links
<1>11. Owns(v, s) /\ v.session[s].state = 5
  BY <1>2, <1>5, <1>6, <1>7 DEF Owns
<1> QED
  BY <1>5, <1>7, <1>9, <1>10, <1>11 DEF Writes, v

\* HAPPairingPairSetupHandleWrite.
LEMMA Written ==
    ASSUME NEW w, Proper(w), Engaged(w), NEW s \in Sessions, w.session[s].open,
           NEW m \in Messages, NEW fresh \in Codes
    PROVE  Writes(w, HandleWrite(w, s, m, fresh), s)
<1> DEFINE a == IF Owns(w, s) /\ m.type = "M1" THEN Abandon(w, s, fresh) ELSE w
           v == IF m.type = "Malformed" THEN w ELSE Claims(a, s, fresh)
           r == ResetForSession(v, s, FALSE, fresh)
<1>1. /\ Proper(a) /\ Engaged(a) /\ Links(w, a) /\ a.session[s].open
      /\ a.pairing = w.pairing /\ a.attempts = w.attempts
      /\ a.pairSetup.owner \in {w.pairSetup.owner, Nobody}
      /\ w.pairSetup.owner = Nobody => a = w
  <2>1. CASE Owns(w, s) /\ m.type = "M1"
    <3>1. a = Abandon(w, s, fresh)
      BY <2>1
    <3> HIDE DEF a
    <3>2. /\ Proper(a) /\ Engaged(a) /\ Frame(w, a, s) /\ a.attempts = w.attempts
          /\ a.pairSetup.owner = Nobody
      BY <2>1, <3>1, Abandoned
    <3> QED
      BY <2>1, <3>2, NobodyIsNoSession DEF Frame, Links, Owns
  <2>2. CASE ~(Owns(w, s) /\ m.type = "M1")
    BY <2>2 DEF Links
  <2> QED
    BY <2>1, <2>2
<1> HIDE DEF a
<1>2. /\ Proper(v) /\ EngagedBut(v, s) /\ Links(w, v)
      /\ v.pairing = w.pairing /\ v.attempts = w.attempts
      /\ v.pairSetup.owner \in {w.pairSetup.owner, Nobody, s}
      /\ w.pairing # Nobody /\ w.pairSetup.owner = Nobody =>
            v.setup = w.setup /\ v.pairSetup.owner = Nobody
  <2>1. CASE m.type = "Malformed"
    BY <2>1, NobodyIsNoSession DEF Engaged, EngagedBut, Links
  <2>2. CASE m.type # "Malformed"
    <3>1. v = Claims(a, s, fresh)
      BY <2>2
    <3> HIDE DEF v
    <3>2. /\ Proper(v) /\ EngagedBut(v, s) /\ Links(a, v)
          /\ v.pairing = a.pairing /\ v.attempts = a.attempts
          /\ v.pairSetup.owner \in {a.pairSetup.owner, Nobody, s}
          /\ IsPaired(a) => v = a
      BY <1>1, <3>1, Claimed
    <3> QED
      BY <1>1, <3>2 DEF Links, IsPaired
  <2> QED
    BY <2>1, <2>2
<1> HIDE DEF v
<1>3. \A x : Writes(v, x, s) => Writes(w, x, s)
  BY <1>2 DEF Writes, Links
<1>4. CASE v.session[s].state = 0 /\ m.type = "M1" /\ m.ok
  <2>1. HandleWrite(w, s, m, fresh) = ProcessM1(v, s, m)
    BY <1>4 DEF HandleWrite, v, a
  <2> QED
    BY <1>2, <1>3, <1>4, <2>1, ProcessesM1
<1>5. CASE v.session[s].state = 2 /\ m.type = "M3"
  <2>1. HandleWrite(w, s, m, fresh) = ProcessM3(v, s, m)
    BY <1>5 DEF HandleWrite, v, a
  <2> QED
    BY <1>2, <1>3, <1>5, <2>1, ProcessesM3
<1>6. CASE v.session[s].state = 4 /\ m.type = "M5"
  <2>1. HandleWrite(w, s, m, fresh) = ProcessM5(v, s, m)
    BY <1>6 DEF HandleWrite, v, a
  <2> QED
    BY <1>2, <1>3, <1>6, <2>1, ProcessesM5
<1>7. CASE /\ ~(v.session[s].state = 0 /\ m.type = "M1" /\ m.ok)
           /\ ~(v.session[s].state = 2 /\ m.type = "M3")
           /\ ~(v.session[s].state = 4 /\ m.type = "M5")
  <2>1. HandleWrite(w, s, m, fresh) = r
    BY <1>7 DEF HandleWrite, v, a
  <2> HIDE DEF r
  <2>2. Resets(v, r, s, FALSE)
    BY <1>2, ProperElim, Reset DEF r
  <2>3. Writes(v, r, s)
    BY <1>2, <2>2, NobodyIsNoSession DEF Resets, Writes, Frame, Links, Owns
  <2> QED
    BY <1>3, <2>1, <2>3
<1> QED
  BY <1>4, <1>5, <1>6, <1>7

-------------------------------------------------------------------------------
\* Reads.

\* A read keeps a proper world proper and the pairing as it is; it leaves a paired
\* accessory without a code if it had none or if it ends the procedure of s; it opens
\* a transient session only when nobody is paired; and it does not get back guesses
\* that are used up.
Reads(w, v, s) ==
    /\ Proper(v) /\ Engaged(v)
    /\ v.pairing = w.pairing
    /\ w.attempts = MaxAttempts => v.attempts = MaxAttempts
    /\ \A t \in Sessions : /\ v.session[t].open = w.session[t].open
                           /\ \/ v.session[t].transient = w.session[t].transient
                              \/ v.pairing = Nobody /\ ~Owns(v, t)
    /\ v.pairSetup.owner \in {w.pairSetup.owner, Nobody}
    /\ w.pairing # Nobody =>
          /\ Owns(w, s) => v.setup.code = NoCode /\ v.pairSetup.owner = Nobody
          /\ ~Owns(w, s) => v.setup = w.setup

\* A world that differs from w only in the middle of the procedure of s is reset.
LEMMA ResetReads ==
    ASSUME NEW w, Proper(w), Engaged(w), NEW s \in Sessions, NEW fresh \in Codes,
           NEW x, ProperBut(x, s), EngagedBut(x, s), NEW keep \in BOOLEAN,
           x.pairing = w.pairing, x.pairSetup.owner = w.pairSetup.owner,
           w.attempts = MaxAttempts => x.attempts = MaxAttempts,
           \A t \in Sessions : /\ x.session[t].open = w.session[t].open
                               /\ \/ x.session[t].transient = w.session[t].transient
                                  \/ w.pairing = Nobody /\ t = s,
           w.pairing # Nobody => x.setup = w.setup /\ ~keep
    PROVE  Reads(w, ResetForSession(x, s, keep, fresh), s)
<1> DEFINE r == ResetForSession(x, s, keep, fresh)
<1>1. Resets(x, r, s, keep)
  BY Reset
<1> HIDE DEF r
<1> QED
  BY <1>1 DEF Resets, Reads, Frame, Owns, IsPaired, r

LEMMA GetsM2 ==
    ASSUME NEW w, Proper(w), Engaged(w), NEW s \in Sessions, w.session[s].state = 1,
           NEW fresh \in Codes
    PROVE  Reads(w, GetM2(w, s, fresh), s)
<1> DEFINE restore == w.pairSetup.split /\ ~w.pairSetup.transient /\ ~w.session[s].auth
           got == SetupInfoAfterGet(w.setup, restore, fresh, IsPaired(w))
           v == GetM2(w, s, fresh)
<1>1. /\ w \in Worlds /\ w.pairSetup \in PairSetup /\ w.session[s] \in SessionState
      /\ w.session \in [Sessions -> SessionState] /\ IsPaired(w) \in BOOLEAN
      /\ w.attempts \in Nat /\ w.setup \in SetupInfo
      /\ Consistent(w.setup) /\ ~w.setup.asserts
  BY WorldElim DEF Proper, ProperBut
<1>2. restore \in BOOLEAN
  OBVIOUS
<1>3. CASE M2Refuses(w, s) \/ (restore /\ w.setup.code = NoCode)
  <2>1. v = ResetForSession(w, s, FALSE, fresh)
    BY <1>3 DEF GetM2
  <2>2. ProperBut(w, s) /\ EngagedBut(w, s) /\ FALSE \in BOOLEAN
    BY ProperElim, NobodyIsNoSession DEF Engaged, EngagedBut
  <2> QED
    BY <2>1, <2>2, ResetReads
<1>4. CASE ~(M2Refuses(w, s) \/ (restore /\ w.setup.code = NoCode))
  <2> DEFINE x == [w.session[s] EXCEPT !.state = 2]
             p == [w.pairSetup EXCEPT !.verifier = got.code]
  <2>1. v = [w EXCEPT !.session[s] = x, !.setup = got, !.pairSetup = p]
    BY <1>1, <1>4 DEF GetM2, Worlds
  <2>2. /\ w.pairing = Nobody /\ w.attempts # MaxAttempts /\ Owns(w, s)
        /\ w.attempts < MaxAttempts
    BY <1>1, <1>4, SetupAssumption DEF M2Refuses, IsPaired, Owns
  <2>3. Locked(w.setup)
    BY <2>2, NobodyIsNoSession DEF Proper, ProperBut, Owns
  <2>4. Consistent(got) /\ Locked(got) /\ ~got.asserts
    <3>1. ~IsPaired(w)
      BY <2>2 DEF IsPaired
    <3> HIDE DEF restore
    <3> QED
      BY <1>1, <1>2, <2>3, <3>1, GotSetupInfo
  <2> HIDE DEF got
  <2>5. got \in SetupInfo /\ got.code \in AnyCode \cup {NoCode}
    BY <2>4 DEF Consistent, SetupInfo
  <2>6. /\ x \in SessionState /\ x.state = 2
        /\ x.open = w.session[s].open /\ x.transient = w.session[s].transient
    BY <1>1 DEF SessionState
  <2>7. p \in PairSetup /\ p.owner = w.pairSetup.owner /\ p.verifier = got.code
    BY <1>1, <2>5 DEF PairSetup
  <2> HIDE DEF x, p, v
  <2>8. /\ v \in Worlds /\ v.pairing = w.pairing /\ v.attempts = w.attempts
        /\ v.pairSetup = p /\ v.setup = got /\ v.session = [w.session EXCEPT ![s] = x]
    BY <1>1, <2>1, <2>5, <2>6, <2>7 DEF Worlds
  <2>9. v.session[s] = x /\ \A t \in Sessions : t # s => v.session[t] = w.session[t]
    BY <1>1, <2>8
  <2>10. ProperBut(v, s)
    BY <2>2, <2>4, <2>7, <2>8, <2>9, ProperElim DEF ProperBut, Owns
  <2>11. Proper(v)
    BY <2>2, <2>6, <2>7, <2>8, <2>9, <2>10, ProperIntro DEF Owns
  <2>12. Engaged(v)
    BY <2>2, <2>6, <2>7, <2>8, <2>9 DEF Engaged, EngagedBut, Owns
  <2>13. \A t \in Sessions : /\ v.session[t].open = w.session[t].open
                             /\ v.session[t].transient = w.session[t].transient
    BY <2>6, <2>9
  <2> QED
    BY <2>2, <2>7, <2>8, <2>11, <2>12, <2>13 DEF Reads, Owns, v
<1> QED
  BY <1>3, <1>4

\* In the middle of its procedure the owner may change its own session, the counter
\* and the locked code.
LEMMA Amid ==
    ASSUME NEW w, Proper(w), Engaged(w), NEW s \in Sessions, Owns(w, s),
           NEW x \in Worlds, x.pairing = w.pairing, x.pairSetup = w.pairSetup,
           Consistent(x.setup), Locked(x.setup), ~x.setup.asserts,
           x.session[s].open = w.session[s].open,
           \A t \in Sessions : t # s => x.session[t] = w.session[t]
    PROVE  ProperBut(x, s) /\ EngagedBut(x, s)
<1>1. \A t \in Sessions \ {s} : w.session[t].state < 2
  <2> SUFFICES ASSUME NEW t \in Sessions \ {s} PROVE w.session[t].state < 2
    OBVIOUS
  <2>1. w.session[t].state \in 0 .. 5
    BY WorldElim DEF Proper, ProperBut
  <2>2. ~(w.session[t].state >= 2)
    BY ProperElim DEF Owns
  <2> QED
    BY <2>1, <2>2
<1>2. \A t \in Sessions \ {s} : x.session[t].state < 2
  BY <1>1
<1>3. \A t \in Sessions \ {s} : x.session[t].state \in 0 .. 5
  BY WorldElim
<1>4. ProperBut(x, s)
  BY <1>2, <1>3 DEF ProperBut, Owns
<1>5. EngagedBut(x, s)
  BY NobodyIsNoSession DEF EngagedBut, Engaged, Owns
<1> QED
  BY <1>4, <1>5

LEMMA GetsM4 ==
    ASSUME NEW w, Proper(w), Engaged(w), NEW s \in Sessions, w.session[s].state = 3,
           NEW mfi \in BOOLEAN, NEW fresh \in Codes
    PROVE  Reads(w, GetM4(w, s, mfi, fresh), s)
<1> DEFINE p == w.pairSetup
           restore == p.split /\ ~p.transient
           u == SetupInfoAfterGet(w.setup, restore, fresh, IsPaired(w))
           got == [w EXCEPT !.setup = u]
           proven == [got EXCEPT !.attempts = 0]
           wrong == [got EXCEPT !.attempts = @ + 1]
           y == [w.session[s] EXCEPT !.transient = TRUE]
           opened == [proven EXCEPT !.session[s] = y]
           z == [w.session[s] EXCEPT !.state = 4]
           passed == [proven EXCEPT !.session[s] = z]
           v == GetM4(w, s, mfi, fresh)
<1>1. /\ w \in Worlds /\ p \in PairSetup /\ w.session[s] \in SessionState
      /\ w.session \in [Sessions -> SessionState]
      /\ w.attempts \in Nat /\ w.setup \in SetupInfo
      /\ Consistent(w.setup) /\ ~w.setup.asserts
  BY WorldElim DEF Proper, ProperBut
<1>2. /\ Owns(w, s) /\ w.attempts < MaxAttempts /\ w.pairing = Nobody
      /\ p.verifier = w.setup.code /\ Locked(w.setup)
  BY ProperElim, NobodyIsNoSession DEF Proper, ProperBut, Owns
<1>3. restore \in BOOLEAN /\ IsPaired(w) = FALSE /\ p.split \in BOOLEAN
  BY <1>1, <1>2, PairSetupElim DEF IsPaired
<1>4. Consistent(u) /\ Locked(u) /\ ~u.asserts /\ u \in SetupInfo
  <2> HIDE DEF restore
  <2>1. Consistent(u) /\ Locked(u) /\ (u.asserts => w.setup.asserts \/ FALSE)
    BY <1>1, <1>2, <1>3, GotSetupInfo
  <2> QED
    BY <1>1, <2>1 DEF Consistent
<1> HIDE DEF u
<1>5. /\ got \in Worlds /\ got.pairing = w.pairing /\ got.pairSetup = p
      /\ got.setup = u /\ got.session = w.session /\ got.attempts = w.attempts
  BY <1>1, <1>4 DEF Worlds
<1>6. v = IF p.proof = "IllegalKey" THEN ResetForSession(got, s, FALSE, fresh)
          ELSE IF p.proof # u.code \/ p.verifier # u.code
          THEN ResetForSession(wrong, s, FALSE, fresh)
          ELSE IF w.session[s].auth /\ ~mfi THEN ResetForSession(proven, s, FALSE, fresh)
          ELSE IF p.transient /\ ~w.session[s].auth
          THEN ResetForSession([proven EXCEPT !.session[s].transient = TRUE], s, p.split,
                               fresh)
          ELSE [proven EXCEPT !.session[s].state = 4]
  BY <1>5 DEF GetM4, u
<1> HIDE DEF got
<1>7. /\ proven \in Worlds /\ proven.pairing = w.pairing /\ proven.pairSetup = p
      /\ proven.setup = u /\ proven.session = w.session /\ proven.attempts = 0
  BY <1>5, SetupAssumption DEF Worlds
<1>8. /\ wrong \in Worlds /\ wrong.pairing = w.pairing /\ wrong.pairSetup = p
      /\ wrong.setup = u /\ wrong.session = w.session
  BY <1>1, <1>2, <1>5, SetupAssumption DEF Worlds
<1> HIDE DEF proven, wrong
<1>9. y \in SessionState /\ y.open = w.session[s].open
  BY <1>1 DEF SessionState
<1>10. /\ z \in SessionState /\ z.state = 4
       /\ z.open = w.session[s].open /\ z.transient = w.session[s].transient
  BY <1>1 DEF SessionState
<1>11. /\ opened = [proven EXCEPT !.session[s].transient = TRUE]
       /\ passed = [proven EXCEPT !.session[s].state = 4]
  BY <1>7 DEF Worlds
<1> HIDE DEF y, z
<1>12. /\ opened \in Worlds /\ opened.pairing = w.pairing /\ opened.pairSetup = p
       /\ opened.setup = u /\ opened.session = [w.session EXCEPT ![s] = y]
       /\ passed \in Worlds /\ passed.pairing = w.pairing /\ passed.pairSetup = p
       /\ passed.setup = u /\ passed.session = [w.session EXCEPT ![s] = z]
       /\ passed.attempts = proven.attempts
  BY <1>7, <1>9, <1>10 DEF Worlds
<1> HIDE DEF opened, passed
<1>13. /\ opened.session[s] = y /\ passed.session[s] = z
       /\ \A t \in Sessions : t # s => /\ opened.session[t] = w.session[t]
                                       /\ passed.session[t] = w.session[t]
  BY <1>1, <1>12
<1>14. \A x \in {got, proven, wrong, opened, passed} : ProperBut(x, s) /\ EngagedBut(x, s)
  <2> SUFFICES ASSUME NEW x \in {got, proven, wrong, opened, passed}
               PROVE  ProperBut(x, s) /\ EngagedBut(x, s)
    OBVIOUS
  <2>1. /\ x \in Worlds /\ x.pairing = w.pairing /\ x.pairSetup = w.pairSetup
        /\ x.setup = u
    BY <1>5, <1>7, <1>8, <1>12
  <2>2. /\ x.session[s].open = w.session[s].open
        /\ \A t \in Sessions : t # s => x.session[t] = w.session[t]
    BY <1>5, <1>7, <1>8, <1>9, <1>10, <1>13
  <2>3. Consistent(x.setup) /\ Locked(x.setup) /\ ~x.setup.asserts
    BY <1>4, <2>1
  <2> QED
    BY <1>2, <2>1, <2>2, <2>3, Amid
<1>15. /\ w.attempts # MaxAttempts /\ passed.attempts < MaxAttempts
       /\ FALSE \in BOOLEAN
  BY <1>1, <1>2, <1>7, <1>12, SetupAssumption
<1>16. \A x \in {got, proven, wrong, opened} : \A t \in Sessions :
          /\ x.session[t].open = w.session[t].open
          /\ \/ x.session[t].transient = w.session[t].transient
             \/ w.pairing = Nobody /\ t = s
  BY <1>2, <1>5, <1>7, <1>8, <1>9, <1>13
<1>17. \A x \in {got, proven, wrong, opened} :
          x.pairing = w.pairing /\ x.pairSetup.owner = w.pairSetup.owner
  BY <1>5, <1>7, <1>8, <1>12
<1>18. \A x \in {got, proven, wrong, opened}, keep \in BOOLEAN :
          Reads(w, ResetForSession(x, s, keep, fresh), s)
  BY <1>2, <1>14, <1>15, <1>16, <1>17, ResetReads
<1>19. p.verifier = u.code => Reads(w, passed, s)
  <2> SUFFICES ASSUME p.verifier = u.code PROVE Reads(w, passed, s)
    OBVIOUS
  <2>1. Proper(passed)
    BY <1>2, <1>10, <1>12, <1>13, <1>14, <1>15, ProperIntro DEF Owns
  <2> QED
    BY <1>2, <1>10, <1>12, <1>13, <1>14, <1>15, <2>1 DEF Reads, Engaged, EngagedBut
<1> HIDE DEF v
<1>20. Reads(w, v, s)
  BY <1>3, <1>6, <1>11, <1>18, <1>19
<1> QED
  BY <1>20 DEF v

\* HAPPairingPairSetupHandleRead.
LEMMA ReadDone ==
    ASSUME NEW w, Proper(w), Engaged(w), NEW s \in Sessions,
           NEW mfi \in BOOLEAN, NEW fresh \in Codes
    PROVE  Reads(w, HandleRead(w, s, mfi, fresh), s)
<1>1. Reads(w, ResetForSession(w, s, FALSE, fresh), s)
  <2>1. ProperBut(w, s) /\ EngagedBut(w, s) /\ FALSE \in BOOLEAN
    BY ProperElim, NobodyIsNoSession DEF Engaged, EngagedBut
  <2> QED
    BY <2>1, ResetReads
<1> QED
  BY <1>1, GetsM2, GetsM4 DEF HandleRead

-------------------------------------------------------------------------------
\* The specification.

\* A transient session is not the owner.
Apart(w) == \A t \in Sessions : w.session[t].transient => ~Owns(w, t)

Good(w) == Proper(w) /\ Engaged(w) /\ Apart(w)

\* A stopped server has no connections.
Unconnected(w) == \A t \in Sessions : ~w.session[t].open

\* The inductive invariant.
SInv ==
    /\ TypeOK
    /\ Good(World)
    /\ ~running => Unconnected(World)

\* With IP alone: a paired accessory has no transient session, and without a
\* procedure under way it has no setup code.
Hidden(w) ==
    w.pairing # Nobody =>
        /\ w.pairSetup.owner = Nobody /\ w.setup.code = NoCode
        /\ \A t \in Sessions : ~w.session[t].transient

IPInv ==
    /\ Hidden(World)
    /\ failed = "none"

\* With IP: nothing of a stopped server is left to run.
IdleInv ==
    ~running => /\ setup.code = NoCode /\ ~setup.nfc
                /\ ~updatePending

\* What every step preserves, and what it may do to the pairing and the counter.
Preserves ==
    /\ SInv'
    /\ pairing # Nobody => pairing' \in {pairing, Nobody}
    /\ running /\ attempts = MaxAttempts =>
          attempts' = MaxAttempts /\ pairing' \in {pairing, Nobody}
    /\ BLESessions = {} /\ IPInv => IPInv'
    /\ IPSessions # {} /\ IdleInv => IdleInv'

LEMMA WorldFields ==
    /\ World.pairing = pairing /\ World.attempts = attempts
    /\ World.pairSetup = pairSetup /\ World.setup = setup /\ World.session = session
    /\ World'.pairing = pairing' /\ World'.attempts = attempts'
    /\ World'.pairSetup = pairSetup' /\ World'.setup = setup' /\ World'.session = session'
BY DEF World

LEMMA WorldTyped ==
    ASSUME NEW w \in Worlds
    PROVE  w = [pairing |-> w.pairing, attempts |-> w.attempts,
                pairSetup |-> w.pairSetup, setup |-> w.setup, session |-> w.session]
BY DEF Worlds

LEMMA StateElim ==
    ASSUME SInv
    PROVE  /\ World \in Worlds /\ Proper(World) /\ Engaged(World) /\ Apart(World)
           /\ Consistent(setup) /\ ~setup.asserts
           /\ pairing \in Controllers \cup {Nobody} /\ attempts \in 0 .. MaxAttempts
           /\ pairSetup \in PairSetup /\ session \in [Sessions -> SessionState]
           /\ running \in BOOLEAN /\ updatePending \in BOOLEAN /\ failed \in Failures
BY WorldFields DEF SInv, Good, Proper, ProperBut, TypeOK

\* A world whose sessions are all closed and whose procedure has no owner.
LEMMA Dark ==
    ASSUME NEW w \in Worlds, w.pairSetup.owner = Nobody, Consistent(w.setup),
           ~w.setup.asserts, w.session = [t \in Sessions |-> Closed]
    PROVE  Good(w) /\ Unconnected(w) /\ \A t \in Sessions : ~w.session[t].transient
<1>1. \A t \in Sessions : /\ w.session[t].state = 0 /\ ~w.session[t].open
                          /\ ~w.session[t].transient
  BY DEF Closed, Opened
<1>2. Proper(w)
  BY <1>1, NobodyIsNoSession DEF Proper, ProperBut
<1> QED
  BY <1>1, <1>2, NobodyIsNoSession DEF Good, Engaged, EngagedBut, Apart, Owns, Unconnected

LEMMA ClosedTyped ==
    /\ Opened \in SessionState /\ Opened.state = 0 /\ ~Opened.transient /\ Opened.open
    /\ Closed \in SessionState /\ Closed.state = 0 /\ ~Closed.transient /\ ~Closed.open
<1>1. /\ Opened \in SessionState /\ Opened.state = 0 /\ ~Opened.transient
      /\ Opened.open
  BY DEF Opened, SessionState
<1>2. /\ Closed \in SessionState /\ Closed.state = Opened.state
      /\ Closed.transient = Opened.transient /\ ~Closed.open
  BY <1>1 DEF Closed, SessionState
<1> QED
  BY <1>1, <1>2

\* After a halt.
LEMMA Halted ==
    ASSUME Halt, pairing' \in Controllers \cup {Nobody}, attempts' \in 0 .. MaxAttempts,
           failed' \in Failures
    PROVE  SInv' /\ IdleInv' /\ Hidden(World')
<1>1. Consistent(NoSetupInfo) /\ NoSetupInfo \in SetupInfo
  BY StoppedSetup DEF Consistent
<1>2. /\ NoSetupInfo.code = NoCode /\ ~NoSetupInfo.nfc /\ ~NoSetupInfo.asserts
  BY DEF NoSetupInfo
<1>3. /\ running' = FALSE /\ pairSetup' = NoPairSetup /\ setup' = NoSetupInfo
      /\ session' = [t \in Sessions |-> Closed] /\ updatePending' = FALSE
  BY DEF Halt
<1>4. TypeOK'
  BY <1>1, <1>3, NoPairSetupType, ClosedTyped DEF TypeOK
<1>5. World' \in Worlds
  BY <1>4 DEF TypeOK, World, Worlds
<1>6. /\ Good(World') /\ Unconnected(World')
      /\ \A t \in Sessions : ~World'.session[t].transient
  BY <1>1, <1>2, <1>3, <1>5, WorldFields, NoPairSetupType, Dark
<1>7. SInv'
  BY <1>4, <1>6 DEF SInv
<1> QED
  BY <1>2, <1>3, <1>6, <1>7, WorldFields, NoPairSetupType DEF IdleInv, Hidden


\* Every step that is a Become.
LEMMA Becomes ==
    ASSUME SInv, NEW w, Become(w),
           w.setup.asserts \/ Good(w),
           ~running => Unconnected(w),
           w.pairing \in Controllers \cup {Nobody}, w.attempts \in 0 .. MaxAttempts,
           pairing # Nobody => w.pairing \in {pairing, Nobody},
           running /\ attempts = MaxAttempts =>
              w.attempts = MaxAttempts /\ w.pairing \in {pairing, Nobody},
           BLESessions = {} /\ Hidden(World) => Hidden(w) /\ ~w.setup.asserts,
           IPSessions # {} /\ IdleInv => running
    PROVE  Preserves
<1>1. pairing' = w.pairing /\ attempts' = w.attempts
  BY DEF Become
<1>2. CASE w.setup.asserts
  <2>1. Halt /\ failed' \in Failures
    BY <1>2 DEF Become, Failures
  <2>2. SInv' /\ IdleInv'
    BY <1>1, <2>1, Halted
  <2> QED
    BY <1>1, <1>2, <2>2 DEF Preserves, IPInv
<1>3. CASE ~w.setup.asserts
  <2>1. /\ pairSetup' = w.pairSetup /\ setup' = w.setup /\ session' = w.session
        /\ updatePending' = (updatePending \/ IsPaired(w) # (pairing # Nobody))
        /\ running' = running /\ failed' = failed
    BY <1>3 DEF Become
  <2>2. Good(w) /\ w \in Worlds
    BY <1>3 DEF Good, Proper, ProperBut
  <2>3. World' = w
    BY <1>1, <2>1, <2>2, WorldTyped DEF World
  <2>4. TypeOK'
    <3>1. /\ pairing' \in Controllers \cup {Nobody} /\ attempts' \in 0 .. MaxAttempts
          /\ pairSetup' \in PairSetup /\ setup' \in SetupInfo
          /\ session' \in [Sessions -> SessionState]
      BY <1>1, <2>1, <2>2 DEF Worlds
    <3>2. running' \in BOOLEAN /\ updatePending' \in BOOLEAN /\ failed' \in Failures
      BY <2>1, StateElim DEF IsPaired
    <3> QED
      BY <3>1, <3>2 DEF TypeOK
  <2>5. SInv'
    BY <2>1, <2>2, <2>3, <2>4 DEF SInv
  <2>6. BLESessions = {} /\ IPInv => IPInv'
    BY <2>1, <2>3 DEF IPInv
  <2>7. IPSessions # {} /\ IdleInv => IdleInv'
    BY <2>1 DEF IdleInv
  <2> QED
    BY <1>1, <2>5, <2>6, <2>7 DEF Preserves
<1> QED
  BY <1>2, <1>3

-------------------------------------------------------------------------------
\* Steps of the setup code.

LEMMA Recoded ==
    ASSUME NEW w, Good(w), NEW u, NEW paired \in BOOLEAN, Careful(w.setup, u, paired),
           ~u.asserts
    PROVE  LET v == [w EXCEPT !.setup = u]
           IN  /\ Good(v) /\ v.pairing = w.pairing /\ v.attempts = w.attempts
               /\ v.pairSetup = w.pairSetup /\ v.setup = u /\ v.session = w.session
<1> DEFINE v == [w EXCEPT !.setup = u]
<1>1. w \in Worlds /\ u \in SetupInfo
  BY DEF Good, Proper, ProperBut, Careful, Consistent
<1>2. /\ v \in Worlds /\ v.pairing = w.pairing /\ v.attempts = w.attempts
      /\ v.pairSetup = w.pairSetup /\ v.setup = u /\ v.session = w.session
  BY <1>1 DEF Worlds
<1> HIDE DEF v
<1>3. w.pairSetup.owner # Nobody => Locked(u) /\ u.code = w.setup.code
  BY DEF Good, Proper, ProperBut, Careful
<1>4. Proper(v)
  BY <1>2, <1>3, NobodyIsNoSession DEF Good, Proper, ProperBut, Careful
<1>5. Engaged(v) /\ Apart(v)
  BY <1>2 DEF Good, Engaged, EngagedBut, Apart, Owns
<1> QED
  BY <1>2, <1>4, <1>5 DEF Good, v

LEMMA SetupBecomes ==
    ASSUME SInv, NEW u, Careful(setup, u, pairing # Nobody), BecomeSetup(u),
           IPSessions # {} /\ IdleInv => running
    PROVE  Preserves
<1> DEFINE w == [World EXCEPT !.setup = u]
<1>1. Good(World) /\ World \in Worlds /\ u \in SetupInfo
  BY StateElim DEF SInv, Careful, Consistent
<1>2. /\ w.pairing = pairing /\ w.attempts = attempts /\ w.pairSetup = pairSetup
      /\ w.setup = u /\ w.session = session
  BY <1>1, WorldFields DEF Worlds
<1>3. Become(w)
  BY DEF BecomeSetup
<1>4. ~u.asserts => Good(w)
  BY <1>1, WorldFields, Recoded
<1> HIDE DEF w
<1>5. ~running => Unconnected(w)
  BY <1>2, WorldFields DEF SInv, Unconnected
<1>6. Hidden(World) => Hidden(w) /\ ~u.asserts
  <2>1. u.asserts \in BOOLEAN
    BY <1>1 DEF SetupInfo
  <2> QED
    BY <1>2, <2>1, WorldFields, StateElim DEF Hidden, Careful
<1> QED
  BY <1>2, <1>3, <1>4, <1>5, <1>6, StateElim, Becomes


LEMMA CallbackPreserves ==
    ASSUME SInv, NEW fresh \in Codes, CallbackTimerExpired(fresh)
    PROVE  Preserves
<1> DEFINE u == HandleAccessoryServerStateUpdate(setup, fresh, pairing # Nobody)
           w == [World EXCEPT !.setup = u]
<1>1. Careful(setup, u, pairing # Nobody)
  BY StateElim, ServerCareful
<1>2. /\ updatePending /\ pairing' = pairing /\ attempts' = attempts
      /\ u.asserts => Halt /\ failed' = "SetupInfo"
      /\ ~u.asserts => /\ setup' = u /\ updatePending' = FALSE /\ running' = running
                       /\ pairSetup' = pairSetup /\ session' = session
                       /\ failed' = failed
  BY DEF CallbackTimerExpired
<1> HIDE DEF u
<1>3. u \in SetupInfo /\ u.asserts \in BOOLEAN
  BY <1>1 DEF Careful, Consistent, SetupInfo
<1>4. Hidden(World) => ~u.asserts
  BY <1>1, <1>3, StateElim, WorldFields DEF Hidden, Careful
<1>5. CASE u.asserts
  <2>1. SInv' /\ IdleInv'
    BY <1>2, <1>5, StateElim, Halted DEF Failures
  <2> QED
    BY <1>2, <1>4, <1>5, <2>1, StateElim DEF Preserves, IPInv
<1>6. CASE ~u.asserts
  <2>1. Good(World) /\ World \in Worlds
    BY StateElim DEF SInv
  <2>2. /\ Good(w) /\ w.pairing = pairing /\ w.attempts = attempts
        /\ w.pairSetup = pairSetup /\ w.setup = u /\ w.session = session
    BY <1>1, <1>6, <2>1, WorldFields, Recoded
  <2> HIDE DEF w
  <2>3. World' = w
    BY <1>2, <1>6, <2>2, WorldTyped DEF World, Good, Proper, ProperBut
  <2>4. TypeOK'
    BY <1>2, <1>3, <1>6, StateElim DEF TypeOK
  <2>5. SInv'
    BY <1>2, <1>6, <2>2, <2>3, <2>4, WorldFields DEF SInv, Unconnected
  <2>6. IPInv => IPInv'
    BY <1>1, <1>2, <1>6, <2>2, <2>3, StateElim, WorldFields DEF IPInv, Hidden, Careful
  <2>7. IdleInv => IdleInv'
    BY <1>2, <1>6 DEF IdleInv
  <2> QED
    BY <1>2, <2>5, <2>6, <2>7 DEF Preserves
<1> QED
  BY <1>5, <1>6

LEMMA SetupInfoPreserves ==
    ASSUME SInv, NEW fresh \in Codes, SetupInfoNext(fresh)
    PROVE  Preserves
<1>1. Consistent(setup) /\ (pairing # Nobody) \in BOOLEAN /\ Sane(setup)
  BY StateElim DEF Consistent
<1>2. CASE CallbackTimerExpired(fresh)
  BY <1>2, CallbackPreserves
<1>3. CASE DynamicRefresh(fresh)
  <2>1. IdleInv => running
    BY <1>1, <1>3 DEF IdleInv, DynamicRefresh, Sane
  <2>2. Careful(setup, DynamicSetupInfoExpired(setup, fresh, pairing # Nobody),
                pairing # Nobody)
    BY <1>1, <1>3, ExpiryCareful DEF DynamicRefresh
  <2> QED
    BY <1>3, <2>1, <2>2, SetupBecomes DEF DynamicRefresh
<1>4. CASE Refresh(fresh)
  <2>1. Careful(setup, RefreshSetupPayload(setup, fresh, pairing # Nobody),
                pairing # Nobody)
    BY <1>1, ExpiryCareful
  <2> QED
    BY <1>4, <2>1, SetupBecomes DEF Refresh
<1>5. CASE EnterNFC(fresh)
  <2>1. Careful(setup, EnterNFCPairingMode(setup, fresh, pairing # Nobody),
                pairing # Nobody)
    BY <1>1, NFCCareful
  <2> QED
    BY <1>5, <2>1, SetupBecomes DEF EnterNFC
<1>6. CASE ExitNFC
  <2>1. IdleInv => running
    BY <1>6 DEF IdleInv, ExitNFC
  <2>2. Careful(setup, ExitNFCPairingMode(setup, pairing # Nobody), pairing # Nobody)
    BY <1>1, NFCCareful
  <2> QED
    BY <1>6, <2>1, <2>2, SetupBecomes DEF ExitNFC
<1> QED
  BY <1>2, <1>3, <1>4, <1>5, <1>6 DEF SetupInfoNext

-------------------------------------------------------------------------------
\* Steps of the server.

\* While the server does not run there is no owner.
LEMMA IdleOwner ==
    ASSUME NEW w, Good(w), Unconnected(w)
    PROVE  w.pairSetup.owner = Nobody /\ \A t \in Sessions : w.session[t].state < 2
<1>1. w.pairSetup \in PairSetup /\ w \in Worlds
  BY DEF Good, Proper, ProperBut, Worlds
<1>2. w.pairSetup.owner = Nobody
  BY <1>1, PairSetupElim DEF Good, Engaged, EngagedBut, Unconnected
<1>3. \A t \in Sessions : ~(w.session[t].state >= 2) /\ w.session[t].state \in 0 .. 5
  BY <1>1, <1>2, ProperElim, WorldElim, NobodyIsNoSession DEF Good, Owns
<1> QED
  BY <1>2, <1>3

LEMMA StartPreserves ==
    ASSUME SInv, NEW fresh \in Codes, Start(fresh)
    PROVE  Preserves
<1> DEFINE u == HandleAccessoryServerStart(setup, fresh, pairing # Nobody)
           w == [World EXCEPT !.setup = u]
<1>1. /\ ~running /\ running' = TRUE /\ updatePending' = TRUE /\ setup' = u
      /\ failed' = "none" /\ pairing' = pairing /\ attempts' = attempts
      /\ pairSetup' = pairSetup /\ session' = session
  BY DEF Start
<1>2. Careful(setup, u, pairing # Nobody)
  BY StateElim, ServerCareful
<1>3. ~u.asserts
  <2>1. CASE HasDisplay /\ ~(pairing # Nobody)
    <3>1. Prepares(setup, PrepareSetupInfo(setup, FALSE, fresh, pairing # Nobody),
                   pairing # Nobody)
      BY StateElim, PreparedAgain
    <3> QED
      BY <2>1, <3>1, StateElim DEF HandleAccessoryServerStart, Prepares
  <2>2. CASE ~(HasDisplay /\ ~(pairing # Nobody))
    BY <2>2, StateElim DEF HandleAccessoryServerStart
  <2> QED
    BY <2>1, <2>2
<1> HIDE DEF u
<1>4. /\ Good(w) /\ w.pairing = pairing /\ w.attempts = attempts
      /\ w.pairSetup = pairSetup /\ w.setup = u /\ w.session = session
  BY <1>2, <1>3, WorldFields, Recoded DEF SInv
<1> HIDE DEF w
<1>5. World' = w
  BY <1>1, <1>4, WorldTyped DEF World, Good, Proper, ProperBut
<1>6. TypeOK'
  BY <1>1, <1>2, StateElim DEF TypeOK, Careful, Consistent, Failures
<1>7. SInv'
  BY <1>1, <1>4, <1>5, <1>6 DEF SInv
<1>8. IPInv => IPInv'
  BY <1>1, <1>2, <1>4, <1>5, WorldFields DEF IPInv, Hidden, Careful
<1> QED
  BY <1>1, <1>7, <1>8 DEF Preserves, IdleInv

LEMMA StopPreserves ==
    ASSUME SInv, Stop
    PROVE  Preserves
<1> DEFINE u == HandleAccessoryServerStop(pairing # Nobody)
<1>1. /\ running /\ running' = FALSE /\ \A s \in Sessions : ~session[s].open
      /\ setup' = u /\ updatePending' = (updatePending /\ IPSessions = {})
      /\ pairing' = pairing /\ attempts' = attempts /\ pairSetup' = pairSetup
      /\ session' = session /\ failed' = failed
  BY DEF Stop
<1>2. Consistent(u) /\ u.code = NoCode /\ ~u.asserts /\ ~u.nfc /\ u \in SetupInfo
  BY StoppedSetup DEF Consistent
<1> HIDE DEF u
<1>3. TypeOK'
  BY <1>1, <1>2, StateElim DEF TypeOK
<1>4. World' \in Worlds
  BY <1>3 DEF TypeOK, World, Worlds
<1>5. /\ pairSetup.owner = Nobody /\ \A t \in Sessions : session[t].state < 2
      /\ \A t \in Sessions : session[t].state \in Nat
  <2>1. Unconnected(World) /\ Good(World) /\ World \in Worlds
    BY <1>1, StateElim, WorldFields DEF Unconnected, SInv
  <2> QED
    BY <2>1, WorldFields, IdleOwner, WorldElim
<1>6. Proper(World')
  BY <1>1, <1>2, <1>4, <1>5, WorldFields, NobodyIsNoSession DEF Proper, ProperBut
<1>7. /\ Engaged(World') /\ Apart(World') /\ Unconnected(World')
  BY <1>1, <1>5, WorldFields, NobodyIsNoSession
  DEF Engaged, EngagedBut, Apart, Owns, Unconnected
<1>8. SInv'
  BY <1>1, <1>3, <1>6, <1>7 DEF SInv, Good
<1>9. IPInv => IPInv'
  BY <1>1, <1>2, <1>5, WorldFields DEF IPInv, Hidden
<1>10. IPSessions # {} => IdleInv'
  BY <1>1, <1>2 DEF IdleInv
<1> QED
  BY <1>1, <1>8, <1>9, <1>10 DEF Preserves


LEMMA ServerPreserves ==
    ASSUME SInv, NEW fresh \in Codes, ServerNext(fresh)
    PROVE  Preserves
<1>1. CASE Start(fresh)
  BY <1>1, StartPreserves
<1>2. CASE Stop
  BY <1>2, StopPreserves
<1>3. CASE PowerOff
  <2>1. Halt /\ pairing' = pairing /\ attempts' = attempts /\ failed' = failed
    BY <1>3 DEF PowerOff
  <2>2. SInv' /\ IdleInv' /\ Hidden(World')
    BY <2>1, StateElim, Halted
  <2> QED
    BY <2>1, <2>2 DEF Preserves, IPInv
<1>4. CASE RestoreFactorySettings
  <2>1. /\ ~running /\ pairing' = Nobody /\ attempts' = 0 /\ running' = running
        /\ pairSetup' = pairSetup /\ setup' = setup /\ session' = session
        /\ updatePending' = updatePending /\ failed' = failed
    BY <1>4 DEF RestoreFactorySettings
  <2>2. TypeOK'
    BY <2>1, StateElim, SetupAssumption DEF TypeOK, Consistent
  <2>3. World' \in Worlds
    BY <2>2 DEF TypeOK, World, Worlds
  <2>4. /\ pairSetup.owner = Nobody /\ \A t \in Sessions : session[t].state < 2
        /\ \A t \in Sessions : session[t].state \in Nat
    <3>1. Unconnected(World) /\ Good(World) /\ World \in Worlds
      BY <2>1, StateElim DEF SInv
    <3> QED
      BY <3>1, WorldFields, IdleOwner, WorldElim
  <2>5. Proper(World')
    BY <2>1, <2>3, <2>4, StateElim, WorldFields, NobodyIsNoSession DEF Proper, ProperBut
  <2>6. Engaged(World') /\ Apart(World') /\ Unconnected(World')
    BY <2>1, <2>4, WorldFields, NobodyIsNoSession
    DEF Engaged, EngagedBut, Apart, Owns, Unconnected, SInv
  <2>7. SInv'
    BY <2>2, <2>5, <2>6 DEF SInv, Good
  <2> QED
    BY <2>1, <2>7, WorldFields DEF Preserves, IPInv, Hidden, IdleInv
<1>5. CASE Unpair
  <2> DEFINE w == [World EXCEPT !.pairing = Nobody]
  <2>1. running /\ pairing # Nobody /\ Become(w)
    BY <1>5 DEF Unpair
  <2>2. /\ w \in Worlds /\ w.pairing = Nobody /\ w.attempts = attempts
        /\ w.pairSetup = pairSetup /\ w.setup = setup /\ w.session = session
    BY StateElim, WorldFields DEF Worlds
  <2> HIDE DEF w
  <2>3. Good(w)
    BY <2>2, StateElim, WorldFields
    DEF SInv, Good, Proper, ProperBut, Engaged, EngagedBut, Apart, Owns
  <2>4. Hidden(w) /\ ~w.setup.asserts
    BY <2>2, StateElim DEF Hidden
  <2> QED
    BY <2>1, <2>2, <2>3, <2>4, StateElim, Becomes
<1>6. CASE ProcedureTimesOut
  <2> DEFINE p == [pairSetup EXCEPT !.expired = TRUE]
             w == [World EXCEPT !.pairSetup = p]
  <2>1. /\ pairSetup.owner # Nobody /\ Become(w)
    BY <1>6, WorldFields, StateElim DEF ProcedureTimesOut, Worlds
  <2>2. p \in PairSetup /\ p.owner = pairSetup.owner /\ p.verifier = pairSetup.verifier
    BY StateElim DEF PairSetup
  <2> HIDE DEF p
  <2>3. /\ w \in Worlds /\ w.pairing = pairing /\ w.attempts = attempts
        /\ w.pairSetup = p /\ w.setup = setup /\ w.session = session
    BY <2>2, StateElim, WorldFields DEF Worlds
  <2> HIDE DEF w
  <2>4. Good(w)
    BY <2>2, <2>3, StateElim, WorldFields
    DEF SInv, Good, Proper, ProperBut, Engaged, EngagedBut, Apart, Owns
  <2>5. Hidden(World) => Hidden(w) /\ ~w.setup.asserts
    BY <2>2, <2>3, StateElim, WorldFields DEF Hidden
  <2>6. running
    <3>1. ~running => pairSetup.owner = Nobody
      BY IdleOwner, WorldFields DEF SInv
    <3> QED
      BY <2>1, <3>1
  <2> QED
    BY <2>1, <2>3, <2>4, <2>5, <2>6, StateElim, Becomes
<1> QED
  BY <1>1, <1>2, <1>3, <1>4, <1>5, <1>6 DEF ServerNext

-------------------------------------------------------------------------------
\* Steps of a session.

\* A session that is not the owner is opened or closed.
LEMMA Reconnected ==
    ASSUME NEW w, Good(w), NEW s \in Sessions, ~Owns(w, s), NEW y \in {Closed, Opened}
    PROVE  LET v == [w EXCEPT !.session[s] = y]
           IN  /\ Good(v) /\ v.pairing = w.pairing /\ v.attempts = w.attempts
               /\ v.pairSetup = w.pairSetup /\ v.setup = w.setup /\ v.session[s] = y
               /\ \A t \in Sessions : t # s => v.session[t] = w.session[t]
<1> DEFINE v == [w EXCEPT !.session[s] = y]
<1>1. w \in Worlds /\ w.session \in [Sessions -> SessionState]
  BY WorldElim DEF Good, Proper, ProperBut
<1>2. y \in SessionState /\ y.state = 0 /\ ~y.transient
  BY ClosedTyped
<1>3. /\ v \in Worlds /\ v.pairing = w.pairing /\ v.attempts = w.attempts
      /\ v.pairSetup = w.pairSetup /\ v.setup = w.setup
      /\ v.session = [w.session EXCEPT ![s] = y]
  BY <1>1, <1>2 DEF Worlds
<1> HIDE DEF v
<1>4. v.session[s] = y /\ \A t \in Sessions : t # s => v.session[t] = w.session[t]
  BY <1>1, <1>3
<1>5. ProperBut(v, s)
  <2>1. ProperBut(w, s)
    BY ProperElim DEF Good
  <2> QED
    BY <1>3, <1>4, <2>1 DEF ProperBut
<1>6. Proper(v)
  <2>1. ~(v.session[s].state >= 2)
    BY <1>2, <1>4
  <2>2. ~Owns(v, s)
    BY <1>3 DEF Owns
  <2> QED
    BY <1>5, <2>1, <2>2, ProperIntro
<1>7. Engaged(v)
  BY <1>3, <1>4 DEF Good, Engaged, EngagedBut, Owns
<1>8. Apart(v)
  BY <1>2, <1>3, <1>4 DEF Good, Apart, Owns
<1> QED
  BY <1>3, <1>4, <1>6, <1>7, <1>8 DEF Good, v

\* HAPSessionRelease, HAPSessionInvalidate.
Releases(w, v, s, y) ==
    /\ Good(v) /\ v.pairing = w.pairing /\ v.attempts = w.attempts
    /\ \A t \in Sessions \ {s} : v.session[t].open = w.session[t].open
    /\ v.session[s] = y /\ ~Owns(v, s)
    /\ Hidden(w) => Hidden(v)

LEMMA Released ==
    ASSUME NEW w, Good(w), NEW s \in Sessions, NEW fresh \in Codes
    PROVE  /\ Releases(w, Release(w, s, fresh), s, Closed)
           /\ Releases(w, [Release(w, s, fresh) EXCEPT !.session[s] = Opened], s, Opened)
<1> DEFINE r == ResetForSession(w, s, FALSE, fresh)
           v == [r EXCEPT !.session[s] = Closed]
           x == [v EXCEPT !.session[s] = Opened]
<1>1. Resets(w, r, s, FALSE) /\ EngagedBut(w, s)
  <2>1. ProperBut(w, s) /\ EngagedBut(w, s) /\ FALSE \in BOOLEAN
    BY ProperElim, NobodyIsNoSession DEF Good, Engaged, EngagedBut
  <2> QED
    BY <2>1, Reset
<1> HIDE DEF r
<1>2. Good(r) /\ ~Owns(r, s)
  BY <1>1, NobodyIsNoSession DEF Good, Resets, Frame, Apart, Owns
<1>3. Hidden(w) => Hidden(r)
  BY <1>1, NobodyIsNoSession DEF Hidden, Resets, Frame, Owns
<1>4. /\ Good(v) /\ v.pairing = r.pairing /\ v.attempts = r.attempts
      /\ v.pairSetup = r.pairSetup /\ v.setup = r.setup /\ v.session[s] = Closed
      /\ \A t \in Sessions : t # s => v.session[t] = r.session[t]
  BY <1>2, Reconnected
<1> HIDE DEF v
<1>5. Releases(w, v, s, Closed)
  <2>1. \A t \in Sessions \ {s} : v.session[t].open = w.session[t].open
    BY <1>1, <1>4 DEF Resets, Frame
  <2>2. Hidden(w) => Hidden(v)
    BY <1>3, <1>4, ClosedTyped DEF Hidden
  <2> QED
    BY <1>1, <1>2, <1>4, <2>1, <2>2 DEF Releases, Resets, Frame, Owns
<1>6. /\ Good(x) /\ x.pairing = v.pairing /\ x.attempts = v.attempts
      /\ x.pairSetup = v.pairSetup /\ x.setup = v.setup /\ x.session[s] = Opened
      /\ \A t \in Sessions : t # s => x.session[t] = v.session[t]
  BY <1>5, Reconnected DEF Releases
<1> HIDE DEF x
<1>7. Releases(w, x, s, Opened)
  BY <1>5, <1>6, ClosedTyped DEF Releases, Hidden, Owns
<1> QED
  BY <1>5, <1>7 DEF Release, x, v, r


LEMMA OthersClosed ==
    ASSUME NEW w, Good(w), NEW s \in Sessions
    PROVE  LET v == WithoutOtherTransient(w, s)
           IN  /\ Good(v) /\ v.pairing = w.pairing /\ v.attempts = w.attempts
               /\ v.pairSetup = w.pairSetup /\ v.setup = w.setup
               /\ v.session[s] = w.session[s]
               /\ \A t \in IPSessions \ {s} : ~v.session[t].transient
<1> DEFINE f == [t \in Sessions |-> IF t \in IPSessions \ {s} /\ w.session[t].transient
                                    THEN Closed ELSE w.session[t]]
           v == WithoutOtherTransient(w, s)
<1>1. w \in Worlds /\ w.session \in [Sessions -> SessionState]
  BY WorldElim DEF Good, Proper, ProperBut
<1>2. f \in [Sessions -> SessionState]
  BY <1>1, ClosedTyped
<1>3. v = [w EXCEPT !.session = f]
  BY DEF WithoutOtherTransient
<1>4. /\ \A t \in Sessions : f[t] = w.session[t] \/ (f[t] = Closed /\ ~Owns(w, t))
      /\ f[s] = w.session[s]
  BY DEF Good, Apart
<1>5. \A t \in IPSessions \ {s} : ~f[t].transient
  <2> SUFFICES ASSUME NEW t \in IPSessions \ {s} PROVE ~f[t].transient
    OBVIOUS
  <2>1. t \in Sessions
    BY DEF Sessions
  <2>2. CASE w.session[t].transient
    BY <2>1, <2>2, ClosedTyped
  <2>3. CASE ~w.session[t].transient
    BY <2>1, <2>3
  <2> QED
    BY <2>2, <2>3
<1> HIDE DEF f, v
<1>6. /\ v \in Worlds /\ v.pairing = w.pairing /\ v.attempts = w.attempts
      /\ v.pairSetup = w.pairSetup /\ v.setup = w.setup /\ v.session = f
  BY <1>1, <1>2, <1>3 DEF Worlds
<1>7. Proper(v)
  BY <1>4, <1>6, ClosedTyped, NobodyIsNoSession DEF Good, Proper, ProperBut, Owns
<1>8. Engaged(v)
  BY <1>4, <1>6 DEF Good, Engaged, EngagedBut, Owns
<1>9. Apart(v)
  BY <1>4, <1>6 DEF Good, Apart, Owns
<1> QED
  BY <1>4, <1>5, <1>6, <1>7, <1>8, <1>9 DEF Good, v

LEMMA WrittenGood ==
    ASSUME NEW w, Good(w), NEW s \in Sessions, w.session[s].open,
           ~w.session[s].transient, NEW m \in Messages, NEW fresh \in Codes
    PROVE  LET v == HandleWrite(w, s, m, fresh) IN Writes(w, v, s) /\ Good(v)
<1> DEFINE v == HandleWrite(w, s, m, fresh)
<1>1. Writes(w, v, s)
  BY Written DEF Good
<1> HIDE DEF v
<1>2. Apart(v)
  BY <1>1, NobodyIsNoSession DEF Writes, Links, Good, Apart, Owns
<1> QED
  BY <1>1, <1>2 DEF Writes, Good, v

LEMMA ReadGood ==
    ASSUME NEW w, Good(w), NEW s \in Sessions, NEW mfi \in BOOLEAN, NEW fresh \in Codes
    PROVE  LET v == HandleRead(w, s, mfi, fresh) IN Reads(w, v, s) /\ Good(v)
<1> DEFINE v == HandleRead(w, s, mfi, fresh)
<1>1. Reads(w, v, s)
  BY ReadDone DEF Good
<1> HIDE DEF v
<1>2. Apart(v)
  BY <1>1, NobodyIsNoSession DEF Reads, Good, Apart, Owns
<1> QED
  BY <1>1, <1>2 DEF Reads, Good, v

\* What a step does that leads to a good world.
LEMMA GoodBecomes ==
    ASSUME SInv, running, NEW w, Become(w), Good(w),
           w.pairing # pairing => pairing = Nobody /\ attempts # MaxAttempts,
           attempts = MaxAttempts => w.attempts = MaxAttempts,
           BLESessions = {} /\ Hidden(World) => Hidden(w)
    PROVE  Preserves
<1>1. w \in Worlds /\ ~w.setup.asserts
  BY DEF Good, Proper, ProperBut
<1>2. w.pairing \in Controllers \cup {Nobody} /\ w.attempts \in 0 .. MaxAttempts
  BY <1>1 DEF Worlds
<1> QED
  BY <1>1, <1>2, Becomes

LEMMA IPPairSetupPreserves ==
    ASSUME SInv, NEW s \in Sessions, NEW m \in Messages, NEW mfi \in BOOLEAN,
           NEW fresh \in Codes, IPPairSetup(s, m, mfi, fresh)
    PROVE  Preserves
<1> DEFINE w == WithoutOtherTransient(World, s)
           v == HandleWrite(w, s, m, fresh)
           x == HandleRead(v, s, mfi, fresh)
           y == IF v.session[s].state = 0 THEN v ELSE x
<1>1. /\ s \in IPSessions /\ session[s].open /\ ~session[s].transient /\ Become(y)
  BY DEF IPPairSetup
<1>2. /\ Good(w) /\ w.pairing = pairing /\ w.attempts = attempts
      /\ w.pairSetup = pairSetup /\ w.setup = setup /\ w.session[s] = session[s]
      /\ \A t \in IPSessions \ {s} : ~w.session[t].transient
  BY WorldFields, OthersClosed DEF SInv
<1> HIDE DEF w
<1>3. Writes(w, v, s) /\ Good(v)
  BY <1>1, <1>2, WrittenGood
<1> HIDE DEF v
<1>4. Reads(v, x, s) /\ Good(x)
  BY <1>3, ReadGood
<1> HIDE DEF x
<1>5. running
  BY <1>1, WorldFields DEF SInv, Unconnected
<1>6. v.pairing # pairing => pairing = Nobody /\ attempts # MaxAttempts
  <2>1. attempts < MaxAttempts => attempts # MaxAttempts
    BY StateElim
  <2> QED
    BY <1>2, <1>3, <2>1 DEF Writes
<1>7. attempts = MaxAttempts => v.attempts = MaxAttempts
  BY <1>2, <1>3 DEF Writes
<1>8. ASSUME BLESessions = {}, Hidden(World)
      PROVE  Hidden(y)
  <2>1. \A t \in Sessions : ~w.session[t].transient
    BY <1>1, <1>2, <1>8 DEF Sessions
  <2>2. \A t \in Sessions : ~v.session[t].transient
    BY <1>3, <2>1 DEF Writes, Links
  <2>3. v.pairing = pairing /\ pairing # Nobody =>
           v.pairSetup.owner = Nobody /\ v.setup.code = NoCode
    BY <1>2, <1>3, <1>8, WorldFields DEF Writes, Hidden
  <2>4. v.pairing # pairing => Owns(v, s) /\ v.session[s].state = 5
    BY <1>2, <1>3 DEF Writes
  <2>5. CASE v.session[s].state = 0
    BY <2>2, <2>3, <2>4, <2>5 DEF Hidden
  <2>6. CASE v.session[s].state # 0
    <3>1. x.pairing # Nobody => \A t \in Sessions : ~x.session[t].transient
      BY <1>4, <2>2 DEF Reads
    <3>2. x.pairing # Nobody => x.pairSetup.owner = Nobody /\ x.setup.code = NoCode
      BY <1>4, <2>3, <2>4, NobodyIsNoSession DEF Reads, Owns
    <3> QED
      BY <2>6, <3>1, <3>2 DEF Hidden
  <2> QED
    BY <2>5, <2>6
<1>9. /\ Good(y)
      /\ y.pairing # pairing => pairing = Nobody /\ attempts # MaxAttempts
      /\ attempts = MaxAttempts => y.attempts = MaxAttempts
  BY <1>3, <1>4, <1>6, <1>7 DEF Reads
<1> HIDE DEF y
<1> QED
  BY <1>1, <1>5, <1>8, <1>9, GoodBecomes


LEMMA SessionPreserves ==
    ASSUME SInv, NEW s \in Sessions, NEW fresh \in Codes, SessionNext(s, fresh)
    PROVE  Preserves
<1>1. Good(World) /\ (session[s].open => running)
  BY WorldFields DEF SInv, Unconnected
<1>2. CASE Open(s)
  <2> DEFINE w == [World EXCEPT !.session[s] = Opened]
  <2>1. running /\ ~session[s].open /\ Become(w)
    BY <1>2 DEF Open
  <2>2. ~Owns(World, s)
    BY <1>1, <2>1, WorldFields DEF Good, Engaged, EngagedBut, Owns
  <2>3. /\ Good(w) /\ w.pairing = pairing /\ w.attempts = attempts
        /\ w.pairSetup = pairSetup /\ w.setup = setup /\ w.session[s] = Opened
        /\ \A t \in Sessions : t # s => w.session[t] = session[t]
    <3> DEFINE x == World
    <3>1. Good(x) /\ ~Owns(x, s)
      BY <1>1, <2>2
    <3> HIDE DEF x
    <3>2. LET v == [x EXCEPT !.session[s] = Opened]
          IN  /\ Good(v) /\ v.pairing = x.pairing /\ v.attempts = x.attempts
              /\ v.pairSetup = x.pairSetup /\ v.setup = x.setup /\ v.session[s] = Opened
              /\ \A t \in Sessions : t # s => v.session[t] = x.session[t]
      BY <3>1, Reconnected
    <3>3. /\ Good(w) /\ w.pairing = World.pairing /\ w.attempts = World.attempts
          /\ w.pairSetup = World.pairSetup /\ w.setup = World.setup
          /\ w.session[s] = Opened
          /\ \A t \in Sessions : t # s => w.session[t] = World.session[t]
      BY <3>2 DEF x
    <3> HIDE DEF w
    <3> QED
      BY <3>3, WorldFields
  <2> HIDE DEF w
  <2>4. Hidden(World) => Hidden(w)
    BY <2>3, WorldFields, ClosedTyped DEF Hidden
  <2> QED
    BY <2>1, <2>3, <2>4, GoodBecomes
<1>3. CASE Close(s, fresh)
  <2> DEFINE w == Release(World, s, fresh)
  <2>1. session[s].open /\ Become(w)
    BY <1>3 DEF Close
  <2>2. Releases(World, w, s, Closed)
    BY <1>1, Released
  <2> HIDE DEF w
  <2> QED
    BY <1>1, <2>1, <2>2, WorldFields, GoodBecomes DEF Releases
<1>4. CASE TransientFails(s)
  <2>1. /\ Halt /\ pairing' = pairing /\ attempts' = attempts /\ failed' \in Failures
        /\ session[s].transient /\ pairing # Nobody
    BY <1>4 DEF TransientFails, Failures
  <2>2. SInv' /\ IdleInv'
    BY <2>1, StateElim, Halted
  <2>3. ~Hidden(World)
    BY <2>1, WorldFields DEF Hidden
  <2> QED
    BY <2>1, <2>2, <2>3 DEF Preserves, IPInv
<1>5. CASE \E m \in Messages, mfi \in BOOLEAN : IPPairSetup(s, m, mfi, fresh)
  BY <1>5, IPPairSetupPreserves
<1>6. CASE BLEInvalidate(s, fresh)
  <2> DEFINE w == [Release(World, s, fresh) EXCEPT !.session[s] = Opened]
  <2>1. s \in BLESessions /\ session[s].open /\ Become(w)
    BY <1>6 DEF BLEInvalidate
  <2>2. Releases(World, w, s, Opened)
    BY <1>1, Released
  <2> HIDE DEF w
  <2> QED
    BY <1>1, <2>1, <2>2, WorldFields, GoodBecomes DEF Releases
<1>7. CASE \E m \in Messages : BLEPairSetupWrite(s, m, fresh)
  <2> PICK m \in Messages : BLEPairSetupWrite(s, m, fresh)
    BY <1>7
  <2> DEFINE w == HandleWrite(World, s, m, fresh)
  <2>1. s \in BLESessions /\ session[s].open /\ ~session[s].transient /\ Become(w)
    BY DEF BLEPairSetupWrite
  <2>2. Writes(World, w, s) /\ Good(w)
    BY <1>1, <2>1, WorldFields, WrittenGood
  <2> HIDE DEF w
  <2>3. attempts < MaxAttempts => attempts # MaxAttempts
    BY StateElim
  <2> QED
    BY <1>1, <2>1, <2>2, <2>3, WorldFields, GoodBecomes DEF Writes
<1>8. CASE \E mfi \in BOOLEAN : BLEPairSetupRead(s, mfi, fresh)
  <2> PICK mfi \in BOOLEAN : BLEPairSetupRead(s, mfi, fresh)
    BY <1>8
  <2> DEFINE w == HandleRead(World, s, mfi, fresh)
  <2>1. s \in BLESessions /\ session[s].open /\ Become(w)
    BY DEF BLEPairSetupRead
  <2>2. Reads(World, w, s) /\ Good(w)
    BY <1>1, ReadGood
  <2> HIDE DEF w
  <2> QED
    BY <1>1, <2>1, <2>2, WorldFields, GoodBecomes DEF Reads
<1> QED
  BY <1>2, <1>3, <1>4, <1>5, <1>6, <1>7, <1>8 DEF SessionNext

-------------------------------------------------------------------------------
\* The theorems.

LEMMA InitGood == Init => SInv /\ IPInv /\ IdleInv
<1> SUFFICES ASSUME Init PROVE SInv /\ IPInv /\ IdleInv
  OBVIOUS
<1>1. Consistent(NoSetupInfo) /\ NoSetupInfo \in SetupInfo
  BY StoppedSetup DEF Consistent
<1>2. NoSetupInfo.code = NoCode /\ ~NoSetupInfo.nfc /\ ~NoSetupInfo.asserts
  BY DEF NoSetupInfo
<1>3. TypeOK
  <2>1. 0 \in 0 .. MaxAttempts
    BY SetupAssumption
  <2>2. [t \in Sessions |-> Closed] \in [Sessions -> SessionState]
    BY ClosedTyped
  <2> QED
    BY <1>1, <2>1, <2>2, NoPairSetupType DEF Init, TypeOK, Failures
<1>4. World \in Worlds
  BY <1>3 DEF TypeOK, World, Worlds
<1>5. Good(World) /\ Unconnected(World)
  BY <1>1, <1>2, <1>4, WorldFields, NoPairSetupType, Dark DEF Init
<1> QED
  BY <1>2, <1>3, <1>5, WorldFields DEF Init, SInv, IPInv, Hidden, IdleInv

LEMMA NextPreserves == SInv /\ Next => Preserves
BY ServerPreserves, SetupInfoPreserves, SessionPreserves DEF Next

LEMMA Stuttering == UNCHANGED vars => /\ SInv => SInv'
                                      /\ IPInv => IPInv'
                                      /\ IdleInv => IdleInv'
<1> SUFFICES ASSUME UNCHANGED vars
             PROVE  (SInv => SInv') /\ (IPInv => IPInv') /\ (IdleInv => IdleInv')
  OBVIOUS
<1>1. World' = World
  BY DEF vars, World
<1>2. TypeOK => TypeOK'
  BY DEF vars, TypeOK
<1> QED
  BY <1>1, <1>2 DEF vars, SInv, IPInv, IdleInv

\* What can be read off a good world: each state property of the module.
LEMMA SInvImplies ==
    SInv => ProcedureOwned /\ CodeLocked /\ ShownCodeIsCurrent
<1> SUFFICES ASSUME SInv PROVE ProcedureOwned /\ CodeLocked /\ ShownCodeIsCurrent
  OBVIOUS
<1>1. ProcedureOwned
  <2>1. \A s \in Sessions : session[s].state >= 2 => pairSetup.owner = s
    BY StateElim, ProperElim, WorldFields DEF Owns
  <2>2. \A s \in Sessions : pairSetup.owner = s => session[s].open /\ session[s].state >= 1
    BY StateElim, WorldFields, NobodyIsNoSession DEF Engaged, EngagedBut
  <2> QED
    BY <2>1, <2>2 DEF ProcedureOwned
<1>2. CodeLocked
  <2> SUFFICES ASSUME NEW s \in Sessions, pairSetup.owner = s
               PROVE  /\ setup.code # NoCode /\ setup.lock /\ ~setup.refresh
                      /\ session[s].state \in 2 .. 4 => pairSetup.verifier = setup.code
    BY DEF CodeLocked
  <2>1. Locked(setup)
    BY StateElim, WorldFields, NobodyIsNoSession DEF Proper, ProperBut
  <2>2. session[s].state \in 2 .. 4 => pairSetup.verifier = setup.code
    BY StateElim, ProperElim, WorldFields DEF Owns
  <2> QED
    BY <2>1, <2>2 DEF Locked
<1>3. ShownCodeIsCurrent
  BY StateElim DEF ShownCodeIsCurrent, Consistent, Shown
<1> QED
  BY <1>1, <1>2, <1>3

LEMMA Invariance == Spec => []SInv
<1>1. Init => SInv
  BY InitGood
<1>2. SInv /\ [Next]_vars => SInv'
  BY NextPreserves, Stuttering DEF Preserves
<1> QED
  BY <1>1, <1>2, PTL DEF Spec


\* The variables keep their types; in particular the counter of unsuccessful attempts
\* never exceeds its limit, and the verifier is a code that the accessory knows.
THEOREM TypesKept == Spec => []TypeOK
<1>1. SInv => TypeOK
  BY DEF SInv
<1> QED
  BY <1>1, Invariance, PTL

\* The session that is past M2 is the owner of the procedure, and the owner is an open
\* session that is in the procedure, however the messages of the sessions interleave
\* with timeouts, takeovers, closed connections and restarts.
THEOREM ProcedureAlwaysOwned == Spec => []ProcedureOwned
<1>1. SInv => ProcedureOwned
  BY SInvImplies
<1> QED
  BY <1>1, Invariance, PTL

\* The attempt under way has a setup code that is locked, that no timer will replace,
\* and that its verifier was made from.
THEOREM CodeAlwaysLocked == Spec => []CodeLocked
<1>1. SInv => CodeLocked
  BY SInvImplies
<1> QED
  BY <1>1, Invariance, PTL

\* The display and the tag never show a setup code that is no longer in force.
THEOREM ShownCodeAlwaysCurrent == Spec => []ShownCodeIsCurrent
<1>1. SInv => ShownCodeIsCurrent
  BY SInvImplies
<1> QED
  BY <1>1, Invariance, PTL

\* M5 sets key 0 of the pairings without looking, and never replaces a pairing.
THEOREM PairingKept == Spec => PairingNeverReplaced
<1>1. SInv /\ [Next]_vars => [pairing # Nobody => pairing' \in {pairing, Nobody}]_vars
  BY NextPreserves DEF Preserves
<1> QED
  BY <1>1, Invariance, PTL DEF Spec, PairingNeverReplaced

\* The counter of unsuccessful attempts locks the accessory for good: at its limit no
\* message, restart or timeout resets it, and no attempt that was already under way
\* pairs the accessory.
THEOREM LockoutKept == Spec => LockoutIsFinal
<1>1. SInv /\ [Next]_vars =>
         [running /\ attempts = MaxAttempts =>
             attempts' = MaxAttempts /\ pairing' \in {pairing, Nobody}]_vars
  BY NextPreserves DEF Preserves
<1> QED
  BY <1>1, Invariance, PTL DEF Spec, LockoutIsFinal

\* Without the BLE transport.
LEMMA IPInvariance ==
    ASSUME BLESessions = {}
    PROVE  Spec => [](SInv /\ IPInv)
<1>1. Init => SInv /\ IPInv
  BY InitGood
<1>2. SInv /\ IPInv /\ [Next]_vars => (SInv /\ IPInv)'
  BY NextPreserves, Stuttering DEF Preserves
<1> QED
  BY <1>1, <1>2, PTL DEF Spec

\* With IP alone, handle_http_request closes the transient sessions in time: the
\* assertion of HAPSessionIsTransient does not fail.
THEOREM TransientClosedInTime ==
    ASSUME BLESessions = {}
    PROVE  Spec => []NoTransientWhilePaired
<1>1. IPInv => NoTransientWhilePaired
  BY DEF IPInv, NoTransientWhilePaired
<1> QED
  BY <1>1, IPInvariance, PTL

\* With IP alone, no setup payload is ever made for a paired accessory, and a setup
\* code that is kept was locked: the assertions about the setup info hold.
THEOREM SetupInfoNeverAsserts ==
    ASSUME BLESessions = {}
    PROVE  Spec => []SetupInfoAsserts
<1>1. IPInv => SetupInfoAsserts
  BY DEF IPInv, SetupInfoAsserts
<1> QED
  BY <1>1, IPInvariance, PTL

\* With IP alone, a paired accessory has no setup code left.
THEOREM CodeHiddenOncePaired ==
    ASSUME BLESessions = {}
    PROVE  Spec => []PairedHidesCode
<1>1. IPInv => PairedHidesCode
  BY WorldFields DEF IPInv, Hidden, PairedHidesCode
<1> QED
  BY <1>1, IPInvariance, PTL

\* With IP, a server that has stopped shows no setup code: no timer is left that
\* could bring it back.
THEOREM CodeHiddenOnceStopped ==
    ASSUME IPSessions # {}
    PROVE  Spec => []StoppedHidesCode
<1>1. Init => SInv /\ IdleInv
  BY InitGood
<1>2. SInv /\ IdleInv /\ [Next]_vars => (SInv /\ IdleInv)'
  BY NextPreserves, Stuttering DEF Preserves
<1>3. SInv /\ IdleInv => StoppedHidesCode
  BY StateElim DEF IdleInv, StoppedHidesCode, Consistent, Shown
<1> QED
  BY <1>1, <1>2, <1>3, PTL DEF Spec

\* Where pairing is possible over IP alone, no assertion of Pair Setup fails, for any number
\* of IP sessions.  With a BLE transport the assertions of HAPSession.c:184 and
\* HAPAccessorySetupInfo.c:122 do fail, so that the restriction cannot be dropped.
THEOREM AssertionsHoldOverIP ==
    ASSUME BLESessions = {}
    PROVE  Spec => []AssertionsHold
  BY TransientClosedInTime, SetupInfoNeverAsserts, PTL DEF AssertionsHold

\* Where pairing is possible over IP alone, the setup code cannot be seen once the accessory
\* is paired, nor when it is stopped.  A pairing over BLE leaves the code of the attempt
\* until M6 is read; and it is the start and stop of the IP transport that look after it.
THEOREM CodeHiddenOverIP ==
    ASSUME BLESessions = {}, IPSessions # {}
    PROVE  Spec => []CodeIsHidden
  BY CodeHiddenOncePaired, CodeHiddenOnceStopped, PTL DEF CodeIsHidden


LEMMA KeptStays ==
    ASSUME SInv, IPInv, NEW fresh \in Codes, SetupInfoNext(fresh), setup.keep
    PROVE  setup'.keep /\ setup'.code = setup.code
<1>1. /\ Consistent(setup) /\ Locked(setup) /\ pairing = Nobody /\ ~setup.refresh
      /\ (pairing # Nobody) \in BOOLEAN /\ World \in Worlds
  BY StateElim, WorldFields DEF IPInv, Hidden, Consistent, Sane, Locked
<1>2. ASSUME NEW u, Careful(setup, u, pairing # Nobody),
             BecomeSetup(u) \/ (~u.asserts => setup' = u)
      PROVE  setup'.keep /\ setup'.code = setup.code
  <2>1. u.keep = setup.keep /\ u.code = setup.code
    BY <1>1, <1>2 DEF Careful
  <2>2. ~u.asserts /\ u \in SetupInfo
    BY <1>1, <1>2, StateElim DEF Careful, Consistent, SetupInfo
  <2>3. [World EXCEPT !.setup = u].setup = u
    BY <1>1 DEF Worlds
  <2>4. setup' = u
    BY <1>2, <2>2, <2>3 DEF BecomeSetup, Become
  <2> QED
    BY <2>1, <2>4
<1>3. CASE CallbackTimerExpired(fresh)
  BY <1>1, <1>2, <1>3, ServerCareful DEF CallbackTimerExpired
<1>4. CASE DynamicRefresh(fresh)
  BY <1>1, <1>4 DEF DynamicRefresh
<1>5. CASE Refresh(fresh)
  BY <1>1, <1>2, <1>5, ExpiryCareful DEF Refresh
<1>6. CASE EnterNFC(fresh)
  BY <1>1, <1>2, <1>6, NFCCareful DEF EnterNFC
<1>7. CASE ExitNFC
  BY <1>1, <1>2, <1>7, NFCCareful DEF ExitNFC
<1> QED
  BY <1>3, <1>4, <1>5, <1>6, <1>7 DEF SetupInfoNext

\* With IP alone, a setup code that a transient attempt asked to keep is still there
\* for the next attempt, whatever timers expire and whatever the application asks for.
THEOREM KeptCodeKept ==
    ASSUME BLESessions = {}
    PROVE  Spec => KeptCodeStays
<1>1. SInv /\ IPInv /\ [Next]_vars =>
         [\A fresh \in Codes : setup.keep /\ SetupInfoNext(fresh) =>
             setup'.keep /\ setup'.code = setup.code]_vars
  BY KeptStays
<1> QED
  BY <1>1, IPInvariance, PTL DEF Spec, KeptCodeStays
===============================================================================
