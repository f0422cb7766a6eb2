------------------------------- MODULE HAPMFiHWAuth -------------------------------
(***************************************************************************)
(* The Apple Authentication Coprocessor: powered on when it is needed and  *)
(* off by a timer once that is safe.  A chip of protocol version 2 must    *)
(* keep its power while its System Event Counter is not zero.  An access   *)
(* over the I2C bus can fail after its repetitions, the chip can refuse to *)
(* sign, and the platform can run out of timers.                           *)
(***************************************************************************)
EXTENDS Naturals

CONSTANTS
    ProtocolVersions,       \* of the chip; the ADK knows 2 and 3
    Challenges,
    MaxEventCounter,
    MaxFailures             \* of the bus and of timer registrations, per behaviour

ASSUME ChipAssumption == MaxEventCounter \in Nat /\ MaxFailures \in Nat

VARIABLES
    chip,               \* the coprocessor: version, powered, counter, registers
    powerOffTimer,
    untimed,            \* the chip is on and nothing will turn it off
    failures,
    misjudged,          \* a bus failure made the chip look safe to release
    signature           \* what HAPMFiHWAuthCreateSignature returned last, and what for

mfiVars == <<chip, powerOffTimer, untimed, failures, misjudged, signature>>

\* The registers of a chip that has been turned on.
Cleared(c) == [c EXCEPT !.challenge = "none", !.response = "none", !.status = "none"]
KnownVersions == {2, 3}

MFiInit ==
    /\ \E version \in ProtocolVersions :
        chip = [version |-> version, powered |-> FALSE, counter |-> 0,
                challenge |-> "none", response |-> "none", status |-> "none"]
    /\ powerOffTimer = FALSE
    /\ untimed = FALSE
    /\ failures = 0
    /\ misjudged = FALSE
    /\ signature = [challenge |-> "none", signed |-> "none"]

CanFail == failures < MaxFailures

\* HAPMFiHWAuthEnable: a chip that is on already has its timer; a timer that cannot be
\* registered is done without.
PoweredOn(c) == IF c.powered THEN c ELSE [Cleared(c) EXCEPT !.powered = TRUE]

HAPMFiHWAuthEnable(timersLeft) ==
    IF chip.powered THEN UNCHANGED <<powerOffTimer, untimed>>
    ELSE powerOffTimer' = timersLeft /\ untimed' = ~timersLeft

Failing(fails) == (fails => CanFail) /\ failures' = failures + (IF fails THEN 1 ELSE 0)

\* HAPMFiHWAuthIsAvailable and HAPMFiHWAuthCopyCertificate only read and run self-tests.
Query(timersLeft) ==
    /\ Failing(~timersLeft)
    /\ HAPMFiHWAuthEnable(timersLeft)
    /\ chip' = PoweredOn(chip)
    /\ UNCHANGED <<misjudged, signature>>

\* What the bus and the chip make of a challenge that is written and signed.
Challenged(challenge) == [PoweredOn(chip) EXCEPT !.challenge = challenge]
Signed(challenge) ==
    [Challenged(challenge) EXCEPT !.response = challenge, !.status = "done",
        !.counter = IF @ < MaxEventCounter THEN @ + 1 ELSE @]
Refused(challenge) ==
    [Challenged(challenge) EXCEPT !.status = "error",
        !.counter = IF @ < MaxEventCounter THEN @ + 1 ELSE @]

\* HAPMFiHWAuthCreateSignature reads the response if the chip reports that the signature
\* was generated.
SignatureGenerated(c) == c.status = "done"

CreateSignature(challenge) ==
    /\ HAPMFiHWAuthEnable(TRUE)
    /\ chip.version \in KnownVersions
    /\ chip' \in {Signed(challenge), Refused(challenge)}
    /\ IF SignatureGenerated(chip')
       THEN signature' = [challenge |-> challenge, signed |-> chip'.response]
       ELSE UNCHANGED signature
    /\ UNCHANGED <<failures, misjudged>>

\* kHAPError_Unknown on the way: an unknown version, or the bus.
FailToSign(challenge) ==
    /\ HAPMFiHWAuthEnable(TRUE)
    /\ IF chip.version \in KnownVersions
       THEN /\ Failing(TRUE)
            /\ chip' \in {PoweredOn(chip), Challenged(challenge), Signed(challenge)}
       ELSE Failing(FALSE) /\ chip' = PoweredOn(chip)
    /\ UNCHANGED <<misjudged, signature>>

\* HAPMFiHWAuthIsSafeToRelease; a failing read counts as safe.
IsSafeToRelease(busFails) ==
    /\ chip.powered
    /\ busFails \/ chip.version # 2 \/ chip.counter = 0

\* PowerOffTimerExpired: tries again later, if there is a timer for that.
PowerOffTimerExpiredFaulty(busFails, timersLeft) ==   \* Faulty: does not try again
    /\ powerOffTimer
    /\ Failing(busFails)
    /\ powerOffTimer' = FALSE
    /\ chip' = [chip EXCEPT !.powered = ~IsSafeToRelease(busFails)]
    /\ misjudged' = (busFails /\ ~chip'.powered)
    /\ UNCHANGED <<untimed, signature>>

PowerOffTimerExpired(busFails, timersLeft) ==
    /\ powerOffTimer
    /\ ~(busFails /\ ~timersLeft)
    /\ Failing(busFails \/ ~timersLeft)
    /\ IF IsSafeToRelease(busFails)
       THEN /\ timersLeft
            /\ powerOffTimer' = FALSE
            /\ chip' = [chip EXCEPT !.powered = FALSE]
            /\ misjudged' = busFails
            /\ UNCHANGED untimed
       ELSE /\ powerOffTimer' = timersLeft
            /\ untimed' = ~timersLeft
            /\ UNCHANGED <<chip, misjudged>>
    /\ UNCHANGED signature

\* HAPMFiHWAuthRelease and HAPMFiHWAuthCreate, when the server is released and created
\* again: the timer goes, whether or not it is safe, and the chip keeps its power.
ReleaseAndCreate ==
    /\ powerOffTimer' = FALSE
    /\ untimed' = chip.powered
    /\ UNCHANGED <<chip, failures, misjudged, signature>>

\* The chip lets its events fade.
CountDown ==
    /\ chip.powered
    /\ chip.counter > 0
    /\ chip' = [chip EXCEPT !.counter = @ - 1]
    /\ UNCHANGED <<powerOffTimer, untimed, failures, misjudged, signature>>

MFiNext ==
    \/ \E timersLeft, busFails \in BOOLEAN :
        Query(timersLeft) \/ PowerOffTimerExpired(busFails, timersLeft)
    \/ \E challenge \in Challenges : CreateSignature(challenge) \/ FailToSign(challenge)
    \/ ReleaseAndCreate
    \/ CountDown

MFiSpec == MFiInit /\ [][MFiNext]_mfiVars
-----------------------------------------------------------------------------
\* A chip that is on will be turned off: its timer is running whatever was asked of it,
\* unless no timer was left or the server was released meanwhile; and only then.
PowerIsTimed == powerOffTimer <=> chip.powered /\ ~untimed

\* Power is taken from a chip of version 2 only when its event counter is zero, or when
\* the bus no longer reaches it.
EventsHaveFaded ==
    chip.powered /\ ~chip'.powered => chip.version # 2 \/ chip.counter = 0 \/ misjudged'

\* A signature is that of the challenge it was asked for, not one that an earlier
\* challenge left in the chip.
SignatureIsFresh == signature.signed = signature.challenge

\* The chip signs what it is asked to sign, is turned off in time, and not too early.
ChipIsUsedWell == [][PowerIsTimed' /\ SignatureIsFresh' /\ EventsHaveFaded]_mfiVars
===================================================================================
