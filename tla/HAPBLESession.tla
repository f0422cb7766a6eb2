----------------------------- MODULE HAPBLESession -----------------------------
(***************************************************************************)
(* The session over Bluetooth LE: its security, its three timers, and what *)
(* follows when it is accepted and when it is invalidated.  The operators  *)
(* take the state of the world, a record that HAPBLEPeripheralManager      *)
(* declares the variables of, and return the next one.                     *)
(*                                                                         *)
(* A timer is on or off; the link timer also has a state between its       *)
(* deadline and the callback.  gap and told are bookkeeping of the model:  *)
(* by how many messages the nonces of the two ends are apart, and the      *)
(* characteristics whose subscription the application has been told.       *)
(***************************************************************************)
EXTENDS HAPBLETransaction, FiniteSets, SequencesExt

CONSTANTS Table,     \* the characteristics in the order of the GATT table
          Database   \* their properties

Chars == ToSet(Table)
Db(c) == Database[c]

ASSUME DatabaseAssumption ==
    /\ Table \in Seq(Chars) /\ IsInjective(Table)
    /\ Database \in [Chars -> [pairing : {"None", "PairSetup", "PairVerify"},
          signature : BOOLEAN, information : BOOLEAN, configurable : BOOLEAN,
          events : BOOLEAN, timed : BOOLEAN, readable : BOOLEAN, writable : BOOLEAN,
          openRead : BOOLEAN, openWrite : BOOLEAN, writeResponse : BOOLEAN,
          adminRead : BOOLEAN, adminWrite : BOOLEAN]]

-----------------------------------------------------------------------------
(* Security.                                                               *)

Exchanges == {"PairSetup", "PairVerify"}
SessionCreated ==
    [active |-> FALSE, transient |-> FALSE, exchange |-> [x \in Exchanges |-> 0],
     terminal |-> FALSE, safe |-> TRUE, linkTimer |-> "On", pairingTimer |-> FALSE]
InStep == [in |-> 0, out |-> 0]

\* Two messages apart is as bad as more.
Wider(n) == IF n = 0 THEN 1 ELSE 2

IsTransient(w) == w.session.active /\ w.session.transient

\* HAPSessionIsSecured looks the pairing of a session up again.
IsSecured(w) == w.session.active /\ (w.session.transient \/ w.pairing.stored)

ControllerIsAdmin(w) ==
    w.session.active /\ ~IsTransient(w) /\ w.pairing.stored /\ w.pairing.admin

DropsSecuritySession(c) == Db(c).pairing # "None"

\* The nonces are in step when the message opens; a message that does not open
\* takes the session's keys with it.
Opens(w, seal) == seal = "Next" /\ w.gap.in = 1

Decrypt(w, seal) ==
    IF ~w.session.active THEN [w EXCEPT !.call.err = "InvalidState"]
    ELSE IF Opens(w, seal) THEN [w EXCEPT !.gap.in = 0]
    ELSE [w EXCEPT !.call.err = "InvalidData",
                   !.session.active = FALSE, !.session.transient = FALSE]

Encrypt(w) ==
    IF ~w.session.active THEN [w EXCEPT !.call.err = "InvalidState"]
    ELSE [w EXCEPT !.gap.out = Wider(@)]

-----------------------------------------------------------------------------
(* Event notifications.                                                    *)

Subscribed(w) == {c \in Chars : Db(c).events /\ w.attr[c].subscribed}

DueEvents(w) ==
    {c \in Subscribed(w) : w.attr[c].pending /\ (Db(c).adminRead => ControllerIsAdmin(w))}

FirstOf(S) == Table[CHOOSE i \in DOMAIN Table :
                       Table[i] \in S /\ \A j \in 1 .. i - 1 : Table[j] \notin S]

\* The platform takes one indication until the central has confirmed it.
SendPendingEventNotifications(w) ==
    IF DueEvents(w) = {} \/ ~IsSecured(w) \/ IsTransient(w) \/ w.link.blocked THEN w
    ELSE [w EXCEPT !.attr[FirstOf(DueEvents(w))].pending = FALSE, !.link.blocked = TRUE]

HandleSessionAccept(w) ==
    SendPendingEventNotifications([w EXCEPT !.told = @ \cup Subscribed(w)])

HandleSessionInvalidate(w) == [w EXCEPT !.told = @ \ Subscribed(w)]

-----------------------------------------------------------------------------
(* The life of the session and its timers.                                 *)

CancelCentralConnection(w) == [w EXCEPT !.link.cancelled = @ \/ w.link.connected]

BLESessionInvalidate(w, terminateLink) ==
    LET ended == [w EXCEPT !.session.linkTimer = "Off", !.session.pairingTimer = FALSE,
                           !.session.terminal = @ \/ terminateLink]
    IN IF terminateLink /\ w.session.safe THEN CancelCentralConnection(ended) ELSE ended

SessionInvalidate(w, terminateLink) ==
    LET silent == IF w.session.active THEN HandleSessionInvalidate(w) ELSE w
    IN BLESessionInvalidate(
           [silent EXCEPT !.session.active = FALSE, !.session.transient = FALSE,
                          !.session.exchange = SessionCreated.exchange], terminateLink)

Terminate(w) == SessionInvalidate(w, TRUE)

SessionRelease(w) ==
    [Terminate(w) EXCEPT !.session = [SessionCreated EXCEPT !.linkTimer = "Off"],
                         !.gap = InStep]

\* A deadline that has passed; the subtraction of unsigned times answers for
\* this case only.
IsTerminalSoon(w) == w.session.terminal \/ w.session.linkTimer = "Late"

DidSendGATTResponse(w) == [w EXCEPT !.session.safe = FALSE]

DidStartBLEProcedure(w) ==
    IF w.session.terminal THEN w
    ELSE [w EXCEPT !.session.linkTimer = IF IsSecured(w) THEN "On" ELSE "Off"]

DidStartPairingProcedure(w) ==
    [w EXCEPT !.session.pairingTimer = @ \/ ~w.session.terminal]

DidCompletePairingProcedure(w, type) ==
    IF w.session.terminal THEN w
    ELSE [w EXCEPT !.session.pairingTimer = FALSE,
                   !.session.linkTimer =
                       IF type = "PairVerify" /\ IsSecured(w) THEN "On" ELSE @]

LinkTimerOrPairingProcedureTimerExpired(w, timer) ==
    Terminate(IF timer = "Link" THEN [w EXCEPT !.session.linkTimer = "Off"]
                                ELSE [w EXCEPT !.session.pairingTimer = FALSE])

SafeToDisconnectTimerExpired(w) ==
    LET safe == [w EXCEPT !.session.safe = TRUE]
    IN IF w.session.terminal \/ ~w.running THEN CancelCentralConnection(safe) ELSE safe

-----------------------------------------------------------------------------
(* Pair Verify and Pair Setup, as far as the session takes part: x is the  *)
(* one or the other.  Its first message starts over, its last one makes    *)
(* the session, transient after Pair Setup, or ends the exchange.  Only    *)
(* Pair Verify reports its start and its end to the session's timers.      *)

\* Faulty: the nonces of the session before go on.
StartWithOldNonces(w, x) ==
    HandleSessionAccept(
        [w EXCEPT !.session.active = TRUE, !.session.transient = x = "PairSetup",
                  !.session.exchange[x] = 0, !.gap.out = 1])

StartSession(w, x) ==
    HandleSessionAccept(
        [w EXCEPT !.session.active = TRUE, !.session.transient = x = "PairSetup",
                  !.session.exchange[x] = 0, !.gap = InStep])

StartsIfRunning(w, x) ==
    IF x = "PairVerify" /\ w.session.exchange[x] # 0 THEN DidStartPairingProcedure(w) ELSE w

Completes(w, x) == IF x = "PairVerify" THEN DidCompletePairingProcedure(w, x) ELSE w

\* The state of an exchange is its last message, or this: an error is pending.
ErrorPending == 4

\* A message that neither starts nor continues the exchange is an error.  Pair
\* Verify looks the pairing up, and checks the signature, when M3 arrives.
HandleExchangeWrite(w, x, message, proven) ==
    LET accepted == x = "PairVerify" => proven /\ w.pairing.stored
        next == CASE message = "M1" -> 1
                  [] message = "M3" /\ w.session.exchange[x] = 2 ->
                         IF accepted THEN 3 ELSE ErrorPending
                  [] OTHER -> 0
    IN [StartsIfRunning(w, x) EXCEPT !.session.exchange[x] = next,
            !.call.err = IF next = 0 THEN "InvalidData" ELSE "None"]

\* proven: the setup code was the right one, which Pair Setup checks for its M4.
\* What Pair Verify found at M3 holds at M4, whatever became of the pairing.
HandleExchangeRead(w, x, proven) ==
    LET state   == w.session.exchange[x]
        started == StartsIfRunning(w, x)
        over    == [started EXCEPT !.session.exchange[x] = 0]
        refused == \/ state = ErrorPending
                   \/ x = "PairSetup" /\ state = 1 /\ w.pairing.stored
                   \/ x = "PairSetup" /\ state = 3 /\ ~proven
    IN CASE refused -> Completes(over, x)
         [] state = 1 /\ ~refused -> [started EXCEPT !.session.exchange[x] = 2]
         [] state = 3 /\ ~refused -> Completes(StartSession(started, x), x)
         [] OTHER -> [over EXCEPT !.call.err = "InvalidState"]
=============================================================================
