-------------------- MODULE HAPBLEPeripheralManager_proofs --------------------
(***************************************************************************)
(* Theorems about HAPBLEPeripheralManager, for any GATT table, database,   *)
(* requests, fragments and outcomes of handlers.  A handler takes a world  *)
(* to the next one, so the invariants are predicates on worlds, each       *)
(* handler has a lemma, and a step becomes what its handlers make of it.   *)
(***************************************************************************)
EXTENDS HAPBLEPeripheralManager, FiniteSetTheorems, SequenceTheorems, TLAPS

\* STRING, as the provers know it.
Words == STRING \cup {"None", "service", "none", "signature", "configuration", "token",
                      "info"}
Bodies == Seq(Words)
Headers == [opcode : Words, tid : Nat, iid : Words, total : Nat]

Errors == {"None", "InvalidState", "InvalidData", "OutOfResources", "NotAuthorized",
           "Expired", "Unknown"}
Statuses == {"None", "Success", "UnsupportedPDU", "InvalidRequest", "InvalidInstanceID",
             "InsufficientAuthentication", "InsufficientAuthorization"}

TxnStates == {"WaitingForInitialWrite", "ReadingRequest", "HandlingRequest",
              "WaitingForInitialRead", "WritingResponse"}
Answers == [tid : Nat, status : Statuses, total : Nat]
Txns ==
    [state : TxnStates, max : Nat, header : Headers, memory : Bodies, offset : Nat,
     response : Answers, err : Errors]
Procs ==
    [char : Chars \cup {NotAttached}, timer : BOOLEAN, startedSecured : BOOLEAN,
     multi : {"None", "TimedWrite"}, timed : [length : Nat, expired : BOOLEAN],
     txn : Txns]
FallbackStates ==
    [timer : BOOLEAN, tid : Nat, remaining : Nat,
     status : {"None", "MaxProcedures", "InvalidInstanceID",
               "ZeroInstanceIDServiceSignatureRead"}]
Attrs == [subscribed : BOOLEAN, pending : BOOLEAN, fallback : FallbackStates]
SessionStates ==
    [active : BOOLEAN, transient : BOOLEAN, exchange : [Exchanges -> 0 .. 4],
     terminal : BOOLEAN, safe : BOOLEAN, linkTimer : {"Off", "On", "Late"},
     pairingTimer : BOOLEAN]
Links == [connected : BOOLEAN, cancelled : BOOLEAN, blocked : BOOLEAN]
Pairings == [stored : BOOLEAN, admin : BOOLEAN]
Gaps == [in : 0 .. 2, out : 0 .. 2]
Calls == [err : Errors, procedure : {"None", "Full", "Fallback"}, new : BOOLEAN]

Worlds ==
    [link : Links, running : BOOLEAN, pairing : Pairings, session : SessionStates,
     proc : Procs, attr : [Chars -> Attrs], value : [Chars -> Bodies],
     told : SUBSET Chars, gap : Gaps, call : Calls]

\* What the central knows of a procedure.
Askings ==
    [on : BOOLEAN, header : Headers, body : Bodies, sent : Nat, sealed : BOOLEAN]

Messages ==
    [kind : {"First"}, header : Headers, chunk : Bodies]
        \cup [kind : {"Continuation"}, tid : Nat, chunk : Bodies]
        \cup {Malformed}

Responding == {"WaitingForInitialRead", "WritingResponse"}

\* A transaction between two calls: what has been read or written of its body.
TransactionSound(t) ==
    /\ t.err = "None" /\ t.state # "HandlingRequest"
    /\ t.state = "WaitingForInitialWrite" => t.offset = 0
    /\ t.state = "ReadingRequest" =>
           /\ t.offset <= t.header.total
           /\ t.header.total <= t.max => t.offset <= Len(t.memory)
    /\ t.state = "WaitingForInitialRead" => t.offset = 0
    /\ t.state = "WritingResponse" => t.offset <= t.response.total
    /\ t.response.total # 0 => t.state \in Responding

\* The request of a timed write stays where it is: the transaction that follows has no
\* buffer until it responds.
PreparedSound(p) ==
    p.multi = "TimedWrite" =>
        /\ p.timed.length <= Len(p.txn.memory)
        /\ p.txn.state \in {"WaitingForInitialWrite", "ReadingRequest"} => p.txn.max = 0

\* The procedure and the fallback procedures of a link that goes on.
ProceduresSound(w) ==
    /\ TransactionSound(w.proc.txn) /\ PreparedSound(w.proc)
    /\ w.proc.txn.state # "WaitingForInitialWrite" \/ w.proc.multi # "None" => w.proc.timer
    /\ w.proc.timer => w.proc.char \in Chars
    /\ \A c \in Chars :
           /\ w.attr[c].fallback.status # "None" => w.attr[c].fallback.timer
           /\ w.attr[c].fallback.timer => w.proc.char # c

\* A session that Pair Verify made has a timer, and one that is made in a procedure that
\* began in the open is not used by it before the procedure has answered.
SecuritySound(w) ==
    /\ w.session.active /\ ~w.session.transient /\ w.pairing.stored
           => w.session.linkTimer # "Off"
    /\ w.proc.timer /\ ~w.proc.startedSecured /\ IsSecured(w)
           => w.proc.multi = "None" /\ w.proc.txn.state \in Responding

Sound(w) ==
    /\ w \in Worlds
    /\ ~w.link.connected => w.proc = Detached
    /\ ~w.session.terminal => ProceduresSound(w) /\ SecuritySound(w)

\* A value that needs a secured session is in the response of a procedure that began so.
Reading == {"CharacteristicRead", "CharacteristicWrite", "CharacteristicExecuteWrite"}
Sealed(w, a) ==
    /\ w.proc.txn.response.total # 0
    /\ ~Db(w.proc.char).openRead
    /\ a[w.proc.char].header.opcode \in Reading
    => w.proc.startedSecured

\* What is in progress was asked for, in these words.
Matches(w, a) ==
    ~w.session.terminal =>
        /\ w.proc.txn.state = "ReadingRequest" =>
               a[w.proc.char].on /\ a[w.proc.char].header = w.proc.txn.header
        /\ w.proc.txn.state \in Responding =>
               /\ a[w.proc.char].on
               /\ w.proc.txn.response.tid = a[w.proc.char].header.tid
        /\ \A c \in Chars : w.attr[c].fallback.timer =>
               a[c].on /\ w.attr[c].fallback.tid = a[c].header.tid
        /\ Sealed(w, a)

-----------------------------------------------------------------------------
(* The first characteristic of a set in the GATT table.                    *)

LEMMA LeastIndex ==
    ASSUME NEW n \in Nat, NEW I \in SUBSET (1 .. n), I # {}
    PROVE  \E i \in I : \A j \in 1 .. i - 1 : j \notin I
<1> DEFINE N == 1 .. n
           P == SUBSET N
           R == StrictSubsetOrdering(N)
           T == {1 .. i : i \in I}
<1>1. IsFiniteSet(N)
  BY FS_Interval
<1>2. IsWellFoundedOn(R, P)
  <2> HIDE DEF N
  <2>1. FiniteSubsetsOf(N) = P
    BY <1>1, FS_FiniteSubsetsOfFinite
  <2>2. IsWellFoundedOn(StrictSubsetOrdering(N), FiniteSubsetsOf(N))
    BY FS_StrictSubsetOrderingWellFounded
  <2> HIDE DEF P
  <2> QED
    BY <2>1, <2>2
<1>3. T \subseteq P /\ T # {}
  <2>1. \A i \in I : 1 .. i \subseteq N
    OBVIOUS
  <2> HIDE DEF N
  <2> QED
    BY <2>1
<1>4. \E x \in T : \A y \in T : <<y, x>> \notin R
  <2> HIDE DEF T, R, P
  <2> QED
    BY <1>2, <1>3, WFMin
<1>5. PICK i \in I : \A y \in T : <<y, 1 .. i>> \notin R
  BY <1>4
<1>6. ASSUME NEW j \in 1 .. i - 1, j \in I
      PROVE  FALSE
  <2>1. 1 .. j \in T
    BY <1>6
  <2>2. (1 .. j) \subseteq (1 .. i) /\ i \in 1 .. i /\ i \notin 1 .. j
    BY <1>5, <1>6
  <2>3. <<1 .. j, 1 .. i>> \in (SUBSET N) \X (SUBSET N)
    BY <1>3, <1>5, <2>1
  <2>4. <<1 .. j, 1 .. i>> \in R
    <3> DEFINE x == 1 .. j
               y == 1 .. i
    <3>1. x \subseteq y /\ x # y
      BY <2>2
    <3> HIDE DEF x, y
    <3>2. <<x, y>> \in R
      BY <2>3, <3>1 DEF StrictSubsetOrdering, x, y
    <3> QED
      BY <3>2 DEF x, y
  <2> QED
    BY <1>5, <2>1, <2>4
<1> QED
  BY <1>6

LEMMA FirstIsOne ==
    ASSUME NEW S \in SUBSET Chars, S # {}
    PROVE  FirstOf(S) \in S
<1> DEFINE n == Len(Table)
           I == {i \in 1 .. n : Table[i] \in S}
<1>1. Table \in Seq(Chars) /\ n \in Nat /\ DOMAIN Table = 1 .. n
  BY DatabaseAssumption
<1>2. I # {}
  BY <1>1 DEF Chars, ToSet
<1>3. \E i \in I : \A j \in 1 .. i - 1 : j \notin I
  <2> HIDE DEF I, n
  <2>1. I \in SUBSET (1 .. n)
    BY DEF I
  <2> QED
    BY <1>1, <1>2, <2>1, LeastIndex
<1>4. \E i \in DOMAIN Table : Table[i] \in S /\ \A j \in 1 .. i - 1 : Table[j] \notin S
  BY <1>1, <1>3
<1> QED
  BY <1>4 DEF FirstOf

-----------------------------------------------------------------------------
(* What the operators of the session change.                               *)

LEMMA WorldFields ==
    ASSUME NEW w \in Worlds
    PROVE  /\ w.link \in Links /\ w.running \in BOOLEAN /\ w.pairing \in Pairings
           /\ w.session \in SessionStates /\ w.proc \in Procs /\ w.attr \in [Chars -> Attrs]
           /\ w.value \in [Chars -> Bodies] /\ w.told \in SUBSET Chars
           /\ w.gap \in Gaps /\ w.call \in Calls
BY DEF Worlds

LEMMA DbFields ==
    ASSUME NEW c \in Chars
    PROVE  Db(c) \in [pairing : {"None", "PairSetup", "PairVerify"},
              signature : BOOLEAN, information : BOOLEAN, configurable : BOOLEAN,
              events : BOOLEAN, timed : BOOLEAN, readable : BOOLEAN, writable : BOOLEAN,
              openRead : BOOLEAN, openWrite : BOOLEAN, writeResponse : BOOLEAN,
              adminRead : BOOLEAN, adminWrite : BOOLEAN]
BY DatabaseAssumption DEF Db

LEMMA SecuredType ==
    ASSUME NEW w \in Worlds
    PROVE  IsSecured(w) \in BOOLEAN /\ IsTransient(w) \in BOOLEAN
           /\ ControllerIsAdmin(w) \in BOOLEAN
BY WorldFields DEF IsSecured, IsTransient, ControllerIsAdmin, SessionStates, Pairings

\* The characteristics and their procedures, as far as an indication is none of them.
SameTalk(w, u) ==
    /\ u.proc = w.proc /\ u.value = w.value
    /\ \A c \in Chars : /\ u.attr[c].fallback = w.attr[c].fallback
                        /\ u.attr[c].subscribed = w.attr[c].subscribed

\* Pair Verify accepts the proof of a stored pairing only.
Proves(w, s) ==
    s.exchange["PairVerify"] = 3 => w.session.exchange["PairVerify"] = 3 \/ w.pairing.stored
SameHouse(w, u) ==
    u.running = w.running /\ u.pairing = w.pairing /\ Proves(w, u.session)

\* Indications that were sent went to subscribers that may read the values.
IndicatedTo(w, u) ==
    \A c \in Chars : w.attr[c].pending /\ ~u.attr[c].pending =>
        /\ w.attr[c].subscribed /\ w.pairing.stored
        /\ Db(c).adminRead => w.pairing.admin

\* No event waits that could be sent.
NotStuck(w) == IsSecured(w) /\ ~IsTransient(w) /\ ~w.link.blocked => DueEvents(w) = {}

\* An indication is sent, or none.
Indicated(w, u) ==
    /\ u \in Worlds /\ SameTalk(w, u) /\ SameHouse(w, u) /\ IndicatedTo(w, u)
    /\ u.session = w.session /\ u.told = w.told /\ u.gap = w.gap /\ u.call = w.call
    /\ u.link.connected = w.link.connected /\ u.link.cancelled = w.link.cancelled

LEMMA SendPendingFields ==
    ASSUME NEW w \in Worlds
    PROVE  /\ Indicated(w, SendPendingEventNotifications(w))
           /\ NotStuck(SendPendingEventNotifications(w))
           /\ ~w.session.active => SendPendingEventNotifications(w) = w
<1> DEFINE u == SendPendingEventNotifications(w)
           c == FirstOf(DueEvents(w))
           f == [w.attr EXCEPT ![c].pending = FALSE]
           l == [w.link EXCEPT !.blocked = TRUE]
<1>1. CASE DueEvents(w) = {} \/ ~IsSecured(w) \/ IsTransient(w) \/ w.link.blocked
  <2>1. u = w
    BY <1>1 DEF SendPendingEventNotifications
  <2> HIDE DEF u
  <2> QED
    BY <1>1, <2>1 DEF Indicated, SameTalk, SameHouse, Proves, IndicatedTo, NotStuck, u
<1>2. CASE ~(DueEvents(w) = {} \/ ~IsSecured(w) \/ IsTransient(w) \/ w.link.blocked)
  <2>0. ASSUME NEW d \in Chars
        PROVE  /\ [w.attr[d] EXCEPT !.pending = FALSE] \in Attrs
               /\ [w.attr[d] EXCEPT !.pending = FALSE].fallback = w.attr[d].fallback
               /\ [w.attr[d] EXCEPT !.pending = FALSE].subscribed = w.attr[d].subscribed
    <3>1. w.attr[d] \in Attrs
      BY WorldFields
    <3> QED
      BY <3>1 DEF Attrs
  <2>1. f \in [Chars -> Attrs]
    BY <2>0, WorldFields
  <2>2. \A d \in Chars : /\ f[d].fallback = w.attr[d].fallback
                         /\ f[d].subscribed = w.attr[d].subscribed
                         /\ d # c => f[d] = w.attr[d]
    BY <2>0, WorldFields
  <2>3. l \in Links /\ l.connected = w.link.connected /\ l.cancelled = w.link.cancelled
        /\ l.blocked
    BY WorldFields DEF Links
  <2>4. c \in DueEvents(w)
    BY <1>2, FirstIsOne DEF DueEvents, Subscribed
  <2>5. /\ w.attr[c].subscribed /\ w.pairing.stored /\ w.session.active
        /\ Db(c).adminRead => w.pairing.admin
    BY <1>2, <2>4 DEF DueEvents, Subscribed, ControllerIsAdmin, IsSecured, IsTransient
  <2>6. u = [w EXCEPT !.attr = f, !.link = l]
    BY <1>2 DEF SendPendingEventNotifications, Worlds
  <2> HIDE DEF f, l, c, u
  <2>7. u \in Worlds
    BY <2>1, <2>3, <2>6 DEF Worlds
  <2>8. /\ u.attr = f /\ u.link = l /\ u.proc = w.proc /\ u.value = w.value
        /\ u.running = w.running /\ u.pairing = w.pairing /\ u.session = w.session
        /\ u.told = w.told /\ u.gap = w.gap /\ u.call = w.call
    BY <2>6 DEF Worlds
  <2>9. IndicatedTo(w, u)
    BY <2>2, <2>5, <2>8 DEF IndicatedTo
  <2>10. Indicated(w, u)
    BY <2>2, <2>3, <2>7, <2>8, <2>9 DEF Indicated, SameTalk, SameHouse, Proves
  <2>11. NotStuck(u)
    BY <2>3, <2>8 DEF NotStuck
  <2> QED
    BY <2>5, <2>10, <2>11 DEF u
<1> QED
  BY <1>1, <1>2

\* The session is over.
Ended(w, u) ==
    /\ u \in Worlds /\ SameTalk(w, u) /\ SameHouse(w, u)
    /\ u.attr = w.attr /\ u.gap = w.gap /\ u.call = w.call
    /\ u.link.connected = w.link.connected /\ u.link.blocked = w.link.blocked
    /\ ~u.session.active /\ ~u.session.transient /\ u.session.linkTimer = "Off"
    /\ u.session.safe = w.session.safe
    /\ u.told = IF w.session.active THEN w.told \ Subscribed(w) ELSE w.told

LEMMA InvalidateFields ==
    ASSUME NEW w \in Worlds, NEW t \in BOOLEAN
    PROVE  /\ Ended(w, SessionInvalidate(w, t))
           /\ SessionInvalidate(w, t).session.terminal = (w.session.terminal \/ t)
           /\ ~t => SessionInvalidate(w, t).link = w.link
<1> DEFINE u == SessionInvalidate(w, t)
           s == [w.session EXCEPT !.active = FALSE, !.transient = FALSE,
                    !.exchange = SessionCreated.exchange, !.linkTimer = "Off",
                    !.pairingTimer = FALSE, !.terminal = w.session.terminal \/ t]
           l == IF t /\ w.session.safe
                THEN [w.link EXCEPT !.cancelled = w.link.cancelled \/ w.link.connected]
                ELSE w.link
           o == IF w.session.active THEN w.told \ Subscribed(w) ELSE w.told
<1>1. /\ s \in SessionStates /\ ~s.active /\ ~s.transient /\ s.linkTimer = "Off"
      /\ s.safe = w.session.safe /\ s.terminal = (w.session.terminal \/ t)
      /\ Proves(w, s)
  <2>1. SessionCreated.exchange \in [Exchanges -> 0 .. 4]
        /\ SessionCreated.exchange["PairVerify"] = 0
    BY DEF SessionCreated, Exchanges
  <2>2. s \in SessionStates /\ s.exchange = SessionCreated.exchange
        /\ ~s.active /\ ~s.transient /\ s.linkTimer = "Off"
        /\ s.safe = w.session.safe /\ s.terminal = (w.session.terminal \/ t)
    BY <2>1, WorldFields DEF SessionStates
  <2> HIDE DEF s
  <2> QED
    BY <2>1, <2>2 DEF Proves
<1>2. /\ l \in Links /\ l.connected = w.link.connected /\ l.blocked = w.link.blocked
      /\ ~t => l = w.link
  BY WorldFields DEF Links
<1>3. o \in SUBSET Chars
  BY WorldFields
<1>4. u = [w EXCEPT !.session = s, !.link = l, !.told = o]
  <2> DEFINE s1 == [w.session EXCEPT !.active = FALSE, !.transient = FALSE,
                                     !.exchange = SessionCreated.exchange]
             e == [w EXCEPT !.session = s1, !.told = o]
             n == [w EXCEPT !.session = s, !.told = o]
  <2>1. u = BLESessionInvalidate(e, t)
    BY DEF SessionInvalidate, HandleSessionInvalidate, Worlds
  <2>2. /\ [s1 EXCEPT !.linkTimer = "Off", !.pairingTimer = FALSE,
                      !.terminal = s1.terminal \/ t] = s
        /\ s1.safe = w.session.safe
    BY WorldFields DEF SessionStates
  <2>3. u = IF t /\ w.session.safe THEN CancelCentralConnection(n) ELSE n
    <3> HIDE DEF s1, s, o
    <3>1. e.session = s1
      BY DEF Worlds
    <3>2. [e EXCEPT !.session.linkTimer = "Off", !.session.pairingTimer = FALSE,
                    !.session.terminal = @ \/ t]
              = [e EXCEPT !.session = [s1 EXCEPT !.linkTimer = "Off", !.pairingTimer = FALSE,
                                                 !.terminal = s1.terminal \/ t]]
      BY <3>1 DEF Worlds
    <3>3. [e EXCEPT !.session = s] = n
      BY DEF Worlds
    <3> HIDE DEF n, e
    <3> QED
      BY <2>1, <2>2, <3>1, <3>2, <3>3 DEF BLESessionInvalidate
  <2>4. n.link = w.link /\ n = [w EXCEPT !.session = s, !.link = w.link, !.told = o]
    BY DEF Worlds
  <2> HIDE DEF s, o
  <2> QED
    BY <2>3, <2>4 DEF CancelCentralConnection, Worlds
<1> HIDE DEF s, l
<1>5. u \in Worlds
  BY <1>1, <1>2, <1>3, <1>4 DEF Worlds
<1>6. /\ u.session = s /\ u.link = l /\ u.told = o /\ u.proc = w.proc /\ u.value = w.value
      /\ u.running = w.running /\ u.pairing = w.pairing /\ u.attr = w.attr
      /\ u.gap = w.gap /\ u.call = w.call
  BY <1>4 DEF Worlds
<1> QED
  BY <1>1, <1>2, <1>5, <1>6 DEF Ended, SameTalk, SameHouse

\* Only the session, its nonces and the course of the call change.
Turn(w, s, g, k) == [w EXCEPT !.session = s, !.gap = g, !.call = k]

LEMMA TurnFields ==
    ASSUME NEW w \in Worlds, NEW s \in SessionStates, NEW g \in Gaps, NEW k \in Calls,
           Proves(w, s)
    PROVE  LET u == Turn(w, s, g, k)
           IN /\ u \in Worlds /\ SameTalk(w, u) /\ SameHouse(w, u)
              /\ u.attr = w.attr /\ u.told = w.told /\ u.link = w.link
              /\ u.session = s /\ u.gap = g /\ u.call = k
<1> DEFINE u == Turn(w, s, g, k)
<1>1. u \in Worlds
  BY DEF Turn, Worlds
<1>2. /\ u.attr = w.attr /\ u.told = w.told /\ u.link = w.link /\ u.session = s
      /\ u.gap = g /\ u.call = k /\ u.proc = w.proc /\ u.value = w.value
      /\ u.running = w.running /\ u.pairing = w.pairing
  BY DEF Turn, Worlds
<1> QED
  BY <1>1, <1>2 DEF SameTalk, SameHouse

\* Nothing changes but the session, its nonces and the course of the call.
Turned(w, u) ==
    /\ u \in Worlds /\ SameTalk(w, u) /\ SameHouse(w, u)
    /\ u.attr = w.attr /\ u.told = w.told /\ u.link = w.link

LEMMA ErrorFields ==
    ASSUME NEW w \in Worlds, NEW e \in Errors
    PROVE  /\ Turned(w, Error(w, e))
           /\ Error(w, e).session = w.session /\ Error(w, e).gap = w.gap
           /\ Error(w, e).call.err = e
           /\ Error(w, e).call.procedure = w.call.procedure
           /\ Failed(Error(w, e)) = (e # "None")
<1> DEFINE k == [w.call EXCEPT !.err = e]
<1>1. k \in Calls /\ k.err = e /\ k.procedure = w.call.procedure
  BY WorldFields DEF Calls, Errors
<1>2. Error(w, e) = Turn(w, w.session, w.gap, k)
  BY DEF Error, Turn, Worlds
<1> HIDE DEF k
<1> QED
  BY <1>1, <1>2, WorldFields, TurnFields DEF Turned, Failed, Proves

LEMMA DecryptFields ==
    ASSUME NEW w \in Worlds, ~Failed(w), NEW seal
    PROVE  LET u == Decrypt(w, seal)
           IN /\ Turned(w, u) /\ u.session.terminal = w.session.terminal
              /\ u.session.linkTimer = w.session.linkTimer
              /\ u.call.procedure = w.call.procedure /\ u.call.new = w.call.new
              /\ \/ Failed(u)
                 \/ /\ u.session = w.session /\ u.call = w.call /\ ~Failed(u)
                    /\ w.session.active /\ seal = "Next" /\ w.gap.in = 1
                    /\ u.gap = [w.gap EXCEPT !.in = 0]
              /\ w.session.active /\ Opens(w, seal) => ~Failed(u)
<1> DEFINE u == Decrypt(w, seal)
           s == [w.session EXCEPT !.active = FALSE, !.transient = FALSE]
           g == [w.gap EXCEPT !.in = 0]
           K(e) == [w.call EXCEPT !.err = e]
<1>2. /\ s \in SessionStates /\ s.terminal = w.session.terminal
      /\ s.linkTimer = w.session.linkTimer /\ Proves(w, s) /\ Proves(w, w.session)
  BY WorldFields DEF SessionStates, Proves
<1>3. g \in Gaps
  BY WorldFields DEF Gaps
<1>4. CASE ~w.session.active
  <2>1. u = Turn(w, w.session, w.gap, K("InvalidState"))
    BY <1>4 DEF Decrypt, Turn, Worlds
  <2>2. /\ K("InvalidState") \in Calls /\ K("InvalidState").err = "InvalidState"
        /\ K("InvalidState").new = w.call.new
        /\ K("InvalidState").procedure = w.call.procedure
    BY WorldFields DEF Calls, Errors
  <2> HIDE DEF K, u
  <2>3. Turned(w, u) /\ u.session = w.session /\ u.call = K("InvalidState")
    BY <1>2, <2>1, <2>2, WorldFields, TurnFields DEF Turned
  <2>4. Failed(u)
    BY <2>2, <2>3 DEF Failed
  <2> QED
    BY <1>4, <2>2, <2>3, <2>4 DEF u
<1>5. CASE w.session.active /\ Opens(w, seal)
  <2>1. u = Turn(w, w.session, g, w.call)
    BY <1>5 DEF Decrypt, Turn, Worlds
  <2> HIDE DEF u, g
  <2>2. /\ Turned(w, u) /\ u.session = w.session /\ u.call = w.call /\ u.gap = g
    BY <1>2, <1>3, <2>1, WorldFields, TurnFields DEF Turned
  <2>3. seal = "Next" /\ w.gap.in = 1 /\ ~Failed(u)
    BY <1>5, <2>2 DEF Opens, Failed
  <2> QED
    BY <1>5, <2>2, <2>3 DEF u, g
<1>6. CASE w.session.active /\ ~Opens(w, seal)
  <2>1. u = Turn(w, s, w.gap, K("InvalidData"))
    BY <1>6 DEF Decrypt, Turn, Worlds
  <2>2. /\ K("InvalidData") \in Calls /\ K("InvalidData").err = "InvalidData"
        /\ K("InvalidData").new = w.call.new
        /\ K("InvalidData").procedure = w.call.procedure
    BY WorldFields DEF Calls, Errors
  <2> HIDE DEF K, u, s
  <2>3. Turned(w, u) /\ u.session = s /\ u.call = K("InvalidData")
    BY <1>2, <2>1, <2>2, WorldFields, TurnFields DEF Turned
  <2>4. Failed(u)
    BY <2>2, <2>3 DEF Failed
  <2> QED
    BY <1>2, <1>6, <2>2, <2>3, <2>4 DEF u
<1> QED
  BY <1>4, <1>5, <1>6

LEMMA EncryptFields ==
    ASSUME NEW w \in Worlds, ~Failed(w)
    PROVE  LET u == Encrypt(w)
           IN /\ Turned(w, u) /\ u.session = w.session
              /\ u.call.procedure = w.call.procedure /\ u.call.new = w.call.new
              /\ Failed(u) = ~w.session.active
              /\ w.session.active =>
                     u.call = w.call /\ u.gap = [w.gap EXCEPT !.out = Wider(w.gap.out)]
<1> DEFINE u == Encrypt(w)
           g == [w.gap EXCEPT !.out = Wider(w.gap.out)]
           k == [w.call EXCEPT !.err = "InvalidState"]
<1>1. /\ k \in Calls /\ k.err = "InvalidState" /\ k.new = w.call.new
      /\ k.procedure = w.call.procedure
  BY WorldFields DEF Calls, Errors
<1>2. g \in Gaps
  BY WorldFields DEF Gaps, Wider
<1>0. Proves(w, w.session)
  BY DEF Proves
<1>3. CASE ~w.session.active
  <2>1. u = Turn(w, w.session, w.gap, k)
    BY <1>3 DEF Encrypt, Turn, Worlds
  <2> HIDE DEF k, u
  <2>2. Turned(w, u) /\ u.session = w.session /\ u.call = k
    BY <1>0, <1>1, <2>1, WorldFields, TurnFields DEF Turned
  <2>3. Failed(u) = TRUE
    BY <1>1, <2>2 DEF Failed
  <2> QED
    BY <1>1, <1>3, <2>2, <2>3 DEF u
<1>4. CASE w.session.active
  <2>1. u = Turn(w, w.session, g, w.call)
    BY <1>4 DEF Encrypt, Turn, Worlds
  <2> HIDE DEF u, g
  <2>2. Turned(w, u) /\ u.session = w.session /\ u.call = w.call /\ u.gap = g
    BY <1>0, <1>2, <2>1, WorldFields, TurnFields DEF Turned
  <2>3. Failed(u) = FALSE
    BY <2>2 DEF Failed
  <2>4. w.session.active = TRUE
    BY <1>4, WorldFields DEF SessionStates
  <2> QED
    BY <2>2, <2>3, <2>4 DEF u, g
<1> QED
  BY <1>3, <1>4, WorldFields DEF SessionStates

\* The session but for its timers.
SameSession(s, t) ==
    /\ t \in SessionStates /\ t.active = s.active /\ t.transient = s.transient
    /\ t.terminal = s.terminal

LEMMA DidSendFields ==
    ASSUME NEW w \in Worlds
    PROVE  LET u == DidSendGATTResponse(w)
           IN /\ Turned(w, u) /\ SameSession(w.session, u.session)
              /\ u.session.linkTimer = w.session.linkTimer
              /\ u.gap = w.gap /\ u.call = w.call
<1> DEFINE s == [w.session EXCEPT !.safe = FALSE]
<1>1. SameSession(w.session, s) /\ s.linkTimer = w.session.linkTimer /\ Proves(w, s)
  BY WorldFields DEF SessionStates, SameSession, Proves
<1>2. DidSendGATTResponse(w) = Turn(w, s, w.gap, w.call)
  BY DEF DidSendGATTResponse, Turn, Worlds
<1> HIDE DEF s
<1> QED
  BY <1>1, <1>2, WorldFields, TurnFields DEF Turned, SameSession

LEMMA DidStartFields ==
    ASSUME NEW w \in Worlds
    PROVE  LET u == DidStartBLEProcedure(w)
           IN /\ Turned(w, u) /\ SameSession(w.session, u.session)
              /\ ~w.session.terminal =>
                     u.session.linkTimer = IF IsSecured(w) THEN "On" ELSE "Off"
              /\ u.gap = w.gap /\ u.call = w.call
<1> DEFINE l == IF IsSecured(w) THEN "On" ELSE "Off"
           s == [w.session EXCEPT !.linkTimer = l]
<1>1. SameSession(w.session, s) /\ s.linkTimer = l /\ Proves(w, s)
  BY WorldFields DEF SessionStates, SameSession, Proves
<1>2. CASE w.session.terminal
  <2>1. DidStartBLEProcedure(w) = w
    BY <1>2 DEF DidStartBLEProcedure
  <2> QED
    BY <1>2, <2>1, WorldFields DEF Turned, SameSession, SameTalk, SameHouse, Proves
<1>3. CASE ~w.session.terminal
  <2>1. DidStartBLEProcedure(w) = Turn(w, s, w.gap, w.call)
    BY <1>3 DEF DidStartBLEProcedure, Turn, Worlds
  <2> HIDE DEF s
  <2> QED
    BY <1>1, <2>1, WorldFields, TurnFields DEF Turned, SameSession
<1> QED
  BY <1>2, <1>3

\* What a message of Pair Setup or Pair Verify does: it goes on, or a session is made.
Continued(w, u) ==
    /\ u.attr = w.attr /\ u.told = w.told /\ u.link = w.link /\ u.gap = w.gap
    /\ SameSession(w.session, u.session)
    /\ u.session.linkTimer = w.session.linkTimer \/ u.session.linkTimer = "On"
Started(w, u, x) ==
    /\ u.session.active /\ u.session.transient = (x = "PairSetup")
    /\ x = "PairVerify" /\ w.pairing.stored =>
           w.session.terminal \/ u.session.linkTimer = "On"
    /\ x = "PairVerify" => w.session.exchange[x] = 3 \/ w.pairing.stored
    /\ u.session.linkTimer = w.session.linkTimer \/ u.session.linkTimer = "On"
    /\ u.gap = InStep /\ u.told = w.told \cup Subscribed(w)
Exchanged(w, u, x) ==
    /\ u \in Worlds /\ SameTalk(w, u) /\ SameHouse(w, u) /\ IndicatedTo(w, u)
    /\ u.link.connected = w.link.connected /\ u.link.cancelled = w.link.cancelled
    /\ u.session.terminal = w.session.terminal
    /\ Continued(w, u) \/ Started(w, u, x)

LEMMA NoIndication ==
    ASSUME NEW w \in Worlds, NEW u \in Worlds, u.attr = w.attr
    PROVE  IndicatedTo(w, u)
BY DEF IndicatedTo

LEMMA ContinuedExchange ==
    ASSUME NEW w \in Worlds, NEW s, SameSession(w.session, s),
           s.linkTimer = w.session.linkTimer \/ s.linkTimer = "On", NEW k \in Calls, NEW x,
           Proves(w, s)
    PROVE  /\ Exchanged(w, Turn(w, s, w.gap, k), x) /\ Continued(w, Turn(w, s, w.gap, k))
           /\ Turn(w, s, w.gap, k).call = k
<1> DEFINE u == Turn(w, s, w.gap, k)
<1>1. s \in SessionStates /\ s.terminal = w.session.terminal
  BY DEF SameSession
<1>2. /\ u \in Worlds /\ SameTalk(w, u) /\ SameHouse(w, u)
      /\ u.attr = w.attr /\ u.told = w.told /\ u.link = w.link
      /\ u.session = s /\ u.gap = w.gap /\ u.call = k
  BY <1>1, WorldFields, TurnFields
<1> HIDE DEF u
<1>3. IndicatedTo(w, u)
  BY <1>2, NoIndication
<1>4. Continued(w, u) /\ u.call = k
  BY <1>2 DEF Continued
<1>5. Exchanged(w, u, x)
  BY <1>1, <1>2, <1>3, <1>4 DEF Exchanged
<1> QED
  BY <1>4, <1>5 DEF u

\* The session once a message of exchange x has come or gone.
Stepped(w, x, n) ==
    [w.session EXCEPT !.exchange = [w.session.exchange EXCEPT ![x] = n],
        !.pairingTimer = IF x = "PairVerify" /\ w.session.exchange[x] # 0
                         THEN w.session.pairingTimer \/ ~w.session.terminal
                         ELSE w.session.pairingTimer]

LEMMA SteppedSession ==
    ASSUME NEW w \in Worlds, NEW x \in Exchanges, NEW n \in 0 .. 4
    PROVE  /\ SameSession(w.session, Stepped(w, x, n))
           /\ Stepped(w, x, n).linkTimer = w.session.linkTimer
           /\ Stepped(w, x, n).exchange[x] = n
           /\ [StartsIfRunning(w, x) EXCEPT !.session.exchange[x] = n]
                  = Turn(w, Stepped(w, x, n), w.gap, w.call)
           /\ StartsIfRunning(w, x).session.terminal = w.session.terminal
           /\ (x = "PairVerify" /\ n = 3 => w.pairing.stored) => Proves(w, Stepped(w, x, n))
<1> DEFINE e == [w.session.exchange EXCEPT ![x] = n]
           p == IF x = "PairVerify" /\ w.session.exchange[x] # 0
                THEN w.session.pairingTimer \/ ~w.session.terminal
                ELSE w.session.pairingTimer
           v == StartsIfRunning(w, x)
           q == [w.session EXCEPT !.pairingTimer = p]
<1>1. e \in [Exchanges -> 0 .. 4] /\ e[x] = n
      /\ \A y \in Exchanges \ {x} : e[y] = w.session.exchange[y]
  BY WorldFields DEF SessionStates
<1>2. p \in BOOLEAN
  BY WorldFields DEF SessionStates
<1>3. v = [w EXCEPT !.session = q]
  BY WorldFields DEF StartsIfRunning, DidStartPairingProcedure, Worlds, SessionStates
<1>4. Stepped(w, x, n) = [w.session EXCEPT !.exchange = e, !.pairingTimer = p]
  BY DEF Stepped
<1>5. /\ q.terminal = w.session.terminal /\ q.exchange = w.session.exchange
      /\ [q EXCEPT !.exchange = e] = [w.session EXCEPT !.exchange = e, !.pairingTimer = p]
  <2> HIDE DEF p, e
  <2> QED
    BY WorldFields DEF SessionStates
<1> HIDE DEF p, q
<1>6. v.session = q /\ v.session.terminal = w.session.terminal
  BY <1>3, <1>5 DEF Worlds
<1>7. [v EXCEPT !.session.exchange[x] = n] = [v EXCEPT !.session = [q EXCEPT !.exchange = e]]
  <2> HIDE DEF v
  <2> QED
    BY <1>5, <1>6
<1>8. [v EXCEPT !.session = [q EXCEPT !.exchange = e]]
          = Turn(w, [q EXCEPT !.exchange = e], w.gap, w.call)
  <2> HIDE DEF e
  <2> QED
    BY <1>3 DEF Turn, Worlds
<1>9. [v EXCEPT !.session.exchange[x] = n] = Turn(w, Stepped(w, x, n), w.gap, w.call)
  BY <1>4, <1>5, <1>7, <1>8
<1> HIDE DEF e
<1>10. SameSession(w.session, Stepped(w, x, n))
       /\ Stepped(w, x, n).linkTimer = w.session.linkTimer
       /\ Stepped(w, x, n).exchange = e
  BY <1>1, <1>2, <1>4, WorldFields DEF SameSession, SessionStates
<1>11. (x = "PairVerify" /\ n = 3 => w.pairing.stored) => Proves(w, Stepped(w, x, n))
  BY <1>1, <1>10 DEF Proves, Exchanges
<1> QED
  BY <1>1, <1>6, <1>9, <1>10, <1>11

LEMMA ExchangeWrite ==
    ASSUME NEW w \in Worlds, NEW x \in Exchanges, NEW message, NEW proven
    PROVE  /\ Exchanged(w, HandleExchangeWrite(w, x, message, proven), x)
           /\ Continued(w, HandleExchangeWrite(w, x, message, proven))
<1> DEFINE a == x = "PairVerify" => proven /\ w.pairing.stored
           n == CASE message = "M1" -> 1
                  [] message = "M3" /\ w.session.exchange[x] = 2 ->
                         IF a THEN 3 ELSE ErrorPending
                  [] OTHER -> 0
           e == IF n = 0 THEN "InvalidData" ELSE "None"
           k == [w.call EXCEPT !.err = e]
           v == [StartsIfRunning(w, x) EXCEPT !.session.exchange[x] = n]
           u == HandleExchangeWrite(w, x, message, proven)
<1>1. n \in 0 .. 4 /\ (x = "PairVerify" /\ n = 3 => w.pairing.stored)
  BY DEF ErrorPending
<1>2. k \in Calls
  BY WorldFields DEF Calls, Errors
<1> HIDE DEF n, a
<1>3. v = Turn(w, Stepped(w, x, n), w.gap, w.call)
  BY ZenonT(40), <1>1, SteppedSession
<1>4. u = [v EXCEPT !.call.err = e]
  BY DEF HandleExchangeWrite, n, a
<1>5. u = Turn(w, Stepped(w, x, n), w.gap, k)
  <2> HIDE DEF v, u, e
  <2> QED
    BY <1>3, <1>4 DEF Turn, Worlds
<1> HIDE DEF u, k
<1>6. SameSession(w.session, Stepped(w, x, n))
      /\ Stepped(w, x, n).linkTimer = w.session.linkTimer
      /\ Proves(w, Stepped(w, x, n))
  BY <1>1, SteppedSession
<1>7. Exchanged(w, u, x) /\ Continued(w, u)
  BY <1>2, <1>5, <1>6, ContinuedExchange
<1> QED
  BY <1>7 DEF u

LEMMA DidCompleteContinues ==
    ASSUME NEW w \in Worlds, NEW s \in SessionStates, NEW g \in Gaps, NEW k \in Calls,
           NEW x \in Exchanges, NEW v, v = Turn(w, s, g, k)
    PROVE  LET u == Completes(v, x)
           IN \E t : /\ SameSession(s, t) /\ t.exchange = s.exchange /\ u = Turn(w, t, g, k)
                     /\ t.linkTimer = IF ~s.terminal /\ x = "PairVerify" /\ IsSecured(v)
                                      THEN "On" ELSE s.linkTimer
<1> DEFINE u == Completes(v, x)
           l == IF x = "PairVerify" /\ IsSecured(v) THEN "On" ELSE s.linkTimer
           t == [s EXCEPT !.pairingTimer = FALSE, !.linkTimer = l]
<1>1. v.session = s
  BY DEF Turn, Worlds
<1>2. SameSession(s, t) /\ t.linkTimer = l /\ SameSession(s, s) /\ t.exchange = s.exchange
  BY DEF SameSession, SessionStates
<1>3. CASE s.terminal \/ x # "PairVerify"
  BY <1>1, <1>2, <1>3 DEF Completes, DidCompletePairingProcedure
<1>4. CASE ~s.terminal /\ x = "PairVerify"
  <2>1. u = [v EXCEPT !.session = t]
    BY <1>1, <1>4 DEF Completes, DidCompletePairingProcedure, Turn, Worlds, SessionStates
  <2> HIDE DEF t
  <2>2. u = Turn(w, t, g, k)
    BY <2>1 DEF Turn, Worlds
  <2> QED
    BY <1>2, <1>4, <2>2
<1> QED
  BY <1>3, <1>4

\* The session that the last message of an exchange makes.
LEMMA StartSessionFields ==
    ASSUME NEW w \in Worlds, NEW x \in Exchanges, ~Failed(w), w.session.exchange[x] = 3
    PROVE  Exchanged(w, Completes(StartSession(StartsIfRunning(w, x), x), x), x)
           /\ Started(w, Completes(StartSession(StartsIfRunning(w, x), x), x), x)
<1> DEFINE p == Stepped(w, x, 0)
           s == [p EXCEPT !.active = TRUE, !.transient = x = "PairSetup"]
           v == Turn(w, s, InStep, w.call)
           o == w.told \cup Subscribed(w)
           y == [v EXCEPT !.told = o]
           z == SendPendingEventNotifications(y)
           u == Completes(z, x)
           r == StartsIfRunning(w, x)
<1>1. /\ SameSession(w.session, p) /\ p.linkTimer = w.session.linkTimer /\ Proves(w, p)
      /\ [r EXCEPT !.session.exchange[x] = 0] = Turn(w, p, w.gap, w.call)
  <2> DEFINE n == 0
  <2>1. n \in 0 .. 4 /\ ~(x = "PairVerify" /\ n = 3)
    OBVIOUS
  <2> HIDE DEF n
  <2>2. /\ SameSession(w.session, Stepped(w, x, n)) /\ Proves(w, Stepped(w, x, n))
        /\ Stepped(w, x, n).linkTimer = w.session.linkTimer
        /\ [r EXCEPT !.session.exchange[x] = n] = Turn(w, Stepped(w, x, n), w.gap, w.call)
    BY ZenonT(40), <2>1, SteppedSession
  <2> QED
    BY <2>2 DEF n
<1> HIDE DEF p
<1>2. /\ s \in SessionStates /\ s.active /\ s.transient = (x = "PairSetup")
      /\ s.terminal = w.session.terminal /\ s.linkTimer = w.session.linkTimer
      /\ s.exchange = p.exchange /\ Proves(w, s)
  BY <1>1 DEF SameSession, SessionStates, Proves
<1>3. InStep \in Gaps
  BY DEF InStep, Gaps
<1>4. /\ v \in Worlds /\ SameTalk(w, v) /\ SameHouse(w, v)
      /\ v.attr = w.attr /\ v.told = w.told /\ v.link = w.link
      /\ v.session = s /\ v.gap = InStep /\ v.call = w.call
  <2> HIDE DEF s
  <2> QED
    BY <1>2, <1>3, WorldFields, TurnFields
<1>5. [r EXCEPT !.session.active = TRUE, !.session.transient = x = "PairSetup",
                !.session.exchange[x] = 0, !.gap = InStep] = v
  <2> DEFINE a == [r EXCEPT !.session.exchange[x] = 0]
  <2>1. \E q \in SessionStates : r = [w EXCEPT !.session = q]
    <3>1. [w.session EXCEPT !.pairingTimer = @ \/ ~w.session.terminal] \in SessionStates
      BY WorldFields DEF SessionStates
    <3>2. w = [w EXCEPT !.session = w.session]
      BY DEF Worlds
    <3>3. DidStartPairingProcedure(w)
              = [w EXCEPT !.session = [w.session EXCEPT !.pairingTimer = @ \/ ~w.session.terminal]]
      BY DEF DidStartPairingProcedure
    <3> QED
      BY <3>1, <3>2, <3>3, WorldFields DEF StartsIfRunning
  <2>2. PICK q \in SessionStates : r = [w EXCEPT !.session = q]
    BY <2>1
  <2>3. r.session = q /\ a = [w EXCEPT !.session = [q EXCEPT !.exchange[x] = 0]]
    BY <2>2 DEF Worlds
  <2>4. p = [q EXCEPT !.exchange[x] = 0]
    <3>1. Turn(w, p, w.gap, w.call).session = p
      BY DEF Turn, Worlds
    <3>2. [w EXCEPT !.session = [q EXCEPT !.exchange[x] = 0]].session
              = [q EXCEPT !.exchange[x] = 0]
      BY DEF Worlds
    <3> QED
      BY <1>1, <2>3, <3>1, <3>2
  <2>5. [q EXCEPT !.active = TRUE, !.transient = x = "PairSetup", !.exchange[x] = 0] = s
    BY <2>4 DEF SessionStates
  <2>7. r \in Worlds
    BY <2>2 DEF Worlds
  <2> HIDE DEF s, v, r
  <2>6. [r EXCEPT !.session.active = TRUE, !.session.transient = x = "PairSetup",
                !.session.exchange[x] = 0, !.gap = InStep]
            = [r EXCEPT !.session = [q EXCEPT !.active = TRUE, !.transient = x = "PairSetup",
                                              !.exchange[x] = 0], !.gap = InStep]
    <3> DEFINE r1 == [r EXCEPT !.session = [q EXCEPT !.active = TRUE]]
               r2 == [r EXCEPT !.session = [q EXCEPT !.active = TRUE,
                                                     !.transient = x = "PairSetup"]]
    <3>1. [r EXCEPT !.session.active = TRUE] = r1 /\ r1.session = [q EXCEPT !.active = TRUE]
      BY <2>3, <2>7 DEF Worlds
    <3>2. /\ [r1 EXCEPT !.session.transient = x = "PairSetup"] = r2
          /\ r2.session = [q EXCEPT !.active = TRUE, !.transient = x = "PairSetup"]
      BY <2>3, <2>7 DEF Worlds
    <3>3. [r2 EXCEPT !.session.exchange[x] = 0, !.gap = InStep]
              = [r EXCEPT !.session = [q EXCEPT !.active = TRUE, !.transient = x = "PairSetup",
                                                !.exchange[x] = 0], !.gap = InStep]
      <4> DEFINE a2 == [q EXCEPT !.active = TRUE, !.transient = x = "PairSetup"]
                 a3 == [a2 EXCEPT !.exchange[x] = 0]
      <4>1. a3 = [q EXCEPT !.active = TRUE, !.transient = x = "PairSetup", !.exchange[x] = 0]
        OBVIOUS
      <4>2. r2 = [r EXCEPT !.session = a2] /\ r2.session = a2
        BY <3>2
      <4> HIDE DEF a2, r2
      <4>3. [r2 EXCEPT !.session.exchange[x] = 0] = [r EXCEPT !.session = a3]
        BY <2>7, <4>2 DEF Worlds
      <4>4. [r2 EXCEPT !.session.exchange[x] = 0, !.gap = InStep]
                = [r EXCEPT !.session = a3, !.gap = InStep]
        BY <4>3
      <4> QED
        BY <4>1, <4>4
    <3>4. [r EXCEPT !.session.active = TRUE, !.session.transient = x = "PairSetup",
                    !.session.exchange[x] = 0, !.gap = InStep]
              = [r2 EXCEPT !.session.exchange[x] = 0, !.gap = InStep]
      BY <3>1, <3>2
    <3> QED
      BY <3>3, <3>4
  <2>8. [r EXCEPT !.session = s, !.gap = InStep] = v
    BY <2>2 DEF Turn, Worlds, v
  <2> QED
    BY <2>5, <2>6, <2>8
<1>6. StartSession(r, x) = z
  <2>1. Subscribed(v) = Subscribed(w)
    BY <1>4 DEF Subscribed
  <2> HIDE DEF v, z, r
  <2>2. StartSession(r, x) = HandleSessionAccept(v)
    BY <1>5 DEF StartSession
  <2> QED
    BY <1>4, <2>1, <2>2 DEF HandleSessionAccept, z
<1> HIDE DEF v, s
<1>7. /\ y \in Worlds /\ y.session = s /\ y.gap = InStep /\ y.call = w.call
      /\ y.attr = w.attr /\ y.told = o /\ y.link = w.link
      /\ y.proc = w.proc /\ y.value = w.value /\ y.running = w.running
      /\ y.pairing = w.pairing
  <2>1. o \in SUBSET Chars
    BY WorldFields DEF Subscribed
  <2> HIDE DEF o
  <2> QED
    BY <1>4, <2>1 DEF Worlds, SameTalk, SameHouse
<1> HIDE DEF y
<1>8. Indicated(y, z)
  BY <1>7, SendPendingFields
<1>9. /\ z \in Worlds /\ z.session = s /\ z.pairing = w.pairing
  BY <1>7, <1>8 DEF Indicated, SameHouse
<1>10. w.pairing.stored => IsSecured(z)
  BY <1>2, <1>9 DEF IsSecured
<1> HIDE DEF z
<1>11. z = Turn(z, s, InStep, w.call)
  BY <1>7, <1>8, <1>9 DEF Turn, Worlds, Indicated
<1>12. PICK t : /\ SameSession(s, t) /\ t.exchange = s.exchange
                /\ u = Turn(z, t, InStep, w.call)
                /\ t.linkTimer = IF ~s.terminal /\ x = "PairVerify" /\ IsSecured(z)
                                 THEN "On" ELSE s.linkTimer
  BY <1>2, <1>3, <1>9, <1>11, WorldFields, DidCompleteContinues
<1>13. /\ u \in Worlds /\ SameTalk(z, u) /\ SameHouse(z, u)
       /\ u.attr = z.attr /\ u.told = z.told /\ u.link = z.link
       /\ u.session = t /\ u.gap = InStep /\ u.call = w.call
  <2>1. Proves(z, t)
    BY <1>9, <1>12 DEF Proves
  <2> QED
    BY <1>3, <1>9, <1>12, <2>1, WorldFields, TurnFields DEF SameSession
<1> HIDE DEF u
<1>14. IndicatedTo(w, u)
  BY <1>7, <1>8, <1>13 DEF Indicated, IndicatedTo
<1>15. SameTalk(w, u) /\ SameHouse(w, u)
  <2>1. Proves(w, u.session)
    BY <1>2, <1>12, <1>13 DEF Proves
  <2> QED
    BY <1>7, <1>8, <1>13, <2>1 DEF Indicated, SameTalk, SameHouse
<1>16. /\ u.link.connected = w.link.connected /\ u.link.cancelled = w.link.cancelled
       /\ u.session.terminal = w.session.terminal
  BY <1>2, <1>7, <1>8, <1>12, <1>13 DEF Indicated, SameSession
<1>17. u.session.active /\ u.session.transient = (x = "PairSetup")
  BY <1>2, <1>12, <1>13 DEF SameSession
<1>18. x = "PairVerify" /\ w.pairing.stored =>
           w.session.terminal \/ u.session.linkTimer = "On"
  BY <1>2, <1>10, <1>12, <1>13
<1>19. u.told = o
  BY <1>7, <1>8, <1>13 DEF Indicated
<1>22. u.session.linkTimer = w.session.linkTimer \/ u.session.linkTimer = "On"
  BY <1>2, <1>12, <1>13
<1>20. Started(w, u, x)
  BY <1>13, <1>17, <1>18, <1>19, <1>22 DEF Started
<1>21. Exchanged(w, u, x)
  BY <1>13, <1>14, <1>15, <1>16, <1>20 DEF Exchanged
<1> QED
  BY <1>6, <1>20, <1>21 DEF u

LEMMA ExchangeRead ==
    ASSUME NEW w \in Worlds, NEW x \in Exchanges, ~Failed(w), NEW proven \in BOOLEAN
    PROVE  Exchanged(w, HandleExchangeRead(w, x, proven), x)
<1> DEFINE state == w.session.exchange[x]
           r == StartsIfRunning(w, x)
           refused == \/ state = ErrorPending
                      \/ x = "PairSetup" /\ state = 1 /\ w.pairing.stored
                      \/ x = "PairSetup" /\ state = 3 /\ ~proven
           u == HandleExchangeRead(w, x, proven)
           zero == 0
           over == [r EXCEPT !.session.exchange[x] = zero]
           k == [w.call EXCEPT !.err = "InvalidState"]
<1>1. /\ refused \in BOOLEAN /\ w.call \in Calls /\ k \in Calls
      /\ w.gap \in Gaps
  BY WorldFields DEF Pairings, Calls, Errors
<1>2. zero \in 0 .. 4 /\ zero # 3
  OBVIOUS
<1>3. \A n \in 0 .. 4 : /\ SameSession(w.session, Stepped(w, x, n))
                        /\ Stepped(w, x, n).linkTimer = w.session.linkTimer
                        /\ n # 3 => Proves(w, Stepped(w, x, n))
  BY SteppedSession
<1> HIDE DEF zero
<1>4. over = Turn(w, Stepped(w, x, zero), w.gap, w.call)
  BY ZenonT(40), <1>2, SteppedSession
<1>5. CASE state = 1 /\ ~refused
  <2> DEFINE n == 2
  <2>1. n \in 0 .. 4 /\ n # 3
    OBVIOUS
  <2>2. u = [r EXCEPT !.session.exchange[x] = n]
    BY <1>5 DEF HandleExchangeRead
  <2> HIDE DEF n
  <2>3. u = Turn(w, Stepped(w, x, n), w.gap, w.call)
    BY ZenonT(40), <2>1, <2>2, SteppedSession
  <2> HIDE DEF u
  <2>4. Exchanged(w, u, x)
    BY <1>1, <1>3, <2>1, <2>3, ContinuedExchange
  <2> QED
    BY <2>4 DEF u
<1>6. CASE state = 3 /\ ~refused
  <2>1. u = Completes(StartSession(r, x), x)
    BY <1>6 DEF HandleExchangeRead
  <2> QED
    BY <1>6, <2>1, StartSessionFields
<1>7. CASE refused
  <2>1. u = Completes(over, x)
    BY <1>7 DEF HandleExchangeRead, zero
  <2>2. Stepped(w, x, zero) \in SessionStates
    BY <1>2, <1>3 DEF SameSession
  <2> HIDE DEF over, u, k
  <2>3. PICK t : /\ SameSession(Stepped(w, x, zero), t)
                 /\ t.exchange = Stepped(w, x, zero).exchange /\ u = Turn(w, t, w.gap, w.call)
                 /\ t.linkTimer = IF /\ ~Stepped(w, x, zero).terminal /\ x = "PairVerify"
                                     /\ IsSecured(over)
                                  THEN "On" ELSE Stepped(w, x, zero).linkTimer
    BY <1>1, <1>4, <2>1, <2>2, DidCompleteContinues
  <2>4. /\ SameSession(w.session, t) /\ Proves(w, t)
        /\ t.linkTimer = w.session.linkTimer \/ t.linkTimer = "On"
    BY <1>2, <1>3, <2>3 DEF SameSession, Proves
  <2>5. Exchanged(w, u, x)
    BY <1>1, <2>3, <2>4, ContinuedExchange
  <2> QED
    BY <2>5 DEF u
<1>8. CASE ~refused /\ ~(state = 1 \/ state = 3)
  <2>1. u = [over EXCEPT !.call.err = "InvalidState"]
    BY <1>8 DEF HandleExchangeRead, zero
  <2>2. u = Turn(w, Stepped(w, x, zero), w.gap, k)
    <3> HIDE DEF over, u
    <3> QED
      BY <1>4, <2>1 DEF Turn, Worlds
  <2> HIDE DEF u, k
  <2>3. Exchanged(w, u, x)
    BY <1>1, <1>2, <1>3, <2>2, ContinuedExchange
  <2> QED
    BY <2>3 DEF u
<1> QED
  BY <1>5, <1>6, <1>7, <1>8

-----------------------------------------------------------------------------
(* Transactions.                                                           *)

LEMMA NoneTypes ==
    /\ NoHeader \in Headers /\ NoAnswer \in Answers /\ NoAnswer.total = 0
    /\ <<>> \in Bodies
BY DEF NoHeader, NoAnswer, Headers, Answers, Words, Statuses, Bodies

LEMMA TxnFields ==
    ASSUME NEW t \in Txns
    PROVE  /\ t.state \in TxnStates /\ t.max \in Nat /\ t.header \in Headers
           /\ t.memory \in Bodies /\ t.offset \in Nat /\ t.response \in Answers
           /\ t.err \in Errors /\ t.header.total \in Nat /\ t.header.tid \in Nat
           /\ t.response.tid \in Nat /\ t.response.total \in Nat /\ Len(t.memory) \in Nat
BY DEF Txns, Headers, Answers, Bodies

LEMMA NewTransactionFields ==
    ASSUME NEW m \in Bodies, NEW n \in Nat
    PROVE  /\ NewTransaction(m, n) \in Txns
           /\ NewTransaction(m, n).state = "WaitingForInitialWrite"
           /\ TransactionSound(NewTransaction(m, n)) /\ NewTransaction(m, n).max = n
           /\ NewTransaction(m, n).response.total = 0 /\ NewTransaction(m, n).memory = m
<1> DEFINE t == NewTransaction(m, n)
<1>1. /\ t.state = "WaitingForInitialWrite" /\ t.max = n /\ t.header = NoHeader
      /\ t.memory = m /\ t.offset = 0 /\ t.response = NoAnswer /\ t.err = "None"
  BY DEF NewTransaction
<1>2. t \in Txns
  BY NoneTypes DEF NewTransaction, Txns, TxnStates, Errors
<1> HIDE DEF t
<1>3. TransactionSound(t)
  BY <1>1, NoneTypes DEF TransactionSound
<1> QED
  BY <1>1, <1>2, <1>3, NoneTypes DEF t

LEMMA SetResponseFields ==
    ASSUME NEW t \in Txns, NEW status \in Statuses, NEW total \in Nat
    PROVE  LET r == SetResponse(t, status, total)
           IN /\ r \in Txns /\ TransactionSound(r) /\ r.state = "WaitingForInitialRead"
              /\ r.response.tid = t.header.tid /\ r.response.total = total
              /\ r.response.status = status /\ r.memory = t.memory
<1> DEFINE r == SetResponse(t, status, total)
           a == [tid |-> t.header.tid, status |-> status, total |-> total]
<1>1. a \in Answers /\ a.tid = t.header.tid /\ a.status = status /\ a.total = total
  BY TxnFields DEF Answers
<1> HIDE DEF a
<1>2. NewTransaction(t.memory, t.max) \in Txns
  BY TxnFields, NewTransactionFields
<1>3. r = [NewTransaction(t.memory, t.max) EXCEPT !.state = "WaitingForInitialRead",
                                                  !.response = a]
  BY DEF SetResponse, a
<1>4. /\ r \in Txns /\ r.response = a /\ r.state = "WaitingForInitialRead"
      /\ r.offset = 0 /\ r.err = "None" /\ r.memory = t.memory
  BY <1>1, <1>2, <1>3 DEF Txns, TxnStates, NewTransaction
<1> HIDE DEF r
<1>5. TransactionSound(r)
  BY <1>4 DEF TransactionSound, Responding
<1> QED
  BY <1>1, <1>4, <1>5 DEF r

LEMMA MessageFields ==
    ASSUME NEW m \in Messages
    PROVE  /\ m.kind = "First" =>
                  m.header \in Headers /\ m.chunk \in Bodies /\ Len(m.chunk) \in Nat
           /\ m.kind = "Continuation" =>
                  m.tid \in Nat /\ m.chunk \in Bodies /\ Len(m.chunk) \in Nat
<1>1. CASE m \in [kind : {"First"}, header : Headers, chunk : Bodies]
  BY <1>1 DEF Bodies
<1>2. CASE m \in [kind : {"Continuation"}, tid : Nat, chunk : Bodies]
  BY <1>2 DEF Bodies
<1>3. CASE m = Malformed
  BY <1>3 DEF Malformed
<1> QED
  BY <1>1, <1>2, <1>3 DEF Messages

\* What is written over a part of the buffer follows what stays before it.
LEMMA OverwriteFields ==
    ASSUME NEW m \in Bodies, NEW o \in Nat, o <= Len(m), NEW c \in Bodies
    PROVE  LET r == Overwrite(m, o, c)
           IN /\ r \in Bodies /\ o + Len(c) <= Len(r)
              /\ SubSeq(r, 1, o + Len(c)) = SubSeq(m, 1, o) \o c
              /\ c = <<>> => r = m
<1> DEFINE n == Len(m)
           k == Len(c)
           a == SubSeq(m, 1, o)
           z == SubSeq(m, o + k + 1, n)
           ac == a \o c
           r == ac \o z
<1>1. m \in Seq(Words) /\ c \in Seq(Words) /\ n \in Nat /\ k \in Nat
  BY DEF Bodies
<1>2. \A i \in 1 .. n : m[i] \in Words
  BY <1>1, ElementOfSeq
<1>3. a \in Seq(Words) /\ Len(a) = o /\ \A i \in 1 .. o : a[i] = m[i]
  <2>1. \A i \in 1 .. o : m[i] \in Words
    BY <1>1, <1>2
  <2> HIDE DEF n, k
  <2>2. /\ SubSeq(m, 1, o) \in Seq(Words)
        /\ Len(SubSeq(m, 1, o)) = IF 1 <= o THEN o - 1 + 1 ELSE 0
        /\ \A i \in 1 .. o - 1 + 1 : SubSeq(m, 1, o)[i] = m[1 + i - 1]
    BY <2>1, SubSeqProperties
  <2> HIDE DEF a
  <2> QED
    BY <2>2 DEF a
<1>4. z \in Seq(Words) /\ Len(z) \in Nat
      /\ \A i \in 1 .. n - (o + k + 1) + 1 : z[i] = m[o + k + i]
  <2>1. \A i \in o + k + 1 .. n : m[i] \in Words
    BY <1>1, <1>2
  <2> HIDE DEF n, k
  <2>2. o + k + 1 \in Int /\ n \in Int
    BY <1>1
  <2>3. /\ SubSeq(m, o + k + 1, n) \in Seq(Words)
        /\ Len(SubSeq(m, o + k + 1, n)) = IF o + k + 1 <= n THEN n - (o + k + 1) + 1 ELSE 0
        /\ \A i \in 1 .. n - (o + k + 1) + 1 : SubSeq(m, o + k + 1, n)[i] = m[o + k + 1 + i - 1]
    BY <2>1, <2>2, SubSeqProperties
  <2>4. \A i \in 1 .. n - (o + k + 1) + 1 : o + k + 1 + i - 1 = o + k + i
    BY <1>1, <2>2
  <2> HIDE DEF z
  <2> QED
    BY <2>2, <2>3, <2>4 DEF z
<1> HIDE DEF a, z
<1>5. ac \in Seq(Words) /\ Len(ac) = o + k
      /\ \A i \in 1 .. o + k : ac[i] = IF i <= o THEN a[i] ELSE c[i - o]
  BY <1>1, <1>3, ConcatProperties
<1> HIDE DEF ac
<1>6. r \in Seq(Words) /\ Len(r) = o + k + Len(z)
      /\ \A i \in 1 .. o + k : r[i] = ac[i]
  <2> HIDE DEF k, n
  <2>1. /\ ac \o z \in Seq(Words) /\ Len(ac \o z) = Len(ac) + Len(z)
        /\ \A i \in 1 .. Len(ac) + Len(z) :
               (ac \o z)[i] = IF i <= Len(ac) THEN ac[i] ELSE z[i - Len(ac)]
    BY <1>4, <1>5, ConcatProperties
  <2>2. \A i \in 1 .. o + k : i \in 1 .. Len(ac) + Len(z) /\ i <= Len(ac)
    BY <1>1, <1>4, <1>5
  <2> QED
    BY <1>5, <2>1, <2>2
<1> HIDE DEF r
<1>7. Overwrite(m, o, c) = r
  BY DEF Overwrite, r, ac, a, z
<1>8. SubSeq(r, 1, o + k) = ac
  <2> HIDE DEF n, k
  <2>1. \A i \in 1 .. o + k : r[i] \in Words
    BY <1>1, <1>4, <1>6, ElementOfSeq
  <2>2. /\ SubSeq(r, 1, o + k) \in Seq(Words)
        /\ Len(SubSeq(r, 1, o + k)) = IF 1 <= o + k THEN o + k - 1 + 1 ELSE 0
        /\ \A i \in 1 .. o + k - 1 + 1 : SubSeq(r, 1, o + k)[i] = r[1 + i - 1]
    BY <1>1, <2>1, SubSeqProperties
  <2>3. Len(SubSeq(r, 1, o + k)) = Len(ac)
        /\ \A i \in 1 .. o + k : SubSeq(r, 1, o + k)[i] = ac[i]
    BY <1>1, <1>5, <1>6, <2>2
  <2> QED
    BY <1>5, <2>2, <2>3, SeqEqual
<1>9. ASSUME c = <<>>
      PROVE  r = m
  <2>1. k = 0
    BY <1>9
  <2>2. a \o c = a
    BY <1>3, <1>9, ConcatEmptySeq
  <2>3. ac = a
    BY <2>2 DEF ac
  <2>4. Len(z) = n - o
    <3>1. z = SubSeq(m, o + 1, n)
      BY <2>1 DEF z
    <3> HIDE DEF n
    <3>2. \A i \in o + 1 .. n : m[i] \in Words
      BY <1>1, <1>2
    <3>3. Len(SubSeq(m, o + 1, n)) = IF o + 1 <= n THEN n - (o + 1) + 1 ELSE 0
      BY <1>1, <3>2, SubSeqProperties
    <3>4. o <= n
      BY DEF n
    <3> QED
      BY <1>1, <3>1, <3>3, <3>4
  <2>5. \A i \in 1 .. o + Len(z) : r[i] = IF i <= o THEN ac[i] ELSE z[i - o]
    BY <1>1, <1>4, <1>5, <2>1, ConcatProperties DEF r
  <2>6. \A i \in 1 .. n : r[i] = m[i]
    <3> SUFFICES ASSUME NEW i \in 1 .. n
                 PROVE  r[i] = m[i]
      OBVIOUS
    <3> HIDE DEF n, k
    <3>1. CASE i <= o
      BY <1>1, <1>3, <2>3, <2>4, <2>5, <3>1
    <3>2. CASE i > o
      <4>1. r[i] = z[i - o]
        BY <1>1, <2>4, <2>5, <3>2
      <4>2. z[i - o] = m[o + k + (i - o)]
        BY <1>1, <1>4, <2>1, <3>2
      <4>3. o + k + (i - o) = i
        BY <1>1, <2>1
      <4> QED
        BY <4>1, <4>2, <4>3
    <3> QED
      BY <1>1, <3>1, <3>2
  <2>7. Len(r) = Len(m)
    BY <1>1, <1>6, <2>1, <2>4
  <2> QED
    BY <1>1, <1>6, <2>6, <2>7, SeqEqual
<1>10. o + k <= Len(r)
  BY <1>1, <1>4, <1>6
<1> QED
  BY <1>6, <1>7, <1>8, <1>9, <1>10 DEF a, ac, Bodies

\* A fragment is added, and kept unless the body cannot fit.
LEMMA AppendFields ==
    ASSUME NEW t \in Txns, NEW chunk \in Bodies,
           t.header.total <= t.max => t.offset <= Len(t.memory)
    PROVE  LET r == TryAppendBodyFragment(t, chunk)
           IN /\ r \in Txns /\ r.state = t.state /\ r.max = t.max /\ r.header = t.header
              /\ r.response = t.response /\ r.err = t.err
              /\ r.offset = t.offset + Len(chunk)
              /\ r.memory = IF t.header.total > t.max THEN t.memory
                            ELSE Overwrite(t.memory, t.offset, chunk)
              /\ t.header.total <= t.max => r.offset <= Len(r.memory)
<1>1. Len(chunk) \in Nat
  BY DEF Bodies
<1>2. t.offset + Len(chunk) \in Nat
  BY <1>1, TxnFields
<1> DEFINE o == t.offset + Len(chunk)
           b == IF t.header.total > t.max THEN t.memory ELSE Overwrite(t.memory, t.offset, chunk)
<1>3. b \in Bodies /\ (t.header.total <= t.max => o <= Len(b))
  <2>1. CASE t.header.total > t.max
    BY <2>1, TxnFields
  <2>2. CASE ~(t.header.total > t.max)
    <3>1. t.header.total <= t.max
      BY <2>2, TxnFields
    <3>2. /\ Overwrite(t.memory, t.offset, chunk) \in Bodies
          /\ t.offset + Len(chunk) <= Len(Overwrite(t.memory, t.offset, chunk))
      BY <3>1, TxnFields, OverwriteFields
    <3> QED
      BY <2>2, <3>2
  <2> QED
    BY <2>1, <2>2
<1>4. TryAppendBodyFragment(t, chunk) = [t EXCEPT !.memory = b, !.offset = o]
  BY DEF TryAppendBodyFragment, Txns
<1> HIDE DEF o, b
<1>5. LET r == TryAppendBodyFragment(t, chunk)
      IN /\ r \in Txns /\ r.state = t.state /\ r.max = t.max /\ r.header = t.header
         /\ r.response = t.response /\ r.err = t.err /\ r.offset = o /\ r.memory = b
  <2>1. o \in Nat
    BY <1>2 DEF o
  <2> QED
    BY <1>3, <1>4, <2>1 DEF Txns
<1> QED
  BY <1>3, <1>5 DEF o, b

\* How a transaction takes a fragment without an error.
Took(t, m, r) ==
    \/ /\ t.state = "WaitingForInitialWrite" /\ m.kind = "First" /\ r.state = "ReadingRequest"
       /\ r.header = m.header /\ r.max = t.max /\ r.response = t.response
       /\ r.offset = Len(m.chunk)
       /\ r.memory = IF m.header.total > t.max THEN t.memory
                     ELSE Overwrite(t.memory, 0, m.chunk)
    \/ /\ t.state = "ReadingRequest" /\ m.kind = "Continuation" /\ r.state = "ReadingRequest"
       /\ m.tid = t.header.tid
       /\ r.header = t.header /\ r.max = t.max /\ r.response = t.response
       /\ r.offset = t.offset + Len(m.chunk)
       /\ r.memory = IF t.header.total > t.max THEN t.memory
                     ELSE Overwrite(t.memory, t.offset, m.chunk)
    \/ /\ t.state = "WaitingForInitialRead" /\ m.kind = "Continuation"
       /\ m.tid = t.response.tid /\ Len(m.chunk) = 0 /\ r = t

\* A fragment that is what the transaction waits for.
Awaited(t, m) ==
    \/ t.state = "WaitingForInitialWrite" /\ IsRequest(m)
    \/ t.state = "ReadingRequest" /\ Continues(m, t.header.tid, t.header.total - t.offset)
    \/ t.state = "WaitingForInitialRead" /\ Continues(m, t.response.tid, 0)

LEMMA FailsFields ==
    ASSUME NEW t \in Txns, NEW e \in Errors, e # "None"
    PROVE  Fails(t, e) \in Txns /\ Fails(t, e).err # "None"
BY DEF Fails, Txns

LEMMA ResultFields ==
    ASSUME NEW t \in Txns, t.err = "None"
    PROVE  Result(t) = t
BY DEF Result, Txns

LEMMA HandleWriteFields ==
    ASSUME NEW t \in Txns, TransactionSound(t), NEW m \in Messages
    PROVE  LET r == HandleWrite(t, m)
           IN /\ r \in Txns
              /\ r.err = "None" => TransactionSound(r) /\ Took(t, m, r)
              /\ Awaited(t, m) => r.err = "None"
<1> DEFINE r == HandleWrite(t, m)
           e == "InvalidData"
<1>1. t.err = "None" /\ Result(t) = t
  BY ResultFields DEF TransactionSound
<1>2. e \in Errors /\ e # "None" /\ "InvalidState" \in Errors
  BY DEF Errors
<1>3. CASE t.state = "WaitingForInitialWrite"
  <2> DEFINE a == [t EXCEPT !.state = "ReadingRequest"]
             b == [a EXCEPT !.header = m.header]
  <2>1. a \in Txns
    BY DEF Txns, TxnStates
  <2>2. r = IF IsRequest(m) THEN TryAppendBodyFragment(b, m.chunk) ELSE Fails(a, e)
    BY <1>1, <1>3 DEF HandleWrite, Begins
  <2>3. CASE ~IsRequest(m)
    <3>1. ~Awaited(t, m)
      BY <1>3, <2>3 DEF Awaited
    <3> HIDE DEF a, r, e
    <3>2. r \in Txns /\ r.err # "None"
      BY <1>2, <2>1, <2>2, <2>3, FailsFields
    <3> QED
      BY <3>1, <3>2 DEF r
  <2>4. CASE IsRequest(m)
    <3>1. /\ m.kind = "First" /\ Len(m.chunk) <= m.header.total
          /\ m.header \in Headers /\ m.chunk \in Bodies /\ Len(m.chunk) \in Nat
      BY <2>4, MessageFields DEF IsRequest
    <3>2. /\ b \in Txns /\ b.state = "ReadingRequest" /\ b.max = t.max /\ b.header = m.header
          /\ b.response = t.response /\ b.err = t.err /\ b.offset = t.offset
          /\ b.memory = t.memory
      BY <3>1 DEF Txns, TxnStates
    <3>3. t.offset = 0 /\ t.response.total = 0
      BY <1>3 DEF TransactionSound, Responding
    <3>10. b.offset <= Len(b.memory)
      BY <3>2, <3>3, TxnFields
    <3> HIDE DEF b, r
    <3>4. /\ r \in Txns /\ r.state = b.state /\ r.max = b.max /\ r.header = b.header
          /\ r.response = b.response /\ r.err = b.err
          /\ r.offset = b.offset + Len(m.chunk)
          /\ r.memory = IF b.header.total > b.max THEN b.memory
                        ELSE Overwrite(b.memory, b.offset, m.chunk)
          /\ b.header.total <= b.max => r.offset <= Len(r.memory)
      BY <2>2, <2>4, <3>1, <3>2, <3>10, AppendFields
    <3>5. r.offset = Len(m.chunk)
      BY <3>1, <3>2, <3>3, <3>4
    <3>7. r.memory = IF m.header.total > t.max THEN t.memory
                     ELSE Overwrite(t.memory, 0, m.chunk)
      BY <3>2, <3>3, <3>4
    <3>8. TransactionSound(r)
      BY <1>1, <3>1, <3>2, <3>3, <3>4, <3>5 DEF TransactionSound
    <3>9. Took(t, m, r)
      BY <1>3, <3>1, <3>2, <3>4, <3>5, <3>7 DEF Took
    <3> QED
      BY <1>1, <3>2, <3>4, <3>8, <3>9 DEF r
  <2> QED
    BY <2>3, <2>4
<1>4. CASE t.state = "ReadingRequest"
  <2> DEFINE ok == Continues(m, t.header.tid, t.header.total - t.offset)
  <2>1. r = IF ok THEN TryAppendBodyFragment(t, m.chunk) ELSE Fails(t, e)
    BY <1>1, <1>4 DEF HandleWrite, Gathers
  <2>2. CASE ~ok
    <3>1. ~Awaited(t, m)
      BY <1>4, <2>2 DEF Awaited
    <3> HIDE DEF ok, r, e
    <3>2. r \in Txns /\ r.err # "None"
      BY <1>2, <2>1, <2>2, FailsFields
    <3> QED
      BY <3>1, <3>2 DEF r
  <2>3. CASE ok
    <3>1. /\ m.kind = "Continuation" /\ m.tid = t.header.tid
          /\ Len(m.chunk) <= t.header.total - t.offset
          /\ m.chunk \in Bodies /\ Len(m.chunk) \in Nat
      BY <2>3, MessageFields DEF Continues
    <3> HIDE DEF ok, r
    <3>2. /\ r \in Txns /\ r.state = t.state /\ r.max = t.max /\ r.header = t.header
          /\ r.response = t.response /\ r.err = t.err
          /\ r.offset = t.offset + Len(m.chunk)
          /\ r.memory = IF t.header.total > t.max THEN t.memory
                        ELSE Overwrite(t.memory, t.offset, m.chunk)
          /\ t.header.total <= t.max => r.offset <= Len(r.memory)
      BY <1>4, <2>1, <2>3, <3>1, AppendFields DEF TransactionSound
    <3>3. r.offset <= t.header.total
      BY <3>1, <3>2, TxnFields
    <3>4. TransactionSound(r)
      BY <1>1, <1>4, <3>2, <3>3 DEF TransactionSound, Responding
    <3>5. Took(t, m, r)
      BY <1>4, <3>1, <3>2 DEF Took
    <3> QED
      BY <1>1, <3>2, <3>4, <3>5 DEF r
  <2> QED
    BY <2>2, <2>3
<1>5. CASE t.state = "WaitingForInitialRead"
  <2>1. r = IF Continues(m, t.response.tid, 0) THEN t ELSE Fails(t, e)
    BY <1>1, <1>5 DEF HandleWrite
  <2>2. CASE ~Continues(m, t.response.tid, 0)
    <3>1. ~Awaited(t, m)
      BY <1>5, <2>2 DEF Awaited
    <3> HIDE DEF r, e
    <3>2. r \in Txns /\ r.err # "None"
      BY <1>2, <2>1, <2>2, FailsFields
    <3> QED
      BY <3>1, <3>2 DEF r
  <2>3. CASE Continues(m, t.response.tid, 0)
    <3>1. m.kind = "Continuation" /\ m.tid = t.response.tid /\ Len(m.chunk) = 0
      BY <2>3, MessageFields DEF Continues
    <3>2. Took(t, m, t)
      BY <1>5, <3>1 DEF Took
    <3> QED
      BY <1>1, <2>1, <2>3, <3>2
  <2> QED
    BY <2>2, <2>3
<1>6. CASE t.state \notin {"WaitingForInitialWrite", "ReadingRequest", "WaitingForInitialRead"}
  <2>1. r = Fails(t, "InvalidState")
    BY <1>6 DEF HandleWrite
  <2>2. ~Awaited(t, m)
    BY <1>6 DEF Awaited
  <2>3. r \in Txns /\ r.err # "None"
    <3> HIDE DEF r
    <3> QED
      BY <1>2, <2>1, FailsFields
  <2> QED
    BY <2>2, <2>3
<1> QED
  BY <1>3, <1>4, <1>5, <1>6

LEMMA GetRequestFields ==
    ASSUME NEW t \in Txns
    PROVE  LET r == GetRequest(t)
           IN /\ r \in Txns /\ r.state = "HandlingRequest" /\ r.max = t.max
              /\ r.header = t.header /\ r.memory = t.memory /\ r.offset = t.offset
              /\ r.response = t.response /\ (r.err = "None") = (t.header.total <= t.max)
<1>1. (t.header.total > t.max) = ~(t.header.total <= t.max)
  BY TxnFields
<1>2. CASE t.header.total > t.max
  <2>1. GetRequest(t) = [t EXCEPT !.state = "HandlingRequest", !.err = "OutOfResources"]
    BY <1>2 DEF GetRequest, Fails, Txns
  <2> DEFINE r == [t EXCEPT !.state = "HandlingRequest", !.err = "OutOfResources"]
  <2>2. /\ r \in Txns /\ r.state = "HandlingRequest" /\ r.max = t.max
        /\ r.header = t.header /\ r.memory = t.memory /\ r.offset = t.offset
        /\ r.response = t.response /\ r.err = "OutOfResources"
    BY DEF Txns, TxnStates, Errors
  <2> HIDE DEF r
  <2>3. (r.err = "None") = (t.header.total <= t.max)
    BY <1>1, <1>2, <2>2
  <2> QED
    BY <2>1, <2>2, <2>3 DEF r
<1>3. CASE ~(t.header.total > t.max)
  <2>1. GetRequest(t) = [t EXCEPT !.state = "HandlingRequest", !.err = "None"]
    BY <1>3 DEF GetRequest, Result, Txns
  <2> QED
    BY <1>1, <1>3, <2>1 DEF Txns, TxnStates, Errors
<1> QED
  BY <1>2, <1>3

LEMMA HandleReadFields ==
    ASSUME NEW t \in Txns, TransactionSound(t), NEW fits \in BOOLEAN, NEW room \in Nat
    PROVE  LET r == HandleRead(t, fits, room)
           IN /\ r \in Txns
              /\ (r.err = "None") = (t.state \in Responding /\ fits)
              /\ r.err = "None" =>
                     /\ TransactionSound(r) /\ r.state = "WritingResponse"
                     /\ r.response = t.response /\ r.memory = t.memory /\ r.max = t.max
<1> DEFINE r == HandleRead(t, fits, room)
           w == [t EXCEPT !.state = "WritingResponse"]
<1>1. CASE t.state \notin Responding
  <2>1. r = Fails(t, "InvalidState")
    BY <1>1 DEF HandleRead, Responding
  <2>2. "InvalidState" \in Errors
    BY DEF Errors
  <2> HIDE DEF r
  <2> QED
    BY <1>1, <2>1, <2>2, FailsFields DEF r
<1>2. CASE t.state \in Responding /\ ~fits
  <2>1. r = Fails(w, "OutOfResources")
    BY <1>2 DEF HandleRead, Responding
  <2>2. w \in Txns /\ "OutOfResources" \in Errors
    BY DEF Txns, TxnStates, Errors
  <2> HIDE DEF r, w
  <2> QED
    BY <1>2, <2>1, <2>2, FailsFields DEF r
<1>3. CASE t.state \in Responding /\ fits
  <2> DEFINE total == t.response.total
             o == t.offset + FragmentLength(t, room)
  <2>1. t.err = "None" /\ t.offset <= total /\ total \in Nat /\ t.offset \in Nat
    BY <1>3, TxnFields DEF TransactionSound, Responding
  <2>2. o \in Nat /\ o <= total
    BY <2>1 DEF FragmentLength
  <2>3. w \in Txns /\ w.response = t.response /\ w.offset = t.offset
    BY DEF Txns, TxnStates
  <2>7. r = [t EXCEPT !.state = "WritingResponse", !.offset = o, !.err = "None"]
    <3> HIDE DEF o
    <3>1. r = Result([w EXCEPT !.offset = t.offset + FragmentLength(t, room)])
      BY <1>3, <2>3 DEF HandleRead, Responding
    <3> QED
      BY <3>1 DEF Result, Txns, o
  <2> HIDE DEF o, r, total
  <2>8. /\ r \in Txns /\ r.state = "WritingResponse" /\ r.offset = o /\ r.err = "None"
        /\ r.response = t.response /\ r.memory = t.memory /\ r.max = t.max
    BY <2>2, <2>7 DEF Txns, TxnStates, Errors
  <2>9. TransactionSound(r)
    BY <2>2, <2>8 DEF TransactionSound, Responding, total
  <2> QED
    BY <1>3, <2>8, <2>9 DEF r
<1> QED
  BY <1>1, <1>2, <1>3

-----------------------------------------------------------------------------
(* Requests.                                                               *)

SameAttr(w, u) ==
    \A c \in Chars : /\ u.attr[c].fallback = w.attr[c].fallback
                     /\ u.attr[c].subscribed = w.attr[c].subscribed

\* The link, the house, and what indications may have been sent.
SameAround(w, u) ==
    /\ u \in Worlds /\ SameAttr(w, u) /\ SameHouse(w, u) /\ IndicatedTo(w, u)
    /\ u.link.connected = w.link.connected /\ u.link.cancelled = w.link.cancelled
    /\ u.session.terminal = w.session.terminal

\* What a request does before it is answered: the session goes on, or one is made by the
\* exchange that the characteristic takes part in.
Advanced(w, u) ==
    \/ Continued(w, u)
    \/ DropsSecuritySession(w.proc.char) /\ Started(w, u, Db(w.proc.char).pairing)
Acted(w, u) == SameAround(w, u) /\ u.proc = w.proc /\ Advanced(w, u)

LEMMA ActedSelf ==
    ASSUME NEW w \in Worlds
    PROVE  Acted(w, w)
BY WorldFields DEF Acted, SameAround, SameAttr, SameHouse, Proves, IndicatedTo, Advanced,
                   Continued, SameSession

LEMMA IndicatedTwice ==
    ASSUME NEW w \in Worlds, NEW v \in Worlds, NEW u \in Worlds,
           SameAttr(w, v), SameHouse(w, v), IndicatedTo(w, v), IndicatedTo(v, u)
    PROVE  IndicatedTo(w, u)
BY DEF SameAttr, SameHouse, IndicatedTo

LEMMA AroundTwice ==
    ASSUME NEW w \in Worlds, NEW v, NEW u, SameAround(w, v), SameAround(v, u)
    PROVE  SameAround(w, u)
<1>1. IndicatedTo(w, u)
  BY IndicatedTwice DEF SameAround
<1> QED
  BY <1>1 DEF SameAround, SameAttr, SameHouse, Proves

LEMMA ActedOn ==
    ASSUME NEW w \in Worlds, NEW v, NEW u, Acted(w, v), Continued(w, v), Acted(v, u)
    PROVE  Acted(w, u)
<1>1. SameAround(w, u)
  BY AroundTwice DEF Acted
<1>2. u.proc = w.proc
  BY DEF Acted
<1>3. v.attr = w.attr /\ v.told = w.told /\ v.session.terminal = w.session.terminal
      /\ v.pairing = w.pairing /\ v.proc = w.proc
      /\ (v.session.linkTimer = w.session.linkTimer \/ v.session.linkTimer = "On")
      /\ Proves(w, v.session)
  BY DEF Acted, Continued, SameAround, SameHouse
<1>4. Subscribed(v) = Subscribed(w)
  BY <1>3 DEF Subscribed
<1>5. ASSUME Continued(v, u)
      PROVE  Continued(w, u)
  BY <1>5 DEF Continued, SameSession
<1>6. ASSUME NEW x, Started(v, u, x)
      PROVE  Started(w, u, x)
  BY <1>3, <1>4, <1>6 DEF Started, Proves
<1>7. Advanced(w, u)
  BY <1>3, <1>5, <1>6 DEF Acted, Advanced
<1> QED
  BY <1>1, <1>2, <1>7 DEF Acted

LEMMA ExchangeActs ==
    ASSUME NEW w \in Worlds, w.proc.char \in Chars, DropsSecuritySession(w.proc.char),
           NEW u, Exchanged(w, u, Db(w.proc.char).pairing)
    PROVE  Acted(w, u)
BY DEF Exchanged, Acted, SameAround, SameAttr, SameTalk, Advanced

LEMMA ErrorActs ==
    ASSUME NEW w \in Worlds, NEW e \in Errors
    PROVE  /\ Acted(w, Error(w, e)) /\ Continued(w, Error(w, e))
           /\ Error(w, e).value = w.value /\ Failed(Error(w, e)) = (e # "None")
<1> DEFINE u == Error(w, e)
<1>1. /\ Turned(w, u) /\ u.session = w.session /\ u.gap = w.gap
      /\ Failed(u) = (e # "None")
  BY ErrorFields
<1> HIDE DEF u
<1>2. IndicatedTo(w, u)
  BY <1>1, NoIndication DEF Turned
<1>3. Continued(w, u)
  BY <1>1, WorldFields DEF Turned, Continued, SameSession
<1>4. Acted(w, u)
  BY <1>1, <1>2, <1>3 DEF Turned, Acted, SameAround, SameAttr, SameTalk, Advanced
<1> QED
  BY <1>1, <1>3, <1>4 DEF u, Turned, SameTalk

\* After it was done with, an error is the status of the response.
LEMMA ErrorForgotten ==
    ASSUME NEW w \in Worlds, NEW v, Acted(w, v)
    PROVE  /\ Acted(w, Error(v, "None")) /\ ~Failed(Error(v, "None"))
           /\ Error(v, "None").value = v.value
<1> DEFINE e == "None"
           u == Error(v, e)
<1>1. v \in Worlds /\ e \in Errors
  BY DEF Acted, SameAround, Errors
<1>2. /\ Acted(v, u) /\ Continued(v, u) /\ u.value = v.value /\ ~Failed(u)
  <2> HIDE DEF u
  <2>1. Failed(u) = (e # "None")
    BY <1>1, ErrorFields DEF u
  <2> QED
    BY <1>1, <2>1, ErrorActs DEF u
<1>3. /\ Turned(v, u) /\ u.session = v.session /\ u.gap = v.gap
  BY <1>1, ErrorFields
<1> HIDE DEF u
<1>4. SameAround(w, u) /\ u.proc = w.proc
  BY <1>2, AroundTwice DEF Acted
<1>5. ASSUME Continued(w, v)
      PROVE  Continued(w, u)
  BY <1>3, <1>5 DEF Continued, Turned
<1>6. ASSUME NEW x, Started(w, v, x)
      PROVE  Started(w, u, x)
  BY <1>3, <1>6 DEF Started, Turned
<1>7. Acted(w, u)
  BY <1>4, <1>5, <1>6 DEF Acted, Advanced
<1> QED
  BY <1>2, <1>7 DEF u

WithTxn(w, t) == [w EXCEPT !.proc.txn = t]

\* Only the procedure changes, or its transaction, or what it has prepared.
WithProc(w, p) == [w EXCEPT !.proc = p]

LEMMA ProcFields ==
    ASSUME NEW p \in Procs
    PROVE  /\ p.char \in Chars \cup {NotAttached} /\ p.timer \in BOOLEAN
           /\ p.startedSecured \in BOOLEAN /\ p.multi \in {"None", "TimedWrite"}
           /\ p.timed \in [length : Nat, expired : BOOLEAN] /\ p.txn \in Txns
BY DEF Procs

LEMMA WithProcFields ==
    ASSUME NEW w \in Worlds, NEW p \in Procs
    PROVE  LET u == WithProc(w, p)
           IN /\ u \in Worlds /\ u.proc = p /\ SameAround(w, u) /\ Continued(w, u)
              /\ u.value = w.value /\ u.call = w.call /\ u.session = w.session
              /\ u.attr = w.attr /\ u.link = w.link
<1> DEFINE u == WithProc(w, p)
<1>1. /\ u \in Worlds /\ u.proc = p
      /\ u.value = w.value /\ u.attr = w.attr /\ u.told = w.told /\ u.link = w.link
      /\ u.session = w.session /\ u.gap = w.gap /\ u.call = w.call
      /\ u.running = w.running /\ u.pairing = w.pairing
  BY DEF WithProc, Worlds
<1> HIDE DEF u
<1>2. IndicatedTo(w, u)
  BY <1>1, NoIndication
<1>3. Continued(w, u)
  BY <1>1, WorldFields DEF Continued, SameSession
<1>4. SameAround(w, u)
  BY <1>1, <1>2 DEF SameAround, SameAttr, SameHouse, Proves
<1> QED
  BY <1>1, <1>3, <1>4 DEF u

LEMMA WithTxnFields ==
    ASSUME NEW w \in Worlds, NEW t \in Txns
    PROVE  /\ [w.proc EXCEPT !.txn = t] \in Procs
           /\ WithTxn(w, t) = WithProc(w, [w.proc EXCEPT !.txn = t])
           /\ WithTxn(w, t).proc = [w.proc EXCEPT !.txn = t]
           /\ WithTxn(w, t).proc.char = w.proc.char
           /\ WithTxn(w, t).proc.timer = w.proc.timer
           /\ WithTxn(w, t).proc.startedSecured = w.proc.startedSecured
           /\ WithTxn(w, t).proc.multi = w.proc.multi
           /\ WithTxn(w, t).proc.timed = w.proc.timed
           /\ WithTxn(w, t).proc.txn = t
<1> DEFINE p == [w.proc EXCEPT !.txn = t]
<1>1. /\ p \in Procs /\ p.char = w.proc.char /\ p.timer = w.proc.timer
      /\ p.startedSecured = w.proc.startedSecured /\ p.multi = w.proc.multi
      /\ p.timed = w.proc.timed /\ p.txn = t
  BY WorldFields DEF Procs
<1>2. WithTxn(w, t) = WithProc(w, p)
  BY DEF WithTxn, WithProc, Worlds
<1>3. WithProc(w, p).proc = p
  BY <1>1, WithProcFields
<1> HIDE DEF p
<1>4. WithTxn(w, t).proc = p
  BY <1>2, <1>3
<1> QED
  BY <1>1, <1>2, <1>4 DEF p

LEMMA WithTxnTwice ==
    ASSUME NEW w \in Worlds, NEW s \in Txns, NEW t
    PROVE  WithTxn(WithTxn(w, s), t) = WithTxn(w, t)
BY WorldFields DEF WithTxn, Worlds, Procs

\* The transaction of world v is answered: world u.  Only if it may, the response has a
\* body and the buffer changes.
Replied(w, v, u, may) ==
    /\ Acted(w, v) /\ ~Failed(v)
    /\ \E status \in Statuses, total \in Nat, memory \in Bodies :
           /\ u = WithTxn(v, SetResponse([v.proc.txn EXCEPT !.memory = memory], status, total))
           /\ total # 0 \/ memory # v.proc.txn.memory => may

LEMMA SendErrorReplies ==
    ASSUME NEW w, NEW v, Acted(w, v), ~Failed(v), NEW status \in Statuses, NEW may
    PROVE  /\ Replied(w, v, SendEmpty(v, status), may)
           /\ Replied(w, v, SendError(v, status), may)
<1> DEFINE m == v.proc.txn.memory
           n == 0
<1>1. v.proc.txn \in Txns /\ m \in Bodies
  BY WorldFields, ProcFields, TxnFields DEF Acted, SameAround
<1>2. [v.proc.txn EXCEPT !.memory = m] = v.proc.txn
  BY <1>1 DEF Txns
<1>3. SendEmpty(v, status)
          = WithTxn(v, SetResponse([v.proc.txn EXCEPT !.memory = m], status, n))
  BY <1>2 DEF SendEmpty, WithTxn
<1>4. n \in Nat /\ n = 0
  OBVIOUS
<1> HIDE DEF m, n
<1>5. Replied(w, v, SendEmpty(v, status), may)
  BY <1>1, <1>3, <1>4 DEF Replied, m
<1> QED
  BY <1>5 DEF SendError

\* A body is written to the buffer.
LEMMA WrittenFields ==
    ASSUME NEW v \in Worlds, NEW body \in Bodies, NEW status \in Statuses, NEW total \in Nat
    PROVE  \E memory \in Bodies :
               [DestroyRequestBodyAndWrite(v, body) EXCEPT
                    !.proc.txn = SetResponse(@, status, total)]
                   = WithTxn(v, SetResponse([v.proc.txn EXCEPT !.memory = memory],
                                            status, total))
<1> DEFINE o == 0
           m == Overwrite(v.proc.txn.memory, o, body)
           t == [v.proc.txn EXCEPT !.memory = m]
           d == DestroyRequestBodyAndWrite(v, body)
<1>1. v.proc.txn \in Txns /\ v.proc.txn.memory \in Bodies /\ Len(v.proc.txn.memory) \in Nat
  BY WorldFields, ProcFields, TxnFields
<1>2. o \in Nat /\ o <= Len(v.proc.txn.memory)
  BY <1>1
<1>3. t = Serialize(v.proc.txn, body)
  BY DEF Serialize
<1> HIDE DEF o
<1>4. m \in Bodies
  BY <1>1, <1>2, OverwriteFields
<1> HIDE DEF m
<1>5. t \in Txns
  BY <1>1, <1>4 DEF Txns
<1>6. d = WithTxn(v, t)
  BY <1>3 DEF DestroyRequestBodyAndWrite, WithTxn
<1> HIDE DEF t, d
<1>7. d.proc.txn = t
  BY <1>5, <1>6, WithTxnFields
<1>8. [d EXCEPT !.proc.txn = SetResponse(@, status, total)]
          = WithTxn(d, SetResponse(t, status, total))
  BY <1>7 DEF WithTxn
<1>9. WithTxn(d, SetResponse(t, status, total)) = WithTxn(v, SetResponse(t, status, total))
  BY <1>5, <1>6, WithTxnTwice
<1> QED
  BY <1>4, <1>8, <1>9 DEF t, d

LEMMA SendResponseReplies ==
    ASSUME NEW w, NEW v, Acted(w, v), ~Failed(v), NEW body \in Bodies, NEW may, may
    PROVE  /\ Replied(w, v, SendResponse(v, body), may)
           /\ Replied(w, v, SendEmpty(DestroyRequestBodyAndWrite(v, body), "Success"), may)
<1> DEFINE status == "Success"
           total == Len(body)
           none == 0
<1>1. v \in Worlds /\ status \in Statuses /\ total \in Nat /\ none \in Nat
  BY DEF Acted, SameAround, Statuses, Bodies
<1>2. /\ SendResponse(v, body)
             = [DestroyRequestBodyAndWrite(v, body) EXCEPT
                    !.proc.txn = SetResponse(@, status, total)]
      /\ SendEmpty(DestroyRequestBodyAndWrite(v, body), "Success")
             = [DestroyRequestBodyAndWrite(v, body) EXCEPT
                    !.proc.txn = SetResponse(@, status, none)]
  BY DEF SendResponse, SendEmpty
<1> HIDE DEF status, total, none
<1>3. PICK m1 \in Bodies : SendResponse(v, body)
          = WithTxn(v, SetResponse([v.proc.txn EXCEPT !.memory = m1], status, total))
  BY <1>1, <1>2, WrittenFields
<1>4. PICK m2 \in Bodies : SendEmpty(DestroyRequestBodyAndWrite(v, body), "Success")
          = WithTxn(v, SetResponse([v.proc.txn EXCEPT !.memory = m2], status, none))
  <2>1. \E memory \in Bodies :
            [DestroyRequestBodyAndWrite(v, body) EXCEPT
                 !.proc.txn = SetResponse(@, status, none)]
                = WithTxn(v, SetResponse([v.proc.txn EXCEPT !.memory = memory], status, none))
    BY <1>1, WrittenFields
  <2> QED
    BY <1>2, <2>1
<1> QED
  BY <1>1, <1>3, <1>4 DEF Replied

\* What lies at the start of the buffer.
LEMMA PrefixFields ==
    ASSUME NEW m \in Bodies, NEW n \in Nat, n <= Len(m)
    PROVE  SubSeq(m, 1, n) \in Bodies /\ Len(SubSeq(m, 1, n)) = n
<1>1. m \in Seq(Words) /\ Len(m) \in Nat
  BY DEF Bodies
<1>2. \A i \in 1 .. n : m[i] \in Words
  BY <1>1, ElementOfSeq
<1>3. /\ SubSeq(m, 1, n) \in Seq(Words)
      /\ Len(SubSeq(m, 1, n)) = IF 1 <= n THEN n - 1 + 1 ELSE 0
  BY <1>2, SubSeqProperties
<1> QED
  BY <1>3 DEF Bodies

\* The requests that a procedure points to are in its buffer.
Held(p) ==
    /\ p.txn.header.total <= p.txn.max => p.txn.header.total <= Len(p.txn.memory)
    /\ p.multi = "TimedWrite" => p.timed.length <= Len(p.txn.memory)

LEMMA HeldBodies ==
    ASSUME NEW p \in Procs, Held(p)
    PROVE  /\ p.txn.header.total <= p.txn.max => RequestBody(p.txn) \in Bodies
           /\ p.multi = "TimedWrite" => TimedBody(p) \in Bodies
<1>1. p.txn.memory \in Bodies /\ p.txn.header.total \in Nat /\ p.timed.length \in Nat
  BY ProcFields, TxnFields
<1> QED
  BY <1>1, PrefixFields DEF Held, RequestBody, TimedBody

LEMMA StatusTypes ==
    /\ {"InsufficientAuthentication", "InsufficientAuthorization", "UnsupportedPDU",
        "InvalidRequest", "InvalidInstanceID"} \subseteq Statuses
    /\ {"Unknown", "NotAuthorized", "InvalidData", "Expired"} \subseteq Errors \ {"None"}
BY DEF Statuses, Errors

LEMMA PairingIsExchange ==
    ASSUME NEW c \in Chars
    PROVE  DropsSecuritySession(c) => Db(c).pairing \in Exchanges
BY DbFields DEF DropsSecuritySession, Exchanges

\* Whether the value may leave the accessory.
Open(w) == Db(w.proc.char).openRead \/ IsSecured(w)

LEMMA ReadReplies ==
    ASSUME NEW w \in Worlds, ~Failed(w), w.proc.char \in Chars,
           NEW outcome, NEW returned \in BOOLEAN
    PROVE  \E v : Replied(w, v, Read(w, outcome, returned), Open(w)) /\ v.value = w.value
<1> DEFINE c == w.proc.char
           open == IF IsSecured(w) THEN Db(c).readable ELSE Db(c).openRead
           read == IF Db(c).pairing # "None"
                   THEN HandleExchangeRead(w, Db(c).pairing, outcome = "None")
                   ELSE IF outcome = "None" THEN w ELSE Error(w, "Unknown")
           st == IF ~IsSecured(w) /\ Db(c).readable
                 THEN "InsufficientAuthentication" ELSE "UnsupportedPDU"
           b == w.value[c]
           u == Read(w, outcome, returned)
<1>1. Acted(w, w)
  BY ActedSelf
<1>2. u = IF IsTransient(w) \/ ~open THEN SendError(w, st)
          ELSE IF Db(c).adminRead /\ ~ControllerIsAdmin(w)
          THEN SendError(w, "InsufficientAuthentication")
          ELSE IF Failed(read) THEN SendError(Error(read, "None"), "InvalidRequest")
          ELSE IF returned THEN SendResponse(read, b)
          ELSE SendEmpty(DestroyRequestBodyAndWrite(read, b), "Success")
  BY DEF Read
<1>3. Acted(w, read) /\ read.value = w.value
  <2>1. CASE Db(c).pairing # "None"
    <3> DEFINE p == outcome = "None"
               x == Db(c).pairing
    <3>1. p \in BOOLEAN /\ x \in Exchanges /\ DropsSecuritySession(c)
      BY <2>1, PairingIsExchange DEF DropsSecuritySession
    <3>2. read = HandleExchangeRead(w, x, p)
      BY <2>1
    <3> HIDE DEF p, read
    <3>3. Exchanged(w, read, x)
      BY <3>1, <3>2, ExchangeRead
    <3> QED
      BY <3>1, <3>3, ExchangeActs DEF Exchanged, SameTalk
  <2>2. CASE Db(c).pairing = "None" /\ outcome = "None"
    BY <1>1, <2>2
  <2>3. CASE Db(c).pairing = "None" /\ outcome # "None"
    <3>1. read = Error(w, "Unknown") /\ "Unknown" \in Errors
      BY <2>3, StatusTypes
    <3> HIDE DEF read
    <3> QED
      BY <3>1, ErrorActs
  <2> QED
    BY <2>1, <2>2, <2>3
<1>4. st \in Statuses
  BY StatusTypes
<1>5. b \in Bodies
  BY WorldFields
<1> HIDE DEF read, st, u, b
<1>6. CASE IsTransient(w) \/ ~open
  BY <1>1, <1>2, <1>4, <1>6, SendErrorReplies DEF u
<1>7. CASE ~(IsTransient(w) \/ ~open) /\ Db(c).adminRead /\ ~ControllerIsAdmin(w)
  <2>1. u = SendError(w, "InsufficientAuthentication")
    BY <1>2, <1>7
  <2> QED
    BY <1>1, <2>1, SendErrorReplies, StatusTypes DEF u
<1>8. CASE ~(IsTransient(w) \/ ~open) /\ ~(Db(c).adminRead /\ ~ControllerIsAdmin(w)) /\ Failed(read)
  <2>1. u = SendError(Error(read, "None"), "InvalidRequest")
    BY <1>2, <1>8
  <2>2. /\ Acted(w, Error(read, "None")) /\ ~Failed(Error(read, "None"))
        /\ Error(read, "None").value = w.value
    BY <1>3, ErrorForgotten
  <2> QED
    BY <2>1, <2>2, SendErrorReplies, StatusTypes DEF u
<1>9. CASE ~(IsTransient(w) \/ ~open) /\ ~(Db(c).adminRead /\ ~ControllerIsAdmin(w)) /\ ~Failed(read)
  <2>1. u = IF returned THEN SendResponse(read, b)
            ELSE SendEmpty(DestroyRequestBodyAndWrite(read, b), "Success")
    BY <1>2, <1>9
  <2> DEFINE may == Open(w)
  <2>2. may
    BY <1>9 DEF Open
  <2> HIDE DEF may
  <2>3. /\ Replied(w, read, SendResponse(read, b), may)
        /\ Replied(w, read, SendEmpty(DestroyRequestBodyAndWrite(read, b), "Success"), may)
    BY <1>3, <1>5, <1>9, <2>2, SendResponseReplies
  <2> QED
    BY <1>3, <2>1, <2>3 DEF u, may
<1> QED
  BY <1>6, <1>7, <1>8, <1>9

LEMMA ValueInBody ==
    ASSUME NEW body \in Bodies
    PROVE  ValueIn(body) \in Bodies
<1>1. CASE WantsResponse(body)
  <2>1. body # <<>>
    BY <1>1 DEF WantsResponse
  <2>2. Tail(body) \in Bodies
    BY <2>1 DEF Bodies
  <2> QED
    BY <1>1, <2>2 DEF ValueIn
<1>2. CASE ~WantsResponse(body)
  BY <1>2 DEF ValueIn
<1> QED
  BY <1>1, <1>2

\* What a write of body may do to the value.
Wrote(w, v, body, executes) ==
    \/ v.value = w.value
    \/ /\ v.value = [w.value EXCEPT ![w.proc.char] = ValueIn(body)]
       /\ MayWrite(w, w.proc.char) /\ ~(executes /\ w.proc.timed.expired)
       /\ Db(w.proc.char).timed => executes
       /\ body # <<>> /\ ~DropsSecuritySession(w.proc.char)

LEMMA ValueFields ==
    ASSUME NEW w \in Worlds, NEW x \in [Chars -> Bodies]
    PROVE  /\ Acted(w, [w EXCEPT !.value = x]) /\ Continued(w, [w EXCEPT !.value = x])
           /\ [w EXCEPT !.value = x].value = x
           /\ Failed([w EXCEPT !.value = x]) = Failed(w)
<1> DEFINE u == [w EXCEPT !.value = x]
<1>1. u \in Worlds
  BY DEF Worlds
<1>2. /\ u.value = x /\ u.attr = w.attr /\ u.told = w.told /\ u.link = w.link
      /\ u.session = w.session /\ u.gap = w.gap /\ u.call = w.call /\ u.proc = w.proc
      /\ u.running = w.running /\ u.pairing = w.pairing
  BY DEF Worlds
<1> HIDE DEF u
<1>3. IndicatedTo(w, u)
  BY <1>1, <1>2, NoIndication
<1>4. Continued(w, u)
  BY <1>2, WorldFields DEF Continued, SameSession
<1>5. Acted(w, u)
  BY <1>1, <1>2, <1>3, <1>4 DEF Acted, SameAround, SameAttr, SameHouse, Proves, Advanced
<1> QED
  BY <1>2, <1>4, <1>5 DEF u, Failed

LEMMA WriteValueActs ==
    ASSUME NEW w \in Worlds, ~Failed(w), w.proc.char \in Chars, NEW body \in Bodies,
           NEW late, NEW outcome
    PROVE  LET u == WriteValue(w, body, late, outcome)
           IN /\ Acted(w, u) /\ Continued(w, u)
              /\ \/ u.value = w.value
                 \/ /\ ~late /\ u.value = [w.value EXCEPT ![w.proc.char] = ValueIn(body)]
                    /\ body # <<>> /\ ~DropsSecuritySession(w.proc.char)
<1> DEFINE c == w.proc.char
           u == WriteValue(w, body, late, outcome)
<1>1. CASE ValueIn(body) = <<>>
  <2>1. u = Error(w, "InvalidData") /\ "InvalidData" \in Errors
    BY <1>1, StatusTypes DEF WriteValue
  <2> QED
    BY <2>1, ErrorActs
<1>2. CASE ValueIn(body) # <<>> /\ late
  <2>1. u = Error(w, "Expired") /\ "Expired" \in Errors
    BY <1>2, StatusTypes DEF WriteValue
  <2> QED
    BY <2>1, ErrorActs
<1>3. CASE ValueIn(body) # <<>> /\ ~late /\ Db(c).pairing # "None"
  <2> DEFINE x == Db(c).pairing
             m == Head(ValueIn(body))
             proven == ~Refuses(outcome)
  <2>1. u = HandleExchangeWrite(w, x, m, proven)
    BY <1>3 DEF WriteValue
  <2>2. x \in Exchanges /\ DropsSecuritySession(c)
    BY <1>3, PairingIsExchange DEF DropsSecuritySession
  <2> HIDE DEF m, u, proven
  <2>3. Exchanged(w, u, x) /\ Continued(w, u)
    BY <2>1, <2>2, ExchangeWrite
  <2>4. Acted(w, u) /\ u.value = w.value
    BY <2>2, <2>3, ExchangeActs DEF Exchanged, SameTalk
  <2> QED
    BY <2>3, <2>4 DEF u
<1>4. CASE /\ ValueIn(body) # <<>> /\ ~late /\ ~(Db(c).pairing # "None")
           /\ outcome \in {"NotAuthorized", "Unknown"}
  <2>1. u = Error(w, outcome) /\ outcome \in Errors
    BY <1>4, StatusTypes DEF WriteValue, Refuses
  <2> QED
    BY <2>1, ErrorActs
<1>5. CASE /\ ValueIn(body) # <<>> /\ ~late /\ ~(Db(c).pairing # "None")
           /\ outcome \notin {"NotAuthorized", "Unknown"}
  <2> DEFINE x == [w.value EXCEPT ![c] = ValueIn(body)]
  <2>1. u = [w EXCEPT !.value = x]
    BY <1>5 DEF WriteValue, Worlds, Refuses
  <2>2. x \in [Chars -> Bodies]
    BY WorldFields, ValueInBody
  <2>3. Acted(w, u) /\ Continued(w, u) /\ u.value = x
    <3> HIDE DEF x, u
    <3> QED
      BY <2>1, <2>2, ValueFields
  <2>4. ~DropsSecuritySession(c)
    BY <1>5 DEF DropsSecuritySession
  <2>5. body # <<>>
    BY <1>5 DEF ValueIn, WantsResponse
  <2> HIDE DEF u
  <2> QED
    BY <1>5, <2>3, <2>4, <2>5 DEF u
<1> QED
  BY <1>1, <1>2, <1>3, <1>4, <1>5

LEMMA SecuredAlike ==
    ASSUME NEW w, NEW v, Continued(w, v), SameHouse(w, v)
    PROVE  IsSecured(v) = IsSecured(w)
BY DEF Continued, SameHouse, SameSession, IsSecured

LEMMA WriteReplies ==
    ASSUME NEW w \in Worlds, ~Failed(w), w.proc.char \in Chars, NEW body \in Bodies,
           NEW executes \in BOOLEAN, NEW outcome
    PROVE  \E v : /\ Replied(w, v, Write(w, body, executes, outcome), Open(w))
                  /\ Wrote(w, v, body, executes)
<1> DEFINE c == w.proc.char
           late == executes /\ w.proc.timed.expired
           written == WriteValue(w, body, late, outcome)
           st == IF ~IsSecured(w) /\ Db(c).writable
                 THEN "InsufficientAuthentication" ELSE "UnsupportedPDU"
           barred == IsTransient(w) \/ ~MayWrite(w, c)
           unauthorized == Db(c).adminWrite /\ ~ControllerIsAdmin(w)
           untimed == Db(c).timed /\ ~executes
           silent == ~WantsResponse(body) /\ ~Db(c).writeResponse
           u == Write(w, body, executes, outcome)
<1>1. u = IF barred THEN SendError(w, st)
          ELSE IF unauthorized THEN SendError(w, "InsufficientAuthentication")
          ELSE IF untimed THEN SendError(w, "InvalidRequest")
          ELSE IF Failed(written)
          THEN SendError(Error(written, "None"), StatusOf(written.call.err))
          ELSE IF silent THEN SendEmpty(written, "Success")
          ELSE Read(written, outcome, WantsResponse(body))
  BY DEF Write
<1>2. Acted(w, w) /\ Wrote(w, w, body, executes)
  BY ActedSelf DEF Wrote
<1>3. /\ Acted(w, written) /\ Continued(w, written)
      /\ \/ written.value = w.value
         \/ /\ ~late /\ written.value = [w.value EXCEPT ![c] = ValueIn(body)]
            /\ body # <<>> /\ ~DropsSecuritySession(c)
  BY WriteValueActs
<1>4. st \in Statuses
  BY StatusTypes
<1>5. CASE barred
  <2>1. u = SendError(w, st)
    BY <1>1, <1>5
  <2> HIDE DEF st, u
  <2> QED
    BY <1>2, <1>4, <2>1, SendErrorReplies DEF u
<1>6. CASE ~barred /\ unauthorized
  <2>1. u = SendError(w, "InsufficientAuthentication")
    BY <1>1, <1>6
  <2> HIDE DEF u
  <2> QED
    BY <1>2, <2>1, SendErrorReplies, StatusTypes DEF u
<1>7. CASE ~barred /\ ~unauthorized /\ untimed
  <2>1. u = SendError(w, "InvalidRequest")
    BY <1>1, <1>7
  <2> HIDE DEF u
  <2> QED
    BY <1>2, <2>1, SendErrorReplies, StatusTypes DEF u
<1>8. CASE ~barred /\ ~unauthorized /\ ~untimed /\ Failed(written)
  <2> DEFINE v == Error(written, "None")
             s == StatusOf(written.call.err)
  <2>1. u = SendError(v, s)
    BY <1>1, <1>8
  <2>2. s \in Statuses
    BY StatusTypes DEF StatusOf
  <2>3. Acted(w, v) /\ ~Failed(v) /\ v.value = written.value
    BY <1>3, ErrorForgotten
  <2>4. Wrote(w, v, body, executes)
    BY <1>3, <1>8, <2>3 DEF Wrote
  <2> HIDE DEF v, u, s
  <2>5. Replied(w, v, u, Open(w))
    BY <2>1, <2>2, <2>3, SendErrorReplies
  <2> QED
    BY <2>4, <2>5 DEF u
<1>9. CASE ~barred /\ ~unauthorized /\ ~untimed /\ ~Failed(written)
  <2>1. Wrote(w, written, body, executes)
    BY <1>3, <1>9 DEF Wrote
  <2>2. u = IF silent THEN SendEmpty(written, "Success")
            ELSE Read(written, outcome, WantsResponse(body))
    BY <1>1, <1>9
  <2>3. written \in Worlds /\ written.proc = w.proc /\ SameHouse(w, written)
    BY <1>3 DEF Acted, SameAround
  <2>4. WantsResponse(body) \in BOOLEAN
    BY DEF WantsResponse
  <2> HIDE DEF written, u
  <2>5. CASE silent
    <3> DEFINE ok == "Success"
    <3>1. u = SendEmpty(written, ok) /\ ok \in Statuses
      BY <2>2, <2>5 DEF Statuses
    <3> HIDE DEF ok
    <3>2. Replied(w, written, u, Open(w))
      BY <1>3, <1>9, <3>1, SendErrorReplies
    <3> QED
      BY <2>1, <3>2 DEF u
  <2>6. CASE ~silent
    <3> DEFINE wants == WantsResponse(body)
    <3>1. u = Read(written, outcome, wants)
      BY <2>2, <2>6
    <3> HIDE DEF wants
    <3>2. PICK v : Replied(written, v, u, Open(written)) /\ v.value = written.value
      BY <1>9, <2>3, <2>4, <3>1, ReadReplies DEF wants
    <3>3. Acted(w, v)
      BY <1>3, <3>2, ActedOn DEF Replied
    <3>4. IsSecured(written) = IsSecured(w)
      BY <1>3, <2>3, SecuredAlike
    <3>5. Replied(w, v, u, Open(w))
      BY <2>3, <3>2, <3>3, <3>4 DEF Replied, Open
    <3>6. Wrote(w, v, body, executes)
      BY <2>1, <3>2 DEF Wrote
    <3> QED
      BY <3>5, <3>6 DEF u
  <2> QED
    BY <2>5, <2>6
<1> QED
  BY <1>5, <1>6, <1>7, <1>8, <1>9

Plainly == {"ServiceSignatureRead", "CharacteristicSignatureRead",
            "CharacteristicConfiguration", "ProtocolConfiguration", "Token", "TokenUpdate",
            "Info"}

LEMMA TokenTypes ==
    /\ <<"service">> \in Bodies /\ <<"none">> \in Bodies /\ <<"signature">> \in Bodies
    /\ <<"configuration">> \in Bodies /\ <<"token">> \in Bodies /\ <<"info">> \in Bodies
BY DEF Bodies, Words

LEMMA PlainReplies ==
    ASSUME NEW w \in Worlds, ~Failed(w), NEW outcome, w.proc.txn.header.opcode \in Plainly,
           RequestBody(w.proc.txn) \in Bodies
    PROVE  Replied(w, w, HandleRequest(w, outcome), TRUE)
<1> DEFINE o == w.proc.txn.header.opcode
           u == HandleRequest(w, outcome)
<1>1. \A s \in Statuses : Replied(w, w, SendError(w, s), TRUE)
  BY ActedSelf, SendErrorReplies
<1>2. \A b \in Bodies : Replied(w, w, SendResponse(w, b), TRUE)
  BY ActedSelf, SendResponseReplies
<1>3. RequestBody(w.proc.txn) \in Bodies
  OBVIOUS
<1>4. ASSUME NEW r, NEW b \in Bodies
      PROVE  Replied(w, w, SendUnless(w, r, b), TRUE)
  BY <1>1, <1>2, StatusTypes DEF SendUnless
<1>5. ASSUME NEW b \in Bodies
      PROVE  Replied(w, w, ProtocolInformation(w, outcome, b), TRUE)
  BY <1>1, <1>2, StatusTypes DEF ProtocolInformation
<1>6. CASE o = "ServiceSignatureRead"
  <2>1. u = ServiceSignatureRead(w)
    BY <1>6 DEF HandleRequest
  <2> HIDE DEF u
  <2>2. Replied(w, w, u, TRUE)
    BY <1>4, <2>1, TokenTypes DEF ServiceSignatureRead
  <2> QED
    BY <2>2 DEF u
<1>7. CASE o = "CharacteristicSignatureRead"
  <2>1. u = CharacteristicSignatureRead(w)
    BY <1>7 DEF HandleRequest
  <2> HIDE DEF u
  <2>2. Replied(w, w, u, TRUE)
    BY <1>4, <2>1, TokenTypes DEF CharacteristicSignatureRead
  <2> QED
    BY <2>2 DEF u
<1>8. CASE o = "CharacteristicConfiguration"
  <2>1. u = CharacteristicConfiguration(w, outcome)
    BY <1>8 DEF HandleRequest
  <2> HIDE DEF u
  <2>2. Replied(w, w, u, TRUE)
    BY <1>1, <1>2, <2>1, TokenTypes, StatusTypes DEF CharacteristicConfiguration
  <2> QED
    BY <2>2 DEF u
<1>9. CASE o = "ProtocolConfiguration"
  <2>1. u = ProtocolConfiguration(w, outcome)
    BY <1>9 DEF HandleRequest
  <2> HIDE DEF u
  <2>2. Replied(w, w, u, TRUE)
    BY <1>1, <1>2, <1>3, <2>1, StatusTypes DEF ProtocolConfiguration
  <2> QED
    BY <2>2 DEF u
<1>10. CASE o = "Token"
  <2>1. u = Token(w, outcome)
    BY <1>10 DEF HandleRequest
  <2> HIDE DEF u
  <2>2. Replied(w, w, u, TRUE)
    BY <1>5, <2>1, TokenTypes DEF Token
  <2> QED
    BY <2>2 DEF u
<1>11. CASE o = "TokenUpdate"
  <2>1. u = TokenUpdate(w, outcome)
    BY <1>11 DEF HandleRequest
  <2> HIDE DEF u
  <2>2. Replied(w, w, u, TRUE)
    BY <1>5, <2>1, NoneTypes DEF TokenUpdate
  <2> QED
    BY <2>2 DEF u
<1>12. CASE o = "Info"
  <2>1. u = Info(w, outcome)
    BY <1>12 DEF HandleRequest
  <2> HIDE DEF u
  <2>2. Replied(w, w, u, TRUE)
    BY <1>5, <2>1, TokenTypes DEF Info
  <2> QED
    BY <2>2 DEF u
<1> QED
  BY <1>6, <1>7, <1>8, <1>9, <1>10, <1>11, <1>12 DEF Plainly

\* The procedure has responded to its request: world w became u.
Responded(w, u, may) ==
    /\ SameAround(w, u) /\ ~Failed(u) /\ Advanced(w, u)
    /\ u.proc.char = w.proc.char /\ u.proc.timer = w.proc.timer
    /\ u.proc.startedSecured = w.proc.startedSecured
    /\ TransactionSound(u.proc.txn) /\ u.proc.txn.state = "WaitingForInitialRead"
    /\ u.proc.txn.response.tid = w.proc.txn.header.tid
    /\ u.proc.txn.response.total # 0 => may

LEMMA AdvancedFrom ==
    ASSUME NEW w \in Worlds, NEW p \in Procs, p.char = w.proc.char,
           NEW x, x = WithProc(w, p), NEW v \in Worlds, Advanced(x, v),
           NEW q \in Procs, NEW u, u = WithProc(v, q)
    PROVE  Advanced(w, u) /\ (Continued(x, v) => Continued(w, u))
<1>1. /\ x.attr = w.attr /\ x.told = w.told /\ x.link = w.link /\ x.gap = w.gap
      /\ x.session = w.session /\ x.pairing = w.pairing /\ x.proc = p
  BY DEF WithProc, Worlds
<1>2. /\ u.attr = v.attr /\ u.told = v.told /\ u.link = v.link /\ u.gap = v.gap
      /\ u.session = v.session
  BY DEF WithProc, Worlds
<1>3. Subscribed(x) = Subscribed(w)
  BY <1>1 DEF Subscribed
<1>4. Continued(x, v) => Continued(w, u)
  BY <1>1, <1>2 DEF Continued, SameSession
<1>5. ASSUME NEW y, Started(x, v, y)
      PROVE  Started(w, u, y)
  BY <1>1, <1>2, <1>3, <1>5 DEF Started
<1> QED
  BY <1>1, <1>4, <1>5 DEF Advanced

LEMMA RepliedResponds ==
    ASSUME NEW w \in Worlds, NEW p \in Procs, p.char = w.proc.char, p.timer = w.proc.timer,
           p.startedSecured = w.proc.startedSecured,
           p.txn.header.tid = w.proc.txn.header.tid,
           NEW x, x = WithProc(w, p), NEW v, NEW u, NEW may, Replied(x, v, u, may)
    PROVE  /\ Responded(w, u, may)
           /\ u.proc.multi = p.multi /\ u.proc.timed = p.timed /\ u.value = v.value
           /\ u.proc.txn.memory # p.txn.memory => may
           /\ Continued(x, v) => Continued(w, u)
<1>1. x \in Worlds /\ x.proc = p /\ SameAround(w, x)
  BY WithProcFields
<1>2. Acted(x, v) /\ ~Failed(v)
  BY DEF Replied
<1>3. v \in Worlds /\ v.proc = p /\ SameAround(x, v) /\ Advanced(x, v)
  BY <1>1, <1>2 DEF Acted, SameAround
<1>4. PICK status \in Statuses, total \in Nat, memory \in Bodies :
          /\ u = WithTxn(v, SetResponse([v.proc.txn EXCEPT !.memory = memory], status, total))
          /\ total # 0 \/ memory # v.proc.txn.memory => may
  BY DEF Replied
<1> DEFINE s == [p.txn EXCEPT !.memory = memory]
           t == SetResponse(s, status, total)
<1>14. s \in Txns /\ s.header = p.txn.header /\ s.memory = memory
  BY ProcFields DEF Txns
<1>6. u = WithTxn(v, t)
  BY <1>3, <1>4
<1> HIDE DEF s
<1>5. /\ t \in Txns /\ TransactionSound(t) /\ t.state = "WaitingForInitialRead"
      /\ t.response.tid = p.txn.header.tid /\ t.response.total = total /\ t.memory = memory
  BY <1>14, SetResponseFields
<1> HIDE DEF t
<1>7. /\ u.proc.char = p.char /\ u.proc.timer = p.timer
      /\ u.proc.startedSecured = p.startedSecured
      /\ u.proc.multi = p.multi /\ u.proc.timed = p.timed /\ u.proc.txn = t
  BY <1>3, <1>5, <1>6, WithTxnFields
<1>8. PICK q \in Procs : u = WithProc(v, q)
  BY <1>3, <1>5, <1>6, WithTxnFields
<1>9. SameAround(v, u) /\ u.value = v.value /\ u.call = v.call
  BY <1>3, <1>8, WithProcFields
<1>10. SameAround(w, u)
  BY <1>1, <1>3, <1>9, AroundTwice
<1>11. Advanced(w, u) /\ (Continued(x, v) => Continued(w, u))
  BY <1>3, <1>8, AdvancedFrom
<1>12. ~Failed(u)
  BY <1>2, <1>9 DEF Failed
<1>13. Responded(w, u, may)
  BY <1>4, <1>5, <1>7, <1>10, <1>11, <1>12 DEF Responded
<1>15. u.proc.txn.memory # p.txn.memory => may
  BY <1>3, <1>4, <1>5, <1>7
<1> QED
  BY <1>7, <1>9, <1>11, <1>13, <1>15

\* What may have been prepared by a response, and what is kept.
Prepared(w, u) ==
    LET o == w.proc.txn.header.opcode
    IN \/ /\ u.proc.multi = w.proc.multi /\ u.proc.timed = w.proc.timed
          /\ w.proc.multi = "TimedWrite" => u.proc.txn.memory = w.proc.txn.memory
       \/ /\ o = "CharacteristicTimedWrite" /\ w.proc.multi = "None"
          /\ u.proc.multi = "TimedWrite"
          /\ u.proc.timed = [length |-> w.proc.txn.header.total, expired |-> FALSE]
          /\ u.proc.txn.memory = w.proc.txn.memory
          /\ w.proc.txn.header.total <= w.proc.txn.max
       \/ /\ o = "CharacteristicExecuteWrite" /\ w.proc.multi = "TimedWrite"
          /\ u.proc.multi = "None" /\ u.proc.timed = w.proc.timed

\* What may have been written: the body of the request, or the one that was prepared.
Written(w, u) ==
    LET c == w.proc.char
        o == w.proc.txn.header.opcode
    IN \/ u.value = w.value
       \/ /\ MayWrite(w, c) /\ ~DropsSecuritySession(c)
          /\ \/ /\ o = "CharacteristicWrite" /\ ~Db(c).timed
                /\ w.proc.txn.header.total <= w.proc.txn.max
                /\ u.value = [w.value EXCEPT ![c] = ValueIn(RequestBody(w.proc.txn))]
             \/ /\ o = "CharacteristicExecuteWrite" /\ w.proc.multi = "TimedWrite"
                /\ ~w.proc.timed.expired
                /\ TimedBody(w.proc) # <<>>
                /\ u.value = [w.value EXCEPT ![c] = ValueIn(TimedBody(w.proc))]

Processed(w, u) ==
    /\ Responded(w, u, w.proc.txn.header.opcode \in Reading => Open(w))
    /\ Prepared(w, u) /\ Written(w, u)
    /\ Continued(w, u) \/ u.proc.multi = "None"

LEMMA ProcessErrors ==
    ASSUME NEW w \in Worlds, ~Failed(w), NEW t \in Txns, t.header = w.proc.txn.header,
           t.memory = w.proc.txn.memory, NEW status \in Statuses
    PROVE  Processed(w, SendError(WithTxn(w, t), status))
<1> DEFINE p == [w.proc EXCEPT !.txn = t]
           x == WithTxn(w, t)
           u == SendError(x, status)
<1>1. /\ p \in Procs /\ x = WithProc(w, p) /\ p.char = w.proc.char
      /\ p.timer = w.proc.timer /\ p.startedSecured = w.proc.startedSecured
      /\ p.multi = w.proc.multi /\ p.timed = w.proc.timed /\ p.txn = t /\ x.proc = p
  BY WithTxnFields
<1> HIDE DEF p, x, u
<1>2. x \in Worlds /\ ~Failed(x) /\ x.value = w.value
  BY <1>1, WithProcFields DEF Failed
<1> DEFINE may == FALSE
<1> HIDE DEF may
<1>3. Replied(x, x, u, may)
  BY <1>2, ActedSelf, SendErrorReplies DEF u
<1>8. p.txn.header.tid = w.proc.txn.header.tid
  BY <1>1
<1>4. /\ Responded(w, u, may)
      /\ u.proc.multi = p.multi /\ u.proc.timed = p.timed /\ u.value = x.value
      /\ u.proc.txn.memory # p.txn.memory => may
      /\ Continued(x, x) => Continued(w, u)
  BY <1>1, <1>3, <1>8, RepliedResponds
<1>5. Continued(x, x)
  BY <1>2, WorldFields DEF Continued, SameSession
<1>6. Prepared(w, u) /\ Written(w, u) /\ Continued(w, u)
  BY <1>1, <1>2, <1>4, <1>5 DEF Prepared, Written, may
<1>7. Processed(w, u)
  BY <1>4, <1>6 DEF Processed, Responded, may
<1> QED
  BY <1>7 DEF u, x

\* From what HandleRequest does with the request to what it does to the procedure.
LEMMA RepliesProcess ==
    ASSUME NEW w \in Worlds, NEW p \in Procs, p.char = w.proc.char, p.timer = w.proc.timer,
           p.startedSecured = w.proc.startedSecured,
           p.txn.header = w.proc.txn.header,
           NEW x, x = WithProc(w, p), NEW v, NEW u, NEW may, Replied(x, v, u, may),
           may => (w.proc.txn.header.opcode \in Reading => Open(w)),
           p.multi = "None",
           \/ w.proc.multi = p.multi /\ w.proc.timed = p.timed
           \/ /\ w.proc.txn.header.opcode = "CharacteristicExecuteWrite"
              /\ w.proc.multi = "TimedWrite" /\ w.proc.timed = p.timed,
           Written(w, v)
    PROVE  Processed(w, u)
<1>1. p.txn.header.tid = w.proc.txn.header.tid
  OBVIOUS
<1>2. /\ Responded(w, u, may)
      /\ u.proc.multi = p.multi /\ u.proc.timed = p.timed /\ u.value = v.value
  BY <1>1, RepliedResponds
<1>3. Prepared(w, u)
  BY <1>2 DEF Prepared
<1>4. Written(w, u)
  BY <1>2 DEF Written
<1>5. Responded(w, u, w.proc.txn.header.opcode \in Reading => Open(w))
  BY <1>2 DEF Responded
<1> QED
  BY <1>2, <1>3, <1>4, <1>5 DEF Processed

LEMMA OpenAlike ==
    ASSUME NEW w \in Worlds, NEW p \in Procs, p.char = w.proc.char
    PROVE  /\ Open(WithProc(w, p)) = Open(w)
           /\ \A c \in Chars : MayWrite(WithProc(w, p), c) = MayWrite(w, c)
<1> DEFINE u == WithProc(w, p)
<1>1. u.session = w.session /\ u.pairing = w.pairing /\ u.proc.char = w.proc.char
  BY WithProcFields DEF SameAround, SameHouse
<1> HIDE DEF u
<1>2. IsSecured(u) = IsSecured(w)
  BY <1>1 DEF IsSecured
<1>3. Open(u) = Open(w)
  BY <1>1, <1>2 DEF Open
<1>4. \A c \in Chars : MayWrite(u, c) = MayWrite(w, c)
  BY <1>2 DEF MayWrite
<1> QED
  BY <1>3, <1>4 DEF u

LEMMA ProcessPlain ==
    ASSUME NEW w \in Worlds, ~Failed(w), NEW t \in Txns, t.header = w.proc.txn.header,
           w.proc.txn.header.opcode \in Plainly, w.proc.multi = "None", NEW outcome,
           RequestBody(t) \in Bodies
    PROVE  Processed(w, HandleRequest(WithTxn(w, t), outcome))
<1> DEFINE p == [w.proc EXCEPT !.txn = t]
           x == WithTxn(w, t)
           u == HandleRequest(x, outcome)
           may == TRUE
<1>1. /\ p \in Procs /\ x = WithProc(w, p) /\ p.char = w.proc.char
      /\ p.timer = w.proc.timer /\ p.startedSecured = w.proc.startedSecured
      /\ p.multi = w.proc.multi /\ p.timed = w.proc.timed /\ p.txn = t /\ x.proc = p
  BY WithTxnFields
<1> HIDE DEF p, x
<1>2. x \in Worlds /\ ~Failed(x) /\ x.value = w.value
  BY <1>1, WithProcFields DEF Failed
<1>3. x.proc.txn.header.opcode \in Plainly /\ RequestBody(x.proc.txn) \in Bodies
  BY <1>1
<1>4. Replied(x, x, u, may)
  BY <1>2, <1>3, PlainReplies
<1>5. w.proc.txn.header.opcode \notin Reading
  BY DEF Plainly, Reading
<1>6. Written(w, x)
  BY <1>2 DEF Written
<1> HIDE DEF u, may
<1>7. Processed(w, u)
  BY <1>1, <1>4, <1>5, <1>6, RepliesProcess
<1> QED
  BY <1>7 DEF u, x

LEMMA ProcessRead ==
    ASSUME NEW w \in Worlds, ~Failed(w), w.proc.char \in Chars,
           NEW t \in Txns, t.header = w.proc.txn.header, w.proc.multi = "None",
           w.proc.txn.header.opcode = "CharacteristicRead", NEW outcome
    PROVE  Processed(w, HandleRequest(WithTxn(w, t), outcome))
<1> DEFINE p == [w.proc EXCEPT !.txn = t]
           x == WithTxn(w, t)
           u == HandleRequest(x, outcome)
           returned == TRUE
           may == Open(x)
<1>1. /\ p \in Procs /\ x = WithProc(w, p) /\ p.char = w.proc.char
      /\ p.timer = w.proc.timer /\ p.startedSecured = w.proc.startedSecured
      /\ p.multi = w.proc.multi /\ p.timed = w.proc.timed /\ p.txn = t /\ x.proc = p
  BY WithTxnFields
<1> HIDE DEF p, x
<1>2. x \in Worlds /\ ~Failed(x) /\ x.value = w.value /\ x.proc.char \in Chars
  BY <1>1, WithProcFields DEF Failed
<1>3. u = Read(x, outcome, returned)
  BY <1>1 DEF HandleRequest
<1> HIDE DEF u, returned, may
<1>4. returned \in BOOLEAN
  BY DEF returned
<1>5. PICK v : Replied(x, v, u, may) /\ v.value = x.value
  BY <1>2, <1>3, <1>4, ReadReplies DEF may
<1>6. may => Open(w)
  BY <1>1, OpenAlike DEF may
<1>7. Written(w, v)
  BY <1>2, <1>5 DEF Written
<1>8. Processed(w, u)
  BY <1>1, <1>5, <1>6, <1>7, RepliesProcess
<1> QED
  BY <1>8 DEF u, x

\* A write, of the body of the request or of what was prepared.
LEMMA ProcessWrite ==
    ASSUME NEW w \in Worlds, ~Failed(w), w.proc.char \in Chars,
           NEW p \in Procs, p.char = w.proc.char, p.timer = w.proc.timer,
           p.startedSecured = w.proc.startedSecured, p.txn.header = w.proc.txn.header,
           p.multi = "None", p.timed = w.proc.timed,
           NEW executes \in BOOLEAN, NEW body \in Bodies, NEW outcome,
           \/ /\ ~executes /\ w.proc.txn.header.opcode = "CharacteristicWrite"
              /\ w.proc.multi = "None" /\ body = RequestBody(w.proc.txn)
              /\ w.proc.txn.header.total <= w.proc.txn.max
           \/ /\ executes /\ w.proc.txn.header.opcode = "CharacteristicExecuteWrite"
              /\ w.proc.multi = "TimedWrite" /\ body = TimedBody(w.proc)
    PROVE  Processed(w, Write(WithProc(w, p), body, executes, outcome))
<1> DEFINE x == WithProc(w, p)
           u == Write(x, body, executes, outcome)
           may == Open(x)
<1>1. x \in Worlds /\ ~Failed(x) /\ x.value = w.value /\ x.proc = p
  BY WithProcFields DEF Failed
<1> HIDE DEF x
<1>2. PICK v : Replied(x, v, u, may) /\ Wrote(x, v, body, executes)
  BY <1>1, WriteReplies
<1> HIDE DEF u, may
<1>3. may => Open(w)
  BY OpenAlike DEF may, x
<1>4. MayWrite(x, w.proc.char) = MayWrite(w, w.proc.char)
  BY OpenAlike DEF x
<1>5. Written(w, v)
  BY <1>1, <1>2, <1>4 DEF Written, Wrote
<1>6. Processed(w, u)
  BY <1>2, <1>3, <1>5, RepliesProcess DEF x
<1> QED
  BY <1>6 DEF u, x

LEMMA ProcessTimedWrite ==
    ASSUME NEW w \in Worlds, ~Failed(w),
           NEW t \in Txns, t.header = w.proc.txn.header, t.memory = w.proc.txn.memory,
           w.proc.multi = "None",
           w.proc.txn.header.opcode = "CharacteristicTimedWrite",
           w.proc.txn.header.total <= w.proc.txn.max, NEW outcome
    PROVE  Processed(w, HandleRequest(WithTxn(w, t), outcome))
<1> DEFINE x == WithTxn(w, t)
           d == [length |-> w.proc.txn.header.total, expired |-> FALSE]
           p == [w.proc EXCEPT !.txn = t, !.multi = "TimedWrite", !.timed = d]
           y == WithProc(w, p)
           u == HandleRequest(x, outcome)
           may == FALSE
<1>1. /\ x.proc = [w.proc EXCEPT !.txn = t] /\ x.proc.txn = t
      /\ x = WithProc(w, [w.proc EXCEPT !.txn = t]) /\ [w.proc EXCEPT !.txn = t] \in Procs
  BY WithTxnFields
<1>2. u = TimedWrite(x)
  <2> HIDE DEF x
  <2> QED
    BY <1>1 DEF HandleRequest
<1>3. CASE IsTransient(x)
  <2>1. u = SendError(x, "UnsupportedPDU")
    BY <1>2, <1>3 DEF TimedWrite
  <2> QED
    BY <2>1, ProcessErrors, StatusTypes
<1>4. CASE ~IsTransient(x)
  <2>1. /\ p \in Procs /\ p.char = w.proc.char /\ p.timer = w.proc.timer
        /\ p.startedSecured = w.proc.startedSecured /\ p.multi = "TimedWrite"
        /\ p.timed = d /\ p.txn = t
    <3>1. d \in [length : Nat, expired : BOOLEAN]
      BY WorldFields, ProcFields, TxnFields
    <3> HIDE DEF d
    <3> QED
      BY <3>1, WorldFields DEF Procs
  <2>2. [x EXCEPT !.proc.multi = "TimedWrite",
                  !.proc.timed = [Nothing EXCEPT !.length = x.proc.txn.header.total]] = y
    <3>1. [Nothing EXCEPT !.length = x.proc.txn.header.total] = d
      <4> HIDE DEF x
      <4>1. x.proc.txn.header.total = w.proc.txn.header.total
        BY <1>1
      <4>2. Nothing \in [length : Nat, expired : BOOLEAN] /\ ~Nothing.expired
        BY DEF Nothing
      <4> DEFINE r == [Nothing EXCEPT !.length = x.proc.txn.header.total]
      <4>3. w.proc.txn.header.total \in Nat
        BY WorldFields, ProcFields, TxnFields
      <4>4. /\ r \in [length : Nat, expired : BOOLEAN] /\ r.length = w.proc.txn.header.total
            /\ r.expired = FALSE
        BY <4>1, <4>2, <4>3
      <4> HIDE DEF r
      <4>5. r = d
        BY <4>4
      <4> QED
        BY <4>5 DEF r
    <3> HIDE DEF d
    <3> QED
      BY <3>1, <1>1, WorldFields DEF WithProc, WithTxn, Worlds, Procs
  <2> DEFINE ok == "Success"
  <2>3. u = SendEmpty(y, ok) /\ ok \in Statuses
    BY <1>2, <1>4, <2>2 DEF TimedWrite, Statuses
  <2> HIDE DEF y, may, u, p, ok
  <2>4. y \in Worlds /\ ~Failed(y) /\ y.value = w.value
    BY <2>1, WithProcFields DEF y, Failed
  <2>5. Replied(y, y, u, may)
    BY <2>3, <2>4, ActedSelf, SendErrorReplies
  <2>6. p.txn.header.tid = w.proc.txn.header.tid
    BY <2>1
  <2>7. /\ Responded(w, u, may)
        /\ u.proc.multi = p.multi /\ u.proc.timed = p.timed /\ u.value = y.value
        /\ u.proc.txn.memory # p.txn.memory => may
        /\ Continued(y, y) => Continued(w, u)
    BY <2>1, <2>5, <2>6, RepliedResponds DEF y
  <2>8. Continued(y, y)
    BY <2>4, WorldFields DEF Continued, SameSession
  <2>9. Prepared(w, u)
    BY <2>1, <2>7 DEF Prepared, may
  <2>10. Written(w, u)
    BY <2>4, <2>7 DEF Written
  <2>11. Responded(w, u, w.proc.txn.header.opcode \in Reading => Open(w))
    BY <2>7 DEF Responded, may
  <2>12. Processed(w, u)
    BY <2>7, <2>8, <2>9, <2>10, <2>11 DEF Processed
  <2> QED
    BY <2>12 DEF u
<1> QED
  BY <1>3, <1>4

LEMMA ProcessExecuteWrite ==
    ASSUME NEW w \in Worlds, ~Failed(w), w.proc.char \in Chars,
           NEW t \in Txns, t.header = w.proc.txn.header, t.memory = w.proc.txn.memory,
           w.proc.multi = "TimedWrite", TimedBody(w.proc) \in Bodies,
           w.proc.txn.header.opcode = "CharacteristicExecuteWrite", NEW outcome
    PROVE  Processed(w, HandleRequest(WithTxn(w, t), outcome))
<1> DEFINE x == WithTxn(w, t)
           p == [w.proc EXCEPT !.txn = t, !.multi = "None"]
           y == WithProc(w, p)
           u == HandleRequest(x, outcome)
           body == TimedBody(w.proc)
           executes == TRUE
<1>1. /\ x.proc = [w.proc EXCEPT !.txn = t] /\ x.proc.txn = t /\ x.proc.timed = w.proc.timed
      /\ x = WithProc(w, [w.proc EXCEPT !.txn = t]) /\ [w.proc EXCEPT !.txn = t] \in Procs
  BY WithTxnFields
<1>2. u = ExecuteWrite(x, outcome)
  <2> HIDE DEF x
  <2> QED
    BY <1>1 DEF HandleRequest
<1>3. /\ p \in Procs /\ p.char = w.proc.char /\ p.timer = w.proc.timer
      /\ p.startedSecured = w.proc.startedSecured /\ p.multi = "None"
      /\ p.timed = w.proc.timed /\ p.txn = t
  BY WorldFields DEF Procs
<1>4. [x EXCEPT !.proc.multi = "None"] = y
  BY <1>1, WorldFields DEF WithProc, WithTxn, Worlds, Procs
<1>5. u = Write(y, body, executes, outcome)
  <2>1. TimedBody(x.proc) = body
    BY <1>1 DEF TimedBody
  <2> HIDE DEF x, y, body
  <2> QED
    BY <1>2, <1>4, <2>1 DEF ExecuteWrite
<1>6. body \in Bodies
  OBVIOUS
<1>7. executes /\ executes \in BOOLEAN
  OBVIOUS
<1> HIDE DEF y, u, p, executes, body
<1>8. Processed(w, u)
  BY <1>3, <1>5, <1>6, <1>7, ProcessWrite DEF y, body
<1> QED
  BY <1>8 DEF u

\* A request fails or is responded to.
LEMMA ProcessTransactionFields ==
    ASSUME NEW w \in Worlds, ~Failed(w), w.proc.char \in Chars, NEW outcome, Held(w.proc)
    PROVE  LET u == ProcessTransaction(w, outcome)
           IN \/ Processed(w, u)
              \/ /\ (w.proc.txn.header.opcode = "CharacteristicExecuteWrite")
                       # (w.proc.multi = "TimedWrite")
                 /\ Failed(u) /\ SameAround(w, u) /\ u.value = w.value
<1> DEFINE t == GetRequest(w.proc.txn)
           x == WithTxn(w, t)
           u == ProcessTransaction(w, outcome)
           h == w.proc.txn.header
<1>1. w.proc.txn \in Txns /\ h.opcode \in Words
  BY WorldFields, ProcFields, TxnFields DEF Headers
<1>2. /\ t \in Txns /\ t.header = h /\ t.memory = w.proc.txn.memory
      /\ (t.err = "None") = (h.total <= w.proc.txn.max)
  BY <1>1, GetRequestFields
<1>3. x = [w EXCEPT !.proc.txn = GetRequest(@)]
  BY DEF WithTxn
<1> HIDE DEF t
<1>4. /\ x \in Worlds /\ ~Failed(x) /\ x.value = w.value /\ x.proc.txn = t
      /\ SameAround(w, x)
  <2> DEFINE p == [w.proc EXCEPT !.txn = t]
  <2>1. p \in Procs /\ x = WithProc(w, p) /\ x.proc.txn = t
    BY <1>2, WithTxnFields
  <2> HIDE DEF p, x
  <2> QED
    BY <2>1, WithProcFields DEF Failed
<1>5. u = IF t.err # "None" THEN SendError(x, "InvalidRequest")
          ELSE IF h.opcode \notin Opcodes THEN SendError(x, "UnsupportedPDU")
          ELSE IF h.iid # "Own" /\ h.opcode # "ServiceSignatureRead"
          THEN SendError(x, "InvalidInstanceID")
          ELSE IF (h.opcode = "CharacteristicExecuteWrite") # (w.proc.multi = "TimedWrite")
          THEN Error(x, "InvalidState")
          ELSE HandleRequest(x, outcome)
  <2> HIDE DEF x
  <2> QED
    BY <1>2, <1>3, <1>4 DEF ProcessTransaction
<1> DEFINE r == HandleRequest(x, outcome)
<1>6. ASSUME NEW status \in Statuses
      PROVE  Processed(w, SendError(x, status))
  BY <1>2, ProcessErrors
<1>7. CASE /\ t.err = "None" /\ h.opcode \in Opcodes
           /\ ~(h.iid # "Own" /\ h.opcode # "ServiceSignatureRead")
           /\ ~((h.opcode = "CharacteristicExecuteWrite") # (w.proc.multi = "TimedWrite"))
  <2>1. u = r
    BY <1>5, <1>7
  <2>2. h.total <= w.proc.txn.max
    BY <1>2, <1>7
  <2>3. w.proc.multi \in {"None", "TimedWrite"}
    BY WorldFields, ProcFields
  <2>6. /\ RequestBody(w.proc.txn) \in Bodies /\ RequestBody(t) = RequestBody(w.proc.txn)
        /\ w.proc.multi = "TimedWrite" => TimedBody(w.proc) \in Bodies
    BY <1>2, <2>2, WorldFields, HeldBodies DEF RequestBody
  <2>4. CASE h.opcode = "CharacteristicExecuteWrite"
    <3>1. Processed(w, r)
      BY <1>2, <1>7, <2>4, <2>6, ProcessExecuteWrite
    <3> QED
      BY <2>1, <3>1
  <2>5. CASE h.opcode # "CharacteristicExecuteWrite"
    <3>1. w.proc.multi = "None"
      BY <1>7, <2>3, <2>5
    <3>2. CASE h.opcode = "CharacteristicTimedWrite"
      <4>1. Processed(w, r)
        BY <1>2, <2>2, <3>1, <3>2, ProcessTimedWrite
      <4> QED
        BY <2>1, <4>1
    <3>3. CASE h.opcode = "CharacteristicRead"
      <4>1. Processed(w, r)
        BY <1>2, <3>1, <3>3, ProcessRead
      <4> QED
        BY <2>1, <4>1
    <3>4. CASE h.opcode = "CharacteristicWrite"
      <4> DEFINE p == [w.proc EXCEPT !.txn = t]
                 executes == FALSE
                 body == RequestBody(w.proc.txn)
      <4>1. /\ p \in Procs /\ x = WithProc(w, p) /\ p.char = w.proc.char
            /\ p.timer = w.proc.timer /\ p.startedSecured = w.proc.startedSecured
            /\ p.multi = w.proc.multi /\ p.timed = w.proc.timed /\ p.txn = t
        BY <1>2, WithTxnFields
      <4>2. r = Write(x, body, executes, outcome)
        <5> HIDE DEF x
        <5> QED
          BY <1>2, <1>4, <2>6, <3>4 DEF HandleRequest
      <4>3. ~executes /\ executes \in BOOLEAN
        OBVIOUS
      <4>4. body \in Bodies
        BY <2>6
      <4> HIDE DEF p, executes, x, r, body
      <4>5. Processed(w, Write(WithProc(w, p), body, executes, outcome))
        BY <1>2, <2>2, <3>1, <3>4, <4>1, <4>3, <4>4, ProcessWrite DEF body
      <4> QED
        BY <2>1, <4>1, <4>2, <4>5
    <3>5. CASE h.opcode \in Plainly
      <4>1. Processed(w, r)
        BY <1>2, <2>6, <3>1, <3>5, ProcessPlain
      <4> QED
        BY <2>1, <4>1
    <3> QED
      BY <1>7, <2>5, <3>2, <3>3, <3>4, <3>5 DEF Opcodes, Plainly
  <2> QED
    BY <2>4, <2>5
<1>8. CASE t.err # "None" \/ h.opcode \notin Opcodes
           \/ (h.iid # "Own" /\ h.opcode # "ServiceSignatureRead")
  <2>1. \E status \in Statuses : u = SendError(x, status)
    <3> HIDE DEF u, x
    <3> QED
      BY <1>5, <1>8, StatusTypes
  <2> HIDE DEF u
  <2>2. Processed(w, u)
    BY <1>6, <2>1
  <2> QED
    BY <2>2 DEF u
<1>9. CASE /\ u = Error(x, "InvalidState")
           /\ (h.opcode = "CharacteristicExecuteWrite") # (w.proc.multi = "TimedWrite")
  <2> DEFINE e == "InvalidState"
  <2>1. e \in Errors /\ e # "None" /\ u = Error(x, e)
    BY <1>9 DEF Errors
  <2> HIDE DEF e, x, u
  <2>2. SameAround(x, u) /\ u.value = x.value /\ Failed(u)
    BY <1>4, <2>1, ErrorActs DEF Acted
  <2>3. SameAround(w, u)
    BY <1>4, <2>2, AroundTwice
  <2>4. Failed(u) /\ SameAround(w, u) /\ u.value = w.value
    BY <1>4, <2>2, <2>3
  <2> QED
    BY <1>9, <2>4 DEF u
<1> QED
  <2> HIDE DEF u, x
  <2>1. CASE /\ t.err = "None" /\ h.opcode \in Opcodes
             /\ ~(h.iid # "Own" /\ h.opcode # "ServiceSignatureRead")
             /\ (h.opcode = "CharacteristicExecuteWrite") # (w.proc.multi = "TimedWrite")
    <3>1. u = Error(x, "InvalidState")
      BY <1>5, <2>1
    <3> QED
      BY <1>9, <2>1, <3>1 DEF u
  <2> QED
    BY <1>7, <1>8, <2>1 DEF u

-----------------------------------------------------------------------------
(* GATT reads.                                                             *)

\* What is so after every call, also one that ends the link.
Lived(w, u) ==
    /\ u \in Worlds /\ SameAttr(w, u) /\ SameHouse(w, u) /\ IndicatedTo(w, u)
    /\ u.link.connected = w.link.connected

\* The link is to end.
Closed(w) == w.session.terminal /\ ~w.session.active

LEMMA AroundLives ==
    ASSUME NEW w, NEW u, SameAround(w, u)
    PROVE  Lived(w, u)
BY DEF SameAround, Lived

LEMMA TurnedLives ==
    ASSUME NEW w \in Worlds, NEW u, Turned(w, u)
    PROVE  Lived(w, u) /\ u.value = w.value /\ u.proc = w.proc
<1>1. u \in Worlds /\ u.attr = w.attr
  BY DEF Turned
<1>2. IndicatedTo(w, u)
  BY <1>1, NoIndication
<1> QED
  BY <1>1, <1>2 DEF Turned, Lived, SameAttr, SameTalk, SameHouse

LEMMA LivedTwice ==
    ASSUME NEW w \in Worlds, NEW v, NEW u, Lived(w, v), Lived(v, u)
    PROVE  Lived(w, u)
<1>1. IndicatedTo(w, u)
  BY IndicatedTwice DEF Lived
<1> QED
  BY <1>1 DEF Lived, SameAttr, SameHouse, Proves

LEMMA TerminateLives ==
    ASSUME NEW w \in Worlds
    PROVE  /\ Lived(w, Terminate(w)) /\ Terminate(w).value = w.value
           /\ Closed(Terminate(w))
           /\ Terminate(w).proc = w.proc /\ Terminate(w).attr = w.attr
           /\ Terminate(w).call = w.call
<1> DEFINE t == TRUE
           u == Terminate(w)
<1>1. t \in BOOLEAN /\ t /\ u = SessionInvalidate(w, t)
  BY DEF Terminate
<1> HIDE DEF t, u
<1>2. Ended(w, u) /\ u.session.terminal
  <2>1. Ended(w, u) /\ u.session.terminal = (w.session.terminal \/ t)
    BY <1>1, InvalidateFields
  <2> QED
    BY <1>1, <2>1
<1>3. IndicatedTo(w, u)
  BY <1>2, NoIndication DEF Ended
<1>4. Lived(w, u)
  BY <1>2, <1>3 DEF Ended, Lived, SameAttr, SameTalk
<1> QED
  BY <1>2, <1>4 DEF Ended, SameTalk, Closed, u

\* The link, the session and the characteristics are as they were.
Stayed(w, u) ==
    /\ u.attr = w.attr /\ u.told = w.told /\ u.link = w.link
    /\ SameSession(w.session, u.session) /\ u.session.linkTimer = w.session.linkTimer

LEMMA StayedTwice ==
    ASSUME NEW w, NEW v, NEW u, Stayed(w, v), Stayed(v, u)
    PROVE  Stayed(w, u)
BY DEF Stayed, SameSession

LEMMA WithProcStays ==
    ASSUME NEW w \in Worlds, NEW p \in Procs
    PROVE  Stayed(w, WithProc(w, p)) /\ Lived(w, WithProc(w, p))
<1> DEFINE u == WithProc(w, p)
<1>1. /\ SameAround(w, u) /\ Continued(w, u) /\ u.session = w.session /\ u.link = w.link
      /\ u.attr = w.attr
  BY WithProcFields
<1> HIDE DEF u
<1>2. Stayed(w, u)
  BY <1>1 DEF Continued, Stayed
<1>3. Lived(w, u)
  BY <1>1, AroundLives
<1> QED
  BY <1>2, <1>3 DEF u

LEMMA EncryptStays ==
    ASSUME NEW w \in Worlds, ~Failed(w)
    PROVE  LET u == Encrypt(w)
           IN Stayed(w, u) /\ Lived(w, u) /\ u.value = w.value /\ u.proc = w.proc
<1> DEFINE u == Encrypt(w)
<1>1. Turned(w, u) /\ u.session = w.session
  BY EncryptFields
<1> HIDE DEF u
<1>2. SameSession(w.session, u.session)
  BY <1>1, WorldFields DEF SameSession
<1> QED
  BY <1>1, <1>2, TurnedLives DEF Turned, Stayed, u

LEMMA DidSendStays ==
    ASSUME NEW w \in Worlds
    PROVE  LET u == DidSendGATTResponse(w)
           IN /\ Stayed(w, u) /\ Lived(w, u) /\ u.value = w.value /\ u.proc = w.proc
              /\ u.call = w.call
<1> DEFINE u == DidSendGATTResponse(w)
<1>1. /\ Turned(w, u) /\ SameSession(w.session, u.session)
      /\ u.session.linkTimer = w.session.linkTimer /\ u.call = w.call
  BY DidSendFields
<1> HIDE DEF u
<1> QED
  BY <1>1, TurnedLives DEF Turned, Stayed, u

\* The transaction goes on with its response, or is over, and the procedure with it
\* unless it has prepared a write.
Answering(p, q) ==
    /\ q \in Procs /\ q.char = p.char /\ q.startedSecured = p.startedSecured
    /\ q.multi = p.multi /\ q.timed = p.timed
    /\ p.multi = "TimedWrite" => q.txn.memory = p.txn.memory
    /\ TransactionSound(q.txn)
    /\ \/ /\ q.timer = p.timer /\ q.txn.state = "WritingResponse"
          /\ q.txn.response = p.txn.response
       \/ /\ q.timer = (p.timer /\ p.multi # "None")
          /\ q.txn.state = "WaitingForInitialWrite" /\ q.txn.response.total = 0
          /\ p.multi = "TimedWrite" => q.txn.max = 0

LEMMA CompletedFields ==
    ASSUME NEW w \in Worlds, TransactionSound(w.proc.txn), w.proc.txn.state = "WritingResponse"
    PROVE  \E q : Answering(w.proc, q) /\ CompletedIfFinal(w) = WithProc(w, q)
<1> DEFINE p == w.proc
<1>1. p \in Procs /\ p.multi \in {"None", "TimedWrite"} /\ p.timer \in BOOLEAN
  BY WorldFields, ProcFields
<1>2. CASE ~IsFinalFragment(p.txn)
  <2>1. CompletedIfFinal(w) = w
    BY <1>2 DEF CompletedIfFinal
  <2>2. w = WithProc(w, p)
    BY DEF WithProc, Worlds
  <2>3. Answering(p, p)
    BY <1>1 DEF Answering
  <2> QED
    BY <2>1, <2>2, <2>3
<1>3. CASE IsFinalFragment(p.txn) /\ p.multi = "None"
  <2> DEFINE t == FreeBuffer
             q == [p EXCEPT !.timer = FALSE, !.txn = t]
  <2>1. /\ t \in Txns /\ t.state = "WaitingForInitialWrite"
        /\ TransactionSound(t) /\ t.response.total = 0
    BY NewTransactionFields, NoneTypes, BufferAssumption DEF FreeBuffer
  <2>2. CompletedIfFinal(w) = WithProc(w, q)
    <3>1. CompletedIfFinal(w) = [w EXCEPT !.proc.timer = FALSE, !.proc.txn = t]
      BY <1>3 DEF CompletedIfFinal, CompleteTransaction
    <3> HIDE DEF t
    <3> QED
      BY <3>1 DEF WithProc, Worlds
  <2> HIDE DEF t
  <2>3. /\ q \in Procs /\ q.char = p.char /\ q.startedSecured = p.startedSecured
        /\ q.multi = p.multi /\ q.timed = p.timed /\ q.txn = t /\ q.timer = FALSE
    BY <1>1, <2>1 DEF Procs
  <2> HIDE DEF q
  <2>4. q.timer = (p.timer /\ p.multi # "None")
    BY <1>1, <1>3, <2>3
  <2>5. Answering(p, q)
    BY <1>3, <2>1, <2>3, <2>4 DEF Answering
  <2> QED
    BY <2>2, <2>5
<1>4. CASE IsFinalFragment(p.txn) /\ p.multi # "None"
  <2> DEFINE n == 0
             t == NewTransaction(p.txn.memory, n)
             q == [p EXCEPT !.txn = t]
  <2>1. /\ n \in Nat /\ n = 0 /\ t = NewTransaction(p.txn.memory, 0)
        /\ p.txn.memory \in Bodies
    BY <1>1, ProcFields, TxnFields
  <2> HIDE DEF n
  <2>2. /\ t \in Txns /\ t.state = "WaitingForInitialWrite" /\ t.max = n
        /\ TransactionSound(t) /\ t.response.total = 0 /\ t.memory = p.txn.memory
    BY <2>1, NewTransactionFields
  <2>3. CompletedIfFinal(w) = WithProc(w, q)
    <3>1. CompletedIfFinal(w) = [w EXCEPT !.proc.txn = t]
      BY <1>4, <2>1 DEF CompletedIfFinal, CompleteTransaction
    <3> HIDE DEF t
    <3> QED
      BY <3>1 DEF WithProc, Worlds
  <2> HIDE DEF t
  <2>4. /\ q \in Procs /\ q.char = p.char /\ q.startedSecured = p.startedSecured
        /\ q.multi = p.multi /\ q.timed = p.timed /\ q.txn = t /\ q.timer = p.timer
    BY <1>1, <2>2 DEF Procs
  <2> HIDE DEF q
  <2>5. q.timer = (p.timer /\ p.multi # "None")
    BY <1>1, <1>4, <2>4
  <2>6. Answering(p, q)
    BY <2>1, <2>2, <2>4, <2>5 DEF Answering
  <2> QED
    BY <2>3, <2>6
<1> QED
  BY <1>2, <1>3, <1>4

\* The end of a read of a response: it fails, it ends the link, or the response goes on.
ReadOn(w, u) ==
    /\ Lived(w, u) /\ u.value = w.value
    /\ Failed(u) \/ Closed(u) \/ (Stayed(w, u) /\ Answering(w.proc, u.proc))

LEMMA SendReadFields ==
    ASSUME NEW w \in Worlds, TransactionSound(w.proc.txn),
           w.proc.txn.state = "WritingResponse", NEW secured
    PROVE  ReadOn(w, SendRead(w, secured))
<1> DEFINE u == SendRead(w, secured)
<1>1. CASE Failed(w)
  <2>1. u = w
    BY <1>1 DEF SendRead
  <2>2. Lived(w, w)
    BY ActedSelf, AroundLives DEF Acted
  <2> QED
    BY <1>1, <2>1, <2>2 DEF ReadOn
<1>2. CASE ~Failed(w)
  <2>1. PICK q : Answering(w.proc, q) /\ CompletedIfFinal(w) = WithProc(w, q)
    BY CompletedFields
  <2> DEFINE c == WithProc(w, q)
             d == DidSendGATTResponse(c)
  <2>2. u = ClosedIfLost(d, secured)
    BY <1>2, <2>1 DEF SendRead
  <2>3. q \in Procs
    BY <2>1 DEF Answering
  <2>4. /\ c \in Worlds /\ Stayed(w, c) /\ Lived(w, c) /\ c.value = w.value /\ c.proc = q
    BY <2>3, WithProcFields, WithProcStays
  <2> HIDE DEF c
  <2>5. Stayed(c, d) /\ Lived(c, d) /\ d.value = c.value /\ d.proc = c.proc
    BY <2>4, DidSendStays
  <2> HIDE DEF d
  <2>6. Stayed(w, d) /\ Lived(w, d) /\ d.value = w.value /\ d.proc = q
    BY <2>4, <2>5, StayedTwice, LivedTwice
  <2>7. CASE u = d
    BY <2>1, <2>6, <2>7 DEF ReadOn
  <2>8. CASE u = Terminate(d)
    <3> DEFINE e == Terminate(d)
    <3>1. d \in Worlds
      BY <2>6 DEF Lived
    <3>2. Lived(d, e) /\ e.value = d.value /\ Closed(e)
      BY <3>1, TerminateLives
    <3> HIDE DEF e
    <3>3. Lived(w, e)
      BY <2>6, <3>2, LivedTwice
    <3>4. ReadOn(w, e)
      BY <2>6, <3>2, <3>3 DEF ReadOn
    <3> QED
      BY <2>8, <3>4 DEF e
  <2> QED
    BY <2>2, <2>7, <2>8 DEF ClosedIfLost
<1> QED
  BY <1>1, <1>2

LEMMA SealReadFields ==
    ASSUME NEW w \in Worlds, ~Failed(w),
           w.proc.txn.err = "None" =>
               TransactionSound(w.proc.txn) /\ w.proc.txn.state = "WritingResponse",
           NEW secured
    PROVE  ReadOn(w, SealRead(w, secured))
<1> DEFINE u == SealRead(w, secured)
           err == w.proc.txn.err
<1>1. CASE err # "None"
  <2>1. u = Error(w, err)
    BY <1>1 DEF SealRead
  <2>2. err \in Errors
    BY WorldFields, ProcFields, TxnFields
  <2> HIDE DEF err, u
  <2>3. Turned(w, u) /\ Failed(u)
    BY <1>1, <2>1, <2>2, ErrorFields
  <2> QED
    BY <2>3, TurnedLives DEF ReadOn, u
<1>2. CASE err = "None" /\ ~secured
  <2>1. u = SendRead(w, secured)
    BY <1>2 DEF SealRead
  <2> QED
    BY <1>2, <2>1, SendReadFields
<1>3. CASE err = "None" /\ secured
  <2> DEFINE e == Encrypt(w)
             r == SendRead(e, secured)
  <2>1. u = r
    BY <1>3 DEF SealRead
  <2>2. Stayed(w, e) /\ Lived(w, e) /\ e.value = w.value /\ e.proc = w.proc
    BY EncryptStays
  <2> HIDE DEF e
  <2>3. e \in Worlds
    BY <2>2 DEF Lived
  <2>4. ReadOn(e, r)
    BY <1>3, <2>2, <2>3, SendReadFields
  <2> HIDE DEF r
  <2>5. Lived(w, r)
    BY <2>2, <2>4, LivedTwice DEF ReadOn
  <2>6. Stayed(e, r) => Stayed(w, r)
    BY <2>2, StayedTwice
  <2>7. ReadOn(w, r)
    BY <2>2, <2>4, <2>5, <2>6 DEF ReadOn
  <2> QED
    BY <2>1, <2>7 DEF r
<1> QED
  BY <1>1, <1>2, <1>3

\* space and room decide how much of the response a fragment carries.
LEMMA FragmentFields ==
    ASSUME NEW w \in Worlds, ~Failed(w), TransactionSound(w.proc.txn),
           NEW secured, NEW space, NEW room \in Nat
    PROVE  LET u == ReadFragment(w, secured, space, room)
           IN /\ ReadOn(w, u)
              /\ Failed(u) \/ w.proc.txn.state \in Responding
<1> DEFINE fits == space = "Body"
           t == HandleRead(w.proc.txn, fits, room)
           x == WithTxn(w, t)
           u == ReadFragment(w, secured, space, room)
           p == [w.proc EXCEPT !.txn = t]
<1>1. u = SealRead(x, secured)
  BY DEF ReadFragment, WithTxn
<1>2. fits \in BOOLEAN /\ w.proc.txn \in Txns
  BY WorldFields, ProcFields
<1> HIDE DEF fits
<1>3. /\ t \in Txns
      /\ (t.err = "None") = (w.proc.txn.state \in Responding /\ fits)
      /\ t.err = "None" =>
             /\ TransactionSound(t) /\ t.state = "WritingResponse"
             /\ t.response = w.proc.txn.response /\ t.memory = w.proc.txn.memory
  BY <1>2, HandleReadFields
<1> HIDE DEF t
<1>4. /\ p \in Procs /\ x = WithProc(w, p) /\ x.proc.txn = t
      /\ x.proc.char = w.proc.char /\ x.proc.timer = w.proc.timer
      /\ x.proc.startedSecured = w.proc.startedSecured
      /\ x.proc.multi = w.proc.multi /\ x.proc.timed = w.proc.timed
  BY <1>3, WithTxnFields
<1> HIDE DEF p, x
<1>5. /\ x \in Worlds /\ ~Failed(x) /\ Stayed(w, x) /\ Lived(w, x) /\ x.value = w.value
  BY <1>4, WithProcFields, WithProcStays DEF Failed
<1>6. ReadOn(x, u)
  BY <1>1, <1>3, <1>4, <1>5, SealReadFields
<1>7. Lived(w, u)
  BY <1>5, <1>6, LivedTwice DEF ReadOn
<1>8. Stayed(x, u) => Stayed(w, u)
  BY <1>5, StayedTwice
<1>9. CASE t.err = "None"
  <2>1. Answering(x.proc, u.proc) => Answering(w.proc, u.proc)
    BY <1>3, <1>4, <1>9 DEF Answering
  <2>2. ReadOn(w, u)
    BY <1>5, <1>6, <1>7, <1>8, <2>1 DEF ReadOn
  <2> QED
    BY <1>3, <1>9, <2>2 DEF u
<1>10. CASE t.err # "None"
  <2>1. u = Error(x, t.err) /\ t.err \in Errors
    BY <1>1, <1>3, <1>4, <1>10, TxnFields DEF SealRead
  <2> HIDE DEF u
  <2>2. Failed(u)
    BY <1>5, <1>10, <2>1, ErrorFields
  <2>3. ReadOn(w, u)
    BY <1>5, <1>6, <1>7, <2>2 DEF ReadOn
  <2> QED
    BY <2>2, <2>3 DEF u
<1> QED
  BY <1>9, <1>10

\* The full procedure of a characteristic, on a link that goes on.
Ready(w) ==
    /\ w \in Worlds /\ ~Failed(w) /\ ~w.session.terminal /\ w.proc.char \in Chars
    /\ ProceduresSound(w) /\ SecuritySound(w)

\* What was told of the subscriptions goes with the session.
ToldOn(w, u) ==
    \/ u.told = w.told /\ u.session.active = w.session.active
    \/ u.told = w.told \cup Subscribed(w) /\ u.session.active

\* The response is to the request that was there, or the one that was there.
ResponseOf(w, u) ==
    \/ /\ w.proc.txn.state = "ReadingRequest"
       /\ u.proc.txn.response.tid = w.proc.txn.header.tid
       /\ /\ u.proc.txn.response.total # 0 /\ w.proc.txn.header.opcode \in Reading
          /\ ~Db(w.proc.char).openRead
          => w.proc.startedSecured
    \/ w.proc.txn.state \in Responding /\ u.proc.txn.response = w.proc.txn.response

\* The request was there whole and has been handled, or had been before.
Handled(w, u) ==
    \/ IsRequestAvailable(w.proc.txn)
    \/ /\ w.proc.txn.state \in Responding
       /\ u.proc.multi = w.proc.multi /\ u.proc.timed = w.proc.timed
       /\ w.proc.multi = "TimedWrite" => u.proc.txn.memory = w.proc.txn.memory

ReadDone(w, u) ==
    /\ Ready(u) /\ u.proc.char = w.proc.char /\ u.proc.startedSecured = w.proc.startedSecured
    /\ Prepared(w, u) /\ ToldOn(w, u) /\ Handled(w, u)
    /\ u.attr = w.attr \/ u.session.active
    /\ \/ u.proc.txn.state = "WaitingForInitialWrite"
       \/ u.proc.txn.state \in Responding /\ ResponseOf(w, u)

LEMMA ProcedureStays ==
    ASSUME NEW w, Ready(w), NEW u \in Worlds, SameAttr(w, u), u.proc.char = w.proc.char,
           TransactionSound(u.proc.txn), PreparedSound(u.proc),
           u.proc.txn.state # "WaitingForInitialWrite" \/ u.proc.multi # "None" => u.proc.timer
    PROVE  ProceduresSound(u)
BY DEF Ready, ProceduresSound, SameAttr

LEMMA ReadOnDone ==
    ASSUME NEW w, Ready(w), w.proc.txn.state \in Responding,
           NEW u, ReadOn(w, u), ~Failed(u), ~Closed(u)
    PROVE  ReadDone(w, u)
<1> DEFINE p == w.proc
           q == u.proc
<1>1. Stayed(w, u) /\ Answering(p, q) /\ Lived(w, u)
  BY DEF ReadOn
<1>2. u \in Worlds /\ w \in Worlds
  BY <1>1 DEF Lived, Ready
<1>3. p.timer /\ p.timer \in BOOLEAN /\ p.multi \in {"None", "TimedWrite"}
  BY <1>2, WorldFields, ProcFields DEF Ready, ProceduresSound, Responding
<1>4. q.txn.state # "WaitingForInitialWrite" \/ q.multi # "None" => q.timer
  BY <1>1, <1>3 DEF Answering
<1>5. ProceduresSound(u)
  <2>1. PreparedSound(q)
    BY <1>1 DEF Answering, Ready, ProceduresSound, PreparedSound
  <2> QED
    BY <1>1, <1>2, <1>4, <2>1, ProcedureStays DEF Answering, Lived
<1>6. IsSecured(u) = IsSecured(w)
  BY <1>1 DEF Stayed, SameSession, Lived, SameHouse, IsSecured
<1>7. q.timer /\ ~q.startedSecured /\ IsSecured(u) => q.multi = "None" /\ q.txn.state \in Responding
  BY <1>1, <1>3, <1>6 DEF Ready, SecuritySound, Answering, Responding
<1>8. u.session.active /\ ~u.session.transient /\ u.pairing.stored
          => u.session.linkTimer # "Off"
  BY <1>1 DEF Stayed, SameSession, Lived, SameHouse, Ready, SecuritySound
<1>9. SecuritySound(u)
  BY <1>7, <1>8 DEF SecuritySound
<1>10. Ready(u)
  BY <1>1, <1>2, <1>5, <1>9 DEF Ready, Answering, Stayed, SameSession
<1>11. Prepared(w, u)
  BY <1>1 DEF Prepared, Answering
<1>12. ToldOn(w, u)
  BY <1>1 DEF Stayed, SameSession, ToldOn
<1>13. q.txn.state = "WaitingForInitialWrite" \/ (q.txn.state \in Responding /\ ResponseOf(w, u))
  BY <1>1 DEF Answering, Responding, ResponseOf
<1>14. u.attr = w.attr
  BY <1>1 DEF Stayed
<1> QED
  BY <1>1, <1>10, <1>11, <1>12, <1>13, <1>14 DEF ReadDone, Answering, Handled

\* A request that is there whole, and the one that was prepared, are in the buffer.
LEMMA HeldHere ==
    ASSUME NEW w, Ready(w), IsRequestAvailable(w.proc.txn)
    PROVE  Held(w.proc)
BY DEF Ready, ProceduresSound, TransactionSound, PreparedSound, IsRequestAvailable, Held

\* Security is gained in a procedure that began without by the exchange it is part of.
LEMMA ProcessedReady ==
    ASSUME NEW w, Ready(w), IsRequestAvailable(w.proc.txn), NEW u, Processed(w, u)
    PROVE  /\ Ready(u) /\ ToldOn(w, u) /\ ResponseOf(w, u)
           /\ u.attr = w.attr \/ u.session.active
<1> DEFINE p == w.proc
           q == u.proc
<1>1. /\ Responded(w, u, w.proc.txn.header.opcode \in Reading => Open(w))
      /\ Prepared(w, u)
      /\ Continued(w, u) \/ q.multi = "None"
  BY DEF Processed
<1>2. /\ SameAround(w, u) /\ ~Failed(u) /\ Advanced(w, u)
      /\ q.char = p.char /\ q.timer = p.timer /\ q.startedSecured = p.startedSecured
      /\ TransactionSound(q.txn) /\ q.txn.state = "WaitingForInitialRead"
      /\ q.txn.response.tid = p.txn.header.tid
      /\ q.txn.response.total # 0 => (p.txn.header.opcode \in Reading => Open(w))
  BY <1>1 DEF Responded
<1>3. w \in Worlds /\ u \in Worlds /\ SameAttr(w, u) /\ u.session.terminal = w.session.terminal
  BY <1>2 DEF Ready, SameAround
<1>4. p.timer /\ p.char \in Chars
  BY DEF Ready, ProceduresSound, IsRequestAvailable
<1>5. ProceduresSound(u)
  <2>1. Held(p) /\ PreparedSound(p)
    BY HeldHere DEF Ready, ProceduresSound
  <2>2. PreparedSound(q)
    BY <1>1, <1>2, <2>1 DEF Prepared, PreparedSound, Held
  <2> QED
    BY <1>2, <1>3, <1>4, <2>2, ProcedureStays
<1>6. ~p.startedSecured => ~IsSecured(w)
  BY <1>4 DEF Ready, SecuritySound, Responding, IsRequestAvailable
<1>7. Continued(w, u) => IsSecured(u) = IsSecured(w)
  BY <1>2, SecuredAlike DEF SameAround
<1>8. q.timer /\ ~q.startedSecured /\ IsSecured(u) => q.multi = "None" /\ q.txn.state \in Responding
  BY <1>1, <1>2, <1>6, <1>7 DEF Responding
<1>9. CASE Continued(w, u)
  <2>1. u.session.active /\ ~u.session.transient /\ u.pairing.stored
            => u.session.linkTimer # "Off"
    BY <1>2, <1>9 DEF Continued, SameSession, Ready, SecuritySound, SameAround, SameHouse
  <2>2. ToldOn(w, u) /\ u.attr = w.attr
    BY <1>9 DEF Continued, SameSession, ToldOn
  <2> QED
    BY <1>2, <1>3, <1>4, <1>5, <1>6, <1>8, <2>1, <2>2
       DEF Ready, SecuritySound, ResponseOf, Open, IsRequestAvailable
<1>10. CASE DropsSecuritySession(p.char) /\ Started(w, u, Db(p.char).pairing)
  <2>1. Db(p.char).pairing \in {"PairSetup", "PairVerify"}
    BY <1>4, <1>10, PairingIsExchange DEF Exchanges
  <2>2. u.session.active /\ ~u.session.transient /\ u.pairing.stored
            => u.session.linkTimer # "Off"
    BY <1>2, <1>3, <1>10, <2>1 DEF Started, Ready, SameAround, SameHouse
  <2>3. ToldOn(w, u) /\ u.session.active
    BY <1>10 DEF Started, ToldOn
  <2> QED
    BY <1>2, <1>3, <1>4, <1>5, <1>6, <1>8, <2>2, <2>3
       DEF Ready, SecuritySound, ResponseOf, Open, IsRequestAvailable
<1> QED
  BY <1>2, <1>9, <1>10 DEF Advanced

LEMMA GATTReadFields ==
    ASSUME NEW w, Ready(w), NEW space, NEW room \in Nat, NEW outcome
    PROVE  LET u == HandleGATTRead(w, space, room, outcome)
           IN /\ Lived(w, u) /\ Written(w, u)
              /\ u.value = w.value \/ IsRequestAvailable(w.proc.txn)
              /\ Failed(u) \/ Closed(u) \/ ReadDone(w, u)
<1> DEFINE u == HandleGATTRead(w, space, room, outcome)
           s == w.proc.startedSecured
           v == ProcessTransaction(w, outcome)
           r == ReadFragment(v, s, space, room)
           f == ReadFragment(w, s, space, room)
           e == "OutOfResources"
<1>1. /\ w \in Worlds /\ ~Failed(w) /\ ~w.session.terminal /\ w.proc.char \in Chars
      /\ TransactionSound(w.proc.txn)
  BY DEF Ready, ProceduresSound
<1>2. CASE s /\ space = "Tag"
  <2>1. u = Error(w, e)
    BY <1>1, <1>2 DEF HandleGATTRead
  <2>2. e \in Errors /\ e # "None"
    BY DEF Errors
  <2> HIDE DEF e, u
  <2>3. Turned(w, u) /\ Failed(u)
    BY <1>1, <2>1, <2>2, ErrorFields
  <2>4. Lived(w, u) /\ u.value = w.value
    BY <1>1, <2>3, TurnedLives
  <2> QED
    BY <2>3, <2>4 DEF Written, u
<1>3. CASE ~(s /\ space = "Tag") /\ ~IsRequestAvailable(w.proc.txn)
  <2>1. u = f
    BY <1>1, <1>3 DEF HandleGATTRead
  <2>2. /\ ReadOn(w, f)
        /\ Failed(f) \/ w.proc.txn.state \in Responding
    BY <1>1, FragmentFields
  <2> HIDE DEF f, u
  <2>3. Failed(f) \/ Closed(f) \/ ReadDone(w, f)
    BY <2>2, ReadOnDone
  <2> QED
    BY <2>1, <2>2, <2>3 DEF ReadOn, Written, u
<1>4. CASE ~(s /\ space = "Tag") /\ IsRequestAvailable(w.proc.txn)
  <2>1. u = r /\ w.proc.txn.state = "ReadingRequest"
    BY <1>1, <1>4 DEF HandleGATTRead, IsRequestAvailable
  <2>2. \/ Processed(w, v)
        \/ Failed(v) /\ SameAround(w, v) /\ v.value = w.value
    <3>1. Held(w.proc)
      BY <1>4, HeldHere
    <3> QED
      BY <1>1, <3>1, ProcessTransactionFields
  <2> HIDE DEF v, u
  <2>3. CASE Failed(v) /\ SameAround(w, v) /\ v.value = w.value
    <3>1. u = v
      BY <2>1, <2>3 DEF ReadFragment
    <3>2. Lived(w, v)
      BY <2>3, AroundLives
    <3> QED
      BY <2>3, <3>1, <3>2 DEF Written, u
  <2>4. CASE Processed(w, v)
    <3>1. /\ Ready(v) /\ ToldOn(w, v) /\ ResponseOf(w, v)
          /\ v.attr = w.attr \/ v.session.active
      BY <1>4, <2>4, ProcessedReady
    <3>2. /\ v \in Worlds /\ ~Failed(v) /\ TransactionSound(v.proc.txn)
      BY <3>1 DEF Ready, ProceduresSound
    <3>3. /\ SameAround(w, v) /\ Written(w, v) /\ Prepared(w, v)
          /\ v.proc.char = w.proc.char /\ v.proc.startedSecured = w.proc.startedSecured
          /\ v.proc.txn.state \in Responding /\ v.proc.txn.state # "ReadingRequest"
      BY <2>4 DEF Processed, Responded, Responding
    <3>4. ReadOn(v, r)
      BY <3>2, FragmentFields
    <3> HIDE DEF r
    <3>5. Lived(w, v)
      BY <3>3, AroundLives
    <3>6. Lived(v, r) /\ r.value = v.value
      BY <3>4 DEF ReadOn
    <3>7. Lived(w, r)
      BY <1>1, <3>5, <3>6, LivedTwice
    <3>8. Written(w, r)
      BY <3>3, <3>6 DEF Written
    <3>9. ASSUME ~Failed(r), ~Closed(r)
          PROVE  ReadDone(w, r)
      <4>1. ReadDone(v, r)
        BY <3>1, <3>3, <3>4, <3>9, ReadOnDone
      <4>2. /\ r.proc.multi = v.proc.multi /\ r.proc.timed = v.proc.timed
            /\ v.proc.multi = "TimedWrite" => r.proc.txn.memory = v.proc.txn.memory
        BY <3>4, <3>9 DEF ReadOn, Answering
      <4>3. Prepared(w, r)
        BY <3>3, <4>2 DEF Prepared
      <4>4. Stayed(v, r)
        BY <3>4, <3>9 DEF ReadOn
      <4>5. ToldOn(w, r)
        BY <3>1, <4>4 DEF ToldOn, Stayed, SameSession
      <4>6. /\ r.proc.char = w.proc.char
            /\ r.proc.startedSecured = w.proc.startedSecured
        BY <3>3, <4>1 DEF ReadDone
      <4>7. \/ r.proc.txn.state = "WaitingForInitialWrite"
            \/ r.proc.txn.state \in Responding /\ ResponseOf(w, r)
        BY <3>1, <3>3, <4>1 DEF ReadDone, ResponseOf
      <4>8. r.attr = w.attr \/ r.session.active
        BY <3>1, <4>4 DEF Stayed, SameSession
      <4> QED
        BY <1>4, <4>1, <4>3, <4>5, <4>6, <4>7, <4>8 DEF ReadDone, Handled
    <3> QED
      BY <1>4, <2>1, <3>7, <3>8, <3>9 DEF u
  <2> QED
    BY <2>2, <2>3, <2>4
<1> QED
  BY <1>2, <1>3, <1>4

-----------------------------------------------------------------------------
(* GATT writes.                                                            *)

\* What was told of the subscriptions ends with the session.
ToldEnd(w, u) ==
    \/ u.told = w.told /\ u.session.active = w.session.active
    \/ u.told = w.told \ Subscribed(w) /\ w.session.active /\ ~u.session.active

\* A procedure that has not started, attached to c.
Idle(c) == [Detached EXCEPT !.char = c]

LEMMA IdleFields ==
    ASSUME NEW c \in Chars \cup {NotAttached}
    PROVE  LET p == Idle(c)
           IN /\ p \in Procs /\ p.char = c /\ ~p.timer /\ ~p.startedSecured
              /\ p.multi = "None" /\ TransactionSound(p.txn)
              /\ p.txn.state = "WaitingForInitialWrite" /\ p.txn.response.total = 0
<1> DEFINE t == FreeBuffer
           n == [length |-> 0, expired |-> FALSE]
           p == Idle(c)
<1>1. /\ t \in Txns /\ t.state = "WaitingForInitialWrite"
      /\ TransactionSound(t) /\ t.response.total = 0
  BY NewTransactionFields, NoneTypes, BufferAssumption DEF FreeBuffer
<1>2. n \in [length : Nat, expired : BOOLEAN]
  OBVIOUS
<1>3. /\ Detached \in Procs /\ ~Detached.timer /\ ~Detached.startedSecured
      /\ Detached.multi = "None" /\ Detached.txn = t
  <2>1. Detached = [char |-> NotAttached, timer |-> FALSE, startedSecured |-> FALSE,
                    multi |-> "None", timed |-> n, txn |-> t]
    BY DEF Detached, Nothing
  <2> HIDE DEF t, n
  <2> QED
    BY <1>1, <1>2, <2>1 DEF Procs
<1> HIDE DEF t, n
<1>4. /\ p \in Procs /\ p.char = c /\ ~p.timer /\ ~p.startedSecured
      /\ p.multi = "None" /\ p.txn = t
  BY <1>3 DEF Idle, Procs
<1> HIDE DEF p
<1> QED
  BY <1>1, <1>4 DEF p

LEMMA AttachFields ==
    ASSUME NEW w \in Worlds, NEW c \in Chars \cup {NotAttached}
    PROVE  /\ Attach(w, c) = WithProc(w, Idle(c))
           /\ Attach(w, c) \in Worlds /\ Attach(w, c).proc = Idle(c)
           /\ Stayed(w, Attach(w, c)) /\ Lived(w, Attach(w, c))
           /\ Attach(w, c).value = w.value /\ Attach(w, c).call = w.call
           /\ Attach(w, c).session = w.session
<1>1. Attach(w, c) = WithProc(w, Idle(c))
  BY DEF Attach, WithProc, Idle
<1>2. Idle(c) \in Procs
  BY IdleFields
<1> QED
  BY <1>1, <1>2, WithProcFields, WithProcStays

\* A first write: in a characteristic that drops the security session the session ends.
LEMMA OpenedFields ==
    ASSUME NEW w, Ready(w), ~w.proc.timer
    PROVE  LET u == IF IsSecured(w) /\ DropsSecuritySession(w.proc.char)
                    THEN Reset(SessionInvalidate(w, FALSE)) ELSE w
           IN /\ Lived(w, u) /\ u.value = w.value /\ u.call = w.call /\ ToldEnd(w, u)
              /\ u.attr = w.attr /\ ~u.session.terminal
              /\ u.proc.char = w.proc.char /\ u.proc.multi = "None"
              /\ TransactionSound(u.proc.txn)
              /\ u.proc.txn.state = "WaitingForInitialWrite"
<1> DEFINE c == w.proc.char
           f == FALSE
           e == SessionInvalidate(w, f)
           u == IF IsSecured(w) /\ DropsSecuritySession(c)
                THEN Reset(SessionInvalidate(w, FALSE)) ELSE w
<1>1. /\ w \in Worlds /\ c \in Chars /\ ~w.session.terminal
      /\ TransactionSound(w.proc.txn)
      /\ w.proc.txn.state = "WaitingForInitialWrite" /\ w.proc.multi = "None"
  BY WorldFields, ProcFields DEF Ready, ProceduresSound
<1>2. CASE ~(IsSecured(w) /\ DropsSecuritySession(c))
  <2>1. u = w
    BY <1>2
  <2>2. Lived(w, w)
    BY <1>1, ActedSelf, AroundLives DEF Acted
  <2> HIDE DEF u
  <2> QED
    BY <1>1, <2>1, <2>2 DEF ToldEnd, u
<1>3. CASE IsSecured(w) /\ DropsSecuritySession(c)
  <2>1. f \in BOOLEAN /\ ~f
    OBVIOUS
  <2>2. u = Reset(e)
    BY <1>3
  <2> HIDE DEF f, u
  <2>3. Ended(w, e) /\ e.session.terminal = (w.session.terminal \/ f)
    BY <1>1, <2>1, InvalidateFields
  <2> HIDE DEF e
  <2>4. /\ e \in Worlds /\ e.attr = w.attr /\ e.proc = w.proc /\ e.value = w.value
        /\ e.call = w.call /\ SameHouse(w, e) /\ ~e.session.active
        /\ e.link.connected = w.link.connected
        /\ e.told = w.told \ Subscribed(w) /\ w.session.active
    BY <1>3, <2>3 DEF Ended, SameTalk, IsSecured
  <2>5. ~e.session.terminal
    BY <1>1, <2>1, <2>3
  <2>6. u = Attach(e, c)
    BY <2>2, <2>4 DEF Reset
  <2>7. IndicatedTo(w, e)
    BY <1>1, <2>4, NoIndication
  <2>8. Lived(w, e)
    BY <2>4, <2>7 DEF Lived, SameAttr
  <2>9. /\ u \in Worlds /\ u.proc = Idle(c) /\ Stayed(e, u) /\ Lived(e, u)
        /\ u.value = e.value /\ u.call = e.call /\ u.session = e.session
    BY <1>1, <2>4, <2>6, AttachFields
  <2>10. Lived(w, u)
    BY <1>1, <2>8, <2>9, LivedTwice
  <2>11. ToldEnd(w, u) /\ u.attr = w.attr /\ ~u.session.terminal
    BY <2>4, <2>5, <2>9 DEF ToldEnd, Stayed
  <2>12. /\ u.proc.char = c /\ u.proc.multi = "None" /\ TransactionSound(u.proc.txn)
         /\ u.proc.txn.state = "WaitingForInitialWrite"
    <3>1. c \in Chars \cup {NotAttached}
      BY <1>1
    <3> QED
      BY <2>9, <3>1, IdleFields
  <2>13. u.value = w.value /\ u.call = w.call
    BY <2>4, <2>9
  <2> QED
    BY <2>10, <2>11, <2>12, <2>13 DEF u
<1> QED
  BY <1>2, <1>3

LEMMA StartProcedureFields ==
    ASSUME NEW w, Ready(w), ~w.proc.timer
    PROVE  LET u == StartProcedure(w)
           IN /\ Lived(w, u) /\ u.value = w.value /\ u.call = w.call /\ ToldEnd(w, u)
              /\ Ready(u) /\ u.attr = w.attr
              /\ u.proc.char = w.proc.char /\ u.proc.timer /\ u.proc.multi = "None"
              /\ u.proc.txn.state = "WaitingForInitialWrite"
<1> DEFINE o == IF IsSecured(w) /\ DropsSecuritySession(w.proc.char)
                THEN Reset(SessionInvalidate(w, FALSE)) ELSE w
           s == IsSecured(o)
           p == [o.proc EXCEPT !.startedSecured = s, !.timer = TRUE]
           x == WithProc(o, p)
           u == DidStartBLEProcedure(x)
<1>1. /\ Lived(w, o) /\ o.value = w.value /\ o.call = w.call /\ ToldEnd(w, o)
      /\ o.attr = w.attr /\ ~o.session.terminal
      /\ o.proc.char = w.proc.char /\ o.proc.multi = "None"
      /\ TransactionSound(o.proc.txn)
      /\ o.proc.txn.state = "WaitingForInitialWrite"
  BY OpenedFields
<1>2. w \in Worlds /\ o \in Worlds
  BY <1>1 DEF Lived, Ready
<1>3. StartProcedure(w) = u
  <2>1. StartProcedure(w) = DidStartBLEProcedure(
           [o EXCEPT !.proc.startedSecured = IsSecured(o), !.proc.timer = TRUE])
    BY DEF StartProcedure
  <2> HIDE DEF o
  <2>2. [o EXCEPT !.proc.startedSecured = s, !.proc.timer = TRUE] = x
    BY <1>2 DEF WithProc, Worlds
  <2> QED
    BY <2>1, <2>2
<1> HIDE DEF o
<1>4. s \in BOOLEAN
  BY <1>2, SecuredType
<1> HIDE DEF s
<1>5. /\ p \in Procs /\ p.char = w.proc.char /\ p.timer /\ p.startedSecured = s
      /\ p.multi = "None" /\ p.txn = o.proc.txn
  BY <1>1, <1>2, <1>4, WorldFields DEF Procs
<1> HIDE DEF p
<1>6. /\ x \in Worlds /\ x.proc = p /\ Stayed(o, x) /\ Lived(o, x) /\ x.value = o.value
      /\ x.call = o.call /\ x.session = o.session
  BY <1>2, <1>5, WithProcFields, WithProcStays
<1> HIDE DEF x
<1>7. /\ Turned(x, u) /\ SameSession(x.session, u.session)
      /\ ~x.session.terminal =>
             u.session.linkTimer = IF IsSecured(x) THEN "On" ELSE "Off"
      /\ u.call = x.call
  BY <1>6, DidStartFields
<1> HIDE DEF u
<1>8. Lived(x, u) /\ u.value = x.value /\ u.proc = p /\ u.attr = x.attr /\ u.told = x.told
  BY <1>6, <1>7, TurnedLives DEF Turned
<1>9. Lived(w, u)
  BY <1>1, <1>2, <1>6, <1>8, LivedTwice
<1>10. ToldEnd(w, u) /\ u.attr = w.attr /\ u.call = w.call /\ u.value = w.value
  BY <1>1, <1>6, <1>7, <1>8 DEF ToldEnd, Stayed, SameSession
<1>11. IsSecured(u) = s /\ IsSecured(x) = s
  BY <1>6, <1>7, <1>8 DEF SameSession, Lived, SameHouse, IsSecured, s
<1>12. ~u.session.terminal /\ u.session.linkTimer = IF s THEN "On" ELSE "Off"
  BY <1>1, <1>6, <1>7, <1>11 DEF SameSession
<1>13. ProceduresSound(u)
  <2>1. u \in Worlds /\ SameAttr(w, u)
    BY <1>9 DEF Lived
  <2>2. PreparedSound(u.proc)
    BY <1>5, <1>8 DEF PreparedSound
  <2> QED
    BY <1>1, <1>5, <1>8, <2>1, <2>2, ProcedureStays
<1>14. SecuritySound(u)
  <2>1. u.session.active /\ ~u.session.transient /\ u.pairing.stored => s
    BY <1>11 DEF IsSecured
  <2> QED
    BY <1>5, <1>8, <1>11, <1>12, <2>1 DEF SecuritySound
<1>15. Ready(u)
  BY <1>1, <1>5, <1>6, <1>7, <1>8, <1>9, <1>12, <1>13, <1>14 DEF Ready, Lived, Failed
<1> QED
  BY <1>1, <1>3, <1>5, <1>8, <1>9, <1>10, <1>15

\* The procedure took a message: what it has read of its request, and how it was before.
TookIn(w, m, u) ==
    /\ Ready(u) /\ u.proc.char = w.proc.char /\ u.proc.timer
    /\ u.attr = w.attr
    /\ u.proc.startedSecured = w.proc.startedSecured
    /\ u.proc.multi = w.proc.multi /\ u.proc.timed = w.proc.timed
    /\ w.proc.multi = "TimedWrite" => u.proc.txn.memory = w.proc.txn.memory
    /\ Took(w.proc.txn, m, u.proc.txn)

\* What is taken without a buffer leaves what is in the buffer.
LEMMA TookKeeps ==
    ASSUME NEW t \in Txns, NEW m \in Messages, NEW r \in Txns, Took(t, m, r),
           TransactionSound(t), TransactionSound(r), t.max = 0
    PROVE  r.memory = t.memory /\ r.max = 0
<1>1. /\ t.memory \in Bodies /\ t.offset \in Nat /\ t.header.total \in Nat
      /\ r.header.total \in Nat
  BY TxnFields
<1>2. m.kind \in {"First", "Continuation"} => m.chunk \in Bodies /\ Len(m.chunk) \in Nat
  BY MessageFields DEF Bodies
<1>3. CASE t.state = "WaitingForInitialWrite"
  <2>1. /\ m.kind = "First" /\ r.state = "ReadingRequest" /\ r.header = m.header
        /\ r.max = t.max /\ r.offset = Len(m.chunk)
        /\ r.memory = IF m.header.total > t.max THEN t.memory
                      ELSE Overwrite(t.memory, 0, m.chunk)
    BY <1>3 DEF Took
  <2>2. CASE m.header.total > t.max
    BY <2>1, <2>2
  <2>3. CASE ~(m.header.total > t.max)
    <3>1. Len(m.chunk) = 0
      BY <1>1, <1>2, <2>1, <2>3 DEF TransactionSound
    <3>2. m.chunk = <<>>
      BY <1>2, <2>1, <3>1 DEF Bodies
    <3>3. Overwrite(t.memory, 0, m.chunk) = t.memory
      <4> DEFINE o == 0
      <4>1. o \in Nat /\ o <= Len(t.memory)
        BY <1>1 DEF Bodies
      <4> HIDE DEF o
      <4>2. Overwrite(t.memory, o, m.chunk) = t.memory
        BY <1>1, <1>2, <2>1, <3>2, <4>1, OverwriteFields
      <4> QED
        BY <4>2 DEF o
    <3> QED
      BY <2>1, <2>3, <3>3
  <2> QED
    BY <2>2, <2>3
<1>4. CASE t.state = "ReadingRequest"
  <2>1. /\ m.kind = "Continuation" /\ r.state = "ReadingRequest" /\ r.header = t.header
        /\ r.max = t.max /\ r.offset = t.offset + Len(m.chunk)
        /\ r.memory = IF t.header.total > t.max THEN t.memory
                      ELSE Overwrite(t.memory, t.offset, m.chunk)
    BY <1>4 DEF Took
  <2>2. CASE t.header.total > t.max
    BY <2>1, <2>2
  <2>3. CASE ~(t.header.total > t.max)
    <3>1. Len(m.chunk) = 0 /\ t.offset <= Len(t.memory)
      BY <1>1, <1>2, <1>4, <2>1, <2>3 DEF TransactionSound
    <3>2. m.chunk = <<>>
      BY <1>2, <2>1, <3>1 DEF Bodies
    <3>3. Overwrite(t.memory, t.offset, m.chunk) = t.memory
      BY <1>1, <1>2, <2>1, <3>1, <3>2, OverwriteFields
    <3> QED
      BY <2>1, <2>3, <3>3
  <2> QED
    BY <2>2, <2>3
<1>5. CASE t.state = "WaitingForInitialRead"
  BY <1>5 DEF Took
<1> QED
  BY <1>3, <1>4, <1>5 DEF Took

LEMMA TakeFields ==
    ASSUME NEW w, Ready(w), w.proc.timer, NEW m \in Messages, NEW n \in {m, Malformed},
           NEW x, x = WithTxn(w, HandleWrite(w.proc.txn, n)), x.proc.txn.err = "None"
    PROVE  LET u == DidSendGATTResponse(x)
           IN /\ Stayed(w, u) /\ Lived(w, u) /\ u.value = w.value /\ u.call = w.call
              /\ TookIn(w, m, u)
<1> DEFINE t == w.proc.txn
           r == HandleWrite(t, n)
           p == [w.proc EXCEPT !.txn = r]
           u == DidSendGATTResponse(x)
<1>1. w \in Worlds /\ t \in Txns /\ TransactionSound(t) /\ n \in Messages
  BY WorldFields, ProcFields DEF Ready, ProceduresSound, Messages
<1>2. /\ r \in Txns
      /\ r.err = "None" => TransactionSound(r) /\ Took(t, n, r)
  BY <1>1, HandleWriteFields
<1> HIDE DEF r
<1>3. /\ p \in Procs /\ x = WithProc(w, p) /\ p.txn = r
      /\ p.char = w.proc.char /\ p.timer = w.proc.timer
      /\ p.startedSecured = w.proc.startedSecured
      /\ p.multi = w.proc.multi /\ p.timed = w.proc.timed
  <2>1. x = WithTxn(w, r)
    BY DEF r
  <2>2. w.proc \in Procs
    BY <1>1, WorldFields
  <2>3. p \in Procs /\ x = WithProc(w, p)
    BY <1>1, <1>2, <2>1, WithTxnFields
  <2>4. /\ p.txn = r
        /\ p.char = w.proc.char /\ p.timer = w.proc.timer
        /\ p.startedSecured = w.proc.startedSecured
        /\ p.multi = w.proc.multi /\ p.timed = w.proc.timed
    BY <2>2 DEF Procs
  <2> HIDE DEF p
  <2> QED
    BY <2>3, <2>4
<1> HIDE DEF p
<1>4. /\ x \in Worlds /\ x.proc = p /\ Stayed(w, x) /\ Lived(w, x) /\ x.value = w.value
      /\ x.call = w.call
  BY <1>1, <1>3, WithProcFields, WithProcStays
<1>5. TransactionSound(r) /\ Took(t, n, r)
  BY <1>2, <1>3, <1>4
<1>6. Took(t, m, r)
  <2>1. Malformed.kind = "Malformed"
    BY DEF Malformed
  <2> QED
    BY <1>5, <2>1 DEF Took
<1>7. Stayed(x, u) /\ Lived(x, u) /\ u.value = x.value /\ u.proc = p /\ u.call = x.call
  BY <1>4, DidSendStays
<1> HIDE DEF u
<1>8. Stayed(w, u) /\ Lived(w, u)
  BY <1>1, <1>4, <1>7, StayedTwice, LivedTwice
<1>15. t.max = 0 => r.memory = t.memory /\ r.max = 0
  BY <1>1, <1>2, <1>5, <1>6, TookKeeps
<1>16. w.proc.multi = "TimedWrite" => r.memory = t.memory
  BY <1>6, <1>15 DEF Ready, ProceduresSound, PreparedSound, Took
<1>9. ProceduresSound(u)
  <2>1. u \in Worlds /\ SameAttr(w, u)
    BY <1>8 DEF Lived
  <2>2. PreparedSound(p)
    BY <1>3, <1>6, <1>15, <1>16 DEF Ready, ProceduresSound, PreparedSound, Took
  <2> QED
    BY <1>3, <1>5, <1>7, <2>1, <2>2, ProcedureStays
<1>10. IsSecured(u) = IsSecured(w)
  BY <1>8 DEF Stayed, SameSession, Lived, SameHouse, IsSecured
<1>11. r.state \in Responding \/ t.state \notin Responding
  BY <1>6 DEF Took, Responding
<1>12. SecuritySound(u)
  <2>1. u.session.active /\ ~u.session.transient /\ u.pairing.stored
            => u.session.linkTimer # "Off"
    BY <1>8 DEF Stayed, SameSession, Lived, SameHouse, Ready, SecuritySound
  <2> QED
    BY <1>3, <1>7, <1>10, <1>11, <2>1 DEF Ready, SecuritySound
<1>13. Ready(u)
  BY <1>3, <1>4, <1>7, <1>8, <1>9, <1>12 DEF Ready, Lived, Stayed, SameSession, Failed
<1>14. TookIn(w, m, u)
  <2>1. u.proc.txn = r /\ u.attr = w.attr
    BY <1>3, <1>7, <1>8 DEF Stayed
  <2>2. w.proc.multi = "TimedWrite" => u.proc.txn.memory = w.proc.txn.memory
    BY <1>16, <2>1
  <2>3. Took(w.proc.txn, m, u.proc.txn)
    BY <1>6, <2>1
  <2> QED
    BY <1>3, <1>7, <1>13, <2>1, <2>2, <2>3 DEF TookIn
<1> QED
  BY <1>4, <1>7, <1>8, <1>14 DEF u

\* A write fails, or the procedure, which it may start, takes the message.
WriteDone(w, m, u) ==
    \E s : /\ ToldEnd(w, u) /\ TookIn(s, m, u)
           /\ s.proc.txn \in Txns /\ s.attr = w.attr /\ s.proc.char = w.proc.char
           /\ \/ w.proc.timer /\ s.proc = w.proc
              \/ /\ ~w.proc.timer /\ s.proc.txn.state = "WaitingForInitialWrite"
                 /\ s.proc.multi = "None"

LEMMA StartedWriteFields ==
    ASSUME NEW w, Ready(w), w.proc.timer, NEW m \in Messages, NEW seal
    PROVE  LET opened == IF w.proc.startedSecured THEN Decrypt(w, seal) ELSE w
               taken  == [opened EXCEPT !.proc.txn = HandleWrite(@,
                            IF opened.proc.startedSecured THEN m ELSE InTheOpen(m, seal))]
               u == IF Failed(opened) THEN opened
                    ELSE IF taken.proc.txn.err # "None" THEN Error(taken, taken.proc.txn.err)
                    ELSE DidSendGATTResponse(taken)
           IN /\ Lived(w, u) /\ u.value = w.value
              /\ Failed(u) \/ (TookIn(w, m, u) /\ u.told = w.told
                               /\ u.session.active = w.session.active)
<1> DEFINE o == IF w.proc.startedSecured THEN Decrypt(w, seal) ELSE w
           n == IF o.proc.startedSecured THEN m ELSE InTheOpen(m, seal)
           x == WithTxn(o, HandleWrite(o.proc.txn, n))
           u == IF Failed(o) THEN o
                ELSE IF x.proc.txn.err # "None" THEN Error(x, x.proc.txn.err)
                ELSE DidSendGATTResponse(x)
           d == Decrypt(w, seal)
<1>1. w \in Worlds /\ ~Failed(w)
  BY DEF Ready
<1>2. /\ Turned(w, d) /\ d.session.terminal = w.session.terminal
      /\ Failed(d) \/ (d.session = w.session /\ d.call = w.call)
  BY <1>1, DecryptFields
<1>3. Turned(w, w)
  BY <1>1 DEF Turned, SameTalk, SameHouse, Proves
<1> HIDE DEF d
<1>4. o = d \/ o = w
  BY DEF d
<1> HIDE DEF o
<1>5. /\ Turned(w, o)
      /\ Failed(o) \/ (o.session = w.session /\ o.call = w.call)
  BY <1>2, <1>3, <1>4
<1>6. Lived(w, o) /\ o.value = w.value /\ o.proc = w.proc /\ o.attr = w.attr
  BY <1>1, <1>5, TurnedLives DEF Turned
<1>7. n \in {m, Malformed}
  BY DEF InTheOpen
<1> HIDE DEF n
<1>8. CASE Failed(o)
  <2>1. u = o
    BY <1>8
  <2> QED
    BY <1>6, <1>8, <2>1 DEF WithTxn, o, n
<1>9. CASE ~Failed(o)
  <2>1. o.session = w.session /\ o.call = w.call /\ o.told = w.told /\ o.link = w.link
    BY <1>5, <1>9 DEF Turned
  <2>2. Ready(o)
    <3>1. o \in Worlds /\ o.pairing = w.pairing
      BY <1>6 DEF Lived, SameHouse
    <3> QED
      BY <1>6, <1>9, <2>1, <3>1 DEF Ready, ProceduresSound, SecuritySound, IsSecured
  <2> HIDE DEF x
  <2>3. CASE x.proc.txn.err = "None"
    <3> DEFINE y == DidSendGATTResponse(x)
    <3>1. u = y
      BY <1>9, <2>3
    <3>2. /\ Stayed(o, y) /\ Lived(o, y) /\ y.value = o.value
          /\ TookIn(o, m, y)
      BY <1>6, <1>7, <2>2, <2>3, TakeFields DEF x
    <3> HIDE DEF y, u
    <3>3. Lived(w, y)
      BY <1>1, <1>6, <3>2, LivedTwice
    <3>4. y.told = w.told /\ y.session.active = w.session.active
      BY <2>1, <3>2 DEF Stayed, SameSession
    <3>5. TookIn(w, m, y)
      BY <1>6, <3>2 DEF TookIn
    <3>6. /\ Lived(w, u) /\ u.value = w.value /\ TookIn(w, m, u) /\ u.told = w.told
          /\ u.session.active = w.session.active
      BY <1>6, <3>1, <3>2, <3>3, <3>4, <3>5
    <3> QED
      BY <3>6 DEF WithTxn, o, n, u, x
  <2>4. CASE x.proc.txn.err # "None"
    <3> DEFINE r == HandleWrite(o.proc.txn, n)
               err == x.proc.txn.err
    <3>1. u = Error(x, err)
      BY <1>9, <2>4
    <3>2. o \in Worlds /\ r \in Txns
      <4>1. n \in Messages
        BY <1>7 DEF Messages
      <4> QED
        BY <2>2, <4>1, WorldFields, ProcFields, HandleWriteFields DEF Ready, ProceduresSound
    <3>3. x = WithTxn(o, r)
      BY DEF x
    <3> HIDE DEF r, u
    <3>4. /\ x \in Worlds /\ Lived(o, x) /\ x.value = o.value
      <4> DEFINE p == [o.proc EXCEPT !.txn = r]
      <4>1. p \in Procs /\ x = WithProc(o, p)
        BY <3>2, <3>3, WithTxnFields
      <4> HIDE DEF p
      <4> QED
        BY <3>2, <4>1, WithProcFields, WithProcStays
    <3>5. err \in Errors
      BY <3>4, WorldFields, ProcFields, TxnFields
    <3> HIDE DEF err
    <3>6. Turned(x, u) /\ Failed(u) = (err # "None")
      BY <3>1, <3>4, <3>5, ErrorFields
    <3>7. Lived(x, u) /\ u.value = x.value /\ Failed(u)
      BY <2>4, <3>4, <3>6, TurnedLives DEF err
    <3>8. Lived(w, u)
      BY <1>1, <1>6, <3>4, <3>7, LivedTwice
    <3>9. Lived(w, u) /\ u.value = w.value /\ Failed(u)
      BY <1>6, <3>4, <3>7, <3>8
    <3> QED
      BY <3>9 DEF WithTxn, o, n, u, x
  <2> QED
    BY <2>3, <2>4
<1> QED
  BY <1>8, <1>9

LEMMA GATTWriteFields ==
    ASSUME NEW w, Ready(w), NEW m \in Messages, NEW seal
    PROVE  LET u == HandleGATTWrite(w, m, seal)
           IN /\ Lived(w, u) /\ u.value = w.value
              /\ Failed(u) \/ WriteDone(w, m, u)
<1> DEFINE s == IF w.proc.timer THEN w ELSE StartProcedure(w)
           opened == IF s.proc.startedSecured THEN Decrypt(s, seal) ELSE s
           taken  == [opened EXCEPT !.proc.txn = HandleWrite(@,
                            IF opened.proc.startedSecured THEN m ELSE InTheOpen(m, seal))]
           r == IF Failed(opened) THEN opened
                ELSE IF taken.proc.txn.err # "None" THEN Error(taken, taken.proc.txn.err)
                ELSE DidSendGATTResponse(taken)
           u == HandleGATTWrite(w, m, seal)
           e == "InvalidState"
<1>1. w \in Worlds /\ ~w.session.terminal /\ w.proc.timer \in BOOLEAN /\ w.proc.txn \in Txns
  BY WorldFields, ProcFields DEF Ready
<1>2. u = IF ~w.proc.timer /\ IsTerminalSoon(w) THEN Error(w, e) ELSE r
  <2>1. u = IF w.session.terminal \/ (~w.proc.timer /\ IsTerminalSoon(w))
            THEN Error(w, e) ELSE r
    BY Zenon DEF HandleGATTWrite, IsInProgress
  <2> HIDE DEF u, r
  <2> QED
    BY <1>1, <2>1
<1>3. CASE ~w.proc.timer /\ IsTerminalSoon(w)
  <2>1. u = Error(w, e) /\ e \in Errors /\ e # "None"
    BY <1>2, <1>3 DEF Errors
  <2> HIDE DEF e, u
  <2>2. Turned(w, u) /\ Failed(u) = (e # "None")
    BY <1>1, <2>1, ErrorFields
  <2>3. Lived(w, u) /\ u.value = w.value /\ Failed(u)
    BY <1>1, <2>1, <2>2, TurnedLives
  <2> QED
    BY <2>3 DEF u
<1>4. CASE ~(~w.proc.timer /\ IsTerminalSoon(w))
  <2>1. u = r
    BY <1>2, <1>4
  <2> HIDE DEF u, s
  <2>2. /\ Lived(w, s) /\ s.value = w.value /\ ToldEnd(w, s)
        /\ Ready(s) /\ s.attr = w.attr
        /\ s.proc.char = w.proc.char /\ s.proc.timer
        /\ \/ w.proc.timer /\ s.proc = w.proc
           \/ /\ ~w.proc.timer /\ s.proc.txn.state = "WaitingForInitialWrite"
              /\ s.proc.multi = "None"
    <3>1. CASE w.proc.timer
      <4>1. s = w
        BY <3>1 DEF s
      <4>2. Lived(w, w)
        BY <1>1, ActedSelf, AroundLives DEF Acted
      <4> QED
        BY <3>1, <4>1, <4>2 DEF ToldEnd
    <3>2. CASE ~w.proc.timer
      <4>1. s = StartProcedure(w)
        BY <3>2 DEF s
      <4> QED
        BY <3>2, <4>1, StartProcedureFields
    <3> QED
      BY <1>1, <3>1, <3>2
  <2>3. /\ Lived(s, r) /\ r.value = s.value
        /\ Failed(r) \/ (TookIn(s, m, r) /\ r.told = s.told
                         /\ r.session.active = s.session.active)
    BY ZenonT(40), <2>2, StartedWriteFields
  <2> HIDE DEF r
  <2>4. Lived(w, r) /\ r.value = w.value
    BY <1>1, <2>2, <2>3, LivedTwice
  <2>5. ASSUME ~Failed(r)
        PROVE  WriteDone(w, m, r)
    <3>1. ToldEnd(w, r)
      BY <2>2, <2>3, <2>5 DEF ToldEnd
    <3>2. s.proc.txn \in Txns
      BY <2>2, WorldFields, ProcFields DEF Ready
    <3> QED
      BY <2>2, <2>3, <2>5, <3>1, <3>2 DEF WriteDone
  <2>6. /\ Lived(w, u) /\ u.value = w.value
        /\ Failed(u) \/ WriteDone(w, m, u)
    BY <2>1, <2>4, <2>5
  <2> QED
    BY <2>6 DEF u
<1> QED
  BY <1>3, <1>4

-----------------------------------------------------------------------------
(* Fallback procedures.                                                    *)

\* A link that goes on, whatever its procedure is attached to.
Going(w) ==
    /\ w \in Worlds /\ ~Failed(w) /\ ~w.session.terminal
    /\ ProceduresSound(w) /\ SecuritySound(w)

LEMMA ReadyGoes ==
    ASSUME NEW w
    PROVE  Ready(w) = (Going(w) /\ w.proc.char \in Chars)
BY DEF Ready, Going

\* What is so after every call, whatever becomes of fallback procedures.
Outlived(w, u) ==
    /\ u \in Worlds /\ SameHouse(w, u) /\ IndicatedTo(w, u)
    /\ u.link.connected = w.link.connected
    /\ \A c \in Chars : u.attr[c].subscribed = w.attr[c].subscribed

LEMMA LivedOutlived ==
    ASSUME NEW w, NEW u, Lived(w, u)
    PROVE  Outlived(w, u)
BY DEF Lived, Outlived, SameAttr

LEMMA OutlivedTwice ==
    ASSUME NEW w \in Worlds, NEW v, NEW u, Outlived(w, v), Outlived(v, u)
    PROVE  Outlived(w, u)
<1>1. ASSUME NEW c \in Chars, w.attr[c].pending, ~u.attr[c].pending
      PROVE  /\ w.attr[c].subscribed /\ w.pairing.stored
             /\ Db(c).adminRead => w.pairing.admin
  <2>1. CASE v.attr[c].pending
    BY <1>1, <2>1 DEF Outlived, IndicatedTo, SameHouse
  <2>2. CASE ~v.attr[c].pending
    BY <1>1, <2>2 DEF Outlived, IndicatedTo, SameHouse
  <2> QED
    BY <2>1, <2>2
<1>2. IndicatedTo(w, u)
  BY <1>1 DEF IndicatedTo
<1> QED
  BY <1>2 DEF Outlived, SameHouse, Proves

\* Fallback procedures are as they were, or off.
Fewer(w, u) ==
    \A c \in Chars : \/ u.attr[c].fallback = w.attr[c].fallback
                     \/ u.attr[c].fallback = NoFallback

LEMMA NoFallbackFields ==
    NoFallback \in FallbackStates /\ ~NoFallback.timer /\ NoFallback.status = "None"
BY DEF NoFallback, FallbackStates

\* The events that wait are as they were.
Quiet(w, u) == \A c \in Chars : u.attr[c].pending = w.attr[c].pending

WithAttr(w, a) == [w EXCEPT !.attr = a]

LEMMA WithAttrFields ==
    ASSUME NEW w \in Worlds, NEW a \in [Chars -> Attrs],
           \A c \in Chars : /\ a[c].subscribed = w.attr[c].subscribed
                            /\ a[c].pending = w.attr[c].pending
    PROVE  LET u == WithAttr(w, a)
           IN /\ Outlived(w, u) /\ Quiet(w, u) /\ u.attr = a /\ u.session = w.session /\ u.proc = w.proc
              /\ u.value = w.value /\ u.told = w.told /\ u.call = w.call /\ u.link = w.link
              /\ u.gap = w.gap /\ u.pairing = w.pairing
<1> DEFINE u == WithAttr(w, a)
<1>1. /\ u \in Worlds /\ u.attr = a /\ u.session = w.session /\ u.proc = w.proc
      /\ u.value = w.value /\ u.told = w.told /\ u.call = w.call /\ u.link = w.link
      /\ u.gap = w.gap /\ u.pairing = w.pairing /\ u.running = w.running
  BY DEF WithAttr, Worlds
<1> HIDE DEF u
<1>2. IndicatedTo(w, u)
  BY <1>1 DEF IndicatedTo
<1> QED
  BY <1>1, <1>2 DEF Outlived, SameHouse, Proves, Quiet, u

LEMMA WithFallbackFields ==
    ASSUME NEW w \in Worlds, NEW c \in Chars, NEW f \in FallbackStates,
           NEW u, u = WithAttr(w, [w.attr EXCEPT ![c] = [w.attr[c] EXCEPT !.fallback = f]])
    PROVE  /\ Outlived(w, u) /\ Quiet(w, u) /\ u.session = w.session /\ u.proc = w.proc
           /\ u.value = w.value /\ u.told = w.told /\ u.call = w.call /\ u.link = w.link
           /\ u.gap = w.gap /\ u.pairing = w.pairing
           /\ u.attr[c].fallback = f
           /\ \A d \in Chars \ {c} : u.attr[d] = w.attr[d]
<1> DEFINE b == [w.attr[c] EXCEPT !.fallback = f]
           a == [w.attr EXCEPT ![c] = b]
<1>1. w.attr \in [Chars -> Attrs]
  BY WorldFields
<1>2. /\ b \in Attrs /\ b.fallback = f /\ b.subscribed = w.attr[c].subscribed
      /\ b.pending = w.attr[c].pending
  BY <1>1 DEF Attrs
<1> HIDE DEF b
<1>3. /\ a \in [Chars -> Attrs] /\ a[c] = b /\ \A d \in Chars \ {c} : a[d] = w.attr[d]
  BY <1>1, <1>2
<1>4. u = WithAttr(w, a)
  BY DEF b
<1> HIDE DEF a
<1>5. \A d \in Chars : /\ a[d].subscribed = w.attr[d].subscribed
                       /\ a[d].pending = w.attr[d].pending
  BY <1>2, <1>3
<1>6. /\ Outlived(w, u) /\ Quiet(w, u) /\ u.session = w.session /\ u.proc = w.proc
      /\ u.value = w.value /\ u.told = w.told /\ u.call = w.call /\ u.link = w.link
      /\ u.gap = w.gap /\ u.pairing = w.pairing /\ u.attr = a
  BY <1>3, <1>4, <1>5, WithAttrFields
<1> QED
  BY <1>2, <1>3, <1>6

\* All fallback procedures are aborted.
LEMMA AbortFields ==
    ASSUME NEW w \in Worlds
    PROVE  LET u == AbortAllFallbackProcedures(w)
           IN /\ Outlived(w, u) /\ Quiet(w, u) /\ u.session = w.session /\ u.proc = w.proc
              /\ u.value = w.value /\ u.told = w.told /\ u.call = w.call /\ u.link = w.link
              /\ u.pairing = w.pairing
              /\ \A c \in Chars : u.attr[c].fallback = NoFallback
<1> DEFINE a == [c \in Chars |-> [w.attr[c] EXCEPT !.fallback = NoFallback]]
           u == AbortAllFallbackProcedures(w)
<1>1. \A c \in Chars : w.attr[c] \in Attrs
  BY WorldFields
<1>2. ASSUME NEW c \in Chars
      PROVE  /\ a[c] \in Attrs /\ a[c].fallback = NoFallback
             /\ a[c].subscribed = w.attr[c].subscribed /\ a[c].pending = w.attr[c].pending
  BY <1>1, NoFallbackFields DEF Attrs
<1>3. a \in [Chars -> Attrs]
  BY <1>2
<1>4. u = WithAttr(w, a)
  BY DEF AbortAllFallbackProcedures, WithAttr
<1> HIDE DEF a, u
<1>5. /\ Outlived(w, u) /\ Quiet(w, u) /\ u.session = w.session /\ u.proc = w.proc
      /\ u.value = w.value /\ u.told = w.told /\ u.call = w.call /\ u.link = w.link
      /\ u.pairing = w.pairing /\ u.attr = a
  BY <1>2, <1>3, <1>4, WithAttrFields
<1> QED
  BY <1>2, <1>5 DEF u

\* The fallback procedures that a request leaves alone.
Settles(w, u) ==
    /\ Outlived(w, u) /\ Quiet(w, u) /\ u.session = w.session /\ u.proc = w.proc
    /\ u.value = w.value /\ u.told = w.told /\ u.call = w.call /\ u.link = w.link
    /\ Fewer(w, u)

LEMMA SettledFields ==
    ASSUME NEW w, Going(w), NEW c \in Chars
    PROVE  /\ Settles(w, Settled(w, c)) /\ Going(Settled(w, c))
           /\ DropsSecuritySession(c) \/ Settled(w, c) = w
<1> DEFINE u == Settled(w, c)
<1>1. w \in Worlds
  BY DEF Going
<1>2. CASE ~DropsSecuritySession(c)
  <2>1. u = w
    BY <1>2 DEF Settled
  <2>2. Outlived(w, w)
    BY <1>1, ActedSelf, AroundLives, LivedOutlived DEF Acted
  <2> QED
    BY <2>1, <2>2 DEF Settles, Fewer, Quiet
<1>3. CASE DropsSecuritySession(c)
  <2>1. u = AbortAllFallbackProcedures(w)
    BY <1>3 DEF Settled
  <2> HIDE DEF u
  <2>2. /\ Outlived(w, u) /\ Quiet(w, u) /\ u.session = w.session /\ u.proc = w.proc
        /\ u.value = w.value /\ u.told = w.told /\ u.call = w.call /\ u.link = w.link
        /\ u.pairing = w.pairing
        /\ \A d \in Chars : u.attr[d].fallback = NoFallback
    BY <1>1, <2>1, AbortFields
  <2>3. Settles(w, u)
    BY <2>2 DEF Settles, Fewer
  <2>4. ProceduresSound(u) /\ SecuritySound(u)
    BY <2>2, NoFallbackFields DEF Going, ProceduresSound, SecuritySound, IsSecured
  <2>5. Going(u)
    BY <2>2, <2>4 DEF Going, Failed, Outlived
  <2> QED
    BY <1>3, <2>3, <2>5 DEF u
<1> QED
  BY <1>2, <1>3

\* A call that fails has changed nothing that stays.
Refused(w, u) == Failed(u) /\ Outlived(w, u) /\ u.value = w.value

LEMMA CancelFields ==
    ASSUME NEW w \in Worlds
    PROVE  LET u == CancelCentralConnection(w)
           IN /\ Lived(w, u) /\ u.session = w.session /\ u.proc = w.proc
              /\ u.attr = w.attr /\ u.value = w.value /\ u.told = w.told
              /\ u.call = w.call /\ u.gap = w.gap /\ u.link.blocked = w.link.blocked
<1> DEFINE l == [w.link EXCEPT !.cancelled = w.link.cancelled \/ w.link.connected]
           u == CancelCentralConnection(w)
<1>1. /\ l \in Links /\ l.connected = w.link.connected /\ l.blocked = w.link.blocked
  BY WorldFields DEF Links
<1>2. u = [w EXCEPT !.link = l]
  BY DEF CancelCentralConnection
<1> HIDE DEF l
<1>3. /\ u \in Worlds /\ u.link = l /\ u.session = w.session /\ u.proc = w.proc
      /\ u.attr = w.attr /\ u.value = w.value /\ u.told = w.told /\ u.call = w.call
      /\ u.gap = w.gap /\ u.running = w.running /\ u.pairing = w.pairing
  BY <1>1, <1>2 DEF Worlds
<1> HIDE DEF u
<1>4. IndicatedTo(w, u)
  BY <1>3, NoIndication
<1> QED
  BY <1>1, <1>3, <1>4 DEF Lived, SameAttr, SameHouse, Proves, u

LEMMA RefusesFields ==
    ASSUME NEW w \in Worlds, NEW v, Outlived(w, v), v.value = w.value
    PROVE  /\ Refused(w, Error(v, "InvalidState")) /\ Refused(w, Error(v, "InvalidData"))
           /\ Refused(w, Error(v, "OutOfResources"))
           /\ Refused(w, RefusesCall(v))
<1>1. v \in Worlds
  BY DEF Outlived
<1>2. ASSUME NEW x \in Worlds, Outlived(w, x), x.value = w.value,
             NEW e \in Errors \ {"None"}
      PROVE  Refused(w, Error(x, e))
  <2> DEFINE u == Error(x, e)
  <2>1. Turned(x, u) /\ Failed(u) = (e # "None")
    BY <1>2, ErrorFields
  <2>2. Failed(u)
    BY <1>2, <2>1
  <2> HIDE DEF u
  <2>3. Outlived(x, u) /\ u.value = x.value
    BY <1>2, <2>1, TurnedLives, LivedOutlived
  <2>4. Outlived(w, u)
    BY <1>2, <2>3, OutlivedTwice
  <2> QED
    BY <1>2, <2>2, <2>3, <2>4 DEF Refused, u
<1>3. {"InvalidState", "InvalidData", "OutOfResources"} \subseteq Errors \ {"None"}
  BY DEF Errors
<1>4. \A e \in {"InvalidState", "InvalidData", "OutOfResources"} : Refused(w, Error(v, e))
  BY <1>1, <1>2, <1>3
<1>5. Refused(w, RefusesCall(v))
  <2> DEFINE x == CancelCentralConnection(v)
             e == "InvalidState"
  <2>1. Lived(v, x) /\ x.value = v.value
    BY <1>1, CancelFields
  <2>2. RefusesCall(v) = Error(x, e) /\ e \in Errors \ {"None"}
    BY DEF RefusesCall, Errors
  <2> HIDE DEF x, e
  <2>3. Outlived(w, x) /\ x \in Worlds
    BY <2>1, LivedOutlived, OutlivedTwice DEF Lived
  <2> QED
    BY <1>2, <2>1, <2>2, <2>3
<1> QED
  BY <1>4, <1>5

LEMMA UsesFields ==
    ASSUME NEW w \in Worlds, NEW procedure \in {"Full", "Fallback"}, NEW new \in BOOLEAN
    PROVE  LET u == Uses(w, procedure, new)
           IN /\ Outlived(w, u) /\ u.session = w.session /\ u.proc = w.proc
              /\ u.attr = w.attr /\ u.value = w.value /\ u.told = w.told /\ u.link = w.link
              /\ u.gap = w.gap /\ u.pairing = w.pairing
              /\ u.call.procedure = procedure /\ u.call.new = new /\ Failed(u) = Failed(w)
<1> DEFINE k == [w.call EXCEPT !.procedure = procedure, !.new = new]
           u == Uses(w, procedure, new)
<1>1. /\ k \in Calls /\ k.procedure = procedure /\ k.new = new /\ k.err = w.call.err
  BY WorldFields DEF Calls
<1>2. u = Turn(w, w.session, w.gap, k)
  BY DEF Uses, Turn, Worlds
<1> HIDE DEF k
<1>3. /\ u \in Worlds /\ SameTalk(w, u) /\ SameHouse(w, u)
      /\ u.attr = w.attr /\ u.told = w.told /\ u.link = w.link
      /\ u.session = w.session /\ u.gap = w.gap /\ u.call = k
  BY <1>1, <1>2, WorldFields, TurnFields DEF Proves
<1> HIDE DEF u
<1>4. Turned(w, u)
  BY <1>3 DEF Turned
<1>5. Outlived(w, u)
  BY <1>4, TurnedLives, LivedOutlived
<1> QED
  BY <1>1, <1>3, <1>5 DEF SameTalk, SameHouse, Failed, u

\* The full procedure of another characteristic is taken from it.
Takes(w, c) == DropsSecuritySession(c) /\ w.proc.char # c

\* The full procedure is the one of c, or was made it.
FullAt(w, c, a) ==
    /\ a.call.procedure = "Full" /\ Ready(a) /\ a.proc.char = c
    /\ Outlived(w, a) /\ Quiet(w, a) /\ a.value = w.value /\ a.told = w.told /\ Fewer(w, a)
    /\ a.session = w.session
    /\ \/ a.proc = w.proc
       \/ a.proc = Idle(c) /\ (~w.proc.timer \/ Takes(w, c))

\* A fallback procedure of c, beside the full procedure of another.
FallbackAt(w, c, a) ==
    /\ a.call.procedure = "Fallback" /\ Going(a) /\ Outlived(w, a) /\ Quiet(w, a)
    /\ a.value = w.value /\ a.told = w.told /\ a.proc = w.proc
    /\ a.session.active = w.session.active /\ ~DropsSecuritySession(c)
    /\ \A d \in Chars \ {c} : a.attr[d].fallback = w.attr[d].fallback
    /\ a.attr[c].fallback.timer
    /\ \/ a.call.new
       \/ w.attr[c].fallback.timer /\ a.attr[c].fallback = w.attr[c].fallback

LEMMA UsesFull ==
    ASSUME NEW w, NEW s, Settles(w, s), Going(s), NEW c \in Chars, s.proc.char = c,
           w \in Worlds, NEW new \in BOOLEAN
    PROVE  FullAt(w, c, Uses(s, "Full", new)) /\ ~Failed(Uses(s, "Full", new))
<1> DEFINE f == "Full"
           u == Uses(s, f, new)
<1>1. f \in {"Full", "Fallback"} /\ f = "Full"
  OBVIOUS
<1>2. s \in Worlds /\ ~Failed(s)
  BY DEF Going
<1> HIDE DEF f
<1>3. /\ Outlived(s, u) /\ u.session = s.session /\ u.proc = s.proc
      /\ u.attr = s.attr /\ u.value = s.value /\ u.told = s.told /\ u.link = s.link
      /\ u.pairing = s.pairing
      /\ u.call.procedure = f /\ u.call.new = new /\ Failed(u) = Failed(s)
  BY <1>1, <1>2, UsesFields
<1> HIDE DEF u
<1>4. Going(u)
  BY <1>2, <1>3 DEF Going, ProceduresSound, SecuritySound, IsSecured, Outlived
<1>5. Outlived(w, u)
  BY <1>3, OutlivedTwice DEF Settles
<1>6. FullAt(w, c, u)
  BY <1>1, <1>3, <1>4, <1>5, ReadyGoes DEF FullAt, Settles, Fewer, Quiet
<1> QED
  BY <1>1, <1>2, <1>3, <1>6 DEF u

LEMMA UsesFallback ==
    ASSUME NEW w, Going(w), NEW c \in Chars, w.attr[c].fallback.timer,
           ~DropsSecuritySession(c), NEW new \in BOOLEAN
    PROVE  FallbackAt(w, c, Uses(w, "Fallback", new)) /\ ~Failed(Uses(w, "Fallback", new))
<1> DEFINE f == "Fallback"
           u == Uses(w, f, new)
<1>1. f \in {"Full", "Fallback"} /\ f = "Fallback"
  OBVIOUS
<1>2. w \in Worlds /\ ~Failed(w)
  BY DEF Going
<1> HIDE DEF f
<1>3. /\ Outlived(w, u) /\ u.session = w.session /\ u.proc = w.proc
      /\ u.attr = w.attr /\ u.value = w.value /\ u.told = w.told /\ u.link = w.link
      /\ u.pairing = w.pairing
      /\ u.call.procedure = f /\ u.call.new = new /\ Failed(u) = Failed(w)
  BY <1>1, <1>2, UsesFields
<1> HIDE DEF u
<1>4. Going(u)
  BY <1>2, <1>3 DEF Going, ProceduresSound, SecuritySound, IsSecured, Outlived
<1>5. FallbackAt(w, c, u)
  BY <1>1, <1>3, <1>4 DEF FallbackAt, Quiet
<1> QED
  BY <1>1, <1>2, <1>3, <1>5 DEF u

LEMMA StartFallbackFields ==
    ASSUME NEW w, Going(w), NEW c \in Chars, ~w.attr[c].fallback.timer, w.proc.char # c,
           ~DropsSecuritySession(c)
    PROVE  FallbackAt(w, c, StartFallback(w, c)) /\ ~Failed(StartFallback(w, c))
<1> DEFINE g == [w.attr[c].fallback EXCEPT !.timer = TRUE]
           b == [w.attr[c] EXCEPT !.fallback = g]
           x == WithAttr(w, [w.attr EXCEPT ![c] = b])
           p == "Fallback"
           n == TRUE
           y == Uses(x, p, n)
           u == StartFallback(w, c)
<1>1. w \in Worlds /\ ~Failed(w)
  BY DEF Going
<1>2. g \in FallbackStates /\ g.timer
  <2>1. w.attr[c] \in Attrs
    BY <1>1, WorldFields
  <2>2. w.attr[c].fallback \in FallbackStates
    BY <2>1 DEF Attrs
  <2> QED
    BY <2>2 DEF FallbackStates
<1>3. u = DidStartBLEProcedure(y)
  <2>1. [w EXCEPT !.attr[c].fallback.timer = TRUE] = x
    BY <1>1, WorldFields DEF WithAttr
  <2> HIDE DEF x
  <2> QED
    BY <2>1 DEF StartFallback
<1> HIDE DEF g
<1>4. /\ Outlived(w, x) /\ Quiet(w, x) /\ x.session = w.session /\ x.proc = w.proc
      /\ x.value = w.value /\ x.told = w.told /\ x.call = w.call /\ x.link = w.link
      /\ x.pairing = w.pairing
      /\ x.attr[c].fallback = g
      /\ \A d \in Chars \ {c} : x.attr[d] = w.attr[d]
  BY <1>1, <1>2, WithFallbackFields
<1> HIDE DEF x
<1>5. x \in Worlds /\ p \in {"Full", "Fallback"} /\ p = "Fallback" /\ n \in BOOLEAN /\ n
  BY <1>4 DEF Outlived
<1> HIDE DEF p, n
<1>6. /\ Outlived(x, y) /\ y.session = x.session /\ y.proc = x.proc
      /\ y.attr = x.attr /\ y.value = x.value /\ y.told = x.told /\ y.link = x.link
      /\ y.pairing = x.pairing
      /\ y.call.procedure = p /\ y.call.new = n /\ Failed(y) = Failed(x)
  BY <1>5, UsesFields
<1> HIDE DEF y
<1>7. y \in Worlds
  BY <1>6 DEF Outlived
<1>8. /\ Turned(y, u) /\ SameSession(y.session, u.session)
      /\ ~y.session.terminal =>
             u.session.linkTimer = IF IsSecured(y) THEN "On" ELSE "Off"
      /\ u.call = y.call
  BY <1>3, <1>7, DidStartFields
<1> HIDE DEF u
<1>9. Lived(y, u) /\ u.value = y.value /\ u.proc = y.proc /\ u.attr = y.attr /\ u.told = y.told
  BY <1>7, <1>8, TurnedLives DEF Turned
<1>10. Outlived(w, u)
  <2>1. Outlived(w, y)
    BY <1>1, <1>4, <1>6, OutlivedTwice
  <2> QED
    BY <1>1, <1>9, <2>1, LivedOutlived, OutlivedTwice
<1>11. ~Failed(u) /\ ~u.session.terminal
  BY <1>4, <1>6, <1>8 DEF Failed, Going, SameSession
<1>12. IsSecured(u) = IsSecured(w) /\ IsSecured(y) = IsSecured(w)
  BY <1>4, <1>6, <1>8, <1>9 DEF IsSecured, SameSession, Lived, SameHouse
<1>13. SecuritySound(u)
  <2>1. u.session.active /\ ~u.session.transient /\ u.pairing.stored => IsSecured(u)
    BY DEF IsSecured
  <2>2. u.session.linkTimer = IF IsSecured(w) THEN "On" ELSE "Off"
    BY <1>4, <1>6, <1>8, <1>12 DEF Going
  <2> QED
    BY <1>4, <1>6, <1>9, <1>12, <2>1, <2>2 DEF SecuritySound, Going
<1>14. ProceduresSound(u)
  BY <1>2, <1>4, <1>6, <1>9 DEF ProceduresSound, Going
<1>15. Going(u)
  BY <1>10, <1>11, <1>13, <1>14 DEF Going, Outlived
<1>16. FallbackAt(w, c, u)
  <2>1. /\ u.call.procedure = "Fallback" /\ u.call.new
        /\ u.value = w.value /\ u.told = w.told /\ u.proc = w.proc
    BY <1>4, <1>5, <1>6, <1>8, <1>9
  <2>2. u.session.active = w.session.active
    BY <1>4, <1>6, <1>8 DEF SameSession
  <2>3. u.attr[c].fallback.timer
    BY <1>2, <1>4, <1>6, <1>9
  <2>4. \A d \in Chars \ {c} : u.attr[d].fallback = w.attr[d].fallback
    BY <1>4, <1>6, <1>9
  <2>5. Quiet(w, u)
    BY <1>4, <1>6, <1>9 DEF Quiet
  <2> QED
    BY <1>10, <1>15, <2>1, <2>2, <2>3, <2>4, <2>5 DEF FallbackAt
<1> QED
  BY <1>11, <1>16 DEF u

LEMMA AttachProcedureFields ==
    ASSUME NEW w, Going(w), NEW c \in Chars
    PROVE  LET u == AttachProcedure(w, c)
           IN \/ Refused(w, u)
              \/ ~Failed(u) /\ FullAt(w, c, u)
              \/ ~Failed(u) /\ FallbackAt(w, c, u)
<1> DEFINE s == Settled(w, c)
           u == AttachProcedure(w, c)
           refused == w.session.terminal \/ (~w.running /\ ~IsInProgress(w))
<1>1. w \in Worlds
  BY DEF Going
<1>2. Outlived(w, w)
  BY <1>1, ActedSelf, AroundLives, LivedOutlived DEF Acted
<1>3. u = IF refused THEN RefusesCall(w)
          ELSE IF s.attr[c].fallback.timer THEN Uses(s, "Fallback", FALSE)
          ELSE IF s.proc.char = c THEN Uses(s, "Full", FALSE)
          ELSE IF IsInProgress(s) /\ ~DropsSecuritySession(c) THEN StartFallback(s, c)
          ELSE Uses(Attach(s, c), "Full", TRUE)
  BY DEF AttachProcedure
<1>4. /\ Settles(w, s) /\ Going(s)
      /\ DropsSecuritySession(c) \/ s = w
      /\ s.attr[c].fallback.timer => s = w /\ ~DropsSecuritySession(c)
  <2>1. /\ Settles(w, s) /\ Going(s)
        /\ DropsSecuritySession(c) \/ s = w
    BY SettledFields
  <2>2. CASE DropsSecuritySession(c)
    <3>1. s = AbortAllFallbackProcedures(w)
      BY <2>2 DEF Settled
    <3>2. ~s.attr[c].fallback.timer
      BY <1>1, <3>1, AbortFields, NoFallbackFields
    <3> HIDE DEF s
    <3> QED
      BY <2>1, <3>2
  <2> HIDE DEF s
  <2> QED
    BY <2>1, <2>2
<1> HIDE DEF s, u, refused
<1>5. CASE refused
  <2>1. Refused(w, u)
    BY <1>1, <1>2, <1>3, <1>5, RefusesFields
  <2> QED
    BY <2>1 DEF u
<1>6. CASE ~refused /\ s.attr[c].fallback.timer
  <2> DEFINE f == FALSE
  <2>1. u = Uses(w, "Fallback", f) /\ f \in BOOLEAN
    BY <1>3, <1>4, <1>6
  <2> HIDE DEF f
  <2>2. FallbackAt(w, c, u) /\ ~Failed(u)
    BY <1>4, <1>6, <2>1, UsesFallback
  <2> QED
    BY <2>2 DEF u
<1>7. CASE ~refused /\ ~s.attr[c].fallback.timer /\ s.proc.char = c
  <2> DEFINE f == FALSE
  <2>1. u = Uses(s, "Full", f) /\ f \in BOOLEAN
    BY <1>3, <1>7
  <2> HIDE DEF f
  <2>2. FullAt(w, c, u) /\ ~Failed(u)
    BY <1>1, <1>4, <1>7, <2>1, UsesFull
  <2> QED
    BY <2>2 DEF u
<1>8. CASE /\ ~refused /\ ~s.attr[c].fallback.timer /\ s.proc.char # c
           /\ IsInProgress(s) /\ ~DropsSecuritySession(c)
  <2>1. u = StartFallback(w, c) /\ s = w
    BY <1>3, <1>4, <1>8
  <2>2. FallbackAt(w, c, u) /\ ~Failed(u)
    BY <1>4, <1>8, <2>1, StartFallbackFields
  <2> QED
    BY <2>2 DEF u
<1>9. CASE /\ ~refused /\ ~s.attr[c].fallback.timer /\ s.proc.char # c
           /\ ~(IsInProgress(s) /\ ~DropsSecuritySession(c))
  <2> DEFINE a == Attach(s, c)
             n == TRUE
  <2>1. u = Uses(a, "Full", n) /\ n \in BOOLEAN
    BY <1>3, <1>9
  <2> HIDE DEF n
  <2>2. c \in Chars \cup {NotAttached} /\ s \in Worlds
    BY <1>4 DEF Going
  <2>3. /\ a \in Worlds /\ a.proc = Idle(c)
        /\ Stayed(s, a) /\ Lived(s, a)
        /\ a.value = s.value /\ a.call = s.call /\ a.session = s.session
    BY <2>2, AttachFields
  <2> HIDE DEF a
  <2>4. /\ Idle(c).char = c /\ ~Idle(c).timer /\ Idle(c).multi = "None"
        /\ TransactionSound(Idle(c).txn) /\ PreparedSound(Idle(c))
        /\ Idle(c).txn.state = "WaitingForInitialWrite"
    BY <2>2, IdleFields DEF PreparedSound
  <2>5. a.attr = s.attr /\ a.told = s.told /\ a.link = s.link /\ a.pairing = s.pairing
    BY <2>3 DEF Stayed, Lived, SameHouse
  <2>6. ASSUME NEW d \in Chars, s.attr[d].fallback.timer
        PROVE  d # c
    BY <1>9, <2>6
  <2>7. ProceduresSound(a)
    BY <1>4, <2>3, <2>4, <2>5, <2>6 DEF ProceduresSound, Going
  <2>8. SecuritySound(a)
    BY <1>4, <2>3, <2>4, <2>5 DEF SecuritySound, Going
  <2>9. Going(a) /\ a.proc.char = c
    BY <1>4, <2>3, <2>4, <2>7, <2>8 DEF Going, Failed
  <2>10. Settles(a, a) /\ a \in Worlds
    BY <2>3, ActedSelf, AroundLives, LivedOutlived DEF Acted, Settles, Fewer, Quiet
  <2>11. FullAt(a, c, u) /\ ~Failed(u)
    BY <2>1, <2>9, <2>10, UsesFull
  <2>12. Outlived(w, u)
    <3>1. Outlived(w, s) /\ Outlived(s, a) /\ Outlived(a, u)
      BY <1>4, <2>3, <2>11, LivedOutlived DEF Settles, FullAt
    <3> QED
      BY <1>1, <3>1, OutlivedTwice
  <2>13. u.proc = Idle(c) /\ (~w.proc.timer \/ Takes(w, c))
    BY <1>4, <1>9, <2>3, <2>11 DEF FullAt, Settles, IsInProgress, Takes
  <2>14. Fewer(w, u)
    BY <1>4, <2>5, <2>11 DEF Settles, Fewer, FullAt
  <2>15. u.value = w.value /\ u.told = w.told /\ u.session = w.session
    BY <1>4, <2>3, <2>5, <2>11 DEF Settles, FullAt
  <2>16. Quiet(w, u)
    BY <1>4, <2>5, <2>11 DEF Settles, Quiet, FullAt
  <2>17. FullAt(w, c, u)
    BY <2>11, <2>12, <2>13, <2>14, <2>15, <2>16 DEF FullAt
  <2> QED
    BY <2>11, <2>17 DEF u
<1> QED
  BY <1>5, <1>6, <1>7, <1>8, <1>9

LEMMA GetProcedureFields ==
    ASSUME NEW w, Going(w), NEW c \in Chars
    PROVE  LET u == GetProcedure(w, c)
           IN \/ Refused(w, u)
              \/ ~Failed(u) /\ FullAt(w, c, u) /\ u.proc = w.proc
              \/ ~Failed(u) /\ FallbackAt(w, c, u) /\ ~u.call.new
<1> DEFINE s == Settled(w, c)
           u == GetProcedure(w, c)
           f == FALSE
<1>1. w \in Worlds /\ ~w.session.terminal /\ f \in BOOLEAN /\ ~f
  BY DEF Going
<1> HIDE DEF f
<1>2. u = IF s.attr[c].fallback.timer THEN Uses(s, "Fallback", f)
          ELSE IF s.proc.char = c THEN Uses(s, "Full", f)
          ELSE Error(s, "InvalidState")
  BY <1>1 DEF GetProcedure, f
<1>3. /\ Settles(w, s) /\ Going(s)
      /\ s.attr[c].fallback.timer => s = w /\ ~DropsSecuritySession(c)
  <2>1. /\ Settles(w, s) /\ Going(s)
        /\ DropsSecuritySession(c) \/ s = w
    BY SettledFields
  <2>2. CASE DropsSecuritySession(c)
    <3>1. s = AbortAllFallbackProcedures(w)
      BY <2>2 DEF Settled
    <3>2. ~s.attr[c].fallback.timer
      BY <1>1, <3>1, AbortFields, NoFallbackFields
    <3> HIDE DEF s
    <3> QED
      BY <2>1, <3>2
  <2> HIDE DEF s
  <2> QED
    BY <2>1, <2>2
<1> HIDE DEF s, u
<1>4. CASE s.attr[c].fallback.timer
  <2>1. u = Uses(w, "Fallback", f) /\ s = w
    BY <1>2, <1>3, <1>4
  <2>2. FallbackAt(w, c, u) /\ ~Failed(u)
    BY <1>1, <1>3, <1>4, <2>1, UsesFallback
  <2>3. ~u.call.new
    BY <1>1, <2>1, UsesFields
  <2> QED
    BY <2>2, <2>3 DEF u
<1>5. CASE ~s.attr[c].fallback.timer /\ s.proc.char = c
  <2>1. u = Uses(s, "Full", f)
    BY <1>2, <1>5
  <2>2. FullAt(w, c, u) /\ ~Failed(u)
    BY <1>1, <1>3, <1>5, <2>1, UsesFull
  <2>3. u.proc = s.proc /\ s.proc = w.proc
    <3>1. s \in Worlds
      BY <1>3 DEF Going
    <3> QED
      BY <1>1, <1>3, <2>1, <3>1, UsesFields DEF Settles
  <2> QED
    BY <2>2, <2>3 DEF u
<1>6. CASE ~s.attr[c].fallback.timer /\ s.proc.char # c
  <2>1. u = Error(s, "InvalidState")
    BY <1>2, <1>6
  <2>2. Refused(w, u)
    BY <1>1, <1>3, <2>1, RefusesFields DEF Settles
  <2> QED
    BY <2>2 DEF u
<1> QED
  BY <1>4, <1>5, <1>6

\* The fallback procedure goes on with the request it has, or with a new one.
FallbackKeeps(f, new, m, g) ==
    /\ g \in FallbackStates /\ g.timer
    /\ \/ new /\ m.kind = "First" /\ g.tid = m.header.tid
       \/ ~new /\ m.kind = "Continuation" /\ g.tid = f.tid /\ m.tid = f.tid

LEMMA TakesFields ==
    ASSUME NEW w \in Worlds, NEW c \in Chars, w.attr[c].fallback.timer, NEW m \in Messages
    PROVE  LET u == FallbackTakes(w, c, m)
           IN \/ Refused(w, u)
              \/ \E g : /\ FallbackKeeps(w.attr[c].fallback, w.call.new, m, g)
                        /\ u = WithAttr(w, [w.attr EXCEPT ![c] =
                                               [w.attr[c] EXCEPT !.fallback = g]])
<1> DEFINE f == w.attr[c].fallback
           u == FallbackTakes(w, c, m)
           n == Len(m.chunk)
           g == IF w.call.new
                THEN [timer |-> TRUE, tid |-> m.header.tid, status |-> FallbackStatus(m.header),
                      remaining |-> m.header.total - n]
                ELSE [f EXCEPT !.remaining = f.remaining - n]
           x == WithAttr(w, [w.attr EXCEPT ![c] = [w.attr[c] EXCEPT !.fallback = g]])
           bad == (w.call.new /\ ~IsRequest(m))
                  \/ (~w.call.new /\ ~Continues(m, f.tid, f.remaining))
<1>1. f \in FallbackStates /\ f.remaining \in Nat /\ f.tid \in Nat
  <2>1. w.attr[c] \in Attrs
    BY WorldFields
  <2>2. f \in FallbackStates
    BY <2>1 DEF Attrs
  <2> HIDE DEF f
  <2> QED
    BY <2>2 DEF FallbackStates
<1>2. CASE bad
  <2>1. u = Error(w, "InvalidData")
    BY <1>2 DEF FallbackTakes
  <2>2. Outlived(w, w)
    BY ActedSelf, AroundLives, LivedOutlived DEF Acted
  <2>3. Refused(w, Error(w, "InvalidData"))
    BY <2>2, RefusesFields
  <2> QED
    BY <2>1, <2>3
<1>3. CASE ~bad /\ w.call.new
  <2> DEFINE h == [timer |-> TRUE, tid |-> m.header.tid, status |-> FallbackStatus(m.header),
                   remaining |-> m.header.total - n]
  <2>1. m.kind = "First" /\ n <= m.header.total
    BY <1>3 DEF IsRequest
  <2>2. m.header \in Headers /\ n \in Nat
    BY <2>1, MessageFields
  <2>3. m.header.total \in Nat /\ m.header.tid \in Nat
    BY <2>2 DEF Headers
  <2>4. m.header.total - n \in Nat
    BY <2>1, <2>2, <2>3
  <2>5. FallbackStatus(m.header) \in {"MaxProcedures", "InvalidInstanceID",
                                      "ZeroInstanceIDServiceSignatureRead"}
    BY DEF FallbackStatus
  <2> HIDE DEF n
  <2>6. FallbackKeeps(f, w.call.new, m, h)
    BY <1>3, <2>1, <2>3, <2>4, <2>5 DEF FallbackKeeps, FallbackStates
  <2>7. u = WithAttr(w, [w.attr EXCEPT ![c] = [w.attr[c] EXCEPT !.fallback = h]])
    <3> HIDE DEF bad
    <3>1. IsRequest(m)
      BY <1>3 DEF bad
    <3> QED
      BY <1>3, <3>1 DEF FallbackTakes, WithAttr, n
  <2> HIDE DEF h
  <2> QED
    BY <2>6, <2>7
<1>4. CASE ~bad /\ ~w.call.new
  <2> DEFINE h == [f EXCEPT !.remaining = f.remaining - n]
  <2>1. m.kind = "Continuation" /\ m.tid = f.tid /\ n <= f.remaining
    BY <1>4 DEF Continues
  <2>2. n \in Nat
    BY <2>1, MessageFields
  <2>3. f.remaining - n \in Nat
    BY <1>1, <2>1, <2>2
  <2>4. f.timer
    OBVIOUS
  <2>5. u = WithAttr(w, [w.attr EXCEPT ![c] = [w.attr[c] EXCEPT !.fallback = h]])
    <3>1. Continues(m, f.tid, f.remaining)
      BY <1>4
    <3> QED
      BY <1>4, <3>1 DEF FallbackTakes, WithAttr
  <2> HIDE DEF n, f
  <2>6. h \in FallbackStates /\ h.timer = f.timer /\ h.tid = f.tid
    BY <1>1, <2>3 DEF FallbackStates
  <2>7. FallbackKeeps(f, w.call.new, m, h)
    BY <1>4, <2>1, <2>4, <2>6 DEF FallbackKeeps
  <2> HIDE DEF h
  <2> QED
    BY <2>5, <2>7 DEF f
<1> QED
  BY <1>2, <1>3, <1>4

\* The fallback procedure of c, and nothing else, took a message.
FallbackTook(w, c, m, u) ==
    /\ Going(u) /\ Outlived(w, u) /\ u.value = w.value /\ u.told = w.told
    /\ u.proc = w.proc /\ u.session.active = w.session.active
    /\ ~DropsSecuritySession(c)
    /\ \A d \in Chars \ {c} : u.attr[d].fallback = w.attr[d].fallback
    /\ u.attr[c].fallback.timer
    /\ \/ m.kind = "First" /\ u.attr[c].fallback.tid = m.header.tid
       \/ /\ m.kind = "Continuation" /\ w.attr[c].fallback.timer
          /\ u.attr[c].fallback.tid = w.attr[c].fallback.tid

LEMMA FallbackWriteFields ==
    ASSUME NEW w, NEW c \in Chars, w \in Worlds, NEW a, FallbackAt(w, c, a),
           w.proc.char # c,
           NEW m \in Messages, NEW seal
    PROVE  LET u == FallbackWrite(a, c, m, seal)
           IN Refused(w, u) \/ (FallbackTook(w, c, m, u) /\ Quiet(w, u))
<1> DEFINE o == IF IsSecured(a) THEN Decrypt(a, seal) ELSE a
           n == IF IsSecured(a) THEN m ELSE InTheOpen(m, seal)
           t == FallbackTakes(o, c, n)
           u == FallbackWrite(a, c, m, seal)
           d == Decrypt(a, seal)
<1>1. Going(a) /\ Outlived(w, a) /\ a.value = w.value /\ a \in Worlds /\ ~Failed(a)
  BY DEF FallbackAt, Going
<1>2. u = IF Failed(o) THEN o ELSE IF Failed(t) THEN t ELSE DidSendGATTResponse(t)
  BY DEF FallbackWrite
<1>3. /\ Turned(a, d) /\ d.session.terminal = a.session.terminal
      /\ d.call.new = a.call.new
      /\ Failed(d) \/ (d.session = a.session /\ d.call = a.call)
  BY ZenonT(40), <1>1, DecryptFields
<1>4. Turned(a, a)
  BY <1>1 DEF Turned, SameTalk, SameHouse, Proves
<1> HIDE DEF d
<1>5. o = d \/ o = a
  BY DEF d
<1>6. n \in {m, Malformed} /\ n \in Messages
  BY DEF InTheOpen, Messages
<1> HIDE DEF o, n
<1>7. /\ Turned(a, o)
      /\ Failed(o) \/ (o.session = a.session /\ o.call = a.call)
  BY <1>3, <1>4, <1>5
<1>8. /\ Lived(a, o) /\ o.value = a.value /\ o.proc = a.proc /\ o.attr = a.attr
      /\ o.told = a.told
  BY <1>1, <1>7, TurnedLives DEF Turned
<1>9. Outlived(w, o) /\ o \in Worlds
  BY <1>1, <1>8, LivedOutlived, OutlivedTwice DEF Lived
<1> HIDE DEF t, u
<1>10. CASE Failed(o)
  <2>1. u = o
    BY <1>2, <1>10
  <2>2. Refused(w, u)
    BY <1>1, <1>8, <1>9, <1>10, <2>1 DEF Refused
  <2> QED
    BY <2>2 DEF u
<1>11. CASE ~Failed(o)
  <2>1. o.attr[c].fallback.timer
    BY <1>8 DEF FallbackAt
  <2>2. \/ Refused(o, t)
        \/ \E g : /\ FallbackKeeps(o.attr[c].fallback, o.call.new, n, g)
                  /\ t = WithAttr(o, [o.attr EXCEPT ![c] =
                                               [o.attr[c] EXCEPT !.fallback = g]])
    BY <1>6, <1>9, <2>1, TakesFields DEF t
  <2>3. CASE Refused(o, t)
    <3>1. u = t
      BY <1>2, <1>11, <2>3 DEF Refused
    <3>2. Refused(w, u)
      BY <1>1, <1>8, <1>9, <2>3, <3>1, OutlivedTwice DEF Refused
    <3> QED
      BY <3>2 DEF u
  <2>4. ASSUME NEW g, FallbackKeeps(o.attr[c].fallback, o.call.new, n, g),
               t = WithAttr(o, [o.attr EXCEPT ![c] = [o.attr[c] EXCEPT !.fallback = g]])
        PROVE  FallbackTook(w, c, m, u) /\ Quiet(w, u)
    <3>1. g \in FallbackStates
      BY <2>4 DEF FallbackKeeps
    <3>2. /\ Outlived(o, t) /\ Quiet(o, t) /\ t.session = o.session /\ t.proc = o.proc
          /\ t.value = o.value /\ t.told = o.told /\ t.call = o.call
          /\ t.pairing = o.pairing
          /\ t.attr[c].fallback = g
          /\ \A e \in Chars \ {c} : t.attr[e] = o.attr[e]
      BY <1>9, <2>4, <3>1, WithFallbackFields
    <3>3. ~Failed(t) /\ t \in Worlds
      BY <1>11, <3>2 DEF Failed, Outlived
    <3>4. u = DidSendGATTResponse(t)
      BY <1>2, <1>11, <3>3
    <3>5. /\ Stayed(t, u) /\ Lived(t, u) /\ u.value = t.value /\ u.proc = t.proc
          /\ u.call = t.call
      BY <3>3, <3>4, DidSendStays
    <3>6. Outlived(w, u)
      <4>1. Outlived(w, t)
        BY <1>9, <3>2, OutlivedTwice
      <4> QED
        BY <3>5, <4>1, LivedOutlived, OutlivedTwice
    <3>7. /\ u.value = w.value /\ u.told = w.told /\ u.proc = w.proc /\ u.proc = a.proc
      BY <1>8, <3>2, <3>5 DEF FallbackAt, Stayed
    <3>8. u.session.active = w.session.active
      BY <1>7, <1>11, <3>2, <3>5 DEF FallbackAt, Stayed, SameSession
    <3>9. /\ u.attr[c].fallback = g /\ g.timer
          /\ \A e \in Chars \ {c} : u.attr[e].fallback = w.attr[e].fallback
      <4>1. u.attr = t.attr /\ o.attr = a.attr
        BY <1>8, <3>5 DEF Stayed
      <4>2. g.timer
        BY <2>4 DEF FallbackKeeps
      <4>3. \A e \in Chars \ {c} : a.attr[e].fallback = w.attr[e].fallback
        BY DEF FallbackAt
      <4> QED
        BY <3>2, <4>1, <4>2, <4>3
    <3>10. Going(u)
      <4>1. ~Failed(u) /\ u \in Worlds
        BY <3>3, <3>5 DEF Failed, Lived
      <4>2. ~u.session.terminal
        BY <1>1, <1>7, <1>11, <3>2, <3>5 DEF Going, Stayed, SameSession
      <4>3. u.pairing = a.pairing
        BY <1>8, <3>2, <3>5 DEF Lived, SameHouse
      <4>4. IsSecured(u) = IsSecured(a)
        BY <1>7, <1>11, <3>2, <3>5, <4>3 DEF Stayed, SameSession, IsSecured
      <4>5. SecuritySound(u)
        BY <1>1, <1>7, <1>11, <3>2, <3>5, <3>7, <4>3, <4>4
           DEF SecuritySound, Going, Stayed, SameSession
      <4>6. ASSUME NEW e \in Chars, e # c
            PROVE  u.attr[e].fallback = a.attr[e].fallback
        BY <1>8, <3>2, <3>5, <4>6 DEF Stayed
      <4>7. ProceduresSound(u)
        BY <1>1, <3>7, <3>9, <4>6 DEF ProceduresSound, Going
      <4> QED
        BY <4>1, <4>2, <4>5, <4>7 DEF Going
    <3>11. \/ m.kind = "First" /\ g.tid = m.header.tid
           \/ /\ m.kind = "Continuation" /\ w.attr[c].fallback.timer
              /\ g.tid = w.attr[c].fallback.tid
      <4>1. n = m
        BY <1>6, <2>4 DEF FallbackKeeps, Malformed
      <4>2. o.call.new = a.call.new
        BY <1>3, <1>5
      <4>3. ~a.call.new => w.attr[c].fallback.timer /\ a.attr[c].fallback = w.attr[c].fallback
        BY DEF FallbackAt
      <4> QED
        BY <1>8, <2>4, <4>1, <4>2, <4>3 DEF FallbackKeeps
    <3>12. Quiet(w, u)
      BY <1>8, <3>2, <3>5 DEF Quiet, FallbackAt, Stayed
    <3> QED
      BY <3>6, <3>7, <3>8, <3>9, <3>10, <3>11, <3>12 DEF FallbackTook, FallbackAt
  <2> QED
    BY <2>2, <2>3, <2>4 DEF u
<1> QED
  BY <1>10, <1>11

\* The fallback procedure of c, and nothing else, is over.
FallbackAnswered(w, c, u) ==
    /\ Going(u) /\ Outlived(w, u) /\ u.value = w.value /\ u.told = w.told
    /\ u.proc = w.proc /\ u.session.active = w.session.active
    /\ ~DropsSecuritySession(c) /\ w.attr[c].fallback.timer
    /\ \A d \in Chars \ {c} : u.attr[d].fallback = w.attr[d].fallback
    /\ u.attr[c].fallback = NoFallback

LEMMA FallbackReadFields ==
    ASSUME NEW w, NEW c \in Chars, w \in Worlds, NEW a, FallbackAt(w, c, a), ~a.call.new,
           NEW space
    PROVE  LET u == FallbackRead(a, c, space)
           IN Refused(w, u) \/ (FallbackAnswered(w, c, u) /\ Quiet(w, u))
<1> DEFINE o == IF IsSecured(a) THEN Encrypt(a) ELSE a
           t == [o EXCEPT !.attr[c].fallback = NoFallback]
           u == FallbackRead(a, c, space)
           d == Encrypt(a)
<1>1. Going(a) /\ Outlived(w, a) /\ a.value = w.value /\ a \in Worlds /\ ~Failed(a)
  BY DEF FallbackAt, Going
<1>2. u = IF a.attr[c].fallback.remaining # 0 THEN Error(a, "InvalidState")
          ELSE IF space # "Body" THEN Error(a, "OutOfResources")
          ELSE DidSendGATTResponse(t)
  BY DEF FallbackRead
<1>3. /\ Turned(a, d) /\ d.session = a.session
      /\ Failed(d) = ~a.session.active /\ (a.session.active => d.call = a.call)
  BY <1>1, EncryptFields
<1> HIDE DEF d
<1>4. /\ Turned(a, o) /\ o.session = a.session /\ ~Failed(o)
  <2>1. CASE IsSecured(a)
    <3>1. o = d
      BY <2>1 DEF d
    <3> QED
      BY <1>3, <2>1, <3>1 DEF IsSecured
  <2>2. CASE ~IsSecured(a)
    <3>1. o = a
      BY <2>2
    <3> QED
      BY <1>1, <3>1 DEF Turned, SameTalk, SameHouse, Proves
  <2> QED
    BY <2>1, <2>2
<1>5. t = WithAttr(o, [o.attr EXCEPT ![c] = [o.attr[c] EXCEPT !.fallback = NoFallback]])
  BY DEF WithAttr
<1> HIDE DEF o, t, u
<1>6. /\ Lived(a, o) /\ o.value = a.value /\ o.proc = a.proc /\ o.attr = a.attr
      /\ o.told = a.told /\ o \in Worlds
  BY <1>1, <1>4, TurnedLives DEF Turned
<1>7. CASE u = Error(a, "InvalidState") \/ u = Error(a, "OutOfResources")
  <2>1. Refused(w, u)
    BY <1>1, <1>7, RefusesFields
  <2> QED
    BY <2>1 DEF u
<1>8. CASE u = DidSendGATTResponse(t)
  <2>1. /\ Outlived(o, t) /\ Quiet(o, t) /\ t.session = o.session /\ t.proc = o.proc
        /\ t.value = o.value /\ t.told = o.told /\ t.call = o.call
        /\ t.pairing = o.pairing
        /\ t.attr[c].fallback = NoFallback
        /\ \A e \in Chars \ {c} : t.attr[e] = o.attr[e]
    BY <1>5, <1>6, NoFallbackFields, WithFallbackFields
  <2>2. ~Failed(t) /\ t \in Worlds
    BY <1>4, <2>1 DEF Failed, Outlived
  <2>3. /\ Stayed(t, u) /\ Lived(t, u) /\ u.value = t.value /\ u.proc = t.proc
        /\ u.call = t.call
    BY <1>8, <2>2, DidSendStays
  <2>4. Outlived(w, u)
    <3>1. Outlived(w, o)
      BY <1>1, <1>6, LivedOutlived, OutlivedTwice
    <3>2. Outlived(w, t)
      BY <2>1, <3>1, OutlivedTwice
    <3> QED
      BY <2>3, <3>2, LivedOutlived, OutlivedTwice
  <2>5. /\ u.value = w.value /\ u.told = w.told /\ u.proc = w.proc /\ u.proc = a.proc
    BY <1>6, <2>1, <2>3 DEF FallbackAt, Stayed
  <2>6. u.session.active = w.session.active
    BY <1>4, <2>1, <2>3 DEF FallbackAt, Stayed, SameSession
  <2>7. /\ u.attr[c].fallback = NoFallback
        /\ \A e \in Chars \ {c} : u.attr[e].fallback = w.attr[e].fallback
    BY <1>6, <2>1, <2>3 DEF FallbackAt, Stayed
  <2>8. Going(u)
    <3>1. ~Failed(u) /\ u \in Worlds
      BY <2>2, <2>3 DEF Failed, Lived
    <3>2. ~u.session.terminal
      BY <1>1, <1>4, <2>1, <2>3 DEF Going, Stayed, SameSession
    <3>3. u.pairing = a.pairing
      BY <1>6, <2>1, <2>3 DEF Lived, SameHouse
    <3>4. IsSecured(u) = IsSecured(a)
      BY <1>4, <2>1, <2>3, <3>3 DEF Stayed, SameSession, IsSecured
    <3>5. SecuritySound(u)
      BY <1>1, <1>4, <2>1, <2>3, <2>5, <3>3, <3>4
         DEF SecuritySound, Going, Stayed, SameSession
    <3>6. ASSUME NEW e \in Chars, e # c
          PROVE  u.attr[e].fallback = a.attr[e].fallback
      BY <1>6, <2>1, <2>3, <3>6 DEF Stayed
    <3>7. ProceduresSound(u)
      BY <1>1, <2>5, <2>7, <3>6, NoFallbackFields DEF ProceduresSound, Going
    <3> QED
      BY <3>1, <3>2, <3>5, <3>7 DEF Going
  <2>9. FallbackAnswered(w, c, u)
    BY <2>4, <2>5, <2>6, <2>7, <2>8 DEF FallbackAnswered, FallbackAt
  <2>10. Quiet(w, u)
    BY <1>6, <2>1, <2>3 DEF Quiet, FallbackAt, Stayed
  <2> QED
    BY <2>9, <2>10 DEF u
<1> QED
  BY <1>2, <1>7, <1>8

-----------------------------------------------------------------------------
(* The end of a call.                                                      *)

LEMMA PendingGoes ==
    ASSUME NEW w \in Worlds
    PROVE  LET u == SendPendingEventNotifications(w)
           IN /\ Lived(w, u) /\ u.value = w.value /\ u.proc = w.proc /\ u.told = w.told
              /\ u.session = w.session /\ NotStuck(u)
              /\ \A c \in Chars : u.attr[c].fallback = w.attr[c].fallback
              /\ Going(w) => Going(u)
              /\ ~u.session.active => u.attr = w.attr
<1> DEFINE u == SendPendingEventNotifications(w)
<1>1. Indicated(w, u) /\ NotStuck(u)
  BY SendPendingFields
<1>2. ~w.session.active => u = w
  BY DEF SendPendingEventNotifications, IsSecured
<1> HIDE DEF u
<1>3. /\ u \in Worlds /\ SameTalk(w, u) /\ SameHouse(w, u) /\ IndicatedTo(w, u)
      /\ u.session = w.session /\ u.told = w.told /\ u.call = w.call
      /\ u.link.connected = w.link.connected
  BY <1>1 DEF Indicated
<1>4. Lived(w, u)
  BY <1>3 DEF Lived, SameTalk, SameAttr
<1>5. Going(w) => Going(u)
  <2>1. IsSecured(u) = IsSecured(w)
    BY <1>3 DEF SameHouse, IsSecured
  <2> QED
    BY <1>3, <2>1 DEF Going, Failed, ProceduresSound, SecuritySound, SameTalk, SameHouse
<1> QED
  BY <1>1, <1>2, <1>3, <1>4, <1>5 DEF SameTalk, u

LEMMA ConcludedFields ==
    ASSUME NEW w \in Worlds
    PROVE  LET u == Concluded(w)
           IN /\ Lived(w, u) /\ u.value = w.value /\ u.proc = w.proc /\ NotStuck(u)
              /\ Failed(w) => Closed(u)
              /\ ~Failed(w) =>
                     /\ u.session = w.session /\ u.told = w.told
                     /\ \A c \in Chars : u.attr[c].fallback = w.attr[c].fallback
                     /\ Going(w) => Going(u)
                     /\ ~u.session.active => u.attr = w.attr
<1> DEFINE u == Concluded(w)
<1>1. CASE Failed(w)
  <2>1. u = Terminate(w)
    BY <1>1 DEF Concluded
  <2> HIDE DEF u
  <2>2. /\ Lived(w, u) /\ u.value = w.value /\ u.proc = w.proc
        /\ Closed(u)
    BY <2>1, TerminateLives
  <2>3. NotStuck(u)
    BY <2>2 DEF NotStuck, IsSecured, Closed
  <2> QED
    BY <1>1, <2>2, <2>3 DEF u
<1>2. CASE ~Failed(w)
  <2>1. u = SendPendingEventNotifications(w)
    BY <1>2 DEF Concluded
  <2> HIDE DEF u
  <2> QED
    BY <1>2, <2>1, PendingGoes DEF u
<1> QED
  BY <1>1, <1>2

\* An event that went found a session, and left it or ended it.
Heard(w, u) ==
    \A c \in Chars :
        w.attr[c].pending /\ ~u.attr[c].pending => u.session.active \/ u.session.terminal

\* What was written on c has gone to its full procedure, or to its fallback procedure.
FullTook(w, c, m, u) ==
    /\ Going(u) /\ ToldEnd(w, u) /\ Fewer(w, u) /\ u.proc.char = c /\ u.proc.timer
    /\ \E p : /\ p.txn \in Txns /\ Took(p.txn, m, u.proc.txn)
              /\ u.proc.startedSecured = p.startedSecured
              /\ u.proc.multi = p.multi /\ u.proc.timed = p.timed
              /\ p.multi = "TimedWrite" => u.proc.txn.memory = p.txn.memory
              /\ \/ w.proc.char = c /\ w.proc.timer /\ p = w.proc
                 \/ /\ p.txn.state = "WaitingForInitialWrite" /\ p.multi = "None"
                    /\ ~w.proc.timer \/ Takes(w, c)

LEMMA WriteRequestFields ==
    ASSUME NEW w, Going(w), NEW c \in Chars, NEW m \in Messages, NEW seal
    PROVE  LET u == HandleWriteRequest(w, c, m, seal)
           IN /\ Outlived(w, u) /\ u.value = w.value /\ NotStuck(u) /\ Heard(w, u)
              /\ Closed(u) \/ FullTook(w, c, m, u) \/ FallbackTook(w, c, m, u)
<1> DEFINE a == AttachProcedure(w, c)
           x == IF Failed(a) THEN a
                ELSE IF a.call.procedure = "Full" THEN HandleGATTWrite(a, m, seal)
                ELSE FallbackWrite(a, c, m, seal)
           u == Concluded(x)
           g == HandleGATTWrite(a, m, seal)
           f == FallbackWrite(a, c, m, seal)
<1>1. w \in Worlds
  BY DEF Going
<1>2. HandleWriteRequest(w, c, m, seal) = u
  BY DEF HandleWriteRequest
<1>3. \/ Refused(w, a)
      \/ ~Failed(a) /\ FullAt(w, c, a)
      \/ ~Failed(a) /\ FallbackAt(w, c, a)
  BY AttachProcedureFields
<1> HIDE DEF a
<1>4. CASE Refused(w, a)
  <2>1. x = a
    BY <1>4 DEF Refused
  <2>2. Refused(w, x)
    BY <1>4, <2>1
  <2> HIDE DEF x, u
  <2>3. x \in Worlds /\ Failed(x) /\ Outlived(w, x) /\ x.value = w.value
    BY <2>2 DEF Refused, Outlived
  <2>4. Lived(x, u) /\ u.value = x.value /\ NotStuck(u) /\ Closed(u)
    BY <2>3, ConcludedFields DEF u
  <2>5. Outlived(w, u)
    BY <1>1, <2>3, <2>4, LivedOutlived, OutlivedTwice
  <2> QED
    BY <1>2, <2>3, <2>4, <2>5 DEF Heard, Closed
<1>5. CASE ~Failed(a) /\ FullAt(w, c, a)
  <2>1. x = g
    BY <1>5 DEF FullAt
  <2>2. /\ Ready(a) /\ a.proc.char = c /\ a \in Worlds
        /\ Outlived(w, a) /\ Quiet(w, a) /\ a.value = w.value /\ a.told = w.told /\ Fewer(w, a)
        /\ a.session = w.session
        /\ \/ a.proc = w.proc
           \/ a.proc = Idle(c) /\ (~w.proc.timer \/ Takes(w, c))
    BY <1>5 DEF FullAt, Ready
  <2>3. /\ Lived(a, g) /\ g.value = a.value
        /\ Failed(g) \/ WriteDone(a, m, g)
    BY <2>2, GATTWriteFields
  <2> HIDE DEF g, x, u
  <2>4. x \in Worlds /\ Outlived(w, x) /\ x.value = w.value
    BY <1>1, <2>1, <2>2, <2>3, LivedOutlived, OutlivedTwice DEF Lived
  <2>5. /\ Lived(x, u) /\ u.value = x.value /\ u.proc = x.proc /\ NotStuck(u)
        /\ Failed(x) => Closed(u)
        /\ ~Failed(x) =>
               /\ u.session = x.session /\ u.told = x.told
               /\ \A d \in Chars : u.attr[d].fallback = x.attr[d].fallback
               /\ Going(x) => Going(u)
               /\ ~u.session.active => u.attr = x.attr
    BY <2>4, ConcludedFields DEF u
  <2>6. Outlived(w, u)
    BY <1>1, <2>4, <2>5, LivedOutlived, OutlivedTwice
  <2>7. ASSUME ~Failed(x)
        PROVE  FullTook(w, c, m, u)
    <3>1. PICK s : /\ ToldEnd(a, x) /\ TookIn(s, m, x)
                   /\ s.proc.txn \in Txns /\ s.attr = a.attr /\ s.proc.char = a.proc.char
                   /\ \/ a.proc.timer /\ s.proc = a.proc
                      \/ /\ ~a.proc.timer /\ s.proc.txn.state = "WaitingForInitialWrite"
                         /\ s.proc.multi = "None"
      BY <2>1, <2>3, <2>7 DEF WriteDone
    <3>2. /\ Ready(x) /\ x.proc.char = c /\ x.proc.timer /\ x.attr = a.attr
          /\ x.proc.startedSecured = s.proc.startedSecured
          /\ x.proc.multi = s.proc.multi /\ x.proc.timed = s.proc.timed
          /\ s.proc.multi = "TimedWrite" => x.proc.txn.memory = s.proc.txn.memory
          /\ Took(s.proc.txn, m, x.proc.txn)
      BY <2>2, <3>1 DEF TookIn
    <3>3. Going(u) /\ u.told = x.told /\ u.session = x.session
      BY <2>5, <2>7, <3>2, ReadyGoes
    <3>4. ToldEnd(w, u)
      <4>1. Subscribed(a) = Subscribed(w)
        BY <2>2 DEF Subscribed, Outlived
      <4> QED
        BY <2>2, <3>1, <3>3, <4>1 DEF ToldEnd
    <3>5. Fewer(w, u)
      BY <2>2, <2>5, <2>7, <3>2 DEF Fewer
    <3>6. \/ w.proc.char = c /\ w.proc.timer /\ s.proc = w.proc
          \/ /\ s.proc.txn.state = "WaitingForInitialWrite" /\ s.proc.multi = "None"
             /\ ~w.proc.timer \/ Takes(w, c)
      <4>1. c \in Chars \cup {NotAttached}
        OBVIOUS
      <4>2. ~Idle(c).timer
        BY <4>1, IdleFields
      <4> QED
        BY <2>2, <3>1, <4>2
    <3>7. /\ u.proc.startedSecured = s.proc.startedSecured
          /\ u.proc.multi = s.proc.multi /\ u.proc.timed = s.proc.timed
          /\ s.proc.multi = "TimedWrite" => u.proc.txn.memory = s.proc.txn.memory
          /\ Took(s.proc.txn, m, u.proc.txn) /\ s.proc.txn \in Txns
          /\ u.proc.char = c /\ u.proc.timer
      BY <2>5, <3>1, <3>2
    <3> QED
      BY <3>3, <3>4, <3>5, <3>6, <3>7 DEF FullTook
  <2>8. Heard(w, u)
    <3>1. CASE Failed(x)
      BY <2>5, <3>1 DEF Heard, Closed
    <3>2. CASE ~Failed(x)
      <4>1. x.attr = a.attr
        BY <2>1, <2>3, <3>2 DEF WriteDone, TookIn
      <4> QED
        BY <2>2, <2>5, <3>2, <4>1 DEF Heard, Quiet
    <3> QED
      BY <3>1, <3>2
  <2> QED
    BY <1>2, <2>4, <2>5, <2>6, <2>7, <2>8
<1>6. CASE ~Failed(a) /\ FallbackAt(w, c, a)
  <2>1. x = f
    BY <1>6 DEF FallbackAt
  <2>2. w.proc.char # c
    BY <1>6 DEF FallbackAt, Going, ProceduresSound
  <2>3. Refused(w, f) \/ (FallbackTook(w, c, m, f) /\ Quiet(w, f))
    BY <1>1, <1>6, <2>2, FallbackWriteFields
  <2> HIDE DEF f, x, u
  <2>4. x \in Worlds /\ Outlived(w, x) /\ x.value = w.value
    BY <2>1, <2>3 DEF Refused, FallbackTook, Outlived
  <2>5. /\ Lived(x, u) /\ u.value = x.value /\ u.proc = x.proc /\ NotStuck(u)
        /\ Failed(x) => Closed(u)
        /\ ~Failed(x) =>
               /\ u.session = x.session /\ u.told = x.told
               /\ \A d \in Chars : u.attr[d].fallback = x.attr[d].fallback
               /\ Going(x) => Going(u)
               /\ ~u.session.active => u.attr = x.attr
    BY <2>4, ConcludedFields DEF u
  <2>6. Outlived(w, u)
    BY <1>1, <2>4, <2>5, LivedOutlived, OutlivedTwice
  <2>7. ASSUME ~Failed(x)
        PROVE  FallbackTook(w, c, m, u)
    <3>1. FallbackTook(w, c, m, x)
      BY <2>1, <2>3, <2>7 DEF Refused
    <3>2. Going(u) /\ u.told = x.told /\ u.session = x.session
      BY <2>5, <2>7, <3>1 DEF FallbackTook
    <3> QED
      BY <2>5, <2>6, <2>7, <3>1, <3>2 DEF FallbackTook
  <2>8. Heard(w, u)
    BY <2>1, <2>3, <2>5 DEF Heard, Quiet, Closed, Refused
  <2> QED
    BY <1>2, <2>4, <2>5, <2>6, <2>7, <2>8
<1> QED
  BY <1>3, <1>4, <1>5, <1>6

\* What was read on c came from its full procedure, or from its fallback procedure.
FullRead(w, c, u) ==
    /\ Going(u) /\ ToldOn(w, u) /\ Fewer(w, u)
    /\ w.proc.char = c /\ u.proc.char = c /\ u.proc.startedSecured = w.proc.startedSecured
    /\ Prepared(w, u) /\ Handled(w, u)
    /\ \/ u.proc.txn.state = "WaitingForInitialWrite"
       \/ u.proc.txn.state \in Responding /\ ResponseOf(w, u)

\* What a read may have written.
ReadWrote(w, c, u) ==
    u.value # w.value => w.proc.char = c /\ IsRequestAvailable(w.proc.txn) /\ Written(w, u)

LEMMA ReadRequestFields ==
    ASSUME NEW w, Going(w), NEW c \in Chars, NEW space, NEW room \in Nat, NEW outcome
    PROVE  LET u == HandleReadRequest(w, c, space, room, outcome)
           IN /\ Outlived(w, u) /\ NotStuck(u) /\ ReadWrote(w, c, u) /\ Heard(w, u)
              /\ Closed(u) \/ FullRead(w, c, u) \/ FallbackAnswered(w, c, u)
<1> DEFINE a == GetProcedure(w, c)
           x == IF Failed(a) THEN a
                ELSE IF a.call.procedure = "Full" THEN HandleGATTRead(a, space, room, outcome)
                ELSE FallbackRead(a, c, space)
           u == Concluded(x)
           g == HandleGATTRead(a, space, room, outcome)
           f == FallbackRead(a, c, space)
<1>1. w \in Worlds
  BY DEF Going
<1>2. HandleReadRequest(w, c, space, room, outcome) = u
  BY DEF HandleReadRequest
<1>3. \/ Refused(w, a)
      \/ ~Failed(a) /\ FullAt(w, c, a) /\ a.proc = w.proc
      \/ ~Failed(a) /\ FallbackAt(w, c, a) /\ ~a.call.new
  BY GetProcedureFields
<1> HIDE DEF a
<1>4. CASE Refused(w, a)
  <2>1. x = a
    BY <1>4 DEF Refused
  <2>2. Refused(w, x)
    BY <1>4, <2>1
  <2> HIDE DEF x, u
  <2>3. x \in Worlds /\ Failed(x) /\ Outlived(w, x) /\ x.value = w.value
    BY <2>2 DEF Refused, Outlived
  <2>4. Lived(x, u) /\ u.value = x.value /\ NotStuck(u) /\ Closed(u)
    BY <2>3, ConcludedFields DEF u
  <2>5. Outlived(w, u)
    BY <1>1, <2>3, <2>4, LivedOutlived, OutlivedTwice
  <2> QED
    BY <1>2, <2>3, <2>4, <2>5 DEF ReadWrote, Heard, Closed
<1>5. CASE ~Failed(a) /\ FullAt(w, c, a) /\ a.proc = w.proc
  <2>1. x = g
    BY <1>5 DEF FullAt
  <2>2. /\ Ready(a) /\ a.proc.char = c /\ a \in Worlds
        /\ Outlived(w, a) /\ Quiet(w, a) /\ a.value = w.value /\ a.told = w.told /\ Fewer(w, a)
        /\ a.session = w.session /\ a.proc = w.proc
    BY <1>5 DEF FullAt, Ready
  <2>3. /\ Lived(a, g) /\ Written(a, g)
        /\ g.value = a.value \/ IsRequestAvailable(a.proc.txn)
        /\ Failed(g) \/ Closed(g) \/ ReadDone(a, g)
    BY <2>2, GATTReadFields
  <2> HIDE DEF g, x, u
  <2>4. x \in Worlds /\ Outlived(w, x)
    BY <1>1, <2>1, <2>2, <2>3, LivedOutlived, OutlivedTwice DEF Lived
  <2>5. /\ Lived(x, u) /\ u.value = x.value /\ u.proc = x.proc /\ NotStuck(u)
        /\ Failed(x) => Closed(u)
        /\ ~Failed(x) =>
               /\ u.session = x.session /\ u.told = x.told
               /\ \A d \in Chars : u.attr[d].fallback = x.attr[d].fallback
               /\ Going(x) => Going(u)
               /\ ~u.session.active => u.attr = x.attr
    BY <2>4, ConcludedFields DEF u
  <2>6. Outlived(w, u)
    BY <1>1, <2>4, <2>5, LivedOutlived, OutlivedTwice
  <2>7. a.pairing = w.pairing
    BY <2>2 DEF Outlived, SameHouse
  <2>8. Written(w, u)
    <3>1. IsSecured(a) = IsSecured(w)
      BY <2>2, <2>7 DEF IsSecured
    <3>2. \A d \in Chars : MayWrite(a, d) = MayWrite(w, d)
      BY <3>1 DEF MayWrite
    <3>3. w.proc.char \in Chars
      BY <2>2
    <3> QED
      BY <2>1, <2>2, <2>3, <2>5, <3>2, <3>3 DEF Written
  <2>9. ReadWrote(w, c, u)
    BY <2>1, <2>2, <2>3, <2>5, <2>8 DEF ReadWrote
  <2>10. ASSUME ~Failed(x), ~Closed(x)
        PROVE  FullRead(w, c, u)
    <3>1. ReadDone(a, x)
      BY <2>1, <2>3, <2>10
    <3>2. /\ Ready(x) /\ x.proc.char = c /\ x.proc.startedSecured = w.proc.startedSecured
          /\ Prepared(w, x) /\ Handled(w, x) /\ ToldOn(a, x)
          /\ \/ x.proc.txn.state = "WaitingForInitialWrite"
             \/ x.proc.txn.state \in Responding /\ ResponseOf(w, x)
      BY <2>2, <3>1 DEF ReadDone, Prepared, ResponseOf, Handled
    <3>3. Going(u) /\ u.told = x.told /\ u.session = x.session
      BY <2>5, <2>10, <3>2, ReadyGoes
    <3>4. ToldOn(w, u)
      <4>1. Subscribed(a) = Subscribed(w)
        BY <2>2 DEF Subscribed, Outlived
      <4> QED
        BY <2>2, <3>2, <3>3, <4>1 DEF ToldOn
    <3>5. Fewer(w, u)
      BY <2>1, <2>2, <2>3, <2>5, <2>10 DEF Fewer, Lived, SameAttr
    <3>6. Prepared(w, u) /\ Handled(w, u) /\ (ResponseOf(w, x) => ResponseOf(w, u))
      BY <2>5, <3>2 DEF Prepared, ResponseOf, Handled
    <3> QED
      BY <2>2, <2>5, <3>2, <3>3, <3>4, <3>5, <3>6 DEF FullRead
  <2>11. ~Failed(x) /\ Closed(x) => Closed(u)
    BY <2>5 DEF Closed
  <2>12. Heard(w, u)
    <3>1. CASE Failed(x) \/ Closed(x)
      BY <2>5, <2>11, <3>1 DEF Heard, Closed
    <3>2. CASE ~Failed(x) /\ ~Closed(x)
      <4>1. x.attr = a.attr \/ x.session.active
        BY <2>1, <2>3, <3>2 DEF ReadDone
      <4> QED
        BY <2>2, <2>5, <3>2, <4>1 DEF Heard, Quiet
    <3> QED
      BY <3>1, <3>2
  <2> QED
    BY <1>2, <2>5, <2>6, <2>9, <2>10, <2>11, <2>12
<1>6. CASE ~Failed(a) /\ FallbackAt(w, c, a) /\ ~a.call.new
  <2>1. x = f
    BY <1>6 DEF FallbackAt
  <2>3. Refused(w, f) \/ (FallbackAnswered(w, c, f) /\ Quiet(w, f))
    BY <1>1, <1>6, FallbackReadFields
  <2> HIDE DEF f, x, u
  <2>4. x \in Worlds /\ Outlived(w, x) /\ x.value = w.value
    BY <2>1, <2>3 DEF Refused, FallbackAnswered, Outlived
  <2>5. /\ Lived(x, u) /\ u.value = x.value /\ u.proc = x.proc /\ NotStuck(u)
        /\ Failed(x) => Closed(u)
        /\ ~Failed(x) =>
               /\ u.session = x.session /\ u.told = x.told
               /\ \A d \in Chars : u.attr[d].fallback = x.attr[d].fallback
               /\ Going(x) => Going(u)
               /\ ~u.session.active => u.attr = x.attr
    BY <2>4, ConcludedFields DEF u
  <2>6. Outlived(w, u)
    BY <1>1, <2>4, <2>5, LivedOutlived, OutlivedTwice
  <2>7. ASSUME ~Failed(x)
        PROVE  FallbackAnswered(w, c, u)
    <3>1. FallbackAnswered(w, c, x)
      BY <2>1, <2>3, <2>7 DEF Refused
    <3>2. Going(u) /\ u.told = x.told /\ u.session = x.session
      BY <2>5, <2>7, <3>1 DEF FallbackAnswered
    <3> QED
      BY <2>5, <2>6, <2>7, <3>1, <3>2 DEF FallbackAnswered
  <2>8. Heard(w, u)
    BY <2>1, <2>3, <2>5 DEF Heard, Quiet, Closed, Refused
  <2> QED
    BY <1>2, <2>4, <2>5, <2>6, <2>7, <2>8 DEF ReadWrote
<1> QED
  BY <1>3, <1>4, <1>5, <1>6

-----------------------------------------------------------------------------
(* The invariant of the link.                                              *)

\* Without a link there is no session, and no procedure.
Unused == [SessionCreated EXCEPT !.linkTimer = "Off"]
Apart(w) == ~w.link.connected => w.proc = Detached /\ w.session = Unused

Ends(w) == w.session.terminal => ~w.session.active

ToldSound(w) ==
    w.link.connected /\ w.pairing.stored =>
        /\ w.session.active => w.told = Subscribed(w)
        /\ ~w.session.active /\ ~w.session.terminal => w.told = {}

\* What has been read of a request is what the central has sent of it.
Gathered(w, a) ==
    LET c == w.proc.char
        t == w.proc.txn
    IN t.state = "ReadingRequest" =>
           /\ a[c].sent = t.offset /\ Len(a[c].body) = t.header.total
           /\ t.header.total <= t.max =>
                  SubSeq(t.memory, 1, t.offset) = SubSeq(a[c].body, 1, t.offset)

\* What was prepared is what was confirmed to the central, or about to be.
Confirming(w, a, p) ==
    LET c == w.proc.char
    IN /\ w.proc.multi = "TimedWrite" /\ ~DropsSecuritySession(c)
       /\ TimedBody(w.proc) # <<>>
       => \/ TimedBody(w.proc) = p[c]
          \/ /\ w.proc.txn.state \in Responding /\ p[c] = <<>>
             /\ a[c].header.opcode = "CharacteristicTimedWrite"
             /\ TimedBody(w.proc) = a[c].body

\* Only the procedure that is there has prepared anything.
PreparedHere(w, p) ==
    \A c \in Chars : p[c] # <<>> =>
        /\ w.proc.char = c
        /\ w.proc.multi = "TimedWrite" \/ w.proc.txn.state \in Responding

Remembers(w, a, p) ==
    ~w.session.terminal => Gathered(w, a) /\ Confirming(w, a, p) /\ PreparedHere(w, p)

Inv(w, a, p) ==
    /\ Sound(w) /\ Apart(w) /\ Ends(w) /\ NotStuck(w) /\ ToldSound(w)
    /\ a \in [Chars -> Askings] /\ p \in [Chars -> Bodies]
    /\ Matches(w, a) /\ Remembers(w, a, p)

\* The inductive invariant.
LinkInv == Inv(Accessory, asked, prepared) /\ clean \in BOOLEAN

\* Nothing differs but the nonces and the course of the call.
Alike(w, v) ==
    /\ v \in Worlds
    /\ v.link = w.link /\ v.running = w.running /\ v.pairing = w.pairing
    /\ v.session = w.session /\ v.proc = w.proc /\ v.attr = w.attr
    /\ v.value = w.value /\ v.told = w.told

LEMMA AlikeInv ==
    ASSUME NEW w, NEW a, NEW p, Inv(w, a, p), NEW v, Alike(w, v)
    PROVE  Inv(v, a, p)
<1>1. /\ IsSecured(v) = IsSecured(w) /\ IsTransient(v) = IsTransient(w)
      /\ ControllerIsAdmin(v) = ControllerIsAdmin(w) /\ Subscribed(v) = Subscribed(w)
  BY DEF Alike, IsSecured, IsTransient, ControllerIsAdmin, Subscribed
<1>2. DueEvents(v) = DueEvents(w)
  BY <1>1 DEF Alike, DueEvents
<1>3. Sound(v)
  BY <1>1 DEF Inv, Sound, Alike, ProceduresSound, SecuritySound
<1>4. Apart(v) /\ Ends(v) /\ NotStuck(v) /\ ToldSound(v)
  BY <1>1, <1>2 DEF Inv, Alike, Apart, Ends, NotStuck, ToldSound
<1>5. Matches(v, a)
  BY DEF Inv, Alike, Matches, Sealed
<1>6. Remembers(v, a, p)
  BY DEF Inv, Alike, Remembers, Gathered, Confirming, PreparedHere
<1> QED
  BY <1>3, <1>4, <1>5, <1>6 DEF Inv

LEMMA InvGoes ==
    ASSUME NEW w, NEW a, NEW p, Inv(w, a, p), ~Failed(w), ~w.session.terminal
    PROVE  Going(w)
BY DEF Inv, Sound, Going

\* A link that is to end has nothing left to be sound about.
LEMMA ClosedInv ==
    ASSUME NEW w \in Worlds, Closed(w), w.link.connected,
           NEW a \in [Chars -> Askings], NEW p \in [Chars -> Bodies]
    PROVE  Inv(w, a, p)
<1>1. NotStuck(w)
  BY DEF NotStuck, IsSecured, Closed
<1> QED
  BY <1>1 DEF Closed, Inv, Sound, Apart, Ends, ToldSound, Matches, Remembers

LEMMA NothingAsked ==
    NotAsked \in Askings /\ NonePrepared \in [Chars -> Bodies] /\ \A c \in Chars : NonePrepared[c] = <<>>
<1> DEFINE e == <<>>
           h == NoHeader
<1>1. e \in Bodies /\ h \in Headers
  BY NoneTypes DEF NoHeader
<1> HIDE DEF e, h
<1>2. NotAsked = [on |-> FALSE, header |-> h, body |-> e, sent |-> 0, sealed |-> FALSE]
  BY DEF NotAsked, e, h
<1>3. NotAsked \in Askings
  BY <1>1, <1>2 DEF Askings
<1>4. NonePrepared = [c \in Chars |-> e]
  BY DEF NonePrepared, e
<1>5. \A c \in Chars : NonePrepared[c] = e
  BY <1>4
<1> QED
  BY <1>1, <1>3, <1>4, <1>5 DEF e

\* What the central forgets with a procedure that is gone is not needed.
LEMMA KeptInv ==
    ASSUME NEW w, NEW a, NEW p, Inv(w, a, p)
    PROVE  Inv(w, Kept(w, a), IF w.session.terminal THEN NonePrepared ELSE p)
<1> DEFINE k == Kept(w, a)
           q == IF w.session.terminal THEN NonePrepared ELSE p
<1>1. k \in [Chars -> Askings] /\ q \in [Chars -> Bodies]
  BY NothingAsked DEF Kept, Inv
<1>2. CASE w.session.terminal
  BY <1>1, <1>2 DEF Inv, Matches, Remembers
<1>3. CASE ~w.session.terminal
  <2>1. q = p
    BY <1>3
  <2>2. \A c \in Chars : w.proc.char = c \/ w.attr[c].fallback.timer => k[c] = a[c]
    BY <1>3 DEF Kept
  <2> HIDE DEF k, q
  <2>3. /\ \/ w.proc.txn.state # "WaitingForInitialWrite" \/ w.proc.multi # "None"
           \/ w.proc.txn.response.total # 0
        => w.proc.char \in Chars /\ k[w.proc.char] = a[w.proc.char]
    BY <1>3, <2>2 DEF Inv, Sound, ProceduresSound, TransactionSound, Responding
  <2>4. Matches(w, k)
    <3>1. Sealed(w, k)
      BY <1>3, <2>3 DEF Inv, Matches, Sealed
    <3> QED
      BY <1>3, <2>2, <2>3, <3>1 DEF Inv, Matches, Responding
  <2>5. Remembers(w, k, q)
    <3>1. Gathered(w, k)
      BY <1>3, <2>3 DEF Inv, Remembers, Gathered
    <3>2. Confirming(w, k, p)
      BY <1>3, <2>3 DEF Inv, Remembers, Confirming
    <3> QED
      BY <1>3, <2>1, <3>1, <3>2 DEF Inv, Remembers
  <2> QED
    BY <1>1, <2>4, <2>5 DEF Inv, k, q
<1> QED
  BY <1>2, <1>3 DEF k, q

LEMMA AccessoryFields ==
    /\ Accessory.link = link /\ Accessory.running = running /\ Accessory.pairing = pairing
    /\ Accessory.session = session /\ Accessory.proc = proc /\ Accessory.attr = attr
    /\ Accessory.value = value /\ Accessory.told = told /\ Accessory.gap = gap
    /\ Accessory.call = NoCall /\ ~Failed(Accessory)
BY DEF Accessory, NoCall, Failed

LEMMA BecomesAlike ==
    ASSUME NEW u \in Worlds, Becomes(u)
    PROVE  Alike(u, Accessory')
<1>1. NoCall \in Calls
  BY DEF NoCall, Calls, Errors
<1>2. Accessory' = [link |-> u.link, running |-> u.running, pairing |-> u.pairing,
          session |-> u.session, proc |-> u.proc, attr |-> u.attr, value |-> u.value,
          told |-> u.told, gap |-> u.gap, call |-> NoCall]
  BY DEF Becomes, Accessory, NoCall
<1>3. Accessory' \in Worlds
  BY <1>1, <1>2, WorldFields DEF Worlds
<1> QED
  BY <1>2, <1>3 DEF Alike

LEMMA AnsweredInv ==
    ASSUME NEW u, NEW a, NEW p, Inv(u, a, p), Answered(u, a, p)
    PROVE  Inv(Accessory, asked, prepared)'
<1>1. Becomes(u) /\ asked' = Kept(u, a)
      /\ prepared' = IF u.session.terminal THEN NonePrepared ELSE p
  BY DEF Answered
<1>2. Alike(u, Accessory')
  BY <1>1, BecomesAlike DEF Inv, Sound
<1>3. Inv(u, asked', prepared')
  BY <1>1, KeptInv
<1>4. Inv(Accessory', asked', prepared')
  BY <1>2, <1>3, AlikeInv
<1> QED
  BY <1>4

\* An indication went to a subscriber that may have the value, on a link that goes on.
Authorized(w, u) ==
    \A c \in Chars :
        w.attr[c].pending /\ ~u.attr[c].pending /\ w.link.connected /\ u.link.connected =>
            /\ u.attr[c].subscribed /\ u.pairing.stored /\ ~w.session.terminal
            /\ u.session.active \/ u.session.terminal
            /\ Db(c).adminRead => u.pairing.admin

LEMMA QuietAuthorized ==
    ASSUME NEW w, NEW u, Quiet(w, u)
    PROVE  Authorized(w, u)
BY DEF Quiet, Authorized

LEMMA HeardAuthorized ==
    ASSUME NEW w, NEW u, Outlived(w, u), Heard(w, u), ~w.session.terminal
    PROVE  Authorized(w, u)
BY DEF Outlived, IndicatedTo, SameHouse, Heard, Authorized

LEMMA GoingInv ==
    ASSUME NEW w, Going(w), NotStuck(w), w.link.connected, ToldSound(w),
           NEW a \in [Chars -> Askings], NEW p \in [Chars -> Bodies],
           Matches(w, a), Gathered(w, a), Confirming(w, a, p), PreparedHere(w, p)
    PROVE  Inv(w, a, p)
BY DEF Going, Inv, Sound, Apart, Ends, Remembers

LEMMA ToldKeeps ==
    ASSUME NEW w, NEW u, ToldSound(w), Outlived(w, u), ~w.session.terminal,
           ToldEnd(w, u) \/ ToldOn(w, u)
    PROVE  ToldSound(u)
<1>1. Subscribed(u) = Subscribed(w)
  BY DEF Outlived, Subscribed
<1>2. u.pairing = w.pairing /\ u.link.connected = w.link.connected
  BY DEF Outlived, SameHouse
<1>3. CASE ~(w.link.connected /\ w.pairing.stored)
  BY <1>2, <1>3 DEF ToldSound
<1>4. CASE w.link.connected /\ w.pairing.stored
  <2>1. IF w.session.active THEN w.told = Subscribed(w) ELSE w.told = {}
    BY <1>4 DEF ToldSound
  <2>2. CASE ToldEnd(w, u)
    BY <1>1, <1>2, <1>4, <2>1, <2>2 DEF ToldEnd, ToldSound
  <2>3. CASE ToldOn(w, u)
    BY <1>1, <1>2, <1>4, <2>1, <2>3 DEF ToldOn, ToldSound
  <2> QED
    BY <2>2, <2>3
<1> QED
  BY <1>3, <1>4

\* On a link that is to end nothing is done any more.
LEMMA TerminalFields ==
    ASSUME NEW w \in Worlds, w.session.terminal, NEW c \in Chars, NEW m, NEW seal,
           NEW space, NEW room, NEW outcome, NEW u,
           \/ u = HandleWriteRequest(w, c, m, seal)
           \/ u = HandleReadRequest(w, c, space, room, outcome)
    PROVE  Outlived(w, u) /\ Quiet(w, u) /\ u.value = w.value /\ Closed(u) /\ Failed(u)
<1> DEFINE e == "InvalidState"
           v == CancelCentralConnection(w)
           x == Error(v, e)
<1>1. x = RefusesCall(w)
  BY DEF RefusesCall
<1>2. v \in Worlds /\ Lived(w, v) /\ v.value = w.value /\ v.attr = w.attr
  BY CancelFields DEF Lived
<1>3. e \in Errors /\ e # "None"
  BY DEF Errors
<1> HIDE DEF v, e
<1>4. Turned(v, x) /\ Failed(x)
  BY <1>2, <1>3, ErrorFields
<1> HIDE DEF x
<1>5. u = Terminate(x)
  <2>1. AttachProcedure(w, c) = x /\ GetProcedure(w, c) = x
    BY <1>1 DEF AttachProcedure, GetProcedure
  <2>2. u = Concluded(x)
    BY <1>4, <2>1 DEF HandleWriteRequest, HandleReadRequest
  <2> QED
    BY <1>4, <2>2 DEF Concluded
<1>6. x \in Worlds /\ Lived(v, x) /\ x.value = v.value /\ x.attr = v.attr
  BY <1>2, <1>4, TurnedLives DEF Turned
<1>7. /\ Lived(x, u) /\ u.value = x.value /\ Closed(u) /\ u.attr = x.attr
      /\ u.call = x.call
  BY <1>5, <1>6, TerminateLives
<1>8. Lived(w, u)
  BY <1>2, <1>6, <1>7, LivedTwice
<1>9. Outlived(w, u)
  BY <1>8, LivedOutlived
<1> QED
  BY <1>2, <1>4, <1>6, <1>7, <1>9 DEF Quiet, Failed

-----------------------------------------------------------------------------
(* The steps.                                                              *)

\* The central knows of the message m on c what was sent with it: the beginning of a
\* request, or its continuation.
Begun(m, b) ==
    /\ m.kind = "First"
    /\ b.on /\ b.header = m.header /\ b.sent = Len(m.chunk)
    /\ Len(b.body) = m.header.total /\ m.chunk = SubSeq(b.body, 1, Len(m.chunk))

\* What stays prepared when a request on c begins.
Stays(p, c) ==
    IF DropsSecuritySession(c) THEN [NonePrepared EXCEPT ![c] = p[c]] ELSE p

LEMMA BegunInv ==
    ASSUME NEW w, NEW a, NEW p, Inv(w, a, p), ~w.session.terminal, w.link.connected,
           NEW c \in Chars, NEW m \in Messages, NEW b \in Askings, Begun(m, b),
           NEW u, Outlived(w, u), NotStuck(u), FullTook(w, c, m, u) \/ FallbackTook(w, c, m, u),
           NEW k, k = [a EXCEPT ![c] = b],
           NEW q, q = Stays(p, c)
    PROVE  Inv(u, k, q)
<1>1. /\ k \in [Chars -> Askings] /\ q \in [Chars -> Bodies] /\ k[c] = b
      /\ \A d \in Chars \ {c} : k[d] = a[d]
  BY NothingAsked DEF Inv, Stays
<1>2. /\ ~u.session.terminal /\ Going(u) /\ u.link.connected /\ ToldSound(u)
      /\ ProceduresSound(u) /\ TransactionSound(u.proc.txn)
  <2>1. Going(u) /\ u.link.connected
    BY DEF Outlived, FullTook, FallbackTook
  <2>2. ToldEnd(w, u)
    BY DEF FullTook, FallbackTook, ToldEnd
  <2> QED
    BY <2>1, <2>2, ToldKeeps DEF Inv, Going, ProceduresSound
<1>3. \A d \in Chars : w.attr[d].fallback.timer =>
          a[d].on /\ w.attr[d].fallback.tid = a[d].header.tid
  BY DEF Inv, Matches
<1>4. \A d \in Chars : q[d] # <<>> => q[d] = p[d] /\ (DropsSecuritySession(c) => d = c)
  BY NothingAsked DEF Stays
<1>5. PreparedHere(w, p) /\ Confirming(w, a, p) /\ Gathered(w, a)
  BY DEF Inv, Remembers
<1>6. CASE FullTook(w, c, m, u)
  <2>1. PICK r : /\ r.txn \in Txns /\ Took(r.txn, m, u.proc.txn)
                 /\ u.proc.startedSecured = r.startedSecured
                 /\ u.proc.multi = r.multi /\ u.proc.timed = r.timed
                 /\ r.multi = "TimedWrite" => u.proc.txn.memory = r.txn.memory
                 /\ \/ w.proc.char = c /\ w.proc.timer /\ r = w.proc
                    \/ /\ r.txn.state = "WaitingForInitialWrite" /\ r.multi = "None"
                       /\ ~w.proc.timer \/ Takes(w, c)
    BY <1>6 DEF FullTook
  <2>2. u.proc.char = c /\ Fewer(w, u)
    BY <1>6 DEF FullTook
  <2>3. LET t == u.proc.txn
        IN /\ r.txn.state = "WaitingForInitialWrite" /\ t.state = "ReadingRequest"
           /\ t.header = m.header /\ t.max = r.txn.max /\ t.offset = Len(m.chunk)
           /\ t.memory = IF m.header.total > t.max THEN r.txn.memory
                         ELSE Overwrite(r.txn.memory, 0, m.chunk)
    BY <2>1 DEF Begun, Took
  <2>4. Matches(u, k)
    <3>1. u.proc.txn.response.total = 0
      BY <1>2, <2>3 DEF TransactionSound, Responding
    <3>2. ASSUME NEW d \in Chars, u.attr[d].fallback.timer
          PROVE  k[d].on /\ u.attr[d].fallback.tid = k[d].header.tid
      <4>1. d # c
        BY <1>2, <2>2, <3>2 DEF ProceduresSound
      <4>2. u.attr[d].fallback = w.attr[d].fallback
        BY <2>2, <3>2, NoFallbackFields DEF Fewer
      <4> QED
        BY <1>1, <1>3, <3>2, <4>1, <4>2
    <3> QED
      BY <1>1, <2>2, <2>3, <3>1, <3>2 DEF Matches, Sealed, Begun, Responding
  <2>5. Gathered(u, k)
    <3>1. m.header.total <= u.proc.txn.max => ~(m.header.total > u.proc.txn.max)
      <4>1. m.header.total \in Nat /\ u.proc.txn.max \in Nat
        BY <1>2, <2>3, WorldFields, ProcFields, TxnFields DEF Going, Headers
      <4> QED
        BY <4>1
    <3>2. SubSeq(Overwrite(r.txn.memory, 0, m.chunk), 1, Len(m.chunk)) = m.chunk
      <4> DEFINE o == 0
                 y == r.txn.memory
                 x == m.chunk
      <4>1. y \in Bodies /\ x \in Bodies /\ o \in Nat /\ o = 0 /\ Len(x) \in Nat
        BY <2>1, TxnFields, MessageFields DEF Begun
      <4> HIDE DEF y, x
      <4>2. SubSeq(Overwrite(y, o, x), 1, o + Len(x)) = SubSeq(y, 1, o) \o x
        <5>1. o <= Len(y)
          BY <4>1 DEF Bodies
        <5> HIDE DEF o
        <5> QED
          BY <4>1, <5>1, OverwriteFields
      <4>3. SubSeq(y, 1, o) \o x = x
        BY <4>1 DEF Bodies
      <4> QED
        BY <4>1, <4>2, <4>3 DEF o, x, y
    <3> QED
      BY <1>1, <2>2, <2>3, <3>1, <3>2 DEF Gathered, Begun
  <2>6. w.proc.char = c /\ w.proc.timer /\ r = w.proc => w.proc.txn.state = "WaitingForInitialWrite"
    BY <2>3
  <2>7. Confirming(u, k, q)
    <3>1. CASE u.proc.multi = "TimedWrite" /\ ~DropsSecuritySession(c)
      <4>1. w.proc.char = c /\ w.proc.timer /\ r = w.proc /\ q = p
        BY <2>1, <3>1 DEF Takes, Stays
      <4>2. TimedBody(u.proc) = TimedBody(w.proc)
        BY <2>1, <3>1, <4>1 DEF TimedBody
      <4> QED
        BY <1>5, <2>1, <2>2, <2>6, <4>1, <4>2, <2>3 DEF Confirming, Responding
    <3>2. CASE ~(u.proc.multi = "TimedWrite" /\ ~DropsSecuritySession(c))
      BY <2>2, <3>2 DEF Confirming
    <3> QED
      BY <3>1, <3>2
  <2>8. PreparedHere(u, q)
    <3>1. SUFFICES ASSUME NEW d \in Chars, q[d] # <<>>
                   PROVE  c = d /\ u.proc.multi = "TimedWrite"
      BY <2>2 DEF PreparedHere
    <3>2. p[d] # <<>> /\ (DropsSecuritySession(c) => d = c)
      BY <1>4, <3>1
    <3>3. /\ w.proc.char = d
          /\ w.proc.multi = "TimedWrite" \/ w.proc.txn.state \in Responding
      BY <1>5, <3>2 DEF PreparedHere
    <3>4. w.proc.timer
      BY <3>3 DEF Inv, Sound, ProceduresSound, Responding
    <3>5. w.proc.char = c /\ r = w.proc
      BY <2>1, <3>2, <3>3, <3>4 DEF Takes
    <3> QED
      BY <2>1, <2>3, <3>3, <3>5 DEF Responding
  <2> QED
    BY <1>1, <1>2, <2>4, <2>5, <2>7, <2>8, GoingInv
<1>7. CASE FallbackTook(w, c, m, u)
  <2>1. /\ u.proc = w.proc /\ q = p /\ u.attr[c].fallback.timer
        /\ u.attr[c].fallback.tid = m.header.tid
        /\ \A d \in Chars \ {c} : u.attr[d].fallback = w.attr[d].fallback
    BY <1>7 DEF FallbackTook, Begun, Stays
  <2>2. u.proc.char # c
    BY <1>2, <2>1 DEF ProceduresSound
  <2>3. \/ w.proc.txn.state # "WaitingForInitialWrite" \/ w.proc.multi # "None"
        \/ w.proc.txn.response.total # 0
        => w.proc.char \in Chars /\ k[w.proc.char] = a[w.proc.char]
    BY <1>1, <1>2, <2>1, <2>2 DEF ProceduresSound, TransactionSound, Responding
  <2>4. Matches(u, k)
    <3>1. Sealed(u, k)
      BY <2>1, <2>3 DEF Inv, Matches, Sealed
    <3> QED
      BY SMTT(20), <1>1, <1>3, <2>1, <2>3, <3>1 DEF Inv, Matches, Responding, Begun
  <2>5. Gathered(u, k)
    BY <1>5, <2>1, <2>3 DEF Gathered
  <2>6. Confirming(u, k, q)
    BY <1>5, <2>1, <2>3 DEF Confirming
  <2>7. PreparedHere(u, q)
    BY <1>5, <2>1 DEF PreparedHere
  <2> QED
    BY <1>1, <1>2, <2>4, <2>5, <2>6, <2>7, GoingInv
<1>8. FullTook(w, c, m, u) \/ FallbackTook(w, c, m, u)
  OBVIOUS
<1> QED
  BY <1>6, <1>7, <1>8

\* What follows in a body goes on from what was sent of it.
LEMMA ChunkFollows ==
    ASSUME NEW b \in Bodies, NEW s \in Nat, s <= Len(b), NEW n \in Nat,
           NEW x, x = Chunk(b, s, n)
    PROVE  /\ x \in Bodies /\ Len(x) \in Nat /\ s + Len(x) <= Len(b)
           /\ SubSeq(b, 1, s) \o x = SubSeq(b, 1, s + Len(x))
           /\ s = 0 => x = SubSeq(b, 1, Len(x))
<1> DEFINE e == IF s + n < Len(b) THEN s + n ELSE Len(b)
<1>1. Len(b) \in Nat /\ b \in Seq(Words)
  BY DEF Bodies
<1>2. e \in Nat /\ s <= e /\ e <= Len(b)
  BY <1>1
<1>3. x = SubSeq(b, s + 1, e)
  BY DEF Chunk
<1> HIDE DEF e
<1>4. \A i \in s + 1 .. e : b[i] \in Words
  BY <1>1, <1>2, ElementOfSeq
<1>5. x \in Seq(Words) /\ Len(x) = IF s + 1 <= e THEN e - (s + 1) + 1 ELSE 0
  BY <1>2, <1>3, <1>4, SubSeqProperties
<1>6. s + Len(x) = e
  BY <1>2, <1>5
<1>7. SubSeq(b, 1, s) \o SubSeq(b, s + 1, e) = SubSeq(b, 1, e)
  <2>1. 1 \in 1 .. Len(b) + 1 /\ s \in 0 .. Len(b) /\ e \in s .. Len(b) /\ 1 - 1 = 0
    BY <1>1, <1>2
  <2> QED
    BY <1>1, <2>1, ConcatAdjacentSubSeq
<1>8. s = 0 => Len(x) = e
  BY <1>2, <1>6
<1> QED
  BY <1>1, <1>2, <1>3, <1>5, <1>6, <1>7, <1>8 DEF Bodies

\* The central has sent a continuation of what it works on.
Sent(a, c, n) == [a EXCEPT ![c] = [a[c] EXCEPT !.sent = n]]

LEMMA SentFields ==
    ASSUME NEW a \in [Chars -> Askings], NEW c \in Chars, NEW n \in Nat
    PROVE  /\ Sent(a, c, n) \in [Chars -> Askings] /\ Sent(a, c, n)[c].sent = n
           /\ \A d \in Chars :
                  /\ Sent(a, c, n)[d].on = a[d].on /\ Sent(a, c, n)[d].header = a[d].header
                  /\ Sent(a, c, n)[d].body = a[d].body
           /\ \A d \in Chars \ {c} : Sent(a, c, n)[d] = a[d]
<1>1. a[c] \in Askings
  OBVIOUS
<1> DEFINE k == [a[c] EXCEPT !.sent = n]
<1>2. k \in Askings /\ k.sent = n /\ k.on = a[c].on /\ k.header = a[c].header
      /\ k.body = a[c].body
  BY <1>1 DEF Askings
<1> HIDE DEF k
<1>3. Sent(a, c, n) = [a EXCEPT ![c] = k]
  BY DEF Sent, k
<1> QED
  BY <1>2, <1>3

LEMMA ContinuedInv ==
    ASSUME NEW w, NEW a, NEW p, Inv(w, a, p), ~w.session.terminal, w.link.connected,
           NEW c \in Chars, NEW m \in Messages, m.kind = "Continuation", NEW n \in Nat,
           m.chunk = Chunk(a[c].body, a[c].sent, n),
           NEW u, Outlived(w, u), NotStuck(u), FullTook(w, c, m, u) \/ FallbackTook(w, c, m, u),
           NEW k, k = Sent(a, c, a[c].sent + Len(m.chunk))
    PROVE  Inv(u, k, p)
<1>1. a \in [Chars -> Askings] /\ p \in [Chars -> Bodies] /\ a[c] \in Askings
  BY DEF Inv
<1>2. Len(m.chunk) \in Nat /\ a[c].sent \in Nat /\ a[c].body \in Bodies
      /\ a[c].sent + Len(m.chunk) \in Nat
  <2>1. a[c].sent \in Nat /\ a[c].body \in Bodies
    BY <1>1 DEF Askings
  <2>2. Len(m.chunk) \in Nat
    BY MessageFields
  <2> QED
    BY <2>1, <2>2
<1>3. /\ k \in [Chars -> Askings] /\ k[c].sent = a[c].sent + Len(m.chunk)
      /\ \A d \in Chars : k[d].on = a[d].on /\ k[d].header = a[d].header
                          /\ k[d].body = a[d].body
      /\ \A d \in Chars \ {c} : k[d] = a[d]
  <2> DEFINE s == a[c].sent + Len(m.chunk)
  <2>1. s \in Nat /\ k = Sent(a, c, s)
    BY <1>2
  <2> HIDE DEF s
  <2>2. /\ k \in [Chars -> Askings] /\ k[c].sent = s
        /\ \A d \in Chars : k[d].on = a[d].on /\ k[d].header = a[d].header
                            /\ k[d].body = a[d].body
        /\ \A d \in Chars \ {c} : k[d] = a[d]
    BY <1>1, <2>1, SentFields
  <2> QED
    BY <2>2 DEF s
<1>9. /\ \A d \in Chars : k[d].on = a[d].on /\ k[d].header = a[d].header
      /\ \A d \in Chars \ {c} : k[d] = a[d]
  BY <1>3
<1>10. k[c].sent = a[c].sent + Len(m.chunk) /\ k[c].body = a[c].body
  BY <1>3
<1>11. /\ w.proc.txn.state \in Responding =>
               /\ a[w.proc.char].on
               /\ w.proc.txn.response.tid = a[w.proc.char].header.tid
       /\ w.proc.txn.state = "ReadingRequest" =>
               a[w.proc.char].on /\ a[w.proc.char].header = w.proc.txn.header
  BY DEF Inv, Matches
<1>4. /\ ~u.session.terminal /\ Going(u) /\ u.link.connected /\ ToldSound(u)
      /\ ProceduresSound(u) /\ TransactionSound(u.proc.txn)
  <2>1. Going(u) /\ u.link.connected
    BY DEF Outlived, FullTook, FallbackTook
  <2>2. ToldEnd(w, u)
    BY DEF FullTook, FallbackTook, ToldEnd
  <2> QED
    BY <2>1, <2>2, ToldKeeps DEF Inv, Going, ProceduresSound
<1>5. PreparedHere(w, p) /\ Confirming(w, a, p) /\ Gathered(w, a) /\ Sealed(w, a)
      /\ ProceduresSound(w) /\ TransactionSound(w.proc.txn)
  BY DEF Inv, Remembers, Matches, Sound, ProceduresSound
<1>6. \A d \in Chars : w.attr[d].fallback.timer =>
          a[d].on /\ w.attr[d].fallback.tid = a[d].header.tid
  BY DEF Inv, Matches
<1>7. CASE FullTook(w, c, m, u)
  <2>1. /\ Took(w.proc.txn, m, u.proc.txn) /\ w.proc.char = c /\ u.proc.char = c
        /\ u.proc.startedSecured = w.proc.startedSecured
        /\ u.proc.multi = w.proc.multi /\ u.proc.timed = w.proc.timed /\ Fewer(w, u)
        /\ w.proc.multi = "TimedWrite" => u.proc.txn.memory = w.proc.txn.memory
    BY <1>7 DEF FullTook, Took
  <2>2. \A d \in Chars : u.attr[d].fallback.timer =>
            k[d].on /\ u.attr[d].fallback.tid = k[d].header.tid
    BY <1>6, <1>9, <2>1, NoFallbackFields DEF Fewer
  <2>3. CASE /\ w.proc.txn.state = "ReadingRequest" /\ u.proc.txn.state = "ReadingRequest"
             /\ u.proc.txn.header = w.proc.txn.header /\ u.proc.txn.max = w.proc.txn.max
             /\ u.proc.txn.offset = w.proc.txn.offset + Len(m.chunk)
             /\ u.proc.txn.memory =
                    IF w.proc.txn.header.total > w.proc.txn.max THEN w.proc.txn.memory
                    ELSE Overwrite(w.proc.txn.memory, w.proc.txn.offset, m.chunk)
    <3>1. u.proc.txn.response.total = 0
      BY <1>4, <2>3 DEF TransactionSound, Responding
    <3>2. Matches(u, k)
      <4>1. a[c].on /\ a[c].header = w.proc.txn.header
        BY <1>11, <2>1, <2>3
      <4>2. k[c].on /\ k[c].header = u.proc.txn.header
        BY <1>9, <2>3, <4>1
      <4>3. u.proc.char = c /\ u.proc.txn.state \notin Responding
        BY <2>1, <2>3 DEF Responding
      <4>4. Sealed(u, k)
        BY <3>1 DEF Sealed
      <4> QED
        BY <2>2, <4>2, <4>3, <4>4 DEF Matches
    <3>3. /\ a[c].sent = w.proc.txn.offset /\ Len(a[c].body) = w.proc.txn.header.total
          /\ w.proc.txn.header.total <= w.proc.txn.max =>
                 SubSeq(w.proc.txn.memory, 1, w.proc.txn.offset)
                     = SubSeq(a[c].body, 1, w.proc.txn.offset)
      BY <1>5, <2>1, <2>3 DEF Gathered
    <3>4. a[c].sent <= Len(a[c].body)
      BY <1>5, <2>3, <3>3 DEF TransactionSound
    <3>5. SubSeq(a[c].body, 1, a[c].sent) \o m.chunk
              = SubSeq(a[c].body, 1, a[c].sent + Len(m.chunk))
      <4> DEFINE b == a[c].body
                 s == a[c].sent
                 x == m.chunk
      <4>1. b \in Bodies /\ s \in Nat /\ s <= Len(b) /\ x = Chunk(b, s, n)
        BY <1>2, <3>4
      <4> HIDE DEF b, s, x
      <4>2. SubSeq(b, 1, s) \o x = SubSeq(b, 1, s + Len(x))
        BY SMTT(20), <4>1, ChunkFollows
      <4> QED
        BY <4>2 DEF b, s, x
    <3>6. /\ w.proc.txn.header.total \in Nat /\ w.proc.txn.max \in Nat
          /\ w.proc.txn.memory \in Bodies /\ w.proc.txn.offset \in Nat
      <4>1. w.proc.txn \in Txns
        BY WorldFields, ProcFields DEF Inv, Sound
      <4> QED
        BY <4>1, TxnFields DEF Headers
    <3>7. w.proc.txn.header.total <= w.proc.txn.max =>
              SubSeq(u.proc.txn.memory, 1, w.proc.txn.offset + Len(m.chunk))
                  = SubSeq(w.proc.txn.memory, 1, w.proc.txn.offset) \o m.chunk
      <4>1. ASSUME w.proc.txn.header.total <= w.proc.txn.max
            PROVE  ~(w.proc.txn.header.total > w.proc.txn.max)
        <5> DEFINE i == w.proc.txn.header.total
                   j == w.proc.txn.max
        <5>1. i \in Nat /\ j \in Nat /\ i <= j
          BY <3>6, <4>1
        <5> HIDE DEF i, j
        <5>2. ~(i > j)
          BY <5>1
        <5> QED
          BY <5>2 DEF i, j
      <4>2. ASSUME w.proc.txn.header.total <= w.proc.txn.max
            PROVE  w.proc.txn.offset <= Len(w.proc.txn.memory)
        BY <1>5, <2>3, <4>2 DEF TransactionSound
      <4>3. m.chunk \in Bodies
        BY MessageFields
      <4> DEFINE y == w.proc.txn.memory
                 o == w.proc.txn.offset
                 x == m.chunk
      <4>4. y \in Bodies /\ o \in Nat /\ x \in Bodies
        BY <3>6, <4>3
      <4>5. o <= Len(y) => SubSeq(Overwrite(y, o, x), 1, o + Len(x)) = SubSeq(y, 1, o) \o x
        <5> HIDE DEF y, o, x
        <5> QED
          BY <4>4, OverwriteFields
      <4> QED
        BY <2>3, <4>1, <4>2, <4>5
    <3>8. Gathered(u, k)
      <4>1. k[c].body = a[c].body /\ k[c].sent = u.proc.txn.offset
            /\ Len(k[c].body) = u.proc.txn.header.total
        BY <1>10, <2>3, <3>3
      <4>2. w.proc.txn.header.total <= w.proc.txn.max =>
                SubSeq(u.proc.txn.memory, 1, u.proc.txn.offset)
                    = SubSeq(a[c].body, 1, u.proc.txn.offset)
        BY <2>3, <3>3, <3>5, <3>7
      <4> QED
        BY ZenonT(40), <2>1, <2>3, <4>1, <4>2 DEF Gathered
    <3>9. Confirming(u, k, p)
      <4>1. u.proc.multi = "TimedWrite" => TimedBody(u.proc) = TimedBody(w.proc)
        BY <2>1 DEF TimedBody
      <4> QED
        BY <1>5, <2>1, <2>3, <4>1 DEF Confirming, Responding
    <3>10. PreparedHere(u, p)
      BY <1>5, <2>1, <2>3 DEF PreparedHere, Responding
    <3> QED
      BY <1>1, <1>3, <1>4, <3>2, <3>8, <3>9, <3>10, GoingInv
  <2>4. CASE w.proc.txn.state = "WaitingForInitialRead" /\ u.proc.txn = w.proc.txn
    <3>1. Matches(u, k)
      <4>1. u.proc.char = c /\ u.proc.txn = w.proc.txn /\ w.proc.char = c
        BY <2>1, <2>4
      <4>2. k[c].on = a[c].on /\ k[c].header = a[c].header
        BY <1>9
      <4>3. Sealed(u, k)
        BY <1>5, <2>1, <4>1, <4>2 DEF Sealed
      <4>4. u.proc.txn.state \in Responding /\ u.proc.txn.state # "ReadingRequest"
        BY <2>4, <4>1 DEF Responding
      <4>5. a[c].on /\ u.proc.txn.response.tid = a[c].header.tid
        BY <1>11, <4>1, <4>4
      <4>6. k[c].on /\ u.proc.txn.response.tid = k[c].header.tid
        BY <4>2, <4>5
      <4> QED
        BY <2>2, <4>1, <4>3, <4>4, <4>6 DEF Matches
    <3>2. Gathered(u, k)
      BY <2>4 DEF Gathered
    <3>3. Confirming(u, k, p)
      <4>1. /\ u.proc.char = c /\ w.proc.char = c /\ u.proc.txn = w.proc.txn
            /\ u.proc.multi = w.proc.multi /\ u.proc.timed = w.proc.timed
        BY <2>1, <2>4
      <4>2. k[c].header = a[c].header /\ k[c].body = a[c].body
        BY <1>9, <1>10
      <4>3. TimedBody(u.proc) = TimedBody(w.proc)
        BY <4>1 DEF TimedBody
      <4> QED
        BY <1>5, <4>1, <4>2, <4>3 DEF Confirming
    <3>4. PreparedHere(u, p)
      BY <1>5, <2>1, <2>4 DEF PreparedHere
    <3> QED
      BY <1>1, <1>3, <1>4, <3>1, <3>2, <3>3, <3>4, GoingInv
  <2> QED
    BY <2>1, <2>3, <2>4 DEF Took
<1>8. CASE FallbackTook(w, c, m, u)
  <2>1. /\ u.proc = w.proc /\ u.attr[c].fallback.timer /\ w.attr[c].fallback.timer
        /\ u.attr[c].fallback.tid = w.attr[c].fallback.tid
        /\ \A d \in Chars \ {c} : u.attr[d].fallback = w.attr[d].fallback
    BY <1>8 DEF FallbackTook
  <2>2. u.proc.char # c
    BY <1>4, <2>1 DEF ProceduresSound
  <2>3. \A d \in Chars : u.attr[d].fallback.timer =>
            k[d].on /\ u.attr[d].fallback.tid = k[d].header.tid
    BY <1>6, <1>9, <2>1
  <2>4. \/ w.proc.txn.state # "WaitingForInitialWrite" \/ w.proc.multi # "None"
        \/ w.proc.txn.response.total # 0
        => w.proc.char \in Chars /\ k[w.proc.char] = a[w.proc.char]
    BY <1>3, <1>5, <2>1, <2>2 DEF ProceduresSound, TransactionSound, Responding
  <2>5. Matches(u, k)
    <3>1. Sealed(u, k)
      BY <1>5, <2>1, <2>4 DEF Sealed
    <3> QED
      <4>1. w.proc.txn.state # "WaitingForInitialWrite" => k[w.proc.char] = a[w.proc.char]
        BY <2>4
      <4>2. u.proc.txn = w.proc.txn /\ u.proc.char = w.proc.char
        BY <2>1
      <4>3. /\ "ReadingRequest" # "WaitingForInitialWrite"
            /\ \A x \in Responding : x # "WaitingForInitialWrite"
        BY DEF Responding
      <4> QED
        BY <1>11, <2>3, <3>1, <4>1, <4>2, <4>3 DEF Matches
  <2>6. Gathered(u, k)
    <3>1. CASE u.proc.txn.state = "ReadingRequest"
      <4>1. w.proc.txn = u.proc.txn /\ w.proc.char = u.proc.char
        BY <2>1
      <4>2. k[u.proc.char] = a[u.proc.char]
        BY <2>4, <3>1, <4>1
      <4>3. Gathered(w, a)
        BY <1>5
      <4> QED
        BY <3>1, <4>1, <4>2, <4>3 DEF Gathered
    <3>2. CASE u.proc.txn.state # "ReadingRequest"
      BY <3>2 DEF Gathered
    <3> QED
      BY <3>1, <3>2
  <2>7. Confirming(u, k, p)
    BY <1>5, <2>1, <2>4 DEF Confirming
  <2>8. PreparedHere(u, p)
    BY <1>5, <2>1 DEF PreparedHere
  <2> QED
    BY <1>1, <1>3, <1>4, <2>5, <2>6, <2>7, <2>8, GoingInv
<1> QED
  BY <1>7, <1>8

\* The response to what the central asked for on c is complete.
Through(w, c, u) ==
    \/ w.attr[c].fallback.timer /\ ~u.attr[c].fallback.timer
    \/ u.proc.char = c /\ u.proc.txn.state = "WaitingForInitialWrite"

Forgotten(a, c) == [a EXCEPT ![c] = NotAsked]
Confirms(a, p, c) ==
    IF a[c].header.opcode = "CharacteristicTimedWrite" /\ p[c] = <<>> THEN a[c].body ELSE p[c]
Promised(u, a, p, c) ==
    [p EXCEPT ![c] = IF u.proc.char = c /\ u.proc.multi = "TimedWrite"
                     THEN Confirms(a, p, c) ELSE <<>>]

LEMMA ForgottenFields ==
    ASSUME NEW a \in [Chars -> Askings], NEW p \in [Chars -> Bodies], NEW c \in Chars, NEW u
    PROVE  LET k == Forgotten(a, c)
               q == Promised(u, a, p, c)
           IN /\ k \in [Chars -> Askings] /\ q \in [Chars -> Bodies]
              /\ \A d \in Chars \ {c} : k[d] = a[d] /\ q[d] = p[d]
              /\ q[c] = IF u.proc.char = c /\ u.proc.multi = "TimedWrite"
                        THEN Confirms(a, p, c) ELSE <<>>
<1> DEFINE x == IF u.proc.char = c /\ u.proc.multi = "TimedWrite"
                THEN Confirms(a, p, c) ELSE <<>>
<1>1. a[c] \in Askings /\ p[c] \in Bodies
  OBVIOUS
<1>2. x \in Bodies
  BY <1>1, NoneTypes DEF Confirms, Askings
<1>3. x = IF u.proc.char = c /\ u.proc.multi = "TimedWrite"
          THEN Confirms(a, p, c) ELSE <<>>
  OBVIOUS
<1>4. Promised(u, a, p, c) = [p EXCEPT ![c] = x]
  BY DEF Promised
<1> HIDE DEF x
<1>5. /\ [p EXCEPT ![c] = x] \in [Chars -> Bodies] /\ [p EXCEPT ![c] = x][c] = x
      /\ \A d \in Chars \ {c} : [p EXCEPT ![c] = x][d] = p[d]
  BY <1>2
<1> DEFINE n == NotAsked
<1>6. n \in Askings /\ Forgotten(a, c) = [a EXCEPT ![c] = n]
  BY NothingAsked DEF Forgotten
<1> HIDE DEF n
<1>7. /\ Forgotten(a, c) \in [Chars -> Askings]
      /\ \A d \in Chars \ {c} : Forgotten(a, c)[d] = a[d]
  BY <1>6
<1> QED
  BY <1>3, <1>4, <1>5, <1>7

\* What the procedure has prepared by a request it has done with is what the central is
\* confirmed.
LEMMA PreparedConfirms ==
    ASSUME NEW w, NEW a, NEW p, Inv(w, a, p), ~w.session.terminal,
           NEW c \in Chars, NEW u, FullRead(w, c, u)
    PROVE  /\ u.proc.multi = "TimedWrite" /\ ~DropsSecuritySession(c)
                  /\ TimedBody(u.proc) # <<>>
              => \/ TimedBody(u.proc) = p[c]
                 \/ /\ p[c] = <<>> /\ a[c].header.opcode = "CharacteristicTimedWrite"
                    /\ TimedBody(u.proc) = a[c].body
           /\ \A d \in Chars : p[d] # <<>> => d = c
<1>1. /\ PreparedHere(w, p) /\ Confirming(w, a, p) /\ Gathered(w, a) /\ w.proc.char = c
      /\ Prepared(w, u) /\ Handled(w, u)
  BY DEF Inv, Remembers, FullRead
<1>2. \A d \in Chars : p[d] # <<>> => d = c
  BY <1>1 DEF PreparedHere
<1>3. CASE /\ u.proc.multi = w.proc.multi /\ u.proc.timed = w.proc.timed
           /\ w.proc.multi = "TimedWrite" => u.proc.txn.memory = w.proc.txn.memory
  <2>1. u.proc.multi = "TimedWrite" => TimedBody(u.proc) = TimedBody(w.proc)
    BY <1>3 DEF TimedBody
  <2> QED
    BY <1>1, <1>2, <1>3, <2>1 DEF Confirming
<1>4. CASE /\ w.proc.txn.header.opcode = "CharacteristicTimedWrite" /\ w.proc.multi = "None"
           /\ u.proc.multi = "TimedWrite"
           /\ u.proc.timed = [length |-> w.proc.txn.header.total, expired |-> FALSE]
           /\ u.proc.txn.memory = w.proc.txn.memory
           /\ w.proc.txn.header.total <= w.proc.txn.max
  <2>1. IsRequestAvailable(w.proc.txn)
    BY <1>1, <1>4 DEF Handled
  <2>2. p[c] = <<>>
    BY <1>1, <1>4, <2>1 DEF PreparedHere, IsRequestAvailable, Responding
  <2>3. a[c].header = w.proc.txn.header
    BY <1>1, <2>1 DEF Inv, Matches, IsRequestAvailable
  <2>4. TimedBody(u.proc) = SubSeq(a[c].body, 1, Len(a[c].body))
    <3>1. u.proc.timed.length = w.proc.txn.header.total
      BY <1>4
    <3> QED
      BY <1>1, <1>4, <2>1, <3>1 DEF Gathered, IsRequestAvailable, TimedBody
  <2>5. a[c].body \in Seq(Words)
    BY DEF Inv, Askings, Bodies
  <2>6. TimedBody(u.proc) = a[c].body
    BY <2>4, <2>5, SubSeqFull
  <2> QED
    BY <1>2, <1>4, <2>2, <2>3, <2>6
<1>5. CASE u.proc.multi = "None"
  BY <1>2, <1>5
<1> QED
  BY <1>1, <1>3, <1>4, <1>5 DEF Prepared

LEMMA FullReadInv ==
    ASSUME NEW w, NEW a, NEW p, Inv(w, a, p), ~w.session.terminal, w.link.connected,
           NEW c \in Chars, NEW u, Outlived(w, u), NotStuck(u), FullRead(w, c, u)
    PROVE  /\ Through(w, c, u) => a[c].on /\ Inv(u, Forgotten(a, c), Promised(u, a, p, c))
           /\ ~Through(w, c, u) => Inv(u, a, p)
<1> DEFINE k == Forgotten(a, c)
           q == Promised(u, a, p, c)
<1>1. a \in [Chars -> Askings] /\ p \in [Chars -> Bodies]
  BY DEF Inv
<1>2. /\ k \in [Chars -> Askings] /\ q \in [Chars -> Bodies]
      /\ \A d \in Chars \ {c} : k[d] = a[d] /\ q[d] = p[d]
      /\ q[c] = IF u.proc.char = c /\ u.proc.multi = "TimedWrite"
                THEN Confirms(a, p, c) ELSE <<>>
  BY <1>1, ForgottenFields
<1> HIDE DEF k, q
<1>3. /\ ~u.session.terminal /\ Going(u) /\ u.link.connected /\ ToldSound(u)
      /\ ProceduresSound(u) /\ TransactionSound(u.proc.txn)
      /\ ProceduresSound(w)
      /\ w.proc.char = c /\ u.proc.char = c /\ u.proc.startedSecured = w.proc.startedSecured
      /\ Fewer(w, u) /\ Handled(w, u)
  <2>1. Going(u) /\ u.link.connected /\ ToldOn(w, u)
    BY DEF Outlived, FullRead
  <2> QED
    BY <2>1, ToldKeeps DEF Inv, Sound, Going, ProceduresSound, FullRead
<1>4. \A d \in Chars : p[d] # <<>> => d = c
  BY PreparedConfirms
<1>5. u.proc.multi = "TimedWrite" /\ ~DropsSecuritySession(c) /\ TimedBody(u.proc) # <<>>
      => \/ TimedBody(u.proc) = p[c]
         \/ /\ p[c] = <<>> /\ a[c].header.opcode = "CharacteristicTimedWrite"
            /\ TimedBody(u.proc) = a[c].body
  BY PreparedConfirms
<1>6. a[c].on
  BY <1>3 DEF Inv, Matches, Handled, IsRequestAvailable
<1>7. \A d \in Chars : u.attr[d].fallback.timer =>
          d # c /\ a[d].on /\ u.attr[d].fallback.tid = a[d].header.tid
  BY <1>3, NoFallbackFields DEF Inv, Matches, Fewer, ProceduresSound
<1>8. CASE u.proc.txn.state = "WaitingForInitialWrite"
  <2>1. Through(w, c, u)
    BY <1>3, <1>8 DEF Through
  <2>2. Matches(u, k)
    <3>1. u.proc.txn.response.total = 0
      BY <1>3, <1>8 DEF TransactionSound, Responding
    <3> QED
      BY <1>2, <1>7, <1>8, <3>1 DEF Matches, Sealed, Responding
  <2>3. Gathered(u, k)
    BY <1>8 DEF Gathered
  <2>4. Confirming(u, k, q)
    BY <1>2, <1>3, <1>5 DEF Confirming, Confirms
  <2>5. PreparedHere(u, q)
    BY <1>2, <1>3, <1>4 DEF PreparedHere
  <2>6. Inv(u, k, q)
    BY <1>2, <1>3, <2>2, <2>3, <2>4, <2>5, GoingInv
  <2> QED
    BY <1>6, <2>1, <2>6 DEF k, q
<1>9. CASE u.proc.txn.state \in Responding /\ ResponseOf(w, u)
  <2>1. ~Through(w, c, u)
    BY <1>3, <1>9 DEF Through, ProceduresSound, Responding
  <2>2. u.proc.txn.response.tid = a[c].header.tid
    BY <1>3, <1>9 DEF Inv, Matches, ResponseOf
  <2>3. Sealed(u, a)
    <3>1. CASE /\ w.proc.txn.state = "ReadingRequest"
               /\ /\ u.proc.txn.response.total # 0 /\ w.proc.txn.header.opcode \in Reading
                  /\ ~Db(w.proc.char).openRead
                  => w.proc.startedSecured
      BY <1>3, <3>1 DEF Inv, Matches, Sealed
    <3>2. CASE u.proc.txn.response = w.proc.txn.response
      BY <1>3, <3>2 DEF Inv, Matches, Sealed
    <3> QED
      BY <1>9, <3>1, <3>2 DEF ResponseOf
  <2>4. Matches(u, a)
    BY <1>3, <1>6, <1>7, <1>9, <2>2, <2>3 DEF Matches, Responding
  <2>5. Gathered(u, a)
    BY <1>9 DEF Gathered, Responding
  <2>6. Confirming(u, a, p)
    BY <1>3, <1>5, <1>9 DEF Confirming
  <2>7. PreparedHere(u, p)
    BY <1>3, <1>4, <1>9 DEF PreparedHere
  <2>8. Inv(u, a, p)
    BY <1>1, <1>3, <2>4, <2>5, <2>6, <2>7, GoingInv
  <2> QED
    BY <2>1, <2>8
<1> QED
  BY <1>8, <1>9 DEF FullRead

LEMMA FallbackReadInv ==
    ASSUME NEW w, NEW a, NEW p, Inv(w, a, p), ~w.session.terminal, w.link.connected,
           NEW c \in Chars, NEW u, Outlived(w, u), NotStuck(u), FallbackAnswered(w, c, u)
    PROVE  /\ Through(w, c, u) /\ a[c].on
           /\ Inv(u, Forgotten(a, c), Promised(u, a, p, c))
<1> DEFINE k == Forgotten(a, c)
           q == Promised(u, a, p, c)
<1>1. a \in [Chars -> Askings] /\ p \in [Chars -> Bodies]
  BY DEF Inv
<1>2. /\ k \in [Chars -> Askings] /\ q \in [Chars -> Bodies]
      /\ \A d \in Chars \ {c} : k[d] = a[d] /\ q[d] = p[d]
      /\ q[c] = IF u.proc.char = c /\ u.proc.multi = "TimedWrite"
                THEN Confirms(a, p, c) ELSE <<>>
  BY <1>1, ForgottenFields
<1> HIDE DEF k, q
<1>3. /\ ~u.session.terminal /\ Going(u) /\ u.link.connected /\ ToldSound(u)
      /\ ProceduresSound(u) /\ ProceduresSound(w) /\ TransactionSound(w.proc.txn)
      /\ w.attr[c].fallback.timer /\ u.proc = w.proc
      /\ \A d \in Chars \ {c} : u.attr[d].fallback = w.attr[d].fallback
      /\ u.attr[c].fallback = NoFallback
  <2>1. Going(u) /\ u.link.connected /\ ToldOn(w, u)
    BY DEF Outlived, FallbackAnswered, ToldOn
  <2> QED
    BY <2>1, ToldKeeps DEF Inv, Sound, Going, ProceduresSound, FallbackAnswered
<1>4. u.proc.char # c
  BY <1>3 DEF ProceduresSound
<1>5. Through(w, c, u) /\ a[c].on
  BY <1>3, NoFallbackFields DEF Through, Inv, Matches
<1>6. PreparedHere(w, p) /\ Confirming(w, a, p) /\ Gathered(w, a) /\ Sealed(w, a)
  BY DEF Inv, Remembers, Matches
<1>7. \/ w.proc.txn.state # "WaitingForInitialWrite" \/ w.proc.multi # "None"
      \/ w.proc.txn.response.total # 0
      => w.proc.char \in Chars /\ k[w.proc.char] = a[w.proc.char]
         /\ q[w.proc.char] = p[w.proc.char]
  BY <1>2, <1>3, <1>4 DEF ProceduresSound, TransactionSound, Responding
<1>8. Matches(u, k)
  <2>1. Sealed(u, k)
    BY <1>3, <1>6, <1>7 DEF Sealed
  <2>2. \A d \in Chars : u.attr[d].fallback.timer =>
            k[d].on /\ u.attr[d].fallback.tid = k[d].header.tid
    BY <1>2, <1>3, NoFallbackFields DEF Inv, Matches
  <2> QED
    BY <1>3, <1>7, <2>1, <2>2 DEF Inv, Matches, Responding
<1>9. Gathered(u, k)
  BY <1>3, <1>6, <1>7 DEF Gathered
<1>10. Confirming(u, k, q)
  BY <1>3, <1>6, <1>7 DEF Confirming
<1>11. PreparedHere(u, q)
  BY <1>2, <1>3, <1>4, <1>6 DEF PreparedHere
<1>12. Inv(u, k, q)
  BY <1>2, <1>3, <1>8, <1>9, <1>10, <1>11, GoingInv
<1> QED
  BY <1>5, <1>12 DEF k, q

\* A value that is not what it was in world w was sent by the central.
WritesSent(w, a, p, v) ==
    \A c \in Chars : v[c] # w.value[c] =>
        LET opcode == a[c].header.opcode
        IN /\ a[c].on /\ a[c].sent = a[c].header.total
           /\ \/ opcode = "CharacteristicWrite" /\ ~Db(c).timed /\ v[c] = ValueIn(a[c].body)
              \/ /\ opcode = "CharacteristicExecuteWrite" /\ ~w.proc.timed.expired
                 /\ v[c] = ValueIn(p[c])
           /\ Db(c).openWrite \/ IsSecured(w)

LEMMA ReadWritesSent ==
    ASSUME NEW w, NEW a, NEW p, Inv(w, a, p), ~w.session.terminal,
           NEW c \in Chars, NEW u, ReadWrote(w, c, u)
    PROVE  WritesSent(w, a, p, u.value)
<1>1. CASE u.value = w.value
  BY <1>1 DEF WritesSent
<1>2. CASE u.value # w.value
  <2>1. w.proc.char = c /\ IsRequestAvailable(w.proc.txn) /\ Written(w, u)
    BY <1>2 DEF ReadWrote
  <2>2. a[c].on /\ a[c].header = w.proc.txn.header
    BY <2>1 DEF Inv, Matches, IsRequestAvailable
  <2>3. /\ a[c].sent = a[c].header.total /\ Len(a[c].body) = w.proc.txn.header.total
        /\ w.proc.txn.header.total <= w.proc.txn.max =>
               RequestBody(w.proc.txn) = SubSeq(a[c].body, 1, Len(a[c].body))
    BY <2>1, <2>2 DEF Inv, Remembers, Gathered, IsRequestAvailable, RequestBody
  <2>4. a[c].body \in Seq(Words)
    BY DEF Inv, Askings, Bodies
  <2>5. w.proc.txn.header.total <= w.proc.txn.max => RequestBody(w.proc.txn) = a[c].body
    BY <2>3, <2>4, SubSeqFull
  <2>6. w.value \in [Chars -> Bodies]
    BY WorldFields DEF Inv, Sound
  <2>7. \A d \in Chars : u.value[d] # w.value[d] => d = c
    BY <1>2, <2>1, <2>6 DEF Written
  <2>8. Db(c).openWrite \/ IsSecured(w)
    BY <1>2, <2>1 DEF Written, MayWrite
  <2>9. CASE /\ w.proc.txn.header.opcode = "CharacteristicWrite" /\ ~Db(c).timed
             /\ w.proc.txn.header.total <= w.proc.txn.max
             /\ u.value = [w.value EXCEPT ![c] = ValueIn(RequestBody(w.proc.txn))]
    <3>1. u.value[c] = ValueIn(a[c].body)
      BY <2>5, <2>6, <2>9
    <3> QED
      BY <2>2, <2>3, <2>7, <2>8, <2>9, <3>1 DEF WritesSent
  <2>10. CASE /\ w.proc.txn.header.opcode = "CharacteristicExecuteWrite"
              /\ w.proc.multi = "TimedWrite" /\ ~w.proc.timed.expired
              /\ TimedBody(w.proc) # <<>> /\ ~DropsSecuritySession(c)
              /\ u.value = [w.value EXCEPT ![c] = ValueIn(TimedBody(w.proc))]
    <3>1. TimedBody(w.proc) = p[c]
      BY <2>1, <2>10 DEF Inv, Remembers, Confirming, IsRequestAvailable, Responding
    <3>2. u.value[c] = ValueIn(p[c])
      BY <2>6, <2>10, <3>1
    <3> QED
      BY <2>2, <2>3, <2>7, <2>8, <2>10, <3>2 DEF WritesSent
  <2> QED
    BY <1>2, <2>1, <2>9, <2>10 DEF Written
<1> QED
  BY <1>1, <1>2

-----------------------------------------------------------------------------
(* The central.                                                            *)

WithGap(w, g) == [w EXCEPT !.gap = g]

LEMMA WithGapAlike ==
    ASSUME NEW w \in Worlds, NEW g \in Gaps
    PROVE  Alike(w, WithGap(w, g)) /\ WithGap(w, g).call = w.call
<1>1. WithGap(w, g) \in Worlds
  BY DEF WithGap, Worlds
<1> QED
  BY <1>1 DEF WithGap, Alike, Worlds

LEMMA GapAlike ==
    ASSUME NEW w \in Worlds, NEW n \in 0 .. 2
    PROVE  /\ Alike(w, [w EXCEPT !.gap.in = n]) /\ Alike(w, [w EXCEPT !.gap.out = n])
           /\ [w EXCEPT !.gap.in = n].call = w.call
           /\ [w EXCEPT !.gap.out = n].call = w.call
<1> DEFINE i == [w.gap EXCEPT !.in = n]
           o == [w.gap EXCEPT !.out = n]
<1>1. w.gap \in Gaps
  BY WorldFields
<1>2. i \in Gaps /\ o \in Gaps
  BY <1>1 DEF Gaps
<1>3. [w EXCEPT !.gap.in = n] = WithGap(w, i) /\ [w EXCEPT !.gap.out = n] = WithGap(w, o)
  BY DEF WithGap
<1> HIDE DEF i, o
<1> QED
  BY <1>2, <1>3, WithGapAlike

LEMMA SealsAlike ==
    ASSUME NEW w \in Worlds, NEW seal
    PROVE  Alike(w, Seals(w, seal)) /\ Failed(Seals(w, seal)) = Failed(w)
<1> DEFINE n == Wider(w.gap.in)
<1>1. n \in 0 .. 2
  BY DEF Wider
<1>2. Seals(w, seal) = IF seal = "Next" THEN [w EXCEPT !.gap.in = n] ELSE w
  BY DEF Seals
<1> HIDE DEF n
<1>3. Alike(w, w)
  BY DEF Alike
<1> QED
  BY <1>1, <1>2, <1>3, GapAlike DEF Failed

LEMMA ReadsAlike ==
    ASSUME NEW w \in Worlds, NEW c
    PROVE  Alike(w, Reads(w, c)) /\ Reads(w, c).call = w.call
<1> DEFINE n == IF w.gap.out = 1 THEN 0 ELSE 2
<1>1. n \in 0 .. 2
  OBVIOUS
<1>2. Reads(w, c) = IF asked[c].sealed THEN [w EXCEPT !.gap.out = n] ELSE w
  BY DEF Reads
<1> HIDE DEF n
<1>3. Alike(w, w)
  BY DEF Alike
<1> QED
  BY <1>1, <1>2, <1>3, GapAlike

\* What the central sends is typed.
LEMMA RequestFields ==
    ASSUME NEW r \in Requests
    PROVE  /\ r.char \in Chars /\ r.body \in Bodies /\ r.header \in Headers
           /\ [r.header EXCEPT !.total = Len(r.body)] \in Headers
           /\ [r.header EXCEPT !.total = Len(r.body)].total = Len(r.body)
<1>1. /\ r.char \in Chars /\ r.body \in Seq(STRING)
      /\ r.header \in [opcode : STRING, tid : Nat, iid : STRING, total : Nat]
  BY LinkAssumption
<1>2. STRING \subseteq Words
  BY DEF Words
<1>3. r.body \in Bodies
  BY <1>1, <1>2, SeqMonotonic DEF Bodies
<1>4. r.header \in Headers
  BY <1>1, <1>2 DEF Headers
<1> DEFINE n == Len(r.body)
<1>5. n \in Nat
  BY <1>1
<1> HIDE DEF n
<1>6. [r.header EXCEPT !.total = n] \in Headers /\ [r.header EXCEPT !.total = n].total = n
  BY <1>4, <1>5 DEF Headers
<1> QED
  BY <1>1, <1>3, <1>4, <1>6 DEF n

LEMMA MessageTypes ==
    /\ \A h \in Headers, x \in Bodies : First(h, x) \in Messages
    /\ \A i \in Nat, x \in Bodies : Continuation(i, x) \in Messages
    /\ Malformed \in Messages /\ Malformed.kind \notin {"First", "Continuation"}
BY DEF First, Continuation, Malformed, Messages

-----------------------------------------------------------------------------
(* What every step does.                                                   *)

Keeps ==
    /\ LinkInv'
    /\ IndicationsAreAuthorized /\ WritesSent(Accessory, asked, prepared, value')

LEMMA BecomesAuthorized ==
    ASSUME NEW w, Alike(Accessory, w), NEW u, Authorized(w, u), NEW v, Alike(u, v), Becomes(v)
    PROVE  IndicationsAreAuthorized
<1>1. w.attr = attr /\ w.link = link /\ w.session = session
  BY AccessoryFields DEF Alike
<1>2. u.attr = attr' /\ u.link = link' /\ u.session = session' /\ u.pairing = pairing'
  BY DEF Alike, Becomes
<1> QED
  BY <1>1, <1>2 DEF Authorized, IndicationsAreAuthorized

LEMMA SameWritesSent ==
    ASSUME NEW w, Alike(Accessory, w), NEW x, WritesSent(w, asked, prepared, x)
    PROVE  WritesSent(Accessory, asked, prepared, x)
<1>1. /\ w.value = Accessory.value /\ w.proc = Accessory.proc
      /\ IsSecured(w) = IsSecured(Accessory)
  BY DEF Alike, IsSecured
<1> QED
  BY <1>1 DEF WritesSent

\* World w, which is the accessory but for its nonces, became u, then v.
LEMMA AnsweredKeeps ==
    ASSUME NEW w, Alike(Accessory, w), NEW u, Authorized(w, u), NEW v, Alike(u, v),
           NEW a, NEW p, Inv(u, a, p), Answered(v, a, p),
           WritesSent(w, asked, prepared, u.value), clean' \in BOOLEAN
    PROVE  Keeps
<1>1. Inv(v, a, p)
  BY AlikeInv
<1>2. Inv(Accessory, asked, prepared)'
  BY <1>1, AnsweredInv
<1>3. LinkInv'
  BY <1>2 DEF LinkInv
<1>4. Becomes(v)
  BY DEF Answered
<1>5. value' = u.value
  BY <1>4 DEF Becomes, Alike
<1>6. WritesSent(Accessory, asked, prepared, u.value)
  BY SameWritesSent
<1> QED
  BY <1>3, <1>4, <1>5, <1>6, BecomesAuthorized DEF Keeps

LEMMA SameValue ==
    ASSUME NEW w, NEW x, x = w.value, NEW a, NEW p
    PROVE  WritesSent(w, a, p, x)
BY DEF WritesSent

LEMMA BehavesFields ==
    ASSUME NEW b, Behaves(b)
    PROVE  clean' \in BOOLEAN
BY DEF Behaves

\* A write, or a read, of a link that goes on or of one that is to end.
LEMMA WriteFields ==
    ASSUME NEW w, NEW a, NEW p, Inv(w, a, p), ~Failed(w), w.link.connected,
           NEW c \in Chars, NEW m \in Messages, NEW seal,
           NEW u, u = HandleWriteRequest(w, c, m, seal)
    PROVE  /\ u \in Worlds /\ u.value = w.value /\ Authorized(w, u) /\ u.link.connected
           /\ Outlived(w, u)
           /\ \/ Closed(u)
              \/ /\ ~w.session.terminal /\ NotStuck(u)
                 /\ FullTook(w, c, m, u) \/ FallbackTook(w, c, m, u)
<1>1. CASE w.session.terminal
  <2>1. w \in Worlds
    BY DEF Inv, Sound
  <2>2. Outlived(w, u) /\ Quiet(w, u) /\ u.value = w.value /\ Closed(u)
    BY <1>1, <2>1, TerminalFields
  <2> QED
    BY <2>2, QuietAuthorized DEF Outlived
<1>2. CASE ~w.session.terminal
  <2>1. Going(w)
    BY <1>2, InvGoes
  <2>2. /\ Outlived(w, u) /\ u.value = w.value /\ NotStuck(u) /\ Heard(w, u)
        /\ Closed(u) \/ FullTook(w, c, m, u) \/ FallbackTook(w, c, m, u)
    BY <2>1, WriteRequestFields
  <2> QED
    BY <1>2, <2>2, HeardAuthorized DEF Outlived
<1> QED
  BY <1>1, <1>2

LEMMA ReadFields ==
    ASSUME NEW w, NEW a, NEW p, Inv(w, a, p), ~Failed(w), w.link.connected,
           NEW c \in Chars, NEW space, NEW room \in Nat, NEW outcome,
           NEW u, u = HandleReadRequest(w, c, space, room, outcome)
    PROVE  /\ u \in Worlds /\ WritesSent(w, a, p, u.value) /\ Authorized(w, u)
           /\ u.link.connected /\ Outlived(w, u)
           /\ \/ Closed(u)
              \/ /\ ~w.session.terminal /\ NotStuck(u)
                 /\ FullRead(w, c, u) \/ FallbackAnswered(w, c, u)
<1>1. CASE w.session.terminal
  <2>1. w \in Worlds
    BY DEF Inv, Sound
  <2>2. Outlived(w, u) /\ Quiet(w, u) /\ u.value = w.value /\ Closed(u)
    BY <1>1, <2>1, TerminalFields
  <2> QED
    BY <2>2, QuietAuthorized, SameValue DEF Outlived
<1>2. CASE ~w.session.terminal
  <2>1. Going(w)
    BY <1>2, InvGoes
  <2>2. /\ Outlived(w, u) /\ NotStuck(u) /\ ReadWrote(w, c, u) /\ Heard(w, u)
        /\ Closed(u) \/ FullRead(w, c, u) \/ FallbackAnswered(w, c, u)
    BY <2>1, ReadRequestFields
  <2> QED
    BY <1>2, <2>2, HeardAuthorized, ReadWritesSent DEF Outlived
<1> QED
  BY <1>1, <1>2

LEMMA SealedAccessory ==
    ASSUME LinkInv, link.connected, NEW seal, NEW w, w = Seals(Accessory, seal)
    PROVE  /\ Alike(Accessory, w) /\ Inv(w, asked, prepared) /\ ~Failed(w) /\ w.link.connected
           /\ w.value = value /\ w.session = session
           /\ asked \in [Chars -> Askings] /\ prepared \in [Chars -> Bodies]
<1>1. Accessory \in Worlds /\ Inv(Accessory, asked, prepared)
  BY DEF LinkInv, Inv, Sound
<1>2. Alike(Accessory, w) /\ ~Failed(w)
  BY <1>1, SealsAlike, AccessoryFields
<1> QED
  BY <1>1, <1>2, AlikeInv, AccessoryFields DEF Alike, Inv

LEMMA BeginKeeps ==
    ASSUME LinkInv, BeginRequest
    PROVE  Keeps
<1>1. PICK r \in Requests, n \in Lengths, seal \in {"Next", "Old", "None"} :
          LET c == r.char
              header == [r.header EXCEPT !.total = Len(r.body)]
              chunk == Chunk(r.body, 0, n)
              w == HandleWriteRequest(Seals(Accessory, seal), c, First(header, chunk), seal)
          IN /\ Carries
             /\ Behaves(BeginsWell(r, seal))
             /\ Answered(w,
                    [asked EXCEPT ![c] = [on |-> TRUE, header |-> header, body |-> r.body,
                                          sent |-> Len(chunk), sealed |-> seal = "Next"]],
                    IF DropsSecuritySession(c) THEN [NonePrepared EXCEPT ![c] = prepared[c]] ELSE prepared)
  BY DEF BeginRequest
<1> DEFINE c == r.char
           header == [r.header EXCEPT !.total = Len(r.body)]
           chunk == Chunk(r.body, 0, n)
           m == First(header, chunk)
           w == Seals(Accessory, seal)
           u == HandleWriteRequest(w, c, m, seal)
           sealed == seal = "Next"
           b == [on |-> TRUE, header |-> header, body |-> r.body, sent |-> Len(chunk),
                 sealed |-> sealed]
           a == [asked EXCEPT ![c] = b]
           p == IF DropsSecuritySession(c) THEN [NonePrepared EXCEPT ![c] = prepared[c]] ELSE prepared
<1>2. Carries /\ Behaves(BeginsWell(r, seal)) /\ Answered(u, a, p)
  BY <1>1
<1>3. /\ c \in Chars /\ r.body \in Bodies /\ header \in Headers
      /\ header.total = Len(r.body)
  BY RequestFields
<1>4. /\ chunk \in Bodies /\ Len(chunk) \in Nat
      /\ chunk = SubSeq(r.body, 1, Len(chunk))
  <2> DEFINE s == 0
             x == r.body
  <2>1. /\ s \in Nat /\ s <= Len(x) /\ n \in Nat /\ x \in Bodies
        /\ chunk = Chunk(x, s, n) /\ s = 0
    BY <1>3, LinkAssumption DEF Bodies
  <2> HIDE DEF s, x, chunk
  <2>2. chunk \in Bodies /\ Len(chunk) \in Nat /\ chunk = SubSeq(x, 1, Len(chunk))
    BY <2>1, ChunkFollows
  <2> QED
    BY <2>2 DEF x
<1>5. sealed \in BOOLEAN
  OBVIOUS
<1> HIDE DEF header, chunk, sealed
<1>6. /\ b \in Askings /\ b.on /\ b.header = header /\ b.body = r.body
      /\ b.sent = Len(chunk)
  BY <1>3, <1>4, <1>5 DEF Askings
<1>7. m \in Messages /\ m.kind = "First" /\ m.header = header /\ m.chunk = chunk
  BY <1>3, <1>4, MessageTypes DEF First
<1> HIDE DEF b, m
<1>8. Begun(m, b)
  BY <1>3, <1>4, <1>6, <1>7 DEF Begun
<1>9. /\ Alike(Accessory, w) /\ Inv(w, asked, prepared) /\ ~Failed(w) /\ w.link.connected
      /\ asked \in [Chars -> Askings] /\ prepared \in [Chars -> Bodies]
  BY <1>2, SealedAccessory DEF Carries
<1> HIDE DEF w
<1>10. /\ u \in Worlds /\ u.value = w.value /\ Authorized(w, u) /\ u.link.connected
       /\ Outlived(w, u)
       /\ \/ Closed(u)
          \/ /\ ~w.session.terminal /\ NotStuck(u)
             /\ FullTook(w, c, m, u) \/ FallbackTook(w, c, m, u)
  BY <1>3, <1>7, <1>9, WriteFields
<1> HIDE DEF u
<1>11. a \in [Chars -> Askings] /\ p \in [Chars -> Bodies]
  BY <1>3, <1>6, <1>9, NothingAsked
<1>12. Inv(u, a, p)
  <2>1. CASE Closed(u)
    BY <1>10, <1>11, <2>1, ClosedInv
  <2>2. CASE ~Closed(u)
    <3>1. a = [asked EXCEPT ![c] = b]
      OBVIOUS
    <3>2. p = Stays(prepared, c)
      BY DEF Stays
    <3> HIDE DEF a, p, c
    <3> QED
      BY <1>3, <1>6, <1>7, <1>8, <1>9, <1>10, <2>2, <3>1, <3>2, BegunInv
  <2> QED
    BY <2>1, <2>2
<1> HIDE DEF a, p
<1>13. WritesSent(w, asked, prepared, u.value)
  BY <1>10, SameValue
<1>14. clean' \in BOOLEAN
  BY <1>2, BehavesFields
<1>15. Alike(u, u)
  BY <1>10 DEF Alike
<1> QED
  BY <1>2, <1>9, <1>10, <1>12, <1>13, <1>14, <1>15, AnsweredKeeps

LEMMA ContinueKeeps ==
    ASSUME LinkInv, ContinueRequest
    PROVE  Keeps
<1>1. PICK c \in Chars, tid \in {r.header.tid : r \in Requests}, n \in Lengths,
           seal \in {"Next", "None"} :
          LET chunk == Chunk(asked[c].body, asked[c].sent, n)
              w == HandleWriteRequest(Seals(Accessory, seal), c, Continuation(tid, chunk), seal)
          IN /\ Carries /\ Busy
             /\ Behaves(ContinuesWell(c, tid, Len(chunk), seal))
             /\ Answered(w, [asked EXCEPT ![c].sent = @ + Len(chunk)], prepared)
  BY DEF ContinueRequest
<1> DEFINE chunk == Chunk(asked[c].body, asked[c].sent, n)
           m == Continuation(tid, chunk)
           w == Seals(Accessory, seal)
           u == HandleWriteRequest(w, c, m, seal)
           a == Sent(asked, c, asked[c].sent + Len(m.chunk))
<1>2. Carries /\ Behaves(ContinuesWell(c, tid, Len(chunk), seal)) /\ Answered(u, a, prepared)
  BY <1>1 DEF Sent, Continuation
<1>3. /\ Alike(Accessory, w) /\ Inv(w, asked, prepared) /\ ~Failed(w) /\ w.link.connected
      /\ asked \in [Chars -> Askings] /\ prepared \in [Chars -> Bodies]
  BY <1>2, SealedAccessory DEF Carries
<1>4. tid \in Nat /\ n \in Nat
  BY LinkAssumption, RequestFields DEF Headers
<1>5. chunk \in Bodies
  <2>1. asked[c].body \in Seq(Words) /\ asked[c].sent \in Nat
    BY <1>3 DEF Askings, Bodies
  <2>2. ASSUME NEW b \in Seq(Words), NEW s \in Nat
        PROVE  Chunk(b, s, n) \in Seq(Words)
    <3> DEFINE e == IF s + n < Len(b) THEN s + n ELSE Len(b)
    <3>1. e \in Nat /\ e <= Len(b)
      BY <1>4
    <3>2. Chunk(b, s, n) = SubSeq(b, s + 1, e)
      BY DEF Chunk
    <3> HIDE DEF e
    <3>3. \A i \in s + 1 .. e : b[i] \in Words
      BY <3>1, ElementOfSeq
    <3> QED
      BY <3>1, <3>2, <3>3, SubSeqProperties
  <2> QED
    BY <2>1, <2>2 DEF Bodies
<1>6. m \in Messages /\ m.kind = "Continuation" /\ m.chunk = chunk
  BY <1>4, <1>5, MessageTypes DEF Continuation
<1> HIDE DEF m, w
<1>7. /\ u \in Worlds /\ u.value = w.value /\ Authorized(w, u) /\ u.link.connected
      /\ Outlived(w, u)
      /\ \/ Closed(u)
         \/ /\ ~w.session.terminal /\ NotStuck(u)
            /\ FullTook(w, c, m, u) \/ FallbackTook(w, c, m, u)
  BY <1>3, <1>6, WriteFields
<1> HIDE DEF u
<1>8. a \in [Chars -> Askings]
  <2> DEFINE s == asked[c].sent + Len(m.chunk)
  <2>1. asked[c].sent \in Nat
    BY <1>3 DEF Askings
  <2>2. Len(m.chunk) \in Nat
    BY <1>6, MessageFields
  <2>3. s \in Nat /\ a = Sent(asked, c, s)
    BY <2>1, <2>2
  <2> HIDE DEF s, a
  <2> QED
    BY <1>3, <2>3, SentFields
<1>9. Inv(u, a, prepared)
  <2>1. CASE Closed(u)
    BY <1>3, <1>7, <1>8, <2>1, ClosedInv
  <2>2. CASE ~Closed(u)
    <3>1. m.chunk = Chunk(asked[c].body, asked[c].sent, n)
      BY <1>6
    <3> HIDE DEF chunk
    <3> QED
      BY <1>3, <1>4, <1>6, <1>7, <2>2, <3>1, ContinuedInv
  <2> QED
    BY <2>1, <2>2
<1> HIDE DEF a
<1>10. WritesSent(w, asked, prepared, u.value)
  BY <1>7, SameValue
<1>11. clean' \in BOOLEAN
  BY <1>2, BehavesFields
<1>12. Alike(u, u)
  BY <1>7 DEF Alike
<1> QED
  BY <1>2, <1>3, <1>7, <1>9, <1>10, <1>11, <1>12, AnsweredKeeps

LEMMA GarbageKeeps ==
    ASSUME LinkInv, WriteGarbage
    PROVE  Keeps
<1>1. PICK c \in Chars, seal \in {"Next", "None"} :
          /\ Carries /\ Behaves(FALSE)
          /\ Happens(HandleWriteRequest(Seals(Accessory, seal), c, Malformed, seal))
  BY DEF WriteGarbage
<1> DEFINE w == Seals(Accessory, seal)
           m == Malformed
           u == HandleWriteRequest(w, c, m, seal)
<1>2. Answered(u, asked, prepared)
  BY <1>1 DEF Happens
<1>3. /\ Alike(Accessory, w) /\ Inv(w, asked, prepared) /\ ~Failed(w) /\ w.link.connected
      /\ asked \in [Chars -> Askings] /\ prepared \in [Chars -> Bodies]
  BY <1>1, SealedAccessory DEF Carries
<1>4. m \in Messages /\ m.kind \notin {"First", "Continuation"}
  BY MessageTypes
<1> HIDE DEF m, w
<1>5. /\ u \in Worlds /\ u.value = w.value /\ Authorized(w, u) /\ u.link.connected
      /\ Closed(u) \/ FullTook(w, c, m, u) \/ FallbackTook(w, c, m, u)
  BY <1>3, <1>4, WriteFields
<1> HIDE DEF u
<1>6. Closed(u)
  BY <1>4, <1>5 DEF FullTook, FallbackTook, Took
<1>7. Inv(u, asked, prepared)
  BY <1>3, <1>5, <1>6, ClosedInv
<1>8. WritesSent(w, asked, prepared, u.value) /\ Alike(u, u)
  BY <1>5, SameValue DEF Alike
<1>9. clean' \in BOOLEAN
  BY <1>1, BehavesFields
<1> QED
  BY <1>2, <1>3, <1>5, <1>7, <1>8, <1>9, AnsweredKeeps

LEMMA ReadKeeps ==
    ASSUME LinkInv, ReadResponse
    PROVE  Keeps
<1>1. PICK c \in Chars, space \in Spaces, outcome \in Outcomes :
        /\ Carries
        /\ Behaves(ReadsWell(c, space))
        /\ \E w \in {HandleReadRequest(Accessory, c, space, 1, outcome)} :
              IF asked[c].on /\ ~Failed(w) /\ Over(w, c)
              THEN Answered(Reads(w, c), [asked EXCEPT ![c] = NotAsked],
                            [prepared EXCEPT ![c] = IF Prepares(w, c) THEN Confirmed(c) ELSE <<>>])
              ELSE Happens(IF Failed(w) THEN w ELSE Reads(w, c))
  BY DEF ReadResponse
<1> DEFINE w == Accessory
           room == 1
           u == HandleReadRequest(w, c, space, room, outcome)
           k == Forgotten(asked, c)
           q == Promised(u, asked, prepared, c)
<1>2. /\ asked[c].on /\ ~Failed(u) /\ Through(w, c, u) =>
             Answered(Reads(u, c), k, q)
      /\ ~(asked[c].on /\ ~Failed(u) /\ Through(w, c, u)) =>
             Answered(IF Failed(u) THEN u ELSE Reads(u, c), asked, prepared)
  BY <1>1, AccessoryFields
     DEF Happens, Over, Through, Forgotten, Promised, Confirms, Confirmed, Prepares
<1>3. clean' \in BOOLEAN
  BY <1>1, BehavesFields
<1>4. /\ Inv(w, asked, prepared) /\ ~Failed(w) /\ w.link.connected /\ w \in Worlds
      /\ asked \in [Chars -> Askings] /\ prepared \in [Chars -> Bodies]
  BY <1>1, AccessoryFields DEF LinkInv, Inv, Sound, Carries
<1>5. Alike(Accessory, w)
  BY <1>4 DEF Alike
<1>6. room \in Nat
  OBVIOUS
<1> HIDE DEF w, room
<1>7. /\ u \in Worlds /\ WritesSent(w, asked, prepared, u.value) /\ Authorized(w, u)
      /\ u.link.connected /\ Outlived(w, u)
      /\ \/ Closed(u)
         \/ /\ ~w.session.terminal /\ NotStuck(u)
            /\ FullRead(w, c, u) \/ FallbackAnswered(w, c, u)
  BY <1>4, <1>6, ReadFields
<1> HIDE DEF u
<1>8. k \in [Chars -> Askings] /\ q \in [Chars -> Bodies]
  BY <1>4, ForgottenFields
<1>9. /\ Through(w, c, u) /\ asked[c].on => Inv(u, k, q)
      /\ ~(asked[c].on /\ ~Failed(u) /\ Through(w, c, u)) => Inv(u, asked, prepared)
  <2>1. CASE Closed(u)
    BY <1>4, <1>7, <1>8, <2>1, ClosedInv
  <2>2. CASE ~Closed(u) /\ FullRead(w, c, u)
    <3>1. ~Failed(u)
      BY <2>2 DEF FullRead, Going
    <3> QED
      BY <1>4, <1>7, <2>2, <3>1, FullReadInv
  <2>3. CASE ~Closed(u) /\ FallbackAnswered(w, c, u)
    <3>1. ~Failed(u)
      BY <2>3 DEF FallbackAnswered, Going
    <3> QED
      BY <1>4, <1>7, <2>3, <3>1, FallbackReadInv
  <2> QED
    BY <1>7, <2>1, <2>2, <2>3
<1>10. Alike(u, Reads(u, c)) /\ Alike(u, u)
  BY <1>7, ReadsAlike DEF Alike
<1> HIDE DEF k, q
<1>11. CASE asked[c].on /\ ~Failed(u) /\ Through(w, c, u)
  BY <1>2, <1>3, <1>5, <1>7, <1>9, <1>10, <1>11, AnsweredKeeps
<1>12. CASE ~(asked[c].on /\ ~Failed(u) /\ Through(w, c, u))
  <2> DEFINE v == IF Failed(u) THEN u ELSE Reads(u, c)
  <2>1. Alike(u, v) /\ Answered(v, asked, prepared)
    BY <1>2, <1>10, <1>12
  <2> HIDE DEF v
  <2> QED
    BY <1>3, <1>5, <1>7, <1>9, <1>12, <2>1, AnsweredKeeps
<1> QED
  BY <1>11, <1>12

\* A step that leaves what the central works on, and the values, alone.
LEMMA HappensKeeps ==
    ASSUME LinkInv, NEW u, Inv(u, asked, prepared), Authorized(Accessory, u),
           u.value = value, Happens(u), clean' \in BOOLEAN
    PROVE  Keeps
<1>1. Alike(Accessory, Accessory) /\ Alike(u, u)
  BY DEF LinkInv, Inv, Sound, Alike
<1>2. WritesSent(Accessory, asked, prepared, u.value)
  BY AccessoryFields, SameValue
<1> QED
  BY <1>1, <1>2, AnsweredKeeps DEF Happens

LEMMA EndKeeps ==
    ASSUME LinkInv, link.connected, NEW u \in Worlds, Closed(u), u.link.connected,
           Quiet(Accessory, u), u.value = value, Happens(u), clean' \in BOOLEAN
    PROVE  Keeps
<1>1. Inv(u, asked, prepared)
  BY ClosedInv DEF LinkInv, Inv
<1>2. Authorized(Accessory, u)
  BY QuietAuthorized
<1> QED
  BY <1>1, <1>2, HappensKeeps

-----------------------------------------------------------------------------
(* The other steps.                                                        *)

WithSession(w, s) == [w EXCEPT !.session = s]
WithLink(w, l) == [w EXCEPT !.link = l]
WithTold(w, t) == [w EXCEPT !.told = t]

LEMMA WithSessionFields ==
    ASSUME NEW w \in Worlds, NEW s \in SessionStates
    PROVE  LET u == WithSession(w, s)
           IN /\ u \in Worlds /\ u.session = s /\ u.link = w.link
              /\ u.running = w.running /\ u.pairing = w.pairing
              /\ u.proc = w.proc /\ u.attr = w.attr /\ u.value = w.value
              /\ u.told = w.told /\ u.call = w.call
<1>1. WithSession(w, s) \in Worlds
  BY DEF WithSession, Worlds
<1> QED
  BY <1>1 DEF WithSession, Worlds

LEMMA WithLinkFields ==
    ASSUME NEW w \in Worlds, NEW l \in Links
    PROVE  LET u == WithLink(w, l)
           IN /\ u \in Worlds /\ u.link = l /\ u.running = w.running
              /\ u.pairing = w.pairing /\ u.session = w.session
              /\ u.proc = w.proc /\ u.attr = w.attr /\ u.value = w.value
              /\ u.told = w.told /\ u.call = w.call
<1>1. WithLink(w, l) \in Worlds
  BY DEF WithLink, Worlds
<1> QED
  BY <1>1 DEF WithLink, Worlds

LEMMA WithToldFields ==
    ASSUME NEW w \in Worlds, NEW t \in SUBSET Chars
    PROVE  LET u == WithTold(w, t)
           IN /\ u \in Worlds /\ u.told = t /\ u.link = w.link /\ u.attr = w.attr
              /\ u.running = w.running /\ u.pairing = w.pairing
              /\ u.session = w.session /\ u.proc = w.proc /\ u.value = w.value
              /\ u.call = w.call
<1>1. WithTold(w, t) \in Worlds
  BY DEF WithTold, Worlds
<1> QED
  BY <1>1 DEF WithTold, Worlds

LEMMA WithAttrsFields ==
    ASSUME NEW w \in Worlds, NEW a \in [Chars -> Attrs]
    PROVE  LET u == WithAttr(w, a)
           IN /\ u \in Worlds /\ u.attr = a /\ u.told = w.told /\ u.link = w.link
              /\ u.running = w.running /\ u.pairing = w.pairing
              /\ u.session = w.session /\ u.proc = w.proc /\ u.value = w.value
              /\ u.call = w.call
<1>1. WithAttr(w, a) \in Worlds
  BY DEF WithAttr, Worlds
<1> QED
  BY <1>1 DEF WithAttr, Worlds

\* The timers, the server and the time of a prepared write have no part in the invariant.
LEMMA SimilarInv ==
    ASSUME NEW w, NEW a, NEW p, Inv(w, a, p), w.link.connected,
           NEW x \in Worlds, x.link.connected, x.link.blocked = w.link.blocked,
           x.pairing = w.pairing, SameSession(w.session, x.session),
           w.session.linkTimer # "Off" => x.session.linkTimer # "Off",
           x.proc = w.proc \/ x.proc = [w.proc EXCEPT !.timed.expired = TRUE],
           x.attr = w.attr, x.told = w.told
    PROVE  Inv(x, a, p) /\ Authorized(w, x)
<1>1. w.proc \in Procs /\ w \in Worlds
  BY WorldFields DEF Inv, Sound
<1>2. /\ x.proc.char = w.proc.char /\ x.proc.timer = w.proc.timer /\ x.proc.txn = w.proc.txn
      /\ x.proc.startedSecured = w.proc.startedSecured /\ x.proc.multi = w.proc.multi
      /\ TimedBody(x.proc) = TimedBody(w.proc)
      /\ PreparedSound(w.proc) => PreparedSound(x.proc)
  <2>1. /\ x.proc.char = w.proc.char /\ x.proc.timer = w.proc.timer /\ x.proc.txn = w.proc.txn
        /\ x.proc.startedSecured = w.proc.startedSecured /\ x.proc.multi = w.proc.multi
        /\ x.proc.timed.length = w.proc.timed.length
    BY <1>1 DEF Procs
  <2> QED
    BY <2>1 DEF TimedBody, PreparedSound
<1>3. /\ IsSecured(x) = IsSecured(w) /\ IsTransient(x) = IsTransient(w)
      /\ ControllerIsAdmin(x) = ControllerIsAdmin(w) /\ Subscribed(x) = Subscribed(w)
      /\ x.session.terminal = w.session.terminal /\ x.session.active = w.session.active
      /\ x.session.transient = w.session.transient
  BY DEF SameSession, IsSecured, IsTransient, ControllerIsAdmin, Subscribed
<1>4. DueEvents(x) = DueEvents(w)
  BY <1>3 DEF DueEvents
<1>5. Sound(x) /\ Apart(x) /\ Ends(x)
  BY <1>2, <1>3 DEF Inv, Sound, ProceduresSound, SecuritySound, Apart, Ends
<1>6. NotStuck(x) /\ ToldSound(x)
  BY <1>3, <1>4 DEF Inv, NotStuck, ToldSound
<1>7. Matches(x, a)
  BY <1>2, <1>3 DEF Inv, Matches, Sealed
<1>8. Remembers(x, a, p)
  <2>1. ~w.session.terminal => Gathered(x, a)
    BY <1>2 DEF Inv, Remembers, Gathered
  <2>2. ~w.session.terminal => Confirming(x, a, p)
    <3> DEFINE y == TimedBody(x.proc)
               z == TimedBody(w.proc)
    <3>1. y = z
      BY <1>2
    <3>2. ~w.session.terminal => Confirming(w, a, p)
      BY DEF Inv, Remembers
    <3> HIDE DEF y, z
    <3>3. /\ Confirming(w, a, p)
             = (w.proc.multi = "TimedWrite" /\ ~DropsSecuritySession(w.proc.char) /\ z # <<>>
                => \/ z = p[w.proc.char]
                   \/ /\ w.proc.txn.state \in Responding /\ p[w.proc.char] = <<>>
                      /\ a[w.proc.char].header.opcode = "CharacteristicTimedWrite"
                      /\ z = a[w.proc.char].body)
          /\ Confirming(x, a, p)
             = (x.proc.multi = "TimedWrite" /\ ~DropsSecuritySession(x.proc.char) /\ y # <<>>
                => \/ y = p[x.proc.char]
                   \/ /\ x.proc.txn.state \in Responding /\ p[x.proc.char] = <<>>
                      /\ a[x.proc.char].header.opcode = "CharacteristicTimedWrite"
                      /\ y = a[x.proc.char].body)
      BY DEF Confirming, y, z
    <3>4. x.proc.char = w.proc.char /\ x.proc.multi = w.proc.multi /\ x.proc.txn = w.proc.txn
      BY <1>2
    <3> QED
      BY <3>1, <3>2, <3>3, <3>4
  <2>3. ~w.session.terminal => PreparedHere(x, p)
    BY <1>2 DEF Inv, Remembers, PreparedHere
  <2> QED
    BY <1>3, <2>1, <2>2, <2>3 DEF Remembers
<1> QED
  BY <1>5, <1>6, <1>7, <1>8 DEF Inv, Authorized

\* A change after which events that waited may go.
LEMMA PendingInv ==
    ASSUME NEW w, NEW a, NEW p, Inv(w, a, p), w.link.connected,
           NEW x \in Worlds, x.link.connected, x.session = w.session, x.proc = w.proc,
           x.pairing = w.pairing,
           \A c \in Chars : /\ x.attr[c].fallback = w.attr[c].fallback
                            /\ w.attr[c].pending => x.attr[c].pending,
           ToldSound(x), NEW u, u = SendPendingEventNotifications(x)
    PROVE  Inv(u, a, p) /\ Authorized(w, u) /\ u.value = x.value
<1>1. /\ Lived(x, u) /\ u.value = x.value /\ u.proc = w.proc /\ u.told = x.told
      /\ u.session = w.session /\ NotStuck(u) /\ u \in Worlds /\ u.link.connected
      /\ u.pairing = w.pairing
      /\ \A c \in Chars : u.attr[c].fallback = w.attr[c].fallback
      /\ ~u.session.active => u.attr = x.attr
  BY PendingGoes DEF Lived, SameHouse
<1>2. IsSecured(u) = IsSecured(w) /\ Subscribed(u) = Subscribed(x)
  BY <1>1 DEF IsSecured, Subscribed, Lived, SameAttr
<1>3. Sound(u) /\ Apart(u) /\ Ends(u)
  BY <1>1, <1>2 DEF Inv, Sound, ProceduresSound, SecuritySound, Apart, Ends
<1>4. ToldSound(u)
  BY <1>1, <1>2 DEF ToldSound
<1>5. Matches(u, a)
  BY <1>1 DEF Inv, Matches, Sealed
<1>6. Remembers(u, a, p)
  BY <1>1 DEF Inv, Remembers, Gathered, Confirming, PreparedHere
<1>7. Authorized(w, u)
  <2>1. Ends(w)
    BY DEF Inv
  <2> QED
    BY <1>1, <2>1 DEF Authorized, Lived, SameAttr, IndicatedTo, Ends
<1> QED
  BY <1>1, <1>3, <1>4, <1>5, <1>6, <1>7 DEF Inv

LEMMA AccessoryInv ==
    ASSUME LinkInv
    PROVE  /\ Accessory \in Worlds /\ Inv(Accessory, asked, prepared) /\ ~Failed(Accessory)
           /\ Accessory.link = link /\ Accessory.session = session /\ Accessory.attr = attr
           /\ Accessory.value = value /\ Accessory.pairing = pairing
           /\ Accessory.running = running /\ Accessory.proc = proc /\ Accessory.told = told
           /\ clean \in BOOLEAN
BY AccessoryFields DEF LinkInv, Inv, Sound

\* One characteristic, subscribed or not, or with an event or not.
LEMMA OneAttr ==
    ASSUME NEW w \in Worlds, NEW c \in Chars, NEW b \in BOOLEAN
    PROVE  /\ \E x \in [Chars -> Attrs] :
                  /\ [w EXCEPT !.attr[c].subscribed = b] = WithAttr(w, x)
                  /\ x[c].subscribed = b /\ x[c].pending = w.attr[c].pending
                  /\ x[c].fallback = w.attr[c].fallback
                  /\ \A d \in Chars \ {c} : x[d] = w.attr[d]
           /\ \E x \in [Chars -> Attrs] :
                  /\ [w EXCEPT !.attr[c].pending = b] = WithAttr(w, x)
                  /\ x[c].pending = b /\ x[c].subscribed = w.attr[c].subscribed
                  /\ x[c].fallback = w.attr[c].fallback
                  /\ \A d \in Chars \ {c} : x[d] = w.attr[d]
<1>1. w.attr \in [Chars -> Attrs] /\ w.attr[c] \in Attrs
  BY WorldFields
<1> DEFINE s == [w.attr[c] EXCEPT !.subscribed = b]
           t == [w.attr[c] EXCEPT !.pending = b]
<1>2. /\ s \in Attrs /\ s.subscribed = b /\ s.pending = w.attr[c].pending
      /\ s.fallback = w.attr[c].fallback
      /\ t \in Attrs /\ t.pending = b /\ t.subscribed = w.attr[c].subscribed
      /\ t.fallback = w.attr[c].fallback
  BY <1>1 DEF Attrs
<1>3. /\ [w EXCEPT !.attr[c].subscribed = b] = WithAttr(w, [w.attr EXCEPT ![c] = s])
      /\ [w EXCEPT !.attr[c].pending = b] = WithAttr(w, [w.attr EXCEPT ![c] = t])
  BY DEF WithAttr
<1> HIDE DEF s, t
<1> DEFINE x == [w.attr EXCEPT ![c] = s]
           y == [w.attr EXCEPT ![c] = t]
<1>4. /\ x \in [Chars -> Attrs] /\ x[c] = s /\ \A d \in Chars \ {c} : x[d] = w.attr[d]
      /\ y \in [Chars -> Attrs] /\ y[c] = t /\ \A d \in Chars \ {c} : y[d] = w.attr[d]
  BY <1>1, <1>2
<1> HIDE DEF x, y
<1> QED
  BY <1>2, <1>3, <1>4 DEF x, y

LEMMA SetNotificationsInv ==
    ASSUME NEW w \in Worlds, NEW a, NEW p, Inv(w, a, p), w.link.connected,
           ~w.session.terminal, NEW c \in Chars, Db(c).events, NEW enable \in BOOLEAN,
           NEW u, u = SetNotificationsEnabled(w, c, enable)
    PROVE  Inv(u, a, p) /\ Authorized(w, u) /\ u.value = w.value
<1>1. CASE w.attr[c].subscribed = enable
  <2>1. u = w
    BY <1>1 DEF SetNotificationsEnabled
  <2> QED
    BY <2>1 DEF Authorized
<1>2. CASE w.attr[c].subscribed # enable
  <2>1. PICK b \in [Chars -> Attrs] :
            /\ [w EXCEPT !.attr[c].subscribed = enable] = WithAttr(w, b)
            /\ b[c].subscribed = enable /\ b[c].pending = w.attr[c].pending
            /\ b[c].fallback = w.attr[c].fallback
            /\ \A d \in Chars \ {c} : b[d] = w.attr[d]
    BY SMTT(20), OneAttr
  <2> DEFINE v == WithAttr(w, b)
             t == IF enable THEN v.told \cup {c} ELSE v.told \ {c}
             x == IF ~IsSecured(v) THEN v ELSE WithTold(v, t)
  <2>2. u = SendPendingEventNotifications(x)
    <3>1. u = SendPendingEventNotifications(Tells(v, c, enable))
      BY <1>2, <2>1 DEF SetNotificationsEnabled
    <3> HIDE DEF v
    <3>2. Tells(v, c, enable) = x
      BY DEF Tells, WithTold
    <3> QED
      BY <3>1, <3>2
  <2>3. /\ v \in Worlds /\ v.attr = b /\ v.told = w.told /\ v.link = w.link
        /\ v.running = w.running /\ v.pairing = w.pairing
        /\ v.session = w.session /\ v.proc = w.proc /\ v.value = w.value
    BY WithAttrsFields
  <2>4. t \in SUBSET Chars
    BY <2>3, WorldFields
  <2> HIDE DEF v
  <2>5. /\ x \in Worlds /\ x.attr = b /\ x.link = w.link
        /\ x.pairing = w.pairing /\ x.session = w.session /\ x.proc = w.proc
        /\ x.value = w.value
        /\ x.told = IF IsSecured(w) THEN IF enable THEN w.told \cup {c} ELSE w.told \ {c}
                    ELSE w.told
    <3>1. IsSecured(v) = IsSecured(w)
      BY <2>3 DEF IsSecured
    <3>2. t = IF enable THEN w.told \cup {c} ELSE w.told \ {c}
      BY <2>3
    <3> HIDE DEF t
    <3>3. CASE IsSecured(v)
      <4>1. x = WithTold(v, t)
        BY <3>3
      <4> QED
        BY <2>3, <2>4, <3>1, <3>2, <3>3, <4>1, WithToldFields
    <3>4. CASE ~IsSecured(v)
      BY <2>3, <3>1, <3>4
    <3> QED
      BY <3>3, <3>4
  <2> HIDE DEF x
  <2>6. ToldSound(x)
    <3>1. Subscribed(x) = IF enable THEN Subscribed(w) \cup {c} ELSE Subscribed(w) \ {c}
      BY <2>1, <2>5 DEF Subscribed
    <3> QED
      BY <2>5, <3>1 DEF Inv, ToldSound, IsSecured
  <2>7. \A d \in Chars : /\ x.attr[d].fallback = w.attr[d].fallback
                         /\ w.attr[d].pending => x.attr[d].pending
    BY <2>1, <2>5
  <2> QED
    BY <2>2, <2>5, <2>6, <2>7, PendingInv
<1> QED
  BY <1>1, <1>2

LEMMA SubscribeKeeps ==
    ASSUME LinkInv, Subscribe
    PROVE  Keeps
<1>1. PICK c \in Chars, enable \in BOOLEAN :
          /\ Lasts /\ Db(c).events /\ UNCHANGED clean
          /\ Happens(SetNotificationsEnabled(Accessory, c, enable))
  BY DEF Subscribe
<1> DEFINE w == Accessory
           u == SetNotificationsEnabled(w, c, enable)
<1>2. /\ w \in Worlds /\ Inv(w, asked, prepared) /\ w.link.connected /\ w.value = value
      /\ clean' \in BOOLEAN /\ ~w.session.terminal
  BY <1>1, AccessoryInv DEF Lasts
<1>3. Inv(u, asked, prepared) /\ Authorized(w, u) /\ u.value = value
  <2> HIDE DEF w
  <2> QED
    BY <1>1, <1>2, SetNotificationsInv
<1> QED
  BY <1>1, <1>2, <1>3, HappensKeeps

LEMMA RaiseKeeps ==
    ASSUME LinkInv, Raise
    PROVE  Keeps
<1>1. PICK c \in Chars :
          Db(c).events /\ Lasts /\ UNCHANGED clean /\ Happens(RaiseEvent(Accessory, c))
  BY DEF Raise
<1> DEFINE w == Accessory
           u == RaiseEvent(w, c)
<1>2. /\ w \in Worlds /\ Inv(w, asked, prepared) /\ w.link.connected /\ w.value = value
      /\ clean' \in BOOLEAN
  BY <1>1, AccessoryInv DEF Lasts
<1>3. PICK b \in [Chars -> Attrs] :
          /\ [w EXCEPT !.attr[c].pending = TRUE] = WithAttr(w, b)
          /\ b[c].pending = TRUE /\ b[c].subscribed = w.attr[c].subscribed
          /\ b[c].fallback = w.attr[c].fallback
          /\ \A d \in Chars \ {c} : b[d] = w.attr[d]
  BY ZenonT(40), <1>2, OneAttr
<1> DEFINE x == WithAttr(w, b)
<1>4. u = SendPendingEventNotifications(x)
  BY <1>3 DEF RaiseEvent
<1>5. /\ x \in Worlds /\ x.attr = b /\ x.told = w.told /\ x.link = w.link
      /\ x.pairing = w.pairing /\ x.session = w.session /\ x.proc = w.proc
      /\ x.value = w.value
  BY <1>2, WithAttrsFields
<1> HIDE DEF x, w, u
<1>6. ToldSound(x)
  <2>1. Subscribed(x) = Subscribed(w)
    BY <1>3, <1>5 DEF Subscribed
  <2> QED
    BY <1>2, <1>5, <2>1 DEF Inv, ToldSound
<1>7. \A d \in Chars : /\ x.attr[d].fallback = w.attr[d].fallback
                       /\ w.attr[d].pending => x.attr[d].pending
  BY <1>3, <1>5
<1>8. Inv(u, asked, prepared) /\ Authorized(w, u) /\ u.value = value
  BY <1>2, <1>4, <1>5, <1>6, <1>7, PendingInv
<1> QED
  BY <1>1, <1>2, <1>8, HappensKeeps DEF w, u

LEMMA ConfirmKeeps ==
    ASSUME LinkInv, ConfirmIndication
    PROVE  Keeps
<1> DEFINE w == Accessory
           l == [w.link EXCEPT !.blocked = FALSE]
           x == WithLink(w, l)
           u == HandleReadyToUpdateSubscribers(w)
<1>1. Happens(u) /\ link.connected /\ UNCHANGED clean
  BY DEF ConfirmIndication, Carries
<1>2. /\ w \in Worlds /\ Inv(w, asked, prepared) /\ w.link.connected /\ w.value = value
      /\ clean' \in BOOLEAN
  BY <1>1, AccessoryInv
<1>3. u = SendPendingEventNotifications(x)
  BY DEF HandleReadyToUpdateSubscribers, WithLink
<1> HIDE DEF w, u
<1>4. l \in Links /\ l.connected
  BY <1>2, WorldFields DEF Links
<1> HIDE DEF l
<1>5. /\ x \in Worlds /\ x.attr = w.attr /\ x.told = w.told /\ x.link = l
      /\ x.pairing = w.pairing /\ x.session = w.session /\ x.proc = w.proc
      /\ x.value = w.value
  BY <1>2, <1>4, WithLinkFields
<1> HIDE DEF x
<1>6. ToldSound(x)
  <2>1. Subscribed(x) = Subscribed(w)
    BY <1>5 DEF Subscribed
  <2> QED
    BY <1>2, <1>4, <1>5, <2>1 DEF Inv, ToldSound
<1>7. Inv(u, asked, prepared) /\ Authorized(w, u) /\ u.value = value
  BY <1>2, <1>3, <1>4, <1>5, <1>6, PendingInv
<1> QED
  BY <1>1, <1>2, <1>7, HappensKeeps DEF w, u

-----------------------------------------------------------------------------
(* The link.                                                               *)

\* Nothing has been begun.
LEMMA DetachedFields ==
    /\ Detached \in Procs /\ Detached.char = NotAttached /\ ~Detached.timer
    /\ Detached.multi = "None" /\ ~Detached.startedSecured /\ TransactionSound(Detached.txn)
    /\ Detached.txn.state = "WaitingForInitialWrite" /\ Detached.txn.response.total = 0
<1> DEFINE t == FreeBuffer
           n == [length |-> 0, expired |-> FALSE]
           a == NotAttached
<1>1. /\ t \in Txns /\ t.state = "WaitingForInitialWrite"
      /\ TransactionSound(t) /\ t.response.total = 0
  BY NewTransactionFields, NoneTypes, BufferAssumption DEF FreeBuffer
<1>2. n \in [length : Nat, expired : BOOLEAN]
  OBVIOUS
<1>3. Detached = [char |-> a, timer |-> FALSE, startedSecured |-> FALSE,
                  multi |-> "None", timed |-> n, txn |-> t]
  BY DEF Detached, Nothing
<1>4. a \in Chars \cup {NotAttached}
  OBVIOUS
<1> HIDE DEF t, n, a
<1>5. Detached \in Procs /\ Detached.char = a /\ Detached.txn = t /\ ~Detached.timer
      /\ Detached.multi = "None" /\ ~Detached.startedSecured
  BY <1>1, <1>2, <1>3, <1>4 DEF Procs
<1> QED
  BY <1>1, <1>5 DEF a

LEMMA CreatedFields ==
    /\ SessionCreated \in SessionStates /\ Unused \in SessionStates
    /\ ~SessionCreated.active /\ ~SessionCreated.terminal
    /\ ~Unused.active /\ ~Unused.terminal /\ Unused.linkTimer = "Off"
<1> DEFINE x == [e \in Exchanges |-> 0]
           s == [active |-> FALSE, transient |-> FALSE, exchange |-> x,
                 terminal |-> FALSE, safe |-> TRUE, linkTimer |-> "On", pairingTimer |-> FALSE]
<1>1. x \in [Exchanges -> 0 .. 4]
  OBVIOUS
<1>2. SessionCreated = s
  BY DEF SessionCreated
<1> HIDE DEF x
<1>3. s \in SessionStates /\ ~s.active /\ ~s.terminal
  BY <1>1 DEF SessionStates
<1>4. Unused = [s EXCEPT !.linkTimer = "Off"]
  BY <1>2 DEF Unused
<1> HIDE DEF s
<1>5. /\ [s EXCEPT !.linkTimer = "Off"] \in SessionStates
      /\ ~[s EXCEPT !.linkTimer = "Off"].active /\ ~[s EXCEPT !.linkTimer = "Off"].terminal
      /\ [s EXCEPT !.linkTimer = "Off"].linkTimer = "Off"
  BY <1>3 DEF SessionStates
<1> QED
  BY <1>2, <1>3, <1>4, <1>5

\* A link without a procedure, a session or a subscription.
LEMMA FreshInv ==
    ASSUME NEW w \in Worlds, w.proc = Detached, ~w.session.active, ~w.session.terminal,
           w.link.connected => w.told = {},
           ~w.link.connected => w.session = Unused,
           \A c \in Chars : w.attr[c].fallback = NoFallback,
           NEW a \in [Chars -> Askings], NEW p \in [Chars -> Bodies],
           \A c \in Chars : p[c] = <<>>
    PROVE  Inv(w, a, p)
<1>1. ~IsSecured(w) /\ Detached.char \notin Chars
  BY DetachedFields, BufferAssumption DEF IsSecured
<1>2. Sound(w)
  BY <1>1, DetachedFields, NoFallbackFields
     DEF Sound, ProceduresSound, PreparedSound, SecuritySound
<1>3. Apart(w) /\ Ends(w) /\ NotStuck(w) /\ ToldSound(w)
  BY <1>1 DEF Apart, Ends, NotStuck, ToldSound
<1>4. Matches(w, a)
  BY DetachedFields, NoFallbackFields DEF Matches, Sealed, Responding
<1>5. Remembers(w, a, p)
  BY DetachedFields DEF Remembers, Gathered, Confirming, PreparedHere
<1> QED
  BY <1>2, <1>3, <1>4, <1>5 DEF Inv

\* Nobody is subscribed, and no event waits.
LEMMA ResetFields ==
    ASSUME NEW w \in Worlds
    PROVE  LET u == ResetEventState(w)
           IN /\ u \in Worlds /\ u.told = w.told /\ u.link = w.link
              /\ u.running = w.running /\ u.pairing = w.pairing /\ u.session = w.session
              /\ u.proc = w.proc /\ u.value = w.value /\ u.call = w.call
              /\ \A c \in Chars : u.attr[c].fallback = w.attr[c].fallback
<1> DEFINE b == [c \in Chars |-> [w.attr[c] EXCEPT !.subscribed = FALSE, !.pending = FALSE]]
<1>1. ASSUME NEW c \in Chars
      PROVE  /\ [w.attr[c] EXCEPT !.subscribed = FALSE, !.pending = FALSE] \in Attrs
             /\ [w.attr[c] EXCEPT !.subscribed = FALSE, !.pending = FALSE].fallback
                    = w.attr[c].fallback
  <2>1. w.attr[c] \in Attrs
    BY WorldFields
  <2> QED
    BY <2>1 DEF Attrs
<1>2. b \in [Chars -> Attrs] /\ \A c \in Chars : b[c].fallback = w.attr[c].fallback
  BY Zenon, <1>1
<1>3. ResetEventState(w) = WithAttr(w, b)
  BY DEF ResetEventState, WithAttr
<1> HIDE DEF b
<1> QED
  BY <1>2, <1>3, WithAttrsFields

LEMMA ConnectedFields ==
    ASSUME NEW w \in Worlds, NEW u, u = HandleConnectedCentral(w)
    PROVE  /\ u \in Worlds /\ u.proc = w.proc /\ u.session = SessionCreated /\ u.told = {}
           /\ u.value = w.value /\ u.link.connected
           /\ \A c \in Chars : u.attr[c].fallback = NoFallback
<1> DEFINE l == [connected |-> TRUE, cancelled |-> FALSE, blocked |-> FALSE]
           v == AbortAllFallbackProcedures(w)
           r == ResetEventState(v)
           x == WithLink(r, l)
           s == SessionCreated
           y == WithSession(x, s)
           e == {}
           z == WithTold(y, e)
<1>1. /\ v \in Worlds /\ v.proc = w.proc /\ v.value = w.value
      /\ \A c \in Chars : v.attr[c].fallback = NoFallback
  BY AbortFields DEF Outlived
<1> HIDE DEF v
<1>2. /\ r \in Worlds /\ r.proc = w.proc /\ r.value = w.value
      /\ \A c \in Chars : r.attr[c].fallback = NoFallback
  BY <1>1, ResetFields
<1>3. HandleConnectedCentral(w) = [r EXCEPT !.link = l, !.session = s, !.told = e]
  BY DEF HandleConnectedCentral, v
<1> HIDE DEF r
<1>4. l \in Links /\ l.connected /\ s \in SessionStates /\ e \in SUBSET Chars
  BY CreatedFields DEF Links
<1> HIDE DEF l, s, e
<1>5. [r EXCEPT !.link = l, !.session = s, !.told = e] \in Worlds
  BY <1>2, <1>4 DEF Worlds
<1> QED
  BY <1>2, <1>3, <1>4, <1>5 DEF Worlds, s, e

LEMMA DisconnectedFields ==
    ASSUME NEW w \in Worlds, NEW u, u = HandleDisconnectedCentral(w)
    PROVE  /\ u \in Worlds /\ u.proc = Detached /\ u.session = Unused
           /\ u.value = w.value /\ ~u.link.connected
           /\ \A c \in Chars : u.attr[c].fallback = NoFallback
<1> DEFINE l == [connected |-> FALSE, cancelled |-> FALSE, blocked |-> FALSE]
           x == [w EXCEPT !.link = l, !.proc = Detached]
           v == AbortAllFallbackProcedures(x)
           t == Terminate(v)
           r == [t EXCEPT !.session = Unused, !.gap = InStep]
<1>1. u = ResetEventState(r)
  BY DEF HandleDisconnectedCentral, SessionRelease, Unused
<1>2. l \in Links /\ ~l.connected
  BY DEF Links
<1> HIDE DEF l
<1>3. x \in Worlds /\ x.link = l /\ x.proc = Detached /\ x.value = w.value
  BY <1>2, DetachedFields DEF Worlds
<1> HIDE DEF x
<1>4. /\ v \in Worlds /\ v.link.connected = l.connected /\ v.proc = Detached
      /\ v.value = w.value /\ \A c \in Chars : v.attr[c].fallback = NoFallback
  BY <1>3, AbortFields DEF Outlived
<1> HIDE DEF v
<1>5. /\ t \in Worlds /\ t.link.connected = l.connected /\ t.proc = Detached
      /\ t.value = w.value /\ t.attr = v.attr
  BY <1>4, TerminateLives DEF Lived
<1> HIDE DEF t
<1>6. InStep \in Gaps
  BY DEF InStep, Gaps
<1>7. r \in Worlds
  BY <1>5, <1>6, CreatedFields DEF Worlds
<1>8. /\ r.session = Unused /\ r.link = t.link /\ r.proc = t.proc /\ r.value = t.value
      /\ r.attr = t.attr
  BY <1>5 DEF Worlds
<1> HIDE DEF r
<1> QED
  BY <1>1, <1>2, <1>4, <1>5, <1>7, <1>8, ResetFields

LEMMA ConnectKeeps ==
    ASSUME LinkInv, Connect
    PROVE  Keeps
<1> DEFINE w == Accessory
           u == HandleConnectedCentral(w)
<1>1. ~w.link.connected /\ Happens(u) /\ clean' \in BOOLEAN
  BY AccessoryFields DEF Connect
<1>2. w \in Worlds /\ Inv(w, asked, prepared) /\ w.value = value
  BY AccessoryInv
<1> HIDE DEF w
<1>3. /\ u \in Worlds /\ u.proc = w.proc /\ u.session = SessionCreated /\ u.told = {}
      /\ u.value = w.value /\ u.link.connected
      /\ \A c \in Chars : u.attr[c].fallback = NoFallback
  BY <1>2, ConnectedFields
<1> HIDE DEF u
<1>4. w.proc = Detached /\ ~w.session.terminal
  BY <1>1, <1>2, CreatedFields DEF Inv, Apart
<1>5. \A c \in Chars : prepared[c] = <<>>
  BY <1>2, <1>4, DetachedFields, BufferAssumption DEF Inv, Remembers, PreparedHere
<1>6. Inv(u, asked, prepared)
  BY <1>2, <1>3, <1>4, <1>5, CreatedFields, FreshInv DEF Inv
<1>7. Authorized(w, u)
  BY <1>1 DEF Authorized
<1> QED
  BY <1>1, <1>2, <1>3, <1>6, <1>7, HappensKeeps DEF w

LEMMA DisconnectKeeps ==
    ASSUME LinkInv, Disconnect
    PROVE  Keeps
<1> DEFINE w == Accessory
           u == HandleDisconnectedCentral(w)
           a == [c \in Chars |-> NotAsked]
           p == NonePrepared
<1>1. asked' = a /\ prepared' = p /\ clean' \in BOOLEAN /\ Becomes(u)
  BY DEF Disconnect
<1>2. w \in Worlds /\ w.value = value
  BY AccessoryInv
<1> HIDE DEF w
<1>3. /\ u \in Worlds /\ u.proc = Detached /\ u.session = Unused
      /\ u.value = w.value /\ ~u.link.connected
      /\ \A c \in Chars : u.attr[c].fallback = NoFallback
  BY <1>2, DisconnectedFields
<1> HIDE DEF u
<1>4. /\ a \in [Chars -> Askings] /\ p \in [Chars -> Bodies]
      /\ \A c \in Chars : p[c] = <<>>
  BY NothingAsked
<1> HIDE DEF a, p
<1>5. Inv(u, a, p)
  BY <1>3, <1>4, CreatedFields, FreshInv
<1>6. Alike(u, Accessory')
  BY <1>1, <1>3, BecomesAlike
<1>7. Inv(Accessory', asked', prepared')
  BY <1>1, <1>5, <1>6, AlikeInv
<1>8. LinkInv'
  BY <1>1, <1>7 DEF LinkInv
<1>9. Authorized(w, u)
  BY <1>3 DEF Authorized
<1>10. IndicationsAreAuthorized
  BY <1>1, <1>2, <1>3, <1>9, BecomesAuthorized DEF Alike, w
<1>11. WritesSent(Accessory, asked, prepared, value')
  BY <1>1, <1>2, <1>3, AccessoryFields, SameValue DEF Becomes
<1> QED
  BY <1>8, <1>10, <1>11 DEF Keeps

-----------------------------------------------------------------------------
(* The pairing, the server and time.                                       *)

\* Somebody else changes the pairing of the central.
LEMMA PairingInv ==
    ASSUME NEW w, NEW a, NEW p, Inv(w, a, p), w.link.connected,
           NEW x \in Worlds, x.link = w.link, x.session = w.session, x.proc = w.proc,
           x.attr = w.attr, x.told = w.told,
           x.pairing.stored => w.pairing.stored, x.pairing.admin => w.pairing.admin
    PROVE  Inv(x, a, p) /\ Authorized(w, x)
<1>1. /\ IsSecured(x) => IsSecured(w)
      /\ IsTransient(x) = IsTransient(w) /\ Subscribed(x) = Subscribed(w)
      /\ ControllerIsAdmin(x) => ControllerIsAdmin(w)
  BY DEF IsSecured, IsTransient, ControllerIsAdmin, Subscribed
<1>2. DueEvents(x) \subseteq DueEvents(w)
  BY <1>1 DEF DueEvents
<1>3. Sound(x) /\ Apart(x) /\ Ends(x)
  BY <1>1 DEF Inv, Sound, ProceduresSound, SecuritySound, Apart, Ends
<1>4. NotStuck(x) /\ ToldSound(x)
  BY <1>1, <1>2 DEF Inv, NotStuck, ToldSound
<1>5. Matches(x, a)
  BY DEF Inv, Matches, Sealed
<1>6. Remembers(x, a, p)
  BY DEF Inv, Remembers, Gathered, Confirming, PreparedHere
<1> QED
  BY <1>3, <1>4, <1>5, <1>6 DEF Inv, Authorized

LEMMA LosePairingKeeps ==
    ASSUME LinkInv, LosePairing
    PROVE  Keeps
<1> DEFINE w == Accessory
           p == [stored |-> FALSE, admin |-> FALSE]
           x == [w EXCEPT !.pairing = p]
<1>1. Happens(x) /\ clean' \in BOOLEAN /\ link.connected
  BY DEF LosePairing, Lasts
<1>2. w \in Worlds /\ Inv(w, asked, prepared) /\ w.link.connected /\ w.value = value
  BY <1>1, AccessoryInv
<1> HIDE DEF w
<1>3. p \in Pairings /\ ~p.stored /\ ~p.admin
  BY DEF Pairings
<1> HIDE DEF p
<1>4. /\ x \in Worlds /\ x.pairing = p /\ x.link = w.link /\ x.session = w.session
      /\ x.proc = w.proc /\ x.attr = w.attr /\ x.told = w.told /\ x.value = w.value
  BY <1>2, <1>3 DEF Worlds
<1> HIDE DEF x
<1>5. Inv(x, asked, prepared) /\ Authorized(w, x)
  BY <1>2, <1>3, <1>4, PairingInv
<1> QED
  BY <1>1, <1>2, <1>4, <1>5, HappensKeeps DEF w

LEMMA LoseAdminKeeps ==
    ASSUME LinkInv, LoseAdmin
    PROVE  Keeps
<1> DEFINE w == Accessory
           p == [w.pairing EXCEPT !.admin = FALSE]
           x == [w EXCEPT !.pairing = p]
<1>1. Happens(x) /\ UNCHANGED clean /\ link.connected
  BY DEF LoseAdmin, Lasts
<1>2. /\ w \in Worlds /\ Inv(w, asked, prepared) /\ w.link.connected /\ w.value = value
      /\ clean' \in BOOLEAN
  BY <1>1, AccessoryInv
<1> HIDE DEF w
<1>3. p \in Pairings /\ p.stored = w.pairing.stored /\ ~p.admin
  BY <1>2, WorldFields DEF Pairings
<1> HIDE DEF p
<1>4. /\ x \in Worlds /\ x.pairing = p /\ x.link = w.link /\ x.session = w.session
      /\ x.proc = w.proc /\ x.attr = w.attr /\ x.told = w.told /\ x.value = w.value
  BY <1>2, <1>3 DEF Worlds
<1> HIDE DEF x
<1>5. Inv(x, asked, prepared) /\ Authorized(w, x)
  BY <1>2, <1>3, <1>4, PairingInv
<1> QED
  BY <1>1, <1>2, <1>4, <1>5, HappensKeeps DEF w

LEMMA StopKeeps ==
    ASSUME LinkInv, Stop
    PROVE  Keeps
<1> DEFINE w == Accessory
           x == [w EXCEPT !.running = FALSE]
           u == IF w.session.safe THEN CancelCentralConnection(x) ELSE x
<1>1. Happens(u) /\ clean' \in BOOLEAN /\ link.connected
  BY AccessoryFields DEF Stop, Lasts
<1>2. w \in Worlds /\ Inv(w, asked, prepared) /\ w.link.connected /\ w.value = value
  BY <1>1, AccessoryInv
<1> HIDE DEF w
<1>3. /\ x \in Worlds /\ x.pairing = w.pairing /\ x.link = w.link /\ x.session = w.session
      /\ x.proc = w.proc /\ x.attr = w.attr /\ x.told = w.told /\ x.value = w.value
  BY <1>2 DEF Worlds
<1> HIDE DEF x
<1>4. /\ u \in Worlds /\ u.pairing = w.pairing /\ u.session = w.session
      /\ u.link.connected = w.link.connected /\ u.link.blocked = w.link.blocked
      /\ u.proc = w.proc /\ u.attr = w.attr /\ u.told = w.told /\ u.value = w.value
  BY <1>3, CancelFields DEF Lived, SameHouse
<1> HIDE DEF u
<1>5. SameSession(w.session, u.session)
  BY <1>2, <1>4, WorldFields DEF SameSession
<1>6. Inv(u, asked, prepared) /\ Authorized(w, u)
  BY <1>2, <1>4, <1>5, SimilarInv
<1> QED
  BY <1>1, <1>2, <1>4, <1>6, HappensKeeps DEF w

LEMMA RunsLateKeeps ==
    ASSUME LinkInv, LinkTimerRunsLate
    PROVE  Keeps
<1> DEFINE w == Accessory
           s == [w.session EXCEPT !.linkTimer = "Late"]
           u == WithSession(w, s)
<1>1. Happens(u) /\ clean' \in BOOLEAN /\ session.linkTimer = "On"
  BY DEF LinkTimerRunsLate, WithSession
<1>2. w \in Worlds /\ Inv(w, asked, prepared) /\ w.value = value /\ w.session.linkTimer = "On"
  BY <1>1, AccessoryInv
<1> HIDE DEF w
<1>3. w.link.connected
  BY <1>2, CreatedFields DEF Inv, Apart
<1>4. SameSession(w.session, s) /\ s.linkTimer = "Late" /\ s \in SessionStates
  <2>1. w.session \in SessionStates
    BY <1>2, WorldFields
  <2> QED
    BY <2>1 DEF SameSession, SessionStates
<1> HIDE DEF s
<1>5. /\ u \in Worlds /\ u.session = s /\ u.link = w.link /\ u.pairing = w.pairing
      /\ u.proc = w.proc /\ u.attr = w.attr /\ u.told = w.told /\ u.value = w.value
  BY <1>2, <1>4, WithSessionFields
<1> HIDE DEF u
<1>6. Inv(u, asked, prepared) /\ Authorized(w, u)
  BY <1>2, <1>3, <1>4, <1>5, SimilarInv
<1> QED
  BY <1>1, <1>2, <1>5, <1>6, HappensKeeps DEF w

LEMMA SafeTimerKeeps ==
    ASSUME LinkInv, SafeTimer
    PROVE  Keeps
<1> DEFINE w == Accessory
           s == [w.session EXCEPT !.safe = TRUE]
           x == WithSession(w, s)
           u == SafeToDisconnectTimerExpired(w)
<1>1. Happens(u) /\ UNCHANGED clean /\ link.connected
  BY DEF SafeTimer, Carries
<1>2. /\ w \in Worlds /\ Inv(w, asked, prepared) /\ w.value = value /\ w.link.connected
      /\ clean' \in BOOLEAN
  BY <1>1, AccessoryInv
<1>3. u = IF w.session.terminal \/ ~w.running THEN CancelCentralConnection(x) ELSE x
  BY DEF SafeToDisconnectTimerExpired, WithSession
<1> HIDE DEF w, u
<1>4. SameSession(w.session, s) /\ s.linkTimer = w.session.linkTimer /\ s \in SessionStates
  <2>1. w.session \in SessionStates
    BY <1>2, WorldFields
  <2> QED
    BY <2>1 DEF SameSession, SessionStates
<1> HIDE DEF s
<1>5. /\ x \in Worlds /\ x.session = s /\ x.link = w.link /\ x.pairing = w.pairing
      /\ x.proc = w.proc /\ x.attr = w.attr /\ x.told = w.told /\ x.value = w.value
  BY <1>2, <1>4, WithSessionFields
<1> HIDE DEF x
<1>6. /\ u \in Worlds /\ u.session = s /\ u.pairing = w.pairing
      /\ u.link.connected = w.link.connected /\ u.link.blocked = w.link.blocked
      /\ u.proc = w.proc /\ u.attr = w.attr /\ u.told = w.told /\ u.value = w.value
  BY <1>3, <1>5, CancelFields DEF Lived, SameHouse
<1>7. Inv(u, asked, prepared) /\ Authorized(w, u)
  BY <1>2, <1>4, <1>6, SimilarInv
<1> QED
  BY <1>1, <1>2, <1>6, <1>7, HappensKeeps DEF w

LEMMA TimedWriteExpiresKeeps ==
    ASSUME LinkInv, TimedWriteExpires
    PROVE  Keeps
<1> DEFINE w == Accessory
           q == [w.proc EXCEPT !.timed.expired = TRUE]
           u == WithProc(w, q)
<1>1. Happens(u) /\ UNCHANGED clean /\ proc.multi = "TimedWrite"
  BY DEF TimedWriteExpires, WithProc
<1>2. /\ w \in Worlds /\ Inv(w, asked, prepared) /\ w.value = value
      /\ w.proc.multi = "TimedWrite" /\ clean' \in BOOLEAN
  BY <1>1, AccessoryInv
<1> HIDE DEF w
<1>3. w.link.connected
  BY <1>2, DetachedFields DEF Inv, Apart
<1>4. q \in Procs
  <2>1. w.proc \in Procs /\ w.proc.timed \in [length : Nat, expired : BOOLEAN]
    BY <1>2, WorldFields, ProcFields
  <2> QED
    BY <2>1 DEF Procs
<1>5. q = [w.proc EXCEPT !.timed.expired = TRUE]
  OBVIOUS
<1> HIDE DEF q
<1>6. /\ u \in Worlds /\ u.session = w.session /\ u.link = w.link /\ u.pairing = w.pairing
      /\ u.proc = q /\ u.attr = w.attr /\ u.told = w.told /\ u.value = w.value
  BY <1>2, <1>4 DEF WithProc, Worlds
<1> HIDE DEF u
<1>7. SameSession(w.session, u.session)
  BY <1>2, <1>6, WorldFields DEF SameSession
<1>8. Inv(u, asked, prepared) /\ Authorized(w, u)
  BY <1>2, <1>3, <1>5, <1>6, <1>7, SimilarInv
<1> QED
  BY <1>1, <1>2, <1>6, <1>8, HappensKeeps DEF w

LEMMA TerminatedKeeps ==
    ASSUME LinkInv, link.connected, NEW v \in Worlds, v.link.connected, v.value = value,
           Quiet(Accessory, v), Happens(Terminate(v)), clean' \in BOOLEAN
    PROVE  Keeps
<1> DEFINE u == Terminate(v)
<1>1. u \in Worlds /\ Closed(u) /\ u.link.connected /\ u.value = value /\ u.attr = v.attr
  BY TerminateLives DEF Lived
<1>2. Happens(u)
  OBVIOUS
<1> HIDE DEF u
<1>3. Quiet(Accessory, u)
  BY <1>1 DEF Quiet
<1> QED
  BY <1>1, <1>2, <1>3, EndKeeps

LEMMA LinkTimerKeeps ==
    ASSUME LinkInv, LinkTimer \/ PairingTimer
    PROVE  Keeps
<1> DEFINE w == Accessory
           s == [w.session EXCEPT !.linkTimer = "Off"]
           t == [w.session EXCEPT !.pairingTimer = FALSE]
<1>1. /\ w \in Worlds /\ Inv(w, asked, prepared) /\ w.value = value /\ w.link = link
      /\ w.attr = attr /\ w.session = session
  BY AccessoryInv
<1>2. s \in SessionStates /\ t \in SessionStates
  <2>1. w.session \in SessionStates
    BY <1>1, WorldFields
  <2> QED
    BY <2>1 DEF SessionStates
<1>3. link.connected
  <2>1. CASE LinkTimer
    <3>1. w.session.linkTimer = "Late"
      BY <1>1, <2>1 DEF LinkTimer
    <3> HIDE DEF w
    <3> QED
      BY <1>1, <3>1, CreatedFields DEF Inv, Apart
  <2>2. CASE PairingTimer
    BY <2>2 DEF PairingTimer, Carries
  <2> QED
    BY <2>1, <2>2
<1>4. PICK r \in SessionStates : Happens(Terminate(WithSession(w, r))) /\ clean' \in BOOLEAN
  <2>1. CASE LinkTimer
    <3>1. Happens(Terminate(WithSession(w, s))) /\ clean' \in BOOLEAN
      BY <2>1 DEF LinkTimer, LinkTimerOrPairingProcedureTimerExpired, WithSession
    <3> QED
      BY <1>2, <3>1
  <2>2. CASE PairingTimer
    <3>1. Happens(Terminate(WithSession(w, t))) /\ clean' \in BOOLEAN
      BY <2>2 DEF PairingTimer, LinkTimerOrPairingProcedureTimerExpired, WithSession
    <3> QED
      BY <1>2, <3>1
  <2> QED
    BY <2>1, <2>2
<1> DEFINE v == WithSession(w, r)
<1>5. v \in Worlds /\ v.link = w.link /\ v.value = w.value /\ v.attr = w.attr
  BY <1>1, WithSessionFields
<1>6. Happens(Terminate(v))
  BY <1>4
<1>7. Quiet(w, v)
  BY <1>5 DEF Quiet
<1> HIDE DEF v
<1> QED
  BY <1>1, <1>3, <1>4, <1>5, <1>6, <1>7, TerminatedKeeps

LEMMA ProcedureTimerKeeps ==
    ASSUME LinkInv, ProcedureTimer
    PROVE  Keeps
<1> DEFINE w == Accessory
           v == Reset(w)
<1>1. /\ w \in Worlds /\ w.value = value /\ w.link = link /\ w.attr = attr
  BY AccessoryInv
<1>2. link.connected /\ Happens(Terminate(v)) /\ clean' \in BOOLEAN
  BY DEF ProcedureTimer, Carries, ProcedureTimerExpired
<1>3. v \in Worlds /\ v.link = w.link /\ v.value = w.value /\ v.attr = w.attr
  <2> HIDE DEF w
  <2>1. w.proc.char \in Chars \cup {NotAttached}
    BY <1>1, WorldFields, ProcFields
  <2> QED
    BY <1>1, <2>1, AttachFields DEF Reset, Stayed
<1>4. Quiet(w, v)
  BY <1>3 DEF Quiet
<1> HIDE DEF v
<1> QED
  BY <1>1, <1>2, <1>3, <1>4, TerminatedKeeps

LEMMA FallbackTimerKeeps ==
    ASSUME LinkInv, NEW c \in Chars, FallbackTimer(c)
    PROVE  Keeps
<1> DEFINE w == Accessory
           f == NoFallback
           v == [w EXCEPT !.attr[c].fallback = f]
<1>1. /\ w \in Worlds /\ w.value = value /\ w.link = link /\ w.attr = attr
  BY AccessoryInv
<1>2. link.connected /\ Happens(Terminate(v)) /\ clean' \in BOOLEAN
  BY DEF FallbackTimer, Carries, FallbackProcedureTimerExpired
<1>3. v = WithAttr(w, [w.attr EXCEPT ![c] = [w.attr[c] EXCEPT !.fallback = f]])
  BY DEF WithAttr
<1>4. f \in FallbackStates
  BY NoFallbackFields
<1> HIDE DEF v, f
<1>5. Outlived(w, v) /\ Quiet(w, v) /\ v.value = w.value /\ v.link = w.link
  <2> HIDE DEF w
  <2> QED
    BY <1>1, <1>3, <1>4, WithFallbackFields
<1>6. v \in Worlds
  BY <1>5 DEF Outlived
<1> QED
  BY <1>1, <1>2, <1>5, <1>6, TerminatedKeeps

LEMMA StutterKeeps ==
    ASSUME LinkInv, UNCHANGED vars
    PROVE  Keeps
<1>1. /\ link' = link /\ running' = running /\ pairing' = pairing /\ session' = session
      /\ proc' = proc /\ attr' = attr /\ value' = value /\ told' = told /\ gap' = gap
      /\ asked' = asked /\ prepared' = prepared /\ clean' = clean
  BY DEF vars
<1>2. Accessory' = Accessory
  BY <1>1 DEF Accessory
<1>3. LinkInv'
  BY <1>1, <1>2 DEF LinkInv
<1>4. IndicationsAreAuthorized
  BY <1>1 DEF IndicationsAreAuthorized
<1>5. WritesSent(Accessory, asked, prepared, value')
  BY <1>1, AccessoryFields, SameValue
<1> QED
  BY <1>3, <1>4, <1>5 DEF Keeps

LEMMA NextKeeps ==
    ASSUME LinkInv, [Next]_vars
    PROVE  Keeps
<1>1. CASE \E c \in Chars : FallbackTimer(c)
  BY <1>1, FallbackTimerKeeps
<1> QED
  BY <1>1, BeginKeeps, ContinueKeeps, GarbageKeeps, ReadKeeps, SubscribeKeeps, ConfirmKeeps,
     ConnectKeeps, DisconnectKeeps, RaiseKeeps, LosePairingKeeps, LoseAdminKeeps, StopKeeps,
     RunsLateKeeps, LinkTimerKeeps, ProcedureTimerKeeps, SafeTimerKeeps,
     TimedWriteExpiresKeeps, StutterKeeps DEF Next

LEMMA InitLinkInv == Init => LinkInv
<1> SUFFICES ASSUME Init PROVE LinkInv
  OBVIOUS
<1> DEFINE w == Accessory
<1>1. /\ w.proc = Detached /\ w.session = Unused /\ ~w.link.connected
      /\ w.attr = [c \in Chars |-> Fresh]
  BY AccessoryFields DEF Init, Unused
<1>2. Fresh \in Attrs /\ Fresh.fallback = NoFallback
  <2> DEFINE f == NoFallback
  <2>1. f \in FallbackStates
    BY NoFallbackFields
  <2>2. Fresh = [subscribed |-> FALSE, pending |-> FALSE, fallback |-> f]
    BY DEF Fresh
  <2> HIDE DEF f
  <2>3. Fresh \in Attrs /\ Fresh.fallback = f
    BY <2>1, <2>2 DEF Attrs
  <2> QED
    BY <2>3 DEF f
<1>3. w \in Worlds
  <2>1. link \in Links /\ running \in BOOLEAN /\ pairing \in Pairings
    BY DEF Init, Links, Pairings
  <2>2. session \in SessionStates /\ proc \in Procs
    BY CreatedFields, DetachedFields DEF Init, Unused
  <2>3. attr \in [Chars -> Attrs]
    BY <1>2 DEF Init
  <2>4. value \in [Chars -> Bodies]
    <3>1. value \in [Chars -> Seq(STRING)] /\ STRING \subseteq Words
      BY LinkAssumption DEF Init, Words
    <3>2. \A c \in Chars : value[c] \in Bodies
      BY <3>1, SeqMonotonic DEF Bodies
    <3> QED
      BY <3>1, <3>2
  <2>5. told \in SUBSET Chars /\ gap \in Gaps
    BY DEF Init, InStep, Gaps
  <2>6. NoCall \in Calls
    BY DEF NoCall, Calls, Errors
  <2>7. Accessory = [link |-> link, running |-> running, pairing |-> pairing,
            session |-> session, proc |-> proc, attr |-> attr, value |-> value, told |-> told,
            gap |-> gap, call |-> NoCall]
    BY DEF Accessory, NoCall
  <2> QED
    BY <2>1, <2>2, <2>3, <2>4, <2>5, <2>6, <2>7 DEF Worlds
<1>4. /\ asked \in [Chars -> Askings] /\ prepared \in [Chars -> Bodies]
      /\ \A c \in Chars : prepared[c] = <<>>
  BY NothingAsked DEF Init
<1>5. \A c \in Chars : w.attr[c].fallback = NoFallback
  BY <1>1, <1>2
<1> HIDE DEF w
<1>6. Inv(w, asked, prepared)
  BY <1>1, <1>3, <1>4, <1>5, CreatedFields, FreshInv
<1> QED
  BY <1>6 DEF LinkInv, Init, w

-----------------------------------------------------------------------------
(* The theorems.                                                           *)

LEMMA LinkInvSound == LinkInv => TransactionsAreSound /\ SubscriptionsAreTold /\ EventsAreNotStuck
<1> SUFFICES ASSUME LinkInv
             PROVE  TransactionsAreSound /\ SubscriptionsAreTold /\ EventsAreNotStuck
  OBVIOUS
<1>1. /\ Accessory \in Worlds /\ Inv(Accessory, asked, prepared)
      /\ Accessory.link = link /\ Accessory.session = session /\ Accessory.attr = attr
      /\ Accessory.pairing = pairing /\ Accessory.running = running
      /\ Accessory.proc = proc /\ Accessory.told = told /\ Accessory.gap = gap
      /\ clean \in BOOLEAN
  BY AccessoryInv, AccessoryFields
<1>2. TypeOK
  <2>1. /\ link \in Links /\ running \in BOOLEAN /\ pairing \in Pairings
        /\ session \in SessionStates /\ proc \in Procs /\ attr \in [Chars -> Attrs]
        /\ told \in SUBSET Chars /\ gap \in Gaps
    BY <1>1, WorldFields
  <2>2. proc.char \in Chars \cup {NotAttached} /\ proc.multi \in {"None", "TimedWrite"}
    BY <2>1, ProcFields
  <2>3. proc.txn.err = "None" \/ session.terminal
    BY <1>1 DEF Inv, Sound, ProceduresSound, TransactionSound
  <2> QED
    BY <1>1, <2>1, <2>2, <2>3
       DEF TypeOK, Links, Pairings, SessionStates, Attrs, FallbackStates, Gaps, ErrorPending
<1>3. AnswersMatch
  BY <1>1 DEF Inv, Matches, AnswersMatch, Responding
<1>4. SecretsAreSealed
  BY <1>1 DEF Inv, Matches, Sealed, SecretsAreSealed, Reading
<1>5. UnfinishedIsTimed
  BY <1>1 DEF Inv, Sound, ProceduresSound, SecuritySound, UnfinishedIsTimed
<1>6. SubscriptionsAreTold
  BY <1>1 DEF Inv, ToldSound, SubscriptionsAreTold
<1>7. EventsAreNotStuck
  BY <1>1 DEF Inv, NotStuck, EventsAreNotStuck
<1> QED
  BY <1>2, <1>3, <1>4, <1>5, <1>6, <1>7 DEF TransactionsAreSound

LEMMA LinkInvAlways == Spec => []LinkInv
<1>1. LinkInv /\ [Next]_vars => LinkInv'
  BY NextKeeps DEF Keeps
<1> QED
  BY InitLinkInv, <1>1, PTL DEF Spec

\* Whatever the central sends and when, and whatever timers run out: the variables have
\* their types, an answer carries the identifier of the request it answers, a value that
\* needs a secured session leaves in a procedure that began secured, and what has begun
\* has a timer.  (HAPBLEPeripheralManagerHandleWriteRequest and HandleReadRequest)
THEOREM TransactionsAlwaysSound == Spec => []TransactionsAreSound
BY LinkInvAlways, LinkInvSound, PTL

\* The application knows the subscriptions of a secured session, no event waits that could
\* go, and an indication goes only to a subscriber that may read the value.
\* (SetNotificationsEnabled, SendPendingEventNotifications and its callers)
THEOREM SubscribersAlwaysServed == Spec => SubscribersAreServed
<1>1. LinkInv /\ [Next]_vars =>
          (SubscriptionsAreTold' /\ EventsAreNotStuck' /\ IndicationsAreAuthorized)
  <2>1. LinkInv' => SubscriptionsAreTold' /\ EventsAreNotStuck'
    BY LinkInvSound, PTL
  <2> QED
    BY <2>1, NextKeeps DEF Keeps
<1> QED
  BY LinkInvAlways, <1>1, PTL DEF Spec, SubscribersAreServed

\* A value becomes what the central sent with the write, whole, or what it was confirmed
\* to have prepared, in time, and only in a secured session if that is required.
\* (HAPBLEProcedureProcessTransaction, CompleteTransaction)
THEOREM WritesAlwaysAsSent == Spec => WrittenAsSent
<1>1. LinkInv /\ [Next]_vars => WritesSent(Accessory, asked, prepared, value')
  BY NextKeeps DEF Keeps
<1>2. WritesSent(Accessory, asked, prepared, value') =>
          \A c \in Chars : value'[c] # value[c] =>
          LET opcode == asked[c].header.opcode
          IN /\ asked[c].on /\ asked[c].sent = asked[c].header.total
             /\ \/ /\ opcode = "CharacteristicWrite" /\ ~Db(c).timed
                   /\ value'[c] = ValueIn(asked[c].body)
                \/ /\ opcode = "CharacteristicExecuteWrite" /\ ~proc.timed.expired
                   /\ value'[c] = ValueIn(prepared[c])
             /\ Db(c).openWrite \/ IsSecured(Accessory)
  BY AccessoryFields DEF WritesSent
<1> QED
  BY LinkInvAlways, <1>1, <1>2, PTL DEF Spec, WrittenAsSent
=============================================================================
