--------------------------- MODULE HAPBLECentral_proofs ---------------------------
(***************************************************************************)
(* A central that keeps to the protocol is served by HAPBLEPeripheralManager: *)
(* until it leaves nobody ends its session, cancels its link or lets the   *)
(* nonces of the two directions fall out of step, for any GATT table,      *)
(* database, requests, fragments and outcomes of handlers.                 *)
(***************************************************************************)
EXTENDS HAPBLEPeripheralManager_proofs

-----------------------------------------------------------------------------
(* What a central and the accessory agree on.                              *)

\* Nothing is a reason to end the link.
Calm(w) ==
    /\ ~w.session.terminal /\ ~w.link.cancelled /\ w.running
    /\ w.session.linkTimer # "Late"
    /\ w.session.active => IsSecured(w)
    /\ w.session.exchange["PairVerify"] = 3 => w.pairing.stored

\* The two ends read and write what is in progress in the security it began in.
Agreed(w, a) ==
    LET c == w.proc.char
        t == w.proc.txn
    IN /\ w.proc.timer =>
              /\ t.state # "WaitingForInitialWrite" \/ w.proc.multi = "TimedWrite"
              /\ w.proc.startedSecured = (w.session.active /\ ~DropsSecuritySession(c))
       /\ t.state # "WaitingForInitialWrite" =>
              /\ a[c].on /\ a[c].sealed = w.proc.startedSecured
              /\ t.state \in Responding => a[c].sent = a[c].header.total
       /\ \A d \in Chars : w.attr[d].fallback.timer =>
              /\ a[d].on /\ a[d].sealed = w.session.active /\ ~DropsSecuritySession(d)
              /\ w.attr[d].fallback.remaining + a[d].sent = a[d].header.total

\* What the central works on is in progress, and alone if it is an exchange.
InProgressOn(w, d) ==
    \/ w.attr[d].fallback.timer
    \/ w.proc.char = d /\ w.proc.txn.state # "WaitingForInitialWrite"
Awaits(w, a) ==
    \A d \in Chars : a[d].on =>
        /\ InProgressOn(w, d)
        /\ a[d].header.total = Len(a[d].body) /\ a[d].sent <= a[d].header.total
        /\ DropsSecuritySession(d) => \A e \in Chars \ {d} : ~a[e].on

\* A write was prepared, or is about to be, and the central knows.
Promises(w, a, p) ==
    LET b == a[w.proc.char]
        state == w.proc.txn.state
        prepares == w.proc.multi = "TimedWrite"
    IN w.proc.timer =>
        /\ state \notin Responding => prepares = (p[w.proc.char] # <<>>)
        /\ state = "ReadingRequest" =>
              /\ (b.header.opcode = "CharacteristicExecuteWrite") = prepares
              /\ b.header.opcode = "CharacteristicTimedWrite" => b.body # <<>>
        /\ state \in Responding /\ prepares =>
              \/ p[w.proc.char] # <<>>
              \/ b.header.opcode = "CharacteristicTimedWrite" /\ b.body # <<>>

Trust(w, a, p) ==
    Calm(w) /\ w.gap = InStep /\ Agreed(w, a) /\ Awaits(w, a) /\ Promises(w, a, p)

\* With LinkInv, inductive: the central and the accessory agree on all that is in progress,
\* on a link that nobody gave reason to end.
TrustKept ==
    /\ ~link.connected => gap = InStep
    /\ clean /\ link.connected => Trust(Accessory, asked, prepared)

-----------------------------------------------------------------------------
(* GATT writes.                                                            *)

LEMMA ReadyFields ==
    ASSUME NEW w, Ready(w)
    PROVE  /\ w \in Worlds /\ ~Failed(w) /\ ~w.session.terminal /\ w.proc.char \in Chars
           /\ w.session \in SessionStates /\ w.proc \in Procs /\ w.gap \in Gaps
           /\ w.proc.txn \in Txns /\ TransactionSound(w.proc.txn)
           /\ IsSecured(w) \in BOOLEAN /\ w.session.active \in BOOLEAN
           /\ DropsSecuritySession(w.proc.char) \in BOOLEAN
BY WorldFields, ProcFields, SecuredType
   DEF Ready, ProceduresSound, SessionStates, DropsSecuritySession

\* A procedure starts secured if there is a session, but for those that drop it.
LEMMA CalmStart ==
    ASSUME NEW w, Ready(w), ~w.proc.timer, Calm(w)
    PROVE  LET u == StartProcedure(w)
               stays == w.session.active /\ ~DropsSecuritySession(w.proc.char)
           IN /\ Calm(u) /\ u.gap = w.gap
              /\ u.session.active = stays /\ u.proc.startedSecured = stays
<1> DEFINE f == FALSE
           e == SessionInvalidate(w, f)
           o == IF IsSecured(w) /\ DropsSecuritySession(w.proc.char)
                THEN Reset(SessionInvalidate(w, FALSE)) ELSE w
           s == IsSecured(o)
           p == [o.proc EXCEPT !.startedSecured = s, !.timer = TRUE]
           x == WithProc(o, p)
           u == DidStartBLEProcedure(x)
           stays == w.session.active /\ ~DropsSecuritySession(w.proc.char)
<1>0. /\ w \in Worlds /\ w.proc.char \in Chars
      /\ w.session.active \in BOOLEAN /\ DropsSecuritySession(w.proc.char) \in BOOLEAN
  BY ReadyFields
<1>1. /\ o \in Worlds /\ Calm(o) /\ o.gap = w.gap /\ o.session.active = stays
  <2>1. CASE ~(IsSecured(w) /\ DropsSecuritySession(w.proc.char))
    <3>1. o = w
      BY <2>1
    <3> HIDE DEF o
    <3> QED
      BY <1>0, <2>1, <3>1 DEF Calm
  <2>2. CASE IsSecured(w) /\ DropsSecuritySession(w.proc.char)
    <3>1. o = Reset(e)
      BY <2>2
    <3>2. f \in BOOLEAN /\ ~f
      OBVIOUS
    <3> HIDE DEF f, o
    <3>3. /\ Ended(w, e) /\ e.session.terminal = (w.session.terminal \/ f)
          /\ e.link = w.link
      BY <1>0, <3>2, InvalidateFields
    <3> HIDE DEF e
    <3>4. /\ e \in Worlds /\ e.proc = w.proc /\ e.gap = w.gap /\ e.running = w.running
          /\ ~e.session.active /\ e.session.linkTimer = "Off" /\ ~e.session.terminal
      BY <3>2, <3>3 DEF Ended, SameTalk, SameHouse, Calm
    <3>5. o = WithProc(e, Idle(w.proc.char)) /\ Idle(w.proc.char) \in Procs
      BY <1>0, <3>1, <3>4, AttachFields, IdleFields DEF Reset
    <3>6. /\ o \in Worlds /\ o.session = e.session /\ o.link = e.link
          /\ SameAround(e, o) /\ Continued(e, o)
      BY <3>4, <3>5, WithProcFields
    <3>7. /\ o.gap = e.gap /\ o.running = e.running /\ o.pairing = w.pairing
          /\ Proves(w, e.session)
      BY <3>3, <3>6 DEF Continued, Ended, SameAround, SameHouse
    <3>8. e.session.active = FALSE /\ stays = FALSE
      BY <1>0, <2>2, <3>4, WorldFields DEF SessionStates
    <3> HIDE DEF stays
    <3> QED
      BY <3>3, <3>4, <3>6, <3>7, <3>8 DEF Calm, Proves
  <2> QED
    BY <2>1, <2>2
<1>2. StartProcedure(w) = u
  <2>1. StartProcedure(w) = DidStartBLEProcedure(
           [o EXCEPT !.proc.startedSecured = IsSecured(o), !.proc.timer = TRUE])
    BY DEF StartProcedure
  <2> HIDE DEF o
  <2>2. [o EXCEPT !.proc.startedSecured = s, !.proc.timer = TRUE] = x
    BY <1>1 DEF WithProc, Worlds
  <2> QED
    BY <2>1, <2>2
<1> HIDE DEF o
<1>3. s \in BOOLEAN /\ s = stays
  BY <1>1, SecuredType DEF Calm, IsSecured
<1> HIDE DEF s
<1>4. /\ p \in Procs /\ p.startedSecured = s
  BY <1>1, <1>3, WorldFields DEF Procs
<1> HIDE DEF p
<1>5. /\ x \in Worlds /\ x.proc = p /\ x.session = o.session /\ x.link = o.link
      /\ SameAround(o, x) /\ Continued(o, x)
  BY <1>1, <1>4, WithProcFields
<1>6. x.gap = o.gap /\ x.running = o.running /\ x.pairing = o.pairing
  BY <1>5 DEF Continued, SameAround, SameHouse
<1> HIDE DEF x
<1>7. /\ Turned(x, u) /\ SameSession(x.session, u.session) /\ u.gap = x.gap
      /\ ~x.session.terminal =>
             u.session.linkTimer = IF IsSecured(x) THEN "On" ELSE "Off"
  BY <1>5, DidStartFields
<1> HIDE DEF u
<1>8. /\ u.proc = p /\ u.link = x.link /\ u.running = x.running /\ u.pairing = x.pairing
      /\ Proves(x, u.session)
  BY <1>5, <1>7 DEF Turned, SameTalk, SameHouse
<1>9. Calm(u)
  BY <1>1, <1>5, <1>6, <1>7, <1>8 DEF Calm, SameSession, IsSecured, Proves
<1> QED
  BY <1>1, <1>2, <1>3, <1>4, <1>5, <1>6, <1>7, <1>8, <1>9 DEF SameSession

\* How a message is sealed for a reader that decrypts, or does not, and how far the
\* nonces of its two ends are apart when it arrives.
SealFor(s) == IF s THEN "Next" ELSE "None"
Arriving(s) == [in |-> IF s THEN 1 ELSE 0, out |-> 0]

LEMMA ArrivingOpens ==
    ASSUME NEW w \in Worlds, NEW s \in BOOLEAN, w.gap = Arriving(s)
    PROVE  /\ s => Opens(w, SealFor(s)) /\ [w.gap EXCEPT !.in = 0] = InStep
           /\ ~s => w.gap = InStep
BY DEF Arriving, Opens, SealFor, InStep

LEMMA OpensWell ==
    ASSUME NEW w \in Worlds, ~Failed(w), NEW s \in BOOLEAN, s => w.session.active,
           w.gap = Arriving(s), NEW seal, seal = SealFor(s),
           NEW o, o = IF s THEN Decrypt(w, seal) ELSE w
    PROVE  /\ o \in Worlds /\ ~Failed(o) /\ o.session = w.session /\ o.gap = InStep
           /\ o.proc = w.proc /\ o.link = w.link /\ o.running = w.running
           /\ o.pairing = w.pairing /\ o.attr = w.attr /\ o.call = w.call
<1>1. /\ s => Opens(w, SealFor(s)) /\ [w.gap EXCEPT !.in = 0] = InStep
      /\ ~s => w.gap = InStep
  BY ArrivingOpens
<1>2. CASE s
  <2> DEFINE d == Decrypt(w, seal)
  <2>1. o = d
    BY <1>2
  <2>2. /\ Turned(w, d)
        /\ \/ Failed(d)
           \/ /\ d.session = w.session /\ d.call = w.call /\ ~Failed(d)
              /\ w.session.active /\ seal = "Next" /\ w.gap.in = 1
              /\ d.gap = [w.gap EXCEPT !.in = 0]
        /\ w.session.active /\ Opens(w, seal) => ~Failed(d)
    BY DecryptFields
  <2> HIDE DEF d
  <2>3. /\ ~Failed(d) /\ d.session = w.session /\ d.gap = InStep /\ d.call = w.call
    BY <1>1, <1>2, <2>2
  <2> QED
    BY <2>1, <2>2, <2>3 DEF Turned, SameTalk, SameHouse
<1>3. CASE ~s
  BY <1>1, <1>3
<1> QED
  BY <1>2, <1>3

\* What a procedure that has started does with a message.
OpenedBy(w, seal) == IF w.proc.startedSecured THEN Decrypt(w, seal) ELSE w
TakenIn(o, m, seal) ==
    WithTxn(o, HandleWrite(o.proc.txn, IF o.proc.startedSecured THEN m ELSE InTheOpen(m, seal)))
AcceptsTaken(o, x) ==
    IF Failed(o) THEN o
    ELSE IF x.proc.txn.err # "None" THEN Error(x, x.proc.txn.err) ELSE DidSendGATTResponse(x)
Accepts(w, m, seal) ==
    AcceptsTaken(OpenedBy(w, seal), TakenIn(OpenedBy(w, seal), m, seal))

LEMMA GATTWriteAccepts ==
    ASSUME NEW w, NEW m, NEW seal
    PROVE  HandleGATTWrite(w, m, seal) =
               IF w.session.terminal \/ (~IsInProgress(w) /\ IsTerminalSoon(w))
               THEN Error(w, "InvalidState")
               ELSE Accepts(IF IsInProgress(w) THEN w ELSE StartProcedure(w), m, seal)
BY DEF HandleGATTWrite, Accepts, AcceptsTaken, OpenedBy, TakenIn, WithTxn

LEMMA CalmTakes ==
    ASSUME NEW w, Ready(w), w.proc.timer, Calm(w), NEW m \in Messages,
           Awaited(w.proc.txn, m), w.proc.startedSecured => w.session.active,
           NEW seal, seal = SealFor(w.proc.startedSecured),
           w.gap = Arriving(w.proc.startedSecured)
    PROVE  LET u == Accepts(w, m, seal)
           IN /\ ~Failed(u) /\ Calm(u) /\ u.gap = InStep
              /\ u.session.active = w.session.active
              /\ u.proc.startedSecured = w.proc.startedSecured
<1> DEFINE s == w.proc.startedSecured
           o == OpenedBy(w, seal)
           n == IF o.proc.startedSecured THEN m ELSE InTheOpen(m, seal)
           x == TakenIn(o, m, seal)
           r == HandleWrite(w.proc.txn, m)
           v == Accepts(w, m, seal)
           u == DidSendGATTResponse(x)
<1>1. w \in Worlds /\ ~Failed(w) /\ w.proc \in Procs /\ s \in BOOLEAN
  BY ReadyFields, ProcFields
<1>3. /\ o \in Worlds /\ ~Failed(o) /\ o.session = w.session /\ o.gap = InStep
      /\ o.proc = w.proc /\ o.link = w.link /\ o.running = w.running
      /\ o.pairing = w.pairing
  BY <1>1, OpensWell DEF OpenedBy
<1>4. n = m
  BY <1>1, <1>3 DEF InTheOpen, SealFor
<1>5. /\ r \in Txns /\ r.err = "None"
  BY ReadyFields, HandleWriteFields
<1>6. x = WithTxn(o, r)
  BY <1>3, <1>4 DEF TakenIn
<1> HIDE DEF r, x, o, n
<1>7. /\ x \in Worlds /\ x.proc.txn = r /\ ~Failed(x)
      /\ x.session = o.session /\ x.link = o.link /\ x.gap = o.gap
      /\ x.running = o.running /\ x.pairing = o.pairing
      /\ x.proc.startedSecured = o.proc.startedSecured
  <2> DEFINE p == [o.proc EXCEPT !.txn = r]
  <2>1. p \in Procs /\ x = WithProc(o, p) /\ x.proc.txn = r
        /\ x.proc.startedSecured = o.proc.startedSecured
    BY <1>3, <1>5, <1>6, WithTxnFields
  <2> HIDE DEF p
  <2>2. /\ x \in Worlds /\ SameAround(o, x) /\ Continued(o, x)
        /\ x.call = o.call /\ x.session = o.session /\ x.link = o.link
    BY <1>3, <2>1, WithProcFields
  <2> QED
    BY <1>3, <2>1, <2>2 DEF SameAround, SameHouse, Continued, Failed
<1>8. v = u
  BY <1>3, <1>5, <1>7 DEF Accepts, AcceptsTaken, o, x
<1>9. /\ Turned(x, u) /\ SameSession(x.session, u.session)
      /\ u.session.linkTimer = x.session.linkTimer
      /\ u.gap = x.gap /\ u.call = x.call
  BY <1>7, DidSendFields
<1> HIDE DEF u, v
<1>10. /\ u.link = x.link /\ u.running = x.running /\ u.pairing = x.pairing
       /\ u.proc = x.proc /\ Proves(x, u.session)
  BY <1>9 DEF Turned, SameTalk, SameHouse
<1>11. Calm(u)
  BY <1>3, <1>7, <1>9, <1>10 DEF Calm, SameSession, IsSecured, Proves
<1>12. /\ ~Failed(u) /\ Calm(u) /\ u.gap = InStep
       /\ u.session.active = w.session.active
       /\ u.proc.startedSecured = w.proc.startedSecured
  BY <1>3, <1>7, <1>9, <1>10, <1>11 DEF SameSession, Failed
<1> QED
  BY <1>8, <1>12 DEF v

\* A message that its procedure waits for, sealed as it expects.
Expected(w, m, s) ==
    /\ s = IF w.proc.timer THEN w.proc.startedSecured
           ELSE w.session.active /\ ~DropsSecuritySession(w.proc.char)
    /\ w.proc.timer /\ w.proc.startedSecured => w.session.active
    /\ IF w.proc.timer THEN Awaited(w.proc.txn, m) ELSE IsRequest(m)
    /\ w.gap = Arriving(s)

LEMMA CalmGATTWrite ==
    ASSUME NEW w, Ready(w), Calm(w), NEW m \in Messages, NEW s \in BOOLEAN,
           Expected(w, m, s)
    PROVE  LET u == HandleGATTWrite(w, m, SealFor(s))
           IN /\ ~Failed(u) /\ Calm(u) /\ u.gap = InStep
              /\ u.session.active = IF w.proc.timer THEN w.session.active ELSE s
              /\ u.proc.startedSecured = s
<1> DEFINE seal == SealFor(s)
           x == IF IsInProgress(w) THEN w ELSE StartProcedure(w)
           v == Accepts(x, m, seal)
           u == HandleGATTWrite(w, m, seal)
<1>1. u = v
  BY GATTWriteAccepts DEF Calm, IsTerminalSoon
<1>2. /\ Ready(x) /\ Calm(x) /\ x.gap = w.gap /\ x.proc.timer
      /\ x.session.active = IF w.proc.timer THEN w.session.active ELSE s
      /\ x.proc.startedSecured = s /\ Awaited(x.proc.txn, m)
  <2>1. CASE w.proc.timer
    <3>1. x = w
      BY <2>1 DEF IsInProgress
    <3> HIDE DEF x
    <3> QED
      BY <2>1, <3>1 DEF Expected
  <2>2. CASE ~w.proc.timer
    <3> DEFINE y == StartProcedure(w)
    <3>1. x = y
      BY <2>2 DEF IsInProgress
    <3>2. /\ Ready(y) /\ y.proc.timer /\ y.proc.txn.state = "WaitingForInitialWrite"
      BY <2>2, StartProcedureFields
    <3>3. /\ Calm(y) /\ y.gap = w.gap
          /\ y.session.active = (w.session.active /\ ~DropsSecuritySession(w.proc.char))
          /\ y.proc.startedSecured = (w.session.active /\ ~DropsSecuritySession(w.proc.char))
      BY <2>2, CalmStart
    <3> HIDE DEF x, y
    <3> QED
      BY <2>2, <3>1, <3>2, <3>3 DEF Expected, Awaited
  <2> QED
    BY <2>1, <2>2
<1> HIDE DEF x
<1>3. seal = SealFor(x.proc.startedSecured) /\ x.gap = Arriving(x.proc.startedSecured)
  BY <1>2 DEF Expected
<1>4. x.proc.startedSecured => x.session.active
  BY <1>2 DEF Expected
<1> HIDE DEF seal, u
<1>5. /\ ~Failed(v) /\ Calm(v) /\ v.gap = InStep
      /\ v.session.active = x.session.active
      /\ v.proc.startedSecured = x.proc.startedSecured
  BY <1>2, <1>3, <1>4, CalmTakes
<1> HIDE DEF v
<1> QED
  BY <1>1, <1>2, <1>5 DEF u, seal


-----------------------------------------------------------------------------
(* The procedure that a request meets.                                     *)

LEMMA CalmAlike ==
    ASSUME NEW w, Calm(w), NEW u, SameSession(w.session, u.session),
           u.session.linkTimer # "Late", u.link.cancelled = w.link.cancelled, SameHouse(w, u)
    PROVE  Calm(u)
BY DEF Calm, SameSession, SameHouse, Proves, IsSecured

LEMMA CalmSettled ==
    ASSUME NEW w, Going(w), NEW c \in Chars, NEW s, s = Settled(w, c)
    PROVE  /\ Going(s) /\ s \in Worlds /\ SameHouse(w, s)
           /\ s.session = w.session /\ s.link = w.link /\ s.proc = w.proc
           /\ s.gap = w.gap /\ s.call = w.call
           /\ IF DropsSecuritySession(c) THEN \A d \in Chars : ~s.attr[d].fallback.timer
              ELSE s = w
<1>1. w \in Worlds /\ Settles(w, s) /\ Going(s) /\ s \in Worlds
  BY SettledFields DEF Going
<1>2. DropsSecuritySession(c) => s = AbortAllFallbackProcedures(w)
  BY DEF Settled
<1>3. ~DropsSecuritySession(c) => s = w
  BY DEF Settled
<1>4. DropsSecuritySession(c) => s.gap = w.gap
  BY <1>1, <1>2 DEF AbortAllFallbackProcedures, Worlds
<1>5. DropsSecuritySession(c) => \A d \in Chars : ~s.attr[d].fallback.timer
  BY <1>1, <1>2, AbortFields, NoFallbackFields
<1> QED
  BY <1>1, <1>3, <1>4, <1>5 DEF Settles, Outlived

\* What a good request changes before its procedure has it.
Entered(w, c, u) ==
    /\ u \in Worlds /\ ~Failed(u) /\ Calm(u) /\ u.gap = w.gap
    /\ u.session.active = w.session.active /\ u.pairing = w.pairing
    /\ IF DropsSecuritySession(c) THEN \A d \in Chars : ~u.attr[d].fallback.timer
       ELSE \A d \in Chars \ {c} : u.attr[d].fallback = w.attr[d].fallback

LEMMA UsesEnters ==
    ASSUME NEW w, Going(w), Calm(w), NEW c \in Chars, NEW s, s = Settled(w, c),
           NEW procedure \in {"Full", "Fallback"}, NEW new \in BOOLEAN,
           NEW u, u = Uses(s, procedure, new)
    PROVE  /\ Entered(w, c, u) /\ u.proc = w.proc /\ u.attr = s.attr
           /\ u.call.procedure = procedure /\ u.call.new = new
<1>1. /\ Going(s) /\ s \in Worlds /\ SameHouse(w, s)
      /\ s.session = w.session /\ s.link = w.link /\ s.proc = w.proc
      /\ s.gap = w.gap /\ s.call = w.call
      /\ IF DropsSecuritySession(c) THEN \A d \in Chars : ~s.attr[d].fallback.timer
         ELSE s = w
  BY CalmSettled
<1>2. /\ Outlived(s, u) /\ u.session = s.session /\ u.proc = s.proc
      /\ u.attr = s.attr /\ u.link = s.link /\ u.gap = s.gap /\ u.pairing = s.pairing
      /\ u.call.procedure = procedure /\ u.call.new = new /\ Failed(u) = Failed(s)
  BY <1>1, UsesFields
<1>3. Calm(u)
  <2>1. w.session \in SessionStates
    BY WorldFields DEF Going
  <2>2. SameSession(w.session, u.session) /\ u.session.linkTimer # "Late"
    BY <1>1, <1>2, <2>1 DEF SameSession, Calm
  <2>3. SameHouse(w, u)
    BY <1>1, <1>2 DEF SameHouse, Outlived
  <2> QED
    BY <1>1, <1>2, <2>2, <2>3, CalmAlike
<1>4. ~Failed(u) /\ u \in Worlds /\ u.pairing = w.pairing
  BY <1>1, <1>2 DEF Going, Outlived, SameHouse
<1> QED
  BY <1>1, <1>2, <1>3, <1>4 DEF Entered

LEMMA StartFallbackEnters ==
    ASSUME NEW w, Going(w), Calm(w), NEW c \in Chars, ~DropsSecuritySession(c),
           NEW u, u = StartFallback(w, c), FallbackAt(w, c, u), ~Failed(u)
    PROVE  Entered(w, c, u) /\ u.proc = w.proc /\ u.call.procedure = "Fallback" /\ u.call.new
<1> DEFINE g == [w.attr[c].fallback EXCEPT !.timer = TRUE]
           b == [w.attr[c] EXCEPT !.fallback = g]
           x == WithAttr(w, [w.attr EXCEPT ![c] = b])
           p == "Fallback"
           n == TRUE
           y == Uses(x, p, n)
<1>1. w \in Worlds
  BY DEF Going
<1>2. g \in FallbackStates
  <2>1. w.attr[c] \in Attrs
    BY <1>1, WorldFields
  <2>2. w.attr[c].fallback \in FallbackStates
    BY <2>1 DEF Attrs
  <2> QED
    BY <2>2 DEF FallbackStates
<1>3. u = DidStartBLEProcedure(y)
  <2>1. [w EXCEPT !.attr[c].fallback.timer = TRUE] = x
    BY <1>1, WorldFields DEF WithAttr
  <2> HIDE DEF x
  <2> QED
    BY <2>1 DEF StartFallback
<1> HIDE DEF g
<1>4. /\ Outlived(w, x) /\ x.session = w.session /\ x.gap = w.gap /\ x.link = w.link
      /\ x.call = w.call
  BY <1>1, <1>2, WithFallbackFields
<1> HIDE DEF x
<1>5. x \in Worlds /\ p \in {"Full", "Fallback"} /\ p = "Fallback" /\ n \in BOOLEAN /\ n
  BY <1>4 DEF Outlived
<1> HIDE DEF p, n
<1>6. /\ Outlived(x, y) /\ y.session = x.session /\ y.gap = x.gap /\ y.link = x.link
      /\ y.call.procedure = p /\ y.call.new = n
  BY <1>5, UsesFields
<1> HIDE DEF y
<1>7. y \in Worlds
  BY <1>6 DEF Outlived
<1>8. /\ Turned(y, u) /\ SameSession(y.session, u.session)
      /\ ~y.session.terminal =>
             u.session.linkTimer = IF IsSecured(y) THEN "On" ELSE "Off"
      /\ u.call = y.call /\ u.gap = y.gap
  BY <1>3, <1>7, DidStartFields
<1>9. SameHouse(w, u) /\ u.link = w.link
  BY <1>4, <1>6, <1>8 DEF Outlived, Turned, SameHouse, Proves
<1>10. Calm(u)
  <2>1. SameSession(w.session, u.session) /\ u.session.linkTimer # "Late"
    BY <1>4, <1>6, <1>8 DEF Calm
  <2> QED
    BY <1>9, <2>1, CalmAlike
<1>11. /\ u.gap = w.gap /\ u.session.active = w.session.active /\ u.pairing = w.pairing
       /\ u \in Worlds
  BY <1>4, <1>6, <1>8, <1>9 DEF SameSession, SameHouse, Turned
<1> QED
  BY <1>5, <1>6, <1>8, <1>10, <1>11 DEF Entered, FallbackAt

\* A procedure of the storage that a request starts on c.
Fits(w, c) == ~w.proc.timer \/ DropsSecuritySession(c)

LEMMA CalmAttach ==
    ASSUME NEW w, Going(w), Calm(w), NEW c \in Chars,
           w.attr[c].fallback.timer => ~DropsSecuritySession(c),
           NEW u, u = AttachProcedure(w, c)
    PROVE  /\ Entered(w, c, u)
           /\ \/ /\ w.attr[c].fallback.timer
                 /\ FallbackAt(w, c, u) /\ ~u.call.new /\ u.attr = w.attr
              \/ /\ ~w.attr[c].fallback.timer /\ w.proc.char = c
                 /\ FullAt(w, c, u) /\ u.proc = w.proc
              \/ /\ ~w.attr[c].fallback.timer /\ w.proc.char # c /\ ~Fits(w, c)
                 /\ FallbackAt(w, c, u) /\ u.call.new
              \/ /\ ~w.attr[c].fallback.timer /\ w.proc.char # c /\ Fits(w, c)
                 /\ FullAt(w, c, u) /\ u.proc = Idle(c)
<1> DEFINE s == Settled(w, c)
           f == FALSE
           n == TRUE
<1>1. w \in Worlds /\ ~w.session.terminal /\ f \in BOOLEAN /\ ~f /\ n \in BOOLEAN /\ n
  BY DEF Going
<1> HIDE DEF f, n
<1>2. u = IF s.attr[c].fallback.timer THEN Uses(s, "Fallback", f)
          ELSE IF s.proc.char = c THEN Uses(s, "Full", f)
          ELSE IF IsInProgress(s) /\ ~DropsSecuritySession(c) THEN StartFallback(s, c)
          ELSE Uses(Attach(s, c), "Full", n)
  BY <1>1 DEF AttachProcedure, Calm, f, n
<1>3. /\ Going(s) /\ s \in Worlds /\ SameHouse(w, s)
      /\ s.session = w.session /\ s.link = w.link /\ s.proc = w.proc
      /\ s.gap = w.gap /\ s.call = w.call
      /\ IF DropsSecuritySession(c) THEN \A d \in Chars : ~s.attr[d].fallback.timer
         ELSE s = w
  BY CalmSettled
<1>4. s.attr[c].fallback.timer = w.attr[c].fallback.timer \/ DropsSecuritySession(c)
  BY <1>3
<1>5. Settles(w, s)
  BY SettledFields
<1>6. \/ Failed(u)
      \/ FullAt(w, c, u)
      \/ FallbackAt(w, c, u)
  BY AttachProcedureFields DEF Refused
<1> HIDE DEF s
<1>7. CASE s.attr[c].fallback.timer
  <2>1. u = Uses(w, "Fallback", f) /\ s = w /\ w.attr[c].fallback.timer
    BY <1>2, <1>3, <1>7
  <2>2. /\ Entered(w, c, u) /\ u.attr = w.attr
        /\ u.call.procedure = "Fallback" /\ u.call.new = f
    BY <1>1, <2>1, UsesEnters DEF s
  <2>3. FallbackAt(w, c, u)
    BY <1>6, <2>2 DEF Entered, FullAt
  <2> QED
    BY <1>1, <2>1, <2>2, <2>3
<1>8. CASE ~s.attr[c].fallback.timer /\ s.proc.char = c
  <2>1. u = Uses(s, "Full", f) /\ w.proc.char = c /\ ~w.attr[c].fallback.timer
    BY <1>2, <1>3, <1>8
  <2>2. /\ Entered(w, c, u) /\ u.proc = w.proc /\ u.call.procedure = "Full"
    BY <1>1, <2>1, UsesEnters DEF s
  <2>3. FullAt(w, c, u)
    BY <1>6, <2>2 DEF Entered, FallbackAt
  <2> QED
    BY <2>1, <2>2, <2>3
<1>9. CASE /\ ~s.attr[c].fallback.timer /\ s.proc.char # c
           /\ IsInProgress(s) /\ ~DropsSecuritySession(c)
  <2>1. /\ u = StartFallback(w, c) /\ s = w /\ w.proc.char # c
        /\ ~w.attr[c].fallback.timer /\ w.proc.timer
    BY <1>2, <1>3, <1>9 DEF IsInProgress
  <2>2. FallbackAt(w, c, u) /\ ~Failed(u)
    BY <1>9, <2>1, StartFallbackFields
  <2>3. Entered(w, c, u) /\ u.call.new
    BY <1>9, <2>1, <2>2, StartFallbackEnters
  <2> QED
    BY <1>9, <2>1, <2>2, <2>3 DEF Fits
<1>10. CASE /\ ~s.attr[c].fallback.timer /\ s.proc.char # c
            /\ ~(IsInProgress(s) /\ ~DropsSecuritySession(c))
  <2> DEFINE a == Attach(s, c)
             p == "Full"
  <2>1. u = Uses(a, p, n) /\ p \in {"Full", "Fallback"} /\ p = "Full"
    BY <1>2, <1>10
  <2> HIDE DEF p
  <2>2. c \in Chars \cup {NotAttached}
    OBVIOUS
  <2>3. /\ a = WithProc(s, Idle(c)) /\ Idle(c) \in Procs
        /\ a \in Worlds /\ a.proc = Idle(c)
        /\ Stayed(s, a) /\ Lived(s, a)
        /\ a.call = s.call /\ a.session = s.session
    BY <1>3, <2>2, AttachFields, IdleFields
  <2>4. a.attr = s.attr /\ a.link = s.link /\ a.pairing = s.pairing /\ SameHouse(s, a)
    BY <2>3 DEF Stayed, Lived, SameHouse
  <2>5. a.gap = s.gap
    BY <1>3, <2>3, WithProcFields DEF Continued
  <2> HIDE DEF a
  <2>6. /\ Outlived(a, u) /\ u.session = a.session /\ u.proc = a.proc
        /\ u.attr = a.attr /\ u.link = a.link /\ u.gap = a.gap /\ u.pairing = a.pairing
        /\ u.call.procedure = p /\ Failed(u) = Failed(a)
    <3>1. a \in Worlds
      BY <2>3
    <3> DEFINE v == Uses(a, p, n)
    <3>2. /\ Outlived(a, v) /\ v.session = a.session /\ v.proc = a.proc
          /\ v.attr = a.attr /\ v.link = a.link /\ v.gap = a.gap /\ v.pairing = a.pairing
          /\ v.call.procedure = p /\ Failed(v) = Failed(a)
      BY <1>1, <2>1, <3>1, UsesFields
    <3>3. u = v
      BY <2>1
    <3> HIDE DEF v
    <3> QED
      BY <3>2, <3>3
  <2>7. ~Failed(u) /\ u \in Worlds /\ SameHouse(w, u)
    BY <1>3, <2>3, <2>4, <2>6 DEF Failed, Going, Outlived, SameHouse
  <2>8. Calm(u)
    <3>1. w.session \in SessionStates
      BY <1>1, WorldFields
    <3>2. SameSession(w.session, u.session) /\ u.session.linkTimer # "Late"
      BY <1>3, <2>3, <2>6, <3>1 DEF SameSession, Calm
    <3> QED
      BY <1>3, <2>4, <2>6, <2>7, <3>2, CalmAlike
  <2>9. u.pairing = w.pairing /\ u.gap = w.gap /\ u.session.active = w.session.active
    BY <1>3, <2>3, <2>4, <2>5, <2>6, <2>7 DEF SameHouse
  <2>10. Entered(w, c, u)
    BY <1>3, <2>4, <2>6, <2>7, <2>8, <2>9 DEF Entered
  <2>11. FullAt(w, c, u)
    BY <1>6, <2>1, <2>6, <2>7 DEF FallbackAt
  <2>12. ~w.attr[c].fallback.timer /\ w.proc.char # c /\ Fits(w, c)
    BY <1>3, <1>10 DEF Fits, IsInProgress
  <2> QED
    BY <2>3, <2>6, <2>10, <2>11, <2>12
<1> QED
  BY <1>7, <1>8, <1>9, <1>10

LEMMA CalmGet ==
    ASSUME NEW w, Going(w), Calm(w), NEW c \in Chars,
           w.attr[c].fallback.timer => ~DropsSecuritySession(c),
           w.attr[c].fallback.timer \/ w.proc.char = c,
           NEW u, u = GetProcedure(w, c)
    PROVE  /\ Entered(w, c, u) /\ u.proc = w.proc
           /\ IF w.attr[c].fallback.timer
              THEN FallbackAt(w, c, u) /\ ~u.call.new /\ u.attr = w.attr
              ELSE FullAt(w, c, u)
<1> DEFINE s == Settled(w, c)
           f == FALSE
<1>1. w \in Worlds /\ ~w.session.terminal /\ f \in BOOLEAN /\ ~f
  BY DEF Going
<1> HIDE DEF f
<1>2. u = IF s.attr[c].fallback.timer THEN Uses(s, "Fallback", f)
          ELSE IF s.proc.char = c THEN Uses(s, "Full", f)
          ELSE Error(s, "InvalidState")
  BY <1>1 DEF GetProcedure, f
<1>3. /\ s.proc = w.proc
      /\ IF DropsSecuritySession(c) THEN \A d \in Chars : ~s.attr[d].fallback.timer
         ELSE s = w
  BY CalmSettled
<1>4. \/ Failed(u)
      \/ FullAt(w, c, u)
      \/ FallbackAt(w, c, u)
  BY GetProcedureFields DEF Refused
<1> HIDE DEF s
<1>5. CASE w.attr[c].fallback.timer
  <2>1. u = Uses(w, "Fallback", f) /\ s = w
    BY <1>2, <1>3, <1>5
  <2>2. /\ Entered(w, c, u) /\ u.attr = w.attr /\ u.proc = w.proc
        /\ u.call.procedure = "Fallback" /\ u.call.new = f
    BY <1>1, <2>1, UsesEnters DEF s
  <2>3. FallbackAt(w, c, u)
    BY <1>4, <2>2 DEF Entered, FullAt
  <2> QED
    BY <1>1, <1>5, <2>2, <2>3
<1>6. CASE ~w.attr[c].fallback.timer
  <2>1. u = Uses(s, "Full", f)
    BY <1>2, <1>3, <1>6
  <2>2. /\ Entered(w, c, u) /\ u.proc = w.proc /\ u.call.procedure = "Full"
    BY <1>1, <2>1, UsesEnters DEF s
  <2>3. FullAt(w, c, u)
    BY <1>4, <2>2 DEF Entered, FallbackAt
  <2> QED
    BY <1>6, <2>2, <2>3
<1> QED
  BY <1>5, <1>6

-----------------------------------------------------------------------------
(* Fallback procedures.                                                    *)

Left(f, new, m) == (IF new THEN m.header.total ELSE f.remaining) - Len(m.chunk)
AwaitedAside(f, new, m) ==
    IF new THEN IsRequest(m) ELSE Continues(m, f.tid, f.remaining)

LEMMA TakesWell ==
    ASSUME NEW w \in Worlds, NEW c \in Chars, NEW m \in Messages,
           AwaitedAside(w.attr[c].fallback, w.call.new, m)
    PROVE  \E g \in FallbackStates :
               /\ g.remaining = Left(w.attr[c].fallback, w.call.new, m)
               /\ FallbackTakes(w, c, m) =
                      WithAttr(w, [w.attr EXCEPT ![c] = [w.attr[c] EXCEPT !.fallback = g]])
<1> DEFINE f == w.attr[c].fallback
           u == FallbackTakes(w, c, m)
           n == Len(m.chunk)
<1>1. f \in FallbackStates /\ f.remaining \in Nat /\ f.tid \in Nat
  <2>1. w.attr[c] \in Attrs
    BY WorldFields
  <2>2. f \in FallbackStates
    BY <2>1 DEF Attrs
  <2> HIDE DEF f
  <2> QED
    BY <2>2 DEF FallbackStates
<1>2. CASE w.call.new
  <2> DEFINE h == [timer |-> TRUE, tid |-> m.header.tid, status |-> FallbackStatus(m.header),
                   remaining |-> m.header.total - n]
  <2>1. IsRequest(m) /\ m.kind = "First" /\ n <= m.header.total
    BY <1>2 DEF IsRequest, AwaitedAside
  <2>2. m.header \in Headers /\ n \in Nat
    BY <2>1, MessageFields
  <2>3. m.header.total \in Nat /\ m.header.tid \in Nat
    BY <2>2 DEF Headers
  <2>4. m.header.total - n \in Nat
    BY <2>1, <2>2, <2>3
  <2>5. FallbackStatus(m.header) \in {"MaxProcedures", "InvalidInstanceID",
                                      "ZeroInstanceIDServiceSignatureRead"}
    BY DEF FallbackStatus
  <2>6. u = WithAttr(w, [w.attr EXCEPT ![c] = [w.attr[c] EXCEPT !.fallback = h]])
    BY <1>2, <2>1 DEF FallbackTakes, WithAttr
  <2>7. h.remaining = Left(f, w.call.new, m)
    BY <1>2 DEF Left
  <2>8. h \in FallbackStates
    <3> HIDE DEF n
    <3> QED
      BY <2>3, <2>4, <2>5 DEF FallbackStates
  <2> HIDE DEF h
  <2> QED
    BY <2>6, <2>7, <2>8
<1>3. CASE ~w.call.new
  <2> DEFINE h == [f EXCEPT !.remaining = f.remaining - n]
  <2>1. Continues(m, f.tid, f.remaining) /\ m.kind = "Continuation" /\ n <= f.remaining
    BY <1>3 DEF Continues, AwaitedAside
  <2>2. n \in Nat
    BY <2>1, MessageFields
  <2>3. f.remaining - n \in Nat
    BY <1>1, <2>1, <2>2
  <2>4. u = WithAttr(w, [w.attr EXCEPT ![c] = [w.attr[c] EXCEPT !.fallback = h]])
    BY <1>3, <2>1 DEF FallbackTakes, WithAttr
  <2>5. h.remaining = Left(f, w.call.new, m)
    <3>1. h.remaining = f.remaining - n
      BY <1>1 DEF FallbackStates
    <3> QED
      BY <1>3, <3>1 DEF Left
  <2>6. h \in FallbackStates
    <3> HIDE DEF n, f
    <3> QED
      BY <1>1, <2>3 DEF FallbackStates
  <2> HIDE DEF h
  <2> QED
    BY <2>4, <2>5, <2>6
<1> QED
  BY <1>2, <1>3

LEMMA CalmFallbackWrite ==
    ASSUME NEW w, Going(w), Calm(w), NEW c \in Chars, NEW m \in Messages,
           AwaitedAside(w.attr[c].fallback, w.call.new, m),
           w.gap = Arriving(w.session.active),
           NEW u, u = FallbackWrite(w, c, m, SealFor(w.session.active))
    PROVE  /\ ~Failed(u) /\ Calm(u) /\ u.gap = InStep /\ u.proc = w.proc
           /\ u.session.active = w.session.active
           /\ u.attr[c].fallback.remaining = Left(w.attr[c].fallback, w.call.new, m)
<1> DEFINE s == w.session.active
           seal == SealFor(s)
           o == IF s THEN Decrypt(w, seal) ELSE w
           t == FallbackTakes(o, c, m)
<1>1. w \in Worlds /\ ~Failed(w) /\ s \in BOOLEAN /\ IsSecured(w) = s
  BY WorldFields DEF Going, Calm, SessionStates, IsSecured
<1>2. u = IF Failed(o) THEN o ELSE IF Failed(t) THEN t ELSE DidSendGATTResponse(t)
  <2>1. m = IF IsSecured(w) THEN m ELSE InTheOpen(m, seal)
    BY <1>1 DEF InTheOpen, SealFor
  <2>2. o = IF IsSecured(w) THEN Decrypt(w, seal) ELSE w
    BY <1>1
  <2> HIDE DEF o
  <2> QED
    BY <2>1, <2>2 DEF FallbackWrite
<1>3. /\ o \in Worlds /\ ~Failed(o) /\ o.session = w.session /\ o.gap = InStep
      /\ o.proc = w.proc /\ o.link = w.link /\ o.running = w.running
      /\ o.pairing = w.pairing /\ o.attr = w.attr /\ o.call = w.call
  <2>1. seal = SealFor(s) /\ (s => w.session.active) /\ w.gap = Arriving(s)
    OBVIOUS
  <2> HIDE DEF s, seal
  <2> QED
    BY <1>1, <2>1, OpensWell
<1> HIDE DEF o
<1>4. PICK g \in FallbackStates :
          /\ g.remaining = Left(w.attr[c].fallback, w.call.new, m)
          /\ t = WithAttr(o, [o.attr EXCEPT ![c] = [o.attr[c] EXCEPT !.fallback = g]])
  <2>1. AwaitedAside(o.attr[c].fallback, o.call.new, m)
    BY <1>3
  <2>2. \E g \in FallbackStates :
            /\ g.remaining = Left(o.attr[c].fallback, o.call.new, m)
            /\ t = WithAttr(o, [o.attr EXCEPT ![c] = [o.attr[c] EXCEPT !.fallback = g]])
    BY <1>3, <2>1, TakesWell
  <2> HIDE DEF t
  <2> QED
    BY <1>3, <2>2
<1> HIDE DEF t
<1>5. /\ Outlived(o, t) /\ t.session = o.session /\ t.proc = o.proc
      /\ t.call = o.call /\ t.link = o.link /\ t.gap = o.gap
      /\ t.attr[c].fallback = g
  BY <1>3, <1>4, WithFallbackFields
<1>6. ~Failed(t) /\ t \in Worlds
  BY <1>3, <1>5 DEF Failed, Outlived
<1>7. u = DidSendGATTResponse(t)
  BY <1>2, <1>3, <1>6
<1>8. /\ Turned(t, u) /\ SameSession(t.session, u.session)
      /\ u.session.linkTimer = t.session.linkTimer
      /\ u.gap = t.gap /\ u.call = t.call
  BY <1>6, <1>7, DidSendFields
<1>9. /\ u.proc = t.proc /\ u.attr = t.attr /\ u.link = t.link /\ SameHouse(t, u)
  BY <1>8 DEF Turned, SameTalk
<1>10. SameHouse(w, u)
  BY <1>3, <1>5, <1>9 DEF Outlived, SameHouse, Proves
<1>11. Calm(u)
  <2>1. SameSession(w.session, u.session) /\ u.session.linkTimer # "Late"
    BY <1>3, <1>5, <1>8 DEF Calm
  <2> QED
    BY <1>3, <1>5, <1>9, <1>10, <2>1, CalmAlike
<1>12. u.session.active = w.session.active
  BY <1>3, <1>5, <1>8 DEF SameSession
<1> QED
  BY <1>3, <1>4, <1>5, <1>6, <1>8, <1>9, <1>11, <1>12 DEF Failed

\* How far the nonces are apart when a sealed response, or an open one, has left.
Leaving(s) == [in |-> 0, out |-> IF s THEN 1 ELSE 0]

LEMMA SealsWell ==
    ASSUME NEW w \in Worlds, ~Failed(w), NEW s \in BOOLEAN, s => w.session.active,
           w.gap = InStep, NEW o, o = IF s THEN Encrypt(w) ELSE w
    PROVE  /\ Turned(w, o) /\ ~Failed(o) /\ o.session = w.session /\ o.gap = Leaving(s)
           /\ o.call = w.call
<1>1. Leaving(FALSE) = InStep /\ [InStep EXCEPT !.out = Wider(InStep.out)] = Leaving(TRUE)
  BY DEF Leaving, InStep, Wider
<1>2. CASE s
  <2> DEFINE d == Encrypt(w)
  <2>1. o = d /\ s = TRUE
    BY <1>2
  <2>2. /\ Turned(w, d) /\ d.session = w.session
        /\ Failed(d) = ~w.session.active
        /\ w.session.active =>
               d.call = w.call /\ d.gap = [w.gap EXCEPT !.out = Wider(w.gap.out)]
    BY EncryptFields
  <2> HIDE DEF d
  <2> QED
    BY <1>1, <1>2, <2>1, <2>2
<1>3. CASE ~s
  <2>1. o = w /\ s = FALSE
    BY <1>3
  <2>2. Turned(w, w)
    BY DEF Turned, SameTalk, SameHouse, Proves
  <2> QED
    BY <1>1, <2>1, <2>2
<1> QED
  BY <1>2, <1>3

LEMMA CalmFallbackRead ==
    ASSUME NEW w, Going(w), Calm(w), NEW c \in Chars, w.gap = InStep,
           w.attr[c].fallback.remaining = 0,
           NEW u, u = FallbackRead(w, c, "Body")
    PROVE  /\ ~Failed(u) /\ Calm(u) /\ u.gap = Leaving(w.session.active) /\ u.proc = w.proc
           /\ u.session.active = w.session.active
<1> DEFINE s == w.session.active
           o == IF s THEN Encrypt(w) ELSE w
           t == [o EXCEPT !.attr[c].fallback = NoFallback]
<1>1. w \in Worlds /\ ~Failed(w) /\ s \in BOOLEAN /\ IsSecured(w) = s
  BY WorldFields DEF Going, Calm, SessionStates, IsSecured
<1>2. u = DidSendGATTResponse(t)
  <2>1. o = IF IsSecured(w) THEN Encrypt(w) ELSE w
    BY <1>1
  <2> HIDE DEF o
  <2> QED
    BY <2>1 DEF FallbackRead
<1>3. /\ Turned(w, o) /\ ~Failed(o) /\ o.session = w.session /\ o.gap = Leaving(s)
      /\ o.call = w.call
  <2>1. s => w.session.active
    OBVIOUS
  <2> HIDE DEF s
  <2> QED
    BY <1>1, <2>1, SealsWell
<1>4. t = WithAttr(o, [o.attr EXCEPT ![c] = [o.attr[c] EXCEPT !.fallback = NoFallback]])
  BY DEF WithAttr
<1> HIDE DEF o, t
<1>5. o \in Worlds /\ SameHouse(w, o) /\ o.proc = w.proc /\ o.link = w.link
  BY <1>3 DEF Turned, SameTalk
<1>6. /\ Outlived(o, t) /\ t.session = o.session /\ t.proc = o.proc
      /\ t.call = o.call /\ t.link = o.link /\ t.gap = o.gap
  BY <1>4, <1>5, NoFallbackFields, WithFallbackFields
<1>7. ~Failed(t) /\ t \in Worlds
  BY <1>3, <1>6 DEF Failed, Outlived
<1>8. /\ Turned(t, u) /\ SameSession(t.session, u.session)
      /\ u.session.linkTimer = t.session.linkTimer
      /\ u.gap = t.gap /\ u.call = t.call
  BY <1>2, <1>7, DidSendFields
<1>9. /\ u.proc = t.proc /\ u.link = t.link /\ SameHouse(t, u)
  BY <1>8 DEF Turned, SameTalk
<1>10. SameHouse(w, u)
  BY <1>5, <1>6, <1>9 DEF Outlived, SameHouse, Proves
<1>11. Calm(u)
  <2>1. SameSession(w.session, u.session) /\ u.session.linkTimer # "Late"
    BY <1>3, <1>6, <1>8 DEF Calm
  <2> QED
    BY <1>5, <1>6, <1>9, <1>10, <2>1, CalmAlike
<1>12. u.session.active = w.session.active
  BY <1>3, <1>6, <1>8 DEF SameSession
<1> QED
  BY <1>3, <1>5, <1>6, <1>7, <1>8, <1>9, <1>11, <1>12 DEF Failed

-----------------------------------------------------------------------------
(* Write requests.                                                         *)

\* Events that waited go, and change nothing else.
LEMMA CalmConcludes ==
    ASSUME NEW w \in Worlds, ~Failed(w), Calm(w), NEW u, u = Concluded(w)
    PROVE  /\ u \in Worlds /\ Calm(u) /\ u.gap = w.gap /\ u.session = w.session /\ u.proc = w.proc
           /\ u.pairing = w.pairing
           /\ \A d \in Chars : u.attr[d].fallback = w.attr[d].fallback
<1>1. u = SendPendingEventNotifications(w)
  BY DEF Concluded
<1>2. Indicated(w, u)
  BY <1>1, SendPendingFields
<1>3. w.session \in SessionStates
  BY WorldFields
<1>4. Calm(u)
  <2>1. SameSession(w.session, u.session) /\ u.session.linkTimer # "Late"
    BY <1>2, <1>3 DEF Calm, SameSession, Indicated
  <2> QED
    BY <1>2, <2>1, CalmAlike DEF Indicated
<1> QED
  BY <1>2, <1>4 DEF Indicated, SameTalk, SameHouse

\* A message for c goes to the procedure that goes on there, or to a fallback procedure.
GoesOn(w, c) == w.proc.char = c /\ w.proc.timer
GoesAside(w, c) == w.attr[c].fallback.timer \/ (w.proc.char # c /\ ~Fits(w, c))

\* The procedure awaits the message, sealed as it is.
Welcome(w, c, m, s) ==
    IF GoesAside(w, c)
    THEN /\ s = w.session.active
         /\ AwaitedAside(w.attr[c].fallback, ~w.attr[c].fallback.timer, m)
    ELSE /\ s = IF GoesOn(w, c) THEN w.proc.startedSecured
                ELSE w.session.active /\ ~DropsSecuritySession(c)
         /\ GoesOn(w, c) /\ w.proc.startedSecured => w.session.active
         /\ IF GoesOn(w, c) THEN Awaited(w.proc.txn, m) ELSE IsRequest(m)

Served(w, c, m, s, u) ==
    /\ Calm(u) /\ u.gap = InStep
    /\ DropsSecuritySession(c) => \A d \in Chars : ~u.attr[d].fallback.timer
    /\ IF GoesAside(w, c)
       THEN /\ u.session.active = w.session.active /\ u.proc = w.proc
            /\ u.attr[c].fallback.remaining =
                   Left(w.attr[c].fallback, ~w.attr[c].fallback.timer, m)
       ELSE /\ u.proc.startedSecured = s /\ ~u.attr[c].fallback.timer
            /\ u.session.active = IF GoesOn(w, c) THEN w.session.active ELSE s

LEMMA FullWriteServed ==
    ASSUME NEW w, Going(w), Calm(w), NEW c \in Chars, NEW m \in Messages, NEW s \in BOOLEAN,
           w.gap = Arriving(s), ~GoesAside(w, c), Welcome(w, c, m, s),
           NEW a, Entered(w, c, a), FullAt(w, c, a), ~a.attr[c].fallback.timer,
           IF w.proc.char = c THEN a.proc = w.proc ELSE a.proc = Idle(c),
           NEW u, u = Concluded(HandleGATTWrite(a, m, SealFor(s)))
    PROVE  Served(w, c, m, s, u)
<1> DEFINE x == HandleGATTWrite(a, m, SealFor(s))
<1>1. Ready(a) /\ a.proc.char = c /\ a \in Worlds
  BY DEF FullAt, Ready
<1>2. a.proc.timer = GoesOn(w, c)
  <2>1. ~Idle(c).timer /\ Idle(c) \in Procs
    BY IdleFields
  <2>2. a.proc.timer \in BOOLEAN /\ w.proc.timer \in BOOLEAN
    BY <1>1, WorldFields, ProcFields DEF Going
  <2> QED
    BY <2>1, <2>2 DEF GoesOn
<1>3. GoesOn(w, c) => a.proc = w.proc
  BY DEF GoesOn
<1>4. Expected(a, m, s)
  BY <1>1, <1>2, <1>3 DEF Welcome, Expected, Entered
<1>5. Calm(a)
  BY DEF Entered
<1>6. /\ ~Failed(x) /\ Calm(x) /\ x.gap = InStep
      /\ x.session.active = IF a.proc.timer THEN a.session.active ELSE s
      /\ x.proc.startedSecured = s
  BY <1>1, <1>4, <1>5, CalmGATTWrite
<1>7. Lived(a, x)
  <2> DEFINE seal == SealFor(s)
  <2>1. x = HandleGATTWrite(a, m, seal)
    OBVIOUS
  <2> HIDE DEF seal, x
  <2> QED
    BY <1>1, <2>1, GATTWriteFields
<1> HIDE DEF x
<1>8. x \in Worlds /\ \A d \in Chars : x.attr[d].fallback = a.attr[d].fallback
  BY <1>7 DEF Lived, SameAttr
<1>9. /\ Calm(u) /\ u.gap = x.gap /\ u.session = x.session /\ u.proc = x.proc
      /\ \A d \in Chars : u.attr[d].fallback = x.attr[d].fallback
  BY <1>6, <1>8, CalmConcludes DEF x
<1>10. u.session.active = IF GoesOn(w, c) THEN w.session.active ELSE s
  BY <1>2, <1>6, <1>9 DEF Entered
<1>11. DropsSecuritySession(c) => \A d \in Chars : ~u.attr[d].fallback.timer
  BY <1>8, <1>9 DEF Entered
<1>12. ~u.attr[c].fallback.timer
  BY <1>8, <1>9
<1> QED
  BY <1>6, <1>9, <1>10, <1>11, <1>12 DEF Served

LEMMA AsideWriteServed ==
    ASSUME NEW w, Going(w), Calm(w), NEW c \in Chars, NEW m \in Messages, NEW s \in BOOLEAN,
           w.gap = Arriving(s), GoesAside(w, c), Welcome(w, c, m, s),
           NEW a, Entered(w, c, a), FallbackAt(w, c, a),
           a.call.new = ~w.attr[c].fallback.timer,
           ~a.call.new => a.attr = w.attr,
           NEW u, u = Concluded(FallbackWrite(a, c, m, SealFor(s)))
    PROVE  Served(w, c, m, s, u)
<1> DEFINE x == FallbackWrite(a, c, m, SealFor(s))
<1>1. Going(a) /\ a \in Worlds /\ ~DropsSecuritySession(c) /\ a.proc = w.proc
  BY DEF FallbackAt, Going
<1>2. s = w.session.active /\ a.session.active = w.session.active /\ a.gap = w.gap /\ Calm(a)
  BY DEF Welcome, Entered
<1>3. Left(a.attr[c].fallback, a.call.new, m)
          = Left(w.attr[c].fallback, ~w.attr[c].fallback.timer, m)
  BY DEF Left
<1>4. AwaitedAside(a.attr[c].fallback, a.call.new, m)
  BY DEF AwaitedAside, Welcome
<1>5. a.gap = Arriving(a.session.active) /\ x = FallbackWrite(a, c, m, SealFor(a.session.active))
  BY <1>2
<1> HIDE DEF x
<1>6. /\ ~Failed(x) /\ Calm(x) /\ x.gap = InStep /\ x.proc = a.proc
      /\ x.session.active = a.session.active
      /\ x.attr[c].fallback.remaining = Left(a.attr[c].fallback, a.call.new, m)
  BY <1>1, <1>2, <1>4, <1>5, CalmFallbackWrite
<1>7. x \in Worlds
  <2>1. w \in Worlds /\ ~DropsSecuritySession(c)
    BY <1>1 DEF Going
  <2>2. w.proc.char # c
    BY DEF Going, ProceduresSound, GoesAside
  <2> DEFINE seal == SealFor(s)
  <2>3. x = FallbackWrite(a, c, m, seal)
    BY DEF x
  <2> HIDE DEF seal
  <2>4. Refused(w, x) \/ FallbackTook(w, c, m, x)
    BY <2>1, <2>2, <2>3, FallbackWriteFields
  <2> QED
    BY <2>4 DEF Refused, FallbackTook, Outlived
<1>8. /\ Calm(u) /\ u.gap = x.gap /\ u.session = x.session /\ u.proc = x.proc
      /\ \A d \in Chars : u.attr[d].fallback = x.attr[d].fallback
  BY <1>6, <1>7, CalmConcludes DEF x
<1> QED
  BY <1>1, <1>2, <1>3, <1>6, <1>8 DEF Served

LEMMA WriteRequestServed ==
    ASSUME NEW w, Going(w), Calm(w), NEW c \in Chars, NEW m \in Messages, NEW s \in BOOLEAN,
           w.attr[c].fallback.timer => ~DropsSecuritySession(c),
           w.gap = Arriving(s), Welcome(w, c, m, s),
           NEW u, u = HandleWriteRequest(w, c, m, SealFor(s))
    PROVE  Served(w, c, m, s, u)
<1> DEFINE a == AttachProcedure(w, c)
<1>1. /\ Entered(w, c, a)
      /\ \/ /\ w.attr[c].fallback.timer
            /\ FallbackAt(w, c, a) /\ ~a.call.new /\ a.attr = w.attr
         \/ /\ ~w.attr[c].fallback.timer /\ w.proc.char = c
            /\ FullAt(w, c, a) /\ a.proc = w.proc
         \/ /\ ~w.attr[c].fallback.timer /\ w.proc.char # c /\ ~Fits(w, c)
            /\ FallbackAt(w, c, a) /\ a.call.new
         \/ /\ ~w.attr[c].fallback.timer /\ w.proc.char # c /\ Fits(w, c)
            /\ FullAt(w, c, a) /\ a.proc = Idle(c)
  BY CalmAttach
<1>2. u = Concluded(IF a.call.procedure = "Full" THEN HandleGATTWrite(a, m, SealFor(s))
                    ELSE FallbackWrite(a, c, m, SealFor(s)))
  BY <1>1 DEF HandleWriteRequest, Entered
<1> HIDE DEF a
<1>3. a \in Worlds /\ a.call.new \in BOOLEAN
  BY <1>1, WorldFields DEF Entered, Calls
<1>4. w.attr[c].fallback.timer \in BOOLEAN
  <2>1. w.attr[c] \in Attrs
    BY WorldFields DEF Going
  <2> QED
    BY <2>1 DEF Attrs, FallbackStates
<1>5. CASE FullAt(w, c, a)
  <2>1. /\ ~GoesAside(w, c)
        /\ IF w.proc.char = c THEN a.proc = w.proc ELSE a.proc = Idle(c)
    BY <1>1, <1>5 DEF GoesAside, FullAt, FallbackAt
  <2>2. u = Concluded(HandleGATTWrite(a, m, SealFor(s)))
    BY <1>2, <1>5 DEF FullAt
  <2>3. ~a.attr[c].fallback.timer
    BY <1>5 DEF FullAt, Ready, ProceduresSound
  <2> QED
    BY <1>1, <1>5, <2>1, <2>2, <2>3, FullWriteServed
<1>6. CASE FallbackAt(w, c, a)
  <2>1. /\ GoesAside(w, c) /\ a.call.new = ~w.attr[c].fallback.timer
        /\ ~a.call.new => a.attr = w.attr
    BY <1>1, <1>3, <1>4, <1>6 DEF GoesAside, FullAt, FallbackAt
  <2>2. u = Concluded(FallbackWrite(a, c, m, SealFor(s)))
    BY <1>2, <1>6 DEF FallbackAt
  <2> QED
    BY <1>1, <1>6, <2>1, <2>2, AsideWriteServed
<1> QED
  BY <1>1, <1>5, <1>6

-----------------------------------------------------------------------------
(* Read requests.                                                          *)

LEMMA ProcessedCalm ==
    ASSUME NEW w, Ready(w), Calm(w), w.gap = InStep, NEW u, Processed(w, u)
    PROVE  /\ u \in Worlds /\ ~Failed(u) /\ Calm(u) /\ u.gap = InStep
           /\ u.session.active = w.session.active \/ DropsSecuritySession(w.proc.char)
           /\ TransactionSound(u.proc.txn) /\ u.proc.txn.state \in Responding
           /\ u.proc.startedSecured = w.proc.startedSecured
           /\ \A d \in Chars : u.attr[d].fallback = w.attr[d].fallback
<1>1. w \in Worlds /\ w.proc.char \in Chars
  BY ReadyFields
<1>2. /\ SameAround(w, u) /\ ~Failed(u) /\ Advanced(w, u)
      /\ TransactionSound(u.proc.txn) /\ u.proc.txn.state = "WaitingForInitialRead"
      /\ u.proc.startedSecured = w.proc.startedSecured
  BY DEF Processed, Responded
<1>3. /\ u \in Worlds /\ SameHouse(w, u) /\ u.link.cancelled = w.link.cancelled
      /\ u.session.terminal = w.session.terminal
      /\ \A d \in Chars : u.attr[d].fallback = w.attr[d].fallback
  BY <1>2 DEF SameAround, SameAttr
<1>4. u.proc.txn.state \in Responding
  BY <1>2 DEF Responding
<1>5. CASE Continued(w, u)
  <2>1. u.gap = InStep /\ u.session.active = w.session.active
    BY <1>5 DEF Continued, SameSession
  <2>2. Calm(u)
    <3>1. SameSession(w.session, u.session) /\ u.session.linkTimer # "Late"
      BY <1>5 DEF Continued, Calm
    <3> QED
      BY <1>3, <3>1, CalmAlike
  <2> QED
    BY <1>2, <1>3, <1>4, <2>1, <2>2
<1>6. CASE /\ DropsSecuritySession(w.proc.char)
           /\ Started(w, u, Db(w.proc.char).pairing)
  <2>1. Db(w.proc.char).pairing \in Exchanges
    BY <1>1, <1>6, PairingIsExchange
  <2>2. /\ u.gap = InStep /\ u.session.active
        /\ u.session.transient = (Db(w.proc.char).pairing = "PairSetup")
        /\ Db(w.proc.char).pairing = "PairVerify" => w.pairing.stored
        /\ u.session.linkTimer = w.session.linkTimer \/ u.session.linkTimer = "On"
    BY <1>6 DEF Started, Calm
  <2>3. IsSecured(u)
    BY <1>3, <2>1, <2>2 DEF Exchanges, IsSecured, SameHouse
  <2>4. Calm(u)
    BY <1>3, <2>2, <2>3 DEF Calm, SameHouse, Proves
  <2> QED
    BY <1>2, <1>3, <1>4, <1>6, <2>2, <2>4
<1> QED
  BY <1>2, <1>5, <1>6 DEF Advanced

LEMMA FragmentCalm ==
    ASSUME NEW w \in Worlds, ~Failed(w), Calm(w), w.gap = InStep,
           TransactionSound(w.proc.txn), w.proc.txn.state \in Responding,
           NEW s \in BOOLEAN, s => w.session.active, NEW room \in Nat,
           NEW u, u = ReadFragment(w, s, "Body", room)
    PROVE  /\ ~Failed(u) /\ Calm(u) /\ u.gap = Leaving(s)
           /\ u.session.active = w.session.active
           /\ Lived(w, u) /\ Answering(w.proc, u.proc)
<1> DEFINE fits == TRUE
           t == HandleRead(w.proc.txn, fits, room)
           x == WithTxn(w, t)
           p == [w.proc EXCEPT !.txn = t]
           z == IF s THEN Encrypt(x) ELSE x
<1>1. fits \in BOOLEAN /\ fits /\ w.proc.txn \in Txns
  BY WorldFields, ProcFields
<1>2. u = SealRead(x, s)
  BY DEF ReadFragment, WithTxn
<1> HIDE DEF fits
<1>3. t \in Txns /\ t.err = "None" /\ TransactionSound(t) /\ t.state = "WritingResponse"
  BY <1>1, HandleReadFields
<1> HIDE DEF t
<1>4. p \in Procs /\ x = WithProc(w, p) /\ x.proc.txn = t
  BY <1>3, WithTxnFields
<1> HIDE DEF p, x
<1>5. /\ x \in Worlds /\ SameAround(w, x) /\ Continued(w, x)
      /\ x.call = w.call /\ x.session = w.session
  BY <1>4, WithProcFields
<1>6. ~Failed(x) /\ x.gap = InStep /\ x.pairing = w.pairing
  BY <1>5 DEF Failed, Continued, SameAround, SameHouse
<1>7. u = SendRead(z, s)
  BY <1>2, <1>3, <1>4 DEF SealRead
<1>8. /\ Turned(x, z) /\ ~Failed(z) /\ z.session = x.session /\ z.gap = Leaving(s)
  BY <1>5, <1>6, SealsWell
<1> HIDE DEF z
<1>9. z \in Worlds /\ z.proc = x.proc /\ z.pairing = x.pairing
  BY <1>8 DEF Turned, SameTalk, SameHouse
<1>10. PICK q : Answering(z.proc, q) /\ CompletedIfFinal(z) = WithProc(z, q)
  BY <1>3, <1>4, <1>9, CompletedFields
<1> DEFINE c == WithProc(z, q)
           d == DidSendGATTResponse(c)
<1>11. u = ClosedIfLost(d, s)
  BY <1>7, <1>8, <1>10 DEF SendRead
<1>12. /\ c \in Worlds /\ SameAround(z, c) /\ Continued(z, c)
       /\ c.call = z.call /\ c.session = z.session
  BY <1>9, <1>10, WithProcFields DEF Answering
<1> HIDE DEF c
<1>13. c.gap = z.gap /\ c.pairing = z.pairing
  BY <1>12 DEF Continued, SameAround, SameHouse
<1>14. /\ Turned(c, d) /\ SameSession(c.session, d.session)
       /\ d.gap = c.gap /\ d.call = c.call
  BY <1>12, DidSendFields
<1> HIDE DEF d
<1>15. d.pairing = c.pairing
  BY <1>14 DEF Turned, SameHouse
<1>16. s => IsSecured(d)
  BY <1>5, <1>6, <1>8, <1>9, <1>12, <1>13, <1>14, <1>15 DEF Calm, IsSecured, SameSession
<1>17. u = d
  BY <1>11, <1>16 DEF ClosedIfLost, LostSecurity
<1>18. ~Failed(u) /\ ~u.session.terminal /\ u.gap = Leaving(s)
       /\ u.session.active = w.session.active
  BY <1>5, <1>8, <1>12, <1>13, <1>14, <1>17 DEF Failed, Calm, SameSession
<1>19. ReadOn(w, u)
  <2> DEFINE space == "Body"
  <2>1. u = ReadFragment(w, s, space, room)
    OBVIOUS
  <2> HIDE DEF space
  <2> QED
    BY <2>1, FragmentFields
<1>20. Lived(w, u) /\ Stayed(w, u) /\ Answering(w.proc, u.proc)
  BY <1>18, <1>19 DEF ReadOn, Closed
<1>21. Calm(u)
  <2>1. /\ SameSession(w.session, u.session) /\ u.session.linkTimer # "Late"
        /\ u.link.cancelled = w.link.cancelled
    BY <1>20 DEF Calm, Stayed
  <2> QED
    BY <1>20, <2>1, CalmAlike DEF Lived
<1> QED
  BY <1>18, <1>20, <1>21

\* A response may be read, or its request handled, and the procedure is sealed as its
\* session.
Awaiting(w) ==
    /\ \/ w.proc.txn.state \in Responding
       \/ /\ IsRequestAvailable(w.proc.txn)
          /\ (w.proc.txn.header.opcode = "CharacteristicExecuteWrite")
                = (w.proc.multi = "TimedWrite")
    /\ w.proc.startedSecured = (w.session.active /\ ~DropsSecuritySession(w.proc.char))

LEMMA CalmGATTRead ==
    ASSUME NEW w, Ready(w), Calm(w), w.gap = InStep, Awaiting(w), NEW room \in Nat,
           NEW outcome, NEW u, u = HandleGATTRead(w, "Body", room, outcome)
    PROVE  /\ u \in Worlds /\ ~Failed(u) /\ Calm(u) /\ u.gap = Leaving(w.proc.startedSecured)
           /\ u.session.active = w.session.active \/ DropsSecuritySession(w.proc.char)
           /\ u.proc.txn.state = "WaitingForInitialWrite" /\ u.proc.timer
                  => u.proc.multi = "TimedWrite"
           /\ \A d \in Chars : u.attr[d].fallback = w.attr[d].fallback
<1> DEFINE s == w.proc.startedSecured
           v == ProcessTransaction(w, outcome)
           x == IF IsRequestAvailable(w.proc.txn) THEN v ELSE w
<1>1. /\ w \in Worlds /\ ~Failed(w) /\ ~w.session.terminal /\ w.proc.char \in Chars
      /\ TransactionSound(w.proc.txn) /\ s \in BOOLEAN
  BY ReadyFields, WorldFields, ProcFields
<1>2. u = ReadFragment(x, s, "Body", room)
  BY <1>1 DEF HandleGATTRead
<1>3. /\ x \in Worlds /\ ~Failed(x) /\ Calm(x) /\ x.gap = InStep
      /\ x.session.active = w.session.active \/ DropsSecuritySession(w.proc.char)
      /\ TransactionSound(x.proc.txn) /\ x.proc.txn.state \in Responding
      /\ \A d \in Chars : x.attr[d].fallback = w.attr[d].fallback
  <2>1. CASE IsRequestAvailable(w.proc.txn)
    <3>1. x = v /\ w.proc.txn.state \notin Responding
      BY <2>1 DEF IsRequestAvailable, Responding
    <3>2. Processed(w, v)
      BY <1>1, <2>1, <3>1, HeldHere, ProcessTransactionFields DEF Awaiting
    <3> HIDE DEF v, x
    <3> QED
      BY <3>1, <3>2, ProcessedCalm
  <2>2. CASE ~IsRequestAvailable(w.proc.txn)
    <3>1. x = w
      BY <2>2
    <3> HIDE DEF x
    <3> QED
      BY <1>1, <2>2, <3>1 DEF Awaiting
  <2> QED
    BY <2>1, <2>2
<1> HIDE DEF x
<1>4. s => x.session.active
  BY <1>3 DEF Awaiting
<1> HIDE DEF s
<1>5. /\ ~Failed(u) /\ Calm(u) /\ u.gap = Leaving(s)
      /\ u.session.active = x.session.active
      /\ Lived(x, u) /\ Answering(x.proc, u.proc)
  BY <1>1, <1>2, <1>3, <1>4, FragmentCalm
<1>6. /\ u \in Worlds /\ \A d \in Chars : u.attr[d].fallback = x.attr[d].fallback
  BY <1>5 DEF Lived, SameAttr
<1>7. u.proc.txn.state = "WaitingForInitialWrite" /\ u.proc.timer
          => u.proc.multi = "TimedWrite"
  <2>1. x.proc.timer \in BOOLEAN /\ x.proc.multi \in {"None", "TimedWrite"}
    BY <1>3, WorldFields, ProcFields
  <2> QED
    BY <1>5, <2>1 DEF Answering
<1> QED
  BY <1>3, <1>5, <1>6, <1>7 DEF s

\* The response of the procedure on c, or of its fallback procedure, may be read.
Readable(w, c) ==
    IF w.attr[c].fallback.timer
    THEN w.attr[c].fallback.remaining = 0 /\ ~DropsSecuritySession(c)
    ELSE w.proc.char = c /\ Awaiting(w)

LEMMA ReadRequestServed ==
    ASSUME NEW w, Going(w), Calm(w), w.gap = InStep, NEW c \in Chars, Readable(w, c),
           NEW room \in Nat, NEW outcome,
           NEW u, u = HandleReadRequest(w, c, "Body", room, outcome)
    PROVE  /\ Calm(u)
           /\ DropsSecuritySession(c) => \A d \in Chars : ~u.attr[d].fallback.timer
           /\ IF w.attr[c].fallback.timer
              THEN /\ u.gap = Leaving(w.session.active) /\ u.proc = w.proc
                   /\ u.session.active = w.session.active
              ELSE /\ u.gap = Leaving(w.proc.startedSecured) /\ ~u.attr[c].fallback.timer
                   /\ u.session.active = w.session.active \/ DropsSecuritySession(c)
                   /\ u.proc.txn.state = "WaitingForInitialWrite" /\ u.proc.timer
                          => u.proc.multi = "TimedWrite"
<1> DEFINE g == GetProcedure(w, c)
<1>1. /\ Entered(w, c, g) /\ g.proc = w.proc
      /\ IF w.attr[c].fallback.timer
         THEN FallbackAt(w, c, g) /\ ~g.call.new /\ g.attr = w.attr
         ELSE FullAt(w, c, g)
  BY CalmGet DEF Readable
<1>2. u = Concluded(IF g.call.procedure = "Full"
                    THEN HandleGATTRead(g, "Body", room, outcome)
                    ELSE FallbackRead(g, c, "Body"))
  BY <1>1 DEF HandleReadRequest, Entered
<1> HIDE DEF g
<1>3. /\ g \in Worlds /\ ~Failed(g) /\ Calm(g) /\ g.gap = InStep
      /\ g.session.active = w.session.active
      /\ DropsSecuritySession(c) => \A d \in Chars : ~g.attr[d].fallback.timer
  BY <1>1 DEF Entered
<1>4. CASE w.attr[c].fallback.timer
  <2> DEFINE x == FallbackRead(g, c, "Body")
             space == "Body"
  <2>1. u = Concluded(x)
    BY <1>1, <1>2, <1>4 DEF FallbackAt
  <2>2. Going(g) /\ g.attr[c].fallback.remaining = 0 /\ ~DropsSecuritySession(c)
    BY <1>1, <1>4 DEF FallbackAt, Readable
  <2>3. x = FallbackRead(g, c, space)
    OBVIOUS
  <2> HIDE DEF x, space
  <2>4. /\ ~Failed(x) /\ Calm(x) /\ x.gap = Leaving(g.session.active) /\ x.proc = g.proc
        /\ x.session.active = g.session.active
    BY <1>3, <2>2, CalmFallbackRead DEF x
  <2>5. x \in Worlds
    <3>1. w \in Worlds
      BY DEF Going
    <3>2. Refused(w, x) \/ FallbackAnswered(w, c, x)
      BY <1>1, <1>4, <2>3, <3>1, FallbackReadFields
    <3> QED
      BY <3>2 DEF Refused, FallbackAnswered, Outlived
  <2>6. /\ Calm(u) /\ u.gap = x.gap /\ u.session = x.session /\ u.proc = x.proc
    BY <2>1, <2>4, <2>5, CalmConcludes
  <2> QED
    BY <1>1, <1>3, <1>4, <2>2, <2>4, <2>6
<1>5. CASE ~w.attr[c].fallback.timer
  <2> DEFINE x == HandleGATTRead(g, "Body", room, outcome)
  <2>1. u = Concluded(x)
    BY <1>1, <1>2, <1>5 DEF FullAt
  <2>2. Ready(g) /\ g.proc.char = c /\ w.proc.char = c
    BY <1>1, <1>5 DEF FullAt, Readable
  <2>3. Awaiting(g)
    BY <1>1, <1>3, <1>5, <2>2 DEF Readable, Awaiting
  <2>4. /\ x \in Worlds /\ ~Failed(x) /\ Calm(x) /\ x.gap = Leaving(g.proc.startedSecured)
        /\ x.session.active = g.session.active \/ DropsSecuritySession(g.proc.char)
        /\ x.proc.txn.state = "WaitingForInitialWrite" /\ x.proc.timer
               => x.proc.multi = "TimedWrite"
        /\ \A d \in Chars : x.attr[d].fallback = g.attr[d].fallback
    BY <1>3, <2>2, <2>3, CalmGATTRead
  <2> HIDE DEF x
  <2>5. /\ Calm(u) /\ u.gap = x.gap /\ u.session = x.session /\ u.proc = x.proc
        /\ \A d \in Chars : u.attr[d].fallback = x.attr[d].fallback
    BY <2>1, <2>4, CalmConcludes
  <2>6. ~g.attr[c].fallback.timer
    BY <2>2 DEF Ready, ProceduresSound
  <2> QED
    BY <1>1, <1>3, <1>5, <2>2, <2>4, <2>5, <2>6
<1> QED
  BY <1>4, <1>5

-----------------------------------------------------------------------------
(* What the two ends agree on, after each message.                         *)

Working(w, d) == w.proc.char = d \/ w.attr[d].fallback.timer

\* Of what the central works on, what is not gone with its procedure is in progress.
Standing(w, a) ==
    \A d \in Chars : a[d].on /\ Working(w, d) =>
        /\ InProgressOn(w, d)
        /\ a[d].header.total = Len(a[d].body) /\ a[d].sent <= a[d].header.total
        /\ DropsSecuritySession(d) => \A e \in Chars \ {d} : a[e].on => ~Working(w, e)

LEMMA KeptTrust ==
    ASSUME NEW w, ProceduresSound(w), Calm(w), w.gap = InStep,
           NEW a \in [Chars -> Askings], NEW p,
           Agreed(w, a), Promises(w, a, p), Standing(w, a)
    PROVE  Trust(w, Kept(w, a), p)
<1> DEFINE k == Kept(w, a)
<1>1. \A d \in Chars : k[d] = IF Working(w, d) THEN a[d] ELSE NotAsked
  BY DEF Kept, Calm, Working
<1> HIDE DEF k
<1>2. ~NotAsked.on
  BY DEF NotAsked
<1>3. w.proc.timer \/ w.proc.txn.state # "WaitingForInitialWrite"
          => w.proc.char \in Chars /\ k[w.proc.char] = a[w.proc.char]
  BY <1>1 DEF ProceduresSound, Working
<1>4. \A d \in Chars : w.attr[d].fallback.timer => k[d] = a[d]
  BY <1>1 DEF Working
<1>5. Agreed(w, k)
  BY <1>3, <1>4 DEF Agreed
<1>6. Promises(w, k, p)
  BY <1>3 DEF Promises
<1>7. Awaits(w, k)
  <2>1. SUFFICES ASSUME NEW d \in Chars, k[d].on
                 PROVE  /\ InProgressOn(w, d)
                        /\ k[d].header.total = Len(k[d].body) /\ k[d].sent <= k[d].header.total
                        /\ DropsSecuritySession(d) => \A e \in Chars \ {d} : ~k[e].on
    BY DEF Awaits
  <2>2. Working(w, d) /\ k[d] = a[d]
    BY <1>1, <1>2, <2>1
  <2>3. ASSUME NEW e \in Chars, a[e].on => ~Working(w, e)
        PROVE  ~k[e].on
    BY <1>1, <1>2, <2>3
  <2> QED
    BY <2>1, <2>2, <2>3 DEF Standing
<1> QED
  BY <1>5, <1>6, <1>7 DEF Trust, k

\* What a message finds.
Trusting(w, a, p) == Calm(w) /\ Agreed(w, a) /\ Awaits(w, a) /\ Promises(w, a, p)

LEMMA InvTyped ==
    ASSUME NEW w, NEW a, NEW p, Inv(w, a, p), ~Failed(w), ~w.session.terminal
    PROVE  /\ Going(w) /\ w \in Worlds /\ ProceduresSound(w) /\ TransactionSound(w.proc.txn)
           /\ a \in [Chars -> Askings] /\ p \in [Chars -> Bodies]
           /\ PreparedHere(w, p) /\ Gathered(w, a) /\ w.session.active \in BOOLEAN
           /\ w.proc.startedSecured \in BOOLEAN /\ w.proc.timer \in BOOLEAN
           /\ w.proc.txn.state \in TxnStates
           /\ \A d \in Chars : /\ w.attr[d].fallback.remaining \in Nat
                               /\ w.attr[d].fallback.timer \in BOOLEAN
<1>1. Going(w) /\ w \in Worlds
  BY InvGoes DEF Going
<1>2. \A d \in Chars : /\ w.attr[d].fallback.remaining \in Nat
                       /\ w.attr[d].fallback.timer \in BOOLEAN
  <2>1. \A d \in Chars : w.attr[d] \in Attrs
    BY <1>1, WorldFields
  <2>2. \A d \in Chars : w.attr[d].fallback \in FallbackStates
    BY <2>1 DEF Attrs
  <2> QED
    BY <2>2 DEF FallbackStates
<1>3. /\ w.session.active \in BOOLEAN /\ w.proc.startedSecured \in BOOLEAN
      /\ w.proc.timer \in BOOLEAN /\ w.proc.txn.state \in TxnStates
  BY <1>1, WorldFields, ProcFields, TxnFields DEF SessionStates
<1> QED
  BY <1>1, <1>2, <1>3 DEF Inv, Remembers, Going, ProceduresSound

LEMMA AskingFields ==
    ASSUME NEW a \in [Chars -> Askings], NEW c \in Chars
    PROVE  /\ a[c].on \in BOOLEAN /\ a[c].header \in Headers /\ a[c].body \in Bodies
           /\ a[c].sent \in Nat /\ a[c].sealed \in BOOLEAN /\ a[c].header.total \in Nat
           /\ Len(a[c].body) \in Nat
<1>1. /\ a[c].on \in BOOLEAN /\ a[c].header \in Headers /\ a[c].body \in Bodies
      /\ a[c].sent \in Nat /\ a[c].sealed \in BOOLEAN
  BY DEF Askings
<1>2. a[c].header.total \in Nat /\ Len(a[c].body) \in Nat
  BY <1>1 DEF Headers, Bodies
<1> QED
  BY <1>1, <1>2

\* A request that begins well.
Opening(w, a, p, c, m, b, s) ==
    /\ Begun(m, b) /\ IsRequest(m) /\ b.sealed = s
    /\ s = (w.session.active /\ ~DropsSecuritySession(c))
    /\ ~a[c].on /\ \A d \in Chars : DropsSecuritySession(d) => ~a[d].on
    /\ b.header.opcode = "CharacteristicTimedWrite" => b.body # <<>>
    /\ (b.header.opcode = "CharacteristicExecuteWrite") = (p[c] # <<>>)

LEMMA OpeningWelcome ==
    ASSUME NEW w, NEW a, NEW p, Inv(w, a, p), ~Failed(w), ~w.session.terminal,
           Agreed(w, a),
           NEW c \in Chars, NEW m, NEW b, NEW s, Opening(w, a, p, c, m, b, s)
    PROVE  /\ Welcome(w, c, m, s) /\ ~w.attr[c].fallback.timer
           /\ w.proc.char = c => w.proc.txn.state = "WaitingForInitialWrite"
<1>1. ~w.attr[c].fallback.timer
  BY DEF Agreed, Opening
<1>2. w.proc.char = c => w.proc.txn.state = "WaitingForInitialWrite"
  BY DEF Agreed, Opening
<1>3. CASE GoesAside(w, c)
  <2>1. w.proc.char # c /\ ~DropsSecuritySession(c)
    BY <1>1, <1>3 DEF GoesAside, Fits
  <2>2. s = w.session.active
    BY <2>1, InvTyped DEF Opening
  <2> QED
    BY <1>1, <1>2, <1>3, <2>2 DEF Welcome, AwaitedAside, Opening
<1>4. CASE ~GoesAside(w, c)
  <2>1. GoesOn(w, c) => s = w.proc.startedSecured /\ (s => w.session.active)
    BY DEF Agreed, Opening, GoesOn
  <2>2. GoesOn(w, c) => Awaited(w.proc.txn, m)
    BY <1>2 DEF GoesOn, Awaited, Opening
  <2>3. IsRequest(m) /\ s = (w.session.active /\ ~DropsSecuritySession(c))
    BY DEF Opening
  <2> QED
    BY <1>1, <1>2, <1>4, <2>1, <2>2, <2>3 DEF Welcome
<1> QED
  BY <1>3, <1>4

LEMMA BegunFullTrust ==
    ASSUME NEW w, NEW a, NEW p, Inv(w, a, p), ~Failed(w), ~w.session.terminal,
           Trusting(w, a, p),
           NEW c \in Chars, NEW m \in Messages, NEW b \in Askings, NEW s \in BOOLEAN,
           Opening(w, a, p, c, m, b, s),
           NEW u, FullTook(w, c, m, u), Served(w, c, m, s, u), ~GoesAside(w, c),
           NEW k, k = [a EXCEPT ![c] = b], NEW q, q = Stays(p, c)
    PROVE  Trust(u, Kept(u, k), q)
<1>0. q[c] = p[c]
  BY InvTyped, NothingAsked DEF Stays
<1>1. /\ Going(w) /\ a \in [Chars -> Askings] /\ PreparedHere(w, p)
      /\ ProceduresSound(w)
  BY InvTyped
<1>2. /\ k \in [Chars -> Askings] /\ k[c] = b /\ \A d \in Chars \ {c} : k[d] = a[d]
  BY <1>1
<1>3. /\ Going(u) /\ ProceduresSound(u) /\ Fewer(w, u) /\ u.proc.char = c /\ u.proc.timer
  BY DEF FullTook, Going
<1>4. /\ Calm(u) /\ u.gap = InStep
      /\ DropsSecuritySession(c) => \A d \in Chars : ~u.attr[d].fallback.timer
      /\ u.proc.startedSecured = s /\ ~u.attr[c].fallback.timer
      /\ u.session.active = IF GoesOn(w, c) THEN w.session.active ELSE s
  BY DEF Served
<1>5. ~w.attr[c].fallback.timer /\ (w.proc.char = c => w.proc.txn.state = "WaitingForInitialWrite")
  BY OpeningWelcome DEF Trusting
<1>6. PICK r : /\ Took(r.txn, m, u.proc.txn)
               /\ u.proc.multi = r.multi
               /\ \/ w.proc.char = c /\ w.proc.timer /\ r = w.proc
                  \/ /\ r.txn.state = "WaitingForInitialWrite" /\ r.multi = "None"
                     /\ ~w.proc.timer \/ Takes(w, c)
  BY DEF FullTook
<1>7. u.proc.txn.state = "ReadingRequest" /\ "ReadingRequest" \notin Responding
  BY <1>6 DEF Took, Opening, Begun, Responding
<1>8. ASSUME NEW d \in Chars, u.attr[d].fallback.timer
      PROVE  /\ d # c /\ ~DropsSecuritySession(c) /\ ~DropsSecuritySession(d)
             /\ w.attr[d].fallback.timer /\ u.attr[d].fallback = w.attr[d].fallback
  BY <1>3, <1>4, <1>8, NoFallbackFields DEF Fewer, Trusting, Agreed
<1>9. Agreed(u, k)
  <2>1. u.proc.startedSecured = (u.session.active /\ ~DropsSecuritySession(c))
    BY <1>4 DEF Opening
  <2>2. k[c].on /\ k[c].sealed = s
    BY <1>2 DEF Opening, Begun
  <2>3. ASSUME NEW d \in Chars, u.attr[d].fallback.timer
        PROVE  /\ k[d].on /\ k[d].sealed = u.session.active /\ ~DropsSecuritySession(d)
               /\ u.attr[d].fallback.remaining + k[d].sent = k[d].header.total
    <3>1. /\ d # c /\ ~DropsSecuritySession(c) /\ ~DropsSecuritySession(d)
          /\ w.attr[d].fallback.timer /\ u.attr[d].fallback = w.attr[d].fallback
      BY <1>8, <2>3
    <3>2. w.session.active = s
      BY <3>1, InvTyped DEF Opening
    <3>3. u.session.active = w.session.active
      BY <1>4, <3>2
    <3> QED
      BY <1>2, <3>1, <3>3 DEF Trusting, Agreed
  <2> QED
    BY <1>3, <1>4, <1>7, <2>1, <2>2, <2>3 DEF Agreed
<1>10. Standing(u, k)
  <2>1. b.header.total = Len(b.body) /\ b.sent <= b.header.total /\ b.on
    BY DEF Opening, Begun, IsRequest
  <2>2. InProgressOn(u, c)
    BY <1>3, <1>7 DEF InProgressOn
  <2>3. ASSUME NEW d \in Chars, k[d].on, Working(u, d), d # c
        PROVE  /\ InProgressOn(u, d) /\ ~DropsSecuritySession(d) /\ ~DropsSecuritySession(c)
               /\ k[d].header.total = Len(k[d].body) /\ k[d].sent <= k[d].header.total
    <3>1. u.attr[d].fallback.timer
      BY <1>3, <2>3 DEF Working
    <3>2. a[d].on /\ k[d] = a[d]
      BY <1>2, <2>3
    <3> QED
      BY <1>8, <3>1, <3>2 DEF InProgressOn, Trusting, Awaits
  <2>4. SUFFICES ASSUME NEW d \in Chars, k[d].on, Working(u, d)
                 PROVE  /\ InProgressOn(u, d)
                        /\ k[d].header.total = Len(k[d].body)
                        /\ k[d].sent <= k[d].header.total
                        /\ DropsSecuritySession(d) =>
                               \A e \in Chars \ {d} : k[e].on => ~Working(u, e)
    BY DEF Standing
  <2>5. CASE d = c
    BY <1>2, <2>1, <2>2, <2>3, <2>5
  <2>6. CASE d # c
    BY <2>3, <2>4, <2>6
  <2> QED
    BY <2>5, <2>6
<1>11. Promises(u, k, q)
  <2>1. (u.proc.multi = "TimedWrite") = (p[c] # <<>>)
    <3>1. CASE w.proc.char = c /\ w.proc.timer /\ r = w.proc
      <4>1. "WaitingForInitialWrite" \notin Responding
        BY DEF Responding
      <4> QED
        BY <1>5, <1>6, <3>1, <4>1 DEF Trusting, Promises
    <3>2. CASE r.multi = "None" /\ (~w.proc.timer \/ Takes(w, c))
      <4>1. p[c] = <<>>
        BY <1>1, <3>2 DEF PreparedHere, ProceduresSound, Takes, Responding
      <4> QED
        BY <1>6, <3>2, <4>1
    <3> QED
      BY <1>6, <3>1, <3>2
  <2> QED
    BY <1>0, <1>2, <1>3, <1>7, <2>1 DEF Promises, Opening
<1> QED
  BY <1>2, <1>3, <1>4, <1>9, <1>10, <1>11, KeptTrust

LEMMA BegunAsideTrust ==
    ASSUME NEW w, NEW a, NEW p, Inv(w, a, p), ~Failed(w), ~w.session.terminal,
           Trusting(w, a, p),
           NEW c \in Chars, NEW m \in Messages, NEW b \in Askings, NEW s \in BOOLEAN,
           Opening(w, a, p, c, m, b, s),
           NEW u, FallbackTook(w, c, m, u), Served(w, c, m, s, u), GoesAside(w, c),
           NEW k, k = [a EXCEPT ![c] = b]
    PROVE  Trust(u, Kept(u, k), p)
<1>1. /\ Going(w) /\ a \in [Chars -> Askings] /\ ProceduresSound(w)
  BY InvTyped
<1>2. /\ k \in [Chars -> Askings] /\ k[c] = b /\ \A d \in Chars \ {c} : k[d] = a[d]
  BY <1>1
<1>3. /\ Going(u) /\ ProceduresSound(u) /\ u.proc = w.proc
      /\ u.session.active = w.session.active /\ ~DropsSecuritySession(c)
      /\ \A d \in Chars \ {c} : u.attr[d].fallback = w.attr[d].fallback
      /\ u.attr[c].fallback.timer
  BY DEF FallbackTook, Going
<1>4. /\ Calm(u) /\ u.gap = InStep
      /\ u.attr[c].fallback.remaining =
             Left(w.attr[c].fallback, ~w.attr[c].fallback.timer, m)
  BY DEF Served
<1>5. ~w.attr[c].fallback.timer /\ Welcome(w, c, m, s)
  BY OpeningWelcome DEF Trusting
<1>6. u.attr[c].fallback.remaining = m.header.total - Len(m.chunk)
  BY <1>4, <1>5 DEF Left
<1>7. u.proc.char # c
  BY <1>3 DEF ProceduresSound
<1>8. w.proc.timer \/ w.proc.txn.state # "WaitingForInitialWrite"
          => w.proc.char \in Chars /\ k[w.proc.char] = a[w.proc.char]
  BY <1>1, <1>2, <1>3, <1>7 DEF ProceduresSound
<1>9. /\ b.header.total = Len(b.body) /\ b.sent <= b.header.total /\ b.on
      /\ b.sealed = w.session.active
      /\ u.attr[c].fallback.remaining + b.sent = b.header.total
  <2>1. b.header = m.header /\ b.sent = Len(m.chunk) /\ m.kind = "First"
        /\ Len(m.chunk) <= m.header.total
    BY DEF Opening, Begun, IsRequest
  <2>2. m.header.total \in Nat /\ Len(m.chunk) \in Nat
    BY <2>1, MessageFields DEF Headers
  <2>3. b.sealed = w.session.active
    BY <1>5 DEF Opening, Welcome
  <2>4. b.header.total = Len(b.body) /\ b.on
    BY DEF Opening, Begun
  <2>5. u.attr[c].fallback.remaining + b.sent = b.header.total
    BY <1>6, <2>1, <2>2
  <2> QED
    BY <2>1, <2>3, <2>4, <2>5
<1>10. Agreed(u, k)
  <2>1. ASSUME NEW d \in Chars, u.attr[d].fallback.timer
        PROVE  /\ k[d].on /\ k[d].sealed = u.session.active /\ ~DropsSecuritySession(d)
               /\ u.attr[d].fallback.remaining + k[d].sent = k[d].header.total
    <3>1. CASE d = c
      BY <1>2, <1>3, <1>9, <3>1
    <3>2. CASE d # c
      BY <1>2, <1>3, <2>1, <3>2 DEF Trusting, Agreed
    <3> QED
      BY <3>1, <3>2
  <2> QED
    BY <1>3, <1>8, <2>1 DEF Trusting, Agreed
<1>11. Promises(u, k, p)
  BY <1>3, <1>8 DEF Trusting, Promises
<1>12. Standing(u, k)
  <2>1. SUFFICES ASSUME NEW d \in Chars, k[d].on, Working(u, d)
                 PROVE  /\ InProgressOn(u, d)
                        /\ k[d].header.total = Len(k[d].body)
                        /\ k[d].sent <= k[d].header.total
                        /\ ~DropsSecuritySession(d)
    BY DEF Standing
  <2>2. CASE d = c
    BY <1>2, <1>3, <1>9, <2>2 DEF InProgressOn
  <2>3. CASE d # c
    BY <1>2, <1>3, <2>1, <2>3 DEF InProgressOn, Trusting, Awaits, Opening
  <2> QED
    BY <2>2, <2>3
<1> QED
  BY <1>2, <1>3, <1>4, <1>10, <1>11, <1>12, KeptTrust

LEMMA BegunTrust ==
    ASSUME NEW w, NEW a, NEW p, Inv(w, a, p), ~Failed(w), ~w.session.terminal,
           w.link.connected, Trusting(w, a, p),
           NEW c \in Chars, NEW m \in Messages, NEW b \in Askings, NEW s \in BOOLEAN,
           Opening(w, a, p, c, m, b, s), w.gap = Arriving(s),
           NEW u, u = HandleWriteRequest(w, c, m, SealFor(s)),
           NEW k, k = [a EXCEPT ![c] = b], NEW q, q = Stays(p, c)
    PROVE  Trust(u, Kept(u, k), q)
<1>1. Going(w) /\ p \in [Chars -> Bodies]
  BY InvTyped
<1>2. Served(w, c, m, s, u)
  <2>1. Welcome(w, c, m, s) /\ ~w.attr[c].fallback.timer /\ Calm(w)
    BY OpeningWelcome DEF Trusting
  <2> QED
    BY <1>1, <2>1, WriteRequestServed
<1>3. FullTook(w, c, m, u) \/ FallbackTook(w, c, m, u)
  <2> DEFINE seal == SealFor(s)
  <2>1. u = HandleWriteRequest(w, c, m, seal)
    OBVIOUS
  <2> HIDE DEF seal
  <2>2. Closed(u) \/ FullTook(w, c, m, u) \/ FallbackTook(w, c, m, u)
    BY <2>1, WriteFields
  <2> QED
    BY <1>2, <2>2 DEF Served, Calm, Closed
<1>4. q[c] = p[c] /\ (~DropsSecuritySession(c) => q = p)
  BY <1>1, NothingAsked DEF Stays
<1>5. CASE GoesAside(w, c)
  <2>1. ~FullTook(w, c, m, u)
    <3>1. w.proc.char # c /\ u.proc = w.proc
      BY <1>1, <1>2, <1>5 DEF GoesAside, Served, Going, ProceduresSound
    <3> QED
      BY <3>1 DEF FullTook
  <2>2. q = p
    BY <1>3, <1>4, <2>1 DEF FallbackTook
  <2> QED
    BY <1>2, <1>3, <1>5, <2>1, <2>2, BegunAsideTrust
<1>6. CASE ~GoesAside(w, c)
  <2>1. ~FallbackTook(w, c, m, u)
    BY <1>2, <1>6 DEF Served, FallbackTook
  <2>2. FullTook(w, c, m, u)
    BY <1>3, <2>1
  <2> QED
    BY <1>2, <1>6, <2>2, BegunFullTrust
<1> QED
  BY <1>5, <1>6
\* The next piece of a request, sealed as the request is.
Following(a, c, m, s) ==
    /\ m.kind = "Continuation" /\ a[c].on /\ m.tid = a[c].header.tid
    /\ Len(m.chunk) > 0 /\ a[c].sent + Len(m.chunk) <= a[c].header.total
    /\ s = a[c].sealed

LEMMA FollowingWelcome ==
    ASSUME NEW w, NEW a, NEW p, Inv(w, a, p), ~Failed(w), ~w.session.terminal,
           Trusting(w, a, p),
           NEW c \in Chars, NEW m \in Messages, NEW s, Following(a, c, m, s)
    PROVE  /\ Welcome(w, c, m, s)
           /\ w.attr[c].fallback.timer => ~DropsSecuritySession(c)
           /\ ~w.attr[c].fallback.timer =>
                  GoesOn(w, c) /\ ~GoesAside(w, c) /\ w.proc.txn.state = "ReadingRequest"
<1>1. /\ a[c].on /\ m.kind = "Continuation" /\ m.tid = a[c].header.tid /\ s = a[c].sealed
      /\ Len(m.chunk) > 0 /\ a[c].sent + Len(m.chunk) <= a[c].header.total
  BY DEF Following
<1>2. /\ a[c].sent \in Nat /\ a[c].header.total \in Nat /\ Len(m.chunk) \in Nat
      /\ w.attr[c].fallback.remaining \in Nat
  BY <1>1, InvTyped, AskingFields, MessageFields
<1>3. CASE w.attr[c].fallback.timer
  <2>1. /\ s = w.session.active /\ ~DropsSecuritySession(c)
        /\ w.attr[c].fallback.remaining + a[c].sent = a[c].header.total
    BY <1>1, <1>3 DEF Trusting, Agreed
  <2>2. w.attr[c].fallback.tid = a[c].header.tid
    BY <1>3 DEF Inv, Matches
  <2>3. Len(m.chunk) <= w.attr[c].fallback.remaining
    BY <1>1, <1>2, <2>1
  <2>4. AwaitedAside(w.attr[c].fallback, ~w.attr[c].fallback.timer, m)
    BY <1>1, <1>3, <2>2, <2>3 DEF AwaitedAside, Continues
  <2> QED
    BY <1>3, <2>1, <2>4 DEF Welcome, GoesAside
<1>4. CASE ~w.attr[c].fallback.timer
  <2>1. w.proc.char = c /\ w.proc.txn.state # "WaitingForInitialWrite"
    BY <1>1, <1>4 DEF Trusting, Awaits, InProgressOn
  <2>2. GoesOn(w, c) /\ ~GoesAside(w, c)
    BY <1>4, <2>1, InvTyped DEF ProceduresSound, GoesOn, GoesAside
  <2>3. w.proc.startedSecured = s /\ (w.proc.startedSecured => w.session.active)
    BY <1>1, <2>1, <2>2 DEF Trusting, Agreed, GoesOn
  <2>4. w.proc.txn.state \notin Responding
    BY <1>1, <1>2, <2>1 DEF Trusting, Agreed
  <2>5. w.proc.txn.state = "ReadingRequest"
    BY <2>1, <2>4, InvTyped DEF TransactionSound, TxnStates, Responding
  <2>6. a[c].header = w.proc.txn.header /\ a[c].sent = w.proc.txn.offset
    BY <2>1, <2>5, InvTyped DEF Inv, Matches, Gathered
  <2>7. Len(m.chunk) <= w.proc.txn.header.total - w.proc.txn.offset
    <3>1. Len(m.chunk) <= a[c].header.total - a[c].sent
      BY <1>1, <1>2
    <3> QED
      BY <2>6, <3>1
  <2>8. Awaited(w.proc.txn, m)
    BY <1>1, <2>5, <2>6, <2>7 DEF Awaited, Continues
  <2> QED
    BY <1>4, <2>2, <2>3, <2>5, <2>8 DEF Welcome
<1> QED
  BY <1>3, <1>4

LEMMA SentSealed ==
    ASSUME NEW a \in [Chars -> Askings], NEW c \in Chars, NEW n \in Nat
    PROVE  \A d \in Chars : Sent(a, c, n)[d].sealed = a[d].sealed
<1>1. ASSUME NEW d \in Chars
      PROVE  Sent(a, c, n)[d].sealed = a[d].sealed
  <2>1. a[d] \in Askings
    OBVIOUS
  <2> QED
    BY <2>1 DEF Sent, Askings
<1> QED
  BY <1>1

LEMMA ContinuedFullTrust ==
    ASSUME NEW w, NEW a, NEW p, Inv(w, a, p), ~Failed(w), ~w.session.terminal,
           Trusting(w, a, p),
           NEW c \in Chars, NEW m \in Messages, NEW s \in BOOLEAN, Following(a, c, m, s),
           NEW u, FullTook(w, c, m, u), Served(w, c, m, s, u), ~w.attr[c].fallback.timer,
           NEW k, k = Sent(a, c, a[c].sent + Len(m.chunk))
    PROVE  Trust(u, Kept(u, k), p)
<1> DEFINE n == a[c].sent + Len(m.chunk)
<1>1. Going(w) /\ a \in [Chars -> Askings] /\ ProceduresSound(w)
  BY InvTyped
<1>2. n \in Nat /\ n <= a[c].header.total /\ a[c].on /\ k = Sent(a, c, n) /\ s = a[c].sealed
  BY <1>1, AskingFields, MessageFields DEF Following
<1> HIDE DEF n
<1>3. /\ k \in [Chars -> Askings] /\ k[c].sent = n
      /\ \A d \in Chars : /\ k[d].on = a[d].on /\ k[d].header = a[d].header
                          /\ k[d].body = a[d].body /\ k[d].sealed = a[d].sealed
      /\ \A d \in Chars \ {c} : k[d] = a[d]
  BY <1>1, <1>2, SentFields, SentSealed
<1>4. GoesOn(w, c) /\ ~GoesAside(w, c) /\ w.proc.txn.state = "ReadingRequest"
  BY FollowingWelcome
<1>5. /\ Going(u) /\ ProceduresSound(u) /\ Fewer(w, u) /\ u.proc.char = c /\ u.proc.timer
  BY DEF FullTook, Going
<1>6. /\ Calm(u) /\ u.gap = InStep
      /\ DropsSecuritySession(c) => \A d \in Chars : ~u.attr[d].fallback.timer
      /\ u.proc.startedSecured = s /\ ~u.attr[c].fallback.timer
      /\ u.session.active = w.session.active
  BY <1>4 DEF Served
<1>7. PICK r : /\ Took(r.txn, m, u.proc.txn)
               /\ u.proc.multi = r.multi /\ u.proc.startedSecured = r.startedSecured
               /\ \/ w.proc.char = c /\ w.proc.timer /\ r = w.proc
                  \/ ~w.proc.timer \/ Takes(w, c)
  BY DEF FullTook
<1>8. r = w.proc
  BY <1>4, <1>7 DEF GoesOn, Takes
<1>9. /\ u.proc.txn.state = "ReadingRequest" /\ "ReadingRequest" \notin Responding
      /\ u.proc.multi = w.proc.multi /\ u.proc.startedSecured = w.proc.startedSecured
  BY <1>4, <1>7, <1>8 DEF Took, Responding
<1>10. ASSUME NEW d \in Chars, u.attr[d].fallback.timer
       PROVE  /\ d # c /\ w.attr[d].fallback.timer /\ u.attr[d].fallback = w.attr[d].fallback
  BY <1>5, <1>6, <1>10, NoFallbackFields DEF Fewer
<1>11. w.proc.char = c /\ w.proc.timer
  BY <1>4 DEF GoesOn
<1>12. Agreed(u, k)
  <2>1. u.proc.startedSecured = (u.session.active /\ ~DropsSecuritySession(c))
    BY <1>6, <1>9, <1>11 DEF Trusting, Agreed
  <2>2. k[c].on /\ k[c].sealed = s
    BY <1>2, <1>3
  <2>3. ASSUME NEW d \in Chars, u.attr[d].fallback.timer
        PROVE  /\ k[d].on /\ k[d].sealed = u.session.active /\ ~DropsSecuritySession(d)
               /\ u.attr[d].fallback.remaining + k[d].sent = k[d].header.total
    BY <1>3, <1>6, <1>10, <2>3 DEF Trusting, Agreed
  <2> QED
    BY <1>5, <1>6, <1>9, <2>1, <2>2, <2>3 DEF Agreed
<1>13. Standing(u, k)
  <2>1. SUFFICES ASSUME NEW d \in Chars, k[d].on, Working(u, d)
                 PROVE  /\ InProgressOn(u, d)
                        /\ k[d].header.total = Len(k[d].body)
                        /\ k[d].sent <= k[d].header.total
                        /\ DropsSecuritySession(d) =>
                               \A e \in Chars \ {d} : k[e].on => ~Working(u, e)
    BY DEF Standing
  <2>2. InProgressOn(u, d)
    BY <1>5, <1>9, <2>1 DEF InProgressOn, Working
  <2>3. k[d].header.total = Len(k[d].body) /\ k[d].sent <= k[d].header.total
    <3>1. CASE d = c
      BY <1>2, <1>3, <3>1 DEF Trusting, Awaits
    <3>2. CASE d # c
      BY <1>3, <2>1, <3>2 DEF Trusting, Awaits
    <3> QED
      BY <3>1, <3>2
  <2>4. DropsSecuritySession(d) => \A e \in Chars \ {d} : ~k[e].on
    BY <1>3, <2>1 DEF Trusting, Awaits
  <2> QED
    BY <2>2, <2>3, <2>4
<1>14. Promises(u, k, p)
  <2>1. u.proc.txn.header = w.proc.txn.header
    BY <1>4, <1>7, <1>8 DEF Took
  <2> QED
    BY <1>3, <1>4, <1>5, <1>9, <1>11, <2>1 DEF Trusting, Promises
<1> QED
  BY <1>3, <1>5, <1>6, <1>12, <1>13, <1>14, KeptTrust

LEMMA ContinuedAsideTrust ==
    ASSUME NEW w, NEW a, NEW p, Inv(w, a, p), ~Failed(w), ~w.session.terminal,
           Trusting(w, a, p),
           NEW c \in Chars, NEW m \in Messages, NEW s \in BOOLEAN, Following(a, c, m, s),
           NEW u, FallbackTook(w, c, m, u), Served(w, c, m, s, u), w.attr[c].fallback.timer,
           NEW k, k = Sent(a, c, a[c].sent + Len(m.chunk))
    PROVE  Trust(u, Kept(u, k), p)
<1> DEFINE n == a[c].sent + Len(m.chunk)
<1>1. Going(w) /\ a \in [Chars -> Askings] /\ ProceduresSound(w)
  BY InvTyped
<1>2. n \in Nat /\ n <= a[c].header.total /\ a[c].on /\ k = Sent(a, c, n) /\ s = a[c].sealed
  BY <1>1, AskingFields, MessageFields DEF Following
<1> HIDE DEF n
<1>3. /\ k \in [Chars -> Askings] /\ k[c].sent = n
      /\ \A d \in Chars : /\ k[d].on = a[d].on /\ k[d].header = a[d].header
                          /\ k[d].body = a[d].body /\ k[d].sealed = a[d].sealed
      /\ \A d \in Chars \ {c} : k[d] = a[d]
  BY <1>1, <1>2, SentFields, SentSealed
<1>4. /\ Going(u) /\ ProceduresSound(u) /\ u.proc = w.proc
      /\ u.session.active = w.session.active /\ ~DropsSecuritySession(c)
      /\ \A d \in Chars \ {c} : u.attr[d].fallback = w.attr[d].fallback
      /\ u.attr[c].fallback.timer
  BY DEF FallbackTook, Going
<1>5. /\ Calm(u) /\ u.gap = InStep
      /\ u.attr[c].fallback.remaining = w.attr[c].fallback.remaining - Len(m.chunk)
  BY DEF Served, GoesAside, Left
<1>6. w.proc.char # c
  BY <1>1 DEF ProceduresSound
<1>7. w.proc.timer \/ w.proc.txn.state # "WaitingForInitialWrite"
          => w.proc.char \in Chars /\ k[w.proc.char] = a[w.proc.char]
  BY <1>1, <1>3, <1>6 DEF ProceduresSound
<1>8. u.attr[c].fallback.remaining + k[c].sent = k[c].header.total
  <2>1. w.attr[c].fallback.remaining + a[c].sent = a[c].header.total
    BY DEF Trusting, Agreed
  <2>2. /\ w.attr[c].fallback.remaining \in Nat /\ a[c].sent \in Nat /\ Len(m.chunk) \in Nat
    BY <1>1, InvTyped, AskingFields, MessageFields DEF Following
  <2>3. (w.attr[c].fallback.remaining - Len(m.chunk)) + n = a[c].header.total
    BY <2>1, <2>2 DEF n
  <2> QED
    BY <1>3, <1>5, <2>3
<1>9. Agreed(u, k)
  <2>1. ASSUME NEW d \in Chars, u.attr[d].fallback.timer
        PROVE  /\ k[d].on /\ k[d].sealed = u.session.active /\ ~DropsSecuritySession(d)
               /\ u.attr[d].fallback.remaining + k[d].sent = k[d].header.total
    <3>1. CASE d = c
      BY <1>2, <1>3, <1>4, <1>8, <3>1 DEF Trusting, Agreed
    <3>2. CASE d # c
      BY <1>3, <1>4, <2>1, <3>2 DEF Trusting, Agreed
    <3> QED
      BY <3>1, <3>2
  <2> QED
    BY <1>4, <1>7, <2>1, SMTT(20) DEF Trusting, Agreed
<1>10. Promises(u, k, p)
  BY <1>4, <1>7 DEF Trusting, Promises
<1>11. Standing(u, k)
  <2>1. SUFFICES ASSUME NEW d \in Chars, k[d].on, Working(u, d)
                 PROVE  /\ InProgressOn(u, d)
                        /\ k[d].header.total = Len(k[d].body)
                        /\ k[d].sent <= k[d].header.total
                        /\ DropsSecuritySession(d) => \A e \in Chars \ {d} : ~k[e].on
    BY DEF Standing
  <2>2. k[d].header.total = Len(k[d].body) /\ k[d].sent <= k[d].header.total
    <3>1. CASE d = c
      BY <1>2, <1>3, <3>1 DEF Trusting, Awaits
    <3>2. CASE d # c
      BY <1>3, <2>1, <3>2 DEF Trusting, Awaits
    <3> QED
      BY <3>1, <3>2
  <2>3. InProgressOn(u, d)
    <3>1. CASE d = c
      BY <1>4, <3>1 DEF InProgressOn
    <3>2. CASE d # c
      BY <1>3, <1>4, <2>1, <3>2 DEF Trusting, Awaits, InProgressOn
    <3> QED
      BY <3>1, <3>2
  <2>4. DropsSecuritySession(d) => \A e \in Chars \ {d} : ~k[e].on
    BY <1>3, <2>1 DEF Trusting, Awaits
  <2> QED
    BY <2>2, <2>3, <2>4
<1> QED
  BY <1>3, <1>4, <1>5, <1>9, <1>10, <1>11, KeptTrust

LEMMA ContinuedTrust ==
    ASSUME NEW w, NEW a, NEW p, Inv(w, a, p), ~Failed(w), ~w.session.terminal,
           w.link.connected, Trusting(w, a, p),
           NEW c \in Chars, NEW m \in Messages, NEW s \in BOOLEAN, Following(a, c, m, s),
           w.gap = Arriving(s), NEW u, u = HandleWriteRequest(w, c, m, SealFor(s)),
           NEW k, k = Sent(a, c, a[c].sent + Len(m.chunk))
    PROVE  Trust(u, Kept(u, k), p)
<1>1. Going(w)
  BY InvTyped
<1>2. Served(w, c, m, s, u)
  <2>1. /\ Welcome(w, c, m, s) /\ Calm(w)
        /\ w.attr[c].fallback.timer => ~DropsSecuritySession(c)
    BY FollowingWelcome DEF Trusting
  <2> QED
    BY <1>1, <2>1, WriteRequestServed
<1>3. FullTook(w, c, m, u) \/ FallbackTook(w, c, m, u)
  <2> DEFINE seal == SealFor(s)
  <2>1. u = HandleWriteRequest(w, c, m, seal)
    OBVIOUS
  <2> HIDE DEF seal
  <2>2. Closed(u) \/ FullTook(w, c, m, u) \/ FallbackTook(w, c, m, u)
    BY <2>1, WriteFields
  <2> QED
    BY <1>2, <2>2 DEF Served, Calm, Closed
<1>4. CASE w.attr[c].fallback.timer
  <2>1. ~FullTook(w, c, m, u)
    <3>1. w.proc.char # c /\ u.proc = w.proc
      BY <1>1, <1>2, <1>4 DEF GoesAside, Served, Going, ProceduresSound
    <3> QED
      BY <3>1 DEF FullTook
  <2>2. FallbackTook(w, c, m, u)
    BY <1>3, <2>1
  <2> QED
    BY <1>2, <1>4, <2>2, ContinuedAsideTrust
<1>5. CASE ~w.attr[c].fallback.timer
  <2>1. ~GoesAside(w, c)
    BY <1>5, FollowingWelcome
  <2>2. ~FallbackTook(w, c, m, u)
    BY <1>2, <2>1 DEF Served, FallbackTook
  <2>3. FullTook(w, c, m, u)
    BY <1>3, <2>2
  <2> QED
    BY <1>2, <1>5, <2>3, ContinuedFullTrust
<1> QED
  BY <1>4, <1>5

-----------------------------------------------------------------------------
(* Responses.                                                              *)

LEMMA AskedReadable ==
    ASSUME NEW w, NEW a, NEW p, Inv(w, a, p), ~Failed(w), ~w.session.terminal,
           Trusting(w, a, p),
           NEW c \in Chars, a[c].on, a[c].sent = a[c].header.total
    PROVE  Readable(w, c)
<1>1. CASE w.attr[c].fallback.timer
  <2>1. ~DropsSecuritySession(c) /\ w.attr[c].fallback.remaining + a[c].sent = a[c].header.total
    BY <1>1 DEF Trusting, Agreed
  <2>2. /\ w.attr[c].fallback.remaining \in Nat /\ a[c].sent \in Nat
        /\ a[c].header.total \in Nat
    BY InvTyped, AskingFields
  <2>3. w.attr[c].fallback.remaining = 0
    BY <2>1, <2>2
  <2> QED
    BY <1>1, <2>1, <2>3 DEF Readable
<1>2. CASE ~w.attr[c].fallback.timer
  <2>1. w.proc.char = c /\ w.proc.txn.state # "WaitingForInitialWrite"
    BY <1>2 DEF Trusting, Awaits, InProgressOn
  <2>2. w.proc.timer
    BY <2>1, InvTyped DEF ProceduresSound
  <2>3. w.proc.startedSecured = (w.session.active /\ ~DropsSecuritySession(w.proc.char))
    BY <2>2 DEF Trusting, Agreed
  <2>4. w.proc.txn.state \in Responding \cup {"ReadingRequest"}
    BY <2>1, InvTyped DEF TransactionSound, TxnStates, Responding
  <2>5. CASE w.proc.txn.state = "ReadingRequest"
    <3>1. a[c].header = w.proc.txn.header /\ a[c].sent = w.proc.txn.offset
      BY <2>1, <2>5, InvTyped DEF Inv, Matches, Gathered
    <3>2. IsRequestAvailable(w.proc.txn)
      BY <2>5, <3>1 DEF IsRequestAvailable
    <3>3. (a[c].header.opcode = "CharacteristicExecuteWrite") = (w.proc.multi = "TimedWrite")
      BY <2>1, <2>2, <2>5 DEF Trusting, Promises
    <3> QED
      BY <1>2, <2>1, <2>3, <3>1, <3>2, <3>3 DEF Readable, Awaiting
  <2> QED
    BY <1>2, <2>1, <2>3, <2>4, <2>5 DEF Readable, Awaiting
<1> QED
  BY <1>1, <1>2

\* What is left in progress is what the central works on still.
Settling(u, k, q) == Calm(u) /\ Agreed(u, k) /\ Promises(u, k, q) /\ Standing(u, k)

LEMMA ConfirmsPrepared ==
    ASSUME NEW w, NEW a, NEW p, Inv(w, a, p), ~Failed(w), ~w.session.terminal,
           Trusting(w, a, p), NEW c \in Chars, NEW u, FullRead(w, c, u),
           u.proc.multi = "TimedWrite"
    PROVE  p[c] # <<>> \/ (a[c].header.opcode = "CharacteristicTimedWrite" /\ a[c].body # <<>>)
<1>1. w.proc.char = c /\ Prepared(w, u) /\ Handled(w, u) /\ "ReadingRequest" \notin Responding
  BY DEF FullRead, Responding
<1>2. w.proc.timer /\ w.proc.txn.state \in Responding \cup {"ReadingRequest"}
  BY <1>1, InvTyped DEF Handled, ProceduresSound, IsRequestAvailable, Responding
<1>3. CASE w.proc.multi = "TimedWrite"
  BY <1>1, <1>2, <1>3 DEF Trusting, Promises
<1>4. CASE w.proc.multi # "TimedWrite"
  <2>1. /\ w.proc.txn.header.opcode = "CharacteristicTimedWrite"
        /\ w.proc.txn.state = "ReadingRequest"
    BY <1>1, <1>4 DEF Prepared, Handled, IsRequestAvailable
  <2>2. a[c].header = w.proc.txn.header
    BY <1>1, <2>1 DEF Inv, Matches
  <2> QED
    BY <1>1, <1>2, <2>1, <2>2 DEF Trusting, Promises
<1> QED
  BY <1>3, <1>4

LEMMA FullReadSettles ==
    ASSUME NEW w, NEW a, NEW p, Inv(w, a, p), ~Failed(w), ~w.session.terminal,
           Trusting(w, a, p),
           NEW c \in Chars, a[c].on, a[c].sent = a[c].header.total,
           NEW u, FullRead(w, c, u), Calm(u),
           DropsSecuritySession(c) => \A d \in Chars : ~u.attr[d].fallback.timer,
           u.session.active = w.session.active \/ DropsSecuritySession(c),
           u.proc.txn.state = "WaitingForInitialWrite" /\ u.proc.timer
               => u.proc.multi = "TimedWrite",
           NEW k, NEW q,
           \/ Through(w, c, u) /\ k = Forgotten(a, c) /\ q = Promised(u, a, p, c)
           \/ ~Through(w, c, u) /\ k = a /\ q = p
    PROVE  Settling(u, k, q)
<1>1. /\ Going(w) /\ ProceduresSound(w) /\ a \in [Chars -> Askings] /\ p \in [Chars -> Bodies]
      /\ w.session.active \in BOOLEAN /\ DropsSecuritySession(c) \in BOOLEAN
  BY InvTyped DEF DropsSecuritySession
<1>2. /\ Going(u) /\ ProceduresSound(u) /\ Fewer(w, u)
      /\ w.proc.char = c /\ u.proc.char = c /\ u.proc.startedSecured = w.proc.startedSecured
      /\ Handled(w, u)
      /\ u.proc.txn.state = "WaitingForInitialWrite" \/ u.proc.txn.state \in Responding
      /\ u.session.active \in BOOLEAN
  <2>1. u.session.active \in BOOLEAN
    BY WorldFields DEF FullRead, Going, SessionStates
  <2> QED
    BY <2>1 DEF FullRead, Going
<1>3. /\ "ReadingRequest" \notin Responding /\ "WaitingForInitialWrite" \notin Responding
  BY DEF Responding
<1>4. w.proc.timer /\ w.proc.txn.state # "WaitingForInitialWrite" /\ ~w.attr[c].fallback.timer
  BY <1>1, <1>2 DEF Handled, ProceduresSound, IsRequestAvailable, Responding
<1>5. w.proc.startedSecured = (w.session.active /\ ~DropsSecuritySession(c))
  BY <1>2, <1>4 DEF Trusting, Agreed
<1>6. u.proc.startedSecured = (u.session.active /\ ~DropsSecuritySession(c))
  BY <1>1, <1>2, <1>5
<1>7. Through(w, c, u) = (u.proc.txn.state = "WaitingForInitialWrite")
  BY <1>2, <1>4 DEF Through
<1>8. ASSUME NEW d \in Chars, u.attr[d].fallback.timer
      PROVE  /\ d # c /\ w.attr[d].fallback.timer /\ u.attr[d].fallback = w.attr[d].fallback
             /\ u.session.active = w.session.active
  BY <1>2, <1>8, NoFallbackFields DEF Fewer, ProceduresSound
<1>9. /\ k \in [Chars -> Askings] /\ \A d \in Chars \ {c} : k[d] = a[d]
      /\ Through(w, c, u) => ~k[c].on
      /\ ~Through(w, c, u) => k[c] = a[c]
  <2>1. CASE Through(w, c, u)
    <3>1. k = Forgotten(a, c) /\ NotAsked \in Askings /\ ~NotAsked.on
      BY <2>1, NothingAsked DEF NotAsked
    <3> QED
      BY <1>1, <2>1, <3>1 DEF Forgotten
  <2>2. CASE ~Through(w, c, u)
    BY <1>1, <2>2
  <2> QED
    BY <2>1, <2>2
<1>10. Agreed(u, k)
  <2>1. ASSUME NEW d \in Chars, u.attr[d].fallback.timer
        PROVE  /\ k[d].on /\ k[d].sealed = u.session.active /\ ~DropsSecuritySession(d)
               /\ u.attr[d].fallback.remaining + k[d].sent = k[d].header.total
    BY <1>8, <1>9, <2>1 DEF Trusting, Agreed
  <2>2. u.proc.txn.state # "WaitingForInitialWrite" =>
            k[c].on /\ k[c].sealed = u.proc.startedSecured /\ k[c].sent = k[c].header.total
    BY <1>2, <1>4, <1>7, <1>9 DEF Trusting, Agreed
  <2> QED
    BY <1>2, <1>6, <2>1, <2>2 DEF Agreed
<1>11. Standing(u, k)
  <2>1. SUFFICES ASSUME NEW d \in Chars, k[d].on, Working(u, d)
                 PROVE  /\ InProgressOn(u, d)
                        /\ k[d].header.total = Len(k[d].body)
                        /\ k[d].sent <= k[d].header.total
                        /\ DropsSecuritySession(d) => \A e \in Chars \ {d} : ~k[e].on
    BY DEF Standing
  <2>2. k[d] = a[d] /\ \A e \in Chars : k[e].on => a[e].on
    BY <1>9, <2>1
  <2>3. InProgressOn(u, d)
    BY <1>2, <1>7, <1>9, <2>1 DEF InProgressOn, Working
  <2> QED
    BY <2>1, <2>2, <2>3 DEF Trusting, Awaits
<1>12. Promises(u, k, q)
  <2>1. CASE Through(w, c, u)
    <3>1. u.proc.timer => u.proc.multi = "TimedWrite" /\ q[c] # <<>>
      <4>1. SUFFICES ASSUME u.proc.timer
                     PROVE  u.proc.multi = "TimedWrite" /\ q[c] # <<>>
        OBVIOUS
      <4>2. u.proc.multi = "TimedWrite"
        BY <1>7, <2>1, <4>1
      <4>3. q[c] = Confirms(a, p, c)
        BY <1>1, <1>2, <2>1, <4>2, ForgottenFields
      <4>4. p[c] # <<>> \/ (a[c].header.opcode = "CharacteristicTimedWrite" /\ a[c].body # <<>>)
        BY <4>2, ConfirmsPrepared
      <4> QED
        BY <4>2, <4>3, <4>4 DEF Confirms
    <3> QED
      BY <1>2, <1>3, <1>7, <2>1, <3>1 DEF Promises
  <2>2. CASE ~Through(w, c, u)
    <3>1. k = a /\ q = p /\ u.proc.txn.state \in Responding
      BY <1>2, <1>7, <2>2
    <3>2. u.proc.multi = "TimedWrite" =>
              p[c] # <<>> \/ (a[c].header.opcode = "CharacteristicTimedWrite" /\ a[c].body # <<>>)
      BY ConfirmsPrepared
    <3> QED
      BY <1>2, <1>3, <3>1, <3>2 DEF Promises
  <2> QED
    BY <2>1, <2>2
<1> QED
  BY <1>10, <1>11, <1>12 DEF Settling

LEMMA FallbackReadSettles ==
    ASSUME NEW w, NEW a, NEW p, Inv(w, a, p), ~Failed(w), ~w.session.terminal,
           Trusting(w, a, p),
           NEW c \in Chars, a[c].on, a[c].sent = a[c].header.total,
           NEW u, FallbackAnswered(w, c, u), Calm(u),
           NEW k, k = Forgotten(a, c), NEW q, q = Promised(u, a, p, c)
    PROVE  Settling(u, k, q)
<1>1. /\ Going(w) /\ ProceduresSound(w) /\ a \in [Chars -> Askings] /\ p \in [Chars -> Bodies]
  BY InvTyped
<1>2. /\ u.proc = w.proc /\ u.session.active = w.session.active /\ w.attr[c].fallback.timer
      /\ \A d \in Chars \ {c} : u.attr[d].fallback = w.attr[d].fallback
      /\ ~u.attr[c].fallback.timer
  BY NoFallbackFields DEF FallbackAnswered
<1>3. /\ k \in [Chars -> Askings] /\ \A d \in Chars \ {c} : k[d] = a[d] /\ q[d] = p[d]
      /\ ~k[c].on
  <2>1. NotAsked \in Askings /\ ~NotAsked.on
    BY NothingAsked DEF NotAsked
  <2>2. k \in [Chars -> Askings] /\ ~k[c].on /\ \A d \in Chars \ {c} : k[d] = a[d]
    BY <1>1, <2>1 DEF Forgotten
  <2>3. \A d \in Chars \ {c} : q[d] = p[d]
    BY <1>1 DEF Promised
  <2> QED
    BY <2>2, <2>3
<1>4. w.proc.char # c
  BY <1>1, <1>2 DEF ProceduresSound
<1>5. w.proc.timer \/ w.proc.txn.state # "WaitingForInitialWrite"
          => k[w.proc.char] = a[w.proc.char] /\ q[w.proc.char] = p[w.proc.char]
  BY <1>1, <1>3, <1>4 DEF ProceduresSound
<1>6. Agreed(u, k)
  <2>1. ASSUME NEW d \in Chars, u.attr[d].fallback.timer
        PROVE  /\ k[d].on /\ k[d].sealed = u.session.active /\ ~DropsSecuritySession(d)
               /\ u.attr[d].fallback.remaining + k[d].sent = k[d].header.total
    BY <1>2, <1>3, <2>1 DEF Trusting, Agreed
  <2> QED
    BY <1>2, <1>5, <2>1 DEF Trusting, Agreed
<1>7. Promises(u, k, q)
  BY <1>2, <1>5 DEF Trusting, Promises
<1>8. Standing(u, k)
  <2>1. SUFFICES ASSUME NEW d \in Chars, k[d].on, Working(u, d)
                 PROVE  /\ InProgressOn(u, d)
                        /\ k[d].header.total = Len(k[d].body)
                        /\ k[d].sent <= k[d].header.total
                        /\ DropsSecuritySession(d) => \A e \in Chars \ {d} : ~k[e].on
    BY DEF Standing
  <2>2. d # c /\ k[d] = a[d] /\ \A e \in Chars : k[e].on => a[e].on
    BY <1>3, <2>1
  <2>3. InProgressOn(u, d)
    BY <1>2, <2>1, <2>2 DEF Trusting, Awaits, InProgressOn
  <2> QED
    BY <2>1, <2>2, <2>3 DEF Trusting, Awaits
<1> QED
  BY <1>6, <1>7, <1>8 DEF Settling

LEMMA ReadSettles ==
    ASSUME NEW w, NEW a, NEW p, Inv(w, a, p), ~Failed(w), ~w.session.terminal,
           w.link.connected, Trusting(w, a, p), w.gap = InStep,
           NEW c \in Chars, a[c].on, a[c].sent = a[c].header.total,
           NEW room \in Nat, NEW outcome,
           NEW u, u = HandleReadRequest(w, c, "Body", room, outcome),
           NEW k, NEW q,
           \/ Through(w, c, u) /\ k = Forgotten(a, c) /\ q = Promised(u, a, p, c)
           \/ ~Through(w, c, u) /\ k = a /\ q = p
    PROVE  Going(u) /\ Settling(u, k, q) /\ u.gap = Leaving(a[c].sealed)
<1>1. Going(w) /\ Calm(w) /\ Readable(w, c)
  BY InvTyped, AskedReadable DEF Trusting
<1>2. /\ Calm(u)
      /\ DropsSecuritySession(c) => \A d \in Chars : ~u.attr[d].fallback.timer
      /\ IF w.attr[c].fallback.timer
         THEN /\ u.gap = Leaving(w.session.active) /\ u.proc = w.proc
              /\ u.session.active = w.session.active
         ELSE /\ u.gap = Leaving(w.proc.startedSecured) /\ ~u.attr[c].fallback.timer
              /\ u.session.active = w.session.active \/ DropsSecuritySession(c)
              /\ u.proc.txn.state = "WaitingForInitialWrite" /\ u.proc.timer
                     => u.proc.multi = "TimedWrite"
  BY <1>1, ReadRequestServed
<1>3. FullRead(w, c, u) \/ FallbackAnswered(w, c, u)
  <2> DEFINE space == "Body"
  <2>1. u = HandleReadRequest(w, c, space, room, outcome)
    OBVIOUS
  <2> HIDE DEF space
  <2>2. Closed(u) \/ FullRead(w, c, u) \/ FallbackAnswered(w, c, u)
    BY <2>1, ReadFields
  <2> QED
    BY <1>2, <2>2 DEF Calm, Closed
<1>4. Going(u)
  BY <1>3 DEF FullRead, FallbackAnswered
<1>5. CASE w.attr[c].fallback.timer
  <2>1. ~FullRead(w, c, u)
    BY <1>1, <1>5 DEF FullRead, Going, ProceduresSound
  <2>2. FallbackAnswered(w, c, u) /\ Through(w, c, u)
    BY <1>3, <1>5, <2>1, NoFallbackFields DEF FallbackAnswered, Through
  <2>3. a[c].sealed = w.session.active
    BY <1>5 DEF Trusting, Agreed
  <2>4. Settling(u, k, q)
    BY <1>2, <2>2, FallbackReadSettles
  <2> QED
    BY <1>2, <1>4, <1>5, <2>3, <2>4
<1>6. CASE ~w.attr[c].fallback.timer
  <2>1. FullRead(w, c, u)
    BY <1>3, <1>6 DEF FallbackAnswered
  <2>2. a[c].sealed = w.proc.startedSecured
    <3>1. w.proc.char = c /\ w.proc.txn.state # "WaitingForInitialWrite"
      BY <1>6 DEF Trusting, Awaits, InProgressOn
    <3> QED
      BY <3>1 DEF Trusting, Agreed
  <2>3. Settling(u, k, q)
    BY <1>2, <1>6, <2>1, FullReadSettles
  <2> QED
    BY <1>2, <1>4, <1>6, <2>2, <2>3
<1> QED
  BY <1>5, <1>6

LEMMA ChunkTyped ==
    ASSUME NEW b \in Bodies, NEW s \in Nat, NEW n \in Nat
    PROVE  Chunk(b, s, n) \in Bodies
<1> DEFINE e == IF s + n < Len(b) THEN s + n ELSE Len(b)
<1>0. b \in Seq(Words)
  BY DEF Bodies
<1>1. e \in Nat /\ e <= Len(b)
  BY <1>0
<1>2. Chunk(b, s, n) = SubSeq(b, s + 1, e)
  BY DEF Chunk
<1> HIDE DEF e
<1>3. \A i \in s + 1 .. e : b[i] \in Words
  BY <1>0, <1>1, ElementOfSeq
<1> QED
  BY <1>0, <1>1, <1>2, <1>3, SubSeqProperties DEF Bodies

\* A response is read as it was sealed.
LEMMA ReadsInStep ==
    ASSUME NEW u \in Worlds, NEW c \in Chars, asked[c].sealed \in BOOLEAN,
           u.gap = Leaving(asked[c].sealed)
    PROVE  Reads(u, c).gap = InStep
<1>1. CASE asked[c].sealed
  <2> DEFINE n == IF u.gap.out = 1 THEN 0 ELSE 2
  <2>1. n = 0
    BY <1>1 DEF Leaving
  <2>2. Reads(u, c) = [u EXCEPT !.gap.out = n]
    BY <1>1 DEF Reads
  <2> HIDE DEF n
  <2>3. Reads(u, c).gap = [u.gap EXCEPT !.out = n]
    BY <2>2 DEF Worlds
  <2> QED
    BY <1>1, <2>1, <2>3 DEF Leaving, InStep
<1>2. CASE ~asked[c].sealed
  <2>1. Reads(u, c) = u
    BY <1>2 DEF Reads
  <2> QED
    BY <1>2, <2>1 DEF Leaving, InStep
<1> QED
  BY <1>1, <1>2

LEMMA SettledTrust ==
    ASSUME NEW u, Going(u), NEW x \in [Chars -> Askings], NEW y, Settling(u, x, y),
           NEW v, Alike(u, v), v.gap = InStep
    PROVE  Trust(v, Kept(v, x), y)
<1>1. /\ v.link = u.link /\ v.running = u.running /\ v.pairing = u.pairing
      /\ v.session = u.session /\ v.proc = u.proc /\ v.attr = u.attr /\ v \in Worlds
  BY DEF Alike
<1>2. ProceduresSound(v)
  BY <1>1 DEF Going, ProceduresSound
<1>3. Calm(v) /\ Agreed(v, x) /\ Promises(v, x, y)
  BY <1>1 DEF Settling, Calm, IsSecured, Agreed, Promises
<1>4. Standing(v, x)
  BY <1>1 DEF Settling, Standing, Working, InProgressOn
<1> QED
  BY <1>2, <1>3, <1>4, KeptTrust

-----------------------------------------------------------------------------
(* What every step keeps.                                                  *)

LEMMA SameTrust ==
    ASSUME NEW w, NEW a, NEW p, Trust(w, a, p), NEW v, v.link = w.link, v.running = w.running,
           v.pairing = w.pairing, v.session = w.session, v.proc = w.proc, v.attr = w.attr,
           v.gap = w.gap
    PROVE  Trust(v, a, p)
<1>1. Calm(v)
  BY DEF Trust, Calm, IsSecured
<1>2. Agreed(v, a) /\ Promises(v, a, p)
  BY DEF Trust, Agreed, Promises
<1>3. Awaits(v, a)
  BY DEF Trust, Awaits, InProgressOn
<1> QED
  BY <1>1, <1>2, <1>3 DEF Trust

LEMMA AnsweredTrust ==
    ASSUME NEW v, NEW a, NEW p, Trust(v, Kept(v, a), p), Answered(v, a, p)
    PROVE  Trust(Accessory, asked, prepared)'
<1>1. Becomes(v) /\ asked' = Kept(v, a) /\ prepared' = p
  BY DEF Answered, Trust, Calm
<1> DEFINE x == Accessory'
<1>2. /\ x.link = v.link /\ x.running = v.running /\ x.pairing = v.pairing
      /\ x.session = v.session /\ x.proc = v.proc /\ x.attr = v.attr /\ x.gap = v.gap
  BY <1>1 DEF Accessory, Becomes
<1> DEFINE k == Kept(v, a)
<1>3. Trust(v, k, p)
  OBVIOUS
<1> HIDE DEF x, k
<1>4. Trust(x, k, p)
  BY <1>2, <1>3, SameTrust
<1> QED
  BY <1>1, <1>4 DEF x, k

\* What is true of the accessory is true of a world that has other nonces.
LEMMA AlikeTrusting ==
    ASSUME NEW w, NEW a, NEW p, Trusting(w, a, p), NEW v, Alike(w, v)
    PROVE  Trusting(v, a, p)
<1>1. Calm(v)
  BY DEF Trusting, Calm, IsSecured, Alike
<1>2. Agreed(v, a) /\ Promises(v, a, p)
  BY DEF Trusting, Agreed, Promises, Alike
<1>3. Awaits(v, a)
  BY DEF Trusting, Awaits, InProgressOn, Alike
<1> QED
  BY <1>1, <1>2, <1>3 DEF Trusting

\* A message that is sealed as the other end expects is on its way.
LEMMA SealedArrives ==
    ASSUME LinkInv, TrustKept, clean, link.connected, NEW s \in BOOLEAN,
           NEW w, w = Seals(Accessory, SealFor(s))
    PROVE  /\ w.gap = Arriving(s) /\ Trusting(w, asked, prepared) /\ ~w.session.terminal
           /\ w.session = session /\ Inv(w, asked, prepared) /\ ~Failed(w) /\ w.link.connected
           /\ asked \in [Chars -> Askings] /\ prepared \in [Chars -> Bodies]
<1>1. Trust(Accessory, asked, prepared) /\ Accessory \in Worlds
  BY DEF TrustKept, LinkInv, Inv, Sound
<1>2. Trusting(Accessory, asked, prepared) /\ Accessory.gap = InStep
  BY <1>1 DEF Trust, Trusting
<1>3. w.gap = Arriving(s)
  <2>1. CASE s
    <3> DEFINE n == Wider(Accessory.gap.in)
    <3>1. n = 1
      BY <1>2 DEF Wider, InStep
    <3>2. w = [Accessory EXCEPT !.gap.in = n]
      BY <2>1 DEF Seals, SealFor
    <3> HIDE DEF n
    <3>3. w.gap = [Accessory.gap EXCEPT !.in = n]
      BY <1>1, <3>2 DEF Worlds
    <3> DEFINE g == Accessory.gap
    <3>4. g \in Gaps /\ g.in = 0 /\ g.out = 0
      BY <1>1, <1>2, WorldFields DEF InStep
    <3>5. w.gap = [g EXCEPT !.in = n]
      BY <3>3
    <3> HIDE DEF g
    <3>6. w.gap \in Gaps /\ w.gap.in = 1 /\ w.gap.out = 0
      BY <3>1, <3>4, <3>5 DEF Gaps
    <3> QED
      BY <2>1, <3>6 DEF Arriving, Gaps
  <2>2. CASE ~s
    <3>1. w = Accessory
      BY <2>2 DEF Seals, SealFor
    <3> QED
      BY <1>2, <2>2, <3>1 DEF Arriving, InStep
  <2> QED
    BY <2>1, <2>2
<1> DEFINE seal == SealFor(s)
<1>4. w = Seals(Accessory, seal)
  OBVIOUS
<1> HIDE DEF seal
<1>5. /\ Alike(Accessory, w) /\ Inv(w, asked, prepared) /\ ~Failed(w) /\ w.link.connected
      /\ w.session = session
      /\ asked \in [Chars -> Askings] /\ prepared \in [Chars -> Bodies]
  BY <1>4, SealedAccessory
<1>6. Trusting(w, asked, prepared)
  BY <1>2, <1>5, AlikeTrusting
<1> QED
  BY <1>3, <1>5, <1>6 DEF Trusting, Calm

\* A step of a link that stays.
LEMMA StaysTrusted ==
    ASSUME NEW u, u.link.connected, Becomes(u),
           clean' => Trust(Accessory, asked, prepared)'
    PROVE  TrustKept'
BY DEF TrustKept, Becomes

LEMMA BeginTrust ==
    ASSUME LinkInv, TrustKept, BeginRequest
    PROVE  TrustKept'
<1>1. PICK r \in Requests, n \in Lengths, seal \in {"Next", "Old", "None"} :
          LET c == r.char
              header == [r.header EXCEPT !.total = Len(r.body)]
              chunk == Chunk(r.body, 0, n)
              w == HandleWriteRequest(Seals(Accessory, seal), c, First(header, chunk), seal)
          IN /\ Carries
             /\ Behaves(BeginsWell(r, seal))
             /\ Answered(w,
                    [asked EXCEPT ![c] = [on |-> TRUE, header |-> header, body |-> r.body,
                                          sent |-> Len(chunk), sealed |-> seal = "Next"]],
                    IF DropsSecuritySession(c) THEN [NonePrepared EXCEPT ![c] = prepared[c]] ELSE prepared)
  BY DEF BeginRequest
<1> DEFINE c == r.char
           header == [r.header EXCEPT !.total = Len(r.body)]
           chunk == Chunk(r.body, 0, n)
           m == First(header, chunk)
           w == Seals(Accessory, seal)
           u == HandleWriteRequest(w, c, m, seal)
           sealed == seal = "Next"
           b == [on |-> TRUE, header |-> header, body |-> r.body, sent |-> Len(chunk),
                 sealed |-> sealed]
           a == [asked EXCEPT ![c] = b]
           q == Stays(prepared, c)
<1>2. Carries /\ Behaves(BeginsWell(r, seal)) /\ Answered(u, a, q)
  BY <1>1 DEF Stays
<1>3. /\ c \in Chars /\ r.body \in Bodies /\ header \in Headers
      /\ header.total = Len(r.body) /\ header.opcode = r.header.opcode
  <2> DEFINE t == Len(r.body)
  <2>1. r.header \in Headers
    BY RequestFields
  <2>2. [r.header EXCEPT !.total = t].opcode = r.header.opcode
    BY <2>1 DEF Headers
  <2> QED
    BY <2>2, RequestFields
<1>4. /\ chunk \in Bodies /\ Len(chunk) \in Nat /\ Len(chunk) <= Len(r.body)
      /\ chunk = SubSeq(r.body, 1, Len(chunk))
  <2> DEFINE s == 0
             x == r.body
  <2>1. /\ s \in Nat /\ s <= Len(x) /\ n \in Nat /\ x \in Bodies
        /\ chunk = Chunk(x, s, n) /\ s = 0
    BY <1>3, LinkAssumption DEF Bodies
  <2> HIDE DEF s, x, chunk
  <2>2. /\ chunk \in Bodies /\ Len(chunk) \in Nat /\ chunk = SubSeq(x, 1, Len(chunk))
        /\ s + Len(chunk) <= Len(x)
    BY <2>1, ChunkFollows
  <2> QED
    BY <2>1, <2>2 DEF x
<1>5. sealed \in BOOLEAN
  OBVIOUS
<1> HIDE DEF header, chunk, sealed
<1>6. /\ b \in Askings /\ b.on /\ b.header = header /\ b.body = r.body
      /\ b.sent = Len(chunk) /\ b.sealed = sealed
  BY <1>3, <1>4, <1>5 DEF Askings
<1>7. m \in Messages /\ m.kind = "First" /\ m.header = header /\ m.chunk = chunk
  BY <1>3, <1>4, MessageTypes DEF First
<1> HIDE DEF b, m
<1>8. Begun(m, b) /\ IsRequest(m)
  BY <1>3, <1>4, <1>6, <1>7 DEF Begun, IsRequest
<1>9. /\ Alike(Accessory, w) /\ Inv(w, asked, prepared) /\ ~Failed(w) /\ w.link.connected
  BY <1>2, SealedAccessory DEF Carries
<1>10. u.link.connected
  <2> HIDE DEF w
  <2> QED
    BY <1>3, <1>7, <1>9, WriteFields
<1>11. ASSUME clean'
       PROVE  Trust(Accessory, asked, prepared)'
  <2> DEFINE s == session.active /\ ~DropsSecuritySession(c)
  <2>1. clean /\ link.connected /\ BeginsWell(r, seal)
    BY <1>2, <1>11 DEF Behaves, Carries
  <2>2. s \in BOOLEAN /\ seal = SealFor(s) /\ sealed = s
    BY <2>1 DEF BeginsWell, SealFor, sealed
  <2>3. w = Seals(Accessory, SealFor(s)) /\ u = HandleWriteRequest(w, c, m, SealFor(s))
    BY <2>2
  <2> HIDE DEF w, u
  <2>4. s = (session.active /\ ~DropsSecuritySession(c))
    OBVIOUS
  <2> HIDE DEF s
  <2>5. /\ w.gap = Arriving(s) /\ Trusting(w, asked, prepared) /\ ~w.session.terminal
        /\ w.session = session
    BY <2>1, <2>2, <2>3, SealedArrives
  <2>6. Opening(w, asked, prepared, c, m, b, s)
    <3>1. ~asked[c].on /\ ~Exchanging
      BY <2>1 DEF BeginsWell
    <3>2. /\ b.header.opcode = "CharacteristicTimedWrite" => b.body # <<>>
          /\ (b.header.opcode = "CharacteristicExecuteWrite") = (prepared[c] # <<>>)
      BY <1>3, <1>6, <2>1 DEF BeginsWell
    <3> QED
      BY <1>6, <1>8, <2>2, <2>4, <2>5, <3>1, <3>2 DEF Opening, Exchanging
  <2>7. a = [asked EXCEPT ![c] = b] /\ q = Stays(prepared, c)
    OBVIOUS
  <2> HIDE DEF a, q, c
  <2>8. Trust(u, Kept(u, a), q)
    BY <1>3, <1>6, <1>7, <1>9, <2>2, <2>3, <2>5, <2>6, <2>7, BegunTrust
  <2> QED
    BY <1>2, <2>8, AnsweredTrust
<1> HIDE DEF u, a, q
<1>12. Becomes(u)
  BY <1>2 DEF Answered
<1> QED
  BY <1>10, <1>11, <1>12, StaysTrusted

LEMMA ContinueTrust ==
    ASSUME LinkInv, TrustKept, ContinueRequest
    PROVE  TrustKept'
<1>1. PICK c \in Chars, tid \in {r.header.tid : r \in Requests}, n \in Lengths,
           seal \in {"Next", "None"} :
          LET chunk == Chunk(asked[c].body, asked[c].sent, n)
              w == HandleWriteRequest(Seals(Accessory, seal), c, Continuation(tid, chunk), seal)
          IN /\ Carries /\ Busy
             /\ Behaves(ContinuesWell(c, tid, Len(chunk), seal))
             /\ Answered(w, [asked EXCEPT ![c].sent = @ + Len(chunk)], prepared)
  BY DEF ContinueRequest
<1> DEFINE chunk == Chunk(asked[c].body, asked[c].sent, n)
           m == Continuation(tid, chunk)
           w == Seals(Accessory, seal)
           u == HandleWriteRequest(w, c, m, seal)
           a == Sent(asked, c, asked[c].sent + Len(m.chunk))
<1>2. Carries /\ Behaves(ContinuesWell(c, tid, Len(chunk), seal)) /\ Answered(u, a, prepared)
  BY <1>1 DEF Sent, Continuation
<1>3. /\ Alike(Accessory, w) /\ Inv(w, asked, prepared) /\ ~Failed(w) /\ w.link.connected
      /\ asked \in [Chars -> Askings] /\ prepared \in [Chars -> Bodies]
  BY <1>2, SealedAccessory DEF Carries
<1>4. tid \in Nat /\ n \in Nat
  BY LinkAssumption, RequestFields DEF Headers
<1>5. chunk \in Bodies
  BY <1>3, <1>4, AskingFields, ChunkTyped
<1>6. m \in Messages /\ m.kind = "Continuation" /\ m.chunk = chunk /\ m.tid = tid
  BY <1>4, <1>5, MessageTypes DEF Continuation
<1>7. u.link.connected
  <2> HIDE DEF m, w
  <2> QED
    BY <1>3, <1>6, WriteFields
<1>8. ASSUME clean'
      PROVE  Trust(Accessory, asked, prepared)'
  <2> DEFINE s == asked[c].sealed
  <2>1. /\ clean /\ link.connected /\ asked[c].on /\ tid = asked[c].header.tid
        /\ Len(chunk) > 0 /\ seal = SealFor(s)
    BY <1>2, <1>8 DEF Behaves, Carries, ContinuesWell, SealFor
  <2>2. s \in BOOLEAN /\ s = asked[c].sealed
    BY <1>3, AskingFields
  <2>3. w = Seals(Accessory, SealFor(s)) /\ u = HandleWriteRequest(w, c, m, SealFor(s))
    BY <2>1
  <2> HIDE DEF w, u, m, s
  <2>4. /\ w.gap = Arriving(s) /\ Trusting(w, asked, prepared) /\ ~w.session.terminal
    BY <2>1, <2>2, <2>3, SealedArrives
  <2>5. asked[c].sent + Len(chunk) <= asked[c].header.total
    <3> DEFINE x == asked[c].body
               e == asked[c].sent
    <3>1. /\ x \in Bodies /\ e \in Nat /\ asked[c].header.total = Len(x) /\ e <= Len(x)
      BY <1>3, <2>1, <2>4, AskingFields DEF Trusting, Awaits
    <3>2. chunk = Chunk(x, e, n)
      OBVIOUS
    <3> HIDE DEF x, e, chunk
    <3>3. e + Len(chunk) <= Len(x)
      BY <1>4, <3>1, <3>2, ChunkFollows
    <3> QED
      BY <3>1, <3>3 DEF e
  <2>6. Following(asked, c, m, s)
    BY <1>6, <2>1, <2>2, <2>5 DEF Following
  <2>7. a = Sent(asked, c, asked[c].sent + Len(m.chunk))
    OBVIOUS
  <2> HIDE DEF a
  <2>8. Trust(u, Kept(u, a), prepared)
    BY <1>3, <1>6, <2>2, <2>3, <2>4, <2>6, <2>7, ContinuedTrust
  <2> QED
    BY <1>2, <2>8, AnsweredTrust
<1> HIDE DEF u, a
<1>9. Becomes(u)
  BY <1>2 DEF Answered
<1> QED
  BY <1>7, <1>8, <1>9, StaysTrusted

LEMMA ReadTrust ==
    ASSUME LinkInv, TrustKept, ReadResponse
    PROVE  TrustKept'
<1>1. PICK c \in Chars, space \in Spaces, outcome \in Outcomes :
        /\ Carries
        /\ Behaves(ReadsWell(c, space))
        /\ \E w \in {HandleReadRequest(Accessory, c, space, 1, outcome)} :
              IF asked[c].on /\ ~Failed(w) /\ Over(w, c)
              THEN Answered(Reads(w, c), [asked EXCEPT ![c] = NotAsked],
                            [prepared EXCEPT ![c] = IF Prepares(w, c) THEN Confirmed(c) ELSE <<>>])
              ELSE Happens(IF Failed(w) THEN w ELSE Reads(w, c))
  BY DEF ReadResponse
<1> DEFINE w == Accessory
           room == 1
           u == HandleReadRequest(w, c, space, room, outcome)
           k == Forgotten(asked, c)
           q == Promised(u, asked, prepared, c)
<1>2. /\ asked[c].on /\ ~Failed(u) /\ Through(w, c, u) =>
             Answered(Reads(u, c), k, q)
      /\ ~(asked[c].on /\ ~Failed(u) /\ Through(w, c, u)) =>
             Answered(IF Failed(u) THEN u ELSE Reads(u, c), asked, prepared)
  BY <1>1, AccessoryFields
     DEF Happens, Over, Through, Forgotten, Promised, Confirms, Confirmed, Prepares
<1>3. /\ Inv(w, asked, prepared) /\ ~Failed(w) /\ w.link.connected /\ w \in Worlds
      /\ asked \in [Chars -> Askings] /\ prepared \in [Chars -> Bodies]
  BY <1>1, AccessoryFields DEF LinkInv, Inv, Sound, Carries
<1>4. room \in Nat
  OBVIOUS
<1>5. clean' => /\ link.connected /\ asked[c].on /\ asked[c].sent = asked[c].header.total
                /\ space = "Body" /\ Trust(w, asked, prepared)
  BY <1>1 DEF Behaves, Carries, ReadsWell, TrustKept
<1> HIDE DEF w, room
<1>6. u \in Worlds /\ u.link.connected
  BY <1>3, <1>4, ReadFields
<1>7. ASSUME NEW v, Alike(u, v), Becomes(v)
      PROVE  v.link.connected
  BY <1>6, <1>7 DEF Alike
<1>8. PICK v : /\ Alike(u, v) /\ Becomes(v)
               /\ v = IF Failed(u) THEN u ELSE Reads(u, c)
               /\ \/ asked[c].on /\ ~Failed(u) /\ Through(w, c, u) /\ Answered(v, k, q)
                  \/ /\ ~(asked[c].on /\ ~Failed(u) /\ Through(w, c, u))
                     /\ Answered(v, asked, prepared)
  <2> HIDE DEF u, k, q
  <2>1. Alike(u, Reads(u, c)) /\ Alike(u, u)
    BY <1>6, ReadsAlike DEF Alike
  <2>2. CASE asked[c].on /\ ~Failed(u) /\ Through(w, c, u)
    BY <1>2, <2>1, <2>2 DEF Answered
  <2>3. CASE ~(asked[c].on /\ ~Failed(u) /\ Through(w, c, u))
    BY <1>2, <2>1, <2>3 DEF Answered
  <2> QED
    BY <2>2, <2>3
<1>9. ASSUME clean'
      PROVE  Trust(Accessory, asked, prepared)'
  <2>1. /\ asked[c].on /\ asked[c].sent = asked[c].header.total
        /\ ~w.session.terminal /\ Trusting(w, asked, prepared) /\ w.gap = InStep
    BY <1>5, <1>9 DEF Trust, Trusting, Calm
  <2>2. u = HandleReadRequest(w, c, "Body", room, outcome)
    BY <1>5, <1>9
  <2>3. k = Forgotten(asked, c) /\ q = Promised(u, asked, prepared, c)
    OBVIOUS
  <2> HIDE DEF u, k, q
  <2>4. PICK x, y : /\ \/ Through(w, c, u) /\ x = k /\ y = q
                       \/ ~Through(w, c, u) /\ x = asked /\ y = prepared
                    /\ ~Failed(u) => Answered(v, x, y)
    BY <1>8, <2>1
  <2>5. Going(u) /\ Settling(u, x, y) /\ u.gap = Leaving(asked[c].sealed)
    <3>1. \/ /\ Through(w, c, u) /\ x = Forgotten(asked, c)
             /\ y = Promised(u, asked, prepared, c)
          \/ ~Through(w, c, u) /\ x = asked /\ y = prepared
      BY <2>3, <2>4
    <3> QED
      BY <1>3, <1>4, <2>1, <2>2, <3>1, ReadSettles
  <2>6. v = Reads(u, c) /\ ~Failed(u)
    BY <1>8, <2>5 DEF Going
  <2>7. v.gap = InStep
    BY <1>3, <1>6, <2>5, <2>6, AskingFields, ReadsInStep
  <2>8. x \in [Chars -> Askings]
    BY <1>3, <2>3, <2>4, ForgottenFields
  <2>9. Trust(v, Kept(v, x), y)
    BY <1>8, <2>5, <2>7, <2>8, SettledTrust
  <2> QED
    BY <2>4, <2>6, <2>9, AnsweredTrust
<1> QED
  BY <1>7, <1>8, <1>9, StaysTrusted

-----------------------------------------------------------------------------
(* The other steps.                                                        *)

SameProc(p, q) ==
    /\ q.char = p.char /\ q.timer = p.timer /\ q.startedSecured = p.startedSecured
    /\ q.multi = p.multi /\ q.txn = p.txn /\ q.timed.length = p.timed.length

\* Nothing changed that either end goes by.
Eased(w, u) ==
    /\ u.running = w.running /\ u.pairing.stored = w.pairing.stored
    /\ u.link.connected = w.link.connected /\ u.link.cancelled = w.link.cancelled
    /\ SameSession(w.session, u.session) /\ u.session.linkTimer = w.session.linkTimer
    /\ u.session.exchange["PairVerify"] = 3 => w.session.exchange["PairVerify"] = 3
    /\ u.gap = w.gap /\ SameProc(w.proc, u.proc)
    /\ \A c \in Chars : u.attr[c].fallback = w.attr[c].fallback

LEMMA EasedTrust ==
    ASSUME LinkInv, TrustKept, link.connected, UNCHANGED clean,
           NEW u, Eased(Accessory, u), Happens(u)
    PROVE  TrustKept'
<1> DEFINE w == Accessory
           a == asked
<1>1. ASSUME clean'
      PROVE  Trust(Accessory, asked, prepared)'
  <2>1. Trust(w, a, prepared) /\ w \in Worlds /\ a \in [Chars -> Askings]
    BY <1>1 DEF TrustKept, LinkInv, Inv, Sound
  <2>2. ProceduresSound(w)
    BY <2>1 DEF LinkInv, Inv, Sound, Trust, Calm
  <2>3. Answered(u, a, prepared)
    BY DEF Happens
  <2> HIDE DEF w, a
  <2>4. Eased(w, u)
    BY DEF w
  <2>5. ProceduresSound(u)
    BY <2>2, <2>4 DEF ProceduresSound, PreparedSound, Eased, SameProc
  <2>6. Calm(u) /\ u.gap = InStep
    BY <2>1, <2>4 DEF Trust, Calm, Eased, SameSession, IsSecured
  <2>7. Agreed(u, a) /\ Promises(u, a, prepared)
    <3>1. Agreed(u, a)
      BY <2>1, <2>4, SMTT(20) DEF Trust, Agreed, Eased, SameProc, SameSession
    <3>2. Promises(u, a, prepared)
      BY <2>1, <2>4, SMTT(20) DEF Trust, Promises, Eased, SameProc, SameSession
    <3> QED
      BY <3>1, <3>2
  <2>8. Standing(u, a)
    <3>1. \A d \in Chars : InProgressOn(u, d) = InProgressOn(w, d)
      BY <2>4 DEF InProgressOn, Eased, SameProc
    <3> QED
      BY <2>1, <3>1 DEF Trust, Awaits, Standing
  <2>9. Trust(u, Kept(u, a), prepared)
    BY <2>1, <2>5, <2>6, <2>7, <2>8, KeptTrust
  <2> QED
    BY <2>3, <2>9, AnsweredTrust
<1>2. u.link.connected /\ Becomes(u)
  BY AccessoryFields DEF Eased, Happens, Answered
<1> QED
  BY <1>1, <1>2, StaysTrusted

\* Events that waited go.
LEMMA PendingEases ==
    ASSUME NEW w \in Worlds, NEW x \in Worlds,
           x.running = w.running, x.pairing = w.pairing, x.session = w.session,
           x.proc = w.proc, x.gap = w.gap, x.link.connected = w.link.connected,
           x.link.cancelled = w.link.cancelled,
           \A c \in Chars : x.attr[c].fallback = w.attr[c].fallback,
           NEW u, u = SendPendingEventNotifications(x)
    PROVE  Eased(w, u)
<1>1. Indicated(x, u)
  BY SendPendingFields
<1>2. /\ u.session = x.session /\ u.gap = x.gap /\ u.running = x.running
      /\ u.pairing = x.pairing /\ u.proc = x.proc
      /\ u.link.connected = x.link.connected /\ u.link.cancelled = x.link.cancelled
      /\ \A c \in Chars : u.attr[c].fallback = x.attr[c].fallback
  BY <1>1 DEF Indicated, SameTalk, SameHouse
<1>3. SameSession(w.session, u.session)
  BY <1>2, WorldFields DEF SameSession
<1> QED
  BY <1>2, <1>3 DEF Eased, SameProc

LEMMA SubscribeTrust ==
    ASSUME LinkInv, TrustKept, Subscribe
    PROVE  TrustKept'
<1>1. PICK c \in Chars, enable \in BOOLEAN :
          /\ Lasts /\ Db(c).events /\ UNCHANGED clean
          /\ Happens(SetNotificationsEnabled(Accessory, c, enable))
  BY DEF Subscribe
<1> DEFINE w == Accessory
           u == SetNotificationsEnabled(w, c, enable)
<1>2. w \in Worlds /\ Happens(u) /\ link.connected
  BY <1>1, AccessoryInv DEF Lasts
<1> HIDE DEF w
<1>3. Eased(w, u)
  <2>1. CASE w.attr[c].subscribed = enable
    <3>1. u = w
      BY <2>1 DEF SetNotificationsEnabled
    <3> QED
      BY <1>2, <3>1, WorldFields DEF Eased, SameSession, SameProc
  <2>2. CASE w.attr[c].subscribed # enable
    <3>1. PICK b \in [Chars -> Attrs] :
              /\ [w EXCEPT !.attr[c].subscribed = enable] = WithAttr(w, b)
              /\ b[c].fallback = w.attr[c].fallback
              /\ \A d \in Chars \ {c} : b[d] = w.attr[d]
      BY <1>2, SMTT(20), OneAttr
    <3> DEFINE v == WithAttr(w, b)
               t == IF enable THEN v.told \cup {c} ELSE v.told \ {c}
               x == IF ~IsSecured(v) THEN v ELSE WithTold(v, t)
    <3>2. u = SendPendingEventNotifications(x)
      <4>1. u = SendPendingEventNotifications(Tells(v, c, enable))
        BY <2>2, <3>1 DEF SetNotificationsEnabled
      <4> HIDE DEF v
      <4>2. Tells(v, c, enable) = x
        BY DEF Tells, WithTold
      <4> QED
        BY <4>1, <4>2
    <3>3. /\ v \in Worlds /\ v.attr = b /\ v.link = w.link
          /\ v.running = w.running /\ v.pairing = w.pairing
          /\ v.session = w.session /\ v.proc = w.proc /\ v.gap = w.gap
      BY <1>2 DEF WithAttr, Worlds
    <3>4. t \in SUBSET Chars
      BY <3>3, WorldFields
    <3> HIDE DEF v, t
    <3>5. /\ x \in Worlds /\ x.attr = b /\ x.link = w.link
          /\ x.running = w.running /\ x.pairing = w.pairing
          /\ x.session = w.session /\ x.proc = w.proc /\ x.gap = w.gap
      BY <3>3, <3>4 DEF WithTold, Worlds
    <3> HIDE DEF x, u
    <3>6. \A d \in Chars : x.attr[d].fallback = w.attr[d].fallback
      BY <3>1, <3>5
    <3> QED
      BY <1>2, <3>2, <3>5, <3>6, PendingEases
  <2> QED
    BY <2>1, <2>2
<1> QED
  BY <1>1, <1>2, <1>3, EasedTrust DEF w

LEMMA RaiseTrust ==
    ASSUME LinkInv, TrustKept, Raise
    PROVE  TrustKept'
<1>1. PICK c \in Chars :
          Db(c).events /\ Lasts /\ UNCHANGED clean /\ Happens(RaiseEvent(Accessory, c))
  BY DEF Raise
<1> DEFINE w == Accessory
           u == RaiseEvent(w, c)
           yes == TRUE
<1>2. w \in Worlds /\ Happens(u) /\ link.connected /\ yes \in BOOLEAN
  BY <1>1, AccessoryInv DEF Lasts
<1> HIDE DEF w
<1>3. u = SendPendingEventNotifications([w EXCEPT !.attr[c].pending = yes])
  BY DEF RaiseEvent
<1> HIDE DEF yes, u
<1>4. PICK b \in [Chars -> Attrs] :
          /\ [w EXCEPT !.attr[c].pending = yes] = WithAttr(w, b)
          /\ b[c].fallback = w.attr[c].fallback
          /\ \A d \in Chars \ {c} : b[d] = w.attr[d]
  BY <1>2, SMTT(20), OneAttr
<1> DEFINE x == WithAttr(w, b)
<1>5. u = SendPendingEventNotifications(x)
  BY <1>3, <1>4
<1>6. /\ x \in Worlds /\ x.attr = b /\ x.link = w.link
      /\ x.running = w.running /\ x.pairing = w.pairing
      /\ x.session = w.session /\ x.proc = w.proc /\ x.gap = w.gap
  BY <1>2 DEF WithAttr, Worlds
<1> HIDE DEF x
<1>7. \A d \in Chars : x.attr[d].fallback = w.attr[d].fallback
  BY <1>4, <1>6
<1>8. Eased(w, u)
  BY <1>2, <1>5, <1>6, <1>7, PendingEases
<1> QED
  BY <1>1, <1>2, <1>8, EasedTrust DEF w

LEMMA ConfirmTrust ==
    ASSUME LinkInv, TrustKept, ConfirmIndication
    PROVE  TrustKept'
<1> DEFINE w == Accessory
           l == [w.link EXCEPT !.blocked = FALSE]
           x == WithLink(w, l)
           u == HandleReadyToUpdateSubscribers(w)
<1>1. w \in Worlds /\ Happens(u) /\ link.connected /\ UNCHANGED clean
  BY AccessoryInv DEF ConfirmIndication, Carries
<1>2. u = SendPendingEventNotifications(x)
  BY DEF HandleReadyToUpdateSubscribers, WithLink
<1> HIDE DEF w, u
<1>3. l \in Links /\ l.connected = w.link.connected /\ l.cancelled = w.link.cancelled
  BY <1>1, WorldFields DEF Links
<1> HIDE DEF l
<1>4. /\ x \in Worlds /\ x.attr = w.attr /\ x.link = l
      /\ x.running = w.running /\ x.pairing = w.pairing
      /\ x.session = w.session /\ x.proc = w.proc /\ x.gap = w.gap
  BY <1>1, <1>3 DEF WithLink, Worlds
<1> HIDE DEF x
<1>5. Eased(w, u)
  BY <1>1, <1>2, <1>3, <1>4, PendingEases
<1> QED
  BY <1>1, <1>5, EasedTrust DEF w

LEMMA LoseAdminTrust ==
    ASSUME LinkInv, TrustKept, LoseAdmin
    PROVE  TrustKept'
<1> DEFINE w == Accessory
           p == [w.pairing EXCEPT !.admin = FALSE]
           u == [w EXCEPT !.pairing = p]
<1>1. w \in Worlds /\ Happens(u) /\ link.connected /\ UNCHANGED clean
  BY AccessoryInv DEF LoseAdmin, Lasts
<1> HIDE DEF w
<1>2. p \in Pairings /\ p.stored = w.pairing.stored
  BY <1>1, WorldFields DEF Pairings
<1> HIDE DEF p
<1>3. /\ u.attr = w.attr /\ u.link = w.link
      /\ u.running = w.running /\ u.pairing = p
      /\ u.session = w.session /\ u.proc = w.proc /\ u.gap = w.gap
  BY <1>1, <1>2 DEF Worlds
<1> HIDE DEF u
<1>4. Eased(w, u)
  BY <1>1, <1>2, <1>3, WorldFields DEF Eased, SameSession, SameProc
<1> QED
  BY <1>1, <1>4, EasedTrust DEF w

LEMMA TimedWriteTrust ==
    ASSUME LinkInv, TrustKept, TimedWriteExpires
    PROVE  TrustKept'
<1> DEFINE w == Accessory
           q == [w.proc EXCEPT !.timed.expired = TRUE]
           u == WithProc(w, q)
<1>1. /\ w \in Worlds /\ Happens(u) /\ UNCHANGED clean /\ Inv(w, asked, prepared)
      /\ w.proc.multi = "TimedWrite" /\ w.link = link
  BY AccessoryInv DEF TimedWriteExpires, WithProc
<1> HIDE DEF w
<1>2. w.link.connected
  BY <1>1, DetachedFields DEF Inv, Apart
<1>3. SameProc(w.proc, q)
  <2>1. w.proc \in Procs
    BY <1>1, WorldFields
  <2> QED
    BY <2>1 DEF Procs, SameProc
<1> HIDE DEF q
<1>4. /\ u.attr = w.attr /\ u.link = w.link
      /\ u.running = w.running /\ u.pairing = w.pairing
      /\ u.session = w.session /\ u.proc = q /\ u.gap = w.gap
  BY <1>1 DEF WithProc, Worlds
<1> HIDE DEF u
<1>5. Eased(w, u)
  BY <1>1, <1>3, <1>4, WorldFields DEF Eased, SameSession
<1> QED
  BY <1>1, <1>2, <1>5, EasedTrust DEF w

\* What nobody gave reason to end is not cut when it is safe.
LEMMA SafeTimerTrust ==
    ASSUME LinkInv, TrustKept, SafeTimer
    PROVE  TrustKept'
<1> DEFINE w == Accessory
           s == [w.session EXCEPT !.safe = TRUE]
           x == WithSession(w, s)
           u == SafeToDisconnectTimerExpired(w)
<1>1. w \in Worlds /\ Happens(u) /\ UNCHANGED clean /\ link.connected /\ w.link = link
  BY AccessoryInv DEF SafeTimer, Carries
<1>2. u = IF w.session.terminal \/ ~w.running THEN CancelCentralConnection(x) ELSE x
  BY DEF SafeToDisconnectTimerExpired, WithSession
<1>3. clean => Calm(w)
  BY <1>1 DEF TrustKept, Trust
<1> HIDE DEF w
<1>4. /\ SameSession(w.session, s) /\ s.linkTimer = w.session.linkTimer
      /\ s.exchange = w.session.exchange
  <2>1. w.session \in SessionStates
    BY <1>1, WorldFields
  <2> QED
    BY <2>1 DEF SameSession, SessionStates
<1> HIDE DEF s
<1>5. /\ x \in Worlds /\ x.attr = w.attr /\ x.link = w.link
      /\ x.running = w.running /\ x.pairing = w.pairing
      /\ x.session = s /\ x.proc = w.proc /\ x.gap = w.gap
  BY <1>1, <1>4 DEF WithSession, Worlds, SameSession
<1> HIDE DEF x
<1>6. CASE clean
  <2>1. u = x
    BY <1>2, <1>3, <1>6 DEF Calm
  <2>2. Eased(w, u)
    BY <1>4, <1>5, <2>1 DEF Eased, SameProc
  <2> HIDE DEF u
  <2> QED
    BY <1>1, <2>2, EasedTrust DEF w
<1>7. CASE ~clean
  <2>1. u.link.connected
    BY <1>1, <1>2, <1>5, CancelFields DEF Lived
  <2> HIDE DEF u
  <2>2. Becomes(u) /\ ~clean'
    BY <1>1, <1>7 DEF Happens, Answered
  <2> QED
    BY <2>1, <2>2, StaysTrusted
<1> QED
  BY <1>6, <1>7

\* A reason to end the link.
LEMMA BrokenTrust ==
    ASSUME NEW u, u.link.connected, Happens(u), clean' = FALSE
    PROVE  TrustKept'
BY StaysTrusted DEF Happens, Answered

LEMMA TerminatedTrust ==
    ASSUME NEW v \in Worlds, v.link.connected, Happens(Terminate(v)), clean' = FALSE
    PROVE  TrustKept'
<1> DEFINE u == Terminate(v)
<1>1. u.link.connected /\ Happens(u)
  BY TerminateLives DEF Lived
<1> HIDE DEF u
<1> QED
  BY <1>1, BrokenTrust

LEMMA GarbageTrust ==
    ASSUME LinkInv, TrustKept, WriteGarbage
    PROVE  TrustKept'
<1>1. PICK c \in Chars, seal \in {"Next", "None"} :
          /\ Carries /\ Behaves(FALSE)
          /\ Happens(HandleWriteRequest(Seals(Accessory, seal), c, Malformed, seal))
  BY DEF WriteGarbage
<1> DEFINE w == Seals(Accessory, seal)
           m == Malformed
           u == HandleWriteRequest(w, c, m, seal)
<1>2. Happens(u) /\ clean' = FALSE
  BY <1>1 DEF Behaves
<1>3. Inv(w, asked, prepared) /\ ~Failed(w) /\ w.link.connected /\ m \in Messages
  BY <1>1, SealedAccessory, MessageTypes DEF Carries
<1> HIDE DEF m, w
<1>4. u.link.connected
  BY <1>3, WriteFields
<1> HIDE DEF u
<1> QED
  BY <1>2, <1>4, BrokenTrust

LEMMA LosePairingTrust ==
    ASSUME LinkInv, TrustKept, LosePairing
    PROVE  TrustKept'
<1> DEFINE w == Accessory
           p == [stored |-> FALSE, admin |-> FALSE]
           u == [w EXCEPT !.pairing = p]
<1>1. w \in Worlds /\ w.link.connected /\ Happens(u) /\ clean' = FALSE
  BY AccessoryInv DEF LosePairing, Lasts
<1> HIDE DEF w, p
<1>2. u.link = w.link
  BY <1>1 DEF Worlds
<1> HIDE DEF u
<1> QED
  BY <1>1, <1>2, BrokenTrust

LEMMA StopTrust ==
    ASSUME LinkInv, TrustKept, Stop
    PROVE  TrustKept'
<1> DEFINE w == Accessory
           x == [w EXCEPT !.running = FALSE]
           u == IF w.session.safe THEN CancelCentralConnection(x) ELSE x
<1>1. w \in Worlds /\ w.link.connected /\ Happens(u) /\ clean' = FALSE
  BY AccessoryInv DEF Stop, Lasts
<1> HIDE DEF w
<1>2. x \in Worlds /\ x.link = w.link
  BY <1>1 DEF Worlds
<1> HIDE DEF x
<1>3. u.link.connected
  BY <1>1, <1>2, CancelFields DEF Lived
<1> HIDE DEF u
<1> QED
  BY <1>1, <1>3, BrokenTrust

LEMMA RunsLateTrust ==
    ASSUME LinkInv, TrustKept, LinkTimerRunsLate
    PROVE  TrustKept'
<1> DEFINE w == Accessory
           s == [w.session EXCEPT !.linkTimer = "Late"]
           u == WithSession(w, s)
<1>1. /\ w \in Worlds /\ Inv(w, asked, prepared) /\ w.session.linkTimer = "On"
      /\ Happens(u) /\ clean' = FALSE
  BY AccessoryInv DEF LinkTimerRunsLate, WithSession
<1> HIDE DEF w, s
<1>2. w.link.connected
  BY <1>1, CreatedFields DEF Inv, Apart
<1>3. u.link = w.link
  BY <1>1 DEF WithSession, Worlds
<1> HIDE DEF u
<1> QED
  BY <1>1, <1>2, <1>3, BrokenTrust

LEMMA LinkTimerTrust ==
    ASSUME LinkInv, TrustKept, LinkTimer \/ PairingTimer
    PROVE  TrustKept'
<1> DEFINE w == Accessory
           s == [w.session EXCEPT !.linkTimer = "Off"]
           t == [w.session EXCEPT !.pairingTimer = FALSE]
<1>1. w \in Worlds /\ Inv(w, asked, prepared) /\ w.link = link /\ w.session = session
  BY AccessoryInv
<1>2. s \in SessionStates /\ t \in SessionStates
  <2>1. w.session \in SessionStates
    BY <1>1, WorldFields
  <2> QED
    BY <2>1 DEF SessionStates
<1>3. w.link.connected
  <2>1. CASE LinkTimer
    <3>1. w.session.linkTimer = "Late"
      BY <1>1, <2>1 DEF LinkTimer
    <3> HIDE DEF w
    <3> QED
      BY <1>1, <3>1, CreatedFields DEF Inv, Apart
  <2>2. CASE PairingTimer
    BY <1>1, <2>2 DEF PairingTimer, Carries
  <2> QED
    BY <2>1, <2>2
<1>4. PICK r \in SessionStates : Happens(Terminate(WithSession(w, r))) /\ clean' = FALSE
  <2>1. CASE LinkTimer
    <3>1. Happens(Terminate(WithSession(w, s))) /\ clean' = FALSE
      BY <2>1 DEF LinkTimer, LinkTimerOrPairingProcedureTimerExpired, WithSession
    <3> QED
      BY <1>2, <3>1
  <2>2. CASE PairingTimer
    <3>1. Happens(Terminate(WithSession(w, t))) /\ clean' = FALSE
      BY <2>2 DEF PairingTimer, LinkTimerOrPairingProcedureTimerExpired, WithSession
    <3> QED
      BY <1>2, <3>1
  <2> QED
    BY <2>1, <2>2
<1> HIDE DEF w
<1> DEFINE v == WithSession(w, r)
<1>5. v \in Worlds /\ v.link = w.link
  BY <1>1, <1>4, WithSessionFields
<1>6. Happens(Terminate(v))
  BY <1>4
<1> HIDE DEF v
<1> QED
  BY <1>3, <1>4, <1>5, <1>6, TerminatedTrust

LEMMA ProcedureTimerTrust ==
    ASSUME LinkInv, TrustKept, ProcedureTimer
    PROVE  TrustKept'
<1> DEFINE w == Accessory
           v == Reset(w)
<1>1. w \in Worlds /\ w.link.connected /\ Happens(Terminate(v)) /\ clean' = FALSE
  BY AccessoryInv DEF ProcedureTimer, Carries, ProcedureTimerExpired
<1> HIDE DEF w
<1>2. v \in Worlds /\ v.link = w.link
  <2>1. w.proc.char \in Chars \cup {NotAttached}
    BY <1>1, WorldFields, ProcFields
  <2> QED
    BY <1>1, <2>1, AttachFields DEF Reset, Stayed
<1> HIDE DEF v
<1> QED
  BY <1>1, <1>2, TerminatedTrust

LEMMA FallbackTimerTrust ==
    ASSUME LinkInv, TrustKept, NEW c \in Chars, FallbackTimer(c)
    PROVE  TrustKept'
<1> DEFINE w == Accessory
           f == NoFallback
           v == [w EXCEPT !.attr[c].fallback = f]
<1>1. w \in Worlds /\ w.link.connected /\ Happens(Terminate(v)) /\ clean' = FALSE
  BY AccessoryInv DEF FallbackTimer, Carries, FallbackProcedureTimerExpired
<1>2. v = WithAttr(w, [w.attr EXCEPT ![c] = [w.attr[c] EXCEPT !.fallback = f]])
  BY DEF WithAttr
<1>3. f \in FallbackStates
  BY NoFallbackFields
<1> HIDE DEF v, f, w
<1>4. Outlived(w, v)
  BY <1>1, <1>2, <1>3, WithFallbackFields
<1> QED
  BY <1>1, <1>4, TerminatedTrust DEF Outlived

-----------------------------------------------------------------------------
(* Links that come and go.                                                 *)

LEMMA ConnectTrust ==
    ASSUME LinkInv, TrustKept, Connect
    PROVE  TrustKept'
<1> DEFINE w == Accessory
           u == HandleConnectedCentral(w)
           l == [connected |-> TRUE, cancelled |-> FALSE, blocked |-> FALSE]
           x == [c \in Chars |-> [w.attr[c] EXCEPT !.fallback = NoFallback]]
           v == [w EXCEPT !.attr = x]
           y == [c \in Chars |-> [v.attr[c] EXCEPT !.subscribed = FALSE, !.pending = FALSE]]
           r == [v EXCEPT !.attr = y]
           s == SessionCreated
           e == {}
<1>1. /\ w \in Worlds /\ Inv(w, asked, prepared) /\ Happens(u)
      /\ ~w.link.connected /\ w.running /\ w.gap = InStep
  BY AccessoryInv, AccessoryFields DEF Connect, TrustKept
<1>2. u = [r EXCEPT !.link = l, !.session = s, !.told = e]
  BY DEF HandleConnectedCentral, AbortAllFallbackProcedures, ResetEventState
<1> HIDE DEF w
<1>3. /\ u \in Worlds /\ u.proc = w.proc /\ u.session = SessionCreated
      /\ \A c \in Chars : ~u.attr[c].fallback.timer
  BY <1>1, ConnectedFields, NoFallbackFields
<1> HIDE DEF u
<1>4. w.proc = Detached
  BY <1>1 DEF Inv, Apart
<1>5. u.link = l /\ u.running /\ u.gap = InStep
  <2> HIDE DEF l, s, e, y, x
  <2>1. v.running = w.running /\ v.gap = w.gap /\ DOMAIN v = DOMAIN w
    BY <1>1 DEF Worlds
  <2> HIDE DEF v
  <2>2. r.running = v.running /\ r.gap = v.gap /\ DOMAIN r = DOMAIN v
    BY <1>1, <2>1 DEF Worlds
  <2> HIDE DEF r
  <2>3. u.link = l /\ u.running = r.running /\ u.gap = r.gap
    BY <1>1, <1>2, <2>1, <2>2 DEF Worlds
  <2> QED
    BY <1>1, <2>1, <2>2, <2>3
<1>6. /\ ~u.session.active /\ ~u.session.terminal /\ u.session.linkTimer # "Late"
      /\ ~u.proc.timer /\ u.proc.txn.state = "WaitingForInitialWrite"
      /\ u.session.exchange["PairVerify"] # 3
      /\ \A c \in Chars : ~Working(u, c)
  <2>1. u.session.linkTimer # "Late" /\ u.session.exchange["PairVerify"] # 3
    BY <1>3 DEF SessionCreated, Exchanges
  <2> QED
    BY <1>3, <1>4, <2>1, CreatedFields, DetachedFields, BufferAssumption DEF Working
<1>7. Calm(u) /\ Agreed(u, asked) /\ Promises(u, asked, prepared) /\ Standing(u, asked)
  BY <1>3, <1>5, <1>6 DEF Calm, Agreed, Promises, Standing
<1>8. ProceduresSound(u) /\ asked \in [Chars -> Askings]
  <2>1. Inv(u, asked, prepared)
    <3>1. \A c \in Chars : prepared[c] = <<>>
      BY <1>1, <1>4, <1>6, CreatedFields, DetachedFields, BufferAssumption
         DEF Inv, Apart, Remembers, PreparedHere
    <3>2. \A c \in Chars : u.attr[c].fallback = NoFallback
      BY <1>1, ConnectedFields DEF u
    <3>3. u.told = {} /\ u.link.connected
      BY <1>1, ConnectedFields DEF u
    <3> QED
      BY <1>1, <1>3, <1>4, <1>6, <3>1, <3>2, <3>3, FreshInv DEF Inv
  <2> QED
    BY <1>6, <2>1 DEF Inv, Sound
<1>9. Trust(u, Kept(u, asked), prepared)
  BY <1>5, <1>7, <1>8, KeptTrust
<1>10. Trust(Accessory, asked, prepared)'
  BY <1>1, <1>9, AnsweredTrust DEF Happens
<1> QED
  BY <1>1, <1>5, <1>10, StaysTrusted DEF Happens, Answered

LEMMA DisconnectTrust ==
    ASSUME LinkInv, TrustKept, Disconnect
    PROVE  TrustKept'
<1> DEFINE w == Accessory
           l == [connected |-> FALSE, cancelled |-> FALSE, blocked |-> FALSE]
           x == [w EXCEPT !.link = l, !.proc = Detached]
           v == AbortAllFallbackProcedures(x)
           t == Terminate(v)
           r == [t EXCEPT !.session = Unused, !.gap = InStep]
           u == HandleDisconnectedCentral(w)
           y == [c \in Chars |-> [r.attr[c] EXCEPT !.subscribed = FALSE, !.pending = FALSE]]
<1>1. w \in Worlds /\ Becomes(u)
  BY AccessoryInv DEF Disconnect
<1>2. u = [r EXCEPT !.attr = y]
  BY DEF HandleDisconnectedCentral, SessionRelease, Unused, ResetEventState
<1>3. ~u.link.connected
  BY <1>1, DisconnectedFields
<1> HIDE DEF w, u, y
<1>4. l \in Links
  BY DEF Links
<1> HIDE DEF l
<1>5. x \in Worlds
  BY <1>1, <1>4, DetachedFields DEF Worlds
<1> HIDE DEF x
<1>6. v \in Worlds
  BY <1>5, AbortFields DEF Outlived
<1> HIDE DEF v
<1>7. t \in Worlds
  BY <1>6, TerminateLives DEF Lived
<1> HIDE DEF t
<1>8. r.gap = InStep /\ DOMAIN r = DOMAIN t
  BY <1>7 DEF Worlds
<1> HIDE DEF r
<1>9. u.gap = InStep
  BY <1>2, <1>7, <1>8 DEF Worlds
<1> QED
  BY <1>1, <1>3, <1>9 DEF Becomes, TrustKept

LEMMA StutterTrust ==
    ASSUME TrustKept, UNCHANGED vars
    PROVE  TrustKept'
<1>1. /\ link' = link /\ running' = running /\ pairing' = pairing /\ session' = session
      /\ proc' = proc /\ attr' = attr /\ value' = value /\ told' = told /\ gap' = gap
      /\ asked' = asked /\ prepared' = prepared /\ clean' = clean
  BY DEF vars
<1>2. Accessory' = Accessory
  BY <1>1 DEF Accessory
<1> QED
  BY <1>1, <1>2 DEF TrustKept

-----------------------------------------------------------------------------
(* What follows.                                                           *)

LEMMA InitTrust == Init => TrustKept
BY DEF Init, TrustKept

LEMMA NextTrust ==
    ASSUME LinkInv, TrustKept, [Next]_vars
    PROVE  TrustKept'
<1>1. CASE \E c \in Chars : FallbackTimer(c)
  BY <1>1, FallbackTimerTrust
<1> QED
  BY <1>1, BeginTrust, ContinueTrust, GarbageTrust, ReadTrust, SubscribeTrust, ConfirmTrust,
     ConnectTrust, DisconnectTrust, RaiseTrust, LosePairingTrust, LoseAdminTrust, StopTrust,
     RunsLateTrust, LinkTimerTrust, ProcedureTimerTrust, SafeTimerTrust, TimedWriteTrust,
     StutterTrust DEF Next

\* A central that follows the protocol keeps its link, and each end opens what the other
\* seals, whatever goes on beside its requests.  (HAPBLEProcedureHandleGATTWrite and
\* HAPBLEProcedureHandleGATTRead, AttachProcedure)
THEOREM GoodCentralsAlwaysServed == Spec => []GoodCentralsAreServed
<1>1. TrustKept => GoodCentralsAreServed
  BY AccessoryFields DEF TrustKept, Trust, Calm, GoodCentralsAreServed
<1>2. Spec => []LinkInv
  BY LinkInvAlways
<1>3. LinkInv /\ TrustKept /\ [Next]_vars => TrustKept'
  BY NextTrust
<1> QED
  BY <1>1, <1>2, <1>3, InitTrust, PTL DEF Spec
=================================================================================
