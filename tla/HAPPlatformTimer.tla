----------------------------- MODULE HAPPlatformTimer -----------------------------
(***************************************************************************)
(* The timer queue of the Linux platform: a sorted array of at most        *)
(* MaxTimers timers, whose callbacks may register and deregister timers    *)
(* while expired ones are being processed.  The entries behind the active  *)
(* ones keep the identifiers that are free for reuse.                      *)
(***************************************************************************)
EXTENDS Naturals, Sequences, SequencesExt

CONSTANTS MaxTimers, MaxTime

ASSUME TimerAssumption == MaxTimers \in Nat \ {0} /\ MaxTime \in Nat

VARIABLES
    timers,         \* the array: id (0: never used), deadline, whether there is a callback
    numActive, numExpired,
    firing,         \* index of the timer whose callback runs, 0 outside of the loop
    peak, now,
    held            \* what the users of timers hold: id -> deadline, what was held before it

timerVars == <<timers, numActive, numExpired, firing, peak, now, held>>

Unused(id) == [id |-> id, deadline |-> 0, callback |-> FALSE]
TimerInit ==
    /\ timers = [i \in 1 .. MaxTimers |-> Unused(0)]
    /\ numActive = 0 /\ numExpired = 0 /\ firing = 0 /\ peak = 0 /\ now = 0
    /\ held = <<>>

\* Moves the entry at index from to index to, those between by one.
Moved(from, to) == InsertAt(RemoveAt(timers, from), to, timers[from])

\* The first of the active timers behind the first n whose deadline is later, or the
\* place behind all of them.
FirstLater(n, deadline) ==
    Min({i \in n + 1 .. numActive : timers[i].deadline > deadline} \cup {numActive + 1})

\* HAPPlatformTimerRegister: expired timers stay where they are.
PlaceOf(deadline) == FirstLater(numExpired, deadline)

Register(deadline) ==
    /\ numActive < MaxTimers                  \* else kHAPError_OutOfResources
    /\ LET i == PlaceOf(deadline)
           old == timers[numActive + 1].id
           id == IF old = 0 THEN peak + 1 ELSE old
       IN /\ timers' = [Moved(numActive + 1, i) EXCEPT
                           ![i] = [id |-> id, deadline |-> deadline, callback |-> TRUE]]
          /\ peak' = IF old = 0 THEN id ELSE peak
          /\ held' = [h \in DOMAIN held \cup {id} |->
                        IF h = id
                        THEN [deadline |-> deadline, round |-> firing # 0,
                              earlier |-> DOMAIN held]
                        ELSE held[h]]
    /\ numActive' = numActive + 1
    /\ UNCHANGED <<numExpired, firing, now>>

\* A timer is no longer held.
Forget(id) ==
    held' = [h \in DOMAIN held \ {id} |-> [held[h] EXCEPT !.earlier = @ \ {id}]]

\* A timer that will not fire any more.
Silenced(i) == [timers EXCEPT ![i].callback = FALSE]

\* HAPPlatformTimerDeregister of a timer that has neither fired nor been
\* deregistered; an expired one is only marked.
DeregisterFaulty(id) ==   \* Faulty: an expired timer is removed, too
    /\ id \in DOMAIN held
    /\ \E i \in 1 .. numActive :
        /\ timers[i].id = id
        /\ timers' = [Moved(i, numActive) EXCEPT ![numActive] = Unused(id)]
    /\ numActive' = numActive - 1
    /\ Forget(id)
    /\ UNCHANGED <<numExpired, firing, peak, now>>

Deregister(id) ==
    /\ id \in DOMAIN held
    /\ \E i \in 1 .. numActive :
        /\ timers[i].id = id
        /\ \A j \in 1 .. i - 1 : timers[j].id # id
        /\ IF i > numExpired
           THEN /\ timers' = [Moved(i, numActive) EXCEPT ![numActive] = Unused(id)]
                /\ numActive' = numActive - 1
           ELSE /\ timers' = Silenced(i)
                /\ UNCHANGED numActive
    /\ Forget(id)
    /\ UNCHANGED <<numExpired, firing, peak, now>>

\* HAPPlatformTimerProcessExpiredTimers: counts the expired timers, invokes their
\* callbacks, frees them.
Expired == FirstLater(0, now) - 1

NextToFire(after, expired) ==
    LET left == {i \in after + 1 .. expired : timers[i].callback}
    IN IF left = {} THEN 0 ELSE Min(left)

Fire(i) ==
    /\ firing' = i
    /\ Forget(timers[i].id)

ProcessExpiredTimers ==
    /\ firing = 0
    /\ Expired > 0
    /\ numExpired' = Expired
    /\ Fire(NextToFire(0, Expired))
    /\ UNCHANGED <<timers, numActive, peak, now>>

Freed(array) ==
    [i \in 1 .. MaxTimers |->
        IF i <= numActive - numExpired THEN array[i + numExpired]
        ELSE IF i <= numActive THEN Unused(array[numActive + 1 - i].id)
        ELSE array[i]]

CallbackReturns ==
    /\ firing # 0
    /\ LET i == NextToFire(firing, numExpired)
       IN IF i # 0
          THEN /\ timers' = Silenced(firing)
               /\ Fire(i)
               /\ UNCHANGED <<numActive, numExpired>>
          ELSE /\ timers' = Freed(Silenced(firing))
               /\ numActive' = numActive - numExpired
               /\ numExpired' = 0
               /\ firing' = 0
               /\ held' = [h \in DOMAIN held |-> [held[h] EXCEPT !.round = FALSE]]
    /\ UNCHANGED <<peak, now>>

Tick ==
    /\ now < MaxTime
    /\ now' = now + 1
    /\ UNCHANGED <<timers, numActive, numExpired, firing, peak, held>>

TimerNext ==
    \/ \E deadline \in 0 .. MaxTime : Register(deadline)
    \/ \E id \in 1 .. MaxTimers : Deregister(id)
    \/ ProcessExpiredTimers \/ CallbackReturns
    \/ Tick

TimerSpec == TimerInit /\ [][TimerNext]_timerVars
-----------------------------------------------------------------------------
\* Every timer its user holds is in the queue under its own identifier, with its
\* deadline, whatever callbacks registered and deregistered; nothing else can fire.
HeldTimersAreQueued ==
    /\ \A id \in DOMAIN held :
        \E i \in 1 .. numActive :
            /\ timers[i] = [id |-> id, deadline |-> held[id].deadline, callback |-> TRUE]
            /\ i # firing
    /\ \A i, j \in 1 .. MaxTimers : timers[i].id = timers[j].id /\ timers[i].id # 0 => i = j
    /\ \A i \in 1 .. numActive :
        timers[i].callback /\ i # firing => timers[i].id \in DOMAIN held

\* A timer fires when its deadline has come, before every other that was registered
\* before the round began and has a later deadline, or the same one and was
\* registered later; a timer registered by a callback waits for the next round.
FiresInOrder ==
    \A id \in DOMAIN held : firing' # 0 /\ firing' # firing /\ timers[firing'].id = id =>
        /\ held[id].deadline <= now
        /\ ~held[id].round
        /\ \A other \in DOMAIN held \ {id} :
            \/ held[other].round
            \/ held[other].deadline > held[id].deadline
            \/ /\ held[other].deadline = held[id].deadline
               /\ id \in held[other].earlier

\* A timer that is held is queued until it fires, in its turn.
TimersAreKept == [][HeldTimersAreQueued' /\ FiresInOrder]_timerVars
==================================================================================
