---------------------------- MODULE LinkManager ----------------------------
(***************************************************************************)
(* One logical link of sessionlink.Manager (sessionlink/manager.go), as    *)
(* the LinkRouter of sessionbroker/link_router.go uses it: transports come *)
(* and go, each publishes itself under a new generation and keeps a lease, *)
(* and openers wait for whichever transport is ready.                      *)
(*                                                                         *)
(* A call first reads the clock and then enters the critical section of    *)
(* Manager.mu; other calls, and time, run in between.  So a call may act   *)
(* on a clock reading that is older than the state it finds.               *)
(***************************************************************************)
EXTENDS Naturals, Sequences, FiniteSets

CONSTANTS
    Transports,  \* transport IDs
    Callers,     \* threads that manage transports
    Waiters,     \* threads that wait for the link
    Leases,      \* lease durations in use
    MaxGen,      \* bound: calls of Begin
    MaxTime      \* bound: the clock

ASSUME LeaseAssumption == Leases \subseteq Nat \ {0}

VARIABLES
    time,        \* the clock
    holders,     \* the transport of each generation: the tokens handed out
    generation, transport, state, leaseUntil, lastError,   \* slot.snapshot
    value,       \* slot.value: the generation that published it; 0: none
    call,        \* the call each caller is in
    waiter, now, \* where each waiter is in Wait, and its clock reading
    timer,       \* when its timer fires; 0: no timer
    changed,     \* the waiters whose channel has been closed
    result       \* the generation Wait returned; 0: none

slotVars == <<holders, generation, transport, state, leaseUntil, lastError, value>>
waitVars == <<waiter, now, timer, result>>
vars == <<time, slotVars, call, waitVars, changed>>

States == {"disconnected", "connecting", "ready", "draining"}

NoCall == [op |-> "none"]

\* The calls in progress: their arguments (a token is a transport and a
\* generation) and their clock readings, for clocks in T and generations in G.
Calls(T, G) ==
    [op : {"begin"}, transport : Transports, lease : Leases, now : T]
    \cup [op : {"renew"}, transport : Transports, generation : G, lease : Leases, now : T]
    \cup [op : {"ready", "drain", "withdraw"}, transport : Transports, generation : G, now : T]
    \cup [op : {"current"}, now : T]

TypeOK ==
    /\ time \in Nat /\ generation \in Nat /\ leaseUntil \in Nat /\ value \in Nat
    /\ holders \in Seq(Transports) /\ Len(holders) = generation
    /\ generation > 0 => transport \in Transports
    /\ state \in States /\ lastError \in {"", "expired", "cause"}
    /\ call \in [Callers -> Calls(Nat, Nat) \cup {NoCall}]
    /\ waiter \in [Waiters -> {"idle", "loop", "locking", "waiting"}]
    /\ now \in [Waiters -> Nat] /\ timer \in [Waiters -> Nat]
    /\ result \in [Waiters -> Nat]
    /\ changed \subseteq Waiters

Init ==
    /\ time = 1 /\ holders = <<>> /\ generation = 0 /\ transport = "none"
    /\ state = "disconnected" /\ leaseUntil = 0 /\ lastError = "" /\ value = 0
    /\ call = [c \in Callers |-> NoCall]
    /\ waiter = [w \in Waiters |-> "idle"] /\ now = [w \in Waiters |-> 0]
    /\ timer = [w \in Waiters |-> 0] /\ result = [w \in Waiters |-> 0]
    /\ changed = {}

Tick == time < MaxTime /\ time' = time + 1
        /\ UNCHANGED <<slotVars, call, waitVars, changed>>

-----------------------------------------------------------------------------
(* The critical sections.  t is the clock reading of the call. *)

\* mutant: waiters keep waiting on the channel that is never closed
NoSignal == UNCHANGED changed

\* signalLocked
Signal == changed' = {w \in Waiters : waiter[w] = "waiting"}

\* matches
Matches(k) == transport = k.transport /\ generation = k.generation

\* mutant: the lease ends one tick early
OverSoon(t) == leaseUntil <= t + 1

\* !now.Before(LeaseUntil)
Over(t) == leaseUntil <= t

\* The condition of expireLocked.
Expires(t) == state # "disconnected" /\ leaseUntil # 0 /\ Over(t)

\* disconnectLocked
Disconnect(error) ==
    /\ state' = "disconnected" /\ lastError' = error /\ value' = 0
    /\ Signal
    /\ UNCHANGED <<holders, generation, transport, leaseUntil>>

\* mutant: neither the state nor the lease is looked at
AnyValue(t) == value # 0

\* ReadyAt, and hasValue
Available(t) == state = "ready" /\ leaseUntil # 0 /\ ~Over(t) /\ value # 0

\* mutant: the value of the previous generation stays
BeginKeepsValue(k) ==
    /\ generation' = generation + 1
    /\ holders' = Append(holders, k.transport)
    /\ transport' = k.transport
    /\ state' = "connecting" /\ leaseUntil' = k.now + k.lease /\ lastError' = ""
    /\ UNCHANGED value
    /\ Signal

\* mutant: the generation of the previous transport is used again
BeginReuses(k) ==
    /\ generation' = IF generation = 0 THEN 1 ELSE generation
    /\ holders' = Append(holders, k.transport)
    /\ transport' = k.transport
    /\ state' = "connecting" /\ leaseUntil' = k.now + k.lease /\ lastError' = ""
    /\ value' = 0
    /\ Signal

\* Begin: whatever the slot was, a new generation takes it over.
Begin(k) ==
    /\ generation' = generation + 1
    /\ holders' = Append(holders, k.transport)
    /\ transport' = k.transport
    /\ state' = "connecting" /\ leaseUntil' = k.now + k.lease /\ lastError' = ""
    /\ value' = 0
    /\ Signal

Ready(k) ==
    IF ~Matches(k) THEN UNCHANGED <<slotVars, changed>>
    ELSE IF Over(k.now) THEN Disconnect("expired")
    ELSE IF state # "connecting" THEN UNCHANGED <<slotVars, changed>>
    ELSE /\ state' = "ready" /\ lastError' = "" /\ value' = k.generation
         /\ Signal
         /\ UNCHANGED <<holders, generation, transport, leaseUntil>>

\* mutant: a lease that is over, or a link that is gone, is renewed all the same
RenewAnyway(k) ==
    IF ~Matches(k) THEN UNCHANGED <<slotVars, changed>>
    ELSE /\ leaseUntil' = k.now + k.lease
         /\ Signal
         /\ UNCHANGED <<holders, generation, transport, state, lastError, value>>

Renew(k) ==
    IF ~Matches(k) THEN UNCHANGED <<slotVars, changed>>
    ELSE IF Over(k.now) THEN Disconnect("expired")
    ELSE IF state = "disconnected" THEN UNCHANGED <<slotVars, changed>>
    ELSE /\ leaseUntil' = k.now + k.lease
         /\ Signal
         /\ UNCHANGED <<holders, generation, transport, state, lastError, value>>

Drain(k) ==
    IF ~Matches(k) THEN UNCHANGED <<slotVars, changed>>
    ELSE IF Expires(k.now) THEN Disconnect("expired")
    ELSE IF state # "ready" THEN UNCHANGED <<slotVars, changed>>
    ELSE /\ state' = "draining"
         /\ Signal
         /\ UNCHANGED <<holders, generation, transport, leaseUntil, lastError, value>>

\* mutant: the cleanup of an old transport ends whatever holds the link
WithdrawAny(k) == \E error \in {"", "cause"} : Disconnect(error)

\* Withdraw, also as the cleanup function of Ready.  It does not look at the
\* state: the token of the last generation may end it more than once.
Withdraw(k) ==
    IF ~Matches(k) THEN UNCHANGED <<slotVars, changed>>
    ELSE \E error \in {"", "cause"} : Disconnect(error)

\* Current, Snapshot and List expire a lease that is over; they change no more.
Current(k) ==
    IF Expires(k.now) THEN Disconnect("expired") ELSE UNCHANGED <<slotVars, changed>>

-----------------------------------------------------------------------------
(* Callers *)

BeginsLeft == generation + Cardinality({c \in Callers : call[c].op = "begin"}) < MaxGen

\* A caller makes a call, with a token it was given, and reads the clock.
Call(c) ==
    /\ call[c] = NoCall
    /\ \E k \in Calls({time}, 1..generation) :
         /\ k.op = "begin" => BeginsLeft
         /\ k.op \notin {"begin", "current"} => holders[k.generation] = k.transport
         /\ call' = [call EXCEPT ![c] = k]
    /\ UNCHANGED <<time, slotVars, waitVars, changed>>

\* The call enters the critical section and returns.
Run(c) ==
    /\ call[c] # NoCall
    /\ call' = [call EXCEPT ![c] = NoCall]
    /\ LET k == call[c]
       IN  \/ k.op = "begin" /\ Begin(k)
           \/ k.op = "ready" /\ Ready(k)
           \/ k.op = "renew" /\ Renew(k)
           \/ k.op = "drain" /\ Drain(k)
           \/ k.op = "withdraw" /\ Withdraw(k)
           \/ k.op = "current" /\ Current(k)
    /\ UNCHANGED <<time, waitVars>>

-----------------------------------------------------------------------------
(* Wait *)

WaitBegin(w) ==
    /\ waiter[w] = "idle"
    /\ waiter' = [waiter EXCEPT ![w] = "loop"]
    /\ result' = [result EXCEPT ![w] = 0]
    /\ UNCHANGED <<time, slotVars, call, now, timer, changed>>

\* An iteration reads the clock ...
WaitClock(w) ==
    /\ waiter[w] = "loop"
    /\ waiter' = [waiter EXCEPT ![w] = "locking"]
    /\ now' = [now EXCEPT ![w] = time]
    /\ UNCHANGED <<time, slotVars, call, timer, result, changed>>

\* ... returns the value if the link is ready ...
WaitReturn(w) ==
    /\ waiter[w] = "locking" /\ Available(now[w])
    /\ waiter' = [waiter EXCEPT ![w] = "idle"]
    /\ result' = [result EXCEPT ![w] = value]
    /\ UNCHANGED <<time, slotVars, call, now, timer, changed>>

\* ... and otherwise, after expireLocked, takes the channel, and a timer for
\* what is left of the lease.
WaitBlock(w) ==
    /\ waiter[w] = "locking" /\ ~Available(now[w])
    /\ IF Expires(now[w]) THEN Disconnect("expired") ELSE UNCHANGED <<slotVars, changed>>
    /\ waiter' = [waiter EXCEPT ![w] = "waiting"]
    /\ timer' = [timer EXCEPT ![w] =
                   IF leaseUntil # 0 /\ ~Over(now[w]) THEN time + leaseUntil - now[w] ELSE 0]
    /\ UNCHANGED <<time, call, now, result>>

\* mutant: only the timer ends the wait
WakeByTimer(w) ==
    /\ waiter[w] = "waiting"
    /\ timer[w] # 0 /\ time >= timer[w]
    /\ waiter' = [waiter EXCEPT ![w] = "loop"]
    /\ timer' = [timer EXCEPT ![w] = 0]
    /\ changed' = changed \ {w}
    /\ UNCHANGED <<time, slotVars, call, now, result>>

\* The channel is closed or the timer fires: the loop starts again.
WaitWake(w) ==
    /\ waiter[w] = "waiting"
    /\ w \in changed \/ (timer[w] # 0 /\ time >= timer[w])
    /\ waiter' = [waiter EXCEPT ![w] = "loop"]
    /\ timer' = [timer EXCEPT ![w] = 0]
    /\ changed' = changed \ {w}
    /\ UNCHANGED <<time, slotVars, call, now, result>>

\* ctx.Done
WaitCancel(w) ==
    /\ waiter[w] = "waiting"
    /\ waiter' = [waiter EXCEPT ![w] = "idle"]
    /\ timer' = [timer EXCEPT ![w] = 0]
    /\ changed' = changed \ {w}
    /\ UNCHANGED <<time, slotVars, call, now, result>>

WaitStep(w) == WaitClock(w) \/ WaitReturn(w) \/ WaitBlock(w) \/ WaitWake(w)

-----------------------------------------------------------------------------

Next == \/ Tick
        \/ \E c \in Callers : Call(c) \/ Run(c)
        \/ \E w \in Waiters : WaitBegin(w) \/ WaitStep(w) \/ WaitCancel(w)

Spec == Init /\ [][Next]_vars

Fairness == /\ \A c \in Callers : WF_vars(Run(c))
            /\ \A w \in Waiters : WF_vars(WaitStep(w))

FairSpec == Spec /\ Fairness

-----------------------------------------------------------------------------
(* Correctness *)

\* Every generation belongs to one transport, and the slot shows the newest: a
\* value is only ever that of the transport that holds the link now.
OneHolder ==
    /\ generation > 0 => transport = holders[generation]
    /\ value # 0 => value = generation /\ state \in {"ready", "draining"}
    /\ state = "ready" => value # 0

\* ErrLeaseExpired is reported only when the lease is over, though calls act on
\* clock readings that are older than the lock (Manager.expireLocked and Renew).
ExpiredIsOver == lastError = "expired" => state = "disconnected" /\ leaseUntil <= time

\* A call that ends in this step held the token of the newest generation.
Owner(op) == \E c \in Callers : /\ call[c].op = op /\ call'[c] = NoCall
                                /\ call[c].generation = generation

FencedStep ==
    value # 0 /\ value' # value =>
        generation' = generation + 1 \/ Owner("withdraw") \/ leaseUntil <= time

\* "NewerGenerationFencesOldCleanup": a published value goes away only because a
\* newer generation begins, its own transport withdraws it, or its lease is over.
Fenced == [][FencedStep]_vars

NoRevivalStep ==
    state = "disconnected" /\ generation' = generation =>
        state' = "disconnected" /\ leaseUntil' = leaseUntil

\* A generation that has disconnected never comes back: reconnecting takes a new
\* generation, and only Begin makes one (TestRenewRejectsDisconnectedGeneration).
NoRevival == [][NoRevivalStep]_vars

CurrentStep ==
    \A w \in Waiters : result'[w] # result[w] /\ result'[w] # 0 =>
        result'[w] = generation /\ state = "ready" /\ now[w] < leaseUntil

\* Wait returns a value whose lease was not over at the clock reading, of the
\* generation that is the newest when it returns.
WaitIsCurrent == [][CurrentStep]_vars

\* No wakeup is lost: while a link is ready every waiter that still waits has
\* been told.
NoLostWakeup ==
    \A w \in Waiters : waiter[w] = "waiting" /\ state = "ready" => w \in changed

\* An opener does not wait for ever on a link that is ready and stays so.
WaitersServed ==
    \A w \in Waiters :
        <>[](state = "ready" /\ time < leaseUntil) => []<>(waiter[w] = "idle")

=============================================================================
