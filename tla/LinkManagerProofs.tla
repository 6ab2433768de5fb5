------------------------- MODULE LinkManagerProofs -------------------------
(***************************************************************************)
(* Safety of LinkManager for any number of transports, callers, waiters    *)
(* and lease durations, and whatever the bounds on generations and time.   *)
(***************************************************************************)
EXTENDS LinkManager, SequenceTheorems, TLAPS

\* The clock readings that calls and waiters carry are not in the future.
Readings ==
    /\ \A c \in Callers : call[c] # NoCall => call[c].now <= time
    /\ \A w \in Waiters : now[w] <= time

\* A transport that has the link has a lease.
Leased == state # "disconnected" => leaseUntil # 0 /\ generation # 0

\* The inductive invariant.
IInv == TypeOK /\ Readings /\ Leased /\ OneHolder /\ ExpiredIsOver /\ NoLostWakeup

-----------------------------------------------------------------------------
(* Calls *)

\* A call in progress has a clock reading, and the arguments of its operation.
LEMMA CallFacts ==
    ASSUME TypeOK, NEW c \in Callers, call[c] # NoCall
    PROVE  /\ call[c].now \in Nat
           /\ call[c].op \in {"begin", "ready", "renew", "drain", "withdraw", "current"}
           /\ call[c].op = "begin" => call[c].transport \in Transports /\ call[c].lease \in Nat \ {0}
           /\ call[c].op = "renew" => call[c].lease \in Nat \ {0}
           /\ call[c].op \notin {"begin", "current"} =>
                call[c].transport \in Transports /\ call[c].generation \in Nat
<1>1. call[c] \in Calls(Nat, Nat)
  BY Zenon DEF TypeOK
<1>2. ASSUME NEW k \in Calls(Nat, Nat)
      PROVE  /\ k.now \in Nat
             /\ k.op \in {"begin", "ready", "renew", "drain", "withdraw", "current"}
             /\ k.op = "begin" => k.transport \in Transports /\ k.lease \in Nat \ {0}
             /\ k.op = "renew" => k.lease \in Nat \ {0}
             /\ k.op \notin {"begin", "current"} =>
                  k.transport \in Transports /\ k.generation \in Nat
  BY LeaseAssumption DEF Calls
<1> QED
  BY <1>1, <1>2

-----------------------------------------------------------------------------
(* The critical sections: the slot before and after *)

\* What every critical section leaves true of the slot: the part of the invariant
\* about it, which a call with the clock reading t, or a waiter, preserves.
SlotOK ==
    /\ generation \in Nat /\ leaseUntil \in Nat /\ value \in Nat
    /\ holders \in Seq(Transports) /\ Len(holders) = generation
    /\ generation > 0 => transport \in Transports
    /\ state \in States /\ lastError \in {"", "expired", "cause"}
    /\ Leased /\ OneHolder /\ ExpiredIsOver

\* disconnectLocked keeps the slot in order; as "expired" only when the lease is
\* over.
LEMMA DisconnectSlot ==
    ASSUME SlotOK, time \in Nat, time' = time, NEW e \in {"", "expired", "cause"}, Disconnect(e),
           e = "expired" => leaseUntil <= time
    PROVE  SlotOK'
BY DEF SlotOK, Disconnect, Leased, OneHolder, ExpiredIsOver, States

\* A lease that is over at an earlier reading of the clock is over now.
LEMMA OverNow ==
    ASSUME time \in Nat, leaseUntil \in Nat, NEW t \in Nat, t <= time, Over(t)
    PROVE  leaseUntil <= time
BY DEF Over

\* Begin keeps the slot in order: the value of an older generation is gone.
LEMMA BeginSlot ==
    ASSUME SlotOK, NEW k, k.transport \in Transports, k.lease \in Nat \ {0}, k.now \in Nat,
           Begin(k)
    PROVE  SlotOK'
<1>1. PICK x \in Transports, l \in Nat \ {0}, t \in Nat :
            x = k.transport /\ l = k.lease /\ t = k.now
  BY Zenon
<1>2. /\ generation' = generation + 1 /\ holders' = Append(holders, x) /\ transport' = x
      /\ state' = "connecting" /\ leaseUntil' = t + l /\ lastError' = "" /\ value' = 0
  BY <1>1, Zenon DEF Begin
<1>3. /\ holders' \in Seq(Transports) /\ Len(holders') = Len(holders) + 1
      /\ holders'[Len(holders) + 1] = x
  <2>1. holders' = Append(holders, x) /\ holders \in Seq(Transports)
    BY <1>2, Zenon DEF SlotOK
  <2> QED
    BY <2>1, AppendProperties
<1>4. t + l \in Nat /\ t + l # 0
  OBVIOUS
<1>5. generation \in Nat /\ Len(holders) = generation
  BY Zenon DEF SlotOK
<1>6. generation + 1 \in Nat /\ generation + 1 > 0 /\ generation + 1 # 0
  BY <1>5
<1>7. Leased' /\ OneHolder' /\ ExpiredIsOver'
  BY <1>2, <1>3, <1>4, <1>5, <1>6, Zenon DEF Leased, OneHolder, ExpiredIsOver
<1> QED
  BY <1>2, <1>3, <1>4, <1>5, <1>6, <1>7 DEF SlotOK, States

\* Ready keeps the slot in order: only the newest generation gets its value.
LEMMA ReadySlot ==
    ASSUME SlotOK, time \in Nat, time' = time, NEW k, k.generation \in Nat, k.now \in Nat,
           k.now <= time, Ready(k)
    PROVE  SlotOK'
<1>1. CASE ~Matches(k)
  BY <1>1 DEF Ready, SlotOK, Leased, OneHolder, ExpiredIsOver, slotVars
<1>2. CASE Matches(k) /\ Over(k.now)
  BY <1>2, DisconnectSlot, OverNow DEF Ready, SlotOK
<1>3. CASE Matches(k) /\ ~Over(k.now) /\ state # "connecting"
  BY <1>3 DEF Ready, SlotOK, Leased, OneHolder, ExpiredIsOver, slotVars
<1>4. CASE Matches(k) /\ ~Over(k.now) /\ state = "connecting"
  BY <1>4 DEF Ready, SlotOK, Leased, OneHolder, ExpiredIsOver, States, Matches
<1> QED
  BY <1>1, <1>2, <1>3, <1>4

\* Renew keeps the slot in order; the lease ends at another time.
LEMMA RenewSlot ==
    ASSUME SlotOK, time \in Nat, time' = time, NEW k, k.lease \in Nat \ {0}, k.now \in Nat,
           k.now <= time, Renew(k)
    PROVE  SlotOK'
<1>1. CASE ~Matches(k)
  BY <1>1 DEF Renew, SlotOK, Leased, OneHolder, ExpiredIsOver, slotVars
<1>2. CASE Matches(k) /\ Over(k.now)
  BY <1>2, DisconnectSlot, OverNow DEF Renew, SlotOK
<1>3. CASE Matches(k) /\ ~Over(k.now) /\ state = "disconnected"
  BY <1>3 DEF Renew, SlotOK, Leased, OneHolder, ExpiredIsOver, slotVars
<1>4. CASE Matches(k) /\ ~Over(k.now) /\ state # "disconnected"
  <2>1. PICK l \in Nat \ {0}, t \in Nat : l = k.lease /\ t = k.now
    BY Zenon
  <2>2. leaseUntil' = t + l
        /\ UNCHANGED <<holders, generation, transport, state, lastError, value>>
    BY <1>4, <2>1, Zenon DEF Renew
  <2>3. t + l \in Nat /\ t + l # 0
    OBVIOUS
  <2>4. Leased' /\ OneHolder' /\ ExpiredIsOver'
    BY <1>4, <2>2, <2>3, Zenon DEF SlotOK, Leased, OneHolder, ExpiredIsOver
  <2> QED
    BY <2>2, <2>3, <2>4 DEF SlotOK
<1> QED
  BY <1>1, <1>2, <1>3, <1>4

\* Drain keeps the slot in order; the value stays with its generation.
LEMMA DrainSlot ==
    ASSUME SlotOK, time \in Nat, time' = time, NEW k, k.now \in Nat, k.now <= time, Drain(k)
    PROVE  SlotOK'
<1>1. CASE ~Matches(k)
  BY <1>1 DEF Drain, SlotOK, Leased, OneHolder, ExpiredIsOver, slotVars
<1>2. CASE Matches(k) /\ Expires(k.now)
  BY <1>2, DisconnectSlot, OverNow DEF Drain, SlotOK, Expires
<1>3. CASE Matches(k) /\ ~Expires(k.now) /\ state # "ready"
  BY <1>3 DEF Drain, SlotOK, Leased, OneHolder, ExpiredIsOver, slotVars
<1>4. CASE Matches(k) /\ ~Expires(k.now) /\ state = "ready"
  BY <1>4 DEF Drain, SlotOK, Leased, OneHolder, ExpiredIsOver, States
<1> QED
  BY <1>1, <1>2, <1>3, <1>4

\* Withdraw keeps the slot in order.
LEMMA WithdrawSlot ==
    ASSUME SlotOK, time \in Nat, time' = time, NEW k, Withdraw(k)
    PROVE  SlotOK'
<1>1. CASE ~Matches(k)
  BY <1>1 DEF Withdraw, SlotOK, Leased, OneHolder, ExpiredIsOver, slotVars
<1>2. CASE Matches(k)
  <2>1. PICK e \in {"", "cause"} : Disconnect(e)
    BY <1>2 DEF Withdraw
  <2> QED
    BY <2>1, DisconnectSlot
<1> QED
  BY <1>1, <1>2

\* expireLocked, on its own in Current and Wait.
LEMMA ExpireSlot ==
    ASSUME SlotOK, time \in Nat, time' = time, NEW t \in Nat, t <= time,
           IF Expires(t) THEN Disconnect("expired") ELSE UNCHANGED <<slotVars, changed>>
    PROVE  SlotOK'
<1>1. CASE Expires(t)
  BY <1>1, DisconnectSlot, OverNow DEF SlotOK, Expires
<1>2. CASE ~Expires(t)
  BY <1>2 DEF SlotOK, Leased, OneHolder, ExpiredIsOver, slotVars
<1> QED
  BY <1>1, <1>2

\* The critical section of a call keeps the slot in order.
LEMMA RunSlot ==
    ASSUME TypeOK, Readings, SlotOK, NEW c \in Callers, Run(c)
    PROVE  SlotOK'
<1> DEFINE k == call[c]
<1>1. /\ k # NoCall /\ time' = time /\ time \in Nat
      /\ \/ k.op = "begin" /\ Begin(k)
         \/ k.op = "ready" /\ Ready(k)
         \/ k.op = "renew" /\ Renew(k)
         \/ k.op = "drain" /\ Drain(k)
         \/ k.op = "withdraw" /\ Withdraw(k)
         \/ k.op = "current" /\ Current(k)
  BY Zenon DEF Run, TypeOK
<1>2. k.now \in Nat /\ k.now <= time
  BY <1>1, CallFacts, Zenon DEF Readings
<1>3. CASE k.op = "begin" /\ Begin(k)
  BY <1>1, <1>2, <1>3, CallFacts, BeginSlot, Zenon
<1>4. CASE k.op = "ready" /\ Ready(k)
  <2>1. k.generation \in Nat
    BY <1>1, <1>4, CallFacts
  <2> QED
    BY <1>1, <1>2, <1>4, <2>1, ReadySlot, Zenon
<1>5. CASE k.op = "renew" /\ Renew(k)
  BY <1>1, <1>2, <1>5, CallFacts, RenewSlot, Zenon
<1>6. CASE k.op = "drain" /\ Drain(k)
  BY <1>1, <1>2, <1>6, DrainSlot, Zenon
<1>7. CASE k.op = "withdraw" /\ Withdraw(k)
  BY <1>1, <1>7, WithdrawSlot, Zenon
<1>8. CASE k.op = "current" /\ Current(k)
  BY <1>1, <1>2, <1>8, ExpireSlot, Zenon DEF Current
<1> QED
  BY <1>1, <1>3, <1>4, <1>5, <1>6, <1>7, <1>8, Zenon

-----------------------------------------------------------------------------
(* Wakeups *)

\* Either a critical section signals, or it does not make the link ready.
LEMMA RunWakes ==
    ASSUME TypeOK, NoLostWakeup, NEW c \in Callers, Run(c)
    PROVE  changed' \subseteq Waiters /\ NoLostWakeup'
<1> DEFINE k == call[c]
<1>1. waiter' = waiter /\ changed \subseteq Waiters
  BY Zenon DEF Run, waitVars, TypeOK
<1>2. Signal \/ (changed' = changed /\ state' = state)
  <2>1. ASSUME NEW e, Disconnect(e) PROVE Signal
    BY <2>1, Zenon DEF Disconnect
  <2>2. CASE Begin(k)
    BY <2>2, Zenon DEF Begin
  <2>3. CASE Ready(k)
    BY <2>1, <2>3, Zenon DEF Ready, slotVars
  <2>4. CASE Renew(k)
    BY <2>1, <2>4, Zenon DEF Renew, slotVars
  <2>5. CASE Drain(k)
    BY <2>1, <2>5, Zenon DEF Drain, slotVars
  <2>6. CASE Withdraw(k)
    BY <2>1, <2>6, Zenon DEF Withdraw, slotVars
  <2>7. CASE Current(k)
    BY <2>1, <2>7, Zenon DEF Current, slotVars
  <2> QED
    BY <2>2, <2>3, <2>4, <2>5, <2>6, <2>7, Zenon DEF Run
<1> QED
  BY <1>1, <1>2 DEF Signal, NoLostWakeup

-----------------------------------------------------------------------------
(* Every step *)

\* The initial state.
LEMMA InitInv == Init => IInv
<1> SUFFICES ASSUME Init PROVE IInv
  OBVIOUS
<1>1. /\ 0 \in Nat /\ 1 \in Nat /\ ~(0 > 0) /\ 0 <= 1
      /\ <<>> \in Seq(Transports) /\ Len(<<>>) = 0
  OBVIOUS
<1>2. TypeOK
  <2>1. /\ time \in Nat /\ generation \in Nat /\ leaseUntil \in Nat /\ value \in Nat
        /\ holders \in Seq(Transports) /\ Len(holders) = generation /\ ~(generation > 0)
    BY <1>1, Zenon DEF Init
  <2>2. state \in States /\ lastError \in {"", "expired", "cause"} /\ changed \subseteq Waiters
    BY Zenon DEF Init, States
  <2>3. /\ call \in [Callers -> Calls(Nat, Nat) \cup {NoCall}]
        /\ waiter \in [Waiters -> {"idle", "loop", "locking", "waiting"}]
        /\ now \in [Waiters -> Nat] /\ timer \in [Waiters -> Nat] /\ result \in [Waiters -> Nat]
    BY <1>1, Zenon DEF Init
  <2> QED
    BY <2>1, <2>2, <2>3, Zenon DEF TypeOK
<1>3. Readings /\ NoLostWakeup
  BY <1>1, Zenon DEF Init, Readings, NoLostWakeup
<1>4. Leased /\ OneHolder /\ ExpiredIsOver
  BY <1>1, Zenon DEF Init, Leased, OneHolder, ExpiredIsOver
<1> QED
  BY <1>2, <1>3, <1>4, Zenon DEF IInv

\* The clock moves on.
LEMMA TickInv ==
    ASSUME IInv, Tick PROVE IInv'
<1>1. /\ time \in Nat /\ time' = time + 1 /\ time' \in Nat /\ leaseUntil \in Nat
      /\ UNCHANGED <<slotVars, call, waitVars, changed>>
  <2>1. /\ time \in Nat /\ time' = time + 1 /\ leaseUntil \in Nat
        /\ UNCHANGED <<slotVars, call, waitVars, changed>>
    BY Zenon DEF IInv, TypeOK, Tick
  <2> QED
    BY <2>1
<1>2. TypeOK'
  BY <1>1, Zenon DEF IInv, TypeOK, slotVars, waitVars
<1>3. Readings'
  <2>1. ASSUME NEW n \in Nat, n <= time PROVE n <= time'
    BY <1>1, <2>1
  <2>2. ASSUME NEW c \in Callers, call[c] # NoCall PROVE call[c].now \in Nat
    BY <2>2, CallFacts, Zenon DEF IInv
  <2>3. \A w \in Waiters : now[w] \in Nat
    BY Zenon DEF IInv, TypeOK
  <2> QED
    BY <1>1, <2>1, <2>2, <2>3, Zenon DEF IInv, Readings, waitVars
<1>4. ExpiredIsOver'
  BY <1>1 DEF IInv, ExpiredIsOver, slotVars
<1> QED
  BY <1>1, <1>2, <1>3, <1>4, Zenon
  DEF IInv, Leased, OneHolder, NoLostWakeup, slotVars, waitVars

\* A call reads the clock.
LEMMA CallInv ==
    ASSUME IInv, NEW c \in Callers, Call(c) PROVE IInv'
<1>1. PICK k \in Calls({time}, 1..generation) : call' = [call EXCEPT ![c] = k]
  BY Zenon DEF Call
<1>2. time \in Nat /\ generation \in Nat /\ UNCHANGED <<time, slotVars, waitVars, changed>>
  BY Zenon DEF IInv, TypeOK, Call
<1>3. k \in Calls(Nat, Nat) /\ k.now = time
  BY <1>2 DEF Calls
<1>4. call' \in [Callers -> Calls(Nat, Nat) \cup {NoCall}]
  BY <1>1, <1>3, Zenon DEF IInv, TypeOK
<1>5. TypeOK'
  BY <1>2, <1>4, Zenon DEF IInv, TypeOK, slotVars, waitVars
<1>6. Readings'
  <2>1. time <= time
    BY <1>2
  <2>2. \A d \in Callers : call'[d] = call[d] \/ call'[d] = k
    BY <1>1, Zenon DEF IInv, TypeOK
  <2> QED
    BY <1>2, <1>3, <2>1, <2>2, Zenon DEF IInv, Readings, waitVars
<1> QED
  BY <1>2, <1>5, <1>6, Zenon
  DEF IInv, Leased, OneHolder, ExpiredIsOver, NoLostWakeup, slotVars, waitVars

\* A call runs.
LEMMA RunInv ==
    ASSUME IInv, NEW c \in Callers, Run(c) PROVE IInv'
<1>1. SlotOK
  BY Zenon DEF IInv, TypeOK, SlotOK
<1>2. SlotOK'
  BY <1>1, RunSlot, Zenon DEF IInv
<1>3. changed' \subseteq Waiters /\ NoLostWakeup'
  BY RunWakes, Zenon DEF IInv
<1>4. call' = [call EXCEPT ![c] = NoCall] /\ UNCHANGED <<time, waitVars>>
  BY Zenon DEF Run
<1>5. /\ call' \in [Callers -> Calls(Nat, Nat) \cup {NoCall}]
      /\ \A d \in Callers : call'[d] = call[d] \/ call'[d] = NoCall
  BY <1>4, Zenon DEF IInv, TypeOK
<1>6. TypeOK'
  BY <1>2, <1>3, <1>4, <1>5, Zenon DEF IInv, TypeOK, SlotOK, waitVars
<1>7. Readings'
  BY <1>4, <1>5, Zenon DEF IInv, Readings, waitVars
<1> QED
  BY <1>2, <1>3, <1>6, <1>7, Zenon DEF IInv, SlotOK

\* A waiter that changes neither the slot nor the channels, and does not begin to
\* wait.
LEMMA WaiterInv ==
    ASSUME IInv, NEW w \in Waiters,
           UNCHANGED <<time, slotVars, call>>, changed' \in {changed, changed \ {w}},
           NEW x \in {"idle", "loop", "locking"}, waiter' = [waiter EXCEPT ![w] = x],
           now' \in [Waiters -> Nat], \A v \in Waiters : now'[v] <= time,
           timer' \in [Waiters -> Nat], result' \in [Waiters -> Nat]
    PROVE  IInv'
<1>1. /\ waiter' \in [Waiters -> {"idle", "loop", "locking", "waiting"}]
      /\ \A v \in Waiters : waiter'[v] = IF v = w THEN x ELSE waiter[v]
  BY DEF IInv, TypeOK
<1>2. changed' \subseteq Waiters
  BY Zenon DEF IInv, TypeOK
<1>3. TypeOK'
  BY <1>1, <1>2, Zenon DEF IInv, TypeOK, slotVars
<1>4. Readings'
  BY Zenon DEF IInv, Readings
<1>5. NoLostWakeup'
  <2> SUFFICES ASSUME NEW v \in Waiters, waiter'[v] = "waiting", state' = "ready"
               PROVE  v \in changed'
    BY Zenon DEF NoLostWakeup
  <2>1. v # w /\ waiter[v] = "waiting"
    BY <1>1
  <2>2. state = "ready"
    BY Zenon DEF slotVars
  <2>3. v \in changed
    BY <2>1, <2>2, Zenon DEF IInv, NoLostWakeup
  <2> QED
    BY <2>1, <2>3
<1> QED
  BY <1>3, <1>4, <1>5, Zenon DEF IInv, Leased, OneHolder, ExpiredIsOver, slotVars

\* WaitBlock: a link that is ready but not available has a lease that is over, so
\* the waiter never begins to wait on a ready link.
LEMMA WaitBlockInv ==
    ASSUME IInv, NEW w \in Waiters, WaitBlock(w) PROVE IInv'
<1>1. /\ waiter' = [waiter EXCEPT ![w] = "waiting"] /\ ~Available(now[w])
      /\ UNCHANGED <<time, call, now, result>>
      /\ IF Expires(now[w]) THEN Disconnect("expired") ELSE UNCHANGED <<slotVars, changed>>
  BY Zenon DEF WaitBlock
<1>2. time \in Nat /\ now[w] \in Nat /\ now[w] <= time /\ leaseUntil \in Nat
  BY Zenon DEF IInv, TypeOK, Readings
<1>3. SlotOK
  BY Zenon DEF IInv, TypeOK, SlotOK
<1>4. SlotOK'
  BY <1>1, <1>2, <1>3, ExpireSlot, Zenon
<1>5. /\ waiter' \in [Waiters -> {"idle", "loop", "locking", "waiting"}]
      /\ \A v \in Waiters : waiter'[v] = IF v = w THEN "waiting" ELSE waiter[v]
  BY <1>1 DEF IInv, TypeOK
<1>6. changed' \subseteq Waiters
  BY <1>1 DEF IInv, TypeOK, Disconnect, Signal
<1>7. timer' \in [Waiters -> Nat]
  <2>1. PICK x : timer' = [timer EXCEPT ![w] = x]
                 /\ x = IF leaseUntil # 0 /\ ~Over(now[w]) THEN time + leaseUntil - now[w] ELSE 0
    BY Zenon DEF WaitBlock
  <2>2. x \in Nat
    BY <1>2, <2>1 DEF Over
  <2> QED
    BY <2>1, <2>2, Zenon DEF IInv, TypeOK
<1>8. TypeOK'
  BY <1>1, <1>4, <1>5, <1>6, <1>7, Zenon DEF IInv, TypeOK, SlotOK
<1>9. Readings'
  BY <1>1, Zenon DEF IInv, Readings
<1>10. NoLostWakeup'
  <2>1. CASE Expires(now[w])
    BY <1>1, <2>1, Zenon DEF Disconnect, NoLostWakeup
  <2>2. CASE ~Expires(now[w])
    <3>1. UNCHANGED <<slotVars, changed>>
      BY <1>1, <2>2, Zenon
    <3>2. state # "ready"
      BY <1>1, <2>2, Zenon DEF Expires, Available, IInv, Leased, OneHolder
    <3> QED
      BY <3>1, <3>2, Zenon DEF slotVars, NoLostWakeup
  <2> QED
    BY <2>1, <2>2, Zenon
<1> QED
  BY <1>4, <1>8, <1>9, <1>10, Zenon DEF IInv, SlotOK

\* One step of the specification.
LEMMA NextInv ==
    ASSUME IInv, [Next]_vars PROVE IInv'
<1>1. TypeOK /\ Readings
  BY Zenon DEF IInv
<1>2. CASE UNCHANGED vars
  BY <1>2, Zenon DEF IInv, TypeOK, Readings, Leased, OneHolder, ExpiredIsOver, NoLostWakeup,
                     vars, slotVars, waitVars
<1>3. CASE Tick
  BY <1>3, TickInv, Zenon
<1>4. ASSUME NEW c \in Callers, Call(c) PROVE IInv'
  BY <1>4, CallInv, Zenon
<1>5. ASSUME NEW c \in Callers, Run(c) PROVE IInv'
  BY <1>5, RunInv, Zenon
<1>6. ASSUME NEW w \in Waiters, WaitBegin(w) PROVE IInv'
  <2>1. result' \in [Waiters -> Nat]
    BY <1>1, <1>6 DEF WaitBegin, TypeOK
  <2> QED
    BY <1>1, <1>6, <2>1, WaiterInv, Zenon DEF WaitBegin, TypeOK, Readings
<1>7. ASSUME NEW w \in Waiters, WaitClock(w) PROVE IInv'
  <2>1. time \in Nat /\ time <= time /\ now \in [Waiters -> Nat]
        /\ now' = [now EXCEPT ![w] = time]
    <3>1. time \in Nat /\ now \in [Waiters -> Nat] /\ now' = [now EXCEPT ![w] = time]
      BY <1>1, <1>7, Zenon DEF WaitClock, TypeOK
    <3>2. time <= time
      BY <3>1
    <3> QED
      BY <3>1, <3>2, Zenon
  <2>2. now' \in [Waiters -> Nat] /\ \A v \in Waiters : now'[v] \in {time, now[v]}
    BY <2>1
  <2>3. \A v \in Waiters : now'[v] <= time
    BY <1>1, <2>1, <2>2, Zenon DEF Readings
  <2> QED
    BY <1>1, <1>7, <2>2, <2>3, WaiterInv, Zenon DEF WaitClock, TypeOK
<1>8. ASSUME NEW w \in Waiters, WaitReturn(w) PROVE IInv'
  <2>1. result' \in [Waiters -> Nat]
    BY <1>1, <1>8, Zenon DEF WaitReturn, TypeOK
  <2> QED
    BY <1>1, <1>8, <2>1, WaiterInv, Zenon DEF WaitReturn, TypeOK, Readings
<1>9. ASSUME NEW w \in Waiters, WaitBlock(w) PROVE IInv'
  BY <1>9, WaitBlockInv, Zenon
<1>10. ASSUME NEW w \in Waiters, WaitWake(w) PROVE IInv'
  <2>1. timer' \in [Waiters -> Nat]
    BY <1>1, <1>10 DEF WaitWake, TypeOK
  <2> QED
    BY <1>1, <1>10, <2>1, WaiterInv, Zenon DEF WaitWake, TypeOK, Readings
<1>11. ASSUME NEW w \in Waiters, WaitCancel(w) PROVE IInv'
  <2>1. timer' \in [Waiters -> Nat]
    BY <1>1, <1>11 DEF WaitCancel, TypeOK
  <2> QED
    BY <1>1, <1>11, <2>1, WaiterInv, Zenon DEF WaitCancel, TypeOK, Readings
<1> QED
  BY <1>2, <1>3, <1>4, <1>5, <1>6, <1>7, <1>8, <1>9, <1>10, <1>11, Zenon DEF Next, WaitStep

-----------------------------------------------------------------------------
(* Theorems *)

\* The invariant holds in every reachable state.
THEOREM Inductive == Spec => []IInv
<1>1. IInv /\ [Next]_vars => IInv'
  BY NextInv, Zenon
<1> QED
  BY InitInv, <1>1, PTL DEF Spec

\* Every generation belongs to one transport, and a published value is that of the
\* transport that holds the link now.
THEOREM SingleHolder == Spec => []OneHolder
<1>1. IInv => OneHolder
  BY Zenon DEF IInv
<1> QED
  BY Inductive, <1>1, PTL

\* A link is marked expired only when its lease is over, whatever old clock
\* readings the calls act on.
THEOREM ExpiryHonest == Spec => []ExpiredIsOver
<1>1. IInv => ExpiredIsOver
  BY Zenon DEF IInv
<1> QED
  BY Inductive, <1>1, PTL

\* Wait never sleeps through the moment its link becomes ready.
THEOREM WakeupsKept == Spec => []NoLostWakeup
<1>1. IInv => NoLostWakeup
  BY Zenon DEF IInv
<1> QED
  BY Inductive, <1>1, PTL

\* A published value is withdrawn by its own transport only, unless a newer
\* generation takes the link over or the lease is over.
THEOREM OldCleanupFenced == Spec => Fenced
<1>1. IInv /\ [Next]_vars => [FencedStep]_vars
  <2> SUFFICES ASSUME IInv, Next, value # 0, value' # value
               PROVE  generation' = generation + 1 \/ Owner("withdraw") \/ leaseUntil <= time
    BY Zenon DEF FencedStep
  <2>1. TypeOK /\ Readings /\ time \in Nat /\ leaseUntil \in Nat /\ state # "connecting"
    <3>1. state \in {"ready", "draining"}
      BY Zenon DEF IInv, OneHolder
    <3> QED
      BY <3>1, Zenon DEF IInv, TypeOK
  <2>2. ASSUME NEW t \in Nat, t <= time, Over(t) PROVE leaseUntil <= time
    BY <2>1, <2>2, OverNow, Zenon
  <2>3. ASSUME NEW c \in Callers, Run(c)
        PROVE  generation' = generation + 1 \/ Owner("withdraw") \/ leaseUntil <= time
    <3> DEFINE k == call[c]
    <3>1. k # NoCall /\ k.now \in Nat /\ k.now <= time
      BY <2>1, <2>3, CallFacts, Zenon DEF Run, Readings
    <3>2. CASE k.op = "begin" /\ Begin(k)
      BY <3>2, Zenon DEF Begin
    <3>3. CASE k.op = "ready" /\ Ready(k)
      BY <2>1, <2>2, <3>1, <3>3, Zenon DEF Ready, slotVars
    <3>4. CASE k.op = "renew" /\ Renew(k)
      BY <2>2, <3>1, <3>4, Zenon DEF Renew, slotVars
    <3>5. CASE k.op = "drain" /\ Drain(k)
      BY <2>2, <3>1, <3>5, Zenon DEF Drain, slotVars, Expires
    <3>6. CASE k.op = "withdraw" /\ Withdraw(k)
      <4>1. Matches(k)
        BY <3>6, Zenon DEF Withdraw, slotVars
      <4>2. call'[c] = NoCall
        BY <2>1, <2>3, Zenon DEF Run, TypeOK
      <4> QED
        BY <3>6, <4>1, <4>2, Zenon DEF Matches, Owner
    <3>7. CASE k.op = "current" /\ Current(k)
      BY <2>2, <3>1, <3>7, Zenon DEF Current, slotVars, Expires
    <3> QED
      BY <2>3, <3>2, <3>3, <3>4, <3>5, <3>6, <3>7, Zenon DEF Run
  <2>4. ASSUME NEW w \in Waiters, WaitBlock(w) PROVE leaseUntil <= time
    <3>1. now[w] \in Nat /\ now[w] <= time
      BY <2>1, Zenon DEF TypeOK, Readings
    <3> QED
      BY <2>2, <2>4, <3>1, Zenon DEF WaitBlock, Expires, slotVars
  <2> QED
    BY <2>3, <2>4, Zenon
    DEF Next, Tick, Call, WaitStep, WaitBegin, WaitClock, WaitReturn, WaitWake, WaitCancel, slotVars
<1> QED
  BY Inductive, <1>1, PTL DEF Fenced, Spec

\* A generation that has disconnected stays disconnected.
THEOREM NeverRevived == Spec => NoRevival
<1>1. IInv /\ [Next]_vars => [NoRevivalStep]_vars
  <2> SUFFICES ASSUME IInv, Next, state = "disconnected", generation' = generation
               PROVE  state' = "disconnected" /\ leaseUntil' = leaseUntil
    BY Zenon DEF NoRevivalStep
  <2>1. generation \in Nat /\ generation # generation + 1
    <3>1. generation \in Nat
      BY Zenon DEF IInv, TypeOK
    <3> QED
      BY <3>1
  <2>2. ASSUME NEW e, Disconnect(e) PROVE state' = "disconnected" /\ leaseUntil' = leaseUntil
    BY <2>2, Zenon DEF Disconnect
  <2>3. ASSUME NEW c \in Callers, Run(c)
        PROVE  state' = "disconnected" /\ leaseUntil' = leaseUntil
    <3> DEFINE k == call[c]
    <3>1. CASE Begin(k)
      BY <2>1, <3>1, Zenon DEF Begin
    <3>2. CASE Ready(k)
      BY <2>2, <3>2, Zenon DEF Ready, slotVars
    <3>3. CASE Renew(k)
      BY <2>2, <3>3, Zenon DEF Renew, slotVars
    <3>4. CASE Drain(k)
      BY <2>2, <3>4, Zenon DEF Drain, slotVars
    <3>5. CASE Withdraw(k)
      BY <2>2, <3>5, Zenon DEF Withdraw, slotVars
    <3>6. CASE Current(k)
      BY <2>2, <3>6, Zenon DEF Current, slotVars
    <3> QED
      BY <2>3, <3>1, <3>2, <3>3, <3>4, <3>5, <3>6, Zenon DEF Run
  <2>4. ASSUME NEW w \in Waiters, WaitBlock(w)
        PROVE  state' = "disconnected" /\ leaseUntil' = leaseUntil
    BY <2>2, <2>4, Zenon DEF WaitBlock, slotVars
  <2> QED
    BY <2>3, <2>4, Zenon
    DEF Next, Tick, Call, WaitStep, WaitBegin, WaitClock, WaitReturn, WaitWake, WaitCancel, slotVars
<1> QED
  BY Inductive, <1>1, PTL DEF NoRevival, Spec

\* What Wait returns is of the newest generation, published, and under a lease that
\* was not over when the waiter read the clock.
THEOREM WaitCurrent == Spec => WaitIsCurrent
<1>1. IInv /\ [Next]_vars => [CurrentStep]_vars
  <2> SUFFICES ASSUME IInv, Next, NEW w \in Waiters, result'[w] # result[w], result'[w] # 0
               PROVE  result'[w] = generation /\ state = "ready" /\ now[w] < leaseUntil
    BY Zenon DEF CurrentStep
  <2>1. /\ result \in [Waiters -> Nat] /\ now[w] \in Nat /\ leaseUntil \in Nat
        /\ value # 0 => value = generation
    BY Zenon DEF IInv, TypeOK, OneHolder
  <2>2. ASSUME NEW v \in Waiters, WaitReturn(v)
        PROVE  result'[w] = generation /\ state = "ready" /\ now[w] < leaseUntil
    <3>1. /\ v = w /\ result'[w] = value
      BY <2>1, <2>2, Zenon DEF WaitReturn
    <3>2. state = "ready" /\ ~Over(now[w]) /\ value # 0
      BY <2>2, <3>1, Zenon DEF WaitReturn, Available
    <3>3. now[w] < leaseUntil
      BY <2>1, <3>2 DEF Over
    <3> QED
      BY <2>1, <3>1, <3>2, <3>3, Zenon
  <2>3. ASSUME NEW v \in Waiters, WaitBegin(v) PROVE FALSE
    BY <2>1, <2>3, Zenon DEF WaitBegin
  <2> QED
    BY <2>2, <2>3, Zenon
    DEF Next, Tick, Call, Run, WaitStep, WaitClock, WaitBlock, WaitWake, WaitCancel, waitVars
<1> QED
  BY Inductive, <1>1, PTL DEF WaitIsCurrent, Spec

=============================================================================
