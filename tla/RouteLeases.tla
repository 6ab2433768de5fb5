---------------------------- MODULE RouteLeases ----------------------------
(***************************************************************************)
(* The route of one logical link in the lease file that the processes of a *)
(* node share (sessionroute/lease_store.go): the process that serves the   *)
(* link registers and renews it (internal/app/session_host.go and          *)
(* reconnect_lifecycle.go), other processes look it up, dial its broker    *)
(* and remove it when its broker cannot be reached (router.go).            *)
(*                                                                         *)
(* The file is changed under a file lock and replaced by a rename, so a    *)
(* change is one step, also when the process stops.  Each change acts on a *)
(* clock reading from before the lock.                                     *)
(*                                                                         *)
(* A token is the start of the process (run) and the generation within it. *)
(* The run stands for the transport ID, which is random; the code compares *)
(* it for equality only.                                                   *)
(***************************************************************************)
EXTENDS Naturals, FiniteSets

CONSTANTS
    Callers,   \* processes that open streams over the link
    Lease,     \* the lease of the link
    MaxLease,  \* sessionlink.MaxLease
    MaxRuns,   \* bound: starts of the process
    MaxGen,    \* bound: generations of a run
    MaxTime,   \* bound: the clock
    Ops        \* "cancel": callers give up while they dial

ASSUME RouteAssumption == /\ Lease \in Nat \ {0} /\ MaxLease \in Nat /\ Lease <= MaxLease
                          /\ MaxRuns \in Nat /\ MaxGen \in Nat /\ MaxTime \in Nat
                          /\ Ops \subseteq {"cancel"}

Gens == 1..MaxGen

VARIABLES
    time,      \* the clock
    entries,   \* durable: the entries of the link in the file
    process,   \* the process that serves the link
    run,       \* its starts so far
    link,      \* its slot in sessionlink.Manager (see LinkManager)
    commit,    \* generationHandover.Commit and ResetLink, while they run
    active,    \* the generations whose renewal has not been stopped
    renewal,   \* the renewal each generation is in
    caller     \* where each caller is in dialRegistered

memory == <<link, commit, active, renewal>>
vars == <<time, entries, process, run, memory, caller>>

Token == [run : 1..MaxRuns, gen : Gens]

Nothing == [stage |-> "none"]

TypeOK ==
    /\ time \in 1..MaxTime
    /\ entries \subseteq [token : Token, until : Nat]
    /\ process \in {"down", "starting", "up"} /\ run \in 0..MaxRuns
    /\ link \in [generation : 0..MaxGen, ready : BOOLEAN, until : Nat]
    /\ commit \in {Nothing} \cup [stage : {"reset"}, now : Nat]
                  \cup [stage : {"published", "registered"}, until : Nat]
                  \cup [stage : {"register"}, until : Nat, now : Nat]
                  \cup [stage : {"remove"}, now : Nat]
    /\ active \subseteq Gens
    /\ renewal \in [Gens -> {Nothing} \cup [stage : {"link", "store"}, until : Nat]
                            \cup [stage : {"locking"}, until : Nat, now : Nat]]
    /\ caller \in [Callers -> [stage : {"idle", "resolve"}, seen : SUBSET Gens]
                              \cup [stage : {"dial"}, seen : SUBSET Gens, token : Token]
                              \cup [stage : {"remove"}, seen : SUBSET Gens, token : Token,
                                    now : Nat]]

Idle == [stage |-> "idle", seen |-> {}]

NoLink == [generation |-> 0, ready |-> FALSE, until |-> 0]

Init ==
    /\ time = 1 /\ entries = {} /\ process = "down" /\ run = 0
    /\ link = NoLink /\ commit = Nothing /\ active = {}
    /\ renewal = [g \in Gens |-> Nothing]
    /\ caller = [c \in Callers |-> Idle]

Tick ==
    /\ time < MaxTime /\ time' = time + 1
    /\ UNCHANGED <<entries, process, run, memory, caller>>

-----------------------------------------------------------------------------
(* LeaseStore.  t is the clock reading of the operation. *)

\* expiredLease and validateLeaseEntry: the entry counts at time t.
Valid(e, t) == t < e.until /\ e.until - t <= MaxLease

Live(t) == {e \in entries : Valid(e, t)}

\* Register refuses: there is a newer generation, or this one of another transport.
Refuses(token, t) ==
    \E e \in Live(t) : e.token.gen > token.gen \/ (e.token.gen = token.gen /\ e.token # token)

\* Register replaces whatever entry the link has.
Register(token, until) == entries' = {[token |-> token, until |-> until]}

\* mutant: a renewal restores the route, whoever has it now
RenewRestores(token, until, t) == entries' = {[token |-> token, until |-> until]}

\* Renew.  An error leaves the file as it is: entries of the link that are over
\* are dropped only when there is one to renew.
Renew(token, until, t) ==
    IF {e.token : e \in Live(t)} = {token}
    THEN entries' = {[e EXCEPT !.until = until] : e \in Live(t)}
    ELSE UNCHANGED entries

\* mutant: the transport is not compared
RemoveGeneration(token, t) == entries' = {e \in Live(t) : e.token.gen # token.gen}

\* Remove
Remove(token, t) == entries' = {e \in Live(t) : e.token # token}

\* mutant: the entries of the process before are kept
ResetNothing(t) == entries' = Live(t)

\* ResetLink
ResetLink(t) == entries' = {}

-----------------------------------------------------------------------------
(* The process that serves the link *)

Mine(g) == [run |-> run, gen |-> g]

\* The process listens on the broker socket, which nobody else serves, and calls
\* ResetLink.
Start ==
    /\ process = "down" /\ run < MaxRuns
    /\ process' = "starting" /\ run' = run + 1
    /\ commit' = [stage |-> "reset", now |-> time]
    /\ UNCHANGED <<time, entries, link, active, renewal, caller>>

Reset ==
    /\ commit.stage = "reset"
    /\ ResetLink(commit.now)
    /\ process' = "up" /\ commit' = Nothing
    /\ UNCHANGED <<time, run, link, active, renewal, caller>>

\* The process ends or is killed, or the file lock is not to be had for ResetLink.
Stop ==
    /\ process # "down"
    /\ process' = "down" /\ link' = NoLink /\ commit' = Nothing /\ active' = {}
    /\ renewal' = [g \in Gens |-> Nothing]
    /\ UNCHANGED <<time, entries, run, caller>>

\* LinkRouter.Withdraw
Withdraw(g) ==
    link' = IF link.generation = g THEN [link EXCEPT !.ready = FALSE] ELSE link

\* mutant: the generations are not counted
PublishUncounted ==
    /\ process = "up" /\ commit = Nothing /\ link.generation < MaxGen
    /\ link' = [generation |-> link.generation, ready |-> TRUE, until |-> time + Lease]
    /\ commit' = [stage |-> "published", until |-> time + Lease]
    /\ UNCHANGED <<time, entries, process, run, active, renewal, caller>>

\* A transport is ready.  Commit publishes it in the link manager ...
Publish ==
    /\ process = "up" /\ commit = Nothing /\ link.generation < MaxGen
    /\ link' = [generation |-> link.generation + 1, ready |-> TRUE, until |-> time + Lease]
    /\ commit' = [stage |-> "published", until |-> time + Lease]
    /\ UNCHANGED <<time, entries, process, run, active, renewal, caller>>

\* ... makes an entry and calls Register, which reads the clock ...
RegisterBegin ==
    /\ commit.stage = "published"
    /\ IF Valid(commit, time)
       THEN /\ commit' = [stage |-> "register", until |-> commit.until, now |-> time]
            /\ UNCHANGED link
       ELSE commit' = Nothing /\ Withdraw(link.generation)
    /\ UNCHANGED <<time, entries, process, run, active, renewal, caller>>

RegisterRun ==
    /\ commit.stage = "register"
    /\ IF Refuses(Mine(link.generation), commit.now)
       THEN commit' = Nothing /\ Withdraw(link.generation) /\ UNCHANGED entries
       ELSE /\ Register(Mine(link.generation), commit.until)
            /\ commit' = [stage |-> "registered", until |-> commit.until]
            /\ UNCHANGED link
    /\ UNCHANGED <<time, process, run, active, renewal, caller>>

\* ... or does not get the lock.
RegisterFails ==
    /\ commit.stage = "register"
    /\ commit' = Nothing /\ Withdraw(link.generation)
    /\ UNCHANGED <<time, entries, process, run, active, renewal, caller>>

\* Then it writes the state file, and the renewal starts; ...
WriteState ==
    /\ commit.stage = "registered"
    /\ commit' = Nothing /\ active' = active \cup {link.generation}
    /\ UNCHANGED <<time, entries, process, run, link, renewal, caller>>

\* ... if that fails, the entry is removed and the transport withdrawn.
WriteStateFails ==
    /\ commit.stage = "registered"
    /\ commit' = [stage |-> "remove", now |-> time]
    /\ UNCHANGED <<time, entries, process, run, link, active, renewal, caller>>

WithdrawEntry ==
    /\ commit.stage = "remove"
    /\ \/ Remove(Mine(link.generation), commit.now)
       \/ UNCHANGED entries
    /\ commit' = Nothing /\ Withdraw(link.generation)
    /\ UNCHANGED <<time, process, run, active, renewal, caller>>

\* The cleanup of a generation whose transport has ended, before or after the next
\* one is published.  It leaves the route in the file.
Cleanup(g) ==
    /\ g \in active
    /\ active' = active \ {g}
    /\ Withdraw(g)
    /\ UNCHANGED <<time, entries, process, run, commit, renewal, caller>>

-----------------------------------------------------------------------------
(* StartLeaseRenewal, a goroutine for each generation *)

RenewBegin(g) ==
    /\ g \in active /\ renewal[g] = Nothing
    /\ renewal' = [renewal EXCEPT ![g] = [stage |-> "link", until |-> time + Lease]]
    /\ UNCHANGED <<time, entries, process, run, link, commit, active, caller>>

\* LinkRouter.Renew: only the newest generation, before its lease is over.
RenewLink(g) ==
    /\ renewal[g].stage = "link"
    /\ IF g = link.generation /\ link.ready /\ time < link.until
       THEN /\ link' = [link EXCEPT !.until = time + Lease]
            /\ renewal' = [renewal EXCEPT ![g].stage = "store"]
       ELSE /\ link' = IF g = link.generation /\ time >= link.until
                       THEN [link EXCEPT !.ready = FALSE] ELSE link
            /\ renewal' = [renewal EXCEPT ![g] = Nothing]
    /\ UNCHANGED <<time, entries, process, run, commit, active, caller>>

\* mutant: the lease in the file is counted from the call of the store
RenewLonger(g) ==
    /\ renewal[g].stage = "store"
    /\ renewal' = [renewal EXCEPT ![g] = [stage |-> "locking", until |-> time + Lease,
                                          now |-> time]]
    /\ UNCHANGED <<time, entries, process, run, link, commit, active, caller>>

\* LeaseStore.Renew reads the clock ...
RenewStore(g) ==
    /\ renewal[g].stage = "store"
    /\ renewal' = [renewal EXCEPT ![g] = IF Valid(@, time)
                                         THEN [stage |-> "locking", until |-> @.until,
                                               now |-> time]
                                         ELSE Nothing]
    /\ UNCHANGED <<time, entries, process, run, link, commit, active, caller>>

\* ... and changes the file, or does not get the lock in time.
RenewRun(g) ==
    /\ renewal[g].stage = "locking"
    /\ \/ Renew(Mine(g), renewal[g].until, renewal[g].now)
       \/ UNCHANGED entries
    /\ renewal' = [renewal EXCEPT ![g] = Nothing]
    /\ UNCHANGED <<time, process, run, link, commit, active, caller>>

-----------------------------------------------------------------------------
(* Router.dialRegistered *)

Open(c) ==
    /\ caller[c].stage = "idle"
    /\ caller' = [caller EXCEPT ![c].stage = "resolve"]
    /\ UNCHANGED <<time, entries, process, run, memory>>

\* ResolveAdjacent: the entry of the newest generation.
Newest(S) == CHOOSE e \in S : \A d \in S : d.token.gen <= e.token.gen

\* There is no route, the route was tried before, or it is dialed.  (The registry
\* without leases that older processes use is left out, and so is the limit of 16
\* attempts, which are more than there are generations.)
Resolve(c) ==
    /\ caller[c].stage = "resolve"
    /\ caller' = [caller EXCEPT ![c] =
                    IF Live(time) = {} THEN Idle
                    ELSE LET token == Newest(Live(time)).token
                         IN  IF token.gen \in caller[c].seen THEN Idle
                             ELSE [stage |-> "dial", token |-> token,
                                   seen |-> caller[c].seen \cup {token.gen}]]
    /\ UNCHANGED <<time, entries, process, run, memory>>

Dial(c) ==
    /\ caller[c].stage = "dial"
    /\ process # "down"
    /\ caller' = [caller EXCEPT ![c] = Idle]
    /\ UNCHANGED <<time, entries, process, run, memory>>

\* brokerUnavailable: nobody listens, or the context ended during the dial.
Unavailable == process = "down" \/ "cancel" \in Ops

\* The broker cannot be dialed: the caller removes the entry it was given ...
DialFails(c) ==
    /\ caller[c].stage = "dial"
    /\ Unavailable
    /\ caller' = [caller EXCEPT ![c] = [stage |-> "remove", token |-> caller[c].token,
                                        seen |-> caller[c].seen, now |-> time]]
    /\ UNCHANGED <<time, entries, process, run, memory>>

\* ... if it gets the lock, and tries again.
RemoveRun(c) ==
    /\ caller[c].stage = "remove"
    /\ \/ Remove(caller[c].token, caller[c].now)
       \/ UNCHANGED entries
    /\ caller' = [caller EXCEPT ![c] = [stage |-> "resolve", seen |-> caller[c].seen]]
    /\ UNCHANGED <<time, process, run, memory>>

-----------------------------------------------------------------------------

Next ==
    \/ Tick \/ Start \/ Reset \/ Stop
    \/ Publish \/ RegisterBegin \/ RegisterRun \/ RegisterFails
    \/ WriteState \/ WriteStateFails \/ WithdrawEntry
    \/ \E g \in Gens : Cleanup(g) \/ RenewBegin(g) \/ RenewLink(g) \/ RenewStore(g) \/ RenewRun(g)
    \/ \E c \in Callers : Open(c) \/ Resolve(c) \/ Dial(c) \/ DialFails(c) \/ RemoveRun(c)

Spec == Init /\ [][Next]_vars

-----------------------------------------------------------------------------
(* Correctness *)

\* The route never promises more than the link: the lease in the file ends no later
\* than that of the generation in the link manager, although both are renewed one
\* after the other and may fail in between.
NeverAhead ==
    \A e \in entries : e.token = Mine(link.generation) => e.until <= link.until

\* "this is the process-restart recovery path when an old process crashed with an
\* unexpired lease and its in-memory generation counter was lost" (ResetLink): the
\* generations of the running process are never refused.
NeverRefused ==
    commit.stage = "register" => ~Refuses(Mine(link.generation), commit.now)

Newer(a, b) == a.run > b.run \/ (a.run = b.run /\ a.gen > b.gen)

FenceStep ==
    \A e \in entries : \A d \in entries' : d.token # e.token => Newer(d.token, e.token)

\* "An older generation can never overwrite a newer one" (Register), nor can a
\* renewal that was under way when the newer one was registered.
Fence == [][FenceStep]_vars

Replaced(e) == \E d \in entries' : d.token = e.token \/ Newer(d.token, e.token)

KeptStep ==
    \A e \in entries :
        process = "up" /\ e.token.run = run /\ time < e.until
          => Replaced(e) \/ commit.stage = "remove"

\* "Keep the stable broker route published until its short lease expires" (OnReady):
\* while its process runs, the route leaves the file only for that of a newer
\* generation, or because the process itself could not finish publishing it.
RouteKept == [][KeptStep]_vars

=============================================================================
