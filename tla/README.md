# TLA+ models of weaverssh

weaverssh carries a session over one X11 channel of `ssh -X`: `wv session-host`
starts the ssh connection, `wv attach` turns the channel into a WebSocket, and
everything else (control, files, TCP, UDP) runs as logical streams over it.
Local processes share the session through a Unix-socket broker, a lost channel
is replaced by a new one under the same logical link, and an agent records what
it served in a signed journal.

This directory holds specifications of the parts where order, concurrency and
failure decide whether the program is right, the TLC models that check them on
small instances, and TLAPS proofs of the safety properties of two of them for
every instance. `PROJECT.json` maps each definition to the lines it models.

## The system

| part | state it keeps | operations | interacts with | what is hard |
|---|---|---|---|---|
| `sessionmux` stream multiplexer | stream table, per stream: open and closed flags, credit, read buffer; queues for outgoing frames and accepted streams | Open, Accept, Read, Write, Close, Reset, shutdown, frame handlers | peers exchange frames; a read loop and a writer loop per peer, callers on any goroutine | interleaving of calls and handlers, credit accounting, half-closes, cancelled opens, bounded queues |
| `sessionlink` logical links | per link: generation, transport, state, lease, published value, change channel | Begin, Ready, Renew, Drain, Withdraw, Current, Wait | `LinkRouter` (broker) publishes and waits; reconnect loop begins and withdraws | late cleanup of old transports, clock read before the lock, wakeups |
| `sessionroute` route leases | a lease file shared by processes, one entry per link | Register, Renew, Remove, ResetLink, Snapshot, ResolveAdjacent; dial and bridge | session host and attach write, other commands read and dial the broker socket | stale readers, renewal against removal, crash without cleanup |
| reconnect lifecycle (`internal/app`) | the current transport, its handover, its renewal timer | connect, publish, renew, drain, clean up, retry | link manager, route leases, registration | ordering of the cleanup of one transport with the start of the next |
| `sessioncontrol` registration | authenticated nodes, pending challenges | challenge, prove, register | control stream | replay, expiry, reconnect of the same node |
| `sessionbroker`, `sessiondispatch`, `sessionresume` | local connections and their streams; copy offsets | serve, dial, bridge, dispatch, resume | mux streams on one side, sockets on the other | half-close, who closes what |
| `socketcontrol`, `socketengine` | current and next engine, connections and their queues | start, reload, stop, wait; open, traffic, close | control listener, forwarding | reload against stop, failure in the middle of a reload |
| `pubsub` | clients, subscriptions, retained state | subscribe, publish, close | streams and sockets | close against accept, slow subscribers |
| evidence journal (`evidencebinding`, `internal/app`) | ledger file, records in memory, embedded store | open and verify, append, close | connections of the agent record events | crashes and failures between signing, anchoring, writing and syncing |
| remote evidence delivery | queue in memory and on disk, receipts | enqueue, flush, retry, close | journal, remote providers | queue changed while providers are called, repeated requests, startup scan against new records |
| proofs, SOCKS, UDP, storage, 9P, rules, discovery, command line | little or none | per request | external programs and services | mostly conversions, cryptography and I/O |

`PROJECT.json` lists every part with its sources, and the hazards line by line.
What makes each part correct:

- mux: no byte lost, repeated or reordered; a clean end means a complete
  stream; buffers stay within the advertised windows; no stream can stop the
  others; every call returns.
- links: only the newest transport is handed out; expiry is never reported
  early; nobody waits on a link that is ready.
- route leases: one entry per link, an older generation never replaces a newer
  one, a live route is not lost.
- reconnect: after a loss either a new transport is published or the session
  ends; cleanup of the old one does not touch the new one.
- registration: a challenge is answered once; a node is registered by one
  transport at a time.
- broker and bridge: what one side sends reaches the other or an error does,
  and both sides end.
- supervisor: one engine serves at any time, a failed reload leaves the old
  one, stop ends everything.
- pubsub: a subscriber sees each publication at most once and in order, close
  ends every client.
- journal: what was returned is durable, and its records verify after any
  failure; delivery: nothing is claimed that the providers do not have, and
  what is queued is delivered.

## Modules

| module | models | composed of |
|---|---|---|
| `SessionMux` | `sessionmux/mux.go`, `stream.go`, `flow.go` | |
| `MuxBackpressure` | the bounded queues of `mux.go` that `SessionMux` takes as one channel | |
| `LinkManager` | `sessionlink/manager.go`, used by `sessionbroker/link_router.go` | |
| `RouteLeases` | `sessionroute/lease_store.go`, `router.go`, and `OnReady` of `internal/app/session_host.go` | a slot of `LinkManager`, reduced to generation, readiness and lease |
| `EvidenceJournal` | `evidencebinding/agent_journal.go`, its store and its runtime | |
| `RemoteQueue` | `evidencebinding/agent_remote_queue.go`, policy and runtime | heads of `EvidenceJournal`, as numbers |
| `SessionMuxInv`, `SessionMuxFrames`, `SessionMuxCalls`, `SessionMuxOpening`, `SessionMuxProofs` | the proofs about `SessionMux` | in this order |
| `LinkManagerProofs` | the proofs about `LinkManager` | |
| `MC...` | instances for TLC | |

Definitions with the comment `mutant:` are variants of the definition that
follows, with a plausible mistake. They show that a property can fail.

### SessionMux

Both peers, all streams. A step is one critical section of the code: a section
under `Stream.mu` or `Mux.mu`, or one send. So a `Read` that grants credit
takes two steps (the grant under the lock, the WINDOW frame after it), a
`Write` one for the cut of each chunk and one for its DATA frame, and `Close`
and `Reset` set their flags before they queue for `writeMu`. The handler of a
frame is one step, although `handleOpen` and `resetStream` consist of several
sections: what another thread does between them is modelled as done before or
after the handler. The outgoing queue, the writer loop and the transport
are one FIFO channel per direction; a shutdown loses a suffix of what was sent
and all that was not read. Bytes are numbered, a DATA frame carries an
interval, and a WINDOW frame carries the interval of cumulative credit it
grants: this is all that flow control and order depend on.

`PayloadAssumption` asks that what a peer may send in one frame is within the
limit of the other. `New` sees only its own side and cannot check it; no
caller in the repository sets windows or payload limits, so both sides run with
the same defaults.

### MuxBackpressure

The channel of `SessionMux` is unbounded, the program's is not: `Mux.outgoing`
holds `4 * IncomingBacklog` requests, the writer loop holds one, and the
transport some. This module keeps only the frames that a handler must answer
and the places where they wait.

### LinkManager

One slot (slots do not interact). Each call has two steps, because the code
reads the clock before it takes `Manager.mu`. Waiters follow the loop of `Wait`
with its change channel and its timer. `Call` gives callers only tokens that
`Begin` handed out.

### RouteLeases

The route of one link. The process that serves it starts (`ResetLink`),
publishes generations under `generationHandover.Commit`, renews each from a
goroutine of its own, first in the link manager and then in the file, and cleans
up; it may stop anywhere and start again with generation 1. Callers follow
`dialRegistered`: look up, dial, remove on failure, try again. A change of the
file is one step, because it happens under a file lock and ends in a rename; the
clock is read before the lock, and every operation may fail to get the lock.
`wv attach` uses the store in the same order, but one generation at a time, so
its behaviours are among those of the session host.

### EvidenceJournal

`Append` runs under one lock in the order of the code: sign, anchor, write,
sync, and each step may fail or be the last one of the process. A failed write
or a crash may leave a part of a record, or a record without its newline. The
scanner of `loadAndVerify` reads the latter as a line, so the journal opens and
the next record joins it. `file` therefore has the records that are whole,
`joined` those that no newline follows, and the journal opens (`Decodes`) only
if no line has two records or a part of one. The store is external: it gives
each position once.
A statement is its position, its predecessor and an identity; verification of
the ledger compares these.

### RemoteQueue

The queue in memory and the file it is written to after every change; the
recorders, which look whether delivery is enabled before they enqueue; the
startup scan; `Flush` by its three callers, which gives up the lock while it
calls the providers. A provider may commit a head and lose the answer. Time is
abstract: an item behind its backoff becomes due by a step of its own.

## Runs

| run | shows |
|---|---|
| `mux_flow` | flow control, credit, byte order and wakeups, with a stream of each side, a denied service, and closes and resets at any time; no frame breaks the mux |
| `mux_progress` | clean ends and equal stream tables with cancelled opens, resets and shutdowns; under fairness every call returns and every byte arrives or the stream fails |
| `mux_cancel` | violation: a cancelled Open can shut the whole mux down |
| `backpressure_few` | with few opens all queues stay within bounds and all calls return |
| `backpressure_many` | violation: with many opens on both sides the read loops wait for each other |
| `link` | fencing, honest expiry, wakeups and the service of waiters |
| `journal_faults` | the records of the ledger verify, what was returned is kept, and memory agrees with it, after any three failures |
| `journal_commit` | violation: one failure between anchor and write, and connections are served unrecorded |
| `journal_lines` | violation: a lost newline, and the next record that `Append` returns makes its line unreadable |
| `remote` | no false delivery, a file that loads, no head missed by the startup scan, after any failure; what is queued is delivered |
| `routes` | newer generations win, a restarted process is not refused, the file promises no more than the link, a live route is kept |
| `routes_cancel` | violation: a caller that gives up while it dials removes a live route |

### Bounds

- `mux_flow`: a stream of each side, the second denied, windows 3 and 2, threshold 2,
  frames of at most 2 bytes, 3 bytes written by the initiator. Both sides close
  and reset; that the two directions of data do not disturb each other is part
  of the theorems, for any number of bytes. The threshold below the
  window makes batched grants happen; more bytes than credit makes writers
  wait; 3 bytes in frames of 2 make an uneven cut. Streams share nothing but
  the channel, the table and the backlog; the full backlog is part of
  `backpressure_few`.
- `mux_progress`: window 1, so that every second byte waits for credit, and all
  of cancel, close, reset and shutdown. It says only what the theorems do not:
  table agreement and liveness (and the clean end once more).
- `MuxBackpressure`: backlog 1 makes the queue hold 4; two opens per side fit
  into it, six do not.
- `link`: two generations are enough for an old token to meet a new one; time
  1 to 2 with a lease of 1 gives a call before and at the end of a lease, and a
  clock reading from before it.
- `journal_faults`: five statements and three failures allow a failure, a
  restart and a failure of the recovered journal. `MaxStatements` bounds the
  signatures, so runs end there.
- `RemoteQueue`: two heads are the fewest for an index to go wrong; a threshold
  of two with two providers makes partial receipts happen; one failure (of the
  file, a provider or the process) at any point.
- `routes`: two starts of two generations each, so that a token of the process
  before meets one with the same generation number; lease 2 and time 1 to 4 let
  a lease end and be renewed; two callers, one of which may be late. `MaxLease`
  is above any lease plus clock, as a day is above the default of 30 seconds.

Symmetry is used for connections and callers, in runs without liveness. No run
checks for deadlock: the environments are bounded and stop when their
calls, statements or heads are used up, which is not a fault of the program.
That nobody waits for ever is stated by the liveness properties instead.

### Fairness

- mux: the read and writer loops and calls in progress are goroutines and run;
  applications accept streams and read them (the dispatcher loops over Accept).
  Nothing is assumed of starting calls, closing or failing, except that
  a peer notices when the transport is gone.
- links: calls in progress and the loops of waiters run; time need not pass.
- delivery: the goroutine of the queue runs; strong fairness for taking
  `flushMu`, because Go's mutex does not starve a waiter while other flushes
  come and go. Providers are fair only in the premise of the property.

### What the violations mean

1. `mux_cancel`. `Open` removes its stream when its context ends. If the ACCEPT
   is on its way it finds no stream, which the handler takes as a broken peer.
   "Mux carries independent logical streams" (`mux.go:48`).
2. `backpressure_many`. `sendAsync` does not wait for the transport, but it does
   wait for room in the queue. "each reader must remain able to consume the
   peer's ACCEPT" (`mux.go:248`).
3. `journal_commit`. After a failure between `Anchor` and the write, the store
   refuses every later statement, and the agent goes on serving. "accepted
   transports are committed to the journal" (`agent_embedded_immudb.go:228`).
4. `journal_lines`. When only the newline of a record is lost, the journal opens
   again, the next `Append` succeeds on the same line, and every later open fails
   on that line. "AgentEvidenceJournal writes newline-delimited, signed
   checkpoints" (`agent_journal.go:111`).
5. `routes_cancel`. `brokerUnavailable` takes every failed dial as a dead broker,
   also one whose context ended. The entry is removed and renewals do not bring
   it back. "Keep the stable broker route published until its short lease
   expires" (`session_host.go:299`).

A further observation has no run of its own: a head whose `Enqueue` fails (its
file cannot be written) is not enqueued again before the next start. It is
the set `lost` in `EveryHeadQueued`.

## Proofs

All proofs hold for every value of the constants that satisfies the named
assumptions of the module (`WindowAssumption`, `PayloadAssumption`,
`BoundAssumption` of `SessionMux`, `LeaseAssumption` of `LinkManager`).

**SessionMux**: `TypeOK`, `FlowConforms`, `CleanEOF`, `EndToEndBound`,
`BytesInOrder` and `CreditConserved`, as consequences of the inductive invariant
`IInv`. None of them is inductive: whether `deliver` finds too many bytes
depends on the frames in transit, these on the credit the writer had, and that
on the WINDOW frames that were in transit before. `IInv` therefore has, for each
direction of each stream, a ledger of bytes and credit (`Ledger`), what the
frames in transit carry of it (`DataOK`, `CreditOK`, `OpenOK`, `CloseOK`), and
how far opening and closing have come (`Handshake`, `Ending`). Frames are named
by their positions in the channel, and all that the proof needs of channels are
three changes (one frame appended, the first one taken, a suffix lost), so no
induction over sequences is needed. `SessionMuxFrames` proves the handlers,
`SessionMuxCalls` Read, Write, Close and Reset, `SessionMuxOpening` the
handshake, `SessionMuxProofs` the shutdown and the theorems.

**LinkManager**: `OneHolder`, `ExpiredIsOver`, `NoLostWakeup` and the action
properties `Fenced`, `NoRevival`, `WaitIsCurrent`. `IInv` adds that no clock
reading is in the future (`Readings`) and that a connected link has a lease
(`Leased`): expiry by an old reading is right because readings are old, not new.

Only model-checked: `TablesAgree`, `StreamsIndependent` and `NoLostWakeup` of
`SessionMux`, everything about `MuxBackpressure`, `RouteLeases`,
`EvidenceJournal` and `RemoteQueue`, and all liveness, which needs fairness and is out of the
prover's reach.

## Not modelled

Byte layouts, JSON, signatures and hashes (conversions and cryptography), the
9P and storage adapters (the host or the engine decides what they do), SOCKS and
X11 handshakes (parsing), discovery and the command line (wiring). In the mux:
PING, the wrap of 32-bit stream identifiers after 2^31 opens, and frames that are
too long to be written. In the journal: the
read-only reports.

## Plan

Modelled first, because everything else runs over them: the mux, the links and
the routes; then the journal and its delivery, where failures are hardest to
test. What is left, in order:

1. `Reconnect`, which composes `RouteLeases` with `LinkManager`: the supervisor
   loop, and openers that wait while a route outlives its transport.
2. `StreamPipe`: the abstract promise of a stream (a bounded FIFO pipe in each
   direction that ends cleanly or with an error), and `SessionMux` shown to
   implement it.
3. `SocketSupervisor`: reload, stop and wait.
4. `Bridge` and `ResumeCopy`: half-close and offsets, over `StreamPipe`.
5. `PubSub` and `Registration`.
6. Pure operators: the flow-control optimiser and the sequence window of UDP,
   each against a reference definition.
7. Proofs: `MemoryAgrees`, `Recoverable` and `AnchoredOnce` of `EvidenceJournal`,
   `DeliveredBacked` and `DiskLoads` of `RemoteQueue`, the refinement of
   `StreamPipe`, and `Fence` and `NeverRefused` of `RouteLeases`.
