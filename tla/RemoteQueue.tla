---------------------------- MODULE RemoteQueue ----------------------------
(***************************************************************************)
(* Delivery of the heads of the evidence journal to remote providers: the  *)
(* durable queue of evidencebinding/agent_remote_queue.go, the N-of-M      *)
(* policy of anchor_threshold.go, and the part of the agent runtime        *)
(* (internal/app/agent_embedded_immudb.go) that fills the queue.           *)
(*                                                                         *)
(* Heads are numbered in the order of the journal (see EvidenceJournal).   *)
(* The queue lives in memory and, after every change, in a file.  Records  *)
(* are made, flushes run and providers fail at the same time; a write of   *)
(* the file can fail, and the process can stop.                            *)
(***************************************************************************)
EXTENDS Naturals, Sequences, FiniteSets, SequencesExt

CONSTANTS
    Providers,   \* external: the remote providers
    Threshold,   \* AnchorThresholdPolicy.threshold
    MaxHeads,    \* bound: heads of the journal
    MaxFaults    \* bound: failures of the file, of providers and of the process

ASSUME QueueAssumption == /\ Threshold \in 1..Cardinality(Providers)
                          /\ MaxHeads \in Nat /\ MaxFaults \in Nat

Flushers == {"run", "control", "main"}

VARIABLES
    journal,    \* durable: the number of heads in the journal
    disk,       \* durable: the items of the queue file
    committed,  \* external, durable: the heads each provider has
    up,         \* external: the providers that can be reached
    main,       \* where the runtime is in its life
    enabled,    \* heads EnableRemoteEvidenceDelivery has enqueued, of how many
    remote,     \* AgentRuntimeWithEmbeddedImmuDB.remote is set
    pending,    \* heads whose recorder has not looked at remote yet
    holding,    \* heads whose recorder is about to enqueue them
    items,      \* AgentRemoteAnchorQueue.items
    closed,     \* AgentRemoteAnchorQueue.closed
    flush,      \* the call of Flush that holds flushMu, if any
    lost,       \* heads that an Enqueue failed for
    faults      \* failures so far

world   == <<committed, up>>
runtime == <<main, enabled, remote>>
recorders == <<pending, holding, lost>>
queue   == <<items, disk, closed>>
vars == <<journal, world, runtime, recorders, queue, flush, faults>>

Heads == 1..MaxHeads

Item == [head : Heads, receipts : SUBSET Providers, delivered : BOOLEAN, due : BOOLEAN]

NoFlush == [stage |-> "none"]

Phases == {"down", "started", "opened", "exporting", "enabling", "up", "stopping", "closing"}

TypeOK ==
    /\ journal \in 0..MaxHeads
    /\ disk \in Seq(Item) /\ items \in Seq(Item)
    /\ committed \in [Providers -> SUBSET Heads] /\ up \subseteq Providers
    /\ main \in Phases /\ enabled \in [done : 0..MaxHeads, of : 0..MaxHeads]
    /\ remote \in BOOLEAN /\ closed \in BOOLEAN
    /\ pending \subseteq Heads /\ holding \subseteq Heads /\ lost \subseteq Heads
    /\ flush \in {NoFlush}
                 \cup [stage : {"next", "anchor", "apply"}, by : Flushers, force : BOOLEAN,
                       attempted : SUBSET Heads, index : 0..MaxHeads, head : 0..MaxHeads,
                       receipts : SUBSET Providers]
    /\ faults \in 0..MaxFaults

NotEnabled == [done |-> 0, of |-> 0]

Init ==
    /\ journal = 0 /\ disk = <<>>
    /\ committed = [p \in Providers |-> {}] /\ up = Providers
    /\ main = "down" /\ enabled = NotEnabled /\ remote = FALSE
    /\ pending = {} /\ holding = {} /\ lost = {}
    /\ items = <<>> /\ closed = FALSE /\ flush = NoFlush
    /\ faults = 0

Fault == faults < MaxFaults /\ faults' = faults + 1

HeadsOf(s) == {s[i].head : i \in 1..Len(s)}

-----------------------------------------------------------------------------
(* The queue file *)

\* persistState writes a temporary file and renames it over the queue file.
Persisted(s) == disk' = s /\ UNCHANGED faults

\* It fails: before the rename, after it (the last Chmod), or between the removal
\* of the queue file and the second rename.
PersistFails(s) == disk' \in {disk, s, <<>>} /\ Fault

-----------------------------------------------------------------------------
(* Enqueue *)

Fresh(h) == [head |-> h, receipts |-> {}, delivered |-> FALSE, due |-> TRUE]

\* mutant: the head is not looked for
EnqueueTwice(h) ==
    /\ ~closed
    /\ items' = Append(items, Fresh(h)) /\ Persisted(items')

\* mutant: the newest head goes first
EnqueueFirst(h) ==
    /\ ~closed
    /\ IF h \in HeadsOf(items) THEN UNCHANGED <<items, disk, faults>>
       ELSE items' = <<Fresh(h)>> \o items /\ Persisted(items')

\* A head that is in the queue is left alone.
Enqueue(h) ==
    /\ ~closed
    /\ IF h \in HeadsOf(items) THEN UNCHANGED <<items, disk, faults>>
       ELSE items' = Append(items, Fresh(h)) /\ Persisted(items')

\* An item that cannot be written is taken back.
EnqueueFails(h) ==
    /\ ~closed /\ h \notin HeadsOf(items)
    /\ PersistFails(Append(items, Fresh(h)))
    /\ UNCHANGED items

-----------------------------------------------------------------------------
(* The runtime: start and stop *)

\* The journal is open; no head is queued yet.
Start ==
    /\ main = "down" /\ main' = "started"
    /\ UNCHANGED <<journal, world, enabled, remote, recorders, queue, flush, faults>>

\* load refuses a file with a head twice, or delivered without receipts.
Loads(s) ==
    /\ \A i, j \in 1..Len(s) : s[i].head = s[j].head => i = j
    /\ \A i \in 1..Len(s) : s[i].delivered => s[i].receipts # {}

OpenQueue ==
    /\ main = "started" /\ main' = "opened"
    /\ Loads(disk) /\ items' = disk
    /\ UNCHANGED <<journal, world, enabled, remote, recorders, disk, closed, flush, faults>>

\* mutant: remote is not set
EnableWithout ==
    /\ main = "opened" /\ main' = "exporting"
    /\ UNCHANGED <<journal, world, enabled, remote, recorders, queue, flush, faults>>

\* EnableRemoteEvidenceDelivery sets remote, ...
Enable ==
    /\ main = "opened" /\ main' = "exporting"
    /\ remote' = TRUE
    /\ UNCHANGED <<journal, world, enabled, recorders, queue, flush, faults>>

\* ... reads the journal, ...
Export ==
    /\ main = "exporting" /\ main' = "enabling"
    /\ enabled' = [done |-> 0, of |-> journal]
    /\ UNCHANGED <<journal, world, remote, recorders, queue, flush, faults>>

\* mutant: one head more than the journal has
EnableOneMore ==
    /\ main = "enabling" /\ enabled.done <= enabled.of
    /\ Enqueue(enabled.done + 1)
    /\ enabled' = [enabled EXCEPT !.done = @ + 1]
    /\ UNCHANGED <<journal, world, main, remote, recorders, closed, flush>>

\* ... and enqueues its heads one by one.
EnableNext ==
    /\ main = "enabling" /\ enabled.done < enabled.of
    /\ Enqueue(enabled.done + 1)
    /\ enabled' = [enabled EXCEPT !.done = @ + 1]
    /\ UNCHANGED <<journal, world, main, remote, recorders, closed, flush>>

Enabled ==
    /\ main = "enabling" /\ enabled.done = enabled.of
    /\ main' = "up"
    /\ UNCHANGED <<journal, world, enabled, remote, recorders, queue, flush, faults>>

\* Memory is gone.
Ends ==
    /\ main' = "down" /\ enabled' = NotEnabled /\ remote' = FALSE
    /\ pending' = {} /\ holding' = {} /\ lost' = {}
    /\ items' = <<>> /\ closed' = FALSE /\ flush' = NoFlush
    /\ UNCHANGED <<journal, world>>

\* An error here ends the process.
EnableFails ==
    /\ main = "enabling" /\ enabled.done < enabled.of
    /\ ~closed /\ enabled.done + 1 \notin HeadsOf(items)
    /\ PersistFails(Append(items, Fresh(enabled.done + 1)))
    /\ Ends

\* Close lets go of the queue, flushes it once more (see Flush), ...
Stop ==
    /\ main = "up" /\ main' = "stopping"
    /\ remote' = FALSE
    /\ UNCHANGED <<journal, world, enabled, recorders, queue, flush, faults>>

\* ... closes it, ...
CloseQueue ==
    /\ main = "stopping" /\ main' = "closing"
    /\ closed' = TRUE
    /\ UNCHANGED <<journal, world, enabled, remote, recorders, items, disk, flush, faults>>

\* ... waits for the run loop, and the process ends.
Exit ==
    /\ main = "closing" /\ ~(flush # NoFlush /\ flush.by = "run")
    /\ Ends
    /\ UNCHANGED <<disk, faults>>

Crash ==
    /\ main # "down" /\ Fault /\ Ends
    /\ UNCHANGED disk

-----------------------------------------------------------------------------
(* The runtime: recordEvidence *)

\* The head is in the journal ...
Record ==
    /\ main # "down" /\ journal < MaxHeads
    /\ journal' = journal + 1 /\ pending' = pending \cup {journal + 1}
    /\ UNCHANGED <<world, runtime, holding, lost, queue, flush, faults>>

\* ... then the recorder looks for the queue ...
Look(h) ==
    /\ h \in pending /\ pending' = pending \ {h}
    /\ holding' = IF remote THEN holding \cup {h} ELSE holding
    /\ UNCHANGED <<journal, world, runtime, lost, queue, flush, faults>>

\* ... and enqueues the head; an error is logged.
RecordEnqueues(h) ==
    /\ h \in holding /\ holding' = holding \ {h}
    /\ \/ Enqueue(h) /\ UNCHANGED lost
       \/ EnqueueFails(h) /\ lost' = lost \cup {h}
       \/ closed /\ lost' = lost \cup {h} /\ UNCHANGED <<items, disk, faults>>
    /\ UNCHANGED <<journal, world, runtime, pending, closed, flush>>

-----------------------------------------------------------------------------
(* Flush *)

MayFlush(f) == \/ f = "run" /\ main \notin {"down", "started"} /\ ~closed
               \/ f = "control" /\ main = "up"
               \/ f = "main" /\ main = "stopping"

FlushBegin(f) ==
    /\ flush = NoFlush /\ MayFlush(f)
    /\ flush' = [stage |-> "next", by |-> f, force |-> f # "run", attempted |-> {},
                 index |-> 0, head |-> 0, receipts |-> {}]
    /\ UNCHANGED <<journal, world, runtime, recorders, queue, faults>>

\* mutant: an item with some receipts is not tried again
DueOnce(i) == /\ ~items[i].delivered /\ items[i].head \notin flush.attempted
              /\ items[i].receipts = {} /\ (flush.force \/ items[i].due)

\* nextDue
Due(i) == /\ ~items[i].delivered /\ items[i].head \notin flush.attempted
          /\ flush.force \/ items[i].due

FlushNext ==
    /\ flush.stage = "next" /\ ~closed
    /\ \E i \in 1..Len(items) :
         /\ Due(i) /\ \A j \in 1..(i - 1) : ~Due(j)
         /\ flush' = [flush EXCEPT !.stage = "anchor", !.index = i, !.head = items[i].head,
                                   !.attempted = @ \cup {items[i].head}]
    /\ UNCHANGED <<journal, world, runtime, recorders, queue, faults>>

FlushEnd ==
    /\ flush.stage = "next" /\ (closed \/ \A i \in 1..Len(items) : ~Due(i))
    /\ flush' = NoFlush
    /\ UNCHANGED <<journal, world, runtime, recorders, queue, faults>>

\* The context ends: that of the run loop in Close, the others at any time.
FlushCancelled ==
    /\ flush.stage = "anchor" /\ (flush.by = "run" => closed)
    /\ flush' = NoFlush
    /\ UNCHANGED <<journal, world, runtime, recorders, queue, faults>>

\* policy.Anchor, outside the lock: every provider that can be reached commits the
\* head; an answer may be lost.
FlushAnchor ==
    /\ flush.stage = "anchor"
    /\ committed' = [p \in Providers |->
                       IF p \in up THEN committed[p] \cup {flush.head}
                       ELSE committed[p]]
    /\ \/ flush' = [flush EXCEPT !.stage = "apply", !.receipts = up] /\ UNCHANGED faults
       \/ \E p \in up : flush' = [flush EXCEPT !.stage = "apply", !.receipts = up \ {p}] /\ Fault
    /\ UNCHANGED <<journal, up, runtime, recorders, queue>>

\* mutant: the receipts of this attempt replace those of earlier ones
ForgetReceipts(i) ==
    LET receipts == flush.receipts
    IN  [items[i] EXCEPT !.receipts = receipts, !.due = FALSE,
                         !.delivered = Cardinality(receipts \cap up) >= Threshold]

\* mutant: one receipt is enough
AnyReceipt(i) ==
    LET receipts == items[i].receipts \cup flush.receipts
    IN  [items[i] EXCEPT !.receipts = receipts, !.due = FALSE,
                         !.delivered = receipts \cap up # {}]

\* The receipts are merged and verified with the providers.
Attempted(i) ==
    LET receipts == items[i].receipts \cup flush.receipts
    IN  [items[i] EXCEPT !.receipts = receipts, !.due = FALSE,
                         !.delivered = Cardinality(receipts \cap up) >= Threshold]

\* Under the lock, the item is found by its index and updated.  (The code skips an
\* item that is not the one it picked; IndexStable says that it always is.)
FlushApply ==
    /\ flush.stage = "apply" /\ items[flush.index].head = flush.head
    /\ items' = [items EXCEPT ![flush.index] = Attempted(flush.index)]
    /\ \/ Persisted(items') /\ flush' = [flush EXCEPT !.stage = "next"]
       \/ PersistFails(items') /\ flush' = NoFlush
    /\ UNCHANGED <<journal, world, runtime, recorders, closed>>

\* NextAttemptUnix passes.
Backoff(i) ==
    /\ i \in 1..Len(items) /\ ~items[i].delivered /\ ~items[i].due
    /\ items' = [items EXCEPT ![i].due = TRUE]
    /\ UNCHANGED <<journal, world, runtime, recorders, disk, closed, flush, faults>>

ProviderFails(p) ==
    /\ p \in up /\ Fault /\ up' = up \ {p}
    /\ UNCHANGED <<journal, committed, runtime, recorders, queue, flush>>

ProviderRecovers(p) ==
    /\ p \notin up /\ up' = up \cup {p}
    /\ UNCHANGED <<journal, committed, runtime, recorders, queue, flush, faults>>

FlushStep == FlushNext \/ FlushEnd \/ FlushAnchor \/ FlushApply

-----------------------------------------------------------------------------

Next ==
    \/ Start \/ OpenQueue \/ Enable \/ Export \/ EnableNext \/ EnableFails \/ Enabled
    \/ Stop \/ CloseQueue \/ Exit \/ Crash
    \/ Record \/ \E h \in Heads : Look(h) \/ RecordEnqueues(h)
    \/ \E f \in Flushers : FlushBegin(f)
    \/ FlushStep \/ FlushCancelled
    \/ \E i \in Heads : Backoff(i)
    \/ \E p \in Providers : ProviderFails(p) \/ ProviderRecovers(p)

Spec == Init /\ [][Next]_vars

\* The run loop, the recorders and the runtime keep going; backoffs pass.  A Go
\* mutex starves nobody: the run loop gets flushMu although others want it too.
Fairness ==
    /\ SF_vars(FlushBegin("run")) /\ WF_vars(FlushStep)
    /\ \A h \in Heads : WF_vars(Look(h)) /\ WF_vars(RecordEnqueues(h)) /\ WF_vars(Backoff(h))
    /\ WF_vars(Enable \/ Export \/ EnableNext \/ Enabled)

FairSpec == Spec /\ Fairness

-----------------------------------------------------------------------------
(* Correctness *)

Backed(s) ==
    \A i \in 1..Len(s) :
        /\ s[i].delivered => Cardinality(s[i].receipts) >= Threshold
        /\ \A p \in s[i].receipts : s[i].head \in committed[p]

\* The queue never claims more than there is: a receipt stands for a head that the
\* provider has, and a delivered head has enough of them, in memory and on disk,
\* whichever writes failed.
DeliveredBacked == Backed(items) /\ Backed(disk)

\* The file can always be loaded again, although the journal is enqueued anew at
\* every start while recorders enqueue its newest heads.
DiskLoads == Loads(disk)

\* "On startup, the agent re-enqueues all retained journal heads": once delivery is
\* enabled, each head is in the queue, or its recorder is about to enqueue it, or
\* its Enqueue failed.
EveryHeadQueued ==
    main = "up" => 1..journal \subseteq HeadsOf(items) \cup pending \cup holding \cup lost

\* The index that nextDue returned still leads to its item after the providers were
\* called without the lock.
IndexStable ==
    flush.stage \in {"anchor", "apply"} =>
        flush.index \in 1..Len(items) /\ items[flush.index].head = flush.head

KeptStep ==
    items # <<>> /\ main' # "down" =>
        \A i \in 1..Len(items) :
            \E j \in 1..Len(items') : /\ items'[j].head = items[i].head
                                      /\ items[i].receipts \subseteq items'[j].receipts
                                      /\ items[i].delivered => items'[j].delivered

\* "Partial receipts are retained": while the agent runs, no head, receipt or
\* delivery is forgotten.
ReceiptsKept == [][KeptStep]_vars

Delivered(h) == \E i \in 1..Len(items) : items[i].head = h /\ items[i].delivered

Steady == <>[](main = "up" /\ up = Providers)

\* While the agent runs and the providers can be reached, every head that was
\* enqueued is delivered in the end.
QueuedDelivered ==
    Steady => \A h \in Heads : [](h \in HeadsOf(items) => <>(Delivered(h) \/ main = "down"))

=============================================================================
