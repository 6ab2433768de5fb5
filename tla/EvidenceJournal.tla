-------------------------- MODULE EvidenceJournal --------------------------
(***************************************************************************)
(* The evidence journal of an agent (evidencebinding/agent_journal.go),    *)
(* the embedded immudb store that anchors it (anchor_embedded_immudb.go)   *)
(* and the runtime that records the life of its connections in it          *)
(* (internal/app/agent_embedded_immudb.go).                                *)
(*                                                                         *)
(* Append signs a statement for the next position, anchors it in the       *)
(* store, writes a line to the ledger file and syncs it, in this order and *)
(* under one lock.  Each step can fail, and the process can stop at each.  *)
(* A statement is a position, the statement before it, and an identity     *)
(* that no other statement has: its nonce is random.                       *)
(***************************************************************************)
EXTENDS Naturals, Sequences, SequencesExt

CONSTANTS
    Conns,          \* connections the agent serves at the same time
    MaxStatements,  \* bound: statements signed
    MaxFaults       \* bound: failed operations and crashes

ASSUME JournalAssumption == MaxStatements \in Nat /\ MaxFaults \in Nat /\ "main" \notin Conns

Actors == Conns \cup {"main"}

VARIABLES
    file,      \* durable: the statements of the records that are whole in the ledger
    joined,    \* durable: the records (their places in file) that no newline follows
    torn,      \* durable: a part of a record follows them
    synced,    \* the number of records that a sync has covered
    store,     \* external, durable: the statement anchored at each position; 0: none
    records,   \* AgentEvidenceJournal.records
    closed,    \* AgentEvidenceJournal.closed
    append,    \* the call of Append that holds the lock, if any
    pc,        \* where the actors are
    event,     \* the statement of the last event an actor recorded; 0: it failed
    returned,  \* the statements whose Append has returned them
    nonce,     \* statements signed so far
    faults     \* failures so far

ledger == <<file, joined, torn, synced, store>>
vars == <<ledger, records, closed, append, pc, event, returned, nonce, faults>>

Statement == [seq : Nat, prev : Nat, id : Nat]

NoAppend == [stage |-> "none"]

\* The events an actor is recording.
Recording == {"initialized", "stopping", "accepted", "closed"}

Actions == Recording \cup {"down", "closing", "exiting", "idle", "serving"}

TypeOK ==
    /\ file \in Seq(Statement) /\ records \in Seq(Statement)
    /\ joined \subseteq 1..Len(file)
    /\ torn \in BOOLEAN /\ closed \in BOOLEAN
    /\ synced \in 0..Len(file)
    /\ store \in [1..MaxStatements -> 0..MaxStatements]
    /\ append \in {NoAppend} \cup [stage : {"signed", "anchored", "written"}, by : Actors,
                                   statement : Statement]
    /\ pc \in [Actors -> Actions] /\ event \in [Actors -> 0..MaxStatements]
    /\ returned \subseteq 1..MaxStatements
    /\ nonce \in 0..MaxStatements /\ faults \in 0..MaxFaults

Init ==
    /\ file = <<>> /\ joined = {} /\ torn = FALSE /\ synced = 0
    /\ store = [n \in 1..MaxStatements |-> 0]
    /\ records = <<>> /\ closed = FALSE /\ append = NoAppend
    /\ pc = [a \in Actors |-> IF a = "main" THEN "down" ELSE "idle"]
    /\ event = [a \in Actors |-> 0]
    /\ returned = {} /\ nonce = 0 /\ faults = 0

LastId(s) == IF s = <<>> THEN 0 ELSE s[Len(s)].id

Fault == faults < MaxFaults /\ faults' = faults + 1

-----------------------------------------------------------------------------
(* Opening the journal *)

\* Every line of the ledger decodes: it is one whole record.  The scanner returns a
\* last line without its newline too; a second record on a line is trailing data
\* (decodeJournalJSON).
Decodes == ~torn /\ joined \subseteq {Len(file)}

\* loadAndVerify: every record is the statement the store holds at its position
\* (verifyRecord), and the statements form a chain (VerifyLedger).
Verified(s) ==
    \A i \in 1..Len(s) : /\ s[i].seq = i
                         /\ s[i].prev = LastId(SubSeq(s, 1, i - 1))
                         /\ store[i] = s[i].id

\* mutant: the ledger is opened without O_APPEND and truncated
StartAfresh ==
    /\ pc["main"] = "down" /\ Decodes /\ Verified(file)
    /\ file' = <<>> /\ records' = <<>> /\ closed' = FALSE
    /\ pc' = [pc EXCEPT !["main"] = "initialized"]
    /\ UNCHANGED <<joined, torn, synced, store, append, event, returned, nonce, faults>>

\* The agent starts; with a line that does not decode, or a ledger that does not
\* verify, it does not.  It goes on to record "runtime.initialized".
Start ==
    /\ pc["main"] = "down" /\ Decodes /\ Verified(file)
    /\ records' = file /\ closed' = FALSE
    /\ pc' = [pc EXCEPT !["main"] = "initialized"]
    /\ UNCHANGED <<ledger, append, event, returned, nonce, faults>>

-----------------------------------------------------------------------------
(* Append, by an actor that records an event *)

\* The actor goes on, whether or not its event was recorded: the error is logged.
Continue(a, id) ==
    /\ pc' = [pc EXCEPT ![a] = CASE pc[a] = "initialized" -> "serving"
                                 [] pc[a] = "stopping"    -> "closing"
                                 [] pc[a] = "accepted"    -> "serving"
                                 [] pc[a] = "closed"      -> "idle"]
    /\ event' = [event EXCEPT ![a] = id]

\* A journal that is closed records nothing.
AppendClosed(a) ==
    /\ pc[a] \in Recording /\ append = NoAppend /\ closed
    /\ Continue(a, 0)
    /\ UNCHANGED <<ledger, records, closed, append, returned, nonce, faults>>

\* The lock is taken and the statement for the next position is signed.
Sign(a) ==
    /\ pc[a] \in Recording /\ append = NoAppend /\ ~closed
    /\ nonce < MaxStatements /\ nonce' = nonce + 1
    /\ append' = [stage |-> "signed", by |-> a,
                  statement |-> [seq |-> Len(records) + 1, prev |-> LastId(records),
                                 id |-> nonce + 1]]
    /\ UNCHANGED <<ledger, records, closed, pc, event, returned, faults>>

\* Append returns an error.
Fail == /\ append' = NoAppend
        /\ Continue(append.by, 0)
        /\ UNCHANGED <<records, closed, returned, nonce>>

\* mutant: what the store holds at the position is replaced
AnchorAnyway ==
    /\ append.stage = "signed"
    /\ store' = [store EXCEPT ![append.statement.seq] = append.statement.id]
    /\ append' = [append EXCEPT !.stage = "anchored"]
    /\ UNCHANGED <<file, joined, torn, synced, records, closed, pc, event, returned, nonce, faults>>

\* mutant: the record counts before it is written
AnchorCounts ==
    /\ append.stage = "signed"
    /\ store[append.statement.seq] = 0
    /\ store' = [store EXCEPT ![append.statement.seq] = append.statement.id]
    /\ append' = [append EXCEPT !.stage = "anchored"]
    /\ records' = Append(records, append.statement)
    /\ UNCHANGED <<file, joined, torn, synced, closed, pc, event, returned, nonce, faults>>

\* EmbeddedImmuDBAnchor.Anchor commits the statement at its position ...
Anchor ==
    /\ append.stage = "signed"
    /\ store[append.statement.seq] = 0
    /\ store' = [store EXCEPT ![append.statement.seq] = append.statement.id]
    /\ append' = [append EXCEPT !.stage = "anchored"]
    /\ UNCHANGED <<file, joined, torn, synced, records, closed, pc, event, returned, nonce, faults>>

\* mutant: any statement at the position will do
AnchorUnequal ==
    /\ append.stage = "signed"
    /\ store[append.statement.seq] # 0
    /\ append' = [append EXCEPT !.stage = "anchored"]
    /\ UNCHANGED <<ledger, records, closed, pc, event, returned, nonce, faults>>

\* ... refuses it if there is another one ...
AnchorMismatch ==
    /\ append.stage = "signed"
    /\ store[append.statement.seq] # 0
    /\ Fail
    /\ UNCHANGED <<ledger, faults>>

\* ... or fails, before or after the commit; so may verifyRecord.
AnchorFails ==
    /\ append.stage \in {"signed", "anchored"} /\ Fault /\ Fail
    /\ UNCHANGED ledger

\* The record and a newline are written, after whatever the file ends in ...
Write ==
    /\ append.stage = "anchored"
    /\ file' = Append(file, append.statement)
    /\ append' = [append EXCEPT !.stage = "written"]
    /\ UNCHANGED <<joined, torn, synced, store, records, closed, pc, event, returned, nonce, faults>>

\* ... or nothing of it, a part of the record, or all but the newline.
WriteFails ==
    /\ append.stage = "anchored" /\ Fault /\ Fail
    /\ \/ torn' \in {torn, TRUE} /\ UNCHANGED <<file, joined>>
       \/ /\ file' = Append(file, append.statement)
          /\ joined' = joined \cup {Len(file) + 1}
          /\ UNCHANGED torn
    /\ UNCHANGED <<synced, store>>

\* mutant: Append returns the record without waiting for the disk
SyncLater ==
    /\ append.stage = "written"
    /\ records' = Append(records, append.statement)
    /\ returned' = returned \cup {append.statement.id}
    /\ append' = NoAppend
    /\ Continue(append.by, append.statement.id)
    /\ UNCHANGED <<ledger, closed, nonce, faults>>

\* The file is synced, and the record counts.
Sync ==
    /\ append.stage = "written"
    /\ synced' = Len(file)
    /\ records' = Append(records, append.statement)
    /\ returned' = returned \cup {append.statement.id}
    /\ append' = NoAppend
    /\ Continue(append.by, append.statement.id)
    /\ UNCHANGED <<file, joined, torn, store, closed, nonce, faults>>

\* The line is there, but records does not have it.
SyncFails ==
    /\ append.stage = "written" /\ Fault /\ Fail
    /\ UNCHANGED ledger

-----------------------------------------------------------------------------
(* The runtime *)

\* A connection is accepted, ServeConn records it, and serves it ...
AcceptConn(c) ==
    /\ pc["main"] = "serving" /\ pc[c] = "idle"
    /\ pc' = [pc EXCEPT ![c] = "accepted"]
    /\ UNCHANGED <<ledger, records, closed, append, event, returned, nonce, faults>>

\* ... until it ends, which is recorded too.
CloseConn(c) ==
    /\ pc[c] = "serving"
    /\ pc' = [pc EXCEPT ![c] = "closed"]
    /\ UNCHANGED <<ledger, records, closed, append, event, returned, nonce, faults>>

\* Close records "runtime.stopping" ...
Stop ==
    /\ pc["main"] = "serving"
    /\ pc' = [pc EXCEPT !["main"] = "stopping"]
    /\ UNCHANGED <<ledger, records, closed, append, event, returned, nonce, faults>>

\* ... and closes the journal, though connections may still be served.
CloseJournal ==
    /\ pc["main"] = "closing" /\ append = NoAppend
    /\ closed' = TRUE
    /\ pc' = [pc EXCEPT !["main"] = "exiting"]
    /\ UNCHANGED <<ledger, records, append, event, returned, nonce, faults>>

\* Memory is gone.
Ends ==
    /\ records' = <<>> /\ closed' = FALSE /\ append' = NoAppend
    /\ pc' = [a \in Actors |-> IF a = "main" THEN "down" ELSE "idle"]
    /\ event' = [a \in Actors |-> 0]
    /\ UNCHANGED <<store, returned, nonce>>

Exit ==
    /\ pc["main"] = "exiting" /\ Ends
    /\ UNCHANGED <<file, joined, torn, synced, faults>>

\* The process, or the machine, stops.  What is not synced may be lost, from any
\* byte on: after a record and its newline, between the two, or within a record.
Crash ==
    /\ Fault /\ Ends
    /\ \E n \in synced..Len(file) :
         /\ file' = SubSeq(file, 1, n)
         /\ \/ /\ joined' = joined \cap 1..n
               /\ torn' \in IF torn \/ n < Len(file) THEN BOOLEAN ELSE {FALSE}
            \/ /\ n > synced /\ joined' = (joined \cap 1..n) \cup {n}
               /\ torn' = FALSE
         /\ synced' = n

-----------------------------------------------------------------------------

Next ==
    \/ Start \/ Stop \/ CloseJournal \/ Exit \/ Crash
    \/ \E a \in Actors : AppendClosed(a) \/ Sign(a)
    \/ Anchor \/ AnchorMismatch \/ AnchorFails
    \/ Write \/ WriteFails \/ Sync \/ SyncFails
    \/ \E c \in Conns : AcceptConn(c) \/ CloseConn(c)

Spec == Init /\ [][Next]_vars

-----------------------------------------------------------------------------
(* Correctness *)

\* Whatever failed and whenever the process stopped, the records that are whole in
\* the ledger are a chain that the store confirms: a ledger whose lines decode can be
\* opened again, and what keeps the agent from starting is never a record that
\* Append wrote, only the part of one or two of them on one line.
Recoverable == Verified(file)

\* A record that Append returned stays in the ledger whole, whatever stops or fails
\* later.  That it can be read again is LineOfItsOwn.
ReturnedKept == \A id \in returned : \E i \in 1..synced : file[i].id = id

\* The records the agent reports are those of the ledger, but for a last one whose
\* write or sync failed or whose sync is still to come; and nothing is written after
\* the part of a record, because the store refuses what the agent that left it signs
\* (AgentEvidenceJournal.Append).
MemoryAgrees ==
    /\ pc["main"] # "down" => IsPrefix(records, file) /\ Len(file) <= Len(records) + 1
    /\ torn => append.stage \notin {"anchored", "written"}

\* "AgentEvidenceJournal writes newline-delimited, signed checkpoints": a record that
\* Append returned is on a line of its own.
LineOfItsOwn ==
    \A id \in returned :
        \E i \in 1..Len(file) : /\ file[i].id = id
                                /\ {i - 1, i} \cap joined = {}

OnceStep == \A n \in 1..MaxStatements : store[n] # 0 => store'[n] = store[n]

\* "Attempting to bind a different statement at the same position is rejected": a
\* position of the store is given once, in the order of the positions.
AnchoredOnce ==
    [][/\ OnceStep
       /\ \A n \in 2..MaxStatements : store'[n] # 0 => store'[n - 1] # 0]_vars

\* "ensuring that the listener lifecycle and accepted transports are committed to
\* the journal": a connection is served only if the journal has its acceptance.
AcceptedCommitted ==
    \A c \in Conns : pc[c] = "serving" => event[c] # 0

=============================================================================
