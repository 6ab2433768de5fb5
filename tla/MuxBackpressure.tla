-------------------------- MODULE MuxBackpressure --------------------------
(***************************************************************************)
(* The bounded queues behind a channel of SessionMux (sessionmux/mux.go):  *)
(* Mux.outgoing holds 4 * IncomingBacklog requests, the writer loop moves  *)
(* them one at a time to a transport that buffers a few frames, and the    *)
(* read loop that empties the transport must itself put its answers into   *)
(* Mux.outgoing.  Both peers open streams at the same time; the contents   *)
(* of the frames and the end of streams and mux are left to SessionMux.    *)
(***************************************************************************)
EXTENDS Naturals, Sequences

CONSTANTS
    Backlog,   \* Config.IncomingBacklog
    Wire,      \* external: frames the transport buffers in each direction
    Opens      \* bound: calls of Open of each peer

Peers == {"initiator", "responder"}

Other(p) == IF p = "initiator" THEN "responder" ELSE "initiator"

ASSUME QueueAssumption == /\ Backlog \in Nat \ {0}
                          /\ Wire \in Nat \ {0}
                          /\ Opens \in [Peers -> Nat]

Capacity == 4 * Backlog

Kinds == {"OPEN", "ACCEPT", "WINDOW", "RESET"}

VARIABLES
    calls,      \* calls of Open not yet made
    waiting,    \* calls of Open that wait for ACCEPT or RESET
    accepted,   \* calls of Open that have the ACCEPT and still send WINDOW
    incoming,   \* len(Mux.incoming)
    outgoing,   \* Mux.outgoing
    writing,    \* the frame the writer loop is writing, if any
    wire,       \* external: the transport, by its sender
    answers     \* frames the handler of the read loop still has to queue

vars == <<calls, waiting, accepted, incoming, outgoing, writing, wire, answers>>

TypeOK ==
    /\ calls \in [Peers -> Nat] /\ waiting \in [Peers -> Nat]
    /\ accepted \in [Peers -> Nat]
    /\ incoming \in [Peers -> 0..Backlog]
    /\ \A p \in Peers : /\ outgoing[p] \in Seq(Kinds) /\ Len(outgoing[p]) <= Capacity
                        /\ writing[p] \in Seq(Kinds) /\ Len(writing[p]) <= 1
                        /\ wire[p] \in Seq(Kinds) /\ Len(wire[p]) <= Wire
                        /\ answers[p] \in Seq(Kinds) /\ Len(answers[p]) <= 2

Nothing == [p \in Peers |-> <<>>]
None    == [p \in Peers |-> 0]

Init ==
    /\ calls = Opens /\ waiting = None /\ accepted = None /\ incoming = None
    /\ outgoing = Nothing /\ writing = Nothing /\ wire = Nothing
    /\ answers = Nothing

\* mutant: the queue grows without bound
UnboundedEnqueue(p, k) == outgoing' = [outgoing EXCEPT ![p] = Append(@, k)]

\* m.outgoing <- request: blocks while the queue is full.
Enqueue(p, k) ==
    /\ Len(outgoing[p]) < Capacity
    /\ outgoing' = [outgoing EXCEPT ![p] = Append(@, k)]

\* Open sends OPEN and waits for the answer of the peer.
Open(p) ==
    /\ calls[p] > 0
    /\ Enqueue(p, "OPEN")
    /\ calls' = [calls EXCEPT ![p] = @ - 1]
    /\ waiting' = [waiting EXCEPT ![p] = @ + 1]
    /\ UNCHANGED <<accepted, incoming, writing, wire, answers>>

\* Open advertises its window once the stream is accepted, and returns.
OpenReturns(p) ==
    /\ accepted[p] > 0
    /\ Enqueue(p, "WINDOW")
    /\ accepted' = [accepted EXCEPT ![p] = @ - 1]
    /\ UNCHANGED <<calls, waiting, incoming, writing, wire, answers>>

\* The application takes an accepted stream.
Accept(p) ==
    /\ incoming[p] > 0
    /\ incoming' = [incoming EXCEPT ![p] = @ - 1]
    /\ UNCHANGED <<calls, waiting, accepted, outgoing, writing, wire, answers>>

\* The writer loop takes the next request ...
Take(p) ==
    /\ writing[p] = <<>> /\ outgoing[p] # <<>>
    /\ writing' = [writing EXCEPT ![p] = <<Head(outgoing[p])>>]
    /\ outgoing' = [outgoing EXCEPT ![p] = Tail(@)]
    /\ UNCHANGED <<calls, waiting, accepted, incoming, wire, answers>>

\* ... and WriteFrame blocks until the transport has room for it.
WriteFrame(p) ==
    /\ writing[p] # <<>> /\ Len(wire[p]) < Wire
    /\ wire' = [wire EXCEPT ![p] = Append(@, Head(writing[p]))]
    /\ writing' = [writing EXCEPT ![p] = <<>>]
    /\ UNCHANGED <<calls, waiting, accepted, incoming, outgoing, answers>>

\* The read loop reads a frame only when the last handler has returned.
Reads(p, k) ==
    /\ answers[p] = <<>>
    /\ wire[Other(p)] # <<>> /\ Head(wire[Other(p)]) = k
    /\ wire' = [wire EXCEPT ![Other(p)] = Tail(@)]

\* mutant: a refused stream is not answered
RefuseSilently(p) ==
    /\ Reads(p, "OPEN")
    /\ IF incoming[p] < Backlog
       THEN answers' = [answers EXCEPT ![p] = <<"ACCEPT", "WINDOW">>]
       ELSE UNCHANGED answers
    /\ UNCHANGED <<calls, waiting, accepted, incoming, outgoing, writing>>

\* handleOpen: the stream is accepted, or refused when incoming is full.
HandleOpen(p) ==
    /\ Reads(p, "OPEN")
    /\ IF incoming[p] < Backlog
       THEN answers' = [answers EXCEPT ![p] = <<"ACCEPT", "WINDOW">>]
       ELSE answers' = [answers EXCEPT ![p] = <<"RESET">>]
    /\ UNCHANGED <<calls, waiting, accepted, incoming, outgoing, writing>>

HandleAccept(p) ==
    /\ Reads(p, "ACCEPT")
    /\ waiting' = [waiting EXCEPT ![p] = @ - 1]
    /\ accepted' = [accepted EXCEPT ![p] = @ + 1]
    /\ UNCHANGED <<calls, incoming, outgoing, writing, answers>>

HandleReset(p) ==
    /\ Reads(p, "RESET")
    /\ waiting' = [waiting EXCEPT ![p] = @ - 1]
    /\ UNCHANGED <<calls, accepted, incoming, outgoing, writing, answers>>

HandleWindow(p) ==
    /\ Reads(p, "WINDOW")
    /\ UNCHANGED <<calls, waiting, accepted, incoming, outgoing, writing, answers>>

\* mutant: the handler waits until its answer is written to the transport
SynchronousSend(p) ==
    /\ answers[p] # <<>> /\ outgoing[p] = <<>> /\ writing[p] = <<>>
    /\ Len(wire[p]) < Wire
    /\ wire' = [wire EXCEPT ![p] = Append(@, Head(answers[p]))]
    /\ answers' = [answers EXCEPT ![p] = Tail(@)]
    /\ incoming' = [incoming EXCEPT ![p] = IF Head(answers[p]) = "WINDOW" THEN @ + 1 ELSE @]
    /\ UNCHANGED <<calls, waiting, accepted, outgoing, writing>>

\* sendAsync in the handler.  After the initial WINDOW the stream enters
\* incoming, for which only the read loop competes.
SendAsync(p) ==
    /\ answers[p] # <<>>
    /\ Enqueue(p, Head(answers[p]))
    /\ answers' = [answers EXCEPT ![p] = Tail(@)]
    /\ incoming' = [incoming EXCEPT ![p] = IF Head(answers[p]) = "WINDOW" THEN @ + 1 ELSE @]
    /\ UNCHANGED <<calls, waiting, accepted, writing, wire>>

ReadLoop(p) ==
    HandleOpen(p) \/ HandleAccept(p) \/ HandleReset(p) \/ HandleWindow(p) \/ SendAsync(p)

WriterLoop(p) == Take(p) \/ WriteFrame(p)

Next == \E p \in Peers :
            Open(p) \/ OpenReturns(p) \/ Accept(p) \/ ReadLoop(p) \/ WriterLoop(p)

\* The loops and the calls run; the applications accept.
Fairness == \A p \in Peers : /\ WF_vars(ReadLoop(p)) /\ WF_vars(WriterLoop(p))
                             /\ WF_vars(Open(p)) /\ WF_vars(OpenReturns(p))
                             /\ WF_vars(Accept(p))

Spec == Init /\ [][Next]_vars /\ Fairness

-----------------------------------------------------------------------------

\* "each reader must remain able to consume the peer's ACCEPT" (sendAsync): the
\* read loop always comes back to the transport.
ReadersRun == \A p \in Peers : []<>(answers[p] = <<>>)

\* Every call of Open is answered and returns, also when both peers open streams
\* at the same time.
OpensReturn == \A p \in Peers : <>[](calls[p] + waiting[p] + accepted[p] = 0)

\* Each answer finds a caller: the frames of p on their way, and the answers of
\* p to come, are those the calls of the other peer wait for.
Occurs(fs, k) == Len(SelectSeq(fs, LAMBDA x : x = k))

InFlight(p, k) == Occurs(outgoing[p], k) + Occurs(writing[p], k) + Occurs(wire[p], k)

EveryCallAnswered ==
    \A p \in Peers :
        LET q == Other(p)
        IN  waiting[p] = InFlight(p, "OPEN")
                         + InFlight(q, "ACCEPT") + Occurs(answers[q], "ACCEPT")
                         + InFlight(q, "RESET") + Occurs(answers[q], "RESET")

=============================================================================
