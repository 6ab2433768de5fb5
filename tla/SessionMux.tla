---------------------------- MODULE SessionMux ----------------------------
(***************************************************************************)
(* The stream multiplexer of sessionmux/mux.go and sessionmux/stream.go:   *)
(* two peers exchange frames over one transport and run, per logical       *)
(* stream, an OPEN/ACCEPT handshake, credit-based flow control and an      *)
(* orderly (CLOSE) or abrupt (RESET) end.                                  *)
(*                                                                         *)
(* A step is one critical section of the code (a section under Stream.mu   *)
(* or Mux.mu, or one send into Mux.outgoing).  What happens between two    *)
(* sections of one call is up to the other threads.  The frame handler of  *)
(* the read loop is one step.  Mux.outgoing, the writer loop and the       *)
(* transport are one FIFO channel per direction (net); the bound of        *)
(* Mux.outgoing is the subject of module MuxBackpressure.                  *)
(*                                                                         *)
(* Payloads: the bytes a stream end writes are numbered 1, 2, 3, ...; a    *)
(* DATA frame carries the bytes from+1 .. to of that numbering.  A WINDOW  *)
(* frame carries a credit of to - from; from and to are cumulative grants, *)
(* so that the credit in transit can be told from its end points.          *)
(***************************************************************************)
EXTENDS Naturals, Sequences

CONSTANTS
    Window,      \* InitialWindow of each peer
    Threshold,   \* WindowUpdateThreshold of each peer
    MaxData,     \* MaxDataPayload of each peer
    MaxWindow,   \* maxInitialWindow
    Backlog,     \* capacity of Mux.incoming
    MaxId,       \* bound: stream identifiers in use
    Denied,      \* identifiers whose service the accepting peer does not allow
    WriteLimit,  \* bound: bytes each stream end of a peer writes
    Ops          \* the optional operations the environment performs

Peers == {"initiator", "responder"}

Other(p) == IF p = "initiator" THEN "responder" ELSE "initiator"

Ids == 1..MaxId

Min2(a, b) == IF a <= b THEN a ELSE b

ASSUME WindowAssumption ==
    /\ MaxWindow \in Nat
    /\ Window \in [Peers -> 1..MaxWindow]
    /\ Threshold \in [Peers -> Nat \ {0}]
    /\ \A p \in Peers : Threshold[p] <= Window[p]

\* New caps MaxDataPayload by the own window only.  A peer also rejects DATA
\* above its OWN limit, so two peers understand each other only when what one
\* may send is within the limit of the other.
ASSUME PayloadAssumption ==
    /\ MaxData \in [Peers -> Nat \ {0}]
    /\ \A p \in Peers : /\ MaxData[p] <= Window[p]
                        /\ Min2(MaxData[p], Window[Other(p)]) <= MaxData[Other(p)]

ASSUME BoundAssumption ==
    /\ Backlog \in Nat \ {0}
    /\ MaxId \in Nat
    /\ Denied \subseteq Ids
    /\ WriteLimit \in [Peers -> Nat]
    /\ Ops \subseteq {"cancel", "close", "reset", "shutdown"}

VARIABLES
    cause,     \* Mux.err: "up", or why the mux was shut down
    nextID,    \* Mux.nextID
    streams,   \* Mux.streams: the identifiers a peer has a stream for
    incoming,  \* Mux.incoming
    net,       \* net[p]: frames p has sent and Other(p) has not handled
    phase,     \* how far the call that hands the stream to the application is
    accepted,  \* what was put in Stream.accepted: nothing, nil or an error
    isOpen, localClosed, remoteClosed,  \* the streams of a peer with the flag
    failed,                             \* ... and with terminalErr # nil
    peerWindowSet, peerWindow, sendCredit,
    sent,                               \* bytes cut into DATA frames so far
    windowAdvertised, recvCredit, pendingWindow,
    delivered, consumed,                \* bytes put into, taken from readBuf
    writer,    \* the call of Write in progress; it holds writeMu unless "idle"
    left,      \* bytes that call has still to send
    chunk,     \* bytes of its current DATA frame
    reading,   \* streams on which a call of Read waits for readReady
    grant,     \* credit that call of Read has booked and not yet sent
    ender,     \* the call of Close or Reset in progress
    violated   \* streams on which a peer has reported a flow-control violation

muxVars   == <<cause, nextID, streams, incoming>>
openVars  == <<phase, accepted, isOpen>>
endVars   == <<localClosed, remoteClosed, failed>>
sendVars  == <<peerWindowSet, peerWindow, sendCredit, sent>>
recvVars  == <<windowAdvertised, recvCredit, pendingWindow, delivered, consumed>>
writeVars == <<writer, left, chunk>>
readVars  == <<reading, grant>>
vars == <<cause, nextID, streams, incoming, net, phase, accepted, isOpen,
          localClosed, remoteClosed, failed, peerWindowSet, peerWindow,
          sendCredit, sent, windowAdvertised, recvCredit, pendingWindow,
          delivered, consumed, writer, left, chunk, reading, grant, ender,
          violated>>

Kinds == {"OPEN", "ACCEPT", "WINDOW", "DATA", "CLOSE", "RESET"}

Frame == [kind : Kinds, id : Ids, from : Nat, to : Nat]

Control(k, s)   == [kind |-> k, id |-> s, from |-> 0, to |-> 0]
Data(s, a, b)   == [kind |-> "DATA", id |-> s, from |-> a, to |-> b]
Credit(s, a, b) == [kind |-> "WINDOW", id |-> s, from |-> a, to |-> b]
Size(f)         == f.to - f.from

Up(p) == cause[p] = "up"

Buffered(p, s) == delivered[p][s] - consumed[p][s]     \* readBuf.Len()
Granted(p, s)  == delivered[p][s] + recvCredit[p][s]   \* credit ever granted
Credited(p, s) == sent[p][s] + sendCredit[p][s]        \* credit ever received

Sets     == [Peers -> SUBSET Ids]
Counters == [Peers -> [Ids -> Nat]]
Phases   == [Peers -> [Ids -> {"none", "created", "waiting", "accepted", "queued",
                               "open", "failed"}]]
Writers  == [Peers -> [Ids -> {"idle", "loop", "wait", "send"}]]
Enders   == [Peers -> [Ids -> {"none", "close", "closed", "reset", "aborted", "done"}]]
Outcomes == [Peers -> [Ids -> {"none", "ok", "err"}]]

TypeOK ==
    /\ cause \in [Peers -> {"up", "closed", "protocol"}]
    /\ nextID \in [Peers -> Nat \ {0}]
    /\ incoming \in [Peers -> Seq(Ids)]
    /\ net \in [Peers -> Seq(Frame)]
    /\ phase \in Phases /\ accepted \in Outcomes
    /\ streams \in Sets /\ isOpen \in Sets
    /\ localClosed \in Sets /\ remoteClosed \in Sets /\ failed \in Sets
    /\ peerWindowSet \in Sets /\ windowAdvertised \in Sets
    /\ reading \in Sets /\ violated \in Sets
    /\ peerWindow \in Counters /\ sendCredit \in Counters /\ sent \in Counters
    /\ recvCredit \in Counters /\ pendingWindow \in Counters
    /\ delivered \in Counters /\ consumed \in Counters
    /\ left \in Counters /\ chunk \in Counters /\ grant \in Counters
    /\ writer \in Writers /\ ender \in Enders

NoStream == [p \in Peers |-> {}]
Zeros    == [p \in Peers |-> [s \in Ids |-> 0]]
All(v)   == [p \in Peers |-> [s \in Ids |-> v]]

Init ==
    /\ cause = [p \in Peers |-> "up"]
    /\ nextID = [p \in Peers |-> IF p = "initiator" THEN 1 ELSE 2]
    /\ incoming = [p \in Peers |-> <<>>]
    /\ net = [p \in Peers |-> <<>>]
    /\ phase = All("none") /\ accepted = All("none")
    /\ streams = NoStream /\ isOpen = NoStream
    /\ localClosed = NoStream /\ remoteClosed = NoStream /\ failed = NoStream
    /\ peerWindowSet = NoStream /\ windowAdvertised = NoStream
    /\ reading = NoStream /\ violated = NoStream
    /\ peerWindow = Zeros /\ sendCredit = Zeros /\ sent = Zeros
    /\ recvCredit = Zeros /\ pendingWindow = Zeros
    /\ delivered = Zeros /\ consumed = Zeros
    /\ left = Zeros /\ chunk = Zeros /\ grant = Zeros
    /\ writer = All("idle") /\ ender = All("none")

-----------------------------------------------------------------------------
(* Steps shared by several operations *)

\* send and sendAsync: a frame is queued unless the mux is shut down.  Frames
\* to a peer that is gone are lost.
Send(p, f) ==
    net' = IF Up(p) /\ Up(Other(p)) THEN [net EXCEPT ![p] = Append(@, f)] ELSE net

\* The read loop of p takes the next frame, of kind k, from the transport ...
Arrived(p) == Head(net[Other(p)])

Arrives(p, k) == Up(p) /\ net[Other(p)] # <<>> /\ Arrived(p).kind = k

\* ... and its handler queues an answer or none.
Silent(p) == net' = [net EXCEPT ![Other(p)] = Tail(@)]

Answer(p, f) ==
    net' = IF Up(Other(p))
           THEN [net EXCEPT ![Other(p)] = Tail(@), ![p] = Append(@, f)]
           ELSE [net EXCEPT ![Other(p)] = Tail(@)]

Add(set, p, s)    == [set EXCEPT ![p] = @ \cup {s}]
Remove(set, p, s) == [set EXCEPT ![p] = @ \ {s}]

\* signalAccepted: only the first outcome counts (acceptOne).
SignalAccepted(p, s, outcome) ==
    accepted' = [accepted EXCEPT ![p][s] = IF @ = "none" THEN outcome ELSE @]

\* mutant: no broadcast
NoBroadcastRead(p, s) == UNCHANGED reading
BroadcastRead(p, s) == reading' = Remove(reading, p, s)

\* mutant: no broadcast
NoBroadcastWrite(p, s) == UNCHANGED writer
BroadcastWrite(p, s) ==
    writer' = [writer EXCEPT ![p][s] = IF @ = "wait" THEN "loop" ELSE @]

\* remoteClose(err)
RemoteCloseError(p, s) ==
    /\ remoteClosed' = Add(remoteClosed, p, s)
    /\ failed' = Add(failed, p, s)
    /\ BroadcastWrite(p, s)
    /\ BroadcastRead(p, s)

RemoveStream(p, s) == streams' = Remove(streams, p, s)

\* shutdown: every stream in the table ends with the error of the mux.  Frames
\* not yet written to the transport are lost, and nobody reads what the other
\* peer still sends.
Shutdown(p, why) ==
    /\ cause' = [cause EXCEPT ![p] = why]
    /\ streams' = [streams EXCEPT ![p] = {}]
    /\ \E n \in 0..Len(net[p]) :
         net' = [net EXCEPT ![p] = SubSeq(@, 1, n), ![Other(p)] = <<>>]
    /\ accepted' = [accepted EXCEPT ![p] = [s \in Ids |->
                      IF s \in streams[p] /\ @[s] = "none" THEN "err" ELSE @[s]]]
    /\ remoteClosed' = [remoteClosed EXCEPT ![p] = @ \cup streams[p]]
    /\ failed' = [failed EXCEPT ![p] = @ \cup streams[p]]
    /\ writer' = [writer EXCEPT ![p] = [s \in Ids |->
                    IF s \in streams[p] /\ @[s] = "wait" THEN "loop" ELSE @[s]]]
    /\ reading' = [reading EXCEPT ![p] = @ \ streams[p]]
    /\ UNCHANGED <<nextID, incoming, phase, isOpen, localClosed, sendVars,
                   recvVars, left, chunk, grant, ender, violated>>

\* Mux.Close, or an error of the transport in either loop.
MuxClose(p) ==
    /\ "shutdown" \in Ops \/ ~Up(Other(p))
    /\ Up(p)
    /\ Shutdown(p, "closed")

-----------------------------------------------------------------------------
(* Open and Accept *)

IdAfter(id) == id + 2

\* newLocalStream, under Mux.mu
NewLocalStream(p) ==
    /\ Up(p)
    /\ nextID[p] \in Ids
    /\ nextID' = [nextID EXCEPT ![p] = IdAfter(@)]
    /\ streams' = Add(streams, p, nextID[p])
    /\ phase' = [phase EXCEPT ![p][nextID[p]] = "created"]
    /\ UNCHANGED <<cause, incoming, net, accepted, isOpen, endVars, sendVars,
                   recvVars, writeVars, readVars, ender, violated>>

\* Open sends OPEN, or gives up when the mux is already shut down.
SendOpen(p, s) ==
    /\ phase[p][s] = "created"
    /\ Send(p, Control("OPEN", s))
    /\ phase' = [phase EXCEPT ![p][s] = IF Up(p) THEN "waiting" ELSE "failed"]
    /\ UNCHANGED <<muxVars, accepted, isOpen, endVars, sendVars, recvVars,
                   writeVars, readVars, ender, violated>>

\* initializeReceiveWindow
InitializeReceiveWindow(p, s) ==
    /\ windowAdvertised' = Add(windowAdvertised, p, s)
    /\ recvCredit' = [recvCredit EXCEPT ![p][s] = Window[p]]
    /\ UNCHANGED <<pendingWindow, delivered, consumed>>

\* Open receives nil from Stream.accepted: markAccepted, then
\* initializeReceiveWindow.
OpenAccepted(p, s) ==
    /\ phase[p][s] = "waiting"
    /\ accepted[p][s] = "ok"
    /\ isOpen' = Add(isOpen, p, s)
    /\ InitializeReceiveWindow(p, s)
    /\ phase' = [phase EXCEPT ![p][s] = "accepted"]
    /\ UNCHANGED <<muxVars, net, accepted, endVars, sendVars, writeVars,
                   readVars, ender, violated>>

\* Open sends the initial WINDOW and returns the stream.
SendInitialWindow(p, s) ==
    /\ phase[p][s] = "accepted"
    /\ Up(p)
    /\ Send(p, Credit(s, 0, Window[p]))
    /\ phase' = [phase EXCEPT ![p][s] = "open"]
    /\ UNCHANGED <<muxVars, accepted, isOpen, endVars, sendVars, recvVars,
                   writeVars, readVars, ender, violated>>

\* ... or fails because the mux was shut down meanwhile.
InitialWindowFails(p, s) ==
    /\ phase[p][s] = "accepted"
    /\ ~Up(p)
    /\ phase' = [phase EXCEPT ![p][s] = "failed"]
    /\ RemoteCloseError(p, s)
    /\ RemoveStream(p, s)
    /\ UNCHANGED <<cause, nextID, incoming, net, accepted, isOpen, localClosed,
                   sendVars, recvVars, left, chunk, grant, ender, violated>>

\* Open receives an error from Stream.accepted, or finds the mux done.
OpenFailed(p, s) ==
    /\ phase[p][s] = "waiting"
    /\ accepted[p][s] = "err" \/ ~Up(p)
    /\ phase' = [phase EXCEPT ![p][s] = "failed"]
    /\ RemoveStream(p, s)
    /\ UNCHANGED <<cause, nextID, incoming, net, accepted, isOpen, endVars,
                   sendVars, recvVars, writeVars, readVars, ender, violated>>

\* The context of Open ends: RESET is queued and the stream is forgotten.
CancelOpen(p, s) ==
    /\ "cancel" \in Ops
    /\ phase[p][s] = "waiting"
    /\ Send(p, Control("RESET", s))
    /\ RemoteCloseError(p, s)
    /\ RemoveStream(p, s)
    /\ phase' = [phase EXCEPT ![p][s] = "failed"]
    /\ UNCHANGED <<cause, nextID, incoming, accepted, isOpen, localClosed,
                   sendVars, recvVars, left, chunk, grant, ender, violated>>

\* Accept hands the oldest accepted stream to the application.
Accept(p) ==
    /\ incoming[p] # <<>>
    /\ phase' = [phase EXCEPT ![p][Head(incoming[p])] = "open"]
    /\ incoming' = [incoming EXCEPT ![p] = Tail(@)]
    /\ UNCHANGED <<cause, nextID, streams, net, accepted, isOpen, endVars,
                   sendVars, recvVars, writeVars, readVars, ender, violated>>

-----------------------------------------------------------------------------
(* Read, Write, Close and Reset: calls of the application on a stream it holds *)

\* Consumed bytes become credit once they reach the threshold or empty readBuf.
WindowDue(p, s, n) == \/ pendingWindow[p][s] + n >= Threshold[p]
                      \/ Buffered(p, s) = n

CanRead(p, s, n) ==
    /\ phase[p][s] = "open"
    /\ s \notin reading[p] /\ grant[p][s] = 0
    /\ n <= Buffered(p, s)

\* Read takes n bytes and books the credit they free, under Stream.mu; the
\* WINDOW is sent after it (SendWindow).
ReadGrant(p, s, n) ==
    LET credit == pendingWindow[p][s] + n
    IN  /\ CanRead(p, s, n)
        /\ s \notin remoteClosed[p]
        /\ WindowDue(p, s, n)
        /\ consumed' = [consumed EXCEPT ![p][s] = @ + n]
        /\ IF recvCredit[p][s] + credit > Window[p]
           THEN /\ pendingWindow' = [pendingWindow EXCEPT ![p][s] = credit]
                /\ violated' = Add(violated, p, s)
                /\ UNCHANGED <<recvCredit, grant>>
           ELSE /\ pendingWindow' = [pendingWindow EXCEPT ![p][s] = 0]
                /\ recvCredit' = [recvCredit EXCEPT ![p][s] = @ + credit]
                /\ grant' = [grant EXCEPT ![p][s] = credit]
                /\ UNCHANGED violated
        /\ UNCHANGED <<muxVars, net, openVars, endVars, sendVars,
                       windowAdvertised, delivered, writeVars, reading, ender>>

\* Read takes n bytes; no credit is due, or the peer needs none.
ReadQuiet(p, s, n) ==
    /\ CanRead(p, s, n)
    /\ s \in remoteClosed[p] \/ ~WindowDue(p, s, n)
    /\ consumed' = [consumed EXCEPT ![p][s] = @ + n]
    /\ pendingWindow' = IF s \in remoteClosed[p] THEN pendingWindow
                        ELSE [pendingWindow EXCEPT ![p][s] = @ + n]
    /\ UNCHANGED <<muxVars, net, openVars, endVars, sendVars, windowAdvertised,
                   recvCredit, delivered, writeVars, readVars, ender, violated>>

\* Read queues the WINDOW for the credit it has booked.
SendWindow(p, s) ==
    /\ grant[p][s] > 0
    /\ Send(p, Credit(s, Granted(p, s) - grant[p][s], Granted(p, s)))
    /\ grant' = [grant EXCEPT ![p][s] = 0]
    /\ UNCHANGED <<muxVars, openVars, endVars, sendVars, recvVars, writeVars,
                   reading, ender, violated>>

\* Read finds nothing and waits on readReady.
ReadWait(p, s) ==
    /\ phase[p][s] = "open"
    /\ s \notin reading[p] /\ grant[p][s] = 0
    /\ Buffered(p, s) = 0
    /\ s \notin remoteClosed[p]
    /\ reading' = Add(reading, p, s)
    /\ UNCHANGED <<muxVars, net, openVars, endVars, sendVars, recvVars,
                   writeVars, grant, ender, violated>>

\* Write with n bytes takes writeMu.
WriteBegin(p, s, n) ==
    /\ phase[p][s] = "open"
    /\ writer[p][s] = "idle"
    /\ ender[p][s] = "none"    \* bound: after Close or Reset, Write only fails
    /\ sent[p][s] + n <= WriteLimit[p]
    /\ writer' = [writer EXCEPT ![p][s] = "loop"]
    /\ left' = [left EXCEPT ![p][s] = n]
    /\ UNCHANGED <<muxVars, net, openVars, endVars, sendVars, recvVars, chunk,
                   readVars, ender, violated>>

WriteError(p, s) == s \notin isOpen[p] \/ s \in localClosed[p] \/ s \in failed[p]

\* Write returns an error and releases writeMu.
WriteFail(p, s) ==
    /\ writer[p][s] = "loop"
    /\ WriteError(p, s)
    /\ writer' = [writer EXCEPT ![p][s] = "idle"]
    /\ left' = [left EXCEPT ![p][s] = 0]
    /\ UNCHANGED <<muxVars, net, openVars, endVars, sendVars, recvVars, chunk,
                   readVars, ender, violated>>

\* Write has no credit and waits on writeReady.
WriteWait(p, s) ==
    /\ writer[p][s] = "loop"
    /\ ~WriteError(p, s)
    /\ sendCredit[p][s] = 0
    /\ writer' = [writer EXCEPT ![p][s] = "wait"]
    /\ UNCHANGED <<muxVars, net, openVars, endVars, sendVars, recvVars, left,
                   chunk, readVars, ender, violated>>

\* mutant: the chunk is not cut to the credit
ChunkSizeUncut(p, s) == Min2(left[p][s], MaxData[p])

ChunkSize(p, s) == Min2(Min2(left[p][s], MaxData[p]), sendCredit[p][s])

\* Write cuts the next chunk and pays for it under Stream.mu.
WriteChunk(p, s) ==
    /\ writer[p][s] = "loop"
    /\ ~WriteError(p, s)
    /\ sendCredit[p][s] > 0
    /\ sendCredit' = [sendCredit EXCEPT ![p][s] = @ - ChunkSize(p, s)]
    /\ sent' = [sent EXCEPT ![p][s] = @ + ChunkSize(p, s)]
    /\ chunk' = [chunk EXCEPT ![p][s] = ChunkSize(p, s)]
    /\ writer' = [writer EXCEPT ![p][s] = "send"]
    /\ UNCHANGED <<muxVars, net, openVars, endVars, peerWindowSet, peerWindow,
                   recvVars, left, readVars, ender, violated>>

\* Write sends the DATA frame, then continues, returns, or fails with the mux.
WriteSend(p, s) ==
    LET rest == IF Up(p) THEN left[p][s] - chunk[p][s] ELSE 0
    IN  /\ writer[p][s] = "send"
        /\ Send(p, Data(s, sent[p][s] - chunk[p][s], sent[p][s]))
        /\ chunk' = [chunk EXCEPT ![p][s] = 0]
        /\ left' = [left EXCEPT ![p][s] = rest]
        /\ writer' = [writer EXCEPT ![p][s] = IF rest > 0 THEN "loop" ELSE "idle"]
        /\ UNCHANGED <<muxVars, openVars, endVars, sendVars, recvVars, readVars,
                       ender, violated>>

\* Close marks the local direction closed and wakes the writer.
Close(p, s) ==
    /\ "close" \in Ops
    /\ phase[p][s] = "open"
    /\ s \notin localClosed[p]
    /\ localClosed' = Add(localClosed, p, s)
    /\ BroadcastWrite(p, s)
    /\ ender' = [ender EXCEPT ![p][s] = "close"]
    /\ UNCHANGED <<muxVars, net, openVars, remoteClosed, failed, sendVars,
                   recvVars, left, chunk, readVars, violated>>

\* mutant: CLOSE does not wait for writeMu
SendCloseEager(p, s) ==
    /\ ender[p][s] = "close"
    /\ Send(p, Control("CLOSE", s))
    /\ ender' = [ender EXCEPT ![p][s] = "closed"]
    /\ UNCHANGED <<muxVars, openVars, endVars, sendVars, recvVars, writeVars,
                   readVars, violated>>

\* Close holds writeMu and sends CLOSE.
SendClose(p, s) ==
    /\ ender[p][s] = "close"
    /\ writer[p][s] = "idle"
    /\ Send(p, Control("CLOSE", s))
    /\ ender' = [ender EXCEPT ![p][s] = "closed"]
    /\ UNCHANGED <<muxVars, openVars, endVars, sendVars, recvVars, writeVars,
                   readVars, violated>>

\* mutant: a fully closed stream stays in the table
MaybeRemoveNever(p, s) == UNCHANGED streams

\* maybeRemove, with the flags as the step leaves them
MaybeRemove(p, s) ==
    streams' = IF s \in localClosed'[p] /\ s \in remoteClosed'[p]
               THEN Remove(streams, p, s) ELSE streams

CloseRemove(p, s) ==
    /\ ender[p][s] = "closed"
    /\ UNCHANGED <<cause, nextID, incoming, net, openVars, endVars, sendVars,
                   recvVars, writeVars, readVars, violated>>
    /\ MaybeRemove(p, s)
    /\ ender' = [ender EXCEPT ![p][s] = "done"]

\* Reset ends both directions; it does nothing once the stream is closed locally.
Reset(p, s) ==
    /\ "reset" \in Ops
    /\ phase[p][s] = "open"
    /\ s \notin localClosed[p]
    /\ localClosed' = Add(localClosed, p, s)
    /\ RemoteCloseError(p, s)
    /\ ender' = [ender EXCEPT ![p][s] = "reset"]
    /\ UNCHANGED <<muxVars, net, openVars, sendVars, recvVars, left, chunk,
                   grant, violated>>

\* Reset holds writeMu and queues RESET.
SendReset(p, s) ==
    /\ ender[p][s] = "reset"
    /\ writer[p][s] = "idle"
    /\ Send(p, Control("RESET", s))
    /\ ender' = [ender EXCEPT ![p][s] = "aborted"]
    /\ UNCHANGED <<muxVars, openVars, endVars, sendVars, recvVars, writeVars,
                   readVars, violated>>

ResetRemove(p, s) ==
    /\ ender[p][s] = "aborted"
    /\ RemoveStream(p, s)
    /\ ender' = [ender EXCEPT ![p][s] = "done"]
    /\ UNCHANGED <<cause, nextID, incoming, net, openVars, endVars, sendVars,
                   recvVars, writeVars, readVars, violated>>

-----------------------------------------------------------------------------
(* handleFrame: the read loop of p handles the next frame of the other peer.   *)
(* A stream keeps the service it was opened with, so the service-mismatch      *)
(* branches are dead; nothing in the repository sends PING.                    *)

PeerOwns(p, s) == (s % 2 = 0) <=> (p = "initiator")

\* handleOpen, refused: the service is not allowed or the backlog is full.  In
\* the second case the new stream is removed again before anybody has seen it.
RefuseOpen(p) ==
    LET s == Arrived(p).id
    IN  /\ Arrives(p, "OPEN")
        /\ \/ s \in Denied
           \/ PeerOwns(p, s) /\ s \notin streams[p] /\ Len(incoming[p]) >= Backlog
        /\ Answer(p, Control("RESET", s))
        /\ UNCHANGED <<muxVars, openVars, endVars, sendVars, recvVars, writeVars,
                       readVars, ender, violated>>

\* handleOpen, allowed: ACCEPT and the initial WINDOW are queued before the
\* stream is put in incoming.
AcceptOpen(p) ==
    LET s == Arrived(p).id
        answers == <<Control("ACCEPT", s), Credit(s, 0, Window[p])>>
    IN  /\ Arrives(p, "OPEN")
        /\ s \notin Denied
        /\ IF ~PeerOwns(p, s) \/ s \in streams[p]
           THEN Shutdown(p, "protocol")
           ELSE /\ Len(incoming[p]) < Backlog
                /\ net' = IF Up(Other(p))
                          THEN [net EXCEPT ![Other(p)] = Tail(@),
                                           ![p] = Append(Append(@, answers[1]),
                                                         answers[2])]
                          ELSE [net EXCEPT ![Other(p)] = Tail(@)]
                /\ streams' = Add(streams, p, s)
                /\ incoming' = [incoming EXCEPT ![p] = Append(@, s)]
                /\ phase' = [phase EXCEPT ![p][s] = "queued"]
                /\ isOpen' = Add(isOpen, p, s)
                /\ InitializeReceiveWindow(p, s)
                /\ UNCHANGED <<cause, nextID, accepted, endVars, sendVars,
                               writeVars, readVars, ender, violated>>

HandleAccept(p) ==
    LET s == Arrived(p).id
    IN  /\ Arrives(p, "ACCEPT")
        /\ IF s \notin streams[p]
           THEN Shutdown(p, "protocol")
           ELSE /\ Silent(p)
                /\ SignalAccepted(p, s, "ok")
                /\ UNCHANGED <<muxVars, phase, isOpen, endVars, sendVars,
                               recvVars, writeVars, readVars, ender, violated>>

\* resetStream, after a frame the stream cannot take.  It is a violation unless
\* the stream had already ended with an error.
ResetStream(p, s) ==
    /\ Answer(p, Control("RESET", s))
    /\ SignalAccepted(p, s, "err")
    /\ RemoteCloseError(p, s)
    /\ RemoveStream(p, s)
    /\ violated' = IF s \in failed[p] THEN violated ELSE Add(violated, p, s)
    /\ UNCHANGED <<cause, nextID, incoming, phase, isOpen, localClosed, sendVars,
                   recvVars, left, chunk, grant, ender>>

\* Credit for a stream that is gone, or that no longer writes, is dropped.
DropWindow(p) ==
    LET s == Arrived(p).id
    IN  /\ Arrives(p, "WINDOW")
        /\ s \notin streams[p] \/ s \in localClosed[p] \/ s \in failed[p]
        /\ Silent(p)
        /\ UNCHANGED <<muxVars, openVars, endVars, sendVars, recvVars, writeVars,
                       readVars, ender, violated>>

\* addSendCredit
CreditFits(p, s, n) == IF s \in peerWindowSet[p]
                       THEN sendCredit[p][s] + n <= peerWindow[p][s]
                       ELSE n <= MaxWindow

\* mutant: every WINDOW replaces the credit that is left
AddSendCreditAnew(p, s, n) ==
    /\ peerWindowSet' = Add(peerWindowSet, p, s)
    /\ peerWindow' = [peerWindow EXCEPT ![p][s] = n]
    /\ sendCredit' = [sendCredit EXCEPT ![p][s] = n]
    /\ UNCHANGED sent

AddSendCredit(p, s, n) ==
    /\ peerWindowSet' = Add(peerWindowSet, p, s)
    /\ peerWindow' = [peerWindow EXCEPT ![p][s] = IF s \in peerWindowSet[p] THEN @ ELSE n]
    /\ sendCredit' = [sendCredit EXCEPT ![p][s] =
                        IF s \in peerWindowSet[p] THEN @ + n ELSE n]
    /\ UNCHANGED sent

HandleWindow(p) ==
    LET s == Arrived(p).id
        n == Size(Arrived(p))
    IN  /\ Arrives(p, "WINDOW")
        /\ s \in streams[p] /\ s \notin localClosed[p] /\ s \notin failed[p]
        /\ IF CreditFits(p, s, n)
           THEN /\ Silent(p)
                /\ AddSendCredit(p, s, n)
                /\ BroadcastWrite(p, s)
                /\ UNCHANGED <<muxVars, openVars, endVars, recvVars, left, chunk,
                               readVars, ender, violated>>
           ELSE ResetStream(p, s)

\* DATA for a stream that is gone is answered with RESET.
RejectData(p) ==
    /\ Arrives(p, "DATA")
    /\ Arrived(p).id \notin streams[p]
    /\ Answer(p, Control("RESET", Arrived(p).id))
    /\ UNCHANGED <<muxVars, openVars, endVars, sendVars, recvVars, writeVars,
                   readVars, ender, violated>>

\* isAccepted and the checks of deliver
Deliverable(p, s, n) ==
    /\ s \in isOpen[p] /\ s \notin remoteClosed[p] /\ s \in windowAdvertised[p]
    /\ n <= MaxData[p]
    /\ n <= recvCredit[p][s]
    /\ Buffered(p, s) + n <= Window[p]

\* mutant: DATA is ignored once the own direction is closed
DeliverHalfClosed(p, s, n) ==
    IF s \in localClosed[p]
    THEN UNCHANGED <<recvVars, reading>>
    ELSE /\ recvCredit' = [recvCredit EXCEPT ![p][s] = @ - n]
         /\ delivered' = [delivered EXCEPT ![p][s] = @ + n]
         /\ BroadcastRead(p, s)
         /\ UNCHANGED <<windowAdvertised, pendingWindow, consumed>>

Deliver(p, s, n) ==
    /\ recvCredit' = [recvCredit EXCEPT ![p][s] = @ - n]
    /\ delivered' = [delivered EXCEPT ![p][s] = @ + n]
    /\ BroadcastRead(p, s)
    /\ UNCHANGED <<windowAdvertised, pendingWindow, consumed>>

HandleData(p) ==
    LET s == Arrived(p).id
        n == Size(Arrived(p))
    IN  /\ Arrives(p, "DATA")
        /\ s \in streams[p]
        /\ IF Deliverable(p, s, n)
           THEN /\ Silent(p)
                /\ Deliver(p, s, n)
                /\ UNCHANGED <<muxVars, openVars, endVars, sendVars, writeVars,
                               grant, ender, violated>>
           ELSE ResetStream(p, s)

\* mutant: CLOSE and RESET for a stream that is gone are taken for a broken peer
DropEndStrict(p) ==
    /\ Arrives(p, "CLOSE") \/ Arrives(p, "RESET")
    /\ Arrived(p).id \notin streams[p]
    /\ Shutdown(p, "protocol")

\* CLOSE and RESET for a stream that is gone are dropped.
DropEnd(p) ==
    /\ Arrives(p, "CLOSE") \/ Arrives(p, "RESET")
    /\ Arrived(p).id \notin streams[p]
    /\ Silent(p)
    /\ UNCHANGED <<muxVars, openVars, endVars, sendVars, recvVars, writeVars,
                   readVars, ender, violated>>

HandleClose(p) ==
    LET s == Arrived(p).id
    IN  /\ Arrives(p, "CLOSE")
        /\ s \in streams[p]
        /\ Silent(p)
        /\ remoteClosed' = Add(remoteClosed, p, s)
        /\ BroadcastWrite(p, s)
        /\ BroadcastRead(p, s)
        /\ UNCHANGED <<cause, nextID, incoming, openVars, localClosed, failed,
                       sendVars, recvVars, left, chunk, grant, ender, violated>>
        /\ MaybeRemove(p, s)

HandleReset(p) ==
    LET s == Arrived(p).id
    IN  /\ Arrives(p, "RESET")
        /\ s \in streams[p]
        /\ Silent(p)
        /\ SignalAccepted(p, s, "err")
        /\ RemoteCloseError(p, s)
        /\ RemoveStream(p, s)
        /\ UNCHANGED <<cause, nextID, incoming, phase, isOpen, localClosed,
                       sendVars, recvVars, left, chunk, grant, ender, violated>>

-----------------------------------------------------------------------------

HandleFrame(p) ==
    \/ RefuseOpen(p) \/ AcceptOpen(p) \/ HandleAccept(p)
    \/ DropWindow(p) \/ HandleWindow(p)
    \/ RejectData(p) \/ HandleData(p)
    \/ DropEnd(p) \/ HandleClose(p) \/ HandleReset(p)

OpenStep(p, s) ==
    \/ SendOpen(p, s) \/ OpenAccepted(p, s)
    \/ SendInitialWindow(p, s) \/ InitialWindowFails(p, s) \/ OpenFailed(p, s)

ReadStep(p, s) ==
    \/ \E n \in 1..Window[p] : ReadGrant(p, s, n) \/ ReadQuiet(p, s, n)
    \/ SendWindow(p, s) \/ ReadWait(p, s)

WriteStep(p, s) ==
    WriteFail(p, s) \/ WriteWait(p, s) \/ WriteChunk(p, s) \/ WriteSend(p, s)

EndStep(p, s) ==
    SendClose(p, s) \/ CloseRemove(p, s) \/ SendReset(p, s) \/ ResetRemove(p, s)

Next ==
    \E p \in Peers :
        \/ MuxClose(p) \/ NewLocalStream(p) \/ Accept(p) \/ HandleFrame(p)
        \/ \E s \in Ids :
             \/ OpenStep(p, s) \/ CancelOpen(p, s)
             \/ ReadStep(p, s)
             \/ \E n \in 1..WriteLimit[p] : WriteBegin(p, s, n)
             \/ WriteStep(p, s)
             \/ Close(p, s) \/ Reset(p, s) \/ EndStep(p, s)

Spec == Init /\ [][Next]_vars

-----------------------------------------------------------------------------
(* Correctness *)

\* Honest peers never report ErrFlowControlViolation against each other:
\* deliver, addSendCredit and Read (stream.go) never meet a frame beyond the
\* credit, the window or the payload limit, whatever the interleaving of
\* writers, readers, handlers, closes, resets and shutdowns.
FlowConforms == \A p \in Peers : violated[p] = {}

\* What a stream end has written and the other application has not yet read is
\* never more than the window the reader advertised, wherever the bytes are:
\* in a chunk, in Mux.outgoing, in the transport or in readBuf.
EndToEndBound ==
    \A p \in Peers, s \in Ids :
        sent[p][s] - consumed[Other(p)][s] <= Window[Other(p)]

\* Read reports io.EOF (remoteClosed without terminalErr) only when every byte
\* the peer's Write took has been delivered: CLOSE never overtakes DATA.
CleanEOF ==
    \A p \in Peers, s \in Ids :
        LET q == Other(p)
        IN  s \in remoteClosed[q] \ failed[q]
              => /\ delivered[q][s] = sent[p][s]
                 /\ s \in localClosed[p]
                 /\ writer[p][s] = "idle"

\* No wakeup of writeReady or readReady is lost: a call waits only while what
\* it waits for is absent (Stream.Write, Stream.Read and their broadcasts).
NoLostWakeup ==
    \A p \in Peers, s \in Ids :
        /\ writer[p][s] = "wait" => ~WriteError(p, s) /\ sendCredit[p][s] = 0
        /\ s \in reading[p] => Buffered(p, s) = 0 /\ s \notin remoteClosed[p]

\* "Mux carries independent logical streams": no use of the streams by the two
\* applications makes a peer treat the other as broken and shut the mux down.
StreamsIndependent == \A p \in Peers : cause[p] # "protocol"

\* The frames of kind k and stream s in the channel fs, by their positions.
Of(fs, k, s) == {i \in 1..Len(fs) : fs[i].kind = k /\ fs[i].id = s}

\* They lie between lo and hi, in order; ...
Within(fs, k, s, lo, hi) ==
    /\ \A i \in Of(fs, k, s) : /\ lo <= fs[i].from
                               /\ fs[i].from < fs[i].to
                               /\ fs[i].to <= hi
    /\ \A i, j \in Of(fs, k, s) : i < j => fs[i].to <= fs[j].from

\* ... without a gap from lo on; ...
Linked(fs, k, s, lo) ==
    \A i \in Of(fs, k, s) :
        fs[i].from = lo \/ \E j \in Of(fs, k, s) : j < i /\ fs[j].to = fs[i].from

\* ... and up to hi.
Reaches(fs, k, s, lo, hi) == lo = hi \/ \E j \in Of(fs, k, s) : fs[j].to = hi

Carries(fs, k, s, lo, hi) ==
    Within(fs, k, s, lo, hi) /\ Linked(fs, k, s, lo) /\ Reaches(fs, k, s, lo, hi)

\* Both ends still exchange data from p to the other peer on stream s.
Flowing(p, s) == LET q == Other(p)
                 IN  /\ Up(p) /\ Up(q)
                     /\ s \notin localClosed[p] /\ s \notin failed[p]
                     /\ s \notin remoteClosed[q]
                     /\ s \in windowAdvertised[q]

\* Credit is conserved: on a stream that is in use in direction p, the grants
\* in transit are exactly those the receiver has made and the sender has not
\* booked, and the sender's credit, the bytes in transit or unread, and the
\* credit on its way back make up the window the receiver advertised.  So a
\* stream never leaks the capacity it needs to make progress.
CreditConserved ==
    \A p \in Peers, s \in Ids :
        LET q == Other(p)
        IN  Flowing(p, s) /\ phase[q][s] # "accepted"
              => /\ Carries(net[q], "WINDOW", s, Credited(p, s),
                            Granted(q, s) - grant[q][s])
                 /\ Granted(q, s) + pendingWindow[q][s]
                      = Window[q] + consumed[q][s]

\* The DATA frames in transit are exactly the bytes the sender has sent and the
\* receiver has not been given, in order and without gap or repetition.
BytesInOrder ==
    \A p \in Peers, s \in Ids :
        Flowing(p, s)
          => Carries(net[p], "DATA", s, delivered[Other(p)][s],
                     sent[p][s] - chunk[p][s])

\* When nothing is in transit and no call is in progress, the two stream tables
\* agree, each end knows what the other has closed, and a stream closed in both
\* directions is in neither: Mux.streams never keeps a stream that is over.
TablesAgree ==
    (/\ \A p \in Peers : Up(p) /\ net[p] = <<>>
     /\ \A p \in Peers, s \in Ids :
          /\ phase[p][s] \notin {"created", "waiting", "accepted"}
          /\ writer[p][s] \in {"idle", "wait"}
          /\ grant[p][s] = 0
          /\ ender[p][s] \in {"none", "done"})
    => /\ streams["initiator"] = streams["responder"]
       /\ \A p \in Peers : \A s \in streams[p] :
            /\ s \in localClosed[p] <=> s \in remoteClosed[Other(p)]
            /\ s \notin localClosed[p] \cap remoteClosed[p]

-----------------------------------------------------------------------------
(* Progress.  The read and writer loops and the calls in progress run; both    *)
(* applications accept streams and keep reading them.                          *)

Fairness ==
    \A p \in Peers :
        /\ WF_vars(HandleFrame(p))
        /\ WF_vars(Accept(p))
        /\ WF_vars(~Up(Other(p)) /\ MuxClose(p))
        /\ \A s \in Ids : /\ WF_vars(OpenStep(p, s))
                          /\ WF_vars(ReadStep(p, s))
                          /\ WF_vars(WriteStep(p, s))
                          /\ WF_vars(EndStep(p, s))

FairSpec == Spec /\ Fairness

\* Every call returns: Open is answered, a Write blocked on credit is released
\* by credit, by Close or Reset, or by the end of the stream or of the mux.
CallsReturn ==
    \A p \in Peers, s \in Ids :
        /\ phase[p][s] = "created" ~> phase[p][s] \in {"open", "failed"}
        /\ writer[p][s] # "idle" ~> writer[p][s] = "idle"
        /\ ender[p][s] # "none" ~> ender[p][s] = "done"

\* Every byte written is read by the peer's application, unless the stream ends
\* with an error at either side.
BytesArrive ==
    \A p \in Peers, s \in Ids : \A k \in 1..WriteLimit[p] :
        sent[p][s] >= k ~> \/ consumed[Other(p)][s] >= k
                           \/ s \in failed[p] \cup failed[Other(p)]

=============================================================================
