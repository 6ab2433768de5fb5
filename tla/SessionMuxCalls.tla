-------------------------- MODULE SessionMuxCalls ---------------------------
(***************************************************************************)
(* The calls of the application on a stream (Stream.Read, Write, Close and *)
(* Reset) keep IInv: first the steps that move no bytes and no credit, then*)
(* the steps of Read that grant credit and the steps of Write that spend it.*)
(***************************************************************************)
EXTENDS SessionMuxInv

-----------------------------------------------------------------------------

\* CLOSE is queued behind all DATA.
LEMMA SentClose ==
    ASSUME TypeOK, TypeOK', NEW a \in Peers, NEW b \in Peers, b = Other(a), NEW t \in Ids,
           StateOK(a, t, b), TransitOK(a, t, b), Finished(a, t)', chunk[a][t] = 0,
           UNCHANGED <<sent, delivered>>, Raised(b, t),
           NEW f \in Frame, f.kind = "CLOSE", f.id = t, Send(a, f)
    PROVE  CloseOK(a, t, b)'
<1>1. /\ net[a] \in Chan /\ net'[a] \in Chan /\ {"DATA", "CLOSE"} \subseteq Kinds
      /\ sent[a][t] - chunk[a][t] = sent[a][t]
  BY SMTT(30), Numbers DEF TypeOK, Chan, Kinds
<1>2. Keeps(net[a], net'[a], 0, "DATA", t)
  BY <1>1, SendChannel, Zenon
<1>3. CASE Up(a) /\ Up(b)
  <2>1. Appends(net[a], f, net'[a])
    BY <1>3, SendChannel, Zenon
  <2>2. Of(net'[a], "CLOSE", t) = Of(net[a], "CLOSE", t) \cup {Len(net[a]) + 1}
    BY <1>1, <2>1, AppendOf
  <2>3. \A i \in Of(net'[a], "DATA", t) : i \in Of(net[a], "DATA", t) /\ i < Len(net[a]) + 1
    BY <1>1, <2>1, AppendOf, OfFrames
  <2>4. \A i \in Of(net'[a], "DATA", t), j \in Of(net'[a], "CLOSE", t) : i < j
    BY <2>2, <2>3, Zenon DEF TransitOK, CloseOK
  <2>5. t \in remoteClosed[b] \/ Reaches(net[a], "DATA", t, delivered[b][t], sent[a][t])
    BY <1>1, <1>3, Zenon DEF TransitOK, DataOK
  <2>6. t \in remoteClosed'[b] \/ Reaches(net'[a], "DATA", t, delivered[b][t], sent[a][t])
    BY <1>1, <1>2, <2>5, CarrySame, Zenon DEF Raised
  <2> QED
    BY <2>4, <2>6, Zenon DEF CloseOK
<1>4. CASE ~(Up(a) /\ Up(b))
  <2>1. net'[a] = net[a]
    BY <1>4, SendChannel, Zenon
  <2> QED
    BY <2>1, Zenon DEF TransitOK, CloseOK, Raised
<1> QED
  BY <1>3, <1>4, Zenon

\* A step of Write, Close, Reset or Read that moves neither bytes nor credit.
LEMMA OwnInv ==
    ASSUME IInv, TypeOK', NEW p \in Peers, NEW s \in Ids,
           NEW f \in Frame, f.kind \in {"RESET", "CLOSE"}, f.id = s, UNCHANGED net \/ Send(p, f),
           f.kind = "CLOSE" => Finished(p, s)' /\ Send(p, f),
           UNCHANGED <<cause, nextID, incoming, phase, accepted, isOpen, sendVars, recvVars,
                       chunk, grant, violated>>,
           \A a \in Peers, t \in Ids : a # p \/ t # s => Same(a, t),
           \A a \in Peers : streams'[a] \subseteq streams[a],
           Raised(p, s), WriterOK(p, s)', Finished(p, s) => Finished(p, s)',
           ender'[p][s] # "none" => s \in localClosed'[p],
           ender'[p][s] \in {"reset", "aborted"} => s \in failed'[p],
           s \in failed'[p] => s \in remoteClosed'[p],
           s \in remoteClosed'[p] => s \in remoteClosed[p] \/ s \in failed'[p],
           s \notin streams[p] \/ s \in streams'[p] \/ (Shut(p, s)' /\ s \in remoteClosed'[p])
    PROVE  IInv'
<1> DEFINE q == Other(p)
<1>1. /\ TypeOK /\ q \in Peers /\ q # p /\ Other(q) = p
      /\ StateOK(p, s, q) /\ TransitOK(p, s, q) /\ StateOK(q, s, p) /\ TransitOK(q, s, p)
  BY OtherPeer, Zenon DEF IInv
<1>2. \A a \in Peers, k \in Kinds, t \in Ids :
          a # p \/ k # f.kind \/ t # s => Keeps(net[a], net'[a], 0, k, t)
  BY <1>1, SendChannel, StillChannel, Zenon
<1> HIDE DEF q
<1>3. /\ Same(q, s) /\ SameSend(q, s) /\ SameRecv(q, s) /\ SameWrite(q, s) /\ SameOpen(q, s)
      /\ SameEnd(q, s) /\ SameSend(p, s) /\ SameRecv(p, s)
      /\ Raised(q, s) /\ Woken(q, s) /\ phase' = phase /\ delivered' = delivered
      /\ Finished(q, s) => Finished(q, s)'
  BY <1>1, Zenon DEF Same, SameSend, SameRecv, SameEnd, SameWrite, Raised, Woken, sendVars, recvVars,
              Finished
<1>4. /\ Issued(p, s)' = Issued(p, s) /\ Issued(q, s)' = Issued(q, s)
      /\ Credited(p, s)' = Credited(p, s) /\ Credited(q, s)' = Credited(q, s)
  BY Zenon DEF Issued, Granted, Credited, sendVars, recvVars
<1>5. StateOK(p, s, q)'
  <2>1. Ledger(p, s, q)'
    BY <1>1, <1>3, <1>4, LedgerSame, Zenon DEF StateOK
  <2>2. Ending(p, s, q)'
    BY <1>1, <1>3, Zenon DEF StateOK, Ending, SameEnd, sendVars, recvVars
  <2>3. Handshake(p, s, q)'
    BY <1>1, Zenon DEF StateOK, Handshake, Shut, PeerOwns, Raised, recvVars
  <2> QED
    BY <2>1, <2>2, <2>3, Zenon DEF StateOK
<1>6. StateOK(q, s, p)'
  <2>1. /\ chunk'[q][s] = chunk[q][s] /\ left'[q][s] = left[q][s] /\ sent'[q][s] = sent[q][s]
        /\ phase'[p][s] = phase[p][s] /\ delivered'[p][s] = delivered[p][s] /\ Advances(q)
    BY <1>1, <1>3, Zenon DEF SameWrite, SameSend, Advances
  <2>2. Ledger(q, s, p)' /\ WriterOK(q, s)'
    BY <1>1, <1>3, <1>4, <2>1, LedgerSame, WriterSame, Zenon DEF StateOK
  <2>3. Handshake(q, s, p)'
    BY <1>1, <1>3, <2>1, HandshakeSame, Zenon DEF Advances, StateOK, SameEnd
  <2>4. Ending(q, s, p)'
    BY <1>1, <1>3, <2>1, EndingSame, Zenon DEF StateOK
  <2> QED
    BY <2>2, <2>3, <2>4, Zenon DEF StateOK
<1>7. TransitOK(p, s, q)'
  <2>1. \A k \in {"DATA", "WINDOW", "OPEN", "ACCEPT"} : Keeps(net[p], net'[p], 0, k, s)
    BY <1>1, <1>2, Zenon DEF Kinds
  <2>2. /\ sent' = sent /\ chunk' = chunk
    BY Zenon DEF sendVars
  <2>3. DataOK(p, s, q)' /\ CreditOK(p, s, q)' /\ OpenOK(p, s, q)'
    BY <1>1, <1>3, <1>4, <2>1, <2>2, DataSame, CreditSame, OpenSame, Zenon DEF TransitOK
  <2>4. CloseOK(p, s, q)'
    <3>1. CASE f.kind = "CLOSE"
      <4>1. chunk[p][s] = 0
        BY <3>1, Zenon DEF WriterOK, Finished
      <4> QED
        BY <1>1, <1>3, <2>2, <3>1, <4>1, SentClose, Zenon DEF q
    <3>2. CASE f.kind = "RESET"
      <4>1. Keeps(net[p], net'[p], 0, "CLOSE", s)
        BY <1>1, <1>2, <3>2, Zenon DEF Kinds
      <4> QED
        BY <1>1, <1>3, <2>1, <2>2, <4>1, CloseSame, Zenon DEF TransitOK
    <3> QED
      BY <3>1, <3>2, Zenon
  <2> QED
    BY <2>3, <2>4, Zenon DEF TransitOK
<1>8. TransitOK(q, s, p)'
  <2>1. /\ \A k \in Kinds \ {"RESET"} : Keeps(net[q], net'[q], 0, k, s)
        /\ sent' = sent /\ chunk' = chunk
    BY <1>1, <1>2, Zenon DEF sendVars
  <2> QED
    BY <1>1, <1>3, <1>4, <2>1, KeepTransit, Zenon
<1>9. \A a \in Peers : PeerOK(a, Other(a))' /\ Advances(a)
  <2>1. \A a \in Peers : ~Up(a) => net'[Other(a)] = net[Other(a)]
    BY <1>1, OtherPeer, ZenonT(30) DEF Send, TypeOK
  <2> QED
    BY <1>3, <2>1, StillPeers, Zenon
<1>10. FlowConforms'
  BY Zenon DEF IInv, FlowConforms
<1>11. \A a \in Peers, t \in Ids \ {s} : \E d \in {0, 1} : \A k \in Kinds : Keeps(net[a], net'[a], d, k, t)
  BY <1>2, Zenon
<1> QED
  BY <1>1, <1>5, <1>6, <1>7, <1>8, <1>9, <1>10, <1>11, StepInv, Zenon DEF OneStream, q

\* A frame without payload.
LEMMA ControlFrame ==
    ASSUME NEW k \in Kinds, NEW s \in Ids
    PROVE  Control(k, s) \in Frame /\ Control(k, s).kind = k /\ Control(k, s).id = s
  BY Zenon DEF Control, Frame

\* ... and sends nothing and ends nothing.
LEMMA QuietInv ==
    ASSUME IInv, TypeOK', NEW p \in Peers, NEW s \in Ids,
           UNCHANGED <<muxVars, net, openVars, endVars, sendVars, recvVars, chunk, grant, ender,
                       violated>>,
           \A a \in Peers, t \in Ids : a # p \/ t # s => Same(a, t),
           WriterOK(p, s)', Finished(p, s) => Finished(p, s)'
    PROVE  IInv'
<1>1. /\ Control("RESET", s) \in Frame /\ Control("RESET", s).kind = "RESET"
      /\ Control("RESET", s).id = s
  BY ControlFrame, Zenon DEF Kinds
<1>2. StateOK(p, s, Other(p))
  BY Zenon DEF IInv
<1>3. /\ UNCHANGED <<cause, nextID, incoming, phase, accepted, isOpen, sendVars, recvVars,
                     chunk, grant, violated, net, streams>>
      /\ Raised(p, s)
  BY Zenon DEF muxVars, openVars, endVars, Raised
<1>4. /\ ender'[p][s] # "none" => s \in localClosed'[p]
      /\ ender'[p][s] \in {"reset", "aborted"} => s \in failed'[p]
      /\ s \in failed'[p] => s \in remoteClosed'[p]
      /\ s \in remoteClosed'[p] => s \in remoteClosed[p] \/ s \in failed'[p]
      /\ s \notin streams[p] \/ s \in streams'[p]
  BY <1>2, <1>3, Zenon DEF StateOK, Ending, endVars
<1> QED
  BY <1>1, <1>3, <1>4, OwnInv, Zenon

\* A call of Write keeps IInv.
LEMMA WriteBeginInv ==
    ASSUME IInv, NEW p \in Peers, NEW s \in Ids, NEW n \in 1..WriteLimit[p], WriteBegin(p, s, n)
    PROVE  IInv'
<1>1. TypeOK /\ StateOK(p, s, Other(p)) /\ n \in Nat /\ n > 0
  BY BoundAssumption DEF IInv
<1>2. /\ UNCHANGED <<muxVars, net, openVars, endVars, sendVars, recvVars, chunk, readVars,
                     ender, violated>>
      /\ writer[p][s] = "idle" /\ ender[p][s] = "none"
  BY Zenon DEF WriteBegin
<1>3. /\ writer' \in Writers /\ Updates(writer, writer', p, s, "loop")
      /\ left' \in Counters /\ Updates(left, left', p, s, n)
  BY <1>1, WriterStep, CounterStep, Zenon DEF WriteBegin, TypeOK
<1>4. TypeOK'
  BY <1>1, <1>2, <1>3, Zenon DEF TypeOK, muxVars, openVars, endVars, sendVars, recvVars, readVars
<1>5. \A a \in Peers, t \in Ids : a # p \/ t # s => Same(a, t)
  <2> SUFFICES ASSUME NEW a \in Peers, NEW t \in Ids, a # p \/ t # s
               PROVE  Same(a, t)
    BY Zenon
  <2>1. SameSend(a, t)
    BY <1>2, <1>3, Zenon DEF SameSend, Updates, sendVars
  <2>2. SameRecv(a, t)
    BY <1>2, <1>3, Zenon DEF SameRecv, Updates, recvVars, readVars
  <2>3. SameWrite(a, t)
    BY <1>2, <1>3, Zenon DEF SameWrite, Updates
  <2>4. SameOpen(a, t)
    BY <1>2, <1>3, Zenon DEF SameOpen, Updates, muxVars, openVars
  <2>5. SameEnd(a, t)
    BY <1>2, <1>3, Zenon DEF SameEnd, Updates, endVars
  <2> QED
    BY <2>1, <2>2, <2>3, <2>4, <2>5, Zenon DEF Same
<1>6. WriterOK(p, s)'
  BY <1>1, <1>2, <1>3, Numbers DEF StateOK, WriterOK, Updates, Fragment
<1>7. Finished(p, s) => Finished(p, s)'
  BY <1>2, Zenon DEF Finished, endVars
<1> QED
  BY <1>2, <1>4, <1>5, <1>6, <1>7, QuietInv, Zenon DEF readVars

\* So does Write returning an error, ...
LEMMA WriteFailInv ==
    ASSUME IInv, NEW p \in Peers, NEW s \in Ids, WriteFail(p, s)
    PROVE  IInv'
<1>1. TypeOK /\ StateOK(p, s, Other(p))
  BY Zenon DEF IInv
<1>2. /\ UNCHANGED <<muxVars, net, openVars, endVars, sendVars, recvVars, chunk, readVars,
                     ender, violated>>
      /\ writer[p][s] = "loop"
  BY Zenon DEF WriteFail
<1>3. /\ writer' \in Writers /\ Updates(writer, writer', p, s, "idle")
      /\ left' \in Counters /\ Updates(left, left', p, s, 0)
  BY <1>1, WriterStep, CounterStep, Zenon DEF WriteFail, TypeOK
<1>4. TypeOK'
  BY <1>1, <1>2, <1>3, Zenon DEF TypeOK, muxVars, openVars, endVars, sendVars, recvVars, readVars
<1>5. \A a \in Peers, t \in Ids : a # p \/ t # s => Same(a, t)
  <2> SUFFICES ASSUME NEW a \in Peers, NEW t \in Ids, a # p \/ t # s
               PROVE  Same(a, t)
    BY Zenon
  <2>1. SameSend(a, t)
    BY <1>2, <1>3, Zenon DEF SameSend, Updates, sendVars
  <2>2. SameRecv(a, t)
    BY <1>2, <1>3, Zenon DEF SameRecv, Updates, recvVars, readVars
  <2>3. SameWrite(a, t)
    BY <1>2, <1>3, Zenon DEF SameWrite, Updates
  <2>4. SameOpen(a, t)
    BY <1>2, <1>3, Zenon DEF SameOpen, Updates, muxVars, openVars
  <2>5. SameEnd(a, t)
    BY <1>2, <1>3, Zenon DEF SameEnd, Updates, endVars
  <2> QED
    BY <2>1, <2>2, <2>3, <2>4, <2>5, Zenon DEF Same
<1>6. WriterOK(p, s)'
  BY <1>1, <1>2, <1>3, Numbers DEF StateOK, WriterOK, Updates, Fragment
<1>7. (Finished(p, s) => Finished(p, s)')
  BY <1>2, Zenon DEF Finished, endVars
<1> QED
  BY <1>2, <1>4, <1>5, <1>6, <1>7, QuietInv, Zenon DEF readVars

\* ... Write waiting for credit, ...
LEMMA WriteWaitInv ==
    ASSUME IInv, NEW p \in Peers, NEW s \in Ids, WriteWait(p, s)
    PROVE  IInv'
<1>1. TypeOK /\ StateOK(p, s, Other(p))
  BY Zenon DEF IInv
<1>2. /\ UNCHANGED <<muxVars, net, openVars, endVars, sendVars, recvVars, left, chunk, readVars,
                     ender, violated>>
      /\ writer[p][s] = "loop"
  BY Zenon DEF WriteWait
<1>3. writer' \in Writers /\ Updates(writer, writer', p, s, "wait")
  BY <1>1, WriterStep, Zenon DEF WriteWait, TypeOK
<1>4. TypeOK'
  BY <1>1, <1>2, <1>3, Zenon DEF TypeOK, muxVars, openVars, endVars, sendVars, recvVars, readVars
<1>5. \A a \in Peers, t \in Ids : a # p \/ t # s => Same(a, t)
  <2> SUFFICES ASSUME NEW a \in Peers, NEW t \in Ids, a # p \/ t # s
               PROVE  Same(a, t)
    BY Zenon
  <2>1. SameSend(a, t)
    BY <1>2, <1>3, Zenon DEF SameSend, Updates, sendVars
  <2>2. SameRecv(a, t)
    BY <1>2, <1>3, Zenon DEF SameRecv, Updates, recvVars, readVars
  <2>3. SameWrite(a, t)
    BY <1>2, <1>3, Zenon DEF SameWrite, Updates
  <2>4. SameOpen(a, t)
    BY <1>2, <1>3, Zenon DEF SameOpen, Updates, muxVars, openVars
  <2>5. SameEnd(a, t)
    BY <1>2, <1>3, Zenon DEF SameEnd, Updates, endVars
  <2> QED
    BY <2>1, <2>2, <2>3, <2>4, <2>5, Zenon DEF Same
<1>6. WriterOK(p, s)'
  BY <1>1, <1>2, <1>3, Numbers, Zenon DEF StateOK, WriterOK, Updates, Fragment
<1>7. (Finished(p, s) => Finished(p, s)')
  BY <1>2, Zenon DEF Finished, endVars
<1> QED
  BY <1>2, <1>4, <1>5, <1>6, <1>7, QuietInv, Zenon DEF readVars

\* ... Read waiting for bytes, ...
LEMMA ReadWaitInv ==
    ASSUME IInv, NEW p \in Peers, NEW s \in Ids, ReadWait(p, s)
    PROVE  IInv'
<1>1. TypeOK /\ StateOK(p, s, Other(p))
  BY Zenon DEF IInv
<1>2. UNCHANGED <<muxVars, net, openVars, endVars, sendVars, recvVars, writeVars, grant,
                  ender, violated>>
  BY Zenon DEF ReadWait
<1>3. reading' \in Sets
  BY <1>1, AddStep, Zenon DEF ReadWait, TypeOK
<1>4. TypeOK'
  BY <1>1, <1>2, <1>3, Zenon DEF TypeOK, muxVars, openVars, endVars, sendVars, recvVars, writeVars
<1>5. \A a \in Peers, t \in Ids : Same(a, t)
  BY <1>2, ZenonT(30) DEF Same, SameSend, SameRecv, SameWrite, SameOpen, SameEnd,
              muxVars, openVars, endVars, sendVars, recvVars, writeVars
<1>6. WriterOK(p, s)' /\ (Finished(p, s) => Finished(p, s)')
  BY <1>1, <1>2, Zenon DEF StateOK, WriterOK, Fragment, Finished, endVars, writeVars
<1> QED
  BY <1>2, <1>4, <1>5, <1>6, QuietInv, Zenon DEF writeVars

\* ... a call of Close, ...
LEMMA CloseInv ==
    ASSUME IInv, NEW p \in Peers, NEW s \in Ids, Close(p, s)
    PROVE  IInv'
<1>1. /\ TypeOK /\ StateOK(p, s, Other(p))
      /\ Control("RESET", s) \in Frame /\ Control("RESET", s).kind = "RESET"
      /\ Control("RESET", s).id = s
  BY ControlFrame, Zenon DEF IInv, Kinds
<1>2. /\ UNCHANGED <<cause, nextID, streams, incoming, net, phase, accepted, isOpen, remoteClosed,
                     failed, sendVars, recvVars, left, chunk, reading, grant, violated>>
      /\ s \notin localClosed[p] /\ BroadcastWrite(p, s)
  BY Zenon DEF Close, muxVars, openVars, readVars
<1>3. /\ localClosed' \in Sets /\ Flips(localClosed, localClosed', p, s) /\ s \in localClosed'[p]
      /\ ender' \in Enders /\ Updates(ender, ender', p, s, "close")
  BY <1>1, AddStep, EnderStep, Zenon DEF Close, TypeOK
<1>4. /\ writer' \in Writers /\ Woken(p, s)
      /\ \A a \in Peers, t \in Ids : a # p \/ t # s => writer'[a][t] = writer[a][t]
  BY <1>1, <1>2, WakeEffect, Zenon
<1>5. TypeOK'
  BY <1>1, <1>2, <1>3, <1>4, Zenon DEF TypeOK, sendVars, recvVars
<1>6. \A a \in Peers, t \in Ids : a # p \/ t # s => Same(a, t)
  <2> SUFFICES ASSUME NEW a \in Peers, NEW t \in Ids, a # p \/ t # s
               PROVE  Same(a, t)
    BY Zenon
  <2>1. SameSend(a, t)
    BY <1>2, <1>3, <1>4, Zenon DEF SameSend, Updates, Flips, sendVars
  <2>2. SameRecv(a, t)
    BY <1>2, <1>3, <1>4, Zenon DEF SameRecv, Updates, Flips, recvVars
  <2>3. SameWrite(a, t)
    BY <1>2, <1>3, <1>4, Zenon DEF SameWrite, Updates, Flips
  <2>4. SameOpen(a, t)
    BY <1>2, <1>3, <1>4, Zenon DEF SameOpen, Updates, Flips
  <2>5. SameEnd(a, t)
    BY <1>2, <1>3, <1>4, Zenon DEF SameEnd, Updates, Flips
  <2> QED
    BY <2>1, <2>2, <2>3, <2>4, <2>5, Zenon DEF Same
<1>7. /\ WriterOK(p, s)' /\ (Finished(p, s) => Finished(p, s)') /\ Raised(p, s)
  BY <1>1, <1>2, <1>3, <1>4, WriterSame, Zenon DEF StateOK, Finished, Raised
<1>8. /\ ender'[p][s] = "close"
      /\ s \in failed'[p] => s \in remoteClosed'[p]
  BY <1>1, <1>2, <1>3, Zenon DEF Updates, StateOK, Ending
<1> QED
  BY <1>1, <1>2, <1>3, <1>5, <1>6, <1>7, <1>8, OwnInv, Zenon

\* ... and a call of Reset.
LEMMA ResetInv ==
    ASSUME IInv, NEW p \in Peers, NEW s \in Ids, Reset(p, s)
    PROVE  IInv'
<1>1. /\ TypeOK /\ StateOK(p, s, Other(p))
      /\ Control("RESET", s) \in Frame /\ Control("RESET", s).kind = "RESET"
      /\ Control("RESET", s).id = s
  BY ControlFrame, Zenon DEF IInv, Kinds
<1>2. /\ UNCHANGED <<cause, nextID, streams, incoming, net, phase, accepted, isOpen, sendVars,
                     recvVars, left, chunk, grant, violated>>
      /\ s \notin localClosed[p] /\ RemoteCloseError(p, s)
  BY Zenon DEF Reset, muxVars, openVars
<1>3. /\ localClosed' \in Sets /\ Flips(localClosed, localClosed', p, s) /\ s \in localClosed'[p]
      /\ ender' \in Enders /\ Updates(ender, ender', p, s, "reset")
  BY <1>1, AddStep, EnderStep, Zenon DEF Reset, TypeOK
<1>4. /\ remoteClosed' \in Sets /\ failed' \in Sets /\ reading' \in Sets
      /\ s \in remoteClosed'[p] /\ s \in failed'[p]
      /\ Flips(remoteClosed, remoteClosed', p, s) /\ Flips(failed, failed', p, s)
      /\ BroadcastWrite(p, s)
  BY <1>1, <1>2, FailEffect, Zenon
<1>5. /\ writer' \in Writers /\ Woken(p, s)
      /\ \A a \in Peers, t \in Ids : a # p \/ t # s => writer'[a][t] = writer[a][t]
  BY <1>1, <1>4, WakeEffect, Zenon
<1>6. TypeOK'
  BY <1>1, <1>2, <1>3, <1>4, <1>5, Zenon DEF TypeOK, sendVars, recvVars
<1>7. \A a \in Peers, t \in Ids : a # p \/ t # s => Same(a, t)
  <2> SUFFICES ASSUME NEW a \in Peers, NEW t \in Ids, a # p \/ t # s
               PROVE  Same(a, t)
    BY Zenon
  <2>1. SameSend(a, t)
    BY <1>2, <1>3, <1>4, <1>5, Zenon DEF SameSend, Updates, Flips, sendVars
  <2>2. SameRecv(a, t)
    BY <1>2, <1>3, <1>4, <1>5, Zenon DEF SameRecv, Updates, Flips, recvVars
  <2>3. SameWrite(a, t)
    BY <1>2, <1>3, <1>4, <1>5, Zenon DEF SameWrite, Updates, Flips
  <2>4. SameOpen(a, t)
    BY <1>2, <1>3, <1>4, <1>5, Zenon DEF SameOpen, Updates, Flips
  <2>5. SameEnd(a, t)
    BY <1>2, <1>3, <1>4, <1>5, Zenon DEF SameEnd, Updates, Flips
  <2> QED
    BY <2>1, <2>2, <2>3, <2>4, <2>5, Zenon DEF Same
<1>8. /\ WriterOK(p, s)' /\ (Finished(p, s) => Finished(p, s)') /\ Raised(p, s)
  BY <1>1, <1>2, <1>3, <1>4, <1>5, WriterSame, Zenon DEF StateOK, Finished, Raised
<1> QED
  BY <1>1, <1>2, <1>3, <1>4, <1>6, <1>7, <1>8, OwnInv, Zenon

\* Close sends CLOSE only after the last DATA, since writes are serialised with it (writeMu).
LEMMA SendCloseInv ==
    ASSUME IInv, NEW p \in Peers, NEW s \in Ids, SendClose(p, s)
    PROVE  IInv'
<1>1. /\ TypeOK /\ StateOK(p, s, Other(p))
      /\ Control("CLOSE", s) \in Frame /\ Control("CLOSE", s).kind = "CLOSE"
      /\ Control("CLOSE", s).id = s
  BY ControlFrame, Zenon DEF IInv, Kinds
<1>2. /\ UNCHANGED <<cause, nextID, streams, incoming, phase, accepted, isOpen, endVars, sendVars,
                     recvVars, writer, left, chunk, reading, grant, violated>>
      /\ writer[p][s] = "idle" /\ ender[p][s] = "close" /\ Send(p, Control("CLOSE", s))
  BY Zenon DEF SendClose, muxVars, openVars, readVars, writeVars
<1>3. ender' \in Enders /\ Updates(ender, ender', p, s, "closed")
  BY <1>1, EnderStep, Zenon DEF SendClose, TypeOK
<1>4. net' \in [Peers -> Seq(Frame)]
  BY <1>1, <1>2, SendChannel, Zenon
<1>5. TypeOK'
  BY <1>1, <1>2, <1>3, <1>4, Zenon DEF TypeOK, sendVars, recvVars, endVars
<1>6. \A a \in Peers, t \in Ids : a # p \/ t # s => Same(a, t)
  <2> SUFFICES ASSUME NEW a \in Peers, NEW t \in Ids, a # p \/ t # s
               PROVE  Same(a, t)
    BY Zenon
  <2>1. SameSend(a, t)
    BY <1>2, <1>3, Zenon DEF SameSend, Updates, sendVars
  <2>2. SameRecv(a, t)
    BY <1>2, <1>3, Zenon DEF SameRecv, Updates, recvVars
  <2>3. SameWrite(a, t)
    BY <1>2, <1>3, Zenon DEF SameWrite, Updates
  <2>4. SameOpen(a, t)
    BY <1>2, <1>3, Zenon DEF SameOpen, Updates
  <2>5. SameEnd(a, t)
    BY <1>2, <1>3, Zenon DEF SameEnd, Updates, endVars
  <2> QED
    BY <2>1, <2>2, <2>3, <2>4, <2>5, Zenon DEF Same
<1>7. /\ WriterOK(p, s)' /\ Finished(p, s)' /\ Raised(p, s)
      /\ ender'[p][s] = "closed" /\ s \in localClosed'[p]
      /\ s \in failed'[p] => s \in remoteClosed'[p]
      /\ s \in remoteClosed'[p] => s \in remoteClosed[p]
  BY <1>1, <1>2, <1>3, Zenon DEF StateOK, WriterOK, Ending, Fragment, Finished, Raised, Updates, endVars
<1> QED
  BY <1>1, <1>2, <1>5, <1>6, <1>7, OwnInv, Zenon

\* Reset sends RESET.
LEMMA SendResetInv ==
    ASSUME IInv, NEW p \in Peers, NEW s \in Ids, SendReset(p, s)
    PROVE  IInv'
<1>1. /\ TypeOK /\ StateOK(p, s, Other(p))
      /\ Control("RESET", s) \in Frame /\ Control("RESET", s).kind = "RESET"
      /\ Control("RESET", s).id = s
  BY ControlFrame, Zenon DEF IInv, Kinds
<1>2. /\ UNCHANGED <<cause, nextID, streams, incoming, phase, accepted, isOpen, endVars, sendVars,
                     recvVars, writer, left, chunk, reading, grant, violated>>
      /\ ender[p][s] = "reset" /\ Send(p, Control("RESET", s))
  BY Zenon DEF SendReset, muxVars, openVars, readVars, writeVars
<1>3. ender' \in Enders /\ Updates(ender, ender', p, s, "aborted")
  BY <1>1, EnderStep, Zenon DEF SendReset, TypeOK
<1>4. net' \in [Peers -> Seq(Frame)]
  BY <1>1, <1>2, SendChannel, Zenon
<1>5. TypeOK'
  BY <1>1, <1>2, <1>3, <1>4, Zenon DEF TypeOK, sendVars, recvVars, endVars
<1>6. \A a \in Peers, t \in Ids : a # p \/ t # s => Same(a, t)
  <2> SUFFICES ASSUME NEW a \in Peers, NEW t \in Ids, a # p \/ t # s
               PROVE  Same(a, t)
    BY Zenon
  <2>1. SameSend(a, t)
    BY <1>2, <1>3, Zenon DEF SameSend, Updates, sendVars
  <2>2. SameRecv(a, t)
    BY <1>2, <1>3, Zenon DEF SameRecv, Updates, recvVars
  <2>3. SameWrite(a, t)
    BY <1>2, <1>3, Zenon DEF SameWrite, Updates
  <2>4. SameOpen(a, t)
    BY <1>2, <1>3, Zenon DEF SameOpen, Updates
  <2>5. SameEnd(a, t)
    BY <1>2, <1>3, Zenon DEF SameEnd, Updates, endVars
  <2> QED
    BY <2>1, <2>2, <2>3, <2>4, <2>5, Zenon DEF Same
<1>7. /\ WriterOK(p, s)' /\ (Finished(p, s) => Finished(p, s)') /\ Raised(p, s)
      /\ s \in localClosed'[p] /\ s \in failed'[p] /\ s \in remoteClosed'[p]
  BY <1>1, <1>2, <1>3, Zenon DEF StateOK, WriterOK, Ending, Fragment, Finished, Raised, Updates, endVars
<1> QED
  BY <1>1, <1>2, <1>5, <1>6, <1>7, OwnInv, Zenon

\* Close removes a stream that is closed in both directions.
LEMMA CloseRemoveInv ==
    ASSUME IInv, NEW p \in Peers, NEW s \in Ids, CloseRemove(p, s)
    PROVE  IInv'
<1>1. /\ TypeOK /\ StateOK(p, s, Other(p))
      /\ Control("RESET", s) \in Frame /\ Control("RESET", s).kind = "RESET"
      /\ Control("RESET", s).id = s
  BY ControlFrame, Zenon DEF IInv, Kinds
<1>2. /\ UNCHANGED <<cause, nextID, incoming, net, phase, accepted, isOpen, endVars, sendVars,
                     recvVars, writer, left, chunk, reading, grant, violated>>
      /\ ender[p][s] = "closed" /\ MaybeRemove(p, s)
  BY Zenon DEF CloseRemove, openVars, readVars, writeVars
<1>3. ender' \in Enders /\ Updates(ender, ender', p, s, "done")
  BY <1>1, EnderStep, Zenon DEF CloseRemove, TypeOK
<1>4. /\ streams' \in Sets /\ Flips(streams, streams', p, s)
      /\ \A a \in Peers : streams'[a] \subseteq streams[a]
      /\ s \notin streams[p] \/ s \in streams'[p] \/ (Shut(p, s)' /\ s \in remoteClosed'[p])
  <2>1. CASE streams' = streams
    BY <1>1, <2>1, Zenon DEF TypeOK, Flips
  <2>2. CASE streams' = Remove(streams, p, s) /\ s \in localClosed'[p] /\ s \in remoteClosed'[p]
    <3>1. \A a \in Peers : Remove(streams, p, s)[a] \subseteq streams[a]
      BY <1>1, Zenon DEF TypeOK, Sets, Remove
    <3> QED
      BY <1>1, <2>2, <3>1, RemoveStep, Zenon DEF TypeOK, Shut
  <2> QED
    BY <1>2, <2>1, <2>2, Zenon DEF MaybeRemove
<1>5. TypeOK'
  BY <1>1, <1>2, <1>3, <1>4, Zenon DEF TypeOK, sendVars, recvVars, endVars
<1>6. \A a \in Peers, t \in Ids : a # p \/ t # s => Same(a, t)
  <2> SUFFICES ASSUME NEW a \in Peers, NEW t \in Ids, a # p \/ t # s
               PROVE  Same(a, t)
    BY Zenon
  <2>1. SameSend(a, t)
    BY <1>2, <1>3, <1>4, Zenon DEF SameSend, Updates, Flips, sendVars
  <2>2. SameRecv(a, t)
    BY <1>2, <1>3, <1>4, Zenon DEF SameRecv, Updates, Flips, recvVars
  <2>3. SameWrite(a, t)
    BY <1>2, <1>3, <1>4, Zenon DEF SameWrite, Updates, Flips
  <2>4. SameOpen(a, t)
    BY <1>2, <1>3, <1>4, Zenon DEF SameOpen, Updates, Flips
  <2>5. SameEnd(a, t)
    BY <1>2, <1>3, <1>4, Zenon DEF SameEnd, Updates, Flips, endVars
  <2> QED
    BY <2>1, <2>2, <2>3, <2>4, <2>5, Zenon DEF Same
<1>7. /\ WriterOK(p, s)' /\ (Finished(p, s) => Finished(p, s)') /\ Raised(p, s)
      /\ ender'[p][s] = "done" /\ s \in localClosed'[p]
      /\ s \in failed'[p] => s \in remoteClosed'[p]
      /\ s \in remoteClosed'[p] => s \in remoteClosed[p]
  BY <1>1, <1>2, <1>3, Zenon DEF StateOK, WriterOK, Ending, Fragment, Finished, Raised, Updates, endVars
<1> QED
  BY <1>1, <1>2, <1>4, <1>5, <1>6, <1>7, OwnInv, Zenon

\* Reset removes the stream.
LEMMA ResetRemoveInv ==
    ASSUME IInv, NEW p \in Peers, NEW s \in Ids, ResetRemove(p, s)
    PROVE  IInv'
<1>1. /\ TypeOK /\ StateOK(p, s, Other(p))
      /\ Control("RESET", s) \in Frame /\ Control("RESET", s).kind = "RESET"
      /\ Control("RESET", s).id = s
  BY ControlFrame, Zenon DEF IInv, Kinds
<1>2. /\ UNCHANGED <<cause, nextID, incoming, net, phase, accepted, isOpen, endVars, sendVars,
                     recvVars, writer, left, chunk, reading, grant, violated>>
      /\ ender[p][s] = "aborted" /\ RemoveStream(p, s)
  BY Zenon DEF ResetRemove, openVars, readVars, writeVars
<1>3. ender' \in Enders /\ Updates(ender, ender', p, s, "done")
  BY <1>1, EnderStep, Zenon DEF ResetRemove, TypeOK
<1>4. /\ streams' \in Sets /\ Flips(streams, streams', p, s)
      /\ \A a \in Peers : streams'[a] \subseteq streams[a]
  <2>1. \A a \in Peers : Remove(streams, p, s)[a] \subseteq streams[a]
    BY <1>1, Zenon DEF TypeOK, Sets, Remove
  <2> QED
    BY <1>1, <1>2, <2>1, RemoveEffect, Zenon DEF RemoveStream
<1>5. TypeOK'
  BY <1>1, <1>2, <1>3, <1>4, Zenon DEF TypeOK, sendVars, recvVars, endVars
<1>6. \A a \in Peers, t \in Ids : a # p \/ t # s => Same(a, t)
  <2> SUFFICES ASSUME NEW a \in Peers, NEW t \in Ids, a # p \/ t # s
               PROVE  Same(a, t)
    BY Zenon
  <2>1. SameSend(a, t)
    BY <1>2, <1>3, <1>4, Zenon DEF SameSend, Updates, Flips, sendVars
  <2>2. SameRecv(a, t)
    BY <1>2, <1>3, <1>4, Zenon DEF SameRecv, Updates, Flips, recvVars
  <2>3. SameWrite(a, t)
    BY <1>2, <1>3, <1>4, Zenon DEF SameWrite, Updates, Flips
  <2>4. SameOpen(a, t)
    BY <1>2, <1>3, <1>4, Zenon DEF SameOpen, Updates, Flips
  <2>5. SameEnd(a, t)
    BY <1>2, <1>3, <1>4, Zenon DEF SameEnd, Updates, Flips, endVars
  <2> QED
    BY <2>1, <2>2, <2>3, <2>4, <2>5, Zenon DEF Same
<1>7. /\ WriterOK(p, s)' /\ (Finished(p, s) => Finished(p, s)') /\ Raised(p, s) /\ Shut(p, s)'
      /\ s \in localClosed'[p] /\ s \in failed'[p] /\ s \in remoteClosed'[p]
  BY <1>1, <1>2, <1>3, Zenon DEF StateOK, WriterOK, Ending, Fragment, Finished, Raised, Updates, Shut, endVars
<1> QED
  BY <1>1, <1>2, <1>4, <1>5, <1>6, <1>7, OwnInv, Zenon

-----------------------------------------------------------------------------
(* The reader grants credit *)

\* More may be granted or sent than a channel carries.
LEMMA WithinMore ==
    ASSUME NEW fs \in Chan, NEW k \in Kinds, NEW s \in Ids, NEW lo \in Nat, NEW hi \in Nat,
           NEW more \in Nat, hi <= more, Within(fs, k, s, lo, hi)
    PROVE  Within(fs, k, s, lo, more)
<1>1. \A i \in Of(fs, k, s) : fs[i].to \in Nat
  BY OfFrames, Zenon DEF Frame
<1> QED
  BY <1>1 DEF Within

\* A step of Read: it takes bytes, books credit or sends it.
LEMMA ReaderInv ==
    ASSUME IInv, TypeOK', NEW p \in Peers, NEW s \in Ids,
           UNCHANGED <<muxVars, openVars, endVars, sendVars, writeVars, windowAdvertised, delivered,
                       ender, violated>>,
           \A a \in Peers, t \in Ids : a # p \/ t # s => Same(a, t),
           \A a \in Peers, k \in Kinds, t \in Ids :
               a # p \/ k # "WINDOW" \/ t # s => Keeps(net[a], net'[a], 0, k, t),
           \A a \in Peers : ~Up(a) => net'[Other(a)] = net[Other(a)],
           Ledger(Other(p), s, p)', Handshake(p, s, Other(p))', CreditOK(p, s, Other(p))'
    PROVE  IInv'
<1> DEFINE q == Other(p)
<1>1. /\ TypeOK /\ q \in Peers /\ q # p /\ Other(q) = p
      /\ StateOK(p, s, q) /\ TransitOK(p, s, q) /\ StateOK(q, s, p) /\ TransitOK(q, s, p)
  BY OtherPeer, Zenon DEF IInv
<1> HIDE DEF q
<1>2. /\ SameSend(q, s) /\ SameRecv(q, s) /\ SameWrite(q, s) /\ SameOpen(q, s)
      /\ SameEnd(q, s) /\ SameSend(p, s) /\ SameOpen(p, s) /\ SameEnd(p, s)
      /\ Raised(q, s) /\ Woken(q, s) /\ Raised(p, s) /\ Woken(p, s)
  BY <1>1, Zenon DEF Same, SameSend, SameRecv, SameEnd, SameWrite, SameOpen, Raised, Woken,
              sendVars, openVars, endVars, muxVars, writeVars
<1>3. /\ phase' = phase /\ delivered' = delivered /\ sent' = sent /\ nextID' = nextID
      /\ chunk' = chunk /\ left' = left /\ cause' = cause
      /\ \A a \in Peers : Finished(a, s) => Finished(a, s)'
  BY Zenon DEF openVars, sendVars, muxVars, writeVars, endVars, Finished
<1>4. /\ Issued(q, s)' = Issued(q, s)
      /\ Credited(p, s)' = Credited(p, s) /\ Credited(q, s)' = Credited(q, s)
  BY <1>2, <1>3, Zenon DEF Issued, Granted, Credited, SameRecv, sendVars
<1>5. s \in remoteClosed'[p] => s \in remoteClosed[p]
  BY <1>2, Zenon DEF SameEnd
<1>6. StateOK(p, s, q)'
  <2>1. Ledger(p, s, q)' /\ WriterOK(p, s)'
    BY <1>1, <1>2, <1>3, <1>4, LedgerSame, WriterSame, Zenon DEF StateOK
  <2>2. Ending(p, s, q)'
    BY <1>1, <1>2, <1>3, EndingSame, Zenon DEF StateOK, SameEnd
  <2> QED
    BY <2>1, <2>2, Zenon DEF StateOK, q
<1>7. StateOK(q, s, p)'
  <2>1. WriterOK(q, s)' /\ Ending(q, s, p)'
    BY <1>1, <1>2, <1>3, <1>5, WriterSame, EndingSame, Zenon DEF StateOK
  <2>2. Handshake(q, s, p)'
    BY <1>1, <1>2, <1>3, HandshakeSame, Zenon DEF Advances, StateOK
  <2> QED
    BY <2>1, <2>2, Zenon DEF StateOK, q
<1>8. TransitOK(p, s, q)'
  <2>1. \A k \in {"DATA", "OPEN", "ACCEPT", "CLOSE"} : Keeps(net[p], net'[p], 0, k, s)
    BY <1>1, Zenon DEF Kinds
  <2> QED
    BY <1>1, <1>2, <1>3, <2>1, DataSame, OpenSame, CloseSame, Zenon DEF TransitOK, q
<1>9. TransitOK(q, s, p)'
  <2>1. \A k \in Kinds \ {"RESET"} : Keeps(net[q], net'[q], 0, k, s)
    BY <1>1, Zenon
  <2> QED
    BY <1>1, <1>2, <1>3, <1>4, <2>1, KeepTransit, Zenon
<1>10. \A a \in Peers : PeerOK(a, Other(a))' /\ Advances(a)
  BY <1>3, StillPeers, Zenon DEF muxVars
<1>11. FlowConforms'
  BY Zenon DEF IInv, FlowConforms
<1>12. \A a \in Peers, t \in Ids \ {s} : \E d \in {0, 1} : \A k \in Kinds : Keeps(net[a], net'[a], d, k, t)
  BY Zenon
<1> QED
  BY <1>3, <1>6, <1>7, <1>8, <1>9, <1>10, <1>11, <1>12, StepInv DEF OneStream, q

\* What Read may take, and the credit it may book for it
LEMMA ReadFacts ==
    ASSUME IInv, NEW p \in Peers, NEW s \in Ids, NEW n \in 1..Window[p], CanRead(p, s, n)
    PROVE  /\ n \in Nat /\ n > 0 /\ s \in windowAdvertised[p] /\ phase[p][s] = "open"
           /\ consumed[p][s] + n <= delivered[p][s] /\ grant[p][s] = 0
           /\ Granted(p, s) + pendingWindow[p][s] <= Window[p] + consumed[p][s]
           /\ recvCredit[p][s] + pendingWindow[p][s] + n <= Window[p]
<1>0. Other(p) \in Peers /\ Other(Other(p)) = p
  BY OtherPeer, Zenon
<1>1. TypeOK /\ Ledger(Other(p), s, p) /\ n \in Nat /\ n > 0 /\ Window[p] \in Nat
  BY <1>0, Sizes DEF IInv, StateOK
<1>2. consumed[p][s] + n <= delivered[p][s] /\ phase[p][s] = "open" /\ grant[p][s] = 0
  BY <1>1, Numbers DEF CanRead, Buffered
<1>3. s \in windowAdvertised[p]
  BY <1>1, <1>2, Numbers DEF Ledger, Granted
<1>4. Granted(p, s) + pendingWindow[p][s] <= Window[p] + consumed[p][s]
  BY <1>1, <1>3, Zenon DEF Ledger
<1> QED
  BY <1>1, <1>2, <1>3, <1>4, Numbers DEF Granted

\* Read below the threshold keeps IInv.
LEMMA ReadQuietInv ==
    ASSUME IInv, NEW p \in Peers, NEW s \in Ids, NEW n \in 1..Window[p], ReadQuiet(p, s, n)
    PROVE  IInv'
<1> DEFINE q == Other(p)
<1>1. /\ TypeOK /\ q \in Peers /\ Other(q) = p /\ StateOK(p, s, q) /\ StateOK(q, s, p)
      /\ TransitOK(p, s, q)
  BY OtherPeer, Zenon DEF IInv
<1> HIDE DEF q
<1>2. /\ n \in Nat /\ n > 0 /\ s \in windowAdvertised[p] /\ phase[p][s] = "open"
      /\ consumed[p][s] + n <= delivered[p][s]
      /\ consumed[p][s] + n \in Nat /\ pendingWindow[p][s] + n \in Nat
  BY <1>1, ReadFacts, Numbers DEF ReadQuiet
<1>3. UNCHANGED <<muxVars, net, openVars, endVars, sendVars, windowAdvertised, recvCredit,
                  delivered, writeVars, readVars, ender, violated>>
  BY Zenon DEF ReadQuiet
<1>4. /\ consumed' \in Counters /\ Updates(consumed, consumed', p, s, consumed[p][s] + n)
  BY <1>1, <1>2, CounterStep, Zenon DEF ReadQuiet, TypeOK
<1>5. /\ pendingWindow' \in Counters
      /\ Updates(pendingWindow, pendingWindow', p, s,
                 IF s \in remoteClosed[p] THEN pendingWindow[p][s] ELSE pendingWindow[p][s] + n)
  <2>1. CASE s \in remoteClosed[p]
    BY <1>1, <2>1, Zenon DEF ReadQuiet, TypeOK, Updates
  <2>2. CASE s \notin remoteClosed[p]
    BY <1>1, <1>2, <2>2, CounterStep, Zenon DEF ReadQuiet, TypeOK
  <2> QED
    BY <2>1, <2>2, Zenon
<1>6. TypeOK'
  BY <1>1, <1>3, <1>4, <1>5, Zenon DEF TypeOK, muxVars, openVars, endVars, sendVars, writeVars, readVars
<1>7. \A a \in Peers, t \in Ids : a # p \/ t # s => Same(a, t)
  <2> SUFFICES ASSUME NEW a \in Peers, NEW t \in Ids, a # p \/ t # s
               PROVE  Same(a, t)
    BY Zenon
  <2>1. SameSend(a, t)
    BY <1>3, <1>4, <1>5, Zenon DEF SameSend, Updates, sendVars
  <2>2. SameRecv(a, t)
    BY <1>3, <1>4, <1>5, Zenon DEF SameRecv, Updates, readVars
  <2>3. SameWrite(a, t)
    BY <1>3, <1>4, <1>5, Zenon DEF SameWrite, Updates, writeVars
  <2>4. SameOpen(a, t)
    BY <1>3, <1>4, <1>5, Zenon DEF SameOpen, Updates, muxVars, openVars
  <2>5. SameEnd(a, t)
    BY <1>3, <1>4, <1>5, Zenon DEF SameEnd, Updates, endVars
  <2> QED
    BY <2>1, <2>2, <2>3, <2>4, <2>5, Zenon DEF Same
<1>8. Issued(p, s)' = Issued(p, s) /\ Granted(p, s)' = Granted(p, s) /\ Credited(q, s)' = Credited(q, s)
  BY <1>3, Zenon DEF Issued, Granted, Credited, openVars, readVars, sendVars
<1>9. Ledger(q, s, p)'
  <2>1. /\ Ledger(q, s, p) /\ sent' = sent /\ chunk' = chunk /\ delivered' = delivered
        /\ windowAdvertised' = windowAdvertised /\ remoteClosed' = remoteClosed
        /\ peerWindowSet' = peerWindowSet /\ peerWindow' = peerWindow
    BY <1>1, <1>3, Zenon DEF StateOK, sendVars, writeVars, endVars
  <2>2. /\ consumed[p][s] \in Nat /\ pendingWindow[p][s] \in Nat /\ Granted(p, s) \in Nat
        /\ Window[p] \in Nat
    BY <1>1, Numbers, Sizes DEF Granted
  <2>3. /\ consumed'[p][s] = consumed[p][s] + n
        /\ pendingWindow'[p][s] = IF s \in remoteClosed[p] THEN pendingWindow[p][s]
                                  ELSE pendingWindow[p][s] + n
    BY <1>4, <1>5, Zenon DEF Updates
  <2> HIDE DEF Granted
  <2>4. /\ Granted(p, s)' + pendingWindow'[p][s] <= Window[p] + consumed'[p][s]
        /\ \/ s \in remoteClosed'[p]
           \/ Granted(p, s)' + pendingWindow'[p][s] = Window[p] + consumed'[p][s]
    BY <1>2, <1>8, <2>1, <2>2, <2>3 DEF Ledger
  <2> QED
    BY <1>2, <1>8, <2>1, <2>3, <2>4, Zenon DEF Ledger
<1>10. Handshake(p, s, q)'
  <2>1. consumed'[p][s] > 0
    BY <1>1, <1>2, <1>4, Numbers DEF Updates
  <2> QED
    BY <1>1, <1>2, <1>3, <2>1, Zenon
       DEF StateOK, Handshake, Shut, PeerOwns, muxVars, openVars, endVars, readVars
<1>11. \A a \in Peers, k \in Kinds, t \in Ids : Keeps(net[a], net'[a], 0, k, t)
  BY <1>1, <1>3, StillChannel, Zenon
<1>12. CreditOK(p, s, q)'
  BY <1>1, <1>3, <1>6, <1>8, <1>11, CreditSame, Zenon DEF TransitOK, Raised, endVars, muxVars, Kinds
<1> QED
  BY <1>3, <1>6, <1>7, <1>9, <1>10, <1>11, <1>12, ReaderInv, Zenon DEF q

\* Read that reaches the threshold turns what was read into credit.
LEMMA ReadGrantInv ==
    ASSUME IInv, NEW p \in Peers, NEW s \in Ids, NEW n \in 1..Window[p], ReadGrant(p, s, n)
    PROVE  IInv'
<1> DEFINE q == Other(p)
           credit == pendingWindow[p][s] + n
<1>1. /\ TypeOK /\ q \in Peers /\ Other(q) = p /\ StateOK(p, s, q) /\ StateOK(q, s, p)
      /\ TransitOK(p, s, q)
  BY OtherPeer, Zenon DEF IInv
<1>2. /\ n \in Nat /\ n > 0 /\ s \in windowAdvertised[p] /\ phase[p][s] = "open"
      /\ consumed[p][s] + n <= delivered[p][s] /\ grant[p][s] = 0
      /\ recvCredit[p][s] + credit <= Window[p]
      /\ consumed[p][s] + n \in Nat /\ credit \in Nat /\ recvCredit[p][s] + credit \in Nat
  BY <1>1, ReadFacts, Numbers DEF ReadGrant
<1>3. /\ UNCHANGED <<muxVars, net, openVars, endVars, sendVars, windowAdvertised, delivered,
                     writeVars, reading, ender, violated>>
      /\ s \notin remoteClosed[p]
      /\ consumed' = [consumed EXCEPT ![p][s] = consumed[p][s] + n]
      /\ pendingWindow' = [pendingWindow EXCEPT ![p][s] = 0]
      /\ recvCredit' = [recvCredit EXCEPT ![p][s] = recvCredit[p][s] + credit]
      /\ grant' = [grant EXCEPT ![p][s] = credit]
  <2>1. ~(recvCredit[p][s] + credit > Window[p])
    BY SMTT(30), <1>1, <1>2, Numbers, Sizes
  <2> QED
    BY <2>1, Zenon DEF ReadGrant
<1>4. /\ consumed' \in Counters /\ Updates(consumed, consumed', p, s, consumed[p][s] + n)
      /\ pendingWindow' \in Counters /\ Updates(pendingWindow, pendingWindow', p, s, 0)
      /\ recvCredit' \in Counters /\ Updates(recvCredit, recvCredit', p, s, recvCredit[p][s] + credit)
      /\ grant' \in Counters /\ Updates(grant, grant', p, s, credit)
  <2>1. /\ consumed \in Counters /\ pendingWindow \in Counters /\ recvCredit \in Counters
        /\ grant \in Counters
    BY <1>1, Zenon DEF TypeOK
  <2>2. consumed' \in Counters /\ Updates(consumed, consumed', p, s, consumed[p][s] + n)
    BY <1>2, <1>3, <2>1, CounterStep, Zenon
  <2>3. pendingWindow' \in Counters /\ Updates(pendingWindow, pendingWindow', p, s, 0)
    BY <1>3, <2>1, CounterStep, Zenon
  <2>4. /\ recvCredit' \in Counters
        /\ Updates(recvCredit, recvCredit', p, s, recvCredit[p][s] + credit)
    BY <1>2, <1>3, <2>1, CounterStep, Zenon
  <2>5. grant' \in Counters /\ Updates(grant, grant', p, s, credit)
    BY <1>2, <1>3, <2>1, CounterStep, Zenon
  <2> QED
    BY <2>2, <2>3, <2>4, <2>5, Zenon
<1>5. TypeOK'
  BY <1>1, <1>3, <1>4, Zenon DEF TypeOK, muxVars, openVars, endVars, sendVars, writeVars
<1>6. \A a \in Peers, t \in Ids : a # p \/ t # s => Same(a, t)
  <2> SUFFICES ASSUME NEW a \in Peers, NEW t \in Ids, a # p \/ t # s
               PROVE  Same(a, t)
    BY Zenon
  <2>1. SameSend(a, t)
    BY <1>3, <1>4, Zenon DEF SameSend, Updates, sendVars
  <2>2. SameRecv(a, t)
    BY <1>3, <1>4, Zenon DEF SameRecv, Updates
  <2>3. SameWrite(a, t)
    BY <1>3, <1>4, Zenon DEF SameWrite, Updates, writeVars
  <2>4. SameOpen(a, t)
    BY <1>3, <1>4, Zenon DEF SameOpen, Updates, muxVars, openVars
  <2>5. SameEnd(a, t)
    BY <1>3, <1>4, Zenon DEF SameEnd, Updates, endVars
  <2> QED
    BY <2>1, <2>2, <2>3, <2>4, <2>5, Zenon DEF Same
<1>7. /\ consumed'[p][s] = consumed[p][s] + n /\ pendingWindow'[p][s] = 0
      /\ recvCredit'[p][s] = recvCredit[p][s] + credit /\ grant'[p][s] = credit
      /\ delivered' = delivered /\ phase' = phase /\ sent' = sent /\ sendCredit' = sendCredit
  BY <1>3, <1>4, Zenon DEF Updates, openVars, sendVars
<1>8. /\ Granted(p, s)' = Granted(p, s) + credit /\ Granted(p, s) \in Nat
      /\ Issued(p, s)' = Issued(p, s) /\ Credited(q, s)' = Credited(q, s)
  BY <1>1, <1>2, <1>7, Numbers DEF Issued, Granted, Credited
<1> HIDE DEF q
<1>9. Ledger(q, s, p)'
  <2>1. /\ Ledger(q, s, p) /\ sent' = sent /\ chunk' = chunk /\ delivered' = delivered
        /\ windowAdvertised' = windowAdvertised /\ remoteClosed' = remoteClosed
        /\ peerWindowSet' = peerWindowSet /\ peerWindow' = peerWindow
    BY <1>1, <1>3, Zenon DEF StateOK, sendVars, writeVars, endVars
  <2>2. /\ consumed[p][s] \in Nat /\ pendingWindow[p][s] \in Nat /\ Window[p] \in Nat
    BY <1>1, Numbers, Sizes, Zenon
  <2>3. Granted(p, s) + pendingWindow[p][s] = Window[p] + consumed[p][s]
    BY <1>2, <1>3, <2>1, Zenon DEF Ledger
  <2>4. Granted(p, s)' + pendingWindow'[p][s] = Window[p] + consumed'[p][s]
    BY SMTT(30), <1>2, <1>7, <1>8, <2>2, <2>3
  <2>5. Window[p] + consumed'[p][s] \in Nat
    BY SMTT(30), <1>2, <1>7, <2>2
  <2> QED
    BY SMTT(30), <1>2, <1>7, <1>8, <2>1, <2>4, <2>5 DEF Ledger
<1>10. Handshake(p, s, q)'
  <2>1. consumed'[p][s] > 0
    BY <1>1, <1>2, <1>7, Numbers
  <2> QED
    BY <1>1, <1>2, <1>3, <2>1, Zenon
       DEF StateOK, Handshake, Shut, PeerOwns, muxVars, openVars, endVars
<1>11. \A a \in Peers, k \in Kinds, t \in Ids : Keeps(net[a], net'[a], 0, k, t)
  BY <1>1, <1>3, StillChannel, Zenon
<1>12. CreditOK(p, s, q)'
  BY <1>1, <1>3, <1>5, <1>8, <1>11, CreditSame, Zenon DEF TransitOK, Raised, endVars, muxVars, Kinds
<1> QED
  BY <1>3, <1>5, <1>6, <1>9, <1>10, <1>11, <1>12, ReaderInv, Zenon DEF q

\* A WINDOW frame.
LEMMA CreditFrame ==
    ASSUME NEW s \in Ids, NEW m \in Nat, NEW n \in Nat
    PROVE  /\ Credit(s, m, n) \in Frame /\ Credit(s, m, n).kind = "WINDOW" /\ Credit(s, m, n).id = s
           /\ Credit(s, m, n).from = m /\ Credit(s, m, n).to = n
  BY DEF Credit, Frame, Kinds

\* A DATA frame.
LEMMA DataFrame ==
    ASSUME NEW s \in Ids, NEW m \in Nat, NEW n \in Nat
    PROVE  /\ Data(s, m, n) \in Frame /\ Data(s, m, n).kind = "DATA" /\ Data(s, m, n).id = s
           /\ Data(s, m, n).from = m /\ Data(s, m, n).to = n
  BY DEF Data, Frame, Kinds

\* WINDOW is queued behind the credit already sent.
LEMMA SentCredit ==
    ASSUME TypeOK, TypeOK', NEW a \in Peers, NEW b \in Peers, b = Other(a), NEW t \in Ids,
           TransitOK(a, t, b), UNCHANGED <<cause, endVars, sendVars>>, NEW m \in Nat, NEW n \in Nat,
           Issued(a, t) = m, Issued(a, t)' = n, m < n, m = 0 => n = Window[a],
           Credited(b, t) <= m, Send(a, Credit(t, m, n))
    PROVE  CreditOK(a, t, b)'
<1> DEFINE f == Credit(t, m, n)
           lo == Credited(b, t)
<1>1. /\ net[a] \in Chan /\ net'[a] \in Chan /\ "WINDOW" \in Kinds
      /\ lo \in Nat /\ Credited(b, t)' = lo /\ (Shut(b, t)' <=> Shut(b, t))
  <2>1. lo \in Nat /\ Credited(b, t)' = lo
    BY Numbers DEF Credited, sendVars
  <2>2. Shut(b, t)' <=> Shut(b, t)
    BY Zenon DEF Shut, endVars
  <2> QED
    BY <2>1, <2>2, Zenon DEF TypeOK, Chan, Kinds
<1>2. f \in Frame /\ f.kind = "WINDOW" /\ f.id = t /\ f.from = m /\ f.to = n
  BY CreditFrame
<1>3. Within(net[a], "WINDOW", t, lo, m)
  BY Zenon DEF TransitOK, CreditOK
<1> HIDE DEF f, lo
<1>4. CASE Up(a) /\ Up(b)
  <2>1. Appends(net[a], f, net'[a])
    BY <1>2, <1>4, SendChannel, Zenon DEF f
  <2>2. Of(net'[a], "WINDOW", t) = Of(net[a], "WINDOW", t) \cup {Len(net[a]) + 1}
    BY <1>1, <1>2, <2>1, AppendOf
  <2>3. \A i \in Of(net'[a], "WINDOW", t) : net'[a][i].from = 0 => net'[a][i].to = Window[a]
    <3>1. net'[a][Len(net[a]) + 1] = f /\ \A i \in Of(net[a], "WINDOW", t) : net'[a][i] = net[a][i]
      BY <1>1, <2>1, OfFrames, Zenon DEF Appends
    <3> QED
      BY <1>2, <2>2, <3>1, Zenon DEF TransitOK, CreditOK
  <2>4. Shut(b, t) \/ (Linked(net[a], "WINDOW", t, lo) /\ Reaches(net[a], "WINDOW", t, lo, m))
    BY <1>4, Zenon DEF TransitOK, CreditOK, lo
  <2>5. /\ Within(net'[a], "WINDOW", t, lo, n)
        /\ Shut(b, t) \/ (Linked(net'[a], "WINDOW", t, lo) /\ Reaches(net'[a], "WINDOW", t, lo, n))
    BY <1>1, <1>2, <1>3, <2>1, <2>4, CarryNext, ZenonT(30) DEF lo
  <2> QED
    BY <1>1, <2>3, <2>5, Zenon DEF CreditOK
<1>5. CASE ~(Up(a) /\ Up(b))
  <2>1. net'[a] = net[a]
    BY <1>2, <1>5, SendChannel, Zenon DEF f
  <2>2. Within(net[a], "WINDOW", t, lo, n)
    BY <1>1, <1>3, WithinMore
  <2> QED
    BY <1>1, <1>5, <2>1, <2>2, Zenon DEF TransitOK, CreditOK, Up, lo
<1> QED
  BY <1>4, <1>5, Zenon

\* Read sends the credit it has granted.
LEMMA SendWindowInv ==
    ASSUME IInv, NEW p \in Peers, NEW s \in Ids, SendWindow(p, s)
    PROVE  IInv'
<1> DEFINE q == Other(p)
<1>1. /\ TypeOK /\ q \in Peers /\ Other(q) = p /\ StateOK(p, s, q) /\ StateOK(q, s, p)
      /\ TransitOK(p, s, q)
  BY OtherPeer, Zenon DEF IInv
<1>2. PICK m \in Nat, n \in Nat : m = Granted(p, s) - grant[p][s] /\ n = Granted(p, s)
  <2>1. Credited(q, s) \in Nat /\ Credited(q, s) <= Issued(p, s) /\ Granted(p, s) \in Nat
        /\ grant[p][s] \in Nat
    BY SMTT(30), <1>1, Numbers DEF StateOK, Ledger, Credited, Granted
  <2>2. Granted(p, s) - grant[p][s] >= 0
    BY SMTT(30), <1>1, <2>1 DEF Issued, StateOK, Handshake
  <2> QED
    BY <2>1, <2>2
<1>3. /\ UNCHANGED <<muxVars, openVars, endVars, sendVars, recvVars, writeVars, reading, ender,
                     violated>>
      /\ grant[p][s] > 0 /\ Send(p, Credit(s, m, n))
      /\ grant' = [grant EXCEPT ![p][s] = 0]
  BY <1>2, Zenon DEF SendWindow
<1>4. grant' \in Counters /\ Updates(grant, grant', p, s, 0)
  BY <1>1, <1>3, CounterStep, Zenon DEF TypeOK
<1>5. Credit(s, m, n) \in Frame /\ Credit(s, m, n).kind = "WINDOW" /\ Credit(s, m, n).id = s
  BY CreditFrame
<1>6. /\ net' \in [Peers -> Seq(Frame)]
      /\ \A a \in Peers, k \in Kinds, t \in Ids :
           a # p \/ k # "WINDOW" \/ t # s => Keeps(net[a], net'[a], 0, k, t)
  BY <1>1, <1>3, <1>5, SendChannel
<1>7. TypeOK'
  BY <1>1, <1>3, <1>4, <1>6, Zenon DEF TypeOK, muxVars, openVars, endVars, sendVars, recvVars, writeVars
<1>8. \A a \in Peers, t \in Ids : a # p \/ t # s => Same(a, t)
  <2> SUFFICES ASSUME NEW a \in Peers, NEW t \in Ids, a # p \/ t # s
               PROVE  Same(a, t)
    BY Zenon
  <2>1. SameSend(a, t)
    BY <1>3, <1>4, Zenon DEF SameSend, Updates, sendVars
  <2>2. SameRecv(a, t)
    BY <1>3, <1>4, Zenon DEF SameRecv, Updates, recvVars
  <2>3. SameWrite(a, t)
    BY <1>3, <1>4, Zenon DEF SameWrite, Updates, writeVars
  <2>4. SameOpen(a, t)
    BY <1>3, <1>4, Zenon DEF SameOpen, Updates, muxVars, openVars
  <2>5. SameEnd(a, t)
    BY <1>3, <1>4, Zenon DEF SameEnd, Updates, endVars
  <2> QED
    BY <2>1, <2>2, <2>3, <2>4, <2>5, Zenon DEF Same
<1>9. \A a \in Peers : ~Up(a) => net'[Other(a)] = net[Other(a)]
  BY <1>1, <1>3, OtherPeer, Zenon DEF Send, TypeOK
<1>10. /\ Issued(p, s) = m /\ Issued(p, s)' = n /\ m < n
       /\ Credited(q, s) <= m /\ Credited(q, s)' = Credited(q, s) /\ m > 0
  <2>1. phase[p][s] # "accepted" /\ phase' = phase
    BY SMTT(30), <1>1, <1>3, Numbers DEF StateOK, Handshake, openVars
  <2>2. Issued(p, s) = m /\ Issued(p, s)' = n /\ m < n
    <3>1. delivered' = delivered /\ recvCredit' = recvCredit /\ grant'[p][s] = 0
      BY <1>3, <1>4, Zenon DEF recvVars, Updates
    <3> QED
      BY <1>1, <1>2, <1>3, <2>1, <3>1, Numbers DEF Issued, Granted
  <2>3. Credited(q, s) <= m /\ Credited(q, s)' = Credited(q, s)
    BY <1>1, <1>3, <2>2, Zenon DEF StateOK, Ledger, Credited, sendVars
  <2>4. Credited(q, s) > 0
    <3>1. consumed[p][s] > 0
      BY <1>1, <1>3, Zenon DEF StateOK, Handshake
    <3>2. consumed[p][s] <= delivered[p][s] /\ delivered[p][s] + chunk[q][s] <= sent[q][s]
      BY <1>1, Zenon DEF StateOK, Ledger
    <3>3. /\ consumed[p][s] \in Nat /\ delivered[p][s] \in Nat /\ chunk[q][s] \in Nat
          /\ sent[q][s] \in Nat /\ sendCredit[q][s] \in Nat
      BY <1>1, Numbers, Zenon
    <3>4. sent[q][s] + sendCredit[q][s] > 0
      BY <3>1, <3>2, <3>3
    <3> QED
      BY <3>4, Zenon DEF Credited
  <2> QED
    BY <1>1, <2>2, <2>3, <2>4, Numbers DEF Credited
<1>11. CreditOK(p, s, q)'
  <2>1. cause' = cause
    BY <1>3, Zenon DEF muxVars
  <2> QED
    BY <1>1, <1>2, <1>3, <1>7, <1>10, <2>1, SentCredit
<1>12. Ledger(q, s, p)'
  <2>1. Granted(p, s)' = Granted(p, s) /\ Issued(p, s)' >= Credited(q, s)'
    <3>1. Credited(q, s) \in Nat
      BY SMTT(30), <1>1, Numbers DEF Credited
    <3> QED
      BY <1>2, <1>3, <1>10, <3>1 DEF Granted, recvVars
  <2>2. UNCHANGED <<consumed, delivered, chunk, sent, windowAdvertised, pendingWindow, remoteClosed,
                    peerWindowSet, peerWindow>>
    BY <1>3, Zenon DEF recvVars, sendVars, endVars, writeVars
  <2> QED
    BY <1>1, <1>10, <2>1, <2>2, Zenon DEF StateOK, Ledger
<1>13. Handshake(p, s, q)'
  BY <1>1, <1>3, <1>4, Zenon DEF StateOK, Handshake, Shut, PeerOwns, Updates,
                          muxVars, openVars, endVars, recvVars
<1> QED
  BY <1>3, <1>6, <1>7, <1>8, <1>9, <1>11, <1>12, <1>13, ReaderInv DEF q, recvVars

-----------------------------------------------------------------------------
(* The writer *)

\* What paying for a chunk does to the counters.
LEMMA Paid ==
    ASSUME NEW x \in Nat, NEW y \in Nat, NEW c \in Nat, c <= y
    PROVE  /\ x + c \in Nat /\ y - c \in Nat
           /\ (x + c) + (y - c) = x + y /\ (x + c) - c = x - 0
           /\ \A d \in Nat : d + 0 <= x => d + c <= x + c
  OBVIOUS

\* A fragment that is handed over is the last part of the bytes booked as sent.
LEMMA Owing ==
    ASSUME NEW x \in Nat, NEW c \in Nat, NEW d \in Nat, c > 0, d + c <= x
    PROVE  x - c \in Nat /\ x - c < x /\ x - (x - c) = c /\ d <= x - c /\ d + 0 <= x /\ x = x - 0
  OBVIOUS

\* The peer never has more credit than it may hold unread.
LEMMA SendCreditFits ==
    ASSUME IInv, NEW p \in Peers, NEW s \in Ids, chunk[p][s] = 0
    PROVE  sendCredit[p][s] <= Window[Other(p)]
<1> DEFINE q == Other(p)
<1>1. TypeOK /\ q \in Peers /\ Ledger(p, s, q)
  BY OtherPeer, Zenon DEF IInv, StateOK
<1>2. /\ sent[p][s] \in Nat /\ sendCredit[p][s] \in Nat /\ delivered[q][s] \in Nat
      /\ recvCredit[q][s] \in Nat /\ pendingWindow[q][s] \in Nat /\ consumed[q][s] \in Nat
      /\ grant[q][s] \in Nat /\ Window[q] \in Nat
  BY <1>1, Numbers, Sizes, Zenon
<1>3. Granted(q, s) \in Nat
  BY <1>2 DEF Granted
<1>4. Issued(q, s) = 0 \/ Issued(q, s) = Granted(q, s) - grant[q][s]
  BY Zenon DEF Issued
<1>5. Granted(q, s) + pendingWindow[q][s] <= Window[q] + consumed[q][s]
  <2>1. CASE s \in windowAdvertised[q]
    BY <1>1, <2>1, Zenon DEF Ledger
  <2>2. CASE s \notin windowAdvertised[q]
    <3>1. Granted(q, s) = 0 /\ pendingWindow[q][s] = 0
      BY <1>1, <2>2, Zenon DEF Ledger
    <3> QED
      BY <1>2, <3>1
  <2> QED
    BY <2>1, <2>2, Zenon
<1>6. /\ sent[p][s] + sendCredit[p][s] <= Issued(q, s)
      /\ consumed[q][s] <= delivered[q][s] /\ delivered[q][s] + 0 <= sent[p][s]
  BY <1>1, Zenon DEF Ledger, Credited
<1> HIDE DEF q
<1> QED
  BY <1>2, <1>3, <1>4, <1>5, <1>6 DEF q

\* A step of Write that takes credit or queues DATA.
LEMMA WriterInv ==
    ASSUME IInv, TypeOK', NEW p \in Peers, NEW s \in Ids,
           UNCHANGED <<muxVars, openVars, endVars, peerWindowSet, peerWindow, recvVars, readVars,
                       ender, violated>>,
           \A a \in Peers, t \in Ids : a # p \/ t # s => Same(a, t),
           \A a \in Peers, k \in Kinds, t \in Ids :
               a # p \/ k # "DATA" \/ t # s => Keeps(net[a], net'[a], 0, k, t),
           \A a \in Peers : ~Up(a) => net'[Other(a)] = net[Other(a)],
           Credited(p, s)' = Credited(p, s), writer[p][s] # "idle",
           Ledger(p, s, Other(p))', WriterOK(p, s)', DataOK(p, s, Other(p))'
    PROVE  IInv'
<1> DEFINE q == Other(p)
<1>0. q \in Peers /\ q # p /\ Other(q) = p
  BY OtherPeer, Zenon
<1>1. /\ TypeOK /\ q \in Peers /\ q # p /\ Other(q) = p
      /\ StateOK(p, s, q) /\ TransitOK(p, s, q) /\ StateOK(q, s, p) /\ TransitOK(q, s, p)
  BY <1>0, Zenon DEF IInv
<1>2. Same(q, s)
  BY <1>1, Zenon
<1> HIDE DEF q
<1>3. /\ SameSend(q, s) /\ SameRecv(q, s) /\ SameWrite(q, s) /\ SameOpen(q, s) /\ SameEnd(q, s)
  BY <1>2, Zenon DEF Same
<1>4. SameRecv(p, s) /\ SameOpen(p, s) /\ SameEnd(p, s)
  BY Zenon DEF SameRecv, SameOpen, SameEnd, muxVars, openVars, endVars, recvVars, readVars
<1>5. Raised(q, s) /\ Woken(q, s) /\ Raised(p, s)
  BY <1>3, <1>4, Zenon DEF SameEnd, SameWrite, Raised, Woken
<1>6. /\ phase' = phase /\ delivered' = delivered /\ nextID' = nextID /\ cause' = cause
      /\ ~Finished(p, s)
  BY Zenon DEF openVars, recvVars, muxVars, Finished
<1>7. /\ sent'[q][s] = sent[q][s] /\ chunk'[q][s] = chunk[q][s] /\ left'[q][s] = left[q][s]
      /\ s \in remoteClosed'[p] => s \in remoteClosed[p]
      /\ s \in remoteClosed'[q] => s \in remoteClosed[q]
      /\ Finished(q, s) => Finished(q, s)'
  BY <1>3, <1>4, Zenon DEF SameSend, SameWrite, SameEnd, Finished
<1>8. /\ Issued(q, s)' = Issued(q, s) /\ Issued(p, s)' = Issued(p, s)
      /\ Credited(q, s)' = Credited(q, s)
  BY <1>3, <1>4, <1>6, Zenon DEF Issued, Granted, Credited, SameRecv, SameSend
<1>9. StateOK(p, s, q)'
  <2>1. Ending(p, s, q)'
    BY <1>1, <1>3, <1>4, <1>6, Zenon DEF StateOK, Ending, SameEnd
  <2>2. Handshake(p, s, q)'
    BY <1>1, <1>4, <1>5, <1>6, HandshakeSame, Zenon DEF StateOK, Advances
  <2> QED
    BY <2>1, <2>2, Zenon DEF StateOK, q
<1>10. StateOK(q, s, p)'
  <2>1. Ledger(q, s, p)' /\ WriterOK(q, s)'
    BY <1>1, <1>3, <1>4, <1>5, <1>7, <1>8, LedgerSame, WriterSame, Zenon DEF StateOK
  <2>2. Handshake(q, s, p)' /\ Ending(q, s, p)'
    BY <1>1, <1>3, <1>5, <1>6, <1>7, HandshakeSame, EndingSame, Zenon DEF StateOK, Advances
  <2> QED
    BY <2>1, <2>2, Zenon DEF StateOK
<1>11. TransitOK(p, s, q)'
  <2>1. \A k \in {"WINDOW", "OPEN", "ACCEPT", "CLOSE"} : Keeps(net[p], net'[p], 0, k, s)
    BY Zenon DEF Kinds
  <2>2. CreditOK(p, s, q)' /\ OpenOK(p, s, q)'
    BY <1>1, <1>5, <1>6, <1>8, <2>1, CreditSame, OpenSame, Zenon DEF TransitOK
  <2>3. CloseOK(p, s, q)'
    <3>1. Of(net[p], "CLOSE", s) = {}
      BY <1>1, <1>6, Zenon DEF TransitOK, CloseOK
    <3> QED
      BY <2>1, <3>1, Zenon DEF CloseOK, Keeps
  <2> QED
    BY <2>2, <2>3, Zenon DEF TransitOK, q
<1>12. TransitOK(q, s, p)'
  <2>1. \A k \in Kinds \ {"RESET"} : Keeps(net[q], net'[q], 0, k, s)
    BY <1>1, Zenon
  <2> QED
    BY <1>1, <1>5, <1>6, <1>7, <1>8, <2>1, KeepTransit, Zenon
<1>13. \A a \in Peers : PeerOK(a, Other(a))' /\ Advances(a)
  BY <1>6, StillPeers, Zenon DEF muxVars
<1>14. FlowConforms'
  BY Zenon DEF IInv, FlowConforms
<1>15. \A a \in Peers, t \in Ids \ {s} : \E d \in {0, 1} : \A k \in Kinds : Keeps(net[a], net'[a], d, k, t)
  BY Zenon
<1>16. OneStream(p, s)
  BY <1>6, <1>13, <1>14, <1>15, Zenon DEF OneStream
<1> QED
  BY <1>9, <1>10, <1>11, <1>12, <1>16, StepInv, Zenon DEF q

\* Write takes a fragment within the credit, the payload limit and the window.
LEMMA WriteChunkInv ==
    ASSUME IInv, NEW p \in Peers, NEW s \in Ids, WriteChunk(p, s)
    PROVE  IInv'
<1> DEFINE q == Other(p)
<1>1. /\ TypeOK /\ q \in Peers /\ q # p
      /\ Ledger(p, s, q) /\ WriterOK(p, s) /\ TransitOK(p, s, q)
  BY OtherPeer, Zenon DEF IInv, StateOK
<1>2. /\ left[p][s] \in Nat /\ sendCredit[p][s] \in Nat /\ sent[p][s] \in Nat
      /\ delivered[q][s] \in Nat /\ MaxData[p] \in Nat /\ MaxData[p] >= 1
  BY <1>1, Numbers, Sizes, Zenon
<1>3. /\ UNCHANGED <<muxVars, net, openVars, endVars, peerWindowSet, peerWindow, recvVars,
                     left, readVars, ender, violated>>
      /\ writer[p][s] = "loop" /\ sendCredit[p][s] > 0
  BY Zenon DEF WriteChunk
<1>4. chunk[p][s] = 0 /\ left[p][s] > 0
  BY <1>1, <1>3, Zenon DEF WriterOK
<1>5. PICK c \in Nat : /\ c = ChunkSize(p, s) /\ c > 0
                       /\ c <= sendCredit[p][s] /\ c <= MaxData[p] /\ c <= left[p][s]
  BY <1>2, <1>3, <1>4 DEF ChunkSize, Min2
<1>6. /\ sent[p][s] + c \in Nat /\ sendCredit[p][s] - c \in Nat
      /\ (sent[p][s] + c) + (sendCredit[p][s] - c) = sent[p][s] + sendCredit[p][s]
      /\ (sent[p][s] + c) - c = sent[p][s] - 0
      /\ delivered[q][s] + 0 <= sent[p][s] => delivered[q][s] + c <= sent[p][s] + c
  BY SMTT(30), <1>2, <1>5, Paid
<1>7. /\ sendCredit' = [sendCredit EXCEPT ![p][s] = sendCredit[p][s] - c]
      /\ sent' = [sent EXCEPT ![p][s] = sent[p][s] + c]
      /\ chunk' = [chunk EXCEPT ![p][s] = c]
      /\ writer' = [writer EXCEPT ![p][s] = "send"]
  BY <1>5, Zenon DEF WriteChunk
<1>8. sendCredit \in Counters /\ sent \in Counters /\ chunk \in Counters /\ writer \in Writers
  BY <1>1, Zenon DEF TypeOK
<1>9. /\ sendCredit' \in Counters
      /\ Updates(sendCredit, sendCredit', p, s, sendCredit[p][s] - c)
  BY <1>6, <1>7, <1>8, CounterStep, Zenon
<1>10. sent' \in Counters /\ Updates(sent, sent', p, s, sent[p][s] + c)
  BY <1>6, <1>7, <1>8, CounterStep, Zenon
<1>11. chunk' \in Counters /\ Updates(chunk, chunk', p, s, c)
  BY <1>5, <1>7, <1>8, CounterStep, Zenon
<1>12. writer' \in Writers /\ Updates(writer, writer', p, s, "send")
  BY <1>7, <1>8, WriterStep, Zenon
<1> HIDE DEF q
<1>13. TypeOK'
  BY <1>1, <1>3, <1>9, <1>10, <1>11, <1>12, Zenon
     DEF TypeOK, muxVars, openVars, endVars, recvVars, readVars
<1>14. \A a \in Peers, t \in Ids : a # p \/ t # s => Same(a, t)
  <2> SUFFICES ASSUME NEW a \in Peers, NEW t \in Ids, a # p \/ t # s
               PROVE  Same(a, t)
    BY Zenon
  <2>1. SameSend(a, t)
    BY <1>3, <1>9, <1>10, Zenon DEF SameSend, Updates
  <2>2. SameWrite(a, t)
    BY <1>3, <1>11, <1>12, Zenon DEF SameWrite, Updates
  <2>3. SameRecv(a, t) /\ SameOpen(a, t) /\ SameEnd(a, t)
    BY <1>3, Zenon DEF SameRecv, SameOpen, SameEnd, muxVars, openVars, endVars, recvVars, readVars
  <2> QED
    BY <2>1, <2>2, <2>3, Zenon DEF Same
<1>15. /\ sent'[p][s] = sent[p][s] + c /\ sendCredit'[p][s] = sendCredit[p][s] - c
       /\ chunk'[p][s] = c /\ writer'[p][s] = "send" /\ left' = left /\ net' = net
  BY <1>3, <1>9, <1>10, <1>11, <1>12, Zenon DEF Updates
<1>16. /\ Credited(p, s)' = Credited(p, s)
       /\ sent'[p][s] - chunk'[p][s] = sent[p][s] - chunk[p][s]
  BY <1>4, <1>6, <1>15, Zenon DEF Credited
<1>17. WriterOK(p, s)'
  <2>1. c <= Fragment(p)
    <3>1. sendCredit[p][s] <= Window[q] /\ Window[q] \in Nat
      BY <1>1, <1>4, SendCreditFits, Sizes, Zenon DEF q
    <3>2. c <= Min2(MaxData[p], Window[q])
      BY <1>2, <1>5, <3>1 DEF Min2
    <3> QED
      BY <3>2, Zenon DEF Fragment, q
  <2> QED
    BY <1>4, <1>5, <1>15, <2>1, Zenon DEF WriterOK, Fragment
<1>18. Ledger(p, s, q)'
  <2>1. delivered[q][s] + c <= sent[p][s] + c
    BY <1>1, <1>4, <1>6, Zenon DEF Ledger
  <2>2. /\ UNCHANGED <<consumed, delivered, windowAdvertised, pendingWindow, remoteClosed,
                       peerWindowSet, peerWindow>>
        /\ Granted(q, s)' = Granted(q, s) /\ Issued(q, s)' = Issued(q, s)
    BY <1>3, Zenon DEF recvVars, readVars, endVars, openVars, Granted, Issued
  <2> QED
    BY <1>1, <1>15, <1>16, <2>1, <2>2, Zenon DEF Ledger
<1>19. \A a \in Peers, k \in Kinds, t \in Ids : Keeps(net[a], net'[a], 0, k, t)
  BY <1>1, <1>3, StillChannel, Zenon
<1>20. DataOK(p, s, q)'
  <2>1. delivered' = delivered /\ Raised(q, s) /\ cause' = cause
    BY <1>3, Zenon DEF recvVars, muxVars, endVars, Raised
  <2> QED
    BY <1>1, <1>13, <1>16, <1>19, <2>1, DataSame, Zenon DEF TransitOK, Kinds
<1> QED
  BY <1>3, <1>13, <1>14, <1>15, <1>16, <1>17, <1>18, <1>19, <1>20, WriterInv, Zenon DEF q

\* DATA is queued behind the bytes already sent.
LEMMA SentData ==
    ASSUME TypeOK, TypeOK', NEW a \in Peers, NEW b \in Peers, b = Other(a), NEW t \in Ids,
           TransitOK(a, t, b), UNCHANGED <<cause, endVars, recvVars>>, NEW m \in Nat, NEW n \in Nat,
           sent[a][t] - chunk[a][t] = m, sent'[a][t] - chunk'[a][t] = n, m < n,
           n - m <= Fragment(a), delivered[b][t] <= m, Send(a, Data(t, m, n))
    PROVE  DataOK(a, t, b)'
<1> DEFINE f == Data(t, m, n)
           lo == delivered[b][t]
<1>1. /\ net[a] \in Chan /\ net'[a] \in Chan /\ "DATA" \in Kinds
      /\ lo \in Nat /\ delivered'[b][t] = lo /\ (t \in remoteClosed'[b] <=> t \in remoteClosed[b])
  <2>1. lo \in Nat /\ delivered'[b][t] = lo
    BY Numbers, Zenon DEF recvVars
  <2> QED
    BY <2>1, Zenon DEF TypeOK, Chan, Kinds, endVars
<1>2. f \in Frame /\ f.kind = "DATA" /\ f.id = t /\ f.from = m /\ f.to = n
  BY SMTT(30), DataFrame
<1>3. Within(net[a], "DATA", t, lo, m)
  BY Zenon DEF TransitOK, DataOK
<1> HIDE DEF f, lo
<1>4. CASE Up(a) /\ Up(b)
  <2>1. Appends(net[a], f, net'[a])
    BY <1>2, <1>4, SendChannel, Zenon DEF f
  <2>2. Of(net'[a], "DATA", t) = Of(net[a], "DATA", t) \cup {Len(net[a]) + 1}
    BY SMTT(30), <1>1, <1>2, <2>1, AppendOf
  <2>3. \A i \in Of(net'[a], "DATA", t) : Size(net'[a][i]) <= Fragment(a)
    <3>1. net'[a][Len(net[a]) + 1] = f /\ \A i \in Of(net[a], "DATA", t) : net'[a][i] = net[a][i]
      BY <1>1, <2>1, OfFrames, Zenon DEF Appends
    <3> QED
      BY <1>2, <2>2, <3>1, Zenon DEF TransitOK, DataOK, Size
  <2>4. t \in remoteClosed[b] \/ (Linked(net[a], "DATA", t, lo) /\ Reaches(net[a], "DATA", t, lo, m))
    BY <1>4, Zenon DEF TransitOK, DataOK, lo
  <2>5. /\ Within(net'[a], "DATA", t, lo, n)
        /\ \/ t \in remoteClosed[b]
           \/ Linked(net'[a], "DATA", t, lo) /\ Reaches(net'[a], "DATA", t, lo, n)
    BY <1>1, <1>2, <1>3, <2>1, <2>4, CarryNext, ZenonT(30) DEF lo
  <2> QED
    BY <1>1, <2>3, <2>5, Zenon DEF DataOK, Fragment, Size
<1>5. CASE ~(Up(a) /\ Up(b))
  <2>1. net'[a] = net[a]
    BY <1>2, <1>5, SendChannel, Zenon DEF f
  <2>2. Within(net[a], "DATA", t, lo, n)
    BY SMTT(30), <1>1, <1>3, WithinMore
  <2> QED
    BY <1>1, <1>5, <2>1, <2>2, Zenon DEF TransitOK, DataOK, Up, Fragment, Size, lo
<1> QED
  BY <1>4, <1>5, Zenon

\* Write sends the fragment.
LEMMA WriteSendInv ==
    ASSUME IInv, NEW p \in Peers, NEW s \in Ids, WriteSend(p, s)
    PROVE  IInv'
<1> DEFINE q == Other(p)
           rest == IF Up(p) THEN left[p][s] - chunk[p][s] ELSE 0
           w == IF rest > 0 THEN "loop" ELSE "idle"
<1>1. /\ TypeOK /\ q \in Peers /\ q # p
      /\ Ledger(p, s, q) /\ WriterOK(p, s) /\ TransitOK(p, s, q)
  BY OtherPeer, Zenon DEF IInv, StateOK
<1>2. /\ left[p][s] \in Nat /\ chunk[p][s] \in Nat /\ sent[p][s] \in Nat
      /\ delivered[q][s] \in Nat /\ Fragment(p) \in Nat
  BY <1>1, Numbers, Sizes, Zenon
<1>3. rest \in Nat /\ w \in {"idle", "loop", "wait", "send"}
  <2>1. chunk[p][s] <= left[p][s]
    BY <1>1, Zenon DEF WriterOK
  <2> QED
    BY SMTT(30), <1>2, <2>1
<1> HIDE DEF q, rest, w
<1>4. /\ delivered[q][s] + chunk[p][s] <= sent[p][s] /\ chunk[p][s] > 0
      /\ chunk[p][s] <= Fragment(p)
  BY <1>1, Zenon DEF Ledger, WriterOK, WriteSend
<1>a. /\ sent[p][s] - chunk[p][s] \in Nat /\ sent[p][s] - chunk[p][s] < sent[p][s]
      /\ sent[p][s] - (sent[p][s] - chunk[p][s]) = chunk[p][s]
      /\ delivered[q][s] <= sent[p][s] - chunk[p][s]
      /\ delivered[q][s] + 0 <= sent[p][s] /\ sent[p][s] = sent[p][s] - 0
  BY <1>2, <1>4, Owing
<1>5. PICK m \in Nat, n \in Nat : /\ m = sent[p][s] - chunk[p][s] /\ n = sent[p][s] /\ m < n
                                  /\ n - m <= Fragment(p) /\ delivered[q][s] <= m
                                  /\ delivered[q][s] + 0 <= sent[p][s] /\ n = sent[p][s] - 0
  BY <1>2, <1>4, <1>a, Zenon
<1>6. /\ UNCHANGED <<muxVars, openVars, endVars, sendVars, recvVars, readVars, ender, violated>>
      /\ writer[p][s] = "send" /\ Send(p, Data(s, m, n))
      /\ chunk' = [chunk EXCEPT ![p][s] = 0]
      /\ left' = [left EXCEPT ![p][s] = rest]
      /\ writer' = [writer EXCEPT ![p][s] = w]
  BY <1>5, Zenon DEF WriteSend, rest, w
<1>7. chunk \in Counters /\ left \in Counters /\ writer \in Writers
  BY <1>1, Zenon DEF TypeOK
<1>8. chunk' \in Counters /\ Updates(chunk, chunk', p, s, 0)
  <2>1. 0 \in Nat
    OBVIOUS
  <2> QED
    BY <1>6, <1>7, <2>1, CounterStep, Zenon
<1>9. left' \in Counters /\ Updates(left, left', p, s, rest)
  BY <1>3, <1>6, <1>7, CounterStep, Zenon
<1>10. writer' \in Writers /\ Updates(writer, writer', p, s, w)
  BY <1>3, <1>6, <1>7, WriterStep, Zenon
<1>11. Data(s, m, n) \in Frame /\ Data(s, m, n).kind = "DATA" /\ Data(s, m, n).id = s
  BY DataFrame
<1>12. /\ net' \in [Peers -> Seq(Frame)]
       /\ \A a \in Peers, k \in Kinds, t \in Ids :
            a # p \/ k # "DATA" \/ t # s => Keeps(net[a], net'[a], 0, k, t)
  BY <1>1, <1>6, <1>11, SendChannel, Zenon
<1>13. TypeOK'
  BY <1>1, <1>6, <1>8, <1>9, <1>10, <1>12, Zenon
     DEF TypeOK, muxVars, openVars, endVars, sendVars, recvVars, readVars
<1>14. \A a \in Peers, t \in Ids : a # p \/ t # s => Same(a, t)
  <2> SUFFICES ASSUME NEW a \in Peers, NEW t \in Ids, a # p \/ t # s
               PROVE  Same(a, t)
    BY Zenon
  <2>1. SameWrite(a, t)
    BY <1>8, <1>9, <1>10, Zenon DEF SameWrite, Updates
  <2>2. SameSend(a, t) /\ SameRecv(a, t) /\ SameOpen(a, t) /\ SameEnd(a, t)
    BY <1>6, Zenon DEF SameSend, SameRecv, SameOpen, SameEnd,
                       muxVars, openVars, endVars, sendVars, recvVars, readVars
  <2> QED
    BY <2>1, <2>2, Zenon DEF Same
<1>15. \A a \in Peers : ~Up(a) => net'[Other(a)] = net[Other(a)]
  BY <1>1, <1>6, OtherPeer, Zenon DEF Send, TypeOK
<1>16. chunk'[p][s] = 0 /\ left'[p][s] = rest /\ writer'[p][s] = w /\ sent' = sent
  BY <1>6, <1>8, <1>9, <1>10, Zenon DEF Updates, sendVars
<1>17. /\ Credited(p, s)' = Credited(p, s) /\ peerWindowSet' = peerWindowSet
       /\ peerWindow' = peerWindow
  BY <1>6, Zenon DEF Credited, sendVars
<1>18. WriterOK(p, s)'
  <2>1. 0 <= Fragment(p) /\ 0 <= rest /\ (w = "idle" \/ (w = "loop" /\ rest > 0))
    BY <1>2, <1>3 DEF w
  <2> QED
    BY <1>16, <2>1, Zenon DEF WriterOK, Fragment
<1>19. Ledger(p, s, q)'
  <2>1. /\ UNCHANGED <<consumed, delivered, windowAdvertised, pendingWindow, remoteClosed>>
        /\ Granted(q, s)' = Granted(q, s) /\ Issued(q, s)' = Issued(q, s)
    BY <1>6, Zenon DEF recvVars, readVars, endVars, openVars, Granted, Issued
  <2> QED
    BY <1>1, <1>5, <1>16, <1>17, <2>1, Zenon DEF Ledger
<1>20. DataOK(p, s, q)'
  <2>1. sent'[p][s] - chunk'[p][s] = n /\ UNCHANGED <<cause, endVars, recvVars>>
    BY <1>5, <1>6, <1>16, Zenon DEF muxVars
  <2> QED
    BY <1>1, <1>5, <1>6, <1>13, <2>1, SentData, Zenon DEF q
<1> QED
  BY <1>6, <1>12, <1>13, <1>14, <1>15, <1>17, <1>18, <1>19, <1>20, WriterInv, Zenon DEF q

=============================================================================
