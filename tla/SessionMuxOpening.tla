------------------------- MODULE SessionMuxOpening --------------------------
(***************************************************************************)
(* The steps that open a stream (Mux.Open, Mux.Accept, Mux.handleOpen) keep*)
(* IInv: they create the two ends, advertise the windows, and give up.     *)
(***************************************************************************)
EXTENDS SessionMuxCalls, SessionMuxFrames

\* A step of Open or Accept: the stream is known at p before and after it.
PhaseStepOf(p, s) ==
    /\ TypeOK' /\ phase[p][s] # "none" /\ phase'[p][s] \notin {"none", "created"}
    /\ UNCHANGED <<cause, nextID, accepted, localClosed, sendVars, pendingWindow, delivered,
                   consumed, left, chunk, grant, ender, violated>>
    /\ \A a \in Peers, t \in Ids : a # p \/ t # s => Same(a, t)
    /\ \A a \in Peers : PeerOK(a, Other(a))'
    /\ Raised(p, s) /\ Woken(p, s)
    /\ s \in failed'[p] => s \in remoteClosed'[p]
    /\ s \in remoteClosed'[p] => s \in remoteClosed[p] \/ s \in failed'[p]

\* Only frames of kind h of stream s of p may be added to the channels.
KeepsBut(p, s, h) ==
    \A a \in Peers, k \in Kinds, t \in Ids :
        a # p \/ k # h \/ t # s => Keeps(net[a], net'[a], 0, k, t)

\* A step of opening s at p keeps IInv if it keeps what depends on the phase of s.
LEMMA PhaseInv ==
    ASSUME IInv, NEW p \in Peers, NEW s \in Ids, PhaseStepOf(p, s),
           NEW h \in {"OPEN", "WINDOW", "RESET"}, KeepsBut(p, s, h),
           Ledger(Other(p), s, p)', Handshake(p, s, Other(p))',
           OpenOK(p, s, Other(p))', CreditOK(p, s, Other(p))'
    PROVE  IInv'
<1> DEFINE q == Other(p)
<1>0. q \in Peers /\ q # p /\ Other(q) = p /\ 0 \in {0, 1}
  BY OtherPeer, Zenon
<1>1. /\ TypeOK /\ StateOK(p, s, q) /\ TransitOK(p, s, q) /\ StateOK(q, s, p) /\ TransitOK(q, s, p)
  BY <1>0, Zenon DEF IInv
<1>2. Ledger(q, s, p)' /\ Handshake(p, s, q)' /\ OpenOK(p, s, q)' /\ CreditOK(p, s, q)'
  BY Zenon
<1> HIDE DEF q
<1>3. /\ TypeOK' /\ phase[p][s] # "none" /\ phase'[p][s] # "none"
      /\ UNCHANGED <<cause, nextID, accepted, localClosed, delivered, left, chunk, ender, violated>>
      /\ SameSend(p, s) /\ Same(q, s) /\ Raised(p, s) /\ Woken(p, s) /\ sent' = sent
      /\ s \in failed'[p] => s \in remoteClosed'[p]
      /\ s \in remoteClosed'[p] => s \in remoteClosed[p] \/ s \in failed'[p]
  BY <1>0, Zenon DEF PhaseStepOf, SameSend, sendVars
<1>4. /\ SameSend(q, s) /\ SameRecv(q, s) /\ SameWrite(q, s) /\ SameOpen(q, s)
      /\ SameEnd(q, s) /\ Raised(q, s) /\ Woken(q, s) /\ phase'[q][s] = phase[q][s]
      /\ Finished(q, s) => Finished(q, s)'
  BY <1>3, Zenon DEF Same, SameEnd, SameWrite, SameOpen, Raised, Woken, Finished
<1>5. /\ Issued(q, s)' = Issued(q, s)
      /\ Credited(p, s)' = Credited(p, s) /\ Credited(q, s)' = Credited(q, s)
  BY <1>3, <1>4, Zenon DEF Issued, Granted, Credited, SameSend, SameRecv
<1>6. Finished(p, s) => Finished(p, s)'
  BY <1>3, Zenon DEF Finished, Woken
<1>7. StateOK(p, s, q)'
  <2>1. Ledger(p, s, q)'
    BY <1>0, <1>1, <1>3, <1>4, <1>5, LedgerSame, Zenon DEF StateOK
  <2>2. WriterOK(p, s)'
    BY <1>1, <1>3, WriterSame, Zenon DEF StateOK
  <2>3. Ending(p, s, q)'
    BY <1>1, <1>3, <1>4, <1>6, Zenon DEF StateOK, Ending, Raised, SameEnd
  <2> QED
    BY <1>2, <2>1, <2>2, <2>3, Zenon DEF StateOK
<1>8. StateOK(q, s, p)'
  <2>1. WriterOK(q, s)'
    BY <1>0, <1>1, <1>3, <1>4, WriterSame, Zenon DEF StateOK
  <2>2. Ending(q, s, p)'
    BY <1>0, <1>1, <1>3, <1>4, EndingSame, Zenon DEF StateOK
  <2>3. Handshake(q, s, p)'
    BY <1>1, <1>3, <1>4, Zenon DEF StateOK, Handshake, SameRecv, SameOpen, Raised, Shut, PeerOwns
  <2> QED
    BY <1>2, <2>1, <2>2, <2>3, Zenon DEF StateOK
<1>9. /\ Keeps(net[p], net'[p], 0, "DATA", s) /\ Keeps(net[p], net'[p], 0, "CLOSE", s)
      /\ \A k \in Kinds : Keeps(net[q], net'[q], 0, k, s)
  BY <1>0, Zenon DEF Kinds, KeepsBut
<1>10. TransitOK(p, s, q)'
  <2>1. DataOK(p, s, q)'
    BY <1>0, <1>1, <1>3, <1>4, <1>9, DataSame, Zenon DEF TransitOK
  <2>2. CloseOK(p, s, q)'
    BY <1>0, <1>1, <1>3, <1>4, <1>6, <1>9, CloseSame, Zenon DEF TransitOK
  <2> QED
    BY <1>2, <2>1, <2>2, Zenon DEF TransitOK
<1>11. TransitOK(q, s, p)'
  <2>1. /\ Keeps(net[q], net'[q], 0, "DATA", s) /\ Keeps(net[q], net'[q], 0, "CLOSE", s)
        /\ Keeps(net[q], net'[q], 0, "WINDOW", s) /\ Keeps(net[q], net'[q], 0, "OPEN", s)
        /\ Keeps(net[q], net'[q], 0, "ACCEPT", s)
    BY <1>9, Zenon DEF Kinds
  <2>2. DataOK(q, s, p)'
    BY <1>0, <1>1, <1>3, <1>4, <2>1, DataSame, Zenon DEF TransitOK
  <2>3. CreditOK(q, s, p)'
    BY <1>0, <1>1, <1>3, <1>5, <2>1, CreditSame, Zenon DEF TransitOK
  <2>4. CloseOK(q, s, p)'
    BY <1>0, <1>1, <1>3, <1>4, <2>1, CloseSame, Zenon DEF TransitOK
  <2>5. OpenOK(q, s, p)'
    <3>1. Of(net[q], "OPEN", s) = {} /\ (Of(net[q], "ACCEPT", s) # {} => phase[q][s] # "none")
      BY <1>1, <1>3, Zenon DEF TransitOK, OpenOK
    <3>2. /\ Of(net'[q], "OPEN", s) = {}
          /\ Of(net'[q], "ACCEPT", s) # {} => Of(net[q], "ACCEPT", s) # {}
      BY <2>1, <3>1, Zenon DEF Keeps
    <3> QED
      BY <1>4, <3>1, <3>2, Zenon DEF OpenOK
  <2> QED
    BY <2>2, <2>3, <2>4, <2>5, Zenon DEF TransitOK
<1>12. OneStream(p, s)
  <2>1. \A a \in Peers, t \in Ids \ {s} : \E d \in {0, 1} :
            \A k \in Kinds : Keeps(net[a], net'[a], d, k, t)
    BY <1>0, Zenon DEF KeepsBut
  <2>2. FlowConforms' /\ \A a \in Peers : Advances(a)
    BY <1>3, Zenon DEF IInv, FlowConforms, Advances
  <2> QED
    BY <1>3, <2>1, <2>2, Zenon DEF OneStream, PhaseStepOf
<1> QED
  BY <1>7, <1>8, <1>10, <1>11, <1>12, StepInv, Zenon DEF q

\* PeerOK under a step of Open.
LEMMA OpenerPeers ==
    ASSUME IInv, NEW p \in Peers, NEW s \in Ids, UNCHANGED <<cause, nextID, incoming>>,
           phase[p][s] \in {"created", "waiting", "accepted"},
           \A a \in Peers, t \in Ids : a # p \/ t # s => phase'[a][t] = phase[a][t],
           \A a \in Peers : streams'[a] \subseteq streams[a],
           \A a \in Peers : ~Up(a) => net'[Other(a)] = net[Other(a)]
    PROVE  \A a \in Peers : PeerOK(a, Other(a))'
<1> SUFFICES ASSUME NEW a \in Peers
             PROVE  PeerOK(a, Other(a))'
  BY Zenon
<1>1. PeerOK(a, Other(a)) /\ incoming[a] \in Seq(Ids)
  BY Zenon DEF IInv, TypeOK
<1>2. \A i \in 1..Len(incoming[a]) : incoming[a][i] \in Ids
  BY <1>1
<1>3. ASSUME NEW i \in 1..Len(incoming[a])
      PROVE  phase'[a][incoming[a][i]] \in {"queued", "open"}
  <2>1. phase[a][incoming[a][i]] \in {"queued", "open"} /\ incoming[a][i] \in Ids
    BY <1>1, <1>2, Zenon DEF PeerOK
  <2>2. a # p \/ incoming[a][i] # s
    BY <2>1, Zenon
  <2> QED
    BY <2>1, <2>2, Zenon
<1>4. ~Up(a) => net'[Other(a)] = <<>> /\ streams'[a] = {}
  BY <1>1, Zenon DEF PeerOK
<1> QED
  BY <1>1, <1>3, <1>4, Zenon DEF PeerOK, PeerOwns, Up

-----------------------------------------------------------------------------
(* Open *)

\* No credit issued, none received.
LEMMA NothingIssued ==
    ASSUME NEW a \in Nat, NEW b \in Nat, NEW g \in Nat, a + b <= 0 - g
    PROVE  a + b = 0 /\ g = 0 /\ 0 - g = 0
  OBVIOUS

\* Open before its stream has been granted any credit.
LEMMA NoCreditYet ==
    ASSUME IInv, NEW p \in Peers, NEW s \in Ids,
           phase[p][s] = "accepted" \/ s \notin windowAdvertised[p]
    PROVE  /\ Credited(Other(p), s) = 0 /\ Issued(p, s) = 0 /\ grant[p][s] = 0
           /\ delivered[p][s] = 0 /\ consumed[p][s] = 0
           /\ s \notin windowAdvertised[p] => Granted(p, s) = 0 /\ pendingWindow[p][s] = 0
           /\ phase[p][s] = "accepted" => Granted(p, s) = Window[p]
<1> DEFINE q == Other(p)
<1>1. TypeOK /\ q \in Peers /\ Other(q) = p
  BY OtherPeer, Zenon DEF IInv
<1>2. Ledger(q, s, p) /\ Handshake(p, s, q)
  BY <1>1, Zenon DEF IInv, StateOK
<1> HIDE DEF q
<1>3. /\ sent[q][s] \in Nat /\ sendCredit[q][s] \in Nat /\ chunk[q][s] \in Nat
      /\ delivered[p][s] \in Nat /\ consumed[p][s] \in Nat /\ recvCredit[p][s] \in Nat
      /\ pendingWindow[p][s] \in Nat /\ grant[p][s] \in Nat
  BY <1>1, Numbers, Zenon
<1>4. /\ consumed[p][s] <= delivered[p][s] /\ delivered[p][s] + chunk[q][s] <= sent[q][s]
      /\ Credited(q, s) <= Issued(p, s)
      /\ s \notin windowAdvertised[p] => Granted(p, s) = 0 /\ pendingWindow[p][s] = 0
      /\ phase[p][s] = "accepted" => grant[p][s] = 0 /\ recvCredit[p][s] = Window[p]
  BY <1>2, Zenon DEF Ledger, Handshake
<1>5. Credited(q, s) = 0 /\ Issued(p, s) = 0 /\ grant[p][s] = 0
  <2>1. CASE phase[p][s] = "accepted"
    BY SMTT(30), <1>3, <1>4, <2>1 DEF Credited, Issued
  <2>2. CASE phase[p][s] # "accepted"
    <3>1. Granted(p, s) = 0 /\ Issued(p, s) = 0 - grant[p][s]
      BY <1>4, <2>2, Zenon DEF Issued
    <3>2. sent[q][s] + sendCredit[q][s] <= 0 - grant[p][s]
      BY <1>4, <3>1, Zenon DEF Credited
    <3> QED
      BY <1>3, <3>1, <3>2, NothingIssued, ZenonT(30) DEF Credited
  <2> QED
    BY <2>1, <2>2, Zenon
<1>6. delivered[p][s] = 0 /\ consumed[p][s] = 0
  BY <1>3, <1>4, <1>5 DEF Credited
<1>7. phase[p][s] = "accepted" => Granted(p, s) = Window[p]
  <2>1. Window[p] \in Nat
    BY Sizes, Zenon
  <2> QED
    BY <1>4, <1>6, <2>1 DEF Granted
<1> QED
  BY <1>4, <1>5, <1>6, <1>7, Zenon DEF q

\* Open sends OPEN of a stream the other peer does not know.
LEMMA SendOpenInv ==
    ASSUME IInv, NEW p \in Peers, NEW s \in Ids, SendOpen(p, s)
    PROVE  IInv'
<1> DEFINE q == Other(p)
           v == IF Up(p) THEN "waiting" ELSE "failed"
           f == Control("OPEN", s)
<1>0. q \in Peers /\ q # p /\ Other(q) = p
  BY OtherPeer, Zenon
<1>1. TypeOK /\ StateOK(p, s, q) /\ TransitOK(p, s, q) /\ StateOK(q, s, p)
  BY <1>0, Zenon DEF IInv
<1>2. /\ UNCHANGED <<muxVars, accepted, isOpen, endVars, sendVars, recvVars, writeVars, readVars,
                     ender, violated>>
      /\ phase[p][s] = "created" /\ phase' = [phase EXCEPT ![p][s] = v] /\ Send(p, f)
  BY Zenon DEF SendOpen
<1>3. f \in Frame /\ f.kind = "OPEN" /\ f.id = s
  BY ControlFrame, Zenon DEF Kinds
<1>4. v \in {"waiting", "failed"}
  BY Zenon
<1> HIDE DEF v, f, q
<1>5. phase' \in Phases /\ Updates(phase, phase', p, s, v)
  <2>1. v \in {"created", "waiting", "accepted", "queued", "open", "failed"} /\ phase \in Phases
    BY <1>1, <1>4, Zenon DEF TypeOK
  <2> QED
    BY <1>2, <2>1, PhaseStep, Zenon
<1>6. /\ net' \in [Peers -> Seq(Frame)]
      /\ \A a \in Peers, k \in Kinds, t \in Ids :
           a # p \/ k # "OPEN" \/ t # s => Keeps(net[a], net'[a], 0, k, t)
      /\ IF Up(p) /\ Up(Other(p)) THEN Appends(net[p], f, net'[p]) ELSE net'[p] = net[p]
  BY <1>1, <1>2, <1>3, SendChannel, Zenon
<1>7. TypeOK'
  BY <1>1, <1>2, <1>5, <1>6, Zenon DEF TypeOK, muxVars, endVars, sendVars, recvVars, writeVars, readVars
<1>8. \A a \in Peers, t \in Ids : a # p \/ t # s => Same(a, t)
  <2> SUFFICES ASSUME NEW a \in Peers, NEW t \in Ids, a # p \/ t # s
               PROVE  Same(a, t)
    BY Zenon
  <2>1. SameSend(a, t) /\ SameEnd(a, t)
    BY <1>2, Zenon DEF SameSend, SameEnd, sendVars, endVars
  <2>2. SameRecv(a, t) /\ SameWrite(a, t)
    BY <1>2, Zenon DEF SameRecv, SameWrite, recvVars, readVars, writeVars
  <2>3. SameOpen(a, t)
    BY <1>2, <1>5, Zenon DEF SameOpen, Updates, muxVars
  <2> QED
    BY <2>1, <2>2, <2>3, Zenon DEF Same
<1>9. \A a \in Peers : PeerOK(a, Other(a))'
  <2>1. \A a \in Peers : ~Up(a) => net'[Other(a)] = net[Other(a)]
    BY <1>1, <1>2, OtherPeer, Zenon DEF Send, TypeOK
  <2>2. \A a \in Peers, t \in Ids : a # p \/ t # s => phase'[a][t] = phase[a][t]
    BY <1>5, Zenon DEF Updates
  <2> QED
    BY <1>2, <2>1, <2>2, OpenerPeers, Zenon DEF muxVars
<1>10. Raised(p, s) /\ Woken(p, s) /\ UNCHANGED endVars
  BY <1>2, Zenon DEF Raised, Woken, endVars, writeVars
<1>11. PhaseStepOf(p, s)
  <2>1. s \in failed[p] => s \in remoteClosed[p]
    BY <1>1, Zenon DEF StateOK, Ending
  <2> QED
    BY <1>2, <1>4, <1>5, <1>7, <1>8, <1>9, <1>10, <2>1, Zenon
       DEF PhaseStepOf, Updates, muxVars, endVars, recvVars, writeVars, readVars
<1>12. s \notin windowAdvertised[p] /\ phase[q][s] = "none" /\ PeerOwns(q, s)
  BY <1>1, <1>2, Zenon DEF StateOK, Handshake
<1>13. Issued(p, s)' = Issued(p, s) /\ Credited(q, s)' = Credited(q, s)
  BY <1>2, <1>4, <1>5, Zenon DEF Issued, Granted, Credited, Updates, recvVars, readVars, sendVars
<1>14. Ledger(q, s, p)'
  <2>1. SameSend(q, s) /\ SameRecv(p, s) /\ Raised(p, s) /\ chunk'[q][s] = chunk[q][s]
    BY <1>2, <1>10, Zenon DEF SameSend, SameRecv, sendVars, recvVars, readVars, writeVars
  <2> QED
    BY <1>0, <1>1, <1>13, <2>1, LedgerSame, Zenon DEF StateOK
<1>15. Handshake(p, s, q)'
  <2>1. phase'[q][s] = phase[q][s] /\ phase'[p][s] = v
    BY <1>0, <1>5, Zenon DEF Updates
  <2> QED
    BY <1>1, <1>2, <1>4, <1>12, <2>1, Zenon DEF StateOK, Handshake, Shut, PeerOwns,
       muxVars, endVars, recvVars, readVars
<1>16. CreditOK(p, s, q)'
  <2>1. Keeps(net[p], net'[p], 0, "WINDOW", s) /\ 0 \in {0, 1} /\ cause' = cause /\ Raised(q, s)
    BY <1>2, <1>6, Zenon DEF Kinds, muxVars, Raised, endVars
  <2> QED
    BY <1>0, <1>1, <1>7, <1>13, <2>1, CreditSame, Zenon DEF TransitOK
<1>17. OpenOK(p, s, q)'
  <2>1. net[p] \in Chan /\ Of(net[p], "OPEN", s) = {} /\ "OPEN" \in Kinds
    BY <1>1, <1>2, Numbers, Zenon DEF TransitOK, OpenOK, Kinds
  <2>2. \A i, j \in Of(net'[p], "OPEN", s) : i = j
    <3>1. CASE net'[p] = net[p]
      BY <2>1, <3>1, Zenon
    <3>2. CASE Appends(net[p], f, net'[p])
      <4>1. Of(net'[p], "OPEN", s) = Of(net[p], "OPEN", s) \cup {Len(net[p]) + 1}
        BY <1>3, <2>1, <3>2, AppendOf
      <4> QED
        BY <2>1, <4>1, Zenon
    <3> QED
      BY <1>6, <3>1, <3>2, Zenon
  <2>3. phase'[q][s] = phase[q][s] /\ phase'[p][s] = v
    BY <1>0, <1>5, Zenon DEF Updates
  <2> QED
    BY <1>4, <1>12, <2>2, <2>3, Zenon DEF OpenOK, PeerOwns
<1>18. "OPEN" \in {"OPEN", "WINDOW", "RESET"} /\ KeepsBut(p, s, "OPEN")
  BY <1>6, Zenon DEF KeepsBut
<1> QED
  BY <1>11, <1>14, <1>15, <1>16, <1>17, <1>18, PhaseInv, Zenon DEF q

\* Open takes the ACCEPT and initialises the receive window.
LEMMA OpenAcceptedInv ==
    ASSUME IInv, NEW p \in Peers, NEW s \in Ids, OpenAccepted(p, s)
    PROVE  IInv'
<1> DEFINE q == Other(p)
<1>0. q \in Peers /\ q # p /\ Other(q) = p /\ 0 \in {0, 1}
  BY OtherPeer, Zenon
<1>1. TypeOK /\ StateOK(p, s, q) /\ TransitOK(p, s, q) /\ StateOK(q, s, p)
  BY <1>0, Zenon DEF IInv
<1>2. /\ UNCHANGED <<muxVars, net, accepted, endVars, sendVars, writeVars, readVars, ender, violated>>
      /\ UNCHANGED <<pendingWindow, delivered, consumed>>
      /\ phase[p][s] = "waiting" /\ accepted[p][s] = "ok"
      /\ phase' = [phase EXCEPT ![p][s] = "accepted"]
      /\ recvCredit' = [recvCredit EXCEPT ![p][s] = Window[p]]
      /\ windowAdvertised' = Add(windowAdvertised, p, s)
      /\ isOpen' = Add(isOpen, p, s)
  BY Zenon DEF OpenAccepted, InitializeReceiveWindow
<1>3. s \notin windowAdvertised[p] /\ phase[q][s] # "none"
  BY <1>1, <1>2, Zenon DEF StateOK, Handshake
<1>4. /\ Credited(q, s) = 0 /\ Issued(p, s) = 0 /\ grant[p][s] = 0
      /\ delivered[p][s] = 0 /\ consumed[p][s] = 0 /\ pendingWindow[p][s] = 0
  BY <1>3, NoCreditYet, Zenon
<1> HIDE DEF q
<1>5. phase' \in Phases /\ Updates(phase, phase', p, s, "accepted")
  <2>1. phase \in Phases
    BY <1>1, Zenon DEF TypeOK
  <2> QED
    BY <1>2, <2>1, PhaseStep, Zenon
<1>6. recvCredit' \in Counters /\ Updates(recvCredit, recvCredit', p, s, Window[p])
  <2>1. recvCredit \in Counters /\ Window[p] \in Nat
    BY <1>1, Sizes, Zenon DEF TypeOK
  <2> QED
    BY <1>2, <2>1, CounterStep, Zenon
<1>7. /\ windowAdvertised' \in Sets /\ Flips(windowAdvertised, windowAdvertised', p, s)
      /\ isOpen' \in Sets /\ Flips(isOpen, isOpen', p, s)
      /\ s \in windowAdvertised'[p] /\ s \in isOpen'[p]
  BY <1>1, <1>2, AddStep, Zenon DEF TypeOK
<1>8. TypeOK'
  BY <1>1, <1>2, <1>5, <1>6, <1>7, Zenon DEF TypeOK, muxVars, endVars, sendVars, writeVars, readVars
<1>9. \A a \in Peers, t \in Ids : a # p \/ t # s => Same(a, t)
  <2> SUFFICES ASSUME NEW a \in Peers, NEW t \in Ids, a # p \/ t # s
               PROVE  Same(a, t)
    BY Zenon
  <2>1. SameSend(a, t) /\ SameEnd(a, t)
    BY <1>2, Zenon DEF SameSend, SameEnd, sendVars, endVars
  <2>2. SameRecv(a, t) /\ SameWrite(a, t)
    BY <1>2, <1>6, <1>7, Zenon DEF SameRecv, SameWrite, readVars, writeVars, Updates, Flips
  <2>3. SameOpen(a, t)
    BY <1>2, <1>5, <1>7, Zenon DEF SameOpen, Updates, Flips, muxVars
  <2> QED
    BY <2>1, <2>2, <2>3, Zenon DEF Same
<1>10. \A a \in Peers : PeerOK(a, Other(a))'
  <2>1. \A a \in Peers, t \in Ids : a # p \/ t # s => phase'[a][t] = phase[a][t]
    BY <1>5, Zenon DEF Updates
  <2> QED
    BY <1>2, <2>1, OpenerPeers, Zenon DEF muxVars
<1>11. Raised(p, s) /\ Woken(p, s) /\ UNCHANGED endVars
  BY <1>2, Zenon DEF Raised, Woken, endVars, writeVars
<1>12. PhaseStepOf(p, s)
  <2>1. s \in failed[p] => s \in remoteClosed[p]
    BY <1>1, Zenon DEF StateOK, Ending
  <2> QED
    BY <1>2, <1>5, <1>8, <1>9, <1>10, <1>11, <2>1, Zenon
       DEF PhaseStepOf, Updates, muxVars, endVars, writeVars, readVars
<1>13. Issued(p, s)' = Issued(p, s) /\ Credited(q, s)' = Credited(q, s)
  BY <1>2, <1>4, <1>5, Zenon DEF Issued, Credited, Updates, sendVars
<1>14. Ledger(q, s, p)'
  <2>1. Granted(p, s)' = Window[p] /\ Window[p] \in Nat
    <3>1. Window[p] \in Nat /\ recvCredit'[p][s] = Window[p] /\ delivered'[p][s] = 0
      BY <1>2, <1>4, <1>6, Sizes, Zenon DEF Updates
    <3> QED
      BY <3>1 DEF Granted
  <2>2. /\ consumed'[p][s] = 0 /\ pendingWindow'[p][s] = 0 /\ delivered'[p][s] = 0
        /\ Credited(q, s)' <= Issued(p, s)'
    BY <1>2, <1>4, <1>13
  <2>3. Granted(p, s)' + pendingWindow'[p][s] = Window[p] + consumed'[p][s]
    BY <2>1, <2>2
  <2>4. Window[p] + consumed'[p][s] <= Window[p] + consumed'[p][s]
    BY <2>1, <2>2
  <2> QED
    BY <1>1, <1>2, <1>7, <1>13, <2>2, <2>3, <2>4, Zenon DEF StateOK, Ledger, sendVars, writeVars
<1>15. Handshake(p, s, q)'
  <2>1. phase'[q][s] = phase[q][s] /\ phase'[p][s] = "accepted" /\ grant'[p][s] = 0
        /\ recvCredit'[p][s] = Window[p]
    BY <1>0, <1>2, <1>4, <1>5, <1>6, Zenon DEF Updates, readVars
  <2>2. ~(grant'[p][s] > 0)
    BY <2>1
  <2> QED
    BY <1>1, <1>2, <1>3, <1>7, <2>1, <2>2, Zenon DEF StateOK, Handshake, Shut, PeerOwns,
       muxVars, endVars
<1>16. CreditOK(p, s, q)' /\ OpenOK(p, s, q)'
  <2>1. /\ Keeps(net[p], net'[p], 0, "WINDOW", s) /\ Keeps(net[p], net'[p], 0, "OPEN", s)
        /\ Keeps(net[p], net'[p], 0, "ACCEPT", s) /\ cause' = cause /\ Raised(q, s)
        /\ phase'[q][s] = phase[q][s] /\ phase'[p][s] \notin {"none", "created"}
    BY <1>0, <1>1, <1>2, <1>5, StillChannel, Zenon DEF Kinds, muxVars, Raised, endVars, Updates
  <2>2. CreditOK(p, s, q)'
    BY <1>0, <1>1, <1>8, <1>13, <2>1, CreditSame, Zenon DEF TransitOK
  <2>3. OpenOK(p, s, q)'
    BY <1>0, <1>1, <1>8, <2>1, OpenSame, Zenon DEF TransitOK
  <2> QED
    BY <2>2, <2>3, Zenon
<1>17. "RESET" \in {"OPEN", "WINDOW", "RESET"} /\ KeepsBut(p, s, "RESET")
  BY <1>1, <1>2, StillChannel, Zenon DEF KeepsBut
<1> QED
  BY <1>12, <1>14, <1>15, <1>16, <1>17, PhaseInv, Zenon DEF q

\* Open advertises the receive window.
LEMMA SendInitialWindowInv ==
    ASSUME IInv, NEW p \in Peers, NEW s \in Ids, SendInitialWindow(p, s)
    PROVE  IInv'
<1> DEFINE q == Other(p)
           f == Credit(s, 0, Window[p])
<1>0. q \in Peers /\ q # p /\ Other(q) = p /\ 0 \in {0, 1} /\ Window[p] \in Nat /\ 0 \in Nat
  BY OtherPeer, Sizes
<1>1. TypeOK /\ StateOK(p, s, q) /\ TransitOK(p, s, q) /\ StateOK(q, s, p)
  BY <1>0, Zenon DEF IInv
<1>2. /\ UNCHANGED <<muxVars, accepted, isOpen, endVars, sendVars, recvVars, writeVars, readVars,
                     ender, violated>>
      /\ phase[p][s] = "accepted" /\ phase' = [phase EXCEPT ![p][s] = "open"] /\ Send(p, f)
  BY Zenon DEF SendInitialWindow
<1>3. f \in Frame /\ f.kind = "WINDOW" /\ f.id = s
  BY <1>0, CreditFrame
<1>4. /\ Credited(q, s) = 0 /\ Issued(p, s) = 0 /\ grant[p][s] = 0 /\ Granted(p, s) = Window[p]
  BY <1>2, NoCreditYet, Zenon
<1> HIDE DEF f, q
<1>5. phase' \in Phases /\ Updates(phase, phase', p, s, "open")
  <2>1. phase \in Phases
    BY <1>1, Zenon DEF TypeOK
  <2> QED
    BY <1>2, <2>1, PhaseStep, Zenon
<1>6. net' \in [Peers -> Seq(Frame)] /\ KeepsBut(p, s, "WINDOW")
  BY <1>1, <1>2, <1>3, SendChannel, Zenon DEF KeepsBut
<1>7. TypeOK'
  BY <1>1, <1>2, <1>5, <1>6, Zenon DEF TypeOK, muxVars, endVars, sendVars, recvVars, writeVars, readVars
<1>8. \A a \in Peers, t \in Ids : a # p \/ t # s => Same(a, t)
  <2> SUFFICES ASSUME NEW a \in Peers, NEW t \in Ids, a # p \/ t # s
               PROVE  Same(a, t)
    BY Zenon
  <2>1. SameSend(a, t) /\ SameEnd(a, t)
    BY <1>2, Zenon DEF SameSend, SameEnd, sendVars, endVars
  <2>2. SameRecv(a, t) /\ SameWrite(a, t)
    BY <1>2, Zenon DEF SameRecv, SameWrite, recvVars, readVars, writeVars
  <2>3. SameOpen(a, t)
    BY <1>2, <1>5, Zenon DEF SameOpen, Updates, muxVars
  <2> QED
    BY <2>1, <2>2, <2>3, Zenon DEF Same
<1>9. \A a \in Peers : PeerOK(a, Other(a))'
  <2>1. \A a \in Peers : ~Up(a) => net'[Other(a)] = net[Other(a)]
    BY <1>1, <1>2, OtherPeer, Zenon DEF Send, TypeOK
  <2>2. \A a \in Peers, t \in Ids : a # p \/ t # s => phase'[a][t] = phase[a][t]
    BY <1>5, Zenon DEF Updates
  <2> QED
    BY <1>2, <2>1, <2>2, OpenerPeers, Zenon DEF muxVars
<1>10. Raised(p, s) /\ Woken(p, s) /\ UNCHANGED endVars
  BY <1>2, Zenon DEF Raised, Woken, endVars, writeVars
<1>11. PhaseStepOf(p, s)
  <2>1. s \in failed[p] => s \in remoteClosed[p]
    BY <1>1, Zenon DEF StateOK, Ending
  <2> QED
    BY <1>2, <1>5, <1>7, <1>8, <1>9, <1>10, <2>1, Zenon
       DEF PhaseStepOf, Updates, muxVars, endVars, recvVars, writeVars, readVars
<1>12. Issued(p, s)' = Window[p] /\ Credited(q, s)' = Credited(q, s) /\ Granted(p, s)' = Granted(p, s)
  <2>1. /\ phase'[p][s] = "open" /\ grant'[p][s] = 0 /\ Granted(p, s)' = Granted(p, s)
        /\ Credited(q, s)' = Credited(q, s)
    BY <1>2, <1>4, <1>5, Zenon DEF Granted, Credited, Updates, recvVars, readVars, sendVars
  <2> QED
    BY <1>0, <1>4, <2>1 DEF Issued
<1>13. Ledger(q, s, p)'
  <2>1. Credited(q, s)' <= Issued(p, s)'
    BY <1>0, <1>4, <1>12
  <2> QED
    BY <1>1, <1>2, <1>12, <2>1, Zenon DEF StateOK, Ledger, sendVars, recvVars, writeVars, endVars
<1>14. Handshake(p, s, q)'
  <2>1. phase'[q][s] = phase[q][s] /\ phase'[p][s] = "open"
    BY <1>0, <1>5, Zenon DEF Updates
  <2> QED
    BY <1>1, <1>2, <2>1, Zenon DEF StateOK, Handshake, Shut, PeerOwns,
       muxVars, endVars, recvVars, readVars
<1>15. CreditOK(p, s, q)'
  <2>1. /\ UNCHANGED <<cause, endVars, sendVars>> /\ Issued(p, s) = 0 /\ Issued(p, s)' = Window[p]
        /\ Send(p, Credit(s, 0, Window[p])) /\ q = Other(p)
    BY <1>2, <1>4, <1>12, Zenon DEF muxVars, f, q
  <2>2. 0 < Window[p] /\ Credited(q, s) <= 0
    BY <1>0, <1>4, Sizes
  <2> QED
    BY <1>0, <1>1, <1>7, <2>1, <2>2, SentCredit, Zenon
<1>16. OpenOK(p, s, q)'
  <2>1. /\ Keeps(net[p], net'[p], 0, "OPEN", s) /\ Keeps(net[p], net'[p], 0, "ACCEPT", s)
        /\ phase'[q][s] = phase[q][s] /\ phase'[p][s] \notin {"none", "created"}
    BY <1>0, <1>5, <1>6, Zenon DEF Kinds, KeepsBut, Updates
  <2> QED
    BY <1>0, <1>1, <1>7, <2>1, OpenSame, Zenon DEF TransitOK
<1>17. "WINDOW" \in {"OPEN", "WINDOW", "RESET"}
  BY Zenon
<1> QED
  BY <1>6, <1>11, <1>13, <1>14, <1>15, <1>16, <1>17, PhaseInv, Zenon DEF q

-----------------------------------------------------------------------------
(* Open gives up *)

\* Open gives up on its stream.
LEMMA GiveUpInv ==
    ASSUME IInv, NEW p \in Peers, NEW s \in Ids,
           phase[p][s] \in {"waiting", "accepted"}, phase[p][s] = "accepted" => ~Up(p),
           phase' = [phase EXCEPT ![p][s] = "failed"], RemoveStream(p, s),
           UNCHANGED <<cause, nextID, incoming, accepted, isOpen, localClosed, sendVars, recvVars,
                       left, chunk, grant, ender, violated>>,
           \/ RemoteCloseError(p, s)
           \/ /\ UNCHANGED <<remoteClosed, failed, writer, reading>>
              /\ Shut(p, s) /\ s \in remoteClosed[p],
           UNCHANGED net \/ Send(p, Control("RESET", s))
    PROVE  IInv'
<1> DEFINE q == Other(p)
           f == Control("RESET", s)
<1>0. q \in Peers /\ q # p /\ Other(q) = p /\ 0 \in {0, 1}
  BY OtherPeer, Zenon
<1>1. TypeOK /\ StateOK(p, s, q) /\ TransitOK(p, s, q) /\ StateOK(q, s, p)
  BY <1>0, Zenon DEF IInv
<1>2. f \in Frame /\ f.kind = "RESET" /\ f.id = s
  BY ControlFrame, Zenon DEF Kinds
<1> HIDE DEF f, q
<1>3. phase' \in Phases /\ Updates(phase, phase', p, s, "failed")
  <2>1. phase \in Phases
    BY <1>1, Zenon DEF TypeOK
  <2> QED
    BY <2>1, PhaseStep, Zenon
<1>4. net' \in [Peers -> Seq(Frame)] /\ KeepsBut(p, s, "RESET")
  <2>1. CASE UNCHANGED net
    BY <1>1, <2>1, StillChannel, Zenon DEF KeepsBut, TypeOK
  <2>2. CASE Send(p, f)
    BY <1>1, <1>2, <2>2, SendChannel, Zenon DEF KeepsBut
  <2> QED
    BY <2>1, <2>2, Zenon DEF f
<1>5. /\ remoteClosed' \in Sets /\ failed' \in Sets /\ reading' \in Sets /\ writer' \in Writers
      /\ s \in remoteClosed'[p] /\ Shut(p, s)' /\ Woken(p, s)
      /\ s \in remoteClosed[p] \/ s \in failed'[p]
      /\ s \in failed[p] => s \in failed'[p]
      /\ Flips(remoteClosed, remoteClosed', p, s) /\ Flips(failed, failed', p, s)
      /\ \A a \in Peers, t \in Ids : a # p \/ t # s => writer'[a][t] = writer[a][t]
  <2>1. CASE RemoteCloseError(p, s)
    BY <1>1, <2>1, FailEffect, WakeEffect, Zenon DEF Shut
  <2>2. CASE /\ UNCHANGED <<remoteClosed, failed, writer, reading>>
             /\ Shut(p, s) /\ s \in remoteClosed[p]
    BY <1>1, <2>2, Zenon DEF TypeOK, Shut, Flips, Woken
  <2> QED
    BY <2>1, <2>2, Zenon
<1>6. streams' \in Sets /\ Flips(streams, streams', p, s) /\ \A a \in Peers : streams'[a] \subseteq streams[a]
  <2>1. streams' \in Sets /\ Flips(streams, streams', p, s)
    BY <1>1, RemoveEffect, Zenon
  <2>2. \A a \in Peers : streams'[a] \subseteq streams[a]
    BY <1>1, Zenon DEF RemoveStream, Remove, TypeOK, Sets
  <2> QED
    BY <2>1, <2>2, Zenon
<1>7. TypeOK'
  BY <1>1, <1>3, <1>4, <1>5, <1>6, Zenon DEF TypeOK, sendVars, recvVars
<1>8. \A a \in Peers, t \in Ids : a # p \/ t # s => Same(a, t)
  <2> SUFFICES ASSUME NEW a \in Peers, NEW t \in Ids, a # p \/ t # s
               PROVE  Same(a, t)
    BY Zenon
  <2>1. SameSend(a, t) /\ SameRecv(a, t)
    BY Zenon DEF SameSend, SameRecv, sendVars, recvVars
  <2>2. SameWrite(a, t) /\ SameEnd(a, t)
    BY <1>5, Zenon DEF SameWrite, SameEnd, Flips
  <2>3. SameOpen(a, t)
    BY <1>3, <1>6, Zenon DEF SameOpen, Updates, Flips
  <2> QED
    BY <2>1, <2>2, <2>3, Zenon DEF Same
<1>9. \A a \in Peers : PeerOK(a, Other(a))'
  <2>1. \A a \in Peers : ~Up(a) => net'[Other(a)] = net[Other(a)]
    BY <1>1, OtherPeer, ZenonT(30) DEF Send, TypeOK
  <2>2. \A a \in Peers, t \in Ids : a # p \/ t # s => phase'[a][t] = phase[a][t]
    BY <1>3, Zenon DEF Updates
  <2>3. phase[p][s] \in {"created", "waiting", "accepted"}
    BY Zenon
  <2> QED
    BY <1>6, <2>1, <2>2, <2>3, OpenerPeers, Zenon
<1>10. Raised(p, s) /\ Raised(q, s)
  <2>1. Raised(p, s)
    BY <1>5, Zenon DEF Raised
  <2>2. Same(q, s)
    BY <1>0, <1>8, Zenon
  <2> QED
    BY <2>1, <2>2, Zenon DEF Same, SameEnd, Raised
<1>11. PhaseStepOf(p, s)
  BY <1>3, <1>5, <1>7, <1>8, <1>9, <1>10, Zenon DEF PhaseStepOf, Updates, recvVars
<1>12. /\ Issued(p, s) \in Nat /\ Issued(p, s)' \in Nat /\ Issued(p, s) <= Issued(p, s)'
       /\ Up(p) => Issued(p, s)' = Issued(p, s)
       /\ Granted(p, s)' = Granted(p, s) /\ Credited(q, s)' = Credited(q, s) /\ Credited(q, s) = 0
  <2>1. /\ phase'[p][s] = "failed" /\ grant' = grant /\ Granted(p, s)' = Granted(p, s)
        /\ Credited(q, s)' = Credited(q, s)
    BY <1>3, Zenon DEF Granted, Credited, Updates, recvVars, sendVars
  <2>2. phase[p][s] # "accepted" => s \notin windowAdvertised[p]
    BY <1>1, Zenon DEF StateOK, Handshake
  <2>3. /\ Issued(p, s) = 0 /\ grant[p][s] = 0 /\ Credited(q, s) = 0
        /\ phase[p][s] # "accepted" => Granted(p, s) = 0
        /\ phase[p][s] = "accepted" => Granted(p, s) = Window[p]
    BY <2>2, NoCreditYet, Zenon DEF q
  <2>4. Window[p] \in Nat
    BY Sizes, Zenon
  <2>5. Issued(p, s)' = Granted(p, s) - 0
    BY <2>1, <2>3, Zenon DEF Issued
  <2> QED
    BY <2>1, <2>3, <2>4, <2>5
<1>13. Ledger(q, s, p)'
  <2>1. Credited(q, s)' <= Issued(p, s)'
    BY <1>12
  <2> QED
    BY <1>1, <1>10, <1>12, <2>1, Zenon DEF StateOK, Ledger, Raised, sendVars, recvVars
<1>14. Handshake(p, s, q)'
  <2>1. phase'[q][s] = phase[q][s] /\ phase'[p][s] = "failed"
    BY <1>0, <1>3, Zenon DEF Updates
  <2> QED
    BY <1>1, <1>5, <2>1, Zenon DEF StateOK, Handshake, Shut, PeerOwns, recvVars
<1>15. CreditOK(p, s, q)'
  <2>1. /\ Keeps(net[p], net'[p], 0, "WINDOW", s) /\ net[p] \in Chan /\ net'[p] \in Chan
        /\ "WINDOW" \in Kinds
    BY <1>1, <1>4, <1>7, Zenon DEF KeepsBut, Kinds, TypeOK, Chan
  <2>2. CASE Up(p)
    BY <1>0, <1>1, <1>7, <1>10, <1>12, <2>1, <2>2, CreditSame, Zenon DEF TransitOK
  <2>3. CASE ~Up(p)
    <3>1. /\ Within(net[p], "WINDOW", s, Credited(q, s), Issued(p, s))
          /\ Shut(q, s) \/ Linked(net[p], "WINDOW", s, Credited(q, s))
          /\ \A i \in Of(net[p], "WINDOW", s) : net[p][i].from = 0 => net[p][i].to = Window[p]
      BY <1>1, Zenon DEF TransitOK, CreditOK
    <3>2. Within(net[p], "WINDOW", s, Credited(q, s), Issued(p, s)')
      <4>1. Credited(q, s) \in Nat
        BY <1>12
      <4> QED
        BY <1>12, <2>1, <3>1, <4>1, WithinMore, Zenon
    <3>3. Within(net'[p], "WINDOW", s, Credited(q, s), Issued(p, s)')
      BY <1>0, <2>1, <3>2, CarrySame, Zenon
    <3>4. Shut(q, s)' \/ Linked(net'[p], "WINDOW", s, Credited(q, s))
      BY <1>0, <1>10, <2>1, <3>1, CarrySame, Zenon DEF Shut, Raised
    <3>5. \A i \in Of(net'[p], "WINDOW", s) : net'[p][i].from = 0 => net'[p][i].to = Window[p]
      BY <2>1, <3>1, Zenon DEF Keeps
    <3> QED
      BY <1>12, <2>3, <3>3, <3>4, <3>5, Zenon DEF CreditOK, Up
  <2> QED
    BY <2>2, <2>3, Zenon
<1>16. OpenOK(p, s, q)'
  <2>1. /\ Keeps(net[p], net'[p], 0, "OPEN", s) /\ Keeps(net[p], net'[p], 0, "ACCEPT", s)
        /\ phase'[q][s] = phase[q][s] /\ phase'[p][s] \notin {"none", "created"}
    BY <1>0, <1>3, <1>4, Zenon DEF Kinds, KeepsBut, Updates
  <2> QED
    BY <1>0, <1>1, <1>7, <2>1, OpenSame, Zenon DEF TransitOK
<1>17. "RESET" \in {"OPEN", "WINDOW", "RESET"}
  BY Zenon
<1> QED
  BY <1>4, <1>11, <1>13, <1>14, <1>15, <1>16, <1>17, PhaseInv, Zenon DEF q

\* The mux shuts down before the window is sent.
LEMMA InitialWindowFailsInv ==
    ASSUME IInv, NEW p \in Peers, NEW s \in Ids, InitialWindowFails(p, s)
    PROVE  IInv'
  BY GiveUpInv, Zenon DEF InitialWindowFails

\* The context of Open ends.
LEMMA CancelOpenInv ==
    ASSUME IInv, NEW p \in Peers, NEW s \in Ids, CancelOpen(p, s)
    PROVE  IInv'
  BY GiveUpInv, Zenon DEF CancelOpen

\* Open returns the error it was given.
LEMMA OpenFailedInv ==
    ASSUME IInv, NEW p \in Peers, NEW s \in Ids, OpenFailed(p, s)
    PROVE  IInv'
<1>1. phase[p][s] = "waiting" /\ (accepted[p][s] = "err" \/ ~Up(p))
  BY Zenon DEF OpenFailed
<1>2. StateOK(p, s, Other(p)) /\ PeerOK(p, Other(p))
  BY Zenon DEF IInv
<1>3. Shut(p, s) /\ s \in remoteClosed[p]
  BY <1>1, <1>2, Zenon DEF StateOK, Handshake, Ending, Shut, PeerOK
<1> QED
  BY <1>3, GiveUpInv, Zenon DEF OpenFailed, endVars, writeVars, readVars

-----------------------------------------------------------------------------
(* Accept and newLocalStream *)

\* Accept takes the next stream.
LEMMA AcceptInv ==
    ASSUME IInv, NEW p \in Peers, Accept(p)
    PROVE  IInv'
<1> DEFINE q == Other(p)
<1>0. q \in Peers /\ q # p /\ Other(q) = p /\ 0 \in {0, 1}
  BY OtherPeer, Zenon
<1>1. TypeOK /\ PeerOK(p, q) /\ PeerOK(q, p) /\ incoming[p] \in Seq(Ids) /\ incoming[p] # <<>>
  BY <1>0, Zenon DEF IInv, Accept, TypeOK
<1>2. PICK s \in Ids : s = Head(incoming[p]) /\ s = incoming[p][1] /\ 1 \in 1..Len(incoming[p])
  BY <1>1
<1>3. /\ phase' = [phase EXCEPT ![p][s] = "open"]
      /\ incoming' = [incoming EXCEPT ![p] = Tail(incoming[p])]
      /\ UNCHANGED <<cause, nextID, streams, net, accepted, isOpen, endVars, sendVars, recvVars,
                     writeVars, readVars, ender, violated>>
  BY <1>2, Zenon DEF Accept
<1>4. phase[p][s] \in {"queued", "open"}
  BY <1>1, <1>2, Zenon DEF PeerOK
<1>5. StateOK(p, s, q) /\ TransitOK(p, s, q) /\ StateOK(q, s, p)
  BY <1>0, Zenon DEF IInv
<1> HIDE DEF q
<1>6. phase' \in Phases /\ Updates(phase, phase', p, s, "open")
  <2>1. phase \in Phases
    BY <1>1, Zenon DEF TypeOK
  <2> QED
    BY <1>3, <2>1, PhaseStep, Zenon
<1>7. /\ Tail(incoming[p]) \in Seq(Ids)
      /\ \A i \in 1..Len(Tail(incoming[p])) : /\ i + 1 \in 1..Len(incoming[p])
                                              /\ Tail(incoming[p])[i] = incoming[p][i + 1]
  BY <1>1
<1>8. /\ incoming' \in [Peers -> Seq(Ids)] /\ incoming'[p] = Tail(incoming[p])
      /\ \A a \in Peers : a # p => incoming'[a] = incoming[a]
  BY <1>1, <1>3, <1>7, Zenon DEF TypeOK
<1>9. TypeOK'
  BY <1>1, <1>3, <1>6, <1>8, Zenon DEF TypeOK, endVars, sendVars, recvVars, writeVars, readVars
<1>10. \A a \in Peers, t \in Ids : a # p \/ t # s => Same(a, t)
  <2> SUFFICES ASSUME NEW a \in Peers, NEW t \in Ids, a # p \/ t # s
               PROVE  Same(a, t)
    BY Zenon
  <2>1. SameSend(a, t) /\ SameEnd(a, t)
    BY <1>3, Zenon DEF SameSend, SameEnd, sendVars, endVars
  <2>2. SameRecv(a, t) /\ SameWrite(a, t)
    BY <1>3, Zenon DEF SameRecv, SameWrite, recvVars, readVars, writeVars
  <2>3. SameOpen(a, t)
    BY <1>3, <1>6, Zenon DEF SameOpen, Updates
  <2> QED
    BY <2>1, <2>2, <2>3, Zenon DEF Same
<1>11. PeerOK(p, q)'
  <2>1. ASSUME NEW i \in 1..Len(incoming'[p])
        PROVE  phase'[p][incoming'[p][i]] \in {"queued", "open"}
    <3>1. i + 1 \in 1..Len(incoming[p]) /\ incoming'[p][i] = incoming[p][i + 1]
      BY <1>7, <1>8, Zenon
    <3>2. phase[p][incoming'[p][i]] \in {"queued", "open"}
      BY <1>1, <3>1, Zenon DEF PeerOK
    <3>3. incoming'[p][i] \in Ids
      BY <1>1, <3>1
    <3> QED
      BY <1>6, <3>2, <3>3, Zenon DEF Updates
  <2> QED
    BY <1>1, <1>3, <2>1, Zenon DEF PeerOK, PeerOwns, Up
<1>12. PeerOK(q, p)'
  <2>1. ASSUME NEW i \in 1..Len(incoming[q])
        PROVE  phase'[q][incoming[q][i]] \in {"queued", "open"}
    <3>1. phase[q][incoming[q][i]] \in {"queued", "open"}
      BY <1>1, Zenon DEF PeerOK
    <3>2. incoming[q] \in Seq(Ids)
      BY <1>0, <1>1, Zenon DEF TypeOK
    <3>3. incoming[q][i] \in Ids
      BY <3>2
    <3> QED
      BY <1>0, <1>6, <3>1, <3>3, Zenon DEF Updates
  <2> QED
    BY <1>0, <1>1, <1>3, <1>8, <2>1, Zenon DEF PeerOK, PeerOwns, Up
<1>13. \A a \in Peers : PeerOK(a, Other(a))'
  BY <1>0, <1>11, <1>12, OtherPeer, Zenon DEF q
<1>14. Raised(p, s) /\ Woken(p, s) /\ UNCHANGED endVars
  BY <1>3, Zenon DEF Raised, Woken, endVars, writeVars
<1>15. PhaseStepOf(p, s)
  <2>1. s \in failed[p] => s \in remoteClosed[p]
    BY <1>5, Zenon DEF StateOK, Ending
  <2> QED
    BY <1>3, <1>4, <1>6, <1>9, <1>10, <1>13, <1>14, <2>1, Zenon
       DEF PhaseStepOf, Updates, endVars, recvVars, writeVars, readVars
<1>16. Issued(p, s)' = Issued(p, s) /\ Credited(q, s)' = Credited(q, s)
  BY <1>3, <1>4, <1>6, Zenon DEF Issued, Granted, Credited, Updates, recvVars, readVars, sendVars
<1>17. Ledger(q, s, p)'
  <2>1. SameSend(q, s) /\ SameRecv(p, s) /\ chunk'[q][s] = chunk[q][s]
    BY <1>3, Zenon DEF SameSend, SameRecv, sendVars, recvVars, readVars, writeVars
  <2> QED
    BY <1>0, <1>5, <1>14, <1>16, <2>1, LedgerSame, Zenon DEF StateOK
<1>18. Handshake(p, s, q)'
  <2>1. phase'[q][s] = phase[q][s] /\ phase'[p][s] = "open"
    BY <1>0, <1>6, Zenon DEF Updates
  <2> QED
    BY <1>3, <1>4, <1>5, <2>1, Zenon DEF StateOK, Handshake, Shut, PeerOwns,
       endVars, recvVars, readVars
<1>19. KeepsBut(p, s, "RESET") /\ "RESET" \in {"OPEN", "WINDOW", "RESET"}
  BY <1>1, <1>3, StillChannel, Zenon DEF KeepsBut
<1>20. CreditOK(p, s, q)' /\ OpenOK(p, s, q)'
  <2>1. /\ Keeps(net[p], net'[p], 0, "WINDOW", s) /\ Keeps(net[p], net'[p], 0, "OPEN", s)
        /\ Keeps(net[p], net'[p], 0, "ACCEPT", s) /\ cause' = cause /\ Raised(q, s)
        /\ phase'[q][s] = phase[q][s] /\ phase'[p][s] \notin {"none", "created"}
    BY <1>0, <1>3, <1>6, <1>19, Zenon DEF KeepsBut, Kinds, Raised, endVars, Updates
  <2>2. CreditOK(p, s, q)'
    BY <1>0, <1>1, <1>5, <1>9, <1>16, <2>1, CreditSame, Zenon DEF TransitOK
  <2>3. OpenOK(p, s, q)'
    BY <1>0, <1>1, <1>5, <1>9, <2>1, OpenSame, Zenon DEF TransitOK
  <2> QED
    BY <2>2, <2>3, Zenon
<1> QED
  BY <1>15, <1>17, <1>18, <1>19, <1>20, PhaseInv, Zenon DEF q

\* Consecutive identifiers of one side have the same parity.
LEMMA IdParity ==
    ASSUME NEW q \in Peers, NEW i \in Nat, PeerOwns(q, i)
    PROVE  PeerOwns(q, IdAfter(i)) /\ IdAfter(i) \in Nat \ {0} /\ ~(i >= IdAfter(i))
           /\ \A t \in Nat : t >= IdAfter(i) => t >= i
<1>1. (i + 2) % 2 = i % 2
  OBVIOUS
<1> QED
  BY <1>1 DEF IdAfter, PeerOwns

\* newLocalStream takes an ID nobody has used.
LEMMA NewLocalStreamInv ==
    ASSUME IInv, NEW p \in Peers, NewLocalStream(p)
    PROVE  IInv'
<1> DEFINE q == Other(p)
<1>0. q \in Peers /\ q # p /\ Other(q) = p /\ 0 \in {0, 1}
  BY OtherPeer, Zenon
<1>1. TypeOK /\ PeerOK(p, q) /\ PeerOK(q, p)
  BY <1>0, Zenon DEF IInv
<1>2. PICK s \in Ids : s = nextID[p]
  BY Zenon DEF NewLocalStream
<1>3. /\ Up(p) /\ phase' = [phase EXCEPT ![p][s] = "created"]
      /\ nextID' = [nextID EXCEPT ![p] = IdAfter(s)] /\ streams' = Add(streams, p, s)
      /\ UNCHANGED <<cause, incoming, net, accepted, isOpen, endVars, sendVars, recvVars, writeVars,
                     readVars, ender, violated>>
  BY <1>2, Zenon DEF NewLocalStream
<1>4. StateOK(p, s, q) /\ TransitOK(p, s, q) /\ StateOK(q, s, p) /\ TransitOK(q, s, p)
  BY <1>0, Zenon DEF IInv
<1>5. PeerOwns(q, s) /\ ~PeerOwns(p, s)
  BY <1>0, <1>1, <1>2, Zenon DEF PeerOK, PeerOwns, Peers
<1>6. /\ PeerOwns(q, IdAfter(s)) /\ IdAfter(s) \in Nat \ {0} /\ ~(s >= IdAfter(s))
      /\ \A t \in Ids : t >= IdAfter(s) => t >= s
  <2>1. s \in Nat /\ \A t \in Ids : t \in Nat
    BY BoundAssumption DEF Ids
  <2> QED
    BY <1>0, <1>5, <2>1, IdParity, Zenon
<1>7. phase[p][s] = "none"
  <2>1. s >= nextID[p]
    BY <1>2, BoundAssumption DEF Ids
  <2> QED
    BY <1>4, <1>5, <2>1, Zenon DEF StateOK, Handshake
<1> HIDE DEF q
<1>8. phase' \in Phases /\ Updates(phase, phase', p, s, "created")
  <2>1. phase \in Phases
    BY <1>1, Zenon DEF TypeOK
  <2> QED
    BY <1>3, <2>1, PhaseStep, Zenon
<1>9. /\ streams' \in Sets /\ Flips(streams, streams', p, s) /\ s \in streams'[p]
      /\ \A a \in Peers : a # p => streams'[a] = streams[a]
  <2>1. streams \in Sets
    BY <1>1, Zenon DEF TypeOK
  <2>2. streams' \in Sets /\ Flips(streams, streams', p, s) /\ s \in streams'[p]
    BY <1>3, <2>1, AddStep, Zenon
  <2> QED
    BY <1>3, <2>1, <2>2, Zenon DEF Add, Sets
<1>10. /\ nextID' \in [Peers -> Nat \ {0}] /\ nextID'[p] = IdAfter(s)
       /\ \A a \in Peers : a # p => nextID'[a] = nextID[a]
  BY <1>1, <1>3, <1>6, Zenon DEF TypeOK
<1>11. TypeOK'
  BY <1>1, <1>3, <1>8, <1>9, <1>10, Zenon DEF TypeOK, endVars, sendVars, recvVars, writeVars, readVars
<1>12. \A a \in Peers, t \in Ids : a # p \/ t # s => Same(a, t)
  <2> SUFFICES ASSUME NEW a \in Peers, NEW t \in Ids, a # p \/ t # s
               PROVE  Same(a, t)
    BY Zenon
  <2>1. SameSend(a, t) /\ SameEnd(a, t)
    BY <1>3, Zenon DEF SameSend, SameEnd, sendVars, endVars
  <2>2. SameRecv(a, t) /\ SameWrite(a, t)
    BY <1>3, Zenon DEF SameRecv, SameWrite, recvVars, readVars, writeVars
  <2>3. SameOpen(a, t)
    BY <1>3, <1>8, <1>9, Zenon DEF SameOpen, Updates, Flips
  <2> QED
    BY <2>1, <2>2, <2>3, Zenon DEF Same
<1>13. \A a \in Peers : Advances(a)
  BY <1>2, <1>6, <1>10, Zenon DEF Advances
<1>14. ASSUME NEW a \in Peers, PeerOK(a, Other(a)), NEW i \in 1..Len(incoming[a])
       PROVE  phase'[a][incoming[a][i]] \in {"queued", "open"}
  <2>1. phase[a][incoming[a][i]] \in {"queued", "open"}
    BY <1>14, Zenon DEF PeerOK
  <2>2. incoming[a] \in Seq(Ids)
    BY <1>1, Zenon DEF TypeOK
  <2>3. incoming[a][i] \in Ids
    BY <2>2
  <2> QED
    BY <1>7, <1>8, <2>1, <2>3, Zenon DEF Updates
<1>15. PeerOK(p, q)'
  BY <1>1, <1>3, <1>6, <1>10, <1>14, Zenon DEF PeerOK, PeerOwns, Up, q
<1>16. PeerOK(q, p)'
  BY <1>0, <1>1, <1>3, <1>9, <1>10, <1>14, Zenon DEF PeerOK, PeerOwns, Up
<1>17. OneStream(p, s)
  <2>1. \A a \in Peers : PeerOK(a, Other(a))'
    BY <1>0, <1>15, <1>16, OtherPeer, Zenon DEF q
  <2>2. \A a \in Peers, t \in Ids \ {s} : \E d \in {0, 1} :
            \A k \in Kinds : Keeps(net[a], net'[a], d, k, t)
    BY <1>0, <1>1, <1>3, StillChannel, Zenon
  <2>3. FlowConforms'
    BY <1>3, Zenon DEF IInv, FlowConforms
  <2> QED
    BY <1>3, <1>11, <1>12, <1>13, <2>1, <2>2, <2>3, Zenon DEF OneStream
<1>18. /\ SameSend(p, s) /\ SameRecv(p, s) /\ SameEnd(p, s) /\ SameWrite(p, s) /\ Raised(p, s) /\ Woken(p, s)
       /\ SameSend(q, s) /\ SameRecv(q, s) /\ SameEnd(q, s) /\ SameWrite(q, s) /\ Raised(q, s) /\ Woken(q, s)
       /\ SameOpen(q, s) /\ phase'[p][s] = "created" /\ phase'[q][s] = phase[q][s]
  <2>1. SameSend(p, s) /\ SameRecv(p, s) /\ SameEnd(p, s) /\ SameWrite(p, s) /\ Raised(p, s) /\ Woken(p, s)
    BY <1>3, Zenon DEF SameSend, SameRecv, SameEnd, SameWrite, Raised, Woken,
       endVars, sendVars, recvVars, writeVars, readVars
  <2>2. Same(q, s)
    BY <1>0, <1>12, Zenon
  <2>3. phase'[p][s] = "created"
    BY <1>8, Zenon DEF Updates
  <2> QED
    BY <2>1, <2>2, <2>3, Zenon DEF Same, SameEnd, SameWrite, SameOpen, Raised, Woken
<1>19. /\ Issued(p, s)' = Issued(p, s) /\ Issued(q, s)' = Issued(q, s)
       /\ Credited(p, s)' = Credited(p, s) /\ Credited(q, s)' = Credited(q, s)
       /\ chunk' = chunk /\ sent' = sent /\ delivered' = delivered /\ left' = left /\ cause' = cause
  <2>1. Issued(p, s)' = Issued(p, s) /\ Issued(q, s)' = Issued(q, s)
    BY <1>7, <1>18, Zenon DEF Issued, Granted, SameRecv
  <2> QED
    BY <1>3, <2>1, Zenon DEF Credited, sendVars, recvVars, writeVars
<1>20. Handshake(p, s, q)'
  BY <1>3, <1>4, <1>5, <1>6, <1>7, <1>9, <1>10, <1>18, Zenon DEF StateOK, Handshake, SameRecv, PeerOwns, Shut, endVars
<1>21. Handshake(q, s, p)'
  BY <1>4, <1>5, <1>0, <1>10, <1>18, Zenon DEF StateOK, Handshake, SameRecv, SameOpen, SameEnd, PeerOwns, Shut
<1>22. StateOK(p, s, q)'
  BY <1>0, <1>4, <1>18, <1>19, <1>20, LedgerSame, WriterSame, EndingSame, Zenon DEF StateOK, SameEnd
<1>23. StateOK(q, s, p)'
  BY <1>0, <1>4, <1>18, <1>19, <1>21, LedgerSame, WriterSame, EndingSame, Zenon DEF StateOK, SameEnd
<1>24. /\ \A k \in Kinds : Keeps(net[p], net'[p], 0, k, s) /\ Keeps(net[q], net'[q], 0, k, s)
       /\ {"DATA", "CLOSE", "WINDOW"} \subseteq Kinds /\ net' = net
  BY <1>0, <1>1, <1>3, StillChannel, Zenon DEF Kinds
<1>25. OpenOK(p, s, q)' /\ OpenOK(q, s, p)'
  BY <1>4, <1>5, <1>7, <1>18, <1>24, Zenon DEF TransitOK, OpenOK, PeerOwns
<1>26. (Finished(p, s) => Finished(p, s)') /\ (Finished(q, s) => Finished(q, s)')
  BY <1>18, Zenon DEF Finished, SameEnd, SameWrite
<1>27. TransitOK(p, s, q)'
  BY <1>0, <1>1, <1>4, <1>11, <1>18, <1>19, <1>24, <1>25, <1>26, DataSame, CreditSame, CloseSame, Zenon DEF TransitOK
<1>28. TransitOK(q, s, p)'
  BY <1>0, <1>1, <1>4, <1>11, <1>18, <1>19, <1>24, <1>25, <1>26, DataSame, CreditSame, CloseSame, Zenon DEF TransitOK
<1> QED
  BY <1>17, <1>22, <1>23, <1>27, <1>28, StepInv, Zenon DEF q

-----------------------------------------------------------------------------
(* handleOpen *)

\* Two frames queued, one after the other.
LEMMA KeepsZero ==
    ASSUME NEW fs \in Chan, NEW k \in Kinds, NEW s \in Ids, NEW gs
    PROVE  Keeps(fs, gs, 0, k, s) <=> /\ Of(gs, k, s) = Of(fs, k, s)
                                      /\ \A i \in Of(fs, k, s) : gs[i] = fs[i]
<1>1. \A i \in Of(fs, k, s) : i \in Nat \ {0} /\ i > 0
  BY OfFrames
<1>2. {i \in Nat \ {0} : i + 0 \in Of(fs, k, s)} = Of(fs, k, s)
  BY <1>1
<1>3. \A i \in Of(fs, k, s) : i + 0 = i
  BY <1>1
<1>4. ASSUME Of(gs, k, s) = Of(fs, k, s)
      PROVE  (\A i \in Of(gs, k, s) : gs[i] = fs[i + 0]) <=> \A i \in Of(fs, k, s) : gs[i] = fs[i]
  BY <1>3, <1>4
<1>5. Keeps(fs, gs, 0, k, s) <=> /\ Of(gs, k, s) = {i \in Nat \ {0} : i + 0 \in Of(fs, k, s)}
                                 /\ \A i \in Of(gs, k, s) : gs[i] = fs[i + 0]
  BY <1>1, Zenon DEF Keeps
<1> QED
  BY <1>2, <1>4, <1>5, Zenon

\* Two changes that leave the frames of a kind and stream alone do so together.
LEMMA KeepsTwice ==
    ASSUME NEW fs \in Chan, NEW ms \in Chan, NEW gs, NEW k \in Kinds, NEW s \in Ids,
           Keeps(fs, ms, 0, k, s), Keeps(ms, gs, 0, k, s)
    PROVE  Keeps(fs, gs, 0, k, s)
<1>1. /\ Of(ms, k, s) = Of(fs, k, s) /\ \A i \in Of(fs, k, s) : ms[i] = fs[i]
      /\ Of(gs, k, s) = Of(ms, k, s) /\ \A i \in Of(ms, k, s) : gs[i] = ms[i]
  BY KeepsZero
<1>2. Of(gs, k, s) = Of(fs, k, s) /\ \A i \in Of(fs, k, s) : gs[i] = fs[i]
  BY <1>1, Zenon
<1> QED
  BY <1>2, KeepsZero

\* handleOpen takes the OPEN and queues ACCEPT and the initial WINDOW.
LEMMA OpenChannel ==
    ASSUME TypeOK, NEW p \in Peers, NEW s \in Ids, net[Other(p)] # <<>>,
           Arrived(p).kind = "OPEN", Arrived(p).id = s,
           NEW f \in Frame, f.kind = "ACCEPT", f.id = s, NEW g \in Frame, g.kind = "WINDOW", g.id = s,
           net' = IF Up(Other(p))
                  THEN [net EXCEPT ![Other(p)] = Tail(@), ![p] = Append(Append(@, f), g)]
                  ELSE [net EXCEPT ![Other(p)] = Tail(@)]
    PROVE  /\ net' \in [Peers -> Seq(Frame)] /\ net[p] \in Chan /\ net[Other(p)] \in Chan
           /\ Drops(net[Other(p)], net'[Other(p)]) /\ net[Other(p)][1] = Arrived(p)
           /\ \A k \in Kinds, t \in Ids :
                /\ k # "OPEN" \/ t # s => Keeps(net[Other(p)], net'[Other(p)], 1, k, t)
                /\ k \notin {"ACCEPT", "WINDOW"} \/ t # s => Keeps(net[p], net'[p], 0, k, t)
           /\ IF Up(Other(p))
              THEN \E mid \in Chan : Appends(net[p], f, mid) /\ Appends(mid, g, net'[p])
              ELSE net'[p] = net[p]
<1> DEFINE q == Other(p)
           mid == Append(net[p], f)
<1>1. q \in Peers /\ q # p /\ net[p] \in Chan /\ net[q] \in Chan /\ net \in [Peers -> Chan]
  BY OtherPeer, Zenon DEF TypeOK, Chan
<1>2. mid \in Chan /\ Appends(net[p], f, mid)
  BY <1>1, ChanAppend, Zenon
<1>3. Append(mid, g) \in Chan /\ Appends(mid, g, Append(mid, g))
  BY <1>2, ChanAppend, Zenon
<1>4. /\ Tail(net[q]) \in Chan /\ Drops(net[q], Tail(net[q]))
      /\ Arrived(p) = net[q][1] /\ Arrived(p) \in Frame
  BY <1>1, ChanTail, Zenon DEF Arrived
<1> HIDE DEF mid, q
<1>5. /\ net' \in [Peers -> Chan] /\ net'[q] = Tail(net[q])
      /\ IF Up(q) THEN net'[p] = Append(mid, g) ELSE net'[p] = net[p]
  <2>1. CASE Up(q)
    <3>1. net' = [net EXCEPT ![q] = Tail(net[q]), ![p] = Append(mid, g)]
      BY <2>1, <1>1, Zenon DEF q, mid
    <3> QED
      BY <1>1, <1>3, <1>4, <2>1, <3>1, Zenon
  <2>2. CASE ~Up(q)
    <3>1. net' = [net EXCEPT ![q] = Tail(net[q])]
      BY <2>2, Zenon DEF q
    <3> QED
      BY <1>1, <1>4, <2>2, <3>1, Zenon
  <2> QED
    BY <2>1, <2>2, Zenon
<1>6. ASSUME NEW k \in Kinds, NEW t \in Ids, k # "OPEN" \/ t # s
      PROVE  Keeps(net[q], net'[q], 1, k, t)
  <2>1. Drops(net[q], net'[q]) /\ (net[q][1].kind # k \/ net[q][1].id # t)
    BY <1>4, <1>5, <1>6, Zenon
  <2> QED
    BY <1>1, <2>1, KeepsDrop, Zenon
<1>7. ASSUME NEW k \in Kinds, NEW t \in Ids, k \notin {"ACCEPT", "WINDOW"} \/ t # s
      PROVE  Keeps(net[p], net'[p], 0, k, t)
  <2>1. CASE Up(q)
    <3>1. Keeps(net[p], mid, 0, k, t)
      BY <1>1, <1>2, <1>7, KeepsAppend, Zenon
    <3>2. Keeps(mid, net'[p], 0, k, t)
      <4>1. Appends(mid, g, net'[p]) /\ (g.kind # k \/ g.id # t)
        BY <1>3, <1>5, <1>7, <2>1, Zenon
      <4> QED
        BY <1>2, <4>1, KeepsAppend, Zenon
    <3> QED
      BY <1>1, <1>2, <3>1, <3>2, KeepsTwice, Zenon
  <2>2. CASE ~Up(q)
    BY <1>1, <1>5, <2>2, KeepsSame, Zenon
  <2> QED
    BY <2>1, <2>2, Zenon
<1> QED
  BY <1>1, <1>2, <1>3, <1>4, <1>5, <1>6, <1>7, Zenon DEF Chan, q

\* The OPEN that arrives is the only one of its stream, and the stream is new at p.
LEMMA OpenArrives ==
    ASSUME IInv, NEW p \in Peers, Arrives(p, "OPEN"), NEW s \in Ids, s = Arrived(p).id
    PROVE  /\ PeerOwns(p, s) /\ phase[p][s] = "none" /\ phase[Other(p)][s] \notin {"none", "created"}
           /\ \A i \in Of(net[Other(p)], "OPEN", s) : i = 1
           /\ s \notin windowAdvertised[p]
<1> DEFINE q == Other(p)
<1>1. TypeOK /\ q \in Peers /\ Other(q) = p
  BY OtherPeer, Zenon DEF IInv
<1>2. OpenOK(q, s, p) /\ Handshake(p, s, q)
  BY <1>1, Zenon DEF IInv, TransitOK, StateOK
<1>3. 1 \in Of(net[q], "OPEN", s)
  BY <1>1, ArrivedOf, Zenon DEF Kinds
<1> QED
  BY <1>2, <1>3, Zenon DEF OpenOK, Handshake

\* The initial WINDOW is the only one in transit.
LEMMA FirstCredit ==
    ASSUME NEW fs \in Chan, NEW gs, NEW mid \in Chan, NEW s \in Ids, NEW w \in Nat, w > 0,
           Within(fs, "WINDOW", s, 0, 0),
           NEW f \in Frame, f.kind = "ACCEPT", Appends(fs, f, mid),
           Appends(mid, Credit(s, 0, w), gs)
    PROVE  /\ Within(gs, "WINDOW", s, 0, w) /\ Linked(gs, "WINDOW", s, 0)
           /\ Reaches(gs, "WINDOW", s, 0, w)
           /\ \A i \in Of(gs, "WINDOW", s) : gs[i].to = w
<1>1. /\ Credit(s, 0, w) \in Frame /\ Credit(s, 0, w).kind = "WINDOW" /\ Credit(s, 0, w).id = s
      /\ Credit(s, 0, w).from = 0 /\ Credit(s, 0, w).to = w /\ "WINDOW" \in Kinds
  BY CreditFrame DEF Kinds
<1>2. Of(fs, "WINDOW", s) = {}
  <2>1. \A i \in Of(fs, "WINDOW", s) : /\ fs[i].from \in Nat /\ fs[i].to \in Nat
                                       /\ 0 <= fs[i].from /\ fs[i].from < fs[i].to /\ fs[i].to <= 0
    BY <1>1, OfFrames, Zenon DEF Within
  <2> QED
    BY <2>1
<1>3. Of(mid, "WINDOW", s) = {}
  <2>1. ~(f.kind = "WINDOW" /\ f.id = s)
    OBVIOUS
  <2> QED
    BY <1>1, <1>2, <2>1, AppendOf
<1>4. Of(gs, "WINDOW", s) = {Len(mid) + 1} /\ gs[Len(mid) + 1] = Credit(s, 0, w) /\ Len(mid) \in Nat
  BY <1>1, <1>3, AppendOf
<1>5. Within(gs, "WINDOW", s, 0, w)
  BY <1>1, <1>4 DEF Within
<1> QED
  BY <1>1, <1>4, <1>5, Zenon DEF Linked, Reaches

\* handleOpen accepts a new stream and advertises its window.
LEMMA AcceptOpenInv ==
    ASSUME IInv, NEW p \in Peers, AcceptOpen(p), NEW s \in Ids, s = Arrived(p).id, s \notin streams[p]
    PROVE  IInv'
<1> DEFINE q == Other(p)
           f == Control("ACCEPT", s)
           g == Credit(s, 0, Window[p])
<1>0. q \in Peers /\ q # p /\ Other(q) = p /\ 0 \in {0, 1} /\ 1 \in {0, 1}
  BY OtherPeer, Zenon
<1>1. /\ TypeOK /\ Arrives(p, "OPEN") /\ net[q] # <<>> /\ Arrived(p).kind = "OPEN" /\ Arrived(p).id = s /\ Up(p)
      /\ PeerOwns(p, s) /\ phase[p][s] = "none" /\ phase[q][s] \notin {"none", "created"}
      /\ \A i \in Of(net[q], "OPEN", s) : i = 1
      /\ s \notin windowAdvertised[p]
  <2>1. Arrives(p, "OPEN") /\ TypeOK
    BY Zenon DEF AcceptOpen, IInv
  <2> QED
    BY <2>1, OpenArrives, Zenon DEF Arrives
<1>2. Window[p] \in Nat /\ Window[p] > 0 /\ 0 \in Nat
  BY Sizes
<1>3. f \in Frame /\ f.kind = "ACCEPT" /\ f.id = s /\ g \in Frame /\ g.kind = "WINDOW" /\ g.id = s
  <2>1. f \in Frame /\ f.kind = "ACCEPT" /\ f.id = s
    BY ControlFrame, Zenon DEF Kinds
  <2>2. g \in Frame /\ g.kind = "WINDOW" /\ g.id = s
    BY <1>2, CreditFrame
  <2> QED
    BY <2>1, <2>2, Zenon
<1>4. /\ net' = IF Up(q) THEN [net EXCEPT ![q] = Tail(@), ![p] = Append(Append(@, f), g)]
                ELSE [net EXCEPT ![q] = Tail(@)]
      /\ streams' = Add(streams, p, s)
      /\ incoming' = [incoming EXCEPT ![p] = Append(@, s)]
      /\ phase' = [phase EXCEPT ![p][s] = "queued"]
      /\ isOpen' = Add(isOpen, p, s)
      /\ windowAdvertised' = Add(windowAdvertised, p, s)
      /\ recvCredit' = [recvCredit EXCEPT ![p][s] = Window[p]]
      /\ UNCHANGED <<pendingWindow, delivered, consumed>>
      /\ UNCHANGED <<cause, nextID, accepted, endVars, sendVars, writeVars, readVars, ender, violated>>
  <2>1. <<f, g>>[1] = f /\ <<f, g>>[2] = g
    OBVIOUS
  <2> QED
    BY <1>1, <2>1 DEF AcceptOpen, InitializeReceiveWindow
<1>5. StateOK(p, s, q) /\ TransitOK(p, s, q) /\ StateOK(q, s, p) /\ TransitOK(q, s, p)
  BY <1>0, Zenon DEF IInv
<1>6. PeerOK(p, q) /\ PeerOK(q, p)
  BY <1>0, Zenon DEF IInv
<1> HIDE DEF f, g
<1>7. /\ net' \in [Peers -> Seq(Frame)] /\ net[p] \in Chan /\ net[q] \in Chan
      /\ Drops(net[q], net'[q]) /\ net[q][1] = Arrived(p)
      /\ \A k \in Kinds, t \in Ids :
           /\ k # "OPEN" \/ t # s => Keeps(net[q], net'[q], 1, k, t)
           /\ k \notin {"ACCEPT", "WINDOW"} \/ t # s => Keeps(net[p], net'[p], 0, k, t)
      /\ IF Up(q) THEN \E mid \in Chan : Appends(net[p], f, mid) /\ Appends(mid, g, net'[p])
                  ELSE net'[p] = net[p]
  BY <1>1, <1>3, <1>4, OpenChannel, Zenon
<1>8. /\ Credited(q, s) = 0 /\ Issued(p, s) = 0 /\ grant[p][s] = 0
      /\ delivered[p][s] = 0 /\ consumed[p][s] = 0 /\ pendingWindow[p][s] = 0
  BY <1>1, NoCreditYet, Zenon
<1> HIDE DEF q, f, g
<1>9. phase' \in Phases /\ Updates(phase, phase', p, s, "queued")
  <2>1. phase \in Phases
    BY <1>1, Zenon DEF TypeOK
  <2> QED
    BY <1>4, <2>1, PhaseStep, Zenon
<1>10. recvCredit' \in Counters /\ Updates(recvCredit, recvCredit', p, s, Window[p])
  <2>1. recvCredit \in Counters
    BY <1>1, Zenon DEF TypeOK
  <2> QED
    BY <1>2, <1>4, <2>1, CounterStep, Zenon
<1>11. /\ windowAdvertised' \in Sets /\ Flips(windowAdvertised, windowAdvertised', p, s)
       /\ isOpen' \in Sets /\ Flips(isOpen, isOpen', p, s)
       /\ streams' \in Sets /\ Flips(streams, streams', p, s)
       /\ s \in windowAdvertised'[p] /\ s \in isOpen'[p] /\ s \in streams'[p]
       /\ streams'[q] = streams[q]
  <2>1. windowAdvertised \in Sets /\ isOpen \in Sets /\ streams \in Sets
    BY <1>1, Zenon DEF TypeOK
  <2>2. streams'[q] = streams[q]
    BY <1>0, <1>4, <2>1, Zenon DEF Add, Sets
  <2> QED
    BY <1>4, <2>1, <2>2, AddStep, Zenon
<1>12. /\ incoming' \in [Peers -> Seq(Ids)] /\ incoming'[q] = incoming[q]
       /\ incoming[p] \in Seq(Ids) /\ incoming[q] \in Seq(Ids)
       /\ \A i \in 1..Len(incoming'[p]) :
            \/ incoming'[p][i] = s
            \/ i \in 1..Len(incoming[p]) /\ incoming'[p][i] = incoming[p][i]
  <2>1. incoming[p] \in Seq(Ids) /\ incoming[q] \in Seq(Ids) /\ incoming \in [Peers -> Seq(Ids)]
    BY <1>0, <1>1, Zenon DEF TypeOK
  <2>2. /\ Append(incoming[p], s) \in Seq(Ids)
        /\ \A i \in 1..Len(Append(incoming[p], s)) :
             \/ Append(incoming[p], s)[i] = s
             \/ i \in 1..Len(incoming[p]) /\ Append(incoming[p], s)[i] = incoming[p][i]
    BY <2>1
  <2>3. incoming'[p] = Append(incoming[p], s) /\ incoming'[q] = incoming[q]
        /\ incoming' \in [Peers -> Seq(Ids)]
    BY <1>0, <1>4, <2>1, <2>2, Zenon
  <2> QED
    BY <2>1, <2>2, <2>3, Zenon
<1>13. TypeOK'
  BY <1>1, <1>4, <1>7, <1>9, <1>10, <1>11, <1>12, Zenon DEF TypeOK, endVars, sendVars, writeVars, readVars
<1>14. \A a \in Peers, t \in Ids : a # p \/ t # s => Same(a, t)
  <2> SUFFICES ASSUME NEW a \in Peers, NEW t \in Ids, a # p \/ t # s
               PROVE  Same(a, t)
    BY Zenon
  <2>1. SameSend(a, t) /\ SameEnd(a, t)
    BY <1>4, Zenon DEF SameSend, SameEnd, sendVars, endVars
  <2>2. SameRecv(a, t) /\ SameWrite(a, t)
    BY <1>4, <1>10, <1>11, ZenonT(30) DEF SameRecv, SameWrite, readVars, writeVars, Updates, Flips
  <2>3. SameOpen(a, t)
    BY <1>4, <1>9, <1>11, Zenon DEF SameOpen, Updates, Flips
  <2> QED
    BY <2>1, <2>2, <2>3, Zenon DEF Same
<1>15. PeerOK(p, q)'
  <2>1. ASSUME NEW i \in 1..Len(incoming'[p])
        PROVE  phase'[p][incoming'[p][i]] \in {"queued", "open"}
    <3>1. CASE incoming'[p][i] = s
      BY <1>9, <3>1, Zenon DEF Updates
    <3>2. CASE i \in 1..Len(incoming[p]) /\ incoming'[p][i] = incoming[p][i]
      <4>1. incoming[p][i] \in Ids
        BY <1>12, <3>2
      <4>2. phase[p][incoming[p][i]] \in {"queued", "open"}
        BY <1>6, <3>2, Zenon DEF PeerOK
      <4> QED
        BY <1>9, <3>2, <4>1, <4>2, Zenon DEF Updates
    <3> QED
      BY <1>12, <3>1, <3>2, Zenon
  <2> QED
    BY <1>1, <1>4, <1>6, <2>1, Zenon DEF PeerOK, PeerOwns, Up
<1>16. PeerOK(q, p)'
  <2>1. ASSUME NEW i \in 1..Len(incoming[q])
        PROVE  phase'[q][incoming[q][i]] \in {"queued", "open"}
    <3>1. incoming[q][i] \in Ids
      BY <1>12
    <3>2. phase[q][incoming[q][i]] \in {"queued", "open"}
      BY <1>6, Zenon DEF PeerOK
    <3> QED
      BY <1>0, <1>9, <3>1, <3>2, Zenon DEF Updates
  <2> QED
    BY <1>4, <1>6, <1>7, <1>11, <1>12, <2>1, Zenon DEF PeerOK, PeerOwns, Up
<1>17. OneStream(p, s)
  <2>1. \A a \in Peers : PeerOK(a, Other(a))' /\ Advances(a)
    BY <1>0, <1>4, <1>15, <1>16, OtherPeer, Zenon DEF q, Advances
  <2>2. \A a \in Peers, t \in Ids \ {s} : \E d \in {0, 1} :
            \A k \in Kinds : Keeps(net[a], net'[a], d, k, t)
    BY <1>0, <1>7, OtherPeer, Zenon DEF q
  <2>3. FlowConforms' /\ cause' = cause
    BY <1>4, Zenon DEF IInv, FlowConforms
  <2> QED
    BY <1>13, <1>14, <2>1, <2>2, <2>3, Zenon DEF OneStream
<1>18. /\ SameSend(p, s) /\ SameEnd(p, s) /\ SameWrite(p, s) /\ Raised(p, s) /\ Woken(p, s)
       /\ SameSend(q, s) /\ SameRecv(q, s) /\ SameEnd(q, s) /\ SameWrite(q, s) /\ Raised(q, s)
       /\ Woken(q, s) /\ SameOpen(q, s) /\ phase'[p][s] = "queued" /\ phase'[q][s] = phase[q][s]
  <2>1. SameSend(p, s) /\ SameEnd(p, s) /\ SameWrite(p, s) /\ Raised(p, s) /\ Woken(p, s)
    BY <1>4, Zenon DEF SameSend, SameEnd, SameWrite, Raised, Woken, endVars, sendVars, writeVars
  <2>2. Same(q, s)
    BY <1>0, <1>14, Zenon
  <2>3. phase'[p][s] = "queued"
    BY <1>9, Zenon DEF Updates
  <2> QED
    BY <2>1, <2>2, <2>3, Zenon DEF Same, SameEnd, SameWrite, SameOpen, Raised, Woken
<1>19. /\ Issued(q, s)' = Issued(q, s)
       /\ Credited(p, s)' = Credited(p, s) /\ Credited(q, s)' = Credited(q, s)
       /\ chunk' = chunk /\ sent' = sent /\ delivered' = delivered /\ left' = left /\ cause' = cause
  <2>1. Issued(q, s)' = Issued(q, s)
    BY <1>18, Zenon DEF Issued, Granted, SameRecv
  <2> QED
    BY <1>4, <2>1, Zenon DEF Credited, sendVars, writeVars
<1>20. Granted(p, s)' = Window[p] /\ Issued(p, s)' = Window[p]
  <2>1. /\ recvCredit'[p][s] = Window[p] /\ delivered'[p][s] = 0 /\ grant'[p][s] = 0
        /\ phase'[p][s] = "queued"
    BY <1>4, <1>8, <1>10, <1>18, Zenon DEF Updates, readVars
  <2> QED
    BY <1>2, <2>1 DEF Granted, Issued
<1>21. Ledger(q, s, p)'
  <2>1. /\ consumed'[p][s] = 0 /\ pendingWindow'[p][s] = 0 /\ Credited(q, s)' <= Issued(p, s)'
        /\ Granted(p, s)' + pendingWindow'[p][s] = Window[p] + consumed'[p][s]
        /\ Granted(p, s)' + pendingWindow'[p][s] <= Window[p] + consumed'[p][s]
    BY <1>2, <1>4, <1>8, <1>19, <1>20
  <2> QED
    BY <1>4, <1>5, <1>11, <1>19, <2>1, Zenon DEF StateOK, Ledger, sendVars
<1>22. Handshake(p, s, q)'
  <2>1. ~PeerOwns(q, s) /\ grant'[p][s] = 0
    BY <1>0, <1>1, <1>4, <1>8, Zenon DEF PeerOwns, Peers, readVars
  <2>2. ~(grant'[p][s] > 0)
    BY <2>1
  <2> QED
    BY <1>1, <1>4, <1>5, <1>11, <1>18, <2>1, <2>2, Zenon DEF StateOK, Handshake, Shut, PeerOwns, endVars
<1>23. Handshake(q, s, p)'
  BY <1>1, <1>4, <1>5, <1>18, Zenon DEF StateOK, Handshake, Shut, PeerOwns, SameRecv, SameOpen, SameEnd
<1>24. StateOK(p, s, q)'
  BY <1>0, <1>5, <1>18, <1>19, <1>22, LedgerSame, WriterSame, EndingSame, Zenon DEF StateOK, SameEnd
<1>25. StateOK(q, s, p)'
  BY <1>0, <1>5, <1>18, <1>19, <1>21, <1>23, WriterSame, EndingSame, Zenon DEF StateOK, SameEnd
<1>26. (Finished(p, s) => Finished(p, s)') /\ (Finished(q, s) => Finished(q, s)')
  BY <1>18, Zenon DEF Finished, SameEnd, SameWrite
<1>27. TransitOK(p, s, q)'
  <2>1. /\ Keeps(net[p], net'[p], 0, "DATA", s) /\ Keeps(net[p], net'[p], 0, "OPEN", s)
        /\ Keeps(net[p], net'[p], 0, "CLOSE", s) /\ "OPEN" \in Kinds /\ net'[p] \in Chan
    BY <1>7, <1>13, Zenon DEF Kinds, TypeOK, Chan
  <2>2. DataOK(p, s, q)'
    BY <1>0, <1>1, <1>5, <1>13, <1>18, <1>19, <2>1, DataSame, Zenon DEF TransitOK
  <2>3. CloseOK(p, s, q)'
    BY <1>0, <1>1, <1>5, <1>13, <1>18, <1>19, <1>26, <2>1, CloseSame, Zenon DEF TransitOK
  <2>4. OpenOK(p, s, q)'
    <3>1. Of(net[p], "OPEN", s) = {}
      BY <1>1, <1>5, Zenon DEF TransitOK, OpenOK
    <3>2. Of(net'[p], "OPEN", s) = {}
      BY <2>1, <3>1, Zenon DEF Keeps
    <3> QED
      BY <1>18, <3>2, Zenon DEF OpenOK
  <2>5. CreditOK(p, s, q)'
    <3>1. Within(net[p], "WINDOW", s, 0, 0)
      BY <1>5, <1>8, Zenon DEF TransitOK, CreditOK
    <3>2. CASE Up(q)
      <4>1. PICK mid \in Chan : Appends(net[p], f, mid) /\ Appends(mid, Credit(s, 0, Window[p]), net'[p])
        BY <1>7, <3>2, Zenon DEF g
      <4>2. /\ Within(net'[p], "WINDOW", s, 0, Window[p]) /\ Linked(net'[p], "WINDOW", s, 0)
            /\ Reaches(net'[p], "WINDOW", s, 0, Window[p])
            /\ \A i \in Of(net'[p], "WINDOW", s) : net'[p][i].to = Window[p]
        BY SMTT(30), <1>2, <1>3, <1>7, <3>1, <4>1, FirstCredit
      <4> QED
        BY <1>8, <1>19, <1>20, <4>2, Zenon DEF CreditOK
    <3>3. CASE ~Up(q)
      <4>1. net'[p] = net[p] /\ Of(net[p], "WINDOW", s) = {}
        <5>1. \A i \in Of(net[p], "WINDOW", s) : /\ net[p][i].from \in Nat /\ net[p][i].to \in Nat
                                               /\ net[p][i].from < net[p][i].to /\ net[p][i].to <= 0
          BY <1>7, <3>1, OfFrames, Zenon DEF Within, Kinds
        <5>2. Of(net[p], "WINDOW", s) = {}
          BY <5>1
        <5> QED
          BY <1>7, <3>3, <5>2, Zenon
      <4> QED
        BY <1>19, <3>3, <4>1, Zenon DEF CreditOK, Within, Linked, Up
    <3> QED
      BY <3>2, <3>3, Zenon
  <2> QED
    BY <2>2, <2>3, <2>4, <2>5, Zenon DEF TransitOK
<1>28. TransitOK(q, s, p)'
  <2>1. /\ Keeps(net[q], net'[q], 1, "DATA", s) /\ Keeps(net[q], net'[q], 1, "WINDOW", s)
        /\ Keeps(net[q], net'[q], 1, "CLOSE", s) /\ Keeps(net[q], net'[q], 1, "ACCEPT", s)
        /\ "OPEN" \in Kinds
    BY <1>7, Zenon DEF Kinds
  <2>2. DataOK(q, s, p)'
    BY <1>0, <1>1, <1>5, <1>13, <1>18, <1>19, <2>1, DataSame, Zenon DEF TransitOK
  <2>3. CloseOK(q, s, p)'
    BY <1>0, <1>1, <1>5, <1>13, <1>18, <1>19, <1>26, <2>1, CloseSame, Zenon DEF TransitOK
  <2>4. CreditOK(q, s, p)'
    BY <1>0, <1>1, <1>5, <1>13, <1>18, <1>19, <2>1, CreditSame, Zenon DEF TransitOK
  <2>5. OpenOK(q, s, p)'
    <3>1. Of(net'[q], "OPEN", s) = {i \in Nat \ {0} : i + 1 \in Of(net[q], "OPEN", s)}
      BY SMTT(30), <1>7, <2>1, TailOf
    <3>2. Of(net'[q], "OPEN", s) = {}
      BY <1>1, <3>1
    <3> QED
      BY <1>1, <1>18, <3>2, Zenon DEF OpenOK
  <2> QED
    BY <2>2, <2>3, <2>4, <2>5, Zenon DEF TransitOK
<1> QED
  BY <1>17, <1>24, <1>25, <1>27, <1>28, StepInv, Zenon DEF q

=============================================================================
