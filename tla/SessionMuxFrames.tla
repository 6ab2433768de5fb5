-------------------------- MODULE SessionMuxFrames --------------------------
(***************************************************************************)
(* The handlers of incoming frames (Mux.handleFrame) keep IInv: first the  *)
(* frames that are dropped, refused or end a stream, then ACCEPT, WINDOW   *)
(* and DATA, where the invariant has to show that an honest peer passes the*)
(* checks of Stream.addSendCredit and Stream.deliver.                      *)
(***************************************************************************)
EXTENDS SessionMuxInv

-----------------------------------------------------------------------------
(* The frame at the head of the channel is gone *)

\* The next frame from a to b is taken, and nothing else about stream t of a changes.
LEMMA DropTransit ==
    ASSUME TypeOK, TypeOK', NEW a \in Peers, NEW b \in Peers, NEW t \in Ids,
           TransitOK(a, t, b), Drops(net[a], net'[a]), Same(a, t), Raised(b, t),
           UNCHANGED cause, delivered'[b][t] = delivered[b][t],
           Credited(b, t)' = Credited(b, t), phase'[b][t] = phase[b][t],
           net[a][1].kind = "WINDOW" /\ net[a][1].id = t => Shut(b, t)',
           net[a][1].kind = "DATA" /\ net[a][1].id = t => t \in remoteClosed'[b]
    PROVE  TransitOK(a, t, b)'
<1>1. /\ net[a] \in Chan /\ net'[a] \in Chan
      /\ {"DATA", "WINDOW", "OPEN", "ACCEPT", "CLOSE"} \subseteq Kinds
  BY Zenon DEF TypeOK, Chan, Kinds
<1>2. ASSUME NEW k \in Kinds
      PROVE  /\ Of(net'[a], k, t) = {i \in Nat \ {0} : i + 1 \in Of(net[a], k, t)}
             /\ \A i \in Of(net'[a], k, t) : net'[a][i] = net[a][i + 1]
             /\ net[a][1].kind # k \/ net[a][1].id # t => Keeps(net[a], net'[a], 1, k, t)
  <2>1. net[a][1].kind # k \/ net[a][1].id # t => Keeps(net[a], net'[a], 1, k, t)
    BY <1>1, KeepsDrop, Zenon
  <2>2. /\ Of(net'[a], k, t) = {i \in Nat \ {0} : i + 1 \in Of(net[a], k, t)}
        /\ \A i \in Of(net'[a], k, t) : net'[a][i] = net[a][i + 1]
    BY <1>1, TailOf
  <2> QED
    BY <2>1, <2>2, Zenon
<1>3. /\ sent'[a][t] = sent[a][t] /\ chunk'[a][t] = chunk[a][t] /\ phase'[a][t] = phase[a][t]
      /\ Issued(a, t)' = Issued(a, t)
      /\ Finished(a, t) => Finished(a, t)'
  BY Zenon DEF Same, SameSend, SameRecv, SameWrite, SameOpen, SameEnd, Issued, Granted, Finished
<1>4. DataOK(a, t, b)'
  <2>1. CASE net[a][1].kind # "DATA" \/ net[a][1].id # t
    BY <1>1, <1>2, <1>3, <2>1, DataSame, Zenon DEF TransitOK
  <2>2. CASE net[a][1].kind = "DATA" /\ net[a][1].id = t
    <3>1. Within(net'[a], "DATA", t, delivered[b][t], sent[a][t] - chunk[a][t])
      <4>1. Within(net[a], "DATA", t, delivered[b][t], sent[a][t] - chunk[a][t])
        BY Zenon DEF TransitOK, DataOK
      <4> QED
        BY <1>1, <4>1, CarryTail, Numbers, Zenon
    <3>2. \A i \in Of(net'[a], "DATA", t) : Size(net'[a][i]) <= Fragment(a)
      BY <1>1, <1>2, Zenon DEF TransitOK, DataOK
    <3> QED
      BY <1>3, <2>2, <3>1, <3>2, Zenon DEF DataOK, Fragment, Size
  <2> QED
    BY <2>1, <2>2, Zenon
<1>5. CreditOK(a, t, b)'
  <2>1. CASE net[a][1].kind # "WINDOW" \/ net[a][1].id # t
    BY <1>1, <1>2, <1>3, <2>1, CreditSame, Zenon DEF TransitOK
  <2>2. CASE net[a][1].kind = "WINDOW" /\ net[a][1].id = t
    <3>1. Within(net'[a], "WINDOW", t, Credited(b, t), Issued(a, t))
      <4>1. Within(net[a], "WINDOW", t, Credited(b, t), Issued(a, t)) /\ Credited(b, t) \in Nat
        BY Numbers DEF TransitOK, CreditOK, Credited
      <4> QED
        BY <1>1, <4>1, CarryTail, Zenon
    <3>2. \A i \in Of(net'[a], "WINDOW", t) : net'[a][i].from = 0 => net'[a][i].to = Window[a]
      BY <1>1, <1>2 DEF TransitOK, CreditOK
    <3> QED
      BY <1>3, <2>2, <3>1, <3>2, Zenon DEF CreditOK
  <2> QED
    BY <2>1, <2>2, Zenon
<1>6. OpenOK(a, t, b)'
  <2>1. /\ Of(net'[a], "OPEN", t) = {i \in Nat \ {0} : i + 1 \in Of(net[a], "OPEN", t)}
        /\ Of(net'[a], "ACCEPT", t) = {i \in Nat \ {0} : i + 1 \in Of(net[a], "ACCEPT", t)}
    BY <1>1, <1>2, Zenon
  <2> QED
    BY <1>3, <2>1 DEF TransitOK, OpenOK, PeerOwns
<1>7. CloseOK(a, t, b)'
  <2>1. /\ Of(net'[a], "DATA", t) = {i \in Nat \ {0} : i + 1 \in Of(net[a], "DATA", t)}
        /\ Of(net'[a], "CLOSE", t) = {i \in Nat \ {0} : i + 1 \in Of(net[a], "CLOSE", t)}
    BY <1>1, <1>2, Zenon
  <2>2. Of(net'[a], "CLOSE", t) # {} => Of(net[a], "CLOSE", t) # {}
    BY <2>1, Zenon
  <2>3. Of(net[a], "CLOSE", t) # {} =>
            /\ Finished(a, t)'
            /\ \A i \in Of(net'[a], "DATA", t), j \in Of(net'[a], "CLOSE", t) : i < j
    BY <1>3, <2>1 DEF TransitOK, CloseOK
  <2>4. ASSUME Of(net[a], "CLOSE", t) # {}, t \notin remoteClosed'[b]
        PROVE  Reaches(net'[a], "DATA", t, delivered'[b][t], sent'[a][t])
    <3>1. Reaches(net[a], "DATA", t, delivered[b][t], sent[a][t])
      BY <2>4, Zenon DEF TransitOK, CloseOK, Raised
    <3>2. Keeps(net[a], net'[a], 1, "DATA", t)
      BY <1>1, <1>2, <2>4, Zenon
    <3> QED
      BY <1>1, <1>3, <3>1, <3>2, CarrySame, Zenon
  <2> QED
    BY <2>2, <2>3, <2>4, Zenon DEF CloseOK
<1> QED
  BY <1>4, <1>5, <1>6, <1>7, Zenon DEF TransitOK

\* The read loop of p handles a frame of stream s and answers with f or not at all.
\* The frame is gone; credit and bytes may be lost with it only where the stream
\* takes no more of them.
TakesFrame(p, s, f) ==
    /\ TypeOK' /\ Up(p) /\ net[Other(p)] # <<>> /\ Arrived(p).id = s
    /\ f.kind = "RESET" /\ f.id = s /\ (Silent(p) \/ Answer(p, f))
    /\ UNCHANGED <<cause, nextID, incoming, phase, isOpen, sendVars, recvVars, left, chunk,
                   grant, ender, localClosed, violated>>
    /\ \A a \in Peers, t \in Ids : a # p \/ t # s => Same(a, t)
    /\ Raised(p, s) /\ Woken(p, s)
    /\ s \in failed'[p] => s \in remoteClosed'[p]
    /\ Arrived(p).kind = "WINDOW" => Shut(p, s)'
    /\ Arrived(p).kind = "DATA" => s \in remoteClosed'[p]
    /\ \/ accepted'[p][s] = accepted[p][s]
       \/ accepted'[p][s] = "ok" /\ phase[Other(p)][s] # "none"
       \/ accepted'[p][s] = "err" /\ s \in failed'[p]
    /\ s \notin streams[p] \/ s \in streams'[p] \/ (Shut(p, s)' /\ s \in remoteClosed'[p])
    /\ \/ s \in remoteClosed[p] \/ s \notin remoteClosed'[p] \/ s \in failed'[p]
       \/ (Finished(Other(p), s) /\ delivered[p][s] = sent[Other(p)][s])

\* Taking a frame that does not count, and raising the flags of its stream, keeps IInv.
LEMMA TakeInv ==
    ASSUME IInv, NEW p \in Peers, NEW s \in Ids, NEW f \in Frame, TakesFrame(p, s, f)
    PROVE  IInv'
<1> DEFINE q == Other(p)
<1>1. /\ TypeOK /\ q \in Peers /\ q # p /\ Other(q) = p
      /\ StateOK(p, s, q) /\ TransitOK(p, s, q) /\ StateOK(q, s, p) /\ TransitOK(q, s, p)
  BY OtherPeer, Zenon DEF IInv
<1>2. /\ Drops(net[q], net'[q]) /\ net[q][1] = Arrived(p)
      /\ \A k \in Kinds, t \in Ids : k # Arrived(p).kind \/ t # s =>
                                       Keeps(net[q], net'[q], 1, k, t)
      /\ \A k \in Kinds, t \in Ids : k # "RESET" \/ t # s => Keeps(net[p], net'[p], 0, k, t)
  BY <1>1, TakeChannel, Zenon DEF TakesFrame
<1>3. /\ Same(q, s) /\ TypeOK' /\ Raised(p, s) /\ Woken(p, s) /\ nextID' = nextID /\ cause' = cause
      /\ phase' = phase /\ incoming' = incoming /\ violated' = violated
      /\ s \in failed'[p] => s \in remoteClosed'[p]
      /\ Arrived(p).id = s /\ Arrived(p).kind = "WINDOW" => Shut(p, s)'
      /\ Arrived(p).kind = "DATA" => s \in remoteClosed'[p]
  BY <1>1, Zenon DEF TakesFrame
<1>4. /\ delivered' = delivered /\ sent' = sent /\ chunk' = chunk /\ left' = left
      /\ ender' = ender /\ localClosed' = localClosed
      /\ SameSend(p, s) /\ SameRecv(p, s)
  BY Zenon DEF TakesFrame, sendVars, recvVars, SameSend, SameRecv
<1>5. \/ s \in remoteClosed[p] \/ s \notin remoteClosed'[p] \/ s \in failed'[p]
      \/ (Finished(q, s) /\ delivered[p][s] = sent[q][s])
  BY Zenon DEF TakesFrame
<1>6. Handshake(p, s, q)'
  BY <1>1, <1>3, Zenon DEF TakesFrame, StateOK, Handshake, Shut, PeerOwns, Raised, recvVars
<1> HIDE DEF q
<1>7. /\ SameSend(q, s) /\ SameRecv(q, s) /\ SameWrite(q, s) /\ SameOpen(q, s) /\ SameEnd(q, s)
  BY <1>3, Zenon DEF Same
<1>8. Raised(q, s) /\ Woken(q, s) /\ (Finished(q, s) => Finished(q, s)')
  BY <1>7, Zenon DEF SameEnd, SameWrite, Raised, Woken, Finished
<1>9. /\ Issued(p, s)' = Issued(p, s) /\ Issued(q, s)' = Issued(q, s)
      /\ Credited(p, s)' = Credited(p, s) /\ Credited(q, s)' = Credited(q, s)
  BY <1>3, <1>4, <1>7, Zenon DEF Issued, Granted, Credited, SameSend, SameRecv
<1>10. Ledger(p, s, q)' /\ Ledger(q, s, p)'
  BY <1>1, <1>3, <1>4, <1>7, <1>8, <1>9, LedgerSame, Zenon DEF StateOK
<1>11. WriterOK(p, s)' /\ WriterOK(q, s)'
  BY <1>1, <1>3, <1>4, <1>8, WriterSame, Zenon DEF StateOK
<1>12. Ending(p, s, q)'
  BY <1>1, <1>3, <1>4, <1>7, Zenon DEF StateOK, Ending, Finished, SameEnd, Raised, Woken
<1>13. Ending(q, s, p)'
  BY <1>1, <1>3, <1>4, <1>5, <1>7, <1>8, Zenon DEF StateOK, Ending, SameEnd, Raised
<1>14. Handshake(q, s, p)'
  BY <1>1, <1>3, <1>7, <1>8, HandshakeSame, Zenon DEF StateOK, Advances
<1>15. TransitOK(p, s, q)'
  <2>1. Finished(p, s) => Finished(p, s)'
    BY <1>3, <1>4, Zenon DEF Finished, Woken
  <2>2. \A k \in Kinds \ {"RESET"} : Keeps(net[p], net'[p], 0, k, s)
    BY <1>2, Zenon
  <2> QED
    BY <1>1, <1>3, <1>4, <1>8, <1>9, <2>1, <2>2, KeepTransit, Zenon
<1>16. TransitOK(q, s, p)'
  BY <1>1, <1>2, <1>3, <1>4, <1>9, DropTransit, Zenon
<1>17. PeerOK(p, q)'
  BY <1>1, <1>3, Zenon DEF TakesFrame, IInv, PeerOK, PeerOwns, Up, q
<1>18. PeerOK(q, p)'
  <2>1. Up(q) \/ net'[p] = net[p]
    BY <1>1, Zenon DEF TakesFrame, Silent, Answer, TypeOK, q
  <2>2. streams[q] = {} => streams'[q] = {}
    <3>1. streams'[q] \subseteq Ids
      BY <1>1, <1>3, Zenon DEF TypeOK, Sets
    <3>2. \A t \in Ids : t \in streams'[q] <=> t \in streams[q]
      BY <1>1, Zenon DEF TakesFrame, Same, SameOpen
    <3> QED
      BY <3>1, <3>2, Zenon
  <2> QED
    BY <1>1, <1>3, <2>1, <2>2, Zenon DEF IInv, PeerOK, PeerOwns, Up
<1>19. OneStream(p, s)
  <2>1. \A a \in Peers : PeerOK(a, Other(a))' /\ Advances(a)
    BY <1>1, <1>3, <1>17, <1>18, OtherPeer, Zenon DEF q, Advances
  <2>2. FlowConforms'
    BY <1>3, Zenon DEF IInv, FlowConforms
  <2>3. \A a \in Peers, t \in Ids \ {s} : \E d \in {0, 1} :
            \A k \in Kinds : Keeps(net[a], net'[a], d, k, t)
    BY <1>2, OtherPeer, Zenon DEF q
  <2> QED
    BY <1>3, <2>1, <2>2, <2>3, Zenon DEF OneStream, TakesFrame
<1> QED
  BY <1>10, <1>11, <1>12, <1>13, <1>6, <1>14, <1>15, <1>16, <1>19, StepInv, Zenon DEF StateOK, q

\* An arriving frame
LEMMA ArrivalFacts ==
    ASSUME TypeOK, NEW p \in Peers, NEW k, Arrives(p, k)
    PROVE  /\ Up(p) /\ net[Other(p)] # <<>> /\ net[Other(p)] \in Chan
           /\ Arrived(p) \in Frame /\ Arrived(p).kind = k /\ Arrived(p).id \in Ids
           /\ Arrived(p) = net[Other(p)][1]
           /\ Control("RESET", Arrived(p).id) \in Frame
<1>1. net[Other(p)] \in Chan
  BY OtherPeer, Zenon DEF TypeOK, Chan
<1>2. Arrived(p) \in Frame /\ Arrived(p) = net[Other(p)][1]
  BY <1>1, ChanTail, Zenon DEF Arrives, Arrived
<1>3. Arrived(p).id \in Ids
  BY <1>2, Zenon DEF Frame
<1> QED
  BY <1>1, <1>2, <1>3, Zenon DEF Arrives, Control, Frame, Kinds

\* The frame that arrives is the first in the channel.
LEMMA ArrivedOf ==
    ASSUME TypeOK, NEW p \in Peers, NEW k \in Kinds, Arrives(p, k)
    PROVE  1 \in Of(net[Other(p)], k, Arrived(p).id)
<1>1. net[Other(p)] \in Chan /\ Len(net[Other(p)]) \in Nat /\ Len(net[Other(p)]) >= 1
  BY ArrivalFacts, ChanTail DEF Drops, Chan
<1> QED
  BY <1>1, ArrivalFacts DEF Of

-----------------------------------------------------------------------------
(* The handlers *)

\* Nothing changes but the channels.
LEMMA IgnoreInv ==
    ASSUME IInv, NEW p \in Peers, NEW k \in Kinds, Arrives(p, k), NEW s \in Ids, s = Arrived(p).id,
           k = "WINDOW" => Shut(p, s), k = "DATA" => s \in remoteClosed[p],
           Silent(p) \/ Answer(p, Control("RESET", s)),
           UNCHANGED <<muxVars, openVars, endVars, sendVars, recvVars, writeVars, readVars,
                       ender, violated>>
    PROVE  IInv'
<1>1. /\ TypeOK /\ StateOK(p, s, Other(p))
      /\ Up(p) /\ net[Other(p)] # <<>> /\ Arrived(p).kind = k /\ Arrived(p).id \in Ids
      /\ Control("RESET", s) \in Frame
  BY ArrivalFacts, Zenon DEF IInv
<1>2. Control("RESET", s).kind = "RESET" /\ Control("RESET", s).id = s
  BY Zenon DEF Control
<1>3. TypeOK'
  <2>1. net' \in [Peers -> Seq(Frame)]
    BY <1>1, TakeChannel, Zenon
  <2> QED
    BY <1>1, <2>1, Zenon DEF TypeOK, muxVars, openVars, endVars, sendVars, recvVars, writeVars, readVars
<1>4. \A a \in Peers, t \in Ids : Same(a, t)
  BY ZenonT(30) DEF Same, SameSend, SameRecv, SameWrite, SameOpen, SameEnd,
         muxVars, openVars, endVars, sendVars, recvVars, writeVars, readVars
<1>5. /\ Raised(p, s) /\ Woken(p, s) /\ Shut(p, s)' = Shut(p, s)
      /\ s \in failed'[p] => s \in remoteClosed'[p]
      /\ accepted'[p][s] = accepted[p][s] /\ streams' = streams /\ remoteClosed' = remoteClosed
  BY <1>1, Zenon DEF Raised, Woken, Shut, StateOK, Ending, endVars, openVars, writeVars, muxVars
<1>6. UNCHANGED <<cause, nextID, incoming, phase, isOpen, sendVars, recvVars, left, chunk,
                  grant, ender, localClosed, violated>>
  BY Zenon DEF muxVars, openVars, endVars, writeVars, readVars
<1> QED
  BY <1>1, <1>2, <1>3, <1>4, <1>5, <1>6, TakeInv, Zenon DEF TakesFrame

\* What the invariant says about the frame that arrives
LEMMA DataArrives ==
    ASSUME IInv, NEW p \in Peers, Arrives(p, "DATA"), NEW s \in Ids, s = Arrived(p).id
    PROVE  /\ s \in windowAdvertised[p] /\ s \in isOpen[p] /\ phase[p][s] # "none"
           /\ delivered[p][s] <= Arrived(p).from /\ Arrived(p).from < Arrived(p).to
           /\ Arrived(p).to <= sent[Other(p)][s] - chunk[Other(p)][s]
           /\ Size(Arrived(p)) <= Fragment(Other(p))
           /\ s \in remoteClosed[p] => s \in failed[p]
           /\ s \notin remoteClosed[p] => Arrived(p).from = delivered[p][s]
<1> DEFINE q == Other(p)
           f == Arrived(p)
<1>1. /\ TypeOK /\ q \in Peers /\ Other(q) = p
      /\ StateOK(p, s, q) /\ StateOK(q, s, p) /\ DataOK(q, s, p)
  BY OtherPeer, Zenon DEF IInv, TransitOK
<1>2. 1 \in Of(net[q], "DATA", s) /\ net[q][1] = f /\ f.from \in Nat /\ f.to \in Nat
  BY <1>1, ArrivedOf, ArrivalFacts, Zenon DEF Kinds, Frame
<1>3. /\ delivered[p][s] <= f.from /\ f.from < f.to
      /\ f.to <= sent[q][s] - chunk[q][s] /\ Size(f) <= Fragment(q)
  BY <1>1, <1>2, Zenon DEF DataOK, Within
<1>4. s \notin remoteClosed[p] => f.from = delivered[p][s]
  <2>1. \A j \in Of(net[q], "DATA", s) : ~(j < 1)
    BY <1>1, ArrivalFacts, OfFrames DEF Kinds
  <2> QED
    BY <1>1, <1>2, <2>1, Zenon DEF DataOK, Linked
<1> HIDE DEF q, f
<1>5. s \in remoteClosed[p] => s \in failed[p]
  BY <1>1, <1>2, <1>3, Numbers DEF StateOK, Ending
<1>6. Granted(p, s) > 0
  BY SMTT(30), <1>1, <1>2, <1>3, Numbers DEF StateOK, Ledger, Issued, Credited, Granted
<1>7. s \in windowAdvertised[p]
  BY SMTT(30), <1>1, <1>6 DEF StateOK, Ledger
<1> QED
  BY <1>1, <1>3, <1>4, <1>5, <1>7, Zenon DEF StateOK, Handshake, q, f

\* The WINDOW that arrives is the next one the sender is to book.
LEMMA CreditArrives ==
    ASSUME IInv, NEW p \in Peers, Arrives(p, "WINDOW"), NEW s \in Ids, s = Arrived(p).id
    PROVE  /\ phase[p][s] # "none"
           /\ Credited(p, s) <= Arrived(p).from /\ Arrived(p).from < Arrived(p).to
           /\ Arrived(p).to <= Issued(Other(p), s)
           /\ Arrived(p).from = 0 => Arrived(p).to = Window[Other(p)]
           /\ ~Shut(p, s) => Arrived(p).from = Credited(p, s)
<1> DEFINE q == Other(p)
           f == Arrived(p)
<1>1. /\ TypeOK /\ q \in Peers /\ Other(q) = p
      /\ StateOK(p, s, q) /\ StateOK(q, s, p) /\ CreditOK(q, s, p)
  BY OtherPeer, Zenon DEF IInv, TransitOK
<1>2. 1 \in Of(net[q], "WINDOW", s) /\ net[q][1] = f /\ f.from \in Nat /\ f.to \in Nat
  BY <1>1, ArrivedOf, ArrivalFacts, Zenon DEF Kinds, Frame
<1>3. /\ Credited(p, s) <= f.from /\ f.from < f.to /\ f.to <= Issued(q, s)
      /\ f.from = 0 => f.to = Window[q]
  BY <1>1, <1>2, Zenon DEF CreditOK, Within
<1>4. ~Shut(p, s) => f.from = Credited(p, s)
  <2>1. \A j \in Of(net[q], "WINDOW", s) : ~(j < 1)
    BY <1>1, ArrivalFacts, OfFrames DEF Kinds
  <2> QED
    BY <1>1, <1>2, <2>1, Zenon DEF CreditOK, Linked
<1> HIDE DEF q, f
<1>5. Granted(q, s) > 0
  BY <1>1, <1>2, <1>3, Numbers DEF Issued, Granted
<1>6. s \in windowAdvertised[q]
  BY <1>1, <1>5 DEF StateOK, Ledger
<1> QED
  BY <1>1, <1>3, <1>4, <1>6, Zenon DEF StateOK, Handshake, q, f

\* handleOpen of a stream the accept policy refuses keeps IInv.
LEMMA RefuseOpenInv ==
    ASSUME IInv, NEW p \in Peers, RefuseOpen(p)
    PROVE  IInv'
  BY ArrivalFacts, IgnoreInv, Zenon DEF RefuseOpen, IInv, Kinds

\* WINDOW for a stream that is gone keeps IInv.
LEMMA DropWindowInv ==
    ASSUME IInv, NEW p \in Peers, DropWindow(p)
    PROVE  IInv'
<1> DEFINE s == Arrived(p).id
<1>1. Arrives(p, "WINDOW") /\ s \in Ids
  BY ArrivalFacts, Zenon DEF DropWindow, IInv
<1>2. Shut(p, s)
  BY <1>1, CreditArrives DEF DropWindow, IInv, StateOK, Handshake, Shut
<1> QED
  BY <1>1, <1>2, IgnoreInv, Zenon DEF DropWindow, Kinds

\* DATA for a stream that is gone, answered by RESET, keeps IInv.
LEMMA RejectDataInv ==
    ASSUME IInv, NEW p \in Peers, RejectData(p)
    PROVE  IInv'
<1> DEFINE s == Arrived(p).id
<1>1. Arrives(p, "DATA") /\ s \in Ids
  BY ArrivalFacts, Zenon DEF RejectData, IInv
<1>2. s \in remoteClosed[p]
  BY <1>1, DataArrives, Zenon DEF RejectData, IInv, StateOK, Handshake
<1> QED
  BY <1>1, <1>2, IgnoreInv, Zenon DEF RejectData, Kinds

\* CLOSE and RESET for a stream that is gone keep IInv.
LEMMA DropEndInv ==
    ASSUME IInv, NEW p \in Peers, DropEnd(p)
    PROVE  IInv'
<1>1. CASE Arrives(p, "CLOSE")
  BY <1>1, ArrivalFacts, IgnoreInv, Zenon DEF DropEnd, Kinds, IInv
<1>2. CASE Arrives(p, "RESET")
  BY <1>2, ArrivalFacts, IgnoreInv, Zenon DEF DropEnd, Kinds, IInv
<1> QED
  BY <1>1, <1>2, Zenon DEF DropEnd

\* The stream has ended with an error already, so the frame is not a violation.
LEMMA ResetStreamInv ==
    ASSUME IInv, NEW p \in Peers, NEW k \in Kinds, Arrives(p, k), NEW s \in Ids, s = Arrived(p).id,
           s \in failed[p], ResetStream(p, s)
    PROVE  IInv'
<1>1. /\ TypeOK /\ Up(p) /\ net[Other(p)] # <<>> /\ Control("RESET", s) \in Frame
  BY ArrivalFacts, Zenon DEF IInv
<1>2. Control("RESET", s).kind = "RESET" /\ Control("RESET", s).id = s
  BY Zenon DEF Control
<1>3. /\ Answer(p, Control("RESET", s)) /\ SignalAccepted(p, s, "err")
      /\ RemoteCloseError(p, s) /\ RemoveStream(p, s)
      /\ UNCHANGED <<cause, nextID, incoming, phase, isOpen, localClosed, sendVars,
                     recvVars, left, chunk, grant, ender, violated>>
  BY Zenon DEF ResetStream
<1>4. /\ net' \in [Peers -> Seq(Frame)] /\ accepted' \in Outcomes /\ remoteClosed' \in Sets
      /\ failed' \in Sets /\ writer' \in Writers /\ reading' \in Sets /\ streams' \in Sets
  BY <1>1, <1>3, TakeChannel, SignalEffect, FailEffect, WakeEffect, RemoveEffect, Zenon
<1>5. TypeOK'
  BY <1>1, <1>3, <1>4, Zenon DEF TypeOK, sendVars, recvVars
<1>6. \A a \in Peers, t \in Ids : a # p \/ t # s => Same(a, t)
  <2> SUFFICES ASSUME NEW a \in Peers, NEW t \in Ids, a # p \/ t # s
               PROVE  Same(a, t)
    BY Zenon
  <2>1. SameSend(a, t) /\ SameRecv(a, t)
    BY <1>3, Zenon DEF SameSend, SameRecv, sendVars, recvVars
  <2>2. SameWrite(a, t)
    <3>1. BroadcastWrite(p, s)
      BY <1>1, <1>3, FailEffect, Zenon
    <3>2. writer'[a][t] = writer[a][t]
      BY <1>1, <3>1, WakeEffect, Zenon
    <3> QED
      BY <1>3, <3>2, Zenon DEF SameWrite
  <2>3. SameOpen(a, t)
    <3>1. accepted'[a][t] = accepted[a][t]
      BY SMTT(30), <1>1, <1>3, SignalEffect
    <3>2. t \in streams'[a] <=> t \in streams[a]
      BY <1>1, <1>3, RemoveEffect, Zenon DEF Flips
    <3> QED
      BY <1>3, <3>1, <3>2, Zenon DEF SameOpen
  <2>4. SameEnd(a, t)
    BY <1>1, <1>3, FailEffect, Zenon DEF SameEnd, Flips
  <2> QED
    BY <2>1, <2>2, <2>3, <2>4, Zenon DEF Same
<1>7. /\ s \in failed'[p] /\ s \in remoteClosed'[p] /\ Woken(p, s) /\ Shut(p, s)' /\ Raised(p, s)
  BY <1>1, <1>3, FailEffect, WakeEffect, Zenon DEF Shut, Raised
<1>8. accepted'[p][s] = accepted[p][s] \/ accepted'[p][s] = "err"
  BY <1>1, <1>3, SignalEffect, Zenon
<1> QED
  BY <1>1, <1>2, <1>3, <1>5, <1>6, <1>7, <1>8, TakeInv, Zenon DEF TakesFrame

\* RESET keeps IInv.
LEMMA HandleResetInv ==
    ASSUME IInv, NEW p \in Peers, HandleReset(p)
    PROVE  IInv'
<1>0. PICK s \in Ids : s = Arrived(p).id
  BY ArrivalFacts, Zenon DEF IInv, HandleReset
<1>1. /\ TypeOK /\ Up(p) /\ net[Other(p)] # <<>> /\ s \in Ids /\ Arrived(p).kind = "RESET"
      /\ Control("RESET", s) \in Frame
  BY <1>0, ArrivalFacts, Zenon DEF IInv, HandleReset
<1>2. Control("RESET", s).kind = "RESET" /\ Control("RESET", s).id = s
  BY Zenon DEF Control
<1>3. /\ Silent(p) /\ SignalAccepted(p, s, "err") /\ RemoteCloseError(p, s) /\ RemoveStream(p, s)
      /\ UNCHANGED <<cause, nextID, incoming, phase, isOpen, localClosed, sendVars,
                     recvVars, left, chunk, grant, ender, violated>>
  BY <1>0, Zenon DEF HandleReset
<1>4. /\ net' \in [Peers -> Seq(Frame)] /\ accepted' \in Outcomes /\ remoteClosed' \in Sets
      /\ failed' \in Sets /\ writer' \in Writers /\ reading' \in Sets /\ streams' \in Sets
  BY <1>1, <1>3, TakeChannel, SignalEffect, FailEffect, WakeEffect, RemoveEffect, Zenon
<1>5. TypeOK'
  BY <1>1, <1>3, <1>4, Zenon DEF TypeOK, sendVars, recvVars
<1>6. \A a \in Peers, t \in Ids : a # p \/ t # s => Same(a, t)
  <2> SUFFICES ASSUME NEW a \in Peers, NEW t \in Ids, a # p \/ t # s
               PROVE  Same(a, t)
    BY Zenon
  <2>1. SameSend(a, t) /\ SameRecv(a, t)
    BY <1>3, Zenon DEF SameSend, SameRecv, sendVars, recvVars
  <2>2. SameWrite(a, t)
    <3>1. BroadcastWrite(p, s)
      BY <1>1, <1>3, FailEffect, Zenon
    <3>2. writer'[a][t] = writer[a][t]
      BY <1>1, <3>1, WakeEffect, Zenon
    <3> QED
      BY <1>3, <3>2, Zenon DEF SameWrite
  <2>3. SameOpen(a, t)
    <3>1. accepted'[a][t] = accepted[a][t]
      BY SMTT(30), <1>1, <1>3, SignalEffect
    <3>2. t \in streams'[a] <=> t \in streams[a]
      BY <1>1, <1>3, RemoveEffect, Zenon DEF Flips
    <3> QED
      BY <1>3, <3>1, <3>2, Zenon DEF SameOpen
  <2>4. SameEnd(a, t)
    BY <1>1, <1>3, FailEffect, Zenon DEF SameEnd, Flips
  <2> QED
    BY <2>1, <2>2, <2>3, <2>4, Zenon DEF Same
<1>7. /\ s \in failed'[p] /\ s \in remoteClosed'[p] /\ Woken(p, s) /\ Shut(p, s)' /\ Raised(p, s)
  BY <1>1, <1>3, FailEffect, WakeEffect, Zenon DEF Shut, Raised
<1>8. accepted'[p][s] = accepted[p][s] \/ accepted'[p][s] = "err"
  BY <1>1, <1>3, SignalEffect, Zenon
<1> QED
  BY <1>0, <1>1, <1>2, <1>3, <1>5, <1>6, <1>7, <1>8, TakeInv, Zenon DEF TakesFrame

\* CLOSE keeps IInv: all DATA before it has been delivered.
LEMMA HandleCloseInv ==
    ASSUME IInv, NEW p \in Peers, HandleClose(p)
    PROVE  IInv'
<1> DEFINE q == Other(p)
<1>0. PICK s \in Ids : s = Arrived(p).id
  BY ArrivalFacts, Zenon DEF IInv, HandleClose
<1>1. /\ TypeOK /\ Up(p) /\ net[q] # <<>> /\ s \in Ids /\ Arrived(p).kind = "CLOSE"
      /\ Control("RESET", s) \in Frame /\ q \in Peers /\ Other(q) = p
      /\ StateOK(p, s, q) /\ StateOK(q, s, p) /\ CloseOK(q, s, p) /\ DataOK(q, s, p)
      /\ net[q] \in Chan /\ 1 \in Of(net[q], "CLOSE", s) /\ "DATA" \in Kinds
  BY SMTT(30), <1>0, ArrivalFacts, ArrivedOf, OtherPeer DEF IInv, HandleClose, TransitOK, Kinds
<1>2. Control("RESET", s).kind = "RESET" /\ Control("RESET", s).id = s
  BY Zenon DEF Control
<1>3. /\ Silent(p) /\ remoteClosed' = Add(remoteClosed, p, s) /\ MaybeRemove(p, s)
      /\ BroadcastWrite(p, s) /\ BroadcastRead(p, s)
      /\ UNCHANGED <<cause, nextID, incoming, openVars, localClosed, failed, sendVars,
                     recvVars, left, chunk, grant, ender, violated>>
  BY <1>0, Zenon DEF HandleClose
<1>4. s \in remoteClosed[p] \/ (Finished(q, s) /\ delivered[p][s] = sent[q][s])
  <2>1. Finished(q, s) /\ (s \in remoteClosed[p] \/ Reaches(net[q], "DATA", s, delivered[p][s], sent[q][s]))
    BY <1>1, Zenon DEF CloseOK
  <2>2. Of(net[q], "DATA", s) = {}
    <3>1. \A i \in Of(net[q], "DATA", s) : i < 1
      BY <1>1, Zenon DEF CloseOK
    <3> QED
      BY <1>1, <3>1, OfFrames
  <2> QED
    BY <2>1, <2>2, Zenon DEF Reaches
<1> HIDE DEF q
<1>5. remoteClosed' \in Sets /\ reading' \in Sets /\ s \in remoteClosed'[p] /\ Flips(remoteClosed, remoteClosed', p, s)
  BY <1>1, <1>3, AddStep, RemoveStep, Zenon DEF TypeOK, BroadcastRead
<1>6. /\ streams' \in Sets /\ Flips(streams, streams', p, s)
      /\ s \in streams[p] => s \in streams'[p] \/ s \in localClosed'[p]
  <2>1. streams \in Sets /\ Flips(streams, streams, p, s)
    BY <1>1, Zenon DEF TypeOK, Flips
  <2> QED
    BY <1>1, <1>3, <2>1, RemoveStep, Zenon DEF MaybeRemove
<1>7. /\ net' \in [Peers -> Seq(Frame)] /\ writer' \in Writers
      /\ \A a \in Peers, t \in Ids : a # p \/ t # s => writer'[a][t] = writer[a][t]
  BY <1>1, <1>3, TakeChannel, WakeEffect, Zenon DEF q
<1>8. TypeOK'
  BY <1>1, <1>3, <1>5, <1>6, <1>7, Zenon DEF TypeOK, sendVars, recvVars, openVars
<1>9. \A a \in Peers, t \in Ids : a # p \/ t # s => Same(a, t)
  <2> SUFFICES ASSUME NEW a \in Peers, NEW t \in Ids, a # p \/ t # s
               PROVE  Same(a, t)
    BY Zenon
  <2>1. SameSend(a, t) /\ SameRecv(a, t)
    BY <1>3, Zenon DEF SameSend, SameRecv, sendVars, recvVars
  <2>2. SameWrite(a, t)
    BY <1>3, <1>7, Zenon DEF SameWrite
  <2>3. SameOpen(a, t)
    BY <1>3, <1>6, Zenon DEF SameOpen, Flips, openVars
  <2>4. SameEnd(a, t)
    BY <1>3, <1>5, Zenon DEF SameEnd, Flips
  <2> QED
    BY <2>1, <2>2, <2>3, <2>4, Zenon DEF Same
<1>10. Raised(p, s) /\ Woken(p, s) /\ (s \in localClosed'[p] => Shut(p, s)')
  BY <1>1, <1>3, <1>5, WakeEffect, Zenon DEF Raised, Shut
<1>11. UNCHANGED <<cause, nextID, incoming, phase, isOpen, sendVars, recvVars, left, chunk,
                   grant, ender, localClosed, violated>> /\ accepted'[p][s] = accepted[p][s]
  BY <1>3, Zenon DEF openVars
<1> QED
  BY <1>0, <1>1, <1>2, <1>3, <1>4, <1>5, <1>6, <1>8, <1>9, <1>10, <1>11, TakeInv, Zenon DEF TakesFrame, q

-----------------------------------------------------------------------------
(* ACCEPT *)

\* ACCEPT arrives for a stream in the table.
LEMMA HandleAcceptInv ==
    ASSUME IInv, NEW p \in Peers, HandleAccept(p), Arrived(p).id \in streams[p]
    PROVE  IInv'
<1>0. PICK s \in Ids : s = Arrived(p).id
  BY ArrivalFacts, Zenon DEF IInv, HandleAccept
<1>1. /\ TypeOK /\ Arrives(p, "ACCEPT") /\ Up(p) /\ net[Other(p)] # <<>>
      /\ Arrived(p).kind = "ACCEPT" /\ Control("RESET", s) \in Frame
  BY <1>0, ArrivalFacts, Zenon DEF IInv, HandleAccept
<1>2. Control("RESET", s).kind = "RESET" /\ Control("RESET", s).id = s
  BY Zenon DEF Control
<1>3. /\ Silent(p) /\ SignalAccepted(p, s, "ok")
      /\ UNCHANGED <<cause, nextID, incoming, streams, phase, isOpen, endVars, sendVars, recvVars,
                     writeVars, readVars, ender, violated>>
  BY <1>0, Zenon DEF HandleAccept, muxVars
<1>4. phase[Other(p)][s] # "none"
  <2>1. Other(p) \in Peers /\ Other(Other(p)) = p
    BY OtherPeer, Zenon
  <2>2. OpenOK(Other(p), s, p)
    BY <2>1, Zenon DEF IInv, TransitOK
  <2>3. 1 \in Of(net[Other(p)], "ACCEPT", s)
    BY <1>0, <1>1, ArrivedOf, Zenon DEF Kinds
  <2> QED
    BY <2>2, <2>3, Zenon DEF OpenOK
<1>5. TypeOK'
  <2>1. net' \in [Peers -> Seq(Frame)] /\ accepted' \in Outcomes
    BY <1>1, <1>3, TakeChannel, SignalEffect, Zenon
  <2> QED
    BY <1>1, <1>3, <2>1, Zenon DEF TypeOK, endVars, sendVars, recvVars, writeVars, readVars
<1>6. \A a \in Peers, t \in Ids : a # p \/ t # s => Same(a, t)
  <2> SUFFICES ASSUME NEW a \in Peers, NEW t \in Ids, a # p \/ t # s
               PROVE  Same(a, t)
    BY Zenon
  <2>1. accepted'[a][t] = accepted[a][t]
    BY <1>1, <1>3, SignalEffect
  <2> QED
    BY <1>3, <2>1, Zenon DEF Same, SameSend, SameRecv, SameWrite, SameOpen, SameEnd,
       endVars, sendVars, recvVars, writeVars, readVars
<1>7. /\ Raised(p, s) /\ Woken(p, s) /\ remoteClosed' = remoteClosed
      /\ s \in failed'[p] => s \in remoteClosed'[p]
  BY <1>3, Zenon DEF IInv, Raised, Woken, StateOK, Ending, endVars, writeVars
<1>8. accepted'[p][s] = accepted[p][s] \/ accepted'[p][s] = "ok"
  BY <1>1, <1>3, SignalEffect, Zenon
<1>9. UNCHANGED <<cause, nextID, incoming, phase, isOpen, sendVars, recvVars, left, chunk,
                  grant, ender, localClosed, violated, streams>>
  BY <1>3, Zenon DEF endVars, writeVars, readVars
<1> QED
  BY <1>0, <1>1, <1>2, <1>3, <1>4, <1>5, <1>6, <1>7, <1>8, <1>9, TakeInv, Zenon DEF TakesFrame

\* The read loop of p handles a frame of stream s that changes only how much p may
\* send or has received on it, and answers nothing.
LEMMA SilentStream ==
    ASSUME IInv, TypeOK', NEW p \in Peers, NEW s \in Ids, NEW k \in Kinds,
           Arrives(p, k), Arrived(p).id = s, Silent(p),
           UNCHANGED <<cause, nextID, streams, incoming, phase, violated>>,
           \A a \in Peers, t \in Ids : a # p \/ t # s => Same(a, t)
    PROVE  /\ OneStream(p, s)
           /\ Drops(net[Other(p)], net'[Other(p)]) /\ net[Other(p)][1] = Arrived(p)
           /\ \A j \in Kinds : j # k => Keeps(net[Other(p)], net'[Other(p)], 1, j, s)
           /\ \A j \in Kinds : Keeps(net[p], net'[p], 0, j, s)
<1> DEFINE q == Other(p)
<1>1. /\ TypeOK /\ Up(p) /\ net[q] # <<>> /\ Arrived(p).kind = k /\ Control("RESET", s) \in Frame
  BY ArrivalFacts, Zenon DEF IInv
<1>0. PeerOK(p, q) /\ PeerOK(q, p)
  BY OtherPeer, Zenon DEF IInv
<1>2. /\ Drops(net[q], net'[q]) /\ net[q][1] = Arrived(p)
      /\ \A j \in Kinds, t \in Ids : j # k \/ t # s => Keeps(net[q], net'[q], 1, j, t)
      /\ \A j \in Kinds, t \in Ids : Keeps(net[p], net'[p], 0, j, t)
  BY <1>1, TakeChannel, Zenon
<1>3. net'[p] = net[p]
  BY OtherPeer, <1>1, Zenon DEF Silent, TypeOK
<1>4. PeerOK(p, q)' /\ PeerOK(q, p)'
  BY <1>0, <1>1, <1>3, Zenon DEF PeerOK, PeerOwns, Up
<1>5. \A a \in Peers : PeerOK(a, Other(a))' /\ Advances(a)
  BY <1>4, OtherPeer, Zenon DEF Advances
<1>6. \A a \in Peers, t \in Ids \ {s} : \E d \in {0, 1} :
          \A j \in Kinds : Keeps(net[a], net'[a], d, j, t)
  BY <1>2, OtherPeer, Zenon
<1>7. FlowConforms'
  BY Zenon DEF IInv, FlowConforms
<1> QED
  BY <1>2, <1>5, <1>6, <1>7, Zenon DEF OneStream

-----------------------------------------------------------------------------
(* WINDOW *)

\* The frame at the head of the channel carries the next bytes, or the next credit.
LEMMA CarryHead ==
    ASSUME NEW fs \in Chan, NEW k \in Kinds, NEW s \in Ids, NEW lo \in Nat, NEW hi,
           Within(fs, k, s, lo, hi), NEW gs, Drops(fs, gs), fs[1].kind = k, fs[1].id = s
    PROVE  /\ Within(gs, k, s, fs[1].to, hi)
           /\ Linked(fs, k, s, lo) => Linked(gs, k, s, fs[1].to)
           /\ Reaches(fs, k, s, lo, hi) => Reaches(gs, k, s, fs[1].to, hi)
  BY CarryTail

\* The arithmetic of addSendCredit and of deliver.
LEMMA CreditWithin ==
    ASSUME NEW bytes \in Nat, NEW credit \in Nat, NEW w \in Nat, NEW from \in Nat, NEW to \in Nat,
           NEW made \in Nat, NEW due \in Nat, NEW read \in Nat, NEW got \in Nat, NEW cut \in Nat,
           from = bytes + credit, from < to, to <= made, made + due <= w + read,
           read <= got, got + cut <= bytes
    PROVE  credit + (to - from) <= w /\ to - from \in Nat /\ bytes + (credit + (to - from)) = to
  OBVIOUS

\* The next DATA frame is within the receiver's credit: what was sent is within what was issued.
LEMMA DataWithin ==
    ASSUME NEW bytes \in Nat, NEW credit \in Nat, NEW w \in Nat, NEW from \in Nat, NEW to \in Nat,
           NEW due \in Nat, NEW read \in Nat, NEW got \in Nat, NEW cut \in Nat, NEW paid \in Nat,
           got = from, from < to, to <= bytes - cut, bytes + paid <= got + credit,
           got + credit + due <= w + read, read <= got
    PROVE  /\ to - from \in Nat /\ to - from <= credit /\ got - read + (to - from) <= w
           /\ credit - (to - from) \in Nat /\ got + (to - from) = to
           /\ to + (credit - (to - from)) = got + credit
           /\ read <= to /\ to + cut <= bytes
  OBVIOUS

\* addSendCredit raises the credit ever received to the upper end of the grant, and
\* never beyond the window of the peer.
LEMMA HandleWindowFits ==
    ASSUME IInv, NEW p \in Peers, HandleWindow(p), NEW s \in Ids, s = Arrived(p).id
    PROVE  /\ CreditFits(p, s, Size(Arrived(p))) /\ Size(Arrived(p)) \in Nat
           /\ IF s \in peerWindowSet[p]
              THEN /\ peerWindow[p][s] = Window[Other(p)]
                   /\ sent[p][s] + (sendCredit[p][s] + Size(Arrived(p))) = Arrived(p).to
              ELSE /\ Size(Arrived(p)) = Window[Other(p)]
                   /\ sent[p][s] + Size(Arrived(p)) = Arrived(p).to
<1> DEFINE q == Other(p)
           f == Arrived(p)
<1>1. /\ TypeOK /\ q \in Peers /\ Other(q) = p /\ Arrives(p, "WINDOW") /\ ~Shut(p, s)
  BY OtherPeer, Zenon DEF IInv, HandleWindow, Shut
<1>2. Ledger(p, s, q) /\ Handshake(q, s, p)
  BY <1>1, Zenon DEF IInv, StateOK
<1>3. /\ Credited(p, s) = f.from /\ f.from < f.to /\ f.to <= Issued(q, s)
      /\ f.from = 0 => f.to = Window[q]
  BY <1>1, CreditArrives, Zenon
<1>4. f.from \in Nat /\ f.to \in Nat
  BY <1>1, ArrivalFacts, Zenon DEF Frame
<1> HIDE DEF q, f
<1>5. /\ sent[p][s] \in Nat /\ sendCredit[p][s] \in Nat /\ chunk[p][s] \in Nat
      /\ delivered[q][s] \in Nat /\ consumed[q][s] \in Nat /\ recvCredit[q][s] \in Nat
      /\ pendingWindow[q][s] \in Nat /\ grant[q][s] \in Nat
  BY <1>1, Numbers, Zenon
<1>6. Window[q] \in Nat /\ MaxWindow \in Nat /\ Window[q] <= MaxWindow
  BY <1>1, Sizes, Zenon
<1>7. f.to <= Granted(q, s) /\ Granted(q, s) \in Nat /\ Granted(q, s) > 0
  BY <1>3, <1>4, <1>5 DEF Issued, Granted
<1>8. /\ Granted(q, s) + pendingWindow[q][s] <= Window[q] + consumed[q][s]
      /\ consumed[q][s] <= delivered[q][s]
      /\ delivered[q][s] + chunk[p][s] <= sent[p][s]
  BY <1>2, <1>7 DEF Ledger
<1>9. /\ sendCredit[p][s] + (f.to - f.from) <= Window[q] /\ f.to - f.from \in Nat
      /\ sent[p][s] + (sendCredit[p][s] + (f.to - f.from)) = f.to
  <2>1. f.from = sent[p][s] + sendCredit[p][s]
    BY <1>3, Zenon DEF Credited
  <2> QED
    BY SMTT(30), <1>3, <1>4, <1>5, <1>6, <1>7, <1>8, <2>1, CreditWithin
<1>10. s \notin peerWindowSet[p] => f.from = 0 /\ f.to = Window[q] /\ sent[p][s] = 0
  <2>1. s \notin peerWindowSet[p] => Credited(p, s) = 0
    BY <1>2, Zenon DEF Ledger
  <2> QED
    BY <1>3, <1>5, <2>1 DEF Credited
<1>11. s \notin peerWindowSet[p] => f.to - f.from = Window[q] /\ sent[p][s] + (f.to - f.from) = f.to
  BY <1>4, <1>6, <1>10
<1>12. s \in peerWindowSet[p] => peerWindow[p][s] = Window[q]
  BY <1>2, Zenon DEF Ledger
<1> QED
  BY <1>6, <1>9, <1>11, <1>12, Zenon DEF CreditFits, Size, q, f

\* WINDOW keeps IInv: addSendCredit never reports a violation.
LEMMA HandleWindowInv ==
    ASSUME IInv, NEW p \in Peers, HandleWindow(p)
    PROVE  IInv'
<1> DEFINE q == Other(p)
<1>0. PICK s \in Ids : s = Arrived(p).id
  BY ArrivalFacts, Zenon DEF IInv, HandleWindow
<1>1. /\ TypeOK /\ q \in Peers /\ q # p /\ Other(q) = p /\ Arrives(p, "WINDOW") /\ ~Shut(p, s)
      /\ StateOK(p, s, q) /\ TransitOK(p, s, q) /\ StateOK(q, s, p) /\ TransitOK(q, s, p)
  <2>1. q \in Peers /\ q # p /\ Other(q) = p
    BY OtherPeer, Zenon
  <2> QED
    BY <1>0, <2>1, Zenon DEF IInv, HandleWindow, Shut
<1> DEFINE n == Size(Arrived(p))
           v == IF s \in peerWindowSet[p] THEN sendCredit[p][s] + n ELSE n
           w == IF s \in peerWindowSet[p] THEN peerWindow[p][s] ELSE n
<1>2. CreditFits(p, s, n) /\ n \in Nat /\ sent[p][s] + v = Arrived(p).to /\ w = Window[q]
  BY <1>0, HandleWindowFits, Zenon
<1>3. /\ Silent(p) /\ AddSendCredit(p, s, n) /\ BroadcastWrite(p, s)
      /\ UNCHANGED <<muxVars, openVars, endVars, recvVars, left, chunk, readVars, ender, violated>>
  BY <1>0, <1>2, Zenon DEF HandleWindow
<1>4. v \in Nat /\ w \in Nat
  BY <1>1, <1>2, Numbers
<1>5. /\ sendCredit \in Counters /\ peerWindow \in Counters /\ peerWindowSet \in Sets
      /\ sendCredit' = [sendCredit EXCEPT ![p][s] = v]
      /\ peerWindow' = [peerWindow EXCEPT ![p][s] = w]
      /\ peerWindowSet' = Add(peerWindowSet, p, s) /\ sent' = sent
  BY <1>1, <1>3, Zenon DEF TypeOK, AddSendCredit
<1>6. /\ UNCHANGED <<cause, nextID, streams, incoming, phase, accepted, isOpen>>
      /\ UNCHANGED <<localClosed, remoteClosed, failed, windowAdvertised, recvCredit>>
      /\ UNCHANGED <<pendingWindow, delivered, consumed, left, chunk, reading, grant>>
      /\ UNCHANGED <<ender, violated>>
  BY <1>3, Zenon DEF muxVars, openVars, endVars, recvVars, readVars
<1> HIDE DEF v, w, n
<1>7. sendCredit' \in Counters /\ Updates(sendCredit, sendCredit', p, s, v)
  BY <1>4, <1>5, CounterStep, Zenon
<1>8. peerWindow' \in Counters /\ Updates(peerWindow, peerWindow', p, s, w)
  BY <1>4, <1>5, CounterStep, Zenon
<1>9. /\ peerWindowSet' \in Sets /\ Flips(peerWindowSet, peerWindowSet', p, s)
      /\ s \in peerWindowSet'[p]
  BY <1>5, AddStep, Zenon
<1>10. /\ writer' \in Writers /\ Woken(p, s)
       /\ \A a \in Peers, t \in Ids : a # p \/ t # s => writer'[a][t] = writer[a][t]
  BY <1>1, <1>3, WakeEffect, Zenon
<1>11. TypeOK'
  <2>1. net' \in [Peers -> Seq(Frame)]
    BY <1>1, <1>3, ArrivalFacts, TakeChannel, Zenon
  <2> QED
    BY <1>1, <1>5, <1>6, <1>7, <1>8, <1>9, <1>10, <2>1, Zenon DEF TypeOK
<1>12. \A a \in Peers, t \in Ids : a # p \/ t # s => Same(a, t)
  <2> SUFFICES ASSUME NEW a \in Peers, NEW t \in Ids, a # p \/ t # s
               PROVE  Same(a, t)
    BY Zenon
  <2>1. SameSend(a, t)
    BY <1>5, <1>7, <1>8, <1>9, Zenon DEF SameSend, Updates, Flips
  <2>2. SameRecv(a, t) /\ SameOpen(a, t)
    BY <1>6, Zenon DEF SameRecv, SameOpen
  <2>3. SameWrite(a, t) /\ SameEnd(a, t)
    BY <1>6, <1>10, Zenon DEF SameWrite, SameEnd
  <2> QED
    BY <2>1, <2>2, <2>3, Zenon DEF Same
<1>13. /\ OneStream(p, s) /\ Drops(net[q], net'[q]) /\ net[q][1] = Arrived(p)
       /\ \A j \in Kinds : j # "WINDOW" => Keeps(net[q], net'[q], 1, j, s)
       /\ \A j \in Kinds : Keeps(net[p], net'[p], 0, j, s)
  BY <1>0, <1>1, <1>3, <1>6, <1>11, <1>12, SilentStream, Zenon DEF Kinds
<1> HIDE DEF q
<1>14. /\ SameRecv(p, s) /\ SameOpen(p, s) /\ SameEnd(p, s) /\ Raised(p, s)
       /\ SameSend(q, s) /\ SameRecv(q, s) /\ SameWrite(q, s) /\ SameOpen(q, s) /\ SameEnd(q, s)
       /\ Raised(q, s) /\ Woken(q, s) /\ Advances(p) /\ Advances(q)
  <2>1. Same(q, s)
    BY <1>1, <1>12, Zenon
  <2> QED
    BY <1>6, <2>1, Zenon DEF Same, SameRecv, SameOpen, SameEnd, Raised, Woken, SameWrite, Advances
<1>15. Credited(p, s)' = Arrived(p).to /\ peerWindow'[p][s] = Window[q]
  BY <1>2, <1>5, <1>7, <1>8, Zenon DEF Credited, Updates
<1>16. /\ Issued(p, s)' = Issued(p, s) /\ Issued(q, s)' = Issued(q, s)
       /\ Credited(q, s)' = Credited(q, s) /\ Granted(q, s)' = Granted(q, s)
  BY <1>14, Zenon DEF Issued, Granted, Credited, SameSend, SameRecv, SameOpen
<1>17. Arrived(p).to <= Issued(q, s) /\ Arrived(p).from = Credited(p, s)
  BY <1>0, <1>1, CreditArrives, Zenon DEF q
<1>18. Ledger(p, s, q)'
  BY <1>1, <1>5, <1>6, <1>9, <1>15, <1>16, <1>17, Zenon DEF StateOK, Ledger
<1>19. Ledger(q, s, p)'
  BY <1>1, <1>14, <1>16, LedgerSame, Zenon DEF StateOK, SameWrite
<1>20. WriterOK(p, s)' /\ WriterOK(q, s)'
  BY <1>1, <1>6, <1>10, <1>14, WriterSame, Zenon DEF StateOK, SameWrite
<1>21. Ending(p, s, q)' /\ Ending(q, s, p)'
  BY <1>1, <1>5, <1>6, <1>10, <1>14, EndingSame, Zenon DEF StateOK
<1>22. Handshake(p, s, q)' /\ Handshake(q, s, p)'
  BY <1>1, <1>6, <1>14, HandshakeSame, Zenon DEF StateOK
<1>23. TransitOK(p, s, q)'
  <2>1. Finished(p, s) => Finished(p, s)'
    BY <1>6, <1>10, Zenon DEF Finished, Woken
  <2>2. 0 \in {0, 1} /\ \A j \in Kinds \ {"RESET"} : Keeps(net[p], net'[p], 0, j, s)
    BY <1>13, Zenon
  <2> QED
    BY <1>1, <1>5, <1>6, <1>11, <1>14, <1>16, <2>1, <2>2, KeepTransit, Zenon
<1>24. CreditOK(q, s, p)'
  <2>1. /\ Within(net[q], "WINDOW", s, Credited(p, s), Issued(q, s))
        /\ Linked(net[q], "WINDOW", s, Credited(p, s))
        /\ ~Up(q) \/ ~Up(p) \/ Reaches(net[q], "WINDOW", s, Credited(p, s), Issued(q, s))
    BY <1>1, Zenon DEF TransitOK, CreditOK
  <2>2. net[q] \in Chan /\ Credited(p, s) \in Nat /\ "WINDOW" \in Kinds
    BY <1>1, Numbers DEF Credited, Kinds
  <2>3. net[q][1].kind = "WINDOW" /\ net[q][1].id = s /\ net[q][1].to = Arrived(p).to
    BY <1>0, <1>1, <1>13, Zenon DEF Arrives
  <2>4. /\ Within(net'[q], "WINDOW", s, Arrived(p).to, Issued(q, s))
        /\ Linked(net'[q], "WINDOW", s, Arrived(p).to)
        /\ ~Up(q) \/ ~Up(p) \/ Reaches(net'[q], "WINDOW", s, Arrived(p).to, Issued(q, s))
    <3>1. Drops(net[q], net'[q])
      BY <1>13, Zenon
    <3>2. /\ Linked(net[q], "WINDOW", s, Credited(p, s)) =>
               Linked(net'[q], "WINDOW", s, net[q][1].to)
          /\ Within(net'[q], "WINDOW", s, net[q][1].to, Issued(q, s))
          /\ Reaches(net[q], "WINDOW", s, Credited(p, s), Issued(q, s)) =>
               Reaches(net'[q], "WINDOW", s, net[q][1].to, Issued(q, s))
      BY <2>1, <2>2, <2>3, <3>1, CarryHead, Zenon
    <3> QED
      BY <2>1, <2>3, <3>2, Zenon
  <2>5. \A i \in Of(net'[q], "WINDOW", s) : net'[q][i].from = 0 => net'[q][i].to = Window[q]
    <3>1. /\ \A i \in Of(net'[q], "WINDOW", s) : /\ i + 1 \in Of(net[q], "WINDOW", s)
                                                 /\ net'[q][i] = net[q][i + 1]
      BY <1>13, <2>2, TailOf
    <3> QED
      BY <1>1, <3>1, Zenon DEF TransitOK, CreditOK
  <2> QED
    BY <1>6, <1>15, <1>16, <2>4, <2>5, Zenon DEF CreditOK, Up, Shut
<1>25. DataOK(q, s, p)' /\ OpenOK(q, s, p)' /\ CloseOK(q, s, p)'
  <2>1. /\ 1 \in {0, 1} /\ Keeps(net[q], net'[q], 1, "DATA", s)
        /\ Keeps(net[q], net'[q], 1, "OPEN", s) /\ Keeps(net[q], net'[q], 1, "ACCEPT", s)
        /\ Keeps(net[q], net'[q], 1, "CLOSE", s)
    BY <1>13, Zenon DEF Kinds
  <2>2. DataOK(q, s, p)'
    BY <1>1, <1>5, <1>6, <1>11, <1>14, <2>1, DataSame, Zenon DEF TransitOK
  <2>3. OpenOK(q, s, p)'
    BY <1>1, <1>6, <1>11, <1>14, <2>1, OpenSame, Zenon DEF TransitOK
  <2>4. Finished(q, s) => Finished(q, s)' /\ sent'[q][s] = sent[q][s]
    BY <1>5, <1>14, Zenon DEF Finished, SameEnd, SameWrite
  <2>5. CloseOK(q, s, p)'
    BY <1>1, <1>6, <1>11, <1>14, <2>1, <2>4, CloseSame, Zenon DEF TransitOK
  <2> QED
    BY <2>2, <2>3, <2>5, Zenon
<1> QED
  BY <1>13, <1>18, <1>19, <1>20, <1>21, <1>22, <1>23, <1>24, <1>25, StepInv, Zenon
     DEF StateOK, TransitOK, q

-----------------------------------------------------------------------------
(* DATA *)

\* deliver never finds more bytes than the credit, the window or the payload limit.
LEMMA HandleDataFits ==
    ASSUME IInv, NEW p \in Peers, Arrives(p, "DATA"), NEW s \in Ids, s = Arrived(p).id,
           s \notin failed[p]
    PROVE  /\ Deliverable(p, s, Size(Arrived(p))) /\ Size(Arrived(p)) \in Nat
           /\ phase[p][s] # "accepted"
           /\ recvCredit[p][s] - Size(Arrived(p)) \in Nat
           /\ delivered[p][s] + Size(Arrived(p)) = Arrived(p).to
           /\ Arrived(p).to + (recvCredit[p][s] - Size(Arrived(p))) = Granted(p, s)
           /\ consumed[p][s] <= Arrived(p).to
           /\ Arrived(p).to + chunk[Other(p)][s] <= sent[Other(p)][s]
<1> DEFINE q == Other(p)
           f == Arrived(p)
<1>1. TypeOK /\ q \in Peers /\ Other(q) = p
  BY OtherPeer, Zenon DEF IInv
<1>2. Ledger(q, s, p) /\ Handshake(p, s, q)
  BY <1>1, Zenon DEF IInv, StateOK
<1>3. /\ s \in windowAdvertised[p] /\ s \in isOpen[p] /\ s \notin remoteClosed[p]
      /\ delivered[p][s] = f.from /\ f.from < f.to /\ f.to <= sent[q][s] - chunk[q][s]
      /\ Size(f) <= Fragment(q)
  BY DataArrives, Zenon
<1>4. f.from \in Nat /\ f.to \in Nat
  BY <1>1, ArrivalFacts, Zenon DEF Frame
<1> HIDE DEF q, f
<1>5. /\ sent[q][s] \in Nat /\ sendCredit[q][s] \in Nat /\ chunk[q][s] \in Nat
      /\ delivered[p][s] \in Nat /\ consumed[p][s] \in Nat /\ recvCredit[p][s] \in Nat
      /\ pendingWindow[p][s] \in Nat /\ grant[p][s] \in Nat
  BY <1>1, Numbers, Zenon
<1>6. Window[p] \in Nat /\ MaxData[p] \in Nat /\ Fragment(q) \in Nat /\ Fragment(q) <= MaxData[p]
  BY <1>1, Sizes, Zenon
<1>7. Credited(q, s) <= Issued(p, s) /\ sent[q][s] > 0
  <2>1. Credited(q, s) <= Issued(p, s)
    BY <1>2, Zenon DEF Ledger
  <2>2. sent[q][s] > 0
    BY <1>3, <1>4, <1>5
  <2> QED
    BY <2>1, <2>2
<1>8. phase[p][s] # "accepted" /\ sent[q][s] + sendCredit[q][s] <= delivered[p][s] + recvCredit[p][s]
  BY <1>5, <1>7 DEF Issued, Granted, Credited
<1>9. /\ delivered[p][s] + recvCredit[p][s] + pendingWindow[p][s] <= Window[p] + consumed[p][s]
      /\ consumed[p][s] <= delivered[p][s]
  BY <1>2, <1>3, Zenon DEF Ledger, Granted
<1>10. /\ f.to - f.from \in Nat /\ f.to - f.from <= recvCredit[p][s]
       /\ delivered[p][s] - consumed[p][s] + (f.to - f.from) <= Window[p]
       /\ recvCredit[p][s] - (f.to - f.from) \in Nat /\ delivered[p][s] + (f.to - f.from) = f.to
       /\ f.to + (recvCredit[p][s] - (f.to - f.from)) = delivered[p][s] + recvCredit[p][s]
       /\ consumed[p][s] <= f.to /\ f.to + chunk[q][s] <= sent[q][s]
  BY SMTT(30), <1>3, <1>4, <1>5, <1>6, <1>8, <1>9, DataWithin
<1>11. f.to - f.from <= MaxData[p]
  BY <1>3, <1>4, <1>6 DEF Size
<1> QED
  BY <1>3, <1>8, <1>10, <1>11, Zenon DEF Deliverable, Buffered, Granted, Size, q, f

\* DATA keeps IInv: deliver never reports a violation.
LEMMA HandleDataInv ==
    ASSUME IInv, NEW p \in Peers, HandleData(p)
    PROVE  IInv'
<1> DEFINE q == Other(p)
<1>0. PICK s \in Ids : s = Arrived(p).id
  BY ArrivalFacts, Zenon DEF IInv, HandleData
<1>1. CASE s \in failed[p]
  <2>1. s \in remoteClosed[p]
    BY <1>1, Zenon DEF IInv, StateOK, Ending
  <2>2. Arrives(p, "DATA") /\ ResetStream(p, s)
    BY <1>0, <2>1, Zenon DEF HandleData, Deliverable
  <2> QED
    BY <1>0, <1>1, <2>2, ResetStreamInv, Zenon DEF Kinds
<1> SUFFICES ASSUME s \notin failed[p]
             PROVE  IInv'
  BY <1>1, Zenon
<1>2. /\ TypeOK /\ q \in Peers /\ q # p /\ Other(q) = p /\ Arrives(p, "DATA")
      /\ StateOK(p, s, q) /\ TransitOK(p, s, q) /\ StateOK(q, s, p) /\ TransitOK(q, s, p)
  <2>1. q \in Peers /\ q # p /\ Other(q) = p
    BY OtherPeer, Zenon
  <2> QED
    BY <2>1, Zenon DEF IInv, HandleData
<1> DEFINE n == Size(Arrived(p))
           to == Arrived(p).to
           v == recvCredit[p][s] - n
<1>3. /\ Deliverable(p, s, n) /\ phase[p][s] # "accepted" /\ v \in Nat
      /\ delivered[p][s] + n = to /\ to + v = Granted(p, s)
      /\ consumed[p][s] <= to /\ to + chunk[q][s] <= sent[q][s]
  BY <1>0, <1>2, HandleDataFits, Zenon
<1>4. /\ Silent(p) /\ Deliver(p, s, n)
      /\ UNCHANGED <<muxVars, openVars, endVars, sendVars, writeVars, grant, ender, violated>>
  BY <1>0, <1>3, Zenon DEF HandleData
<1>5. to \in Nat
  BY <1>2, ArrivalFacts, Zenon DEF Frame
<1>6. /\ recvCredit \in Counters /\ delivered \in Counters /\ reading \in Sets
      /\ recvCredit' = [recvCredit EXCEPT ![p][s] = v]
      /\ delivered' = [delivered EXCEPT ![p][s] = to]
      /\ reading' = Remove(reading, p, s)
  BY <1>2, <1>3, <1>4, Zenon DEF TypeOK, Deliver, BroadcastRead
<1>7. /\ UNCHANGED <<cause, nextID, streams, incoming, phase, accepted, isOpen>>
      /\ UNCHANGED <<localClosed, remoteClosed, failed, windowAdvertised>>
      /\ UNCHANGED <<pendingWindow, consumed, left, chunk, writer, grant>>
      /\ UNCHANGED <<ender, violated, peerWindowSet, peerWindow, sendCredit, sent>>
  BY <1>4, Zenon DEF Deliver, muxVars, openVars, endVars, sendVars, writeVars
<1> HIDE DEF v, to, n
<1>8. recvCredit' \in Counters /\ Updates(recvCredit, recvCredit', p, s, v)
  BY <1>3, <1>6, CounterStep, Zenon
<1>9. delivered' \in Counters /\ Updates(delivered, delivered', p, s, to)
  BY <1>5, <1>6, CounterStep, Zenon
<1>10. TypeOK'
  <2>1. net' \in [Peers -> Seq(Frame)]
    BY <1>2, <1>4, ArrivalFacts, TakeChannel, Zenon
  <2>2. reading' \in Sets
    BY <1>6, RemoveStep, Zenon
  <2> QED
    BY <1>2, <1>7, <1>8, <1>9, <2>1, <2>2, Zenon DEF TypeOK
<1>11. \A a \in Peers, t \in Ids : a # p \/ t # s => Same(a, t)
  <2> SUFFICES ASSUME NEW a \in Peers, NEW t \in Ids, a # p \/ t # s
               PROVE  Same(a, t)
    BY Zenon
  <2>1. SameRecv(a, t)
    BY <1>7, <1>8, <1>9, Zenon DEF SameRecv, Updates
  <2>2. SameSend(a, t) /\ SameOpen(a, t)
    BY <1>7, Zenon DEF SameSend, SameOpen
  <2>3. SameWrite(a, t) /\ SameEnd(a, t)
    BY <1>7, Zenon DEF SameWrite, SameEnd
  <2> QED
    BY <2>1, <2>2, <2>3, Zenon DEF Same
<1>12. /\ OneStream(p, s) /\ Drops(net[q], net'[q]) /\ net[q][1] = Arrived(p)
       /\ \A j \in Kinds : j # "DATA" => Keeps(net[q], net'[q], 1, j, s)
       /\ \A j \in Kinds : Keeps(net[p], net'[p], 0, j, s)
  BY <1>0, <1>2, <1>4, <1>7, <1>10, <1>11, SilentStream, Zenon DEF Kinds
<1> HIDE DEF q
<1>13. /\ SameSend(p, s) /\ SameWrite(p, s) /\ SameOpen(p, s) /\ SameEnd(p, s)
       /\ Raised(p, s) /\ Woken(p, s)
       /\ SameSend(q, s) /\ SameRecv(q, s) /\ SameWrite(q, s) /\ SameOpen(q, s) /\ SameEnd(q, s)
       /\ Raised(q, s) /\ Woken(q, s) /\ Advances(p) /\ Advances(q)
  <2>1. Same(q, s)
    BY <1>2, <1>11, Zenon
  <2>2. SameSend(p, s) /\ SameWrite(p, s) /\ SameOpen(p, s) /\ SameEnd(p, s)
    BY <1>7, Zenon DEF SameSend, SameWrite, SameOpen, SameEnd
  <2> QED
    BY <1>7, <2>1, <2>2, Zenon DEF Same, SameEnd, Raised, Woken, SameWrite, Advances
<1>14. delivered'[p][s] = to /\ Granted(p, s)' = Granted(p, s)
  BY <1>3, <1>8, <1>9, Zenon DEF Granted, Updates
<1>15. /\ Issued(p, s)' = Issued(p, s) /\ Issued(q, s)' = Issued(q, s)
       /\ Credited(p, s)' = Credited(p, s) /\ Credited(q, s)' = Credited(q, s)
  <2>1. Issued(p, s)' = Issued(p, s)
    BY <1>7, <1>14, Zenon DEF Issued
  <2> QED
    BY <1>13, <2>1, Zenon DEF Issued, Granted, Credited, SameSend, SameRecv, SameOpen
<1>16. s \notin remoteClosed[p] /\ s \in windowAdvertised[p]
  BY <1>3, Zenon DEF Deliverable
<1>17. Ledger(p, s, q)'
  BY <1>2, <1>13, <1>15, LedgerSame, Zenon DEF StateOK, SameWrite
<1>18. Ledger(q, s, p)'
  BY <1>2, <1>3, <1>7, <1>14, <1>15, <1>16, Zenon DEF StateOK, Ledger
<1>19. WriterOK(p, s)' /\ WriterOK(q, s)'
  BY <1>2, <1>7, <1>13, WriterSame, Zenon DEF StateOK, SameWrite
<1>20. Ending(p, s, q)'
  BY <1>2, <1>7, <1>13, EndingSame, Zenon DEF StateOK, SameRecv
<1>21. Ending(q, s, p)'
  BY <1>2, <1>7, <1>16, Zenon DEF StateOK, Ending
<1>22. Handshake(p, s, q)'
  BY <1>2, <1>3, <1>7, Zenon DEF StateOK, Handshake, Shut, PeerOwns
<1>23. Handshake(q, s, p)'
  BY <1>2, <1>7, <1>13, HandshakeSame, Zenon DEF StateOK
<1>24. TransitOK(p, s, q)'
  <2>1. Finished(p, s) => Finished(p, s)'
    BY <1>7, Zenon DEF Finished
  <2>2. 0 \in {0, 1} /\ \A j \in Kinds \ {"RESET"} : Keeps(net[p], net'[p], 0, j, s)
    BY <1>12, Zenon
  <2>3. delivered'[q][s] = delivered[q][s]
    BY <1>13, Zenon DEF SameRecv
  <2> QED
    BY <1>2, <1>7, <1>10, <1>13, <1>15, <2>1, <2>2, <2>3, KeepTransit, Zenon
<1> DEFINE end == sent[q][s] - chunk[q][s]
<1>25. /\ Within(net'[q], "DATA", s, to, end) /\ Linked(net'[q], "DATA", s, to)
       /\ ~Up(q) \/ ~Up(p) \/ Reaches(net'[q], "DATA", s, to, end)
       /\ \A hi : Within(net[q], "DATA", s, delivered[p][s], hi)
                    /\ Reaches(net[q], "DATA", s, delivered[p][s], hi) =>
                    Reaches(net'[q], "DATA", s, to, hi)
  <2>1. /\ Within(net[q], "DATA", s, delivered[p][s], end)
        /\ Linked(net[q], "DATA", s, delivered[p][s])
        /\ ~Up(q) \/ ~Up(p) \/ Reaches(net[q], "DATA", s, delivered[p][s], end)
    BY <1>2, <1>16, Zenon DEF TransitOK, DataOK
  <2>2. net[q] \in Chan /\ delivered[p][s] \in Nat /\ "DATA" \in Kinds
    BY <1>2, Numbers, Zenon DEF Kinds
  <2>3. net[q][1].kind = "DATA" /\ net[q][1].id = s /\ net[q][1].to = to
    BY <1>0, <1>2, <1>12, Zenon DEF Arrives, to
  <2>4. Drops(net[q], net'[q])
    BY <1>12, Zenon
  <2> HIDE DEF end
  <2>5. /\ Within(net'[q], "DATA", s, net[q][1].to, end)
        /\ Linked(net[q], "DATA", s, delivered[p][s]) => Linked(net'[q], "DATA", s, net[q][1].to)
    BY <2>1, <2>2, <2>3, <2>4, CarryHead, Zenon
  <2>6. ASSUME NEW hi, Within(net[q], "DATA", s, delivered[p][s], hi),
               Reaches(net[q], "DATA", s, delivered[p][s], hi)
        PROVE  Reaches(net'[q], "DATA", s, to, hi)
    BY <2>2, <2>3, <2>4, <2>6, CarryHead, Zenon
  <2> QED
    BY <2>1, <2>3, <2>5, <2>6, Zenon
<1>26. DataOK(q, s, p)'
  <2>1. \A i \in Of(net'[q], "DATA", s) : Size(net'[q][i]) <= Fragment(q)
    <3>1. net[q] \in Chan /\ Drops(net[q], net'[q]) /\ "DATA" \in Kinds
      BY <1>2, <1>12, Numbers, Zenon DEF Kinds
    <3>2. /\ \A i \in Of(net'[q], "DATA", s) : /\ i + 1 \in Of(net[q], "DATA", s)
                                               /\ net'[q][i] = net[q][i + 1]
      BY <3>1, TailOf
    <3> QED
      BY <1>2, <3>2, Zenon DEF TransitOK, DataOK
  <2> QED
    BY <1>7, <1>14, <1>25, <2>1, Zenon DEF DataOK, Up, Fragment, Size
<1>27. CreditOK(q, s, p)' /\ OpenOK(q, s, p)'
  <2>1. /\ 1 \in {0, 1} /\ Keeps(net[q], net'[q], 1, "WINDOW", s)
        /\ Keeps(net[q], net'[q], 1, "OPEN", s) /\ Keeps(net[q], net'[q], 1, "ACCEPT", s)
    BY <1>12, Zenon DEF Kinds
  <2>2. CreditOK(q, s, p)'
    BY <1>2, <1>7, <1>10, <1>13, <1>15, <2>1, CreditSame, Zenon DEF TransitOK
  <2>3. OpenOK(q, s, p)'
    BY <1>2, <1>7, <1>10, <2>1, OpenSame, Zenon DEF TransitOK
  <2> QED
    BY <2>2, <2>3, Zenon
<1>28. CloseOK(q, s, p)'
  <2>1. /\ Keeps(net[q], net'[q], 1, "CLOSE", s) /\ Drops(net[q], net'[q]) /\ net[q] \in Chan
        /\ "DATA" \in Kinds /\ "CLOSE" \in Kinds
    BY <1>2, <1>12, Numbers, Zenon DEF Kinds
  <2>2. /\ Of(net'[q], "CLOSE", s) = {i \in Nat \ {0} : i + 1 \in Of(net[q], "CLOSE", s)}
        /\ Of(net'[q], "DATA", s) = {i \in Nat \ {0} : i + 1 \in Of(net[q], "DATA", s)}
    BY <2>1, TailOf
  <2> SUFFICES ASSUME Of(net[q], "CLOSE", s) # {}
               PROVE  /\ Finished(q, s)'
                      /\ \A i \in Of(net'[q], "DATA", s), j \in Of(net'[q], "CLOSE", s) : i < j
                      /\ Reaches(net'[q], "DATA", s, delivered'[p][s], sent'[q][s])
    <3>1. Of(net'[q], "CLOSE", s) # {} => Of(net[q], "CLOSE", s) # {}
      BY <2>2, Zenon
    <3> QED
      BY <3>1, Zenon DEF CloseOK
  <2>3. /\ Finished(q, s)
        /\ \A i \in Of(net[q], "DATA", s), j \in Of(net[q], "CLOSE", s) : i < j
        /\ Reaches(net[q], "DATA", s, delivered[p][s], sent[q][s])
    BY <1>2, <1>16, Zenon DEF TransitOK, CloseOK
  <2>4. Finished(q, s)'
    BY <1>7, <2>3, Zenon DEF Finished
  <2>5. \A i \in Of(net'[q], "DATA", s), j \in Of(net'[q], "CLOSE", s) : i < j
    BY <2>2, <2>3
  <2>6. Reaches(net'[q], "DATA", s, delivered'[p][s], sent'[q][s])
    <3>1. chunk[q][s] = 0 /\ sent[q][s] \in Nat
      BY <1>2, <2>3, Numbers, Zenon DEF Finished, StateOK, WriterOK
    <3>2. end = sent[q][s]
      BY <3>1
    <3>3. Within(net[q], "DATA", s, delivered[p][s], sent[q][s])
      BY <1>2, <3>2, Zenon DEF TransitOK, DataOK
    <3> QED
      BY <1>7, <1>14, <1>25, <2>3, <3>3, Zenon
  <2> QED
    BY <2>4, <2>5, <2>6, Zenon
<1> QED
  BY <1>12, <1>17, <1>18, <1>19, <1>20, <1>21, <1>22, <1>23, <1>24, <1>26, <1>27, <1>28, StepInv, Zenon
     DEF StateOK, TransitOK, q

=============================================================================
